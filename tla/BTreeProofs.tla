----------------------------- MODULE BTreeProofs -----------------------------
(***************************************************************************)
(* Proofs about BTree for every number of pages, cells and keys, for a     *)
(* table from its creation, as long as parent pointers name internal       *)
(* nodes.                                                                  *)
(***************************************************************************)
EXTENDS BTreeLemmas

-----------------------------------------------------------------------------
(* Splitting internal nodes. *)

\* The parents are those they were, or one of the pages in P.
ParentsIn(s, t, P) == \A q \in Pages : t.node[q].parent \in {s.node[q].parent} \cup P

\* A child is taken and gets its parent.
LEMMA KidMoved ==
  ASSUME NEW u \in Stores, NEW p \in Pages, NEW kid \in Pages,
         NEW v, v = SetParent(TakeChild(u, p, kid), kid, p), HasChildren(u.node[p])
  PROVE  TakesChild(u, v, p, kid) /\ ParentsIn(u, v, {p})
<1> DEFINE w == TakeChild(u, p, kid)
<1>1. w = TakeChild(u, p, kid) /\ v = SetParent(w, kid, p)
  OBVIOUS
<1> HIDE DEF w
<1>2. TakesChild(u, w, p, kid) /\ SameParents(u, w)
  BY <1>1, ChildTaken
<1>3. w \in Stores
  BY <1>2 DEF TakesChild
<1>4. Adopts(w, v, {kid}, p)
  BY <1>1, <1>3, AdoptedOne
<1>5. v \in Stores /\ SameList(u, v) /\ v.dirty = u.dirty \cup {p}
  BY <1>2, <1>4 DEF TakesChild, Adopts, SameList
<1>6. /\ v.node[p].leaf = w.node[p].leaf /\ v.node[p].root = w.node[p].root
      /\ v.node[p].kids = w.node[p].kids /\ v.node[p].keys = w.node[p].keys
  BY <1>4 DEF Alike, Adopts
<1>7. \A q \in Pages \ {p} : Alike(v.node[q], u.node[q])
  BY <1>2, <1>4 DEF TakesChild, Adopts, Alike
<1>8. ParentsIn(u, v, {p})
  BY <1>2, <1>4 DEF SameParents, Adopts, ParentsIn
<1>9. TakesChild(u, v, p, kid)
  <2>1. /\ w.node[p].leaf = u.node[p].leaf /\ w.node[p].root = u.node[p].root
        /\ ToSet(w.node[p].kids) = ToSet(u.node[p].kids) \cup {kid}
        /\ IsInjective(u.node[p].kids) /\ kid \notin ToSet(u.node[p].kids) =>
             IsInjective(w.node[p].kids)
        /\ Len(w.node[p].kids) = Len(u.node[p].kids) + 1
        /\ Len(w.node[p].keys) = Len(u.node[p].kids)
    BY <1>2, Zenon DEF TakesChild
  <2> QED BY <1>5, <1>6, <1>7, <2>1 DEF TakesChild
<1> QED BY <1>8, <1>9

\* t is s but for a node p, which has the kids in some order.
TakesKids(s, t, p, kids) ==
  /\ t \in Stores /\ SameList(s, t)
  /\ s.dirty \subseteq t.dirty /\ t.dirty \subseteq s.dirty \cup {p}
  /\ \A q \in Pages \ {p} : Alike(t.node[q], s.node[q])
  /\ t.node[p].leaf = s.node[p].leaf /\ t.node[p].root = s.node[p].root
  /\ ToSet(t.node[p].kids) = ToSet(kids) /\ IsInjective(t.node[p].kids)
  /\ Len(t.node[p].kids) = Len(kids) /\ Len(t.node[p].keys) = Len(kids) - 1

\* Children move to a node that has none: it has these children then, in some
\* order, and all else is as it was but their parent pointers.
LEMMA KidsMoved ==
  ASSUME NEW s \in Stores, NEW kids \in Seq(Pages), NEW p \in Pages,
         NEW t, t = MoveKids(s, kids, p),
         IsInjective(kids), p \notin ToSet(kids), kids # <<>>,
         s.node[p].kids = <<>>, s.node[p].keys = <<>>
  PROVE  TakesKids(s, t, p, kids) /\ ParentsIn(s, t, {p})
<1> DEFINE n == Len(kids)
           A == {u \in Stores : HasChildren(u.node[p])}
           Move(u, kid) == SetParent(TakeChild(u, p, kid), kid, p)
           moved[i \in 0 .. n] == IF i = 0 THEN s ELSE Move(moved[i - 1], kids[n - i + 1])
           step == [i \in 1 .. n |-> [u \in A |-> Move(u, kids[n - i + 1])]]
<1>0. n \in Nat /\ n # 0 /\ DOMAIN kids = 1 .. n /\ \A i \in 1 .. n : kids[i] \in Pages
  BY EmptySeq
<1>1. ASSUME NEW u \in A, NEW kid \in Pages, NEW v, v = Move(u, kid)
      PROVE  v \in A /\ TakesChild(u, v, p, kid) /\ ParentsIn(u, v, {p})
  <2>1. u \in Stores /\ HasChildren(u.node[p])
    OBVIOUS
  <2>2. v = SetParent(TakeChild(u, p, kid), kid, p)
    BY <1>1
  <2>3. TakesChild(u, v, p, kid) /\ ParentsIn(u, v, {p})
    BY <2>1, <2>2, KidMoved
  <2>4. HasChildren(v.node[p])
    BY <2>3 DEF TakesChild, HasChildren
  <2>5. v \in Stores
    BY <2>3 DEF TakesChild
  <2> QED BY <2>3, <2>4, <2>5
<1> HIDE DEF Move
<1>2. s \in A
  BY DEF HasChildren
<1>3. AreSteps(step, n, A)
  <2>1. \A i \in 1 .. n : \A u \in A : Move(u, kids[n - i + 1]) \in A
    <3> SUFFICES ASSUME NEW i \in 1 .. n, NEW u \in A
                 PROVE  Move(u, kids[n - i + 1]) \in A
      OBVIOUS
    <3>1. n - i + 1 \in 1 .. n
      BY <1>0
    <3>2. kids[n - i + 1] \in Pages
      BY <1>0, <3>1
    <3> HIDE DEF A
    <3> QED BY <1>1, <3>2
  <2> QED BY <2>1 DEF AreSteps
<1>4. PICK f : Iterates(f, s, step, n, A)
  <2> HIDE DEF step, n, A
  <2> QED BY <1>0, <1>2, <1>3, Iteration
<1>5. \A i \in 1 .. n : i - 1 \in 0 .. n /\ f[i - 1] \in A /\ f[i] = Move(f[i - 1], kids[n - i + 1])
  <2> SUFFICES ASSUME NEW i \in 1 .. n
               PROVE  i - 1 \in 0 .. n /\ f[i - 1] \in A /\ f[i] = Move(f[i - 1], kids[n - i + 1])
    OBVIOUS
  <2>1. i - 1 \in 0 .. n /\ f[i] = step[i][f[i - 1]]
    BY <1>0, <1>4 DEF Iterates
  <2>2. f[i - 1] \in A
    BY <2>1, <1>4 DEF Iterates
  <2> HIDE DEF A
  <2> QED BY <2>1, <2>2
<1>6. f = [i \in 0 .. n |-> IF i = 0 THEN s ELSE Move(f[i - 1], kids[n - i + 1])]
  <2> HIDE DEF A
  <2> QED BY <1>0, <1>4, <1>5 DEF Iterates
<1>7. moved = [i \in 0 .. n |-> IF i = 0 THEN s ELSE Move(moved[i - 1], kids[n - i + 1])]
  BY <1>6, Zenon
<1>8. t = moved[n]
  BY Zenon DEF MoveKids, moved, Move
<1> HIDE DEF moved, step
<1> DEFINE First(i) == {kids[j] : j \in n - i + 1 .. n}
           Has(i, u) ==
             /\ u \in A /\ SameList(s, u)
             /\ s.dirty \subseteq u.dirty /\ u.dirty \subseteq s.dirty \cup {p}
             /\ \A q \in Pages \ {p} : Alike(u.node[q], s.node[q])
             /\ \A q \in Pages : u.node[q].parent \in {s.node[q].parent, p}
             /\ u.node[p].leaf = s.node[p].leaf /\ u.node[p].root = s.node[p].root
             /\ ToSet(u.node[p].kids) = First(i) /\ IsInjective(u.node[p].kids)
             /\ Len(u.node[p].kids) = i /\ (i # 0 => Len(u.node[p].keys) = i - 1)
<1>9. Has(0, s)
  <2>1. First(0) = {} /\ ToSet(s.node[p].kids) = {} /\ IsInjective(s.node[p].kids)
        /\ Len(s.node[p].kids) = 0
    BY <1>0 DEF ToSet, IsInjective
  <2>2. \A q \in Pages : Alike(s.node[q], s.node[q])
    BY DEF Alike
  <2> HIDE DEF A, First
  <2> QED BY <1>2, <2>1, <2>2 DEF SameList
<1>10. ASSUME NEW k \in 0 .. n - 1, NEW u, Has(k, u), NEW v, v = Move(u, kids[n - k])
       PROVE  Has(k + 1, v)
  <2> DEFINE kid == kids[n - k]
  <2>1. n - k \in 1 .. n /\ kid \in Pages /\ kid \in ToSet(kids) /\ kid # p
    BY <1>0 DEF ToSet
  <2>2. First(k + 1) = First(k) \cup {kid}
    <3>1. n - (k + 1) + 1 .. n = (n - k + 1 .. n) \cup {n - k}
      <4> HIDE DEF n
      <4> DEFINE m == n - k
      <4>1. n - (k + 1) + 1 = m /\ n - k + 1 = m + 1 /\ m <= n /\ m \in Nat /\ n \in Nat
        BY <1>0
      <4> HIDE DEF m
      <4>2. m .. n = (m + 1 .. n) \cup {m}
        BY <4>1
      <4> QED BY <4>1, <4>2 DEF m
    <3> QED BY <3>1
  <2>3. kid \notin First(k)
    <3> SUFFICES ASSUME NEW j \in n - k + 1 .. n, kids[j] = kids[n - k]
                 PROVE  FALSE
      OBVIOUS
    <3>1. j \in 1 .. n /\ j # n - k
      BY <1>0
    <3> QED BY <1>0, <2>1, <3>1 DEF IsInjective
  <2> HIDE DEF A, kid, First
  <2>4. v = Move(u, kid)
    BY <1>10 DEF kid
  <2>5. u \in A
    BY <1>10
  <2>a. v \in A /\ TakesChild(u, v, p, kid) /\ ParentsIn(u, v, {p})
    BY <1>1, <2>1, <2>4, <2>5
  <2>6. /\ v \in A /\ SameList(u, v) /\ v.dirty = u.dirty \cup {p}
        /\ \A q \in Pages \ {p} : Alike(v.node[q], u.node[q])
        /\ \A q \in Pages : v.node[q].parent \in {u.node[q].parent, p}
        /\ v.node[p].leaf = u.node[p].leaf /\ v.node[p].root = u.node[p].root
        /\ ToSet(v.node[p].kids) = ToSet(u.node[p].kids) \cup {kid}
        /\ IsInjective(u.node[p].kids) /\ kid \notin ToSet(u.node[p].kids) =>
             IsInjective(v.node[p].kids)
        /\ Len(v.node[p].kids) = Len(u.node[p].kids) + 1
        /\ Len(v.node[p].keys) = Len(u.node[p].kids)
    BY <2>a DEF TakesChild, ParentsIn
  <2>7. SameList(s, v)
    BY <1>10, <2>6 DEF SameList
  <2>8. \A q \in Pages \ {p} : Alike(v.node[q], s.node[q])
    <3> SUFFICES ASSUME NEW q \in Pages \ {p}
                 PROVE  Alike(v.node[q], s.node[q])
      OBVIOUS
    <3>1. Alike(v.node[q], u.node[q])
      BY <2>6
    <3>2. Alike(u.node[q], s.node[q])
      BY <1>10
    <3> QED BY <3>1, <3>2 DEF Alike
  <2>9. \A q \in Pages : v.node[q].parent \in {s.node[q].parent, p}
    BY <1>10, <2>6
  <2>10. ToSet(v.node[p].kids) = First(k + 1) /\ IsInjective(v.node[p].kids)
    BY <1>10, <2>2, <2>3, <2>6
  <2>11. Len(v.node[p].kids) = k + 1 /\ Len(v.node[p].keys) = (k + 1) - 1
    BY <1>10, <2>6
  <2> QED BY <1>10, <2>6, <2>7, <2>8, <2>9, <2>10, <2>11
<1>11. \A i \in 0 .. n : Has(i, moved[i])
  <2> DEFINE T == {i \in 0 .. n : Has(i, moved[i])}
  <2>1. 0 \in T
    <3> HIDE DEF Has
    <3> QED BY <1>0, <1>7, <1>9
  <2>2. ASSUME NEW k \in 0 .. n - 1, k \in T
        PROVE  k + 1 \in T
    <3>1. k + 1 \in 0 .. n /\ k + 1 # 0 /\ (k + 1) - 1 = k /\ n - (k + 1) + 1 = n - k
      BY <1>0
    <3>2. moved[k + 1] = Move(moved[k], kids[n - k])
      BY <1>7, <3>1
    <3> HIDE DEF Has
    <3> QED BY <1>10, <2>2, <3>1, <3>2
  <2> HIDE DEF T
  <2>3. \A k \in 0 .. n : k \in T
    BY <1>0, <2>1, <2>2, UpTo
  <2> QED BY <2>3 DEF T
<1>12. Has(n, t)
  <2> HIDE DEF Has
  <2> QED BY <1>0, <1>8, <1>11
<1>13. First(n) = ToSet(kids)
  <2>1. n - n + 1 .. n = 1 .. n
    BY <1>0
  <2> QED BY <1>0, <2>1 DEF ToSet
<1> HIDE DEF First
<1> QED BY <1>0, <1>12, <1>13 DEF TakesKids, ParentsIn

\* The children of `old` are dealt out to `old` and `new`.
Halves(s, t, old, new) ==
  LET middle == INTERNAL_NODE_MAX_KEYS \div 2
      a == t.node[old]
      b == t.node[new]
  IN /\ t \in Stores /\ SameList(s, t) /\ s.dirty \subseteq t.dirty
     /\ \A q \in Pages \ {old, new} : Alike(t.node[q], s.node[q])
     /\ a.leaf = s.node[old].leaf /\ a.root = s.node[old].root
     /\ b.leaf = s.node[new].leaf /\ b.root = s.node[new].root
     /\ Len(a.kids) = middle + 1 /\ Len(a.keys) = middle
     /\ Len(b.kids) = INTERNAL_NODE_MAX_KEYS - middle
     /\ Len(b.keys) = INTERNAL_NODE_MAX_KEYS - middle - 1
     /\ IsInjective(a.kids) /\ IsInjective(b.kids)
     /\ ToSet(a.kids) \cap ToSet(b.kids) = {}
     /\ ToSet(a.kids) \cup ToSet(b.kids) = ToSet(s.node[old].kids)

\* The upper half of the children moves.
LEMMA Halved ==
  ASSUME NEW s \in Stores, NEW old \in Pages, NEW new \in Pages, old # new,
         NEW t, t = Halve(s, old, new),
         Len(s.node[old].kids) = INTERNAL_NODE_MAX_KEYS + 1,
         Len(s.node[old].keys) = INTERNAL_NODE_MAX_KEYS,
         IsInjective(s.node[old].kids), new \notin ToSet(s.node[old].kids),
         s.node[new].kids = <<>>, s.node[new].keys = <<>>
  PROVE  Halves(s, t, old, new) /\ ParentsIn(s, t, {new})
<1> DEFINE M == INTERNAL_NODE_MAX_KEYS
           middle == M \div 2
           kids == s.node[old].kids
           keys == s.node[old].keys
           lower == SubSeq(kids, 1, middle + 1)
           upper == SubSeq(kids, middle + 2, Len(kids))
           few == SubSeq(keys, 1, middle)
           u == MoveKids(s, upper, new)
           a == u.node[old]
           n == [a EXCEPT !.keys = SubSeq(a.keys, 1, middle), !.kids = SubSeq(a.kids, 1, middle + 1)]
<1>1. /\ M \in Nat /\ M >= 3 /\ middle \in Nat /\ middle >= 1 /\ 2 * middle <= M
      /\ middle + 1 \in 0 .. Len(kids) /\ middle \in 0 .. Len(keys)
      /\ Len(kids) = M + 1 /\ Len(kids) - (middle + 1) = M - middle /\ M - middle # 0
  BY Constants
<1>2. kids \in Seq(Pages) /\ keys \in Seq(Nat) /\ middle + 2 = (middle + 1) + 1
  BY <1>1, NodeFields
<1>3. /\ lower \in Seq(Pages) /\ Len(lower) = middle + 1
      /\ upper \in Seq(Pages) /\ Len(upper) = M - middle
      /\ ToSet(kids) = ToSet(lower) \cup ToSet(upper)
      /\ IsInjective(lower) /\ IsInjective(upper) /\ ToSet(lower) \cap ToSet(upper) = {}
  <2> DEFINE k == middle + 1
  <2>1. /\ kids \in Seq(Pages) /\ k \in 0 .. Len(kids) /\ IsInjective(kids)
        /\ upper = SubSeq(kids, k + 1, Len(kids)) /\ Len(kids) - k = M - middle
    BY <1>1, <1>2
  <2> HIDE DEF k, kids, upper, M, middle
  <2>2. /\ SubSeq(kids, 1, k) \in Seq(Pages) /\ Len(SubSeq(kids, 1, k)) = k
        /\ SubSeq(kids, k + 1, Len(kids)) \in Seq(Pages)
        /\ Len(SubSeq(kids, k + 1, Len(kids))) = Len(kids) - k
        /\ ToSet(kids) = ToSet(SubSeq(kids, 1, k)) \cup ToSet(SubSeq(kids, k + 1, Len(kids)))
        /\ IsInjective(SubSeq(kids, 1, k))
        /\ IsInjective(SubSeq(kids, k + 1, Len(kids)))
        /\ ToSet(SubSeq(kids, 1, k)) \cap ToSet(SubSeq(kids, k + 1, Len(kids))) = {}
    BY <2>1, Parted
  <2>3. lower = SubSeq(kids, 1, k)
    BY DEF k
  <2> HIDE DEF lower
  <2> QED BY <2>1, <2>2, <2>3 DEF k
<1>4. few \in Seq(Nat) /\ Len(few) = middle
  <2> DEFINE N == Nat
  <2>1. keys \in Seq(N) /\ middle \in 0 .. Len(keys)
    BY <1>1, <1>2
  <2> HIDE DEF N, keys, middle
  <2>2. few \in Seq(N) /\ Len(few) = middle
    BY <2>1, Parted
  <2> QED BY <2>2 DEF N
<1>5. t = [u EXCEPT !.node[old].keys = SubSeq(@, 1, middle),
                    !.node[old].kids = SubSeq(@, 1, middle + 1)]
  BY Zenon DEF Halve
<1>6. upper # <<>> /\ new \notin ToSet(upper)
  BY <1>1, <1>3
<1>7. u = MoveKids(s, upper, new)
  OBVIOUS
<1> HIDE DEF u, upper, lower, few
<1>8. TakesKids(s, u, new, upper) /\ ParentsIn(s, u, {new})
  <2> HIDE DEF n, kids
  <2> QED BY <1>3, <1>6, <1>7, KidsMoved DEF kids
<1>a. a.kids = kids /\ a.keys = keys /\ a.leaf = s.node[old].leaf /\ a.root = s.node[old].root
  BY <1>8 DEF TakesKids, Alike
<1>b. u \in Stores
  BY <1>8 DEF TakesKids
<1>c. t = With(u, old, n)
  <2>1. t = [u EXCEPT !.node[old].keys = few, !.node[old].kids = lower]
    BY <1>5, <1>a, <1>b DEF Stores, few, lower
  <2> HIDE DEF a
  <2>2. t = With(u, old, [u.node[old] EXCEPT !.keys = few, !.kids = lower])
    <3> HIDE DEF n
    <3>1. [u EXCEPT !.node[old].keys = few, !.node[old].kids = lower]
            = With(u, old, [u.node[old] EXCEPT !.keys = few, !.kids = lower])
      BY ONLY <1>b, old \in Pages DEF Stores, Node, With
    <3> QED BY <2>1, <3>1
  <2> QED BY <1>a, <2>2 DEF a, few, lower
<1>9. u.node[old] \in Node
  BY <1>b, NodeFields
<1>10. /\ n \in Node /\ n.keys = few /\ n.kids = lower /\ n.leaf = u.node[old].leaf
       /\ n.root = u.node[old].root /\ n.parent = u.node[old].parent
  <2>1. n = [a EXCEPT !.keys = few, !.kids = lower]
    BY <1>a DEF few, lower
  <2> HIDE DEF n
  <2> QED BY <1>3, <1>4, <1>9, <2>1 DEF Node
<1> HIDE DEF n
<1>12. /\ t \in Stores /\ SameList(u, t) /\ t.dirty = u.dirty
       /\ t.node[old] = n /\ \A q \in Pages \ {old} : t.node[q] = u.node[q]
  BY <1>c, <1>10, <1>b, Written
<1>13. SameList(s, t)
  BY <1>8, <1>12 DEF SameList, TakesKids
<1>14. \A q \in Pages \ {old, new} : Alike(t.node[q], s.node[q])
  BY <1>8, <1>12 DEF TakesKids
<1>15. ParentsIn(s, t, {new})
  BY <1>8, <1>10, <1>12 DEF ParentsIn
<1>16. n.leaf = s.node[old].leaf /\ n.root = s.node[old].root
  BY <1>a, <1>10
<1>17. t.node[new] = u.node[new]
  BY <1>12
<1>18. Len(upper) = M - middle
  BY <1>3
<1> HIDE DEF middle
<1>19. Halves(s, t, old, new)
  BY <1>3, <1>4, <1>8, <1>10, <1>12, <1>13, <1>14, <1>16, <1>17, <1>18 DEF Halves, middle, TakesKids
<1> QED BY <1>15, <1>19

\* The children of `old`, and one more, are dealt out to `old` and `new`, which has
\* room for another one.
SplitsInto(s, t, old, new, child) ==
  /\ t \in Stores /\ SameList(s, t) /\ s.dirty \subseteq t.dirty
  /\ \A q \in Pages \ {old, new} : Alike(t.node[q], s.node[q])
  /\ \A q \in {old, new} :
       /\ t.node[q].leaf = s.node[q].leaf /\ t.node[q].root = s.node[q].root
       /\ Len(t.node[q].kids) = Len(t.node[q].keys) + 1
       /\ Len(t.node[q].keys) <= INTERNAL_NODE_MAX_KEYS
       /\ IsInjective(t.node[q].kids)
  /\ Len(t.node[new].keys) < INTERNAL_NODE_MAX_KEYS
  /\ ToSet(t.node[old].kids) \cap ToSet(t.node[new].kids) = {}
  /\ ToSet(t.node[old].kids) \cup ToSet(t.node[new].kids) = ToSet(s.node[old].kids) \cup {child}

\* A full node is split and one of the halves takes the child.
LEMMA SplitUp ==
  ASSUME NEW s \in Stores, NEW old \in Pages, NEW new \in Pages, old # new,
         NEW child \in Pages, NEW child_max,
         NEW t, t = InsertIntoHalf(Halve(s, old, new), old, new, child, child_max),
         Len(s.node[old].kids) = INTERNAL_NODE_MAX_KEYS + 1,
         Len(s.node[old].keys) = INTERNAL_NODE_MAX_KEYS,
         IsInjective(s.node[old].kids), new \notin ToSet(s.node[old].kids),
         child \notin ToSet(s.node[old].kids),
         s.node[new].kids = <<>>, s.node[new].keys = <<>>
  PROVE  SplitsInto(s, t, old, new, child) /\ ParentsIn(s, t, {old, new})
<1> DEFINE u == Halve(s, old, new)
           d == IF child_max < get_node_max_key(u, old) THEN old ELSE new
           M == INTERNAL_NODE_MAX_KEYS
           middle == M \div 2
<1>1. /\ M \in Nat /\ middle \in Nat /\ middle >= 1 /\ 2 * middle <= M /\ middle + 1 <= M
      /\ M - middle \in Nat /\ M - middle < M /\ M - middle >= 1
  BY Constants
<1>2. u = Halve(s, old, new)
  OBVIOUS
<1>3. t = SetParent(TakeChild(u, d, child), child, d) /\ d \in {old, new}
  BY DEF InsertIntoHalf
<1> HIDE DEF u, d
<1>4. Halves(s, u, old, new) /\ ParentsIn(s, u, {new})
  BY <1>2, Halved
<1>5. u \in Stores
  BY <1>4 DEF Halves
<1> DEFINE a == u.node[old]
           b == u.node[new]
<1> HIDE DEF middle, M
<1>6. /\ a.leaf = s.node[old].leaf /\ a.root = s.node[old].root
      /\ b.leaf = s.node[new].leaf /\ b.root = s.node[new].root
      /\ Len(a.kids) = middle + 1 /\ Len(a.keys) = middle
      /\ Len(b.kids) = M - middle /\ Len(b.keys) = M - middle - 1
      /\ IsInjective(a.kids) /\ IsInjective(b.kids)
      /\ ToSet(a.kids) \cap ToSet(b.kids) = {}
      /\ ToSet(a.kids) \cup ToSet(b.kids) = ToSet(s.node[old].kids)
  BY <1>4 DEF Halves, middle, M
<1>7. HasChildren(a) /\ HasChildren(b)
  BY <1>1, <1>6 DEF HasChildren
<1>8. TakesChild(u, t, d, child) /\ ParentsIn(u, t, {d})
  <2>1. d \in Pages /\ HasChildren(u.node[d])
    BY <1>3, <1>7
  <2>2. t = SetParent(TakeChild(u, d, child), child, d)
    BY <1>3
  <2> QED BY <1>5, <2>1, <2>2, KidMoved
<1>9. child \notin ToSet(a.kids) /\ child \notin ToSet(b.kids)
  BY <1>6
<1>10. /\ t \in Stores /\ SameList(s, t) /\ s.dirty \subseteq t.dirty
  BY <1>4, <1>8 DEF TakesChild, Halves, SameList
<1>11. ParentsIn(s, t, {old, new})
  <2>1. ParentsIn(u, t, {d}) /\ ParentsIn(s, u, {new}) /\ d \in {old, new}
    BY <1>3, <1>4, <1>8
  <2> QED BY <2>1 DEF ParentsIn
<1>12. \A q \in Pages \ {old, new} : Alike(t.node[q], s.node[q])
  <2>1. \A q \in Pages \ {old, new} : Alike(t.node[q], u.node[q])
    BY <1>3, <1>8 DEF TakesChild
  <2>2. \A q \in Pages \ {old, new} : Alike(u.node[q], s.node[q])
    BY <1>4 DEF Halves
  <2> QED BY <2>1, <2>2 DEF Alike
<1> DEFINE c == t.node[d]
           e == u.node[d]
<1>13. /\ Len(c.kids) = Len(e.kids) + 1 /\ Len(c.keys) = Len(e.kids)
       /\ ToSet(c.kids) = ToSet(e.kids) \cup {child}
       /\ IsInjective(e.kids) /\ child \notin ToSet(e.kids) => IsInjective(c.kids)
       /\ c.leaf = e.leaf /\ c.root = e.root
  BY <1>8 DEF TakesChild
<1>14. CASE d = old
  <2>1. Alike(t.node[new], b)
    BY <1>8, <1>14 DEF TakesChild
  <2>2. /\ t.node[new].leaf = b.leaf /\ t.node[new].root = b.root
        /\ t.node[new].kids = b.kids /\ t.node[new].keys = b.keys
    BY <2>1 DEF Alike
  <2>3. e = a /\ c = t.node[old]
    BY <1>14
  <2> HIDE DEF a, b, c, e
  <2>4. /\ Len(c.kids) = Len(c.keys) + 1 /\ Len(c.keys) <= M
        /\ Len(b.kids) = Len(b.keys) + 1 /\ Len(b.keys) < M /\ Len(b.keys) <= M
    BY <1>1, <1>6, <1>13, <2>3
  <2>5. /\ ToSet(c.kids) \cap ToSet(b.kids) = {} /\ IsInjective(c.kids)
        /\ ToSet(c.kids) \cup ToSet(b.kids) = ToSet(s.node[old].kids) \cup {child}
    BY <1>6, <1>9, <1>13, <2>3
  <2>6. c.leaf = s.node[old].leaf /\ c.root = s.node[old].root
    <3>1. a.leaf = s.node[old].leaf /\ a.root = s.node[old].root
      BY <1>6, Zenon
    <3>2. c.leaf = e.leaf /\ c.root = e.root
      BY <1>13, Zenon
    <3> QED BY <2>3, <3>1, <3>2
  <2> QED BY <1>6, <1>10, <1>11, <1>12, <2>2, <2>3, <2>4, <2>5, <2>6 DEF SplitsInto, M
<1>15. CASE d = new
  <2>1. Alike(t.node[old], a)
    BY <1>8, <1>15 DEF TakesChild
  <2>2. /\ t.node[old].leaf = a.leaf /\ t.node[old].root = a.root
        /\ t.node[old].kids = a.kids /\ t.node[old].keys = a.keys
    BY <2>1 DEF Alike
  <2>3. e = b /\ c = t.node[new]
    BY <1>15
  <2> HIDE DEF a, b, c, e
  <2>4. /\ Len(c.kids) = Len(c.keys) + 1 /\ Len(c.keys) <= M /\ Len(c.keys) < M
        /\ Len(a.kids) = Len(a.keys) + 1 /\ Len(a.keys) <= M
    BY <1>1, <1>6, <1>13, <2>3
  <2>5. /\ ToSet(c.kids) \cap ToSet(a.kids) = {} /\ IsInjective(c.kids)
        /\ ToSet(a.kids) \cup ToSet(c.kids) = ToSet(s.node[old].kids) \cup {child}
    BY <1>6, <1>9, <1>13, <2>3
  <2>6. c.leaf = s.node[new].leaf /\ c.root = s.node[new].root
    BY <1>6, <1>13, <2>3
  <2> QED BY <1>6, <1>10, <1>11, <1>12, <2>2, <2>3, <2>4, <2>5, <2>6 DEF SplitsInto, M
<1> QED BY <1>3, <1>14, <1>15

\* t is s but for an internal node p without children.
Empties(s, t, p) ==
  /\ t \in Stores /\ SameList(s, t) /\ t.dirty = s.dirty
  /\ \A q \in Pages \ {p} : t.node[q] = s.node[q]
  /\ ~t.node[p].leaf /\ ~t.node[p].root /\ t.node[p].keys = <<>> /\ t.node[p].kids = <<>>
  /\ t.node[p].parent = s.node[p].parent

\* An internal node without children.
LEMMA Initialized ==
  ASSUME NEW s \in Stores, NEW p \in Pages, NEW t, t = initialize_internal_node(s, p)
  PROVE  Empties(s, t, p)
<1> DEFINE m == s.node[p]
           n == [m EXCEPT !.leaf = FALSE, !.root = FALSE, !.keys = <<>>, !.kids = <<>>]
<1>1. m \in Node
  BY NodeFields
<1>2. /\ n \in Node /\ ~n.leaf /\ ~n.root /\ n.keys = <<>> /\ n.kids = <<>>
      /\ n.parent = m.parent
  <2>1. <<>> \in Seq(Nat) /\ <<>> \in Seq(Pages)
    OBVIOUS
  <2> HIDE DEF m
  <2> QED BY <1>1, <2>1 DEF Node
<1>3. t = With(s, p, n)
  BY DEF initialize_internal_node, With
<1> HIDE DEF n
<1>4. /\ t \in Stores /\ SameList(s, t) /\ t.dirty = s.dirty
      /\ t.node[p] = n /\ \A q \in Pages \ {p} : t.node[q] = s.node[q]
  BY <1>2, <1>3, Written
<1> QED BY <1>2, <1>4 DEF Empties

\* The root has moved to `left`, and the root has left and right as its children.
MakesRoot(s, t, left, right) ==
  LET old == s.node[Root] IN
  /\ t \in Stores
  /\ ~t.node[Root].leaf /\ t.node[Root].root /\ Len(t.node[Root].keys) = 1
  /\ t.node[Root].kids = <<left, right>>
  /\ t.node[left].leaf = old.leaf /\ t.node[left].keys = old.keys /\ t.node[left].kids = old.kids
  /\ ~t.node[left].root /\ t.node[left].parent = Root
  /\ IF old.leaf THEN Alike(t.node[right], s.node[right])
     ELSE /\ ~t.node[right].leaf /\ ~t.node[right].root
          /\ t.node[right].keys = <<>> /\ t.node[right].kids = <<>>
  /\ \A q \in Pages \ {Root, left, right} : Alike(t.node[q], s.node[q])
  /\ t.node[right].parent = Root
  /\ \A q \in Pages \ {Root, left, right} :
       t.node[q].parent = IF q \in ToSet(old.kids) THEN left ELSE s.node[q].parent

\* create_new_root.
LEMMA RootMade ==
  ASSUME NEW s, NEW L, IsTree(s, L), NEW right \in L, right \in Pages, ~NoPage(s),
         NEW left, left = UnusedPage(s), NEW v, v = TakePage(s),
         NEW t, t = create_new_root(s, right)
  PROVE  MakesRoot(s, t, left, right) /\ SameList(v, t) /\ t.dirty = v.dirty
<1> DEFINE old == s.node[Root]
           s2 == IF old.leaf THEN v ELSE initialize_internal_node(v, right)
           moved == [old EXCEPT !.root = FALSE]
           s3 == [s2 EXCEPT !.node[left] = moved]
           s4 == SetParents(s3, old.kids, left)
           top == [EmptyLeaf EXCEPT !.leaf = FALSE, !.root = TRUE, !.parent = old.parent,
                                    !.keys = <<get_node_max_key(s4, left)>>,
                                    !.kids = <<left, right>>]
           s5 == [s4 EXCEPT !.node[Root] = top]
<1>1. s \in Stores /\ Root \in Pages /\ right # Root
  BY Constants, Owners DEF IsTree
<1>2. /\ left \in Pages /\ left # Root /\ left # right
      /\ \A q \in Pages \ {left} : v.node[q] = s.node[q]
      /\ v \in Stores
  <2>1. TakesPage(s, v, left) /\ left \notin L /\ IsTree(v, L \cup {left})
    BY PageTaken
  <2> QED BY <2>1 DEF IsTree, TakesPage
<1>3. t = SetParents(s5, <<left, right>>, Root)
  BY Zenon DEF create_new_root
<1>4. /\ old \in Node /\ old.kids \in Seq(Pages) /\ old.keys \in Seq(Nat) /\ old.parent \in Pages
      /\ old.leaf \in BOOLEAN
  BY <1>1, NodeFields
<1>5. /\ moved \in Node /\ moved.leaf = old.leaf /\ ~moved.root /\ moved.keys = old.keys
      /\ moved.kids = old.kids
  BY <1>4 DEF Node
<1>6. /\ s2 \in Stores /\ SameList(v, s2) /\ s2.dirty = v.dirty
      /\ \A q \in Pages \ {right} : s2.node[q] = v.node[q]
      /\ IF old.leaf THEN s2.node[right] = v.node[right]
         ELSE /\ ~s2.node[right].leaf /\ ~s2.node[right].root
              /\ s2.node[right].keys = <<>> /\ s2.node[right].kids = <<>>
  <2>1. CASE old.leaf
    BY <1>2, <2>1 DEF SameList
  <2>2. CASE ~old.leaf
    <3>1. s2 = initialize_internal_node(v, right)
      BY <2>2
    <3> HIDE DEF s2, old
    <3>2. Empties(v, s2, right)
      BY <1>2, <3>1, Initialized
    <3> QED BY <2>2, <3>2 DEF Empties
  <2> QED BY <2>1, <2>2
<1>7. s3 = With(s2, left, moved)
  BY DEF With
<1>8. s4 = SetParents(s3, old.kids, left)
  OBVIOUS
<1>9. s5 = With(s4, Root, top)
  BY DEF With
<1> HIDE DEF s2, moved, s3, s4, s5, top
<1>10. /\ s3 \in Stores /\ SameList(s2, s3) /\ s3.dirty = s2.dirty
       /\ s3.node[left] = moved /\ \A q \in Pages \ {left} : s3.node[q] = s2.node[q]
  <2>1. s2 \in Stores /\ moved \in Node
    BY <1>5, <1>6
  <2> QED BY <1>2, <1>7, <2>1, Written
<1>11. Adopts(s3, s4, ToSet(old.kids), left)
  <2>1. s3 \in Stores
    BY <1>10
  <2> HIDE DEF old
  <2> QED BY <1>2, <1>4, <1>8, <2>1, Adopted
<1>12. s4 \in Stores
  BY <1>11 DEF Adopts
<1>13. /\ top \in Node /\ ~top.leaf /\ top.root /\ Len(top.keys) = 1 /\ top.kids = <<left, right>>
  <2> DEFINE max == get_node_max_key(s4, left)
  <2>1. max \in Nat
    BY <1>2, <1>12, MaxKeyIsNat
  <2>2. <<left, right>> \in Seq(Pages)
    BY <1>2
  <2> HIDE DEF max
  <2>3. top = [EmptyLeaf EXCEPT !.leaf = FALSE, !.root = TRUE, !.parent = old.parent,
                                !.keys = <<max>>, !.kids = <<left, right>>]
    BY DEF top, max
  <2>4. <<max>> \in Seq(Nat) /\ Len(<<max>>) = 1
    BY <2>1
  <2> HIDE DEF old
  <2> QED BY <1>4, <2>2, <2>3, <2>4, EmptyLeafIsNode DEF Node
<1>14. /\ s5 \in Stores /\ SameList(s4, s5) /\ s5.dirty = s4.dirty
       /\ s5.node[Root] = top /\ \A q \in Pages \ {Root} : s5.node[q] = s4.node[q]
  BY <1>1, <1>9, <1>12, <1>13, Written
<1>15. Adopts(s5, t, ToSet(<<left, right>>), Root)
  <2>1. s5 \in Stores /\ <<left, right>> \in Seq(Pages)
    BY <1>2, <1>14
  <2> QED BY <1>1, <1>3, <2>1, Adopted
<1>16. t \in Stores /\ SameList(v, t) /\ t.dirty = v.dirty
  BY <1>6, <1>10, <1>11, <1>14, <1>15 DEF Adopts, SameList
<1>17. \A q \in Pages : Alike(t.node[q], s5.node[q])
  BY <1>15 DEF Adopts
<1>18. \A q \in Pages : Alike(s4.node[q], s3.node[q])
  BY <1>11 DEF Adopts
<1>19. /\ ~t.node[Root].leaf /\ t.node[Root].root /\ Len(t.node[Root].keys) = 1
       /\ t.node[Root].kids = <<left, right>>
  <2>1. Alike(t.node[Root], top)
    BY <1>1, <1>14, <1>17
  <2> QED BY <1>13, <2>1 DEF Alike
<1>20. /\ t.node[left].leaf = old.leaf /\ t.node[left].keys = old.keys /\ t.node[left].kids = old.kids
       /\ ~t.node[left].root
  <2>1. Alike(t.node[left], moved)
    <3>1. Alike(t.node[left], s4.node[left]) /\ Alike(s4.node[left], moved)
      BY <1>2, <1>10, <1>14, <1>17, <1>18
    <3> QED BY <3>1 DEF Alike
  <2> QED BY <1>5, <2>1 DEF Alike
<1>21. t.node[left].parent = Root
  <2>1. left \in ToSet(<<left, right>>)
    BY DEF ToSet
  <2> QED BY <1>2, <1>15, <2>1 DEF Adopts
<1>22. \A q \in Pages \ {Root, left} : Alike(t.node[q], s2.node[q])
  <2> TAKE q \in Pages \ {Root, left}
  <2>1. Alike(t.node[q], s4.node[q]) /\ Alike(s4.node[q], s2.node[q])
    BY <1>10, <1>14, <1>17, <1>18
  <2> QED BY <2>1 DEF Alike
<1>23. \A q \in Pages \ {Root, left, right} : Alike(t.node[q], s.node[q])
  BY <1>2, <1>6, <1>22
<1>24. IF old.leaf THEN Alike(t.node[right], s.node[right])
       ELSE /\ ~t.node[right].leaf /\ ~t.node[right].root
            /\ t.node[right].keys = <<>> /\ t.node[right].kids = <<>>
  <2>1. Alike(t.node[right], s2.node[right])
    BY <1>1, <1>2, <1>22
  <2>2. CASE old.leaf
    BY <1>1, <1>2, <1>6, <2>1, <2>2
  <2>3. CASE ~old.leaf
    BY <1>6, <2>1, <2>3 DEF Alike
  <2> QED BY <2>2, <2>3
<1>25. t.node[right].parent = Root
  <2>1. right \in ToSet(<<left, right>>)
    <3>1. <<left, right>>[2] = right /\ 2 \in DOMAIN <<left, right>>
      OBVIOUS
    <3> QED BY <3>1 DEF ToSet
  <2> QED BY <1>15, <2>1 DEF Adopts
<1>26. \A q \in Pages \ {Root, left, right} :
         t.node[q].parent = IF q \in ToSet(old.kids) THEN left ELSE s.node[q].parent
  <2> SUFFICES ASSUME NEW q \in Pages \ {Root, left, right}
               PROVE  t.node[q].parent = IF q \in ToSet(old.kids) THEN left ELSE s.node[q].parent
    OBVIOUS
  <2>1. q \notin ToSet(<<left, right>>)
    BY DEF ToSet
  <2>2. t.node[q].parent = s4.node[q].parent
    BY <1>14, <1>15, <2>1 DEF Adopts
  <2>3. s4.node[q].parent = IF q \in ToSet(old.kids) THEN left ELSE s3.node[q].parent
    BY <1>11 DEF Adopts
  <2>4. s3.node[q] = s.node[q]
    BY <1>2, <1>6, <1>10
  <2> QED BY <2>2, <2>3, <2>4
<1>27. MakesRoot(s, t, left, right)
  BY <1>16, <1>19, <1>20, <1>21, <1>23, <1>24, <1>25, <1>26 DEF MakesRoot
<1> QED BY <1>16, <1>27

\* The next page to take depends on the free list alone.
LEMMA NextPage ==
  ASSUME NEW s \in Stores, NEW t \in Stores, SameList(s, t)
  PROVE  /\ UnusedPage(t) = UnusedPage(s) /\ (NoPage(t) <=> NoPage(s))
         /\ ~NoPage(s) => (NoPage(TakePage(t)) <=> NoPage(TakePage(s)))
<1>1. UnusedPage(t) = UnusedPage(s) /\ (NoPage(t) <=> NoPage(s))
  BY DEF SameList, UnusedPage, NoPage
<1>2. \A u \in Stores : ~NoPage(u) =>
        /\ TakePage(u).free_page_head = IF u.free_page_head # 0 THEN u.link[u.free_page_head] ELSE 0
        /\ TakePage(u).num_pages = IF u.free_page_head # 0 THEN u.num_pages ELSE u.num_pages + 1
  <2> SUFFICES ASSUME NEW u \in Stores, ~NoPage(u)
               PROVE  /\ TakePage(u).free_page_head = IF u.free_page_head # 0
                                                     THEN u.link[u.free_page_head] ELSE 0
                      /\ TakePage(u).num_pages = IF u.free_page_head # 0 THEN u.num_pages
                                                ELSE u.num_pages + 1
    OBVIOUS
  <2>1. CASE u.free_page_head # 0
    BY <2>1 DEF TakePage, UnusedPage, MarkAll, Stores
  <2>2. CASE u.free_page_head = 0
    BY <2>2 DEF TakePage, UnusedPage, Mark, Stores
  <2> QED BY <2>1, <2>2
<1>3. ~NoPage(s) => (NoPage(TakePage(t)) <=> NoPage(TakePage(s)))
  BY <1>1, <1>2 DEF SameList, NoPage
<1> QED BY <1>1, <1>3

\* A page that is marked first.
LEMMA MarkedTree ==
  ASSUME NEW s, NEW L, IsTree(s, L), NEW p \in Pages, NEW t, t = Mark(s, p)
  PROVE  /\ IsTree(t, L) /\ StoredRows(t) = StoredRows(s) /\ SameList(s, t)
         /\ t.node = s.node /\ t.dirty = s.dirty \cup {p} /\ Marks(s, t, {})
<1>1. s \in Stores
  BY DEF IsTree
<1>2. t \in Stores /\ SameList(s, t) /\ t.dirty = s.dirty \cup {p} /\ t.node = s.node
  BY <1>1, MarkedOne
<1>3. \A q \in Pages : Like(t.node[q], s.node[q])
  BY <1>2 DEF Like
<1>4. IsTree(t, L) /\ StoredRows(t) = StoredRows(s)
  BY <1>2, <1>3, StillTree
<1>5. Marks(s, t, {})
  BY <1>2 DEF Marks, Alike, SameList
<1> QED BY <1>2, <1>4, <1>5

\* The rows are those in the leaves.
LEMMA RowsAlike ==
  ASSUME NEW s, NEW t, \A p \in Pages : LeafKeys(t, p) = LeafKeys(s, p)
  PROVE  StoredRows(t) = StoredRows(s)
BY DEF StoredRows

\* s has no free list, and every page that is in use behind the root, but those in X,
\* has an internal node as its parent.
AllGrown(s, X) ==
  /\ s.free_page_head = 0
  /\ \A q \in Pages : q > Root /\ q < s.num_pages /\ q \notin X => ~s.node[s.node[q].parent].leaf

\* No internal node of s is a leaf in t, and what came into use is marked.
GrownOutOf(s, t) ==
  /\ s.num_pages <= t.num_pages /\ s.dirty \subseteq t.dirty
  /\ \A q \in Pages : ~s.node[q].leaf => ~t.node[q].leaf
  /\ \A q \in Pages : q >= s.num_pages /\ q < t.num_pages => q \in t.dirty

KeepsParents(s, X, t, Y) == AllGrown(s, X) => AllGrown(t, Y) /\ GrownOutOf(s, t)

\* One part after another.
LEMMA GrowsTogether ==
  ASSUME NEW s \in Stores, NEW t \in Stores, NEW u \in Stores, GrownOutOf(s, t), GrownOutOf(t, u)
  PROVE  GrownOutOf(s, u)
<1>1. s.num_pages \in Nat /\ t.num_pages \in Nat /\ u.num_pages \in Nat
  BY DEF Stores
<1>2. s.num_pages <= u.num_pages /\ s.dirty \subseteq u.dirty
  BY <1>1 DEF GrownOutOf
<1>3. \A q \in Pages : ~s.node[q].leaf => ~u.node[q].leaf
  BY DEF GrownOutOf
<1>4. \A q \in Pages : q >= s.num_pages /\ q < u.num_pages => q \in u.dirty
  <2> SUFFICES ASSUME NEW q \in Pages, q >= s.num_pages, q < u.num_pages
               PROVE  q \in u.dirty
    OBVIOUS
  <2>1. q \in Int
    BY Constants DEF Pages
  <2>2. CASE q < t.num_pages
    BY <2>2 DEF GrownOutOf
  <2>3. CASE q >= t.num_pages
    BY <2>3 DEF GrownOutOf
  <2> QED BY <1>1, <2>1, <2>2, <2>3
<1> QED BY <1>2, <1>3, <1>4 DEF GrownOutOf

\* Without a free list, the page that is taken is the next one of the file.
LEMMA PageAdded ==
  ASSUME NEW s \in Stores, s.free_page_head = 0, ~NoPage(s), NEW p, p = UnusedPage(s), NEW t, t = TakePage(s)
  PROVE  /\ p = s.num_pages /\ t.num_pages = s.num_pages + 1 /\ t.free_page_head = 0
         /\ t.dirty = s.dirty \cup {p}
BY DEF UnusedPage, TakePage, Mark, Stores

\* A node beside the root is split: the new one is loose, and the key of the old one
\* changes in its parent, which is not marked.
SplitsBeside(s, t, p, new) ==
  /\ IsTree(t, {new}) /\ StoredRows(t) = StoredRows(s)
  /\ new \in Pages \ {p} /\ s.node[new].leaf
  /\ Marks(s, t, {t.node[p].parent}) /\ p \in t.dirty
  /\ ~t.node[p].leaf /\ ~t.node[new].leaf /\ Len(t.node[new].keys) < INTERNAL_NODE_MAX_KEYS
  /\ \A q \in Pages \ {p, new} : Like(t.node[q], s.node[q])
  /\ \A q \in Pages \ {new} : t.node[q].parent \in {s.node[q].parent, p, new}
  /\ new \in t.dirty /\ SameList(TakePage(Mark(s, p)), t)

\* internal_node_split_and_insert of a node that is not the root.
LEMMA NodeSplit ==
  ASSUME NEW s, NEW child \in Pages, IsTree(s, {child}), NEW p \in Pages, p # child, p # Root,
         ~s.node[p].leaf, Len(s.node[p].keys) = INTERNAL_NODE_MAX_KEYS, ~NoPagesToSplit(s, p),
         ~s.node[s.node[p].parent].leaf,
         NEW new, new = UnusedPage(s), NEW t, t = SplitAndInsert(s, p, child)
  PROVE  SplitsBeside(s, t, p, new)
<1> DEFINE marked == Mark(s, p)
           b == TakePage(marked)
           r == initialize_internal_node(b, new)
           child_max == get_node_max_key(s, child)
           old_max == get_node_max_key(s, p)
           h == InsertIntoHalf(Halve(r, p, new), p, new, child, child_max)
           M == INTERNAL_NODE_MAX_KEYS
<1>1. s \in Stores /\ ~s.node[p].root /\ Len(s.node[p].kids) = M + 1 /\ IsInjective(s.node[p].kids)
      /\ child \notin ToSet(s.node[p].kids) /\ ~NoPage(s) /\ s.node[p].parent \in Pages
  <2>1. s \in Stores /\ ~s.node[p].root /\ Len(s.node[p].kids) = M + 1
    BY DEF IsTree, Shaped, Fits
  <2>2. IsInjective(s.node[p].kids)
    BY DEF IsTree, KidsOnce
  <2>3. ~IsKid(s, child)
    BY DEF IsTree, OneOwner
  <2>4. child \notin ToSet(s.node[p].kids) /\ ~NoPage(s)
    BY <2>3 DEF IsKid, NoPagesToSplit
  <2> QED BY <2>1, <2>2, <2>4, NodeFields
<1>2. /\ IsTree(marked, {child}) /\ StoredRows(marked) = StoredRows(s) /\ SameList(s, marked)
      /\ marked.node = s.node /\ marked.dirty = s.dirty \cup {p} /\ Marks(s, marked, {})
  BY MarkedTree
<1> HIDE DEF marked
<1>3. marked \in Stores
  BY <1>2 DEF IsTree
<1>4. new = UnusedPage(marked) /\ ~NoPage(marked)
  BY <1>1, <1>2, <1>3, NextPage
<1>5. b = TakePage(marked)
  OBVIOUS
<1>6. t = UpdateKeyOf(h, p, old_max)
  BY <1>1, <1>4, Zenon DEF SplitAndInsert, marked
<1>7. r = initialize_internal_node(b, new)
  OBVIOUS
<1>8. h = InsertIntoHalf(Halve(r, p, new), p, new, child, child_max)
  OBVIOUS
<1>9. old_max \in Nat
  BY <1>1, MaxKeyIsNat
<1> HIDE DEF b, r, h, child_max, old_max
<1>10. /\ new \in Pages /\ new # Root /\ new # child /\ ~IsKid(s, new)
       /\ IsBlank(s.node[new]) /\ IsBlank(b.node[new]) /\ ~b.node[new].root
       /\ \A q \in Pages \ {new} : b.node[q] = s.node[q]
       /\ IsTree(b, {child, new}) /\ StoredRows(b) = StoredRows(s)
       /\ Marks(marked, b, {}) /\ new \in b.dirty
  <2>1. TakesPage(marked, b, new) /\ new \notin {child} /\ IsTree(b, {child} \cup {new})
    BY <1>2, <1>4, <1>5, PageTaken
  <2>2. {child} \cup {new} = {child, new}
    OBVIOUS
  <2>3. ~IsKid(s, new)
    BY <1>2, <2>1 DEF IsKid, TakesPage
  <2> QED BY <1>2, <2>1, <2>2, <2>3 DEF TakesPage
<1>11. new # p /\ new \notin ToSet(s.node[p].kids)
  BY <1>10 DEF IsBlank, IsKid
<1>12. b \in Stores /\ b.node[p] = s.node[p]
  BY <1>10, <1>11 DEF IsTree
<1>13. Empties(b, r, new)
  BY <1>7, <1>10, <1>12, Initialized
<1>14. /\ r \in Stores /\ SameList(b, r) /\ r.dirty = b.dirty
       /\ \A q \in Pages \ {new} : r.node[q] = b.node[q]
       /\ ~r.node[new].leaf /\ ~r.node[new].root /\ r.node[new].keys = <<>> /\ r.node[new].kids = <<>>
       /\ r.node[p] = s.node[p]
  BY <1>11, <1>12, <1>13 DEF Empties
<1>15. SplitsInto(r, h, p, new, child) /\ ParentsIn(r, h, {p, new})
  <2>1. r \in Stores /\ p # new /\ new \in Pages
    BY <1>10, <1>11, <1>14
  <2>2. /\ Len(r.node[p].kids) = M + 1 /\ Len(r.node[p].keys) = M
        /\ IsInjective(r.node[p].kids) /\ new \notin ToSet(r.node[p].kids)
        /\ child \notin ToSet(r.node[p].kids)
        /\ r.node[new].kids = <<>> /\ r.node[new].keys = <<>>
    BY <1>1, <1>11, <1>14
  <2> QED BY <1>8, <2>1, <2>2, SplitUp
<1> DEFINE q1 == h.node[p].parent
<1>16. h \in Stores /\ ~h.node[p].leaf /\ ~h.node[new].leaf /\ q1 \in Pages
  <2>1. h \in Stores /\ h.node[p].leaf = r.node[p].leaf /\ h.node[new].leaf = r.node[new].leaf
    BY <1>15 DEF SplitsInto
  <2> QED BY <1>14, <2>1, NodeFields
<1>17. ~h.node[q1].leaf
  <2>1. q1 \in {s.node[p].parent, p, new}
    BY <1>14, <1>15 DEF ParentsIn
  <2>2. CASE q1 \in {p, new}
    BY <1>16, <2>2
  <2>3. CASE q1 = s.node[p].parent /\ q1 \notin {p, new}
    <3>1. Alike(h.node[q1], r.node[q1])
      BY <1>15, <1>16, <2>3 DEF SplitsInto
    <3>2. r.node[q1] = s.node[q1]
      BY <1>10, <1>14, <1>16, <2>3
    <3> QED BY <2>3, <3>1, <3>2 DEF Alike
  <2> QED BY <2>1, <2>2, <2>3
<1>18. /\ t \in Stores /\ SameList(h, t) /\ t.dirty = h.dirty
       /\ \A q \in Pages : Like(t.node[q], h.node[q]) /\ t.node[q].parent = h.node[q].parent
       /\ \A q \in Pages \ {q1} : t.node[q] = h.node[q]
  BY <1>6, <1>9, <1>16, <1>17, KeyUpdated
<1> HIDE DEF q1
<1>19. \A q \in Pages \ {p, new} : Like(t.node[q], b.node[q]) /\ Like(t.node[q], s.node[q])
  <2> SUFFICES ASSUME NEW q \in Pages \ {p, new}
               PROVE  Like(t.node[q], b.node[q]) /\ Like(t.node[q], s.node[q])
    OBVIOUS
  <2>1. Like(t.node[q], h.node[q]) /\ Alike(h.node[q], r.node[q]) /\ r.node[q] = b.node[q]
        /\ b.node[q] = s.node[q]
    BY <1>10, <1>14, <1>15, <1>18 DEF SplitsInto
  <2>2. Like(h.node[q], b.node[q])
    BY <2>1, AlikeIsLike
  <2> QED BY <2>1, <2>2 DEF Like
<1>20. \A q \in {p, new} :
         /\ ~t.node[q].leaf /\ t.node[q].root = r.node[q].root
         /\ t.node[q].kids = h.node[q].kids /\ Len(t.node[q].keys) = Len(h.node[q].keys)
  <2>1. \A q \in {p, new} : h.node[q].root = r.node[q].root /\ Like(t.node[q], h.node[q])
    BY <1>10, <1>15, <1>18 DEF SplitsInto
  <2> QED BY <1>16, <2>1 DEF Like
<1>21. /\ \A q \in {p, new} : /\ Len(h.node[q].kids) = Len(h.node[q].keys) + 1
                             /\ Len(h.node[q].keys) <= M /\ IsInjective(h.node[q].kids)
       /\ Len(h.node[new].keys) < M
       /\ ToSet(h.node[p].kids) \cap ToSet(h.node[new].kids) = {}
       /\ ToSet(h.node[p].kids) \cup ToSet(h.node[new].kids) = ToSet(s.node[p].kids) \cup {child}
  BY <1>14, <1>15 DEF SplitsInto
<1>22. SameList(b, t) /\ b.dirty \subseteq t.dirty
  BY <1>14, <1>15, <1>18 DEF SplitsInto, SameList
<1>23. IsTree(t, {new})
  <2> DEFINE C == {p, new}
             L == {child, new}
  <2>1. \A q \in C : /\ q = Root \/ IsKid(b, q) \/ q \in L
                     /\ Fits(t.node[q]) /\ (t.node[q].root <=> q = Root)
                     /\ IsInjective(t.node[q].kids)
    <3>1. IsKid(b, p) \/ p \in L
      <4>1. ~IsBlank(b.node[p])
        BY <1>12 DEF IsBlank
      <4> QED BY <1>10, <4>1, Owners
    <3>2. Fits(t.node[p]) /\ Fits(t.node[new])
      BY <1>20, <1>21 DEF Fits
    <3>3. ~t.node[p].root /\ ~t.node[new].root
      BY <1>1, <1>14, <1>20
    <3> QED BY <1>10, <1>20, <1>21, <3>1, <3>2, <3>3
  <2>2. \A q, x \in C : q # x => ToSet(t.node[q].kids) \cap ToSet(t.node[x].kids) = {}
    BY <1>20, <1>21
  <2>3. \A x \in Pages : Under(t, C, x) <=> (Under(b, C, x) /\ x \notin {}) \/ x \in {child}
    <3>1. \A x \in Pages : Under(t, C, x) <=> x \in ToSet(s.node[p].kids) \cup {child}
      BY <1>20, <1>21 DEF Under
    <3>2. ToSet(b.node[new].kids) = {}
      BY <1>10, BlankNode
    <3>3. \A x \in Pages : Under(b, C, x) <=> x \in ToSet(s.node[p].kids)
      BY <1>12, <3>2 DEF Under
    <3> QED BY <3>1, <3>3
  <2> DEFINE F == {child}
             G == {}
  <2>4. C \in SUBSET Pages /\ F \subseteq L /\ IsTree(b, L)
    BY <1>10
  <2>5. \A q \in Pages \ C : Like(t.node[q], b.node[q])
    BY <1>19
  <2>6. t \in Stores /\ SameList(b, t)
    BY <1>18, <1>22
  <2>7. {new} = (L \ F) \cup G
    BY <1>10
  <2> HIDE DEF C, L
  <2>8. Reshapes(b, t, L, {new}, C, F, G)
    BY <2>1, <2>2, <2>3, <2>4, <2>5, <2>6, <2>7 DEF Reshapes
  <2> HIDE DEF F, G
  <2> QED BY <2>4, <2>8, Reshaped
<1>24. StoredRows(t) = StoredRows(s)
  <2>1. LeafKeys(t, p) = {} /\ LeafKeys(s, p) = {} /\ LeafKeys(t, new) = {}
    BY <1>20 DEF LeafKeys
  <2>2. LeafKeys(s, new) = {}
    BY <1>10, BlankNode
  <2>3. \A q \in Pages \ {p, new} : LeafKeys(t, q) = LeafKeys(s, q)
    BY <1>19 DEF Like, LeafKeys
  <2> QED BY <2>1, <2>2, <2>3, RowsAlike
<1>25. Marks(s, t, {q1})
  <2>1. p \in t.dirty /\ new \in t.dirty /\ s.dirty \subseteq t.dirty
    BY <1>2, <1>10, <1>22 DEF Marks
  <2>2. \A x \in Pages \ (t.dirty \cup {q1}) : Alike(t.node[x], s.node[x])
    <3> SUFFICES ASSUME NEW x \in Pages \ (t.dirty \cup {q1})
                 PROVE  Alike(t.node[x], s.node[x])
      OBVIOUS
    <3>1. x \notin {p, new}
      BY <2>1
    <3>2. t.node[x] = h.node[x] /\ Alike(h.node[x], r.node[x]) /\ r.node[x] = s.node[x]
      BY <1>10, <1>14, <1>15, <1>18, <3>1 DEF SplitsInto
    <3> QED BY <3>2
  <2>3. Marks(s, b, {} \cup {})
    BY <1>2, <1>10, MarksTogether
  <2>4. \A x \in Pages \ t.dirty : t.link[x] = s.link[x]
    BY <1>22, <2>3 DEF Marks, SameList
  <2>5. 0 \in t.dirty \/ t.free_page_head = s.free_page_head
    BY <1>22, <2>3 DEF Marks, SameList
  <2> QED BY <2>1, <2>2, <2>4, <2>5 DEF Marks
<1>26. q1 = t.node[p].parent
  BY <1>18 DEF q1
<1>27. \A q \in Pages \ {new} : t.node[q].parent \in {s.node[q].parent, p, new}
  BY <1>10, <1>14, <1>15, <1>18 DEF ParentsIn
<1>28. Len(t.node[new].keys) < M
  BY <1>20, <1>21
<1>29. p \in t.dirty /\ new \in t.dirty
  BY <1>2, <1>10, <1>22 DEF Marks
<1>30. SameList(TakePage(Mark(s, p)), t)
  BY <1>22 DEF b, marked
<1> QED BY <1>10, <1>11, <1>19, <1>20, <1>23, <1>24, <1>25, <1>26, <1>27, <1>28, <1>29, <1>30
        DEF SplitsBeside, IsBlank


\* t is a tree without loose pages that has the rows of s, and what it has of them
\* elsewhere is marked.
Settles(s, t) == IsTree(t, {}) /\ StoredRows(t) = StoredRows(s) /\ Marks(s, t, {})

\* internal_node_split_and_insert of the root: its halves are the children of the new one.
LEMMA RootSplit ==
  ASSUME NEW s, NEW child \in Pages, IsTree(s, {child}), child # Root,
         ~s.node[Root].leaf, Len(s.node[Root].keys) = INTERNAL_NODE_MAX_KEYS,
         ~NoPagesToSplit(s, Root), NEW t, t = SplitAndInsert(s, Root, child)
  PROVE  Settles(s, t) /\ Root \in t.dirty /\ \A X : KeepsParents(s, X, t, X)
<1> DEFINE marked == Mark(s, Root)
           new == UnusedPage(marked)
           b == TakePage(marked)
           left == UnusedPage(b)
           v == TakePage(b)
           r == create_new_root(b, new)
           child_max == get_node_max_key(s, child)
           old_max == get_node_max_key(s, Root)
           h == InsertIntoHalf(Halve(r, left, new), left, new, child, child_max)
           M == INTERNAL_NODE_MAX_KEYS
<1>1. s \in Stores /\ Root \in Pages /\ s.node[Root].root /\ Len(s.node[Root].kids) = M + 1
      /\ IsInjective(s.node[Root].kids) /\ child \notin ToSet(s.node[Root].kids)
      /\ ~NoPage(s) /\ ~NoPage(TakePage(s))
  <2>1. s \in Stores /\ Root \in Pages /\ s.node[Root].root /\ Len(s.node[Root].kids) = M + 1
    BY Constants DEF IsTree, Shaped, Fits
  <2>2. IsInjective(s.node[Root].kids)
    BY <2>1 DEF IsTree, KidsOnce
  <2>3. ~IsKid(s, child)
    BY DEF IsTree, OneOwner
  <2>4. child \notin ToSet(s.node[Root].kids) /\ ~NoPage(s) /\ ~NoPage(TakePage(s))
    BY <2>1, <2>3 DEF IsKid, NoPagesToSplit
  <2> QED BY <2>1, <2>2, <2>4
<1>2. /\ IsTree(marked, {child}) /\ StoredRows(marked) = StoredRows(s) /\ SameList(s, marked)
      /\ marked.node = s.node /\ marked.dirty = s.dirty \cup {Root} /\ Marks(s, marked, {})
  BY <1>1, MarkedTree
<1>3. t = UpdateKeyOf(h, left, old_max)
  BY <1>1, Zenon DEF SplitAndInsert
<1> HIDE DEF marked
<1>4. marked \in Stores
  BY <1>2 DEF IsTree
<1>5. ~NoPage(marked) /\ ~NoPage(b)
  BY <1>1, <1>2, <1>4, NextPage
<1>6. new = UnusedPage(marked) /\ b = TakePage(marked) /\ left = UnusedPage(b) /\ v = TakePage(b)
      /\ r = create_new_root(b, new) /\ old_max \in Nat
      /\ h = InsertIntoHalf(Halve(r, left, new), left, new, child, child_max)
  BY <1>1, MaxKeyIsNat
<1> HIDE DEF new, b, left, v, r, child_max, old_max, h
<1>7. TakesPage(marked, b, new) /\ new \notin {child} /\ IsTree(b, {child} \cup {new})
  BY <1>2, <1>5, <1>6, PageTaken
<1>8. TakesPage(b, v, left) /\ left \notin {child} \cup {new} /\ IsTree(v, {child} \cup {new} \cup {left})
  BY <1>5, <1>6, <1>7, PageTaken
<1>9. MakesRoot(b, r, left, new) /\ SameList(v, r) /\ r.dirty = v.dirty
  <2>1. new \in {child} \cup {new} /\ new \in Pages
    BY <1>7 DEF TakesPage
  <2> QED BY <1>5, <1>6, <1>7, <2>1, RootMade
<1>10. /\ new \in Pages /\ left \in Pages /\ Root \in Pages /\ new # left /\ new # Root /\ left # Root
       /\ new # child /\ left # child
       /\ new \notin ToSet(s.node[Root].kids) /\ left \notin ToSet(s.node[Root].kids)
  <2>1. ~IsKid(s, new) /\ ~IsKid(s, left)
    BY <1>2, <1>7, <1>8 DEF TakesPage, IsKid
  <2> QED BY <1>1, <1>7, <1>8, <2>1 DEF TakesPage, IsKid
<1>11. /\ b.node[Root] = s.node[Root] /\ v.node[Root] = s.node[Root]
       /\ \A q \in Pages \ {new} : b.node[q] = s.node[q]
       /\ \A q \in Pages \ {new, left} : v.node[q] = s.node[q]
       /\ IsBlank(s.node[new]) /\ IsBlank(b.node[new]) /\ IsBlank(v.node[new])
       /\ IsBlank(s.node[left]) /\ IsBlank(v.node[left])
  BY <1>2, <1>7, <1>8, <1>10 DEF TakesPage
<1>12. /\ r \in Stores /\ ~r.node[left].leaf /\ ~r.node[new].leaf /\ ~r.node[Root].leaf
       /\ ~r.node[left].root /\ ~r.node[new].root /\ r.node[Root].root
       /\ r.node[left].kids = s.node[Root].kids /\ r.node[left].keys = s.node[Root].keys
       /\ r.node[new].kids = <<>> /\ r.node[new].keys = <<>>
       /\ r.node[Root].kids = <<left, new>> /\ Len(r.node[Root].keys) = 1
       /\ r.node[left].parent = Root
  BY <1>9, <1>11 DEF MakesRoot
<1>13. \A q \in Pages \ {Root, left, new} : Alike(r.node[q], s.node[q])
  BY <1>9, <1>11 DEF MakesRoot
<1>14. SplitsInto(r, h, left, new, child) /\ ParentsIn(r, h, {left, new})
  <2>1. r \in Stores /\ left # new /\ left \in Pages /\ new \in Pages
    BY <1>10, <1>12
  <2>2. /\ Len(r.node[left].kids) = M + 1 /\ Len(r.node[left].keys) = M
        /\ IsInjective(r.node[left].kids) /\ new \notin ToSet(r.node[left].kids)
        /\ child \notin ToSet(r.node[left].kids)
        /\ r.node[new].kids = <<>> /\ r.node[new].keys = <<>>
    BY <1>1, <1>10, <1>12
  <2> QED BY <1>6, <2>1, <2>2, SplitUp
<1> DEFINE q1 == h.node[left].parent
<1>15. h \in Stores /\ ~h.node[left].leaf /\ ~h.node[new].leaf /\ ~h.node[Root].leaf
       /\ h.node[Root].root /\ h.node[Root].kids = <<left, new>> /\ Len(h.node[Root].keys) = 1
       /\ ~h.node[left].root /\ ~h.node[new].root /\ q1 \in {Root, left, new}
  <2>1. h \in Stores /\ h.node[left].leaf = r.node[left].leaf /\ h.node[new].leaf = r.node[new].leaf
        /\ h.node[left].root = r.node[left].root /\ h.node[new].root = r.node[new].root
        /\ Alike(h.node[Root], r.node[Root])
    BY <1>10, <1>14 DEF SplitsInto
  <2>2. q1 \in {r.node[left].parent} \cup {left, new}
    BY <1>10, <1>14 DEF ParentsIn
  <2> QED BY <1>12, <2>1, <2>2 DEF Alike
<1>16. ~h.node[q1].leaf /\ q1 \in Pages
  BY <1>10, <1>15
<1>17. /\ t \in Stores /\ SameList(h, t) /\ t.dirty = h.dirty
       /\ \A q \in Pages : Like(t.node[q], h.node[q]) /\ t.node[q].parent = h.node[q].parent
       /\ \A q \in Pages \ {q1} : t.node[q] = h.node[q]
  <2>1. h \in Stores /\ left \in Pages /\ ~h.node[h.node[left].parent].leaf
    BY <1>10, <1>15, <1>16
  <2> HIDE DEF q1
  <2>2. /\ t \in Stores /\ SameList(h, t) /\ t.dirty = h.dirty
        /\ \A q \in Pages : Like(t.node[q], h.node[q]) /\ t.node[q].parent = h.node[q].parent
        /\ \A q \in Pages \ {h.node[left].parent} : t.node[q] = h.node[q]
    BY <1>3, <1>6, <2>1, KeyUpdated
  <2> QED BY <2>2 DEF q1
<1> HIDE DEF q1
<1>18. \A q \in Pages \ {Root, left, new} : Alike(t.node[q], s.node[q]) /\ v.node[q] = s.node[q]
  <2> SUFFICES ASSUME NEW q \in Pages \ {Root, left, new}
               PROVE  Alike(t.node[q], s.node[q]) /\ v.node[q] = s.node[q]
    OBVIOUS
  <2>1. t.node[q] = h.node[q] /\ Alike(h.node[q], r.node[q]) /\ Alike(r.node[q], s.node[q])
    BY <1>13, <1>14, <1>15, <1>17 DEF SplitsInto
  <2> QED BY <1>11, <2>1 DEF Alike
<1>19. \A q \in {Root, left, new} :
         /\ ~t.node[q].leaf /\ t.node[q].root = h.node[q].root
         /\ t.node[q].kids = h.node[q].kids /\ Len(t.node[q].keys) = Len(h.node[q].keys)
  BY <1>10, <1>15, <1>17 DEF Like
<1>20. /\ \A q \in {left, new} : /\ Len(h.node[q].kids) = Len(h.node[q].keys) + 1
                                /\ Len(h.node[q].keys) <= M /\ IsInjective(h.node[q].kids)
       /\ ToSet(h.node[left].kids) \cap ToSet(h.node[new].kids) = {}
       /\ ToSet(h.node[left].kids) \cup ToSet(h.node[new].kids) = ToSet(s.node[Root].kids) \cup {child}
       /\ SameList(r, h) /\ r.dirty \subseteq h.dirty
  BY <1>12, <1>14 DEF SplitsInto
<1>21. /\ ToSet(t.node[Root].kids) = {left, new} /\ IsInjective(t.node[Root].kids)
       /\ Len(t.node[Root].kids) = 2 /\ Len(t.node[Root].keys) = 1
  <2>1. /\ ToSet(<<left, new>>) = {left, new} /\ Len(<<left, new>>) = 2
        /\ IsInjective(<<left, new>>)
    BY <1>10 DEF ToSet, IsInjective
  <2> QED BY <1>15, <1>19, <2>1
<1>22. IsTree(t, {})
  <2> DEFINE C == {Root, left, new}
             L == {child} \cup {new} \cup {left}
             F == L
             G == {}
  <2>1. \A q \in C : Fits(t.node[q]) /\ (t.node[q].root <=> q = Root) /\ IsInjective(t.node[q].kids)
    <3>1. Fits(t.node[left]) /\ Fits(t.node[new])
      BY <1>19, <1>20 DEF Fits
    <3>2. Fits(t.node[Root])
      BY <1>19, <1>21, Constants DEF Fits
    <3>3. ~t.node[left].root /\ ~t.node[new].root /\ t.node[Root].root
      BY <1>15, <1>19
    <3>4. IsInjective(t.node[left].kids) /\ IsInjective(t.node[new].kids)
      BY <1>19, <1>20
    <3> QED BY <1>10, <1>21, <3>1, <3>2, <3>3, <3>4
  <2>2. \A q, x \in C : q # x => ToSet(t.node[q].kids) \cap ToSet(t.node[x].kids) = {}
    <3>1. /\ ToSet(t.node[left].kids) = ToSet(h.node[left].kids)
          /\ ToSet(t.node[new].kids) = ToSet(h.node[new].kids)
      BY <1>19
    <3>2. \A x \in ToSet(h.node[left].kids) \cup ToSet(h.node[new].kids) : x # left /\ x # new
      BY <1>10, <1>20
    <3> QED BY <1>20, <1>21, <3>1, <3>2
  <2>3. \A x \in Pages : Under(t, C, x) <=> (Under(v, C, x) /\ x \notin G) \/ x \in F
    <3>1. \A x \in Pages : Under(t, C, x) <=> x \in ToSet(s.node[Root].kids) \cup L
      <4>1. \A x \in Pages : Under(t, C, x) <=>
              \/ x \in {left, new} \/ x \in ToSet(h.node[left].kids) \/ x \in ToSet(h.node[new].kids)
        BY <1>19, <1>21 DEF Under
      <4> QED BY <1>20, <4>1
    <3>2. ToSet(v.node[new].kids) = {} /\ ToSet(v.node[left].kids) = {}
      BY <1>10, <1>11, BlankNode
    <3>3. \A x \in Pages : Under(v, C, x) <=> x \in ToSet(s.node[Root].kids)
      BY <1>11, <3>2 DEF Under
    <3> QED BY <3>1, <3>3
  <2>4. C \in SUBSET Pages /\ F \subseteq L /\ IsTree(v, L)
    BY <1>8, <1>10
  <2>5. \A q \in Pages \ C : Like(t.node[q], v.node[q])
    BY <1>18 DEF Like, Alike
  <2>6. t \in Stores /\ SameList(v, t)
    BY <1>9, <1>17, <1>20 DEF SameList
  <2>7. \A q \in C : q = Root \/ IsKid(v, q) \/ q \in L
    OBVIOUS
  <2>8. {} = (L \ F) \cup G /\ \A x \in G : Under(v, C, x)
    OBVIOUS
  <2> HIDE DEF C, L, F, G
  <2>9. Reshapes(v, t, L, {}, C, F, G)
    BY <2>1, <2>2, <2>3, <2>4, <2>5, <2>6, <2>7, <2>8 DEF Reshapes
  <2> QED BY <2>4, <2>9, Reshaped
<1>23. StoredRows(t) = StoredRows(s)
  <2>1. LeafKeys(t, left) = {} /\ LeafKeys(t, new) = {} /\ LeafKeys(t, Root) = {} /\ LeafKeys(s, Root) = {}
    BY <1>19 DEF LeafKeys
  <2>2. LeafKeys(s, new) = {} /\ LeafKeys(s, left) = {}
    BY <1>10, <1>11, BlankNode
  <2>3. \A q \in Pages \ {Root, left, new} : LeafKeys(t, q) = LeafKeys(s, q)
    BY <1>18 DEF Alike, LeafKeys
  <2> QED BY <2>1, <2>2, <2>3, RowsAlike
<1>24. Marks(s, t, {})
  <2>1. Root \in t.dirty /\ new \in t.dirty /\ left \in t.dirty /\ s.dirty \subseteq t.dirty
    BY <1>2, <1>7, <1>8, <1>9, <1>17, <1>20 DEF Marks, TakesPage
  <2>2. \A x \in Pages \ t.dirty : Alike(t.node[x], s.node[x])
    BY <1>18, <2>1
  <2>3. Marks(s, b, {} \cup {})
    BY <1>2, <1>7, MarksTogether DEF TakesPage
  <2>4. Marks(s, v, ({} \cup {}) \cup {})
    BY <1>8, <2>3, MarksTogether DEF TakesPage
  <2>5. SameList(v, t) /\ v.dirty \subseteq t.dirty
    BY <1>9, <1>17, <1>20 DEF SameList
  <2> QED BY <2>1, <2>2, <2>4, <2>5 DEF Marks, SameList
<1>25. Root \in t.dirty /\ new \in t.dirty /\ left \in t.dirty
  BY <1>2, <1>7, <1>8, <1>9, <1>17, <1>20 DEF Marks, TakesPage
<1>26. ASSUME NEW X, AllGrown(s, X)
       PROVE  AllGrown(t, X) /\ GrownOutOf(s, t)
  <2>1. /\ t.free_page_head = 0 /\ t.num_pages = s.num_pages + 2
        /\ new = s.num_pages /\ left = s.num_pages + 1
    <3>1. marked.free_page_head = 0 /\ marked.num_pages = s.num_pages
      BY <1>2, <1>26 DEF AllGrown, SameList
    <3>2. new = s.num_pages /\ b.num_pages = s.num_pages + 1 /\ b.free_page_head = 0
      BY <1>4, <1>5, <1>6, <3>1, PageAdded
    <3>3. b \in Stores
      BY <1>7 DEF IsTree
    <3>4. left = b.num_pages /\ v.num_pages = b.num_pages + 1 /\ v.free_page_head = 0
      BY <1>5, <1>6, <3>2, <3>3, PageAdded
    <3>5. SameList(v, t)
      BY <1>9, <1>17, <1>20 DEF SameList
    <3> QED BY <1>1, <3>2, <3>4, <3>5 DEF SameList, Stores
  <2>2. \A q \in Pages : ~s.node[q].leaf => ~t.node[q].leaf
    BY <1>18, <1>19 DEF Alike
  <2>3. GrownOutOf(s, t)
    <3>1. s.num_pages \in Nat /\ s.dirty \subseteq t.dirty
      BY <1>1, <1>24 DEF Stores, Marks
    <3>2. \A q \in Pages : q >= s.num_pages /\ q < t.num_pages => q \in {new, left}
      BY <2>1, <3>1 DEF Pages
    <3>3. s.num_pages <= t.num_pages
      BY <2>1, <3>1
    <3> QED BY <1>25, <2>2, <3>1, <3>2, <3>3 DEF GrownOutOf
  <2>4. \A q \in Pages \ {Root, left, new} :
          t.node[q].parent \in {s.node[q].parent, left, new}
    <3> SUFFICES ASSUME NEW q \in Pages \ {Root, left, new}
                 PROVE  t.node[q].parent \in {s.node[q].parent, left, new}
      OBVIOUS
    <3>1. t.node[q].parent \in {r.node[q].parent, left, new}
      BY <1>14, <1>17 DEF ParentsIn
    <3>2. r.node[q].parent \in {b.node[q].parent, left} /\ b.node[q] = s.node[q]
      BY <1>9, <1>11 DEF MakesRoot
    <3> QED BY <3>1, <3>2
  <2>5. \A q \in {left, new} : t.node[q].parent \in {Root, left, new}
    <3>1. r.node[left].parent = Root /\ r.node[new].parent = Root
      BY <1>9 DEF MakesRoot
    <3> QED BY <1>10, <1>14, <1>17, <3>1 DEF ParentsIn
  <2>6. ASSUME NEW q \in Pages, q > Root, q < t.num_pages, q \notin X
        PROVE  ~t.node[t.node[q].parent].leaf
    <3>1. q # Root
      BY <2>6, Constants
    <3>2. CASE q \in {left, new}
      BY <1>19, <2>5, <3>2
    <3>3. CASE q \notin {left, new}
      <4>1. q < s.num_pages
        BY <1>1, <2>1, <2>6, <3>3 DEF Stores, Pages
      <4>2. ~s.node[s.node[q].parent].leaf /\ s.node[q].parent \in Pages
        BY <1>1, <1>26, <2>6, <4>1, NodeFields DEF AllGrown
      <4> QED BY <1>19, <2>2, <2>4, <3>1, <3>3, <4>2
    <3> QED BY <3>2, <3>3
  <2> QED BY <2>1, <2>3, <2>6 DEF AllGrown
<1> QED BY <1>22, <1>23, <1>24, <1>25, <1>26 DEF Settles, KeepsParents

-----------------------------------------------------------------------------
(* Up the tree from a leaf that was split. *)

\* Every internal node but the root and those in news has an internal node as its
\* parent.
ParentsAreInternal(s, news) ==
  \A q \in Pages \ news : ~s.node[q].leaf /\ q # Root => ~s.node[s.node[q].parent].leaf

\* s, which began as s0, waits for p to take the child; the new nodes of the splits
\* so far have room.
Rising(s0, s, p, child, news) ==
  /\ p \in Pages /\ child \in Pages /\ news \subseteq Pages
  /\ IsTree(s, {child}) /\ StoredRows(s) = StoredRows(s0) /\ Marks(s0, s, {p})
  /\ ~s.node[p].leaf
  /\ s.node[child].leaf \/ Len(s.node[child].keys) < INTERNAL_NODE_MAX_KEYS
  /\ \A q \in news : Len(s.node[q].keys) < INTERNAL_NODE_MAX_KEYS
  /\ ParentsAreInternal(s, news)

\* A node with room takes the child.
LEMMA RiseTaken ==
  ASSUME NEW s0, NEW s, NEW p, NEW child, NEW news, Rising(s0, s, p, child, news),
         Len(s.node[p].keys) < INTERNAL_NODE_MAX_KEYS, NEW t, t = TakeChild(s, p, child)
  PROVE  Settles(s0, t) /\ \A X : KeepsParents(s, X, t, X)
<1>1. /\ p \in Pages /\ child \in Pages /\ s \in Stores /\ IsTree(s, {child})
      /\ ~s.node[p].leaf /\ StoredRows(s) = StoredRows(s0) /\ Marks(s0, s, {p})
  BY DEF Rising, IsTree
<1>2. /\ Len(s.node[p].kids) = Len(s.node[p].keys) + 1 /\ IsInjective(s.node[p].kids)
      /\ child \notin ToSet(s.node[p].kids)
      /\ (s.node[p].root <=> p = Root)
  BY <1>1 DEF IsTree, Shaped, Fits, KidsOnce, OneOwner, IsKid
<1>3. TakesChild(s, t, p, child) /\ SameParents(s, t)
  BY <1>1, <1>2, ChildTaken DEF HasChildren
<1>4. t \in Stores /\ SameList(s, t) /\ t.dirty = s.dirty \cup {p}
      /\ \A q \in Pages \ {p} : Alike(t.node[q], s.node[q])
  BY <1>3 DEF TakesChild
<1>5. /\ Len(t.node[p].kids) = Len(t.node[p].keys) + 1
      /\ Len(t.node[p].keys) = Len(s.node[p].keys) + 1
      /\ ToSet(t.node[p].kids) = ToSet(s.node[p].kids) \cup {child}
      /\ IsInjective(t.node[p].kids) /\ ~t.node[p].leaf /\ (t.node[p].root <=> p = Root)
  BY <1>1, <1>2, <1>3 DEF TakesChild
<1>6. IsTree(t, {})
  <2> DEFINE C == {p}
             L == {child}
             F == {child}
             G == {}
  <2>1. Fits(t.node[p])
    <3>1. Len(s.node[p].keys) \in Nat
      BY <1>1, NodeFields
    <3> QED BY <1>5, <3>1, Constants DEF Fits
  <2>2. p = Root \/ IsKid(s, p) \/ p \in L
    <3>1. ~IsBlank(s.node[p])
      BY <1>1 DEF IsBlank
    <3> QED BY <1>1, <3>1, Owners
  <2>3. \A x \in Pages : Under(t, C, x) <=> (Under(s, C, x) /\ x \notin G) \/ x \in F
    BY <1>5 DEF Under
  <2>4. \A q \in Pages \ C : Like(t.node[q], s.node[q])
    BY <1>4, AlikeIsLike
  <2>5. C \subseteq Pages /\ F \subseteq L /\ {} = (L \ F) \cup G
    BY <1>1
  <2>6. \A q \in C : /\ q = Root \/ IsKid(s, q) \/ q \in L
                     /\ Fits(t.node[q]) /\ (t.node[q].root <=> q = Root)
                     /\ IsInjective(t.node[q].kids)
    BY <1>5, <2>1, <2>2
  <2>7. /\ \A q, x \in C : q # x => ToSet(t.node[q].kids) \cap ToSet(t.node[x].kids) = {}
        /\ \A x \in G : Under(s, C, x)
    OBVIOUS
  <2>8. IsTree(s, L)
    BY <1>1
  <2> HIDE DEF C, L, F, G
  <2>9. Reshapes(s, t, L, {}, C, F, G)
    BY <1>4, <2>3, <2>4, <2>5, <2>6, <2>7 DEF Reshapes
  <2> QED BY <2>8, <2>9, Reshaped
<1>7. StoredRows(t) = StoredRows(s)
  <2>1. \A q \in Pages : LeafKeys(t, q) = LeafKeys(s, q)
    BY <1>1, <1>4, <1>5 DEF Alike, LeafKeys
  <2> QED BY <2>1, RowsAlike
<1>8. Marks(s, t, {p})
  BY <1>4 DEF Marks, SameList
<1>9. Marks(s0, t, {})
  <2>1. Marks(s0, t, {p} \cup {p})
    BY <1>1, <1>8, MarksTogether
  <2>2. p \in t.dirty
    BY <1>4
  <2> QED BY <2>1, <2>2, MarksAll
<1>10. ASSUME NEW X, AllGrown(s, X)
       PROVE  AllGrown(t, X) /\ GrownOutOf(s, t)
  <2>1. t.free_page_head = 0 /\ t.num_pages = s.num_pages /\ t.num_pages \in Nat
    BY <1>1, <1>4, <1>10 DEF AllGrown, SameList, Stores
  <2>2. \A q \in Pages : t.node[q].leaf = s.node[q].leaf
    BY <1>3, <1>4 DEF TakesChild, Alike
  <2>3. \A q \in Pages : t.node[q].parent = s.node[q].parent /\ s.node[q].parent \in Pages
    BY <1>1, <1>3, NodeFields DEF SameParents
  <2>4. GrownOutOf(s, t)
    BY <1>4, <2>1, <2>2, Constants DEF GrownOutOf, Pages
  <2> QED BY <1>10, <2>1, <2>2, <2>3, <2>4 DEF AllGrown
<1> QED BY <1>1, <1>6, <1>7, <1>9, <1>10 DEF Settles, KeepsParents

\* The root is split.
LEMMA RiseEnds ==
  ASSUME NEW s0, NEW s, NEW p, NEW child, NEW news, Rising(s0, s, p, child, news),
         Len(s.node[p].keys) = INTERNAL_NODE_MAX_KEYS, s.node[p].root, ~NoPagesToSplit(s, p),
         NEW t, t = SplitAndInsert(s, p, child)
  PROVE  Settles(s0, t) /\ \A X : KeepsParents(s, X, t, X)
<1>1. /\ p \in Pages /\ child \in Pages /\ s \in Stores /\ IsTree(s, {child})
      /\ ~s.node[p].leaf /\ StoredRows(s) = StoredRows(s0) /\ Marks(s0, s, {p})
  BY DEF Rising, IsTree
<1>2. p = Root
  BY <1>1 DEF IsTree, Shaped
<1>3. child # Root
  BY <1>1, Owners
<1>4. Settles(s, t) /\ Root \in t.dirty /\ \A X : KeepsParents(s, X, t, X)
  <2>1. /\ ~s.node[Root].leaf /\ Len(s.node[Root].keys) = INTERNAL_NODE_MAX_KEYS
        /\ ~NoPagesToSplit(s, Root) /\ t = SplitAndInsert(s, Root, child)
    BY <1>1, <1>2
  <2> QED BY <1>1, <1>3, <2>1, RootSplit
<1>5. IsTree(t, {}) /\ StoredRows(t) = StoredRows(s) /\ Marks(s, t, {})
  BY <1>4 DEF Settles
<1>6. Marks(s0, t, {})
  <2>1. Marks(s0, t, {p} \cup {})
    BY <1>1, <1>5, MarksTogether
  <2> QED BY <1>2, <1>4, <2>1, MarksAll
<1> QED BY <1>1, <1>4, <1>5, <1>6 DEF Settles

\* A node beside the root is split, and its parent is next.
LEMMA RiseGoesOn ==
  ASSUME NEW s0, NEW s, NEW p, NEW child, NEW news, Rising(s0, s, p, child, news),
         Len(s.node[p].keys) = INTERNAL_NODE_MAX_KEYS, ~s.node[p].root, ~NoPagesToSplit(s, p),
         NEW new, new = UnusedPage(s), NEW t, t = SplitAndInsert(s, p, child)
  PROVE  /\ Rising(s0, t, t.node[p].parent, new, news \cup {new})
         /\ KeepsParents(s, news, t, news \cup {new})
         /\ p > Root /\ p < s.num_pages /\ p \notin news \cup {new}
         /\ s.free_page_head = 0 => new = s.num_pages
<1>1. /\ p \in Pages /\ child \in Pages /\ s \in Stores /\ IsTree(s, {child}) /\ news \subseteq Pages
      /\ ~s.node[p].leaf /\ StoredRows(s) = StoredRows(s0) /\ Marks(s0, s, {p})
      /\ \A q \in news : Len(s.node[q].keys) < INTERNAL_NODE_MAX_KEYS
  BY DEF Rising, IsTree
<1>2. p # Root
  BY <1>1 DEF IsTree, Shaped
<1>3. p \notin news /\ p # child
  BY <1>1, Constants DEF Rising
<1>4. \A q \in Pages \ news : ~s.node[q].leaf /\ q # Root => ~s.node[s.node[q].parent].leaf
  BY DEF Rising, ParentsAreInternal
<1>5. ~s.node[s.node[p].parent].leaf
  BY <1>1, <1>2, <1>3, <1>4
<1>6. SplitsBeside(s, t, p, new)
  BY <1>1, <1>2, <1>3, <1>5, NodeSplit
<1> DEFINE q1 == t.node[p].parent
<1>7. /\ IsTree(t, {new}) /\ StoredRows(t) = StoredRows(s) /\ new \in Pages
      /\ Marks(s, t, {q1}) /\ p \in t.dirty
      /\ ~t.node[p].leaf /\ ~t.node[new].leaf /\ Len(t.node[new].keys) < INTERNAL_NODE_MAX_KEYS
  BY <1>6 DEF SplitsBeside
<1>8. \A q \in Pages \ {p, new} : Like(t.node[q], s.node[q])
  BY <1>6 DEF SplitsBeside
<1>9. \A q \in Pages \ {new} : t.node[q].parent \in {s.node[q].parent, p, new}
  BY <1>6 DEF SplitsBeside
<1>10. \A q \in Pages : s.node[q].parent \in Pages /\ (~s.node[q].leaf => ~t.node[q].leaf)
  <2> SUFFICES ASSUME NEW q \in Pages
               PROVE  s.node[q].parent \in Pages /\ (~s.node[q].leaf => ~t.node[q].leaf)
    OBVIOUS
  <2>1. s.node[q].parent \in Pages
    BY <1>1, NodeFields
  <2>2. q \notin {p, new} => t.node[q].leaf = s.node[q].leaf
    BY <1>8 DEF Like
  <2> QED BY <1>7, <2>1, <2>2
<1>11. ParentsAreInternal(t, news \cup {new})
  <2> SUFFICES ASSUME NEW q \in Pages \ (news \cup {new}), ~t.node[q].leaf, q # Root
               PROVE  ~t.node[t.node[q].parent].leaf
    BY DEF ParentsAreInternal
  <2>1. ~s.node[q].leaf
    BY <1>1, <1>8 DEF Like
  <2>2. ~s.node[s.node[q].parent].leaf
    BY <1>4, <2>1
  <2>3. ~t.node[s.node[q].parent].leaf
    BY <1>10, <2>2
  <2> QED BY <1>7, <1>9, <2>3
<1>12. q1 \in Pages /\ ~t.node[q1].leaf
  <2>1. ~t.node[s.node[p].parent].leaf
    BY <1>1, <1>5, <1>10
  <2>2. q1 \in {s.node[p].parent, p, new}
    <3>1. p \in Pages \ {new}
      BY <1>1, <1>6 DEF SplitsBeside
    <3> QED BY <1>9, <3>1
  <2> QED BY <1>1, <1>7, <1>10, <2>1, <2>2
<1>13. \A q \in news \cup {new} : Len(t.node[q].keys) < INTERNAL_NODE_MAX_KEYS
  <2> SUFFICES ASSUME NEW q \in news, q # new
               PROVE  Len(t.node[q].keys) < INTERNAL_NODE_MAX_KEYS
    BY <1>7
  <2>1. Like(t.node[q], s.node[q])
    BY <1>1, <1>3, <1>8
  <2>2. Len(t.node[q].keys) = Len(s.node[q].keys)
    BY <2>1 DEF Like
  <2> QED BY <1>1, <2>2
<1>14. Marks(s0, t, {q1})
  <2> HIDE DEF q1
  <2>1. Marks(s0, t, {p} \cup {q1})
    BY <1>1, <1>7, MarksTogether
  <2>2. {p} \cup {q1} \subseteq {q1} \cup t.dirty
    BY <1>7
  <2> QED BY <2>1, <2>2, MarksAll
<1>15. news \cup {new} \subseteq Pages
  BY <1>1, <1>7
<1> HIDE DEF q1
<1>16. Rising(s0, t, q1, new, news \cup {new})
  BY <1>1, <1>7, <1>11, <1>12, <1>13, <1>14, <1>15 DEF Rising
<1>17. p > Root /\ p < s.num_pages
  <2>1. ~IsBlank(s.node[p])
    BY <1>1 DEF IsBlank
  <2>2. p \in Root + 1 .. s.num_pages - 1
    BY <1>1, <1>2, <2>1, Owners
  <2> QED BY <1>1, <2>2, Constants DEF Stores
<1>18. p \notin news \cup {new}
  BY <1>1, <1>3, <1>6 DEF SplitsBeside
<1>19. ASSUME s.free_page_head = 0
       PROVE  new = s.num_pages /\ t.num_pages = s.num_pages + 1 /\ t.free_page_head = 0
  <2> DEFINE marked == Mark(s, p)
  <2>1. marked \in Stores /\ SameList(s, marked)
    BY <1>1, MarkedOne
  <2>2. SameList(TakePage(marked), t)
    BY <1>6 DEF SplitsBeside
  <2> HIDE DEF marked
  <2>3. ~NoPage(s)
    BY DEF NoPagesToSplit
  <2>4. ~NoPage(marked) /\ new = UnusedPage(marked) /\ marked.free_page_head = 0
        /\ marked.num_pages = s.num_pages
    BY <1>1, <1>19, <2>1, <2>3, NextPage DEF SameList
  <2>5. /\ new = marked.num_pages /\ TakePage(marked).num_pages = marked.num_pages + 1
        /\ TakePage(marked).free_page_head = 0
    BY <2>1, <2>4, PageAdded
  <2> QED BY <2>2, <2>4, <2>5 DEF SameList
<1>20. ASSUME AllGrown(s, news)
       PROVE  AllGrown(t, news \cup {new}) /\ GrownOutOf(s, t)
  <2>1. new = s.num_pages /\ t.num_pages = s.num_pages + 1 /\ t.free_page_head = 0
        /\ s.num_pages \in Nat
    BY <1>1, <1>19, <1>20 DEF AllGrown, Stores
  <2>2. GrownOutOf(s, t)
    <3>1. s.dirty \subseteq t.dirty /\ new \in t.dirty
      BY <1>6 DEF SplitsBeside, Marks
    <3>2. \A q \in Pages : q >= s.num_pages /\ q < t.num_pages => q = new
      BY <2>1 DEF Pages
    <3> QED BY <1>10, <2>1, <3>1, <3>2 DEF GrownOutOf
  <2>3. ASSUME NEW q \in Pages, q > Root, q < t.num_pages, q \notin news \cup {new}
        PROVE  ~t.node[t.node[q].parent].leaf
    <3>1. q < s.num_pages
      BY <2>1, <2>3 DEF Pages
    <3>2. ~s.node[s.node[q].parent].leaf
      BY <1>20, <2>3, <3>1 DEF AllGrown
    <3> QED BY <1>7, <1>9, <1>10, <1>1, <2>3, <3>2
  <2> QED BY <2>1, <2>2, <2>3 DEF AllGrown
<1> QED BY <1>16, <1>17, <1>18, <1>19, <1>20 DEF q1, KeepsParents


\* The pages that splits were of are none of those they took.
News(splits) == {d.new : d \in splits}
OldOnes(s, splits) ==
  \A d \in splits : d.old > Root /\ d.old < s.num_pages /\ d.old \notin News(splits)

\* Which parents s has, which began as s0, when only the new nodes still wait for theirs.
Awaits(s0, s, splits) ==
  AllGrown(s0, {}) =>
    AllGrown(s, News(splits)) /\ GrownOutOf(s0, s) /\ OldOnes(s, splits)

\* t refuses a page, or is settled but for the parents of the new nodes.
Grows(s, t, splits) ==
  /\ t \in Stores
  /\ t.num_pages > TABLE_MAX_PAGES \/ (Settles(s, t) /\ Awaits(s, t, splits))

\* What the loop of internal_node_insert goes through.
Climbs == [store : Stores, page : Pages, child : Pages,
           splits : SUBSET [new : Pages, old : Pages], done : BOOLEAN]
Climbing(s0, c) ==
  /\ s0 \in Stores /\ c \in Climbs
  /\ c.done => Grows(s0, c.store, c.splits)
  /\ ~c.done => /\ Rising(s0, c.store, c.page, c.child, News(c.splits))
                /\ Awaits(s0, c.store, c.splits)

\* What get_page refuses.
LEMMA IsRefused ==
  ASSUME NEW s \in Stores, NEW t, t = Refused(s)
  PROVE  t \in Stores /\ t.num_pages > TABLE_MAX_PAGES
BY Constants DEF Refused, Stores

\* What waits when another part of the statement has been done.
LEMMA StillAwaits ==
  ASSUME NEW s0 \in Stores, NEW s \in Stores, NEW t \in Stores, NEW splits \in SUBSET [new : Pages, old : Pages],
         Awaits(s0, s, splits), \A X : KeepsParents(s, X, t, X)
  PROVE  Awaits(s0, t, splits)
<1> SUFFICES ASSUME AllGrown(s0, {})
             PROVE  AllGrown(t, News(splits)) /\ GrownOutOf(s0, t) /\ OldOnes(t, splits)
  BY DEF Awaits
<1>1. AllGrown(s, News(splits)) /\ GrownOutOf(s0, s) /\ OldOnes(s, splits)
  BY DEF Awaits
<1>2. AllGrown(t, News(splits)) /\ GrownOutOf(s, t)
  BY <1>1 DEF KeepsParents
<1>3. GrownOutOf(s0, t)
  BY <1>1, <1>2, GrowsTogether
<1>4. OldOnes(t, splits)
  <2> SUFFICES ASSUME NEW d \in splits
               PROVE  d.old > Root /\ d.old < t.num_pages /\ d.old \notin News(splits)
    BY DEF OldOnes
  <2>1. d.old > Root /\ d.old < s.num_pages /\ d.old \notin News(splits) /\ d.old \in Int
    BY <1>1, Constants DEF OldOnes, Pages
  <2>2. s.num_pages <= t.num_pages /\ s.num_pages \in Int /\ t.num_pages \in Int
    BY <1>2 DEF GrownOutOf, Stores
  <2> QED BY <2>1, <2>2
<1> QED BY <1>2, <1>3, <1>4

\* One round of the loop.
LEMMA Climbed ==
  ASSUME NEW s0, NEW c, Climbing(s0, c)
  PROVE  Climbing(s0, InsertOnce(c))
<1> DEFINE s == c.store
           p == c.page
           child == c.child
           d == InsertOnce(c)
           news == News(c.splits)
           M == INTERNAL_NODE_MAX_KEYS
<1>1. /\ s0 \in Stores /\ c \in Climbs /\ s \in Stores /\ p \in Pages /\ child \in Pages
      /\ c.splits \in SUBSET [new : Pages, old : Pages] /\ c.done \in BOOLEAN
  BY DEF Climbing, Climbs
<1>2. d = IF c.done THEN c
          ELSE IF Len(s.node[p].keys) < M
          THEN [c EXCEPT !.store = TakeChild(s, p, child), !.done = TRUE]
          ELSE IF NoPagesToSplit(s, p) THEN [c EXCEPT !.store = Refused(s), !.done = TRUE]
          ELSE AfterSplit(c, SplitAndInsert(s, p, child))
  BY <1>1 DEF InsertOnce, Climbs
<1> SUFFICES Climbing(s0, d)
  OBVIOUS
<1> HIDE DEF d
<1>3. ASSUME NEW t \in Stores, d = [c EXCEPT !.store = t, !.done = TRUE], Grows(s0, t, c.splits)
      PROVE  Climbing(s0, d)
  <2>1. d \in Climbs /\ d.store = t /\ d.done /\ d.splits = c.splits
    BY <1>1, <1>3 DEF Climbs
  <2> QED BY <1>1, <1>3, <2>1 DEF Climbing
<1>4. CASE c.done
  BY <1>2, <1>4
<1>5. CASE ~c.done
  <2>1. Rising(s0, s, p, child, news) /\ Awaits(s0, s, c.splits)
    BY <1>5 DEF Climbing
  <2> HIDE DEF s, p, child, news
  <2>2. Len(s.node[p].keys) \in Nat /\ Len(s.node[p].keys) <= M /\ s.node[p].root \in BOOLEAN
    <3>1. p \in Pages /\ ~s.node[p].leaf /\ s \in Stores /\ Fits(s.node[p])
      BY <1>1, <2>1 DEF Rising, IsTree, Shaped
    <3> QED BY <3>1, NodeFields DEF Fits
  <2>3. CASE Len(s.node[p].keys) < M
    <3> DEFINE t == TakeChild(s, p, child)
    <3>1. d = [c EXCEPT !.store = t, !.done = TRUE]
      BY <1>2, <1>5, <2>3
    <3>2. Settles(s0, t) /\ \A X : KeepsParents(s, X, t, X)
      BY <2>1, <2>3, RiseTaken
    <3> HIDE DEF t
    <3>3. t \in Stores
      BY <3>2 DEF Settles, IsTree
    <3>4. Grows(s0, t, c.splits)
      BY <1>1, <2>1, <3>2, <3>3, StillAwaits DEF Grows
    <3> QED BY <1>3, <3>1, <3>3, <3>4
  <2>4. CASE ~(Len(s.node[p].keys) < M) /\ NoPagesToSplit(s, p)
    <3> DEFINE t == Refused(s)
    <3>1. d = [c EXCEPT !.store = t, !.done = TRUE]
      BY <1>2, <1>5, <2>4
    <3>2. t \in Stores /\ t.num_pages > TABLE_MAX_PAGES
      BY <1>1, IsRefused
    <3> HIDE DEF t
    <3>3. Grows(s0, t, c.splits)
      BY <3>2 DEF Grows
    <3> QED BY <1>3, <3>1, <3>2, <3>3
  <2>5. CASE ~(Len(s.node[p].keys) < M) /\ ~NoPagesToSplit(s, p)
    <3> DEFINE t == SplitAndInsert(s, p, child)
               new == UnusedPage(s)
               q1 == t.node[p].parent
    <3>1. d = AfterSplit(c, t)
      BY <1>2, <1>5, <2>5
    <3>2. Len(s.node[p].keys) = M /\ t = SplitAndInsert(s, p, child) /\ new = UnusedPage(s)
      BY <2>2, <2>5, Constants
    <3>3. CASE s.node[p].root
      <4>1. d = [c EXCEPT !.store = t, !.done = TRUE]
        BY <3>1, <3>3 DEF AfterSplit, s, p
      <4> HIDE DEF t
      <4>2. Settles(s0, t) /\ \A X : KeepsParents(s, X, t, X)
        BY <2>1, <2>5, <3>2, <3>3, RiseEnds
      <4>3. t \in Stores
        BY <4>2 DEF Settles, IsTree
      <4>4. Grows(s0, t, c.splits)
        BY <1>1, <2>1, <4>2, <4>3, StillAwaits DEF Grows
      <4> QED BY <1>3, <4>1, <4>3, <4>4
    <3>4. CASE ~s.node[p].root
      <4>1. d = [store |-> t, page |-> q1, child |-> new,
                 splits |-> c.splits \cup {[new |-> new, old |-> p]}, done |-> FALSE]
        BY <3>1, <3>4 DEF AfterSplit, s, p
      <4> HIDE DEF t, new
      <4>2. /\ Rising(s0, t, q1, new, news \cup {new})
            /\ KeepsParents(s, news, t, news \cup {new})
            /\ p > Root /\ p < s.num_pages /\ p \notin news \cup {new}
            /\ s.free_page_head = 0 => new = s.num_pages
        BY <2>1, <2>5, <3>2, <3>4, RiseGoesOn
      <4> HIDE DEF q1
      <4>3. t \in Stores /\ q1 \in Pages /\ new \in Pages
        BY <4>2 DEF Rising, IsTree
      <4> DEFINE splits == c.splits \cup {[new |-> new, old |-> p]}
      <4>4. splits \in SUBSET [new : Pages, old : Pages]
        BY <1>1, <4>3
      <4>5. News(splits) = news \cup {new}
        <5>1. [new |-> new, old |-> p].new = new
          OBVIOUS
        <5> QED BY <5>1 DEF News, news
      <4>7. Awaits(s0, t, splits)
        <5> SUFFICES ASSUME AllGrown(s0, {})
                     PROVE  AllGrown(t, News(splits)) /\ GrownOutOf(s0, t) /\ OldOnes(t, splits)
          BY DEF Awaits
        <5>1. AllGrown(s, news) /\ GrownOutOf(s0, s) /\ OldOnes(s, c.splits)
          BY <2>1 DEF Awaits, news
        <5>2. AllGrown(t, news \cup {new}) /\ GrownOutOf(s, t)
          BY <4>2, <5>1 DEF KeepsParents
        <5>3. GrownOutOf(s0, t)
          BY <1>1, <4>3, <5>1, <5>2, GrowsTogether
        <5>4. /\ s.num_pages <= t.num_pages /\ s.num_pages \in Int /\ t.num_pages \in Int
              /\ new = s.num_pages /\ p \in Int
          BY <1>1, <4>2, <4>3, <5>1, <5>2 DEF GrownOutOf, AllGrown, Stores, Pages
        <5>5. ASSUME NEW e \in splits
              PROVE  e.old > Root /\ e.old < t.num_pages /\ e.old \notin News(splits)
          <6>1. CASE e = [new |-> new, old |-> p]
            <7>1. e.old = p
              BY <6>1
            <7>2. p > Root /\ p < t.num_pages
              BY <4>2, <5>4
            <7>3. p \notin News(splits)
              BY <4>2, <4>5
            <7> QED BY <7>1, <7>2, <7>3
          <6>2. CASE e \in c.splits
            <7>1. e.old > Root /\ e.old < s.num_pages /\ e.old \notin news /\ e.old \in Int
              BY <1>1, <5>1, <6>2, Constants DEF OldOnes, Pages, news
            <7>2. e.old > Root /\ e.old < t.num_pages /\ e.old # new
              BY <5>4, <7>1
            <7> QED BY <4>5, <7>1, <7>2
          <6> QED BY <6>1, <6>2
        <5>6. OldOnes(t, splits)
          BY <5>5 DEF OldOnes
        <5> QED BY <4>5, <5>2, <5>3, <5>6
      <4> HIDE DEF splits
      <4>6. /\ d.store = t /\ d.page = q1 /\ d.child = new /\ d.splits = splits /\ ~d.done
            /\ d \in Climbs
        BY <4>1, <4>3, <4>4 DEF Climbs, splits
      <4> QED BY <1>1, <4>2, <4>5, <4>6, <4>7 DEF Climbing
    <3> QED BY <2>2, <3>3, <3>4
  <2> QED BY <2>3, <2>4, <2>5
<1> QED BY <1>1, <1>4, <1>5

\* The parents that the new nodes get make no difference to the tree, and are those of
\* other nodes.
LEMMA ParentsGiven ==
  ASSUME NEW s0 \in Stores, NEW s, NEW splits \in SUBSET [new : Pages, old : Pages],
         Grows(s0, s, splits), NEW t, t = ParentsAs(s, splits)
  PROVE  Grows(s0, t, {})
<1> DEFINE Old(q) == (CHOOSE d \in splits : d.new = q).old
           Is(q) == \E d \in splits : d.new = q
<1>1. s \in Stores
  BY DEF Grows
<1>2. t = [s EXCEPT !.node = [q \in Pages |->
            IF Is(q) THEN [s.node[q] EXCEPT !.parent = s.node[Old(q)].parent] ELSE s.node[q]]]
  BY DEF ParentsAs
<1>3. \A q \in Pages : Is(q) => Old(q) \in Pages
  <2> SUFFICES ASSUME NEW q \in Pages, Is(q)
               PROVE  Old(q) \in Pages
    OBVIOUS
  <2>1. PICK d \in splits : d.new = q
    OBVIOUS
  <2>2. (CHOOSE e \in splits : e.new = q) \in splits
    BY <2>1
  <2> QED BY <2>2
<1>20. \A q \in Pages : Is(q) <=> q \in News(splits)
  BY DEF News
<1>21. \A q \in Pages : Is(q) => \E d \in splits : Old(q) = d.old
  <2> SUFFICES ASSUME NEW q \in Pages, Is(q)
               PROVE  \E d \in splits : Old(q) = d.old
    OBVIOUS
  <2>1. (CHOOSE e \in splits : e.new = q) \in splits
    OBVIOUS
  <2> QED BY <2>1
<1> HIDE DEF Old, Is
<1>4. \A q \in Pages : s.node[q] \in Node
  BY <1>1, NodeFields
<1>5. \A n \in Node : \A q \in Pages :
        [n EXCEPT !.parent = q] \in Node /\ Alike([n EXCEPT !.parent = q], n)
  BY DEF Node, Alike
<1>6. \A q \in Pages : Is(q) => s.node[Old(q)].parent \in Pages
  BY <1>1, <1>3, NodeFields
<1>7. /\ t.node = [q \in Pages |-> IF Is(q) THEN [s.node[q] EXCEPT !.parent = s.node[Old(q)].parent]
                                   ELSE s.node[q]]
      /\ SameList(s, t) /\ t.dirty = s.dirty
  BY <1>1, <1>2 DEF Stores, SameList
<1>8. t.node \in [Pages -> Node]
  BY <1>4, <1>5, <1>6, <1>7
<1>9. t \in Stores
  BY <1>1, <1>2, <1>7, <1>8 DEF Stores
<1>10. \A q \in Pages : Alike(t.node[q], s.node[q])
  <2> SUFFICES ASSUME NEW q \in Pages
               PROVE  Alike(t.node[q], s.node[q])
    OBVIOUS
  <2>1. CASE Is(q)
    <3>1. t.node[q] = [s.node[q] EXCEPT !.parent = s.node[Old(q)].parent]
      BY <1>7, <2>1
    <3> QED BY <1>4, <1>5, <1>6, <2>1, <3>1
  <2>2. CASE ~Is(q)
    BY <1>7, <2>2 DEF Alike
  <2> QED BY <2>1, <2>2
<1>11. \A q \in Pages : Like(t.node[q], s.node[q])
  BY <1>10, AlikeIsLike
<1>12. ASSUME Settles(s0, s)
       PROVE  Settles(s0, t)
  <2>1. IsTree(s, {}) /\ StoredRows(s) = StoredRows(s0) /\ Marks(s0, s, {})
    BY <1>12 DEF Settles
  <2>2. IsTree(t, {}) /\ StoredRows(t) = StoredRows(s)
    BY <1>7, <1>9, <1>11, <2>1, StillTree
  <2>3. Marks(s, t, {})
    BY <1>7, <1>10 DEF Marks, SameList
  <2>4. Marks(s0, t, {} \cup {})
    BY <2>1, <2>3, MarksTogether
  <2> QED BY <2>1, <2>2, <2>4 DEF Settles
<1>13. t.num_pages = s.num_pages
  BY <1>7 DEF SameList
<1>14. ASSUME Awaits(s0, s, splits), AllGrown(s0, {})
       PROVE  AllGrown(t, News({})) /\ GrownOutOf(s0, t) /\ OldOnes(t, {})
  <2>1. AllGrown(s, News(splits)) /\ GrownOutOf(s0, s) /\ OldOnes(s, splits)
    BY <1>14 DEF Awaits
  <2>2. \A q \in Pages : t.node[q].leaf = s.node[q].leaf
    BY <1>10 DEF Alike
  <2>3. GrownOutOf(s0, t)
    BY <1>7, <1>13, <2>1, <2>2 DEF GrownOutOf
  <2>4. ASSUME NEW q \in Pages, q > Root, q < t.num_pages
        PROVE  ~t.node[t.node[q].parent].leaf
    <3>1. CASE Is(q)
      <4>1. PICK d \in splits : Old(q) = d.old
        BY <1>21, <3>1
      <4>2. Old(q) \in Pages /\ Old(q) > Root /\ Old(q) < s.num_pages /\ Old(q) \notin News(splits)
        BY <1>3, <2>1, <3>1, <4>1 DEF OldOnes
      <4>3. ~s.node[s.node[Old(q)].parent].leaf
        BY <2>1, <4>2 DEF AllGrown
      <4>4. t.node[q].parent = s.node[Old(q)].parent
        BY <1>4, <1>7, <3>1 DEF Node
      <4> QED BY <1>6, <2>2, <3>1, <4>3, <4>4
    <3>2. CASE ~Is(q)
      <4>1. ~s.node[s.node[q].parent].leaf /\ s.node[q].parent \in Pages
        BY <1>1, <1>13, <1>20, <2>1, <2>4, <3>2, NodeFields DEF AllGrown
      <4> QED BY <1>7, <2>2, <3>2, <4>1
    <3> QED BY <3>1, <3>2
  <2>5. t.free_page_head = 0
    BY <1>7, <2>1 DEF AllGrown, SameList
  <2>6. News({}) = {} /\ OldOnes(t, {})
    BY DEF News, OldOnes
  <2> QED BY <2>3, <2>4, <2>5, <2>6 DEF AllGrown
<1> QED BY <1>9, <1>12, <1>13, <1>14 DEF Grows, Awaits


\* internal_node_insert.
LEMMA ChildInserted ==
  ASSUME NEW s0 \in Stores, NEW s, NEW p, NEW child, Rising(s0, s, p, child, {}),
         KeepsParents(s0, {}, s, {}), NEW t, t = internal_node_insert(s, p, child)
  PROVE  Grows(s0, t, {})
<1> DEFINE n == TABLE_MAX_PAGES
           start == [store |-> s, page |-> p, child |-> child, splits |-> {}, done |-> FALSE]
           climb[i \in 0 .. n] ==
             IF i = 0
             THEN [store |-> s, page |-> p, child |-> child, splits |-> {}, done |-> FALSE]
             ELSE InsertOnce(climb[i - 1])
           A == {c \in Climbs : Climbing(s0, c)}
           step == [i \in 1 .. n |-> [c \in A |-> InsertOnce(c)]]
<1>0. n \in Nat
  BY Constants
<1>1. start \in A
  <2>1. s \in Stores /\ p \in Pages /\ child \in Pages
    BY DEF Rising, IsTree
  <2>2. start \in Climbs
    BY <2>1 DEF Climbs
  <2>3. /\ start.store = s /\ start.page = p /\ start.child = child /\ start.splits = {}
        /\ ~start.done
    OBVIOUS
  <2>4. News({}) = {} /\ OldOnes(s, {})
    BY DEF News, OldOnes
  <2>5. Awaits(s0, s, {})
    BY <2>4 DEF Awaits, KeepsParents
  <2> HIDE DEF start
  <2> QED BY <2>2, <2>3, <2>4, <2>5 DEF Climbing
<1>2. \A c \in A : InsertOnce(c) \in A
  <2> TAKE c \in A
  <2>1. Climbing(s0, InsertOnce(c))
    BY Climbed
  <2> QED BY <2>1 DEF Climbing
<1> HIDE DEF A
<1>3. AreSteps(step, n, A)
  BY <1>2 DEF AreSteps
<1>4. PICK f : Iterates(f, start, step, n, A)
  <2> HIDE DEF step, n, start
  <2> QED BY <1>0, <1>1, <1>3, Iteration
<1>5. \A i \in 1 .. n : i - 1 \in 0 .. n /\ f[i - 1] \in A /\ f[i] = InsertOnce(f[i - 1])
  <2> SUFFICES ASSUME NEW i \in 1 .. n
               PROVE  i - 1 \in 0 .. n /\ f[i - 1] \in A /\ f[i] = InsertOnce(f[i - 1])
    OBVIOUS
  <2> HIDE DEF start
  <2>1. i - 1 \in 0 .. n /\ f[i] = step[i][f[i - 1]]
    BY <1>0, <1>4 DEF Iterates
  <2>2. f[i - 1] \in A
    BY <2>1, <1>4 DEF Iterates
  <2> QED BY <2>1, <2>2
<1>6. f = [i \in 0 .. n |-> IF i = 0 THEN start ELSE InsertOnce(f[i - 1])]
  <2> HIDE DEF start
  <2> QED BY <1>0, <1>4, <1>5 DEF Iterates
<1>7. climb = [i \in 0 .. n |->
                 IF i = 0
                 THEN [store |-> s, page |-> p, child |-> child, splits |-> {}, done |-> FALSE]
                 ELSE InsertOnce(climb[i - 1])]
  BY <1>6, Zenon
<1>8. t = TreeAfter(climb[n])
  BY Zenon DEF internal_node_insert, climb
<1> HIDE DEF climb, step
<1>9. \A i \in 0 .. n : climb[i] \in A
  <2> DEFINE T == {i \in 0 .. n : climb[i] \in A}
  <2>1. 0 \in T
    <3>1. climb[0] = start
      BY <1>0, <1>7
    <3> HIDE DEF start
    <3> QED BY <1>0, <1>1, <3>1
  <2>2. ASSUME NEW k \in 0 .. n - 1, k \in T
        PROVE  k + 1 \in T
    <3>1. k + 1 \in 0 .. n /\ k + 1 # 0 /\ (k + 1) - 1 = k
      BY <1>0
    <3>2. climb[k + 1] = InsertOnce(climb[k])
      BY <1>7, <3>1
    <3> QED BY <1>2, <2>2, <3>1, <3>2
  <2> HIDE DEF T
  <2>3. \A k \in 0 .. n : k \in T
    BY <1>0, <2>1, <2>2, UpTo
  <2> QED BY <2>3 DEF T
<1> DEFINE c == climb[n]
<1>10. c \in Climbs /\ Climbing(s0, c)
  BY <1>0, <1>9 DEF A
<1>11. t = IF c.done THEN ParentsAs(c.store, c.splits) ELSE Refused(c.store)
  BY <1>8 DEF TreeAfter
<1> HIDE DEF c
<1>12. c.store \in Stores /\ c.splits \in SUBSET [new : Pages, old : Pages] /\ c.done \in BOOLEAN
  BY <1>10 DEF Climbs
<1>13. CASE c.done
  <2>1. Grows(s0, c.store, c.splits)
    BY <1>10, <1>13 DEF Climbing
  <2> QED BY <1>11, <1>12, <1>13, <2>1, ParentsGiven
<1>14. CASE ~c.done
  <2>1. t \in Stores /\ t.num_pages > TABLE_MAX_PAGES
    BY <1>11, <1>12, <1>14, IsRefused
  <2> QED BY <2>1 DEF Grows
<1> QED BY <1>12, <1>13, <1>14

-----------------------------------------------------------------------------
(* Inserting a row. *)

\* What inserts need of parent pointers.
HasParents(s) == \A p \in Pages : \A c \in ToSet(s.node[p].kids) : ~s.node[s.node[c].parent].leaf

\* t is a tree without loose pages that has the rows of s and the key, and what it
\* has of them elsewhere is marked; or a page is refused.
Gains(s, t, key) ==
  /\ t \in Stores
  /\ \/ t.num_pages > TABLE_MAX_PAGES
     \/ /\ IsTree(t, {}) /\ StoredRows(t) = StoredRows(s) \cup {key} /\ Marks(s, t, {})
        /\ KeepsParents(s, {}, t, {})

\* A leaf p has given a part of its cells to a new leaf beside it.
PartsLeaf(s, t, p, new) ==
  /\ IsTree(t, {new}) /\ Marks(s, t, {}) /\ p \in t.dirty
  /\ new \in Pages /\ new # p /\ new # Root /\ s.node[new].leaf /\ ~IsKid(s, new)
  /\ t.node[p].leaf /\ t.node[new].leaf /\ t.node[p].parent = s.node[p].parent
  /\ t.node[new].parent = s.node[p].parent /\ new \in t.dirty
  /\ \A q \in Pages \ {p, new} : t.node[q] = s.node[q]

\* The two leaves of leaf_node_split_and_insert, the old one with m cells.
TwoLeaves(s, p, new, cells, m) ==
  [TakePage(Mark(s, p)) EXCEPT
     !.node[new] = NewLeaf(s.node[p].parent, s.node[p].next, SubSeq(cells, m + 1, MAX_CELLS + 1)),
     !.node[p] = [s.node[p] EXCEPT !.next = new, !.keys = SubSeq(cells, 1, m)]]

\* The old leaf and the new one have all cells.
LEMMA LeafParted ==
  ASSUME NEW s, IsTree(s, {}), NEW p \in Pages, s.node[p].leaf, p = Root \/ IsKid(s, p), ~NoPage(s),
         NEW key \in Nat, NEW cells \in Seq(Nat), Len(cells) = MAX_CELLS + 1,
         ToSet(cells) = ToSet(s.node[p].keys) \cup {key},
         NEW new, new = UnusedPage(s), NEW m \in 0 .. MAX_CELLS + 1, m <= MAX_CELLS, m >= 1,
         NEW t, t = TwoLeaves(s, p, new, cells, m)
  PROVE  /\ PartsLeaf(s, t, p, new) /\ SameList(TakePage(Mark(s, p)), t)
         /\ StoredRows(t) = StoredRows(s) \cup {key}
<1> DEFINE marked == Mark(s, p)
           u == TakePage(marked)
           old == s.node[p]
           lower == SubSeq(cells, 1, m)
           upper == SubSeq(cells, m + 1, MAX_CELLS + 1)
           a == [old EXCEPT !.next = new, !.keys = lower]
           b == NewLeaf(old.parent, old.next, upper)
           w == With(u, new, b)
<1>1. s \in Stores
  BY DEF IsTree
<1>2. /\ old \in Node /\ old.leaf /\ old.kids = <<>> /\ old.parent \in Pages /\ old.next \in Pages
      /\ old.root \in BOOLEAN /\ (old.root <=> p = Root)
  BY <1>1, NodeFields DEF IsTree, Shaped, Fits
<1>3. /\ IsTree(marked, {}) /\ StoredRows(marked) = StoredRows(s) /\ SameList(s, marked)
      /\ marked.node = s.node /\ marked.dirty = s.dirty \cup {p} /\ Marks(s, marked, {})
  BY MarkedTree
<1>4. t = [u EXCEPT !.node[new] = b, !.node[p] = a]
  BY DEF TwoLeaves
<1> HIDE DEF marked
<1>5. new = UnusedPage(marked) /\ ~NoPage(marked)
  BY <1>1, <1>3, NextPage DEF IsTree
<1>6. TakesPage(marked, u, new) /\ new \notin {} /\ IsTree(u, {} \cup {new})
  BY <1>3, <1>5, PageTaken
<1> HIDE DEF u, old
<1>7. u \in Stores /\ new \in Pages /\ new # Root /\ new # p /\ ~IsKid(s, new) /\ IsBlank(s.node[new])
      /\ ~u.node[new].root /\ IsBlank(u.node[new])
      /\ u.node[p] = s.node[p] /\ \A q \in Pages \ {new} : u.node[q] = s.node[q]
  <2>1. /\ new \in Pages /\ new # Root /\ ~IsKid(marked, new) /\ IsBlank(marked.node[new])
        /\ ~u.node[new].root /\ IsBlank(u.node[new])
        /\ \A q \in Pages \ {new} : u.node[q] = marked.node[q]
    BY <1>6 DEF TakesPage
  <2>2. ~IsKid(s, new)
    BY <1>3, <2>1 DEF IsKid
  <2>3. new # p
    BY <2>1, <2>2
  <2>4. u \in Stores
    BY <1>6 DEF IsTree
  <2> QED BY <1>3, <2>1, <2>2, <2>3, <2>4
<1>8. /\ lower \in Seq(Nat) /\ Len(lower) = m
      /\ upper \in Seq(Nat) /\ Len(upper) = (MAX_CELLS + 1) - m
      /\ ToSet(cells) = ToSet(lower) \cup ToSet(upper)
  <2> DEFINE N == Nat
  <2>1. cells \in Seq(N) /\ m \in 0 .. Len(cells) /\ Len(cells) = MAX_CELLS + 1
    OBVIOUS
  <2> HIDE DEF N
  <2>2. /\ SubSeq(cells, 1, m) \in Seq(N) /\ Len(SubSeq(cells, 1, m)) = m
        /\ SubSeq(cells, m + 1, Len(cells)) \in Seq(N)
        /\ Len(SubSeq(cells, m + 1, Len(cells))) = Len(cells) - m
        /\ ToSet(cells) = ToSet(SubSeq(cells, 1, m)) \cup ToSet(SubSeq(cells, m + 1, Len(cells)))
    BY <2>1, Parted
  <2> QED BY <2>2 DEF N
<1> HIDE DEF lower, upper
<1>9. /\ a \in Node /\ a.leaf /\ a.kids = <<>> /\ a.keys = lower /\ a.root = old.root
      /\ a.parent = old.parent
  BY <1>2, <1>7, <1>8 DEF Node
<1>10. b \in Node /\ b.leaf /\ b.kids = <<>> /\ b.keys = upper /\ ~b.root /\ b.parent = old.parent
  <2>1. 0 \in Nat /\ <<>> \in Seq(Pages)
    OBVIOUS
  <2> QED BY <1>2, <1>8, <2>1 DEF NewLeaf, EmptyLeaf, Node
<1> HIDE DEF a, b
<1>11. /\ w \in Stores /\ SameList(u, w) /\ w.dirty = u.dirty
       /\ w.node[new] = b /\ \A q \in Pages \ {new} : w.node[q] = u.node[q]
  BY <1>7, <1>10, Written
<1>12. t = With(w, p, a)
  BY <1>4, <1>7 DEF With, Stores
<1> HIDE DEF w
<1>13. /\ t \in Stores /\ SameList(w, t) /\ t.dirty = w.dirty
       /\ t.node[p] = a /\ \A q \in Pages \ {p} : t.node[q] = w.node[q]
  BY <1>9, <1>11, <1>12, Written
<1>14. /\ SameList(u, t) /\ t.dirty = u.dirty /\ t.node[p] = a /\ t.node[new] = b
       /\ \A q \in Pages \ {p, new} : t.node[q] = u.node[q] /\ t.node[q] = s.node[q]
  BY <1>7, <1>11, <1>13 DEF SameList
<1>15. \A q \in Pages : t.node[q].kids = u.node[q].kids
  BY <1>2, <1>7, <1>9, <1>10, <1>14 DEF IsBlank, old
<1>16. IsTree(t, {new})
  <2> DEFINE L == {} \cup {new}
  <2>1. IsTree(u, L)
    BY <1>6
  <2>2. \A q \in Pages : IsKid(t, q) <=> IsKid(u, q)
    BY <1>15 DEF IsKid
  <2>3. KidsOnce(t)
    BY <1>15, <2>1 DEF IsTree, KidsOnce
  <2>4. Shaped(t)
    <3> SUFFICES ASSUME NEW q \in Pages
                 PROVE  Fits(t.node[q]) /\ (t.node[q].root <=> q = Root)
      BY DEF Shaped
    <3>1. CASE q = p
      BY <1>2, <1>8, <1>9, <1>14, <3>1 DEF Fits
    <3>2. CASE q = new
      <4>1. Len(upper) <= MAX_CELLS
        <5>1. Len(upper) = (MAX_CELLS + 1) - m /\ m \in Nat /\ m >= 1
          BY <1>8
        <5>2. MAX_CELLS \in Nat
          BY Constants
        <5> QED BY <5>1, <5>2
      <4> QED BY <1>7, <1>10, <1>14, <3>2, <4>1 DEF Fits
    <3>3. CASE q \notin {p, new}
      BY <1>14, <2>1, <3>3 DEF IsTree, Shaped
    <3> QED BY <3>1, <3>2, <3>3
  <2>5. IsKid(u, p) \/ p = Root
    BY <1>3, <1>6 DEF TakesPage, IsKid
  <2>6. \A q \in Pages : q = Root \/ IsKid(u, q) \/ q \in L \/ Like(t.node[q], u.node[q])
    BY <1>14, <2>5 DEF Like
  <2>7. \A q \in Pages : ~(IsKid(t, q) /\ q \in L)
    BY <2>1, <2>2, Owners
  <2>8. L = {new}
    OBVIOUS
  <2> HIDE DEF L
  <2>9. IsTree(t, L)
    BY <1>13, <1>14, <2>1, <2>2, <2>3, <2>4, <2>6, <2>7, Rearranged
  <2> QED BY <2>8, <2>9
<1>17. StoredRows(t) = StoredRows(s) \cup {key}
  <2>1. LeafKeys(t, p) = ToSet(lower) /\ LeafKeys(t, new) = ToSet(upper)
    BY <1>9, <1>10, <1>14 DEF LeafKeys
  <2>2. LeafKeys(s, p) = ToSet(s.node[p].keys) /\ LeafKeys(s, new) = {}
    BY <1>7, BlankNode DEF LeafKeys
  <2>3. \A q \in Pages \ {p, new} : LeafKeys(t, q) = LeafKeys(s, q)
    BY <1>14 DEF LeafKeys
  <2>4. LeafKeys(t, p) \cup LeafKeys(t, new) = LeafKeys(s, p) \cup LeafKeys(s, new) \cup {key}
    BY <1>8, <2>1, <2>2
  <2> QED BY <1>7, <2>3, <2>4 DEF StoredRows
<1>18. Marks(s, t, {}) /\ p \in t.dirty /\ new \in t.dirty
  <2>1. Marks(marked, u, {}) /\ new \in u.dirty
    BY <1>6 DEF TakesPage
  <2>2. Marks(s, u, {} \cup {})
    BY <1>3, <2>1, MarksTogether
  <2>3. p \in t.dirty /\ new \in t.dirty
    BY <1>3, <1>14, <2>1 DEF Marks
  <2>4. \A q \in Pages \ t.dirty : Alike(t.node[q], s.node[q])
    BY <1>14, <2>3 DEF Alike
  <2> QED BY <1>14, <2>2, <2>3, <2>4 DEF Marks, SameList
<1>19. PartsLeaf(s, t, p, new)
  BY <1>7, <1>9, <1>10, <1>14, <1>16, <1>18 DEF PartsLeaf, IsBlank, old
<1> QED BY <1>14, <1>17, <1>19 DEF u, marked


\* The root was a leaf: it gets the two leaves as its children.
LEMMA RootLeafSplit ==
  ASSUME NEW s, NEW new \in Pages, IsTree(s, {new}), s.node[Root].leaf, s.node[new].leaf,
         Root \in s.dirty, ~NoPage(s), NEW t, t = create_new_root(s, new)
  PROVE  Settles(s, t) /\ KeepsParents(s, {new}, t, {})
<1> DEFINE left == UnusedPage(s)
           v == TakePage(s)
<1>1. TakesPage(s, v, left) /\ left \notin {new} /\ IsTree(v, {new} \cup {left})
  BY PageTaken
<1>2. MakesRoot(s, t, left, new) /\ SameList(v, t) /\ t.dirty = v.dirty
  <2>1. new \in {new}
    OBVIOUS
  <2> QED BY <2>1, RootMade
<1> HIDE DEF left, v
<1>3. /\ s \in Stores /\ Root \in Pages /\ left \in Pages /\ left # Root /\ left # new /\ new # Root
      /\ IsBlank(s.node[left]) /\ IsBlank(v.node[left]) /\ ~v.node[left].root
      /\ v.node[Root] = s.node[Root] /\ v.node[new] = s.node[new]
      /\ \A q \in Pages \ {left} : v.node[q] = s.node[q]
      /\ StoredRows(v) = StoredRows(s) /\ Marks(s, v, {}) /\ left \in v.dirty
  BY <1>1, Owners, Constants DEF TakesPage, IsTree
<1>4. s.node[Root].kids = <<>> /\ Len(s.node[Root].keys) <= MAX_CELLS
  BY <1>3 DEF IsTree, Shaped, Fits
<1>5. /\ t \in Stores /\ ~t.node[Root].leaf /\ t.node[Root].root /\ Len(t.node[Root].keys) = 1
      /\ t.node[Root].kids = <<left, new>>
      /\ t.node[left].leaf /\ t.node[left].keys = s.node[Root].keys
      /\ t.node[left].kids = <<>> /\ ~t.node[left].root
  BY <1>2, <1>4 DEF MakesRoot
<1>6. \A q \in Pages \ {Root, left} : Alike(t.node[q], v.node[q]) /\ Alike(t.node[q], s.node[q])
  <2>1. Alike(t.node[new], s.node[new])
    BY <1>2 DEF MakesRoot
  <2>2. \A q \in Pages \ {Root, left, new} : Alike(t.node[q], s.node[q])
    BY <1>2 DEF MakesRoot
  <2> QED BY <1>3, <2>1, <2>2
<1>7. /\ ToSet(t.node[Root].kids) = {left, new} /\ IsInjective(t.node[Root].kids)
      /\ Len(t.node[Root].kids) = 2
  <2>1. /\ ToSet(<<left, new>>) = {left, new} /\ Len(<<left, new>>) = 2
        /\ IsInjective(<<left, new>>)
    BY <1>3 DEF ToSet, IsInjective
  <2> QED BY <1>5, <2>1
<1>8. ToSet(t.node[left].kids) = {} /\ IsInjective(t.node[left].kids)
  BY <1>5 DEF ToSet, IsInjective
<1>9. IsTree(t, {})
  <2> DEFINE C == {Root, left}
             L == {new} \cup {left}
             F == L
             G == {}
  <2>1. \A q \in C : /\ q = Root \/ IsKid(v, q) \/ q \in L
                     /\ Fits(t.node[q]) /\ (t.node[q].root <=> q = Root)
                     /\ IsInjective(t.node[q].kids)
    <3>1. Fits(t.node[Root]) /\ Fits(t.node[left])
      BY <1>4, <1>5, <1>7, Constants DEF Fits
    <3> QED BY <1>3, <1>5, <1>7, <1>8, <3>1
  <2>2. \A q, x \in C : q # x => ToSet(t.node[q].kids) \cap ToSet(t.node[x].kids) = {}
    BY <1>8
  <2>3. \A x \in Pages : Under(t, C, x) <=> (Under(v, C, x) /\ x \notin G) \/ x \in F
    <3>1. \A x \in Pages : Under(t, C, x) <=> x \in {left, new}
      BY <1>7, <1>8 DEF Under
    <3>2. ToSet(v.node[left].kids) = {} /\ ToSet(v.node[Root].kids) = {}
      BY <1>3, <1>4 DEF IsBlank, ToSet
    <3>3. \A x \in Pages : ~Under(v, C, x)
      BY <3>2 DEF Under
    <3> QED BY <3>1, <3>3
  <2>4. C \subseteq Pages /\ F \subseteq L /\ IsTree(v, L)
    BY <1>1, <1>3
  <2>5. \A q \in Pages \ C : Like(t.node[q], v.node[q])
    BY <1>6, AlikeIsLike
  <2>6. t \in Stores /\ SameList(v, t)
    BY <1>2, <1>5
  <2>7. {} = (L \ F) \cup G /\ \A x \in G : Under(v, C, x)
    OBVIOUS
  <2> HIDE DEF C, L, F, G
  <2>8. Reshapes(v, t, L, {}, C, F, G)
    BY <2>1, <2>2, <2>3, <2>4, <2>5, <2>6, <2>7 DEF Reshapes
  <2> QED BY <2>4, <2>8, Reshaped
<1>10. StoredRows(t) = StoredRows(s)
  <2>1. /\ LeafKeys(t, Root) = {} /\ LeafKeys(t, left) = ToSet(s.node[Root].keys)
        /\ LeafKeys(s, Root) = ToSet(s.node[Root].keys)
    BY <1>5 DEF LeafKeys
  <2>2. LeafKeys(s, left) = {}
    BY <1>3, BlankNode
  <2>3. \A q \in Pages \ {Root, left} : LeafKeys(t, q) = LeafKeys(s, q)
    BY <1>6 DEF Alike, LeafKeys
  <2>4. LeafKeys(t, Root) = LeafKeys(s, left) /\ LeafKeys(t, left) = LeafKeys(s, Root)
    BY <2>1, <2>2
  <2> QED BY <1>3, <2>3, <2>4 DEF StoredRows
<1>11. Marks(s, t, {})
  <2>1. \A q \in Pages \ t.dirty : Alike(t.node[q], s.node[q])
    BY <1>2, <1>3, <1>6 DEF Marks
  <2> QED BY <1>2, <1>3, <2>1 DEF Marks, SameList
<1>12. ASSUME AllGrown(s, {new})
       PROVE  AllGrown(t, {}) /\ GrownOutOf(s, t)
  <2>1. /\ left = s.num_pages /\ t.num_pages = s.num_pages + 1 /\ t.free_page_head = 0
        /\ s.num_pages \in Nat /\ left \in t.dirty /\ s.dirty \subseteq t.dirty
    <3>1. left = s.num_pages /\ v.num_pages = s.num_pages + 1 /\ v.free_page_head = 0
      BY <1>3, <1>12, PageAdded DEF left, v, AllGrown
    <3> QED BY <1>2, <1>3, <3>1 DEF SameList, Stores, Marks
  <2>2. \A q \in Pages : ~s.node[q].leaf => ~t.node[q].leaf
    BY <1>3, <1>6 DEF Alike, IsBlank
  <2>3. GrownOutOf(s, t)
    <3>1. \A q \in Pages : q >= s.num_pages /\ q < t.num_pages => q = left
      BY <2>1 DEF Pages
    <3> QED BY <2>1, <2>2, <3>1 DEF GrownOutOf
  <2>4. /\ t.node[left].parent = Root /\ t.node[new].parent = Root
        /\ \A q \in Pages \ {Root, left, new} : t.node[q].parent = s.node[q].parent
    <3>1. ToSet(s.node[Root].kids) = {}
      BY <1>4 DEF ToSet
    <3> QED BY <1>2, <3>1 DEF MakesRoot
  <2>5. ASSUME NEW q \in Pages, q > Root, q < t.num_pages
        PROVE  ~t.node[t.node[q].parent].leaf
    <3>1. q # Root
      BY <2>5, Constants
    <3>2. CASE q \in {left, new}
      BY <1>5, <2>4, <3>2
    <3>3. CASE q \notin {left, new}
      <4>1. q < s.num_pages
        BY <2>1, <2>5, <3>3 DEF Pages
      <4>2. ~s.node[s.node[q].parent].leaf /\ s.node[q].parent \in Pages
        BY <1>3, <1>12, <2>5, <3>3, <4>1, NodeFields DEF AllGrown
      <4> QED BY <2>2, <2>4, <3>1, <3>3, <4>2
    <3> QED BY <3>2, <3>3
  <2> QED BY <2>1, <2>3, <2>5 DEF AllGrown
<1> QED BY <1>9, <1>10, <1>11, <1>12 DEF Settles, KeepsParents

\* Every internal node but the root is a child, and has an internal node as its parent.
LEMMA InternalParents ==
  ASSUME NEW s, IsTree(s, {}), HasParents(s), NEW q \in Pages,
         ~s.node[q].leaf, q # Root
  PROVE  ~s.node[s.node[q].parent].leaf
<1>1. IsKid(s, q)
  <2>1. ~IsBlank(s.node[q])
    BY DEF IsBlank
  <2> QED BY <2>1, Owners
<1> QED BY <1>1 DEF IsKid, HasParents

\* leaf_node_split_and_insert.
LEMMA LeafSplit ==
  ASSUME NEW s, IsTree(s, {}), HasParents(s), NEW p \in Pages, s.node[p].leaf,
         p = Root \/ IsKid(s, p), ~NoPagesToSplit(s, p), NEW key \in Nat,
         NEW cells \in Seq(Nat), Len(cells) = MAX_CELLS + 1,
         ToSet(cells) = ToSet(s.node[p].keys) \cup {key},
         NEW t, t = leaf_node_split_and_insert(s, p, cells)
  PROVE  Gains(s, t, key)
<1> DEFINE right_split == (MAX_CELLS + 1) \div 2
           m == (MAX_CELLS + 1) - right_split
           new == UnusedPage(s)
           u == TwoLeaves(s, p, new, cells, m)
           old_max == get_node_max_key(s, p)
           w == UpdateKeyOf(u, p, old_max)
           q == w.node[p].parent
<1>1. t = IF s.node[p].root THEN create_new_root(u, new) ELSE internal_node_insert(w, q, new)
  BY DEF leaf_node_split_and_insert, TwoLeaves, InsertBeside
<1>2. m \in 0 .. MAX_CELLS + 1 /\ m <= MAX_CELLS /\ m >= 1
  BY Constants
<1>3. s \in Stores /\ old_max \in Nat /\ (s.node[p].root <=> p = Root) /\ s.node[p].root \in BOOLEAN
      /\ ~NoPage(s) /\ (p = Root => ~NoPage(TakePage(s)))
  <2>1. s \in Stores /\ (s.node[p].root <=> p = Root)
    BY DEF IsTree, Shaped
  <2> QED BY <2>1, MaxKeyIsNat, NodeFields DEF NoPagesToSplit
<1>4. new = UnusedPage(s) /\ u = TwoLeaves(s, p, new, cells, m) /\ w = UpdateKeyOf(u, p, old_max)
  OBVIOUS
<1> HIDE DEF m, new, u, old_max, w
<1>5. /\ PartsLeaf(s, u, p, new) /\ SameList(TakePage(Mark(s, p)), u)
      /\ StoredRows(u) = StoredRows(s) \cup {key}
  BY <1>2, <1>3, <1>4, LeafParted
<1>6. /\ IsTree(u, {new}) /\ u \in Stores /\ Marks(s, u, {}) /\ p \in u.dirty
      /\ new \in Pages /\ new # p /\ s.node[new].leaf
      /\ u.node[p].leaf /\ u.node[new].leaf /\ u.node[p].parent = s.node[p].parent
      /\ u.node[new].parent = s.node[p].parent /\ new \in u.dirty
      /\ \A x \in Pages \ {p, new} : u.node[x] = s.node[x]
  BY <1>5 DEF PartsLeaf, IsTree
<1>10. ASSUME AllGrown(s, {})
       PROVE  AllGrown(u, {new}) /\ GrownOutOf(s, u)
  <2> DEFINE marked == Mark(s, p)
  <2>1. marked \in Stores /\ SameList(s, marked)
    BY <1>3, MarkedOne
  <2>2. SameList(TakePage(marked), u)
    BY <1>5
  <2> HIDE DEF marked
  <2>3. ~NoPage(marked) /\ new = UnusedPage(marked) /\ marked.free_page_head = 0
    BY <1>3, <1>4, <1>10, <2>1, NextPage DEF AllGrown, SameList
  <2>4. /\ new = s.num_pages /\ u.num_pages = s.num_pages + 1 /\ u.free_page_head = 0
        /\ s.num_pages \in Nat
    BY <1>3, <2>1, <2>2, <2>3, PageAdded DEF SameList, Stores
  <2>5. \A x \in Pages : ~s.node[x].leaf => ~u.node[x].leaf
    BY <1>6
  <2>6. GrownOutOf(s, u)
    <3>1. \A x \in Pages : x >= s.num_pages /\ x < u.num_pages => x = new
      BY <2>4 DEF Pages
    <3> QED BY <1>6, <2>4, <2>5, <3>1 DEF GrownOutOf, Marks
  <2>7. ASSUME NEW x \in Pages, x > Root, x < u.num_pages, x # new
        PROVE  ~u.node[u.node[x].parent].leaf
    <3>1. x < s.num_pages
      BY <2>4, <2>7 DEF Pages
    <3>2. ~s.node[s.node[x].parent].leaf /\ s.node[x].parent \in Pages
      BY <1>3, <1>10, <2>7, <3>1, NodeFields DEF AllGrown
    <3>3. u.node[x].parent = s.node[x].parent
      BY <1>6, <2>7
    <3> QED BY <2>5, <3>2, <3>3
  <2> QED BY <2>4, <2>6, <2>7 DEF AllGrown
<1>7. ASSUME t \in Stores,
             t.num_pages > TABLE_MAX_PAGES \/ (Settles(u, t) /\ KeepsParents(u, {new}, t, {}))
      PROVE  Gains(s, t, key)
  <2>2. ASSUME Settles(u, t)
        PROVE  IsTree(t, {}) /\ StoredRows(t) = StoredRows(s) \cup {key} /\ Marks(s, t, {})
    <3>1. IsTree(t, {}) /\ StoredRows(t) = StoredRows(u) /\ Marks(u, t, {})
      BY <2>2 DEF Settles
    <3>2. Marks(s, t, {} \cup {})
      BY <1>6, <3>1, MarksTogether
    <3> QED BY <1>5, <3>1, <3>2
  <2>3. ASSUME KeepsParents(u, {new}, t, {}), AllGrown(s, {})
        PROVE  AllGrown(t, {}) /\ GrownOutOf(s, t)
    <3>1. AllGrown(u, {new}) /\ GrownOutOf(s, u)
      BY <1>10, <2>3
    <3>2. AllGrown(t, {}) /\ GrownOutOf(u, t)
      BY <2>3, <3>1 DEF KeepsParents
    <3> QED BY <1>3, <1>6, <1>7, <3>1, <3>2, GrowsTogether
  <2> QED BY <1>7, <2>2, <2>3 DEF Gains, KeepsParents
<1>8. CASE p = Root
  <2>1. t = create_new_root(u, new)
    BY <1>1, <1>3, <1>8
  <2>2. ~NoPage(u)
    <3> DEFINE marked == Mark(s, p)
    <3>1. marked \in Stores /\ SameList(s, marked)
      BY <1>3, MarkedOne
    <3> HIDE DEF marked
    <3>2. ~NoPage(TakePage(marked))
      BY <1>3, <1>8, <3>1, NextPage
    <3> QED BY <1>5, <3>2 DEF marked, SameList, NoPage
  <2>3. u.node[Root].leaf /\ Root \in u.dirty
    BY <1>6, <1>8
  <2>4. Settles(u, t) /\ KeepsParents(u, {new}, t, {})
    BY <1>6, <2>1, <2>2, <2>3, RootLeafSplit
  <2>5. t \in Stores
    BY <2>4 DEF Settles, IsTree
  <2> QED BY <1>7, <2>4, <2>5
<1>9. CASE p # Root
  <2>1. t = internal_node_insert(w, q, new)
    BY <1>1, <1>3, <1>9
  <2> DEFINE q0 == s.node[p].parent
  <2>2. q0 \in Pages /\ ~s.node[q0].leaf
    <3>1. IsKid(s, p)
      BY <1>9
    <3>2. ~s.node[q0].leaf
      BY <3>1 DEF IsKid, HasParents
    <3> QED BY <1>3, <3>2, NodeFields
  <2>3. q0 # p /\ q0 # new /\ u.node[q0] = s.node[q0]
    BY <1>6, <2>2
  <2>4. u.node[p].parent = q0 /\ ~u.node[u.node[p].parent].leaf
    BY <1>6, <2>2, <2>3
  <2> HIDE DEF q0
  <2>5. /\ w \in Stores /\ SameList(u, w) /\ w.dirty = u.dirty
        /\ \A x \in Pages : Like(w.node[x], u.node[x]) /\ w.node[x].parent = u.node[x].parent
        /\ \A x \in Pages \ {u.node[p].parent} : w.node[x] = u.node[x]
    BY <1>3, <1>4, <1>6, <2>4, KeyUpdated
  <2>6. q = q0
    BY <2>4, <2>5
  <2>7. IsTree(w, {new}) /\ StoredRows(w) = StoredRows(u)
    BY <1>6, <2>5, StillTree
  <2>8. Marks(u, w, {q0})
    BY <2>4, <2>5 DEF Marks, Alike, SameList
  <2>9. \A x \in Pages : w.node[x].leaf = u.node[x].leaf
    BY <2>5 DEF Like
  <2>10. ParentsAreInternal(w, {})
    <3> SUFFICES ASSUME NEW x \in Pages, ~w.node[x].leaf, x # Root
                 PROVE  ~w.node[w.node[x].parent].leaf
      BY DEF ParentsAreInternal
    <3>1. ~u.node[x].leaf /\ x \notin {p, new} /\ u.node[x] = s.node[x]
      BY <1>6, <2>9
    <3>2. w.node[x].parent = s.node[x].parent /\ ~s.node[x].leaf
      BY <2>5, <3>1
    <3>3. ~s.node[s.node[x].parent].leaf /\ s.node[x].parent \in Pages
      BY <1>3, <1>6, <3>2, InternalParents, NodeFields
    <3>4. s.node[x].parent \notin {p, new}
      BY <1>6, <3>3
    <3>5. ~u.node[s.node[x].parent].leaf
      BY <1>6, <3>3, <3>4
    <3> QED BY <2>9, <3>2, <3>3, <3>5
  <2>11. ~w.node[q0].leaf /\ w.node[new].leaf
    BY <1>6, <2>2, <2>3, <2>9
  <2> HIDE DEF q
  <2>12. Rising(u, w, q0, new, {})
    BY <1>6, <2>2, <2>7, <2>8, <2>10, <2>11 DEF Rising
  <2>13. KeepsParents(u, {}, w, {})
    <3> SUFFICES ASSUME AllGrown(u, {})
                 PROVE  AllGrown(w, {}) /\ GrownOutOf(u, w)
      BY DEF KeepsParents
    <3>1. w.free_page_head = 0 /\ w.num_pages = u.num_pages /\ u.num_pages \in Nat
      BY <1>6, <2>5 DEF AllGrown, SameList, Stores
    <3>2. GrownOutOf(u, w)
      BY <2>5, <2>9, <3>1 DEF GrownOutOf, Pages
    <3>3. \A x \in Pages : u.node[x].parent \in Pages
      BY <1>6, NodeFields
    <3> QED BY <2>5, <2>9, <3>1, <3>2, <3>3 DEF AllGrown
  <2>14. Grows(u, t, {})
    BY <1>6, <2>1, <2>6, <2>12, <2>13, ChildInserted
  <2>15. AllGrown(u, {new}) => AllGrown(u, {})
    BY <1>6, <2>4 DEF AllGrown
  <2>16. News({}) = {}
    BY DEF News
  <2>17. /\ t \in Stores
         /\ t.num_pages > TABLE_MAX_PAGES \/ (Settles(u, t) /\ KeepsParents(u, {new}, t, {}))
    BY <2>14, <2>15, <2>16 DEF Grows, Awaits, KeepsParents
  <2> QED BY <1>7, <2>17
<1> QED BY <1>8, <1>9

\* leaf_node_insert.
LEMMA RowInserted ==
  ASSUME NEW s, IsTree(s, {}), HasParents(s), NEW p \in Pages, s.node[p].leaf,
         p = Root \/ IsKid(s, p), NEW key \in Nat, NEW t, t = leaf_node_insert(s, p, key)
  PROVE  Gains(s, t, key)
<1> DEFINE n == s.node[p]
           cells == InsertAt(n.keys, leaf_node_find(n, key) + 1, key)
<1>1. /\ s \in Stores /\ n \in Node /\ n.keys \in Seq(Nat) /\ Len(n.keys) \in Nat
      /\ Len(n.keys) <= MAX_CELLS /\ n.kids = <<>> /\ (n.root <=> p = Root)
  <2>1. s \in Stores /\ Fits(n) /\ (n.root <=> p = Root)
    BY DEF IsTree, Shaped
  <2> QED BY <2>1, NodeFields DEF Fits
<1>2. t = IF Len(n.keys) < MAX_CELLS THEN Mark(SetCells(s, p, cells), p)
          ELSE IF NoPagesToSplit(s, p) THEN Refused(s)
          ELSE leaf_node_split_and_insert(s, p, cells)
  BY DEF leaf_node_insert
<1>3. /\ cells \in Seq(Nat) /\ Len(cells) = Len(n.keys) + 1
      /\ ToSet(cells) = ToSet(n.keys) \cup {key}
  <2> DEFINE N == Nat
             i == leaf_node_find(n, key) + 1
  <2>1. n.keys \in Seq(N) /\ key \in N /\ i \in 1 .. Len(n.keys) + 1
    <3>1. leaf_node_find(n, key) \in 0 .. Len(n.keys)
      BY <1>1, CellPlaceInRange
    <3> QED BY <1>1, <3>1
  <2> HIDE DEF n, N, i
  <2>2. /\ InsertAt(n.keys, i, key) \in Seq(N) /\ Len(InsertAt(n.keys, i, key)) = Len(n.keys) + 1
        /\ ToSet(InsertAt(n.keys, i, key)) = ToSet(n.keys) \cup {key}
    BY <2>1, Inserted
  <2> QED BY <2>2 DEF N, i
<1> HIDE DEF cells
<1>4. CASE Len(n.keys) < MAX_CELLS
  <2> DEFINE a == [n EXCEPT !.keys = cells, !.stale = 0]
             u == With(s, p, a)
  <2>1. /\ a \in Node /\ a.keys = cells /\ a.kids = n.kids /\ a.leaf = n.leaf /\ a.root = n.root
    BY <1>1, <1>3 DEF Node
  <2>2. t = Mark(u, p)
    BY <1>1, <1>2, <1>4 DEF SetCells, With, Stores, Node
  <2> HIDE DEF a
  <2>3. /\ u \in Stores /\ SameList(s, u) /\ u.dirty = s.dirty
        /\ u.node[p] = a /\ \A q \in Pages \ {p} : u.node[q] = s.node[q]
    BY <1>1, <2>1, Written
  <2> HIDE DEF u
  <2>4. t \in Stores /\ SameList(u, t) /\ t.dirty = u.dirty \cup {p} /\ t.node = u.node
    BY <2>2, <2>3, MarkedOne
  <2>5. /\ SameList(s, t) /\ t.dirty = s.dirty \cup {p} /\ t.node[p] = a
        /\ \A q \in Pages \ {p} : t.node[q] = s.node[q]
    BY <2>3, <2>4 DEF SameList
  <2>6. \A q \in Pages : t.node[q].kids = s.node[q].kids
    BY <2>1, <2>5
  <2>7. \A q \in Pages : IsKid(t, q) <=> IsKid(s, q)
    BY <2>6 DEF IsKid
  <2>8. KidsOnce(t)
    BY <2>6 DEF IsTree, KidsOnce
  <2>9. Shaped(t)
    <3> SUFFICES ASSUME NEW q \in Pages
                 PROVE  Fits(t.node[q]) /\ (t.node[q].root <=> q = Root)
      BY DEF Shaped
    <3>1. CASE q = p
      <4>1. Len(a.keys) <= MAX_CELLS
        <5>1. a.keys = cells
          BY <2>1
        <5>2. Len(cells) = Len(n.keys) + 1
          BY <1>3
        <5>3. Len(n.keys) < MAX_CELLS
          BY <1>4
        <5> HIDE DEF a, cells, n
        <5> QED BY <1>1, <5>1, <5>2, <5>3, Constants
      <4> QED BY <1>1, <2>1, <2>5, <3>1, <4>1 DEF Fits
    <3>2. CASE q # p
      BY <2>5, <3>2 DEF IsTree, Shaped
    <3> QED BY <3>1, <3>2
  <2>10. \A q \in Pages : q = Root \/ IsKid(s, q) \/ q \in {} \/ Like(t.node[q], s.node[q])
    BY <2>5 DEF Like
  <2>11. IsTree(t, {})
    <3> DEFINE L == {}
    <3>1. IsTree(s, L) /\ \A q \in Pages : ~(IsKid(t, q) /\ q \in L)
      OBVIOUS
    <3>2. \A q \in Pages : q = Root \/ IsKid(s, q) \/ q \in L \/ Like(t.node[q], s.node[q])
      BY <2>10
    <3> HIDE DEF L
    <3>3. IsTree(t, L)
      BY <2>4, <2>5, <2>7, <2>8, <2>9, <3>1, <3>2, Rearranged
    <3> QED BY <3>3 DEF L
  <2>12. StoredRows(t) = StoredRows(s) \cup {key}
    <3>1. LeafKeys(t, p) = LeafKeys(s, p) \cup {key}
      BY <1>3, <2>1, <2>5 DEF LeafKeys
    <3>2. \A q \in Pages \ {p} : LeafKeys(t, q) = LeafKeys(s, q)
      BY <2>5 DEF LeafKeys
    <3> QED BY <3>1, <3>2 DEF StoredRows
  <2>13. Marks(s, t, {})
    BY <2>5 DEF Marks, Alike, SameList
  <2>14. ASSUME AllGrown(s, {})
         PROVE  AllGrown(t, {}) /\ GrownOutOf(s, t)
    <3>1. \A q \in Pages : t.node[q].leaf = s.node[q].leaf /\ t.node[q].parent = s.node[q].parent
                           /\ s.node[q].parent \in Pages
      <4>1. a.parent = n.parent
        BY <1>1 DEF a, Node
      <4> QED BY <1>1, <2>1, <2>5, <4>1, NodeFields
    <3>2. t.free_page_head = 0 /\ t.num_pages = s.num_pages /\ s.num_pages \in Nat
      BY <1>1, <2>5, <2>14 DEF AllGrown, SameList, Stores
    <3>3. GrownOutOf(s, t)
      BY <2>5, <3>1, <3>2 DEF GrownOutOf, Pages
    <3> QED BY <2>14, <3>1, <3>2, <3>3 DEF AllGrown
  <2> QED BY <2>4, <2>11, <2>12, <2>13, <2>14 DEF Gains, KeepsParents
<1>5. CASE ~(Len(n.keys) < MAX_CELLS) /\ NoPagesToSplit(s, p)
  <2>1. t = Refused(s)
    BY <1>2, <1>5
  <2>2. t \in Stores /\ t.num_pages > TABLE_MAX_PAGES
    BY <1>1, <2>1, IsRefused
  <2> QED BY <2>2 DEF Gains
<1>6. CASE ~(Len(n.keys) < MAX_CELLS) /\ ~NoPagesToSplit(s, p)
  <2>1. t = leaf_node_split_and_insert(s, p, cells)
    BY <1>2, <1>6
  <2>2. Len(cells) = MAX_CELLS + 1
    BY <1>1, <1>3, <1>6, Constants
  <2> QED BY <1>3, <1>6, <2>1, <2>2, LeafSplit
<1> QED BY <1>1, <1>4, <1>5, <1>6


-----------------------------------------------------------------------------
(* Deleting a row. *)

\* a and b have new nodes, and are marked.
Dealt(s, a, m, b, n) == MarkAll(With(With(s, a, m), b, n), {a, b})

\* Two leaves deal out their cells anew, and both are marked.
LEMMA CellsDealt ==
  ASSUME NEW s, IsTree(s, {}), NEW a \in Pages, NEW b \in Pages, a # b, IsKid(s, a), IsKid(s, b),
         NEW m \in Node, NEW n \in Node, m.leaf, n.leaf, m.kids = <<>>, n.kids = <<>>,
         ~m.root, ~n.root, Len(m.keys) <= MAX_CELLS, Len(n.keys) <= MAX_CELLS,
         s.node[a].leaf, s.node[b].leaf,
         ToSet(m.keys) \cup ToSet(n.keys) = ToSet(s.node[a].keys) \cup ToSet(s.node[b].keys),
         NEW t, t = Dealt(s, a, m, b, n)
  PROVE  /\ Settles(s, t) /\ t.node[a] = m /\ t.node[b] = n /\ a \in t.dirty /\ b \in t.dirty
         /\ \A q \in Pages \ {a, b} : t.node[q] = s.node[q]
<1> DEFINE u == With(s, a, m)
           v == With(u, b, n)
           P == {a, b}
<1>0. v = With(u, b, n) /\ t = MarkAll(v, P) /\ P \in SUBSET Pages
  BY DEF Dealt
<1>1. s \in Stores /\ s.node[a].kids = <<>> /\ s.node[b].kids = <<>> /\ a # Root /\ b # Root
  BY Owners DEF IsTree, Shaped, Fits
<1>2. /\ u \in Stores /\ SameList(s, u) /\ u.dirty = s.dirty
      /\ u.node[a] = m /\ \A q \in Pages \ {a} : u.node[q] = s.node[q]
  BY <1>1, Written
<1> HIDE DEF u
<1>3. /\ v \in Stores /\ SameList(u, v) /\ v.dirty = u.dirty
      /\ v.node[b] = n /\ \A q \in Pages \ {b} : v.node[q] = u.node[q]
  BY <1>0, <1>2, Written
<1> HIDE DEF v, P
<1>4. t \in Stores /\ SameList(v, t) /\ t.dirty = v.dirty \cup P /\ t.node = v.node
  BY <1>0, <1>3, Marked
<1>5. /\ SameList(s, t) /\ t.dirty = s.dirty \cup {a, b} /\ t.node[a] = m /\ t.node[b] = n
      /\ \A q \in Pages \ {a, b} : t.node[q] = s.node[q]
  BY <1>2, <1>3, <1>4 DEF SameList, P
<1>6. \A q \in Pages : t.node[q].kids = s.node[q].kids
  BY <1>1, <1>5
<1>7. IsTree(t, {})
  <2> DEFINE L == {}
  <2>1. \A q \in Pages : IsKid(t, q) <=> IsKid(s, q)
    BY <1>6 DEF IsKid
  <2>2. KidsOnce(t)
    BY <1>6 DEF IsTree, KidsOnce
  <2>3. Shaped(t)
    <3> SUFFICES ASSUME NEW q \in Pages
                 PROVE  Fits(t.node[q]) /\ (t.node[q].root <=> q = Root)
      BY DEF Shaped
    <3>1. CASE q \in {a, b}
      BY <1>1, <1>5, <3>1 DEF Fits
    <3>2. CASE q \notin {a, b}
      BY <1>5, <3>2 DEF IsTree, Shaped
    <3> QED BY <3>1, <3>2
  <2>4. \A q \in Pages : q = Root \/ IsKid(s, q) \/ q \in L \/ Like(t.node[q], s.node[q])
    BY <1>5 DEF Like
  <2>5. IsTree(s, L) /\ \A q \in Pages : ~(IsKid(t, q) /\ q \in L)
    OBVIOUS
  <2> HIDE DEF L
  <2>6. IsTree(t, L)
    BY <1>4, <1>5, <2>1, <2>2, <2>3, <2>4, <2>5, Rearranged
  <2> QED BY <2>6 DEF L
<1>8. StoredRows(t) = StoredRows(s)
  <2>1. LeafKeys(t, a) \cup LeafKeys(t, b) = LeafKeys(s, a) \cup LeafKeys(s, b)
    BY <1>5 DEF LeafKeys
  <2>2. \A q \in Pages \ {a, b} : LeafKeys(t, q) = LeafKeys(s, q)
    BY <1>5 DEF LeafKeys
  <2> QED BY <2>1, <2>2 DEF StoredRows
<1>9. Marks(s, t, {})
  BY <1>5 DEF Marks, Alike, SameList
<1> QED BY <1>5, <1>7, <1>8, <1>9 DEF Settles

\* The place of a child in its parent.
LEMMA ChildIndex ==
  ASSUME NEW s \in Stores, NEW q \in Pages, NEW p \in Pages
  PROVE  IF p \in ToSet(s.node[q].kids)
         THEN /\ internal_node_find_child_index(s, q, p) \in 0 .. Len(s.node[q].kids) - 1
              /\ internal_node_find_child_index(s, q, p) + 1 \in DOMAIN s.node[q].kids
              /\ s.node[q].kids[internal_node_find_child_index(s, q, p) + 1] = p
         ELSE internal_node_find_child_index(s, q, p) = -1
<1> DEFINE kids == s.node[q].kids
<1>1. kids \in Seq(Pages) /\ DOMAIN kids = 1 .. Len(kids) /\ Len(kids) \in Nat
  BY NodeFields
<1>2. CASE p \in ToSet(kids)
  <2> DEFINE i == CHOOSE i \in DOMAIN kids : kids[i] = p
  <2>1. \E i1 \in DOMAIN kids : kids[i1] = p
    BY <1>2 DEF ToSet
  <2>2. i \in DOMAIN kids /\ kids[i] = p
    BY <2>1
  <2>3. internal_node_find_child_index(s, q, p) = i - 1
    BY <1>2 DEF internal_node_find_child_index
  <2> HIDE DEF i, kids
  <2>4. (i - 1) + 1 = i /\ i - 1 \in 0 .. Len(kids) - 1
    BY <1>1, <2>2
  <2> QED BY <1>2, <2>2, <2>3, <2>4 DEF kids
<1>3. CASE p \notin ToSet(kids)
  BY <1>3 DEF internal_node_find_child_index
<1> QED BY <1>2, <1>3

\* t is a tree with the same loose pages and rows, and what it has elsewhere is marked.
Keeps(s, t, L) ==
  /\ IsTree(t, L) /\ StoredRows(t) = StoredRows(s) /\ Marks(s, t, {})
  /\ \A p \in L : Alike(t.node[p], s.node[p])

\* The content of its only child in the root.
Lifted(s, child) == With(s, Root, [s.node[child] EXCEPT !.root = TRUE])
Collapsed(s, child) ==
  SetParents(MarkAll(pager_free_page(Lifted(s, child), child),
                     {Root} \cup ToSet(s.node[child].kids)),
             s.node[child].kids, Root)

\* The root takes the content of its only child, whose page is freed.
LEMMA RootCollapsed ==
  ASSUME NEW s, NEW L, IsTree(s, L), L \subseteq Pages, NEW child \in Pages,
         ~s.node[Root].leaf, s.node[Root].kids = <<child>>,
         NEW t, t = Collapsed(s, child)
  PROVE  Keeps(s, t, L)
<1> DEFINE c == s.node[child]
           kids == c.kids
           n == [c EXCEPT !.root = TRUE]
           u == Lifted(s, child)
           b == With(u, child, EmptyLeaf)
           v == pager_free_page(u, child)
           P == {Root} \cup ToSet(kids)
           w == MarkAll(v, P)
           K == L \cup {child}
<1>0. /\ u = With(s, Root, n) /\ v = pager_free_page(u, child) /\ w = MarkAll(v, P)
      /\ t = SetParents(w, kids, Root) /\ b = With(u, child, EmptyLeaf)
  BY DEF Lifted, Collapsed
<1>1. s \in Stores /\ Root \in Pages /\ c \in Node /\ c.kids \in Seq(Pages) /\ ToSet(c.kids) \subseteq Pages
      /\ c.leaf \in BOOLEAN /\ P \in SUBSET Pages
  <2>1. s \in Stores /\ Root \in Pages
    BY Constants DEF IsTree
  <2>2. c \in Node /\ c.kids \in Seq(Pages) /\ c.leaf \in BOOLEAN
    BY <2>1, NodeFields
  <2> QED BY <2>1, <2>2 DEF ToSet, P
<1>2. /\ n \in Node /\ n.leaf = c.leaf /\ n.root /\ n.keys = c.keys /\ n.kids = c.kids
  BY <1>1 DEF Node
<1>3. ToSet(s.node[Root].kids) = {child} /\ IsKid(s, child) /\ child # Root /\ child \notin L
  <2>1. ToSet(<<child>>) = {child}
    BY DEF ToSet
  <2>2. IsKid(s, child)
    BY <1>1, <2>1 DEF IsKid
  <2> QED BY <2>1, <2>2, Owners
<1>4. child \notin ToSet(c.kids) /\ IsInjective(c.kids) /\ Fits(c)
  BY <1>1, <1>3 DEF IsTree, KidsOnce, Shaped
<1> HIDE DEF n, u, b, v, w, P
<1>6. /\ u \in Stores /\ SameList(s, u) /\ u.dirty = s.dirty
      /\ u.node[Root] = n /\ \A q \in Pages \ {Root} : u.node[q] = s.node[q]
  <2>1. s \in Stores /\ Root \in Pages /\ n \in Node /\ u = With(s, Root, n)
    BY <1>0, <1>1, <1>2
  <2> QED BY <2>1, Written
<1>7. /\ b \in Stores /\ SameList(u, b) /\ b.dirty = u.dirty
      /\ b.node[child] = EmptyLeaf /\ \A q \in Pages \ {child} : b.node[q] = u.node[q]
  BY <1>0, <1>6, EmptyLeafIsNode, Written
<1>8. /\ b.node[Root] = n /\ SameList(s, b) /\ b.dirty = s.dirty
      /\ \A q \in Pages \ {Root, child} : b.node[q] = s.node[q]
      /\ IsBlank(b.node[child]) /\ ~b.node[child].root /\ Fits(b.node[child])
      /\ ToSet(b.node[child].kids) = {} /\ IsInjective(b.node[child].kids)
  BY <1>1, <1>3, <1>6, <1>7, EmptyLeafIsNode DEF SameList, IsBlank, ToSet, IsInjective
<1>9. IsTree(b, K)
  <2> DEFINE C == {Root, child}
             F == {}
             G == {child}
  <2>1. \A q \in C : /\ q = Root \/ IsKid(s, q) \/ q \in L
                     /\ Fits(b.node[q]) /\ (b.node[q].root <=> q = Root)
                     /\ IsInjective(b.node[q].kids)
    <3>1. Fits(b.node[Root])
      BY <1>2, <1>4, <1>8 DEF Fits
    <3> QED BY <1>2, <1>3, <1>4, <1>8, <3>1
  <2>2. \A q, x \in C : q # x => ToSet(b.node[q].kids) \cap ToSet(b.node[x].kids) = {}
    BY <1>8
  <2>3. \A x \in Pages : Under(b, C, x) <=> (Under(s, C, x) /\ x \notin G) \/ x \in F
    <3>1. \A x \in Pages : Under(b, C, x) <=> x \in ToSet(c.kids)
      BY <1>2, <1>8 DEF Under
    <3>2. \A x \in Pages : Under(s, C, x) <=> x = child \/ x \in ToSet(c.kids)
      BY <1>3 DEF Under
    <3> QED BY <1>4, <3>1, <3>2
  <2>4. C \subseteq Pages /\ F \subseteq L
    BY <1>1
  <2>5. \A q \in Pages \ C : Like(b.node[q], s.node[q])
    BY <1>8 DEF Like
  <2>6. K = (L \ F) \cup G
    OBVIOUS
  <2>7. \A x \in G : Under(s, C, x)
    BY <1>3 DEF Under
  <2> HIDE DEF C, F, G, K
  <2>8. Reshapes(s, b, L, K, C, F, G)
    BY <1>7, <1>8, <2>1, <2>2, <2>3, <2>4, <2>5, <2>6, <2>7 DEF Reshapes
  <2> QED BY <2>8, Reshaped
<1>10. StoredRows(b) = StoredRows(s)
  <2>1. /\ LeafKeys(b, Root) = LeafKeys(s, child) /\ LeafKeys(s, Root) = {}
        /\ LeafKeys(b, child) = {}
    BY <1>2, <1>8, BlankNode DEF LeafKeys
  <2>2. \A q \in Pages \ {Root, child} : LeafKeys(b, q) = LeafKeys(s, q)
    BY <1>8 DEF LeafKeys
  <2> QED BY <1>1, <2>1, <2>2 DEF StoredRows
<1>11. /\ IsTree(v, L) /\ StoredRows(v) = StoredRows(b)
       /\ \A q \in Pages : v.node[q] = b.node[q]
       /\ Marks(b, v, {}) /\ child \in v.dirty
  <2>1. K \ {child} = L /\ child \in K
    BY <1>3
  <2> HIDE DEF K
  <2>2. /\ IsTree(v, K \ {child}) /\ StoredRows(v) = StoredRows(b)
        /\ \A q \in Pages : v.node[q] = b.node[q]
        /\ Marks(b, v, {}) /\ child \in v.dirty
    BY <1>0, <1>6, <1>9, <2>1, PageFreed
  <2> QED BY <2>1, <2>2
<1>12. w \in Stores /\ SameList(v, w) /\ w.dirty = v.dirty \cup P /\ w.node = v.node
  <2>1. v \in Stores
    BY <1>11 DEF IsTree
  <2> QED BY <1>0, <1>1, <2>1, Marked
<1>13. /\ t \in Stores /\ SameList(w, t) /\ t.dirty = w.dirty
       /\ \A q \in Pages : Alike(t.node[q], w.node[q])
  <2>1. kids \in Seq(Pages) /\ t = SetParents(w, kids, Root)
    BY <1>0, <1>1
  <2> HIDE DEF kids
  <2>2. Adopts(w, t, ToSet(kids), Root)
    BY <1>1, <1>12, <2>1, Adopted
  <2> QED BY <2>2 DEF Adopts
<1>14. SameList(v, t) /\ v.dirty \subseteq t.dirty /\ Root \in t.dirty /\ child \in t.dirty
       /\ \A q \in Pages : Alike(t.node[q], v.node[q])
  BY <1>11, <1>12, <1>13 DEF SameList, P
<1>15. \A q \in Pages : Like(t.node[q], v.node[q])
  BY <1>14, AlikeIsLike
<1>16. IsTree(t, L) /\ StoredRows(t) = StoredRows(s)
  <2>1. IsTree(t, L) /\ StoredRows(t) = StoredRows(v)
    BY <1>11, <1>13, <1>14, <1>15, StillTree
  <2> QED BY <1>10, <1>11, <2>1
<1>17. \A q \in Pages \ {Root, child} : Alike(t.node[q], s.node[q])
  BY <1>8, <1>11, <1>14 DEF Alike
<1>18. Marks(s, t, {})
  BY <1>8, <1>11, <1>14, <1>17 DEF Marks, SameList
<1>19. \A q \in L : Alike(t.node[q], s.node[q])
  BY <1>3, <1>17, Owners
<1> QED BY <1>16, <1>18, <1>19 DEF Keeps

\* A child in the place of another child.
Slot(s, q, place, child) ==
  With(s, q, [s.node[q] EXCEPT !.kids = [s.node[q].kids EXCEPT ![place] = child]])
Spliced(s, p, child, q, place) ==
  pager_free_page(RecomputeKeys(MarkAll(SetParent(Slot(s, q, place, child), child, q),
                                        {child, p}), q), p)

\* A node gives its only child, a leaf, to its parent in its own place, and is freed.
LEMMA ChildSpliced ==
  ASSUME NEW s, NEW L, IsTree(s, L), L \subseteq Pages, \A x \in L : s.node[x].leaf,
         NEW p \in Pages, NEW child \in Pages, s.node[p].kids = <<child>>, s.node[child].leaf,
         NEW q \in Pages, NEW place \in DOMAIN s.node[q].kids, s.node[q].kids[place] = p,
         NEW t, t = Spliced(s, p, child, q, place)
  PROVE  Keeps(s, t, L)
<1> DEFINE o == s.node[q]
           kids == [o.kids EXCEPT ![place] = child]
           n == [o EXCEPT !.kids = kids]
           a == Slot(s, q, place, child)
           r == SetParent(a, child, q)
           P == {child, p}
           m == MarkAll(r, P)
           k == RecomputeKeys(m, q)
           b == With(k, p, EmptyLeaf)
           K == L \cup {p}
<1>0. /\ a = With(s, q, n) /\ r = SetParent(a, child, q) /\ m = MarkAll(r, P)
      /\ k = RecomputeKeys(m, q) /\ t = pager_free_page(k, p) /\ b = With(k, p, EmptyLeaf)
      /\ P \in SUBSET Pages
  BY DEF Slot, Spliced
<1>1. /\ s \in Stores /\ o \in Node /\ o.kids \in Seq(Pages) /\ o.keys \in Seq(Nat)
      /\ Len(o.kids) \in Nat /\ DOMAIN o.kids = 1 .. Len(o.kids) /\ Len(o.keys) \in Nat
      /\ o.leaf \in BOOLEAN
  <2>1. s \in Stores
    BY DEF IsTree
  <2>2. \A x \in Pages : /\ s.node[x] \in Node /\ s.node[x].leaf \in BOOLEAN
                        /\ s.node[x].kids \in Seq(Pages) /\ s.node[x].keys \in Seq(Nat)
    <3> HIDE DEF a, r, m, k, b
    <3> QED BY <2>1, NodeFields
  <2>3. o \in Node /\ o.leaf \in BOOLEAN /\ o.kids \in Seq(Pages) /\ o.keys \in Seq(Nat)
    BY <2>2
  <2> HIDE DEF o
  <2> QED BY <2>1, <2>3
<1>2. /\ ToSet(s.node[p].kids) = {child} /\ p \in ToSet(o.kids)
      /\ IsKid(s, p) /\ IsKid(s, child) /\ p # Root /\ p \notin L /\ p # child
  <2>1. ToSet(<<child>>) = {child}
    BY DEF ToSet
  <2>2. ToSet(s.node[p].kids) = {child} /\ p \in ToSet(o.kids)
    BY <2>1 DEF ToSet
  <2>3. IsKid(s, p) /\ IsKid(s, child)
    BY <2>2 DEF IsKid
  <2>4. p # child
    <3>1. s.node[child].kids = <<>>
      BY DEF IsTree, Shaped, Fits
    <3>2. <<child>> # <<>>
      OBVIOUS
    <3> QED BY <3>1, <3>2
  <2> QED BY <2>2, <2>3, <2>4, Owners
<1>3. /\ ~o.leaf /\ Len(o.kids) = Len(o.keys) + 1 /\ Len(o.keys) <= INTERNAL_NODE_MAX_KEYS
      /\ IsInjective(o.kids) /\ (o.root <=> q = Root)
  <2>1. o.kids # <<>>
    BY <1>1, <1>2 DEF ToSet
  <2> QED BY <2>1 DEF IsTree, Shaped, Fits, KidsOnce
<1>4. /\ ~s.node[p].leaf /\ q # child /\ q # p /\ child \notin ToSet(o.kids)
  <2>1. ~s.node[p].leaf
    <3>1. <<child>> # <<>>
      OBVIOUS
    <3> QED BY <3>1 DEF IsTree, Shaped, Fits
  <2>2. q # child
    BY <1>3
  <2>3. q # p
    BY <1>2
  <2>4. ToSet(s.node[p].kids) \cap ToSet(s.node[q].kids) = {}
    BY <2>3 DEF IsTree, KidsOnce
  <2> QED BY <1>2, <2>1, <2>2, <2>3, <2>4
<1>5. q = Root \/ IsKid(s, q) \/ q \in L
  <2>1. ~IsBlank(s.node[q])
    BY <1>3 DEF IsBlank
  <2> QED BY <2>1, Owners
<1>6. /\ kids \in Seq(Pages) /\ Len(kids) = Len(o.kids) /\ IsInjective(kids)
      /\ ToSet(kids) = (ToSet(o.kids) \ {p}) \cup {child}
  <2>1. o.kids \in Seq(Pages) /\ place \in 1 .. Len(o.kids) /\ IsInjective(o.kids)
        /\ child \notin ToSet(o.kids) /\ o.kids[place] = p
    BY <1>1, <1>3, <1>4
  <2> HIDE DEF o
  <2> QED BY <2>1, Replaced
<1>7. /\ n \in Node /\ n.leaf = o.leaf /\ n.root = o.root /\ n.keys = o.keys /\ n.kids = kids
  <2> HIDE DEF kids, o
  <2> QED BY <1>1, <1>6 DEF Node
<1> HIDE DEF kids, n, a, r, m, k, b, P
<1>8. /\ a \in Stores /\ SameList(s, a) /\ a.dirty = s.dirty
      /\ a.node[q] = n /\ \A x \in Pages \ {q} : a.node[x] = s.node[x]
  <2>1. s \in Stores /\ n \in Node /\ a = With(s, q, n)
    BY <1>0, <1>1, <1>7
  <2> QED BY <2>1, Written
<1>9. /\ r \in Stores /\ SameList(a, r) /\ r.dirty = a.dirty
      /\ \A x \in Pages : Alike(r.node[x], a.node[x])
  <2>1. r = SetParent(a, child, q)
    BY <1>0
  <2>2. Adopts(a, r, {child}, q)
    BY <1>8, <2>1, AdoptedOne
  <2> QED BY <2>2 DEF Adopts
<1>10. m \in Stores /\ SameList(r, m) /\ m.dirty = r.dirty \cup P /\ m.node = r.node
  BY <1>0, <1>9, Marked
<1>11. /\ ~m.node[q].leaf /\ m.node[q].kids = kids /\ Len(m.node[q].keys) = Len(o.keys)
       /\ m.node[q].root = o.root
  <2>1. m.node[q] = r.node[q] /\ Alike(r.node[q], n)
    BY <1>8, <1>9, <1>10
  <2> HIDE DEF o
  <2> QED BY <1>3, <1>7, <2>1 DEF Alike
<1>12. /\ k \in Stores /\ SameList(m, k) /\ k.dirty = m.dirty \cup {q}
       /\ \A x \in Pages : Like(k.node[x], m.node[x])
       /\ \A x \in Pages \ {q} : k.node[x] = m.node[x]
  <2>1. Len(m.node[q].keys) <= Len(m.node[q].kids) /\ k = RecomputeKeys(m, q)
    BY <1>0, <1>1, <1>3, <1>6, <1>11
  <2>2. m \in Stores /\ ~m.node[q].leaf
    BY <1>10, <1>11
  <2> QED BY <2>1, <2>2, KeysRecomputed
<1>13. /\ SameList(s, k) /\ k.dirty = s.dirty \cup {child, p, q}
       /\ \A x \in Pages \ {q} : Alike(k.node[x], s.node[x])
       /\ ~k.node[q].leaf /\ k.node[q].kids = kids /\ Len(k.node[q].keys) = Len(o.keys)
       /\ k.node[q].root = o.root
  <2>1. SameList(s, k) /\ k.dirty = s.dirty \cup {child, p, q}
    BY <1>8, <1>9, <1>10, <1>12 DEF SameList, P
  <2>2. \A x \in Pages \ {q} : Alike(k.node[x], s.node[x])
    <3>1. \A x \in Pages \ {q} : k.node[x] = r.node[x] /\ a.node[x] = s.node[x]
      BY <1>8, <1>10, <1>12
    <3> QED BY <1>9, <3>1
  <2>3. Like(k.node[q], m.node[q])
    BY <1>12
  <2> QED BY <1>11, <2>1, <2>2, <2>3 DEF Like
<1>14. /\ b \in Stores /\ SameList(k, b) /\ b.dirty = k.dirty
       /\ b.node[p] = EmptyLeaf /\ \A x \in Pages \ {p} : b.node[x] = k.node[x]
  <2>1. b = With(k, p, EmptyLeaf)
    BY <1>0
  <2> QED BY <1>12, <2>1, EmptyLeafIsNode, Written
<1>15. /\ SameList(s, b) /\ b.dirty = s.dirty \cup {child, p, q}
       /\ \A x \in Pages \ {p, q} : Alike(b.node[x], s.node[x])
       /\ ~b.node[q].leaf /\ b.node[q].kids = kids /\ Len(b.node[q].keys) = Len(o.keys)
       /\ b.node[q].root = o.root
       /\ IsBlank(b.node[p]) /\ ~b.node[p].root /\ Fits(b.node[p])
       /\ ToSet(b.node[p].kids) = {} /\ IsInjective(b.node[p].kids)
  <2>1. /\ IsBlank(b.node[p]) /\ ~b.node[p].root /\ Fits(b.node[p])
        /\ ToSet(b.node[p].kids) = {} /\ IsInjective(b.node[p].kids)
    BY <1>14, EmptyLeafIsNode DEF IsBlank, ToSet, IsInjective
  <2>2. SameList(s, b) /\ b.dirty = s.dirty \cup {child, p, q}
    BY <1>13, <1>14 DEF SameList
  <2>3. b.node[q] = k.node[q] /\ \A x \in Pages \ {p, q} : Alike(b.node[x], s.node[x])
    BY <1>4, <1>13, <1>14
  <2> QED BY <1>13, <2>1, <2>2, <2>3
<1>16. IsTree(b, K)
  <2> DEFINE C == {q, p}
             F == {}
             G == {p}
  <2>1. \A x \in C : /\ x = Root \/ IsKid(s, x) \/ x \in L
                     /\ Fits(b.node[x]) /\ (b.node[x].root <=> x = Root)
                     /\ IsInjective(b.node[x].kids)
    <3>1. Fits(b.node[q])
      BY <1>1, <1>3, <1>6, <1>15 DEF Fits
    <3> QED BY <1>2, <1>3, <1>5, <1>6, <1>15, <3>1
  <2>2. \A x, y \in C : x # y => ToSet(b.node[x].kids) \cap ToSet(b.node[y].kids) = {}
    BY <1>15
  <2>3. \A x \in Pages : Under(b, C, x) <=> (Under(s, C, x) /\ x \notin G) \/ x \in F
    <3>1. \A x \in Pages : Under(b, C, x) <=> x \in ToSet(kids)
      BY <1>15 DEF Under
    <3>2. \A x \in Pages : Under(s, C, x) <=> x = child \/ x \in ToSet(o.kids)
      BY <1>2 DEF Under
    <3> QED BY <1>2, <1>6, <3>1, <3>2
  <2>4. C \subseteq Pages /\ F \subseteq L
    OBVIOUS
  <2>5. \A x \in Pages \ C : Like(b.node[x], s.node[x])
    BY <1>15, AlikeIsLike
  <2>6. K = (L \ F) \cup G
    OBVIOUS
  <2>7. \A x \in G : Under(s, C, x)
    BY <1>2 DEF Under
  <2> HIDE DEF C, F, G, K, o
  <2>8. Reshapes(s, b, L, K, C, F, G)
    BY <1>14, <1>15, <2>1, <2>2, <2>3, <2>4, <2>5, <2>6, <2>7 DEF Reshapes
  <2> QED BY <2>8, Reshaped
<1>17. StoredRows(b) = StoredRows(s)
  <2>1. LeafKeys(b, q) = LeafKeys(s, q)
    BY <1>3, <1>15 DEF LeafKeys
  <2>2. LeafKeys(b, p) = LeafKeys(s, p)
    BY <1>4, <1>15, BlankNode DEF LeafKeys
  <2>3. \A x \in Pages \ {p, q} : LeafKeys(b, x) = LeafKeys(s, x)
    BY <1>15 DEF LeafKeys, Alike
  <2>4. \A x \in Pages : LeafKeys(b, x) = LeafKeys(s, x)
    BY <2>1, <2>2, <2>3
  <2> QED BY <2>4, RowsAlike
<1>18. /\ IsTree(t, L) /\ StoredRows(t) = StoredRows(b)
       /\ \A x \in Pages : t.node[x] = b.node[x]
       /\ Marks(b, t, {})
  <2>1. K \ {p} = L /\ p \in K
    BY <1>2
  <2> HIDE DEF K
  <2>2. t = pager_free_page(k, p) /\ b = With(k, p, EmptyLeaf)
    BY <1>0
  <2>3. /\ IsTree(t, K \ {p}) /\ StoredRows(t) = StoredRows(b)
        /\ \A x \in Pages : t.node[x] = b.node[x]
        /\ Marks(b, t, {})
    BY <1>12, <1>16, <2>1, <2>2, PageFreed
  <2> QED BY <2>1, <2>3
<1>19. Marks(s, t, {})
  <2>1. Marks(s, b, {})
    BY <1>15 DEF Marks, SameList
  <2>2. Marks(s, t, {} \cup {})
    BY <1>18, <2>1, MarksTogether
  <2> QED BY <2>2
<1>20. \A x \in L : Alike(t.node[x], s.node[x])
  BY <1>2, <1>3, <1>15, <1>18
<1> QED BY <1>17, <1>18, <1>19, <1>20 DEF Keeps

\* internal_rebalance_after_delete.
LEMMA InternalRebalanced ==
  ASSUME NEW s, NEW L, IsTree(s, L), L \subseteq Pages, \A x \in L : s.node[x].leaf,
         NEW p \in Pages,
         \A child \in ToSet(s.node[p].kids) : s.node[p].keys = <<>> => s.node[child].leaf,
         NEW t, t = internal_rebalance_after_delete(s, p)
  PROVE  Keeps(s, t, L)
<1>0. Keeps(s, s, L)
  BY DEF Keeps, Marks, Alike
<1> DEFINE n == s.node[p]
           child == n.kids[1]
           q == n.parent
           place == internal_node_find_child_index(s, q, p) + 1
<1>1. /\ s \in Stores /\ n.kids \in Seq(Pages) /\ q \in Pages /\ (n.root <=> p = Root)
      /\ n.leaf \in BOOLEAN /\ Fits(n)
  <2>1. s \in Stores
    BY DEF IsTree
  <2> QED BY <2>1, NodeFields DEF IsTree, Shaped
<1>2. CASE n.leaf \/ n.keys # <<>> \/ n.kids = <<>>
  <2>1. t = s
    BY <1>2 DEF internal_rebalance_after_delete
  <2> QED BY <1>0, <2>1, Zenon
<1>3. ASSUME ~n.leaf, n.keys = <<>>, n.kids # <<>>
      PROVE  n.kids = <<child>> /\ child \in Pages /\ s.node[child].leaf
  <2>1. Len(n.kids) = 1
    <3>1. Len(n.keys) = 0
      BY <1>3
    <3> QED BY <1>1, <1>3, <3>1 DEF Fits
  <2>2. n.kids = <<child>> /\ child \in Pages /\ child \in ToSet(n.kids)
    BY <1>1, <2>1 DEF ToSet
  <2> QED BY <1>3, <2>2
<1>4. CASE ~n.leaf /\ n.keys = <<>> /\ n.kids # <<>> /\ n.root
  <2>1. n.kids = <<child>> /\ child \in Pages /\ p = Root
    BY <1>1, <1>3, <1>4
  <2>2. t = Collapsed(s, child)
    BY <1>4, <2>1 DEF internal_rebalance_after_delete, Collapsed, Lifted, With
  <2> QED BY <1>4, <2>1, <2>2, RootCollapsed
<1>5. CASE ~n.leaf /\ n.keys = <<>> /\ n.kids # <<>> /\ ~n.root /\ p \notin ToSet(s.node[q].kids)
  <2>1. t = s
    BY <1>5 DEF internal_rebalance_after_delete
  <2> QED BY <1>0, <2>1, Zenon
<1>6. CASE ~n.leaf /\ n.keys = <<>> /\ n.kids # <<>> /\ ~n.root /\ p \in ToSet(s.node[q].kids)
  <2>1. n.kids = <<child>> /\ child \in Pages /\ s.node[child].leaf
    BY <1>3, <1>6
  <2>2. place \in DOMAIN s.node[q].kids /\ s.node[q].kids[place] = p
    BY <1>1, <1>6, ChildIndex
  <2>3. [s EXCEPT !.node[q].kids[place] = child] = Slot(s, q, place, child)
    <3> HIDE DEF place, child, q
    <3> QED BY DEF Slot, With
  <2>4. t = pager_free_page(RecomputeKeys(MarkAll(SetParent([s EXCEPT !.node[q].kids[place] = child],
                                                           child, q), {child, p}), q), p)
    BY <1>6, Zenon DEF internal_rebalance_after_delete
  <2>5. t = Spliced(s, p, child, q, place)
    BY <2>3, <2>4 DEF Spliced
  <2>6. s.node[p].kids = <<child>> /\ q \in Pages
    BY <1>1, <2>1
  <2> HIDE DEF n, q, place, child
  <2> QED BY <2>1, <2>2, <2>5, <2>6, ChildSpliced
<1> QED BY <1>2, <1>4, <1>5, <1>6

\* The page of a child that is removed is loose.
Drops(s, t, right) ==
  /\ IsTree(t, {right}) /\ StoredRows(t) = StoredRows(s) /\ Marks(s, t, {})
  /\ Alike(t.node[right], s.node[right])

\* internal_node_remove_child of a leaf, which has other leaves beside it.
LEMMA ChildRemoved ==
  ASSUME NEW s, IsTree(s, {}), NEW p \in Pages, NEW place \in 0 .. Len(s.node[p].kids) - 1,
         NEW right \in Pages, s.node[p].kids[place + 1] = right, s.node[right].leaf,
         Len(s.node[p].kids) >= 2,
         \A c \in ToSet(s.node[p].kids) : Len(s.node[p].keys) = 1 => s.node[c].leaf,
         NEW t, t = internal_node_remove_child(s, p, place)
  PROVE  Drops(s, t, right)
<1> DEFINE n == s.node[p]
           key_place == IF place < Len(n.keys) THEN place + 1 ELSE Len(n.keys)
           kids == RemoveAt(n.kids, place + 1)
           keys == RemoveAt(n.keys, key_place)
           m == [n EXCEPT !.kids = kids, !.keys = keys]
           e == With(s, p, m)
           f == RecomputeKeys(e, p)
           L == {right}
<1>1. /\ s \in Stores /\ n \in Node /\ n.kids \in Seq(Pages) /\ n.keys \in Seq(Nat)
      /\ Len(n.kids) \in Nat /\ DOMAIN n.kids = 1 .. Len(n.kids) /\ Len(n.keys) \in Nat
      /\ n.leaf \in BOOLEAN
  <2>1. s \in Stores
    BY DEF IsTree
  <2> QED BY <2>1, NodeFields
<1>2. /\ ~n.leaf /\ Len(n.kids) = Len(n.keys) + 1 /\ Len(n.keys) <= INTERNAL_NODE_MAX_KEYS
      /\ IsInjective(n.kids) /\ (n.root <=> p = Root) /\ Len(n.keys) >= 1
  <2>1. n.kids # <<>>
    BY <1>1
  <2>2. /\ ~n.leaf /\ Len(n.kids) = Len(n.keys) + 1 /\ Len(n.keys) <= INTERNAL_NODE_MAX_KEYS
        /\ IsInjective(n.kids) /\ (n.root <=> p = Root)
    BY <2>1 DEF IsTree, Shaped, Fits, KidsOnce
  <2> QED BY <1>1, <2>2
<1>3. e = With(s, p, m) /\ f = RecomputeKeys(e, p) /\ t = internal_rebalance_after_delete(f, p)
  <2>1. [s EXCEPT !.node[p].kids = RemoveAt(@, place + 1), !.node[p].keys = RemoveAt(@, key_place)] = e
    <3> HIDE DEF key_place
    <3> QED BY <1>1 DEF With, Stores
  <2>2. t = internal_rebalance_after_delete(
               RecomputeKeys([s EXCEPT !.node[p].kids = RemoveAt(@, place + 1),
                                       !.node[p].keys = RemoveAt(@, key_place)], p), p)
    BY DEF internal_node_remove_child
  <2> QED BY <2>1, <2>2
<1>4. /\ kids \in Seq(Pages) /\ Len(kids) = Len(n.kids) - 1 /\ IsInjective(kids)
      /\ ToSet(n.kids) = ToSet(kids) \cup {right} /\ right \notin ToSet(kids)
  <2> DEFINE i == place + 1
             old == n.kids
  <2>1. old \in Seq(Pages) /\ i \in 1 .. Len(old) /\ IsInjective(old) /\ old[i] = right
    BY <1>1, <1>2
  <2>2. kids = RemoveAt(old, i)
    OBVIOUS
  <2> HIDE DEF old, i, kids
  <2>3. /\ kids \in Seq(Pages) /\ Len(kids) = Len(old) - 1 /\ IsInjective(kids)
        /\ ToSet(old) = ToSet(kids) \cup {old[i]} /\ old[i] \notin ToSet(kids)
    <3>1. /\ RemoveAt(old, i) \in Seq(Pages) /\ Len(RemoveAt(old, i)) = Len(old) - 1
          /\ IsInjective(RemoveAt(old, i)) /\ ToSet(old) = ToSet(RemoveAt(old, i)) \cup {old[i]}
          /\ old[i] \notin ToSet(RemoveAt(old, i))
      BY <2>1, Removed
    <3> QED BY <2>2, <3>1
  <2> QED BY <2>1, <2>3 DEF old
<1>5. keys \in Seq(Nat) /\ Len(keys) = Len(n.keys) - 1
  <2> DEFINE N == Nat
             old == n.keys
  <2>1. old \in Seq(N) /\ key_place \in 1 .. Len(old)
    BY <1>1, <1>2
  <2>2. keys = RemoveAt(old, key_place)
    OBVIOUS
  <2> HIDE DEF old, N, key_place, keys
  <2>3. RemoveAt(old, key_place) \in Seq(N) /\ Len(RemoveAt(old, key_place)) = Len(old) - 1
    BY <2>1, Removed
  <2> QED BY <2>2, <2>3 DEF N, old
<1>a. Len(kids) = Len(keys) + 1 /\ Len(keys) <= INTERNAL_NODE_MAX_KEYS
  <2>1. /\ Len(n.keys) \in Nat /\ Len(n.kids) = Len(n.keys) + 1
        /\ Len(n.keys) <= INTERNAL_NODE_MAX_KEYS
    BY <1>1, <1>2
  <2>2. Len(kids) = Len(n.kids) - 1 /\ Len(keys) = Len(n.keys) - 1
    BY <1>4, <1>5
  <2>3. INTERNAL_NODE_MAX_KEYS \in Nat
    BY Constants
  <2> HIDE DEF n, kids, keys
  <2> QED BY <2>1, <2>2, <2>3
<1>6. /\ m \in Node /\ m.leaf = n.leaf /\ m.root = n.root /\ m.keys = keys /\ m.kids = kids
  <2> HIDE DEF kids, keys, n
  <2> QED BY <1>1, <1>4, <1>5 DEF Node
<1>7. /\ IsKid(s, right) /\ right # Root /\ right # p
      /\ (p = Root \/ IsKid(s, p))
  <2>1. IsKid(s, right)
    BY <1>4 DEF IsKid
  <2>2. right # p
    BY <1>2
  <2>3. p = Root \/ IsKid(s, p)
    <3>1. ~IsBlank(s.node[p])
      BY <1>2 DEF IsBlank
    <3> DEFINE K == {}
    <3>2. IsTree(s, K) /\ p \notin K
      OBVIOUS
    <3> HIDE DEF K
    <3> QED BY <3>1, <3>2, Owners
  <2> QED BY <2>1, <2>2, <2>3, Owners
<1> HIDE DEF kids, keys, m, e, f
<1>8. /\ e \in Stores /\ SameList(s, e) /\ e.dirty = s.dirty
      /\ e.node[p] = m /\ \A x \in Pages \ {p} : e.node[x] = s.node[x]
  <2>1. s \in Stores /\ m \in Node /\ e = With(s, p, m)
    BY <1>1, <1>3, <1>6
  <2> QED BY <2>1, Written
<1>9. IsTree(e, L)
  <2> DEFINE C == {p}
             F == {}
             G == {right}
             K == {}
  <2>1. \A x \in C : /\ x = Root \/ IsKid(s, x) \/ x \in K
                     /\ Fits(e.node[x]) /\ (e.node[x].root <=> x = Root)
                     /\ IsInjective(e.node[x].kids)
    <3>1. Fits(e.node[p])
      <4>2. ~e.node[p].leaf /\ e.node[p].kids = kids /\ e.node[p].keys = keys
        BY <1>2, <1>6, <1>8
      <4> QED BY <1>a, <4>2 DEF Fits
    <3> QED BY <1>2, <1>4, <1>6, <1>7, <1>8, <3>1
  <2>2. \A x, y \in C : x # y => ToSet(e.node[x].kids) \cap ToSet(e.node[y].kids) = {}
    OBVIOUS
  <2>3. \A x \in Pages : Under(e, C, x) <=> (Under(s, C, x) /\ x \notin G) \/ x \in F
    <3>1. \A x \in Pages : Under(e, C, x) <=> x \in ToSet(kids)
      BY <1>6, <1>8 DEF Under
    <3>2. \A x \in Pages : Under(s, C, x) <=> x \in ToSet(n.kids)
      BY DEF Under
    <3> QED BY <1>4, <3>1, <3>2
  <2>4. C \subseteq Pages /\ F \subseteq K
    OBVIOUS
  <2>5. \A x \in Pages \ C : Like(e.node[x], s.node[x])
    BY <1>8 DEF Like
  <2>6. L = (K \ F) \cup G
    OBVIOUS
  <2>7. \A x \in G : Under(s, C, x)
    BY <1>4 DEF Under
  <2>8. IsTree(s, K)
    OBVIOUS
  <2> HIDE DEF C, F, G, K, L, n
  <2>9. Reshapes(s, e, K, L, C, F, G)
    BY <1>8, <2>1, <2>2, <2>3, <2>4, <2>5, <2>6, <2>7 DEF Reshapes
  <2> QED BY <2>8, <2>9, Reshaped
<1>10. /\ f \in Stores /\ SameList(e, f) /\ f.dirty = e.dirty \cup {p}
       /\ \A x \in Pages : Like(f.node[x], e.node[x])
       /\ \A x \in Pages \ {p} : f.node[x] = e.node[x]
  <2>1. e \in Stores /\ ~e.node[p].leaf /\ Len(e.node[p].keys) <= Len(e.node[p].kids)
        /\ f = RecomputeKeys(e, p)
    <3>1. e \in Stores /\ e.node[p] = m /\ f = RecomputeKeys(e, p)
      BY <1>3, <1>8
    <3>2. ~m.leaf /\ Len(m.keys) <= Len(m.kids)
      <4>1. Len(keys) \in Nat
        BY <1>5
      <4>2. ~m.leaf /\ m.keys = keys /\ m.kids = kids
        BY <1>2, <1>6
      <4> HIDE DEF m, kids, keys
      <4> QED BY <1>a, <4>1, <4>2
    <3> HIDE DEF m
    <3> QED BY <3>1, <3>2
  <2> QED BY <2>1, KeysRecomputed
<1>11. /\ IsTree(f, L) /\ StoredRows(f) = StoredRows(e)
  <2> HIDE DEF L
  <2> QED BY <1>9, <1>10, StillTree
<1>12. StoredRows(e) = StoredRows(s)
  <2>1. \A x \in Pages : LeafKeys(e, x) = LeafKeys(s, x)
    BY <1>2, <1>6, <1>8 DEF LeafKeys
  <2> QED BY <2>1, RowsAlike
<1>13. Marks(s, f, {}) /\ f.node[right] = s.node[right]
  <2>1. SameList(s, f) /\ f.dirty = s.dirty \cup {p}
    BY <1>8, <1>10 DEF SameList
  <2>2. \A x \in Pages \ {p} : f.node[x] = s.node[x]
    BY <1>8, <1>10
  <2> QED BY <1>7, <2>1, <2>2 DEF Marks, Alike, SameList
<1>14. \A c \in ToSet(f.node[p].kids) : f.node[p].keys = <<>> => f.node[c].leaf
  <2> SUFFICES ASSUME NEW c \in ToSet(f.node[p].kids), f.node[p].keys = <<>>
               PROVE  f.node[c].leaf
    OBVIOUS
  <2>1. f.node[p].kids = kids /\ Len(f.node[p].keys) = Len(keys)
    BY <1>2, <1>6, <1>8, <1>10 DEF Like
  <2>2. Len(n.keys) = 1
    <3>1. Len(f.node[p].keys) = 0
      OBVIOUS
    <3> QED BY <1>1, <1>5, <2>1, <3>1
  <2>3. c \in ToSet(n.kids) /\ s.node[c].leaf
    BY <1>4, <2>1, <2>2
  <2>4. c \in Pages /\ c # p
    <3>1. ToSet(n.kids) \subseteq Pages
      BY <1>1 DEF ToSet
    <3> QED BY <1>2, <2>3, <3>1
  <2> QED BY <1>8, <1>10, <2>3, <2>4
<1>15. Keeps(f, t, L)
  <2>1. L \subseteq Pages /\ \A x \in L : f.node[x].leaf
    BY <1>13
  <2>2. t = internal_rebalance_after_delete(f, p)
    BY <1>3
  <2> HIDE DEF L
  <2> QED BY <1>11, <1>14, <2>1, <2>2, InternalRebalanced
<1>16. /\ IsTree(t, {right}) /\ StoredRows(t) = StoredRows(f) /\ Marks(f, t, {})
       /\ Alike(t.node[right], f.node[right])
  BY <1>15 DEF Keeps
<1>17. Marks(s, t, {})
  <2>1. Marks(s, t, {} \cup {})
    BY <1>13, <1>16, MarksTogether
  <2> QED BY <2>1
<1> QED BY <1>11, <1>12, <1>13, <1>16, <1>17 DEF Drops

\* Merge: two leaves that fit into one.
LEMMA LeavesMerged ==
  ASSUME NEW s, IsTree(s, {}), NEW p \in Pages, NEW left \in Pages, NEW right \in Pages,
         left # right, left \in ToSet(s.node[p].kids), s.node[left].leaf, s.node[right].leaf,
         NEW place \in 0 .. Len(s.node[p].kids) - 1, s.node[p].kids[place + 1] = right,
         Len(s.node[left].keys) + Len(s.node[right].keys) <= MAX_CELLS,
         NEW t, t = Merge(s, left, right, p, place)
  PROVE  Settles(s, t)
<1> DEFINE o == s.node[p]
           a == s.node[left]
           c == s.node[right]
           cells == a.keys \o c.keys
           m == [a EXCEPT !.keys = cells, !.stale = 0, !.next = c.next]
           n == [c EXCEPT !.keys = <<>>]
           d == Dealt(s, left, m, right, n)
           g == internal_node_remove_child(d, p, place)
           b == With(g, right, EmptyLeaf)
           L == {right}
<1>1. /\ s \in Stores /\ o \in Node /\ o.kids \in Seq(Pages) /\ a \in Node /\ c \in Node
      /\ Len(o.kids) \in Nat /\ DOMAIN o.kids = 1 .. Len(o.kids) /\ Len(o.keys) \in Nat
      /\ a.keys \in Seq(Nat) /\ c.keys \in Seq(Nat) /\ c.next \in Pages
  <2>1. s \in Stores
    BY DEF IsTree
  <2>2. \A x \in Pages : /\ s.node[x] \in Node /\ s.node[x].next \in Pages
                        /\ s.node[x].kids \in Seq(Pages) /\ s.node[x].keys \in Seq(Nat)
    <3> HIDE DEF d, g, b
    <3> QED BY <2>1, NodeFields
  <2>3. /\ o \in Node /\ o.kids \in Seq(Pages) /\ o.keys \in Seq(Nat)
        /\ a \in Node /\ a.keys \in Seq(Nat)
        /\ c \in Node /\ c.keys \in Seq(Nat) /\ c.next \in Pages
    BY <2>2
  <2> HIDE DEF o, a, c
  <2> QED BY <2>1, <2>3
<1>2. /\ right \in ToSet(o.kids) /\ IsKid(s, left) /\ IsKid(s, right)
      /\ left # Root /\ right # Root
  <2>1. right \in ToSet(o.kids)
    <3>1. place + 1 \in DOMAIN o.kids /\ o.kids[place + 1] = right
      BY <1>1
    <3> HIDE DEF o
    <3> QED BY <3>1 DEF ToSet
  <2>2. IsKid(s, left) /\ IsKid(s, right)
    BY <2>1 DEF IsKid
  <2> QED BY <2>1, <2>2, Owners
<1>3. /\ ~o.leaf /\ Len(o.kids) = Len(o.keys) + 1 /\ IsInjective(o.kids)
      /\ a.kids = <<>> /\ c.kids = <<>> /\ ~a.root /\ ~c.root
  <2>1. o.kids # <<>>
    BY <1>1
  <2> QED BY <1>2, <2>1 DEF IsTree, Shaped, Fits, KidsOnce
<1>4. Len(o.kids) >= 2 /\ \A x \in ToSet(o.kids) : Len(o.keys) = 1 => x \in {left, right}
  <2>1. PICK i \in 1 .. Len(o.kids) : o.kids[i] = left
    BY <1>1 DEF ToSet
  <2>2. place + 1 \in 1 .. Len(o.kids) /\ place + 1 # i
    BY <1>1, <2>1
  <2>3. ASSUME NEW x \in ToSet(o.kids), Len(o.keys) = 1
        PROVE  x \in {left, right}
    <3>1. PICK j \in 1 .. Len(o.kids) : o.kids[j] = x
      BY <1>1 DEF ToSet
    <3>2. j = i \/ j = place + 1
      BY <1>1, <1>3, <2>2, <2>3
    <3> QED BY <2>1, <3>1, <3>2
  <2> QED BY <1>1, <2>2, <2>3
<1>5. cells \in Seq(Nat) /\ Len(cells) <= MAX_CELLS /\ ToSet(cells) = ToSet(a.keys) \cup ToSet(c.keys)
  <2> DEFINE N == Nat
             x == a.keys
             y == c.keys
  <2>1. x \in Seq(N) /\ y \in Seq(N)
    BY <1>1
  <2> HIDE DEF N, x, y
  <2>2. x \o y \in Seq(N) /\ Len(x \o y) = Len(x) + Len(y) /\ ToSet(x \o y) = ToSet(x) \cup ToSet(y)
    BY <2>1, Joined
  <2> QED BY <2>2 DEF N, x, y
<1>6. /\ m \in Node /\ m.leaf /\ ~m.root /\ m.kids = <<>> /\ m.keys = cells
      /\ n \in Node /\ n.leaf /\ ~n.root /\ n.kids = <<>> /\ n.keys = <<>>
  <2> HIDE DEF cells
  <2>1. /\ m \in Node /\ m.leaf /\ ~m.root /\ m.kids = <<>> /\ m.keys = cells
    <3> HIDE DEF c
    <3> QED BY <1>1, <1>3, <1>5 DEF Node
  <2>2. <<>> \in Seq(Nat)
    OBVIOUS
  <2>3. /\ n \in Node /\ n.leaf /\ ~n.root /\ n.kids = <<>> /\ n.keys = <<>>
    <3>1. c \in Node /\ c.leaf /\ ~c.root /\ c.kids = <<>>
      BY <1>1, <1>3
    <3> HIDE DEF c, m
    <3> QED BY <2>2, <3>1 DEF Node
  <2> QED BY <2>1, <2>3
<1>7. t = pager_free_page(g, right)
  <2> DEFINE moved == SetCells(s, left, cells)
             unchained == [moved EXCEPT !.node[left].next = c.next, !.node[right].keys = <<>>]
  <2>1. unchained = With(With(s, left, m), right, n)
    <3> DEFINE m1 == [a EXCEPT !.keys = cells, !.stale = 0]
    <3>1. moved = With(s, left, m1)
      <4> HIDE DEF cells
      <4> QED BY <1>1 DEF SetCells, With, Stores, Node
    <3>2. m = [m1 EXCEPT !.next = c.next]
      <4> HIDE DEF cells, c, a
      <4> QED OBVIOUS
    <3>3. /\ moved.node[left] = m1 /\ moved.node[right] = c
          /\ moved \in Stores
      <4> HIDE DEF cells
      <4>1. m1 \in Node
        <5> HIDE DEF a
        <5> QED BY <1>1, <1>5 DEF Node
      <4> HIDE DEF m1, moved
      <4>2. /\ moved \in Stores /\ moved.node[left] = m1
            /\ \A q \in Pages \ {left} : moved.node[q] = s.node[q]
        <5>1. s \in Stores /\ moved = With(s, left, m1)
          BY <1>1, <3>1
        <5> QED BY <4>1, <5>1, Written
      <4> QED BY <4>2
    <3> DEFINE w == [moved EXCEPT !.node[left].next = c.next]
    <3>4. w = With(moved, left, m)
      <4> HIDE DEF cells, c, m, m1, moved
      <4> QED BY <3>2, <3>3 DEF With
    <3>5. With(moved, left, m) = With(s, left, m)
      <4> HIDE DEF m, m1, moved
      <4> QED BY <1>1, <3>1 DEF With, Stores
    <3>6. w.node[right] = c
      <4> HIDE DEF m, moved
      <4> QED BY <3>3, <3>4 DEF With, Stores
    <3>7. unchained = [w EXCEPT !.node[right].keys = <<>>]
      <4> HIDE DEF moved, c
      <4> QED OBVIOUS
    <3>8. [w EXCEPT !.node[right].keys = <<>>] = With(w, right, n)
      <4> HIDE DEF w, c
      <4> QED BY <3>6 DEF With
    <3> QED BY <3>4, <3>5, <3>7, <3>8
  <2>2. t = pager_free_page(internal_node_remove_child(MarkAll(unchained, {left, right}),
                                                      p, place), right)
    BY DEF Merge
  <2> QED BY <2>1, <2>2 DEF Dealt
<1> HIDE DEF m, n, cells, d, g, b
<1>8. /\ Settles(s, d) /\ d.node[left] = m /\ d.node[right] = n
      /\ \A q \in Pages \ {left, right} : d.node[q] = s.node[q]
  <2>1. Len(m.keys) <= MAX_CELLS /\ Len(n.keys) <= MAX_CELLS
    BY <1>5, <1>6, Constants
  <2>2. ToSet(m.keys) \cup ToSet(n.keys) = ToSet(a.keys) \cup ToSet(c.keys)
    <3>1. ToSet(<<>>) = {}
      BY DEF ToSet
    <3> QED BY <1>5, <1>6, <3>1
  <2>3. d = Dealt(s, left, m, right, n)
    BY DEF d
  <2> HIDE DEF d
  <2> QED BY <1>2, <1>6, <2>1, <2>2, <2>3, CellsDealt
<1>9. IsTree(d, {}) /\ StoredRows(d) = StoredRows(s) /\ Marks(s, d, {}) /\ d.node[p] = s.node[p]
  <2>1. p \notin {left, right}
    BY <1>3
  <2> QED BY <1>8, <2>1 DEF Settles
<1>10. Drops(d, g, right)
  <2>1. /\ Len(d.node[p].kids) >= 2 /\ place \in 0 .. Len(d.node[p].kids) - 1
        /\ d.node[p].kids[place + 1] = right /\ d.node[right].leaf
    BY <1>4, <1>6, <1>8, <1>9
  <2>2. \A x \in ToSet(d.node[p].kids) : Len(d.node[p].keys) = 1 => d.node[x].leaf
    BY <1>4, <1>6, <1>8, <1>9
  <2>3. g = internal_node_remove_child(d, p, place)
    BY DEF g
  <2> QED BY <1>9, <2>1, <2>2, <2>3, ChildRemoved
<1>11. /\ IsTree(g, L) /\ StoredRows(g) = StoredRows(d) /\ Marks(d, g, {})
       /\ Alike(g.node[right], n) /\ g \in Stores
  BY <1>8, <1>10 DEF Drops, IsTree
<1>12. /\ b \in Stores /\ SameList(g, b) /\ b.node[right] = EmptyLeaf /\ b.dirty = g.dirty
       /\ \A q \in Pages \ {right} : b.node[q] = g.node[q]
  <2>1. b = With(g, right, EmptyLeaf)
    BY DEF b
  <2> QED BY <1>11, <2>1, EmptyLeafIsNode, Written
<1>13. IsTree(b, L) /\ StoredRows(b) = StoredRows(g)
  <2>1. Like(EmptyLeaf, g.node[right])
    <3>1. n.leaf = TRUE /\ n.root = FALSE
      BY <1>6 DEF Node
    <3>2. /\ g.node[right].leaf = TRUE /\ g.node[right].root = FALSE
          /\ g.node[right].kids = <<>> /\ g.node[right].keys = <<>>
      BY <1>6, <1>11, <3>1 DEF Alike
    <3> QED BY <3>2 DEF Like, EmptyLeaf
  <2>2. \A q \in Pages : Like(b.node[q], g.node[q])
    BY <1>12, <2>1 DEF Like
  <2> HIDE DEF L
  <2> QED BY <1>11, <1>12, <2>2, StillTree
<1>14. /\ IsTree(t, {}) /\ StoredRows(t) = StoredRows(b) /\ Marks(b, t, {}) /\ right \in t.dirty
       /\ \A q \in Pages : t.node[q] = b.node[q]
  <2>1. L \ {right} = {} /\ right \in L
    OBVIOUS
  <2>2. b = With(g, right, EmptyLeaf)
    BY DEF b
  <2> HIDE DEF L
  <2>3. /\ IsTree(t, L \ {right}) /\ StoredRows(t) = StoredRows(b) /\ Marks(b, t, {})
        /\ right \in t.dirty /\ \A q \in Pages : t.node[q] = b.node[q]
    BY <1>7, <1>11, <1>13, <2>1, <2>2, PageFreed
  <2> QED BY <2>1, <2>3
<1>15. Marks(s, t, {})
  <2>1. Marks(g, b, {right})
    BY <1>12 DEF Marks, Alike, SameList
  <2>2. Marks(s, g, {} \cup {})
    BY <1>9, <1>11, MarksTogether
  <2>3. Marks(s, b, {} \cup {right})
    BY <2>1, <2>2, MarksTogether
  <2>4. Marks(s, t, {right} \cup {})
    BY <1>14, <2>3, MarksTogether
  <2> QED BY <1>14, <2>4, MarksAll
<1> QED BY <1>9, <1>11, <1>13, <1>14, <1>15 DEF Settles

\* The keys of a node are computed again.
LEMMA KeysSettle ==
  ASSUME NEW s, IsTree(s, {}), NEW q \in Pages, ~s.node[q].leaf, NEW t, t = RecomputeKeys(s, q)
  PROVE  Settles(s, t)
<1> DEFINE L == {}
<1>1. s \in Stores /\ Len(s.node[q].keys) <= Len(s.node[q].kids)
  <2>1. s \in Stores
    BY DEF IsTree
  <2>2. Len(s.node[q].keys) \in Nat /\ Len(s.node[q].kids) = Len(s.node[q].keys) + 1
    BY <2>1, NodeFields DEF IsTree, Shaped, Fits
  <2> QED BY <2>1, <2>2
<1>2. /\ t \in Stores /\ SameList(s, t) /\ t.dirty = s.dirty \cup {q}
      /\ \A p \in Pages : Like(t.node[p], s.node[p])
      /\ \A p \in Pages \ {q} : t.node[p] = s.node[p]
  BY <1>1, KeysRecomputed
<1>3. IsTree(s, L)
  OBVIOUS
<1> HIDE DEF L
<1>4. IsTree(t, L) /\ StoredRows(t) = StoredRows(s)
  BY <1>2, <1>3, StillTree
<1>5. Marks(s, t, {})
  BY <1>2 DEF Marks, Alike, SameList
<1> QED BY <1>4, <1>5 DEF Settles, L

\* One part of a statement after another.
LEMMA SettlesTogether ==
  ASSUME NEW s, NEW t, NEW u, Settles(s, t), Settles(t, u)
  PROVE  Settles(s, u)
<1>1. Marks(s, u, {} \cup {})
  BY MarksTogether DEF Settles
<1> QED BY <1>1 DEF Settles

\* Borrow: a cell moves from one leaf to another one.
LEMMA CellBorrowed ==
  ASSUME NEW s, IsTree(s, {}), NEW p \in Pages, NEW from \in Pages, p # from,
         NEW q \in Pages, q = s.node[p].parent,
         p \in ToSet(s.node[q].kids), from \in ToSet(s.node[q].kids),
         s.node[p].leaf, s.node[from].leaf,
         NEW cells \in Seq(Nat), NEW rest \in Seq(Nat),
         Len(cells) <= MAX_CELLS, Len(rest) <= MAX_CELLS,
         ToSet(cells) \cup ToSet(rest) = ToSet(s.node[p].keys) \cup ToSet(s.node[from].keys),
         NEW t, t = Borrow(s, p, from, cells, rest)
  PROVE  Settles(s, t)
<1> DEFINE a == s.node[p]
           c == s.node[from]
           m == [a EXCEPT !.keys = cells, !.stale = 0]
           n == [c EXCEPT !.keys = rest, !.stale = 0]
           d == Dealt(s, p, m, from, n)
<1>1. s \in Stores /\ a \in Node /\ c \in Node
  <2>1. s \in Stores
    BY DEF IsTree
  <2> QED BY <2>1, NodeFields
<1>2. /\ IsKid(s, p) /\ IsKid(s, from) /\ p # Root /\ from # Root
  <2>1. IsKid(s, p) /\ IsKid(s, from)
    BY DEF IsKid
  <2> QED BY <2>1, Owners
<1>3. /\ a.kids = <<>> /\ c.kids = <<>> /\ ~a.root /\ ~c.root
  BY <1>2 DEF IsTree, Shaped, Fits
<1>4. ~s.node[q].leaf
  <2>1. s.node[q].kids # <<>>
    BY DEF ToSet
  <2> QED BY <2>1 DEF IsTree, Shaped, Fits
<1>5. /\ m \in Node /\ m.leaf /\ ~m.root /\ m.kids = <<>> /\ m.keys = cells
  <2> HIDE DEF a
  <2> QED BY <1>1, <1>3 DEF a, Node
<1>6. /\ n \in Node /\ n.leaf /\ ~n.root /\ n.kids = <<>> /\ n.keys = rest
  <2> HIDE DEF c
  <2> QED BY <1>1, <1>3 DEF c, Node
<1>7. t = RecomputeKeys(d, q)
  <2> DEFINE u == SetCells(s, p, cells)
  <2>1. u = With(s, p, m)
    BY <1>1 DEF SetCells, With, Stores, Node
  <2>2. /\ u \in Stores /\ u.node[from] = c
    <3> HIDE DEF m, u, d
    <3>1. s \in Stores /\ m \in Node /\ u = With(s, p, m)
      BY <1>1, <1>5, <2>1
    <3>2. u \in Stores /\ \A x \in Pages \ {p} : u.node[x] = s.node[x]
      BY ONLY <3>1, Written, p \in Pages
    <3> QED BY <3>2
  <2>3. SetCells(u, from, rest) = With(u, from, n)
    <3> HIDE DEF u, c
    <3> QED BY <1>1, <2>2 DEF SetCells, With, Stores, Node
  <2>4. t = RecomputeKeys(MarkAll(SetCells(u, from, rest), {p, from}), q)
    BY DEF Borrow
  <2> QED BY <2>1, <2>3, <2>4 DEF Dealt
<1> HIDE DEF m, n, d
<1>8. /\ Settles(s, d) /\ \A x \in Pages \ {p, from} : d.node[x] = s.node[x]
  <2>1. Len(m.keys) <= MAX_CELLS /\ Len(n.keys) <= MAX_CELLS
        /\ ToSet(m.keys) \cup ToSet(n.keys) = ToSet(s.node[p].keys) \cup ToSet(s.node[from].keys)
    BY <1>5, <1>6
  <2>2. d = Dealt(s, p, m, from, n)
    BY DEF d
  <2> HIDE DEF d
  <2> QED BY <1>2, <1>5, <1>6, <2>1, <2>2, CellsDealt
<1>9. IsTree(d, {}) /\ ~d.node[q].leaf
  BY <1>4, <1>8 DEF Settles
<1>10. Settles(d, t)
  BY <1>7, <1>9, KeysSettle
<1> QED BY <1>8, <1>10, SettlesTogether

\* rebalance_leaf_after_delete.
LEMMA LeafRebalanced ==
  ASSUME NEW s, IsTree(s, {}), NEW p \in Pages, s.node[p].leaf,
         NEW t, t = rebalance_leaf_after_delete(s, p)
  PROVE  Settles(s, t)
<1> DEFINE n == s.node[p]
           q == n.parent
           kids == s.node[q].kids
           i == internal_node_find_child_index(s, q, p)
           left == kids[i]
           right == kids[i + 2]
           min == leaf_node_min_cells
           hasLeft == i > 0
           hasRight == i < Len(kids) - 1
           few == ~(n.root \/ i < 0) /\ ~(Len(n.keys) >= min)
<1>1. /\ s \in Stores /\ q \in Pages /\ kids \in Seq(Pages) /\ Len(kids) \in Nat
      /\ DOMAIN kids = 1 .. Len(kids) /\ \A x \in Pages : s.node[x].keys \in Seq(Nat)
      /\ \A x \in Pages : Len(s.node[x].keys) \in Nat
  <2>1. s \in Stores
    BY DEF IsTree
  <2>2. /\ q \in Pages /\ \A x \in Pages : s.node[x].keys \in Seq(Nat)
        /\ \A x \in Pages : Len(s.node[x].keys) \in Nat
    BY <2>1, NodeFields
  <2> QED BY <2>1, <2>2, NodeFields
<1>2. Settles(s, s)
  BY DEF Settles, Marks, Alike
<1>3. min \in Nat /\ 2 * min <= MAX_CELLS + 1 /\ min <= MAX_CELLS
  BY Constants DEF leaf_node_min_cells
<1>4. CASE n.root \/ i < 0
  <2>1. t = s
    BY <1>4, Zenon DEF rebalance_leaf_after_delete
  <2> QED BY <1>2, <2>1, Zenon
<1>5. ASSUME ~(n.root \/ i < 0)
      PROVE  /\ p \in ToSet(kids) /\ i \in 0 .. Len(kids) - 1 /\ kids[i + 1] = p
             /\ ~s.node[q].leaf /\ IsInjective(kids)
  <2>1. p \in ToSet(kids)
    <3>1. p \notin ToSet(kids) => i = -1
      BY <1>1, ChildIndex
    <3> HIDE DEF i
    <3> QED BY <1>5, <3>1
  <2>2. i \in 0 .. Len(kids) - 1 /\ kids[i + 1] = p
    BY <1>1, <2>1, ChildIndex
  <2>3. kids # <<>>
    BY <2>1 DEF ToSet
  <2>4. ~s.node[q].leaf /\ IsInjective(kids)
    BY <1>1, <2>3 DEF IsTree, Shaped, Fits, KidsOnce
  <2> QED BY <2>1, <2>2, <2>4
<1>6. ASSUME ~(n.root \/ i < 0), t = RecomputeKeys(s, q)
      PROVE  Settles(s, t)
  <2>1. q \in Pages /\ ~s.node[q].leaf
    BY <1>1, <1>5, <1>6
  <2> HIDE DEF n, q, i, kids
  <2> QED BY <1>6, <2>1, KeysSettle
<1>a. CASE ~(n.root \/ i < 0) /\ Len(n.keys) >= min
  <2>1. t = RecomputeKeys(s, q)
    BY <1>a, Zenon DEF rebalance_leaf_after_delete
  <2> HIDE DEF q, n, i, min
  <2> QED BY <1>6, <1>a, <2>1
<1>7. ASSUME few
      PROVE  t = IF hasLeft /\ ~s.node[left].leaf THEN RecomputeKeys(s, q)
                 ELSE IF hasLeft /\ CanGive(s, left)
                 THEN Borrow(s, p, left, <<Last(s.node[left].keys)>> \o n.keys,
                             Front(s.node[left].keys))
                 ELSE IF hasRight /\ ~s.node[right].leaf THEN RecomputeKeys(s, q)
                 ELSE IF hasRight /\ CanGive(s, right)
                 THEN Borrow(s, p, right, Append(n.keys, Head(s.node[right].keys)),
                             Tail(s.node[right].keys))
                 ELSE IF hasLeft THEN Merge(s, left, p, q, i)
                 ELSE IF hasRight THEN Merge(s, p, right, q, i + 1)
                 ELSE s
  BY <1>7 DEF rebalance_leaf_after_delete
<1>b. n = s.node[p] /\ q = s.node[p].parent /\ kids = s.node[q].kids
  OBVIOUS
<1>c. few => ~(n.root \/ i < 0) /\ ~(Len(n.keys) >= min)
  OBVIOUS
<1> HIDE DEF n, q, kids, i, min, few
<1>8. ASSUME few, hasLeft
      PROVE  left \in Pages /\ left \in ToSet(kids) /\ left # p
  <2>1. i \in 1 .. Len(kids) /\ i + 1 \in 1 .. Len(kids) /\ i # i + 1 /\ kids[i + 1] = p
        /\ IsInjective(kids)
    <3>2. i > 0 /\ i \in 0 .. Len(kids) - 1 /\ kids[i + 1] = p /\ IsInjective(kids)
      BY <1>5, <1>8, <1>c
    <3> QED BY <1>1, <3>2
  <2> QED BY <1>1, <2>1 DEF IsInjective, ToSet
<1>9. ASSUME few, hasRight
      PROVE  right \in Pages /\ right \in ToSet(kids) /\ right # p
  <2>1. i + 2 \in 1 .. Len(kids) /\ i + 1 \in 1 .. Len(kids) /\ i + 2 # i + 1 /\ kids[i + 1] = p
        /\ IsInjective(kids)
    <3>2. i < Len(kids) - 1 /\ i \in 0 .. Len(kids) - 1 /\ kids[i + 1] = p /\ IsInjective(kids)
      BY <1>5, <1>9, <1>c
    <3> QED BY <1>1, <3>2
  <2> QED BY <1>1, <2>1 DEF IsInjective, ToSet
<1>d. ASSUME few
      PROVE  /\ p \in ToSet(kids) /\ i \in 0 .. Len(kids) - 1 /\ kids[i + 1] = p
             /\ hasRight => i + 1 \in 0 .. Len(kids) - 1 /\ kids[(i + 1) + 1] = right
  <2>1. p \in ToSet(kids) /\ i \in 0 .. Len(kids) - 1 /\ kids[i + 1] = p
    BY <1>5, <1>c, <1>d
  <2>2. hasRight => i + 1 \in 0 .. Len(kids) - 1 /\ (i + 1) + 1 = i + 2
    BY <1>1, <2>1
  <2> QED BY <2>1, <2>2
<1> HIDE DEF left, right, hasLeft, hasRight
<1>e. ASSUME few, t = RecomputeKeys(s, q)
      PROVE  Settles(s, t)
  BY <1>6, <1>c, <1>e
<1>10. ASSUME NEW x \in Pages, few, ~CanGive(s, x)
       PROVE  Len(n.keys) + Len(s.node[x].keys) <= MAX_CELLS
              /\ Len(s.node[x].keys) + Len(n.keys) <= MAX_CELLS
  <2> DEFINE a == Len(n.keys)
             b == Len(s.node[x].keys)
  <2>1. a \in Nat /\ b \in Nat /\ ~(a >= min) /\ ~(b > min)
    BY <1>1, <1>10, <1>b, <1>c DEF CanGive, min
  <2>2. MAX_CELLS \in Nat
    BY Constants
  <2> HIDE DEF a, b
  <2>3. a + b <= MAX_CELLS /\ b + a <= MAX_CELLS
    BY <1>3, <2>1, <2>2
  <2> QED BY <2>3 DEF a, b
<1>11. ASSUME NEW x \in Pages, few, CanGive(s, x), s.node[x].leaf
       PROVE  /\ s.node[x].keys # <<>> /\ Len(s.node[x].keys) <= MAX_CELLS
              /\ Len(n.keys) + 1 <= MAX_CELLS
  <2> DEFINE a == Len(n.keys)
             b == Len(s.node[x].keys)
  <2>1. a \in Nat /\ b \in Nat /\ ~(a >= min) /\ b > min
    BY <1>1, <1>11, <1>b, <1>c DEF CanGive, min
  <2>2. b <= MAX_CELLS
    BY <1>11 DEF IsTree, Shaped, Fits
  <2>3. MAX_CELLS \in Nat
    BY Constants
  <2>4. b # 0 /\ b <= MAX_CELLS /\ a + 1 <= MAX_CELLS
    <3> HIDE DEF a, b
    <3> QED BY <1>3, <2>1, <2>2, <2>3
  <2> QED BY <2>4
<1>12. CASE few /\ ((hasLeft /\ ~s.node[left].leaf)
                    \/ (~(hasLeft /\ CanGive(s, left)) /\ hasRight /\ ~s.node[right].leaf))
  <2>1. t = RecomputeKeys(s, q)
    BY <1>7, <1>12
  <2> QED BY <1>12, <1>e, <2>1
<1>13. CASE few /\ hasLeft /\ s.node[left].leaf /\ CanGive(s, left)
  <2> DEFINE N == Nat
             x == s.node[left].keys
             y == n.keys
             last == <<Last(x)>>
             cells == last \o y
             rest == Front(x)
  <2>1. t = Borrow(s, p, left, cells, rest)
    <3> HIDE DEF cells, rest
    <3>1. t = Borrow(s, p, left, <<Last(s.node[left].keys)>> \o n.keys,
                     Front(s.node[left].keys))
      BY <1>7, <1>13, Zenon
    <3> QED BY <3>1, Zenon DEF cells, rest
  <2>2. left \in Pages /\ left \in ToSet(kids) /\ left # p /\ p \in ToSet(kids)
    BY <1>8, <1>13, <1>d
  <2>3. x \in Seq(N) /\ y \in Seq(N) /\ x # <<>> /\ Len(x) <= MAX_CELLS /\ Len(y) + 1 <= MAX_CELLS
    <3>1. x \in Seq(N) /\ y \in Seq(N)
      BY <1>1, <1>b, <2>2
    <3>2. x # <<>> /\ Len(x) <= MAX_CELLS /\ Len(y) + 1 <= MAX_CELLS
      BY <1>11, <1>13, <2>2
    <3> QED BY <3>1, <3>2
  <2> HIDE DEF N, x, y
  <2>4. /\ rest \in Seq(N) /\ Len(rest) = Len(x) - 1 /\ Last(x) \in N
        /\ ToSet(x) = ToSet(rest) \cup {Last(x)}
    BY <2>3, Ends
  <2>5. last \in Seq(N) /\ Len(last) = 1 /\ ToSet(last) = {Last(x)}
    BY <2>4 DEF ToSet
  <2> HIDE DEF last, rest
  <2>6. cells \in Seq(N) /\ Len(cells) = 1 + Len(y) /\ ToSet(cells) = ToSet(last) \cup ToSet(y)
    <3>1. last \in Seq(N) /\ y \in Seq(N)
      BY <2>3, <2>5
    <3>2. /\ last \o y \in Seq(N) /\ Len(last \o y) = Len(last) + Len(y)
          /\ ToSet(last \o y) = ToSet(last) \cup ToSet(y)
      BY <3>1, Joined
    <3> QED BY <2>5, <3>2
  <2> HIDE DEF cells
  <2>7. /\ cells \in Seq(Nat) /\ rest \in Seq(Nat) /\ Len(x) \in Nat /\ Len(y) \in Nat
    BY <2>3, <2>4, <2>6 DEF N
  <2>8. Len(cells) <= MAX_CELLS /\ Len(rest) <= MAX_CELLS
    <3>1. MAX_CELLS \in Nat
      BY Constants
    <3> QED BY <2>3, <2>4, <2>6, <2>7, <3>1
  <2>9. ToSet(cells) \cup ToSet(rest) = ToSet(s.node[p].keys) \cup ToSet(s.node[left].keys)
    BY <1>b, <2>4, <2>5, <2>6 DEF x, y
  <2>10. q \in Pages /\ q = s.node[p].parent /\ s.node[left].leaf
         /\ p \in ToSet(s.node[q].kids) /\ left \in ToSet(s.node[q].kids)
    BY <1>1, <1>13, <1>b, <2>2
  <2> QED BY <2>1, <2>2, <2>7, <2>8, <2>9, <2>10, CellBorrowed
<1>14. CASE few /\ ~(hasLeft /\ ~s.node[left].leaf) /\ ~(hasLeft /\ CanGive(s, left))
            /\ hasRight /\ s.node[right].leaf /\ CanGive(s, right)
  <2> DEFINE N == Nat
             x == s.node[right].keys
             y == n.keys
             cells == Append(y, Head(x))
             rest == Tail(x)
  <2>1. t = Borrow(s, p, right, cells, rest)
    <3> HIDE DEF cells, rest
    <3>1. t = Borrow(s, p, right, Append(n.keys, Head(s.node[right].keys)),
                     Tail(s.node[right].keys))
      BY <1>7, <1>14, Zenon
    <3> QED BY <3>1, Zenon DEF cells, rest
  <2>2. right \in Pages /\ right \in ToSet(kids) /\ right # p /\ p \in ToSet(kids)
    BY <1>9, <1>14, <1>d
  <2>3. x \in Seq(N) /\ y \in Seq(N) /\ x # <<>> /\ Len(x) <= MAX_CELLS /\ Len(y) + 1 <= MAX_CELLS
    <3>1. x \in Seq(N) /\ y \in Seq(N)
      BY <1>1, <1>b, <2>2
    <3>2. x # <<>> /\ Len(x) <= MAX_CELLS /\ Len(y) + 1 <= MAX_CELLS
      BY <1>11, <1>14, <2>2
    <3> QED BY <3>1, <3>2
  <2> HIDE DEF N, x, y
  <2>4. /\ rest \in Seq(N) /\ Len(rest) = Len(x) - 1 /\ Head(x) \in N
        /\ ToSet(x) = ToSet(rest) \cup {Head(x)}
    BY <2>3, Ends
  <2> HIDE DEF rest
  <2>5. cells \in Seq(N) /\ Len(cells) = Len(y) + 1 /\ ToSet(cells) = ToSet(y) \cup {Head(x)}
    BY <2>3, <2>4, Appended
  <2> HIDE DEF cells
  <2>6. /\ cells \in Seq(Nat) /\ rest \in Seq(Nat) /\ Len(x) \in Nat /\ Len(y) \in Nat
    BY <2>3, <2>4, <2>5 DEF N
  <2>7. Len(cells) <= MAX_CELLS /\ Len(rest) <= MAX_CELLS
    <3>1. MAX_CELLS \in Nat
      BY Constants
    <3> QED BY <2>3, <2>4, <2>5, <2>6, <3>1
  <2>8. ToSet(cells) \cup ToSet(rest) = ToSet(s.node[p].keys) \cup ToSet(s.node[right].keys)
    <3>1. ToSet(cells) \cup ToSet(rest) = ToSet(y) \cup ToSet(x)
      BY <2>4, <2>5
    <3> QED BY <1>b, <3>1 DEF x, y
  <2>9. q \in Pages /\ q = s.node[p].parent /\ s.node[right].leaf
        /\ p \in ToSet(s.node[q].kids) /\ right \in ToSet(s.node[q].kids)
    BY <1>1, <1>14, <1>b, <2>2
  <2> QED BY <2>1, <2>2, <2>6, <2>7, <2>8, <2>9, CellBorrowed
<1>15. CASE few /\ hasLeft /\ s.node[left].leaf /\ ~CanGive(s, left)
            /\ ~(hasRight /\ ~s.node[right].leaf) /\ ~(hasRight /\ CanGive(s, right))
  <2>1. t = Merge(s, left, p, q, i)
    BY <1>7, <1>15
  <2>2. left \in Pages /\ left \in ToSet(kids) /\ left # p
        /\ i \in 0 .. Len(kids) - 1 /\ kids[i + 1] = p
    BY <1>8, <1>15, <1>d
  <2>3. Len(s.node[left].keys) + Len(s.node[p].keys) <= MAX_CELLS
    BY <1>10, <1>15, <1>b, <2>2
  <2>4. q \in Pages /\ left \in ToSet(s.node[q].kids) /\ i \in 0 .. Len(s.node[q].kids) - 1
        /\ s.node[q].kids[i + 1] = p
    BY <1>1, <1>b, <2>2
  <2> QED BY <1>15, <2>1, <2>2, <2>3, <2>4, LeavesMerged
<1>16. CASE few /\ ~hasLeft /\ hasRight /\ s.node[right].leaf /\ ~CanGive(s, right)
  <2> DEFINE j == i + 1
  <2>1. t = Merge(s, p, right, q, j)
    BY <1>7, <1>16
  <2>2. right \in Pages /\ right # p /\ p \in ToSet(kids)
        /\ j \in 0 .. Len(kids) - 1 /\ kids[j + 1] = right
    BY <1>9, <1>16, <1>d
  <2>3. Len(s.node[p].keys) + Len(s.node[right].keys) <= MAX_CELLS
    BY <1>10, <1>16, <1>b, <2>2
  <2> HIDE DEF j
  <2>4. q \in Pages /\ p \in ToSet(s.node[q].kids) /\ j \in 0 .. Len(s.node[q].kids) - 1
        /\ s.node[q].kids[j + 1] = right
    BY <1>1, <1>b, <2>2
  <2> QED BY <1>16, <2>1, <2>2, <2>3, <2>4, LeavesMerged
<1>17. CASE few /\ ~hasLeft /\ ~hasRight
  <2>1. t = s
    BY <1>7, <1>17
  <2> QED BY <1>2, <2>1, Zenon
<1>18. (n.root \/ i < 0) \/ (~(n.root \/ i < 0) /\ Len(n.keys) >= min) \/ few
  BY DEF few
<1> QED BY <1>4, <1>a, <1>12, <1>13, <1>14, <1>15, <1>16, <1>17, <1>18

\* t is a tree without loose pages that has the rows of s, but perhaps not the key.
Loses(s, t, key) ==
  /\ IsTree(t, {}) /\ Marks(s, t, {})
  /\ StoredRows(s) \ {key} \subseteq StoredRows(t) /\ StoredRows(t) \subseteq StoredRows(s)

\* leaf_node_delete.
LEMMA RowDeleted ==
  ASSUME NEW s, IsTree(s, {}), NEW p \in Pages, s.node[p].leaf, p = Root \/ IsKid(s, p),
         NEW key \in Nat, leaf_node_find(s.node[p], key) < Len(s.node[p].keys),
         s.node[p].keys[leaf_node_find(s.node[p], key) + 1] = key,
         NEW t, t = leaf_node_delete(s, p, key)
  PROVE  Loses(s, t, key)
<1> DEFINE n == s.node[p]
           i == leaf_node_find(n, key) + 1
           cells == RemoveAt(n.keys, i)
           m == [n EXCEPT !.keys = cells, !.stale = IF cells = <<>> THEN key ELSE 0]
           r == With(s, p, m)
           k == Mark(r, p)
<1>1. /\ s \in Stores /\ n \in Node /\ n.keys \in Seq(Nat) /\ Len(n.keys) \in Nat
      /\ Len(n.keys) <= MAX_CELLS /\ n.kids = <<>> /\ (n.root <=> p = Root)
  <2>1. s \in Stores
    BY DEF IsTree
  <2> QED BY <2>1, NodeFields DEF IsTree, Shaped, Fits
<1>2. i \in 1 .. Len(n.keys) /\ n.keys[i] = key
  <2>1. leaf_node_find(n, key) \in 0 .. Len(n.keys)
    BY <1>1, CellPlaceInRange
  <2> QED BY <1>1, <2>1
<1>3. t = rebalance_leaf_after_delete(k, p)
  <2>1. r = [s EXCEPT !.node[p].keys = cells, !.node[p].stale = IF cells = <<>> THEN key ELSE 0]
    <3> HIDE DEF cells
    <3> QED BY <1>1 DEF With, Stores, Node
  <2> QED BY <2>1 DEF leaf_node_delete
<1> HIDE DEF i
<1>4. /\ cells \in Seq(Nat) /\ Len(cells) = Len(n.keys) - 1
      /\ ToSet(n.keys) = ToSet(cells) \cup {key}
  <2> DEFINE N == Nat
             keys == n.keys
  <2>1. keys \in Seq(N) /\ i \in 1 .. Len(keys)
    BY <1>1, <1>2
  <2> HIDE DEF n, N, keys
  <2>2. /\ RemoveAt(keys, i) \in Seq(N) /\ Len(RemoveAt(keys, i)) = Len(keys) - 1
        /\ ToSet(keys) = ToSet(RemoveAt(keys, i)) \cup {keys[i]}
    BY <2>1, Removed
  <2> QED BY <1>2, <2>2 DEF N, keys
<1> HIDE DEF cells
<1>5. /\ m \in Node /\ m.leaf /\ m.root = n.root /\ m.kids = <<>> /\ m.keys = cells
  BY <1>1, <1>4 DEF Node
<1>6. r = With(s, p, m) /\ k = Mark(r, p)
  OBVIOUS
<1> HIDE DEF m, r, k
<1>7. /\ r \in Stores /\ SameList(s, r) /\ r.dirty = s.dirty
      /\ r.node[p] = m /\ \A q \in Pages \ {p} : r.node[q] = s.node[q]
  <2>1. s \in Stores /\ m \in Node /\ r = With(s, p, m)
    BY <1>1, <1>5, <1>6
  <2> QED BY <2>1, Written
<1>8. /\ k \in Stores /\ SameList(s, k) /\ k.dirty = s.dirty \cup {p}
      /\ k.node[p] = m /\ \A q \in Pages \ {p} : k.node[q] = s.node[q]
  <2>1. k \in Stores /\ SameList(r, k) /\ k.dirty = r.dirty \cup {p} /\ k.node = r.node
    BY <1>6, <1>7, MarkedOne
  <2> QED BY <1>7, <2>1 DEF SameList
<1>9. \A q \in Pages : k.node[q].kids = s.node[q].kids
  BY <1>1, <1>5, <1>8
<1>10. IsTree(k, {})
  <2> DEFINE L == {}
  <2>1. \A q \in Pages : IsKid(k, q) <=> IsKid(s, q)
    BY <1>9 DEF IsKid
  <2>2. KidsOnce(k)
    BY <1>9 DEF IsTree, KidsOnce
  <2>3. Shaped(k)
    <3> SUFFICES ASSUME NEW q \in Pages
                 PROVE  Fits(k.node[q]) /\ (k.node[q].root <=> q = Root)
      BY DEF Shaped
    <3>1. CASE q = p
      <4>1. Len(cells) <= MAX_CELLS
        <5>1. Len(n.keys) \in Nat /\ Len(n.keys) <= MAX_CELLS /\ Len(cells) = Len(n.keys) - 1
          BY <1>1, <1>4
        <5>2. MAX_CELLS \in Nat
          BY Constants
        <5> HIDE DEF n
        <5> QED BY <5>1, <5>2
      <4> QED BY <1>1, <1>5, <1>8, <3>1, <4>1 DEF Fits
    <3>2. CASE q # p
      BY <1>8, <3>2 DEF IsTree, Shaped
    <3> QED BY <3>1, <3>2
  <2>4. \A q \in Pages : q = Root \/ IsKid(s, q) \/ q \in L \/ Like(k.node[q], s.node[q])
    BY <1>8 DEF Like
  <2>5. IsTree(s, L) /\ \A q \in Pages : ~(IsKid(k, q) /\ q \in L)
    OBVIOUS
  <2> HIDE DEF L
  <2>6. IsTree(k, L)
    BY <1>8, <2>1, <2>2, <2>3, <2>4, <2>5, Rearranged
  <2> QED BY <2>6 DEF L
<1>11. StoredRows(s) \ {key} \subseteq StoredRows(k) /\ StoredRows(k) \subseteq StoredRows(s)
  <2>1. LeafKeys(s, p) = LeafKeys(k, p) \cup {key}
    BY <1>4, <1>5, <1>8 DEF LeafKeys
  <2>2. \A q \in Pages \ {p} : LeafKeys(k, q) = LeafKeys(s, q)
    BY <1>8 DEF LeafKeys
  <2> QED BY <2>1, <2>2 DEF StoredRows
<1>12. Marks(s, k, {})
  BY <1>8 DEF Marks, Alike, SameList
<1>13. Settles(k, t)
  <2>1. k.node[p].leaf
    BY <1>5, <1>8
  <2> QED BY <1>3, <1>10, <2>1, LeafRebalanced
<1>14. Marks(s, t, {} \cup {})
  BY <1>12, <1>13, MarksTogether DEF Settles
<1> QED BY <1>11, <1>13, <1>14 DEF Loses, Settles

-----------------------------------------------------------------------------
(* Statements and the process. *)

\* What the invariant says of the pages that are committed.
LEMMA CommitsAlike ==
  ASSUME NEW s \in Stores, NEW t \in Stores
  PROVE  (\A p \in Pages : WithoutParent(t.node[p]) = WithoutParent(s.node[p]))
           <=> \A p \in Pages : Alike(t.node[p], s.node[p])
<1>1. ASSUME NEW m \in Node, NEW n \in Node
      PROVE  WithoutParent(m) = WithoutParent(n) <=> Alike(m, n)
  <2> DEFINE Bare(x) == [leaf |-> x.leaf, root |-> x.root, parent |-> 0, keys |-> x.keys,
                         kids |-> x.kids, next |-> x.next, stale |-> x.stale]
  <2>1. ASSUME NEW x \in Node
        PROVE  WithoutParent(x) = Bare(x)
    <3>1. PICK leaf \in BOOLEAN, root \in BOOLEAN, parent \in Pages, keys \in Seq(Nat),
               kids \in Seq(Pages), next \in Pages, stale \in Nat :
               x = [leaf |-> leaf, root |-> root, parent |-> parent, keys |-> keys,
                    kids |-> kids, next |-> next, stale |-> stale]
      BY <2>1 DEF Node
    <3> QED BY <3>1 DEF WithoutParent
  <2>2. Bare(m) = Bare(n) <=> Alike(m, n)
    BY DEF Alike
  <2> QED BY <2>1, <2>2
<1>2. \A p \in Pages : s.node[p] \in Node /\ t.node[p] \in Node
  BY NodeFields
<1> QED BY <1>1, <1>2

\* The parts of a store that are no nodes.
SameRest(s, t) == SameList(s, t) /\ t.dirty = s.dirty

\* What CommitsItsChanges says.
LEMMA CommitsItsChangesMeans ==
  ASSUME store \in Stores, disk \in Stores
  PROVE  CommitsItsChanges <=>
           SameRest(store, disk) /\ \A p \in Pages : Alike(disk.node[p], store.node[p])
<1>1. DOMAIN store = {"node", "link", "free_page_head", "num_pages", "dirty"}
  BY DEF Stores
<1>2. (\A f \in DOMAIN store \ {"node"} : disk[f] = store[f]) <=> SameRest(store, disk)
  BY <1>1 DEF SameRest, SameList
<1> QED BY <1>2, CommitsAlike DEF CommitsItsChanges

\* The same of the next state.
LEMMA CommitsItsChangesNext ==
  ASSUME store' \in Stores, disk' \in Stores
  PROVE  CommitsItsChanges' <=>
           SameRest(store', disk') /\ \A p \in Pages : Alike(disk'.node[p], store'.node[p])
<1>1. DOMAIN store' = {"node", "link", "free_page_head", "num_pages", "dirty"}
  BY DEF Stores
<1>2. (\A f \in DOMAIN store' \ {"node"} : disk'[f] = store'[f]) <=> SameRest(store', disk')
  BY <1>1 DEF SameRest, SameList
<1> QED BY <1>2, CommitsAlike DEF CommitsItsChanges

\* What the process has, and what is committed, when a statement has ended.
LEMMA StatementCommitted ==
  ASSUME IInv, NEW s, IsTree(s, {}), Marks(store, s, {}), Becomes(s), bounds' = bounds
  PROVE  IInv' /\ StoredRows(store') = StoredRows(s)
<1>1. /\ store \in Stores /\ disk \in Stores /\ s \in Stores /\ store.dirty = {}
      /\ SameRest(store, disk) /\ \A p \in Pages : Alike(disk.node[p], store.node[p])
  BY CommitsItsChangesMeans DEF IInv, IsTree
<1>2. store' = Undirtied(s) /\ disk' = Committed(s)
  BY DEF Becomes
<1>3. /\ store' \in Stores /\ SameList(s, store') /\ store'.dirty = {}
      /\ \A p \in Pages : store'.node[p] = s.node[p]
  BY <1>1, <1>2 DEF Undirtied, Stores, SameList
<1>4. /\ disk' \in Stores /\ disk'.num_pages = s.num_pages /\ disk'.dirty = {}
      /\ disk'.free_page_head = (IF 0 \in s.dirty THEN s.free_page_head ELSE disk.free_page_head)
      /\ disk'.link = [p \in Pages |-> IF p \in s.dirty THEN s.link[p] ELSE disk.link[p]]
      /\ \A p \in Pages : disk'.node[p] = IF p \in s.dirty THEN s.node[p] ELSE disk.node[p]
  BY <1>1, <1>2 DEF Committed, Stores
<1>5. \A p \in Pages : Alike(disk'.node[p], store'.node[p])
  BY <1>1, <1>3, <1>4 DEF Marks, Alike
<1>6. SameRest(store', disk')
  <2>1. disk'.link = s.link
    <3>1. \A p \in Pages : disk'.link[p] = s.link[p]
      BY <1>1, <1>4 DEF Marks, SameRest, SameList
    <3> QED BY <1>1, <1>4, <3>1 DEF Stores
  <2>2. disk'.free_page_head = s.free_page_head
    BY <1>1, <1>4 DEF Marks, SameRest, SameList
  <2> QED BY <1>3, <1>4, <2>1, <2>2 DEF SameRest, SameList
<1>7. CommitsItsChanges'
  BY <1>3, <1>4, <1>5, <1>6, CommitsItsChangesNext
<1>8. IsTree(store', {}) /\ StoredRows(store') = StoredRows(s)
  <2> DEFINE L == {}
             u == store'
  <2>1. IsTree(s, L) /\ u \in Stores /\ SameList(s, u) /\ \A p \in Pages : Like(u.node[p], s.node[p])
    BY <1>3 DEF Like
  <2> HIDE DEF L, u
  <2>2. IsTree(u, L) /\ StoredRows(u) = StoredRows(s)
    BY <2>1, StillTree
  <2> QED BY <2>2 DEF L, u
<1> QED BY <1>3, <1>4, <1>7, <1>8 DEF IInv

\* The next process has the same tree.
LEMMA NextProcess ==
  ASSUME IInv, ProcessEnds, bounds' = bounds
  PROVE  IInv' /\ StoredRows(store') = StoredRows(store)
<1>1. /\ store \in Stores /\ disk \in Stores /\ store.dirty = {}
      /\ SameRest(store, disk) /\ \A p \in Pages : Alike(disk.node[p], store.node[p])
  BY CommitsItsChangesMeans DEF IInv, IsTree
<1>2. store' = disk /\ disk' = disk
  BY DEF ProcessEnds
<1>3. IsTree(disk, {}) /\ StoredRows(disk) = StoredRows(store)
  <2> DEFINE L == {}
  <2>1. IsTree(store, L) /\ \A p \in Pages : Like(disk.node[p], store.node[p])
    BY <1>1, AlikeIsLike DEF IInv
  <2> HIDE DEF L
  <2>2. IsTree(disk, L) /\ StoredRows(disk) = StoredRows(store)
    BY <1>1, <2>1, StillTree DEF SameRest
  <2> QED BY <2>2 DEF L
<1>4. CommitsItsChanges'
  BY <1>1, <1>2, CommitsItsChangesNext DEF SameRest, SameList, Alike
<1> QED BY <1>1, <1>2, <1>3, <1>4 DEF IInv, SameRest

-----------------------------------------------------------------------------
(* The invariant. *)

\* A new table is a tree.
LEMMA NewTree == IsTree(NewStore, {})
<1> DEFINE s == NewStore
           L == {}
           top == [EmptyLeaf EXCEPT !.root = TRUE]
<1>1. top \in Node /\ Fits(top) /\ top.root /\ top.kids = <<>>
  <2>1. /\ EmptyLeaf \in Node /\ EmptyLeaf.leaf /\ EmptyLeaf.kids = <<>> /\ EmptyLeaf.keys = <<>>
    BY EmptyLeafIsNode DEF IsBlank
  <2>2. top \in Node /\ top.leaf /\ top.root /\ top.kids = <<>> /\ top.keys = <<>>
    BY <2>1 DEF Node
  <2> HIDE DEF top
  <2> QED BY <2>2, Constants DEF Fits
<1> HIDE DEF top
<1>2. /\ s.node = [p \in Pages |-> IF p = Root THEN top ELSE EmptyLeaf]
      /\ s.link = [p \in Pages |-> 0] /\ s.free_page_head = 0 /\ s.num_pages = Root + 1
      /\ s.dirty = {} /\ s = [node |-> s.node, free_page_head |-> 0, link |-> s.link,
                              num_pages |-> Root + 1, dirty |-> {}]
  BY DEF NewStore, top
<1> HIDE DEF s
<1>3. /\ s.node \in [Pages -> Node] /\ s.link \in [Pages -> Pages]
      /\ s.num_pages \in Root + 1 .. TABLE_MAX_PAGES /\ Root \in Pages /\ 0 \in Pages
      /\ Root + 1 \in Nat
  BY <1>1, <1>2, EmptyLeafIsNode, Constants
<1>4. s \in Stores
  BY <1>2, <1>3 DEF Stores
<1>5. \A p \in Pages : s.node[p].kids = <<>> /\ s.link[p] = 0
                       /\ s.node[p] = IF p = Root THEN top ELSE EmptyLeaf
  BY <1>1, <1>2, EmptyLeafIsNode DEF IsBlank
<1>6. \A p \in Pages : ~IsKid(s, p) /\ ~IsFree(s, p) /\ ToSet(s.node[p].kids) = {}
  <2>1. ToSet(<<>>) = {}
    BY DEF ToSet
  <2> QED BY <1>2, <1>5, <2>1 DEF IsKid, IsFree
<1>7. Shaped(s) /\ KidsOnce(s)
  <2>1. \A p \in Pages : Fits(s.node[p]) /\ (s.node[p].root <=> p = Root)
    BY <1>1, <1>5, EmptyLeafIsNode
  <2>2. IsInjective(<<>>)
    BY DEF IsInjective
  <2> QED BY <1>5, <1>6, <2>1, <2>2 DEF Shaped, KidsOnce
<1>8. ListOnce(s) /\ OneOwner(s, L)
  BY <1>2, <1>5, <1>6, Constants DEF ListOnce, OneOwner
<1>9. UnusedBlank(s)
  <2>1. \A p \in Pages : IsFree(s, p) \/ p < Root \/ p >= s.num_pages => p # Root
    BY <1>2, <1>6, Constants
  <2> QED BY <1>5, <2>1, EmptyLeafIsNode DEF UnusedBlank
<1>10. IsTree(s, L)
  BY <1>3, <1>4, <1>7, <1>8, <1>9 DEF IsTree
<1> QED BY <1>10 DEF s, L

\* A tree that has only grown has internal nodes as parents.
LEMMA GrownHasParents ==
  ASSUME NEW s, IsTree(s, {}), AllGrown(s, {})
  PROVE  HasParents(s)
<1> SUFFICES ASSUME NEW p \in Pages, NEW c \in ToSet(s.node[p].kids)
             PROVE  ~s.node[s.node[c].parent].leaf
  BY DEF HasParents
<1>1. s \in Stores /\ s.num_pages \in Nat
  BY DEF IsTree, Stores
<1>2. c \in Pages /\ IsKid(s, c)
  <2>1. s.node[p].kids \in Seq(Pages)
    BY <1>1, NodeFields
  <2>2. c \in Pages
    BY <2>1 DEF ToSet
  <2> QED BY <2>2 DEF IsKid
<1>3. c \in Root + 1 .. s.num_pages - 1
  BY <1>2, Owners
<1>4. c > Root /\ c < s.num_pages
  BY <1>1, <1>3, Constants
<1> QED BY <1>2, <1>4 DEF AllGrown

\* Every table starts as a tree that has only grown.
LEMMA InitIsTree == Init => IInv /\ AllGrown(store, {}) /\ AllGrown(disk, {})
<1> SUFFICES ASSUME Init
             PROVE  IInv /\ AllGrown(store, {}) /\ AllGrown(disk, {})
  OBVIOUS
<1> DEFINE n == Len(bounds.rows)
           Insert_(s, key) ==
             LET t == leaf_node_insert(s, table_find(s, key), key)
             IN IF t.num_pages > TABLE_MAX_PAGES THEN s ELSE t
           grown[i \in 0 .. n] == IF i = 0 THEN NewStore ELSE Insert_(grown[i - 1], bounds.rows[i])
           A == {s \in Stores : IsTree(s, {}) /\ AllGrown(s, {})}
           step == [i \in 1 .. n |-> [s \in A |-> Insert_(s, bounds.rows[i])]]
<1>1. /\ bounds \in Scopes /\ n \in Nat
      /\ \A i \in 1 .. n : bounds.rows[i] \in Nat
  <2>1. bounds \in Scopes
    BY DEF Init
  <2>2. bounds.rows \in Seq(Nat \ {0})
    BY <2>1, BTreeAssumption
  <2> QED BY <2>1, <2>2
<1>2. store = Undirtied(grown[n]) /\ disk = store
  BY Zenon DEF Init
<1>3. NewStore \in A
  <2>1. IsTree(NewStore, {}) /\ NewStore \in Stores
    BY NewTree DEF IsTree
  <2>2. NewStore.free_page_head = 0 /\ NewStore.num_pages = Root + 1
    BY DEF NewStore
  <2>3. AllGrown(NewStore, {})
    BY <2>2, Constants DEF AllGrown, Pages
  <2> QED BY <2>1, <2>3
<1>4. ASSUME NEW s \in A, NEW key \in Nat
      PROVE  Insert_(s, key) \in A
  <2> DEFINE p == table_find(s, key)
             t == leaf_node_insert(s, p, key)
  <2>1. IsTree(s, {}) /\ AllGrown(s, {})
    OBVIOUS
  <2>2. p \in Pages /\ s.node[p].leaf /\ (p = Root \/ IsKid(s, p))
    <3> DEFINE L == {}
    <3>1. IsTree(s, L)
      BY <2>1
    <3> HIDE DEF L
    <3> QED BY <3>1, DescentEnds
  <2>3. t = leaf_node_insert(s, p, key)
    OBVIOUS
  <2>4. Insert_(s, key) = IF t.num_pages > TABLE_MAX_PAGES THEN s ELSE t
    OBVIOUS
  <2> HIDE DEF p, t, Insert_
  <2>5. HasParents(s)
    BY <2>1, GrownHasParents
  <2>6. Gains(s, t, key)
    BY <2>1, <2>2, <2>3, <2>5, RowInserted
  <2>7. t.num_pages > TABLE_MAX_PAGES \/ (t \in Stores /\ IsTree(t, {}) /\ AllGrown(t, {}))
    BY <2>1, <2>6 DEF Gains, KeepsParents
  <2> QED BY <2>4, <2>7
<1> HIDE DEF A, Insert_
<1>5. AreSteps(step, n, A)
  BY <1>1, <1>4 DEF AreSteps
<1>6. PICK f : Iterates(f, NewStore, step, n, A)
  <2> HIDE DEF step, n
  <2> QED BY <1>1, <1>3, <1>5, Iteration
<1> HIDE DEF n
<1>7. \A i \in 1 .. n : /\ i - 1 \in 0 .. n /\ f[i - 1] \in A
                         /\ f[i] = Insert_(f[i - 1], bounds.rows[i])
  <2> SUFFICES ASSUME NEW i \in 1 .. n
               PROVE  /\ i - 1 \in 0 .. n /\ f[i - 1] \in A
                      /\ f[i] = Insert_(f[i - 1], bounds.rows[i])
    OBVIOUS
  <2>1. i - 1 \in 0 .. n /\ f[i] = step[i][f[i - 1]]
    BY <1>1, <1>6 DEF Iterates
  <2>2. f[i - 1] \in A
    BY <2>1, <1>6 DEF Iterates
  <2> QED BY <2>1, <2>2
<1>8. f = [i \in 0 .. n |-> IF i = 0 THEN NewStore ELSE Insert_(f[i - 1], bounds.rows[i])]
  BY <1>1, <1>6, <1>7 DEF Iterates
<1>9. grown = [i \in 0 .. n |-> IF i = 0 THEN NewStore ELSE Insert_(grown[i - 1], bounds.rows[i])]
  BY <1>8, Zenon
<1> HIDE DEF grown, step, n
<1>10. \A i \in 0 .. n : grown[i] \in A
  <2> DEFINE T == {i \in 0 .. n : grown[i] \in A}
  <2>1. 0 \in T
    <3>1. grown[0] = NewStore
      BY <1>1, <1>9
    <3> QED BY <1>1, <1>3, <3>1
  <2>2. ASSUME NEW k \in 0 .. n - 1, k \in T
        PROVE  k + 1 \in T
    <3>1. k + 1 \in 0 .. n /\ k + 1 \in 1 .. n /\ k + 1 # 0 /\ (k + 1) - 1 = k
      BY <1>1
    <3>2. grown[k + 1] = Insert_(grown[k], bounds.rows[k + 1])
      BY <1>9, <3>1
    <3> QED BY <1>1, <1>4, <2>2, <3>1, <3>2
  <2> HIDE DEF T
  <2>3. \A k \in 0 .. n : k \in T
    BY <1>1, <2>1, <2>2, UpTo
  <2> QED BY <2>3 DEF T
<1> DEFINE s == grown[n]
<1>11. s \in Stores /\ IsTree(s, {}) /\ AllGrown(s, {})
  BY <1>1, <1>10 DEF A
<1>12. store = Undirtied(s)
  BY <1>2
<1> HIDE DEF s
<1>13. /\ store \in Stores /\ SameList(s, store) /\ store.dirty = {} /\ store.node = s.node
  BY <1>11, <1>12 DEF Undirtied, Stores, SameList
<1>14. IsTree(store, {})
  <2> DEFINE L == {}
             u == store
  <2>1. IsTree(s, L) /\ u \in Stores /\ SameList(s, u) /\ \A p \in Pages : Like(u.node[p], s.node[p])
    BY <1>11, <1>13 DEF Like
  <2> HIDE DEF L, u
  <2>2. IsTree(u, L)
    BY <2>1, StillTree
  <2> QED BY <2>2 DEF L, u
<1>15. AllGrown(store, {})
  BY <1>11, <1>13 DEF AllGrown, SameList
<1>16. CommitsItsChanges
  BY <1>2 DEF CommitsItsChanges
<1> QED BY <1>1, <1>2, <1>13, <1>14, <1>15, <1>16 DEF IInv

\* A key that is in the table is at the place that the search of its leaf ends at.
LEMMA KeyFound ==
  ASSUME NEW s, IsTree(s, {}), NEW key \in Nat, NEW p, p = table_find(s, key)
  PROVE  /\ p \in Pages /\ s.node[p].leaf /\ (p = Root \/ IsKid(s, p))
         /\ table_has_key(s, key) => /\ leaf_node_find(s.node[p], key) < Len(s.node[p].keys)
                                     /\ s.node[p].keys[leaf_node_find(s.node[p], key) + 1] = key
<1> DEFINE L == {}
<1>1. IsTree(s, L)
  OBVIOUS
<1> HIDE DEF L
<1>2. p \in Pages /\ s.node[p].leaf /\ (p = Root \/ IsKid(s, p))
  BY <1>1, DescentEnds
<1> QED BY <1>2 DEF table_has_key

\* The invariant is inductive, and no step changes a row that it does not name.
LEMMA InvariantKept ==
  ASSUME IInv, ParentsInternal, [Next]_vars
  PROVE  IInv' /\ (KeepsRows \/ UNCHANGED vars)
<1>1. IsTree(store, {}) /\ bounds \in Scopes /\ HasParents(store)
  BY DEF IInv, ParentsInternal, HasParents
<1>2. bounds.inserts \subseteq Nat /\ bounds.deletes \subseteq Nat
  BY <1>1, BTreeAssumption
<1>3. ASSUME UNCHANGED <<store, disk, bounds>>
      PROVE  IInv' /\ KeepsRows
  <2>1. IInv'
    BY <1>3 DEF IInv, CommitsItsChanges
  <2>2. StoredRows(store') = StoredRows(store)
    BY <1>3
  <2> QED BY <2>1, <2>2 DEF KeepsRows
<1>4. ASSUME ProcessEnds, bounds' = bounds
      PROVE  IInv' /\ KeepsRows
  BY <1>4, NextProcess DEF KeepsRows
<1>5. ASSUME NEW key \in bounds.inserts, insert_row_into_table(key), bounds' = bounds
      PROVE  IInv' /\ KeepsRows
  <2> DEFINE p == table_find(store, key)
             t == leaf_node_insert(store, p, key)
  <2>1. CASE table_has_key(store, key)
    BY <1>3, <1>5, <2>1 DEF insert_row_into_table
  <2>2. CASE ~table_has_key(store, key)
    <3>1. BecomesOrEnds(t)
      BY <1>5, <2>2 DEF insert_row_into_table
    <3>2. key \in Nat
      BY <1>2, <1>5
    <3>3. p \in Pages /\ store.node[p].leaf /\ (p = Root \/ IsKid(store, p))
      BY <1>1, <3>2, KeyFound
    <3>4. t = leaf_node_insert(store, p, key)
      OBVIOUS
    <3> HIDE DEF p, t
    <3>5. Gains(store, t, key)
      BY <1>1, <3>2, <3>3, <3>4, RowInserted
    <3>6. CASE t.num_pages > TABLE_MAX_PAGES
      BY <1>4, <1>5, <3>1, <3>6 DEF BecomesOrEnds
    <3>7. CASE ~(t.num_pages > TABLE_MAX_PAGES)
      <4>1. IsTree(t, {}) /\ StoredRows(t) = StoredRows(store) \cup {key} /\ Marks(store, t, {})
        BY <3>5, <3>7 DEF Gains
      <4>2. Becomes(t)
        BY <3>1, <3>7 DEF BecomesOrEnds
      <4>3. IInv' /\ StoredRows(store') = StoredRows(t)
        BY <1>5, <4>1, <4>2, StatementCommitted
      <4> QED BY <1>5, <4>1, <4>3 DEF KeepsRows
    <3> QED BY <3>6, <3>7
  <2> QED BY <2>1, <2>2
<1>6. ASSUME NEW key \in bounds.deletes, execute_delete(key), bounds' = bounds
      PROVE  IInv' /\ KeepsRows
  <2> DEFINE p == table_find(store, key)
             t == leaf_node_delete(store, p, key)
  <2>1. CASE ~table_has_key(store, key)
    BY <1>3, <1>6, <2>1 DEF execute_delete
  <2>2. CASE table_has_key(store, key)
    <3>1. Becomes(t)
      BY <1>6, <2>2 DEF execute_delete
    <3>2. key \in Nat
      BY <1>2, <1>6
    <3>3. /\ p \in Pages /\ store.node[p].leaf /\ (p = Root \/ IsKid(store, p))
          /\ leaf_node_find(store.node[p], key) < Len(store.node[p].keys)
          /\ store.node[p].keys[leaf_node_find(store.node[p], key) + 1] = key
      BY <1>1, <2>2, <3>2, KeyFound
    <3>4. t = leaf_node_delete(store, p, key)
      OBVIOUS
    <3> HIDE DEF p, t
    <3>5. Loses(store, t, key)
      BY <1>1, <3>2, <3>3, <3>4, RowDeleted
    <3>6. IInv' /\ StoredRows(store') = StoredRows(t)
      BY <1>6, <3>1, <3>5, StatementCommitted DEF Loses
    <3> QED BY <1>6, <3>5, <3>6 DEF KeepsRows, Loses
  <2> QED BY <2>1, <2>2
<1>7. ASSUME Reopen, bounds' = bounds
      PROVE  IInv' /\ KeepsRows
  <2>1. store' = store /\ disk' = store
    BY <1>7 DEF Reopen
  <2>2. StoredRows(store') = StoredRows(store)
    BY <2>1
  <2>3. CommitsItsChanges'
    BY <2>1 DEF CommitsItsChanges
  <2> QED BY <1>7, <2>1, <2>2, <2>3 DEF IInv, IsTree, KeepsRows
<1>8. CASE UNCHANGED vars
  BY <1>3, <1>8 DEF vars
<1>9. CASE Next
  <2>1. bounds' = bounds
    BY <1>9 DEF Next
  <2>2. CASE Insert
    BY <1>5, <2>1, <2>2 DEF Insert
  <2>3. CASE Delete
    BY <1>6, <2>1, <2>3 DEF Delete
  <2>4. CASE execute_select
    BY <1>3, <2>1, <2>4 DEF execute_select
  <2>5. CASE Crash
    BY <1>4, <2>1, <2>5 DEF Crash
  <2>6. CASE Reopen
    BY <1>7, <2>1, <2>6
  <2> QED BY <1>9, <2>2, <2>3, <2>4, <2>5, <2>6 DEF Next
<1> QED BY <1>8, <1>9

-----------------------------------------------------------------------------
(* Tables that only grow. *)

\* A statement has ended that has left s.
LEMMA GrowthCommitted ==
  ASSUME IInv, AllGrown(store, {}), AllGrown(disk, {}), bounds' = bounds,
         NEW s, IsTree(s, {}), Marks(store, s, {}), KeepsParents(store, {}, s, {}), Becomes(s)
  PROVE  AllGrown(store', {}) /\ AllGrown(disk', {})
<1>1. /\ store \in Stores /\ disk \in Stores /\ s \in Stores
      /\ SameRest(store, disk) /\ \A p \in Pages : Alike(disk.node[p], store.node[p])
  BY CommitsItsChangesMeans DEF IInv, IsTree
<1>2. AllGrown(s, {}) /\ GrownOutOf(store, s)
  BY DEF KeepsParents
<1>3. store' = Undirtied(s) /\ disk' = Committed(s)
  BY DEF Becomes
<1>4. store'.node = s.node /\ store'.num_pages = s.num_pages /\ store'.free_page_head = s.free_page_head
  BY <1>1, <1>3 DEF Undirtied, Stores
<1>5. /\ disk'.num_pages = s.num_pages /\ disk'.free_page_head = 0
      /\ \A p \in Pages : disk'.node[p] = IF p \in s.dirty THEN s.node[p] ELSE disk.node[p]
  BY <1>1, <1>2, <1>3 DEF Committed, Stores, AllGrown
<1>6. \A p \in Pages : disk'.node[p].leaf = s.node[p].leaf
  BY <1>1, <1>5 DEF Marks, Alike
<1>7. ASSUME NEW p \in Pages, p > Root, p < disk'.num_pages
      PROVE  ~disk'.node[disk'.node[p].parent].leaf
  <2>1. CASE p \in s.dirty
    <3>1. ~s.node[s.node[p].parent].leaf /\ s.node[p].parent \in Pages
      BY <1>1, <1>2, <1>5, <1>7, NodeFields DEF AllGrown
    <3> QED BY <1>5, <1>6, <2>1, <3>1
  <2>2. CASE p \notin s.dirty
    <3>1. p < disk.num_pages
      <4>1. p < store.num_pages
        <5>1. s.num_pages \in Nat /\ store.num_pages \in Nat /\ p \in Nat
          BY <1>1 DEF Stores, Pages
        <5> QED BY <1>2, <1>5, <1>7, <2>2, <5>1 DEF GrownOutOf
      <4> QED BY <1>1, <4>1 DEF SameRest, SameList
    <3>2. ~disk.node[disk.node[p].parent].leaf /\ disk.node[p].parent \in Pages
      BY <1>1, <1>7, <3>1, NodeFields DEF AllGrown
    <3>3. ~s.node[disk.node[p].parent].leaf
      BY <1>1, <1>2, <3>2 DEF Alike, GrownOutOf
    <3> QED BY <1>5, <1>6, <2>2, <3>2, <3>3
  <2> QED BY <2>1, <2>2
<1>8. AllGrown(disk', {})
  BY <1>5, <1>7 DEF AllGrown
<1> QED BY <1>2, <1>4, <1>8 DEF AllGrown

\* No rows are deleted.
InsertsOnly == \A scope \in Scopes : scope.deletes = {}

\* Parents stay internal nodes, in memory and in the file.
LEMMA GrowthKept ==
  ASSUME InsertsOnly, IInv, AllGrown(store, {}), AllGrown(disk, {}), [Next]_vars
  PROVE  AllGrown(store', {}) /\ AllGrown(disk', {})
<1>1. IsTree(store, {}) /\ bounds \in Scopes /\ HasParents(store)
  BY GrownHasParents DEF IInv
<1>2. bounds.inserts \subseteq Nat /\ bounds.deletes = {}
  BY <1>1, BTreeAssumption DEF InsertsOnly
<1>3. ASSUME UNCHANGED <<store, disk>>
      PROVE  AllGrown(store', {}) /\ AllGrown(disk', {})
  BY <1>3
<1>4. ASSUME ProcessEnds
      PROVE  AllGrown(store', {}) /\ AllGrown(disk', {})
  BY <1>4 DEF ProcessEnds
<1>5. ASSUME NEW key \in bounds.inserts, insert_row_into_table(key), bounds' = bounds
      PROVE  AllGrown(store', {}) /\ AllGrown(disk', {})
  <2> DEFINE p == table_find(store, key)
             t == leaf_node_insert(store, p, key)
  <2>1. CASE table_has_key(store, key)
    BY <1>3, <1>5, <2>1 DEF insert_row_into_table
  <2>2. CASE ~table_has_key(store, key)
    <3>1. BecomesOrEnds(t)
      BY <1>5, <2>2 DEF insert_row_into_table
    <3>2. key \in Nat
      BY <1>2, <1>5
    <3>3. p \in Pages /\ store.node[p].leaf /\ (p = Root \/ IsKid(store, p))
      BY <1>1, <3>2, KeyFound
    <3>4. t = leaf_node_insert(store, p, key)
      OBVIOUS
    <3> HIDE DEF p, t
    <3>5. Gains(store, t, key)
      BY <1>1, <3>2, <3>3, <3>4, RowInserted
    <3>6. CASE t.num_pages > TABLE_MAX_PAGES
      BY <1>4, <3>1, <3>6 DEF BecomesOrEnds
    <3>7. CASE ~(t.num_pages > TABLE_MAX_PAGES)
      <4>1. IsTree(t, {}) /\ Marks(store, t, {}) /\ KeepsParents(store, {}, t, {})
        BY <3>5, <3>7 DEF Gains
      <4>2. Becomes(t)
        BY <3>1, <3>7 DEF BecomesOrEnds
      <4> QED BY <1>5, <4>1, <4>2, GrowthCommitted
    <3> QED BY <3>6, <3>7
  <2> QED BY <2>1, <2>2
<1>6. CASE UNCHANGED vars
  BY <1>3, <1>6 DEF vars
<1>7. CASE Next
  <2>1. bounds' = bounds
    BY <1>7 DEF Next
  <2>2. CASE Insert
    BY <1>5, <2>1, <2>2 DEF Insert
  <2>3. CASE Delete
    BY <1>2, <2>3 DEF Delete
  <2>4. CASE execute_select
    BY <1>3, <2>4 DEF execute_select
  <2>5. CASE Crash
    BY <1>4, <2>5 DEF Crash
  <2>6. CASE Reopen
    BY <2>6 DEF Reopen
  <2> QED BY <1>7, <2>2, <2>3, <2>4, <2>5, <2>6 DEF Next
<1> QED BY <1>6, <1>7

-----------------------------------------------------------------------------
(* The theorems.  The parent pointers that inserts follow name internal    *)
(* nodes: of tables that only grow this is proved, elsewhere it is a       *)
(* hypothesis.                                                             *)

\* Parent pointers that are right name internal nodes.
LEMMA ExactIsInternal == NodesFit /\ ParentsExact => ParentsInternal
<1> SUFFICES ASSUME NodesFit, ParentsExact, NEW p \in Pages, NEW c \in ToSet(store.node[p].kids)
             PROVE  ~store.node[store.node[c].parent].leaf
  BY DEF ParentsInternal
<1>1. store.node[c].parent = p
  BY DEF ParentsExact
<1>2. store.node[p].kids # <<>>
  BY DEF ToSet
<1> QED BY <1>1, <1>2 DEF NodesFit, Fits

\* IInv holds in every state of a table as long as parent pointers name internal
\* nodes: every operation, its splits, merges and collapses included, leaves a tree whose pages are all used once, and marks what it
\* changes.  The theorems after it have the same hypotheses.
THEOREM Invariant == Spec /\ []ParentsInternal => []IInv
<1>1. Init => IInv
  BY InitIsTree
<1>2. IInv /\ ParentsInternal /\ [Next]_vars => IInv'
  BY InvariantKept
<1> QED BY <1>1, <1>2, PTL DEF Spec

\* No page is lost, and none is used twice: not by two nodes, and not by a node and
\* the free list (get_unused_page_num, pager_free_page and who calls them).
THEOREM PagesAreUsedOnce == Spec /\ []ParentsInternal => []PagesUsedOnce
<1>1. IInv => PagesUsedOnce
  BY DEF IInv, IsTree, PagesUsedOnce
<1> QED BY <1>1, Invariant, PTL

\* Nothing is written behind the last cell or key of a node: leaves merge only when
\* they fit into one (leaf_node_min_cells), and full nodes are split.
THEOREM NodesAlwaysFit == Spec /\ []ParentsInternal => []NodesFit
<1>1. IInv => NodesFit
  BY DEF IInv, IsTree, Shaped, NodesFit
<1> QED BY <1>1, Invariant, PTL

\* What a statement commits is what it has in memory, parent pointers excepted.
THEOREM ChangesAreCommitted == Spec /\ []ParentsInternal => []CommitsItsChanges
<1>1. IInv => CommitsItsChanges
  BY DEF IInv
<1> QED BY <1>1, Invariant, PTL

\* No split, merge, borrow, collapse, crash or reopening changes the rows in the
\* leaves; an insert or a delete changes them by its key alone.
THEOREM RowsAreKept == Spec /\ []ParentsInternal => RowsKept
<1>1. IInv /\ ParentsInternal /\ [Next]_vars => [KeepsRows]_vars
  BY InvariantKept
<1> QED BY <1>1, Invariant, PTL DEF Spec, RowsKept

\* A table that only grows keeps parent pointers that name internal nodes, in memory
\* and in the file, whatever nodes are split, pages are refused, and processes end with
\* stale pointers in the file: create_new_root and the moves of children set the parents
\* of pages that may not be marked, but an internal node never becomes a leaf again.
THEOREM ParentsStayInternal == InsertsOnly /\ Spec => []ParentsInternal
<1> DEFINE Inv == InsertsOnly /\ IInv /\ AllGrown(store, {}) /\ AllGrown(disk, {})
<1>1. InsertsOnly /\ Init => Inv
  BY InitIsTree
<1>2. ASSUME IInv, AllGrown(store, {})
      PROVE  ParentsInternal
  BY <1>2, GrownHasParents DEF IInv, HasParents, ParentsInternal
<1>3. Inv /\ [Next]_vars => Inv'
  <2> SUFFICES ASSUME Inv, [Next]_vars
               PROVE  Inv'
    OBVIOUS
  <2>1. IInv'
    BY <1>2, InvariantKept
  <2>2. InsertsOnly'
    BY DEF InsertsOnly
  <2> QED BY <2>1, <2>2, GrowthKept
<1>4. Inv => ParentsInternal
  BY <1>2
<1> HIDE DEF Inv
<1> QED BY <1>1, <1>3, <1>4, PTL DEF Spec

\* So of a table that only grows all of the above holds without that hypothesis.
THEOREM GrowingTables ==
  InsertsOnly /\ Spec => [](PagesUsedOnce /\ NodesFit /\ CommitsItsChanges) /\ RowsKept
BY ParentsStayInternal, PagesAreUsedOnce, NodesAlwaysFit, ChangesAreCommitted, RowsAreKept, PTL
=============================================================================
