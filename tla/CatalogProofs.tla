---------------------------- MODULE CatalogProofs ----------------------------
(***************************************************************************)
(* Proofs about Catalog for every number of pages and every set of names.  *)
(* Those about page ownership are proved for the databases in which it     *)
(* holds: no table is created after a tree has grown, and no process ends  *)
(* while the log has pages that the file has not.                          *)
(***************************************************************************)
EXTENDS CatalogProperties, TLAPS

-----------------------------------------------------------------------------
(* Types and the root counter, whatever the bounds are. *)

\* What is committed has the types of what is in memory.
DiskOK ==
  /\ disk \in [next_root_page : FirstUserRoot .. TABLE_MAX_PAGES,
               free : Seq(Pages),
               catalog : [Names -> Pages],
               tree : [Pages -> SUBSET Pages],
               holds : [Pages -> Pages \cup {UNWRITTEN, FREE}]]
  /\ \A n \in Names : disk.catalog[n] < disk.next_root_page

Counted == TypeOK /\ DiskOK /\ RootsBelowNext

\* The pages of the constants are among the pages.
LEMMA FirstPages ==
  /\ Pages \subseteq Nat /\ 0 \in Pages /\ MasterRoot \in Pages
  /\ TABLE_MAX_PAGES \in Nat /\ FirstUserRoot \in FirstUserRoot .. TABLE_MAX_PAGES
  /\ UNWRITTEN \notin Pages /\ FREE \notin Pages /\ UNWRITTEN # FREE
BY CatalogAssumption DEF Pages, MasterRoot, FirstUserRoot, UNWRITTEN, FREE

\* The roots of a catalog are pages, and none is the header.
LEMMA LiveRootsArePages ==
  ASSUME NEW cat \in [Names -> Pages]
  PROVE  LiveRoots(cat) \subseteq Pages \ {HEADER} /\ MasterRoot \in LiveRoots(cat)
BY FirstPages DEF LiveRoots, NoTable, HEADER, MasterRoot

\* The free list as a stack.
LEMMA PushPage ==
  ASSUME NEW f \in Seq(Pages), NEW p \in Pages, IsInjective(f),
         \A i \in DOMAIN f : f[i] # p
  PROVE  /\ <<p>> \o f \in Seq(Pages)
         /\ IsInjective(<<p>> \o f)
         /\ \A i \in DOMAIN (<<p>> \o f) :
              (<<p>> \o f)[i] = p \/ \E j \in DOMAIN f : (<<p>> \o f)[i] = f[j]
<1> DEFINE g == <<p>> \o f
<1>1. g \in Seq(Pages) /\ Len(g) = Len(f) + 1 /\ Len(f) \in Nat
  OBVIOUS
<1>2. g[1] = p /\ \A i \in 2 .. Len(g) : i - 1 \in DOMAIN f /\ g[i] = f[i - 1]
  BY <1>1
<1>3. DOMAIN g = 1 .. Len(g) /\ DOMAIN f = 1 .. Len(f)
  BY <1>1
<1> HIDE DEF g
<1>4. IsInjective(g)
  <2> SUFFICES ASSUME NEW i \in DOMAIN g, NEW j \in DOMAIN g, g[i] = g[j]
               PROVE  i = j
    BY DEF IsInjective
  <2>1. \A k \in DOMAIN g : k # 1 => k - 1 \in DOMAIN f /\ g[k] = f[k - 1] /\ g[k] # g[1]
    BY <1>1, <1>2, <1>3
  <2>2. CASE i # 1 /\ j # 1
    <3>1. i - 1 = j - 1
      BY <2>1, <2>2 DEF IsInjective
    <3>2. QED
      BY <1>1, <1>3, <3>1
  <2>3. QED
    BY <2>1, <2>2
<1>5. \A i \in DOMAIN g : g[i] = p \/ \E j \in DOMAIN f : g[i] = f[j]
  BY <1>1, <1>2, <1>3
<1>6. QED
  BY <1>1, <1>4, <1>5 DEF g

\* Taking the head of a list without repetitions.
LEMMA PopPage ==
  ASSUME NEW f \in Seq(Pages), IsInjective(f), f # <<>>
  PROVE  /\ Head(f) \in Pages /\ Tail(f) \in Seq(Pages)
         /\ 1 \in DOMAIN f /\ Head(f) = f[1]
         /\ IsInjective(Tail(f))
         /\ \A i \in DOMAIN Tail(f) :
              Tail(f)[i] # Head(f) /\ \E j \in DOMAIN f : Tail(f)[i] = f[j]
<1> DEFINE g == Tail(f)
<1>1. g \in Seq(Pages) /\ Len(f) \in Nat \ {0} /\ Len(g) = Len(f) - 1
  OBVIOUS
<1>2. DOMAIN g = 1 .. Len(g) /\ DOMAIN f = 1 .. Len(f)
  BY <1>1
<1>3. \A i \in DOMAIN g : g[i] = f[i + 1] /\ i + 1 \in DOMAIN f /\ i + 1 # 1
  BY <1>1, <1>2
<1>4. 1 \in DOMAIN f /\ Head(f) = f[1] /\ f[1] \in Pages
  BY <1>1, <1>2
<1> HIDE DEF g
<1>5. IsInjective(g)
  <2> SUFFICES ASSUME NEW i \in DOMAIN g, NEW j \in DOMAIN g, g[i] = g[j]
               PROVE  i = j
    BY DEF IsInjective
  <2>1. i + 1 = j + 1
    BY <1>3 DEF IsInjective
  <2>2. QED
    BY <1>1, <1>2, <2>1
<1>6. \A i \in DOMAIN g : g[i] # f[1] /\ \E j \in DOMAIN f : g[i] = f[j]
  BY <1>3, <1>4 DEF IsInjective
<1>7. QED
  BY <1>1, <1>4, <1>5, <1>6 DEF g

\* The invariant holds before any process has the database open.
LEMMA InitCounted == Init => Counted
<1> SUFFICES ASSUME Init PROVE Counted
  OBVIOUS
<1>1. /\ Idle \in [root : Pages, kind : {"none", "grow", "shrink"}]
      /\ catalog \in [Names -> Pages] /\ tree \in [Pages -> SUBSET Pages]
      /\ holds \in [Pages -> Pages \cup {UNWRITTEN, FREE}]
      /\ free \in Seq(Pages) /\ next_root_page \in FirstUserRoot .. TABLE_MAX_PAGES
  BY FirstPages DEF Init, Idle, NoTable
<1>2. TypeOK
  BY <1>1, FirstPages DEF Init, TypeOK
<1>3. RootsBelowNext
  BY FirstPages DEF Init, RootsBelowNext, NoTable, FirstUserRoot
<1>4. DiskOK
  BY <1>1, <1>3 DEF Init, DiskOK, Current, RootsBelowNext
<1>5. QED
  BY <1>2, <1>3, <1>4 DEF Counted

\* Every step keeps the types, and every root below the next one.
LEMMA NextCounted == Counted /\ [Next]_vars => Counted'
<1> SUFFICES ASSUME Counted, [Next]_vars PROVE Counted'
  OBVIOUS
<1> USE FirstPages DEF Counted
<1>1. CASE DbOpenNew
  <2> USE <1>1 DEF DbOpenNew
  <2>1. TypeOK'
    BY DEF TypeOK, NewTree, NewHolds, HEADER, NoTable, FirstUserRoot
  <2>2. RootsBelowNext'
    BY DEF RootsBelowNext, NoTable, FirstUserRoot
  <2>3. QED
    BY <2>1, <2>2 DEF TypeOK, RootsBelowNext, DiskOK, Current
<1>2. CASE DbOpenExisting
  BY <1>2 DEF DbOpenExisting, TypeOK, RootsBelowNext, DiskOK, memory
<1>3. CASE DbOpenRepair
  <2> USE <1>3 DEF DbOpenRepair
  <2>1. \A r \in LiveRoots(catalog) : r < next_root_page'
    BY DEF recover_next_root_page_from_master, Extent
  <2>2. next_root_page' \in FirstUserRoot .. TABLE_MAX_PAGES
    <3>1. MasterRoot < next_root_page' /\ next_root_page' \in Pages
      BY <2>1 DEF LiveRoots
    <3>2. QED
      BY <3>1 DEF Pages, MasterRoot, FirstUserRoot
  <2>3. TypeOK'
    BY <2>2 DEF TypeOK
  <2>4. catalog' = catalog
    OBVIOUS
  <2> HIDE <1>3 DEF DbOpenRepair
  <2>5. \A n \in Names : catalog[n] < next_root_page'
    <3> SUFFICES ASSUME NEW n \in Names PROVE catalog[n] < next_root_page'
      OBVIOUS
    <3>1. CASE catalog[n] = NoTable
      BY <2>2, <3>1 DEF NoTable, FirstUserRoot
    <3>2. CASE catalog[n] # NoTable
      BY <2>1, <3>2 DEF LiveRoots
    <3>3. QED
      BY <3>1, <3>2
  <2>6. RootsBelowNext'
    BY <2>4, <2>5 DEF RootsBelowNext
  <2>7. DiskOK'
    BY <1>3, <2>3, <2>6 DEF DbOpenRepair, TypeOK, RootsBelowNext, DiskOK, Current
  <2>8. QED
    BY <2>3, <2>6, <2>7
<1>4. CASE DbOpenRefused
  BY <1>4 DEF DbOpenRefused, TypeOK, RootsBelowNext, DiskOK, memory
<1>5. ASSUME NEW name \in Names, ReadTable(name)
      PROVE  Counted'
  BY <1>5 DEF ReadTable, Reads, TypeOK, RootsBelowNext, DiskOK, memory
<1>6. ASSUME NEW name \in Names, NEW kind \in {"grow", "shrink"}, StartStatement(name, kind)
      PROVE  Counted'
  BY <1>6 DEF StartStatement, Reads, TypeOK, RootsBelowNext, DiskOK, memory
<1>7. ASSUME NEW name \in Names, CreateTable(name)
      PROVE  Counted'
  <2> USE <1>7 DEF CreateTable, allocate_next_root_page
  <2>1. next_root_page \in Pages /\ next_root_page' \in FirstUserRoot .. TABLE_MAX_PAGES
    BY DEF TypeOK, Pages, FirstUserRoot
  <2>2. TypeOK'
    BY <2>1 DEF TypeOK, Reads
  <2>3. RootsBelowNext'
    BY <2>1 DEF TypeOK, RootsBelowNext, Pages
  <2>4. QED
    BY <2>2, <2>3 DEF DiskOK
<1>8. ASSUME NEW name \in Names, DropTable(name)
      PROVE  Counted'
  <2> USE <1>8 DEF DropTable
  <2>1. TypeOK'
    BY DEF TypeOK, Reads, NoTable
  <2>2. RootsBelowNext'
    BY DEF TypeOK, RootsBelowNext, NoTable, FirstUserRoot
  <2>3. QED
    BY <2>1, <2>2 DEF DiskOK
<1>9. CASE GetUnusedPage
  <2> USE <1>9 DEF GetUnusedPage
  <2>1. UnusedPage \in Pages /\ ListAfterTake \in Seq(Pages)
    <3>1. CASE free = <<>>
      BY <3>1 DEF UnusedPage, ListAfterTake, TypeOK, Pages
    <3>2. CASE free # <<>>
      <4>1. Head(free) \in Pages /\ Tail(free) \in Seq(Pages)
        BY <3>2 DEF TypeOK
      <4>2. QED
        BY <3>2, <4>1 DEF UnusedPage, ListAfterTake
    <3>3. QED
      BY <3>1, <3>2
  <2>2. TypeOK'
    BY <2>1 DEF TypeOK, Reads
  <2>3. QED
    BY <2>2 DEF RootsBelowNext, DiskOK
<1>10. ASSUME NEW p \in Pages, FreePage(p)
       PROVE  Counted'
  <2> USE <1>10 DEF FreePage
  <2>1. <<p>> \o free \in Seq(Pages)
    BY DEF TypeOK
  <2>2. TypeOK'
    BY <2>1 DEF TypeOK
  <2>3. QED
    BY <2>2 DEF RootsBelowNext, DiskOK
<1>11. CASE EndStatement
  BY <1>11 DEF EndStatement, Idle, TypeOK, RootsBelowNext, DiskOK, memory
<1>12. CASE Commit
  BY <1>12 DEF Commit, Checkpointed, TypeOK, RootsBelowNext, DiskOK, memory, Current
<1>13. CASE DbClose
  BY <1>13 DEF DbClose, Checkpointed, TypeOK, RootsBelowNext, DiskOK, memory, Current
<1>14. CASE Crash
  BY <1>14 DEF Crash, Idle, TypeOK, RootsBelowNext, DiskOK
<1>15. CASE UNCHANGED vars
  BY <1>15 DEF vars, memory, TypeOK, RootsBelowNext, DiskOK
<1>16. QED
  BY <1>1, <1>2, <1>3, <1>4, <1>5, <1>6, <1>7, <1>8, <1>9, <1>10, <1>11, <1>12,
     <1>13, <1>14, <1>15 DEF Next, DbOpen

\* The catalog's types and counters are invariant (db_open, create table).
LEMMA SpecCounted == Spec => []Counted
<1>1. QED
  BY InitCounted, NextCounted, PTL DEF Spec

\* Every variable keeps its type, whatever the bounds are.
THEOREM CatalogTypes == Spec => []TypeOK
<1>1. Counted => TypeOK
  BY DEF Counted
<1>2. QED
  BY <1>1, SpecCounted, PTL

\* The root page of a new table is no key of the catalog yet, in every process
\* that opens, repairs or crashes: execute_create_table finds no duplicate key.
THEOREM RootsStayBelowNext == Spec => []RootsBelowNext
<1>1. Counted => RootsBelowNext
  BY DEF Counted
<1>2. QED
  BY <1>1, SpecCounted, PTL

-----------------------------------------------------------------------------
(* The pages are shared out, as long as the two bounds hold. *)

\* Before the first checkpoint of a database its file is empty.
Fresh ==
  /\ catalog = [n \in Names |-> NoTable]
  /\ free = <<>>
  /\ tree = [r \in Pages |-> {}]
  /\ holds = [p \in Pages |-> UNWRITTEN]

\* The inductive invariant: what is committed is shared out like what is in
\* memory, and the count covers what has been written, in memory while a process
\* has the database open and in the file while none has.
Sharing ==
  /\ Counted
  /\ running # Idle => session = "open" /\ running.root \in LiveRoots(catalog)
  /\ session = "open" =>
       /\ Shared(catalog, tree, holds) /\ Idled(free, holds)
       /\ Shared(disk.catalog, disk.tree, disk.holds) /\ Idled(disk.free, disk.holds)
       /\ \A p \in Written(holds) : p < num_pages
  /\ session # "open" =>
       /\ disk = Current
       /\ file_pages = 0 => Fresh
       /\ file_pages > 0 =>
            /\ Shared(catalog, tree, holds) /\ Idled(free, holds)
            /\ \A p \in Written(holds) : p < file_pages

\* A page that belongs to a tree is neither free nor unwritten.
LEMMA OwnedPages ==
  ASSUME Counted, Shared(catalog, tree, holds), Idled(free, holds),
         NEW r \in LiveRoots(catalog), NEW p \in tree[r]
  PROVE  /\ r \in Pages /\ p \in Pages /\ holds[p] = r /\ p # HEADER
         /\ p \in Written(holds)
         /\ \A i \in DOMAIN free : free[i] # p
<1>1. r \in Pages \ {HEADER}
  BY LiveRootsArePages DEF Counted, TypeOK
<1>2. p \in Pages /\ holds[p] = r
  BY <1>1 DEF Counted, TypeOK, Shared
<1>3. p # HEADER
  BY <1>1, <1>2 DEF Shared, HEADER
<1>4. p \in Written(holds)
  BY <1>1, <1>2, FirstPages DEF Written
<1>5. \A i \in DOMAIN free : free[i] # p
  BY <1>1, <1>2, FirstPages DEF Idled
<1>6. QED
  BY <1>1, <1>2, <1>3, <1>4, <1>5

\* Taking a page that belongs to no tree leaves every other tree alone.
LEMMA TakeKeepsShared ==
  ASSUME Counted, Shared(catalog, tree, holds),
         NEW root \in LiveRoots(catalog), NEW p \in Pages \ {HEADER},
         \A r \in LiveRoots(catalog) : p \notin tree[r]
  PROVE  Shared(catalog, [tree EXCEPT ![root] = @ \cup {p}], [holds EXCEPT ![p] = root])
<1>1. LiveRoots(catalog) \subseteq Pages \ {HEADER}
  BY LiveRootsArePages DEF Counted, TypeOK
<1>2. \A r \in LiveRoots(catalog) : r \in tree[r] /\ \A q \in tree[r] : holds[q] = r
  BY DEF Shared
<1>3. tree \in [Pages -> SUBSET Pages] /\ holds \in [Pages -> Pages \cup {UNWRITTEN, FREE}]
  BY DEF Counted, TypeOK
<1>4. QED
  BY <1>1, <1>2, <1>3, FirstPages DEF Shared, HEADER

\* Giving back a page other than the root does so as well.
LEMMA GiveKeepsShared ==
  ASSUME Counted, Shared(catalog, tree, holds),
         NEW root \in LiveRoots(catalog), NEW p \in tree[root] \ {root}
  PROVE  Shared(catalog, [tree EXCEPT ![root] = @ \ {p}], [holds EXCEPT ![p] = FREE])
<1>1. LiveRoots(catalog) \subseteq Pages \ {HEADER}
  BY LiveRootsArePages DEF Counted, TypeOK
<1>2. \A r \in LiveRoots(catalog) : r \in tree[r] /\ \A q \in tree[r] : holds[q] = r
  BY DEF Shared
<1>3. tree \in [Pages -> SUBSET Pages] /\ holds \in [Pages -> Pages \cup {UNWRITTEN, FREE}]
  BY DEF Counted, TypeOK
<1>4. \A r \in LiveRoots(catalog) : r # root => p \notin tree[r]
  BY <1>2
<1>5. p # HEADER
  BY <1>1, <1>2 DEF Shared, HEADER
<1>6. QED
  BY <1>1, <1>2, <1>3, <1>4, <1>5, FirstPages DEF Shared, HEADER

\* A database that is not there yet shares no pages.
LEMMA InitSharing == Init => Sharing
<1> SUFFICES ASSUME Init PROVE Sharing
  OBVIOUS
<1>1. Counted
  BY InitCounted
<1>2. Fresh /\ disk = Current /\ file_pages = 0 /\ running = Idle /\ session # "open"
  BY DEF Init, Fresh
<1>3. QED
  BY <1>1, <1>2 DEF Sharing

\* In the three steps that change who has a page, the rest of the invariant
\* follows from what they keep.
LEMMA MemoryStep ==
  ASSUME Sharing, Counted', session = "open", UNCHANGED <<session, disk, file_pages>>,
         Shared(catalog, tree, holds)', Idled(free, holds)',
         (\A p \in Written(holds) : p < num_pages)',
         (running # Idle => running.root \in LiveRoots(catalog))'
  PROVE  Sharing'
BY DEF Sharing

\* Opening, closing, committing and crashing keep the invariant.
LEMMA SessionSharing ==
  ASSUME Sharing, Counted', ~CRASH_EARLY, DbOpen \/ Commit \/ DbClose \/ Crash
  PROVE  Sharing'
<1> USE DEF Counted
<1>1. CASE DbOpenNew
  <2> USE <1>1 DEF DbOpenNew
  <2>1. LiveRoots(catalog') = {MasterRoot}
    BY DEF LiveRoots
  <2>2. holds = [p \in Pages |-> UNWRITTEN]
    BY DEF Sharing, Fresh
  <2>3. /\ catalog' = [n \in Names |-> NoTable] /\ free' = <<>>
        /\ tree' = NewTree /\ holds' = NewHolds(holds)
    OBVIOUS
  <2>4. Shared(catalog', tree', holds')
    BY <2>1, <2>2, <2>3, FirstPages DEF Shared, NewTree, NewHolds, MasterRoot
  <2>5. Idled(free', holds')
    BY <2>3 DEF Idled, IsInjective
  <2>6. \A p \in Written(holds') : p < num_pages'
    BY <2>2, <2>3, FirstPages DEF Written, NewHolds, MasterRoot, FirstUserRoot
  <2>7. disk' = Current' /\ session' = "open" /\ UNCHANGED running /\ session = "closed"
    OBVIOUS
  <2> HIDE <1>1 DEF DbOpenNew
  <2>8. QED
    BY <2>4, <2>5, <2>6, <2>7 DEF Sharing, Current
<1>2. CASE DbOpenExisting
  BY <1>2 DEF DbOpenExisting, Sharing, memory, Current
<1>3. CASE DbOpenRepair
  <2> USE <1>3 DEF DbOpenRepair
  <2>1. Shared(catalog, tree, holds) /\ \A p \in Written(holds) : p < file_pages
    BY DEF Sharing
  <2>2. \A p \in Written(holds) : p < num_pages'
    BY <2>1, FirstPages DEF Extent, Written, TypeOK
  <2>3. Idled(<<>>, holds)
    BY DEF Idled, IsInjective
  <2>4. QED
    BY <2>1, <2>2, <2>3 DEF Sharing, Current
<1>4. CASE DbOpenRefused
  BY <1>4 DEF DbOpenRefused, Sharing, memory, Current
<1>5. CASE Commit
  BY <1>5 DEF Commit, MayRun, Sharing, memory, Current
<1>6. CASE DbClose
  <2> USE <1>6 DEF DbClose, MayRun
  <2>1. \A p \in Written(holds) : p < file_pages'
    BY DEF Checkpointed, Extent
  <2>2. disk' = Current' /\ UNCHANGED memory
    BY DEF memory, Current
  <2>3. file_pages' > 0
    BY <2>1, FirstPages DEF Sharing, Shared, Written, TypeOK, HEADER, UNWRITTEN
  <2>4. QED
    BY <2>1, <2>2, <2>3 DEF Sharing, memory
<1>7. CASE Crash
  <2> USE <1>7 DEF Crash
  <2>1. \A p \in Written(disk.holds) : p < file_pages
    OBVIOUS
  <2>2. disk' = Current'
    BY DEF Current, Sharing, DiskOK
  <2>3. /\ Shared(disk.catalog, disk.tree, disk.holds) /\ Idled(disk.free, disk.holds)
        /\ disk.holds \in [Pages -> Pages \cup {UNWRITTEN, FREE}]
    BY DEF Sharing, DiskOK
  <2>4. file_pages > 0
    BY <2>1, <2>3, FirstPages DEF Shared, Written, HEADER, UNWRITTEN
  <2>5. QED
    BY <2>1, <2>2, <2>3, <2>4 DEF Sharing
<1>8. QED
  BY <1>1, <1>2, <1>3, <1>4, <1>5, <1>6, <1>7 DEF DbOpen

\* The steps of a statement that take no page and give none back.
LEMMA ReadingSharing ==
  ASSUME Sharing, Counted', NEW name \in Names, NEW kind \in {"grow", "shrink"},
         \/ ReadTable(name) \/ StartStatement(name, kind) \/ DropTable(name)
  PROVE  Sharing'
<1>1. \A p \in Written(holds) : session = "open" => p < num_pages
  BY DEF Sharing
<1>2. Written(holds) \subseteq Nat
  BY FirstPages DEF Written
<1>3. num_pages \in Nat
  BY DEF Sharing, Counted, TypeOK
<1>4. CASE ReadTable(name)
  <2>1. num_pages' \in Nat /\ num_pages <= num_pages'
    BY <1>4, FirstPages DEF ReadTable, Reads, Extent
  <2>2. QED
    BY <1>1, <1>2, <1>3, <1>4, <2>1 DEF ReadTable, Sharing, memory, MayRun
<1>5. CASE StartStatement(name, kind)
  <2>1. num_pages' \in Nat /\ num_pages <= num_pages'
    BY <1>5, FirstPages DEF StartStatement, Reads, Extent
  <2>2. running'.root \in LiveRoots(catalog)
    BY <1>5 DEF StartStatement, LiveRoots
  <2>3. QED
    BY <1>1, <1>2, <1>3, <1>5, <2>1, <2>2 DEF StartStatement, Sharing, memory, MayRun
<1>6. CASE DropTable(name)
  <2>1. num_pages' \in Nat /\ num_pages <= num_pages'
    BY <1>6, FirstPages DEF DropTable, Reads, Extent
  <2>2. catalog \in [Names -> Pages] /\ catalog' = [catalog EXCEPT ![name] = NoTable]
    BY <1>6 DEF DropTable, Sharing, Counted, TypeOK
  <2>3. LiveRoots(catalog') \subseteq LiveRoots(catalog) /\ MasterRoot \in LiveRoots(catalog')
    BY <2>2 DEF LiveRoots
  <2>4. Shared(catalog, tree, holds) /\ session = "open" /\ UNCHANGED <<tree, holds, free>>
    BY <1>6 DEF DropTable, MayRun, Sharing
  <2>5. Shared(catalog, tree, holds)'
    BY <2>2, <2>3, <2>4 DEF Shared, NoTable
  <2>6. running'.root \in LiveRoots(catalog')
    BY <1>6, <2>3 DEF DropTable
  <2>7. (\A p \in Written(holds) : p < num_pages)'
    BY <1>1, <1>2, <1>3, <2>1, <2>4
  <2>8. Idled(free, holds)' /\ UNCHANGED <<session, disk, file_pages>>
    BY <1>6, <2>4 DEF DropTable, Sharing
  <2>9. QED
    BY <2>4, <2>5, <2>6, <2>7, <2>8, MemoryStep
<1>7. QED
  BY <1>4, <1>5, <1>6

\* The root page of a new table was nobody's: no tree had it and no free list.
LEMMA CreateSharing ==
  ASSUME Sharing, Counted', ~USED_ROOTS, NEW name \in Names, CreateTable(name)
  PROVE  Sharing'
<1> DEFINE root == next_root_page
<1> USE DEF allocate_next_root_page
<1>1. /\ session = "open" /\ Shared(catalog, tree, holds) /\ Idled(free, holds)
      /\ IsUnused(root)
      /\ \A p \in Written(holds) : p < num_pages
  BY DEF CreateTable, MayRun, Sharing
<1>2. /\ root \in Pages /\ root \notin {HEADER, MasterRoot}
      /\ catalog \in [Names -> Pages] /\ catalog[name] = NoTable
      /\ tree \in [Pages -> SUBSET Pages]
      /\ holds \in [Pages -> Pages \cup {UNWRITTEN, FREE}]
      /\ num_pages \in Nat
  <2>1. root \in FirstUserRoot .. TABLE_MAX_PAGES /\ root < TABLE_MAX_PAGES
    BY DEF CreateTable, Sharing, Counted, TypeOK
  <2>2. root \in Pages /\ root \notin {HEADER, MasterRoot}
    BY <2>1, FirstPages DEF Pages, FirstUserRoot, HEADER, MasterRoot
  <2>3. QED
    BY <2>2, FirstPages DEF CreateTable, Sharing, Counted, TypeOK
<1>3. /\ catalog' = [catalog EXCEPT ![name] = root] /\ tree' = [tree EXCEPT ![root] = {root}]
      /\ holds' = [holds EXCEPT ![root] = root] /\ free' = free
      /\ running'.root = MasterRoot /\ UNCHANGED <<session, disk, file_pages>>
      /\ num_pages' \in Nat /\ num_pages <= num_pages' /\ root < num_pages'
  BY FirstPages DEF CreateTable, Reads, Extent
<1>4. LiveRoots(catalog') = LiveRoots(catalog) \cup {root}
  BY <1>2, <1>3, FirstPages DEF LiveRoots, NoTable, HEADER
<1>5. \A n \in Names : catalog[n] # root
  <2>1. \A n \in Names : catalog[n] \in Nat /\ catalog[n] < root
    BY <1>2, FirstPages DEF Sharing, Counted, RootsBelowNext
  <2>2. root \in Nat
    BY <1>2, FirstPages
  <2>3. QED
    BY <2>1, <2>2
<1>6. \A r \in LiveRoots(catalog) : r \in Pages /\ root \notin tree[r] /\ r # root
  <2>1. LiveRoots(catalog) \subseteq Pages
    BY <1>2, LiveRootsArePages
  <2>2. QED
    BY <1>1, <2>1 DEF Shared, IsUnused
<1>7. Shared(catalog', tree', holds')
  <2>1. holds'[0] = HEADER
    BY <1>1, <1>2, <1>3 DEF Shared, HEADER
  <2>2. \A r \in LiveRoots(catalog) : r \in tree'[r] /\ \A p \in tree'[r] : holds'[p] = r
    BY <1>1, <1>2, <1>3, <1>6 DEF Shared
  <2>3. root \in tree'[root] /\ \A p \in tree'[root] : holds'[p] = root
    BY <1>2, <1>3
  <2>4. \A m, n \in Names : m # n /\ catalog'[m] = catalog'[n] => catalog'[m] = NoTable
    BY <1>1, <1>2, <1>3, <1>5 DEF Shared
  <2>5. QED
    BY <1>4, <2>1, <2>2, <2>3, <2>4 DEF Shared
<1>8. Idled(free', holds')
  BY <1>1, <1>2, <1>3 DEF Idled, IsUnused
<1>9. \A p \in Written(holds') : p < num_pages'
  BY <1>1, <1>2, <1>3, FirstPages DEF Written
<1>10. running'.root \in LiveRoots(catalog')
  BY <1>3, <1>4 DEF LiveRoots
<1>11. QED
  BY <1>1, <1>3, <1>7, <1>8, <1>9, <1>10, MemoryStep

\* A page from the free list or from the end of the database was nobody's.
LEMMA TakeSharing ==
  ASSUME Sharing, Counted', GetUnusedPage
  PROVE  Sharing'
<1> DEFINE p == UnusedPage
           root == running.root
<1>1. /\ session = "open" /\ root \in LiveRoots(catalog)
      /\ Shared(catalog, tree, holds) /\ Idled(free, holds)
      /\ \A q \in Written(holds) : q < num_pages
  BY DEF GetUnusedPage, Sharing, Idle
<1>2. /\ catalog \in [Names -> Pages] /\ tree \in [Pages -> SUBSET Pages]
      /\ holds \in [Pages -> Pages \cup {UNWRITTEN, FREE}]
      /\ free \in Seq(Pages) /\ num_pages \in Nat
  BY DEF Sharing, Counted, TypeOK
<1>3. /\ p \in Pages \ {HEADER} /\ holds[p] \in {FREE, UNWRITTEN}
      /\ ListAfterTake \in Seq(Pages) /\ IsInjective(ListAfterTake)
      /\ \A i \in DOMAIN ListAfterTake :
           holds[ListAfterTake[i]] = FREE /\ ListAfterTake[i] # p
  <2>1. CASE free = <<>>
    <3>1. p = num_pages /\ ListAfterTake = free /\ p \in Pages
      BY <1>2, <2>1, FirstPages DEF UnusedPage, ListAfterTake, GetUnusedPage, Pages
    <3>2. p \notin Written(holds)
      BY <1>1, <1>2, <3>1
    <3>3. holds[p] = UNWRITTEN /\ p # HEADER
      BY <1>1, <3>1, <3>2, FirstPages DEF Written, Shared, HEADER
    <3>4. QED
      BY <1>1, <1>2, <2>1, <3>1, <3>3 DEF Idled
  <2>2. CASE free # <<>>
    <3>1. p = Head(free) /\ ListAfterTake = Tail(free)
      BY <2>2 DEF UnusedPage, ListAfterTake
    <3>2. p \in Pages /\ holds[p] = FREE
      BY <1>1, <1>2, <2>2, <3>1, PopPage DEF Idled
    <3>3. p # HEADER
      BY <1>1, <3>2, FirstPages DEF Shared, HEADER
    <3>4. QED
      BY <1>1, <1>2, <2>2, <3>1, <3>2, <3>3, PopPage DEF Idled
  <2>3. QED
    BY <2>1, <2>2
<1>4. /\ tree' = [tree EXCEPT ![root] = @ \cup {p}] /\ holds' = [holds EXCEPT ![p] = root]
      /\ free' = ListAfterTake /\ UNCHANGED <<session, running, catalog, disk, file_pages>>
      /\ num_pages' \in Nat /\ num_pages <= num_pages' /\ p < num_pages'
  BY FirstPages DEF GetUnusedPage, Reads, Extent
<1>5. \A r \in LiveRoots(catalog) : p \notin tree[r]
  BY <1>1, <1>3, LiveRootsArePages, <1>2, FirstPages DEF Shared
<1> HIDE DEF p
<1>6. Counted
  BY DEF Sharing
<1>7. Shared(catalog, tree, holds)'
  BY <1>1, <1>3, <1>4, <1>5, <1>6, TakeKeepsShared
<1>8. Idled(free, holds)'
  BY <1>2, <1>3, <1>4 DEF Idled
<1>9. (\A q \in Written(holds) : q < num_pages)'
  BY <1>1, <1>2, <1>3, <1>4, FirstPages DEF Written
<1>10. QED
  BY <1>1, <1>4, <1>7, <1>8, <1>9, MemoryStep

\* A page that is given back leaves its tree as it enters the free list.
LEMMA GiveSharing ==
  ASSUME Sharing, Counted', NEW p \in Pages, FreePage(p)
  PROVE  Sharing'
<1> DEFINE root == running.root
<1>1. /\ session = "open" /\ root \in LiveRoots(catalog)
      /\ Shared(catalog, tree, holds) /\ Idled(free, holds)
      /\ \A q \in Written(holds) : q < num_pages
  BY DEF FreePage, Sharing, Idle
<1>2. /\ catalog \in [Names -> Pages] /\ tree \in [Pages -> SUBSET Pages]
      /\ holds \in [Pages -> Pages \cup {UNWRITTEN, FREE}]
      /\ free \in Seq(Pages) /\ num_pages \in Nat
  BY DEF Sharing, Counted, TypeOK
<1>3. /\ tree' = [tree EXCEPT ![root] = @ \ {p}] /\ holds' = [holds EXCEPT ![p] = FREE]
      /\ free' = <<p>> \o free /\ p \in tree[root] \ {root}
      /\ UNCHANGED <<session, running, num_pages, catalog, disk, file_pages>>
  BY DEF FreePage
<1>4. Counted
  BY DEF Sharing
<1>5. Shared(catalog, tree, holds)'
  BY <1>1, <1>3, <1>4, GiveKeepsShared
<1>6. p \in Written(holds) /\ \A i \in DOMAIN free : free[i] # p
  BY <1>1, <1>3, <1>4, OwnedPages
<1>7. Idled(free, holds)'
  <2>1. IsInjective(free') /\ \A i \in DOMAIN free' : free'[i] = p \/ \E j \in DOMAIN free : free'[i] = free[j]
    BY <1>1, <1>2, <1>3, <1>6, PushPage DEF Idled
  <2>2. \A j \in DOMAIN free : holds'[free[j]] = FREE
    BY <1>1, <1>2, <1>3, <1>6 DEF Idled
  <2>3. holds'[p] = FREE
    BY <1>2, <1>3
  <2>4. QED
    BY <2>1, <2>2, <2>3 DEF Idled
<1>8. (\A q \in Written(holds) : q < num_pages)'
  BY <1>1, <1>2, <1>3, <1>6 DEF Written
<1>9. QED
  BY <1>1, <1>3, <1>5, <1>7, <1>8, MemoryStep

\* Every step keeps the pages shared out.
LEMMA NextSharing ==
  ASSUME ~USED_ROOTS, ~CRASH_EARLY, Sharing, [Next]_vars
  PROVE  Sharing'
<1>1. Counted'
  BY NextCounted DEF Sharing
<1>2. CASE UNCHANGED vars
  BY <1>2 DEF vars, memory, Sharing, Current, Counted, TypeOK, DiskOK, RootsBelowNext, Fresh
<1>3. CASE Next
  <2>1. CASE DbOpen \/ Commit \/ DbClose \/ Crash
    BY <1>1, <2>1, SessionSharing
  <2>2. CASE EndStatement
    BY <1>1, <2>2 DEF EndStatement, Sharing, memory, Current
  <2>3. ASSUME NEW name \in Names,
               \/ ReadTable(name) \/ DropTable(name)
               \/ StartStatement(name, "grow") \/ StartStatement(name, "shrink")
        PROVE  Sharing'
    BY <1>1, <2>3, ReadingSharing
  <2>4. ASSUME NEW name \in Names, CreateTable(name)
        PROVE  Sharing'
    BY <1>1, <2>4, CreateSharing
  <2>5. CASE GetUnusedPage
    BY <1>1, <2>5, TakeSharing
  <2>6. ASSUME NEW p \in Pages, FreePage(p)
        PROVE  Sharing'
    BY <1>1, <2>6, GiveSharing
  <2>7. QED
    BY <1>3, <2>1, <2>2, <2>3, <2>4, <2>5, <2>6 DEF Next
<1>4. QED
  BY <1>2, <1>3

\* Under the two assumptions pages stay shared out (pager.c:403-462, parser.c:445).
LEMMA SpecSharing ==
  ASSUME ~USED_ROOTS, ~CRASH_EARLY
  PROVE  Spec => []Sharing
<1>1. Sharing /\ [Next]_vars => Sharing'
  BY NextSharing
<1>2. QED
  BY <1>1, InitSharing, PTL DEF Spec

\* No page has two owners, and none is lost to the header or the free list: what
\* a table wrote in a page of its tree is there when it is read again.
THEOREM PagesStayOwned ==
  ASSUME ~USED_ROOTS, ~CRASH_EARLY
  PROVE  Spec => []PagesOwned
<1>1. Sharing => PagesOwned
  BY DEF Sharing, PagesOwned
<1>2. QED
  BY <1>1, SpecSharing, PTL

\* The free list has idle pages only, each once, also in what a process that is
\* opened after a crash reads.
THEOREM FreePagesStayIdle ==
  ASSUME ~USED_ROOTS, ~CRASH_EARLY
  PROVE  Spec => []FreePagesIdle
<1>1. Sharing => FreePagesIdle
  BY FirstPages DEF Sharing, FreePagesIdle, Fresh, Idled, IsInjective, Counted, TypeOK
<1>2. QED
  BY <1>1, SpecSharing, PTL

\* A page at num_pages has never been written.
THEOREM CountStaysAbove ==
  ASSUME ~USED_ROOTS, ~CRASH_EARLY
  PROVE  Spec => []CountCoversPages
<1>1. Sharing => CountCoversPages
  BY DEF Sharing, CountCoversPages
<1>2. QED
  BY <1>1, SpecSharing, PTL

-----------------------------------------------------------------------------
(* The catalog implements PageOwners. *)

Mine == OwnersOf(catalog, tree)
Committed == OwnersOf(disk.catalog, disk.tree)

\* Who owns a page, spelled out.
LEMMA OwnersAre ==
  ASSUME NEW cat \in [Names -> Pages], NEW t
  PROVE  /\ OwnersOf(cat, t) \in [Pages -> SUBSET (Pages \ {HEADER})]
         /\ \A p \in Pages : OwnersOf(cat, t)[p] = {r \in LiveRoots(cat) : p \in t[r]}
BY LiveRootsArePages DEF OwnersOf

\* In a database whose pages are shared out, a page has one owner at most.
LEMMA OneOwner ==
  ASSUME Counted, Shared(catalog, tree, holds), NEW r \in LiveRoots(catalog),
         NEW p \in tree[r]
  PROVE  p \in Pages /\ Mine[p] = {r}
<1>1. LiveRoots(catalog) \subseteq Pages
  BY LiveRootsArePages DEF Counted, TypeOK
<1>2. p \in Pages
  BY <1>1 DEF Counted, TypeOK
<1>3. \A q \in LiveRoots(catalog) : p \in tree[q] => q = r
  BY DEF Shared
<1>4. QED
  BY <1>2, <1>3 DEF Mine, OwnersOf

\* The first state of a database maps to that of PageOwners.
LEMMA InitOwners == Init => Owners!POInit
BY FirstPages DEF Init, Owners!POInit, OwnersOf, Current, LiveRoots, NoTable, MasterRoot

\* What shows a step to be one of PageOwners in which t takes or gives pages.
LEMMA ExchangeStep ==
  ASSUME Counted, Counted', disk' = disk, NEW t \in Pages \ {HEADER},
         \A p \in Pages : \/ Mine'[p] = Mine[p]
                          \/ Mine[p] = {} /\ Mine'[p] = {t}
                          \/ Mine[p] = {t} /\ Mine'[p] = {}
  PROVE  Owners!PONext
<1>1. Mine' \in [Pages -> SUBSET (Pages \ {HEADER})]
  BY OwnersAre DEF Counted, TypeOK, Mine
<1>2. Owners!Exchange(t)
  BY <1>1 DEF Owners!Exchange, Mine
<1>3. QED
  BY <1>2 DEF Owners!PONext

\* Opening, closing, committing and crashing save the owners, restore them, or
\* leave both alone.
LEMMA SessionOwners ==
  ASSUME Sharing, DbOpen \/ Commit \/ DbClose \/ Crash
  PROVE  [Owners!PONext]_(Owners!poVars)
<1>1. CASE DbOpenNew
  <2>1. Fresh /\ disk = Current /\ Counted
    BY <1>1 DEF DbOpenNew, Sharing
  <2>2. LiveRoots(catalog') = {MasterRoot} /\ tree' = NewTree
    BY <1>1 DEF DbOpenNew, LiveRoots
  <2>3. \A p \in Pages : Mine[p] = {} /\ Mine'[p] = IF p = MasterRoot THEN {MasterRoot} ELSE {}
    <3>1. \A p \in Pages : Mine[p] = {}
      BY <2>1, LiveRootsArePages DEF Fresh, Mine, OwnersOf, Counted, TypeOK
    <3>2. \A p \in Pages : Mine'[p] = {r \in {MasterRoot} : p \in NewTree[r]}
      BY <2>2 DEF Mine, OwnersOf
    <3>3. NewTree[MasterRoot] = {MasterRoot}
      BY FirstPages DEF NewTree
    <3>4. QED
      BY <3>1, <3>2, <3>3
  <2>4. Mine' = [Mine EXCEPT ![MasterRoot] = {MasterRoot}]
    <3>1. DOMAIN Mine = Pages /\ DOMAIN Mine' = Pages
      BY DEF Mine, OwnersOf
    <3>2. Mine = [p \in Pages |-> Mine[p]] /\ Mine' = [p \in Pages |-> Mine'[p]]
      BY DEF Mine, OwnersOf
    <3>3. QED
      BY <2>3, <3>1, <3>2
  <2>5. Committed' = Mine'
    BY <1>1 DEF DbOpenNew, Current, Committed, Mine
  <2>6. Owners!Format(MasterRoot, MasterRoot)
    BY <2>3, <2>4, <2>5, FirstPages DEF Owners!Format, Mine, Committed
  <2>7. MasterRoot \in Pages \ {HEADER}
    BY FirstPages DEF MasterRoot, HEADER
  <2>8. QED
    BY <2>6, <2>7 DEF Owners!PONext
<1>2. CASE DbOpenExisting \/ DbOpenRefused
  BY <1>2 DEF DbOpenExisting, DbOpenRefused, memory, Owners!poVars
<1>3. CASE DbOpenRepair \/ Commit \/ DbClose
  <2>1. UNCHANGED <<catalog, tree>> /\ disk' = Current'
    BY <1>3 DEF DbOpenRepair, Commit, DbClose, memory, Current
  <2>2. Owners!Save
    BY <2>1 DEF Owners!Save, Current
  <2>3. QED
    BY <2>2 DEF Owners!PONext
<1>4. CASE Crash
  <2>1. Owners!Restore
    BY <1>4 DEF Crash, Owners!Restore
  <2>2. QED
    BY <2>1 DEF Owners!PONext
<1>5. QED
  BY <1>1, <1>2, <1>3, <1>4 DEF DbOpen

\* Sets with the same elements are equal.
LEMMA SameElements ==
  ASSUME NEW A, NEW B, \A r : r \in A <=> r \in B
  PROVE  A = B
OBVIOUS

\* Where a page has one owner at most, before and after root took it or gave it
\* back, nothing happened or the page changed between root and nobody.
LEMMA OneChange ==
  ASSUME NEW A, NEW B, NEW root,
         \A r \in A, q \in A : r = q,
         \A r \in B, q \in B : r = q,
         \A r : r # root => (r \in A <=> r \in B)
  PROVE  B = A \/ (A = {} /\ B = {root}) \/ (A = {root} /\ B = {})
<1>1. CASE root \in A
  <2>1. A = {root}
    BY <1>1
  <2>2. \A r \in B : r = root
    BY <2>1
  <2>3. QED
    BY <2>1, <2>2
<1>2. CASE root \in B
  <2>1. B = {root}
    BY <1>2
  <2>2. \A r \in A : r = root
    BY <2>1
  <2>3. QED
    BY <2>1, <2>2
<1>3. CASE root \notin A /\ root \notin B
  BY <1>3, SameElements
<1>4. QED
  BY <1>1, <1>2, <1>3

\* A statement takes pages nobody has, or gives back pages of its own table.
LEMMA StatementOwners ==
  ASSUME ~USED_ROOTS, Sharing, Sharing',
         \/ \E name \in Names : CreateTable(name) \/ DropTable(name)
         \/ GetUnusedPage
         \/ \E page \in Pages : FreePage(page)
  PROVE  Owners!PONext
<1>1. /\ session = "open" /\ Counted /\ Counted' /\ Shared(catalog, tree, holds)
      /\ Shared(catalog, tree, holds)' /\ disk' = disk
  <2>1. session = "open" /\ disk' = disk /\ session' = session
    <3>1. ASSUME NEW name \in Names, CreateTable(name) \/ DropTable(name)
          PROVE  session = "open" /\ disk' = disk /\ session' = session
      BY <3>1 DEF CreateTable, DropTable, MayRun
    <3>2. ASSUME NEW page \in Pages, GetUnusedPage \/ FreePage(page)
          PROVE  session = "open" /\ disk' = disk /\ session' = session
      BY <3>2 DEF GetUnusedPage, FreePage, Sharing, Idle
    <3>3. 0 \in Pages
      BY FirstPages
    <3>4. QED
      BY <3>1, <3>2, <3>3
  <2>2. QED
    BY <2>1 DEF Sharing
<1>2. /\ LiveRoots(catalog) \subseteq Pages \ {HEADER}
      /\ LiveRoots(catalog') \subseteq Pages \ {HEADER}
      /\ catalog \in [Names -> Pages] /\ tree \in [Pages -> SUBSET Pages]
  BY <1>1, LiveRootsArePages DEF Counted, TypeOK
<1>3. \A p \in Pages : \A r :
        /\ r \in Mine[p] <=> r \in LiveRoots(catalog) /\ p \in tree[r]
        /\ r \in Mine'[p] <=> r \in LiveRoots(catalog') /\ p \in tree'[r]
  BY DEF Mine, OwnersOf
<1>4. \A p \in Pages : /\ \A r \in Mine[p], q \in Mine[p] : r = q
                      /\ \A r \in Mine'[p], q \in Mine'[p] : r = q
  BY <1>1, <1>3 DEF Shared
<1>5. ASSUME NEW root \in LiveRoots(catalog) \cup LiveRoots(catalog'),
             \A p \in Pages : \A r : r # root => (r \in Mine[p] <=> r \in Mine'[p])
      PROVE  Owners!PONext
  <2>1. \A p \in Pages : \/ Mine'[p] = Mine[p]
                         \/ Mine[p] = {} /\ Mine'[p] = {root}
                         \/ Mine[p] = {root} /\ Mine'[p] = {}
    <3> SUFFICES ASSUME NEW p \in Pages
                 PROVE  \/ Mine'[p] = Mine[p]
                        \/ Mine[p] = {} /\ Mine'[p] = {root}
                        \/ Mine[p] = {root} /\ Mine'[p] = {}
      OBVIOUS
    <3> DEFINE A == Mine[p]
               B == Mine'[p]
    <3>1. /\ \A r \in A, q \in A : r = q
          /\ \A r \in B, q \in B : r = q
          /\ \A r : r # root => (r \in A <=> r \in B)
      BY <1>4, <1>5
    <3> HIDE DEF A, B
    <3>2. B = A \/ (A = {} /\ B = {root}) \/ (A = {root} /\ B = {})
      BY <3>1, OneChange
    <3>3. QED
      BY <3>2 DEF A, B
  <2>2. QED
    BY <1>1, <1>2, <2>1, ExchangeStep
<1>6. ASSUME NEW name \in Names, CreateTable(name)
      PROVE  Owners!PONext
  <2> DEFINE root == next_root_page
  <2>1. root \in FirstUserRoot .. TABLE_MAX_PAGES /\ root < TABLE_MAX_PAGES
    BY <1>1, <1>6 DEF CreateTable, allocate_next_root_page, Counted, TypeOK
  <2>2. root \in Pages \ {HEADER}
    BY <2>1, FirstPages DEF Pages, FirstUserRoot, HEADER
  <2>3. /\ catalog' = [catalog EXCEPT ![name] = root] /\ catalog[name] = NoTable
        /\ \A r \in Pages : r # root => tree'[r] = tree[r]
    BY <1>2, <1>6, <2>2 DEF CreateTable, allocate_next_root_page
  <2>4. LiveRoots(catalog') = LiveRoots(catalog) \cup {root}
    BY <1>2, <2>2, <2>3 DEF LiveRoots, NoTable, HEADER
  <2>5. \A p \in Pages : \A r : r # root => (r \in Mine[p] <=> r \in Mine'[p])
    BY <1>2, <1>3, <2>3, <2>4
  <2>6. QED
    BY <1>5, <2>4, <2>5
<1>7. ASSUME NEW name \in Names, DropTable(name)
      PROVE  Owners!PONext
  <2>1. /\ catalog[name] \in LiveRoots(catalog) /\ tree' = tree
        /\ catalog' = [catalog EXCEPT ![name] = NoTable]
    BY <1>7 DEF DropTable, LiveRoots
  <2>2. LiveRoots(catalog) = LiveRoots(catalog') \cup {catalog[name]}
    BY <1>2, <2>1 DEF LiveRoots, NoTable
  <2>3. \A p \in Pages : \A r : r # catalog[name] => (r \in Mine[p] <=> r \in Mine'[p])
    BY <1>3, <2>1, <2>2
  <2>4. QED
    BY <1>5, <2>1, <2>3
<1>8. CASE GetUnusedPage \/ \E page \in Pages : FreePage(page)
  <2>1. /\ running.root \in LiveRoots(catalog) /\ catalog' = catalog
        /\ \A r \in Pages : r # running.root => tree'[r] = tree[r]
    <3>1. CASE GetUnusedPage
      BY <1>2, <3>1 DEF GetUnusedPage, Sharing, Idle
    <3>2. ASSUME NEW page \in Pages, FreePage(page)
          PROVE  /\ running.root \in LiveRoots(catalog) /\ catalog' = catalog
                 /\ \A r \in Pages : r # running.root => tree'[r] = tree[r]
      BY <1>2, <3>2 DEF FreePage, Sharing, Idle
    <3>3. QED
      BY <1>8, <3>1, <3>2
  <2>2. \A p \in Pages : \A r : r # running.root => (r \in Mine[p] <=> r \in Mine'[p])
    BY <1>2, <1>3, <2>1
  <2>3. QED
    BY <1>5, <2>1, <2>2
<1>9. QED
  BY <1>6, <1>7, <1>8

\* Every step of the catalog is a step of PageOwners or leaves it alone.
LEMMA NextOwners ==
  ASSUME ~USED_ROOTS, Sharing, Sharing', [Next]_vars
  PROVE  [Owners!PONext]_(Owners!poVars)
<1>1. CASE DbOpen \/ Commit \/ DbClose \/ Crash
  BY <1>1, SessionOwners
<1>2. ASSUME NEW name \in Names,
             \/ ReadTable(name)
             \/ StartStatement(name, "grow") \/ StartStatement(name, "shrink")
      PROVE  UNCHANGED Owners!poVars
  BY <1>2 DEF ReadTable, StartStatement, memory, Owners!poVars
<1>3. CASE \/ \E name \in Names : CreateTable(name) \/ DropTable(name)
           \/ GetUnusedPage
           \/ \E page \in Pages : FreePage(page)
  BY <1>3, StatementOwners
<1>4. CASE EndStatement \/ UNCHANGED vars
  BY <1>4 DEF EndStatement, vars, memory, Owners!poVars
<1>5. QED
  BY <1>1, <1>2, <1>3, <1>4 DEF Next

\* The tables of a database share out its pages: none takes another's page, and
\* a process that ends without closing leaves them as they were committed.
THEOREM CatalogImplementsPageOwners ==
  ASSUME ~USED_ROOTS, ~CRASH_EARLY
  PROVE  Spec => ImplementsPageOwners
<1>1. Sharing /\ Sharing' /\ [Next]_vars => [Owners!PONext]_(Owners!poVars)
  BY NextOwners
<1>2. QED
  BY <1>1, InitOwners, SpecSharing, PTL DEF Spec, ImplementsPageOwners, Owners!POSpec
=============================================================================
