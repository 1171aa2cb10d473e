----------------------------- MODULE PagerProofs -----------------------------
(***************************************************************************)
(* Proofs about Pager for every file size, threshold and set of contents.  *)
(***************************************************************************)
EXTENDS PagerProperties, TLAPS

\* Page numbers are natural numbers.
LEMMA PagesAreNaturals == Pages \subseteq Nat
BY PagerAssumption DEF Pages

-----------------------------------------------------------------------------
(* Lemmas on the log. *)

\* A log has one commit point, so any witness is the one CommitPoint names.
LEMMA CommitPointIs ==
  ASSUME NEW w \in Seq(Frames), NEW c, IsCommitPoint(w, c)
  PROVE  CommitPoint(w) = c
<1>1. Len(w) \in Nat
  OBVIOUS
<1>2. c \in 0 .. Len(w)
  BY DEF IsCommitPoint
<1>3. \A d \in 0 .. Len(w) : IsCommitPoint(w, d) => d = c
  BY <1>1, <1>2 DEF IsCommitPoint
<1>4. QED
  BY <1>2, <1>3 DEF CommitPoint

\* A page has one last frame among the first n.
LEMMA LastFrameIs ==
  ASSUME NEW w \in Seq(Frames), NEW n \in Nat, NEW p, NEW f, IsLastFrame(w, n, p, f)
  PROVE  LastFrame(w, n, p) = f
<1>1. f \in 0 .. n
  BY DEF IsLastFrame
<1>2. \A g \in 0 .. n : IsLastFrame(w, n, p, g) => g = f
  BY <1>1 DEF IsLastFrame
<1>3. QED
  BY <1>1, <1>2 DEF LastFrame

\* What the image holds for a page, from any witnesses of the two places.
LEMMA ImageIs ==
  ASSUME NEW w \in Seq(Frames), NEW file, NEW c, NEW p \in Pages, NEW f,
         IsCommitPoint(w, c), IsLastFrame(w, c, p, f)
  PROVE  ImageOf(w, file)[p] = IF f > 0 THEN w[f].data ELSE file[p]
<1>1. c \in Nat
  BY DEF IsCommitPoint
<1>2. CommitPoint(w) = c /\ LastFrame(w, c, p) = f
  BY <1>1, CommitPointIs, LastFrameIs
<1>3. QED
  BY <1>2 DEF ImageOf

\* Writing right after the last frame appends.
LEMMA WriteFrameAppends ==
  ASSUME NEW w \in Seq(Frames), NEW f \in Frames
  PROVE  /\ WriteFrame(w, Len(w) + 1, f) \in Seq(Frames)
         /\ Len(WriteFrame(w, Len(w) + 1, f)) = Len(w) + 1
         /\ WriteFrame(w, Len(w) + 1, f)[Len(w) + 1] = f
         /\ \A i \in 1 .. Len(w) : WriteFrame(w, Len(w) + 1, f)[i] = w[i]
<1> DEFINE n == Len(w)
           v == [i \in 1 .. n + 1 |->
                   IF i = n + 1 THEN f ELSE IF i <= n THEN w[i] ELSE ZeroFrame]
<1>1. n \in Nat /\ \A i \in 1 .. n : w[i] \in Frames
  OBVIOUS
<1>2. WriteFrame(w, n + 1, f) = v
  BY <1>1 DEF WriteFrame
<1>3. \A i \in 1 .. n + 1 : v[i] \in Frames
  BY <1>1
<1>4. v \in [1 .. n + 1 -> Frames]
  BY <1>3
<1>5. v \in Seq(Frames) /\ Len(v) = n + 1
  BY <1>1, <1>4
<1>6. v[n + 1] = f /\ \A i \in 1 .. n : v[i] = w[i]
  BY <1>1
<1> HIDE DEF v, n
<1>7. QED
  BY <1>2, <1>5, <1>6 DEF n

\* The committed prefix of a log: what pager_open keeps.
LEMMA ReplayKeeps ==
  ASSUME NEW w \in Seq(Frames), NEW c, IsCommitPoint(w, c)
  PROVE  /\ SubSeq(w, 1, c) \in Seq(Frames)
         /\ Len(SubSeq(w, 1, c)) = c
         /\ \A i \in 1 .. c : SubSeq(w, 1, c)[i] = w[i]
         /\ IsCommitPoint(SubSeq(w, 1, c), c)
         /\ \A p, f : IsLastFrame(w, c, p, f) => IsLastFrame(SubSeq(w, 1, c), c, p, f)
<1>1. Len(w) \in Nat /\ c \in 0 .. Len(w) /\ c \in Nat
  BY DEF IsCommitPoint
<1>2. /\ SubSeq(w, 1, c) \in Seq(Frames)
      /\ Len(SubSeq(w, 1, c)) = c
      /\ \A i \in 1 .. c : SubSeq(w, 1, c)[i] = w[i]
  BY <1>1
<1>3. IsCommitPoint(SubSeq(w, 1, c), c)
  BY <1>1, <1>2 DEF IsCommitPoint
<1>4. ASSUME NEW p, NEW f, IsLastFrame(w, c, p, f)
      PROVE  IsLastFrame(SubSeq(w, 1, c), c, p, f)
  BY <1>1, <1>2, <1>4 DEF IsLastFrame
<1>5. QED
  BY <1>2, <1>3, <1>4

-----------------------------------------------------------------------------
(* The inductive invariant. *)

\* An empty log has nothing committed and no frame of any page.
LEMMA EmptyLog ==
  /\ IsCommitPoint(<<>>, 0)
  /\ CommitPoint(<<>>) = 0
  /\ \A p : IsLastFrame(<<>>, 0, p, 0) /\ LastFrame(<<>>, 0, p) = 0
<1>1. <<>> \in Seq(Frames) /\ Len(<<>>) = 0
  OBVIOUS
<1>2. IsCommitPoint(<<>>, 0) /\ \A p : IsLastFrame(<<>>, 0, p, 0)
  BY <1>1 DEF IsCommitPoint, IsLastFrame
<1>3. QED
  BY <1>1, <1>2, CommitPointIs, LastFrameIs

\* The invariant holds before any process has the database open.
LEMMA InitInv == Init => IInv
<1> SUFFICES ASSUME Init PROVE IInv
  OBVIOUS
<1> USE DEF Init
<1>0. /\ TABLE_MAX_PAGES \in Nat /\ TABLE_MAX_PAGES >= 2
      /\ {NEW_HEADER, BAD_HEADER, NEW_ROOT, ZERO} \subseteq Contents
  BY PagerAssumption DEF Contents
<1>1. TypeOK
  <2>1. db \in [Pages -> Contents] /\ dbLen \in 0 .. TABLE_MAX_PAGES
    BY <1>0 DEF Pages, MasterRoot
  <2>2. wal \in Seq(Frames) /\ tail \in FrameHeaders \cup {NULL}
    OBVIOUS
  <2>3. /\ pages \in [Pages -> Contents \cup {NULL}]
        /\ page_to_wal_frame \in [Pages -> Nat]
    BY DEF NoPages, NoFrames
  <2>4. /\ num_pages = 0 /\ file_length = 0 /\ next = 0 /\ 0 \in 0 .. TABLE_MAX_PAGES
        /\ page_dirty = {} /\ torn = FALSE /\ wal_frame_count = 0
        /\ pc = "down" /\ caller = "none"
    BY <1>0
  <2> HIDE DEF Init
  <2>5. QED
    BY <2>1, <2>2, <2>3, <2>4 DEF TypeOK
<1>2. LogReadable
  BY EmptyLog DEF LogReadable
<1>3. FileEnds
  BY <1>0 DEF FileEnds, Pages, MasterRoot
<1>4. Bookkeeping /\ MapTracksLog /\ LogCommitted /\ FlushOrder /\ TailIsNext
      /\ CopiedPages
  BY DEF Bookkeeping, MapTracksLog, LogCommitted, FlushOrder, TailIsNext, CopiedPages
<1>5. QED
  BY <1>1, <1>2, <1>3, <1>4 DEF IInv

\* What a step that leaves the two files alone has still to show.
LEMMA FilesAlone ==
  ASSUME LogReadable, FileEnds, UNCHANGED fileVars
  PROVE  LogReadable' /\ FileEnds'
BY DEF LogReadable, FileEnds, fileVars

\* Statements change the cache only, and mark what they must.
LEMMA StatementInv == IInv /\ Statement => IInv'
<1> SUFFICES ASSUME IInv, NEW p \in Pages,
                    \/ GetPage(p)
                    \/ \E content \in PageContents(p) : Write(p, content)
                    \/ \E content \in PageContents(p) : p # 0 /\ WriteUnmarked(p, content)
                    \/ \E h \in Headers : ReusePage(p, h)
             PROVE  IInv'
  BY DEF Statement
<1> USE PagerAssumption
<1>1. /\ UNCHANGED fileVars
      /\ pc = "idle" /\ pc' = "idle"
      /\ UNCHANGED <<wal_frame_count, file_length, controlVars>>
  BY DEF GetPage, Write, WriteUnmarked, ReusePage, controlVars
<1>2. /\ pages' \in [Pages -> Contents \cup {NULL}]
      /\ num_pages' \in 0 .. TABLE_MAX_PAGES
  <2>1. PageOnMiss(page_to_wal_frame, file_length, p) \in Contents
    <3>1. CASE page_to_wal_frame[p] > 0
      <4>1. page_to_wal_frame[p] \in 1 .. Len(wal)
        BY <1>1, <3>1 DEF IInv, TypeOK, MapTracksLog, IsLastFrame
      <4>2. wal[page_to_wal_frame[p]] \in Frames
        BY <4>1 DEF IInv, TypeOK
      <4>3. QED
        BY <3>1, <4>2 DEF PageOnMiss, Frames
    <3>2. CASE ~(page_to_wal_frame[p] > 0)
      BY <3>2 DEF PageOnMiss, IInv, TypeOK, Contents
    <3>3. QED
      BY <3>1, <3>2
  <2>2. NumPagesWith(p) \in 0 .. TABLE_MAX_PAGES
    <3>1. p \in Nat /\ p + 1 <= TABLE_MAX_PAGES
      BY DEF Pages
    <3>2. num_pages \in 0 .. TABLE_MAX_PAGES
      BY DEF IInv, TypeOK
    <3>3. QED
      BY <3>1, <3>2 DEF NumPagesWith
  <2>3. /\ pages \in [Pages -> Contents \cup {NULL}]
        /\ \A q \in Pages : PageContents(q) \subseteq Contents
        /\ Headers \subseteq Contents /\ ZERO \in Contents
    BY DEF IInv, TypeOK, Contents
  <2>4. CASE GetPage(p)
    BY <2>1, <2>2, <2>3, <2>4 DEF GetPage
  <2>5. CASE \E content \in PageContents(p) : Write(p, content)
    BY <2>2, <2>3, <2>5 DEF Write
  <2>6. CASE \E content \in PageContents(p) : p # 0 /\ WriteUnmarked(p, content)
    BY <2>2, <2>3, <2>6 DEF WriteUnmarked
  <2>7. CASE \E h \in Headers : ReusePage(p, h)
    BY <2>2, <2>3, <2>7 DEF ReusePage
  <2>8. QED
    BY <2>4, <2>5, <2>6, <2>7
<1>3. /\ page_to_wal_frame' \in [Pages -> Nat]
      /\ page_dirty' \in SUBSET Pages
      /\ page_dirty \subseteq page_dirty'
      /\ \A q \in page_dirty' : pages'[q] # NULL
      /\ \A q \in Pages : \/ page_to_wal_frame'[q] = page_to_wal_frame[q]
                          \/ page_to_wal_frame'[q] = 0 /\ q \in page_dirty'
  <2> USE <1>1 DEF IInv, TypeOK, Bookkeeping
  <2>1. 0 \in Pages /\ ZERO # NULL /\ \A q \in Pages : NULL \notin PageContents(q)
    BY DEF Pages, Contents
  <2>2. CASE GetPage(p)
    BY <2>2, <1>2 DEF GetPage
  <2>3. CASE \E content \in PageContents(p) : Write(p, content)
    BY <2>1, <2>3 DEF Write
  <2>4. CASE \E content \in PageContents(p) : p # 0 /\ WriteUnmarked(p, content)
    BY <2>1, <2>4 DEF WriteUnmarked
  <2>5. CASE \E h \in Headers : ReusePage(p, h)
    BY <2>1, <2>5 DEF ReusePage, Contents
  <2>6. QED
    BY <2>2, <2>3, <2>4, <2>5
<1>4. TypeOK'
  BY <1>1, <1>2, <1>3 DEF IInv, TypeOK, fileVars, controlVars
<1>5. LogReadable' /\ FileEnds'
  BY <1>1, FilesAlone DEF IInv
<1>6. Bookkeeping' /\ MapTracksLog'
  BY <1>1, <1>3 DEF IInv, Bookkeeping, MapTracksLog, fileVars
<1>7. LogCommitted' /\ FlushOrder' /\ TailIsNext' /\ CopiedPages'
  BY <1>1 DEF IInv, LogCommitted, FlushOrder, TailIsNext, CopiedPages, fileVars
<1>8. QED
  BY <1>4, <1>5, <1>6, <1>7 DEF IInv

\* A process that is gone leaves only the files to account for.
LEMMA GoneInv ==
  ASSUME Gone, LogReadable', FileEnds',
         db' \in [Pages -> Contents], dbLen' \in 0 .. TABLE_MAX_PAGES,
         torn' \in BOOLEAN, wal' \in Seq(Frames), tail' \in FrameHeaders \cup {NULL}
  PROVE  IInv'
<1> USE PagerAssumption
<1>1. TypeOK'
  BY DEF Gone, TypeOK, NoPages, NoFrames
<1>2. Bookkeeping' /\ MapTracksLog' /\ LogCommitted' /\ FlushOrder' /\ TailIsNext'
      /\ CopiedPages'
  BY DEF Gone, Bookkeeping, MapTracksLog, LogCommitted, FlushOrder, TailIsNext,
         CopiedPages
<1>3. QED
  BY <1>1, <1>2 DEF IInv

\* The end of the process, at any point, keeps the invariant.
LEMMA CrashInv == IInv /\ Crash => IInv'
<1> SUFFICES ASSUME IInv, Crash PROVE IInv'
  OBVIOUS
<1>1. LogReadable' /\ FileEnds'
  BY FilesAlone DEF IInv, Crash
<1>2. QED
  BY <1>1, GoneInv DEF IInv, TypeOK, Crash, fileVars

\* The replayed log is the committed prefix of the log, mapped page by page.
LEMMA ReplayFacts ==
  ASSUME IInv, ReplayWal
  PROVE  /\ wal' \in Seq(Frames)
         /\ tail' \in FrameHeaders \cup {NULL}
         /\ CommitPoint(wal) \in Nat
         /\ Len(wal') = CommitPoint(wal)
         /\ IsCommitPoint(wal', CommitPoint(wal))
         /\ CommitPoint(wal') = CommitPoint(wal)
         /\ ReplayedFrames \in [Pages -> Nat]
         /\ \A p \in Pages :
              /\ IsLastFrame(wal', CommitPoint(wal), p, ReplayedFrames[p])
              /\ LastFrame(wal', CommitPoint(wal), p) = ReplayedFrames[p]
              /\ OnDisk(p) \in Contents
              /\ ReplayedFrames[p] > 0 => wal'[ReplayedFrames[p]] = wal[ReplayedFrames[p]]
<1> DEFINE c == CommitPoint(wal)
<1>1. wal \in Seq(Frames) /\ IsCommitPoint(wal, c) /\ c \in 0 .. Len(wal)
  BY DEF IInv, TypeOK, LogReadable, IsCommitPoint
<1>2. c \in Nat /\ Len(wal) \in Nat
  BY <1>1
<1>3. /\ wal' \in Seq(Frames) /\ Len(wal') = c
      /\ \A i \in 1 .. c : wal'[i] = wal[i]
      /\ IsCommitPoint(wal', c)
      /\ \A p, f : IsLastFrame(wal, c, p, f) => IsLastFrame(wal', c, p, f)
  BY <1>1, ReplayKeeps DEF ReplayWal
<1>4. CommitPoint(wal') = c
  BY <1>3, CommitPointIs
<1>5. tail' \in FrameHeaders \cup {NULL}
  BY DEF ReplayWal, IInv, TypeOK
<1>6. ASSUME NEW p \in Pages
      PROVE  /\ ReplayedFrames[p] \in 0 .. c
             /\ IsLastFrame(wal', c, p, ReplayedFrames[p])
             /\ LastFrame(wal', c, p) = ReplayedFrames[p]
  <2>1. ReplayedFrames[p] = LastFrame(wal, c, p)
    BY DEF ReplayedFrames
  <2>2. IsLastFrame(wal, c, p, ReplayedFrames[p])
    BY <2>1 DEF IInv, LogReadable
  <2>3. ReplayedFrames[p] \in 0 .. c
    BY <2>2 DEF IsLastFrame
  <2>4. IsLastFrame(wal', c, p, ReplayedFrames[p])
    BY <2>2, <1>3
  <2>5. wal' \in Seq(Frames) /\ c \in Nat
    BY <1>2, <1>3
  <2>6. QED
    BY <2>3, <2>4, <2>5, LastFrameIs
<1>7. ReplayedFrames \in [Pages -> Nat]
  BY <1>2, <1>6 DEF ReplayedFrames
<1>8. ASSUME NEW p \in Pages
      PROVE  OnDisk(p) \in Contents
  <2>1. CASE ReplayedFrames[p] > 0
    <3>1. wal[ReplayedFrames[p]] \in Frames
      BY <1>1, <1>2, <1>6, <2>1
    <3>2. QED
      BY <2>1, <3>1 DEF OnDisk, PageOnMiss, Frames
  <2>2. CASE ~(ReplayedFrames[p] > 0)
    BY <2>2 DEF OnDisk, PageOnMiss, IInv, TypeOK, Contents
  <2>3. QED
    BY <2>1, <2>2
<1>9. \A p \in Pages : ReplayedFrames[p] > 0
                       => wal'[ReplayedFrames[p]] = wal[ReplayedFrames[p]]
  BY <1>2, <1>3, <1>6
<1>10. QED
  BY <1>2, <1>3, <1>4, <1>5, <1>6, <1>7, <1>8, <1>9

\* Opening the database keeps the invariant, in each of its outcomes.
LEMMA DbOpenInv == IInv /\ DbOpen => IInv'
<1> SUFFICES ASSUME IInv, DbOpen PROVE IInv'
  OBVIOUS
<1> USE PagerAssumption
<1>1. CASE DbOpenCorrupt
  BY <1>1 DEF DbOpenCorrupt, IInv, TypeOK, LogReadable, FileEnds, Bookkeeping,
     MapTracksLog, LogCommitted, FlushOrder, TailIsNext, CopiedPages, vars, fileVars,
     pagerVars, controlVars, UncommittedFrames, IsNextDirty, IsLastDirty
<1>2. ASSUME ReplayWal, UNCHANGED <<db, dbLen>>
      PROVE  LogReadable' /\ FileEnds'
  BY <1>2, ReplayFacts DEF LogReadable, FileEnds, IInv
<1>3. CASE DbOpenNoRootLeft
  BY <1>2, <1>3, ReplayFacts, GoneInv DEF DbOpenNoRootLeft, IInv, TypeOK
<1>4. CASE DbOpenNew \/ DbOpenExisting \/ DbOpenRepair
  <2>1. PagerOpen /\ ReplayWal
    BY <1>4 DEF DbOpenNew, DbOpenExisting, DbOpenRepair, PagerOpen
  <2>2. LogReadable' /\ FileEnds'
    BY <1>2, <2>1 DEF PagerOpen
  <2>3. /\ pages' \in [Pages -> Contents \cup {NULL}]
        /\ page_dirty' \in SUBSET Pages
        /\ \A p \in page_dirty' : pages'[p] # NULL
        /\ num_pages' \in 0 .. TABLE_MAX_PAGES
        /\ pc' \in {"idle", "commit"}
        /\ caller' \in {"none", "open"}
    <3>1. /\ 0 \in Pages /\ MasterRoot \in Pages
          /\ {NEW_HEADER, NEW_ROOT} \cup Headers \subseteq Contents
          /\ \A p \in Pages : OnDisk(p) \in Contents
      BY <2>1, ReplayFacts DEF Pages, MasterRoot, Contents
    <3>2. CASE DbOpenNew
      BY <3>1, <3>2 DEF DbOpenNew, NoPages, MasterRoot
    <3>3. CASE DbOpenExisting
      BY <3>1, <3>3 DEF DbOpenExisting, NoPages, IInv, TypeOK
    <3>4. CASE DbOpenRepair
      BY <3>1, <3>4 DEF DbOpenRepair, IInv, TypeOK
    <3>5. QED
      BY <1>4, <3>2, <3>3, <3>4
  <2>4. TypeOK'
    BY <2>1, <2>3, ReplayFacts DEF PagerOpen, IInv, TypeOK
  <2>5. Bookkeeping'
    BY <2>1, <2>3, ReplayFacts DEF PagerOpen, Bookkeeping, IInv, TypeOK
  <2>6. MapTracksLog' /\ LogCommitted'
    BY <2>1, <2>3, ReplayFacts DEF PagerOpen, MapTracksLog, LogCommitted
  <2>7. FlushOrder' /\ TailIsNext' /\ CopiedPages'
    BY <2>3 DEF FlushOrder, TailIsNext, CopiedPages
  <2>8. QED
    BY <2>2, <2>4, <2>5, <2>6, <2>7 DEF IInv
<1>5. QED
  BY <1>1, <1>3, <1>4 DEF DbOpen

\* Asking for a commit, by a statement or by db_close, keeps the invariant.
LEMMA BeginInv == IInv /\ (CommitStatement \/ DbClose) => IInv'
<1> SUFFICES ASSUME IInv, CommitStatement \/ DbClose PROVE IInv'
  OBVIOUS
<1> USE PagerAssumption
<1>1. /\ UNCHANGED <<fileVars, pages, page_to_wal_frame, wal_frame_count, num_pages,
                     file_length, next>>
      /\ pc = "idle" /\ pc' = "commit"
      /\ caller' \in {"statement", "close"}
      /\ page_dirty \subseteq page_dirty' /\ page_dirty' \in SUBSET Pages
      /\ \A p \in page_dirty' : pages[p] # NULL
  BY DEF IInv, TypeOK, Bookkeeping, CommitStatement, DbClose, pagerVars
<1>2. TypeOK'
  BY <1>1 DEF IInv, TypeOK, fileVars
<1>3. LogReadable' /\ FileEnds'
  BY <1>1, FilesAlone DEF IInv
<1>4. Bookkeeping' /\ MapTracksLog' /\ LogCommitted'
  BY <1>1 DEF IInv, Bookkeeping, MapTracksLog, LogCommitted, fileVars
<1>5. FlushOrder' /\ TailIsNext' /\ CopiedPages'
  BY <1>1 DEF FlushOrder, TailIsNext, CopiedPages
<1>6. QED
  BY <1>2, <1>3, <1>4, <1>5 DEF IInv

\* Between commits no frame is uncommitted.
LEMMA AllCommitted ==
  ASSUME IInv, pc \in {"idle", "commit", "checkpoint"}
  PROVE  CommitPoint(wal) = Len(wal) /\ UncommittedFrames = {}
<1>1. wal \in Seq(Frames) /\ Len(wal) \in Nat
  BY DEF IInv, TypeOK
<1>2. CommitPoint(wal) = Len(wal)
  BY <1>1, CommitPointIs DEF IInv, LogCommitted
<1>3. QED
  BY <1>1, <1>2 DEF UncommittedFrames

\* How the control of a commit goes on when its pages are flushed.
LEMMA CommitReturnsTo ==
  ASSUME CommitReturns, TypeOK
  PROVE  /\ pages' \in [Pages -> Contents \cup {NULL}]
         /\ pc' \in {"idle", "checkpoint"}
         /\ caller' \in {"none", "pager_checkpoint"}
BY DEF CommitReturns, TypeOK

\* A commit finds something to flush or returns: either keeps the invariant.
LEMMA StartCommitInv == IInv /\ StartCommit => IInv'
<1> SUFFICES ASSUME IInv, StartCommit PROVE IInv'
  OBVIOUS
<1> USE PagerAssumption
<1>1. /\ UNCHANGED <<fileVars, page_to_wal_frame, wal_frame_count, page_dirty,
                     num_pages, file_length>>
      /\ pc = "commit" /\ next' = 0
      /\ pages' \in [Pages -> Contents \cup {NULL}]
      /\ pc' \in {"idle", "checkpoint", "header"}
      /\ caller' \in {"none", "open", "statement", "close", "pager_checkpoint"}
      /\ page_dirty = {} => pc' \in {"idle", "checkpoint"}
      /\ page_dirty # {} => pc' = "header" /\ pages' = pages
  BY CommitReturnsTo DEF IInv, TypeOK, StartCommit
<1>2. TypeOK'
  BY <1>1 DEF IInv, TypeOK, fileVars
<1>3. LogReadable' /\ FileEnds'
  BY <1>1, FilesAlone DEF IInv
<1>4. Bookkeeping' /\ MapTracksLog'
  BY <1>1 DEF IInv, Bookkeeping, MapTracksLog, fileVars
<1>5. LogCommitted'
  BY <1>1 DEF IInv, LogCommitted, fileVars
<1>6. FlushOrder'
  <2>1. UncommittedFrames' = {}
    BY <1>1, AllCommitted DEF UncommittedFrames, fileVars
  <2>2. QED
    BY <1>1, <2>1 DEF FlushOrder
<1>7. TailIsNext' /\ CopiedPages'
  BY <1>1, <1>2 DEF TailIsNext, CopiedPages, TypeOK, Pages
<1>8. QED
  BY <1>2, <1>3, <1>4, <1>5, <1>6, <1>7 DEF IInv

\* Writing the header of a frame keeps the invariant.
LEMMA FlushHeaderInv ==
  ASSUME IInv, NEW p \in Pages, FlushHeader(p)
  PROVE  IInv'
<1>1. /\ UNCHANGED <<db, dbLen, torn, wal, pagerVars, caller, next>>
      /\ pc = "header" /\ pc' = "page"
      /\ IsNextDirty(p) /\ tail' = [page_num |-> p, is_commit |-> IsLastDirty(p)]
  BY DEF FlushHeader
<1>2. tail' \in FrameHeaders
  BY <1>1 DEF FrameHeaders, IsLastDirty
<1>3. TypeOK'
  BY <1>1, <1>2 DEF IInv, TypeOK, pagerVars
<1>4. LogReadable' /\ FileEnds' /\ Bookkeeping' /\ MapTracksLog' /\ LogCommitted'
  BY <1>1 DEF IInv, LogReadable, FileEnds, Bookkeeping, MapTracksLog, LogCommitted,
              pagerVars
<1>5. FlushOrder' /\ TailIsNext' /\ CopiedPages'
  BY <1>1, <1>2 DEF IInv, FlushOrder, TailIsNext, CopiedPages, pagerVars,
                    UncommittedFrames, IsNextDirty, IsLastDirty
<1>6. QED
  BY <1>3, <1>4, <1>5 DEF IInv

\* Copying the next mapped page keeps the invariant.
LEMMA CheckpointPageInv ==
  ASSUME IInv, NEW p \in Pages, CheckpointPage(p)
  PROVE  IInv'
<1>1. /\ UNCHANGED <<torn, wal, tail, pagerVars, pc, caller>>
      /\ pc = "checkpoint" /\ IsNextCopy(p)
      /\ db' = [db EXCEPT ![p] = wal[page_to_wal_frame[p]].data]
      /\ dbLen' = (IF p < dbLen THEN dbLen ELSE p + 1)
      /\ next' = p + 1
  BY DEF CheckpointPage
<1>2. page_to_wal_frame[p] \in 1 .. Len(wal)
  BY <1>1 DEF IInv, TypeOK, MapTracksLog, IsLastFrame, IsNextCopy
<1>3. wal[page_to_wal_frame[p]].data \in Contents
  <2>1. wal[page_to_wal_frame[p]] \in Frames
    BY <1>2 DEF IInv, TypeOK
  <2>2. QED
    BY <2>1 DEF Frames
<1>4. TypeOK'
  <2>1. p \in Nat /\ p + 1 \in 0 .. TABLE_MAX_PAGES
    BY PagerAssumption DEF Pages
  <2>2. db' \in [Pages -> Contents]
    BY <1>1, <1>3 DEF IInv, TypeOK
  <2>3. dbLen' \in 0 .. TABLE_MAX_PAGES /\ next' \in 0 .. TABLE_MAX_PAGES
    BY <1>1, <2>1 DEF IInv, TypeOK
  <2>4. QED
    BY <1>1, <2>2, <2>3 DEF IInv, TypeOK, pagerVars
<1>5. LogReadable' /\ MapTracksLog' /\ LogCommitted'
  BY <1>1 DEF IInv, LogReadable, MapTracksLog, LogCommitted, pagerVars
<1>6. FileEnds'
  BY <1>1, PagerAssumption DEF IInv, TypeOK, FileEnds, Pages
<1>7. Bookkeeping'
  BY <1>1, PagerAssumption DEF IInv, TypeOK, Bookkeeping, pagerVars, Pages
<1>8. FlushOrder' /\ TailIsNext'
  BY <1>1 DEF FlushOrder, TailIsNext
<1>9. CopiedPages'
  <2>1. ASSUME NEW q \in Pages, q < p + 1, page_to_wal_frame[q] > 0
        PROVE  db'[q] = wal[page_to_wal_frame[q]].data
    <3>1. CASE q = p
      BY <1>1, <3>1 DEF IInv, TypeOK
    <3>2. CASE q # p
      <4>1. q < p /\ q \in Nat /\ p \in Nat /\ next \in Nat
        BY <2>1, <3>2, PagerAssumption DEF Pages, IInv, TypeOK
      <4>2. q < next
        BY <1>1, <2>1, <4>1 DEF IsNextCopy
      <4>3. QED
        BY <1>1, <2>1, <3>2, <4>2 DEF IInv, TypeOK, CopiedPages
    <3>3. QED
      BY <3>1, <3>2
  <2>2. QED
    BY <1>1, <2>1 DEF CopiedPages, IInv, pagerVars
<1>10. QED
  BY <1>4, <1>5, <1>6, <1>7, <1>8, <1>9 DEF IInv

\* A short write of a page ends the process and keeps the invariant.
LEMMA ShortWriteInv ==
  ASSUME IInv, NEW p \in Pages, CheckpointShortWrite(p)
  PROVE  IInv'
<1> USE PagerAssumption
<1>1. /\ UNCHANGED <<wal, tail>> /\ Gone
      /\ \/ db' = [db EXCEPT ![p] = TORN] /\ UNCHANGED <<dbLen, torn>> /\ p < dbLen
         \/ dbLen' = p /\ torn' = TRUE /\ UNCHANGED db /\ ~(p < dbLen)
  BY DEF CheckpointShortWrite
<1>2. /\ db' \in [Pages -> Contents] /\ dbLen' \in 0 .. TABLE_MAX_PAGES
      /\ torn' \in BOOLEAN /\ wal' \in Seq(Frames) /\ tail' \in FrameHeaders \cup {NULL}
  <2>1. p \in 0 .. TABLE_MAX_PAGES /\ TORN \in Contents
    BY DEF Contents, Pages
  <2>2. torn' \in BOOLEAN /\ dbLen' \in 0 .. TABLE_MAX_PAGES
    BY <1>1, <2>1 DEF IInv, TypeOK
  <2>3. db' \in [Pages -> Contents]
    BY <1>1, <2>1 DEF IInv, TypeOK
  <2>4. QED
    BY <1>1, <2>2, <2>3 DEF IInv, TypeOK
<1>3. LogReadable'
  BY <1>1 DEF IInv, LogReadable
<1>4. FileEnds'
  BY <1>1 DEF IInv, TypeOK, FileEnds, Pages
<1>5. QED
  BY <1>1, <1>2, <1>3, <1>4, GoneInv

\* Emptying the log after the last copy keeps the invariant.
LEMMA TruncateInv == IInv /\ CheckpointTruncate => IInv'
<1> SUFFICES ASSUME IInv, CheckpointTruncate PROVE IInv'
  OBVIOUS
<1> USE PagerAssumption
<1>1. /\ pc = "checkpoint" /\ wal' = <<>> /\ tail' = NULL
      /\ UNCHANGED <<db, dbLen, torn>>
  BY DEF CheckpointTruncate
<1>2. LogReadable' /\ FileEnds'
  BY <1>1, EmptyLog DEF IInv, LogReadable, FileEnds
<1>3. CASE caller = "pager_checkpoint"
  BY <1>1, <1>2, <1>3, GoneInv DEF CheckpointTruncate, IInv, TypeOK
<1>4. CASE caller # "pager_checkpoint"
  <2>1. /\ page_to_wal_frame' = NoFrames /\ wal_frame_count' = 0 /\ next' = 0
        /\ UNCHANGED <<page_dirty, num_pages, file_length>>
        /\ pages' \in [Pages -> Contents \cup {NULL}]
        /\ pc' \in {"idle", "checkpoint"}
        /\ caller' \in {"none", "pager_checkpoint"}
        /\ page_dirty = {}
    BY <1>1, <1>4, CommitReturnsTo DEF CheckpointTruncate, IInv, CopiedPages
  <2>2. TypeOK'
    BY <1>1, <2>1 DEF IInv, TypeOK, NoFrames
  <2>3. Bookkeeping' /\ MapTracksLog' /\ LogCommitted'
    BY <1>1, <2>1, EmptyLog DEF IInv, Bookkeeping, MapTracksLog, LogCommitted, NoFrames
  <2>4. FlushOrder' /\ TailIsNext' /\ CopiedPages'
    BY <2>1 DEF FlushOrder, TailIsNext, CopiedPages, NoFrames
  <2>5. QED
    BY <1>2, <2>2, <2>3, <2>4 DEF IInv
<1>5. QED
  BY <1>3, <1>4

\* pager_flush appends the next dirty page to the log and maps it.
Appended(p) ==
  /\ Len(wal) \in Nat
  /\ p \in page_dirty /\ pages[p] \in Contents
  /\ wal' \in Seq(Frames)
  /\ Len(wal') = Len(wal) + 1
  /\ \A i \in 1 .. Len(wal) : wal'[i] = wal[i]
  /\ wal'[Len(wal) + 1] = [page_num |-> p, is_commit |-> IsLastDirty(p),
                           data |-> pages[p]]
  /\ wal_frame_count' = Len(wal) + 1
  /\ page_to_wal_frame' = [page_to_wal_frame EXCEPT ![p] = Len(wal) + 1]
  /\ page_dirty' = page_dirty \ {p}
  /\ \A q \in Pages :
       \/ IsLastFrame(wal', Len(wal) + 1, q, page_to_wal_frame'[q])
       \/ page_to_wal_frame'[q] = 0 /\ q \in page_dirty'

\* pager_flush completes the frame of the next dirty page.
LEMMA FlushPageFacts ==
  ASSUME IInv, NEW p \in Pages, FlushPage(p)
  PROVE  Appended(p)
<1> USE PagerAssumption
<1> DEFINE n == Len(wal)
           f == [page_num |-> p, is_commit |-> IsLastDirty(p), data |-> pages[p]]
<1>1. /\ wal \in Seq(Frames) /\ n \in Nat /\ wal_frame_count = n
      /\ page_dirty \in SUBSET Pages
      /\ p \in page_dirty /\ \A q \in page_dirty : p <= q
  BY DEF IInv, TypeOK, Bookkeeping, FlushPage, IsNextDirty
<1>2. tail.page_num = p /\ tail.is_commit = IsLastDirty(p)
  <2>1. tail.page_num \in page_dirty /\ \A q \in page_dirty : tail.page_num <= q
    BY DEF IInv, TailIsNext, FlushPage, IsNextDirty
  <2>2. tail.page_num = p
    <3>1. tail.page_num \in Nat /\ p \in Nat
      BY <1>1, <2>1, PagesAreNaturals
    <3>2. tail.page_num <= p /\ p <= tail.page_num
      BY <1>1, <2>1
    <3>3. QED
      BY <3>1, <3>2
  <2>3. QED
    BY <2>2 DEF IInv, TailIsNext, FlushPage
<1>3. pages[p] \in Contents /\ IsLastDirty(p) \in BOOLEAN
  BY <1>1 DEF IInv, TypeOK, Bookkeeping, IsLastDirty
<1>4. f \in Frames
  BY <1>3 DEF Frames
<1>5. wal' = WriteFrame(wal, n + 1, f)
  BY <1>1, <1>2 DEF FlushPage
<1>6. /\ wal' \in Seq(Frames) /\ Len(wal') = n + 1 /\ wal'[n + 1] = f
      /\ \A i \in 1 .. n : wal'[i] = wal[i]
  <2>1. wal \in Seq(Frames) /\ f \in Frames
    BY <1>1, <1>4
  <2>2. /\ WriteFrame(wal, n + 1, f) \in Seq(Frames)
        /\ Len(WriteFrame(wal, n + 1, f)) = n + 1
        /\ WriteFrame(wal, n + 1, f)[n + 1] = f
        /\ \A i \in 1 .. n : WriteFrame(wal, n + 1, f)[i] = wal[i]
    <3> HIDE DEF f
    <3>1. QED
      BY <2>1, WriteFrameAppends
  <2>3. QED
    BY <1>5, <2>2
<1>7. /\ wal_frame_count' = n + 1
      /\ page_to_wal_frame' = [page_to_wal_frame EXCEPT ![p] = n + 1]
      /\ page_dirty' = page_dirty \ {p}
  BY <1>1 DEF FlushPage
<1>8. ASSUME NEW q \in Pages
      PROVE  \/ IsLastFrame(wal', n + 1, q, page_to_wal_frame'[q])
             \/ page_to_wal_frame'[q] = 0 /\ q \in page_dirty'
  <2>1. CASE q = p
    BY <1>1, <1>6, <1>7, <2>1 DEF IsLastFrame, IInv, TypeOK
  <2>2. CASE q # p
    <3>1. page_to_wal_frame'[q] = page_to_wal_frame[q]
      BY <1>7, <2>2 DEF IInv, TypeOK
    <3>2. CASE page_to_wal_frame[q] = 0 /\ q \in page_dirty
      BY <1>7, <2>2, <3>1, <3>2
    <3>3. CASE IsLastFrame(wal, n, q, page_to_wal_frame[q])
      <4>1. wal'[n + 1].page_num # q
        BY <1>6, <2>2
      <4>2. IsLastFrame(wal', n + 1, q, page_to_wal_frame[q])
        BY <1>1, <1>6, <3>3, <4>1 DEF IsLastFrame
      <4>3. QED
        BY <3>1, <4>2
    <3>4. QED
      BY <3>2, <3>3 DEF IInv, MapTracksLog, FlushPage
  <2>3. QED
    BY <2>1, <2>2
<1>9. QED
  BY <1>1, <1>3, <1>6, <1>7, <1>8 DEF Appended

\* A frame that is not the last of its commit leaves the image alone.
SameCommitPoint ==
  /\ page_dirty' # {}
  /\ CommitPoint(wal) \in 0 .. Len(wal)
  /\ IsCommitPoint(wal', CommitPoint(wal))
  /\ CommitPoint(wal') = CommitPoint(wal)
  /\ \A q \in Pages :
       /\ LastFrame(wal, CommitPoint(wal), q) \in 0 .. CommitPoint(wal)
       /\ IsLastFrame(wal', CommitPoint(wal), q, LastFrame(wal, CommitPoint(wal), q))
       /\ LastFrame(wal', CommitPoint(wal), q) = LastFrame(wal, CommitPoint(wal), q)

\* A frame that is not the last of its commit leaves the commit point alone.
LEMMA FlushMiddle ==
  ASSUME IInv, NEW p \in Pages, FlushPage(p), ~IsLastDirty(p)
  PROVE  SameCommitPoint
<1> DEFINE c == CommitPoint(wal)
<1>1. /\ Len(wal) \in Nat /\ wal' \in Seq(Frames) /\ Len(wal') = Len(wal) + 1
      /\ \A i \in 1 .. Len(wal) : wal'[i] = wal[i]
      /\ ~wal'[Len(wal) + 1].is_commit
      /\ page_dirty' = page_dirty \ {p}
  <2>1. Appended(p)
    BY FlushPageFacts
  <2>2. QED
    BY <2>1 DEF Appended
<1>2. page_dirty' # {}
  <2>1. PICK q \in page_dirty : ~(q <= p)
    BY DEF IsLastDirty
  <2>2. q # p
    BY <2>1, PagerAssumption DEF Pages
  <2>3. QED
    BY <1>1, <2>1, <2>2
<1>3. c \in 0 .. Len(wal) /\ IsCommitPoint(wal, c)
  BY DEF IInv, LogReadable, IsCommitPoint
<1>4. IsCommitPoint(wal', c)
  BY <1>1, <1>3 DEF IsCommitPoint
<1>5. CommitPoint(wal') = c
  BY <1>1, <1>4, CommitPointIs
<1>6. ASSUME NEW q \in Pages
      PROVE  /\ LastFrame(wal, c, q) \in 0 .. c
             /\ IsLastFrame(wal', c, q, LastFrame(wal, c, q))
             /\ LastFrame(wal', c, q) = LastFrame(wal, c, q)
  <2>1. IsLastFrame(wal, c, q, LastFrame(wal, c, q))
    BY DEF IInv, LogReadable
  <2>2. LastFrame(wal, c, q) \in 0 .. c
    BY <2>1 DEF IsLastFrame
  <2>3. IsLastFrame(wal', c, q, LastFrame(wal, c, q))
    BY <1>1, <1>3, <2>1, <2>2 DEF IsLastFrame
  <2>4. QED
    BY <1>1, <1>3, <2>2, <2>3, LastFrameIs
<1>7. QED
  BY <1>2, <1>3, <1>4, <1>5, <1>6 DEF SameCommitPoint

\* The commit frame makes the whole log committed.
AllInCommit(p) ==
  /\ page_dirty = {p} /\ page_dirty' = {}
  /\ IsCommitPoint(wal', Len(wal) + 1)
  /\ CommitPoint(wal') = Len(wal) + 1
  /\ \A q \in Pages :
       /\ IsLastFrame(wal', Len(wal) + 1, q, page_to_wal_frame'[q])
       /\ LastFrame(wal', Len(wal) + 1, q) = page_to_wal_frame'[q]

\* The last frame of a commit moves the commit point to the end of the log.
LEMMA FlushLast ==
  ASSUME IInv, NEW p \in Pages, FlushPage(p), IsLastDirty(p)
  PROVE  AllInCommit(p)
<1>0. Appended(p)
  BY FlushPageFacts
<1>1. page_dirty = {p}
  <2>1. \A q \in page_dirty : p <= q /\ q <= p
    BY DEF FlushPage, IsNextDirty, IsLastDirty
  <2>2. QED
    <3>1. p \in page_dirty /\ page_dirty \subseteq Nat
      BY <1>0, PagesAreNaturals DEF Appended, IInv, TypeOK
    <3>2. \A q \in page_dirty : q = p
      BY <2>1, <3>1
    <3>3. QED
      BY <3>1, <3>2
<1>2. /\ Len(wal) \in Nat /\ wal' \in Seq(Frames) /\ Len(wal') = Len(wal) + 1
      /\ wal'[Len(wal) + 1].is_commit
      /\ page_dirty' = {}
  BY <1>0, <1>1 DEF Appended
<1>3. IsCommitPoint(wal', Len(wal) + 1)
  BY <1>2 DEF IsCommitPoint
<1>4. \A q \in Pages : IsLastFrame(wal', Len(wal) + 1, q, page_to_wal_frame'[q])
  BY <1>0, <1>2 DEF Appended
<1>5. CommitPoint(wal') = Len(wal) + 1
  BY <1>2, <1>3, CommitPointIs
<1>6. \A q \in Pages : LastFrame(wal', Len(wal) + 1, q) = page_to_wal_frame'[q]
  BY <1>2, <1>4, LastFrameIs
<1>7. QED
  BY <1>1, <1>2, <1>3, <1>4, <1>5, <1>6 DEF AllInCommit

\* Completing a frame keeps the invariant, whether or not it is the last.
LEMMA FlushPageInv ==
  ASSUME IInv, NEW p \in Pages, FlushPage(p)
  PROVE  IInv'
<1> USE PagerAssumption
<1>0. Appended(p)
  BY FlushPageFacts
<1>1. /\ UNCHANGED <<db, dbLen, torn, num_pages, file_length, next>>
      /\ pc = "page" /\ tail' = NULL
  BY DEF FlushPage
<1>2. /\ pages' \in [Pages -> Contents \cup {NULL}]
      /\ pc' \in {"idle", "checkpoint", "header"}
      /\ caller' \in {"none", "open", "statement", "close", "pager_checkpoint"}
      /\ page_dirty' # {} => pc' = "header" /\ pages' = pages
      /\ page_dirty' = {} => pc' \in {"idle", "checkpoint"}
  BY CommitReturnsTo DEF IInv, TypeOK, FlushPage
<1>3. TypeOK'
  <2>1. page_to_wal_frame' \in [Pages -> Nat]
    BY <1>0 DEF Appended, IInv, TypeOK
  <2>2. QED
    BY <1>0, <1>1, <1>2, <2>1 DEF Appended, IInv, TypeOK
<1>4. FileEnds'
  BY <1>1 DEF IInv, FileEnds
<1>5. Bookkeeping'
  BY <1>0, <1>1, <1>2 DEF Appended, IInv, Bookkeeping
<1>6. MapTracksLog'
  BY <1>0 DEF Appended, MapTracksLog
<1>7. TailIsNext'
  BY <1>2 DEF TailIsNext
<1>8. CASE IsLastDirty(p)
  <2>0. AllInCommit(p)
    BY <1>8, FlushLast
  <2>1. LogReadable' /\ LogCommitted'
    BY <1>0, <2>0 DEF Appended, AllInCommit, LogReadable, LogCommitted
  <2>2. FlushOrder'
    BY <1>2, <2>0 DEF AllInCommit, FlushOrder
  <2>3. CopiedPages'
    BY <1>1, <1>3, <2>0 DEF AllInCommit, IInv, FlushOrder, CopiedPages, Pages
  <2>4. QED
    BY <1>3, <1>4, <1>5, <1>6, <1>7, <2>1, <2>2, <2>3 DEF IInv
<1>9. CASE ~IsLastDirty(p)
  <2>0. SameCommitPoint
    BY <1>9, FlushMiddle
  <2>1. LogReadable'
    BY <2>0 DEF SameCommitPoint, LogReadable
  <2>2. pc' = "header" /\ pages' = pages
    BY <1>2, <2>0 DEF SameCommitPoint
  <2>3. LogCommitted' /\ CopiedPages'
    BY <2>2 DEF LogCommitted, CopiedPages
  <2>4. FlushOrder'
    <3>1. ASSUME NEW i \in UncommittedFrames'
          PROVE  /\ wal'[i].data = pages[wal'[i].page_num]
                 /\ \A q \in page_dirty' : wal'[i].page_num < q
      <4>1. i \in CommitPoint(wal) + 1 .. Len(wal) + 1
        BY <1>0, <2>0, <3>1 DEF Appended, SameCommitPoint, UncommittedFrames
      <4>2. CASE i = Len(wal) + 1
        <5>1. /\ wal'[i].data = pages[p] /\ wal'[i].page_num = p
              /\ page_dirty' = page_dirty \ {p}
          BY <1>0, <4>2 DEF Appended
        <5>2. \A q \in page_dirty : p <= q /\ q \in Nat
          BY DEF FlushPage, IsNextDirty, IInv, TypeOK, Pages
        <5>3. QED
          BY <5>1, <5>2 DEF Pages
      <4>3. CASE i # Len(wal) + 1
        <5>1. i \in UncommittedFrames /\ i \in 1 .. Len(wal)
          BY <1>0, <2>0, <4>1, <4>3 DEF Appended, SameCommitPoint, UncommittedFrames
        <5>2. wal'[i] = wal[i] /\ page_dirty' \subseteq page_dirty
          BY <1>0, <5>1 DEF Appended
        <5>3. QED
          BY <1>1, <5>1, <5>2 DEF IInv, FlushOrder
      <4>4. QED
        BY <4>2, <4>3
    <3>2. QED
      BY <1>1, <2>0, <2>2, <3>1 DEF SameCommitPoint, FlushOrder, IInv
  <2>5. QED
    BY <1>3, <1>4, <1>5, <1>6, <1>7, <2>1, <2>3, <2>4 DEF IInv
<1>10. QED
  BY <1>8, <1>9

\* The invariant is inductive: one case for each action.
LEMMA NextInv == IInv /\ [Next]_vars => IInv'
<1> SUFFICES ASSUME IInv, [Next]_vars PROVE IInv'
  OBVIOUS
<1>1. CASE UNCHANGED vars
  <2> USE <1>1 DEF vars, fileVars, pagerVars, controlVars, IInv
  <2>1. TypeOK' /\ LogReadable' /\ FileEnds'
    BY DEF TypeOK, LogReadable, FileEnds
  <2>2. Bookkeeping' /\ MapTracksLog' /\ LogCommitted'
    BY DEF Bookkeeping, MapTracksLog, LogCommitted
  <2>3. FlushOrder' /\ TailIsNext' /\ CopiedPages'
    BY DEF FlushOrder, UncommittedFrames, TailIsNext, IsNextDirty, IsLastDirty,
           CopiedPages
  <2>4. QED
    BY <2>1, <2>2, <2>3
<1>2. CASE DbOpen
  BY <1>2, DbOpenInv
<1>3. CASE Statement
  BY <1>3, StatementInv
<1>4. CASE CommitStatement \/ DbClose
  BY <1>4, BeginInv
<1>5. CASE StartCommit \/ CheckpointTruncate
  BY <1>5, StartCommitInv, TruncateInv
<1>6. ASSUME NEW p \in Pages, FlushHeader(p) \/ FlushPage(p) \/ CheckpointPage(p)
      PROVE  IInv'
  BY <1>6, FlushHeaderInv, FlushPageInv, CheckpointPageInv
<1>7. ASSUME NEW p \in Pages, CheckpointShortWrite(p)
      PROVE  IInv'
  BY <1>7, ShortWriteInv
<1>8. CASE Crash
  BY <1>8, CrashInv
<1>9. QED
  BY <1>1, <1>2, <1>3, <1>4, <1>5, <1>6, <1>7, <1>8 DEF Next, Busy

\* Every reachable state of the pager satisfies the inductive invariant.
THEOREM Invariant == Spec => []IInv
<1>1. Init => IInv
  BY InitInv
<1>2. IInv /\ [Next]_vars => IInv'
  BY NextInv
<1>3. QED
  BY <1>1, <1>2, PTL DEF Spec

\* Every variable of the pager keeps its type.
THEOREM TypeCorrect == Spec => []TypeOK
<1>1. IInv => TypeOK
  BY DEF IInv
<1>2. QED
  BY <1>1, Invariant, PTL

\* The map from pages to frames is exact between commits.
THEOREM MapIsExact == Spec => []MapExact
<1>1. IInv => MapExact
  BY DEF IInv, MapTracksLog, MapExact
<1>2. QED
  BY <1>1, Invariant, PTL

-----------------------------------------------------------------------------
(* The image and the pending pages. *)

\* With everything committed and nothing dirty, the map gives the image.
LEMMA MapGivesImage ==
  ASSUME IInv, pc \in {"idle", "commit", "checkpoint"}, NEW p \in Pages,
         page_to_wal_frame[p] > 0 \/ p \notin page_dirty
  PROVE  CommittedImage[p] = IF page_to_wal_frame[p] > 0
                             THEN wal[page_to_wal_frame[p]].data ELSE db[p]
<1>1. wal \in Seq(Frames) /\ IsCommitPoint(wal, Len(wal))
  BY DEF IInv, TypeOK, LogCommitted
<1>2. IsLastFrame(wal, Len(wal), p, page_to_wal_frame[p])
  BY DEF IInv, MapTracksLog
<1>3. QED
  BY <1>1, <1>2, ImageIs DEF CommittedImage

\* A cache miss returns the committed content of the page, except for a page
\* that a checkpoint has put behind the end of the file as it was opened.
THEOREM MissesReadCommitted == Spec => []MissReadsCommitted
<1>1. IInv => MissReadsCommitted
  <2> SUFFICES ASSUME IInv, pc = "idle", NEW p \in Pages, pages[p] = NULL,
                      page_to_wal_frame[p] > 0 \/ p < file_length \/ p >= dbLen
               PROVE  PageOnMiss(page_to_wal_frame, file_length, p) = CommittedImage[p]
    BY DEF MissReadsCommitted
  <2>1. p \notin page_dirty
    BY DEF IInv, Bookkeeping
  <2>2. CommittedImage[p] = IF page_to_wal_frame[p] > 0
                            THEN wal[page_to_wal_frame[p]].data ELSE db[p]
    BY <2>1, MapGivesImage
  <2>3. file_length <= dbLen /\ (p >= dbLen => db[p] = ZERO)
    BY DEF IInv, Bookkeeping, FileEnds
  <2>4. QED
    BY <2>2, <2>3, PagerAssumption DEF PageOnMiss, IInv, TypeOK, Pages
<1>2. QED
  BY <1>1, Invariant, PTL

\* What a checkpoint has copied agrees with the log.
THEOREM CheckpointsProgress == Spec => []CheckpointProgress
<1>1. IInv => CheckpointProgress
  <2> SUFFICES ASSUME IInv, pc = "checkpoint", NEW p \in Pages, p < next
               PROVE  db[p] = CommittedImage[p]
    BY DEF CheckpointProgress
  <2>1. QED
    BY MapGivesImage DEF IInv, CopiedPages
<1>2. QED
  BY <1>1, Invariant, PTL

\* When nothing is left to copy the file is the image.
LEMMA AllCopied ==
  ASSUME IInv, pc = "checkpoint",
         \A p \in Pages : p >= next => page_to_wal_frame[p] = 0
  PROVE  \A p \in Pages : CommittedImage[p] = db[p]
<1> SUFFICES ASSUME NEW p \in Pages PROVE CommittedImage[p] = db[p]
  OBVIOUS
<1>1. CommittedImage[p] = IF page_to_wal_frame[p] > 0
                          THEN wal[page_to_wal_frame[p]].data ELSE db[p]
  BY MapGivesImage DEF IInv, CopiedPages
<1>2. page_to_wal_frame[p] > 0 => p < next
  BY PagerAssumption DEF IInv, TypeOK, Pages
<1>3. QED
  BY <1>1, <1>2 DEF IInv, CopiedPages

\* db_close leaves the image in the file and the log empty.
THEOREM ClosesSyncFile == Spec => CloseSyncsFile
<1>1. IInv /\ [Next]_vars
      => (pc = "checkpoint" /\ caller = "pager_checkpoint" /\ pc' = "down" /\ wal # wal'
          => wal' = <<>> /\ db' = CommittedImage)
  <2> SUFFICES ASSUME IInv, [Next]_vars, pc = "checkpoint",
                      caller = "pager_checkpoint", pc' = "down", wal # wal'
               PROVE  wal' = <<>> /\ db' = CommittedImage
    OBVIOUS
  <2>1. CheckpointTruncate
    BY DEF Next, Busy, DbOpen, DbOpenNew, DbOpenExisting, DbOpenRepair, PagerOpen,
       DbOpenNoRootLeft, DbOpenCorrupt, Statement, GetPage, Write, WriteUnmarked,
       ReusePage, CommitStatement, DbClose, StartCommit, FlushHeader, FlushPage,
       CheckpointPage, CheckpointShortWrite, Crash, fileVars, vars
  <2>2. \A p \in Pages : CommittedImage[p] = db[p]
    BY <2>1, AllCopied DEF CheckpointTruncate, CopyDone
  <2>3. db = CommittedImage
    BY <2>2 DEF CommittedImage, ImageOf, IInv, TypeOK
  <2>4. QED
    BY <2>1, <2>3 DEF CheckpointTruncate
<1>2. QED
  BY <1>1, Invariant, PTL DEF Spec, CloseSyncsFile

-----------------------------------------------------------------------------
(* The pager implements PageStore. *)

\* A step that changes neither the log nor the database file keeps the image.
LEMMA SameFilesSameImage ==
  ASSUME UNCHANGED <<wal, db>>
  PROVE  CommittedImage' = CommittedImage
BY DEF CommittedImage

\* The image holds page contents.
LEMMA ImageTyped == IInv => CommittedImage \in [Pages -> Contents]
<1> SUFFICES ASSUME IInv, NEW p \in Pages
             PROVE  CommittedImage[p] \in Contents
  BY DEF CommittedImage, ImageOf
<1> DEFINE c == CommitPoint(wal)
           f == LastFrame(wal, c, p)
<1>1. /\ wal \in Seq(Frames) /\ Len(wal) \in Nat
      /\ IsCommitPoint(wal, c) /\ IsLastFrame(wal, c, p, f)
      /\ c \in 0 .. Len(wal) /\ f \in 0 .. c
  BY DEF IInv, TypeOK, LogReadable, IsCommitPoint, IsLastFrame
<1>2. CommittedImage[p] = IF f > 0 THEN wal[f].data ELSE db[p]
  BY <1>1, ImageIs DEF CommittedImage
<1>3. CASE f > 0
  <2>1. wal[f] \in Frames
    BY <1>1, <1>3
  <2>2. QED
    BY <1>2, <1>3, <2>1 DEF Frames
<1>4. CASE ~(f > 0)
  BY <1>2, <1>4 DEF IInv, TypeOK
<1>5. QED
  BY <1>3, <1>4

\* Pending pages are cached pages with their contents.
LEMMA PendingTyped ==
  IInv => /\ PendingPages \subseteq Pages
          /\ Pending \in PS!PartialImages
<1> SUFFICES ASSUME IInv PROVE /\ PendingPages \subseteq Pages
                               /\ Pending \in PS!PartialImages
  OBVIOUS
<1>1. ASSUME NEW p \in PendingPages
      PROVE  p \in Pages /\ pages[p] \in Contents
  <2>1. CASE p \in page_dirty
    BY <2>1 DEF IInv, TypeOK, Bookkeeping
  <2>2. CASE p \notin page_dirty
    <3>1. PICK i \in UncommittedFrames : p = wal[i].page_num
      BY <1>1, <2>2 DEF PendingPages
    <3>2. pc \in {"header", "page"}
      BY <1>1, <3>1, AllCommitted DEF PendingPages, IInv, TypeOK
    <3>3. i \in 1 .. Len(wal)
      BY <3>1 DEF UncommittedFrames, IInv, TypeOK, LogReadable, IsCommitPoint
    <3>4. wal[i] \in Frames
      BY <3>3 DEF IInv, TypeOK
    <3>5. QED
      BY <3>1, <3>2, <3>4 DEF IInv, FlushOrder, Frames
  <2>3. QED
    BY <2>1, <2>2
<1>2. Pending \in [PendingPages -> Contents]
  BY <1>1 DEF Pending
<1>3. QED
  BY <1>1, <1>2 DEF PS!PartialImages

\* Between commits the pending pages are the dirty ones.
LEMMA PendingIsDirty ==
  IInv /\ pc \in {"idle", "commit", "checkpoint"} => PendingPages = page_dirty
BY AllCommitted DEF PendingPages

\* Steps at which the client modifies pages, or nothing happens to them.
LEMMA UpdateStep ==
  ASSUME IInv, IInv', CommittedImage' = CommittedImage, ~Committing, ~Committing',
         PendingPages \subseteq PendingPages'
  PROVE  PS!Update
<1>0. (IInv => Pending \in PS!PartialImages)'
  BY PendingTyped, PTL
<1>1. Pending' \in PS!PartialImages'
  BY <1>0
<1>2. PS!PartialImages' = PS!PartialImages
  BY DEF PS!PartialImages
<1>3. DOMAIN Pending = PendingPages /\ DOMAIN Pending' = PendingPages'
  BY DEF Pending
<1>4. Committing' = Committing
  BY DEF Committing
<1>5. QED
  BY <1>1, <1>2, <1>3, <1>4 DEF PS!Update

\* Steps at which the process ends.
LEMMA ForgetStep ==
  ASSUME Gone, CommittedImage' = CommittedImage
  PROVE  PS!Forget
<1>1. PendingPages' = {} /\ Committing' = FALSE
  BY DEF Gone, PendingPages, Committing
<1>2. Pending' = PS!NothingPending
  BY <1>1 DEF Pending, PS!NothingPending
<1>3. QED
  BY <1>1, <1>2 DEF PS!Forget

\* Dropping the uncommitted frames does not change the image.
LEMMA ReplaySameImage ==
  ASSUME IInv, ReplayWal, UNCHANGED db
  PROVE  CommittedImage' = CommittedImage
<1> DEFINE c == CommitPoint(wal)
<1>1. /\ CommitPoint(wal') = c
      /\ \A p \in Pages : /\ LastFrame(wal', c, p) = ReplayedFrames[p]
                          /\ ReplayedFrames[p] > 0
                             => wal'[ReplayedFrames[p]] = wal[ReplayedFrames[p]]
  BY ReplayFacts
<1>2. \A p \in Pages : LastFrame(wal, c, p) = ReplayedFrames[p]
  BY DEF ReplayedFrames
<1>3. \A p \in Pages : CommittedImage'[p] = CommittedImage[p]
  BY <1>1, <1>2 DEF CommittedImage, ImageOf
<1>4. QED
  BY <1>3 DEF CommittedImage, ImageOf

\* Opening the database forgets, modifies pages, or does nothing, in PageStore.
LEMMA DbOpenRefines == IInv /\ IInv' /\ DbOpen => [PS!PSNext]_PS!psVars
<1> SUFFICES ASSUME IInv, IInv', DbOpen PROVE [PS!PSNext]_PS!psVars
  OBVIOUS
<1>1. CASE DbOpenCorrupt
  BY <1>1 DEF DbOpenCorrupt, vars, fileVars, pagerVars, controlVars, PS!psVars,
     CommittedImage, Pending, PendingPages, UncommittedFrames, Committing
<1>2. CASE DbOpenNoRootLeft
  BY <1>2, ReplaySameImage, ForgetStep DEF DbOpenNoRootLeft, PS!PSNext
<1>3. CASE DbOpenNew \/ DbOpenExisting \/ DbOpenRepair
  <2>1. /\ ReplayWal /\ UNCHANGED db
        /\ pc = "down" /\ pc' \in {"idle", "commit"}
    BY <1>3 DEF DbOpenNew, DbOpenExisting, DbOpenRepair, PagerOpen
  <2>2. PS!Update
    BY <2>1, ReplaySameImage, UpdateStep DEF PendingPages, Committing
  <2>3. QED
    BY <2>2 DEF PS!PSNext
<1>4. QED
  BY <1>1, <1>2, <1>3 DEF DbOpen

\* Statements modify pages, and asking for a commit does nothing, in PageStore.
LEMMA ClientRefines ==
  IInv /\ IInv' /\ (Statement \/ CommitStatement \/ DbClose) => PS!Update
<1> SUFFICES ASSUME IInv, IInv', Statement \/ CommitStatement \/ DbClose
             PROVE  PS!Update
  OBVIOUS
<1>1. /\ UNCHANGED <<wal, db>>
      /\ pc = "idle" /\ pc' \in {"idle", "commit"}
      /\ page_dirty \subseteq page_dirty'
  BY DEF Statement, GetPage, Write, WriteUnmarked, ReusePage, CommitStatement,
         DbClose, fileVars, pagerVars, controlVars
<1>0. (IInv /\ pc \in {"idle", "commit", "checkpoint"} => PendingPages = page_dirty)'
  BY PendingIsDirty, PTL
<1>2. PendingPages = page_dirty /\ PendingPages' = page_dirty'
  BY <1>0, <1>1, PendingIsDirty
<1>3. QED
  BY <1>1, <1>2, SameFilesSameImage, UpdateStep DEF Committing

\* A commit begins in PageStore when it has pages to flush.
LEMMA StartCommitRefines == IInv /\ IInv' /\ StartCommit => PS!PSNext
<1> SUFFICES ASSUME IInv, IInv', StartCommit PROVE PS!PSNext
  OBVIOUS
<1>1. /\ UNCHANGED <<wal, db, page_dirty>> /\ pc = "commit"
      /\ CommittedImage' = CommittedImage
      /\ UncommittedFrames' = UncommittedFrames
      /\ PendingPages = page_dirty
  BY SameFilesSameImage, PendingIsDirty DEF StartCommit, fileVars, UncommittedFrames
<1>2. CASE page_dirty = {}
  <2>1. pc' \in {"idle", "checkpoint"}
    BY <1>2 DEF StartCommit, CommitReturns
  <2>2. PS!Update
    BY <1>1, <1>2, <2>1, UpdateStep DEF Committing
  <2>3. QED
    BY <2>2 DEF PS!PSNext
<1>3. CASE page_dirty # {}
  <2>1. pc' = "header" /\ pages' = pages
    BY <1>3 DEF StartCommit
  <2>2. PendingPages' = PendingPages
    BY <1>1, <2>1 DEF PendingPages
  <2>3. Pending' = Pending
    BY <2>1, <2>2 DEF Pending
  <2>4. QED
    BY <1>1, <2>1, <2>3 DEF PS!PSNext, PS!BeginCommit, Committing
<1>4. QED
  BY <1>2, <1>3

\* Writing the header of a frame shows to nobody.
LEMMA FlushHeaderRefines ==
  ASSUME NEW p \in Pages, FlushHeader(p)
  PROVE  UNCHANGED PS!psVars
<1>1. UNCHANGED <<wal, db, pages, page_dirty>> /\ pc = "header" /\ pc' = "page"
  BY DEF FlushHeader, pagerVars
<1>2. CommittedImage' = CommittedImage /\ PendingPages' = PendingPages
  BY <1>1 DEF CommittedImage, PendingPages, UncommittedFrames
<1>3. Pending' = Pending /\ Committing' = Committing
  BY <1>1, <1>2 DEF Pending, Committing
<1>4. QED
  BY <1>2, <1>3 DEF PS!psVars

\* A frame in the middle of a commit moves its page from the dirty pages to the
\* uncommitted frames: it stays pending, and the image stays as it is.
LEMMA FlushMiddleRefines ==
  ASSUME IInv, NEW p \in Pages, FlushPage(p), ~IsLastDirty(p)
  PROVE  UNCHANGED PS!psVars
<1>1. Appended(p) /\ SameCommitPoint
  BY FlushPageFacts, FlushMiddle
<1>2. /\ pc = "page" /\ pc' = "header" /\ UNCHANGED <<pages, db>>
  BY <1>1 DEF FlushPage, SameCommitPoint
<1>3. CommittedImage' = CommittedImage
  <2>1. ASSUME NEW q \in Pages
        PROVE  CommittedImage'[q] = CommittedImage[q]
    <3>1. LastFrame(wal, CommitPoint(wal), q) > 0
          => wal'[LastFrame(wal, CommitPoint(wal), q)]
             = wal[LastFrame(wal, CommitPoint(wal), q)]
      BY <1>1 DEF Appended, SameCommitPoint
    <3>2. QED
      BY <1>1, <1>2, <3>1 DEF SameCommitPoint, CommittedImage, ImageOf
  <2>2. QED
    BY <2>1 DEF CommittedImage, ImageOf
<1>4. PendingPages' = PendingPages
  <2> DEFINE c == CommitPoint(wal)
             n == Len(wal)
  <2>1. n \in Nat /\ c \in 0 .. n
    BY <1>1 DEF Appended, SameCommitPoint
  <2>2. UncommittedFrames = c + 1 .. n /\ UncommittedFrames' = c + 1 .. n + 1
    BY <1>1 DEF Appended, SameCommitPoint, UncommittedFrames
  <2>3. \A i \in c + 1 .. n : wal'[i].page_num = wal[i].page_num
    BY <1>1, <2>1 DEF Appended
  <2>4. wal'[n + 1].page_num = p
    BY <1>1 DEF Appended
  <2>5. {wal'[i].page_num : i \in c + 1 .. n + 1}
        = {wal[i].page_num : i \in c + 1 .. n} \cup {p}
    <3> HIDE DEF c, n
    <3>1. c + 1 .. n + 1 = (c + 1 .. n) \cup {n + 1}
      BY <2>1
    <3>2. QED
      BY <2>3, <2>4, <3>1
  <2>6. page_dirty = page_dirty' \cup {p}
    BY <1>1 DEF Appended
  <2>7. QED
    BY <1>2, <2>2, <2>5, <2>6 DEF PendingPages
<1>5. Pending' = Pending /\ Committing' = Committing
  BY <1>2, <1>4 DEF Pending, Committing
<1>6. QED
  BY <1>3, <1>5 DEF PS!psVars

\* The commit frame brings all pending pages, and no other, into the image.
LEMMA FlushLastRefines ==
  ASSUME IInv, IInv', NEW p \in Pages, FlushPage(p), IsLastDirty(p)
  PROVE  PS!Commit
<1>1. Appended(p) /\ AllInCommit(p)
  BY FlushPageFacts, FlushLast
<1>2. /\ pc = "page" /\ pc' \in {"idle", "checkpoint"} /\ UNCHANGED db
      /\ Committing /\ ~Committing'
  BY <1>1, CommitReturnsTo DEF FlushPage, AllInCommit, Committing, IInv
<1>3. PendingPages' = {}
  <2>1. (IInv /\ pc \in {"idle", "commit", "checkpoint"} => PendingPages = page_dirty)'
    BY PendingIsDirty, PTL
  <2>2. QED
    BY <1>1, <1>2, <2>1 DEF AllInCommit
<1>4. Pending' = PS!NothingPending
  BY <1>3 DEF Pending, PS!NothingPending
<1>5. ASSUME NEW q \in Pages
      PROVE  CommittedImage'[q] = IF q \in PendingPages THEN pages[q]
                                                        ELSE CommittedImage[q]
  <2> DEFINE c == CommitPoint(wal)
             n == Len(wal)
             m == page_to_wal_frame[q]
  <2>1. /\ n \in Nat /\ c \in 0 .. n /\ m \in Nat
        /\ wal \in Seq(Frames) /\ IsCommitPoint(wal, c)
        /\ UncommittedFrames = c + 1 .. n
        /\ PendingPages = {p} \cup {wal[i].page_num : i \in c + 1 .. n}
    BY <1>1, <1>2 DEF Appended, AllInCommit, IInv, TypeOK, LogReadable, IsCommitPoint,
                      UncommittedFrames, PendingPages
  <2>2. CommittedImage'[q] = IF page_to_wal_frame'[q] > 0
                             THEN wal'[page_to_wal_frame'[q]].data ELSE db[q]
    BY <1>1, <1>2 DEF AllInCommit, CommittedImage, ImageOf
  <2>3. CASE q = p
    <3>1. page_to_wal_frame'[q] = n + 1 /\ wal'[n + 1].data = pages[q]
      BY <1>1, <2>3 DEF Appended, IInv, TypeOK
    <3>2. QED
      BY <2>1, <2>2, <2>3, <3>1
  <2>4. CASE q # p
    <3>1. page_to_wal_frame'[q] = m /\ IsLastFrame(wal, n, q, m)
      BY <1>1, <1>2, <2>4 DEF Appended, AllInCommit, IInv, TypeOK, MapTracksLog
    <3>2. m \in 0 .. n /\ (m > 0 => wal'[m] = wal[m])
      BY <1>1, <2>1, <3>1 DEF IsLastFrame, Appended
    <3>3. CommittedImage'[q] = IF m > 0 THEN wal[m].data ELSE db[q]
      BY <2>2, <3>1, <3>2
    <3>4. CASE m > c
      <4>1. m \in c + 1 .. n /\ m > 0 /\ wal[m].page_num = q
        BY <2>1, <3>1, <3>2, <3>4 DEF IsLastFrame
      <4>2. q \in PendingPages /\ wal[m].data = pages[q]
        BY <1>2, <2>1, <4>1 DEF IInv, FlushOrder
      <4>3. QED
        BY <3>3, <4>1, <4>2
    <3>5. CASE ~(m > c)
      <4>1. IsLastFrame(wal, c, q, m)
        BY <2>1, <3>1, <3>2, <3>5 DEF IsLastFrame
      <4>2. CommittedImage[q] = IF m > 0 THEN wal[m].data ELSE db[q]
        BY <2>1, <4>1, ImageIs DEF CommittedImage
      <4>3. \A i \in c + 1 .. n : wal[i].page_num # q
        BY <2>1, <3>1, <3>2, <3>5 DEF IsLastFrame
      <4>4. q \notin PendingPages
        BY <2>1, <2>4, <4>3
      <4>5. QED
        BY <3>3, <4>2, <4>4
    <3>6. QED
      BY <3>4, <3>5
  <2>5. QED
    BY <2>3, <2>4
<1>6. CommittedImage' = [q \in Pages |-> IF q \in DOMAIN Pending THEN Pending[q]
                                                               ELSE CommittedImage[q]]
  <2>1. DOMAIN Pending = PendingPages /\ \A q \in PendingPages : Pending[q] = pages[q]
    BY DEF Pending
  <2>2. CommittedImage' = [q \in Pages |-> CommittedImage'[q]]
    BY DEF CommittedImage, ImageOf
  <2>3. QED
    BY <1>5, <2>1, <2>2
<1>7. QED
  BY <1>2, <1>4, <1>6 DEF PS!Commit, Committing

\* No step of a checkpoint changes the image, however far it gets.
LEMMA CheckpointSameImage ==
  ASSUME IInv, NEW p \in Pages, CheckpointPage(p) \/ CheckpointShortWrite(p)
  PROVE  CommittedImage' = CommittedImage
<1>1. /\ pc = "checkpoint" /\ page_to_wal_frame[p] > 0 /\ wal' = wal
      /\ \A q \in Pages : q # p => db'[q] = db[q]
  BY DEF CheckpointPage, CheckpointShortWrite, IsNextCopy, IInv, TypeOK
<1>2. /\ wal \in Seq(Frames) /\ IsCommitPoint(wal, Len(wal))
      /\ \A q \in Pages : IsLastFrame(wal, Len(wal), q, page_to_wal_frame[q])
  BY <1>1 DEF IInv, TypeOK, LogCommitted, MapTracksLog, CopiedPages
<1>3. ASSUME NEW q \in Pages
      PROVE  ImageOf(wal, db')[q] = ImageOf(wal, db)[q]
  <2>1. /\ ImageOf(wal, db')[q] = IF page_to_wal_frame[q] > 0
                                  THEN wal[page_to_wal_frame[q]].data ELSE db'[q]
        /\ ImageOf(wal, db)[q] = IF page_to_wal_frame[q] > 0
                                 THEN wal[page_to_wal_frame[q]].data ELSE db[q]
    BY <1>2, ImageIs
  <2>2. QED
    BY <1>1, <2>1
<1>4. QED
  BY <1>1, <1>3 DEF CommittedImage, ImageOf

\* Emptying the log after the last copy does not change the image.
LEMMA TruncateSameImage ==
  ASSUME IInv, CheckpointTruncate
  PROVE  CommittedImage' = CommittedImage
<1>1. wal' = <<>> /\ db' = db
  BY DEF CheckpointTruncate
<1>2. \A q \in Pages : CommittedImage[q] = db[q]
  BY AllCopied DEF CheckpointTruncate, CopyDone
<1>3. \A q \in Pages : CommittedImage'[q] = db[q]
  BY <1>1, EmptyLog DEF CommittedImage, ImageOf
<1>4. QED
  BY <1>2, <1>3 DEF CommittedImage, ImageOf

\* The steps of a checkpoint are updates of nothing, or forget, in PageStore.
LEMMA CheckpointRefines ==
  ASSUME IInv, IInv', \/ \E p \in Pages : CheckpointPage(p) \/ CheckpointShortWrite(p)
                      \/ CheckpointTruncate
  PROVE  PS!PSNext
<1>1. CommittedImage' = CommittedImage /\ pc = "checkpoint" /\ page_dirty = {}
  BY CheckpointSameImage, TruncateSameImage
     DEF CheckpointPage, CheckpointShortWrite, CheckpointTruncate, IInv, CopiedPages
<1>2. PendingPages = {}
  BY <1>1, PendingIsDirty
<1>3. CASE Gone
  BY <1>1, <1>3, ForgetStep DEF PS!PSNext
<1>4. CASE ~Gone
  <2>1. pc' \in {"idle", "checkpoint"}
    BY <1>1, <1>4 DEF CheckpointPage, CheckpointShortWrite, CheckpointTruncate,
                      CommitReturns
  <2>2. PS!Update
    BY <1>1, <1>2, <2>1, UpdateStep DEF Committing
  <2>3. QED
    BY <2>2 DEF PS!PSNext
<1>5. QED
  BY <1>3, <1>4

\* Every step of the pager is one of PageStore or none.
LEMMA StepRefines ==
  ASSUME IInv, IInv', [Next]_vars
  PROVE  [PS!PSNext]_PS!psVars
<1>1. CASE UNCHANGED vars
  BY <1>1 DEF vars, fileVars, pagerVars, controlVars, PS!psVars, CommittedImage,
              Pending, PendingPages, UncommittedFrames, Committing
<1>2. CASE DbOpen
  BY <1>2, DbOpenRefines
<1>3. CASE Statement \/ CommitStatement \/ DbClose
  BY <1>3, ClientRefines DEF PS!PSNext
<1>4. CASE StartCommit
  BY <1>4, StartCommitRefines
<1>5. ASSUME NEW p \in Pages, FlushHeader(p) \/ FlushPage(p)
      PROVE  [PS!PSNext]_PS!psVars
  BY <1>5, FlushHeaderRefines, FlushMiddleRefines, FlushLastRefines DEF PS!PSNext
<1>6. CASE \/ \E p \in Pages : CheckpointPage(p) \/ CheckpointShortWrite(p)
           \/ CheckpointTruncate
  BY <1>6, CheckpointRefines
<1>7. CASE Crash
  BY <1>7, ForgetStep, SameFilesSameImage DEF Crash, fileVars, PS!PSNext
<1>8. QED
  BY <1>1, <1>2, <1>3, <1>4, <1>5, <1>6, <1>7 DEF Next, Busy


\* Commits of the pager are atomic and durable: across flushes, checkpoints,
\* short writes, crashes at any step and replays of the log, the image that the
\* two files hold changes only by whole commits of the pending pages.
THEOREM Refinement == Spec => ImplementsPageStore
<1>1. Init => PS!PSInit
  <2> SUFFICES ASSUME Init PROVE PS!PSInit
    OBVIOUS
  <2>1. CommittedImage \in [Pages -> Contents]
    BY InitInv, ImageTyped
  <2>2. PendingPages = {} /\ Committing = FALSE
    BY DEF Init, PendingPages, Committing
  <2>3. QED
    BY <2>1, <2>2 DEF PS!PSInit, Pending
<1>2. IInv /\ IInv' /\ [Next]_vars => [PS!PSNext]_PS!psVars
  BY StepRefines
<1>3. QED
  BY <1>1, <1>2, Invariant, PTL DEF Spec, ImplementsPageStore, PS!PSSpec

-----------------------------------------------------------------------------
(* Torn pages, and the length of the log. *)

\* With no torn page in the cache, in what a commit would bring, and in what
\* statements write, the image has none after a step either.
LEMMA ImageStaysWhole ==
  ASSUME IInv, IInv', [Next]_vars, CacheWhole, TornPagesCovered
  PROVE  TornPagesCovered'
<1>1. CommittedImage \in [Pages -> Contents] /\ CommittedImage' \in [Pages -> Contents]
  <2>1. (IInv => CommittedImage \in [Pages -> Contents])'
    BY ImageTyped, PTL
  <2>2. Pages' = Pages /\ Contents' = Contents
    BY DEF Pages, Contents
  <2>3. QED
    BY <2>1, <2>2, ImageTyped
<1>2. CASE CommittedImage' = CommittedImage
  BY <1>2 DEF TornPagesCovered
<1>3. CASE PS!Commit
  <2>1. \A p \in Pages : CommittedImage'[p] = IF p \in PendingPages THEN pages[p]
                                              ELSE CommittedImage[p]
    BY <1>3 DEF PS!Commit, Pending
  <2>2. QED
    BY <2>1 DEF TornPagesCovered, CacheWhole
<1>4. QED
  BY <1>2, <1>3, StepRefines DEF PS!PSNext, PS!psVars, PS!Update, PS!BeginCommit, PS!Forget

\* What an open reads of a page is its committed content.
LEMMA OpenReadsImage ==
  ASSUME IInv, NEW p \in Pages
  PROVE  OnDisk(p) = CommittedImage[p]
<1>1. p >= dbLen => db[p] = ZERO
  BY DEF IInv, FileEnds
<1>2. CommittedImage[p] = IF ReplayedFrames[p] > 0 THEN wal[ReplayedFrames[p]].data ELSE db[p]
  BY DEF CommittedImage, ImageOf, ReplayedFrames
<1>3. QED
  BY <1>1, <1>2, PagerAssumption DEF OnDisk, PageOnMiss, IInv, TypeOK, Pages

\* The cache takes its pages from the image, and statements write whole ones.
LEMMA CacheStaysWhole ==
  ASSUME IInv, [Next]_vars, CacheWhole, TornPagesCovered
  PROVE  CacheWhole'
<1> USE PagerAssumption DEF CacheWhole
<1>1. CASE UNCHANGED pages
  BY <1>1
<1>2. CASE pages' = NoPages
  BY <1>2 DEF NoPages, Contents
<1>3. CASE DbOpenNew \/ DbOpenExisting \/ DbOpenRepair
  <2>1. \A p \in Pages : OnDisk(p) # TORN
    BY OpenReadsImage DEF TornPagesCovered
  <2>2. NULL # TORN /\ TORN \notin Headers /\ TORN \notin Nodes
    BY DEF Contents
  <2>3. CASE DbOpenNew
    BY <2>2, <2>3 DEF DbOpenNew, NoPages
  <2>4. CASE DbOpenExisting
    BY <2>1, <2>2, <2>4 DEF DbOpenExisting, NoPages
  <2>5. CASE DbOpenRepair
    BY <2>1, <2>2, <2>5 DEF DbOpenRepair
  <2>6. QED
    BY <1>3, <2>3, <2>4, <2>5
<1>4. ASSUME NEW p \in Pages, GetPage(p)
      PROVE  CacheWhole'
  <2>1. PageOnMiss(page_to_wal_frame, file_length, p) # TORN
    <3>1. p \notin page_dirty /\ pc = "idle"
      BY <1>4 DEF GetPage, IInv, Bookkeeping
    <3>2. CommittedImage[p] = IF page_to_wal_frame[p] > 0
                              THEN wal[page_to_wal_frame[p]].data ELSE db[p]
      BY <3>1, MapGivesImage
    <3>3. QED
      BY <3>2 DEF PageOnMiss, TornPagesCovered
  <2>2. QED
    BY <1>4, <2>1 DEF GetPage, IInv, TypeOK
<1>5. ASSUME NEW p \in Pages, NEW content \in PageContents(p),
             Write(p, content) \/ WriteUnmarked(p, content)
      PROVE  CacheWhole'
  BY <1>5 DEF Write, WriteUnmarked, IInv, TypeOK
<1>6. ASSUME NEW p \in Pages, NEW h \in Headers, ReusePage(p, h)
      PROVE  CacheWhole'
  BY <1>6 DEF ReusePage, IInv, TypeOK
<1>7. CASE CommitReturns
  BY <1>7 DEF CommitReturns, Contents
<1>8. QED
  BY <1>1, <1>2, <1>3, <1>4, <1>5, <1>6, <1>7
     DEF Next, Busy, DbOpen, DbOpenNoRootLeft, DbOpenCorrupt, Statement, CommitStatement,
         DbClose, StartCommit, FlushHeader, FlushPage, CheckpointPage, CheckpointShortWrite,
         CheckpointTruncate, Crash, Gone, vars, pagerVars

\* A page of which a checkpoint wrote only a part never shows: a committed
\* frame covers it, whatever opens, crashes and checkpoints follow.
THEOREM TornPagesAreCovered == Spec => []TornPagesCovered
<1>1. Init => CacheWhole /\ TornPagesCovered
  <2> SUFFICES ASSUME Init PROVE CacheWhole /\ TornPagesCovered
    OBVIOUS
  <2>1. CacheWhole
    BY PagerAssumption DEF Init, CacheWhole, NoPages, Contents
  <2>2. \A p \in Pages : CommittedImage[p] = db[p]
    BY EmptyLog DEF Init, CommittedImage, ImageOf
  <2>3. QED
    BY <2>1, <2>2, PagerAssumption DEF Init, TornPagesCovered
<1>2. IInv /\ IInv' /\ [Next]_vars /\ CacheWhole /\ TornPagesCovered
      => CacheWhole' /\ TornPagesCovered'
  BY ImageStaysWhole, CacheStaysWhole
<1>3. QED
  BY <1>1, <1>2, Invariant, PTL DEF Spec

\* A commit that wrote frames hands back a log below the threshold, whatever
\* length a crash had left it with.
THEOREM CommitsKeepLogShort == Spec => CommitKeepsLogShort
<1>1. IInv /\ [Next]_vars
      => (pc' = "idle" /\ pc \in {"page", "checkpoint"}
          => Len(wal') < WAL_CHECKPOINT_THRESHOLD)
  <2> SUFFICES ASSUME IInv, [Next]_vars, pc' = "idle", pc \in {"page", "checkpoint"}
               PROVE  Len(wal') < WAL_CHECKPOINT_THRESHOLD
    OBVIOUS
  <2>1. (\E p \in Pages : FlushPage(p)) \/ CheckpointTruncate
    BY DEF Next, Busy, DbOpen, DbOpenNew, DbOpenExisting, DbOpenRepair, PagerOpen,
       DbOpenNoRootLeft, DbOpenCorrupt, Statement, GetPage, Write, WriteUnmarked,
       ReusePage, CommitStatement, DbClose, StartCommit, FlushHeader,
       CheckpointPage, CheckpointShortWrite, Crash, Gone, vars, controlVars
  <2>2. CASE CheckpointTruncate
    BY <2>2, PagerAssumption DEF CheckpointTruncate
  <2>3. ASSUME NEW p \in Pages, FlushPage(p)
        PROVE  Len(wal') < WAL_CHECKPOINT_THRESHOLD
    <3>1. Len(wal') = Len(wal) + 1 /\ wal_frame_count' = Len(wal) + 1 /\ Len(wal) \in Nat
      BY <2>3, FlushPageFacts DEF Appended
    <3>2. ~LogFull(wal_frame_count')
      BY <2>3 DEF FlushPage
    <3>3. QED
      BY <3>1, <3>2, PagerAssumption DEF LogFull
  <2>4. QED
    BY <2>1, <2>2, <2>3
<1>2. QED
  BY <1>1, Invariant, PTL DEF Spec, CommitKeepsLogShort
-----------------------------------------------------------------------------
(* db_close leaves a file that counts every page. *)

\* Statements and the start of a commit.
LEMMA ClientsReachFile ==
  ASSUME IInv, CountReachesFile, Statement \/ CommitStatement \/ DbClose
  PROVE  CountReachesFile'
<1> USE PagerAssumption, PagesAreNaturals
<1>1. /\ pages \in [Pages -> Contents \cup {NULL}] /\ NULL \notin Contents
      /\ pc = "idle" /\ caller = "none" /\ num_pages \in Nat /\ dbLen \in Nat
  BY DEF IInv, TypeOK, CountReachesFile, Statement, GetPage, Write, WriteUnmarked, ReusePage,
         CommitStatement, DbClose
<1>2. ASSUME NEW p \in Pages, NEW content \in Contents,
             pages'[p] = content, \A q \in Pages : pages[q] # NULL => pages'[q] # NULL,
             num_pages' = NumPagesWith(p), UNCHANGED <<dbLen, controlVars>>
      PROVE  CountReachesFile'
  <2>1. caller' = "none" /\ pc' = "idle" /\ dbLen' = dbLen
    BY <1>1, <1>2 DEF controlVars
  <2>2. ASSUME NEW q \in Pages, num_pages' = q + 1
        PROVE  q < dbLen \/ pages'[q] # NULL
    <3>1. CASE q = p
      BY <1>1, <1>2, <3>1
    <3>2. CASE q # p
      <4>1. num_pages = q + 1
        BY <1>1, <1>2, <2>2, <3>2 DEF NumPagesWith
      <4>2. QED
        BY <1>1, <1>2, <4>1 DEF CountReachesFile
    <3>3. QED
      BY <3>1, <3>2
  <2>3. QED
    BY <2>1, <2>2 DEF CountReachesFile
<1>3. ASSUME NEW p \in Pages, GetPage(p)
      PROVE  CountReachesFile'
  <2>1. PageOnMiss(page_to_wal_frame, file_length, p) \in Contents
    <3>1. CommittedImage \in [Pages -> Contents]
      BY ImageTyped
    <3>2. p \notin page_dirty
      BY <1>3 DEF GetPage, IInv, Bookkeeping
    <3>3. CommittedImage[p] = IF page_to_wal_frame[p] > 0
                              THEN wal[page_to_wal_frame[p]].data ELSE db[p]
      BY <1>1, <3>2, MapGivesImage
    <3>4. db[p] \in Contents /\ ZERO \in Contents
      BY DEF IInv, TypeOK, Contents
    <3>5. QED
      BY <3>1, <3>3, <3>4 DEF PageOnMiss
  <2>2. QED
    BY <1>1, <1>2, <1>3, <2>1 DEF GetPage, fileVars
<1>4. ASSUME NEW p \in Pages, NEW content \in PageContents(p),
             Write(p, content) \/ WriteUnmarked(p, content)
      PROVE  CountReachesFile'
  <2>1. content \in Contents
    OBVIOUS
  <2>2. QED
    BY <1>1, <1>2, <1>4, <2>1 DEF Write, WriteUnmarked, fileVars
<1>5. ASSUME NEW p \in Pages, NEW h \in Headers, ReusePage(p, h)
      PROVE  CountReachesFile'
  <2>1. h \in Contents /\ ZERO \in Contents
    BY DEF Contents
  <2>2. QED
    BY <1>1, <1>2, <1>5, <2>1 DEF ReusePage, fileVars
<1>6. CASE CommitStatement
  BY <1>1, <1>6 DEF CommitStatement, CountReachesFile, fileVars, pagerVars
<1>7. CASE DbClose
  BY <1>1, <1>7 DEF DbClose, CountReachesFile, fileVars
<1>8. QED
  BY <1>3, <1>4, <1>5, <1>6, <1>7 DEF Statement

\* An open counts the pages of the file, and those it has cached for a repair.
LEMMA OpensReachFile ==
  ASSUME IInv, CountReachesFile, DbOpen
  PROVE  CountReachesFile'
<1> USE PagerAssumption, PagesAreNaturals
<1>1. dbLen \in Nat /\ NULL \notin Contents /\ \A p \in Pages : OnDisk(p) \in Contents
  BY OpenReadsImage, ImageTyped DEF IInv, TypeOK
<1>2. CASE DbOpenNew
  BY <1>1, <1>2 DEF DbOpenNew, NoPages, CountReachesFile, MasterRoot, Contents, Pages
<1>3. CASE DbOpenExisting
  BY <1>1, <1>3 DEF DbOpenExisting, PagerOpen, CountReachesFile
<1>4. CASE DbOpenRepair
  <2>1. PICK catalog \in SUBSET Pages, h \in Headers :
          /\ pages' = [p \in Pages |-> IF p = 0 THEN h
                                       ELSE IF p \in catalog THEN OnDisk(p) ELSE NULL]
          /\ num_pages' = dbLen \/ num_pages' - 1 \in catalog
    BY <1>4 DEF DbOpenRepair
  <2>2. h \in Contents
    BY DEF Contents
  <2>3. num_pages' \in Nat
    BY <1>1, <1>4 DEF DbOpenRepair
  <2>4. \A p \in Pages : num_pages' = p + 1 => p < dbLen \/ pages'[p] # NULL
    BY <1>1, <2>1, <2>2, <2>3
  <2>5. QED
    <3>1. pc' = "commit" /\ caller' = "open" /\ dbLen' = dbLen
      BY <1>4 DEF DbOpenRepair, PagerOpen
    <3>2. QED
      BY <2>4, <3>1 DEF CountReachesFile
<1>5. CASE DbOpenNoRootLeft
  <2>1. pc' = "down" /\ caller' = "none" /\ num_pages' = 0
    BY <1>5 DEF DbOpenNoRootLeft, Gone
  <2>2. QED
    BY <2>1 DEF CountReachesFile
<1>6. CASE DbOpenCorrupt
  BY <1>6 DEF DbOpenCorrupt, vars, fileVars, pagerVars, controlVars, CountReachesFile
<1>7. QED
  BY <1>2, <1>3, <1>4, <1>5, <1>6 DEF DbOpen

\* When a commit has flushed everything, what a close had cached is mapped.
LEMMA FlushedReachesFile ==
  ASSUME IInv, CountReachesFile,
         \/ StartCommit
         \/ \E p \in Pages : FlushHeader(p) \/ FlushPage(p)
  PROVE  CountReachesFile'
<1> USE PagerAssumption, PagesAreNaturals
<1>1. /\ pages \in [Pages -> Contents \cup {NULL}] /\ NULL \notin Contents
      /\ num_pages \in Nat /\ dbLen \in Nat /\ next \in Nat
      /\ page_to_wal_frame \in [Pages -> Nat]
      /\ caller \in {"none", "open", "statement", "close", "pager_checkpoint"}
  BY DEF IInv, TypeOK
<1>2. CASE StartCommit
  <2>1. CASE page_dirty = {}
    BY <1>1, <1>2, <2>1 DEF StartCommit, CommitReturns, CountReachesFile, fileVars
  <2>2. CASE page_dirty # {}
    BY <1>1, <1>2, <2>2 DEF StartCommit, CountReachesFile, fileVars
  <2>3. QED
    BY <2>1, <2>2
<1>3. ASSUME NEW p \in Pages, FlushHeader(p)
      PROVE  CountReachesFile'
  BY <1>1, <1>3 DEF FlushHeader, CountReachesFile, pagerVars
<1>4. ASSUME NEW p \in Pages, FlushPage(p)
      PROVE  CountReachesFile'
  <2>1. /\ page_to_wal_frame' = [page_to_wal_frame EXCEPT ![p] = wal_frame_count + 1]
        /\ wal_frame_count \in Nat /\ page_dirty' = page_dirty \ {p}
        /\ pc = "page" /\ next = 0 /\ caller # "pager_checkpoint"
        /\ UNCHANGED <<dbLen, num_pages, next>>
    BY <1>4 DEF FlushPage, IInv, TypeOK, FlushOrder, CountReachesFile
  <2>2. /\ \A q \in Pages : page_to_wal_frame[q] > 0 => page_to_wal_frame'[q] > 0
        /\ page_to_wal_frame'[p] > 0
    BY <1>1, <2>1
  <2>3. CASE UNCHANGED <<caller, pages>> /\ pc' \in {"header", "checkpoint"}
    BY <1>1, <2>1, <2>2, <2>3 DEF CountReachesFile
  <2>4. CASE page_dirty' = {} /\ CommitReturns
    <3>1. CASE caller = "close"
      <4>1. \A q \in Pages : q < num_pages /\ pages[q] # NULL => page_to_wal_frame'[q] > 0
        BY <2>1, <2>2, <2>4, <3>1 DEF CountReachesFile
      <4>2. pc' = "checkpoint" /\ caller' = "pager_checkpoint"
        BY <2>4, <3>1 DEF CommitReturns
      <4>3. ASSUME NEW q \in Pages, num_pages = q + 1
            PROVE  q < dbLen \/ page_to_wal_frame'[q] > 0
        BY <1>1, <2>1, <3>1, <4>1, <4>3 DEF CountReachesFile
      <4>4. \A q \in Pages : ~(q < next')
        BY <1>1, <2>1
      <4>5. QED
        BY <1>1, <2>1, <4>2, <4>3, <4>4 DEF CountReachesFile
    <3>2. CASE caller # "close"
      BY <1>1, <2>1, <2>4, <3>2 DEF CommitReturns, CountReachesFile
    <3>3. QED
      BY <3>1, <3>2
  <2>5. QED
    BY <1>4, <2>3, <2>4 DEF FlushPage
<1>5. QED
  BY <1>2, <1>3, <1>4

\* A checkpoint that has nothing left to copy has put every mapped page into the file.
LEMMA CopiedReachesFile ==
  ASSUME IInv, CountReachesFile, pc = "checkpoint", CopyDone
  PROVE  \A p \in Pages : page_to_wal_frame[p] > 0 => p < dbLen
BY PagerAssumption, PagesAreNaturals DEF IInv, TypeOK, CountReachesFile, CopyDone

\* A checkpoint keeps what counts, and so does the end of a process.
LEMMA CheckpointsReachFile ==
  ASSUME IInv, CountReachesFile,
         \/ \E p \in Pages : CheckpointPage(p) \/ CheckpointShortWrite(p)
         \/ CheckpointTruncate \/ Crash
  PROVE  CountReachesFile'
<1> USE PagerAssumption, PagesAreNaturals
<1>1. /\ pages \in [Pages -> Contents \cup {NULL}] /\ NULL \notin Contents
      /\ num_pages \in Nat /\ dbLen \in Nat /\ next \in Nat
      /\ page_to_wal_frame \in [Pages -> Nat]
  BY DEF IInv, TypeOK
<1>2. CASE Gone
  BY <1>2 DEF Gone, CountReachesFile
<1>3. ASSUME NEW p \in Pages, CheckpointPage(p)
      PROVE  CountReachesFile'
  <2>1. /\ pc = "checkpoint" /\ p >= next /\ next' = p + 1
        /\ \A q \in Pages : next <= q /\ q < p => page_to_wal_frame[q] = 0
        /\ dbLen' = IF p < dbLen THEN dbLen ELSE p + 1
        /\ UNCHANGED <<pages, page_to_wal_frame, page_dirty, num_pages, pc, caller>>
    BY <1>3 DEF CheckpointPage, IsNextCopy, pagerVars
  <2>2. dbLen <= dbLen' /\ p < dbLen' /\ dbLen' \in Nat
    BY <1>1, <2>1
  <2>3. \A q \in Pages : q < next' /\ page_to_wal_frame'[q] > 0 => q < dbLen'
    <3> SUFFICES ASSUME NEW q \in Pages, q < p + 1, page_to_wal_frame[q] > 0
                 PROVE  q < dbLen'
      BY <2>1
    <3>1. q < next \/ q = p
      BY <1>1, <2>1
    <3>2. QED
      BY <1>1, <2>1, <2>2, <3>1 DEF CountReachesFile
  <2>4. QED
    BY <1>1, <2>1, <2>2, <2>3 DEF CountReachesFile
<1>4. CASE CheckpointTruncate /\ ~Gone
  <2>1. /\ pc = "checkpoint" /\ CopyDone /\ caller # "pager_checkpoint"
        /\ page_to_wal_frame' = NoFrames /\ next' = 0 /\ CommitReturns
        /\ UNCHANGED <<page_dirty, num_pages, dbLen>>
    BY <1>4 DEF CheckpointTruncate
  <2>2. \A p \in Pages : page_to_wal_frame[p] > 0 => p < dbLen
    BY <2>1, CopiedReachesFile
  <2>3. page_dirty = {}
    BY <2>1 DEF IInv, CopiedPages
  <2>4. CASE caller = "close"
    <3>1. \A p \in Pages : num_pages = p + 1 => p < dbLen
      BY <1>1, <2>1, <2>2, <2>3, <2>4 DEF CountReachesFile
    <3>2. QED
      BY <2>1, <2>4, <3>1 DEF CommitReturns, CountReachesFile
  <2>5. CASE caller # "close"
    BY <1>1, <2>1, <2>5 DEF CommitReturns, CountReachesFile
  <2>6. QED
    BY <2>4, <2>5
<1>5. QED
  BY <1>2, <1>3, <1>4 DEF CheckpointShortWrite, Crash

\* A database that was closed has in its file every page that the process asked for
\* and every page of the log, so that the next process counts them all.
THEOREM ClosesCountPages == Spec => CloseCountsPages
<1>1. Init => CountReachesFile
  BY PagerAssumption, PagesAreNaturals DEF Init, CountReachesFile
<1>2. IInv /\ [Next]_vars /\ CountReachesFile => CountReachesFile'
  <2> SUFFICES ASSUME IInv, [Next]_vars, CountReachesFile PROVE CountReachesFile'
    OBVIOUS
  <2>1. CASE UNCHANGED vars
    BY <2>1 DEF vars, fileVars, pagerVars, controlVars, CountReachesFile
  <2>2. QED
    BY <2>1, ClientsReachFile, OpensReachFile, FlushedReachesFile, CheckpointsReachFile
       DEF Next, Busy
<1>3. IInv /\ CountReachesFile /\ [Next]_vars
      => (pc = "checkpoint" /\ caller = "pager_checkpoint" /\ pc' = "down" /\ wal' = <<>>
          => \A p \in Pages :
               p < num_pages \/ (\E i \in DOMAIN wal : wal[i].page_num = p) => p < dbLen')
  <2> SUFFICES ASSUME IInv, CountReachesFile, [Next]_vars, pc = "checkpoint",
                      caller = "pager_checkpoint", pc' = "down", wal' = <<>>,
                      NEW p \in Pages,
                      p < num_pages \/ \E i \in DOMAIN wal : wal[i].page_num = p
               PROVE  p < dbLen'
    OBVIOUS
  <2> USE PagerAssumption, PagesAreNaturals
  <2>1. /\ wal \in Seq(Frames) /\ num_pages \in 0 .. TABLE_MAX_PAGES /\ dbLen \in Nat
        /\ page_to_wal_frame \in [Pages -> Nat] /\ next \in Nat
    BY DEF IInv, TypeOK
  <2>2. \A q \in Pages : IsLastFrame(wal, Len(wal), q, page_to_wal_frame[q])
    BY DEF IInv, MapTracksLog, CopiedPages
  <2>3. wal = <<>> => \A q \in Pages : page_to_wal_frame[q] = 0
    BY <2>1, <2>2 DEF IsLastFrame
  <2>4. CheckpointTruncate \/ Crash \/ \E q \in Pages : CheckpointShortWrite(q)
    BY DEF Next, Busy, DbOpen, DbOpenNew, DbOpenExisting, DbOpenRepair, PagerOpen,
       DbOpenNoRootLeft, DbOpenCorrupt, Statement, GetPage, Write, WriteUnmarked,
       ReusePage, CommitStatement, DbClose, StartCommit, FlushHeader, FlushPage,
       CheckpointPage, vars, fileVars, pagerVars, controlVars
  <2>5. dbLen' = dbLen /\ \A q \in Pages : page_to_wal_frame[q] > 0 => q < dbLen
    <3>1. CASE CheckpointTruncate
      BY <3>1, CopiedReachesFile DEF CheckpointTruncate
    <3>2. CASE Crash
      BY <2>1, <2>3, <3>2 DEF Crash, fileVars
    <3>3. ASSUME NEW q \in Pages, CheckpointShortWrite(q)
          PROVE  FALSE
      BY <2>1, <2>3, <3>3 DEF CheckpointShortWrite, IsNextCopy
    <3>4. QED
      BY <2>4, <3>1, <3>2, <3>3
  <2>6. CASE p < num_pages
    <3>1. num_pages - 1 \in Pages /\ p <= num_pages - 1
      BY <2>1, <2>6 DEF Pages
    <3>2. num_pages - 1 < dbLen
      BY <2>1, <2>5, <3>1 DEF CountReachesFile
    <3>3. QED
      BY <2>1, <2>5, <3>1, <3>2
  <2>7. ASSUME NEW i \in DOMAIN wal, wal[i].page_num = p
        PROVE  p < dbLen'
    <3>1. page_to_wal_frame[p] > 0
      BY <2>1, <2>2, <2>7 DEF IsLastFrame
    <3>2. QED
      BY <2>5, <3>1
  <2>8. QED
    BY <2>6, <2>7
<1>4. QED
  BY <1>1, <1>2, <1>3, Invariant, PTL DEF Spec, CloseCountsPages
=============================================================================
