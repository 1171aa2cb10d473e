-------------------------------- MODULE Pager --------------------------------
(***************************************************************************)
(* The pager of SQLyt (src/src/pager.c, and get_page and mark_page_dirty   *)
(* of src/src/btree.c): one database file, its write-ahead log, and the    *)
(* cache of the process that has the database open.                        *)
(*                                                                         *)
(* A process has the file open from db_open to db_close or to its end; its *)
(* end may come between any two system calls.  Everything runs on one      *)
(* thread (a checkpoint is synchronous), so wal_mutex and                  *)
(* checkpoint_in_progress never make anyone wait and are left out.         *)
(* A write that the operating system accepted survives the process: the    *)
(* program never calls fsync, so the loss of accepted writes (a power      *)
(* failure) is outside the model.                                          *)
(*                                                                         *)
(* Each of EveryFrameCommits, LogPastThreshold, CopiedSome, IsAnyCopy,     *)
(* ReplayAll, FileBeforeLog, EveryMissGrows, ReuseUnmarked, CloseButLast   *)
(* and ShortWriteIgnored is a wrong version of the definition after it,    *)
(* used by no action: it stands for a slip in that code, and README.md     *)
(* names the property that rejects it.                                     *)
(***************************************************************************)
EXTENDS Naturals, Sequences

CONSTANTS
  TABLE_MAX_PAGES,           \* pages a database file may have
  WAL_CHECKPOINT_THRESHOLD,  \* log length, in frames, that asks for a checkpoint
  Headers,      \* contents of page 0 that header_is_valid accepts
  Nodes,        \* contents of the other pages: b-tree nodes, freed pages
  NEW_HEADER,   \* the header db_open writes into a new file
  NEW_ROOT,     \* the empty leaf that is the master root of a new file
  BAD_HEADER,   \* a header that header_is_valid refuses
  ZERO,         \* a page of zeros
  TORN,         \* a page of the file of which a write replaced only a part
  PageContents(_),  \* what statements write into a page
  NULL,         \* no page in the cache, no frame header in the log's tail
  CRASH_WAL_FRAMES  \* bound: no crash while the log is longer than this

Contents == Headers \cup Nodes \cup {BAD_HEADER, ZERO, TORN}
Pages == 0 .. TABLE_MAX_PAGES - 1
MasterRoot == 1

ASSUME PagerAssumption ==
  /\ TABLE_MAX_PAGES \in Nat /\ TABLE_MAX_PAGES >= 2
  /\ WAL_CHECKPOINT_THRESHOLD \in Nat /\ WAL_CHECKPOINT_THRESHOLD >= 1
  /\ CRASH_WAL_FRAMES \in Nat
  /\ NEW_HEADER \in Headers
  /\ NEW_ROOT \in Nodes
  /\ BAD_HEADER \notin Headers /\ ZERO \notin Headers
  /\ TORN \notin Headers \cup Nodes \cup {BAD_HEADER, ZERO}
  /\ \A p \in Pages : PageContents(p) \in SUBSET (Contents \ {TORN})
  /\ NULL \notin Contents

VARIABLES
  (* the two files *)
  db,       \* content of the pages of the database file, ZERO beyond its end
  dbLen,    \* whole pages in the database file
  torn,     \* the database file ends in a part of a page
  wal,      \* complete frames of the log file
  tail,     \* header of an incomplete frame at the end of the log file
  (* the Pager structure *)
  pages,              \* the cache: page content or NULL
  page_to_wal_frame,  \* latest frame of a page, counted from 1; 0 for none
  wal_frame_count,
  page_dirty,         \* the set of pages whose flag is set
  num_pages,
  file_length,        \* in pages, as db_open found it
  (* where the process is *)
  pc,       \* "down", "idle", or a step of a commit or checkpoint
  caller,   \* who called the commit or the checkpoint that runs
  next      \* loop counter of the checkpoint

fileVars == <<db, dbLen, torn, wal, tail>>
pagerVars == <<pages, page_to_wal_frame, wal_frame_count, page_dirty,
               num_pages, file_length>>
controlVars == <<pc, caller, next>>
vars == <<fileVars, pagerVars, controlVars>>

header_is_valid(content) == content \in Headers

-----------------------------------------------------------------------------
(* Frames of the log. *)

Frames == [page_num : Pages, is_commit : BOOLEAN, data : Contents]
FrameHeaders == [page_num : Pages, is_commit : BOOLEAN]

\* Writing past the end of the log leaves zeros before the written frame.
ZeroFrame == [page_num |-> 0, is_commit |-> FALSE, data |-> ZERO]

\* The log after frame f is written at place k.
WriteFrame(w, k, f) ==
  [i \in 1 .. (IF k > Len(w) THEN k ELSE Len(w)) |->
     IF i = k THEN f ELSE IF i <= Len(w) THEN w[i] ELSE ZeroFrame]

\* c is the number of frames up to and including the last commit frame of w.
IsCommitPoint(w, c) ==
  /\ c \in 0 .. Len(w)
  /\ c = 0 \/ w[c].is_commit
  /\ \A i \in c + 1 .. Len(w) : ~w[i].is_commit

CommitPoint(w) == CHOOSE c \in 0 .. Len(w) : IsCommitPoint(w, c)

\* f is the last of the first n frames of w that holds page p, 0 for none.
IsLastFrame(w, n, p, f) ==
  /\ f \in 0 .. n
  /\ f = 0 \/ w[f].page_num = p
  /\ \A i \in f + 1 .. n : w[i].page_num # p

LastFrame(w, n, p) == CHOOSE f \in 0 .. n : IsLastFrame(w, n, p, f)

\* The content of the database that every committed transaction has produced
\* and no other: what the log says up to its commit point, else the file.
ImageOf(w, file) ==
  LET c == CommitPoint(w) IN
  [p \in Pages |-> LET f == LastFrame(w, c, p)
                   IN IF f > 0 THEN w[f].data ELSE file[p]]

CommittedImage == ImageOf(wal, db)

-----------------------------------------------------------------------------
(* Where a process stands when it has nothing open. *)

NoPages == [p \in Pages |-> NULL]
NoFrames == [p \in Pages |-> 0]

\* The process has ended or closed the database: its memory is gone.
Gone ==
  /\ pages' = NoPages
  /\ page_to_wal_frame' = NoFrames
  /\ wal_frame_count' = 0
  /\ page_dirty' = {}
  /\ num_pages' = 0
  /\ file_length' = 0
  /\ pc' = "down"
  /\ caller' = "none"
  /\ next' = 0

\* An absent or empty file, or one that an earlier session closed, whose
\* header may have been damaged since.
Init ==
  /\ \/ dbLen = 0 /\ db = [p \in Pages |-> ZERO]
     \/ /\ dbLen = 2
        /\ \E h \in {NEW_HEADER, BAD_HEADER} :
             db = [p \in Pages |-> IF p = 0 THEN h
                                   ELSE IF p = MasterRoot THEN NEW_ROOT
                                   ELSE ZERO]
  /\ torn = FALSE
  /\ wal = <<>>
  /\ tail = NULL
  /\ pages = NoPages
  /\ page_to_wal_frame = NoFrames
  /\ wal_frame_count = 0
  /\ page_dirty = {}
  /\ num_pages = 0
  /\ file_length = 0
  /\ pc = "down"
  /\ caller = "none"
  /\ next = 0

-----------------------------------------------------------------------------
(* db_open.  pager_open scans the log, drops what follows the last commit  *)
(* frame and maps every page to its latest frame.                          *)

ReplayAll == UNCHANGED <<wal, tail>>
ReplayWal ==
  /\ wal' = SubSeq(wal, 1, CommitPoint(wal))
  /\ tail' = IF Len(wal) > CommitPoint(wal) THEN NULL ELSE tail

\* What get_page reads into a page that is not cached.
FileBeforeLog(frame_of, length, p) ==
  IF p < length THEN db[p]
  ELSE IF frame_of[p] > 0 THEN wal[frame_of[p]].data ELSE ZERO
PageOnMiss(frame_of, length, p) ==
  IF frame_of[p] > 0 THEN wal[frame_of[p]].data
  ELSE IF p < length THEN db[p] ELSE ZERO

\* The latest committed frame of every page, as the scan of the log finds it.
ReplayedFrames == [p \in Pages |-> LastFrame(wal, CommitPoint(wal), p)]
OnDisk(p) == PageOnMiss(ReplayedFrames, dbLen, p)

PagerOpen ==
  /\ pc = "down"
  /\ ~torn
  /\ ReplayWal
  /\ page_to_wal_frame' = ReplayedFrames
  /\ wal_frame_count' = CommitPoint(wal)
  /\ file_length' = dbLen
  /\ UNCHANGED <<db, dbLen, torn, next>>

\* is_new_file: the database file has no page, whatever the log holds.
DbOpenNew ==
  /\ PagerOpen
  /\ dbLen = 0
  /\ pages' = [NoPages EXCEPT ![0] = NEW_HEADER, ![MasterRoot] = NEW_ROOT]
  /\ page_dirty' = {0, MasterRoot}
  /\ num_pages' = 2
  /\ pc' = "commit"
  /\ caller' = "open"

DbOpenExisting ==
  /\ PagerOpen
  /\ dbLen > 0
  /\ header_is_valid(OnDisk(0))
  /\ pages' = [NoPages EXCEPT ![0] = OnDisk(0)]
  /\ page_dirty' = {}
  /\ num_pages' = dbLen
  /\ pc' = "idle"
  /\ caller' = "none"

\* The header is rebuilt from the pages of the catalog, which get_page caches.
\* Page 1 is never reformatted here (line 182): every page the program writes,
\* and a page of zeros, has one of the two node types in its first byte.
DbOpenRepair ==
  /\ PagerOpen
  /\ dbLen > 0
  /\ ~header_is_valid(OnDisk(0))
  /\ \E catalog \in SUBSET Pages, h \in Headers :
       /\ {0, MasterRoot} \subseteq catalog
       /\ pages' = [p \in Pages |-> IF p = 0 THEN h
                                     ELSE IF p \in catalog THEN OnDisk(p)
                                     ELSE NULL]
       /\ num_pages' \in dbLen .. TABLE_MAX_PAGES
       /\ \A p \in catalog : p < num_pages'
       /\ num_pages' = dbLen \/ num_pages' - 1 \in catalog
  /\ page_dirty' = {0}
  /\ pc' = "commit"
  /\ caller' = "open"

\* "Corrupted catalog: no free root pages left": the process exits after
\* pager_open has dropped the uncommitted frames.
DbOpenNoRootLeft ==
  /\ pc = "down"
  /\ ~torn
  /\ dbLen > 0
  /\ ~header_is_valid(OnDisk(0))
  /\ ReplayWal
  /\ Gone
  /\ UNCHANGED <<db, dbLen, torn>>

\* "Db file is not a whole number of pages. Corrupt file.": the process exits.
DbOpenCorrupt ==
  /\ pc = "down"
  /\ torn
  /\ UNCHANGED vars

-----------------------------------------------------------------------------
(* What statements do with pages between two commits. *)

EveryMissGrows(p) == num_pages + 1
NumPagesWith(p) == IF p < num_pages THEN num_pages ELSE p + 1

\* get_page on a page that is not cached.
GetPage(p) ==
  /\ pc = "idle"
  /\ pages[p] = NULL
  /\ pages' = [pages EXCEPT ![p] = PageOnMiss(page_to_wal_frame, file_length, p)]
  /\ num_pages' = NumPagesWith(p)
  /\ UNCHANGED <<fileVars, page_to_wal_frame, wal_frame_count, page_dirty,
                 file_length, controlVars>>

\* get_page, a change of the page, mark_page_dirty.
Write(p, content) ==
  /\ pc = "idle"
  /\ pages' = [pages EXCEPT ![p] = content]
  /\ page_dirty' = page_dirty \cup {p}
  /\ num_pages' = NumPagesWith(p)
  /\ UNCHANGED <<fileVars, page_to_wal_frame, wal_frame_count, file_length,
                 controlVars>>

\* A change of a page that nobody marks dirty: the parent pointers that
\* create_new_root and internal_node_split_and_insert set in moved children.
WriteUnmarked(p, content) ==
  /\ pc = "idle"
  /\ pages' = [pages EXCEPT ![p] = content]
  /\ num_pages' = NumPagesWith(p)
  /\ UNCHANGED <<fileVars, page_to_wal_frame, wal_frame_count, page_dirty,
                 file_length, controlVars>>

\* As ReusePage, without marking p dirty.
ReuseUnmarked(p, h) ==
  /\ pc = "idle"
  /\ p # 0
  /\ pages' = [pages EXCEPT ![0] = h, ![p] = ZERO]
  /\ page_dirty' = page_dirty \cup {0}
  /\ page_to_wal_frame' = [page_to_wal_frame EXCEPT ![p] = 0]
  /\ num_pages' = NumPagesWith(p)
  /\ UNCHANGED <<fileVars, wal_frame_count, file_length, controlVars>>

\* get_unused_page_num takes page p off the free list, whose new head is in
\* header h; p is zeroed and its frame forgotten.
ReusePage(p, h) ==
  /\ pc = "idle"
  /\ p # 0
  /\ pages' = [pages EXCEPT ![0] = h, ![p] = ZERO]
  /\ page_dirty' = page_dirty \cup {0, p}
  /\ page_to_wal_frame' = [page_to_wal_frame EXCEPT ![p] = 0]
  /\ num_pages' = NumPagesWith(p)
  /\ UNCHANGED <<fileVars, wal_frame_count, file_length, controlVars>>

Statement ==
  \E p \in Pages :
    \/ GetPage(p)
    \/ \E content \in PageContents(p) : Write(p, content)
    \/ \E content \in PageContents(p) : p # 0 /\ WriteUnmarked(p, content)
    \/ \E h \in Headers : ReusePage(p, h)

-----------------------------------------------------------------------------
(* pager_commit_transaction_sync, with one step per system call. *)

\* A statement, .commit, or db_close asks for a commit.
CommitStatement ==
  /\ pc = "idle"
  /\ pc' = "commit"
  /\ caller' = "statement"
  /\ UNCHANGED <<fileVars, pagerVars, next>>

\* The loop of db_close stops one page early.
CloseButLast ==
  /\ pc = "idle"
  /\ page_dirty' = page_dirty \cup {p \in Pages : p + 1 < num_pages /\ pages[p] # NULL}
  /\ pc' = "commit"
  /\ caller' = "close"
  /\ UNCHANGED <<fileVars, pages, page_to_wal_frame, wal_frame_count, num_pages,
                 file_length, next>>

\* db_close marks every cached page dirty.
DbClose ==
  /\ pc = "idle"
  /\ page_dirty' = page_dirty \cup {p \in Pages : p < num_pages /\ pages[p] # NULL}
  /\ pc' = "commit"
  /\ caller' = "close"
  /\ UNCHANGED <<fileVars, pages, page_to_wal_frame, wal_frame_count, num_pages,
                 file_length, next>>

\* Control after pager_commit_transaction_sync: db_close frees its pages and
\* goes on to pager_checkpoint, the other callers go on with statements.
CommitReturns ==
  IF caller = "close"
  THEN /\ pages' = [p \in Pages |-> IF p < num_pages THEN NULL ELSE pages[p]]
       /\ pc' = "checkpoint"
       /\ caller' = "pager_checkpoint"
  ELSE /\ pc' = "idle"
       /\ caller' = "none"
       /\ UNCHANGED pages

StartCommit ==
  /\ pc = "commit"
  /\ next' = 0
  /\ IF page_dirty = {} THEN CommitReturns
     ELSE pc' = "header" /\ UNCHANGED <<caller, pages>>
  /\ UNCHANGED <<fileVars, page_to_wal_frame, wal_frame_count, page_dirty,
                 num_pages, file_length>>

\* The loop runs over the pages in order; the last dirty page commits.
EveryFrameCommits(p) == p \in page_dirty
IsNextDirty(p) == p \in page_dirty /\ \A q \in page_dirty : p <= q
IsLastDirty(p) == \A q \in page_dirty : q <= p

\* A commit that leaves a log of n frames goes on to a checkpoint.
LogPastThreshold(n) == n > WAL_CHECKPOINT_THRESHOLD
LogFull(n) == n >= WAL_CHECKPOINT_THRESHOLD

\* pager_flush writes the header of a frame at the end of the log ...
FlushHeader(p) ==
  /\ pc = "header"
  /\ IsNextDirty(p)
  /\ tail' = [page_num |-> p, is_commit |-> IsLastDirty(p)]
  /\ pc' = "page"
  /\ UNCHANGED <<db, dbLen, torn, wal, pagerVars, caller, next>>

\* ... and then the page, which completes the frame.  After the last page the
\* commit checkpoints a log that has reached the threshold.
FlushPage(p) ==
  /\ pc = "page"
  /\ IsNextDirty(p)
  /\ wal' = WriteFrame(wal, wal_frame_count + 1,
                       [page_num |-> tail.page_num, is_commit |-> tail.is_commit,
                        data |-> pages[p]])
  /\ tail' = NULL
  /\ page_to_wal_frame' = [page_to_wal_frame EXCEPT ![p] = wal_frame_count + 1]
  /\ wal_frame_count' = wal_frame_count + 1
  /\ page_dirty' = page_dirty \ {p}
  /\ IF page_dirty' # {}
     THEN pc' = "header" /\ UNCHANGED <<caller, pages>>
     ELSE IF LogFull(wal_frame_count')
          THEN pc' = "checkpoint" /\ UNCHANGED <<caller, pages>>
          ELSE CommitReturns
  /\ UNCHANGED <<db, dbLen, torn, num_pages, file_length, next>>

-----------------------------------------------------------------------------
(* background_checkpoint_task copies the latest frame of every page into   *)
(* the database file, in page order, and then empties the log.             *)

IsAnyCopy(p) == p >= next /\ page_to_wal_frame[p] > 0
IsNextCopy(p) ==
  /\ p >= next
  /\ page_to_wal_frame[p] > 0
  /\ \A q \in Pages : next <= q /\ q < p => page_to_wal_frame[q] = 0

CheckpointPage(p) ==
  /\ pc = "checkpoint"
  /\ IsNextCopy(p)
  /\ db' = [db EXCEPT ![p] = wal[page_to_wal_frame[p]].data]
  /\ dbLen' = IF p < dbLen THEN dbLen ELSE p + 1
  /\ next' = p + 1
  /\ UNCHANGED <<torn, wal, tail, pagerVars, pc, caller>>

\* A short write that goes unnoticed: the loop goes on.
ShortWriteIgnored(p) ==
  /\ pc = "checkpoint"
  /\ IsNextCopy(p)
  /\ p < dbLen
  /\ db' = [db EXCEPT ![p] = TORN]
  /\ next' = p + 1
  /\ UNCHANGED <<dbLen, torn, wal, tail, pagerVars, pc, caller>>

\* The write stops short: the process exits and leaves a part of the page.
CheckpointShortWrite(p) ==
  /\ pc = "checkpoint"
  /\ IsNextCopy(p)
  /\ Len(wal) <= CRASH_WAL_FRAMES
  /\ IF p < dbLen
     THEN db' = [db EXCEPT ![p] = TORN] /\ UNCHANGED <<dbLen, torn>>
     ELSE dbLen' = p /\ torn' = TRUE /\ UNCHANGED db
  /\ Gone
  /\ UNCHANGED <<wal, tail>>

\* The log is emptied when the loop has passed the last mapped page.
CopiedSome == next > 0
CopyDone == \A p \in Pages : p >= next => page_to_wal_frame[p] = 0

\* The commit returns to its caller; pager_checkpoint ends db_close.
CheckpointTruncate ==
  /\ pc = "checkpoint"
  /\ CopyDone
  /\ wal' = <<>>
  /\ tail' = NULL
  /\ UNCHANGED <<db, dbLen, torn>>
  /\ IF caller = "pager_checkpoint"
     THEN Gone
     ELSE /\ page_to_wal_frame' = NoFrames
          /\ wal_frame_count' = 0
          /\ next' = 0
          /\ CommitReturns
          /\ UNCHANGED <<page_dirty, num_pages, file_length>>

-----------------------------------------------------------------------------
\* The process is killed, or reaches one of its exits, or the end of its input.
Crash ==
  /\ pc # "down"
  /\ Len(wal) <= CRASH_WAL_FRAMES
  /\ Gone
  /\ UNCHANGED fileVars

DbOpen ==
  \/ DbOpenNew \/ DbOpenExisting \/ DbOpenRepair
  \/ DbOpenNoRootLeft \/ DbOpenCorrupt

\* A step of a commit or of a checkpoint that has begun.
Busy ==
  \/ StartCommit
  \/ \E p \in Pages : FlushHeader(p) \/ FlushPage(p) \/ CheckpointPage(p)
  \/ CheckpointTruncate

Next ==
  \/ DbOpen
  \/ Statement \/ CommitStatement \/ DbClose
  \/ Busy
  \/ \E p \in Pages : CheckpointShortWrite(p)
  \/ Crash

Spec == Init /\ [][Next]_vars

-----------------------------------------------------------------------------
TypeOK ==
  /\ db \in [Pages -> Contents]
  /\ dbLen \in 0 .. TABLE_MAX_PAGES
  /\ torn \in BOOLEAN
  /\ wal \in Seq(Frames)
  /\ tail \in FrameHeaders \cup {NULL}
  /\ pages \in [Pages -> Contents \cup {NULL}]
  /\ page_to_wal_frame \in [Pages -> Nat]
  /\ wal_frame_count \in Nat
  /\ page_dirty \in SUBSET Pages
  /\ num_pages \in 0 .. TABLE_MAX_PAGES
  /\ file_length \in 0 .. TABLE_MAX_PAGES
  /\ pc \in {"down", "idle", "commit", "header", "page", "checkpoint"}
  /\ caller \in {"none", "open", "statement", "close", "pager_checkpoint"}
  /\ next \in 0 .. TABLE_MAX_PAGES
==============================================================================
