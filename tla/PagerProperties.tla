-------------------------- MODULE PagerProperties ---------------------------
(***************************************************************************)
(* What the pager must do, stated over the states and steps of Pager.      *)
(***************************************************************************)
EXTENDS Pager

-----------------------------------------------------------------------------
(* The pager implements PageStore.  Its image is what a reader of the two  *)
(* files would recover now; pending are the modified pages whose commit    *)
(* frame is not in the log yet, flushed or not.                            *)

UncommittedFrames == CommitPoint(wal) + 1 .. Len(wal)

PendingPages ==
  IF pc = "down" THEN {}
  ELSE page_dirty \cup {wal[i].page_num : i \in UncommittedFrames}

Pending == [p \in PendingPages |-> pages[p]]

Committing == pc \in {"header", "page"}

PS == INSTANCE PageStore WITH image <- CommittedImage,
                              pending <- Pending,
                              committing <- Committing

\* Commits are atomic and durable: a commit replaces exactly the modified pages
\* of the recoverable image at the step that completes its last frame, and
\* nothing else changes that image - no flush of one page, no checkpoint step,
\* no short write of a checkpoint, no crash at any point, no replay of the log.
ImplementsPageStore == PS!PSSpec

-----------------------------------------------------------------------------
\* The map from pages to frames is exact between commits: it names the last
\* frame of a page, except for a page that get_unused_page_num recycled, which
\* has no mapping and is dirty, so that the next commit maps it again.
MapExact ==
  pc \in {"idle", "commit"} =>
    \A p \in Pages :
      \/ IsLastFrame(wal, Len(wal), p, page_to_wal_frame[p])
      \/ page_to_wal_frame[p] = 0 /\ p \in page_dirty

\* A cache miss returns the committed content of the page, for every page that
\* has a frame, that was in the file when it was opened, or that is in no file.
MissReadsCommitted ==
  pc = "idle" =>
    \A p \in Pages :
      /\ pages[p] = NULL
      /\ page_to_wal_frame[p] > 0 \/ p < file_length \/ p >= dbLen
      => PageOnMiss(page_to_wal_frame, file_length, p) = CommittedImage[p]

\* A page left with a part of a write is always covered by a committed frame.
TornPagesCovered == \A p \in Pages : CommittedImage[p] # TORN

\* While a checkpoint runs the file it has written so far and the log agree:
\* the log may be emptied as soon as no mapped page is left to copy.
CheckpointProgress ==
  pc = "checkpoint" =>
    \A p \in Pages : p < next => db[p] = CommittedImage[p]

\* db_close leaves the whole image in the database file and an empty log
\* ("Sync WAL to DB before exiting", pager.c:381).
CloseSyncsFile ==
  [][pc = "checkpoint" /\ caller = "pager_checkpoint" /\ pc' = "down" /\ wal # wal'
      => wal' = <<>> /\ db' = CommittedImage]_vars

\* A commit that wrote frames never hands back a log that has reached the
\* threshold, whatever length an earlier crash had left it with.
CommitKeepsLogShort ==
  [][pc' = "idle" /\ pc \in {"page", "checkpoint"}
     => Len(wal') < WAL_CHECKPOINT_THRESHOLD]_vars

\* db_close makes the file long enough for every page that the process has asked
\* for, written or not (num_pages), and for every page an earlier process left in
\* the log alone: the next pager_open, which counts pages by the length of the
\* file (pager.c:30), misses none, and none of them is handed out again as new.
CloseCountsPages ==
  [][pc = "checkpoint" /\ caller = "pager_checkpoint" /\ pc' = "down" /\ wal' = <<>>
      => \A p \in Pages :
           p < num_pages \/ (\E i \in DOMAIN wal : wal[i].page_num = p) => p < dbLen']_vars

-----------------------------------------------------------------------------
(* The inductive invariant from which the properties above are proved.     *)

\* The recoverable prefix of the log is well defined.
LogReadable ==
  /\ IsCommitPoint(wal, CommitPoint(wal))
  /\ \A p \in Pages :
       IsLastFrame(wal, CommitPoint(wal), p, LastFrame(wal, CommitPoint(wal), p))

\* Nothing lies beyond the end of the database file.
FileEnds == \A p \in Pages : p >= dbLen => db[p] = ZERO

\* A process without the database has no pages; one that has it knows the log.
Bookkeeping ==
  /\ pc = "down" => pages = NoPages /\ page_dirty = {}
  /\ pc # "down" => wal_frame_count = Len(wal) /\ file_length <= dbLen
  /\ \A p \in page_dirty : pages[p] # NULL

\* MapExact, at every step of an open database.
MapTracksLog ==
  pc # "down" =>
    \A p \in Pages :
      \/ IsLastFrame(wal, Len(wal), p, page_to_wal_frame[p])
      \/ page_to_wal_frame[p] = 0 /\ p \in page_dirty

\* Between commits, and once a commit is complete, no frame is uncommitted.
LogCommitted ==
  pc \in {"idle", "commit", "checkpoint"} => IsCommitPoint(wal, Len(wal))

\* While a commit flushes, its frames hold the cached pages, in page order,
\* and the last dirty page is still to come.
FlushOrder ==
  pc \in {"header", "page"} =>
    /\ page_dirty # {}
    /\ next = 0
    /\ \A i \in UncommittedFrames :
         /\ wal[i].data = pages[wal[i].page_num]
         /\ \A q \in page_dirty : wal[i].page_num < q

TailIsNext ==
  pc = "page" =>
    /\ tail \in FrameHeaders
    /\ IsNextDirty(tail.page_num)
    /\ tail.is_commit = IsLastDirty(tail.page_num)

CopiedPages ==
  pc = "checkpoint" =>
    /\ page_dirty = {}
    /\ \A p \in Pages :
         p < next /\ page_to_wal_frame[p] > 0
         => db[p] = wal[page_to_wal_frame[p]].data

\* No part of a page is ever cached, and so none is ever committed.
CacheWhole == \A p \in Pages : pages[p] # TORN

\* The last page that num_pages counts is in the file, or on its way there: cached,
\* and when a close has begun dirty or mapped, and later at least mapped.
CountReachesFile ==
  /\ pc = "idle" => caller = "none"
  /\ caller = "pager_checkpoint" => pc = "checkpoint"
  /\ caller = "close" =>
       \A p \in Pages :
         p < num_pages /\ pages[p] # NULL => p \in page_dirty \/ page_to_wal_frame[p] > 0
  /\ pc = "checkpoint" =>
       \A p \in Pages : p < next /\ page_to_wal_frame[p] > 0 => p < dbLen
  /\ \A p \in Pages :
       num_pages = p + 1 =>
         \/ p < dbLen
         \/ IF caller = "pager_checkpoint" THEN page_to_wal_frame[p] > 0
                                          ELSE pages[p] # NULL

IInv ==
  /\ TypeOK
  /\ LogReadable
  /\ FileEnds
  /\ Bookkeeping
  /\ MapTracksLog
  /\ LogCommitted
  /\ FlushOrder
  /\ TailIsNext
  /\ CopiedPages

-----------------------------------------------------------------------------
(* Two claims of the repository that the code does not meet. *)

\* btree.c:215 "Cache miss. Allocate memory and load from file.": a page that
\* is not cached is loaded with its committed content.
MissLoadsFromFile ==
  pc = "idle" =>
    \A p \in Pages :
      pages[p] = NULL
      => PageOnMiss(page_to_wal_frame, file_length, p) = CommittedImage[p]

\* README.md:70-72, the pager "implements WAL frame writes and checkpointing"
\* as the durability layer: opening a database whose files hold a committed
\* image with a valid header leaves that image alone.
OpenKeepsImage ==
  [][caller = "open" /\ header_is_valid(CommittedImage[0])
      => CommittedImage' = CommittedImage]_vars
=============================================================================
