------------------------------ MODULE PageStore ------------------------------
(***************************************************************************)
(* What the pager promises its clients: an image of pages on disk that     *)
(* changes only by whole commits.  A client collects modified pages in     *)
(* pending; a commit replaces exactly those pages of the image, all at     *)
(* once; a crash forgets what was pending and keeps the image.             *)
(***************************************************************************)
EXTENDS Naturals

CONSTANTS Pages,      \* the page numbers of a database file
          Contents    \* what a page can hold

VARIABLES image,       \* the committed content of every page
          pending,     \* the modified pages not yet committed: page |-> content
          committing   \* a commit of the pending pages has begun

psVars == <<image, pending, committing>>

\* A set of modified pages with their contents.
PartialImages == UNION {[S -> Contents] : S \in SUBSET Pages}
NothingPending == [p \in {} |-> image[p]]

PSTypeOK ==
  /\ image \in [Pages -> Contents]
  /\ pending \in PartialImages
  /\ committing \in BOOLEAN

PSInit ==
  /\ image \in [Pages -> Contents]
  /\ pending = [p \in {} |-> image[p]]
  /\ committing = FALSE

\* Pages are modified or modified again; a modified page is never dropped.
Update ==
  /\ ~committing
  /\ pending' \in PartialImages
  /\ DOMAIN pending \subseteq DOMAIN pending'
  /\ UNCHANGED <<image, committing>>

BeginCommit ==
  /\ ~committing
  /\ committing' = TRUE
  /\ UNCHANGED <<image, pending>>

\* All pending pages reach the image in one step.
Commit ==
  /\ committing
  /\ image' = [p \in Pages |-> IF p \in DOMAIN pending THEN pending[p]
                                                       ELSE image[p]]
  /\ pending' = NothingPending
  /\ committing' = FALSE

\* The process ends, at any point, or closes the database.
Forget ==
  /\ pending' = NothingPending
  /\ committing' = FALSE
  /\ UNCHANGED image

PSNext == Update \/ BeginCommit \/ Commit \/ Forget

PSSpec == PSInit /\ [][PSNext]_psVars
==============================================================================
