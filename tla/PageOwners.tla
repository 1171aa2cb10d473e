----------------------------- MODULE PageOwners ------------------------------
(***************************************************************************)
(* What the tables of one database promise each other: a page belongs to   *)
(* at most one of them, which alone gives it back; nobody takes a page     *)
(* another one has.  A process that ends without closing goes back to the  *)
(* owners that were committed last.                                        *)
(***************************************************************************)
EXTENDS Naturals

CONSTANTS Pages,    \* the pages of the database
          Tables    \* those who own pages, the catalog among them

VARIABLES owners,   \* the tables each page belongs to, never more than one
          saved     \* the same, as it was committed

poVars == <<owners, saved>>

POInit ==
  /\ owners = [p \in Pages |-> {}]
  /\ saved = owners

\* A table takes pages nobody has and gives back pages of its own.
Exchange(t) ==
  /\ owners' \in [Pages -> SUBSET Tables]
  /\ \A p \in Pages : \/ owners'[p] = owners[p]
                      \/ owners[p] = {} /\ owners'[p] = {t}
                      \/ owners[p] = {t} /\ owners'[p] = {}
  /\ UNCHANGED saved

\* The first page of a new database is taken and committed at once.
Format(t, p) ==
  /\ owners[p] = {}
  /\ owners' = [owners EXCEPT ![p] = {t}]
  /\ saved' = owners'

Save == saved' = owners /\ UNCHANGED owners

Restore == owners' = saved /\ UNCHANGED saved

PONext ==
  \/ \E t \in Tables : Exchange(t)
  \/ \E t \in Tables, p \in Pages : Format(t, p)
  \/ Save
  \/ Restore

POSpec == POInit /\ [][PONext]_poVars
=============================================================================
