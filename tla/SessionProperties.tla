-------------------------- MODULE SessionProperties --------------------------
(***************************************************************************)
(* What a session must do with the statements it has executed, stated over *)
(* the states and steps of Session.                                        *)
(***************************************************************************)
EXTENDS Session

Groups == [db : Databases, opened : Nat, begun : Nat]

\* Types; and only a database that has a directory is used or has a file.
TypeOK ==
  /\ created \subseteq Databases /\ filed \subseteq created
  /\ disk \in [Databases -> SUBSET Statements]
  /\ pc \in {"idle", "executed", "commit", ".commit", "close", "checkpoint", "open", "ended"}
  /\ active \in created \cup {NoDatabase}
  /\ cache \subseteq Statements
  /\ next \in created \cup {NoDatabase}
  /\ in_transaction \in BOOLEAN
  /\ group \in Seq(Groups) /\ Len(group) <= MAX_STATEMENTS
  /\ begun \in Nat /\ opened \in Nat

\* Outside of a transaction whatever has been executed is committed before the
\* next line is read, also when the transaction was begun in another database.
AcceptedIsCommitted ==
  pc = "idle" /\ active # NoDatabase /\ ~in_transaction => disk[active] = cache

\* A statement changes the database that was in use when it was executed and no
\* other, through all openings and closings.
EachInItsDatabase ==
  /\ \A d \in Databases : \A s \in disk[d] : s \in DOMAIN group /\ group[s].db = d
  /\ \A s \in cache : s \in DOMAIN group /\ group[s].db = active

\* The statements of a transaction on one database become durable together or
\* not at all, for as long as that database stays open: no process that ends,
\* and no other commit, leaves a part of them behind.
Durable(s) == s \in disk[group[s].db]
GroupsAtomic ==
  \A s, t \in DOMAIN group : group[s] = group[t] /\ Durable(s) => Durable(t)

\* What is durable stays so through closings, crashes and reopenings.
NothingForgotten == [][\A d \in Databases : disk[d] \subseteq disk'[d]]_vars

\* The databases of a session are a page store with one page for each: what the
\* statements see and commit is what the pager promises, whose modified pages
\* are those of the database in use.
Pending == [d \in {x \in Databases : x = active /\ cache # disk[x]} |-> cache]
Stores == INSTANCE PageStore WITH
            Pages <- Databases, Contents <- SUBSET Statements,
            image <- disk, pending <- Pending,
            committing <- pc \in {"commit", ".commit", "close"}
ImplementsStores == Stores!PSSpec

-----------------------------------------------------------------------------
(* Stated by the repository, and not so. *)

\* "defer commit until .commit" (sqlyt.h:152): while a transaction lasts, none
\* of its statements is durable.
DeferredUntilCommit ==
  in_transaction /\ pc # "ended" =>
    \A s \in DOMAIN group : s > begun => ~Durable(s)
=============================================================================
