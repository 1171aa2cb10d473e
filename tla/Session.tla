------------------------------- MODULE Session -------------------------------
(***************************************************************************)
(* A session (src/src/app.c, cli.c): the databases under one root          *)
(* directory, the one that is in use, the transaction of .begin and        *)
(* .commit, and the processes that come one after the other.               *)
(*                                                                         *)
(* A statement that changes something is a number, in the order they are   *)
(* executed, and a database is the set of statements whose effect it has.  *)
(* A statement that is refused changes nothing (module Statements), nor    *)
(* does one that only reads: neither is a step.  That a commit is atomic   *)
(* is what PagerProofs shows of the pager; here it is one step.            *)
(*                                                                         *)
(* An operator introduced by "As ..., but" is no part of the model: it is  *)
(* a slip the code could have made, and README.md names the property that  *)
(* rejects it.                                                             *)
(***************************************************************************)
EXTENDS Naturals, Sequences

CONSTANTS
  Databases,       \* names of databases
  NoDatabase,
  MAX_STATEMENTS,  \* bound: statements that change something
  LOSE_NEW         \* bound: whether a process may end without closing while
                   \* the log has all of a database and its file nothing

ASSUME SessionAssumption ==
  /\ NoDatabase \notin Databases
  /\ MAX_STATEMENTS \in Nat
  /\ LOSE_NEW \in BOOLEAN

Statements == 1 .. MAX_STATEMENTS

VARIABLES
  created,         \* databases that have a directory
  filed,           \* databases whose file has pages, and not only their log
  disk,            \* database |-> the statements that are committed
  pc,              \* where the process is, "ended" if there is none
  active,          \* the database in use, session.database
  cache,           \* what its pages in memory have
  next,            \* the database that is opened after this one is closed
  in_transaction,
  group,           \* history: where and in which transaction each statement was
  begun, opened    \* history: the statements executed when the transaction
                   \* began and when the database was opened

stored == <<created, filed, disk>>
history == <<group, begun, opened>>
vars == <<stored, pc, active, cache, next, in_transaction, history>>

-----------------------------------------------------------------------------
(* Statements. *)

\* create database: a directory that is there already is as good.
CreateDatabase(d) ==
  /\ pc = "idle"
  /\ created' = created \cup {d}
  /\ pc' = "executed"
  /\ UNCHANGED <<filed, disk, active, cache, next, in_transaction, history>>

\* Any other statement that changes the database in use.
Execute ==
  /\ pc = "idle" /\ active # NoDatabase
  /\ Len(group) < MAX_STATEMENTS
  /\ cache' = cache \cup {Len(group) + 1}
  /\ group' = Append(group, [db |-> active, opened |-> opened,
                             begun |-> IF in_transaction THEN begun ELSE Len(group)])
  /\ pc' = "executed"
  /\ UNCHANGED <<stored, active, next, in_transaction, begun, opened>>

\* As CommitsNow, but transactions are left out.
CommitsAnyway == active # NoDatabase

CommitsNow == ~in_transaction /\ active # NoDatabase

\* execute_sql, after the statement.
Executed ==
  /\ pc = "executed"
  /\ pc' = IF CommitsNow THEN "commit" ELSE "idle"
  /\ UNCHANGED <<stored, active, cache, next, in_transaction, history>>

\* As Committed, but .commit does no more than end the transaction.
CommittedUnasked == IF pc = ".commit" THEN disk ELSE [disk EXCEPT ![active] = cache]

\* As Committed, but what is closed is committed under the name of the next.
CommittedAsNext == [disk EXCEPT ![IF next = NoDatabase THEN active ELSE next] = cache]

\* pager_commit_transaction_sync, for the database in use.
Committed == [disk EXCEPT ![active] = cache]

\* The commit of a statement or of .commit, which ends the transaction after
\* it.  A checkpoint may follow.
Commit ==
  /\ pc \in {"commit", ".commit"}
  /\ disk' = Committed
  /\ filed' \in {filed, filed \cup {active}}
  /\ in_transaction' = (in_transaction /\ pc = "commit")
  /\ pc' = "idle"
  /\ UNCHANGED <<created, active, cache, next, history>>

-----------------------------------------------------------------------------
(* Meta commands. *)

\* .begin; inside a transaction it changes nothing.
Begin ==
  /\ pc = "idle"
  /\ in_transaction' = TRUE
  /\ begun' = IF in_transaction THEN begun ELSE Len(group)
  /\ UNCHANGED <<stored, pc, active, cache, next, group, opened>>

\* .commit
CommitCommand ==
  /\ pc = "idle"
  /\ IF active = NoDatabase
     THEN in_transaction' = FALSE /\ pc' = pc
     ELSE pc' = ".commit" /\ UNCHANGED in_transaction
  /\ UNCHANGED <<stored, active, cache, next, history>>

\* As HasDirectory, but nothing is looked up.
HasName(d) == d \in Databases

HasDirectory(d) == d \in created

\* .usedatabase, which is refused without a directory: the database in use is
\* closed first, also if it is the same.
UseDatabase(d) ==
  /\ pc = "idle" /\ HasDirectory(d)
  /\ next' = d
  /\ pc' = IF active = NoDatabase THEN "open" ELSE "close"
  /\ UNCHANGED <<stored, active, cache, in_transaction, history>>

\* .exit, the end of a script, or a line of a script that cannot be parsed.
Exit ==
  /\ pc = "idle"
  /\ pc' = IF active = NoDatabase THEN "ended" ELSE "close"
  /\ UNCHANGED <<stored, active, cache, next, in_transaction, history>>

\* db_close commits whatever is in memory, in a transaction or not ...
CloseCommit ==
  /\ pc = "close"
  /\ disk' = Committed
  /\ pc' = "checkpoint"
  /\ UNCHANGED <<created, filed, active, cache, next, in_transaction, history>>

\* ... and copies it into the file.
CloseCheckpoint ==
  /\ pc = "checkpoint"
  /\ filed' = filed \cup {active}
  /\ active' = NoDatabase /\ cache' = {}
  /\ pc' = IF next = NoDatabase THEN "ended" ELSE "open"
  /\ UNCHANGED <<created, disk, next, in_transaction, history>>

\* As Loaded, but only the file is read and the log is not.
LoadedFromFile(d) == {}

\* What db_open finds: a database whose file has no page is taken for new.
Loaded(d) == IF d \in filed THEN disk[d] ELSE {}

DbOpen ==
  /\ pc = "open"
  /\ active' = next /\ next' = NoDatabase
  /\ cache' = Loaded(next)
  /\ disk' = IF next \in filed THEN disk ELSE [disk EXCEPT ![next] = {}]
  /\ opened' = Len(group)
  /\ pc' = "idle"
  /\ UNCHANGED <<created, filed, in_transaction, group, begun>>

-----------------------------------------------------------------------------
(* Processes. *)

\* The process ends without db_close, at any step, as at the end of its input.
Crash ==
  /\ pc # "ended"
  /\ \A d \in Databases \ filed : d = active /\ disk[d] # {} => LOSE_NEW
  /\ pc' = "ended" /\ active' = NoDatabase /\ next' = NoDatabase /\ cache' = {}
  /\ UNCHANGED <<stored, in_transaction, history>>

Start ==
  /\ pc = "ended"
  /\ pc' = "idle" /\ in_transaction' = FALSE
  /\ UNCHANGED <<stored, active, cache, next, history>>

Init ==
  /\ created = {} /\ filed = {} /\ disk = [d \in Databases |-> {}]
  /\ pc = "ended" /\ active = NoDatabase /\ cache = {} /\ next = NoDatabase
  /\ in_transaction = FALSE
  /\ group = <<>> /\ begun = 0 /\ opened = 0

Next ==
  \/ \E d \in Databases : CreateDatabase(d) \/ UseDatabase(d)
  \/ Execute \/ Executed \/ Commit
  \/ Begin \/ CommitCommand \/ Exit
  \/ CloseCommit \/ CloseCheckpoint \/ DbOpen
  \/ Crash \/ Start

Spec == Init /\ [][Next]_vars
=============================================================================
