---------------------------- MODULE SessionProofs ----------------------------
(***************************************************************************)
(* Theorems about Session, for any set of databases and any number of      *)
(* statements.  GroupsAtomic and the rest are conjuncts of one inductive   *)
(* invariant, SessionInv: what is committed of the database in use is      *)
(* always a part of what is in memory (Growing), memory has all that was   *)
(* executed since the opening (Recent), and of the transaction that lasts  *)
(* nothing is committed (Undecided); so a commit takes all of a group.     *)
(***************************************************************************)
EXTENDS SessionProperties, TLAPS

\* Which databases there are at each step of the process.
Places ==
  /\ pc = "ended" => active = NoDatabase
  /\ active = NoDatabase => cache = {}
  /\ pc \in {"commit", ".commit", "close", "checkpoint"} => active # NoDatabase
  /\ pc = "open" => active = NoDatabase /\ next # NoDatabase
  /\ next # NoDatabase => pc \in {"close", "checkpoint", "open"}
  /\ pc = "commit" => ~in_transaction

InUse == active # NoDatabase

Growing == InUse => disk[active] \subseteq cache
Synced == pc = "checkpoint" => cache = disk[active]
Kept == LOSE_NEW \/ \A d \in Databases : disk[d] # {} => d \in filed \/ d = active

Numbered ==
  /\ begun <= Len(group) /\ opened <= Len(group)
  /\ \A s \in DOMAIN group : group[s].begun < s /\ group[s].opened < s

Recent == InUse => \A s \in DOMAIN group : s > opened => s \in cache

CacheAtomic ==
  \A s, t \in DOMAIN group : group[s] = group[t] /\ s \in cache => t \in cache

Undecided ==
  InUse /\ in_transaction /\ pc # "checkpoint" =>
    \A s \in DOMAIN group : s > begun /\ s > opened => s \notin disk[active]

SessionInv ==
  /\ TypeOK /\ Places
  /\ AcceptedIsCommitted /\ EachInItsDatabase
  /\ Growing /\ Synced /\ Kept /\ Numbered
  /\ Recent /\ CacheAtomic /\ Undecided /\ GroupsAtomic

-----------------------------------------------------------------------------
(* Types and places. *)

\* Everything Execute does to the history.
LEMMA GroupGrows ==
  ASSUME TypeOK, Execute
  PROVE  /\ Len(group) \in Nat /\ Len(group') = Len(group) + 1
         /\ DOMAIN group = 1 .. Len(group)
         /\ DOMAIN group' = DOMAIN group \cup {Len(group) + 1}
         /\ \A s \in DOMAIN group : group'[s] = group[s]
         /\ group'[Len(group) + 1] =
              [db |-> active, opened |-> opened,
               begun |-> IF in_transaction THEN begun ELSE Len(group)]
         /\ group' \in Seq(Groups)
<1> DEFINE g == [db |-> active, opened |-> opened,
                 begun |-> IF in_transaction THEN begun ELSE Len(group)]
<1>1. Len(group) \in Nat
  BY DEF TypeOK
<1>2. g \in Groups
  BY <1>1 DEF TypeOK, Execute, Groups
<1>3. group' = Append(group, g) /\ group \in Seq(Groups)
  BY DEF TypeOK, Execute
<1> HIDE DEF g
<1>4. QED
  BY <1>1, <1>2, <1>3 DEF g

\* Whatever is committed has been in memory.
LEMMA CommittedTypes ==
  ASSUME TypeOK, active # NoDatabase
  PROVE  /\ active \in created /\ active \in Databases
         /\ Committed \in [Databases -> SUBSET Statements]
  BY DEF TypeOK, Committed

\* Every step of a session keeps the types.
LEMMA TypesStep ==
  ASSUME TypeOK, Places, [Next]_vars
  PROVE  TypeOK'
<1>1. ASSUME NEW d \in Databases, CreateDatabase(d) \/ UseDatabase(d)
      PROVE  TypeOK'
  BY <1>1 DEF TypeOK, CreateDatabase, UseDatabase, HasDirectory, stored, history
<1>2. CASE Execute
  <2>1. Len(group) \in Nat /\ Len(group) < MAX_STATEMENTS
    BY <1>2, GroupGrows DEF Execute
  <2>2. Len(group) + 1 \in Statements /\ Len(group) + 1 <= MAX_STATEMENTS
    BY <2>1, SessionAssumption DEF Statements
  <2>3. group' \in Seq(Groups) /\ Len(group') <= MAX_STATEMENTS
    BY <1>2, <2>2, GroupGrows
  <2>4. cache' \subseteq Statements
    BY <1>2, <2>2 DEF TypeOK, Execute
  <2>5. QED
    BY <1>2, <2>3, <2>4 DEF TypeOK, Execute, stored
<1>3. CASE Commit \/ CloseCommit
  <2>1. active # NoDatabase
    BY <1>3 DEF Places, Commit, CloseCommit
  <2>2. active \in created /\ Committed \in [Databases -> SUBSET Statements]
    BY <2>1, CommittedTypes
  <2>3. CASE Commit
    BY <2>2, <2>3 DEF TypeOK, Commit, history
  <2>4. CASE CloseCommit
    BY <2>2, <2>4 DEF TypeOK, CloseCommit, history
  <2>5. QED
    BY <1>3, <2>3, <2>4
<1>4. CASE CloseCheckpoint
  BY <1>4 DEF TypeOK, Places, CloseCheckpoint, history
<1>5. CASE DbOpen
  BY <1>5 DEF TypeOK, Places, DbOpen, Loaded
<1>6. CASE Begin
  <2>1. begun' \in Nat /\ in_transaction' \in BOOLEAN
    BY <1>6 DEF TypeOK, Begin
  <2>2. QED
    BY <1>6, <2>1 DEF TypeOK, Begin, stored
<1>7. CASE Executed \/ CommitCommand \/ Exit \/ Crash \/ Start
  BY <1>7 DEF TypeOK, Executed, CommitCommand, Exit, Crash, Start, stored, history
<1>8. CASE UNCHANGED vars
  BY <1>8 DEF TypeOK, vars, stored, history
<1>9. QED
  BY <1>1, <1>2, <1>3, <1>4, <1>5, <1>6, <1>7, <1>8 DEF Next

\* Every step keeps a database in use just where the code has one.
LEMMA PlacesStep ==
  ASSUME TypeOK, Places, [Next]_vars
  PROVE  Places'
<1>1. ASSUME NEW d \in Databases, CreateDatabase(d) \/ UseDatabase(d)
      PROVE  Places'
  BY <1>1, SessionAssumption DEF TypeOK, Places, CreateDatabase, UseDatabase, stored, history
<1>2. CASE DbOpen
  BY <1>2, SessionAssumption DEF TypeOK, Places, DbOpen, Loaded
<1>3. CASE Execute \/ Executed \/ Commit \/ CloseCommit \/ CloseCheckpoint
  BY <1>3 DEF Places, Execute, Executed, CommitsNow, Commit, CloseCommit,
              CloseCheckpoint, stored, history
<1>4. CASE Begin \/ CommitCommand \/ Exit \/ Crash \/ Start \/ UNCHANGED vars
  BY <1>4 DEF Places, Begin, CommitCommand, Exit, Crash, Start, vars, stored, history
<1>5. QED
  BY <1>1, <1>2, <1>3, <1>4 DEF Next

-----------------------------------------------------------------------------
(* What is in memory and what is committed. *)

\* Steps that change neither.
Quiet == UNCHANGED <<filed, disk, active, cache, group, opened>>

\* A step is quiet or one of the seven that are not.
LEMMA StepKinds ==
  ASSUME [Next]_vars
  PROVE  Quiet \/ Execute \/ Commit \/ CloseCommit \/ CloseCheckpoint \/ DbOpen \/ Crash
<1>1. ASSUME NEW d \in Databases, CreateDatabase(d) \/ UseDatabase(d)
      PROVE  Quiet
  BY <1>1 DEF Quiet, CreateDatabase, UseDatabase, stored, history
<1>2. CASE Executed \/ Begin \/ CommitCommand \/ Exit \/ Start \/ UNCHANGED vars
  BY <1>2 DEF Quiet, Executed, Begin, CommitCommand, Exit, Start, vars, stored, history
<1>3. QED
  BY <1>1, <1>2 DEF Next

\* A commit makes what is in memory all there is of the database in use.
LEMMA CommitSteps ==
  ASSUME TypeOK, Places, Commit \/ CloseCommit
  PROVE  /\ active \in Databases /\ active # NoDatabase
         /\ active' = active /\ disk'[active] = cache
         /\ \A d \in Databases : d # active => disk'[d] = disk[d]
         /\ UNCHANGED <<cache, group, opened, next>>
  BY CommittedTypes DEF TypeOK, Places, Commit, CloseCommit, Committed, history

\* No step, closing and opening included, mixes two databases.
LEMMA EachInItsDatabaseStep ==
  ASSUME TypeOK, Places, EachInItsDatabase, [Next]_vars
  PROVE  EachInItsDatabase'
<1>1. CASE Quiet
  BY <1>1 DEF Quiet, EachInItsDatabase
<1>2. CASE Execute
  BY <1>2, GroupGrows DEF EachInItsDatabase, Execute, stored
<1>3. CASE Commit \/ CloseCommit
  BY <1>3, CommitSteps DEF EachInItsDatabase
<1>4. CASE CloseCheckpoint \/ Crash
  BY <1>4 DEF EachInItsDatabase, CloseCheckpoint, Crash, stored, history
<1>5. CASE DbOpen
  <2>1. next \in Databases
    BY <1>5 DEF TypeOK, Places, DbOpen
  <2>2. \A d \in Databases : disk'[d] \subseteq disk[d]
    BY <1>5, <2>1 DEF TypeOK, DbOpen
  <2>3. cache' \subseteq disk[next] /\ active' = next /\ group' = group
    BY <1>5, <2>1 DEF DbOpen, Loaded
  <2>4. QED
    BY <2>1, <2>2, <2>3 DEF EachInItsDatabase
<1>6. QED
  BY <1>1, <1>2, <1>3, <1>4, <1>5, StepKinds

\* What is committed of the database in use is in memory, and all of it when
\* nothing is pending.
LEMMA GrowingStep ==
  ASSUME TypeOK, Places, Growing, Synced, [Next]_vars
  PROVE  Growing' /\ Synced'
<1>1. CASE Execute
  BY <1>1 DEF Growing, Synced, InUse, Execute, stored
<1>2. CASE Commit \/ CloseCommit
  BY <1>2, CommitSteps DEF Growing, Synced, InUse
<1>3. CASE CloseCheckpoint \/ Crash
  BY <1>3, SessionAssumption DEF Growing, Synced, InUse, CloseCheckpoint, Crash
<1>4. CASE DbOpen
  <2>1. next \in Databases
    BY <1>4 DEF TypeOK, Places, DbOpen
  <2>2. disk'[next] = cache' /\ active' = next /\ pc' = "idle"
    BY <1>4, <2>1 DEF TypeOK, DbOpen, Loaded
  <2>3. QED
    BY <2>2 DEF Growing, Synced, InUse
<1>5. CASE Quiet
  <2>1. pc' = "checkpoint" => pc = "checkpoint" \/ CloseCommit
    BY DEF Next, CreateDatabase, UseDatabase, Execute, Executed, Commit, Begin,
           CommitCommand, Exit, CloseCheckpoint, DbOpen, Crash, Start, vars
  <2>2. QED
    BY <1>2, <1>5, <2>1 DEF Quiet, Growing, Synced, InUse
<1>6. QED
  BY <1>1, <1>2, <1>3, <1>4, <1>5, StepKinds

\* No step reaches the next line with an accepted statement uncommitted.
LEMMA AcceptedStep ==
  ASSUME TypeOK, Places, AcceptedIsCommitted, [Next]_vars
  PROVE  AcceptedIsCommitted'
<1>1. CASE Commit
  BY <1>1, CommitSteps DEF AcceptedIsCommitted
<1>2. CASE DbOpen
  <2>1. next \in Databases
    BY <1>2 DEF TypeOK, Places, DbOpen
  <2>2. QED
    BY <1>2, <2>1 DEF TypeOK, DbOpen, Loaded, AcceptedIsCommitted
<1>3. CASE Executed
  BY <1>3 DEF Executed, CommitsNow, AcceptedIsCommitted
<1>4. ASSUME NEW d \in Databases, CreateDatabase(d) \/ UseDatabase(d)
      PROVE  AcceptedIsCommitted'
  BY <1>4 DEF CreateDatabase, UseDatabase, AcceptedIsCommitted
<1>5. CASE Execute \/ Begin \/ CommitCommand \/ Exit \/ CloseCommit \/ CloseCheckpoint
  BY <1>5 DEF Execute, Begin, CommitCommand, Exit, CloseCommit, CloseCheckpoint,
              AcceptedIsCommitted, stored, history
<1>6. CASE Crash \/ Start \/ UNCHANGED vars
  BY <1>6 DEF Places, Crash, Start, AcceptedIsCommitted, vars, stored, history
<1>7. QED
  BY <1>1, <1>2, <1>3, <1>4, <1>5, <1>6 DEF Next

\* A database that has pages in its log only is in use.
LEMMA KeptStep ==
  ASSUME TypeOK, Places, Kept, [Next]_vars
  PROVE  Kept'
<1>1. CASE Quiet
  BY <1>1 DEF Quiet, Kept
<1>2. CASE Execute
  BY <1>2 DEF Kept, Execute, stored
<1>3. CASE Commit \/ CloseCommit
  <2>1. filed \subseteq filed'
    BY <1>3 DEF Commit, CloseCommit
  <2>2. QED
    BY <1>3, <2>1, CommitSteps DEF Kept
<1>4. CASE CloseCheckpoint
  BY <1>4 DEF Kept, CloseCheckpoint
<1>5. CASE DbOpen
  <2>1. \A d \in Databases : disk'[d] \subseteq disk[d]
    BY <1>5 DEF TypeOK, Places, DbOpen
  <2>2. active = NoDatabase /\ filed' = filed
    BY <1>5 DEF Places, DbOpen
  <2>3. QED
    BY <2>1, <2>2, SessionAssumption DEF Kept
<1>6. CASE Crash
  BY <1>6 DEF Kept, Crash, stored
<1>7. QED
  BY <1>1, <1>2, <1>3, <1>4, <1>5, <1>6, StepKinds

-----------------------------------------------------------------------------
(* Groups. *)

\* Statements lie after the opening and the .begin they belong to.
LEMMA NumberedStep ==
  ASSUME TypeOK, Numbered, [Next]_vars
  PROVE  Numbered'
<1>1. Len(group) \in Nat /\ begun \in Nat /\ opened \in Nat
  BY DEF TypeOK
<1>2. CASE Execute
  <2>1. \A s \in DOMAIN group' : group'[s].begun < s /\ group'[s].opened < s
    <3>1. \A s \in DOMAIN group : group'[s].begun < s /\ group'[s].opened < s
      BY <1>2, GroupGrows DEF Numbered
    <3>2. /\ group'[Len(group) + 1].opened = opened
          /\ group'[Len(group) + 1].begun \in {begun, Len(group)}
      BY <1>2, GroupGrows
    <3>3. opened < Len(group) + 1 /\ begun < Len(group) + 1 /\ Len(group) < Len(group) + 1
      BY <1>1 DEF Numbered
    <3>4. QED
      BY <1>2, <3>1, <3>2, <3>3, GroupGrows
  <2>2. begun' = begun /\ opened' = opened /\ Len(group') = Len(group) + 1
    BY <1>2, GroupGrows DEF Execute
  <2>3. QED
    BY <1>1, <2>1, <2>2 DEF Numbered
<1>3. ASSUME ~Execute
      PROVE  /\ group' = group
             /\ begun' \in {begun, Len(group)} /\ opened' \in {opened, Len(group)}
  BY <1>3 DEF Next, CreateDatabase, UseDatabase, Executed, Commit, Begin, CommitCommand,
              Exit, CloseCommit, CloseCheckpoint, DbOpen, Crash, Start, vars, stored, history
<1>4. CASE ~Execute
  BY <1>1, <1>3, <1>4 DEF Numbered
<1>5. QED
  BY <1>2, <1>4

\* Memory has what was executed since the opening.
LEMMA RecentStep ==
  ASSUME TypeOK, Places, Numbered, Recent, [Next]_vars
  PROVE  Recent'
<1>1. CASE Quiet
  BY <1>1 DEF Quiet, Recent, InUse
<1>2. CASE Execute
  BY <1>2, GroupGrows DEF Recent, InUse, Execute
<1>3. CASE Commit \/ CloseCommit
  BY <1>3, CommitSteps DEF Recent, InUse
<1>4. CASE CloseCheckpoint \/ Crash
  BY <1>4 DEF Recent, InUse, CloseCheckpoint, Crash
<1>5. CASE DbOpen
  <2>1. opened' = Len(group) /\ group' = group
    BY <1>5 DEF DbOpen
  <2>2. \A s \in DOMAIN group : ~(s > Len(group)) /\ Len(group) \in Nat
    BY DEF TypeOK
  <2>3. QED
    BY <2>1, <2>2 DEF Recent
<1>6. QED
  BY <1>1, <1>2, <1>3, <1>4, <1>5, StepKinds

\* Whatever of a transaction is in memory, all of it is.
LEMMA CacheAtomicStep ==
  ASSUME TypeOK, Places, EachInItsDatabase, Numbered, Recent, CacheAtomic, GroupsAtomic,
         [Next]_vars
  PROVE  CacheAtomic'
<1>1. CASE Quiet
  BY <1>1 DEF Quiet, CacheAtomic
<1>2. CASE Execute
  <2> DEFINE n == Len(group) + 1
  <2>1. /\ DOMAIN group' = DOMAIN group \cup {n} /\ group'[n].opened = opened
        /\ \A s \in DOMAIN group : group'[s] = group[s]
        /\ cache' = cache \cup {n}
    BY <1>2, GroupGrows DEF Execute
  <2>2. \A t \in DOMAIN group : group'[t] = group'[n] => t \in cache
    <3>1. ASSUME NEW t \in DOMAIN group, group'[t] = group'[n]
          PROVE  t > opened
      BY <2>1, <3>1 DEF Numbered, TypeOK
    <3>2. QED
      BY <1>2, <3>1 DEF Recent, InUse, Execute
  <2>3. n \notin DOMAIN group
    BY <1>2, GroupGrows
  <2> HIDE DEF n
  <2>4. ASSUME NEW s \in DOMAIN group', NEW t \in DOMAIN group',
               group'[s] = group'[t], s \in cache'
        PROVE  t \in cache'
    <3>1. CASE t = n
      BY <2>1, <3>1
    <3>2. CASE t # n /\ s = n
      BY <2>1, <2>2, <2>4, <3>2
    <3>3. CASE t # n /\ s # n
      BY <2>1, <2>4, <3>3 DEF CacheAtomic
    <3>4. QED
      BY <3>1, <3>2, <3>3
  <2>5. QED
    BY <2>4 DEF CacheAtomic
<1>3. CASE Commit \/ CloseCommit
  BY <1>3, CommitSteps DEF CacheAtomic
<1>4. CASE CloseCheckpoint \/ Crash
  BY <1>4 DEF CacheAtomic, CloseCheckpoint, Crash
<1>5. CASE DbOpen
  <2>1. next \in Databases
    BY <1>5 DEF TypeOK, Places, DbOpen
  <2>2. cache' \in {{}, disk[next]} /\ group' = group
    BY <1>5 DEF DbOpen, Loaded
  <2>3. ASSUME NEW s \in DOMAIN group, NEW t \in DOMAIN group,
               group[s] = group[t], s \in disk[next]
        PROVE  t \in disk[next]
    BY <2>1, <2>3 DEF GroupsAtomic, Durable, EachInItsDatabase
  <2>4. QED
    BY <2>2, <2>3 DEF CacheAtomic
<1>6. QED
  BY <1>1, <1>2, <1>3, <1>4, <1>5, StepKinds

\* Nothing of the transaction that lasts is committed.
LEMMA UndecidedStep ==
  ASSUME TypeOK, Places, EachInItsDatabase, Numbered, Undecided, [Next]_vars
  PROVE  Undecided'
<1>1. \A s \in DOMAIN group : ~(s > Len(group)) /\ Len(group) \in Nat
  BY DEF TypeOK
<1>2. CASE Execute
  <2>1. Len(group) + 1 \notin disk[active]
    BY <1>1, <1>2, GroupGrows DEF Execute, EachInItsDatabase, TypeOK
  <2>2. QED
    BY <1>2, <2>1, GroupGrows DEF Undecided, InUse, Execute, stored
<1>3. CASE Begin
  BY <1>1, <1>3 DEF Undecided, InUse, Begin, stored
<1>4. CASE DbOpen
  BY <1>1, <1>4 DEF Undecided, DbOpen
<1>5. CASE Commit \/ CloseCommit
  BY <1>5 DEF Places, Undecided, Commit, CloseCommit
<1>6. CASE CloseCheckpoint \/ Crash \/ Start
  BY <1>6 DEF Undecided, InUse, CloseCheckpoint, Crash, Start
<1>7. ASSUME NEW d \in Databases, CreateDatabase(d) \/ UseDatabase(d)
      PROVE  Undecided'
  BY <1>7 DEF Undecided, InUse, CreateDatabase, UseDatabase, stored, history
<1>8. CASE Executed \/ CommitCommand \/ Exit \/ UNCHANGED vars
  BY <1>8 DEF Undecided, InUse, Executed, CommitCommand, Exit, vars, stored, history
<1>9. QED
  BY <1>2, <1>3, <1>4, <1>5, <1>6, <1>7, <1>8 DEF Next

\* No step makes a part of a transaction durable.
LEMMA GroupsAtomicStep ==
  ASSUME TypeOK, Places, EachInItsDatabase, Numbered, CacheAtomic, Undecided, GroupsAtomic,
         [Next]_vars
  PROVE  GroupsAtomic'
<1>0. \A s \in DOMAIN group : group[s].db \in Databases
  <2>1. \A s \in DOMAIN group : group[s] \in Groups
    BY DEF TypeOK
  <2>2. QED
    BY <2>1 DEF Groups
<1>1. CASE Quiet \/ CloseCheckpoint \/ Crash
  <2>1. disk' = disk /\ group' = group
    BY <1>1 DEF Quiet, CloseCheckpoint, Crash, stored, history
  <2>2. QED
    BY <2>1 DEF GroupsAtomic, Durable
<1>2. CASE Execute
  <2> DEFINE n == Len(group) + 1
  <2>1. /\ DOMAIN group' = DOMAIN group \cup {n} /\ n \notin DOMAIN group
        /\ \A s \in DOMAIN group : group'[s] = group[s]
        /\ group'[n].db = active /\ group'[n].opened = opened
        /\ group'[n].begun = IF in_transaction THEN begun ELSE Len(group)
        /\ disk' = disk /\ active \in Databases
    BY <1>2, GroupGrows DEF Execute, stored, TypeOK
  <2>2. \A d \in Databases : n \notin disk[d]
    BY <2>1 DEF EachInItsDatabase
  <2>3. ASSUME NEW s \in DOMAIN group, group[s] = group'[n]
        PROVE  s \notin disk[active]
    <3>1. CASE in_transaction
      <4>1. s > begun /\ s > opened
        BY <2>1, <2>3, <3>1 DEF Numbered, TypeOK
      <4>2. QED
        BY <1>2, <3>1, <4>1 DEF Undecided, InUse, Execute
    <3>2. CASE ~in_transaction
      <4>1. Len(group) < s
        BY <2>1, <2>3, <3>2 DEF Numbered
      <4>2. s \in 1 .. Len(group) /\ Len(group) \in Nat
        BY <1>2, GroupGrows
      <4>3. QED
        BY <4>1, <4>2
    <3>3. QED
      BY <3>1, <3>2
  <2> HIDE DEF n
  <2>4. ASSUME NEW s \in DOMAIN group', NEW t \in DOMAIN group',
               group'[s] = group'[t], s \in disk'[group'[s].db]
        PROVE  t \in disk'[group'[t].db]
    <3>1. s \in DOMAIN group
      BY <2>1, <2>2, <2>4
    <3>2. t # n
      BY <2>1, <2>3, <2>4, <3>1
    <3>3. QED
      BY <2>1, <2>4, <3>1, <3>2 DEF GroupsAtomic, Durable
  <2>5. QED
    BY <2>4 DEF GroupsAtomic, Durable
<1>3. CASE Commit \/ CloseCommit
  BY <1>0, <1>3, CommitSteps DEF GroupsAtomic, Durable, CacheAtomic
<1>4. CASE DbOpen
  <2>1. group' = group /\ next \in Databases
    BY <1>4 DEF TypeOK, Places, DbOpen
  <2>2. \A d \in Databases : disk'[d] = disk[d] \/ (d = next /\ disk'[d] = {})
    BY <1>4, <2>1 DEF TypeOK, DbOpen
  <2>3. QED
    BY <1>0, <2>1, <2>2 DEF GroupsAtomic, Durable
<1>5. QED
  BY <1>1, <1>2, <1>3, <1>4, StepKinds

-----------------------------------------------------------------------------
(* Theorems. *)

\* The invariant holds before the first process.
LEMMA InitSession == Init => SessionInv
<1> SUFFICES ASSUME Init
             PROVE  SessionInv
  OBVIOUS
<1>1. Len(group) = 0 /\ DOMAIN group = {} /\ group \in Seq(Groups)
  BY DEF Init
<1>2. TypeOK
  <2>1. disk \in [Databases -> SUBSET Statements] /\ cache \subseteq Statements
    BY DEF Init
  <2>2. Len(group) <= MAX_STATEMENTS
    BY <1>1, SessionAssumption
  <2>3. QED
    BY <1>1, <2>1, <2>2 DEF Init, TypeOK
<1>3. Places /\ AcceptedIsCommitted /\ EachInItsDatabase
  BY DEF Init, Places, AcceptedIsCommitted, EachInItsDatabase
<1>4. Growing /\ Synced /\ Kept /\ Recent
  BY DEF Init, Growing, Synced, Kept, Recent, InUse
<1>5. Numbered /\ CacheAtomic /\ Undecided /\ GroupsAtomic
  BY <1>1 DEF Init, Numbered, CacheAtomic, Undecided, GroupsAtomic, InUse
<1>6. QED
  BY <1>2, <1>3, <1>4, <1>5 DEF SessionInv

\* The invariant is inductive.
LEMMA NextSession == SessionInv /\ [Next]_vars => SessionInv'
<1> SUFFICES ASSUME SessionInv, [Next]_vars
             PROVE  SessionInv'
  OBVIOUS
<1>1. TypeOK' /\ Places'
  BY TypesStep, PlacesStep DEF SessionInv
<1>2. EachInItsDatabase' /\ AcceptedIsCommitted'
  BY EachInItsDatabaseStep, AcceptedStep DEF SessionInv
<1>3. Growing' /\ Synced' /\ Kept'
  BY GrowingStep, KeptStep DEF SessionInv
<1>4. Numbered' /\ Recent' /\ Undecided'
  BY NumberedStep, RecentStep, UndecidedStep DEF SessionInv
<1>5. CacheAtomic' /\ GroupsAtomic'
  BY CacheAtomicStep, GroupsAtomicStep DEF SessionInv
<1>6. QED
  BY <1>1, <1>2, <1>3, <1>4, <1>5 DEF SessionInv

\* The invariant holds in every session.
LEMMA SpecSession == Spec => []SessionInv
  BY InitSession, NextSession, PTL DEF Spec

\* Type correctness; a database that is used has a directory.
THEOREM SessionTypes == Spec => []TypeOK
<1>1. SessionInv => TypeOK
  BY DEF SessionInv
<1>2. QED
  BY <1>1, SpecSession, PTL

\* Outside of a transaction every line that was executed is committed before the
\* next is read.
THEOREM AcceptedStaysCommitted == Spec => []AcceptedIsCommitted
<1>1. SessionInv => AcceptedIsCommitted
  BY DEF SessionInv
<1>2. QED
  BY <1>1, SpecSession, PTL

\* No statement takes effect in another database than the one that was in use.
THEOREM StatementsStayInTheirDatabase == Spec => []EachInItsDatabase
<1>1. SessionInv => EachInItsDatabase
  BY DEF SessionInv
<1>2. QED
  BY <1>1, SpecSession, PTL

\* The statements of one transaction on one opening of a database are durable
\* together or not at all, also where an unsaved database is taken for new.
THEOREM TransactionsAreAtomic == Spec => []GroupsAtomic
<1>1. SessionInv => GroupsAtomic
  BY DEF SessionInv
<1>2. QED
  BY <1>1, SpecSession, PTL

\* Opening takes nothing away from a database, if no process has ended while
\* its pages were in the log only.
LEMMA OpenKeeps ==
  ASSUME ~LOSE_NEW, SessionInv, DbOpen
  PROVE  disk' = disk /\ next \in Databases /\ cache' = disk[next]
<1>1. next \in Databases /\ active = NoDatabase
  BY DEF SessionInv, TypeOK, Places, DbOpen
<1>2. next \in filed \/ disk[next] = {}
  BY <1>1, SessionAssumption DEF SessionInv, Kept
<1>3. QED
  BY <1>1, <1>2 DEF SessionInv, TypeOK, DbOpen, Loaded

\* What is durable stays durable, under the same condition.
THEOREM NothingIsForgotten == ASSUME ~LOSE_NEW PROVE Spec => NothingForgotten
<1>1. ASSUME SessionInv, [Next]_vars
      PROVE  [\A d \in Databases : disk[d] \subseteq disk'[d]]_vars
  <2>1. CASE Quiet \/ Execute \/ CloseCheckpoint \/ Crash
    BY <2>1 DEF Quiet, Execute, CloseCheckpoint, Crash, stored
  <2>2. CASE Commit \/ CloseCommit
    BY <1>1, <2>2, CommitSteps DEF SessionInv, Growing, InUse
  <2>3. CASE DbOpen
    BY <1>1, <2>3, OpenKeeps
  <2>4. QED
    BY <1>1, <2>1, <2>2, <2>3, StepKinds
<1>2. QED
  BY <1>1, SpecSession, PTL DEF Spec, NothingForgotten

-----------------------------------------------------------------------------
(* The databases of a session are a page store. *)

Committing == pc \in {"commit", ".commit", "close"}

\* The only database with anything pending is the one in use.
LEMMA PendingDomain ==
  /\ DOMAIN Pending = {d \in Databases : d = active /\ cache # disk[d]}
  /\ \A d \in DOMAIN Pending : Pending[d] = cache
  /\ DOMAIN Pending' = {d \in Databases : d = active' /\ cache' # disk'[d]}
  BY DEF Pending

\* A session without databases maps to stores that are empty.
LEMMA InitStores == Init => Stores!PSInit
<1> SUFFICES ASSUME Init
             PROVE  Stores!PSInit
  OBVIOUS
<1>1. Pending = [p \in {} |-> disk[p]]
  BY SessionAssumption DEF Init, Pending
<1>2. disk \in [Databases -> SUBSET Statements] /\ ~Committing
  BY DEF Init, Committing
<1>3. QED
  BY <1>1, <1>2 DEF Stores!PSInit, Committing

\* A statement makes its database pending.
LEMMA ExecuteStores ==
  ASSUME SessionInv, SessionInv', Execute
  PROVE  Stores!Update
<1>1. active \in Databases /\ active' = active /\ disk' = disk
  BY DEF SessionInv, TypeOK, Execute, stored
<1>2. cache' = cache \cup {Len(group) + 1} /\ Len(group) + 1 \notin disk[active]
  BY <1>1, GroupGrows DEF SessionInv, EachInItsDatabase, Execute
<1>3. Pending' \in Stores!PartialImages
  <2>1. cache' \subseteq Statements
    BY DEF SessionInv, TypeOK
  <2>2. DOMAIN Pending' \in SUBSET Databases /\ Pending' \in [DOMAIN Pending' -> SUBSET Statements]
    BY <2>1 DEF Pending
  <2>3. QED
    BY <2>2 DEF Stores!PartialImages
<1>4. DOMAIN Pending \subseteq DOMAIN Pending'
  BY <1>1, <1>2, PendingDomain
<1>5. ~Committing /\ ~Committing'
  BY DEF Execute, Committing
<1>6. QED
  BY <1>1, <1>3, <1>4, <1>5 DEF Stores!Update, Committing

\* A commit replaces the database in use and no other.
LEMMA CommitStores ==
  ASSUME SessionInv, SessionInv', Commit \/ CloseCommit
  PROVE  Stores!Commit
<1>1. /\ active \in Databases /\ active' = active /\ disk'[active] = cache /\ cache' = cache
      /\ \A d \in Databases : d # active => disk'[d] = disk[d]
  BY CommitSteps DEF SessionInv
<1>2. /\ DOMAIN Pending = {d \in Databases : d = active /\ cache # disk[d]}
      /\ \A d \in DOMAIN Pending : Pending[d] = cache
  BY PendingDomain
<1>3. disk' = [d \in Databases |-> IF d \in DOMAIN Pending THEN Pending[d] ELSE disk[d]]
  BY <1>1, <1>2 DEF SessionInv, TypeOK
<1>4. Pending' = Stores!NothingPending
  <2>1. DOMAIN Pending' = {}
    BY <1>1, PendingDomain
  <2>2. QED
    BY <2>1 DEF Pending, Stores!NothingPending
<1>5. Committing /\ ~Committing'
  BY DEF Commit, CloseCommit, Committing
<1>6. QED
  BY <1>3, <1>4, <1>5 DEF Stores!Commit, Committing

\* Closing and the end of a process find nothing pending or forget it.
LEMMA EndStores ==
  ASSUME SessionInv, SessionInv', CloseCheckpoint \/ Crash
  PROVE  Stores!Forget
<1>1. disk' = disk /\ active' = NoDatabase
  BY DEF CloseCheckpoint, Crash, stored
<1>2. DOMAIN Pending' = {}
  BY <1>1, PendingDomain, SessionAssumption
<1>3. Pending' = Stores!NothingPending
  BY <1>2 DEF Pending, Stores!NothingPending
<1>4. ~Committing'
  BY DEF CloseCheckpoint, Crash, Committing
<1>5. QED
  BY <1>1, <1>3, <1>4 DEF Stores!Forget, Committing

\* db_open changes nothing that is durable, if the file is not empty.
LEMMA OpenStores ==
  ASSUME ~LOSE_NEW, SessionInv, SessionInv', DbOpen
  PROVE  UNCHANGED Stores!psVars
<1>1. disk' = disk /\ next \in Databases /\ cache' = disk[next] /\ active' = next
  BY OpenKeeps DEF DbOpen
<1>2. DOMAIN Pending = {} /\ DOMAIN Pending' = {}
  BY <1>1, PendingDomain, SessionAssumption DEF SessionInv, Places, DbOpen
<1>3. Pending' = Pending
  BY <1>2 DEF Pending
<1>4. ~Committing /\ ~Committing'
  BY DEF DbOpen, Committing
<1>5. QED
  BY <1>1, <1>3, <1>4 DEF Stores!psVars, Committing

\* A step that is quiet begins a commit or shows nothing.
LEMMA QuietStores ==
  ASSUME SessionInv, [Next]_vars, Quiet,
         ~(Execute \/ Commit \/ CloseCommit \/ CloseCheckpoint \/ DbOpen \/ Crash)
  PROVE  [Stores!PSNext]_(Stores!psVars)
<1>1. disk' = disk /\ Pending' = Pending
  BY DEF Quiet, Pending
<1>2. Committing => Committing'
  BY DEF Committing, Next, CreateDatabase, UseDatabase, Executed, Begin, CommitCommand,
         Exit, Start, vars
<1>3. QED
  BY <1>1, <1>2 DEF Committing, Stores!PSNext, Stores!BeginCommit, Stores!psVars

\* The databases of a session change only by whole commits of the one in use,
\* and the end of a process forgets no more than what is pending.
THEOREM SessionImplementsStores ==
  ASSUME ~LOSE_NEW
  PROVE  Spec => ImplementsStores
<1>1. ASSUME SessionInv, SessionInv', [Next]_vars
      PROVE  [Stores!PSNext]_(Stores!psVars)
  BY <1>1, StepKinds, ExecuteStores, CommitStores, EndStores, OpenStores, QuietStores
     DEF Stores!PSNext
<1>2. QED
  BY <1>1, InitStores, SpecSession, PTL DEF Spec, ImplementsStores, Stores!PSSpec
=============================================================================
