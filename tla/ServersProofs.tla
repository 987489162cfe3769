---------------------------- MODULE ServersProofs ----------------------------
(***************************************************************************)
(* Theorems about Servers for any number of servers, migrations, requests  *)
(* and connections, with their proofs.                                     *)
(***************************************************************************)
EXTENDS ServersRefinement, TLAPS

(* What holds of the migrations at every point of every start: a server    *)
(* has passed only what is recorded, one of them at most is inside a       *)
(* version, and who is about to commit it commits it first.                *)
AtIsNear ==
    \A s \in Servers :
        /\ phase[s] \in {"off", "ping", "look", "create"} => at[s] = 1
        /\ phase[s] \in {"check", "exec", "record", "commit"} =>
              at[s] <= Last /\ 1..(at[s] - 1) \subseteq recorded

OneInside ==
    \A s, t \in Servers :
        s # t /\ phase[s] \in {"record", "commit"} /\ phase[t] \in {"record", "commit"}
            => at[s] # at[t]

CommitIsFirst == \A s \in Servers : phase[s] = "commit" => at[s] \notin recorded

CountIsRecorded == \A v \in Versions : commits[v] = IF v \in recorded THEN 1 ELSE 0

MigrationInv ==
    /\ TypeOK
    /\ AtIsNear
    /\ OneInside
    /\ CommitIsFirst
    /\ CountIsRecorded
    /\ MigrationsInOrder
    /\ ServingIsMigrated

(* What holds of the requests: who runs has a living server, and who still *)
(* runs when the store is closed was not waited for long enough.           *)
RunningIsAtHome ==
    \A r \in Requests : Running(r) => phase[home[r]] \in {"serve", "drain", "close"}

CloseIsHasty ==
    \A r \in Requests : Running(r) /\ phase[home[r]] = "close" => home[r] \in hasty

RequestInv ==
    /\ TypeOK
    /\ RunningIsAtHome
    /\ CloseIsHasty
    /\ StopsAreGraceful

-----------------------------------------------------------------------------
(* Types of the moves that the actions are made of.                        *)
LEMMA GotoType ==
    ASSUME TypeOK, NEW s \in Servers, NEW p \in Phases, Goto(s, p)
    PROVE  phase' \in [Servers -> Phases]
    BY DEF TypeOK, Goto

LEMMA LeaveType ==
    ASSUME TypeOK, NEW s \in Servers, Leave(s)
    PROVE  /\ phase' \in [Servers -> Phases]
           /\ at' \in [Servers -> 1..(Last + 1)]
           /\ tries' \in [Servers -> Nat]
           /\ \A t \in Servers : tries'[t] = 0 \/ tries'[t] < Attempts
    BY ServersAssumption DEF TypeOK, Leave, Goto, Phases, Starting

LEMMA OnwardType ==
    ASSUME TypeOK, NEW s \in Servers, at[s] <= Last, Onward(s)
    PROVE  /\ phase' \in [Servers -> Phases]
           /\ at' \in [Servers -> 1..(Last + 1)]
    BY ServersAssumption DEF TypeOK, Onward, Goto, Phases, Starting

LEMMA CommittedType ==
    ASSUME TypeOK, NEW s \in Servers, at[s] \in Versions, Committed(s)
    PROVE  recorded' \subseteq Versions /\ commits' \in [Versions -> Nat]
<1>1. recorded' \subseteq Versions
    BY DEF TypeOK, Committed
<1>2. commits[at[s]] + 1 \in Nat
    BY DEF TypeOK
<1> QED
    BY <1>1, <1>2 DEF TypeOK, Committed

LEMMA CutType ==
    ASSUME TypeOK, NEW s \in Servers, Cut(s), UNCHANGED <<home, calls>>
    PROVE  /\ request' \in [Requests -> {"none", "local", "query", "answered", "refused", "cut"}]
           /\ \A r \in Requests : request'[r] # "none" => home'[r] \in Servers
           /\ \A r \in Requests : request'[r] = "query" => calls'[r] > 0
    BY DEF TypeOK, Cut, On, Running

LEMMA StillTyped ==
    ASSUME TypeOK,
           reachable' \in BOOLEAN, bookkeeping' \in BOOLEAN,
           recorded' \subseteq Versions, commits' \in [Versions -> Nat],
           phase' \in [Servers -> Phases],
           at' \in [Servers -> 1..(Last + 1)],
           tries' \in [Servers -> Nat],
           \A t \in Servers : tries'[t] = 0 \/ tries'[t] < Attempts,
           signalled' \subseteq Servers,
           request' \in [Requests -> {"none", "local", "query", "answered", "refused", "cut"}],
           home' \in [Requests -> Servers \cup {None}],
           \A r \in Requests : request'[r] # "none" => home'[r] \in Servers,
           calls' \in [Requests -> Nat],
           \A r \in Requests : request'[r] = "query" => calls'[r] > 0,
           failures' \in Nat,
           hasty' \subseteq Servers
    PROVE  TypeOK'
    BY DEF TypeOK

(* A server in the loop is at a version.                                   *)
LEMMA InLoop ==
    ASSUME MigrationInv, NEW s \in Servers,
           phase[s] \in {"check", "exec", "record", "commit"}
    PROVE  at[s] <= Last /\ at[s] \in Versions
    BY ServersAssumption DEF MigrationInv, TypeOK, AtIsNear, Versions

USE DEF databaseVars, requestVars, historyVars

(* A start changes its own place in it and, when it commits, the database. *)
LEMMA StartupType ==
    ASSUME MigrationInv, NEW s \in Servers, Startup(s) \/ StartFails(s)
    PROVE  TypeOK'
<1> USE DEF MigrationInv
<1>1. CASE Ping(s)
  <2>1. CASE reachable /\ UNCHANGED at
    BY <1>1, <2>1, GotoType DEF Ping, Step, Goto, Leave, TypeOK, Phases, Starting
  <2>2. CASE Leave(s)
    <3>1. UNCHANGED <<databaseVars, signalled, requestVars, failures, historyVars>>
        BY <1>1 DEF Ping
    <3> QED
        BY <2>2, <3>1, LeaveType, StillTyped DEF TypeOK
  <2>3. CASE tries[s] + 1 < Attempts /\ tries' = [tries EXCEPT ![s] = @ + 1] /\ UNCHANGED <<phase, at>>
    BY <1>1, <2>3, ServersAssumption DEF Ping, TypeOK
  <2> QED
    BY <1>1, <2>1, <2>2, <2>3 DEF Ping
<1>2. CASE LookForTable(s)
    BY <1>2 DEF LookForTable, Goto, TypeOK, Phases, Starting
<1>3. CASE CreateTable(s)
  <2>1. CASE Leave(s)
    <3>1. bookkeeping' = TRUE
          /\ UNCHANGED <<reachable, recorded, signalled, requestVars, failures, historyVars>>
        BY <1>3 DEF CreateTable
    <3> QED
        BY <2>1, <3>1, LeaveType, StillTyped DEF TypeOK
  <2>2. CASE Goto(s, "check") /\ UNCHANGED <<at, tries>>
    BY <1>3, <2>2 DEF CreateTable, Goto, TypeOK, Phases, Starting
  <2> QED
    BY <1>3, <2>1, <2>2 DEF CreateTable
<1>4. CASE CheckMigration(s)
  <2>1. at[s] <= Last
    BY <1>4, InLoop DEF CheckMigration, Step
  <2>2. UNCHANGED <<databaseVars, tries, signalled, requestVars, failures, historyVars>>
    BY <1>4 DEF CheckMigration
  <2>3. CASE Onward(s)
    BY <2>1, <2>2, <2>3, OnwardType, StillTyped DEF TypeOK
  <2>4. CASE Goto(s, "exec") /\ UNCHANGED at
    BY <2>2, <2>4 DEF Goto, TypeOK, Phases, Starting
  <2> QED
    BY <1>4, <2>3, <2>4 DEF CheckMigration
<1>5. CASE ExecMigration(s)
    BY <1>5 DEF ExecMigration, Goto, TypeOK, Phases, Starting
<1>6. CASE RecordMigration(s)
  <2>1. CASE Leave(s)
    <3>1. UNCHANGED <<databaseVars, signalled, requestVars, failures, historyVars>>
        BY <1>6 DEF RecordMigration
    <3> QED
        BY <2>1, <3>1, LeaveType, StillTyped DEF TypeOK
  <2>2. CASE Goto(s, "commit") /\ UNCHANGED <<at, tries>>
    BY <1>6, <2>2 DEF RecordMigration, Goto, TypeOK, Phases, Starting
  <2> QED
    BY <1>6, <2>1, <2>2 DEF RecordMigration
<1>7. CASE CommitMigration(s)
  <2>1. at[s] <= Last /\ at[s] \in Versions
    BY <1>7, InLoop DEF CommitMigration, Step
  <2>2. /\ Committed(s) /\ Onward(s)
        /\ UNCHANGED <<reachable, bookkeeping, tries, signalled, requestVars, failures, hasty>>
    BY <1>7 DEF CommitMigration
  <2> QED
    BY <2>1, <2>2, OnwardType, CommittedType, StillTyped DEF TypeOK
<1>8. CASE Listen(s)
    BY <1>8 DEF Listen, Goto, TypeOK, Phases, Starting
<1>9. CASE StartCancelled(s) \/ StartFails(s)
  <2>1. GiveUp(s) /\ failures' \in Nat
    BY <1>9 DEF StartCancelled, StartFails, TypeOK
  <2>2. recorded' \subseteq Versions /\ commits' \in [Versions -> Nat]
    BY <2>1, InLoop, CommittedType DEF GiveUp, TypeOK
  <2>3. Leave(s) /\ UNCHANGED <<reachable, bookkeeping, signalled, requestVars, hasty>>
    BY <2>1 DEF GiveUp
  <2> QED
    BY <2>1, <2>2, <2>3, LeaveType, StillTyped DEF TypeOK
<1> QED
    BY <1>1, <1>2, <1>3, <1>4, <1>5, <1>6, <1>7, <1>8, <1>9 DEF Startup

Life(s) == Start(s) \/ Signal(s) \/ Stopping(s) \/ Crash(s)

RequestStep == \E r \in Requests : Acquire(r) \/ Handling(r) \/ \E s \in Servers : Accept(s, r)

LEMMA LifeType ==
    ASSUME TypeOK, NEW s \in Servers, Life(s)
    PROVE  TypeOK'
<1>1. CASE Start(s)
    BY <1>1 DEF Start, Goto, TypeOK, Phases, Starting
<1>2. CASE Signal(s)
    BY <1>2 DEF Signal, TypeOK
<1>3. CASE Shutdown(s) \/ Drained(s) \/ OutOfTime(s)
    BY <1>3 DEF Shutdown, Drained, OutOfTime, Goto, TypeOK, Phases, Starting
<1>4. CASE Exit(s)
  <2>1. /\ Leave(s) /\ Cut(s)
        /\ UNCHANGED <<databaseVars, signalled, home, calls, failures, historyVars>>
    BY <1>4 DEF Exit
  <2> QED
    BY <2>1, LeaveType, CutType, StillTyped DEF TypeOK
<1>5. CASE Crash(s)
  <2>1. /\ Leave(s) /\ Cut(s) /\ hasty' = hasty \cup {s} /\ failures' = failures + 1
        /\ UNCHANGED <<databaseVars, signalled, home, calls, commits>>
    BY <1>5 DEF Crash
  <2>2. failures' \in Nat /\ hasty' \subseteq Servers
    BY <2>1 DEF TypeOK
  <2> QED
    BY <2>1, <2>2, LeaveType, CutType, StillTyped DEF TypeOK
<1> QED
    BY <1>1, <1>2, <1>3, <1>4, <1>5 DEF Life, Stopping

LEMMA RequestType ==
    ASSUME TypeOK, RequestStep
    PROVE  TypeOK'
<1>1. PICK r \in Requests : Acquire(r) \/ Handling(r) \/ \E s \in Servers : Accept(s, r)
    BY DEF RequestStep
<1>2. CASE Acquire(r) \/ AnswerPoolClosed(r) \/ Answer(r)
    BY <1>2 DEF Acquire, Answer, AnswerPoolClosed, TypeOK
<1>3. CASE Release(r)
  <2>1. calls[r] - 1 \in Nat
    BY <1>3 DEF Release, TypeOK
  <2> QED
    BY <1>3, <2>1 DEF Release, TypeOK
<1>4. CASE \E s \in Servers : Accept(s, r)
    BY <1>4 DEF Accept, TypeOK
<1> QED
    BY <1>1, <1>2, <1>3, <1>4 DEF Handling

LEMMA DatabaseUpType ==
    ASSUME TypeOK, DatabaseUp
    PROVE  TypeOK'
    BY DEF DatabaseUp, TypeOK

-----------------------------------------------------------------------------
(* The migrations.                                                         *)

(* A move that changes no row keeps the invariant when the place it goes   *)
(* to allows it.                                                           *)
LEMMA GotoKeeps ==
    ASSUME MigrationInv, TypeOK', NEW s \in Servers, NEW p \in Phases, Goto(s, p),
           UNCHANGED <<at, recorded, commits>>,
           p \in {"off", "ping", "look", "create"} => at[s] = 1,
           p \in {"check", "exec", "record", "commit"} =>
              at[s] <= Last /\ 1..(at[s] - 1) \subseteq recorded,
           p \in {"record", "commit"} => \A t \in Servers \ {s} :
              phase[t] \in {"record", "commit"} => at[t] # at[s],
           p = "commit" => at[s] \notin recorded,
           p \in {"listen", "serve", "drain"} /\ s \in Migrating => recorded = Versions
    PROVE  MigrationInv'
<1>0. /\ phase'[s] = p
      /\ \A t \in Servers \ {s} : phase'[t] = phase[t]
    BY DEF Goto, MigrationInv, TypeOK
<1>1. AtIsNear'
    BY <1>0 DEF AtIsNear, MigrationInv
<1>2. OneInside'
    BY <1>0 DEF OneInside, MigrationInv
<1>3. CommitIsFirst'
    BY <1>0 DEF CommitIsFirst, MigrationInv
<1>4. CountIsRecorded' /\ MigrationsInOrder'
    BY DEF CountIsRecorded, MigrationsInOrder, MigrationInv
<1>5. ServingIsMigrated'
    BY <1>0, ServersAssumption DEF ServingIsMigrated, MigrationInv
<1> QED
    BY <1>1, <1>2, <1>3, <1>4, <1>5 DEF MigrationInv

(* Rows only come, one at most, and it is the next for who commits it.     *)
LEMMA CommitKeeps ==
    ASSUME MigrationInv, NEW s \in Servers, phase[s] = "commit", Committed(s)
    PROVE  /\ CountIsRecorded' /\ MigrationsInOrder'
           /\ recorded \subseteq recorded'
           /\ \A t \in Servers \ {s} : phase[t] = "commit" => at[t] \notin recorded'
           /\ recorded' \subseteq Versions
<1>1. at[s] \in Versions /\ at[s] \notin recorded /\ 1..(at[s] - 1) \subseteq recorded
    BY InLoop DEF MigrationInv, AtIsNear, CommitIsFirst
<1>2. recorded' = recorded \cup {at[s]} /\ commits' = [commits EXCEPT ![at[s]] = @ + 1]
    BY DEF Committed
<1>3. CountIsRecorded'
  <2>1. commits[at[s]] = 0 /\ commits \in [Versions -> Nat]
    BY <1>1 DEF MigrationInv, CountIsRecorded, TypeOK
  <2>2. commits'[at[s]] = 1 /\ \A v \in Versions \ {at[s]} : commits'[v] = commits[v]
    BY <1>1, <1>2, <2>1
  <2> QED
    BY <1>1, <1>2, <2>2 DEF CountIsRecorded, MigrationInv
<1>4. MigrationsInOrder'
  <2> SUFFICES ASSUME NEW v \in recorded', NEW u \in 1..v
               PROVE  u \in recorded'
    BY DEF MigrationsInOrder
  <2>1. CASE v \in recorded
    BY <1>2, <2>1 DEF MigrationsInOrder, MigrationInv
  <2>2. CASE v = at[s]
    BY <1>1, <1>2, <2>2 DEF Versions
  <2> QED
    BY <1>2, <2>1, <2>2
<1>5. \A t \in Servers \ {s} : phase[t] = "commit" => at[t] \notin recorded'
    BY <1>2 DEF MigrationInv, OneInside, CommitIsFirst
<1> QED
    BY <1>1, <1>2, <1>3, <1>4, <1>5 DEF MigrationInv, TypeOK

(* Going on past a recorded version.                                       *)
LEMMA OnwardKeeps ==
    ASSUME MigrationInv, TypeOK', NEW s \in Servers, Onward(s),
           phase[s] \in {"check", "commit"},
           recorded' = recorded \cup {at[s]}, recorded' \subseteq Versions,
           CountIsRecorded', MigrationsInOrder',
           \A t \in Servers \ {s} : phase[t] = "commit" => at[t] \notin recorded'
    PROVE  MigrationInv'
<1>0. /\ at[s] <= Last /\ at[s] \in Versions /\ at'[s] = at[s] + 1
      /\ phase'[s] = IF at[s] = Last THEN "listen" ELSE "check"
      /\ \A t \in Servers \ {s} : phase'[t] = phase[t] /\ at'[t] = at[t]
    BY InLoop DEF Onward, Goto, MigrationInv, TypeOK
<1>a. 1..at[s] \subseteq recorded'
    BY <1>0, ServersAssumption DEF MigrationsInOrder, Versions
<1>1. AtIsNear'
  <2>1. phase'[s] = "check" => at'[s] <= Last /\ 1..(at'[s] - 1) \subseteq recorded'
    BY <1>0, <1>a, ServersAssumption DEF Versions
  <2> QED
    BY <1>0, <2>1 DEF AtIsNear, MigrationInv
<1>2. OneInside'
    BY <1>0 DEF OneInside, MigrationInv
<1>3. CommitIsFirst'
    BY <1>0 DEF CommitIsFirst
<1>5. ServingIsMigrated'
    BY <1>0, <1>a, ServersAssumption DEF ServingIsMigrated, MigrationInv, Versions
<1> QED
    BY <1>1, <1>2, <1>3, <1>5 DEF MigrationInv

(* The end of a process, with or without a last commit.                    *)
LEMMA LeaveKeeps ==
    ASSUME MigrationInv, TypeOK', NEW s \in Servers, Leave(s),
           recorded \subseteq recorded', recorded' \subseteq Versions,
           CountIsRecorded', MigrationsInOrder',
           \A t \in Servers \ {s} : phase[t] = "commit" => at[t] \notin recorded'
    PROVE  MigrationInv'
<1>0. /\ phase'[s] = "off" /\ at'[s] = 1
      /\ \A t \in Servers \ {s} : phase'[t] = phase[t] /\ at'[t] = at[t]
    BY ServersAssumption DEF Leave, Goto, MigrationInv, TypeOK
<1>1. AtIsNear'
    BY <1>0 DEF AtIsNear, MigrationInv
<1>2. OneInside'
    BY <1>0 DEF OneInside, MigrationInv
<1>3. CommitIsFirst'
    BY <1>0 DEF CommitIsFirst
<1>5. ServingIsMigrated'
    BY <1>0, ServersAssumption DEF ServingIsMigrated, MigrationInv
<1> QED
    BY <1>1, <1>2, <1>3, <1>5 DEF MigrationInv

LEMMA LeaveAlone ==
    ASSUME MigrationInv, TypeOK', NEW s \in Servers, Leave(s), UNCHANGED <<recorded, commits>>
    PROVE  MigrationInv'
<1>1. CountIsRecorded' /\ MigrationsInOrder' /\ recorded' = recorded
    BY DEF CountIsRecorded, MigrationsInOrder, MigrationInv
<1> QED
    BY <1>1, LeaveKeeps DEF MigrationInv, TypeOK, CommitIsFirst

LEMMA StandingStill ==
    ASSUME MigrationInv, TypeOK', UNCHANGED <<phase, at, recorded, commits>>
    PROVE  MigrationInv'
    BY DEF MigrationInv, AtIsNear, OneInside, CommitIsFirst, CountIsRecorded, MigrationsInOrder,
           ServingIsMigrated

LEMMA StartupKeeps ==
    ASSUME MigrationInv, NEW s \in Servers, Startup(s) \/ StartFails(s)
    PROVE  MigrationInv'
<1>0. TypeOK'
    BY StartupType
<1>1. CASE Ping(s)
  <2>1. UNCHANGED <<recorded, commits>>
    BY <1>1 DEF Ping
  <2>2. CASE reachable /\ Goto(s, IF s \in Migrating THEN "look" ELSE "listen") /\ UNCHANGED at
    <3>1. at[s] = 1
        BY <1>1 DEF Ping, Step, MigrationInv, AtIsNear
    <3>2. CASE s \in Migrating
        BY <1>0, <2>1, <2>2, <3>1, <3>2, GotoKeeps DEF Phases, Starting
    <3>3. CASE s \notin Migrating
        BY <1>0, <2>1, <2>2, <3>1, <3>3, GotoKeeps DEF Phases, Starting
    <3> QED
        BY <3>2, <3>3
  <2>3. CASE Leave(s)
    BY <1>0, <2>1, <2>3, LeaveAlone
  <2>4. CASE UNCHANGED <<phase, at>>
    BY <1>0, <2>1, <2>4, StandingStill
  <2> QED
    BY <1>1, <2>2, <2>3, <2>4 DEF Ping
<1>2. CASE LookForTable(s)
  <2>1. at[s] = 1 /\ 1 <= Last /\ 1..(at[s] - 1) \subseteq recorded
    BY <1>2, ServersAssumption DEF LookForTable, Step, MigrationInv, AtIsNear
  <2>2. UNCHANGED <<at, recorded, commits>>
    BY <1>2 DEF LookForTable
  <2>3. CASE Goto(s, "check")
    BY <1>0, <2>1, <2>2, <2>3, GotoKeeps DEF Phases, Starting
  <2>4. CASE Goto(s, "create")
    BY <1>0, <2>1, <2>2, <2>4, GotoKeeps DEF Phases, Starting
  <2> QED
    BY <1>2, <2>3, <2>4 DEF LookForTable
<1>3. CASE CreateTable(s)
  <2>1. at[s] = 1 /\ 1 <= Last /\ 1..(at[s] - 1) \subseteq recorded
    BY <1>3, ServersAssumption DEF CreateTable, Step, MigrationInv, AtIsNear
  <2>2. UNCHANGED <<recorded, commits>>
    BY <1>3 DEF CreateTable
  <2>3. CASE Goto(s, "check") /\ UNCHANGED at
    BY <1>0, <2>1, <2>2, <2>3, GotoKeeps DEF Phases, Starting
  <2>4. CASE Leave(s)
    BY <1>0, <2>2, <2>4, LeaveAlone
  <2> QED
    BY <1>3, <2>3, <2>4 DEF CreateTable
<1>4. CASE CheckMigration(s)
  <2>1. phase[s] = "check" /\ UNCHANGED <<recorded, commits>>
    BY <1>4 DEF CheckMigration, Step
  <2>2. CASE at[s] \in recorded /\ Onward(s)
    <3>1. CountIsRecorded' /\ MigrationsInOrder'
        BY <2>1 DEF CountIsRecorded, MigrationsInOrder, MigrationInv
    <3>2. /\ recorded' = recorded \cup {at[s]} /\ recorded' \subseteq Versions
          /\ \A t \in Servers \ {s} : phase[t] = "commit" => at[t] \notin recorded'
        BY <2>1, <2>2 DEF MigrationInv, TypeOK, CommitIsFirst
    <3> QED
        BY <1>0, <2>1, <2>2, <3>1, <3>2, OnwardKeeps
  <2>3. CASE Goto(s, "exec") /\ UNCHANGED at
    <3>1. at[s] <= Last /\ 1..(at[s] - 1) \subseteq recorded
        BY <2>1 DEF MigrationInv, AtIsNear
    <3> QED
        BY <1>0, <2>1, <2>3, <3>1, GotoKeeps DEF Phases, Starting
  <2> QED
    BY <1>4, <2>2, <2>3 DEF CheckMigration
<1>5. CASE ExecMigration(s)
  <2>1. /\ phase[s] = "exec" /\ Goto(s, "record") /\ UNCHANGED <<at, recorded, commits>>
        /\ ~Busy(s)
    BY <1>5 DEF ExecMigration, Step
  <2>2. at[s] <= Last /\ 1..(at[s] - 1) \subseteq recorded
    BY <2>1 DEF MigrationInv, AtIsNear
  <2>3. \A t \in Servers \ {s} : phase[t] \in {"record", "commit"} => at[t] # at[s]
    BY <2>1 DEF Busy
  <2> QED
    BY <1>0, <2>1, <2>2, <2>3, GotoKeeps DEF Phases, Starting
<1>6. CASE RecordMigration(s)
  <2>1. phase[s] = "record" /\ UNCHANGED <<recorded, commits>>
    BY <1>6 DEF RecordMigration, Step
  <2>2. CASE Leave(s)
    BY <1>0, <2>1, <2>2, LeaveAlone
  <2>3. CASE at[s] \notin recorded /\ Goto(s, "commit") /\ UNCHANGED at
    <3>1. at[s] <= Last /\ 1..(at[s] - 1) \subseteq recorded
        BY <2>1 DEF MigrationInv, AtIsNear
    <3>2. \A t \in Servers \ {s} : phase[t] \in {"record", "commit"} => at[t] # at[s]
        BY <2>1 DEF MigrationInv, OneInside
    <3> QED
        BY <1>0, <2>1, <2>3, <3>1, <3>2, GotoKeeps DEF Phases, Starting
  <2> QED
    BY <1>6, <2>2, <2>3 DEF RecordMigration
<1>7. CASE CommitMigration(s)
  <2>1. phase[s] = "commit" /\ Committed(s) /\ Onward(s)
    BY <1>7 DEF CommitMigration, Step
  <2>2. recorded' = recorded \cup {at[s]}
    BY <2>1 DEF Committed
  <2> QED
    BY <1>0, <2>1, <2>2, CommitKeeps, OnwardKeeps
<1>8. CASE Listen(s)
  <2>1. phase[s] = "listen" /\ Goto(s, "serve") /\ UNCHANGED <<at, recorded, commits>>
    BY <1>8 DEF Listen
  <2> QED
    BY <1>0, <2>1, GotoKeeps DEF Phases, MigrationInv, ServingIsMigrated
<1>9. CASE StartCancelled(s) \/ StartFails(s)
  <2>1. GiveUp(s)
    BY <1>9 DEF StartCancelled, StartFails
  <2>2. CASE UNCHANGED <<recorded, commits>>
    BY <1>0, <2>1, <2>2, LeaveAlone DEF GiveUp
  <2>3. CASE phase[s] = "commit" /\ Committed(s)
    BY <1>0, <2>1, <2>3, CommitKeeps, LeaveKeeps DEF GiveUp
  <2> QED
    BY <2>1, <2>2, <2>3 DEF GiveUp
<1> QED
    BY <1>1, <1>2, <1>3, <1>4, <1>5, <1>6, <1>7, <1>8, <1>9 DEF Startup

LEMMA LifeKeeps ==
    ASSUME MigrationInv, NEW s \in Servers, Life(s)
    PROVE  MigrationInv'
<1>0. TypeOK'
    BY LifeType DEF MigrationInv
<1>1. UNCHANGED <<recorded, commits>>
    BY DEF Life, Start, Signal, Stopping, Shutdown, Drained, OutOfTime, Exit, Crash
<1>2. CASE Start(s)
  <2>1. Goto(s, "ping") /\ UNCHANGED at /\ at[s] = 1
    BY <1>2 DEF Start, MigrationInv, AtIsNear
  <2> QED
    BY <1>0, <1>1, <2>1, GotoKeeps DEF Phases, Starting
<1>3. CASE Signal(s)
    BY <1>0, <1>1, <1>3, StandingStill DEF Signal
<1>4. CASE Shutdown(s)
  <2>1. phase[s] = "serve" /\ Goto(s, "drain") /\ UNCHANGED at
    BY <1>4 DEF Shutdown
  <2> QED
    BY <1>0, <1>1, <2>1, GotoKeeps DEF Phases, MigrationInv, ServingIsMigrated
<1>5. CASE Drained(s) \/ OutOfTime(s)
  <2>1. Goto(s, "close") /\ UNCHANGED at
    BY <1>5 DEF Drained, OutOfTime
  <2> QED
    BY <1>0, <1>1, <2>1, GotoKeeps DEF Phases
<1>6. CASE Exit(s) \/ Crash(s)
    BY <1>0, <1>1, <1>6, LeaveAlone DEF Exit, Crash
<1> QED
    BY <1>2, <1>3, <1>4, <1>5, <1>6 DEF Life, Stopping

LEMMA NextCases ==
    ASSUME Next
    PROVE  \/ \E s \in Servers : Startup(s) \/ StartFails(s)
           \/ \E s \in Servers : Life(s)
           \/ RequestStep
           \/ DatabaseUp
    BY DEF Next, Life, RequestStep

LEMMA MigrationInit == Init => MigrationInv
<1> SUFFICES ASSUME Init PROVE MigrationInv
    OBVIOUS
<1>1. TypeOK
  <2>1. at \in [Servers -> 1..(Last + 1)] /\ tries \in [Servers -> Nat]
        /\ \A s \in Servers : tries[s] = 0
    BY ServersAssumption DEF Init
  <2>2. phase \in [Servers -> Phases] /\ commits \in [Versions -> Nat]
    BY DEF Init, Phases
  <2>3. /\ request \in [Requests -> {"none", "local", "query", "answered", "refused", "cut"}]
        /\ home \in [Requests -> Servers \cup {None}] /\ calls \in [Requests -> Nat]
        /\ \A r \in Requests : request[r] = "none"
    BY ServersAssumption DEF Init
  <2> QED
    BY <2>1, <2>2, <2>3 DEF Init, TypeOK
<1>2. AtIsNear /\ OneInside /\ CommitIsFirst
    BY ServersAssumption DEF Init, AtIsNear, OneInside, CommitIsFirst
<1>3. CountIsRecorded /\ MigrationsInOrder /\ ServingIsMigrated
    BY ServersAssumption DEF Init, CountIsRecorded, MigrationsInOrder, ServingIsMigrated
<1> QED
    BY <1>1, <1>2, <1>3 DEF MigrationInv

(* The invariant of the migrations: every step of every server keeps it.   *)
THEOREM MigrationsAreSound == Spec => []MigrationInv
<1>1. MigrationInv /\ [Next]_vars => MigrationInv'
  <2> SUFFICES ASSUME MigrationInv, [Next]_vars PROVE MigrationInv'
    OBVIOUS
  <2>1. CASE \E s \in Servers : Startup(s) \/ StartFails(s)
    BY <2>1, StartupKeeps
  <2>2. CASE \E s \in Servers : Life(s)
    BY <2>2, LifeKeeps
  <2>3. CASE RequestStep
    <3>1. UNCHANGED <<phase, at, recorded, commits>>
        BY <2>3 DEF RequestStep, Handling, Acquire, Release, Answer, AnswerPoolClosed, Accept
    <3> QED
        BY <2>3, <3>1, RequestType, StandingStill DEF MigrationInv
  <2>4. CASE DatabaseUp
    <3>1. UNCHANGED <<phase, at, recorded, commits>>
        BY <2>4 DEF DatabaseUp
    <3> QED
        BY <2>4, <3>1, DatabaseUpType, StandingStill DEF MigrationInv
  <2>5. CASE UNCHANGED vars
    <3>1. TypeOK' /\ UNCHANGED <<phase, at, recorded, commits>>
        BY <2>5 DEF vars, MigrationInv, TypeOK
    <3> QED
        BY <3>1, StandingStill
  <2> QED
    BY <2>1, <2>2, <2>3, <2>4, <2>5, NextCases
<1> QED
    BY MigrationInit, <1>1, PTL DEF Spec

(* The variables hold what the code puts there, and no start pings the     *)
(* database more often than it is told to.                                 *)
THEOREM ServersTypeCorrect == Spec => []TypeOK
<1>1. MigrationInv => TypeOK
    BY DEF MigrationInv
<1> QED
    BY <1>1, MigrationsAreSound, PTL

(* However many servers start at once, race and die, versions are recorded *)
(* in their order and each migration commits once.                         *)
THEOREM MigrationsStayExact == Spec => []MigrationsAreExact
<1>1. MigrationInv => MigrationsAreExact
    BY DEF MigrationInv, CountIsRecorded, MigratedOnce, MigrationsAreExact
<1> QED
    BY <1>1, MigrationsAreSound, PTL

(* Who migrates on start serves a migrated database.                       *)
THEOREM ServersServeMigrated == Spec => []ServingIsMigrated
<1>1. MigrationInv => ServingIsMigrated
    BY DEF MigrationInv
<1> QED
    BY <1>1, MigrationsAreSound, PTL

-----------------------------------------------------------------------------
(* The requests.                                                           *)

(* A move of a server that is not at its end touches none of its requests. *)
LEMMA MovesKeep ==
    ASSUME RequestInv, TypeOK', NEW s \in Servers, NEW p \in Phases, Goto(s, p),
           UNCHANGED <<request, home, hasty>>,
           phase[s] \in {"serve", "drain", "close"} => p \in {"serve", "drain"},
           p # "close"
    PROVE  RequestInv'
<1>0. phase'[s] = p /\ \A t \in Servers \ {s} : phase'[t] = phase[t]
    BY DEF Goto, RequestInv, TypeOK
<1>1. RunningIsAtHome' /\ CloseIsHasty'
    BY <1>0 DEF RunningIsAtHome, CloseIsHasty, RequestInv, TypeOK, Running
<1> QED
    BY <1>1 DEF RequestInv, StopsAreGraceful

LEMMA CutKeeps ==
    ASSUME RequestInv, TypeOK', NEW s \in Servers, Goto(s, "off"), Cut(s), UNCHANGED home,
           hasty \subseteq hasty', phase[s] = "close" \/ s \in hasty'
    PROVE  RequestInv'
<1>0. /\ phase'[s] = "off" /\ \A t \in Servers \ {s} : phase'[t] = phase[t]
      /\ \A r \in Requests :
           request'[r] = IF home[r] = s /\ Running(r) THEN "cut" ELSE request[r]
    BY DEF Goto, Cut, On, RequestInv, TypeOK
<1>1. RunningIsAtHome' /\ CloseIsHasty'
    BY <1>0 DEF RunningIsAtHome, CloseIsHasty, RequestInv, TypeOK, Running
<1>2. StopsAreGraceful'
    BY <1>0 DEF StopsAreGraceful, CloseIsHasty, RequestInv, TypeOK
<1> QED
    BY <1>1, <1>2 DEF RequestInv

LEMMA StayingPut ==
    ASSUME RequestInv, TypeOK', UNCHANGED <<phase, request, home, hasty>>
    PROVE  RequestInv'
    BY DEF RequestInv, RunningIsAtHome, CloseIsHasty, StopsAreGraceful, Running

LEMMA StartupMoves ==
    ASSUME NEW s \in Servers, Startup(s) \/ StartFails(s)
    PROVE  /\ phase[s] \in Starting /\ UNCHANGED <<request, home, hasty>>
           /\ UNCHANGED phase \/ \E p \in Starting \cup {"off", "serve"} : Goto(s, p)
    BY DEF Startup, StartFails, StartCancelled, GiveUp, Leave, Onward, Step, Starting,
           Ping, LookForTable, CreateTable, CheckMigration, ExecMigration, RecordMigration,
           CommitMigration, Committed, Listen

LEMMA RequestStepKeeps ==
    ASSUME RequestInv, TypeOK', RequestStep
    PROVE  RequestInv'
<1>1. PICK r \in Requests : Acquire(r) \/ Handling(r) \/ \E s \in Servers : Accept(s, r)
    BY DEF RequestStep
<1>2. CASE Acquire(r) \/ Release(r) \/ Answer(r)
    BY <1>2 DEF Acquire, Release, Answer, RequestInv, TypeOK, RunningIsAtHome, CloseIsHasty,
                StopsAreGraceful, Running
<1>3. CASE AnswerPoolClosed(r)
    BY <1>3 DEF AnswerPoolClosed, RequestInv, TypeOK, RunningIsAtHome, CloseIsHasty,
                StopsAreGraceful, Running
<1>4. CASE \E s \in Servers : Accept(s, r)
    BY <1>4 DEF Accept, RequestInv, TypeOK, RunningIsAtHome, CloseIsHasty, StopsAreGraceful, Running
<1> QED
    BY <1>1, <1>2, <1>3, <1>4 DEF Handling

LEMMA LifeKeepsRequests ==
    ASSUME RequestInv, TypeOK', NEW s \in Servers, Life(s)
    PROVE  RequestInv'
<1>1. CASE Start(s)
  <2>1. phase[s] = "off" /\ Goto(s, "ping") /\ UNCHANGED <<request, home, hasty>>
    BY <1>1 DEF Start
  <2> QED
    BY <2>1, MovesKeep DEF Phases, Starting
<1>2. CASE Signal(s)
  <2>1. UNCHANGED <<phase, request, home, hasty>>
    BY <1>2 DEF Signal
  <2> QED
    BY <2>1, StayingPut
<1>3. CASE Shutdown(s)
  <2>1. phase[s] = "serve" /\ Goto(s, "drain") /\ UNCHANGED <<request, home, hasty>>
    BY <1>3 DEF Shutdown
  <2> QED
    BY <2>1, MovesKeep DEF Phases
<1>4. CASE Drained(s) \/ OutOfTime(s)
  <2>1. /\ phase'[s] = "close" /\ \A t \in Servers \ {s} : phase'[t] = phase[t]
        /\ UNCHANGED <<request, home>> /\ hasty \subseteq hasty'
        /\ On(s) = {} \/ s \in hasty'
    BY <1>4 DEF Drained, OutOfTime, Goto, RequestInv, TypeOK
  <2>2. RunningIsAtHome' /\ StopsAreGraceful'
    BY <2>1 DEF RunningIsAtHome, StopsAreGraceful, RequestInv, TypeOK, Running
  <2>3. CloseIsHasty'
    BY <2>1 DEF CloseIsHasty, RequestInv, TypeOK, Running, On
  <2> QED
    BY <2>2, <2>3 DEF RequestInv
<1>5. CASE Exit(s) \/ Crash(s)
  <2>1. /\ Goto(s, "off") /\ Cut(s) /\ UNCHANGED home /\ hasty \subseteq hasty'
        /\ phase[s] = "close" \/ s \in hasty'
    BY <1>5 DEF Exit, Crash, Leave
  <2> QED
    BY <2>1, CutKeeps
<1> QED
    BY <1>1, <1>2, <1>3, <1>4, <1>5 DEF Life, Stopping

(* The invariant of the requests.                                          *)
LEMMA RequestsAreSound == Spec => []RequestInv
<1>1. Init => RequestInv
    BY MigrationInit DEF Init, RequestInv, MigrationInv, RunningIsAtHome, CloseIsHasty,
                         StopsAreGraceful, Running
<1>2. RequestInv /\ TypeOK' /\ [Next]_vars => RequestInv'
  <2> SUFFICES ASSUME RequestInv, TypeOK', [Next]_vars PROVE RequestInv'
    OBVIOUS
  <2>1. CASE \E s \in Servers : Startup(s) \/ StartFails(s)
    <3>1. PICK s \in Servers : Startup(s) \/ StartFails(s)
        BY <2>1
    <3>2. CASE UNCHANGED phase
        BY <3>1, <3>2, StartupMoves, StayingPut
    <3>3. CASE \E p \in Starting \cup {"off", "serve"} : Goto(s, p)
      <4>1. PICK p \in Starting \cup {"off", "serve"} : Goto(s, p)
        BY <3>3
      <4>2. phase[s] \in Starting /\ UNCHANGED <<request, home, hasty>>
        BY <3>1, StartupMoves
      <4> QED
        BY <4>1, <4>2, MovesKeep DEF Phases, Starting
    <3> QED
        BY <3>1, <3>2, <3>3, StartupMoves
  <2>2. CASE \E s \in Servers : Life(s)
    BY <2>2, LifeKeepsRequests
  <2>3. CASE RequestStep
    BY <2>3, RequestStepKeeps
  <2>4. CASE DatabaseUp
    BY <2>4, StayingPut DEF DatabaseUp
  <2>5. CASE UNCHANGED vars
    BY <2>5, StayingPut DEF vars
  <2> QED
    BY <2>1, <2>2, <2>3, <2>4, <2>5, NextCases
<1> QED
    BY <1>1, <1>2, ServersTypeCorrect, PTL DEF Spec

(* A stop cuts off no request before its time, on any number of servers    *)
(* with any number of requests.                                            *)
THEOREM ServersStopGracefully == Spec => []StopsAreGraceful
<1>1. RequestInv => StopsAreGraceful
    BY DEF RequestInv
<1> QED
    BY <1>1, RequestsAreSound, PTL

-----------------------------------------------------------------------------
(* The deployment that the servers implement.                              *)
DeployedInv == MigrationInv /\ RequestInv

SameServers == \A s \in Servers : SeenAs(s)' = SeenAs(s)
SameRequests == \A r \in Requests : FateOf(r)' = FateOf(r)

LEMMA SameViews ==
    /\ SameServers => [s \in Servers |-> SeenAs(s)]' = [s \in Servers |-> SeenAs(s)]
    /\ SameRequests => [r \in Requests |-> FateOf(r)]' = [r \in Requests |-> FateOf(r)]
BY DEF SameServers, SameRequests

LEMMA Unseen ==
    ASSUME SameServers, SameRequests, UNCHANGED <<recorded, home>>
    PROVE  UNCHANGED Deployed!deploymentVars
BY SameViews DEF Deployed!deploymentVars

(* Versions are recorded one after the other.                              *)
LEMMA CommitIsNext ==
    ASSUME MigrationInv, NEW s \in Servers, phase[s] = "commit", Committed(s)
    PROVE  \E v \in 1..Last : recorded = 1..(v - 1) /\ recorded' = 1..v
<1>1. /\ at[s] \in 1..Last /\ at[s] \notin recorded /\ 1..(at[s] - 1) \subseteq recorded
      /\ recorded' = recorded \cup {at[s]}
  BY InLoop DEF MigrationInv, AtIsNear, CommitIsFirst, Committed, Versions
<1>2. recorded \subseteq 1..Last /\ Last \in Nat
  BY ServersAssumption DEF MigrationInv, TypeOK, Versions
<1>3. ASSUME NEW v \in recorded PROVE v \in 1..(at[s] - 1)
  <2>1. 1..v \subseteq recorded
    BY DEF MigrationInv, MigrationsInOrder
  <2>2. ~(at[s] \in 1..v)
    BY <1>1, <2>1
  <2> QED
    BY <1>1, <1>2, <2>2
<1>4. recorded = 1..(at[s] - 1)
  BY <1>1, <1>2, <1>3
<1>5. recorded' = 1..at[s]
  BY <1>1, <1>2, <1>4
<1> QED
  BY <1>1, <1>4, <1>5

LEMMA CommitDeploys ==
    ASSUME MigrationInv, NEW s \in Servers, phase[s] = "commit", Committed(s),
           SameServers, SameRequests, UNCHANGED home
    PROVE  Deployed!Migrate
BY CommitIsNext, SameViews DEF Deployed!Migrate

(* A start is not seen before it listens, but for what it commits.         *)
LEMMA StartupDeploys ==
    ASSUME DeployedInv, NEW s \in Servers, Startup(s) \/ StartFails(s)
    PROVE  [Deployed!Next]_(Deployed!deploymentVars)
<1>0. MigrationInv /\ phase \in [Servers -> Phases] /\ phase[s] \in Starting
      /\ UNCHANGED <<request, home>> /\ SameRequests
  BY StartupMoves DEF DeployedInv, MigrationInv, TypeOK, SameRequests, FateOf, Running
<1>1. ASSUME NEW p, p \in Starting \cup {"off"}, Goto(s, p) PROVE SameServers
  BY <1>0, <1>1 DEF SameServers, SeenAs, Goto, Starting
<1>2. CASE Listen(s)
  <2>1. /\ phase[s] = "listen" /\ phase'[s] = "serve"
        /\ \A t \in Servers \ {s} : phase'[t] = phase[t]
        /\ UNCHANGED <<recorded, home>>
    BY <1>0, <1>2 DEF Listen, Goto
  <2>2. s \in Migrating => recorded = 1..Last
    BY <1>0, <2>1 DEF MigrationInv, ServingIsMigrated, Versions
  <2>3. [t \in Servers |-> SeenAs(t)]'
            = [[t \in Servers |-> SeenAs(t)] EXCEPT ![s] = "open"]
    BY <2>1 DEF SeenAs
  <2>4. [t \in Servers |-> SeenAs(t)][s] = "away"
    BY <2>1 DEF SeenAs
  <2>5. Deployed!Open(s)
    BY <1>0, <2>1, <2>2, <2>3, <2>4, SameViews DEF Deployed!Open, Deployed!Turn
  <2> QED
    BY <2>5 DEF Deployed!Next
<1>3. CASE CommitMigration(s)
  <2>1. phase[s] = "commit" /\ Committed(s)
    BY <1>3 DEF CommitMigration, Step
  <2>2. SameServers
    BY <1>1, <1>3 DEF CommitMigration, Onward, Starting
  <2> QED
    BY <1>0, <2>1, <2>2, CommitDeploys DEF Deployed!Next
<1>4. CASE StartCancelled(s) \/ StartFails(s)
  <2>1. GiveUp(s)
    BY <1>4 DEF StartCancelled, StartFails
  <2>2. SameServers
    BY <1>1, <2>1 DEF GiveUp, Leave
  <2>3. CASE UNCHANGED recorded
    BY <1>0, <2>2, <2>3, Unseen
  <2>4. CASE phase[s] = "commit" /\ Committed(s)
    BY <1>0, <2>2, <2>4, CommitDeploys DEF Deployed!Next
  <2> QED
    BY <2>1, <2>3, <2>4 DEF GiveUp
<1>5. CASE \/ Ping(s) \/ LookForTable(s) \/ CreateTable(s)
           \/ CheckMigration(s) \/ ExecMigration(s) \/ RecordMigration(s)
  <2>1. UNCHANGED recorded
    BY <1>5 DEF Ping, LookForTable, CreateTable, CheckMigration, ExecMigration, RecordMigration
  <2>2. UNCHANGED phase \/ \E p \in Starting \cup {"off"} : Goto(s, p)
    BY <1>5 DEF Ping, LookForTable, CreateTable, CheckMigration, ExecMigration, RecordMigration,
                Onward, Leave, Starting
  <2>3. SameServers
    BY <1>1, <2>2 DEF SameServers, SeenAs
  <2> QED
    BY <1>0, <2>1, <2>3, Unseen
<1> QED
  BY <1>2, <1>3, <1>4, <1>5 DEF Startup

(* What a server's end cuts is what the deployment cuts.                   *)
LEMMA CutIsSeen ==
    ASSUME TypeOK, NEW s \in Servers, Cut(s)
    PROVE  Deployed!Cut(s)
<1>1. \A r \in Requests :
        r \in Deployed!OpenOn(s) <=> r \in On(s)
  BY DEF Deployed!OpenOn, On, FateOf, Running, TypeOK
<1>2. \A r \in Requests :
        FateOf(r)' = IF r \in On(s) THEN "cut" ELSE FateOf(r)
  BY DEF Cut, FateOf, Running
<1> QED
  BY <1>1, <1>2 DEF Deployed!Cut

LEMMA LifeDeploys ==
    ASSUME DeployedInv, NEW s \in Servers, Life(s)
    PROVE  [Deployed!Next]_(Deployed!deploymentVars)
<1>0. TypeOK /\ phase \in [Servers -> Phases] /\ UNCHANGED <<recorded, home>>
  BY DEF DeployedInv, MigrationInv, TypeOK, Life, Start, Signal, Stopping, Shutdown, Drained,
         OutOfTime, Exit, Crash
<1>1. ASSUME NEW p, Goto(s, p), NEW seen, SeenAs(s)' = seen
      PROVE  [t \in Servers |-> SeenAs(t)]' = [[t \in Servers |-> SeenAs(t)] EXCEPT ![s] = seen]
  <2>1. \A t \in Servers \ {s} : SeenAs(t)' = SeenAs(t)
    BY <1>0, <1>1 DEF Goto, SeenAs
  <2> QED
    BY <1>1, <2>1
<1>2. CASE Start(s) \/ Signal(s)
  <2>1. SameServers /\ SameRequests
    BY <1>0, <1>2 DEF Start, Signal, Goto, SameServers, SeenAs, SameRequests, FateOf, Running
  <2> QED
    BY <1>0, <2>1, Unseen
<1>3. CASE Shutdown(s)
  <2>1. SeenAs(s) = "open" /\ Goto(s, "drain") /\ SeenAs(s)' = "drain" /\ SameRequests
    BY <1>0, <1>3 DEF Shutdown, Goto, SeenAs, SameRequests, FateOf, Running
  <2>2. Deployed!Drain(s)
    BY <1>0, <1>1, <2>1, SameViews DEF Deployed!Drain, Deployed!Turn
  <2> QED
    BY <2>2 DEF Deployed!Next
<1>4. CASE Drained(s) \/ OutOfTime(s)
  <2>1. SeenAs(s) = "drain" /\ Goto(s, "close") /\ SeenAs(s)' = "close" /\ SameRequests
    BY <1>0, <1>4 DEF Drained, OutOfTime, Goto, SeenAs, SameRequests, FateOf, Running
  <2>2. Deployed!Close(s)
    BY <1>0, <1>1, <2>1, SameViews DEF Deployed!Close, Deployed!Turn
  <2> QED
    BY <2>2 DEF Deployed!Next
<1>5. CASE Exit(s)
  <2>1. SeenAs(s) = "close" /\ Goto(s, "off") /\ SeenAs(s)' = "away" /\ Deployed!Cut(s)
    BY <1>0, <1>5, CutIsSeen DEF Exit, Leave, Goto, SeenAs
  <2>2. Deployed!Exit(s)
    BY <1>0, <1>1, <2>1 DEF Deployed!Exit, Deployed!Turn
  <2> QED
    BY <2>2 DEF Deployed!Next
<1>6. CASE Crash(s)
  <2>1. Goto(s, "off") /\ SeenAs(s)' = "away" /\ Deployed!Cut(s)
    BY <1>0, <1>6, CutIsSeen DEF Crash, Leave, Goto, SeenAs
  <2>2. Deployed!Crash(s)
    BY <1>0, <1>1, <2>1 DEF Deployed!Crash
  <2> QED
    BY <2>2 DEF Deployed!Next
<1> QED
  BY <1>2, <1>3, <1>4, <1>5, <1>6 DEF Life, Stopping

LEMMA RequestDeploys ==
    ASSUME DeployedInv, RequestStep
    PROVE  [Deployed!Next]_(Deployed!deploymentVars)
<1>0. TypeOK /\ RunningIsAtHome
  BY DEF DeployedInv, RequestInv
<1>1. PICK r \in Requests : Acquire(r) \/ Handling(r) \/ \E s \in Servers : Accept(s, r)
  BY DEF RequestStep
<1>2. UNCHANGED <<recorded, phase>> /\ SameServers
  BY <1>1 DEF Handling, Acquire, Release, Answer, AnswerPoolClosed, Accept, SameServers, SeenAs
<1>3. ASSUME NEW outcome, request' = [request EXCEPT ![r] = outcome]
      PROVE  [q \in Requests |-> FateOf(q)]'
                = [[q \in Requests |-> FateOf(q)] EXCEPT ![r] = FateOf(r)']
  <2>1. \A q \in Requests \ {r} : FateOf(q)' = FateOf(q)
    BY <1>0, <1>3 DEF TypeOK, FateOf, Running
  <2> QED
    BY <2>1
<1>4. CASE Acquire(r) \/ Release(r)
  <2>1. SameRequests /\ UNCHANGED home
    BY <1>0, <1>4 DEF Acquire, Release, TypeOK, SameRequests, FateOf, Running
  <2> QED
    BY <1>2, <2>1, Unseen
<1>5. ASSUME NEW outcome \in {"answered", "refused"}, request[r] = "local",
             request' = [request EXCEPT ![r] = outcome], UNCHANGED home,
             outcome = "refused" => phase[home[r]] = "close"
      PROVE  Deployed!End(r)
  <2>1. home[r] \in Servers /\ phase[home[r]] \in {"serve", "drain", "close"}
    BY <1>0, <1>5 DEF TypeOK, RunningIsAtHome, Running
  <2>2. [s \in Servers |-> SeenAs(s)][home[r]] = SeenAs(home[r])
    BY <2>1
  <2>3. SeenAs(home[r]) # "away" /\ (outcome = "refused" => SeenAs(home[r]) = "close")
    BY <1>5, <2>1 DEF SeenAs
  <2>4. FateOf(r) = "open" /\ FateOf(r)' = outcome
    BY <1>0, <1>5 DEF TypeOK, FateOf, Running
  <2> QED
    BY <1>2, <1>3, <1>5, <2>2, <2>3, <2>4, SameViews DEF Deployed!End
<1>6. CASE Answer(r) \/ AnswerPoolClosed(r)
  <2>1. Deployed!End(r)
    BY <1>5, <1>6 DEF Answer, AnswerPoolClosed
  <2> QED
    BY <2>1 DEF Deployed!Next
<1>7. ASSUME NEW s \in Servers, Accept(s, r)
      PROVE  Deployed!Accept(s, r)
  <2>1. /\ phase[s] = "serve" /\ request[r] = "none"
        /\ request' = [request EXCEPT ![r] = "local"]
        /\ home' = [home EXCEPT ![r] = s]
    BY <1>7 DEF Accept
  <2>2. SeenAs(s) = "open" /\ FateOf(r) = "none" /\ FateOf(r)' = "open"
    BY <1>0, <2>1 DEF TypeOK, SeenAs, FateOf, Running
  <2> QED
    BY <1>2, <1>3, <2>1, <2>2, SameViews DEF Deployed!Accept
<1> QED
  BY <1>1, <1>4, <1>6, <1>7 DEF Handling, Deployed!Next

(* The servers implement the deployment: any number of them, however their *)
(* statements and calls interleave and wherever they end, migrate, serve   *)
(* and stop as one step each would.                                        *)
THEOREM DeploymentImplemented == Spec => ImplementsDeployment
<1>1. Init => Deployed!Init
  BY DEF Init, Deployed!Init, SeenAs, FateOf, Running
<1>2. DeployedInv /\ [Next]_vars => [Deployed!Next]_(Deployed!deploymentVars)
  <2> SUFFICES ASSUME DeployedInv, [Next]_vars
               PROVE  [Deployed!Next]_(Deployed!deploymentVars)
    OBVIOUS
  <2>1. CASE DatabaseUp \/ UNCHANGED vars
    <3>1. UNCHANGED <<recorded, phase, request, home>>
      BY <2>1 DEF DatabaseUp, vars
    <3> QED
      BY <3>1, Unseen DEF SameServers, SameRequests, SeenAs, FateOf, Running
  <2> QED
    BY <2>1, NextCases, StartupDeploys, LifeDeploys, RequestDeploys
<1>3. MigrationInv /\ RequestInv => DeployedInv
  BY DEF DeployedInv
<1> QED
  BY <1>1, <1>2, <1>3, MigrationsAreSound, RequestsAreSound, PTL
     DEF Spec, ImplementsDeployment, Deployed!Spec
=============================================================================
