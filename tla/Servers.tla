------------------------------- MODULE Servers -------------------------------
(***************************************************************************)
(* The life of composer-server processes on one Postgres: they wait for    *)
(* the database, apply the embedded migrations, serve requests from a pool *)
(* of connections and stop on a signal (cmd/composer-server/main.go,       *)
(* internal/store/postgres.go).  Nothing but the database coordinates      *)
(* them: several may start at once, and each may die at any point.         *)
(*                                                                         *)
(* A start is the sequence of its statements.  What Postgres does to those *)
(* of several starts (locks, the primary key of schema_migrations, the     *)
(* rollback of a lost session) is external and modelled as documented.     *)
(***************************************************************************)
EXTENDS Naturals, FiniteSets

CONSTANTS
    Servers,      \* processes that may run
    Migrating,    \* those configured with migrate_on_start
    Last,         \* the number of embedded migrations, sorted by name
    Attempts,     \* startup_attempts
    Requests,     \* requests that clients send
    CallsOf,      \* CallsOf[r]: the repository calls request r makes
    MaxConns,     \* size of a server's connection pool
    MaxFailures,  \* bound on failed calls and crashes
    None          \* no server

Versions == 1..Last

ASSUME ServersAssumption ==
    /\ Migrating \subseteq Servers
    /\ Last \in Nat \ {0}
    /\ Attempts \in Nat
    /\ CallsOf \in [Requests -> Nat]
    /\ MaxConns \in Nat
    /\ MaxFailures \in Nat
    /\ None \notin Servers

VARIABLES
    reachable,    \* the database answers
    bookkeeping,  \* the table schema_migrations exists
    recorded,     \* its rows; a row commits with the objects of its version
    phase,        \* what each server is at
    at,           \* the migration it looks at next
    tries,        \* the pings that have failed
    signalled,    \* the servers that were told to stop
    request,      \* the state of each request
    home,         \* the server that accepted it
    calls,        \* the repository calls it has left
    failures

databaseVars == <<reachable, bookkeeping, recorded>>
requestVars  == <<request, home, calls>>

(* History, for the properties only: how often the body of a version was   *)
(* committed; the servers that crashed, or ran out of time for the         *)
(* requests under way.                                                     *)
VARIABLES commits, hasty

historyVars == <<commits, hasty>>
vars == <<databaseVars, phase, at, tries, signalled, requestVars, failures, historyVars>>

Starting == {"ping", "look", "create", "check", "exec", "record", "commit", "listen"}
Phases   == Starting \cup {"off", "serve", "drain", "close"}

Running(r) == request[r] \in {"local", "query"}
On(s) == {r \in Requests : home[r] = s /\ Running(r)}
Held(s) == {r \in On(s) : request[r] = "query"}

Init ==
    /\ reachable \in BOOLEAN
    /\ bookkeeping = FALSE
    /\ recorded = {}
    /\ phase = [s \in Servers |-> "off"]
    /\ at = [s \in Servers |-> 1]
    /\ tries = [s \in Servers |-> 0]
    /\ signalled = {}
    /\ request = [r \in Requests |-> "none"]
    /\ home = [r \in Requests |-> None]
    /\ calls = CallsOf
    /\ failures = 0
    /\ commits = [v \in Versions |-> 0]
    /\ hasty = {}

Goto(s, p) == phase' = [phase EXCEPT ![s] = p]

(* The process ends, and its variables with it.                            *)
Leave(s) ==
    /\ Goto(s, "off")
    /\ at' = [at EXCEPT ![s] = 1]
    /\ tries' = [tries EXCEPT ![s] = 0]

-----------------------------------------------------------------------------
(* openStore: NewPostgres and Migrate.                                     *)

(* A server that ended by itself may be started again; one that was told   *)
(* to stop stays away, its place is another member of Servers.             *)
Start(s) ==
    /\ phase[s] = "off"
    /\ s \notin signalled
    /\ Goto(s, "ping")
    /\ UNCHANGED <<databaseVars, at, tries, signalled, requestVars, failures, historyVars>>

(* The statements of a start run under the context that the signal cancels.*)
Step(s, p) == phase[s] = p /\ s \notin signalled

PingOnceMore(s) ==  \* mutant
    /\ Step(s, "ping")
    /\ ~reachable
    /\ \/ tries[s] < Attempts /\ tries' = [tries EXCEPT ![s] = @ + 1] /\ UNCHANGED <<phase, at>>
       \/ tries[s] = Attempts /\ Leave(s)
    /\ UNCHANGED <<databaseVars, signalled, requestVars, failures, historyVars>>

Ping(s) ==
    /\ Step(s, "ping")
    /\ \/ /\ reachable
          /\ Goto(s, IF s \in Migrating THEN "look" ELSE "listen")
          /\ tries' = [tries EXCEPT ![s] = 0]
          /\ UNCHANGED at
       \/ /\ ~reachable
          /\ tries[s] + 1 < Attempts
          /\ tries' = [tries EXCEPT ![s] = @ + 1]
          /\ UNCHANGED <<phase, at>>
       \/ /\ ~reachable
          /\ tries[s] + 1 >= Attempts
          /\ Leave(s)
    /\ UNCHANGED <<databaseVars, signalled, requestVars, failures, historyVars>>

(* CREATE TABLE IF NOT EXISTS looks for the table and then creates it; who *)
(* is overtaken in between fails on the catalog's unique index.            *)
LookForTable(s) ==
    /\ Step(s, "look")
    /\ Goto(s, IF bookkeeping THEN "check" ELSE "create")
    /\ UNCHANGED <<databaseVars, at, tries, signalled, requestVars, failures, historyVars>>

CreateTable(s) ==
    /\ Step(s, "create")
    /\ \/ bookkeeping /\ Leave(s)
       \/ ~bookkeeping /\ Goto(s, "check") /\ UNCHANGED <<at, tries>>
    /\ bookkeeping' = TRUE
    /\ UNCHANGED <<reachable, recorded, signalled, requestVars, failures, historyVars>>

(* The loop over the versions, in order; after the last of them the server *)
(* is about to listen.                                                     *)
Onward(s) ==
    /\ at' = [at EXCEPT ![s] = @ + 1]
    /\ Goto(s, IF at[s] = Last THEN "listen" ELSE "check")

(* SELECT EXISTS.                                                          *)
CheckMigration(s) ==
    /\ Step(s, "check")
    /\ \/ at[s] \in recorded /\ Onward(s)
       \/ at[s] \notin recorded /\ Goto(s, "exec") /\ UNCHANGED at
    /\ UNCHANGED <<databaseVars, tries, signalled, requestVars, failures, historyVars>>

(* Another open transaction has the version's objects or its row: wait.    *)
Busy(s) == \E t \in Servers \ {s} : at[t] = at[s] /\ phase[t] \in {"record", "commit"}

(* BEGIN and the body, which is written with IF NOT EXISTS: it may find    *)
(* all of its objects there.                                               *)
ExecMigration(s) ==
    /\ Step(s, "exec")
    /\ ~Busy(s)
    /\ Goto(s, "record")
    /\ UNCHANGED <<databaseVars, at, tries, signalled, requestVars, failures, historyVars>>

DoNothingOnConflict(s) ==  \* mutant
    /\ Step(s, "record")
    /\ Goto(s, "commit")
    /\ UNCHANGED <<databaseVars, at, tries, signalled, requestVars, failures, historyVars>>

TakeConflictForDone(s) ==  \* mutant
    /\ Step(s, "record")
    /\ Goto(s, IF at[s] \in recorded THEN "listen" ELSE "commit")
    /\ UNCHANGED <<databaseVars, at, tries, signalled, requestVars, failures, historyVars>>

(* INSERT of the version.  Its primary key refuses who was overtaken since *)
(* the check: rolled back, and this start is over.                         *)
RecordMigration(s) ==
    /\ Step(s, "record")
    /\ \/ at[s] \in recorded /\ Leave(s)
       \/ at[s] \notin recorded /\ Goto(s, "commit") /\ UNCHANGED <<at, tries>>
    /\ UNCHANGED <<databaseVars, signalled, requestVars, failures, historyVars>>

Committed(s) ==
    /\ recorded' = recorded \cup {at[s]}
    /\ commits' = [commits EXCEPT ![at[s]] = @ + 1]

CommitMigration(s) ==
    /\ Step(s, "commit")
    /\ Committed(s)
    /\ Onward(s)
    /\ UNCHANGED <<reachable, bookkeeping, tries, signalled, requestVars, failures, hasty>>

(* ListenAndServe.                                                         *)
Listen(s) ==
    /\ phase[s] = "listen"
    /\ Goto(s, "serve")
    /\ UNCHANGED <<databaseVars, at, tries, signalled, requestVars, failures, historyVars>>

(* A start ends at an error: the pool is closed, an open transaction is    *)
(* rolled back.  A commit may have reached the database all the same.      *)
GiveUp(s) ==
    /\ Leave(s)
    /\ \/ UNCHANGED <<recorded, commits>>
       \/ phase[s] = "commit" /\ Committed(s)
    /\ UNCHANGED <<reachable, bookkeeping, signalled, requestVars, hasty>>

StartFails(s) ==
    /\ phase[s] \in Starting \ {"ping"}
    /\ failures < MaxFailures
    /\ failures' = failures + 1
    /\ GiveUp(s)

StartCancelled(s) ==
    /\ phase[s] \in Starting \ {"listen"}
    /\ s \in signalled
    /\ GiveUp(s)
    /\ UNCHANGED failures

-----------------------------------------------------------------------------
(* Requests.                                                               *)

Accept(s, r) ==
    /\ phase[s] = "serve"
    /\ request[r] = "none"
    /\ request' = [request EXCEPT ![r] = "local"]
    /\ home' = [home EXCEPT ![r] = s]
    /\ UNCHANGED <<databaseVars, phase, at, tries, signalled, calls, failures, historyVars>>

KeepConnection(r) ==  \* mutant
    /\ request[r] = "query"
    /\ calls[r] = 1 \/ Cardinality(Held(home[r])) < MaxConns
    /\ calls' = [calls EXCEPT ![r] = @ - 1]
    /\ request' = [request EXCEPT ![r] = IF calls[r] = 1 THEN "local" ELSE @]
    /\ UNCHANGED <<databaseVars, phase, at, tries, signalled, home, failures, historyVars>>

(* A repository call takes one connection from the pool, or waits for one, *)
(* and gives it back before the next call takes its own.                   *)
Acquire(r) ==
    /\ request[r] = "local" /\ calls[r] > 0
    /\ phase[home[r]] # "close"
    /\ Cardinality(Held(home[r])) < MaxConns
    /\ request' = [request EXCEPT ![r] = "query"]
    /\ UNCHANGED <<databaseVars, phase, at, tries, signalled, home, calls, failures, historyVars>>

Release(r) ==
    /\ request[r] = "query"
    /\ request' = [request EXCEPT ![r] = "local"]
    /\ calls' = [calls EXCEPT ![r] = @ - 1]
    /\ UNCHANGED <<databaseVars, phase, at, tries, signalled, home, failures, historyVars>>

(* An envelope goes out, whether the handler returns or panics.            *)
Answer(r) ==
    /\ request[r] = "local" /\ calls[r] = 0
    /\ request' = [request EXCEPT ![r] = "answered"]
    /\ UNCHANGED <<databaseVars, phase, at, tries, signalled, home, calls, failures, historyVars>>

(* The pool is closed: the call fails, and so does the request.            *)
AnswerPoolClosed(r) ==
    /\ request[r] = "local" /\ calls[r] > 0
    /\ phase[home[r]] = "close"
    /\ request' = [request EXCEPT ![r] = "refused"]
    /\ UNCHANGED <<databaseVars, phase, at, tries, signalled, home, calls, failures, historyVars>>

-----------------------------------------------------------------------------
(* The end of a server.                                                    *)

(* SIGTERM cancels the context of run.                                     *)
Signal(s) ==
    /\ phase[s] # "off"
    /\ s \notin signalled
    /\ signalled' = signalled \cup {s}
    /\ UNCHANGED <<databaseVars, phase, at, tries, requestVars, failures, historyVars>>

CloseAtOnce(s) ==  \* mutant
    /\ phase[s] = "serve"
    /\ s \in signalled
    /\ Goto(s, "close")
    /\ UNCHANGED <<databaseVars, at, tries, signalled, requestVars, failures, historyVars>>

(* Shutdown: nothing is accepted any more; what is under way may end, but  *)
(* has 15 seconds.  Then the deferred Close of the store.                  *)
Shutdown(s) ==
    /\ phase[s] = "serve"
    /\ s \in signalled
    /\ Goto(s, "drain")
    /\ UNCHANGED <<databaseVars, at, tries, signalled, requestVars, failures, historyVars>>

Drained(s) ==
    /\ phase[s] = "drain"
    /\ On(s) = {}
    /\ Goto(s, "close")
    /\ UNCHANGED <<databaseVars, at, tries, signalled, requestVars, failures, historyVars>>

OutOfTime(s) ==
    /\ phase[s] = "drain"
    /\ On(s) # {}
    /\ Goto(s, "close")
    /\ hasty' = hasty \cup {s}
    /\ UNCHANGED <<databaseVars, at, tries, signalled, requestVars, failures, commits>>

Cut(s) == request' = [r \in Requests |-> IF r \in On(s) THEN "cut" ELSE request[r]]

(* Close waits for the connections in use; the process exits after it.     *)
Exit(s) ==
    /\ phase[s] = "close"
    /\ Held(s) = {}
    /\ Leave(s)
    /\ Cut(s)
    /\ UNCHANGED <<databaseVars, signalled, home, calls, failures, historyVars>>

(* The process dies.  Postgres rolls back what it had not committed.       *)
Crash(s) ==
    /\ phase[s] # "off"
    /\ failures < MaxFailures
    /\ failures' = failures + 1
    /\ Leave(s)
    /\ Cut(s)
    /\ hasty' = hasty \cup {s}
    /\ UNCHANGED <<databaseVars, signalled, home, calls, commits>>

DatabaseUp ==
    /\ ~reachable
    /\ reachable' = TRUE
    /\ UNCHANGED <<bookkeeping, recorded, phase, at, tries, signalled, requestVars, failures,
                   historyVars>>

-----------------------------------------------------------------------------
Startup(s) ==
    \/ Ping(s)
    \/ LookForTable(s)
    \/ CreateTable(s)
    \/ CheckMigration(s)
    \/ ExecMigration(s)
    \/ RecordMigration(s)
    \/ CommitMigration(s)
    \/ Listen(s)
    \/ StartCancelled(s)

Stopping(s) == Shutdown(s) \/ Drained(s) \/ OutOfTime(s) \/ Exit(s)

Handling(r) == Release(r) \/ Answer(r) \/ AnswerPoolClosed(r)

Next ==
    \/ \E s \in Servers :
         \/ Start(s)
         \/ Startup(s)
         \/ StartFails(s)
         \/ Signal(s)
         \/ Stopping(s)
         \/ Crash(s)
         \/ \E r \in Requests : Accept(s, r)
    \/ \E r \in Requests : Acquire(r) \/ Handling(r)
    \/ DatabaseUp

(* Statements return, goroutines run, the 15 seconds pass; whoever waits   *)
(* for a connection gets one in turn, since the pool hands them out first  *)
(* come, first served.  Nobody has to start a server, stop one or send it  *)
(* a request, and the database need not come up.                           *)
Spec ==
    /\ Init /\ [][Next]_vars
    /\ \A s \in Servers : WF_vars(Startup(s)) /\ WF_vars(Stopping(s))
    /\ \A r \in Requests : WF_vars(Handling(r)) /\ SF_vars(Acquire(r))

-----------------------------------------------------------------------------
(* The database, the processes and their requests hold what the code puts  *)
(* there; in particular a start gives up after startup_attempts pings.     *)
TypeOK ==
    /\ reachable \in BOOLEAN /\ bookkeeping \in BOOLEAN
    /\ recorded \subseteq Versions
    /\ phase \in [Servers -> Phases]
    /\ at \in [Servers -> 1..(Last + 1)]
    /\ tries \in [Servers -> Nat]
    /\ \A s \in Servers : tries[s] = 0 \/ tries[s] < Attempts
    /\ signalled \subseteq Servers
    /\ request \in [Requests -> {"none", "local", "query", "answered", "refused", "cut"}]
    /\ home \in [Requests -> Servers \cup {None}]
    /\ \A r \in Requests : request[r] # "none" => home[r] \in Servers
    /\ calls \in [Requests -> Nat]
    /\ \A r \in Requests : request[r] = "query" => calls[r] > 0
    /\ failures \in Nat
    /\ commits \in [Versions -> Nat]
    /\ hasty \subseteq Servers

(* Migrations commit in filename order, whichever of the servers commits   *)
(* each of them and whichever die on the way (store/postgres.go:76).       *)
MigrationsInOrder == \A v \in recorded : 1..v \subseteq recorded

(* No body commits twice: a migration need not be harmless to run again.   *)
MigratedOnce == \A v \in Versions : commits[v] <= 1

(* Both together are what a start leaves to all later ones.                *)
MigrationsAreExact == MigrationsInOrder /\ MigratedOnce

(* A server that migrates on start serves nothing before every migration   *)
(* is there, also those that another server was applying meanwhile         *)
(* (configs/config.yaml:24, "applies the embedded migrations on boot").    *)
ServingIsMigrated ==
    \A s \in Migrating : phase[s] \in {"listen", "serve", "drain"} => recorded = Versions

(* A stop is graceful: a request that was accepted is cut off, or refused  *)
(* for the store's being closed under it, only when the server crashed or  *)
(* its 15 seconds were over (main.go:75-88).                               *)
StopsAreGraceful ==
    \A r \in Requests : request[r] \in {"refused", "cut"} => home[r] \in hasty

(* Every start comes to an end, whatever the others do to its locks; of    *)
(* servers that start together some one serves, unless something other     *)
(* than their race keeps one from it.  Requests never wait for one         *)
(* another's connections for ever, and a stop waits for no more than what  *)
(* is under way.                                                           *)
StartsAndStopsEnd ==
    /\ \A s \in Servers : phase[s] \in Starting ~> phase[s] \in {"serve", "off"}
    /\ (reachable /\ \E s \in Servers : phase[s] = "ping") ~>
          (signalled # {} \/ failures > 0 \/ \E s \in Servers : phase[s] = "serve")
    /\ \A r \in Requests : Running(r) ~> ~Running(r)
    /\ \A s \in Servers : s \in signalled ~> phase[s] = "off"
=============================================================================
