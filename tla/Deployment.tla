----------------------------- MODULE Deployment -----------------------------
(***************************************************************************)
(* What a group of composer-servers on one database promises, without      *)
(* statements, locks, pools or lost races: the migrations take effect one  *)
(* after the other and once each, whoever applies them; who has to migrate *)
(* opens when all are there; what a server accepted it gives up only when  *)
(* it dies or closes with requests that did not end while it drained.      *)
(* Servers implements it.                                                  *)
(***************************************************************************)
EXTENDS Naturals

CONSTANTS Servers, Migrating, Last, Requests, None

VARIABLES
    applied,   \* the migrations in effect
    state,     \* what each server is at, seen from outside
    request,   \* what became of each request
    home       \* the server that accepted it

deploymentVars == <<applied, state, request, home>>

Init ==
    /\ applied = {}
    /\ state = [s \in Servers |-> "away"]
    /\ request = [r \in Requests |-> "none"]
    /\ home = [r \in Requests |-> None]

OpenOn(s) == {r \in Requests : home[r] = s /\ request[r] = "open"}

(* The next migration takes effect.                                        *)
Migrate ==
    /\ \E v \in 1..Last : applied = 1..(v - 1) /\ applied' = 1..v
    /\ UNCHANGED <<state, request, home>>

Turn(s, from, to) ==
    /\ state[s] = from
    /\ state' = [state EXCEPT ![s] = to]
    /\ UNCHANGED <<applied, home>>

Open(s) ==
    /\ Turn(s, "away", "open")
    /\ s \in Migrating => applied = 1..Last
    /\ UNCHANGED request

Drain(s) == Turn(s, "open", "drain") /\ UNCHANGED request

(* With or without requests that have not ended.                           *)
Close(s) == Turn(s, "drain", "close") /\ UNCHANGED request

(* Open requests are cut, nobody answers them any more.                    *)
Cut(s) == request' = [r \in Requests |-> IF r \in OpenOn(s) THEN "cut" ELSE request[r]]

Exit(s) == Turn(s, "close", "away") /\ Cut(s)

Crash(s) ==
    /\ state' = [state EXCEPT ![s] = "away"]
    /\ Cut(s)
    /\ UNCHANGED <<applied, home>>

Accept(s, r) ==
    /\ state[s] = "open"
    /\ request[r] = "none"
    /\ request' = [request EXCEPT ![r] = "open"]
    /\ home' = [home EXCEPT ![r] = s]
    /\ UNCHANGED <<applied, state>>

(* Refused only by a server that is closing.                               *)
End(r) ==
    /\ request[r] = "open"
    /\ \E outcome \in {"answered", "refused"} :
          /\ outcome = "answered" => state[home[r]] # "away"
          /\ outcome = "refused" => state[home[r]] = "close"
          /\ request' = [request EXCEPT ![r] = outcome]
    /\ UNCHANGED <<applied, state, home>>

Next ==
    \/ Migrate
    \/ \E s \in Servers :
         \/ Open(s)
         \/ Drain(s)
         \/ Close(s)
         \/ Exit(s)
         \/ Crash(s)
         \/ \E r \in Requests : Accept(s, r)
    \/ \E r \in Requests : End(r)

Spec == Init /\ [][Next]_deploymentVars
=============================================================================
