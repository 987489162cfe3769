-------------------------- MODULE ServersRefinement --------------------------
(***************************************************************************)
(* The refinement mapping from Servers to Deployment.                      *)
(***************************************************************************)
EXTENDS Servers

(* A server that starts is not there yet.                                  *)
SeenAs(s) ==
    IF phase[s] = "serve" THEN "open"
    ELSE IF phase[s] \in {"drain", "close"} THEN phase[s]
    ELSE "away"

FateOf(r) == IF Running(r) THEN "open" ELSE request[r]

Deployed == INSTANCE Deployment WITH
    applied <- recorded,
    state   <- [s \in Servers |-> SeenAs(s)],
    request <- [r \in Requests |-> FateOf(r)]

(* However the statements of several starts interleave with one another,   *)
(* with failures, crashes and signals, and whatever requests wait for, the *)
(* servers together behave as the deployment: one migration at a time and  *)
(* once each, nothing served before they are there ("applies the embedded  *)
(* migrations on boot", configs/config.yaml:24), nothing accepted while    *)
(* draining, and no request lost before (cmd/composer-server/main.go:75).  *)
ImplementsDeployment == Deployed!Spec
=============================================================================
