------------------------------ MODULE MCServers ------------------------------
(***************************************************************************)
(* An instance of Servers for TLC: two servers, two migrations, a pool of  *)
(* one connection, a request of two calls (the insert of a draft and the   *)
(* reading of its components) and one of one call (GET /readyz).           *)
(***************************************************************************)
EXTENDS ServersRefinement

CONSTANTS r1, r2

MCCallsOf == [r \in {r1, r2} |-> IF r = r1 THEN 2 ELSE 1]
=============================================================================
