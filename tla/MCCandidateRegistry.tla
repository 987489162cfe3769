------------------------ MODULE MCCandidateRegistry -------------------------
(***************************************************************************)
(* Instances of CandidateRegistry for TLC.  c1 has an opaque external id,  *)
(* so its slug follows its name; c2 has a readable one that is its slug    *)
(* under any name.  c1 named n2 and c2 meet on one (type, slug): the same  *)
(* asset imported from two sources.                                        *)
(***************************************************************************)
EXTENDS CandidateRefinement, TLC

CONSTANTS c1, c2, n1, n2, k1, k2, i1, i2, i3, h1, h2

MCCandidates == {c1, c2}
MCNames == {n1, n2}
MCKeys == {k1, k2}
MCIds == {i1, i2, i3}
MCHandlers == {h1, h2}

MCKeyOf ==
    (c1 :> (n1 :> k1 @@ n2 :> k2)) @@ (c2 :> (n1 :> k2 @@ n2 :> k2))

(* An inferred description is always there, intents only when a rule of    *)
(* llm/mock_client.go matches: c1 is exported without and later with, and  *)
(* a reviewer may supply them or rename it; c2 competes for the slug.      *)
Export(n, fields) == [name |-> n, fields |-> fields, guessed |-> FALSE]

MCPayloads ==
    c1 :> {Export(n1, {"description"}), Export(n1, CoreFields)} @@
    c2 :> {Export(n2, {"description"})}

GiveIntents == [name |-> None, fields |-> {"intents"}]
RenameTo(n) == [name |-> n, fields |-> {}]

MCEdits == c1 :> {GiveIntents, RenameTo(n2)} @@ c2 :> {}

MCSymmetry == Permutations(MCIds) \cup Permutations(MCHandlers)
=============================================================================
