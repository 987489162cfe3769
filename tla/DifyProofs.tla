------------------------------ MODULE DifyProofs ------------------------------
(***************************************************************************)
(* What dify.Map makes of an application, for every application: targets   *)
(* before what refers to them, and the steps of its workflow in the order  *)
(* of its graph; and what follows for the stored candidates.               *)
(***************************************************************************)
EXTENDS DifyIngestion, IngestionProofs, FiniteSetTheorems, WellFoundedInduction

-----------------------------------------------------------------------------
(* Induction and recursion over Nat, with sets and functions in place of   *)
(* the operators that the library's theorems ask for.                      *)

LEMMA LeastElement ==
    ASSUME NEW S \in SUBSET Nat, S # {}
    PROVE  \E n \in S : \A m \in S : n <= m
<1>1. PICK n \in S : \A m \in S : <<m, n>> \notin OpToRel(<, Nat)
  BY NatLessThanWellFounded, WFMin
<1>2. \A m \in S : ~(m < n)
  BY <1>1 DEF OpToRel
<1> QED
  BY <1>2

LEMMA SetInduction ==
    ASSUME NEW S, 0 \in S, \A n \in Nat : n \in S => n + 1 \in S
    PROVE  Nat \subseteq S
<1> SUFFICES ASSUME Nat \ S # {} PROVE FALSE
  OBVIOUS
<1>1. PICK n \in Nat \ S : \A m \in Nat \ S : n <= m
  BY LeastElement
<1>2. n # 0 /\ n - 1 \in Nat /\ n - 1 \in S
  BY <1>1
<1> QED
  BY <1>1, <1>2

(* A recursive function exists when its step stays within a set.           *)
Iterates(f, V, a, G) ==
    f \in [Nat -> V] /\ f[0] = a /\ \A n \in Nat : f[n + 1] = G[<<f[n], n + 1>>]

LEMMA Recursion ==
    ASSUME NEW V, NEW a \in V, NEW G \in [V \X Nat -> V]
    PROVE  \E f : Iterates(f, V, a, G)
<1> DEFINE Good(g, n) ==
              g \in [0..n -> V] /\ g[0] = a /\ \A i \in 1..n : g[i] = G[<<g[i - 1], i>>]
           some == {n \in Nat : \E g : Good(g, n)}
<1>1. Nat \subseteq some
  <2>1. 0 \in some
    <3>1. Good([i \in 0..0 |-> a], 0)
      OBVIOUS
    <3> QED
      BY <3>1
  <2>2. ASSUME NEW n \in Nat, n \in some PROVE n + 1 \in some
    <3>1. PICK g : Good(g, n)
      BY <2>2
    <3> DEFINE h == [i \in 0..(n + 1) |-> IF i = n + 1 THEN G[<<g[n], n + 1>>] ELSE g[i]]
    <3>2. g[n] \in V
      BY <3>1
    <3>3. G[<<g[n], n + 1>>] \in V
      BY <3>2
    <3>4. h \in [0..(n + 1) -> V]
      BY <3>1, <3>3
    <3>5. ASSUME NEW i \in 1..(n + 1) PROVE h[i] = G[<<h[i - 1], i>>]
      <4>1. CASE i = n + 1
        <5>1. h[n + 1] = G[<<g[n], n + 1>>] /\ h[n] = g[n] /\ i - 1 = n
          BY <4>1
        <5> HIDE DEF h
        <5> QED
          BY <4>1, <5>1
      <4>2. CASE i \in 1..n
        BY <4>2, <3>1
      <4> QED BY <4>1, <4>2
    <3>6. h[0] = a
      BY <3>1
    <3> HIDE DEF h
    <3>7. Good(h, n + 1)
      BY <3>4, <3>5, <3>6
    <3> QED
      BY <3>7
  <2> HIDE DEF some
  <2> QED
    BY <2>1, <2>2, SetInduction
<1> DEFINE part == [n \in Nat |-> CHOOSE g : Good(g, n)]
<1>2. ASSUME NEW n \in Nat PROVE Good(part[n], n)
  BY <1>1
<1> HIDE DEF part
<1>3. ASSUME NEW n \in Nat PROVE \A i \in 0..n : part[n][i] = part[n + 1][i]
  <2> DEFINE same == {i \in Nat : i <= n => part[n][i] = part[n + 1][i]}
  <2>1. 0 \in same
    BY <1>2
  <2>2. ASSUME NEW i \in Nat, i \in same PROVE i + 1 \in same
    <3>1. CASE i + 1 <= n
      <4>1. part[n][i] = part[n + 1][i]
        BY <2>2, <3>1
      <4>2. part[n][i + 1] = G[<<part[n][(i + 1) - 1], i + 1>>]
        BY <1>2, <3>1
      <4>3. part[n + 1][i + 1] = G[<<part[n + 1][(i + 1) - 1], i + 1>>]
        BY <1>2, <3>1
      <4> QED
        BY <4>1, <4>2, <4>3
    <3>2. CASE ~(i + 1 <= n)
      BY <3>2
    <3> QED BY <3>1, <3>2
  <2> HIDE DEF same
  <2>3. Nat \subseteq same
    BY <2>1, <2>2, SetInduction
  <2> QED
    BY <2>3 DEF same
<1> DEFINE f == [n \in Nat |-> part[n][n]]
<1>4. f \in [Nat -> V] /\ f[0] = a
  BY <1>2
<1>5. ASSUME NEW n \in Nat PROVE f[n + 1] = G[<<f[n], n + 1>>]
  <2>1. f[n + 1] = G[<<part[n + 1][(n + 1) - 1], n + 1>>]
    BY <1>2
  <2>2. part[n + 1][n] = f[n]
    BY <1>3
  <2> QED
    BY <2>1, <2>2
<1> QED
  BY <1>4, <1>5 DEF Iterates

-----------------------------------------------------------------------------
(* Kept is the loop that it stands for: after k turns it has the elements  *)
(* at the positions up to k.                                               *)
Collects(f, X, seq, P) ==
    /\ f \in [Nat -> Seq(X)]
    /\ f[0] = <<>>
    /\ \A n \in Nat : f[n + 1] = IF n + 1 \in P THEN Append(f[n], seq[n + 1]) ELSE f[n]

LEMMA KeptIsLoop ==
    ASSUME NEW X, NEW seq \in Seq(X), NEW P \in SUBSET DOMAIN seq
    PROVE  \E f : Collects(f, X, seq, P) /\ Kept(seq, P) = f[Len(seq)]
<1> DEFINE Turn(x, k) == IF k \in P THEN Append(x, seq[k]) ELSE x
           G == [p \in Seq(X) \X Nat |-> Turn(p[1], p[2])]
           IsLoop(g) == g = [k \in Nat |-> IF k = 0 THEN <<>> ELSE Turn(g[k - 1], k)]
<1>1. \A x \in Seq(X), k \in Nat : Turn(x, k) \in Seq(X)
  OBVIOUS
<1>2. PICK f \in [Nat -> Seq(X)] : f[0] = <<>> /\ \A n \in Nat : f[n + 1] = Turn(f[n], n + 1)
  <2> HIDE DEF Turn
  <2>1. G \in [Seq(X) \X Nat -> Seq(X)]
    BY <1>1
  <2>2. \A x \in Seq(X), k \in Nat : G[<<x, k>>] = Turn(x, k)
    OBVIOUS
  <2> HIDE DEF G
  <2> DEFINE V == Seq(X)
             none == <<>>
  <2>3. none \in V /\ G \in [V \X Nat -> V]
    BY <2>1
  <2> HIDE DEF V, none
  <2>4. PICK f : Iterates(f, V, none, G)
    BY <2>3, Recursion
  <2>5. ASSUME NEW n \in Nat PROVE f[n + 1] = Turn(f[n], n + 1)
    <3>1. f[n] \in Seq(X) /\ n + 1 \in Nat
      BY <2>4 DEF V, Iterates
    <3> QED
      BY <2>2, <2>4, <3>1 DEF Iterates
  <2> QED
    BY <2>4, <2>5 DEF V, none, Iterates
<1> HIDE DEF Turn
<1>3. ASSUME NEW n \in Nat PROVE f[n + 1] = Turn(f[n], n + 1)
  BY <1>2
<1>4. IsLoop(f)
  <2>1. ASSUME NEW k \in Nat, k # 0
        PROVE  f[k] = Turn(f[k - 1], k)
    <3>1. k - 1 \in Nat /\ (k - 1) + 1 = k
      BY <2>1
    <3> QED
      BY <3>1, <1>3
  <2> QED
    BY <1>2, <2>1
<1> DEFINE upTo == CHOOSE g : IsLoop(g)
<1>5. IsLoop(upTo)
  BY <1>4
<1>6. Kept(seq, P) = upTo[Len(seq)]
  BY DEF Kept, Turn
<1> HIDE DEF upTo
<1>7. upTo = f
  <2>1. upTo[0] = f[0] /\ DOMAIN upTo = Nat
    BY <1>5, <1>2
  <2> DEFINE same == {n \in Nat : upTo[n] = f[n]}
  <2>2. ASSUME NEW n \in Nat, n \in same PROVE n + 1 \in same
    <3>1. upTo[n + 1] = Turn(upTo[n], n + 1)
      <4>1. n + 1 \in Nat /\ n + 1 # 0 /\ (n + 1) - 1 = n
        OBVIOUS
      <4>2. upTo[n + 1] = IF n + 1 = 0 THEN <<>> ELSE Turn(upTo[(n + 1) - 1], n + 1)
        <5>1. upTo = [k \in Nat |-> IF k = 0 THEN <<>> ELSE Turn(upTo[k - 1], k)]
          BY <1>5
        <5> QED
          BY ONLY <4>1, <5>1
      <4> QED
        BY <4>1, <4>2
    <3>2. upTo[n] = f[n]
      BY <2>2
    <3>3. f[n + 1] = Turn(f[n], n + 1)
      BY <1>3
    <3> QED
      BY <3>1, <3>2, <3>3
  <2>3. 0 \in same
    BY <2>1
  <2> HIDE DEF same
  <2>4. Nat \subseteq same
    BY <2>2, <2>3, SetInduction
  <2>5. \A n \in Nat : upTo[n] = f[n]
    BY <2>4 DEF same
  <2>6. upTo = [n \in Nat |-> upTo[n]]
    BY <1>5
  <2>7. f = [n \in Nat |-> f[n]]
    BY <1>2
  <2> QED
    BY <2>5, <2>6, <2>7
<1> QED
  BY <1>2, <1>6, <1>7 DEF Turn, Collects

LEMMA AppendedSet ==
    ASSUME NEW X, NEW seq \in Seq(X), NEW x \in X
    PROVE  ToSet(Append(seq, x)) = ToSet(seq) \cup {x}
<1> DEFINE all == Append(seq, x)
<1>1. /\ DOMAIN all = 1..(Len(seq) + 1)
      /\ DOMAIN seq = 1..Len(seq) /\ Len(seq) \in Nat
      /\ \A i \in 1..Len(seq) : all[i] = seq[i]
      /\ all[Len(seq) + 1] = x
  OBVIOUS
<1> HIDE DEF all
<1>2. 1..(Len(seq) + 1) = 1..Len(seq) \cup {Len(seq) + 1}
  BY <1>1
<1>3. ToSet(all) = ToSet(seq) \cup {x}
  BY <1>1, <1>2 DEF ToSet
<1> QED
  BY <1>3 DEF all

LEMMA KeptFacts ==
    ASSUME NEW X, NEW seq \in Seq(X), NEW P \in SUBSET DOMAIN seq
    PROVE  /\ Kept(seq, P) \in Seq(X)
           /\ ToSet(Kept(seq, P)) = {seq[i] : i \in P}
<1>1. PICK f : Collects(f, X, seq, P) /\ Kept(seq, P) = f[Len(seq)]
  BY KeptIsLoop
<1>2. f[0] = <<>> /\ \A n \in Nat : f[n] \in Seq(X)
  BY <1>1 DEF Collects
<1> DEFINE Before(n) == {seq[i] : i \in P \cap 1..n}
           taken == {n \in Nat : n <= Len(seq) => ToSet(f[n]) = Before(n)}
<1>3. 0 \in taken
  <2>1. ToSet(f[0]) = {}
    BY <1>2 DEF ToSet
  <2>2. P \cap 1..0 = {}
    OBVIOUS
  <2> QED
    BY <2>1, <2>2
<1>4. ASSUME NEW n \in Nat, n \in taken PROVE n + 1 \in taken
  <2> SUFFICES ASSUME n + 1 <= Len(seq)
               PROVE  ToSet(f[n + 1]) = Before(n + 1)
    OBVIOUS
  <2>1. ToSet(f[n]) = Before(n)
    BY <1>4
  <2>2. 1..(n + 1) = 1..n \cup {n + 1}
    OBVIOUS
  <2>3. CASE n + 1 \in P
    <3>1. f[n + 1] = Append(f[n], seq[n + 1])
      BY <1>1, <2>3 DEF Collects
    <3>2. f[n] \in Seq(X) /\ seq[n + 1] \in X
      BY <1>2, <2>3
    <3>5. ToSet(f[n + 1]) = ToSet(f[n]) \cup {seq[n + 1]}
      BY <3>1, <3>2, AppendedSet
    <3>3. P \cap 1..(n + 1) = (P \cap 1..n) \cup {n + 1}
      BY <2>2, <2>3
    <3>4. Before(n + 1) = Before(n) \cup {seq[n + 1]}
      BY <3>3
    <3> QED
      BY <2>1, <3>4, <3>5
  <2>4. CASE n + 1 \notin P
    <3>1. P \cap 1..(n + 1) = P \cap 1..n
      BY <2>2, <2>4
    <3>2. f[n + 1] = f[n]
      BY <1>1, <2>4 DEF Collects
    <3> QED
      BY <2>1, <3>1, <3>2
  <2> QED BY <2>3, <2>4
<1>5. Len(seq) \in Nat /\ P \cap 1..Len(seq) = P
  OBVIOUS
<1> HIDE DEF taken
<1>6. Nat \subseteq taken
  BY <1>3, <1>4, SetInduction
<1>7. ToSet(f[Len(seq)]) = Before(Len(seq))
  <2> HIDE DEF Before
  <2>1. Len(seq) \in taken
    BY <1>5, <1>6
  <2> QED
    BY <2>1 DEF taken
<1> QED
  BY <1>1, <1>2, <1>5, <1>7

LEMMA OfKindFacts ==
    ASSUME NEW X, NEW nodes \in Seq(X), NEW kinds
    PROVE  /\ OfKind(nodes, kinds) \in Seq(X)
           /\ ToSet(OfKind(nodes, kinds)) = {n \in ToSet(nodes) : n.kind \in kinds}
<1> DEFINE P == {i \in DOMAIN nodes : nodes[i].kind \in kinds}
<1>1. P \in SUBSET DOMAIN nodes
  OBVIOUS
<1>2. {nodes[i] : i \in P} = {n \in ToSet(nodes) : n.kind \in kinds}
  BY DEF ToSet
<1>3. OfKind(nodes, kinds) = Kept(nodes, P)
  BY DEF OfKind
<1> HIDE DEF P
<1> QED
  BY <1>1, <1>2, <1>3, KeptFacts

-----------------------------------------------------------------------------
(* The walk through an application's graph.                                *)
IsApplication(app) ==
    app.nodes \in Seq(ToSet(app.nodes)) /\ app.edges \in Seq(ToSet(app.edges))

LEMMA StartIsNode ==
    ASSUME NEW app, IsApplication(app), app.nodes # <<>>
    PROVE  StartNode(app) \in NodeIds(app)
<1> DEFINE starts == NodesOfType(app, "start")
<1>1. starts \in Seq(ToSet(app.nodes))
  BY OfKindFacts DEF NodesOfType, IsApplication
<1>2. CASE starts # <<>>
  <2>1. Head(starts) \in ToSet(app.nodes)
    BY <1>1, <1>2
  <2> QED
    BY <1>2, <2>1 DEF StartNode, NodeIds, ToSet
<1>3. CASE starts = <<>>
  <2>1. 1 \in DOMAIN app.nodes /\ Head(app.nodes) = app.nodes[1]
    BY DEF IsApplication
  <2> QED
    BY <1>3, <2>1 DEF StartNode, NodeIds
<1> QED BY <1>2, <1>3

LEMMA FirstTargetIsNext ==
    ASSUME NEW app, IsApplication(app), NEW node, LeadsOn(app, node)
    PROVE  <<node, FirstTarget(app, node)>> \in Edges(app)
<1> DEFINE from == {i \in DOMAIN app.edges : app.edges[i].source = node}
           First(i) == /\ app.edges[i].source = node
                       /\ \A j \in 1..(i - 1) : app.edges[j].source # node
           first == CHOOSE i \in DOMAIN app.edges : First(i)
<1>1. DOMAIN app.edges = 1..Len(app.edges) /\ Len(app.edges) \in Nat
  BY DEF IsApplication
<1>2. from \in SUBSET Nat /\ from # {}
  BY <1>1 DEF LeadsOn
<1>3. PICK i \in from : \A j \in from : i <= j
  <2> HIDE DEF from
  <2> QED BY <1>2, LeastElement
<1>4. i \in DOMAIN app.edges /\ First(i)
  <2>1. ASSUME NEW j \in 1..(i - 1) PROVE app.edges[j].source # node
    <3>1. j \in DOMAIN app.edges /\ ~(i <= j)
      BY <1>1
    <3> QED
      BY <1>3, <3>1
  <2> QED
    BY <2>1
<1>5. first \in DOMAIN app.edges /\ First(first)
  <2> HIDE DEF First
  <2> QED BY <1>4
<1>6. FirstTarget(app, node) = app.edges[first].target
  BY DEF FirstTarget
<1> HIDE DEF first
<1> QED
  BY <1>5, <1>6 DEF Edges

(* One turn of the walk ends it or appends a new node that an edge leads to.*)
LEMMA OnwardFacts ==
    ASSUME NEW app, IsApplication(app), NEW visited
    PROVE  \/ Onward(app, visited) = visited
           \/ \E on \in NodeIds(app) \ ToSet(visited) :
                 /\ <<Last(visited), on>> \in Edges(app)
                 /\ Onward(app, visited) = Append(visited, on)
<1>1. CASE /\ LeadsOn(app, Last(visited))
           /\ FirstTarget(app, Last(visited)) \in NodeIds(app) \ ToSet(visited)
  BY <1>1, FirstTargetIsNext DEF Onward
<1>2. CASE ~ /\ LeadsOn(app, Last(visited))
             /\ FirstTarget(app, Last(visited)) \in NodeIds(app) \ ToSet(visited)
  BY <1>2 DEF Onward
<1> QED BY <1>1, <1>2

Paths(app) == Seq(NodeIds(app)) \ {<<>>}

Walks(f, app) ==
    /\ f \in [Nat -> Paths(app)]
    /\ f[0] = <<StartNode(app)>>
    /\ \A n \in Nat : f[n + 1] = Onward(app, f[n])

LEMMA OnwardIsPath ==
    ASSUME NEW app, IsApplication(app), NEW visited \in Paths(app)
    PROVE  Onward(app, visited) \in Paths(app)
<1>1. CASE Onward(app, visited) = visited
  BY <1>1
<1>2. ASSUME NEW on \in NodeIds(app), Onward(app, visited) = Append(visited, on)
      PROVE  Onward(app, visited) \in Paths(app)
  BY <1>2 DEF Paths
<1> QED BY <1>1, <1>2, OnwardFacts

LEMMA WalkExists ==
    ASSUME NEW app, IsApplication(app), app.nodes # <<>>
    PROVE  Walks(WalkFrom(app), app)
<1> DEFINE V == Paths(app)
           start == <<StartNode(app)>>
           G == [p \in V \X Nat |-> Onward(app, p[1])]
           IsWalk(g) == g = [k \in Nat |-> IF k = 0 THEN start ELSE Onward(app, g[k - 1])]
           walk == CHOOSE g : IsWalk(g)
<1>1. start \in V
  BY StartIsNode DEF Paths
<1>2. G \in [V \X Nat -> V]
  BY OnwardIsPath
<1>3. \A x \in V, k \in Nat : G[<<x, k>>] = Onward(app, x)
  OBVIOUS
<1> HIDE DEF V, start, G
<1>4. PICK f : Iterates(f, V, start, G)
  BY <1>1, <1>2, Recursion
<1>5. ASSUME NEW n \in Nat PROVE f[n + 1] = Onward(app, f[n]) /\ f[n] \in V
  <2>1. f[n] \in V /\ n + 1 \in Nat
    BY <1>4 DEF Iterates
  <2> QED
    BY <1>3, <1>4, <2>1 DEF Iterates
<1>6. IsWalk(f)
  <2>1. ASSUME NEW k \in Nat, k # 0 PROVE f[k] = Onward(app, f[k - 1])
    <3>1. k - 1 \in Nat /\ (k - 1) + 1 = k
      BY <2>1
    <3> QED
      BY <3>1, <1>5
  <2> QED
    BY <1>4, <2>1 DEF Iterates
<1>7. IsWalk(walk)
  BY <1>6
<1>8. WalkFrom(app) = walk
  BY DEF WalkFrom, start
<1> HIDE DEF walk
<1>9. walk[0] = start /\ DOMAIN walk = Nat /\ walk = [n \in Nat |-> walk[n]]
  BY <1>7
<1>10. ASSUME NEW n \in Nat PROVE walk[n + 1] = Onward(app, walk[n])
  BY <1>7
<1> DEFINE in == {n \in Nat : walk[n] \in V}
<1>11. 0 \in in
  BY <1>1, <1>9
<1>12. ASSUME NEW n \in Nat, n \in in PROVE n + 1 \in in
  BY <1>10, <1>12, OnwardIsPath DEF V
<1> HIDE DEF in
<1>13. Nat \subseteq in
  BY <1>11, <1>12, SetInduction
<1>14. \A n \in Nat : walk[n] \in V
  BY <1>13 DEF in
<1> QED
  BY <1>8, <1>9, <1>10, <1>14 DEF Walks, V, start

(* A way from the start along edges, with no node twice.                   *)
IsWay(app, way) ==
    /\ way \in Paths(app)
    /\ way[1] = StartNode(app)
    /\ \A i, j \in 1..Len(way) : way[i] = way[j] => i = j
    /\ \A i \in 1..(Len(way) - 1) : <<way[i], way[i + 1]>> \in Edges(app)

LEMMA PathFacts ==
    ASSUME NEW app, NEW way \in Paths(app)
    PROVE  /\ Len(way) \in Nat /\ Len(way) > 0
           /\ DOMAIN way = 1..Len(way)
           /\ \A i \in 1..Len(way) : way[i] \in NodeIds(app)
           /\ Last(way) = way[Len(way)]
           /\ ToSet(way) = {way[i] : i \in 1..Len(way)}
BY DEF Paths, Last, ToSet

LEMMA WayGrows ==
    ASSUME NEW app, NEW way, IsWay(app, way), NEW on \in NodeIds(app) \ ToSet(way),
           <<Last(way), on>> \in Edges(app)
    PROVE  IsWay(app, Append(way, on))
<1> DEFINE longer == Append(way, on)
<1>1. way \in Paths(app)
  BY DEF IsWay
<1>2. /\ Len(way) \in Nat /\ Len(way) > 0
      /\ Last(way) = way[Len(way)]
      /\ ToSet(way) = {way[i] : i \in 1..Len(way)}
  BY <1>1, PathFacts
<1>3. /\ longer \in Paths(app)
      /\ Len(longer) = Len(way) + 1
      /\ \A i \in 1..Len(way) : longer[i] = way[i]
      /\ longer[Len(way) + 1] = on
  BY <1>1 DEF Paths
<1> HIDE DEF longer
<1>4. longer[1] = StartNode(app)
  BY <1>2, <1>3 DEF IsWay
<1>5. ASSUME NEW i \in 1..Len(longer), NEW j \in 1..Len(longer), longer[i] = longer[j]
      PROVE  i = j
  <2>1. CASE i \in 1..Len(way) /\ j \in 1..Len(way)
    BY <1>3, <1>5, <2>1 DEF IsWay
  <2>2. CASE i = Len(way) + 1 /\ j \in 1..Len(way)
    BY <1>2, <1>3, <1>5, <2>2
  <2>3. CASE i \in 1..Len(way) /\ j = Len(way) + 1
    BY <1>2, <1>3, <1>5, <2>3
  <2>4. CASE i = Len(way) + 1 /\ j = Len(way) + 1
    BY <2>4
  <2> QED BY <1>2, <1>3, <2>1, <2>2, <2>3, <2>4
<1>6. ASSUME NEW i \in 1..(Len(longer) - 1)
      PROVE  <<longer[i], longer[i + 1]>> \in Edges(app)
  <2>1. CASE i = Len(way)
    <3>1. longer[i] = Last(way) /\ longer[i + 1] = on
      BY <1>2, <1>3, <2>1
    <3> QED BY <3>1
  <2>2. CASE i \in 1..(Len(way) - 1)
    <3>1. longer[i] = way[i] /\ longer[i + 1] = way[i + 1]
      BY <1>2, <1>3, <2>2
    <3> QED BY <2>2, <3>1 DEF IsWay
  <2> QED BY <1>2, <1>3, <2>1, <2>2
<1>7. IsWay(app, longer)
  BY <1>3, <1>4, <1>5, <1>6 DEF IsWay
<1> QED
  BY <1>7 DEF longer

LEMMA WalksAreWays ==
    ASSUME NEW app, IsApplication(app), app.nodes # <<>>
    PROVE  \A n \in Nat : IsWay(app, WalkFrom(app)[n])
<1> DEFINE walk == WalkFrom(app)
<1>1. Walks(walk, app)
  BY WalkExists
<1> HIDE DEF walk
<1> DEFINE ways == {n \in Nat : IsWay(app, walk[n])}
<1>2. 0 \in ways
  <2>1. walk[0] \in Paths(app) /\ walk[0] = <<StartNode(app)>>
    BY <1>1 DEF Walks
  <2>2. Len(walk[0]) = 1 /\ walk[0][1] = StartNode(app)
    BY <2>1
  <2>3. IsWay(app, walk[0])
    BY <2>1, <2>2 DEF IsWay
  <2> QED
    BY <2>3
<1>3. ASSUME NEW n \in Nat, n \in ways PROVE n + 1 \in ways
  <2>1. walk[n + 1] = Onward(app, walk[n]) /\ IsWay(app, walk[n])
    BY <1>1, <1>3 DEF Walks
  <2>2. IsWay(app, Onward(app, walk[n]))
    BY <2>1, OnwardFacts, WayGrows
  <2> QED
    BY <2>1, <2>2
<1> HIDE DEF ways
<1>4. Nat \subseteq ways
  BY <1>2, <1>3, SetInduction
<1>5. \A n \in Nat : IsWay(app, walk[n])
  BY <1>4 DEF ways
<1> QED
  BY <1>5 DEF walk

(* A sequence without repetitions has as many elements as positions.       *)
LEMMA DistinctCount ==
    ASSUME NEW n \in Nat, NEW S, NEW f \in Injection(1..n, S)
    PROVE  IsFiniteSet(ToSet(f)) /\ Cardinality(ToSet(f)) = n
<1> DEFINE T == ToSet(f)
<1>1. f \in [1..n -> T]
  BY DEF Injection, ToSet
<1>2. f \in Bijection(1..n, T)
  BY <1>1 DEF Bijection, Injection, Surjection, IsInjective, ToSet
<1> HIDE DEF T
<1>3. IsFiniteSet(1..n) /\ Cardinality(1..n) = n
  <2>1. IsFiniteSet(1..n) /\ Cardinality(1..n) = IF 1 > n THEN 0 ELSE n - 1 + 1
    BY FS_Interval
  <2> QED
    BY <2>1
<1>4. IsFiniteSet(T) /\ Cardinality(T) = Cardinality(1..n)
  <2>1. ExistsBijection(1..n, T)
    BY <1>2 DEF ExistsBijection
  <2> QED
    BY <1>3, <2>1, FS_Bijection
<1> QED
  BY <1>3, <1>4 DEF T

LEMMA NodeIdsAreFew ==
    ASSUME NEW app, IsApplication(app)
    PROVE  /\ [i \in DOMAIN app.nodes |-> app.nodes[i].node]
                 \in Surjection(1..Len(app.nodes), NodeIds(app))
           /\ IsFiniteSet(NodeIds(app))
           /\ Cardinality(NodeIds(app)) <= Len(app.nodes)
<1> DEFINE idOf == [i \in DOMAIN app.nodes |-> app.nodes[i].node]
           N == Len(app.nodes)
<1>1. DOMAIN app.nodes = 1..N /\ N \in Nat
  BY DEF IsApplication
<1>2. idOf \in Surjection(1..N, NodeIds(app))
  BY <1>1 DEF Surjection, NodeIds
<1> HIDE DEF idOf, N
<1>3. IsFiniteSet(1..N) /\ Cardinality(1..N) = N
  BY <1>1, FS_Interval
<1>4. IsFiniteSet(NodeIds(app)) /\ Cardinality(NodeIds(app)) <= Cardinality(1..N)
  BY <1>2, <1>3, FS_Surjection
<1> QED
  BY <1>2, <1>3, <1>4 DEF idOf, N

LEMMA WaysAreWays ==
    ASSUME NEW app, IsApplication(app), NEW way
    PROVE  way \in Ways(app) <=> IsWay(app, way)
<1>1. ASSUME way \in Ways(app) PROVE IsWay(app, way)
  <2>1. PICK s \in SUBSET NodeIds(app) : way \in SetToSeqs(s)
    BY <1>1 DEF Ways, SetToAllKPermutations
  <2>2. Cardinality(s) \in Nat
    BY NodeIdsAreFew, FS_Subset, FS_CardinalityType
  <2>3. PICK n \in Nat : /\ way \in [1..n -> s]
                         /\ \A i, j \in 1..n : i # j => way[i] # way[j]
    BY <2>1, <2>2 DEF SetToSeqs
  <2>4. way \in Seq(NodeIds(app)) /\ Len(way) = n
    BY <2>3
  <2> QED
    BY <1>1, <2>3, <2>4 DEF Ways, IsWay, Paths
<1>2. ASSUME IsWay(app, way) PROVE way \in Ways(app)
  <2> DEFINE s == ToSet(way)
  <2>1. /\ way \in Paths(app) /\ Len(way) \in Nat /\ way \in [1..Len(way) -> s]
        /\ s \in SUBSET NodeIds(app)
    BY <1>2 DEF IsWay, Paths, ToSet
  <2>2. \A i, j \in 1..Len(way) : way[i] = way[j] => i = j
    BY <1>2 DEF IsWay
  <2>3. Cardinality(s) = Len(way)
    <3>1. way \in Injection(1..Len(way), s)
      BY <2>1, <2>2 DEF Injection, IsInjective
    <3> QED
      BY <2>1, <3>1, DistinctCount
  <2> HIDE DEF s
  <2>4. way \in SetToSeqs(s)
    BY <2>1, <2>2, <2>3 DEF SetToSeqs
  <2>5. way \in SetToAllKPermutations(NodeIds(app))
    BY <2>1, <2>4 DEF SetToAllKPermutations
  <2> QED
    BY <1>2, <2>1, <2>5 DEF Ways, IsWay, Paths
<1> QED BY <1>1, <1>2

(* A single path is walked from one end to the other.                      *)
LEMMA SinglePathFacts ==
    ASSUME NEW app, IsApplication(app), NEW way \in SinglePath(app)
    PROVE  /\ IsWay(app, way)
           /\ Len(way) = Len(app.nodes)
           /\ \A i \in 1..(Len(way) - 1) :
                 LeadsOn(app, way[i]) /\ FirstTarget(app, way[i]) = way[i + 1]
           /\ ~LeadsOn(app, way[Len(way)])
<1> DEFINE N == Len(way)
<1>1. IsWay(app, way) /\ Len(way) = Len(app.nodes)
  BY WaysAreWays DEF SinglePath
<1>2. Edges(app) = {<<way[i], way[i + 1]>> : i \in 1..(N - 1)}
  BY DEF SinglePath
<1>3. N \in Nat /\ N > 0
  BY <1>1, PathFacts DEF IsWay
<1>4. \A i, j \in 1..N : way[i] = way[j] => i = j
  BY <1>1 DEF IsWay
<1> HIDE DEF N
<1>5. ASSUME NEW i \in 1..N, LeadsOn(app, way[i])
      PROVE  i \in 1..(N - 1) /\ FirstTarget(app, way[i]) = way[i + 1]
  <2>1. <<way[i], FirstTarget(app, way[i])>> \in Edges(app)
    BY <1>5, FirstTargetIsNext
  <2>2. PICK j \in 1..(N - 1) : way[j] = way[i] /\ way[j + 1] = FirstTarget(app, way[i])
    BY <1>2, <2>1
  <2>3. j \in 1..N
    BY <1>3
  <2>4. j = i
    BY <1>4, <2>2, <2>3
  <2> QED
    BY <2>2, <2>4
<1>6. ASSUME NEW i \in 1..(N - 1) PROVE LeadsOn(app, way[i])
  <2>1. <<way[i], way[i + 1]>> \in Edges(app)
    BY <1>2
  <2>2. PICK e \in DOMAIN app.edges :
            <<app.edges[e].source, app.edges[e].target>> = <<way[i], way[i + 1]>>
    BY <2>1 DEF Edges
  <2> QED
    BY <2>2 DEF LeadsOn
<1>7. ASSUME NEW i \in 1..(N - 1)
      PROVE  LeadsOn(app, way[i]) /\ FirstTarget(app, way[i]) = way[i + 1]
  BY <1>3, <1>5, <1>6
<1>8. ~LeadsOn(app, way[N])
  BY <1>3, <1>5
<1> QED
  BY <1>1, <1>7, <1>8 DEF N

LEMMA SinglePathIsWalked ==
    ASSUME NEW app, IsApplication(app), app.nodes # <<>>, NEW way \in SinglePath(app)
    PROVE  Walk(app) = way
<1> DEFINE walk == WalkFrom(app)
           N == Len(way)
<1>1. Walks(walk, app) /\ \A n \in Nat : IsWay(app, walk[n])
  BY WalkExists, WalksAreWays
<1>2. /\ IsWay(app, way)
      /\ N = Len(app.nodes)
      /\ \A i \in 1..(N - 1) : LeadsOn(app, way[i]) /\ FirstTarget(app, way[i]) = way[i + 1]
      /\ ~LeadsOn(app, way[N])
  BY SinglePathFacts
<1>3. /\ N \in Nat /\ N > 0
      /\ \A i \in 1..N : way[i] \in NodeIds(app)
      /\ \A i, j \in 1..N : way[i] = way[j] => i = j
      /\ way \in Seq(NodeIds(app))
      /\ Last(way) = way[N]
  BY <1>2, PathFacts DEF IsWay, Paths
<1> HIDE DEF walk, N
<1> DEFINE Reaches(n) == Len(walk[n]) = n + 1 /\ \A i \in 1..(n + 1) : walk[n][i] = way[i]
           reached == {n \in Nat : n < N => Reaches(n)}
<1>4. 0 \in reached
  <2>1. walk[0] = <<StartNode(app)>> /\ way[1] = StartNode(app)
    BY <1>1, <1>2 DEF Walks, IsWay
  <2>2. Len(walk[0]) = 1 /\ walk[0][1] = way[1]
    BY <2>1
  <2>3. Reaches(0)
    BY <2>2
  <2> QED
    BY <2>3
<1>5. ASSUME NEW n \in Nat, n \in reached PROVE n + 1 \in reached
  <2> SUFFICES ASSUME n + 1 < N PROVE Reaches(n + 1)
    OBVIOUS
  <2> DEFINE on == way[n + 2]
  <2>1. Reaches(n)
    BY <1>3, <1>5
  <2>2. walk[n] \in Paths(app)
    BY <1>1 DEF Walks
  <2>3. Last(walk[n]) = way[n + 1] /\ ToSet(walk[n]) = {way[i] : i \in 1..(n + 1)}
    <3>1. /\ Last(walk[n]) = walk[n][Len(walk[n])]
          /\ ToSet(walk[n]) = {walk[n][i] : i \in 1..Len(walk[n])}
      BY <2>2, PathFacts
    <3>2. {walk[n][i] : i \in 1..(n + 1)} = {way[i] : i \in 1..(n + 1)}
      BY <2>1
    <3>3. Last(walk[n]) = way[n + 1]
      <4>1. n + 1 \in 1..(n + 1)
        OBVIOUS
      <4>2. walk[n][n + 1] = way[n + 1]
        BY <2>1, <4>1
      <4>3. Last(walk[n]) = walk[n][n + 1]
        BY <2>1, <3>1
      <4> QED
        BY ONLY <4>2, <4>3
    <3>4. ToSet(walk[n]) = {walk[n][i] : i \in 1..(n + 1)}
      BY <2>1, <3>1
    <3> QED
      BY ONLY <3>2, <3>3, <3>4
  <2>4. LeadsOn(app, way[n + 1]) /\ FirstTarget(app, way[n + 1]) = on
    <3>1. n + 1 \in 1..(N - 1) /\ (n + 1) + 1 = n + 2
      BY <1>3
    <3>2. /\ LeadsOn(app, way[n + 1])
          /\ FirstTarget(app, way[n + 1]) = way[(n + 1) + 1]
      <4> HIDE DEF on
      <4> QED
        BY ONLY <1>2, <3>1
    <3> QED
      BY ONLY <3>1, <3>2
  <2>5. on \in NodeIds(app) \ ToSet(walk[n])
    <3>1. n + 2 \in 1..N
      BY <1>3
    <3>2. \A i \in 1..(n + 1) : i \in 1..N /\ i # n + 2
      BY <1>3
    <3> QED
      BY <1>3, <2>3, <3>1, <3>2
  <2> HIDE DEF on
  <2>6. Onward(app, walk[n]) = Append(walk[n], on)
    BY <2>3, <2>4, <2>5 DEF Onward
  <2>7. walk[n + 1] = Append(walk[n], on)
    BY <1>1, <2>6 DEF Walks
  <2>8. Len(walk[n + 1]) = n + 2
    BY <2>1, <2>2, <2>7 DEF Paths
  <2>9. ASSUME NEW i \in 1..(n + 2) PROVE walk[n + 1][i] = way[i]
    <3>1. CASE i \in 1..(n + 1)
      <4>1. walk[n + 1][i] = walk[n][i]
        BY <2>1, <2>2, <2>7, <3>1 DEF Paths
      <4> QED
        BY <2>1, <3>1, <4>1
    <3>2. CASE i = n + 2
      BY <2>1, <2>2, <2>7, <3>2 DEF Paths, on
    <3> QED BY <3>1, <3>2
  <2> QED
    BY <2>8, <2>9
<1> HIDE DEF reached
<1>6. Nat \subseteq reached
  BY <1>4, <1>5, SetInduction
<1>7. walk[N - 1] = way
  <2>1. N - 1 \in Nat /\ N - 1 < N /\ (N - 1) + 1 = N
    BY <1>3
  <2>2. Reaches(N - 1)
    BY <1>6, <2>1 DEF reached
  <2>3. Len(walk[N - 1]) = N /\ \A i \in 1..N : walk[N - 1][i] = way[i]
    BY <2>1, <2>2
  <2>4. walk[N - 1] \in Seq(NodeIds(app))
    BY <1>1, <2>1 DEF Walks, Paths
  <2> QED
    BY <1>3, <2>3, <2>4 DEF N
<1>8. walk[N] = way
  <2>1. N - 1 \in Nat /\ (N - 1) + 1 = N
    BY <1>3
  <2>2. walk[(N - 1) + 1] = Onward(app, walk[N - 1])
    BY <1>1, <2>1 DEF Walks
  <2>3. Onward(app, way) = way
    BY <1>2, <1>3 DEF Onward
  <2> QED
    BY <1>7, <2>1, <2>2, <2>3
<1> QED
  BY <1>2, <1>8 DEF Walk, walk

LEMMA SinglePathHasAllNodes ==
    ASSUME NEW app, IsApplication(app), NEW way \in SinglePath(app), NEW i \in DOMAIN app.nodes
    PROVE  \E j \in 1..Len(way) : NodeOf(app, way[j]) = app.nodes[i]
<1> DEFINE N == Len(app.nodes)
           ids == NodeIds(app)
           idOf == [k \in DOMAIN app.nodes |-> app.nodes[k].node]
<1>1. DOMAIN app.nodes = 1..N /\ N \in Nat
  BY DEF IsApplication
<1>2. way \in Injection(1..N, ids) /\ Len(way) = N
  <2>1. IsWay(app, way) /\ Len(way) = N
    BY SinglePathFacts
  <2> QED
    BY <2>1 DEF IsWay, Paths, Injection, IsInjective
<1>3. idOf \in Surjection(1..N, ids) /\ IsFiniteSet(ids) /\ Cardinality(ids) <= N
  BY NodeIdsAreFew
<1> HIDE DEF idOf, ids
<1>4. IsFiniteSet(1..N) /\ Cardinality(1..N) = N
  <2>1. IsFiniteSet(1..N) /\ Cardinality(1..N) = IF 1 > N THEN 0 ELSE N - 1 + 1
    BY <1>1, FS_Interval
  <2> QED
    BY <1>1, <2>1
<1> HIDE DEF N
<1>5. Cardinality(1..N) <= Cardinality(ids)
      /\ (Cardinality(1..N) = Cardinality(ids) <=> way \in Surjection(1..N, ids))
  BY <1>2, <1>3, FS_Injection
<1>6. Cardinality(ids) = N /\ Cardinality(ids) \in Nat
  BY <1>1, <1>3, <1>4, <1>5, FS_CardinalityType
<1>7. way \in Surjection(1..N, ids)
  BY <1>4, <1>5, <1>6
<1>8. idOf \in Injection(1..N, ids)
  BY <1>3, <1>4, <1>6, FS_SurjSameCardinalityImpliesInj
<1>9. \A j, k \in 1..N : app.nodes[j].node = app.nodes[k].node => j = k
  BY <1>1, <1>8 DEF idOf, Injection, IsInjective
<1>10. PICK j \in 1..N : way[j] = app.nodes[i].node
  BY <1>1, <1>7 DEF ids, NodeIds, Surjection
<1> DEFINE Found(k) == /\ app.nodes[k].node = way[j]
                        /\ \A l \in (k + 1)..Len(app.nodes) : app.nodes[l].node # way[j]
           found == CHOOSE k \in DOMAIN app.nodes : Found(k)
<1>11. Found(i)
  BY <1>1, <1>9, <1>10 DEF N
<1>12. found \in DOMAIN app.nodes /\ Found(found)
  <2> HIDE DEF Found
  <2> QED BY <1>11
<1>13. found = i
  <2> HIDE DEF found
  <2> QED BY <1>1, <1>9, <1>10, <1>12
<1>14. NodeOf(app, way[j]) = app.nodes[found]
  BY DEF NodeOf
<1> QED
  BY <1>2, <1>10, <1>13, <1>14

LEMMA NoTitles ==
    ASSUME NEW X, NEW nodes \in Seq(X)
    PROVE  StepTitles(nodes) = <<>> <=> \A n \in ToSet(nodes) : n.kind \notin CapabilityKinds
<1> DEFINE steps == OfKind(nodes, CapabilityKinds)
<1>1. steps \in Seq(X) /\ ToSet(steps) = {n \in ToSet(nodes) : n.kind \in CapabilityKinds}
  BY OfKindFacts
<1>2. StepTitles(nodes) = [i \in DOMAIN steps |-> StepTitle(steps[i])]
  BY DEF StepTitles, Each
<1> HIDE DEF steps
<1>3. StepTitles(nodes) = <<>> <=> DOMAIN steps = {}
  BY <1>1, <1>2
<1>4. DOMAIN steps = {} <=> ToSet(steps) = {}
  BY DEF ToSet
<1> QED
  BY <1>1, <1>3, <1>4

(* If the graph is a single path the steps of the workflow are those of    *)
(* all of it in execution order, for every application.                    *)
LEMMA StepsAreInOrder ==
    ASSUME NEW app, IsApplication(app), app.nodes # <<>>
    PROVE  \A way \in SinglePath(app) : OrderedSteps(app) = Titles(app, way)
<1> SUFFICES ASSUME NEW way \in SinglePath(app)
             PROVE  OrderedSteps(app) = Titles(app, way)
  OBVIOUS
<1> DEFINE nodes == [i \in DOMAIN way |-> NodeOf(app, way[i])]
<1>1. Walk(app) = way
  BY SinglePathIsWalked
<1>2. Titles(app, way) = StepTitles(nodes)
  BY DEF Titles, Each
<1>3. nodes \in Seq(ToSet(nodes)) /\ DOMAIN way = 1..Len(way)
  <2>1. DOMAIN way = 1..Len(way) /\ Len(way) \in Nat
    BY SinglePathFacts, PathFacts DEF IsWay
  <2> QED
    BY <2>1 DEF ToSet
<1>4. ASSUME Titles(app, way) = <<>> PROVE DocumentSteps(app) = <<>>
  <2>1. \A n \in ToSet(nodes) : n.kind \notin CapabilityKinds
    <3> HIDE DEF nodes
    <3> QED BY <1>2, <1>3, <1>4, NoTitles
  <2>2. ASSUME NEW i \in DOMAIN app.nodes PROVE app.nodes[i].kind \notin CapabilityKinds
    <3>1. PICK j \in 1..Len(way) : NodeOf(app, way[j]) = app.nodes[i]
      BY SinglePathHasAllNodes
    <3>2. app.nodes[i] \in ToSet(nodes)
      BY <1>3, <3>1 DEF ToSet
    <3> QED
      BY <2>1, <3>2
  <2>3. \A n \in ToSet(app.nodes) : n.kind \notin CapabilityKinds
    BY <2>2 DEF ToSet
  <2> QED
    BY <2>3, NoTitles DEF DocumentSteps, IsApplication
<1>5. OrderedSteps(app) = Titles(app, way)
  BY <1>1, <1>4 DEF OrderedSteps, FirstNonEmpty
<1> QED
  BY <1>5

-----------------------------------------------------------------------------
(* What Map lists, and in which order.                                     *)
IsList(seq) == seq \in Seq(ToSet(seq))

LEMMA ListFacts ==
    ASSUME NEW seq, IsList(seq)
    PROVE  /\ Len(seq) \in Nat /\ DOMAIN seq = 1..Len(seq)
           /\ RefsTo(seq) = {RefTo(seq[i]) : i \in 1..Len(seq)}
<1>1. Len(seq) \in Nat /\ DOMAIN seq = 1..Len(seq)
  BY DEF IsList
<1> QED
  BY <1>1 DEF RefsTo

LEMMA SeqIsList ==
    ASSUME NEW X, NEW seq \in Seq(X)
    PROVE  IsList(seq)
<1>1. DOMAIN seq = 1..Len(seq) /\ Len(seq) \in Nat /\ seq = [i \in 1..Len(seq) |-> seq[i]]
  OBVIOUS
<1>2. seq \in [1..Len(seq) -> ToSet(seq)]
  BY <1>1 DEF ToSet
<1> QED
  BY <1>1, <1>2 DEF IsList

LEMMA FunctionIsList ==
    ASSUME NEW N \in Nat, NEW f, f = [i \in 1..N |-> f[i]]
    PROVE  IsList(f) /\ Len(f) = N /\ DOMAIN f = 1..N
<1>1. DOMAIN f = 1..N
  OBVIOUS
<1>2. f \in [1..N -> ToSet(f)]
  BY <1>1 DEF ToSet
<1>3. f \in Seq(ToSet(f)) /\ Len(f) = N
  BY <1>2
<1> QED
  BY <1>1, <1>3 DEF IsList

LEMMA Joined ==
    ASSUME NEW s, NEW t, IsList(s), IsList(t)
    PROVE  /\ IsList(s \o t)
           /\ Len(s \o t) = Len(s) + Len(t)
           /\ \A i \in 1..Len(s) : (s \o t)[i] = s[i]
           /\ \A i \in 1..Len(t) : (s \o t)[Len(s) + i] = t[i]
<1> DEFINE X == ToSet(s) \cup ToSet(t)
<1>1. s \in Seq(X) /\ t \in Seq(X)
  BY DEF IsList, ToSet
<1> HIDE DEF X
<1> DEFINE u == s \o t
<1>2. /\ u \in Seq(X)
      /\ Len(u) = Len(s) + Len(t)
      /\ \A i \in 1..Len(s) : u[i] = s[i]
      /\ \A i \in 1..Len(t) : u[Len(s) + i] = t[i]
  BY <1>1
<1> HIDE DEF u
<1>3. IsList(u)
  BY <1>2, SeqIsList
<1> QED
  BY <1>2, <1>3 DEF u

(* Every reference is to an element before.                                *)
NamedBefore(seq, k, ref) ==
    \E j \in 1..(k - 1) : seq[j].id = ref.id /\ seq[j].type = ref.type

NamesTargetsFirst(seq) ==
    \A k \in DOMAIN seq : \A ref \in seq[k].refs : NamedBefore(seq, k, ref)

LEMMA JoinedNamesTargetsFirst ==
    ASSUME NEW s, NEW t, IsList(s), IsList(t), NamesTargetsFirst(s),
           \A k \in DOMAIN t : \A ref \in t[k].refs :
               ref \in RefsTo(s) \/ NamedBefore(t, k, ref)
    PROVE  NamesTargetsFirst(s \o t)
<1> DEFINE u == s \o t
<1>1. /\ IsList(u)
      /\ Len(u) = Len(s) + Len(t)
      /\ \A i \in 1..Len(s) : u[i] = s[i]
      /\ \A i \in 1..Len(t) : u[Len(s) + i] = t[i]
  BY Joined
<1>2. /\ Len(s) \in Nat /\ DOMAIN s = 1..Len(s) /\ RefsTo(s) = {RefTo(s[i]) : i \in 1..Len(s)}
      /\ Len(t) \in Nat /\ DOMAIN t = 1..Len(t)
      /\ DOMAIN u = 1..Len(u)
  BY <1>1, ListFacts
<1> HIDE DEF u
<1>3. ASSUME NEW k \in DOMAIN u, NEW ref \in u[k].refs PROVE NamedBefore(u, k, ref)
  <2>1. CASE k \in 1..Len(s)
    <3>1. PICK j \in 1..(k - 1) : s[j].id = ref.id /\ s[j].type = ref.type
      BY <1>1, <1>2, <1>3, <2>1 DEF NamesTargetsFirst, NamedBefore
    <3>2. u[j] = s[j]
      BY <1>1, <1>2, <2>1
    <3> QED
      BY <3>1, <3>2 DEF NamedBefore
  <2>2. CASE k \notin 1..Len(s)
    <3>1. PICK i \in 1..Len(t) : k = Len(s) + i
      <4>1. k - Len(s) \in 1..Len(t) /\ k = Len(s) + (k - Len(s))
        BY <1>1, <1>2, <2>2
      <4> QED BY <4>1
    <3>2. ref \in t[i].refs /\ i \in DOMAIN t
      BY <1>1, <1>2, <1>3, <3>1
    <3>3. CASE ref \in RefsTo(s)
      <4>1. PICK j \in 1..Len(s) : ref = RefTo(s[j])
        BY <1>2, <3>3
      <4>2. j \in 1..(k - 1) /\ u[j] = s[j]
        BY <1>1, <1>2, <3>1
      <4> QED
        BY <4>1, <4>2 DEF NamedBefore, RefTo
    <3>4. CASE NamedBefore(t, i, ref)
      <4>1. PICK j \in 1..(i - 1) : t[j].id = ref.id /\ t[j].type = ref.type
        BY <3>4 DEF NamedBefore
      <4>2. Len(s) + j \in 1..(k - 1) /\ u[Len(s) + j] = t[j]
        BY <1>1, <1>2, <3>1
      <4> QED
        BY <4>1, <4>2 DEF NamedBefore
    <3> QED BY <3>2, <3>3, <3>4
  <2> QED BY <2>1, <2>2
<1>4. NamesTargetsFirst(u)
  BY <1>3 DEF NamesTargetsFirst
<1> QED
  BY <1>4 DEF u

(* The parts of the list: only the workflow is a workflow.                 *)
LEMMA NodesAreList ==
    ASSUME NEW app, IsApplication(app), NEW kinds
    PROVE  IsList(OfKind(app.nodes, kinds))
<1>1. OfKind(app.nodes, kinds) \in Seq(ToSet(app.nodes))
  BY OfKindFacts DEF IsApplication
<1> QED
  BY <1>1, SeqIsList

Refless(seq, type) ==
    /\ IsList(seq)
    /\ \A i \in 1..Len(seq) : seq[i].type = type /\ seq[i].refs = {}

LEMMA ProvisionedFacts ==
    ASSUME NEW app, NEW type, NEW nodes, IsList(nodes), NEW out,
           out = [i \in DOMAIN nodes |-> Provisioned(app, type, nodes[i])]
    PROVE  Refless(out, type)
<1>1. Len(nodes) \in Nat /\ DOMAIN nodes = 1..Len(nodes)
  BY ListFacts
<1>2. DOMAIN out = 1..Len(nodes) /\ out = [i \in 1..Len(nodes) |-> out[i]]
  BY <1>1
<1>3. ASSUME NEW i \in 1..Len(nodes) PROVE out[i].type = type /\ out[i].refs = {}
  <2>1. out[i] = Provisioned(app, type, nodes[i])
    BY <1>1
  <2> QED
    BY <2>1 DEF Provisioned, Candidate
<1>4. IsList(out) /\ Len(out) = Len(nodes)
  BY <1>1, <1>2, FunctionIsList
<1> QED
  BY <1>3, <1>4 DEF Refless

LEMMA ToolsAndKnowledge ==
    ASSUME NEW app, IsApplication(app)
    PROVE  Refless(Tools(app), "tool") /\ Refless(Knowledge(app), "knowledge_data")
<1> DEFINE tools == ToolLikeNodes(app)
           data == NodesOfType(app, "knowledge-retrieval")
<1>1. IsList(tools) /\ IsList(data)
  BY NodesAreList, Joined DEF ToolLikeNodes, NodesOfType
<1>2. /\ Tools(app) = [i \in DOMAIN tools |-> Provisioned(app, "tool", tools[i])]
      /\ Knowledge(app) = [i \in DOMAIN data |-> Provisioned(app, "knowledge_data", data[i])]
  BY DEF Tools, Knowledge, Each
<1> HIDE DEF tools, data
<1>3. Refless(Tools(app), "tool")
  BY <1>1, <1>2, ProvisionedFacts
<1>4. Refless(Knowledge(app), "knowledge_data")
  BY <1>1, <1>2, ProvisionedFacts
<1> QED BY <1>3, <1>4

LEMMA PromptsAndSkillsFacts ==
    ASSUME NEW app, IsApplication(app)
    PROVE  /\ IsList(PromptsAndSkills(app))
           /\ \A k \in DOMAIN PromptsAndSkills(app) :
                /\ PromptsAndSkills(app)[k].type \in {"prompt_template", "skill"}
                /\ \A ref \in PromptsAndSkills(app)[k].refs :
                      \/ ref \in RefsTo(Tools(app) \o Knowledge(app))
                      \/ NamedBefore(PromptsAndSkills(app), k, ref)
<1> DEFINE llm == NodesOfType(app, "llm")
           N == 2 * Len(llm)
           out == PromptsAndSkills(app)
<1>1. Len(llm) \in Nat
  BY NodesAreList, ListFacts DEF NodesOfType
<1>2. out = [k \in 1..N |-> IF k % 2 = 1 THEN Prompt(app, llm[(k + 1) \div 2])
                                        ELSE Skill(app, llm[k \div 2])]
  BY DEF PromptsAndSkills
<1>3. N \in Nat
  BY <1>1
<1> HIDE DEF out, llm
<1>4. ASSUME NEW k \in 1..N, k % 2 # 1
      PROVE  k - 1 \in 1..N /\ (k - 1) % 2 = 1 /\ ((k - 1) + 1) \div 2 = k \div 2
  BY <1>3, <1>4
<1> HIDE DEF N
<1>5. IsList(out) /\ DOMAIN out = 1..N
  <2>1. out = [k \in 1..N |-> out[k]]
    BY <1>2
  <2> QED
    BY <1>3, <2>1, FunctionIsList
<1>6. ASSUME NEW k \in 1..N, k % 2 = 1
      PROVE  out[k].type = "prompt_template" /\ out[k].refs = {}
  BY <1>2, <1>6 DEF Prompt, Candidate
<1>7. ASSUME NEW k \in 1..N, k % 2 # 1, NEW ref \in out[k].refs
      PROVE  ref \in RefsTo(Tools(app) \o Knowledge(app)) \/ NamedBefore(out, k, ref)
  <2> DEFINE n == llm[k \div 2]
  <2>1. out[k] = Skill(app, n)
    BY <1>2, <1>7
  <2>2. out[k - 1] = Prompt(app, n)
    BY <1>2, <1>4, <1>7
  <2>3. ref \in RefsTo(Tools(app) \o Knowledge(app)) \/ ref = RefTo(out[k - 1])
    BY <1>7, <2>1, <2>2 DEF Skill, Candidate
  <2>4. k - 1 \in 1..(k - 1)
    BY <1>3, <1>4, <1>7
  <2> QED
    BY <2>3, <2>4 DEF NamedBefore, RefTo
<1>8. ASSUME NEW k \in 1..N, k % 2 # 1 PROVE out[k].type = "skill"
  BY <1>2, <1>8 DEF Skill, Candidate
<1> QED
  BY <1>5, <1>6, <1>7, <1>8 DEF out

(* The workflows of a list are that of the application.                    *)
FlowsOf(app, seq) ==
    \A k \in DOMAIN seq : seq[k].type = "workflow" =>
        /\ app.nodes # <<>>
        /\ seq[k].id = Slugify(WorkflowName(app))
        /\ seq[k].steps = OrderedSteps(app)

LEMMA JoinedFlows ==
    ASSUME NEW app, NEW s, NEW t, IsList(s), IsList(t), FlowsOf(app, s), FlowsOf(app, t)
    PROVE  FlowsOf(app, s \o t)
<1> DEFINE u == s \o t
<1>1. /\ IsList(u)
      /\ Len(u) = Len(s) + Len(t)
      /\ \A i \in 1..Len(s) : u[i] = s[i]
      /\ \A i \in 1..Len(t) : u[Len(s) + i] = t[i]
  BY Joined
<1>2. /\ Len(s) \in Nat /\ DOMAIN s = 1..Len(s)
      /\ Len(t) \in Nat /\ DOMAIN t = 1..Len(t)
      /\ DOMAIN u = 1..Len(u)
  BY <1>1, ListFacts
<1> HIDE DEF u
<1>3. ASSUME NEW k \in DOMAIN u
      PROVE  (\E i \in DOMAIN s : u[k] = s[i]) \/ (\E i \in DOMAIN t : u[k] = t[i])
  <2>1. CASE k \in 1..Len(s)
    BY <1>1, <1>2, <2>1
  <2>2. CASE k \notin 1..Len(s)
    <3>1. k - Len(s) \in 1..Len(t) /\ k = Len(s) + (k - Len(s))
      BY <1>1, <1>2, <2>2
    <3>2. u[k] = t[k - Len(s)]
      BY <1>1, <3>1
    <3> QED BY <1>2, <3>1, <3>2
  <2> QED BY <2>1, <2>2
<1>4. FlowsOf(app, u)
  BY <1>3 DEF FlowsOf
<1> QED
  BY <1>4 DEF u

(* "Tools, knowledge and prompts first": whatever an application's         *)
(* candidates refer to is listed before them.                              *)
LEMMA MapFacts ==
    ASSUME NEW app, IsApplication(app)
    PROVE  /\ IsList(Map(app))
           /\ NamesTargetsFirst(Map(app))
           /\ FlowsOf(app, Map(app))
<1> DEFINE tools == Tools(app)
           data == Knowledge(app)
           skills == PromptsAndSkills(app)
           flows == Workflows(app)
           agents == Agents(app)
<1>1. Refless(tools, "tool") /\ Refless(data, "knowledge_data")
  BY ToolsAndKnowledge
<1>2. /\ IsList(skills)
      /\ \A k \in DOMAIN skills :
           /\ skills[k].type \in {"prompt_template", "skill"}
           /\ \A ref \in skills[k].refs : ref \in RefsTo(tools \o data) \/ NamedBefore(skills, k, ref)
  BY PromptsAndSkillsFacts
<1>3. Map(app) = ((tools \o data) \o skills \o flows) \o agents
  BY DEF Map, Bound
<1>4. /\ IsList(flows)
      /\ \A k \in DOMAIN flows :
           /\ flows[k].refs = RefsTo((tools \o data) \o skills)
           /\ app.nodes # <<>>
           /\ flows[k].id = Slugify(WorkflowName(app))
           /\ flows[k].steps = OrderedSteps(app)
  <2>1. CASE Len(app.nodes) < 2
    <3>1. flows = <<>>
      BY <2>1 DEF Workflows
    <3> QED
      BY <3>1 DEF IsList
  <2>2. CASE ~(Len(app.nodes) < 2)
    <3> DEFINE c == Candidate("workflow", Slugify(WorkflowName(app)), RefsTo(Bound(app)),
                              NoNode, OrderedSteps(app))
    <3>1. flows = <<c>>
      BY <2>2 DEF Workflows
    <3>2. /\ c.refs = RefsTo((tools \o data) \o skills)
          /\ c.id = Slugify(WorkflowName(app))
          /\ c.steps = OrderedSteps(app)
      BY DEF Candidate, Bound
    <3> HIDE DEF c
    <3>3. flows \in Seq({c}) /\ DOMAIN flows = {1} /\ flows[1] = c
      BY <3>1
    <3>4. app.nodes # <<>>
      BY <2>2
    <3> QED
      BY <3>2, <3>3, <3>4, SeqIsList
  <2> QED BY <2>1, <2>2
<1>5. /\ IsList(agents)
      /\ \A k \in DOMAIN agents :
           /\ agents[k].refs = RefsTo((tools \o data) \o skills \o flows)
           /\ agents[k].type = "agent"
  <2>1. CASE ~app.agentMode
    <3>1. agents = <<>>
      BY <2>1 DEF Agents
    <3> QED
      BY <3>1 DEF IsList
  <2>2. CASE app.agentMode
    <3> DEFINE c == Candidate("agent", Slugify(app.name), RefsTo(Bound(app) \o Workflows(app)),
                              NoNode, <<>>)
    <3>1. agents = <<c>>
      BY <2>2 DEF Agents
    <3>2. c.refs = RefsTo((tools \o data) \o skills \o flows) /\ c.type = "agent"
      BY DEF Candidate, Bound
    <3> HIDE DEF c
    <3>3. agents \in Seq({c}) /\ DOMAIN agents = {1} /\ agents[1] = c
      BY <3>1
    <3> QED
      BY <3>2, <3>3, SeqIsList
  <2> QED BY <2>1, <2>2
<1> HIDE DEF tools, data, skills, flows, agents
<1> DEFINE bound == tools \o data
           all == bound \o skills
           most == all \o flows
<1>6. IsList(tools) /\ IsList(data) /\ NamesTargetsFirst(tools)
      /\ \A k \in DOMAIN data : data[k].refs = {}
  BY <1>1, ListFacts DEF Refless, NamesTargetsFirst
<1>7. IsList(bound) /\ NamesTargetsFirst(bound)
  BY <1>6, Joined, JoinedNamesTargetsFirst
<1>8. FlowsOf(app, tools) /\ FlowsOf(app, data) /\ FlowsOf(app, skills)
      /\ FlowsOf(app, flows) /\ FlowsOf(app, agents)
  <2>1. FlowsOf(app, tools) /\ FlowsOf(app, data)
    BY <1>1, ListFacts DEF Refless, FlowsOf
  <2>2. FlowsOf(app, skills)
    BY <1>2 DEF FlowsOf
  <2>3. FlowsOf(app, flows) /\ FlowsOf(app, agents)
    BY <1>4, <1>5 DEF FlowsOf
  <2> QED BY <2>1, <2>2, <2>3
<1>9. FlowsOf(app, bound)
  BY <1>6, <1>8, JoinedFlows
<1> HIDE DEF bound
<1>10. IsList(all) /\ NamesTargetsFirst(all)
  BY <1>2, <1>7, Joined, JoinedNamesTargetsFirst DEF bound
<1> HIDE DEF all
<1>11. FlowsOf(app, all)
  BY <1>2, <1>7, <1>8, <1>9, JoinedFlows DEF all
<1>12. IsList(most) /\ NamesTargetsFirst(most)
  BY <1>4, <1>10, Joined, JoinedNamesTargetsFirst DEF bound, all
<1> HIDE DEF most
<1>13. FlowsOf(app, most)
  BY <1>4, <1>10, <1>8, <1>11, JoinedFlows DEF most
<1>14. IsList(Map(app)) /\ NamesTargetsFirst(Map(app))
  BY <1>3, <1>5, <1>12, Joined, JoinedNamesTargetsFirst DEF bound, all, most
<1>15. FlowsOf(app, Map(app))
  BY <1>3, <1>5, <1>12, <1>8, <1>13, JoinedFlows DEF bound, all, most
<1> QED
  BY <1>14, <1>15

-----------------------------------------------------------------------------
(* What imports of applications leave in the tables.                       *)
LEMMA Applications ==
    ASSUME NEW u \in Uploads, TypeOf[u] = "dify"
    PROVE  u \in DOMAIN AppOf /\ IsApplication(AppOf[u]) /\ CandidatesOf[u] = Map(AppOf[u])
BY DifyAssumption DEF IsApplication

LEMMA UploadsNameTargetsFirst == TargetsFirst
<1> SUFFICES ASSUME NEW u \in Uploads, TypeOf[u] # "manual",
                    NEW k \in DOMAIN CandidatesOf[u], NEW ref \in CandidatesOf[u][k].refs
             PROVE  NamedBefore(CandidatesOf[u], k, ref)
  BY DEF TargetsFirst, NamedBefore
<1>1. CASE TypeOf[u] = "dify"
  BY <1>1, Applications, MapFacts DEF NamesTargetsFirst
<1>2. CASE TypeOf[u] # "dify"
  BY <1>2, DifyAssumption
<1> QED BY <1>1, <1>2

(* What a stored Dify, MCP or data candidate depends on is stored beside   *)
(* it at any time, wherever imports end and however they overlap, because  *)
(* every adapter but the manual one names targets first                    *)
(* (adapters/dify/mapper.go:49).                                           *)
THEOREM ReferencesAlwaysFollow == Spec => []ReferencesFollowTargets
BY UploadsNameTargetsFirst, ReferencesFollow, PTL

(* Every stored row is a candidate of an upload for its source's type.     *)
Uploaded(row, type) ==
    \E u \in Uploads : TypeOf[u] = type /\ \E k \in DOMAIN CandidatesOf[u] : row = CandidatesOf[u][k]

RowsAreUploaded ==
    \A s \in SourceIds, id \in ExternalIds :
        candidates[s][id] # None => Uploaded(candidates[s][id], sources[s].type)

LEMMA RowsStore ==
    ASSUME SafeInv, RowsAreUploaded, NEW h \in Handlers, phase[h] = "upsert",
           sources' = sources, candidates' = Stored(source[h], Current(h))
    PROVE  RowsAreUploaded'
<1>1. PICK u \in Uploads, s \in SourceIds, n \in 1..Len(CandidatesOf[upload[h]]) :
        u = upload[h] /\ s = source[h] /\ n = next[h]
  BY CurrentFacts
<1>2. PICK c : c = CandidatesOf[u][n]
  OBVIOUS
<1>3. c \in Candidates /\ c # None /\ c.id \in ExternalIds
  BY <1>1, <1>2, UploadFacts
<1>4. sources[s].type = TypeOf[u]
  <2>1. Named(source[h], named[h], upload[h])
    BY CurrentFacts
  <2> QED
    BY <1>1, <2>1 DEF Named
<1>5. Uploaded(c, TypeOf[u])
  BY <1>1, <1>2, UploadFacts DEF Uploaded
<1>6. candidates' = Stored(s, c)
  BY <1>1, <1>2 DEF Current
<1>7. ASSUME NEW t \in SourceIds, NEW id \in ExternalIds
      PROVE  candidates'[t][id] = candidates[t][id] \/ (t = s /\ candidates'[t][id] = c)
  <2>1. /\ \A r \in SourceIds, i \in ExternalIds :
              r # s \/ i # c.id => Stored(s, c)[r][i] = candidates[r][i]
        /\ <<s, c.id>> \in decided \/ Stored(s, c)[s][c.id] = c
        /\ <<s, c.id>> \in decided => Stored(s, c) = candidates
    BY <1>3, SafeInvTypeOK, StoredFacts
  <2> QED
    BY <1>6, <2>1
<1>8. ASSUME NEW t \in SourceIds, NEW id \in ExternalIds, candidates'[t][id] # None
      PROVE  Uploaded(candidates'[t][id], sources'[t].type)
  BY <1>4, <1>5, <1>7, <1>8 DEF RowsAreUploaded
<1> QED
  BY <1>8 DEF RowsAreUploaded, Uploaded

LEMMA RowsStep ==
    ASSUME SafeInv, RowsAreUploaded, [Next]_vars
    PROVE  RowsAreUploaded'
<1> USE DEF vars, handlerVars, historyVars
<1>0. TypeOK /\ TablesHold
  BY SafeInvTypeOK
<1>1. ASSUME candidates' = candidates, sources' = sources PROVE RowsAreUploaded'
  BY <1>1 DEF RowsAreUploaded, Uploaded
<1>2. ASSUME NEW s \in SourceIds, sources[s] = None, NEW row,
             sources' = [sources EXCEPT ![s] = row], candidates' = candidates
      PROVE  RowsAreUploaded'
  <2>1. \A t \in SourceIds, id \in ExternalIds :
            candidates[t][id] # None => sources'[t] = sources[t]
    BY <1>0, <1>2 DEF TablesHold, TypeOK
  <2> QED
    BY <1>2, <2>1 DEF RowsAreUploaded, Uploaded
<1>3. ASSUME NEW h \in Handlers, NEW u \in Uploads, NEW name \in Names, EnsureByName(h, u, name)
      PROVE  RowsAreUploaded'
  BY <1>1, <1>3 DEF EnsureByName
<1>4. ASSUME NEW h \in Handlers, NEW u \in Uploads, NEW s \in SourceIds, GetSource(h, u, s)
      PROVE  RowsAreUploaded'
  BY <1>1, <1>4 DEF GetSource
<1>5. ASSUME NEW h \in Handlers, CreateSource(h) PROVE RowsAreUploaded'
  <2>1. CASE sources' = sources
    BY <1>1, <1>5, <2>1 DEF CreateSource
  <2>2. CASE \E s \in SourceIds :
               /\ sources[s] = None
               /\ sources' = [sources EXCEPT ![s] = [name |-> named[h], type |-> TypeOf[upload[h]]]]
    BY <1>2, <1>5, <2>2 DEF CreateSource
  <2> QED
    BY <1>5, <2>1, <2>2 DEF CreateSource
<1>6. ASSUME NEW h \in Handlers, Upsert(h) PROVE RowsAreUploaded'
  BY <1>6, RowsStore DEF Upsert, Current
<1>7. ASSUME NEW h \in Handlers, Fail(h) PROVE RowsAreUploaded'
  BY <1>1, <1>7, RowsStore DEF Fail, Current
<1>8. ASSUME NEW s \in SourceIds, NEW name \in Names, NEW type \in SourceTypes,
             Create(s, name, type)
      PROVE  RowsAreUploaded'
  BY <1>2, <1>8 DEF Create
<1>9. ASSUME NEW s \in SourceIds, NEW id \in ExternalIds, Decide(s, id) PROVE RowsAreUploaded'
  BY <1>1, <1>9 DEF Decide
<1>10. CASE UNCHANGED vars
  BY <1>1, <1>10
<1> QED
  BY <1>3, <1>4, <1>5, <1>6, <1>7, <1>8, <1>9, <1>10 DEF Next

(* A workflow stored from an application whose edges form a single path    *)
(* shows its steps in execution order, whatever the applications and       *)
(* whatever the imports (adapters/dify/dsl_parser.go:236-237).             *)
THEOREM StepsAlwaysFollow == Spec => []StepsFollowTheFlow
<1>1. Init => RowsAreUploaded
  BY DEF Init, RowsAreUploaded
<1>2. IngestionInv /\ RowsAreUploaded /\ [Next]_vars => RowsAreUploaded'
  BY RowsStep DEF IngestionInv
<1>3. IngestionInv /\ RowsAreUploaded => StepsFollowTheFlow
  <2> SUFFICES ASSUME IngestionInv, RowsAreUploaded, NEW s \in SourceIds, NEW id \in ExternalIds,
                      sources[s] # None, sources[s].type = "dify", candidates[s][id] # None,
                      candidates[s][id].type = "workflow"
               PROVE  \E u \in DOMAIN AppOf : /\ id = Slugify(WorkflowName(AppOf[u]))
                                              /\ InOrder(u, candidates[s][id].steps)
    BY DEF StepsFollowTheFlow, StoredSteps
  <2>1. PICK u \in Uploads : /\ TypeOf[u] = "dify"
                             /\ \E k \in DOMAIN CandidatesOf[u] : candidates[s][id] = CandidatesOf[u][k]
    BY DEF RowsAreUploaded, Uploaded
  <2> DEFINE app == AppOf[u]
  <2>2. u \in DOMAIN AppOf /\ IsApplication(app) /\ CandidatesOf[u] = Map(app)
    BY <2>1, Applications
  <2>3. candidates[s][id].id = id
    BY SafeInvTypeOK DEF IngestionInv, TypeOK
  <2> HIDE DEF app
  <2>4. /\ app.nodes # <<>> /\ id = Slugify(WorkflowName(app))
        /\ candidates[s][id].steps = OrderedSteps(app)
    BY <2>1, <2>2, <2>3, MapFacts DEF FlowsOf
  <2>5. \A way \in SinglePath(app) : OrderedSteps(app) = Titles(app, way)
    BY <2>2, <2>4, StepsAreInOrder
  <2>6. InOrder(u, OrderedSteps(app))
    BY <2>2, <2>5 DEF InOrder, ExecutionOrder, app
  <2> QED
    BY <2>2, <2>4, <2>6 DEF app
<1> QED
  BY InvHolds, <1>1, <1>2, <1>3, PTL DEF Spec
=============================================================================
