------------------------------ MODULE AuditProofs ------------------------------
(***************************************************************************)
(* The rule interpreter and the audit run, for any rules, rubric facts,    *)
(* documents, rates and contracts: a verdict rests on facts, every defect  *)
(* of a document is sent back, a rate variance is reported exactly when it *)
(* is warranted, and the scorecard agrees with the rows that are written.  *)
(*                                                                         *)
(* The order is bottom up: recursive functions over trees and evaluate;    *)
(* fractions and cents; the nodes of the rubrics' trees; what parse makes  *)
(* of a document; sums; the gates; the run; the scores; the rows.  fb is a *)
(* fact bundle, ins the facts resolved outside the document.               *)
(***************************************************************************)
EXTENDS AuditPipeline, RuleVerdicts, FiniteSetTheorems, WellFoundedInduction, TLAPS

(* A nonempty set of numbers has a least one.                              *)
LEMMA LeastNumber ==
  ASSUME NEW S, S \subseteq Nat, S # {}
  PROVE  \E x \in S : \A y \in S : x <= y
<1>1. \E x \in S : \A y \in S : ~(<<y, x>> \in OpToRel(<, Nat))
  BY NatLessThanWellFounded, WFMin
<1>2. \A x, y \in S : <<y, x>> \in OpToRel(<, Nat) <=> y < x
  BY DEF OpToRel
<1>3. \E x \in S : \A y \in S : ~(y < x)
  BY <1>1, <1>2, Zenon
<1> QED
  BY <1>3

(* A nonempty set of trees has one that is no deeper than the others: the  *)
(* form of induction on trees used below.                                  *)
LEMMA LeastDeep ==
  ASSUME NEW S, S \subseteq Ast, S # {}
  PROVE  \E n \in S : \A m \in S : Depth[n] <= Depth[m]
<1>1. \A n \in S : Depth[n] \in Nat
  BY AstAssumption
<1> DEFINE T == {Depth[n] : n \in S}
<1>2. \E x \in T : \A y \in T : x <= y
  <2>1. T \subseteq Nat /\ T # {}
    BY <1>1
  <2> HIDE DEF T
  <2> QED
    BY <2>1, LeastNumber
<1> QED
  BY <1>2

-----------------------------------------------------------------------------
(* The value of a node, given the values v of the trees below it.          *)
NodeValue(n, v, fb) ==
    LET vs == [i \in DOMAIN n.args |-> v[n.args[i]]]
    IN  CASE n.type = "lit" -> factValue(n.value)
          [] n.type = "fact" -> factValue(fb[n.key])
          [] n.type = "require" -> IF present(fb[n.key]) THEN v[n.then] ELSE Unassessable
          [] n.type = "arith" -> arith(n.op, vs)
          [] n.type = "compare" -> compare(n, vs[1], vs[2])
          [] OTHER -> logic(n.op, vs)

(* evaluate, with its recursive function written out.                      *)
LEMMA EvaluateExpanded ==
  ASSUME NEW fb, NEW node
  PROVE  evaluate(node, fb) = (CHOOSE g : g = [n \in Ast |-> NodeValue(n, g, fb)])[node]
BY DEF evaluate, NodeValue

(* What a node of each type makes of the values below it.                  *)
LEMMA NodeValues ==
  ASSUME NEW n, NEW v, NEW fb
  PROVE  LET vs == [i \in DOMAIN n.args |-> v[n.args[i]]]
         IN  /\ n.type = "lit" => NodeValue(n, v, fb) = factValue(n.value)
             /\ n.type = "fact" => NodeValue(n, v, fb) = factValue(fb[n.key])
             /\ n.type = "require" =>
                    NodeValue(n, v, fb) = IF present(fb[n.key]) THEN v[n.then] ELSE Unassessable
             /\ n.type = "arith" => NodeValue(n, v, fb) = arith(n.op, vs)
             /\ n.type = "compare" => NodeValue(n, v, fb) = compare(n, vs[1], vs[2])
             /\ n.type = "logic" => NodeValue(n, v, fb) = logic(n.op, vs)
<1>1. n.type = "lit" => NodeValue(n, v, fb) = factValue(n.value)
  BY Zenon DEF NodeValue
<1>2. n.type = "fact" => NodeValue(n, v, fb) = factValue(fb[n.key])
  BY Zenon DEF NodeValue
<1>3. n.type = "require" =>
          NodeValue(n, v, fb) = IF present(fb[n.key]) THEN v[n.then] ELSE Unassessable
  BY Zenon DEF NodeValue
<1> DEFINE vs == [i \in DOMAIN n.args |-> v[n.args[i]]]
<1>4. n.type = "arith" => NodeValue(n, v, fb) = arith(n.op, vs)
  BY Zenon DEF NodeValue
<1>5. n.type = "compare" => NodeValue(n, v, fb) = compare(n, vs[1], vs[2])
  BY Zenon DEF NodeValue
<1>6. n.type = "logic" => NodeValue(n, v, fb) = logic(n.op, vs)
  BY Zenon DEF NodeValue
<1> QED
  BY <1>1, <1>2, <1>3, <1>4, <1>5, <1>6

(* A node's value depends on the values below it only.                     *)
LEMMA ValueIsLocal ==
  ASSUME NEW fb, NEW n \in Ast, NEW v, NEW w,
         \A m \in Ast : Depth[m] < Depth[n] => v[m] = w[m]
  PROVE  NodeValue(n, v, fb) = NodeValue(n, w, fb)
<1> DEFINE vs == [i \in DOMAIN n.args |-> v[n.args[i]]]
           ws == [i \in DOMAIN n.args |-> w[n.args[i]]]
<1>1. CASE n.type \in Branching
  <2>1. \A i \in DOMAIN n.args : n.args[i] \in Ast /\ Depth[n.args[i]] < Depth[n]
    BY <1>1, AstAssumption
  <2>2. vs = ws
    BY <2>1
  <2>3. \/ n.type = "arith" /\ NodeValue(n, v, fb) = arith(n.op, vs)
                            /\ NodeValue(n, w, fb) = arith(n.op, ws)
        \/ n.type = "compare" /\ NodeValue(n, v, fb) = compare(n, vs[1], vs[2])
                              /\ NodeValue(n, w, fb) = compare(n, ws[1], ws[2])
        \/ n.type = "logic" /\ NodeValue(n, v, fb) = logic(n.op, vs)
                            /\ NodeValue(n, w, fb) = logic(n.op, ws)
    <3> HIDE DEF vs, ws
    <3> QED
      BY <1>1, NodeValues DEF Branching, vs, ws
  <2> HIDE DEF vs, ws
  <2> QED
    BY <2>2, <2>3
<1>2. CASE n.type = "require"
  <2>1. v[n.then] = w[n.then]
    BY <1>2, AstAssumption
  <2>2. /\ NodeValue(n, v, fb) = IF present(fb[n.key]) THEN v[n.then] ELSE Unassessable
        /\ NodeValue(n, w, fb) = IF present(fb[n.key]) THEN w[n.then] ELSE Unassessable
    BY <1>2, NodeValues, Zenon
  <2> QED
    BY <2>1, <2>2
<1>3. CASE n.type \in {"lit", "fact"}
  BY <1>3, NodeValues
<1> QED
  BY <1>1, <1>2, <1>3, AstAssumption

(* The recursion equation of evaluate: the value of a node is computed     *)
(* from the values of the nodes below it.                                  *)
LEMMA EvaluateRecursion ==
  ASSUME NEW fb
  PROVE  \A n \in Ast : evaluate(n, fb) = NodeValue(n, [m \in Ast |-> evaluate(m, fb)], fb)
<1> DEFINE Right(g, k) == \A n \in Ast : Depth[n] < k => g[n] = NodeValue(n, g, fb)
<1>0. \A n \in Ast : Depth[n] \in Nat
  BY AstAssumption
<1>1. ASSUME NEW k \in Nat, NEW g, NEW h, Right(g, k), Right(h, k)
      PROVE  \A n \in Ast : Depth[n] < k => g[n] = h[n]
  <2> DEFINE Differ == {n \in Ast : Depth[n] < k /\ g[n] # h[n]}
  <2> SUFFICES ASSUME Differ # {} PROVE FALSE
    OBVIOUS
  <2>1. PICK n \in Differ : \A m \in Differ : Depth[n] <= Depth[m]
    BY LeastDeep
  <2>2. \A m \in Ast : Depth[m] < Depth[n] => g[m] = h[m]
    BY <1>0, <2>1
  <2>3. NodeValue(n, g, fb) = NodeValue(n, h, fb)
    BY <2>1, <2>2, ValueIsLocal
  <2> QED
    BY <1>1, <2>1, <2>3
<1>2. \A k \in Nat : \E g : Right(g, k)
  <2> DEFINE Without == {k \in Nat : ~ \E g : Right(g, k)}
  <2> SUFFICES ASSUME Without # {} PROVE FALSE
    OBVIOUS
  <2>1. PICK k \in Without : \A j \in Without : k <= j
    BY LeastNumber
  <2>2. CASE k = 0
    <3>1. Right(0, 0)
      BY <1>0
    <3> QED
      BY <2>1, <2>2, <3>1
  <2>3. CASE k # 0
    <3>1. k - 1 \in Nat /\ k - 1 \notin Without
      BY <2>1, <2>3
    <3>2. PICK g : Right(g, k - 1)
      BY <3>1
    <3> DEFINE h == [n \in Ast |-> NodeValue(n, g, fb)]
    <3>3. ASSUME NEW n \in Ast, Depth[n] < k
          PROVE  h[n] = NodeValue(n, h, fb)
      <4>1. \A m \in Ast : Depth[m] < Depth[n] => g[m] = h[m]
        BY <1>0, <2>1, <3>2, <3>3
      <4>2. NodeValue(n, g, fb) = NodeValue(n, h, fb)
        <5> HIDE DEF h
        <5> QED
          BY <4>1, ValueIsLocal
      <4> QED
        BY <4>2
    <3> HIDE DEF h
    <3>4. Right(h, k)
      BY <3>3
    <3> QED
      BY <2>1, <3>4
  <2> QED
    BY <2>2, <2>3
<1> DEFINE H(k) == CHOOSE g : Right(g, k)
           G == [n \in Ast |-> H(Depth[n] + 1)[n]]
<1>3. \A k \in Nat : Right(H(k), k)
  BY <1>2
<1> HIDE DEF H
<1>4. ASSUME NEW n \in Ast
      PROVE  G[n] = NodeValue(n, G, fb)
  <2> DEFINE d == Depth[n] + 1
  <2>1. d \in Nat /\ Depth[n] < d
    BY <1>0
  <2>2. ASSUME NEW m \in Ast, Depth[m] < Depth[n]
        PROVE  H(d)[m] = G[m]
    <3> DEFINE e == Depth[m] + 1
    <3>1. e \in Nat /\ Depth[m] < e /\ e <= d /\ Depth[m] \in Nat
      BY <1>0, <2>2
    <3>2. Right(H(e), e) /\ Right(H(d), d)
      BY <1>3, <2>1, <3>1
    <3>3. Right(H(d), e)
      BY <1>0, <2>1, <3>1, <3>2
    <3>4. H(d)[m] = H(e)[m]
      <4> HIDE DEF d, e, Right
      <4> QED
        BY <1>1, <3>1, <3>2, <3>3
    <3> QED
      BY <3>4
  <2>3. H(d)[n] = NodeValue(n, H(d), fb)
    BY <1>3, <2>1
  <2>4. NodeValue(n, H(d), fb) = NodeValue(n, G, fb)
    <3> HIDE DEF d, G
    <3> QED
      BY <2>2, ValueIsLocal
  <2> QED
    BY <2>3, <2>4
<1> DEFINE Fixed(g) == g = [n \in Ast |-> NodeValue(n, g, fb)]
<1>5. Fixed(G)
  <2>1. G = [n \in Ast |-> G[n]]
    OBVIOUS
  <2> HIDE DEF G
  <2>2. [n \in Ast |-> G[n]] = [n \in Ast |-> NodeValue(n, G, fb)]
    BY <1>4
  <2> QED
    BY <2>1, <2>2
<1> DEFINE E == CHOOSE g : Fixed(g)
<1>6. Fixed(E)
  <2> HIDE DEF G
  <2> QED
    BY <1>5
<1>7. \A n \in Ast : evaluate(n, fb) = E[n]
  BY EvaluateExpanded
<1> HIDE DEF E
<1>8. E = [n \in Ast |-> NodeValue(n, E, fb)]
  BY <1>6
<1>9. [m \in Ast |-> evaluate(m, fb)] = E
  <2>1. E = [n \in Ast |-> E[n]]
    BY <1>8
  <2> QED
    BY <1>7, <2>1
<1>10. \A n \in Ast : E[n] = NodeValue(n, E, fb)
  BY <1>8
<1> QED
  BY <1>7, <1>9, <1>10

-----------------------------------------------------------------------------
(* F, a function of a function and an argument, looks at the values of the *)
(* function for arguments of a smaller measure M only.                     *)
LooksBelow(F, D, V, M) ==
  /\ M \in [D -> Nat] /\ F \in [[D -> V] \X D -> V] /\ [D -> V] # {}
  /\ \A g, h \in [D -> V], n \in D :
        (\A m \in D : M[m] < M[n] => g[m] = h[m]) => F[<<g, n>>] = F[<<h, n>>]

(* Such an F has a fixed point: what makes a recursive function with       *)
(* values in V well defined.                                               *)
LEMMA FixedPoint ==
  ASSUME NEW D, NEW V, NEW M, NEW F, LooksBelow(F, D, V, M)
  PROVE  \E g \in [D -> V] : \A n \in D : g[n] = F[<<g, n>>]
<1>a. M \in [D -> Nat] /\ F \in [[D -> V] \X D -> V] /\ [D -> V] # {}
  BY DEF LooksBelow
<1> DEFINE Right(g, k) == \A n \in D : M[n] < k => g[n] = F[<<g, n>>]
<1>0. \A n \in D : M[n] \in Nat
  BY <1>a
<1>1. ASSUME NEW k \in Nat, NEW g \in [D -> V], NEW h \in [D -> V], Right(g, k), Right(h, k)
      PROVE  \A n \in D : M[n] < k => g[n] = h[n]
  <2> DEFINE Differ == {n \in D : M[n] < k /\ g[n] # h[n]}
             Sizes == {M[n] : n \in Differ}
  <2> SUFFICES ASSUME Differ # {} PROVE FALSE
    OBVIOUS
  <2>1. PICK x \in Sizes : \A y \in Sizes : x <= y
    <3>1. Sizes \subseteq Nat /\ Sizes # {}
      BY <1>0
    <3> HIDE DEF Sizes
    <3> QED
      BY <3>1, LeastNumber
  <2>2. PICK n \in Differ : \A m \in Differ : M[n] <= M[m]
    BY <2>1
  <2>3. \A m \in D : M[m] < M[n] => g[m] = h[m]
    BY <1>0, <2>2
  <2>4. F[<<g, n>>] = F[<<h, n>>]
    BY <2>2, <2>3 DEF LooksBelow
  <2> QED
    BY <1>1, <2>2, <2>4
<1>2. \A k \in Nat : \E g \in [D -> V] : Right(g, k)
  <2> DEFINE Without == {k \in Nat : ~ \E g \in [D -> V] : Right(g, k)}
  <2> SUFFICES ASSUME Without # {} PROVE FALSE
    OBVIOUS
  <2>1. PICK k \in Without : \A j \in Without : k <= j
    BY LeastNumber
  <2>2. CASE k = 0
    <3>1. PICK g \in [D -> V] : TRUE
      BY <1>a
    <3>2. Right(g, 0)
      BY <1>0
    <3> QED
      BY <2>1, <2>2, <3>2
  <2>3. CASE k # 0
    <3>1. k - 1 \in Nat /\ k - 1 \notin Without
      <4>1. Without \subseteq Nat
        OBVIOUS
      <4> HIDE DEF Without
      <4> QED
        BY <2>1, <2>3, <4>1
    <3>2. PICK g \in [D -> V] : Right(g, k - 1)
      BY <3>1
    <3> DEFINE h == [n \in D |-> F[<<g, n>>]]
    <3>3. h \in [D -> V]
      BY <1>a
    <3>4. ASSUME NEW n \in D, M[n] < k
          PROVE  h[n] = F[<<h, n>>]
      <4>1. \A m \in D : M[m] < M[n] => g[m] = h[m]
        BY <1>0, <2>1, <3>2, <3>4
      <4>2. F[<<g, n>>] = F[<<h, n>>]
        <5> HIDE DEF h
        <5> QED
          BY <3>3, <4>1 DEF LooksBelow
      <4> QED
        BY <4>2
    <3> HIDE DEF h
    <3> QED
      BY <2>1, <3>3, <3>4
  <2> QED
    BY <2>2, <2>3
<1> DEFINE H(k) == CHOOSE g \in [D -> V] : Right(g, k)
           G == [n \in D |-> H(M[n] + 1)[n]]
<1>3. \A k \in Nat : H(k) \in [D -> V] /\ Right(H(k), k)
  BY <1>2
<1> HIDE DEF H
<1>4. G \in [D -> V]
  BY <1>0, <1>3
<1>5. ASSUME NEW n \in D
      PROVE  G[n] = F[<<G, n>>]
  <2> DEFINE d == M[n] + 1
  <2>1. d \in Nat /\ M[n] < d
    BY <1>0
  <2>2. ASSUME NEW m \in D, M[m] < M[n]
        PROVE  H(d)[m] = G[m]
    <3> DEFINE e == M[m] + 1
    <3>1. e \in Nat /\ M[m] < e /\ e <= d /\ M[m] \in Nat
      BY <1>0, <2>2
    <3>2. /\ Right(H(e), e) /\ Right(H(d), d)
          /\ H(e) \in [D -> V] /\ H(d) \in [D -> V]
      BY <1>3, <2>1, <3>1
    <3>3. Right(H(d), e)
      <4> HIDE DEF d, e
      <4> SUFFICES ASSUME NEW x \in D, M[x] < e
                   PROVE  H(d)[x] = F[<<H(d), x>>]
        OBVIOUS
      <4>1. M[x] < d
        BY <1>0, <2>1, <3>1
      <4> QED
        BY <3>2, <4>1
    <3>4. H(d)[m] = H(e)[m]
      <4> HIDE DEF d, e, Right
      <4> QED
        BY <1>1, <3>1, <3>2, <3>3
    <3> QED
      BY <3>4
  <2>3. H(d)[n] = F[<<H(d), n>>]
    BY <1>3, <2>1
  <2>4. F[<<H(d), n>>] = F[<<G, n>>]
    <3>1. H(d) \in [D -> V]
      BY <1>3, <2>1
    <3> HIDE DEF d, G
    <3> QED
      BY <1>4, <2>2, <3>1 DEF LooksBelow
  <2> QED
    BY <2>3, <2>4
<1> HIDE DEF G
<1> QED
  BY <1>4, <1>5

-----------------------------------------------------------------------------
(* What a node asks for, given what the trees below it ask for.            *)
NodeAsks(n, asks) ==
    CASE n.type = "lit" -> {}
      [] n.type = "fact" -> {<<"value", n.key>>}
      [] n.type = "require" -> {<<"presence", n.key>>} \cup asks[n.then]
      [] OTHER -> UNION {asks[n.args[i]] : i \in Deciding(n)}

(* Asks, with its recursive function written out.                          *)
LEMMA AsksExpanded ==
  ASSUME NEW node
  PROVE  Asks(node) = (CHOOSE g : g = [n \in Ast |-> NodeAsks(n, g)])[node]
BY DEF Asks, NodeAsks

(* What a node of each type adds to what is asked below it.                *)
LEMMA NodesAsk ==
  ASSUME NEW n, NEW asks
  PROVE  /\ n.type = "lit" => NodeAsks(n, asks) = {}
         /\ n.type = "fact" => NodeAsks(n, asks) = {<<"value", n.key>>}
         /\ n.type = "require" => NodeAsks(n, asks) = {<<"presence", n.key>>} \cup asks[n.then]
         /\ n.type \in Branching =>
                NodeAsks(n, asks) = UNION {asks[n.args[i]] : i \in Deciding(n)}
<1>1. n.type = "lit" => NodeAsks(n, asks) = {}
  BY Zenon DEF NodeAsks
<1>2. n.type = "fact" => NodeAsks(n, asks) = {<<"value", n.key>>}
  BY Zenon DEF NodeAsks
<1>3. n.type = "require" => NodeAsks(n, asks) = {<<"presence", n.key>>} \cup asks[n.then]
  BY Zenon DEF NodeAsks
<1>4. n.type \in Branching => NodeAsks(n, asks) = UNION {asks[n.args[i]] : i \in Deciding(n)}
  <2>1. n.type \in Branching => n.type \notin {"lit", "fact", "require"}
    BY DEF Branching
  <2> QED
    BY <2>1, Zenon DEF NodeAsks
<1> QED
  BY <1>1, <1>2, <1>3, <1>4

(* The recursion equation of Asks.                                         *)
LEMMA AsksRecursion == \A n \in Ast : Asks(n) = NodeAsks(n, [m \in Ast |-> Asks(m)])
<1> DEFINE V == SUBSET ({"value", "presence"} \X {n.key : n \in Ast})
           F == [p \in [Ast -> V] \X Ast |-> NodeAsks(p[2], p[1])]
<1>0. \A n \in Ast :
        /\ n.type \in {"lit", "fact", "require"} \cup Branching
        /\ n.type = "require" => n.then \in Ast /\ Depth[n.then] < Depth[n]
        /\ n.type \in Branching => \A i \in Deciding(n) :
               n.args[i] \in Ast /\ Depth[n.args[i]] < Depth[n]
  BY AstAssumption DEF Deciding
<1>1. ASSUME NEW g \in [Ast -> V], NEW n \in Ast
      PROVE  NodeAsks(n, g) \in V
  <2>1. CASE n.type = "lit"
    BY <2>1, NodesAsk
  <2>2. CASE n.type = "fact"
    BY <2>2, NodesAsk
  <2>3. CASE n.type = "require"
    <3>1. g[n.then] \in V
      BY <1>0, <2>3
    <3>2. <<"presence", n.key>> \in {"value", "presence"} \X {x.key : x \in Ast}
      OBVIOUS
    <3>3. NodeAsks(n, g) = {<<"presence", n.key>>} \cup g[n.then]
      BY <2>3, NodesAsk
    <3> QED
      BY <3>1, <3>2, <3>3
  <2>4. CASE n.type \in Branching
    <3>1. \A i \in Deciding(n) : g[n.args[i]] \in V
      BY <1>0, <2>4
    <3>2. NodeAsks(n, g) = UNION {g[n.args[i]] : i \in Deciding(n)}
      BY <2>4, NodesAsk
    <3> QED
      BY <3>1, <3>2
  <2> QED
    BY <1>0, <2>1, <2>2, <2>3, <2>4
<1>2. ASSUME NEW g, NEW h, NEW n \in Ast,
             \A m \in Ast : Depth[m] < Depth[n] => g[m] = h[m]
      PROVE  NodeAsks(n, g) = NodeAsks(n, h)
  <2>1. CASE n.type \in {"lit", "fact"}
    BY <2>1, NodesAsk
  <2>2. CASE n.type = "require"
    <3>1. g[n.then] = h[n.then]
      BY <1>0, <1>2, <2>2
    <3> QED
      BY <2>2, <3>1, NodesAsk
  <2>3. CASE n.type \in Branching
    <3>1. {g[n.args[i]] : i \in Deciding(n)} = {h[n.args[i]] : i \in Deciding(n)}
      BY <1>0, <1>2, <2>3
    <3> QED
      BY <2>3, <3>1, NodesAsk
  <2> QED
    BY <1>0, <2>1, <2>2, <2>3
<1> HIDE DEF V
<1>3. F \in [[Ast -> V] \X Ast -> V]
  BY <1>1
<1>4. ASSUME NEW g \in [Ast -> V], NEW h \in [Ast -> V], NEW n \in Ast,
             \A m \in Ast : Depth[m] < Depth[n] => g[m] = h[m]
      PROVE  F[<<g, n>>] = F[<<h, n>>]
  BY <1>2, <1>4
<1>5. [Ast -> V] # {}
  <2>1. {} \in V
    BY DEF V
  <2>2. [n \in Ast |-> {}] \in [Ast -> V]
    BY <2>1
  <2> QED
    BY <2>2
<1>6. \A g \in [Ast -> V], n \in Ast : F[<<g, n>>] = NodeAsks(n, g)
  OBVIOUS
<1>7. Depth \in [Ast -> Nat]
  BY AstAssumption
<1>7a. LooksBelow(F, Ast, V, Depth)
  BY <1>3, <1>4, <1>5, <1>7 DEF LooksBelow
<1> HIDE DEF F
<1>8. PICK g \in [Ast -> V] : \A n \in Ast : g[n] = F[<<g, n>>]
  BY <1>7a, FixedPoint
<1> DEFINE Fixed(f) == f = [n \in Ast |-> NodeAsks(n, f)]
<1>9. Fixed(g)
  <2>1. \A n \in Ast : g[n] = NodeAsks(n, g)
    BY <1>6, <1>8
  <2> QED
    BY <1>8, <2>1
<1> DEFINE E == CHOOSE f : Fixed(f)
<1>10. Fixed(E)
  BY <1>9
<1>11. \A n \in Ast : Asks(n) = E[n]
  BY AsksExpanded
<1> HIDE DEF E
<1>12. [m \in Ast |-> Asks(m)] = E
  <2>1. E = [n \in Ast |-> E[n]]
    BY <1>10
  <2> QED
    BY <1>11, <2>1
<1>13. \A n \in Ast : E[n] = NodeAsks(n, E)
  BY <1>10
<1> QED
  BY <1>11, <1>12, <1>13

-----------------------------------------------------------------------------
(* What a tree asks for is in the bundle.                                  *)
Answered(asks, fb) ==
    \A ask \in asks : /\ present(fb[ask[2]])
                      /\ ask[1] = "value" => fb[ask[2]][1] # "malformed"

(* A node has a value only if the operands that decide it have one.        *)
LEMMA ValueNeedsOperands ==
  ASSUME NEW n \in Ast, n.type \in Branching, NEW v, NEW fb,
         NodeValue(n, v, fb)[1] # "unassessable"
  PROVE  \A i \in Deciding(n) : v[n.args[i]][1] # "unassessable"
<1> DEFINE vs == [i \in DOMAIN n.args |-> v[n.args[i]]]
<1>1. DOMAIN vs = DOMAIN n.args /\ \A i \in DOMAIN n.args : vs[i] = v[n.args[i]]
  OBVIOUS
<1>2. Unassessable[1] = "unassessable"
  BY DEF Unassessable
<1>3. CASE n.type = "arith"
  <2>1. NodeValue(n, v, fb) = arith(n.op, vs)
    BY <1>3, NodeValues
  <2> HIDE DEF vs
  <2>2. ~ \E i \in DOMAIN vs : ~hasDecimal(vs[i])
    BY <1>2, <2>1, Zenon DEF arith
  <2>3. \A i \in DOMAIN vs : vs[i][1] # "unassessable"
    BY <2>2 DEF hasDecimal
  <2> QED
    BY <1>1, <2>3 DEF Deciding
<1>4. CASE n.type = "compare"
  <2>1. NodeValue(n, v, fb) = compare(n, vs[1], vs[2])
    BY <1>4, NodeValues
  <2>2. DOMAIN n.args = {1, 2}
    BY <1>4, AstAssumption
  <2> HIDE DEF vs
  <2>3. ASSUME isUnassessable(vs[1]) \/ isUnassessable(vs[2])
        PROVE  compare(n, vs[1], vs[2]) = Unassessable
    <3>1. ~(hasDecimal(vs[1]) /\ hasDecimal(vs[2]))
      BY <2>3 DEF hasDecimal, isUnassessable
    <3> QED
      BY <2>3, <3>1, Zenon DEF compare
  <2>4. vs[1][1] # "unassessable" /\ vs[2][1] # "unassessable"
    BY <1>2, <2>1, <2>3 DEF isUnassessable
  <2> QED
    BY <1>1, <2>2, <2>4 DEF Deciding
<1>5. CASE n.type = "logic"
  <2>1. NodeValue(n, v, fb) = logic(n.op, vs)
    BY <1>5, NodeValues
  <2> HIDE DEF vs
  <2>2. CASE n.op = "not"
    <3>1. vs[1][1] = "bool"
      BY <1>2, <2>1, <2>2 DEF logic
    <3> QED
      BY <1>1, <1>5, <2>2, <3>1 DEF Deciding
  <2>3. CASE n.op # "not"
    <3>1. \A i \in DOMAIN vs : vs[i][1] = "bool"
      BY <1>2, <2>1, <2>3, Zenon DEF logic
    <3> QED
      BY <1>1, <2>3, <3>1 DEF Deciding
  <2> QED
    BY <2>2, <2>3
<1> QED
  BY <1>3, <1>4, <1>5 DEF Branching

(* A tree that has a value found everything it asks for, by induction on   *)
(* its depth.                                                              *)
LEMMA ValueIsAnswered ==
  ASSUME NEW fb
  PROVE  \A n \in Ast : evaluate(n, fb)[1] # "unassessable" => Answered(Asks(n), fb)
<1> DEFINE Wrong == {n \in Ast : evaluate(n, fb)[1] # "unassessable" /\ ~Answered(Asks(n), fb)}
           v == [m \in Ast |-> evaluate(m, fb)]
           asks == [m \in Ast |-> Asks(m)]
<1> SUFFICES ASSUME Wrong # {} PROVE FALSE
  OBVIOUS
<1>1. PICK n \in Wrong : \A m \in Wrong : Depth[n] <= Depth[m]
  BY LeastDeep
<1>2. /\ n \in Ast /\ v[n] = NodeValue(n, v, fb) /\ asks[n] = NodeAsks(n, asks)
      /\ v[n][1] # "unassessable" /\ ~Answered(asks[n], fb)
  BY <1>1, EvaluateRecursion, AsksRecursion
<1>3. \A m \in Ast : Depth[m] < Depth[n] /\ v[m][1] # "unassessable" => Answered(asks[m], fb)
  BY <1>1, AstAssumption
<1> HIDE DEF v, asks, Wrong
<1>4. Unassessable[1] = "unassessable"
  BY DEF Unassessable
<1>5. CASE n.type = "lit"
  <2>1. asks[n] = {}
    BY <1>2, <1>5, NodesAsk
  <2> QED
    BY <1>2, <2>1 DEF Answered
<1>6. CASE n.type = "fact"
  <2>1. asks[n] = {<<"value", n.key>>} /\ v[n] = factValue(fb[n.key])
    BY <1>2, <1>6, NodesAsk, NodeValues
  <2>2. fb[n.key][1] \notin {"absent", "malformed"}
    BY <1>2, <1>4, <2>1, Zenon DEF factValue
  <2> QED
    BY <1>2, <2>1, <2>2 DEF Answered, present
<1>7. CASE n.type = "require"
  <2>1. /\ asks[n] = {<<"presence", n.key>>} \cup asks[n.then]
        /\ v[n] = IF present(fb[n.key]) THEN v[n.then] ELSE Unassessable
    BY <1>2, <1>7, NodesAsk, NodeValues, Zenon
  <2>2. present(fb[n.key]) /\ v[n.then][1] # "unassessable"
    BY <1>2, <1>4, <2>1, Zenon
  <2>3. Answered(asks[n.then], fb)
    BY <1>2, <1>3, <1>7, <2>2, AstAssumption
  <2>4. Answered({<<"presence", n.key>>}, fb)
    BY <2>2 DEF Answered
  <2> QED
    BY <1>2, <2>1, <2>3, <2>4 DEF Answered
<1>8. CASE n.type \in Branching
  <2>1. asks[n] = UNION {asks[n.args[i]] : i \in Deciding(n)}
    BY <1>2, <1>8, NodesAsk
  <2>2. \A i \in Deciding(n) : n.args[i] \in Ast /\ Depth[n.args[i]] < Depth[n]
    BY <1>2, <1>8, AstAssumption DEF Deciding
  <2>3. \A i \in Deciding(n) : v[n.args[i]][1] # "unassessable"
    BY <1>2, <1>8, ValueNeedsOperands
  <2>4. \A i \in Deciding(n) : Answered(asks[n.args[i]], fb)
    BY <1>3, <2>2, <2>3
  <2> QED
    BY <1>2, <2>1, <2>4 DEF Answered
<1> QED
  BY <1>2, <1>5, <1>6, <1>7, <1>8, AstAssumption

(* The rule judged is one of the trees, and the verdict is its own.        *)
JudgeInv == rule \in Rules /\ judged = verdict(evaluate(rule, facts))

(* No verdict of PASS or FAIL without complete evidence, for any rule of   *)
(* any depth and any facts (evaluate and verdict of interpreter.ts).       *)
THEOREM NoVerdictWithoutEvidence == JudgeSpec => []VerdictRestsOnFacts
<1>1. JudgeInit => JudgeInv
  BY DEF JudgeInit, JudgeInv
<1>2. JudgeInv /\ [JudgeNext]_judgeVars => JudgeInv'
  <2> SUFFICES ASSUME JudgeInv, [JudgeNext]_judgeVars PROVE JudgeInv'
    OBVIOUS
  <2>1. ASSUME NEW k \in Key, LoseFact(k) PROVE JudgeInv'
    BY <2>1 DEF LoseFact, Judge, JudgeInv
  <2>2. ASSUME NEW k \in Key, CorruptFact(k) PROVE JudgeInv'
    BY <2>2 DEF CorruptFact, Judge, JudgeInv
  <2>3. CASE UNCHANGED judgeVars
    BY <2>3 DEF judgeVars, JudgeInv
  <2> QED
    BY <2>1, <2>2, <2>3 DEF JudgeNext
<1>3. JudgeInv => VerdictRestsOnFacts
  <2> SUFFICES ASSUME JudgeInv, judged # "UNASSESSABLE"
               PROVE  Answered(Asks(rule), facts)
    BY DEF VerdictRestsOnFacts, Answered
  <2>1. evaluate(rule, facts)[1] = "bool"
    BY DEF JudgeInv, verdict
  <2>2. rule \in Ast
    BY RulesAssumption DEF JudgeInv
  <2> QED
    BY <2>1, <2>2, ValueIsAnswered
<1> QED
  BY <1>1, <1>2, <1>3, PTL DEF JudgeSpec

-----------------------------------------------------------------------------
(* A product of an integer that is at least one is at least its factor.    *)
LEMMA AtLeastFactor ==
  ASSUME NEW x \in Int, NEW d \in Nat, x >= 1
  PROVE  x * d >= d
OBVIOUS

(* Quotient and remainder exist, *)
LEMMA DivisionExact ==
  ASSUME NEW n \in Int, NEW d \in Nat, d # 0
  PROVE  /\ n \div d \in Int /\ n % d \in Nat /\ n % d < d
         /\ n = (n \div d) * d + (n % d)
OBVIOUS

(* and there is one pair of them only.                                     *)
LEMMA DivisionUnique ==
  ASSUME NEW n \in Int, NEW d \in Nat, d # 0, NEW q \in Int, NEW r \in Nat, r < d,
         n = q * d + r
  PROVE  n \div d = q /\ n % d = r
<1> DEFINE Q == n \div d
           R == n % d
<1>1. Q \in Int /\ R \in Nat /\ R < d /\ n = Q * d + R
  BY DivisionExact
<1> HIDE DEF Q, R
<1>2. (q - Q) * d = R - r
  BY <1>1
<1>3. CASE q - Q >= 1
  <2>1. (q - Q) * d >= d
    BY <1>1, <1>3, AtLeastFactor
  <2> QED
    BY <1>1, <1>2, <2>1
<1>4. CASE Q - q >= 1
  <2>1. (Q - q) * d >= d
    BY <1>1, <1>4, AtLeastFactor
  <2>2. (Q - q) * d = r - R
    BY <1>1
  <2> QED
    BY <1>1, <2>1, <2>2
<1>5. CASE q = Q
  BY <1>1, <1>5 DEF Q, R
<1> QED
  BY <1>1, <1>3, <1>4, <1>5

(* A multiple is divided by its factor without remainder.                  *)
LEMMA DivideMultiple ==
  ASSUME NEW x \in Int, NEW g \in Nat, g # 0
  PROVE  (x * g) \div g = x
<1>1. x * g \in Int /\ x * g = x * g + 0
  OBVIOUS
<1> QED
  BY <1>1, DivisionUnique

-----------------------------------------------------------------------------
(* The recursion equation of gcd, and its type.                            *)
LEMMA GcdRecursion ==
  \A a, b \in Nat : /\ gcd[<<a, b>>] \in Nat
                    /\ gcd[<<a, b>>] = IF b = 0 THEN a ELSE gcd[<<b, a % b>>]
<1> DEFINE D == Nat \X Nat
           Next2(p) == <<p[2], p[1] % p[2]>>
           Step(g, p) == IF p[2] = 0 THEN p[1] ELSE g[Next2(p)]
           F == [x \in [D -> Nat] \X D |-> Step(x[1], x[2])]
           M == [p \in D |-> p[2]]
           Fixed(g) == g = [p \in D |-> Step(g, p)]
<1>1. \A p \in D : p[2] # 0 => Next2(p) \in D /\ M[Next2(p)] < M[p]
  <2> SUFFICES ASSUME NEW a \in Nat, NEW b \in Nat, b # 0
               PROVE  a % b \in Nat /\ a % b < b
    OBVIOUS
  <2> QED
    BY DivisionExact
<1>2. M \in [D -> Nat]
  OBVIOUS
<1>3. \A p \in D : p[1] \in Nat /\ p[2] \in Nat
  OBVIOUS
<1> HIDE DEF D, M, Next2
<1>4. F \in [[D -> Nat] \X D -> Nat]
  <2>1. ASSUME NEW g \in [D -> Nat], NEW p \in D PROVE Step(g, p) \in Nat
    BY <1>1, <1>3
  <2> QED
    BY <2>1
<1>5. ASSUME NEW g \in [D -> Nat], NEW h \in [D -> Nat], NEW p \in D,
             \A m \in D : M[m] < M[p] => g[m] = h[m]
      PROVE  F[<<g, p>>] = F[<<h, p>>]
  <2>1. F[<<g, p>>] = Step(g, p) /\ F[<<h, p>>] = Step(h, p)
    OBVIOUS
  <2>2. p[2] # 0 => g[Next2(p)] = h[Next2(p)]
    BY <1>1, <1>5
  <2> QED
    BY <2>1, <2>2
<1>6. [D -> Nat] # {}
  <2>1. [p \in D |-> 0] \in [D -> Nat]
    OBVIOUS
  <2> QED
    BY <2>1
<1>7. LooksBelow(F, D, Nat, M)
  BY <1>2, <1>4, <1>5, <1>6 DEF LooksBelow
<1>8. \A g \in [D -> Nat], p \in D : F[<<g, p>>] = Step(g, p)
  OBVIOUS
<1> HIDE DEF F
<1>9. PICK g \in [D -> Nat] : \A p \in D : g[p] = F[<<g, p>>]
  BY <1>7, FixedPoint
<1>10. Fixed(g)
  BY <1>8, <1>9
<1>11. gcd = CHOOSE h : Fixed(h)
  BY DEF gcd, D, Next2
<1>12. Fixed(gcd)
  BY <1>10, <1>11
<1>13. \A p \in D : gcd[p] = Step(gcd, p)
  BY <1>12
<1>14. \A p \in D : gcd[p] \in Nat
  <2> DEFINE Wrong == {p \in D : gcd[p] \notin Nat}
             Sizes == {M[p] : p \in Wrong}
  <2> SUFFICES ASSUME Wrong # {} PROVE FALSE
    OBVIOUS
  <2>1. PICK x \in Sizes : \A y \in Sizes : x <= y
    <3>1. Sizes \subseteq Nat /\ Sizes # {}
      BY <1>2
    <3> HIDE DEF Sizes
    <3> QED
      BY <3>1, LeastNumber
  <2>2. PICK p \in Wrong : \A m \in Wrong : M[p] <= M[m]
    BY <2>1
  <2>3. CASE p[2] = 0
    BY <1>3, <1>13, <2>2, <2>3
  <2>4. CASE p[2] # 0
    <3>1. gcd[Next2(p)] \in Nat
      BY <1>1, <1>2, <2>2, <2>4
    <3> QED
      BY <1>13, <2>2, <2>4, <3>1
  <2> QED
    BY <2>3, <2>4
<1> QED
  BY <1>13, <1>14 DEF D, Next2

(* A statement about the second of two numbers that are not both zero can  *)
(* be proved from the one for the next pair of Euclid's algorithm.  Here:  *)
(* gcd divides both numbers.                                               *)
LEMMA GcdDivides ==
  \A a, b \in Nat : a # 0 \/ b # 0 =>
      /\ gcd[<<a, b>>] \in Nat /\ gcd[<<a, b>>] # 0
      /\ \E x, y \in Nat : a = x * gcd[<<a, b>>] /\ b = y * gcd[<<a, b>>]
<1> DEFINE P(a, b) == /\ gcd[<<a, b>>] \in Nat /\ gcd[<<a, b>>] # 0
                      /\ \E x, y \in Nat : a = x * gcd[<<a, b>>] /\ b = y * gcd[<<a, b>>]
           Wrong == {b \in Nat : \E a \in Nat : (a # 0 \/ b # 0) /\ ~P(a, b)}
<1> SUFFICES ASSUME Wrong # {} PROVE FALSE
  OBVIOUS
<1>0. Wrong \subseteq Nat
  OBVIOUS
<1>1. PICK b \in Wrong : \A c \in Wrong : b <= c
  <2> HIDE DEF Wrong
  <2> QED
    BY <1>0, LeastNumber
<1>2. PICK a \in Nat : (a # 0 \/ b # 0) /\ ~P(a, b)
  BY <1>1
<1>3. b \in Nat
  BY <1>1
<1>4. CASE b = 0
  <2>1. gcd[<<a, b>>] = a
    BY <1>3, <1>4, GcdRecursion
  <2>2. a # 0
    BY <1>2, <1>4
  <2>3. a = 1 * a /\ b = 0 * a /\ 1 \in Nat /\ 0 \in Nat
    BY <1>4
  <2>4. P(a, b)
    BY <2>1, <2>2, <2>3
  <2> QED
    BY <1>2, <2>4
<1>5. CASE b # 0
  <2> DEFINE r == a % b
             q == a \div b
             g == gcd[<<a, b>>]
  <2>1. r \in Nat /\ r < b /\ q \in Int /\ a = q * b + r
    BY <1>3, <1>5, DivisionExact
  <2>2. g = gcd[<<b, r>>]
    BY <1>3, <1>5, GcdRecursion
  <2>3. r \notin Wrong
    <3> HIDE DEF Wrong, r
    <3> QED
      BY <1>1, <1>3, <2>1
  <2>4. P(b, r)
    <3> HIDE DEF r, P
    <3> QED
      BY <1>3, <1>5, <2>1, <2>3
  <2> HIDE DEF r, g
  <2>5. PICK x, y \in Nat : b = x * g /\ r = y * g
    BY <2>2, <2>4
  <2>6. g \in Nat /\ g # 0
    BY <2>2, <2>4
  <2>7. q >= 0
    <3> SUFFICES ASSUME -q >= 1 PROVE FALSE
      BY <2>1
    <3>1. (-q) * b >= b
      BY <1>3, <2>1, AtLeastFactor
    <3> HIDE DEF q
    <3> QED
      BY <1>3, <2>1, <3>1
  <2> HIDE DEF q
  <2>8. a = (q * x + y) * g
    <3>1. (q * x + y) * g = q * (x * g) + y * g
      BY <2>1, <2>5, <2>6
    <3> QED
      BY <2>1, <2>5, <3>1
  <2>9. q * x + y \in Nat
    BY <2>1, <2>5, <2>7
  <2>10. P(a, b)
    BY <2>5, <2>6, <2>8, <2>9 DEF g
  <2> QED
    BY <1>2, <2>10
<1> QED
  BY <1>4, <1>5

(* gcd of multiples is the multiple of gcd.                                *)
LEMMA GcdScales ==
  ASSUME NEW k \in Nat, k # 0
  PROVE  \A a, b \in Nat : gcd[<<k * a, k * b>>] = k * gcd[<<a, b>>]
<1> DEFINE P(a, b) == gcd[<<k * a, k * b>>] = k * gcd[<<a, b>>]
           Wrong == {b \in Nat : \E a \in Nat : ~P(a, b)}
<1> SUFFICES ASSUME Wrong # {} PROVE FALSE
  OBVIOUS
<1>0. Wrong \subseteq Nat
  OBVIOUS
<1>1. PICK b \in Wrong : \A c \in Wrong : b <= c
  <2> HIDE DEF Wrong
  <2> QED
    BY <1>0, LeastNumber
<1>2. PICK a \in Nat : ~P(a, b)
  BY <1>1
<1>3. b \in Nat
  BY <1>1
<1> DEFINE ka == k * a
           kb == k * b
<1>4. ka \in Nat /\ kb \in Nat
  BY <1>3
<1>5. CASE b = 0
  <2>1. kb = 0
    BY <1>5
  <2>2. gcd[<<a, b>>] = a
    BY <1>3, <1>5, GcdRecursion
  <2>3. gcd[<<ka, kb>>] = ka
    <3> HIDE DEF ka, kb
    <3> QED
      BY <1>4, <2>1, GcdRecursion
  <2> QED
    BY <1>2, <2>2, <2>3
<1>6. CASE b # 0
  <2> DEFINE r == a % b
             q == a \div b
             kr == k * r
  <2>1. r \in Nat /\ r < b /\ q \in Int /\ a = q * b + r
    BY <1>3, <1>6, DivisionExact
  <2>2. gcd[<<a, b>>] = gcd[<<b, r>>]
    BY <1>3, <1>6, GcdRecursion
  <2>3. P(b, r)
    <3>1. r \notin Wrong
      <4> HIDE DEF Wrong, r
      <4> QED
        BY <1>1, <1>3, <2>1
    <3> HIDE DEF r, P
    <3> QED
      BY <1>3, <2>1, <3>1
  <2> HIDE DEF r, q
  <2>4. kb # 0 /\ kr \in Nat /\ kr < kb
    <3>1. k * (b - r) >= k
      <4>1. b - r \in Int /\ b - r >= 1
        BY <1>3, <2>1
      <4> HIDE DEF r
      <4>2. (b - r) * k >= k
        BY <4>1, AtLeastFactor
      <4> QED
        BY <4>1, <4>2
    <3>2. k * (b - r) = kb - kr
      BY <1>3, <2>1
    <3>3. kr \in Nat
      BY <2>1
    <3> HIDE DEF kb, kr
    <3> QED
      BY <1>4, <3>1, <3>2, <3>3
  <2>5. ka = q * kb + kr
    BY <1>3, <2>1
  <2>6. ka % kb = kr
    <3> HIDE DEF ka, kb, kr
    <3> QED
      BY <1>4, <2>1, <2>4, <2>5, DivisionUnique
  <2>7. gcd[<<ka, kb>>] = gcd[<<kb, kr>>]
    <3> HIDE DEF ka, kb, kr
    <3> QED
      BY <1>4, <2>4, <2>6, GcdRecursion
  <2> QED
    BY <1>2, <2>2, <2>3, <2>7
<1> QED
  BY <1>5, <1>6

-----------------------------------------------------------------------------
(* A positive factor can be cancelled.                                     *)
LEMMA Cancel ==
  ASSUME NEW a \in Int, NEW b \in Int, NEW k \in Nat, k # 0, a * k = b * k
  PROVE  a = b
<1>1. (a * k) \div k = a /\ (b * k) \div k = b
  BY DivideMultiple
<1> QED
  BY <1>1

(* A fraction of a positive denominator, written with its gcd.             *)
LEMMA FractionParts ==
  ASSUME NEW n \in Int, NEW d \in Nat, d # 0
  PROVE  \E g \in Nat, p \in Int, q \in Nat :
             /\ g = gcd[<<magnitude(n), d>>] /\ g # 0 /\ q # 0
             /\ n = p * g /\ d = q * g /\ fraction(n, d) = <<p, q>>
<1> DEFINE m == magnitude(n)
           g == gcd[<<m, d>>]
<1>1. m \in Nat /\ (n = m \/ n = -m)
  BY DEF magnitude
<1>2. magnitude(d) = d
  BY DEF magnitude
<1>3. fraction(n, d) = <<(1 * n) \div g, (1 * d) \div g>>
  BY <1>2 DEF fraction
<1> HIDE DEF m
<1>4. g \in Nat /\ g # 0
  BY <1>1, GcdDivides
<1>5. PICK x, y \in Nat : m = x * g /\ d = y * g
  BY <1>1, GcdDivides
<1> DEFINE p == IF n = m THEN x ELSE -x
<1> HIDE DEF g
<1>6. p \in Int /\ n = p * g
  BY <1>1, <1>4, <1>5
<1>7. y # 0
  BY <1>4, <1>5
<1> HIDE DEF p
<1>8. 1 * n = p * g /\ 1 * d = y * g
  BY <1>5, <1>6
<1>9. (p * g) \div g = p /\ (y * g) \div g = y
  BY <1>4, <1>6, DivideMultiple
<1>10. fraction(n, d) = <<p, y>>
  BY <1>3, <1>8, <1>9
<1> QED
  BY <1>4, <1>5, <1>6, <1>7, <1>10 DEF g, m

(* A fraction has the ratio of what it is made from, *)
LEMMA FractionRatio ==
  ASSUME NEW n \in Int, NEW d \in Nat, d # 0
  PROVE  \E p \in Int, q \in Nat : q # 0 /\ fraction(n, d) = <<p, q>> /\ p * d = n * q
<1>1. PICK g \in Nat, p \in Int, q \in Nat :
         /\ g = gcd[<<magnitude(n), d>>] /\ g # 0 /\ q # 0
         /\ n = p * g /\ d = q * g /\ fraction(n, d) = <<p, q>>
  BY FractionParts
<1>2. p * (q * g) = (p * g) * q
  BY <1>1
<1> QED
  BY <1>1, <1>2

(* and does not change when both are multiplied.                           *)
LEMMA FractionScales ==
  ASSUME NEW n \in Int, NEW d \in Nat, d # 0, NEW k \in Nat, k # 0
  PROVE  fraction(n * k, d * k) = fraction(n, d)
<1> DEFINE m == magnitude(n)
           nk == n * k
           dk == d * k
           mk == magnitude(nk)
<1>1. m \in Nat /\ (n = m \/ n = -m)
  BY DEF magnitude
<1>2. mk = k * m
  <2>1. CASE n < 0
    <3>1. -n \in Nat /\ -n # 0
      BY <2>1
    <3>2. (-n) * k >= k
      BY <3>1, AtLeastFactor, -n >= 1
    <3>3. (-n) * k = -nk
      OBVIOUS
    <3> HIDE DEF nk
    <3>4. nk \in Int /\ nk < 0
      BY <3>2, <3>3 DEF nk
    <3>5. mk = -nk /\ m = -n
      BY <2>1, <3>4 DEF magnitude
    <3> QED
      BY <3>3, <3>5
  <2>2. CASE n >= 0
    <3>1. n * k \in Nat
      BY <2>2
    <3> QED
      BY <2>2, <3>1 DEF magnitude
  <2> QED
    BY <2>1, <2>2
<1>3. nk \in Int /\ dk \in Nat /\ dk # 0 /\ dk = k * d
  OBVIOUS
<1>4. gcd[<<mk, dk>>] = k * gcd[<<m, d>>]
  <2> HIDE DEF m, mk, dk
  <2> QED
    BY <1>1, <1>2, <1>3, GcdScales
<1> HIDE DEF nk, dk, m, mk
<1>5. PICK g \in Nat, p \in Int, q \in Nat :
         /\ g = gcd[<<m, d>>] /\ g # 0 /\ q # 0
         /\ n = p * g /\ d = q * g /\ fraction(n, d) = <<p, q>>
  BY FractionParts DEF m
<1>6. PICK h \in Nat, r \in Int, s \in Nat :
         /\ h = gcd[<<mk, dk>>] /\ h # 0 /\ s # 0
         /\ nk = r * h /\ dk = s * h /\ fraction(nk, dk) = <<r, s>>
  BY <1>3, FractionParts DEF mk
<1>7. h = k * g
  BY <1>4, <1>5, <1>6
<1>8. r * h = p * h /\ s * h = q * h
  <2>1. nk = p * (k * g) /\ dk = q * (k * g)
    BY <1>5 DEF nk, dk
  <2> QED
    BY <1>6, <1>7, <2>1
<1>9. r = p
  BY <1>5, <1>6, <1>8, Cancel
<1>10. s = q
  <2>1. s \in Int /\ q \in Int
    BY <1>5, <1>6
  <2> QED
    BY <1>6, <1>8, <2>1, Cancel
<1> QED
  BY <1>5, <1>6, <1>9, <1>10 DEF nk, dk

(* Equal ratios have one fraction.                                         *)
LEMMA FractionUnique ==
  ASSUME NEW n \in Int, NEW d \in Nat, d # 0, NEW m \in Int, NEW e \in Nat, e # 0,
         n * e = m * d
  PROVE  fraction(n, d) = fraction(m, e)
<1>1. fraction(n * e, d * e) = fraction(n, d)
  BY FractionScales
<1>2. fraction(m * d, e * d) = fraction(m, e)
  BY FractionScales
<1>3. e * d = d * e
  OBVIOUS
<1> QED
  BY <1>1, <1>2, <1>3

-----------------------------------------------------------------------------
(* Decimals of whole cents.                                                *)
Cents(x) == fraction(x, 100)

(* Such a decimal is a fraction of positive denominator worth the cents.   *)
LEMMA CentsRatio ==
  ASSUME NEW x \in Int
  PROVE  \E p \in Int, q \in Nat : q # 0 /\ Cents(x) = <<p, q>> /\ p * 100 = x * q
<1>1. 100 \in Nat /\ 100 # 0
  OBVIOUS
<1>2. \E p \in Int, q \in Nat : q # 0 /\ fraction(x, 100) = <<p, q>> /\ p * 100 = x * q
  BY <1>1, FractionRatio
<1> QED
  BY <1>2, Zenon DEF Cents

(* They are printed with four places as they are, *)
LEMMA CentsFixed ==
  ASSUME NEW x \in Int
  PROVE  toFixed4(Cents(x)) = Cents(x)
<1>1. PICK p \in Int, q \in Nat : q # 0 /\ Cents(x) = <<p, q>> /\ p * 100 = x * q
  BY CentsRatio
<1> DEFINE m == magnitude(p)
           y == magnitude(x)
           rounded == (20000 * m + q) \div (2 * q)
<1>2. m \in Nat /\ y \in Nat
  BY DEF magnitude
<1>3. m * 100 = y * q /\ (p < 0 <=> x < 0)
  <2>1. CASE x < 0
    <3>1. -x \in Int /\ -x >= 1
      BY <2>1
    <3>2. (-x) * q >= q
      BY <3>1, AtLeastFactor
    <3>3. (-x) * q = -(x * q)
      OBVIOUS
    <3>4. p < 0
      <4> DEFINE xq == x * q
      <4>1. xq \in Int
        OBVIOUS
      <4> HIDE DEF xq
      <4>2. -xq >= q /\ p * 100 = xq
        BY <1>1, <3>2, <3>3 DEF xq
      <4> QED
        BY <1>1, <4>1, <4>2
    <3> QED
      BY <1>1, <2>1, <3>4 DEF magnitude
  <2>2. CASE x >= 0
    <3>1. x * q \in Nat
      BY <2>2
    <3>2. p >= 0
      BY <1>1, <3>1
    <3> QED
      BY <1>1, <2>2, <3>2 DEF magnitude
  <2> QED
    BY <2>1, <2>2
<1> HIDE DEF m, y
<1>4. 20000 * m + q = (100 * y) * (2 * q) + q
  BY <1>1, <1>2, <1>3
<1>5. rounded = 100 * y
  <2> DEFINE t == 20000 * m + q
             d == 2 * q
             z == 100 * y
  <2>1. t \in Int /\ d \in Nat /\ d # 0 /\ q < d /\ z \in Int
    BY <1>1, <1>2
  <2>2. t = z * d + q
    BY <1>4
  <2> HIDE DEF t, d, z
  <2>3. t \div d = z
    BY <2>1, <2>2, DivisionUnique
  <2> QED
    BY <2>3 DEF t, d, z
<1> HIDE DEF rounded
<1>6. (IF p < 0 THEN -rounded ELSE rounded) = 100 * x
  BY <1>2, <1>3, <1>5 DEF y, magnitude
<1>7. toFixed4(Cents(x)) = fraction(100 * x, 10000)
  BY <1>1, <1>6 DEF toFixed4, rounded, m
<1>8. fraction(100 * x, 10000) = fraction(x, 100)
  <2>1. x * 100 = 100 * x /\ 100 * 100 = 10000
    OBVIOUS
  <2>2. fraction(x * 100, 100 * 100) = fraction(x, 100)
    BY FractionScales
  <2> QED
    BY <2>1, <2>2
<1> QED
  BY <1>7, <1>8 DEF Cents

(* their difference is of whole cents, *)
LEMMA CentsDiffer ==
  ASSUME NEW x \in Int, NEW y \in Int
  PROVE  minus(Cents(x), Cents(y)) = Cents(x - y)
<1>1. PICK p \in Int, q \in Nat : q # 0 /\ Cents(x) = <<p, q>> /\ p * 100 = x * q
  BY CentsRatio
<1>2. PICK r \in Int, s \in Nat : s # 0 /\ Cents(y) = <<r, s>> /\ r * 100 = y * s
  BY CentsRatio
<1> DEFINE n == p * s - r * q
           d == q * s
           z == x - y
<1>3. n \in Int /\ d \in Nat /\ d # 0 /\ z \in Int
  BY <1>1, <1>2
<1>4. n * 100 = z * d
  <2>1. n * 100 = (p * 100) * s - (r * 100) * q
    BY <1>1, <1>2
  <2>2. (x * q) * s - (y * s) * q = z * d
    BY <1>1, <1>2
  <2> QED
    BY <1>1, <1>2, <2>1, <2>2
<1>5. minus(Cents(x), Cents(y)) = fraction(n, d)
  BY <1>1, <1>2 DEF minus
<1> HIDE DEF n, d, z
<1>6. fraction(n, d) = fraction(z, 100)
  BY <1>3, <1>4, FractionUnique
<1> QED
  BY <1>5, <1>6 DEF Cents, z

(* and they are within a cent when the numbers of cents are within one.    *)
LEMMA CentsWithin ==
  ASSUME NEW x \in Int
  PROVE  lessOrEqual(absolute(Cents(x)), <<1, 100>>) <=> magnitude(x) <= 1
<1>1. PICK p \in Int, q \in Nat : q # 0 /\ Cents(x) = <<p, q>> /\ p * 100 = x * q
  BY CentsRatio
<1> DEFINE m == magnitude(p)
<1>2. lessOrEqual(absolute(Cents(x)), <<1, 100>>) <=> m * 100 <= 1 * q
  BY <1>1 DEF lessOrEqual, absolute
<1>3. m \in Nat /\ (p = m \/ p = -m)
  BY DEF magnitude
<1> HIDE DEF m
<1>4. CASE x \in {-1, 0, 1}
  <2>1. x * q = -q \/ x * q = 0 \/ x * q = q
    BY <1>4
  <2>2. magnitude(x) <= 1
    BY <1>4 DEF magnitude
  <2> QED
    BY <1>1, <1>2, <1>3, <2>1, <2>2
<1>5. CASE x >= 2
  <2>1. (x - 1) * q >= q
    BY <1>5, AtLeastFactor, x - 1 \in Int, x - 1 >= 1
  <2>2. (x - 1) * q = x * q - q
    BY <1>1
  <2> DEFINE xq == x * q
  <2>3. xq \in Int
    BY <1>1
  <2>4. xq - q >= q /\ p * 100 = xq
    BY <1>1, <2>1, <2>2
  <2>5. ~ (magnitude(x) <= 1)
    BY <1>5 DEF magnitude
  <2> HIDE DEF xq
  <2> QED
    BY <1>1, <1>2, <1>3, <2>3, <2>4, <2>5
<1>6. CASE x <= -2
  <2>1. (-x - 1) * q >= q
    BY <1>6, AtLeastFactor, -x - 1 \in Int, -x - 1 >= 1
  <2>2. (-x - 1) * q = -(x * q) - q
    BY <1>1
  <2> DEFINE xq == x * q
  <2>3. xq \in Int
    BY <1>1
  <2>4. -xq - q >= q /\ p * 100 = xq
    BY <1>1, <2>1, <2>2
  <2>5. ~ (magnitude(x) <= 1)
    BY <1>6 DEF magnitude
  <2> HIDE DEF xq
  <2> QED
    BY <1>1, <1>2, <1>3, <2>3, <2>4, <2>5
<1> QED
  BY <1>4, <1>5, <1>6

-----------------------------------------------------------------------------
(* evaluate, node by node.                                                 *)
LEMMA LeavesEvaluate ==
  ASSUME NEW fb, NEW n \in Ast
  PROVE  /\ n.type = "lit" => evaluate(n, fb) = factValue(n.value)
         /\ n.type = "fact" => evaluate(n, fb) = factValue(fb[n.key])
BY EvaluateRecursion, NodeValues, Zenon

(* A require is its `then' when the fact is there, else unassessable.      *)
LEMMA RequireEvaluates ==
  ASSUME NEW fb, NEW n \in Ast, n.type = "require"
  PROVE  /\ n.then \in Ast
         /\ evaluate(n, fb) = IF present(fb[n.key]) THEN evaluate(n.then, fb) ELSE Unassessable
<1> DEFINE v == [m \in Ast |-> evaluate(m, fb)]
<1>1. n.then \in Ast
  BY AstAssumption
<1>2. v[n.then] = evaluate(n.then, fb)
  BY <1>1
<1>3. evaluate(n, fb) = NodeValue(n, v, fb)
  BY EvaluateRecursion
<1> HIDE DEF v
<1>4. evaluate(n, fb) = IF present(fb[n.key]) THEN v[n.then] ELSE Unassessable
  BY <1>3, NodeValues, Zenon
<1> QED
  BY <1>1, <1>2, <1>4, Zenon

(* A comparison looks at the values of its two operands.                   *)
LEMMA CompareEvaluates ==
  ASSUME NEW fb, NEW n \in Ast, n.type = "compare"
  PROVE  /\ n.args[1] \in Ast /\ n.args[2] \in Ast
         /\ evaluate(n, fb) = compare(n, evaluate(n.args[1], fb), evaluate(n.args[2], fb))
<1> DEFINE v == [m \in Ast |-> evaluate(m, fb)]
           vs == [i \in DOMAIN n.args |-> v[n.args[i]]]
<1>1. n.args \in Seq(Ast) /\ Len(n.args) = 2
  BY AstAssumption DEF Branching
<1>2. DOMAIN n.args = {1, 2} /\ n.args[1] \in Ast /\ n.args[2] \in Ast
  BY <1>1
<1>3. vs[1] = evaluate(n.args[1], fb) /\ vs[2] = evaluate(n.args[2], fb)
  BY <1>2
<1>4. evaluate(n, fb) = NodeValue(n, v, fb)
  BY EvaluateRecursion
<1>5. evaluate(n, fb) = compare(n, vs[1], vs[2])
  <2> HIDE DEF v
  <2> QED
    BY <1>4, NodeValues, Zenon
<1> QED
  BY <1>2, <1>3, <1>5

-----------------------------------------------------------------------------
(* How the rubric's kinds of criteria are judged.                          *)
Judged(ast, fb) == verdict(evaluate(ast, fb))

(* A criterion on a fact that holds or not: the fact is the verdict.       *)
LEMMA HoldsJudged ==
  ASSUME NEW fb, NEW k, Holds(k) \in Ast, NEW b \in BOOLEAN, fb[k] = Bool(b)
  PROVE  Judged(Holds(k), fb) = IF b THEN "PASS" ELSE "FAIL"
<1> DEFINE n == Holds(k)
           l == Fact(k)
           r == Lit(Bool(TRUE))
<1>1. /\ n.type = "compare" /\ n.op = "eq" /\ n.args[1] = l /\ n.args[2] = r
      /\ l.type = "fact" /\ l.key = k /\ r.type = "lit" /\ r.value = Bool(TRUE)
  BY DEF Holds, Compare, Fact, Lit
<1> HIDE DEF n, l, r
<1>0. n \in Ast
  BY DEF n
<1>2. /\ l \in Ast /\ r \in Ast
      /\ evaluate(n, fb) = compare(n, evaluate(l, fb), evaluate(r, fb))
  BY <1>0, <1>1, CompareEvaluates
<1>3. evaluate(l, fb) = factValue(Bool(b)) /\ evaluate(r, fb) = factValue(Bool(TRUE))
  BY <1>1, <1>2, LeavesEvaluate
<1>4. \A x : Bool(x)[1] = "bool" /\ Bool(x)[2] = x
  BY DEF Bool
<1>5. \A x : factValue(Bool(x)) = Bool(x)
  <2> TAKE x
  <2>1. Bool(x)[1] = "bool"
    BY <1>4
  <2> HIDE DEF Bool
  <2>2. Bool(x)[1] \notin {"absent", "malformed"} /\ Bool(x)[1] # "money"
    BY <2>1
  <2> QED
    BY <2>2, Zenon DEF factValue
<1>6. \A x : valueScalar(Bool(x)) = <<"truth", x>>
  <2> TAKE x
  <2>1. Bool(x)[1] # "number" /\ Bool(x)[1] # "money"
    BY <1>4
  <2> QED
    BY <1>4, <2>1, Zenon DEF valueScalar
<1>7. compare(n, Bool(b), Bool(TRUE)) = Bool(valueScalar(Bool(b)) = valueScalar(Bool(TRUE)))
  <2>1. /\ ~isUnassessable(Bool(b)) /\ ~isUnassessable(Bool(TRUE))
        /\ ~hasDecimal(Bool(b))
    BY <1>4 DEF isUnassessable, hasDecimal
  <2> QED
    BY <1>1, <2>1, Zenon DEF compare
<1>8. (valueScalar(Bool(b)) = valueScalar(Bool(TRUE))) <=> b
  <2>1. <<"truth", b>>[2] = b /\ <<"truth", TRUE>>[2] = TRUE
    OBVIOUS
  <2>2. <<"truth", b>> = <<"truth", TRUE>> <=> b
    BY <2>1, Zenon
  <2> QED
    BY <1>6, <2>2, Zenon
<1>9. CASE b
  <2>1. evaluate(n, fb)[1] = "bool" /\ evaluate(n, fb)[2] 
    BY <1>2, <1>3, <1>4, <1>5, <1>7, <1>8, <1>9, Zenon
  <2> QED
    BY <1>9, <2>1, Zenon DEF Judged, verdict, n
<1>10. CASE ~b
  <2>1. evaluate(n, fb)[1] = "bool" /\ ~evaluate(n, fb)[2] 
    BY <1>2, <1>3, <1>4, <1>5, <1>7, <1>8, <1>10, Zenon
  <2> QED
    BY <1>10, <2>1, Zenon DEF Judged, verdict, n
<1> QED
  BY <1>9, <1>10

(* Equivalent Booleans are equal.                                          *)
LEMMA SameTruth ==
  ASSUME NEW b \in BOOLEAN, NEW c \in BOOLEAN, b <=> c
  PROVE  b = c
OBVIOUS

(* What the interpreter makes of a fact of money.                          *)
LEMMA MoneyEvaluates ==
  ASSUME NEW x \in Amount, NEW cur
  PROVE  /\ x \in Int => factValue(MoneyFact(x, cur)) = <<"money", Cents(x), cur>>
         /\ x \notin Int => factValue(MoneyFact(x, cur)) = Unassessable
         /\ present(MoneyFact(x, cur)) <=> x # None
<1>1. CASE x \in Int
  <2>1. x # None /\ x \notin {NaN, Bad}
    BY <1>1, DocumentAssumption
  <2>2. MoneyFact(x, cur) = <<"money", Cents(x), cur>>
    BY <2>1, Zenon DEF MoneyFact, Cents
  <2> DEFINE m == <<"money", Cents(x), cur>>
  <2>3. m[1] = "money" /\ m[2] = Cents(x) /\ m[3] = cur
    OBVIOUS
  <2> HIDE DEF m
  <2>4. m[1] \notin {"absent", "malformed"}
    BY <2>3
  <2>5. factValue(m) = <<"money", toFixed4(Cents(x)), cur>>
    BY <2>3, <2>4, Zenon DEF factValue
  <2>6. present(m)
    BY <2>3 DEF present
  <2> QED
    BY <1>1, <2>1, <2>2, <2>5, <2>6, CentsFixed DEF m
<1>2. CASE x = None
  <2>1. MoneyFact(x, cur) = <<"absent">>
    BY <1>2, DocumentAssumption, Zenon DEF MoneyFact
  <2>2. <<"absent">>[1] = "absent"
    OBVIOUS
  <2>3. factValue(<<"absent">>) = Unassessable
    BY <2>2, Zenon DEF factValue
  <2>4. x \notin Int
    BY <1>2, DocumentAssumption
  <2> QED
    BY <1>2, <2>1, <2>2, <2>3, <2>4 DEF present
<1>3. CASE x \in {Bad, NaN}
  <2>0. x # None /\ x \in {NaN, Bad}
    BY <1>3, DocumentAssumption
  <2>1. MoneyFact(x, cur) = <<"malformed">>
    BY <2>0, Zenon DEF MoneyFact
  <2>2. <<"malformed">>[1] = "malformed"
    OBVIOUS
  <2>3. factValue(<<"malformed">>) = Unassessable
    BY <2>2, Zenon DEF factValue
  <2>4. x \notin Int
    BY <1>3, DocumentAssumption
  <2> QED
    BY <2>0, <2>1, <2>2, <2>3, <2>4 DEF present
<1> QED
  BY <1>1, <1>2, <1>3 DEF Amount

(* Two amounts compared to within a cent.                                  *)
LEMMA ApproxEvaluates ==
  ASSUME NEW fb, NEW k, NEW j, Approx(Cent, Fact(k), Fact(j)) \in Ast,
         NEW x \in Amount, NEW y \in Amount, NEW cx, NEW cy,
         fb[k] = MoneyFact(x, cx), fb[j] = MoneyFact(y, cy)
  PROVE  LET n == Approx(Cent, Fact(k), Fact(j))
         IN  /\ n.type = "compare"
             /\ evaluate(n.args[1], fb) = factValue(fb[k])
             /\ evaluate(n.args[2], fb) = factValue(fb[j])
             /\ x \in Int /\ y \in Int => evaluate(n, fb) = Bool(magnitude(x - y) <= 1)
             /\ ~(x \in Int /\ y \in Int) => evaluate(n, fb) = Unassessable
<1> DEFINE n == Approx(Cent, Fact(k), Fact(j))
           l == Fact(k)
           r == Fact(j)
<1>1. /\ n.type = "compare" /\ n.op = "approx" /\ n.args[1] = l /\ n.args[2] = r
      /\ n.tolerance = Cent
      /\ l.type = "fact" /\ l.key = k /\ r.type = "fact" /\ r.key = j
  BY DEF Approx, Fact
<1> HIDE DEF n, l, r
<1>0. n \in Ast
  BY DEF n, l, r
<1>2. /\ l \in Ast /\ r \in Ast
      /\ evaluate(n, fb) = compare(n, evaluate(l, fb), evaluate(r, fb))
  BY <1>0, <1>1, CompareEvaluates
<1>3. evaluate(l, fb) = factValue(fb[k]) /\ evaluate(r, fb) = factValue(fb[j])
  BY <1>1, <1>2, LeavesEvaluate
<1> DEFINE a == evaluate(l, fb)
           b == evaluate(r, fb)
<1>4. CASE x \in Int /\ y \in Int
  <2>1. a = <<"money", Cents(x), cx>> /\ b = <<"money", Cents(y), cy>>
    BY <1>3, <1>4, MoneyEvaluates
  <2>2. a[1] = "money" /\ b[1] = "money" /\ a[2] = Cents(x) /\ b[2] = Cents(y)
    BY <2>1
  <2>3. ~isUnassessable(a) /\ ~isUnassessable(b) /\ hasDecimal(a) /\ hasDecimal(b)
    BY <2>2 DEF isUnassessable, hasDecimal
  <2> HIDE DEF a, b
  <2>4. compare(n, a, b) = Bool(compareDecimals(n.op, n.tolerance, a[2], b[2]))
    BY <2>3, Zenon DEF compare
  <2>5. compareDecimals("approx", Cent, Cents(x), Cents(y))
           = lessOrEqual(absolute(minus(Cents(x), Cents(y))), Cent)
    BY Zenon DEF compareDecimals
  <2>6. x - y \in Int /\ minus(Cents(x), Cents(y)) = Cents(x - y)
    BY <1>4, CentsDiffer
  <2>7. lessOrEqual(absolute(Cents(x - y)), Cent) <=> magnitude(x - y) <= 1
    BY <2>6, CentsWithin DEF Cent
  <2>8. lessOrEqual(absolute(Cents(x - y)), Cent) = (magnitude(x - y) <= 1)
    <3>1. lessOrEqual(absolute(Cents(x - y)), Cent) \in BOOLEAN
      BY DEF lessOrEqual
    <3>2. (magnitude(x - y) <= 1) \in BOOLEAN
      OBVIOUS
    <3> QED
      BY <2>7, <3>1, <3>2, SameTruth
  <2>9. evaluate(n, fb) = Bool(magnitude(x - y) <= 1)
    BY <1>1, <1>2, <2>2, <2>4, <2>5, <2>6, <2>8, Zenon DEF a, b
  <2> QED
    BY <1>1, <1>3, <1>4, <2>9 DEF n, l, r
<1>5. CASE ~(x \in Int /\ y \in Int)
  <2>1. a = Unassessable \/ b = Unassessable
    BY <1>3, <1>5, MoneyEvaluates
  <2>2. isUnassessable(a) \/ isUnassessable(b)
    BY <2>1 DEF isUnassessable, Unassessable
  <2>3. ~(hasDecimal(a) /\ hasDecimal(b))
    BY <2>2 DEF isUnassessable, hasDecimal
  <2> HIDE DEF a, b
  <2>4. compare(n, a, b) = Unassessable
    BY <2>2, <2>3, Zenon DEF compare
  <2>5. evaluate(n, fb) = Unassessable
    BY <1>2, <2>4 DEF a, b
  <2> QED
    BY <1>1, <1>3, <1>5, <2>5 DEF n, l, r
<1> QED
  BY <1>4, <1>5

(* A number of things that must not be zero.                               *)
LEMMA CountJudged ==
  ASSUME NEW fb, NEW k, NEW x \in Nat, fb[k] = Number(<<x, 1>>),
         Compare("gt", Fact(k), Lit(Number(Zero))) \in Ast
  PROVE  Judged(Compare("gt", Fact(k), Lit(Number(Zero))), fb) = IF x > 0 THEN "PASS" ELSE "FAIL"
<1> DEFINE n == Compare("gt", Fact(k), Lit(Number(Zero)))
           l == Fact(k)
           r == Lit(Number(Zero))
<1>1. /\ n.type = "compare" /\ n.op = "gt" /\ n.args[1] = l /\ n.args[2] = r
      /\ l.type = "fact" /\ l.key = k /\ r.type = "lit" /\ r.value = Number(Zero)
  BY DEF Compare, Fact, Lit
<1> HIDE DEF n, l, r
<1>0. n \in Ast
  BY DEF n, l, r
<1>2. /\ l \in Ast /\ r \in Ast
      /\ evaluate(n, fb) = compare(n, evaluate(l, fb), evaluate(r, fb))
  BY <1>0, <1>1, CompareEvaluates
<1>3. evaluate(l, fb) = factValue(Number(<<x, 1>>)) /\ evaluate(r, fb) = factValue(Number(Zero))
  BY <1>1, <1>2, LeavesEvaluate
<1> DEFINE a == Number(<<x, 1>>)
           b == Number(Zero)
<1>4. a[1] = "number" /\ a[2] = <<x, 1>> /\ b[1] = "number" /\ b[2] = Zero
  BY DEF Number
<1> HIDE DEF a, b
<1>5. factValue(a) = a /\ factValue(b) = b
  <2>1. /\ a[1] \notin {"absent", "malformed"} /\ a[1] # "money"
        /\ b[1] \notin {"absent", "malformed"} /\ b[1] # "money"
    BY <1>4
  <2> QED
    BY <2>1, Zenon DEF factValue
<1>6. compare(n, a, b) = Bool(compareDecimals("gt", n.tolerance, <<x, 1>>, Zero))
  <2>1. ~isUnassessable(a) /\ ~isUnassessable(b) /\ hasDecimal(a) /\ hasDecimal(b)
    BY <1>4 DEF isUnassessable, hasDecimal
  <2> QED
    BY <1>1, <1>4, <2>1, Zenon DEF compare
<1>7. compareDecimals("gt", n.tolerance, <<x, 1>>, Zero) = ~lessOrEqual(<<x, 1>>, Zero)
  BY Zenon DEF compareDecimals
<1>8. lessOrEqual(<<x, 1>>, Zero) <=> ~(x > 0)
  BY DEF lessOrEqual, Zero
<1>9. evaluate(n, fb) = Bool(~lessOrEqual(<<x, 1>>, Zero))
  BY <1>2, <1>3, <1>5, <1>6, <1>7 DEF a, b
<1>b. \A t : Bool(t)[1] = "bool" /\ Bool(t)[2] = t
  BY DEF Bool
<1>10. evaluate(n, fb)[1] = "bool" /\ evaluate(n, fb)[2] = ~lessOrEqual(<<x, 1>>, Zero)
  BY <1>9, <1>b, Zenon
<1> QED
  BY <1>8, <1>10, Zenon DEF Judged, verdict, n, l, r

-----------------------------------------------------------------------------
FootingTree ==
    Require("declared_total", Approx(Cent, Fact("declared_total"), Fact("line_sum")))
ChargesTree == Compare("gt", Fact("charge_count"), Lit(Number(Zero)))

(* The gates of the rubric, one by one.                                    *)
LEMMA GatesListed ==
  /\ Gate("FOOTING", FootingTree) \in STANDARD_RUBRIC
  /\ Gate("HAS_CHARGES", ChargesTree) \in STANDARD_RUBRIC
  /\ Gate("CURRENCY_STATED", Holds("all_currencies_stated")) \in STANDARD_RUBRIC
  /\ Gate("AMOUNT_STATED", Holds("all_amounts_stated")) \in STANDARD_RUBRIC
  /\ Gate("210.INVOICE_NUMBER", Holds("required_210_invoice_number")) \in STANDARD_RUBRIC
  /\ Gate("210.SHIPMENT_ID", Holds("required_210_shipment_id")) \in STANDARD_RUBRIC
  /\ Gate("210.SCAC", Holds("required_210_scac")) \in STANDARD_RUBRIC
  /\ Gate("310.INVOICE_NUMBER", Holds("required_310_invoice_number")) \in STANDARD_RUBRIC
  /\ Gate("310.REFERENCE", Holds("required_310_reference")) \in STANDARD_RUBRIC
  /\ Gate("310.CONTAINER", Holds("required_310_container")) \in STANDARD_RUBRIC
  /\ Gate("310.VESSEL_VOYAGE", Holds("required_310_vessel_voyage")) \in STANDARD_RUBRIC
  /\ Gate("310.PORTS", Holds("required_310_ports")) \in STANDARD_RUBRIC
  /\ Gate("310.CHARGE_IDENTITY", Holds("required_310_charge_identity")) \in STANDARD_RUBRIC
  /\ Gate("310.CURRENCY_CODE_VALID", Holds("valid_310_currency_codes")) \in STANDARD_RUBRIC
BY DEF STANDARD_RUBRIC, FootingTree, ChargesTree

(* Some gate with this key fails; and what that is, gate by gate.          *)
GateFails(contract, fb, key) ==
    \E c \in rubricFor(contract) :
        c.kind = "GATING" /\ judge(c, fb) # "PASS" /\ c.key = key
KeyFails(fb, key) ==
    LET fails(k, tree) == key = k /\ Judged(tree, fb) # "PASS"
    IN  \/ fails("FOOTING", FootingTree)
        \/ fails("CURRENCY_STATED", Holds("all_currencies_stated"))
        \/ fails("AMOUNT_STATED", Holds("all_amounts_stated"))
        \/ fails("HAS_CHARGES", ChargesTree)
        \/ fails("210.INVOICE_NUMBER", Holds("required_210_invoice_number"))
        \/ fails("210.SHIPMENT_ID", Holds("required_210_shipment_id"))
        \/ fails("210.SCAC", Holds("required_210_scac"))
        \/ fails("310.INVOICE_NUMBER", Holds("required_310_invoice_number"))
        \/ fails("310.REFERENCE", Holds("required_310_reference"))
        \/ fails("310.CONTAINER", Holds("required_310_container"))
        \/ fails("310.VESSEL_VOYAGE", Holds("required_310_vessel_voyage"))
        \/ fails("310.PORTS", Holds("required_310_ports"))
        \/ fails("310.CHARGE_IDENTITY", Holds("required_310_charge_identity"))
        \/ fails("310.CURRENCY_CODE_VALID", Holds("valid_310_currency_codes"))

(* The gates of both rubrics, by key.                                      *)
LEMMA GatesByKey ==
  ASSUME NEW fb, NEW contract, NEW key
  PROVE  GateFails(contract, fb, key) <=> KeyFails(fb, key)
<1>1. \A k, tree : /\ Gate(k, tree).kind = "GATING" /\ Gate(k, tree).key = k
                   /\ judge(Gate(k, tree), fb) = Judged(tree, fb)
  BY DEF Gate, judge, Judged
<1>2. \A k, tree : Score(k, tree).kind # "GATING"
  BY DEF Score
<1>3. RateVariance.kind # "GATING"
  BY <1>2 DEF RateVariance
<1>4. (\E c \in rubricFor(contract) : c.kind = "GATING" /\ judge(c, fb) # "PASS" /\ c.key = key)
      <=> (\E c \in STANDARD_RUBRIC : c.kind = "GATING" /\ judge(c, fb) # "PASS" /\ c.key = key)
  BY <1>3, Zenon DEF rubricFor, CONTRACT_RUBRIC
<1> DEFINE fails(k, tree) == key = k /\ Judged(tree, fb) # "PASS"
           Failed ==
             \/ fails("FOOTING", FootingTree)
             \/ fails("CURRENCY_STATED", Holds("all_currencies_stated"))
             \/ fails("AMOUNT_STATED", Holds("all_amounts_stated"))
             \/ fails("HAS_CHARGES", ChargesTree)
             \/ fails("210.INVOICE_NUMBER", Holds("required_210_invoice_number"))
             \/ fails("210.SHIPMENT_ID", Holds("required_210_shipment_id"))
             \/ fails("210.SCAC", Holds("required_210_scac"))
             \/ fails("310.INVOICE_NUMBER", Holds("required_310_invoice_number"))
             \/ fails("310.REFERENCE", Holds("required_310_reference"))
             \/ fails("310.CONTAINER", Holds("required_310_container"))
             \/ fails("310.VESSEL_VOYAGE", Holds("required_310_vessel_voyage"))
             \/ fails("310.PORTS", Holds("required_310_ports"))
             \/ fails("310.CHARGE_IDENTITY", Holds("required_310_charge_identity"))
             \/ fails("310.CURRENCY_CODE_VALID", Holds("valid_310_currency_codes"))
<1>5. (\E c \in STANDARD_RUBRIC : c.kind = "GATING" /\ judge(c, fb) # "PASS" /\ c.key = key) <=>
      Failed
  <2>1. ASSUME NEW c \in STANDARD_RUBRIC, c.kind = "GATING", judge(c, fb) # "PASS", c.key = key
        PROVE  Failed
    <3>1. \A k, tree : c = Gate(k, tree) => fails(k, tree)
      BY <1>1, <2>1
    <3>2. \A k, tree : c # Score(k, tree)
      BY <1>2, <2>1
    <3> HIDE DEF fails
    <3> QED
      BY <3>1, <3>2, ZenonT(60) DEF STANDARD_RUBRIC, FootingTree, ChargesTree
  <2>2. ASSUME Failed
        PROVE  \E c \in STANDARD_RUBRIC : c.kind = "GATING" /\ judge(c, fb) # "PASS" /\ c.key = key
    <3> DEFINE Some == \E c \in STANDARD_RUBRIC :
                           c.kind = "GATING" /\ judge(c, fb) # "PASS" /\ c.key = key
    <3>1. \A k, tree : fails(k, tree) /\ Gate(k, tree) \in STANDARD_RUBRIC => Some
      BY <1>1
    <3> HIDE DEF fails, Some
    <3> QED
      BY <2>2, <3>1, GatesListed, Zenon DEF Some
  <2> QED
    BY <2>1, <2>2
<1> QED
  BY <1>4, <1>5, Zenon DEF GateFails, KeyFails

(* Their trees are all at hand.                                            *)
LEMMA GateTrees ==
  /\ FootingTree \in Ast /\ ChargesTree \in Ast
  /\ \A k \in {"all_currencies_stated", "all_amounts_stated", "required_210_invoice_number",
               "required_210_shipment_id", "required_210_scac", "required_310_invoice_number",
               "required_310_reference", "required_310_container",
               "required_310_vessel_voyage", "required_310_ports",
               "required_310_charge_identity", "valid_310_currency_codes"} : Holds(k) \in Ast
<1>1. \A k, tree : Gate(k, tree) \in STANDARD_RUBRIC => tree \in Ast
  <2>1. \A k, tree : Gate(k, tree).ast = tree
    BY DEF Gate
  <2> QED
    BY <2>1, RubricAssumption DEF CONTRACT_RUBRIC
<1> QED
  BY <1>1, GatesListed

-----------------------------------------------------------------------------
(* What parse makes of one line.                                           *)
ChargeOf(doc, line) ==
    IF doc.corrected THEN correctedCharge(line)
    ELSE IF doc.set = "PDF" THEN pdfCharge(line)
    ELSE ediCharge(doc, line)

ChargesOf(doc) == [i \in DOMAIN doc.lines |-> ChargeOf(doc, doc.lines[i])]

(* The shape of a document.                                                *)
LEMMA DocumentShape ==
  ASSUME NEW doc \in DocumentText
  PROVE  /\ doc.set \in {"210", "310", "PDF"} /\ doc.corrected \in BOOLEAN
         /\ doc.states \subseteq STRING /\ doc.header \in Text \cup {None}
         /\ doc.declared \in Amount /\ doc.lineSum \in Int \cup {None}
         /\ doc.lines \in Seq(LineText)
         /\ doc.set = "PDF" => \A i \in DOMAIN doc.lines : doc.lines[i].amount \in Int \cup {None}
         /\ doc.corrected => /\ doc.set = "PDF" /\ doc.declared \in Int \cup {None}
                             /\ \A i \in DOMAIN doc.lines : doc.lines[i].currency # None
<1>1. doc \in [set : {"210", "310", "PDF"}, corrected : BOOLEAN, states : SUBSET STRING,
              header : Text \cup {None}, declared : Amount, lineSum : Int \cup {None},
              lines : Seq(LineText)]
  BY Zenon DEF DocumentText
<1>2. /\ doc.set = "PDF" => \A i \in DOMAIN doc.lines : doc.lines[i].amount \in Int \cup {None}
      /\ doc.corrected => /\ doc.set = "PDF" /\ doc.declared \in Int \cup {None}
                          /\ \A i \in DOMAIN doc.lines : doc.lines[i].currency # None
  BY Zenon DEF DocumentText
<1>3. /\ doc.set \in {"210", "310", "PDF"} /\ doc.corrected \in BOOLEAN
      /\ doc.states \in SUBSET STRING /\ doc.header \in Text \cup {None}
      /\ doc.declared \in Amount /\ doc.lineSum \in Int \cup {None}
      /\ doc.lines \in Seq(LineText)
  BY <1>1
<1> QED
  BY <1>2, <1>3, Zenon

(* None, a missing value, is not a text, and no currency is.               *)
LEMMA NoText ==
  /\ None \notin Int /\ None # Unstated /\ None \notin Text /\ Unstated \notin Text
  /\ None \notin Iso /\ Unstated \notin Iso /\ "USD" # None /\ "USD" # Unstated
BY DocumentAssumption DEF Text, Unstated, Iso

(* Which of the three adapters makes the charge of a line.                 *)
LEMMA ChargeCases ==
  ASSUME NEW doc \in DocumentText, NEW line
  PROVE  \/ doc.corrected /\ doc.set = "PDF" /\ ChargeOf(doc, line) = correctedCharge(line)
         \/ ~doc.corrected /\ doc.set = "PDF" /\ ChargeOf(doc, line) = pdfCharge(line)
         \/ ~doc.corrected /\ doc.set = "210" /\ ChargeOf(doc, line) = ediCharge(doc, line)
         \/ ~doc.corrected /\ doc.set = "310" /\ ChargeOf(doc, line) = ediCharge(doc, line)
<1>0. doc.set \in {"210", "310", "PDF"} /\ (doc.corrected => doc.set = "PDF")
  BY DocumentShape, Zenon
<1>1. CASE doc.corrected
  BY <1>0, <1>1, Zenon DEF ChargeOf
<1>2. CASE ~doc.corrected /\ doc.set = "PDF"
  BY <1>0, <1>2, Zenon DEF ChargeOf
<1>3. CASE ~doc.corrected /\ doc.set # "PDF"
  <2>1. ChargeOf(doc, line) = ediCharge(doc, line)
    BY <1>3, Zenon DEF ChargeOf
  <2> QED
    BY <1>0, <1>3, <2>1
<1> QED
  BY <1>1, <1>2, <1>3

(* The currency a line is billed in, by transaction set.                   *)
LEMMA BilledCases ==
  ASSUME NEW doc, NEW line, doc.set \in {"210", "310", "PDF"}
  PROVE  BilledIn(doc, line) =
            IF doc.set = "210" THEN "USD"
            ELSE IF doc.set = "310" /\ line.currency = None THEN doc.header ELSE line.currency
<1>1. doc.set # "210" \/ doc.set # "310"
  OBVIOUS
<1> QED
BY <1>1, Zenon DEF BilledIn

(* What a charge keeps of its line.                                        *)
LEMMA ChargeKeeps ==
  ASSUME NEW doc \in DocumentText, NEW i \in DOMAIN doc.lines
  PROVE  LET line == doc.lines[i]
             charge == ChargeOf(doc, line)
         IN  /\ charge.code = line.code /\ charge.described = line.described
             /\ charge.amount = IF line.amount = Bad THEN None ELSE line.amount
             /\ line.amount \in Amount
             /\ charge.currency = Unstated <=> BilledIn(doc, line) = None
             /\ BilledIn(doc, line) # None => charge.currency = BilledIn(doc, line)
<1> DEFINE line == doc.lines[i]
           charge == ChargeOf(doc, line)
<1>0. /\ doc.header \in Text \cup {None} /\ doc.lines \in Seq(LineText)
      /\ doc.set = "PDF" => line.amount \in Int \cup {None}
      /\ doc.corrected => line.currency # None
      /\ doc.set \in {"210", "310", "PDF"} /\ doc.corrected \in BOOLEAN
  BY DocumentShape, Zenon
<1>00. line \in LineText
  BY <1>0
<1>01. line.amount \in Amount /\ line.currency \in Text \cup {None}
  BY <1>00 DEF LineText
<1>1. /\ line \in LineText /\ line.amount \in Amount /\ line.currency \in Text \cup {None}
      /\ doc.header \in Text \cup {None}
      /\ doc.set = "PDF" => line.amount \in Int \cup {None}
      /\ doc.corrected => line.currency # None
  BY <1>0, <1>00, <1>01, Zenon
<1>2. None # Unstated /\ None \notin Text /\ Unstated \notin Text /\ "USD" # None /\ "USD" # Unstated
  BY NoText
<1>3. Bad \notin Int \cup {None}
  BY DocumentAssumption
<1>4. /\ \/ doc.corrected /\ doc.set = "PDF" /\ charge = correctedCharge(line)
         \/ ~doc.corrected /\ doc.set = "PDF" /\ charge = pdfCharge(line)
         \/ ~doc.corrected /\ doc.set = "210" /\ charge = ediCharge(doc, line)
         \/ ~doc.corrected /\ doc.set = "310" /\ charge = ediCharge(doc, line)
  BY ChargeCases
<1> HIDE DEF line, charge
<1>5. CASE doc.set = "PDF"
  <2>1. BilledIn(doc, line) = line.currency
    BY <1>5, BilledCases
  <2>2. money(line.amount) = line.amount
    BY <1>1, <1>3, <1>5 DEF money
  <2>3. /\ charge.code = line.code /\ charge.described = line.described
        /\ charge.amount = line.amount
    BY <1>4, <1>5, <2>2 DEF correctedCharge, pdfCharge
  <2>4. /\ charge.currency = Unstated <=> line.currency = None
        /\ line.currency # None => charge.currency = line.currency
    BY <1>1, <1>2, <1>4, <1>5 DEF correctedCharge, pdfCharge
  <2> QED
    BY <1>1, <1>3, <1>5, <2>1, <2>3, <2>4 DEF line, charge
<1>6. CASE doc.set # "PDF"
  <2>1. charge = ediCharge(doc, line) /\ doc.set \in {"210", "310"}
    BY <1>4, <1>6
  <2>2. /\ charge.code = line.code /\ charge.described = line.described
        /\ charge.amount = money(line.amount) /\ charge.currency = resolveCurrency(doc, line)
    BY <2>1 DEF ediCharge
  <2>3. money(line.amount) = IF line.amount = Bad THEN None ELSE line.amount
    BY DEF money
  <2>4. /\ charge.currency = Unstated <=> BilledIn(doc, line) = None
        /\ BilledIn(doc, line) # None => charge.currency = BilledIn(doc, line)
    BY <1>1, <1>2, <2>1, <2>2, BilledCases DEF resolveCurrency
  <2> QED
    BY <1>1, <2>2, <2>3, <2>4 DEF line, charge
<1> QED
  BY <1>5, <1>6

-----------------------------------------------------------------------------
(* Whether the parser could foot the document.                             *)
Footed(doc) ==
    IF doc.corrected THEN doc.lineSum # None
    ELSE doc.set = "PDF" =>
            /\ doc.declared # None
            /\ \A c \in ToSet(ChargesOf(doc)) : c.quarantined => c.amount # None

(* What parse makes of a document.                                         *)
LEMMA Parsed ==
  ASSUME NEW doc
  PROVE  LET inv == parse(doc)
         IN  /\ inv.set = doc.set /\ inv.charges = ChargesOf(doc)
             /\ inv.states = IF doc.corrected THEN doc.states
                             ELSE doc.states \cap HeaderFields(doc.set)
             /\ inv.header = IF doc.set = "210" THEN "USD" ELSE doc.header
             /\ inv.declared = IF ~Footed(doc) THEN None
                               ELSE IF doc.set = "PDF" THEN doc.declared ELSE money(doc.declared)
             /\ inv.lineSum = IF ~Footed(doc) THEN 0
                              ELSE IF doc.corrected THEN doc.lineSum
                              ELSE sumMoney(Amounts(ChargesOf(doc)))
BY Zenon DEF parse, Footed, ChargesOf, ChargeOf

(* The facts the gates look at.                                            *)
LEMMA GateFacts ==
  ASSUME NEW inv, NEW ins
  PROVE  LET fb == buildFactBundle(inv, ins)
             charges == ToSet(inv.charges)
             currencies == {c.currency : c \in charges}
             requires(set, field) == Bool(inv.set # set \/ field \in inv.states)
         IN  /\ fb["declared_total"] = MoneyFact(inv.declared, inv.header)
             /\ fb["line_sum"] = MoneyFact(inv.lineSum, inv.header)
             /\ fb["all_currencies_stated"] = Bool(Unstated \notin currencies)
             /\ fb["all_amounts_stated"] = Bool(\A c \in charges : c.amount # None)
             /\ fb["charge_count"] = Number(<<Len(inv.charges), 1>>)
             /\ fb["required_210_invoice_number"] = requires("210", "number")
             /\ fb["required_210_shipment_id"] = requires("210", "reference")
             /\ fb["required_210_scac"] = requires("210", "scac")
             /\ fb["required_310_invoice_number"] = requires("310", "number")
             /\ fb["required_310_reference"] = requires("310", "reference")
             /\ fb["required_310_container"] = requires("310", "container")
             /\ fb["required_310_vessel_voyage"] = requires("310", "vessel")
             /\ fb["required_310_ports"] = requires("310", "ports")
             /\ fb["required_310_charge_identity"] =
                    Bool(inv.set # "310" \/ \A c \in charges : Identified(c))
             /\ fb["valid_310_currency_codes"] =
                    Bool(inv.set # "310" \/ currencies \subseteq Iso)
BY DEF buildFactBundle

(* Such a gate passes exactly when its fact holds.                         *)
LEMMA HoldsPasses ==
  ASSUME NEW fb, NEW k, Holds(k) \in Ast, NEW b \in BOOLEAN, fb[k] = Bool(b)
  PROVE  Judged(Holds(k), fb) = "PASS" <=> b
<1>1. Judged(Holds(k), fb) = IF b THEN "PASS" ELSE "FAIL"
  BY HoldsJudged
<1> QED
  BY <1>1

(* What an invoice's charges say, in terms of the document's lines.        *)
LEMMA ChargesSay ==
  ASSUME NEW doc \in DocumentText
  PROVE  LET lines == ToSet(doc.lines)
             charges == ToSet(ChargesOf(doc))
             currencies == {c.currency : c \in charges}
         IN  /\ Unstated \in currencies <=> \E l \in lines : BilledIn(doc, l) = None
             /\ (\A c \in charges : c.amount # None) <=> ~ \E l \in lines : l.amount \in {None, Bad}
             /\ (\A c \in charges : Identified(c)) <=> ~ \E l \in lines : l.code = None /\ ~l.described
             /\ currencies \subseteq Iso <=> ~ \E l \in lines : BilledIn(doc, l) \notin Iso
             /\ Len(ChargesOf(doc)) \in Nat
             /\ Len(ChargesOf(doc)) > 0 <=> lines # {}
<1> DEFINE charge(i) == ChargeOf(doc, doc.lines[i])
           billed(i) == BilledIn(doc, doc.lines[i])
           D == DOMAIN doc.lines
<1>1. \A i \in D :
         /\ charge(i).code = doc.lines[i].code /\ charge(i).described = doc.lines[i].described
         /\ charge(i).amount = IF doc.lines[i].amount = Bad THEN None ELSE doc.lines[i].amount
         /\ charge(i).currency = Unstated <=> billed(i) = None
         /\ billed(i) # None => charge(i).currency = billed(i)
  BY ChargeKeeps
<1>2. ToSet(ChargesOf(doc)) = {charge(i) : i \in D} /\ ToSet(doc.lines) = {doc.lines[i] : i \in D}
  BY DEF ToSet, ChargesOf
<1>3. Len(ChargesOf(doc)) \in Nat /\ (Len(ChargesOf(doc)) > 0 <=> ToSet(doc.lines) # {})
  <2>1. doc.lines \in Seq(LineText)
    BY DocumentShape
  <2>2. D = 1 .. Len(doc.lines) /\ Len(doc.lines) \in Nat
    BY <2>1
  <2>3. Len(ChargesOf(doc)) = Len(doc.lines)
    <3>1. ChargesOf(doc) \in [1 .. Len(doc.lines) -> {charge(i) : i \in D}]
      BY <2>2 DEF ChargesOf
    <3> QED
      BY <2>2, <3>1
  <2>4. D # {} <=> Len(doc.lines) > 0
    BY <2>2
  <2>5. ToSet(doc.lines) # {} <=> D # {}
    BY <1>2
  <2> QED
    BY <2>2, <2>3, <2>4, <2>5
<1> HIDE DEF charge, billed, D
<1>4. \A i \in D : charge(i).currency \in Iso <=> billed(i) \in Iso
  BY <1>1, NoText
<1> DEFINE currencies == {c.currency : c \in ToSet(ChargesOf(doc))}
           lines == ToSet(doc.lines)
<1>5. currencies = {charge(i).currency : i \in D}
  BY <1>2
<1>6. Unstated \in currencies <=> \E l \in lines : BilledIn(doc, l) = None
  BY <1>1, <1>2, <1>5 DEF billed
<1>7. currencies \subseteq Iso <=> ~ \E l \in lines : BilledIn(doc, l) \notin Iso
  BY <1>4, <1>2, <1>5 DEF billed
<1>8. (\A c \in ToSet(ChargesOf(doc)) : c.amount # None)
        <=> ~ \E l \in lines : l.amount \in {None, Bad}
  BY <1>1, <1>2
<1>9. (\A c \in ToSet(ChargesOf(doc)) : Identified(c))
        <=> ~ \E l \in lines : l.code = None /\ ~l.described
  <2>1. \A i \in D : Identified(charge(i)) <=> ~(doc.lines[i].code = None /\ ~doc.lines[i].described)
    BY <1>1, Zenon DEF Identified
  <2> QED
    BY <1>2, <2>1, Zenon
<1> QED
  BY <1>3, <1>6, <1>7, <1>8, <1>9, Zenon

(* A field that a transaction set requires is missing for the gate when it *)
(* is missing from the document.                                           *)
LEMMA FieldsRequired ==
  ASSUME NEW doc \in DocumentText
  PROVE  LET inv == parse(doc)
         IN  /\ inv.set = doc.set
             /\ \A field \in Fields210 : doc.set = "210" =>
                    (field \in inv.states <=> field \in doc.states)
             /\ \A field \in Fields310 : doc.set = "310" =>
                    (field \in inv.states <=> field \in doc.states)
<1>1. doc.set # "PDF" => ~doc.corrected
  BY DocumentShape, Zenon
<1>2. HeaderFields("210") = Fields210 /\ HeaderFields("310") = Fields310
  <2>1. "210" # "310"
    OBVIOUS
  <2> QED
    BY <2>1, Zenon DEF HeaderFields
<1>3. doc.set # "PDF" => parse(doc).states = doc.states \cap HeaderFields(doc.set)
  BY <1>1, Parsed, Zenon
<1>4. parse(doc).set = doc.set
  BY Parsed, Zenon
<1> QED
  BY <1>2, <1>3, <1>4

(* Every gate but FOOTING, judged.                                         *)
LEMMA GateVerdicts ==
  ASSUME NEW doc \in DocumentText, NEW ins
  PROVE  LET fb == buildFactBundle(parse(doc), ins)
             lines == ToSet(doc.lines)
             passes(tree) == Judged(tree, fb) = "PASS"
             requires(set, field) == doc.set # set \/ field \in doc.states
         IN  /\ passes(Holds("all_currencies_stated")) <=> ~ \E l \in lines : BilledIn(doc, l) = None
             /\ passes(Holds("all_amounts_stated")) <=> ~ \E l \in lines : l.amount \in {None, Bad}
             /\ passes(ChargesTree) <=> lines # {}
             /\ passes(Holds("required_210_invoice_number")) <=> requires("210", "number")
             /\ passes(Holds("required_210_shipment_id")) <=> requires("210", "reference")
             /\ passes(Holds("required_210_scac")) <=> requires("210", "scac")
             /\ passes(Holds("required_310_invoice_number")) <=> requires("310", "number")
             /\ passes(Holds("required_310_reference")) <=> requires("310", "reference")
             /\ passes(Holds("required_310_container")) <=> requires("310", "container")
             /\ passes(Holds("required_310_vessel_voyage")) <=> requires("310", "vessel")
             /\ passes(Holds("required_310_ports")) <=> requires("310", "ports")
             /\ passes(Holds("required_310_charge_identity"))
                    <=> (doc.set # "310" \/ ~ \E l \in lines : l.code = None /\ ~l.described)
             /\ passes(Holds("valid_310_currency_codes"))
                    <=> (doc.set # "310" \/ ~ \E l \in lines : BilledIn(doc, l) \notin Iso)
<1> DEFINE inv == parse(doc)
           fb == buildFactBundle(inv, ins)
           charges == ToSet(inv.charges)
           currencies == {c.currency : c \in charges}
           lines == ToSet(doc.lines)
           passes(tree) == Judged(tree, fb) = "PASS"
           asked(set, field) == inv.set # set \/ field \in inv.states
<1>1. inv.set = doc.set /\ inv.charges = ChargesOf(doc)
  BY Parsed, Zenon
<1> HIDE DEF inv, fb
<1>f. /\ fb["all_currencies_stated"] = Bool(Unstated \notin currencies)
      /\ fb["all_amounts_stated"] = Bool(\A c \in charges : c.amount # None)
      /\ fb["charge_count"] = Number(<<Len(inv.charges), 1>>)
      /\ fb["required_210_invoice_number"] = Bool(asked("210", "number"))
      /\ fb["required_210_shipment_id"] = Bool(asked("210", "reference"))
      /\ fb["required_210_scac"] = Bool(asked("210", "scac"))
      /\ fb["required_310_invoice_number"] = Bool(asked("310", "number"))
      /\ fb["required_310_reference"] = Bool(asked("310", "reference"))
      /\ fb["required_310_container"] = Bool(asked("310", "container"))
      /\ fb["required_310_vessel_voyage"] = Bool(asked("310", "vessel"))
      /\ fb["required_310_ports"] = Bool(asked("310", "ports"))
      /\ fb["required_310_charge_identity"] =
             Bool(inv.set # "310" \/ \A c \in charges : Identified(c))
      /\ fb["valid_310_currency_codes"] =
             Bool(inv.set # "310" \/ currencies \subseteq Iso)
  BY GateFacts, ZenonT(60) DEF fb
<1>h. \A k : \A b \in BOOLEAN : Holds(k) \in Ast /\ fb[k] = Bool(b) => (passes(Holds(k)) <=> b)
  BY HoldsPasses
<1>b. /\ (Unstated \notin currencies) \in BOOLEAN /\ (\A c \in charges : c.amount # None) \in BOOLEAN
      /\ \A set, field : asked(set, field) \in BOOLEAN
      /\ (inv.set # "310" \/ \A c \in charges : Identified(c)) \in BOOLEAN
      /\ (inv.set # "310" \/ currencies \subseteq Iso) \in BOOLEAN
  OBVIOUS
<1> HIDE DEF charges, currencies, passes, asked
<1>t. /\ ChargesTree \in Ast
      /\ Holds("all_currencies_stated") \in Ast /\ Holds("all_amounts_stated") \in Ast
      /\ Holds("required_210_invoice_number") \in Ast /\ Holds("required_210_shipment_id") \in Ast
      /\ Holds("required_210_scac") \in Ast /\ Holds("required_310_invoice_number") \in Ast
      /\ Holds("required_310_reference") \in Ast /\ Holds("required_310_container") \in Ast
      /\ Holds("required_310_vessel_voyage") \in Ast /\ Holds("required_310_ports") \in Ast
      /\ Holds("required_310_charge_identity") \in Ast /\ Holds("valid_310_currency_codes") \in Ast
  BY GateTrees
<1>2. passes(Holds("all_currencies_stated")) <=> Unstated \notin currencies
  BY <1>f, <1>h, <1>b, <1>t, Zenon
<1>3. passes(Holds("all_amounts_stated")) <=> \A c \in charges : c.amount # None
  BY <1>f, <1>h, <1>b, <1>t, Zenon
<1>4. /\ passes(Holds("required_210_invoice_number")) <=> asked("210", "number")
      /\ passes(Holds("required_210_shipment_id")) <=> asked("210", "reference")
      /\ passes(Holds("required_210_scac")) <=> asked("210", "scac")
  BY <1>f, <1>h, <1>b, <1>t, Zenon
<1>5. /\ passes(Holds("required_310_invoice_number")) <=> asked("310", "number")
      /\ passes(Holds("required_310_reference")) <=> asked("310", "reference")
      /\ passes(Holds("required_310_container")) <=> asked("310", "container")
      /\ passes(Holds("required_310_vessel_voyage")) <=> asked("310", "vessel")
      /\ passes(Holds("required_310_ports")) <=> asked("310", "ports")
  BY <1>f, <1>h, <1>b, <1>t, Zenon
<1>6. passes(Holds("required_310_charge_identity"))
        <=> (inv.set # "310" \/ \A c \in charges : Identified(c))
  BY <1>f, <1>h, <1>b, <1>t, Zenon
<1>7. passes(Holds("valid_310_currency_codes")) <=> (inv.set # "310" \/ currencies \subseteq Iso)
  BY <1>f, <1>h, <1>b, <1>t, Zenon
<1>8. passes(ChargesTree) <=> lines # {}
  <2> DEFINE x == Len(inv.charges)
  <2>1. x \in Nat /\ (x > 0 <=> lines # {})
    BY <1>1, ChargesSay, Zenon
  <2> HIDE DEF x
  <2>2. Judged(ChargesTree, fb) = IF x > 0 THEN "PASS" ELSE "FAIL"
    BY <1>f, <1>t, <2>1, CountJudged DEF ChargesTree, x
  <2> QED
    BY <2>1, <2>2 DEF passes
<1>9. /\ Unstated \notin currencies <=> ~ \E l \in lines : BilledIn(doc, l) = None
      /\ (\A c \in charges : c.amount # None) <=> ~ \E l \in lines : l.amount \in {None, Bad}
      /\ (\A c \in charges : Identified(c)) <=> ~ \E l \in lines : l.code = None /\ ~l.described
      /\ currencies \subseteq Iso <=> ~ \E l \in lines : BilledIn(doc, l) \notin Iso
  BY <1>1, ChargesSay, Zenon DEF charges, currencies
<1>10. /\ \A field \in Fields210 : asked("210", field) <=> doc.set # "210" \/ field \in doc.states
       /\ \A field \in Fields310 : asked("310", field) <=> doc.set # "310" \/ field \in doc.states
  BY <1>1, FieldsRequired DEF asked, inv
<1>11. /\ {"number", "reference", "scac"} \subseteq Fields210
       /\ {"number", "reference", "container", "vessel", "ports"} \subseteq Fields310
  BY DEF Fields210, Fields310
<1>12. /\ asked("210", "number") <=> doc.set # "210" \/ "number" \in doc.states
       /\ asked("210", "reference") <=> doc.set # "210" \/ "reference" \in doc.states
       /\ asked("210", "scac") <=> doc.set # "210" \/ "scac" \in doc.states
       /\ asked("310", "number") <=> doc.set # "310" \/ "number" \in doc.states
       /\ asked("310", "reference") <=> doc.set # "310" \/ "reference" \in doc.states
       /\ asked("310", "container") <=> doc.set # "310" \/ "container" \in doc.states
       /\ asked("310", "vessel") <=> doc.set # "310" \/ "vessel" \in doc.states
       /\ asked("310", "ports") <=> doc.set # "310" \/ "ports" \in doc.states
  BY <1>10, <1>11
<1> HIDE DEF lines
<1>13. /\ passes(Holds("required_210_invoice_number")) <=> doc.set # "210" \/ "number" \in doc.states
       /\ passes(Holds("required_210_shipment_id")) <=> doc.set # "210" \/ "reference" \in doc.states
       /\ passes(Holds("required_210_scac")) <=> doc.set # "210" \/ "scac" \in doc.states
       /\ passes(Holds("required_310_invoice_number")) <=> doc.set # "310" \/ "number" \in doc.states
       /\ passes(Holds("required_310_reference")) <=> doc.set # "310" \/ "reference" \in doc.states
       /\ passes(Holds("required_310_container")) <=> doc.set # "310" \/ "container" \in doc.states
       /\ passes(Holds("required_310_vessel_voyage")) <=> doc.set # "310" \/ "vessel" \in doc.states
       /\ passes(Holds("required_310_ports")) <=> doc.set # "310" \/ "ports" \in doc.states
  BY <1>4, <1>5, <1>12, Zenon
<1>14. /\ passes(Holds("all_currencies_stated")) <=> ~ \E l \in lines : BilledIn(doc, l) = None
       /\ passes(Holds("all_amounts_stated")) <=> ~ \E l \in lines : l.amount \in {None, Bad}
       /\ passes(Holds("required_310_charge_identity"))
              <=> (doc.set # "310" \/ ~ \E l \in lines : l.code = None /\ ~l.described)
       /\ passes(Holds("valid_310_currency_codes"))
              <=> (doc.set # "310" \/ ~ \E l \in lines : BilledIn(doc, l) \notin Iso)
  BY <1>1, <1>2, <1>3, <1>6, <1>7, <1>9, Zenon
<1> QED
  BY <1>8, <1>13, <1>14, Zenon DEF passes, lines, fb, inv

-----------------------------------------------------------------------------
(* A nonempty collection of subsets of a finite set has a minimal one: the *)
(* form of induction the proofs below use.                                 *)
LEMMA MinimalSubset ==
    ASSUME NEW S, IsFiniteSet(S), NEW T, T \subseteq SUBSET S, T # {}
    PROVE  \E x \in T : \A y \in T : y \subseteq x => y = x
<1>1. IsWellFoundedOn(StrictSubsetOrdering(S), SUBSET S)
  BY FS_StrictSubsetOrderingWellFounded, FS_FiniteSubsetsOfFinite
<1>2. \E x \in T : \A y \in T : ~(<<y, x>> \in StrictSubsetOrdering(S))
  BY <1>1, WFMin
<1>3. \A x, y \in SUBSET S : <<y, x>> \in StrictSubsetOrdering(S) <=> y \subseteq x /\ y # x
  BY DEF StrictSubsetOrdering
<1> QED BY <1>2, <1>3

(* The element the sum takes next.                                         *)
Pick(s) == CHOOSE x \in s : TRUE

(* SumFunctionOnSet, with its folds expanded.                              *)
LEMMA SumExpanded ==
    ASSUME NEW f, NEW S
    PROVE  SumFunctionOnSet(f, S) =
             (CHOOSE iter : iter = [s \in SUBSET S |->
                 IF s = {} THEN 0 ELSE f[Pick(s)] + iter[s \ {Pick(s)}]])[S]
BY DEF SumFunctionOnSet, FoldFunctionOnSet, MapThenFoldSet, Pick

(* The recursion equation of the sum over the subsets of a finite set.     *)
LEMMA SumRecursion ==
    ASSUME NEW C, IsFiniteSet(C), NEW f
    PROVE  \A s \in SUBSET C : SumFunctionOnSet(f, s) =
             IF s = {} THEN 0 ELSE f[Pick(s)] + SumFunctionOnSet(f, s \ {Pick(s)})
<1> DEFINE Sum(s) == SumFunctionOnSet(f, s)
           Summed(s) == IF s = {} THEN 0 ELSE f[Pick(s)] + Sum(s \ {Pick(s)})
           Solves(g, S) == g = [s \in SUBSET S |->
                                  IF s = {} THEN 0 ELSE f[Pick(s)] + g[s \ {Pick(s)}]]
           Wrong == {s \in SUBSET C : Sum(s) # Summed(s)}
<1>0. \A s : s # {} => Pick(s) \in s
  BY DEF Pick
<1>1. \A S : Sum(S) = (CHOOSE g : Solves(g, S))[S]
  BY SumExpanded
<1> HIDE DEF Sum
<1> SUFFICES ASSUME Wrong # {} PROVE FALSE
  BY DEF Sum
<1>1a. Wrong \subseteq SUBSET C
  OBVIOUS
<1>2. PICK S \in Wrong : \A t \in Wrong : t \subseteq S => t = S
  <2> HIDE DEF Wrong
  <2> QED BY <1>1a, MinimalSubset
<1>3. \A t \in SUBSET S : t # S => Sum(t) = Summed(t)
  BY <1>2
<1>4. PICK g : g = [t \in SUBSET S |-> Summed(t)]
  OBVIOUS
<1> HIDE DEF Wrong
<1>5. Solves(g, S)
  <2>1. ASSUME NEW t \in SUBSET S
        PROVE  g[t] = IF t = {} THEN 0 ELSE f[Pick(t)] + g[t \ {Pick(t)}]
    <3>1. CASE t = {}
      BY <3>1, <1>4
    <3>2. CASE t # {}
      <4>1. t \ {Pick(t)} \in SUBSET S /\ t \ {Pick(t)} # S
        BY <3>2, <1>0
      <4>2. g[t \ {Pick(t)}] = Sum(t \ {Pick(t)})
        BY <4>1, <1>3, <1>4
      <4>3. g[t] = f[Pick(t)] + Sum(t \ {Pick(t)})
        BY <3>2, <1>4
      <4> QED BY <3>2, <4>2, <4>3
    <3> QED BY <3>1, <3>2
  <2>2. g = [t \in SUBSET S |-> g[t]]
    BY <1>4
  <2> QED BY <2>1, <2>2
<1>6. PICK h : h = CHOOSE x : Solves(x, S)
  OBVIOUS
<1>7. Solves(h, S)
  BY <1>5, <1>6
<1>8. h[S] = g[S]
  <2> DEFINE Differ == {t \in SUBSET S : h[t] # g[t]}
  <2> SUFFICES ASSUME Differ # {} PROVE FALSE
    OBVIOUS
  <2>1. IsFiniteSet(S)
    BY <1>2, FS_Subset DEF Wrong
  <2>1a. Differ \subseteq SUBSET S
    OBVIOUS
  <2>2. PICK t \in Differ : \A u \in Differ : u \subseteq t => u = t
    <3> HIDE DEF Differ
    <3> QED BY <2>1, <2>1a, MinimalSubset
  <2>3. t \in SUBSET S /\ h[t] # g[t]
    BY <2>2
  <2>4. /\ h[t] = IF t = {} THEN 0 ELSE f[Pick(t)] + h[t \ {Pick(t)}]
        /\ g[t] = IF t = {} THEN 0 ELSE f[Pick(t)] + g[t \ {Pick(t)}]
    BY <1>5, <1>7, <2>3
  <2>5. t # {}
    BY <2>3, <2>4
  <2>6. t \ {Pick(t)} \in SUBSET S /\ t \ {Pick(t)} \subseteq t /\ t \ {Pick(t)} # t
    BY <2>3, <2>5, <1>0
  <2>7. h[t \ {Pick(t)}] = g[t \ {Pick(t)}]
    BY <2>2, <2>6
  <2> QED BY <2>3, <2>4, <2>7
<1>9. Sum(S) = Summed(S)
  BY <1>1, <1>4, <1>6, <1>8
<1> QED BY <1>2, <1>9 DEF Wrong

(* Sums of integers are integers.                                          *)
LEMMA SumType ==
    ASSUME NEW C, IsFiniteSet(C), NEW f, \A c \in C : f[c] \in Int
    PROVE  \A s \in SUBSET C : SumFunctionOnSet(f, s) \in Int
<1> DEFINE Sum(s) == SumFunctionOnSet(f, s)
           Wrong == {s \in SUBSET C : Sum(s) \notin Int}
<1>0. \A s : s # {} => Pick(s) \in s
  BY DEF Pick
<1>1. \A s \in SUBSET C : Sum(s) = IF s = {} THEN 0 ELSE f[Pick(s)] + Sum(s \ {Pick(s)})
  BY SumRecursion
<1> HIDE DEF Sum
<1> SUFFICES ASSUME Wrong # {} PROVE FALSE
  BY DEF Sum
<1>2. Wrong \subseteq SUBSET C
  OBVIOUS
<1>3. PICK s \in Wrong : \A t \in Wrong : t \subseteq s => t = s
  <2> HIDE DEF Wrong
  <2> QED BY <1>2, MinimalSubset
<1>4. s # {} /\ s \in SUBSET C
  <2>1. s \in SUBSET C /\ Sum(s) \notin Int
    BY <1>3
  <2>2. Sum({}) = 0
    BY <1>1
  <2>3. s # {}
    BY <2>1, <2>2
  <2> QED BY <2>1, <2>3
<1>5. Pick(s) \in s
  BY <1>0, <1>4
<1>6. Sum(s \ {Pick(s)}) \in Int
  BY <1>3, <1>4, <1>5
<1>7. Sum(s) = f[Pick(s)] + Sum(s \ {Pick(s)})
  BY <1>1, <1>4
<1>8. Sum(s) \in Int
  BY <1>4, <1>5, <1>6, <1>7
<1> QED BY <1>3, <1>8

(* A sum of integers is an integer.                                        *)
LEMMA SumIsInt ==
  ASSUME NEW S, IsFiniteSet(S), NEW f, \A i \in S : f[i] \in Int
  PROVE  SumFunction(Restrict(f, S)) \in Int
<1> DEFINE g == Restrict(f, S)
<1>1. DOMAIN g = S /\ \A i \in S : g[i] \in Int
  BY DEF Restrict
<1> HIDE DEF g
<1>2. \A s \in SUBSET S : SumFunctionOnSet(g, s) \in Int
  BY <1>1, SumType
<1>3. S \in SUBSET S
  OBVIOUS
<1> QED
  BY <1>1, <1>2, <1>3 DEF SumFunction, g

(* The lines of a document are finitely many.                              *)
LEMMA LinesFinite ==
  ASSUME NEW doc \in DocumentText
  PROVE  IsFiniteSet(DOMAIN doc.lines)
<1>1. doc.lines \in Seq(LineText)
  BY DocumentShape
<1>2. DOMAIN doc.lines = 1 .. Len(doc.lines) /\ Len(doc.lines) \in Nat
  BY <1>1
<1> QED
  BY <1>2, FS_Interval

(* The sum the parser takes of the charges is that of the lines.           *)
LEMMA LineSums ==
  ASSUME NEW doc \in DocumentText
  PROVE  LET s == sumMoney(Amounts(ChargesOf(doc)))
         IN  IF \E l \in ToSet(doc.lines) : l.amount = NaN THEN s = NaN
             ELSE s \in Int /\ s = SumOf(LineAmounts(doc))
<1> DEFINE D == DOMAIN doc.lines
           a == Amounts(ChargesOf(doc))
           b == LineAmounts(doc)
           stated == {i \in DOMAIN a : a[i] # None}
<1>1. /\ DOMAIN a = D /\ \A i \in D : a[i] = ChargeOf(doc, doc.lines[i]).amount
      /\ DOMAIN b = D /\ \A i \in D : b[i] = doc.lines[i].amount
  BY DEF Amounts, ChargesOf, LineAmounts
<1>2. \A i \in D : b[i] \in Amount /\ a[i] = IF b[i] = Bad THEN None ELSE b[i]
  BY <1>1, ChargeKeeps
<1>3. ToSet(doc.lines) = {doc.lines[i] : i \in D}
  BY DEF ToSet
<1>4. (\E l \in ToSet(doc.lines) : l.amount = NaN) <=> \E i \in D : b[i] = NaN
  BY <1>1, <1>3
<1>5. sumMoney(a) = IF \E i \in stated : a[i] = NaN THEN NaN ELSE SumFunction(Restrict(a, stated))
  BY DEF sumMoney
<1> HIDE DEF a, b, D
<1>6. NaN # None /\ NaN # Bad /\ None \notin Int /\ Bad \notin Int /\ NaN \notin Int /\ Bad # None
  BY DocumentAssumption
<1>7. (\E i \in stated : a[i] = NaN) <=> \E i \in D : b[i] = NaN
  BY <1>1, <1>2, <1>6
<1>8. CASE \E i \in D : b[i] = NaN
  BY <1>4, <1>5, <1>7, <1>8, Zenon DEF a
<1>9. CASE ~ \E i \in D : b[i] = NaN
  <2>1. stated = Ints(b)
    BY <1>1, <1>2, <1>6, <1>9 DEF Ints, Amount
  <2>2. \A i \in stated : a[i] = b[i] /\ b[i] \in Int
    BY <1>1, <1>2, <1>6, <1>9 DEF Amount
  <2>3. Restrict(a, stated) = Restrict(b, stated)
    BY <2>2 DEF Restrict
  <2>4. IsFiniteSet(stated)
    <3>1. IsFiniteSet(D)
      BY LinesFinite DEF D
    <3>2. stated \subseteq D
      BY <1>1
    <3> HIDE DEF stated
    <3> QED
      BY <3>1, <3>2, FS_Subset
  <2>5. SumFunction(Restrict(b, stated)) \in Int
    <3> HIDE DEF stated
    <3> QED
      BY <2>2, <2>4, SumIsInt
  <2> HIDE DEF stated
  <2> QED
    BY <1>4, <1>5, <1>7, <1>9, <2>1, <2>3, <2>5, Zenon DEF SumOf, a, b
<1> QED
  BY <1>8, <1>9

(* The gate FOOTING passes when the document adds up.                      *)
LEMMA FootingVerdict ==
  ASSUME NEW doc \in DocumentText, NEW ins
  PROVE  Judged(FootingTree, buildFactBundle(parse(doc), ins)) = "PASS" <=> AddsUp(doc)
<1> DEFINE inv == parse(doc)
           fb == buildFactBundle(inv, ins)
           n == Approx(Cent, Fact("declared_total"), Fact("line_sum"))
           t == inv.declared
           s == inv.lineSum
<1>1. /\ t = IF ~Footed(doc) THEN None
             ELSE IF doc.set = "PDF" THEN doc.declared ELSE money(doc.declared)
      /\ s = IF ~Footed(doc) THEN 0
             ELSE IF doc.corrected THEN doc.lineSum ELSE sumMoney(Amounts(ChargesOf(doc)))
  BY Parsed, Zenon
<1>2. fb["declared_total"] = MoneyFact(t, inv.header) /\ fb["line_sum"] = MoneyFact(s, inv.header)
  BY GateFacts, Zenon
<1> HIDE DEF inv, fb
<1>3. FootingTree \in Ast /\ FootingTree.type = "require" /\ FootingTree.then = n
      /\ FootingTree.key = "declared_total"
  BY GateTrees DEF FootingTree, Require
<1> HIDE DEF t, s
<1>4. /\ n \in Ast
      /\ evaluate(FootingTree, fb) = IF present(fb["declared_total"]) THEN evaluate(n, fb) ELSE Unassessable
  <2> HIDE DEF n
  <2> QED
    BY <1>3, RequireEvaluates
<1>5. NaN # None /\ NaN # Bad /\ None \notin Int /\ Bad \notin Int /\ NaN \notin Int /\ Bad # None
  BY DocumentAssumption
<1>6. doc.declared \in Amount /\ doc.lineSum \in Int \cup {None} /\ doc.corrected \in BOOLEAN
      /\ (doc.corrected => doc.set = "PDF")
  BY DocumentShape, Zenon
<1>7. LET v == sumMoney(Amounts(ChargesOf(doc)))
      IN  IF \E l \in ToSet(doc.lines) : l.amount = NaN THEN v = NaN
          ELSE v \in Int /\ v = SumOf(LineAmounts(doc))
  BY LineSums, Zenon
<1>8. t \in Amount /\ s \in Amount
  <2>1. sumMoney(Amounts(ChargesOf(doc))) \in Amount
    BY <1>7 DEF Amount
  <2>2. money(doc.declared) \in Amount
    BY <1>6 DEF money, Amount
  <2>3. 0 \in Amount /\ None \in Amount
    BY DEF Amount
  <2>4. doc.lineSum \in Amount
    BY <1>6 DEF Amount
  <2> QED
    BY <1>1, <1>6, <2>1, <2>2, <2>3, <2>4, Zenon
<1>9. Judged(FootingTree, fb) = "PASS" <=> t \in Int /\ s \in Int /\ magnitude(t - s) <= 1
  <2>1. /\ t \in Int /\ s \in Int => evaluate(n, fb) = Bool(magnitude(t - s) <= 1)
        /\ ~(t \in Int /\ s \in Int) => evaluate(n, fb) = Unassessable
    BY <1>2, <1>4, <1>8, ApproxEvaluates
  <2>2. present(fb["declared_total"]) <=> t # None
    BY <1>2, <1>8, MoneyEvaluates
  <2>3. /\ t \in Int /\ s \in Int => evaluate(FootingTree, fb) = Bool(magnitude(t - s) <= 1)
        /\ ~(t \in Int /\ s \in Int) => evaluate(FootingTree, fb) = Unassessable
    BY <1>4, <1>5, <2>1, <2>2, Zenon
  <2>4. verdict(Unassessable) = "UNASSESSABLE"
    BY DEF verdict, Unassessable
  <2>5. \A b \in BOOLEAN : verdict(Bool(b)) = "PASS" <=> b
    BY DEF verdict, Bool
  <2>6. (magnitude(t - s) <= 1) \in BOOLEAN
    OBVIOUS
  <2>7. CASE t \in Int /\ s \in Int
    BY <2>3, <2>5, <2>6, <2>7, Zenon DEF Judged
  <2>8. CASE ~(t \in Int /\ s \in Int)
    BY <2>3, <2>4, <2>8 DEF Judged
  <2> QED
    BY <2>7, <2>8
<1> DEFINE holds == t \in Int /\ s \in Int /\ magnitude(t - s) <= 1
<1>10. CASE doc.corrected
  <2>1. Footed(doc) <=> doc.lineSum # None
    BY <1>10, Zenon DEF Footed
  <2>2. /\ t = IF doc.lineSum = None THEN None ELSE doc.declared
        /\ s = IF doc.lineSum = None THEN 0 ELSE doc.lineSum
    BY <1>1, <1>6, <1>10, <2>1, Zenon
  <2>3. AddsUp(doc) <=> /\ doc.declared \notin {None, Bad, NaN}
                        /\ doc.lineSum # None /\ magnitude(doc.declared - doc.lineSum) <= 1
    BY <1>10, Zenon DEF AddsUp
  <2>4. holds <=> AddsUp(doc)
    BY <1>5, <1>6, <2>2, <2>3 DEF Amount
  <2> QED
    BY <1>9, <2>4 DEF fb, inv
<1>11. CASE ~doc.corrected
  <2> DEFINE v == sumMoney(Amounts(ChargesOf(doc)))
             w == SumOf(LineAmounts(doc))
             noNaN == \A l \in ToSet(doc.lines) : l.amount # NaN
  <2>1. IF noNaN THEN v \in Int /\ v = w ELSE v = NaN
    BY <1>7, Zenon
  <2>2. AddsUp(doc) <=> /\ doc.declared \notin {None, Bad, NaN} /\ noNaN
                        /\ magnitude(doc.declared - w) <= 1
    BY <1>11, Zenon DEF AddsUp
  <2> HIDE DEF v, w, noNaN
  <2>3. CASE doc.set # "PDF"
    <3>1. Footed(doc)
      BY <1>11, <2>3, Zenon DEF Footed
    <3>2. t = money(doc.declared) /\ s = v
      BY <1>1, <1>11, <2>3, <3>1, Zenon DEF v
    <3>3. holds <=> AddsUp(doc)
      BY <1>5, <1>6, <2>1, <2>2, <3>2 DEF Amount, money
    <3> QED
      BY <1>9, <3>3 DEF fb, inv
  <2>4. CASE doc.set = "PDF"
    <3>1. Footed(doc) <=> doc.declared # None
      <4>1. \A c \in ToSet(ChargesOf(doc)) : ~c.quarantined
        <5> SUFFICES ASSUME NEW i \in DOMAIN doc.lines
                     PROVE  ~ChargeOf(doc, doc.lines[i]).quarantined
          BY DEF ToSet, ChargesOf
        <5>1. ChargeOf(doc, doc.lines[i]) = pdfCharge(doc.lines[i])
          BY <1>11, <2>4, Zenon DEF ChargeOf
        <5>2. doc.lines[i].amount \in Int \cup {None}
          BY <2>4, DocumentShape, Zenon
        <5>3. money(doc.lines[i].amount) = doc.lines[i].amount
          BY <1>5, <5>2 DEF money
        <5>4. pdfCharge(doc.lines[i]).quarantined
                = (doc.lines[i].amount # None /\ money(doc.lines[i].amount) = None)
          BY Zenon DEF pdfCharge
        <5> QED
          BY <5>1, <5>3, <5>4, Zenon
      <4> QED
        BY <1>11, <2>4, <4>1, Zenon DEF Footed
    <3>2. /\ t = doc.declared
          /\ s = IF doc.declared = None THEN 0 ELSE v
      BY <1>1, <1>11, <2>4, <3>1, Zenon DEF v
    <3>3. holds <=> AddsUp(doc)
      BY <1>5, <1>6, <2>1, <2>2, <3>2 DEF Amount
    <3> QED
      BY <1>9, <3>3 DEF fb, inv
  <2> QED
    BY <2>3, <2>4
<1> QED
  BY <1>6, <1>10, <1>11

-----------------------------------------------------------------------------
(* The defects of a document, one by one.                                  *)
LEMMA DefectsListed ==
  ASSUME NEW doc \in DocumentText, NEW key
  PROVE  key \in Defects(doc) <=>
         LET lines == ToSet(doc.lines)
             lacks(set, field) == doc.set = set /\ field \notin doc.states
         IN  \/ key = "FOOTING" /\ ~AddsUp(doc)
             \/ key = "CURRENCY_STATED" /\ \E l \in lines : BilledIn(doc, l) = None
             \/ key = "AMOUNT_STATED" /\ \E l \in lines : l.amount \in {None, Bad}
             \/ key = "HAS_CHARGES" /\ lines = {}
             \/ key = "210.INVOICE_NUMBER" /\ lacks("210", "number")
             \/ key = "210.SHIPMENT_ID" /\ lacks("210", "reference")
             \/ key = "210.SCAC" /\ lacks("210", "scac")
             \/ key = "310.INVOICE_NUMBER" /\ lacks("310", "number")
             \/ key = "310.REFERENCE" /\ lacks("310", "reference")
             \/ key = "310.CONTAINER" /\ lacks("310", "container")
             \/ key = "310.VESSEL_VOYAGE" /\ lacks("310", "vessel")
             \/ key = "310.PORTS" /\ lacks("310", "ports")
             \/ key = "310.CHARGE_IDENTITY" /\ doc.set = "310"
                    /\ \E l \in lines : l.code = None /\ ~l.described
             \/ key = "310.CURRENCY_CODE_VALID" /\ doc.set = "310"
                    /\ \E l \in lines : BilledIn(doc, l) \notin Iso
<1> DEFINE lines == ToSet(doc.lines)
           lacks(set, field) == doc.set = set /\ field \notin doc.states
           missing == {f[2] : f \in {g \in RequiredFields(doc.set) : g[1] \notin doc.states}}
           A == ~AddsUp(doc)
           B == \E l \in lines : BilledIn(doc, l) = None
           C == \E l \in lines : l.amount \in {None, Bad}
           E == doc.set = "310" /\ \E l \in lines : l.code = None /\ ~l.described
           F == doc.set = "310" /\ \E l \in lines : BilledIn(doc, l) \notin Iso
<1>1. key \in Defects(doc) <=>
         \/ key \in (IF A THEN {"FOOTING"} ELSE {})
         \/ key \in (IF B THEN {"CURRENCY_STATED"} ELSE {})
         \/ key \in (IF C THEN {"AMOUNT_STATED"} ELSE {})
         \/ key \in (IF lines = {} THEN {"HAS_CHARGES"} ELSE {})
         \/ key \in missing
         \/ key \in (IF E THEN {"310.CHARGE_IDENTITY"} ELSE {})
         \/ key \in (IF F THEN {"310.CURRENCY_CODE_VALID"} ELSE {})
  BY Zenon DEF Defects
<1>2. key \in missing <=>
         \/ key = "210.INVOICE_NUMBER" /\ lacks("210", "number")
         \/ key = "210.SHIPMENT_ID" /\ lacks("210", "reference")
         \/ key = "210.SCAC" /\ lacks("210", "scac")
         \/ key = "310.INVOICE_NUMBER" /\ lacks("310", "number")
         \/ key = "310.REFERENCE" /\ lacks("310", "reference")
         \/ key = "310.CONTAINER" /\ lacks("310", "container")
         \/ key = "310.VESSEL_VOYAGE" /\ lacks("310", "vessel")
         \/ key = "310.PORTS" /\ lacks("310", "ports")
  <2>0. doc.set \in {"210", "310", "PDF"}
    BY DocumentShape, Zenon
  <2>m. key \in missing <=> \E f \in RequiredFields(doc.set) : f[1] \notin doc.states /\ key = f[2]
    BY Zenon
  <2> HIDE DEF missing
  <2>1. CASE doc.set = "210"
    <3>1. RequiredFields(doc.set) =
            {<<"number", "210.INVOICE_NUMBER">>, <<"reference", "210.SHIPMENT_ID">>,
             <<"scac", "210.SCAC">>}
      BY <2>1, Zenon DEF RequiredFields
    <3>2. (\E f \in RequiredFields(doc.set) : f[1] \notin doc.states /\ key = f[2]) <=>
             \/ "number" \notin doc.states /\ key = "210.INVOICE_NUMBER"
             \/ "reference" \notin doc.states /\ key = "210.SHIPMENT_ID"
             \/ "scac" \notin doc.states /\ key = "210.SCAC"
      BY <3>1
    <3> QED
      BY <2>m, <2>1, <3>2
  <2>2. CASE doc.set = "310"
    <3>1. RequiredFields(doc.set) =
            {<<"number", "310.INVOICE_NUMBER">>, <<"reference", "310.REFERENCE">>,
             <<"container", "310.CONTAINER">>, <<"vessel", "310.VESSEL_VOYAGE">>,
             <<"ports", "310.PORTS">>}
      BY <2>2, Zenon DEF RequiredFields
    <3>2. (\E f \in RequiredFields(doc.set) : f[1] \notin doc.states /\ key = f[2]) <=>
             \/ "number" \notin doc.states /\ key = "310.INVOICE_NUMBER"
             \/ "reference" \notin doc.states /\ key = "310.REFERENCE"
             \/ "container" \notin doc.states /\ key = "310.CONTAINER"
             \/ "vessel" \notin doc.states /\ key = "310.VESSEL_VOYAGE"
             \/ "ports" \notin doc.states /\ key = "310.PORTS"
      BY <3>1
    <3> QED
      BY <2>m, <2>2, <3>2
  <2>3. CASE doc.set = "PDF"
    <3>1. RequiredFields(doc.set) = {}
      BY <2>3, Zenon DEF RequiredFields
    <3> QED
      BY <2>m, <2>3, <3>1
  <2> QED
    BY <2>0, <2>1, <2>2, <2>3
<1> HIDE DEF lines, lacks, missing, A, B, C, E, F
<1>3. key \in Defects(doc) <=>
         \/ key = "FOOTING" /\ A
         \/ key = "CURRENCY_STATED" /\ B
         \/ key = "AMOUNT_STATED" /\ C
         \/ key = "HAS_CHARGES" /\ lines = {}
         \/ key \in missing
         \/ key = "310.CHARGE_IDENTITY" /\ E
         \/ key = "310.CURRENCY_CODE_VALID" /\ F
  BY <1>1, Zenon
<1> QED
  BY <1>2, <1>3, Zenon DEF lines, lacks, A, B, C, E, F

(* A gate fails when the document has the defect of its key.               *)
LEMMA GateFailures ==
  ASSUME NEW doc \in DocumentText, NEW ins, NEW contract
  PROVE  LET fb == buildFactBundle(parse(doc), ins)
             failed == {c \in rubricFor(contract) : c.kind = "GATING" /\ judge(c, fb) # "PASS"}
         IN  {c.key : c \in failed} = Defects(doc)
<1> DEFINE fb == buildFactBundle(parse(doc), ins)
           failed == {c \in rubricFor(contract) : c.kind = "GATING" /\ judge(c, fb) # "PASS"}
           passes(tree) == Judged(tree, fb) = "PASS"
           lines == ToSet(doc.lines)
           requires(set, field) == doc.set # set \/ field \in doc.states
           B == \E l \in lines : BilledIn(doc, l) = None
           C == \E l \in lines : l.amount \in {None, Bad}
           E == \E l \in lines : l.code = None /\ ~l.described
           F == \E l \in lines : BilledIn(doc, l) \notin Iso
<1> SUFFICES ASSUME NEW key PROVE key \in {c.key : c \in failed} <=> key \in Defects(doc)
  BY Zenon
<1>1. key \in {c.key : c \in failed} <=>
        GateFails(contract, fb, key)
  BY Zenon DEF GateFails
<1>2. passes(FootingTree) <=> AddsUp(doc)
  BY FootingVerdict, Zenon
<1>3. /\ passes(Holds("all_currencies_stated")) <=> ~ B
      /\ passes(Holds("all_amounts_stated")) <=> ~ C
      /\ passes(ChargesTree) <=> lines # {}
      /\ passes(Holds("required_210_invoice_number")) <=> requires("210", "number")
      /\ passes(Holds("required_210_shipment_id")) <=> requires("210", "reference")
      /\ passes(Holds("required_210_scac")) <=> requires("210", "scac")
      /\ passes(Holds("required_310_invoice_number")) <=> requires("310", "number")
      /\ passes(Holds("required_310_reference")) <=> requires("310", "reference")
      /\ passes(Holds("required_310_container")) <=> requires("310", "container")
      /\ passes(Holds("required_310_vessel_voyage")) <=> requires("310", "vessel")
      /\ passes(Holds("required_310_ports")) <=> requires("310", "ports")
      /\ passes(Holds("required_310_charge_identity"))
             <=> (doc.set # "310" \/ ~ E)
      /\ passes(Holds("valid_310_currency_codes"))
             <=> (doc.set # "310" \/ ~ F)
  BY GateVerdicts, Zenon
<1>4. GateFails(contract, fb, key) <=> KeyFails(fb, key)
  <2> HIDE DEF fb
  <2> QED
    BY GatesByKey
<1>5. key \in Defects(doc) <=>
         LET lacks(set, field) == ~requires(set, field)
         IN  \/ key = "FOOTING" /\ ~AddsUp(doc)
             \/ key = "CURRENCY_STATED" /\ B
             \/ key = "AMOUNT_STATED" /\ C
             \/ key = "HAS_CHARGES" /\ lines = {}
             \/ key = "210.INVOICE_NUMBER" /\ lacks("210", "number")
             \/ key = "210.SHIPMENT_ID" /\ lacks("210", "reference")
             \/ key = "210.SCAC" /\ lacks("210", "scac")
             \/ key = "310.INVOICE_NUMBER" /\ lacks("310", "number")
             \/ key = "310.REFERENCE" /\ lacks("310", "reference")
             \/ key = "310.CONTAINER" /\ lacks("310", "container")
             \/ key = "310.VESSEL_VOYAGE" /\ lacks("310", "vessel")
             \/ key = "310.PORTS" /\ lacks("310", "ports")
             \/ key = "310.CHARGE_IDENTITY"
                    /\ ~(doc.set # "310" \/ ~ E)
             \/ key = "310.CURRENCY_CODE_VALID"
                    /\ ~(doc.set # "310" \/ ~ F)
  BY DefectsListed, Zenon
<1> HIDE DEF fb, requires, lines, failed, B, C, E, F
<1> QED
  BY <1>1, <1>2, <1>3, <1>4, <1>5 DEF KeyFails

-----------------------------------------------------------------------------
(* The run there is, is the audit of a document with the answers and the   *)
(* rate that were found at the time.                                       *)
AnswersOf(contract, row, duplicate, match) ==
    [duplicate |-> duplicate, match |-> match, contracted |-> contract # "none", rate |-> row]

RunAudits(doc, contract, ins) ==
    LET inv == parse(doc)
        result == evaluateInvoice(inv, rubricFor(contract), ins)
    IN  /\ run.document = doc /\ run.contract = contract
        /\ run.varianceFindings = varianceFindings(inv, result.findings)
        /\ run.manifest.resolvedInputs = ins /\ run.manifest.result = result

RunInv ==
    run # None =>
        \E doc \in Document, contract \in {"none", "known", "unknown"}, row \in Rate \cup {None},
           duplicate \in BOOLEAN \cup {None}, match \in BOOLEAN \cup {None} :
            /\ contract # "known" => row = None
            /\ RunAudits(doc, contract, AnswersOf(contract, row, duplicate, match))

AuditInv == rate \in Rate \cup {None} /\ RunInv

(* AuditInv is an invariant: rates change and runs are replayed, what the  *)
(* run recorded stays.                                                     *)
THEOREM RunIsAnAudit == Spec => []AuditInv
<1>1. Init => AuditInv
  BY DEF Init, AuditInv, RunInv
<1>2. AuditInv /\ [Next]_vars => AuditInv'
  <2> SUFFICES ASSUME AuditInv, [Next]_vars PROVE AuditInv'
    OBVIOUS
  <2>0. ASSUME run' = run PROVE RunInv'
    BY <2>0 DEF AuditInv, RunInv, RunAudits
  <2>1. ASSUME NEW doc \in Document, NEW contract \in {"none", "known", "unknown"},
               ingest(doc, contract)
        PROVE  AuditInv'
    <3> DEFINE inv == parse(doc)
    <3>1. PICK duplicate \in AnswersTo(inv, "number"), match \in AnswersTo(inv, "reference") :
             LET inputs == resolvedInputs(contract, duplicate, match)
                 result == evaluateInvoice(inv, rubricFor(contract), inputs)
             IN  persistAuditRun(doc, contract, inv, inputs, result)
      BY <2>1 DEF ingest
    <3>a. PICK row : row = lookupContractRate(contract)
      OBVIOUS
    <3> DEFINE ins == AnswersOf(contract, row, duplicate, match)
               result == evaluateInvoice(inv, rubricFor(contract), ins)
    <3>2. duplicate \in BOOLEAN \cup {None} /\ match \in BOOLEAN \cup {None}
      BY <3>1, Zenon DEF AnswersTo
    <3>3. row \in Rate \cup {None} /\ (contract # "known" => row = None)
      BY <3>a DEF lookupContractRate, AuditInv
    <3>4. resolvedInputs(contract, duplicate, match) = ins
      BY <3>a, Zenon DEF resolvedInputs, AnswersOf
    <3> HIDE DEF inv, ins
    <3>5. run' = [document |-> doc, contract |-> contract,
                  varianceFindings |-> varianceFindings(inv, result.findings),
                  decision |-> paymentDecision(result),
                  manifest |-> [contractVersions |-> contractPins(contract),
                                resolvedInputs |-> ins, invoice |-> inv,
                                result |-> result]]
      BY <3>1, <3>4 DEF persistAuditRun
    <3> HIDE DEF result
    <3>6. /\ run'.document = doc /\ run'.contract = contract
          /\ run'.varianceFindings = varianceFindings(inv, result.findings)
          /\ run'.manifest.resolvedInputs = ins /\ run'.manifest.result = result
      BY <3>5
    <3>7. RunAudits(doc, contract, ins)'
      BY <3>6 DEF RunAudits, result, inv
    <3>8. rate' \in Rate \cup {None}
      BY <2>1 DEF ingest, AuditInv
    <3>9. RunInv'
      BY <3>2, <3>3, <3>7, Zenon DEF RunInv, ins
    <3> QED
      BY <3>8, <3>9 DEF AuditInv
  <2>2. ASSUME NEW row \in Rate \cup {None}, changeContractRate(row) PROVE AuditInv'
    BY <2>0, <2>2 DEF changeContractRate, AuditInv
  <2>3. CASE upsertPaymentPolicy
    BY <2>0, <2>3 DEF upsertPaymentPolicy, AuditInv
  <2>4. CASE replayAuditRun
    BY <2>0, <2>4 DEF replayAuditRun, AuditInv
  <2>5. CASE UNCHANGED vars
    BY <2>0, <2>5 DEF vars, AuditInv
  <2> QED
    BY <2>1, <2>2, <2>3, <2>4, <2>5 DEF Next
<1> QED
  BY <1>1, <1>2, PTL DEF Spec

KeysOf(S) == {c.key : c \in S}
FailedGates(rubric, fb) == {c \in rubric : c.kind = "GATING" /\ judge(c, fb) # "PASS"}
Scores(rubric) == {c \in rubric : c.kind = "SCORING"}
Findings(rubric, fb) ==
    IF FailedGates(rubric, fb) = {} THEN {finding(c, fb) : c \in Scores(rubric)} ELSE {}

(* What evaluateInvoice returns.                                           *)
LEMMA Evaluated ==
  ASSUME NEW inv, NEW rubric, NEW ins
  PROVE  LET result == evaluateInvoice(inv, rubric, ins)
             fb == buildFactBundle(inv, ins)
             failed == FailedGates(rubric, fb)
         IN  /\ result.outcome = IF failed = {} THEN "SCORED" ELSE "REJECTED_REWORK"
             /\ KeysOf(result.gateFailures) = KeysOf(failed)
             /\ result.findings = Findings(rubric, fb)
             /\ result.scorecard = IF failed = {} THEN scorecardOf(Findings(rubric, fb)) ELSE None
<1> DEFINE fb == buildFactBundle(inv, ins)
           nested == {c \in {d \in rubric : d.kind = "GATING"} : judge(c, fb) # "PASS"}
           found == IF nested = {} THEN {finding(c, fb) : c \in Scores(rubric)} ELSE {}
           result == evaluateInvoice(inv, rubric, ins)
<1>1. nested = FailedGates(rubric, fb)
  BY DEF FailedGates
<1>2. /\ result.outcome = IF nested = {} THEN "SCORED" ELSE "REJECTED_REWORK"
      /\ result.gateFailures = {[key |-> c.key, verdict |-> judge(c, fb)] : c \in nested}
      /\ result.findings = found
      /\ result.scorecard = IF nested = {} THEN scorecardOf(found) ELSE None
  BY Zenon DEF evaluateInvoice, Scores
<1> HIDE DEF nested, result, fb
<1>3. found = Findings(rubric, fb)
  BY <1>1 DEF Findings
<1> HIDE DEF found
<1>4. KeysOf(result.gateFailures) = KeysOf(nested)
  <2> DEFINE failure(c) == [key |-> c.key, verdict |-> judge(c, fb)]
  <2>1. \A c : failure(c).key = c.key
    OBVIOUS
  <2>2. result.gateFailures = {failure(c) : c \in nested}
    BY <1>2, Zenon
  <2> HIDE DEF failure
  <2> QED
    BY <2>1, <2>2 DEF KeysOf
<1> QED
  BY <1>1, <1>2, <1>3, <1>4, Zenon DEF result, fb

(* The carrier is sent back every defect of its invoice and nothing else,  *)
(* whatever the document: each gate of evaluateInvoice fails exactly when  *)
(* the document, as parsed, has the defect the gate is named for.          *)
THEOREM EveryDefectIsSentBack == Spec => []KickbackIsComplete
<1>1. AuditInv => KickbackIsComplete
  <2> SUFFICES ASSUME AuditInv, run # None
               PROVE  /\ {g.key : g \in Result.gateFailures} = Defects(run.document)
                      /\ Result.outcome = "SCORED" <=> Defects(run.document) = {}
    BY Zenon DEF KickbackIsComplete
  <2>1. PICK doc \in Document, contract \in {"none", "known", "unknown"} :
           \E ins : RunAudits(doc, contract, ins)
    BY DEF AuditInv, RunInv
  <2>1b. PICK ins : RunAudits(doc, contract, ins)
    BY <2>1
  <2> DEFINE fb == buildFactBundle(parse(doc), ins)
             failed == FailedGates(rubricFor(contract), fb)
  <2>2. doc \in DocumentText
    BY DocumentAssumption
  <2>3. KeysOf(failed) = Defects(doc)
    BY <2>2, GateFailures, Zenon DEF FailedGates, KeysOf
  <2>4. /\ Result.outcome = IF failed = {} THEN "SCORED" ELSE "REJECTED_REWORK"
        /\ KeysOf(Result.gateFailures) = KeysOf(failed)
        /\ run.document = doc
    <3>1. run.document = doc /\ Result = evaluateInvoice(parse(doc), rubricFor(contract), ins)
      BY <2>1b, Zenon DEF RunAudits, Result
    <3> QED
      BY <3>1, Evaluated, Zenon
  <2> HIDE DEF fb, failed
  <2>5. failed = {} <=> KeysOf(failed) = {}
    BY Zenon DEF KeysOf
  <2> QED
    BY <2>3, <2>4, <2>5 DEF KeysOf
<1> QED
  BY <1>1, RunIsAnAudit, PTL

-----------------------------------------------------------------------------
(* One step of unwrapRequires.                                             *)
NodeBottom(n, g, fb) == IF n.type = "require" /\ present(fb[n.key]) THEN g[n.then] ELSE n

(* unwrapRequires, with its recursive function written out.                *)
LEMMA UnwrapExpanded ==
  ASSUME NEW fb, NEW node
  PROVE  unwrapRequires(node, fb) = (CHOOSE g : g = [n \in Ast |-> NodeBottom(n, g, fb)])[node]
BY DEF unwrapRequires, NodeBottom

(* The recursion equation of unwrapRequires.                               *)
LEMMA UnwrapRecursion ==
  ASSUME NEW fb
  PROVE  \A n \in Ast : unwrapRequires(n, fb) =
            IF n.type = "require" /\ present(fb[n.key]) THEN unwrapRequires(n.then, fb) ELSE n
<1> DEFINE F == [p \in [Ast -> Ast] \X Ast |-> NodeBottom(p[2], p[1], fb)]
<1>0. \A n \in Ast : n.type = "require" => n.then \in Ast /\ Depth[n.then] < Depth[n]
  BY AstAssumption
<1>1. ASSUME NEW g \in [Ast -> Ast], NEW n \in Ast
      PROVE  NodeBottom(n, g, fb) \in Ast
  BY <1>0 DEF NodeBottom
<1>2. ASSUME NEW g, NEW h, NEW n \in Ast,
             \A m \in Ast : Depth[m] < Depth[n] => g[m] = h[m]
      PROVE  NodeBottom(n, g, fb) = NodeBottom(n, h, fb)
  BY <1>0, <1>2 DEF NodeBottom
<1>3. F \in [[Ast -> Ast] \X Ast -> Ast]
  BY <1>1
<1>4. ASSUME NEW g \in [Ast -> Ast], NEW h \in [Ast -> Ast], NEW n \in Ast,
             \A m \in Ast : Depth[m] < Depth[n] => g[m] = h[m]
      PROVE  F[<<g, n>>] = F[<<h, n>>]
  BY <1>2, <1>4
<1>5. [Ast -> Ast] # {}
  <2>1. [n \in Ast |-> n] \in [Ast -> Ast]
    OBVIOUS
  <2> QED
    BY <2>1
<1>6. \A g \in [Ast -> Ast], n \in Ast : F[<<g, n>>] = NodeBottom(n, g, fb)
  OBVIOUS
<1>7. Depth \in [Ast -> Nat]
  BY AstAssumption
<1>7a. LooksBelow(F, Ast, Ast, Depth)
  BY <1>3, <1>4, <1>5, <1>7 DEF LooksBelow
<1> HIDE DEF F
<1>8. PICK g \in [Ast -> Ast] : \A n \in Ast : g[n] = F[<<g, n>>]
  BY <1>7a, FixedPoint
<1> DEFINE Fixed(f) == f = [n \in Ast |-> NodeBottom(n, f, fb)]
<1>9. Fixed(g)
  <2>1. \A n \in Ast : g[n] = NodeBottom(n, g, fb)
    BY <1>6, <1>8
  <2> QED
    BY <1>8, <2>1
<1> DEFINE E == CHOOSE f : Fixed(f)
<1>10. Fixed(E)
  BY <1>9
<1>11. \A n \in Ast : unwrapRequires(n, fb) = E[n]
  BY UnwrapExpanded
<1> HIDE DEF E
<1>12. \A n \in Ast : E[n] = NodeBottom(n, E, fb)
  BY <1>10
<1> QED
  BY <1>0, <1>11, <1>12 DEF NodeBottom

-----------------------------------------------------------------------------
(* A comparison with a literal that is not money has no price.             *)
LEMMA LiteralHasNoPrice ==
  ASSUME NEW fb, NEW n \in Ast, n.type = "compare", n.args[2].type = "lit",
         n.args[2].value[1] \in {"bool", "number"}
  PROVE  moneyVarianceDelta(n, fb) = None
<1>1. unwrapRequires(n, fb) = n
  BY UnwrapRecursion
<1>2. n.args[2] \in Ast
  BY CompareEvaluates
<1> DEFINE r == n.args[2]
<1>3. evaluate(r, fb) = factValue(r.value)
  BY <1>2, LeavesEvaluate
<1>4. r.value[1] \notin {"absent", "malformed"} /\ r.value[1] # "money"
  OBVIOUS
<1> HIDE DEF r
<1>5. factValue(r.value) = r.value
  BY <1>4, Zenon DEF factValue
<1>6. evaluate(r, fb)[1] # "money"
  BY <1>3, <1>4, <1>5
<1> QED
  BY <1>1, <1>6, Zenon DEF moneyVarianceDelta, r

(* Nor has it behind a require.                                            *)
LEMMA RequiredHasNoPrice ==
  ASSUME NEW fb, NEW n \in Ast, n.type = "require", n.then.type = "compare",
         n.then.args[2].type = "lit", n.then.args[2].value[1] \in {"bool", "number"}
  PROVE  moneyVarianceDelta(n, fb) = None
<1>1. n.then \in Ast
  BY RequireEvaluates
<1>2. CASE present(fb[n.key])
  <2>1. unwrapRequires(n, fb) = unwrapRequires(n.then, fb)
    BY <1>2, UnwrapRecursion
  <2>2. moneyVarianceDelta(n.then, fb) = None
    BY <1>1, LiteralHasNoPrice
  <2> QED
    BY <2>1, <2>2, Zenon DEF moneyVarianceDelta
<1>3. CASE ~present(fb[n.key])
  <2>1. unwrapRequires(n, fb) = n
    BY <1>3, UnwrapRecursion
  <2>2. ~(n.type = "compare")
    OBVIOUS
  <2> QED
    BY <2>1, <2>2, Zenon DEF moneyVarianceDelta
<1> QED
  BY <1>2, <1>3

(* The scoring criteria of the standard rubric, and of the contract's.     *)
StandardScores == {c \in STANDARD_RUBRIC : c.kind = "SCORING"}

(* A contract adds RATE_VARIANCE to the scores of the standard rubric.     *)
LEMMA ScoresOf ==
  ASSUME NEW contract
  PROVE  Scores(rubricFor(contract)) =
            StandardScores \cup (IF contract = "none" THEN {} ELSE {RateVariance})
<1>1. RateVariance.kind = "SCORING"
  BY DEF RateVariance, Score
<1> QED
  BY <1>1 DEF Scores, StandardScores, rubricFor, CONTRACT_RUBRIC

(* The keys of the scoring criteria.                                       *)
ScoreKeys == {"NO_QUARANTINED_CODES", "FUEL_PRESENT", "DUPLICATE_INVOICE",
    "SHIPMENT_REFERENCE_MATCH", "RATE_BASIS_ARITHMETIC", "310.CURRENCY_CONSISTENCY",
    "SUSPICIOUS_MISSING_DATA"}

NotTwice(S) == \A c, d \in S : c.key = d.key => c = d

(* They are finitely many, have keys of their own, and none of them prices *)
(* a difference.                                                           *)
LEMMA StandardScoresListed ==
  /\ IsFiniteSet(StandardScores) /\ NotTwice(StandardScores)
  /\ \A c \in StandardScores :
        /\ c.key \in ScoreKeys
        /\ \A fb : moneyVarianceDelta(c.ast, fb) = None
<1> DEFINE s1 == Score("NO_QUARANTINED_CODES", IsZero("quarantined_count"))
           s2 == Score("FUEL_PRESENT", Holds("has_fuel_category"))
           s3 == Score("DUPLICATE_INVOICE",
                    Require("duplicate_invoice",
                        Compare("eq", Fact("duplicate_invoice"), Lit(Bool(FALSE)))))
           s4 == Score("SHIPMENT_REFERENCE_MATCH",
                    Require("shipment_reference_match", Holds("shipment_reference_match")))
           s5 == Score("RATE_BASIS_ARITHMETIC",
                    Require("rate_basis_arithmetic_matches",
                        Holds("rate_basis_arithmetic_matches")))
           s6 == Score("310.CURRENCY_CONSISTENCY", Holds("consistent_310_charge_currencies"))
           s7 == Score("SUSPICIOUS_MISSING_DATA", IsZero("suspicious_missing_data_count"))
           all == {s1, s2, s3, s4, s5, s6, s7}
<1>1. \A k, tree : Gate(k, tree).kind # "SCORING"
  BY DEF Gate
<1>2. \A k, tree : /\ Score(k, tree).kind = "SCORING" /\ Score(k, tree).key = k
                   /\ Score(k, tree).ast = tree
  BY DEF Score
<1>3. StandardScores = all
  <2>1. \A c \in STANDARD_RUBRIC : c.kind = "SCORING" => c \in all
    <3> SUFFICES ASSUME NEW c \in STANDARD_RUBRIC, c.kind = "SCORING" PROVE c \in all
      OBVIOUS
    <3>1. \A k, tree : c # Gate(k, tree)
      BY <1>1
    <3> QED
      BY <3>1, ZenonT(60) DEF STANDARD_RUBRIC
  <2>2. all \subseteq STANDARD_RUBRIC
    BY DEF STANDARD_RUBRIC
  <2>3. \A c \in all : c.kind = "SCORING"
    <3>1. /\ s1.kind = "SCORING" /\ s2.kind = "SCORING" /\ s3.kind = "SCORING"
          /\ s4.kind = "SCORING" /\ s5.kind = "SCORING" /\ s6.kind = "SCORING"
          /\ s7.kind = "SCORING"
      BY <1>2
    <3> HIDE DEF s1, s2, s3, s4, s5, s6, s7
    <3> QED
      BY <3>1
  <2> HIDE DEF all
  <2> QED
    BY <2>1, <2>2, <2>3 DEF StandardScores
<1>4. /\ s1.key = "NO_QUARANTINED_CODES" /\ s2.key = "FUEL_PRESENT" /\ s3.key = "DUPLICATE_INVOICE"
      /\ s4.key = "SHIPMENT_REFERENCE_MATCH" /\ s5.key = "RATE_BASIS_ARITHMETIC"
      /\ s6.key = "310.CURRENCY_CONSISTENCY" /\ s7.key = "SUSPICIOUS_MISSING_DATA"
  BY <1>2
<1>5. \A c \in all : c.ast \in Ast
  <2>1. StandardScores \subseteq CONTRACT_RUBRIC
    BY DEF StandardScores, CONTRACT_RUBRIC
  <2> HIDE DEF all
  <2> QED
    BY <1>3, <2>1, RubricAssumption
<1>6. /\ Bool(TRUE)[1] = "bool" /\ Bool(FALSE)[1] = "bool" /\ Number(Zero)[1] = "number"
  BY DEF Bool, Number
<1> DEFINE Plain(n) == n.type = "compare" /\ n.args[2].type = "lit"
                       /\ n.args[2].value[1] \in {"bool", "number"}
<1>7. /\ \A k : Plain(Holds(k)) /\ Plain(IsZero(k))
      /\ Plain(Compare("eq", Fact("duplicate_invoice"), Lit(Bool(FALSE))))
  BY <1>6 DEF Holds, IsZero, Compare, Lit
<1>8. \A k, n : Require(k, n).type = "require" /\ Require(k, n).then = n
  BY DEF Require
<1>9. \A c \in all : Plain(c.ast) \/ (c.ast.type = "require" /\ Plain(c.ast.then))
  <2> HIDE DEF Plain
  <2>1. Plain(s1.ast) /\ Plain(s2.ast) /\ Plain(s6.ast) /\ Plain(s7.ast)
    BY <1>2, <1>7
  <2>2. /\ s3.ast.type = "require" /\ Plain(s3.ast.then)
        /\ s4.ast.type = "require" /\ Plain(s4.ast.then)
        /\ s5.ast.type = "require" /\ Plain(s5.ast.then)
    <3>1. /\ s3.ast = Require("duplicate_invoice",
                     Compare("eq", Fact("duplicate_invoice"), Lit(Bool(FALSE))))
          /\ s4.ast = Require("shipment_reference_match", Holds("shipment_reference_match"))
          /\ s5.ast = Require("rate_basis_arithmetic_matches",
                               Holds("rate_basis_arithmetic_matches"))
      BY <1>2
    <3> HIDE DEF s3, s4, s5
    <3>2. s3.ast.type = "require" /\ s4.ast.type = "require" /\ s5.ast.type = "require"
      <4>1. \A k, n : Require(k, n).type = "require"
        BY <1>8
      <4> QED
        BY <4>1, <3>1, Zenon
    <3>3. /\ s3.ast.then = Compare("eq", Fact("duplicate_invoice"), Lit(Bool(FALSE)))
          /\ s4.ast.then = Holds("shipment_reference_match")
          /\ s5.ast.then = Holds("rate_basis_arithmetic_matches")
      BY <1>8, <3>1
    <3> QED
      BY <1>7, <3>2, <3>3, Zenon
  <2> HIDE DEF s1, s2, s3, s4, s5, s6, s7
  <2> QED
    BY <2>1, <2>2, Zenon
<1>10. \A c \in all : \A fb : moneyVarianceDelta(c.ast, fb) = None
  <2> HIDE DEF all
  <2> QED
    BY <1>5, <1>9, LiteralHasNoPrice, RequiredHasNoPrice
<1> HIDE DEF s1, s2, s3, s4, s5, s6, s7
<1>11. IsFiniteSet(all)
  <2>1. \A S, x : IsFiniteSet(S) => IsFiniteSet(S \cup {x})
    BY FS_AddElement
  <2>2. IsFiniteSet({s1})
    BY FS_Singleton
  <2>3. IsFiniteSet(({s1} \cup {s2}) \cup {s3})
    BY <2>1, <2>2, Zenon
  <2>4. IsFiniteSet(((({s1} \cup {s2}) \cup {s3}) \cup {s4}) \cup {s5})
    BY <2>1, <2>3, Zenon
  <2>5. IsFiniteSet(((((({s1} \cup {s2}) \cup {s3}) \cup {s4}) \cup {s5}) \cup {s6}) \cup {s7})
    BY <2>1, <2>4, Zenon
  <2>6. all = ((((({s1} \cup {s2}) \cup {s3}) \cup {s4}) \cup {s5}) \cup {s6}) \cup {s7}
    OBVIOUS
  <2> QED
    BY <2>5, <2>6
<1>12. NotTwice(all) /\ \A c \in all : c.key \in ScoreKeys
  BY <1>4 DEF NotTwice, ScoreKeys
<1> HIDE DEF all
<1> QED
  BY <1>3, <1>10, <1>11, <1>12

-----------------------------------------------------------------------------
(* What a finding says of its criterion.                                   *)
LEMMA FindingSays ==
  ASSUME NEW c, NEW fb
  PROVE  LET f == finding(c, fb)
             given == judge(c, fb)
             price == moneyVarianceDelta(c.ast, fb)
         IN  /\ f.key = c.key
             /\ given \in {"PASS", "FAIL", "UNASSESSABLE"}
             /\ f.result \in {"CONFORMED", "VARIANCE", "UNASSESSABLE"}
             /\ f.result = "CONFORMED" <=> given = "PASS"
             /\ f.result = "VARIANCE" <=> given = "FAIL"
             /\ ~(given = "FAIL" /\ price # None) =>
                    f.amount = None /\ f.currency = None /\ f.direction = "INTEGRITY_ONLY"
             /\ given = "FAIL" /\ price # None =>
                    /\ f.amount = price.delta /\ f.currency = price.currency
                    /\ f.direction = IF price.delta[1] < 0 THEN "UNDERCHARGE" ELSE "OVERCHARGE"
<1> DEFINE f == finding(c, fb)
           given == judge(c, fb)
           price == moneyVarianceDelta(c.ast, fb)
           priced == given = "FAIL" /\ price # None
<1>1. given \in {"PASS", "FAIL", "UNASSESSABLE"}
  BY DEF judge, verdict
<1>2. /\ f.key = c.key
      /\ f.result = CASE given = "PASS" -> "CONFORMED" [] given = "FAIL" -> "VARIANCE"
                      [] OTHER -> "UNASSESSABLE"
      /\ f.amount = IF priced THEN price.delta ELSE None
      /\ f.currency = IF priced THEN price.currency ELSE None
      /\ f.direction = IF ~priced THEN "INTEGRITY_ONLY"
                       ELSE IF price.delta[1] < 0 THEN "UNDERCHARGE" ELSE "OVERCHARGE"
  BY Zenon DEF finding, ChargeFinding
<1> HIDE DEF f, given, price
<1>3. /\ given = "PASS" => f.result = "CONFORMED"
      /\ given = "FAIL" => f.result = "VARIANCE"
      /\ given = "UNASSESSABLE" => f.result = "UNASSESSABLE"
  <2>1. CASE given = "PASS"
    BY <1>2, <2>1, Zenon
  <2>2. CASE given = "FAIL"
    BY <1>2, <2>2, Zenon
  <2>3. CASE given = "UNASSESSABLE"
    BY <1>2, <2>3, Zenon
  <2> QED
    BY <1>1, <2>1, <2>2, <2>3
<1>4. /\ f.result \in {"CONFORMED", "VARIANCE", "UNASSESSABLE"}
      /\ f.result = "CONFORMED" <=> given = "PASS"
      /\ f.result = "VARIANCE" <=> given = "FAIL"
  BY <1>1, <1>3
<1>5. ~priced => f.amount = None /\ f.currency = None /\ f.direction = "INTEGRITY_ONLY"
  BY <1>2, Zenon
<1>6. priced => /\ f.amount = price.delta /\ f.currency = price.currency
                /\ f.direction = IF price.delta[1] < 0 THEN "UNDERCHARGE" ELSE "OVERCHARGE"
  BY <1>2, Zenon
<1> QED
  BY <1>1, <1>2, <1>4, <1>5, <1>6, Zenon DEF f, given, price

-----------------------------------------------------------------------------
RateApprox == Approx(Cent, Fact("billed_linehaul"), Fact("contract_linehaul_rate"))

(* The tree of RATE_VARIANCE: three requires above one comparison.         *)
LEMMA RateVarianceTree ==
  LET n1 == RateVariance.ast
      n2 == n1.then
      n3 == n2.then
  IN  /\ RateVariance.key = "RATE_VARIANCE" /\ RateVariance.kind = "SCORING"
      /\ n1 \in Ast /\ n2 \in Ast /\ n3 \in Ast /\ RateApprox \in Ast /\ n3.then = RateApprox
      /\ n1.type = "require" /\ n1.key = "billed_linehaul"
      /\ n2.type = "require" /\ n2.key = "contract_linehaul_rate"
      /\ n3.type = "require" /\ n3.key = "linehaul_currencies_match"
<1> DEFINE n1 == RateVariance.ast
           n2 == n1.then
           n3 == n2.then
<1>1. /\ RateVariance.key = "RATE_VARIANCE" /\ RateVariance.kind = "SCORING"
      /\ n3.then = RateApprox
      /\ n1.type = "require" /\ n1.key = "billed_linehaul"
      /\ n2.type = "require" /\ n2.key = "contract_linehaul_rate"
      /\ n3.type = "require" /\ n3.key = "linehaul_currencies_match"
  BY DEF RateVariance, Score, Require, RateApprox
<1>2. n1 \in Ast
  BY RubricAssumption DEF CONTRACT_RUBRIC
<1>3. n2 \in Ast
  BY <1>1, <1>2, AstAssumption
<1>4. n3 \in Ast
  BY <1>1, <1>3, AstAssumption
<1>5. RateApprox \in Ast
  BY <1>1, <1>4, AstAssumption
<1> QED
  BY <1>1, <1>2, <1>3, <1>4, <1>5

(* What RATE_VARIANCE says of x against y: it compares when both are       *)
(* numbers and the currencies agree, and prices the difference.            *)
RateJudgement(fb, x, y, currency) ==
    LET compared == x \in Int /\ y \in Int /\ present(fb["linehaul_currencies_match"])
        given == judge(RateVariance, fb)
    IN  /\ compared => /\ given = IF magnitude(x - y) <= 1 THEN "PASS" ELSE "FAIL"
                       /\ moneyVarianceDelta(RateVariance.ast, fb)
                             = [delta |-> Cents(x - y), currency |-> currency]
        /\ ~compared => given = "UNASSESSABLE"

(* It says so on any bundle whose two money facts are x and y.             *)
LEMMA RateVarianceJudged ==
  ASSUME NEW fb, NEW x \in Amount, NEW y \in Amount, NEW cx, NEW cy,
         fb["billed_linehaul"] = MoneyFact(x, cx),
         fb["contract_linehaul_rate"] = MoneyFact(y, cy)
  PROVE  RateJudgement(fb, x, y, cx)
<1> DEFINE n1 == RateVariance.ast
           n2 == n1.then
           n3 == n2.then
           b == present(fb["billed_linehaul"])
           r == present(fb["contract_linehaul_rate"])
           m == present(fb["linehaul_currencies_match"])
           compared == x \in Int /\ y \in Int /\ m
<1>1. /\ n1 \in Ast /\ n2 \in Ast /\ n3 \in Ast /\ RateApprox \in Ast /\ n3.then = RateApprox
      /\ n1.type = "require" /\ n1.key = "billed_linehaul"
      /\ n2.type = "require" /\ n2.key = "contract_linehaul_rate"
      /\ n3.type = "require" /\ n3.key = "linehaul_currencies_match"
  BY RateVarianceTree
<1> HIDE DEF n1, n2, n3
<1>2. /\ evaluate(n1, fb) = IF b THEN evaluate(n2, fb) ELSE Unassessable
      /\ evaluate(n2, fb) = IF r THEN evaluate(n3, fb) ELSE Unassessable
      /\ evaluate(n3, fb) = IF m THEN evaluate(RateApprox, fb) ELSE Unassessable
  BY <1>1, RequireEvaluates DEF n2, n3
<1>3. /\ unwrapRequires(n1, fb) = IF b THEN unwrapRequires(n2, fb) ELSE n1
      /\ unwrapRequires(n2, fb) = IF r THEN unwrapRequires(n3, fb) ELSE n2
      /\ unwrapRequires(n3, fb) = IF m THEN unwrapRequires(RateApprox, fb) ELSE n3
  BY <1>1, UnwrapRecursion DEF n2, n3
<1>4. /\ RateApprox.type = "compare"
      /\ evaluate(RateApprox.args[1], fb) = factValue(MoneyFact(x, cx))
      /\ evaluate(RateApprox.args[2], fb) = factValue(MoneyFact(y, cy))
      /\ x \in Int /\ y \in Int => evaluate(RateApprox, fb) = Bool(magnitude(x - y) <= 1)
      /\ ~(x \in Int /\ y \in Int) => evaluate(RateApprox, fb) = Unassessable
  BY <1>1, ApproxEvaluates DEF RateApprox
<1>5. unwrapRequires(RateApprox, fb) = RateApprox
  BY <1>1, <1>4, UnwrapRecursion
<1>6. /\ b <=> x # None
      /\ r <=> y # None
  BY MoneyEvaluates
<1>7. None \notin Int
  BY DocumentAssumption
<1>8. CASE compared
  <2>1. evaluate(n1, fb) = Bool(magnitude(x - y) <= 1)
    BY <1>2, <1>4, <1>6, <1>7, <1>8, Zenon
  <2>2. \A t \in BOOLEAN : verdict(Bool(t)) = IF t THEN "PASS" ELSE "FAIL"
    BY DEF verdict, Bool
  <2>3. (magnitude(x - y) <= 1) \in BOOLEAN
    OBVIOUS
  <2>4. judge(RateVariance, fb) = IF magnitude(x - y) <= 1 THEN "PASS" ELSE "FAIL"
    <3>1. judge(RateVariance, fb) = verdict(Bool(magnitude(x - y) <= 1))
      BY <2>1 DEF judge, n1
    <3>2. CASE magnitude(x - y) <= 1
      BY <2>2, <2>3, <3>1, <3>2, Zenon
    <3>3. CASE ~(magnitude(x - y) <= 1)
      BY <2>2, <2>3, <3>1, <3>3, Zenon
    <3> QED
      BY <3>2, <3>3
  <2>5. unwrapRequires(n1, fb) = RateApprox
    BY <1>3, <1>5, <1>6, <1>7, <1>8, Zenon
  <2> DEFINE left == evaluate(RateApprox.args[1], fb)
             right == evaluate(RateApprox.args[2], fb)
  <2>6. left = <<"money", Cents(x), cx>> /\ right = <<"money", Cents(y), cy>>
    BY <1>4, <1>8, MoneyEvaluates
  <2>7. left[1] = "money" /\ right[1] = "money" /\ left[2] = Cents(x) /\ right[2] = Cents(y)
        /\ left[3] = cx
    BY <2>6
  <2> HIDE DEF left, right
  <2>8. moneyVarianceDelta(n1, fb) = [delta |-> minus(left[2], right[2]), currency |-> left[3]]
    BY <1>4, <2>5, <2>7, Zenon DEF moneyVarianceDelta, left, right
  <2>9. minus(Cents(x), Cents(y)) = Cents(x - y)
    BY <1>8, CentsDiffer
  <2>10. moneyVarianceDelta(n1, fb) = [delta |-> Cents(x - y), currency |-> cx]
    BY <2>7, <2>8, <2>9
  <2> QED
    BY <1>8, <2>4, <2>10 DEF n1, RateJudgement
<1>9. CASE ~compared
  <2>1. evaluate(n1, fb) = Unassessable
    BY <1>2, <1>4, <1>9, Zenon
  <2>2. verdict(Unassessable) = "UNASSESSABLE"
    BY DEF verdict, Unassessable
  <2>3. judge(RateVariance, fb) = "UNASSESSABLE"
    BY <2>1, <2>2 DEF judge, n1
  <2> QED
    BY <1>9, <2>3 DEF RateJudgement
<1> QED
  BY <1>8, <1>9

(* The sign of a number of cents.                                          *)
LEMMA CentsSign ==
  ASSUME NEW x \in Int
  PROVE  /\ Cents(x) \in Int \X Int
         /\ Cents(x)[1] < 0 <=> x < 0
<1>1. PICK p \in Int, q \in Nat : q # 0 /\ Cents(x) = <<p, q>> /\ p * 100 = x * q
  BY CentsRatio
<1>2. CASE x < 0
  <2>1. -x \in Int /\ -x >= 1
    BY <1>2
  <2>2. (-x) * q >= q
    BY <2>1, AtLeastFactor
  <2>3. (-x) * q = -(x * q)
    OBVIOUS
  <2> DEFINE xq == x * q
  <2>4. xq \in Int
    OBVIOUS
  <2>5. -xq >= q /\ p * 100 = xq
    BY <1>1, <2>2, <2>3
  <2> HIDE DEF xq
  <2>6. p < 0
    BY <1>1, <2>4, <2>5
  <2> QED
    BY <1>1, <1>2, <2>6
<1>3. CASE x >= 0
  <2>1. x * q \in Nat
    BY <1>3
  <2>2. p >= 0
    BY <1>1, <2>1
  <2> QED
    BY <1>1, <1>3, <2>2
<1> QED
  BY <1>2, <1>3

-----------------------------------------------------------------------------
(* Every line states an amount and the currency it is billed in.           *)
Sound(doc) ==
    \A i \in DOMAIN doc.lines :
        doc.lines[i].amount \in Int /\ BilledIn(doc, doc.lines[i]) # None

(* A document without defects is sound.                                    *)
LEMMA NoDefectIsSound ==
  ASSUME NEW doc \in DocumentText, Defects(doc) = {}
  PROVE  Sound(doc)
<1> DEFINE lines == ToSet(doc.lines)
<1>1. /\ AddsUp(doc) /\ ~ \E l \in lines : BilledIn(doc, l) = None
      /\ ~ \E l \in lines : l.amount \in {None, Bad}
  <2>1. /\ "FOOTING" \notin Defects(doc) /\ "CURRENCY_STATED" \notin Defects(doc)
        /\ "AMOUNT_STATED" \notin Defects(doc)
    OBVIOUS
  <2>2. AddsUp(doc)
    BY <2>1, DefectsListed, Zenon
  <2>3. ~ \E l \in lines : BilledIn(doc, l) = None
    BY <2>1, DefectsListed, Zenon
  <2>4. ~ \E l \in lines : l.amount \in {None, Bad}
    BY <2>1, DefectsListed, Zenon
  <2> QED
    BY <2>2, <2>3, <2>4
<1>2. \A i \in DOMAIN doc.lines : doc.lines[i] \in lines
  BY DEF ToSet
<1> HIDE DEF lines
<1> SUFFICES ASSUME NEW i \in DOMAIN doc.lines
             PROVE  doc.lines[i].amount \in Int /\ BilledIn(doc, doc.lines[i]) # None
  BY DEF Sound
<1>3. doc.lines[i].amount \in Amount
  BY ChargeKeeps
<1>4. doc.lines[i].amount # NaN
  <2>0. NaN # None /\ NaN \notin Int
    BY DocumentAssumption
  <2>1. CASE doc.corrected
    <3>1. doc.lines[i].amount \in Int \cup {None}
      BY <2>1, DocumentShape, Zenon
    <3> QED
      BY <2>0, <3>1
  <2>2. CASE ~doc.corrected
    BY <1>1, <1>2, <2>2 DEF AddsUp, lines
  <2> QED
    BY <2>1, <2>2
<1> QED
  BY <1>1, <1>2, <1>3, <1>4 DEF Amount

(* The linehaul charges of a sound document are its linehaul lines.        *)
LEMMA LinehaulCharge ==
  ASSUME NEW doc \in DocumentText, Sound(doc), NEW i \in DOMAIN doc.lines
  PROVE  LET charge == ChargeOf(doc, doc.lines[i])
         IN  /\ charge.category = "LINEHAUL" /\ ~charge.quarantined <=> i \in Linehaul(doc)
             /\ charge.amount = doc.lines[i].amount /\ charge.amount \in Int
             /\ charge.currency = BilledIn(doc, doc.lines[i])
<1> DEFINE line == doc.lines[i]
           charge == ChargeOf(doc, line)
<1>1. line.amount \in Int /\ BilledIn(doc, line) # None
  BY DEF Sound
<1>2. None \notin Int /\ Bad \notin Int /\ None # "LINEHAUL"
  BY DocumentAssumption
<1>3. charge.amount = line.amount /\ charge.currency = BilledIn(doc, line)
  BY <1>1, <1>2, ChargeKeeps
<1>4. money(line.amount) = line.amount
  BY <1>1, <1>2 DEF money
<1>5. i \in Linehaul(doc) <=>
        IF doc.set = "PDF"
        THEN line.category = "LINEHAUL" /\ ~(doc.corrected /\ line.quarantined)
        ELSE line.code # None /\ Crosswalk[line.code] = "LINEHAUL"
  BY DEF Linehaul
<1>6. \/ doc.corrected /\ doc.set = "PDF" /\ charge = correctedCharge(line)
      \/ ~doc.corrected /\ doc.set = "PDF" /\ charge = pdfCharge(line)
      \/ ~doc.corrected /\ doc.set = "210" /\ charge = ediCharge(doc, line)
      \/ ~doc.corrected /\ doc.set = "310" /\ charge = ediCharge(doc, line)
  BY ChargeCases
<1> HIDE DEF line, charge
<1>7. charge.category = "LINEHAUL" /\ ~charge.quarantined <=> i \in Linehaul(doc)
  <2>1. CASE doc.corrected /\ doc.set = "PDF" /\ charge = correctedCharge(line)
    <3>1. charge.category = line.category /\ charge.quarantined = line.quarantined
      BY <2>1 DEF correctedCharge
    <3> QED
      BY <1>5, <2>1, <3>1, Zenon
  <2>2. CASE ~doc.corrected /\ doc.set = "PDF" /\ charge = pdfCharge(line)
    <3>1. /\ charge.category = line.category
          /\ charge.quarantined = (line.amount # None /\ money(line.amount) = None)
      BY <2>2, Zenon DEF pdfCharge
    <3> QED
      BY <1>4, <1>5, <2>2, <3>1, Zenon
  <2>3. CASE doc.set # "PDF" /\ charge = ediCharge(doc, line)
    <3>1. /\ charge.category = categorize(line.code)
          /\ charge.quarantined = ((line.code # None /\ categorize(line.code) = None)
                                   \/ money(line.amount) = None)
      BY <2>3, Zenon DEF ediCharge
    <3>2. money(line.amount) # None
      BY <1>1, <1>2, <1>4
    <3> QED
      BY <1>2, <1>5, <2>3, <3>1, <3>2, Zenon DEF categorize
  <2>4. "210" # "PDF" /\ "310" # "PDF"
    OBVIOUS
  <2> QED
    BY <1>6, <2>1, <2>2, <2>3, <2>4, Zenon
<1> QED
  BY <1>1, <1>3, <1>7 DEF line, charge

(* The linehaul lines are all billed in one currency.                      *)
BilledAllIn(doc, currency) ==
    /\ Linehaul(doc) # {}
    /\ \A i \in Linehaul(doc) : BilledIn(doc, doc.lines[i]) = currency

Billed(doc) == SumFunction(Restrict(LineAmounts(doc), Linehaul(doc)))

(* The sum of the linehaul lines of a sound document is an integer.        *)
LEMMA BilledIsInt ==
  ASSUME NEW doc \in DocumentText, Sound(doc)
  PROVE  Billed(doc) \in Int /\ IsFiniteSet(Linehaul(doc)) /\ Linehaul(doc) \subseteq Nat
<1>1. Linehaul(doc) \subseteq DOMAIN doc.lines
  BY DEF Linehaul
<1>2. IsFiniteSet(DOMAIN doc.lines)
  BY LinesFinite
<1>3. IsFiniteSet(Linehaul(doc))
  BY <1>1, <1>2, FS_Subset
<1>4. \A i \in Linehaul(doc) : LineAmounts(doc)[i] \in Int
  BY <1>1 DEF LineAmounts, Sound
<1>5. DOMAIN doc.lines \subseteq Nat
  <2>1. doc.lines \in Seq(LineText)
    BY DocumentShape
  <2> QED
    BY <2>1
<1> QED
  BY <1>1, <1>3, <1>4, <1>5, SumIsInt DEF Billed

(* The sum of the charges that contribute is the sum of the lines.         *)
LEMMA SumOfLinehaul ==
  ASSUME NEW doc \in DocumentText, Sound(doc)
  PROVE  sumMoney(Restrict(Amounts(ChargesOf(doc)), Linehaul(doc))) = Billed(doc)
<1> DEFINE L == Linehaul(doc)
           a == Restrict(Amounts(ChargesOf(doc)), L)
           b == Restrict(LineAmounts(doc), L)
<1>1. L \subseteq DOMAIN doc.lines
  BY DEF Linehaul
<1>2. \A i \in L : Amounts(ChargesOf(doc))[i] = LineAmounts(doc)[i] /\ LineAmounts(doc)[i] \in Int
  <2> SUFFICES ASSUME NEW i \in L
               PROVE  Amounts(ChargesOf(doc))[i] = LineAmounts(doc)[i] /\ LineAmounts(doc)[i] \in Int
    OBVIOUS
  <2>0. i \in DOMAIN doc.lines
    BY <1>1
  <2>1. ChargeOf(doc, doc.lines[i]).amount = doc.lines[i].amount /\ doc.lines[i].amount \in Int
    BY <2>0, LinehaulCharge
  <2> QED
    BY <2>0, <2>1 DEF Amounts, ChargesOf, LineAmounts
<1> HIDE DEF L
<1>3. a = b
  BY <1>2 DEF Restrict
<1>4. DOMAIN b = L /\ \A i \in L : b[i] = LineAmounts(doc)[i]
  BY DEF Restrict
<1>5. None \notin Int /\ NaN \notin Int
  BY DocumentAssumption
<1> DEFINE stated == {i \in DOMAIN b : b[i] # None}
<1>6. stated = L /\ ~ \E i \in stated : b[i] = NaN
  BY <1>2, <1>4, <1>5
<1>7. Restrict(b, L) = b
  BY <1>4 DEF Restrict
<1>8. sumMoney(b) = SumFunction(Restrict(b, stated))
  BY <1>6, Zenon DEF sumMoney
<1> HIDE DEF a, b, stated
<1> QED
  BY <1>3, <1>6, <1>7, <1>8 DEF Billed, a, b, L

-----------------------------------------------------------------------------
(* What the fact bundle says of the linehaul lines of a sound document.    *)
LEMMA LinehaulFactsSay ==
  ASSUME NEW doc \in DocumentText, Sound(doc), NEW row
  PROVE  LET said == linehaulFacts(ChargesOf(doc), row)
         IN  /\ \A cur : BilledAllIn(doc, cur) => said.billed_linehaul = MoneyFact(Billed(doc), cur)
             /\ (~ \E cur : BilledAllIn(doc, cur)) => said.billed_linehaul = <<"absent">>
             /\ said.contract_linehaul_rate = IF row = None THEN <<"absent">>
                                              ELSE MoneyFact(row.amount, row.currency)
             /\ row # None /\ BilledAllIn(doc, row.currency) /\ row.currency # Unstated
                    => said.linehaul_currencies_match = Bool(TRUE)
             /\ ~(row # None /\ BilledAllIn(doc, row.currency))
                    => said.linehaul_currencies_match = <<"absent">>
<1> DEFINE L == Linehaul(doc)
           charges == ChargesOf(doc)
           contributing == {i \in DOMAIN charges :
               charges[i].category = "LINEHAUL" /\ ~charges[i].quarantined
               /\ charges[i].amount # None}
           currencies == {charges[i].currency : i \in contributing}
           consistent == Cardinality(currencies) = 1
           currency == CHOOSE x \in currencies : TRUE
           said == linehaulFacts(charges, row)
<1>1. /\ said.billed_linehaul = IF consistent
             THEN MoneyFact(sumMoney(Restrict(Amounts(charges), contributing)), currency)
             ELSE <<"absent">>
      /\ said.contract_linehaul_rate = IF row = None THEN <<"absent">>
             ELSE MoneyFact(row.amount, row.currency)
      /\ said.linehaul_currencies_match =
             IF consistent /\ row # None /\ currency # Unstated /\ currency = row.currency
             THEN Bool(TRUE) ELSE <<"absent">>
  BY Zenon DEF linehaulFacts
<1>2. DOMAIN charges = DOMAIN doc.lines
      /\ \A i \in DOMAIN doc.lines : charges[i] = ChargeOf(doc, doc.lines[i])
  BY DEF ChargesOf
<1>3. L \subseteq DOMAIN doc.lines
  BY DEF Linehaul
<1>4. None \notin Int
  BY DocumentAssumption
<1>5. \A i \in DOMAIN doc.lines :
         /\ charges[i].category = "LINEHAUL" /\ ~charges[i].quarantined <=> i \in L
         /\ charges[i].amount # None
         /\ charges[i].currency = BilledIn(doc, doc.lines[i])
  <2> SUFFICES ASSUME NEW i \in DOMAIN doc.lines
               PROVE  /\ charges[i].category = "LINEHAUL" /\ ~charges[i].quarantined <=> i \in L
                      /\ charges[i].amount # None
                      /\ charges[i].currency = BilledIn(doc, doc.lines[i])
    OBVIOUS
  <2> DEFINE c == ChargeOf(doc, doc.lines[i])
  <2>1. /\ c.category = "LINEHAUL" /\ ~c.quarantined <=> i \in L
        /\ c.amount \in Int /\ c.currency = BilledIn(doc, doc.lines[i])
    BY LinehaulCharge
  <2>2. charges[i] = c
    BY <1>2
  <2> HIDE DEF c, L, charges
  <2> QED
    BY <1>4, <2>1, <2>2
<1> HIDE DEF charges, L
<1>6. contributing = L
  BY <1>2, <1>3, <1>5
<1>7. currencies = {BilledIn(doc, doc.lines[i]) : i \in L}
  BY <1>3, <1>5, <1>6
<1>8. IsFiniteSet(currencies)
  <2>1. IsFiniteSet(L)
    BY BilledIsInt DEF L
  <2> DEFINE f == [i \in L |-> BilledIn(doc, doc.lines[i])]
  <2>2. f \in Surjection(L, currencies)
    BY <1>7 DEF Surjection
  <2> HIDE DEF f, currencies
  <2> QED
    BY <2>1, <2>2, FS_Surjection
<1>9. sumMoney(Restrict(Amounts(charges), L)) = Billed(doc)
  BY SumOfLinehaul DEF charges, L
<1>10. \A cur : BilledAllIn(doc, cur) <=> currencies = {cur}
  BY <1>7 DEF BilledAllIn, L
<1> HIDE DEF contributing, currencies
<1>11. consistent <=> \E cur : currencies = {cur}
  BY <1>8, FS_Singleton
<1>12. \A cur : currencies = {cur} => currency = cur
  OBVIOUS
<1> HIDE DEF consistent, currency, said
<1>13. \A cur : BilledAllIn(doc, cur) => said.billed_linehaul = MoneyFact(Billed(doc), cur)
  BY <1>1, <1>6, <1>9, <1>10, <1>11, <1>12, Zenon
<1>14. (~ \E cur : BilledAllIn(doc, cur)) => said.billed_linehaul = <<"absent">>
  BY <1>1, <1>10, <1>11, Zenon
<1>15. row # None /\ BilledAllIn(doc, row.currency) /\ row.currency # Unstated
          => said.linehaul_currencies_match = Bool(TRUE)
  BY <1>1, <1>10, <1>11, <1>12, Zenon
<1>16. ~(row # None /\ BilledAllIn(doc, row.currency))
          => said.linehaul_currencies_match = <<"absent">>
  BY <1>1, <1>10, <1>11, <1>12, Zenon
<1> QED
  BY <1>1, <1>13, <1>14, <1>15, <1>16, Zenon DEF said, charges

(* The linehaul lines are all in the rate's currency.                      *)
Compared(doc, row) == row # None /\ BilledAllIn(doc, row.currency)

(* What RATE_VARIANCE says of a sound document.                            *)
LEMMA RateVarianceSays ==
  ASSUME NEW doc \in DocumentText, Sound(doc), NEW row \in Rate \cup {None},
         NEW ins, ins.contracted = TRUE, ins.rate = row
  PROVE  LET fb == buildFactBundle(parse(doc), ins)
             given == judge(RateVariance, fb)
             difference == Billed(doc) - row.amount
         IN  /\ Compared(doc, row) =>
                    /\ difference \in Int
                    /\ given = IF magnitude(difference) <= 1 THEN "PASS" ELSE "FAIL"
                    /\ moneyVarianceDelta(RateVariance.ast, fb)
                          = [delta |-> Cents(difference), currency |-> row.currency]
             /\ ~Compared(doc, row) => given = "UNASSESSABLE"
<1> DEFINE inv == parse(doc)
           fb == buildFactBundle(inv, ins)
           said == linehaulFacts(ChargesOf(doc), row)
<1>1. inv.charges = ChargesOf(doc)
  BY Parsed, Zenon
<1> HIDE DEF inv
<1>2. /\ fb["billed_linehaul"] = linehaulFacts(inv.charges, ins.rate).billed_linehaul
      /\ fb["contract_linehaul_rate"] = linehaulFacts(inv.charges, ins.rate).contract_linehaul_rate
      /\ fb["linehaul_currencies_match"]
            = linehaulFacts(inv.charges, ins.rate).linehaul_currencies_match
  BY DEF buildFactBundle
<1>3. /\ fb["billed_linehaul"] = said.billed_linehaul
      /\ fb["contract_linehaul_rate"] = said.contract_linehaul_rate
      /\ fb["linehaul_currencies_match"] = said.linehaul_currencies_match
  BY <1>1, <1>2
<1>4. /\ \A cur : BilledAllIn(doc, cur) => said.billed_linehaul = MoneyFact(Billed(doc), cur)
      /\ (~ \E cur : BilledAllIn(doc, cur)) => said.billed_linehaul = <<"absent">>
      /\ said.contract_linehaul_rate = IF row = None THEN <<"absent">>
                                       ELSE MoneyFact(row.amount, row.currency)
      /\ row # None /\ BilledAllIn(doc, row.currency) /\ row.currency # Unstated
             => said.linehaul_currencies_match = Bool(TRUE)
      /\ ~(row # None /\ BilledAllIn(doc, row.currency))
             => said.linehaul_currencies_match = <<"absent">>
  BY LinehaulFactsSay, Zenon
<1> HIDE DEF fb, said
<1>5. Billed(doc) \in Int
  BY BilledIsInt
<1>6. \A c : MoneyFact(None, c) = <<"absent">>
  <2>1. None # NaN /\ None # Bad
    BY DocumentAssumption
  <2> QED
    BY <2>1, Zenon DEF MoneyFact
<1>7. ~present(<<"absent">>) /\ present(Bool(TRUE))
  BY DEF present, Bool
<1>8. Billed(doc) \in Amount /\ None \in Amount
  BY <1>5 DEF Amount
<1>9. CASE Compared(doc, row)
  <2>1. row \in [amount : Int, currency : Text] /\ BilledAllIn(doc, row.currency) /\ row # None
    BY <1>9, DocumentAssumption DEF Compared
  <2>2. row.amount \in Int /\ row.currency # Unstated
    BY <2>1, NoText
  <2>3. row.amount \in Amount
    BY <2>2 DEF Amount
  <2>4. /\ fb["billed_linehaul"] = MoneyFact(Billed(doc), row.currency)
        /\ fb["contract_linehaul_rate"] = MoneyFact(row.amount, row.currency)
        /\ present(fb["linehaul_currencies_match"])
    BY <1>3, <1>4, <1>7, <2>1, <2>2, Zenon
  <2>5. /\ judge(RateVariance, fb)
              = IF magnitude(Billed(doc) - row.amount) <= 1 THEN "PASS" ELSE "FAIL"
        /\ moneyVarianceDelta(RateVariance.ast, fb)
              = [delta |-> Cents(Billed(doc) - row.amount), currency |-> row.currency]
    <3>1. RateJudgement(fb, Billed(doc), row.amount, row.currency)
      BY <1>8, <2>3, <2>4, RateVarianceJudged, Zenon
    <3> QED
      BY <1>5, <2>2, <2>4, <3>1, Zenon DEF RateJudgement
  <2>6. Billed(doc) - row.amount \in Int
    BY <1>5, <2>2
  <2> QED
    BY <1>9, <2>5, <2>6, Zenon DEF fb, inv
<1>10. CASE ~Compared(doc, row)
  <2>1. ~present(fb["linehaul_currencies_match"])
    BY <1>3, <1>4, <1>7, <1>10, Zenon DEF Compared
  <2>2. PICK x \in Amount : \E c : fb["billed_linehaul"] = MoneyFact(x, c)
    <3>1. CASE \E cur : BilledAllIn(doc, cur)
      BY <1>3, <1>4, <1>8, <3>1, Zenon
    <3>2. CASE ~ \E cur : BilledAllIn(doc, cur)
      BY <1>3, <1>4, <1>6, <1>8, <3>2, Zenon
    <3> QED
      BY <3>1, <3>2
  <2>3. PICK y \in Amount : \E c : fb["contract_linehaul_rate"] = MoneyFact(y, c)
    <3>1. CASE row = None
      BY <1>3, <1>4, <1>6, <1>8, <3>1, Zenon
    <3>2. CASE row # None
      <4>1. row \in [amount : Int, currency : Text]
        BY <3>2, DocumentAssumption
      <4>2. row.amount \in Amount
        BY <4>1 DEF Amount
      <4> QED
        BY <1>3, <1>4, <3>2, <4>2, Zenon
    <3> QED
      BY <3>1, <3>2
  <2>4. \E c : RateJudgement(fb, x, y, c)
    BY <2>2, <2>3, RateVarianceJudged
  <2>5. judge(RateVariance, fb) = "UNASSESSABLE"
    BY <2>1, <2>4, Zenon DEF RateJudgement
  <2> QED
    BY <1>10, <2>5, Zenon DEF fb, inv
<1> QED
  BY <1>9, <1>10

-----------------------------------------------------------------------------
(* The charge a rate variance names.                                       *)
LEMMA AttributionSays ==
  ASSUME NEW doc \in DocumentText, Sound(doc), NEW f, f.key = "RATE_VARIANCE", Linehaul(doc) # {}
  PROVE  LET named == attribution(parse(doc), f)
         IN  /\ named = None <=> Cardinality(Linehaul(doc)) > 1
             /\ named # None => named \in Linehaul(doc)
<1> DEFINE L == Linehaul(doc)
           inv == parse(doc)
           contributing == {i \in DOMAIN inv.charges :
               inv.charges[i].category = "LINEHAUL" /\ ~inv.charges[i].quarantined}
<1>1. inv.charges = ChargesOf(doc)
  BY Parsed, Zenon
<1>2. attribution(inv, f) = IF Cardinality(contributing) = 1
                            THEN CHOOSE i \in contributing : TRUE ELSE None
  <2>1. CASE Cardinality(contributing) = 1
    BY <2>1 DEF attribution
  <2>2. CASE Cardinality(contributing) # 1
    BY <2>2 DEF attribution
  <2> QED
    BY <2>1, <2>2
<1> HIDE DEF inv
<1>3. contributing = L
  <2>1. DOMAIN inv.charges = DOMAIN doc.lines
        /\ \A i \in DOMAIN doc.lines : inv.charges[i] = ChargeOf(doc, doc.lines[i])
    BY <1>1 DEF ChargesOf
  <2>2. \A i \in DOMAIN doc.lines :
           LET c == ChargeOf(doc, doc.lines[i])
           IN  c.category = "LINEHAUL" /\ ~c.quarantined <=> i \in L
    BY LinehaulCharge
  <2>3. L \subseteq DOMAIN doc.lines
    BY DEF Linehaul
  <2> HIDE DEF L
  <2> QED
    BY <2>1, <2>2, <2>3
<1>4. IsFiniteSet(L) /\ L \subseteq Nat /\ L # {}
  BY BilledIsInt
<1> HIDE DEF L, contributing
<1>5. Cardinality(L) \in Nat /\ Cardinality(L) # 0
  BY <1>4, FS_CardinalityType, FS_EmptySet
<1>6. (CHOOSE i \in L : TRUE) \in L
  BY <1>4
<1>7. None \notin Nat
  BY DocumentAssumption
<1>8. CASE Cardinality(L) = 1
  <2>1. attribution(inv, f) \in L
    BY <1>2, <1>3, <1>6, <1>8
  <2> QED
    BY <1>4, <1>7, <1>8, <2>1 DEF L, inv
<1>9. CASE Cardinality(L) # 1
  BY <1>2, <1>3, <1>5, <1>9 DEF L, inv
<1> QED
  BY <1>8, <1>9

(* What a row of variance_finding keeps of its finding.                    *)
LEMMA RowSays ==
  ASSUME NEW inv, NEW f
  PROVE  LET v == varianceFinding(inv, f)
         IN  /\ v.key = f.key /\ v.chargeFact = attribution(inv, f) /\ v.direction = f.direction
             /\ v.amount = f.amount /\ v.currency = f.currency
             /\ v.classification = "variance" <=> f.result # "UNASSESSABLE"
BY DEF varianceFinding

(* The findings of a scored run, and its rows that report a rate variance. *)
Found(contract, fb) == {finding(c, fb) : c \in Scores(rubricFor(contract))}
RateRows(rows) == {v \in rows : v.key = "RATE_VARIANCE" /\ v.classification = "variance"}

(* They are the row of the RATE_VARIANCE finding, when a contract is in    *)
(* force and the criterion fails.                                          *)
LEMMA RateRowsAre ==
  ASSUME NEW inv, NEW contract, NEW fb
  PROVE  RateRows(varianceFindings(inv, Found(contract, fb))) =
            IF contract # "none" /\ judge(RateVariance, fb) = "FAIL"
            THEN {varianceFinding(inv, finding(RateVariance, fb))} ELSE {}
<1> DEFINE scored == Scores(rubricFor(contract))
           found == Found(contract, fb)
           rows == varianceFindings(inv, found)
           f == finding(RateVariance, fb)
           v == varianceFinding(inv, f)
<1>1. scored = StandardScores \cup (IF contract = "none" THEN {} ELSE {RateVariance})
  BY ScoresOf
<1>2. \A c \in StandardScores : c.key # "RATE_VARIANCE"
  BY StandardScoresListed DEF ScoreKeys
<1>3. RateVariance.key = "RATE_VARIANCE"
  BY RateVarianceTree
<1>4. /\ \A c : finding(c, fb).key = c.key
      /\ \A c : finding(c, fb).result = "VARIANCE" <=> judge(c, fb) = "FAIL"
      /\ \A c : finding(c, fb).result \in {"CONFORMED", "VARIANCE", "UNASSESSABLE"}
  BY FindingSays, Zenon
<1>5. /\ \A g : varianceFinding(inv, g).key = g.key
      /\ \A g : varianceFinding(inv, g).classification = "variance" <=> g.result # "UNASSESSABLE"
  BY RowSays, Zenon
<1>6. rows = {varianceFinding(inv, g) : g \in {h \in found : h.result # "CONFORMED"}}
  BY Zenon DEF varianceFindings
<1> HIDE DEF scored, rows
<1>7. ASSUME NEW w \in RateRows(rows)
      PROVE  w = v /\ contract # "none" /\ judge(RateVariance, fb) = "FAIL"
  <2>1. PICK c \in scored : w = varianceFinding(inv, finding(c, fb))
                            /\ finding(c, fb).result # "CONFORMED"
    BY <1>6, <1>7 DEF RateRows, Found, scored
  <2>2. c.key = "RATE_VARIANCE" /\ finding(c, fb).result # "UNASSESSABLE"
    BY <1>4, <1>5, <1>7, <2>1 DEF RateRows
  <2>3. c = RateVariance /\ contract # "none"
    BY <1>1, <1>2, <2>2
  <2>4. judge(c, fb) = "FAIL"
    BY <1>4, <2>1, <2>2
  <2> QED
    BY <2>1, <2>3, <2>4
<1>8. ASSUME contract # "none", judge(RateVariance, fb) = "FAIL"
      PROVE  v \in RateRows(rows)
  <2>1. RateVariance \in scored
    BY <1>1, <1>8
  <2>2. f.result = "VARIANCE" /\ f.key = "RATE_VARIANCE"
    BY <1>3, <1>4, <1>8
  <2>3. f \in found
    BY <2>1 DEF Found, scored
  <2>4. v.key = "RATE_VARIANCE" /\ v.classification = "variance"
    BY <1>5, <2>2
  <2>5. v \in rows
    BY <1>6, <2>2, <2>3
  <2> QED
    BY <2>4, <2>5 DEF RateRows
<1> HIDE DEF v, found
<1>9. CASE contract # "none" /\ judge(RateVariance, fb) = "FAIL"
  BY <1>7, <1>8, <1>9 DEF rows, found, v, scored
<1>10. CASE ~(contract # "none" /\ judge(RateVariance, fb) = "FAIL")
  BY <1>7, <1>10 DEF rows, found, v, scored
<1> QED
  BY <1>9, <1>10

(* These rows report a rate variance exactly when it is warranted.         *)
Warranted(doc, row, reported) ==
    LET difference == Billed(doc) - row.amount
    IN  /\ Compared(doc, row) /\ magnitude(difference) > 1 <=> reported # {}
        /\ \A v \in reported :
               /\ v.amount = fraction(difference, 100) /\ v.currency = row.currency
               /\ v.direction = IF difference < 0 THEN "UNDERCHARGE" ELSE "OVERCHARGE"
               /\ v.chargeFact = None <=> Cardinality(Linehaul(doc)) > 1
               /\ v.chargeFact # None => v.chargeFact \in Linehaul(doc)

(* So it is for the rows of a sound document's run.                        *)
LEMMA ReportedWhenWarranted ==
  ASSUME NEW doc \in DocumentText, Sound(doc), NEW contract, NEW row \in Rate \cup {None},
         contract # "known" => row = None,
         NEW ins, ins.contracted = (contract # "none"), ins.rate = row
  PROVE  LET fb == buildFactBundle(parse(doc), ins)
         IN  Warranted(doc, row, RateRows(varianceFindings(parse(doc), Found(contract, fb))))
<1> DEFINE inv == parse(doc)
           fb == buildFactBundle(inv, ins)
           found == Found(contract, fb)
           reported == RateRows(varianceFindings(inv, found))
           difference == Billed(doc) - row.amount
           given == judge(RateVariance, fb)
           f == finding(RateVariance, fb)
           price == moneyVarianceDelta(RateVariance.ast, fb)
           u == varianceFinding(inv, f)
<1>1. reported = IF contract # "none" /\ given = "FAIL" THEN {u} ELSE {}
  BY RateRowsAre, Zenon
<1>2. contract # "none" =>
         /\ Compared(doc, row) =>
                /\ difference \in Int
                /\ given = IF magnitude(difference) <= 1 THEN "PASS" ELSE "FAIL"
                /\ price = [delta |-> Cents(difference), currency |-> row.currency]
         /\ ~Compared(doc, row) => given = "UNASSESSABLE"
  <2> SUFFICES ASSUME contract # "none"
               PROVE /\ Compared(doc, row) =>
                        /\ difference \in Int
                        /\ given = IF magnitude(difference) <= 1 THEN "PASS" ELSE "FAIL"
                        /\ price = [delta |-> Cents(difference), currency |-> row.currency]
                     /\ ~Compared(doc, row) => given = "UNASSESSABLE"
    OBVIOUS
  <2>1. ins.contracted = TRUE
    OBVIOUS
  <2> QED
    BY <2>1, RateVarianceSays, Zenon
<1>3. Compared(doc, row) => contract # "none"
  BY DEF Compared
<1>4. /\ f.key = RateVariance.key
      /\ given = "FAIL" /\ price # None =>
            /\ f.amount = price.delta /\ f.currency = price.currency
            /\ f.direction = IF price.delta[1] < 0 THEN "UNDERCHARGE" ELSE "OVERCHARGE"
  BY FindingSays, Zenon
<1>5. /\ u.key = f.key /\ u.chargeFact = attribution(inv, f) /\ u.direction = f.direction
      /\ u.amount = f.amount /\ u.currency = f.currency
  BY RowSays, Zenon
<1>6. f.key = "RATE_VARIANCE"
  BY <1>4, RateVarianceTree
<1> HIDE DEF fb, found, reported, given, f, price, u
<1>7. Compared(doc, row) /\ magnitude(difference) > 1 <=> reported # {}
  <2>1. CASE Compared(doc, row)
    <3>1. difference \in Int /\ contract # "none"
          /\ given = IF magnitude(difference) <= 1 THEN "PASS" ELSE "FAIL"
      BY <1>2, <1>3, <2>1
    <3> HIDE DEF difference
    <3>2. magnitude(difference) > 1 <=> ~(magnitude(difference) <= 1)
      BY <3>1 DEF magnitude
    <3> QED
      BY <1>1, <2>1, <3>1, <3>2
  <2>2. CASE ~Compared(doc, row)
    <3>1. ~(contract # "none" /\ given = "FAIL")
      BY <1>2, <2>2
    <3> QED
      BY <1>1, <2>2, <3>1
  <2> QED
    BY <2>1, <2>2
<1>8. ASSUME NEW v \in reported
      PROVE  /\ v.amount = fraction(difference, 100) /\ v.currency = row.currency
             /\ v.direction = IF difference < 0 THEN "UNDERCHARGE" ELSE "OVERCHARGE"
             /\ v.chargeFact = None <=> Cardinality(Linehaul(doc)) > 1
             /\ v.chargeFact # None => v.chargeFact \in Linehaul(doc)
  <2>1. v = u /\ contract # "none" /\ given = "FAIL"
    BY <1>1, <1>8
  <2>2. Compared(doc, row)
    BY <1>2, <2>1
  <2>3. difference \in Int /\ price = [delta |-> Cents(difference), currency |-> row.currency]
    BY <1>2, <2>1, <2>2
  <2>4. row.currency \in Text
    <3>1. row \in [amount : Int, currency : Text]
      BY <2>2, DocumentAssumption DEF Compared
    <3> QED
      BY <3>1
  <2>5. Cents(difference) \in Int \X Int /\ (Cents(difference)[1] < 0 <=> difference < 0)
    BY <2>3, CentsSign
  <2> HIDE DEF difference
  <2>6. price # None
    <3>1. price \in [delta : Int \X Int, currency : Text \cup {None, Unstated}]
      BY <2>3, <2>4, <2>5
    <3> QED
      BY <3>1, DocumentAssumption
  <2>7. price.delta = Cents(difference) /\ price.currency = row.currency
    BY <2>3
  <2>8. /\ v.amount = Cents(difference) /\ v.currency = row.currency
        /\ v.direction = IF difference < 0 THEN "UNDERCHARGE" ELSE "OVERCHARGE"
    BY <1>4, <1>5, <2>1, <2>5, <2>6, <2>7
  <2>9. Linehaul(doc) # {}
    BY <2>2 DEF Compared, BilledAllIn
  <2>10. /\ v.chargeFact = None <=> Cardinality(Linehaul(doc)) > 1
         /\ v.chargeFact # None => v.chargeFact \in Linehaul(doc)
    BY <1>5, <1>6, <2>1, <2>9, AttributionSays, Zenon
  <2> QED
    BY <2>8, <2>10 DEF Cents
<1> QED
  BY <1>7, <1>8, Zenon DEF reported, found, fb, Warranted

(* What a scored run is: the document has no defect, and its rows come     *)
(* from the scoring criteria.                                              *)
ScoredRun(doc, contract, ins) ==
    LET fb == buildFactBundle(parse(doc), ins)
        found == Found(contract, fb)
    IN  /\ run.document = doc /\ run.contract = contract /\ run.manifest.resolvedInputs = ins
        /\ run.varianceFindings = varianceFindings(parse(doc), found)
        /\ Result.scorecard = scorecardOf(found)
        /\ Defects(doc) = {}

(* A run whose outcome is SCORED is such a run.                            *)
LEMMA ScoredRunIs ==
  ASSUME NEW doc \in Document, NEW contract, NEW ins, RunAudits(doc, contract, ins),
         Result.outcome = "SCORED"
  PROVE  ScoredRun(doc, contract, ins)
<1> DEFINE fb == buildFactBundle(parse(doc), ins)
           failed == FailedGates(rubricFor(contract), fb)
           found == Found(contract, fb)
<1>1. /\ run.document = doc /\ run.contract = contract /\ run.manifest.resolvedInputs = ins
      /\ Result = evaluateInvoice(parse(doc), rubricFor(contract), ins)
      /\ run.varianceFindings = varianceFindings(parse(doc), Result.findings)
  BY Zenon DEF RunAudits, Result
<1>2. /\ Result.outcome = IF failed = {} THEN "SCORED" ELSE "REJECTED_REWORK"
      /\ Result.findings = Findings(rubricFor(contract), fb)
      /\ Result.scorecard = IF failed = {} THEN scorecardOf(Findings(rubricFor(contract), fb)) ELSE None
  BY <1>1, Evaluated, Zenon
<1>3. doc \in DocumentText
  BY DocumentAssumption
<1>4. KeysOf(failed) = Defects(doc)
  BY <1>3, GateFailures, Zenon DEF FailedGates, KeysOf
<1>5. failed = {}
  <2> HIDE DEF failed
  <2> QED
    BY <1>2
<1>6. Defects(doc) = {}
  BY <1>4, <1>5, Zenon DEF KeysOf
<1>7. Findings(rubricFor(contract), fb) = found
  BY <1>5, Zenon DEF Findings, Found
<1> QED
  BY <1>1, <1>2, <1>5, <1>6, <1>7, Zenon DEF ScoredRun

(* A rate variance is reported exactly when the linehaul lines differ from *)
(* the contracted rate by more than a cent, and says by how much and of    *)
(* which charge.  (RATE_VARIANCE on fact-bundle.ts' linehaul facts, and    *)
(* persistAuditRun's rows.)                                                *)
THEOREM VarianceHasItsWarrant == Spec => []VarianceIsWarranted
<1>1. AuditInv => VarianceIsWarranted
  <2> SUFFICES ASSUME AuditInv, run # None, Result.outcome = "SCORED"
               PROVE  VarianceIsWarranted
    BY Zenon DEF VarianceIsWarranted
  <2>1. PICK doc \in Document, contract \in {"none", "known", "unknown"},
             row \in Rate \cup {None},
             duplicate \in BOOLEAN \cup {None}, match \in BOOLEAN \cup {None} :
           /\ contract # "known" => row = None
           /\ RunAudits(doc, contract, AnswersOf(contract, row, duplicate, match))
    BY Zenon DEF AuditInv, RunInv
  <2> DEFINE ins == AnswersOf(contract, row, duplicate, match)
             fb == buildFactBundle(parse(doc), ins)
             found == Found(contract, fb)
             reported == RateRows(varianceFindings(parse(doc), found))
  <2>2. ins.contracted = (contract # "none") /\ ins.rate = row
    BY DEF AnswersOf
  <2>3. ScoredRun(doc, contract, ins)
    BY <2>1, ScoredRunIs, Zenon
  <2>4. doc \in DocumentText
    BY DocumentAssumption
  <2>5. Sound(doc)
    BY <2>3, <2>4, NoDefectIsSound DEF ScoredRun
  <2> HIDE DEF ins
  <2>6. Warranted(doc, row, reported)
    BY <2>1, <2>2, <2>4, <2>5, ReportedWhenWarranted, Zenon
  <2>7. /\ run.document = doc /\ run.manifest.resolvedInputs = ins
        /\ run.varianceFindings = varianceFindings(parse(doc), found)
    BY <2>3, Zenon DEF ScoredRun
  <2>8. run.manifest.resolvedInputs.rate = row
    BY <2>2, <2>7
  <2> HIDE DEF found
  <2>9. VarianceIsWarranted <=>
         LET lines == Linehaul(doc)
             difference_1 == SumFunction(Restrict(LineAmounts(doc), lines)) - row.amount
             differs == /\ row # None /\ lines # {}
                        /\ \A i \in lines : BilledIn(doc, doc.lines[i]) = row.currency
                        /\ magnitude(difference_1) > 1
             reported_1 == {v \in run.varianceFindings :
                            v.key = "RATE_VARIANCE" /\ v.classification = "variance"}
         IN  /\ differs <=> reported_1 # {}
             /\ \A v \in reported_1 :
                /\ v.amount = fraction(difference_1, 100) /\ v.currency = row.currency
                /\ v.direction = IF difference_1 < 0 THEN "UNDERCHARGE" ELSE "OVERCHARGE"
                /\ v.chargeFact = None <=> Cardinality(lines) > 1
                /\ v.chargeFact # None => v.chargeFact \in lines
    BY <2>7, <2>8, Zenon DEF VarianceIsWarranted
  <2> QED
    BY <2>6, <2>7, <2>9, Zenon DEF Warranted, RateRows, Billed, Compared, BilledAllIn
<1> QED
  BY <1>1, RunIsAnAudit, PTL

-----------------------------------------------------------------------------
(* FoldFunction of plus, with its folds expanded.                          *)
LEMMA FoldExpanded ==
  ASSUME NEW f
  PROVE  FoldFunction(plus, Zero, f) =
            (CHOOSE g : g = [s \in SUBSET (DOMAIN f) |->
                IF s = {} THEN Zero ELSE plus(f[Pick(s)], g[s \ {Pick(s)}])])[DOMAIN f]
BY DEF FoldFunction, FoldFunctionOnSet, MapThenFoldSet, Pick

(* A sum of nothing, and of one term.                                      *)
LEMMA FoldNone ==
  ASSUME NEW f, DOMAIN f = {}
  PROVE  FoldFunction(plus, Zero, f) = Zero
<1> DEFINE Solves(g) == g = [s \in SUBSET (DOMAIN f) |->
                IF s = {} THEN Zero ELSE plus(f[Pick(s)], g[s \ {Pick(s)}])]
           h == [s \in SUBSET (DOMAIN f) |-> Zero]
           e == CHOOSE g : Solves(g)
<1>1. Solves(h)
  OBVIOUS
<1>2. Solves(e)
  BY <1>1, Zenon
<1>3. FoldFunction(plus, Zero, f) = e[DOMAIN f]
  BY FoldExpanded
<1> HIDE DEF e
<1>4. e[{}] = Zero
  BY <1>2
<1> QED
  BY <1>3, <1>4

(* A sum of one term is that term plus Zero.                               *)
LEMMA FoldOne ==
  ASSUME NEW f, NEW x, DOMAIN f = {x}
  PROVE  FoldFunction(plus, Zero, f) = plus(f[x], Zero)
<1> DEFINE Solves(g) == g = [s \in SUBSET (DOMAIN f) |->
                IF s = {} THEN Zero ELSE plus(f[Pick(s)], g[s \ {Pick(s)}])]
           h == [s \in SUBSET (DOMAIN f) |-> IF s = {} THEN Zero ELSE plus(f[x], Zero)]
           e == CHOOSE g : Solves(g)
<1>0. Pick({x}) = x
  BY DEF Pick
<1>1. Solves(h)
  <2>1. \A s \in SUBSET (DOMAIN f) : s = {} \/ s = {x}
    OBVIOUS
  <2>2. h[{}] = Zero
    OBVIOUS
  <2> DEFINE val(s) == IF s = {} THEN Zero ELSE plus(f[Pick(s)], h[s \ {Pick(s)}])
  <2>3. val({x}) = plus(f[x], Zero)
    <3>1. {x} \ {x} = {} /\ {x} # {}
      OBVIOUS
    <3> HIDE DEF h
    <3> QED
      BY <1>0, <2>2, <3>1, Zenon
  <2>4. val({}) = Zero
    OBVIOUS
  <2>5. \A s \in SUBSET (DOMAIN f) : val(s) = IF s = {} THEN Zero ELSE plus(f[x], Zero)
    <3> HIDE DEF val
    <3> QED
      BY <2>1, <2>3, <2>4
  <2> QED
    BY <2>5
<1>2. Solves(e)
  BY <1>1, Zenon
<1>3. FoldFunction(plus, Zero, f) = e[DOMAIN f]
  BY FoldExpanded
<1> HIDE DEF e
<1>4. e[{}] = Zero
  BY <1>2
<1>5. e[{x}] = plus(f[x], e[{}])
  <2>1. {x} \in SUBSET (DOMAIN f) /\ {x} # {} /\ {x} \ {x} = {}
    OBVIOUS
  <2>2. e[{x}] = plus(f[Pick({x})], e[{x} \ {Pick({x})}])
    BY <1>2, <2>1
  <2> QED
    BY <1>0, <2>1, <2>2
<1> QED
  BY <1>3, <1>4, <1>5

-----------------------------------------------------------------------------
(* No cents are Zero.                                                      *)
LEMMA CentsNone == Cents(0) = Zero
<1>1. fraction(0, 100) = fraction(0, 1)
  BY FractionUnique
<1>2. PICK g \in Nat, p \in Int, q \in Nat :
         /\ g = gcd[<<magnitude(0), 1>>] /\ g # 0 /\ q # 0
         /\ 0 = p * g /\ 1 = q * g /\ fraction(0, 1) = <<p, q>>
  BY FractionParts
<1>3. g = 1
  <2>1. q * g >= g
    BY <1>2, AtLeastFactor
  <2> QED
    BY <1>2, <2>1
<1>4. p = 0 /\ q = 1
  BY <1>2, <1>3
<1> QED
  BY <1>1, <1>2, <1>4 DEF Cents, Zero

(* Adding nothing changes nothing.                                         *)
LEMMA CentsAddZero ==
  ASSUME NEW x \in Int
  PROVE  plus(Cents(x), Zero) = Cents(x)
<1>1. PICK p \in Int, q \in Nat : q # 0 /\ Cents(x) = <<p, q>> /\ p * 100 = x * q
  BY CentsRatio
<1>2. p * 1 + 0 * q = p /\ q * 1 = q
  BY <1>1
<1>3. plus(Cents(x), Zero) = fraction(p, q)
  BY <1>1, <1>2 DEF plus, Zero
<1>4. fraction(p, q) = fraction(x, 100)
  BY <1>1, FractionUnique
<1> QED
  BY <1>3, <1>4 DEF Cents

(* The absolute value of a number of cents.                                *)
LEMMA CentsAbsolute ==
  ASSUME NEW x \in Int
  PROVE  absolute(Cents(x)) = Cents(magnitude(x))
<1>1. CASE x >= 0
  <2>1. magnitude(x) = x
    BY <1>1 DEF magnitude
  <2>2. PICK p \in Int, q \in Nat : q # 0 /\ Cents(x) = <<p, q>> /\ p * 100 = x * q
    BY CentsRatio
  <2>3. ~(Cents(x)[1] < 0)
    BY <1>1, CentsSign
  <2>4. magnitude(p) = p
    BY <2>2, <2>3 DEF magnitude
  <2> QED
    BY <2>1, <2>2, <2>4 DEF absolute
<1>2. CASE x < 0
  <2> DEFINE y == -x
  <2>1. y \in Int /\ x = -y /\ magnitude(x) = y /\ magnitude(y) = y
    BY <1>2 DEF magnitude
  <2> HIDE DEF y
  <2>2. PICK g \in Nat, p \in Int, q \in Nat :
           /\ g = gcd[<<magnitude(x), 100>>] /\ g # 0 /\ q # 0
           /\ x = p * g /\ 100 = q * g /\ fraction(x, 100) = <<p, q>>
    BY FractionParts
  <2>3. PICK h \in Nat, r \in Int, s \in Nat :
           /\ h = gcd[<<magnitude(y), 100>>] /\ h # 0 /\ s # 0
           /\ y = r * h /\ 100 = s * h /\ fraction(y, 100) = <<r, s>>
    BY <2>1, FractionParts
  <2>4. h = g
    BY <2>1, <2>2, <2>3
  <2>5. s = q
    BY <2>2, <2>3, <2>4, Cancel
  <2>6. (-r) * g = p * g
    BY <2>1, <2>2, <2>3, <2>4
  <2>7. -r \in Int
    OBVIOUS
  <2>8. -r = p
    BY <2>2, <2>6, <2>7, Cancel
  <2>9. Cents(x)[1] < 0
    BY <1>2, CentsSign
  <2>10. magnitude(p) = r
    BY <2>2, <2>8, <2>9 DEF magnitude, Cents
  <2> QED
    BY <2>1, <2>2, <2>3, <2>5, <2>10 DEF Cents, absolute
<1> QED
  BY <1>1, <1>2

-----------------------------------------------------------------------------
(* The scoring criteria of either rubric are finitely many, of distinct    *)
(* keys.                                                                   *)
LEMMA ScoresFinite ==
  ASSUME NEW contract
  PROVE  IsFiniteSet(Scores(rubricFor(contract))) /\ NotTwice(Scores(rubricFor(contract)))
<1> DEFINE S == Scores(rubricFor(contract))
<1>1. IsFiniteSet(StandardScores) /\ NotTwice(StandardScores)
      /\ \A c \in StandardScores : c.key \in ScoreKeys
  BY StandardScoresListed, Zenon
<1>2. RateVariance.key = "RATE_VARIANCE" /\ "RATE_VARIANCE" \notin ScoreKeys
  BY RateVarianceTree DEF ScoreKeys
<1>3. S = StandardScores \cup (IF contract = "none" THEN {} ELSE {RateVariance})
  BY ScoresOf
<1> HIDE DEF S
<1>4. CASE contract = "none"
  <2>1. S = StandardScores
    BY <1>3, <1>4
  <2> QED
    BY <1>1, <2>1 DEF S
<1>5. CASE contract # "none"
  <2>1. S = StandardScores \cup {RateVariance}
    BY <1>3, <1>5
  <2>2. IsFiniteSet(S)
    BY <1>1, <2>1, FS_AddElement
  <2>3. NotTwice(S)
    BY <1>1, <1>2, <2>1 DEF NotTwice
  <2> QED
    BY <2>2, <2>3 DEF S
<1> QED
  BY <1>4, <1>5

(* There is one finding for each criterion.                                *)
LEMMA FindingsCounted ==
  ASSUME NEW contract, NEW fb
  PROVE  LET F == Found(contract, fb)
         IN  /\ IsFiniteSet(F) /\ NotTwice(F)
             /\ Cardinality(F) = Cardinality(Scores(rubricFor(contract)))
<1> DEFINE S == Scores(rubricFor(contract))
           F == Found(contract, fb)
           f == [c \in S |-> finding(c, fb)]
<1>1. IsFiniteSet(S) /\ NotTwice(S)
  BY ScoresFinite
<1>2. F = {finding(c, fb) : c \in S}
  BY DEF Found
<1>3. \A c : finding(c, fb).key = c.key
  BY FindingSays, Zenon
<1> HIDE DEF S, F
<1>4. f \in [S -> F]
  BY <1>2
<1>5. \A c, d \in S : f[c] = f[d] => c = d
  <2> SUFFICES ASSUME NEW c \in S, NEW d \in S, f[c] = f[d] PROVE c = d
    OBVIOUS
  <2>1. finding(c, fb) = finding(d, fb)
    OBVIOUS
  <2>2. c.key = d.key
    BY <1>3, <2>1
  <2> QED
    BY <1>1, <2>2 DEF NotTwice
<1>6. \A g \in F : \E c \in S : f[c] = g
  BY <1>2
<1> HIDE DEF f
<1>7. f \in Bijection(S, F)
  BY <1>4, <1>5, <1>6 DEF Bijection, Injection, Surjection, IsInjective
<1>8. IsFiniteSet(F) /\ Cardinality(F) = Cardinality(S)
  BY <1>1, <1>7, FS_Bijection DEF ExistsBijection
<1>9. NotTwice(F)
  BY <1>1, <1>2, <1>3 DEF NotTwice
<1> QED
  BY <1>8, <1>9 DEF S, F

(* Every finding is counted once, and one that is not CONFORMED has a row. *)
LEMMA RowsCounted ==
  ASSUME NEW inv, NEW contract, NEW fb
  PROVE  LET F == Found(contract, fb)
             conformed == CountOf(F, "CONFORMED")
             variance == CountOf(F, "VARIANCE")
             unassessable == CountOf(F, "UNASSESSABLE")
         IN  /\ conformed + variance + unassessable = Cardinality(Scores(rubricFor(contract)))
             /\ variance + unassessable = Cardinality(varianceFindings(inv, F))
<1> DEFINE F == Found(contract, fb)
           A == {f \in F : f.result = "CONFORMED"}
           B == {f \in F : f.result = "VARIANCE"}
           C == {f \in F : f.result = "UNASSESSABLE"}
           rest == {f \in F : f.result # "CONFORMED"}
           rows == varianceFindings(inv, F)
           row == [f \in rest |-> varianceFinding(inv, f)]
<1>1. IsFiniteSet(F) /\ NotTwice(F) /\ Cardinality(F) = Cardinality(Scores(rubricFor(contract)))
  BY FindingsCounted, Zenon
<1>2. \A f \in F : f.result \in {"CONFORMED", "VARIANCE", "UNASSESSABLE"}
  BY FindingSays, Zenon DEF Found
<1>3. \A f : varianceFinding(inv, f).key = f.key
  BY RowSays, Zenon
<1>4. rows = {varianceFinding(inv, f) : f \in rest}
  BY Zenon DEF varianceFindings
<1>5. /\ CountOf(F, "CONFORMED") = Cardinality(A)
      /\ CountOf(F, "VARIANCE") = Cardinality(B)
      /\ CountOf(F, "UNASSESSABLE") = Cardinality(C)
  BY DEF CountOf
<1> HIDE DEF F, rows
<1>6. IsFiniteSet(A) /\ IsFiniteSet(B) /\ IsFiniteSet(C) /\ IsFiniteSet(rest)
  <2>1. /\ A \in SUBSET F /\ B \in SUBSET F /\ C \in SUBSET F /\ rest \in SUBSET F
    OBVIOUS
  <2> HIDE DEF A, B, C, rest
  <2> QED
    BY <1>1, <2>1, FS_Subset
<1>7. B \cup C = rest /\ B \cap C = {} /\ A \cup rest = F /\ A \cap rest = {}
  BY <1>2
<1>8. /\ row \in [rest -> rows] /\ \A v \in rows : \E f \in rest : row[f] = v
      /\ \A f, g \in rest : row[f] = row[g] => f = g
  <2>1. row \in [rest -> rows] /\ \A v \in rows : \E f \in rest : row[f] = v
    BY <1>4
  <2>2. ASSUME NEW f \in rest, NEW g \in rest, row[f] = row[g] PROVE f = g
    <3>1. varianceFinding(inv, f) = varianceFinding(inv, g)
      BY <2>2
    <3>2. f.key = g.key
      BY <1>3, <3>1
    <3> QED
      BY <1>1, <3>2 DEF NotTwice
  <2> QED
    BY <2>1, <2>2
<1> HIDE DEF row, rest, A, B, C
<1>9. row \in Bijection(rest, rows)
  BY <1>8 DEF Bijection, Injection, Surjection, IsInjective
<1>10. Cardinality(rows) = Cardinality(rest)
  BY <1>6, <1>9, FS_Bijection DEF ExistsBijection
<1>11. Cardinality({}) = 0
  BY FS_EmptySet
<1>12. /\ Cardinality(rest) = Cardinality(B) + Cardinality(C)
       /\ Cardinality(F) = Cardinality(A) + Cardinality(rest)
  <2>1. /\ Cardinality(A) \in Nat /\ Cardinality(B) \in Nat /\ Cardinality(C) \in Nat
        /\ Cardinality(rest) \in Nat
    BY <1>6, FS_CardinalityType
  <2>2. Cardinality(B \cup C) = Cardinality(B) + Cardinality(C) - Cardinality(B \cap C)
    BY <1>6, FS_Union
  <2>3. Cardinality(A \cup rest) = Cardinality(A) + Cardinality(rest) - Cardinality(A \cap rest)
    BY <1>6, FS_Union
  <2>4. /\ Cardinality(B \cup C) = Cardinality(rest) /\ Cardinality(B \cap C) = 0
        /\ Cardinality(A \cup rest) = Cardinality(F) /\ Cardinality(A \cap rest) = 0
    BY <1>7, <1>11, Zenon
  <2> QED
    BY <2>1, <2>2, <2>3, <2>4
<1>13. Cardinality(A) \in Nat /\ Cardinality(B) \in Nat /\ Cardinality(C) \in Nat
  BY <1>6, FS_CardinalityType
<1> QED
  BY <1>1, <1>5, <1>10, <1>12, <1>13 DEF F, rows

-----------------------------------------------------------------------------
(* At most one finding has a price, and that is a number of cents.         *)
PricedOnce(F) ==
    \/ \A f \in F : f.amount = None /\ f.direction = "INTEGRITY_ONLY"
    \/ \E g \in F, d \in Int :
           /\ g.amount = Cents(d) /\ g.result = "VARIANCE"
           /\ g.direction = IF d < 0 THEN "UNDERCHARGE" ELSE "OVERCHARGE"
           /\ \A f \in F \ {g} : f.amount = None /\ f.direction = "INTEGRITY_ONLY"

(* So it is for the findings of a sound document's run.                    *)
LEMMA PricedFindings ==
  ASSUME NEW doc \in DocumentText, Sound(doc), NEW contract, NEW row \in Rate \cup {None},
         contract # "known" => row = None,
         NEW ins, ins.contracted = (contract # "none"), ins.rate = row
  PROVE  PricedOnce(Found(contract, buildFactBundle(parse(doc), ins)))
<1> DEFINE fb == buildFactBundle(parse(doc), ins)
           F == Found(contract, fb)
           g == finding(RateVariance, fb)
           given == judge(RateVariance, fb)
           price == moneyVarianceDelta(RateVariance.ast, fb)
           difference == Billed(doc) - row.amount
           plain(f) == f.amount = None /\ f.direction = "INTEGRITY_ONLY"
<1>1. F = {finding(c, fb) : c \in StandardScores
                                   \cup (IF contract = "none" THEN {} ELSE {RateVariance})}
  BY ScoresOf DEF Found
<1>2. \A c : ~(judge(c, fb) = "FAIL" /\ moneyVarianceDelta(c.ast, fb) # None) => plain(finding(c, fb))
  BY FindingSays, Zenon
<1>3. \A c \in StandardScores : moneyVarianceDelta(c.ast, fb) = None
  BY StandardScoresListed, Zenon
<1>4. \A c \in StandardScores : plain(finding(c, fb))
  BY <1>2, <1>3, Zenon
<1>5. contract # "none" =>
         /\ Compared(doc, row) =>
                /\ difference \in Int
                /\ price = [delta |-> Cents(difference), currency |-> row.currency]
         /\ ~Compared(doc, row) => given = "UNASSESSABLE"
  <2> SUFFICES ASSUME contract # "none"
               PROVE /\ Compared(doc, row) =>
                        /\ difference \in Int
                        /\ price = [delta |-> Cents(difference), currency |-> row.currency]
                     /\ ~Compared(doc, row) => given = "UNASSESSABLE"
    OBVIOUS
  <2>1. ins.contracted = TRUE
    OBVIOUS
  <2> QED
    BY <2>1, RateVarianceSays, Zenon
<1>6. /\ g.result = "VARIANCE" <=> given = "FAIL"
      /\ given = "FAIL" /\ price # None =>
            /\ g.amount = price.delta
            /\ g.direction = IF price.delta[1] < 0 THEN "UNDERCHARGE" ELSE "OVERCHARGE"
  BY FindingSays, Zenon
<1>7. CASE contract # "none" /\ given = "FAIL" /\ price # None
  <2>1. difference \in Int /\ price = [delta |-> Cents(difference), currency |-> row.currency]
    BY <1>5, <1>7
  <2> HIDE DEF fb, F, g, given, price, plain, difference
  <2>2. price.delta = Cents(difference)
    BY <2>1
  <2>3. Cents(difference)[1] < 0 <=> difference < 0
    BY <2>1, CentsSign
  <2>4. /\ g.amount = Cents(difference) /\ g.result = "VARIANCE"
        /\ g.direction = IF difference < 0 THEN "UNDERCHARGE" ELSE "OVERCHARGE"
    BY <1>6, <1>7, <2>2, <2>3
  <2>5. g \in F
    BY <1>1, <1>7 DEF g
  <2>6. \A f \in F \ {g} : plain(f)
    BY <1>1, <1>4 DEF g
  <2> QED
    BY <2>1, <2>4, <2>5, <2>6, Zenon DEF F, fb, plain, PricedOnce
<1>8. CASE ~(contract # "none" /\ given = "FAIL" /\ price # None)
  <2>1. contract # "none" => plain(g)
    BY <1>2, <1>8, Zenon
  <2> HIDE DEF plain, fb, F
  <2>2. \A f \in F : plain(f)
    BY <1>1, <1>4, <2>1 DEF g
  <2> QED
    BY <2>2, Zenon DEF F, fb, plain, PricedOnce
<1> QED
  BY <1>7, <1>8

-----------------------------------------------------------------------------
(* The sum of the rows' signed amounts.                                    *)
SignedSum(rows) == FoldFunction(plus, Zero, [v \in {w \in rows : w.amount # None} |-> v.amount])

(* The total of a direction that no finding has.                           *)
LEMMA TotalOfNone ==
  ASSUME NEW F, NEW direction, \A f \in F : f.direction # direction
  PROVE  Total(F, direction) = Zero
<1> DEFINE h == [f \in {g \in F : g.direction = direction} |-> absolute(f.amount)]
<1>1. DOMAIN h = {}
  OBVIOUS
<1>2. Total(F, direction) = FoldFunction(plus, Zero, h)
  BY DEF Total
<1> HIDE DEF h
<1> QED
  BY <1>1, <1>2, FoldNone

(* The total of a direction that one finding has, of a number of cents.    *)
LEMMA TotalOfOne ==
  ASSUME NEW F, NEW direction, NEW g \in F, NEW d \in Int, g.amount = Cents(d),
         \A f \in F : f.direction = direction <=> f = g
  PROVE  Total(F, direction) = Cents(magnitude(d))
<1> DEFINE h == [f \in {e \in F : e.direction = direction} |-> absolute(f.amount)]
<1>1. DOMAIN h = {g} /\ h[g] = absolute(Cents(d))
  OBVIOUS
<1>2. Total(F, direction) = FoldFunction(plus, Zero, h)
  BY DEF Total
<1> HIDE DEF h
<1>3. Total(F, direction) = plus(absolute(Cents(d)), Zero)
  BY <1>1, <1>2, FoldOne
<1>4. magnitude(d) \in Int
  BY DEF magnitude
<1> QED
  BY <1>3, <1>4, CentsAbsolute, CentsAddZero

(* The rows' amounts add up to overcharge - undercharge.                   *)
LEMMA SignedReconciles ==
  ASSUME NEW doc \in DocumentText, Sound(doc), NEW contract, NEW row \in Rate \cup {None},
         contract # "known" => row = None,
         NEW ins, ins.contracted = (contract # "none"), ins.rate = row
  PROVE  LET F == Found(contract, buildFactBundle(parse(doc), ins))
         IN  SignedSum(varianceFindings(parse(doc), F))
                = minus(Total(F, "OVERCHARGE"), Total(F, "UNDERCHARGE"))
<1> DEFINE inv == parse(doc)
           F == Found(contract, buildFactBundle(inv, ins))
           rows == varianceFindings(inv, F)
           over == Total(F, "OVERCHARGE")
           under == Total(F, "UNDERCHARGE")
           h == [v \in {w \in rows : w.amount # None} |-> v.amount]
<1>1. \/ \A f \in F : f.amount = None /\ f.direction = "INTEGRITY_ONLY"
      \/ \E g \in F, d \in Int :
             /\ g.amount = Cents(d) /\ g.result = "VARIANCE"
             /\ g.direction = IF d < 0 THEN "UNDERCHARGE" ELSE "OVERCHARGE"
             /\ \A f \in F \ {g} : f.amount = None /\ f.direction = "INTEGRITY_ONLY"
  <2>1. PricedOnce(F)
    BY PricedFindings, Zenon
  <2> HIDE DEF F
  <2> QED
    BY <2>1, Zenon DEF PricedOnce
<1>2. rows = {varianceFinding(inv, f) : f \in {g \in F : g.result # "CONFORMED"}}
  BY Zenon DEF varianceFindings
<1>3. \A f : varianceFinding(inv, f).amount = f.amount
  BY RowSays, Zenon
<1>4. SignedSum(rows) = FoldFunction(plus, Zero, h)
  BY Zenon DEF SignedSum
<1> HIDE DEF F, inv, rows
<1>5. Cents(0) = Zero
  BY CentsNone
<1>6. CASE \A f \in F : f.amount = None /\ f.direction = "INTEGRITY_ONLY"
  <2>1. over = Zero /\ under = Zero
    BY <1>6, TotalOfNone
  <2>2. DOMAIN h = {}
    BY <1>2, <1>3, <1>6
  <2> HIDE DEF h, over, under
  <2>3. SignedSum(rows) = Zero
    BY <1>4, <2>2, FoldNone
  <2>4. minus(Cents(0), Cents(0)) = Cents(0 - 0)
    BY CentsDiffer
  <2>5. 0 - 0 = 0
    OBVIOUS
  <2>6. minus(Zero, Zero) = Zero
    BY <1>5, <2>4, <2>5
  <2> QED
    BY <2>1, <2>3, <2>6 DEF over, under, rows, F, inv
<1>7. ASSUME NEW g \in F, NEW d \in Int,
             g.amount = Cents(d), g.result = "VARIANCE",
             g.direction = IF d < 0 THEN "UNDERCHARGE" ELSE "OVERCHARGE",
             \A f \in F \ {g} : f.amount = None /\ f.direction = "INTEGRITY_ONLY"
      PROVE  SignedSum(rows) = minus(over, under)
  <2> DEFINE v == varianceFinding(inv, g)
  <2>1. Cents(d) # None
    <3>1. Cents(d) \in Int \X Int
      BY CentsSign
    <3> QED
      BY <3>1, DocumentAssumption
  <2>2. v.amount = Cents(d)
    BY <1>3, <1>7
  <2>3. {w \in rows : w.amount # None} = {v}
    <3>1. v \in rows
      BY <1>2, <1>7
    <3>2. ASSUME NEW w \in rows, w.amount # None PROVE w = v
      <4>1. PICK f \in F : w = varianceFinding(inv, f)
        BY <1>2
      <4>2. f.amount # None
        BY <1>3, <3>2, <4>1
      <4>3. f = g
        BY <1>7, <4>2
      <4> QED
        BY <4>1, <4>3
    <3> HIDE DEF v
    <3> QED
      BY <2>1, <2>2, <3>1, <3>2
  <2>4. DOMAIN h = {v} /\ h[v] = Cents(d)
    <3> HIDE DEF v
    <3> QED
      BY <2>2, <2>3
  <2> HIDE DEF h, v
  <2>5. SignedSum(rows) = Cents(d)
    <3>1. SignedSum(rows) = plus(Cents(d), Zero)
      BY <1>4, <2>4, FoldOne
    <3> QED
      BY <3>1, CentsAddZero
  <2>6. CASE d < 0
    <3>1. \A f \in F : f.direction # "OVERCHARGE" /\ (f.direction = "UNDERCHARGE" <=> f = g)
      BY <1>7, <2>6
    <3>2. over = Zero
      BY <3>1, TotalOfNone
    <3>3. under = Cents(magnitude(d))
      BY <1>7, <3>1, TotalOfOne
    <3>4. magnitude(d) \in Int /\ 0 - magnitude(d) = d
      BY <2>6 DEF magnitude
    <3>5. minus(Cents(0), Cents(magnitude(d))) = Cents(0 - magnitude(d))
      BY <3>4, CentsDiffer
    <3> QED
      BY <1>5, <2>5, <3>2, <3>3, <3>4, <3>5
  <2>7. CASE d >= 0
    <3>1. \A f \in F : f.direction # "UNDERCHARGE" /\ (f.direction = "OVERCHARGE" <=> f = g)
      BY <1>7, <2>7
    <3>2. under = Zero
      BY <3>1, TotalOfNone
    <3>3. over = Cents(magnitude(d))
      BY <1>7, <3>1, TotalOfOne
    <3>4. magnitude(d) \in Int /\ magnitude(d) - 0 = d
      BY <2>7 DEF magnitude
    <3>5. minus(Cents(magnitude(d)), Cents(0)) = Cents(magnitude(d) - 0)
      BY <3>4, CentsDiffer
    <3> QED
      BY <1>5, <2>5, <3>2, <3>3, <3>4, <3>5
  <2> QED
    BY <2>6, <2>7
<1> HIDE DEF over, under
<1>8. SignedSum(rows) = minus(over, under)
  <2>1. CASE \A f \in F : f.amount = None /\ f.direction = "INTEGRITY_ONLY"
    BY <1>6, <2>1 DEF over, under, rows, F, inv
  <2>2. CASE \E g \in F, d \in Int :
             /\ g.amount = Cents(d) /\ g.result = "VARIANCE"
             /\ g.direction = IF d < 0 THEN "UNDERCHARGE" ELSE "OVERCHARGE"
             /\ \A f \in F \ {g} : f.amount = None /\ f.direction = "INTEGRITY_ONLY"
    BY <1>7, <2>2, Zenon
  <2> QED
    BY <1>1, <2>1, <2>2
<1> QED
  BY <1>8 DEF over, under, rows, F, inv

(* The scorecard and the variance_finding rows tell one story: of any      *)
(* scored run, whatever its document, rate and contract.                   *)
THEOREM ScorecardTellsTheRows == Spec => []ScorecardReconciles
<1>1. AuditInv => ScorecardReconciles
  <2> SUFFICES ASSUME AuditInv, run # None, Result.outcome = "SCORED"
               PROVE  ScorecardReconciles
    BY Zenon DEF ScorecardReconciles
  <2>1. PICK doc \in Document, contract \in {"none", "known", "unknown"},
             row \in Rate \cup {None},
             duplicate \in BOOLEAN \cup {None}, match \in BOOLEAN \cup {None} :
           /\ contract # "known" => row = None
           /\ RunAudits(doc, contract, AnswersOf(contract, row, duplicate, match))
    BY Zenon DEF AuditInv, RunInv
  <2> DEFINE ins == AnswersOf(contract, row, duplicate, match)
             fb == buildFactBundle(parse(doc), ins)
             F == Found(contract, fb)
             rows == varianceFindings(parse(doc), F)
             card == scorecardOf(F)
  <2>2. ins.contracted = (contract # "none") /\ ins.rate = row
    BY DEF AnswersOf
  <2>3. ScoredRun(doc, contract, ins)
    BY <2>1, ScoredRunIs, Zenon
  <2>4. doc \in DocumentText
    BY DocumentAssumption
  <2>5. Sound(doc)
    BY <2>3, <2>4, NoDefectIsSound DEF ScoredRun
  <2> HIDE DEF ins
  <2>6. SignedSum(rows) = minus(Total(F, "OVERCHARGE"), Total(F, "UNDERCHARGE"))
    BY <2>1, <2>2, <2>4, <2>5, SignedReconciles, Zenon
  <2>7. /\ CountOf(F, "CONFORMED") + CountOf(F, "VARIANCE") + CountOf(F, "UNASSESSABLE")
              = Cardinality(Scores(rubricFor(contract)))
        /\ CountOf(F, "VARIANCE") + CountOf(F, "UNASSESSABLE") = Cardinality(rows)
    BY RowsCounted, Zenon
  <2>8. /\ run.contract = contract /\ run.varianceFindings = rows /\ Result.scorecard = card
    BY <2>3, Zenon DEF ScoredRun
  <2>9. /\ card.conformed = CountOf(F, "CONFORMED") /\ card.variance = CountOf(F, "VARIANCE")
        /\ card.unassessable = CountOf(F, "UNASSESSABLE")
        /\ card.totalOvercharge = Total(F, "OVERCHARGE")
        /\ card.totalUndercharge = Total(F, "UNDERCHARGE")
    BY DEF scorecardOf
  <2> HIDE DEF F, rows, card
  <2> QED
    BY <2>6, <2>7, <2>8, <2>9, Zenon DEF ScorecardReconciles, SignedSum, Scores
<1> QED
  BY <1>1, RunIsAnAudit, PTL

-----------------------------------------------------------------------------
(* What replay needs of a run: the recorded result is what the recorded    *)
(* invoice and inputs give under the rubric of the run's contract, and the *)
(* pins tell that contract.                                                *)
ReplayInv ==
    run # None =>
        LET manifest == run.manifest
        IN  /\ run.contract \in {"none", "known", "unknown"}
            /\ manifest.contractVersions = contractPins(run.contract)
            /\ manifest.result =
                 evaluateInvoice(manifest.invoice, rubricFor(run.contract), manifest.resolvedInputs)

(* Replay fails on no other run than one for a contract the tenant does    *)
(* not have: rates and policies may have changed since.                    *)
PinnedRunsReplay ==
    [][replayAuditRun /\ run.contract # "unknown" => replayed' = "identical"]_vars

(* replayAuditRun reproduces every run of a contract that was pinned, or   *)
(* of none: what the code's promise of byte-identical replay comes to, the *)
(* violated ReplayReproduces being the rest of it.                         *)
THEOREM OnlyUnpinnedRunsDiverge == Spec => PinnedRunsReplay
<1>1. Init => ReplayInv
  BY DEF Init, ReplayInv
<1>2. ReplayInv /\ [Next]_vars => ReplayInv'
  <2> SUFFICES ASSUME ReplayInv, [Next]_vars PROVE ReplayInv'
    OBVIOUS
  <2>0. ASSUME run' = run PROVE ReplayInv'
    BY <2>0 DEF ReplayInv
  <2>1. ASSUME NEW doc \in Document, NEW contract \in {"none", "known", "unknown"},
               ingest(doc, contract)
        PROVE  ReplayInv'
    <3> DEFINE inv == parse(doc)
    <3>1. PICK duplicate \in AnswersTo(inv, "number"), match \in AnswersTo(inv, "reference") :
             LET inputs == resolvedInputs(contract, duplicate, match)
                 result == evaluateInvoice(inv, rubricFor(contract), inputs)
             IN  persistAuditRun(doc, contract, inv, inputs, result)
      BY <2>1 DEF ingest
    <3> DEFINE ins == resolvedInputs(contract, duplicate, match)
               result == evaluateInvoice(inv, rubricFor(contract), ins)
    <3> HIDE DEF inv, ins
    <3>2. run' = [document |-> doc, contract |-> contract,
                  varianceFindings |-> varianceFindings(inv, result.findings),
                  decision |-> paymentDecision(result),
                  manifest |-> [contractVersions |-> contractPins(contract),
                                resolvedInputs |-> ins, invoice |-> inv,
                                result |-> result]]
      BY <3>1 DEF persistAuditRun, ins
    <3> HIDE DEF result
    <3>3. /\ run'.contract = contract
          /\ run'.manifest.contractVersions = contractPins(contract)
          /\ run'.manifest.invoice = inv /\ run'.manifest.resolvedInputs = ins
          /\ run'.manifest.result = result
      BY <3>2
    <3> QED
      BY <3>3 DEF ReplayInv, result
  <2>2. ASSUME NEW row \in Rate \cup {None}, changeContractRate(row) PROVE ReplayInv'
    BY <2>0, <2>2 DEF changeContractRate
  <2>3. CASE upsertPaymentPolicy
    BY <2>0, <2>3 DEF upsertPaymentPolicy
  <2>4. CASE replayAuditRun
    BY <2>0, <2>4 DEF replayAuditRun
  <2>5. CASE UNCHANGED vars
    BY <2>0, <2>5 DEF vars
  <2> QED
    BY <2>1, <2>2, <2>3, <2>4, <2>5 DEF Next
<1>3. ReplayInv /\ replayAuditRun /\ run.contract # "unknown" => replayed' = "identical"
  <2> SUFFICES ASSUME ReplayInv, replayAuditRun, run.contract # "unknown"
               PROVE  replayed' = "identical"
    OBVIOUS
  <2> DEFINE manifest == run.manifest
             rubric == IF manifest.contractVersions # {} THEN CONTRACT_RUBRIC
                       ELSE STANDARD_RUBRIC
  <2>1. run # None
    BY DEF replayAuditRun
  <2>2. rubric = rubricFor(run.contract)
    BY <2>1 DEF ReplayInv, contractPins, rubricFor
  <2>3. manifest.result = evaluateInvoice(manifest.invoice, rubric, manifest.resolvedInputs)
    BY <2>1, <2>2 DEF ReplayInv
  <2>4. replayed' = IF evaluateInvoice(manifest.invoice, rubric, manifest.resolvedInputs)
                         = manifest.result
                    THEN "identical" ELSE "integrity_error"
    BY DEF replayAuditRun
  <2> QED
    BY <2>3, <2>4
<1> QED
  BY <1>1, <1>2, <1>3, PTL DEF Spec, PinnedRunsReplay
=============================================================================
