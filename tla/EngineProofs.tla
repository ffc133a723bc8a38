----------------------------- MODULE EngineProofs -----------------------------
(***************************************************************************)
(* What is proved of the evaluation of a ledger, for any ledgers, calls    *)
(* and logs: a rule that fails takes no other with it, and all rules are   *)
(* judged in one world.  The argument has three layers.  What a predicate  *)
(* says is a function of its positions, built from the leaves up, and does *)
(* not depend on the log where judging it does not come to the log.  A     *)
(* judgement that asks for nothing more is settled: it stays what it is    *)
(* however much is looked up later.  And what is known only grows, as      *)
(* nothing is asked for twice.  From the same lemmas: an exception lifts   *)
(* no more than it names, and what may be forbidden in a directory that is *)
(* not known is said.  Two arguments are about paths alone: a variable     *)
(* that is not resolved keeps its place, and a pattern that describes a    *)
(* directory reaches every directory above it.  At the end, what was said  *)
(* of a rule and of its exceptions never changes, what was looked up is    *)
(* what the disk holds while nothing changes, and so evaluate returns what *)
(* the rules say with every repository and every earlier call known.       *)
(***************************************************************************)
EXTENDS Engine, NaturalsInduction, SequenceTheorems, WellFoundedInduction, TLAPS

-----------------------------------------------------------------------------
\* Induction from the leaves of a tree to its root.

\* A set of naturals that is not empty has a least element.
LEMMA LeastNumber ==
    ASSUME NEW T, T \subseteq Nat, T # {}
    PROVE  \E n \in T : \A k \in T : n <= k
<1>1. IsWellFoundedOn(OpToRel(<, Nat), Nat)
  BY NatLessThanWellFounded
<1>2. PICK n \in T : \A k \in T : ~ (<<k, n>> \in OpToRel(<, Nat))
  BY <1>1, WFMin
<1>3. \A k \in T : ~ (k < n)
  BY <1>2 DEF OpToRel
<1> QED
  BY <1>3

\* What a position of a tree makes of the values at the positions after it.
LaterOnly(n, V, G) ==
    \A i \in 1..n : \A f, g \in [1..n -> V] :
        (\A j \in i + 1..n : f[j] = g[j]) => G[i][f] = G[i][g]

FromLater(n, V, G) == \E h \in [1..n -> V] : \A i \in 1..n : h[i] = G[i][h]

\* A function over the positions of a tree, given by what each position makes
\* of the values at the later ones, exists.
LEMMA TreeFunction ==
    ASSUME NEW n \in Nat, NEW V, V # {},
           NEW G \in [1..n -> [[1..n -> V] -> V]], LaterOnly(n, V, G)
    PROVE  FromLater(n, V, G)
<1> DEFINE Upto(k) == \E h \in [1..n -> V] : \A i \in 1..n : i > n - k => h[i] = G[i][h]
           Missing == {k \in Nat : k <= n /\ ~ Upto(k)}
<1>1. Missing = {}
  <2> SUFFICES ASSUME Missing # {} PROVE FALSE
    OBVIOUS
  <2>1. PICK k \in Missing : \A l \in Missing : k <= l
    <3>1. Missing \subseteq Nat
      OBVIOUS
    <3> HIDE DEF Missing
    <3> QED
      BY <3>1, LeastNumber
  <2>2. k \in Nat /\ k <= n /\ ~ Upto(k)
    BY <2>1
  <2>3. Upto(0)
    <3>1. PICK v \in V : TRUE
      OBVIOUS
    <3>2. [i \in 1..n |-> v] \in [1..n -> V] /\ \A i \in 1..n : ~ (i > n - 0)
      OBVIOUS
    <3> QED
      BY <3>2
  <2>4. k # 0
    BY <2>2, <2>3
  <2>5. Upto(k - 1)
    <3>1. k - 1 \in Nat /\ k - 1 <= n /\ ~ (k <= k - 1)
      BY <2>2, <2>4
    <3> QED
      BY <2>1, <3>1
  <2>6. PICK h \in [1..n -> V] : \A i \in 1..n : i > n - (k - 1) => h[i] = G[i][h]
    BY <2>5
  <2> DEFINE at == n - k + 1
             more == [h EXCEPT ![at] = G[at][h]]
  <2>7. at \in 1..n /\ at = n - (k - 1)
    BY <2>2, <2>4
  <2>8. G[at][h] \in V
    BY <2>7
  <2>9. /\ more \in [1..n -> V] /\ more[at] = G[at][h]
        /\ \A i \in 1..n : i # at => more[i] = h[i]
    BY <2>7, <2>8
  <2> HIDE DEF more, at
  <2>10. ASSUME NEW i \in 1..n, i > n - k
         PROVE  more[i] = G[i][more]
    <3>1. \A j \in i + 1..n : j \in 1..n /\ j # at /\ i >= at
      BY <2>2, <2>10 DEF at
    <3>2. \A j \in i + 1..n : more[j] = h[j]
      BY <2>9, <3>1
    <3>3. G[i][more] = G[i][h]
      BY <2>9, <3>2 DEF LaterOnly
    <3>4. CASE i = at
      BY <2>9, <3>3, <3>4
    <3>5. CASE i # at
      <4>1. i > n - (k - 1)
        BY <2>2, <2>7, <2>10, <3>5
      <4> QED
        BY <2>6, <2>9, <3>3, <3>5, <4>1
    <3> QED
      BY <3>4, <3>5
  <2> QED
    BY <2>2, <2>9, <2>10
<1>2. Upto(n)
  <2> HIDE DEF Upto
  <2>1. n \notin Missing /\ n <= n
    BY <1>1
  <2> QED
    BY <2>1
<1>3. \A i \in 1..n : i > n - n
  OBVIOUS
<1> QED
  BY <1>2, <1>3 DEF FromLater

-----------------------------------------------------------------------------
\* The parts of a node come after it, and are those its kind has.
LEMMA NodesOfTrees ==
    ASSUME NEW pred, IsTree(pred), NEW i \in DOMAIN pred
    PROVE  /\ DOMAIN pred = 1..Len(pred) /\ Len(pred) \in Nat
           /\ i \in 1..Len(pred) /\ 1 \in 1..Len(pred) /\ pred[i].kind \in NodeKinds
           /\ \A j \in Parts(pred[i]) : j \in i + 1..Len(pred) /\ j \in 1..Len(pred)
           /\ pred[i].kind \in {"all", "any"} => Parts(pred[i]) = pred[i].parts
           /\ pred[i].kind \in {"not", "preceded", "exceeds"} => Parts(pred[i]) = {pred[i].of}
<1>1. DOMAIN pred = 1..Len(pred) /\ Len(pred) \in Nat /\ Len(pred) # 0
  BY DEF IsTree
<1>2. pred[i].kind \in NodeKinds /\ Parts(pred[i]) \subseteq i + 1..Len(pred)
  BY DEF IsTree
<1>3. \A j \in i + 1..Len(pred) : j \in 1..Len(pred)
  BY <1>1
<1>4. /\ pred[i].kind \in {"all", "any"} => Parts(pred[i]) = pred[i].parts
      /\ pred[i].kind \in {"not", "preceded", "exceeds"} => Parts(pred[i]) = {pred[i].of}
  BY DEF Parts
<1> QED
  BY <1>1, <1>2, <1>3, <1>4

\* _reads_history as a function of the positions: its equation holds.
LEMMA MentionsIs ==
    ASSUME NEW pred, IsTree(pred), NEW kinds
    PROVE  \A i \in DOMAIN pred :
               /\ Mentions(pred, kinds)[i] \in BOOLEAN
               /\ Mentions(pred, kinds)[i]
                     = NodeMentions(pred[i], kinds, Mentions(pred, kinds))
<1> DEFINE n == Len(pred)
           G == [i \in 1..n |-> [f \in [1..n -> BOOLEAN] |-> NodeMentions(pred[i], kinds, f)]]
           Is(h) == h = [i \in DOMAIN pred |-> NodeMentions(pred[i], kinds, h)]
<1>0. DOMAIN pred = 1..n /\ n \in Nat
  BY DEF IsTree
<1>1. ASSUME NEW i \in 1..n, NEW f \in [1..n -> BOOLEAN]
      PROVE  NodeMentions(pred[i], kinds, f) \in BOOLEAN
  BY DEF NodeMentions
<1>2. G \in [1..n -> [[1..n -> BOOLEAN] -> BOOLEAN]]
  BY <1>1
<1>3. LaterOnly(n, BOOLEAN, G)
  <2> SUFFICES ASSUME NEW i \in 1..n, NEW f \in [1..n -> BOOLEAN], NEW g \in [1..n -> BOOLEAN],
                      \A j \in i + 1..n : f[j] = g[j]
               PROVE  NodeMentions(pred[i], kinds, f) = NodeMentions(pred[i], kinds, g)
    BY DEF LaterOnly
  <2>1. \A j \in Parts(pred[i]) : f[j] = g[j]
    BY <1>0, NodesOfTrees
  <2>2. /\ pred[i].kind \in {"all", "any"} => Parts(pred[i]) = pred[i].parts
        /\ pred[i].kind = "not" => Parts(pred[i]) = {pred[i].of}
    BY <1>0, NodesOfTrees
  <2> QED
    BY <2>1, <2>2 DEF NodeMentions
<1>4. PICK h \in [1..n -> BOOLEAN] : \A i \in 1..n : h[i] = G[i][h]
  <2>1. BOOLEAN # {}
    OBVIOUS
  <2>2. FromLater(n, BOOLEAN, G)
    <3> HIDE DEF n, G
    <3> QED
      BY <1>0, <1>2, <1>3, <2>1, TreeFunction
  <2> QED
    BY <2>2 DEF FromLater
<1>5. Is(h)
  BY <1>0, <1>4
<1>6. Mentions(pred, kinds) = CHOOSE m : Is(m)
  BY DEF Mentions
<1>7. Is(Mentions(pred, kinds))
  BY <1>5, <1>6
<1> QED
  BY <1>7 DEF NodeMentions

\* What holds of a position when it holds of the later ones holds of all.
LEMMA LeavesUp ==
    ASSUME NEW n \in Nat, NEW S,
           \A i \in 1..n : (\A j \in i + 1..n : j \in S) => i \in S
    PROVE  \A i \in 1..n : i \in S
<1> DEFINE Bad == {k \in Nat : k < n /\ n - k \notin S}
<1>1. Bad = {}
  <2> SUFFICES ASSUME Bad # {} PROVE FALSE
    OBVIOUS
  <2>1. PICK k \in Bad : \A l \in Bad : k <= l
    <3>1. Bad \subseteq Nat
      OBVIOUS
    <3> HIDE DEF Bad
    <3> QED
      BY <3>1, LeastNumber
  <2>2. k \in Nat /\ k < n /\ n - k \notin S /\ n - k \in 1..n
    BY <2>1
  <2>3. ASSUME NEW j \in n - k + 1..n
        PROVE  j \in S
    <3>1. n - j \in Nat /\ n - j < n /\ n - j < k /\ n - (n - j) = j
      BY <2>2
    <3> QED
      BY <2>1, <2>2, <3>1
  <2> QED
    BY <2>2, <2>3
<1> QED
  <2> SUFFICES ASSUME NEW i \in 1..n, i \notin S PROVE FALSE
    OBVIOUS
  <2>1. n - i \in Nat /\ n - i < n /\ n - (n - i) = i
    OBVIOUS
  <2> QED
    BY <1>1, <2>1

\* The function that Consults defines.
ConsultsAt(pred, facts, ctx) ==
    CHOOSE f : f = [i \in DOMAIN pred |-> NodeConsults(pred[i], pred, facts, ctx, f)]

\* The function of Consults is defined by its equation, and is Boolean.
LEMMA ConsultsIs ==
    ASSUME NEW pred, IsTree(pred), NEW facts, NEW ctx
    PROVE  /\ Consults(pred, facts, ctx)
                 = (facts.session # "" /\ ConsultsAt(pred, facts, ctx)[1])
           /\ \A i \in DOMAIN pred :
                  /\ ConsultsAt(pred, facts, ctx)[i] \in BOOLEAN
                  /\ ConsultsAt(pred, facts, ctx)[i]
                        = NodeConsults(pred[i], pred, facts, ctx, ConsultsAt(pred, facts, ctx))
<1> DEFINE n == Len(pred)
           Node(i, f) == NodeConsults(pred[i], pred, facts, ctx, f)
           G == [i \in 1..n |-> [f \in [1..n -> BOOLEAN] |-> Node(i, f)]]
           Is(h) == h = [i \in DOMAIN pred |-> Node(i, h)]
<1>0. DOMAIN pred = 1..n /\ n \in Nat
  BY DEF IsTree
<1>1. ASSUME NEW i \in 1..n, NEW f
      PROVE  Node(i, f) \in BOOLEAN
  BY DEF NodeConsults
<1>2. G \in [1..n -> [[1..n -> BOOLEAN] -> BOOLEAN]]
  BY <1>1
<1>3. LaterOnly(n, BOOLEAN, G)
  <2> SUFFICES ASSUME NEW i \in 1..n, NEW f \in [1..n -> BOOLEAN], NEW g \in [1..n -> BOOLEAN],
                      \A j \in i + 1..n : f[j] = g[j]
               PROVE  Node(i, f) = Node(i, g)
    BY DEF LaterOnly
  <2>1. \A j \in Parts(pred[i]) : f[j] = g[j]
    BY <1>0, NodesOfTrees
  <2>2. /\ pred[i].kind \in {"all", "any"} => Parts(pred[i]) = pred[i].parts
        /\ pred[i].kind = "not" => Parts(pred[i]) = {pred[i].of}
    BY <1>0, NodesOfTrees
  <2> QED
    BY <2>1, <2>2 DEF NodeConsults
<1>4. PICK h \in [1..n -> BOOLEAN] : \A i \in 1..n : h[i] = G[i][h]
  <2>1. BOOLEAN # {}
    OBVIOUS
  <2>2. FromLater(n, BOOLEAN, G)
    <3> HIDE DEF n, G
    <3> QED
      BY <1>0, <1>2, <1>3, <2>1, TreeFunction
  <2> QED
    BY <2>2 DEF FromLater
<1>5. Is(h)
  <2> HIDE DEF Node
  <2> QED
    BY <1>0, <1>4
<1>6. ConsultsAt(pred, facts, ctx) = CHOOSE m : Is(m)
  BY DEF ConsultsAt
<1>7. Is(ConsultsAt(pred, facts, ctx))
  <2> HIDE DEF Is
  <2> QED
    BY <1>5, <1>6
<1>8. Consults(pred, facts, ctx) = (facts.session # "" /\ ConsultsAt(pred, facts, ctx)[1])
  BY DEF Consults, ConsultsAt
<1>9. ASSUME NEW i \in DOMAIN pred
      PROVE  ConsultsAt(pred, facts, ctx)[i] = Node(i, ConsultsAt(pred, facts, ctx))
  <2> HIDE DEF Node
  <2> QED
    BY <1>7
<1> QED
  BY <1>0, <1>1, <1>8, <1>9

\* The same of Holds: what it says of the call and of each earlier one.
Cases(facts, calls) == [call : {facts} \cup {s.facts : s \in calls}, earlier : BOOLEAN]
HoldsFor(pred, facts, calls, ctx) ==
    CHOOSE f : f = [i \in DOMAIN pred |->
                       [at \in Cases(facts, calls) |-> NodeHolds(pred[i], at, calls, f, ctx)]]

OfCall(facts) == Case(facts, FALSE)
IsHeld(pred, facts, calls, ctx) ==
    LET held == HoldsFor(pred, facts, calls, ctx)
    IN  /\ \A i : HoldsGiven(pred, i, facts, calls, ctx) = held[i][OfCall(facts)]
        /\ \A i \in DOMAIN pred : \A at \in Cases(facts, calls) :
               held[i][at] \in BOOLEAN /\ held[i][at] = NodeHolds(pred[i], at, calls, held, ctx)

\* _holds as a function of the positions: its equation holds of the call
\* and of each earlier one, and what it says is a truth value.
LEMMA HoldsIs ==
    ASSUME NEW pred, IsTree(pred), NEW facts, NEW calls, NEW ctx
    PROVE  IsHeld(pred, facts, calls, ctx)
<1> DEFINE n == Len(pred)
           C == Cases(facts, calls)
           V == [C -> BOOLEAN]
           Node(i, f) == [at \in C |-> NodeHolds(pred[i], at, calls, f, ctx)]
           G == [i \in 1..n |-> [f \in [1..n -> V] |-> Node(i, f)]]
           Is(h) == h = [i \in DOMAIN pred |-> Node(i, h)]
<1>0. DOMAIN pred = 1..n /\ n \in Nat
  BY DEF IsTree
<1>1. ASSUME NEW i \in 1..n, NEW f, NEW at
      PROVE  NodeHolds(pred[i], at, calls, f, ctx) \in BOOLEAN
  <2>1. pred[i].kind \in NodeKinds
    BY <1>0, NodesOfTrees
  <2>2. /\ PathHolds(pred[i], ctx.base, at.call) \in BOOLEAN
        /\ ArgHolds(pred[i], at.call) \in BOOLEAN
        /\ ExprHolds(pred[i], at.call) \in BOOLEAN
        /\ IsDynamic(pred[i], at.call) \in BOOLEAN
        /\ Assigns(pred[i], at.call) \in BOOLEAN
    BY DEF PathHolds, ArgHolds, ExprHolds, IsDynamic, Assigns
  <2>3. CASE pred[i].kind \in {"command", "path", "arg", "expr", "dynamic", "assigns", "unknown"}
    BY <2>2, <2>3 DEF NodeHolds
  <2>4. CASE pred[i].kind \in {"all", "any", "not"}
    BY <2>4 DEF NodeHolds
  <2>5. CASE pred[i].kind = "preceded"
    BY <2>5 DEF NodeHolds
  <2>6. CASE pred[i].kind = "exceeds"
    <3> DEFINE Met == IF at.earlier THEN {}
                      ELSE {s \in calls : f[pred[i].of][Case(s.facts, TRUE)]}
               count == Cardinality({s \in Met : s.time >= ctx.now - pred[i].within})
    <3>1. (count > pred[i].max) \in BOOLEAN
      <4> HIDE DEF count
      <4> QED
        OBVIOUS
    <3>2. NodeHolds(pred[i], at, calls, f, ctx) = (count > pred[i].max)
      BY <2>6 DEF NodeHolds
    <3> HIDE DEF count
    <3> QED
      BY <3>1, <3>2
  <2> QED
    BY <2>1, <2>3, <2>4, <2>5, <2>6 DEF NodeKinds
<1>2. G \in [1..n -> [[1..n -> V] -> V]]
  <2>1. \A i \in 1..n : \A f : Node(i, f) \in V
    BY <1>1
  <2> HIDE DEF V, Node
  <2> QED
    BY <2>1
<1>3. LaterOnly(n, V, G)
  <2> SUFFICES ASSUME NEW i \in 1..n, NEW f \in [1..n -> V], NEW g \in [1..n -> V],
                      \A j \in i + 1..n : f[j] = g[j]
               PROVE  Node(i, f) = Node(i, g)
    <3> HIDE DEF V, Node
    <3> QED
      BY DEF LaterOnly
  <2>1. \A j \in Parts(pred[i]) : f[j] = g[j]
    BY <1>0, NodesOfTrees
  <2>2. /\ pred[i].kind \in {"all", "any"} => Parts(pred[i]) = pred[i].parts
        /\ pred[i].kind \in {"not", "preceded", "exceeds"} => Parts(pred[i]) = {pred[i].of}
    BY <1>0, NodesOfTrees
  <2>3. ASSUME NEW at \in C
        PROVE  NodeHolds(pred[i], at, calls, f, ctx) = NodeHolds(pred[i], at, calls, g, ctx)
    <3>1. pred[i].kind \in NodeKinds
      BY <1>0, NodesOfTrees
    <3>2. CASE pred[i].kind \in {"preceded", "exceeds"}
      <4>1. f[pred[i].of] = g[pred[i].of]
        BY <2>1, <2>2, <3>2
      <4> QED
        BY <3>2, <4>1 DEF NodeHolds
    <3>3. CASE pred[i].kind \notin {"preceded", "exceeds"}
      BY <2>1, <2>2, <3>1, <3>3 DEF NodeHolds, NodeKinds
    <3> QED
      BY <3>2, <3>3
  <2> QED
    BY <2>3
<1>4. PICK h \in [1..n -> V] : \A i \in 1..n : h[i] = G[i][h]
  <2>1. V # {}
    <3>1. [at \in C |-> TRUE] \in V
      OBVIOUS
    <3> QED
      BY <3>1
  <2>2. FromLater(n, V, G)
    <3> HIDE DEF n, G, V
    <3> QED
      BY <1>0, <1>2, <1>3, <2>1, TreeFunction
  <2> HIDE DEF V, G
  <2> QED
    BY <2>2 DEF FromLater
<1>5. Is(h)
  <2> HIDE DEF Node, V
  <2> QED
    BY <1>0, <1>4
<1>6. HoldsFor(pred, facts, calls, ctx) = CHOOSE m : Is(m)
  BY DEF HoldsFor
<1> DEFINE H == HoldsFor(pred, facts, calls, ctx)
<1>7. Is(H)
  <2> HIDE DEF Is
  <2> QED
    BY <1>5, <1>6
<1>8. \A i : HoldsGiven(pred, i, facts, calls, ctx) = H[i][Case(facts, FALSE)]
  BY DEF HoldsGiven, HoldsFor, Cases
<1> HIDE DEF H
<1>9. \A i \in DOMAIN pred : H[i] = Node(i, H)
  <2> HIDE DEF Node
  <2> QED
    BY <1>7
<1>10. \A i \in DOMAIN pred, at \in C : H[i][at] = NodeHolds(pred[i], at, calls, H, ctx)
  BY <1>9
<1>11. \A i \in DOMAIN pred, at \in C : H[i][at] \in BOOLEAN
  BY <1>0, <1>1, <1>10
<1> QED
  BY <1>8, <1>10, <1>11 DEF H, IsHeld, OfCall

-----------------------------------------------------------------------------
\* Contexts that differ only in what was looked up and read.
Alike(c, d) == c.base = d.base /\ (c.possible = {} <=> d.possible = {}) /\ c.now = d.now

\* The function that HoldsAt reads, and what it says of the call itself.
HeldBy(pred, facts, ctx) == HoldsFor(pred, facts, PastViews(facts, ctx), ctx)

\* The same of what HoldsAt says of the call itself.
LEMMA HeldByIs ==
    ASSUME NEW pred, IsTree(pred), NEW facts, NEW ctx
    PROVE  /\ \A i : HoldsAt(pred, i, facts, ctx) = HeldBy(pred, facts, ctx)[i][OfCall(facts)]
           /\ \A i \in DOMAIN pred :
                  /\ HeldBy(pred, facts, ctx)[i][OfCall(facts)] \in BOOLEAN
                  /\ HeldBy(pred, facts, ctx)[i][OfCall(facts)]
                        = NodeHolds(pred[i], OfCall(facts), PastViews(facts, ctx),
                                    HeldBy(pred, facts, ctx), ctx)
<1> DEFINE calls == PastViews(facts, ctx)
<1> HIDE DEF calls
<1>1. OfCall(facts) \in Cases(facts, calls)
  BY DEF Cases, OfCall, Case
<1>2. IsHeld(pred, facts, calls, ctx)
  BY HoldsIs
<1> QED
  BY <1>1, <1>2 DEF calls, HeldBy, HoldsAt, IsHeld

\* Two contexts with the same earlier calls say the same of a predicate.
LEMMA SamePastSame ==
    ASSUME NEW pred, IsTree(pred), NEW facts, NEW c, NEW d, Alike(c, d),
           PastViews(facts, c) = PastViews(facts, d)
    PROVE  \A i : HoldsAt(pred, i, facts, c) = HoldsAt(pred, i, facts, d)
<1>1. ASSUME NEW node, NEW at, NEW calls, NEW h
      PROVE  NodeHolds(node, at, calls, h, c) = NodeHolds(node, at, calls, h, d)
  BY DEF NodeHolds, Alike
<1> DEFINE calls == PastViews(facts, c)
           OfC(f) == [i \in DOMAIN pred |->
                        [at \in Cases(facts, calls) |-> NodeHolds(pred[i], at, calls, f, c)]]
           OfD(f) == [i \in DOMAIN pred |->
                        [at \in Cases(facts, calls) |-> NodeHolds(pred[i], at, calls, f, d)]]
<1>2. \A f : OfC(f) = OfD(f)
  BY <1>1
<1>3. /\ HoldsFor(pred, facts, calls, c) = CHOOSE f : f = OfC(f)
      /\ HoldsFor(pred, facts, calls, d) = CHOOSE f : f = OfD(f)
  BY DEF HoldsFor
<1>4. HoldsFor(pred, facts, calls, c) = HoldsFor(pred, facts, calls, d)
  <2> HIDE DEF OfC, OfD
  <2> QED
    BY <1>2, <1>3
<1>5. HeldBy(pred, facts, c) = HeldBy(pred, facts, d)
  BY <1>4 DEF HeldBy
<1> QED
  BY <1>5, HeldByIs

\* What a node asks of the call itself does not depend on the earlier calls.
LEMMA NodesAlike ==
    ASSUME NEW c, NEW d, Alike(c, d), NEW node, node.kind \in NodeKinds \ History, NEW at,
           NEW calls, NEW f, NEW others, NEW g,
           \A j \in Parts(node) : f[j][at] = g[j][at]
    PROVE  NodeHolds(node, at, calls, f, c) = NodeHolds(node, at, others, g, d)
<1>1. CASE node.kind \in {"all", "any", "not"}
  BY <1>1 DEF NodeHolds, Parts
<1>2. CASE node.kind \in {"command", "path", "arg", "expr", "dynamic", "assigns", "unknown"}
  BY <1>2 DEF NodeHolds, Alike
<1> QED
  BY <1>1, <1>2 DEF NodeKinds, History

\* _reads_history: what does not mention the earlier calls does not depend on them.
LEMMA UnmentionedSame ==
    ASSUME NEW pred, IsTree(pred), NEW facts, NEW c, NEW d, Alike(c, d)
    PROVE  \A i \in DOMAIN pred :
               ~Mentions(pred, History)[i] => HoldsAt(pred, i, facts, c) = HoldsAt(pred, i, facts, d)
<1> DEFINE n == Len(pred)
           M == Mentions(pred, History)
           at == OfCall(facts)
           F == HeldBy(pred, facts, c)
           G == HeldBy(pred, facts, d)
           S == {i \in 1..n : ~M[i] => F[i][at] = G[i][at]}
<1>0. DOMAIN pred = 1..n /\ n \in Nat
  BY DEF IsTree
<1>1. \A i : HoldsAt(pred, i, facts, c) = F[i][at] /\ HoldsAt(pred, i, facts, d) = G[i][at]
  BY HeldByIs
<1>3. \A i \in DOMAIN pred :
          /\ F[i][at] = NodeHolds(pred[i], at, PastViews(facts, c), F, c)
          /\ G[i][at] = NodeHolds(pred[i], at, PastViews(facts, d), G, d)
  BY HeldByIs
<1>4. \A i \in DOMAIN pred : M[i] = NodeMentions(pred[i], History, M)
  BY MentionsIs
<1> HIDE DEF M, F, G, at
<1>5. ASSUME NEW i \in 1..n, \A j \in i + 1..n : j \in S
      PROVE  i \in S
  <2> SUFFICES ASSUME ~M[i] PROVE F[i][at] = G[i][at]
    OBVIOUS
  <2>1. ~NodeMentions(pred[i], History, M)
    BY <1>0, <1>4
  <2>2. pred[i].kind \in NodeKinds \ History
    BY <1>0, <2>1, NodesOfTrees DEF NodeMentions
  <2>3. \A j \in Parts(pred[i]) : ~M[j]
    <3>1. CASE pred[i].kind \in {"all", "any", "not"}
      BY <1>0, <2>1, <3>1, NodesOfTrees DEF NodeMentions
    <3>2. CASE pred[i].kind \notin {"all", "any", "not"}
      BY <2>2, <3>2 DEF Parts, History
    <3> QED
      BY <3>1, <3>2
  <2>4. \A j \in Parts(pred[i]) : j \in S
    BY <1>0, <1>5, NodesOfTrees
  <2>5. \A j \in Parts(pred[i]) : F[j][at] = G[j][at]
    BY <2>3, <2>4
  <2> QED
    BY <1>0, <1>3, <2>2, <2>5, NodesAlike
<1>6. \A i \in 1..n : i \in S
  <2> HIDE DEF S, n
  <2> QED
    BY <1>0, <1>5, LeavesUp
<1> QED
  BY <1>0, <1>1, <1>6 DEF M

\* What does not mention the earlier calls does not come to them.
LEMMA UnmentionedNotConsulted ==
    ASSUME NEW pred, IsTree(pred), NEW facts, NEW ctx
    PROVE  \A i \in DOMAIN pred :
               ~Mentions(pred, History)[i] => ~ConsultsAt(pred, facts, ctx)[i]
<1> DEFINE n == Len(pred)
           M == Mentions(pred, History)
           C == ConsultsAt(pred, facts, ctx)
           S == {i \in 1..n : ~M[i] => ~C[i]}
<1>0. DOMAIN pred = 1..n /\ n \in Nat
  BY DEF IsTree
<1>1. \A i \in DOMAIN pred : M[i] = NodeMentions(pred[i], History, M)
  BY MentionsIs
<1>2. \A i \in DOMAIN pred : C[i] = NodeConsults(pred[i], pred, facts, ctx, C)
  BY ConsultsIs
<1> HIDE DEF M, C
<1>3. ASSUME NEW i \in 1..n, \A j \in i + 1..n : j \in S
      PROVE  i \in S
  <2> SUFFICES ASSUME ~M[i], C[i] PROVE FALSE
    OBVIOUS
  <2>1. ~NodeMentions(pred[i], History, M) /\ NodeConsults(pred[i], pred, facts, ctx, C)
    BY <1>0, <1>1, <1>2
  <2>2. pred[i].kind \notin History
    BY <2>1 DEF NodeMentions
  <2>3. PICK j \in Parts(pred[i]) : C[j] /\ ~M[j]
    <3>1. CASE pred[i].kind \in {"all", "any"}
      BY <1>0, <2>1, <2>2, <3>1, NodesOfTrees DEF NodeMentions, NodeConsults
    <3>2. CASE pred[i].kind = "not"
      BY <1>0, <2>1, <2>2, <3>2, NodesOfTrees DEF NodeMentions, NodeConsults
    <3> QED
      BY <2>1, <2>2, <3>1, <3>2 DEF NodeConsults
  <2>4. j \in S
    BY <1>0, <1>3, NodesOfTrees
  <2> QED
    BY <2>3, <2>4
<1>4. \A i \in 1..n : i \in S
  <2> HIDE DEF S, n
  <2> QED
    BY <1>0, <1>3, LeavesUp
<1> QED
  BY <1>0, <1>4 DEF M, C

\* _cheapest_first: where judging a predicate does not come to the earlier
\* calls, what it says does not depend on them.
LEMMA UnconsultedSame ==
    ASSUME NEW pred, IsTree(pred), NEW facts, NEW c, NEW d, NEW e, Alike(c, d), Alike(e, c)
    PROVE  \A i \in DOMAIN pred :
               ~ConsultsAt(pred, facts, e)[i] => HoldsAt(pred, i, facts, c) = HoldsAt(pred, i, facts, d)
<1> DEFINE n == Len(pred)
           M == Mentions(pred, History)
           C == ConsultsAt(pred, facts, e)
           at == OfCall(facts)
           F == HeldBy(pred, facts, c)
           G == HeldBy(pred, facts, d)
           S == {i \in 1..n : ~C[i] => F[i][at] = G[i][at]}
<1>0. DOMAIN pred = 1..n /\ n \in Nat
  BY DEF IsTree
<1>1. \A i : HoldsAt(pred, i, facts, c) = F[i][at] /\ HoldsAt(pred, i, facts, d) = G[i][at]
  BY HeldByIs
<1>3. \A i \in DOMAIN pred :
          /\ F[i][at] = NodeHolds(pred[i], at, PastViews(facts, c), F, c)
          /\ G[i][at] = NodeHolds(pred[i], at, PastViews(facts, d), G, d)
          /\ F[i][at] \in BOOLEAN /\ G[i][at] \in BOOLEAN
  BY HeldByIs
<1>4. \A i \in DOMAIN pred : C[i] = NodeConsults(pred[i], pred, facts, e, C)
  BY ConsultsIs
<1>5. \A i \in DOMAIN pred : ~M[i] => HoldsAt(pred, i, facts, e) = F[i][at]
                                       /\ HoldsAt(pred, i, facts, e) = G[i][at]
  <2>1. Alike(e, d)
    BY DEF Alike
  <2>2. \A i \in DOMAIN pred : ~M[i] => HoldsAt(pred, i, facts, e) = HoldsAt(pred, i, facts, c)
    BY UnmentionedSame
  <2>3. \A i \in DOMAIN pred : ~M[i] => HoldsAt(pred, i, facts, e) = HoldsAt(pred, i, facts, d)
    BY <2>1, UnmentionedSame
  <2> QED
    BY <1>1, <2>2, <2>3
<1> HIDE DEF M, C, F, G, at
<1>6. ASSUME NEW i \in 1..n, \A j \in i + 1..n : j \in S
      PROVE  i \in S
  <2> SUFFICES ASSUME ~C[i] PROVE F[i][at] = G[i][at]
    OBVIOUS
  <2>1. ~NodeConsults(pred[i], pred, facts, e, C)
    BY <1>0, <1>4
  <2>2. pred[i].kind \in NodeKinds \ History
    BY <1>0, <2>1, NodesOfTrees DEF NodeConsults
  <2>3. \A j \in Parts(pred[i]) : j \in S /\ j \in DOMAIN pred
    BY <1>0, <1>6, NodesOfTrees
  <2>4. CASE \A j \in Parts(pred[i]) : ~C[j]
    <3>1. \A j \in Parts(pred[i]) : F[j][at] = G[j][at]
      BY <2>3, <2>4
    <3> QED
      BY <1>0, <1>3, <2>2, <3>1, NodesAlike
  <2>5. CASE \E j \in Parts(pred[i]) : C[j]
    <3>1. pred[i].kind # "not"
      BY <1>0, <2>1, <2>5, NodesOfTrees DEF NodeConsults
    <3>2. pred[i].kind \in {"all", "any"} /\ Parts(pred[i]) = pred[i].parts
      BY <2>2, <2>5, <3>1 DEF Parts, History
    <3>3. PICK j \in pred[i].parts :
              ~M[j] /\ HoldsAt(pred, j, facts, e) # (pred[i].kind = "all")
      BY <2>1, <2>5, <3>2 DEF NodeConsults, M
    <3>4. F[j][at] # (pred[i].kind = "all") /\ G[j][at] # (pred[i].kind = "all")
      BY <1>5, <2>3, <3>2, <3>3
    <3>5. F[j][at] \in BOOLEAN /\ G[j][at] \in BOOLEAN
      BY <1>3, <2>3, <3>2
    <3>6. CASE pred[i].kind = "all"
      BY <1>0, <1>3, <3>2, <3>4, <3>5, <3>6 DEF NodeHolds
    <3>7. CASE pred[i].kind = "any"
      BY <1>0, <1>3, <3>2, <3>4, <3>5, <3>7 DEF NodeHolds
    <3> QED
      BY <3>2, <3>6, <3>7
  <2> QED
    BY <2>4, <2>5
<1>7. \A i \in 1..n : i \in S
  <2> HIDE DEF S, n
  <2> QED
    BY <1>0, <1>6, LeavesUp
<1> QED
  BY <1>0, <1>1, <1>7 DEF C

\* _Session: two contexts say the same of a call, unless judging it comes
\* to earlier calls that differ.
LEMMA HoldsSame ==
    ASSUME NEW pred, IsTree(pred), NEW facts, NEW c, NEW d, NEW e, Alike(c, d), Alike(e, c),
           Consults(pred, facts, e) => PastViews(facts, c) = PastViews(facts, d)
    PROVE  Holds(pred, facts, c) = Holds(pred, facts, d)
<1>1. CASE facts.session = ""
  <2>1. PastViews(facts, c) = PastViews(facts, d)
    BY <1>1 DEF PastViews
  <2> QED
    BY <2>1, SamePastSame DEF Holds
<1>2. CASE Consults(pred, facts, e)
  BY <1>2, SamePastSame DEF Holds
<1>3. CASE facts.session # "" /\ ~Consults(pred, facts, e)
  <2>1. ~ConsultsAt(pred, facts, e)[1]
    BY <1>3, ConsultsIs
  <2>2. 1 \in DOMAIN pred
    BY DEF IsTree
  <2> QED
    BY <2>1, <2>2, UnconsultedSame DEF Holds
<1> QED
  BY <1>1, <1>2, <1>3

\* Whether judging a predicate comes to the earlier calls is settled before
\* they are read.
LEMMA ConsultsAlike ==
    ASSUME NEW pred, IsTree(pred), NEW facts, NEW c, NEW d, Alike(c, d)
    PROVE  Consults(pred, facts, c) <=> Consults(pred, facts, d)
<1>0. DOMAIN pred = 1..Len(pred) /\ Len(pred) \in Nat
  BY DEF IsTree
<1>1. ASSUME NEW i \in DOMAIN pred, NEW f
      PROVE  NodeConsults(pred[i], pred, facts, c, f) = NodeConsults(pred[i], pred, facts, d, f)
  <2> DEFINE free == {j \in Parts(pred[i]) : ~Mentions(pred, History)[j]}
  <2>1. \A j \in free : HoldsAt(pred, j, facts, c) = HoldsAt(pred, j, facts, d)
    BY <1>0, NodesOfTrees, UnmentionedSame
  <2> QED
    BY <2>1 DEF NodeConsults
<1>2. ConsultsAt(pred, facts, c) = ConsultsAt(pred, facts, d)
  BY <1>1 DEF ConsultsAt
<1>3. Consults(pred, facts, c) <=> facts.session # "" /\ ConsultsAt(pred, facts, c)[1]
  BY ConsultsIs
<1>4. Consults(pred, facts, d) <=> facts.session # "" /\ ConsultsAt(pred, facts, d)[1]
  BY ConsultsIs
<1> QED
  BY <1>2, <1>3, <1>4

-----------------------------------------------------------------------------
\* A later context: more directories are looked up, and nothing else changed.
Extends(c, d) ==
    /\ c.created = d.created /\ c.area = d.area
    /\ \A x \in DOMAIN c.found : x \in DOMAIN d.found /\ d.found[x] = c.found[x]

\* What is found stays found: the root of a directory that was looked up,
LEMMA RootKnown ==
    ASSUME NEW c, NEW d, Extends(c, d), NEW x, ~Asks(x, c.created, c.found)
    PROVE  Root(x, c) = Root(x, d)
BY DEF Extends, Asks, Root, RootAmong

\* whether it lies in an area,
LEMMA RootedKnown ==
    ASSUME NEW c, NEW d, Extends(c, d), NEW area, NEW x, ~Asks(x, c.created, c.found)
    PROVE  Rooted(x, area, c) = Rooted(x, area, d)
BY RootKnown DEF Rooted

\* and whether a call there is judged.
LEMMA InsideKnown ==
    ASSUME NEW c, NEW d, Extends(c, d), NEW area, NEW at, NEW where,
           area.roots # {} /\ at # UnknownDir /\ Placed(at, area) => ~Asks(where, c.created, c.found)
    PROVE  Inside(at, where, area, c) = Inside(at, where, area, d)
BY RootedKnown DEF Inside

\* _view: with nothing left to ask, what a rule sees of a call is settled.
LEMMA ViewKnown ==
    ASSUME NEW facts, NEW area, NEW c, NEW d, Extends(c, d), ViewAsks(facts, area, c) = {}
    PROVE  \A answer : View(facts, area, c, answer) = View(facts, area, d, answer)
<1> SUFFICES ASSUME NEW answer
             PROVE  View(facts, area, c, answer) = View(facts, area, d, answer)
  OBVIOUS
<1>1. CASE IsNowhere(area)
  BY <1>1 DEF View
<1>2. CASE ~IsNowhere(area) /\ facts.commands # {}
  <2>1. ASSUME NEW x \in facts.commands \cup facts.paths
        PROVE  Inside(Here(x, facts), Here(x, facts), area, c)
                 = Inside(Here(x, facts), Here(x, facts), area, d)
    <3>1. ASSUME area.roots # {}, Here(x, facts) # UnknownDir, Placed(Here(x, facts), area)
          PROVE  ~Asks(Here(x, facts), c.created, c.found)
      BY <1>2, <3>1 DEF ViewAsks, Wanted
    <3> QED
      BY <3>1, InsideKnown
  <2>2. Split(facts, area, c, answer) = Split(facts, area, d, answer)
    BY <2>1 DEF Split
  <2> QED
    BY <1>2, <2>2 DEF View
<1>3. CASE ~IsNowhere(area) /\ facts.commands = {}
  <2> DEFINE here == MadeIn(facts)
  <2>1. CASE here = UnknownDir /\ area.under \cup area.notUnder # {}
    BY <1>3, <2>1 DEF View, SplitPaths
  <2>2. CASE here # UnknownDir /\ ~Placed(here, area)
    BY <1>3, <2>2 DEF View, SplitPaths
  <2>3. CASE area.roots = {}
    BY <1>3, <2>3 DEF View, SplitPaths
  <2>4. CASE /\ ~ (here = UnknownDir /\ area.under \cup area.notUnder # {})
             /\ ~ (here # UnknownDir /\ ~Placed(here, area))
             /\ area.roots # {}
    <3>1. /\ facts.paths = {} => ~Asks(here, c.created, c.found)
          /\ facts.paths # {} => \A p \in facts.paths : ~Asks(p.path, c.created, c.found)
      BY <1>3, <2>4 DEF ViewAsks, Wanted
    <3>2. /\ facts.paths = {} => Rooted(here, area, c) = Rooted(here, area, d)
          /\ \A p \in facts.paths : Rooted(p.path, area, c) = Rooted(p.path, area, d)
      BY <3>1, RootedKnown
    <3> HIDE DEF here
    <3>3. RootedParts(facts, area, c, answer) = RootedParts(facts, area, d, answer)
      BY <3>2 DEF RootedParts, here
    <3> QED
      BY <1>3, <2>4, <3>3 DEF View, SplitPaths, here
  <2> QED
    BY <2>1, <2>2, <2>3, <2>4
<1> QED
  BY <1>1, <1>2, <1>3

\* Later there is no more to ask than before.
LEMMA AsksFewer ==
    ASSUME NEW facts, NEW area, NEW c, NEW d, Extends(c, d)
    PROVE  ViewAsks(facts, area, c) = {} => ViewAsks(facts, area, d) = {}
<1>1. \A s : Wanted(s, d) \subseteq Wanted(s, c)
  BY DEF Wanted, Asks, Extends
<1> QED
  BY <1>1 DEF ViewAsks

\* The same of the earlier calls, when they are the same.
LEMMA PastKnown ==
    ASSUME NEW facts, NEW c, NEW d, Extends(c, d), c.past = d.past, PastAsks(c) = {}
    PROVE  PastViews(facts, c) = PastViews(facts, d)
<1>1. ASSUME NEW calls \in c.past, NEW i \in DOMAIN calls
      PROVE  View(calls[i].facts, c.area, c, "yes") = View(calls[i].facts, d.area, d, "yes")
  <2>1. ViewAsks(calls[i].facts, c.area, c) = {}
    BY DEF PastAsks
  <2>2. c.area = d.area
    BY DEF Extends
  <2> QED
    BY <2>1, <2>2, ViewKnown
<1> DEFINE OfCalls(calls, e) ==
               UNION {{[time |-> calls[i].time, at |-> i, facts |-> view] :
                         view \in View(calls[i].facts, e.area, e, "yes")} : i \in DOMAIN calls}
<1>2. \A calls \in c.past : OfCalls(calls, c) = OfCalls(calls, d)
  BY <1>1
<1>3. \A e : PastViews(facts, e) = IF facts.session = "" THEN {}
                                 ELSE UNION {OfCalls(calls, e) : calls \in e.past}
  BY DEF PastViews
<1> HIDE DEF OfCalls
<1>4. {OfCalls(calls, c) : calls \in c.past} = {OfCalls(calls, d) : calls \in d.past}
  BY <1>2
<1>5. PastViews(facts, c) = IF facts.session = "" THEN {}
                            ELSE UNION {OfCalls(calls, c) : calls \in c.past}
  BY <1>3
<1>6. PastViews(facts, d) = IF facts.session = "" THEN {}
                            ELSE UNION {OfCalls(calls, d) : calls \in d.past}
  BY <1>3
<1> HIDE <1>3
<1> QED
  BY <1>4, <1>5, <1>6

-----------------------------------------------------------------------------
\* What a rule does with a call, sees of it or does not, and asks for.
FiresGiven(rule, facts, ctx) ==
    \E view \in View(facts, ctx.area, ctx, "yes") : FiresOn(rule, view, ctx)
MayFireIn(rule, facts, ctx) ==
    \E view \in View(facts, ctx.area, ctx, "unsure") : FiresOn(rule, view, ctx)
Unread(ctx) == [ctx EXCEPT !.past = NotRead]
ConsultsIn(rule, facts, ctx) ==
    \/ \E view \in View(facts, ctx.area, ctx, "yes") : Consults(rule.pred, view, Unread(ctx))
    \/ /\ ~\E view \in View(facts, ctx.area, ctx, "yes") : FiresOn(rule, view, Unread(ctx))
       /\ \E view \in View(facts, ctx.area, ctx, "unsure") :
              Consults(rule.pred, view, Unread(ctx))

\* Everything that it needs is there: where the call is, and the earlier calls.
Settled(rule, facts, ctx) ==
    /\ ViewAsks(facts, ctx.area, ctx) = {}
    /\ ConsultsIn(rule, facts, ctx) => ctx.past # NotRead /\ PastAsks(ctx) = {}

IsContext(ctx) ==
    ctx = [base |-> ctx.base, past |-> ctx.past, now |-> ctx.now, created |-> ctx.created,
           found |-> ctx.found, area |-> ctx.area, possible |-> ctx.possible]

\* A settled judgement stays what it is, whatever else is looked up and read.
LEMMA SettledStays ==
    ASSUME NEW rule, IsTree(rule.pred), NEW facts, NEW c, NEW d, IsContext(c), IsContext(d),
           Alike(c, d), Extends(c, d), c.past # NotRead => d.past = c.past,
           Settled(rule, facts, c)
    PROVE  /\ Settled(rule, facts, d)
           /\ FiresGiven(rule, facts, d) <=> FiresGiven(rule, facts, c)
           /\ ~FiresGiven(rule, facts, c) => (MayFireIn(rule, facts, d) <=> MayFireIn(rule, facts, c))
<1>0. /\ Alike(Unread(c), c) /\ Alike(Unread(c), d) /\ Alike(Unread(c), Unread(d))
      /\ Alike(Unread(c), Unread(c)) /\ Alike(d, c)
  BY DEF Alike, Unread, IsContext
<1>1. \A answer : View(facts, c.area, c, answer) = View(facts, d.area, d, answer)
  <2>1. c.area = d.area /\ ViewAsks(facts, c.area, c) = {}
    BY DEF Extends, Settled
  <2> QED
    BY <2>1, ViewKnown
<1> DEFINE Sure == View(facts, c.area, c, "yes")
           Unsure == View(facts, c.area, c, "unsure")
           U == Unread(c)
           Asked == ConsultsIn(rule, facts, c)
<1>2. /\ Sure = View(facts, d.area, d, "yes") /\ Unsure = View(facts, d.area, d, "unsure")
  BY <1>1
<1>3. \A view : Consults(rule.pred, view, U) <=> Consults(rule.pred, view, Unread(d))
  BY <1>0, ConsultsAlike
<1>4. \A view : ~Consults(rule.pred, view, U) =>
          /\ FiresOn(rule, view, U) <=> FiresOn(rule, view, Unread(d))
          /\ FiresOn(rule, view, U) <=> FiresOn(rule, view, c)
          /\ FiresOn(rule, view, c) <=> FiresOn(rule, view, d)
  <2> SUFFICES ASSUME NEW view, ~Consults(rule.pred, view, U)
               PROVE  /\ Holds(rule.pred, view, U) = Holds(rule.pred, view, Unread(d))
                      /\ Holds(rule.pred, view, U) = Holds(rule.pred, view, c)
                      /\ Holds(rule.pred, view, c) = Holds(rule.pred, view, d)
    BY DEF FiresOn
  <2> HIDE DEF U
  <2>1. Holds(rule.pred, view, U) = Holds(rule.pred, view, Unread(d))
    BY <1>0, HoldsSame DEF U
  <2>2. Holds(rule.pred, view, U) = Holds(rule.pred, view, c)
    BY <1>0, HoldsSame DEF U
  <2>3. Holds(rule.pred, view, c) = Holds(rule.pred, view, d)
    BY <1>0, HoldsSame DEF U
  <2> QED
    BY <2>1, <2>2, <2>3
<1>5. Asked <=> \/ \E view \in Sure : Consults(rule.pred, view, U)
               \/ /\ ~\E view \in Sure : FiresOn(rule, view, U)
                  /\ \E view \in Unsure : Consults(rule.pred, view, U)
  BY DEF ConsultsIn
<1>6. Asked <=> ConsultsIn(rule, facts, d)
  <2>1. ConsultsIn(rule, facts, d) <=>
            \/ \E view \in Sure : Consults(rule.pred, view, U)
            \/ /\ ~\E view \in Sure : FiresOn(rule, view, Unread(d))
               /\ \E view \in Unsure : Consults(rule.pred, view, U)
    <3> HIDE DEF Sure, Unsure, U
    <3> QED
      BY <1>2, <1>3 DEF ConsultsIn
  <2> HIDE DEF Sure, Unsure, U, Asked
  <2> QED
    BY <1>4, <1>5, <2>1
<1>7. Settled(rule, facts, d)
  <2>1. c.area = d.area /\ c.created = d.created
    BY DEF Extends
  <2>2. ViewAsks(facts, d.area, d) = {}
    BY <2>1, AsksFewer DEF Settled
  <2>3. ConsultsIn(rule, facts, d) => d.past # NotRead /\ PastAsks(d) = {}
    <3>1. Asked => c.past # NotRead /\ d.past = c.past /\ PastAsks(c) = {}
      BY DEF Settled
    <3>2. c.past = d.past /\ PastAsks(c) = {} => PastAsks(d) = {}
      BY <2>1, AsksFewer DEF PastAsks
    <3> QED
      BY <1>6, <3>1, <3>2
  <2> QED
    BY <2>2, <2>3 DEF Settled
<1>8. Asked => \A view : FiresOn(rule, view, c) <=> FiresOn(rule, view, d)
  <2> SUFFICES ASSUME Asked, NEW view
               PROVE  Holds(rule.pred, view, c) = Holds(rule.pred, view, d)
    BY DEF FiresOn
  <2>1. PastViews(view, c) = PastViews(view, d)
    BY PastKnown DEF Settled
  <2> QED
    BY <1>0, <2>1, HoldsSame
<1>9. /\ FiresGiven(rule, facts, c) <=> \E view \in Sure : FiresOn(rule, view, c)
      /\ FiresGiven(rule, facts, d) <=> \E view \in Sure : FiresOn(rule, view, d)
      /\ MayFireIn(rule, facts, c) <=> \E view \in Unsure : FiresOn(rule, view, c)
      /\ MayFireIn(rule, facts, d) <=> \E view \in Unsure : FiresOn(rule, view, d)
  BY <1>2 DEF FiresGiven, MayFireIn
<1> HIDE DEF Sure, Unsure, U, Asked
<1> QED
  BY <1>4, <1>5, <1>7, <1>8, <1>9

-----------------------------------------------------------------------------
\* judge: the directories come first, then the log, then the exceptions.
LEMMA NextAsksIs ==
    ASSUME NEW rule, NEW facts, NEW ctx, IsContext(ctx)
    PROVE  /\ ~ForTool(rule.tools, facts) => NextAsks(rule, facts, ctx) = {}
           /\ ForTool(rule.tools, facts) /\ ViewAsks(facts, ctx.area, ctx) # {} =>
                  NextAsks(rule, facts, ctx) = RootsOf(ViewAsks(facts, ctx.area, ctx))
           /\ ForTool(rule.tools, facts) /\ ViewAsks(facts, ctx.area, ctx) = {} =>
                  NextAsks(rule, facts, ctx)
                    = AsksOfRule(Judgement(rule, facts, ctx), ConsultsIn(rule, facts, ctx))
<1> DEFINE j == Judgement(rule, facts, ctx)
           k == [j EXCEPT !.ctx.past = NotRead]
           places == ViewAsks(facts, ctx.area, ctx)
<1>1. NextAsks(rule, facts, ctx) =
          IF ForTool(rule.tools, facts) /\ places # {} THEN RootsOf(places)
          ELSE IF ~ForTool(rule.tools, facts) THEN {}
          ELSE AsksOfRule(j, RuleConsults(k))
  BY DEF NextAsks
<1>2. /\ k.rule = rule /\ k.ctx = Unread(ctx)
      /\ k.sure = View(facts, ctx.area, ctx, "yes") /\ k.unsure = View(facts, ctx.area, ctx, "unsure")
  BY DEF Judgement, Unread, IsContext
<1>3. RuleConsults(k) = ConsultsIn(rule, facts, ctx)
  <2> HIDE DEF k
  <2> QED
    BY <1>2 DEF RuleConsults, Fires, ConsultsIn
<1> HIDE DEF j, k, places
<1> QED
  BY <1>1, <1>3 DEF places, j

\* A rule that asks for nothing more is settled.
LEMMA NoAsksSettled ==
    ASSUME NEW rule, NEW facts, NEW ctx, IsContext(ctx), NextAsks(rule, facts, ctx) = {},
           ForTool(rule.tools, facts)
    PROVE  Settled(rule, facts, ctx)
<1> DEFINE j == Judgement(rule, facts, ctx)
<1>0. j.ctx = ctx
  BY DEF Judgement
<1>1. ViewAsks(facts, ctx.area, ctx) = {}
  BY NextAsksIs DEF RootsOf
<1>2. AsksOfRule(j, ConsultsIn(rule, facts, ctx)) = {}
  BY <1>1, NextAsksIs
<1>3. ConsultsIn(rule, facts, ctx) => ctx.past # NotRead /\ PastAsks(ctx) = {}
  <2> HIDE DEF j
  <2> QED
    BY <1>0, <1>2 DEF AsksOfRule, CallsFor, RootsOf
<1> QED
  BY <1>1, <1>3 DEF Settled

\* A directory is asked about once.
Unfound(directories, ctx) == \A d \in directories : d \notin DOMAIN ctx.found

\* A directory is asked about once.
LEMMA AsksUnfound ==
    ASSUME NEW ctx
    PROVE  /\ \A facts, area : Unfound(ViewAsks(facts, area, ctx), ctx)
           /\ Unfound(PastAsks(ctx), ctx)
           /\ \A zones, deed : Unfound(CoveringAsks(zones, deed, ctx), ctx)
           /\ \A fact, there, zone : Unfound(StaysAsks(fact, there, zone, ctx), ctx)
<1>1. \A s : Unfound(Wanted(s, ctx), ctx)
  BY DEF Wanted, Asks, Unfound
<1>2. \A facts, area : Unfound(ViewAsks(facts, area, ctx), ctx)
  <2> SUFFICES ASSUME NEW facts, NEW area
               PROVE  Unfound(ViewAsks(facts, area, ctx), ctx)
    OBVIOUS
  <2>1. \/ ViewAsks(facts, area, ctx) = {}
        \/ \E s : ViewAsks(facts, area, ctx) = Wanted(s, ctx)
    BY DEF ViewAsks
  <2> QED
    BY <1>1, <2>1 DEF Unfound
<1>3. Unfound(PastAsks(ctx), ctx)
  BY <1>2 DEF PastAsks, Unfound
<1>4. \A zones, deed : Unfound(CoveringAsks(zones, deed, ctx), ctx)
  BY <1>1 DEF CoveringAsks, Unfound
<1>5. \A fact, there, zone : Unfound(StaysAsks(fact, there, zone, ctx), ctx)
  <2> SUFFICES ASSUME NEW fact, NEW there, NEW zone
               PROVE  Unfound(StaysAsks(fact, there, zone, ctx), ctx)
    OBVIOUS
  <2>1. \/ StaysAsks(fact, there, zone, ctx) = {}
        \/ StaysAsks(fact, there, zone, ctx) = {there} /\ Wanted({there}, ctx) # {}
        \/ StaysAsks(fact, there, zone, ctx) = Wanted({fact.path}, ctx)
    BY DEF StaysAsks
  <2>2. Wanted({there}, ctx) # {} => there \notin DOMAIN ctx.found
    BY DEF Wanted, Asks
  <2> QED
    BY <1>1, <2>1, <2>2 DEF Unfound
<1> QED
  BY <1>2, <1>3, <1>4, <1>5

\* Every question is for something that is not known yet: a directory that
\* was not looked up, or the log when it was not read, and the log is read
\* for an exception only when the rule fires.
LEMMA AsksAre ==
    ASSUME NEW rule, NEW facts, NEW ctx, IsContext(ctx), NEW a \in NextAsks(rule, facts, ctx)
    PROVE  /\ a.of \in {"root", "rule", "exception"}
           /\ ForTool(rule.tools, facts)
           /\ a.of = "root" => a.at \notin DOMAIN ctx.found
           /\ a.of \in {"rule", "exception"} =>
                  ctx.past = NotRead /\ ViewAsks(facts, ctx.area, ctx) = {}
           /\ a.of = "rule" => ConsultsIn(rule, facts, ctx)
           /\ a.of = "exception" => FiresGiven(rule, facts, ctx)
<1> DEFINE j == Judgement(rule, facts, ctx)
<1>0. j.ctx = ctx /\ j.rule = rule /\ j.sure = View(facts, ctx.area, ctx, "yes")
  BY DEF Judgement
<1>1. ForTool(rule.tools, facts)
  BY NextAsksIs
<1>2. ASSUME NEW s, Unfound(s, ctx), a \in RootsOf(s)
      PROVE  a.of = "root" /\ a.at \notin DOMAIN ctx.found
  BY <1>2 DEF RootsOf, Unfound
<1>3. CASE ViewAsks(facts, ctx.area, ctx) # {}
  <2>1. a \in RootsOf(ViewAsks(facts, ctx.area, ctx))
    BY <1>1, <1>3, NextAsksIs
  <2> QED
    BY <1>1, <1>2, <2>1, AsksUnfound
<1>4. CASE ViewAsks(facts, ctx.area, ctx) = {}
  <2>1. a \in AsksOfRule(j, ConsultsIn(rule, facts, ctx))
    BY <1>1, <1>4, NextAsksIs
  <2> HIDE DEF j
  <2>2. CASE a \in CallsFor("rule") /\ ConsultsIn(rule, facts, ctx) /\ ctx.past = NotRead
    BY <1>1, <1>4, <2>2 DEF CallsFor
  <2>3. CASE a \in RootsOf(PastAsks(ctx))
    BY <1>1, <1>2, <2>3, AsksUnfound
  <2>4. CASE \E view \in j.sure : FiresOn(rule, view, ctx)
                 /\ a \in AsksOfExceptions(j, view, Deeds(j.facts, view))
    <3>1. PICK view \in j.sure : FiresOn(rule, view, ctx)
                 /\ a \in AsksOfExceptions(j, view, Deeds(j.facts, view))
      BY <2>4
    <3>2. FiresGiven(rule, facts, ctx)
      BY <1>0, <3>1 DEF FiresGiven
    <3> DEFINE deeds == Deeds(j.facts, view)
               places == UNION {CoveringAsks(j.zones, d, ctx) : d \in deeds}
               paths == PathAsks(j, view, deeds)
    <3>3. Unfound(places, ctx)
      BY AsksUnfound DEF Unfound
    <3>4. Unfound(paths, ctx)
      BY <1>0, AsksUnfound DEF Unfound, PathAsks
    <3>5. \/ a \in RootsOf(places)
          \/ a \in CallsFor("exception") /\ ctx.past = NotRead
          \/ a \in RootsOf(paths)
          \/ a \in RootsOf(PastAsks(ctx))
      <4>1. a \in AsksOfExceptions(j, view, deeds)
        BY <3>1
      <4> HIDE DEF deeds
      <4> QED
        BY <1>0, <4>1 DEF AsksOfExceptions, LastAsks
    <3> HIDE DEF places, paths
    <3> QED
      BY <1>1, <1>2, <1>4, <3>2, <3>3, <3>4, <3>5, AsksUnfound DEF CallsFor
  <2> QED
    BY <1>0, <2>1, <2>2, <2>3, <2>4 DEF AsksOfRule
<1> QED
  BY <1>3, <1>4

-----------------------------------------------------------------------------
\* The state: the rule in a place, what it is judged on and with.
RuleAt(i) == scenario.rules[i]
FactsAt(i) == Judged(RuleAt(i))
ContextAt(i) == Context(RuleAt(i), found, past)
IdAt(i) == RuleAt(i).id
Places == DOMAIN scenario.rules

\* The rules, and the order in which they are judged.
Scene == scenario \in Scenarios /\ todo \subseteq Places

\* The rules have trees and different names.
LEMMA RulesAre ==
    ASSUME Scene
    PROVE  /\ Places = 1..Len(scenario.rules) /\ Len(scenario.rules) \in Nat
           /\ \A i \in Places : IsTree(RuleAt(i).pred)
           /\ \A i, j \in Places : IdAt(i) = IdAt(j) => i = j
BY EngineAssumption DEF Scene, Places, RuleAt, IdAt

\* evaluate: the next rule is one that is to do, a deferred one only when
\* all the others are done.
LEMMA TurnIs ==
    ASSUME Scene, todo # {}
    PROVE  /\ Turn \in todo /\ Turn \in Places
           /\ Deferred(RuleAt(Turn)) => \A k \in todo : Deferred(RuleAt(k))
<1> DEFINE first(i) == \A j \in todo \ {i} : Before(i, j)
           early == {i \in todo : ~Deferred(RuleAt(i))}
<1>0. todo \subseteq Nat /\ early \subseteq Nat /\ early \subseteq todo
  BY RulesAre DEF Scene
<1>1. \E i \in todo : first(i)
  <2>1. CASE early # {}
    <3>1. PICK i \in early : \A k \in early : i <= k
      BY <1>0, <2>1, LeastNumber
    <3>2. ASSUME NEW j \in todo \ {i}
          PROVE  Before(i, j)
      <4>1. i \in Nat /\ j \in Nat /\ i # j /\ ~Deferred(RuleAt(i))
        BY <1>0, <3>1
      <4>2. j \in early => i < j
        BY <3>1, <4>1
      <4>3. Deferred(RuleAt(j)) \/ (~Deferred(RuleAt(j)) /\ i < j)
        BY <4>2
      <4> QED
        BY <4>1, <4>3 DEF Before, RuleAt, Deferred
    <3> QED
      BY <1>0, <3>1, <3>2
  <2>2. CASE early = {}
    <3>1. PICK i \in todo : \A k \in todo : i <= k
      BY <1>0, LeastNumber
    <3>2. ASSUME NEW j \in todo \ {i}
          PROVE  Before(i, j)
      <4>1. i \in Nat /\ j \in Nat /\ i < j
        BY <1>0, <3>1
      <4>2. Deferred(RuleAt(i)) /\ Deferred(RuleAt(j))
        BY <2>2
      <4> QED
        BY <4>1, <4>2 DEF Before, RuleAt, Deferred
    <3> QED
      BY <3>1, <3>2
  <2> QED
    BY <2>1, <2>2
<1>2. Turn \in todo /\ first(Turn)
  <2>1. Turn = CHOOSE i \in todo : first(i)
    BY DEF Turn
  <2> HIDE DEF first
  <2> QED
    BY <1>1, <2>1
<1>3. Deferred(RuleAt(Turn)) => \A k \in todo : Deferred(RuleAt(k))
  <2> SUFFICES ASSUME Deferred(RuleAt(Turn)), NEW k \in todo, k # Turn
               PROVE  Deferred(RuleAt(k))
    OBVIOUS
  <2>1. Before(Turn, k)
    BY <1>2
  <2>2. IF Deferred(RuleAt(Turn)) <=> Deferred(RuleAt(k)) THEN Turn < k ELSE Deferred(RuleAt(k))
    BY <2>1 DEF Before, RuleAt, Deferred
  <2> QED
    BY <2>2
<1> QED
  BY <1>2, <1>3 DEF Scene

\* The parts of a context.
LEMMA ContextIs ==
    ASSUME NEW rule, NEW answers, NEW calls
    PROVE  /\ IsContext(Context(rule, answers, calls))
           /\ Context(rule, answers, calls).base = rule.base
           /\ Context(rule, answers, calls).past = calls
           /\ Context(rule, answers, calls).found = answers
           /\ Context(rule, answers, calls).area = AreaOf(rule, Judged(rule))
           /\ Context(rule, answers, calls).created = CreatedRepositories(proposed)
           /\ Context(rule, answers, calls).now = Now
           /\ Context(rule, answers, calls).possible = IF Deferred(rule) THEN possible ELSE {}
BY DEF Context, IsContext

\* What the verdict says of a rule, apart from the exceptions.
LEMMA VerdictIs ==
    ASSUME NEW rule, NEW facts, NEW ctx
    PROVE  LET verdict == Verdict(Judgement(rule, facts, ctx))
           IN  /\ verdict \in {"fired", "excepted", "possible", "quiet"}
               /\ verdict \in {"fired", "excepted"}
                     <=> ForTool(rule.tools, facts) /\ FiresGiven(rule, facts, ctx)
               /\ verdict = "possible"
                     <=> /\ ForTool(rule.tools, facts) /\ ~FiresGiven(rule, facts, ctx)
                         /\ MayFireIn(rule, facts, ctx)
<1> DEFINE j == Judgement(rule, facts, ctx)
<1>1. /\ j.rule = rule /\ j.facts = facts /\ j.ctx = ctx
      /\ j.sure = View(facts, ctx.area, ctx, "yes") /\ j.unsure = View(facts, ctx.area, ctx, "unsure")
  BY DEF Judgement
<1>2. /\ Fires(j) <=> FiresGiven(rule, facts, ctx)
      /\ (\E view \in j.unsure : FiresOn(rule, view, ctx)) <=> MayFireIn(rule, facts, ctx)
  <2> HIDE DEF j
  <2> QED
    BY <1>1 DEF Fires, FiresGiven, MayFireIn
<1> HIDE DEF j
<1>3. Verdict(j) = IF ~ForTool(rule.tools, facts) THEN "quiet"
                   ELSE IF FiresGiven(rule, facts, ctx)
                   THEN IF j.zones # <<>> /\ \E view \in j.sure : IsExcepted(j, view)
                        THEN "excepted" ELSE "fired"
                   ELSE IF MayFireIn(rule, facts, ctx) THEN "possible" ELSE "quiet"
  BY <1>1, <1>2 DEF Verdict
<1> QED
  BY <1>3 DEF j

-----------------------------------------------------------------------------
\* What a rule waits for is what its judgement asks next, and nothing is said
\* of a rule before it is judged.
AsksNow == NextAsks(RuleAt(Turn), FactsAt(Turn), ContextAt(Turn))

Waiting ==
    asking # Idle =>
        todo # {} /\ (asking \in AsksNow \/ (asking = Ready /\ AsksNow = {}))

Unspoken == \A i \in todo : IdAt(i) \notin fired \cup excepted \cup possible \cup failures

LastLast ==
    \A i \in Places \ todo : Deferred(RuleAt(i)) => \A k \in todo : Deferred(RuleAt(k))

DecidedLast == Decided => todo = {}

\* A rule that needs neither the disk nor the log, and whether it fires.
NeedsNothing(rule) == rule.roots = {} /\ ~Deferred(rule) /\ ~Mentions(rule.pred, History)[1]
FiresAlone(rule) ==
    ForTool(rule.tools, proposed) /\ FiresGiven(rule, proposed, Context(rule, <<>>, NotRead))

LocalRight ==
    \A i \in Places \ todo : NeedsNothing(RuleAt(i)) =>
        (IdAt(i) \in fired \cup excepted <=> FiresAlone(RuleAt(i)))

JudgeInv == Scene /\ Waiting /\ Unspoken /\ LastLast /\ DecidedLast /\ LocalRight

\* Such a rule asks for nothing, and does what it does alone.
LEMMA AloneIsSettled ==
    ASSUME NEW rule, IsTree(rule.pred), NeedsNothing(rule), NEW answers, NEW calls
    PROVE  /\ Judged(rule) = proposed
           /\ ~ConsultsIn(rule, proposed, Context(rule, answers, calls))
           /\ FiresGiven(rule, proposed, Context(rule, answers, calls))
                 <=> FiresGiven(rule, proposed, Context(rule, <<>>, NotRead))
<1> DEFINE c == Context(rule, <<>>, NotRead)
           d == Context(rule, answers, calls)
<1>1. Judged(rule) = proposed /\ ~Deferred(rule)
  BY DEF Judged, NeedsNothing
<1>2. \A view, ctx : ~Consults(rule.pred, view, ctx)
  <2>1. 1 \in DOMAIN rule.pred
    BY DEF IsTree
  <2> SUFFICES ASSUME NEW view, NEW ctx PROVE ~Consults(rule.pred, view, ctx)
    OBVIOUS
  <2>2. ~ConsultsAt(rule.pred, view, ctx)[1]
    BY <2>1, UnmentionedNotConsulted DEF NeedsNothing
  <2> QED
    BY <2>2, ConsultsIs
<1>3. ~ConsultsIn(rule, proposed, c) /\ ~ConsultsIn(rule, proposed, d)
  BY <1>2 DEF ConsultsIn
<1>4. AreaOf(rule, Judged(rule)).roots = {}
  BY DEF AreaOf, Area, NeedsNothing
<1>5. Settled(rule, proposed, c)
  <2>1. c.area.roots = {}
    BY <1>4, ContextIs
  <2> HIDE DEF c
  <2> QED
    BY <1>3, <2>1 DEF Settled, ViewAsks
<1>6. Alike(c, d)
  BY <1>1, ContextIs DEF Alike
<1>7. Extends(c, d)
  <2>1. DOMAIN c.found = {}
    BY ContextIs
  <2>2. c.area = d.area /\ c.created = d.created
    BY ContextIs
  <2> HIDE DEF c, d
  <2> QED
    BY <2>1, <2>2 DEF Extends
<1>8. IsContext(c) /\ IsContext(d) /\ c.past = NotRead
  BY ContextIs
<1>9. FiresGiven(rule, proposed, d) <=> FiresGiven(rule, proposed, c)
  <2> HIDE DEF c, d
  <2> QED
    BY <1>5, <1>6, <1>7, <1>8, SettledStays
<1> QED
  BY <1>1, <1>3, <1>9

-----------------------------------------------------------------------------
\* The steps, by what they do to the judgement: they leave it alone, ask,
\* answer, finish a rule or decide.
SameRules == UNCHANGED <<scenario, proposed>>
LeavesAlone ==
    UNCHANGED <<scenario, proposed, todo, asking, found, past, outcome, decision>>
AsksNext ==
    /\ todo # {} /\ asking = Idle
    /\ asking' \in AsksNow \/ (asking' = Ready /\ AsksNow = {})
    /\ UNCHANGED <<scenario, proposed, todo, found, past, outcome, decision>>
Answers ==
    /\ asking # Idle /\ asking' = Idle
    /\ \/ /\ asking.of = "root" /\ past' = past
          /\ \E root : found' = Learnt(found, {asking.at}, root)
       \/ asking.of \in {"rule", "exception"} /\ found' = found /\ past' = {logged}
    /\ UNCHANGED <<scenario, proposed, todo, outcome, decision>>
Adds(before, after, id, new) == after = IF new THEN before \cup {id} ELSE before
Finishes ==
    LET id == IdAt(Turn)
        verdict == Verdict(Judgement(RuleAt(Turn), FactsAt(Turn), ContextAt(Turn)))
    IN  /\ asking # Idle /\ asking' = Idle /\ todo' = todo \ {Turn}
        /\ \/ /\ asking.of = "rule" /\ failures' = failures \cup {id}
              /\ fired' = fired /\ excepted' = excepted /\ possible' = possible
           \/ /\ asking.of = "exception" /\ failures' = failures \cup {id}
              /\ fired' = fired \cup {id} /\ excepted' = excepted /\ possible' = possible
           \/ /\ asking = Ready /\ failures' = failures
              /\ Adds(fired, fired', id, verdict = "fired")
              /\ Adds(excepted, excepted', id, verdict = "excepted")
              /\ Adds(possible, possible', id, verdict = "possible")
        /\ UNCHANGED <<scenario, proposed, found, past, decision>>
Decides == todo = {} /\ UNCHANGED <<scenario, proposed, todo, asking, found, past, outcome>>

\* Every step of the specification is one of these.
LEMMA StepKinds ==
    ASSUME [Next]_vars
    PROVE  LeavesAlone \/ AsksNext \/ Answers \/ Finishes \/ Decides
<1>0. Idle.of = "idle" /\ Ready.of = "nothing"
  BY DEF Idle, Ready
<1>1. CASE Proceed
  BY <1>1 DEF Proceed, AsksNext, AsksNow, RuleAtTurn, RuleAt, FactsAt, ContextAt, environment,
             outcome
<1>2. CASE LookUp
  BY <1>0, <1>2 DEF LookUp, Answers, environment, outcome
<1>3. CASE LookUpFails
  BY <1>0, <1>3 DEF LookUpFails, Answers, outcome
<1>4. CASE ReadHistory
  BY <1>0, <1>4 DEF ReadHistory, Answers, environment, outcome
<1>5. CASE RuleFails
  BY <1>0, <1>5 DEF RuleFails, Finishes, IdAt, RuleAt, RuleAtTurn
<1>6. CASE ExceptionFails
  BY <1>0, <1>6 DEF ExceptionFails, Finishes, IdAt, RuleAt, RuleAtTurn
<1>7. CASE Judge
  <2> DEFINE verdict == Verdict(Judgement(RuleAt(Turn), FactsAt(Turn), ContextAt(Turn)))
  <2>1. /\ Adds(fired, fired', IdAt(Turn), verdict = "fired")
        /\ Adds(excepted, excepted', IdAt(Turn), verdict = "excepted")
        /\ Adds(possible, possible', IdAt(Turn), verdict = "possible")
    BY <1>7 DEF Judge, Concludes, Adds, IdAt, RuleAt, FactsAt, ContextAt, RuleAtTurn
  <2>2. asking = Ready /\ asking # Idle
    BY <1>0, <1>7 DEF Judge
  <2> QED
    BY <1>7, <2>1, <2>2 DEF Judge, Finishes, environment
<1>8. CASE Decide
  BY <1>8 DEF Decide, Decides, environment, outcome
<1>9. CASE DiskChanges \/ CallIsLogged
  BY <1>9 DEF DiskChanges, CallIsLogged, LeavesAlone, outcome
<1>10. CASE UNCHANGED vars
  BY <1>10 DEF vars, environment, outcome, LeavesAlone
<1> QED
  BY <1>1, <1>2, <1>3, <1>4, <1>5, <1>6, <1>7, <1>8, <1>9, <1>10 DEF Next, Done

\* The invariant holds at first,
LEMMA JudgeInvInit == Init => JudgeInv
<1> SUFFICES ASSUME Init PROVE JudgeInv
  OBVIOUS
<1>1. scenario \in Scenarios /\ todo = Places /\ asking = Idle
  BY DEF Init, Places
<1>2. fired = {} /\ excepted = {} /\ failures = {} /\ possible = {} /\ decision = Undecided
  BY DEF Init
<1> QED
  BY <1>1, <1>2 DEF JudgeInv, Scene, Waiting, Unspoken, LastLast, DecidedLast, Decided, LocalRight

\* What a judgement that is under way waits for.
LEMMA AsksNowAre ==
    ASSUME JudgeInv, asking # Idle
    PROVE  /\ todo # {} /\ Turn \in todo /\ Turn \in Places
           /\ IsContext(ContextAt(Turn))
           /\ asking.of \in {"root", "rule", "exception"} => asking \in AsksNow
           /\ asking = Ready => AsksNow = {}
<1>1. todo # {} /\ Turn \in todo /\ Turn \in Places
  BY TurnIs DEF JudgeInv, Waiting
<1>2. IsContext(ContextAt(Turn))
  BY ContextIs DEF ContextAt
<1>3. asking.of \in {"root", "rule", "exception"} => asking \in AsksNow
  BY DEF JudgeInv, Waiting, Ready
<1>4. asking = Ready => AsksNow = {}
  <2> SUFFICES ASSUME asking = Ready, asking \in AsksNow PROVE FALSE
    BY DEF JudgeInv, Waiting
  <2>1. asking.of \in {"root", "rule", "exception"}
    BY <1>2, AsksAre DEF AsksNow
  <2> QED
    BY <2>1 DEF Ready
<1> QED
  BY <1>1, <1>2, <1>3, <1>4

\* What a step leaves alone stays what it was.
LEMMA SceneStays ==
    ASSUME SameRules
    PROVE  /\ Places' = Places
           /\ \A i : RuleAt(i)' = RuleAt(i) /\ IdAt(i)' = IdAt(i) /\ FactsAt(i)' = FactsAt(i)
           /\ \A rule : NeedsNothing(rule) => (FiresAlone(rule)' <=> FiresAlone(rule))
<1>1. scenario' = scenario /\ proposed' = proposed
  BY DEF SameRules
<1>2. Places' = Places /\ \A i : RuleAt(i)' = RuleAt(i)
  BY <1>1 DEF Places, RuleAt
<1>3. \A i : IdAt(i)' = IdAt(i) /\ FactsAt(i)' = FactsAt(i)
  BY <1>1 DEF IdAt, FactsAt, RuleAt, Judged
<1>4. ASSUME NEW rule, NeedsNothing(rule)
      PROVE  FiresAlone(rule)' <=> FiresAlone(rule)
  <2>1. Context(rule, <<>>, NotRead)' = Context(rule, <<>>, NotRead)
    BY <1>1, <1>4 DEF Context, NeedsNothing, Judged
  <2> QED
    BY <1>1, <2>1 DEF FiresAlone
<1> QED
  BY <1>2, <1>3, <1>4

\* The next question depends on what is judged and known only.
LEMMA AsksStay ==
    ASSUME SameRules, UNCHANGED <<todo, found, past, possible>>
    PROVE  AsksNow' = AsksNow
<1>1. /\ scenario' = scenario /\ proposed' = proposed /\ todo' = todo /\ found' = found
      /\ past' = past /\ possible' = possible
  BY DEF SameRules
<1>2. Turn' = Turn
  BY <1>1 DEF Turn, Before
<1>3. ASSUME NEW i, NEW rule, NEW facts, NEW ctx
      PROVE  /\ RuleAt(i)' = RuleAt(i) /\ FactsAt(i)' = FactsAt(i)
             /\ ContextAt(i)' = ContextAt(i)
             /\ NextAsks(rule, facts, ctx)' = NextAsks(rule, facts, ctx)
  <2>1. RuleAt(i)' = RuleAt(i) /\ FactsAt(i)' = FactsAt(i)
    BY <1>1 DEF RuleAt, FactsAt, Judged
  <2>2. ContextAt(i)' = ContextAt(i)
    BY <1>1, <2>1 DEF ContextAt, Context, Judged
  <2>4. Judgement(rule, facts, ctx)' = Judgement(rule, facts, ctx)
    BY <1>1 DEF Judgement
  <2>5. NextAsks(rule, facts, ctx)' = NextAsks(rule, facts, ctx)
    BY <2>4 DEF NextAsks
  <2> QED
    BY <2>1, <2>2, <2>5
<1> QED
  BY <1>2, <1>3 DEF AsksNow

\* and every step keeps it.
LEMMA JudgeInvNext == JudgeInv /\ [Next]_vars => JudgeInv'
<1> SUFFICES ASSUME JudgeInv, [Next]_vars PROVE JudgeInv'
  OBVIOUS
<1>0. LeavesAlone \/ AsksNext \/ Answers \/ Finishes \/ Decides
  BY StepKinds
<1>1. SameRules
  BY <1>0 DEF LeavesAlone, AsksNext, Answers, Finishes, Decides, SameRules
<1>2. /\ scenario' = scenario /\ Places' = Places
      /\ \A i : RuleAt(i)' = RuleAt(i) /\ IdAt(i)' = IdAt(i)
      /\ \A rule : NeedsNothing(rule) => (FiresAlone(rule)' <=> FiresAlone(rule))
  BY <1>1, SceneStays DEF SameRules
<1>3. CASE UNCHANGED <<todo, outcome>>
  <2>1. Scene' /\ Unspoken' /\ LastLast' /\ LocalRight'
    BY <1>2, <1>3 DEF JudgeInv, Scene, Unspoken, LastLast, LocalRight, outcome
  <2>2. DecidedLast'
    BY <1>0, <1>3 DEF JudgeInv, DecidedLast, Decided, LeavesAlone, AsksNext, Answers, Finishes,
                      Decides
  <2>3. Waiting'
    <3>1. CASE LeavesAlone \/ AsksNext \/ Decides
      <4>1. AsksNow' = AsksNow
        BY <1>1, <3>1, AsksStay DEF LeavesAlone, AsksNext, Decides, outcome
      <4> QED
        BY <3>1, <4>1 DEF JudgeInv, Waiting, LeavesAlone, AsksNext, Decides
    <3>2. CASE Answers \/ Finishes
      BY <3>2 DEF Waiting, Answers, Finishes
    <3> QED
      BY <1>0, <3>1, <3>2
  <2> QED
    BY <2>1, <2>2, <2>3 DEF JudgeInv
<1>4. CASE Finishes
  <2> DEFINE id == IdAt(Turn)
             rule == RuleAt(Turn)
             verdict == Verdict(Judgement(rule, FactsAt(Turn), ContextAt(Turn)))
  <2>1. /\ todo' = todo \ {Turn} /\ asking # Idle /\ asking' = Idle /\ decision' = decision
        /\ Turn \in todo /\ Turn \in Places /\ IsTree(rule.pred)
    BY <1>4, AsksNowAre, RulesAre DEF Finishes, JudgeInv
  <2>2. ASSUME NEW i \in Places, i # Turn
        PROVE  IdAt(i) # id
    BY <2>1, <2>2, RulesAre DEF JudgeInv
  <2>3. \A x : x # id =>
            /\ x \in fired' <=> x \in fired
            /\ x \in excepted' <=> x \in excepted
            /\ x \in possible' <=> x \in possible
            /\ x \in failures' <=> x \in failures
    BY <1>4 DEF Finishes, Adds
  <2>4. Scene' /\ Waiting' /\ DecidedLast'
    BY <1>2, <2>1 DEF JudgeInv, Scene, Waiting, DecidedLast, Decided
  <2>5. Unspoken'
    BY <1>2, <2>1, <2>2, <2>3 DEF JudgeInv, Scene, Unspoken
  <2>6. LastLast'
    <3>1. Deferred(RuleAt(Turn)) => \A k \in todo : Deferred(RuleAt(k))
      BY <2>1, TurnIs DEF JudgeInv
    <3> QED
      BY <1>2, <2>1, <3>1 DEF JudgeInv, LastLast
  <2>7. ASSUME NeedsNothing(rule)
        PROVE  id \in fired' \cup excepted' <=> FiresAlone(rule)
    <3>1. /\ FactsAt(Turn) = proposed /\ ~ConsultsIn(rule, proposed, ContextAt(Turn))
          /\ ForTool(rule.tools, proposed) /\ FiresGiven(rule, proposed, ContextAt(Turn))
               <=> FiresAlone(rule)
      BY <2>1, <2>7, AloneIsSettled DEF FactsAt, ContextAt, FiresAlone
    <3>2. asking.of # "rule"
      BY <2>1, <3>1, AsksNowAre, AsksAre DEF AsksNow
    <3>3. CASE asking.of = "exception"
      <4>1. asking \in AsksNow /\ IsContext(ContextAt(Turn))
        BY <2>1, <3>3, AsksNowAre
      <4>2. FiresAlone(rule)
        BY <3>1, <3>3, <4>1, AsksAre DEF AsksNow
      <4> QED
        BY <1>4, <3>3, <4>2 DEF Finishes, Ready
    <3>4. CASE asking = Ready
      <4>1. id \notin fired \cup excepted
        BY <2>1 DEF JudgeInv, Unspoken
      <4>2. verdict \in {"fired", "excepted"} <=> FiresAlone(rule)
        BY <3>1, VerdictIs
      <4>3. Adds(fired, fired', id, verdict = "fired")
            /\ Adds(excepted, excepted', id, verdict = "excepted")
        BY <1>4, <3>4 DEF Finishes, Ready
      <4> QED
        BY <4>1, <4>2, <4>3 DEF Adds
    <3> QED
      BY <1>4, <3>2, <3>3, <3>4 DEF Finishes
  <2>8. LocalRight'
    <3> SUFFICES ASSUME NEW i \in Places, i \notin todo', NeedsNothing(RuleAt(i))
                 PROVE  IdAt(i) \in fired' \cup excepted' <=> FiresAlone(RuleAt(i))
      BY <1>2 DEF LocalRight
    <3>1. CASE i = Turn
      BY <2>7, <3>1
    <3>2. CASE i # Turn
      BY <2>1, <2>2, <2>3, <3>2 DEF JudgeInv, LocalRight
    <3> QED
      BY <3>1, <3>2
  <2> QED
    BY <2>4, <2>5, <2>6, <2>8 DEF JudgeInv
<1> QED
  BY <1>0, <1>3, <1>4 DEF LeavesAlone, AsksNext, Answers, Decides, outcome

\* evaluate is in one of these states all the time.
THEOREM JudgesInTurn == Spec => []JudgeInv
BY JudgeInvInit, JudgeInvNext, PTL DEF Spec

\* judge: a rule that needs neither the disk nor the log fires exactly when
\* it holds for the call, whatever failed before it.
THEOREM FailureIsLocal == Spec => []FailuresStayLocal
<1>1. JudgeInv => FailuresStayLocal
  <2> SUFFICES ASSUME JudgeInv, Decided, NEW r \in Rules, r.roots = {}, ~Deferred(r),
                      ~Mentions(r.pred, History)[1]
               PROVE  r.id \in fired \cup excepted
                        <=> /\ ForTool(r.tools, proposed)
                            /\ Fires(Judgement(r, proposed, Context(r, <<>>, NotRead)))
    BY DEF FailuresStayLocal
  <2>1. PICK i \in Places : r = RuleAt(i)
    BY RulesAre DEF Rules, RuleAt, Places, ToSet, JudgeInv
  <2>2. IdAt(i) \in fired \cup excepted <=> FiresAlone(r)
    BY <2>1 DEF JudgeInv, LocalRight, DecidedLast, NeedsNothing
  <2>3. Fires(Judgement(r, proposed, Context(r, <<>>, NotRead)))
          <=> FiresGiven(r, proposed, Context(r, <<>>, NotRead))
    BY DEF Fires, FiresGiven, Judgement
  <2>4. FiresAlone(r) <=> ForTool(r.tools, proposed)
                            /\ Fires(Judgement(r, proposed, Context(r, <<>>, NotRead)))
    BY <2>3 DEF FiresAlone
  <2>5. r.id \in fired \cup excepted <=> IdAt(i) \in fired \cup excepted
    BY <2>1 DEF IdAt
  <2>6. r.id \in fired \cup excepted
          <=> /\ ForTool(r.tools, proposed)
              /\ Fires(Judgement(r, proposed, Context(r, <<>>, NotRead)))
    BY <2>2, <2>4, <2>5
  <2> QED
    BY <2>6
<1> QED
  BY <1>1, JudgesInTurn, PTL

-----------------------------------------------------------------------------
\* Every rule that was judged did what it does with what is known by now.
SaidAsIs(i) ==
    LET rule == RuleAt(i)
        applies == ForTool(rule.tools, FactsAt(i))
        fires == FiresGiven(rule, FactsAt(i), ContextAt(i))
    IN  /\ applies => Settled(rule, FactsAt(i), ContextAt(i))
        /\ IdAt(i) \in fired \cup excepted <=> applies /\ fires
        /\ IdAt(i) \in possible
             <=> applies /\ ~fires /\ MayFireIn(rule, FactsAt(i), ContextAt(i))

OneWorld ==
    \A i \in Places \ todo :
        IdAt(i) \notin failures /\ (Deferred(RuleAt(i)) => UnknownIsBan) => SaidAsIs(i)

\* A ban of unknown directories fires when some rule might have applied.
LEMMA UnknownIs ==
    ASSUME NEW rule, IsTree(rule.pred), Deferred(rule), rule.obligation = FALSE,
           NEW view, NEW ctx
    PROVE  FiresOn(rule, view, ctx) <=> ctx.possible # {}
<1>1. 1 \in DOMAIN rule.pred /\ rule.pred[1].kind = "unknown"
  BY DEF IsTree, Deferred
<1> DEFINE h == HeldBy(rule.pred, view, ctx)
<1>2. /\ HoldsAt(rule.pred, 1, view, ctx) = h[1][OfCall(view)]
      /\ h[1][OfCall(view)] \in BOOLEAN
      /\ h[1][OfCall(view)]
           = NodeHolds(rule.pred[1], OfCall(view), PastViews(view, ctx), h, ctx)
  BY <1>1, HeldByIs
<1> HIDE DEF h
<1>3. NodeHolds(rule.pred[1], OfCall(view), PastViews(view, ctx), h, ctx) <=> ctx.possible # {}
  BY <1>1 DEF NodeHolds
<1> QED
  BY <1>2, <1>3 DEF FiresOn, Holds

\* Judging such a ban adds nothing to the first of the rules that might
\* apply.
LEMMA PossibleStays ==
    ASSUME UnknownIsBan, JudgeInv, Finishes, Deferred(RuleAt(Turn))
    PROVE  possible' = {} <=> possible = {}
<1> DEFINE rule == RuleAt(Turn)
           ctx == ContextAt(Turn)
           verdict == Verdict(Judgement(rule, FactsAt(Turn), ctx))
<1>0. asking # Idle
  BY DEF Finishes
<1>1. IsTree(rule.pred) /\ rule.obligation = FALSE /\ ctx.possible = possible
  <2>1. Turn \in Places
    BY <1>0, AsksNowAre
  <2>2. ctx.possible = possible
    BY ContextIs DEF ContextAt
  <2>3. IsTree(rule.pred)
    BY <2>1, RulesAre DEF JudgeInv
  <2>4. rule.obligation = FALSE
    BY <2>1 DEF UnknownIsBan, Rules, Places, RuleAt, ToSet
  <2> QED
    BY <2>2, <2>3, <2>4
<1>2. ASSUME verdict = "possible"
      PROVE  possible # {}
  <2>1. MayFireIn(rule, FactsAt(Turn), ctx)
    BY <1>2, VerdictIs
  <2> QED
    BY <1>1, <2>1, UnknownIs DEF MayFireIn
<1>3. possible' = possible \/ (verdict = "possible" /\ possible' = possible \cup {IdAt(Turn)})
  BY DEF Finishes, Adds
<1> QED
  BY <1>2, <1>3

\* What is known grows, and nothing that was settled changes.
LEMMA StepExtends ==
    ASSUME JudgeInv, [Next]_vars, NEW i \in Places,
           Deferred(RuleAt(i)) => UnknownIsBan \/ possible # {},
           i \notin todo \/ (Finishes /\ i = Turn)
    PROVE  /\ Alike(ContextAt(i), ContextAt(i)') /\ Extends(ContextAt(i), ContextAt(i)')
           /\ ContextAt(i).past # NotRead => ContextAt(i)'.past = ContextAt(i).past
           /\ IsContext(ContextAt(i)) /\ IsContext(ContextAt(i)')
<1> DEFINE c == ContextAt(i)
           d == ContextAt(i)'
<1>0. LeavesAlone \/ AsksNext \/ Answers \/ Finishes \/ Decides
  BY StepKinds
<1>1. SameRules
  BY <1>0 DEF LeavesAlone, AsksNext, Answers, Finishes, Decides, SameRules
<1>2. /\ RuleAt(i)' = RuleAt(i) /\ Judged(RuleAt(i))' = Judged(RuleAt(i))
      /\ CreatedRepositories(proposed)' = CreatedRepositories(proposed)
  BY <1>1, SceneStays DEF SameRules, FactsAt
<1>3. /\ c = [base |-> RuleAt(i).base, past |-> past, now |-> Now,
              created |-> CreatedRepositories(proposed), found |-> found,
              area |-> AreaOf(RuleAt(i), Judged(RuleAt(i))),
              possible |-> IF Deferred(RuleAt(i)) THEN possible ELSE {}]
      /\ d = [base |-> RuleAt(i).base, past |-> past', now |-> Now,
              created |-> CreatedRepositories(proposed), found |-> found',
              area |-> AreaOf(RuleAt(i), Judged(RuleAt(i))),
              possible |-> IF Deferred(RuleAt(i)) THEN possible' ELSE {}]
  BY <1>2 DEF ContextAt, Context
<1>4. Deferred(RuleAt(i)) => (possible' = {} <=> possible = {})
  <2>1. CASE Finishes
    <3>1. Turn \in todo
      BY <2>1, AsksNowAre DEF Finishes
    <3>2. Deferred(RuleAt(i)) => Deferred(RuleAt(Turn))
      BY <3>1 DEF JudgeInv, LastLast
    <3>3. possible \subseteq possible'
      BY <2>1 DEF Finishes, Adds
    <3> QED
      BY <2>1, <3>2, <3>3, PossibleStays
  <2>2. CASE LeavesAlone \/ AsksNext \/ Answers \/ Decides
    BY <2>2 DEF LeavesAlone, AsksNext, Answers, Decides, outcome
  <2> QED
    BY <1>0, <2>1, <2>2
<1>5. /\ \A x \in DOMAIN found : x \in DOMAIN found' /\ found'[x] = found[x]
      /\ past # NotRead => past' = past
  <2>1. CASE Answers
    <3>0. asking # Idle
      BY <2>1 DEF Answers
    <3>1. CASE asking.of = "root"
      <4>1. asking \in AsksNow /\ IsContext(ContextAt(Turn))
        BY <3>0, <3>1, AsksNowAre
      <4>2. asking.at \notin DOMAIN ContextAt(Turn).found
        BY <3>1, <4>1, AsksAre DEF AsksNow
      <4>3. asking.at \notin DOMAIN found
        BY <4>2, ContextIs DEF ContextAt
      <4>4. past' = past /\ \E root : found' = Learnt(found, {asking.at}, root)
        BY <2>1, <3>1 DEF Answers
      <4> QED
        BY <4>3, <4>4 DEF Learnt
    <3>2. CASE asking.of \in {"rule", "exception"}
      <4>1. asking \in AsksNow /\ IsContext(ContextAt(Turn))
        BY <3>0, <3>2, AsksNowAre
      <4>2. ContextAt(Turn).past = NotRead
        BY <3>2, <4>1, AsksAre DEF AsksNow
      <4>3. past = NotRead
        BY <4>2, ContextIs DEF ContextAt
      <4> QED
        BY <2>1, <3>2, <4>3 DEF Answers
    <3> QED
      BY <2>1, <3>1, <3>2 DEF Answers
  <2>2. CASE LeavesAlone \/ AsksNext \/ Finishes \/ Decides
    BY <2>2 DEF LeavesAlone, AsksNext, Finishes, Decides
  <2> QED
    BY <1>0, <2>1, <2>2
<1>6. IsContext(c) /\ IsContext(d)
  BY <1>3 DEF IsContext
<1>7. Alike(c, d)
  BY <1>3, <1>4 DEF Alike
<1>8. Extends(c, d) /\ (c.past # NotRead => d.past = c.past)
  BY <1>3, <1>5 DEF Extends
<1> QED
  BY <1>6, <1>7, <1>8

\* A rule that was judged is where it was after every step: what it needed
\* is there, and stays, so what was said of it is what would be said now.
LEMMA OneWorldNext ==
    ASSUME JudgeInv, OneWorld, [Next]_vars
    PROVE  OneWorld'
<1>0. LeavesAlone \/ AsksNext \/ Answers \/ Finishes \/ Decides
  BY StepKinds
<1>1. SameRules
  BY <1>0 DEF LeavesAlone, AsksNext, Answers, Finishes, Decides, SameRules
<1>2. /\ Places' = Places
      /\ \A i : RuleAt(i)' = RuleAt(i) /\ IdAt(i)' = IdAt(i) /\ FactsAt(i)' = FactsAt(i)
      /\ UnknownIsBan' <=> UnknownIsBan
  BY <1>1, SceneStays DEF SameRules, UnknownIsBan, Rules
<1> DEFINE ToldOf(i) ==
               LET rule == RuleAt(i)
                   applies == ForTool(rule.tools, FactsAt(i))
                   fires == FiresGiven(rule, FactsAt(i), ContextAt(i))
               IN  /\ IdAt(i) \in fired' \cup excepted' <=> applies /\ fires
                   /\ IdAt(i) \in possible'
                        <=> applies /\ ~fires /\ MayFireIn(rule, FactsAt(i), ContextAt(i))
\* What is settled in the old state is said in the new one.
<1>3. ASSUME NEW i \in Places, Deferred(RuleAt(i)) => UnknownIsBan,
             i \notin todo \/ (Finishes /\ i = Turn),
             ForTool(RuleAt(i).tools, FactsAt(i)) => Settled(RuleAt(i), FactsAt(i), ContextAt(i)),
             ToldOf(i)
      PROVE  SaidAsIs(i)'
  <2> DEFINE rule == RuleAt(i)
             facts == FactsAt(i)
             c == ContextAt(i)
             d == ContextAt(i)'
  <2>1. /\ Alike(c, d) /\ Extends(c, d) /\ (c.past # NotRead => d.past = c.past)
        /\ IsContext(c) /\ IsContext(d)
    BY <1>3, StepExtends
  <2>2. IsTree(rule.pred)
    BY RulesAre DEF JudgeInv
  <2> HIDE DEF rule, facts, c, d
  <2>3. ForTool(rule.tools, facts) =>
            /\ Settled(rule, facts, d)
            /\ FiresGiven(rule, facts, d) <=> FiresGiven(rule, facts, c)
            /\ ~FiresGiven(rule, facts, c) =>
                   (MayFireIn(rule, facts, d) <=> MayFireIn(rule, facts, c))
    BY <1>3, <2>1, <2>2, SettledStays DEF rule, facts, c
  <2>4. /\ ForTool(rule.tools, facts) => Settled(rule, facts, d)
        /\ IdAt(i) \in fired' \cup excepted'
             <=> ForTool(rule.tools, facts) /\ FiresGiven(rule, facts, d)
        /\ IdAt(i) \in possible'
             <=> /\ ForTool(rule.tools, facts) /\ ~FiresGiven(rule, facts, d)
                 /\ MayFireIn(rule, facts, d)
    BY <1>3, <2>3 DEF rule, facts, c
  <2> QED
    BY <1>2, <2>4 DEF SaidAsIs, rule, facts, d
<1>4. ASSUME NEW i \in Places, i \notin todo', IdAt(i) \notin failures',
             Deferred(RuleAt(i)) => UnknownIsBan
      PROVE  SaidAsIs(i)'
  <2>1. CASE UNCHANGED <<todo, outcome>>
    <3>1. SaidAsIs(i)
      BY <1>4, <2>1 DEF OneWorld, outcome
    <3>2. ToldOf(i)
      BY <2>1, <3>1 DEF SaidAsIs, outcome
    <3>3. ForTool(RuleAt(i).tools, FactsAt(i)) => Settled(RuleAt(i), FactsAt(i), ContextAt(i))
      BY <3>1 DEF SaidAsIs
    <3>4. i \notin todo
      BY <1>4, <2>1
    <3> HIDE DEF ToldOf
    <3> QED
      BY <1>3, <1>4, <3>2, <3>3, <3>4
  <2>2. CASE Finishes /\ i # Turn
    <3>1. /\ Turn \in todo /\ Turn \in Places /\ todo' = todo \ {Turn}
      BY <2>2, AsksNowAre DEF Finishes
    <3>2. IdAt(i) # IdAt(Turn)
      BY <2>2, <3>1, RulesAre DEF JudgeInv
    <3>3. /\ IdAt(i) \in fired' <=> IdAt(i) \in fired
          /\ IdAt(i) \in excepted' <=> IdAt(i) \in excepted
          /\ IdAt(i) \in possible' <=> IdAt(i) \in possible
          /\ IdAt(i) \in failures' <=> IdAt(i) \in failures
      BY <2>2, <3>2 DEF Finishes, Adds
    <3>4. i \notin todo
      BY <1>4, <2>2, <3>1
    <3>5. SaidAsIs(i)
      BY <1>4, <3>3, <3>4 DEF OneWorld
    <3>6. ToldOf(i)
      BY <3>3, <3>5 DEF SaidAsIs
    <3>7. ForTool(RuleAt(i).tools, FactsAt(i)) => Settled(RuleAt(i), FactsAt(i), ContextAt(i))
      BY <3>5 DEF SaidAsIs
    <3> HIDE DEF ToldOf
    <3> QED
      BY <1>3, <1>4, <3>4, <3>6, <3>7
  <2>3. CASE Finishes /\ i = Turn
    <3> DEFINE verdict == Verdict(Judgement(RuleAt(Turn), FactsAt(Turn), ContextAt(Turn)))
    <3>1. asking # Idle /\ Turn \in todo
      BY <2>3, AsksNowAre DEF Finishes
    <3>2. asking = Ready
      BY <1>4, <2>3 DEF Finishes
    <3>3. AsksNow = {} /\ IsContext(ContextAt(Turn))
      BY <3>1, <3>2, AsksNowAre
    <3>4. ForTool(RuleAt(i).tools, FactsAt(i)) => Settled(RuleAt(i), FactsAt(i), ContextAt(i))
      BY <2>3, <3>3, NoAsksSettled DEF AsksNow
    <3>5. IdAt(i) \notin fired \cup excepted \cup possible
      BY <2>3, <3>1 DEF JudgeInv, Unspoken
    <3>6. /\ Adds(fired, fired', IdAt(i), verdict = "fired")
          /\ Adds(excepted, excepted', IdAt(i), verdict = "excepted")
          /\ Adds(possible, possible', IdAt(i), verdict = "possible")
      BY <2>3, <3>2 DEF Finishes, Ready
    <3>7. /\ IdAt(i) \in fired' \cup excepted' <=> verdict \in {"fired", "excepted"}
          /\ IdAt(i) \in possible' <=> verdict = "possible"
      <4> HIDE DEF verdict
      <4> QED
        BY <3>5, <3>6 DEF Adds
    <3>8. ToldOf(i)
      BY <2>3, <3>7, VerdictIs
    <3> HIDE DEF ToldOf
    <3> QED
      BY <1>3, <1>4, <2>3, <3>4, <3>8
  <2> QED
    BY <1>0, <2>1, <2>2, <2>3 DEF LeavesAlone, AsksNext, Answers, Decides, outcome
<1> QED
  BY <1>2, <1>4 DEF OneWorld

\* All rules are judged in one world (_Roots, _Session): at any time, what
\* was said of each is what it says with everything known by now.
THEOREM JudgesInOneWorld == Spec => []OneWorld
<1>1. Init => OneWorld
  BY DEF Init, OneWorld, Places
<1>2. JudgeInv /\ OneWorld /\ [Next]_vars => OneWorld'
  BY OneWorldNext
<1> QED
  BY <1>1, <1>2, JudgesInTurn, PTL DEF Spec

\* Two rules that say the same agree, whatever came and went between them
\* (rules about unknown directories: when none of them is an obligation).
THEOREM TwinsAgree == Spec => []RulesAgree
<1>1. JudgeInv /\ OneWorld => RulesAgree
  <2> SUFFICES ASSUME JudgeInv, OneWorld, Decided,
                      NEW r \in Rules, r.id \notin failures,
                      NEW q \in Rules, q.id \notin failures, SameRule(r, q),
                      Deferred(r) => UnknownIsBan
               PROVE  /\ r.id \in fired \cup excepted <=> q.id \in fired \cup excepted
                      /\ r.id \in possible <=> q.id \in possible
    BY DEF RulesAgree
  <2>1. PICK i \in Places : r = RuleAt(i)
    BY RulesAre DEF Rules, RuleAt, Places, ToSet, JudgeInv
  <2>2. PICK k \in Places : q = RuleAt(k)
    BY RulesAre DEF Rules, RuleAt, Places, ToSet, JudgeInv
  <2>3. SaidAsIs(i) /\ SaidAsIs(k)
    <3>1. Deferred(q) <=> Deferred(r)
      BY DEF SameRule, Deferred
    <3> QED
      BY <2>1, <2>2, <3>1 DEF OneWorld, JudgeInv, DecidedLast, IdAt
  <2>4. /\ r.pred = q.pred /\ r.obligation = q.obligation /\ r.tools = q.tools /\ r.base = q.base
        /\ r.under = q.under /\ r.notUnder = q.notUnder /\ r.roots = q.roots
    BY DEF SameRule
  <2>5. FactsAt(i) = FactsAt(k) /\ ContextAt(i) = ContextAt(k)
    BY <2>1, <2>2, <2>4 DEF FactsAt, ContextAt, Context, Judged, Deferred, AreaOf
  <2>6. \A facts, ctx : /\ FiresGiven(r, facts, ctx) <=> FiresGiven(q, facts, ctx)
                        /\ MayFireIn(r, facts, ctx) <=> MayFireIn(q, facts, ctx)
    BY <2>4 DEF FiresGiven, MayFireIn, FiresOn
  <2> QED
    BY <2>1, <2>2, <2>3, <2>4, <2>5, <2>6 DEF SaidAsIs, IdAt
<1> QED
  BY <1>1, JudgesInTurn, JudgesInOneWorld, PTL

-----------------------------------------------------------------------------
\* Facts are these and nothing else, and a command is known by its index.
Fields ==
    {"tool", "cwd", "located", "session", "commands", "paths", "dynamic", "assigned", "args"}
IsFacts(facts) == facts = [field \in Fields |-> facts[field]]
OneEach(facts) == \A c, d \in facts.commands : c.index = d.index => c = d
Parted(facts, cs, ps) == [facts EXCEPT !.commands = cs, !.paths = ps]

\* Other commands and paths change nothing else.
LEMMA PartIs ==
    ASSUME NEW facts, IsFacts(facts), NEW cs, NEW ps
    PROVE  /\ IsFacts(Parted(facts, cs, ps))
           /\ Parted(facts, cs, ps).commands = cs /\ Parted(facts, cs, ps).paths = ps
           /\ Parted(facts, cs, ps).cwd = facts.cwd /\ Parted(facts, cs, ps).args = facts.args
           /\ Parted(facts, cs, ps).dynamic = facts.dynamic
           /\ Parted(facts, cs, ps).assigned = facts.assigned
BY DEF IsFacts, Fields, Parted

\* extract: the facts of a call are so,
LEMMA ExtractIs ==
    ASSUME NEW call
    PROVE  IsFacts(Extract(call)) /\ OneEach(Extract(call))
<1>1. IsFacts(Extract(call))
  BY DEF Extract, IsFacts, Fields
<1>2. \A start, known : \A c, d \in ShellCommands(call, start, known) :
          c.index = d.index => c = d
  BY DEF ShellCommands
<1>3. Extract(call).commands = {} \/ \E start, known :
          Extract(call).commands = ShellCommands(call, start, known)
  BY DEF Extract
<1> QED
  BY <1>1, <1>2, <1>3 DEF OneEach

\* and so they are read for a rule on unknown directories.
LEMMA JudgedIs ==
    ASSUME NEW rule, proposed = Extract(scenario.call)
    PROVE  IsFacts(Judged(rule)) /\ OneEach(Judged(rule))
<1>1. IsFacts(proposed) /\ OneEach(proposed)
  BY ExtractIs
<1>2. \A c \in proposed.commands : c = [argv |-> c.argv, index |-> c.index, cwd |-> c.cwd]
  BY DEF Extract, ShellCommands
<1> DEFINE home(fact) == IF fact.cwd = UnknownDir THEN [fact EXCEPT !.cwd = HereDir] ELSE fact
<1>3. /\ AtHome(proposed).commands = {home(c) : c \in proposed.commands}
      /\ IsFacts(AtHome(proposed))
  <2> DEFINE cs == {home(c) : c \in proposed.commands}
             ps == {home(p) : p \in proposed.paths}
  <2>1. AtHome(proposed) = [proposed EXCEPT !.commands = cs, !.paths = ps]
    BY DEF AtHome
  <2>2. AtHome(proposed) = Parted(proposed, cs, ps)
    BY <2>1 DEF Parted
  <2> HIDE DEF cs, ps
  <2> QED
    BY <1>1, <2>2, PartIs DEF cs
<1>4. \A c \in proposed.commands : home(c).index = c.index
  BY <1>2
<1> HIDE DEF home
<1>5. OneEach(AtHome(proposed))
  BY <1>1, <1>3, <1>4 DEF OneEach
<1> QED
  BY <1>1, <1>3, <1>5 DEF Judged

\* _view: one part of the call at most is seen.
LEMMA ViewIs ==
    ASSUME NEW facts, IsFacts(facts), NEW area, NEW ctx, NEW answer
    PROVE  /\ \A v, w \in View(facts, area, ctx, answer) : v = w
           /\ \A v \in View(facts, area, ctx, answer) :
                  v.commands \subseteq facts.commands /\ v.paths \subseteq facts.paths
<1> DEFINE Fine(V) == /\ \A v, w \in V : v = w
                      /\ \A v \in V : v.commands \subseteq facts.commands
                                        /\ v.paths \subseteq facts.paths
<1>3. ASSUME NEW cs, NEW ps, cs \subseteq facts.commands, ps \subseteq facts.paths
      PROVE  Fine(Part(facts, cs, ps))
  <2> DEFINE part == Parted(facts, cs, ps)
  <2>1. part.commands = cs /\ part.paths = ps
    BY PartIs
  <2>2. \A v \in Part(facts, cs, ps) : v = part
    BY DEF Part, Parted
  <2> HIDE DEF part
  <2> QED
    BY <1>3, <2>1, <2>2
<1>4. Fine({}) /\ Fine({facts})
  OBVIOUS
<1> HIDE DEF Fine
<1>5. Fine(Split(facts, area, ctx, answer))
  BY <1>3 DEF Split, Among
<1>6. Fine(RootedParts(facts, area, ctx, answer))
  <2>1. CASE facts.paths = {}
    BY <1>4, <2>1 DEF RootedParts
  <2>2. CASE facts.paths # {}
    <3>1. RootedParts(facts, area, ctx, answer)
            = Part(facts, {}, {p \in facts.paths : Rooted(p.path, area, ctx) = answer})
      BY <2>2 DEF RootedParts
    <3> QED
      BY <1>3, <3>1
  <2> QED
    BY <2>1, <2>2
<1>7. Fine(SplitPaths(facts, area, ctx, answer))
  BY <1>4, <1>6 DEF SplitPaths
<1>8. Fine(View(facts, area, ctx, answer))
  BY <1>4, <1>5, <1>7 DEF View
<1> QED
  BY <1>8 DEF Fine

-----------------------------------------------------------------------------
\* A rule that bans one thing.
\* It does not ask for earlier calls, and what it fires on is a matter of the
\* facts alone.
LEMMA LeafIs ==
    ASSUME NEW rule, IsTree(rule.pred), Positive(rule)
    PROVE  /\ Parts(rule.pred[1]) = {} /\ rule.pred[1].kind \in NodeKinds
           /\ rule.pred[1].kind \notin {"not", "preceded", "exceeds"}
           /\ ~Mentions(rule.pred, History)[1]
           /\ \A facts, ctx : FiresOn(rule, facts, ctx) <=> Holds(rule.pred, facts, ctx)
<1>1. 1 \in DOMAIN rule.pred /\ Len(rule.pred) = 1 /\ rule.obligation = FALSE
  BY DEF IsTree, Positive
<1>2. Parts(rule.pred[1]) = {} /\ rule.pred[1].kind \in NodeKinds
  <2>1. \A j \in Parts(rule.pred[1]) : j \in 1 + 1..Len(rule.pred)
    BY <1>1, NodesOfTrees
  <2> QED
    BY <1>1, <2>1, NodesOfTrees
<1>3. rule.pred[1].kind \notin {"not", "preceded", "exceeds"}
  BY <1>2 DEF Parts
<1>4. ~Mentions(rule.pred, History)[1]
  <2>1. Mentions(rule.pred, History)[1]
          = NodeMentions(rule.pred[1], History, Mentions(rule.pred, History))
    BY <1>1, MentionsIs
  <2>2. rule.pred[1].kind \in {"all", "any"} => rule.pred[1].parts = {}
    BY <1>2 DEF Parts
  <2> QED
    BY <1>3, <2>1, <2>2 DEF NodeMentions, History
<1>5. ASSUME NEW facts, NEW ctx
      PROVE  Holds(rule.pred, facts, ctx) \in BOOLEAN
  <2>1. HoldsAt(rule.pred, 1, facts, ctx) = HeldBy(rule.pred, facts, ctx)[1][OfCall(facts)]
    BY HeldByIs
  <2>2. HeldBy(rule.pred, facts, ctx)[1][OfCall(facts)] \in BOOLEAN
    BY <1>1, HeldByIs
  <2> QED
    BY <2>1, <2>2 DEF Holds
<1> QED
  BY <1>1, <1>2, <1>3, <1>4, <1>5 DEF FiresOn

\* It fires on more when it fires on less.
LEMMA LeafGrows ==
    ASSUME NEW rule, IsTree(rule.pred), Positive(rule), NEW facts, IsFacts(facts), NEW ctx,
           NEW cs, NEW ps, NEW more, NEW further, cs \subseteq more, ps \subseteq further,
           FiresOn(rule, Parted(facts, cs, ps), ctx)
    PROVE  FiresOn(rule, Parted(facts, more, further), ctx)
<1> DEFINE less == Parted(facts, cs, ps)
           all == Parted(facts, more, further)
           node == rule.pred[1]
<1>1. /\ less.commands = cs /\ less.paths = ps /\ all.commands = more /\ all.paths = further
      /\ less.cwd = all.cwd /\ less.args = all.args /\ less.dynamic = all.dynamic
      /\ less.assigned = all.assigned
  BY PartIs
<1> HIDE DEF less, all
<1>2. /\ Parts(node) = {} /\ node.kind \in NodeKinds
      /\ node.kind \notin {"not", "preceded", "exceeds"}
      /\ \A f : FiresOn(rule, f, ctx) <=> Holds(rule.pred, f, ctx)
  BY LeafIs
<1>3. ASSUME NEW f
      PROVE  Holds(rule.pred, f, ctx)
               = NodeHolds(node, OfCall(f), PastViews(f, ctx), HeldBy(rule.pred, f, ctx), ctx)
  <2>1. 1 \in DOMAIN rule.pred
    BY DEF IsTree
  <2> QED
    BY <2>1, HeldByIs DEF Holds
<1>4. \A f : OfCall(f).call = f
  BY DEF OfCall, Case
<1>5. ASSUME NEW calls, NEW h, NEW others, NEW g,
             NodeHolds(node, OfCall(less), calls, h, ctx)
      PROVE  NodeHolds(node, OfCall(all), others, g, ctx)
  <2>1. CASE node.kind = "command"
    BY <1>1, <1>4, <1>5, <2>1 DEF NodeHolds
  <2>2. CASE node.kind = "path"
    <3>1. PathHolds(node, ctx.base, less)
      BY <1>4, <1>5, <2>2 DEF NodeHolds
    <3>2. \A fact, f : ~SparedBeside(fact, f, node.spared)
      BY <2>2 DEF SparedBeside, Positive
    <3>3. PathHolds(node, ctx.base, all)
      BY <1>1, <3>1, <3>2 DEF PathHolds
    <3> QED
      BY <1>4, <2>2, <3>3 DEF NodeHolds
  <2>3. CASE node.kind \in {"arg", "expr", "dynamic", "assigns"}
    <3>1. /\ ArgHolds(node, less) <=> ArgHolds(node, all)
          /\ ExprHolds(node, less) <=> ExprHolds(node, all)
          /\ IsDynamic(node, less) <=> IsDynamic(node, all)
          /\ Assigns(node, less) <=> Assigns(node, all)
      <4>1. ArgHolds(node, less) <=> ArgHolds(node, all)
        BY <1>1 DEF ArgHolds
      <4>2. ExprHolds(node, less) <=> ExprHolds(node, all)
        <5> DEFINE Fine(args) ==
                     /\ \A name \in DOMAIN node.lhs : name \in DOMAIN args /\ args[name].reads # {}
                     /\ LET value(name) == CHOOSE n \in args[name].reads : TRUE
                            total == FoldFunction(+, 0, [name \in DOMAIN node.lhs |->
                                                             node.lhs[name] * value(name)])
                        IN  Ordered(total, node.op, node.rhs)
        <5>1. \A f : ExprHolds(node, f) <=> Fine(f.args)
          BY DEF ExprHolds
        <5> HIDE DEF Fine
        <5> QED
          BY <1>1, <5>1
      <4>3. IsDynamic(node, less) <=> IsDynamic(node, all)
        BY <1>1 DEF IsDynamic
      <4>4. Assigns(node, less) <=> Assigns(node, all)
        BY <1>1 DEF Assigns
      <4> QED
        BY <4>1, <4>2, <4>3, <4>4
    <3> QED
      BY <1>4, <1>5, <2>3, <3>1 DEF NodeHolds
  <2>4. CASE node.kind = "unknown"
    BY <1>5, <2>4 DEF NodeHolds
  <2>5. CASE node.kind \in {"all", "any"}
    BY <1>2, <1>5, <2>5 DEF NodeHolds, Parts
  <2> QED
    BY <1>2, <2>1, <2>2, <2>3, <2>4, <2>5 DEF NodeKinds
<1>6. FiresOn(rule, less, ctx)
  BY DEF less
<1>7. FiresOn(rule, all, ctx)
  BY <1>2, <1>3, <1>5, <1>6
<1> QED
  BY <1>7 DEF all

-----------------------------------------------------------------------------
\* The exceptions that may apply to a rule, by their places in the ledger.
PlacesOf(exceptions) == DOMAIN exceptions \subseteq Nat

\* covering: the first exception that covers the deed, if any does.
LEMMA CoveringIs ==
    ASSUME NEW zones, DOMAIN zones \subseteq Nat, NEW deed, NEW ctx
    PROVE  \/ Covering(zones, deed, ctx) = {}
           \/ \E k \in DOMAIN zones : /\ Applies(zones[k], deed, ctx)
                                      /\ Covering(zones, deed, ctx) = {zones[k].area}
<1> DEFINE ks == {k \in DOMAIN zones : Applies(zones[k], deed, ctx)}
<1>1. Covering(zones, deed, ctx) = IF ks = {} THEN {} ELSE {zones[Min(ks)].area}
  BY DEF Covering
<1>2. ks # {} => Min(ks) \in ks
  <2> SUFFICES ASSUME ks # {} PROVE Min(ks) \in ks
    OBVIOUS
  <2>1. ks \subseteq Nat
    OBVIOUS
  <2> HIDE DEF ks
  <2>2. \E x \in ks : \A y \in ks : x <= y
    BY <2>1, LeastNumber
  <2> QED
    BY <2>2 DEF Min
<1>3. \A k \in ks : k \in DOMAIN zones /\ Applies(zones[k], deed, ctx)
  OBVIOUS
<1> HIDE DEF ks
<1> QED
  BY <1>1, <1>2, <1>3

\* A zone is strict and leaves nothing out.
Strict(zones) ==
    \A k \in DOMAIN zones : zones[k].area.notUnder = {} /\ zones[k].area.lenient = FALSE

\* A zone is so, and has the condition of the exception.
LEMMA ZonesAre ==
    ASSUME NEW exceptions, PlacesOf(exceptions), NEW rule, NEW facts
    PROVE  /\ DOMAIN Zones(exceptions, rule, facts) \subseteq DOMAIN exceptions
           /\ DOMAIN Zones(exceptions, rule, facts) \subseteq Nat
           /\ Strict(Zones(exceptions, rule, facts))
           /\ \A k \in DOMAIN Zones(exceptions, rule, facts) :
                  Zones(exceptions, rule, facts)[k].when = exceptions[k].when
<1>1. \A e : /\ Zone(e, facts).area.notUnder = {} /\ Zone(e, facts).area.lenient = FALSE
             /\ Zone(e, facts).when = e.when
  BY DEF Zone, Area
<1>2. PICK places \in SUBSET DOMAIN exceptions :
          Zones(exceptions, rule, facts) = [i \in places |-> Zone(exceptions[i], facts)]
  BY DEF Zones
<1> QED
  BY <1>1, <1>2 DEF PlacesOf, Strict

\* _inside of an exception: it does not hold where nobody knows.
LEMMA AppliesIs ==
    ASSUME NEW zone, zone.area.lenient = FALSE, NEW deed, NEW ctx, Applies(zone, deed, ctx)
    PROVE  /\ IsNowhere(zone.area) \/ (deed.at # UnknownDir /\ Placed(deed.at, zone.area))
           /\ ConditionHolds(zone, deed.alone, ctx)
<1>1. \A area : area.lenient = FALSE /\ Inside(deed.at, deed.where, area, ctx) = "yes"
                  => deed.at # UnknownDir /\ Placed(deed.at, area)
  BY DEF Inside, Unknown
<1> QED
  BY <1>1 DEF Applies

\* _beside: a path that does not lie beside an exception's place lies in it.
LEMMA NotBeside ==
    ASSUME NEW fact, NEW zone, zone.notUnder = {}, NEW ctx, ~Beside(fact, zone, ctx)
    PROVE  ~IsOpen(fact.path) /\ Placed(fact.path, zone)
BY DEF Beside, Placed, UnderAny

\* A predicate about paths reads them.
LEMMA PathRead ==
    ASSUME NEW rule, IsTree(rule.pred), rule.pred[1].kind = "path"
    PROVE  ReadsPaths(rule.pred)
<1>1. 1 \in DOMAIN rule.pred
  BY DEF IsTree
<1>2. Mentions(rule.pred, {"path"})[1]
        = NodeMentions(rule.pred[1], {"path"}, Mentions(rule.pred, {"path"}))
  BY <1>1, MentionsIs
<1> QED
  BY <1>2 DEF NodeMentions, ReadsPaths

-----------------------------------------------------------------------------
\* _excepted: what a rule fires on by itself, and an exception took away, is
\* what some exception names.  First a command with its paths,
LEMMA CommandsLifted ==
    ASSUME NEW rule, IsTree(rule.pred), Positive(rule), NEW facts, IsFacts(facts),
           OneEach(facts), facts.commands # {}, NEW ctx, PlacesOf(scenario.exceptions),
           NEW view, view.commands \subseteq facts.commands, view.paths \subseteq facts.paths,
           IsExcepted(Judgement(rule, facts, ctx), view),
           NEW c \in view.commands,
           NEW one, one = Parted(facts, {c}, {p \in view.paths : p.source = c.index}),
           FiresOn(rule, one, ctx)
    PROVE  SomeNames(Zones(scenario.exceptions, rule, facts), rule, DeedOf(c, facts), one, ctx)
<1> DEFINE j == Judgement(rule, facts, ctx)
           zones == Zones(scenario.exceptions, rule, facts)
           covers == [d \in view.commands |-> Covering(zones, DeedOf(d, facts), ctx)]
           staying(p) ==
               \A d \in {e \in DOMAIN covers : e.index = p.source /\ covers[e] # {}} :
                   \E zone \in covers[d] : Stays(p, zone, j)
           paths == {p \in view.paths : staying(p)}
           commands == {d \in DOMAIN covers :
                          covers[d] = {} \/ \E p \in paths : p.source = d.index}
           rest == Parted(facts, commands, paths)
<1>1. j.rule = rule /\ j.facts = facts /\ j.ctx = ctx /\ j.zones = zones
  BY DEF Judgement
<1> HIDE DEF j, zones
<1>2. commands \cup paths # {} => ~FiresOn(rule, rest, ctx)
  <2>1. PICK left \in Left(j, view) :
            left.commands \cup left.paths # {} => ~FiresOn(j.rule, Rest(j, left), j.ctx)
    BY DEF IsExcepted, j
  <2>2. left \in LeftGiven(covers, j, view)
    BY <1>1, <2>1 DEF Left, LeftOfCommands
  <2>3. left.commands = commands /\ left.paths = paths
    <3> HIDE DEF covers
    <3> QED
      BY <2>2 DEF LeftGiven
  <2> HIDE DEF commands, paths
  <2> QED
    BY <1>1, <2>1, <2>3 DEF Rest, Parted
<1>3. \A d \in view.commands : d.index = c.index => d = c
  BY DEF OneEach
<1>4. DOMAIN covers = view.commands /\ covers[c] = Covering(zones, DeedOf(c, facts), ctx)
  OBVIOUS
<1> HIDE DEF covers
<1>5. covers[c] # {}
  <2> SUFFICES ASSUME covers[c] = {} PROVE FALSE
    OBVIOUS
  <2>1. c \in commands
    BY <1>4
  <2>2. \A p \in view.paths : p.source = c.index => p \in paths
    BY <1>3, <1>4
  <2>3. FiresOn(rule, rest, ctx)
    <3> DEFINE own == {p \in view.paths : p.source = c.index}
    <3>1. {c} \subseteq commands /\ own \subseteq paths
      BY <2>1, <2>2
    <3>2. FiresOn(rule, Parted(facts, {c}, own), ctx)
      OBVIOUS
    <3> HIDE DEF commands, paths, own
    <3> QED
      BY <3>1, <3>2, LeafGrows
  <2> HIDE DEF commands, paths, rest
  <2> QED
    BY <1>2, <2>1, <2>3
<1>6. PICK k \in DOMAIN zones : /\ Applies(zones[k], DeedOf(c, facts), ctx)
                                /\ covers[c] = {zones[k].area}
  <2>1. DOMAIN zones \subseteq Nat
    BY ZonesAre DEF zones
  <2> QED
    BY <1>4, <1>5, <2>1, CoveringIs
<1>7. zones[k].area.notUnder = {} /\ zones[k].area.lenient = FALSE
  <2>1. Strict(zones)
    BY ZonesAre DEF zones
  <2> QED
    BY <2>1 DEF Strict
<1>8. ASSUME rule.pred[1].kind = "path", ~IsNowhere(zones[k].area), NEW p \in one.paths,
             FiresOn(rule, [one EXCEPT !.paths = {p}], ctx)
      PROVE  ~IsOpen(p.path) /\ Placed(p.path, zones[k].area)
  <2>1. p \in view.paths /\ p.source = c.index
    BY <1>8, PartIs
  <2>2. p \notin paths
    <3> SUFFICES ASSUME p \in paths PROVE FALSE
      OBVIOUS
    <3>1. c \in commands
      BY <1>4, <2>1
    <3>2. [one EXCEPT !.paths = {p}] = Parted(facts, {c}, {p})
      BY DEF IsFacts, Fields, Parted
    <3>3. FiresOn(rule, rest, ctx)
      <4>1. {c} \subseteq commands /\ {p} \subseteq paths
        BY <3>1
      <4>2. FiresOn(rule, Parted(facts, {c}, {p}), ctx)
        BY <1>8, <3>2
      <4> HIDE DEF commands, paths
      <4> QED
        BY <4>1, <4>2, LeafGrows
    <3> HIDE DEF commands, paths, rest
    <3> QED
      BY <1>2, <3>1, <3>3
  <2>3. ~Stays(p, zones[k].area, j)
    BY <1>3, <1>4, <1>6, <2>1, <2>2
  <2>4. ReadsPaths(rule.pred)
    BY <1>8, PathRead
  <2>5. ~Beside(p, zones[k].area, ctx)
    BY <1>1, <1>8, <2>3, <2>4 DEF Stays
  <2> QED
    BY <1>7, <2>5, NotBeside
<1>9. Names(zones[k], rule, DeedOf(c, facts), one, ctx)
  <2>1. /\ \/ IsNowhere(zones[k].area)
           \/ DeedOf(c, facts).at # UnknownDir /\ Placed(DeedOf(c, facts).at, zones[k].area)
        /\ ConditionHolds(zones[k], DeedOf(c, facts).alone, ctx)
    BY <1>6, <1>7, AppliesIs
  <2> QED
    BY <1>8, <2>1 DEF Names
<1> QED
  BY <1>9 DEF SomeNames, zones

\* then a path of a tool that works on paths.
LEMMA PathsLifted ==
    ASSUME NEW rule, IsTree(rule.pred), Positive(rule), NEW facts, IsFacts(facts),
           facts.commands = {}, NEW ctx, PlacesOf(scenario.exceptions),
           NEW view, view.paths \subseteq facts.paths,
           IsExcepted(Judgement(rule, facts, ctx), view),
           NEW p \in view.paths, FiresOn(rule, [facts EXCEPT !.paths = {p}], ctx)
    PROVE  SomeNames(Zones(scenario.exceptions, rule, facts), rule, DeedOn(p, facts),
                     [facts EXCEPT !.paths = {p}], ctx)
<1> DEFINE j == Judgement(rule, facts, ctx)
           zones == Zones(scenario.exceptions, rule, facts)
           cover(q) == Covering(zones, DeedOn(q, facts), ctx)
           remains(q) ==
               \/ cover(q) = {}
               \/ \E zone \in cover(q) : /\ ReadsPaths(rule.pred) /\ ~IsNowhere(zone)
                                         /\ Beside(q, zone, ctx)
           paths == {q \in view.paths : remains(q)}
           rest == Parted(facts, {}, paths)
<1>1. j.rule = rule /\ j.facts = facts /\ j.ctx = ctx /\ j.zones = zones
  BY DEF Judgement
<1> HIDE DEF j, zones
<1>2. paths # {} => ~FiresOn(rule, rest, ctx)
  <2>1. PICK left \in Left(j, view) :
            left.commands \cup left.paths # {} => ~FiresOn(j.rule, Rest(j, left), j.ctx)
    BY DEF IsExcepted, j
  <2>2. left \in LeftOfPaths(j, view)
    BY <1>1, <2>1 DEF Left
  <2>3. left.commands = {} /\ left.paths = paths
    BY <1>1, <2>2 DEF LeftOfPaths
  <2> HIDE DEF paths
  <2> QED
    BY <1>1, <2>1, <2>3 DEF Rest, Parted
<1>3. p \notin paths
  <2> SUFFICES ASSUME p \in paths PROVE FALSE
    OBVIOUS
  <2>1. [facts EXCEPT !.paths = {p}] = Parted(facts, {}, {p})
    BY DEF IsFacts, Fields, Parted
  <2>2. FiresOn(rule, rest, ctx)
    <3>1. {p} \subseteq paths
      OBVIOUS
    <3> HIDE DEF paths
    <3> QED
      BY <2>1, <3>1, LeafGrows
  <2> HIDE DEF paths, rest
  <2> QED
    BY <1>2, <2>2
<1>4. PICK k \in DOMAIN zones : /\ Applies(zones[k], DeedOn(p, facts), ctx)
                                /\ cover(p) = {zones[k].area}
  <2>1. DOMAIN zones \subseteq Nat
    BY ZonesAre DEF zones
  <2>2. cover(p) # {}
    BY <1>3
  <2> QED
    BY <2>1, <2>2, CoveringIs
<1>5. zones[k].area.notUnder = {} /\ zones[k].area.lenient = FALSE
  <2>1. Strict(zones)
    BY ZonesAre DEF zones
  <2> QED
    BY <2>1 DEF Strict
<1>6. ASSUME rule.pred[1].kind = "path", ~IsNowhere(zones[k].area)
      PROVE  ~IsOpen(p.path) /\ Placed(p.path, zones[k].area)
  <2>1. ReadsPaths(rule.pred)
    BY <1>6, PathRead
  <2>2. ~Beside(p, zones[k].area, ctx)
    BY <1>3, <1>4, <1>6, <2>1
  <2> QED
    BY <1>5, <2>2, NotBeside
<1>7. [facts EXCEPT !.paths = {p}].paths = {p}
  BY DEF IsFacts, Fields, Parted
<1>8. Names(zones[k], rule, DeedOn(p, facts), [facts EXCEPT !.paths = {p}], ctx)
  <2>1. /\ \/ IsNowhere(zones[k].area)
           \/ DeedOn(p, facts).at # UnknownDir /\ Placed(DeedOn(p, facts).at, zones[k].area)
        /\ ConditionHolds(zones[k], DeedOn(p, facts).alone, ctx)
    BY <1>4, <1>5, AppliesIs
  <2> QED
    BY <1>6, <1>7, <2>1 DEF Names
<1> QED
  BY <1>8 DEF SomeNames, zones

\* last the call, when it has neither: whatever is left of it, nothing the
\* rule fires on by itself was taken away by something else.
LEMMA ExceptedLiftsNoMore ==
    ASSUME NEW rule, IsTree(rule.pred), Positive(rule), NEW facts, IsFacts(facts),
           OneEach(facts), NEW ctx, PlacesOf(scenario.exceptions),
           Verdict(Judgement(rule, facts, ctx)) = "excepted"
    PROVE  LiftsNoMore(rule, facts, ctx)
<1> DEFINE j == Judgement(rule, facts, ctx)
           zones == Zones(scenario.exceptions, rule, facts)
<1>1. /\ j.rule = rule /\ j.facts = facts /\ j.ctx = ctx /\ j.zones = zones
      /\ j.sure = View(facts, ctx.area, ctx, "yes")
  BY DEF Judgement
<1>2. PICK seen_ \in j.sure : IsExcepted(j, seen_)
  <2>1. Verdict(j) = "excepted"
    OBVIOUS
  <2> HIDE DEF j
  <2> QED
    BY <1>1, <2>1 DEF Verdict
<1> SUFFICES ASSUME NEW view \in j.sure, NEW deed \in Deeds(facts, view), NEW one,
                    one = [deed.alone EXCEPT !.paths = @ \cap view.paths],
                    FiresOn(rule, one, ctx)
             PROVE  SomeNames(zones, rule, deed, one, ctx)
  BY <1>1 DEF LiftsNoMore
<1>3. /\ view.commands \subseteq facts.commands /\ view.paths \subseteq facts.paths
      /\ IsExcepted(j, view)
  BY <1>1, <1>2, ViewIs
<1>4. CASE facts.commands # {}
  <2>1. PICK c \in view.commands : deed = DeedOf(c, facts)
    BY <1>4 DEF Deeds
  <2> DEFINE own == {p \in view.paths : p.source = c.index}
  <2>2. one = Parted(facts, {c}, own)
    <3> DEFINE its == {p \in facts.paths : p.source = c.index}
    <3>1. deed.alone = Parted(facts, {c}, its)
      BY <2>1 DEF DeedOf, Alone, Parted
    <3>2. its \cap view.paths = own
      BY <1>3
    <3> HIDE DEF its, own
    <3>3. [Parted(facts, {c}, its) EXCEPT !.paths = @ \cap view.paths]
            = Parted(facts, {c}, its \cap view.paths)
      BY DEF IsFacts, Fields, Parted
    <3> QED
      BY <3>1, <3>2, <3>3
  <2> QED
    BY <1>3, <1>4, <2>1, <2>2, CommandsLifted
<1>5. CASE facts.commands = {} /\ view.paths # {}
  <2>1. PICK p \in view.paths : deed = DeedOn(p, facts)
    BY <1>5 DEF Deeds
  <2>2. one = [facts EXCEPT !.paths = {p}]
    <3>1. deed.alone = [facts EXCEPT !.paths = {p}]
      BY <2>1 DEF DeedOn
    <3>2. {p} \cap view.paths = {p}
      OBVIOUS
    <3>3. [[facts EXCEPT !.paths = {p}] EXCEPT !.paths = @ \cap view.paths]
            = [facts EXCEPT !.paths = {p} \cap view.paths]
      BY DEF IsFacts, Fields
    <3> QED
      BY <3>1, <3>2, <3>3
  <2> QED
    BY <1>3, <1>5, <2>1, <2>2, PathsLifted
<1>6. CASE facts.commands = {} /\ view.paths = {}
  <2> HIDE DEF j, zones
  <2>1. deed = DeedOfCall(facts) /\ one.paths = {}
    <3>1. deed = DeedOfCall(facts)
      BY <1>6 DEF Deeds
    <3>2. deed.alone = facts
      BY <3>1 DEF DeedOfCall
    <3>3. one = [facts EXCEPT !.paths = facts.paths \cap view.paths]
      BY <3>2
    <3> QED
      BY <1>6, <3>1, <3>3 DEF IsFacts, Fields
  <2>2. Covering(zones, deed, ctx) # {}
    BY <1>1, <1>3, <1>6, <2>1 DEF IsExcepted, Left
  <2>3. DOMAIN zones \subseteq Nat /\ Strict(zones)
    BY ZonesAre DEF zones
  <2>4. PICK k \in DOMAIN zones : Applies(zones[k], deed, ctx)
    BY <2>2, <2>3, CoveringIs
  <2>5. zones[k].area.lenient = FALSE
    BY <2>3 DEF Strict
  <2>6. /\ \/ IsNowhere(zones[k].area)
           \/ deed.at # UnknownDir /\ Placed(deed.at, zones[k].area)
        /\ ConditionHolds(zones[k], deed.alone, ctx)
    BY <2>4, <2>5, AppliesIs
  <2>7. Names(zones[k], rule, deed, one, ctx)
    BY <2>1, <2>6 DEF Names
  <2> QED
    BY <2>7 DEF SomeNames
<1> QED
  BY <1>4, <1>5, <1>6

-----------------------------------------------------------------------------
\* A condition of an exception is judged with the earlier calls where it
\* comes to them.
ConditionsKnown(rule, facts, ctx) ==
    LET zones == Zones(scenario.exceptions, rule, facts)
    IN  \A view \in View(facts, ctx.area, ctx, "yes") : \A deed \in Deeds(facts, view) :
        \A k \in DOMAIN zones :
            zones[k].when # NoCondition /\ Consults(zones[k].when, deed.alone, Inner(ctx))
                => ctx.past # NotRead

ConditionTrees ==
    \A i \in DOMAIN scenario.exceptions :
        scenario.exceptions[i].when = NoCondition \/ IsTree(scenario.exceptions[i].when)

\* _Session: a condition that is judged so says the same later.
LEMMA ConditionStays ==
    ASSUME NEW zone, zone.when = NoCondition \/ IsTree(zone.when), NEW alone, NEW c, NEW d,
           IsContext(c), IsContext(d), Alike(c, d), c.past # NotRead => d.past = c.past,
           zone.when # NoCondition /\ Consults(zone.when, alone, Inner(c)) => c.past # NotRead
    PROVE  /\ ConditionHolds(zone, alone, c) <=> ConditionHolds(zone, alone, d)
           /\ zone.when # NoCondition /\ Consults(zone.when, alone, Inner(d)) => d.past # NotRead
<1>1. /\ Alike(Inner(c), Inner(d)) /\ Alike(Inner(c), Inner(c))
      /\ Inner(c).area = NoArea /\ Inner(d).area = NoArea
      /\ Inner(c).past = c.past /\ Inner(d).past = d.past
  BY DEF Alike, Inner, IsContext
<1>2. CASE zone.when = NoCondition
  BY <1>2 DEF ConditionHolds
<1>3. CASE zone.when # NoCondition
  <2>1. \A facts, ctx, answer : ctx.area = NoArea =>
            View(facts, ctx.area, ctx, answer) = IF answer = "yes" THEN {facts} ELSE {}
    BY DEF View, IsNowhere, NoArea
  <2>2. c.past = d.past => PastViews(alone, Inner(c)) = PastViews(alone, Inner(d))
    <3> DEFINE of(calls) == UNION {{[time |-> calls[i].time, at |-> i, facts |-> view] :
                                     view \in {calls[i].facts}} : i \in DOMAIN calls}
    <3>1. ASSUME NEW ctx, ctx.area = NoArea
          PROVE  PastViews(alone, ctx) = IF alone.session = "" THEN {}
                                         ELSE UNION {of(calls) : calls \in ctx.past}
      <4> DEFINE sees(calls) ==
                   UNION {{[time |-> calls[i].time, at |-> i, facts |-> view] :
                             view \in View(calls[i].facts, ctx.area, ctx, "yes")} :
                          i \in DOMAIN calls}
      <4>1. \A calls : sees(calls) = of(calls)
        <5> DEFINE row(calls, i, views) == {[time |-> calls[i].time, at |-> i, facts |-> view] :
                                              view \in views}
        <5> SUFFICES ASSUME NEW calls
                     PROVE  UNION {row(calls, i, View(calls[i].facts, ctx.area, ctx, "yes")) :
                                     i \in DOMAIN calls}
                              = UNION {row(calls, i, {calls[i].facts}) : i \in DOMAIN calls}
          OBVIOUS
        <5>1. \A i : View(calls[i].facts, ctx.area, ctx, "yes") = {calls[i].facts}
          BY <2>1, <3>1
        <5> HIDE DEF row
        <5> QED
          BY <5>1
      <4>2. PastViews(alone, ctx) = IF alone.session = "" THEN {}
                                    ELSE UNION {sees(calls) : calls \in ctx.past}
        BY DEF PastViews
      <4> HIDE DEF sees, of
      <4> QED
        BY <4>1, <4>2
    <3> HIDE DEF of
    <3> QED
      BY <1>1, <3>1
  <2>3. Holds(zone.when, alone, Inner(c)) = Holds(zone.when, alone, Inner(d))
    BY <1>1, <1>3, <2>2, HoldsSame
  <2>4. Consults(zone.when, alone, Inner(c)) <=> Consults(zone.when, alone, Inner(d))
    BY <1>1, <1>3, ConsultsAlike
  <2> QED
    BY <1>3, <2>3, <2>4 DEF ConditionHolds
<1> QED
  BY <1>2, <1>3

\* What was lifted stays lifted, whatever is looked up and read later.
LEMMA LiftedStays ==
    ASSUME NEW rule, IsTree(rule.pred), Positive(rule), NEW facts, NEW c, NEW d,
           IsContext(c), IsContext(d), Alike(c, d), Extends(c, d),
           c.past # NotRead => d.past = c.past,
           PlacesOf(scenario.exceptions), ConditionTrees,
           ViewAsks(facts, c.area, c) = {}, ConditionsKnown(rule, facts, c),
           LiftsNoMore(rule, facts, c)
    PROVE  /\ ViewAsks(facts, d.area, d) = {} /\ ConditionsKnown(rule, facts, d)
           /\ LiftsNoMore(rule, facts, d)
<1> DEFINE zones == Zones(scenario.exceptions, rule, facts)
<1>1. /\ View(facts, d.area, d, "yes") = View(facts, c.area, c, "yes")
      /\ ViewAsks(facts, d.area, d) = {}
  <2>1. c.area = d.area
    BY DEF Extends
  <2> QED
    BY <2>1, ViewKnown, AsksFewer
<1>2. \A f : FiresOn(rule, f, c) <=> FiresOn(rule, f, d)
  <2> SUFFICES ASSUME NEW f PROVE Holds(rule.pred, f, c) = Holds(rule.pred, f, d)
    BY LeafIs
  <2>1. 1 \in DOMAIN rule.pred /\ ~Mentions(rule.pred, History)[1]
    BY LeafIs DEF IsTree
  <2> QED
    BY <2>1, UnmentionedSame DEF Holds
<1>3. \A k \in DOMAIN zones : zones[k].when = NoCondition \/ IsTree(zones[k].when)
  BY ZonesAre DEF ConditionTrees
<1> HIDE DEF zones
<1>4. ASSUME NEW view \in View(facts, c.area, c, "yes"), NEW deed \in Deeds(facts, view),
             NEW k \in DOMAIN zones
      PROVE  /\ ConditionHolds(zones[k], deed.alone, c)
                  <=> ConditionHolds(zones[k], deed.alone, d)
             /\ zones[k].when # NoCondition /\ Consults(zones[k].when, deed.alone, Inner(d))
                  => d.past # NotRead
  <2>1. zones[k].when # NoCondition /\ Consults(zones[k].when, deed.alone, Inner(c))
          => c.past # NotRead
    BY DEF ConditionsKnown, zones
  <2> QED
    BY <1>3, <2>1, ConditionStays
<1>5. ConditionsKnown(rule, facts, d)
  BY <1>1, <1>4 DEF ConditionsKnown, zones
<1>6. LiftsNoMore(rule, facts, d)
  <2> SUFFICES ASSUME NEW view \in View(facts, c.area, c, "yes"), NEW deed \in Deeds(facts, view),
                      NEW one, one = [deed.alone EXCEPT !.paths = @ \cap view.paths],
                      FiresOn(rule, one, d)
               PROVE  SomeNames(zones, rule, deed, one, d)
    BY <1>1 DEF LiftsNoMore, zones
  <2>1. SomeNames(zones, rule, deed, one, c)
    BY <1>2 DEF LiftsNoMore, zones
  <2>2. PICK k \in DOMAIN zones : Names(zones[k], rule, deed, one, c)
    BY <2>1 DEF SomeNames
  <2>3. Names(zones[k], rule, deed, one, d)
    BY <1>2, <1>4, <2>2 DEF Names
  <2> QED
    BY <2>3 DEF SomeNames
<1> QED
  BY <1>1, <1>5, <1>6

\* A rule that is dropped for an exception asked for all its conditions need.
LEMMA NoAsksConditions ==
    ASSUME NEW rule, NEW facts, IsFacts(facts), NEW ctx, IsContext(ctx),
           NextAsks(rule, facts, ctx) = {}, Verdict(Judgement(rule, facts, ctx)) = "excepted"
    PROVE  ViewAsks(facts, ctx.area, ctx) = {} /\ ConditionsKnown(rule, facts, ctx)
<1> DEFINE j == Judgement(rule, facts, ctx)
           zones == Zones(scenario.exceptions, rule, facts)
<1>1. /\ j.rule = rule /\ j.facts = facts /\ j.ctx = ctx /\ j.zones = zones
      /\ j.sure = View(facts, ctx.area, ctx, "yes")
  BY DEF Judgement
<1>2. ForTool(rule.tools, facts) /\ FiresGiven(rule, facts, ctx) /\ j.zones # <<>>
  <2>1. Verdict(j) = "excepted"
    OBVIOUS
  <2>2. ForTool(rule.tools, facts) /\ FiresGiven(rule, facts, ctx)
    BY VerdictIs
  <2> HIDE DEF j
  <2> QED
    BY <1>1, <2>1, <2>2 DEF Verdict
<1>3. ViewAsks(facts, ctx.area, ctx) = {}
  BY <1>2, NextAsksIs DEF RootsOf
<1>4. AsksOfRule(j, ConsultsIn(rule, facts, ctx)) = {}
  BY <1>2, <1>3, NextAsksIs
<1> HIDE DEF j, zones
<1>5. ASSUME NEW view \in j.sure, NEW deed \in Deeds(facts, view), NEW k \in DOMAIN zones,
             zones[k].when # NoCondition, Consults(zones[k].when, deed.alone, Inner(ctx))
      PROVE  ctx.past # NotRead
  <2>1. FiresOn(rule, view, ctx)
    BY <1>1, <1>2, ViewIs DEF FiresGiven
  <2> DEFINE deeds == Deeds(facts, view)
             places == UNION {CoveringAsks(j.zones, d, j.ctx) : d \in deeds}
  <2>2. ~ConsultsIn(rule, facts, ctx) \/ (ctx.past # NotRead /\ PastAsks(ctx) = {})
    BY <1>1, <1>4 DEF AsksOfRule, CallsFor, RootsOf
  <2>3. ctx.past # NotRead \/ AsksOfExceptions(j, view, deeds) = {}
    <3> SUFFICES ASSUME ~ConsultsIn(rule, facts, ctx)
                 PROVE  AsksOfExceptions(j, view, deeds) = {}
      BY <2>2
    <3>1. AsksOfExceptions(j, view, Deeds(j.facts, view)) \subseteq
              AsksOfRule(j, ConsultsIn(rule, facts, ctx))
      BY <1>1, <1>2, <2>1 DEF AsksOfRule
    <3> QED
      BY <1>1, <1>4, <3>1
  <2>4. ExceptionConsults(j, deeds)
    BY <1>1, <1>5 DEF ExceptionConsults
  <2> HIDE DEF deeds
  <2>5. ctx.past = NotRead => AsksOfExceptions(j, view, deeds) # {}
    <3> DEFINE last == UNION {IF paths # {} THEN RootsOf(paths) ELSE LastAsks(j, view) :
                                paths \in {PathAsks(j, view, deeds)}}
    <3>1. AsksOfExceptions(j, view, deeds)
            = IF places # {} THEN RootsOf(places)
              ELSE IF j.ctx.past = NotRead /\ ExceptionConsults(j, deeds)
              THEN CallsFor("exception") ELSE last
      BY DEF AsksOfExceptions
    <3>2. places # {} => RootsOf(places) # {}
      BY DEF RootsOf
    <3>3. CallsFor("exception") # {}
      BY DEF CallsFor
    <3> HIDE DEF places, last
    <3> QED
      BY <1>1, <2>4, <3>1, <3>2, <3>3
  <2> QED
    BY <2>3, <2>5
<1>6. ConditionsKnown(rule, facts, ctx)
  BY <1>1, <1>5 DEF ConditionsKnown, zones
<1> QED
  BY <1>3, <1>6

-----------------------------------------------------------------------------
\* What an exception dropped is what it names, by now.
LiftedAt(i) ==
    /\ ViewAsks(FactsAt(i), ContextAt(i).area, ContextAt(i)) = {}
    /\ ConditionsKnown(RuleAt(i), FactsAt(i), ContextAt(i))
    /\ LiftsNoMore(RuleAt(i), FactsAt(i), ContextAt(i))
    /\ Deferred(RuleAt(i)) => possible # {}

Lifted ==
    /\ proposed = Extract(scenario.call)
    /\ \A i \in Places \ todo :
          IdAt(i) \in excepted /\ Positive(RuleAt(i)) => LiftedAt(i)

\* The exceptions of a ledger have places and conditions.
LEMMA ExceptionsAre ==
    ASSUME Scene
    PROVE  PlacesOf(scenario.exceptions) /\ ConditionTrees
BY EngineAssumption DEF Scene, PlacesOf, ConditionTrees

\* Every step keeps that.
LEMMA LiftedNext ==
    ASSUME JudgeInv, Lifted, [Next]_vars
    PROVE  Lifted'
<1>0. LeavesAlone \/ AsksNext \/ Answers \/ Finishes \/ Decides
  BY StepKinds
<1>1. SameRules
  BY <1>0 DEF LeavesAlone, AsksNext, Answers, Finishes, Decides, SameRules
<1>2. /\ Places' = Places /\ scenario' = scenario /\ proposed' = proposed
      /\ \A i : RuleAt(i)' = RuleAt(i) /\ IdAt(i)' = IdAt(i) /\ FactsAt(i)' = FactsAt(i)
  BY <1>1, SceneStays DEF SameRules
<1>3. Scene /\ PlacesOf(scenario.exceptions) /\ ConditionTrees
  BY ExceptionsAre DEF JudgeInv
<1>4. possible \subseteq possible'
  BY <1>0 DEF LeavesAlone, AsksNext, Answers, Finishes, Decides, outcome, Adds
<1>5. ASSUME NEW i \in Places, Positive(RuleAt(i)), LiftedAt(i),
             i \notin todo \/ (Finishes /\ i = Turn)
      PROVE  LiftedAt(i)'
  <2> DEFINE rule == RuleAt(i)
             facts == FactsAt(i)
             c == ContextAt(i)
             d == ContextAt(i)'
  <2>1. /\ Alike(c, d) /\ Extends(c, d) /\ (c.past # NotRead => d.past = c.past)
        /\ IsContext(c) /\ IsContext(d)
    <3>1. Deferred(RuleAt(i)) => UnknownIsBan \/ possible # {}
      BY <1>5 DEF LiftedAt
    <3> QED
      BY <1>5, <3>1, StepExtends
  <2>2. IsTree(rule.pred) /\ Positive(rule)
    BY <1>3, <1>5, RulesAre
  <2>3. /\ ViewAsks(facts, c.area, c) = {} /\ ConditionsKnown(rule, facts, c)
        /\ LiftsNoMore(rule, facts, c)
    BY <1>5 DEF LiftedAt
  <2>4. Deferred(rule) => possible' # {}
    BY <1>4, <1>5 DEF LiftedAt
  <2> HIDE DEF rule, facts, c, d
  <2>5. /\ ViewAsks(facts, d.area, d) = {} /\ ConditionsKnown(rule, facts, d)
        /\ LiftsNoMore(rule, facts, d)
    BY <1>3, <2>1, <2>2, <2>3, LiftedStays
  <2>6. /\ ConditionsKnown(RuleAt(i), FactsAt(i), ContextAt(i))' <=> ConditionsKnown(rule, facts, d)
        /\ LiftsNoMore(RuleAt(i), FactsAt(i), ContextAt(i))' <=> LiftsNoMore(rule, facts, d)
    BY <1>2 DEF ConditionsKnown, LiftsNoMore, rule, facts, d
  <2> QED
    BY <1>2, <2>4, <2>5, <2>6 DEF LiftedAt, rule, facts, d
<1>6. ASSUME NEW i \in Places, i \notin todo', IdAt(i) \in excepted', Positive(RuleAt(i))
      PROVE  LiftedAt(i)'
  <2>1. CASE UNCHANGED <<todo, outcome>>
    <3>1. i \notin todo /\ LiftedAt(i)
      BY <1>6, <2>1 DEF Lifted, outcome
    <3> QED
      BY <1>5, <1>6, <3>1
  <2>2. CASE Finishes /\ i # Turn
    <3>1. Turn \in todo /\ Turn \in Places /\ todo' = todo \ {Turn}
      BY <2>2, AsksNowAre DEF Finishes
    <3>2. IdAt(i) # IdAt(Turn)
      BY <1>3, <2>2, <3>1, RulesAre
    <3>3. IdAt(i) \in excepted /\ i \notin todo
      BY <1>6, <2>2, <3>1, <3>2 DEF Finishes, Adds
    <3>4. LiftedAt(i)
      BY <1>6, <3>3 DEF Lifted
    <3> QED
      BY <1>5, <1>6, <3>3, <3>4
  <2>3. CASE Finishes /\ i = Turn
    <3> DEFINE verdict == Verdict(Judgement(RuleAt(Turn), FactsAt(Turn), ContextAt(Turn)))
    <3>1. Turn \in todo /\ Turn \in Places /\ IdAt(Turn) \notin excepted
      BY <2>3, AsksNowAre DEF Finishes, JudgeInv, Unspoken
    <3>2. asking = Ready /\ verdict = "excepted"
      BY <1>6, <2>3, <3>1 DEF Finishes, Adds
    <3>3. AsksNow = {} /\ IsContext(ContextAt(Turn)) /\ IsTree(RuleAt(Turn).pred)
      BY <1>3, <2>3, <3>1, <3>2, AsksNowAre, RulesAre DEF Finishes
    <3>4. IsFacts(FactsAt(Turn)) /\ OneEach(FactsAt(Turn))
      BY JudgedIs DEF FactsAt, Lifted
    <3>5. /\ ViewAsks(FactsAt(Turn), ContextAt(Turn).area, ContextAt(Turn)) = {}
          /\ ConditionsKnown(RuleAt(Turn), FactsAt(Turn), ContextAt(Turn))
      BY <3>2, <3>3, <3>4, NoAsksConditions DEF AsksNow
    <3>6. LiftsNoMore(RuleAt(Turn), FactsAt(Turn), ContextAt(Turn))
      BY <1>3, <1>6, <2>3, <3>2, <3>3, <3>4, ExceptedLiftsNoMore
    <3>7. Deferred(RuleAt(Turn)) => possible # {}
      <4> SUFFICES ASSUME Deferred(RuleAt(Turn)) PROVE possible # {}
        OBVIOUS
      <4>1. FiresGiven(RuleAt(Turn), FactsAt(Turn), ContextAt(Turn))
        BY <3>2, VerdictIs
      <4>2. RuleAt(Turn).obligation = FALSE
        BY <1>6, <2>3 DEF Positive
      <4>3. ContextAt(Turn).possible # {}
        BY <3>3, <4>1, <4>2, UnknownIs DEF FiresGiven
      <4> QED
        BY <4>3, ContextIs DEF ContextAt
    <3>8. LiftedAt(i)
      BY <2>3, <3>5, <3>6, <3>7 DEF LiftedAt
    <3> QED
      BY <1>5, <1>6, <2>3, <3>8
  <2> QED
    BY <1>0, <2>1, <2>2, <2>3 DEF LeavesAlone, AsksNext, Answers, Decides, outcome
<1> QED
  BY <1>2, <1>6 DEF Lifted

\* _excepted: an exception lifts no more than it names, at any time.
THEOREM LiftsWhatItNames == Spec => []LiftsOnlyCovered
<1>1. Init => Lifted
  BY DEF Init, Lifted, Places
<1>2. JudgeInv /\ Lifted /\ [Next]_vars => Lifted'
  BY LiftedNext
<1>3. JudgeInv /\ Lifted => LiftsOnlyCovered
  <2> SUFFICES ASSUME JudgeInv, Lifted, Decided, NEW r \in Rules, r.id \in excepted, Positive(r)
               PROVE  LiftsNoMore(r, Judged(r), Context(r, found, past))
    BY DEF LiftsOnlyCovered
  <2>1. PICK i \in Places : r = RuleAt(i)
    BY RulesAre DEF Rules, RuleAt, Places, ToSet, JudgeInv
  <2>2. LiftedAt(i)
    BY <2>1 DEF Lifted, JudgeInv, DecidedLast, IdAt
  <2> QED
    BY <2>1, <2>2 DEF LiftedAt, FactsAt, ContextAt
<1> QED
  BY <1>1, <1>2, <1>3, JudgesInTurn, PTL DEF Spec

-----------------------------------------------------------------------------
\* A ban of unknown directories was said as soon as it was judged, when a
\* rule might have applied.
PossibleIsSaid ==
    \A i \in Places \ todo, k \in Places :
        /\ BansUnknown(RuleAt(i)) /\ ~Deferred(RuleAt(k)) /\ IdAt(k) \in possible
        => IdAt(i) \in fired \cup excepted

\* A ban of unknown directories is judged on the whole call, and needs
\* nothing.
LEMMA BanIs ==
    ASSUME NEW rule, IsTree(rule.pred), BansUnknown(rule), NEW ctx,
           ctx.area = AreaOf(rule, Judged(rule))
    PROVE  /\ ~ConsultsIn(rule, Judged(rule), ctx) /\ ForTool(rule.tools, Judged(rule))
           /\ FiresGiven(rule, Judged(rule), ctx) <=> ctx.possible # {}
<1>1. IsNowhere(ctx.area)
  BY DEF BansUnknown, AreaOf, Area, IsNowhere
<1>2. View(Judged(rule), ctx.area, ctx, "yes") = {Judged(rule)}
  BY <1>1 DEF View
<1>3. \A view, c : ~Consults(rule.pred, view, c)
  <2> SUFFICES ASSUME NEW view, NEW c PROVE ~Consults(rule.pred, view, c)
    OBVIOUS
  <2>1. 1 \in DOMAIN rule.pred /\ rule.pred[1].kind = "unknown"
    BY DEF IsTree, BansUnknown, Deferred
  <2>2. Mentions(rule.pred, History)[1]
          = NodeMentions(rule.pred[1], History, Mentions(rule.pred, History))
    BY <2>1, MentionsIs
  <2>3. ~Mentions(rule.pred, History)[1]
    BY <2>1, <2>2 DEF NodeMentions, History
  <2>4. ~ConsultsAt(rule.pred, view, c)[1]
    BY <2>1, <2>3, UnmentionedNotConsulted
  <2> QED
    BY <2>4, ConsultsIs
<1>4. ~ConsultsIn(rule, Judged(rule), ctx)
  BY <1>3 DEF ConsultsIn
<1>5. FiresGiven(rule, Judged(rule), ctx) <=> ctx.possible # {}
  BY <1>2, UnknownIs DEF FiresGiven, BansUnknown
<1>6. ForTool(rule.tools, Judged(rule))
  BY DEF BansUnknown, ForTool, Judged, AtHome
<1> QED
  BY <1>4, <1>5, <1>6

\* Every step keeps that: bans of unknown directories are judged last.
LEMMA PossibleIsSaidNext ==
    ASSUME JudgeInv, PossibleIsSaid, [Next]_vars
    PROVE  PossibleIsSaid'
<1>0. LeavesAlone \/ AsksNext \/ Answers \/ Finishes \/ Decides
  BY StepKinds
<1>1. SameRules
  BY <1>0 DEF LeavesAlone, AsksNext, Answers, Finishes, Decides, SameRules
<1>2. /\ Places' = Places
      /\ \A i : RuleAt(i)' = RuleAt(i) /\ IdAt(i)' = IdAt(i)
      /\ \A i : BansUnknown(RuleAt(i))' <=> BansUnknown(RuleAt(i))
  <2>1. Places' = Places /\ \A i : RuleAt(i)' = RuleAt(i) /\ IdAt(i)' = IdAt(i)
    BY <1>1, SceneStays
  <2>2. proposed' = proposed
    BY <1>1 DEF SameRules
  <2>3. \A rule : BansUnknown(rule)' <=> BansUnknown(rule)
    BY <2>2 DEF BansUnknown
  <2> QED
    BY <2>1, <2>2 DEF BansUnknown
<1>3. ASSUME NEW i \in Places, i \notin todo', NEW k \in Places, BansUnknown(RuleAt(i)),
             ~Deferred(RuleAt(k)), IdAt(k) \in possible'
      PROVE  IdAt(i) \in fired' \cup excepted'
  <2>1. CASE UNCHANGED <<todo, outcome>>
    BY <1>3, <2>1 DEF PossibleIsSaid, outcome
  <2>2. CASE Finishes
    <3>1. Turn \in todo /\ Turn \in Places /\ todo' = todo \ {Turn}
      BY <2>2, AsksNowAre DEF Finishes
    <3>2. Deferred(RuleAt(i))
      BY <1>3 DEF BansUnknown
    <3>3. Deferred(RuleAt(Turn))
      <4>1. CASE i = Turn
        BY <3>2, <4>1
      <4>2. CASE i # Turn
        <5>1. i \in Places \ todo
          BY <1>3, <3>1, <4>2
        <5> QED
          BY <3>1, <3>2, <5>1 DEF JudgeInv, LastLast
      <4> QED
        BY <4>1, <4>2
    <3>4. IdAt(k) # IdAt(Turn)
      BY <1>3, <3>1, <3>3, RulesAre DEF JudgeInv
    <3>5. IdAt(k) \in possible
      BY <1>3, <2>2, <3>4 DEF Finishes, Adds
    <3>6. CASE i # Turn
      <4>1. IdAt(i) \in fired \cup excepted
        BY <1>3, <3>1, <3>5, <3>6 DEF PossibleIsSaid
      <4> QED
        BY <2>2, <4>1 DEF Finishes, Adds
    <3>7. CASE i = Turn
      <4> DEFINE verdict == Verdict(Judgement(RuleAt(Turn), FactsAt(Turn), ContextAt(Turn)))
      <4>1. IsTree(RuleAt(Turn).pred)
        BY <3>1, RulesAre DEF JudgeInv
      <4>2. ContextAt(Turn).area = AreaOf(RuleAt(Turn), Judged(RuleAt(Turn)))
            /\ ContextAt(Turn).possible = possible
        BY <3>3, ContextIs DEF ContextAt
      <4>3. /\ ~ConsultsIn(RuleAt(Turn), FactsAt(Turn), ContextAt(Turn))
            /\ ForTool(RuleAt(Turn).tools, FactsAt(Turn))
            /\ FiresGiven(RuleAt(Turn), FactsAt(Turn), ContextAt(Turn))
        BY <1>3, <3>5, <3>7, <4>1, <4>2, BanIs DEF FactsAt
      <4>4. asking.of # "rule"
        <5> SUFFICES ASSUME asking.of = "rule" PROVE FALSE
          OBVIOUS
        <5>1. asking \in AsksNow /\ IsContext(ContextAt(Turn))
          BY <2>2, AsksNowAre DEF Finishes
        <5> QED
          BY <4>3, <5>1, AsksAre DEF AsksNow
      <4>5. verdict \in {"fired", "excepted"}
        BY <4>3, VerdictIs
      <4> HIDE DEF verdict
      <4>6. CASE asking.of = "exception"
        BY <2>2, <3>7, <4>6 DEF Finishes, Ready
      <4>7. CASE asking = Ready
        <5>1. /\ Adds(fired, fired', IdAt(Turn), verdict = "fired")
              /\ Adds(excepted, excepted', IdAt(Turn), verdict = "excepted")
          BY <2>2, <4>7 DEF Finishes, Ready, verdict
        <5> QED
          BY <3>7, <4>5, <5>1 DEF Adds
      <4> QED
        BY <2>2, <4>4, <4>6, <4>7 DEF Finishes
    <3> QED
      BY <3>6, <3>7
  <2> QED
    BY <1>0, <2>1, <2>2 DEF LeavesAlone, AsksNext, Answers, Decides, outcome
<1> QED
  BY <1>2, <1>3 DEF PossibleIsSaid

\* _view: what is out of sight may lie in the scope of every rule, and when
\* the rule would fire on it, it may fire.
LEMMA UnseenMayFire ==
    ASSUME NEW rule, IsTree(rule.pred), IsFacts(proposed), NEW ctx,
           ctx.area.lenient = TRUE, ~IsNowhere(ctx.area),
           NEW unseen \in OutOfSight(proposed), FiresOn(rule, unseen, ctx),
           Positive(rule) \/ AllElsePlaced(ctx.area, ctx)
    PROVE  MayFireIn(rule, proposed, ctx)
<1> DEFINE here(x) == Here(x, proposed)
           cs == {c \in proposed.commands : here(c) = UnknownDir}
           ps == {p \in proposed.paths : here(p) = UnknownDir}
           open == {x \in proposed.commands \cup proposed.paths :
                       Inside(here(x), here(x), ctx.area, ctx) = "unsure"}
           more == proposed.commands \cap open
           further == proposed.paths \cap open
<1>1. proposed.commands # {} /\ cs \cup ps # {} /\ unseen = Parted(proposed, cs, ps)
  BY DEF OutOfSight, Part, Parted
<1>2. \A x : here(x) = UnknownDir => Inside(here(x), here(x), ctx.area, ctx) = "unsure"
  BY DEF Inside, Unknown
<1> HIDE DEF here
<1>3. cs \subseteq more /\ ps \subseteq further /\ more \cup further # {}
  BY <1>1, <1>2
<1>4. Parted(proposed, more, further) \in View(proposed, ctx.area, ctx, "unsure")
  <2>1. View(proposed, ctx.area, ctx, "unsure") = Part(proposed, more, further)
    BY <1>1 DEF View, Split, Among, here
  <2> HIDE DEF more, further
  <2> QED
    BY <1>3, <2>1 DEF Part, Parted
<1>5. FiresOn(rule, Parted(proposed, more, further), ctx)
  <2>1. CASE Positive(rule)
    <3> HIDE DEF cs, ps, more, further
    <3> QED
      BY <1>1, <1>3, <2>1, LeafGrows
  <2>2. CASE AllElsePlaced(ctx.area, ctx)
    <3>1. more = cs /\ further = ps
      BY <1>2, <2>2 DEF AllElsePlaced, here
    <3> HIDE DEF cs, ps, more, further
    <3> QED
      BY <1>1, <3>1
  <2> QED
    BY <2>1, <2>2
<1> QED
  BY <1>4, <1>5 DEF MayFireIn

\* judge: what a rule might forbid in an unknown directory is said, by the
\* rule or by the bans of unknown directories, unless the rule was excepted.
THEOREM UnknownNotPassed == Spec => []UnknownIsSaidUnlessExcepted
<1> DEFINE Facts == proposed = Extract(scenario.call)
<1>1. Init => PossibleIsSaid /\ Facts
  BY DEF Init, PossibleIsSaid, Places
<1>2. JudgeInv /\ PossibleIsSaid /\ Facts /\ [Next]_vars => PossibleIsSaid' /\ Facts'
  <2> SUFFICES ASSUME JudgeInv, PossibleIsSaid, Facts, [Next]_vars
               PROVE  PossibleIsSaid' /\ Facts'
    OBVIOUS
  <2>1. LeavesAlone \/ AsksNext \/ Answers \/ Finishes \/ Decides
    BY StepKinds
  <2>2. Facts'
    BY <2>1 DEF LeavesAlone, AsksNext, Answers, Finishes, Decides
  <2> QED
    BY <2>2, PossibleIsSaidNext
<1>3. JudgeInv /\ OneWorld /\ PossibleIsSaid /\ Facts => UnknownIsSaidUnlessExcepted
  <2> SUFFICES ASSUME JudgeInv, OneWorld, PossibleIsSaid, Facts, Decided,
                      NEW rule \in Rules, WouldFire(rule)
               PROVE  SaidOfUnknown(rule) \/ rule.id \in excepted
    BY DEF UnknownIsSaidUnlessExcepted
  <2>1. PICK i \in Places : rule = RuleAt(i)
    BY RulesAre DEF Rules, RuleAt, Places, ToSet, JudgeInv
  <2>2. /\ ~Deferred(rule) /\ FactsAt(i) = proposed /\ IdAt(i) \notin failures
        /\ ForTool(rule.tools, proposed) /\ IsTree(rule.pred)
    BY <2>1, RulesAre DEF WouldFire, FactsAt, IdAt, Judged, JudgeInv
  <2>3. SaidAsIs(i)
    BY <2>1, <2>2 DEF OneWorld, JudgeInv, DecidedLast
  <2>4. MayFireIn(rule, proposed, ContextAt(i))
    <3> DEFINE ctx == Context(rule, found, past)
    <3>1. PICK unseen \in OutOfSight(proposed) :
              FiresOn(rule, unseen, ctx) /\ (Positive(rule) \/ AllElsePlaced(ctx.area, ctx))
      BY DEF WouldFire
    <3>2. ctx.area = AreaOf(rule, proposed)
      BY <2>2, ContextIs DEF Judged
    <3>3. ctx.area.lenient = TRUE /\ ~IsNowhere(ctx.area)
      BY <3>2 DEF WouldFire, AreaOf, Area
    <3>4. IsFacts(proposed)
      BY ExtractIs
    <3>5. ctx = ContextAt(i)
      BY <2>1 DEF ContextAt
    <3> HIDE DEF ctx
    <3> QED
      BY <2>2, <3>1, <3>3, <3>4, <3>5, UnseenMayFire
  <2>5. CASE FiresGiven(rule, proposed, ContextAt(i))
    BY <2>1, <2>2, <2>3, <2>5 DEF SaidAsIs, SaidOfUnknown, IdAt
  <2>6. CASE ~FiresGiven(rule, proposed, ContextAt(i))
    <3>1. IdAt(i) \in possible
      BY <2>1, <2>2, <2>3, <2>4, <2>6 DEF SaidAsIs
    <3>2. ASSUME NEW r \in Rules, BansUnknown(r)
          PROVE  r.id \in fired \cup excepted
      <4>1. PICK k \in Places : r = RuleAt(k)
        BY RulesAre DEF Rules, RuleAt, Places, ToSet, JudgeInv
      <4> QED
        BY <2>1, <2>2, <3>1, <3>2, <4>1 DEF PossibleIsSaid, JudgeInv, DecidedLast, IdAt
    <3> QED
      BY <2>1, <3>1, <3>2 DEF SaidOfUnknown, IdAt
  <2> QED
    BY <2>5, <2>6
<1> QED
  BY <1>1, <1>2, <1>3, JudgesInTurn, JudgesInOneWorld, PTL DEF Spec

-----------------------------------------------------------------------------
\* Induction along a sequence.

\* What holds of 0, and of a number when of the one before, holds of all.
LEMMA Onwards ==
    ASSUME NEW n \in Nat, NEW S, 0 \in S, \A i \in 1..n : i - 1 \in S => i \in S
    PROVE  \A i \in 0..n : i \in S
<1> DEFINE Bad == {k \in Nat : k <= n /\ k \notin S}
<1>1. Bad = {}
  <2> SUFFICES ASSUME Bad # {} PROVE FALSE
    OBVIOUS
  <2>1. PICK k \in Bad : \A l \in Bad : k <= l
    <3>1. Bad \subseteq Nat
      OBVIOUS
    <3> HIDE DEF Bad
    <3> QED
      BY <3>1, LeastNumber
  <2>2. k \in 1..n /\ k \notin S /\ k - 1 \in Nat /\ k - 1 <= n /\ ~ (k <= k - 1)
    BY <2>1
  <2>3. k - 1 \in S
    BY <2>1, <2>2
  <2> QED
    BY <2>2, <2>3
<1> QED
  BY <1>1

\* A function that goes on from each value to the next.
IsChain(h, n, V, v, G) ==
    h \in [0..n -> V] /\ h[0] = v /\ \A i \in 1..n : h[i] = G[i][h[i - 1]]

\* There is one.
LEMMA ChainFunction ==
    ASSUME NEW n \in Nat, NEW V, NEW v \in V, NEW G \in [1..n -> [V -> V]]
    PROVE  \E h : IsChain(h, n, V, v, G)
<1> DEFINE Upto(k) == \E h \in [0..k -> V] : h[0] = v /\ \A i \in 1..k : h[i] = G[i][h[i - 1]]
           S == {k \in 0..n : Upto(k)}
<1>1. 0 \in S
  <2>1. [i \in 0..0 |-> v] \in [0..0 -> V]
    OBVIOUS
  <2>2. Upto(0)
    <3>1. [i \in 0..0 |-> v][0] = v /\ \A i \in 1..0 : FALSE
      OBVIOUS
    <3> QED
      BY <2>1, <3>1
  <2> HIDE DEF Upto
  <2> QED
    BY <2>2
<1>2. ASSUME NEW k \in 1..n, k - 1 \in S
      PROVE  k \in S
  <2>1. PICK h \in [0..k - 1 -> V] : h[0] = v /\ \A i \in 1..k - 1 : h[i] = G[i][h[i - 1]]
    BY <1>2
  <2> DEFINE more == [i \in 0..k |-> IF i = k THEN G[k][h[k - 1]] ELSE h[i]]
  <2>2. h[k - 1] \in V /\ G[k] \in [V -> V]
    BY <1>2
  <2>3. more \in [0..k -> V]
    BY <1>2, <2>1, <2>2
  <2>4. more[0] = v /\ \A i \in 1..k : more[i] = G[i][more[i - 1]]
    BY <1>2, <2>1
  <2>5. Upto(k)
    <3> HIDE DEF more
    <3> QED
      BY <2>3, <2>4
  <2> HIDE DEF Upto
  <2> QED
    BY <2>5
<1>3. n \in S
  <2> HIDE DEF S
  <2>1. \A i \in 1..n : i - 1 \in S => i \in S
    BY <1>2
  <2>2. \A i \in 0..n : i \in S
    BY <1>1, <2>1, Onwards
  <2> QED
    BY <2>2
<1> QED
  BY <1>3 DEF IsChain

-----------------------------------------------------------------------------
\* Sequences put together.

\* f holds what comes of the first sequences of s.
Chain(f, s, T) ==
    /\ f \in [0..Len(s) -> Seq(T)] /\ f[0] = <<>>
    /\ \A i \in 1..Len(s) : f[i] = f[i - 1] \o s[i]

LEMMA FlattenIs ==
    ASSUME NEW T, NEW s \in Seq(Seq(T))
    PROVE  \E f : Chain(f, s, T) /\ FlattenSeq(s) = f[Len(s)]
<1> DEFINE n == Len(s)
           G == [i \in 1..n |-> [x \in Seq(T) |-> x \o s[i]]]
           Is(g) == g = [i \in 1..n |-> IF i = 1 THEN s[i] ELSE g[i - 1] \o s[i]]
           chosen == CHOOSE g : Is(g)
<1>0. n \in Nat /\ <<>> \in Seq(T) /\ (\A i \in 1..n : s[i] \in Seq(T))
  OBVIOUS
<1>1. G \in [1..n -> [Seq(T) -> Seq(T)]]
  BY <1>0
<1>2. PICK h : IsChain(h, n, Seq(T), <<>>, G)
  <2> HIDE DEF n, G
  <2> QED
    BY <1>0, <1>1, ChainFunction
<1>3. \A i \in 1..n : h[i] = h[i - 1] \o s[i]
  <2> SUFFICES ASSUME NEW i \in 1..n PROVE h[i] = h[i - 1] \o s[i]
    OBVIOUS
  <2>1. h \in [0..n -> Seq(T)] /\ h[i] = G[i][h[i - 1]]
    BY <1>2 DEF IsChain
  <2>2. i - 1 \in 0..n
    BY <1>0
  <2>3. h[i - 1] \in Seq(T)
    BY <2>1, <2>2
  <2> QED
    BY <2>1, <2>3
<1>4. Chain(h, s, T)
  BY <1>2, <1>3 DEF Chain, IsChain
<1>5. CASE n = 0
  <2>1. FlattenSeq(s) = <<>>
    BY <1>5 DEF FlattenSeq
  <2> QED
    BY <1>4, <1>5, <2>1 DEF Chain
<1>6. CASE n # 0
  <2> DEFINE g0 == [i \in 1..n |-> h[i]]
  <2>1. h[1] = s[1]
    <3>1. 1 \in 1..n /\ 1 - 1 = 0
      BY <1>0, <1>6
    <3>2. h[1] = h[0] \o s[1] /\ s[1] \in Seq(T)
      <4> HIDE DEF n
      <4> QED
        BY <1>0, <1>3, <3>1
    <3> QED
      BY <1>2, <3>2 DEF IsChain
  <2>2. Is(g0)
    <3> SUFFICES ASSUME NEW i \in 1..n
                 PROVE  g0[i] = IF i = 1 THEN s[i] ELSE g0[i - 1] \o s[i]
      OBVIOUS
    <3>1. i # 1 => i - 1 \in 1..n
      BY <1>0
    <3> QED
      BY <1>3, <2>1, <3>1
  <2>3. Is(chosen)
    BY <2>2
  <2>4. FlattenSeq(s) = chosen[n]
    BY <1>6 DEF FlattenSeq
  <2> DEFINE S == {i \in 0..n : i = 0 \/ chosen[i] = h[i]}
  <2>5. ASSUME NEW i \in 1..n, i - 1 \in S
        PROVE  i \in S
    <3>1. chosen[i] = IF i = 1 THEN s[i] ELSE chosen[i - 1] \o s[i]
      <4> HIDE DEF chosen
      <4> QED
        BY <2>3
    <3>2. i # 1 => i - 1 # 0 /\ chosen[i - 1] = h[i - 1]
      BY <2>5
    <3>3. h[i] = h[i - 1] \o s[i]
      BY <1>3
    <3>4. i \in 0..n
      BY <1>0
    <3> QED
      BY <2>1, <3>1, <3>2, <3>3, <3>4
  <2>6. n \in S
    <3> HIDE DEF n, chosen
    <3>1. 0 \in S
      BY <1>0
    <3> HIDE DEF S
    <3>2. \A i \in 1..n : i - 1 \in S => i \in S
      BY <2>5
    <3>3. \A i \in 0..n : i \in S
      BY <1>0, <3>1, <3>2, Onwards
    <3> QED
      BY <1>0, <3>3
  <2> QED
    BY <1>0, <1>4, <1>6, <2>4, <2>6
<1> QED
  BY <1>5, <1>6

SameUpto(n, s, r) ==
    n \in 0..Len(s) /\ n \in 0..Len(r) /\ \A i \in 1..n : s[i] = r[i]

\* Two such functions agree where the sequences do.
LEMMA ChainsAgree ==
    ASSUME NEW T, NEW s, NEW r, Len(s) \in Nat, Len(r) \in Nat, NEW n, SameUpto(n, s, r),
           NEW f, NEW g, Chain(f, s, T), Chain(g, r, T)
    PROVE  f[n] = g[n]
<1>0. n \in Nat
  BY DEF SameUpto
<1> DEFINE S == {i \in 0..n : f[i] = g[i]}
<1>1. 0 \in S
  BY <1>0 DEF Chain
<1>2. ASSUME NEW i \in 1..n, i - 1 \in S
      PROVE  i \in S
  <2>1. i \in 1..Len(s) /\ i \in 1..Len(r) /\ s[i] = r[i] /\ i \in 0..n
    BY <1>0 DEF SameUpto
  <2>2. f[i] = f[i - 1] \o s[i] /\ g[i] = g[i - 1] \o r[i]
    BY <2>1 DEF Chain
  <2> QED
    BY <1>2, <2>1, <2>2
<1>3. n \in S
  <2> HIDE DEF S
  <2>1. \A i \in 1..n : i - 1 \in S => i \in S
    BY <1>2
  <2>2. \A i \in 0..n : i \in S
    BY <1>0, <1>1, <2>1, Onwards
  <2> QED
    BY <1>0, <2>2
<1> QED
  BY <1>3

LEMMA FlattenAppend ==
    ASSUME NEW T, NEW s \in Seq(Seq(T)), NEW x \in Seq(T)
    PROVE  /\ FlattenSeq(s) \in Seq(T)
           /\ FlattenSeq(Append(s, x)) = FlattenSeq(s) \o x
<1>1. PICK f : Chain(f, s, T) /\ FlattenSeq(s) = f[Len(s)]
  BY FlattenIs
<1>2. Append(s, x) \in Seq(Seq(T))
  OBVIOUS
<1>3. PICK g : Chain(g, Append(s, x), T) /\ FlattenSeq(Append(s, x)) = g[Len(Append(s, x))]
  BY <1>2, FlattenIs
<1> DEFINE n == Len(s)
           more == Append(s, x)
<1>4. n \in Nat /\ Len(more) = n + 1 /\ more[n + 1] = x /\ \A i \in 1..n : more[i] = s[i]
  OBVIOUS
<1>5. f[n] = g[n]
  <2> HIDE DEF n, more
  <2>1. Chain(f, s, T) /\ Chain(g, more, T) /\ Len(s) \in Nat /\ Len(more) \in Nat
    BY <1>1, <1>3, <1>4 DEF n, more
  <2>2. SameUpto(n, s, more)
    BY <1>4 DEF SameUpto, n
  <2> QED
    BY <2>1, <2>2, ChainsAgree
<1>6. g[n + 1] = g[n] \o x
  <2>1. n + 1 \in 1..Len(more) /\ (n + 1) - 1 = n
    BY <1>4
  <2> QED
    BY <1>3, <1>4, <2>1 DEF Chain
<1>7. f[n] \in Seq(T)
  BY <1>1, <1>4 DEF Chain
<1> QED
  BY <1>1, <1>3, <1>4, <1>5, <1>6, <1>7

-----------------------------------------------------------------------------
\* What is set in the place of variables that nothing sets.

Filled(word, value) == IF word \in Unset THEN value ELSE <<word>>

\* The paths with which that is done, word by word.
LEMMA SetToAppend ==
    ASSUME NEW words \in Seq(Words), NEW word \in Words, NEW value \in Seq(Words)
    PROVE  /\ SetTo(words, value) \in Seq(Words)
           /\ SetTo(Append(words, word), value) = SetTo(words, value) \o Filled(word, value)
<1> DEFINE all(ws) == [i \in DOMAIN ws |-> IF ws[i] \in Unset THEN value ELSE <<ws[i]>>]
           s == all(words)
           x == Filled(word, value)
           n == Len(words)
<1>1. /\ n \in Nat /\ DOMAIN words = 1..n /\ \A i \in 1..n : words[i] \in Words
      /\ Len(Append(words, word)) = n + 1 /\ DOMAIN Append(words, word) = 1..n + 1
      /\ Append(words, word)[n + 1] = word
      /\ \A i \in 1..n : Append(words, word)[i] = words[i]
  OBVIOUS
<1>2. x \in Seq(Words) /\ \A i \in 1..n : s[i] \in Seq(Words)
  BY <1>1 DEF Filled
<1>3. s \in [1..n -> Seq(Words)]
  BY <1>1, <1>2
<1>4. s \in Seq(Seq(Words)) /\ Len(s) = n
  BY <1>1, <1>3
<1>5. all(Append(words, word)) = Append(s, x)
  <2>1. all(Append(words, word)) = [i \in 1..n + 1 |-> IF i = n + 1 THEN x ELSE s[i]]
    BY <1>1 DEF Filled
  <2> HIDE DEF s, x, n, all
  <2> DEFINE t == [i \in 1..n + 1 |-> IF i = n + 1 THEN x ELSE s[i]]
             e == Append(s, x)
  <2>2. t \in Seq(Seq(Words)) /\ Len(t) = n + 1
        /\ \A i \in 1..n + 1 : t[i] = IF i = n + 1 THEN x ELSE s[i]
    BY <1>1, <1>2
  <2>3. /\ e \in Seq(Seq(Words)) /\ Len(e) = n + 1 /\ e[n + 1] = x
        /\ \A i \in 1..n : e[i] = s[i]
    BY <1>2, <1>4, AppendProperties
  <2> HIDE DEF t, e
  <2>4. e = t
    <3>1. \A i \in 1..n + 1 : e[i] = t[i]
      BY <1>1, <2>2, <2>3
    <3> QED
      BY <2>2, <2>3, <3>1, SeqEqual
  <2> QED
    BY <2>1, <2>4 DEF t, e
<1>6. SetTo(words, value) = FlattenSeq(s)
      /\ SetTo(Append(words, word), value) = FlattenSeq(all(Append(words, word)))
  BY DEF SetTo
<1> HIDE DEF s, x, all
<1>7. FlattenSeq(s) \in Seq(Words) /\ FlattenSeq(Append(s, x)) = FlattenSeq(s) \o x
  BY <1>2, <1>4, FlattenAppend
<1> QED
  BY <1>5, <1>6, <1>7 DEF x

LEMMA SetToIn ==
    ASSUME NEW words \in Seq(Words), NEW value \in Seq(Words)
    PROVE  SetTo(words, value) \in Seq(Words)
<1>1. CASE words = <<>>
  BY <1>1 DEF SetTo, FlattenSeq
<1>2. CASE words # <<>>
  <2>1. words[1] \in Words
    BY <1>2
  <2> QED
    BY <2>1, SetToAppend
<1> QED
  BY <1>1, <1>2

\* The first words of a path.
LEMMA Beginnings ==
    ASSUME NEW T, NEW s \in Seq(T)
    PROVE  /\ SubSeq(s, 1, 0) = <<>> /\ SubSeq(s, 1, Len(s)) = s
           /\ \A i \in 1..Len(s) :
                 /\ SubSeq(s, 1, i) = Append(SubSeq(s, 1, i - 1), s[i])
                 /\ SubSeq(s, 1, i - 1) \in Seq(T) /\ s[i] \in T
<1>1. SubSeq(s, 1, 0) = <<>> /\ SubSeq(s, 1, Len(s)) = s
  BY SubSeqEmpty, SubSeqFull
<1>2. ASSUME NEW i \in 1..Len(s)
      PROVE  /\ SubSeq(s, 1, i) = Append(SubSeq(s, 1, i - 1), s[i])
             /\ SubSeq(s, 1, i - 1) \in Seq(T) /\ s[i] \in T
  <2>1. s[i] \in T /\ Len(s) \in Nat /\ i \in Nat /\ \A j \in 1..i - 1 : s[j] \in T
    OBVIOUS
  <2>2. SubSeq(s, 1, i - 1) \in Seq(T)
    BY <2>1, SubSeqProperties
  <2>3. SubSeq(s, 1, i) = SubSeq(s, 1, i - 1) \o <<s[i]>>
    BY <2>1, SubSeqRecursiveSecond
  <2> QED
    BY <2>1, <2>2, <2>3, AppendIsConcat
<1> QED
  BY <1>1, <1>2

Regroups(a, b, c) == (a \o b) \o c = a \o (b \o c)

LEMMA ConcatConcat ==
    ASSUME NEW T, NEW a \in Seq(T), NEW b \in Seq(T), NEW c \in Seq(T)
    PROVE  Regroups(a, b, c)
BY DEF Regroups

\* What follows the first element.
Begins(T, x, s, rest) == s \in Seq(T) /\ s # <<>> /\ Head(s) = x /\ Tail(s) = rest

LEMMA BehindFirst ==
    ASSUME NEW T, NEW x \in T, NEW a \in Seq(T), NEW b \in Seq(T)
    PROVE  a \o b \in Seq(T) /\ Begins(T, x, <<x>> \o a, a) /\ Begins(T, x, (<<x>> \o a) \o b, a \o b)
<1>1. a \o b \in Seq(T) /\ <<x>> \in Seq(T)
  OBVIOUS
<1>2. \A c \in Seq(T) : Begins(T, x, <<x>> \o c, c)
  BY DEF Begins
<1>3. (<<x>> \o a) \o b = <<x>> \o (a \o b)
  BY <1>1, ConcatConcat DEF Regroups
<1> QED
  BY <1>1, <1>2, <1>3

\* One more element of the second part is one more of the whole.
LEMMA AppendLater ==
    ASSUME NEW T, NEW a \in Seq(T), NEW b \in Seq(T), NEW x \in T
    PROVE  a \o b \in Seq(T) /\ a \o Append(b, x) = Append(a \o b, x)
<1>1. a \o b \in Seq(T) /\ <<x>> \in Seq(T)
  OBVIOUS
<1>2. Append(a \o b, x) = (a \o b) \o <<x>> /\ Append(b, x) = b \o <<x>>
  BY <1>1, AppendIsConcat
<1>3. (a \o b) \o <<x>> = a \o (b \o <<x>>)
  BY <1>1, ConcatConcat DEF Regroups
<1> QED
  BY <1>1, <1>2, <1>3

LEMMA SetToConcat ==
    ASSUME NEW a \in Seq(Words), NEW b \in Seq(Words), NEW value \in Seq(Words)
    PROVE  SetTo(a \o b, value) = SetTo(a, value) \o SetTo(b, value)
<1> DEFINE some(i) == SubSeq(b, 1, i)
           Good(i) == SetTo(a \o some(i), value) = SetTo(a, value) \o SetTo(some(i), value)
           S == {i \in 0..Len(b) : Good(i)}
           n == Len(b)
<1>0. n \in Nat /\ SetTo(a, value) \in Seq(Words)
  BY SetToIn
<1>1. Good(0)
  <2>1. some(0) = <<>> /\ a \o some(0) = a /\ SetTo(<<>>, value) = <<>>
    BY Beginnings, ConcatEmptySeq DEF SetTo, FlattenSeq
  <2> QED
    BY <1>0, <2>1, ConcatEmptySeq
<1>3. ASSUME NEW i \in 1..n, Good(i - 1)
      PROVE  Good(i)
  <2> DEFINE x == Filled(b[i], value)
             c == some(i - 1)
             p == SetTo(a, value)
             q == SetTo(c, value)
  <2>1. some(i) = Append(c, b[i]) /\ c \in Seq(Words) /\ b[i] \in Words
    BY Beginnings
  <2>2. x \in Seq(Words) /\ p \in Seq(Words) /\ q \in Seq(Words)
    <3>1. x \in Seq(Words)
      BY <2>1 DEF Filled
    <3>2. q \in Seq(Words)
      <4> HIDE DEF c
      <4> QED
        BY <2>1, SetToIn
    <3> QED
      BY <1>0, <3>1, <3>2
  <2>3. a \o some(i) = Append(a \o c, b[i]) /\ a \o c \in Seq(Words)
    <3> HIDE DEF c, some
    <3> QED
      BY <2>1, AppendLater
  <2>4. SetTo(a \o some(i), value) = SetTo(a \o c, value) \o x /\ SetTo(some(i), value) = q \o x
    <3> HIDE DEF some, c, x
    <3>1. SetTo(Append(c, b[i]), value) = q \o x
      BY <2>1, SetToAppend DEF x
    <3>2. SetTo(Append(a \o c, b[i]), value) = SetTo(a \o c, value) \o x
      BY <2>1, <2>3, SetToAppend DEF x
    <3> QED
      BY <2>1, <2>3, <3>1, <3>2
  <2>5. SetTo(a \o c, value) = p \o q
    BY <1>3
  <2> HIDE DEF x, c, p, q, some
  <2>6. (p \o q) \o x = p \o (q \o x)
    <3> HIDE DEF Good, n
    <3>1. Regroups(p, q, x)
      BY <2>2, ConcatConcat
    <3> QED
      BY <3>1 DEF Regroups
  <2> QED
    BY <2>4, <2>5, <2>6 DEF p
<1>4. n \in S
  <2>1. \A i \in 1..n : i - 1 \in S => i \in S
    <3> HIDE DEF Good
    <3> QED
      BY <1>0, <1>3
  <2>2. 0 \in S
    <3> HIDE DEF Good
    <3> QED
      BY <1>0, <1>1
  <2> HIDE DEF S
  <2>3. \A i \in 0..n : i \in S
    BY <1>0, <2>1, <2>2, Onwards
  <2> QED
    BY <1>0, <2>3
<1> QED
  BY <1>4, Beginnings

-----------------------------------------------------------------------------
\* The segments of a path, taken one after the other.

\* A root, and behind it nothing that means the place it stands in.
Kept(root, s) ==
    /\ s \in Seq(Words) /\ Len(s) \in Nat \ {0} /\ s[1] = root
    /\ \A i \in 2..Len(s) : s[i] \notin {"/", "."}

LEMMA TakeIn ==
    ASSUME NEW s \in Seq(Words), NEW word \in Words
    PROVE  TakeSegment(s, word) \in Seq(Words)
<1>1. Append(s, word) \in Seq(Words)
  OBVIOUS
<1>2. Len(s) > 1 => Front(s) \in Seq(Words)
  <2>1. ASSUME Len(s) > 1
        PROVE  Front(s) \in Seq(Words)
    <3>1. Len(s) - 1 \in Int /\ \A i \in 1..Len(s) - 1 : s[i] \in Words
      BY <2>1
    <3> QED
      BY <3>1, SubSeqProperties DEF Front
  <2> QED
    BY <2>1
<1> QED
  BY <1>1, <1>2 DEF TakeSegment

LEMMA TakeKeeps ==
    ASSUME NEW root, NEW s, Kept(root, s), NEW word \in Words
    PROVE  Kept(root, TakeSegment(s, word))
<1> DEFINE n == Len(s)
<1>1. s \in Seq(Words) /\ n \in Nat \ {0} /\ s[1] = root
      /\ \A i \in 2..n : s[i] \notin {"/", "."}
  BY DEF Kept
<1>2. ASSUME word \notin {"/", "."}
      PROVE  Kept(root, Append(s, word))
  BY <1>1, <1>2, AppendProperties DEF Kept
<1>3. ASSUME n > 1
      PROVE  Kept(root, Front(s))
  <2>1. n - 1 \in Int /\ 1 <= n - 1 /\ \A i \in 1..n - 1 : s[i] \in Words
    BY <1>1, <1>3
  <2>2. Front(s) \in Seq(Words) /\ Len(Front(s)) = n - 1
        /\ \A i \in 1..n - 1 : Front(s)[i] = s[i]
    BY <2>1, SubSeqProperties DEF Front
  <2> QED
    BY <1>1, <1>3, <2>2 DEF Kept
<1> QED
  BY <1>2, <1>3 DEF TakeSegment

\* f holds what comes of the first words.
Steps(f, root, words) ==
    /\ f \in [0..Len(words) -> Seq(Words)] /\ f[0] = <<root>>
    /\ \A i \in 1..Len(words) : f[i] = TakeSegment(f[i - 1], words[i])

LEMMA SegmentsAre ==
    ASSUME NEW root \in Words, NEW words \in Seq(Words)
    PROVE  \E f : Steps(f, root, words) /\ Segments(root, words) = f[Len(words)]
<1> DEFINE n == Len(words)
           G == [i \in 1..n |-> [s \in Seq(Words) |-> TakeSegment(s, words[i])]]
           nth(g, k) == IF k = 0 THEN <<root>> ELSE TakeSegment(g[k - 1], words[k])
           Is(g) == g = [k \in 0..n |-> nth(g, k)]
           chosen == CHOOSE g : Is(g)
<1>0. n \in Nat /\ <<root>> \in Seq(Words) /\ \A i \in 1..n : words[i] \in Words
  OBVIOUS
<1>1. G \in [1..n -> [Seq(Words) -> Seq(Words)]]
  BY <1>0, TakeIn
<1>2. PICK h : IsChain(h, n, Seq(Words), <<root>>, G)
  <2> HIDE DEF n, G
  <2> QED
    BY <1>0, <1>1, ChainFunction
<1>3. h \in [0..n -> Seq(Words)] /\ h[0] = <<root>> /\ \A i \in 1..n : h[i] = G[i][h[i - 1]]
  BY <1>2 DEF IsChain
<1>4. \A i \in 1..n : h[i] = TakeSegment(h[i - 1], words[i])
  <2> SUFFICES ASSUME NEW i \in 1..n PROVE h[i] = TakeSegment(h[i - 1], words[i])
    OBVIOUS
  <2>1. i - 1 \in 0..n
    BY <1>0
  <2>2. h[i - 1] \in Seq(Words) /\ h[i] = G[i][h[i - 1]]
    BY <1>3, <2>1
  <2> QED
    BY <2>2
<1>5. Steps(h, root, words)
  BY <1>3, <1>4 DEF Steps
<1>6. Is(h)
  <2>1. \A k \in 0..n : h[k] = nth(h, k)
    BY <1>0, <1>3, <1>4
  <2> HIDE DEF nth, n
  <2> QED
    BY <1>3, <2>1
<1>7. Is(chosen)
  BY <1>6
<1>8. Segments(root, words) = chosen[n]
  BY DEF Segments
<1> DEFINE S == {i \in 0..n : chosen[i] = h[i]}
<1>9. \A k \in 0..n : chosen[k] = nth(chosen, k)
  <2> HIDE DEF chosen, nth, n
  <2> QED
    BY <1>7
<1>10. n \in S
  <2> HIDE DEF chosen
  <2>1. 0 \in S
    BY <1>0, <1>3, <1>9
  <2>2. \A i \in 1..n : i - 1 \in S => i \in S
    <3> SUFFICES ASSUME NEW i \in 1..n, i - 1 \in S PROVE i \in S
      OBVIOUS
    <3>1. i \in 0..n /\ i # 0 /\ chosen[i - 1] = h[i - 1]
      BY <1>0
    <3> QED
      BY <1>4, <1>9, <3>1
  <2> HIDE DEF S
  <2>3. \A i \in 0..n : i \in S
    BY <1>0, <2>1, <2>2, Onwards
  <2> QED
    BY <1>0, <2>3
<1> QED
  BY <1>5, <1>8, <1>10

LEMMA SegmentsNone ==
    ASSUME NEW root \in Words
    PROVE  Segments(root, <<>>) = <<root>>
<1>1. <<>> \in Seq(Words) /\ Len(<<>>) = 0
  OBVIOUS
<1>2. PICK f : Steps(f, root, <<>>) /\ Segments(root, <<>>) = f[Len(<<>>)]
  BY <1>1, SegmentsAre
<1> QED
  BY <1>1, <1>2 DEF Steps

\* What comes of words is kept, and of one more word what it makes of that.
LEMMA SegmentsAppend ==
    ASSUME NEW root \in Words, NEW words \in Seq(Words), NEW word \in Words
    PROVE  Segments(root, Append(words, word)) = TakeSegment(Segments(root, words), word)
<1> DEFINE n == Len(words)
           more == Append(words, word)
<1>1. PICK f : Steps(f, root, words) /\ Segments(root, words) = f[n]
  BY SegmentsAre
<1>2. /\ more \in Seq(Words) /\ n \in Nat /\ Len(more) = n + 1 /\ more[n + 1] = word
      /\ \A i \in 1..n : more[i] = words[i]
  BY AppendProperties
<1>3. PICK g : Steps(g, root, more) /\ Segments(root, more) = g[n + 1]
  <2> HIDE DEF more
  <2> QED
    BY <1>2, SegmentsAre
<1> DEFINE S == {i \in 0..n : f[i] = g[i]}
<1>4. n \in S
  <2> HIDE DEF more
  <2>1. 0 \in S
    <3>1. f[0] = <<root>> /\ g[0] = <<root>>
      BY <1>1, <1>3 DEF Steps
    <3>2. 0 \in 0..n
      BY <1>2
    <3> HIDE DEF n
    <3> QED
      BY <3>1, <3>2
  <2>2. \A i \in 1..n : i - 1 \in S => i \in S
    <3> SUFFICES ASSUME NEW i \in 1..n, i - 1 \in S PROVE i \in S
      OBVIOUS
    <3>1. i \in 0..n /\ i \in 1..Len(more) /\ f[i - 1] = g[i - 1]
      BY <1>2
    <3>2. f[i] = TakeSegment(f[i - 1], words[i]) /\ g[i] = TakeSegment(g[i - 1], more[i])
      BY <1>1, <1>3, <3>1 DEF Steps
    <3> QED
      BY <1>2, <3>1, <3>2
  <2> HIDE DEF S, n
  <2>3. \A i \in 0..n : i \in S
    BY <1>2, <2>1, <2>2, Onwards
  <2> QED
    BY <1>2, <2>3
<1>5. g[n + 1] = TakeSegment(g[n], word)
  <2>1. n + 1 \in 1..Len(more) /\ (n + 1) - 1 = n
    BY <1>2
  <2> HIDE DEF n, more
  <2> QED
    BY <1>2, <1>3, <2>1 DEF Steps
<1> QED
  BY <1>1, <1>3, <1>4, <1>5

LEMMA SegmentsKept ==
    ASSUME NEW root \in Words, NEW words \in Seq(Words)
    PROVE  Kept(root, Segments(root, words))
<1> DEFINE n == Len(words)
<1>0. n \in Nat /\ \A i \in 1..n : words[i] \in Words
  OBVIOUS
<1>1. PICK f : Steps(f, root, words) /\ Segments(root, words) = f[n]
  BY SegmentsAre
<1> DEFINE S == {i \in 0..n : Kept(root, f[i])}
<1>2. n \in S
  <2>1. 0 \in S
    <3>1. Kept(root, <<root>>)
      BY DEF Kept
    <3> QED
      BY <1>0, <1>1, <3>1 DEF Steps
  <2>2. \A i \in 1..n : i - 1 \in S => i \in S
    <3> SUFFICES ASSUME NEW i \in 1..n, i - 1 \in S PROVE i \in S
      OBVIOUS
    <3>1. i \in 0..n /\ Kept(root, f[i - 1]) /\ f[i] = TakeSegment(f[i - 1], words[i])
      BY <1>0, <1>1 DEF Steps
    <3> QED
      BY <1>0, <3>1, TakeKeeps
  <2> HIDE DEF S, n
  <2>3. \A i \in 0..n : i \in S
    BY <1>0, <2>1, <2>2, Onwards
  <2> QED
    BY <1>0, <2>3
<1> QED
  BY <1>1, <1>2

\* What comes of more words depends on what came of the first ones only.
LEMMA SegmentsSame ==
    ASSUME NEW root \in Words, NEW a \in Seq(Words), NEW c \in Seq(Words), NEW b \in Seq(Words),
           Segments(root, a) = Segments(root, c)
    PROVE  Segments(root, a \o b) = Segments(root, c \o b)
<1> DEFINE n == Len(b)
           some(i) == SubSeq(b, 1, i)
           S == {i \in 0..n : Segments(root, a \o some(i)) = Segments(root, c \o some(i))}
<1>0. n \in Nat
  OBVIOUS
<1>1. 0 \in S
  <2>1. some(0) = <<>> /\ a \o <<>> = a /\ c \o <<>> = c /\ 0 \in 0..n
    BY <1>0, Beginnings, ConcatEmptySeq
  <2> HIDE DEF some
  <2> QED
    BY <2>1
<1>2. \A i \in 1..n : i - 1 \in S => i \in S
  <2> SUFFICES ASSUME NEW i \in 1..n, i - 1 \in S PROVE i \in S
    OBVIOUS
  <2>1. some(i) = Append(some(i - 1), b[i]) /\ some(i - 1) \in Seq(Words) /\ b[i] \in Words
    BY Beginnings
  <2>2. Segments(root, a \o some(i - 1)) = Segments(root, c \o some(i - 1)) /\ i \in 0..n
    BY <1>0
  <2> HIDE DEF some
  <2>3. /\ a \o some(i - 1) \in Seq(Words) /\ c \o some(i - 1) \in Seq(Words)
        /\ a \o some(i) = Append(a \o some(i - 1), b[i])
        /\ c \o some(i) = Append(c \o some(i - 1), b[i])
    <3> DEFINE before == some(i - 1)
    <3> HIDE DEF before
    <3>1. some(i) = Append(before, b[i]) /\ before \in Seq(Words) /\ b[i] \in Words
      BY <2>1 DEF before
    <3>2. a \o before \in Seq(Words) /\ a \o Append(before, b[i]) = Append(a \o before, b[i])
      BY <3>1, AppendLater
    <3>3. c \o before \in Seq(Words) /\ c \o Append(before, b[i]) = Append(c \o before, b[i])
      BY <3>1, AppendLater
    <3> QED
      BY <3>1, <3>2, <3>3 DEF before
  <2> DEFINE p == a \o some(i - 1)
             q == c \o some(i - 1)
  <2>4. /\ Segments(root, a \o some(i)) = TakeSegment(Segments(root, a \o some(i - 1)), b[i])
        /\ Segments(root, c \o some(i)) = TakeSegment(Segments(root, c \o some(i - 1)), b[i])
    <3> HIDE DEF p, q
    <3>1. /\ Segments(root, Append(p, b[i])) = TakeSegment(Segments(root, p), b[i])
          /\ Segments(root, Append(q, b[i])) = TakeSegment(Segments(root, q), b[i])
      BY <2>1, <2>3, SegmentsAppend DEF p, q
    <3> QED
      BY <2>3, <3>1 DEF p, q
  <2> QED
    BY <2>2, <2>4 DEF some
<1>3. n \in S
  <2> HIDE DEF S, n
  <2>1. \A i \in 0..n : i \in S
    BY <1>0, <1>1, <1>2, Onwards
  <2> QED
    BY <1>0, <2>1
<1> QED
  BY <1>3, Beginnings

-----------------------------------------------------------------------------
\* Setting a variable before or after the path is normalised.

SetEither(root, words, value) ==
    Segments(root, SetTo(Tail(Segments(root, words)), value)) = Segments(root, SetTo(words, value))

\* One word more: it stays, or takes away a name that is no variable.
LEMMA SetEitherOn ==
    ASSUME NEW root \in Words, NEW words \in Seq(Words), NEW word \in Words,
           NEW value \in Seq(Words), SetEither(root, words, value)
    PROVE  SetEither(root, Append(words, word), value)
<1> DEFINE s == Segments(root, words)
           u == Segments(root, Append(words, word))
           x == Filled(word, value)
           set(ws) == SetTo(ws, value)
           z == Segments(root, set(words))
           n == Len(s)
<1>1. Kept(root, s) /\ u = TakeSegment(s, word)
  BY SegmentsKept, SegmentsAppend
<1>2. /\ s \in Seq(Words) /\ s # <<>> /\ n \in Nat \ {0} /\ s[1] = root
      /\ \A i \in 2..n : s[i] \notin {"/", "."}
      /\ Tail(s) \in Seq(Words)
  <2>1. s \in Seq(Words) /\ n \in Nat \ {0} /\ s[1] = root /\ \A i \in 2..n : s[i] \notin {"/", "."}
    BY <1>1 DEF Kept
  <2> QED
    BY <2>1
<1>3. x \in Seq(Words) /\ set(words) \in Seq(Words) /\ set(Tail(s)) \in Seq(Words)
      /\ set(Append(words, word)) = set(words) \o x
  <2> HIDE DEF s
  <2>1. x \in Seq(Words)
    BY DEF Filled
  <2>2. set(words) \in Seq(Words) /\ set(Tail(s)) \in Seq(Words)
    BY <1>2, SetToIn
  <2> QED
    BY <2>1, <2>2, SetToAppend
<1>4. Segments(root, set(Tail(s))) = z
  BY DEF SetEither
<1>5. CASE u = Append(s, word)
  <2> HIDE DEF s, u, x, z
  <2>1. Tail(u) = Append(Tail(s), word)
    BY <1>2, <1>5, HeadTailAppend
  <2>2. set(Tail(u)) = set(Tail(s)) \o x
    <3>1. SetTo(Append(Tail(s), word), value) = SetTo(Tail(s), value) \o Filled(word, value)
      BY <1>2, SetToAppend
    <3> QED
      BY <2>1, <3>1 DEF x
  <2>3. Segments(root, set(Tail(s)) \o x) = Segments(root, set(words) \o x)
    BY <1>3, <1>4, SegmentsSame DEF z
  <2> QED
    BY <1>3, <2>2, <2>3 DEF SetEither, u
<1>6. CASE word = ".." /\ n > 1 /\ u = Front(s) /\ Last(s) # ".." /\ ~Open(Last(s))
  <2> DEFINE y == Segments(root, set(Tail(u)))
             a == s[n]
  <2>1. a \in Words /\ a \notin {"/", ".", ".."} /\ ~Open(a)
    BY <1>2, <1>6 DEF Last
  <2>2. u \in Seq(Words) /\ u # <<>> /\ s = Append(u, a)
    <3>1. n - 1 \in Int /\ 1 <= n - 1 /\ \A i \in 1..n - 1 : s[i] \in Words
      BY <1>2, <1>6
    <3>2. u \in Seq(Words) /\ Len(u) = n - 1 /\ \A i \in 1..n - 1 : u[i] = s[i]
      <4> HIDE DEF s, u
      <4>1. Front(s) \in Seq(Words) /\ Len(Front(s)) = n - 1
            /\ \A i \in 1..n - 1 : Front(s)[i] = s[i]
        BY <3>1, SubSeqProperties DEF Front
      <4> QED
        BY <1>6, <4>1
    <3>3. /\ Append(u, a) \in Seq(Words) /\ Len(Append(u, a)) = n
          /\ \A i \in 1..n : Append(u, a)[i] = s[i]
      <4> HIDE DEF u, a, s
      <4>1. /\ Append(u, a) \in Seq(Words) /\ Len(Append(u, a)) = n - 1 + 1
            /\ Append(u, a)[n - 1 + 1] = a /\ \A i \in 1..n - 1 : Append(u, a)[i] = u[i]
        BY <2>1, <3>2, AppendProperties
      <4>2. a = s[n] /\ n - 1 + 1 = n /\ \A i \in 1..n : i = n \/ i \in 1..n - 1
        BY <1>2 DEF a
      <4> QED
        BY <3>2, <4>1, <4>2
    <3> QED
      <4> HIDE DEF u, a, s
      <4> QED
        BY <1>2, <1>6, <3>2, <3>3, SeqEqual
  <2> HIDE DEF s, u, x, z, a
  <2>3. Tail(s) = Append(Tail(u), a) /\ Tail(u) \in Seq(Words)
    BY <2>2, HeadTailAppend
  <2>4. set(Tail(u)) \in Seq(Words) /\ set(Tail(s)) = set(Tail(u)) \o <<a>>
    BY <2>1, <2>3, SetToAppend DEF Filled, Open
  <2>5. Kept(root, y)
    BY <2>4, SegmentsKept
  <2>6. z = TakeSegment(y, a)
    <3>1. set(Tail(u)) \o <<a>> = Append(set(Tail(u)), a)
      BY <2>1, <2>4, AppendIsConcat
    <3>2. Segments(root, Append(set(Tail(u)), a)) = TakeSegment(y, a)
      BY <2>1, <2>4, SegmentsAppend
    <3> QED
      BY <1>4, <2>4, <3>1, <3>2
  <2>7. z = Append(y, a)
    BY <2>1, <2>6 DEF TakeSegment
  <2>8. x = <<"..">>
    BY PathsAssumption, <1>6 DEF x, Filled
  <2>9. Segments(root, set(words) \o x) = TakeSegment(z, "..")
    <3>1. ".." \in Words
      BY <1>6
    <3>2. set(words) \o <<"..">> = Append(set(words), "..")
      BY <1>3, <3>1, AppendIsConcat
    <3>3. Segments(root, Append(set(words), "..")) = TakeSegment(Segments(root, set(words)), "..")
      <4> HIDE DEF set
      <4> QED
        BY <1>3, <3>1, SegmentsAppend
    <3> QED
      BY <2>8, <3>2, <3>3 DEF z
  <2>10. TakeSegment(z, "..") = y
    <3>1. y \in Seq(Words) /\ Len(y) \in Nat \ {0}
      BY <2>5 DEF Kept
    <3> HIDE DEF y
    <3>2. Len(z) > 1 /\ Last(z) = a /\ Front(z) = y
      <4>1. /\ z \in Seq(Words) /\ Len(z) = Len(y) + 1 /\ z[Len(z)] = a
            /\ \A i \in 1..Len(y) : z[i] = y[i]
        BY <2>1, <2>7, <3>1, AppendProperties
      <4>2. \A i \in 1..Len(y) : z[i] \in Words
        BY <3>1, <4>1
      <4>3. Front(z) \in Seq(Words) /\ Len(Front(z)) = Len(y)
            /\ \A i \in 1..Len(y) : Front(z)[i] = y[i]
        BY <3>1, <4>1, <4>2, SubSeqProperties DEF Front
      <4>4. Front(z) = y
        BY <3>1, <4>3, SeqEqual
      <4> QED
        BY <3>1, <4>1, <4>4 DEF Last
    <3> QED
      BY <2>1, <3>2 DEF TakeSegment
  <2> QED
    BY <1>3, <2>9, <2>10 DEF SetEither, u
<1>7. CASE u = s /\ (word \in {"/", "."} \/ (word = ".." /\ n = 1))
  <2>1. x = <<word>>
    BY PathsAssumption, <1>7 DEF Filled
  <2>2. Segments(root, set(words) \o x) = TakeSegment(z, word)
    <3>1. set(words) \o <<word>> = Append(set(words), word)
      BY <1>3, AppendIsConcat
    <3>2. Segments(root, Append(set(words), word)) = TakeSegment(Segments(root, set(words)), word)
      <4> HIDE DEF set
      <4> QED
        BY <1>3, SegmentsAppend
    <3> QED
      BY <2>1, <3>1, <3>2
  <2>3. TakeSegment(z, word) = z
    <3>1. CASE word \in {"/", "."}
      BY <3>1 DEF TakeSegment
    <3>2. CASE word = ".." /\ n = 1
      <4>1. Tail(s) = <<>>
        <5> HIDE DEF s
        <5>1. Len(Tail(s)) = 0
          BY <1>2, <3>2, HeadTailProperties
        <5> QED
          BY <1>2, <5>1, EmptySeq
      <4>2. SetTo(<<>>, value) = <<>>
        BY DEF SetTo, FlattenSeq
      <4>3. z = Segments(root, <<>>)
        <5> HIDE DEF s, z
        <5> QED
          BY <1>4, <4>1, <4>2
      <4>5. Len(z) = 1
        BY <4>3, SegmentsNone
      <4> QED
        BY <3>2, <4>5 DEF TakeSegment
    <3> QED
      BY <1>7, <3>1, <3>2
  <2> QED
    BY <1>3, <1>4, <1>7, <2>2, <2>3 DEF SetEither
<1>8. \/ u = Append(s, word)
      \/ word = ".." /\ n > 1 /\ u = Front(s) /\ Last(s) # ".." /\ ~Open(Last(s))
      \/ u = s /\ (word \in {"/", "."} \/ (word = ".." /\ n = 1))
  <2> DEFINE stays == n > 1 /\ (Last(s) = ".." \/ Open(Last(s)))
  <2>1. CASE word \notin {"/", ".", ".."} \/ (word = ".." /\ stays)
    BY <1>1, <2>1 DEF TakeSegment
  <2>2. CASE word = ".." /\ n > 1 /\ ~stays
    BY <1>1, <2>2 DEF TakeSegment
  <2>3. CASE word \in {"/", "."} \/ (word = ".." /\ ~(n > 1))
    <3>1. u = s
      BY <1>1, <2>3 DEF TakeSegment
    <3>2. ~(n > 1) => n = 1
      <4>1. n \in Nat \ {0}
        BY <1>2
      <4> HIDE DEF n
      <4> QED
        BY <4>1
    <3> QED
      BY <2>3, <3>1, <3>2
  <2> QED
    BY <2>1, <2>2, <2>3
<1> QED
  BY <1>5, <1>6, <1>7, <1>8

LEMMA SetEitherAll ==
    ASSUME NEW root \in Words, NEW words \in Seq(Words), NEW value \in Seq(Words)
    PROVE  SetEither(root, words, value)
<1> DEFINE n == Len(words)
           some(i) == SubSeq(words, 1, i)
           S == {i \in 0..n : SetEither(root, some(i), value)}
<1>0. n \in Nat
  OBVIOUS
<1>1. 0 \in S
  <2>2. Segments(root, <<>>) = <<root>>
    BY SegmentsNone
  <2>3. Tail(<<root>>) = <<>> /\ SetTo(<<>>, value) = <<>>
    BY DEF SetTo, FlattenSeq
  <2>4. some(0) = <<>> /\ 0 \in 0..n
    BY <1>0, Beginnings
  <2> HIDE DEF some
  <2> QED
    BY <2>2, <2>3, <2>4 DEF SetEither
<1>2. \A i \in 1..n : i - 1 \in S => i \in S
  <2> SUFFICES ASSUME NEW i \in 1..n, i - 1 \in S PROVE i \in S
    OBVIOUS
  <2>1. some(i) = Append(some(i - 1), words[i]) /\ some(i - 1) \in Seq(Words) /\ words[i] \in Words
    BY Beginnings
  <2>2. SetEither(root, some(i - 1), value) /\ i \in 0..n
    BY <1>0
  <2> HIDE DEF some
  <2>3. SetEither(root, Append(some(i - 1), words[i]), value)
    BY <2>1, <2>2, SetEitherOn
  <2> QED
    BY <2>1, <2>2, <2>3
<1>3. n \in S
  <2> HIDE DEF S, n
  <2>1. \A i \in 0..n : i \in S
    BY <1>0, <1>1, <1>2, Onwards
  <2> QED
    BY <1>0, <2>1
<1> QED
  BY <1>3, Beginnings

-----------------------------------------------------------------------------
\* What the words of a path become.

\* The values of the variables that may come up.
IsValues(variables, T) == \A name \in DOMAIN variables \cap T : variables[name] \in Seq(T)

LEMMA ExpandOnceIn ==
    ASSUME NEW T, NEW words \in Seq(T), NEW variables, IsValues(variables, T)
    PROVE  ExpandOnce(words, variables) \in Seq(T)
<1> DEFINE s == [i \in DOMAIN words |->
                    IF words[i] \in DOMAIN variables THEN variables[words[i]] ELSE <<words[i]>>]
<1>1. Len(words) \in Nat /\ DOMAIN words = 1..Len(words)
      /\ \A i \in 1..Len(words) : words[i] \in T
  OBVIOUS
<1>2. \A i \in 1..Len(words) : s[i] \in Seq(T)
  BY <1>1 DEF IsValues
<1>3. s \in [1..Len(words) -> Seq(T)]
  BY <1>1, <1>2
<1>4. s \in Seq(Seq(T)) /\ <<>> \in Seq(T)
  BY <1>1, <1>3
<1>5. ExpandOnce(words, variables) = FlattenSeq(s)
  BY DEF ExpandOnce
<1> HIDE DEF s
<1> QED
  BY <1>4, <1>5, FlattenAppend

LEMMA ExpandIn ==
    ASSUME NEW T, NEW words \in Seq(T), NEW variables, IsValues(variables, T)
    PROVE  ExpandVariables(words, variables) \in Seq(T)
<1> DEFINE m == MaxExpansions
           G == [i \in 1..m |-> [x \in Seq(T) |-> ExpandOnce(x, variables)]]
           nth(g, k) == IF k = 0 THEN words ELSE ExpandOnce(g[k - 1], variables)
           Is(g) == g = [k \in 0..m |-> nth(g, k)]
           chosen == CHOOSE g : Is(g)
<1>0. m \in Nat
  BY DEF MaxExpansions
<1>1. G \in [1..m -> [Seq(T) -> Seq(T)]]
  BY ExpandOnceIn
<1>2. PICK h : IsChain(h, m, Seq(T), words, G)
  <2> HIDE DEF m, G
  <2> QED
    BY <1>0, <1>1, ChainFunction
<1>3. h \in [0..m -> Seq(T)] /\ h[0] = words /\ \A i \in 1..m : h[i] = G[i][h[i - 1]]
  BY <1>2 DEF IsChain
<1>4. \A i \in 1..m : h[i] = ExpandOnce(h[i - 1], variables)
  <2> SUFFICES ASSUME NEW i \in 1..m PROVE h[i] = ExpandOnce(h[i - 1], variables)
    OBVIOUS
  <2>1. i - 1 \in 0..m
    BY <1>0
  <2> HIDE DEF m
  <2>2. h[i - 1] \in Seq(T) /\ h[i] = G[i][h[i - 1]]
    BY <1>3, <2>1
  <2> QED
    BY <2>2
<1>6. Is(h)
  <2> HIDE DEF m
  <2>1. \A k \in 0..m : h[k] = nth(h, k)
    BY <1>0, <1>3, <1>4
  <2> HIDE DEF nth
  <2> QED
    BY <1>3, <2>1
<1>7. Is(chosen)
  BY <1>6
<1>8. ExpandVariables(words, variables) = chosen[m]
  BY DEF ExpandVariables
<1> DEFINE S == {i \in 0..m : chosen[i] = h[i]}
<1>9. \A k \in 0..m : chosen[k] = nth(chosen, k)
  <2> HIDE DEF chosen, nth, m
  <2> QED
    BY <1>7
<1>10. m \in S
  <2> HIDE DEF chosen, m
  <2>1. 0 \in S
    BY <1>0, <1>3, <1>9
  <2>2. \A i \in 1..m : i - 1 \in S => i \in S
    <3> SUFFICES ASSUME NEW i \in 1..m, i - 1 \in S PROVE i \in S
      OBVIOUS
    <3>1. i \in 0..m /\ i # 0 /\ chosen[i - 1] = h[i - 1]
      BY <1>0
    <3> QED
      BY <1>4, <1>9, <3>1
  <2> HIDE DEF S
  <2>3. \A i \in 0..m : i \in S
    BY <1>0, <2>1, <2>2, Onwards
  <2> QED
    BY <1>0, <2>3
<1> HIDE DEF m, chosen
<1> QED
  BY <1>0, <1>3, <1>8, <1>10

LEMMA WrittenIn ==
    ASSUME NEW T, NEW words \in Seq(T), NEW variables, IsValues(variables, T), NEW home \in Seq(T)
    PROVE  Written(words, variables, home) \in Seq(T)
<1> DEFINE text == ExpandVariables(words, variables)
<1>1. text \in Seq(T)
  BY ExpandIn
<1> HIDE DEF text
<1>2. text # <<>> => Tail(text) \in Seq(T) /\ home \o Tail(text) \in Seq(T)
  BY <1>1
<1> QED
  BY <1>1, <1>2 DEF Written, text

-----------------------------------------------------------------------------
\* Where a variable is set.

LEMMA SetToOne ==
    ASSUME NEW word \in Words, NEW value \in Seq(Words)
    PROVE  SetTo(<<word>>, value) = Filled(word, value)
<1>1. <<>> \in Seq(Words) /\ Append(<<>>, word) = <<word>> /\ Filled(word, value) \in Seq(Words)
  BY DEF Filled
<1>2. SetTo(<<>>, value) = <<>>
  BY DEF SetTo, FlattenSeq
<1>3. SetTo(Append(<<>>, word), value) = SetTo(<<>>, value) \o Filled(word, value)
  BY <1>1, SetToAppend
<1> QED
  BY <1>1, <1>2, <1>3, ConcatEmptySeq

LEMMA HeadTailConcat ==
    ASSUME NEW T, NEW s \in Seq(T), s # <<>>
    PROVE  /\ s = <<Head(s)>> \o Tail(s) /\ Head(s) \in T /\ Tail(s) \in Seq(T)
           /\ Head(s) = s[1] /\ DOMAIN s = 1..Len(s) /\ Len(s) \in Nat \ {0}
           /\ Len(Tail(s)) = Len(s) - 1
           /\ \A i \in 1..Len(Tail(s)) : Tail(s)[i] = s[i + 1]
BY HeadTailProperties

LEMMA SetToHead ==
    ASSUME NEW words \in Seq(Words), words # <<>>, NEW value \in Seq(Words)
    PROVE  SetTo(words, value) = Filled(Head(words), value) \o SetTo(Tail(words), value)
<1> DEFINE h == Head(words)
           t == Tail(words)
<1>1. words = <<h>> \o t /\ h \in Words /\ t \in Seq(Words)
  BY HeadTailConcat
<1> HIDE DEF h, t
<1>2. SetTo(<<h>> \o t, value) = SetTo(<<h>>, value) \o SetTo(t, value)
  <2>1. <<h>> \in Seq(Words)
    BY <1>1
  <2> QED
    BY <1>1, <2>1, SetToConcat
<1> QED
  BY <1>1, <1>2, SetToOne DEF h, t

\* A path behind a root, when its variables are set.
LEMMA ResolveKept ==
    ASSUME NEW root \in DOMAIN RootOf, RootOf[root] = root, NEW p, Kept(root, p),
           NEW value \in Seq(Words), NEW cwd
    PROVE  Resolve(SetTo(p, value), cwd) = Segments(root, SetTo(Tail(p), value))
<1>1. p \in Seq(Words) /\ p # <<>> /\ Head(p) = root /\ root \in Words /\ root \notin Unset
  BY PathsAssumption DEF Kept
<1> DEFINE q == SetTo(p, value)
           rest == SetTo(Tail(p), value)
<1>2. rest \in Seq(Words)
  <2>1. Tail(p) \in Seq(Words)
    BY <1>1
  <2> QED
    BY <2>1, SetToIn
<1>3. q = <<root>> \o rest
  BY <1>1, SetToHead DEF Filled
<1> HIDE DEF q, rest
<1>4. q # <<>> /\ Head(q) = root /\ Tail(q) = rest
  BY <1>1, <1>2, <1>3
<1>5. Resolve(q, cwd) = Segments(RootOf[root], rest)
  BY <1>4 DEF Resolve
<1> QED
  BY <1>5 DEF q, rest

\* Where a call is made: a place behind a root.
BehindRoot(cwd) ==
    /\ cwd \in Seq(Words) /\ cwd # <<>>
    /\ Head(cwd) \in DOMAIN RootOf /\ RootOf[Head(cwd)] = Head(cwd)
    /\ Kept(Head(cwd), cwd)

LEMMA SegmentsBehind ==
    ASSUME NEW spelling \in DOMAIN RootOf, NEW ws \in Seq(Words)
    PROVE  BehindRoot(Segments(RootOf[spelling], ws))
<1> DEFINE root == RootOf[spelling]
           p == Segments(root, ws)
<1>1. root \in Words /\ root \in DOMAIN RootOf /\ RootOf[root] = root
  BY PathsAssumption
<1> HIDE DEF root
<1>2. Kept(root, p)
  BY <1>1, SegmentsKept
<1> HIDE DEF p
<1>3. p \in Seq(Words) /\ p # <<>> /\ Head(p) = root
  BY <1>2 DEF Kept
<1> QED
  BY <1>1, <1>2, <1>3 DEF BehindRoot, p, root

LEMMA ResolveBehind ==
    ASSUME NEW text \in Seq(Words)
    PROVE  BehindRoot(Resolve(text, <<"/">>))
<1>1. \A spelling \in DOMAIN RootOf, ws \in Seq(Words) :
          BehindRoot(Segments(RootOf[spelling], ws))
  BY SegmentsBehind
<1>2. CASE text # <<>> /\ Head(text) \in DOMAIN RootOf
  <2>1. Tail(text) \in Seq(Words)
    BY <1>2
  <2>2. Resolve(text, <<"/">>) = Segments(RootOf[Head(text)], Tail(text))
    BY <1>2 DEF Resolve
  <2> QED
    BY <1>1, <1>2, <2>1, <2>2
<1>3. CASE ~(text # <<>> /\ Head(text) \in DOMAIN RootOf)
  <2> DEFINE path == <<"/">> \o text
  <2>1. path # <<>> /\ Head(path) = "/" /\ Tail(path) = text /\ "/" \in DOMAIN RootOf
    BY PathsAssumption
  <2>2. <<"/">> # <<>> /\ Head(<<"/">>) = "/"
    OBVIOUS
  <2>3. Resolve(text, <<"/">>) = Segments(RootOf[Head(path)], Tail(path))
    <3> HIDE DEF path
    <3> QED
      BY <1>3, <2>1, <2>2 DEF Resolve, path
  <2> HIDE DEF path
  <2> QED
    BY <1>1, <2>1, <2>3
<1> QED
  BY <1>2, <1>3

LEMMA NamesOneAlways ==
    ASSUME NEW text \in Seq(Words), NEW cwd, BehindRoot(cwd),
           NEW value \in Seq(Words), value # <<>>, Head(value) \notin DOMAIN RootOf
    PROVE  NamesOne(text, cwd, value)
<1> DEFINE p == Resolve(text, cwd)
           q == SetTo(text, value)
           there == SetTo(cwd, value)
<1>1. q \in Seq(Words)
  BY SetToIn
<1>2. CASE text # <<>> /\ Head(text) \in DOMAIN RootOf
  <2> DEFINE spelling == Head(text)
             root == RootOf[spelling]
             rest == Tail(text)
  <2>1. root \in Words /\ root \in DOMAIN RootOf /\ RootOf[root] = root
        /\ spelling \in Words /\ spelling \notin Unset /\ rest \in Seq(Words)
    BY <1>2, PathsAssumption
  <2>2. p = Segments(root, rest)
    BY <1>2 DEF Resolve
  <2>3. q = <<spelling>> \o SetTo(rest, value) /\ SetTo(rest, value) \in Seq(Words)
    BY <1>2, <2>1, SetToHead, SetToIn DEF Filled
  <2>4. Resolve(q, there) = Segments(root, SetTo(rest, value))
    <3> HIDE DEF q, rest, there
    <3>1. q # <<>> /\ Head(q) = spelling /\ Tail(q) = SetTo(rest, value)
      BY <2>1, <2>3
    <3> QED
      BY <1>2, <3>1 DEF Resolve
  <2> HIDE DEF root, p, q, rest, there
  <2>5. Kept(root, p)
    BY <2>1, <2>2, SegmentsKept
  <2>6. Resolve(SetTo(p, value), cwd) = Segments(root, SetTo(Tail(p), value))
    BY <2>1, <2>5, ResolveKept
  <2>7. SetEither(root, rest, value)
    BY <2>1, SetEitherAll
  <2>8. Resolve(SetTo(p, value), cwd) = Resolve(q, there)
    BY <2>2, <2>4, <2>6, <2>7 DEF SetEither
  <2> QED
    BY <2>8 DEF NamesOne, p, q, there
<1>3. CASE ~(text # <<>> /\ Head(text) \in DOMAIN RootOf)
  <2> DEFINE root == Head(cwd)
             t == Tail(cwd)
             rest == t \o text
             path == cwd \o text
             u == SetTo(t, value)
             full == there \o q
  <2>1. /\ root \in Words /\ root \in DOMAIN RootOf /\ RootOf[root] = root /\ root \notin Unset
        /\ cwd # <<>> /\ cwd \in Seq(Words) /\ t \in Seq(Words) /\ cwd = <<root>> \o t
    BY PathsAssumption, HeadTailConcat DEF BehindRoot
  <2>2. there = <<root>> \o u /\ u \in Seq(Words)
    <3>1. there = Filled(root, value) \o u
      BY <2>1, SetToHead
    <3> QED
      BY <2>1, <3>1, SetToIn DEF Filled
  <2> HIDE DEF root, t, q, u, there
  <2>3. /\ path \in Seq(Words) /\ path # <<>> /\ Head(path) = root /\ Tail(path) = rest
        /\ rest \in Seq(Words)
    <3>1. t \o text \in Seq(Words) /\ Begins(Words, root, (<<root>> \o t) \o text, t \o text)
      BY <2>1, BehindFirst
    <3>2. cwd = <<root>> \o t
      BY <2>1
    <3> QED
      BY <3>1, <3>2 DEF Begins
  <2>4. /\ there # <<>> /\ Head(there) = root
        /\ full # <<>> /\ Head(full) = root /\ Tail(full) = u \o q
    <3>1. Begins(Words, root, <<root>> \o u, u) /\ Begins(Words, root, (<<root>> \o u) \o q, u \o q)
      BY <1>1, <2>1, <2>2, BehindFirst
    <3> QED
      BY <2>2, <3>1 DEF Begins
  <2>5. p = Segments(root, rest)
    <3> HIDE DEF path, rest
    <3> QED
      BY <1>3, <2>1, <2>3 DEF Resolve, path, root
  <2>6. ~(q # <<>> /\ Head(q) \in DOMAIN RootOf)
    <3>1. CASE text = <<>>
      BY <3>1 DEF SetTo, FlattenSeq, q
    <3>2. CASE text # <<>>
      <4> DEFINE h == Head(text)
                 x == Filled(h, value)
                 y == SetTo(Tail(text), value)
      <4>1. q = x \o y /\ y \in Seq(Words) /\ h \in Words /\ h \notin DOMAIN RootOf
        <5>1. Tail(text) \in Seq(Words) /\ h \in Words
          BY <3>2
        <5>2. q = x \o y
          BY <3>2, SetToHead DEF q
        <5>3. y \in Seq(Words)
          BY <5>1, SetToIn
        <5> QED
          BY <1>3, <3>2, <5>1, <5>2, <5>3
      <4>2. x \in Seq(Words) /\ x # <<>> /\ Head(x) \notin DOMAIN RootOf
        BY <4>1 DEF Filled
      <4> HIDE DEF x, y
      <4>3. Head(q) = Head(x)
        BY <4>1, <4>2
      <4> QED
        BY <4>2, <4>3
    <3> QED
      BY <3>1, <3>2
  <2>7. Resolve(q, there) = Segments(root, u \o q)
    <3> HIDE DEF full
    <3> QED
      BY <2>1, <2>4, <2>6 DEF Resolve, full
  <2>8. SetTo(rest, value) = u \o q
    BY <2>1, SetToConcat DEF q, u
  <2> HIDE DEF p, rest
  <2>9. Kept(root, p)
    BY <2>1, <2>3, <2>5, SegmentsKept
  <2>10. Resolve(SetTo(p, value), cwd) = Segments(root, SetTo(Tail(p), value))
    BY <2>1, <2>9, ResolveKept
  <2>11. SetEither(root, rest, value)
    BY <2>1, <2>3, SetEitherAll
  <2>12. Resolve(SetTo(p, value), cwd) = Resolve(q, there)
    BY <2>5, <2>7, <2>8, <2>10, <2>11 DEF SetEither
  <2> QED
    BY <2>12 DEF NamesOne, p, q, there
<1> QED
  BY <1>2, <1>3

LEMMA CallIsPlaced ==
    ASSUME NEW call, IsWritten(call.given)
    PROVE  BehindRoot(Extract(call).cwd)
<1>1. Extract(call).cwd = CallDirectory(call)
  BY DEF Extract
<1>2. IsValues(<<>>, Words) /\ <<>> \in Seq(Words)
  BY DEF IsValues
<1>3. Written(call.given, <<>>, <<>>) \in Seq(Words)
  BY <1>2, WrittenIn DEF IsWritten
<1> QED
  BY <1>1, <1>3, ResolveBehind DEF CallDirectory, Normalize

\* The call that is judged, whatever happens meanwhile.
Given == scenario \in Scenarios /\ proposed = Extract(scenario.call)

LEMMA GivenAlways == Spec => []Given
<1>1. Init => Given
  BY DEF Init, Given
<1>2. Given /\ [Next]_vars => Given'
  <2> SUFFICES ASSUME Given, [Next]_vars PROVE Given'
    OBVIOUS
  <2>1. scenario' = scenario /\ proposed' = proposed
    BY DEF Next, vars, environment, Proceed, LookUp, LookUpFails, ReadHistory, RuleFails,
           ExceptionFails, Judge, Decide, DiskChanges, CallIsLogged, Done
  <2> QED
    BY <2>1 DEF Given
<1> QED
  BY <1>1, <1>2, PTL DEF Spec

THEOREM NeverReasonedAway == Spec => []UnresolvedSafe
<1>1. Given => UnresolvedSafe
  <2> SUFFICES ASSUME Given, NEW i \in DOMAIN scenario.call.commands,
                      NEW operand \in scenario.call.commands[i].operands,
                      NEW value \in scenario.values
               PROVE  NamesOne(Written(operand.words, Variables, Home), proposed.cwd, value)
    BY DEF UnresolvedSafe
  <2>1. /\ operand.words \in Seq(Words) /\ IsWritten(scenario.call.given)
        /\ value \in Seq(Words) /\ value # <<>> /\ Head(value) \notin DOMAIN RootOf
    BY EngineAssumption DEF Given
  <2>2. BehindRoot(proposed.cwd)
    BY <2>1, CallIsPlaced DEF Given
  <2>3. Written(operand.words, Variables, Home) \in Seq(Words)
    BY <2>1, PathsAssumption, WrittenIn DEF IsValues
  <2> QED
    BY <2>1, <2>2, <2>3, NamesOneAlways
<1> QED
  BY <1>1, GivenAlways, PTL

-----------------------------------------------------------------------------
\* What is left of a text against what is left of a pattern, as a table.

IsTable(M, text, pieces) ==
    LET n == Len(text)
        m == Len(pieces)
    IN  /\ M \in [1..m + 1 -> [1..n + 1 -> BOOLEAN]]
        /\ \A i \in 1..m + 1 : \A j \in 1..n + 1 :
              M[i][j] = MatchesFrom(text, pieces, M, i, j)

LEMMA MatchesFromIs ==
    ASSUME NEW text, NEW pieces, Len(text) \in Nat, Len(pieces) \in Nat,
           NEW i \in 1..Len(pieces) + 1, NEW j \in 1..Len(text) + 1, NEW f,
           NEW g \in [1..Len(pieces) + 1 -> [1..Len(text) + 1 -> BOOLEAN]],
           \A k \in i + 1..Len(pieces) + 1 : f[k] = g[k]
    PROVE  /\ MatchesFrom(text, pieces, f, i, j) \in BOOLEAN
           /\ MatchesFrom(text, pieces, f, i, j) = MatchesFrom(text, pieces, g, i, j)
<1> DEFINE n == Len(text)
           m == Len(pieces)
           piece == pieces[i]
           r == g[i + 1]
<1>0. i \in Nat /\ j \in Nat /\ n \in Nat /\ m \in Nat /\ i <= m + 1 /\ j <= n + 1 /\ i >= 1 /\ j >= 1
  OBVIOUS
<1>1. CASE i > m
  BY <1>1 DEF MatchesFrom
<1>2. CASE ~(i > m)
  <2>1. f[i + 1] = r /\ \A k \in 1..n + 1 : r[k] \in BOOLEAN
    <3>1. i + 1 \in 1..m + 1 /\ i + 1 \in i + 1..m + 1
      BY <1>0, <1>2
    <3> QED
      BY <3>1
  <2>2. Describes(piece, text[j]) \in BOOLEAN
    BY DEF Describes
  <2>3. /\ j \in 1..n + 1 /\ j <= n => j + 1 \in 1..n + 1
        /\ \A k \in j..n + 1 : k \in 1..n + 1
    BY <1>0
  <2>4. r[j] \in BOOLEAN /\ j <= n => r[j + 1] \in BOOLEAN
    BY <2>1, <2>3
  <2> HIDE DEF n, m, piece, r
  <2> QED
    BY <1>2, <2>1, <2>2, <2>3, <2>4 DEF MatchesFrom, n, m, piece, r
<1> QED
  BY <1>1, <1>2

\* There is such a table, and its first entry is the match.
LEMMA FullMatchIs ==
    ASSUME NEW text, NEW pieces, Len(text) \in Nat, Len(pieces) \in Nat
    PROVE  \E M : IsTable(M, text, pieces) /\ FullMatch(text, pieces) = M[1][1]
<1> DEFINE n == Len(text)
           m == Len(pieces)
           V == [1..n + 1 -> BOOLEAN]
           row(f, i) == [j \in 1..n + 1 |-> MatchesFrom(text, pieces, f, i, j)]
           G == [i \in 1..m + 1 |-> [f \in [1..m + 1 -> V] |-> row(f, i)]]
           Is(h) == h = [i \in 1..m + 1 |-> row(h, i)]
           chosen == CHOOSE h : Is(h)
<1>0. n \in Nat /\ m + 1 \in Nat /\ 1 \in 1..m + 1 /\ 1 \in 1..n + 1
  OBVIOUS
<1>1. ASSUME NEW i \in 1..m + 1, NEW f \in [1..m + 1 -> V]
      PROVE  row(f, i) \in V
  BY <1>1, MatchesFromIs
<1>2. G \in [1..m + 1 -> [[1..m + 1 -> V] -> V]]
  <2> HIDE DEF row, V
  <2> QED
    BY <1>1
<1>3. ASSUME NEW i \in 1..m + 1, NEW f, NEW g \in [1..m + 1 -> V],
             \A k \in i + 1..m + 1 : f[k] = g[k]
      PROVE  row(f, i) = row(g, i)
  <2>1. \A j \in 1..n + 1 : MatchesFrom(text, pieces, f, i, j) = MatchesFrom(text, pieces, g, i, j)
    BY <1>3, MatchesFromIs
  <2> QED
    BY <2>1
<1>4. LaterOnly(m + 1, V, G)
  <2> SUFFICES ASSUME NEW i \in 1..m + 1, NEW f \in [1..m + 1 -> V], NEW g \in [1..m + 1 -> V],
                      \A k \in i + 1..m + 1 : f[k] = g[k]
               PROVE  G[i][f] = G[i][g]
    BY DEF LaterOnly
  <2>1. row(f, i) = row(g, i)
    <3> HIDE DEF row, V
    <3> QED
      BY <1>3
  <2> HIDE DEF row, V
  <2> QED
    BY <2>1
<1>5. V # {}
  <2>1. [j \in 1..n + 1 |-> TRUE] \in V
    OBVIOUS
  <2> QED
    BY <2>1
<1>6. PICK h \in [1..m + 1 -> V] : \A i \in 1..m + 1 : h[i] = G[i][h]
  <2>1. FromLater(m + 1, V, G)
    <3> HIDE DEF G, V, m
    <3> QED
      BY <1>0, <1>2, <1>4, <1>5, TreeFunction
  <2> QED
    BY <2>1 DEF FromLater
<1>7. \A i \in 1..m + 1 : h[i] = row(h, i)
  <2> HIDE DEF row, V
  <2> QED
    BY <1>6
<1>8. Is(chosen)
  <2>1. Is(h)
    <3> HIDE DEF row, V
    <3> QED
      BY <1>6, <1>7
  <2> QED
    BY <2>1
<1>9. \A i \in 1..m + 1 : chosen[i] = row(chosen, i)
  <2> HIDE DEF chosen, row
  <2> QED
    BY <1>8
<1>10. \A i \in 1..m + 1 : chosen[i] = h[i]
  <2> DEFINE S == {i \in 1..m + 1 : chosen[i] = h[i]}
  <2> HIDE DEF chosen, row, V
  <2>1. \A i \in 1..m + 1 : (\A j \in i + 1..m + 1 : j \in S) => i \in S
    <3> SUFFICES ASSUME NEW i \in 1..m + 1, \A j \in i + 1..m + 1 : j \in S PROVE i \in S
      OBVIOUS
    <3>1. \A k \in i + 1..m + 1 : chosen[k] = h[k]
      OBVIOUS
    <3>2. row(chosen, i) = row(h, i)
      BY <1>3, <1>6, <3>1
    <3> QED
      BY <1>7, <1>9, <3>2
  <2> HIDE DEF S
  <2>2. \A i \in 1..m + 1 : i \in S
    BY <1>0, <2>1, LeavesUp
  <2> QED
    BY <2>2 DEF S
<1>11. FullMatch(text, pieces) = chosen[1][1]
  BY DEF FullMatch
<1>12. IsTable(h, text, pieces)
  <2>1. \A i \in 1..m + 1 : \A j \in 1..n + 1 : h[i][j] = MatchesFrom(text, pieces, h, i, j)
    BY <1>7
  <2> QED
    BY <1>6, <2>1 DEF IsTable
<1> QED
  BY <1>0, <1>10, <1>11, <1>12

-----------------------------------------------------------------------------
\* A pattern of a directory describes what lies below what it describes.

\* The pieces of such a pattern.
EndsDeeper(pieces) ==
    LET m == Len(pieces)
    IN  /\ m \in Nat \ {0} /\ pieces[m] = Deeper
        /\ \A i \in 1..m - 1 : pieces[i] # Deeper
        /\ m > 1 => pieces[m - 1] \notin {"/", Levels}

\* A text goes on below another: with a slash, or with a name behind a root.
GoesOn(t, u) ==
    LET n == Len(t)
    IN  /\ n \in Nat \ {0} /\ Len(u) \in Nat /\ n <= Len(u)
        /\ \A j \in 1..n : u[j] = t[j]
        /\ \/ n < Len(u) => u[n + 1] = "/"
           \/ /\ t[n] = "/"
              /\ n + 1 < Len(u) => u[n + 2] = "/"

\* A pattern that ends with anything below describes what goes on below.
LEMMA LongerMatches ==
    ASSUME NEW t, NEW u, NEW pieces, GoesOn(t, u), EndsDeeper(pieces), FullMatch(t, pieces)
    PROVE  FullMatch(u, pieces)
<1> DEFINE n == Len(t)
           N == Len(u)
           m == Len(pieces)
           \* Where the text ends with a root, its end is not the end of a name.
           cut(i, j) == i = m /\ j = n + 1 /\ n < N /\ u[n + 1] # "/"
<1>0. /\ n \in Nat \ {0} /\ N \in Nat /\ n <= N /\ m \in Nat \ {0}
      /\ \A j \in 1..n : u[j] = t[j]
      /\ n < N /\ u[n + 1] # "/" => t[n] = "/" /\ (n + 1 < N => u[n + 2] = "/")
      /\ pieces[m] = Deeper /\ (\A i \in 1..m - 1 : pieces[i] # Deeper)
      /\ m > 1 => pieces[m - 1] \notin {"/", Levels}
  BY DEF GoesOn, EndsDeeper
<1>1. PICK A : IsTable(A, t, pieces) /\ FullMatch(t, pieces) = A[1][1]
  BY <1>0, FullMatchIs
<1>2. PICK B : IsTable(B, u, pieces) /\ FullMatch(u, pieces) = B[1][1]
  BY <1>0, FullMatchIs
<1> HIDE DEF n, N, m
<1>3. /\ \A i \in 1..m : \A j \in 1..n + 1 : A[i][j] = MatchesFrom(t, pieces, A, i, j)
      /\ \A i \in 1..m : \A j \in 1..N + 1 : B[i][j] = MatchesFrom(u, pieces, B, i, j)
  BY <1>0, <1>1, <1>2 DEF IsTable, m, n, N
<1> DEFINE S == {i \in 1..m : \A j \in 1..n + 1 : A[i][j] /\ ~cut(i, j) => B[i][j]}
<1>4. ASSUME NEW i \in 1..m, \A k \in i + 1..m : k \in S, NEW j \in 1..n + 1,
             A[i][j], ~cut(i, j)
      PROVE  B[i][j]
  <2>0. j \in 1..N + 1 /\ i \in Nat /\ j \in Nat /\ i <= m /\ j <= n + 1 /\ j >= 1
    BY <1>0
  <2>1. MatchesFrom(t, pieces, A, i, j)
    BY <1>3, <1>4
  <2>2. B[i][j] = MatchesFrom(u, pieces, B, i, j)
    BY <1>3, <2>0
  <2>3. CASE i = m
    BY <1>0, <1>4, <2>0, <2>1, <2>2, <2>3 DEF MatchesFrom, m, n, N, Deeper, Levels
  <2>4. CASE i < m
    <3>1. i + 1 \in S /\ i \in 1..m - 1 /\ i + 1 \in 1..m
      BY <1>0, <1>4, <2>0, <2>4
    <3>2. \A k \in 1..n + 1 : A[i + 1][k] /\ ~cut(i + 1, k) => B[i + 1][k]
      BY <3>1
    <3>3. pieces[i] # Deeper /\ (i + 1 = m => pieces[i] \notin {"/", Levels})
      BY <1>0, <2>0, <2>4, <3>1
    <3>4. cut(i + 1, n + 1) => B[m][N + 1] /\ B[m][n + 2]
      <4>1. n < N => n + 2 \in 1..N + 1
        BY <1>0
      <4>2. B[m][N + 1] = MatchesFrom(u, pieces, B, m, N + 1)
            /\ (n < N => B[m][n + 2] = MatchesFrom(u, pieces, B, m, n + 2))
        BY <1>0, <1>3, <4>1
      <4>3. MatchesFrom(u, pieces, B, m, N + 1)
        BY <1>0 DEF MatchesFrom, m, N
      <4>4. n < N /\ u[n + 1] # "/" => MatchesFrom(u, pieces, B, m, n + 2)
        <5>1. n < N /\ u[n + 1] # "/" => n + 2 > N \/ (n + 2 <= N /\ u[n + 2] = "/")
          BY <1>0
        <5> QED
          BY <1>0, <5>1 DEF MatchesFrom, m, N
      <4> QED
        BY <4>2, <4>3, <4>4
    <3>5. CASE pieces[i] = Levels
      <4>1. i + 1 # m
        BY <3>3, <3>5
      <4>2. \A k \in 1..n + 1 : A[i + 1][k] => B[i + 1][k]
        BY <3>2, <4>1
      <4>3. A[i + 1][j] \/ \E k \in j..n : t[k] = "/" /\ A[i + 1][k + 1]
        BY <2>1, <2>4, <3>5 DEF MatchesFrom, Levels, Deeper, m, n
      <4>4. ASSUME NEW k \in j..n, t[k] = "/", A[i + 1][k + 1]
            PROVE  k \in j..N /\ u[k] = "/" /\ B[i + 1][k + 1]
        BY <1>0, <2>0, <4>2, <4>4
      <4>5. B[i + 1][j] \/ \E k \in j..N : u[k] = "/" /\ B[i + 1][k + 1]
        BY <4>2, <4>3, <4>4
      <4> QED
        BY <2>2, <2>0, <3>5, <4>5 DEF MatchesFrom, m, N
    <3>6. CASE pieces[i] = "**"
      <4>1. PICK k \in j..n + 1 : A[i + 1][k]
        BY <2>1, <2>4, <3>6 DEF MatchesFrom, Levels, Deeper, m, n
      <4>2. k \in 1..n + 1 /\ k \in j..N + 1 /\ N + 1 \in j..N + 1
        BY <1>0, <2>0
      <4>3. B[i + 1][k] \/ B[i + 1][N + 1]
        BY <3>2, <3>4, <4>1, <4>2
      <4> QED
        BY <2>2, <2>0, <3>6, <4>2, <4>3 DEF MatchesFrom, m, N
    <3>7. CASE pieces[i] = "*"
      <4>1. A[i + 1][j] \/ (j <= n /\ t[j] # "/" /\ A[i + 1][j + 1])
        BY <2>1, <2>4, <3>7 DEF MatchesFrom, Levels, Deeper, m, n
      <4>2. CASE A[i + 1][j]
        <5>1. CASE ~cut(i + 1, j)
          BY <2>0, <2>2, <3>2, <3>7, <4>2, <5>1 DEF MatchesFrom, m, N
        <5>2. CASE cut(i + 1, j)
          <6>1. j = n + 1 /\ n < N /\ u[j] # "/" /\ i + 1 = m /\ j + 1 = n + 2
            BY <1>0, <5>2
          <6>2. B[i + 1][j + 1]
            BY <3>4, <5>2, <6>1
          <6>3. j <= N
            BY <1>0, <6>1
          <6> QED
            BY <2>0, <2>2, <3>7, <6>1, <6>2, <6>3 DEF MatchesFrom, m, N
        <5> QED
          BY <5>1, <5>2
      <4>3. CASE j <= n /\ t[j] # "/" /\ A[i + 1][j + 1]
        <5>1. j + 1 \in 1..n + 1 /\ u[j] = t[j] /\ j <= N /\ j \in 1..n
          BY <1>0, <2>0, <4>3
        <5>2. ~cut(i + 1, j + 1)
          BY <1>0, <2>0, <4>3
        <5> QED
          BY <2>0, <2>2, <3>2, <3>7, <4>3, <5>1, <5>2 DEF MatchesFrom, m, N
      <4> QED
        BY <4>1, <4>2, <4>3
    <3>8. CASE pieces[i] = "/"
      <4>1. j <= n /\ t[j] = "/" /\ A[i + 1][j + 1]
        BY <2>1, <2>4, <3>8 DEF MatchesFrom, Levels, Deeper, m, n
      <4>2. i + 1 # m /\ j + 1 \in 1..n + 1 /\ u[j] = t[j] /\ j <= N
        BY <1>0, <2>0, <3>3, <3>8, <4>1
      <4>3. B[i + 1][j + 1]
        BY <3>2, <4>1, <4>2
      <4> QED
        BY <2>0, <2>2, <3>8, <4>1, <4>2, <4>3 DEF MatchesFrom, m, N
    <3>9. CASE pieces[i] \notin {Levels, "**", Deeper, "*", "/"}
      <4>1. j <= n /\ Describes(pieces[i], t[j]) /\ A[i + 1][j + 1]
        BY <2>1, <2>4, <3>9 DEF MatchesFrom, m, n
      <4>2. t[j] # "/"
        BY <4>1 DEF Describes
      <4>3. j + 1 \in 1..n + 1 /\ u[j] = t[j] /\ j <= N
        BY <1>0, <2>0, <4>1
      <4>4. ~cut(i + 1, j + 1)
        BY <1>0, <2>0, <4>1, <4>2
      <4>5. B[i + 1][j + 1]
        BY <3>2, <4>1, <4>3, <4>4
      <4> QED
        BY <2>0, <2>2, <3>9, <4>1, <4>3, <4>5 DEF MatchesFrom, m, N
    <3> QED
      BY <3>3, <3>5, <3>6, <3>7, <3>8, <3>9
  <2> QED
    BY <1>0, <2>0, <2>3, <2>4
<1>5. \A i \in 1..m : i \in S
  <2>1. \A i \in 1..m : (\A k \in i + 1..m : k \in S) => i \in S
    <3> HIDE DEF cut
    <3> QED
      BY <1>4
  <2> HIDE DEF S
  <2> QED
    BY <1>0, <2>1, LeavesUp
<1>6. ~cut(1, 1) /\ 1 \in 1..n + 1 /\ 1 \in 1..m
  BY <1>0
<1> HIDE DEF cut
<1> QED
  BY <1>1, <1>2, <1>5, <1>6

-----------------------------------------------------------------------------
\* How a path is spelled: its segments stand at every second place of the
\* text, up to the first "**" of a pattern.

\* What a path is made of, and what its text and its pattern are made of.
Named == Words \cup {"no path"}
Pieces == Named \cup {"/", Levels}

PathLike(p) ==
    /\ p \in Seq(Named) /\ p # <<>> /\ Len(p) \in Nat \ {0}
    /\ \A i \in 2..Len(p) : p[i] # "/"

Plain(p, k) == k \in 1..Len(p) /\ \A i \in 1..k : p[i] # "**"

Start(p) == IF p[1] = "/" THEN 0 ELSE 1

\* In q the first k segments of p.
NamesIn(q, p, k) ==
    \A i \in 1..k : Start(p) + 2 * i - 2 >= 1 =>
        Start(p) + 2 * i - 2 <= Len(q) /\ q[Start(p) + 2 * i - 2] = p[i]
Slashes(q, p, k) ==
    \A i \in 1..k : Start(p) + 2 * i - 1 <= Len(q) /\ q[Start(p) + 2 * i - 1] = "/"

\* The end of the text: a slash only behind a root.
Ends(q, p) ==
    LET last == Start(p) + 2 * Len(p) - 2
    IN  IF IsRoot(p[Len(p)]) THEN Len(q) = last + 1 /\ q[last + 1] = "/" ELSE Len(q) = last

Joined(q, a, b, T) ==
    /\ q \in Seq(T) /\ Len(q) = Len(a) + Len(b) /\ Len(a) \in Nat /\ Len(b) \in Nat
    /\ \A i \in 1..Len(a) : q[i] = a[i]
    /\ \A i \in 1..Len(b) : q[Len(a) + i] = b[i]

LEMMA ConcatIs ==
    ASSUME NEW T, NEW a \in Seq(T), NEW b \in Seq(T)
    PROVE  Joined(a \o b, a, b, T)
BY ConcatProperties DEF Joined

\* What comes of the first sequences stands at the beginning of the whole.
Grows(a, b, T) ==
    a \in Seq(T) /\ b \in Seq(T) /\ Len(a) <= Len(b) /\ \A j \in 1..Len(a) : b[j] = a[j]

LEMMA ChainGrows ==
    ASSUME NEW T, NEW s \in Seq(Seq(T)), NEW f, Chain(f, s, T), NEW k \in 0..Len(s)
    PROVE  Grows(f[k], f[Len(s)], T)
<1> DEFINE n == Len(s)
           Grown(i) == /\ Len(f[k]) <= Len(f[i])
                       /\ \A j \in 1..Len(f[k]) : f[i][j] = f[k][j]
           S == {i \in 0..n - k : Grown(k + i)}
<1>0. /\ n \in Nat /\ k \in Nat /\ n - k \in Nat /\ (\A i \in 0..n : f[i] \in Seq(T))
      /\ \A i \in 1..n : s[i] \in Seq(T)
  <2>1. n \in Nat /\ \A i \in 1..n : s[i] \in Seq(T)
    OBVIOUS
  <2>2. f \in [0..n -> Seq(T)]
    BY DEF Chain
  <2> HIDE DEF n
  <2> QED
    BY <2>1, <2>2 DEF n
<1>1. 0 \in S
  <2>1. k + 0 = k /\ Len(f[k]) \in Nat
    BY <1>0
  <2>2. Grown(k + 0)
    BY <2>1
  <2> HIDE DEF Grown
  <2> QED
    BY <1>0, <2>2
<1>2. \A i \in 1..n - k : i - 1 \in S => i \in S
  <2> SUFFICES ASSUME NEW i \in 1..n - k, i - 1 \in S PROVE i \in S
    OBVIOUS
  <2>1. /\ k + i \in 1..n /\ k + i - 1 \in 0..n /\ k + (i - 1) = k + i - 1 /\ i \in 0..n - k
        /\ k \in 0..n
    BY <1>0
  <2>2. f[k + i] = f[k + i - 1] \o s[k + i] /\ s[k + i] \in Seq(T) /\ f[k + i - 1] \in Seq(T)
    <3>1. \A l \in 1..n : f[l] = f[l - 1] \o s[l]
      BY DEF Chain
    <3> DEFINE l == k + i
    <3>2. l \in 1..n /\ l - 1 \in 0..n /\ l - 1 = k + i - 1
      BY <2>1
    <3> HIDE DEF l, n
    <3>3. f[l] = f[l - 1] \o s[l] /\ s[l] \in Seq(T) /\ f[l - 1] \in Seq(T)
      BY <1>0, <3>1, <3>2
    <3> QED
      BY <3>2, <3>3 DEF l
  <2> DEFINE a == f[k + i - 1]
             b == s[k + i]
  <2>3. Grown(k + i - 1)
    BY <2>1
  <2>4. /\ Len(a \o b) = Len(a) + Len(b) /\ Len(a) \in Nat /\ Len(b) \in Nat
        /\ \A j \in 1..Len(a) : (a \o b)[j] = a[j]
    <3>1. a \in Seq(T) /\ b \in Seq(T)
      BY <2>2
    <3> HIDE DEF a, b
    <3>2. Joined(a \o b, a, b, T)
      BY <3>1, ConcatIs
    <3> QED
      BY <3>2 DEF Joined
  <2>5. Len(f[k]) \in Nat
    BY <1>0, <2>1
  <2>6. Grown(k + i)
    <3>1. Len(f[k]) <= Len(a) /\ \A j \in 1..Len(f[k]) : a[j] = f[k][j]
      BY <2>3
    <3> HIDE DEF a, b
    <3>2. \A j \in 1..Len(f[k]) : j \in 1..Len(a)
      BY <2>4, <2>5, <3>1
    <3>3. Len(f[k]) <= Len(a \o b) /\ \A j \in 1..Len(f[k]) : (a \o b)[j] = f[k][j]
      BY <2>4, <2>5, <3>1, <3>2
    <3> QED
      BY <2>2, <3>3 DEF a, b
  <2> HIDE DEF Grown
  <2> QED
    BY <2>1, <2>6
<1>3. n - k \in S
  <2> HIDE DEF S, n
  <2>1. \A i \in 0..n - k : i \in S
    BY <1>0, <1>1, <1>2, Onwards
  <2> QED
    BY <1>0, <2>1
<1>4. k + (n - k) = n /\ k \in 0..n /\ n \in 0..n
  BY <1>0
<1> QED
  BY <1>0, <1>3, <1>4 DEF Grows

\* One segment more.
GoneOn(r, p, k) ==
    /\ r \in Seq(Pieces) /\ NamesIn(r, p, k)
    /\ k < Len(p) => Slashes(r, p, k) /\ Len(r) = Start(p) + 2 * k - 1
    /\ k = Len(p) => Slashes(r, p, k - 1) /\ Ends(r, p)

LEMMA SpelledOn ==
    ASSUME NEW p, PathLike(p), NEW k, Plain(p, k),
           NEW q \in Seq(Pieces), NamesIn(q, p, k - 1), Slashes(q, p, k - 1),
           Len(q) = IF k = 1 THEN 0 ELSE Start(p) + 2 * k - 3
    PROVE  GoneOn(q \o Spelled(p[k], k = Len(p)), p, k)
<1> DEFINE L == Len(p)
           w == p[k]
           x == Spelled(w, k = L)
           r == q \o x
           c == Start(p)
           n == Len(q)
<1>0. /\ L \in Nat \ {0} /\ k \in 1..L /\ k \in Nat /\ w \in Named /\ w \in Pieces /\ "/" \in Pieces
      /\ w # "**" /\ (w = "/" <=> k = 1 /\ c = 0) /\ c \in {0, 1} /\ n \in Nat
      /\ n = IF k = 1 THEN 0 ELSE c + 2 * k - 3
  <2>1. L \in Nat \ {0} /\ p \in Seq(Named) /\ k \in 1..L /\ w # "**" /\ \A i \in 2..L : p[i] # "/"
    BY DEF PathLike, Plain
  <2>2. w \in Named
    BY <2>1
  <2>3. w = "/" <=> k = 1 /\ c = 0
    BY <2>1 DEF Start
  <2>4. n \in Nat /\ n = IF k = 1 THEN 0 ELSE c + 2 * k - 3
    OBVIOUS
  <2>5. w \in Pieces /\ "/" \in Pieces /\ c \in {0, 1}
    BY <2>2 DEF Pieces, Start
  <2> HIDE DEF w, c, n
  <2> QED
    BY <2>1, <2>2, <2>3, <2>4, <2>5
<1> HIDE DEF L, w, c, n
<1>1. x = IF w = "/" THEN <<w>> ELSE IF k = L /\ ~IsRoot(w) THEN <<w>> ELSE <<w, "/">>
  BY <1>0 DEF Spelled
<1>2. x \in Seq(Pieces) /\ Len(x) \in {1, 2} /\ x[1] = w /\ (Len(x) = 2 => x[2] = "/")
      /\ (Len(x) = 1 <=> w = "/" \/ (k = L /\ ~IsRoot(w)))
  <2>1. CASE w = "/" \/ (k = L /\ ~IsRoot(w))
    <3>1. x = <<w>>
      BY <1>1, <2>1
    <3> HIDE DEF x
    <3> QED
      BY <1>0, <2>1, <3>1
  <2>2. CASE ~(w = "/" \/ (k = L /\ ~IsRoot(w)))
    <3>1. x = <<w, "/">>
      BY <1>1, <2>2
    <3> HIDE DEF x
    <3>2. <<w, "/">> \in Seq(Pieces)
      BY <1>0
    <3>3. Len(<<w, "/">>) = 2 /\ <<w, "/">>[1] = w /\ <<w, "/">>[2] = "/"
      OBVIOUS
    <3> QED
      BY <2>2, <3>1, <3>2, <3>3
  <2> QED
    BY <2>1, <2>2
<1> HIDE DEF x
<1>3. /\ r \in Seq(Pieces) /\ Len(r) = n + Len(x)
      /\ \A i \in 1..n : r[i] = q[i]
      /\ r[n + 1] = w /\ (Len(x) = 2 => r[n + 2] = "/")
  <2>1. /\ r \in Seq(Pieces) /\ Len(r) = n + Len(x)
        /\ \A i \in 1..n : r[i] = q[i]
        /\ \A i \in 1..Len(x) : r[n + i] = x[i]
    <3>1. Joined(r, q, x, Pieces)
      BY <1>2, ConcatIs
    <3> HIDE DEF r
    <3> QED
      BY <3>1 DEF n, Joined
  <2>2. 1 \in 1..Len(x) /\ (Len(x) = 2 => 2 \in 1..Len(x))
    BY <1>2
  <2> QED
    BY <1>2, <2>1, <2>2
<1> HIDE DEF r
<1>4. NamesIn(r, p, k)
  <2> SUFFICES ASSUME NEW i \in 1..k, c + 2 * i - 2 >= 1
               PROVE  c + 2 * i - 2 <= Len(r) /\ r[c + 2 * i - 2] = p[i]
    BY DEF NamesIn, c
  <2>1. CASE i = k
    <3>1. c + 2 * k - 2 = n + 1
      BY <1>0, <2>1
    <3> QED
      BY <1>0, <1>2, <1>3, <2>1, <3>1 DEF w
  <2>2. CASE i < k
    <3>1. i \in 1..k - 1
      BY <1>0, <2>2
    <3>2. c + 2 * i - 2 <= n /\ q[c + 2 * i - 2] = p[i]
      BY <3>1 DEF NamesIn, c, n
    <3>3. c + 2 * i - 2 \in 1..n
      BY <1>0, <3>2
    <3> QED
      BY <1>0, <1>2, <1>3, <3>2, <3>3
  <2> QED
    BY <1>0, <2>1, <2>2
<1>5. Slashes(r, p, k - 1)
  <2> SUFFICES ASSUME NEW i \in 1..k - 1
               PROVE  c + 2 * i - 1 <= Len(r) /\ r[c + 2 * i - 1] = "/"
    BY DEF Slashes, c
  <2>1. c + 2 * i - 1 <= n /\ q[c + 2 * i - 1] = "/"
    BY DEF Slashes, c, n
  <2>2. c + 2 * i - 1 \in 1..n
    BY <1>0, <2>1
  <2> QED
    BY <1>0, <1>2, <1>3, <2>1, <2>2
<1>6. w = "/" => IsRoot(w)
  BY PathsAssumption DEF IsRoot
<1>7. ASSUME Len(x) = 2 \/ w = "/"
      PROVE  Len(r) = c + 2 * k - 1 /\ r[c + 2 * k - 1] = "/"
  <2>1. CASE w = "/"
    <3>1. n = 0 /\ k = 1 /\ c = 0 /\ Len(x) = 1
      BY <1>0, <1>2, <2>1
    <3> QED
      BY <1>3, <2>1, <3>1
  <2>2. CASE Len(x) = 2 /\ w # "/"
    <3>1. n + 2 = c + 2 * k - 1
      BY <1>0, <2>2
    <3> QED
      BY <1>3, <2>2, <3>1
  <2> QED
    BY <1>7, <2>1, <2>2
<1>8. ASSUME k < L
      PROVE  Slashes(r, p, k) /\ Len(r) = c + 2 * k - 1
  <2>1. Len(x) = 2 \/ w = "/"
    BY <1>0, <1>2, <1>8
  <2>2. Len(r) = c + 2 * k - 1 /\ r[c + 2 * k - 1] = "/"
    BY <1>7, <2>1
  <2>3. \A i \in 1..k : i = k \/ i \in 1..k - 1
    BY <1>0
  <2> QED
    BY <1>0, <1>5, <2>2, <2>3 DEF Slashes, c
<1>9. ASSUME k = L
      PROVE  Ends(r, p)
  <2>1. CASE IsRoot(w)
    <3>1. Len(x) = 2 \/ w = "/"
      BY <1>2, <2>1
    <3>2. Len(r) = c + 2 * k - 1 /\ r[c + 2 * k - 1] = "/"
      BY <1>7, <3>1
    <3>3. c + 2 * k - 2 + 1 = c + 2 * k - 1
      BY <1>0
    <3> QED
      BY <1>9, <2>1, <3>2, <3>3 DEF Ends, c, w, L
  <2>2. CASE ~IsRoot(w)
    <3>1. Len(x) = 1 /\ w # "/"
      BY <1>2, <1>6, <1>9, <2>2
    <3>2. Len(r) = c + 2 * k - 2
      BY <1>0, <1>3, <3>1
    <3> QED
      BY <1>9, <2>2, <3>2 DEF Ends, c, w, L
  <2> QED
    BY <2>1, <2>2
<1> QED
  BY <1>3, <1>4, <1>5, <1>8, <1>9 DEF r, x, w, L, c, GoneOn

LEMMA SpelledIn ==
    ASSUME NEW w \in Named, NEW last
    PROVE  Spelled(w, last) \in Seq(Pieces)
<1>1. w \in Pieces /\ "/" \in Pieces /\ Levels \in Pieces
  BY DEF Pieces
<1>2. <<w>> \in Seq(Pieces) /\ <<w, "/">> \in Seq(Pieces) /\ <<Levels>> \in Seq(Pieces)
  BY <1>1
<1> QED
  BY <1>2 DEF Spelled

\* What the text of a path shows of its first segments.
Shown(q, p, k) ==
    /\ NamesIn(q, p, k) /\ Slashes(q, p, k - 1)
    /\ k < Len(p) => Slashes(q, p, k)
    /\ k = Len(p) => Ends(q, p)

\* The text of a path shows its segments up to the first "**".
LEMMA TextIs ==
    ASSUME NEW p, PathLike(p)
    PROVE  /\ Text(p) \in Seq(Pieces)
           /\ \E a \in Seq(Pieces) :
                 Text(p) = a \o Spelled(p[Len(p)], TRUE) /\ (Len(p) = 1 => a = <<>>)
           /\ \A k : Plain(p, k) => Shown(Text(p), p, k)
<1> DEFINE L == Len(p)
           c == Start(p)
           s == [i \in DOMAIN p |-> Spelled(p[i], i = Len(p))]
<1>0. /\ L \in Nat \ {0} /\ c \in {0, 1} /\ DOMAIN p = 1..L
      /\ \A i \in 1..L : p[i] \in Named
  BY DEF PathLike, Start
<1>1. s \in Seq(Seq(Pieces)) /\ Len(s) = L /\ \A i \in 1..L : s[i] = Spelled(p[i], i = L)
  <2>1. \A i \in 1..L : Spelled(p[i], i = L) \in Seq(Pieces)
    BY <1>0, SpelledIn
  <2>2. s = [i \in 1..L |-> Spelled(p[i], i = L)]
    BY <1>0
  <2> HIDE DEF L, s
  <2>3. s \in [1..L -> Seq(Pieces)] /\ L \in Nat /\ \A i \in 1..L : s[i] = Spelled(p[i], i = L)
    BY <1>0, <2>1, <2>2
  <2>4. s \in Seq(Seq(Pieces)) /\ Len(s) = L
    BY <2>3
  <2> QED
    BY <2>3, <2>4
<1>2. PICK f : Chain(f, s, Pieces) /\ FlattenSeq(s) = f[L]
  <2> HIDE DEF s
  <2> QED
    BY <1>1, FlattenIs
<1>3. Text(p) = f[L]
  BY <1>2 DEF Text
<1> HIDE DEF s, L
<1>4. /\ f[0] = <<>> /\ \A i \in 0..L : f[i] \in Seq(Pieces)
      /\ \A i \in 1..L : f[i] = f[i - 1] \o Spelled(p[i], i = L)
  BY <1>1, <1>2 DEF Chain
<1>5. Text(p) \in Seq(Pieces)
  BY <1>0, <1>3, <1>4
<1>6. \E a \in Seq(Pieces) : Text(p) = a \o Spelled(p[L], TRUE) /\ (L = 1 => a = <<>>)
  <2>1. L \in 1..L /\ L - 1 \in 0..L /\ (L = 1 => L - 1 = 0)
    BY <1>0
  <2>2. f[L] = f[L - 1] \o Spelled(p[L], TRUE)
    BY <1>4, <2>1
  <2> QED
    BY <1>3, <1>4, <2>1, <2>2
<1>7. ASSUME NEW k, Plain(p, k)
      PROVE  Shown(f[L], p, k)
  <2>0. k \in 1..L /\ k \in Nat /\ \A i \in 1..k : p[i] # "**"
    BY <1>0, <1>7 DEF Plain, L
  <2> DEFINE Good(i) == i >= 1 => /\ NamesIn(f[i], p, i) /\ Slashes(f[i], p, i - 1)
                                  /\ i < L => Slashes(f[i], p, i) /\ Len(f[i]) = c + 2 * i - 1
                                  /\ i = L => Ends(f[i], p)
             S == {i \in 0..k : Good(i)}
  <2>1. 0 \in S
    BY <2>0
  <2>2. \A i \in 1..k : i - 1 \in S => i \in S
    <3> SUFFICES ASSUME NEW i \in 1..k, i - 1 \in S PROVE i \in S
      OBVIOUS
    <3>1. i \in 1..L /\ i - 1 \in 0..L /\ i \in 0..k /\ Plain(p, i)
      BY <1>0, <2>0 DEF Plain, L
    <3>2. NamesIn(f[i - 1], p, i - 1) /\ Slashes(f[i - 1], p, i - 1)
          /\ Len(f[i - 1]) = IF i = 1 THEN 0 ELSE c + 2 * i - 3
      <4>1. CASE i = 1
        <5>1. i - 1 = 0 /\ f[i - 1] = <<>>
          BY <1>4, <4>1
        <5>2. Len(f[i - 1]) = 0
          BY <5>1
        <5> QED
          BY <4>1, <5>1, <5>2 DEF NamesIn, Slashes
      <4>2. CASE i # 1
        <5>1. Good(i - 1) /\ i - 1 >= 1 /\ i - 1 < L
          BY <1>0, <3>1, <4>2
        <5>2. c + 2 * (i - 1) - 1 = c + 2 * i - 3
          BY <1>0, <3>1
        <5>3. /\ NamesIn(f[i - 1], p, i - 1) /\ Slashes(f[i - 1], p, i - 1)
              /\ Len(f[i - 1]) = c + 2 * (i - 1) - 1
          BY <5>1, Zenon
        <5> QED
          BY <4>2, <5>2, <5>3
      <4> QED
        BY <4>1, <4>2
    <3>3. f[i - 1] \in Seq(Pieces) /\ f[i] = f[i - 1] \o Spelled(p[i], i = L)
      BY <1>4, <3>1
    <3> DEFINE q == f[i - 1]
               r == q \o Spelled(p[i], i = L)
    <3>4. NamesIn(r, p, i) /\ (i < L => Slashes(r, p, i) /\ Len(r) = c + 2 * i - 1)
          /\ (i = L => Slashes(r, p, i - 1) /\ Ends(r, p))
      <4> HIDE DEF q
      <4>1. q \in Seq(Pieces) /\ NamesIn(q, p, i - 1) /\ Slashes(q, p, i - 1)
            /\ Len(q) = IF i = 1 THEN 0 ELSE Start(p) + 2 * i - 3
        BY <3>2, <3>3 DEF q
      <4>2. GoneOn(q \o Spelled(p[i], i = Len(p)), p, i)
        BY <3>1, <4>1, SpelledOn
      <4>3. GoneOn(r, p, i)
        BY <4>2 DEF L
      <4> HIDE DEF r
      <4> QED
        BY <4>3 DEF GoneOn, L
    <3>5. i < L => Slashes(r, p, i - 1)
      <4> HIDE DEF r
      <4>1. \A j \in 1..i - 1 : j \in 1..i
        BY <3>1
      <4> QED
        BY <3>4, <4>1 DEF Slashes
    <3>6. Good(i)
      <4> HIDE DEF r
      <4>1. f[i] = r
        BY <3>3 DEF r
      <4>2. i < L \/ i = L
        BY <1>0, <3>1
      <4> QED
        BY <3>4, <3>5, <4>1, <4>2
    <3> HIDE DEF Good
    <3> QED
      BY <3>1, <3>6
  <2>3. k \in S
    <3> HIDE DEF S
    <3>1. \A i \in 0..k : i \in S
      BY <2>0, <2>1, <2>2, Onwards
    <3> QED
      BY <2>0, <3>1
  <2>4. Good(k) /\ k >= 1
    BY <2>0, <2>3
  <2> DEFINE t == f[L]
             q == f[k]
  <2>5. t \in Seq(Pieces) /\ Len(q) <= Len(t) /\ (\A j \in 1..Len(q) : t[j] = q[j])
        /\ Len(q) \in Nat /\ Len(t) \in Nat
    <3>1. k \in 0..Len(s)
      BY <1>1, <2>0
    <3>2. Grows(f[k], f[Len(s)], Pieces)
      BY <1>1, <1>2, <3>1, ChainGrows
    <3>3. Grows(q, t, Pieces)
      BY <1>1, <3>2
    <3> HIDE DEF q, t
    <3> QED
      BY <3>3 DEF Grows
  <2>6. k = L => t = q
    OBVIOUS
  <2> HIDE DEF t, q
  <2>7. NamesIn(q, p, k) /\ Slashes(q, p, k - 1) /\ (k < L => Slashes(q, p, k)) /\ (k = L => Ends(q, p))
    BY <2>4, Zenon DEF q
  <2>8. NamesIn(t, p, k)
    BY <1>0, <2>0, <2>5, <2>7 DEF NamesIn, c
  <2>9. \A l \in {k - 1, k} : Slashes(q, p, l) => Slashes(t, p, l)
    BY <1>0, <2>0, <2>5 DEF Slashes, c
  <2> QED
    BY <2>6, <2>7, <2>8, <2>9 DEF Shown, t, L
<1> QED
  BY <1>3, <1>5, <1>6, <1>7 DEF L

LEMMA NamesAre ==
    /\ \A w \in Named : w \in Pieces /\ w # Levels /\ w # Deeper
    /\ \A w \in Pieces : w # Deeper
BY DEF Named, Pieces, Words, Levels, Deeper

\* What the pattern of is_under shows of the segments.
UnderShown(q, p, k) ==
    /\ NamesIn(q, p, k) /\ Slashes(q, p, k - 1)
    /\ k = Len(p) => Len(q) = Start(p) + 2 * k - 1 /\ q[Start(p) + 2 * k - 1] = Deeper

\* A text without the slash at its end.
Bare(b, q, w) ==
    /\ b \in Seq(Pieces) /\ \A j \in 1..Len(b) : b[j] = q[j]
    /\ \/ Len(b) = Len(q) /\ ~IsRoot(w)
       \/ Len(b) = Len(q) - 1 /\ IsRoot(w)
    /\ Len(b) > 0 => b[Len(b)] = w /\ w # "/"

\* The pattern of is_under is the text without its last slash, and Deeper.
LEMMA UnderBare ==
    ASSUME NEW p, PathLike(p)
    PROVE  \E b : Bare(b, Text(p), p[Len(p)]) /\ UnderPieces(p) = Append(b, Deeper)
<1> DEFINE w == p[Len(p)]
           q == Text(p)
           n == Len(q)
<1>1. PICK a \in Seq(Pieces) : q = a \o Spelled(w, TRUE) /\ (Len(p) = 1 => a = <<>>)
  BY TextIs
<1>2. q \in Seq(Pieces) /\ n \in Nat /\ Len(a) \in Nat
  <2>1. q \in Seq(Pieces)
    BY TextIs
  <2> HIDE DEF q
  <2> QED
    BY <2>1
<1>3. w \in Named /\ w \in Pieces /\ "/" \in Pieces /\ (w = "/" => Len(p) = 1)
  <2>1. w \in Named /\ (w = "/" => Len(p) = 1)
    <3>1. p \in Seq(Named) /\ Len(p) \in Nat \ {0} /\ \A i \in 2..Len(p) : p[i] # "/"
      BY DEF PathLike
    <3>2. w \in Named
      BY <3>1
    <3>3. ASSUME Len(p) # 1
          PROVE  w # "/"
      <4> DEFINE l == Len(p)
      <4>1. l \in Nat \ {0} /\ l # 1
        BY <3>1, <3>3
      <4> HIDE DEF l
      <4>2. l \in 2..l
        BY <4>1
      <4> QED
        BY <3>1, <4>2 DEF l
    <3> QED
      BY <3>2, <3>3
  <2> HIDE DEF w
  <2> QED
    BY <2>1 DEF Pieces
<1>4. IsRoot("/")
  BY PathsAssumption DEF IsRoot
<1>5. UnderPieces(p) = IF q # <<>> /\ Last(q) = "/" THEN Append(Front(q), Deeper)
                       ELSE Append(q, Deeper)
  BY DEF UnderPieces
<1> HIDE DEF w, q
<1>6. ASSUME n > 0
      PROVE  /\ q # <<>> /\ Last(q) = q[n] /\ Front(q) \in Seq(Pieces) /\ Len(Front(q)) = n - 1
             /\ \A j \in 1..n - 1 : Front(q)[j] = q[j]
  <2>1. q # <<>>
    BY <1>2, <1>6
  <2>2. Front(q) \in Seq(Pieces) /\ Len(Front(q)) = n - 1 /\ \A j \in 1..n - 1 : Front(q)[j] = q[j]
    <3> DEFINE l == n - 1
               f == SubSeq(q, 1, l)
    <3>1. l \in Int /\ l \in Nat /\ 1 \in Int /\ (\A i \in 1..l : q[i] \in Pieces) /\ l - 1 + 1 = l
      BY <1>2, <1>6
    <3> HIDE DEF l
    <3>2. /\ f \in Seq(Pieces) /\ Len(f) = IF 1 <= l THEN l - 1 + 1 ELSE 0
          /\ \A i \in 1..l - 1 + 1 : f[i] = q[1 + i - 1]
      BY <3>1, SubSeqProperties
    <3>3. Front(q) = f
      BY DEF Front, l
    <3> HIDE DEF f
    <3>4. Len(f) = l /\ \A i \in 1..l : f[i] = q[i]
      BY <3>1, <3>2
    <3> QED
      BY <3>2, <3>3, <3>4 DEF l
  <2> QED
    BY <1>2, <1>6, <2>2 DEF Last
<1>7. CASE w = "/"
  <2>1. Spelled(w, TRUE) = <<"/">> /\ a = <<>>
    BY <1>1, <1>3, <1>7 DEF Spelled
  <2>2. q = <<"/">>
    <3>1. <<"/">> \in Seq(Pieces)
      BY <1>3
    <3> QED
      BY <1>1, <2>1, <3>1, ConcatEmptySeq
  <2>3. n = 1 /\ q[n] = "/"
    BY <2>2
  <2>4. Bare(Front(q), q, w)
    BY <1>4, <1>6, <1>7, <2>3 DEF Bare
  <2> QED
    BY <1>5, <1>6, <2>3, <2>4 DEF q, w
<1>8. CASE ~IsRoot(w)
  <2>1. Spelled(w, TRUE) = <<w>> /\ <<w>> \in Seq(Pieces)
    BY <1>3, <1>4, <1>8 DEF Spelled
  <2>2. n = Len(a) + 1 /\ q[n] = w
    <3> DEFINE x == <<w>>
    <3>1. x \in Seq(Pieces) /\ Len(x) = 1 /\ x[1] = w /\ q = a \o x
      BY <1>1, <2>1
    <3> HIDE DEF x
    <3>2. Joined(q, a, x, Pieces)
      BY <3>1, ConcatIs
    <3> QED
      BY <3>1, <3>2 DEF Joined
  <2>3. Bare(q, q, w) /\ Last(q) # "/"
    BY <1>2, <1>4, <1>6, <1>8, <2>2 DEF Bare
  <2> QED
    BY <1>5, <2>3 DEF q, w
<1>9. CASE w # "/" /\ IsRoot(w)
  <2>1. Spelled(w, TRUE) = <<w, "/">>
    BY <1>9 DEF Spelled
  <2>2. <<w, "/">> \in Seq(Pieces) /\ Len(<<w, "/">>) = 2 /\ <<w, "/">>[1] = w /\ <<w, "/">>[2] = "/"
    BY <1>3
  <2>3. n = Len(a) + 2 /\ q[n - 1] = w /\ q[n] = "/"
    <3> DEFINE x == <<w, "/">>
    <3>1. q = a \o x /\ x \in Seq(Pieces) /\ Len(x) = 2 /\ x[1] = w /\ x[2] = "/"
      BY <1>1, <2>1, <2>2
    <3> HIDE DEF x
    <3>2. Joined(q, a, x, Pieces)
      BY <3>1, ConcatIs
    <3> QED
      BY <1>2, <3>1, <3>2 DEF Joined
  <2>4. Bare(Front(q), q, w)
    BY <1>2, <1>6, <1>9, <2>3 DEF Bare
  <2> QED
    BY <1>2, <1>5, <1>6, <2>3, <2>4 DEF q, w
<1> QED
  BY <1>7, <1>8, <1>9

\* So it shows the segments up to the first "**" as well.
LEMMA UnderIs ==
    ASSUME NEW p, PathLike(p)
    PROVE  /\ UnderPieces(p) \in Seq(Pieces \cup {Deeper}) /\ EndsDeeper(UnderPieces(p))
           /\ \A k : Plain(p, k) => UnderShown(UnderPieces(p), p, k)
<1> DEFINE u == UnderPieces(p)
           L == Len(p)
           c == Start(p)
           w == p[L]
           q == Text(p)
<1>1. PICK b : Bare(b, q, w) /\ u = Append(b, Deeper)
  BY UnderBare
<1>2. L \in Nat \ {0} /\ c \in {0, 1} /\ w \in Named
  BY DEF PathLike, Start
<1>3. b \in Seq(Pieces) /\ b \in Seq(Pieces \cup {Deeper}) /\ Len(b) \in Nat
      /\ \A j \in 1..Len(b) : b[j] \in Pieces
  BY <1>1 DEF Bare
<1>4. /\ u \in Seq(Pieces \cup {Deeper}) /\ Len(u) = Len(b) + 1 /\ u[Len(u)] = Deeper
      /\ \A j \in 1..Len(b) : u[j] = b[j]
  <2>1. Deeper \in Pieces \cup {Deeper}
    OBVIOUS
  <2> QED
    BY <1>1, <1>3, <2>1, AppendProperties
<1> HIDE DEF u, w, q
<1>5. EndsDeeper(u)
  <2>1. \A j \in 1..Len(u) - 1 : u[j] # Deeper
    BY <1>3, <1>4, NamesAre
  <2>2. Len(u) > 1 => u[Len(u) - 1] = w /\ w # "/" /\ w # Levels
    BY <1>1, <1>2, <1>3, <1>4, NamesAre DEF Bare
  <2> QED
    BY <1>3, <1>4, <2>1, <2>2 DEF EndsDeeper
<1>6. ASSUME NEW k, Plain(p, k)
      PROVE  UnderShown(u, p, k)
  <2>0. k \in 1..L /\ k \in Nat /\ q \in Seq(Pieces) /\ Len(q) \in Nat
    <3>1. k \in 1..L
      BY <1>6 DEF Plain
    <3>2. q \in Seq(Pieces)
      BY TextIs DEF q
    <3> QED
      BY <1>2, <3>1, <3>2
  <2>1. Shown(q, p, k)
    BY <1>6, TextIs DEF q
  <2>2. c + 2 * k - 2 <= Len(b)
    <3>1. CASE k < L
      <4>1. Slashes(q, p, k) /\ k \in 1..k
        BY <2>0, <2>1, <3>1 DEF Shown, L
      <4>2. c + 2 * k - 1 <= Len(q)
        BY <4>1 DEF Slashes, c
      <4> QED
        BY <1>1, <1>2, <1>3, <2>0, <4>2 DEF Bare
    <3>2. CASE k = L
      <4>1. Ends(q, p)
        BY <2>1, <3>2 DEF Shown, L
      <4>2. Len(q) = IF IsRoot(w) THEN c + 2 * k - 2 + 1 ELSE c + 2 * k - 2
        BY <3>2, <4>1 DEF Ends, w, c, L
      <4> QED
        BY <1>1, <1>2, <1>3, <2>0, <4>2 DEF Bare
    <3> QED
      BY <1>2, <2>0, <3>1, <3>2
  <2>3. \A j \in 1..Len(b) : u[j] = q[j]
    BY <1>1, <1>4 DEF Bare
  <2>4. NamesIn(u, p, k)
    <3> SUFFICES ASSUME NEW i \in 1..k, c + 2 * i - 2 >= 1
                 PROVE  c + 2 * i - 2 <= Len(u) /\ u[c + 2 * i - 2] = p[i]
      BY DEF NamesIn, c
    <3>1. q[c + 2 * i - 2] = p[i]
      BY <2>1 DEF Shown, NamesIn, c
    <3>2. c + 2 * i - 2 \in 1..Len(b)
      BY <1>2, <1>3, <2>0, <2>2
    <3> QED
      BY <1>2, <1>3, <1>4, <2>0, <2>3, <3>1, <3>2
  <2>5. Slashes(u, p, k - 1)
    <3> SUFFICES ASSUME NEW i \in 1..k - 1
                 PROVE  c + 2 * i - 1 <= Len(u) /\ u[c + 2 * i - 1] = "/"
      BY DEF Slashes, c
    <3>1. q[c + 2 * i - 1] = "/"
      BY <2>1 DEF Shown, Slashes, c
    <3>2. c + 2 * i - 1 \in 1..Len(b)
      BY <1>2, <1>3, <2>0, <2>2
    <3> QED
      BY <1>2, <1>3, <1>4, <2>0, <2>3, <3>1, <3>2
  <2>6. k = L => Len(u) = c + 2 * k - 1
    <3> SUFFICES ASSUME k = L PROVE Len(u) = c + 2 * k - 1
      OBVIOUS
    <3>1. Ends(q, p)
      BY <2>1 DEF Shown, L
    <3>2. Len(q) = IF IsRoot(w) THEN c + 2 * k - 2 + 1 ELSE c + 2 * k - 2
      BY <3>1 DEF Ends, w, c, L
    <3> QED
      BY <1>1, <1>2, <1>3, <1>4, <2>0, <3>2 DEF Bare
  <2> QED
    BY <1>4, <2>4, <2>5, <2>6 DEF UnderShown, c, L
<1> QED
  BY <1>4, <1>5, <1>6 DEF u

-----------------------------------------------------------------------------
\* Directories, and patterns that describe them.

LEMMA SeqWider ==
    ASSUME NEW S, NEW T, S \subseteq T, NEW s \in Seq(S)
    PROVE  s \in Seq(T)
<1>1. Len(s) \in Nat /\ s \in [1..Len(s) -> S]
  OBVIOUS
<1>2. s \in [1..Len(s) -> T]
  BY <1>1
<1> QED
  BY <1>1, <1>2

\* A directory is a path of which all segments show.
LEMMA DirectoryIs ==
    ASSUME NEW R, IsDirectory(R)
    PROVE  /\ PathLike(R) /\ Plain(R, Len(R)) /\ R \in Seq(Words)
           /\ \A i \in 2..Len(R) : ~IsRoot(R[i])
           /\ IsRoot(R[1])
           /\ Shown(Text(R), R, Len(R)) /\ Len(Text(R)) \in Nat
<1>1. /\ R \in Seq(Words) /\ R # <<>>
      /\ \E spelling \in DOMAIN RootOf : R[1] = RootOf[spelling]
      /\ \A i \in DOMAIN R \ {1} : ~IsRoot(R[i]) /\ R[i] # "**"
  BY DEF IsDirectory
<1>2. /\ Len(R) \in Nat \ {0} /\ DOMAIN R = 1..Len(R) /\ R \in Seq(Named)
      /\ \A i \in 2..Len(R) : i \in DOMAIN R \ {1}
  <2>1. Len(R) \in Nat \ {0} /\ DOMAIN R = 1..Len(R)
    BY <1>1
  <2>2. R \in Seq(Named)
    <3>1. Words \subseteq Named
      BY DEF Named
    <3> QED
      BY <1>1, <3>1, SeqWider
  <2>3. \A i \in 2..Len(R) : i \in DOMAIN R \ {1}
    BY <2>1
  <2> QED
    BY <2>1, <2>2, <2>3
<1>3. IsRoot("/") /\ R[1] # "**" /\ IsRoot(R[1])
  BY <1>1, PathsAssumption DEF IsRoot
<1>4. \A i \in 2..Len(R) : ~IsRoot(R[i]) /\ R[i] # "**" /\ R[i] # "/"
  BY <1>1, <1>2, <1>3
<1>5. PathLike(R)
  BY <1>1, <1>2, <1>4 DEF PathLike
<1>6. Plain(R, Len(R))
  BY <1>2, <1>3, <1>4 DEF Plain
<1>7. Shown(Text(R), R, Len(R)) /\ Text(R) \in Seq(Pieces)
  BY <1>5, <1>6, TextIs
<1>8. Len(Text(R)) \in Nat
  BY <1>7
<1> QED
  BY <1>1, <1>3, <1>4, <1>5, <1>6, <1>7, <1>8

\* Every second place of a text holds a name.
LEMMA PlacesAre ==
    ASSUME NEW c \in {0, 1}, NEW j \in Nat \ {0}
    PROVE  \E i \in Nat \ {0} : j = c + 2 * i - 2 \/ j = c + 2 * i - 1
<1> DEFINE Even(l) == \E i \in Nat : l = 2 * i \/ l = 2 * i + 1
           S == {l \in 0..j + 1 : Even(l)}
<1>1. 0 \in S
  OBVIOUS
<1>2. \A l \in 1..j + 1 : l - 1 \in S => l \in S
  <2> SUFFICES ASSUME NEW l \in 1..j + 1, l - 1 \in S PROVE Even(l)
    OBVIOUS
  <2>1. PICK i \in Nat : l - 1 = 2 * i \/ l - 1 = 2 * i + 1
    OBVIOUS
  <2>2. l = 2 * i + 1 \/ (l = 2 * (i + 1) /\ i + 1 \in Nat)
    BY <2>1
  <2> QED
    BY <2>2
<1>3. \A l \in 0..j + 1 : Even(l)
  <2> HIDE DEF S
  <2>1. \A l \in 0..j + 1 : l \in S
    BY <1>1, <1>2, Onwards
  <2> QED
    BY <2>1 DEF S
<1>4. PICK i \in Nat : j + 1 - c = 2 * i \/ j + 1 - c = 2 * i + 1
  <2>1. j + 1 - c \in 0..j + 1
    OBVIOUS
  <2> QED
    BY <1>3, <2>1
<1>5. CASE j + 1 - c = 2 * i
  BY <1>5
<1>6. CASE j + 1 - c = 2 * i + 1
  <2>1. j = c + 2 * (i + 1) - 2 /\ i + 1 \in Nat \ {0}
    BY <1>6
  <2> QED
    BY <2>1
<1> QED
  BY <1>4, <1>5, <1>6

\* The text of a directory: only that of a root ends with a slash.
Stops(R) == IF Len(R) = 1 THEN 1 ELSE Len(R) - 1
DirectoryText(R) ==
    /\ R \in Seq(Named) /\ Len(R) \in Nat \ {0} /\ Start(R) \in {0, 1}
    /\ NamesIn(Text(R), R, Len(R)) /\ Slashes(Text(R), R, Stops(R))
    /\ Len(Text(R)) = IF Len(R) = 1 THEN Start(R) + 1 ELSE Start(R) + 2 * Len(R) - 2

LEMMA DirectoryTextIs ==
    ASSUME NEW R, IsDirectory(R)
    PROVE  DirectoryText(R)
<1> DEFINE L == Len(R)
           c == Start(R)
           t == Text(R)
<1>1. /\ R \in Seq(Named) /\ L \in Nat \ {0} /\ c \in {0, 1}
      /\ \A i \in 2..L : ~IsRoot(R[i])
      /\ IsRoot(R[1])
      /\ NamesIn(t, R, L) /\ Slashes(t, R, L - 1) /\ Ends(t, R)
  <2>1. PathLike(R) /\ Shown(t, R, L) /\ (\A i \in 2..L : ~IsRoot(R[i])) /\ IsRoot(R[1])
    BY DirectoryIs
  <2> QED
    BY <2>1 DEF PathLike, Shown, Start
<1> HIDE DEF L, c, t
<1>2. CASE L = 1
  <2>1. IsRoot(R[L])
    BY <1>1, <1>2
  <2>2. Len(t) = c + 2 * L - 2 + 1 /\ t[c + 2 * L - 2 + 1] = "/"
    BY <1>1, <2>1 DEF Ends, L, c
  <2>3. Len(t) = c + 1 /\ t[c + 1] = "/"
    BY <1>1, <1>2, <2>2
  <2>4. Slashes(t, R, 1)
    BY <1>1, <2>3 DEF Slashes, c
  <2> QED
    BY <1>1, <1>2, <2>3, <2>4 DEF DirectoryText, Stops, L, c, t
<1>3. CASE L # 1
  <2>1. ~IsRoot(R[L])
    BY <1>1, <1>3
  <2>2. Len(t) = c + 2 * L - 2
    BY <1>1, <2>1 DEF Ends, L, c
  <2> QED
    BY <1>1, <1>3, <2>2 DEF DirectoryText, Stops, L, c, t
<1> QED
  BY <1>2, <1>3

\* One directory at or above another.
Above(D, H) == Len(D) <= Len(H) /\ \A i \in 1..Len(D) : D[i] = H[i]

\* The text of a directory goes on in that of every directory below it.
LEMMA AboveGoesOn ==
    ASSUME NEW D, IsDirectory(D), NEW H, IsDirectory(H), Above(D, H)
    PROVE  GoesOn(Text(D), Text(H))
<1> DEFINE t == Text(D)
           u == Text(H)
           d == Len(D)
           h == Len(H)
           n == Len(t)
           N == Len(u)
           c == Start(D)
<1>1. /\ d \in Nat \ {0} /\ h \in Nat \ {0} /\ d <= h /\ c \in {0, 1} /\ Start(H) = c
      /\ \A i \in 1..d : D[i] = H[i]
  <2>1. DirectoryText(D) /\ DirectoryText(H)
    BY DirectoryTextIs
  <2>2. d \in Nat \ {0} /\ h \in Nat \ {0} /\ d <= h /\ c \in {0, 1} /\ \A i \in 1..d : D[i] = H[i]
    BY <2>1 DEF DirectoryText, Above
  <2>3. 1 \in 1..d
    BY <2>2
  <2> QED
    BY <2>2, <2>3 DEF Start
<1>2. /\ NamesIn(t, D, d) /\ Slashes(t, D, Stops(D))
      /\ n = IF d = 1 THEN c + 1 ELSE c + 2 * d - 2
      /\ NamesIn(u, H, h) /\ Slashes(u, H, Stops(H))
      /\ N = IF h = 1 THEN c + 1 ELSE c + 2 * h - 2
  <2>1. DirectoryText(D) /\ DirectoryText(H)
    BY DirectoryTextIs
  <2> QED
    BY <1>1, <2>1 DEF DirectoryText
<1> HIDE DEF t, u, d, h, n, N, c
<1>3. /\ \A i \in 1..d : c + 2 * i - 2 >= 1 => t[c + 2 * i - 2] = D[i]
      /\ \A i \in 1..Stops(D) : t[c + 2 * i - 1] = "/"
      /\ \A i \in 1..h : c + 2 * i - 2 >= 1 => u[c + 2 * i - 2] = H[i]
      /\ \A i \in 1..Stops(H) : u[c + 2 * i - 1] = "/"
  BY <1>1, <1>2 DEF NamesIn, Slashes, c
<1>4. Stops(D) = (IF d = 1 THEN 1 ELSE d - 1) /\ Stops(H) = (IF h = 1 THEN 1 ELSE h - 1)
  BY DEF Stops, d, h
<1>5. n \in Nat \ {0} /\ N \in Nat /\ n <= N
  BY <1>1, <1>2
<1>6. ASSUME NEW j \in 1..n
      PROVE  u[j] = t[j]
  <2>1. PICK i \in Nat \ {0} : j = c + 2 * i - 2 \/ j = c + 2 * i - 1
    <3>1. j \in Nat \ {0}
      BY <1>5
    <3> QED
      BY <1>1, <3>1, PlacesAre
  <2>2. CASE j = c + 2 * i - 2
    <3>1. i \in 1..d /\ i \in 1..h /\ c + 2 * i - 2 >= 1
      BY <1>1, <1>2, <1>5, <2>2
    <3> QED
      BY <1>1, <1>3, <2>2, <3>1
  <2>3. CASE j = c + 2 * i - 1
    <3>1. i \in 1..Stops(D) /\ i \in 1..Stops(H)
      BY <1>1, <1>2, <1>4, <1>5, <2>3
    <3> QED
      BY <1>3, <2>3, <3>1
  <2> QED
    BY <2>1, <2>2, <2>3
<1>7. \/ n < N => u[n + 1] = "/"
      \/ t[n] = "/" /\ (n + 1 < N => u[n + 2] = "/")
  <2>1. CASE h = d
    BY <1>1, <1>2, <1>5, <2>1
  <2>2. CASE d < h /\ d # 1
    <3>1. n + 1 = c + 2 * d - 1 /\ d \in 1..Stops(H)
      BY <1>1, <1>2, <1>4, <2>2
    <3> QED
      BY <1>3, <3>1
  <2>3. CASE d < h /\ d = 1
    <3>1. n = c + 2 * 1 - 1 /\ 1 \in 1..Stops(D)
      BY <1>1, <1>2, <1>4, <2>3
    <3>2. t[n] = "/"
      BY <1>3, <3>1
    <3>3. n + 1 < N => n + 2 = c + 2 * 2 - 1 /\ 2 \in 1..Stops(H)
      BY <1>1, <1>2, <1>4, <2>3
    <3> QED
      BY <1>3, <3>2, <3>3
  <2> QED
    BY <1>1, <2>1, <2>2, <2>3
<1> QED
  BY <1>5, <1>6, <1>7 DEF GoesOn, n, N, t, u

\* A pattern's segment and a name.
Local(piece, name) == piece = "*" \/ Describes(piece, name)

RootFirst(q, p) == Start(p) = 0 => Len(q) >= 1 /\ q[1] \in {"/", Deeper}

\* Where both have a segment, the table is true, and the segments fit.
Row(M, R, p, k) ==
    \A i \in 1..k : Start(p) + 2 * i - 2 >= 1 =>
        M[Start(p) + 2 * i - 2][Start(p) + 2 * i - 2] /\ Local(p[i], R[i])

LEMMA SlashPiece ==
    ASSUME NEW t, NEW q, NEW M, Len(t) \in Nat, Len(q) \in Nat, NEW i \in 1..Len(q), NEW j \in 1..Len(t),
           MatchesFrom(t, q, M, i, j), q[i] \in {"/", Deeper}
    PROVE  t[j] = "/"
BY DEF MatchesFrom, Levels, Deeper

LEMMA NamePiece ==
    ASSUME NEW t, NEW q, NEW M, Len(t) \in Nat, Len(q) \in Nat, NEW i \in 1..Len(q), NEW j \in 1..Len(t),
           MatchesFrom(t, q, M, i, j), q[i] \notin {"/", "*", "**", Levels, Deeper}
    PROVE  Describes(q[i], t[j])
BY DEF MatchesFrom

\* Up to its first "**" a pattern describes a directory segment by segment.
LEMMA Aligned ==
    ASSUME NEW R, IsDirectory(R), NEW p, PathLike(p), p[1] # "*",
           NEW k, Plain(p, k), k <= Len(R),
           NEW q, Len(q) \in Nat, NamesIn(q, p, k), Slashes(q, p, k - 1), RootFirst(q, p),
           NEW M, IsTable(M, Text(R), q), M[1][1]
    PROVE  Start(p) = Start(R) /\ Row(M, R, p, k)
<1> DEFINE t == Text(R)
           n == Len(t)
           m == Len(q)
           c == Start(p)
           d == Start(R)
           h == Len(R)
<1>1. /\ k \in Nat \ {0} /\ k <= h /\ h \in Nat \ {0} /\ m \in Nat /\ n \in Nat
      /\ c \in {0, 1} /\ d \in {0, 1}
      /\ NamesIn(t, R, h) /\ Slashes(t, R, Stops(R))
      /\ \A i \in 1..k : p[i] \notin {"**", Levels, Deeper} /\ R[i] \in Named
      /\ \A i \in 2..k : p[i] # "/" /\ R[i] # "/"
      /\ p[1] # "*" /\ (c = 0 <=> p[1] = "/") /\ (d = 0 <=> R[1] = "/")
  <2>1. DirectoryText(R) /\ PathLike(R) /\ PathLike(p) /\ Len(Text(R)) \in Nat
    BY DirectoryTextIs, DirectoryIs
  <2>2. k \in 1..Len(p) /\ \A i \in 1..k : p[i] # "**"
    BY DEF Plain
  <2>3. /\ Len(p) \in Nat \ {0} /\ p \in Seq(Named) /\ \A i \in 2..Len(p) : p[i] # "/"
        /\ h \in Nat \ {0} /\ R \in Seq(Named) /\ \A i \in 2..h : R[i] # "/"
    BY <2>1 DEF PathLike
  <2>4. \A i \in 1..k : i \in 1..Len(p) /\ i \in 1..h
    BY <2>2, <2>3
  <2>5. \A i \in 1..k : p[i] \in Named /\ R[i] \in Named
    BY <2>3, <2>4
  <2>6. \A i \in 2..k : i \in 2..Len(p) /\ i \in 2..h
    BY <2>2, <2>3
  <2>7. NamesIn(t, R, h) /\ Slashes(t, R, Stops(R))
    BY <2>1 DEF DirectoryText
  <2>8. (c = 0 <=> p[1] = "/") /\ (d = 0 <=> R[1] = "/") /\ c \in {0, 1} /\ d \in {0, 1}
    BY DEF Start
  <2>9. \A i \in 1..k : p[i] \notin {"**", Levels, Deeper}
    BY <2>2, <2>5, NamesAre
  <2>10. k \in Nat \ {0} /\ m \in Nat /\ n \in Nat
    BY <2>1, <2>2, <2>3
  <2> HIDE DEF t, n, m, c, d, h
  <2>11. k <= h
    BY DEF h
  <2> QED
    BY <2>3, <2>5, <2>6, <2>7, <2>8, <2>9, <2>10, <2>11
<1>2. \A i \in 1..m + 1 : \A j \in 1..n + 1 : M[i][j] = MatchesFrom(t, q, M, i, j)
  BY DEF IsTable
<1> HIDE DEF t, n, m, c, d, h
<1>3. /\ \A i \in 1..k : c + 2 * i - 2 >= 1 => c + 2 * i - 2 <= m /\ q[c + 2 * i - 2] = p[i]
      /\ \A i \in 1..k - 1 : c + 2 * i - 1 <= m /\ q[c + 2 * i - 1] = "/"
      /\ c = 0 => m >= 1 /\ q[1] \in {"/", Deeper}
  BY DEF NamesIn, Slashes, RootFirst, c, m
<1>4. /\ \A i \in 1..k : d + 2 * i - 2 >= 1 => d + 2 * i - 2 <= n /\ t[d + 2 * i - 2] = R[i]
      /\ n >= 1 /\ (d = 0 => t[1] = "/") /\ (d = 1 => t[1] # "/")
  <2>1. /\ \A i \in 1..h : d + 2 * i - 2 >= 1 => d + 2 * i - 2 <= n /\ t[d + 2 * i - 2] = R[i]
        /\ \A i \in 1..Stops(R) : d + 2 * i - 1 <= n /\ t[d + 2 * i - 1] = "/"
    BY <1>1 DEF NamesIn, Slashes, d, n
  <2>2. 1 \in 1..Stops(R) /\ 1 \in 1..h
    <3>1. Stops(R) = IF h = 1 THEN 1 ELSE h - 1
      BY DEF Stops, h
    <3> QED
      BY <1>1, <3>1
  <2>3. d + 2 * 1 - 1 <= n /\ t[d + 2 * 1 - 1] = "/" /\ (d = 1 => t[1] = R[1])
    BY <2>1, <2>2
  <2> QED
    BY <1>1, <2>1, <2>3
<1>5. MatchesFrom(t, q, M, 1, 1)
  <2>1. 1 \in 1..m + 1 /\ 1 \in 1..n + 1
    BY <1>1
  <2> QED
    BY <1>2, <2>1
<1>6. c = d
  <2>1. CASE c = 0
    <3>1. 1 \in 1..m /\ 1 \in 1..n /\ q[1] \in {"/", Deeper}
      BY <1>1, <1>3, <1>4, <2>1
    <3>2. t[1] = "/"
      BY <1>1, <1>5, <3>1, SlashPiece DEF m, n
    <3> QED
      BY <1>1, <1>4, <2>1, <3>2
  <2>2. CASE c = 1
    <3>1. 1 \in 1..k /\ c + 2 * 1 - 2 = 1
      BY <1>1, <2>2
    <3>2. m >= 1 /\ q[1] = p[1] /\ p[1] \notin {"/", "*", "**", Levels, Deeper}
      BY <1>1, <1>3, <2>2, <3>1
    <3>3. Describes(q[1], t[1])
      <4>1. 1 \in 1..m /\ 1 \in 1..n
        BY <1>1, <1>4, <3>2
      <4>2. q[1] \notin {"/", "*", "**", Levels, Deeper}
        BY <3>2
      <4> QED
        BY <1>1, <1>5, <4>1, <4>2, NamePiece DEF m, n
    <3>4. t[1] # "/"
      BY <3>3 DEF Describes
    <3> QED
      BY <1>1, <1>4, <2>2, <3>4
  <2> QED
    BY <1>1, <2>1, <2>2
<1>7. ASSUME NEW i \in 1..k, NEW s \in Nat, s = c + 2 * i - 2, s >= 1, M[s][s]
      PROVE  Local(p[i], R[i]) /\ (i < k => M[s + 1][s + 1])
  <2>1. s <= m /\ q[s] = p[i] /\ s <= n /\ t[s] = R[i]
    BY <1>3, <1>4, <1>6, <1>7
  <2>2. p[i] \notin {"/", "**", Levels, Deeper} /\ R[i] # "/"
    <3>1. i = 1 \/ i \in 2..k
      BY <1>1
    <3>2. i = 1 => c = 1
      BY <1>1, <1>7
    <3> QED
      BY <1>1, <1>6, <3>1, <3>2
  <2>3. s \in 1..m + 1 /\ s \in 1..n + 1 /\ s + 1 \in 1..m + 1
    BY <1>1, <1>7, <2>1
  <2>4. MatchesFrom(t, q, M, s, s)
    BY <1>2, <1>7, <2>3
  <2>5. \/ p[i] = "*" /\ (M[s + 1][s] \/ M[s + 1][s + 1])
        \/ Describes(p[i], R[i]) /\ M[s + 1][s + 1]
    BY <1>1, <1>7, <2>1, <2>2, <2>4 DEF MatchesFrom, m, n
  <2>6. ASSUME i < k
        PROVE  ~M[s + 1][s]
    <3>1. s + 1 = c + 2 * i - 1 /\ i \in 1..k - 1
      <4>1. i \in Nat /\ k \in Nat /\ 1 <= i /\ i < k /\ c \in Nat /\ s = c + 2 * i - 2
        BY <1>1, <1>7, <2>6
      <4> QED
        BY <4>1
    <3>2. s + 1 <= m /\ q[s + 1] = "/"
      BY <1>3, <3>1
    <3>3. M[s + 1][s] = MatchesFrom(t, q, M, s + 1, s)
      BY <1>2, <2>3
    <3>4. ~MatchesFrom(t, q, M, s + 1, s)
      BY <1>1, <1>7, <2>1, <2>2, <3>2 DEF MatchesFrom, m, n, Levels, Deeper
    <3> QED
      BY <3>3, <3>4
  <2> QED
    BY <2>5, <2>6 DEF Local
<1>8. ASSUME NEW i \in 1..k - 1, NEW s \in Nat, s = c + 2 * i - 1, M[s][s]
      PROVE  M[s + 1][s + 1]
  <2>1. i \in 1..k /\ s >= 1 /\ (s = 1 \/ (c + 2 * i - 2 >= 1 /\ s - 1 = c + 2 * i - 2))
    BY <1>1, <1>8
  <2>2. s <= m /\ q[s] = "/" /\ s <= n + 1
    <3>1. s - 1 <= n
      BY <1>1, <1>4, <1>6, <1>8, <2>1
    <3> QED
      BY <1>1, <1>3, <1>8, <3>1
  <2>3. s \in 1..m + 1 /\ s \in 1..n + 1
    BY <1>1, <2>1, <2>2
  <2>4. MatchesFrom(t, q, M, s, s)
    BY <1>2, <1>8, <2>3
  <2> QED
    BY <1>1, <1>8, <2>1, <2>2, <2>4 DEF MatchesFrom, m, n, Levels, Deeper
<1> DEFINE Good(i) == c + 2 * i - 2 >= 1 => M[c + 2 * i - 2][c + 2 * i - 2]
           S == {i \in 0..k - 1 : Good(i + 1)}
<1>9. Good(1)
  <2>1. c + 2 * 1 - 2 = c
    BY <1>1
  <2> QED
    BY <1>1, <2>1
<1>10. ASSUME NEW i \in 1..k - 1, Good(i)
       PROVE  Good(i + 1)
  <2> DEFINE s == c + 2 * i - 2
  <2>1. /\ i \in 1..k /\ i < k /\ s \in Nat /\ s + 1 \in Nat /\ s + 1 = c + 2 * i - 1
        /\ s + 1 + 1 = c + 2 * (i + 1) - 2
        /\ s >= 1 \/ s + 1 = 1
    BY <1>1
  <2>2. s >= 1 => M[s][s]
    BY <1>10
  <2> HIDE DEF s
  <2>3. M[s + 1][s + 1]
    BY <1>7, <2>1, <2>2 DEF s
  <2>4. M[s + 1 + 1][s + 1 + 1]
    <3> DEFINE r == s + 1
    <3>1. r \in Nat /\ r = c + 2 * i - 1 /\ M[r][r]
      BY <2>1, <2>3
    <3> HIDE DEF r
    <3>2. M[r + 1][r + 1]
      BY <1>8, <3>1
    <3> QED
      BY <3>2 DEF r
  <2> QED
    BY <2>1, <2>4
<1>11. \A i \in 1..k : Good(i)
  <2>1. 0 \in S
    <3>1. 0 + 1 = 1 /\ 0 \in 0..k - 1
      BY <1>1
    <3> HIDE DEF Good
    <3> QED
      BY <1>9, <3>1
  <2>2. \A i \in 1..k - 1 : i - 1 \in S => i \in S
    <3> SUFFICES ASSUME NEW i \in 1..k - 1, i - 1 \in S PROVE i \in S
      OBVIOUS
    <3>1. i - 1 + 1 = i /\ i \in 0..k - 1
      BY <1>1
    <3> HIDE DEF Good
    <3>2. Good(i)
      BY <3>1
    <3> QED
      BY <1>10, <3>1, <3>2
  <2>3. \A i \in 0..k - 1 : i \in S
    <3>1. k - 1 \in Nat
      BY <1>1
    <3> HIDE DEF S
    <3> QED
      BY <2>1, <2>2, <3>1, Onwards
  <2> SUFFICES ASSUME NEW i \in 1..k PROVE Good(i)
    OBVIOUS
  <2>4. i - 1 \in 0..k - 1 /\ i - 1 + 1 = i
    BY <1>1
  <2> HIDE DEF Good
  <2> QED
    BY <2>3, <2>4
<1>12. ASSUME NEW i \in 1..k, c + 2 * i - 2 >= 1
       PROVE  M[c + 2 * i - 2][c + 2 * i - 2] /\ Local(p[i], R[i])
  <2> DEFINE s == c + 2 * i - 2
  <2>1. s \in Nat /\ s >= 1
    BY <1>1, <1>12
  <2>2. M[s][s]
    BY <1>11, <1>12
  <2> HIDE DEF s
  <2>3. Local(p[i], R[i])
    BY <1>7, <2>1, <2>2 DEF s
  <2> QED
    BY <2>2, <2>3 DEF s
<1> QED
  BY <1>6, <1>12 DEF Row, c, d

\* What is below a directory is below what is above it.
LEMMA UnderStays ==
    ASSUME NEW D, IsDirectory(D), NEW H, IsDirectory(H), Above(D, H), NEW p, PathLike(p),
           IsUnder(D, p)
    PROVE  IsUnder(H, p)
<1>1. GoesOn(Text(D), Text(H)) /\ EndsDeeper(UnderPieces(p))
  BY AboveGoesOn, UnderIs
<1> QED
  BY <1>1, LongerMatches DEF IsUnder

\* A pattern's pieces show the segments in front of its first "**".
ShowsPlain(q, p) ==
    /\ Len(q) \in Nat /\ RootFirst(q, p)
    /\ \A k : Plain(p, k) => NamesIn(q, p, k) /\ Slashes(q, p, k - 1)

\* Both kinds of patterns show so much.
LEMMA TextShows ==
    ASSUME NEW p, PathLike(p)
    PROVE  ShowsPlain(Text(p), p) /\ ShowsPlain(UnderPieces(p), p)
<1> DEFINE q == Text(p)
           u == UnderPieces(p)
<1>1. q \in Seq(Pieces) /\ u \in Seq(Pieces \cup {Deeper})
  BY TextIs, UnderIs
<1>2. Len(q) \in Nat /\ Len(u) \in Nat
  <2> HIDE DEF q, u
  <2> QED
    BY <1>1
<1>3. \A k : Plain(p, k) => /\ NamesIn(q, p, k) /\ Slashes(q, p, k - 1)
                            /\ NamesIn(u, p, k) /\ Slashes(u, p, k - 1)
  <2> SUFFICES ASSUME NEW k, Plain(p, k)
               PROVE  /\ NamesIn(q, p, k) /\ Slashes(q, p, k - 1)
                      /\ NamesIn(u, p, k) /\ Slashes(u, p, k - 1)
    OBVIOUS
  <2>1. Shown(q, p, k) /\ UnderShown(u, p, k)
    BY TextIs, UnderIs
  <2> QED
    BY <2>1 DEF Shown, UnderShown
<1>4. ASSUME Start(p) = 0
      PROVE  Len(q) >= 1 /\ q[1] = "/"
  <2>1. p[1] = "/" /\ Len(p) \in Nat \ {0}
    BY <1>4 DEF Start, PathLike
  <2>2. Plain(p, 1)
    BY <2>1 DEF Plain
  <2>3. Shown(q, p, 1)
    BY <2>2, TextIs
  <2>4. CASE 1 < Len(p)
    <3>1. Slashes(q, p, 1)
      BY <2>3, <2>4 DEF Shown
    <3>2. 1 \in 1..1 /\ Start(p) + 2 * 1 - 1 = 1
      BY <1>4
    <3> QED
      BY <3>1, <3>2 DEF Slashes
  <2>5. CASE 1 = Len(p)
    <3>1. Ends(q, p)
      BY <2>3, <2>5 DEF Shown
    <3>2. IsRoot(p[Len(p)]) /\ Start(p) + 2 * Len(p) - 2 = 0
      <4>1. IsRoot("/")
        BY PathsAssumption DEF IsRoot
      <4>2. p[Len(p)] = "/" /\ Len(p) = 1
        BY <2>1, <2>5
      <4> QED
        BY <1>4, <4>1, <4>2
    <3>3. Len(q) = 0 + 1 /\ q[0 + 1] = "/"
      BY <3>1, <3>2 DEF Ends
    <3> QED
      BY <3>3
  <2> QED
    BY <2>1, <2>4, <2>5
<1>5. ASSUME Start(p) = 0
      PROVE  Len(u) >= 1 /\ u[1] \in {"/", Deeper}
  <2>1. PICK b : Bare(b, q, p[Len(p)]) /\ u = Append(b, Deeper)
    BY UnderBare
  <2> HIDE DEF u, q
  <2>2. b \in Seq(Pieces \cup {Deeper}) /\ Len(b) \in Nat /\ \A j \in 1..Len(b) : b[j] = q[j]
    <3>1. b \in Seq(Pieces)
      BY <2>1 DEF Bare
    <3>2. b \in Seq(Pieces \cup {Deeper})
      BY <3>1, SeqWider
    <3> QED
      BY <2>1, <3>1, <3>2 DEF Bare
  <2>3. /\ Len(u) = Len(b) + 1 /\ u[Len(u)] = Deeper /\ \A j \in 1..Len(b) : u[j] = b[j]
    <3>1. Deeper \in Pieces \cup {Deeper}
      OBVIOUS
    <3> QED
      BY <2>1, <2>2, <3>1, AppendProperties
  <2> QED
    BY <1>4, <1>5, <2>2, <2>3
<1> QED
  BY <1>2, <1>3, <1>4, <1>5 DEF ShowsPlain, RootFirst

\* What describes a directory may name what is above it, or ends above it.
LEMMA MayNameAbove ==
    ASSUME NEW R, IsDirectory(R), NEW D, Above(D, R), Len(D) \in Nat \ {0}, DOMAIN D = 1..Len(D),
           NEW p, PathLike(p), p[1] # "*", NEW q, ShowsPlain(q, p), FullMatch(Text(R), q)
    PROVE  Below(p, D) \/ (Len(p) < Len(D) /\ Plain(p, Len(p)))
<1> DEFINE open == {i \in DOMAIN p : p[i] = "**"}
           upto == IF open = {} THEN Len(D) ELSE Min(open) - 1
           L == Len(p)
           d == Len(D)
<1>1. L \in Nat \ {0} /\ DOMAIN p = 1..L /\ d \in Nat \ {0}
  BY DEF PathLike
<1>2. PICK M : IsTable(M, Text(R), q) /\ FullMatch(Text(R), q) = M[1][1]
  <2>1. Len(Text(R)) \in Nat /\ Len(q) \in Nat
    BY DirectoryIs DEF ShowsPlain
  <2> QED
    BY <2>1, FullMatchIs
<1>3. ASSUME NEW k, Plain(p, k), k \in 1..d
      PROVE  Fits(D[k], p[k])
  <2>1. k <= Len(R) /\ D[k] = R[k] /\ D[1] = R[1] /\ k \in Nat
    <3>1. Len(D) <= Len(R) /\ \A i \in 1..d : D[i] = R[i]
      BY DEF Above
    <3>2. Len(R) \in Nat /\ 1 \in 1..d
      BY <1>1, DirectoryTextIs DEF DirectoryText
    <3> HIDE DEF d
    <3>3. d <= Len(R)
      BY <3>1 DEF d
    <3> QED
      BY <1>1, <1>3, <3>1, <3>2, <3>3
  <2>2. Start(p) = Start(R) /\ Row(M, R, p, k)
    BY <1>2, <1>3, <2>1, Aligned DEF ShowsPlain
  <2>3. CASE Start(p) + 2 * k - 2 >= 1
    <3>1. k \in 1..k
      BY <1>3
    <3> QED
      BY <2>1, <2>2, <2>3, <3>1 DEF Row, Local, Fits
  <2>4. CASE ~(Start(p) + 2 * k - 2 >= 1)
    <3>1. Start(p) = 0 /\ k = 1
      BY <1>3, <2>4 DEF Start
    <3> QED
      BY <2>1, <2>2, <3>1 DEF Start, Fits
  <2> QED
    BY <2>3, <2>4
<1>4. open # {} => /\ Min(open) \in open /\ \A i \in open : Min(open) <= i
  <2>1. open \subseteq Nat
    BY <1>1
  <2> HIDE DEF open
  <2> QED
    BY <2>1, LeastNumber DEF Min
<1>5. ASSUME L >= d \/ \E i \in open : i <= d
      PROVE  Below(p, D)
  <2> SUFFICES ASSUME NEW i \in 1..d, i <= upto PROVE Fits(D[i], p[i])
    BY <1>5 DEF Below
  <2>1. i <= L /\ \A j \in 1..i : j \notin open
    <3>1. CASE open = {}
      BY <1>1, <1>5, <3>1
    <3>2. CASE open # {}
      <4>1. Min(open) \in 1..L /\ i <= Min(open) - 1 /\ \A j \in open : Min(open) <= j
        BY <1>1, <1>4, <3>2
      <4> HIDE DEF open, L
      <4> QED
        BY <1>1, <4>1
    <3> QED
      BY <3>1, <3>2
  <2>2. \A j \in 1..i : p[j] # "**"
    BY <1>1, <2>1
  <2>3. Plain(p, i)
    BY <1>1, <2>1, <2>2 DEF Plain
  <2> QED
    BY <1>3, <2>3
<1>6. ASSUME ~(L >= d \/ \E i \in open : i <= d)
      PROVE  L < d /\ Plain(p, L)
  <2>1. L < d
    BY <1>1, <1>6
  <2>2. \A i \in 1..L : p[i] # "**"
    BY <1>1, <1>6, <2>1
  <2> QED
    BY <1>1, <2>1, <2>2 DEF Plain
<1> QED
  BY <1>5, <1>6

\* What describes a directory whole does not end above it.
LEMMA NamesAbove ==
    ASSUME NEW R, IsDirectory(R), NEW D, Above(D, R), Len(D) \in Nat \ {0}, DOMAIN D = 1..Len(D),
           NEW p, PathLike(p), p[1] # "*", MatchesGlob(R, p)
    PROVE  Below(p, D)
<1> DEFINE t == Text(R)
           q == Text(p)
           n == Len(t)
           m == Len(q)
           L == Len(p)
           c == Start(p)
           h == Len(R)
<1>1. ShowsPlain(q, p) /\ FullMatch(t, q)
  BY TextShows DEF MatchesGlob
<1>2. Below(p, D) \/ (L < Len(D) /\ Plain(p, L))
  BY <1>1, MayNameAbove
<1>3. SUFFICES ASSUME L < Len(D), Plain(p, L)
               PROVE  FALSE
  BY <1>2
<1>4. /\ L \in Nat \ {0} /\ L < h /\ h \in Nat \ {0} /\ m \in Nat /\ n \in Nat /\ c \in {0, 1}
      /\ p[L] \notin {"**", Levels, Deeper} /\ (L > 1 => p[L] # "/")
      /\ Ends(q, p) /\ NamesIn(q, p, L)
  <2>1. L \in Nat \ {0} /\ p \in Seq(Named) /\ \A i \in 2..L : p[i] # "/"
    BY DEF PathLike
  <2>2. p[L] \in Named /\ p[L] # "**"
    BY <1>3, <2>1 DEF Plain
  <2>3. Shown(q, p, L)
    BY <1>3, TextIs
  <2>4. h \in Nat \ {0} /\ n \in Nat
    BY DirectoryTextIs, DirectoryIs DEF DirectoryText
  <2>5. L > 1 => p[L] # "/"
    <3> SUFFICES ASSUME L > 1 PROVE p[L] # "/"
      OBVIOUS
    <3>1. L \in 2..L
      BY <2>1
    <3> QED
      BY <2>1, <3>1
  <2>6. p[L] \notin {"**", Levels, Deeper}
    BY <2>2, NamesAre
  <2>7. m \in Nat
    BY <1>1 DEF ShowsPlain
  <2>8. c \in {0, 1}
    BY DEF Start
  <2> HIDE DEF L, h, n, m, c
  <2>9. L < h
    BY <1>3, <2>1, <2>4 DEF Above, h
  <2> QED
    BY <2>1, <2>3, <2>4, <2>5, <2>6, <2>7, <2>8, <2>9 DEF Shown, L
<1>5. PICK M : IsTable(M, t, q) /\ M[1][1]
  <2>1. \E M : IsTable(M, t, q) /\ FullMatch(t, q) = M[1][1]
    BY <1>4, FullMatchIs
  <2> HIDE DEF t, q
  <2> QED
    BY <1>1, <2>1
<1>6. c = Start(R) /\ Row(M, R, p, L)
  <2>1. L <= Len(R) /\ Plain(p, L) /\ M[1][1]
    BY <1>3, <1>4, <1>5
  <2>2. Len(q) \in Nat /\ NamesIn(q, p, L) /\ Slashes(q, p, L - 1) /\ RootFirst(q, p)
    BY <1>1, <1>3 DEF ShowsPlain
  <2> HIDE DEF t, q, n, m, L, c, h
  <2>3. IsTable(M, Text(R), q)
    BY <1>5 DEF t
  <2> QED
    BY <2>1, <2>2, <2>3, Aligned DEF c
<1>7. \A i \in 1..m + 1 : \A j \in 1..n + 1 : M[i][j] = MatchesFrom(t, q, M, i, j)
  BY <1>5 DEF IsTable
<1> HIDE DEF t, q, n, m, L, c, h
<1>8. /\ m = IF IsRoot(p[L]) THEN c + 2 * L - 2 + 1 ELSE c + 2 * L - 2
      /\ IsRoot(p[L]) => q[c + 2 * L - 2 + 1] = "/"
      /\ c + 2 * L - 2 >= 1 => q[c + 2 * L - 2] = p[L]
  <2>1. L \in 1..L
    BY <1>4
  <2> QED
    BY <1>4, <2>1 DEF Ends, NamesIn, m, c, L
<1>9. c + 2 * L <= n /\ (c + 2 * L - 2 >= 1 => t[c + 2 * L - 2] = R[L] /\ (p[L] = "*" => R[L] # "/"))
  <2>1. NamesIn(t, R, h) /\ PathLike(R)
    BY DirectoryTextIs, DirectoryIs DEF DirectoryText, t, h
  <2>2. \A i \in 1..h : c + 2 * i - 2 >= 1 => c + 2 * i - 2 <= n /\ t[c + 2 * i - 2] = R[i]
    BY <1>6, <2>1 DEF NamesIn, n
  <2>3. L \in 1..h /\ L + 1 \in 1..h /\ c + 2 * (L + 1) - 2 = c + 2 * L /\ c + 2 * L >= 1
    BY <1>4
  <2>4. (L > 1 => R[L] # "/") /\ (L = 1 /\ c = 1 => R[L] # "/")
    <3>1. \A i \in 2..h : R[i] # "/"
      BY <2>1 DEF PathLike, h
    <3>2. c = 1 => R[1] # "/"
      BY <1>6 DEF Start
    <3>3. L > 1 => L \in 2..h
      BY <1>4
    <3> QED
      BY <3>1, <3>2, <3>3
  <2>5. c + 2 * L - 2 >= 1 => L > 1 \/ c = 1
    BY <1>4
  <2> QED
    BY <1>4, <2>2, <2>3, <2>4, <2>5
<1> DEFINE s == c + 2 * L - 2
<1>10. s \in Nat /\ s + 2 <= n
  BY <1>4, <1>9
\* Nothing is left of the pattern, and something of the text.
<1>11. \A j \in 1..s + 1 : ~M[s + 1][j]
  <2> SUFFICES ASSUME NEW j \in 1..s + 1, M[s + 1][j] PROVE FALSE
    OBVIOUS
  <2>1. CASE ~IsRoot(p[L])
    <3>1. m = s /\ s + 1 \in 1..m + 1 /\ j \in 1..n + 1 /\ ~(j > n) /\ ~(s + 1 <= m)
      BY <1>4, <1>8, <1>10, <2>1
    <3> HIDE DEF s
    <3>2. MatchesFrom(t, q, M, s + 1, j)
      BY <1>7, <3>1
    <3> QED
      BY <3>1, <3>2 DEF MatchesFrom, n, m
  <2>2. CASE IsRoot(p[L])
    <3>0. m = s + 1 /\ q[s + 1] = "/"
      BY <1>8, <2>2
    <3>1. m = s + 1 /\ q[s + 1] = "/" /\ s + 1 \in 1..m + 1 /\ j \in 1..n + 1 /\ s + 2 \in 1..m + 1
      <4> HIDE DEF s
      <4> QED
        BY <1>4, <1>10, <3>0
    <3>2. j \in Nat /\ j + 1 \in 1..n + 1 /\ ~(j + 1 > n) /\ ~(s + 2 <= m)
      BY <1>4, <1>10, <3>1
    <3> HIDE DEF s
    <3>3. MatchesFrom(t, q, M, s + 1, j)
      BY <1>7, <3>1
    <3>4. M[s + 2][j + 1]
      BY <1>10, <3>1, <3>3 DEF MatchesFrom, n, m, Levels, Deeper
    <3>5. MatchesFrom(t, q, M, s + 2, j + 1)
      BY <1>7, <3>1, <3>2, <3>4
    <3> QED
      BY <3>2, <3>5 DEF MatchesFrom, n, m
  <2> QED
    BY <2>1, <2>2
<1>12. CASE s >= 1
  <2>1. M[s][s] /\ q[s] = p[L] /\ t[s] = R[L]
    <3>1. L \in 1..L
      BY <1>4
    <3> QED
      BY <1>6, <1>8, <1>9, <1>12, <3>1 DEF Row, c
  <2>2. s \in 1..m + 1 /\ s <= m /\ s \in 1..n + 1 /\ s <= n /\ s \in 1..s + 1 /\ s + 1 \in 1..s + 1
    BY <1>4, <1>8, <1>10, <1>12
  <2>3. p[L] # "/"
    <3>1. L > 1 \/ c = 1
      BY <1>4, <1>12
    <3> QED
      BY <1>4, <3>1 DEF Start, c
  <2> HIDE DEF s
  <2>4. MatchesFrom(t, q, M, s, s)
    BY <1>7, <2>1, <2>2
  <2>5. M[s + 1][s] \/ M[s + 1][s + 1]
    BY <1>4, <2>1, <2>2, <2>3, <2>4 DEF MatchesFrom, n, m
  <2> QED
    BY <1>11, <2>2, <2>5
<1>13. CASE ~(s >= 1)
  <2>1. s = 0 /\ c = 0 /\ L = 1 /\ 1 \in 1..s + 1
    BY <1>4, <1>13
  <2>2. M[s + 1][1]
    <3>1. M[1][1] /\ s + 1 = 1
      BY <1>5, <2>1
    <3> HIDE DEF s
    <3> QED
      BY <3>1
  <2> QED
    BY <1>11, <2>1, <2>2
<1> QED
  BY <1>12, <1>13

\* What ends above a directory, and describes what is above it, is a pattern
\* of what the directory lies below.
LEMMA EndsAbove ==
    ASSUME NEW D, IsDirectory(D), NEW p, PathLike(p), Plain(p, Len(p)), Len(p) < Len(D),
           Start(p) = Start(D),
           \A i \in 1..Len(p) : Start(p) + 2 * i - 2 >= 1 => Local(p[i], D[i])
    PROVE  IsUnder(D, p)
<1> DEFINE t == Text(D)
           q == UnderPieces(p)
           n == Len(t)
           m == Len(q)
           L == Len(p)
           c == Start(p)
           d == Len(D)
<1>1. /\ L \in Nat \ {0} /\ d \in Nat \ {0} /\ L < d /\ n \in Nat /\ c \in {0, 1} /\ c = Start(D)
      /\ NamesIn(t, D, d) /\ Slashes(t, D, Stops(D))
      /\ \A i \in 1..L : p[i] \notin {"**", Levels, Deeper}
      /\ \A i \in 1..L : c + 2 * i - 2 >= 1 => p[i] # "/" /\ D[i] # "/"
  <2>1. DirectoryText(D) /\ PathLike(D) /\ n \in Nat
    BY DirectoryTextIs, DirectoryIs
  <2>2. /\ L \in Nat \ {0} /\ p \in Seq(Named) /\ (\A i \in 2..L : p[i] # "/")
        /\ d \in Nat \ {0} /\ (\A i \in 2..d : D[i] # "/")
    BY <2>1 DEF PathLike
  <2>3. \A i \in 1..L : p[i] \in Named /\ p[i] # "**"
    BY <2>2 DEF Plain
  <2>4. \A i \in 1..L : p[i] \notin {"**", Levels, Deeper}
    BY <2>3, NamesAre
  <2>5. c \in {0, 1} /\ c = Start(D) /\ (c = 1 => p[1] # "/" /\ D[1] # "/")
    BY DEF Start
  <2>6. L < d
    OBVIOUS
  <2>7. NamesIn(t, D, d) /\ Slashes(t, D, Stops(D))
    BY <2>1 DEF DirectoryText
  <2> HIDE DEF L, d, c, t, n
  <2>8. ASSUME NEW i \in 1..L, c + 2 * i - 2 >= 1
        PROVE  p[i] # "/" /\ D[i] # "/"
    <3>1. (i = 1 /\ c = 1) \/ (i \in 2..L /\ i \in 2..d)
      BY <2>2, <2>5, <2>6, <2>8
    <3> QED
      BY <2>2, <2>5, <3>1
  <2> QED
    BY <2>1, <2>2, <2>4, <2>5, <2>6, <2>7, <2>8
<1>2. UnderShown(q, p, L) /\ m \in Nat
  <2>1. q \in Seq(Pieces \cup {Deeper}) /\ UnderShown(q, p, L)
    BY UnderIs
  <2> HIDE DEF q
  <2> QED
    BY <2>1
<1>3. PICK B : IsTable(B, t, q) /\ FullMatch(t, q) = B[1][1]
  BY <1>1, <1>2, FullMatchIs
<1>4. \A i \in 1..L : c + 2 * i - 2 >= 1 => Local(p[i], D[i])
  OBVIOUS
<1> HIDE DEF t, q, n, m, L, c, d
<1>5. \A i \in 1..m + 1 : \A j \in 1..n + 1 : B[i][j] = MatchesFrom(t, q, B, i, j)
  BY <1>3 DEF IsTable, m, n
<1>6. /\ \A i \in 1..L : c + 2 * i - 2 >= 1 => q[c + 2 * i - 2] = p[i]
      /\ \A i \in 1..L - 1 : q[c + 2 * i - 1] = "/"
      /\ m = c + 2 * L - 1 /\ q[m] = Deeper
  BY <1>2 DEF UnderShown, NamesIn, Slashes, c, L, m
<1>7. /\ \A i \in 1..d : c + 2 * i - 2 >= 1 => t[c + 2 * i - 2] = D[i]
      /\ \A i \in 1..d - 1 : c + 2 * i - 1 <= n /\ t[c + 2 * i - 1] = "/"
  <2>1. Stops(D) = d - 1
    <3>1. Stops(D) = IF d = 1 THEN 1 ELSE d - 1
      BY DEF Stops, d
    <3>2. d # 1
      BY <1>1
    <3> QED
      BY <3>1, <3>2
  <2> QED
    BY <1>1, <2>1 DEF NamesIn, Slashes, n
<1>8. m \in Nat \ {0} /\ m <= n /\ t[m] = "/"
  <2>1. L \in 1..d - 1
    BY <1>1
  <2> QED
    BY <1>1, <1>6, <1>7, <2>1
<1> DEFINE S == {i \in 1..m : B[i][i]}
<1>9. ASSUME NEW i \in 1..m, \A j \in i + 1..m : j \in S
      PROVE  B[i][i]
  <2>0. i \in 1..m + 1 /\ i \in 1..n + 1 /\ i \in Nat \ {0} /\ i <= m /\ i <= n
    <3>1. m \in Nat /\ n \in Nat /\ m <= n /\ i \in 1..m
      BY <1>1, <1>8
    <3> HIDE DEF S
    <3> QED
      BY <3>1
  <2>1. B[i][i] = MatchesFrom(t, q, B, i, i)
    BY <1>5, <2>0
  <2>2. CASE i = m
    BY <1>6, <1>8, <2>0, <2>1, <2>2 DEF MatchesFrom, m, n, Levels, Deeper
  <2>3. CASE i < m
    <3>1. B[i + 1][i + 1]
      <4>1. i + 1 \in i + 1..m
        BY <1>8, <2>0, <2>3
      <4> QED
        BY <1>9, <4>1
    <3>2. PICK l \in Nat \ {0} : i = c + 2 * l - 2 \/ i = c + 2 * l - 1
      BY <1>1, <2>0, PlacesAre
    <3>3. CASE i = c + 2 * l - 2
      <4>1. l \in 1..L /\ l \in 1..d /\ c + 2 * l - 2 >= 1
        BY <1>1, <1>6, <2>0, <2>3, <3>3
      <4>2. q[i] = p[l] /\ t[i] = D[l] /\ Local(p[l], D[l]) /\ D[l] # "/"
            /\ p[l] \notin {"/", "**", Levels, Deeper}
        BY <1>1, <1>4, <1>6, <1>7, <3>3, <4>1
      <4>3. CASE p[l] = "*"
        BY <2>0, <2>1, <3>1, <4>2, <4>3 DEF MatchesFrom, m, n
      <4>4. CASE p[l] # "*"
        BY <2>0, <2>1, <3>1, <4>2, <4>4 DEF MatchesFrom, Local, m, n
      <4> QED
        BY <4>3, <4>4
    <3>4. CASE i = c + 2 * l - 1
      <4>1. l \in 1..L - 1 /\ l \in 1..d - 1
        BY <1>1, <1>6, <2>0, <2>3, <3>4
      <4>2. q[i] = "/" /\ t[i] = "/"
        BY <1>6, <1>7, <3>4, <4>1
      <4> QED
        BY <2>0, <2>1, <3>1, <4>2 DEF MatchesFrom, m, n
    <3> QED
      BY <3>2, <3>3, <3>4
  <2> QED
    BY <1>8, <2>0, <2>2, <2>3
<1>10. B[1][1]
  <2>1. \A i \in 1..m : (\A j \in i + 1..m : j \in S) => i \in S
    BY <1>9
  <2> HIDE DEF S
  <2>2. 1 \in S
    <3>1. \A i \in 1..m : i \in S
      BY <1>8, <2>1, LeavesUp
    <3>2. 1 \in 1..m
      BY <1>8
    <3> QED
      BY <3>1, <3>2
  <2> QED
    BY <2>2 DEF S
<1> QED
  BY <1>3, <1>10 DEF IsUnder, t, q

\* A place that lies below what a pattern describes: so does what is above
\* it, or the pattern may name a place below that.
LEMMA UnderOrNames ==
    ASSUME NEW H, IsDirectory(H), NEW D, IsDirectory(D), Above(D, H), NEW p, PathLike(p), p[1] # "*",
           IsUnder(H, p)
    PROVE  IsUnder(D, p) \/ Below(p, D)
<1> DEFINE q == UnderPieces(p)
           L == Len(p)
<1>1. ShowsPlain(q, p) /\ FullMatch(Text(H), q)
  BY TextShows DEF IsUnder
<1>2. Len(D) \in Nat \ {0} /\ DOMAIN D = 1..Len(D) /\ Len(H) \in Nat
  <2>1. D \in Seq(Words) /\ DirectoryText(D) /\ DirectoryText(H)
    BY DirectoryIs, DirectoryTextIs
  <2> QED
    BY <2>1 DEF DirectoryText
<1>3. Below(p, D) \/ (L < Len(D) /\ Plain(p, L))
  <2> HIDE DEF q
  <2> QED
    BY <1>1, <1>2, MayNameAbove
<1>4. ASSUME L < Len(D), Plain(p, L)
      PROVE  IsUnder(D, p)
  <2>0. L \in Nat \ {0} /\ L <= Len(H) /\ (\A i \in 1..L : D[i] = H[i]) /\ D[1] = H[1]
    <3>1. Len(D) <= Len(H) /\ \A i \in 1..Len(D) : D[i] = H[i]
      BY DEF Above
    <3>2. L \in Nat \ {0}
      BY DEF PathLike
    <3> HIDE DEF L
    <3>3. L <= Len(H) /\ \A i \in 1..L : i \in 1..Len(D)
      BY <1>2, <1>4, <3>1, <3>2
    <3>4. 1 \in 1..Len(D)
      BY <1>2
    <3> QED
      BY <3>1, <3>2, <3>3, <3>4
  <2>1. Len(Text(H)) \in Nat /\ Len(q) \in Nat
    BY <1>1, DirectoryIs DEF ShowsPlain
  <2> HIDE DEF q
  <2>2. PICK M : IsTable(M, Text(H), q) /\ FullMatch(Text(H), q) = M[1][1]
    BY <2>1, FullMatchIs
  <2>3. NamesIn(q, p, L) /\ Slashes(q, p, L - 1) /\ RootFirst(q, p) /\ M[1][1]
    BY <1>1, <1>4, <2>2 DEF ShowsPlain
  <2>4. Start(p) = Start(H) /\ Row(M, H, p, L)
    BY <1>4, <2>0, <2>1, <2>2, <2>3, Aligned
  <2>5. Start(p) = Start(D)
    BY <2>0, <2>4 DEF Start
  <2>6. \A i \in 1..L : Start(p) + 2 * i - 2 >= 1 => Local(p[i], D[i])
    BY <2>0, <2>4 DEF Row
  <2> QED
    BY <1>4, <2>5, <2>6, EndsAbove
<1> QED
  BY <1>3, <1>4

-----------------------------------------------------------------------------
\* The patterns of a scope.

LEMMA ResolvesBehind ==
    ASSUME NEW text \in Seq(Words), NEW cwd \in Seq(Words)
    PROVE  BehindRoot(Resolve(text, cwd))
<1>1. \A spelling \in DOMAIN RootOf, ws \in Seq(Words) :
          BehindRoot(Segments(RootOf[spelling], ws))
  BY SegmentsBehind
<1> DEFINE resolve(path) == Segments(RootOf[Head(path)], Tail(path))
           rooted(path) == path # <<>> /\ Head(path) \in DOMAIN RootOf
<1>2. ASSUME NEW path, rooted(path), Tail(path) \in Seq(Words)
      PROVE  BehindRoot(resolve(path))
  BY <1>1, <1>2
<1>3. CASE rooted(text)
  <2>1. Resolve(text, cwd) = resolve(text)
    BY <1>3 DEF Resolve
  <2> QED
    BY <1>2, <1>3, <2>1
<1>4. CASE ~rooted(text) /\ rooted(cwd)
  <2> DEFINE path == cwd \o text
  <2>1. Resolve(text, cwd) = resolve(path)
    BY <1>4 DEF Resolve
  <2>2. path \in Seq(Words)
    OBVIOUS
  <2>3. rooted(path)
    <3>1. cwd = <<Head(cwd)>> \o Tail(cwd) /\ Head(cwd) \in Words /\ Tail(cwd) \in Seq(Words)
      BY <1>4, HeadTailConcat
    <3> DEFINE x == Head(cwd)
               a == Tail(cwd)
    <3>2. cwd = <<x>> \o a /\ x \in Words /\ a \in Seq(Words) /\ x \in DOMAIN RootOf
      BY <1>4, <3>1
    <3> HIDE DEF x, a
    <3>3. Begins(Words, x, (<<x>> \o a) \o text, a \o text)
      BY <3>2, BehindFirst
    <3> QED
      BY <3>2, <3>3 DEF Begins
  <2> HIDE DEF path
  <2>4. path # <<>> /\ Tail(path) \in Seq(Words)
    BY <2>2, <2>3
  <2>5. BehindRoot(resolve(path))
    BY <1>2, <2>3, <2>4
  <2> QED
    BY <2>1, <2>5
<1>5. CASE ~rooted(text) /\ ~rooted(cwd)
  <2> DEFINE path == <<"/">> \o cwd \o text
             T == Words \cup {"/"}
  <2>1. Resolve(text, cwd) = resolve(path)
    BY <1>5 DEF Resolve
  <2>2. Begins(T, "/", (<<"/">> \o cwd) \o text, cwd \o text)
    <3>1. Words \subseteq T /\ "/" \in T
      OBVIOUS
    <3> HIDE DEF T
    <3>2. cwd \in Seq(T) /\ text \in Seq(T)
      BY <3>1, SeqWider
    <3> QED
      BY <3>1, <3>2, BehindFirst
  <2>3. path # <<>> /\ Head(path) = "/" /\ Tail(path) = cwd \o text /\ cwd \o text \in Seq(Words)
    BY <2>2 DEF Begins
  <2>4. rooted(path)
    BY <2>3, PathsAssumption
  <2> HIDE DEF path
  <2>5. BehindRoot(resolve(path))
    BY <1>1, <2>3, <2>4
  <2> QED
    BY <2>1, <2>5
<1> QED
  BY <1>3, <1>4, <1>5

\* A pattern that may describe directories.
IsPattern(p) == PathLike(p) /\ p[1] # "*"

\* What a scope is resolved to are patterns.
LEMMA PatternIs ==
    ASSUME NEW words, IsWritten(words), NEW base \in Seq(Words)
    PROVE  IsPattern(ResolvePattern(words, base, FALSE))
<1> DEFINE text == ExpandVariables(words, Variables)
           p == ResolvePattern(words, base, FALSE)
           unset == \E i \in DOMAIN text : text[i] \in Unset
           anywhere == words # <<>> /\ Head(words) = "**"
<1>1. words \in Seq(Words) /\ \A i \in DOMAIN words \ {1} : words[i] # "/"
  BY DEF IsWritten
<1>2. /\ unset => p = NoPath
      /\ ~unset /\ anywhere => p = words
      /\ ~unset /\ ~anywhere => p = Resolved(words, base)
  <2> HIDE DEF text
  <2> QED
    BY DEF ResolvePattern, text
<1> HIDE DEF p, unset
<1>3. CASE unset
  <2> DEFINE name == "no path"
  <2>1. name \in Named /\ name # "*"
    BY DEF Named
  <2>2. p = <<name>>
    BY <1>2, <1>3 DEF NoPath
  <2> HIDE DEF name
  <2> HIDE DEF Named
  <2>3. <<name>> \in Seq(Named) /\ <<name>> # <<>> /\ Len(<<name>>) = 1 /\ <<name>>[1] = name
    BY <2>1
  <2>4. p \in Seq(Named) /\ p # <<>> /\ Len(p) = 1 /\ p[1] # "*"
    BY <2>1, <2>2, <2>3
  <2>5. Len(p) \in Nat \ {0} /\ \A i \in 2..Len(p) : p[i] # "/"
    BY <2>4
  <2>6. IsPattern(p)
    BY <2>4, <2>5 DEF IsPattern, PathLike
  <2> QED
    BY <2>6 DEF p
<1>4. CASE ~unset /\ anywhere
  <2>1. /\ words \in Seq(Words) /\ words # <<>> /\ Len(words) \in Nat \ {0} /\ words[1] = "**"
        /\ DOMAIN words = 1..Len(words)
    BY <1>1, <1>4
  <2>2. words \in Seq(Named)
    <3>1. Words \subseteq Named
      BY DEF Named
    <3> QED
      BY <1>1, <3>1, SeqWider
  <2>3. \A i \in 2..Len(words) : words[i] # "/"
    BY <1>1, <2>1
  <2> QED
    BY <1>2, <1>4, <2>1, <2>2, <2>3 DEF IsPattern, PathLike, p
<1>5. CASE ~unset /\ ~anywhere
  <2>1. Written(words, Variables, Home) \in Seq(Words)
    BY <1>1, PathsAssumption, WrittenIn DEF IsValues
  <2>2. BehindRoot(p)
    BY <1>2, <1>5, <2>1, ResolvesBehind DEF Resolved, Normalize
  <2>3. /\ p \in Seq(Words) /\ p # <<>> /\ Head(p) \in DOMAIN RootOf /\ RootOf[Head(p)] = Head(p)
        /\ Len(p) \in Nat \ {0} /\ \A i \in 2..Len(p) : p[i] \notin {"/", "."}
    BY <2>2 DEF BehindRoot, Kept
  <2>4. p[1] = Head(p) /\ Head(p) # "*"
    BY <2>3, PathsAssumption
  <2>5. p \in Seq(Named)
    <3>1. Words \subseteq Named
      BY DEF Named
    <3> QED
      BY <2>3, <3>1, SeqWider
  <2> QED
    BY <2>3, <2>4, <2>5 DEF IsPattern, PathLike, p
<1> QED
  BY <1>3, <1>4, <1>5

-----------------------------------------------------------------------------
\* The directories above a directory, and its repository.

LEMMA BeginningIs ==
    ASSUME NEW H \in Seq(Words), NEW n \in 1..Len(H)
    PROVE  /\ SubSeq(H, 1, n) \in Seq(Words) /\ Len(SubSeq(H, 1, n)) = n
           /\ \A i \in 1..n : SubSeq(H, 1, n)[i] = H[i]
<1>1. Len(H) \in Nat /\ \A i \in 1..Len(H) : H[i] \in Words
  OBVIOUS
<1>2. 1 \in Int /\ n \in Int /\ (\A i \in 1..n : H[i] \in Words) /\ 1 <= n /\ n - 1 + 1 = n
  BY <1>1
<1>3. /\ SubSeq(H, 1, n) \in Seq(Words)
      /\ Len(SubSeq(H, 1, n)) = IF 1 <= n THEN n - 1 + 1 ELSE 0
      /\ \A i \in 1..n - 1 + 1 : SubSeq(H, 1, n)[i] = H[1 + i - 1]
  BY <1>2, SubSeqProperties
<1>4. \A i \in 1..n : 1 + i - 1 = i
  OBVIOUS
<1> QED
  BY <1>2, <1>3, <1>4

\* What an ancestor of a directory is.
LEMMA AncestorIs ==
    ASSUME NEW H \in Seq(Words), NEW D \in Ancestors(H)
    PROVE  /\ D \in Seq(Words) /\ Len(D) \in 1..Len(H) /\ DOMAIN D = 1..Len(D)
           /\ D = SubSeq(H, 1, Len(D)) /\ Above(D, H)
<1>1. PICK n \in 1..Len(H) : D = SubSeq(H, 1, n)
  BY DEF Ancestors
<1>2. D \in Seq(Words) /\ Len(D) = n /\ \A i \in 1..n : D[i] = H[i]
  BY <1>1, BeginningIs
<1>3. Len(H) \in Nat /\ DOMAIN D = 1..Len(D)
  BY <1>2
<1> QED
  BY <1>1, <1>2, <1>3 DEF Above

\* Of two directories above a third, one is above the other.
LEMMA AncestorsNest ==
    ASSUME NEW H \in Seq(Words), NEW D \in Ancestors(H), NEW E \in Ancestors(H), Len(E) <= Len(D)
    PROVE  E \in Ancestors(D) /\ Above(E, D)
<1> DEFINE k == Len(E)
<1>1. /\ D \in Seq(Words) /\ Len(D) \in 1..Len(H) /\ \A i \in 1..Len(D) : D[i] = H[i]
      /\ E \in Seq(Words) /\ k \in 1..Len(H) /\ \A i \in 1..k : E[i] = H[i]
  BY AncestorIs DEF Above
<1> HIDE DEF k
<1>2. k <= Len(D)
  BY DEF k
<1>3. k \in 1..Len(D) /\ \A i \in 1..k : i \in 1..Len(D)
  BY <1>1, <1>2
<1>4. \A i \in 1..k : E[i] = D[i]
  BY <1>1, <1>3
<1>5. SubSeq(D, 1, k) \in Seq(Words) /\ Len(SubSeq(D, 1, k)) = k
      /\ \A i \in 1..k : SubSeq(D, 1, k)[i] = D[i]
  BY <1>1, <1>3, BeginningIs
<1>6. E = SubSeq(D, 1, k)
  BY <1>1, <1>4, <1>5, SeqEqual DEF k
<1> QED
  BY <1>2, <1>3, <1>4, <1>6 DEF Ancestors, Above, k

LEMMA AncestorsUp ==
    ASSUME NEW H \in Seq(Words), NEW D \in Ancestors(H), NEW E \in Ancestors(D)
    PROVE  E \in Ancestors(H)
<1> DEFINE k == Len(E)
<1>1. /\ D \in Seq(Words) /\ Len(D) \in 1..Len(H) /\ \A i \in 1..Len(D) : D[i] = H[i]
  BY AncestorIs DEF Above
<1>2. E \in Seq(Words) /\ k \in 1..Len(D) /\ \A i \in 1..k : E[i] = D[i]
  BY <1>1, AncestorIs DEF Above
<1> HIDE DEF k
<1>3. Len(H) \in Nat
  OBVIOUS
<1>4. k \in 1..Len(H) /\ \A i \in 1..k : i \in 1..Len(D)
  BY <1>1, <1>2, <1>3
<1>5. SubSeq(H, 1, k) \in Seq(Words) /\ Len(SubSeq(H, 1, k)) = k
      /\ \A i \in 1..k : SubSeq(H, 1, k)[i] = H[i]
  BY <1>4, BeginningIs
<1>6. \A i \in 1..k : E[i] = SubSeq(H, 1, k)[i]
  BY <1>1, <1>2, <1>4, <1>5
<1>7. E = SubSeq(H, 1, k)
  BY <1>2, <1>5, <1>6, SeqEqual DEF k
<1> QED
  BY <1>4, <1>7 DEF Ancestors

\* The repository that is nearest to a directory.
Nearest(H, stored, R) ==
    /\ R \in Ancestors(H) \cap stored
    /\ \A e \in Ancestors(H) \cap stored : Len(e) <= Len(R)

\* There is one nearest repository, if there is any, and find_root finds it.
LEMMA NearestIsOne ==
    ASSUME NEW H \in Seq(Words), NEW stored, NEW R, NEW Q, Nearest(H, stored, R), Nearest(H, stored, Q)
    PROVE  R = Q
<1>1. R \in Ancestors(H) /\ Q \in Ancestors(H) /\ Len(R) <= Len(Q) /\ Len(Q) <= Len(R)
  BY DEF Nearest
<1>2. R = SubSeq(H, 1, Len(R)) /\ Q = SubSeq(H, 1, Len(Q)) /\ Len(R) \in 1..Len(H) /\ Len(Q) \in 1..Len(H)
  BY <1>1, AncestorIs
<1>3. Len(R) = Len(Q)
  <2>1. \A r, q \in 1..Len(H) : r <= q /\ q <= r => r = q
    OBVIOUS
  <2> QED
    BY <1>1, <1>2, <2>1
<1> QED
  BY <1>2, <1>3

LEMMA NearestExists ==
    ASSUME NEW H \in Seq(Words), NEW stored, Ancestors(H) \cap stored # {}
    PROVE  \E R : Nearest(H, stored, R)
<1> DEFINE far == {Len(H) - Len(d) : d \in Ancestors(H) \cap stored}
<1>1. \A d \in Ancestors(H) : Len(d) \in 1..Len(H)
  BY AncestorIs
<1>2. Len(H) \in Nat
  OBVIOUS
<1>3. far \subseteq Nat /\ far # {}
  BY <1>1, <1>2
<1>4. \E x \in far : \A y \in far : x <= y
  <2> HIDE DEF far
  <2> QED
    BY <1>3, LeastNumber
<1>5. PICK R \in Ancestors(H) \cap stored :
          \A e \in Ancestors(H) \cap stored : Len(H) - Len(R) <= Len(H) - Len(e)
  BY <1>4
<1>6. \A e \in Ancestors(H) \cap stored : Len(e) <= Len(R)
  BY <1>1, <1>2, <1>5
<1> QED
  BY <1>5, <1>6 DEF Nearest

LEMMA FindRootIs ==
    ASSUME NEW H \in Seq(Words), NEW stored
    PROVE  /\ Ancestors(H) \cap stored = {} => FindRoot(H, stored, <<>>) = <<>>
           /\ Ancestors(H) \cap stored # {} => Nearest(H, stored, FindRoot(H, stored, <<>>))
<1> DEFINE levels == Ancestors(H) \cap stored
           near == CHOOSE d \in levels : \A e \in levels : Len(e) <= Len(d)
<1>1. DOMAIN <<>> = {}
  OBVIOUS
<1>2. FindRoot(H, stored, <<>>) = IF levels = {} THEN <<>> ELSE near
  <2>1. {d \in Ancestors(H) : d \in DOMAIN <<>> \/ d \in stored} = levels
    BY <1>1
  <2> QED
    BY <1>1, <2>1 DEF FindRoot
<1>3. CASE levels = {}
  BY <1>2, <1>3
<1>4. CASE levels # {}
  <2>1. \E d \in levels : \A e \in levels : Len(e) <= Len(d)
    BY <1>4, NearestExists DEF Nearest
  <2>2. near \in levels /\ \A e \in levels : Len(e) <= Len(near)
    <3> HIDE DEF levels
    <3> QED
      BY <2>1
  <2> QED
    BY <1>2, <1>4, <2>2 DEF Nearest
<1> QED
  BY <1>3, <1>4

\* A directory between another one and its repository has the same one.
LEMMA NearestStays ==
    ASSUME NEW H \in Seq(Words), NEW stored, NEW R, Nearest(H, stored, R),
           NEW D \in Ancestors(H), Len(R) <= Len(D)
    PROVE  FindRoot(D, stored, <<>>) = R
<1>1. D \in Seq(Words)
  BY AncestorIs
<1>2. R \in Ancestors(D) \cap stored
  BY AncestorsNest DEF Nearest
<1>3. Nearest(D, stored, R)
  BY <1>2, AncestorsUp DEF Nearest
<1>4. Nearest(D, stored, FindRoot(D, stored, <<>>))
  BY <1>1, <1>2, FindRootIs
<1> QED
  BY <1>1, <1>3, <1>4, NearestIsOne

\* The root of a directory is a directory.
LEMMA AncestorIsDirectory ==
    ASSUME NEW H, IsDirectory(H), NEW R \in Ancestors(H)
    PROVE  IsDirectory(R)
<1>1. /\ H \in Seq(Words) /\ (\E spelling \in DOMAIN RootOf : H[1] = RootOf[spelling])
      /\ \A i \in DOMAIN H \ {1} : ~IsRoot(H[i]) /\ H[i] # "**"
  BY DEF IsDirectory
<1>2. /\ R \in Seq(Words) /\ Len(R) \in 1..Len(H) /\ DOMAIN R = 1..Len(R)
      /\ \A i \in 1..Len(R) : R[i] = H[i]
  BY <1>1, AncestorIs DEF Above
<1>3. Len(H) \in Nat /\ DOMAIN H = 1..Len(H)
  BY <1>1
<1>4. 1 \in 1..Len(R) /\ R # <<>> /\ \A i \in 1..Len(R) : i \in DOMAIN H
  BY <1>2, <1>3
<1>5. R[1] = H[1]
  BY <1>2, <1>4
<1>6. \A i \in DOMAIN R \ {1} : ~IsRoot(R[i]) /\ R[i] # "**"
  BY <1>1, <1>2, <1>4
<1> QED
  BY <1>1, <1>2, <1>4, <1>5, <1>6 DEF IsDirectory

-----------------------------------------------------------------------------
\* What is announced where something is judged.

LEMMA AreaIs ==
    ASSUME NEW under, NEW notUnder, NEW roots, NEW base, IsWritten(base), NEW facts,
           facts.cwd \in Seq(Words),
           \A words \in under \cup notUnder \cup roots : IsWritten(words),
           NEW area, area = Area(under, notUnder, roots, base, facts, TRUE)
    PROVE  /\ \A p \in area.under \cup area.notUnder \cup area.roots : IsPattern(p)
           /\ area.lenient = TRUE
<1> DEFINE from == IF base = NoBase THEN facts.cwd ELSE base
           resolved(patterns) == {ResolvePattern(p, from, FALSE) : p \in patterns}
<1>1. from \in Seq(Words)
  BY DEF IsWritten
<1>2. \A words \in under \cup notUnder \cup roots : IsPattern(ResolvePattern(words, from, FALSE))
  <2> HIDE DEF from
  <2> QED
    BY <1>1, PatternIs
<1>3. /\ area.under = resolved(under) /\ area.notUnder = resolved(notUnder)
      /\ area.roots = resolved(roots) /\ area.lenient = TRUE
  BY DEF Area
<1> HIDE DEF from
<1> QED
  BY <1>2, <1>3

\* The repository of a directory that is known to lie in one of an area.
LEMMA RootedIs ==
    ASSUME NEW H, IsDirectory(H), H \in scenario.places, NEW area, NEW ctx,
           ctx.created = {}, ctx.found = Lookups, Rooted(H, area, ctx) = "yes", area.lenient = TRUE
    PROVE  \E R : /\ Nearest(H, repositories, R) /\ R # UnknownDir
                  /\ \E wanted \in area.roots : MatchesGlob(R, wanted)
<1> DEFINE R == Root(H, ctx)
<1>1. R # UnknownDir /\ R # <<>> /\ \E wanted \in area.roots : MatchesGlob(R, wanted)
  <2>1. RootedAt(R, area) = "yes"
    BY DEF Rooted
  <2> HIDE DEF R
  <2> QED
    BY <2>1 DEF RootedAt, Unknown, Answer, NoRepository
<1>2. MadeAround(H, ctx.created) = {}
  BY DEF MadeAround
<1>3. R = FindRoot(H, repositories, <<>>)
  <2>1. R = ctx.found[H]
    BY <1>1, <1>2 DEF Root, RootAmong
  <2> QED
    BY <2>1 DEF Lookups
<1> HIDE DEF R
<1>4. H \in Seq(Words)
  BY DEF IsDirectory
<1>5. Nearest(H, repositories, R)
  BY <1>1, <1>3, <1>4, FindRootIs
<1> QED
  BY <1>1, <1>5

\* A directory above one in a repository that an area names lies in it too,
\* or above a place that the area may name.
LEMMA RootsReach ==
    ASSUME NEW H, IsDirectory(H), H \in scenario.places,
           NEW D, IsDirectory(D), D \in scenario.places, D \in Ancestors(H),
           NEW area, NEW ctx, ctx.created = {}, ctx.found = Lookups,
           Rooted(H, area, ctx) = "yes", area.lenient = TRUE,
           \A p \in area.roots : IsPattern(p)
    PROVE  (\E p \in area.roots : Below(p, D)) \/ Rooted(D, area, ctx) # "no"
<1>1. PICK R : /\ Nearest(H, repositories, R) /\ R # UnknownDir
               /\ \E wanted \in area.roots : MatchesGlob(R, wanted)
  BY RootedIs
<1>2. PICK wanted \in area.roots : MatchesGlob(R, wanted)
  BY <1>1
<1>3. H \in Seq(Words) /\ R \in Ancestors(H)
  BY <1>1 DEF IsDirectory, Nearest
<1>4. /\ Len(D) \in 1..Len(H) /\ DOMAIN D = 1..Len(D) /\ Len(R) \in 1..Len(H)
      /\ Len(H) \in Nat /\ IsDirectory(R)
  <2>1. Len(H) \in Nat
    BY <1>3
  <2> QED
    BY <1>3, <2>1, AncestorIs, AncestorIsDirectory
<1>5. CASE Len(D) <= Len(R)
  <2>1. Above(D, R)
    BY <1>3, <1>5, AncestorsNest
  <2>2. Len(D) \in Nat \ {0}
    BY <1>4
  <2>3. Below(wanted, D)
    BY <1>2, <1>4, <2>1, <2>2, NamesAbove DEF IsPattern
  <2> QED
    BY <2>3
<1>6. CASE ~(Len(D) <= Len(R))
  <2>1. Len(R) <= Len(D)
    BY <1>4, <1>6
  <2>2. FindRoot(D, repositories, <<>>) = R
    BY <1>1, <1>3, <2>1, NearestStays
  <2>3. Root(D, ctx) \in {R, UnknownDir}
    <3>1. MadeAround(D, ctx.created) = {} /\ ctx.found[D] = R
      BY <2>2 DEF MadeAround, Lookups
    <3> QED
      BY <3>1 DEF Root, RootAmong
  <2>4. RootedAt(R, area) = "yes"
    <3>1. R # <<>>
      BY <1>4 DEF IsDirectory
    <3> QED
      BY <1>1, <1>2, <3>1 DEF RootedAt, Answer, NoRepository
  <2>5. RootedAt(UnknownDir, area) = "unsure"
    BY DEF RootedAt, Unknown
  <2> QED
    BY <2>3, <2>4, <2>5 DEF Rooted
<1> QED
  BY <1>5, <1>6

\* Each part of a scope that a directory lies in reaches those above it.
LEMMA Announced ==
    ASSUME NEW H, IsDirectory(H), H \in scenario.places,
           NEW D, IsDirectory(D), D \in scenario.places, D \in Ancestors(H),
           NEW area, NEW ctx, ctx.created = {}, ctx.found = Lookups, area.lenient = TRUE,
           \A p \in area.under \cup area.notUnder \cup area.roots : IsPattern(p),
           Inside(H, H, area, ctx) = "yes"
    PROVE  /\ ~UnderAny(D, area.notUnder)
           /\ area.under # {} => \E p \in area.under : IsUnder(D, p) \/ Below(p, D)
           /\ \/ area.roots = {}
              \/ \E root \in area.roots : Below(root, D)
              \/ Rooted(D, area, ctx) # "no"
<1>1. Placed(H, area) /\ (area.roots = {} \/ Rooted(H, area, ctx) = "yes")
  BY DEF Inside, Unknown
<1>2. Above(D, H)
  <2>1. H \in Seq(Words)
    BY DEF IsDirectory
  <2> QED
    BY <2>1, AncestorIs
<1>3. ~UnderAny(D, area.notUnder)
  <2> SUFFICES ASSUME NEW p \in area.notUnder, IsUnder(D, p)
               PROVE  FALSE
    BY DEF UnderAny
  <2>1. IsUnder(H, p)
    BY <1>2, UnderStays DEF IsPattern
  <2> QED
    BY <1>1, <2>1 DEF Placed, UnderAny
<1>4. area.under # {} => \E p \in area.under : IsUnder(D, p) \/ Below(p, D)
  <2> SUFFICES ASSUME area.under # {}
               PROVE  \E p \in area.under : IsUnder(D, p) \/ Below(p, D)
    OBVIOUS
  <2>1. PICK p \in area.under : IsUnder(H, p)
    BY <1>1 DEF Placed, UnderAny
  <2>2. IsUnder(D, p) \/ Below(p, D)
    BY <1>2, <2>1, UnderOrNames DEF IsPattern
  <2> QED
    BY <2>2
<1>5. \/ area.roots = {}
      \/ \E root \in area.roots : Below(root, D)
      \/ Rooted(D, area, ctx) # "no"
  BY <1>1, RootsReach
<1> QED
  BY <1>3, <1>4, <1>5

\* What is announced covers what is judged: for every directory in which a
\* call is made that a rule sees something of, and for every directory above
\* that one, scope_reaches names the rule when a session starts there.
THEOREM AnnouncedWhereJudged == Spec => []ReachesInScope
<1>1. Given => ReachesInScope
  <2> SUFFICES ASSUME Given PROVE ReachesInScope
    OBVIOUS
  <2>1. SUFFICES
            ASSUME NEW rule \in Rules,
                   NEW ctx, ctx = [Context(rule, Lookups, NotRead) EXCEPT !.created = {}],
                   NEW D \in scenario.places, NEW H \in scenario.places, D \in Ancestors(H),
                   Inside(H, H, ctx.area, ctx) = "yes",
                   AreaOf(rule, StartsIn(D)) = ctx.area
            PROVE  ScopeReaches(rule, StartsIn(D), ctx)
    BY DEF ReachesInScope
  <2> DEFINE area == ctx.area
             facts == StartsIn(D)
  <2>2. ctx.created = {} /\ ctx.found = Lookups
    BY <2>1, ContextIs DEF IsContext
  <2>3. IsDirectory(D) /\ IsDirectory(H)
    BY EngineAssumption DEF Given
  <2>4. /\ IsWritten(rule.base)
        /\ \A words \in rule.under \cup rule.notUnder \cup rule.roots : IsWritten(words)
    BY EngineAssumption DEF Given, Rules, ToSet
  <2>5. facts.cwd = D /\ facts.located = TRUE
    <3>1. IsFacts(proposed)
      BY ExtractIs DEF Given
    <3> QED
      BY <3>1 DEF IsFacts, Fields, StartsIn
  <2>6. area = Area(rule.under, rule.notUnder, rule.roots, rule.base, facts, TRUE)
    BY <2>1 DEF AreaOf
  <2> HIDE DEF facts
  <2>7. D \in Seq(Words)
    BY <2>3 DEF IsDirectory
  <2>8. /\ \A p \in area.under \cup area.notUnder \cup area.roots : IsPattern(p)
        /\ area.lenient = TRUE
    <3>1. facts.cwd \in Seq(Words)
      BY <2>5, <2>7
    <3> HIDE DEF area
    <3> QED
      BY <2>4, <2>6, <3>1, AreaIs
  <2>9. MadeIn(facts) = D
    BY <2>5 DEF MadeIn
  <2>10. /\ ~UnderAny(D, area.notUnder)
         /\ area.under # {} => \E p \in area.under : IsUnder(D, p) \/ Below(p, D)
         /\ \/ area.roots = {}
            \/ \E root \in area.roots : Below(root, D)
            \/ Rooted(D, area, ctx) # "no"
    <3> HIDE DEF area
    <3>1. Inside(H, H, area, ctx) = "yes"
      BY <2>1 DEF area
    <3> QED
      BY <2>1, <2>2, <2>3, <2>8, <3>1, Announced
  <2>11. ScopeReaches(rule, facts, ctx)
    BY <2>6, <2>9, <2>10 DEF ScopeReaches
  <2> QED
    BY <2>11 DEF facts
<1> QED
  BY <1>1, GivenAlways, PTL

-----------------------------------------------------------------------------
\* What is judged once stays judged, the exceptions included.

\* What an exception without repositories covers is not looked up.
LEMMA AppliesAlike ==
    ASSUME NEW zone, zone.area.roots = {}, NEW deed, NEW c, NEW d,
           ConditionHolds(zone, deed.alone, c) <=> ConditionHolds(zone, deed.alone, d)
    PROVE  Applies(zone, deed, c) <=> Applies(zone, deed, d)
<1>1. Inside(deed.at, deed.where, zone.area, c) = Inside(deed.at, deed.where, zone.area, d)
  BY DEF Inside
<1> QED
  BY <1>1 DEF Applies

\* covering: an exception that is not asked about applies or not whatever is
\* looked up later, unless one before it applies.
AskedBefore(zones, deed, ctx, k) ==
    /\ zones[k].area.roots # {} /\ deed.at # UnknownDir /\ Placed(deed.at, zones[k].area)
    /\ ~\E l \in DOMAIN zones : l < k /\ zones[l].area.roots = {} /\ Applies(zones[l], deed, ctx)

ConditionsAgree(zones, deed, c, d) ==
    \A k \in DOMAIN zones :
        ConditionHolds(zones[k], deed.alone, c) <=> ConditionHolds(zones[k], deed.alone, d)

LEMMA CoveringAsksIs ==
    ASSUME NEW zones, NEW deed, NEW ctx
    PROVE  CoveringAsks(zones, deed, ctx)
             = IF \E k \in DOMAIN zones : AskedBefore(zones, deed, ctx, k)
               THEN Wanted({deed.where}, ctx) ELSE {}
BY DEF CoveringAsks, AskedBefore

LEMMA AppliesSettled ==
    ASSUME NEW zones, Strict(zones), NEW deed, NEW c, NEW d, Extends(c, d),
           CoveringAsks(zones, deed, c) = {}, ConditionsAgree(zones, deed, c, d),
           NEW k \in DOMAIN zones
    PROVE  \/ Applies(zones[k], deed, c) <=> Applies(zones[k], deed, d)
           \/ \E l \in DOMAIN zones : /\ l < k /\ Applies(zones[l], deed, c)
                                      /\ Applies(zones[l], deed, d)
<1>0. ConditionHolds(zones[k], deed.alone, c) <=> ConditionHolds(zones[k], deed.alone, d)
  BY DEF ConditionsAgree
<1>1. CASE zones[k].area.roots = {}
  BY <1>0, <1>1, AppliesAlike
<1>2. CASE AskedBefore(zones, deed, c, k)
  <2>1. Wanted({deed.where}, c) = {}
    BY <1>2, CoveringAsksIs
  <2>2. ~Asks(deed.where, c.created, c.found)
    BY <2>1 DEF Wanted
  <2>3. Inside(deed.at, deed.where, zones[k].area, c) = Inside(deed.at, deed.where, zones[k].area, d)
    BY <2>2, InsideKnown
  <2> QED
    BY <1>0, <2>3 DEF Applies
<1>3. CASE zones[k].area.roots # {} /\ (deed.at = UnknownDir \/ ~Placed(deed.at, zones[k].area))
  <2>1. zones[k].area.lenient = FALSE
    BY DEF Strict
  <2>2. \A ctx : Inside(deed.at, deed.where, zones[k].area, ctx) = "no"
    BY <1>3, <2>1 DEF Inside, Unknown
  <2>3. ~IsNowhere(zones[k].area)
    BY <1>3 DEF IsNowhere
  <2> QED
    BY <2>2, <2>3 DEF Applies
<1>4. CASE \E l \in DOMAIN zones : l < k /\ zones[l].area.roots = {} /\ Applies(zones[l], deed, c)
  <2>1. PICK l \in DOMAIN zones : l < k /\ zones[l].area.roots = {} /\ Applies(zones[l], deed, c)
    BY <1>4
  <2>2. Applies(zones[l], deed, d)
    BY <2>1, AppliesAlike DEF ConditionsAgree
  <2> QED
    BY <2>1, <2>2
<1> QED
  BY <1>1, <1>2, <1>3, <1>4 DEF AskedBefore

\* So the first that applies stays the first, and nothing more is asked for.
LEMMA CoveringStays ==
    ASSUME NEW zones, DOMAIN zones \subseteq Nat, Strict(zones), NEW deed, NEW c, NEW d,
           Extends(c, d), CoveringAsks(zones, deed, c) = {}, ConditionsAgree(zones, deed, c, d)
    PROVE  /\ Covering(zones, deed, c) = Covering(zones, deed, d)
           /\ CoveringAsks(zones, deed, d) = {}
<1> DEFINE C == {k \in DOMAIN zones : Applies(zones[k], deed, c)}
           D == {k \in DOMAIN zones : Applies(zones[k], deed, d)}
<1>1. \A k \in DOMAIN zones : (k \in C <=> k \in D) \/ \E l \in C \cap D : l < k
  BY AppliesSettled
<1>2. C \subseteq Nat /\ D \subseteq Nat /\ C \subseteq DOMAIN zones /\ D \subseteq DOMAIN zones
  OBVIOUS
<1>3. /\ Covering(zones, deed, c) = IF C = {} THEN {} ELSE {zones[Min(C)].area}
      /\ Covering(zones, deed, d) = IF D = {} THEN {} ELSE {zones[Min(D)].area}
  BY DEF Covering
<1> HIDE DEF C, D
<1>4. C = {} <=> D = {}
  BY <1>1, <1>2
<1>5. ASSUME C # {}
      PROVE  Min(C) = Min(D)
  <2>1. PICK m \in C : \A y \in C : m <= y
    BY <1>2, <1>5, LeastNumber
  <2>2. PICK n \in D : \A y \in D : n <= y
    BY <1>2, <1>4, <1>5, LeastNumber
  <2>3. m \in Nat /\ n \in Nat /\ \A l \in C \cap D : l \in Nat
    BY <1>2
  <2>4. m \in D
    <3>1. (m \in C <=> m \in D) \/ \E l \in C \cap D : l < m
      BY <1>1, <1>2
    <3> QED
      BY <2>1, <2>3, <3>1
  <2>5. n \in C
    <3>1. (n \in C <=> n \in D) \/ \E l \in C \cap D : l < n
      BY <1>1, <1>2
    <3> QED
      BY <2>2, <2>3, <3>1
  <2>6. m = n
    BY <2>1, <2>2, <2>3, <2>4, <2>5
  <2>7. Min(C) = m
    <3>1. \A x \in C : (\A y \in C : x <= y) => x = m
      BY <1>2, <2>1
    <3> QED
      BY <2>1, <3>1 DEF Min
  <2>8. Min(D) = n
    <3>1. \A x \in D : (\A y \in D : x <= y) => x = n
      BY <1>2, <2>2
    <3> QED
      BY <2>2, <3>1 DEF Min
  <2> QED
    BY <2>6, <2>7, <2>8
<1>6. CoveringAsks(zones, deed, d) = {}
  <2>1. ASSUME NEW k \in DOMAIN zones, AskedBefore(zones, deed, d, k)
        PROVE  AskedBefore(zones, deed, c, k)
    BY <2>1, AppliesAlike DEF AskedBefore, ConditionsAgree
  <2>2. Wanted({deed.where}, d) \subseteq Wanted({deed.where}, c)
    BY DEF Wanted, Asks, Extends
  <2>3. CASE \E k \in DOMAIN zones : AskedBefore(zones, deed, d, k)
    BY <2>1, <2>2, <2>3, CoveringAsksIs
  <2>4. CASE ~\E k \in DOMAIN zones : AskedBefore(zones, deed, d, k)
    BY <2>4, CoveringAsksIs
  <2> QED
    BY <2>3, <2>4
<1> QED
  BY <1>3, <1>4, <1>5, <1>6

\* The place of an exception that covers a deed: whether the place where
\* the deed is done lies in it is known.
LEMMA CoveredKnown ==
    ASSUME NEW zones, DOMAIN zones \subseteq Nat, Strict(zones), NEW deed, NEW c, NEW d,
           Extends(c, d), CoveringAsks(zones, deed, c) = {},
           NEW zone \in Covering(zones, deed, c)
    PROVE  zone.roots = {} \/ Rooted(deed.where, zone, c) = Rooted(deed.where, zone, d)
<1> DEFINE C == {k \in DOMAIN zones : Applies(zones[k], deed, c)}
<1>1. Covering(zones, deed, c) = IF C = {} THEN {} ELSE {zones[Min(C)].area}
  BY DEF Covering
<1>2. C \subseteq Nat /\ C # {}
  BY <1>1
<1>3. Min(C) \in C /\ (\A y \in C : Min(C) <= y) /\ zone = zones[Min(C)].area
  <2> HIDE DEF C
  <2>1. \E x \in C : \A y \in C : x <= y
    BY <1>2, LeastNumber
  <2> QED
    BY <1>1, <1>2, <2>1 DEF Min
<1> DEFINE k == Min(C)
<1> HIDE DEF k
<1>4. /\ k \in DOMAIN zones /\ k \in Nat /\ zone = zones[k].area /\ Applies(zones[k], deed, c)
      /\ \A l \in DOMAIN zones : Applies(zones[l], deed, c) => k <= l
  BY <1>3 DEF k
<1> HIDE DEF C
<1>5. CASE zone.roots # {}
  <2>1. zones[k].area.lenient = FALSE /\ ~IsNowhere(zones[k].area)
    BY <1>4, <1>5 DEF Strict, IsNowhere
  <2>2. deed.at # UnknownDir /\ Placed(deed.at, zones[k].area)
    BY <1>4, <2>1, AppliesIs
  <2>3. \A l \in DOMAIN zones : l < k => ~Applies(zones[l], deed, c)
    <3>1. \A l \in DOMAIN zones : l \in Nat
      OBVIOUS
    <3> QED
      BY <1>4, <3>1
  <2>4. AskedBefore(zones, deed, c, k)
    BY <1>4, <1>5, <2>2, <2>3 DEF AskedBefore
  <2>5. Wanted({deed.where}, c) = {}
    BY <1>4, <2>4, CoveringAsksIs
  <2>6. ~Asks(deed.where, c.created, c.found)
    BY <2>5 DEF Wanted
  <2> QED
    BY <2>6, RootedKnown
<1> QED
  BY <1>5

\* stays: so is whether a path of a covered command stays.
LEMMA StaysKnown ==
    ASSUME NEW fact, NEW zone, zone.lenient = FALSE, NEW j, NEW k, j.facts = k.facts, j.rule = k.rule,
           Extends(j.ctx, k.ctx), StaysAsks(fact, Here(fact, j.facts), zone, j.ctx) = {}
    PROVE  /\ Stays(fact, zone, j) <=> Stays(fact, zone, k)
           /\ StaysAsks(fact, Here(fact, j.facts), zone, k.ctx) = {}
<1> DEFINE there == Here(fact, j.facts)
           c == j.ctx
           d == k.ctx
<1> HIDE DEF there, c, d
<1>0. /\ Extends(c, d) /\ StaysAsks(fact, there, zone, c) = {}
      /\ \A s : Wanted(s, d) \subseteq Wanted(s, c)
  BY DEF there, c, d, Wanted, Asks, Extends
<1> DEFINE Same == \/ Inside(there, there, zone, c) # "yes" /\ Inside(there, there, zone, d) # "yes"
                   \/ /\ Inside(there, there, zone, c) = Inside(there, there, zone, d)
                      /\ Beside(fact, zone, c) <=> Beside(fact, zone, d)
                   \/ Beside(fact, zone, c) /\ Beside(fact, zone, d)
<1>1. Same /\ StaysAsks(fact, there, zone, d) = {}
  <2>1. CASE zone.roots = {}
    BY <2>1 DEF Inside, Beside, StaysAsks
  <2>2. CASE there = UnknownDir \/ ~Placed(there, zone)
    BY <2>2 DEF Inside, Unknown, StaysAsks
  <2>3. CASE zone.roots # {} /\ there # UnknownDir /\ Placed(there, zone)
    <3>1. Wanted({there}, c) = {}
      BY <1>0, <2>3 DEF StaysAsks
    <3>2. ~Asks(there, c.created, c.found) /\ Wanted({there}, d) = {}
      BY <1>0, <3>1 DEF Wanted
    <3>3. Rooted(there, zone, c) = Rooted(there, zone, d)
      BY <1>0, <3>2, RootedKnown
    <3>4. Inside(there, there, zone, c) = Rooted(there, zone, c)
          /\ Inside(there, there, zone, d) = Rooted(there, zone, d)
      BY <2>3 DEF Inside
    <3>5. CASE Rooted(there, zone, c) # "yes"
      BY <2>3, <3>2, <3>3, <3>4, <3>5 DEF StaysAsks
    <3>6. CASE Rooted(there, zone, c) = "yes" /\ zone.under # {} /\ ~UnderAny(fact.path, zone.under)
      BY <2>3, <3>2, <3>3, <3>4, <3>6 DEF StaysAsks, Beside
    <3>7. CASE Rooted(there, zone, c) = "yes" /\ ~(zone.under # {} /\ ~UnderAny(fact.path, zone.under))
      <4>1. Wanted({fact.path}, c) = {}
        BY <1>0, <2>3, <3>1, <3>7 DEF StaysAsks
      <4>2. ~Asks(fact.path, c.created, c.found) /\ Wanted({fact.path}, d) = {}
        BY <1>0, <4>1 DEF Wanted
      <4>3. Rooted(fact.path, zone, c) = Rooted(fact.path, zone, d)
        BY <1>0, <4>2, RootedKnown
      <4>4. Beside(fact, zone, c) <=> Beside(fact, zone, d)
        BY <4>3 DEF Beside
      <4>5. StaysAsks(fact, there, zone, d) = {}
        BY <2>3, <3>2, <3>3, <3>7, <4>2 DEF StaysAsks
      <4> QED
        BY <3>3, <3>4, <4>4, <4>5
    <3> QED
      BY <3>5, <3>6, <3>7
  <2> QED
    BY <2>1, <2>2, <2>3
<1>2. /\ Stays(fact, zone, j) <=> /\ ~IsNowhere(zone) /\ ReadsPaths(j.rule.pred)
                                  /\ Inside(there, there, zone, c) # "yes" \/ Beside(fact, zone, c)
      /\ Stays(fact, zone, k) <=> /\ ~IsNowhere(zone) /\ ReadsPaths(j.rule.pred)
                                  /\ Inside(there, there, zone, d) # "yes" \/ Beside(fact, zone, d)
  BY DEF Stays, there, c, d
<1> QED
  BY <1>1, <1>2 DEF there, c, d

-----------------------------------------------------------------------------
\* Two judgements of one rule on one call, the other with more looked up.
Later(j, k) ==
    /\ j.rule = k.rule /\ j.facts = k.facts /\ j.zones = k.zones
    /\ Extends(j.ctx, k.ctx) /\ IsFacts(j.facts)
    /\ Strict(j.zones) /\ DOMAIN j.zones \subseteq Nat

\* What is seen of a call.
PartOf(view, facts) == view.commands \subseteq facts.commands /\ view.paths \subseteq facts.paths

\* Nothing is left to ask for what is covered.
CoveringKnown(j, k, view) ==
    \A deed \in Deeds(j.facts, view) :
        CoveringAsks(j.zones, deed, j.ctx) = {} /\ ConditionsAgree(j.zones, deed, j.ctx, k.ctx)

LEMMA PathsAsked ==
    ASSUME NEW j, NEW k, Later(j, k), NEW view, CoveringKnown(j, k, view),
           PathAsks(j, view, Deeds(j.facts, view)) = {}, j.facts.commands # {}, ReadsPaths(j.rule.pred),
           NEW deed \in Deeds(j.facts, view), NEW zone \in Covering(j.zones, deed, j.ctx),
           NEW p \in deed.alone.paths \cap view.paths
    PROVE  /\ Stays(p, zone, j) <=> Stays(p, zone, k)
           /\ StaysAsks(p, Here(p, j.facts), zone, k.ctx) = {}
<1>1. PICK l \in DOMAIN j.zones : zone = j.zones[l].area
  BY CoveringIs DEF Later
<1>2. zone.lenient = FALSE
  BY <1>1 DEF Later, Strict
<1>3. StaysAsks(p, Here(p, j.facts), zone, j.ctx) = {}
  BY DEF PathAsks
<1> QED
  BY <1>2, <1>3, StaysKnown DEF Later

LEMMA PathAsksStay ==
    ASSUME NEW j, NEW k, Later(j, k), NEW view, CoveringKnown(j, k, view),
           PathAsks(j, view, Deeds(j.facts, view)) = {}
    PROVE  PathAsks(k, view, Deeds(k.facts, view)) = {}
<1> DEFINE deeds == Deeds(j.facts, view)
<1>1. CASE j.facts.commands = {} \/ ~ReadsPaths(j.rule.pred)
  BY <1>1 DEF PathAsks, Later
<1>2. CASE j.facts.commands # {} /\ ReadsPaths(j.rule.pred)
  <2>1. \A deed \in deeds : Covering(j.zones, deed, k.ctx) = Covering(j.zones, deed, j.ctx)
    BY CoveringStays DEF Later, CoveringKnown
  <2>2. \A deed \in deeds : \A zone \in Covering(j.zones, deed, j.ctx) :
            \A p \in deed.alone.paths \cap view.paths :
                StaysAsks(p, Here(p, j.facts), zone, k.ctx) = {}
    BY <1>2, PathsAsked
  <2> HIDE DEF deeds
  <2>3. \A deed \in deeds : \A zone \in Covering(k.zones, deed, k.ctx) :
            \A p \in deed.alone.paths \cap view.paths :
                StaysAsks(p, Here(p, k.facts), zone, k.ctx) = {}
    BY <2>1, <2>2 DEF Later
  <2>4. PathAsks(k, view, deeds) = {}
    BY <2>3 DEF PathAsks
  <2> QED
    BY <2>4 DEF Later, deeds
<1> QED
  BY <1>1, <1>2

\* _excepted: what is left of a shell call,
LEMMA CommandsLeftStay ==
    ASSUME NEW j, NEW k, Later(j, k), NEW view, PartOf(view, j.facts), CoveringKnown(j, k, view),
           PathAsks(j, view, Deeds(j.facts, view)) = {}, j.facts.commands # {}
    PROVE  LeftOfCommands(j, view) = LeftOfCommands(k, view)
<1> DEFINE F == [c \in view.commands |-> Covering(j.zones, DeedOf(c, j.facts), j.ctx)]
           G == [c \in view.commands |-> Covering(k.zones, DeedOf(c, k.facts), k.ctx)]
<1>1. \A c \in view.commands : DeedOf(c, j.facts) \in Deeds(j.facts, view)
  BY DEF Deeds
<1>2. \A c \in view.commands : Covering(j.zones, DeedOf(c, j.facts), j.ctx)
                                 = Covering(k.zones, DeedOf(c, k.facts), k.ctx)
  BY <1>1, CoveringStays DEF Later, CoveringKnown
<1>3. F = G
  BY <1>2
<1>4. LeftOfCommands(j, view) = LeftGiven(F, j, view) /\ LeftOfCommands(k, view) = LeftGiven(G, k, view)
  BY DEF LeftOfCommands
<1>5. ASSUME NEW p \in view.paths, NEW c \in view.commands, c.index = p.source, NEW zone \in F[c]
      PROVE  Stays(p, zone, j) <=> Stays(p, zone, k)
  <2>1. CASE ~ReadsPaths(j.rule.pred)
    BY <2>1 DEF Stays, Later
  <2>2. CASE ReadsPaths(j.rule.pred)
    <3> DEFINE deed == DeedOf(c, j.facts)
    <3>1. deed \in Deeds(j.facts, view) /\ zone \in Covering(j.zones, deed, j.ctx)
      BY <1>1, <1>5
    <3>2. p \in deed.alone.paths \cap view.paths
      <4>1. deed.alone = Alone(c, j.facts)
        BY DEF DeedOf
      <4>2. Alone(c, j.facts) = Parted(j.facts, {c}, {q \in j.facts.paths : q.source = c.index})
        BY DEF Alone, Parted
      <4>3. Alone(c, j.facts).paths = {q \in j.facts.paths : q.source = c.index}
        BY <4>2, PartIs DEF Later
      <4> QED
        BY <1>5, <4>1, <4>3 DEF PartOf
    <3> HIDE DEF deed
    <3> QED
      BY <2>2, <3>1, <3>2, PathsAsked
  <2> QED
    BY <2>1, <2>2
<1>6. DOMAIN F = view.commands
  OBVIOUS
<1> HIDE DEF F
<1> DEFINE staying(p, i) ==
               \A c \in {d \in DOMAIN F : d.index = p.source /\ F[d] # {}} :
                   \E zone \in F[c] : Stays(p, zone, i)
<1>7. {p \in view.paths : staying(p, j)} = {p \in view.paths : staying(p, k)}
  BY <1>5, <1>6
<1> DEFINE left(paths) ==
               [gone |-> {c \in DOMAIN F : F[c] # {}},
                commands |-> {c \in DOMAIN F : F[c] = {} \/ \E p \in paths : p.source = c.index},
                paths |-> paths]
<1>8. \A i : LeftGiven(F, i, view) = {left({p \in view.paths : staying(p, i)})}
  BY DEF LeftGiven
<1> HIDE DEF staying, left
<1>9. LeftGiven(F, j, view) = LeftGiven(F, k, view)
  BY <1>7, <1>8
<1> QED
  BY <1>3, <1>4, <1>9

\* of the paths of a call without commands,
LEMMA PathsLeftStay ==
    ASSUME NEW j, NEW k, Later(j, k), NEW view, PartOf(view, j.facts), CoveringKnown(j, k, view),
           j.facts.commands = {}, view.paths # {}
    PROVE  LeftOfPaths(j, view) = LeftOfPaths(k, view)
<1>1. \A p \in view.paths : DeedOn(p, j.facts) \in Deeds(j.facts, view)
  BY DEF Deeds
<1>2. \A p \in view.paths : Covering(j.zones, DeedOn(p, j.facts), j.ctx)
                              = Covering(k.zones, DeedOn(p, k.facts), k.ctx)
  BY <1>1, CoveringStays DEF Later, CoveringKnown
<1>3. ASSUME NEW p \in view.paths, NEW zone \in Covering(j.zones, DeedOn(p, j.facts), j.ctx)
      PROVE  Beside(p, zone, j.ctx) <=> Beside(p, zone, k.ctx)
  <2>1. DeedOn(p, j.facts).where = p.path
    BY DEF DeedOn
  <2>2. zone.roots = {} \/ Rooted(p.path, zone, j.ctx) = Rooted(p.path, zone, k.ctx)
    BY <1>1, <2>1, CoveredKnown DEF Later, CoveringKnown
  <2> QED
    BY <2>2 DEF Beside
<1> DEFINE remains(p, i) ==
               \E covers \in {Covering(i.zones, DeedOn(p, i.facts), i.ctx)} :
                   \/ covers = {}
                   \/ \E zone \in covers : /\ ReadsPaths(i.rule.pred) /\ ~IsNowhere(zone)
                                           /\ Beside(p, zone, i.ctx)
           left(paths) == [gone |-> view.paths \ paths, commands |-> {}, paths |-> paths]
<1>4. ASSUME NEW p \in view.paths
      PROVE  remains(p, j) <=> remains(p, k)
  BY <1>2, <1>3 DEF Later
<1>5. \A i : LeftOfPaths(i, view) = {left({p \in view.paths : remains(p, i)})}
  BY DEF LeftOfPaths
<1> HIDE DEF remains, left
<1>6. {p \in view.paths : remains(p, j)} = {p \in view.paths : remains(p, k)}
  BY <1>4
<1> QED
  BY <1>5, <1>6

\* and of any call.
LEMMA LeftStays ==
    ASSUME NEW j, NEW k, Later(j, k), NEW view, PartOf(view, j.facts), CoveringKnown(j, k, view),
           PathAsks(j, view, Deeds(j.facts, view)) = {}
    PROVE  Left(j, view) = Left(k, view)
<1>1. CASE j.facts.commands # {}
  BY <1>1, CommandsLeftStay DEF Left, Later
<1>2. CASE j.facts.commands = {} /\ view.paths # {}
  BY <1>2, PathsLeftStay DEF Left, Later
<1>3. CASE j.facts.commands = {} /\ view.paths = {}
  <2>1. DeedOfCall(j.facts) \in Deeds(j.facts, view)
    BY <1>3 DEF Deeds
  <2>2. Covering(j.zones, DeedOfCall(j.facts), j.ctx) = Covering(k.zones, DeedOfCall(k.facts), k.ctx)
    BY <2>1, CoveringStays DEF Later, CoveringKnown
  <2> QED
    BY <1>3, <2>2 DEF Left, Later
<1> QED
  BY <1>1, <1>2, <1>3

\* A rule that an exception may drop is dropped or not, whatever is looked
\* up later, and its exceptions ask for nothing more.
LEMMA ExceptionsStay ==
    ASSUME NEW j, NEW k, Later(j, k), IsTree(j.rule.pred),
           \A l \in DOMAIN j.zones : j.zones[l].when = NoCondition \/ IsTree(j.zones[l].when),
           IsContext(j.ctx), IsContext(k.ctx), Alike(j.ctx, k.ctx),
           j.ctx.past # NotRead => k.ctx.past = j.ctx.past,
           NEW view, PartOf(view, j.facts),
           AsksOfExceptions(j, view, Deeds(j.facts, view)) = {}
    PROVE  /\ IsExcepted(j, view) <=> IsExcepted(k, view)
           /\ AsksOfExceptions(k, view, Deeds(k.facts, view)) = {}
<1> DEFINE deeds == Deeds(j.facts, view)
           c == j.ctx
           d == k.ctx
           placesOf(i) == UNION {CoveringAsks(i.zones, x, i.ctx) : x \in deeds}
<1>1. \A i : AsksOfExceptions(i, view, deeds)
          = IF placesOf(i) # {} THEN RootsOf(placesOf(i))
            ELSE IF i.ctx.past = NotRead /\ ExceptionConsults(i, deeds) THEN CallsFor("exception")
            ELSE IF PathAsks(i, view, deeds) # {} THEN RootsOf(PathAsks(i, view, deeds))
            ELSE LastAsks(i, view)
  BY DEF AsksOfExceptions
<1>2. /\ \A s : RootsOf(s) = {} <=> s = {}
      /\ \A who : CallsFor(who) # {}
  BY DEF RootsOf, CallsFor
<1>3. /\ placesOf(j) = {} /\ ~(c.past = NotRead /\ ExceptionConsults(j, deeds))
      /\ PathAsks(j, view, deeds) = {} /\ LastAsks(j, view) = {}
  <2> HIDE DEF placesOf, deeds
  <2>1. AsksOfExceptions(j, view, deeds) = {}
    BY DEF deeds
  <2> QED
    BY <1>1, <1>2, <2>1
<1>4. \A deed \in deeds : CoveringAsks(j.zones, deed, c) = {}
  BY <1>3
<1>5. ASSUME NEW deed \in deeds, NEW l \in DOMAIN j.zones
      PROVE  /\ ConditionHolds(j.zones[l], deed.alone, c) <=> ConditionHolds(j.zones[l], deed.alone, d)
             /\ j.zones[l].when # NoCondition /\ Consults(j.zones[l].when, deed.alone, Inner(d))
                  => d.past # NotRead
  <2>1. j.zones[l].when # NoCondition /\ Consults(j.zones[l].when, deed.alone, Inner(c))
          => c.past # NotRead
    BY <1>3 DEF ExceptionConsults
  <2> QED
    BY <2>1, ConditionStays
<1>6. CoveringKnown(j, k, view)
  BY <1>4, <1>5 DEF CoveringKnown, ConditionsAgree
<1>7. Left(j, view) = Left(k, view) /\ PathAsks(k, view, deeds) = {}
  <2>1. k.facts = j.facts
    BY DEF Later
  <2> QED
    BY <1>3, <1>6, <2>1, LeftStays, PathAsksStay
<1>8. \A left : Rest(j, left) = Rest(k, left)
  BY DEF Rest, Later
<1>9. LeftConsults(j, view) <=> LeftConsults(k, view)
  <2>1. \A f : Consults(j.rule.pred, f, c) <=> Consults(j.rule.pred, f, d)
    BY ConsultsAlike
  <2> QED
    BY <1>7, <1>8, <2>1 DEF LeftConsults, Later
<1>10. LeftConsults(j, view) => c.past # NotRead /\ PastAsks(c) = {}
  BY <1>2, <1>3 DEF LastAsks
<1>11. ASSUME NEW left \in Left(j, view), left.gone # {}, left.commands \cup left.paths # {}
       PROVE  FiresOn(j.rule, Rest(j, left), c) <=> FiresOn(j.rule, Rest(j, left), d)
  <2>1. Consults(j.rule.pred, Rest(j, left), c) => LeftConsults(j, view)
    BY <1>11 DEF LeftConsults
  <2>2. LeftConsults(j, view) => PastViews(Rest(j, left), c) = PastViews(Rest(j, left), d)
    BY <1>10, PastKnown DEF Later
  <2>3. Alike(c, c)
    BY DEF Alike
  <2>4. Holds(j.rule.pred, Rest(j, left), c) = Holds(j.rule.pred, Rest(j, left), d)
    BY <2>1, <2>2, <2>3, HoldsSame
  <2> QED
    BY <2>4 DEF FiresOn
<1>12. IsExcepted(j, view) <=> IsExcepted(k, view)
  BY <1>7, <1>8, <1>11 DEF IsExcepted, Later
<1>13. placesOf(k) = {}
  <2>1. \A deed \in deeds : CoveringAsks(j.zones, deed, d) = {}
    BY <1>6, CoveringStays DEF Later, CoveringKnown
  <2> HIDE DEF deeds
  <2> QED
    BY <2>1 DEF Later
<1>14. ~(d.past = NotRead /\ ExceptionConsults(k, deeds))
  BY <1>5 DEF ExceptionConsults, Later
<1>15. LastAsks(k, view) = {}
  <2>1. LeftConsults(k, view) => d.past # NotRead /\ PastAsks(d) = {}
    <3>1. c.area = d.area
      BY DEF Later, Extends
    <3>2. c.past = d.past /\ PastAsks(c) = {} => PastAsks(d) = {}
      BY <3>1, AsksFewer DEF PastAsks, Later
    <3> QED
      BY <1>9, <1>10, <3>2
  <2> QED
    BY <1>2, <2>1 DEF LastAsks
<1>16. AsksOfExceptions(k, view, deeds) = {}
  <2> HIDE DEF placesOf, deeds
  <2> QED
    BY <1>1, <1>7, <1>13, <1>14, <1>15
<1> QED
  BY <1>12, <1>16 DEF Later

\* A judgement that asks for nothing more says what it says, however much
\* is looked up later.
LEMMA VerdictStays ==
    ASSUME NEW rule, IsTree(rule.pred), NEW facts, IsFacts(facts), NEW c, NEW d,
           IsContext(c), IsContext(d), Alike(c, d), Extends(c, d), c.past # NotRead => d.past = c.past,
           PlacesOf(scenario.exceptions), ConditionTrees, NextAsks(rule, facts, c) = {}
    PROVE  /\ NextAsks(rule, facts, d) = {}
           /\ Verdict(Judgement(rule, facts, d)) = Verdict(Judgement(rule, facts, c))
<1> DEFINE j == Judgement(rule, facts, c)
           k == Judgement(rule, facts, d)
           zones == Zones(scenario.exceptions, rule, facts)
<1>1. /\ j.rule = rule /\ j.facts = facts /\ j.ctx = c /\ j.zones = zones
      /\ j.sure = View(facts, c.area, c, "yes") /\ j.unsure = View(facts, c.area, c, "unsure")
      /\ k.rule = rule /\ k.facts = facts /\ k.ctx = d /\ k.zones = zones
      /\ k.sure = View(facts, d.area, d, "yes") /\ k.unsure = View(facts, d.area, d, "unsure")
  BY DEF Judgement
<1>2. CASE ~ForTool(rule.tools, facts)
  <2>1. NextAsks(rule, facts, d) = {}
    BY <1>2, NextAsksIs
  <2> HIDE DEF j, k
  <2>2. Verdict(j) = "quiet" /\ Verdict(k) = "quiet"
    BY <1>1, <1>2 DEF Verdict
  <2> QED
    BY <2>1, <2>2 DEF j, k
<1>3. CASE ForTool(rule.tools, facts)
  <2>1. Settled(rule, facts, c)
    BY <1>3, NoAsksSettled
  <2>2. /\ Settled(rule, facts, d)
        /\ FiresGiven(rule, facts, d) <=> FiresGiven(rule, facts, c)
        /\ ~FiresGiven(rule, facts, c) => (MayFireIn(rule, facts, d) <=> MayFireIn(rule, facts, c))
    BY <2>1, SettledStays
  <2>3. ViewAsks(facts, c.area, c) = {} /\ ViewAsks(facts, d.area, d) = {}
    BY <2>1, <2>2 DEF Settled
  <2>4. j.sure = k.sure
    <3>1. c.area = d.area
      BY DEF Extends
    <3> QED
      BY <1>1, <2>3, <3>1, ViewKnown
  <2>5. /\ \A v, w \in j.sure : v = w
        /\ \A v \in j.sure : PartOf(v, facts)
    BY <1>1, ViewIs DEF PartOf
  <2>6. \A v \in j.sure : FiresOn(rule, v, c) <=> FiresOn(rule, v, d)
    <3>1. /\ FiresGiven(rule, facts, c) <=> \E v \in j.sure : FiresOn(rule, v, c)
          /\ FiresGiven(rule, facts, d) <=> \E v \in j.sure : FiresOn(rule, v, d)
      BY <1>1, <2>4 DEF FiresGiven
    <3> HIDE DEF j
    <3>2. ASSUME NEW v \in j.sure
          PROVE  /\ FiresOn(rule, v, c) <=> \E w \in j.sure : FiresOn(rule, w, c)
                 /\ FiresOn(rule, v, d) <=> \E w \in j.sure : FiresOn(rule, w, d)
      BY <2>5
    <3> QED
      BY <2>2, <3>1, <3>2
  <2>7. /\ AsksOfRule(j, ConsultsIn(rule, facts, c)) = {}
        /\ NextAsks(rule, facts, d) = AsksOfRule(k, ConsultsIn(rule, facts, d))
    BY <1>3, <2>3, NextAsksIs
  <2>8. Strict(zones) /\ DOMAIN zones \subseteq Nat
        /\ \A l \in DOMAIN zones : zones[l].when = NoCondition \/ IsTree(zones[l].when)
    BY ZonesAre DEF ConditionTrees
  <2> HIDE DEF j, k, zones
  <2>9. Later(j, k)
    BY <1>1, <2>8 DEF Later
  <2>10. ASSUME NEW v \in j.sure, FiresOn(rule, v, c), zones # <<>>
         PROVE  /\ IsExcepted(j, v) <=> IsExcepted(k, v)
                /\ AsksOfExceptions(k, v, Deeds(k.facts, v)) = {}
    <3>1. ~(ConsultsIn(rule, facts, c) /\ c.past = NotRead)
          /\ ~(ConsultsIn(rule, facts, c) /\ PastAsks(c) # {})
      BY <2>1 DEF Settled
    <3>2. AsksOfExceptions(j, v, Deeds(j.facts, v)) = {}
      BY <1>1, <2>7, <2>10, <3>1 DEF AsksOfRule
    <3>3. /\ IsTree(j.rule.pred) /\ IsContext(j.ctx) /\ IsContext(k.ctx) /\ Alike(j.ctx, k.ctx)
          /\ j.ctx.past # NotRead => k.ctx.past = j.ctx.past
          /\ PartOf(v, j.facts)
      BY <1>1, <2>5, <2>10
    <3>4. \A l \in DOMAIN j.zones : j.zones[l].when = NoCondition \/ IsTree(j.zones[l].when)
      BY <1>1, <2>8
    <3>5. /\ IsExcepted(j, v) <=> IsExcepted(k, v)
          /\ AsksOfExceptions(k, v, Deeds(k.facts, v)) = {}
      BY <2>9, <3>2, <3>3, <3>4, ExceptionsStay
    <3> QED
      BY <3>5
  <2>11. NextAsks(rule, facts, d) = {}
    <3>1. ~(ConsultsIn(rule, facts, d) /\ d.past = NotRead)
          /\ ~(ConsultsIn(rule, facts, d) /\ PastAsks(d) # {})
      BY <2>2 DEF Settled
    <3>2. \A v \in k.sure : FiresOn(rule, v, d) /\ zones # <<>> =>
             AsksOfExceptions(k, v, Deeds(k.facts, v)) = {}
      BY <2>4, <2>6, <2>10
    <3> QED
      BY <1>1, <2>7, <3>1, <3>2 DEF AsksOfRule
  <2>12. FiresGiven(rule, facts, c) /\ zones # <<>> =>
             ((\E v \in j.sure : IsExcepted(j, v)) <=> (\E v \in k.sure : IsExcepted(k, v)))
    <3> SUFFICES ASSUME FiresGiven(rule, facts, c), zones # <<>>
                 PROVE  (\E v \in j.sure : IsExcepted(j, v)) <=> (\E v \in k.sure : IsExcepted(k, v))
      OBVIOUS
    <3>1. PICK v \in j.sure : FiresOn(rule, v, c)
      BY <1>1 DEF FiresGiven
    <3>2. \A w \in j.sure : w = v
      BY <2>5
    <3>3. IsExcepted(j, v) <=> IsExcepted(k, v)
      BY <2>10, <3>1
    <3> QED
      BY <2>4, <3>2, <3>3
  <2>13. /\ Fires(j) <=> FiresGiven(rule, facts, c)
         /\ Fires(k) <=> FiresGiven(rule, facts, d)
         /\ (\E view \in j.unsure : FiresOn(rule, view, c)) <=> MayFireIn(rule, facts, c)
         /\ (\E view \in k.unsure : FiresOn(rule, view, d)) <=> MayFireIn(rule, facts, d)
    BY <1>1 DEF Fires, FiresGiven, MayFireIn
  <2>14. /\ Verdict(j) = IF FiresGiven(rule, facts, c)
                         THEN IF zones # <<>> /\ \E v \in j.sure : IsExcepted(j, v)
                              THEN "excepted" ELSE "fired"
                         ELSE IF MayFireIn(rule, facts, c) THEN "possible" ELSE "quiet"
         /\ Verdict(k) = IF FiresGiven(rule, facts, d)
                         THEN IF zones # <<>> /\ \E v \in k.sure : IsExcepted(k, v)
                              THEN "excepted" ELSE "fired"
                         ELSE IF MayFireIn(rule, facts, d) THEN "possible" ELSE "quiet"
    BY <1>1, <1>3, <2>13 DEF Verdict
  <2> QED
    BY <2>2, <2>11, <2>12, <2>14 DEF j, k
<1> QED
  BY <1>2, <1>3

-----------------------------------------------------------------------------
\* What was said of a rule is all that there is to say of it.
SaysAll(i) ==
    LET verdict == Verdict(Judgement(RuleAt(i), FactsAt(i), ContextAt(i)))
    IN  /\ NextAsks(RuleAt(i), FactsAt(i), ContextAt(i)) = {}
        /\ IdAt(i) \in fired <=> verdict = "fired"
        /\ IdAt(i) \in excepted <=> verdict = "excepted"
        /\ IdAt(i) \in possible <=> verdict = "possible"

AllSaid ==
    /\ proposed = Extract(scenario.call)
    /\ \A i \in Places \ todo :
          IdAt(i) \notin failures /\ (Deferred(RuleAt(i)) => UnknownIsBan) => SaysAll(i)

LEMMA AllSaidNext ==
    ASSUME JudgeInv, AllSaid, [Next]_vars
    PROVE  AllSaid'
<1>0. LeavesAlone \/ AsksNext \/ Answers \/ Finishes \/ Decides
  BY StepKinds
<1>1. SameRules
  BY <1>0 DEF LeavesAlone, AsksNext, Answers, Finishes, Decides, SameRules
<1>2. /\ Places' = Places /\ scenario' = scenario /\ proposed' = proposed
      /\ \A i : RuleAt(i)' = RuleAt(i) /\ IdAt(i)' = IdAt(i) /\ FactsAt(i)' = FactsAt(i)
      /\ UnknownIsBan' <=> UnknownIsBan
  BY <1>1, SceneStays DEF SameRules, UnknownIsBan, Rules
<1>3. Scene /\ PlacesOf(scenario.exceptions) /\ ConditionTrees
  BY ExceptionsAre DEF JudgeInv
<1>9. ASSUME NEW rule, NEW facts, NEW ctx
      PROVE  /\ NextAsks(rule, facts, ctx)' = NextAsks(rule, facts, ctx)
             /\ Verdict(Judgement(rule, facts, ctx))' = Verdict(Judgement(rule, facts, ctx))
  <2>1. Judgement(rule, facts, ctx)' = Judgement(rule, facts, ctx)
    BY <1>2 DEF Judgement
  <2>2. NextAsks(rule, facts, ctx)' = NextAsks(rule, facts, ctx)
    BY <2>1 DEF NextAsks
  <2>3. Verdict(Judgement(rule, facts, ctx))' = Verdict(Judgement(rule, facts, ctx))
    BY <2>1 DEF Verdict, Fires, IsExcepted, Left, LeftOfCommands, LeftGiven, LeftOfPaths, Stays, Rest
  <2> QED
    BY <2>2, <2>3
<1>10. ASSUME NEW i
       PROVE  SaysAll(i)' <=>
                LET verdict == Verdict(Judgement(RuleAt(i), FactsAt(i), ContextAt(i)'))
                IN  /\ NextAsks(RuleAt(i), FactsAt(i), ContextAt(i)') = {}
                    /\ IdAt(i) \in fired' <=> verdict = "fired"
                    /\ IdAt(i) \in excepted' <=> verdict = "excepted"
                    /\ IdAt(i) \in possible' <=> verdict = "possible"
  <2>1. /\ NextAsks(RuleAt(i), FactsAt(i), ContextAt(i))' = NextAsks(RuleAt(i), FactsAt(i), ContextAt(i)')
        /\ Verdict(Judgement(RuleAt(i), FactsAt(i), ContextAt(i)))'
              = Verdict(Judgement(RuleAt(i), FactsAt(i), ContextAt(i)'))
    BY <1>2, <1>9
  <2> QED
    BY <1>2, <2>1 DEF SaysAll
<1> DEFINE verdictOf(i) == Verdict(Judgement(RuleAt(i), FactsAt(i), ContextAt(i)))
           ToldOf(i) == /\ IdAt(i) \in fired' <=> verdictOf(i) = "fired"
                        /\ IdAt(i) \in excepted' <=> verdictOf(i) = "excepted"
                        /\ IdAt(i) \in possible' <=> verdictOf(i) = "possible"
<1>4. ASSUME NEW i \in Places, Deferred(RuleAt(i)) => UnknownIsBan,
             i \notin todo \/ (Finishes /\ i = Turn),
             NextAsks(RuleAt(i), FactsAt(i), ContextAt(i)) = {}, ToldOf(i)
      PROVE  SaysAll(i)'
  <2> DEFINE rule == RuleAt(i)
             facts == FactsAt(i)
             c == ContextAt(i)
             d == ContextAt(i)'
  <2>1. /\ Alike(c, d) /\ Extends(c, d) /\ (c.past # NotRead => d.past = c.past)
        /\ IsContext(c) /\ IsContext(d)
    BY <1>4, StepExtends
  <2>2. IsTree(rule.pred) /\ IsFacts(facts)
    BY <1>3, RulesAre, JudgedIs DEF AllSaid, FactsAt
  <2>3. NextAsks(rule, facts, c) = {}
    BY <1>4
  <2>4. verdictOf(i) = Verdict(Judgement(rule, facts, c))
    OBVIOUS
  <2> HIDE DEF rule, facts, c, d, verdictOf
  <2>6. NextAsks(rule, facts, d) = {}
        /\ Verdict(Judgement(rule, facts, d)) = Verdict(Judgement(rule, facts, c))
    BY <1>3, <2>1, <2>2, <2>3, VerdictStays
  <2>7. /\ IdAt(i) \in fired' <=> Verdict(Judgement(rule, facts, d)) = "fired"
        /\ IdAt(i) \in excepted' <=> Verdict(Judgement(rule, facts, d)) = "excepted"
        /\ IdAt(i) \in possible' <=> Verdict(Judgement(rule, facts, d)) = "possible"
    BY <1>4, <2>4, <2>6
  <2> QED
    BY <1>10, <2>6, <2>7 DEF rule, facts, d
<1>5. ASSUME NEW i \in Places, i \notin todo', IdAt(i) \notin failures',
             Deferred(RuleAt(i)) => UnknownIsBan
      PROVE  SaysAll(i)'
  <2>1. CASE UNCHANGED <<todo, outcome>>
    <3>1. i \notin todo /\ SaysAll(i)
      BY <1>5, <2>1 DEF AllSaid, outcome
    <3>2. ToldOf(i)
      BY <2>1, <3>1 DEF SaysAll, outcome
    <3>3. NextAsks(RuleAt(i), FactsAt(i), ContextAt(i)) = {}
      BY <3>1 DEF SaysAll
    <3> HIDE DEF ToldOf
    <3> QED
      BY <1>4, <1>5, <3>1, <3>2, <3>3
  <2>2. CASE Finishes /\ i # Turn
    <3>1. /\ Turn \in todo /\ Turn \in Places /\ todo' = todo \ {Turn}
      BY <2>2, AsksNowAre DEF Finishes
    <3>2. IdAt(i) # IdAt(Turn)
      BY <1>3, <2>2, <3>1, RulesAre
    <3>3. /\ IdAt(i) \in fired' <=> IdAt(i) \in fired
          /\ IdAt(i) \in excepted' <=> IdAt(i) \in excepted
          /\ IdAt(i) \in possible' <=> IdAt(i) \in possible
          /\ IdAt(i) \in failures' <=> IdAt(i) \in failures
      BY <2>2, <3>2 DEF Finishes, Adds
    <3>4. i \notin todo
      BY <1>5, <2>2, <3>1
    <3>5. SaysAll(i)
      BY <1>5, <3>3, <3>4 DEF AllSaid
    <3>6. ToldOf(i)
      BY <3>3, <3>5 DEF SaysAll
    <3>7. NextAsks(RuleAt(i), FactsAt(i), ContextAt(i)) = {}
      BY <3>5 DEF SaysAll
    <3> HIDE DEF ToldOf
    <3> QED
      BY <1>4, <1>5, <3>4, <3>6, <3>7
  <2>3. CASE Finishes /\ i = Turn
    <3>1. asking # Idle /\ Turn \in todo
      BY <2>3, AsksNowAre DEF Finishes
    <3>2. asking = Ready
      BY <1>5, <2>3 DEF Finishes
    <3>3. AsksNow = {}
      BY <3>1, <3>2, AsksNowAre
    <3>4. IdAt(i) \notin fired \cup excepted \cup possible
      BY <2>3, <3>1 DEF JudgeInv, Unspoken
    <3>5. /\ Adds(fired, fired', IdAt(i), verdictOf(i) = "fired")
          /\ Adds(excepted, excepted', IdAt(i), verdictOf(i) = "excepted")
          /\ Adds(possible, possible', IdAt(i), verdictOf(i) = "possible")
      BY <2>3, <3>2 DEF Finishes, Ready
    <3>6. ToldOf(i)
      <4> HIDE DEF verdictOf
      <4> QED
        BY <3>4, <3>5 DEF Adds
    <3>7. NextAsks(RuleAt(i), FactsAt(i), ContextAt(i)) = {}
      BY <2>3, <3>3 DEF AsksNow
    <3> HIDE DEF ToldOf
    <3> QED
      BY <1>4, <1>5, <2>3, <3>6, <3>7
  <2> QED
    BY <1>0, <2>1, <2>2, <2>3 DEF LeavesAlone, AsksNext, Answers, Decides, outcome
<1> QED
  BY <1>2, <1>5 DEF AllSaid

\* At any time, what was said of each rule that was judged, and of the
\* exceptions to it, is what would be said now.
THEOREM JudgedOnce == Spec => []AllSaid
<1>1. Init => AllSaid
  BY DEF Init, AllSaid, Places
<1>2. JudgeInv /\ AllSaid /\ [Next]_vars => AllSaid'
  BY AllSaidNext
<1> QED
  BY <1>1, <1>2, JudgesInTurn, PTL DEF Spec

\* Between a directory and the level where the walk stops, every level has
\* the root of that level.
LEMMA LevelsAgree ==
    ASSUME NEW H \in Seq(Words), NEW stored, NEW stops, stored \subseteq stops,
           NEW near, Nearest(H, stops, near),
           NEW e \in Ancestors(H), Len(near) <= Len(e)
    PROVE  FindRoot(e, stored, <<>>) = FindRoot(near, stored, <<>>)
<1>1. /\ near \in Ancestors(H) /\ near \in Seq(Words) /\ Len(near) \in 1..Len(H)
      /\ e \in Seq(Words) /\ Len(e) \in 1..Len(H) /\ Len(H) \in Nat
  BY AncestorIs DEF Nearest
<1>2. ASSUME NEW r \in Ancestors(H) \cap stored
      PROVE  r \in Ancestors(near) /\ Len(r) <= Len(near)
  <2>1. Len(r) <= Len(near)
    BY DEF Nearest
  <2> QED
    BY <1>1, <2>1, AncestorsNest
<1>3. CASE Ancestors(near) \cap stored = {}
  <2>1. Ancestors(e) \cap stored = {}
    BY <1>2, <1>3, AncestorsUp
  <2> QED
    BY <1>1, <1>3, <2>1, FindRootIs
<1>4. CASE Ancestors(near) \cap stored # {}
  <2> DEFINE R == FindRoot(near, stored, <<>>)
  <2>1. Nearest(near, stored, R)
    BY <1>1, <1>4, FindRootIs
  <2> HIDE DEF R
  <2>2. R \in Ancestors(near) \cap stored /\ \A r \in Ancestors(near) \cap stored : Len(r) <= Len(R)
    BY <2>1 DEF Nearest
  <2>3. R \in Ancestors(H)
    BY <1>1, <2>2, AncestorsUp
  <2>4. Nearest(H, stored, R)
    BY <1>2, <2>2, <2>3 DEF Nearest
  <2>5. Len(R) <= Len(e)
    <3>1. Len(R) \in 1..Len(near)
      BY <1>1, <2>2, AncestorIs
    <3> QED
      BY <1>1, <3>1
  <2>6. FindRoot(e, stored, <<>>) = R
    BY <2>4, <2>5, NearestStays
  <2> QED
    BY <2>6 DEF R
<1> QED
  BY <1>3, <1>4

\* Answers that are those of the disk as it is.
AsOnDisk(answers) ==
    \A d \in DOMAIN answers : answers[d] = FindRoot(d, repositories, <<>>)

\* finder: the answers of the levels that were asked before lead to the
\* answer of a walk to the top, for the directory and for each level that
\* the walk passes.
LEMMA WalkIsRight ==
    ASSUME NEW H \in Seq(Words), AsOnDisk(seen)
    PROVE  /\ FindRoot(H, repositories, seen) = FindRoot(H, repositories, <<>>)
           /\ \A e \in Passed(H, repositories, seen) :
                  e \in Seq(Words)
                    /\ FindRoot(e, repositories, <<>>) = FindRoot(H, repositories, seen)
<1> DEFINE stops == DOMAIN seen \cup repositories
           levels == {d \in Ancestors(H) : d \in DOMAIN seen \/ d \in repositories}
           near == CHOOSE d \in levels : \A e \in levels : Len(e) <= Len(d)
           root == FindRoot(H, repositories, seen)
<1>1. levels = Ancestors(H) \cap stops
  OBVIOUS
<1>2. Passed(H, repositories, seen)
        = {d \in Ancestors(H) : d \notin DOMAIN seen /\ \A e \in levels : Len(e) <= Len(d)}
  BY DEF Passed
<1>3. root = IF levels = {} THEN <<>> ELSE IF near \in DOMAIN seen THEN seen[near] ELSE near
  BY DEF FindRoot
<1>4. \A e \in Ancestors(H) : e \in Seq(Words)
  BY AncestorIs
<1>5. CASE levels = {}
  <2>1. Ancestors(H) \cap repositories = {}
    BY <1>5
  <2>2. \A e \in Ancestors(H) : Ancestors(e) \cap repositories = {}
    BY <2>1, AncestorsUp
  <2>3. root = <<>>
    BY <1>3, <1>5
  <2> HIDE DEF root, levels
  <2>4. FindRoot(H, repositories, <<>>) = <<>>
    BY <2>1, FindRootIs
  <2>5. \A e \in Ancestors(H) : FindRoot(e, repositories, <<>>) = <<>>
    BY <1>4, <2>2, FindRootIs
  <2> QED
    BY <1>2, <1>4, <2>3, <2>4, <2>5 DEF root
<1>6. CASE levels # {}
  <2>1. \E d \in levels : \A e \in levels : Len(e) <= Len(d)
    <3>1. \E d : Nearest(H, stops, d)
      BY <1>1, <1>6, NearestExists
    <3> QED
      BY <1>1, <3>1 DEF Nearest
  <2>2. near \in levels /\ \A e \in levels : Len(e) <= Len(near)
    <3> HIDE DEF levels
    <3> QED
      BY <2>1
  <2>3. Nearest(H, stops, near)
    <3> HIDE DEF near, stops, levels
    <3> QED
      BY <1>1, <2>2 DEF Nearest
  <2>4. near \in Ancestors(H) /\ near \in Seq(Words) /\ (near \in DOMAIN seen \/ near \in repositories)
        /\ Len(near) \in 1..Len(H) /\ Len(H) \in Nat
    <3> HIDE DEF near, stops
    <3> QED
      BY <1>4, <2>2, AncestorIs DEF levels
  <2> HIDE DEF near
  <2>5. root = FindRoot(near, repositories, <<>>)
    <3>1. CASE near \in DOMAIN seen
      BY <1>3, <1>6, <3>1 DEF AsOnDisk
    <3>2. CASE near \notin DOMAIN seen
      <4>1. near \in Ancestors(near) /\ near \in repositories
        <5>1. near \in Ancestors(near)
          BY <2>4, AncestorsNest
        <5> QED
          BY <2>4, <3>2, <5>1
      <4>2. Nearest(near, repositories, near)
        <5>1. \A e \in Ancestors(near) : Len(e) <= Len(near)
          <6>1. \A e \in Ancestors(near) : Len(e) \in 1..Len(near)
            BY <2>4, AncestorIs
          <6> QED
            BY <2>4, <6>1
        <5> QED
          BY <4>1, <5>1 DEF Nearest
      <4>3. Nearest(near, repositories, FindRoot(near, repositories, <<>>))
        BY <2>4, <4>1, FindRootIs
      <4>4. FindRoot(near, repositories, <<>>) = near
        BY <2>4, <4>2, <4>3, NearestIsOne
      <4> QED
        BY <1>3, <1>6, <3>2, <4>4
    <3> QED
      BY <3>1, <3>2
  <2>6. ASSUME NEW e \in Ancestors(H), Len(near) <= Len(e)
        PROVE  FindRoot(e, repositories, <<>>) = root
    <3>1. repositories \subseteq stops
      OBVIOUS
    <3> HIDE DEF root, stops
    <3> QED
      BY <2>3, <2>5, <2>6, <3>1, LevelsAgree
  <2>7. H \in Ancestors(H) /\ Len(near) <= Len(H)
    <3>1. SubSeq(H, 1, Len(H)) = H
      <4>1. Len(H) \in 1..Len(H)
        BY <2>4
      <4>2. SubSeq(H, 1, Len(H)) \in Seq(Words) /\ Len(SubSeq(H, 1, Len(H))) = Len(H)
            /\ \A i \in 1..Len(H) : SubSeq(H, 1, Len(H))[i] = H[i]
        BY <4>1, BeginningIs
      <4> QED
        BY <4>2, SeqEqual
    <3>2. Len(H) \in 1..Len(H) /\ Len(near) <= Len(H)
      BY <2>4
    <3>3. H \in {SubSeq(H, 1, n) : n \in 1..Len(H)}
      BY <3>1, <3>2
    <3> QED
      BY <3>2, <3>3 DEF Ancestors
  <2> HIDE DEF root, levels, stops
  <2>8. root = FindRoot(H, repositories, <<>>)
    BY <2>6, <2>7
  <2>9. \A e \in Passed(H, repositories, seen) : e \in Ancestors(H) /\ Len(near) <= Len(e)
    BY <1>2, <2>2
  <2> QED
    BY <1>4, <2>6, <2>8, <2>9 DEF root
<1> QED
  BY <1>5, <1>6

-----------------------------------------------------------------------------
\* The directories that are asked about are paths.
LEMMA ExtractSpoken ==
    ASSUME scenario \in Scenarios
    PROVE  Spoken(Extract(scenario.call))
<1> DEFINE call == scenario.call
           start == StartDirectory(call)
           known == StartKnown(call)
           T == Seq(Words)
           Known == T \cup {UnknownDir}
<1>1. /\ IsWritten(call.given) /\ {call.start, call.target, call.glob} \subseteq T
      /\ \A i \in DOMAIN call.commands :
            /\ call.commands[i].move \in T
            /\ \A operand \in call.commands[i].operands : operand.words \in T
  BY EngineAssumption
<1> HIDE DEF call
<1>2. \A words \in T, cwd \in T : Resolved(words, cwd) \in T
  BY PathsAssumption, WrittenIn, ResolvesBehind DEF IsValues, Resolved, Normalize, BehindRoot
<1>3. CallDirectory(call) \in T
  <2>1. BehindRoot(Extract(call).cwd)
    BY <1>1, CallIsPlaced
  <2> QED
    BY <2>1 DEF BehindRoot, Extract
<1>4. start \in T
  BY <1>1, <1>2, <1>3 DEF StartDirectory
<1> HIDE DEF start, known
<1>5. \A move \in T : RunsIn(move, start, known) \in Known
  <2> SUFFICES ASSUME NEW move \in T PROVE RunsIn(move, start, known) \in Known
    OBVIOUS
  <2>1. Resolved(move, start) \in T
    BY <1>2, <1>4
  <2>2. RunsIn(move, start, known) \in {start, UnknownDir, Resolved(move, start)}
    BY DEF RunsIn
  <2> QED
    BY <1>4, <2>1, <2>2
<1>6. \A d \in Known : Label(d, call) \in Known
  <2>1. HereDir \in T
    BY DEF HereDir
  <2> QED
    BY <2>1 DEF Label
<1> HIDE DEF T, Known
<1>7. \A c \in ShellCommands(call, start, known) : c.cwd \in Known
  BY <1>1, <1>5, <1>6 DEF ShellCommands
<1>8. \A p \in ShellPaths(call, start, known) : p.cwd \in Known /\ p.path \in T
  <2> SUFFICES ASSUME NEW i \in DOMAIN call.commands, NEW operand \in call.commands[i].operands,
                      NEW p, p = PathFact(Resolved(operand.words,
                                                   MovesTo(call.commands[i].move, start)),
                                          operand.op, operand.recursive,
                                          Label(RunsIn(call.commands[i].move, start, known), call), i)
               PROVE  p.cwd \in Known /\ p.path \in T
    BY DEF ShellPaths
  <2>1. MovesTo(call.commands[i].move, start) \in T
    <3>1. Resolved(call.commands[i].move, start) \in T
      BY <1>1, <1>2, <1>4
    <3> QED
      BY <1>4, <3>1 DEF MovesTo
  <2>2. Resolved(operand.words, MovesTo(call.commands[i].move, start)) \in T
    BY <1>1, <1>2, <2>1
  <2>3. Label(RunsIn(call.commands[i].move, start, known), call) \in Known
    BY <1>1, <1>5, <1>6
  <2>4. /\ p.path = Resolved(operand.words, MovesTo(call.commands[i].move, start))
        /\ p.cwd = Label(RunsIn(call.commands[i].move, start, known), call)
    BY DEF PathFact
  <2> QED
    BY <2>2, <2>3, <2>4
<1>9. \A p \in FilePaths(call) : p.cwd \in Known /\ p.path \in T
  <2> DEFINE below == IF call.glob = <<>> THEN call.target
                      ELSE (IF call.target = <<>> THEN <<".">> ELSE call.target)
                               \o <<"**">> \o call.glob
  <2>1. below \in T
    <3>1. \A a \in Words : <<a>> \in Seq(Words)
      OBVIOUS
    <3>2. <<".">> \in T /\ <<"**">> \in T
      BY <3>1, PathsAssumption DEF T
    <3>3. \A x, y, z \in T : (x \o y) \o z \in T
      BY DEF T
    <3> QED
      BY <1>1, <3>2, <3>3
  <2>2. HereDir \in Known
    BY DEF HereDir, Known, T
  <2>3. Resolved(below, CallDirectory(call)) \in T
    BY <1>2, <1>3, <2>1
  <2>4. FilePaths(call) = IF below = <<>> THEN {}
            ELSE {PathFact(Resolved(below, CallDirectory(call)), Operation(call.tool),
                           FALSE, HereDir, 0)}
    BY DEF FilePaths
  <2> HIDE DEF below
  <2> QED
    BY <2>2, <2>3, <2>4 DEF PathFact
<1> DEFINE facts == Extract(call)
<1>10. /\ facts.cwd = CallDirectory(call)
       /\ facts.commands \in {ShellCommands(call, start, known), {}}
       /\ facts.paths \in {ShellPaths(call, start, known), FilePaths(call)}
  BY DEF Extract, start, known
<1> HIDE DEF facts
<1>11. Spoken(facts)
  BY <1>3, <1>7, <1>8, <1>9, <1>10 DEF Spoken, Known, T
<1> QED
  BY <1>11 DEF facts, call

\* So are those that a rule for unknown directories is judged on,
LEMMA JudgedSpoken ==
    ASSUME Given, NEW rule
    PROVE  Spoken(Judged(rule))
<1>1. IsFacts(proposed) /\ Spoken(proposed)
  BY ExtractIs, ExtractSpoken DEF Given
<1> DEFINE home(fact) == IF fact.cwd = UnknownDir THEN [fact EXCEPT !.cwd = HereDir] ELSE fact
           cs == {home(c) : c \in proposed.commands}
           ps == {home(p) : p \in proposed.paths}
<1>2. /\ AtHome(proposed).commands = cs /\ AtHome(proposed).paths = ps
      /\ AtHome(proposed).cwd = proposed.cwd
  <2>1. AtHome(proposed) = Parted(proposed, cs, ps)
    BY DEF AtHome, Parted
  <2> HIDE DEF cs, ps
  <2> QED
    BY <1>1, <2>1, PartIs
<1>3. HereDir \in Seq(Words)
  BY DEF HereDir
<1>4. /\ \A c \in proposed.commands : c = [argv |-> c.argv, index |-> c.index, cwd |-> c.cwd]
      /\ \A p \in proposed.paths :
             p = [path |-> p.path, op |-> p.op, recursive |-> p.recursive, cwd |-> p.cwd,
                  source |-> p.source]
  BY DEF Given, Extract, ShellCommands, ShellPaths, FilePaths, PathFact
<1>5. /\ \A c \in proposed.commands : home(c).cwd \in {c.cwd, HereDir}
      /\ \A p \in proposed.paths : home(p).cwd \in {p.cwd, HereDir} /\ home(p).path = p.path
  BY <1>4
<1> HIDE DEF home
<1>6. Spoken(AtHome(proposed))
  BY <1>1, <1>2, <1>3, <1>5 DEF Spoken
<1> QED
  BY <1>1, <1>6 DEF Judged

ArePaths(directories) == directories \subseteq Seq(Words)

\* and so is what _view asks for,
LEMMA ViewAsksPaths ==
    ASSUME NEW facts, Spoken(facts), NEW area, NEW ctx
    PROVE  ArePaths(ViewAsks(facts, area, ctx))
<1>1. \A s : s \subseteq Seq(Words) \cup {UnknownDir} => ArePaths(Wanted(s, ctx))
  BY DEF Wanted, Asks, ArePaths
<1>2. MadeIn(facts) \in Seq(Words) \cup {UnknownDir}
  BY DEF MadeIn, Spoken
<1>3. \A x \in facts.commands \cup facts.paths : Here(x, facts) \in Seq(Words) \cup {UnknownDir}
  BY <1>2 DEF Here, Spoken
<1> DEFINE here == MadeIn(facts)
           some == {d \in {Here(x, facts) : x \in facts.commands \cup facts.paths} :
                        d # UnknownDir /\ Placed(d, area)}
           paths == {p.path : p \in facts.paths}
<1>4. /\ ArePaths(Wanted(some, ctx)) /\ ArePaths(Wanted({here}, ctx)) /\ ArePaths(Wanted(paths, ctx))
  BY <1>1, <1>2, <1>3 DEF Spoken
<1>5. ViewAsks(facts, area, ctx) \in {{}, Wanted(some, ctx), Wanted({here}, ctx), Wanted(paths, ctx)}
  BY DEF ViewAsks
<1>6. ArePaths({})
  BY DEF ArePaths
<1> QED
  BY <1>4, <1>5, <1>6

\* of the earlier calls too.
SpokenPast(ctx) == \A calls \in ctx.past : \A i \in DOMAIN calls : Spoken(calls[i].facts)

LEMMA PastAsksPaths ==
    ASSUME NEW ctx, SpokenPast(ctx)
    PROVE  ArePaths(PastAsks(ctx))
<1>1. \A calls \in ctx.past : \A i \in DOMAIN calls :
          ArePaths(ViewAsks(calls[i].facts, ctx.area, ctx))
  BY ViewAsksPaths DEF SpokenPast
<1> QED
  BY <1>1 DEF PastAsks, ArePaths

\* The questions of a judgement are about paths.
LEMMA AsksArePaths ==
    ASSUME NEW rule, NEW facts, IsFacts(facts), Spoken(facts), NEW ctx, IsContext(ctx),
           SpokenPast(ctx), NEW a \in NextAsks(rule, facts, ctx), a.of = "root"
    PROVE  a.at \in Seq(Words)
<1> DEFINE j == Judgement(rule, facts, ctx)
<1>0. j.ctx = ctx /\ j.rule = rule /\ j.facts = facts
      /\ j.sure = View(facts, ctx.area, ctx, "yes")
  BY DEF Judgement
<1>1. ForTool(rule.tools, facts)
  BY NextAsksIs
<1>2. ASSUME NEW s, ArePaths(s), a \in RootsOf(s)
      PROVE  a.at \in Seq(Words)
  BY <1>2 DEF RootsOf, ArePaths
<1>3. CASE ViewAsks(facts, ctx.area, ctx) # {}
  <2>1. a \in RootsOf(ViewAsks(facts, ctx.area, ctx))
    BY <1>1, <1>3, NextAsksIs
  <2> QED
    BY <1>2, <2>1, ViewAsksPaths
<1>4. CASE ViewAsks(facts, ctx.area, ctx) = {}
  <2>1. a \in AsksOfRule(j, ConsultsIn(rule, facts, ctx))
    BY <1>1, <1>4, NextAsksIs
  <2> HIDE DEF j
  <2>2. CASE a \in CallsFor("rule")
    BY <2>2 DEF CallsFor
  <2>3. CASE a \in RootsOf(PastAsks(ctx))
    BY <1>2, <2>3, PastAsksPaths
  <2>4. CASE \E view \in j.sure : a \in AsksOfExceptions(j, view, Deeds(j.facts, view))
    <3>1. PICK view \in j.sure : a \in AsksOfExceptions(j, view, Deeds(j.facts, view))
      BY <2>4
    <3> DEFINE deeds == Deeds(j.facts, view)
               places == UNION {CoveringAsks(j.zones, d, ctx) : d \in deeds}
               paths == PathAsks(j, view, deeds)
    <3>2. view.commands \subseteq facts.commands /\ view.paths \subseteq facts.paths
      BY <1>0, <3>1, ViewIs
    <3>3. MadeIn(facts) \in Seq(Words) \cup {UnknownDir}
      BY DEF MadeIn, Spoken
    <3>4. \A x \in facts.commands \cup facts.paths : Here(x, facts) \in Seq(Words) \cup {UnknownDir}
      BY <3>3 DEF Here, Spoken
    <3>5. \A d \in deeds : d.where \in Seq(Words) \cup {UnknownDir}
      <4>1. /\ \A c : DeedOf(c, facts).where = Here(c, facts)
            /\ \A p : DeedOn(p, facts).where = p.path
            /\ DeedOfCall(facts).where = MadeIn(facts)
        BY DEF DeedOf, DeedOn, DeedOfCall
      <4>2. \A p \in facts.paths : p.path \in Seq(Words)
        BY DEF Spoken
      <4> QED
        BY <1>0, <3>2, <3>3, <3>4, <4>1, <4>2 DEF Deeds
    <3>6. ArePaths(places)
      <4>1. \A d \in deeds : \A x \in CoveringAsks(j.zones, d, ctx) : x = d.where /\ x # UnknownDir
        BY DEF CoveringAsks, Wanted, Asks
      <4> HIDE DEF deeds
      <4> QED
        BY <3>5, <4>1 DEF ArePaths
    <3>7. ArePaths(paths)
      <4>1. ASSUME NEW p \in facts.paths, NEW zone,
                   NEW x \in StaysAsks(p, Here(p, facts), zone, ctx)
            PROVE  x \in Seq(Words)
        <5>1. x \in {Here(p, facts), p.path} /\ Here(p, facts) # UnknownDir
          BY <4>1 DEF StaysAsks, Wanted
        <5>2. p.path \in Seq(Words)
          BY DEF Spoken
        <5> QED
          BY <3>4, <5>1, <5>2
      <4>2. \A x \in paths : \E p \in facts.paths : \E zone : x \in StaysAsks(p, Here(p, facts), zone, ctx)
        BY <1>0, <3>2 DEF PathAsks
      <4> QED
        BY <4>1, <4>2 DEF ArePaths
    <3>8. \/ a \in RootsOf(places)
          \/ a \in CallsFor("exception")
          \/ a \in RootsOf(paths)
          \/ a \in RootsOf(PastAsks(ctx))
      <4>1. a \in AsksOfExceptions(j, view, deeds)
        BY <3>1
      <4> HIDE DEF deeds
      <4> QED
        BY <1>0, <4>1 DEF AsksOfExceptions, LastAsks
    <3>9. a \notin CallsFor("exception")
      BY DEF CallsFor
    <3> HIDE DEF places, paths
    <3> QED
      BY <1>2, <3>6, <3>7, <3>8, <3>9, PastAsksPaths
  <2> QED
    BY <1>0, <2>1, <2>2, <2>3, <2>4 DEF AsksOfRule
<1> QED
  BY <1>3, <1>4

\* While nobody else changes anything and nothing fails, what was looked up
\* and read is what the disk and the log hold.
Answered ==
    /\ changes \in Nat
    /\ changes = 0 =>
          /\ failures = {} /\ logged = scenario.log /\ past \in {NotRead, {logged}}
          /\ AsOnDisk(found) /\ AsOnDisk(seen) /\ ArePaths(DOMAIN found)

LEMMA AnsweredNext ==
    ASSUME JudgeInv, Given, Answered, [Next]_vars
    PROVE  Answered'
<1>1. CASE UNCHANGED <<scenario, repositories, logged, changes, found, seen, past, failures>>
  BY <1>1 DEF Answered, AsOnDisk
<1>2. CASE LookUpFails \/ RuleFails \/ ExceptionFails \/ DiskChanges \/ CallIsLogged
  <2>1. changes' = changes + 1
    BY <1>2 DEF LookUpFails, RuleFails, ExceptionFails, DiskChanges, CallIsLogged
  <2>2. changes' \in Nat /\ changes' # 0
    BY <2>1 DEF Answered
  <2> QED
    BY <2>2 DEF Answered
<1>3. CASE ReadHistory
  BY <1>3 DEF ReadHistory, Answered, AsOnDisk, environment, outcome
<1>4. CASE LookUp
  <2> DEFINE root == FindRoot(asking.at, repositories, seen)
             passed == Passed(asking.at, repositories, seen)
  <2>1. /\ UNCHANGED <<scenario, repositories, logged, changes, past, failures>>
        /\ found' = Learnt(found, {asking.at}, root)
        /\ seen' = Learnt(seen, passed, root)
    BY <1>4 DEF LookUp, environment, outcome
  <2>2. SUFFICES ASSUME changes = 0
                 PROVE  AsOnDisk(found)' /\ AsOnDisk(seen)' /\ ArePaths(DOMAIN found')
    BY <2>1 DEF Answered, ArePaths
  <2>3. /\ asking \in NextAsks(RuleAt(Turn), FactsAt(Turn), ContextAt(Turn))
        /\ asking.of = "root" /\ IsContext(ContextAt(Turn))
    <3>1. asking # Idle
      BY <1>4 DEF LookUp, Idle
    <3> QED
      BY <1>4, <3>1, AsksNowAre DEF LookUp, AsksNow
  <2>4. IsFacts(FactsAt(Turn)) /\ Spoken(FactsAt(Turn))
    BY JudgedIs, JudgedSpoken DEF FactsAt, Given
  <2>5. SpokenPast(ContextAt(Turn))
    <3>1. ContextAt(Turn).past = past
      BY ContextIs DEF ContextAt
    <3>2. past \in {NotRead, {scenario.log}}
      BY <2>2 DEF Answered
    <3> QED
      BY <3>1, <3>2, EngineAssumption DEF SpokenPast, NotRead, Given
  <2>6. asking.at \in Seq(Words)
    BY <2>3, <2>4, <2>5, AsksArePaths
  <2>7. /\ root = FindRoot(asking.at, repositories, <<>>)
        /\ \A e \in passed : FindRoot(e, repositories, <<>>) = root
    BY <2>2, <2>6, WalkIsRight DEF Answered
  <2> HIDE DEF root, passed
  <2>8. /\ DOMAIN found' = DOMAIN found \cup {asking.at}
        /\ \A d \in DOMAIN found' : found'[d] = IF d = asking.at THEN root ELSE found[d]
    BY <2>1 DEF Learnt
  <2>9. AsOnDisk(found)'
    BY <2>1, <2>2, <2>7, <2>8 DEF AsOnDisk, Answered
  <2>10. /\ DOMAIN seen' = passed \cup DOMAIN seen
         /\ \A d \in DOMAIN seen' : seen'[d] = IF d \in passed THEN root ELSE seen[d]
    BY <2>1 DEF Learnt
  <2>11. AsOnDisk(seen)'
    BY <2>1, <2>2, <2>7, <2>10 DEF AsOnDisk, Answered
  <2> QED
    BY <2>2, <2>6, <2>8, <2>9, <2>11 DEF Answered, ArePaths
<1> QED
  BY <1>1, <1>2, <1>3, <1>4 DEF Next, vars, Proceed, Judge, Decide, Done, environment, outcome

THEOREM AnswersAreRight == Spec => []Answered
<1>1. Init => Answered
  BY DEF Init, Answered, AsOnDisk, ArePaths
<1>2. JudgeInv /\ Given /\ Answered /\ [Next]_vars => Answered'
  BY AnsweredNext
<1> QED
  BY <1>1, <1>2, JudgesInTurn, GivenAlways, PTL DEF Spec

\* evaluate: what is returned is what was said of the rules.
Returned ==
    /\ fired \cup excepted \cup possible \subseteq {IdAt(i) : i \in Places}
    /\ Decided => /\ decision.effect = Strongest(fired) /\ decision.fired = fired
                  /\ decision.excepted = excepted /\ decision.possible = possible

LEMMA ReturnedNext ==
    ASSUME JudgeInv, Returned, [Next]_vars
    PROVE  Returned'
<1>0. LeavesAlone \/ AsksNext \/ Answers \/ Finishes \/ Decides
  BY StepKinds
<1>1. SameRules
  BY <1>0 DEF LeavesAlone, AsksNext, Answers, Finishes, Decides, SameRules
<1>2. /\ scenario' = scenario /\ Places' = Places
      /\ \A i : IdAt(i)' = IdAt(i)
      /\ {IdAt(i) : i \in Places}' = {IdAt(i) : i \in Places}
  BY <1>1, SceneStays DEF SameRules
<1>3. \A ids : Strongest(ids)' = Strongest(ids)
  BY <1>2 DEF Strongest, RuleOf
<1>4. CASE LeavesAlone
  BY <1>2, <1>3, <1>4 DEF LeavesAlone, Returned, Decided, outcome
<1>5. CASE AsksNext \/ Answers \/ Finishes
  <2>1. todo # {} /\ ~Decided /\ decision' = decision
    BY <1>5 DEF AsksNext, Answers, Finishes, JudgeInv, Waiting, DecidedLast
  <2>2. ~Decided'
    BY <2>1 DEF Decided
  <2>3. (fired \cup excepted \cup possible)' \subseteq {IdAt(i) : i \in Places}
    <3>1. CASE UNCHANGED outcome
      BY <3>1 DEF Returned, outcome
    <3>2. CASE Finishes
      <4>1. IdAt(Turn) \in {IdAt(i) : i \in Places}
        BY <3>2, AsksNowAre DEF Finishes
      <4>2. (fired \cup excepted \cup possible)'
               \subseteq fired \cup excepted \cup possible \cup {IdAt(Turn)}
        BY <3>2 DEF Finishes, Adds
      <4> QED
        BY <4>1, <4>2 DEF Returned
    <3> QED
      BY <1>5, <3>1, <3>2 DEF AsksNext, Answers
  <2> QED
    BY <1>2, <2>2, <2>3 DEF Returned
<1>6. CASE Decide
  BY <1>2, <1>3, <1>6 DEF Decide, Returned, Decided, outcome
<1>7. CASE decision' = decision
  <2>1. Decides => LeavesAlone
    BY <1>7 DEF Decides, LeavesAlone
  <2> QED
    BY <1>0, <1>4, <1>5, <2>1
<1>8. CASE decision' # decision
  <2>1. Decide
    BY <1>8 DEF Next, vars, Proceed, LookUp, LookUpFails, ReadHistory, RuleFails, ExceptionFails,
                Judge, DiskChanges, CallIsLogged, Done
  <2> QED
    BY <1>6, <2>1
<1> QED
  BY <1>7, <1>8

LEMMA ReturnsWhatWasSaid == Spec => []Returned
<1>1. Init => Returned
  BY DEF Init, Returned, Decided
<1>2. JudgeInv /\ Returned /\ [Next]_vars => Returned'
  BY ReturnedNext
<1> QED
  BY <1>1, <1>2, JudgesInTurn, PTL DEF Spec

\* What a rule says with every repository and every earlier call known, and
\* the rules of which it says that.
AllRoots == [d \in Seq(Words) |-> FindRoot(d, repositories, <<>>)]
VerdictOn(rule) == Verdict(Judgement(rule, Judged(rule), Context(rule, AllRoots, {logged})))

\* While nobody else changes anything and nothing fails, evaluate returns
\* what the rules say with everything known: though it asks for a
\* repository only when a judgement needs one, from the nearest level that
\* an earlier walk has answered, and reads the log at most once.
DecidesAsIfAllKnown ==
    Decided /\ changes = 0 =>
        /\ \A rule \in {r \in Rules : Deferred(r) => UnknownIsBan} :
              /\ rule.id \in decision.fired <=> VerdictOn(rule) = "fired"
              /\ rule.id \in decision.excepted <=> VerdictOn(rule) = "excepted"
              /\ rule.id \in decision.possible <=> VerdictOn(rule) = "possible"
        /\ UnknownIsBan => decision.effect = Strongest({rule.id : rule \in {r \in Rules : VerdictOn(r) = "fired"}})

LEMMA SaidAsIfAllKnown ==
    ASSUME JudgeInv, Given, Answered, AllSaid, Decided, changes = 0,
           NEW i \in Places, Deferred(RuleAt(i)) => UnknownIsBan
    PROVE  /\ IdAt(i) \in fired <=> VerdictOn(RuleAt(i)) = "fired"
           /\ IdAt(i) \in excepted <=> VerdictOn(RuleAt(i)) = "excepted"
           /\ IdAt(i) \in possible <=> VerdictOn(RuleAt(i)) = "possible"
<1> DEFINE rule == RuleAt(i)
           facts == FactsAt(i)
           c == ContextAt(i)
           d == Context(rule, AllRoots, {logged})
<1>1. todo = {} /\ failures = {}
  BY DEF JudgeInv, DecidedLast, Answered
<1>2. SaysAll(i)
  BY <1>1 DEF AllSaid
<1>3. /\ IsContext(c) /\ c.base = rule.base /\ c.past = past /\ c.found = found
      /\ c.area = AreaOf(rule, Judged(rule)) /\ c.created = CreatedRepositories(proposed)
      /\ c.now = Now /\ c.possible = IF Deferred(rule) THEN possible ELSE {}
  BY ContextIs DEF ContextAt
<1>4. /\ IsContext(d) /\ d.base = rule.base /\ d.past = {logged} /\ d.found = AllRoots
      /\ d.area = AreaOf(rule, Judged(rule)) /\ d.created = CreatedRepositories(proposed)
      /\ d.now = Now /\ d.possible = IF Deferred(rule) THEN possible ELSE {}
  BY ContextIs
<1>5. \A x \in DOMAIN found : x \in DOMAIN AllRoots /\ AllRoots[x] = found[x]
  BY DEF Answered, AsOnDisk, ArePaths, AllRoots
<1>6. c.past # NotRead => d.past = c.past
  BY <1>3, <1>4 DEF Answered
<1>7. IsTree(rule.pred) /\ IsFacts(facts) /\ PlacesOf(scenario.exceptions) /\ ConditionTrees
  BY RulesAre, JudgedIs, ExceptionsAre DEF JudgeInv, Given, FactsAt
<1>8. NextAsks(rule, facts, c) = {}
  BY <1>2 DEF SaysAll
<1> HIDE DEF rule, facts, c, d
<1>9. Alike(c, d) /\ Extends(c, d)
  BY <1>3, <1>4, <1>5 DEF Alike, Extends
<1>10. Verdict(Judgement(rule, facts, d)) = Verdict(Judgement(rule, facts, c))
  BY <1>3, <1>4, <1>6, <1>7, <1>8, <1>9, VerdictStays
<1>11. VerdictOn(RuleAt(i)) = Verdict(Judgement(RuleAt(i), FactsAt(i), ContextAt(i)))
  BY <1>10 DEF VerdictOn, FactsAt, rule, facts, c, d
<1> QED
  BY <1>2, <1>11 DEF SaysAll

\* The same of what evaluate returns.
LEMMA ReturnsAsIfAllKnown ==
    ASSUME JudgeInv, Given, Answered, AllSaid, Returned
    PROVE  DecidesAsIfAllKnown
<1> SUFFICES ASSUME Decided, changes = 0
             PROVE  DecidesAsIfAllKnown
  BY DEF DecidesAsIfAllKnown
<1>1. Rules = {RuleAt(i) : i \in Places}
  BY DEF Rules, ToSet, RuleAt, Places
<1>2. ASSUME NEW rule \in Rules, Deferred(rule) => UnknownIsBan
      PROVE  /\ rule.id \in fired <=> VerdictOn(rule) = "fired"
             /\ rule.id \in excepted <=> VerdictOn(rule) = "excepted"
             /\ rule.id \in possible <=> VerdictOn(rule) = "possible"
  <2>1. PICK i \in Places : rule = RuleAt(i)
    BY <1>1
  <2>2. rule.id = IdAt(i)
    BY <2>1 DEF IdAt
  <2> QED
    BY <1>2, <2>1, <2>2, SaidAsIfAllKnown
<1>3. /\ decision.fired = fired /\ decision.excepted = excepted /\ decision.possible = possible
      /\ decision.effect = Strongest(fired)
      /\ fired \subseteq {rule.id : rule \in Rules}
  BY <1>1 DEF Returned, IdAt
<1>4. ASSUME UnknownIsBan
      PROVE  fired = {rule.id : rule \in {r \in Rules : VerdictOn(r) = "fired"}}
  BY <1>2, <1>3, <1>4
<1> QED
  BY <1>2, <1>3, <1>4 DEF DecidesAsIfAllKnown

THEOREM EverythingCounts == Spec => []DecidesAsIfAllKnown
BY ReturnsAsIfAllKnown, JudgesInTurn, GivenAlways, AnswersAreRight, JudgedOnce, ReturnsWhatWasSaid,
   PTL DEF Spec
=============================================================================
