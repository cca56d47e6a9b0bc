----------------------------- MODULE PluginOrder -----------------------------
(***************************************************************************)
(* The load order of the plugin graph: Tarjan's strongly connected         *)
(* components, without recursion, over the links of one context.           *)
(*                                                                         *)
(* Nodes are 1 .. Size, in the order of their names, which is the order    *)
(* roots and successors are taken in.  A frame is [node, left], left being *)
(* the successors not looked at yet.                                       *)
(***************************************************************************)
EXTENDS Naturals, Sequences, SequencesExt, FiniteSets

CONSTANT Size

Node == 1 .. Size

VARIABLES
  links,       \* the plugins a plugin requires, itself left out
  index, low,  \* 0 for a node that was not reached
  onStack, stack, frames,
  counter,     \* the next index
  components
orderVars == <<links, index, low, onStack, stack, frames, counter, components>>

Least(S) == CHOOSE n \in S : \A m \in S : n <= m

\* A graph is its links, from a plugin to what it requires.
Loopless == {l \in [Node -> SUBSET Node] : \A n \in Node : n \notin l[n]}
OrderStart(graph) ==
  /\ links = graph
  /\ index = [n \in Node |-> 0] /\ low = [n \in Node |-> 0]
  /\ onStack = {} /\ stack = <<>> /\ frames = <<>>
  /\ counter = 1
  /\ components = <<>>
OrderInit == \E graph \in Loopless : OrderStart(graph)

\* A node is reached: it gets the next index and a frame of its own.
Reach(n) ==
  /\ index' = [index EXCEPT ![n] = counter]
  /\ low' = [low EXCEPT ![n] = counter]
  /\ counter' = counter + 1
  /\ stack' = Append(stack, n)
  /\ onStack' = onStack \cup {n}

PushRoot ==
  /\ frames = <<>>
  /\ \E n \in Node : index[n] = 0
  /\ LET root == Least({n \in Node : index[n] = 0})
     IN Reach(root) /\ frames' = <<[node |-> root, left |-> links[root]]>>
  /\ UNCHANGED <<links, components>>

Top == Last(frames)
Taken == Least(Top.left)
Advanced == [frames EXCEPT ![Len(frames)].left = @ \ {Taken}]

Descend ==
  /\ frames # <<>> /\ Top.left # {} /\ index[Taken] = 0
  /\ Reach(Taken)
  /\ frames' = Append(Advanced, [node |-> Taken, left |-> links[Taken]])
  /\ UNCHANGED <<links, components>>

Smaller(m, n) == IF m < n THEN m ELSE n
\* seeded fault: a node of a finished component counts as well.
LowOfAny(n) == [low EXCEPT ![Top.node] = Smaller(@, index[n])]
LowOf(n) == IF n \in onStack THEN [low EXCEPT ![Top.node] = Smaller(@, index[n])] ELSE low
Meet ==
  /\ frames # <<>> /\ Top.left # {} /\ index[Taken] # 0
  /\ low' = LowOf(Taken)
  /\ frames' = Advanced
  /\ UNCHANGED <<links, index, onStack, stack, counter, components>>

\* seeded fault: the parent learns nothing.
PassedNothing(n) == low
\* The parent learns what the child reached.
Passed(n) ==
  IF Len(frames) = 1 THEN low
  ELSE [low EXCEPT ![frames[Len(frames) - 1].node] = Smaller(@, low[n])]
\* seeded fault: only the node itself.
ComponentAlone(n) == {n}
\* The members of the component a node closes: all above it on the stack.
Component(n) == {stack[k] : k \in SelectInSeq(stack, LAMBDA m : m = n) .. Len(stack)}
Finish ==
  /\ frames # <<>> /\ Top.left = {}
  /\ low' = Passed(Top.node)
  /\ IF low[Top.node] = index[Top.node]
     THEN /\ components' = Append(components, Component(Top.node))
          /\ stack' = SubSeq(stack, 1, SelectInSeq(stack, LAMBDA m : m = Top.node) - 1)
          /\ onStack' = onStack \ Component(Top.node)
     ELSE UNCHANGED <<components, stack, onStack>>
  /\ frames' = Front(frames)
  /\ UNCHANGED <<links, index, counter>>

OrderNext == PushRoot \/ Descend \/ Meet \/ Finish
OrderSpec == OrderInit /\ [][OrderNext]_orderVars

Sorted == frames = <<>> /\ \A n \in Node : index[n] # 0
\* A component's members come in name order.
LoadOrder == FoldLeft(LAMBDA order, c : order \o SetToSortSeq(c, <), <<>>, components)
Cycles == {c \in Range(components) : Cardinality(c) > 1}
-----------------------------------------------------------------------------
\* n needs m, directly or over other plugins.
Needs ==
  LET after[k \in 0 .. Size] == [n \in Node |-> IF k = 0 THEN links[n]
                                   ELSE after[k - 1][n] \cup UNION {after[k - 1][m] : m \in after[k - 1][n]}]
  IN after[Size]

OrderTypeOK ==
  /\ index \in [Node -> 0 .. Size] /\ low \in [Node -> 0 .. Size]
  /\ counter \in 1 .. Size + 1
  /\ onStack = Range(stack) /\ stack \in Seq(Node)
  /\ \A k \in DOMAIN frames : frames[k].node \in onStack /\ frames[k].left \subseteq links[frames[k].node]

\* The cycles reported are exactly the groups of plugins that need each other:
\* one that only depends on a cycle is in none.
CyclesExact == Sorted => Cycles = {c \in {{m \in Needs[n] : n \in Needs[m]} : n \in Node} : c # {}}

\* The order has every plugin once, and a plugin before everything that needs
\* it, unless the two are in one cycle.
DependenciesFirst ==
  Sorted =>
    /\ Len(LoadOrder) = Size /\ Range(LoadOrder) = Node
    /\ \A i, j \in DOMAIN LoadOrder :
         (i < j /\ LoadOrder[j] \in Needs[LoadOrder[i]]) => LoadOrder[i] \in Needs[LoadOrder[j]]

\* A component that is closed is never added to or taken from, and what its
\* members need is closed with it or before it.
ClosedComplete ==
  \A k \in DOMAIN components : \A n \in components[k] :
     links[n] \subseteq UNION {components[l] : l \in 1 .. k}
=============================================================================
