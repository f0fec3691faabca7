---------------------- MODULE CommandRegistrationProofs --------------------
(***************************************************************************)
(* The safety of CommandRegistration for every set of names and handles,   *)
(* trees of any size and depth.                                            *)
(***************************************************************************)
EXTENDS CommandRegistration, SequenceLemmas

Node == [name      : Names,
         aliases   : SUBSET Names,
         parent    : 0 .. MaxNodes,
         ancestors : SUBSET (0 .. MaxNodes)]

\* The part of TypeOK that is about the tree.
TreeTyped ==
  /\ created \in 0 .. MaxNodes
  /\ Nodes \subseteq 1 .. created
  /\ \A n \in Nodes :
       /\ tree[n].name \in Names
       /\ tree[n].aliases \subseteq Names
       /\ tree[n].parent \in tree[n].ancestors
       /\ tree[n].ancestors \subseteq Nodes \cup {Root}

\* Ancestors of ancestors are ancestors, so that erasing a node with all below
\* it leaves no node behind whose ancestors are gone.
Wellformed ==
  /\ tree \in [Nodes -> Node]
  /\ \A n \in Nodes :
       /\ tree[n].parent = Root => tree[n].ancestors = {Root}
       /\ \A a \in tree[n].ancestors \cap Nodes :
            tree[a].ancestors \subseteq tree[n].ancestors

TreeOK == TreeTyped /\ Wellformed /\ SiblingNamesDistinct

Unaliased == ~aliased => \A n \in Nodes : tree[n].aliases = {}

\* A handle remembers one name, the name of the node its registration created
\* as long as this one exists, and no two handles remember one registration.
Owning ==
  \A h \in Handles :
    /\ handles[h] = <<>> <=> holds[h] = NoNode
    /\ handles[h] # <<>> =>
         /\ \E name \in Names : handles[h] = <<name>>
         /\ holds[h] \in 1 .. created
         /\ holds[h] \in Nodes =>
              tree[holds[h]].parent = Root /\ <<tree[holds[h]].name>> = handles[h]
    /\ \A g \in Handles : holds[g] = holds[h] /\ holds[h] # NoNode => g = h

IInv ==
  /\ TypeOK
  /\ Wellformed
  /\ SiblingNamesDistinct
  /\ Unaliased
  /\ MirrorIsExact
  /\ Owning

-----------------------------------------------------------------------------
(* Looking nodes up.                                                        *)

\* FindChild returns the oldest child that answers to the token, if any does.
LEMMA FindChildIsFirst ==
  ASSUME Nodes \subseteq Nat, NEW n, NEW token
  PROVE  \/ /\ FindChild(n, token) = NoNode
            /\ \A m \in Children(n) : ~Matches(m, token)
         \/ /\ FindChild(n, token) \in Children(n)
            /\ Matches(FindChild(n, token), token)
            /\ \A m \in Children(n) : Matches(m, token) => FindChild(n, token) <= m
<1>. DEFINE found == {m \in Children(n) : Matches(m, token)}
<1>1. found \in SUBSET Nat
  BY DEF Children
<1>2. CASE found = {}
  BY <1>2 DEF FindChild
<1>3. CASE found # {}
  <2>1. Min(found) \in found /\ \A m \in found : Min(found) <= m
    BY <1>1, <1>3, MinOfNaturals
  <2>2. FindChild(n, token) = Min(found)
    BY <1>3 DEF FindChild
  <2>. QED
    BY <2>1, <2>2
<1>. QED
  BY <1>2, <1>3

\* One more step along a path.
Onward(path, f, i) ==
  IF i = 0 THEN Root ELSE IF f[i - 1] = NoNode THEN NoNode ELSE FindChild(f[i - 1], path[i])

Traces(path, n) == {f \in [0 .. n -> NodeIds \cup {Root, NoNode}] :
                      \A i \in 0 .. n : f[i] = Onward(path, f, i)}

\* However long a path is, Resolve follows it from the root to its end.
LEMMA TraceExists ==
  ASSUME Nodes \subseteq NodeIds, NEW path, NEW n \in Nat
  PROVE  Traces(path, n) # {}
<1>. DEFINE Bad == {k \in Nat : Traces(path, k) = {}}
<1>1. Nodes \subseteq Nat
  BY DEF NodeIds
<1>. SUFFICES ASSUME Bad # {} PROVE FALSE
  OBVIOUS
<1>2. PICK k \in Bad : \A j \in Bad : k <= j
  BY MinOfNaturals
<1>3. \A j \in Bad : ~(j < k)
  BY <1>2
<1>4. CASE k = 0
  <2>. DEFINE f == [i \in 0 .. 0 |-> Root]
  <2>1. f \in Traces(path, 0)
    BY DEF Traces, Onward
  <2>. QED
    BY <1>4, <2>1
<1>5. CASE k # 0
  <2>1. k \in Nat /\ k - 1 \in Nat /\ k - 1 < k
    BY <1>5
  <2>2. PICK g : g \in Traces(path, k - 1)
    BY <1>3, <2>1
  <2>. DEFINE last == IF g[k - 1] = NoNode THEN NoNode ELSE FindChild(g[k - 1], path[k])
              f    == [i \in 0 .. k |-> IF i = k THEN last ELSE g[i]]
  <2>3. last \in NodeIds \cup {Root, NoNode}
    BY <1>1, FindChildIsFirst DEF Children
  <2>4. /\ g \in [0 .. k - 1 -> NodeIds \cup {Root, NoNode}]
        /\ \A i \in 0 .. k - 1 : g[i] = Onward(path, g, i)
    BY <2>2 DEF Traces
  <2>. HIDE DEF last
  <2>5. f \in [0 .. k -> NodeIds \cup {Root, NoNode}]
    BY <2>1, <2>3, <2>4
  <2>6. ASSUME NEW i \in 0 .. k
        PROVE  f[i] = Onward(path, f, i)
    <3>1. CASE i = k
      BY <1>5, <2>1, <3>1 DEF Onward, last
    <3>2. CASE i # k
      <4>1. i \in 0 .. k - 1 /\ (i # 0 => i - 1 \in 0 .. k - 1)
        BY <2>1, <3>2
      <4>2. f[i] = g[i] /\ (i # 0 => f[i - 1] = g[i - 1])
        BY <2>1, <3>2, <4>1
      <4>3. Onward(path, f, i) = Onward(path, g, i)
        BY <4>2 DEF Onward
      <4>. QED
        BY <2>4, <4>1, <4>2, <4>3
    <3>. QED
      BY <3>1, <3>2
  <2>7. f \in Traces(path, k)
    BY <2>5, <2>6 DEF Traces
  <2>. QED
    BY <2>7
<1>. QED
  BY <1>4, <1>5
LEMMA ResolveIsTraced ==
  ASSUME Nodes \subseteq NodeIds, NEW path, Len(path) \in Nat
  PROVE  \E f \in Traces(path, Len(path)) : Resolve(path) = f[Len(path)]
<1>. DEFINE L == Len(path)
            Unfold(f) == [i \in 0 .. L |->
                            IF i = 0 THEN Root
                            ELSE IF f[i - 1] = NoNode THEN NoNode
                            ELSE FindChild(f[i - 1], path[i])]
            reached == CHOOSE f : f = Unfold(f)
<1>1. Resolve(path) = reached[L]
  BY DEF Resolve
<1>2. reached = Unfold(reached)
  <2>1. PICK g : g \in Traces(path, L)
    BY TraceExists
  <2>2. /\ g \in [0 .. L -> NodeIds \cup {Root, NoNode}]
        /\ \A i \in 0 .. L : g[i] = IF i = 0 THEN Root
                                    ELSE IF g[i - 1] = NoNode THEN NoNode
                                    ELSE FindChild(g[i - 1], path[i])
    BY <2>1 DEF Traces, Onward
  <2>3. g = Unfold(g)
    BY <2>2
  <2>. HIDE DEF Unfold
  <2>. QED
    BY <2>3
<1>3. reached \in Traces(path, L)
  <2>. HIDE DEF reached
  <2>1. \A i \in 0 .. L : reached[i] = Onward(path, reached, i)
    BY <1>2 DEF Onward
  <2>2. \A i \in 0 .. L : reached[i] \in NodeIds \cup {Root, NoNode}
    <3>1. \A n, token : FindChild(n, token) \in NodeIds \cup {NoNode}
      <4>1. Nodes \subseteq Nat
        BY DEF NodeIds
      <4>. QED
        BY <4>1, FindChildIsFirst DEF Children
    <3>. QED
      BY <2>1, <3>1 DEF Onward
  <2>3. reached \in [0 .. L -> NodeIds \cup {Root, NoNode}]
    BY <1>2, <2>2
  <2>. QED
    BY <2>1, <2>3 DEF Traces
<1>. QED
  BY <1>1, <1>3

\* The path of one name leads to the oldest top-level command of the name.
LEMMA ResolveName ==
  ASSUME Nodes \subseteq NodeIds, NEW name
  PROVE  Resolve(<<name>>) = FindChild(Root, name)
<1>1. Len(<<name>>) = 1 /\ <<name>>[1] = name
  OBVIOUS
<1>2. PICK f \in Traces(<<name>>, 1) : Resolve(<<name>>) = f[1]
  BY <1>1, ResolveIsTraced
<1>3. f[0] = Root /\ f[1] = IF f[0] = NoNode THEN NoNode ELSE FindChild(f[0], name)
  BY <1>1 DEF Traces, Onward
<1>4. Root # NoNode
  BY DEF Root, NoNode
<1>. QED
  BY <1>2, <1>3, <1>4

\* A path leads to nothing or to a node, and to a top-level node only if it is
\* one name long.
LEMMA ResolvePath ==
  ASSUME TreeOK, NEW path \in Paths, Resolve(path) # NoNode
  PROVE  /\ Resolve(path) \in Nodes
         /\ tree[Resolve(path)].parent = Root =>
              \E name \in Names : path = <<name>> /\ Resolve(path) = FindChild(Root, name)
<1>1. Nodes \subseteq NodeIds /\ Nodes \subseteq Nat \ {Root}
  BY RegistrationAssumption DEF TreeOK, TreeTyped, NodeIds, Root
<1>2. PICK L \in 1 .. MaxDepth : path \in [1 .. L -> Names]
  BY DEF Paths
<1>3. L \in Nat /\ L >= 1 /\ path \in Seq(Names) /\ Len(path) = L
  <2>1. L \in Nat /\ L >= 1
    BY RegistrationAssumption
  <2>2. path \in Seq(Names)
    BY <1>2, <2>1, SeqDef
  <2>. QED
    BY <1>2, <2>1, <2>2, LenProperties
<1>4. PICK f \in Traces(path, L) : Resolve(path) = f[L]
  BY <1>1, <1>3, ResolveIsTraced
<1>5. /\ f[L - 1] # NoNode
      /\ Resolve(path) = FindChild(f[L - 1], path[L])
      /\ f[0] = Root
  BY <1>3, <1>4 DEF Traces, Onward
<1>6. Resolve(path) \in Nodes /\ tree[Resolve(path)].parent = f[L - 1]
  BY <1>1, <1>5, FindChildIsFirst DEF Children
<1>7. ASSUME f[L - 1] = Root
      PROVE  \E name \in Names : path = <<name>> /\ Resolve(path) = FindChild(Root, name)
  <2>1. CASE L = 1
    <3>1. path[1] \in Names /\ path = <<path[1]>>
      BY <1>2, <1>3, <2>1
    <3>. QED
      BY <1>5, <1>7, <2>1, <3>1
  <2>2. CASE L # 1
    <3>1. L - 1 \in 0 .. L /\ L - 1 # 0
      BY <1>3, <2>2
    <3>2. f[L - 1] = Onward(path, f, L - 1)
      BY <1>4, <3>1 DEF Traces
    <3>3. f[L - 1] = NoNode \/ f[L - 1] = FindChild(f[L - 1 - 1], path[L - 1])
      BY <3>1, <3>2 DEF Onward
    <3>4. \A n, token : FindChild(n, token) \in Nodes \cup {NoNode}
      BY <1>1, FindChildIsFirst DEF Children
    <3>. QED
      BY <1>1, <1>5, <1>7, <3>3, <3>4
  <2>. QED
    BY <2>1, <2>2
<1>. QED
  BY <1>6, <1>7

-----------------------------------------------------------------------------
(* What an operation does to the tree.                                      *)

\* A new leaf under a name no sibling answers to.
LEMMA CreateKeepsTree ==
  ASSUME TreeOK, NEW parent \in Nodes \cup {Root}, NEW name \in Names,
         FindChild(parent, name) = NoNode, Create(parent, name)
  PROVE  /\ TreeOK'
         /\ created' = created + 1 /\ created' \in 1 .. MaxNodes
         /\ created' \notin Nodes /\ Nodes' = Nodes \cup {created'}
         /\ \A n \in Nodes : tree'[n] = tree[n]
         /\ tree'[created'].parent = parent /\ tree'[created'].name = name
         /\ tree'[created'].aliases = {}
<1>1. /\ created < MaxNodes /\ created' = created + 1
      /\ tree' = [n \in Nodes \cup {created'} |->
                    IF n = created' THEN NewNode(parent, name) ELSE tree[n]]
  BY DEF Create
<1>2. /\ created \in Nat /\ created' \in Nat /\ created' \in 1 .. MaxNodes
      /\ Nodes \subseteq 1 .. created /\ created' \notin Nodes
  BY <1>1, RegistrationAssumption DEF TreeOK, TreeTyped
<1>3. /\ Nodes' = Nodes \cup {created'}
      /\ \A n \in Nodes : tree'[n] = tree[n]
      /\ tree'[created'] = NewNode(parent, name)
  BY <1>1, <1>2 DEF Nodes
<1>. DEFINE new == NewNode(parent, name)
<1>4. /\ new.name = name /\ new.aliases = {} /\ new.parent = parent
      /\ new.ancestors = {parent} \cup (IF parent = Root THEN {} ELSE tree[parent].ancestors)
  BY DEF NewNode
<1>5. /\ new.ancestors \subseteq Nodes \cup {Root}
      /\ \A a \in new.ancestors \cap Nodes : tree[a].ancestors \subseteq new.ancestors
      /\ parent = Root => new.ancestors = {Root}
  <2>1. Root \notin Nodes
    BY <1>2 DEF Root
  <2>2. CASE parent = Root
    BY <1>4, <2>1, <2>2
  <2>3. CASE parent # Root
    BY <1>4, <2>3 DEF TreeOK, TreeTyped, Wellformed
  <2>. QED
    BY <2>2, <2>3
<1>6. new \in Node
  <2>1. Nodes \cup {Root} \subseteq 0 .. MaxNodes
    BY <1>1, <1>2, RegistrationAssumption DEF Root
  <2>2. new = [name |-> name, aliases |-> {}, parent |-> parent, ancestors |-> new.ancestors]
    BY DEF NewNode
  <2>. HIDE DEF new
  <2>. QED
    BY <1>5, <2>1, <2>2 DEF Node
<1>. HIDE DEF new
<1>7. tree'[created'] = new
  BY <1>3 DEF new
<1>8. TreeTyped'
  <2>1. Nodes' \subseteq 1 .. created'
    BY <1>1, <1>2, <1>3
  <2>. QED
    BY <1>2, <1>3, <1>4, <1>5, <1>7, <2>1 DEF TreeOK, TreeTyped
<1>9. Wellformed'
  <2>1. tree' \in [Nodes' -> Node]
    <3>1. \A n \in Nodes : tree[n] \in Node
      BY DEF TreeOK, Wellformed
    <3>2. tree' = [n \in Nodes' |-> tree'[n]]
      BY <1>1, <1>3
    <3>. QED
      BY <1>3, <1>6, <1>7, <3>1, <3>2
  <2>2. ASSUME NEW n \in Nodes
        PROVE  /\ tree'[n].parent = Root => tree'[n].ancestors = {Root}
               /\ \A a \in tree'[n].ancestors \cap Nodes' :
                    tree'[a].ancestors \subseteq tree'[n].ancestors
    <3>1. created' \notin tree[n].ancestors
      BY <1>2 DEF TreeOK, TreeTyped, Root
    <3>. QED
      BY <1>3, <3>1 DEF TreeOK, Wellformed
  <2>3. created' \notin new.ancestors
    BY <1>2, <1>5 DEF Root
  <2>. QED
    BY <1>3, <1>4, <1>5, <1>7, <2>1, <2>2, <2>3 DEF Wellformed
<1>10. SiblingNamesDistinct'
  <2>1. \A m \in Nodes : ~(tree[m].parent = parent /\ tree[m].name = name)
    <3>1. Nodes \subseteq Nat
      BY <1>2
    <3>2. \A m \in Children(parent) : ~Matches(m, name)
      <4>1. NoNode \notin Nodes
        BY <3>1 DEF NoNode
      <4>2. Children(parent) \subseteq Nodes
        BY DEF Children
      <4>. QED
        BY <3>1, <4>1, <4>2, FindChildIsFirst
    <3>. QED
      BY <3>2 DEF Children, Matches
  <2>2. \A m, n \in Nodes :
          tree[m].parent = tree[n].parent /\ tree[m].name = tree[n].name => m = n
    BY DEF TreeOK, SiblingNamesDistinct
  <2>. QED
    BY <1>3, <1>4, <1>7, <2>1, <2>2 DEF SiblingNamesDistinct
<1>. QED
  BY <1>1, <1>2, <1>3, <1>4, <1>7, <1>8, <1>9, <1>10 DEF TreeOK

\* A node goes with everything below it, and with nothing else at its level.
LEMMA RemoveKeepsTree ==
  ASSUME TreeOK, NEW n \in Nodes, tree' = TreeWithout(n), created' = created
  PROVE  /\ TreeOK'
         /\ Nodes' = Nodes \ Subtree(n) /\ n \notin Nodes'
         /\ \A m \in Nodes' : tree'[m] = tree[m]
         /\ \A m \in Nodes : tree[m].parent = Root /\ m # n => m \in Nodes'
<1>1. /\ Nodes' = Nodes \ Subtree(n)
      /\ \A m \in Nodes' : tree'[m] = tree[m]
  BY DEF TreeWithout, Nodes
<1>2. n \in Subtree(n) /\ n # Root
  BY RegistrationAssumption DEF Subtree, TreeOK, TreeTyped, Root
<1>3. \A m \in Nodes' : m \in Nodes /\ m # n /\ n \notin tree[m].ancestors
  BY <1>1 DEF Subtree
<1>4. \A m \in Nodes' : tree[m].ancestors \subseteq Nodes' \cup {Root}
  <2>. SUFFICES ASSUME NEW m \in Nodes', NEW a \in tree[m].ancestors, a # Root
                PROVE  a \in Nodes'
    OBVIOUS
  <2>1. a \in Nodes /\ a # n
    BY <1>3 DEF TreeOK, TreeTyped
  <2>2. tree[a].ancestors \subseteq tree[m].ancestors
    BY <1>3, <2>1 DEF TreeOK, Wellformed
  <2>. QED
    BY <1>1, <1>3, <2>1, <2>2 DEF Subtree
<1>5. TreeTyped'
  BY <1>1, <1>3, <1>4 DEF TreeOK, TreeTyped
<1>6. Wellformed'
  <2>1. tree' \in [Nodes' -> Node]
    <3>1. \A m \in Nodes : tree[m] \in Node
      BY DEF TreeOK, Wellformed
    <3>2. tree' = [m \in Nodes' |-> tree[m]]
      BY <1>1 DEF TreeWithout
    <3>. QED
      BY <1>3, <3>1, <3>2
  <2>. QED
    BY <1>1, <1>3, <2>1 DEF TreeOK, Wellformed
<1>7. SiblingNamesDistinct'
  BY <1>1, <1>3 DEF TreeOK, SiblingNamesDistinct
<1>8. \A m \in Nodes : tree[m].parent = Root /\ m # n => m \in Nodes'
  BY <1>1, <1>2 DEF TreeOK, Wellformed, Subtree
<1>. QED
  BY <1>1, <1>2, <1>5, <1>6, <1>7, <1>8 DEF TreeOK

LEMMA AliasKeepsTree ==
  ASSUME TreeOK, NEW n \in Nodes, NEW alias \in Names,
         tree' = [tree EXCEPT ![n].aliases = @ \cup {alias}], created' = created
  PROVE  /\ TreeOK' /\ Nodes' = Nodes
         /\ \A m \in Nodes : /\ tree'[m].name = tree[m].name
                             /\ tree'[m].parent = tree[m].parent
<1>1. /\ \A m \in Nodes : tree[m] \in Node
      /\ tree \in [Nodes -> Node]
  BY DEF TreeOK, Wellformed
<1>2. /\ Nodes' = Nodes /\ tree' \in [Nodes -> Node]
      /\ \A m \in Nodes : /\ tree'[m].name = tree[m].name
                          /\ tree'[m].parent = tree[m].parent
                          /\ tree'[m].ancestors = tree[m].ancestors
                          /\ tree'[m].aliases \subseteq Names
  <2>. DEFINE changed == [tree[n] EXCEPT !.aliases = tree[n].aliases \cup {alias}]
  <2>1. /\ changed \in Node /\ changed.name = tree[n].name
        /\ changed.parent = tree[n].parent /\ changed.ancestors = tree[n].ancestors
    BY <1>1 DEF Node
  <2>2. tree' = [tree EXCEPT ![n] = changed]
    OBVIOUS
  <2>. HIDE DEF changed
  <2>3. tree' \in [Nodes -> Node]
    BY <1>1, <2>1, <2>2
  <2>4. \A m \in Nodes : tree'[m] = IF m = n THEN changed ELSE tree[m]
    BY <1>1, <2>2
  <2>5. \A m \in Nodes : tree'[m].aliases \subseteq Names
    BY <2>3 DEF Node
  <2>6. Nodes' = Nodes
    BY <2>2 DEF Nodes
  <2>. QED
    BY <2>1, <2>3, <2>4, <2>5, <2>6
<1>3. TreeTyped'
  BY <1>2 DEF TreeOK, TreeTyped
<1>4. Wellformed'
  BY <1>2 DEF TreeOK, Wellformed
<1>5. SiblingNamesDistinct'
  BY <1>2 DEF TreeOK, SiblingNamesDistinct
<1>. QED
  BY <1>2, <1>3, <1>4, <1>5 DEF TreeOK

-----------------------------------------------------------------------------
(* The invariant.                                                           *)

RestTyped ==
  /\ handles \in [Handles -> Paths \cup {<<>>}]
  /\ holds \in [Handles -> NodeIds \cup {NoNode}]
  /\ aliased \in BOOLEAN
  /\ note \in [kind : {"none", "registered", "unregistered"}, path : Paths \cup {<<>>}]
  /\ mirror \subseteq Paths

LEMMA InvariantParts ==
  /\ IInv <=> TreeOK /\ RestTyped /\ Unaliased /\ MirrorIsExact /\ Owning
  /\ IInv' <=> TreeOK' /\ RestTyped' /\ Unaliased' /\ MirrorIsExact' /\ Owning'
BY DEF IInv, TypeOK, TreeOK, TreeTyped, RestTyped

LEMMA PathOfName ==
  ASSUME NEW name \in Names
  PROVE  <<name>> \in Paths /\ <<name>> # <<>> /\ <<name>>[1] = name
<1>1. 1 \in 1 .. MaxDepth /\ <<name>> \in [1 .. 1 -> Names]
  BY RegistrationAssumption
<1>. QED
  BY <1>1 DEF Paths

LEMMA InitInvariant == Init => IInv
<1>. SUFFICES ASSUME Init PROVE IInv
  OBVIOUS
<1>1. Nodes = {} /\ TopLevel = {}
  BY DEF Init, Nodes, TopLevel, Children
<1>2. TreeOK
  <2>1. tree \in [Nodes -> Node]
    BY <1>1 DEF Init
  <2>. QED
    BY <1>1, <2>1, RegistrationAssumption
       DEF Init, TreeOK, TreeTyped, Wellformed, SiblingNamesDistinct
<1>3. RestTyped
  BY DEF Init, RestTyped, Quiet
<1>4. Unaliased /\ MirrorIsExact /\ Owning
  BY <1>1 DEF Init, Unaliased, MirrorIsExact, Owning, NoNode
<1>. QED
  BY <1>2, <1>3, <1>4, InvariantParts

\* A new node, announced when it is at the top.
LEMMA AfterCreate ==
  ASSUME IInv, NEW parent \in Nodes \cup {Root}, NEW name \in Names,
         FindChild(parent, name) = NoNode, Create(parent, name),
         aliased' = aliased,
         IF parent = Root THEN Registered(<<name>>) ELSE Silent
  PROVE  /\ Unaliased' /\ MirrorIsExact' /\ mirror' \subseteq Paths
         /\ note' \in [kind : {"none", "registered", "unregistered"},
                       path : Paths \cup {<<>>}]
         /\ TopLevel' = IF parent = Root THEN TopLevel \cup {created'} ELSE TopLevel
<1>1. TreeOK /\ RestTyped /\ Unaliased /\ MirrorIsExact
  BY InvariantParts
<1>2. /\ created' \notin Nodes /\ Nodes' = Nodes \cup {created'}
      /\ \A n \in Nodes : tree'[n] = tree[n]
      /\ tree'[created'].parent = parent /\ tree'[created'].name = name
      /\ tree'[created'].aliases = {}
  BY <1>1, CreateKeepsTree
<1>3. Unaliased'
  BY <1>1, <1>2 DEF Unaliased
<1>4. TopLevel' = IF parent = Root THEN TopLevel \cup {created'} ELSE TopLevel
  BY <1>2 DEF TopLevel, Children
<1>5. MirrorIsExact'
  <2>. SUFFICES ASSUME ~aliased
                PROVE  mirror' = {<<tree'[n].name>> : n \in TopLevel'}
    BY DEF MirrorIsExact
  <2>1. mirror = {<<tree[n].name>> : n \in TopLevel}
    BY <1>1 DEF MirrorIsExact
  <2>2. \A n \in TopLevel : tree'[n].name = tree[n].name
    BY <1>2 DEF TopLevel, Children
  <2>3. CASE parent = Root
    BY <1>2, <1>4, <2>1, <2>2, <2>3 DEF Registered
  <2>4. CASE parent # Root
    BY <1>4, <2>1, <2>2, <2>4 DEF Silent
  <2>. QED
    BY <2>3, <2>4
<1>6. /\ mirror' \subseteq Paths
      /\ note' \in [kind : {"none", "registered", "unregistered"},
                    path : Paths \cup {<<>>}]
  BY <1>1, PathOfName DEF Registered, Silent, Quiet, RestTyped
<1>. QED
  BY <1>3, <1>4, <1>5, <1>6

\* UnregisterCommand, of whichever path: the tree loses a node, and observers
\* hear of it, or neither.
LEMMA AfterUnregister ==
  ASSUME IInv, NEW path \in Paths, UnregisterCommand(path),
         created' = created, aliased' = aliased
  PROVE  /\ TreeOK' /\ Unaliased' /\ MirrorIsExact' /\ mirror' \subseteq Paths
         /\ note' \in [kind : {"none", "registered", "unregistered"},
                       path : Paths \cup {<<>>}]
         /\ Nodes' \subseteq Nodes
         /\ \A m \in Nodes' : tree'[m] = tree[m]
         /\ Nodes \ Nodes' \subseteq Subtree(Resolve(path))
         /\ note'.kind # "registered"
         /\ note'.kind = "unregistered" => Nodes' # Nodes
<1>. DEFINE n == Resolve(path)
<1>1. TreeOK /\ RestTyped /\ Unaliased /\ MirrorIsExact
  BY InvariantParts
<1>2. CASE n = NoNode
  <2>1. tree' = tree /\ Silent
    BY <1>2 DEF UnregisterCommand
  <2>2. Nodes' = Nodes
    BY <2>1 DEF Nodes
  <2>. QED
    BY <1>1, <2>1, <2>2
       DEF TreeOK, TreeTyped, Wellformed, SiblingNamesDistinct, Unaliased, MirrorIsExact,
           TopLevel, Children, Silent, Quiet, RestTyped
<1>3. CASE n # NoNode
  <2>1. /\ tree' = TreeWithout(n) /\ mirror' = mirror \ {path}
        /\ note' = [kind |-> "unregistered", path |-> path]
    BY <1>3 DEF UnregisterCommand, Unregistered
  <2>2. /\ n \in Nodes
        /\ tree[n].parent = Root =>
             \E name \in Names : path = <<name>> /\ n = FindChild(Root, name)
    BY <1>1, <1>3, ResolvePath
  <2>3. Nodes \subseteq Nat /\ Nodes \subseteq NodeIds
    BY <1>1, RegistrationAssumption DEF TreeOK, TreeTyped, NodeIds
  <2>4. \A name : path = <<name>> => n = FindChild(Root, name)
    BY <2>3, ResolveName
  <2>5. \A name : FindChild(Root, name) # NoNode =>
          FindChild(Root, name) \in Children(Root) /\ Matches(FindChild(Root, name), name)
    BY <2>3, FindChildIsFirst
  <2>. HIDE DEF n
  <2>6. /\ TreeOK' /\ Nodes' = Nodes \ Subtree(n) /\ n \notin Nodes'
        /\ \A m \in Nodes' : tree'[m] = tree[m]
        /\ \A m \in Nodes : tree[m].parent = Root /\ m # n => m \in Nodes'
    BY <1>1, <2>1, <2>2, RemoveKeepsTree
  <2>7. Unaliased'
    BY <1>1, <2>6 DEF Unaliased
  <2>8. TopLevel' = TopLevel \ {n}
    BY <2>6 DEF TopLevel, Children
  <2>9. MirrorIsExact'
    <3>. SUFFICES ASSUME ~aliased
                  PROVE  mirror' = {<<tree'[m].name>> : m \in TopLevel'}
      BY DEF MirrorIsExact
    <3>1. mirror = {<<tree[m].name>> : m \in TopLevel}
      BY <1>1 DEF MirrorIsExact
    <3>2. \A m \in TopLevel \ {n} : tree'[m] = tree[m]
      BY <2>6, <2>8 DEF TopLevel, Children
    <3>3. \A m \in TopLevel : <<tree[m].name>> = path <=> m = n
      <4>. SUFFICES ASSUME NEW m \in TopLevel
                    PROVE  <<tree[m].name>> = path <=> m = n
        OBVIOUS
      <4>1. m \in Nodes /\ tree[m].parent = Root
        BY DEF TopLevel, Children
      <4>2. ASSUME NEW name, path = <<name>>
            PROVE  n \in Nodes /\ tree[n].parent = Root /\ tree[n].name = name
        <5>1. n = FindChild(Root, name)
          BY <2>4, <4>2
        <5>2. n \in Children(Root) /\ Matches(n, name)
          BY <1>3, <2>5, <5>1
        <5>. QED
          BY <1>1, <5>2 DEF Children, Matches, Unaliased
      <4>3. ASSUME m = n PROVE <<tree[m].name>> = path
        <5>1. PICK name \in Names : path = <<name>>
          BY <2>2, <4>1, <4>3
        <5>. QED
          BY <4>2, <4>3, <5>1
      <4>4. ASSUME <<tree[m].name>> = path PROVE m = n
        <5>1. n \in Nodes /\ tree[n].parent = Root /\ tree[n].name = tree[m].name
          BY <4>2, <4>4
        <5>. QED
          BY <1>1, <4>1, <5>1 DEF TreeOK, SiblingNamesDistinct
      <4>. QED
        BY <4>3, <4>4
    <3>. QED
      BY <2>1, <2>8, <3>1, <3>2, <3>3
  <2>10. /\ mirror' \subseteq Paths
         /\ note' \in [kind : {"none", "registered", "unregistered"},
                       path : Paths \cup {<<>>}]
    BY <1>1, <2>1 DEF RestTyped
  <2>11. Nodes' \subseteq Nodes /\ Nodes' # Nodes
    BY <2>2, <2>6
  <2>12. Nodes \ Nodes' \subseteq Subtree(n)
    BY <2>6
  <2>. QED
    BY <2>1, <2>6, <2>7, <2>9, <2>10, <2>11, <2>12 DEF n
<1>. QED
  BY <1>2, <1>3

\* Handles that are left alone own what they owned: a node that was created
\* since is none of theirs.
LEMMA OwningKept ==
  ASSUME IInv, handles' = handles, holds' = holds,
         created' \in Nat, created <= created',
         \A n \in Nodes' : n <= created =>
           /\ n \in Nodes
           /\ tree'[n].name = tree[n].name /\ tree'[n].parent = tree[n].parent
  PROVE  Owning'
<1>1. Owning /\ created \in Nat
  BY RegistrationAssumption DEF IInv, TypeOK
<1>. SUFFICES ASSUME NEW h \in Handles, handles[h] # <<>>
              PROVE  /\ holds[h] \in 1 .. created'
                     /\ holds[h] \in Nodes' =>
                          /\ tree'[holds[h]].parent = Root
                          /\ <<tree'[holds[h]].name>> = handles[h]
  BY <1>1 DEF Owning
<1>2. /\ holds[h] \in 1 .. created
      /\ holds[h] \in Nodes =>
           tree[holds[h]].parent = Root /\ <<tree[holds[h]].name>> = handles[h]
  BY <1>1 DEF Owning
<1>. QED
  BY <1>1, <1>2

\* The steps that leave every handle alone.
LEMMA CommandFoundStep ==
  ASSUME IInv, NEW name \in Names, CommandFound(name)
  PROVE  IInv'
<1>1. /\ tree' = tree /\ created' = created /\ handles' = handles /\ holds' = holds
      /\ aliased' = aliased /\ mirror' = mirror /\ note' = Quiet
  BY DEF CommandFound, NoteOfFound, Silent
<1>2. Nodes' = Nodes /\ TopLevel' = TopLevel
  BY <1>1 DEF Nodes, TopLevel, Children
<1>3. note' \in [kind : {"none", "registered", "unregistered"}, path : Paths \cup {<<>>}]
  BY <1>1 DEF Quiet
<1>4. TypeOK'
  BY <1>1, <1>2, <1>3 DEF IInv, TypeOK
<1>5. Wellformed' /\ SiblingNamesDistinct' /\ Unaliased' /\ MirrorIsExact' /\ Owning'
  BY <1>1, <1>2
     DEF IInv, Wellformed, SiblingNamesDistinct, Unaliased, MirrorIsExact, Owning
<1>. QED
  BY <1>4, <1>5 DEF IInv

LEMMA CommandCreatedStep ==
  ASSUME IInv, NEW name \in Names, CommandCreated(name)
  PROVE  IInv'
<1>1. /\ FindChild(Root, name) = NoNode /\ Create(Root, name) /\ Registered(<<name>>)
      /\ handles' = handles /\ holds' = holds /\ aliased' = aliased
  BY DEF CommandCreated, NameIsFree
<1>2. TreeOK /\ RestTyped /\ created \in Nat
  BY InvariantParts, RegistrationAssumption DEF TreeOK, TreeTyped
<1>3. /\ TreeOK' /\ created' = created + 1 /\ Nodes' = Nodes \cup {created'}
      /\ \A n \in Nodes : tree'[n] = tree[n]
  BY <1>1, <1>2, CreateKeepsTree
<1>4. /\ Unaliased' /\ MirrorIsExact' /\ mirror' \subseteq Paths
      /\ note' \in [kind : {"none", "registered", "unregistered"},
                    path : Paths \cup {<<>>}]
  BY <1>1, AfterCreate
<1>5. Owning'
  BY <1>1, <1>2, <1>3, OwningKept
<1>6. RestTyped'
  BY <1>1, <1>2, <1>4 DEF RestTyped
<1>. QED
  BY <1>3, <1>4, <1>5, <1>6, InvariantParts

LEMMA SubcommandStep ==
  ASSUME IInv, NEW n \in Nodes, NEW name \in Names, Subcommand(n, name)
  PROVE  IInv'
<1>1. /\ FindChild(n, name) = NoNode /\ Create(n, name) /\ Silent
      /\ handles' = handles /\ holds' = holds /\ aliased' = aliased
  BY DEF Subcommand
<1>2. TreeOK /\ RestTyped /\ created \in Nat
  BY InvariantParts, RegistrationAssumption DEF TreeOK, TreeTyped
<1>3. n # Root
  BY <1>2 DEF TreeOK, TreeTyped, Root
<1>4. /\ TreeOK' /\ created' = created + 1 /\ Nodes' = Nodes \cup {created'}
      /\ \A m \in Nodes : tree'[m] = tree[m]
  BY <1>1, <1>2, CreateKeepsTree
<1>5. /\ Unaliased' /\ MirrorIsExact' /\ mirror' \subseteq Paths
      /\ note' \in [kind : {"none", "registered", "unregistered"},
                    path : Paths \cup {<<>>}]
  BY <1>1, <1>3, AfterCreate
<1>6. Owning'
  BY <1>1, <1>2, <1>4, OwningKept
<1>7. RestTyped'
  BY <1>1, <1>2, <1>5 DEF RestTyped
<1>. QED
  BY <1>4, <1>5, <1>6, <1>7, InvariantParts

LEMMA AliasStep ==
  ASSUME IInv, NEW n \in Nodes, NEW alias \in Names, Alias(n, alias)
  PROVE  IInv'
<1>1. /\ tree' = [tree EXCEPT ![n].aliases = @ \cup {alias}]
      /\ aliased' = TRUE /\ note' = Quiet /\ mirror' = mirror
      /\ created' = created /\ handles' = handles /\ holds' = holds
  BY DEF Alias, Silent
<1>2. TreeOK /\ RestTyped /\ created \in Nat
  BY InvariantParts, RegistrationAssumption DEF TreeOK, TreeTyped
<1>3. /\ TreeOK' /\ Nodes' = Nodes
      /\ \A m \in Nodes : tree'[m].name = tree[m].name /\ tree'[m].parent = tree[m].parent
  BY <1>1, <1>2, AliasKeepsTree
<1>4. Owning'
  BY <1>1, <1>2, <1>3, OwningKept
<1>5. Unaliased' /\ MirrorIsExact'
  BY <1>1 DEF Unaliased, MirrorIsExact
<1>6. RestTyped'
  BY <1>1, <1>2 DEF RestTyped, Quiet
<1>. QED
  BY <1>3, <1>4, <1>5, <1>6, InvariantParts

LEMMA UnregisterByPathStep ==
  ASSUME IInv, NEW path \in Paths, UnregisterByPath(path)
  PROVE  IInv'
<1>1. /\ UnregisterCommand(path)
      /\ created' = created /\ handles' = handles /\ holds' = holds /\ aliased' = aliased
  BY DEF UnregisterByPath
<1>2. RestTyped /\ created \in Nat
  BY InvariantParts, RegistrationAssumption DEF TreeOK, TreeTyped
<1>3. /\ TreeOK' /\ Unaliased' /\ MirrorIsExact' /\ mirror' \subseteq Paths
      /\ note' \in [kind : {"none", "registered", "unregistered"},
                    path : Paths \cup {<<>>}]
      /\ Nodes' \subseteq Nodes
      /\ \A m \in Nodes' : tree'[m] = tree[m]
  BY <1>1, AfterUnregister
<1>4. Owning'
  BY <1>1, <1>2, <1>3, OwningKept
<1>5. RestTyped'
  BY <1>1, <1>2, <1>3 DEF RestTyped
<1>. QED
  BY <1>3, <1>4, <1>5, InvariantParts

\* What lies below a node is not at the top, so no observer has to hear of it.
LEMMA RemoveSubcommandStep ==
  ASSUME IInv, NEW n \in Nodes, NEW name \in Names, RemoveSubcommand(n, name)
  PROVE  IInv' /\ TopLevel' = TopLevel
<1>. DEFINE gone == FindChild(n, name)
<1>1. /\ gone # NoNode /\ tree' = TreeWithout(gone) /\ note' = Quiet /\ mirror' = mirror
      /\ created' = created /\ handles' = handles /\ holds' = holds /\ aliased' = aliased
  BY DEF RemoveSubcommand, Silent
<1>2. TreeOK /\ RestTyped /\ Unaliased /\ MirrorIsExact /\ created \in Nat
  BY InvariantParts, RegistrationAssumption DEF TreeOK, TreeTyped
<1>3. gone \in Nodes /\ tree[gone].parent = n /\ n # Root
  <2>1. Nodes \subseteq Nat /\ n # Root
    BY <1>2 DEF TreeOK, TreeTyped, Root
  <2>. QED
    BY <1>1, <2>1, FindChildIsFirst DEF Children
<1>. HIDE DEF gone
<1>4. /\ TreeOK' /\ Nodes' = Nodes \ Subtree(gone) /\ gone \notin Nodes'
      /\ \A m \in Nodes' : tree'[m] = tree[m]
      /\ \A m \in Nodes : tree[m].parent = Root /\ m # gone => m \in Nodes'
  BY <1>1, <1>2, <1>3, RemoveKeepsTree
<1>5. TopLevel' = TopLevel
  BY <1>3, <1>4 DEF TopLevel, Children
<1>6. MirrorIsExact'
  <2>1. \A m \in TopLevel : tree'[m] = tree[m]
    BY <1>4, <1>5 DEF TopLevel, Children
  <2>. QED
    BY <1>1, <1>2, <1>5, <2>1 DEF MirrorIsExact
<1>7. Unaliased'
  BY <1>1, <1>2, <1>4 DEF Unaliased
<1>8. Owning'
  BY <1>1, <1>2, <1>4, OwningKept
<1>9. RestTyped'
  BY <1>1, <1>2 DEF RestTyped, Quiet
<1>. QED
  BY <1>4, <1>5, <1>6, <1>7, <1>8, <1>9, InvariantParts

\* The steps that give handles what they own, or take it away.
LEMMA RegisterCommandStep ==
  ASSUME IInv, NEW h \in Handles, NEW name \in Names, RegisterCommand(h, name)
  PROVE  IInv'
<1>1. /\ FindChild(Root, name) = NoNode /\ Create(Root, name) /\ Registered(<<name>>)
      /\ handles[h] = <<>> /\ aliased' = aliased
      /\ handles' = [handles EXCEPT ![h] = <<name>>]
      /\ holds' = [holds EXCEPT ![h] = created']
  BY DEF RegisterCommand, NameIsFree
<1>2. TreeOK /\ RestTyped /\ Owning /\ created \in Nat
  BY InvariantParts, RegistrationAssumption DEF TreeOK, TreeTyped
<1>3. /\ TreeOK' /\ created' = created + 1 /\ created' \in 1 .. MaxNodes
      /\ Nodes' = Nodes \cup {created'}
      /\ \A n \in Nodes : tree'[n] = tree[n]
      /\ tree'[created'].parent = Root /\ tree'[created'].name = name
  BY <1>1, <1>2, CreateKeepsTree
<1>4. /\ Unaliased' /\ MirrorIsExact' /\ mirror' \subseteq Paths
      /\ note' \in [kind : {"none", "registered", "unregistered"},
                    path : Paths \cup {<<>>}]
  BY <1>1, AfterCreate
<1>5. <<name>> \in Paths /\ <<name>> # <<>>
  BY PathOfName
<1>6. /\ handles' \in [Handles -> Paths \cup {<<>>}]
      /\ holds' \in [Handles -> NodeIds \cup {NoNode}]
  BY <1>1, <1>2, <1>3, <1>5 DEF RestTyped, NodeIds
<1>7. /\ handles'[h] = <<name>> /\ holds'[h] = created'
      /\ \A g \in Handles : g # h => handles'[g] = handles[g] /\ holds'[g] = holds[g]
  BY <1>1, <1>2 DEF RestTyped
<1>8. \A g \in Handles : holds[g] # NoNode => holds[g] \in 1 .. created
  BY <1>2 DEF Owning
<1>9. created' # NoNode /\ created' \notin 1 .. created
  BY <1>2, <1>3 DEF NoNode
<1>10. Owning'
  <2>. SUFFICES ASSUME NEW g \in Handles
                PROVE  /\ handles'[g] = <<>> <=> holds'[g] = NoNode
                       /\ handles'[g] # <<>> =>
                            /\ \E any \in Names : handles'[g] = <<any>>
                            /\ holds'[g] \in 1 .. created'
                            /\ holds'[g] \in Nodes' =>
                                 /\ tree'[holds'[g]].parent = Root
                                 /\ <<tree'[holds'[g]].name>> = handles'[g]
                       /\ \A k \in Handles :
                            holds'[k] = holds'[g] /\ holds'[g] # NoNode => k = g
    BY DEF Owning
  <2>1. \A k \in Handles : holds'[k] = holds'[g] /\ holds'[g] # NoNode => k = g
    BY <1>2, <1>7, <1>8, <1>9 DEF Owning
  <2>2. CASE g = h
    <3>1. created' \in 1 .. created'
      BY <1>2, <1>3
    <3>. QED
      BY <1>3, <1>5, <1>7, <1>9, <2>1, <2>2, <3>1
  <2>3. CASE g # h
    <3>1. handles'[g] = handles[g] /\ holds'[g] = holds[g]
      BY <1>7, <2>3
    <3>2. \A n \in 1 .. created : n \in 1 .. created'
      BY <1>2, <1>3
    <3>3. holds[g] \in 1 .. created /\ holds[g] \in Nodes' => holds[g] \in Nodes
      BY <1>3, <1>9
    <3>. QED
      BY <1>2, <1>3, <2>1, <3>1, <3>2, <3>3 DEF Owning
  <2>. QED
    BY <2>2, <2>3
<1>11. RestTyped'
  BY <1>1, <1>2, <1>4, <1>6 DEF RestTyped
<1>. QED
  BY <1>3, <1>4, <1>10, <1>11, InvariantParts

LEMMA ResetStep ==
  ASSUME IInv, NEW h \in Handles, Reset(h)
  PROVE  IInv'
<1>1. /\ handles[h] # <<>> /\ UnregisterCommand(handles[h])
      /\ handles' = [handles EXCEPT ![h] = <<>>]
      /\ holds' = [holds EXCEPT ![h] = NoNode]
      /\ created' = created /\ aliased' = aliased
  BY DEF Reset
<1>2. TreeOK /\ RestTyped /\ Owning
  BY InvariantParts
<1>3. handles[h] \in Paths
  BY <1>1, <1>2 DEF RestTyped
<1>4. /\ TreeOK' /\ Unaliased' /\ MirrorIsExact' /\ mirror' \subseteq Paths
      /\ note' \in [kind : {"none", "registered", "unregistered"},
                    path : Paths \cup {<<>>}]
      /\ Nodes' \subseteq Nodes
      /\ \A m \in Nodes' : tree'[m] = tree[m]
  BY <1>1, <1>3, AfterUnregister
<1>5. /\ handles' \in [Handles -> Paths \cup {<<>>}]
      /\ holds' \in [Handles -> NodeIds \cup {NoNode}]
  BY <1>1, <1>2 DEF RestTyped
<1>6. /\ handles'[h] = <<>> /\ holds'[h] = NoNode
      /\ \A g \in Handles : g # h => handles'[g] = handles[g] /\ holds'[g] = holds[g]
  BY <1>1, <1>2 DEF RestTyped
<1>7. Owning'
  BY <1>1, <1>2, <1>4, <1>6 DEF Owning
<1>8. RestTyped'
  BY <1>1, <1>2, <1>4, <1>5 DEF RestTyped
<1>. QED
  BY <1>4, <1>7, <1>8, InvariantParts

\* What move assignment does before it moves anything.
LEMMA AfterResetTarget ==
  ASSUME IInv, NEW from \in Handles, NEW to \in Handles, ResetTarget(from, to),
         created' = created, aliased' = aliased
  PROVE  /\ TreeOK' /\ Unaliased' /\ MirrorIsExact' /\ mirror' \subseteq Paths
         /\ note' \in [kind : {"none", "registered", "unregistered"},
                       path : Paths \cup {<<>>}]
         /\ Nodes' \subseteq Nodes
         /\ \A m \in Nodes' : tree'[m] = tree[m]
         /\ \A m \in Nodes \ Nodes' :
              handles[to] # <<>> /\ m \in Subtree(Resolve(handles[to]))
         /\ note'.kind # "registered"
         /\ note'.kind = "unregistered" => Nodes' # Nodes
<1>1. TreeOK /\ RestTyped /\ Unaliased /\ MirrorIsExact
  BY InvariantParts
<1>2. CASE handles[to] = <<>>
  <2>1. tree' = tree /\ note' = Quiet /\ mirror' = mirror
    BY <1>2 DEF ResetTarget, Silent
  <2>2. Nodes' = Nodes
    BY <2>1 DEF Nodes
  <2>. QED
    BY <1>1, <2>1, <2>2
       DEF TreeOK, TreeTyped, Wellformed, SiblingNamesDistinct, Unaliased, MirrorIsExact,
           TopLevel, Children, Quiet, RestTyped
<1>3. CASE handles[to] # <<>>
  <2>1. handles[to] \in Paths /\ UnregisterCommand(handles[to])
    BY <1>1, <1>3 DEF RestTyped, ResetTarget
  <2>. QED
    BY <1>3, <2>1, AfterUnregister
<1>. QED
  BY <1>2, <1>3

LEMMA MoveHandleStep ==
  ASSUME IInv, NEW from \in Handles, NEW to \in Handles, MoveHandle(from, to)
  PROVE  IInv'
<1>1. /\ from # to /\ ResetTarget(from, to)
      /\ handles' = [handles EXCEPT ![to] = handles[from], ![from] = <<>>]
      /\ holds' = [holds EXCEPT ![to] = holds[from], ![from] = NoNode]
      /\ created' = created /\ aliased' = aliased
  BY DEF MoveHandle
<1>2. TreeOK /\ RestTyped /\ Owning
  BY InvariantParts
<1>3. /\ TreeOK' /\ Unaliased' /\ MirrorIsExact' /\ mirror' \subseteq Paths
      /\ note' \in [kind : {"none", "registered", "unregistered"},
                    path : Paths \cup {<<>>}]
      /\ Nodes' \subseteq Nodes
      /\ \A m \in Nodes' : tree'[m] = tree[m]
  BY <1>1, AfterResetTarget
<1>4. /\ handles' \in [Handles -> Paths \cup {<<>>}]
      /\ holds' \in [Handles -> NodeIds \cup {NoNode}]
  BY <1>1, <1>2 DEF RestTyped
<1>5. /\ handles'[from] = <<>> /\ holds'[from] = NoNode
      /\ handles'[to] = handles[from] /\ holds'[to] = holds[from]
      /\ \A g \in Handles : g # from /\ g # to =>
           handles'[g] = handles[g] /\ holds'[g] = holds[g]
  BY <1>1, <1>2 DEF RestTyped
<1>6. Owning'
  <2>. DEFINE source(g) == IF g = to THEN from ELSE g
  <2>1. \A g \in Handles : g # from =>
          /\ source(g) \in Handles
          /\ handles'[g] = handles[source(g)] /\ holds'[g] = holds[source(g)]
    BY <1>5
  <2>2. \A g, k \in Handles : g # from /\ k # from /\ source(g) = source(k) => g = k
    OBVIOUS
  <2>. HIDE DEF source
  <2>. SUFFICES ASSUME NEW g \in Handles
                PROVE  /\ handles'[g] = <<>> <=> holds'[g] = NoNode
                       /\ handles'[g] # <<>> =>
                            /\ \E any \in Names : handles'[g] = <<any>>
                            /\ holds'[g] \in 1 .. created'
                            /\ holds'[g] \in Nodes' =>
                                 /\ tree'[holds'[g]].parent = Root
                                 /\ <<tree'[holds'[g]].name>> = handles'[g]
                       /\ \A k \in Handles :
                            holds'[k] = holds'[g] /\ holds'[g] # NoNode => k = g
    BY DEF Owning
  <2>3. CASE g = from
    BY <1>5, <2>3
  <2>4. CASE g # from
    <3>1. /\ source(g) \in Handles
          /\ handles'[g] = handles[source(g)] /\ holds'[g] = holds[source(g)]
      BY <2>1, <2>4
    <3>2. /\ handles[source(g)] = <<>> <=> holds[source(g)] = NoNode
          /\ handles[source(g)] # <<>> =>
               /\ \E any \in Names : handles[source(g)] = <<any>>
               /\ holds[source(g)] \in 1 .. created
               /\ holds[source(g)] \in Nodes =>
                    /\ tree[holds[source(g)]].parent = Root
                    /\ <<tree[holds[source(g)]].name>> = handles[source(g)]
      BY <1>2, <3>1 DEF Owning
    <3>3. \A k \in Handles : holds'[k] = holds'[g] /\ holds'[g] # NoNode => k = g
      <4>. SUFFICES ASSUME NEW k \in Handles, holds'[k] = holds'[g], holds'[g] # NoNode
                    PROVE  k = g
        OBVIOUS
      <4>1. k # from
        BY <1>5
      <4>2. source(k) \in Handles /\ holds[source(k)] = holds[source(g)]
        BY <2>1, <3>1, <4>1
      <4>3. source(k) = source(g)
        BY <1>2, <3>1, <4>2 DEF Owning
      <4>. QED
        BY <2>2, <2>4, <4>1, <4>3
    <3>. QED
      BY <1>1, <1>3, <3>1, <3>2, <3>3
  <2>. QED
    BY <2>3, <2>4
<1>7. RestTyped'
  BY <1>1, <1>2, <1>3, <1>4 DEF RestTyped
<1>. QED
  BY <1>3, <1>6, <1>7, InvariantParts

LEMMA NextInvariant == IInv /\ [Next]_vars => IInv'
<1>. SUFFICES ASSUME IInv, [Next]_vars PROVE IInv'
  OBVIOUS
<1>1. ASSUME NEW name \in Names, CommandFound(name) PROVE IInv'
  BY <1>1, CommandFoundStep
<1>2. ASSUME NEW name \in Names, CommandCreated(name) PROVE IInv'
  BY <1>2, CommandCreatedStep
<1>3. ASSUME NEW name \in Names, NEW n \in Nodes, Subcommand(n, name) PROVE IInv'
  BY <1>3, SubcommandStep
<1>4. ASSUME NEW name \in Names, NEW n \in Nodes, Alias(n, name) PROVE IInv'
  BY <1>4, AliasStep
<1>5. ASSUME NEW name \in Names, NEW n \in Nodes, RemoveSubcommand(n, name) PROVE IInv'
  BY <1>5, RemoveSubcommandStep
<1>6. ASSUME NEW name \in Names, NEW h \in Handles, RegisterCommand(h, name) PROVE IInv'
  BY <1>6, RegisterCommandStep
<1>7. ASSUME NEW path \in Paths, UnregisterByPath(path) PROVE IInv'
  BY <1>7, UnregisterByPathStep
<1>8. ASSUME NEW h \in Handles, Reset(h) PROVE IInv'
  BY <1>8, ResetStep
<1>9. ASSUME NEW from \in Handles, NEW to \in Handles, MoveHandle(from, to) PROVE IInv'
  BY <1>9, MoveHandleStep
<1>10. CASE UNCHANGED vars
  <2>1. Nodes' = Nodes /\ TopLevel' = TopLevel
    BY <1>10 DEF vars, Nodes, TopLevel, Children
  <2>. QED
    BY <1>10, <2>1
       DEF vars, IInv, TypeOK, Wellformed, SiblingNamesDistinct, Unaliased, MirrorIsExact,
           Owning
<1>. QED
  BY <1>1, <1>2, <1>3, <1>4, <1>5, <1>6, <1>7, <1>8, <1>9, <1>10 DEF Next

-----------------------------------------------------------------------------
(* The theorems.                                                            *)

\* Every state that registrations, aliases, removals and handles lead to
\* satisfies the invariant.
THEOREM InvariantHolds == Spec => []IInv
BY InitInvariant, NextInvariant, PTL DEF Spec

\* The tree stays a tree of known nodes, and what handles and observers
\* remember keeps its type.
THEOREM TypeCorrect == Spec => []TypeOK
<1>. IInv => TypeOK
  BY DEF IInv
<1>. QED
  BY InvariantHolds, PTL

\* However nodes are created, renamed by aliases and removed, find-or-create
\* never leaves two siblings with one name.
THEOREM NamesStayDistinct == Spec => []SiblingNamesDistinct
<1>. IInv => SiblingNamesDistinct
  BY DEF IInv
<1>. QED
  BY InvariantHolds, PTL

\* An observer that keeps a set of paths never loses track of the top-level
\* commands before the first alias.
THEOREM ObserversKnowTheTree == Spec => []MirrorIsExact
<1>. IInv => MirrorIsExact
  BY DEF IInv
<1>. QED
  BY InvariantHolds, PTL

\* The path of a handle leads to its own node: no younger command can come
\* before it, and an older one only by an alias.
LEMMA OwnNodeIsFound == IInv => HandleOwnsItsNode
<1>. SUFFICES ASSUME IInv, NEW h \in Handles,
                     handles[h] # <<>>, ~Stale(h), ~Shadowed(h)
              PROVE  Resolve(handles[h]) = holds[h]
  BY DEF HandleOwnsItsNode
<1>1. TreeOK /\ Owning
  BY InvariantParts
<1>2. Nodes \subseteq NodeIds /\ Nodes \subseteq Nat \ {NoNode}
  BY <1>1, RegistrationAssumption DEF TreeOK, TreeTyped, NodeIds, NoNode
<1>3. PICK name \in Names : handles[h] = <<name>>
  BY <1>1 DEF Owning
<1>4. /\ holds[h] \in Nodes
      /\ tree[holds[h]].parent = Root /\ <<tree[holds[h]].name>> = <<name>>
  BY <1>1, <1>3 DEF Owning, Stale
<1>5. tree[holds[h]].name = name
  BY <1>4
<1>6. holds[h] \in TopLevel /\ Matches(holds[h], name)
  BY <1>4, <1>5 DEF TopLevel, Children, Matches
<1>. DEFINE first == FindChild(Root, name)
<1>7. first \in TopLevel /\ Matches(first, name) /\ first <= holds[h]
  BY <1>2, <1>6, FindChildIsFirst DEF TopLevel
<1>8. Resolve(handles[h]) = first
  BY <1>2, <1>3, ResolveName
<1>. HIDE DEF first
<1>9. ASSUME first # holds[h] PROVE FALSE
  <2>1. first \in Nodes /\ first < holds[h]
    BY <1>2, <1>4, <1>7, <1>9 DEF TopLevel, Children
  <2>2. name \notin tree[first].aliases
    <3>1. handles[h][1] = name
      BY <1>3, PathOfName
    <3>. QED
      BY <1>7, <2>1, <3>1 DEF Shadowed
  <2>3. tree[first].name = name
    BY <1>7, <2>2 DEF Matches
  <2>. QED
    BY <1>1, <1>4, <1>5, <1>7, <1>9, <2>1, <2>3
       DEF TreeOK, SiblingNamesDistinct, TopLevel, Children
<1>. QED
  BY <1>8, <1>9

\* An active handle's path leads to the node its RegisterCommand created, unless
\* that was removed by path or is shadowed by an alias; no two handles share one.
THEOREM HandlesReachTheirOwn == Spec => []HandleOwnsItsNode
BY InvariantHolds, OwnNodeIsFound, PTL

\* The step of NotifiedAsChanged.
Notified ==
  /\ TopLevel' \ TopLevel # {} <=> note'.kind = "registered"
  /\ note'.kind = "unregistered" => Nodes' # Nodes

\* A change that creates nothing puts no node at the top.
LEMMA NoNewTopLevel ==
  ASSUME Nodes' \subseteq Nodes, \A m \in Nodes' : tree'[m].parent = tree[m].parent
  PROVE  TopLevel' \subseteq TopLevel
BY DEF TopLevel, Children

LEMMA StepIsNotified == IInv /\ [Next]_vars => [Notified]_vars
<1>. SUFFICES ASSUME IInv, Next PROVE Notified
  OBVIOUS
<1>. /\ Quiet.kind = "none"
     /\ \A path : Registered(path) => note'.kind = "registered"
  BY DEF Quiet, Registered
<1>0. TreeOK /\ RestTyped
  BY InvariantParts
<1>1. ASSUME NEW name \in Names, CommandFound(name) PROVE Notified
  <2>1. tree' = tree /\ note' = Quiet
    BY <1>1 DEF CommandFound, NoteOfFound, Silent
  <2>. QED
    BY <2>1 DEF Notified, TopLevel, Children, Nodes
<1>2. ASSUME NEW name \in Names, Create(Root, name), FindChild(Root, name) = NoNode,
             aliased' = aliased, Registered(<<name>>)
      PROVE  Notified
  <2>1. TopLevel' = TopLevel \cup {created'}
    BY <1>2, AfterCreate
  <2>2. created' \notin Nodes
    BY <1>0, <1>2, CreateKeepsTree
  <2>3. TopLevel \subseteq Nodes /\ note'.kind = "registered"
    BY <1>2 DEF TopLevel, Children
  <2>. QED
    BY <2>1, <2>2, <2>3 DEF Notified
<1>3. ASSUME NEW name \in Names, NEW n \in Nodes, Subcommand(n, name) PROVE Notified
  <2>1. /\ FindChild(n, name) = NoNode /\ Create(n, name) /\ Silent
        /\ aliased' = aliased /\ note' = Quiet
    BY <1>3 DEF Subcommand, Silent
  <2>2. n # Root
    BY <1>0 DEF TreeOK, TreeTyped, Root
  <2>3. TopLevel' = TopLevel
    BY <2>1, <2>2, AfterCreate
  <2>. QED
    BY <2>1, <2>3 DEF Notified
<1>4. ASSUME NEW name \in Names, NEW n \in Nodes, Alias(n, name) PROVE Notified
  <2>1. /\ tree' = [tree EXCEPT ![n].aliases = @ \cup {name}]
        /\ created' = created /\ note' = Quiet
    BY <1>4 DEF Alias, Silent
  <2>2. /\ Nodes' = Nodes
        /\ \A m \in Nodes : tree'[m].parent = tree[m].parent
    BY <1>0, <2>1, AliasKeepsTree
  <2>. QED
    BY <2>1, <2>2, NoNewTopLevel DEF Notified
<1>5. ASSUME NEW name \in Names, NEW n \in Nodes, RemoveSubcommand(n, name) PROVE Notified
  <2>1. note' = Quiet
    BY <1>5 DEF RemoveSubcommand, Silent
  <2>. QED
    BY <1>5, <2>1, RemoveSubcommandStep DEF Notified
<1>6. ASSUME NEW name \in Names, CommandCreated(name) PROVE Notified
  BY <1>2, <1>6 DEF CommandCreated, NameIsFree
<1>7. ASSUME NEW name \in Names, NEW h \in Handles, RegisterCommand(h, name) PROVE Notified
  BY <1>2, <1>7 DEF RegisterCommand, NameIsFree
<1>8. ASSUME Nodes' \subseteq Nodes, \A m \in Nodes' : tree'[m] = tree[m],
             note'.kind # "registered", note'.kind = "unregistered" => Nodes' # Nodes
      PROVE  Notified
  BY <1>8, NoNewTopLevel DEF Notified
<1>9. ASSUME NEW path \in Paths, UnregisterByPath(path) PROVE Notified
  BY <1>8, <1>9, AfterUnregister DEF UnregisterByPath
<1>10. ASSUME NEW h \in Handles, Reset(h) PROVE Notified
  <2>1. handles[h] \in Paths
    BY <1>0, <1>10 DEF RestTyped, Reset
  <2>. QED
    BY <1>8, <1>10, <2>1, AfterUnregister DEF Reset
<1>11. ASSUME NEW from \in Handles, NEW to \in Handles, MoveHandle(from, to) PROVE Notified
  BY <1>8, <1>11, AfterResetTarget DEF MoveHandle
<1>. QED
  BY <1>1, <1>3, <1>4, <1>5, <1>6, <1>7, <1>9, <1>10, <1>11 DEF Next

\* Observers are told of every command that appears at the top of the tree and
\* of none that was only looked up, and of removals only when there is one.
THEOREM ObserversAreToldTheTruth == Spec => NotifiedAsChanged
<1>1. Spec => [][Notified]_vars
  BY InvariantHolds, StepIsNotified, PTL DEF Spec
<1>. QED
  BY <1>1 DEF NotifiedAsChanged, Notified

\* The step of HandlesRemoveTheirOwn.
RemovesOwn ==
  handles' # handles =>
    \A n \in Nodes \ Nodes' :
      \E h \in Handles :
        /\ Ends(h)
        /\ n \in Subtree(holds[h]) \/ Stale(h) \/ Shadowed(h)

\* What a handle's path leads to is its own, or the handle is stale or shadowed.
LEMMA OwnSubtree ==
  ASSUME IInv, NEW h \in Handles, handles[h] # <<>>, NEW n \in Subtree(Resolve(handles[h]))
  PROVE  n \in Subtree(holds[h]) \/ Stale(h) \/ Shadowed(h)
BY OwnNodeIsFound DEF HandleOwnsItsNode

LEMMA StepRemovesOwn == IInv /\ [Next]_vars => [RemovesOwn]_vars
<1>. SUFFICES ASSUME IInv, Next PROVE RemovesOwn
  OBVIOUS
<1>0. TreeOK /\ RestTyped /\ Owning
  BY InvariantParts
<1>1. CASE handles' = handles
  BY <1>1 DEF RemovesOwn
<1>2. ASSUME NEW name \in Names, NEW h \in Handles, RegisterCommand(h, name) PROVE RemovesOwn
  <2>1. Nodes \subseteq Nodes'
    BY <1>0, <1>2, CreateKeepsTree DEF RegisterCommand, NameIsFree
  <2>. QED
    BY <2>1 DEF RemovesOwn
<1>3. ASSUME NEW h \in Handles, Reset(h) PROVE RemovesOwn
  <2>1. /\ handles[h] # <<>> /\ UnregisterCommand(handles[h])
        /\ holds' = [holds EXCEPT ![h] = NoNode]
        /\ created' = created /\ aliased' = aliased
    BY <1>3 DEF Reset
  <2>2. handles[h] \in Paths
    BY <1>0, <2>1 DEF RestTyped
  <2>3. Nodes \ Nodes' \subseteq Subtree(Resolve(handles[h]))
    BY <2>1, <2>2, AfterUnregister
  <2>4. Ends(h)
    <3>1. holds[h] # NoNode
      BY <1>0, <2>1 DEF Owning
    <3>2. \A g \in Handles : holds'[g] = IF g = h THEN NoNode ELSE holds[g]
      BY <1>0, <2>1 DEF RestTyped
    <3>. QED
      BY <1>0, <2>1, <3>1, <3>2 DEF Ends, Owning
  <2>. QED
    BY <2>1, <2>3, <2>4, OwnSubtree DEF RemovesOwn
<1>4. ASSUME NEW from \in Handles, NEW to \in Handles, MoveHandle(from, to) PROVE RemovesOwn
  <2>1. /\ from # to /\ ResetTarget(from, to)
        /\ holds' = [holds EXCEPT ![to] = holds[from], ![from] = NoNode]
        /\ created' = created /\ aliased' = aliased
    BY <1>4 DEF MoveHandle
  <2>2. \A m \in Nodes \ Nodes' :
          handles[to] # <<>> /\ m \in Subtree(Resolve(handles[to]))
    BY <2>1, AfterResetTarget
  <2>3. ASSUME handles[to] # <<>> PROVE Ends(to)
    <3>1. holds[to] # NoNode
      BY <1>0, <2>3 DEF Owning
    <3>2. \A g \in Handles : holds'[g] = IF g = from THEN NoNode
                                         ELSE IF g = to THEN holds[from] ELSE holds[g]
      BY <1>0, <2>1 DEF RestTyped
    <3>. QED
      BY <1>0, <2>1, <2>3, <3>1, <3>2 DEF Ends, Owning
  <2>. QED
    BY <2>2, <2>3, OwnSubtree DEF RemovesOwn
<1>5. ASSUME handles' # handles
      PROVE  \/ \E name \in Names, h \in Handles : RegisterCommand(h, name)
             \/ \E h \in Handles : Reset(h)
             \/ \E from, to \in Handles : MoveHandle(from, to)
  BY <1>5 DEF Next, CommandFound, CommandCreated, Subcommand, Alias, RemoveSubcommand,
              UnregisterByPath
<1>. QED
  BY <1>1, <1>2, <1>3, <1>4, <1>5

\* Scoped registration: a reset or an assignment takes out of the tree what
\* that handle has registered, unless its node is gone or shadowed by an alias.
THEOREM ScopesEndTheirOwn == Spec => HandlesRemoveTheirOwn
<1>1. Spec => [][RemovesOwn]_vars
  BY InvariantHolds, StepRemovesOwn, PTL DEF Spec
<1>. QED
  BY <1>1 DEF HandlesRemoveTheirOwn, RemovesOwn

=============================================================================
