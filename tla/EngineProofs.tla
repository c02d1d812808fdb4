---------------------------- MODULE EngineProofs ----------------------------
(***************************************************************************)
(* Theorems about Engine and DocumentScans, for any documents of any depth, *)
(* any resources and properties, and any entries that an author adds.      *)
(*                                                                         *)
(* Nodes are trees, and Loader's functions are recursive in them: a fact    *)
(* about all nodes is proved by induction over how deep they are nested     *)
(* (AllNumbers), from the equation that the recursive definition stands for *)
(* (WithinStep, ConstructStep, ConstructibleStep, SpelledStep).            *)
(***************************************************************************)
EXTENDS DocumentScans, SequenceFacts

-----------------------------------------------------------------------------
(* Nodes, by how deep they are nested *)

\* The equation of Within, with the function in place of the name.
Nested(inner) ==
    [tag : NodeTags, seq : Seq(inner)]
    \cup [tag : NodeTags, map : Seq([key : inner, value : inner])]
ScalarNodes == [tag : NodeTags, scalar : Scalars, text : STRING]
Layer(f, d) == ScalarNodes \cup (IF d = 0 THEN {} ELSE Nested(f[d - 1]))
Layers(f, m) == f = [d \in 0..m |-> Layer(f, d)]

LEMMA RoomIsNumber == Depth \in Nat /\ Room \in Nat /\ Depth <= Room /\ Room >= 2
<1>1. Depth \in Nat
  BY LoaderAssumption
<1> QED
  BY <1>1 DEF Room

LEMMA LayersExist ==
    ASSUME NEW m \in Nat
    PROVE  \E f : Layers(f, m)
<1> DEFINE S == {k \in Nat : \E f : Layers(f, k)}
<1>1. 0 \in S
  <2> DEFINE f == [d \in 0..0 |-> ScalarNodes]
  <2>1. \A d \in 0..0 : Layer(f, d) = ScalarNodes
    BY DEF Layer
  <2>2. Layers(f, 0)
    BY <2>1 DEF Layers
  <2> QED
    BY <2>2
<1>2. ASSUME NEW k \in Nat, k \in S
      PROVE  k + 1 \in S
  <2>1. PICK f : Layers(f, k)
    BY <1>2
  <2> DEFINE g == [d \in 0..(k + 1) |-> IF d <= k THEN f[d] ELSE Layer(f, d)]
  <2>2. \A d \in 0..k : f[d] = Layer(f, d)
    BY <2>1 DEF Layers
  <2>3. \A d \in 0..(k + 1) : d # 0 => d - 1 \in 0..k /\ g[d - 1] = f[d - 1]
    OBVIOUS
  <2>4. \A d \in 0..(k + 1) : Layer(g, d) = Layer(f, d)
    BY <2>3 DEF Layer
  <2>5. \A d \in 0..(k + 1) : g[d] = Layer(g, d)
    <3> TAKE d \in 0..(k + 1)
    <3>1. CASE d <= k
      <4>1. d \in 0..k
        BY <3>1
      <4> QED
        BY <3>1, <4>1, <2>2, <2>4
    <3>2. CASE ~(d <= k)
      BY <3>2, <2>4
    <3> QED
      BY <3>1, <3>2
  <2>6. g = [d \in 0..(k + 1) |-> g[d]]
    OBVIOUS
  <2> HIDE DEF g
  <2>7. Layers(g, k + 1)
    BY <2>5, <2>6 DEF Layers
  <2> QED
    BY <2>7
<1> HIDE DEF S
<1>3. m \in S
  BY <1>1, <1>2, AllNumbers
<1> QED
  BY <1>3 DEF S

LEMMA WithinStep ==
    ASSUME NEW d \in 0..Room
    PROVE  Within[d] = Layer(Within, d)
<1>1. Within = CHOOSE f : Layers(f, Room)
  BY DEF Within, Layers, Layer, Nested, ScalarNodes
<1>2. Layers(Within, Room)
  BY <1>1, LayersExist, RoomIsNumber
<1> QED
  BY <1>2 DEF Layers

LEMMA WithinScalars ==
    ASSUME NEW d \in 0..Room
    PROVE  ScalarNodes \subseteq Within[d]
BY WithinStep DEF Layer

LEMMA WithinNested ==
    ASSUME NEW d \in 0..Room, d # 0
    PROVE  Within[d] = ScalarNodes \cup Nested(Within[d - 1])
BY WithinStep DEF Layer

LEMMA SeqGrows ==
    ASSUME NEW A, NEW B, A \subseteq B
    PROVE  Seq(A) \subseteq Seq(B)
OBVIOUS

LEMMA NestedGrows ==
    ASSUME NEW A, NEW B, A \subseteq B
    PROVE  Nested(A) \subseteq Nested(B)
<1>1. Seq(A) \subseteq Seq(B)
  BY SeqGrows
<1>2. [key : A, value : A] \subseteq [key : B, value : B]
  OBVIOUS
<1>3. Seq([key : A, value : A]) \subseteq Seq([key : B, value : B])
  BY <1>2, SeqGrows
<1> QED
  BY <1>1, <1>3 DEF Nested

LEMMA WithinNext ==
    ASSUME NEW d \in 0..Room, d # 0
    PROVE  Within[d - 1] \subseteq Within[d]
<1> DEFINE S == {k \in Nat : k + 1 <= Room => Within[k] \subseteq Within[k + 1]}
<1>1. 0 \in S
  <2>1. ASSUME 0 + 1 <= Room
        PROVE  Within[0] \subseteq Within[0 + 1]
    <3>1. 0 \in 0..Room /\ 1 \in 0..Room
      BY RoomIsNumber
    <3>2. Within[0] = ScalarNodes
      BY <3>1, WithinStep DEF Layer
    <3> QED
      BY <3>1, <3>2, WithinScalars
  <2> QED
    BY <2>1
<1>2. ASSUME NEW k \in Nat, k \in S
      PROVE  k + 1 \in S
  <2>1. ASSUME k + 1 + 1 <= Room
        PROVE  Within[k + 1] \subseteq Within[k + 1 + 1]
    <3>1. k + 1 \in 0..Room /\ k + 2 \in 0..Room /\ k + 1 # 0 /\ k + 2 # 0
      BY <2>1, RoomIsNumber
    <3>2. Within[k] \subseteq Within[k + 1]
      BY <1>2, <2>1, RoomIsNumber
    <3>3. /\ Within[k + 1] = ScalarNodes \cup Nested(Within[k + 1 - 1])
          /\ Within[k + 2] = ScalarNodes \cup Nested(Within[k + 2 - 1])
      BY <3>1, WithinNested
    <3>4. k + 1 - 1 = k /\ k + 2 - 1 = k + 1 /\ k + 1 + 1 = k + 2
      OBVIOUS
    <3>5. Nested(Within[k]) \subseteq Nested(Within[k + 1])
      BY <3>2, NestedGrows
    <3> QED
      BY <3>3, <3>4, <3>5
  <2> QED
    BY <2>1
<1> HIDE DEF S
<1>3. d - 1 \in S
  BY <1>1, <1>2, AllNumbers, RoomIsNumber
<1> QED
  BY <1>3, RoomIsNumber DEF S

LEMMA WithinGrows ==
    ASSUME NEW d \in 0..Room, NEW e \in 0..Room, d <= e
    PROVE  Within[d] \subseteq Within[e]
<1> DEFINE S == {k \in Nat : d + k <= Room => Within[d] \subseteq Within[d + k]}
<1>1. 0 \in S
  OBVIOUS
<1>2. ASSUME NEW k \in Nat, k \in S
      PROVE  k + 1 \in S
  <2>1. ASSUME d + (k + 1) <= Room
        PROVE  Within[d] \subseteq Within[d + (k + 1)]
    <3>1. Within[d] \subseteq Within[d + k]
      BY <1>2, <2>1, RoomIsNumber
    <3>2. d + (k + 1) \in 0..Room /\ d + (k + 1) # 0 /\ d + (k + 1) - 1 = d + k
      BY <2>1, RoomIsNumber
    <3>3. Within[d + k] \subseteq Within[d + (k + 1)]
      BY <3>2, WithinNext
    <3> QED
      BY <3>1, <3>3
  <2> QED
    BY <2>1
<1> HIDE DEF S
<1>3. e - d \in S /\ d + (e - d) = e
  BY <1>1, <1>2, AllNumbers, RoomIsNumber
<1> QED
  BY <1>3, RoomIsNumber DEF S

\* The three kinds of node, and what is inside them.
SequenceNodes(inner) == [tag : NodeTags, seq : Seq(inner)]
MappingNodes(inner) == [tag : NodeTags, map : Seq([key : inner, value : inner])]

LEMMA NodeKinds ==
    ASSUME NEW inner
    PROVE  /\ \A n \in ScalarNodes : IsScalarNode(n) /\ ~IsSequenceNode(n)
           /\ \A n \in SequenceNodes(inner) : ~IsScalarNode(n) /\ IsSequenceNode(n)
           /\ \A n \in MappingNodes(inner) : ~IsScalarNode(n) /\ ~IsSequenceNode(n)
           /\ Nested(inner) = SequenceNodes(inner) \cup MappingNodes(inner)
BY DEF ScalarNodes, SequenceNodes, MappingNodes, Nested, IsScalarNode, IsSequenceNode

LEMMA NodeAround ==
    ASSUME NEW d \in 0..Room, d # 0, NEW n
    PROVE  /\ n \in SequenceNodes(Within[d - 1]) =>
                 n \in Within[d] /\ IsSequenceNode(n) /\ ~IsScalarNode(n)
           /\ n \in MappingNodes(Within[d - 1]) =>
                 n \in Within[d] /\ ~IsSequenceNode(n) /\ ~IsScalarNode(n)
<1> DEFINE inner == Within[d - 1]
<1>1. Within[d] = ScalarNodes \cup Nested(inner)
  BY WithinNested
<1> HIDE DEF inner
<1>2. /\ Nested(inner) = SequenceNodes(inner) \cup MappingNodes(inner)
      /\ \A c \in SequenceNodes(inner) : ~IsScalarNode(c) /\ IsSequenceNode(c)
      /\ \A c \in MappingNodes(inner) : ~IsScalarNode(c) /\ ~IsSequenceNode(c)
  BY NodeKinds
<1> QED
  BY <1>1, <1>2 DEF inner

\* A node that is not a scalar is made of nodes one level down.
LEMMA InnerNodes ==
    ASSUME NEW d \in 0..Room, NEW n \in Within[d]
    PROVE  \/ n \in ScalarNodes
           \/ d # 0 /\ n \in SequenceNodes(Within[d - 1])
           \/ d # 0 /\ n \in MappingNodes(Within[d - 1])
BY WithinStep, NodeKinds DEF Layer

-----------------------------------------------------------------------------
(* Dicts: what a row of assignments leaves *)

\* The equation of the function in construct_mapping, up to m.
Assigns(a, ps, inner, m) ==
    a = [n \in 0..m |-> IF n = 0 THEN << >>
                        ELSE assign(a[n - 1], inner[ps[n].key], inner[ps[n].value])]

LEMMA AssignsStep ==
    ASSUME NEW a, NEW ps, NEW inner, NEW m \in Nat, Assigns(a, ps, inner, m)
    PROVE  /\ a[0] = << >>
           /\ \A n \in 1..m : a[n] = assign(a[n - 1], inner[ps[n].key], inner[ps[n].value])
<1> DEFINE g == [n \in 0..m |-> IF n = 0 THEN << >>
                        ELSE assign(a[n - 1], inner[ps[n].key], inner[ps[n].value])]
<1>1. a = g
  BY DEF Assigns
<1>2. g[0] = << >> /\ \A n \in 1..m : g[n] = assign(a[n - 1], inner[ps[n].key], inner[ps[n].value])
  OBVIOUS
<1> HIDE DEF g
<1> QED
  BY <1>1, <1>2

LEMMA AssignsExist ==
    ASSUME NEW ps, NEW inner, NEW m \in Nat
    PROVE  \E a : Assigns(a, ps, inner, m)
<1> DEFINE AtStep(a, n) == IF n = 0 THEN << >>
                         ELSE assign(a[n - 1], inner[ps[n].key], inner[ps[n].value])
           S == {k \in Nat : \E a : Assigns(a, ps, inner, k)}
<1>1. 0 \in S
  <2> DEFINE a == [n \in 0..0 |-> << >>]
  <2>1. \A n \in 0..0 : AtStep(a, n) = << >>
    OBVIOUS
  <2>2. a = [n \in 0..0 |-> AtStep(a, n)]
    BY <2>1
  <2> HIDE DEF a
  <2>3. Assigns(a, ps, inner, 0)
    BY <2>2 DEF Assigns
  <2> QED
    BY <2>3
<1>2. ASSUME NEW k \in Nat, k \in S
      PROVE  k + 1 \in S
  <2>1. PICK a : Assigns(a, ps, inner, k)
    BY <1>2
  <2>a. a = [n \in 0..k |-> AtStep(a, n)]
    BY <2>1 DEF Assigns
  <2> HIDE DEF AtStep
  <2> DEFINE g == [n \in 0..(k + 1) |-> IF n <= k THEN a[n] ELSE AtStep(a, n)]
  <2>2. \A n \in 0..k : a[n] = AtStep(a, n)
    BY <2>a
  <2>3. \A n \in 0..(k + 1) : n # 0 => n - 1 \in 0..k /\ g[n - 1] = a[n - 1]
    OBVIOUS
  <2>4. \A n \in 0..(k + 1) : AtStep(g, n) = AtStep(a, n)
    <3> HIDE DEF g
    <3> QED
      BY <2>3 DEF AtStep
  <2>5. \A n \in 0..(k + 1) : g[n] = AtStep(g, n)
    <3> TAKE n \in 0..(k + 1)
    <3>1. CASE n <= k
      <4>1. n \in 0..k
        BY <3>1
      <4> QED
        BY <3>1, <4>1, <2>2, <2>4
    <3>2. CASE ~(n <= k)
      BY <3>2, <2>4
    <3> QED
      BY <3>1, <3>2
  <2>6. g = [n \in 0..(k + 1) |-> g[n]]
    OBVIOUS
  <2> HIDE DEF g
  <2>7. Assigns(g, ps, inner, k + 1)
    BY <2>5, <2>6 DEF Assigns, AtStep
  <2> QED
    BY <2>7
<1> HIDE DEF S
<1>3. m \in S
  BY <1>1, <1>2, AllNumbers
<1> QED
  BY <1>3 DEF S

LEMMA MappingValue ==
    ASSUME NEW ps, NEW inner, Len(ps) \in Nat
    PROVE  \E a : /\ Assigns(a, ps, inner, Len(ps))
                  /\ construct_mapping(ps, inner) = Dict(a[Len(ps)])
<1> DEFINE a == CHOOSE b : Assigns(b, ps, inner, Len(ps))
<1>1. construct_mapping(ps, inner) = Dict(a[Len(ps)])
  BY DEF construct_mapping, Assigns
<1>2. Assigns(a, ps, inner, Len(ps))
  BY AssignsExist
<1> QED
  BY <1>1, <1>2

\* The pairs matter by their values only.
SameItems(ps, f, qs, g) ==
    /\ Len(ps) \in Nat /\ Len(qs) = Len(ps)
    /\ \A n \in 1..Len(ps) : f[ps[n].key] = g[qs[n].key] /\ f[ps[n].value] = g[qs[n].value]

LEMMA MappingAgrees ==
    ASSUME NEW ps, NEW qs, NEW f, NEW g, SameItems(ps, f, qs, g)
    PROVE  construct_mapping(ps, f) = construct_mapping(qs, g)
<1> DEFINE m == Len(ps)
<1>1. PICK a : Assigns(a, ps, f, m) /\ construct_mapping(ps, f) = Dict(a[m])
  BY MappingValue DEF SameItems
<1>2. PICK b : Assigns(b, qs, g, m) /\ construct_mapping(qs, g) = Dict(b[m])
  <2>1. Len(qs) \in Nat /\ Len(qs) = m
    BY DEF SameItems
  <2>2. PICK b : Assigns(b, qs, g, Len(qs)) /\ construct_mapping(qs, g) = Dict(b[Len(qs)])
    BY <2>1, MappingValue
  <2> QED
    BY <2>1, <2>2
<1>m. m \in Nat /\ \A n \in 1..m : f[ps[n].key] = g[qs[n].key] /\ f[ps[n].value] = g[qs[n].value]
  BY DEF SameItems
<1> HIDE DEF m
<1> DEFINE S == {k \in Nat : k <= m => a[k] = b[k]}
<1>3. 0 \in S
  BY <1>1, <1>2, <1>m, AssignsStep
<1>4. ASSUME NEW k \in Nat, k \in S
      PROVE  k + 1 \in S
  <2>1. ASSUME k + 1 <= m
        PROVE  a[k + 1] = b[k + 1]
    <3>1. a[k] = b[k] /\ k + 1 \in 1..m /\ k + 1 - 1 = k
      BY <1>4, <1>m, <2>1
    <3>2. /\ a[k + 1] = assign(a[k], f[ps[k + 1].key], f[ps[k + 1].value])
          /\ b[k + 1] = assign(b[k], g[qs[k + 1].key], g[qs[k + 1].value])
      BY <1>1, <1>2, <1>m, <3>1, AssignsStep
    <3> QED
      BY <1>m, <3>1, <3>2
  <2> QED
    BY <2>1
<1> HIDE DEF S
<1>5. m \in S
  BY <1>3, <1>4, <1>m, AllNumbers
<1> QED
  BY <1>1, <1>2, <1>5 DEF S

\* A dict in the making: each key once.
Distinct(items) == \A x, y \in DOMAIN items : items[x].key = items[y].key => x = y
KeyAt(ps, inner, n) == inner[ps[n].key]
ValueAt(ps, inner, n) == inner[ps[n].value]

\* After n assignments there is one item per key, with the last value it was given.
LastOf(ps, inner, n, k) ==
    /\ k \in 1..n
    /\ \A x \in 1..n : x > k => KeyAt(ps, inner, x) # KeyAt(ps, inner, k)
Collected(items, ps, inner, n) ==
    /\ Len(items) \in Nat /\ DOMAIN items = 1..Len(items)
    /\ Distinct(items)
    /\ \A x \in DOMAIN items : \E k \in 1..n :
          /\ LastOf(ps, inner, n, k)
          /\ items[x] = Item(KeyAt(ps, inner, k), ValueAt(ps, inner, k))
    /\ \A k \in 1..n : \E x \in DOMAIN items : items[x].key = KeyAt(ps, inner, k)

LEMMA AssignFacts ==
    ASSUME NEW T, NEW items \in Seq(T), NEW key, NEW value
    PROVE  /\ (\E x \in DOMAIN items : items[x].key = key) =>
                 /\ DOMAIN assign(items, key, value) = DOMAIN items
                 /\ Len(assign(items, key, value)) = Len(items)
                 /\ \A x \in DOMAIN items : assign(items, key, value)[x] =
                        IF items[x].key = key THEN Item(key, value) ELSE items[x]
           /\ ~(\E x \in DOMAIN items : items[x].key = key) =>
                 /\ DOMAIN assign(items, key, value) = 1..(Len(items) + 1)
                 /\ Len(assign(items, key, value)) = Len(items) + 1
                 /\ \A x \in DOMAIN items : assign(items, key, value)[x] = items[x]
                 /\ assign(items, key, value)[Len(items) + 1] = Item(key, value)
<1>1. Len(items) \in Nat /\ DOMAIN items = 1..Len(items)
  BY LenProperties
<1>2. CASE \E x \in DOMAIN items : items[x].key = key
  <2> DEFINE new == [n \in DOMAIN items |-> IF items[n].key = key THEN Item(key, value) ELSE items[n]]
  <2>1. assign(items, key, value) = new
    BY <1>2 DEF assign
  <2>2. DOMAIN new = 1..Len(items) /\ new \in [1..Len(items) -> {new[x] : x \in 1..Len(items)}]
    BY <1>1
  <2>3. Len(new) = Len(items)
    BY <1>1, <2>2, FunctionIsSeq
  <2> QED
    BY <1>1, <1>2, <2>1, <2>3
<1>3. CASE ~(\E x \in DOMAIN items : items[x].key = key)
  <2>1. assign(items, key, value) = Append(items, Item(key, value))
    BY <1>3 DEF assign
  <2> DEFINE U == T \cup {Item(key, value)}
  <2>2. items \in Seq(U) /\ Item(key, value) \in U
    BY SeqGrows
  <2> HIDE DEF U
  <2>3. /\ Len(Append(items, Item(key, value))) = Len(items) + 1
        /\ Append(items, Item(key, value)) \in Seq(U)
        /\ \A x \in 1..Len(items) : Append(items, Item(key, value))[x] = items[x]
        /\ Append(items, Item(key, value))[Len(items) + 1] = Item(key, value)
    BY <2>2, AppendProperties
  <2> QED
    BY <1>1, <1>3, <2>1, <2>3, LenProperties
<1> QED
  BY <1>2, <1>3

LEMMA AssignType ==
    ASSUME NEW V, NEW items \in Seq([key : V, value : V]), NEW key \in V, NEW value \in V
    PROVE  assign(items, key, value) \in Seq([key : V, value : V])
<1> DEFINE T == [key : V, value : V]
<1>1. Len(items) \in Nat /\ DOMAIN items = 1..Len(items) /\ \A x \in 1..Len(items) : items[x] \in T
  BY LenProperties, ElementOfSeq
<1>2. Item(key, value) \in T
  BY DEF Item
<1> HIDE DEF T
<1>3. CASE \E x \in DOMAIN items : items[x].key = key
  <2> DEFINE new == [n \in DOMAIN items |-> IF items[n].key = key THEN Item(key, value) ELSE items[n]]
  <2>1. new \in [1..Len(items) -> T]
    BY <1>1, <1>2
  <2>2. new \in Seq(T)
    BY <1>1, <2>1, FunctionIsSeq
  <2>3. assign(items, key, value) = new
    BY <1>3 DEF assign
  <2> QED
    BY <2>2, <2>3 DEF T
<1>4. CASE ~(\E x \in DOMAIN items : items[x].key = key)
  BY <1>2, <1>4, AppendProperties DEF assign, T
<1> QED
  BY <1>3, <1>4

\* One assignment more.
LEMMA OneMoreAssigned ==
    ASSUME NEW V, NEW ps, NEW inner, NEW n \in Nat,
           NEW items \in Seq([key : V, value : V]), Collected(items, ps, inner, n)
    PROVE  Collected(assign(items, KeyAt(ps, inner, n + 1), ValueAt(ps, inner, n + 1)),
                     ps, inner, n + 1)
<1> DEFINE key == KeyAt(ps, inner, n + 1)
           value == ValueAt(ps, inner, n + 1)
           new == assign(items, key, value)
           K(k) == KeyAt(ps, inner, k)
           L == Len(items)
<1>1. L \in Nat /\ DOMAIN items = 1..L
  BY LenProperties
<1>2. Item(key, value).key = key /\ Item(key, value).value = value
  BY DEF Item
<1>a. \A k : Item(K(k), ValueAt(ps, inner, k)).key = K(k)
  BY DEF Item
<1>3. LastOf(ps, inner, n + 1, n + 1)
  BY DEF LastOf
<1>4. ASSUME NEW k \in 1..n, LastOf(ps, inner, n, k), K(k) # key
      PROVE  LastOf(ps, inner, n + 1, k)
  <2>1. \A x \in 1..(n + 1) : x \in 1..n \/ x = n + 1
    OBVIOUS
  <2> QED
    BY <1>4, <2>1 DEF LastOf
<1>5. \A x \in DOMAIN items : \E k \in 1..n :
          LastOf(ps, inner, n, k) /\ items[x] = Item(K(k), ValueAt(ps, inner, k))
  BY DEF Collected
<1>6. Distinct(items) /\ \A k \in 1..n : \E x \in DOMAIN items : items[x].key = K(k)
  BY DEF Collected
<1>7. CASE \E x \in DOMAIN items : items[x].key = key
  <2>1. /\ DOMAIN new = DOMAIN items /\ Len(new) = L
        /\ \A x \in DOMAIN items : new[x] = IF items[x].key = key THEN Item(key, value) ELSE items[x]
    BY <1>7, AssignFacts
  <2> HIDE DEF new, key, value, L
  <2>2. \A x \in DOMAIN items : new[x].key = items[x].key
    BY <1>2, <2>1
  <2>3. Distinct(new)
    BY <1>6, <2>1, <2>2 DEF Distinct
  <2>4. ASSUME NEW x \in DOMAIN new
        PROVE  \E k \in 1..(n + 1) :
                  LastOf(ps, inner, n + 1, k) /\ new[x] = Item(K(k), ValueAt(ps, inner, k))
    <3>1. CASE items[x].key = key
      <4>1. new[x] = Item(K(n + 1), ValueAt(ps, inner, n + 1))
        BY <2>1, <3>1 DEF key, value
      <4> QED
        BY <1>3, <4>1
    <3>2. CASE items[x].key # key
      <4>1. PICK k \in 1..n : LastOf(ps, inner, n, k) /\ items[x] = Item(K(k), ValueAt(ps, inner, k))
        BY <1>5, <2>1
      <4>2. K(k) # key
        BY <1>a, <3>2, <4>1
      <4>3. new[x] = items[x] /\ k \in 1..(n + 1)
        BY <2>1, <3>2
      <4> QED
        BY <1>4, <4>1, <4>2, <4>3
    <3> QED
      BY <3>1, <3>2
  <2>5. ASSUME NEW k \in 1..(n + 1)
        PROVE  \E x \in DOMAIN new : new[x].key = K(k)
    <3>1. CASE k = n + 1
      BY <1>7, <2>1, <2>2, <3>1 DEF key
    <3>2. CASE k \in 1..n
      BY <1>6, <2>1, <2>2, <3>2
    <3> QED
      BY <3>1, <3>2
  <2> QED
    BY <1>1, <2>1, <2>3, <2>4, <2>5 DEF Collected, L, new, key, value
<1>8. CASE ~(\E x \in DOMAIN items : items[x].key = key)
  <2>1. /\ DOMAIN new = 1..(L + 1) /\ Len(new) = L + 1
        /\ \A x \in DOMAIN items : new[x] = items[x]
        /\ new[L + 1] = Item(key, value)
    BY <1>8, AssignFacts
  <2>2. \A x \in 1..(L + 1) : x \in DOMAIN items \/ x = L + 1
    BY <1>1
  <2>3. L + 1 \in Nat /\ L + 1 \in 1..(L + 1) /\ \A x \in DOMAIN items : x # L + 1 /\ x \in 1..(L + 1)
    BY <1>1
  <2> HIDE DEF new, key, value, L
  <2>4. Distinct(new)
    BY <1>2, <1>6, <1>8, <2>1, <2>2 DEF Distinct
  <2>5. ASSUME NEW x \in DOMAIN new
        PROVE  \E k \in 1..(n + 1) :
                  LastOf(ps, inner, n + 1, k) /\ new[x] = Item(K(k), ValueAt(ps, inner, k))
    <3>1. CASE x = L + 1
      <4>1. new[x] = Item(K(n + 1), ValueAt(ps, inner, n + 1))
        BY <2>1, <3>1 DEF key, value
      <4> QED
        BY <1>3, <4>1
    <3>2. CASE x \in DOMAIN items
      <4>1. PICK k \in 1..n : LastOf(ps, inner, n, k) /\ items[x] = Item(K(k), ValueAt(ps, inner, k))
        BY <1>5, <3>2
      <4>2. K(k) # key
        BY <1>a, <1>8, <3>2, <4>1
      <4>3. new[x] = items[x] /\ k \in 1..(n + 1)
        BY <2>1, <3>2
      <4> QED
        BY <1>4, <4>1, <4>2, <4>3
    <3> QED
      BY <2>1, <2>2, <3>1, <3>2
  <2>6. ASSUME NEW k \in 1..(n + 1)
        PROVE  \E x \in DOMAIN new : new[x].key = K(k)
    <3>1. CASE k = n + 1
      <4>1. L + 1 \in DOMAIN new
        BY <2>1, <2>3
      <4> QED
        BY <1>2, <2>1, <3>1, <4>1 DEF key
    <3>2. CASE k \in 1..n
      <4>1. PICK x \in DOMAIN items : items[x].key = K(k)
        BY <1>6, <3>2
      <4> QED
        BY <2>1, <2>3, <4>1
    <3> QED
      BY <3>1, <3>2
  <2> QED
    BY <2>1, <2>3, <2>4, <2>5, <2>6 DEF Collected, new, key, value
<1> QED
  BY <1>7, <1>8

\* construct_mapping: one item per key, with the last of its values.
LEMMA MappingFacts ==
    ASSUME NEW V, NEW ps, Len(ps) \in Nat, NEW inner,
           \A n \in 1..Len(ps) : KeyAt(ps, inner, n) \in V /\ ValueAt(ps, inner, n) \in V
    PROVE  \E items \in Seq([key : V, value : V]) :
              /\ construct_mapping(ps, inner) = Dict(items)
              /\ Collected(items, ps, inner, Len(ps))
<1> DEFINE m == Len(ps)
           T == [key : V, value : V]
<1>1. PICK a : Assigns(a, ps, inner, m) /\ construct_mapping(ps, inner) = Dict(a[m])
  BY MappingValue
<1> DEFINE Good(k) == a[k] \in Seq(T) /\ Collected(a[k], ps, inner, k)
           S == {k \in Nat : k <= m => Good(k)}
<1>2. 0 \in S
  <2>1. a[0] = << >>
    BY <1>1, AssignsStep
  <2>2. << >> \in Seq(T) /\ Len(<< >>) = 0 /\ DOMAIN << >> = {} /\ 1..0 = {}
    BY EmptySeq
  <2>3. Collected(<< >>, ps, inner, 0)
    BY <2>2 DEF Collected, Distinct
  <2> QED
    BY <2>1, <2>2, <2>3
<1>3. ASSUME NEW k \in Nat, k \in S
      PROVE  k + 1 \in S
  <2>1. ASSUME k + 1 <= m
        PROVE  Good(k + 1)
    <3>1. k + 1 \in 1..m /\ k + 1 - 1 = k /\ Good(k)
      BY <1>3, <2>1
    <3>2. a[k + 1] = assign(a[k], KeyAt(ps, inner, k + 1), ValueAt(ps, inner, k + 1))
      <4> HIDE DEF m
      <4> QED
        BY <1>1, <3>1, AssignsStep DEF KeyAt, ValueAt, m
    <3>3. KeyAt(ps, inner, k + 1) \in V /\ ValueAt(ps, inner, k + 1) \in V
      BY <3>1
    <3>4. a[k + 1] \in Seq(T)
      BY <3>1, <3>2, <3>3, AssignType
    <3>5. Collected(a[k + 1], ps, inner, k + 1)
      BY <3>1, <3>2, OneMoreAssigned
    <3> QED
      BY <3>4, <3>5
  <2> HIDE DEF Good
  <2> QED
    BY <2>1
<1> HIDE DEF S
<1>4. m \in S
  BY <1>2, <1>3, AllNumbers
<1>5. Good(m)
  BY <1>4 DEF S
<1> QED
  BY <1>1, <1>5

\* What d.get finds in it.
LEMMA GetLast ==
    ASSUME NEW items, NEW ps, NEW inner, NEW m \in Nat, Collected(items, ps, inner, m),
           NEW k \in 1..m, LastOf(ps, inner, m, k)
    PROVE  /\ HasKey(Dict(items), KeyAt(ps, inner, k))
           /\ Get(Dict(items), KeyAt(ps, inner, k)) = ValueAt(ps, inner, k)
           /\ \E x \in DOMAIN items : items[x] = Item(KeyAt(ps, inner, k), ValueAt(ps, inner, k))
<1> DEFINE key == KeyAt(ps, inner, k)
           d == Dict(items)
           at == CHOOSE x \in DOMAIN d.dict : d.dict[x].key = key
<1>1. d.dict = items
  BY DEF Dict
<1>2. \E x \in DOMAIN items : items[x].key = key
  BY DEF Collected
<1>3. HasKey(d, key)
  BY <1>1, <1>2 DEF HasKey
<1>4. at \in DOMAIN items /\ items[at].key = key
  BY <1>1, <1>2
<1>5. Get(d, key) = items[at].value
  BY <1>1, <1>3 DEF Get
<1> HIDE DEF at
<1>6. PICK h \in 1..m : /\ LastOf(ps, inner, m, h)
                        /\ items[at] = Item(KeyAt(ps, inner, h), ValueAt(ps, inner, h))
  BY <1>4 DEF Collected
<1>7. KeyAt(ps, inner, h) = key
  BY <1>4, <1>6 DEF Item
<1>8. h = k
  BY <1>6, <1>7 DEF LastOf
<1>9. items[at].value = ValueAt(ps, inner, k)
  BY <1>6, <1>8 DEF Item
<1> QED
  BY <1>3, <1>4, <1>5, <1>6, <1>8, <1>9

LEMMA LastExists ==
    ASSUME NEW ps, NEW inner, NEW m \in Nat, NEW n \in 1..m
    PROVE  \E k \in 1..m : LastOf(ps, inner, m, k) /\ KeyAt(ps, inner, k) = KeyAt(ps, inner, n)
<1> DEFINE T == {m - x : x \in {y \in 1..m : KeyAt(ps, inner, y) = KeyAt(ps, inner, n)}}
<1>1. T \subseteq Nat /\ m - n \in T
  OBVIOUS
<1>2. PICK t \in T : \A s \in T : t <= s
  BY <1>1, LeastNumber
<1>3. PICK k \in 1..m : KeyAt(ps, inner, k) = KeyAt(ps, inner, n) /\ t = m - k
  OBVIOUS
<1>4. ASSUME NEW x \in 1..m, x > k, KeyAt(ps, inner, x) = KeyAt(ps, inner, k)
      PROVE  FALSE
  <2>1. m - x \in T
    BY <1>3, <1>4
  <2> HIDE DEF T
  <2> QED
    BY <1>2, <1>3, <1>4, <2>1
<1> QED
  BY <1>3, <1>4 DEF LastOf

-----------------------------------------------------------------------------
(* The loader, node by node *)

\* The equations of construct and constructible.
Made(f, n) ==
    CASE n.tag = "" /\ IsScalarNode(n) -> n.scalar
      [] n.tag = "" /\ ~IsScalarNode(n) -> node_value(n, f)
      [] n.tag \in DOMAIN SHORT_TO_FULL -> intrinsic(SHORT_TO_FULL[n.tag], node_value(n, f))
      [] OTHER -> Dict(<<Item(Str(unknown(n.tag)), node_value(n, f))>>)
Makes(f, d) == f = [n \in Within[d] |-> Made(f, n)]

\* What is inside a node of a layer.
InsideOf(d) == IF d = 0 THEN {} ELSE Within[d - 1]

LEMMA Insides ==
    ASSUME NEW d \in 0..Room, NEW n \in Within[d]
    PROVE  /\ IsSequenceNode(n) =>
                 /\ ~IsScalarNode(n)
                 /\ Len(n.seq) \in Nat /\ DOMAIN n.seq = 1..Len(n.seq)
                 /\ \A x \in DOMAIN n.seq : n.seq[x] \in InsideOf(d)
           /\ ~IsScalarNode(n) /\ ~IsSequenceNode(n) =>
                 /\ Len(n.map) \in Nat /\ DOMAIN n.map = 1..Len(n.map)
                 /\ \A x \in DOMAIN n.map : n.map[x].key \in InsideOf(d) /\ n.map[x].value \in InsideOf(d)
           /\ IsScalarNode(n) => n \in ScalarNodes
<1>1. CASE n \in ScalarNodes
  BY <1>1, NodeKinds
<1>2. CASE d # 0 /\ n \in SequenceNodes(Within[d - 1])
  <2>1. IsSequenceNode(n) /\ ~IsScalarNode(n) /\ n.seq \in Seq(InsideOf(d))
    BY <1>2, NodeKinds DEF SequenceNodes, InsideOf
  <2>2. /\ Len(n.seq) \in Nat /\ DOMAIN n.seq = 1..Len(n.seq)
        /\ \A x \in 1..Len(n.seq) : n.seq[x] \in InsideOf(d)
    BY <2>1, LenProperties, ElementOfSeq
  <2> QED
    BY <2>1, <2>2
<1>3. CASE d # 0 /\ n \in MappingNodes(Within[d - 1])
  <2> DEFINE P == [key : InsideOf(d), value : InsideOf(d)]
  <2>1. ~IsSequenceNode(n) /\ ~IsScalarNode(n) /\ n.map \in Seq(P)
    BY <1>3, NodeKinds DEF MappingNodes, InsideOf
  <2> HIDE DEF P
  <2>2. /\ Len(n.map) \in Nat /\ DOMAIN n.map = 1..Len(n.map)
        /\ \A x \in 1..Len(n.map) : n.map[x] \in P
    BY <2>1, LenProperties, ElementOfSeq
  <2> QED
    BY <2>1, <2>2 DEF P
<1> QED
  BY <1>1, <1>2, <1>3, InnerNodes

LEMMA NodeValueAgrees ==
    ASSUME NEW d \in 0..Room, NEW n \in Within[d], NEW f, NEW g,
           \A c \in InsideOf(d) : f[c] = g[c]
    PROVE  node_value(n, f) = node_value(n, g)
<1>1. CASE IsScalarNode(n)
  BY <1>1, Insides DEF node_value
<1>2. CASE IsSequenceNode(n)
  <2>1. \A x \in DOMAIN n.seq : f[n.seq[x]] = g[n.seq[x]]
    BY <1>2, Insides
  <2>2. [x \in DOMAIN n.seq |-> f[n.seq[x]]] = [x \in DOMAIN n.seq |-> g[n.seq[x]]]
    BY <2>1
  <2>3. ~IsScalarNode(n)
    BY <1>2, Insides
  <2> QED
    BY <1>2, <2>2, <2>3 DEF node_value
<1>3. CASE ~IsScalarNode(n) /\ ~IsSequenceNode(n)
  <2>1. SameItems(n.map, f, n.map, g)
    BY <1>3, Insides DEF SameItems
  <2>2. construct_mapping(n.map, f) = construct_mapping(n.map, g)
    BY <2>1, MappingAgrees
  <2> QED
    BY <1>3, <2>2 DEF node_value
<1> QED
  BY <1>1, <1>2, <1>3

LEMMA MadeAgrees ==
    ASSUME NEW d \in 0..Room, NEW n \in Within[d], NEW f, NEW g,
           \A c \in InsideOf(d) : f[c] = g[c]
    PROVE  Made(f, n) = Made(g, n)
<1>1. node_value(n, f) = node_value(n, g)
  BY NodeValueAgrees
<1> QED
  BY <1>1 DEF Made

LEMMA MakesExist ==
    ASSUME NEW d \in 0..Room
    PROVE  \E f : Makes(f, d)
<1> DEFINE S == {k \in Nat : k <= Room => \E f : Makes(f, k)}
<1>1. 0 \in S
  <2> DEFINE f == [n \in Within[0] |-> Made(<< >>, n)]
  <2>1. 0 \in 0..Room
    BY RoomIsNumber
  <2>2. \A n \in Within[0] : Made(f, n) = Made(<< >>, n)
    <3> HIDE DEF f
    <3> QED
      BY <2>1, MadeAgrees DEF InsideOf
  <2>3. f = [n \in Within[0] |-> f[n]]
    OBVIOUS
  <2>4. \A n \in Within[0] : f[n] = Made(f, n)
    BY <2>2
  <2> HIDE DEF f
  <2>5. Makes(f, 0)
    BY <2>3, <2>4 DEF Makes
  <2> QED
    BY <2>5
<1>2. ASSUME NEW k \in Nat, k \in S
      PROVE  k + 1 \in S
  <2>1. ASSUME k + 1 <= Room
        PROVE  \E g : Makes(g, k + 1)
    <3>1. PICK f : Makes(f, k)
      BY <1>2, <2>1, RoomIsNumber
    <3> DEFINE g == [n \in Within[k + 1] |-> Made(f, n)]
    <3>2. k + 1 \in 0..Room /\ InsideOf(k + 1) = Within[k]
      BY <2>1, RoomIsNumber DEF InsideOf
    <3>3. \A n \in Within[k] : n \in Within[k + 1] /\ f[n] = Made(f, n)
      <4>1. Within[k] \subseteq Within[k + 1]
        BY <2>1, WithinGrows, RoomIsNumber
      <4> QED
        BY <3>1, <4>1 DEF Makes
    <3>4. \A n \in Within[k + 1] : g[n] = Made(f, n)
      OBVIOUS
    <3>5. g = [n \in Within[k + 1] |-> g[n]]
      OBVIOUS
    <3> HIDE DEF g
    <3>6. \A c \in InsideOf(k + 1) : f[c] = g[c]
      BY <3>2, <3>3, <3>4
    <3>7. \A n \in Within[k + 1] : Made(f, n) = Made(g, n)
      BY <3>2, <3>6, MadeAgrees
    <3>8. Makes(g, k + 1)
      BY <3>4, <3>5, <3>7 DEF Makes
    <3> QED
      BY <3>8
  <2> QED
    BY <2>1
<1> HIDE DEF S
<1>3. d \in S
  BY <1>1, <1>2, AllNumbers, RoomIsNumber
<1> QED
  BY <1>3, RoomIsNumber DEF S

LEMMA ConstructStep ==
    ASSUME NEW n \in Nodes
    PROVE  construct[n] = Made(construct, n)
<1>1. construct = CHOOSE f : Makes(f, Room)
  BY DEF construct, Makes, Made, Nodes
<1>2. Makes(construct, Room)
  <2>1. Room \in 0..Room
    BY RoomIsNumber
  <2> QED
    BY <1>1, <2>1, MakesExist
<1> QED
  BY <1>2 DEF Makes, Nodes

\* Whether there is a value.
Makeable(f, n) ==
    CASE IsScalarNode(n) -> TRUE
      [] IsSequenceNode(n) -> \A x \in DOMAIN n.seq : f[n.seq[x]]
      [] OTHER -> \A x \in DOMAIN n.map :
                     /\ f[n.map[x].key] /\ f[n.map[x].value]
                     /\ Hashable(construct[n.map[x].key])
Tells(f, d) == f = [n \in Within[d] |-> Makeable(f, n)]

LEMMA MakeableAgrees ==
    ASSUME NEW d \in 0..Room, NEW n \in Within[d], NEW f, NEW g,
           \A c \in InsideOf(d) : f[c] = g[c]
    PROVE  Makeable(f, n) = Makeable(g, n)
<1>1. CASE IsScalarNode(n)
  BY <1>1, Insides DEF Makeable
<1>2. CASE IsSequenceNode(n) /\ ~IsScalarNode(n)
  <2>1. \A x \in DOMAIN n.seq : f[n.seq[x]] = g[n.seq[x]]
    BY <1>2, Insides
  <2>2. (\A x \in DOMAIN n.seq : f[n.seq[x]]) = (\A x \in DOMAIN n.seq : g[n.seq[x]])
    BY <2>1
  <2> QED
    BY <1>2, <2>2 DEF Makeable
<1>3. CASE ~IsScalarNode(n) /\ ~IsSequenceNode(n)
  <2>1. \A x \in DOMAIN n.map :
            f[n.map[x].key] = g[n.map[x].key] /\ f[n.map[x].value] = g[n.map[x].value]
    BY <1>3, Insides
  <2> QED
    BY <1>3, <2>1 DEF Makeable
<1> QED
  BY <1>1, <1>2, <1>3, Insides

LEMMA TellsExist ==
    ASSUME NEW d \in 0..Room
    PROVE  \E f : Tells(f, d)
<1> DEFINE S == {k \in Nat : k <= Room => \E f : Tells(f, k)}
<1>1. 0 \in S
  <2> DEFINE f == [n \in Within[0] |-> Makeable(<< >>, n)]
  <2>1. 0 \in 0..Room
    BY RoomIsNumber
  <2>2. \A n \in Within[0] : Makeable(f, n) = Makeable(<< >>, n)
    <3> HIDE DEF f
    <3> QED
      BY <2>1, MakeableAgrees DEF InsideOf
  <2>3. f = [n \in Within[0] |-> f[n]]
    OBVIOUS
  <2>4. \A n \in Within[0] : f[n] = Makeable(f, n)
    BY <2>2
  <2> HIDE DEF f
  <2>5. Tells(f, 0)
    BY <2>3, <2>4 DEF Tells
  <2> QED
    BY <2>5
<1>2. ASSUME NEW k \in Nat, k \in S
      PROVE  k + 1 \in S
  <2>1. ASSUME k + 1 <= Room
        PROVE  \E g : Tells(g, k + 1)
    <3>1. PICK f : Tells(f, k)
      BY <1>2, <2>1, RoomIsNumber
    <3> DEFINE g == [n \in Within[k + 1] |-> Makeable(f, n)]
    <3>2. k + 1 \in 0..Room /\ InsideOf(k + 1) = Within[k]
      BY <2>1, RoomIsNumber DEF InsideOf
    <3>3. \A n \in Within[k] : n \in Within[k + 1] /\ f[n] = Makeable(f, n)
      <4>1. Within[k] \subseteq Within[k + 1]
        BY <2>1, WithinGrows, RoomIsNumber
      <4> QED
        BY <3>1, <4>1 DEF Tells
    <3>4. \A n \in Within[k + 1] : g[n] = Makeable(f, n)
      OBVIOUS
    <3>5. g = [n \in Within[k + 1] |-> g[n]]
      OBVIOUS
    <3> HIDE DEF g
    <3>6. \A c \in InsideOf(k + 1) : f[c] = g[c]
      BY <3>2, <3>3, <3>4
    <3>7. \A n \in Within[k + 1] : Makeable(f, n) = Makeable(g, n)
      BY <3>2, <3>6, MakeableAgrees
    <3>8. Tells(g, k + 1)
      BY <3>4, <3>5, <3>7 DEF Tells
    <3> QED
      BY <3>8
  <2> QED
    BY <2>1
<1> HIDE DEF S
<1>3. d \in S
  BY <1>1, <1>2, AllNumbers, RoomIsNumber
<1> QED
  BY <1>3, RoomIsNumber DEF S

LEMMA ConstructibleStep ==
    ASSUME NEW n \in Nodes
    PROVE  constructible[n] = Makeable(constructible, n)
<1>1. constructible = CHOOSE f : Tells(f, Room)
  BY DEF constructible, Tells, Makeable, Nodes
<1>2. Tells(constructible, Room)
  <2>1. Room \in 0..Room
    BY RoomIsNumber
  <2> QED
    BY <1>1, <2>1, TellsExist
<1> QED
  BY <1>2 DEF Tells, Nodes

-----------------------------------------------------------------------------
(* The values of documents *)

PyValues == {construct[n] : n \in Nodes}

\* Where the nodes inside a node of a document are.
LEMMA InsideIsNode ==
    /\ Nodes = Within[Room] /\ Room \in 0..Room
    /\ InsideOf(Room) \subseteq Nodes
<1>1. Room \in 0..Room /\ Room # 0 /\ Room - 1 \in 0..Room /\ Room - 1 <= Room
  BY RoomIsNumber
<1>2. Within[Room - 1] \subseteq Within[Room]
  BY <1>1, WithinGrows
<1> QED
  BY <1>1, <1>2 DEF Nodes, InsideOf

LEMMA ScalarsAreNodes ==
    /\ \A d \in 0..Room : ScalarNodes \subseteq Within[d]
    /\ ScalarNodes \subseteq Nodes
    /\ \A s \in STRING : Plain(s) \in ScalarNodes
<1>1. \A s \in STRING : Plain(s) \in ScalarNodes
  BY DEF Plain, ScalarNodes, NodeTags, Scalars, Str
<1> QED
  BY <1>1, WithinScalars, InsideIsNode

\* The full names are strings, and a node without a tag is not read as one.
LEMMA NamesAreStrings ==
    /\ \A tag \in DOMAIN SHORT_TO_FULL : SHORT_TO_FULL[tag] \in STRING
    /\ "" \notin DOMAIN SHORT_TO_FULL
<1>1. "" \notin DOMAIN SHORT_TO_FULL
  BY DEF SHORT_TO_FULL
<1> QED
  BY <1>1, LoaderAssumption

LEMMA NodeTag ==
    ASSUME NEW n \in Nodes
    PROVE  n.tag \in NodeTags
<1>1. n.tag \in NodeTags \/ n \in ScalarNodes \/ n \in SequenceNodes(Within[Room - 1])
         \/ n \in MappingNodes(Within[Room - 1])
  BY InsideIsNode, InnerNodes
<1> QED
  BY <1>1 DEF ScalarNodes, SequenceNodes, MappingNodes

\* The cases of the two definitions.
LEMMA MadeCases ==
    ASSUME NEW n, NEW f
    PROVE  /\ n.tag = "" /\ IsScalarNode(n) => Made(f, n) = n.scalar
           /\ n.tag = "" /\ ~IsScalarNode(n) => Made(f, n) = node_value(n, f)
           /\ n.tag # "" /\ n.tag \in DOMAIN SHORT_TO_FULL =>
                 Made(f, n) = intrinsic(SHORT_TO_FULL[n.tag], node_value(n, f))
           /\ n.tag # "" /\ n.tag \notin DOMAIN SHORT_TO_FULL =>
                 Made(f, n) = Dict(<<Item(Str(unknown(n.tag)), node_value(n, f))>>)
BY NamesAreStrings DEF Made

LEMMA NodeValueCases ==
    ASSUME NEW n, NEW f
    PROVE  /\ IsScalarNode(n) /\ ~IsSequenceNode(n) => node_value(n, f) = Str(n.text)
           /\ ~IsScalarNode(n) /\ IsSequenceNode(n) =>
                 node_value(n, f) = List([x \in DOMAIN n.seq |-> f[n.seq[x]]])
           /\ ~IsScalarNode(n) /\ ~IsSequenceNode(n) =>
                 node_value(n, f) = construct_mapping(n.map, f)
BY DEF node_value

\* What tells whether a node has a value.
LEMMA ConstructibleCases ==
    ASSUME NEW n \in Nodes
    PROVE  /\ IsScalarNode(n) => constructible[n]
           /\ ~IsScalarNode(n) /\ IsSequenceNode(n) =>
                 (constructible[n] <=> \A x \in DOMAIN n.seq : constructible[n.seq[x]])
           /\ ~IsScalarNode(n) /\ ~IsSequenceNode(n) =>
                 (constructible[n] <=> \A x \in DOMAIN n.map :
                                          /\ constructible[n.map[x].key]
                                          /\ constructible[n.map[x].value]
                                          /\ Hashable(construct[n.map[x].key]))
<1>1. constructible[n] = Makeable(constructible, n)
  BY ConstructibleStep
<1>2. ASSUME IsScalarNode(n)
      PROVE  constructible[n]
  <2>1. Makeable(constructible, n)
    BY <1>2, InsideIsNode, Insides DEF Makeable
  <2> QED
    BY <1>1, <2>1
<1>3. ~IsScalarNode(n) /\ IsSequenceNode(n) =>
          (constructible[n] <=> \A x \in DOMAIN n.seq : constructible[n.seq[x]])
  BY <1>1 DEF Makeable
<1>4. ~IsScalarNode(n) /\ ~IsSequenceNode(n) =>
          (constructible[n] <=> \A x \in DOMAIN n.map :
                                   /\ constructible[n.map[x].key]
                                   /\ constructible[n.map[x].value]
                                   /\ Hashable(construct[n.map[x].key]))
  BY <1>1 DEF Makeable
<1> QED
  BY <1>2, <1>3, <1>4

LEMMA ScalarValue ==
    ASSUME NEW n \in ScalarNodes
    PROVE  /\ n.tag = "" => construct[n] = n.scalar
           /\ n.tag # "" => construct[n] =
                IF n.tag \in DOMAIN SHORT_TO_FULL THEN intrinsic(SHORT_TO_FULL[n.tag], Str(n.text))
                ELSE Dict(<<Item(Str(unknown(n.tag)), Str(n.text))>>)
<1>1. n \in Nodes /\ IsScalarNode(n) /\ ~IsSequenceNode(n)
  BY ScalarsAreNodes, NodeKinds
<1>2. construct[n] = Made(construct, n)
  BY <1>1, ConstructStep
<1>3. node_value(n, construct) = Str(n.text)
  BY <1>1, NodeValueCases
<1> QED
  BY <1>1, <1>2, <1>3, MadeCases

LEMMA StrIsValue ==
    ASSUME NEW s \in STRING
    PROVE  Str(s) \in PyValues /\ construct[Plain(s)] = Str(s)
<1>1. Plain(s) \in ScalarNodes /\ Plain(s).tag = "" /\ Plain(s).scalar = Str(s)
  BY ScalarsAreNodes DEF Plain
<1>2. construct[Plain(s)] = Str(s)
  BY <1>1, ScalarValue
<1> QED
  BY <1>1, <1>2, ScalarsAreNodes DEF PyValues

\* A list of the values of nodes one level down, and a dict.
LEMMA SequenceValue ==
    ASSUME NEW n \in Nodes, IsSequenceNode(n)
    PROVE  /\ node_value(n, construct) = List([x \in DOMAIN n.seq |-> construct[n.seq[x]]])
           /\ [x \in DOMAIN n.seq |-> construct[n.seq[x]]] \in Seq(PyValues)
           /\ Len([x \in DOMAIN n.seq |-> construct[n.seq[x]]]) = Len(n.seq)
<1> DEFINE s == [x \in DOMAIN n.seq |-> construct[n.seq[x]]]
<1>1. /\ ~IsScalarNode(n) /\ Len(n.seq) \in Nat /\ DOMAIN n.seq = 1..Len(n.seq)
      /\ \A x \in DOMAIN n.seq : n.seq[x] \in Nodes
  BY InsideIsNode, Insides
<1>2. s \in [1..Len(n.seq) -> PyValues]
  BY <1>1 DEF PyValues
<1>3. s \in Seq(PyValues) /\ Len(s) = Len(n.seq)
  BY <1>1, <1>2, FunctionIsSeq
<1> QED
  BY <1>1, <1>3, NodeValueCases

LEMMA MapValue ==
    ASSUME NEW n \in Nodes, ~IsScalarNode(n), ~IsSequenceNode(n)
    PROVE  /\ Len(n.map) \in Nat
           /\ \E items \in Seq([key : PyValues, value : PyValues]) :
                 /\ node_value(n, construct) = Dict(items)
                 /\ Collected(items, n.map, construct, Len(n.map))
<1>1. /\ Len(n.map) \in Nat /\ DOMAIN n.map = 1..Len(n.map)
      /\ \A x \in DOMAIN n.map : n.map[x].key \in Nodes /\ n.map[x].value \in Nodes
  BY InsideIsNode, Insides
<1>2. \A x \in 1..Len(n.map) : /\ KeyAt(n.map, construct, x) \in PyValues
                               /\ ValueAt(n.map, construct, x) \in PyValues
  BY <1>1 DEF PyValues, KeyAt, ValueAt
<1>3. \E items \in Seq([key : PyValues, value : PyValues]) :
         /\ construct_mapping(n.map, construct) = Dict(items)
         /\ Collected(items, n.map, construct, Len(n.map))
  BY <1>1, <1>2, MappingFacts
<1>4. node_value(n, construct) = construct_mapping(n.map, construct)
  BY NodeValueCases
<1> QED
  BY <1>1, <1>3, <1>4

\* Only a scalar is text.
LEMMA TextIsScalar ==
    ASSUME NEW n \in Nodes, IsStr(node_value(n, construct))
    PROVE  IsScalarNode(n)
<1> DEFINE v == node_value(n, construct)
           listed == [x \in DOMAIN n.seq |-> construct[n.seq[x]]]
<1>1. \A x : ~IsStr(List(x)) /\ ~IsStr(Dict(x))
  BY DEF List, Dict, IsStr
<1>2. ASSUME IsSequenceNode(n)
      PROVE  FALSE
  <2>1. v = List(listed)
    BY <1>2, SequenceValue
  <2> HIDE DEF v, listed
  <2> QED
    BY <1>1, <2>1 DEF v
<1>3. ASSUME ~IsScalarNode(n), ~IsSequenceNode(n)
      PROVE  FALSE
  <2>1. \E items : v = Dict(items)
    BY <1>3, MapValue
  <2> HIDE DEF v
  <2> QED
    BY <1>1, <2>1 DEF v
<1> QED
  BY <1>2, <1>3

\* A node without its tag, when it is not a scalar, is a node with the same inside.
Retagged(m, n, d, t) ==
    /\ m \in Within[d] /\ m.tag = t /\ ~IsScalarNode(m)
    /\ IsSequenceNode(m) <=> IsSequenceNode(n)
    /\ IsSequenceNode(n) => m.seq = n.seq
    /\ ~IsSequenceNode(n) => m.map = n.map
    /\ \A f : node_value(m, f) = node_value(n, f)

LEMMA Untagging ==
    ASSUME NEW d \in 0..Room, NEW n \in Within[d], ~IsScalarNode(n), NEW t \in NodeTags
    PROVE  Retagged([n EXCEPT !.tag = t], n, d, t)
<1> DEFINE m == [n EXCEPT !.tag = t]
<1>1. CASE d # 0 /\ n \in SequenceNodes(Within[d - 1])
  <2>1. m \in SequenceNodes(Within[d - 1]) /\ m.tag = t /\ m.seq = n.seq
    BY <1>1 DEF SequenceNodes
  <2> HIDE DEF m
  <2>2. m \in Within[d]
    BY <1>1, <2>1, NodeAround
  <2>3. /\ IsSequenceNode(m) /\ IsSequenceNode(n) /\ ~IsScalarNode(m)
    BY <1>1, <2>1, NodeKinds
  <2>4. \A f : node_value(m, f) = node_value(n, f)
    BY <2>1, <2>3, NodeValueCases
  <2> QED
    BY <2>1, <2>2, <2>3, <2>4 DEF Retagged, m
<1>2. CASE d # 0 /\ n \in MappingNodes(Within[d - 1])
  <2>1. m \in MappingNodes(Within[d - 1]) /\ m.tag = t /\ m.map = n.map
    BY <1>2 DEF MappingNodes
  <2> HIDE DEF m
  <2>2. m \in Within[d]
    BY <1>2, <2>1, NodeAround
  <2>3. /\ ~IsSequenceNode(m) /\ ~IsSequenceNode(n) /\ ~IsScalarNode(m)
    BY <1>2, <2>1, NodeKinds
  <2>4. \A f : node_value(m, f) = node_value(n, f)
    BY <2>1, <2>3, NodeValueCases
  <2> QED
    BY <2>1, <2>2, <2>3, <2>4 DEF Retagged, m
<1>3. n \notin ScalarNodes
  BY NodeKinds
<1> QED
  BY <1>1, <1>2, <1>3, InnerNodes

LEMMA NodeValueIsValue ==
    ASSUME NEW n \in Nodes
    PROVE  node_value(n, construct) \in PyValues
<1>1. CASE IsScalarNode(n)
  <2>1. n \in ScalarNodes
    BY <1>1, Insides, InsideIsNode
  <2>2. n.text \in STRING /\ ~IsSequenceNode(n)
    BY <2>1, NodeKinds DEF ScalarNodes
  <2> QED
    BY <1>1, <2>2, StrIsValue, NodeValueCases
<1>2. CASE ~IsScalarNode(n)
  <2> DEFINE m == [n EXCEPT !.tag = ""]
  <2>1. "" \in NodeTags
    BY DEF NodeTags
  <2>2. m \in Nodes /\ m.tag = "" /\ ~IsScalarNode(m) /\ node_value(m, construct) = node_value(n, construct)
    <3>1. Room \in 0..Room /\ n \in Within[Room]
      BY InsideIsNode
    <3>2. Retagged(m, n, Room, "")
      BY <1>2, <2>1, <3>1, Untagging
    <3> HIDE DEF m
    <3> QED
      BY <3>2, InsideIsNode DEF Retagged
  <2> HIDE DEF m
  <2>3. construct[m] = node_value(n, construct)
    BY <2>2, ConstructStep, MadeCases
  <2> QED
    BY <2>2, <2>3 DEF PyValues
<1> QED
  BY <1>1, <1>2

\* The two parts of a scalar text, split at its first dot.
LEMMA PartsAreStrings ==
    ASSUME NEW text \in STRING
    PROVE  /\ partition(text)[1] \in STRING /\ partition(text)[2] \in STRING
<1>1. ASSUME NEW p \in STRING \X STRING
      PROVE  p[1] \in STRING /\ p[2] \in STRING
  OBVIOUS
<1>2. CASE text \in DOMAIN Dotted
  BY <1>1, <1>2, LoaderAssumption DEF partition
<1>3. CASE text \notin DOMAIN Dotted
  <2>1. <<text, "">> \in STRING \X STRING
    BY LoaderAssumption
  <2> QED
    BY <1>1, <1>3, <2>1 DEF partition
<1> QED
  BY <1>2, <1>3

\* The list a dotted scalar is spelled out as.
LEMMA AttributeNode ==
    ASSUME NEW text \in STRING
    PROVE  /\ Attribute(text) \in Within[1] /\ Attribute(text) \in Nodes
           /\ constructible[Attribute(text)]
           /\ construct[Attribute(text)] = List([x \in 1..2 |-> Str(partition(text)[x])])
<1> DEFINE s == [x \in 1..2 |-> Plain(partition(text)[x])]
           n == [tag |-> "", seq |-> s]
<1>1. \A x \in 1..2 : partition(text)[x] \in STRING
  <2>1. \A x \in 1..2 : x = 1 \/ x = 2
    OBVIOUS
  <2> QED
    BY <2>1, PartsAreStrings
<1>2. \A x \in 1..2 : s[x] \in ScalarNodes /\ construct[s[x]] = Str(partition(text)[x])
  BY <1>1, ScalarsAreNodes, StrIsValue
<1>3. s \in Seq(Within[0]) /\ DOMAIN s = 1..2
  <2>1. 0 \in 0..Room /\ 2 \in Nat
    BY RoomIsNumber
  <2>2. \A x \in 1..2 : s[x] \in Within[0]
    BY <1>2, <2>1, ScalarsAreNodes
  <2>3. s \in [1..2 -> Within[0]]
    BY <2>2
  <2> QED
    BY <2>1, <2>3, FunctionIsSeq
<1>4. n = Attribute(text)
  BY DEF Attribute
<1> HIDE DEF s
<1>5. n \in SequenceNodes(Within[0]) /\ n.tag = "" /\ n.seq = s
  BY <1>3 DEF SequenceNodes, NodeTags
<1> HIDE DEF n
<1>6. n \in Within[1] /\ n \in Nodes /\ IsSequenceNode(n) /\ ~IsScalarNode(n)
  <2>1. 1 \in 0..Room /\ Room \in 0..Room /\ 1 # 0 /\ 1 - 1 = 0 /\ 1 <= Room
    BY RoomIsNumber
  <2>2. n \in Within[1] /\ IsSequenceNode(n) /\ ~IsScalarNode(n)
    BY <1>5, <2>1, NodeAround
  <2>3. Within[1] \subseteq Within[Room]
    BY <2>1, WithinGrows
  <2> QED
    BY <2>2, <2>3 DEF Nodes
<1> DEFINE t == [x \in DOMAIN s |-> construct[s[x]]]
<1>8. construct[n] = List(t)
  BY <1>5, <1>6, SequenceValue, ConstructStep, MadeCases
<1>9. t = [x \in 1..2 |-> Str(partition(text)[x])]
  BY <1>2, <1>3
<1> HIDE DEF t
<1>10. constructible[n]
  <2>1. \A x \in 1..2 : constructible[s[x]]
    <3>1. \A c \in ScalarNodes : c \in Nodes /\ IsScalarNode(c)
      BY ScalarsAreNodes, NodeKinds
    <3> QED
      BY <1>2, <3>1, ConstructibleCases
  <2> QED
    BY <1>3, <1>5, <1>6, <2>1, ConstructibleCases
<1> QED
  BY <1>4, <1>6, <1>8, <1>9, <1>10

\* A value of one of the kinds, made of values.
WellMade(v) ==
    /\ IsStr(v) => v \in [str : STRING]
    /\ "int" \in DOMAIN v => v \in [int : Int]
    /\ "bool" \in DOMAIN v => v \in [bool : BOOLEAN]
    /\ IsList(v) => v \in [list : Seq(PyValues)]
    /\ IsDict(v) => v \in [dict : Seq([key : PyValues, value : PyValues])]

LEMMA KindsWellMade ==
    /\ \A v \in Scalars : WellMade(v)
    /\ \A s \in Seq(PyValues) : WellMade(List(s))
    /\ \A items \in Seq([key : PyValues, value : PyValues]) : WellMade(Dict(items))
<1>1. \A v \in Scalars : WellMade(v)
  BY DEF Scalars, WellMade, IsStr, IsList, IsDict, None
<1>2. ASSUME NEW s \in Seq(PyValues)
      PROVE  WellMade(List(s))
  <2>1. List(s) \in [list : Seq(PyValues)] /\ DOMAIN List(s) = {"list"}
    BY DEF List
  <2> QED
    BY <2>1 DEF WellMade, IsStr, IsList, IsDict
<1>3. ASSUME NEW items \in Seq([key : PyValues, value : PyValues])
      PROVE  WellMade(Dict(items))
  <2> DEFINE P == Seq([key : PyValues, value : PyValues])
  <2>1. Dict(items) \in [dict : P] /\ DOMAIN Dict(items) = {"dict"}
    BY DEF Dict
  <2> HIDE DEF P
  <2>2. /\ ~IsStr(Dict(items)) /\ "int" \notin DOMAIN Dict(items)
        /\ "bool" \notin DOMAIN Dict(items) /\ ~IsList(Dict(items))
    BY <2>1 DEF IsStr, IsList
  <2> QED
    BY <2>1, <2>2 DEF WellMade, P
<1> QED
  BY <1>1, <1>2, <1>3

LEMMA OneItem ==
    ASSUME NEW key \in PyValues, NEW value \in PyValues
    PROVE  <<Item(key, value)>> \in Seq([key : PyValues, value : PyValues])
<1>1. Item(key, value) \in [key : PyValues, value : PyValues]
  BY DEF Item
<1> QED
  BY <1>1

LEMMA ConstructWellMade ==
    ASSUME NEW n \in Nodes
    PROVE  WellMade(construct[n])
<1> DEFINE v == node_value(n, construct)
<1>1. construct[n] = Made(construct, n)
  BY ConstructStep
<1>2. v \in PyValues
  BY NodeValueIsValue
<1>3. IsScalarNode(n) => n.scalar \in Scalars /\ n.text \in STRING /\ ~IsSequenceNode(n)
  <2>1. IsScalarNode(n) => n \in ScalarNodes
    BY InsideIsNode, Insides
  <2> QED
    BY <2>1, NodeKinds DEF ScalarNodes
<1>4. CASE n.tag = "" /\ IsScalarNode(n)
  BY <1>1, <1>3, <1>4, KindsWellMade, MadeCases
<1>5. CASE n.tag = "" /\ ~IsScalarNode(n)
  <2>1. construct[n] = v
    BY <1>1, <1>5, MadeCases
  <2>2. WellMade(v)
    <3>1. CASE IsSequenceNode(n)
      BY <3>1, SequenceValue, KindsWellMade
    <3>2. CASE ~IsSequenceNode(n)
      BY <1>5, <3>2, MapValue, KindsWellMade
    <3> QED
      BY <3>1, <3>2
  <2> QED
    BY <2>1, <2>2
<1>6. CASE n.tag # "" /\ n.tag \in DOMAIN SHORT_TO_FULL
  <2> DEFINE full == SHORT_TO_FULL[n.tag]
             text == v.str
  <2>1. construct[n] = intrinsic(full, v)
    BY <1>1, <1>6, MadeCases
  <2>2. Str(full) \in PyValues
    BY <1>6, NamesAreStrings, StrIsValue
  <2>3. IsStr(v) => IsScalarNode(n)
    BY TextIsScalar
  <2>4. IsStr(v) => text \in STRING
    <3>1. IsScalarNode(n) => v = Str(n.text)
      BY <1>3, NodeValueCases
    <3> HIDE DEF v
    <3> QED
      BY <1>3, <2>3, <3>1 DEF Str
  <2> HIDE DEF full, v
  <2>5. \E value \in PyValues : intrinsic(full, v) = Dict(<<Item(Str(full), value)>>)
    <3>1. CASE full = "Fn::GetAtt" /\ IsStr(v)
      <4>1. List([x \in 1..2 |-> Str(partition(text)[x])]) \in PyValues
        BY <2>4, <3>1, AttributeNode DEF PyValues
      <4> QED
        BY <3>1, <4>1 DEF intrinsic
    <3>2. CASE ~(full = "Fn::GetAtt" /\ IsStr(v))
      BY <1>2, <3>2 DEF intrinsic
    <3> QED
      BY <3>1, <3>2
  <2> QED
    BY <2>1, <2>2, <2>5, OneItem, KindsWellMade
<1>7. CASE n.tag # "" /\ n.tag \notin DOMAIN SHORT_TO_FULL
  <2>1. construct[n] = Dict(<<Item(Str(unknown(n.tag)), v)>>)
    BY <1>1, <1>7, MadeCases
  <2>2. unknown(n.tag) \in STRING
    BY <1>7, NodeTag, LoaderAssumption DEF NodeTags
  <2> QED
    BY <1>2, <2>1, <2>2, StrIsValue, OneItem, KindsWellMade
<1> QED
  BY <1>4, <1>5, <1>6, <1>7

LEMMA NoneIsValue == None \in PyValues /\ Dict(<< >>) \in PyValues
<1>1. None \in PyValues
  <2> DEFINE n == [tag |-> "", scalar |-> None, text |-> ""]
  <2>1. n \in ScalarNodes /\ n.tag = "" /\ n.scalar = None
    <3>1. None \in Scalars /\ "" \in NodeTags
      BY DEF Scalars, NodeTags
    <3> QED
      BY <3>1, LoaderAssumption DEF ScalarNodes
  <2> HIDE DEF n
  <2>2. construct[n] = None
    BY <2>1, ScalarValue
  <2> QED
    BY <2>1, <2>2, ScalarsAreNodes DEF PyValues
<1>2. Dict(<< >>) \in PyValues
  <2> DEFINE P == [key : Within[Room - 1], value : Within[Room - 1]]
             n == [tag |-> "", map |-> << >>]
  <2>1. << >> \in Seq(P) /\ Len(<< >>) = 0 /\ DOMAIN << >> = {} /\ 1..0 = {}
    BY EmptySeq
  <2>2. n \in MappingNodes(Within[Room - 1]) /\ n.tag = "" /\ n.map = << >>
    BY <2>1 DEF MappingNodes, NodeTags
  <2> HIDE DEF n
  <2>3. n \in Nodes /\ ~IsSequenceNode(n) /\ ~IsScalarNode(n)
    <3>1. Room \in 0..Room /\ Room # 0
      BY RoomIsNumber
    <3> QED
      BY <2>2, <3>1, NodeAround DEF Nodes
  <2>5. PICK items \in Seq([key : PyValues, value : PyValues]) :
            node_value(n, construct) = Dict(items) /\ Collected(items, << >>, construct, 0)
    BY <2>1, <2>2, <2>3, MapValue
  <2>6. items = << >>
    <3>1. Len(items) \in Nat /\ DOMAIN items = 1..Len(items) /\ \A x \in DOMAIN items : FALSE
      BY <2>1, <2>5 DEF Collected
    <3> QED
      BY <3>1, EmptySeq
  <2>7. construct[n] = Dict(<< >>)
    BY <2>2, <2>3, <2>5, <2>6, ConstructStep, MadeCases
  <2> QED
    BY <2>3, <2>7 DEF PyValues
<1> QED
  BY <1>1, <1>2

-----------------------------------------------------------------------------
(* The document of an author *)

Entries == [key : Ids, value : Bodies]

\* The two mappings of the author's document.
LEMMA DocumentNodes ==
    ASSUME NEW es \in Seq(Entries)
    PROVE  LET top == <<Pair(Plain("Description"), Plain("x")), Pair(Plain("Resources"), Mapping(es))>>
           IN  /\ Len(es) \in Nat /\ DOMAIN es = 1..Len(es)
               /\ \A n \in DOMAIN es : es[n].key \in Nodes /\ es[n].value \in Nodes
               /\ Mapping(es) \in MappingNodes(Within[Depth - 2]) /\ Mapping(es) \in Nodes
               /\ Document(es) \in MappingNodes(Within[Depth - 1])
               /\ Document(es) \in Within[Depth] /\ Document(es) \in Nodes
               /\ Document(es) = Mapping(top)
               /\ Len(top) = 2 /\ DOMAIN top = {1, 2}
               /\ top[1].key = Plain("Description") /\ top[1].value = Plain("x")
               /\ top[2].key = Plain("Resources") /\ top[2].value = Mapping(es)
<1> DEFINE low == Within[Depth - 2]
           mid == Within[Depth - 1]
           p1 == Pair(Plain("Description"), Plain("x"))
           p2 == Pair(Plain("Resources"), Mapping(es))
           top == <<p1, p2>>
           T == [key : mid, value : mid]
<1>1. /\ Depth - 2 \in 0..Room /\ Depth - 1 \in 0..Room /\ Depth \in 0..Room
      /\ Depth - 1 # 0 /\ Depth # 0 /\ (Depth - 1) - 1 = Depth - 2
  BY RoomIsNumber, AuthorAssumption
<1>2. low \subseteq mid /\ mid \subseteq Within[Depth] /\ low \subseteq Nodes /\ Within[Depth] \subseteq Nodes
  BY <1>1, WithinGrows, RoomIsNumber DEF Nodes
<1>3. Entries \subseteq [key : low, value : low]
  BY AuthorAssumption DEF Entries
<1>4. es \in Seq([key : low, value : low])
  BY <1>3, SeqGrows
<1>5. /\ Len(es) \in Nat /\ DOMAIN es = 1..Len(es)
      /\ \A n \in 1..Len(es) : es[n] \in [key : low, value : low]
  BY <1>4, LenProperties, ElementOfSeq
<1>6. Mapping(es) \in MappingNodes(low)
  BY <1>4 DEF Mapping, MappingNodes, NodeTags
<1>7. Mapping(es) \in mid
  BY <1>1, <1>6, NodeAround
<1>8. Plain("Description") \in mid /\ Plain("Resources") \in mid /\ Plain("x") \in mid
  BY <1>1, AuthorAssumption, ScalarsAreNodes
<1> HIDE DEF mid, low
<1>9. /\ p1 \in T /\ p1.key = Plain("Description") /\ p1.value = Plain("x")
      /\ p2 \in T /\ p2.key = Plain("Resources") /\ p2.value = Mapping(es)
  BY <1>7, <1>8 DEF Pair
<1> HIDE DEF p1, p2, T
<1>10. top \in Seq(T) /\ Len(top) = 2 /\ DOMAIN top = {1, 2} /\ top[1] = p1 /\ top[2] = p2
  BY <1>9
<1>11. Document(es) = Mapping(top)
  BY DEF Document, p1, p2
<1> HIDE DEF top
<1>12. Document(es) \in MappingNodes(mid)
  <2>1. top \in Seq([key : mid, value : mid])
    BY <1>10 DEF T
  <2>2. "" \in NodeTags
    BY DEF NodeTags
  <2>3. \A ps \in Seq([key : mid, value : mid]) : Mapping(ps) \in MappingNodes(mid)
    BY <2>2 DEF Mapping, MappingNodes
  <2> QED
    BY <1>11, <2>1, <2>3
<1>13. Document(es) \in Within[Depth]
  BY <1>1, <1>12, NodeAround DEF mid
<1> QED
  BY <1>2, <1>5, <1>6, <1>7, <1>9, <1>10, <1>11, <1>12, <1>13 DEF mid, low, top, p1, p2

-----------------------------------------------------------------------------
(* Values, and what the checks make of them *)

Items == [key : PyValues, value : PyValues]
Resources == {r \in [logical_id : STRING, type : STRING \ {""}, properties : PyValues] :
                 IsDict(r.properties)}
Findings == [rule_id : RuleIds, severity : SEVERITIES, resource_logical_id : STRING]

LEMMA PyValue ==
    ASSUME NEW v \in PyValues
    PROVE  /\ IsStr(v) => v \in [str : STRING]
           /\ IsList(v) => v \in [list : Seq(PyValues)]
           /\ IsDict(v) => v \in [dict : Seq(Items)]
           /\ "int" \in DOMAIN v => v \in [int : Int]
           /\ "bool" \in DOMAIN v => v \in [bool : BOOLEAN]
<1>1. WellMade(v)
  BY ConstructWellMade DEF PyValues
<1> QED
  BY <1>1 DEF WellMade, Items

\* None is of no kind that is looked into.
LEMMA NoneFacts ==
    /\ ~IsStr(None) /\ ~IsList(None) /\ ~IsDict(None) /\ Hashable(None)
    /\ literal_or_none(None) = None
    /\ \A s : None # Str(s)
    /\ \A b : None # Bool(b)
<1>1. DOMAIN None = {"none"}
  BY DEF None
<1>2. ~IsStr(None) /\ ~IsList(None) /\ ~IsDict(None)
  BY <1>1 DEF IsStr, IsList, IsDict
<1>3. Hashable(None)
  BY <1>2 DEF Hashable
<1>4. literal_or_none(None) = None
  BY <1>2 DEF literal_or_none, is_intrinsic
<1>5. \A s : DOMAIN Str(s) = {"str"}
  BY DEF Str
<1>6. \A b : DOMAIN Bool(b) = {"bool"}
  BY DEF Bool
<1>7. \A s : None # Str(s)
  BY <1>1, <1>5
<1>8. \A b : None # Bool(b)
  BY <1>1, <1>6
<1> QED
  BY <1>2, <1>3, <1>4, <1>7, <1>8

LEMMA GetIsValue ==
    ASSUME NEW d \in PyValues, IsDict(d), NEW key
    PROVE  Get(d, key) \in PyValues
<1> DEFINE at == CHOOSE n \in DOMAIN d.dict : d.dict[n].key = key
<1>1. d.dict \in Seq(Items)
  BY PyValue
<1>2. CASE HasKey(d, key)
  <2>1. at \in DOMAIN d.dict
    BY <1>2 DEF HasKey
  <2>2. Get(d, key) = d.dict[at].value
    BY <1>2 DEF Get
  <2> HIDE DEF at
  <2>3. d.dict[at] \in Items
    BY <1>1, <2>1
  <2> QED
    BY <2>2, <2>3 DEF Items
<1>3. CASE ~HasKey(d, key)
  BY <1>3, NoneIsValue DEF Get
<1> QED
  BY <1>2, <1>3

LEMMA LiteralIsValue ==
    ASSUME NEW v \in PyValues
    PROVE  literal_or_none(v) \in PyValues
BY NoneIsValue DEF literal_or_none

LEMMA PropertyIsValue ==
    ASSUME NEW r \in Resources, NEW name
    PROVE  Property(r, name) \in PyValues /\ Literal(r, name) \in PyValues
<1>1. Property(r, name) \in PyValues
  BY GetIsValue DEF Property, Resources
<1> QED
  BY <1>1, LiteralIsValue DEF Literal

LEMMA AsListIsSeq ==
    ASSUME NEW v \in PyValues
    PROVE  as_list(v) \in Seq(PyValues)
BY PyValue DEF as_list

\* The positions of a sequence, and some of them, are finitely many.
LEMMA Positions ==
    ASSUME NEW T, NEW s \in Seq(T), NEW K \in SUBSET DOMAIN s
    PROVE  IsFiniteSet(K) /\ Cardinality(K) \in Nat
<1>1. K \in SUBSET (1..Len(s)) /\ 1 \in Int /\ Len(s) \in Int
  BY LenProperties
<1> QED
  BY <1>1, FS_Interval, FS_Subset, FS_CardinalityType

\* kept takes each of the positions once.
LEMMA KeptPlaces ==
    ASSUME NEW T, NEW s \in Seq(T), NEW K \in SUBSET DOMAIN s
    PROVE  \E place \in [1..Cardinality(K) -> K] :
              /\ \A m, n \in 1..Cardinality(K) : place[m] = place[n] => m = n
              /\ \A k \in K : \E n \in 1..Cardinality(K) : place[n] = k
              /\ kept(s, K) = [n \in 1..Cardinality(K) |-> s[place[n]]]
<1> DEFINE order == {pair \in K \X K : pair[1] < pair[2]}
           place == Ranked(K, order)
<1>1. Len(s) \in Nat /\ DOMAIN s = 1..Len(s) /\ IsFiniteSet(K)
  BY LenProperties, Positions
<1>2. K \subseteq Nat
  BY <1>1
<1>3. StrictlyOrders(order, K)
  <2>1. \A x, y \in K : <<x, y>> \in order <=> x < y
    OBVIOUS
  <2> HIDE DEF order
  <2>2. \A x \in K : <<x, x>> \notin order
    BY <1>2, <2>1
  <2>3. \A x, y \in K : x # y => <<x, y>> \in order \/ <<y, x>> \in order
    BY <1>2, <2>1
  <2>4. \A x, y, z \in K : <<x, y>> \in order /\ <<y, z>> \in order => <<x, z>> \in order
    BY <1>2, <2>1
  <2> QED
    BY <2>2, <2>3, <2>4 DEF StrictlyOrders
<1>4. kept(s, K) = [n \in DOMAIN place |-> s[place[n]]]
  BY DEF kept
<1> HIDE DEF order
<1>5. /\ DOMAIN place = 1..Cardinality(K)
      /\ \A n \in 1..Cardinality(K) : place[n] \in K
  BY <1>1, <1>3, RankedFacts
<1>6. place = [n \in 1..Cardinality(K) |-> place[n]]
  BY DEF Ranked
<1>7. \A k \in K : \E n \in 1..Cardinality(K) : place[n] = k
  BY <1>1, <1>3, RankedPlace
<1>8. ASSUME NEW m \in 1..Cardinality(K), NEW n \in 1..Cardinality(K), place[m] = place[n]
      PROVE  m = n
  <2>1. Cardinality(K) \in Nat /\ m \in Int /\ n \in Int
    BY <1>1, FS_CardinalityType
  <2>2. /\ Cardinality(Below(K, order, place[m])) = m - 1
        /\ Cardinality(Below(K, order, place[n])) = n - 1
    BY <1>1, <1>3, RankedFacts
  <2> HIDE DEF place
  <2>3. m - 1 = n - 1
    BY <1>8, <2>2
  <2> QED
    BY <2>1, <2>3
<1> HIDE DEF place
<1>9. place \in [1..Cardinality(K) -> K]
  BY <1>5, <1>6
<1>10. kept(s, K) = [n \in 1..Cardinality(K) |-> s[place[n]]]
  BY <1>4, <1>5
<1> QED
  BY <1>7, <1>8, <1>9, <1>10

\* What is kept is a sequence too, of elements of the sequence.
LEMMA KeptFacts ==
    ASSUME NEW T, NEW s \in Seq(T), NEW K \in SUBSET DOMAIN s
    PROVE  /\ IsFiniteSet(K) /\ Cardinality(K) \in Nat
           /\ kept(s, K) \in Seq(T) /\ Len(kept(s, K)) = Cardinality(K)
           /\ \A n \in 1..Cardinality(K) : \E m \in K : kept(s, K)[n] = s[m]
<1>1. IsFiniteSet(K) /\ Cardinality(K) \in Nat
  BY Positions
<1>2. PICK place \in [1..Cardinality(K) -> K] : kept(s, K) = [n \in 1..Cardinality(K) |-> s[place[n]]]
  BY KeptPlaces
<1>3. \A n \in 1..Cardinality(K) : s[place[n]] \in T
  BY <1>2, ElementOfSeq
<1>4. kept(s, K) \in [1..Cardinality(K) -> T]
  BY <1>2, <1>3
<1>5. kept(s, K) \in Seq(T) /\ Len(kept(s, K)) = Cardinality(K)
  BY <1>1, <1>4
<1>6. \A n \in 1..Cardinality(K) : kept(s, K)[n] = s[place[n]] /\ place[n] \in K
  BY <1>2
<1> QED
  BY <1>1, <1>5, <1>6

LEMMA KeptNone ==
    ASSUME NEW s
    PROVE  kept(s, {}) = << >>
<1> DEFINE place == Ranked({}, {pair \in {} \X {} : pair[1] < pair[2]})
<1>1. Cardinality({}) = 0
  BY FS_EmptySet
<1>2. DOMAIN place = {}
  BY <1>1 DEF Ranked
<1>3. kept(s, {}) = [n \in DOMAIN place |-> s[place[n]]]
  BY DEF kept
<1> HIDE DEF place
<1> QED
  BY <1>2, <1>3

LEMMA RuleFacts ==
    /\ Len(all_rules) = 10 /\ DOMAIN all_rules = 1..10
    /\ \A n \in 1..10 : all_rules[n].id \in RuleIds
    /\ RuleIds = { "CFN_CT_001", "CFN_EC2_001", "CFN_IAM_001", "CFN_IAM_002", "CFN_RDS_001",
                   "CFN_RDS_002", "CFN_S3_001", "CFN_S3_002", "CFN_S3_003", "CFN_SG_001" }
<1>1. /\ all_rules[1].id = "CFN_CT_001" /\ all_rules[2].id = "CFN_EC2_001"
      /\ all_rules[3].id = "CFN_IAM_001" /\ all_rules[4].id = "CFN_IAM_002"
      /\ all_rules[5].id = "CFN_RDS_001" /\ all_rules[6].id = "CFN_RDS_002"
      /\ all_rules[7].id = "CFN_S3_001" /\ all_rules[8].id = "CFN_S3_002"
      /\ all_rules[9].id = "CFN_S3_003" /\ all_rules[10].id = "CFN_SG_001"
  BY DEF all_rules, Rule
<1>2. Len(all_rules) = 10 /\ DOMAIN all_rules = 1..10
  BY DEF all_rules
<1>3. \A n \in 1..10 : n = 1 \/ n = 2 \/ n = 3 \/ n = 4 \/ n = 5 \/ n = 6 \/ n = 7 \/ n = 8
                       \/ n = 9 \/ n = 10
  OBVIOUS
<1>4. RuleIds = {all_rules[n].id : n \in 1..10}
  BY <1>2 DEF RuleIds
<1> QED
  BY <1>1, <1>2, <1>3, <1>4

LEMMA FindingType ==
    ASSUME NEW id \in RuleIds, NEW severity \in SEVERITIES, NEW r \in Resources
    PROVE  Finding(id, severity, r) \in Findings
<1>1. r.logical_id \in STRING
  BY DEF Resources
<1> QED
  BY <1>1 DEF Finding, Findings

\* What an evaluate() may give: findings, or an exception and no finding.
Given(e) ==
    /\ e.findings \in Seq(Findings)
    /\ e.raised => e.findings = << >>

LEMMA FiresWhenGives ==
    ASSUME NEW condition, NEW id \in RuleIds, NEW severity \in SEVERITIES, NEW r \in Resources
    PROVE  Given(FiresWhen(condition, id, severity, r))
<1> DEFINE f == Finding(id, severity, r)
<1>1. f \in Findings
  BY FindingType
<1> HIDE DEF f
<1>2. <<f>> \in Seq(Findings) /\ << >> \in Seq(Findings)
  BY <1>1
<1>3. FiresWhen(condition, id, severity, r) = Returns(IF condition THEN <<f>> ELSE << >>)
  BY DEF FiresWhen, f
<1> QED
  BY <1>2, <1>3 DEF Returns, Given

LEMMA RaisesGives == Given(Raises)
BY EmptySeq DEF Raises, Given

LEMMA IngressGives ==
    ASSUME NEW r \in Resources
    PROVE  Given(SecurityGroupWideOpenIngress(r))
<1> DEFINE ingress == Literal(r, "SecurityGroupIngress")
           entry == IF IsList(ingress) THEN ingress.list ELSE << >>
           readable == {n \in DOMAIN entry : IsDict(entry[n]) /\ ~is_intrinsic(entry[n])}
           offending == {n \in readable : WideOpen(entry[n])}
           open == kept(entry, offending)
           found == [n \in DOMAIN open |-> IngressFinding(open[n], r)]
<1>1. ingress \in PyValues
  BY PropertyIsValue
<1> HIDE DEF ingress
<1>2. entry \in Seq(PyValues)
  BY <1>1, PyValue, EmptySeq
<1> HIDE DEF entry
<1>3. offending \in SUBSET DOMAIN entry
  OBVIOUS
<1> HIDE DEF offending
<1>4. open \in Seq(PyValues) /\ DOMAIN open = 1..Len(open) /\ Len(open) \in Nat
  BY <1>2, <1>3, KeptFacts, LenProperties
<1> HIDE DEF open
<1>5. \A e : IngressFinding(e, r) \in Findings
  <2>1. "CFN_SG_001" \in RuleIds /\ "CRITICAL" \in SEVERITIES /\ "HIGH" \in SEVERITIES
    BY RuleFacts DEF SEVERITIES
  <2> QED
    BY <2>1, FindingType DEF IngressFinding
<1>6. found \in Seq(Findings)
  BY <1>4, <1>5
<1>7. SecurityGroupWideOpenIngress(r) =
         IF \E n \in readable : CidrRaises(entry[n]) THEN Raises ELSE Returns(found)
  BY DEF SecurityGroupWideOpenIngress, ingress, entry, offending, open
<1> HIDE DEF found
<1> QED
  BY <1>6, <1>7, RaisesGives DEF Returns, Given

\* iam.py: the three kinds of documents a resource has.
SinglePart(r) ==
    not_none(IF r.type \in POLICY_DOCUMENT_TYPES THEN <<Literal(r, "PolicyDocument")>> ELSE << >>)
InlinePart(r) ==
    not_none(IF r.type \in POLICIES_LIST_TYPES /\ IsList(Literal(r, "Policies"))
             THEN InlineDocuments(Literal(r, "Policies").list) ELSE << >>)
AssumePart(r) ==
    not_none(IF r.type = "AWS::IAM::Role"
             THEN <<Literal(r, "AssumeRolePolicyDocument")>> ELSE << >>)

LEMMA PartsOfDocuments ==
    ASSUME NEW r
    PROVE  iter_policy_documents(r) = (SinglePart(r) \o InlinePart(r)) \o AssumePart(r)
BY DEF iter_policy_documents, SinglePart, InlinePart, AssumePart

LEMMA NotNoneType ==
    ASSUME NEW s \in Seq(PyValues)
    PROVE  not_none(s) \in Seq(PyValues)
<1>1. {n \in DOMAIN s : s[n] # None} \in SUBSET DOMAIN s
  OBVIOUS
<1> QED
  BY <1>1, KeptFacts DEF not_none

LEMMA InlineType ==
    ASSUME NEW policies \in Seq(PyValues)
    PROVE  InlineDocuments(policies) \in Seq(PyValues)
<1>1. Len(policies) \in Nat /\ DOMAIN policies = 1..Len(policies)
  BY LenProperties
<1>2. ASSUME NEW n \in 1..Len(policies)
      PROVE  (IF IsDict(literal_or_none(policies[n]))
              THEN literal_or_none(Get(policies[n], Str("PolicyDocument")))
              ELSE None) \in PyValues
  <2>1. policies[n] \in PyValues
    BY <1>2, ElementOfSeq
  <2>2. CASE IsDict(literal_or_none(policies[n]))
    <3>1. IsDict(policies[n])
      BY <2>2, NoneFacts DEF literal_or_none
    <3> QED
      BY <2>1, <2>2, <3>1, GetIsValue, LiteralIsValue
  <2> QED
    BY <2>2, NoneIsValue
<1>3. InlineDocuments(policies) \in [1..Len(policies) -> PyValues]
  BY <1>1, <1>2 DEF InlineDocuments
<1> QED
  BY <1>1, <1>3

LEMMA PartsType ==
    ASSUME NEW r \in Resources
    PROVE  /\ SinglePart(r) \in Seq(PyValues)
           /\ InlinePart(r) \in Seq(PyValues)
           /\ AssumePart(r) \in Seq(PyValues)
<1>1. \A name : Literal(r, name) \in PyValues
  BY PropertyIsValue
<1>2. << >> \in Seq(PyValues)
  BY EmptySeq
<1>3. SinglePart(r) \in Seq(PyValues)
  <2>1. <<Literal(r, "PolicyDocument")>> \in Seq(PyValues)
    BY <1>1
  <2> QED
    BY <1>2, <2>1, NotNoneType DEF SinglePart
<1>4. AssumePart(r) \in Seq(PyValues)
  <2>1. <<Literal(r, "AssumeRolePolicyDocument")>> \in Seq(PyValues)
    BY <1>1
  <2> QED
    BY <1>2, <2>1, NotNoneType DEF AssumePart
<1>5. InlinePart(r) \in Seq(PyValues)
  <2>1. IsList(Literal(r, "Policies")) => InlineDocuments(Literal(r, "Policies").list) \in Seq(PyValues)
    BY <1>1, PyValue, InlineType
  <2> QED
    BY <1>2, <2>1, NotNoneType DEF InlinePart
<1> QED
  BY <1>3, <1>4, <1>5

LEMMA StatementsType ==
    ASSUME NEW doc \in PyValues
    PROVE  allow_statements(doc) \in Seq(PyValues)
<1> DEFINE value == literal_or_none(Get(doc, Str("Statement")))
           statements == as_list(value)
           K == {n \in DOMAIN statements : IsAllow(statements[n])}
<1>1. CASE IsDict(doc)
  <2>1. value \in PyValues
    BY <1>1, GetIsValue, LiteralIsValue
  <2> HIDE DEF value
  <2>2. statements \in Seq(PyValues)
    BY <2>1, AsListIsSeq
  <2> HIDE DEF statements
  <2>3. K \in SUBSET DOMAIN statements
    OBVIOUS
  <2> HIDE DEF K
  <2>4. kept(statements, K) \in Seq(PyValues)
    BY <2>2, <2>3, KeptFacts
  <2>5. allow_statements(doc) = IF ~IsDict(doc) \/ value = None THEN << >> ELSE kept(statements, K)
    BY DEF allow_statements, value, statements, K
  <2> QED
    BY <2>4, <2>5, EmptySeq
<1>2. CASE ~IsDict(doc)
  BY <1>2, EmptySeq DEF allow_statements
<1> QED
  BY <1>1, <1>2

\* For each document, the same finding once for each of its statements.
Found(docs, field, f) ==
    [n \in DOMAIN docs |-> [k \in 1..Cardinality(starred(docs[n], field)) |-> f]]

LEMMA FoundType ==
    ASSUME NEW docs \in Seq(PyValues), NEW field, NEW T, NEW f \in T
    PROVE  Found(docs, field, f) \in Seq(Seq(T)) /\ Len(Found(docs, field, f)) = Len(docs)
<1>1. Len(docs) \in Nat /\ DOMAIN docs = 1..Len(docs)
  BY LenProperties
<1>2. ASSUME NEW n \in 1..Len(docs)
      PROVE  [k \in 1..Cardinality(starred(docs[n], field)) |-> f] \in Seq(T)
  <2> DEFINE K == starred(docs[n], field)
  <2>1. allow_statements(docs[n]) \in Seq(PyValues)
    BY ElementOfSeq, StatementsType
  <2>2. K \in SUBSET DOMAIN allow_statements(docs[n])
    BY DEF starred
  <2> HIDE DEF K
  <2>3. Cardinality(K) \in Nat
    BY <2>1, <2>2, KeptFacts
  <2>4. [k \in 1..Cardinality(K) |-> f] \in Seq(T)
    BY <2>3
  <2> QED
    BY <2>4 DEF K
<1>3. Found(docs, field, f) \in [1..Len(docs) -> Seq(T)]
  BY <1>1, <1>2 DEF Found
<1> QED
  BY <1>1, <1>3

LEMMA StarGives ==
    ASSUME NEW r \in Resources, NEW field, NEW id \in RuleIds, NEW severity \in SEVERITIES
    PROVE  /\ Given(StarFindings(r, field, id, severity))
           /\ StarFindings(r, field, id, severity).findings =
                 FlattenSeq(Found(iter_policy_documents(r), field, Finding(id, severity, r)))
<1> DEFINE docs == iter_policy_documents(r)
           f == Finding(id, severity, r)
           all == FlattenSeq(Found(docs, field, f))
<1>1. docs \in Seq(PyValues)
  BY PartsOfDocuments, PartsType, ConcatProperties
<1>2. f \in Findings
  BY FindingType
<1>3. StarFindings(r, field, id, severity) = Returns(all)
  BY DEF StarFindings, Found
<1> HIDE DEF docs, f
<1>4. all \in Seq(Findings)
  BY <1>1, <1>2, FoundType, FlattenType
<1> HIDE DEF all
<1>5. Given(Returns(all)) /\ Returns(all).findings = all
  BY <1>4 DEF Given, Returns
<1> QED
  BY <1>3, <1>5 DEF all, f, docs

\* Each rule gives findings of the right kind, whatever the resource.
LEMMA Evaluated ==
    ASSUME NEW r \in Resources, NEW id \in RuleIds
    PROVE  Given(evaluate(id, r))
<1>1. /\ "CRITICAL" \in SEVERITIES /\ "HIGH" \in SEVERITIES /\ "MEDIUM" \in SEVERITIES
  BY DEF SEVERITIES
<1>2. CASE id = "CFN_CT_001"
  BY <1>1, <1>2, FiresWhenGives DEF evaluate, CloudTrailMissingKmsKeyId
<1>3. CASE id = "CFN_EC2_001"
  BY <1>1, <1>3, FiresWhenGives DEF evaluate, EbsVolumeNotEncrypted
<1>4. CASE id = "CFN_IAM_001"
  BY <1>1, <1>4, StarGives DEF evaluate, IamAllowActionWildcard
<1>5. CASE id = "CFN_IAM_002"
  BY <1>1, <1>5, StarGives DEF evaluate, IamAllowResourceWildcard
<1>6. CASE id = "CFN_RDS_001"
  BY <1>1, <1>6, FiresWhenGives DEF evaluate, RdsStorageNotEncrypted
<1>7. CASE id = "CFN_RDS_002"
  BY <1>1, <1>7, FiresWhenGives DEF evaluate, RdsPubliclyAccessible
<1>8. CASE id = "CFN_S3_001"
  BY <1>1, <1>8, FiresWhenGives DEF evaluate, S3MissingBucketEncryption
<1>9. CASE id = "CFN_S3_002"
  BY <1>1, <1>9, FiresWhenGives DEF evaluate, S3MissingPublicAccessBlock
<1>10. CASE id = "CFN_S3_003"
  BY <1>1, <1>10, FiresWhenGives, RaisesGives DEF evaluate, S3PublicAcl
<1>11. CASE id = "CFN_SG_001"
  BY <1>11, IngressGives DEF evaluate
<1> QED
  BY <1>2, <1>3, <1>4, <1>5, <1>6, <1>7, <1>8, <1>9, <1>10, <1>11, RuleFacts
-----------------------------------------------------------------------------
(* The loop's place in a table of what is said of each resource, rule by rule *)

\* Row p of W is not finished: its first q - 1 entries follow what is before it.
Inner(W, p, q) == IF p <= Len(W) THEN FlattenSeq(SubSeq(W[p], 1, q - 1)) ELSE << >>
Outer(W, n) == [m \in 1..n |-> FlattenSeq(W[m])]
So(W, p, q) == FlattenSeq(Outer(W, p - 1)) \o Inner(W, p, q)

Table(W, T) ==
    /\ W \in Seq(Seq(Seq(T)))
    /\ \A n \in 1..Len(W) : Len(W[n]) = 10

LEMMA TableFacts ==
    ASSUME NEW T, NEW W, Table(W, T)
    PROVE  /\ Len(W) \in Nat /\ DOMAIN W = 1..Len(W)
           /\ \A n \in 1..Len(W) :
                 /\ W[n] \in Seq(Seq(T)) /\ FlattenSeq(W[n]) \in Seq(T)
                 /\ \A k \in 1..10 : W[n][k] \in Seq(T)
           /\ \A n \in 0..Len(W) : /\ Outer(W, n) \in Seq(Seq(T)) /\ Len(Outer(W, n)) = n
                                   /\ FlattenSeq(Outer(W, n)) \in Seq(T)
<1>1. W \in Seq(Seq(Seq(T))) /\ \A n \in 1..Len(W) : Len(W[n]) = 10
  BY DEF Table
<1>2. Len(W) \in Nat /\ DOMAIN W = 1..Len(W)
  BY <1>1, LenProperties
<1>3. \A n \in 1..Len(W) : W[n] \in Seq(Seq(T))
  BY <1>1, ElementOfSeq
<1>4. \A n \in 1..Len(W) : FlattenSeq(W[n]) \in Seq(T)
  BY <1>3, FlattenType
<1>5. \A n \in 1..Len(W) : \A k \in 1..10 : W[n][k] \in Seq(T)
  <2>1. TAKE n \in 1..Len(W)
  <2>2. W[n] \in Seq(Seq(T)) /\ Len(W[n]) = 10
    BY <1>1, <1>3
  <2> QED
    BY <2>2, ElementOfSeq
<1>6. ASSUME NEW n \in 0..Len(W)
      PROVE  Outer(W, n) \in Seq(Seq(T)) /\ Len(Outer(W, n)) = n
  <2>1. n \in Nat /\ \A m \in 1..n : FlattenSeq(W[m]) \in Seq(T)
    BY <1>2, <1>4
  <2>2. Outer(W, n) \in [1..n -> Seq(T)]
    BY <2>1 DEF Outer
  <2> QED
    BY <2>1, <2>2
<1>7. \A n \in 0..Len(W) : FlattenSeq(Outer(W, n)) \in Seq(T)
  BY <1>6, FlattenType
<1> QED
  BY <1>2, <1>3, <1>4, <1>5, <1>6, <1>7

LEMMA NothingSo ==
    ASSUME NEW T, NEW W, Table(W, T)
    PROVE  So(W, 1, 1) = << >>
<1>1. Outer(W, 1 - 1) = << >>
  BY DEF Outer
<1>2. FlattenSeq(Outer(W, 1 - 1)) = << >>
  BY <1>1, FlattenNone
<1>3. Inner(W, 1, 1) = << >>
  <2>1. CASE 1 <= Len(W)
    <3>1. W[1] \in Seq(Seq(T))
      BY <2>1, TableFacts
    <3>2. SubSeq(W[1], 1, 1 - 1) = << >>
      BY <3>1, SubSeqEmpty
    <3> QED
      BY <2>1, <3>2, FlattenNone DEF Inner
  <2>2. CASE ~(1 <= Len(W))
    BY <2>2 DEF Inner
  <2> QED
    BY <2>1, <2>2
<1>4. << >> \in Seq(T) /\ << >> \o << >> = << >>
  BY EmptySeq, ConcatEmptySeq
<1> QED
  BY <1>2, <1>3, <1>4 DEF So

\* The first n of a row, and one more.
LEMMA RowLonger ==
    ASSUME NEW T, NEW V \in Seq(Seq(T)), NEW n \in 1..Len(V)
    PROVE  /\ FlattenSeq(SubSeq(V, 1, n)) = FlattenSeq(SubSeq(V, 1, n - 1)) \o V[n]
           /\ FlattenSeq(SubSeq(V, 1, n - 1)) \in Seq(T)
<1>1. Len(V) \in Nat /\ \A m \in 1..Len(V) : V[m] \in Seq(T)
  BY LenProperties, ElementOfSeq
<1> DEFINE ss == SubSeq(V, 1, n)
           tt == SubSeq(V, 1, n - 1)
<1>2. /\ ss \in Seq(Seq(T)) /\ Len(ss) = n
      /\ \A m \in 1..n : ss[m] = V[m]
  BY <1>1, SubSeqProperties
<1>3. /\ tt \in Seq(Seq(T)) /\ Len(tt) = n - 1
      /\ \A m \in 1..(n - 1) : tt[m] = V[m]
  BY <1>1, SubSeqProperties
<1> HIDE DEF ss, tt
<1>4. FlattenSeq(ss) = FlattenSeq(tt) \o ss[Len(ss)]
  <2>1. n \in Nat /\ Len(ss) = Len(tt) + 1
    BY <1>1, <1>2, <1>3
  <2>2. \A m \in 1..(n - 1) : m \in 1..n
    BY <2>1
  <2>3. \A m \in 1..Len(tt) : ss[m] = tt[m]
    BY <2>2, <1>2, <1>3
  <2> QED
    BY <2>1, <2>3, <1>2, <1>3, FlattenLonger
<1>5. ss[Len(ss)] = V[n]
  BY <1>1, <1>2
<1>6. FlattenSeq(tt) \in Seq(T)
  BY <1>3, FlattenType
<1> QED
  BY <1>4, <1>5, <1>6 DEF ss, tt

\* One pass of the inner loop adds one entry of the table.
LEMMA OneMoreSo ==
    ASSUME NEW T, NEW W, Table(W, T), NEW p \in 1..Len(W), NEW q \in 1..10
    PROVE  /\ q < 10 => So(W, p, q + 1) = So(W, p, q) \o W[p][q]
           /\ ~(q < 10) => So(W, p + 1, 1) = So(W, p, q) \o W[p][q]
<1> DEFINE V == W[p]
           before == FlattenSeq(Outer(W, p - 1))
<1>1. /\ Len(W) \in Nat /\ V \in Seq(Seq(T)) /\ Len(V) = 10 /\ V[q] \in Seq(T)
  BY TableFacts DEF Table
<1>2. p - 1 \in 0..Len(W) /\ p \in 0..Len(W)
  BY <1>1
<1>3. before \in Seq(T)
  BY <1>2, TableFacts
<1>4. /\ FlattenSeq(SubSeq(V, 1, q)) = FlattenSeq(SubSeq(V, 1, q - 1)) \o V[q]
      /\ FlattenSeq(SubSeq(V, 1, q - 1)) \in Seq(T)
  BY <1>1, RowLonger
<1>5. So(W, p, q) = before \o FlattenSeq(SubSeq(V, 1, q - 1))
  BY <1>1 DEF So, Inner
<1> HIDE DEF V, before
<1> DEFINE here == FlattenSeq(SubSeq(V, 1, q - 1))
           entry == V[q]
<1>6. So(W, p, q) \o V[q] = before \o FlattenSeq(SubSeq(V, 1, q))
  <2>1. before \in Seq(T) /\ here \in Seq(T) /\ entry \in Seq(T)
    BY <1>1, <1>3, <1>4
  <2>2. So(W, p, q) = before \o here /\ FlattenSeq(SubSeq(V, 1, q)) = here \o entry
    BY <1>4, <1>5
  <2> HIDE DEF here, entry
  <2>3. (before \o here) \o entry = before \o (here \o entry)
    BY <2>1, ConcatAssociative, SMTT(20)
  <2>4. So(W, p, q) \o entry = before \o FlattenSeq(SubSeq(V, 1, q))
    BY <2>2, <2>3
  <2> QED
    BY <2>4 DEF entry
<1>7. CASE q < 10
  <2>1. (q + 1) - 1 = q
    OBVIOUS
  <2>2. So(W, p, q + 1) = before \o FlattenSeq(SubSeq(V, 1, q))
    BY <1>1, <2>1 DEF So, Inner, V, before
  <2> QED
    BY <1>6, <1>7, <2>2 DEF V
<1>8. CASE ~(q < 10)
  <2>1. q = 10 /\ (p + 1) - 1 = p
    BY <1>8
  <2>2. FlattenSeq(SubSeq(V, 1, q)) = FlattenSeq(V)
    <3>1. SubSeq(V, 1, Len(V)) = V
      BY <1>1, SubSeqFull
    <3> QED
      BY <1>1, <2>1, <3>1
  <2>3. FlattenSeq(Outer(W, p)) = before \o FlattenSeq(V)
    <3> DEFINE ss == Outer(W, p)
               tt == Outer(W, p - 1)
    <3>1. ss \in Seq(Seq(T)) /\ Len(ss) = p /\ tt \in Seq(Seq(T)) /\ Len(tt) = p - 1
      BY <1>2, TableFacts
    <3>2. ss[p] = FlattenSeq(V) /\ \A m \in 1..(p - 1) : ss[m] = tt[m]
      BY DEF Outer, V
    <3> HIDE DEF ss, tt
    <3>3. Len(ss) = Len(tt) + 1
      BY <3>1
    <3>4. FlattenSeq(ss) = FlattenSeq(tt) \o ss[Len(ss)]
      BY <3>1, <3>2, <3>3, FlattenLonger
    <3> QED
      BY <3>1, <3>2, <3>4 DEF ss, tt, before
  <2>4. Inner(W, p + 1, 1) = << >>
    <3>1. CASE p + 1 <= Len(W)
      <4> DEFINE k == p + 1
      <4>0. k \in 1..Len(W)
        BY <3>1, <1>1
      <4> HIDE DEF k
      <4>1. W[k] \in Seq(Seq(T))
        BY <4>0, TableFacts
      <4> USE DEF k
      <4>2. SubSeq(W[p + 1], 1, 1 - 1) = << >>
        BY <4>1, SubSeqEmpty
      <4> QED
        BY <3>1, <4>2, FlattenNone DEF Inner
    <3>2. CASE ~(p + 1 <= Len(W))
      BY <3>2 DEF Inner
    <3> QED
      BY <3>1, <3>2
  <2>5. FlattenSeq(Outer(W, p)) \o << >> = FlattenSeq(Outer(W, p))
    BY <1>2, TableFacts, ConcatEmptySeq
  <2>6. So(W, p + 1, 1) = before \o FlattenSeq(V)
    BY <2>1, <2>3, <2>4, <2>5 DEF So
  <2> QED
    BY <1>6, <1>8, <2>2, <2>6 DEF V
<1> QED
  BY <1>7, <1>8

\* At the end it is the whole table.
LEMMA AllSo ==
    ASSUME NEW T, NEW W, Table(W, T)
    PROVE  So(W, Len(W) + 1, 1) = FlattenSeq(Outer(W, Len(W)))
<1>1. Len(W) \in Nat /\ Len(W) \in 0..Len(W) /\ (Len(W) + 1) - 1 = Len(W) /\ ~(Len(W) + 1 <= Len(W))
  BY TableFacts
<1>2. FlattenSeq(Outer(W, Len(W))) \o << >> = FlattenSeq(Outer(W, Len(W)))
  BY <1>1, TableFacts, ConcatEmptySeq
<1> QED
  BY <1>1, <1>2 DEF So, Inner
-----------------------------------------------------------------------------
(* The parser: resources of the right kind, or an error *)

Errors == {"TemplateTooLarge", "MalformedTemplate", "NotACloudFormationTemplate", "Exception"}

\* What parse_template may give.
Parsed(t) ==
    \/ t.error \in Errors /\ t.resources = << >>
    \/ t.error = "none" /\ t.resources \in Seq(Resources) \ {<< >>}

LEMMA RefusedIsParsed ==
    ASSUME NEW error \in Errors
    PROVE  Parsed(Refused(error))
BY DEF Parsed, Refused

LEMMA PropertiesType ==
    ASSUME NEW raw \in PyValues, IsDict(raw)
    PROVE  properties(raw) \in PyValues
BY GetIsValue, NoneIsValue DEF properties

LEMMA ResourceType ==
    ASSUME NEW item \in Items, well_formed(item)
    PROVE  Resource(item) \in Resources
<1> DEFINE type == Get(item.value, Str("Type"))
<1>1. item.key \in PyValues /\ item.value \in PyValues /\ IsStr(item.key) /\ IsDict(item.value)
  BY DEF Items, well_formed
<1>2. item.key.str \in STRING
  BY <1>1, PyValue
<1>3. type \in PyValues /\ IsStr(type) /\ type # Str("")
  BY <1>1, GetIsValue DEF well_formed
<1>4. properties(item.value) \in PyValues /\ IsDict(properties(item.value))
  BY <1>1, PropertiesType DEF well_formed
<1>5. Resource(item) = [logical_id |-> item.key.str, type |-> type.str,
                        properties |-> properties(item.value)]
  BY DEF Resource
<1> HIDE DEF type
<1>6. type.str \in STRING \ {""}
  <2>1. type \in [str : STRING]
    BY <1>3, PyValue
  <2>2. type = [str |-> type.str]
    BY <2>1
  <2> QED
    BY <1>3, <2>1, <2>2 DEF Str
<1> DEFINE made == Resource(item)
           id == item.key.str
           named == type.str
           has == properties(item.value)
<1>7. made = [logical_id |-> id, type |-> named, properties |-> has]
  BY <1>5
<1>8. id \in STRING /\ named \in STRING \ {""} /\ has \in PyValues /\ IsDict(has)
  BY <1>2, <1>4, <1>6
<1> HIDE DEF made, id, named, has
<1>9. /\ made \in [logical_id : STRING, type : STRING \ {""}, properties : PyValues]
      /\ made.properties = has
  BY <1>7, <1>8
<1>10. made \in Resources
  BY <1>8, <1>9 DEF Resources
<1> QED
  BY <1>10 DEF made

LEMMA TemplateIsParsed ==
    ASSUME NEW parsed \in PyValues
    PROVE  Parsed(build_template(parsed))
<1> DEFINE raw == Get(parsed, Str("Resources"))
           items == raw.dict
           refuses == \/ ~IsDict(parsed) \/ ~IsDict(raw) \/ items = << >>
                      \/ \E n \in DOMAIN items : ~well_formed(items[n])
           made == [n \in DOMAIN items |-> Resource(items[n])]
           described == IF IsStr(Get(parsed, Str("Description")))
                        THEN Get(parsed, Str("Description")) ELSE None
<1>1. build_template(parsed) =
         IF refuses THEN Refused("NotACloudFormationTemplate")
         ELSE [error |-> "none", resources |-> made, description |-> described]
  BY DEF build_template
<1>2. CASE refuses
  BY <1>1, <1>2, RefusedIsParsed DEF Errors
<1>3. CASE ~refuses
  <2>1. raw \in PyValues
    BY <1>3, GetIsValue
  <2>2. items \in Seq(Items) /\ items # << >>
    BY <1>3, <2>1, PyValue
  <2>3. \A n \in DOMAIN items : Resource(items[n]) \in Resources
    BY <1>3, <2>2, ResourceType
  <2> HIDE DEF items
  <2>4. Len(items) \in Nat /\ DOMAIN items = 1..Len(items) /\ Len(items) # 0
    BY <2>2, LenProperties, EmptySeq
  <2>5. made \in [1..Len(items) -> Resources]
    BY <2>3, <2>4
  <2>6. made \in Seq(Resources) /\ made # << >>
    <3>1. Len(made) = Len(items) /\ made \in Seq(Resources)
      BY <2>4, <2>5
    <3> QED
      BY <2>4, <3>1, EmptySeq
  <2> HIDE DEF made, described, refuses
  <2> QED
    BY <1>1, <1>3, <2>6 DEF Parsed
<1> QED
  BY <1>2, <1>3

LEMMA ContentIsParsed ==
    ASSUME NEW c \in Documents
    PROVE  Parsed(parse_template(c))
<1> DEFINE F == c.faults
           early == F \cap {"encode", "size"}
<1>1. Parsed(build_template(construct[c.root]))
  <2>1. c.root \in Within[Depth] /\ Within[Depth] \subseteq Nodes
    BY WithinGrows, RoomIsNumber DEF Nodes, Documents
  <2> QED
    BY <2>1, TemplateIsParsed DEF PyValues
<1>2. /\ Parsed(Refused("Exception")) /\ Parsed(Refused("TemplateTooLarge"))
      /\ Parsed(Refused("MalformedTemplate"))
  BY RefusedIsParsed DEF Errors
<1> HIDE DEF F
<1>3. CASE "encode" \in F
  BY <1>2, <1>3 DEF parse_template, F
<1>4. CASE early = {"size"}
  <2>1. "encode" \notin F
    BY <1>4
  <2> QED
    BY <1>2, <1>4, <2>1 DEF parse_template, F
<1>5. CASE early = {} /\ (F \cap {"utf-8", "yaml"} # {} \/ ~constructible[c.root])
  BY <1>2, <1>5 DEF parse_template, F
<1>6. CASE early = {} /\ F \cap {"utf-8", "yaml"} = {} /\ constructible[c.root]
  BY <1>1, <1>2, <1>6 DEF parse_template, F
<1> QED
  BY <1>3, <1>4, <1>5, <1>6
-----------------------------------------------------------------------------
(* The loop *)

\* What is said of each resource by each rule, and what is logged.
Said(R) == [n \in DOMAIN R |-> [k \in DOMAIN all_rules |-> Audited!Opinion(all_rules[k], R[n])]]
Logged(R) == [n \in DOMAIN R |-> [k \in DOMAIN all_rules |-> Audited!Failure(all_rules[k], R[n])]]

Pairs == [finding : Findings, resource_type : STRING]
LogEntries == STRING \X RuleIds
Rows(ps) == [n \in DOMAIN ps |-> ps[n].finding]

LEMMA OpinionType ==
    ASSUME NEW r \in Resources, NEW k \in 1..10
    PROVE  /\ Audited!Opinion(all_rules[k], r) \in Seq(Findings)
           /\ Audited!Failure(all_rules[k], r) \in Seq(LogEntries)
<1>1. all_rules[k].id \in RuleIds
  BY RuleFacts
<1>2. evaluate(all_rules[k].id, r).findings \in Seq(Findings)
  BY <1>1, Evaluated DEF Given
<1>3. <<r.logical_id, all_rules[k].id>> \in LogEntries
  BY <1>1 DEF LogEntries, Resources
<1> QED
  BY <1>2, <1>3, EmptySeq DEF Audited!Opinion, Audited!Failure

LEMMA Tables ==
    ASSUME NEW R \in Seq(Resources)
    PROVE  /\ Table(Said(R), Findings) /\ Len(Said(R)) = Len(R)
           /\ Table(Logged(R), LogEntries) /\ Len(Logged(R)) = Len(R)
<1>1. Len(R) \in Nat /\ DOMAIN R = 1..Len(R) /\ \A n \in 1..Len(R) : R[n] \in Resources
  BY LenProperties, ElementOfSeq
<1>2. DOMAIN all_rules = 1..10
  BY RuleFacts
<1>3. ASSUME NEW n \in 1..Len(R)
      PROVE  /\ Said(R)[n] \in [1..10 -> Seq(Findings)]
             /\ Logged(R)[n] \in [1..10 -> Seq(LogEntries)]
  BY <1>1, <1>2, OpinionType DEF Said, Logged
<1>4. \A n \in 1..Len(R) : /\ Said(R)[n] \in Seq(Seq(Findings)) /\ Len(Said(R)[n]) = 10
                           /\ Logged(R)[n] \in Seq(Seq(LogEntries)) /\ Len(Logged(R)[n]) = 10
  <2>1. TAKE n \in 1..Len(R)
  <2>2. ASSUME NEW T, NEW s \in [1..10 -> T]
        PROVE  s \in Seq(T) /\ Len(s) = 10
    BY FunctionIsSeq
  <2> QED
    BY <1>3, <2>2
<1>5. DOMAIN Said(R) = 1..Len(R) /\ DOMAIN Logged(R) = 1..Len(R)
  BY <1>1 DEF Said, Logged
<1>6. /\ Said(R) = [n \in 1..Len(R) |-> Said(R)[n]]
      /\ Logged(R) = [n \in 1..Len(R) |-> Logged(R)[n]]
  BY <1>1 DEF Said, Logged
<1>7. /\ Said(R) \in [1..Len(R) -> Seq(Seq(Findings))]
      /\ Logged(R) \in [1..Len(R) -> Seq(Seq(LogEntries))]
  BY <1>4, <1>6
<1>8. /\ Said(R) \in Seq(Seq(Seq(Findings))) /\ Len(Said(R)) = Len(R)
      /\ Logged(R) \in Seq(Seq(Seq(LogEntries))) /\ Len(Logged(R)) = Len(R)
  BY <1>1, <1>7, FunctionIsSeq
<1> QED
  BY <1>4, <1>8 DEF Table

\* The inductive invariant: before the loop there is nothing, and after that
\* pairs and failures are the tables as far as the loop is.
Stages == {"parse", "evaluate", "persisted", "refused"}
Typed ==
    /\ content \in Documents
    /\ stage \in Stages
    /\ template.resources \in Seq(Resources)
    /\ i \in 1..(Len(template.resources) + 1)
    /\ j \in 1..10
    /\ pairs \in Seq(Pairs)
    /\ counts \in [SEVERITIES -> Nat]

OfItsContent ==
    /\ stage = "parse" => template = NoTemplate
    /\ stage # "parse" => template = parse_template(content)
    /\ stage \in {"evaluate", "persisted"} => template.error = "none"
    /\ stage = "refused" => template.error \in Errors

\* The loop is over when it has passed the last resource, and only then persisted.
LoopBounds ==
    /\ i > Len(template.resources) => j = 1
    /\ stage = "persisted" => i > Len(template.resources)

SoFar ==
    /\ Rows(pairs) = So(Said(template.resources), i, j)
    /\ failures = So(Logged(template.resources), i, j)

LoopInv == Typed /\ OfItsContent /\ LoopBounds /\ SoFar

LEMMA InvAtInit == Init => LoopInv
<1> SUFFICES ASSUME Init
             PROVE  LoopInv
  OBVIOUS
<1>1. template.resources = << >> /\ Len(template.resources) = 0
  BY DEF Init, NoTemplate
<1>2. template.resources \in Seq(Resources) /\ pairs \in Seq(Pairs)
  BY <1>1, EmptySeq DEF Init
<1>3. counts \in [SEVERITIES -> Nat]
  BY DEF Init, NoCounts
<1>4. Typed
  BY <1>1, <1>2, <1>3, ContentsAssumption DEF Init, Typed, Stages
<1>5. OfItsContent /\ LoopBounds
  BY DEF Init, OfItsContent, LoopBounds
<1>6. SoFar
  <2>1. Rows(pairs) = << >>
    BY DEF Init, Rows
  <2>2. /\ So(Said(template.resources), 1, 1) = << >>
        /\ So(Logged(template.resources), 1, 1) = << >>
    BY <1>2, Tables, NothingSo
  <2> QED
    BY <2>1, <2>2 DEF Init, SoFar
<1> QED
  BY <1>4, <1>5, <1>6 DEF LoopInv

LEMMA ParseKeeps ==
    ASSUME LoopInv, Parse
    PROVE  LoopInv'
<1> DEFINE R == template'.resources
<1>1. template' = parse_template(content) /\ content \in Documents
  BY DEF Parse, LoopInv, Typed
<1>2. Parsed(template')
  BY <1>1, ContentIsParsed
<1>3. R \in Seq(Resources)
  BY <1>2, EmptySeq DEF Parsed
<1>4. template = NoTemplate /\ template.resources = << >> /\ Len(template.resources) = 0
  BY DEF LoopInv, OfItsContent, Parse, NoTemplate
<1>5. i = 1 /\ j = 1
  BY <1>4 DEF LoopInv, Typed, LoopBounds
<1>6. UNCHANGED <<content, i, j, pairs, failures, counts>>
  BY DEF Parse
<1>7. /\ stage' \in {"evaluate", "refused"}
      /\ stage' = "evaluate" => template'.error = "none"
      /\ stage' = "refused" => template'.error \in Errors
  BY <1>2 DEF Parse, Parsed
<1>8. Typed'
  <2>1. Len(R) \in Nat
    BY <1>3, LenProperties
  <2> HIDE DEF R
  <2>2. 1 \in 1..(Len(R) + 1)
    BY <2>1
  <2> QED
    BY <1>3, <1>5, <1>6, <1>7, <2>2 DEF Typed, LoopInv, Stages, R
<1>9. OfItsContent'
  BY <1>1, <1>6, <1>7 DEF OfItsContent
<1>10. LoopBounds'
  BY <1>5, <1>6, <1>7 DEF LoopBounds
<1>11. SoFar'
  <2>1. /\ So(Said(template.resources), 1, 1) = << >>
        /\ So(Logged(template.resources), 1, 1) = << >>
    BY Tables, NothingSo DEF LoopInv, Typed
  <2>2. Rows(pairs) = << >> /\ failures = << >>
    BY <1>5, <2>1 DEF LoopInv, SoFar
  <2>3. So(Said(R), 1, 1) = << >> /\ So(Logged(R), 1, 1) = << >>
    BY <1>3, Tables, NothingSo
  <2> QED
    BY <1>5, <1>6, <2>2, <2>3 DEF SoFar, Rows
<1> QED
  BY <1>8, <1>9, <1>10, <1>11 DEF LoopInv

\* What the rule at hand says and logs about the resource at hand.
Heard == Audited!Opinion(rule, resource)
Noted == Audited!Failure(rule, resource)

LEMMA AtHand ==
    ASSUME LoopInv, InLoop
    PROVE  /\ resource \in Resources /\ rule.id \in RuleIds
           /\ Given(Produced)
           /\ Said(template.resources)[i][j] = Heard
           /\ Logged(template.resources)[i][j] = Noted
           /\ Heard \in Seq(Findings)
<1>1. i \in 1..Len(template.resources) /\ template.resources \in Seq(Resources) /\ j \in 1..10
  BY DEF LoopInv, Typed, InLoop
<1>2. DOMAIN template.resources = 1..Len(template.resources) /\ DOMAIN all_rules = 1..10
  BY <1>1, LenProperties, RuleFacts
<1>3. resource \in Resources
  BY <1>1, ElementOfSeq DEF resource
<1>4. rule.id \in RuleIds
  BY <1>1, RuleFacts DEF rule
<1>5. Given(Produced)
  BY <1>3, <1>4, Evaluated DEF Produced
<1>6. /\ Said(template.resources)[i][j] = Heard
      /\ Logged(template.resources)[i][j] = Noted
  BY <1>1, <1>2 DEF Said, Logged, Heard, Noted, rule, resource
<1>7. Heard \in Seq(Findings)
  BY <1>1, <1>3, OpinionType DEF Heard, rule
<1> QED
  BY <1>3, <1>4, <1>5, <1>6, <1>7

\* A pass of the loop that adds what is heard and noted keeps the invariant.
LEMMA PassKeeps ==
    ASSUME LoopInv, InLoop, Advance, pairs' \in Seq(Pairs),
           Rows(pairs') = Rows(pairs) \o Heard, failures' = failures \o Noted
    PROVE  LoopInv'
<1> DEFINE R == template.resources
<1>1. /\ i \in 1..Len(R) /\ R \in Seq(Resources) /\ j \in 1..10 /\ Len(R) \in Nat
  BY LenProperties DEF LoopInv, Typed, InLoop
<1>2. Len(all_rules) = 10
  BY RuleFacts
<1>3. /\ i' = IF j < 10 THEN i ELSE i + 1
      /\ j' = IF j < 10 THEN j + 1 ELSE 1
      /\ UNCHANGED <<content, stage, template, counts>>
  BY <1>2 DEF Advance
<1>4. Typed'
  <2>1. i' \in 1..(Len(R) + 1) /\ j' \in 1..10
    BY <1>1, <1>3
  <2> QED
    BY <1>3, <2>1 DEF LoopInv, Typed
<1>5. OfItsContent'
  BY <1>3 DEF LoopInv, OfItsContent
<1>6. LoopBounds'
  <2>1. i' > Len(R) => j' = 1
    BY <1>1, <1>3
  <2>2. stage # "persisted"
    BY DEF InLoop
  <2> QED
    BY <1>3, <2>1, <2>2 DEF LoopBounds
<1>7. SoFar'
  <2>1. /\ Table(Said(R), Findings) /\ Len(Said(R)) = Len(R)
        /\ Table(Logged(R), LogEntries) /\ Len(Logged(R)) = Len(R)
    BY <1>1, Tables
  <2>2. i \in 1..Len(Said(R)) /\ i \in 1..Len(Logged(R))
    BY <1>1, <2>1
  <2>3. So(Said(R), i', j') = So(Said(R), i, j) \o Said(R)[i][j]
    BY <1>1, <1>3, <2>1, <2>2, OneMoreSo
  <2>4. So(Logged(R), i', j') = So(Logged(R), i, j) \o Logged(R)[i][j]
    BY <1>1, <1>3, <2>1, <2>2, OneMoreSo
  <2>5. Said(R)[i][j] = Heard /\ Logged(R)[i][j] = Noted
    BY AtHand
  <2>6. Rows(pairs) = So(Said(R), i, j) /\ failures = So(Logged(R), i, j)
    BY DEF LoopInv, SoFar
  <2>7. Rows(pairs') = So(Said(R), i', j') /\ failures' = So(Logged(R), i', j')
    BY <2>3, <2>4, <2>5, <2>6
  <2> QED
    BY <1>3, <2>7 DEF SoFar, Rows
<1> QED
  BY <1>4, <1>5, <1>6, <1>7 DEF LoopInv

LEMMA SoFarType ==
    ASSUME LoopInv
    PROVE  Rows(pairs) \in Seq(Findings) /\ failures \in Seq(LogEntries)
<1>1. Len(pairs) \in Nat /\ DOMAIN pairs = 1..Len(pairs) /\ \A n \in 1..Len(pairs) : pairs[n] \in Pairs
  BY LenProperties, ElementOfSeq DEF LoopInv, Typed
<1>2. Rows(pairs) \in [1..Len(pairs) -> Findings]
  BY <1>1 DEF Rows, Pairs
<1>3. Rows(pairs) \in Seq(Findings)
  BY <1>1, <1>2, FunctionIsSeq
<1> DEFINE W == Logged(template.resources)
<1>4. Table(W, LogEntries) /\ Len(W) = Len(template.resources) /\ Len(W) \in Nat
  BY Tables, TableFacts DEF LoopInv, Typed
<1>5. failures = So(W, i, j) /\ i \in 1..(Len(W) + 1) /\ j \in 1..10
  BY <1>4 DEF LoopInv, SoFar, Typed
<1> HIDE DEF W
<1>6. i - 1 \in 0..Len(W)
  BY <1>4, <1>5
<1>7. FlattenSeq(Outer(W, i - 1)) \in Seq(LogEntries)
  BY <1>4, <1>6, TableFacts
<1>8. Inner(W, i, j) \in Seq(LogEntries)
  <2>1. CASE i <= Len(W)
    <3>1. i \in 1..Len(W)
      BY <1>4, <1>5, <2>1
    <3>2. W[i] \in Seq(Seq(LogEntries)) /\ Len(W[i]) = 10
      BY <1>4, <3>1, TableFacts DEF Table
    <3>3. FlattenSeq(SubSeq(W[i], 1, j - 1)) \in Seq(LogEntries)
      BY <1>5, <3>2, RowLonger
    <3> QED
      BY <2>1, <3>3 DEF Inner
  <2>2. CASE ~(i <= Len(W))
    BY <2>2, EmptySeq DEF Inner
  <2> QED
    BY <2>1, <2>2
<1>9. failures \in Seq(LogEntries)
  BY <1>5, <1>7, <1>8, ConcatProperties DEF So
<1> QED
  BY <1>3, <1>9

LEMMA SkipKeeps ==
    ASSUME LoopInv, Skip
    PROVE  LoopInv'
<1>1. InLoop /\ Advance /\ pairs' = pairs /\ failures' = failures
  BY DEF Skip
<1>2. Heard = << >> /\ Noted = << >>
  BY DEF Skip, Heard, Noted, Audited!Opinion, Audited!Failure
<1>3. Rows(pairs) \o << >> = Rows(pairs) /\ failures \o << >> = failures
  BY SoFarType, ConcatEmptySeq
<1>4. pairs' \in Seq(Pairs)
  BY <1>1 DEF LoopInv, Typed
<1> QED
  BY <1>1, <1>2, <1>3, <1>4, PassKeeps

LEMMA RuleRaisesKeeps ==
    ASSUME LoopInv, RuleRaises
    PROVE  LoopInv'
<1>1. /\ InLoop /\ Advance /\ pairs' = pairs /\ Produced.raised
      /\ failures' = Append(failures, <<resource.logical_id, rule.id>>)
      /\ resource.type \in rule.resource_types
  BY DEF RuleRaises
<1>2. Produced.findings = << >>
  BY <1>1, AtHand DEF Given
<1>3. Heard = << >> /\ Noted = << <<resource.logical_id, rule.id>> >>
  BY <1>1, <1>2 DEF Heard, Noted, Audited!Opinion, Audited!Failure, Produced
<1>4. Rows(pairs) \o << >> = Rows(pairs)
  BY SoFarType, ConcatEmptySeq
<1>5. failures' = failures \o << <<resource.logical_id, rule.id>> >>
  <2>1. <<resource.logical_id, rule.id>> \in LogEntries
    BY <1>1, AtHand DEF LogEntries, Resources
  <2>2. ASSUME NEW e \in LogEntries
        PROVE  Append(failures, e) = failures \o <<e>>
    BY SoFarType, AppendIsConcat
  <2> QED
    BY <1>1, <2>1, <2>2
<1>6. pairs' \in Seq(Pairs)
  BY <1>1 DEF LoopInv, Typed
<1> QED
  BY <1>1, <1>3, <1>4, <1>5, <1>6, PassKeeps

LEMMA RowsConcat ==
    ASSUME NEW ps \in Seq(Pairs), NEW fs \in Seq(Findings), NEW type \in STRING
    PROVE  LET qs == [n \in DOMAIN fs |-> [finding |-> fs[n], resource_type |-> type]]
           IN  ps \o qs \in Seq(Pairs) /\ Rows(ps \o qs) = Rows(ps) \o fs
<1> DEFINE qs == [n \in DOMAIN fs |-> [finding |-> fs[n], resource_type |-> type]]
           both == ps \o qs
           M == Len(ps)
           N == Len(fs)
<1>1. /\ M \in Nat /\ DOMAIN ps = 1..M /\ \A n \in 1..M : ps[n] \in Pairs
      /\ N \in Nat /\ DOMAIN fs = 1..N /\ \A n \in 1..N : fs[n] \in Findings
  BY LenProperties, ElementOfSeq
<1>2. qs \in Seq(Pairs) /\ Len(qs) = N /\ \A n \in 1..N : qs[n].finding = fs[n]
  <2>1. qs \in [1..N -> Pairs]
    BY <1>1 DEF Pairs
  <2>2. \A n \in 1..N : qs[n].finding = fs[n]
    BY <1>1
  <2> HIDE DEF qs
  <2> QED
    BY <1>1, <2>1, <2>2, FunctionIsSeq
<1> HIDE DEF qs, M, N
<1>3. /\ both \in Seq(Pairs) /\ Len(both) = M + N
      /\ \A n \in 1..(M + N) : both[n] = IF n <= M THEN ps[n] ELSE qs[n - M]
  BY <1>2, ConcatProperties DEF M
<1>4. Rows(ps) \in Seq(Findings) /\ Len(Rows(ps)) = M /\ \A n \in 1..M : Rows(ps)[n] = ps[n].finding
  <2>1. Rows(ps) \in [1..M -> Findings]
    BY <1>1 DEF Rows, Pairs
  <2>2. \A n \in 1..M : Rows(ps)[n] = ps[n].finding
    BY <1>1 DEF Rows
  <2> QED
    BY <1>1, <2>1, <2>2, FunctionIsSeq
<1> DEFINE joined == Rows(ps) \o fs
<1>5. /\ joined \in Seq(Findings) /\ Len(joined) = M + N
      /\ \A n \in 1..(M + N) : joined[n] = IF n <= M THEN Rows(ps)[n] ELSE fs[n - M]
  BY <1>4, ConcatProperties DEF N
<1> HIDE DEF both, joined
<1>6. DOMAIN both = 1..(M + N) /\ DOMAIN joined = 1..(M + N)
  BY <1>3, <1>5, LenProperties
<1>7. ASSUME NEW n \in 1..(M + N)
      PROVE  both[n].finding = joined[n]
  <2>1. CASE n <= M
    <3>1. n \in 1..M
      BY <1>1, <2>1
    <3> QED
      BY <2>1, <3>1, <1>3, <1>4, <1>5
  <2>2. CASE ~(n <= M)
    <3>1. n - M \in 1..N
      BY <1>1, <2>2
    <3> QED
      BY <2>2, <3>1, <1>2, <1>3, <1>5
  <2> QED
    BY <2>1, <2>2
<1>8. Rows(both) = [n \in 1..(M + N) |-> joined[n]]
  BY <1>6, <1>7 DEF Rows
<1>9. joined = [n \in 1..(M + N) |-> joined[n]]
  <2>1. joined = [n \in DOMAIN joined |-> joined[n]]
    BY <1>5
  <2> QED
    BY <2>1, <1>6
<1> QED
  BY <1>3, <1>8, <1>9 DEF both, joined, qs

LEMMA CollectKeeps ==
    ASSUME LoopInv, Collect
    PROVE  LoopInv'
<1> DEFINE fs == Produced.findings
           type == resource.type
           qs == [n \in DOMAIN fs |-> [finding |-> fs[n], resource_type |-> type]]
<1>1. /\ InLoop /\ Advance /\ pairs' = pairs \o qs /\ failures' = failures
      /\ resource.type \in rule.resource_types /\ ~Produced.raised
  BY DEF Collect
<1>2. fs \in Seq(Findings) /\ type \in STRING
  BY <1>1, AtHand DEF Given, Resources
<1>3. Heard = fs /\ Noted = << >>
  BY <1>1 DEF Heard, Noted, Audited!Opinion, Audited!Failure, Produced
<1>4. failures \o << >> = failures
  BY SoFarType, ConcatEmptySeq
<1>5. pairs \in Seq(Pairs)
  BY DEF LoopInv, Typed
<1> HIDE DEF fs, type
<1>6. pairs \o qs \in Seq(Pairs) /\ Rows(pairs \o qs) = Rows(pairs) \o fs
  BY <1>2, <1>5, RowsConcat
<1> HIDE DEF qs
<1> QED
  BY <1>1, <1>3, <1>4, <1>6, PassKeeps

LEMMA CountsType ==
    ASSUME NEW ps \in Seq(Pairs)
    PROVE  severity_counts(ps) \in [SEVERITIES -> Nat]
<1>1. Len(ps) \in Nat /\ DOMAIN ps = 1..Len(ps)
  BY LenProperties
<1>2. IsFiniteSet(1..Len(ps))
  BY <1>1, FS_Interval
<1>3. ASSUME NEW s
      PROVE  Cardinality({n \in DOMAIN ps : ps[n].finding.severity = s}) \in Nat
  <2> DEFINE K == {n \in DOMAIN ps : ps[n].finding.severity = s}
  <2>1. K \in SUBSET (1..Len(ps))
    BY <1>1
  <2> HIDE DEF K
  <2>2. Cardinality(K) \in Nat
    BY <1>2, <2>1, FS_Subset, FS_CardinalityType
  <2> QED
    BY <2>2 DEF K
<1> QED
  BY <1>3 DEF severity_counts

LEMMA PersistKeeps ==
    ASSUME LoopInv, Persist
    PROVE  LoopInv'
<1>1. /\ UNCHANGED <<content, template, i, j, pairs, failures>>
      /\ stage = "evaluate" /\ stage' = "persisted" /\ counts' = severity_counts(pairs)
      /\ i > Len(template.resources)
  BY DEF Persist
<1>2. Typed'
  BY <1>1, CountsType DEF LoopInv, Typed, Stages
<1>3. OfItsContent' /\ LoopBounds'
  BY <1>1 DEF LoopInv, OfItsContent, LoopBounds
<1>4. SoFar'
  BY <1>1 DEF LoopInv, SoFar, Rows
<1> QED
  BY <1>2, <1>3, <1>4 DEF LoopInv

LEMMA StepKeeps == LoopInv /\ [Next]_vars => LoopInv'
<1> SUFFICES ASSUME LoopInv, [Next]_vars
             PROVE  LoopInv'
  OBVIOUS
<1>1. CASE UNCHANGED vars
  BY <1>1 DEF vars, LoopInv, Typed, OfItsContent, LoopBounds, SoFar, Rows
<1> QED
  BY <1>1, ParseKeeps, SkipKeeps, CollectKeeps, RuleRaisesKeeps, PersistKeeps DEF Next

\* scanner.py, the loop over resources and rules: LoopInv holds of a scan of any
\* one document.
THEOREM Invariant == Spec => []LoopInv
BY InvAtInit, StepKeeps, PTL DEF Spec

\* What the author adds is a document, until it is posted.
Authoring ==
    /\ entries \in Seq(Entries)
    /\ entries # << >> => content = Authored(entries)

DocumentInv == LoopInv /\ Authoring

LEMMA AuthoredIsDocument ==
    ASSUME NEW es \in Seq(Entries)
    PROVE  Authored(es) \in Documents
<1>1. Document(es) \in Within[Depth]
  BY DocumentNodes
<1> QED
  BY <1>1 DEF Authored, Documents

LEMMA AddKeeps ==
    ASSUME DocumentInv, NEW id \in Ids, NEW body \in Bodies, Add(id, body)
    PROVE  DocumentInv'
<1>1. /\ stage = "parse" /\ entries' = Append(entries, Pair(id, body)) /\ content' = Authored(entries')
      /\ UNCHANGED <<stage, template, i, j, pairs, failures, counts>>
  BY DEF Add
<1>2. entries \in Seq(Entries) /\ Pair(id, body) \in Entries
  BY DEF DocumentInv, Authoring, Pair, Entries
<1>3. entries' \in Seq(Entries)
  BY <1>1, <1>2, AppendProperties
<1>4. content' \in Documents
  BY <1>1, <1>3, AuthoredIsDocument
<1>5. Typed'
  BY <1>1, <1>4 DEF DocumentInv, LoopInv, Typed
<1>6. OfItsContent' /\ LoopBounds'
  BY <1>1 DEF DocumentInv, LoopInv, OfItsContent, LoopBounds
<1>7. SoFar'
  BY <1>1 DEF DocumentInv, LoopInv, SoFar, Rows
<1> QED
  BY <1>1, <1>3, <1>5, <1>6, <1>7 DEF DocumentInv, LoopInv, Authoring

LEMMA DocumentStepKeeps == DocumentInv /\ [DocumentNext]_<<vars, entries>> => DocumentInv'
<1> SUFFICES ASSUME DocumentInv, [DocumentNext]_<<vars, entries>>
             PROVE  DocumentInv'
  OBVIOUS
<1>1. CASE \E id \in Ids, body \in Bodies : Add(id, body)
  BY <1>1, AddKeeps
<1>2. CASE [Next]_vars /\ UNCHANGED entries
  <2>1. LoopInv'
    BY <1>2, StepKeeps DEF DocumentInv
  <2>2. content' = content
    BY <1>2 DEF vars, Next, Parse, Skip, Collect, RuleRaises, Persist, Advance
  <2> QED
    BY <1>2, <2>1, <2>2 DEF DocumentInv, Authoring
<1> QED
  BY <1>1, <1>2 DEF DocumentNext

\* The same when an author writes the document first: what is scanned is what was
\* written, and nothing of the scan has happened while it is written.
THEOREM DocumentInvariant == DocumentSpec => []DocumentInv
<1>1. DocumentInit => DocumentInv
  BY InvAtInit, EmptySeq DEF DocumentInit, DocumentInv, Authoring
<1> QED
  BY <1>1, DocumentStepKeeps, PTL DEF DocumentSpec

\* What a run of the scan looks like: every template has well-formed resources
\* or an error and none, the loop stays inside both lists, and only findings of
\* registered rules, with severities the counters know, are collected.
THEOREM TypeCorrect == (Spec => []TypeOK) /\ (DocumentSpec => []TypeOK)
<1>1. ASSUME LoopInv
      PROVE  TypeOK
  <2> DEFINE R == template.resources
  <2>1. R \in Seq(Resources) /\ Len(R) \in Nat /\ DOMAIN R = 1..Len(R)
    BY <1>1, LenProperties DEF LoopInv, Typed
  <2>2. \A n \in DOMAIN R : /\ R[n].logical_id \in STRING /\ R[n].type \in STRING \ {""}
                            /\ IsDict(R[n].properties)
    <3>1. \A n \in DOMAIN R : R[n] \in Resources
      BY <2>1, ElementOfSeq
    <3>2. \A r \in Resources : /\ r.logical_id \in STRING /\ r.type \in STRING \ {""}
                               /\ IsDict(r.properties)
      BY DEF Resources
    <3> QED
      BY <3>1, <3>2
  <2>3. /\ template.error \in Errors \cup {"pending", "none"}
        /\ template.error = "none" <=> R # << >>
    <3>1. CASE stage = "parse"
      BY <1>1, <3>1 DEF LoopInv, OfItsContent, NoTemplate
    <3>2. CASE stage # "parse"
      <4>1. Parsed(template)
        BY <1>1, <3>2, ContentIsParsed DEF LoopInv, Typed, OfItsContent
      <4> QED
        BY <4>1 DEF Parsed, Errors
    <3> QED
      BY <3>1, <3>2
  <2>4. \A n \in DOMAIN pairs : /\ pairs[n].finding.rule_id \in RuleIds
                                /\ pairs[n].finding.severity \in SEVERITIES
    <3>1. \A n \in DOMAIN pairs : pairs[n] \in Pairs
      BY <1>1, LenProperties, ElementOfSeq DEF LoopInv, Typed
    <3> QED
      BY <3>1 DEF Pairs, Findings
  <2>5. stage \in Stages /\ i \in 1..(Len(R) + 1) /\ j \in 1..10 /\ counts \in [SEVERITIES -> Nat]
    BY <1>1 DEF LoopInv, Typed
  <2> QED
    BY <2>2, <2>3, <2>4, <2>5, RuleFacts DEF TypeOK, Stages, Errors
<1> QED
  BY <1>1, Invariant, DocumentInvariant, PTL DEF DocumentInv

LEMMA VerdictOf ==
    ASSUME NEW c, NEW R, R = parse_template(c).resources
    PROVE  Audited!Verdict(c) =
              [error |-> parse_template(c).error,
               rows |-> FlattenSeq([n \in DOMAIN R |-> FlattenSeq(Said(R)[n])]),
               failures |-> FlattenSeq([n \in DOMAIN R |-> FlattenSeq(Logged(R)[n])])]
<1>1. \A ss : Audited!FlattenSeq(ss) = FlattenSeq(ss)
  BY DEF Audited!FlattenSeq, FlattenSeq
<1>2. \A n \in DOMAIN R : Audited!Opinions(R[n]) = FlattenSeq(Said(R)[n])
  BY <1>1 DEF Audited!Opinions, Audited!WholeRegistry, Said
<1>3. \A n \in DOMAIN R : Audited!Failures(R[n]) = FlattenSeq(Logged(R)[n])
  BY <1>1 DEF Audited!Failures, Audited!WholeRegistry, Logged
<1>4. Audited!Verdict(c) =
         [error |-> parse_template(c).error,
          rows |-> Audited!FlattenSeq([n \in DOMAIN R |-> Audited!Opinions(R[n])]),
          failures |-> Audited!FlattenSeq([n \in DOMAIN R |-> Audited!Failures(R[n])])]
  BY DEF Audited!Verdict
<1> QED
  BY <1>1, <1>2, <1>3, <1>4

\* The loop is over: what was collected and logged is what the whole registry says.
LEMMA LoopGivesVerdict ==
    ASSUME LoopInv, stage = "evaluate", i > Len(template.resources)
    PROVE  [error |-> "none", rows |-> Rows(pairs), failures |-> failures] = Audited!Verdict(content)
<1> DEFINE R == template.resources
<1>1. /\ template = parse_template(content) /\ template.error = "none"
      /\ R \in Seq(Resources) /\ Len(R) \in Nat /\ DOMAIN R = 1..Len(R)
      /\ i = Len(R) + 1 /\ j = 1
  BY LenProperties DEF LoopInv, OfItsContent, Typed, LoopBounds
<1>2. R = parse_template(content).resources
  BY <1>1
<1>3. Rows(pairs) = So(Said(R), Len(R) + 1, 1) /\ failures = So(Logged(R), Len(R) + 1, 1)
  BY <1>1 DEF LoopInv, SoFar
<1> HIDE DEF R
<1>4. /\ Rows(pairs) = FlattenSeq(Outer(Said(R), Len(R)))
      /\ failures = FlattenSeq(Outer(Logged(R), Len(R)))
  BY <1>1, <1>3, Tables, AllSo
<1>5. /\ Outer(Said(R), Len(R)) = [n \in DOMAIN R |-> FlattenSeq(Said(R)[n])]
      /\ Outer(Logged(R), Len(R)) = [n \in DOMAIN R |-> FlattenSeq(Logged(R)[n])]
  BY <1>1 DEF Outer
<1>6. parse_template(content).error = "none"
  BY <1>1
<1>7. Audited!Verdict(content) =
         [error |-> parse_template(content).error,
          rows |-> FlattenSeq([n \in DOMAIN R |-> FlattenSeq(Said(R)[n])]),
          failures |-> FlattenSeq([n \in DOMAIN R |-> FlattenSeq(Logged(R)[n])])]
  BY <1>2, VerdictOf
<1> QED
  BY <1>4, <1>5, <1>6, <1>7

\* scanner.py, the loop refines the audit in one step: whatever the content, the
\* rows and the log of a scan are those of every rule asked once about each
\* resource of its types, in the order of resources and rules, and a rule that
\* raises costs no other rule or resource a finding.
THEOREM LoopIsAudit == (Spec => ImplementsAudit) /\ (DocumentSpec => ImplementsAudit)
<1>1. Init => verdict = Audited!Pending
  BY DEF Init, verdict, Audited!Pending
<1>2. LoopInv /\ [Next]_vars => [Audited!Scan \/ Audited!Edit]_<<content, verdict>>
  <2> SUFFICES ASSUME LoopInv, [Next]_vars
               PROVE  [Audited!Scan \/ Audited!Edit]_<<content, verdict>>
    OBVIOUS
  <2>1. CASE UNCHANGED vars
    <3>1. UNCHANGED <<content, verdict>>
      BY <2>1 DEF vars, verdict
    <3> QED
      BY <3>1
  <2>2. CASE Parse
    <3> DEFINE t == parse_template(content)
    <3>1. /\ stage = "parse" /\ template' = t /\ UNCHANGED <<content, pairs, failures>>
          /\ stage' = IF t.error = "none" THEN "evaluate" ELSE "refused"
      BY <2>2 DEF Parse
    <3>2. pairs = << >> /\ failures = << >>
      <4>1. /\ template.resources = << >> /\ i = 1 /\ j = 1 /\ pairs \in Seq(Pairs)
        BY <3>1 DEF LoopInv, OfItsContent, NoTemplate, Typed, LoopBounds
      <4>2. /\ So(Said(template.resources), 1, 1) = << >>
            /\ So(Logged(template.resources), 1, 1) = << >>
        BY Tables, NothingSo DEF LoopInv, Typed
      <4>3. Rows(pairs) = << >> /\ failures = << >>
        BY <4>1, <4>2 DEF LoopInv, SoFar
      <4>4. DOMAIN pairs = {}
        <5>1. DOMAIN pairs = DOMAIN Rows(pairs)
          BY DEF Rows
        <5> QED
          BY <4>3, <5>1
      <4>5. pairs = << >>
        BY <4>1, <4>4, LenProperties, EmptySeq
      <4> QED
        BY <4>3, <4>5
    <3>3. verdict = Audited!Pending
      BY <3>1 DEF verdict, Audited!Pending
    <3>4. CASE t.error = "none"
      <4>1. verdict' = verdict
        BY <3>1, <3>3, <3>4 DEF verdict, Audited!Pending
      <4> QED
        BY <3>1, <4>1
    <3>5. CASE t.error # "none"
      <4>1. t.resources = << >>
        BY <3>5, ContentIsParsed DEF Parsed, LoopInv, Typed
      <4>2. Audited!Verdict(content) = [error |-> t.error, rows |-> << >>, failures |-> << >>]
        <5> DEFINE R == t.resources
        <5>1. DOMAIN R = {}
          BY <4>1
        <5>2. Audited!Verdict(content) =
                 [error |-> t.error,
                  rows |-> FlattenSeq([n \in DOMAIN R |-> FlattenSeq(Said(R)[n])]),
                  failures |-> FlattenSeq([n \in DOMAIN R |-> FlattenSeq(Logged(R)[n])])]
          BY VerdictOf
        <5> HIDE DEF R
        <5>3. /\ [n \in DOMAIN R |-> FlattenSeq(Said(R)[n])] = << >>
              /\ [n \in DOMAIN R |-> FlattenSeq(Logged(R)[n])] = << >>
          BY <5>1
        <5> QED
          BY <5>2, <5>3, FlattenNone
      <4>3. verdict' = [error |-> t.error, rows |-> << >>, failures |-> << >>]
        BY <3>1, <3>2, <3>5 DEF verdict
      <4>4. Audited!Scan
        BY <3>1, <3>3, <4>2, <4>3 DEF Audited!Scan
      <4> QED
        BY <4>4
    <3> QED
      BY <3>4, <3>5
  <2>3. CASE Skip \/ Collect \/ RuleRaises
    <3>1. /\ stage = "evaluate" /\ stage' = stage /\ content' = content
      BY <2>3 DEF Skip, Collect, RuleRaises, InLoop, Advance
    <3>2. UNCHANGED <<content, verdict>>
      BY <3>1 DEF verdict
    <3> QED
      BY <3>2
  <2>4. CASE Persist
    <3>1. /\ stage = "evaluate" /\ i > Len(template.resources) /\ stage' = "persisted"
          /\ UNCHANGED <<content, template, pairs, failures>>
      BY <2>4 DEF Persist
    <3>2. verdict = Audited!Pending
      BY <3>1 DEF verdict, Audited!Pending
    <3>3. verdict' = [error |-> "none", rows |-> Rows(pairs), failures |-> failures]
      BY <3>1 DEF verdict, Rows, LoopInv, OfItsContent
    <3>4. verdict' = Audited!Verdict(content)
      BY <3>1, <3>3, LoopGivesVerdict
    <3>5. Audited!Scan
      BY <3>1, <3>2, <3>4 DEF Audited!Scan
    <3> QED
      BY <3>5
  <2> QED
    BY <2>1, <2>2, <2>3, <2>4 DEF Next
<1>3. LoopInv /\ [DocumentNext]_<<vars, entries>> => [Audited!Scan \/ Audited!Edit]_<<content, verdict>>
  <2>1. ASSUME NEW id \in Ids, NEW body \in Bodies, Add(id, body)
        PROVE  Audited!Edit
    <3>1. stage = "parse" /\ stage' = stage
      BY <2>1 DEF Add
    <3> QED
      BY <3>1 DEF Audited!Edit, Audited!Pending, verdict
  <2> QED
    BY <1>2, <2>1 DEF DocumentNext
<1> QED
  BY <1>1, <1>2, <1>3, Invariant, DocumentInvariant, PTL
     DEF Spec, DocumentSpec, DocumentInit, DocumentInv, ImplementsAudit, Audited!Spec
-----------------------------------------------------------------------------
(* An intrinsic in the place of a property's value *)

LEMMA ReferenceFacts ==
    /\ is_intrinsic(Reference) /\ IsDict(Reference) /\ ~IsList(Reference)
    /\ Reference # None
    /\ literal_or_none(Reference) = None
<1> DEFINE item == Item(Str("Fn::If"), Str("x"))
<1>1. Reference.dict = <<item>> /\ DOMAIN Reference = {"dict"}
  BY DEF Reference, Dict
<1>2. item.key = Str("Fn::If")
  BY DEF Item
<1> HIDE DEF item
<1>3. Len(Reference.dict) = 1 /\ Reference.dict[1].key = Str("Fn::If")
  BY <1>1, <1>2
<1>4. Str("Fn::If") \in {Str(k) : k \in INTRINSIC_KEYS}
  <2>1. "Fn::If" \in INTRINSIC_KEYS
    BY DEF INTRINSIC_KEYS
  <2> QED
    BY <2>1
<1>5. IsDict(Reference) /\ ~IsList(Reference)
  BY <1>1 DEF IsDict, IsList
<1>6. is_intrinsic(Reference)
  BY <1>3, <1>4, <1>5 DEF is_intrinsic
<1>7. Reference # None
  BY <1>5, NoneFacts
<1> QED
  BY <1>5, <1>6, <1>7 DEF literal_or_none

\* The resource is the same but for one property, which is there as before.
LEMMA Substituted ==
    ASSUME NEW r \in Resources, NEW n \in DOMAIN r.properties.dict,
           NEW q, q = WithIntrinsic(r, n)
    PROVE  /\ q.type = r.type /\ q.logical_id = r.logical_id
           /\ \A name : Has(q, name) <=> Has(r, name)
           /\ \A name : Property(q, name) = Property(r, name) \/ Property(q, name) = Reference
           /\ \A name : Literal(q, name) = Literal(r, name) \/ Literal(q, name) = None
<1> DEFINE D == r.properties.dict
           E == q.properties.dict
<1>1. r \in [logical_id : STRING, type : STRING \ {""}, properties : PyValues] /\ IsDict(r.properties)
  BY DEF Resources
<1>2. r.properties \in [dict : Seq(Items)] /\ D \in Seq(Items)
  BY <1>1, PyValue
<1>3. q = [r EXCEPT !.properties = Dict([D EXCEPT ![n].value = Reference])]
  BY DEF WithIntrinsic
<1>4. q.type = r.type /\ q.logical_id = r.logical_id
  BY <1>1, <1>3
<1>5. E = [D EXCEPT ![n].value = Reference]
  <2> DEFINE changed == [D EXCEPT ![n].value = Reference]
  <2>1. q = [r EXCEPT !.properties = Dict(changed)]
    BY <1>3
  <2> HIDE DEF changed
  <2>2. q.properties = Dict(changed)
    BY <1>1, <2>1
  <2>3. E = changed
    BY <2>2 DEF Dict
  <2> QED
    BY <2>3 DEF changed
<1> HIDE DEF E
<1>6. /\ DOMAIN E = DOMAIN D
      /\ \A m \in DOMAIN D : D[m] \in Items
  BY <1>2, <1>5, ElementOfSeq, LenProperties
<1>7. \A m \in DOMAIN D : /\ E[m].key = D[m].key
                          /\ E[m].value = D[m].value \/ E[m].value = Reference
  <2>1. TAKE m \in DOMAIN D
  <2>2. D[m] = [key |-> D[m].key, value |-> D[m].value]
    BY <1>6 DEF Items
  <2>3. CASE m = n
    <3>1. E[m] = [D[m] EXCEPT !.value = Reference]
      BY <1>5, <2>3
    <3> QED
      BY <2>2, <3>1
  <2>4. CASE m # n
    BY <1>5, <2>4
  <2> QED
    BY <2>3, <2>4
<1> DEFINE P == r.properties
           Q == q.properties
<1>8. P.dict = D /\ Q.dict = E
  BY DEF E
<1> HIDE DEF P, Q, D
<1>9. ASSUME NEW key
      PROVE  /\ HasKey(Q, key) <=> HasKey(P, key)
             /\ Get(Q, key) = Get(P, key) \/ Get(Q, key) = Reference
  <2> DEFINE at == CHOOSE m \in DOMAIN D : D[m].key = key
             bt == CHOOSE m \in DOMAIN E : E[m].key = key
  <2>1. HasKey(Q, key) <=> HasKey(P, key)
    BY <1>6, <1>7, <1>8 DEF HasKey
  <2>2. at = bt
    BY <1>6, <1>7
  <2>3. CASE HasKey(P, key)
    <3>1. at \in DOMAIN D
      BY <1>8, <2>3 DEF HasKey
    <3>2. Get(P, key) = D[at].value /\ Get(Q, key) = E[bt].value
      BY <1>8, <2>1, <2>3 DEF Get
    <3> HIDE DEF at, bt
    <3> QED
      BY <1>7, <2>1, <2>2, <3>1, <3>2
  <2>4. CASE ~HasKey(P, key)
    BY <2>1, <2>4 DEF Get
  <2> QED
    BY <2>1, <2>3, <2>4
<1>10. \A name : Has(q, name) <=> Has(r, name)
  BY <1>9 DEF Has, P, Q
<1>11. \A name : Property(q, name) = Property(r, name) \/ Property(q, name) = Reference
  BY <1>9 DEF Property, P, Q
<1>12. \A name : Literal(q, name) = Literal(r, name) \/ Literal(q, name) = None
  BY <1>11, ReferenceFacts DEF Literal
<1> QED
  BY <1>4, <1>10, <1>11, <1>12

\* No more findings than before.
NoMore(e, f) == Len(e.findings) <= Len(f.findings)

LEMMA FiresNoMore ==
    ASSUME NEW q, NEW r, NEW id, NEW severity, NEW after, NEW before,
           after \in BOOLEAN, before \in BOOLEAN, after => before
    PROVE  NoMore(FiresWhen(after, id, severity, q), FiresWhen(before, id, severity, r))
<1> DEFINE f == Finding(id, severity, q)
           g == Finding(id, severity, r)
<1>1. /\ FiresWhen(after, id, severity, q) = Returns(IF after THEN <<f>> ELSE << >>)
      /\ FiresWhen(before, id, severity, r) = Returns(IF before THEN <<g>> ELSE << >>)
  BY DEF FiresWhen
<1> HIDE DEF f, g
<1>2. Len(<<f>>) = 1 /\ Len(<<g>>) = 1 /\ Len(<< >>) = 0
  OBVIOUS
<1> QED
  BY <1>1, <1>2 DEF Returns, NoMore

\* How many findings the documents give.
Count(docs, field, f) == Len(FlattenSeq(Found(docs, field, f)))

LEMMA CountNone ==
    ASSUME NEW field, NEW f
    PROVE  Count(<< >>, field, f) = 0
<1>1. Found(<< >>, field, f) = << >>
  BY DEF Found
<1> QED
  BY <1>1, FlattenNone DEF Count

LEMMA CountConcat ==
    ASSUME NEW s \in Seq(PyValues), NEW t \in Seq(PyValues), NEW field, NEW f \in Findings
    PROVE  /\ Count(s \o t, field, f) = Count(s, field, f) + Count(t, field, f)
           /\ Count(s, field, f) \in Nat /\ Count(t, field, f) \in Nat
<1> DEFINE M == Len(s)
           N == Len(t)
           st == s \o t
           F == Found(s, field, f)
           G == Found(t, field, f)
           H == Found(st, field, f)
<1>1. /\ M \in Nat /\ DOMAIN s = 1..M /\ N \in Nat /\ DOMAIN t = 1..N
      /\ st \in Seq(PyValues) /\ Len(st) = M + N
      /\ \A n \in 1..(M + N) : st[n] = IF n <= M THEN s[n] ELSE t[n - M]
  BY ConcatProperties, LenProperties
<1>2. /\ F \in Seq(Seq(Findings)) /\ Len(F) = M
      /\ G \in Seq(Seq(Findings)) /\ Len(G) = N
  BY FoundType
<1>3. H \in Seq(Seq(Findings)) /\ Len(H) = M + N
  BY <1>1, FoundType
<1> DEFINE FG == F \o G
<1>4. /\ FG \in Seq(Seq(Findings)) /\ Len(FG) = M + N
      /\ \A n \in 1..(M + N) : FG[n] = IF n <= M THEN F[n] ELSE G[n - M]
  <2> HIDE DEF F, G, M, N
  <2>1. /\ FG \in Seq(Seq(Findings)) /\ Len(FG) = Len(F) + Len(G)
        /\ \A n \in 1..(Len(F) + Len(G)) : FG[n] = IF n <= Len(F) THEN F[n] ELSE G[n - Len(F)]
    BY <1>2, ConcatProperties
  <2> HIDE DEF FG
  <2> QED
    BY <1>2, <2>1
<1> DEFINE Repeated(d) == [k \in 1..Cardinality(starred(d, field)) |-> f]
<1>5. /\ \A n \in 1..M : F[n] = Repeated(s[n])
      /\ \A n \in 1..N : G[n] = Repeated(t[n])
  BY <1>1 DEF Found
<1>6. DOMAIN st = 1..(M + N)
  BY <1>1, LenProperties
<1> HIDE DEF st
<1>7. \A n \in 1..(M + N) : H[n] = Repeated(st[n])
  BY <1>6 DEF Found
<1> HIDE DEF F, G, H, FG, Repeated, M, N
<1>8. ASSUME NEW n \in 1..(M + N)
      PROVE  H[n] = FG[n]
  <2>1. CASE n <= M
    <3>1. n \in 1..M
      BY <1>1, <2>1
    <3> QED
      BY <2>1, <3>1, <1>1, <1>4, <1>5, <1>7
  <2>2. CASE ~(n <= M)
    <3>1. n - M \in 1..N
      BY <1>1, <2>2
    <3> QED
      BY <2>2, <3>1, <1>1, <1>4, <1>5, <1>7
  <2> QED
    BY <2>1, <2>2
<1>9. H = FG
  <2>1. DOMAIN H = 1..(M + N) /\ DOMAIN FG = 1..(M + N)
    BY <1>3, <1>4, LenProperties
  <2>2. H = [n \in DOMAIN H |-> H[n]] /\ FG = [n \in DOMAIN FG |-> FG[n]]
    BY <1>3, <1>4
  <2> QED
    BY <1>8, <2>1, <2>2
<1>10. FlattenSeq(H) = FlattenSeq(F) \o FlattenSeq(G)
  BY <1>2, <1>9, FlattenConcat DEF FG
<1>11. FlattenSeq(F) \in Seq(Findings) /\ FlattenSeq(G) \in Seq(Findings)
  BY <1>2, FlattenType
<1>12. /\ Len(FlattenSeq(H)) = Len(FlattenSeq(F)) + Len(FlattenSeq(G))
       /\ Len(FlattenSeq(F)) \in Nat /\ Len(FlattenSeq(G)) \in Nat
  BY <1>10, <1>11, ConcatProperties, LenProperties
<1> QED
  BY <1>12 DEF Count, F, G, H, st

LEMMA NotNoneOfNone ==
    not_none(<< >>) = << >> /\ not_none(<<None>>) = << >>
<1>1. {n \in DOMAIN << >> : << >>[n] # None} = {}
  OBVIOUS
<1>2. {n \in DOMAIN <<None>> : <<None>>[n] # None} = {}
  OBVIOUS
<1> QED
  BY <1>1, <1>2, KeptNone DEF not_none

\* Each part of the documents is as before or gone.
LEMMA PartsSubstituted ==
    ASSUME NEW r \in Resources, NEW n \in DOMAIN r.properties.dict,
           NEW q, q = WithIntrinsic(r, n)
    PROVE  /\ SinglePart(q) = SinglePart(r) \/ SinglePart(q) = << >>
           /\ InlinePart(q) = InlinePart(r) \/ InlinePart(q) = << >>
           /\ AssumePart(q) = AssumePart(r) \/ AssumePart(q) = << >>
<1>1. /\ q.type = r.type
      /\ \A name : Literal(q, name) = Literal(r, name) \/ Literal(q, name) = None
  BY Substituted
<1>2. SinglePart(q) = SinglePart(r) \/ SinglePart(q) = << >>
  BY <1>1, NotNoneOfNone DEF SinglePart
<1>3. AssumePart(q) = AssumePart(r) \/ AssumePart(q) = << >>
  BY <1>1, NotNoneOfNone DEF AssumePart
<1>4. InlinePart(q) = InlinePart(r) \/ InlinePart(q) = << >>
  <2>1. CASE Literal(q, "Policies") = Literal(r, "Policies")
    BY <1>1, <2>1 DEF InlinePart
  <2>2. CASE Literal(q, "Policies") = None
    BY <2>2, NoneFacts, NotNoneOfNone DEF InlinePart
  <2> QED
    BY <1>1, <2>1, <2>2
<1> QED
  BY <1>2, <1>3, <1>4

LEMMA StarNoMore ==
    ASSUME NEW r \in Resources, NEW n \in DOMAIN r.properties.dict,
           NEW q, q = WithIntrinsic(r, n),
           NEW field, NEW id \in RuleIds, NEW severity \in SEVERITIES
    PROVE  NoMore(StarFindings(q, field, id, severity), StarFindings(r, field, id, severity))
<1> DEFINE f == Finding(id, severity, r)
           a == SinglePart(r)
           b == InlinePart(r)
           c == AssumePart(r)
           x == SinglePart(q)
           y == InlinePart(q)
           z == AssumePart(q)
<1>1. f \in Findings /\ Finding(id, severity, q) = f
  BY FindingType, Substituted DEF Finding
<1>2. a \in Seq(PyValues) /\ b \in Seq(PyValues) /\ c \in Seq(PyValues)
  BY PartsType
<1>3. (x = a \/ x = << >>) /\ (y = b \/ y = << >>) /\ (z = c \/ z = << >>)
  BY PartsSubstituted
<1>4. iter_policy_documents(r) = (a \o b) \o c /\ iter_policy_documents(q) = (x \o y) \o z
  BY PartsOfDocuments
<1>5. /\ Len(StarFindings(r, field, id, severity).findings) = Count((a \o b) \o c, field, f)
      /\ Len(StarFindings(q, field, id, severity).findings) = Count((x \o y) \o z, field, f)
  BY <1>1, <1>4 DEF StarFindings, Returns, Found, Count
<1> HIDE DEF f, a, b, c, x, y, z
<1>6. x \in Seq(PyValues) /\ y \in Seq(PyValues) /\ z \in Seq(PyValues)
  BY <1>2, <1>3, EmptySeq
<1>7. ASSUME NEW u \in Seq(PyValues), NEW v \in Seq(PyValues), NEW w \in Seq(PyValues)
      PROVE  /\ Count((u \o v) \o w, field, f) =
                   (Count(u, field, f) + Count(v, field, f)) + Count(w, field, f)
             /\ Count(u, field, f) \in Nat /\ Count(v, field, f) \in Nat
             /\ Count(w, field, f) \in Nat
  <2> DEFINE uv == u \o v
  <2>1. /\ uv \in Seq(PyValues)
        /\ Count(uv, field, f) = Count(u, field, f) + Count(v, field, f)
        /\ Count(u, field, f) \in Nat /\ Count(v, field, f) \in Nat
    BY <1>1, ConcatProperties, CountConcat
  <2> HIDE DEF uv
  <2>2. /\ Count(uv \o w, field, f) = Count(uv, field, f) + Count(w, field, f)
        /\ Count(w, field, f) \in Nat
    BY <1>1, <2>1, CountConcat
  <2> QED
    BY <2>1, <2>2 DEF uv
<1>8. Count(<< >>, field, f) = 0
  BY CountNone
<1>9. /\ Count(x, field, f) <= Count(a, field, f) /\ Count(y, field, f) <= Count(b, field, f)
      /\ Count(z, field, f) <= Count(c, field, f)
  <2>1. Count(a, field, f) \in Nat /\ Count(b, field, f) \in Nat /\ Count(c, field, f) \in Nat
    BY <1>2, <1>7
  <2>2. /\ Count(x, field, f) = Count(a, field, f) \/ Count(x, field, f) = 0
        /\ Count(y, field, f) = Count(b, field, f) \/ Count(y, field, f) = 0
        /\ Count(z, field, f) = Count(c, field, f) \/ Count(z, field, f) = 0
    BY <1>3, <1>8
  <2> QED
    BY <2>1, <2>2
<1>10. Count((x \o y) \o z, field, f) <= Count((a \o b) \o c, field, f)
  <2>1. /\ Count((a \o b) \o c, field, f) =
              (Count(a, field, f) + Count(b, field, f)) + Count(c, field, f)
        /\ Count(a, field, f) \in Nat /\ Count(b, field, f) \in Nat
        /\ Count(c, field, f) \in Nat
    BY <1>2, <1>7
  <2>2. /\ Count((x \o y) \o z, field, f) =
              (Count(x, field, f) + Count(y, field, f)) + Count(z, field, f)
        /\ Count(x, field, f) \in Nat /\ Count(y, field, f) \in Nat
        /\ Count(z, field, f) \in Nat
    BY <1>6, <1>7
  <2> QED
    BY <1>9, <2>1, <2>2
<1> QED
  BY <1>5, <1>10 DEF NoMore

LEMMA IngressNoMore ==
    ASSUME NEW r \in Resources, NEW n \in DOMAIN r.properties.dict,
           NEW q, q = WithIntrinsic(r, n)
    PROVE  NoMore(SecurityGroupWideOpenIngress(q), SecurityGroupWideOpenIngress(r))
<1>1. /\ q.logical_id = r.logical_id
      /\ \/ Literal(q, "SecurityGroupIngress") = Literal(r, "SecurityGroupIngress")
         \/ Literal(q, "SecurityGroupIngress") = None
  BY Substituted
<1>2. CASE Literal(q, "SecurityGroupIngress") = Literal(r, "SecurityGroupIngress")
  <2>1. \A e : IngressFinding(e, q) = IngressFinding(e, r)
    BY <1>1 DEF IngressFinding, Finding
  <2>2. SecurityGroupWideOpenIngress(q) = SecurityGroupWideOpenIngress(r)
    BY <1>2, <2>1 DEF SecurityGroupWideOpenIngress
  <2>3. SecurityGroupWideOpenIngress(r).findings \in Seq(Findings)
    BY IngressGives DEF Given
  <2>4. Len(SecurityGroupWideOpenIngress(r).findings) \in Nat
    BY <2>3, LenProperties
  <2> QED
    BY <2>2, <2>4 DEF NoMore
<1>3. CASE Literal(q, "SecurityGroupIngress") = None
  <2>1. Len(SecurityGroupWideOpenIngress(q).findings) = 0
    <3> DEFINE entry == << >>
               readable == {m \in DOMAIN entry : IsDict(entry[m]) /\ ~is_intrinsic(entry[m])}
               offending == {m \in readable : WideOpen(entry[m])}
               open == kept(entry, offending)
    <3>1. SecurityGroupWideOpenIngress(q) =
             IF \E m \in readable : CidrRaises(entry[m]) THEN Raises
             ELSE Returns([m \in DOMAIN open |-> IngressFinding(open[m], q)])
      BY <1>3, NoneFacts DEF SecurityGroupWideOpenIngress
    <3>2. readable = {} /\ offending = {}
      OBVIOUS
    <3>3. open = << >>
      BY <3>2, KeptNone
    <3> HIDE DEF open, readable
    <3>4. SecurityGroupWideOpenIngress(q) = Returns(<< >>)
      BY <3>1, <3>2, <3>3
    <3> QED
      BY <3>4 DEF Returns
  <2>2. SecurityGroupWideOpenIngress(r).findings \in Seq(Findings)
    BY IngressGives DEF Given
  <2>3. Len(SecurityGroupWideOpenIngress(r).findings) \in Nat
    BY <2>2, LenProperties
  <2> QED
    BY <2>1, <2>3 DEF NoMore
<1> QED
  BY <1>1, <1>2, <1>3

LEMMA RulesProveNothing ==
    ASSUME NEW r \in Resources, NEW n \in DOMAIN r.properties.dict,
           NEW q, q = WithIntrinsic(r, n), NEW id \in RuleIds
    PROVE  NoMore(evaluate(id, q), evaluate(id, r))
<1>1. /\ \A name : Has(q, name) <=> Has(r, name)
      /\ \A name : Property(q, name) = Property(r, name) \/ Property(q, name) = Reference
      /\ \A name : Literal(q, name) = Literal(r, name) \/ Literal(q, name) = None
  BY Substituted
<1>2. \A name : AbsentOrFalse(q, name) => AbsentOrFalse(r, name)
  BY <1>1, NoneFacts DEF AbsentOrFalse
<1>3. \A name : Has(q, name) \in BOOLEAN /\ Has(r, name) \in BOOLEAN
                /\ AbsentOrFalse(q, name) \in BOOLEAN /\ AbsentOrFalse(r, name) \in BOOLEAN
  BY DEF Has, HasKey, AbsentOrFalse
<1>4. CASE id = "CFN_CT_001"
  BY <1>1, <1>3, <1>4, FiresNoMore DEF evaluate, CloudTrailMissingKmsKeyId
<1>5. CASE id = "CFN_EC2_001"
  BY <1>2, <1>3, <1>5, FiresNoMore DEF evaluate, EbsVolumeNotEncrypted
<1>6. CASE id = "CFN_IAM_001"
  BY <1>6, StarNoMore DEF evaluate, IamAllowActionWildcard, SEVERITIES
<1>7. CASE id = "CFN_IAM_002"
  BY <1>7, StarNoMore DEF evaluate, IamAllowResourceWildcard, SEVERITIES
<1>8. CASE id = "CFN_RDS_001"
  BY <1>2, <1>3, <1>8, FiresNoMore DEF evaluate, RdsStorageNotEncrypted
<1>9. CASE id = "CFN_RDS_002"
  BY <1>1, <1>9, NoneFacts, FiresNoMore DEF evaluate, RdsPubliclyAccessible
<1>10. CASE id = "CFN_S3_001"
  BY <1>1, <1>3, <1>10, FiresNoMore DEF evaluate, S3MissingBucketEncryption
<1>11. CASE id = "CFN_S3_002"
  <2> DEFINE off(block) == {flag \in PUBLIC_ACCESS_BLOCK_FLAGS :
                               /\ HasKey(block, Str(flag))
                               /\ literal_or_none(Get(block, Str(flag))) = Bool(FALSE)}
             bad(block) == \/ block = None
                           \/ IsDict(block) /\ ~is_intrinsic(block) /\ off(block) # {}
             b == Property(r, "PublicAccessBlockConfiguration")
             c == Property(q, "PublicAccessBlockConfiguration")
  <2>1. /\ evaluate(id, r) = FiresWhen(bad(b), "CFN_S3_002", "CRITICAL", r)
        /\ evaluate(id, q) = FiresWhen(bad(c), "CFN_S3_002", "CRITICAL", q)
    BY <1>11 DEF evaluate, S3MissingPublicAccessBlock
  <2>2. bad(c) => bad(b)
    <3>1. c = b \/ c = Reference
      BY <1>1
    <3>2. ~bad(Reference)
      BY ReferenceFacts
    <3> HIDE DEF bad, b, c
    <3> QED
      BY <3>1, <3>2
  <2>3. bad(b) \in BOOLEAN /\ bad(c) \in BOOLEAN
    BY DEF IsDict, is_intrinsic
  <2> HIDE DEF bad
  <2> QED
    BY <2>1, <2>2, <2>3, FiresNoMore
<1>12. CASE id = "CFN_S3_003"
  <2> DEFINE b == Literal(r, "AccessControl")
             c == Literal(q, "AccessControl")
             public == {Str("PublicRead"), Str("PublicReadWrite")}
  <2>1. /\ evaluate(id, r) = IF ~Hashable(b) THEN Raises ELSE FiresWhen(b \in public, "CFN_S3_003", "CRITICAL", r)
        /\ evaluate(id, q) = IF ~Hashable(c) THEN Raises ELSE FiresWhen(c \in public, "CFN_S3_003", "CRITICAL", q)
    BY <1>12 DEF evaluate, S3PublicAcl
  <2>2. c = b \/ c = None
    BY <1>1
  <2>3. Hashable(None) /\ None \notin public
    BY NoneFacts
  <2>4. Len(Raises.findings) = 0
    BY DEF Raises
  <2> HIDE DEF b, c, public
  <2>5. CASE c = b
    <3>1. CASE ~Hashable(b)
      BY <2>1, <2>4, <2>5, <3>1 DEF NoMore
    <3>2. CASE Hashable(b)
      <4> DEFINE listed == b \in public
      <4>1. listed \in BOOLEAN
        OBVIOUS
      <4>2. /\ evaluate(id, r) = FiresWhen(listed, "CFN_S3_003", "CRITICAL", r)
            /\ evaluate(id, q) = FiresWhen(listed, "CFN_S3_003", "CRITICAL", q)
        BY <2>1, <2>5, <3>2
      <4> HIDE DEF listed
      <4> QED
        BY <4>1, <4>2, FiresNoMore
    <3> QED
      BY <3>1, <3>2
  <2>6. CASE c = None
    <3>1. evaluate(id, q) = Returns(<< >>)
      BY <2>1, <2>3, <2>6 DEF FiresWhen
    <3>2. Len(evaluate(id, q).findings) = 0
      BY <3>1 DEF Returns
    <3>3. Len(evaluate(id, r).findings) \in Nat
      BY Evaluated, LenProperties DEF Given
    <3> QED
      BY <3>2, <3>3 DEF NoMore
  <2> QED
    BY <2>2, <2>5, <2>6
<1>13. CASE id = "CFN_SG_001"
  BY <1>13, IngressNoMore DEF evaluate
<1> QED
  BY <1>4, <1>5, <1>6, <1>7, <1>8, <1>9, <1>10, <1>11, <1>12, <1>13, RuleFacts

\* base.py:34-35, of every rule, resource and property: an unresolved intrinsic in
\* the place of a value adds no finding.
THEOREM NothingProved == (Spec => []IntrinsicsProveNothing) /\ (DocumentSpec => []IntrinsicsProveNothing)
<1>1. ASSUME LoopInv
      PROVE  IntrinsicsProveNothing
  <2>1. \A m \in DOMAIN template.resources : template.resources[m] \in Resources
    BY <1>1, LenProperties, ElementOfSeq DEF LoopInv, Typed
  <2>2. ASSUME NEW r \in Resources, NEW n \in DOMAIN r.properties.dict, NEW id \in RuleIds
        PROVE  Len(evaluate(id, WithIntrinsic(r, n)).findings) <= Len(evaluate(id, r).findings)
    BY RulesProveNothing DEF NoMore
  <2> QED
    BY <2>1, <2>2 DEF IntrinsicsProveNothing
<1> QED
  BY <1>1, Invariant, DocumentInvariant, PTL DEF DocumentInv

-----------------------------------------------------------------------------
(* FindingsAsDocumented.  What a resource is given is the sum of what the  *)
(* rules for its type say, so the promise is proved type by type: by cases *)
(* for the rules that fire once, and for the two that fire once per entry  *)
(* or statement by matching, one to one, the positions that the code keeps *)
(* with the positions that the promise names.                              *)

\* The positions among K whose element is one of V.
Hits(s, K, V) == {k \in K : s[k] \in V}

\* As many of the kept elements are in a set as of those that were to be kept.
LEMMA KeptCount ==
    ASSUME NEW T, NEW s \in Seq(T), NEW K \in SUBSET DOMAIN s, NEW V
    PROVE  Cardinality(Hits(kept(s, K), DOMAIN kept(s, K), V)) = Cardinality(Hits(s, K, V))
<1>1. PICK place \in [1..Cardinality(K) -> K] :
              /\ \A m, n \in 1..Cardinality(K) : place[m] = place[n] => m = n
              /\ \A k \in K : \E n \in 1..Cardinality(K) : place[n] = k
              /\ kept(s, K) = [n \in 1..Cardinality(K) |-> s[place[n]]]
  BY KeptPlaces
<1> DEFINE N == {n \in DOMAIN kept(s, K) : kept(s, K)[n] \in V}
           M == {k \in K : s[k] \in V}
           f == [n \in N |-> place[n]]
<1>2. N = {n \in 1..Cardinality(K) : s[place[n]] \in V}
  BY <1>1
<1>3. IsFiniteSet(N)
  <2>1. kept(s, K) \in Seq(T)
    BY KeptFacts
  <2>2. N \in SUBSET DOMAIN kept(s, K)
    OBVIOUS
  <2> QED
    BY <2>1, <2>2, Positions
<1> HIDE DEF N
<1>4. f \in [N -> M]
  BY <1>1, <1>2
<1>5. \A m, n \in N : f[m] = f[n] => m = n
  BY <1>1, <1>2
<1>6. \A k \in M : \E n \in N : f[n] = k
  BY <1>1, <1>2
<1> HIDE DEF f, M
<1>7. Cardinality(M) = Cardinality(N)
  BY <1>3, <1>4, <1>5, <1>6, SameNumber
<1> QED
  BY <1>7 DEF N, M, Hits

\* How many findings of a severity.
Of(fs, severity) == Cardinality({n \in DOMAIN fs : fs[n].severity = severity})

LEMMA OfType ==
    ASSUME NEW fs \in Seq(Findings), NEW severity
    PROVE  Of(fs, severity) \in Nat
<1>1. {n \in DOMAIN fs : fs[n].severity = severity} \in SUBSET DOMAIN fs
  OBVIOUS
<1> QED
  BY <1>1, Positions DEF Of

LEMMA OfNone ==
    ASSUME NEW severity
    PROVE  Of(<< >>, severity) = 0
<1>1. {n \in DOMAIN << >> : << >>[n].severity = severity} = {}
  OBVIOUS
<1> QED
  BY <1>1, FS_EmptySet DEF Of

LEMMA OfConcat ==
    ASSUME NEW fs \in Seq(Findings), NEW gs \in Seq(Findings), NEW severity
    PROVE  Of(fs \o gs, severity) = Of(fs, severity) + Of(gs, severity)
<1> DEFINE M == Len(fs)
           N == Len(gs)
           hs == fs \o gs
           F == {n \in DOMAIN fs : fs[n].severity = severity}
           G == {n \in DOMAIN gs : gs[n].severity = severity}
           H == {n \in DOMAIN hs : hs[n].severity = severity}
           shift == [n \in G |-> M + n]
           Shifted == {n \in H : n > M}
<1>1. /\ M \in Nat /\ DOMAIN fs = 1..M /\ N \in Nat /\ DOMAIN gs = 1..N
      /\ hs \in Seq(Findings) /\ Len(hs) = M + N
      /\ \A n \in 1..(M + N) : hs[n] = IF n <= M THEN fs[n] ELSE gs[n - M]
  BY ConcatProperties, LenProperties
<1>2. DOMAIN hs = 1..(M + N)
  BY <1>1, LenProperties
<1>3. F \in SUBSET (1..M) /\ G \in SUBSET (1..N)
  BY <1>1
<1>4. IsFiniteSet(F) /\ IsFiniteSet(G)
  <2>1. F \in SUBSET DOMAIN fs /\ G \in SUBSET DOMAIN gs
    OBVIOUS
  <2> QED
    BY <2>1, Positions
<1> HIDE DEF hs
<1>5. /\ \A n \in F : n \in 1..M /\ fs[n].severity = severity
      /\ \A n \in 1..M : fs[n].severity = severity => n \in F
      /\ \A n \in G : n \in 1..N /\ gs[n].severity = severity
      /\ \A n \in 1..N : gs[n].severity = severity => n \in G
      /\ \A n \in H : n \in 1..(M + N) /\ hs[n].severity = severity
      /\ \A n \in 1..(M + N) : hs[n].severity = severity => n \in H
  BY <1>1, <1>2
<1> HIDE DEF F, G, H, M, N
<1>6. \A n \in F : n \in H /\ n <= M
  BY <1>1, <1>5
<1>7. \A n \in H : n <= M => n \in F
  BY <1>1, <1>5
<1>8. ASSUME NEW n \in G
      PROVE  M + n \in Shifted
  <2>1. n \in 1..N /\ gs[n].severity = severity
    BY <1>5
  <2>2. M + n \in 1..(M + N) /\ M + n > M /\ (M + n) - M = n
    BY <1>1, <2>1
  <2>3. hs[M + n] = gs[n]
    BY <1>1, <2>2
  <2> QED
    BY <1>5, <2>1, <2>2, <2>3
<1>9. \A n \in Shifted : n - M \in G /\ shift[n - M] = n
  <2>1. \A n \in Shifted : n - M \in 1..N /\ hs[n] = gs[n - M]
    BY <1>1, <1>5
  <2> QED
    BY <1>1, <1>5, <2>1
<1>10. /\ shift \in [G -> Shifted]
       /\ \A m, n \in G : shift[m] = shift[n] => m = n
       /\ \A n \in Shifted : \E m \in G : shift[m] = n
  <2>1. shift \in [G -> Shifted]
    BY <1>8
  <2>2. \A m, n \in G : shift[m] = shift[n] => m = n
    BY <1>1, <1>5
  <2>3. \A n \in Shifted : \E m \in G : shift[m] = n
    BY <1>9
  <2> QED
    BY <2>1, <2>2, <2>3
<1>11. H = F \cup Shifted /\ F \cap Shifted = {}
  BY <1>1, <1>5, <1>6, <1>7
<1> HIDE DEF shift, Shifted
<1>12. IsFiniteSet(Shifted) /\ Cardinality(Shifted) = Cardinality(G)
  BY <1>4, <1>10, SameNumber
<1>13. Cardinality(H) = Cardinality(F) + Cardinality(G)
  BY <1>4, <1>11, <1>12, Apart
<1> QED
  BY <1>13 DEF Of, F, G, H, hs

\* Rule id has produced its one finding, of severity t, or none.
Fired(findings, id, t, r, times) ==
    /\ times \in {0, 1}
    /\ times = 1 => findings = <<Finding(id, t, r)>>
    /\ times = 0 => findings = << >>

\* A rule that fires or not adds to its own severity, once, and to no other.
LEMMA OfFires ==
    ASSUME NEW findings, NEW id, NEW t, NEW r, NEW times,
           Fired(findings, id, t, r, times)
    PROVE  Of(findings, t) = times
<1> DEFINE f == Finding(id, t, r)
<1>1. f.severity = t
  BY DEF Finding
<1> HIDE DEF f
<1>2. Of(<<f>>, t) = 1
  <2>1. {n \in DOMAIN <<f>> : <<f>>[n].severity = t} = {1}
    BY <1>1
  <2> QED
    BY <2>1, FS_Singleton DEF Of
<1> QED
  BY <1>2, OfNone DEF f, Fired

LEMMA OfOthers ==
    ASSUME NEW findings, NEW id, NEW t, NEW r, NEW times,
           Fired(findings, id, t, r, times),
           NEW severity, severity # t
    PROVE  Of(findings, severity) = 0
<1> DEFINE f == Finding(id, t, r)
<1>1. f.severity # severity
  BY DEF Finding
<1> HIDE DEF f
<1>2. Of(<<f>>, severity) = 0
  <2>1. {n \in DOMAIN <<f>> : <<f>>[n].severity = severity} = {}
    BY <1>1
  <2> QED
    BY <2>1, FS_EmptySet DEF Of
<1> QED
  BY <1>2, OfNone DEF f, Fired

\* How many findings there are of the three severities that rules have.
Says(findings, critical, high, medium) ==
    /\ Of(findings, "CRITICAL") = critical
    /\ Of(findings, "HIGH") = high
    /\ Of(findings, "MEDIUM") = medium

LEMMA SeveritiesDiffer ==
    /\ "CRITICAL" \in SEVERITIES /\ "HIGH" \in SEVERITIES /\ "MEDIUM" \in SEVERITIES
    /\ "CRITICAL" # "HIGH" /\ "CRITICAL" # "MEDIUM" /\ "HIGH" # "MEDIUM"
BY DEF SEVERITIES

LEMMA SaysCritical ==
    ASSUME NEW findings, NEW id, NEW r, NEW times,
           Fired(findings, id, "CRITICAL", r, times)
    PROVE  Says(findings, times, 0, 0)
<1>1. Of(findings, "CRITICAL") = times
  BY OfFires
<1>2. Of(findings, "HIGH") = 0
  BY OfOthers, SeveritiesDiffer
<1>3. Of(findings, "MEDIUM") = 0
  BY OfOthers, SeveritiesDiffer
<1> QED
  BY <1>1, <1>2, <1>3 DEF Says

LEMMA SaysHigh ==
    ASSUME NEW findings, NEW id, NEW r, NEW times,
           Fired(findings, id, "HIGH", r, times)
    PROVE  Says(findings, 0, times, 0)
<1>1. Of(findings, "HIGH") = times
  BY OfFires
<1>2. Of(findings, "CRITICAL") = 0
  BY OfOthers, SeveritiesDiffer
<1>3. Of(findings, "MEDIUM") = 0
  BY OfOthers, SeveritiesDiffer
<1> QED
  BY <1>1, <1>2, <1>3 DEF Says

LEMMA SaysMedium ==
    ASSUME NEW findings, NEW id, NEW r, NEW times,
           Fired(findings, id, "MEDIUM", r, times)
    PROVE  Says(findings, 0, 0, times)
<1>1. Of(findings, "MEDIUM") = times
  BY OfFires
<1>2. Of(findings, "CRITICAL") = 0
  BY OfOthers, SeveritiesDiffer
<1>3. Of(findings, "HIGH") = 0
  BY OfOthers, SeveritiesDiffer
<1> QED
  BY <1>1, <1>2, <1>3 DEF Says

\* What the rule at place k says of r.
At(k, r, severity) == Of(Audited!Opinion(all_rules[k], r), severity)

LEMMA AtRule ==
    ASSUME NEW k, NEW r, NEW severity
    PROVE  At(k, r, severity) =
              IF r.type \in all_rules[k].resource_types
              THEN Of(evaluate(all_rules[k].id, r).findings, severity) ELSE 0
BY OfNone DEF At, Audited!Opinion

\* What is reported is what the ten rules say.
LEMMA ReportedSum ==
    ASSUME NEW r \in Resources, NEW severity
    PROVE  Reported(r, severity) =
              At(1, r, severity) + At(2, r, severity) + At(3, r, severity) + At(4, r, severity)
              + At(5, r, severity) + At(6, r, severity) + At(7, r, severity) + At(8, r, severity)
              + At(9, r, severity) + At(10, r, severity)
<1> DEFINE V == [k \in DOMAIN all_rules |-> Audited!Opinion(all_rules[k], r)]
           Upto(n) == Of(FlattenSeq(SubSeq(V, 1, n)), severity)
<1>1. /\ V \in Seq(Seq(Findings)) /\ Len(V) = 10
      /\ \A k \in 1..10 : V[k] = Audited!Opinion(all_rules[k], r)
  <2>1. V \in [1..10 -> Seq(Findings)]
    BY RuleFacts, OpinionType
  <2> QED
    BY <2>1, RuleFacts
<1>2. Audited!Opinions(r) = FlattenSeq(V)
  <2>1. \A ss : Audited!FlattenSeq(ss) = FlattenSeq(ss)
    BY DEF Audited!FlattenSeq, FlattenSeq
  <2> QED
    BY <2>1 DEF Audited!Opinions, Audited!WholeRegistry
<1> HIDE DEF V
<1>3. ASSUME NEW n \in 1..10
      PROVE  Upto(n) = Upto(n - 1) + At(n, r, severity)
  <2>1. /\ FlattenSeq(SubSeq(V, 1, n)) = FlattenSeq(SubSeq(V, 1, n - 1)) \o V[n]
        /\ FlattenSeq(SubSeq(V, 1, n - 1)) \in Seq(Findings)
    BY <1>1, RowLonger
  <2>2. V[n] \in Seq(Findings)
    BY <1>1, ElementOfSeq
  <2>3. Of(FlattenSeq(SubSeq(V, 1, n - 1)) \o V[n], severity)
           = Of(FlattenSeq(SubSeq(V, 1, n - 1)), severity) + Of(V[n], severity)
    BY <2>1, <2>2, OfConcat
  <2>4. Of(V[n], severity) = At(n, r, severity)
    BY <1>1 DEF At
  <2> QED
    BY <2>1, <2>3, <2>4
<1>4. Upto(0) = 0
  <2>1. SubSeq(V, 1, 0) = << >>
    BY <1>1
  <2> QED
    BY <2>1, FlattenNone, OfNone
<1>5. Reported(r, severity) = Upto(10)
  <2>1. SubSeq(V, 1, 10) = V
    BY <1>1
  <2> QED
    BY <1>2, <2>1 DEF Reported, Of
<1>6. \A n \in 1..10 : At(n, r, severity) \in Nat
  <2>1. \A n \in 1..10 : V[n] \in Seq(Findings)
    BY <1>1, ElementOfSeq
  <2> QED
    BY <1>1, <2>1, OfType DEF At
<1> HIDE DEF Upto
<1>7. /\ Upto(1) = At(1, r, severity)
      /\ Upto(2) = Upto(1) + At(2, r, severity)
      /\ Upto(3) = Upto(2) + At(3, r, severity)
      /\ Upto(4) = Upto(3) + At(4, r, severity)
      /\ Upto(5) = Upto(4) + At(5, r, severity)
      /\ Upto(6) = Upto(5) + At(6, r, severity)
      /\ Upto(7) = Upto(6) + At(7, r, severity)
      /\ Upto(8) = Upto(7) + At(8, r, severity)
      /\ Upto(9) = Upto(8) + At(9, r, severity)
      /\ Upto(10) = Upto(9) + At(10, r, severity)
  <2>1. \A n \in 1..10 : Upto(n) = Upto(n - 1) + At(n, r, severity)
    BY <1>3
  <2>2. /\ Upto(1) = Upto(0) + At(1, r, severity) /\ Upto(2) = Upto(1) + At(2, r, severity)
        /\ Upto(3) = Upto(2) + At(3, r, severity) /\ Upto(4) = Upto(3) + At(4, r, severity)
        /\ Upto(5) = Upto(4) + At(5, r, severity) /\ Upto(6) = Upto(5) + At(6, r, severity)
        /\ Upto(7) = Upto(6) + At(7, r, severity) /\ Upto(8) = Upto(7) + At(8, r, severity)
        /\ Upto(9) = Upto(8) + At(9, r, severity) /\ Upto(10) = Upto(9) + At(10, r, severity)
    BY <2>1
  <2> QED
    BY <1>4, <1>6, <2>2
<1> QED
  BY <1>5, <1>6, <1>7

LEMMA RuleTypes ==
    /\ all_rules[1] = Rule("CFN_CT_001", {"AWS::CloudTrail::Trail"})
    /\ all_rules[2] = Rule("CFN_EC2_001", {"AWS::EC2::Volume"})
    /\ all_rules[3] = Rule("CFN_IAM_001", ALL_IAM_TYPES)
    /\ all_rules[4] = Rule("CFN_IAM_002", ALL_IAM_TYPES)
    /\ all_rules[5] = Rule("CFN_RDS_001", {"AWS::RDS::DBInstance"})
    /\ all_rules[6] = Rule("CFN_RDS_002", {"AWS::RDS::DBInstance"})
    /\ all_rules[7] = Rule("CFN_S3_001", {"AWS::S3::Bucket"})
    /\ all_rules[8] = Rule("CFN_S3_002", {"AWS::S3::Bucket"})
    /\ all_rules[9] = Rule("CFN_S3_003", {"AWS::S3::Bucket"})
    /\ all_rules[10] = Rule("CFN_SG_001", {"AWS::EC2::SecurityGroup"})
BY DEF all_rules

\* The types that the rules are about are apart.
LEMMA TypesDiffer ==
    \A type \in ALL_IAM_TYPES :
        type \notin {"AWS::CloudTrail::Trail", "AWS::EC2::Volume", "AWS::RDS::DBInstance",
                    "AWS::S3::Bucket", "AWS::EC2::SecurityGroup"}
BY DEF ALL_IAM_TYPES, POLICY_DOCUMENT_TYPES, POLICIES_LIST_TYPES

\* Which rules speak about a resource of which type.
LEMMA ReportedByType ==
    ASSUME NEW r \in Resources, NEW severity
    PROVE  LET SaidBy(id) == Of(evaluate(id, r).findings, severity)
           IN  Reported(r, severity) =
                  IF r.type = "AWS::CloudTrail::Trail" THEN SaidBy("CFN_CT_001")
                  ELSE IF r.type = "AWS::EC2::Volume" THEN SaidBy("CFN_EC2_001")
                  ELSE IF r.type = "AWS::RDS::DBInstance"
                       THEN SaidBy("CFN_RDS_001") + SaidBy("CFN_RDS_002")
                  ELSE IF r.type = "AWS::S3::Bucket"
                       THEN SaidBy("CFN_S3_001") + SaidBy("CFN_S3_002") + SaidBy("CFN_S3_003")
                  ELSE IF r.type = "AWS::EC2::SecurityGroup" THEN SaidBy("CFN_SG_001")
                  ELSE IF r.type \in ALL_IAM_TYPES
                       THEN SaidBy("CFN_IAM_001") + SaidBy("CFN_IAM_002")
                  ELSE 0
<1> DEFINE N(id) == Of(evaluate(id, r).findings, severity)
<1>1. \A id \in RuleIds : N(id) \in Nat
  BY Evaluated, OfType DEF Given
<1> HIDE DEF N
<1>2. /\ N("CFN_CT_001") \in Nat /\ N("CFN_EC2_001") \in Nat /\ N("CFN_IAM_001") \in Nat
      /\ N("CFN_IAM_002") \in Nat /\ N("CFN_RDS_001") \in Nat /\ N("CFN_RDS_002") \in Nat
      /\ N("CFN_S3_001") \in Nat /\ N("CFN_S3_002") \in Nat /\ N("CFN_S3_003") \in Nat
      /\ N("CFN_SG_001") \in Nat
  BY <1>1, RuleFacts
<1>3. /\ At(1, r, severity) = IF r.type = "AWS::CloudTrail::Trail" THEN N("CFN_CT_001") ELSE 0
      /\ At(2, r, severity) = IF r.type = "AWS::EC2::Volume" THEN N("CFN_EC2_001") ELSE 0
      /\ At(3, r, severity) = IF r.type \in ALL_IAM_TYPES THEN N("CFN_IAM_001") ELSE 0
      /\ At(4, r, severity) = IF r.type \in ALL_IAM_TYPES THEN N("CFN_IAM_002") ELSE 0
      /\ At(5, r, severity) = IF r.type = "AWS::RDS::DBInstance" THEN N("CFN_RDS_001") ELSE 0
      /\ At(6, r, severity) = IF r.type = "AWS::RDS::DBInstance" THEN N("CFN_RDS_002") ELSE 0
      /\ At(7, r, severity) = IF r.type = "AWS::S3::Bucket" THEN N("CFN_S3_001") ELSE 0
      /\ At(8, r, severity) = IF r.type = "AWS::S3::Bucket" THEN N("CFN_S3_002") ELSE 0
      /\ At(9, r, severity) = IF r.type = "AWS::S3::Bucket" THEN N("CFN_S3_003") ELSE 0
      /\ At(10, r, severity) = IF r.type = "AWS::EC2::SecurityGroup" THEN N("CFN_SG_001") ELSE 0
  BY RuleTypes, AtRule DEF Rule, N
<1>4. Reported(r, severity) =
         At(1, r, severity) + At(2, r, severity) + At(3, r, severity) + At(4, r, severity)
         + At(5, r, severity) + At(6, r, severity) + At(7, r, severity) + At(8, r, severity)
         + At(9, r, severity) + At(10, r, severity)
  BY ReportedSum
<1> QED
  BY <1>2, <1>3, <1>4, TypesDiffer DEF N

\* What literal_or_none leaves alone.
LEMMA LiteralFacts ==
    ASSUME NEW v \in PyValues
    PROVE  /\ \A s : literal_or_none(v) = Str(s) <=> v = Str(s)
           /\ \A b : literal_or_none(v) = Bool(b) <=> v = Bool(b)
           /\ IsList(literal_or_none(v)) <=> IsList(v)
           /\ IsInt(literal_or_none(v)) <=> IsInt(v)
           /\ IsList(v) \/ IsInt(v) \/ ~IsDict(v) => literal_or_none(v) = v /\ ~IsDict(v)
           /\ IsDict(v) => /\ v.dict \in Seq(Items)
                           /\ literal_or_none(v) \in {v, None}
                           /\ IsDict(literal_or_none(v)) <=> ~is_intrinsic(v)
<1>1. /\ "dict" \in DOMAIN v => DOMAIN v = {"dict"} /\ v.dict \in Seq(Items)
      /\ \A s : DOMAIN Str(s) = {"str"}
      /\ \A b : DOMAIN Bool(b) = {"bool"}
  BY PyValue DEF IsDict, Str, Bool
<1>2. is_intrinsic(v) => DOMAIN v = {"dict"}
  BY <1>1 DEF is_intrinsic, IsDict
<1>3. is_intrinsic(v) => ~IsList(v) /\ ~IsInt(v) /\ (\A s : v # Str(s)) /\ \A b : v # Bool(b)
  BY <1>1, <1>2 DEF IsList, IsInt
<1>4. ~IsInt(None)
  BY DEF IsInt, None
<1>5. IsDict(v) => ~IsList(v) /\ ~IsInt(v)
  BY <1>1 DEF IsDict, IsList, IsInt
<1>6. literal_or_none(v) = IF is_intrinsic(v) THEN None ELSE v
  BY DEF literal_or_none
<1>7. is_intrinsic(v) => IsDict(v)
  BY DEF is_intrinsic
<1>8. /\ \A s : literal_or_none(v) = Str(s) <=> v = Str(s)
      /\ \A b : literal_or_none(v) = Bool(b) <=> v = Bool(b)
  BY <1>3, <1>6, NoneFacts
<1>9. IsDict(v) => v.dict \in Seq(Items)
  BY <1>1 DEF IsDict
<1>10. IsDict(v) => (IsDict(literal_or_none(v)) <=> ~is_intrinsic(v))
  BY <1>6, NoneFacts
<1>11. /\ IsList(literal_or_none(v)) <=> IsList(v)
       /\ IsInt(literal_or_none(v)) <=> IsInt(v)
  BY <1>3, <1>4, <1>6, NoneFacts
<1>12. IsList(v) \/ IsInt(v) \/ ~IsDict(v) => literal_or_none(v) = v /\ ~IsDict(v)
  BY <1>5, <1>6, <1>7
<1> QED
  BY <1>6, <1>8, <1>9, <1>10, <1>11, <1>12

\* An intrinsic has the key of its function and no other.
LEMMA OnlyItsKey ==
    ASSUME NEW d \in PyValues, is_intrinsic(d), NEW name, name \notin INTRINSIC_KEYS
    PROVE  ~HasKey(d, Str(name)) /\ Get(d, Str(name)) = None
<1>1. IsDict(d) /\ Len(d.dict) = 1 /\ d.dict[1].key \in {Str(k) : k \in INTRINSIC_KEYS}
  BY DEF is_intrinsic
<1>2. DOMAIN d.dict = {1}
  <2>1. d.dict \in Seq(Items)
    BY <1>1, LiteralFacts
  <2>2. DOMAIN d.dict = 1..1
    BY <1>1, <2>1, LenProperties
  <2> QED
    BY <2>2
<1>3. \A k \in INTRINSIC_KEYS : Str(k) # Str(name)
  <2>1. \A k : Str(k).str = k
    BY DEF Str
  <2> QED
    BY <2>1
<1>4. d.dict[1].key # Str(name)
  BY <1>1, <1>3
<1>5. ~HasKey(d, Str(name))
  BY <1>2, <1>4 DEF HasKey
<1> QED
  BY <1>5 DEF Get

\* The properties and fields that are looked at are no functions.
LEMMA NoFunctions ==
    /\ \A name \in {"CidrIp", "CidrIpv6", "FromPort", "ToPort", "PolicyDocument", "Statement",
                     "Effect", "Action", "Resource"} : name \notin INTRINSIC_KEYS
    /\ \A flag \in PUBLIC_ACCESS_BLOCK_FLAGS : flag \notin INTRINSIC_KEYS
BY DEF PUBLIC_ACCESS_BLOCK_FLAGS, INTRINSIC_KEYS

\* FindingsAsDocumented, of one resource.
AsDocumented(r) ==
    \A severity \in {"CRITICAL", "HIGH", "MEDIUM"} : Reported(r, severity) = Documented(r)[severity]

\* A promise, said of each severity.
LEMMA Promised ==
    ASSUME NEW r, NEW critical, NEW high, NEW medium,
           Documented(r) = Promise(critical, high, medium),
           Reported(r, "CRITICAL") = critical, Reported(r, "HIGH") = high,
           Reported(r, "MEDIUM") = medium
    PROVE  AsDocumented(r)
BY SeveritiesDiffer DEF AsDocumented, Promise

\* cloudtrail.py
LEMMA TrailDocumented ==
    ASSUME NEW r \in Resources, r.type = "AWS::CloudTrail::Trail"
    PROVE  AsDocumented(r)
<1> DEFINE missing == One(~Has(r, "KMSKeyId"))
           said == evaluate("CFN_CT_001", r).findings
<1>1. Documented(r) = Promise(0, 0, missing)
  BY TypesDiffer DEF Documented, TrailPromise
<1>2. Fired(said, "CFN_CT_001", "MEDIUM", r, missing)
  BY DEF evaluate, CloudTrailMissingKmsKeyId, FiresWhen, Returns, One, Fired
<1>3. \A severity : Reported(r, severity) = Of(said, severity)
  BY ReportedByType
<1> HIDE DEF missing, said
<1>4. Says(said, 0, 0, missing)
  BY <1>2, SaysMedium
<1>5. /\ Reported(r, "CRITICAL") = 0 /\ Reported(r, "HIGH") = 0
      /\ Reported(r, "MEDIUM") = missing
  BY <1>3, <1>4 DEF Says
<1> QED
  BY <1>1, <1>5, Promised

\* ec2.py
LEMMA VolumeDocumented ==
    ASSUME NEW r \in Resources, r.type = "AWS::EC2::Volume"
    PROVE  AsDocumented(r)
<1> DEFINE fires == AbsentOrFalse(r, "Encrypted")
           unencrypted == ~Has(r, "Encrypted") \/ Property(r, "Encrypted") = Bool(FALSE)
           off == One(unencrypted)
           said == evaluate("CFN_EC2_001", r).findings
<1>1. Documented(r) = Promise(0, 0, off)
  BY TypesDiffer DEF Documented, VolumePromise
<1>2. fires <=> unencrypted
  BY PropertyIsValue, LiteralFacts DEF AbsentOrFalse, Literal
<1>3. Fired(said, "CFN_EC2_001", "MEDIUM", r, off)
  <2>1. evaluate("CFN_EC2_001", r) = FiresWhen(fires, "CFN_EC2_001", "MEDIUM", r)
    BY DEF evaluate, EbsVolumeNotEncrypted
  <2> HIDE DEF fires
  <2>2. /\ fires => said = <<Finding("CFN_EC2_001", "MEDIUM", r)>>
        /\ ~fires => said = << >>
    BY <2>1 DEF FiresWhen, Returns
  <2> HIDE DEF unencrypted, said
  <2> QED
    BY <1>2, <2>2 DEF One, Fired
<1>4. \A severity : Reported(r, severity) = Of(said, severity)
  BY ReportedByType
<1> HIDE DEF off, said
<1>5. Says(said, 0, 0, off)
  BY <1>3, SaysMedium
<1>6. /\ Reported(r, "CRITICAL") = 0 /\ Reported(r, "HIGH") = 0
      /\ Reported(r, "MEDIUM") = off
  BY <1>4, <1>5 DEF Says
<1> QED
  BY <1>1, <1>6, Promised

\* rds.py
LEMMA InstanceDocumented ==
    ASSUME NEW r \in Resources, r.type = "AWS::RDS::DBInstance"
    PROVE  AsDocumented(r)
<1> DEFINE exposed == Property(r, "PubliclyAccessible") = Bool(TRUE)
           public == One(exposed)
           unencrypted == ~Has(r, "StorageEncrypted") \/ Property(r, "StorageEncrypted") = Bool(FALSE)
           off == One(unencrypted)
           plain == AbsentOrFalse(r, "StorageEncrypted")
           open == Literal(r, "PubliclyAccessible") = Bool(TRUE)
           ofStorage == evaluate("CFN_RDS_001", r).findings
           ofAccess == evaluate("CFN_RDS_002", r).findings
<1>1. Documented(r) = Promise(public, off, 0)
  BY TypesDiffer DEF Documented, InstancePromise
<1>2. plain <=> unencrypted
  BY PropertyIsValue, LiteralFacts DEF AbsentOrFalse, Literal
<1>3. open <=> exposed
  BY PropertyIsValue, LiteralFacts DEF Literal
<1>4. Fired(ofStorage, "CFN_RDS_001", "HIGH", r, off)
  <2>1. evaluate("CFN_RDS_001", r) = FiresWhen(plain, "CFN_RDS_001", "HIGH", r)
    BY DEF evaluate, RdsStorageNotEncrypted
  <2> HIDE DEF plain
  <2>2. /\ plain => ofStorage = <<Finding("CFN_RDS_001", "HIGH", r)>>
        /\ ~plain => ofStorage = << >>
    BY <2>1 DEF FiresWhen, Returns
  <2> HIDE DEF unencrypted, ofStorage
  <2> QED
    BY <1>2, <2>2 DEF One, Fired
<1>5. Fired(ofAccess, "CFN_RDS_002", "CRITICAL", r, public)
  <2>1. evaluate("CFN_RDS_002", r) = FiresWhen(open, "CFN_RDS_002", "CRITICAL", r)
    BY DEF evaluate, RdsPubliclyAccessible
  <2> HIDE DEF open
  <2>2. /\ open => ofAccess = <<Finding("CFN_RDS_002", "CRITICAL", r)>>
        /\ ~open => ofAccess = << >>
    BY <2>1 DEF FiresWhen, Returns
  <2> HIDE DEF exposed, ofAccess
  <2> QED
    BY <1>3, <2>2 DEF One, Fired
<1>6. \A severity : Reported(r, severity) = Of(ofStorage, severity) + Of(ofAccess, severity)
  BY ReportedByType
<1> HIDE DEF off, public, ofStorage, ofAccess
<1>7. Says(ofStorage, 0, off, 0)
  BY <1>4, SaysHigh
<1>8. Says(ofAccess, public, 0, 0)
  BY <1>5, SaysCritical
<1>9. /\ Reported(r, "CRITICAL") = public /\ Reported(r, "HIGH") = off
       /\ Reported(r, "MEDIUM") = 0
  BY <1>4, <1>5, <1>6, <1>7, <1>8 DEF Says, Fired
<1> QED
  BY <1>1, <1>9, Promised

\* s3.py; an AccessControl that cannot be hashed raises.
LEMMA BucketDocumented ==
    ASSUME NEW r \in Resources, r.type = "AWS::S3::Bucket", ~Raised(r)
    PROVE  AsDocumented(r)
<1> DEFINE block == Property(r, "PublicAccessBlockConfiguration")
           acl == Property(r, "AccessControl")
           offending == {flag \in PUBLIC_ACCESS_BLOCK_FLAGS :
                            /\ HasKey(block, Str(flag))
                            /\ literal_or_none(Get(block, Str(flag))) = Bool(FALSE)}
           unblocked == block = None \/ (IsDict(block) /\ ~is_intrinsic(block) /\ offending # {})
           canned == Literal(r, "AccessControl") \in {Str("PublicRead"), Str("PublicReadWrite")}
           open == One(block = None \/ FlagsOff(r))
           public == One(acl \in {Str("PublicRead"), Str("PublicReadWrite")})
           plain == One(~Has(r, "BucketEncryption"))
           ofStorage == evaluate("CFN_S3_001", r).findings
           ofBlock == evaluate("CFN_S3_002", r).findings
           ofAcl == evaluate("CFN_S3_003", r).findings
<1>1. Documented(r) = Promise(open + public, plain, 0)
  BY TypesDiffer DEF Documented, BucketPromise
<1>2. block \in PyValues /\ acl \in PyValues
  BY PropertyIsValue
<1>3. unblocked <=> block = None \/ FlagsOff(r)
  <2>1. ASSUME IsDict(block), NEW flag \in PUBLIC_ACCESS_BLOCK_FLAGS
        PROVE  /\ literal_or_none(Get(block, Str(flag))) = Bool(FALSE)
                     <=> Get(block, Str(flag)) = Bool(FALSE)
               /\ Get(block, Str(flag)) = Bool(FALSE) => HasKey(block, Str(flag))
               /\ Get(block, Str(flag)) = Bool(FALSE) => ~is_intrinsic(block)
    <3>1. Get(block, Str(flag)) \in PyValues
      BY <1>2, <2>1, GetIsValue
    <3>2. flag \notin INTRINSIC_KEYS
      BY NoFunctions
    <3>3. is_intrinsic(block) => Get(block, Str(flag)) = None
      BY <1>2, <3>2, OnlyItsKey
    <3>4. ~HasKey(block, Str(flag)) => Get(block, Str(flag)) = None
      BY DEF Get
    <3> HIDE DEF block
    <3> QED
      BY <3>1, <3>3, <3>4, LiteralFacts, NoneFacts
  <2>2. FlagsOff(r) <=>
           IsDict(block) /\ \E flag \in PUBLIC_ACCESS_BLOCK_FLAGS : Get(block, Str(flag)) = Bool(FALSE)
    BY DEF FlagsOff
  <2> HIDE DEF block
  <2> QED
    BY <2>1, <2>2
<1>4. Hashable(Literal(r, "AccessControl"))
  <2>1. SUFFICES ASSUME ~Hashable(Literal(r, "AccessControl"))
                 PROVE  FALSE
    OBVIOUS
  <2>2. evaluate("CFN_S3_003", r).raised
    BY <2>1 DEF evaluate, S3PublicAcl, Raises
  <2>3. /\ 9 \in DOMAIN all_rules /\ all_rules[9].id = "CFN_S3_003"
        /\ r.type \in all_rules[9].resource_types
    BY RuleFacts, RuleTypes DEF Rule
  <2> QED
    BY <2>2, <2>3 DEF Raised
<1>5. canned <=> acl \in {Str("PublicRead"), Str("PublicReadWrite")}
  <2>1. Literal(r, "AccessControl") = literal_or_none(acl)
    BY DEF Literal
  <2> HIDE DEF acl
  <2> QED
    BY <1>2, <2>1, LiteralFacts
<1>6. Fired(ofStorage, "CFN_S3_001", "HIGH", r, plain)
  BY DEF evaluate, S3MissingBucketEncryption, FiresWhen, Returns, One, Fired
<1>7. Fired(ofBlock, "CFN_S3_002", "CRITICAL", r, open)
  <2>1. evaluate("CFN_S3_002", r) = FiresWhen(unblocked, "CFN_S3_002", "CRITICAL", r)
    BY DEF evaluate, S3MissingPublicAccessBlock
  <2> HIDE DEF unblocked
  <2>2. /\ unblocked => ofBlock = <<Finding("CFN_S3_002", "CRITICAL", r)>>
        /\ ~unblocked => ofBlock = << >>
    BY <2>1 DEF FiresWhen, Returns
  <2> HIDE DEF ofBlock
  <2> QED
    BY <1>3, <2>2 DEF One, Fired
<1>8. Fired(ofAcl, "CFN_S3_003", "CRITICAL", r, public)
  <2>1. evaluate("CFN_S3_003", r) = FiresWhen(canned, "CFN_S3_003", "CRITICAL", r)
    BY <1>4 DEF evaluate, S3PublicAcl
  <2> HIDE DEF canned
  <2>2. /\ canned => ofAcl = <<Finding("CFN_S3_003", "CRITICAL", r)>>
        /\ ~canned => ofAcl = << >>
    BY <2>1 DEF FiresWhen, Returns
  <2> HIDE DEF ofAcl
  <2> QED
    BY <1>5, <2>2 DEF One, Fired
<1>9. \A severity : Reported(r, severity)
                       = Of(ofStorage, severity) + Of(ofBlock, severity) + Of(ofAcl, severity)
  BY ReportedByType
<1> HIDE DEF open, public, plain, ofStorage, ofBlock, ofAcl
<1>10. Says(ofStorage, 0, plain, 0)
  BY <1>6, SaysHigh
<1>11. Says(ofBlock, open, 0, 0)
  BY <1>7, SaysCritical
<1>12. Says(ofAcl, public, 0, 0)
  BY <1>8, SaysCritical
<1>13. /\ Reported(r, "CRITICAL") = open + public
       /\ Reported(r, "HIGH") = plain /\ Reported(r, "MEDIUM") = 0
  BY <1>6, <1>7, <1>8, <1>9, <1>10, <1>11, <1>12 DEF Says, Fired
<1> QED
  BY <1>1, <1>13, Promised

\* A type that no rule is about.
LEMMA OtherDocumented ==
    ASSUME NEW r \in Resources,
           r.type \notin ALL_IAM_TYPES \cup {"AWS::CloudTrail::Trail", "AWS::EC2::Volume",
              "AWS::RDS::DBInstance", "AWS::S3::Bucket", "AWS::EC2::SecurityGroup"}
    PROVE  AsDocumented(r)
<1>1. Documented(r) = Promise(0, 0, 0)
  BY DEF Documented
<1>2. \A severity : Reported(r, severity) = 0
  BY ReportedByType
<1> QED
  BY <1>1, <1>2, Promised

\* The number an int or a bool stands for.
LEMMA IntOf ==
    ASSUME NEW v \in PyValues, IsInt(v)
    PROVE  AsInt(v) \in Int
<1>1. CASE "int" \in DOMAIN v
  BY <1>1, PyValue DEF AsInt
<1>2. CASE "int" \notin DOMAIN v
  BY <1>2 DEF AsInt
<1> QED
  BY <1>1, <1>2

\* sg.py: port_range_covers_high_risk, said of the range between the bounds.
LEMMA PortsCovered ==
    ASSUME NEW from \in PyValues, NEW to \in PyValues
    PROVE  port_range_covers_high_risk(from, to) <=>
              /\ IsInt(from) /\ IsInt(to)
              /\ \/ AsInt(from) = -1 \/ AsInt(to) = -1
                 \/ HIGH_RISK_PORTS \cap ((AsInt(from)..AsInt(to)) \cup (AsInt(to)..AsInt(from))) # {}
<1> DEFINE fp == literal_or_none(from)
           tp == literal_or_none(to)
<1>1. /\ IsInt(fp) <=> IsInt(from)
      /\ IsInt(tp) <=> IsInt(to)
      /\ IsInt(from) => fp = from
      /\ IsInt(to) => tp = to
  BY LiteralFacts
<1>2. port_range_covers_high_risk(from, to) <=>
         /\ IsInt(fp) /\ IsInt(tp)
         /\ \/ -1 \in {AsInt(fp), AsInt(tp)}
            \/ \E port \in HIGH_RISK_PORTS :
                  \/ AsInt(fp) <= port /\ port <= AsInt(tp)
                  \/ AsInt(tp) <= port /\ port <= AsInt(fp)
  BY DEF port_range_covers_high_risk
<1> HIDE DEF fp, tp
<1>3. CASE IsInt(from) /\ IsInt(to)
  <2>1. AsInt(from) \in Int /\ AsInt(to) \in Int
    BY <1>3, IntOf
  <2>2. HIGH_RISK_PORTS \subseteq Int
    BY DEF HIGH_RISK_PORTS
  <2> DEFINE a == AsInt(from)
             b == AsInt(to)
  <2>3. port_range_covers_high_risk(from, to) <=>
           \/ a = -1 \/ b = -1
           \/ \E port \in HIGH_RISK_PORTS :
                 \/ a <= port /\ port <= b
                 \/ b <= port /\ port <= a
    BY <1>1, <1>2, <1>3
  <2> HIDE DEF a, b
  <2>4. (\E port \in HIGH_RISK_PORTS : \/ a <= port /\ port <= b
                                       \/ b <= port /\ port <= a)
           <=> HIGH_RISK_PORTS \cap ((a..b) \cup (b..a)) # {}
    BY <2>1, <2>2 DEF a, b
  <2> QED
    BY <1>3, <2>3, <2>4 DEF a, b
<1>4. CASE ~(IsInt(from) /\ IsInt(to))
  BY <1>1, <1>2, <1>4
<1> QED
  BY <1>3, <1>4

\* sg.py: an entry that is read and wide open, said of what it has.
LEMMA EntryOpen ==
    ASSUME NEW entry \in PyValues, IsDict(entry)
    PROVE  ~is_intrinsic(entry) /\ WideOpen(entry) <=>
              \/ Get(entry, Str("CidrIp")) \in OPEN_CIDRS
              \/ Get(entry, Str("CidrIpv6")) \in OPEN_CIDRS
<1> DEFINE v4 == Get(entry, Str("CidrIp"))
           v6 == Get(entry, Str("CidrIpv6"))
<1>1. v4 \in PyValues /\ v6 \in PyValues
  BY GetIsValue
<1>2. is_intrinsic(entry) => v4 = None /\ v6 = None
  <2>1. "CidrIp" \notin INTRINSIC_KEYS /\ "CidrIpv6" \notin INTRINSIC_KEYS
    BY NoFunctions
  <2> QED
    BY <2>1, OnlyItsKey
<1>3. None \notin OPEN_CIDRS
  BY NoneFacts DEF OPEN_CIDRS
<1>4. WideOpen(entry) <=> literal_or_none(v4) \in OPEN_CIDRS \/ literal_or_none(v6) \in OPEN_CIDRS
  <2>1. Cidrs(entry)[1] = literal_or_none(v4) /\ Cidrs(entry)[2] = literal_or_none(v6)
    BY DEF Cidrs
  <2>2. 1..2 = {1, 2}
    OBVIOUS
  <2> QED
    BY <2>1, <2>2 DEF WideOpen
<1> HIDE DEF v4, v6
<1>5. /\ literal_or_none(v4) \in OPEN_CIDRS <=> v4 \in OPEN_CIDRS
      /\ literal_or_none(v6) \in OPEN_CIDRS <=> v6 \in OPEN_CIDRS
  BY <1>1, LiteralFacts DEF OPEN_CIDRS
<1> QED
  BY <1>2, <1>3, <1>4, <1>5 DEF v4, v6

\* sg.py; an entry whose address cannot be hashed raises.
LEMMA GroupDocumented ==
    ASSUME NEW r \in Resources, r.type = "AWS::EC2::SecurityGroup", ~Raised(r)
    PROVE  AsDocumented(r)
<1> DEFINE ingress == Property(r, "SecurityGroupIngress")
           entry == IF IsList(ingress) THEN ingress.list ELSE << >>
           readable == {n \in DOMAIN entry : IsDict(entry[n]) /\ ~is_intrinsic(entry[n])}
           offending == {n \in readable : WideOpen(entry[n])}
           open == kept(entry, offending)
           covers(e) == port_range_covers_high_risk(Get(e, Str("FromPort")), Get(e, Str("ToPort")))
           Risky == {e \in PyValues : covers(e)}
           Mild == {e \in PyValues : ~covers(e)}
           admin == Cardinality(AdminEntries(r))
           others == Cardinality(OpenEntries(r) \ AdminEntries(r))
           said == evaluate("CFN_SG_001", r).findings
<1>1. ingress \in PyValues
  BY PropertyIsValue
<1>2. entry = IF IsList(Literal(r, "SecurityGroupIngress"))
              THEN Literal(r, "SecurityGroupIngress").list ELSE << >>
  BY <1>1, LiteralFacts DEF Literal
<1>3. said = [n \in DOMAIN open |-> IngressFinding(open[n], r)]
  <2> HIDE DEF entry
  <2>1. SecurityGroupWideOpenIngress(r) =
           IF \E n \in readable : CidrRaises(entry[n]) THEN Raises
           ELSE Returns([n \in DOMAIN open |-> IngressFinding(open[n], r)])
    BY <1>2 DEF SecurityGroupWideOpenIngress
  <2>2. evaluate("CFN_SG_001", r) = SecurityGroupWideOpenIngress(r)
    BY DEF evaluate
  <2>3. ~evaluate("CFN_SG_001", r).raised
    <3>1. /\ 10 \in DOMAIN all_rules /\ all_rules[10].id = "CFN_SG_001"
          /\ r.type \in all_rules[10].resource_types
      BY RuleFacts, RuleTypes DEF Rule
    <3> QED
      BY <3>1 DEF Raised
  <2> HIDE DEF readable, open
  <2> QED
    BY <2>1, <2>2, <2>3 DEF Raises, Returns
<1>4. entry \in Seq(PyValues)
  <2> HIDE DEF ingress
  <2> QED
    BY <1>1, PyValue, EmptySeq
<1>5. \A n \in DOMAIN entry : entry[n] \in PyValues
  BY <1>4, ElementOfSeq
<1>6. OpenEntries(r) = offending
  <2>1. OpenEntries(r) = {n \in DOMAIN entry :
                            /\ IsDict(entry[n])
                            /\ \/ Get(entry[n], Str("CidrIp")) \in OPEN_CIDRS
                               \/ Get(entry[n], Str("CidrIpv6")) \in OPEN_CIDRS}
    BY DEF OpenEntries
  <2> HIDE DEF entry
  <2> QED
    BY <1>5, <2>1, EntryOpen
<1>7. AdminEntries(r) = {k \in offending : entry[k] \in Risky}
  <2>1. \A n \in offending : /\ IsList(ingress) /\ entry[n] = ingress.list[n]
                             /\ IsDict(entry[n]) /\ entry[n] \in PyValues
    BY <1>5
  <2>2. ASSUME NEW n \in offending
        PROVE  /\ Get(entry[n], Str("FromPort")) \in PyValues
               /\ Get(entry[n], Str("ToPort")) \in PyValues
    BY <2>1, GetIsValue
  <2> DEFINE Administers(from, to) ==
                /\ IsInt(from) /\ IsInt(to)
                /\ \/ AsInt(from) = -1 \/ AsInt(to) = -1
                   \/ HIGH_RISK_PORTS \cap ((AsInt(from)..AsInt(to)) \cup (AsInt(to)..AsInt(from))) # {}
  <2>3. \A n \in offending : covers(entry[n])
            <=> Administers(Get(entry[n], Str("FromPort")), Get(entry[n], Str("ToPort")))
    BY <2>2, PortsCovered
  <2>4. AdminEntries(r) = {n \in offending : Administers(Get(ingress.list[n], Str("FromPort")),
                                                        Get(ingress.list[n], Str("ToPort")))}
    <3> HIDE DEF offending
    <3> QED
      BY <1>6 DEF AdminEntries
  <2> HIDE DEF Administers, offending, entry, ingress, covers
  <2> QED
    BY <2>1, <2>3, <2>4
<1>8. OpenEntries(r) \ AdminEntries(r) = {k \in offending : entry[k] \in Mild}
  <2>1. \A n \in offending : entry[n] \in PyValues
    BY <1>5
  <2> HIDE DEF offending, entry, covers
  <2> QED
    BY <1>6, <1>7, <2>1
<1>9. offending \in SUBSET DOMAIN entry
  OBVIOUS
<1> HIDE DEF offending, entry
<1>10. open \in Seq(PyValues) /\ \A n \in DOMAIN open : open[n] \in PyValues
  BY <1>4, <1>9, KeptFacts, ElementOfSeq
<1> HIDE DEF open, covers
<1>11. \A e \in PyValues : IngressFinding(e, r).severity = IF covers(e) THEN "CRITICAL" ELSE "HIGH"
  BY DEF IngressFinding, Finding, covers
<1>12. Of(said, "CRITICAL") = admin
  <2>1. {n \in DOMAIN said : said[n].severity = "CRITICAL"} = Hits(open, DOMAIN open, Risky)
    BY <1>3, <1>10, <1>11, SeveritiesDiffer DEF Hits
  <2> HIDE DEF Risky
  <2>2. Cardinality(Hits(open, DOMAIN open, Risky)) = Cardinality(Hits(entry, offending, Risky))
    BY <1>4, <1>9, KeptCount DEF open
  <2> QED
    BY <1>7, <2>1, <2>2 DEF Of, Hits
<1>13. Of(said, "HIGH") = others
  <2>1. {n \in DOMAIN said : said[n].severity = "HIGH"} = Hits(open, DOMAIN open, Mild)
    BY <1>3, <1>10, <1>11, SeveritiesDiffer DEF Hits
  <2> HIDE DEF Mild
  <2>2. Cardinality(Hits(open, DOMAIN open, Mild)) = Cardinality(Hits(entry, offending, Mild))
    BY <1>4, <1>9, KeptCount DEF open
  <2> QED
    BY <1>8, <2>1, <2>2 DEF Of, Hits
<1>14. Of(said, "MEDIUM") = 0
  <2>1. {n \in DOMAIN said : said[n].severity = "MEDIUM"} = {}
    BY <1>3, <1>10, <1>11, SeveritiesDiffer
  <2> QED
    BY <2>1, FS_EmptySet DEF Of
<1>15. Documented(r) = Promise(admin, others, 0)
  BY TypesDiffer DEF Documented, GroupPromise
<1>16. \A severity : Reported(r, severity) = Of(said, severity)
  BY ReportedByType
<1> HIDE DEF said, admin, others
<1> QED
  BY <1>12, <1>13, <1>14, <1>15, <1>16, Promised

\* iam.py: the statements of a document that grant field to all.
Granting(doc, field) ==
    {n \in DOMAIN StatementsOf(doc) : GrantsAll(StatementsOf(doc)[n], field)}

\* The wildcard counts whether it stands alone or in a list.
LEMMA StarValue ==
    ASSUME NEW v \in PyValues
    PROVE  has_literal_star(v) <=> Str("*") \in ToSet(as_list(v))
<1>1. has_literal_star(v) <=>
         literal_or_none(v) # None /\ \E n \in DOMAIN as_list(v) : as_list(v)[n] = Str("*")
  BY DEF has_literal_star
<1>2. Str("*") \in ToSet(as_list(v)) <=> \E n \in DOMAIN as_list(v) : as_list(v)[n] = Str("*")
  BY DEF ToSet
<1>3. ASSUME literal_or_none(v) = None
      PROVE  ~\E n \in DOMAIN as_list(v) : as_list(v)[n] = Str("*")
  <2>1. ~IsList(v) /\ v # Str("*")
    BY <1>3, LiteralFacts, NoneFacts
  <2>2. as_list(v) = <<v>>
    BY <2>1 DEF as_list
  <2> QED
    BY <2>1, <2>2
<1> QED
  BY <1>1, <1>2, <1>3

\* A statement that is allowed and has the wildcard, said of what it has.
LEMMA StatementGrants ==
    ASSUME NEW stmt \in PyValues, NEW field
    PROVE  IsAllow(stmt) /\ has_literal_star(Get(stmt, Str(field))) <=> GrantsAll(stmt, field)
<1> DEFINE effect == Get(stmt, Str("Effect"))
           v == Get(stmt, Str(field))
<1>1. IsDict(stmt) => effect \in PyValues /\ v \in PyValues
  BY GetIsValue
<1>2. is_intrinsic(stmt) => effect = None
  <2>1. "Effect" \notin INTRINSIC_KEYS
    BY NoFunctions
  <2> QED
    BY <2>1, OnlyItsKey
<1>3. GrantsAll(stmt, field) <=>
         IsDict(stmt) /\ effect = Str("Allow") /\ Str("*") \in ToSet(as_list(v))
  BY DEF GrantsAll
<1>4. ASSUME IsDict(stmt), ~is_intrinsic(stmt)
      PROVE  IsAllow(stmt) <=> effect = Str("Allow")
  <2>1. literal_or_none(stmt) = stmt
    BY <1>4 DEF literal_or_none
  <2>2. IsAllow(stmt) <=> literal_or_none(effect) = Str("Allow")
    BY <1>4, <2>1 DEF IsAllow
  <2> HIDE DEF effect
  <2> QED
    BY <1>1, <1>4, <2>2, LiteralFacts
<1>5. IsAllow(stmt) => IsDict(stmt) /\ ~is_intrinsic(stmt)
  BY LiteralFacts, NoneFacts DEF IsAllow, literal_or_none
<1> HIDE DEF effect, v
<1>6. IsDict(stmt) => (has_literal_star(v) <=> Str("*") \in ToSet(as_list(v)))
  BY <1>1, StarValue
<1>7. effect = Str("Allow") => ~is_intrinsic(stmt)
  BY <1>2, NoneFacts
<1> QED
  BY <1>3, <1>4, <1>5, <1>6, <1>7 DEF v

\* What is no dict has no statement that grants anything.
LEMMA NoGrant ==
    ASSUME NEW doc, ~IsDict(doc), NEW field
    PROVE  Granting(doc, field) = {}
<1>1. StatementsOf(doc) = << >>
  BY DEF StatementsOf
<1> QED
  BY <1>1 DEF Granting

\* Neither has one that is an intrinsic, or that None or an intrinsic is the one
\* statement of.
LEMMA NoGrantUnknown ==
    ASSUME NEW doc \in PyValues, IsDict(doc), NEW field,
           literal_or_none(Get(doc, Str("Statement"))) = None
    PROVE  Granting(doc, field) = {}
<1> DEFINE raw == Get(doc, Str("Statement"))
<1>1. raw \in PyValues
  BY GetIsValue
<1> HIDE DEF raw
<1>2. StatementsOf(doc) = as_list(raw)
  BY DEF StatementsOf, raw
<1>3. as_list(raw) = <<raw>>
  <2>1. ~IsList(raw)
    BY <1>1, LiteralFacts, NoneFacts DEF raw
  <2> QED
    BY <2>1 DEF as_list
<1>4. ~GrantsAll(raw, field)
  <2>1. raw = None \/ is_intrinsic(raw)
    BY DEF literal_or_none, raw
  <2>2. ~IsDict(None)
    BY NoneFacts
  <2>3. is_intrinsic(raw) => ~IsAllow(raw)
    BY NoneFacts DEF IsAllow, literal_or_none
  <2> QED
    BY <1>1, <2>1, <2>2, <2>3, StatementGrants DEF GrantsAll
<1> QED
  BY <1>2, <1>3, <1>4 DEF Granting

LEMMA GrantLiteral ==
    ASSUME NEW v \in PyValues, NEW field
    PROVE  Granting(literal_or_none(v), field) = Granting(v, field)
<1>1. CASE is_intrinsic(v)
  <2>1. IsDict(v) /\ literal_or_none(v) = None
    BY <1>1 DEF is_intrinsic, literal_or_none
  <2>2. Granting(None, field) = {}
    BY NoGrant, NoneFacts
  <2>3. Get(v, Str("Statement")) = None
    <3>1. "Statement" \notin INTRINSIC_KEYS
      BY NoFunctions
    <3> QED
      BY <1>1, <3>1, OnlyItsKey
  <2>4. Granting(v, field) = {}
    BY <2>1, <2>3, NoneFacts, NoGrantUnknown
  <2> QED
    BY <2>1, <2>2, <2>4
<1>2. CASE ~is_intrinsic(v)
  BY <1>2 DEF literal_or_none
<1> QED
  BY <1>1, <1>2

\* iam.py counts of a document the statements that grant field to all.
LEMMA StarredOf ==
    ASSUME NEW doc \in PyValues, NEW field
    PROVE  /\ IsFiniteSet(Granting(doc, field))
           /\ Cardinality(Granting(doc, field)) \in Nat
           /\ Cardinality(starred(doc, field)) = Cardinality(Granting(doc, field))
<1> DEFINE raw == Get(doc, Str("Statement"))
           value == literal_or_none(raw)
           V == {v \in PyValues : has_literal_star(Get(v, Str(field)))}
<1>1. IsFiniteSet({}) /\ Cardinality({}) = 0 /\ 0 \in Nat
  BY FS_EmptySet
<1>2. ASSUME allow_statements(doc) = << >>, Granting(doc, field) = {}
      PROVE  /\ IsFiniteSet(Granting(doc, field))
             /\ Cardinality(Granting(doc, field)) \in Nat
             /\ Cardinality(starred(doc, field)) = Cardinality(Granting(doc, field))
  <2>1. starred(doc, field) = {}
    BY <1>2 DEF starred
  <2> HIDE DEF raw, value, V
  <2>2. starred(doc, field) = Granting(doc, field)
    BY <1>2, <2>1
  <2> QED
    BY <1>1, <1>2, <2>2
<1>3. CASE ~IsDict(doc)
  <2>1. allow_statements(doc) = << >>
    BY <1>3 DEF allow_statements
  <2>2. Granting(doc, field) = {}
    BY <1>3, NoGrant
  <2> QED
    BY <1>2, <2>1, <2>2
<1>4. CASE IsDict(doc) /\ value = None
  <2>1. allow_statements(doc) = << >>
    BY <1>4 DEF allow_statements
  <2>2. Granting(doc, field) = {}
    BY <1>4, NoGrantUnknown
  <2> QED
    BY <1>2, <2>1, <2>2
<1>5. CASE IsDict(doc) /\ value # None
  <2> DEFINE statements == as_list(raw)
             K == {n \in DOMAIN statements : IsAllow(statements[n])}
             allowed == kept(statements, K)
  <2>1. value = raw
    BY <1>5 DEF literal_or_none
  <2>2. allow_statements(doc) = allowed
    BY <1>5, <2>1 DEF allow_statements
  <2>3. raw \in PyValues
    BY <1>5, GetIsValue
  <2>4. StatementsOf(doc) = statements
    BY <1>5 DEF StatementsOf
  <2> HIDE DEF raw
  <2>5. statements \in Seq(PyValues)
    BY <2>3, AsListIsSeq
  <2> HIDE DEF statements
  <2>6. K \in SUBSET DOMAIN statements
    OBVIOUS
  <2>7. \A n \in DOMAIN statements : statements[n] \in PyValues
    BY <2>5, ElementOfSeq
  <2>8. Granting(doc, field) = Hits(statements, K, V)
    <3>1. \A n \in DOMAIN statements :
             GrantsAll(statements[n], field)
                <=> IsAllow(statements[n]) /\ has_literal_star(Get(statements[n], Str(field)))
      BY <2>7, StatementGrants
    <3> QED
      BY <2>4, <2>7, <3>1 DEF Granting, Hits
  <2> HIDE DEF K
  <2>9. allowed \in Seq(PyValues) /\ \A n \in DOMAIN allowed : allowed[n] \in PyValues
    BY <2>5, <2>6, KeptFacts, ElementOfSeq
  <2> HIDE DEF allowed
  <2>10. starred(doc, field) = Hits(allowed, DOMAIN allowed, V)
    BY <2>2, <2>9 DEF starred, Hits
  <2> HIDE DEF V
  <2>11. Cardinality(Hits(allowed, DOMAIN allowed, V)) = Cardinality(Hits(statements, K, V))
    BY <2>5, <2>6, KeptCount DEF allowed
  <2>12. Granting(doc, field) \in SUBSET DOMAIN statements
    BY <2>4 DEF Granting
  <2>13. IsFiniteSet(Granting(doc, field)) /\ Cardinality(Granting(doc, field)) \in Nat
    BY <2>5, <2>12, Positions
  <2> QED
    BY <2>8, <2>10, <2>11, <2>13
<1> QED
  BY <1>3, <1>4, <1>5

\* The granting statements of a document, with the document's number.
Marked(n, doc, field) == {<<n, k>> : k \in Granting(doc, field)}
Marks(docs, field) == UNION {Marked(n, docs[n], field) : n \in DOMAIN docs}

LEMMA MarkedCount ==
    ASSUME NEW doc \in PyValues, NEW field, NEW n
    PROVE  /\ IsFiniteSet(Marked(n, doc, field))
           /\ Cardinality(Marked(n, doc, field)) = Cardinality(Granting(doc, field))
<1> DEFINE G == Granting(doc, field)
           M == Marked(n, doc, field)
           mark == [k \in G |-> <<n, k>>]
<1>1. IsFiniteSet(G)
  BY StarredOf
<1>2. /\ mark \in [G -> M]
      /\ \A k, m \in G : mark[k] = mark[m] => k = m
      /\ \A p \in M : \E k \in G : mark[k] = p
  <2> HIDE DEF G
  <2> QED
    BY DEF Marked, G
<1> HIDE DEF G, M, mark
<1>3. IsFiniteSet(M) /\ Cardinality(M) = Cardinality(G)
  BY <1>1, <1>2, SameNumber
<1> QED
  BY <1>3 DEF G, M

LEMMA MarksOfOne ==
    ASSUME NEW doc, NEW field
    PROVE  Marks(<<doc>>, field) = Marked(1, doc, field)
<1>1. DOMAIN <<doc>> = {1} /\ <<doc>>[1] = doc
  OBVIOUS
<1> QED
  BY <1>1 DEF Marks

LEMMA MarksOfNone ==
    ASSUME NEW field
    PROVE  Marks(<< >>, field) = {}
BY DEF Marks

\* One document alone.
LEMMA CountOne ==
    ASSUME NEW doc \in PyValues, NEW field, NEW f \in Findings
    PROVE  Count(<<doc>>, field, f) = Cardinality(Granting(doc, field))
<1> DEFINE docs == <<doc>>
           C == Cardinality(starred(doc, field))
           F == Found(docs, field, f)
           one == [k \in 1..C |-> f]
<1>1. docs \in Seq(PyValues) /\ Len(docs) = 1
  OBVIOUS
<1>2. C \in Nat /\ C = Cardinality(Granting(doc, field))
  BY StarredOf
<1>3. F \in Seq(Seq(Findings)) /\ Len(F) = 1
  BY <1>1, FoundType
<1>4. F[1] = one
  BY DEF Found
<1> HIDE DEF docs, C, F
<1>5. one \in Seq(Findings) /\ Len(one) = C
  BY <1>2
<1>6. FlattenSeq(F) = FlattenSeq(<< >>) \o F[1]
  <2> DEFINE tt == << >>
  <2>1. tt \in Seq(Seq(Findings)) /\ Len(tt) = 0 /\ \A n \in 1..Len(tt) : F[n] = tt[n]
    OBVIOUS
  <2>2. Len(F) = Len(tt) + 1
    BY <1>3, <2>1
  <2> HIDE DEF tt
  <2>3. FlattenSeq(F) = FlattenSeq(tt) \o F[Len(F)]
    BY <1>3, <2>1, <2>2, FlattenLonger
  <2> QED
    BY <1>3, <2>3 DEF tt
<1>7. FlattenSeq(F) = one
  <2> HIDE DEF one
  <2> QED
    BY <1>4, <1>5, <1>6, FlattenNone, ConcatEmptySeq
<1> QED
  BY <1>2, <1>5, <1>7 DEF Count, F, docs

\* As many findings as there are granting statements in the documents.
LEMMA CountMarks ==
    ASSUME NEW docs \in Seq(PyValues), NEW field, NEW f \in Findings
    PROVE  /\ IsFiniteSet(Marks(docs, field))
           /\ Count(docs, field, f) = Cardinality(Marks(docs, field))
<1> DEFINE Counted(d) == /\ IsFiniteSet(Marks(d, field))
                         /\ Count(d, field, f) = Cardinality(Marks(d, field))
           S == {m \in Nat : \A d \in Seq(PyValues) : Len(d) = m => Counted(d)}
<1>1. 0 \in S
  <2>1. Counted(<< >>)
    BY MarksOfNone, CountNone, FS_EmptySet
  <2>2. \A d \in Seq(PyValues) : Len(d) = 0 => d = << >>
    BY EmptySeq
  <2> HIDE DEF Counted
  <2> QED
    BY <2>1, <2>2
<1>2. ASSUME NEW m \in Nat, m \in S
      PROVE  m + 1 \in S
  <2>1. ASSUME NEW d \in Seq(PyValues), Len(d) = m + 1
        PROVE  Counted(d)
    <3> DEFINE v == SubSeq(d, 1, m)
               last == d[m + 1]
               alone == <<last>>
    <3>1. /\ DOMAIN d = 1..(m + 1)
          /\ \A n \in 1..(m + 1) : d[n] \in PyValues
      BY <2>1, LenProperties, ElementOfSeq
    <3>2. /\ v \in Seq(PyValues) /\ Len(v) = m
          /\ \A n \in 1..m : v[n] = d[n]
      BY <2>1, <3>1, SubSeqProperties
    <3>3. last \in PyValues
      BY <3>1
    <3>4. d = v \o alone
      BY <2>1
    <3> HIDE DEF v, last
    <3>5. alone \in Seq(PyValues)
      BY <3>3
    <3>6. Counted(v)
      BY <1>2, <3>2
    <3>7. DOMAIN v = 1..m
      BY <3>2, LenProperties
    <3>8. Count(alone, field, f) = Cardinality(Granting(last, field))
      BY <3>3, CountOne
    <3> HIDE DEF alone
    <3>9. Count(d, field, f) = Count(v, field, f) + Count(alone, field, f)
      BY <3>2, <3>4, <3>5, CountConcat
    <3> DEFINE A == Marks(v, field)
               B == Marked(m + 1, last, field)
    <3>10. IsFiniteSet(B) /\ Cardinality(B) = Cardinality(Granting(last, field))
      BY <3>3, MarkedCount
    <3>11. Marks(d, field) = A \cup B
      <4>1. 1..(m + 1) = (1..m) \cup {m + 1}
        OBVIOUS
      <4>2. A = UNION {Marked(n, d[n], field) : n \in 1..m}
        BY <3>2, <3>7 DEF Marks
      <4>3. Marks(d, field) = UNION {Marked(n, d[n], field) : n \in 1..(m + 1)}
        BY <3>1 DEF Marks
      <4>4. B = Marked(m + 1, d[m + 1], field)
        BY DEF last
      <4> HIDE DEF A, B
      <4> QED
        BY <4>1, <4>2, <4>3, <4>4
    <3>12. A \cap B = {}
      <4>1. \A p \in A : p[1] \in 1..m
        BY <3>7 DEF Marks, Marked
      <4>2. \A p \in B : p[1] = m + 1
        BY DEF Marked
      <4>3. m + 1 \notin 1..m
        OBVIOUS
      <4> HIDE DEF A, B
      <4> QED
        BY <4>1, <4>2, <4>3
    <3>13. IsFiniteSet(A) /\ Count(v, field, f) = Cardinality(A)
      BY <3>6
    <3> HIDE DEF A, B
    <3>14. /\ IsFiniteSet(A \cup B)
           /\ Cardinality(A \cup B) = Cardinality(A) + Cardinality(B)
      BY <3>10, <3>12, <3>13, Apart
    <3> QED
      BY <3>8, <3>9, <3>10, <3>11, <3>13, <3>14
  <2> HIDE DEF Counted
  <2> QED
    BY <2>1
<1> HIDE DEF S
<1>3. \A m \in Nat : m \in S
  BY <1>1, <1>2, AllNumbers
<1>4. Len(docs) \in S
  BY <1>3, LenProperties
<1> QED
  BY <1>4 DEF S

\* None among the documents makes no difference.
LEMMA CountNotNone ==
    ASSUME NEW docs \in Seq(PyValues), NEW field, NEW f \in Findings
    PROVE  /\ IsFiniteSet(Marks(docs, field))
           /\ Count(not_none(docs), field, f) = Cardinality(Marks(docs, field))
<1> DEFINE K == {n \in DOMAIN docs : docs[n] # None}
           some == kept(docs, K)
           N == Marks(some, field)
           M == Marks(docs, field)
<1>1. K \in SUBSET DOMAIN docs
  OBVIOUS
<1>2. not_none(docs) = some
  BY DEF not_none
<1>3. \A n \in DOMAIN docs : n \notin K => Granting(docs[n], field) = {}
  BY NoGrant, NoneFacts
<1> HIDE DEF K
<1>4. some \in Seq(PyValues)
  BY <1>1, KeptFacts
<1>5. PICK place \in [1..Cardinality(K) -> K] :
              /\ \A m, n \in 1..Cardinality(K) : place[m] = place[n] => m = n
              /\ \A k \in K : \E n \in 1..Cardinality(K) : place[n] = k
              /\ some = [n \in 1..Cardinality(K) |-> docs[place[n]]]
  BY <1>1, KeptPlaces
<1> HIDE DEF some
<1>6. IsFiniteSet(N) /\ Count(some, field, f) = Cardinality(N)
  BY <1>4, CountMarks
<1> DEFINE C == 1..Cardinality(K)
           back == [p \in N |-> <<place[p[1]], p[2]>>]
<1>7. DOMAIN some = C /\ \A n \in C : some[n] = docs[place[n]] /\ place[n] \in K
  BY <1>5
<1>8. /\ \A n \in C : \A k \in Granting(docs[place[n]], field) : <<n, k>> \in N
      /\ \A p \in N : \E n \in C : \E k \in Granting(docs[place[n]], field) : p = <<n, k>>
  BY <1>7 DEF Marks, Marked
<1>9. /\ \A n \in DOMAIN docs : \A k \in Granting(docs[n], field) : <<n, k>> \in M
      /\ \A p \in M : \E n \in DOMAIN docs : \E k \in Granting(docs[n], field) : p = <<n, k>>
  BY DEF Marks, Marked
<1> HIDE DEF N, M, C
<1>10. back \in [N -> M]
  BY <1>1, <1>7, <1>8, <1>9
<1>11. \A p, q \in N : back[p] = back[q] => p = q
  BY <1>5, <1>8 DEF C
<1>12. \A p \in M : \E q \in N : back[q] = p
  <2>1. ASSUME NEW p \in M
        PROVE  \E q \in N : back[q] = p
    <3>1. PICK n \in DOMAIN docs : \E k \in Granting(docs[n], field) : p = <<n, k>>
      BY <1>9
    <3>2. PICK k \in Granting(docs[n], field) : p = <<n, k>>
      BY <3>1
    <3>3. n \in K
      BY <1>3, <3>2
    <3>4. PICK c \in C : place[c] = n
      BY <1>5, <3>3 DEF C
    <3>5. <<c, k>> \in N
      BY <1>8, <3>2, <3>4
    <3>6. back[<<c, k>>] = <<n, k>>
      BY <3>4, <3>5
    <3> QED
      BY <3>2, <3>5, <3>6
  <2> QED
    BY <2>1
<1> HIDE DEF back
<1>13. IsFiniteSet(M) /\ Cardinality(M) = Cardinality(N)
  BY <1>6, <1>10, <1>11, <1>12, SameNumber
<1> QED
  BY <1>2, <1>6, <1>13 DEF M

\* Starred(r, field), in the same three parts as the documents of r.
SingleMarks(r, field) ==
    IF r.type \in POLICY_DOCUMENT_TYPES THEN Marked(0, Property(r, "PolicyDocument"), field) ELSE {}
AssumeMarks(r, field) ==
    IF r.type = "AWS::IAM::Role"
    THEN Marked(-1, Property(r, "AssumeRolePolicyDocument"), field) ELSE {}
InlineMarks(r, field) ==
    IF r.type \in POLICIES_LIST_TYPES /\ IsList(Property(r, "Policies"))
    THEN Marks(InlineDocuments(Property(r, "Policies").list), field) ELSE {}

LEMMA InlineMarked ==
    ASSUME NEW policies \in Seq(PyValues), NEW field
    PROVE  Marks(InlineDocuments(policies), field) =
              UNION {Marked(n, Get(policies[n], Str("PolicyDocument")), field) :
                        n \in {m \in DOMAIN policies : IsDict(policies[m])}}
<1> DEFINE docs == InlineDocuments(policies)
           doc(n) == Get(policies[n], Str("PolicyDocument"))
           D == {m \in DOMAIN policies : IsDict(policies[m])}
<1>1. \A n \in DOMAIN policies : policies[n] \in PyValues
  BY ElementOfSeq
<1>2. Granting(None, field) = {}
  BY NoGrant, NoneFacts
<1>3. /\ DOMAIN docs = DOMAIN policies
      /\ \A n \in DOMAIN policies :
            docs[n] = IF IsDict(literal_or_none(policies[n]))
                      THEN literal_or_none(doc(n)) ELSE None
  BY DEF InlineDocuments
<1>4. ASSUME NEW n \in D
      PROVE  Granting(docs[n], field) = Granting(doc(n), field)
  <2>1. policies[n] \in PyValues /\ IsDict(policies[n]) /\ n \in DOMAIN policies
    BY <1>1
  <2>2. CASE is_intrinsic(policies[n])
    <3>1. doc(n) = None
      <4>1. "PolicyDocument" \notin INTRINSIC_KEYS
        BY NoFunctions
      <4> QED
        BY <2>1, <2>2, <4>1, OnlyItsKey
    <3>2. literal_or_none(policies[n]) = None
      BY <2>2 DEF literal_or_none
    <3>3. docs[n] = None
      BY <1>3, <2>1, <3>2, NoneFacts
    <3> QED
      BY <3>1, <3>3
  <2>3. CASE ~is_intrinsic(policies[n])
    <3>1. docs[n] = literal_or_none(doc(n))
      BY <1>3, <2>1, <2>3 DEF literal_or_none
    <3>2. doc(n) \in PyValues
      BY <2>1, GetIsValue
    <3> HIDE DEF doc
    <3> QED
      BY <3>1, <3>2, GrantLiteral
  <2> QED
    BY <2>2, <2>3
<1>5. ASSUME NEW n \in DOMAIN policies, n \notin D
      PROVE  Granting(docs[n], field) = {}
  <2>1. ~IsDict(literal_or_none(policies[n]))
    BY <1>1, <1>5, LiteralFacts, NoneFacts DEF literal_or_none
  <2> QED
    BY <1>2, <1>3, <2>1
<1> HIDE DEF docs, doc
<1>6. Marks(docs, field) = UNION {{<<n, k>> : k \in Granting(docs[n], field)} : n \in DOMAIN policies}
  BY <1>3 DEF Marks, Marked
<1>7. UNION {Marked(n, doc(n), field) : n \in D}
         = UNION {{<<n, k>> : k \in Granting(doc(n), field)} : n \in D}
  BY DEF Marked
<1>8. Marks(docs, field) = UNION {Marked(n, doc(n), field) : n \in D}
  <2> DEFINE A == UNION {{<<n, k>> : k \in Granting(docs[n], field)} : n \in DOMAIN policies}
             B == UNION {{<<n, k>> : k \in Granting(doc(n), field)} : n \in D}
  <2>1. ASSUME NEW p \in A
        PROVE  p \in B
    <3>1. PICK n \in DOMAIN policies : \E k \in Granting(docs[n], field) : p = <<n, k>>
      OBVIOUS
    <3>2. n \in D /\ \E k \in Granting(doc(n), field) : p = <<n, k>>
      BY <1>4, <1>5, <3>1
    <3> QED
      BY <3>2
  <2>2. \A p \in B : p \in A
    BY <1>4
  <2> QED
    BY <1>6, <1>7, <2>1, <2>2
<1> QED
  BY <1>8 DEF docs, doc

LEMMA StarredParts ==
    ASSUME NEW r \in Resources, NEW field
    PROVE  Starred(r, field) = (SingleMarks(r, field) \cup InlineMarks(r, field)) \cup AssumeMarks(r, field)
<1> DEFINE policies == Property(r, "Policies")
           single == IF r.type \in POLICY_DOCUMENT_TYPES
                     THEN {<<0, Property(r, "PolicyDocument")>>} ELSE {}
           assume == IF r.type = "AWS::IAM::Role"
                     THEN {<<-1, Property(r, "AssumeRolePolicyDocument")>>} ELSE {}
           inline == IF r.type \in POLICIES_LIST_TYPES /\ IsList(policies)
                     THEN {<<n, Get(policies.list[n], Str("PolicyDocument"))>> :
                              n \in {m \in DOMAIN policies.list : IsDict(policies.list[m])}}
                     ELSE {}
           U(docs) == UNION {Marked(d[1], d[2], field) : d \in docs}
<1>1. Starred(r, field) = U(DocumentsOf(r))
  BY DEF Starred, Marked, Granting
<1>2. DocumentsOf(r) = (single \cup assume) \cup inline
  BY DEF DocumentsOf
<1>3. U({}) = {} /\ \A n, doc : U({<<n, doc>>}) = Marked(n, doc, field)
  OBVIOUS
<1> HIDE DEF U
<1>4. U(single) = SingleMarks(r, field) /\ U(assume) = AssumeMarks(r, field)
  BY <1>3 DEF SingleMarks, AssumeMarks
<1> USE DEF U
<1>5. U(inline) = InlineMarks(r, field)
  <2>1. CASE r.type \in POLICIES_LIST_TYPES /\ IsList(policies)
    <3> DEFINE D == {m \in DOMAIN policies.list : IsDict(policies.list[m])}
               doc(n) == Get(policies.list[n], Str("PolicyDocument"))
    <3>1. policies.list \in Seq(PyValues)
      BY <2>1, PropertyIsValue, PyValue
    <3>2. InlineMarks(r, field) = UNION {Marked(n, doc(n), field) : n \in D}
      BY <2>1, <3>1, InlineMarked DEF InlineMarks
    <3>3. inline = {<<n, doc(n)>> : n \in D}
      BY <2>1
    <3> HIDE DEF D, doc, inline
    <3>4. \A p : p \in U(inline) <=> \E d \in inline : p \in Marked(d[1], d[2], field)
      OBVIOUS
    <3>5. \A p : p \in InlineMarks(r, field) <=> \E n \in D : p \in Marked(n, doc(n), field)
      BY <3>2
    <3> HIDE DEF U
    <3>6. \A n \in D : <<n, doc(n)>> \in inline /\ <<n, doc(n)>>[1] = n /\ <<n, doc(n)>>[2] = doc(n)
      BY <3>3
    <3>7. \A d \in inline : \E n \in D : d[1] = n /\ d[2] = doc(n)
      BY <3>3
    <3>8. \A p : p \in U(inline) <=> p \in InlineMarks(r, field)
      BY <3>4, <3>5, <3>6, <3>7
    <3> USE DEF U
    <3> QED
      BY <3>2, <3>8
  <2>2. CASE ~(r.type \in POLICIES_LIST_TYPES /\ IsList(policies))
    BY <1>3, <2>2 DEF InlineMarks
  <2> QED
    BY <2>1, <2>2
<1> HIDE DEF single, assume, inline
<1>6. U((single \cup assume) \cup inline) = (U(single) \cup U(inline)) \cup U(assume)
  OBVIOUS
<1> QED
  BY <1>1, <1>2, <1>4, <1>5, <1>6

\* Each part of the documents is counted as its part of the promise.
LEMMA PartsCounted ==
    ASSUME NEW r \in Resources, NEW field, NEW f \in Findings
    PROVE  /\ IsFiniteSet(SingleMarks(r, field))
           /\ Count(SinglePart(r), field, f) = Cardinality(SingleMarks(r, field))
           /\ IsFiniteSet(InlineMarks(r, field))
           /\ Count(InlinePart(r), field, f) = Cardinality(InlineMarks(r, field))
           /\ IsFiniteSet(AssumeMarks(r, field))
           /\ Count(AssumePart(r), field, f) = Cardinality(AssumeMarks(r, field))
<1>1. /\ Count(not_none(<< >>), field, f) = 0
      /\ IsFiniteSet({}) /\ Cardinality({}) = 0
  BY NotNoneOfNone, CountNone, FS_EmptySet
<1>2. ASSUME NEW v \in PyValues, NEW n
      PROVE  /\ IsFiniteSet(Marked(n, v, field))
             /\ Count(not_none(<<literal_or_none(v)>>), field, f) = Cardinality(Marked(n, v, field))
  <2> DEFINE lit == literal_or_none(v)
             docs == <<lit>>
  <2>1. lit \in PyValues /\ Granting(lit, field) = Granting(v, field)
    BY LiteralIsValue, GrantLiteral
  <2> HIDE DEF lit
  <2>2. docs \in Seq(PyValues)
    BY <2>1
  <2>3. Marks(docs, field) = Marked(1, lit, field)
    BY MarksOfOne
  <2> HIDE DEF docs
  <2>4. Count(not_none(docs), field, f) = Cardinality(Marks(docs, field))
    BY <2>2, CountNotNone
  <2>5. Cardinality(Marked(1, lit, field)) = Cardinality(Granting(lit, field))
    BY <2>1, MarkedCount
  <2>6. /\ IsFiniteSet(Marked(n, v, field))
        /\ Cardinality(Marked(n, v, field)) = Cardinality(Granting(v, field))
    BY MarkedCount
  <2> QED
    BY <2>1, <2>3, <2>4, <2>5, <2>6 DEF docs, lit
<1>3. /\ IsFiniteSet(SingleMarks(r, field))
      /\ Count(SinglePart(r), field, f) = Cardinality(SingleMarks(r, field))
  <2>1. CASE r.type \in POLICY_DOCUMENT_TYPES
    <3>1. SinglePart(r) = not_none(<<literal_or_none(Property(r, "PolicyDocument"))>>)
      BY <2>1 DEF SinglePart, Literal
    <3>2. SingleMarks(r, field) = Marked(0, Property(r, "PolicyDocument"), field)
      BY <2>1 DEF SingleMarks
    <3> QED
      BY <1>2, <3>1, <3>2, PropertyIsValue
  <2>2. CASE r.type \notin POLICY_DOCUMENT_TYPES
    BY <1>1, <2>2 DEF SinglePart, SingleMarks
  <2> QED
    BY <2>1, <2>2
<1>4. /\ IsFiniteSet(AssumeMarks(r, field))
      /\ Count(AssumePart(r), field, f) = Cardinality(AssumeMarks(r, field))
  <2>1. CASE r.type = "AWS::IAM::Role"
    <3>1. AssumePart(r) = not_none(<<literal_or_none(Property(r, "AssumeRolePolicyDocument"))>>)
      BY <2>1 DEF AssumePart, Literal
    <3>2. AssumeMarks(r, field) = Marked(-1, Property(r, "AssumeRolePolicyDocument"), field)
      BY <2>1 DEF AssumeMarks
    <3> QED
      BY <1>2, <3>1, <3>2, PropertyIsValue
  <2>2. CASE r.type # "AWS::IAM::Role"
    BY <1>1, <2>2 DEF AssumePart, AssumeMarks
  <2> QED
    BY <2>1, <2>2
<1>5. /\ IsFiniteSet(InlineMarks(r, field))
      /\ Count(InlinePart(r), field, f) = Cardinality(InlineMarks(r, field))
  <2> DEFINE policies == Property(r, "Policies")
  <2>1. policies \in PyValues /\ Literal(r, "Policies") = literal_or_none(policies)
    BY PropertyIsValue DEF Literal
  <2>2. CASE r.type \in POLICIES_LIST_TYPES /\ IsList(policies)
    <3> DEFINE docs == InlineDocuments(policies.list)
    <3>1. Literal(r, "Policies") = policies
      BY <2>1, <2>2, LiteralFacts
    <3>2. InlinePart(r) = not_none(docs)
      BY <2>2, <3>1 DEF InlinePart
    <3>3. InlineMarks(r, field) = Marks(docs, field)
      BY <2>2 DEF InlineMarks
    <3>4. docs \in Seq(PyValues)
      BY <2>1, <2>2, PyValue, InlineType
    <3> HIDE DEF docs
    <3> QED
      BY <3>2, <3>3, <3>4, CountNotNone
  <2>3. CASE ~(r.type \in POLICIES_LIST_TYPES /\ IsList(policies))
    <3>1. ~(r.type \in POLICIES_LIST_TYPES /\ IsList(Literal(r, "Policies")))
      BY <2>1, <2>3, LiteralFacts
    <3> QED
      BY <1>1, <2>3, <3>1 DEF InlinePart, InlineMarks
  <2> QED
    BY <2>2, <2>3
<1> QED
  BY <1>3, <1>4, <1>5

\* The rule's findings are as many as the statements that its promise names.
LEMMA StarCounted ==
    ASSUME NEW r \in Resources, NEW field, NEW f \in Findings
    PROVE  Count(iter_policy_documents(r), field, f) = Cardinality(Starred(r, field))
<1> DEFINE a == SinglePart(r)
           b == InlinePart(r)
           c == AssumePart(r)
           A == SingleMarks(r, field)
           B == InlineMarks(r, field)
           C == AssumeMarks(r, field)
           ab == a \o b
<1>1. a \in Seq(PyValues) /\ b \in Seq(PyValues) /\ c \in Seq(PyValues)
  BY PartsType
<1>2. iter_policy_documents(r) = ab \o c
  BY PartsOfDocuments
<1>3. Starred(r, field) = (A \cup B) \cup C
  BY StarredParts
<1>4. /\ IsFiniteSet(A) /\ Count(a, field, f) = Cardinality(A)
      /\ IsFiniteSet(B) /\ Count(b, field, f) = Cardinality(B)
      /\ IsFiniteSet(C) /\ Count(c, field, f) = Cardinality(C)
  BY PartsCounted
<1>5. /\ \A p \in A : p[1] = 0
      /\ \A p \in C : p[1] = -1
  BY DEF SingleMarks, AssumeMarks, Marked
<1>6. \A p \in B : p[1] \in Nat \ {0}
  <2>1. ASSUME NEW s \in Seq(PyValues), NEW p \in Marks(s, field)
        PROVE  p[1] \in Nat \ {0}
    <3>1. DOMAIN s \subseteq Nat \ {0}
      BY LenProperties
    <3> QED
      BY <3>1 DEF Marks, Marked
  <2>2. CASE r.type \in POLICIES_LIST_TYPES /\ IsList(Property(r, "Policies"))
    <3>1. InlineDocuments(Property(r, "Policies").list) \in Seq(PyValues)
      BY <2>2, PropertyIsValue, PyValue, InlineType
    <3> QED
      BY <2>1, <2>2, <3>1 DEF InlineMarks
  <2>3. CASE ~(r.type \in POLICIES_LIST_TYPES /\ IsList(Property(r, "Policies")))
    BY <2>3 DEF InlineMarks
  <2> QED
    BY <2>2, <2>3
<1> HIDE DEF a, b, c, A, B, C
<1>7. A \cap B = {} /\ (A \cup B) \cap C = {}
  BY <1>5, <1>6
<1>8. /\ IsFiniteSet(A \cup B)
      /\ Cardinality(A \cup B) = Cardinality(A) + Cardinality(B)
  BY <1>4, <1>7, Apart
<1>9. Cardinality((A \cup B) \cup C) = Cardinality(A \cup B) + Cardinality(C)
  BY <1>4, <1>7, <1>8, Apart
<1>10. ab \in Seq(PyValues) /\ Count(ab, field, f) = Count(a, field, f) + Count(b, field, f)
  BY <1>1, ConcatProperties, CountConcat
<1> HIDE DEF ab
<1>11. Count(ab \o c, field, f) = Count(ab, field, f) + Count(c, field, f)
  BY <1>1, <1>10, CountConcat
<1> QED
  BY <1>2, <1>3, <1>4, <1>8, <1>9, <1>10, <1>11

\* All of them are of the rule's severity.
LEMMA StarSays ==
    ASSUME NEW r \in Resources, NEW field, NEW id \in RuleIds, NEW t \in SEVERITIES
    PROVE  /\ Of(StarFindings(r, field, id, t).findings, t) = Cardinality(Starred(r, field))
           /\ \A severity : severity # t => Of(StarFindings(r, field, id, t).findings, severity) = 0
<1> DEFINE f == Finding(id, t, r)
           docs == iter_policy_documents(r)
           said == FlattenSeq(Found(docs, field, f))
<1>1. StarFindings(r, field, id, t).findings = said
  BY StarGives
<1>2. f \in Findings /\ f.severity = t
  BY FindingType DEF Finding
<1>3. docs \in Seq(PyValues)
  BY PartsOfDocuments, PartsType, ConcatProperties
<1>4. Count(docs, field, f) = Cardinality(Starred(r, field))
  BY <1>2, StarCounted
<1> HIDE DEF f, docs
<1>5. said \in Seq({f})
  <2>1. Found(docs, field, f) \in Seq(Seq({f}))
    BY <1>3, FoundType
  <2> QED
    BY <2>1, FlattenType
<1>6. Len(said) = Cardinality(Starred(r, field))
  BY <1>4 DEF Count
<1> HIDE DEF said
<1>7. Len(said) \in Nat /\ DOMAIN said = 1..Len(said) /\ \A n \in 1..Len(said) : said[n] = f
  BY <1>5, LenProperties, ElementOfSeq
<1>8. Of(said, t) = Len(said)
  <2>1. {n \in DOMAIN said : said[n].severity = t} = 1..Len(said)
    BY <1>2, <1>7
  <2>2. Cardinality(1..Len(said)) = Len(said)
    BY <1>7, FS_Interval
  <2> QED
    BY <2>1, <2>2 DEF Of
<1>9. ASSUME NEW severity, severity # t
      PROVE  Of(said, severity) = 0
  <2>1. {n \in DOMAIN said : said[n].severity = severity} = {}
    BY <1>2, <1>7, <1>9
  <2> QED
    BY <2>1, FS_EmptySet DEF Of
<1> QED
  BY <1>1, <1>6, <1>8, <1>9

\* iam.py
LEMMA PolicyDocumented ==
    ASSUME NEW r \in Resources, r.type \in ALL_IAM_TYPES
    PROVE  AsDocumented(r)
<1> DEFINE actions == Cardinality(Starred(r, "Action"))
           targets == Cardinality(Starred(r, "Resource"))
           ofAction == evaluate("CFN_IAM_001", r).findings
           ofResource == evaluate("CFN_IAM_002", r).findings
<1>1. Documented(r) = Promise(0, actions, targets)
  BY TypesDiffer DEF Documented, PolicyPromise
<1>2. \A severity : Reported(r, severity) = Of(ofAction, severity) + Of(ofResource, severity)
  BY TypesDiffer, ReportedByType
<1>3. /\ ofAction = StarFindings(r, "Action", "CFN_IAM_001", "HIGH").findings
      /\ ofResource = StarFindings(r, "Resource", "CFN_IAM_002", "MEDIUM").findings
  BY DEF evaluate, IamAllowActionWildcard, IamAllowResourceWildcard
<1>4. "CFN_IAM_001" \in RuleIds /\ "CFN_IAM_002" \in RuleIds
  BY RuleFacts
<1>5. /\ Of(ofAction, "HIGH") = actions
      /\ Of(ofAction, "CRITICAL") = 0 /\ Of(ofAction, "MEDIUM") = 0
  BY <1>3, <1>4, SeveritiesDiffer, StarSays
<1>6. /\ Of(ofResource, "MEDIUM") = targets
      /\ Of(ofResource, "CRITICAL") = 0 /\ Of(ofResource, "HIGH") = 0
  BY <1>3, <1>4, SeveritiesDiffer, StarSays
<1>7. actions \in Nat /\ targets \in Nat
  <2>1. ofAction \in Seq(Findings) /\ ofResource \in Seq(Findings)
    BY <1>4, Evaluated DEF Given
  <2> QED
    BY <1>5, <1>6, <2>1, OfType
<1> HIDE DEF actions, targets, ofAction, ofResource
<1>8. /\ Reported(r, "CRITICAL") = 0 /\ Reported(r, "HIGH") = actions
      /\ Reported(r, "MEDIUM") = targets
  BY <1>2, <1>5, <1>6, <1>7
<1> QED
  BY <1>1, <1>8, Promised

\* Whatever the type.
LEMMA ResourceDocumented ==
    ASSUME NEW r \in Resources, ~Raised(r)
    PROVE  AsDocumented(r)
BY TrailDocumented, VolumeDocumented, InstanceDocumented, BucketDocumented, GroupDocumented,
   PolicyDocumented, OtherDocumented

\* rules/checks: each rule gives the findings that its docstring promises, for
\* every template, of any size, that the loader can make: as many of each
\* severity as there are open entries, granting statements or missing settings,
\* and none for what an intrinsic hides.  Only a resource on which a rule raises
\* is promised nothing.
THEOREM RulesKeepPromises == (Spec => []FindingsAsDocumented) /\ (DocumentSpec => []FindingsAsDocumented)
<1>1. LoopInv => FindingsAsDocumented
  <2>1. ASSUME LoopInv, NEW n \in DOMAIN template.resources
        PROVE  template.resources[n] \in Resources
    BY <2>1, ElementOfSeq DEF LoopInv, Typed, Parsed
  <2> QED
    BY <2>1, ResourceDocumented DEF FindingsAsDocumented, AsDocumented
<1> QED
  BY <1>1, Invariant, DocumentInvariant, PTL DEF DocumentInv

-----------------------------------------------------------------------------
(* Tags and the names they stand for *)

\* The equation of spelled.
Spelling(f, node) ==
    CASE node.tag = "GetAtt" /\ IsScalarNode(node) ->
            Mapping(<<Pair(Plain("Fn::GetAtt"), Attribute(node.text))>>)
      [] node.tag \in DOMAIN LongForm /\ ~(node.tag = "GetAtt" /\ IsScalarNode(node)) ->
            Mapping(<<Pair(Plain(LongForm[node.tag]), untagged(node, f))>>)
      [] OTHER -> [untagged(node, f) EXCEPT !.tag = node.tag]
Spells(f, d) == f = [n \in Within[d] |-> Spelling(f, n)]

LEMMA UntaggedAgrees ==
    ASSUME NEW d \in 0..Room, NEW n \in Within[d], NEW f, NEW g,
           \A c \in InsideOf(d) : f[c] = g[c]
    PROVE  untagged(n, f) = untagged(n, g)
<1>1. CASE IsScalarNode(n)
  BY <1>1, Insides DEF untagged
<1>2. CASE IsSequenceNode(n)
  <2>1. \A x \in DOMAIN n.seq : f[n.seq[x]] = g[n.seq[x]]
    BY <1>2, Insides
  <2>2. [x \in DOMAIN n.seq |-> f[n.seq[x]]] = [x \in DOMAIN n.seq |-> g[n.seq[x]]]
    BY <2>1
  <2>3. ~IsScalarNode(n)
    BY <1>2, Insides
  <2> QED
    BY <1>2, <2>2, <2>3 DEF untagged
<1>3. CASE ~IsScalarNode(n) /\ ~IsSequenceNode(n)
  <2>1. \A x \in DOMAIN n.map :
            f[n.map[x].key] = g[n.map[x].key] /\ f[n.map[x].value] = g[n.map[x].value]
    BY <1>3, Insides
  <2>2. [x \in DOMAIN n.map |-> Pair(f[n.map[x].key], f[n.map[x].value])] =
        [x \in DOMAIN n.map |-> Pair(g[n.map[x].key], g[n.map[x].value])]
    BY <2>1
  <2> QED
    BY <1>3, <2>2 DEF untagged
<1> QED
  BY <1>1, <1>2, <1>3

LEMMA SpellingAgrees ==
    ASSUME NEW d \in 0..Room, NEW n \in Within[d], NEW f, NEW g,
           \A c \in InsideOf(d) : f[c] = g[c]
    PROVE  Spelling(f, n) = Spelling(g, n)
<1>1. untagged(n, f) = untagged(n, g)
  BY UntaggedAgrees
<1> QED
  BY <1>1 DEF Spelling

LEMMA SpellsExist ==
    ASSUME NEW d \in 0..Room
    PROVE  \E f : Spells(f, d)
<1> DEFINE S == {k \in Nat : k <= Room => \E f : Spells(f, k)}
<1>1. 0 \in S
  <2> DEFINE f == [n \in Within[0] |-> Spelling(<< >>, n)]
  <2>1. 0 \in 0..Room
    BY RoomIsNumber
  <2>2. \A n \in Within[0] : Spelling(f, n) = Spelling(<< >>, n)
    <3> HIDE DEF f
    <3> QED
      BY <2>1, SpellingAgrees DEF InsideOf
  <2>3. f = [n \in Within[0] |-> f[n]]
    OBVIOUS
  <2>4. \A n \in Within[0] : f[n] = Spelling(f, n)
    BY <2>2
  <2> HIDE DEF f
  <2>5. Spells(f, 0)
    BY <2>3, <2>4 DEF Spells
  <2> QED
    BY <2>5
<1>2. ASSUME NEW k \in Nat, k \in S
      PROVE  k + 1 \in S
  <2>1. ASSUME k + 1 <= Room
        PROVE  \E g : Spells(g, k + 1)
    <3>1. PICK f : Spells(f, k)
      BY <1>2, <2>1, RoomIsNumber
    <3> DEFINE g == [n \in Within[k + 1] |-> Spelling(f, n)]
    <3>2. k + 1 \in 0..Room /\ InsideOf(k + 1) = Within[k]
      BY <2>1, RoomIsNumber DEF InsideOf
    <3>3. \A n \in Within[k] : n \in Within[k + 1] /\ f[n] = Spelling(f, n)
      <4>1. Within[k] \subseteq Within[k + 1]
        BY <2>1, WithinGrows, RoomIsNumber
      <4> QED
        BY <3>1, <4>1 DEF Spells
    <3>4. \A n \in Within[k + 1] : g[n] = Spelling(f, n)
      OBVIOUS
    <3>5. g = [n \in Within[k + 1] |-> g[n]]
      OBVIOUS
    <3> HIDE DEF g
    <3>6. \A c \in InsideOf(k + 1) : f[c] = g[c]
      BY <3>2, <3>3, <3>4
    <3>7. \A n \in Within[k + 1] : Spelling(f, n) = Spelling(g, n)
      BY <3>2, <3>6, SpellingAgrees
    <3>8. Spells(g, k + 1)
      BY <3>4, <3>5, <3>7 DEF Spells
    <3> QED
      BY <3>8
  <2> QED
    BY <2>1
<1> HIDE DEF S
<1>3. d \in S
  BY <1>1, <1>2, AllNumbers, RoomIsNumber
<1> QED
  BY <1>3, RoomIsNumber DEF S

LEMMA SpelledStep ==
    ASSUME NEW n \in Within[Depth]
    PROVE  spelled[n] = Spelling(spelled, n)
<1>1. spelled = CHOOSE f : Spells(f, Depth)
  BY DEF spelled, Spells, Spelling
<1>2. Spells(spelled, Depth)
  <2>1. Depth \in 0..Room
    BY RoomIsNumber
  <2> QED
    BY <1>1, <2>1, SpellsExist
<1> QED
  BY <1>2 DEF Spells

\* A mapping of one pair.
LEMMA OnePair ==
    ASSUME NEW d \in 0..Room, d # 0, NEW a \in Within[d - 1], NEW b \in Within[d - 1]
    PROVE  LET m == Mapping(<<Pair(a, b)>>)
           IN  /\ m \in Within[d]
               /\ construct[m] = Dict(<<Item(construct[a], construct[b])>>)
               /\ constructible[m] <=> /\ constructible[a] /\ constructible[b]
                                       /\ Hashable(construct[a])
<1> DEFINE p == <<Pair(a, b)>>
           m == Mapping(p)
<1>1. Pair(a, b) \in [key : Within[d - 1], value : Within[d - 1]]
  BY DEF Pair
<1>2. /\ p \in Seq([key : Within[d - 1], value : Within[d - 1]])
      /\ Len(p) = 1 /\ DOMAIN p = {1} /\ p[1].key = a /\ p[1].value = b
  BY <1>1 DEF Pair
<1> HIDE DEF p
<1>3. m \in MappingNodes(Within[d - 1]) /\ m.tag = "" /\ m.map = p
  BY <1>2 DEF MappingNodes, Mapping, NodeTags
<1> HIDE DEF m
<1>4. m \in Within[d] /\ ~IsScalarNode(m) /\ ~IsSequenceNode(m)
  BY <1>3, NodeAround
<1>5. m \in Nodes
  BY <1>4, WithinGrows, RoomIsNumber DEF Nodes
<1>6. construct[m] = construct_mapping(p, construct)
  BY <1>3, <1>4, <1>5, ConstructStep, MadeCases, NodeValueCases
<1>7. construct_mapping(p, construct) = Dict(<<Item(construct[a], construct[b])>>)
  <2>a. Len(p) \in Nat
    BY <1>2
  <2>b. PICK s : /\ Assigns(s, p, construct, Len(p))
                 /\ construct_mapping(p, construct) = Dict(s[Len(p)])
    BY <2>a, MappingValue
  <2>1. Assigns(s, p, construct, 1) /\ construct_mapping(p, construct) = Dict(s[1])
    BY <1>2, <2>b
  <2>2. s[0] = << >> /\ s[1] = assign(s[1 - 1], construct[p[1].key], construct[p[1].value])
    BY <2>1, AssignsStep
  <2>3. s[1] = assign(<< >>, construct[a], construct[b])
    BY <1>2, <2>2
  <2>4. assign(<< >>, construct[a], construct[b]) = <<Item(construct[a], construct[b])>>
    BY DEF assign
  <2> QED
    BY <2>1, <2>3, <2>4
<1>8. constructible[m] <=> /\ constructible[a] /\ constructible[b] /\ Hashable(construct[a])
  <2>1. constructible[m] = Makeable(constructible, m)
    BY <1>5, ConstructibleStep
  <2>2. Makeable(constructible, m) <=> /\ constructible[a] /\ constructible[b]
                                       /\ Hashable(construct[a])
    BY <1>2, <1>3, <1>4 DEF Makeable
  <2> QED
    BY <2>1, <2>2
<1> QED
  BY <1>4, <1>6, <1>7, <1>8 DEF m, p

\* A node means the same when it is spelled out.
SpeltOut(c, d) ==
    /\ spelled[c] \in Within[d]
    /\ construct[spelled[c]] = construct[c]
    /\ constructible[spelled[c]] <=> constructible[c]

\* A node without its tag, its inside spelled out.
Bare(u, n) ==
    /\ u.tag = ""
    /\ IsScalarNode(u) <=> IsScalarNode(n)
    /\ n.tag # "" => construct[u] = node_value(n, construct)
    /\ ~IsScalarNode(n) => node_value(u, construct) = node_value(n, construct)
    /\ IsScalarNode(n) /\ n.tag = "" => u = n
    /\ IsScalarNode(n) /\ n.tag # "" => u = Plain(n.text)
    /\ constructible[u] <=> constructible[n]

LEMMA UntaggedScalar ==
    ASSUME NEW n \in ScalarNodes
    PROVE  untagged(n, spelled) \in ScalarNodes /\ Bare(untagged(n, spelled), n)
<1> DEFINE u == untagged(n, spelled)
<1>1. n \in Nodes /\ IsScalarNode(n) /\ ~IsSequenceNode(n) /\ n.text \in STRING
  BY ScalarsAreNodes, NodeKinds DEF ScalarNodes
<1>2. u = IF n.tag = "" THEN n ELSE Plain(n.text)
  BY <1>1 DEF untagged
<1>3. node_value(n, construct) = Str(n.text)
  BY <1>1, NodeValueCases
<1>4. Plain(n.text) \in ScalarNodes /\ Plain(n.text).tag = "" /\ construct[Plain(n.text)] = Str(n.text)
  BY <1>1, ScalarsAreNodes, StrIsValue DEF Plain
<1> HIDE DEF u
<1>5. u \in ScalarNodes /\ u.tag = "" /\ u \in Nodes /\ IsScalarNode(u)
  BY <1>2, <1>4, ScalarsAreNodes, NodeKinds
<1>6. constructible[u] /\ constructible[n]
  BY <1>1, <1>5, ConstructibleCases
<1> QED
  BY <1>1, <1>2, <1>3, <1>4, <1>5, <1>6 DEF Bare, u

LEMMA UntaggedSequence ==
    ASSUME NEW d \in 0..Room, NEW n \in Within[d], IsSequenceNode(n),
           NEW e \in 0..Room, e # 0, \A c \in InsideOf(d) : SpeltOut(c, e - 1)
    PROVE  untagged(n, spelled) \in Within[e] /\ Bare(untagged(n, spelled), n)
<1> DEFINE s == [x \in DOMAIN n.seq |-> spelled[n.seq[x]]]
           u == [tag |-> "", seq |-> s]
           vn == [x \in DOMAIN n.seq |-> construct[n.seq[x]]]
           vu == [x \in DOMAIN s |-> construct[s[x]]]
<1>1. /\ ~IsScalarNode(n) /\ Len(n.seq) \in Nat /\ DOMAIN n.seq = 1..Len(n.seq)
      /\ \A x \in DOMAIN n.seq : SpeltOut(n.seq[x], e - 1)
  BY Insides
<1>2. n \in Nodes
  BY WithinGrows, RoomIsNumber DEF Nodes
<1>3. \A x \in DOMAIN n.seq : /\ s[x] \in Within[e - 1]
                              /\ construct[s[x]] = construct[n.seq[x]]
                              /\ constructible[s[x]] <=> constructible[n.seq[x]]
  BY <1>1 DEF SpeltOut
<1>4. s \in Seq(Within[e - 1]) /\ DOMAIN s = DOMAIN n.seq
  <2>1. s \in [1..Len(n.seq) -> Within[e - 1]]
    BY <1>1, <1>3
  <2> QED
    BY <1>1, <2>1, FunctionIsSeq
<1>5. untagged(n, spelled) = u
  BY <1>1 DEF untagged
<1> HIDE DEF s
<1>6. u \in SequenceNodes(Within[e - 1]) /\ u.tag = "" /\ u.seq = s
  BY <1>4 DEF SequenceNodes, NodeTags
<1> HIDE DEF u
<1>7. u \in Within[e] /\ IsSequenceNode(u) /\ ~IsScalarNode(u)
  BY <1>6, NodeAround
<1>8. u \in Nodes
  BY <1>7, WithinGrows, RoomIsNumber DEF Nodes
<1>9. vu = vn
  BY <1>3, <1>4
<1>10. node_value(u, construct) = List(vu) /\ node_value(n, construct) = List(vn)
  BY <1>1, <1>2, <1>6, <1>7, <1>8, SequenceValue
<1> HIDE DEF vu, vn
<1>11. construct[u] = node_value(u, construct)
  BY <1>6, <1>7, <1>8, ConstructStep, MadeCases
<1>12. constructible[u] <=> constructible[n]
  <2>1. constructible[u] <=> \A x \in DOMAIN s : constructible[s[x]]
    BY <1>6, <1>7, <1>8, ConstructibleCases
  <2>2. constructible[n] <=> \A x \in DOMAIN n.seq : constructible[n.seq[x]]
    BY <1>1, <1>2, ConstructibleCases
  <2> QED
    BY <1>3, <1>4, <2>1, <2>2
<1> QED
  BY <1>1, <1>5, <1>6, <1>7, <1>9, <1>10, <1>11, <1>12 DEF Bare

LEMMA UntaggedMapping ==
    ASSUME NEW d \in 0..Room, NEW n \in Within[d], ~IsScalarNode(n), ~IsSequenceNode(n),
           NEW e \in 0..Room, e # 0, \A c \in InsideOf(d) : SpeltOut(c, e - 1)
    PROVE  untagged(n, spelled) \in Within[e] /\ Bare(untagged(n, spelled), n)
<1> DEFINE ps == n.map
           P == [key : Within[e - 1], value : Within[e - 1]]
           s == [x \in DOMAIN ps |-> Pair(spelled[ps[x].key], spelled[ps[x].value])]
           u == Mapping(s)
<1>1. /\ Len(ps) \in Nat /\ DOMAIN ps = 1..Len(ps)
      /\ \A x \in DOMAIN ps : SpeltOut(ps[x].key, e - 1) /\ SpeltOut(ps[x].value, e - 1)
  BY Insides
<1>2. n \in Nodes
  BY WithinGrows, RoomIsNumber DEF Nodes
<1>3. \A x \in DOMAIN ps : /\ s[x].key = spelled[ps[x].key] /\ s[x].value = spelled[ps[x].value]
                           /\ s[x] \in P
  BY <1>1 DEF SpeltOut, Pair
<1>4. s \in Seq(P) /\ DOMAIN s = DOMAIN ps /\ Len(s) = Len(ps)
  <2> HIDE DEF P
  <2>1. s \in [1..Len(ps) -> P]
    BY <1>1, <1>3
  <2> QED
    BY <1>1, <2>1, FunctionIsSeq
<1>5. untagged(n, spelled) = u
  BY DEF untagged
<1> HIDE DEF s
<1>6. u \in MappingNodes(Within[e - 1]) /\ u.tag = "" /\ u.map = s
  BY <1>4 DEF MappingNodes, NodeTags, Mapping
<1> HIDE DEF u, P
<1>7. u \in Within[e] /\ ~IsSequenceNode(u) /\ ~IsScalarNode(u)
  BY <1>6, NodeAround
<1>8. u \in Nodes
  BY <1>7, WithinGrows, RoomIsNumber DEF Nodes
<1>9. SameItems(s, construct, ps, construct)
  <2> HIDE DEF ps
  <2> QED
    BY <1>1, <1>3, <1>4 DEF SameItems, SpeltOut
<1>10. node_value(u, construct) = node_value(n, construct)
  <2>1. construct_mapping(s, construct) = construct_mapping(ps, construct)
    BY <1>9, MappingAgrees
  <2>2. node_value(u, construct) = construct_mapping(s, construct)
    BY <1>6, <1>7, NodeValueCases
  <2>3. node_value(n, construct) = construct_mapping(ps, construct)
    BY NodeValueCases
  <2> QED
    BY <2>1, <2>2, <2>3
<1>11. construct[u] = node_value(u, construct)
  BY <1>6, <1>7, <1>8, ConstructStep, MadeCases
<1>12. constructible[u] <=> constructible[n]
  <2>1. constructible[u] <=> \A x \in DOMAIN s : /\ constructible[s[x].key]
                                                 /\ constructible[s[x].value]
                                                 /\ Hashable(construct[s[x].key])
    BY <1>6, <1>7, <1>8, ConstructibleCases
  <2>2. constructible[n] <=> \A x \in DOMAIN ps : /\ constructible[ps[x].key]
                                                  /\ constructible[ps[x].value]
                                                  /\ Hashable(construct[ps[x].key])
    BY <1>2, ConstructibleCases
  <2> HIDE DEF ps
  <2>3. \A x \in DOMAIN ps : /\ constructible[s[x].key] <=> constructible[ps[x].key]
                             /\ constructible[s[x].value] <=> constructible[ps[x].value]
                             /\ construct[s[x].key] = construct[ps[x].key]
    BY <1>1, <1>3 DEF SpeltOut
  <2> QED
    BY <1>4, <2>1, <2>2, <2>3
<1> QED
  BY <1>5, <1>6, <1>7, <1>10, <1>11, <1>12 DEF Bare

LEMMA UntaggedNode ==
    ASSUME NEW d \in 0..Room, NEW n \in Within[d], NEW e \in 0..Room, e # 0,
           \A c \in InsideOf(d) : SpeltOut(c, e - 1)
    PROVE  untagged(n, spelled) \in Within[e] /\ Bare(untagged(n, spelled), n)
<1>1. CASE n \in ScalarNodes
  BY <1>1, UntaggedScalar, WithinScalars
<1>2. CASE IsSequenceNode(n)
  BY <1>2, UntaggedSequence
<1>3. CASE ~IsScalarNode(n) /\ ~IsSequenceNode(n)
  BY <1>3, UntaggedMapping
<1> QED
  BY <1>1, <1>2, <1>3, Insides

\* The names of the two tables.
LEMMA LongNames ==
    /\ DOMAIN LongForm = DOMAIN SHORT_TO_FULL /\ "GetAtt" \in DOMAIN LongForm
    /\ \A tag \in DOMAIN LongForm : /\ LongForm[tag] = SHORT_TO_FULL[tag] /\ LongForm[tag] \in STRING
                                    /\ LongForm[tag] = "Fn::GetAtt" <=> tag = "GetAtt"
    /\ "" \notin DOMAIN LongForm
<1>1. DOMAIN LongForm = DOMAIN SHORT_TO_FULL /\ "GetAtt" \in DOMAIN LongForm
  BY DEF LongForm, SHORT_TO_FULL
<1>2. LongForm = SHORT_TO_FULL
  BY DEF LongForm, SHORT_TO_FULL
<1>3. \A tag \in DOMAIN LongForm : LongForm[tag] = "Fn::GetAtt" <=> tag = "GetAtt"
  BY DEF LongForm
<1>4. "" \notin DOMAIN LongForm
  BY DEF LongForm
<1> QED
  BY <1>1, <1>2, <1>3, <1>4, LoaderAssumption

LEMMA SpelledAttribute ==
    ASSUME NEW n \in ScalarNodes, n \in Within[Depth], n.tag = "GetAtt"
    PROVE  SpeltOut(n, 2)
<1> DEFINE a == Plain("Fn::GetAtt")
           b == Attribute(n.text)
           m == Mapping(<<Pair(a, b)>>)
<1>1. IsScalarNode(n) /\ n.text \in STRING /\ n \in Nodes
  BY NodeKinds, ScalarsAreNodes DEF ScalarNodes
<1>2. spelled[n] = m
  BY <1>1, SpelledStep DEF Spelling
<1>3. "Fn::GetAtt" \in STRING /\ SHORT_TO_FULL["GetAtt"] = "Fn::GetAtt"
  BY LongNames
<1>4. /\ a \in ScalarNodes /\ a \in Within[1] /\ a \in Nodes /\ IsScalarNode(a)
      /\ construct[a] = Str("Fn::GetAtt")
  BY <1>3, ScalarsAreNodes, StrIsValue, NodeKinds, RoomIsNumber
<1>5. b \in Within[1] /\ constructible[b] /\ construct[b] = List([x \in 1..2 |-> Str(partition(n.text)[x])])
  BY <1>1, AttributeNode
<1> HIDE DEF a, b
<1>6. /\ m \in Within[2]
      /\ construct[m] = Dict(<<Item(construct[a], construct[b])>>)
      /\ constructible[m] <=> /\ constructible[a] /\ constructible[b] /\ Hashable(construct[a])
  <2>1. 2 \in 0..Room /\ 2 # 0 /\ 2 - 1 = 1
    BY RoomIsNumber
  <2> QED
    BY <1>4, <1>5, <2>1, OnePair
<1> HIDE DEF m
<1>7. construct[n] = intrinsic("Fn::GetAtt", Str(n.text))
  <2>1. n.tag # "" /\ n.tag \in DOMAIN SHORT_TO_FULL
    BY LongNames
  <2> QED
    BY <1>3, <2>1, ScalarValue
<1>8. intrinsic("Fn::GetAtt", Str(n.text)) = Dict(<<Item(construct[a], construct[b])>>)
  <2>1. IsStr(Str(n.text)) /\ Str(n.text).str = n.text
    BY DEF IsStr, Str
  <2> QED
    BY <1>4, <1>5, <2>1 DEF intrinsic
<1>9. constructible[a] /\ constructible[n] /\ Hashable(construct[a])
  <2>1. Hashable(Str("Fn::GetAtt"))
    BY DEF Hashable, Str, IsList, IsDict
  <2> QED
    BY <1>1, <1>4, <2>1, ConstructibleCases
<1> QED
  BY <1>2, <1>5, <1>6, <1>7, <1>8, <1>9 DEF SpeltOut

LEMMA SpelledTag ==
    ASSUME NEW n \in Within[Depth], n.tag \in DOMAIN LongForm, ~(n.tag = "GetAtt" /\ IsScalarNode(n)),
           NEW e \in 0..Room, e + 1 \in 0..Room, e # 0,
           untagged(n, spelled) \in Within[e], Bare(untagged(n, spelled), n)
    PROVE  SpeltOut(n, e + 1)
<1> DEFINE full == LongForm[n.tag]
           a == Plain(full)
           b == untagged(n, spelled)
           m == Mapping(<<Pair(a, b)>>)
           v == node_value(n, construct)
<1>1. n \in Nodes /\ n.tag # ""
  <2>1. Within[Depth] \subseteq Nodes
    BY WithinGrows, RoomIsNumber DEF Nodes
  <2>2. "" \notin DOMAIN LongForm
    BY LongNames
  <2> QED
    BY <2>1, <2>2
<1>2. spelled[n] = m
  BY SpelledStep DEF Spelling
<1>3. full \in STRING /\ SHORT_TO_FULL[n.tag] = full /\ n.tag \in DOMAIN SHORT_TO_FULL
  BY LongNames
<1>4. a \in ScalarNodes /\ a \in Within[e] /\ a \in Nodes /\ IsScalarNode(a) /\ construct[a] = Str(full)
  BY <1>3, ScalarsAreNodes, StrIsValue, NodeKinds
<1>5. construct[b] = v /\ (constructible[b] <=> constructible[n])
  BY <1>1 DEF Bare
<1>6. construct[n] = intrinsic(full, v)
  BY <1>1, <1>3, ConstructStep, MadeCases
<1>7. ~(full = "Fn::GetAtt" /\ IsStr(v))
  BY <1>1, LongNames, TextIsScalar
<1> HIDE DEF a, b, v, full
<1>8. /\ m \in Within[e + 1]
      /\ construct[m] = Dict(<<Item(construct[a], construct[b])>>)
      /\ constructible[m] <=> /\ constructible[a] /\ constructible[b] /\ Hashable(construct[a])
  <2>1. e + 1 # 0 /\ e + 1 - 1 = e /\ b \in Within[e]
    BY DEF b
  <2> QED
    BY <1>4, <2>1, OnePair
<1> HIDE DEF m
<1>9. intrinsic(full, v) = Dict(<<Item(construct[a], construct[b])>>)
  BY <1>4, <1>5, <1>7 DEF intrinsic
<1>10. constructible[a] /\ Hashable(construct[a])
  <2>1. Hashable(Str(full))
    BY DEF Hashable, Str, IsList, IsDict
  <2> QED
    BY <1>4, <2>1, ConstructibleCases
<1> QED
  BY <1>2, <1>5, <1>6, <1>8, <1>9, <1>10 DEF SpeltOut

LEMMA SpelledPlain ==
    ASSUME NEW n \in Within[Depth], n.tag \notin DOMAIN LongForm,
           NEW e \in 0..Room,
           untagged(n, spelled) \in Within[e], Bare(untagged(n, spelled), n)
    PROVE  SpeltOut(n, e)
<1> DEFINE u == untagged(n, spelled)
           m == [u EXCEPT !.tag = n.tag]
<1>1. n \in Nodes /\ u \in Nodes /\ n.tag \in NodeTags
  <2>1. Within[Depth] \subseteq Nodes /\ Within[e] \subseteq Nodes
    BY WithinGrows, RoomIsNumber DEF Nodes
  <2> QED
    BY <2>1, NodeTag
<1>2. spelled[n] = m
  <2>1. spelled[n] = Spelling(spelled, n) /\ n.tag # "GetAtt"
    BY SpelledStep, LongNames
  <2> QED
    BY <2>1 DEF Spelling
<1>3. n.tag \notin DOMAIN SHORT_TO_FULL
  BY LongNames
<1> HIDE DEF u
<1>4. CASE IsScalarNode(n)
  <2>1. n \in ScalarNodes
    BY <1>4, Insides, RoomIsNumber
  <2>2. CASE n.tag = ""
    <3>1. m = n
      BY <1>4, <2>1, <2>2 DEF Bare, u, ScalarNodes
    <3> QED
      BY <1>2, <1>4, <2>1, <3>1, WithinScalars DEF SpeltOut
  <2>3. CASE n.tag # ""
    <3>1. u = Plain(n.text) /\ n.text \in STRING
      BY <1>4, <2>1, <2>3 DEF Bare, u, ScalarNodes
    <3>2. u \in ScalarNodes /\ u.text = n.text
      BY <3>1, ScalarsAreNodes DEF Plain
    <3>4. m \in ScalarNodes /\ m.tag = n.tag /\ m.text = n.text
      BY <1>1, <3>2 DEF ScalarNodes
    <3> HIDE DEF m
    <3>5. construct[m] = construct[n]
      BY <1>3, <2>1, <2>3, <3>4, ScalarValue
    <3>6. constructible[m] /\ constructible[n]
      <4>1. m \in Nodes /\ IsScalarNode(m)
        BY <3>4, ScalarsAreNodes, NodeKinds
      <4> QED
        BY <1>1, <1>4, <4>1, ConstructibleCases
    <3> QED
      BY <1>2, <3>4, <3>5, <3>6, WithinScalars DEF SpeltOut
  <2> QED
    BY <2>2, <2>3
<1>5. CASE ~IsScalarNode(n)
  <2>1. ~IsScalarNode(u)
    BY <1>5 DEF Bare, u
  <2>a. Retagged(m, u, e, n.tag)
    BY <1>1, <2>1, Untagging DEF u
  <2> HIDE DEF m
  <2>2. /\ m \in Within[e] /\ m.tag = n.tag /\ ~IsScalarNode(m)
        /\ IsSequenceNode(m) <=> IsSequenceNode(u)
        /\ IsSequenceNode(u) => m.seq = u.seq
        /\ ~IsSequenceNode(u) => m.map = u.map
        /\ node_value(m, construct) = node_value(u, construct)
    BY <2>a DEF Retagged
  <2>3. m \in Nodes
    BY <2>2, WithinGrows, RoomIsNumber DEF Nodes
  <2>4. node_value(m, construct) = node_value(n, construct)
    BY <1>5, <2>2 DEF Bare, u
  <2>5. construct[m] = construct[n]
    <3>1. construct[m] = Made(construct, m) /\ construct[n] = Made(construct, n)
      BY <1>1, <2>3, ConstructStep
    <3>2. CASE n.tag = ""
      BY <1>5, <2>2, <2>4, <3>1, <3>2, MadeCases
    <3>3. CASE n.tag # ""
      BY <1>3, <1>5, <2>2, <2>4, <3>1, <3>3, MadeCases
    <3> QED
      BY <3>2, <3>3
  <2>6. constructible[m] <=> constructible[u]
    <3>1. CASE IsSequenceNode(u)
      <4>1. constructible[u] <=> \A x \in DOMAIN u.seq : constructible[u.seq[x]]
        BY <1>1, <2>1, <3>1, ConstructibleCases
      <4>2. constructible[m] <=> \A x \in DOMAIN m.seq : constructible[m.seq[x]]
        BY <2>2, <2>3, <3>1, ConstructibleCases
      <4> QED
        BY <2>2, <3>1, <4>1, <4>2
    <3>2. CASE ~IsSequenceNode(u)
      <4>1. constructible[u] <=> \A x \in DOMAIN u.map : /\ constructible[u.map[x].key]
                                                          /\ constructible[u.map[x].value]
                                                          /\ Hashable(construct[u.map[x].key])
        BY <1>1, <2>1, <3>2, ConstructibleCases
      <4>2. constructible[m] <=> \A x \in DOMAIN m.map : /\ constructible[m.map[x].key]
                                                          /\ constructible[m.map[x].value]
                                                          /\ Hashable(construct[m.map[x].key])
        BY <2>2, <2>3, <3>2, ConstructibleCases
      <4> QED
        BY <2>2, <3>2, <4>1, <4>2
    <3> QED
      BY <3>1, <3>2
  <2>7. constructible[u] <=> constructible[n]
    BY DEF Bare, u
  <2> QED
    BY <1>2, <2>2, <2>5, <2>6, <2>7 DEF SpeltOut
<1> QED
  BY <1>4, <1>5

LEMMA SpeltHigher ==
    ASSUME NEW n, NEW d \in 0..Room, NEW e \in 0..Room, d <= e, SpeltOut(n, d)
    PROVE  SpeltOut(n, e)
BY WithinGrows DEF SpeltOut

LEMMA SpeltStep ==
    ASSUME NEW k \in Nat, k <= Depth, NEW n \in Within[k],
           \A c \in InsideOf(k) : SpeltOut(c, 2 * k)
    PROVE  SpeltOut(n, 2 * k + 2)
<1> DEFINE e == 2 * k + 1
<1>1. /\ k \in 0..Room /\ Depth \in 0..Room /\ e \in 0..Room /\ e + 1 \in 0..Room /\ 2 \in 0..Room
      /\ e # 0 /\ e - 1 = 2 * k /\ e + 1 = 2 * k + 2 /\ e <= e + 1 /\ 2 <= e + 1
  BY RoomIsNumber DEF Room
<1> HIDE DEF e
<1>2. n \in Within[Depth]
  BY <1>1, WithinGrows
<1>3. untagged(n, spelled) \in Within[e] /\ Bare(untagged(n, spelled), n)
  BY <1>1, UntaggedNode
<1>4. CASE n.tag = "GetAtt" /\ IsScalarNode(n)
  <2>1. n \in ScalarNodes
    BY <1>1, <1>4, Insides
  <2>2. SpeltOut(n, 2)
    BY <1>2, <1>4, <2>1, SpelledAttribute
  <2> QED
    BY <1>1, <2>2, SpeltHigher
<1>5. CASE n.tag \in DOMAIN LongForm /\ ~(n.tag = "GetAtt" /\ IsScalarNode(n))
  BY <1>1, <1>2, <1>3, <1>5, SpelledTag
<1>6. CASE n.tag \notin DOMAIN LongForm
  <2>1. SpeltOut(n, e)
    BY <1>1, <1>2, <1>3, <1>6, SpelledPlain
  <2> QED
    BY <1>1, <2>1, SpeltHigher
<1> QED
  BY <1>4, <1>5, <1>6

LEMMA SpellingKeepsMeaning ==
    ASSUME NEW n \in Within[Depth]
    PROVE  SpeltOut(n, Room)
<1> DEFINE S == {k \in Nat : k <= Depth => \A c \in Within[k] : SpeltOut(c, 2 * k + 2)}
<1>1. 0 \in S
  <2>1. \A c \in Within[0] : SpeltOut(c, 2 * 0 + 2)
    BY SpeltStep, RoomIsNumber DEF InsideOf
  <2> QED
    BY <2>1
<1>2. ASSUME NEW k \in Nat, k \in S
      PROVE  k + 1 \in S
  <2>1. ASSUME k + 1 <= Depth
        PROVE  \A c \in Within[k + 1] : SpeltOut(c, 2 * (k + 1) + 2)
    <3>1. InsideOf(k + 1) = Within[k] /\ 2 * (k + 1) = 2 * k + 2
      BY DEF InsideOf
    <3>2. \A c \in InsideOf(k + 1) : SpeltOut(c, 2 * (k + 1))
      BY <1>2, <2>1, <3>1, RoomIsNumber
    <3>3. k + 1 \in Nat
      OBVIOUS
    <3> QED
      BY <2>1, <3>2, <3>3, SpeltStep
  <2> QED
    BY <2>1
<1> HIDE DEF S
<1>3. Depth \in S
  BY <1>1, <1>2, AllNumbers, RoomIsNumber
<1>4. SpeltOut(n, 2 * Depth + 2)
  BY <1>3, RoomIsNumber DEF S
<1> QED
  BY <1>4 DEF Room

\* parse_template looks at the root through its value only.
LEMMA SameReading ==
    ASSUME NEW c, NEW d, d.faults = c.faults, construct[d.root] = construct[c.root],
           constructible[d.root] <=> constructible[c.root]
    PROVE  parse_template(d) = parse_template(c)
BY DEF parse_template

LEMMA DocumentsReadAlike ==
    ASSUME content \in Documents
    PROVE  ShortFormIsLongForm
<1> DEFINE d == [content EXCEPT !.root = spelled[content.root]]
<1>1. d.faults = content.faults /\ d.root = spelled[content.root] /\ content.root \in Within[Depth]
  BY DEF Documents
<1>2. SpeltOut(content.root, Room)
  BY <1>1, SpellingKeepsMeaning
<1> HIDE DEF d
<1>3. parse_template(d) = parse_template(content)
  BY <1>1, <1>2, SameReading DEF SpeltOut
<1> QED
  BY <1>3 DEF ShortFormIsLongForm, result, d

\* parser/loader.py, _SHORT_TO_FULL and _construct_intrinsic: a document with short
\* tags, at any depth and any number of them, is read exactly as the document that
\* spells each of them out, dotted !GetAtt included; what is refused in the one is
\* refused in the other, with the same error.
THEOREM ShortIsLong ==
    (Spec => []ShortFormIsLongForm) /\ (DocumentSpec => []ShortFormIsLongForm)
<1>1. LoopInv => ShortFormIsLongForm
  BY DocumentsReadAlike DEF LoopInv, Typed
<1> QED
  BY <1>1, Invariant, DocumentInvariant, PTL DEF DocumentInv

-----------------------------------------------------------------------------
(* What is read of the entries of an author *)

\* A template is found exactly when each key can be hashed and each entry, of
\* those that are last under their key, is well formed.
LEMMA AuthoredReading ==
    ASSUME NEW es \in Seq(Entries)
    PROVE  \E items \in Seq([key : PyValues, value : PyValues]) :
              /\ Collected(items, es, construct, Len(es))
              /\ parse_template(Authored(es)).error = "none" <=>
                    /\ constructible[Mapping(es)] /\ items # << >>
                    /\ \A x \in DOMAIN items : well_formed(items[x])
              /\ parse_template(Authored(es)).error = "none" =>
                    parse_template(Authored(es)).resources = [x \in DOMAIN items |-> Resource(items[x])]
<1> DEFINE top == <<Pair(Plain("Description"), Plain("x")), Pair(Plain("Resources"), Mapping(es))>>
           root == Document(es)
           parsed == construct[root]
<1>1. /\ Mapping(es) \in Nodes /\ root \in Nodes /\ root = Mapping(top)
      /\ Len(top) = 2 /\ DOMAIN top = {1, 2}
      /\ top[1].key = Plain("Description") /\ top[1].value = Plain("x")
      /\ top[2].key = Plain("Resources") /\ top[2].value = Mapping(es)
  BY DocumentNodes
<1>2. /\ ~IsScalarNode(root) /\ ~IsSequenceNode(root) /\ root.tag = "" /\ root.map = top
      /\ ~IsScalarNode(Mapping(es)) /\ ~IsSequenceNode(Mapping(es))
      /\ Mapping(es).tag = "" /\ Mapping(es).map = es
  <2>1. root \in MappingNodes(Within[Depth - 1]) /\ Mapping(es) \in MappingNodes(Within[Depth - 2])
    BY DocumentNodes
  <2>2. \A ps : Mapping(ps).tag = "" /\ Mapping(ps).map = ps
    BY DEF Mapping
  <2> HIDE DEF root, top
  <2> QED
    BY <1>1, <2>1, <2>2, NodeKinds
<1> HIDE DEF root, top
<1>3. \A s \in STRING : construct[Plain(s)] = Str(s) /\ constructible[Plain(s)] /\ Hashable(Str(s))
  <2>1. \A s \in STRING : Plain(s) \in Nodes /\ IsScalarNode(Plain(s)) /\ construct[Plain(s)] = Str(s)
    BY ScalarsAreNodes, NodeKinds, StrIsValue
  <2>2. \A s : Hashable(Str(s))
    BY DEF Hashable, Str, IsList, IsDict
  <2> QED
    BY <2>1, <2>2, ConstructibleCases
<1>4. PICK items \in Seq([key : PyValues, value : PyValues]) :
         /\ construct[Mapping(es)] = Dict(items)
         /\ Collected(items, es, construct, Len(es))
  <2>1. construct[Mapping(es)] = node_value(Mapping(es), construct)
    BY <1>1, <1>2, ConstructStep, MadeCases
  <2> QED
    BY <1>1, <1>2, <2>1, MapValue
<1>5. PICK tops \in Seq([key : PyValues, value : PyValues]) :
         parsed = Dict(tops) /\ Collected(tops, top, construct, 2)
  <2>1. parsed = node_value(root, construct)
    BY <1>1, <1>2, ConstructStep, MadeCases
  <2> QED
    BY <1>1, <1>2, <2>1, MapValue
<1>6. Get(parsed, Str("Resources")) = Dict(items)
  <2>1. KeyAt(top, construct, 2) = Str("Resources") /\ ValueAt(top, construct, 2) = Dict(items)
    BY <1>1, <1>3, <1>4, AuthorAssumption DEF KeyAt, ValueAt
  <2>2. LastOf(top, construct, 2, 2) /\ 2 \in Nat /\ 2 \in 1..2
    BY DEF LastOf
  <2> QED
    BY <1>5, <2>1, <2>2, GetLast
<1>7. constructible[root] <=> constructible[Mapping(es)]
  <2>1. constructible[root] <=> \A x \in DOMAIN top : /\ constructible[top[x].key]
                                                      /\ constructible[top[x].value]
                                                      /\ Hashable(construct[top[x].key])
    BY <1>1, <1>2, ConstructibleCases
  <2>2. /\ constructible[top[1].key] /\ constructible[top[1].value] /\ Hashable(construct[top[1].key])
        /\ constructible[top[2].key] /\ Hashable(construct[top[2].key])
    BY <1>1, <1>3, AuthorAssumption
  <2> QED
    BY <1>1, <2>1, <2>2
<1>8. /\ IsDict(parsed) /\ IsDict(Dict(items)) /\ Dict(items).dict = items
  BY <1>5 DEF Dict, IsDict
<1> DEFINE good == items # << >> /\ \A x \in DOMAIN items : well_formed(items[x])
           t == build_template(parsed)
<1> HIDE DEF parsed
<1>9. CASE good
  <2>1. t.error = "none" /\ t.resources = [x \in DOMAIN items |-> Resource(items[x])]
    BY <1>6, <1>8, <1>9 DEF build_template
  <2>2. CASE constructible[root]
    <3>1. parse_template(Authored(es)) = t
      BY <2>2 DEF parse_template, Authored, root, parsed
    <3> QED
      BY <1>4, <1>7, <1>9, <2>1, <2>2, <3>1
  <2>3. CASE ~constructible[root]
    <3>1. parse_template(Authored(es)) = Refused("MalformedTemplate")
      BY <2>3 DEF parse_template, Authored, root
    <3>2. parse_template(Authored(es)).error # "none"
      BY <3>1 DEF Refused
    <3> QED
      BY <1>4, <1>7, <2>3, <3>2
  <2> QED
    BY <2>2, <2>3
<1>10. CASE ~good
  <2>1. t.error # "none"
    BY <1>6, <1>8, <1>10 DEF build_template, Refused
  <2>2. parse_template(Authored(es)).error # "none"
    <3>1. CASE constructible[root]
      <4>1. parse_template(Authored(es)) = t
        BY <3>1 DEF parse_template, Authored, root, parsed
      <4> QED
        BY <2>1, <4>1
    <3>2. CASE ~constructible[root]
      <4>1. parse_template(Authored(es)) = Refused("MalformedTemplate")
        BY <3>2 DEF parse_template, Authored, root
      <4> QED
        BY <4>1 DEF Refused
    <3> QED
      BY <3>1, <3>2
  <2> QED
    BY <1>4, <1>10, <2>2
<1> QED
  BY <1>9, <1>10

\* The entry CHOOSE gives is the last one under its key.
LEMMA LastEntryIsLast ==
    ASSUME entries \in Seq(Entries), NEW n \in DOMAIN entries
    PROVE  /\ LastEntry(LogicalId(n)) \in DOMAIN entries
           /\ LogicalId(LastEntry(LogicalId(n))) = LogicalId(n)
           /\ LastOf(entries, construct, Len(entries), LastEntry(LogicalId(n)))
<1> DEFINE m == Len(entries)
           last == LastEntry(LogicalId(n))
<1>1. m \in Nat /\ DOMAIN entries = 1..m
  BY LenProperties
<1>2. PICK k \in 1..m : /\ LastOf(entries, construct, m, k)
                        /\ KeyAt(entries, construct, k) = KeyAt(entries, construct, n)
  BY <1>1, LastExists
<1>3. /\ k \in DOMAIN entries /\ LogicalId(k) = LogicalId(n)
      /\ \A x \in DOMAIN entries : x > k => LogicalId(x) # LogicalId(n)
  BY <1>1, <1>2 DEF LastOf, LogicalId, KeyAt
<1>4. /\ last \in DOMAIN entries /\ LogicalId(last) = LogicalId(n)
      /\ \A x \in DOMAIN entries : x > last => LogicalId(x) # LogicalId(n)
  BY <1>3 DEF LastEntry
<1> HIDE DEF last
<1>5. LastOf(entries, construct, m, last)
  BY <1>1, <1>4 DEF LastOf, LogicalId, KeyAt
<1> QED
  BY <1>4, <1>5 DEF last

\* And it is the only one that is last.
LEMMA LastIsLastEntry ==
    ASSUME entries \in Seq(Entries), NEW k \in DOMAIN entries,
           LastOf(entries, construct, Len(entries), k)
    PROVE  k = LastEntry(LogicalId(k))
<1> DEFINE m == Len(entries)
           last == LastEntry(LogicalId(k))
<1>1. m \in Nat /\ DOMAIN entries = 1..m
  BY LenProperties
<1>2. /\ last \in 1..m /\ LogicalId(last) = LogicalId(k)
      /\ LastOf(entries, construct, m, last)
  BY <1>1, LastEntryIsLast
<1> HIDE DEF last
<1>3. ~(last > k) /\ ~(k > last)
  BY <1>1, <1>2 DEF LastOf, LogicalId, KeyAt
<1> QED
  BY <1>1, <1>2, <1>3 DEF last

LEMMA EachIdOnce ==
    ASSUME entries \in Seq(Entries), content = Authored(entries)
    PROVE  LastVersionAudited
<1> SUFFICES ASSUME entries # << >>, Accepted
             PROVE  /\ Len(result.resources) = Cardinality({LogicalId(n) : n \in DOMAIN entries})
                    /\ \A n \in DOMAIN entries :
                          LET last == Item(LogicalId(n), construct[entries[LastEntry(LogicalId(n))].value])
                          IN  well_formed(last)
                              /\ \E m \in DOMAIN result.resources : result.resources[m] = Resource(last)
  BY DEF LastVersionAudited
<1> DEFINE m == Len(entries)
           K(n) == KeyAt(entries, construct, n)
<1>1. m \in Nat /\ DOMAIN entries = 1..m
  BY LenProperties
<1>2. PICK items \in Seq([key : PyValues, value : PyValues]) :
         /\ Collected(items, entries, construct, m)
         /\ \A x \in DOMAIN items : well_formed(items[x])
         /\ result.resources = [x \in DOMAIN items |-> Resource(items[x])]
  BY AuthoredReading DEF Accepted, result
<1>3. Len(items) \in Nat /\ DOMAIN items = 1..Len(items) /\ Distinct(items)
  BY <1>2 DEF Collected
<1>4. Len(result.resources) = Len(items) /\ DOMAIN result.resources = DOMAIN items
  <2> DEFINE rs == [x \in DOMAIN items |-> Resource(items[x])]
  <2>1. rs \in [1..Len(items) -> {Resource(items[x]) : x \in 1..Len(items)}]
    BY <1>3
  <2>2. Len(rs) = Len(items) /\ DOMAIN rs = 1..Len(items)
    BY <1>3, <2>1, FunctionIsSeq
  <2> QED
    BY <1>2, <1>3, <2>2
<1>5. Cardinality({LogicalId(n) : n \in DOMAIN entries}) = Len(items)
  <2> DEFINE T == {LogicalId(n) : n \in DOMAIN entries}
             f == [x \in 1..Len(items) |-> items[x].key]
  <2>1. ASSUME NEW x \in 1..Len(items)
        PROVE  items[x].key \in T
    <3>1. PICK k \in 1..m : items[x] = Item(K(k), ValueAt(entries, construct, k))
      BY <1>2, <1>3 DEF Collected
    <3>2. items[x].key = LogicalId(k)
      BY <3>1 DEF Item, KeyAt, LogicalId
    <3> QED
      BY <1>1, <3>2
  <2>2. f \in [1..Len(items) -> T]
    BY <2>1
  <2>3. ASSUME NEW t \in T
        PROVE  \E x \in 1..Len(items) : f[x] = t
    <3>1. PICK k \in 1..m : t = K(k)
      BY <1>1 DEF LogicalId, KeyAt
    <3>2. PICK x \in DOMAIN items : items[x].key = K(k)
      BY <1>2 DEF Collected
    <3> QED
      BY <1>3, <3>1, <3>2
  <2>4. \A x, y \in 1..Len(items) : f[x] = f[y] => x = y
    BY <1>3 DEF Distinct
  <2>5. IsFiniteSet(1..Len(items)) /\ Cardinality(1..Len(items)) = Len(items)
    <3>1. \A n \in Nat : IsFiniteSet(1..n) /\ Cardinality(1..n) = n
      <4> TAKE n \in Nat
      <4>1. 1 \in Int /\ n \in Int /\ (IF 1 > n THEN 0 ELSE n - 1 + 1) = n
        OBVIOUS
      <4>2. IsFiniteSet(1..n) /\ Cardinality(1..n) = IF 1 > n THEN 0 ELSE n - 1 + 1
        BY <4>1, FS_Interval
      <4> QED
        BY <4>1, <4>2
    <3> QED
      BY <1>3, <3>1
  <2> HIDE DEF f, T
  <2>6. Cardinality(T) = Len(items)
    BY <2>2, <2>3, <2>4, <2>5, SameNumber
  <2> QED
    BY <2>6 DEF T
<1>6. ASSUME NEW n \in DOMAIN entries
      PROVE  LET last == Item(LogicalId(n), construct[entries[LastEntry(LogicalId(n))].value])
             IN  well_formed(last)
                 /\ \E x \in DOMAIN result.resources : result.resources[x] = Resource(last)
  <2> DEFINE k == LastEntry(LogicalId(n))
             last == Item(LogicalId(n), construct[entries[k].value])
  <2>1. k \in 1..m /\ LogicalId(k) = LogicalId(n) /\ LastOf(entries, construct, m, k)
    BY <1>1, LastEntryIsLast
  <2> HIDE DEF k
  <2>2. PICK x \in DOMAIN items : items[x] = Item(K(k), ValueAt(entries, construct, k))
    BY <1>1, <1>2, <2>1, GetLast
  <2>3. Item(K(k), ValueAt(entries, construct, k)) = last
    BY <2>1 DEF LogicalId, KeyAt, ValueAt
  <2> HIDE DEF last
  <2>4. result.resources[x] = Resource(items[x]) /\ well_formed(items[x])
    BY <1>2, <2>2
  <2> QED
    BY <1>4, <2>2, <2>3, <2>4 DEF last, k
<1> QED
  BY <1>4, <1>5, <1>6

\* A document that could be constructed with one more entry can be without it.
LEMMA ShorterConstructible ==
    ASSUME NEW es \in Seq(Entries), NEW pair \in Entries, constructible[Mapping(Append(es, pair))]
    PROVE  constructible[Mapping(es)]
<1> DEFINE new == Append(es, pair)
           m == Len(es)
<1>1. m \in Nat /\ DOMAIN es = 1..m
  BY LenProperties
<1>2. /\ new \in Seq(Entries) /\ Len(new) = m + 1
      /\ \A n \in 1..m : new[n] = es[n]
  BY <1>1, AppendProperties
<1> HIDE DEF new
<1>3. \A ps \in Seq(Entries) :
         /\ DOMAIN ps = 1..Len(ps)
         /\ constructible[Mapping(ps)] <=> \A x \in DOMAIN ps : /\ constructible[ps[x].key]
                                                                /\ constructible[ps[x].value]
                                                                /\ Hashable(construct[ps[x].key])
  <2> TAKE ps \in Seq(Entries)
  <2>1. Mapping(ps) \in Nodes /\ Mapping(ps) \in MappingNodes(Within[Depth - 2])
        /\ DOMAIN ps = 1..Len(ps)
    BY DocumentNodes
  <2>2. ~IsScalarNode(Mapping(ps)) /\ ~IsSequenceNode(Mapping(ps)) /\ Mapping(ps).map = ps
    BY <2>1, NodeKinds DEF Mapping
  <2> HIDE DEF Mapping
  <2> QED
    BY <2>1, <2>2, ConstructibleCases
<1>4. \A x \in 1..(m + 1) : /\ constructible[new[x].key] /\ constructible[new[x].value]
                            /\ Hashable(construct[new[x].key])
  <2>1. constructible[Mapping(new)]
    BY DEF new
  <2> QED
    BY <1>2, <1>3, <2>1
<1>5. \A x \in 1..m : x \in 1..(m + 1) /\ new[x] = es[x]
  BY <1>1, <1>2
<1>6. \A x \in DOMAIN es : /\ constructible[es[x].key] /\ constructible[es[x].value]
                           /\ Hashable(construct[es[x].key])
  BY <1>1, <1>4, <1>5
<1> QED
  BY <1>3, <1>6

\* What is accepted with one more entry, and was not without it, was refused for an
\* entry; and each entry it was refused for is under the key of the new one.
LEMMA OnlyThatKeyRepairs ==
    ASSUME entries \in Seq(Entries), entries # << >>, NEW id \in Ids, NEW body \in Bodies,
           parse_template(Authored(entries)).error # "none",
           parse_template(Authored(Append(entries, Pair(id, body)))).error = "none"
    PROVE  /\ Offending # {}
           /\ \A n \in Offending : LogicalId(n) = construct[id]
<1> DEFINE new == Append(entries, Pair(id, body))
           m == Len(entries)
<1>1. /\ Pair(id, body) \in Entries /\ Pair(id, body).key = id
      /\ m \in Nat /\ DOMAIN entries = 1..m /\ m > 0
  <2>1. Pair(id, body) \in Entries /\ Pair(id, body).key = id
    BY DEF Pair, Entries
  <2>2. m \in Nat /\ DOMAIN entries = 1..m /\ m # 0
    BY LenProperties, EmptySeq
  <2> QED
    BY <2>1, <2>2
<1>2. /\ new \in Seq(Entries) /\ Len(new) = m + 1 /\ new[m + 1].key = id
      /\ \A n \in 1..m : new[n] = entries[n]
  BY <1>1, AppendProperties
<1>3. PICK old \in Seq([key : PyValues, value : PyValues]) :
         /\ Collected(old, entries, construct, m)
         /\ parse_template(Authored(entries)).error = "none" <=>
               /\ constructible[Mapping(entries)] /\ old # << >>
               /\ \A x \in DOMAIN old : well_formed(old[x])
  BY AuthoredReading
<1>4. PICK items \in Seq([key : PyValues, value : PyValues]) :
         /\ Collected(items, new, construct, m + 1)
         /\ constructible[Mapping(new)]
         /\ \A x \in DOMAIN items : well_formed(items[x])
  BY <1>2, AuthoredReading
<1>5. constructible[Mapping(entries)]
  BY <1>1, <1>4, ShorterConstructible
<1> HIDE DEF new
<1>6. old # << >>
  <2>1. 1 \in 1..m
    BY <1>1
  <2>2. \E x \in DOMAIN old : TRUE
    BY <1>3, <2>1 DEF Collected
  <2> QED
    BY <2>2
<1>7. Offending # {}
  <2>1. PICK x \in DOMAIN old : ~well_formed(old[x])
    BY <1>3, <1>5, <1>6
  <2>2. PICK k \in 1..m : /\ LastOf(entries, construct, m, k)
                          /\ old[x] = Item(KeyAt(entries, construct, k), ValueAt(entries, construct, k))
    BY <1>3 DEF Collected
  <2>3. Malformed(k)
    BY <2>1, <2>2 DEF Malformed, LogicalId, KeyAt, ValueAt
  <2>4. k = LastEntry(LogicalId(k))
    BY <1>1, <2>2, LastIsLastEntry
  <2> QED
    BY <1>1, <2>3, <2>4 DEF Offending
<1>8. ASSUME NEW n \in Offending, LogicalId(n) # construct[id]
      PROVE  FALSE
  <2>1. n \in 1..m /\ n = LastEntry(LogicalId(n)) /\ Malformed(n)
    BY <1>1, <1>8 DEF Offending
  <2>2. LastOf(entries, construct, m, n)
    BY <1>1, <2>1, LastEntryIsLast
  <2>3. \A y \in 1..m : KeyAt(new, construct, y) = KeyAt(entries, construct, y)
                        /\ ValueAt(new, construct, y) = ValueAt(entries, construct, y)
    BY <1>2 DEF KeyAt, ValueAt
  <2>4. KeyAt(new, construct, m + 1) # KeyAt(new, construct, n)
    BY <1>2, <1>8, <2>1, <2>3 DEF KeyAt, LogicalId
  <2>5. n \in 1..(m + 1) /\ LastOf(new, construct, m + 1, n)
    <3>1. \A y \in 1..(m + 1) : y \in 1..m \/ y = m + 1
      BY <1>1
    <3> QED
      BY <1>1, <2>1, <2>2, <2>3, <2>4, <3>1 DEF LastOf
  <2>6. PICK y \in DOMAIN items : items[y] = Item(KeyAt(new, construct, n), ValueAt(new, construct, n))
    <3>1. m + 1 \in Nat
      BY <1>1
    <3> QED
      BY <1>4, <2>5, <3>1, GetLast
  <2>7. items[y] = Item(LogicalId(n), construct[entries[n].value])
    BY <2>1, <2>3, <2>6 DEF KeyAt, ValueAt, LogicalId
  <2> QED
    BY <1>4, <2>1, <2>7 DEF Malformed
<1> QED
  BY <1>7, <1>8

\* construct_mapping and build_template: whatever entries an author writes, in any
\* order and however often under the same id, each id is in the template once, and
\* the resource under it is the last that was written.
THEOREM LastVersion == DocumentSpec => []LastVersionAudited
<1>1. DocumentInv => LastVersionAudited
  <2>1. entries = << >> => LastVersionAudited
    BY DEF LastVersionAudited
  <2> QED
    BY <2>1, EachIdOnce DEF DocumentInv, Authoring
<1> QED
  BY <1>1, DocumentInvariant, PTL

\* _build_template (parse.py:79-104): an entry that is refused refuses the template
\* until its id is written anew, however many entries there are and in any order.
THEOREM OnlyRepair == DocumentSpec => OnlyRepairAccepts
<1>1. DocumentInv /\ [DocumentNext]_<<vars, entries>> =>
         [ entries # << >> /\ entries' # entries /\ ~Accepted /\ Reread.error = "none" =>
              /\ Offending # {}
              /\ \A n \in Offending : LogicalId(n) = construct[Last(entries').key] ]_entries
  <2> SUFFICES ASSUME DocumentInv, [DocumentNext]_<<vars, entries>>,
                      entries # << >>, entries' # entries, ~Accepted, Reread.error = "none"
               PROVE  /\ Offending # {}
                      /\ \A n \in Offending : LogicalId(n) = construct[Last(entries').key]
    OBVIOUS
  <2>1. PICK id \in Ids, body \in Bodies : Add(id, body)
    BY DEF DocumentNext
  <2>2. /\ entries \in Seq(Entries) /\ content = Authored(entries)
        /\ entries' = Append(entries, Pair(id, body)) /\ content' = Authored(entries')
    BY <2>1 DEF Add, DocumentInv, Authoring
  <2>3. Last(entries').key = id
    <3>1. Pair(id, body) \in Entries /\ Pair(id, body).key = id
      BY DEF Pair, Entries
    <3>2. Last(Append(entries, Pair(id, body))) = Pair(id, body)
      BY <2>2, <3>1, AppendProperties DEF Last
    <3> QED
      BY <2>2, <3>1, <3>2
  <2>4. parse_template(Authored(entries)).error # "none"
    BY <2>2 DEF Accepted, result
  <2>5. parse_template(Authored(Append(entries, Pair(id, body)))).error = "none"
    BY <2>2 DEF Reread
  <2> QED
    BY <2>2, <2>3, <2>4, <2>5, OnlyThatKeyRepairs
<1> QED
  BY <1>1, DocumentInvariant, PTL DEF DocumentSpec, OnlyRepairAccepts
=============================================================================
