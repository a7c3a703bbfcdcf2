----------------------------- MODULE LinkedList -----------------------------
(***************************************************************************)
(* The linked list of the host (sources/host/list.c) as operators on a     *)
(* memory of nodes, a function on the addresses in use.  A list is its     *)
(* head, its tail and its size; an operation that changes something gives  *)
(* the memory and the list it leaves.                                      *)
(***************************************************************************)
EXTENDS Integers, Sequences, SequencesExt, FiniteSetsExt

CONSTANT Nodes      \* the addresses malloc may give to a node

ASSUME NodesAssumption == Nodes \subseteq Nat \ {0} /\ IsFiniteSet(Nodes)

NULL == 0

list_new == [head |-> NULL, tail |-> NULL, size |-> 0]

\* The first n nodes of a list, in the order of the next pointers
NodesOf(mem, l) ==
    LET node[i \in 1 .. l.size] == IF i = 1 THEN l.head ELSE mem[node[i - 1]].next
    IN  node

\* list_node_get, for an index below the size
list_node_get(mem, l, index) == NodesOf(mem, l)[index + 1]

\* What list_get gives for each index
Values(mem, l) == [i \in 1 .. l.size |-> mem[list_node_get(mem, l, i - 1)].value]

\* The address malloc gives to the next node
NewNode(mem) == Min(Nodes \ DOMAIN mem)

Node(value, next) == [value |-> value, next |-> next]

\* The memory with one more node
WithNode(mem, n, node) ==
    [x \in {n} \cup DOMAIN mem |-> IF x = n THEN node ELSE mem[x]]

-----------------------------------------------------------------------------

list_add_head(mem, l, value) ==
    LET n == NewNode(mem)
    IN  [mem |-> WithNode(mem, n, Node(value, l.head)),
         l   |-> [head |-> n, tail |-> IF l.size = 0 THEN n ELSE l.tail, size |-> l.size + 1]]

\* Mutant: the tail stays where it is
list_add_tailSameTail(mem, l, value) ==
    LET n == NewNode(mem)
    IN  [mem |-> WithNode(IF l.size = 0 THEN mem ELSE [mem EXCEPT ![l.tail].next = n],
                          n, Node(value, NULL)),
         l   |-> [head |-> IF l.size = 0 THEN n ELSE l.head,
                  tail |-> IF l.size = 0 THEN n ELSE l.tail, size |-> l.size + 1]]

list_add_tail(mem, l, value) ==
    LET n == NewNode(mem)
    IN  [mem |-> WithNode(IF l.size = 0 THEN mem ELSE [mem EXCEPT ![l.tail].next = n],
                          n, Node(value, NULL)),
         l   |-> [head |-> IF l.size = 0 THEN n ELSE l.head, tail |-> n, size |-> l.size + 1]]

list_add_at(mem, l, index, value) ==
    IF index = 0 THEN list_add_head(mem, l, value)
    ELSE IF index = l.size THEN list_add_tail(mem, l, value)
    ELSE LET n == NewNode(mem)
             prec == list_node_get(mem, l, index - 1)
         IN  [mem |-> WithNode([mem EXCEPT ![prec].next = n],
                               n, Node(value, mem[prec].next)),
              l   |-> [l EXCEPT !.size = @ + 1]]

\* Mutant: the tail stays where it is
TailAfterRemoveSame(mem, l, index) == IF l.size = 1 THEN NULL ELSE l.tail

\* What list_remove makes of the tail
TailAfterRemove(mem, l, index) ==
    IF l.size = 1 THEN NULL
    ELSE IF index = 0 \/ index < l.size - 1 THEN l.tail
    ELSE IF l.size = 2 THEN l.head ELSE list_node_get(mem, l, index - 1)

\* list_remove of an index below the size; with two nodes no next pointer is
\* touched
list_remove(mem, l, index) ==
    LET n    == list_node_get(mem, l, index)
        prec == list_node_get(mem, l, index - 1)
        cut  == IF l.size > 2 /\ index > 0
                  THEN [mem EXCEPT ![prec].next = mem[n].next] ELSE mem
    IN  [mem |-> Restrict(cut, DOMAIN mem \ {n}),
         l   |-> [head |-> IF l.size = 1 THEN NULL
                           ELSE IF index > 0 THEN l.head
                           ELSE IF l.size = 2 THEN l.tail ELSE mem[n].next,
                  tail |-> TailAfterRemove(mem, l, index),
                  size |-> l.size - 1]]

\* list_concat: the second list is destroyed, its nodes go on in the first one
list_concat(mem, l1, l2) ==
    IF l2.size = 0 THEN [mem |-> mem, l |-> l1]
    ELSE IF l1.size = 0 THEN [mem |-> mem, l |-> l2]
    ELSE [mem |-> [mem EXCEPT ![l1.tail].next = l2.head],
          l   |-> [head |-> l1.head, tail |-> l2.tail, size |-> l1.size + l2.size]]

\* The nodes list_find and the iterators go through: all those from n on.  The
\* pointers of a sound list lead to NULL before they lead back.
WalkFrom(mem, n) ==
    LET walk[k \in 0 .. Cardinality(Nodes)] ==
            IF k = 0 THEN <<n>>
            ELSE IF Last(walk[k - 1]) \notin DOMAIN mem THEN walk[k - 1]
            ELSE Append(walk[k - 1], mem[Last(walk[k - 1])].next)
    IN  walk[Cardinality(Nodes)]

\* list_delete: every node of the walk is freed
list_delete(mem, l) ==
    Restrict(mem, DOMAIN mem \ ToSet(WalkFrom(mem, l.head)))

\* list_find: the first node of those whose value satisfies the predicate, or NULL
list_find(mem, l, matching) ==
    LET walk == WalkFrom(mem, l.head)
    IN  walk[SelectInSeq(walk, LAMBDA n : n = NULL \/ n \in matching)]

-----------------------------------------------------------------------------

\* A list whose nodes can be walked through, by index or by pointer, and which
\* can be added to at both ends
Sound(mem, l) ==
    /\ WalkFrom(mem, l.head) = NodesOf(mem, l) \o <<NULL>>
    /\ ToSet(NodesOf(mem, l)) \subseteq DOMAIN mem
    /\ l.size > 0 => l.tail = NodesOf(mem, l)[l.size]
=============================================================================
