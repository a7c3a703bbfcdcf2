---------------------------- MODULE Shell_proofs ----------------------------
(***************************************************************************)
(* The shell, its lists and its timer, for any numbers of attempts,        *)
(* databases, nodes and ids.                                               *)
(*                                                                         *)
(* WaitIsTimed is inductive as it stands. The lists need more: ShellInv    *)
(* says that the nodes in use are those of two chains, the databases of    *)
(* the host and those of the download that goes on, which share none; that *)
(* the ids of each follow one another; and which database the download is  *)
(* filling.  From the chains follows what each operation of the list does. *)
(***************************************************************************)
EXTENDS Shell, FiniteSetTheorems, SequenceTheorems, NaturalsInduction, TLAPS

\* A step of an exchange leaves the timer armed as long as its attempt waits.
LEMMA ExchangeKeepsTimed ==
    ASSUME WaitIsTimed, ExchangeStep
    PROVE  WaitIsTimed'
<1>1. CASE RtoTimerStart
  BY <1>1 DEF RtoTimerStart, WaitIsTimed
<1>2. CASE RtoTimerArm
  BY <1>2 DEF RtoTimerArm, ArmTimer, WaitIsTimed
<1>3. CASE LookAtTimer
  BY <1>3 DEF LookAtTimer, NextAttempt, WaitIsTimed
<1>4. CASE GetChar
  BY <1>4 DEF GetChar, WaitIsTimed
<1>5. CASE TestElapsed
  BY <1>5 DEF TestElapsed, NextAttempt, WaitIsTimed
<1>6. CASE CallPause
  BY <1>6 DEF CallPause, WaitIsTimed
<1> QED BY <1>1, <1>2, <1>3, <1>4, <1>5, <1>6 DEF ExchangeStep

\* The commands only start exchanges and take their results, while none waits.
LEMMA CallersKeepTimed ==
    ASSUME WaitIsTimed,
           \/ CallExchange
           \/ \E result \in {"ok", "failed"} : TakeOutcome(result)
           \/ UNCHANGED timerVars
    PROVE  WaitIsTimed'
<1>1. CASE CallExchange
  BY <1>1 DEF CallExchange, WaitIsTimed
<1>2. ASSUME NEW result \in {"ok", "failed"}, TakeOutcome(result)
      PROVE  WaitIsTimed'
  BY <1>2 DEF TakeOutcome, WaitIsTimed
<1>3. CASE UNCHANGED timerVars
  BY <1>3 DEF timerVars, WaitIsTimed
<1> QED BY <1>1, <1>2, <1>3

\* The end of the program stops the timer, while no exchange waits.
LEMMA CleanupKeepsTimed ==
    ASSUME WaitIsTimed, ResetHandler \/ DeleteTimer
    PROVE  WaitIsTimed'
BY DEF ResetHandler, DeleteTimer, Idle, WaitIsTimed

\* The timer elapses: the flag is set, or the process is killed.
LEMMA SignalKeepsTimed ==
    ASSUME WaitIsTimed, TimerElapses
    PROVE  WaitIsTimed'
BY DEF TimerElapses, WokenBySignal, WaitIsTimed

\* Whatever the commands and the signals of earlier attempts do, an attempt that
\* waits with its flag clear has its timer armed (communication.c: every attempt
\* calls rto_timer_start before it waits).
THEOREM WaitAlwaysTimed == Spec => []WaitIsTimed
<1>1. Init => WaitIsTimed
  BY DEF Init, TimerInit, WaitIsTimed
<1>2. WaitIsTimed /\ [Next]_vars => WaitIsTimed'
  <2> SUFFICES ASSUME WaitIsTimed, [Next]_vars
               PROVE  WaitIsTimed'
    OBVIOUS
  <2>1. CASE Line
    <3>1. \/ CallExchange
          \/ UNCHANGED timerVars
      BY <2>1 DEF Line, RunLocal, Exit, Disconnect, ConnectFails, Connect, Send, Query,
                  Download, Begin
    <3> QED BY <3>1, CallersKeepTimed
  <2>2. CASE InCommand
    <3>1. CASE InExchange
      BY <3>1, ExchangeKeepsTimed DEF InExchange
    <3>2. CASE ~InExchange
      <4>1. \/ CallExchange
            \/ \E result \in {"ok", "failed"} : TakeOutcome(result)
        BY <2>2, <3>2 DEF InCommand, ExchangeFailed, Answer, Finished, DownloadPacket,
                          DownloadEnd, DownloadRefuses
      <4> QED BY <4>1, CallersKeepTimed
    <3> QED BY <3>1, <3>2
  <2>3. CASE EndOfInput
    <3>1. UNCHANGED timerVars
      BY <2>3 DEF EndOfInput
    <3> QED BY <3>1, CallersKeepTimed
  <2>4. CASE CommunicationCleanup \/ ShellCleanup
    <3>1. ResetHandler \/ DeleteTimer
      BY <2>4 DEF CommunicationCleanup, ShellCleanup
    <3> QED BY <3>1, CleanupKeepsTimed
  <2>5. CASE Signal
    BY <2>5, SignalKeepsTimed DEF Signal
  <2>6. CASE UNCHANGED vars
    <3>1. UNCHANGED timerVars
      BY <2>6 DEF vars
    <3> QED BY <3>1, CallersKeepTimed
  <2> QED BY <2>1, <2>2, <2>3, <2>4, <2>5, <2>6 DEF Next
<1> QED BY <1>1, <1>2, PTL DEF Spec
-----------------------------------------------------------------------------
\* The lists of the host.  A list is sound when some sequence of nodes is the
\* chain its pointers make; what the operations of the list compute by following
\* pointers is then told by what they do to that sequence.

DbObjects ==
    {db \in [id : 0 .. DB_IDS - 1, size : Sizes, used : Nat] : db.used <= db.size}

IsMemory(m) ==
    /\ DOMAIN m \subseteq Nodes
    /\ m \in [DOMAIN m -> [value : DbObjects, next : Nodes \cup {NULL}]]

ListOf(s) ==
    IF Len(s) = 0 THEN list_new ELSE [head |-> s[1], tail |-> s[Len(s)], size |-> Len(s)]

Distinct(s) == \A i, j \in 1 .. Len(s) : s[i] = s[j] => i = j

NextOf(s, i) == IF i = Len(s) THEN NULL ELSE s[i + 1]

\* The nodes of the list are those of s, in that order
Linked(m, l, s) ==
    /\ s \in Seq(DOMAIN m) /\ Distinct(s)
    /\ l = ListOf(s)
    /\ \A i \in 1 .. Len(s) : m[s[i]].next = NextOf(s, i)

\* A nonempty set of numbers has a least element.
LEMMA LeastElement ==
    ASSUME NEW S \in SUBSET Nat, S # {}
    PROVE  Min(S) \in S /\ \A n \in S : Min(S) <= n
<1>1. PICK least \in S : \A n \in S : ~(<<n, least>> \in OpToRel(<, Nat))
  BY NatLessThanWellFounded, WFMin
<1>2. \A n \in Nat : n < least => <<n, least>> \in OpToRel(<, Nat)
  BY DEF OpToRel
<1>3. \A n \in S : ~(n < least)
  BY <1>1, <1>2
<1>4. \A n \in S : least <= n
  BY <1>3
<1> QED BY <1>4 DEF Min

\* The elements of a sequence.
LEMMA ElementsOf ==
    ASSUME NEW T, NEW s \in Seq(T)
    PROVE  /\ ToSet(s) = {s[i] : i \in 1 .. Len(s)}
           /\ ToSet(s) \subseteq T
           /\ \A i \in 1 .. Len(s) : s[i] \in ToSet(s)
BY DEF ToSet

\* NodesOf goes through the nodes of a list in their order.
LEMMA NodesOfLinked ==
    ASSUME NEW m, NEW l, NEW s, Linked(m, l, s)
    PROVE  NodesOf(m, l) = s
<1> DEFINE F(node) == [i \in 1 .. l.size |-> IF i = 1 THEN l.head ELSE m[node[i - 1]].next]
<1>1. s \in Seq(DOMAIN m) /\ l.size = Len(s) /\ Len(s) \in Nat
  BY DEF Linked, ListOf, list_new
<1>2. s = F(s)
  <2>1. s = [i \in 1 .. Len(s) |-> s[i]]
    BY <1>1
  <2>2. ASSUME NEW i \in 1 .. Len(s)
        PROVE  s[i] = IF i = 1 THEN l.head ELSE m[s[i - 1]].next
    BY <1>1, <2>2 DEF Linked, ListOf, NextOf
  <2> QED BY <1>1, <2>1, <2>2
<1>3. ASSUME NEW node, node = F(node)
      PROVE  node = s
  <2> DEFINE Wrong == {i \in 1 .. Len(s) : node[i] # s[i]}
  <2>1. DOMAIN node = 1 .. Len(s) /\ node = [i \in 1 .. Len(s) |-> node[i]]
    BY <1>1, <1>3
  <2>2. ASSUME Wrong # {} PROVE FALSE
    <3>1. PICK i \in Wrong : \A n \in Wrong : i <= n
      <4>1. Wrong \subseteq Nat
        BY <1>1
      <4> QED BY <2>2, <4>1, LeastElement
    <3>2. i # 1 => node[i - 1] = s[i - 1]
      BY <1>1, <3>1
    <3>3. node[i] = IF i = 1 THEN l.head ELSE m[node[i - 1]].next
      BY <1>1, <1>3, <3>1
    <3>4. s[i] = IF i = 1 THEN l.head ELSE m[s[i - 1]].next
      BY <1>1, <1>2, <3>1
    <3> QED BY <3>1, <3>2, <3>3, <3>4
  <2> QED BY <1>1, <2>1, <2>2
<1> HIDE DEF F
<1>4. NodesOf(m, l) = CHOOSE node : node = F(node)
  BY DEF NodesOf, F
<1> QED BY <1>2, <1>3, <1>4

\* A list has no more nodes than there are.
LEMMA LinkedLength ==
    ASSUME NEW m, DOMAIN m \subseteq Nodes, NEW l, NEW s, Linked(m, l, s)
    PROVE  Len(s) <= Cardinality(Nodes) /\ Cardinality(Nodes) \in Nat
<1>1. s \in Seq(Nodes) /\ Len(s) \in Nat
  BY DEF Linked
<1>2. s \in Injection(1 .. Len(s), Nodes)
  BY <1>1 DEF Injection, IsInjective, Linked, Distinct
<1>3. Cardinality(1 .. Len(s)) <= Cardinality(Nodes)
  BY <1>2, NodesAssumption, FS_Injection
<1>4. Cardinality(1 .. Len(s)) = IF 1 > Len(s) THEN 0 ELSE Len(s) - 1 + 1
  BY SMTT(20), <1>1, FS_Interval
<1> QED BY <1>1, <1>3, <1>4, NodesAssumption, FS_CardinalityType

\* W goes on from the first node, one pointer at a time, until it meets no node
GoesOn(W, m, first) ==
    /\ W = [k \in 0 .. Cardinality(Nodes) |-> W[k]]
    /\ W[0] = <<first>>
    /\ \A k \in 1 .. Cardinality(Nodes) :
          W[k] = IF Last(W[k - 1]) \notin DOMAIN m THEN W[k - 1]
                 ELSE Append(W[k - 1], m[Last(W[k - 1])].next)

\* That is what the walk computes.
LEMMA WalkIs ==
    ASSUME NEW m, NEW first, NEW W, GoesOn(W, m, first)
    PROVE  WalkFrom(m, first) = W[Cardinality(Nodes)]
<1> DEFINE C == Cardinality(Nodes)
           F(walk) == [k \in 0 .. C |->
                          IF k = 0 THEN <<first>>
                          ELSE IF Last(walk[k - 1]) \notin DOMAIN m THEN walk[k - 1]
                          ELSE Append(walk[k - 1], m[Last(walk[k - 1])].next)]
<1>1. C \in Nat
  BY NodesAssumption, FS_CardinalityType
<1>2. W = F(W)
  <2>1. ASSUME NEW k \in 0 .. C
        PROVE  W[k] = IF k = 0 THEN <<first>>
                      ELSE IF Last(W[k - 1]) \notin DOMAIN m THEN W[k - 1]
                      ELSE Append(W[k - 1], m[Last(W[k - 1])].next)
    <3>1. CASE k = 0
      BY <3>1 DEF GoesOn
    <3>2. CASE k # 0
      <4>1. k \in 1 .. C
        BY <1>1, <3>2
      <4> QED BY <3>2, <4>1 DEF GoesOn
    <3> QED BY <3>1, <3>2
  <2> QED BY <2>1 DEF GoesOn
<1>3. ASSUME NEW walk, walk = F(walk)
      PROVE  walk = W
  <2> DEFINE Wrong == {k \in 0 .. C : walk[k] # W[k]}
  <2>1. walk = [k \in 0 .. C |-> walk[k]] /\ W = [k \in 0 .. C |-> W[k]]
    BY <1>3 DEF GoesOn
  <2>2. ASSUME Wrong # {} PROVE FALSE
    <3>1. PICK k \in Wrong : \A i \in Wrong : k <= i
      <4>1. Wrong \subseteq Nat
        BY <1>1
      <4> QED BY <2>2, <4>1, LeastElement
    <3>2. k # 0 => walk[k - 1] = W[k - 1]
      BY <1>1, <3>1
    <3>3. walk[k] = IF k = 0 THEN <<first>>
                    ELSE IF Last(walk[k - 1]) \notin DOMAIN m THEN walk[k - 1]
                    ELSE Append(walk[k - 1], m[Last(walk[k - 1])].next)
      BY <1>1, <1>3, <3>1
    <3>4. W[k] = IF k = 0 THEN <<first>>
                 ELSE IF Last(W[k - 1]) \notin DOMAIN m THEN W[k - 1]
                 ELSE Append(W[k - 1], m[Last(W[k - 1])].next)
      BY <1>1, <1>2, <3>1
    <3> QED BY <3>1, <3>2, <3>3, <3>4
  <2> QED BY <2>1, <2>2
<1> HIDE DEF F
<1>4. WalkFrom(m, first) = (CHOOSE walk : walk = F(walk))[C]
  BY DEF WalkFrom, F
<1> QED BY <1>2, <1>3, <1>4

\* The nodes of a list and the NULL after them, as the iterators meet them
WalkOf(s) == [j \in 1 .. Len(s) + 1 |-> IF j = Len(s) + 1 THEN NULL ELSE s[j]]

\* The walk along the pointers meets the nodes of a list in their order, then NULL.
LEMMA WalkLinked ==
    ASSUME NEW m, DOMAIN m \subseteq Nodes, NEW l, NEW s, Linked(m, l, s)
    PROVE  WalkFrom(m, l.head) = WalkOf(s)
<1> DEFINE n == Len(s)
           C == Cardinality(Nodes)
           Part(k) == [j \in 1 .. k + 1 |-> IF j = n + 1 THEN NULL ELSE s[j]]
           W == [k \in 0 .. C |-> Part(IF k < n THEN k ELSE n)]
<1>1. s \in Seq(DOMAIN m) /\ n \in Nat /\ C \in Nat /\ n <= C
  BY LinkedLength DEF Linked
<1>2. DOMAIN m \subseteq Nat \ {0} /\ NULL \notin DOMAIN m
  BY NodesAssumption DEF NULL
<1>3. Part(0) = <<l.head>>
  BY <1>1 DEF Linked, ListOf, list_new
<1>4. ASSUME NEW k \in 0 .. n
      PROVE  /\ Part(k) \in Seq(Nat) /\ Len(Part(k)) = k + 1
             /\ Last(Part(k)) = IF k = n THEN NULL ELSE s[k + 1]
  <2>1. \A j \in 1 .. k + 1 : j # n + 1 => s[j] \in Nat
    BY <1>1, <1>2
  <2>2. Part(k) \in [1 .. k + 1 -> Nat] /\ k + 1 \in Nat
    BY <1>1, <2>1 DEF NULL
  <2>3. Part(k) \in Seq(Nat) /\ Len(Part(k)) = k + 1
    BY <2>2
  <2> QED BY <1>1, <2>3 DEF Last
<1>5. ASSUME NEW k \in 1 .. n
      PROVE  Part(k) = Append(Part(k - 1), m[s[k]].next)
  <2>0. /\ Part(k - 1) = [j \in 1 .. k |-> IF j = n + 1 THEN NULL ELSE s[j]]
        /\ Part(k) = [j \in 1 .. k + 1 |-> IF j = n + 1 THEN NULL ELSE s[j]]
    BY <1>1
  <2> HIDE DEF Part
  <2>1. m[s[k]].next = (IF k + 1 = n + 1 THEN NULL ELSE s[k + 1]) /\ m[s[k]].next \in Nat
    BY <1>1, <1>2 DEF Linked, NextOf, NULL
  <2>2. k - 1 \in 0 .. n /\ k \in 0 .. n
    BY <1>1
  <2>3. Part(k - 1) \in Seq(Nat) /\ Len(Part(k - 1)) = k /\ Part(k) \in Seq(Nat) /\ Len(Part(k)) = k + 1
    BY <1>1, <1>4, <2>2
  <2>4. \A j \in 1 .. k : Part(k - 1)[j] = Part(k)[j]
    BY <1>1, <2>0
  <2>5. Part(k)[k + 1] = m[s[k]].next
    BY <1>1, <2>0, <2>1
  <2> QED BY SMTT(20), <2>1, <2>3, <2>4, <2>5
<1> HIDE DEF Part
<1>5a. \A k \in 0 .. C : W[k] = Part(IF k < n THEN k ELSE n)
  OBVIOUS
<1> HIDE DEF W
<1>6. ASSUME NEW k \in 1 .. C
      PROVE  W[k] = IF Last(W[k - 1]) \notin DOMAIN m THEN W[k - 1]
                    ELSE Append(W[k - 1], m[Last(W[k - 1])].next)
  <2>1. CASE k <= n
    <3>1. W[k] = Part(k) /\ W[k - 1] = Part(k - 1)
      <4>1. /\ k \in 0 .. C /\ k - 1 \in 0 .. C
            /\ (IF k < n THEN k ELSE n) = k /\ (IF k - 1 < n THEN k - 1 ELSE n) = k - 1
        BY <1>1, <2>1
      <4> QED BY <1>5a, <4>1
    <3>2. Last(Part(k - 1)) = s[k] /\ s[k] \in DOMAIN m
      <4>1. k - 1 \in 0 .. n /\ k - 1 # n /\ k - 1 + 1 = k /\ k \in 1 .. n
        BY <1>1, <2>1
      <4> QED BY <1>1, <1>4, <4>1
    <3> QED BY <1>5, <2>1, <3>1, <3>2, <1>1
  <2>2. CASE k > n
    <3>1. W[k] = Part(n) /\ W[k - 1] = Part(n)
      <4>1. /\ k \in 0 .. C /\ k - 1 \in 0 .. C
            /\ (IF k < n THEN k ELSE n) = n /\ (IF k - 1 < n THEN k - 1 ELSE n) = n
        BY <1>1, <2>2
      <4> QED BY <1>5a, <4>1
    <3>2. Last(Part(n)) = NULL
      BY <1>1, <1>4
    <3> QED BY <1>2, <3>1, <3>2
  <2> QED BY <1>1, <2>1, <2>2
<1>7. W[0] = <<l.head>> /\ W = [k \in 0 .. C |-> W[k]]
  <2>1. 0 \in 0 .. C /\ (IF 0 < n THEN 0 ELSE n) = 0
    BY <1>1
  <2> QED BY <1>3, <1>5a, <2>1 DEF W
<1>8. W[C] = WalkOf(s)
  <2>1. W[C] = Part(n)
    <3>1. C \in 0 .. C /\ (IF C < n THEN C ELSE n) = n
      BY <1>1
    <3> QED BY <1>5a, <3>1
  <2> QED BY <2>1 DEF Part, WalkOf
<1>9. WalkFrom(m, l.head) = W[C]
  <2>1. GoesOn(W, m, l.head)
    BY <1>6, <1>7 DEF GoesOn
  <2> QED BY <2>1, WalkIs
<1> QED BY <1>8, <1>9

\* A list whose nodes are a chain is sound, and its values are those of the chain.
LEMMA LinkedSound ==
    ASSUME NEW m, DOMAIN m \subseteq Nodes, NEW l, NEW s, Linked(m, l, s)
    PROVE  /\ Sound(m, l) /\ ToSet(NodesOf(m, l)) = ToSet(s)
           /\ l.size = Len(s)
           /\ Values(m, l) = [i \in 1 .. Len(s) |-> m[s[i]].value]
<1>1. NodesOf(m, l) = s /\ WalkFrom(m, l.head) = WalkOf(s)
  BY NodesOfLinked, WalkLinked
<1>2. s \in Seq(DOMAIN m) /\ l.size = Len(s) /\ Len(s) \in Nat
  BY DEF Linked, ListOf, list_new
<1>3. WalkOf(s) = s \o <<NULL>>
  <2>1. s \in Seq(Nat) /\ <<NULL>> \in Seq(Nat)
    BY SMTT(20), <1>2, NodesAssumption DEF NULL
  <2>2. /\ s \o <<NULL>> \in Seq(Nat) /\ Len(s \o <<NULL>>) = Len(s) + 1
        /\ \A j \in 1 .. Len(s) + 1 : (s \o <<NULL>>)[j] = IF j <= Len(s) THEN s[j] ELSE NULL
    BY <2>1
  <2>3. s \o <<NULL>> = [j \in 1 .. Len(s) + 1 |-> (s \o <<NULL>>)[j]]
    BY <2>2
  <2> QED BY SMTT(20), <1>2, <2>2, <2>3 DEF WalkOf
<1>4. ToSet(s) \subseteq DOMAIN m
  BY <1>2, ElementsOf
<1>5. l.size > 0 => l.tail = s[l.size]
  BY <1>2 DEF Linked, ListOf, list_new
<1>6. Values(m, l) = [i \in 1 .. Len(s) |-> m[s[i]].value]
  BY <1>1, <1>2 DEF Values, list_node_get
<1> QED BY <1>1, <1>2, <1>3, <1>4, <1>5, <1>6 DEF Sound

\* A change of the memory that leaves the pointers of its nodes leaves a list.
LEMMA LinkedElsewhere ==
    ASSUME NEW m, NEW l, NEW s, Linked(m, l, s),
           NEW after, ToSet(s) \subseteq DOMAIN after,
           \A n \in ToSet(s) : after[n].next = m[n].next
    PROVE  Linked(after, l, s)
<1>1. s \in Seq(DOMAIN m) /\ \A i \in 1 .. Len(s) : s[i] \in ToSet(s)
  BY ElementsOf DEF Linked
<1>2. s \in Seq(DOMAIN after)
  <2>1. s \in [1 .. Len(s) -> DOMAIN after] /\ Len(s) \in Nat
    BY <1>1
  <2> QED BY <2>1
<1> QED BY <1>1, <1>2 DEF Linked

\* malloc gives a node that is not in use.
LEMMA NewNodeFree ==
    ASSUME NEW m, IsMemory(m), DOMAIN m # Nodes
    PROVE  NewNode(m) \in Nodes /\ NewNode(m) \notin DOMAIN m
<1>1. Nodes \ DOMAIN m \in SUBSET Nat /\ Nodes \ DOMAIN m # {}
  BY NodesAssumption DEF IsMemory
<1> QED BY <1>1, LeastElement DEF NewNode

\* list_add_tail appends a new node, and leaves the other nodes and lists.
LEMMA AddTail ==
    ASSUME NEW m, IsMemory(m), DOMAIN m # Nodes, NEW l, NEW s, Linked(m, l, s),
           NEW value \in DbObjects
    PROVE  LET added == list_add_tail(m, l, value)
               n     == NewNode(m)
           IN  /\ IsMemory(added.mem) /\ DOMAIN added.mem = DOMAIN m \cup {n}
               /\ n \in Nodes /\ n \notin DOMAIN m
               /\ Linked(added.mem, added.l, Append(s, n))
               /\ added.l.size = Len(s) + 1 /\ added.l.tail = n
               /\ added.mem[n].value = value
               /\ \A k \in DOMAIN m : added.mem[k].value = m[k].value
               /\ \A k \in DOMAIN m : k \notin ToSet(s) => added.mem[k] = m[k]
<1> DEFINE n == NewNode(m)
           after == list_add_tail(m, l, value).mem
           grown == list_add_tail(m, l, value).l
<1>1. n \in Nodes /\ n \notin DOMAIN m
  BY NewNodeFree
<1>2. /\ s \in Seq(DOMAIN m) /\ Len(s) \in Nat /\ l.size = Len(s)
      /\ Len(s) > 0 => l.head = s[1] /\ l.tail = s[Len(s)] /\ l.tail \in DOMAIN m
  BY DEF Linked, ListOf, list_new
<1>3. /\ after = WithNode(IF l.size = 0 THEN m ELSE [m EXCEPT ![l.tail].next = n], n, Node(value, NULL))
      /\ grown = [head |-> IF l.size = 0 THEN n ELSE l.head, tail |-> n, size |-> l.size + 1]
  BY DEF list_add_tail
<1>4. /\ after = [k \in DOMAIN m \cup {n} |-> after[k]]
      /\ after[n] = [value |-> value, next |-> NULL]
      /\ \A k \in DOMAIN m : after[k] = IF Len(s) > 0 /\ k = s[Len(s)] THEN [m[k] EXCEPT !.next = n] ELSE m[k]
  <2> HIDE DEF n
  <2>1. CASE Len(s) = 0
    BY <1>1, <1>2, <1>3, <2>1 DEF WithNode, Node
  <2>2. CASE Len(s) > 0
    <3> DEFINE cut == [m EXCEPT ![l.tail].next = n]
    <3>1. /\ DOMAIN cut = DOMAIN m
          /\ \A k \in DOMAIN m : cut[k] = IF k = s[Len(s)] THEN [m[k] EXCEPT !.next = n] ELSE m[k]
      BY <1>2, <2>2
    <3>2. after = WithNode(cut, n, Node(value, NULL))
      BY <1>2, <1>3, <2>2
    <3> HIDE DEF cut, after
    <3> QED BY <1>1, <2>2, <3>1, <3>2 DEF WithNode, Node
  <2> QED BY <1>2, <2>1, <2>2
<1> HIDE DEF after, grown, n
<1>5. IsMemory(after) /\ DOMAIN after = DOMAIN m \cup {n}
  <2>1. \A k \in DOMAIN m : m[k] \in [value : DbObjects, next : Nodes \cup {NULL}]
    BY DEF IsMemory
  <2>2. \A k \in DOMAIN m : after[k] \in [value : DbObjects, next : Nodes \cup {NULL}]
    BY <1>1, <1>4, <2>1
  <2>3. after[n] \in [value : DbObjects, next : Nodes \cup {NULL}]
    BY <1>4
  <2>4. DOMAIN after = DOMAIN m \cup {n}
    BY <1>4
  <2> QED BY <1>1, <1>4, <2>2, <2>3, <2>4 DEF IsMemory
<1>6. \A k \in DOMAIN m : after[k].value = m[k].value
  <2>1. \A k \in DOMAIN m : m[k] \in [value : DbObjects, next : Nodes \cup {NULL}]
    BY DEF IsMemory
  <2> QED BY <1>4, <2>1
<1>7. \A k \in DOMAIN m : k \notin ToSet(s) => after[k] = m[k]
  BY <1>2, <1>4, ElementsOf
<1>8. Linked(after, grown, Append(s, n))
  <2> DEFINE u == Append(s, n)
  <2>1. s \in Seq(DOMAIN after) /\ n \in DOMAIN after
    BY <1>2, <1>5
  <2>2. /\ u \in Seq(DOMAIN after) /\ Len(u) = Len(s) + 1
        /\ \A i \in 1 .. Len(s) : u[i] = s[i] /\ s[i] \in DOMAIN m
        /\ u[Len(s) + 1] = n
    BY <1>2, <2>1
  <2> HIDE DEF u
  <2>3. Distinct(u)
    BY <1>1, <1>2, <2>2 DEF Distinct, Linked
  <2>4. grown = ListOf(u)
    BY <1>2, <1>3, <2>2 DEF ListOf
  <2>5. ASSUME NEW i \in 1 .. Len(s)
        PROVE  after[u[i]].next = NextOf(u, i)
    <3>1. m[s[i]] \in [value : DbObjects, next : Nodes \cup {NULL}]
      BY <2>2 DEF IsMemory
    <3>2. s[i] = s[Len(s)] => i = Len(s)
      BY <1>2 DEF Linked, Distinct
    <3>3. CASE i = Len(s)
      BY <1>2, <1>4, <2>2, <3>1, <3>3 DEF NextOf
    <3>4. CASE i # Len(s)
      <4>1. after[u[i]] = m[s[i]] /\ m[s[i]].next = s[i + 1]
        BY <1>2, <1>4, <2>2, <3>2, <3>4 DEF NextOf, Linked
      <4> QED BY <1>2, <2>2, <3>4, <4>1 DEF NextOf
    <3> QED BY <3>3, <3>4
  <2>6. after[u[Len(s) + 1]].next = NextOf(u, Len(s) + 1)
    BY <1>4, <2>2 DEF NextOf
  <2> QED BY <1>2, <2>2, <2>3, <2>4, <2>5, <2>6 DEF Linked, u
<1>9. grown.size = Len(s) + 1 /\ grown.tail = n /\ after[n].value = value
  BY <1>2, <1>3, <1>4
<1> QED BY <1>1, <1>5, <1>6, <1>7, <1>8, <1>9 DEF after, grown, n

\* The memory and the list that hold the nodes of u, with their values
Joins(m, u, joined) ==
    /\ IsMemory(joined.mem) /\ DOMAIN joined.mem = DOMAIN m
    /\ Linked(joined.mem, joined.l, u)
    /\ \A k \in DOMAIN m : joined.mem[k].value = m[k].value

\* list_concat makes one list of two that share no node.
LEMMA Concat ==
    ASSUME NEW m, IsMemory(m), NEW l1, NEW l2, NEW s, NEW t, Linked(m, l1, s), Linked(m, l2, t),
           ToSet(s) \cap ToSet(t) = {}
    PROVE  Joins(m, s \o t, list_concat(m, l1, l2))
<1> DEFINE after == list_concat(m, l1, l2).mem
           grown == list_concat(m, l1, l2).l
           u == s \o t
<1>1. /\ s \in Seq(DOMAIN m) /\ Len(s) \in Nat /\ l1.size = Len(s) /\ l1 = ListOf(s)
      /\ t \in Seq(DOMAIN m) /\ Len(t) \in Nat /\ l2.size = Len(t) /\ l2 = ListOf(t)
  BY DEF Linked, ListOf, list_new
<1>2. CASE Len(t) = 0
  <2>1. after = m /\ grown = l1 /\ t = <<>>
    BY <1>1, <1>2 DEF list_concat
  <2>2. u = s
    BY <1>1, <2>1
  <2> QED BY <2>1, <2>2 DEF Joins
<1>3. CASE Len(t) > 0 /\ Len(s) = 0
  <2>1. after = m /\ grown = l2 /\ s = <<>>
    BY <1>1, <1>3 DEF list_concat
  <2>2. u = t
    BY <1>1, <2>1
  <2> QED BY <2>1, <2>2 DEF Joins
<1>4. CASE Len(t) > 0 /\ Len(s) > 0
  <2> DEFINE last == s[Len(s)]
             new == [m[last] EXCEPT !.next = t[1]]
  <2>1. /\ l1.head = s[1] /\ l1.tail = last /\ last \in DOMAIN m
        /\ l2.head = t[1] /\ l2.tail = t[Len(t)] /\ t[1] \in DOMAIN m
    BY <1>1, <1>4 DEF ListOf
  <2>2. /\ after = [m EXCEPT ![l1.tail].next = l2.head]
        /\ grown = [head |-> l1.head, tail |-> l2.tail, size |-> l1.size + l2.size]
    BY <1>1, <1>4 DEF list_concat
  <2>3. \A k \in DOMAIN m : m[k] \in [value : DbObjects, next : Nodes \cup {NULL}]
    BY DEF IsMemory
  <2>4. /\ new \in [value : DbObjects, next : Nodes \cup {NULL}]
        /\ new.value = m[last].value /\ new.next = t[1]
    <3>1. m[last] \in [value : DbObjects, next : Nodes \cup {NULL}] /\ t[1] \in Nodes
      BY <2>1, <2>3 DEF IsMemory
    <3> QED BY <3>1
  <2>5. after = [m EXCEPT ![last] = new]
    BY <2>1, <2>2
  <2> HIDE DEF after, new
  <2>6. DOMAIN after = DOMAIN m /\ \A k \in DOMAIN m : after[k] = IF k = last THEN new ELSE m[k]
    BY <2>1, <2>5
  <2>7. IsMemory(after)
    <3>1. after = [k \in DOMAIN m |-> after[k]]
      BY <2>5
    <3>2. \A k \in DOMAIN m : after[k] \in [value : DbObjects, next : Nodes \cup {NULL}]
      BY <2>3, <2>4, <2>6
    <3> QED BY <2>6, <3>1, <3>2 DEF IsMemory
  <2>8. \A k \in DOMAIN m : after[k].value = m[k].value
    BY <2>4, <2>6
  <2>9. /\ u \in Seq(DOMAIN after) /\ Len(u) = Len(s) + Len(t)
        /\ \A i \in 1 .. Len(u) : u[i] = IF i <= Len(s) THEN s[i] ELSE t[i - Len(s)]
    BY <1>1, <2>6, ConcatProperties
  <2> HIDE DEF u, grown
  <2>10. Distinct(u)
    <3>1. \A i \in 1 .. Len(s), j \in 1 .. Len(t) : s[i] # t[j]
      BY <1>1, ElementsOf
    <3> SUFFICES ASSUME NEW i \in 1 .. Len(u), NEW j \in 1 .. Len(u), u[i] = u[j]
                 PROVE  i = j
      BY DEF Distinct
    <3>2. CASE i <= Len(s) /\ j <= Len(s)
      BY <1>1, <2>9, <3>2 DEF Linked, Distinct
    <3>3. CASE i > Len(s) /\ j > Len(s)
      <4>1. i - Len(s) \in 1 .. Len(t) /\ j - Len(s) \in 1 .. Len(t)
        <5>1. i \in Nat /\ j \in Nat /\ i <= Len(s) + Len(t) /\ j <= Len(s) + Len(t)
          BY <1>1, <2>9
        <5> QED BY <1>1, <3>3, <5>1
      <4>2. t[i - Len(s)] = t[j - Len(s)]
        <5>1. u[i] = t[i - Len(s)]
          BY <1>1, <2>9, <3>3
        <5>2. u[j] = t[j - Len(s)]
          BY <1>1, <2>9, <3>3
        <5> QED BY <5>1, <5>2
      <4>3. i - Len(s) = j - Len(s)
        BY <4>1, <4>2 DEF Linked, Distinct
      <4> QED BY <1>1, <2>9, <4>3
    <3>4. CASE i <= Len(s) /\ j > Len(s)
      BY SMTT(20), <1>1, <2>9, <3>1, <3>4
    <3>5. CASE i > Len(s) /\ j <= Len(s)
      BY SMTT(20), <1>1, <2>9, <3>1, <3>5
    <3> QED BY <1>1, <2>9, <3>2, <3>3, <3>4, <3>5
  <2>11. grown = ListOf(u)
    <3>1. /\ 1 \in 1 .. Len(u) /\ 1 <= Len(s) /\ Len(u) \in 1 .. Len(u) /\ ~(Len(u) <= Len(s))
          /\ Len(u) - Len(s) = Len(t) /\ Len(u) # 0
      BY <1>1, <1>4, <2>9
    <3>2. u[1] = s[1] /\ u[Len(u)] = t[Len(u) - Len(s)]
      BY <2>9, <3>1
    <3> QED BY <1>1, <2>1, <2>2, <2>9, <3>1, <3>2 DEF ListOf, grown
  <2>12. ASSUME NEW i \in 1 .. Len(u)
         PROVE  after[u[i]].next = NextOf(u, i)
    <3>1. CASE i < Len(s)
      <4>1. u[i] = s[i] /\ u[i + 1] = s[i + 1] /\ s[i] \in DOMAIN m /\ i # Len(u) /\ i \in 1 .. Len(s)
        <5>1. i <= Len(s) /\ i + 1 \in 1 .. Len(u) /\ i + 1 <= Len(s) /\ i # Len(u) /\ i \in 1 .. Len(s)
          BY <1>1, <1>4, <2>9, <3>1
        <5> QED BY <1>1, <2>9, <5>1
      <4>2. s[i] # last
        BY <1>1, <3>1 DEF Linked, Distinct
      <4> QED BY <2>6, <3>1, <4>1, <4>2 DEF Linked, NextOf
    <3>2. CASE i = Len(s)
      <4>1. u[i] = last /\ u[i + 1] = t[1] /\ i # Len(u)
        <5>1. /\ i <= Len(s) /\ i + 1 \in 1 .. Len(u) /\ ~(i + 1 <= Len(s)) /\ i # Len(u)
              /\ i + 1 - Len(s) = 1
          BY <1>1, <1>4, <2>9, <3>2
        <5>2. u[i] = s[i] /\ u[i + 1] = t[i + 1 - Len(s)]
          BY <2>9, <5>1
        <5> QED BY <3>2, <5>1, <5>2
      <4> QED BY <2>1, <2>4, <2>6, <4>1 DEF NextOf
    <3>3. CASE i > Len(s)
      <4> DEFINE j == i - Len(s)
      <4>1. /\ j \in 1 .. Len(t) /\ u[i] = t[j] /\ t[j] \in DOMAIN m
            /\ i = Len(u) <=> j = Len(t)
            /\ i # Len(u) => u[i + 1] = t[j + 1]
        <5>1. j \in 1 .. Len(t) /\ u[i] = t[j] /\ (i = Len(u) <=> j = Len(t))
          BY <1>1, <2>9, <3>3
        <5>2. ASSUME i # Len(u) PROVE u[i + 1] = t[j + 1]
          <6>1. i + 1 \in 1 .. Len(u) /\ ~(i + 1 <= Len(s)) /\ i + 1 - Len(s) = j + 1
            BY <1>1, <2>9, <3>3, <5>2
          <6>2. u[i + 1] = t[i + 1 - Len(s)]
            BY <2>9, <6>1
          <6> QED BY <6>1, <6>2
        <5> QED BY <1>1, <5>1, <5>2
      <4>2. t[j] # last
        <5>1. last \in ToSet(s) /\ t[j] \in ToSet(t)
          BY <1>1, <1>4, <4>1, ElementsOf
        <5> QED BY <5>1
      <4>3. m[t[j]].next = NextOf(t, j)
        BY <4>1 DEF Linked
      <4> QED BY <2>6, <4>1, <4>2, <4>3 DEF NextOf
    <3> QED BY <1>1, <2>9, <3>1, <3>2, <3>3
  <2> QED BY <2>6, <2>7, <2>8, <2>9, <2>10, <2>11, <2>12 DEF Linked, Joins, u, after, grown
<1> QED BY <1>1, <1>2, <1>3, <1>4

\* list_delete frees the nodes of the list and leaves the others.
LEMMA Delete ==
    ASSUME NEW m, IsMemory(m), NEW l, NEW s, Linked(m, l, s)
    PROVE  LET after == list_delete(m, l)
           IN  /\ IsMemory(after) /\ DOMAIN after = DOMAIN m \ ToSet(s)
               /\ \A k \in DOMAIN after : after[k] = m[k]
<1>1. WalkFrom(m, l.head) = WalkOf(s) /\ s \in Seq(DOMAIN m) /\ Len(s) \in Nat
  BY WalkLinked DEF Linked, IsMemory
<1>2. ToSet(WalkOf(s)) = ToSet(s) \cup {NULL}
  <2>1. /\ DOMAIN WalkOf(s) = 1 .. Len(s) + 1
        /\ \A j \in 1 .. Len(s) : WalkOf(s)[j] = s[j] /\ j \in 1 .. Len(s) + 1
        /\ WalkOf(s)[Len(s) + 1] = NULL
        /\ \A j \in 1 .. Len(s) + 1 : j = Len(s) + 1 \/ j \in 1 .. Len(s)
    BY <1>1 DEF WalkOf
  <2>2. ToSet(s) = {s[i] : i \in 1 .. Len(s)}
    BY <1>1, ElementsOf
  <2>3. Len(s) + 1 \in 1 .. Len(s) + 1
    BY <1>1
  <2> QED BY <2>1, <2>2, <2>3 DEF ToSet
<1>3. NULL \notin DOMAIN m
  BY NodesAssumption DEF IsMemory, NULL
<1>4. list_delete(m, l) = [k \in DOMAIN m \ ToSet(s) |-> m[k]]
  BY <1>1, <1>2, <1>3 DEF list_delete, Restrict
<1> QED BY <1>4 DEF IsMemory

-----------------------------------------------------------------------------
\* A number is its quotient and its remainder.
LEMMA Division ==
    ASSUME NEW N \in Nat \ {0}, NEW a \in Nat
    PROVE  /\ a = (N * (a \div N)) + (a % N)
           /\ a % N \in 0 .. N - 1 /\ a \div N \in Int
OBVIOUS

\* A remainder does not depend on the quotient it is left by.
LEMMA OneRemainder ==
    ASSUME NEW N \in Nat \ {0}, NEW q \in Int, NEW p \in Int,
           NEW r \in 0 .. N - 1, NEW s \in 0 .. N - 1, N * q + r = N * p + s
    PROVE  r = s
<1>1. N * (q - p) = s - r /\ N * (p - q) = r - s
  OBVIOUS
<1>2. CASE q = p
  BY <1>1, <1>2
<1>3. CASE q > p
  <2>1. q - p >= 1 /\ q - p \in Nat
    BY <1>3
  <2>2. N * (q - p) >= N
    BY <2>1
  <2> QED BY <1>1, <2>2
<1>4. CASE q < p
  <2>1. p - q >= 1 /\ p - q \in Nat
    BY <1>4
  <2>2. N * (p - q) >= N
    BY <2>1
  <2> QED BY <1>1, <2>2
<1> QED BY <1>2, <1>3, <1>4

\* Counting on from a remainder leaves the remainder of the sum.
LEMMA RemainderOfSum ==
    ASSUME NEW N \in Nat \ {0}, NEW a \in Nat, NEW j \in Nat
    PROVE  ((a % N) + j) % N = (a + j) % N
<1> DEFINE r == a % N
           q == a \div N
           b == r + j
           c == a + j
<1>1. a = N * q + r /\ r \in 0 .. N - 1 /\ q \in Int
  BY Division
<1>2. b \in Nat /\ c \in Nat
  BY <1>1
<1> HIDE DEF r, q
<1>3. b = N * (b \div N) + (b % N) /\ b % N \in 0 .. N - 1 /\ b \div N \in Int
  <2> HIDE DEF b
  <2> QED BY <1>2, Division
<1>4. c = N * (c \div N) + (c % N) /\ c % N \in 0 .. N - 1 /\ c \div N \in Int
  <2> HIDE DEF c
  <2> QED BY <1>2, Division
<1>5. c = N * q + b
  BY <1>1
<1> HIDE DEF b, c
<1>6. N * (q + (b \div N)) + (b % N) = N * (c \div N) + (c % N)
  BY <1>1, <1>2, <1>3, <1>4, <1>5
<1>7. b % N = c % N
  <2>1. q + (b \div N) \in Int
    BY <1>1, <1>3
  <2> QED BY <1>3, <1>4, <1>6, <2>1, OneRemainder
<1> QED BY <1>7 DEF b, c, r

-----------------------------------------------------------------------------
\* The storage

\* The list the download fills, empty when there is none
Held == IF Downloading THEN db_list ELSE list_new

Id(n) == mem[n].value.id

\* What the counter is after so many databases
CounterAfter(n) == IF n = 0 THEN 0 ELSE ((n - 1) % DB_IDS) + 1

\* The databases of the host are in the nodes s and those of the download in the
\* nodes t, and no other node is in use; the ids follow one another.
Chained(s, t) ==
    /\ Linked(mem, dbs, s) /\ Linked(mem, Held, t)
    /\ ToSet(s) \cap ToSet(t) = {}
    /\ DOMAIN mem = ToSet(s) \cup ToSet(t)
    /\ Len(s) + Len(t) <= MaxDbs
    /\ \A i \in 1 .. Len(s) : Id(s[i]) = (i - 1) % DB_IDS
    /\ \A i \in 1 .. Len(t) : Id(t[i]) = (Len(s) + i - 1) % DB_IDS
    /\ db_current = IF Len(t) = 0 THEN NULL ELSE t[Len(t)]
    /\ Len(t) > 0 => db_id = Id(t[Len(t)])

StoreTypes ==
    /\ IsMemory(mem)
    /\ db_incr_counter \in 0 .. DB_IDS /\ db_id \in 0 .. DB_IDS - 1

\* The counter is where the databases of the host left it
Counted(s) == db_incr_counter = CounterAfter(Len(s))

\* What Chained says of the lengths.
LEMMA ChainedLengths ==
    ASSUME NEW s, NEW t, Chained(s, t)
    PROVE  /\ s \in Seq(DOMAIN mem) /\ Len(s) \in Nat /\ dbs.size = Len(s)
           /\ t \in Seq(DOMAIN mem) /\ Len(t) \in Nat /\ Held.size = Len(t)
           /\ Downloading => db_list.size = Len(t)
           /\ ~Downloading => Len(t) = 0
<1>1. /\ s \in Seq(DOMAIN mem) /\ dbs = ListOf(s)
      /\ t \in Seq(DOMAIN mem) /\ Held = ListOf(t)
  BY DEF Chained, Linked
<1>2. Len(s) \in Nat /\ Len(t) \in Nat
  BY <1>1
<1>3. ListOf(s).size = Len(s) /\ ListOf(t).size = Len(t)
  BY <1>2 DEF ListOf, list_new
<1> QED BY <1>1, <1>2, <1>3 DEF Held, list_new

\* As long as the host holds fewer databases than the bound, malloc finds a node.
LEMMA Room ==
    ASSUME IsMemory(mem), NEW s, NEW t, Chained(s, t), Len(s) + Len(t) < MaxDbs
    PROVE  DOMAIN mem # Nodes
<1> DEFINE n == Len(s) + Len(t)
           f == [i \in 1 .. n |-> IF i <= Len(s) THEN s[i] ELSE t[i - Len(s)]]
<1>1. /\ s \in Seq(DOMAIN mem) /\ Len(s) \in Nat /\ t \in Seq(DOMAIN mem) /\ Len(t) \in Nat
      /\ n \in Nat /\ n < MaxDbs
  BY ChainedLengths
<1>2. f \in [1 .. n -> DOMAIN mem]
  BY <1>1
<1>3. ASSUME NEW k \in DOMAIN mem
      PROVE  \E i \in 1 .. n : f[i] = k
  <2>1. CASE k \in ToSet(s)
    <3>1. PICK i \in 1 .. Len(s) : s[i] = k
      BY <1>1, <2>1, ElementsOf
    <3>2. i \in 1 .. n /\ f[i] = k
      BY <1>1, <3>1
    <3> QED BY <3>2
  <2>2. CASE k \in ToSet(t)
    <3>1. PICK i \in 1 .. Len(t) : t[i] = k
      BY <1>1, <2>2, ElementsOf
    <3>2. /\ Len(s) + i \in 1 .. n /\ ~(Len(s) + i <= Len(s)) /\ Len(s) + i - Len(s) = i
      BY <1>1
    <3>3. f[Len(s) + i] = k
      BY <3>1, <3>2
    <3> QED BY <3>2, <3>3
  <2> QED BY <2>1, <2>2 DEF Chained
<1>4. f \in Surjection(1 .. n, DOMAIN mem)
  <2> HIDE DEF f
  <2> QED BY <1>2, <1>3 DEF Surjection
<1> HIDE DEF f, n
<1>5. IsFiniteSet(1 .. n) /\ Cardinality(1 .. n) = IF 1 > n THEN 0 ELSE n - 1 + 1
  BY <1>1, FS_Interval
<1>6. Cardinality(DOMAIN mem) <= n
  <2>1. Cardinality(DOMAIN mem) <= Cardinality(1 .. n)
    BY <1>4, <1>5, FS_Surjection
  <2> QED BY <1>1, <1>5, <2>1
<1>7. MaxDbs <= Cardinality(Nodes) /\ MaxDbs \in Nat /\ Cardinality(Nodes) \in Nat
  BY HostStoreAssumption, NodesAssumption, FS_CardinalityType
<1>8. ASSUME DOMAIN mem = Nodes PROVE FALSE
  BY <1>1, <1>6, <1>7, <1>8
<1> QED BY <1>8

\* The id a new database gets: that of its place among all the databases.
LEMMA NextId ==
    ASSUME NEW n \in Nat, NEW j \in Nat
    PROVE  (j + CounterAfter(n)) % DB_IDS = (n + j) % DB_IDS
<1>1. CASE n = 0
  BY <1>1 DEF CounterAfter
<1>2. CASE n # 0
  <2>1. n - 1 \in Nat /\ j + 1 \in Nat /\ DB_IDS \in Nat \ {0}
    BY <1>2, HostStoreAssumption
  <2>2. (((n - 1) % DB_IDS) + (j + 1)) % DB_IDS = (n - 1 + (j + 1)) % DB_IDS
    BY <2>1, RemainderOfSum
  <2>3. (n - 1) % DB_IDS \in 0 .. DB_IDS - 1
    BY <2>1, Division
  <2>4. /\ ((n - 1) % DB_IDS) + (j + 1) = j + CounterAfter(n)
        /\ n - 1 + (j + 1) = n + j
    <3> DEFINE r == (n - 1) % DB_IDS
    <3>1. r \in Nat /\ CounterAfter(n) = r + 1
      BY <1>2, <2>1, <2>3 DEF CounterAfter
    <3> HIDE DEF r
    <3>2. r + (j + 1) = j + CounterAfter(n) /\ n - 1 + (j + 1) = n + j
      BY <3>1
    <3> QED BY <3>2 DEF r
  <2> QED BY <2>2, <2>4
<1> QED BY <1>1, <1>2

\* A memory in which the pointers and the ids are what they were holds the same lists.
LEMMA ChainedAfter ==
    ASSUME NEW s, NEW t, Chained(s, t), UNCHANGED <<mem, dbs, db_id>>,
           Held' = Held, db_current' = db_current
    PROVE  Chained(s, t)'
BY DEF Chained, Linked, Id

\* A download starts with an empty list.
LEMMA BeginKeepsLists ==
    ASSUME NEW s, NEW t, Chained(s, t), ~Downloading, DownloadBegin
    PROVE  Chained(s, t)' /\ Downloading'
<1>1. db_list' = list_new /\ db_current' = NULL /\ UNCHANGED <<mem, dbs, db_id>>
  BY DEF DownloadBegin
<1>2. Downloading'
  BY <1>1 DEF Downloading, list_new, NoList
<1>3. Held' = Held
  BY <1>1, <1>2 DEF Held
<1>4. db_current' = db_current
  BY <1>1, ChainedLengths DEF Chained
<1> QED BY <1>1, <1>2, <1>3, <1>4, ChainedAfter

\* A database announced joins the list of the download, with the next id.
LEMMA NewDbKeepsLists ==
    ASSUME StoreTypes, NEW s, NEW t, Chained(s, t), Counted(s), Downloading,
           NEW size \in Sizes, NewDb(size)
    PROVE  /\ StoreTypes' /\ Downloading'
           /\ \E u : Chained(s, u)'
           /\ \A k \in DOMAIN mem : mem'[k].value = mem[k].value
<1> DEFINE value == Db(db_id', size)
           added == list_add_tail(mem, db_list, value)
<1>1. /\ db_id' = (db_list.size + db_incr_counter) % DB_IDS
      /\ mem' = added.mem /\ db_list' = added.l /\ db_current' = added.l.tail
      /\ UNCHANGED <<dbs, db_incr_counter>>
      /\ dbs.size + db_list.size < MaxDbs
  BY DEF NewDb
<1>2. /\ s \in Seq(DOMAIN mem) /\ Len(s) \in Nat /\ dbs.size = Len(s)
      /\ t \in Seq(DOMAIN mem) /\ Len(t) \in Nat /\ db_list.size = Len(t)
  BY ChainedLengths
<1>3. db_id' = (Len(s) + Len(t)) % DB_IDS /\ db_id' \in 0 .. DB_IDS - 1
  <2>1. db_id' = (Len(s) + Len(t)) % DB_IDS
    BY <1>1, <1>2, NextId DEF Counted
  <2>2. Len(s) + Len(t) \in Nat /\ DB_IDS \in Nat \ {0}
    BY <1>2, HostStoreAssumption
  <2> QED BY <2>1, <2>2, Division
<1>4. value \in DbObjects /\ value.id = db_id'
  BY <1>3, HostStoreAssumption DEF DbObjects, Db
<1>5. IsMemory(mem) /\ DOMAIN mem # Nodes /\ Linked(mem, db_list, t)
  BY <1>1, <1>2, Room DEF StoreTypes, Chained, Held
<1> HIDE DEF value
<1>6. PICK n : n = NewNode(mem)
  OBVIOUS
<1>7. /\ IsMemory(mem') /\ DOMAIN mem' = DOMAIN mem \cup {n}
      /\ n \in Nodes /\ n \notin DOMAIN mem
      /\ Linked(mem', db_list', Append(t, n))
      /\ db_list'.size = Len(t) + 1 /\ db_list'.tail = n
      /\ mem'[n].value = value
      /\ \A k \in DOMAIN mem : mem'[k].value = mem[k].value
      /\ \A k \in DOMAIN mem : k \notin ToSet(t) => mem'[k] = mem[k]
  BY <1>1, <1>4, <1>5, <1>6, AddTail
<1> HIDE DEF added
<1>8. PICK u : u = Append(t, n)
  OBVIOUS
<1>9. /\ Len(u) = Len(t) + 1 /\ u[Len(t) + 1] = n
      /\ \A i \in 1 .. Len(t) : u[i] = t[i] /\ t[i] \in DOMAIN mem
      /\ ToSet(u) = ToSet(t) \cup {n}
  <2>1. t \in Seq(DOMAIN mem \cup {n}) /\ n \in DOMAIN mem \cup {n}
    BY <1>2
  <2>2. /\ u \in Seq(DOMAIN mem \cup {n}) /\ Len(u) = Len(t) + 1 /\ u[Len(t) + 1] = n
        /\ \A i \in 1 .. Len(t) : u[i] = t[i]
    BY <1>8, <2>1
  <2>3. ToSet(u) = {u[i] : i \in 1 .. Len(u)} /\ ToSet(t) = {t[i] : i \in 1 .. Len(t)}
    BY <1>2, <2>2, ElementsOf
  <2>4. \A i \in 1 .. Len(t) + 1 : i \in 1 .. Len(t) \/ i = Len(t) + 1
    BY <1>2
  <2>5. /\ \A i \in 1 .. Len(t) : i \in 1 .. Len(t) + 1
        /\ Len(t) + 1 \in 1 .. Len(t) + 1
    BY <1>2
  <2> QED BY <1>2, <2>2, <2>3, <2>4, <2>5
<1>10. Downloading'
  BY <1>2, <1>7 DEF Downloading, NoList
<1>11. Linked(mem', dbs', s)
  <2>1. ToSet(s) \subseteq DOMAIN mem /\ \A k \in ToSet(s) : k \notin ToSet(t)
    BY <1>2, ElementsOf DEF Chained
  <2>2. ToSet(s) \subseteq DOMAIN mem' /\ \A k \in ToSet(s) : mem'[k].next = mem[k].next
    BY <1>7, <2>1
  <2> QED BY <1>1, <2>2, LinkedElsewhere DEF Chained
<1>12. ToSet(s) \cap ToSet(u) = {} /\ DOMAIN mem' = ToSet(s) \cup ToSet(u)
  BY <1>7, <1>9 DEF Chained
<1>13. \A i \in 1 .. Len(s) : Id(s[i])' = (i - 1) % DB_IDS
  BY <1>2, <1>7 DEF Chained, Id
<1>14. \A i \in 1 .. Len(u) : Id(u[i])' = (Len(s) + i - 1) % DB_IDS
  <2>1. \A i \in 1 .. Len(t) : Id(u[i])' = (Len(s) + i - 1) % DB_IDS
    BY <1>7, <1>9 DEF Chained, Id
  <2>2. Id(u[Len(t) + 1])' = (Len(s) + (Len(t) + 1) - 1) % DB_IDS
    <3>1. Id(n)' = db_id'
      BY <1>4, <1>7 DEF Id
    <3>2. Len(s) + (Len(t) + 1) - 1 = Len(s) + Len(t)
      BY <1>2
    <3> QED BY <1>3, <1>9, <3>1, <3>2
  <2>3. \A i \in 1 .. Len(u) : i \in 1 .. Len(t) \/ i = Len(t) + 1
    BY <1>2, <1>9
  <2> QED BY <2>1, <2>2, <2>3
<1>15. db_id' = Id(u[Len(u)])'
  BY <1>4, <1>7, <1>9 DEF Id
<1>16. Chained(s, u)'
  <2>1. Held' = db_list'
    BY <1>10 DEF Held
  <2>2. Len(s) + Len(u) <= MaxDbs /\ Len(u) # 0
    BY <1>1, <1>2, <1>9, HostStoreAssumption
  <2>3. db_current' = u[Len(u)]
    BY <1>1, <1>7, <1>9
  <2> QED BY <1>7, <1>8, <1>11, <1>12, <1>13, <1>14, <1>15, <2>1, <2>2, <2>3 DEF Chained
<1>17. StoreTypes'
  BY <1>1, <1>3, <1>7 DEF StoreTypes
<1> QED BY <1>7, <1>10, <1>16, <1>17

\* Temperatures go into the last database announced, while it has room.
LEMMA NewTemperaturesKeepsLists ==
    ASSUME StoreTypes, NEW s, NEW t, Chained(s, t), Downloading,
           NEW burst \in Bursts, NewTemperatures(burst)
    PROVE  StoreTypes' /\ Downloading' /\ Chained(s, t)'
<1> DEFINE c == db_current
           old == mem[c].value
           value == [old EXCEPT !.used = old.used + burst]
           new == [mem[c] EXCEPT !.value = value]
<1>1. /\ c # NULL /\ old.used + burst <= old.size /\ mem' = [mem EXCEPT ![c].value.used = @ + burst]
      /\ UNCHANGED <<dbs, db_incr_counter, db_list, db_current, db_id>>
  <2>1. /\ ~IsRefused(burst) /\ mem' = [mem EXCEPT ![c].value.used = @ + burst]
        /\ UNCHANGED <<dbs, db_incr_counter, db_list, db_current, db_id>>
    BY DEF NewTemperatures
  <2>2. c # NULL /\ ~(old.size < old.used + burst)
    BY <2>1 DEF IsRefused
  <2>3. c \in DOMAIN mem
    BY <2>2, ChainedLengths DEF Chained
  <2>4. old \in DbObjects /\ burst \in Nat
    BY <2>3, HostStoreAssumption DEF StoreTypes, IsMemory
  <2>5. old.size \in Nat /\ old.used \in Nat
    BY <2>4, HostStoreAssumption DEF DbObjects
  <2>6. old.used + burst <= old.size
    <3> DEFINE a == old.used
               b == old.size
    <3>1. a \in Nat /\ b \in Nat /\ ~(b < a + burst)
      BY <2>2, <2>5
    <3> HIDE DEF a, b
    <3>2. a + burst <= b
      BY <2>4, <3>1
    <3> QED BY <3>2 DEF a, b
  <2> QED BY <2>1, <2>2, <2>6
<1>2. c \in DOMAIN mem
  BY SMTT(20), <1>1, ChainedLengths DEF Chained
<1>3. mem[c] \in [value : DbObjects, next : Nodes \cup {NULL}] /\ burst \in Nat
  BY <1>2, HostStoreAssumption DEF StoreTypes, IsMemory
<1>4. value \in DbObjects /\ value.id = old.id
  <2>1. old \in [id : 0 .. DB_IDS - 1, size : Sizes, used : Nat]
    BY <1>3 DEF DbObjects
  <2>2. old.used + burst \in Nat
    BY <1>3, <2>1
  <2>3. value \in [id : 0 .. DB_IDS - 1, size : Sizes, used : Nat] /\ value.id = old.id
        /\ value.used = old.used + burst /\ value.size = old.size
    BY <2>1, <2>2
  <2> QED BY <1>1, <2>3 DEF DbObjects
<1>5. mem' = [mem EXCEPT ![c] = new]
  <2>1. new = [mem[c] EXCEPT !.value.used = @ + burst]
    BY <1>3
  <2> QED BY <1>1, <2>1
<1> HIDE DEF value
<1>6. new \in [value : DbObjects, next : Nodes \cup {NULL}] /\ new.value = value /\ new.next = mem[c].next
  BY <1>3, <1>4
<1> HIDE DEF new
<1>7. /\ DOMAIN mem' = DOMAIN mem
      /\ \A k \in DOMAIN mem : mem'[k] = IF k = c THEN new ELSE mem[k]
      /\ mem' = [k \in DOMAIN mem |-> mem'[k]]
  BY <1>2, <1>5
<1>8. \A k \in DOMAIN mem : mem'[k].next = mem[k].next /\ mem'[k].value.id = mem[k].value.id
  BY <1>4, <1>6, <1>7
<1>9. IsMemory(mem')
  <2>1. \A k \in DOMAIN mem : mem'[k] \in [value : DbObjects, next : Nodes \cup {NULL}]
    BY <1>6, <1>7 DEF StoreTypes, IsMemory
  <2> QED BY <1>7, <2>1 DEF StoreTypes, IsMemory
<1>10. Downloading' /\ Held' = Held
  BY <1>1 DEF Downloading, Held
<1>11. /\ s \in Seq(DOMAIN mem) /\ Len(s) \in Nat /\ ToSet(s) \subseteq DOMAIN mem
       /\ t \in Seq(DOMAIN mem) /\ Len(t) \in Nat /\ ToSet(t) \subseteq DOMAIN mem
  BY ChainedLengths, ElementsOf
<1>12. Linked(mem', dbs', s) /\ Linked(mem', Held', t)
  <2>1. Linked(mem, dbs, s) /\ Linked(mem, Held, t)
    BY DEF Chained
  <2>2. Linked(mem', dbs, s) /\ Linked(mem', Held, t)
    BY <1>7, <1>8, <1>11, <2>1, LinkedElsewhere
  <2> QED BY <1>1, <1>10, <2>2
<1>13. \A k \in DOMAIN mem : Id(k)' = Id(k)
  BY <1>8 DEF Id
<1>14. /\ \A i \in 1 .. Len(s) : Id(s[i])' = (i - 1) % DB_IDS
       /\ \A i \in 1 .. Len(t) : Id(t[i])' = (Len(s) + i - 1) % DB_IDS
       /\ Len(t) > 0 => db_id' = Id(t[Len(t)])'
  BY <1>1, <1>11, <1>13 DEF Chained
<1>15. Chained(s, t)'
  BY <1>1, <1>7, <1>12, <1>14 DEF Chained
<1>16. StoreTypes'
  BY <1>1, <1>9 DEF StoreTypes
<1> QED BY <1>10, <1>15, <1>16

\* After the download there is no list it fills.
LEMMA ReturnsHoldsNothing ==
    ASSUME DownloadReturns
    PROVE  ~Downloading' /\ Held' = list_new /\ db_current' = NULL /\ db_id' = 0
BY DEF DownloadReturns, Downloading, Held

\* A list without nodes is linked.
LEMMA NoNodes ==
    ASSUME NEW m
    PROVE  Linked(m, list_new, <<>>) /\ ToSet(<<>>) = {} /\ Len(<<>>) = 0
BY DEF Linked, ListOf, Distinct, ToSet

\* The databases of a download go behind those of the host.
LEMMA EndKeepsLists ==
    ASSUME StoreTypes, NEW s, NEW t, Chained(s, t), Counted(s), Downloading, DownloadEnds
    PROVE  /\ StoreTypes' /\ ~Downloading'
           /\ Chained(s \o t, <<>>)' /\ db_incr_counter' = CounterAfter(Len(s) + Len(t))
           /\ Len(s \o t) = Len(s) + Len(t)
           /\ Values(mem, dbs)' = [i \in 1 .. Len(s) + Len(t) |->
                                      mem[IF i <= Len(s) THEN s[i] ELSE t[i - Len(s)]].value]
<1> DEFINE joined == list_concat(mem, dbs, db_list)
           u == s \o t
           n == Len(s) + Len(t)
<1>1. /\ mem' = joined.mem /\ dbs' = joined.l /\ DownloadReturns
      /\ db_incr_counter' = IF db_list.size = 0 THEN db_incr_counter ELSE NextCounter
  BY DEF DownloadEnds
<1>2. /\ s \in Seq(DOMAIN mem) /\ Len(s) \in Nat /\ dbs.size = Len(s)
      /\ t \in Seq(DOMAIN mem) /\ Len(t) \in Nat /\ db_list.size = Len(t)
      /\ n \in Nat
  BY ChainedLengths
<1>3. IsMemory(mem) /\ Linked(mem, dbs, s) /\ Linked(mem, db_list, t) /\ ToSet(s) \cap ToSet(t) = {}
  BY DEF StoreTypes, Chained, Held
<1>4. /\ IsMemory(mem') /\ DOMAIN mem' = DOMAIN mem /\ Linked(mem', dbs', u)
      /\ \A k \in DOMAIN mem : mem'[k].value = mem[k].value
  <2>1. /\ IsMemory(joined.mem) /\ DOMAIN joined.mem = DOMAIN mem
        /\ Linked(joined.mem, joined.l, u)
        /\ \A k \in DOMAIN mem : joined.mem[k].value = mem[k].value
    <3>1. Joins(mem, u, joined)
      BY <1>3, Concat
    <3> HIDE DEF joined, u
    <3> QED BY <3>1 DEF Joins
  <2> HIDE DEF joined, u
  <2> QED BY <1>1, <2>1
<1> HIDE DEF joined
<1>5. /\ u \in Seq(DOMAIN mem) /\ Len(u) = n
      /\ \A i \in 1 .. n : u[i] = IF i <= Len(s) THEN s[i] ELSE t[i - Len(s)]
  BY <1>2, ConcatProperties
<1> HIDE DEF u
<1>6. DOMAIN mem' = ToSet(u)
  <2>1. ToSet(u) \subseteq DOMAIN mem
    BY <1>5, ElementsOf
  <2>2. ASSUME NEW k \in ToSet(s) PROVE k \in ToSet(u)
    <3>1. PICK i \in 1 .. Len(s) : s[i] = k
      BY <1>2, ElementsOf
    <3>2. i \in 1 .. n /\ u[i] = k
      BY <1>2, <1>5, <3>1
    <3> QED BY <1>5, <3>2, ElementsOf
  <2>3. ASSUME NEW k \in ToSet(t) PROVE k \in ToSet(u)
    <3>1. PICK i \in 1 .. Len(t) : t[i] = k
      BY <1>2, ElementsOf
    <3>2. Len(s) + i \in 1 .. n /\ ~(Len(s) + i <= Len(s)) /\ Len(s) + i - Len(s) = i
      BY <1>2
    <3>3. u[Len(s) + i] = k
      BY <1>5, <3>1, <3>2
    <3>4. u[Len(s) + i] \in ToSet(u)
      BY <1>5, <3>2, ElementsOf
    <3> QED BY <3>3, <3>4
  <2> QED BY <1>4, <2>1, <2>2, <2>3 DEF Chained
<1>7. ASSUME NEW i \in 1 .. n
      PROVE  Id(u[i])' = (i - 1) % DB_IDS
  <2>1. Id(u[i])' = Id(u[i])
    BY <1>4, <1>5 DEF Id
  <2>2. CASE i <= Len(s)
    BY SMTT(20), <1>2, <1>5, <2>1, <2>2 DEF Chained
  <2>3. CASE i > Len(s)
    <3>1. i - Len(s) \in 1 .. Len(t) /\ Len(s) + (i - Len(s)) - 1 = i - 1
      BY <1>2, <2>3
    <3>2. Id(t[i - Len(s)]) = (Len(s) + (i - Len(s)) - 1) % DB_IDS
      BY <3>1 DEF Chained
    <3>3. u[i] = t[i - Len(s)]
      BY <1>2, <1>5, <2>3
    <3> QED BY <2>1, <3>1, <3>2, <3>3
  <2> QED BY <1>2, <2>2, <2>3
<1>8. Chained(u, <<>>)'
  <2>1. Linked(mem', Held', <<>>) /\ ToSet(<<>>) = {} /\ Len(<<>>) = 0 /\ db_current' = NULL
    BY <1>1, ReturnsHoldsNothing, NoNodes
  <2>2. n <= MaxDbs /\ n + 0 = n
    BY <1>2 DEF Chained
  <2> HIDE DEF n
  <2> QED BY <1>4, <1>5, <1>6, <1>7, <2>1, <2>2 DEF Chained
<1>9. db_incr_counter' = CounterAfter(n)
  <2>1. CASE Len(t) = 0
    BY <1>1, <1>2, <2>1 DEF Counted
  <2>2. CASE Len(t) # 0
    <3>1. db_id = (Len(s) + Len(t) - 1) % DB_IDS
      BY <1>2, <2>2 DEF Chained
    <3>2. n # 0 /\ n - 1 = Len(s) + Len(t) - 1
      BY <1>2, <2>2
    <3> QED BY <1>1, <1>2, <2>2, <3>1, <3>2 DEF NextCounter, CounterAfter
  <2> QED BY <2>1, <2>2
<1>10. StoreTypes'
  <2>1. db_incr_counter' \in 0 .. DB_IDS
    BY <1>1, HostStoreAssumption DEF StoreTypes, NextCounter
  <2>2. db_id' \in 0 .. DB_IDS - 1
    BY <1>1, ReturnsHoldsNothing, HostStoreAssumption
  <2> QED BY <1>4, <2>1, <2>2 DEF StoreTypes
<1>11. Values(mem, dbs)' = [i \in 1 .. n |-> mem[IF i <= Len(s) THEN s[i] ELSE t[i - Len(s)]].value]
  <2>1. Values(mem', dbs') = [i \in 1 .. n |-> mem'[u[i]].value]
    BY <1>4, <1>5, LinkedSound DEF IsMemory
  <2>2. \A i \in 1 .. n : mem'[u[i]].value = mem[u[i]].value
    BY <1>4, <1>5
  <2> QED BY <1>5, <2>1, <2>2
<1>12. ~Downloading'
  BY <1>1, ReturnsHoldsNothing
<1> QED BY <1>5, <1>8, <1>9, <1>10, <1>11, <1>12 DEF u

\* What a failed download received is freed, and the databases of the host stay.
LEMMA FailureKeepsLists ==
    ASSUME StoreTypes, NEW s, NEW t, Chained(s, t), Downloading, DownloadFails
    PROVE  /\ StoreTypes' /\ ~Downloading' /\ Chained(s, <<>>)'
           /\ Values(mem, dbs)' = Values(mem, dbs)
<1>1. /\ mem' = list_delete(mem, db_list) /\ DownloadReturns /\ UNCHANGED <<dbs, db_incr_counter>>
  BY DEF DownloadFails
<1>2. IsMemory(mem) /\ Linked(mem, dbs, s) /\ Linked(mem, db_list, t)
  BY DEF StoreTypes, Chained, Held
<1>3. /\ IsMemory(mem') /\ DOMAIN mem' = DOMAIN mem \ ToSet(t)
      /\ \A k \in DOMAIN mem' : mem'[k] = mem[k]
  BY <1>1, <1>2, Delete
<1>4. DOMAIN mem' = ToSet(s)
  BY <1>3 DEF Chained
<1>5. Linked(mem', dbs, s)
  BY <1>2, <1>3, <1>4, LinkedElsewhere
<1>6. \A i \in 1 .. Len(s) : s[i] \in DOMAIN mem'
  BY <1>4, ElementsOf, ChainedLengths
<1>7. \A i \in 1 .. Len(s) : Id(s[i])' = (i - 1) % DB_IDS
  BY <1>3, <1>6 DEF Chained, Id
<1>8. Chained(s, <<>>)'
  <2>1. Linked(mem', Held', <<>>) /\ ToSet(<<>>) = {} /\ Len(<<>>) = 0 /\ db_current' = NULL
    BY <1>1, ReturnsHoldsNothing, NoNodes
  <2>2. Len(s) + 0 <= MaxDbs
    BY ChainedLengths, HostStoreAssumption DEF Chained
  <2> QED BY <1>1, <1>4, <1>5, <1>7, <2>1, <2>2 DEF Chained
<1>9. StoreTypes' /\ ~Downloading'
  BY <1>1, <1>3, ReturnsHoldsNothing, HostStoreAssumption DEF StoreTypes
<1>10. Values(mem, dbs)' = Values(mem, dbs)
  <2>1. /\ Values(mem, dbs) = [i \in 1 .. Len(s) |-> mem[s[i]].value]
        /\ Values(mem', dbs) = [i \in 1 .. Len(s) |-> mem'[s[i]].value]
    BY <1>2, <1>3, <1>5, LinkedSound DEF IsMemory
  <2> QED BY <1>1, <1>3, <1>6, <2>1
<1> QED BY <1>8, <1>9, <1>10

\* The end of the shell frees the databases of the host.
LEMMA CleanupKeepsLists ==
    ASSUME StoreTypes, NEW s, NEW t, Chained(s, t), ~Downloading,
           mem' = list_delete(mem, dbs), dbs' = list_new,
           UNCHANGED <<db_incr_counter, db_list, db_current, db_id>>
    PROVE  StoreTypes' /\ ~Downloading' /\ Chained(<<>>, <<>>)'
<1>1. IsMemory(mem) /\ Linked(mem, dbs, s) /\ Len(t) = 0 /\ t \in Seq(DOMAIN mem)
  BY ChainedLengths DEF StoreTypes, Chained
<1>2. t = <<>>
  BY <1>1
<1>3. IsMemory(mem') /\ DOMAIN mem' = {}
  <2>1. IsMemory(mem') /\ DOMAIN mem' = DOMAIN mem \ ToSet(s)
    BY <1>1, Delete
  <2> QED BY <1>2, <2>1, NoNodes DEF Chained
<1>4. ~Downloading' /\ Held' = list_new /\ db_current' = NULL
  BY <1>1 DEF Downloading, Held, Chained
<1>5. Chained(<<>>, <<>>)'
  <2>1. Linked(mem', dbs', <<>>) /\ Linked(mem', Held', <<>>) /\ ToSet(<<>>) = {} /\ Len(<<>>) = 0
    BY <1>4, NoNodes
  <2>2. 0 + 0 <= MaxDbs
    BY HostStoreAssumption
  <2> QED BY <1>3, <1>4, <2>1, <2>2 DEF Chained
<1> QED BY <1>3, <1>4, <1>5 DEF StoreTypes

-----------------------------------------------------------------------------
\* The shell

TimerTypes ==
    /\ elapsed \in BOOLEAN /\ ongoing \in BOOLEAN /\ armed \in BOOLEAN /\ handled \in BOOLEAN
    /\ at \in Places /\ attempt \in 0 .. MAXIMUM_ATTEMPTS - 1
    /\ outcome \in {"none", "ok", "failed"}

ControlTypes ==
    /\ place \in {"auto", "fgets", "command", "cleanup", "exited"}
    /\ command \in Exchanging \cup {"auto connect", None} /\ pending \in 0 .. 1
    /\ flags \subseteq {"SIG_EXIT", "SCRIPT_MODE", "EXIT_ON_ERR"}
    /\ serial_ctx \in BOOLEAN

InDownload == place = "command" /\ command = "download"

\* Before the first line there is no database to lose
Early == place = "auto" \/ command = "auto connect"

ShellInv ==
    /\ TimerTypes /\ ControlTypes /\ StoreTypes
    /\ Downloading <=> InDownload
    /\ Early => dbs.size = 0
    /\ \E s, t : Chained(s, t) /\ (place # "exited" => Counted(s))

\* The types of the timer are kept by all that is done to it.
LEMMA TimerKeepsTypes ==
    ASSUME TimerTypes,
           \/ ExchangeStep \/ CallExchange \/ ResetHandler \/ DeleteTimer \/ TimerElapses
           \/ \E result \in {"ok", "failed"} : TakeOutcome(result)
           \/ UNCHANGED timerVars
    PROVE  TimerTypes'
<1> USE RtoTimerAssumption DEF TimerTypes, Places
<1>1. CASE RtoTimerStart \/ RtoTimerArm
  BY <1>1 DEF RtoTimerStart, RtoTimerArm, ArmTimer
<1>2. CASE LookAtTimer
  BY <1>2 DEF LookAtTimer, NextAttempt
<1>3. CASE GetChar
  BY <1>3 DEF GetChar
<1>4. CASE TestElapsed \/ CallPause
  BY <1>4 DEF TestElapsed, CallPause, NextAttempt
<1>5. CASE CallExchange
  BY <1>5 DEF CallExchange
<1>6. CASE ResetHandler \/ DeleteTimer
  BY <1>6 DEF ResetHandler, DeleteTimer
<1>7. CASE TimerElapses
  BY <1>7 DEF TimerElapses, WokenBySignal
<1>8. ASSUME NEW result \in {"ok", "failed"}, TakeOutcome(result)
      PROVE  TimerTypes'
  BY <1>8 DEF TakeOutcome
<1>9. CASE UNCHANGED timerVars
  BY <1>9 DEF timerVars
<1> QED BY <1>1, <1>2, <1>3, <1>4, <1>5, <1>6, <1>7, <1>8, <1>9 DEF ExchangeStep

\* Every step of the shell does one of these to its timer.
LEMMA TimerSteps ==
    ASSUME [Next]_vars
    PROVE  \/ ExchangeStep \/ CallExchange \/ ResetHandler \/ DeleteTimer \/ TimerElapses
           \/ \E result \in {"ok", "failed"} : TakeOutcome(result)
           \/ UNCHANGED timerVars
<1>1. CASE Line
  BY <1>1 DEF Line, RunLocal, Exit, Disconnect, ConnectFails, Connect, Send, Query, Download, Begin
<1>2. CASE InCommand
  BY <1>2 DEF InCommand, InExchange, ExchangeFailed, Answer, Finished, DownloadPacket,
              DownloadEnd, DownloadRefuses
<1>3. CASE EndOfInput \/ CommunicationCleanup \/ ShellCleanup \/ Signal
  BY <1>3 DEF EndOfInput, CommunicationCleanup, ShellCleanup, Signal
<1>4. CASE UNCHANGED vars
  BY <1>4 DEF vars
<1> QED BY <1>1, <1>2, <1>3, <1>4 DEF Next

\* A command that returns leads to the next line, to the cleanup or to the exit.
LEMMA ReturnTypes ==
    ASSUME ControlTypes, NEW ret, Return(ret), serial_ctx' \in BOOLEAN,
           flags' \subseteq {"SIG_EXIT", "SCRIPT_MODE", "EXIT_ON_ERR"}
    PROVE  ControlTypes'
<1>1. place' \in {"auto", "fgets", "command", "cleanup", "exited"}
  BY DEF Return
<1>2. command' = None /\ pending' = 0
  BY DEF Return
<1>3. pending' \in 0 .. 1
  BY <1>2
<1> QED BY <1>1, <1>2, <1>3 DEF ControlTypes

\* The types of the state of the shell are kept.
LEMMA ControlKeepsTypes ==
    ASSUME ControlTypes, [Next]_vars
    PROVE  ControlTypes'
<1>1. CASE RunLocal \/ Exit \/ Disconnect \/ ConnectFails
  <2>1. flags' \subseteq {"SIG_EXIT", "SCRIPT_MODE", "EXIT_ON_ERR"} /\ serial_ctx' \in BOOLEAN
    BY <1>1 DEF RunLocal, Exit, Disconnect, ConnectFails, ControlTypes
  <2>2. \E ret \in {0, 1, 2, 3, 127} : Return(ret)
    BY <1>1 DEF RunLocal, Exit, Disconnect, ConnectFails
  <2> QED BY <2>1, <2>2, ReturnTypes
<1>2. CASE Connect
  <2>1. command' \in Exchanging \cup {"auto connect", None}
    BY <1>2 DEF Connect, Exchanging
  <2>2. pending' \in 0 .. 1
    <3>1. pending' = 0
      BY <1>2 DEF Connect
    <3> QED BY <3>1
  <2> QED BY <1>2, <2>1, <2>2 DEF Connect, ControlTypes
<1>3. ASSUME NEW cmd \in Exchanging, NEW answers \in 0 .. 1, Begin(cmd, answers)
      PROVE  ControlTypes'
  BY <1>3 DEF Begin, ControlTypes
<1>4. CASE Send \/ Query \/ Download
  <2>1. Begin("send", 0) \/ Begin("query", 1) \/ Begin("download", 1)
    BY <1>4 DEF Send, Query, Download
  <2> QED BY <1>3, <2>1 DEF Exchanging
<1>5. CASE InExchange \/ DownloadPacket \/ CommunicationCleanup \/ Signal
  BY <1>5 DEF InExchange, DownloadPacket, CommunicationCleanup, Signal, shellVars, ControlTypes
<1>6. CASE ExchangeFailed \/ Finished \/ DownloadEnd \/ DownloadRefuses
  <2>1. \E ret \in {0, 2, 3} : Ends(ret)
    <3>1. CASE Finished
      <4>1. \E ret \in IF command = "query" THEN {0, 2, 3} ELSE {0} : Ends(ret)
        BY <3>1 DEF Finished
      <4> QED BY <4>1
    <3> QED BY <1>6, <3>1 DEF ExchangeFailed, DownloadEnd, DownloadRefuses
  <2>2. \E ret \in {0, 2, 3} : Return(ret) /\ UNCHANGED <<flags, serial_ctx>>
    BY <2>1 DEF Ends
  <2> QED BY <2>2, ReturnTypes DEF ControlTypes
<1>7. CASE Answer
  <2>1. pending \in 0 .. 1 /\ pending > 0 /\ pending' = pending - 1
    BY <1>7 DEF Answer, ControlTypes
  <2>2. pending' \in 0 .. 1
    BY <2>1
  <2> QED BY <1>7, <2>2 DEF Answer, ControlTypes
<1>8. CASE EndOfInput \/ ShellCleanup
  BY <1>8 DEF EndOfInput, ShellCleanup, ControlTypes
<1>9. CASE UNCHANGED vars
  BY <1>9 DEF vars, shellVars, ControlTypes
<1> QED BY <1>1, <1>2, <1>4, <1>5, <1>6, <1>7, <1>8, <1>9 DEF Next, Line, InCommand

\* What a step that changes no list may do to the control of the shell
ControlStands ==
    /\ InDownload' <=> InDownload
    /\ Early' => dbs.size = 0
    /\ place = "exited" => place' = "exited"
    /\ place' = "exited" => place = "exited" \/ dbs.size = 0

\* The step is one of the store, or it changes nothing of it
StoreStep == [Store!StoreNext]_(Store!storeVars)

\* A step that changes no list keeps the invariant; the shell exits at such a step
\* only while it holds no database.
LEMMA ListsStand ==
    ASSUME ShellInv, [Next]_vars, UNCHANGED storeVars, ControlStands
    PROVE  ShellInv' /\ StoreStep
<1>1. TimerTypes' /\ ControlTypes' /\ StoreTypes'
  BY TimerKeepsTypes, TimerSteps, ControlKeepsTypes DEF ShellInv, StoreTypes, storeVars
<1>2. PICK s, t : Chained(s, t) /\ (place # "exited" => Counted(s))
  BY DEF ShellInv
<1>3. Chained(s, t)'
  BY <1>2, ChainedAfter DEF storeVars, Held, Downloading
<1>4. place' # "exited" => Counted(s)'
  BY <1>2 DEF ControlStands, storeVars, Counted
<1>5. (Downloading <=> InDownload)' /\ (Early => dbs.size = 0)'
  BY DEF ShellInv, ControlStands, storeVars, Downloading
<1>6. ShellInv'
  BY <1>1, <1>3, <1>4, <1>5 DEF ShellInv
<1>7. UNCHANGED <<Values(mem, dbs), db_incr_counter>>
  BY DEF storeVars
<1>8. CASE UNCHANGED (place = "exited")
  <2>1. UNCHANGED <<Values(mem, dbs), db_incr_counter, place = "exited">>
    BY <1>7, <1>8
  <2> QED BY <1>6, <2>1 DEF StoreStep, Store!storeVars
<1>9. CASE ~UNCHANGED (place = "exited")
  <2>1. place' = "exited" /\ dbs.size = 0
    BY <1>9 DEF ControlStands
  <2>2. Values(mem, dbs) = <<>>
    BY <2>1 DEF Values
  <2>3. Store!Close
    BY <1>7, <2>1, <2>2 DEF Store!Close
  <2> QED BY <1>6, <2>3 DEF StoreStep, Store!StoreNext
<1> QED BY <1>8, <1>9

\* A command other than download that returns changes no list.
LEMMA ReturnStands ==
    ASSUME ShellInv, NEW ret, Return(ret), ~InDownload, place # "exited"
    PROVE  ControlStands
BY DEF ControlStands, ShellInv, Return, InDownload, Early, None

\* The lines that start no download, and the commands that are none, change no list.
LEMMA OtherStepsStand ==
    ASSUME ShellInv, [Next]_vars, ~Download, ~DownloadPacket, ~DownloadEnd, ~DownloadRefuses,
           ~ShellCleanup, ~(ExchangeFailed /\ Downloading)
    PROVE  UNCHANGED storeVars /\ ControlStands
<1> USE DEF ShellInv
<1>1. CASE RunLocal \/ Exit \/ Disconnect \/ ConnectFails
  <2>1. /\ UNCHANGED storeVars /\ ~InDownload /\ place # "exited"
        /\ \E ret \in {0, 1, 2, 3, 127} : Return(ret)
    BY <1>1 DEF RunLocal, Exit, Disconnect, ConnectFails, AtPrompt, InDownload
  <2> QED BY <2>1, ReturnStands
<1>2. CASE Connect
  BY <1>2 DEF Connect, ControlStands, InDownload, Early
<1>3. CASE Send \/ Query
  BY <1>3 DEF Send, Query, Begin, AtPrompt, ControlStands, InDownload, Early
<1>4. CASE InExchange \/ CommunicationCleanup \/ Signal
  BY <1>4 DEF InExchange, CommunicationCleanup, Signal, shellVars, ControlStands, InDownload, Early
<1>5. CASE ExchangeFailed /\ ~Downloading
  <2>1. UNCHANGED storeVars /\ ~InDownload /\ place # "exited" /\ Return(3)
    BY <1>5 DEF ExchangeFailed, Ends
  <2> QED BY <2>1, ReturnStands
<1>6. CASE Answer
  BY <1>6 DEF Answer, ControlStands, InDownload, Early
<1>7. CASE Finished
  <2>1. /\ UNCHANGED storeVars /\ ~InDownload /\ place # "exited"
        /\ \E ret \in IF command = "query" THEN {0, 2, 3} ELSE {0} : Return(ret)
    BY <1>7 DEF Finished, Ends, InDownload
  <2> QED BY <2>1, ReturnStands
<1>8. CASE EndOfInput
  BY <1>8 DEF EndOfInput, AtPrompt, ControlStands, InDownload, Early
<1>9. CASE UNCHANGED vars
  BY <1>9 DEF vars, shellVars, ControlStands, InDownload, Early
<1> QED BY <1>1, <1>2, <1>3, <1>4, <1>5, <1>6, <1>7, <1>8, <1>9 DEF Next, Line, InCommand

\* The types after a step.
LEMMA TypesAfter ==
    ASSUME ShellInv, [Next]_vars
    PROVE  TimerTypes' /\ ControlTypes'
BY TimerKeepsTypes, TimerSteps, ControlKeepsTypes DEF ShellInv

\* The values of the databases of the host are those of their nodes.
LEMMA ValuesOf ==
    ASSUME StoreTypes, NEW s, NEW t, Chained(s, t)
    PROVE  Values(mem, dbs) = [i \in 1 .. Len(s) |-> mem[s[i]].value]
BY LinkedSound DEF StoreTypes, Chained, IsMemory

\* A download that begins changes nothing of the store.
LEMMA DownloadStep ==
    ASSUME ShellInv, [Next]_vars, Download
    PROVE  ShellInv' /\ StoreStep
<1>1. /\ place = "fgets" /\ place' = "command" /\ command' = "download" /\ DownloadBegin
  BY DEF Download, Begin, AtPrompt
<1>2. PICK s, t : Chained(s, t) /\ Counted(s)
  BY <1>1 DEF ShellInv
<1>3. ~Downloading
  BY <1>1 DEF ShellInv, InDownload
<1>4. Chained(s, t)' /\ Downloading'
  BY <1>2, <1>3, <1>1, BeginKeepsLists
<1>5. StoreTypes' /\ Counted(s)' /\ UNCHANGED <<mem, dbs, db_incr_counter>>
  BY <1>1, <1>2 DEF ShellInv, StoreTypes, Counted, DownloadBegin
<1>6. ShellInv'
  BY <1>1, <1>4, <1>5, TypesAfter DEF ShellInv, InDownload, Early
<1> QED BY <1>1, <1>5, <1>6 DEF StoreStep, Store!storeVars

\* Packets of a download change the databases of the host in nothing.
LEMMA DownloadPacketStep ==
    ASSUME ShellInv, [Next]_vars, DownloadPacket
    PROVE  ShellInv' /\ StoreStep
<1>1. /\ place = "command" /\ command = "download" /\ UNCHANGED shellVars
      /\ \/ \E size \in Sizes : NewDb(size)
         \/ \E burst \in Bursts : NewTemperatures(burst)
  BY DEF DownloadPacket, Received
<1>2. PICK s, t : Chained(s, t) /\ Counted(s)
  BY <1>1 DEF ShellInv
<1>3. Downloading /\ StoreTypes
  BY <1>1 DEF ShellInv, InDownload
<1>4. StoreTypes' /\ Downloading' /\ \E u : Chained(s, u)'
  BY <1>1, <1>2, <1>3, NewDbKeepsLists, NewTemperaturesKeepsLists
<1>5. UNCHANGED <<dbs, db_incr_counter>>
  BY <1>1 DEF NewDb, NewTemperatures
<1>6. PICK u : Chained(s, u)'
  BY <1>4
<1>7. ShellInv'
  <2>1. Counted(s)' /\ (Downloading <=> InDownload)' /\ (Early => dbs.size = 0)'
    BY <1>1, <1>2, <1>4, <1>5 DEF Counted, InDownload, Early, shellVars
  <2> QED BY <1>4, <1>6, <2>1, TypesAfter DEF ShellInv
<1>8. \A k \in ToSet(s) : mem'[k].value = mem[k].value
  <2>1. s \in Seq(DOMAIN mem) /\ t \in Seq(DOMAIN mem) /\ ToSet(s) \subseteq DOMAIN mem
    BY <1>2, ChainedLengths, ElementsOf
  <2>2. ASSUME NEW size \in Sizes, NewDb(size)
        PROVE  \A k \in DOMAIN mem : mem'[k].value = mem[k].value
    BY <1>2, <1>3, <2>2, NewDbKeepsLists
  <2>3. ASSUME NEW burst \in Bursts, NewTemperatures(burst), NEW k \in ToSet(s)
        PROVE  mem'[k].value = mem[k].value
    <3>1. mem' = [mem EXCEPT ![db_current].value.used = @ + burst] /\ db_current # NULL
      BY <2>3 DEF NewTemperatures, IsRefused
    <3>2. db_current # k
      <4>1. db_current = t[Len(t)] /\ Len(t) # 0
        BY <1>2, <3>1 DEF Chained
      <4>2. db_current \in ToSet(t)
        BY <2>1, <4>1, ElementsOf
      <4> QED BY <1>2, <2>3, <4>2 DEF Chained
    <3> QED BY <2>1, <2>3, <3>1, <3>2
  <2> QED BY <1>1, <2>1, <2>2, <2>3
<1>9. UNCHANGED Values(mem, dbs)
  <2>1. /\ Values(mem, dbs) = [i \in 1 .. Len(s) |-> mem[s[i]].value]
        /\ Values(mem', dbs') = [i \in 1 .. Len(s) |-> mem'[s[i]].value]
    <3>1. IsMemory(mem) /\ Linked(mem, dbs, s) /\ IsMemory(mem') /\ Linked(mem', dbs', s)
      BY <1>2, <1>3, <1>4, <1>6 DEF StoreTypes, Chained
    <3> QED BY <3>1, LinkedSound DEF IsMemory
  <2>2. \A i \in 1 .. Len(s) : s[i] \in ToSet(s)
    BY <1>2, ChainedLengths, ElementsOf
  <2> QED BY <1>8, <2>1, <2>2
<1> QED BY <1>1, <1>5, <1>7, <1>9 DEF StoreStep, Store!storeVars, shellVars

\* What is behind the first of two sequences is the second one.
LEMMA SecondPart ==
    ASSUME NEW T, NEW v \in Seq(T), NEW w \in Seq(T), Len(w) > 0
    PROVE  SubSeq(v \o w, Len(v) + 1, Len(v \o w)) = w
<1> DEFINE m == Len(v) + 1
           n == Len(v) + Len(w)
<1>1. /\ Len(v) \in Nat /\ Len(w) \in Nat /\ Len(v \o w) = n
      /\ m \in Len(v) + 1 .. Len(v) + Len(w) /\ n \in Len(v) + 1 .. Len(v) + Len(w)
      /\ m - Len(v) = 1 /\ n - Len(v) = Len(w)
  OBVIOUS
<1> HIDE DEF m, n
<1>2. SubSeq(v \o w, m, n) = SubSeq(w, m - Len(v), n - Len(v))
  BY <1>1, SubSeqOfConcat2
<1>3. SubSeq(w, 1, Len(w)) = w
  BY SubSeqFull
<1> QED BY <1>1, <1>2, <1>3 DEF m

\* The end of a download adds its databases to the store, or nothing if it has none.
LEMMA DownloadEndStep ==
    ASSUME ShellInv, [Next]_vars, DownloadEnd
    PROVE  ShellInv' /\ StoreStep
<1>1. /\ place = "command" /\ command = "download" /\ DownloadEnds /\ Return(0)
      /\ UNCHANGED <<flags, serial_ctx>>
  BY DEF DownloadEnd, Received, Ends
<1>2. PICK s, t : Chained(s, t) /\ Counted(s)
  BY <1>1 DEF ShellInv
<1>3. Downloading /\ StoreTypes
  BY <1>1 DEF ShellInv, InDownload
<1> DEFINE n == Len(s)
           p == Len(t)
           v == Values(mem, dbs)
           w == [i \in 1 .. p |-> mem[t[i]].value]
<1>4. /\ StoreTypes' /\ ~Downloading' /\ Chained(s \o t, <<>>)' /\ db_incr_counter' = CounterAfter(n + p)
      /\ Len(s \o t) = n + p
      /\ Values(mem, dbs)' = [i \in 1 .. n + p |-> mem[IF i <= n THEN s[i] ELSE t[i - n]].value]
  BY <1>1, <1>2, <1>3, EndKeepsLists
<1>5. place' \in {"cleanup", "fgets"} /\ command' = None
  BY <1>1 DEF Return
<1>6. ShellInv'
  <2>1. Counted(s \o t)'
    BY <1>4 DEF Counted
  <2>2. (Downloading <=> InDownload)' /\ (Early => dbs.size = 0)'
    BY <1>4, <1>5 DEF InDownload, Early, None
  <2> QED BY <1>4, <2>1, <2>2, TypesAfter DEF ShellInv
<1>7. /\ s \in Seq(DOMAIN mem) /\ n \in Nat /\ t \in Seq(DOMAIN mem) /\ p \in Nat
      /\ db_list.size = p
  BY <1>2, <1>3, ChainedLengths
<1>8. \A k \in DOMAIN mem : mem[k].value \in DbObjects
  BY <1>3 DEF StoreTypes, IsMemory
<1>9. v = [i \in 1 .. n |-> mem[s[i]].value]
  BY <1>2, <1>3, ValuesOf
<1>10. v \in Seq(DbObjects) /\ Len(v) = n /\ w \in Seq(DbObjects) /\ Len(w) = p
  <2>1. /\ \A i \in 1 .. n : mem[s[i]].value \in DbObjects
        /\ \A i \in 1 .. p : mem[t[i]].value \in DbObjects
    BY <1>7, <1>8
  <2> HIDE DEF n, p
  <2>2. v \in [1 .. n -> DbObjects] /\ w \in [1 .. p -> DbObjects]
    BY <1>9, <2>1
  <2> QED BY <1>7, <2>2
<1>11. v' = v \o w
  <2>1. /\ v \o w \in Seq(DbObjects) /\ Len(v \o w) = n + p
        /\ \A i \in 1 .. n + p : (v \o w)[i] = IF i <= n THEN v[i] ELSE w[i - n]
    <3> HIDE DEF n, p, v, w
    <3> QED BY <1>10, ConcatProperties
  <2>2. \A i \in 1 .. n + p : (v \o w)[i] = v'[i]
    <3> SUFFICES ASSUME NEW i \in 1 .. n + p PROVE (v \o w)[i] = v'[i]
      OBVIOUS
    <3>1. CASE i <= n
      <4>1. v[i] = mem[s[i]].value /\ v'[i] = mem[s[i]].value
        BY <1>4, <1>7, <1>9, <3>1
      <4> QED BY <2>1, <3>1, <4>1
    <3>2. CASE i > n
      <4>1. i - n \in 1 .. p /\ ~(i <= n)
        BY <1>7, <3>2
      <4>2. w[i - n] = mem[t[i - n]].value /\ v'[i] = mem[t[i - n]].value
        BY <1>4, <4>1
      <4> QED BY <2>1, <4>1, <4>2
    <3>3. i <= n \/ i > n
      BY <1>7
    <3> HIDE DEF n, p, v, w
    <3> QED BY <3>1, <3>2, <3>3
  <2>3. v' = [i \in 1 .. n + p |-> v'[i]]
    BY <1>4
  <2>4. v \o w = [i \in 1 .. n + p |-> (v \o w)[i]]
    BY <2>1
  <2> HIDE DEF v, w, n, p
  <2> QED BY <2>2, <2>3, <2>4
<1>12. CASE p = 0
  <2>1. w = <<>>
    BY <1>12
  <2>2. v' = v
    <3> HIDE DEF v, w
    <3> QED BY <1>10, <1>11, <2>1
  <2>3. db_incr_counter' = db_incr_counter
    BY <1>1, <1>7, <1>12 DEF DownloadEnds
  <2>4. UNCHANGED <<Values(mem, dbs), db_incr_counter, place = "exited">>
    BY <1>1, <1>5, <2>2, <2>3
  <2> QED BY <1>6, <2>4 DEF StoreStep, Store!storeVars
<1>13. CASE p # 0
  <2>1. SubSeq(v', Len(v) + 1, Len(v')) = w
    <3> HIDE DEF v, w, n, p
    <3>1. Len(w) > 0
      BY <1>7, <1>10, <1>13
    <3> QED BY <1>10, <1>11, <3>1, SecondPart
  <2>2. ASSUME NEW i \in 1 .. p
        PROVE  /\ w[i] \in DbObjects
               /\ w[i].id = (db_incr_counter + i - 1) % DB_IDS
    <3>1. w[i] = mem[t[i]].value /\ w[i] \in DbObjects
      BY <1>7, <1>8
    <3>2. Id(t[i]) = (n + i - 1) % DB_IDS
      BY <1>2 DEF Chained
    <3>3. (i - 1 + CounterAfter(n)) % DB_IDS = (n + (i - 1)) % DB_IDS
      BY <1>7, NextId
    <3>4. i - 1 + CounterAfter(n) = db_incr_counter + i - 1 /\ n + (i - 1) = n + i - 1
      <4>1. db_incr_counter \in Nat /\ CounterAfter(n) = db_incr_counter
        BY <1>2, <1>3, HostStoreAssumption DEF StoreTypes, Counted
      <4> QED BY <1>7, <4>1
    <3> QED BY <3>1, <3>2, <3>3, <3>4 DEF Id
  <2>3. db_incr_counter' = w[p].id + 1
    <3>1. db_incr_counter' = db_id + 1 /\ db_id = Id(t[p])
      BY <1>1, <1>2, <1>7, <1>13 DEF DownloadEnds, NextCounter, Chained
    <3> QED BY <1>7, <1>13, <3>1 DEF Id
  <2>4. w # <<>> /\ DOMAIN w = 1 .. p /\ Len(w) = p
    BY <1>7, <1>10, <1>13
  <2>5. Store!Added = w
    BY <2>1 DEF Store!Added
  <2> HIDE DEF w
  <2>6. Store!IsBatch(w)
    BY <2>2, <2>4 DEF Store!IsBatch, Store!Dbs, DbObjects
  <2>7. Store!Download
    <3>1. ~(place = "exited") /\ UNCHANGED (place = "exited")
      BY <1>1, <1>5
    <3> QED BY <1>11, <2>3, <2>4, <2>5, <2>6, <3>1 DEF Store!Download
  <2> QED BY <1>6, <2>7 DEF StoreStep, Store!StoreNext
<1> QED BY <1>12, <1>13

\* A download that fails changes nothing of the store.
LEMMA DownloadFailsStep ==
    ASSUME ShellInv, [Next]_vars, DownloadRefuses \/ (ExchangeFailed /\ Downloading)
    PROVE  ShellInv' /\ StoreStep
<1>1. /\ place = "command" /\ Downloading /\ DownloadFails /\ Return(3)
      /\ UNCHANGED <<flags, serial_ctx>>
  BY DEF DownloadRefuses, ExchangeFailed, Received, Ends, ShellInv, InDownload
<1>2. PICK s, t : Chained(s, t) /\ Counted(s)
  BY <1>1 DEF ShellInv
<1>3. StoreTypes /\ command = "download"
  BY <1>1 DEF ShellInv, InDownload
<1>4. /\ StoreTypes' /\ ~Downloading' /\ Chained(s, <<>>)'
      /\ Values(mem, dbs)' = Values(mem, dbs)
  BY <1>1, <1>2, <1>3, FailureKeepsLists
<1>5. place' \in {"cleanup", "fgets"} /\ command' = None
  BY <1>1, <1>3 DEF Return
<1>6. UNCHANGED db_incr_counter
  BY <1>1 DEF DownloadFails
<1>7. ShellInv'
  <2>1. Counted(s)' /\ (Downloading <=> InDownload)' /\ (Early => dbs.size = 0)'
    BY <1>2, <1>4, <1>5, <1>6 DEF Counted, InDownload, Early, None
  <2> QED BY <1>4, <2>1, TypesAfter DEF ShellInv
<1>8. UNCHANGED <<Values(mem, dbs), db_incr_counter, place = "exited">>
  BY <1>1, <1>4, <1>5, <1>6
<1> QED BY <1>7, <1>8 DEF StoreStep, Store!storeVars

\* The exit empties the store.
LEMMA ShellCleanupStep ==
    ASSUME ShellInv, [Next]_vars, ShellCleanup
    PROVE  ShellInv' /\ StoreStep
<1>1. /\ place = "cleanup" /\ place' = "exited" /\ UNCHANGED command
      /\ mem' = list_delete(mem, dbs) /\ dbs' = list_new
      /\ UNCHANGED <<db_incr_counter, db_list, db_current, db_id>>
  BY DEF ShellCleanup
<1>2. PICK s, t : Chained(s, t)
  BY DEF ShellInv
<1>3. StoreTypes /\ ~Downloading
  BY <1>1 DEF ShellInv, InDownload
<1>4. StoreTypes' /\ ~Downloading' /\ Chained(<<>>, <<>>)'
  BY <1>1, <1>2, <1>3, CleanupKeepsLists
<1>5. dbs'.size = 0
  BY <1>1 DEF list_new
<1>6. ShellInv'
  BY <1>1, <1>4, <1>5, TypesAfter DEF ShellInv, InDownload
<1>7. Values(mem', dbs') = <<>>
  BY <1>5 DEF Values
<1>8. Store!Close
  BY <1>1, <1>7 DEF Store!Close
<1> QED BY <1>6, <1>8 DEF StoreStep, Store!StoreNext

\* The shell starts with empty lists.
LEMMA ShellInvInit == Init => ShellInv /\ Store!StoreInit
<1> SUFFICES ASSUME Init PROVE ShellInv /\ Store!StoreInit
  OBVIOUS
<1>1. /\ mem = <<>> /\ dbs = list_new /\ db_list = NoList
      /\ db_incr_counter = 0 /\ db_current = NULL /\ db_id = 0
      /\ place \in {"auto", "fgets"} /\ command = None /\ pending = 0 /\ serial_ctx = FALSE
      /\ flags \in {{}, {"SCRIPT_MODE", "EXIT_ON_ERR"}}
  BY DEF Init, StoreInit
<1>2. TimerTypes
  <2>1. attempt \in 0 .. MAXIMUM_ATTEMPTS - 1
    <3>1. attempt = 0
      BY DEF Init, TimerInit
    <3> QED BY <3>1, RtoTimerAssumption
  <2> QED BY <2>1 DEF Init, TimerInit, TimerTypes, Places
<1>3. ControlTypes
  <2>1. pending \in 0 .. 1
    <3>1. pending = 0
      BY <1>1
    <3> QED BY <3>1
  <2> QED BY <1>1, <2>1 DEF ControlTypes
<1>4. IsMemory(mem)
  BY <1>1 DEF IsMemory
<1>5. ~Downloading /\ ~InDownload /\ Held = list_new
  BY <1>1 DEF Downloading, InDownload, Held
<1>6. Chained(<<>>, <<>>) /\ Counted(<<>>) /\ dbs.size = 0
  <2>1. 0 + 0 <= MaxDbs
    BY HostStoreAssumption
  <2>2. DOMAIN mem = {}
    BY <1>1
  <2> QED BY <1>1, <1>5, <2>1, <2>2, NoNodes DEF Chained, Counted, CounterAfter, list_new
<1>7. StoreTypes
  BY <1>1, <1>4, HostStoreAssumption DEF StoreTypes
<1>8. Values(mem, dbs) = <<>>
  BY <1>6 DEF Values
<1>9. Store!StoreInit
  BY <1>1, <1>8 DEF Store!StoreInit
<1> QED BY <1>2, <1>3, <1>5, <1>6, <1>7, <1>9 DEF ShellInv

\* Every step keeps the invariant, and is one of the store or none.
LEMMA ShellInvStep == ShellInv /\ [Next]_vars => ShellInv' /\ StoreStep
<1> SUFFICES ASSUME ShellInv, [Next]_vars PROVE ShellInv' /\ StoreStep
  OBVIOUS
<1>1. CASE Download
  BY <1>1, DownloadStep
<1>2. CASE DownloadPacket
  BY <1>2, DownloadPacketStep
<1>3. CASE DownloadEnd
  BY <1>3, DownloadEndStep
<1>4. CASE DownloadRefuses \/ (ExchangeFailed /\ Downloading)
  BY <1>4, DownloadFailsStep
<1>5. CASE ShellCleanup
  BY <1>5, ShellCleanupStep
<1>6. CASE /\ ~Download /\ ~DownloadPacket /\ ~DownloadEnd /\ ~DownloadRefuses
           /\ ~ShellCleanup /\ ~(ExchangeFailed /\ Downloading)
  BY <1>6, OtherStepsStand, ListsStand
<1> QED BY <1>1, <1>2, <1>3, <1>4, <1>5, <1>6

\* Whatever the downloads, their failures and the end of the shell do, the nodes
\* in use are those of two chains that share none, with ids that follow one another.
THEOREM ShellInvariant == Spec => []ShellInv
<1>1. Init => ShellInv
  BY ShellInvInit
<1>2. ShellInv /\ [Next]_vars => ShellInv'
  BY ShellInvStep
<1> QED BY <1>1, <1>2, PTL DEF Spec

\* TypeOK is invariant; so no database holds more temperatures than its size, the
\* bound of the buffer that temperature_register_bulk fills.
THEOREM ShellTypes == Spec => []TypeOK
<1>1. ShellInv => TypeOK
  <2> SUFFICES ASSUME ShellInv PROVE TypeOK
    OBVIOUS
  <2>1. PICK s, t : Chained(s, t)
    BY DEF ShellInv
  <2>2. /\ s \in Seq(Nodes) /\ Len(s) \in Nat /\ t \in Seq(Nodes) /\ Len(t) \in Nat
        /\ Len(s) <= MaxDbs /\ Len(t) <= MaxDbs
    <3>1. DOMAIN mem \subseteq Nodes
      BY DEF ShellInv, StoreTypes, IsMemory
    <3> QED BY <2>1, <3>1, ChainedLengths, HostStoreAssumption DEF Chained
  <2>3. ASSUME NEW u \in Seq(Nodes), Len(u) \in Nat, Len(u) <= MaxDbs
        PROVE  ListOf(u) \in [head : Nodes \cup {NULL}, tail : Nodes \cup {NULL}, size : 0 .. MaxDbs]
    BY <2>3, HostStoreAssumption DEF ListOf, list_new
  <2>4. dbs = ListOf(s) /\ Held = ListOf(t)
    BY <2>1 DEF Chained, Linked
  <2>5. \A l \in Lists : l \in [head : Nodes \cup {NULL}, tail : Nodes \cup {NULL}, size : 0 .. MaxDbs]
    BY <2>2, <2>3, <2>4 DEF Lists, Held
  <2>6. \A n \in DOMAIN mem :
          /\ mem[n].next \in Nodes \cup {NULL}
          /\ mem[n].value \in [id : 0 .. DB_IDS - 1, size : Sizes, used : Nat]
          /\ mem[n].value.used <= mem[n].value.size
    BY DEF ShellInv, StoreTypes, IsMemory, DbObjects
  <2>7. db_current \in Nodes \cup {NULL}
    BY <2>1, <2>2 DEF Chained
  <2>8. DOMAIN mem \subseteq Nodes /\ db_incr_counter \in 0 .. DB_IDS /\ db_id \in 0 .. DB_IDS - 1
    BY DEF ShellInv, StoreTypes, IsMemory
  <2> QED BY <2>5, <2>6, <2>7, <2>8 DEF TypeOK, ShellInv, TimerTypes, ControlTypes
<1> QED BY <1>1, ShellInvariant, PTL

\* The two lists of the shell can always be walked through and added to, and what
\* a failed download leaves is neither a leak nor a pointer to a freed node.
THEOREM ListsStaySound == Spec => []ListsSound
<1>1. ShellInv => ListsSound
  <2> SUFFICES ASSUME ShellInv PROVE ListsSound
    OBVIOUS
  <2>1. PICK s, t : Chained(s, t)
    BY DEF ShellInv
  <2>2. IsMemory(mem) /\ Linked(mem, dbs, s) /\ Linked(mem, Held, t)
    BY <2>1 DEF ShellInv, StoreTypes, Chained
  <2>3. /\ Sound(mem, dbs) /\ ToSet(NodesOf(mem, dbs)) = ToSet(s)
        /\ Sound(mem, Held) /\ ToSet(NodesOf(mem, Held)) = ToSet(t)
    BY <2>2, LinkedSound DEF IsMemory
  <2>4. CASE Downloading
    <3>1. Held = db_list /\ Lists = {dbs, db_list}
      BY <2>4 DEF Held, Lists
    <3>2. /\ Sound(mem, db_list) /\ ToSet(NodesOf(mem, db_list)) = ToSet(t)
          /\ UNION {ToSet(NodesOf(mem, l)) : l \in Lists} = ToSet(s) \cup ToSet(t)
      BY <2>3, <3>1
    <3> QED BY <2>1, <2>3, <3>1, <3>2 DEF ListsSound, Chained
  <2>5. CASE ~Downloading
    <3>1. Lists = {dbs}
      BY <2>5 DEF Lists
    <3>2. UNION {ToSet(NodesOf(mem, l)) : l \in Lists} = ToSet(s)
      BY <2>3, <3>1
    <3>3. ToSet(t) = {}
      BY <2>1, <2>5, ChainedLengths, ElementsOf
    <3> QED BY <2>1, <2>3, <2>5, <3>1, <3>2, <3>3 DEF ListsSound, Chained
  <2> QED BY <2>4, <2>5
<1> QED BY <1>1, ShellInvariant, PTL

\* The lists, the ids and the error handler of download implement a store to which a
\* download adds all the databases it received, or none.
THEOREM DownloadIsAtomic == Spec => ImplementsStore
<1>1. Init => Store!StoreInit
  BY ShellInvInit
<1>2. ShellInv /\ [Next]_vars => [Store!StoreNext]_(Store!storeVars)
  BY ShellInvStep DEF StoreStep
<1> QED BY <1>1, <1>2, ShellInvariant, PTL DEF Spec, ImplementsStore, Store!StoreSpec

\* list_find of a value that only one node holds, in a list of distinct nodes.
LEMMA FindLinked ==
    ASSUME NEW m, IsMemory(m), NEW l, NEW s, Linked(m, l, s),
           NEW i \in 1 .. Len(s), NEW matching \in SUBSET DOMAIN m,
           s[i] \in matching, \A j \in 1 .. i - 1 : s[j] \notin matching
    PROVE  list_find(m, l, matching) = s[i]
<1> DEFINE w == WalkOf(s)
           I == {k \in 1 .. Len(w) : w[k] = NULL \/ w[k] \in matching}
<1>1. s \in Seq(DOMAIN m) /\ Len(s) \in Nat /\ i \in Nat
  BY DEF Linked
<1>2. Len(w) = Len(s) + 1 /\ \A k \in 1 .. Len(s) + 1 : w[k] = IF k = Len(s) + 1 THEN NULL ELSE s[k]
  BY <1>1 DEF WalkOf
<1>3. NULL \notin DOMAIN m
  BY NodesAssumption DEF IsMemory, NULL
<1> HIDE DEF w
<1>4. i \in I /\ I \subseteq Nat
  BY <1>1, <1>2
<1>5. ASSUME NEW k \in I PROVE i <= k
  <2>1. k \in 1 .. Len(s) + 1
    BY <1>2
  <2>2. CASE k < i
    <3>1. k \in 1 .. i - 1 /\ w[k] = s[k] /\ s[k] \in DOMAIN m
      BY <1>1, <1>2, <2>1, <2>2
    <3> QED BY <1>3, <3>1
  <2> QED BY <1>1, <2>1, <2>2
<1>6. Min(I) = i
  <2>1. Min(I) \in I /\ \A k \in I : Min(I) <= k
    BY <1>4, LeastElement
  <2> HIDE DEF I
  <2>2. Min(I) <= i /\ i <= Min(I) /\ Min(I) \in Nat
    BY <1>4, <1>5, <2>1
  <2> QED BY <1>1, <2>2
<1>7. SelectInSeq(w, LAMBDA n : n = NULL \/ n \in matching) = Min(I)
  BY <1>4 DEF SelectInSeq
<1>8. list_find(m, l, matching) = w[i]
  BY <1>6, <1>7, WalkLinked DEF list_find, w, IsMemory
<1> QED BY <1>1, <1>2, <1>8

\* As long as there are no more databases than ids, export finds each of them by the
\* id that list shows: downloads that failed in between took no id for good.
THEOREM AllExported == Spec => []EveryDbExported
<1>1. ShellInv => EveryDbExported
  <2> SUFFICES ASSUME ShellInv, dbs.size <= DB_IDS,
                      NEW n \in ToSet(NodesOf(mem, dbs))
               PROVE  DbOfId(mem[n].value.id) = n
    BY DEF EveryDbExported
  <2>1. PICK s, t : Chained(s, t)
    BY DEF ShellInv
  <2>2. IsMemory(mem) /\ Linked(mem, dbs, s) /\ s \in Seq(DOMAIN mem) /\ Len(s) \in Nat /\ Len(s) <= DB_IDS
    BY <2>1, ChainedLengths DEF ShellInv, StoreTypes, Chained
  <2>3. PICK i \in 1 .. Len(s) : s[i] = n
    <3>1. ToSet(NodesOf(mem, dbs)) = ToSet(s)
      BY <2>2, LinkedSound DEF IsMemory
    <3> QED BY <2>2, <3>1, ElementsOf
  <2> DEFINE matching == {k \in DOMAIN mem : mem[k].value.id = mem[n].value.id}
  <2>4. \A j \in 1 .. Len(s) : s[j] \in DOMAIN mem /\ mem[s[j]].value.id = j - 1
    <3> SUFFICES ASSUME NEW j \in 1 .. Len(s)
                 PROVE  s[j] \in DOMAIN mem /\ mem[s[j]].value.id = j - 1
      OBVIOUS
    <3>1. mem[s[j]].value.id = (j - 1) % DB_IDS
      BY <2>1 DEF Chained, Id
    <3>2. j - 1 \in 0 .. DB_IDS - 1
      BY <2>2, HostStoreAssumption
    <3>3. (j - 1) % DB_IDS = j - 1
      BY <3>2, HostStoreAssumption
    <3> QED BY <2>2, <3>1, <3>3
  <2>5. s[i] \in matching /\ \A j \in 1 .. i - 1 : s[j] \notin matching
    <3>1. \A j \in 1 .. i - 1 : j \in 1 .. Len(s) /\ j - 1 # i - 1
      BY <2>2
    <3> QED BY <2>3, <2>4, <3>1
  <2>6. list_find(mem, dbs, matching) = s[i]
    <3>1. matching \in SUBSET DOMAIN mem
      OBVIOUS
    <3> HIDE DEF matching
    <3> QED BY <2>2, <2>5, <3>1, FindLinked
  <2> QED BY <2>3, <2>6 DEF DbOfId
<1> QED BY <1>1, ShellInvariant, PTL
-----------------------------------------------------------------------------
\* The operations at an index do to the nodes of a list what InsertAt and RemoveAt
\* do to a sequence.

Inserted(s, p, e) ==
    [i \in 1 .. Len(s) + 1 |-> IF i <= p THEN s[i] ELSE IF i = p + 1 THEN e ELSE s[i - 1]]

Without(s, p) == [i \in 1 .. Len(s) - 1 |-> IF i < p THEN s[i] ELSE s[i + 1]]

\* InsertAt, element by element.
LEMMA InsertAtIs ==
    ASSUME NEW T, NEW s \in Seq(T), NEW p \in 0 .. Len(s), NEW e \in T
    PROVE  InsertAt(s, p + 1, e) = Inserted(s, p, e)
<1> DEFINE a == SubSeq(s, 1, p)
           b == SubSeq(s, p + 1, Len(s))
           ae == a \o <<e>>
<1>1. Len(s) \in Nat /\ p \in Nat /\ p <= Len(s) /\ p + 1 - 1 = p
  OBVIOUS
<1>2. a \in Seq(T) /\ Len(a) = p /\ \A i \in 1 .. p : a[i] = s[i]
  <2>1. \A i \in 1 .. p : s[i] \in T
    BY <1>1
  <2>2. /\ a \in Seq(T) /\ Len(a) = IF 1 <= p THEN p - 1 + 1 ELSE 0
        /\ \A i \in 1 .. p - 1 + 1 : a[i] = s[1 + i - 1]
    BY <1>1, <2>1, SubSeqProperties
  <2> HIDE DEF a
  <2>3. \A i \in 1 .. p : i \in 1 .. p - 1 + 1 /\ 1 + i - 1 = i
    BY <1>1
  <2> QED BY <1>1, <2>2, <2>3
<1>3. /\ b \in Seq(T) /\ Len(b) = Len(s) - p
      /\ \A i \in 1 .. Len(s) - p : b[i] = s[p + i]
  <2>1. \A i \in p + 1 .. Len(s) : s[i] \in T
    BY <1>1
  <2>2. /\ b \in Seq(T) /\ Len(b) = IF p + 1 <= Len(s) THEN Len(s) - (p + 1) + 1 ELSE 0
        /\ \A i \in 1 .. Len(s) - (p + 1) + 1 : b[i] = s[p + 1 + i - 1]
    BY <1>1, <2>1, SubSeqProperties
  <2> HIDE DEF b
  <2>3. \A i \in 1 .. Len(s) - p : i \in 1 .. Len(s) - (p + 1) + 1 /\ p + 1 + i - 1 = p + i
    BY <1>1
  <2> QED BY <1>1, <2>2, <2>3
<1>4. InsertAt(s, p + 1, e) = ae \o b
  <2>1. ASSUME NEW q, q = p + 1
        PROVE  InsertAt(s, q, e) = SubSeq(s, 1, q - 1) \o <<e>> \o SubSeq(s, q, Len(s))
    BY DEF InsertAt
  <2>2. ASSUME NEW q, q = p + 1
        PROVE  InsertAt(s, q, e) = ae \o b
    <3>1. q - 1 = p
      BY <1>1, <2>2
    <3>2. InsertAt(s, q, e) = SubSeq(s, 1, p) \o <<e>> \o SubSeq(s, q, Len(s))
      BY <2>1, <2>2, <3>1
    <3>3. b = SubSeq(s, q, Len(s))
      BY <2>2
    <3> HIDE DEF b
    <3> QED BY <3>2, <3>3
  <2> QED BY <2>2
<1> HIDE DEF a, b
<1>5. /\ ae \in Seq(T) /\ Len(ae) = p + 1
      /\ \A i \in 1 .. p + 1 : ae[i] = IF i <= p THEN s[i] ELSE e
  <2>1. <<e>> \in Seq(T) /\ Len(<<e>>) = 1 /\ <<e>>[1] = e
    OBVIOUS
  <2>2. /\ ae \in Seq(T) /\ Len(ae) = p + 1
        /\ \A i \in 1 .. p + 1 : ae[i] = IF i <= p THEN a[i] ELSE <<e>>[i - p]
    BY <1>2, <2>1, ConcatProperties
  <2> HIDE DEF ae
  <2>3. \A i \in 1 .. p + 1 : i <= p \/ i - p = 1
    BY <1>1
  <2> QED BY <1>1, <1>2, <2>1, <2>2, <2>3
<1> HIDE DEF ae
<1>6. /\ ae \o b \in Seq(T) /\ Len(ae \o b) = Len(s) + 1
      /\ \A i \in 1 .. Len(s) + 1 : (ae \o b)[i] = IF i <= p + 1 THEN ae[i] ELSE b[i - (p + 1)]
  <2>1. /\ ae \o b \in Seq(T) /\ Len(ae \o b) = Len(ae) + Len(b)
        /\ \A i \in 1 .. Len(ae) + Len(b) :
               (ae \o b)[i] = IF i <= Len(ae) THEN ae[i] ELSE b[i - Len(ae)]
    BY <1>3, <1>5, ConcatProperties
  <2>2. Len(ae) + Len(b) = Len(s) + 1
    BY <1>1, <1>3, <1>5
  <2> QED BY <1>5, <2>1, <2>2
<1>7. ASSUME NEW i \in 1 .. Len(s) + 1
      PROVE  (ae \o b)[i] = IF i <= p THEN s[i] ELSE IF i = p + 1 THEN e ELSE s[i - 1]
  <2>1. CASE i <= p + 1
    <3>1. i \in 1 .. p + 1 /\ (i <= p \/ i = p + 1)
      BY <1>1, <2>1
    <3> QED BY <1>1, <1>5, <1>6, <2>1, <3>1
  <2>2. CASE ~(i <= p + 1)
    <3>1. i - (p + 1) \in 1 .. Len(s) - p /\ p + (i - (p + 1)) = i - 1 /\ ~(i <= p) /\ i # p + 1
      BY <1>1, <2>2
    <3>2. (ae \o b)[i] = b[i - (p + 1)]
      BY <1>6, <2>2
    <3>3. b[i - (p + 1)] = s[p + (i - (p + 1))]
      BY <1>3, <3>1
    <3> QED BY <3>1, <3>2, <3>3
  <2> QED BY <2>1, <2>2
<1>8. ae \o b = [i \in 1 .. Len(s) + 1 |-> (ae \o b)[i]]
  <2> DEFINE w == ae \o b
  <2>1. w \in Seq(T) /\ Len(w) = Len(s) + 1
    BY <1>6
  <2> HIDE DEF w
  <2>2. w = [i \in 1 .. Len(s) + 1 |-> w[i]]
    BY <2>1
  <2> QED BY <2>2 DEF w
<1> QED BY <1>4, <1>7, <1>8 DEF Inserted

\* RemoveAt, element by element.
LEMMA RemoveAtIs ==
    ASSUME NEW T, NEW s \in Seq(T), NEW p \in 1 .. Len(s)
    PROVE  RemoveAt(s, p) = Without(s, p)
<1> DEFINE a == SubSeq(s, 1, p - 1)
           b == SubSeq(s, p + 1, Len(s))
<1>1. Len(s) \in Nat /\ p \in Nat /\ 1 <= p /\ p <= Len(s)
  OBVIOUS
<1>2. a \in Seq(T) /\ Len(a) = p - 1 /\ \A i \in 1 .. p - 1 : a[i] = s[i]
  <2>1. \A i \in 1 .. p - 1 : s[i] \in T
    BY <1>1
  <2>2. /\ a \in Seq(T) /\ Len(a) = IF 1 <= p - 1 THEN p - 1 - 1 + 1 ELSE 0
        /\ \A i \in 1 .. p - 1 - 1 + 1 : a[i] = s[1 + i - 1]
    BY <1>1, <2>1, SubSeqProperties
  <2> HIDE DEF a
  <2>3. \A i \in 1 .. p - 1 : i \in 1 .. p - 1 - 1 + 1 /\ 1 + i - 1 = i
    BY <1>1
  <2> QED BY <1>1, <2>2, <2>3
<1>3. /\ b \in Seq(T) /\ Len(b) = Len(s) - p
      /\ \A i \in 1 .. Len(s) - p : b[i] = s[p + i]
  <2>1. \A i \in p + 1 .. Len(s) : s[i] \in T
    BY <1>1
  <2>2. /\ b \in Seq(T) /\ Len(b) = IF p + 1 <= Len(s) THEN Len(s) - (p + 1) + 1 ELSE 0
        /\ \A i \in 1 .. Len(s) - (p + 1) + 1 : b[i] = s[p + 1 + i - 1]
    BY <1>1, <2>1, SubSeqProperties
  <2> HIDE DEF b
  <2>3. \A i \in 1 .. Len(s) - p : i \in 1 .. Len(s) - (p + 1) + 1 /\ p + 1 + i - 1 = p + i
    BY <1>1
  <2> QED BY <1>1, <2>2, <2>3
<1>4. RemoveAt(s, p) = a \o b
  BY DEF RemoveAt
<1> HIDE DEF a, b
<1>5. /\ a \o b \in Seq(T) /\ Len(a \o b) = Len(s) - 1
      /\ \A i \in 1 .. Len(s) - 1 : (a \o b)[i] = IF i <= p - 1 THEN a[i] ELSE b[i - (p - 1)]
  <2>1. /\ a \o b \in Seq(T) /\ Len(a \o b) = Len(a) + Len(b)
        /\ \A i \in 1 .. Len(a) + Len(b) : (a \o b)[i] = IF i <= Len(a) THEN a[i] ELSE b[i - Len(a)]
    BY <1>2, <1>3, ConcatProperties
  <2>2. Len(a) + Len(b) = Len(s) - 1
    BY <1>1, <1>2, <1>3
  <2> QED BY <1>2, <2>1, <2>2
<1>6. ASSUME NEW i \in 1 .. Len(s) - 1
      PROVE  (a \o b)[i] = IF i < p THEN s[i] ELSE s[i + 1]
  <2>1. CASE i < p
    <3>1. i \in 1 .. p - 1 /\ i <= p - 1
      BY <1>1, <2>1
    <3> QED BY <1>2, <1>5, <2>1, <3>1
  <2>2. CASE ~(i < p)
    <3>1. i - (p - 1) \in 1 .. Len(s) - p /\ p + (i - (p - 1)) = i + 1 /\ ~(i <= p - 1)
      BY <1>1, <2>2
    <3>2. (a \o b)[i] = b[i - (p - 1)]
      BY <1>5, <3>1
    <3>3. b[i - (p - 1)] = s[p + (i - (p - 1))]
      BY <1>3, <3>1
    <3> QED BY <2>2, <3>1, <3>2, <3>3
  <2> QED BY <2>1, <2>2
<1>7. a \o b = [i \in 1 .. Len(s) - 1 |-> (a \o b)[i]]
  <2> DEFINE w == a \o b
  <2>1. w \in Seq(T) /\ Len(w) = Len(s) - 1
    BY <1>5
  <2> HIDE DEF w
  <2>2. w = [i \in 1 .. Len(s) - 1 |-> w[i]]
    BY <2>1
  <2> QED BY <2>2 DEF w
<1> QED BY <1>4, <1>6, <1>7 DEF Without

\* A list with one more node, linked in after its first p nodes.
LEMMA LinkedInserted ==
    ASSUME NEW m, DOMAIN m \subseteq Nodes, NEW l, NEW s, Linked(m, l, s),
           NEW p \in 0 .. Len(s), NEW n \in Nodes, n \notin DOMAIN m, NEW value,
           NEW after, DOMAIN after = DOMAIN m \cup {n},
           \A k \in DOMAIN m : after[k].value = m[k].value,
           after[n].value = value,
           after[n].next = IF p = Len(s) THEN NULL ELSE s[p + 1],
           \A i \in 1 .. Len(s) : after[s[i]].next = IF i = p THEN n ELSE m[s[i]].next,
           NEW grown, grown = ListOf(Inserted(s, p, n))
    PROVE  IsOn([mem |-> after, l |-> grown], Inserted(Values(m, l), p, value))
<1> DEFINE u == Inserted(s, p, n)
<1>1. /\ s \in Seq(DOMAIN m) /\ Len(s) \in Nat /\ p \in Nat /\ p <= Len(s)
      /\ \A i \in 1 .. Len(s) : s[i] \in DOMAIN m
  BY DEF Linked
<1>2. /\ DOMAIN u = 1 .. Len(s) + 1
      /\ \A i \in 1 .. p : u[i] = s[i]
      /\ u[p + 1] = n
      /\ \A i \in p + 2 .. Len(s) + 1 : u[i] = s[i - 1]
  BY <1>1 DEF Inserted
<1>3. u \in Seq(DOMAIN after) /\ Len(u) = Len(s) + 1
  BY <1>1 DEF Inserted
<1> HIDE DEF u
<1>4. \A i \in 1 .. Len(u) : i \in 1 .. p \/ i = p + 1 \/ (i \in p + 2 .. Len(s) + 1 /\ i - 1 \in 1 .. Len(s))
  BY <1>1, <1>3
<1>5. Distinct(u)
  <2> SUFFICES ASSUME NEW i \in 1 .. Len(u), NEW j \in 1 .. Len(u), u[i] = u[j]
               PROVE  i = j
    BY DEF Distinct
  <2>0. \A a, b \in 1 .. Len(s) : s[a] = s[b] => a = b
    BY DEF Linked, Distinct
  <2>1. \A a \in 1 .. Len(u) : a # p + 1 => u[a] # n
    BY <1>1, <1>2, <1>4
  <2>2. CASE i = p + 1 \/ j = p + 1
    BY <1>2, <2>1, <2>2
  <2>3. CASE i \in 1 .. p /\ j \in 1 .. p
    BY <1>1, <1>2, <2>0, <2>3
  <2>4. CASE i \in 1 .. p /\ j \in p + 2 .. Len(s) + 1
    BY <1>1, <1>2, <2>0, <2>4
  <2>5. CASE i \in p + 2 .. Len(s) + 1 /\ j \in 1 .. p
    BY <1>1, <1>2, <2>0, <2>5
  <2>6. CASE i \in p + 2 .. Len(s) + 1 /\ j \in p + 2 .. Len(s) + 1
    <3>1. i - 1 = j - 1
      BY <1>1, <1>2, <1>4, <2>0, <2>6
    <3> QED BY <3>1
  <2> QED BY <1>4, <2>2, <2>3, <2>4, <2>5, <2>6
<1>6. ASSUME NEW i \in 1 .. Len(u)
      PROVE  after[u[i]].next = NextOf(u, i)
  <2>0. \A j \in 1 .. Len(s) : after[s[j]].next = IF j = p THEN n ELSE IF j = Len(s) THEN NULL ELSE s[j + 1]
    BY DEF Linked, NextOf
  <2>1. CASE i \in 1 .. p
    <3>1. u[i] = s[i] /\ i # Len(u) /\ i \in 1 .. Len(s)
      BY <1>1, <1>2, <1>3, <2>1
    <3>2. u[i + 1] = IF i = p THEN n ELSE s[i + 1]
      BY <1>1, <1>2, <2>1
    <3>3. i # p => i # Len(s)
      BY <1>1, <2>1
    <3> QED BY <2>0, <3>1, <3>2, <3>3 DEF NextOf
  <2>2. CASE i = p + 1
    <3>1. i = Len(u) <=> p = Len(s)
      BY <1>1, <1>3, <2>2
    <3>2. p # Len(s) => u[i + 1] = s[p + 1]
      BY <1>1, <1>2, <2>2
    <3> QED BY <1>2, <2>2, <3>1, <3>2 DEF NextOf
  <2>3. CASE i \in p + 2 .. Len(s) + 1
    <3>1. u[i] = s[i - 1] /\ i - 1 \in 1 .. Len(s) /\ i - 1 # p /\ i - 1 + 1 = i
      BY <1>1, <1>2, <1>4, <2>3
    <3>2. i = Len(u) <=> i - 1 = Len(s)
      BY <1>1, <1>3, <2>3
    <3>3. i # Len(u) => u[i + 1] = s[i]
      <4> SUFFICES ASSUME i # Len(u) PROVE u[i + 1] = s[i]
        OBVIOUS
      <4>1. i \in Nat /\ p + 2 <= i /\ i <= Len(s)
        BY SMTT(20), <1>1, <1>3, <2>3
      <4>2. i + 1 \in p + 2 .. Len(s) + 1 /\ i + 1 - 1 = i
        BY <1>1, <4>1
      <4> QED BY <1>2, <4>2
    <3>4. after[s[i - 1]].next = IF i - 1 = Len(s) THEN NULL ELSE s[i - 1 + 1]
      BY <2>0, <3>1
    <3> QED BY <3>1, <3>2, <3>3, <3>4 DEF NextOf
  <2> QED BY <1>4, <2>1, <2>2, <2>3
<1>7. Linked(after, grown, u)
  BY <1>3, <1>5, <1>6 DEF Linked, u
<1>8. Sound(after, grown) /\ Values(after, grown) = [i \in 1 .. Len(u) |-> after[u[i]].value]
  BY <1>7, LinkedSound
<1>9. Values(m, l) = [i \in 1 .. Len(s) |-> m[s[i]].value]
  BY LinkedSound
<1> DEFINE v == Values(m, l)
<1>10. Len(v) = Len(s) /\ \A i \in 1 .. Len(s) : v[i] = m[s[i]].value
  BY <1>1, <1>9
<1> HIDE DEF v
<1>11. ASSUME NEW i \in 1 .. Len(s) + 1
       PROVE  after[u[i]].value = IF i <= p THEN v[i] ELSE IF i = p + 1 THEN value ELSE v[i - 1]
  <2>1. CASE i \in 1 .. p
    BY <1>1, <1>2, <1>10, <2>1
  <2>2. CASE i = p + 1
    BY <1>1, <1>2, <2>2
  <2>3. CASE i \in p + 2 .. Len(s) + 1
    <3>1. u[i] = s[i - 1] /\ i - 1 \in 1 .. Len(s) /\ ~(i <= p) /\ i # p + 1
      BY <1>1, <1>2, <1>3, <1>4, <2>3
    <3> QED BY <1>1, <1>10, <3>1
  <2> QED BY <1>3, <1>4, <2>1, <2>2, <2>3
<1>12. Values(after, grown) = Inserted(v, p, value)
  BY <1>3, <1>8, <1>10, <1>11 DEF Inserted
<1> QED BY <1>8, <1>12 DEF v, IsOn

\* A list without its node p.
LEMMA LinkedWithout ==
    ASSUME NEW m, DOMAIN m \subseteq Nodes, NEW l, NEW s, Linked(m, l, s),
           NEW p \in 1 .. Len(s),
           NEW after, DOMAIN after = DOMAIN m \ {s[p]},
           \A k \in DOMAIN after : after[k].value = m[k].value,
           \A i \in 1 .. Len(s) : i # p =>
               after[s[i]].next = IF i = p - 1 THEN NextOf(s, p) ELSE NextOf(s, i),
           NEW shrunk, shrunk = ListOf(Without(s, p))
    PROVE  IsOn([mem |-> after, l |-> shrunk], Without(Values(m, l), p))
<1> DEFINE u == Without(s, p)
<1>0. \A a, b \in 1 .. Len(s) : s[a] = s[b] => a = b
  BY DEF Linked, Distinct
<1>1. /\ s \in Seq(DOMAIN m) /\ Len(s) \in Nat /\ p \in Nat /\ 1 <= p /\ p <= Len(s)
      /\ \A i \in 1 .. Len(s) : s[i] \in DOMAIN m
  BY DEF Linked
<1>2. /\ \A i \in 1 .. p - 1 : u[i] = s[i] /\ i \in 1 .. Len(s) /\ i # p
      /\ \A i \in p .. Len(s) - 1 : u[i] = s[i + 1] /\ i + 1 \in 1 .. Len(s) /\ i + 1 # p
  BY <1>1 DEF Without
<1>3. \A i \in 1 .. Len(s) - 1 : i \in 1 .. p - 1 \/ i \in p .. Len(s) - 1
  BY <1>1
<1>4. u \in Seq(DOMAIN after) /\ Len(u) = Len(s) - 1
  <2>1. \A i \in 1 .. Len(s) : i # p => s[i] \in DOMAIN after
    BY <1>0, <1>1
  <2>2. \A i \in 1 .. Len(s) - 1 : u[i] \in DOMAIN after
    <3> HIDE DEF u
    <3> QED BY <1>2, <1>3, <2>1
  <2>3. u = [i \in 1 .. Len(s) - 1 |-> u[i]] /\ Len(s) - 1 \in Nat
    BY <1>1 DEF Without
  <2> HIDE DEF u
  <2>4. u \in [1 .. Len(s) - 1 -> DOMAIN after]
    BY <2>2, <2>3
  <2> QED BY <2>3, <2>4
<1> HIDE DEF u
<1>5. Distinct(u)
  <2> SUFFICES ASSUME NEW i \in 1 .. Len(s) - 1, NEW j \in 1 .. Len(s) - 1, u[i] = u[j]
               PROVE  i = j
    BY <1>4 DEF Distinct
  <2>1. CASE i \in 1 .. p - 1 /\ j \in 1 .. p - 1
    BY <1>0, <1>2, <2>1
  <2>2. CASE i \in 1 .. p - 1 /\ j \in p .. Len(s) - 1
    <3>1. i = j + 1
      BY <1>0, <1>2, <2>2
    <3> QED BY <1>1, <2>2, <3>1
  <2>3. CASE i \in p .. Len(s) - 1 /\ j \in 1 .. p - 1
    <3>1. i + 1 = j
      BY <1>0, <1>2, <2>3
    <3> QED BY <1>1, <2>3, <3>1
  <2>4. CASE i \in p .. Len(s) - 1 /\ j \in p .. Len(s) - 1
    <3>1. i + 1 = j + 1
      BY <1>0, <1>2, <2>4
    <3> QED BY <3>1
  <2> QED BY <1>3, <2>1, <2>2, <2>3, <2>4
<1>6. ASSUME NEW i \in 1 .. Len(u)
      PROVE  after[u[i]].next = NextOf(u, i)
  <2>1. CASE i \in 1 .. p - 1 /\ i # p - 1
    <3>1. u[i] = s[i] /\ after[s[i]].next = NextOf(s, i)
      BY <1>2, <2>1
    <3>2. i + 1 \in 1 .. p - 1 /\ i # Len(s) /\ i # Len(u)
      <4>1. i \in Nat /\ 1 <= i /\ i < p - 1
        BY <1>1, <2>1
      <4> QED BY <1>1, <1>4, <4>1
    <3>3. u[i + 1] = s[i + 1]
      BY <1>2, <3>2
    <3> QED BY <3>1, <3>2, <3>3 DEF NextOf
  <2>2. CASE i = p - 1
    <3>1. i \in 1 .. p - 1
      BY <1>1, <2>2
    <3>2. u[i] = s[i] /\ after[s[i]].next = NextOf(s, p)
      BY <1>2, <2>2, <3>1
    <3>3. i = Len(u) <=> p = Len(s)
      BY <1>1, <1>4, <2>2
    <3>4. i # Len(u) => u[i + 1] = s[p + 1]
      <4>1. i + 1 = p /\ (i # Len(u) => p \in p .. Len(s) - 1)
        BY <1>1, <1>4, <2>2
      <4> QED BY <1>2, <4>1
    <3> QED BY <3>2, <3>3, <3>4 DEF NextOf
  <2>3. CASE i \in p .. Len(s) - 1
    <3>1. /\ u[i] = s[i + 1] /\ i + 1 # p - 1
          /\ i + 1 \in 1 .. Len(s) /\ i + 1 # p
      BY <1>1, <1>2, <2>3
    <3>2. after[s[i + 1]].next = NextOf(s, i + 1)
      BY <3>1
    <3>3. i = Len(u) <=> i + 1 = Len(s)
      BY <1>1, <1>4, <2>3
    <3>4. i # Len(u) => u[i + 1] = s[i + 1 + 1]
      <4>1. i # Len(u) => i + 1 \in p .. Len(s) - 1
        BY <1>1, <1>4, <2>3
      <4> QED BY <1>2, <4>1
    <3> QED BY <3>1, <3>2, <3>3, <3>4 DEF NextOf
  <2> QED BY <1>3, <1>4, <2>1, <2>2, <2>3
<1>7. Linked(after, shrunk, u)
  BY <1>4, <1>5, <1>6 DEF Linked, u
<1>8. Sound(after, shrunk) /\ Values(after, shrunk) = [i \in 1 .. Len(u) |-> after[u[i]].value]
  <2>1. DOMAIN after \subseteq Nodes
    OBVIOUS
  <2> QED BY <1>7, <2>1, LinkedSound
<1>9. Values(m, l) = [i \in 1 .. Len(s) |-> m[s[i]].value]
  BY LinkedSound
<1> DEFINE v == Values(m, l)
<1>10. Len(v) = Len(s) /\ \A i \in 1 .. Len(s) : v[i] = m[s[i]].value
  BY <1>1, <1>9
<1> HIDE DEF v
<1>11. ASSUME NEW i \in 1 .. Len(s) - 1
       PROVE  after[u[i]].value = IF i < p THEN v[i] ELSE v[i + 1]
  <2>0. \A j \in 1 .. Len(s) : j # p => after[s[j]].value = v[j]
    BY <1>0, <1>1, <1>10
  <2>1. CASE i \in 1 .. p - 1
    <3>1. i < p
      BY <1>1, <2>1
    <3> QED BY <1>2, <2>0, <2>1, <3>1
  <2>2. CASE i \in p .. Len(s) - 1
    <3>1. ~(i < p)
      BY <1>1, <2>2
    <3> QED BY <1>2, <2>0, <2>2, <3>1
  <2> QED BY <1>3, <2>1, <2>2
<1>12. Values(after, shrunk) = Without(v, p)
  BY <1>4, <1>8, <1>10, <1>11 DEF Without
<1> QED BY <1>8, <1>12 DEF v, IsOn

\* list_add_at adds at the index, and leaves a sound list.
LEMMA AddAt ==
    ASSUME NEW m, IsMemory(m), Nodes # DOMAIN m, NEW l, NEW s, Linked(m, l, s),
           NEW p \in 0 .. Len(s), NEW value
    PROVE  IsOn(list_add_at(m, l, p, value), Inserted(Values(m, l), p, value))
<1> DEFINE n == NewNode(m)
           added == list_add_at(m, l, p, value)
           u == Inserted(s, p, n)
           Cell == [value : DbObjects, next : Nodes \cup {NULL}]
<1>1. /\ s \in Seq(DOMAIN m) /\ Len(s) \in Nat /\ p \in Nat /\ p <= Len(s)
      /\ \A i \in 1 .. Len(s) : s[i] \in DOMAIN m
      /\ \A i, j \in 1 .. Len(s) : s[i] = s[j] => i = j
      /\ \A i \in 1 .. Len(s) : m[s[i]].next = NextOf(s, i)
      /\ NodesOf(m, l) = s
  BY NodesOfLinked DEF Linked, Distinct
<1>2. n \in Nodes /\ n \notin DOMAIN m /\ DOMAIN m \subseteq Nodes
  BY NewNodeFree DEF IsMemory
<1>3. \A k \in DOMAIN m : m[k] \in Cell
  BY DEF IsMemory
<1>4. /\ l.size = Len(s)
      /\ l.head = IF Len(s) = 0 THEN NULL ELSE s[1]
      /\ l.tail = IF Len(s) = 0 THEN NULL ELSE s[Len(s)]
      /\ l = [head |-> l.head, tail |-> l.tail, size |-> Len(s)]
  BY DEF Linked, ListOf, list_new
<1>5. /\ Len(u) = Len(s) + 1 /\ u[1] = (IF p = 0 THEN n ELSE s[1])
      /\ u[Len(s) + 1] = IF p = Len(s) THEN n ELSE s[Len(s)]
  BY <1>1 DEF Inserted
<1> HIDE DEF n, added, u
<1>6. ListOf(u) = [head |-> IF p = 0 THEN n ELSE s[1],
                   tail |-> IF p = Len(s) THEN n ELSE s[Len(s)], size |-> Len(s) + 1]
  BY <1>1, <1>5 DEF ListOf
<1>7. /\ added.l = ListOf(u)
      /\ added.mem = WithNode(IF p = 0 THEN m ELSE [m EXCEPT ![s[p]].next = n], n,
                              Node(value, IF p = Len(s) THEN NULL ELSE s[p + 1]))
  <2>1. CASE p = 0
    BY <1>1, <1>4, <1>6, <2>1 DEF added, n, list_add_at, list_add_head
  <2>2. CASE p # 0 /\ p = Len(s)
    BY <1>1, <1>4, <1>6, <2>2 DEF added, n, list_add_at, list_add_tail
  <2>3. CASE p # 0 /\ p # Len(s)
    <3>1. list_node_get(m, l, p - 1) = s[p]
      BY <1>1 DEF list_node_get
    <3>2. m[s[p]].next = s[p + 1]
      BY <1>1, <2>3 DEF NextOf
    <3>3. added = [mem |-> WithNode([m EXCEPT ![s[p]].next = n], n, Node(value, s[p + 1])),
                   l |-> [l EXCEPT !.size = @ + 1]]
      BY <1>4, <2>3, <3>1, <3>2 DEF added, n, list_add_at
    <3>4. [l EXCEPT !.size = @ + 1] = [head |-> l.head, tail |-> l.tail, size |-> Len(s) + 1]
      BY <1>4
    <3>5. l.head = s[1] /\ l.tail = s[Len(s)]
      BY <1>1, <1>4, <2>3
    <3> QED BY <1>6, <2>3, <3>3, <3>4, <3>5
  <2> QED BY <2>1, <2>2, <2>3
<1> DEFINE after == added.mem
           cut == IF p = 0 THEN m ELSE [m EXCEPT ![s[p]].next = n]
<1>8. /\ DOMAIN cut = DOMAIN m
      /\ \A k \in DOMAIN m :
            cut[k] = IF p # 0 /\ k = s[p] THEN [m[k] EXCEPT !.next = n] ELSE m[k]
  <2>1. CASE p = 0
    BY <2>1
  <2>2. CASE p # 0
    <3>1. cut = [m EXCEPT ![s[p]].next = n]
      BY <2>2
    <3> QED BY <2>2, <3>1
  <2> QED BY <2>1, <2>2
<1>9. after = WithNode(cut, n, Node(value, IF p = Len(s) THEN NULL ELSE s[p + 1]))
  BY <1>7
<1> HIDE DEF cut, after
<1>10. /\ DOMAIN after = DOMAIN m \cup {n}
       /\ after[n] = Node(value, IF p = Len(s) THEN NULL ELSE s[p + 1])
       /\ \A k \in DOMAIN m : after[k] = cut[k]
  BY <1>2, <1>8, <1>9 DEF WithNode
<1>11. \A k \in DOMAIN m : after[k].value = m[k].value
  BY <1>3, <1>8, <1>10
<1>12. after[n].value = value /\ after[n].next = IF p = Len(s) THEN NULL ELSE s[p + 1]
  BY <1>10 DEF Node
<1>13. ASSUME NEW i \in 1 .. Len(s)
       PROVE  after[s[i]].next = IF i = p THEN n ELSE m[s[i]].next
  <2>1. s[i] \in DOMAIN m /\ m[s[i]] \in Cell
    BY <1>1, <1>3
  <2>2. (p # 0 /\ s[i] = s[p]) <=> i = p
    <3>1. p # 0 => p \in 1 .. Len(s)
      BY <1>1
    <3>2. i # 0
      OBVIOUS
    <3> QED BY <1>1, <3>1, <3>2
  <2> QED BY <1>8, <1>10, <2>1, <2>2
<1>14. Values(after, added.l) = Inserted(Values(m, l), p, value) /\ Sound(after, added.l)
  <2> DEFINE grown == added.l
  <2>1. grown = ListOf(Inserted(s, p, n))
    BY <1>7 DEF u
  <2> HIDE DEF grown
  <2>2. IsOn([mem |-> after, l |-> grown], Inserted(Values(m, l), p, value))
    BY <1>2, <1>10, <1>11, <1>12, <1>13, <2>1, LinkedInserted
  <2> QED BY <2>2 DEF grown, IsOn
<1> QED BY <1>14 DEF IsOn, after, added

\* The memory and the list without node p of s; the pointer of the node before is
\* led past it only if there are more than two
Leaves(m, s, p, removed) ==
    /\ removed.l = ListOf(Without(s, p))
    /\ DOMAIN removed.mem = DOMAIN m \ {s[p]}
    /\ \A k \in DOMAIN removed.mem :
          removed.mem[k] = IF Len(s) > 2 /\ p > 1 /\ k = s[p - 1]
                             THEN [m[k] EXCEPT !.next = NextOf(s, p)] ELSE m[k]

\* That is what list_remove computes.
LEMMA RemoveComputes ==
    ASSUME NEW m, IsMemory(m), NEW l, NEW s, Linked(m, l, s), NEW p \in 1 .. Len(s),
           NEW removed, removed = list_remove(m, l, p - 1)
    PROVE  Leaves(m, s, p, removed)
<1> DEFINE u == Without(s, p)
           last == Len(s)
<1>1. /\ s \in Seq(DOMAIN m) /\ last \in Nat /\ p \in Nat /\ 1 <= p /\ p <= last
      /\ \A i \in 1 .. last : s[i] \in DOMAIN m
      /\ \A i \in 1 .. last : m[s[i]].next = NextOf(s, i)
      /\ NodesOf(m, l) = s
  BY NodesOfLinked DEF Linked
<1>2. l.size = last /\ l.head = s[1] /\ l.tail = s[last]
  BY <1>1 DEF Linked, ListOf
<1>3. /\ Len(u) = last - 1
      /\ last > 1 => u[1] = (IF p = 1 THEN s[2] ELSE s[1])
      /\ last > 1 => u[last - 1] = IF p = last THEN s[last - 1] ELSE s[last]
  <2>1. u = [i \in 1 .. last - 1 |-> IF i < p THEN s[i] ELSE s[i + 1]]
    BY DEF Without
  <2> HIDE DEF u
  <2>2. Len(u) = last - 1
    BY <1>1, <2>1
  <2>3. last > 1 => u[1] = IF 1 < p THEN s[1] ELSE s[1 + 1]
    BY <1>1, <2>1
  <2>4. last > 1 => u[last - 1] = IF last - 1 < p THEN s[last - 1] ELSE s[last - 1 + 1]
    BY <1>1, <2>1
  <2>5. (1 < p <=> p # 1) /\ (last - 1 < p <=> p = last) /\ last - 1 + 1 = last /\ 1 + 1 = 2
    BY <1>1
  <2> QED BY <2>2, <2>3, <2>4, <2>5
<1> HIDE DEF u
<1>4. list_node_get(m, l, p - 1) = s[p] /\ list_node_get(m, l, p - 1 - 1) = s[p - 1]
  <2>1. p - 1 + 1 = p /\ p - 1 - 1 + 1 = p - 1
    BY <1>1
  <2> QED BY <1>1, <2>1 DEF list_node_get
<1>5. p - 1 > 0 <=> p > 1
  BY <1>1
<1>6. /\ removed.mem = Restrict(IF last > 2 /\ p > 1
                                  THEN [m EXCEPT ![s[p - 1]].next = m[s[p]].next] ELSE m,
                                DOMAIN m \ {s[p]})
      /\ removed.l = [head |-> IF last = 1 THEN NULL
                               ELSE IF p > 1 THEN s[1]
                               ELSE IF last = 2 THEN s[2] ELSE m[s[p]].next,
                      tail |-> TailAfterRemove(m, l, p - 1),
                      size |-> last - 1]
  <2>1. removed = [mem |-> Restrict(IF last > 2 /\ p > 1
                                      THEN [m EXCEPT ![s[p - 1]].next = m[s[p]].next] ELSE m,
                                    DOMAIN m \ {s[p]}),
                   l |-> [head |-> IF last = 1 THEN NULL
                                   ELSE IF p > 1 THEN s[1]
                                   ELSE IF last = 2 THEN s[last] ELSE m[s[p]].next,
                          tail |-> TailAfterRemove(m, l, p - 1),
                          size |-> last - 1]]
    <3> HIDE DEF last
    <3> QED BY <1>2, <1>4, <1>5 DEF list_remove
  <2> QED BY <2>1
<1>7. TailAfterRemove(m, l, p - 1) =
          IF last = 1 THEN NULL ELSE IF p = last THEN s[last - 1] ELSE s[last]
  <2>1. TailAfterRemove(m, l, p - 1) =
            IF last = 1 THEN NULL
            ELSE IF p - 1 = 0 \/ p - 1 < last - 1 THEN s[last]
            ELSE IF last = 2 THEN s[1] ELSE s[p - 1]
    BY <1>2, <1>4 DEF TailAfterRemove
  <2>2. last # 1 => ((p - 1 = 0 \/ p - 1 < last - 1) <=> p # last)
    <3> HIDE DEF last
    <3>1. (p - 1 = 0 <=> p = 1) /\ (p - 1 < last - 1 <=> p # last)
      BY <1>1
    <3> QED BY <3>1
  <2>3. last = 2 => last - 1 = 1
    OBVIOUS
  <2> HIDE DEF last
  <2> QED BY <2>1, <2>2, <2>3
<1>8. removed.l = ListOf(u)
  <2>1. CASE last = 1
    BY <1>3, <1>6, <1>7, <2>1 DEF ListOf, list_new
  <2>2. CASE last # 1
    <3>1. last > 1 /\ Len(u) # 0
      BY <1>1, <1>3, <2>2
    <3>2. p = 1 => m[s[p]].next = s[2]
      <4>1. p = 1 => m[s[p]].next = NextOf(s, 1)
        BY <1>1
      <4> QED BY <2>2, <4>1 DEF NextOf
    <3>3. removed.l.head = u[1]
      BY <1>1, <1>3, <1>6, <2>2, <3>1, <3>2
    <3>4. removed.l = [head |-> u[1], tail |-> u[last - 1], size |-> last - 1]
      BY <1>3, <1>6, <1>7, <2>2, <3>1, <3>3
    <3> QED BY <1>3, <3>1, <3>4 DEF ListOf
  <2> QED BY <2>1, <2>2
<1>9. m[s[p]].next = NextOf(s, p)
  BY <1>1
<1>10. DOMAIN removed.mem = DOMAIN m \ {s[p]}
  BY <1>6 DEF Restrict
<1>11. ASSUME NEW k \in DOMAIN m \ {s[p]}
       PROVE  removed.mem[k] = IF last > 2 /\ p > 1 /\ k = s[p - 1]
                                 THEN [m[k] EXCEPT !.next = NextOf(s, p)] ELSE m[k]
  <2>1. CASE last > 2 /\ p > 1
    <3>1. removed.mem = Restrict([m EXCEPT ![s[p - 1]].next = NextOf(s, p)], DOMAIN m \ {s[p]})
      BY <1>6, <1>9, <2>1
    <3>2. s[p - 1] \in DOMAIN m
      <4>1. p - 1 \in 1 .. last
        BY <1>1, <2>1
      <4> QED BY <1>1, <4>1
    <3>3. removed.mem[k] = [m EXCEPT ![s[p - 1]].next = NextOf(s, p)][k]
      BY <3>1 DEF Restrict
    <3> QED BY <2>1, <3>2, <3>3
  <2>2. CASE ~(last > 2 /\ p > 1)
    BY <1>6, <2>2 DEF Restrict
  <2> QED BY <2>1, <2>2
<1> QED BY <1>8, <1>10, <1>11 DEF u, Leaves

\* list_remove does to the values what RemoveAt does, and leaves a sound list unless
\* it removes the second of two.
LEMMA RemoveIndex ==
    ASSUME NEW m, IsMemory(m), NEW l, NEW s, Linked(m, l, s), NEW p \in 1 .. Len(s),
           ~(Len(s) = 2 /\ p = 2)
    PROVE  IsOn(list_remove(m, l, p - 1), Without(Values(m, l), p))
<1> DEFINE removed == list_remove(m, l, p - 1)
           after == removed.mem
           shrunk == removed.l
<1>1. /\ s \in Seq(DOMAIN m) /\ Len(s) \in Nat /\ p \in Nat /\ 1 <= p /\ p <= Len(s)
      /\ \A i \in 1 .. Len(s) : s[i] \in DOMAIN m
      /\ \A i, j \in 1 .. Len(s) : s[i] = s[j] => i = j
      /\ \A i \in 1 .. Len(s) : m[s[i]].next = NextOf(s, i)
  BY DEF Linked, Distinct
<1>2. \A k \in DOMAIN m : m[k] \in [value : DbObjects, next : Nodes \cup {NULL}]
  BY DEF IsMemory
<1>3. /\ shrunk = ListOf(Without(s, p))
      /\ DOMAIN after = DOMAIN m \ {s[p]}
      /\ \A k \in DOMAIN after :
            after[k] = IF Len(s) > 2 /\ p > 1 /\ k = s[p - 1]
                         THEN [m[k] EXCEPT !.next = NextOf(s, p)] ELSE m[k]
  <2>1. Leaves(m, s, p, removed)
    <3> HIDE DEF removed
    <3>1. ASSUME NEW r, r = list_remove(m, l, p - 1) PROVE Leaves(m, s, p, r)
      BY <3>1, RemoveComputes
    <3> QED BY <3>1 DEF removed
  <2> QED BY <2>1 DEF Leaves
<1> HIDE DEF removed, after, shrunk
<1>4. \A k \in DOMAIN after : after[k].value = m[k].value
  BY <1>2, <1>3
<1>5. ASSUME NEW i \in 1 .. Len(s), i # p
      PROVE  after[s[i]].next = IF i = p - 1 THEN NextOf(s, p) ELSE NextOf(s, i)
  <2>1. s[i] \in DOMAIN after /\ m[s[i]] \in [value : DbObjects, next : Nodes \cup {NULL}]
    BY <1>1, <1>2, <1>3, <1>5
  <2>2. (p > 1 /\ s[i] = s[p - 1]) <=> i = p - 1
    <3>1. p > 1 => p - 1 \in 1 .. Len(s)
      BY <1>1
    <3>2. i = p - 1 => p > 1
      BY <1>1
    <3> QED BY <1>1, <3>1, <3>2
  <2>3. i = p - 1 => Len(s) > 2
    <3> SUFFICES ASSUME i = p - 1, ~(Len(s) > 2) PROVE FALSE
      OBVIOUS
    <3>1. Len(s) \in Nat /\ p \in Nat /\ 1 <= i /\ i \in Nat /\ p = i + 1 /\ p <= Len(s)
      BY <1>1
    <3>2. \A a, b, c \in Nat : 1 <= a /\ b = a + 1 /\ b <= c /\ ~(c > 2) => b = 2 /\ c = 2
      OBVIOUS
    <3> QED BY <3>1, <3>2
  <2>4. m[s[i]].next = NextOf(s, i)
    BY <1>1
  <2> QED BY <1>3, <2>1, <2>2, <2>3, <2>4
<1>6. IsOn([mem |-> after, l |-> shrunk], Without(Values(m, l), p))
  <2>1. DOMAIN m \subseteq Nodes
    BY DEF IsMemory
  <2> QED BY <1>3, <1>4, <1>5, <2>1, LinkedWithout
<1> QED BY <1>6 DEF IsOn, removed, after, shrunk

\* Appending to one element.
LEMMA AppendOne ==
    ASSUME NEW S, NEW a \in S, NEW b \in S
    PROVE  Append(<<a>>, b) = <<a, b>>
<1> DEFINE x == <<a>>
           y == Append(x, b)
<1>1. x \in Seq(S) /\ Len(x) = 1 /\ x[1] = a
  OBVIOUS
<1> HIDE DEF x
<1>2. y \in Seq(S) /\ Len(y) = Len(x) + 1
  BY <1>1, AppendProperties
<1>3. y[Len(x) + 1] = b
  BY <1>1, AppendProperties
<1>4. y[1] = x[1]
  BY <1>1, AppendProperties
<1> HIDE DEF y
<1>5. y \in Seq(S) /\ Len(y) = 2 /\ y[1] = a /\ y[2] = b
  BY <1>1, <1>2, <1>3, <1>4
<1>6. y = <<a, b>>
  BY <1>5
<1> QED BY <1>6 DEF x, y

\* list_remove of the second of two nodes leaves the pointer to it in the first one,
\* and a walk comes to the freed node.
LEMMA RemoveSecond ==
    ASSUME NEW m, IsMemory(m), NEW l, NEW s, Linked(m, l, s), Len(s) = 2
    PROVE  LET removed == list_remove(m, l, 1)
           IN  /\ Values(removed.mem, removed.l) = Without(Values(m, l), 2)
               /\ ~Sound(removed.mem, removed.l)
<1> DEFINE removed == list_remove(m, l, 1)
           after == removed.mem
           shrunk == removed.l
           C == Cardinality(Nodes)
<1>0. 1 \in 1 .. Len(s) /\ 2 \in 1 .. Len(s) /\ 1 # Len(s) /\ 1 + 1 = 2
  OBVIOUS
<1>1. /\ s \in Seq(DOMAIN m) /\ s[1] \in DOMAIN m /\ s[2] \in DOMAIN m /\ s[1] # s[2]
      /\ m[s[1]].next = s[2] /\ DOMAIN m \subseteq Nodes
  <2>1. s \in Seq(DOMAIN m) /\ s[1] \in DOMAIN m /\ s[2] \in DOMAIN m
    BY SMTT(20) DEF Linked
  <2>2. s[1] # s[2]
    BY <1>0 DEF Linked, Distinct
  <2>3. m[s[1]].next = NextOf(s, 1)
    BY <1>0 DEF Linked
  <2> QED BY <1>0, <2>1, <2>2, <2>3 DEF NextOf, IsMemory
<1>2. /\ shrunk = ListOf(Without(s, 2))
      /\ DOMAIN after = DOMAIN m \ {s[2]}
      /\ \A k \in DOMAIN after : after[k] = m[k]
  <2>1. ASSUME NEW p \in 1 .. Len(s), p = 2
        PROVE  /\ shrunk = ListOf(Without(s, p))
               /\ DOMAIN after = DOMAIN m \ {s[p]}
               /\ \A k \in DOMAIN after : after[k] = m[k]
    <3>1. p - 1 = 1 /\ ~(Len(s) > 2)
      BY <2>1
    <3>2. removed = list_remove(m, l, p - 1)
      BY <3>1
    <3> HIDE DEF removed
    <3>3. Leaves(m, s, p, removed)
      BY <3>2, RemoveComputes
    <3> QED BY <3>1, <3>3 DEF Leaves
  <2> QED BY <1>0, <2>1
<1> HIDE DEF removed, after, shrunk
<1>3. shrunk = [head |-> s[1], tail |-> s[1], size |-> 1]
  BY <1>2 DEF ListOf, Without
<1>4. NodesOf(after, shrunk) = [i \in 1 .. 1 |-> s[1]]
  <2> DEFINE F(node) == [i \in 1 .. shrunk.size |->
                            IF i = 1 THEN shrunk.head ELSE after[node[i - 1]].next]
  <2>1. \A node : F(node) = [i \in 1 .. 1 |-> s[1]]
    BY <1>3
  <2> HIDE DEF F
  <2>2. NodesOf(after, shrunk) = CHOOSE node : node = F(node)
    BY DEF NodesOf, F
  <2> QED BY <2>1, <2>2
<1>5. Values(after, shrunk) = Without(Values(m, l), 2)
  <2>1. Values(after, shrunk) = [i \in 1 .. 1 |-> m[s[1]].value]
    <3>1. \A i \in 1 .. 1 : list_node_get(after, shrunk, i - 1) = s[1]
      BY <1>4 DEF list_node_get
    <3> QED BY <1>1, <1>2, <1>3, <3>1 DEF Values
  <2>2. Values(m, l) = [i \in 1 .. Len(s) |-> m[s[i]].value]
    BY ZenonT(30), <1>1, LinkedSound
  <2> QED BY <2>1, <2>2 DEF Without
<1>6. C \in Nat /\ 2 <= C
  BY <1>1, LinkedLength
<1> DEFINE W == [k \in 0 .. C |-> IF k = 0 THEN <<s[1]>> ELSE <<s[1], s[2]>>]
<1>7. /\ W = [k \in 0 .. C |-> W[k]] /\ W[0] = <<s[1]>>
      /\ \A k \in 1 .. C : W[k] = <<s[1], s[2]>>
      /\ \A k \in 1 .. C : W[k - 1] = IF k = 1 THEN <<s[1]>> ELSE <<s[1], s[2]>>
  BY <1>6
<1> HIDE DEF W
<1>8. /\ Last(<<s[1]>>) = s[1] /\ Last(<<s[1], s[2]>>) = s[2]
      /\ Append(<<s[1]>>, s[2]) = <<s[1], s[2]>>
  <2>1. <<s[1]>> \in Seq(DOMAIN m) /\ <<s[1], s[2]>> \in Seq(DOMAIN m)
    BY <1>1
  <2>2. Last(<<s[1]>>) = s[1]
    BY DEF Last
  <2>3. Last(<<s[1], s[2]>>) = s[2]
    BY DEF Last
  <2>4. Append(<<s[1]>>, s[2]) = <<s[1], s[2]>>
    BY <1>1, AppendOne
  <2> QED BY <2>2, <2>3, <2>4
<1>9. \A k \in 1 .. C :
          W[k] = IF Last(W[k - 1]) \notin DOMAIN after THEN W[k - 1]
                 ELSE Append(W[k - 1], after[Last(W[k - 1])].next)
  <2> DEFINE x == <<s[1]>>
             y == <<s[1], s[2]>>
  <2>1. Last(x) = s[1] /\ Last(y) = s[2] /\ Append(x, s[2]) = y
    BY <1>8
  <2>2. /\ \A k \in 1 .. C : W[k] = y
        /\ \A k \in 1 .. C : W[k - 1] = IF k = 1 THEN x ELSE y
    BY <1>7
  <2>3. s[1] \in DOMAIN after /\ s[2] \notin DOMAIN after /\ after[s[1]].next = s[2]
    BY <1>1, <1>2
  <2> HIDE DEF x, y
  <2> QED BY <2>1, <2>2, <2>3
<1>10. WalkFrom(after, s[1]) = <<s[1], s[2]>>
  <2>1. GoesOn(W, after, s[1])
    BY <1>7, <1>9 DEF GoesOn
  <2>2. WalkFrom(after, s[1]) = W[C]
    BY <2>1, WalkIs
  <2>3. C \in 1 .. C
    BY <1>6
  <2> HIDE DEF C
  <2> QED BY <1>7, <2>2, <2>3
<1>11. ASSUME Sound(after, shrunk) PROVE FALSE
  <2>1. <<s[1], s[2]>> = [i \in 1 .. 1 |-> s[1]] \o <<NULL>>
    BY <1>3, <1>4, <1>10, <1>11 DEF Sound
  <2>2. [i \in 1 .. 1 |-> s[1]] = <<s[1]>>
    OBVIOUS
  <2>3. <<s[1], s[2]>> = <<s[1], NULL>>
    BY <2>1, <2>2
  <2> QED BY <1>1, <2>3, NodesAssumption DEF NULL
<1> QED BY <1>5, <1>11 DEF removed, after, shrunk

\* list_find of the databases with an id gives the first of them.
LEMMA FirstOfId ==
    ASSUME NEW s, IsMemory(mem), Linked(mem, dbs, s), NEW i \in 1 .. Len(s),
           NEW values, values = Values(mem, dbs), NEW id, id = values[i].id
    PROVE  LET I == {j \in 1 .. Len(values) : values[j].id = id}
           IN  I # {} /\ DbOfId(id) = NodesOf(mem, dbs)[Min(I)]
<1> DEFINE I == {j \in 1 .. Len(values) : values[j].id = id}
           matching == {n \in DOMAIN mem : mem[n].value.id = id}
<1>1. /\ s \in Seq(DOMAIN mem) /\ Len(s) \in Nat
      /\ \A j \in 1 .. Len(s) : s[j] \in DOMAIN mem
      /\ NodesOf(mem, dbs) = s
  BY NodesOfLinked DEF Linked
<1>2. Len(values) = Len(s) /\ \A j \in 1 .. Len(s) : values[j] = mem[s[j]].value
  <2>1. values = [j \in 1 .. Len(s) |-> mem[s[j]].value]
    BY LinkedSound DEF IsMemory
  <2> QED BY <1>1, <2>1
<1>3. i \in I /\ I \in SUBSET Nat
  BY <1>1, <1>2
<1> DEFINE first == Min(I)
<1>4. first \in I /\ \A j \in I : first <= j
  BY <1>3, LeastElement
<1> HIDE DEF first
<1>5. first \in 1 .. Len(s) /\ \A j \in 1 .. first - 1 : j \in 1 .. Len(s) /\ j \notin I
  <2>1. first \in 1 .. Len(s)
    BY <1>2, <1>4
  <2>2. ASSUME NEW j \in 1 .. first - 1 PROVE j \in 1 .. Len(s) /\ j \notin I
    <3>1. j \in 1 .. Len(s) /\ ~(first <= j)
      BY <1>1, <2>1
    <3> QED BY <1>4, <3>1
  <2> QED BY <2>1, <2>2
<1>6. s[first] \in matching /\ \A j \in 1 .. first - 1 : s[j] \notin matching
  BY <1>1, <1>2, <1>4, <1>5
<1>7. list_find(mem, dbs, matching) = s[first]
  <2>1. matching \in SUBSET DOMAIN mem
    OBVIOUS
  <2> HIDE DEF matching
  <2> QED BY <1>5, <1>6, <2>1, FindLinked
<1>8. DbOfId(id) = s[first]
  BY <1>7 DEF DbOfId
<1> QED BY <1>1, <1>3, <1>8 DEF first

\* Whatever the host stores, every operation of the list does to its databases what
\* the same operation does to a sequence (list.c), and list_remove of the second of
\* two nodes is the only one that leaves a pointer to a freed node.
THEOREM ListOpsAreExact == Spec => []ListOpsExact
<1>1. ShellInv => ListOpsExact
  <2> SUFFICES ASSUME ShellInv PROVE ListOpsExact
    OBVIOUS
  <2>1. PICK s, t : Chained(s, t)
    BY DEF ShellInv
  <2>2. /\ IsMemory(mem) /\ Linked(mem, dbs, s) /\ DOMAIN mem \subseteq Nodes
        /\ s \in Seq(DOMAIN mem) /\ Len(s) \in Nat /\ dbs.size = Len(s)
    BY <2>1, ChainedLengths DEF ShellInv, StoreTypes, Chained, IsMemory
  <2> DEFINE values == Values(mem, dbs)
             db == Db(0, 0)
             T == {mem[n].value : n \in DOMAIN mem} \cup {db}
  <2>3. values \in Seq(T) /\ Len(values) = Len(s) /\ db \in T
    <3>1. values = [i \in 1 .. Len(s) |-> mem[s[i]].value]
      BY <2>2, LinkedSound
    <3>2. \A i \in 1 .. Len(s) : mem[s[i]].value \in T
      BY <2>2
    <3> HIDE DEF values, T
    <3>3. values \in [1 .. Len(s) -> T]
      BY <3>1, <3>2
    <3>4. db \in T
      BY DEF T
    <3> QED BY <2>2, <3>1, <3>3, <3>4
  <2> HIDE DEF values, db, T
  <2>4. ASSUME Nodes # DOMAIN mem, NEW i \in 0 .. dbs.size
        PROVE  IsOn(list_add_at(mem, dbs, i, db), InsertAt(values, i + 1, db))
    <3>1. i \in 0 .. Len(s)
      BY <2>2
    <3>2. InsertAt(values, i + 1, db) = Inserted(values, i, db)
      BY <2>3, <3>1, InsertAtIs
    <3>3. IsOn(list_add_at(mem, dbs, i, db), Inserted(values, i, db))
      BY <2>2, <2>4, <3>1, AddAt DEF values
    <3> QED BY <3>2, <3>3
  <2>5. ASSUME NEW i \in 0 .. dbs.size - 1
        PROVE  LET removed == list_remove(mem, dbs, i)
               IN  /\ Values(removed.mem, removed.l) = RemoveAt(values, i + 1)
                   /\ Sound(removed.mem, removed.l) <=> ~(dbs.size = 2 /\ i = 1)
    <3>1. i + 1 \in 1 .. Len(s) /\ i + 1 - 1 = i
      BY <2>2
    <3>2. RemoveAt(values, i + 1) = Without(values, i + 1)
      BY <2>3, <3>1, RemoveAtIs
    <3>3. CASE dbs.size = 2 /\ i = 1
      <4>1. Len(s) = 2 /\ i = 1 /\ i + 1 = 2
        BY <2>2, <3>3
      <4> QED BY <2>2, <3>2, <3>3, <4>1, RemoveSecond DEF values
    <3>4. CASE ~(dbs.size = 2 /\ i = 1)
      <4>1. ~(Len(s) = 2 /\ i + 1 = 2)
        BY <2>2, <3>1, <3>4
      <4>2. IsOn(list_remove(mem, dbs, i + 1 - 1), Without(values, i + 1))
        BY <2>2, <3>1, <4>1, RemoveIndex DEF values
      <4>3. IsOn(list_remove(mem, dbs, i), Without(values, i + 1))
        BY <3>1, <4>2
      <4> QED BY <3>2, <3>4, <4>3 DEF IsOn
    <3> QED BY <3>3, <3>4
  <2>6. ASSUME NEW i \in 1 .. dbs.size
        PROVE  DbOfId(values[i].id) =
                   NodesOf(mem, dbs)[SelectInSeq(values, LAMBDA v : v.id = values[i].id)]
    <3> DEFINE id == values[i].id
               I == {j \in 1 .. Len(values) : values[j].id = id}
    <3>1. i \in 1 .. Len(s) /\ values = Values(mem, dbs)
      BY <2>2 DEF values
    <3>2. I # {} /\ DbOfId(id) = NodesOf(mem, dbs)[Min(I)]
      BY <2>2, <3>1, FirstOfId
    <3> QED BY <3>2 DEF SelectInSeq
  <2> QED BY <2>4, <2>5, <2>6 DEF ListOpsExact, values, db
<1> QED BY <1>1, ShellInvariant, PTL
=============================================================================
