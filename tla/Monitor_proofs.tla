--------------------------- MODULE Monitor_proofs ---------------------------
(***************************************************************************)
(* The databases of the tmon and its daemon, for any EEPROM, settings and  *)
(* number of resets and power cycles.                                      *)
(*                                                                         *)
(* AtMostOneLate is not inductive: that no second temperature is late      *)
(* rests on the match of the timer that was pending being the last one,    *)
(* hence on the interrupt being off whenever the daemon is stopped.        *)
(*                                                                         *)
(* What the EEPROM holds is told by Layout: the addresses of its           *)
(* databases, of which each gives the next one, in order and without       *)
(* overlap, the last one being the one in memory. Every database of the    *)
(* code is found by recursion from the first one; the lemmas about those   *)
(* recursions show by the least address or database at which they could    *)
(* fail that they cannot.                                                  *)
(***************************************************************************)
EXTENDS Monitor, SequenceTheorems, WellFoundedInduction, TLAPS

\* The interrupt of the timer is off while the daemon is stopped
OnlyOngoingTicks == timd => timer_ongoing

\* While a match can still come, or is pending, nothing is late yet
LateIsLast == timer_ongoing \/ timer_elapsed => late = 0

\* The inductive invariant, with the types that it needs
LateInv ==
    /\ timd \in BOOLEAN /\ timer_ongoing \in BOOLEAN /\ timer_elapsed \in BOOLEAN
    /\ late \in {0, 1}
    /\ OnlyOngoingTicks
    /\ LateIsLast

\* The daemon is stopped and nothing is late at power on.
LEMMA InitLateInv == Init => LateInv
BY DEF Init, LateInv, OnlyOngoingTicks, LateIsLast

\* A match is only signalled to a daemon that is started.
LEMMA TickKeeps == ASSUME LateInv, Tick PROVE LateInv'
BY DEF LateInv, OnlyOngoingTicks, LateIsLast, Tick

\* Starting forgets what was late before, whether or not a match is pending.
LEMMA StartKeeps == ASSUME LateInv, temperature_daemon_start PROVE LateInv'
BY DEF LateInv, OnlyOngoingTicks, LateIsLast, temperature_daemon_start, daemonVars,
       settings

\* Every way of stopping switches the interrupt off along with the daemon.
LEMMA StopKeeps ==
    ASSUME LateInv,
           \/ temperature_daemon_stop \/ temperatures_reset
           \/ PowerOff \/ PowerCut
    PROVE  LateInv'
<1>1. CASE temperature_daemon_stop
  BY <1>1 DEF LateInv, OnlyOngoingTicks, LateIsLast, temperature_daemon_stop, Stop
<1>2. CASE temperatures_reset
  BY <1>2 DEF LateInv, OnlyOngoingTicks, LateIsLast, temperatures_reset, Stop
<1>3. CASE PowerOff \/ PowerCut
  <2>1. timd' = FALSE /\ timer_ongoing' = FALSE /\ late' = late
    BY <1>3 DEF PowerOff, PowerCut, PowerOn, Stop
  <2>2. CASE PowerOff
    BY <2>1, <2>2 DEF LateInv, OnlyOngoingTicks, LateIsLast, PowerOff
  <2>3. CASE PowerCut
    BY <2>1, <2>3 DEF LateInv, OnlyOngoingTicks, LateIsLast, PowerCut
  <2> QED
    BY <1>3, <2>2, <2>3
<1> QED
  BY <1>1, <1>2, <1>3

\* The handler uses the pending match up: what it registers late is the last.
LEMMA HandlerKeeps == ASSUME LateInv, temperature_daemon_handler PROVE LateInv'
<1>1. timer_elapsed /\ timer_elapsed' = FALSE /\ late = 0
  BY DEF LateInv, LateIsLast, temperature_daemon_handler
<1>2. CASE /\ late' = IF timer_ongoing THEN late ELSE late + 1
           /\ UNCHANGED <<timer_ongoing, timd>>
  <2>1. /\ timd' \in BOOLEAN /\ timer_ongoing' \in BOOLEAN
        /\ (timd' => timer_ongoing') /\ (timer_ongoing' <=> timer_ongoing)
    BY <1>2, Zenon DEF LateInv, OnlyOngoingTicks
  <2>2. late' \in {0, 1} /\ (timer_ongoing => late' = 0)
    BY <1>1, <1>2
  <2> QED
    BY <1>1, <2>1, <2>2 DEF LateInv, OnlyOngoingTicks, LateIsLast
<1>3. CASE StopWhenFull /\ UNCHANGED late
  BY <1>1, <1>3 DEF LateInv, OnlyOngoingTicks, LateIsLast, StopWhenFull, Stop
<1> QED
  BY <1>2, <1>3 DEF temperature_daemon_handler

\* The settings leave the daemon as it is.
LEMMA SettingsKeep ==
    ASSUME LateInv,
           \/ \E tint \in Intervals : temperature_daemon_set_interval(tint)
           \/ \E tres \in Resolutions : temperature_daemon_set_resolution(tres)
    PROVE  LateInv'
BY DEF LateInv, OnlyOngoingTicks, LateIsLast, temperature_daemon_set_interval,
       temperature_daemon_set_resolution

\* Every step, of the interrupt, the handler or the user, keeps the invariant.
LEMMA NextLateInv == LateInv /\ [Next]_vars => LateInv'
<1> SUFFICES ASSUME LateInv, [Next]_vars PROVE LateInv'
  OBVIOUS
<1>1. CASE Tick
  BY <1>1, TickKeeps
<1>2. CASE temperature_daemon_handler
  BY <1>2, HandlerKeeps
<1>3. CASE UserStep
  BY <1>3, StartKeeps, StopKeeps, SettingsKeep DEF UserStep
<1>4. CASE UNCHANGED vars
  BY <1>4 DEF LateInv, OnlyOngoingTicks, LateIsLast, vars, daemonVars
<1> QED
  BY <1>1, <1>2, <1>3, <1>4 DEF Next

\* At most one temperature is registered after the daemon is stopped, by the
\* user, a reset, a full EEPROM or a power off.
THEOREM StoppedRegistersAtMostOne == Spec => []AtMostOneLate
<1>1. LateInv => AtMostOneLate
  BY DEF LateInv, AtMostOneLate
<1> QED
  BY <1>1, InitLateInv, NextLateInv, PTL DEF Spec

-----------------------------------------------------------------------------
(***************************************************************************)
(* The databases in the EEPROM.  Each is found from the one before it, and *)
(* whatever follows the last one is not looked at; so the proofs follow    *)
(* the sequence of the addresses the databases have.                       *)
(***************************************************************************)

\* The power is only cut while temperature_init still loads the last database: with
\* three of them it loads the second one, as the run MonitorPower shows.
PowerCutsAtFew == MaxDbsPowered <= 3

\* The ids count the databases and start again after the last id.
LEMMA NextPlace ==
    ASSUME NEW D \in Nat \ {0}, NEW m \in Nat
    PROVE  ((m % D) + 1) % D = (m + 1) % D
<1>1. PICK r \in 0 .. D - 1 : r = m % D
  OBVIOUS
<1>2. PICK q \in Int : m = D * q + r
  <2>1. m = D * (m \div D) + (m % D)
    OBVIOUS
  <2>2. m \div D \in Int
    OBVIOUS
  <2> QED BY <1>1, <2>1, <2>2
<1>3. CASE r + 1 < D
  <2>1. (m + 1) % D = r + 1
    BY <1>2, <1>3, SMTT(20)
  <2> QED BY <1>1, <1>3, <2>1
<1>4. CASE r + 1 = D
  <2>1. PICK n \in Nat : n = m + 1
    OBVIOUS
  <2>2. PICK p \in Int : p = q + 1
    OBVIOUS
  <2>3. n = D * p
    BY <1>2, <1>4, <2>1, <2>2, SMTT(20)
  <2>4. n % D = 0
    BY <2>3, SMTT(20)
  <2>5. (r + 1) % D = 0
    BY <1>4
  <2> QED BY <1>1, <2>1, <2>4, <2>5
<1> QED BY <1>3, <1>4

\* A nonempty set of numbers has a least element.
LEMMA LeastNumber ==
    ASSUME NEW S \in SUBSET Nat, S # {}
    PROVE  \E least \in S : \A n \in S : least <= n
<1>1. PICK least \in S : \A n \in S : ~(<<n, least>> \in OpToRel(<, Nat))
  BY NatLessThanWellFounded, WFMin
<1>2. \A n \in Nat : n < least => <<n, least>> \in OpToRel(<, Nat)
  BY DEF OpToRel
<1>3. \A n \in S : ~(n < least)
  BY <1>1, <1>2
<1>4. \A n \in S : least <= n
  BY <1>3
<1> QED BY <1>4

\* A function that is told for an address from what it is for a higher one
Tells(f, A, next, base, F) ==
    f = [a \in A |-> IF next[a] = NULL THEN base[a] ELSE F[a][f[next[a]]]]

\* Such a function exists, as addresses end: the recursive definitions of the module
\* mean what they say, whatever the EEPROM holds.
LEMMA DownwardRecursion ==
    ASSUME NEW N \in Nat, NEW T,
           NEW next \in [0 .. N - 1 -> Int],
           \A a \in 0 .. N - 1 : next[a] = NULL \/ next[a] \in a + 1 .. N - 1,
           NEW base \in [0 .. N - 1 -> T], NEW F \in [0 .. N - 1 -> [T -> T]]
    PROVE  \E f \in [0 .. N - 1 -> T] : Tells(f, 0 .. N - 1, next, base, F)
<1> DEFINE Last(n) == N - n .. N - 1
           Has(n) == \E f \in [Last(n) -> T] : Tells(f, Last(n), next, base, F)
           Wrong == {n \in 0 .. N : ~Has(n)}
<1> HIDE DEF Last, Has
<1>1. ASSUME Wrong # {} PROVE FALSE
  <2>1. PICK n \in Wrong : \A i \in Wrong : n <= i
    <3>1. Wrong \in SUBSET Nat
      OBVIOUS
    <3> HIDE DEF Wrong
    <3> QED BY <1>1, <3>1, LeastNumber
  <2>2. n # 0
    <3>1. Last(0) = {}
      BY DEF Last
    <3>2. PICK f : f = [a \in Last(0) |-> IF next[a] = NULL THEN base[a] ELSE F[a][0]]
      OBVIOUS
    <3>3. f \in [Last(0) -> T] /\ Tells(f, Last(0), next, base, F)
      BY <3>1, <3>2 DEF Tells
    <3>4. Has(0)
      BY <3>3 DEF Has
    <3> QED BY <2>1, <3>4
  <2>3. Has(n - 1)
    <3>1. n - 1 \in 0 .. N /\ ~(n <= n - 1)
      BY <2>1, <2>2
    <3> QED BY <2>1, <3>1
  <2>4. PICK f \in [Last(n - 1) -> T] : Tells(f, Last(n - 1), next, base, F)
    BY <2>3 DEF Has
  <2> DEFINE b == N - n
             top == IF next[b] = NULL THEN base[b] ELSE F[b][f[next[b]]]
             g == [a \in Last(n) |-> IF a = b THEN top ELSE f[a]]
  <2>5. /\ b \in 0 .. N - 1 /\ b \in Last(n) /\ b \notin Last(n - 1)
        /\ Last(n) = Last(n - 1) \cup {b} /\ Last(n) \subseteq 0 .. N - 1
    <3>1. n \in 1 .. N /\ Last(n) = b .. N - 1 /\ Last(n - 1) = b + 1 .. N - 1
      BY <2>1, <2>2 DEF Last
    <3>2. b \in 0 .. N - 1
      BY <3>1
    <3> HIDE DEF b
    <3>3. b .. N - 1 = (b + 1 .. N - 1) \cup {b} /\ b \in b .. N - 1 /\ b \notin b + 1 .. N - 1
      BY <3>2
    <3>4. b .. N - 1 \subseteq 0 .. N - 1
      BY <3>2
    <3> QED BY <3>1, <3>2, <3>3, <3>4
  <2>6. \A a \in Last(n) : next[a] = NULL \/ (next[a] \in Last(n - 1) /\ next[a] # b)
    <3> SUFFICES ASSUME NEW a \in Last(n), next[a] # NULL
                 PROVE  next[a] \in Last(n - 1) /\ next[a] # b
      OBVIOUS
    <3>1. a \in 0 .. N - 1 /\ a >= b /\ next[a] \in a + 1 .. N - 1
      BY <2>1, <2>5 DEF Last
    <3>2. Last(n - 1) = b + 1 .. N - 1
      BY <2>1 DEF Last
    <3> QED BY <2>1, <3>1, <3>2
  <2> HIDE DEF b
  <2>7. top \in T
    BY <2>4, <2>5, <2>6
  <2>8. \A a \in Last(n - 1) : f[a] \in T /\ f[a] = IF next[a] = NULL THEN base[a] ELSE F[a][f[next[a]]]
    BY <2>4 DEF Tells
  <2> HIDE DEF top
  <2>9. g \in [Last(n) -> T]
    BY <2>5, <2>7, <2>8
  <2>10. \A a \in Last(n) : g[a] = IF next[a] = NULL THEN base[a] ELSE F[a][g[next[a]]]
    <3> SUFFICES ASSUME NEW a \in Last(n)
                 PROVE  g[a] = IF next[a] = NULL THEN base[a] ELSE F[a][g[next[a]]]
      OBVIOUS
    <3>1. next[a] # NULL => next[a] \in Last(n) /\ g[next[a]] = f[next[a]]
      BY <2>5, <2>6
    <3>2. CASE a = b
      BY <3>1, <3>2 DEF top
    <3>3. CASE a # b
      <4>1. a \in Last(n - 1) /\ g[a] = f[a]
        BY <2>5, <3>3
      <4> QED BY <2>8, <3>1, <4>1
    <3> QED BY <3>2, <3>3
  <2>11. Tells(g, Last(n), next, base, F)
    <3>1. g = [a \in Last(n) |-> g[a]]
      OBVIOUS
    <3> HIDE DEF g
    <3> QED BY <2>10, <3>1 DEF Tells
  <2>12. Has(n)
    BY <2>9, <2>11 DEF Has
  <2> QED BY <2>1, <2>12
<1>2. Has(N)
  <2>1. N \in 0 .. N
    OBVIOUS
  <2> QED BY <1>1, <2>1
<1>3. Last(N) = 0 .. N - 1
  BY DEF Last
<1> QED BY <1>2, <1>3 DEF Has

Cells == nvm \in [Addresses -> Nat]

\* The next database is at a higher address, after the header and one temperature.
LEMMA NextIsHigher ==
    ASSUME Cells, NEW addr \in Addresses
    PROVE  LET next == NextAddr(Fetch(addr))
           IN  next = NULL \/ (next \in addr + 1 .. NVM_SIZE - 1 /\ next \in Addresses)
<1> DEFINE used == nvm[addr]
           next == NextAddr(Fetch(addr))
<1>1. used \in Nat /\ addr \in 0 .. NVM_SIZE - 1 /\ NVM_SIZE \in Nat
  BY TempDbAssumption DEF Cells, Addresses, NVM_LIMIT
<1>2. Fetch(addr).used = used /\ Fetch(addr).nvm_addr = addr
  BY <1>1 DEF Fetch, USED
<1> HIDE DEF used
<1>3. item_nvm_addr(Fetch(addr)) = addr + 4 + used
  BY <1>2 DEF item_nvm_addr, ITEMS
<1>4. \/ next = NULL
      \/ ~(addr + 4 + used + 5 > NVM_SIZE - 1 - 5) /\ next = addr + 4 + used
  BY <1>3 DEF NextAddr, TEMP_DB_MIN_SIZE, ITEMS, NVM_LIMIT
<1> HIDE DEF next
<1> QED BY <1>1, <1>4 DEF Addresses, NVM_LIMIT, next

\* The function of the next addresses
NextOf == [addr \in Addresses |-> NextAddr(Fetch(addr))]

\* The address of the next database is a higher one, or none.
LEMMA NextOfType ==
    ASSUME Cells
    PROVE  /\ Addresses = 0 .. NVM_SIZE - 1 /\ NVM_SIZE \in Nat /\ 0 \in Addresses
           /\ NextOf \in [Addresses -> Int]
           /\ \A a \in Addresses : NextOf[a] = NULL \/ NextOf[a] \in a + 1 .. NVM_SIZE - 1
<1>1. Addresses = 0 .. NVM_SIZE - 1 /\ NVM_SIZE \in Nat /\ 0 \in Addresses
  BY TempDbAssumption DEF Addresses, NVM_LIMIT, TEMP_DB_MIN_SIZE, ITEMS
<1>2. \A a \in Addresses : NextOf[a] = NULL \/ NextOf[a] \in a + 1 .. NVM_SIZE - 1
  BY NextIsHigher DEF NextOf
<1>3. \A a \in Addresses : NextOf[a] \in Int
  BY <1>1, <1>2 DEF NULL
<1> QED BY <1>1, <1>2, <1>3 DEF NextOf

\* DownwardRecursion for the addresses of the EEPROM.
LEMMA EepromRecursion ==
    ASSUME NEW next \in [Addresses -> Int],
           \A a \in Addresses : next[a] = NULL \/ next[a] \in a + 1 .. NVM_SIZE - 1,
           NEW T, NEW base \in [Addresses -> T], NEW F \in [Addresses -> [T -> T]]
    PROVE  \E f \in [Addresses -> T] : Tells(f, Addresses, next, base, F)
<1>1. Addresses = 0 .. NVM_SIZE - 1 /\ NVM_SIZE \in Nat
  BY TempDbAssumption DEF Addresses, NVM_LIMIT
<1>2. /\ next \in [0 .. NVM_SIZE - 1 -> Int]
      /\ \A a \in 0 .. NVM_SIZE - 1 : next[a] = NULL \/ next[a] \in a + 1 .. NVM_SIZE - 1
      /\ base \in [0 .. NVM_SIZE - 1 -> T] /\ F \in [0 .. NVM_SIZE - 1 -> [T -> T]]
  BY <1>1
<1>3. \E f \in [0 .. NVM_SIZE - 1 -> T] : Tells(f, 0 .. NVM_SIZE - 1, next, base, F)
  BY <1>1, <1>2, DownwardRecursion
<1> QED BY <1>1, <1>3

\* The sessions read back, from any address on.
LEMMA SessionsFrom ==
    ASSUME Cells
    PROVE  \E f : /\ Sessions = f[0]
                  /\ \A addr \in Addresses :
                        f[addr] = IF NextAddr(Fetch(addr)) = NULL THEN <<Items(addr)>>
                                  ELSE <<Items(addr)>> \o f[NextAddr(Fetch(addr))]
<1> DEFINE Def(f) == f = [addr \in Addresses |->
                            IF NextAddr(Fetch(addr)) = NULL THEN <<Items(addr)>>
                            ELSE <<Items(addr)>> \o f[NextAddr(Fetch(addr))]]
           T == Seq({Items(addr) : addr \in Addresses})
           base == [addr \in Addresses |-> <<Items(addr)>>]
           F == [addr \in Addresses |-> [s \in T |-> <<Items(addr)>> \o s]]
<1>1. \A addr \in Addresses : <<Items(addr)>> \in T
  OBVIOUS
<1>2. \A addr \in Addresses, s \in T : <<Items(addr)>> \o s \in T
  BY <1>1
<1> HIDE DEF T
<1>3. base \in [Addresses -> T] /\ F \in [Addresses -> [T -> T]]
  BY <1>1, <1>2
<1> HIDE DEF base, F
<1>4. PICK f \in [Addresses -> T] : Tells(f, Addresses, NextOf, base, F)
  <2>1. /\ NextOf \in [Addresses -> Int]
        /\ \A a \in Addresses : NextOf[a] = NULL \/ NextOf[a] \in a + 1 .. NVM_SIZE - 1
    BY NextOfType
  <2> QED BY <1>3, <2>1, EepromRecursion
<1>5. \A addr \in Addresses :
         f[addr] = IF NextAddr(Fetch(addr)) = NULL THEN <<Items(addr)>>
                   ELSE <<Items(addr)>> \o f[NextAddr(Fetch(addr))]
  <2> SUFFICES ASSUME NEW addr \in Addresses
               PROVE  f[addr] = IF NextAddr(Fetch(addr)) = NULL THEN <<Items(addr)>>
                                ELSE <<Items(addr)>> \o f[NextAddr(Fetch(addr))]
    OBVIOUS
  <2>1. f[addr] = IF NextOf[addr] = NULL THEN base[addr] ELSE F[addr][f[NextOf[addr]]]
    BY <1>4 DEF Tells
  <2>2. NextOf[addr] = NextAddr(Fetch(addr)) /\ base[addr] = <<Items(addr)>>
    BY DEF NextOf, base
  <2>3. NextOf[addr] # NULL => f[NextOf[addr]] \in T
    <3>1. NextOf[addr] # NULL => NextOf[addr] \in Addresses
      BY <2>2, NextIsHigher
    <3> QED BY <3>1
  <2>4. \A s \in T : F[addr][s] = <<Items(addr)>> \o s
    BY DEF F
  <2> QED BY <2>1, <2>2, <2>3, <2>4
<1>6. Def(f)
  <2>1. f = [addr \in Addresses |-> f[addr]]
    OBVIOUS
  <2> QED BY <1>5, <2>1
<1> DEFINE g == CHOOSE h : Def(h)
<1>7. Def(g)
  BY <1>6
<1>8. Sessions = g[0]
  BY DEF Sessions
<1>9. \A addr \in Addresses :
         g[addr] = IF NextAddr(Fetch(addr)) = NULL THEN <<Items(addr)>>
                   ELSE <<Items(addr)>> \o g[NextAddr(Fetch(addr))]
  <2> HIDE DEF g
  <2> QED BY <1>7
<1> QED BY <1>8, <1>9

\* The databases are at these addresses, and their ids count them, as far as there are
\* ids: each ends before the ones after it begin, and the last one is the database in use.
Layout(addrs) ==
    /\ addrs \in Seq(Addresses) /\ Len(addrs) # 0 /\ addrs[1] = 0
    /\ \A k \in 1 .. Len(addrs) : Fetch(addrs[k]).id = (k - 1) % DB_IDS
    /\ \A k \in 1 .. Len(addrs) - 1 : NextAddr(Fetch(addrs[k])) = addrs[k + 1]
    /\ \A j, k \in 1 .. Len(addrs) : j < k => item_nvm_addr(Fetch(addrs[j])) <= addrs[k]
    /\ Fetch(addrs[Len(addrs)]) = local_db /\ NextAddr(local_db) = NULL
    /\ item_nvm_addr(local_db) <= NVM_SIZE

\* The databases of a layout lie at addresses of the EEPROM.
LEMMA LayoutAddresses ==
    ASSUME NEW addrs, Layout(addrs)
    PROVE  /\ Len(addrs) \in Nat \ {0} /\ Len(addrs) \in 1 .. Len(addrs)
           /\ \A k \in 1 .. Len(addrs) : addrs[k] \in Addresses /\ addrs[k] \in Nat
BY TempDbAssumption DEF Layout, Addresses, NVM_LIMIT

\* A sequence put behind one element.
LEMMA ElementBefore ==
    ASSUME NEW T, NEW x \in T, NEW s \in Seq(T), NEW u \in Seq(T),
           Len(u) = Len(s) + 1, u[1] = x, \A i \in 1 .. Len(s) : u[i + 1] = s[i]
    PROVE  <<x>> \o s = u
<1> DEFINE v == <<x>> \o s
<1>1. <<x>> \in Seq(T) /\ Len(<<x>>) = 1 /\ <<x>>[1] = x
  OBVIOUS
<1>2. /\ v \in Seq(T) /\ Len(v) = 1 + Len(s)
      /\ \A i \in 1 .. 1 + Len(s) : v[i] = IF i <= 1 THEN <<x>>[i] ELSE s[i - 1]
  BY <1>1, ConcatProperties
<1> HIDE DEF v
<1>3. \A i \in 1 .. Len(u) : v[i] = u[i]
  <2> SUFFICES ASSUME NEW i \in 1 .. Len(u) PROVE v[i] = u[i]
    OBVIOUS
  <2>1. CASE i = 1
    BY <1>1, <1>2, <2>1
  <2>2. CASE i # 1
    <3>1. i - 1 \in 1 .. Len(s) /\ i - 1 + 1 = i /\ ~(i <= 1) /\ i \in 1 .. 1 + Len(s)
      BY <2>2
    <3>2. u[i - 1 + 1] = s[i - 1]
      BY <3>1
    <3> QED BY <1>2, <3>1, <3>2
  <2> QED BY <2>1, <2>2
<1>4. Len(v) = Len(u)
  BY <1>2
<1>5. v = u
  BY <1>2, <1>3, <1>4, SeqEqual
<1> QED BY <1>5 DEF v

\* The sessions read back are the items of the databases, in their order.
LEMMA SessionsLaid ==
    ASSUME Cells, NEW addrs, Layout(addrs)
    PROVE  Sessions = [k \in 1 .. Len(addrs) |-> Items(addrs[k])]
<1> DEFINE n == Len(addrs)
           T == {Items(addr) : addr \in Addresses}
           rest(k) == [i \in 1 .. n - k + 1 |-> Items(addrs[k + i - 1])]
<1>1. n \in Nat \ {0} /\ n \in 1 .. n /\ \A k \in 1 .. n : addrs[k] \in Addresses
  BY LayoutAddresses
<1>2. PICK f : /\ Sessions = f[0]
               /\ \A addr \in Addresses :
                     f[addr] = IF NextAddr(Fetch(addr)) = NULL THEN <<Items(addr)>>
                               ELSE <<Items(addr)>> \o f[NextAddr(Fetch(addr))]
  BY SessionsFrom
<1> DEFINE Wrong == {i \in 0 .. n - 1 : f[addrs[n - i]] # rest(n - i)}
<1>3. ASSUME NEW k \in 1 .. n
      PROVE  /\ rest(k) \in Seq(T) /\ Len(rest(k)) = n - k + 1
             /\ \A i \in 1 .. n - k + 1 : rest(k)[i] = Items(addrs[k + i - 1])
  <2>1. n - k + 1 \in Nat /\ \A i \in 1 .. n - k + 1 : k + i - 1 \in 1 .. n
    BY <1>1
  <2> HIDE DEF n
  <2>2. \A i \in 1 .. n - k + 1 : Items(addrs[k + i - 1]) \in T
    BY <1>1, <2>1
  <2> HIDE DEF T
  <2> QED BY <2>1, <2>2
<1> HIDE DEF rest
<1>4. f[addrs[n]] = rest(n)
  <2>1. f[addrs[n]] = <<Items(addrs[n])>>
    <3>1. NextAddr(Fetch(addrs[n])) = NULL
      BY DEF Layout
    <3> QED BY <1>1, <1>2, <3>1
  <2>2. rest(n) \in Seq(T) /\ Len(rest(n)) = 1 /\ rest(n)[1] = Items(addrs[n])
    <3>1. n - n + 1 = 1 /\ n + 1 - 1 = n /\ 1 \in 1 .. 1
      BY <1>1
    <3>2. rest(n)[1] = Items(addrs[n + 1 - 1])
      BY <1>1, <1>3, <3>1
    <3> QED BY <1>1, <1>3, <3>1, <3>2
  <2>3. rest(n) = <<Items(addrs[n])>>
    <3> HIDE DEF n, T
    <3> QED BY <2>2, SMTT(20)
  <2> QED BY <2>1, <2>3
<1>5. ASSUME NEW k \in 1 .. n - 1, f[addrs[k + 1]] = rest(k + 1)
      PROVE  f[addrs[k]] = rest(k)
  <2>1. k \in 1 .. n /\ k + 1 \in 1 .. n /\ n - k + 1 = n - (k + 1) + 1 + 1
    BY <1>1
  <2>2. NextAddr(Fetch(addrs[k])) = addrs[k + 1] /\ addrs[k + 1] # NULL
    BY SMTT(20), <1>1, <2>1, LayoutAddresses DEF Layout, NULL
  <2>3. f[addrs[k]] = <<Items(addrs[k])>> \o rest(k + 1)
    BY <1>1, <1>2, <1>5, <2>1, <2>2
  <2>4. <<Items(addrs[k])>> \o rest(k + 1) = rest(k)
    <3>1. rest(k) \in Seq(T) /\ rest(k + 1) \in Seq(T) /\ Len(rest(k)) = Len(rest(k + 1)) + 1
      BY <1>3, <2>1
    <3>2. Items(addrs[k]) \in T
      BY <1>1, <2>1
    <3>3. rest(k)[1] = Items(addrs[k])
      <4>1. 1 \in 1 .. n - k + 1 /\ k + 1 - 1 = k
        BY <1>1, <2>1
      <4>2. rest(k)[1] = Items(addrs[k + 1 - 1])
        BY <1>3, <2>1, <4>1
      <4> QED BY <4>1, <4>2
    <3>4. ASSUME NEW i \in 1 .. Len(rest(k + 1))
          PROVE  rest(k)[i + 1] = rest(k + 1)[i]
      <4>1. Len(rest(k + 1)) = n - (k + 1) + 1
        BY <1>3, <2>1
      <4>2. /\ i \in 1 .. n - (k + 1) + 1 /\ i + 1 \in 1 .. n - k + 1
            /\ k + (i + 1) - 1 = k + 1 + i - 1
        BY <1>1, <2>1, <4>1
      <4>3. rest(k)[i + 1] = Items(addrs[k + (i + 1) - 1])
        BY <1>3, <2>1, <4>2
      <4>4. rest(k + 1)[i] = Items(addrs[k + 1 + i - 1])
        BY <1>3, <2>1, <4>2
      <4> QED BY <4>2, <4>3, <4>4
    <3> HIDE DEF T
    <3> QED BY <3>1, <3>2, <3>3, <3>4, ElementBefore
  <2> QED BY <2>3, <2>4
<1>6. ASSUME Wrong # {} PROVE FALSE
  <2>1. PICK i \in Wrong : \A j \in Wrong : i <= j
    <3>1. Wrong \in SUBSET Nat
      BY <1>1
    <3> HIDE DEF Wrong
    <3> QED BY <1>6, <3>1, LeastNumber
  <2>2. i # 0
    <3>1. n - 0 = n
      BY <1>1
    <3> QED BY <1>4, <2>1, <3>1
  <2>3. /\ i - 1 \in 0 .. n - 1 /\ ~(i <= i - 1) /\ n - i \in 1 .. n - 1
        /\ n - (i - 1) = n - i + 1
    BY <1>1, <2>1, <2>2
  <2>4. f[addrs[n - (i - 1)]] = rest(n - (i - 1))
    BY <2>1, <2>3
  <2>5. f[addrs[n - i]] = rest(n - i)
    BY <1>5, <2>3, <2>4
  <2> QED BY <2>1, <2>5
<1>7. f[addrs[1]] = rest(1)
  <2>1. n - 1 \in 0 .. n - 1 /\ n - (n - 1) = 1
    BY <1>1
  <2> QED BY <1>6, <2>1
<1>8. rest(1) = [k \in 1 .. n |-> Items(addrs[k])]
  <2>1. n - 1 + 1 = n /\ \A i \in 1 .. n : 1 + i - 1 = i
    BY <1>1
  <2> HIDE DEF n
  <2> QED BY <2>1 DEF rest
<1> QED BY <1>2, <1>7, <1>8 DEF Layout

\* The sessions after a step, likewise.
LEMMA SessionsLaidThen ==
    (\A addrs : Cells /\ Layout(addrs) => Sessions = [k \in 1 .. Len(addrs) |-> Items(addrs[k])])'
<1>1. \A addrs : Cells /\ Layout(addrs) => Sessions = [k \in 1 .. Len(addrs) |-> Items(addrs[k])]
  BY SessionsLaid
<1> QED BY <1>1, PTL

\* A header is made of the four cells from its address on, which are there.
LEMMA HeaderCells ==
    ASSUME NEW addr \in Int, 0 <= addr, addr + ITEMS <= NVM_SIZE
    PROVE  /\ addr \in Addresses /\ addr + 1 \in Addresses
           /\ addr + 2 \in Addresses /\ addr + 3 \in Addresses
           /\ Fetch(addr) = [used |-> nvm[addr], interval |-> nvm[addr + 1],
                             id |-> nvm[addr + 2], locked |-> nvm[addr + 3] = 1,
                             nvm_addr |-> addr]
<1>1. /\ addr \in Addresses /\ addr + 1 \in Addresses
      /\ addr + 2 \in Addresses /\ addr + 3 \in Addresses
  BY TempDbAssumption DEF Addresses, NVM_LIMIT, ITEMS
<1>2. addr + 0 = addr
  OBVIOUS
<1> QED BY <1>1, <1>2 DEF Fetch, USED, INTERVAL, ID, LOCKED

\* The databases before the last one, with their temperatures, are all below it.
LEMMA EarlierKept ==
    ASSUME Cells, Cells', NEW addrs, Layout(addrs),
           \A c \in Addresses : c < local_db.nvm_addr => nvm'[c] = nvm[c],
           NEW k \in 1 .. Len(addrs) - 1
    PROVE  Fetch(addrs[k])' = Fetch(addrs[k]) /\ Items(addrs[k])' = Items(addrs[k])
<1> DEFINE n == Len(addrs)
           a == addrs[k]
           b == local_db.nvm_addr
           used == nvm[a]
<1>1. n \in Nat \ {0} /\ k \in 1 .. n /\ n \in 1 .. n /\ k < n
  BY LayoutAddresses
<1>2. addrs[n] = b /\ b \in Nat /\ b < NVM_SIZE /\ a \in Nat /\ a < NVM_SIZE
  <2>1. addrs[n] = b
    BY DEF Layout, Fetch
  <2>2. \A c \in Addresses : c < NVM_SIZE
    BY TempDbAssumption DEF Addresses, NVM_LIMIT
  <2> QED BY <1>1, <2>1, <2>2, LayoutAddresses
<1>3. item_nvm_addr(Fetch(a)) <= b
  <2> HIDE DEF b, n
  <2> QED BY <1>1, <1>2 DEF Layout, n
<1>4. a \in Addresses /\ used \in Nat
  BY <1>1, LayoutAddresses DEF Cells
<1>5. item_nvm_addr(Fetch(a)) = a + 4 + used
  <2>1. a + 0 = a
    BY <1>2
  <2> QED BY <2>1 DEF item_nvm_addr, Fetch, ITEMS, USED
<1> HIDE DEF n, a, b, used
<1>6. a + 4 + used <= b
  BY <1>3, <1>5
<1>7. a + ITEMS <= NVM_SIZE /\ a \in Int /\ 0 <= a
  BY <1>2, <1>4, <1>6, TempDbAssumption DEF ITEMS
<1>8. \A c \in Int : 0 <= c /\ c < b => nvm'[c] = nvm[c]
  <2> SUFFICES ASSUME NEW c \in Int, 0 <= c, c < b PROVE nvm'[c] = nvm[c]
    OBVIOUS
  <2>1. c \in Addresses
    BY <1>2, TempDbAssumption DEF Addresses, NVM_LIMIT
  <2> QED BY <2>1 DEF b
<1>9. nvm'[a] = nvm[a] /\ nvm'[a + 1] = nvm[a + 1] /\ nvm'[a + 2] = nvm[a + 2] /\ nvm'[a + 3] = nvm[a + 3]
  <2>1. /\ a < b /\ a + 1 < b /\ a + 2 < b /\ a + 3 < b
        /\ a \in Int /\ a + 1 \in Int /\ a + 2 \in Int /\ a + 3 \in Int
        /\ 0 <= a /\ 0 <= a + 1 /\ 0 <= a + 2 /\ 0 <= a + 3
    BY <1>2, <1>4, <1>6
  <2> QED BY <1>8, <2>1
<1>10. a + USED = a /\ a + INTERVAL = a + 1 /\ a + ID = a + 2 /\ a + LOCKED = a + 3 /\ a + ITEMS = a + 4
  BY <1>2 DEF USED, INTERVAL, ID, LOCKED, ITEMS
<1>11. Fetch(a)' = Fetch(a)
  BY <1>9, <1>10 DEF Fetch
<1>12. Items(a)' = Items(a)
  <2>1. nvm'[a + USED] = used /\ nvm[a + USED] = used
    BY <1>9, <1>10 DEF used
  <2>2. \A i \in 1 .. used : nvm'[a + ITEMS + i - 1] = nvm[a + ITEMS + i - 1]
    <3> SUFFICES ASSUME NEW i \in 1 .. used
                 PROVE  nvm'[a + ITEMS + i - 1] = nvm[a + ITEMS + i - 1]
      OBVIOUS
    <3>1. /\ a + ITEMS + i - 1 \in Int /\ 0 <= a + ITEMS + i - 1
          /\ a + ITEMS + i - 1 < b
      BY <1>2, <1>4, <1>6 DEF ITEMS
    <3> QED BY <1>8, <3>1
  <2> QED BY <2>1, <2>2 DEF Items
<1> QED BY <1>11, <1>12 DEF a

\* A step that only writes to the last database, or behind it, keeps the databases
\* where they are.
LEMMA LayoutAfter ==
    ASSUME Cells, Cells', NEW addrs, Layout(addrs),
           \A c \in Addresses : c < local_db.nvm_addr => nvm'[c] = nvm[c],
           local_db'.id = local_db.id, local_db'.nvm_addr = local_db.nvm_addr,
           Fetch(local_db.nvm_addr)' = local_db', NextAddr(local_db') = NULL,
           item_nvm_addr(local_db') <= NVM_SIZE
    PROVE  Layout(addrs)'
<1> DEFINE n == Len(addrs)
<1>1. n \in Nat \ {0} /\ n \in 1 .. n /\ \A k \in 1 .. n : k = n \/ k \in 1 .. n - 1
  BY LayoutAddresses
<1>2. \A k \in 1 .. n - 1 : Fetch(addrs[k])' = Fetch(addrs[k])
  BY EarlierKept
<1>3. addrs[n] = local_db.nvm_addr /\ Fetch(addrs[n]) = local_db
  BY DEF Layout, Fetch
<1>4. Fetch(addrs[n])' = local_db'
  BY <1>3
<1>5. \A k \in 1 .. n : Fetch(addrs[k]).id' = (k - 1) % DB_IDS
  <2> SUFFICES ASSUME NEW k \in 1 .. n PROVE Fetch(addrs[k]).id' = (k - 1) % DB_IDS
    OBVIOUS
  <2>1. Fetch(addrs[k]).id = (k - 1) % DB_IDS
    BY DEF Layout
  <2>2. CASE k = n
    BY <1>3, <1>4, <2>1, <2>2
  <2>3. CASE k \in 1 .. n - 1
    BY <1>2, <2>1, <2>3
  <2> QED BY <1>1, <2>2, <2>3
<1>6. \A k \in 1 .. n - 1 : NextAddr(Fetch(addrs[k])') = addrs[k + 1]
  BY <1>2 DEF Layout
<1>7. \A j, k \in 1 .. n : j < k => item_nvm_addr(Fetch(addrs[j])') <= addrs[k]
  <2> SUFFICES ASSUME NEW j \in 1 .. n, NEW k \in 1 .. n, j < k
               PROVE  item_nvm_addr(Fetch(addrs[j])') <= addrs[k]
    OBVIOUS
  <2>1. j \in 1 .. n - 1
    BY <1>1
  <2>2. item_nvm_addr(Fetch(addrs[j])) <= addrs[k]
    BY DEF Layout
  <2> QED BY <1>2, <2>1, <2>2
<1>8. addrs \in Seq(Addresses) /\ Len(addrs) # 0 /\ addrs[1] = 0
  BY DEF Layout
<1> QED BY <1>4, <1>5, <1>6, <1>7, <1>8 DEF Layout

\* What the registers of a database are; an address is that of a cell
DbType == [used : Nat, interval : AllIntervals, id : 0 .. DB_IDS - 1, locked : BOOLEAN,
           nvm_addr : Addresses]

\* The header of the database in use is in the EEPROM as it is in memory, and no
\* temperature is past the end.
InUse ==
    /\ Cells
    /\ local_db \in DbType
    /\ Fetch(local_db.nvm_addr) = local_db
    /\ item_nvm_addr(local_db) <= NVM_SIZE

\* The inductive invariant of the databases, and what it needs of the rest
DbInv ==
    /\ Cells
    /\ local_db \in DbType
    /\ timer_interval \in Intervals \cup {DEFAULT_INTERVAL}
    /\ \E addrs : Layout(addrs)

\* Where the temperatures of the database in use are.
LEMMA InUseCells ==
    ASSUME InUse
    PROVE  /\ nvm[local_db.nvm_addr + USED] = local_db.used
           /\ item_nvm_addr(local_db) = local_db.nvm_addr + ITEMS + local_db.used
           /\ local_db.nvm_addr + ITEMS + local_db.used <= NVM_SIZE
           /\ local_db.nvm_addr \in 0 .. NVM_SIZE - 1 /\ NVM_SIZE \in Nat
           /\ local_db.used \in Nat
<1>1. nvm[local_db.nvm_addr + USED] = local_db.used
  <2>1. Fetch(local_db.nvm_addr).used = nvm[local_db.nvm_addr + USED]
    BY DEF Fetch
  <2> QED BY <2>1 DEF InUse
<1>2. local_db.nvm_addr \in 0 .. NVM_SIZE - 1 /\ NVM_SIZE \in Nat /\ local_db.used \in Nat
  BY TempDbAssumption DEF InUse, DbType, Addresses, NVM_LIMIT
<1>3. /\ item_nvm_addr(local_db) = local_db.nvm_addr + ITEMS + local_db.used
      /\ item_nvm_addr(local_db) <= NVM_SIZE
  BY DEF InUse, item_nvm_addr
<1> QED BY <1>1, <1>2, <1>3

\* The database in use is the last one, and its header in the EEPROM is up to date.
LEMMA LastInUse ==
    ASSUME DbInv, NEW addrs, Layout(addrs)
    PROVE  /\ addrs[Len(addrs)] = local_db.nvm_addr
           /\ local_db.id = (Len(addrs) - 1) % DB_IDS
           /\ Fetch(local_db.nvm_addr) = local_db
           /\ nvm[local_db.nvm_addr + USED] = local_db.used
           /\ item_nvm_addr(local_db) = local_db.nvm_addr + ITEMS + local_db.used
           /\ local_db.nvm_addr + ITEMS + local_db.used <= NVM_SIZE
           /\ local_db.nvm_addr \in 0 .. NVM_SIZE - 1 /\ NVM_SIZE \in Nat
           /\ local_db.used \in Nat
<1> DEFINE n == Len(addrs)
<1>1. n \in Nat \ {0} /\ n \in 1 .. n
  BY LayoutAddresses
<1>2. Fetch(addrs[n]) = local_db
  BY DEF Layout
<1>3. addrs[n] = local_db.nvm_addr
  BY <1>2 DEF Fetch
<1>4. local_db.id = (n - 1) % DB_IDS
  BY <1>1, <1>2 DEF Layout
<1>5. InUse
  BY <1>2, <1>3 DEF InUse, DbInv, Layout
<1> HIDE DEF n
<1> QED BY <1>2, <1>3, <1>4, <1>5, InUseCells DEF n

\* The database in use is in the EEPROM.
LEMMA DbInvInUse == DbInv => InUse
<1> SUFFICES ASSUME DbInv PROVE InUse
  OBVIOUS
<1>1. PICK addrs : Layout(addrs)
  BY DEF DbInv
<1>2. item_nvm_addr(local_db) <= NVM_SIZE
  BY <1>1 DEF Layout
<1> QED BY <1>1, <1>2, LastInUse DEF InUse, DbInv

\* The temperatures of the last database stay if their cells and their number do.
LEMMA LastItemsKept ==
    ASSUME DbInv, NEW addrs, Layout(addrs), NEW addr, addr = local_db.nvm_addr,
           nvm'[addr + USED] = local_db.used,
           \A c \in Addresses : c >= addr + ITEMS /\ c < item_nvm_addr(local_db)
                                  => nvm'[c] = nvm[c]
    PROVE  Items(addr)' = Items(addr)
<1> DEFINE used == local_db.used
<1>1. /\ nvm[addr + USED] = used /\ item_nvm_addr(local_db) = addr + ITEMS + used
      /\ addr + ITEMS + used <= NVM_SIZE
      /\ addr \in Nat /\ used \in Nat /\ NVM_SIZE \in Nat
  BY LastInUse
<1>2. nvm'[addr + USED] = used
  OBVIOUS
<1>3. \A c \in Addresses : c >= addr + ITEMS /\ c < addr + ITEMS + used => nvm'[c] = nvm[c]
  BY <1>1
<1> HIDE DEF used
<1>4. \A i \in 1 .. used : nvm'[addr + ITEMS + i - 1] = nvm[addr + ITEMS + i - 1]
  <2> SUFFICES ASSUME NEW i \in 1 .. used
               PROVE  nvm'[addr + ITEMS + i - 1] = nvm[addr + ITEMS + i - 1]
    OBVIOUS
  <2>1. /\ addr + ITEMS + i - 1 \in Addresses /\ addr + ITEMS + i - 1 >= addr + ITEMS
        /\ addr + ITEMS + i - 1 < addr + ITEMS + used
    BY <1>1 DEF ITEMS, Addresses, NVM_LIMIT
  <2> QED BY <1>3, <2>1
<1> QED BY <1>1, <1>2, <1>4 DEF Items

\* A step that keeps the number of the temperatures of the last database, and does
\* not write below what follows them but for its header, keeps the sessions.
LEMMA SessionsKept ==
    ASSUME DbInv, Cells', local_db' \in DbType,
           local_db'.used = local_db.used, local_db'.id = local_db.id,
           local_db'.nvm_addr = local_db.nvm_addr,
           Fetch(local_db.nvm_addr)' = local_db', NextAddr(local_db') = NULL,
           \A c \in Addresses :
              /\ c < local_db.nvm_addr => nvm'[c] = nvm[c]
              /\ c >= local_db.nvm_addr + ITEMS /\ c < item_nvm_addr(local_db)
                    => nvm'[c] = nvm[c]
    PROVE  (\E addrs : Layout(addrs)') /\ Sessions' = Sessions
<1>1. PICK addrs : Layout(addrs)
  BY DEF DbInv
<1>2. item_nvm_addr(local_db') <= NVM_SIZE
  BY LastInUse, <1>1 DEF item_nvm_addr
<1>3. Layout(addrs)'
  BY <1>1, <1>2, LayoutAfter DEF DbInv
<1>4. Sessions = [k \in 1 .. Len(addrs) |-> Items(addrs[k])]
  BY <1>1, SessionsLaid DEF DbInv
<1>5. Sessions' = [k \in 1 .. Len(addrs) |-> Items(addrs[k])']
  BY <1>3, SessionsLaidThen
<1>6. \A k \in 1 .. Len(addrs) : Items(addrs[k])' = Items(addrs[k])
  <2> SUFFICES ASSUME NEW k \in 1 .. Len(addrs) PROVE Items(addrs[k])' = Items(addrs[k])
    OBVIOUS
  <2>1. CASE k = Len(addrs)
    <3>1. PICK b : b = local_db.nvm_addr
      OBVIOUS
    <3>2. addrs[k] = b
      BY <1>1, <2>1, <3>1, LastInUse
    <3>3. nvm'[b + USED] = local_db.used
      <4>1. Fetch(b)'.used = nvm'[b + USED]
        BY DEF Fetch
      <4>2. Fetch(local_db.nvm_addr)' = Fetch(b)'
        BY <3>1
      <4> QED BY <4>1, <4>2
    <3>4. Items(b)' = Items(b)
      BY <1>1, <3>1, <3>3, LastItemsKept
    <3> QED BY <3>2, <3>4
  <2>2. CASE k # Len(addrs)
    <3>1. k \in 1 .. Len(addrs) - 1
      BY <1>1, <2>2, LayoutAddresses
    <3> QED BY <1>1, <3>1, EarlierKept DEF DbInv
  <2> QED BY <2>1, <2>2
<1> QED BY <1>3, <1>4, <1>5, <1>6

\* What a header that is written leaves in the cells.
LEMMA SyncCells ==
    ASSUME NEW memory \in [Addresses -> Nat], NEW db \in DbType,
           db.nvm_addr + ITEMS <= NVM_SIZE
    PROVE  LET after == Sync(memory, db)
           IN  /\ after \in [Addresses -> Nat]
               /\ after[db.nvm_addr] = db.used /\ after[db.nvm_addr + 1] = db.interval
               /\ after[db.nvm_addr + 2] = db.id
               /\ after[db.nvm_addr + 3] = IF db.locked THEN 1 ELSE 0
               /\ \A c \in Addresses : c < db.nvm_addr \/ c >= db.nvm_addr + ITEMS
                                         => after[c] = memory[c]
<1> DEFINE a == db.nvm_addr
           lock == IF db.locked THEN 1 ELSE 0
           after == Sync(memory, db)
<1>1. a \in Int /\ a >= 0 /\ a + 3 <= NVM_LIMIT /\ NVM_LIMIT \in Int
  BY TempDbAssumption DEF DbType, Addresses, NVM_LIMIT, ITEMS
<1>2. db.used \in Nat /\ db.interval \in Nat /\ db.id \in Nat /\ lock \in Nat
  <2>1. AllIntervals \subseteq Nat
    BY MonitorAssumption, TempDbAssumption DEF AllIntervals
  <2>2. lock = 0 \/ lock = 1
    OBVIOUS
  <2>3. db.used \in Nat /\ db.interval \in AllIntervals /\ db.id \in Nat
    BY DEF DbType
  <2>4. lock \in Nat
    BY <2>2, Zenon
  <2> HIDE DEF lock
  <2>5. db.interval \in Nat
    BY <2>1, <2>3
  <2> QED BY <2>3, <2>4, <2>5
<1>3. after = [memory EXCEPT ![a] = db.used, ![a + 1] = db.interval,
                             ![a + 2] = db.id, ![a + 3] = lock]
  <2>1. a + 0 = a
    BY <1>1
  <2> QED BY <2>1 DEF Sync, USED, INTERVAL, ID, LOCKED
<1> HIDE DEF a, lock, after
<1>4. a \in Addresses /\ a + 1 \in Addresses /\ a + 2 \in Addresses /\ a + 3 \in Addresses
  BY <1>1 DEF Addresses
<1>5. after \in [Addresses -> Nat]
  BY <1>2, <1>3
<1>6. after[a] = db.used /\ after[a + 1] = db.interval /\ after[a + 2] = db.id /\ after[a + 3] = lock
  BY <1>1, <1>3, <1>4
<1>7. \A c \in Addresses : c < a \/ c >= a + ITEMS => after[c] = memory[c]
  <2> SUFFICES ASSUME NEW c \in Addresses, c < a \/ c >= a + ITEMS PROVE after[c] = memory[c]
    OBVIOUS
  <2>1. c # a /\ c # a + 1 /\ c # a + 2 /\ c # a + 3
    BY <1>1 DEF Addresses, ITEMS
  <2> QED BY <1>3, <2>1
<1> QED BY <1>5, <1>6, <1>7 DEF a, lock, after

\* A header whose cells are known is known.
LEMMA FetchCells ==
    ASSUME NEW db \in DbType, NEW addr, addr = db.nvm_addr,
           nvm'[addr] = db.used, nvm'[addr + 1] = db.interval, nvm'[addr + 2] = db.id,
           nvm'[addr + 3] = IF db.locked THEN 1 ELSE 0
    PROVE  Fetch(addr)' = db
<1>1. addr \in Int
  BY DEF DbType, Addresses
<1>2. addr + USED = addr /\ addr + INTERVAL = addr + 1 /\ addr + ID = addr + 2 /\ addr + LOCKED = addr + 3
  BY <1>1 DEF USED, INTERVAL, ID, LOCKED
<1>3. Fetch(addr)' = [used |-> db.used, interval |-> db.interval, id |-> db.id,
                      locked |-> nvm'[addr + 3] = 1, nvm_addr |-> addr]
  BY <1>2 DEF Fetch
<1>4. (nvm'[addr + 3] = 1) = db.locked
  <2>1. db.locked \in BOOLEAN
    BY DEF DbType
  <2>2. CASE db.locked
    BY <2>1, <2>2
  <2>3. CASE ~db.locked
    BY <2>1, <2>3
  <2> QED BY <2>1, <2>2, <2>3
<1>5. db = [used |-> db.used, interval |-> db.interval, id |-> db.id,
            locked |-> db.locked, nvm_addr |-> db.nvm_addr]
  BY DEF DbType
<1> QED BY <1>3, <1>4, <1>5

\* A header that is written is read back.
LEMMA FetchSynced ==
    ASSUME NEW memory \in [Addresses -> Nat], NEW db \in DbType,
           db.nvm_addr + ITEMS <= NVM_SIZE, nvm' = Sync(memory, db), NEW addr, addr = db.nvm_addr
    PROVE  Fetch(addr)' = db
<1>1. /\ nvm'[addr] = db.used /\ nvm'[addr + 1] = db.interval /\ nvm'[addr + 2] = db.id
      /\ nvm'[addr + 3] = IF db.locked THEN 1 ELSE 0
  BY SyncCells
<1> QED BY <1>1, FetchCells

\* Rewriting the header of the last database, without opening a way to a next one,
\* changes no session.
LEMMA RewriteKeeps ==
    ASSUME DbInv, NEW db \in DbType, db.used = local_db.used, db.id = local_db.id,
           db.nvm_addr = local_db.nvm_addr, NextAddr(db) = NULL,
           local_db' = db, nvm' = Sync(nvm, db)
    PROVE  Cells' /\ local_db' \in DbType /\ (\E addrs : Layout(addrs)') /\ Sessions' = Sessions
<1>1. PICK addrs : Layout(addrs)
  BY DEF DbInv
<1>2. db.nvm_addr + ITEMS <= NVM_SIZE /\ item_nvm_addr(local_db) = local_db.nvm_addr + ITEMS + local_db.used
  <2>1. /\ local_db.nvm_addr + ITEMS + local_db.used <= NVM_SIZE /\ local_db.used \in Nat
        /\ local_db.nvm_addr \in Int /\ NVM_SIZE \in Int
        /\ item_nvm_addr(local_db) = local_db.nvm_addr + ITEMS + local_db.used
    BY <1>1, LastInUse
  <2> QED BY <2>1 DEF ITEMS
<1>3. Cells' /\ \A c \in Addresses : c < db.nvm_addr \/ c >= db.nvm_addr + ITEMS => nvm'[c] = nvm[c]
  BY <1>2, SyncCells DEF DbInv, Cells
<1>4. Fetch(local_db.nvm_addr)' = local_db'
  <2>1. PICK addr : addr = db.nvm_addr
    OBVIOUS
  <2>2. Fetch(addr)' = db
    BY <1>2, <2>1, FetchSynced DEF DbInv, Cells
  <2> QED BY <2>1, <2>2
<1> QED BY <1>3, <1>4, SessionsKept

\* What the daemon writes when it starts a session, where there is room for it.
LEMMA NewDbCells ==
    ASSUME InUse, NEW interval \in AllIntervals, NextAddr(Locked) # NULL,
           NEW addr, addr = local_db.nvm_addr, NEW next, next = NextAddr(Locked),
           nvm' = Sync(LockSync, NewDb(interval))
    PROVE  /\ Cells' /\ next = item_nvm_addr(local_db)
           /\ (local_db.used # 0 => addr + TEMP_DB_MIN_SIZE <= next)
           /\ next + ITEMS <= NVM_SIZE /\ next \in Addresses /\ addr < next
           /\ Locked \in DbType /\ NewDb(interval) \in DbType
           /\ \A c \in Addresses : c < next /\ (c < addr \/ c >= addr + ITEMS) => nvm'[c] = nvm[c]
           /\ Fetch(addr)' = Locked /\ Fetch(next)' = NewDb(interval)
<1>2. /\ item_nvm_addr(local_db) = addr + ITEMS + local_db.used
      /\ addr + ITEMS + local_db.used <= NVM_SIZE
      /\ addr \in 0 .. NVM_SIZE - 1 /\ NVM_SIZE \in Nat /\ local_db.used \in Nat
  BY InUseCells
<1>3. Locked \in DbType /\ Locked.nvm_addr = addr /\ Locked.used = local_db.used /\ Locked.locked
  BY DEF InUse, DbType, Locked
<1>4. next = item_nvm_addr(local_db) /\ next + TEMP_DB_MIN_SIZE <= NVM_LIMIT - TEMP_DB_MIN_SIZE
  <2>1. item_nvm_addr(Locked) = item_nvm_addr(local_db)
    BY <1>3 DEF item_nvm_addr
  <2>2. next = item_nvm_addr(Locked) /\ ~(next + TEMP_DB_MIN_SIZE > NVM_LIMIT - TEMP_DB_MIN_SIZE)
    BY <1>3 DEF NextAddr
  <2> QED BY <1>2, <2>1, <2>2 DEF NVM_LIMIT, TEMP_DB_MIN_SIZE, ITEMS
<1>5. /\ next \in Nat /\ next + ITEMS <= NVM_SIZE /\ next \in Addresses /\ addr + ITEMS <= next
      /\ addr < next /\ addr + ITEMS <= NVM_SIZE
      /\ (local_db.used # 0 => addr + TEMP_DB_MIN_SIZE <= next)
  BY <1>2, <1>4 DEF Addresses, NVM_LIMIT, TEMP_DB_MIN_SIZE, ITEMS
<1>6. NewDb(interval) \in DbType
  <2>1. local_db.id + 1 \in Nat /\ DB_IDS \in Nat \ {0}
    BY TempDbAssumption DEF InUse, DbType
  <2>2. (local_db.id + 1) % DB_IDS \in 0 .. DB_IDS - 1
    <3>1. PICK i \in Nat : i = local_db.id + 1
      BY <2>1
    <3>2. i % DB_IDS \in 0 .. DB_IDS - 1
      BY <2>1
    <3> QED BY <2>1, <3>1, <3>2
  <2> QED BY <1>5, <2>2 DEF NewDb, DbType
<1>7. LockSync \in [Addresses -> Nat]
      /\ LockSync[addr] = Locked.used /\ LockSync[addr + 1] = Locked.interval
      /\ LockSync[addr + 2] = Locked.id
      /\ LockSync[addr + 3] = (IF Locked.locked THEN 1 ELSE 0)
      /\ \A c \in Addresses : c < addr \/ c >= addr + ITEMS => LockSync[c] = nvm[c]
  BY <1>3, <1>5, SyncCells DEF LockSync, InUse, Cells
<1>8. NewDb(interval).nvm_addr = next
  BY DEF NewDb
<1>9. Cells' /\ \A c \in Addresses : c < next => nvm'[c] = LockSync[c]
  BY <1>5, <1>6, <1>7, <1>8, SyncCells DEF Cells
<1>10. Fetch(next)' = NewDb(interval)
  BY <1>5, <1>6, <1>7, <1>8, FetchSynced
<1>11. Fetch(addr)' = Locked
  <2>1. /\ addr \in Addresses /\ addr + 1 \in Addresses /\ addr + 2 \in Addresses /\ addr + 3 \in Addresses
        /\ addr < next /\ addr + 1 < next /\ addr + 2 < next /\ addr + 3 < next
    BY <1>2, <1>5 DEF Addresses, NVM_LIMIT, ITEMS
  <2>2. /\ nvm'[addr] = LockSync[addr] /\ nvm'[addr + 1] = LockSync[addr + 1]
        /\ nvm'[addr + 2] = LockSync[addr + 2] /\ nvm'[addr + 3] = LockSync[addr + 3]
    BY <1>9, <2>1
  <2> QED BY <1>3, <1>7, <2>2, FetchCells
<1>12. \A c \in Addresses : c < next /\ (c < addr \/ c >= addr + ITEMS) => nvm'[c] = nvm[c]
  BY <1>7, <1>9
<1> QED BY <1>2, <1>3, <1>4, <1>5, <1>6, <1>9, <1>10, <1>11, <1>12

\* The list of the sessions, and the last one.
LEMMA SessionsSequence ==
    ASSUME DbInv, NEW addrs, Layout(addrs)
    PROVE  /\ Sessions \in Seq({Items(a) : a \in Addresses}) /\ Len(Sessions) = Len(addrs)
           /\ \A k \in 1 .. Len(addrs) : Sessions[k] = Items(addrs[k])
           /\ Sessions[Len(Sessions)] = Items(local_db.nvm_addr)
           /\ Items(local_db.nvm_addr) =
                [i \in 1 .. local_db.used |-> nvm[local_db.nvm_addr + ITEMS + i - 1]]
<1> DEFINE n == Len(addrs)
           T == {Items(a) : a \in Addresses}
<1>1. n \in Nat \ {0} /\ n \in 1 .. n /\ \A k \in 1 .. n : addrs[k] \in Addresses
  BY LayoutAddresses
<1>2. Sessions = [k \in 1 .. n |-> Items(addrs[k])]
  BY SessionsLaid DEF DbInv
<1>3. \A k \in 1 .. n : Items(addrs[k]) \in T
  BY <1>1
<1>4. /\ addrs[n] = local_db.nvm_addr
      /\ nvm[local_db.nvm_addr + USED] = local_db.used
  BY LastInUse
<1> HIDE DEF n, T
<1>5. Sessions \in Seq(T) /\ Len(Sessions) = n /\ \A k \in 1 .. n : Sessions[k] = Items(addrs[k])
  BY <1>1, <1>2, <1>3
<1>6. Items(local_db.nvm_addr) =
        [i \in 1 .. local_db.used |-> nvm[local_db.nvm_addr + ITEMS + i - 1]]
  BY <1>4 DEF Items
<1>7. Sessions[Len(Sessions)] = Items(local_db.nvm_addr)
  BY <1>1, <1>4, <1>5
<1> QED BY <1>5, <1>6, <1>7 DEF n, T

\* Where there is room, a started daemon opens a session.
LEMMA NewDbOpens ==
    ASSUME DbInv, NEW interval \in AllIntervals, local_db.used # 0,
           NextAddr(Locked) # NULL,
           local_db' = NewDb(interval), nvm' = Sync(LockSync, NewDb(interval))
    PROVE  /\ Cells' /\ local_db' \in DbType /\ (\E addrs : Layout(addrs)')
           /\ Log!Open
<1>1. PICK addrs : Layout(addrs)
  BY DEF DbInv
<1> DEFINE n == Len(addrs)
<1>2. PICK a : a = local_db.nvm_addr
  OBVIOUS
<1>3. PICK b : b = NextAddr(Locked)
  OBVIOUS
<1>4. /\ Cells' /\ b = item_nvm_addr(local_db) /\ a + TEMP_DB_MIN_SIZE <= b
      /\ b + ITEMS <= NVM_SIZE /\ b \in Addresses /\ a < b
      /\ Locked \in DbType /\ NewDb(interval) \in DbType
      /\ \A c \in Addresses : c < b /\ (c < a \/ c >= a + ITEMS) => nvm'[c] = nvm[c]
      /\ Fetch(a)' = Locked /\ Fetch(b)' = NewDb(interval)
  BY <1>2, <1>3, NewDbCells, DbInvInUse
<1>5. /\ n \in Nat \ {0} /\ n \in 1 .. n /\ \A k \in 1 .. n : addrs[k] \in Addresses /\ addrs[k] \in Nat
      /\ addrs \in Seq(Addresses)
  BY <1>1, LayoutAddresses DEF Layout
<1>6. /\ addrs[n] = a /\ local_db.id = (n - 1) % DB_IDS /\ local_db.used \in Nat
      /\ item_nvm_addr(local_db) = a + ITEMS + local_db.used
      /\ nvm[a + USED] = local_db.used /\ a \in Nat /\ NVM_SIZE \in Nat
  BY <1>1, <1>2, LastInUse
<1>7. NewDb(interval).id = n % DB_IDS
  <2>1. PICK m \in Nat : m = n - 1
    BY <1>5
  <2>2. ((m % DB_IDS) + 1) % DB_IDS = (m + 1) % DB_IDS
    BY NextPlace, TempDbAssumption
  <2>3. NewDb(interval).id = (local_db.id + 1) % DB_IDS
    BY DEF NewDb
  <2>4. m + 1 = n
    BY <1>5, <2>1
  <2> QED BY <1>6, <2>1, <2>2, <2>3, <2>4
<1> DEFINE s == Append(addrs, b)
<1>8. s \in Seq(Addresses) /\ Len(s) = n + 1 /\ (\A k \in 1 .. n : s[k] = addrs[k]) /\ s[n + 1] = b
  BY <1>4, <1>5, AppendProperties
<1>9. \A k \in 1 .. n - 1 : Fetch(addrs[k])' = Fetch(addrs[k]) /\ Items(addrs[k])' = Items(addrs[k])
  <2>1. \A c \in Addresses : c < local_db.nvm_addr => nvm'[c] = nvm[c]
    <3>1. \A c \in Addresses : c < a => c < b
      BY <1>4, <1>6 DEF Addresses
    <3> QED BY <1>2, <1>4, <3>1
  <2> QED BY <1>1, <1>4, <2>1, EarlierKept DEF DbInv
<1>10. Items(a)' = Items(a)
  <2>1. nvm'[a + USED] = local_db.used
    <3>1. Fetch(a)'.used = nvm'[a + USED]
      BY DEF Fetch
    <3>2. Locked.used = local_db.used
      BY DEF Locked, DbInv, DbType
    <3> QED BY <1>4, <3>1, <3>2
  <2>2. \A c \in Addresses : c >= a + ITEMS /\ c < item_nvm_addr(local_db) => nvm'[c] = nvm[c]
    BY <1>4
  <2> QED BY <1>1, <1>2, <2>1, <2>2, LastItemsKept
<1>11. Items(b)' = <<>>
  <2>1. nvm'[b + USED] = 0
    <3>1. Fetch(b)'.used = nvm'[b + USED]
      BY DEF Fetch
    <3> QED BY <1>4, <3>1 DEF NewDb
  <2>2. Items(b)' = [i \in 1 .. nvm'[b + USED] |-> nvm'[b + ITEMS + i - 1]]
    BY DEF Items
  <2> QED BY <2>1, <2>2
<1>12. Locked.id = (n - 1) % DB_IDS /\ NextAddr(Locked) = b /\ item_nvm_addr(Locked) = b
  BY <1>3, <1>4, <1>6 DEF Locked, item_nvm_addr, DbInv, DbType
<1>13. NextAddr(NewDb(interval)) = NULL /\ item_nvm_addr(NewDb(interval)) = b + ITEMS
  <2>1. ~NewDb(interval).locked /\ NewDb(interval).used = 0 /\ NewDb(interval).nvm_addr = b
    BY <1>3 DEF NewDb
  <2>2. b \in Int
    BY <1>4 DEF Addresses
  <2> QED BY <2>1, <2>2 DEF NextAddr, item_nvm_addr, ITEMS
<1> HIDE DEF n, s
<1>14. Layout(s)'
  <2>1. \A k \in 1 .. n + 1 : k = n + 1 \/ k = n \/ k \in 1 .. n - 1
    BY <1>5
  <2>2. ASSUME NEW k \in 1 .. n + 1
        PROVE  Fetch(s[k])'.id = (k - 1) % DB_IDS
    <3>1. CASE k = n + 1
      <4>1. Fetch(s[k])' = NewDb(interval)
        BY <1>4, <1>8, <3>1
      <4>2. k - 1 = n
        BY <1>5, <3>1
      <4> QED BY <1>7, <4>1, <4>2
    <3>2. CASE k = n
      <4>1. Fetch(s[k])' = Locked
        BY <1>4, <1>5, <1>6, <1>8, <3>2
      <4> QED BY <1>12, <3>2, <4>1
    <3>3. CASE k \in 1 .. n - 1
      <4>1. k \in 1 .. n
        BY <1>5, <3>3
      <4>2. Fetch(s[k])' = Fetch(addrs[k])
        BY <1>8, <1>9, <3>3, <4>1
      <4>3. Fetch(addrs[k]).id = (k - 1) % DB_IDS
        BY <1>1, <4>1 DEF Layout, n
      <4> QED BY <4>2, <4>3
    <3> QED BY <2>1, <3>1, <3>2, <3>3
  <2>3. ASSUME NEW k \in 1 .. n
        PROVE  NextAddr(Fetch(s[k])') = s[k + 1]
    <3>1. CASE k = n
      BY <1>4, <1>5, <1>6, <1>8, <1>12, <3>1
    <3>2. CASE k # n
      <4>1. k \in 1 .. n - 1 /\ k + 1 \in 1 .. n
        BY <1>5, <3>2
      <4>2. NextAddr(Fetch(addrs[k])) = addrs[k + 1]
        BY <1>1, <4>1 DEF Layout, n
      <4>3. Fetch(s[k])' = Fetch(addrs[k]) /\ s[k + 1] = addrs[k + 1]
        BY <1>8, <1>9, <4>1
      <4> QED BY <4>2, <4>3
    <3> QED BY <3>1, <3>2
  <2>4. ASSUME NEW j \in 1 .. n + 1, NEW k \in 1 .. n + 1, j < k
        PROVE  item_nvm_addr(Fetch(s[j])') <= s[k]
    <3>1. j \in 1 .. n /\ (k = n + 1 \/ (k \in 1 .. n /\ j \in 1 .. n - 1))
      BY <1>5, <2>4
    <3>2. CASE j = n
      <4>1. k = n + 1 /\ s[k] = b /\ b \in Int
        BY <1>4, <1>5, <1>8, <2>4, <3>2 DEF Addresses
      <4>2. Fetch(s[j])' = Locked
        BY <1>4, <1>5, <1>6, <1>8, <3>2
      <4>3. item_nvm_addr(Fetch(s[j])') = b
        BY <1>12, <4>2
      <4> QED BY <4>1, <4>3
    <3>3. CASE j # n
      <4>1. j \in 1 .. n - 1 /\ n \in 1 .. n
        BY <1>5, <3>1, <3>3
      <4>2. Fetch(s[j])' = Fetch(addrs[j])
        BY <1>8, <1>9, <3>1, <4>1
      <4>3. item_nvm_addr(Fetch(addrs[j])) <= a
        <5>1. j < n
          BY <1>5, <4>1
        <5> QED BY <1>1, <1>6, <3>1, <4>1, <5>1 DEF Layout, n
      <4>4. CASE k \in 1 .. n
        BY <1>1, <1>8, <2>4, <3>1, <4>2, <4>4 DEF Layout, n
      <4>5. CASE k = n + 1
        <5>1. s[k] = b
          BY <1>8, <4>5
        <5>2. item_nvm_addr(Fetch(addrs[j])) \in Int
          <6>1. addrs[j] + USED \in Addresses /\ addrs[j] \in Nat
            BY <1>5, <3>1, TempDbAssumption DEF USED, Addresses
          <6>2. Fetch(addrs[j]).used \in Nat /\ Fetch(addrs[j]).nvm_addr \in Nat
            BY <6>1 DEF Fetch, DbInv, Cells
          <6> QED BY <6>2 DEF item_nvm_addr, ITEMS
        <5>3. b \in Int
          BY <1>4 DEF Addresses
        <5> QED BY <1>4, <1>6, <4>2, <4>3, <5>1, <5>2, <5>3
      <4> QED BY <3>1, <4>4, <4>5
    <3> QED BY <3>2, <3>3
  <2>5. s[1] = 0
    <3>1. 1 \in 1 .. n
      BY <1>5
    <3> QED BY <1>1, <1>8, <3>1 DEF Layout
  <2>6. n + 1 # 0 /\ n + 1 - 1 = n
    BY <1>5
  <2>7. Fetch(s[n + 1])' = local_db'
    BY <1>4, <1>8
  <2>8. \A k \in 1 .. Len(s) : Fetch(s[k])'.id = (k - 1) % DB_IDS
    BY <1>8, <2>2
  <2>9. \A k \in 1 .. Len(s) - 1 : NextAddr(Fetch(s[k])') = s[k + 1]
    <3>1. 1 .. Len(s) - 1 = 1 .. n
      BY <1>5, <1>8
    <3> QED BY <2>3, <3>1
  <2>10. \A j, k \in 1 .. Len(s) : j < k => item_nvm_addr(Fetch(s[j])') <= s[k]
    BY <1>8, <2>4
  <2>11. NextAddr(local_db') = NULL /\ item_nvm_addr(local_db') <= NVM_SIZE
    BY <1>4, <1>13
  <2>12. Fetch(s[Len(s)])' = local_db' /\ Len(s) # 0 /\ s \in Seq(Addresses)
    BY <1>8, <2>6, <2>7
  <2> QED BY <2>5, <2>8, <2>9, <2>10, <2>11, <2>12 DEF Layout
<1>15. Sessions' = Append(Sessions, <<>>)
  <2> DEFINE T == {Items(c) : c \in Addresses} \cup {<<>>}
  <2>1. Sessions' = [k \in 1 .. n + 1 |-> Items(s[k])']
    BY <1>4, <1>8, <1>14, SessionsLaidThen
  <2>2. Sessions \in Seq(T) /\ Len(Sessions) = n /\ \A k \in 1 .. n : Sessions[k] = Items(addrs[k])
    <3>1. /\ Sessions \in Seq({Items(c) : c \in Addresses}) /\ Len(Sessions) = n
          /\ \A k \in 1 .. n : Sessions[k] = Items(addrs[k])
      BY <1>1, SessionsSequence DEF n
    <3>2. {Items(c) : c \in Addresses} \subseteq T
      OBVIOUS
    <3> HIDE DEF T
    <3> QED BY <3>1, <3>2
  <2> DEFINE u == Append(Sessions, <<>>)
  <2>3. <<>> \in T
    OBVIOUS
  <2>4. \A k \in 1 .. n : Items(addrs[k]) \in T
    BY <1>5
  <2> HIDE DEF T
  <2>5. u \in Seq(T) /\ Len(u) = n + 1 /\ (\A k \in 1 .. n : u[k] = Sessions[k]) /\ u[n + 1] = <<>>
    BY <2>2, <2>3, AppendProperties
  <2> HIDE DEF u
  <2>6. \A k \in 1 .. n + 1 : Items(s[k])' = u[k]
    <3> SUFFICES ASSUME NEW k \in 1 .. n + 1 PROVE Items(s[k])' = u[k]
      OBVIOUS
    <3>1. k = n + 1 \/ (k \in 1 .. n /\ (k = n \/ k \in 1 .. n - 1))
      BY <1>5
    <3>2. CASE k = n + 1
      BY <1>8, <1>11, <2>5, <3>2
    <3>3. CASE k = n
      BY <1>5, <1>6, <1>8, <1>10, <2>2, <2>5, <3>3
    <3>4. CASE k \in 1 .. n /\ k \in 1 .. n - 1
      BY <1>8, <1>9, <2>2, <2>5, <3>4
    <3> QED BY <3>1, <3>2, <3>3, <3>4
  <2>7. Sessions' = u
    <3> DEFINE v == [k \in 1 .. n + 1 |-> Items(s[k])']
    <3>1. \A k \in 1 .. n + 1 : u[k] \in T
      BY <2>5, ElementOfSeq
    <3>2. v = [k \in 1 .. n + 1 |-> u[k]]
      BY <2>6
    <3>3. u = [k \in 1 .. n + 1 |-> u[k]]
      BY <2>5
    <3> QED BY <2>1, <3>2, <3>3
  <2> QED BY <2>7 DEF u
<1>16. Log!Open
  <2>1. local_db'.used = 0
    BY DEF NewDb
  <2>2. Sessions[Len(Sessions)] # <<>>
    <3>1. Items(a) = [i \in 1 .. local_db.used |-> nvm[a + ITEMS + i - 1]]
      BY <1>6 DEF Items
    <3>2. Sessions[Len(Sessions)] = Items(a)
      BY <1>1, <1>2, SessionsSequence
    <3>3. Items(a) # <<>>
      <4>1. PICK m \in Nat : m = local_db.used
        BY <1>6
      <4>2. DOMAIN Items(a) = 1 .. m /\ 1 \in 1 .. m
        BY <3>1, <4>1
      <4>3. 1 \notin DOMAIN <<>>
        OBVIOUS
      <4> QED BY <4>2, <4>3
    <3> QED BY <3>2, <3>3
  <2> QED BY <1>15, <2>1, <2>2 DEF Log!Open, Log!last
<1> QED BY <1>4, <1>14, <1>16

\* A reset leaves one empty session.
LEMMA ResetEmpties ==
    ASSUME DbInv, temperature_db_reset
    PROVE  /\ Cells' /\ local_db' \in DbType /\ (\E addrs : Layout(addrs)')
           /\ Log!Reset
<1> DEFINE db == EmptyDb(local_db.interval)
<1>1. db \in DbType /\ db.nvm_addr = 0 /\ 0 + ITEMS <= NVM_SIZE /\ NVM_SIZE \in Nat
  BY TempDbAssumption DEF EmptyDb, DbInv, DbType, Addresses, NVM_LIMIT, ITEMS, TEMP_DB_MIN_SIZE
<1>2. Cells'
  BY <1>1, SyncCells DEF Cells, DbInv, temperature_db_reset
<1>3. Fetch(0)' = db /\ local_db' = db
  BY <1>1, FetchSynced DEF Cells, DbInv, temperature_db_reset
<1>4. db.id = 0 /\ db.used = 0 /\ ~db.locked
  BY DEF EmptyDb
<1> HIDE DEF db
<1>5. item_nvm_addr(db) = ITEMS /\ NextAddr(db) = NULL
  BY <1>1, <1>4 DEF item_nvm_addr, NextAddr, ITEMS
<1>6. Layout(<<0>>)'
  <2>1. <<0>> \in Seq(Addresses) /\ Len(<<0>>) = 1 /\ <<0>>[1] = 0
    BY <1>1 DEF DbType
  <2>2. PICK s : s = <<0>>
    OBVIOUS
  <2>3. s \in Seq(Addresses) /\ Len(s) = 1 /\ s[1] = 0
    BY <2>1, <2>2
  <2>4. \A k \in 1 .. Len(s) : Fetch(s[k])'.id = (k - 1) % DB_IDS
    <3>1. (1 - 1) % DB_IDS = 0
      BY TempDbAssumption
    <3>2. \A k \in 1 .. Len(s) : k = 1
      BY <2>3
    <3> QED BY <1>3, <1>4, <2>3, <3>1, <3>2
  <2>5. \A k \in 1 .. Len(s) - 1 : NextAddr(Fetch(s[k])') = s[k + 1]
    BY <2>3
  <2>6. \A j, k \in 1 .. Len(s) : j < k => item_nvm_addr(Fetch(s[j])') <= s[k]
    BY <2>3
  <2>7. Fetch(s[Len(s)])' = local_db' /\ NextAddr(local_db') = NULL
        /\ item_nvm_addr(local_db') <= NVM_SIZE
    <3>1. s[Len(s)] = 0
      BY <2>3
    <3>2. ITEMS <= NVM_SIZE
      BY <1>1 DEF ITEMS
    <3> QED BY <1>3, <1>5, <3>1, <3>2
  <2>8. Layout(s)'
    BY <2>3, <2>4, <2>5, <2>6, <2>7 DEF Layout
  <2> QED BY <2>2, <2>8
<1>7. Sessions' = <<<<>>>>
  <2>1. Items(0)' = <<>>
    <3>1. nvm'[0 + USED] = 0
      <4>1. Fetch(0)'.used = nvm'[0 + USED]
        BY DEF Fetch
      <4> QED BY <1>3, <1>4, <4>1
    <3>2. Items(0)' = [i \in 1 .. nvm'[0 + USED] |-> nvm'[0 + ITEMS + i - 1]]
      BY DEF Items
    <3> QED BY <3>1, <3>2
  <2>2. PICK s : s = <<0>>
    OBVIOUS
  <2>3. Sessions' = [k \in 1 .. Len(s) |-> Items(s[k])']
    <3>1. Layout(s)'
      BY <1>6, <2>2
    <3> QED BY <1>2, <3>1, SessionsLaidThen
  <2>4. Len(s) = 1 /\ s[1] = 0
    BY <2>2
  <2>5. Sessions' = [k \in 1 .. 1 |-> <<>>]
    <3>1. \A k \in 1 .. 1 : Items(s[k])' = <<>>
      BY <2>1, <2>4
    <3> QED BY <2>3, <2>4, <3>1
  <2> QED BY <2>5
<1> QED BY <1>1, <1>2, <1>3, <1>4, <1>6, <1>7 DEF Log!Reset

\* A temperature registered is put behind those of the session in use.
LEMMA RegisterRecords ==
    ASSUME DbInv, NEW raw_val \in Temperatures, temperature_register(raw_val)
    PROVE  /\ Cells' /\ local_db' \in DbType /\ (\E addrs : Layout(addrs)')
           /\ Log!Record
<1>1. PICK addrs : Layout(addrs)
  BY DEF DbInv
<1> DEFINE n == Len(addrs)
<1>2. PICK a : a = local_db.nvm_addr
  OBVIOUS
<1>3. PICK used : used = local_db.used
  OBVIOUS
<1>4. /\ addrs[n] = a /\ used \in Nat /\ a \in Nat /\ NVM_SIZE \in Nat
      /\ item_nvm_addr(local_db) = a + ITEMS + used
      /\ nvm[a] = used /\ Fetch(a) = local_db /\ a + USED = a
  BY <1>1, <1>2, <1>3, LastInUse DEF USED
<1>5. /\ ~local_db.locked /\ a + ITEMS + used < NVM_SIZE
      /\ a + ITEMS + used \in Addresses /\ a \in Addresses
  BY <1>2, <1>4 DEF temperature_register, NoRoom, NVM_LIMIT, Addresses, ITEMS, DbInv, DbType
<1>6. nvm' = [nvm EXCEPT ![a + ITEMS + used] = raw_val, ![a] = used + 1]
  BY <1>2, <1>3, <1>4 DEF temperature_register
<1>7. local_db' = [local_db EXCEPT !.used = used + 1]
  BY <1>3 DEF temperature_register
<1>8. a + ITEMS + used # a
  BY <1>4 DEF ITEMS
<1>9. Cells' /\ nvm'[a] = used + 1 /\ nvm'[a + ITEMS + used] = raw_val
      /\ \A c \in Addresses : c # a /\ c # a + ITEMS + used => nvm'[c] = nvm[c]
  <2>1. raw_val \in Nat
    BY MonitorAssumption
  <2> QED BY <1>4, <1>5, <1>6, <1>8, <2>1 DEF Cells, DbInv
<1>10. /\ local_db' \in DbType /\ local_db'.used = used + 1 /\ local_db'.id = local_db.id
       /\ local_db'.nvm_addr = a /\ ~local_db'.locked /\ local_db'.interval = local_db.interval
       /\ local_db'.locked = local_db.locked
  BY <1>2, <1>4, <1>5, <1>7 DEF DbInv, DbType
<1>11. Fetch(a)' = local_db'
  <2>1. /\ a + 1 \in Addresses /\ a + 2 \in Addresses /\ a + 3 \in Addresses
        /\ nvm'[a + 1] = nvm[a + 1] /\ nvm'[a + 2] = nvm[a + 2] /\ nvm'[a + 3] = nvm[a + 3]
    <3>1. /\ a + 1 \in Addresses /\ a + 2 \in Addresses /\ a + 3 \in Addresses
          /\ a + 1 # a /\ a + 2 # a /\ a + 3 # a
          /\ a + 1 # a + ITEMS + used /\ a + 2 # a + ITEMS + used /\ a + 3 # a + ITEMS + used
      BY <1>4, <1>5 DEF ITEMS, Addresses, NVM_LIMIT
    <3> QED BY <1>9, <3>1
  <2>2. a + INTERVAL = a + 1 /\ a + ID = a + 2 /\ a + LOCKED = a + 3
    BY <1>4 DEF INTERVAL, ID, LOCKED
  <2>3. Fetch(a)' = [used |-> used + 1, interval |-> nvm[a + 1], id |-> nvm[a + 2],
                     locked |-> nvm[a + 3] = 1, nvm_addr |-> a]
    BY <1>4, <1>9, <2>1, <2>2 DEF Fetch
  <2>4. Fetch(a) = [used |-> used, interval |-> nvm[a + 1], id |-> nvm[a + 2],
                    locked |-> nvm[a + 3] = 1, nvm_addr |-> a]
    BY <1>4, <2>2 DEF Fetch
  <2>5. local_db' = [Fetch(a) EXCEPT !.used = used + 1]
    BY <1>4, <1>7
  <2> QED BY <2>3, <2>4, <2>5
<1>12. NextAddr(local_db') = NULL /\ item_nvm_addr(local_db') = a + ITEMS + used + 1
  BY <1>4, <1>10 DEF NextAddr, item_nvm_addr, ITEMS
<1>13. \A c \in Addresses : c < a \/ (c >= a + ITEMS /\ c < a + ITEMS + used) => nvm'[c] = nvm[c]
  <2> SUFFICES ASSUME NEW c \in Addresses, c < a \/ (c >= a + ITEMS /\ c < a + ITEMS + used)
               PROVE  nvm'[c] = nvm[c]
    OBVIOUS
  <2>1. c # a /\ c # a + ITEMS + used
    BY <1>4 DEF Addresses, ITEMS
  <2> QED BY <1>9, <2>1
<1>14. Layout(addrs)'
  <2>1. a + ITEMS + used + 1 <= NVM_SIZE
    BY <1>4, <1>5 DEF ITEMS
  <2>2. Fetch(local_db.nvm_addr)' = local_db'
    BY <1>2, <1>10, <1>11
  <2>3. \A c \in Addresses : c < local_db.nvm_addr => nvm'[c] = nvm[c]
    BY <1>2, <1>13
  <2> QED BY <1>1, <1>2, <1>9, <1>10, <1>12, <2>1, <2>2, <2>3, LayoutAfter DEF DbInv
<1>15. \A k \in 1 .. n - 1 : Items(addrs[k])' = Items(addrs[k])
  <2>1. \A c \in Addresses : c < local_db.nvm_addr => nvm'[c] = nvm[c]
    BY <1>2, <1>13
  <2> QED BY <1>1, <1>9, <2>1, EarlierKept DEF DbInv
<1>16. Items(a) \in Seq(Nat) /\ Items(a)' = Append(Items(a), raw_val)
  <2> DEFINE old == Items(a)
             new == Items(a)'
  <2>1. old = [i \in 1 .. used |-> nvm[a + ITEMS + i - 1]]
    BY <1>4 DEF Items
  <2>2. new = [i \in 1 .. used + 1 |-> nvm'[a + ITEMS + i - 1]]
    BY <1>4, <1>9 DEF Items
  <2>3. \A i \in 1 .. used : /\ a + ITEMS + i - 1 \in Addresses
                             /\ nvm'[a + ITEMS + i - 1] = nvm[a + ITEMS + i - 1]
    <3> SUFFICES ASSUME NEW i \in 1 .. used
                 PROVE  /\ a + ITEMS + i - 1 \in Addresses
                        /\ nvm'[a + ITEMS + i - 1] = nvm[a + ITEMS + i - 1]
      OBVIOUS
    <3>1. /\ a + ITEMS + i - 1 \in Addresses /\ a + ITEMS + i - 1 >= a + ITEMS
          /\ a + ITEMS + i - 1 < a + ITEMS + used
      BY <1>4, <1>5 DEF ITEMS, Addresses, NVM_LIMIT
    <3> QED BY <1>13, <3>1
  <2>4. nvm'[a + ITEMS + (used + 1) - 1] = raw_val
    <3>1. a + ITEMS + (used + 1) - 1 = a + ITEMS + used
      BY <1>4 DEF ITEMS
    <3> QED BY <1>9, <3>1
  <2>5. \A i \in 1 .. used : nvm[a + ITEMS + i - 1] \in Nat
    BY <2>3 DEF DbInv, Cells
  <2> HIDE DEF old, new
  <2>6. old \in Seq(Nat) /\ Len(old) = used /\ \A i \in 1 .. used : old[i] = nvm[a + ITEMS + i - 1]
    BY <1>4, <2>1, <2>5
  <2>7. raw_val \in Nat
    BY MonitorAssumption
  <2> DEFINE u == Append(old, raw_val)
  <2>8. u \in Seq(Nat) /\ Len(u) = used + 1 /\ (\A i \in 1 .. used : u[i] = old[i]) /\ u[used + 1] = raw_val
    BY <2>6, <2>7, AppendProperties
  <2> HIDE DEF u
  <2>9. \A i \in 1 .. used + 1 : nvm'[a + ITEMS + i - 1] = u[i]
    <3> SUFFICES ASSUME NEW i \in 1 .. used + 1 PROVE nvm'[a + ITEMS + i - 1] = u[i]
      OBVIOUS
    <3>1. i = used + 1 \/ i \in 1 .. used
      BY <1>4
    <3> QED BY <2>3, <2>4, <2>6, <2>8, <3>1
  <2>10. new = [i \in 1 .. used + 1 |-> u[i]]
    BY <2>2, <2>9
  <2>11. u = [i \in 1 .. used + 1 |-> u[i]]
    BY <2>8
  <2> QED BY <2>6, <2>10, <2>11 DEF old, new, u
<1>17. n \in Nat \ {0} /\ n \in 1 .. n
  BY <1>1, LayoutAddresses
<1>18. Sessions = [k \in 1 .. n |-> Items(addrs[k])]
  BY <1>1, SessionsLaid DEF DbInv
<1>19. Sessions' = [k \in 1 .. n |-> Items(addrs[k])']
  BY <1>9, <1>14, SessionsLaidThen
<1>20. Len(Sessions) = n
  BY <1>1, SessionsSequence
<1>21. Items(addrs[n])' = Append(Items(addrs[n]), raw_val)
  BY <1>4, <1>16
<1> HIDE DEF n
<1>22. Sessions' = [Sessions EXCEPT ![n] = Append(@, raw_val)]
  <2>1. \A k \in 1 .. n : Items(addrs[k])' = IF k = n THEN Append(Items(addrs[n]), raw_val) ELSE Items(addrs[k])
    <3>1. \A k \in 1 .. n : k = n \/ k \in 1 .. n - 1
      BY <1>17
    <3> QED BY <1>15, <1>21, <3>1
  <2> QED BY <1>17, <1>18, <1>19, <2>1
<1>23. local_db'.used = local_db.used + 1
  BY <1>3, <1>10
<1> QED BY <1>9, <1>10, <1>14, <1>20, <1>22, <1>23 DEF Log!Record, Log!last

\* Starting the daemon, whatever it does to the databases.
LEMMA NewDbOpensOrKeeps ==
    ASSUME DbInv, NEW interval \in AllIntervals, temperature_db_new(interval)
    PROVE  /\ Cells' /\ local_db' \in DbType /\ (\E addrs : Layout(addrs)')
           /\ Log!Open \/ UNCHANGED <<Sessions, local_db.used>>
<1>1. local_db \in DbType
  BY DEF DbInv
<1>2. CASE /\ local_db.used = 0
           /\ local_db' = Unlocked(interval) /\ nvm' = Sync(nvm, Unlocked(interval))
  <2>1. /\ Unlocked(interval) \in DbType /\ Unlocked(interval).used = local_db.used
        /\ Unlocked(interval).id = local_db.id /\ Unlocked(interval).nvm_addr = local_db.nvm_addr
        /\ ~Unlocked(interval).locked
    BY <1>1 DEF Unlocked, DbType
  <2>2. NextAddr(Unlocked(interval)) = NULL
    BY <2>1 DEF NextAddr
  <2> QED BY <1>2, <2>1, <2>2, RewriteKeeps
<1>3. Locked \in DbType /\ Locked.used = local_db.used /\ Locked.id = local_db.id
      /\ Locked.nvm_addr = local_db.nvm_addr
  BY <1>1 DEF Locked, DbType
<1>4. CASE NoMoreSpace /\ local_db' = Locked /\ nvm' = LockSync
  BY <1>3, <1>4, RewriteKeeps DEF NoMoreSpace, LockSync
<1>5. CASE /\ local_db.used # 0 /\ ~NoMoreSpace
           /\ local_db' = NewDb(interval) /\ nvm' = Sync(LockSync, NewDb(interval))
  BY <1>5, NewDbOpens DEF NoMoreSpace
<1> QED BY <1>2, <1>4, <1>5 DEF temperature_db_new

\* After a power cut, between the two writes of temperature_register or not, the
\* database loaded is the one that was in use.
LEMMA PowerKeeps ==
    ASSUME DbInv, PowerCutsAtFew,
           nvm' = nvm \/ \E raw_val \in Temperatures : CutInRegister(raw_val),
           Len(Sessions) < MaxDbsPowered, temperature_init
    PROVE  /\ Cells' /\ local_db' = local_db
           /\ (\E addrs : Layout(addrs)') /\ Sessions' = Sessions
<1>1. PICK addrs : Layout(addrs)
  BY DEF DbInv
<1>2. PICK a : a = local_db.nvm_addr
  OBVIOUS
<1>3. PICK used : used = local_db.used
  OBVIOUS
<1>4. /\ addrs[Len(addrs)] = a /\ used \in Nat /\ a \in Nat /\ NVM_SIZE \in Nat
      /\ item_nvm_addr(local_db) = a + ITEMS + used /\ a + ITEMS + used <= NVM_SIZE
      /\ Fetch(a) = local_db
  BY <1>1, <1>2, <1>3, LastInUse
<1>5. Cells' /\ \A c \in Addresses : c < a + ITEMS + used => nvm'[c] = nvm[c]
  <2>1. CASE nvm' = nvm
    BY <2>1 DEF Cells, DbInv
  <2>2. CASE \E raw_val \in Temperatures : CutInRegister(raw_val)
    <3>1. PICK raw_val \in Temperatures : CutInRegister(raw_val)
      BY <2>2
    <3>2. nvm' = [nvm EXCEPT ![a + ITEMS + used] = raw_val] /\ raw_val \in Nat
      BY <1>4, <3>1, MonitorAssumption DEF CutInRegister
    <3>3. \A c \in Addresses : c < a + ITEMS + used => c # a + ITEMS + used
      BY <1>4 DEF Addresses, ITEMS
    <3> QED BY <3>2, <3>3 DEF Cells, DbInv
  <2> QED BY <2>1, <2>2
<1>6. Fetch(a)' = local_db
  <2>1. /\ a \in Addresses /\ a + 1 \in Addresses /\ a + 2 \in Addresses /\ a + 3 \in Addresses
        /\ a < a + ITEMS + used /\ a + 1 < a + ITEMS + used
        /\ a + 2 < a + ITEMS + used /\ a + 3 < a + ITEMS + used
    BY <1>4 DEF ITEMS, Addresses, NVM_LIMIT
  <2>2. a + USED = a /\ a + INTERVAL = a + 1 /\ a + ID = a + 2 /\ a + LOCKED = a + 3
    BY <1>4 DEF USED, INTERVAL, ID, LOCKED
  <2>3. Fetch(a)' = Fetch(a)
    BY <1>5, <2>1, <2>2 DEF Fetch
  <2> QED BY <1>4, <2>3
<1>7. \A c \in Addresses : c < local_db.nvm_addr => nvm'[c] = nvm[c]
  <2>1. \A c \in Addresses : c < a => c < a + ITEMS + used
    BY <1>4 DEF ITEMS, Addresses
  <2> QED BY <1>2, <1>5, <2>1
<1>8. Len(addrs) = 1 \/ Len(addrs) = 2
  <2>1. Len(addrs) \in Nat \ {0}
    BY <1>1, LayoutAddresses
  <2>2. PICK n \in Nat \ {0} : n = Len(addrs)
    BY <2>1
  <2>3. n < MaxDbsPowered
    BY <1>1, <2>2, SessionsSequence
  <2>4. MaxDbsPowered \in Nat /\ MaxDbsPowered <= 3
    BY MonitorAssumption DEF PowerCutsAtFew
  <2>5. n = 1 \/ n = 2
    BY <2>3, <2>4
  <2> QED BY <2>2, <2>5
<1>9. addrs[1] = 0
  BY <1>1 DEF Layout
<1>10. local_db' = local_db
  <2>1. CASE Len(addrs) = 1
    <3>1. Fetch(0)' = local_db /\ NextAddr(local_db) = NULL
      BY <1>1, <1>4, <1>6, <1>9, <2>1 DEF Layout
    <3>2. LoadedDb' = local_db
      BY <3>1 DEF LoadedDb
    <3> QED BY <3>2 DEF temperature_init
  <2>2. CASE Len(addrs) = 2
    <3>1. Fetch(0)' = Fetch(0) /\ NextAddr(Fetch(0)) = a
      <4>1. 1 \in 1 .. Len(addrs) - 1 /\ 1 + 1 = Len(addrs)
        BY <2>2
      <4>2. Fetch(addrs[1])' = Fetch(addrs[1])
        BY <1>1, <1>5, <1>7, <4>1, EarlierKept DEF DbInv
      <4>3. NextAddr(Fetch(addrs[1])) = addrs[1 + 1]
        BY <1>1, <4>1 DEF Layout
      <4> QED BY <1>4, <1>9, <4>1, <4>2, <4>3
    <3>2. a # NULL
      BY <1>4 DEF NULL
    <3>3. Fetch(0).locked
      BY <3>1, <3>2 DEF NextAddr
    <3>4. NextAddr(Fetch(0)') = a /\ Fetch(0)'.locked
      BY <3>1, <3>3
    <3>5. LoadedDb' = Fetch(a)'
      BY <3>2, <3>4 DEF LoadedDb
    <3> QED BY <1>6, <3>5 DEF temperature_init
  <2> QED BY <1>8, <2>1, <2>2
<1>11. (\E s : Layout(s)') /\ Sessions' = Sessions
  <2>1. Fetch(local_db.nvm_addr)' = local_db'
    BY <1>2, <1>6, <1>10
  <2>2. local_db' \in DbType /\ NextAddr(local_db') = NULL
    BY <1>1, <1>10 DEF DbInv, Layout
  <2>3. \A c \in Addresses : /\ c < local_db.nvm_addr => nvm'[c] = nvm[c]
                             /\ c >= local_db.nvm_addr + ITEMS /\ c < item_nvm_addr(local_db)
                                  => nvm'[c] = nvm[c]
    BY <1>4, <1>5, <1>7
  <2> QED BY <1>5, <1>10, <2>1, <2>2, <2>3, SessionsKept
<1> QED BY <1>5, <1>10, <1>11

\* The steps that leave the databases alone.
LEMMA UnchangedKeeps ==
    ASSUME DbInv, UNCHANGED dbVars
    PROVE  Cells' /\ local_db' \in DbType /\ (\E addrs : Layout(addrs)') /\ Sessions' = Sessions
<1>1. PICK addrs : Layout(addrs)
  BY DEF DbInv
<1>2. nvm' = nvm /\ local_db' = local_db
  BY DEF dbVars
<1>3. Fetch(local_db.nvm_addr)' = local_db'
  <2>1. Fetch(local_db.nvm_addr) = local_db
    BY <1>1, LastInUse
  <2> QED BY <1>2, <2>1 DEF Fetch
<1>4. NextAddr(local_db') = NULL
  BY <1>1, <1>2 DEF Layout
<1>5. Cells' /\ local_db' \in DbType
  BY <1>2 DEF DbInv, Cells
<1> QED BY <1>2, <1>3, <1>4, <1>5, SessionsKept

\* At power on there is one empty session.
LEMMA InitDbInv == Init => DbInv /\ Log!Init
<1> SUFFICES ASSUME Init PROVE DbInv /\ Log!Init
  OBVIOUS
<1> DEFINE zero == [c \in Addresses |-> 0]
           db == EmptyDb(0)
           memory == Sync(zero, db)
<1>1. nvm = memory /\ local_db = db /\ hung = FALSE
  BY DEF Init, TempDbInit
<1>2. db \in DbType /\ db.nvm_addr = 0 /\ 0 + ITEMS <= NVM_SIZE /\ NVM_SIZE \in Nat /\ zero \in [Addresses -> Nat]
  BY TempDbAssumption
  DEF EmptyDb, DbType, AllIntervals, Addresses, NVM_LIMIT, ITEMS, TEMP_DB_MIN_SIZE
<1>3. db.id = 0 /\ db.used = 0 /\ ~db.locked /\ db.interval = 0
  BY DEF EmptyDb
<1> HIDE DEF zero
<1>4. /\ memory \in [Addresses -> Nat]
      /\ memory[0] = 0 /\ memory[0 + 1] = 0 /\ memory[0 + 2] = 0 /\ memory[0 + 3] = 0
  BY <1>2, <1>3, SyncCells
<1>5. Cells
  BY <1>1, <1>4 DEF Cells
<1>6. Fetch(0) = db
  <2>1. nvm[0 + USED] = 0 /\ nvm[0 + INTERVAL] = 0 /\ nvm[0 + ID] = 0 /\ nvm[0 + LOCKED] = 0
    BY <1>1, <1>4 DEF USED, INTERVAL, ID, LOCKED
  <2>2. (nvm[0 + LOCKED] = 1) = FALSE
    BY <2>1
  <2>3. Fetch(0) = [used |-> 0, interval |-> 0, id |-> 0, locked |-> FALSE, nvm_addr |-> 0]
    BY <2>1, <2>2 DEF Fetch
  <2> QED BY <2>3 DEF EmptyDb
<1> HIDE DEF db, memory
<1>7. item_nvm_addr(db) = ITEMS /\ NextAddr(db) = NULL
  BY <1>2, <1>3 DEF item_nvm_addr, NextAddr, ITEMS
<1>8. PICK s : s = <<0>>
  OBVIOUS
<1>9. s \in Seq(Addresses) /\ Len(s) = 1 /\ s[1] = 0
  BY <1>2, <1>8 DEF DbType
<1>10. Layout(s)
  <2>1. \A k \in 1 .. Len(s) : k = 1
    BY <1>9
  <2>2. \A k \in 1 .. Len(s) : Fetch(s[k]).id = (k - 1) % DB_IDS
    <3>1. (1 - 1) % DB_IDS = 0
      BY TempDbAssumption
    <3> QED BY <1>3, <1>6, <1>9, <2>1, <3>1
  <2>3. \A k \in 1 .. Len(s) - 1 : NextAddr(Fetch(s[k])) = s[k + 1]
    BY <1>9
  <2>4. \A j, k \in 1 .. Len(s) : j < k => item_nvm_addr(Fetch(s[j])) <= s[k]
    BY <1>9
  <2>5. s[Len(s)] = 0 /\ ITEMS <= NVM_SIZE
    BY <1>2, <1>9 DEF ITEMS
  <2>6. Fetch(s[Len(s)]) = local_db /\ NextAddr(local_db) = NULL
        /\ item_nvm_addr(local_db) <= NVM_SIZE
    BY <1>1, <1>6, <1>7, <2>5
  <2> QED BY <1>9, <2>2, <2>3, <2>4, <2>6 DEF Layout
<1>11. DbInv
  BY <1>1, <1>2, <1>5, <1>10 DEF DbInv, Init
<1>12. Sessions = <<<<>>>>
  <2>1. Items(0) = <<>>
    <3>1. nvm[0 + USED] = 0
      BY <1>1, <1>4 DEF USED
    <3>2. Items(0) = [i \in 1 .. nvm[0 + USED] |-> nvm[0 + ITEMS + i - 1]]
      BY DEF Items
    <3> QED BY <3>1, <3>2
  <2>2. Sessions = [k \in 1 .. Len(s) |-> Items(s[k])]
    BY <1>5, <1>10, SessionsLaid
  <2>3. \A k \in 1 .. 1 : Items(s[k]) = <<>>
    BY <1>9, <2>1
  <2> QED BY <1>9, <2>2, <2>3
<1> QED BY <1>1, <1>3, <1>11, <1>12 DEF Log!Init

\* Every step keeps the databases as they should be, and is one of the log.
LEMMA NextDbInv == PowerCutsAtFew => (DbInv /\ [Next]_vars => DbInv' /\ [Log!Next]_(Log!vars))
<1> SUFFICES ASSUME PowerCutsAtFew, DbInv, [Next]_vars PROVE DbInv' /\ [Log!Next]_(Log!vars)
  OBVIOUS
<1> DEFINE Kept == Cells' /\ local_db' \in DbType /\ (\E addrs : Layout(addrs)')
           Set == timer_interval' \in Intervals \cup {DEFAULT_INTERVAL}
           Stutter == UNCHANGED <<Sessions, local_db.used>>
<1>1. \/ Kept /\ Set /\ Stutter
      \/ Kept /\ Set /\ Log!Next
  <2>1. timer_interval \in AllIntervals /\ timer_interval \in Intervals \cup {DEFAULT_INTERVAL}
    BY DEF DbInv, AllIntervals
  <2>2. CASE UNCHANGED dbVars /\ Set
    <3>1. local_db' = local_db
      BY <2>2 DEF dbVars
    <3> QED BY <2>1, <2>2, <3>1, UnchangedKeeps
  <2>3. CASE Tick
    BY <2>1, <2>2, <2>3 DEF Tick, settings
  <2>4. CASE temperature_daemon_handler
    <3>1. Set /\ hung' = hung
      BY <2>1, <2>4 DEF temperature_daemon_handler, settings
    <3>2. CASE \E raw_val \in Temperatures : temperature_register(raw_val)
      BY <3>1, <3>2, RegisterRecords DEF Log!Next
    <3>3. CASE UNCHANGED <<nvm, local_db, late>>
      BY <2>1, <2>2, <3>1, <3>3 DEF dbVars
    <3> QED BY <2>4, <3>2, <3>3 DEF temperature_daemon_handler
  <2>5. CASE temperature_daemon_start
    <3>1. Set /\ temperature_db_new(timer_interval)
      <4>1. timer_interval' = timer_interval
        BY <2>5 DEF temperature_daemon_start, daemonVars, settings
      <4> QED BY <2>1, <2>5, <4>1 DEF temperature_daemon_start
    <3> QED BY <2>1, <3>1, NewDbOpensOrKeeps DEF Log!Next
  <2>6. CASE temperature_daemon_stop
    BY <2>1, <2>2, <2>6 DEF temperature_daemon_stop, settings
  <2>7. CASE temperatures_reset
    <3>1. Set /\ temperature_db_reset
      BY <2>1, <2>7 DEF temperatures_reset, settings
    <3> QED BY <3>1, ResetEmpties DEF Log!Next
  <2>8. CASE \E tint \in Intervals : temperature_daemon_set_interval(tint)
    BY <2>1, <2>2, <2>8 DEF temperature_daemon_set_interval
  <2>9. CASE \E tres \in Resolutions : temperature_daemon_set_resolution(tres)
    BY <2>1, <2>2, <2>9 DEF temperature_daemon_set_resolution
  <2>10. CASE PowerOff \/ PowerCut
    <3>1. /\ nvm' = nvm \/ \E raw_val \in Temperatures : CutInRegister(raw_val)
          /\ PowerOn
      BY <2>10 DEF PowerOff, PowerCut
    <3>2. Set /\ temperature_init /\ Len(Sessions) < MaxDbsPowered
      BY <3>1 DEF PowerOn
    <3>3. /\ Cells' /\ local_db' = local_db
          /\ (\E addrs : Layout(addrs)') /\ Sessions' = Sessions
      BY <3>1, <3>2, PowerKeeps
    <3> QED BY <3>2, <3>3 DEF DbInv
  <2>11. CASE UNCHANGED vars
    BY <2>1, <2>2, <2>11 DEF vars, daemonVars
  <2> QED BY <2>3, <2>4, <2>5, <2>6, <2>7, <2>8, <2>9, <2>10, <2>11 DEF Next, UserStep
<1>2. Kept /\ Set => DbInv'
  BY DEF DbInv
<1>3. Stutter => UNCHANGED Log!vars
  BY DEF Log!vars
<1> QED BY <1>1, <1>2, <1>3

\* In an EEPROM of any size, with any number of ids, the databases are a log of sessions
\* as long as the power is only cut with one or two of them: no temperature overwrites
\* another, none is lost to a power cut once it is counted, and only a reset takes
\* sessions away.  With more databases temperature_init does not load the last one.
THEOREM EepromIsLog == ASSUME PowerCutsAtFew PROVE Spec => ImplementsLog
<1>1. Init => DbInv /\ Log!Init
  BY InitDbInv
<1>2. DbInv /\ [Next]_vars => DbInv' /\ [Log!Next]_(Log!vars)
  BY NextDbInv
<1> QED BY <1>1, <1>2, PTL DEF Spec, ImplementsLog, Log!Spec

-----------------------------------------------------------------------------
\* The types of the daemon
DaemonTypes ==
    /\ timer_counter \in 0 .. UINT16 - 1
    /\ timer_ongoing \in BOOLEAN /\ timer_elapsed \in BOOLEAN /\ timd \in BOOLEAN
    /\ timer_resolution \in Resolutions \cup {DEFAULT_RESOLUTION}
    /\ timer_interval \in Intervals \cup {DEFAULT_INTERVAL}
    /\ late \in Nat /\ resets \in 0 .. MaxResets

\* At power on the daemon is stopped.
LEMMA InitDaemonTypes == Init => DaemonTypes
<1> SUFFICES ASSUME Init PROVE DaemonTypes
  OBVIOUS
<1>1. 0 \in 0 .. UINT16 - 1 /\ 0 \in 0 .. MaxResets /\ FALSE \in BOOLEAN
  BY MonitorAssumption
<1>2. timer_counter \in 0 .. UINT16 - 1 /\ resets \in 0 .. MaxResets /\ late \in Nat
  BY <1>1 DEF Init
<1>3. timer_ongoing \in BOOLEAN /\ timer_elapsed \in BOOLEAN /\ timd \in BOOLEAN
  BY <1>1 DEF Init
<1>4. /\ timer_resolution \in Resolutions \cup {DEFAULT_RESOLUTION}
      /\ timer_interval \in Intervals \cup {DEFAULT_INTERVAL}
  BY DEF Init
<1> QED BY <1>2, <1>3, <1>4 DEF DaemonTypes

\* The types of the daemon do not depend on the databases.
LEMMA DaemonTypesKept == DaemonTypes /\ [Next]_vars => DaemonTypes'
<1> SUFFICES ASSUME DaemonTypes, [Next]_vars PROVE DaemonTypes'
  OBVIOUS
<1> USE DEF DaemonTypes, settings
<1>1. 0 \in 0 .. UINT16 - 1 /\ FALSE \in BOOLEAN /\ TRUE \in BOOLEAN
  BY MonitorAssumption
<1>2. CASE Tick
  <2>1. timer_counter' \in 0 .. UINT16 - 1
    <3>1. (timer_counter + 1) % UINT16 \in 0 .. UINT16 - 1
      <4>1. PICK i \in Nat : i = timer_counter + 1
        OBVIOUS
      <4>2. i % UINT16 \in 0 .. UINT16 - 1
        BY MonitorAssumption
      <4> QED BY <4>1, <4>2
    <3>2. timer_counter' = 0 \/ timer_counter' = (timer_counter + 1) % UINT16
      BY <1>2, Zenon DEF Tick
    <3> QED BY <1>1, <3>1, <3>2
  <2>2. timer_elapsed' = TRUE \/ timer_elapsed' = timer_elapsed
    BY <1>2, Zenon DEF Tick
  <2>3. timer_elapsed' \in BOOLEAN
    BY <2>2, Zenon
  <2> QED BY <1>2, <2>1, <2>3 DEF Tick
<1>3. CASE temperature_daemon_handler
  <2>1. late' = late \/ late' = late + 1
    BY <1>3 DEF temperature_daemon_handler
  <2>2. UNCHANGED <<timer_ongoing, timd>> \/ (timer_ongoing' = FALSE /\ timd' = FALSE)
    BY <1>3, Zenon DEF temperature_daemon_handler, StopWhenFull, Stop
  <2>3. timer_ongoing' \in BOOLEAN /\ timd' \in BOOLEAN
    BY <2>2, Zenon
  <2>4. late' \in Nat
    BY <2>1
  <2> QED BY <1>3, <2>3, <2>4 DEF temperature_daemon_handler
<1>4. CASE temperature_daemon_start
  <2>1. CASE UNCHANGED daemonVars
    BY <2>1 DEF daemonVars
  <2>2. CASE /\ timer_counter' = 0 /\ timer_ongoing' = TRUE /\ timd' = TRUE
             /\ late' = 0
             /\ UNCHANGED <<timer_elapsed, settings, resets>>
    <3>1. timer_counter' \in 0 .. UINT16 - 1 /\ timer_ongoing' \in BOOLEAN /\ timd' \in BOOLEAN
      BY <1>1, <2>2
    <3>2. late' \in Nat
      BY <2>2
    <3> QED BY <2>2, <3>1, <3>2
  <2> QED BY <1>4, <2>1, <2>2, Zenon DEF temperature_daemon_start
<1>5. CASE temperature_daemon_stop
  BY <1>5 DEF temperature_daemon_stop, Stop
<1>6. CASE temperatures_reset
  <2>1. resets' \in 0 .. MaxResets
    BY <1>6, MonitorAssumption DEF temperatures_reset
  <2>2. timd' \in BOOLEAN /\ timer_ongoing' \in BOOLEAN
    BY <1>1, <1>6 DEF temperatures_reset, Stop
  <2> QED BY <1>6, <2>1, <2>2 DEF temperatures_reset
<1>7. CASE \E tint \in Intervals : temperature_daemon_set_interval(tint)
  BY <1>7 DEF temperature_daemon_set_interval
<1>8. CASE \E tres \in Resolutions : temperature_daemon_set_resolution(tres)
  BY <1>8 DEF temperature_daemon_set_resolution
<1>9. CASE PowerOff \/ PowerCut
  <2>1. PowerOn /\ timer_counter' \in 0 .. UINT16 - 1 /\ timer_elapsed' \in BOOLEAN
    BY <1>1, <1>9 DEF PowerOff, PowerCut
  <2> QED BY <2>1 DEF PowerOn, Stop
<1>10. CASE UNCHANGED vars
  BY <1>10 DEF vars, daemonVars
<1> QED BY <1>2, <1>3, <1>4, <1>5, <1>6, <1>7, <1>8, <1>9, <1>10 DEF Next, UserStep

\* A database is only locked once it has temperatures
LockedHasItems(db) == db.locked => db.used # 0

\* A database that is at an address: its header, and where its temperatures end
Sound(addr) ==
    /\ Fetch(addr) \in DbType /\ item_nvm_addr(Fetch(addr)) <= NVM_SIZE
    /\ LockedHasItems(Fetch(addr))

\* Where the database in use is with respect to the two that temperature_init may load,
\* the first one and the one after it, at second: it is one of them or lies behind them.
Placed(second) ==
    /\ InUse /\ LockedHasItems(local_db)
    /\ Sound(0) /\ NextAddr(Fetch(0)) = second
    /\ local_db.nvm_addr = 0 => second = NULL
    /\ local_db.nvm_addr # 0 =>
          /\ second # NULL /\ Sound(second)
          /\ \/ local_db.nvm_addr = second
             \/ item_nvm_addr(Fetch(second)) <= local_db.nvm_addr

\* temperature_init only goes round at the first database, locked and full
HangsAtFirst ==
    hung => local_db.nvm_addr = 0 /\ local_db.locked /\ NextAddr(local_db) = NULL

\* The inductive invariant behind the types of the databases
TypesInv ==
    /\ \E second : Placed(second)
    /\ hung \in BOOLEAN /\ HangsAtFirst

\* The header of a sound database is before the end of its temperatures.
LEMMA SoundHeader ==
    ASSUME NEW addr, Sound(addr)
    PROVE  /\ addr \in Addresses /\ addr \in Nat /\ NVM_SIZE \in Nat
           /\ addr + ITEMS <= item_nvm_addr(Fetch(addr))
           /\ addr + ITEMS <= NVM_SIZE
           /\ item_nvm_addr(Fetch(addr)) \in Nat
<1>1. Fetch(addr).nvm_addr = addr
  BY DEF Fetch
<1>2. addr \in Addresses /\ Fetch(addr).used \in Nat
  BY <1>1 DEF Sound, DbType
<1>3. addr \in Nat /\ NVM_SIZE \in Nat
  BY <1>2, TempDbAssumption DEF Addresses
<1>4. item_nvm_addr(Fetch(addr)) = addr + ITEMS + Fetch(addr).used
  BY <1>1 DEF item_nvm_addr
<1>5. item_nvm_addr(Fetch(addr)) <= NVM_SIZE
  BY DEF Sound
<1> QED BY <1>2, <1>3, <1>4, <1>5 DEF ITEMS

\* A header below what a step writes is as it was.
LEMMA HeaderKept ==
    ASSUME NEW addr \in Addresses, NEW limit \in Nat, addr + ITEMS <= limit, limit <= NVM_SIZE,
           \A c \in Addresses : c < limit => nvm'[c] = nvm[c]
    PROVE  Fetch(addr)' = Fetch(addr)
<1>1. addr \in Nat /\ NVM_SIZE \in Nat
  BY TempDbAssumption DEF Addresses
<1>2. /\ addr \in Addresses /\ addr + 1 \in Addresses /\ addr + 2 \in Addresses /\ addr + 3 \in Addresses
      /\ addr < limit /\ addr + 1 < limit /\ addr + 2 < limit /\ addr + 3 < limit
  BY <1>1 DEF Addresses, NVM_LIMIT, ITEMS
<1>3. addr + USED = addr /\ addr + INTERVAL = addr + 1 /\ addr + ID = addr + 2 /\ addr + LOCKED = addr + 3
  BY <1>1 DEF USED, INTERVAL, ID, LOCKED
<1> QED BY <1>2, <1>3 DEF Fetch

\* The second database, where there is one, is behind the first one.
LEMMA SecondBehind ==
    ASSUME NEW second, Placed(second), second # NULL
    PROVE  ITEMS <= second
<1>1. second = item_nvm_addr(Fetch(0))
  BY DEF Placed, NextAddr
<1>2. Sound(0)
  BY DEF Placed
<1> QED BY <1>1, <1>2, SoundHeader DEF ITEMS

\* A step that writes to the database in use, or behind it, leaves the others where
\* they are.
LEMMA PlacedAfter ==
    ASSUME NEW second, Placed(second), Cells', local_db' \in DbType,
           local_db'.nvm_addr = local_db.nvm_addr,
           Fetch(local_db.nvm_addr)' = local_db', item_nvm_addr(local_db') <= NVM_SIZE,
           local_db.nvm_addr = 0 => NextAddr(local_db') = NULL, LockedHasItems(local_db'),
           \A c \in Addresses : c < local_db.nvm_addr => nvm'[c] = nvm[c]
    PROVE  Placed(second)'
<1>1. PICK a : a = local_db.nvm_addr
  OBVIOUS
<1>2. a \in Nat /\ a <= NVM_SIZE /\ NVM_SIZE \in Nat
  BY <1>1, InUseCells DEF Placed
<1>3. InUse'
  <2>1. Fetch(a)' = local_db' /\ local_db'.nvm_addr = a
    BY <1>1
  <2> QED BY <2>1 DEF InUse
<1>4. CASE a = 0
  <2>1. second = NULL
    BY <1>1, <1>4 DEF Placed
  <2>2. Fetch(0)' = local_db' /\ NextAddr(local_db') = NULL /\ local_db'.nvm_addr = 0
    BY <1>1, <1>4
  <2> QED BY <1>3, <2>1, <2>2 DEF Placed, Sound, LockedHasItems
<1>5. CASE a # 0
  <2>1. second # NULL /\ Sound(second) /\ Sound(0) /\ NextAddr(Fetch(0)) = second
        /\ (a = second \/ item_nvm_addr(Fetch(second)) <= a)
    BY <1>1, <1>5 DEF Placed
  <2>2. /\ ITEMS <= second /\ second \in Nat /\ 0 \in Addresses
        /\ second + ITEMS <= item_nvm_addr(Fetch(second)) /\ item_nvm_addr(Fetch(second)) \in Nat
    BY <2>1, SecondBehind, SoundHeader
  <2>3. second <= a
    BY <1>2, <2>1, <2>2 DEF ITEMS
  <2>4. Fetch(0)' = Fetch(0)
    <3>1. 0 + ITEMS <= a
      BY <1>2, <2>2, <2>3 DEF ITEMS
    <3> QED BY <1>1, <1>2, <2>2, <3>1, HeaderKept
  <2>5. CASE a = second
    <3>1. Fetch(second)' = local_db'
      BY <1>1, <2>5
    <3>2. Sound(0)' /\ NextAddr(Fetch(0))' = second /\ Sound(second)'
      BY <2>1, <2>4, <3>1 DEF Sound, LockedHasItems
    <3> QED BY <1>1, <1>3, <1>5, <2>1, <2>5, <3>2 DEF Placed, LockedHasItems
  <2>6. CASE item_nvm_addr(Fetch(second)) <= a
    <3>1. Fetch(second)' = Fetch(second)
      <4>1. second + ITEMS <= a
        BY <1>2, <2>2, <2>6 DEF ITEMS
      <4>2. second \in Addresses
        BY <2>1, SoundHeader
      <4> QED BY <1>1, <1>2, <4>1, <4>2, HeaderKept
    <3>2. Sound(0)' /\ NextAddr(Fetch(0))' = second /\ Sound(second)'
      BY <2>1, <2>4, <3>1 DEF Sound, LockedHasItems
    <3>3. item_nvm_addr(Fetch(second))' <= a
      BY <2>6, <3>1
    <3> QED BY <1>1, <1>3, <1>5, <2>1, <3>2, <3>3 DEF Placed, LockedHasItems
  <2> QED BY <2>1, <2>5, <2>6
<1> QED BY <1>4, <1>5

\* A database opened is behind the one that was in use.
LEMMA PlacedNew ==
    ASSUME NEW second, Placed(second), NEW interval \in AllIntervals,
           local_db.used # 0, NextAddr(Locked) # NULL,
           local_db' = NewDb(interval), nvm' = Sync(LockSync, NewDb(interval))
    PROVE  \E then : Placed(then)'
<1>1. PICK a : a = local_db.nvm_addr
  OBVIOUS
<1>2. PICK b : b = NextAddr(Locked)
  OBVIOUS
<1>3. /\ Cells' /\ b = item_nvm_addr(local_db)
      /\ b + ITEMS <= NVM_SIZE /\ b \in Addresses /\ a < b
      /\ Locked \in DbType /\ NewDb(interval) \in DbType
      /\ \A c \in Addresses : c < b /\ (c < a \/ c >= a + ITEMS) => nvm'[c] = nvm[c]
      /\ Fetch(a)' = Locked /\ Fetch(b)' = NewDb(interval)
  BY <1>1, <1>2, NewDbCells DEF Placed
<1>4. a \in Nat /\ a + ITEMS <= b /\ b \in Nat /\ NVM_SIZE \in Nat /\ b <= NVM_SIZE
  <2>1. /\ b = a + ITEMS + local_db.used /\ local_db.used \in Nat /\ a \in Nat
        /\ NVM_SIZE \in Nat
    BY <1>1, <1>3, InUseCells DEF Placed
  <2> QED BY <1>3, <2>1 DEF ITEMS
<1>5. item_nvm_addr(Locked) = b /\ Locked.nvm_addr = a
  BY <1>1, <1>3 DEF Locked, item_nvm_addr, Placed, InUse, DbType
<1>6. local_db'.nvm_addr = b /\ item_nvm_addr(local_db') = b + ITEMS /\ b # 0
  <2>1. NewDb(interval).nvm_addr = b /\ NewDb(interval).used = 0
    BY <1>2 DEF NewDb
  <2> QED BY <1>3, <1>4, <2>1 DEF item_nvm_addr, ITEMS
<1>7. Locked.used # 0
  BY DEF Locked, Placed, InUse, DbType
<1>8. LockedHasItems(local_db')
  BY DEF NewDb, LockedHasItems
<1>9. InUse' /\ Sound(b)'
  <2>1. item_nvm_addr(local_db') <= NVM_SIZE /\ local_db' \in DbType /\ Fetch(b)' = local_db'
    BY <1>3, <1>6
  <2> QED BY <1>3, <1>6, <1>8, <2>1 DEF InUse, Sound, LockedHasItems
<1>10. CASE a = 0
  <2>1. Fetch(0)' = Locked
    BY <1>3, <1>10
  <2>2. Sound(0)' /\ NextAddr(Fetch(0))' = b
    BY <1>2, <1>3, <1>4, <1>5, <1>7, <2>1 DEF Sound, LockedHasItems
  <2>3. b # NULL
    BY <1>4 DEF NULL
  <2>4. Placed(b)'
    BY <1>6, <1>8, <1>9, <2>2, <2>3 DEF Placed
  <2> QED BY <2>4
<1>11. CASE a # 0
  <2>1. second # NULL /\ Sound(second) /\ Sound(0) /\ NextAddr(Fetch(0)) = second
        /\ (a = second \/ item_nvm_addr(Fetch(second)) <= a)
    BY <1>1, <1>11 DEF Placed
  <2>2. /\ ITEMS <= second /\ second \in Nat /\ 0 \in Addresses /\ second \in Addresses
        /\ second + ITEMS <= item_nvm_addr(Fetch(second)) /\ item_nvm_addr(Fetch(second)) \in Nat
    BY <2>1, SecondBehind, SoundHeader
  <2>3. second <= a
    BY <1>4, <2>1, <2>2 DEF ITEMS
  <2>4. \A c \in Addresses : c < a => nvm'[c] = nvm[c]
    BY <1>3, <1>4 DEF Addresses
  <2>5. Fetch(0)' = Fetch(0)
    <3>1. 0 + ITEMS <= a /\ a <= NVM_SIZE
      BY <1>4, <2>2, <2>3 DEF ITEMS
    <3> QED BY <1>4, <2>2, <2>4, <3>1, HeaderKept
  <2>6. Sound(0)' /\ NextAddr(Fetch(0))' = second
    BY <2>1, <2>5 DEF Sound, LockedHasItems
  <2>7. Sound(second)' /\ item_nvm_addr(Fetch(second))' <= b
    <3>1. CASE a = second
      <4>1. Fetch(second)' = Locked
        BY <1>3, <3>1
      <4> QED BY <1>3, <1>4, <1>5, <1>7, <4>1 DEF Sound, LockedHasItems
    <3>2. CASE item_nvm_addr(Fetch(second)) <= a
      <4>1. second + ITEMS <= a /\ a <= NVM_SIZE /\ item_nvm_addr(Fetch(second)) <= b
        BY <1>3, <1>4, <2>2, <3>2 DEF ITEMS
      <4>2. Fetch(second)' = Fetch(second)
        BY <1>4, <2>2, <2>4, <4>1, HeaderKept
      <4> QED BY <2>1, <4>1, <4>2 DEF Sound, LockedHasItems
    <3> QED BY <2>1, <3>1, <3>2
  <2>8. Placed(second)'
    BY <1>6, <1>8, <1>9, <2>1, <2>6, <2>7 DEF Placed
  <2> QED BY <2>8
<1> QED BY <1>10, <1>11

\* temperature_init loads the first database, or the second one if there is one.
LEMMA PlacedPower ==
    ASSUME NEW second, Placed(second), temperature_init,
           nvm' = nvm \/ \E raw_val \in Temperatures : CutInRegister(raw_val)
    PROVE  Placed(second)'
<1>1. PICK a : a = local_db.nvm_addr
  OBVIOUS
<1>2. PICK used : used = local_db.used
  OBVIOUS
<1>3. /\ a \in Nat /\ used \in Nat /\ NVM_SIZE \in Nat /\ a + ITEMS <= NVM_SIZE
      /\ item_nvm_addr(local_db) = a + ITEMS + used /\ a + ITEMS \in Nat
  <2>1. /\ a \in Nat /\ used \in Nat /\ NVM_SIZE \in Nat /\ a + ITEMS + used <= NVM_SIZE
        /\ item_nvm_addr(local_db) = a + ITEMS + used
    BY <1>1, <1>2, InUseCells DEF Placed
  <2> QED BY <2>1 DEF ITEMS
<1>4. Cells' /\ \A c \in Addresses : c < a + ITEMS => nvm'[c] = nvm[c]
  <2>1. Cells
    BY DEF Placed, InUse
  <2>2. CASE nvm' = nvm
    BY <2>1, <2>2 DEF Cells
  <2>3. CASE \E raw_val \in Temperatures : CutInRegister(raw_val)
    <3>1. PICK raw_val \in Temperatures : CutInRegister(raw_val)
      BY <2>3
    <3>2. nvm' = [nvm EXCEPT ![a + ITEMS + used] = raw_val] /\ raw_val \in Nat
      BY <1>3, <3>1, MonitorAssumption DEF CutInRegister
    <3>3. \A c \in Addresses : c < a + ITEMS => c # a + ITEMS + used
      BY <1>3 DEF Addresses, ITEMS
    <3> QED BY <2>1, <3>2, <3>3 DEF Cells
  <2> QED BY <2>2, <2>3
<1>5. Sound(0) /\ NextAddr(Fetch(0)) = second
  BY DEF Placed
<1>6. Fetch(0)' = Fetch(0)
  <2>1. 0 \in Addresses /\ 0 + ITEMS <= a + ITEMS
    BY <1>3, <1>5, SoundHeader DEF ITEMS
  <2> QED BY <1>3, <1>4, <2>1, HeaderKept
<1>7. Sound(0)' /\ NextAddr(Fetch(0))' = second
  BY <1>5, <1>6 DEF Sound, LockedHasItems
<1>8. CASE second = NULL
  <2>1. local_db' = Fetch(0)
    <3>1. LoadedDb' = Fetch(0)'
      BY <1>7, <1>8 DEF LoadedDb
    <3> QED BY <1>6, <3>1 DEF temperature_init
  <2>2. local_db'.nvm_addr = 0 /\ Fetch(0)' = local_db'
    BY <1>6, <2>1 DEF Fetch
  <2>3. InUse'
    BY <1>4, <1>5, <2>1, <2>2 DEF InUse, Sound
  <2>4. LockedHasItems(local_db')
    BY <1>5, <2>1 DEF Sound, LockedHasItems
  <2> QED BY <1>7, <1>8, <2>2, <2>3, <2>4 DEF Placed
<1>9. CASE second # NULL
  <2>1. a # 0
    BY <1>1, <1>9 DEF Placed
  <2>2. Sound(second) /\ (a = second \/ item_nvm_addr(Fetch(second)) <= a)
    BY <1>1, <2>1 DEF Placed
  <2>3. /\ ITEMS <= second /\ second \in Nat /\ second \in Addresses
        /\ second + ITEMS <= item_nvm_addr(Fetch(second)) /\ item_nvm_addr(Fetch(second)) \in Nat
    BY <1>9, <2>2, SecondBehind, SoundHeader
  <2>4. Fetch(second)' = Fetch(second)
    <3>1. second + ITEMS <= a + ITEMS
      BY <1>3, <2>2, <2>3 DEF ITEMS
    <3> QED BY <1>3, <1>4, <2>3, <3>1, HeaderKept
  <2>5. local_db' = Fetch(second)
    <3>1. Fetch(0).locked
      BY <1>5, <1>9 DEF NextAddr
    <3>2. LoadedDb' = Fetch(second)'
      BY <1>6, <1>7, <1>9, <3>1 DEF LoadedDb
    <3> QED BY <2>4, <3>2 DEF temperature_init
  <2>6. local_db'.nvm_addr = second /\ Fetch(second)' = local_db'
    BY <2>4, <2>5 DEF Fetch
  <2>7. InUse'
    BY <1>4, <2>2, <2>5, <2>6 DEF InUse, Sound
  <2>8. Sound(second)' /\ second # 0
    BY <2>2, <2>3, <2>4 DEF Sound, LockedHasItems, ITEMS
  <2>9. LockedHasItems(local_db')
    BY <2>2, <2>5 DEF Sound, LockedHasItems
  <2> QED BY <1>7, <1>9, <2>6, <2>7, <2>8, <2>9 DEF Placed
<1> QED BY <1>8, <1>9

\* Starting the daemon rewrites the database in use or opens one behind it.
LEMMA PlacedStart ==
    ASSUME NEW second, Placed(second), NEW interval \in AllIntervals, temperature_db_new(interval)
    PROVE  \E then : Placed(then)'
<1>1. InUse /\ local_db \in DbType
  BY DEF Placed, InUse
<1> DEFINE Rewrite(db) == local_db' = db /\ nvm' = Sync(nvm, db)
<1>2. ASSUME NEW db \in DbType, db.used = local_db.used, db.nvm_addr = local_db.nvm_addr,
             NextAddr(db) = NULL, LockedHasItems(db), Rewrite(db)
      PROVE  Placed(second)'
  <2>1. /\ local_db.nvm_addr + ITEMS + local_db.used <= NVM_SIZE /\ local_db.used \in Nat
        /\ local_db.nvm_addr \in Nat /\ NVM_SIZE \in Nat
        /\ item_nvm_addr(local_db) = local_db.nvm_addr + ITEMS + local_db.used
    BY <1>1, InUseCells
  <2>2. db.nvm_addr + ITEMS <= NVM_SIZE
    BY <1>2, <2>1 DEF ITEMS
  <2>3. Cells' /\ \A c \in Addresses : c < db.nvm_addr => nvm'[c] = nvm[c]
    BY <1>1, <1>2, <2>2, SyncCells DEF InUse, Cells
  <2>4. Fetch(local_db.nvm_addr)' = local_db'
    <3>1. PICK addr : addr = db.nvm_addr
      OBVIOUS
    <3>2. Fetch(addr)' = db
      BY <1>1, <1>2, <2>2, <3>1, FetchSynced DEF InUse, Cells
    <3> QED BY <1>2, <3>1, <3>2
  <2>5. item_nvm_addr(local_db') <= NVM_SIZE
    BY <1>2, <2>1 DEF item_nvm_addr
  <2> QED BY <1>2, <2>3, <2>4, <2>5, PlacedAfter DEF LockedHasItems
<1>3. CASE /\ local_db.used = 0
           /\ local_db' = Unlocked(interval) /\ nvm' = Sync(nvm, Unlocked(interval))
  <2>1. /\ Unlocked(interval) \in DbType /\ Unlocked(interval).used = local_db.used
        /\ Unlocked(interval).nvm_addr = local_db.nvm_addr /\ ~Unlocked(interval).locked
    BY <1>1 DEF Unlocked, DbType
  <2>2. NextAddr(Unlocked(interval)) = NULL /\ LockedHasItems(Unlocked(interval))
    BY <2>1 DEF NextAddr, LockedHasItems
  <2>3. Placed(second)'
    BY <1>2, <1>3, <2>1, <2>2
  <2> QED BY <2>3
<1>4. CASE NoMoreSpace /\ local_db' = Locked /\ nvm' = LockSync
  <2>1. Locked \in DbType /\ Locked.used = local_db.used /\ Locked.nvm_addr = local_db.nvm_addr
    BY <1>1 DEF Locked, DbType
  <2>2. Placed(second)'
    BY <1>2, <1>4, <2>1 DEF NoMoreSpace, LockSync, LockedHasItems
  <2> QED BY <2>2
<1>5. CASE /\ local_db.used # 0 /\ ~NoMoreSpace
           /\ local_db' = NewDb(interval) /\ nvm' = Sync(LockSync, NewDb(interval))
  BY <1>5, PlacedNew DEF NoMoreSpace
<1> QED BY <1>3, <1>4, <1>5 DEF temperature_db_new

\* A temperature is registered behind the others of the database in use.
LEMMA PlacedRegister ==
    ASSUME NEW second, Placed(second), NEW raw_val \in Temperatures, temperature_register(raw_val)
    PROVE  Placed(second)'
<1>1. InUse
  BY DEF Placed
<1>2. PICK a : a = local_db.nvm_addr
  OBVIOUS
<1>3. PICK used : used = local_db.used
  OBVIOUS
<1>4. /\ used \in Nat /\ a \in Nat /\ NVM_SIZE \in Nat /\ a + USED = a
      /\ item_nvm_addr(local_db) = a + ITEMS + used /\ Fetch(a) = local_db
  BY <1>1, <1>2, <1>3, InUseCells DEF USED, InUse
<1>5. /\ ~local_db.locked /\ a + ITEMS + used < NVM_SIZE
      /\ a + ITEMS + used \in Addresses /\ a \in Addresses
  BY <1>1, <1>2, <1>4 DEF temperature_register, NoRoom, NVM_LIMIT, Addresses, ITEMS, InUse, DbType
<1>6. nvm' = [nvm EXCEPT ![a + ITEMS + used] = raw_val, ![a] = used + 1]
  BY <1>2, <1>3, <1>4 DEF temperature_register
<1>7. local_db' = [local_db EXCEPT !.used = used + 1]
  BY <1>3 DEF temperature_register
<1>8. Cells' /\ nvm'[a] = used + 1
      /\ \A c \in Addresses : c # a /\ c # a + ITEMS + used => nvm'[c] = nvm[c]
  <2>1. raw_val \in Nat
    BY MonitorAssumption
  <2>2. Cells
    BY <1>1 DEF InUse
  <2> QED BY <1>4, <1>5, <1>6, <2>1, <2>2 DEF Cells
<1>9. /\ local_db' \in DbType /\ local_db'.used = used + 1 /\ local_db'.nvm_addr = a
      /\ ~local_db'.locked
  BY <1>1, <1>2, <1>4, <1>5, <1>7 DEF InUse, DbType
<1>10. Fetch(a)' = local_db'
  <2>1. nvm'[a + 1] = nvm[a + 1] /\ nvm'[a + 2] = nvm[a + 2] /\ nvm'[a + 3] = nvm[a + 3]
    <3>1. /\ a + 1 \in Addresses /\ a + 2 \in Addresses /\ a + 3 \in Addresses
          /\ a + 1 # a /\ a + 2 # a /\ a + 3 # a
          /\ a + 1 # a + ITEMS + used /\ a + 2 # a + ITEMS + used /\ a + 3 # a + ITEMS + used
      BY <1>4, <1>5 DEF ITEMS, Addresses, NVM_LIMIT
    <3> QED BY <1>8, <3>1
  <2>2. a + INTERVAL = a + 1 /\ a + ID = a + 2 /\ a + LOCKED = a + 3
    BY <1>4 DEF INTERVAL, ID, LOCKED
  <2>3. Fetch(a)' = [used |-> used + 1, interval |-> nvm[a + 1], id |-> nvm[a + 2],
                     locked |-> nvm[a + 3] = 1, nvm_addr |-> a]
    BY <1>4, <1>8, <2>1, <2>2 DEF Fetch
  <2>4. Fetch(a) = [used |-> nvm[a], interval |-> nvm[a + 1], id |-> nvm[a + 2],
                    locked |-> nvm[a + 3] = 1, nvm_addr |-> a]
    BY <1>4, <2>2 DEF Fetch
  <2>5. local_db' = [Fetch(a) EXCEPT !.used = used + 1]
    BY <1>4, <1>7
  <2> QED BY <2>3, <2>4, <2>5
<1>11. NextAddr(local_db') = NULL /\ item_nvm_addr(local_db') <= NVM_SIZE
  BY <1>4, <1>5, <1>9 DEF NextAddr, item_nvm_addr, ITEMS
<1>12. LockedHasItems(local_db')
  BY <1>9 DEF LockedHasItems
<1>13. \A c \in Addresses : c < a => nvm'[c] = nvm[c]
  <2> SUFFICES ASSUME NEW c \in Addresses, c < a PROVE nvm'[c] = nvm[c]
    OBVIOUS
  <2>1. c # a /\ c # a + ITEMS + used
    BY <1>4 DEF Addresses, ITEMS
  <2> QED BY <1>8, <2>1
<1> QED BY <1>2, <1>8, <1>9, <1>10, <1>11, <1>12, <1>13, PlacedAfter

\* After a reset there is only the first database.
LEMMA PlacedReset ==
    ASSUME NEW second, Placed(second), temperature_db_reset
    PROVE  Placed(NULL)'
<1> DEFINE db == EmptyDb(local_db.interval)
<1>1. db \in DbType /\ db.nvm_addr = 0 /\ 0 + ITEMS <= NVM_SIZE
  BY TempDbAssumption
  DEF EmptyDb, Placed, InUse, DbType, Addresses, NVM_LIMIT, ITEMS, TEMP_DB_MIN_SIZE
<1>2. nvm \in [Addresses -> Nat] /\ nvm' = Sync(nvm, db) /\ local_db' = db
  BY DEF Placed, InUse, Cells, temperature_db_reset
<1>3. db.used = 0 /\ ~db.locked
  BY DEF EmptyDb
<1> HIDE DEF db
<1>4. Cells'
  BY <1>1, <1>2, SyncCells DEF Cells
<1>5. Fetch(0)' = db
  BY <1>1, <1>2, FetchSynced
<1>6. item_nvm_addr(db) <= NVM_SIZE /\ NextAddr(db) = NULL
  BY <1>1, <1>3 DEF item_nvm_addr, NextAddr, ITEMS
<1>7. local_db' = db /\ local_db'.nvm_addr = 0
  BY <1>1, <1>2
<1>8. InUse' /\ Sound(0)' /\ NextAddr(Fetch(0))' = NULL /\ LockedHasItems(local_db)'
  BY <1>1, <1>3, <1>4, <1>5, <1>6, <1>7 DEF InUse, Sound, LockedHasItems
<1> QED BY <1>7, <1>8 DEF Placed

\* Every step leaves the database in use where temperature_init can find it, and the
\* others whole.
LEMMA TypesInvKept == TypesInv /\ DaemonTypes /\ [Next]_vars => TypesInv'
<1> SUFFICES ASSUME TypesInv, DaemonTypes, [Next]_vars PROVE TypesInv'
  OBVIOUS
<1> DEFINE Goal == \E then : Placed(then)'
<1>1. PICK second : Placed(second)
  BY DEF TypesInv
<1>2. hung \in BOOLEAN /\ HangsAtFirst /\ timer_interval \in AllIntervals
  BY DEF TypesInv, DaemonTypes, AllIntervals
<1>3. CASE UNCHANGED dbVars
  <2>1. nvm' = nvm /\ local_db' = local_db /\ hung' = hung
    BY <1>3 DEF dbVars
  <2>2. Placed(second)'
    BY <1>1, <2>1 DEF Placed, InUse, Cells, Sound, Fetch
  <2> QED BY <1>2, <2>1, <2>2 DEF TypesInv, HangsAtFirst
<1>4. Goal /\ ~hung /\ hung' = hung => TypesInv'
  BY <1>2 DEF TypesInv, HangsAtFirst
<1>5. CASE Tick
  BY <1>3, <1>5 DEF Tick
<1>6. CASE temperature_daemon_handler
  <2>1. ~hung /\ hung' = hung
    BY <1>6 DEF temperature_daemon_handler
  <2>2. CASE \E raw_val \in Temperatures : temperature_register(raw_val)
    BY <1>1, <1>4, <2>1, <2>2, PlacedRegister
  <2>3. CASE UNCHANGED <<nvm, local_db, late>>
    BY <1>3, <2>1, <2>3 DEF dbVars
  <2> QED BY <1>6, <2>2, <2>3 DEF temperature_daemon_handler
<1>7. CASE temperature_daemon_start
  <2>1. temperature_db_new(timer_interval) /\ ~hung /\ hung' = hung
    BY <1>7 DEF temperature_daemon_start
  <2> QED BY <1>1, <1>2, <1>4, <2>1, PlacedStart
<1>8. CASE temperature_daemon_stop
  BY <1>3, <1>8 DEF temperature_daemon_stop
<1>9. CASE temperatures_reset
  <2>1. temperature_db_reset /\ ~hung /\ hung' = hung
    BY <1>9 DEF temperatures_reset
  <2> QED BY <1>1, <1>4, <2>1, PlacedReset
<1>10. CASE \E tint \in Intervals : temperature_daemon_set_interval(tint)
  BY <1>3, <1>10 DEF temperature_daemon_set_interval
<1>11. CASE \E tres \in Resolutions : temperature_daemon_set_resolution(tres)
  BY <1>3, <1>11 DEF temperature_daemon_set_resolution
<1>12. CASE PowerOff \/ PowerCut
  <2>1. /\ nvm' = nvm \/ \E raw_val \in Temperatures : CutInRegister(raw_val)
        /\ temperature_init
    BY <1>12 DEF PowerOff, PowerCut, PowerOn
  <2>2. Placed(second)'
    BY <1>1, <2>1, PlacedPower
  <2>3. hung' \in BOOLEAN
    BY <2>1, Zenon DEF temperature_init, LoadsForEver
  <2>4. HangsAtFirst'
    <3> SUFFICES ASSUME LoadsForEver'
                 PROVE  /\ local_db'.nvm_addr = 0 /\ local_db'.locked
                        /\ NextAddr(local_db') = NULL
      BY <2>1 DEF temperature_init, HangsAtFirst
    <3>1. Fetch(0)'.locked /\ NextAddr(Fetch(0)') = NULL /\ Fetch(0)'.nvm_addr = 0
      BY DEF LoadsForEver, Fetch
    <3>2. LoadedDb' = Fetch(0)'
      BY <3>1 DEF LoadedDb
    <3> QED BY <2>1, <3>1, <3>2 DEF temperature_init
  <2> QED BY <2>2, <2>3, <2>4 DEF TypesInv
<1>13. CASE UNCHANGED vars
  BY <1>3, <1>13 DEF vars
<1> QED BY <1>5, <1>6, <1>7, <1>8, <1>9, <1>10, <1>11, <1>12, <1>13 DEF Next, UserStep

\* At power on there is only the first database.
LEMMA InitTypesInv == Init => TypesInv
<1> SUFFICES ASSUME Init PROVE TypesInv
  OBVIOUS
<1>1. DbInv /\ hung = FALSE
  BY InitDbInv DEF Init, TempDbInit
<1>2. InUse
  BY <1>1, DbInvInUse
<1>3. local_db.nvm_addr = 0 /\ ~local_db.locked
  BY DEF Init, TempDbInit, EmptyDb
<1>4. Fetch(0) = local_db /\ NextAddr(local_db) = NULL
  BY <1>2, <1>3 DEF InUse, NextAddr
<1>5. Placed(NULL)
  BY <1>2, <1>3, <1>4 DEF Placed, Sound, InUse, LockedHasItems
<1> QED BY <1>1, <1>5 DEF TypesInv, HangsAtFirst

\* Whatever the EEPROM's size, the number of ids, the settings, the resets and the power
\* cycles, every variable has its type: whichever database temperature_init loads, no
\* temperature or header is written past the end of the EEPROM.
THEOREM MonitorTypes == Spec => []TypeOK
<1>1. Init => DaemonTypes
  BY InitDaemonTypes
<1>2. TypesInv /\ DaemonTypes => TypeOK
  <2> SUFFICES ASSUME TypesInv, DaemonTypes PROVE TypeOK
    OBVIOUS
  <2>1. InUse /\ hung \in BOOLEAN
    BY DEF TypesInv, Placed
  <2>2. local_db.used \in 0 .. NVM_SIZE
    BY <2>1, InUseCells DEF ITEMS
  <2>3. local_db \in DbType /\ item_nvm_addr(local_db) <= NVM_SIZE /\ nvm \in [Addresses -> Nat]
    BY <2>1 DEF InUse, Cells
  <2>4. local_db \in [used : 0 .. NVM_SIZE, interval : AllIntervals, id : 0 .. DB_IDS - 1,
                      locked : BOOLEAN, nvm_addr : Addresses]
    BY <2>2, <2>3 DEF DbType
  <2> QED BY <2>1, <2>3, <2>4 DEF TypeOK, DaemonTypes
<1> QED BY <1>1, <1>2, InitTypesInv, TypesInvKept, DaemonTypesKept, PTL DEF Spec

\* The board only fails to start when its single session has filled the EEPROM and has
\* been locked by one more start, whatever the sizes and the order of the steps.
THEOREM HangsFull == Spec => []HangsOnlyFull
<1>1. Init => DaemonTypes
  BY InitDaemonTypes
<1>2. TypesInv => HangsOnlyFull
  <2> SUFFICES ASSUME TypesInv, hung PROVE Len(Sessions) = 1 /\ NoMoreSpace
    BY DEF HangsOnlyFull
  <2>1. PICK second : Placed(second)
    BY DEF TypesInv
  <2>2. local_db.nvm_addr = 0 /\ local_db.locked /\ NextAddr(local_db) = NULL
    BY DEF TypesInv, HangsAtFirst
  <2>3. Cells /\ local_db \in DbType /\ Fetch(0) = local_db /\ local_db.used # 0
    BY <2>1, <2>2 DEF Placed, InUse, LockedHasItems
  <2>4. PICK f : /\ Sessions = f[0]
                 /\ \A addr \in Addresses :
                       f[addr] = IF NextAddr(Fetch(addr)) = NULL THEN <<Items(addr)>>
                                 ELSE <<Items(addr)>> \o f[NextAddr(Fetch(addr))]
    BY <2>3, SessionsFrom
  <2>5. 0 \in Addresses
    BY <2>2, <2>3 DEF DbType
  <2>6. Sessions = <<Items(0)>>
    BY <2>2, <2>3, <2>4, <2>5
  <2>7. Locked = local_db
    BY <2>2, <2>3 DEF Locked, DbType
  <2> QED BY <2>2, <2>3, <2>6, <2>7 DEF NoMoreSpace
<1> QED BY <1>1, <1>2, InitTypesInv, TypesInvKept, DaemonTypesKept, PTL DEF Spec

\* The interrupt goes by the interval set last, during a session too: no step takes the
\* counter past it.
THEOREM IntervalIsAtOnce == Spec => IntervalAtOnce
<1> DEFINE Measures == timer_counter < timer_interval' => timer_counter' < timer_interval'
<1>1. Init => DaemonTypes
  BY InitDaemonTypes
<1>2. DaemonTypes /\ [Next]_vars => [Measures]_vars
  <2> SUFFICES ASSUME DaemonTypes, Next, timer_counter < timer_interval'
               PROVE  timer_counter' < timer_interval'
    OBVIOUS
  <2>1. timer_counter \in Nat /\ timer_interval' \in Nat \ {0} /\ timer_interval \in Nat \ {0}
    <3>1. DaemonTypes'
      BY DaemonTypesKept
    <3>2. Intervals \cup {DEFAULT_INTERVAL} \subseteq Nat \ {0}
      BY MonitorAssumption, TempDbAssumption
    <3> QED BY <3>1, <3>2 DEF DaemonTypes
  <2>2. CASE timer_counter' = timer_counter \/ timer_counter' = 0
    BY <2>1, <2>2
  <2>3. CASE Tick
    <3>1. PICK i \in Nat : i = timer_counter + 1
      BY <2>1
    <3>2. PICK counter \in Nat : counter = i % UINT16
      BY MonitorAssumption
    <3>3. counter <= i
      BY <3>2, MonitorAssumption
    <3>4. timer_interval' = timer_interval
      BY <2>3 DEF Tick, settings
    <3>5. CASE timer_counter' = 0
      BY <2>2, <3>5
    <3>6. CASE counter # timer_interval /\ timer_counter' = counter
      BY <2>1, <3>1, <3>3, <3>4, <3>6
    <3>7. timer_counter' = 0 \/ (counter # timer_interval /\ timer_counter' = counter)
      BY <2>3, <3>1, <3>2 DEF Tick, ElapsesAt
    <3> QED BY <3>5, <3>6, <3>7
  <2>4. CASE temperature_daemon_handler
    BY <2>2, <2>4 DEF temperature_daemon_handler
  <2>5. CASE temperature_daemon_start
    BY <2>2, <2>5 DEF temperature_daemon_start, daemonVars
  <2>6. CASE temperature_daemon_stop
    BY <2>2, <2>6 DEF temperature_daemon_stop
  <2>7. CASE temperatures_reset
    BY <2>2, <2>7 DEF temperatures_reset
  <2>8. CASE \E tint \in Intervals : temperature_daemon_set_interval(tint)
    BY <2>2, <2>8 DEF temperature_daemon_set_interval
  <2>9. CASE \E tres \in Resolutions : temperature_daemon_set_resolution(tres)
    BY <2>2, <2>9 DEF temperature_daemon_set_resolution
  <2>10. CASE PowerOff \/ PowerCut
    BY <2>2, <2>10 DEF PowerOff, PowerCut
  <2> QED BY <2>3, <2>4, <2>5, <2>6, <2>7, <2>8, <2>9, <2>10 DEF Next, UserStep
<1> QED BY <1>1, <1>2, DaemonTypesKept, PTL DEF Spec, IntervalAtOnce

-----------------------------------------------------------------------------
(***************************************************************************)
(* The downloads: the search of a database by its id.                      *)
(***************************************************************************)

\* The search for an id, from any address on.
LEMMA FoundFrom ==
    ASSUME Cells, NEW db_id
    PROVE  \E f : /\ DbAddr(db_id) = f[SearchStart(db_id)]
                  /\ \A addr \in Addresses :
                        f[addr] = IF Fetch(addr).id = db_id THEN addr
                                  ELSE IF NextAddr(Fetch(addr)) = NULL THEN NULL
                                  ELSE f[NextAddr(Fetch(addr))]
<1> DEFINE Def(f) == f = [addr \in Addresses |->
                            IF Fetch(addr).id = db_id THEN addr
                            ELSE IF NextAddr(Fetch(addr)) = NULL THEN NULL
                            ELSE f[NextAddr(Fetch(addr))]]
           next == [addr \in Addresses |-> IF Fetch(addr).id = db_id THEN NULL ELSE NextOf[addr]]
           base == [addr \in Addresses |-> IF Fetch(addr).id = db_id THEN addr ELSE NULL]
           F == [addr \in Addresses |-> [x \in Int |-> x]]
<1>1. /\ next \in [Addresses -> Int]
      /\ \A a \in Addresses : next[a] = NULL \/ next[a] \in a + 1 .. NVM_SIZE - 1
  <2>1. NULL \in Int
    BY DEF NULL
  <2> QED BY <2>1, NextOfType
<1>2. base \in [Addresses -> Int] /\ F \in [Addresses -> [Int -> Int]]
  <2>1. NULL \in Int /\ \A a \in Addresses : a \in Int
    BY DEF NULL, Addresses
  <2> QED BY <2>1
<1>3. PICK f \in [Addresses -> Int] : Tells(f, Addresses, next, base, F)
  <2> HIDE DEF next, base, F
  <2> QED BY <1>1, <1>2, EepromRecursion
<1>4. \A addr \in Addresses :
         f[addr] = IF Fetch(addr).id = db_id THEN addr
                   ELSE IF NextAddr(Fetch(addr)) = NULL THEN NULL
                   ELSE f[NextAddr(Fetch(addr))]
  <2> SUFFICES ASSUME NEW addr \in Addresses
               PROVE  f[addr] = IF Fetch(addr).id = db_id THEN addr
                                ELSE IF NextAddr(Fetch(addr)) = NULL THEN NULL
                                ELSE f[NextAddr(Fetch(addr))]
    OBVIOUS
  <2> HIDE DEF next, base, F
  <2>1. f[addr] = IF next[addr] = NULL THEN base[addr] ELSE F[addr][f[next[addr]]]
    BY <1>3 DEF Tells
  <2>2. CASE Fetch(addr).id = db_id
    BY <2>1, <2>2 DEF next, base
  <2>3. CASE Fetch(addr).id # db_id
    <3>1. next[addr] = NextAddr(Fetch(addr)) /\ base[addr] = NULL
      BY <2>3 DEF next, base, NextOf
    <3>2. next[addr] # NULL => next[addr] \in Addresses
      BY <3>1, NextIsHigher
    <3>3. next[addr] # NULL => F[addr][f[next[addr]]] = f[next[addr]]
      BY <3>2 DEF F
    <3> QED BY <2>1, <2>3, <3>1, <3>3
  <2> QED BY <2>2, <2>3
<1>5. Def(f)
  <2>1. f = [addr \in Addresses |-> f[addr]]
    OBVIOUS
  <2> QED BY <1>4, <2>1
<1> DEFINE g == CHOOSE h : Def(h)
<1>6. Def(g)
  BY <1>5
<1>7. DbAddr(db_id) = g[SearchStart(db_id)]
  BY DEF DbAddr
<1>8. \A addr \in Addresses :
         g[addr] = IF Fetch(addr).id = db_id THEN addr
                   ELSE IF NextAddr(Fetch(addr)) = NULL THEN NULL
                   ELSE g[NextAddr(Fetch(addr))]
  <2> HIDE DEF g
  <2> QED BY <1>6
<1> QED BY <1>7, <1>8

\* As long as no two databases have the same id, the search for an id ends at its
\* database; it finds none for an id after that of the last one.
LEMMA FoundById ==
    ASSUME DbInv, NEW addrs, Layout(addrs), Len(addrs) <= DB_IDS
    PROVE  /\ \A k \in 1 .. Len(addrs) : DbAddr(k - 1) = addrs[k]
           /\ Len(addrs) < DB_IDS => DbAddr(Len(addrs)) = NULL
           /\ local_db.id = Len(addrs) - 1
<1> DEFINE n == Len(addrs)
<1>1. /\ n \in Nat \ {0} /\ n \in 1 .. n /\ 1 \in 1 .. n
      /\ \A k \in 1 .. n : addrs[k] \in Addresses /\ addrs[k] \in Nat
  BY LayoutAddresses
<1>2. /\ \A k \in 1 .. n : Fetch(addrs[k]).id = (k - 1) % DB_IDS
      /\ \A k \in 1 .. n - 1 : NextAddr(Fetch(addrs[k])) = addrs[k + 1]
      /\ NextAddr(Fetch(addrs[n])) = NULL /\ addrs[1] = 0
  BY DEF Layout
<1>3. local_db.id = (n - 1) % DB_IDS /\ local_db.nvm_addr = addrs[n]
  BY LastInUse
<1>6. \A k \in 1 .. n : (k - 1) % DB_IDS = k - 1
  <2> SUFFICES ASSUME NEW k \in 1 .. n PROVE (k - 1) % DB_IDS = k - 1
    OBVIOUS
  <2>1. PICK i \in Nat : i = k - 1
    OBVIOUS
  <2>2. i < DB_IDS /\ DB_IDS \in Nat \ {0}
    BY <1>1, <2>1, TempDbAssumption
  <2>3. i % DB_IDS = i
    BY <2>2
  <2> QED BY <2>1, <2>3
<1>7. local_db.id = n - 1 /\ \A k \in 1 .. n : Fetch(addrs[k]).id = k - 1
  BY <1>1, <1>2, <1>3, <1>6
<1> HIDE DEF n
<1>4. ASSUME NEW k \in 1 .. n
      PROVE  DbAddr(k - 1) = addrs[k]
  <2>1. PICK f : /\ DbAddr(k - 1) = f[SearchStart(k - 1)]
                 /\ \A addr \in Addresses :
                       f[addr] = IF Fetch(addr).id = k - 1 THEN addr
                                 ELSE IF NextAddr(Fetch(addr)) = NULL THEN NULL
                                 ELSE f[NextAddr(Fetch(addr))]
    <3>1. Cells
      BY DEF DbInv
    <3> QED BY <3>1, FoundFrom
  <2>2. f[addrs[k]] = addrs[k]
    BY <1>1, <1>7, <2>1
  <2>3. ASSUME NEW j \in 1 .. k - 1, f[addrs[j + 1]] = addrs[k]
        PROVE  f[addrs[j]] = addrs[k]
    <3>1. j \in 1 .. n /\ j \in 1 .. n - 1 /\ j + 1 \in 1 .. n /\ j - 1 # k - 1
      BY <1>1
    <3>2. NextAddr(Fetch(addrs[j])) = addrs[j + 1] /\ addrs[j + 1] # NULL
      BY <1>1, <1>2, <3>1 DEF NULL
    <3> QED BY <1>1, <1>2, <1>7, <2>1, <2>3, <3>1, <3>2
  <2> DEFINE Wrong == {i \in 0 .. k - 1 : f[addrs[k - i]] # addrs[k]}
  <2>4. ASSUME Wrong # {} PROVE FALSE
    <3>1. PICK i \in Wrong : \A j \in Wrong : i <= j
      <4>1. Wrong \in SUBSET Nat
        OBVIOUS
      <4> HIDE DEF Wrong
      <4> QED BY <2>4, <4>1, LeastNumber
    <3>2. i # 0
      <4>1. k - 0 = k
        BY <1>1
      <4> QED BY <2>2, <3>1, <4>1
    <3>3. i - 1 \in 0 .. k - 1 /\ ~(i <= i - 1) /\ k - i \in 1 .. k - 1 /\ k - (i - 1) = k - i + 1
      BY <1>1, <3>1, <3>2
    <3>4. f[addrs[k - (i - 1)]] = addrs[k]
      BY <3>1, <3>3
    <3> QED BY <2>3, <3>1, <3>3, <3>4
  <2>5. f[addrs[1]] = addrs[k]
    <3>1. k - 1 \in 0 .. k - 1 /\ k - (k - 1) = 1
      BY <1>1
    <3> QED BY <2>4, <3>1
  <2>6. SearchStart(k - 1) = addrs[k] \/ SearchStart(k - 1) = addrs[1]
    <3>1. CASE n - 1 <= k - 1
      <4>1. k = n
        BY <1>1, <3>1
      <4> QED BY <1>3, <1>7, <3>1, <4>1 DEF SearchStart
    <3>2. CASE ~(n - 1 <= k - 1)
      BY <1>2, <1>7, <3>2 DEF SearchStart
    <3> QED BY <3>1, <3>2
  <2> QED BY <2>1, <2>2, <2>5, <2>6
<1>5. DbAddr(n) = NULL
  <2>1. PICK f : /\ DbAddr(n) = f[SearchStart(n)]
                 /\ \A addr \in Addresses :
                       f[addr] = IF Fetch(addr).id = n THEN addr
                                 ELSE IF NextAddr(Fetch(addr)) = NULL THEN NULL
                                 ELSE f[NextAddr(Fetch(addr))]
    <3>1. Cells
      BY DEF DbInv
    <3> QED BY <3>1, FoundFrom
  <2>2. SearchStart(n) = addrs[n]
    <3>1. n - 1 <= n
      BY <1>1
    <3> QED BY <1>3, <1>7, <3>1 DEF SearchStart
  <2>3. n - 1 # n
    BY <1>1
  <2> QED BY <1>1, <1>2, <1>7, <2>1, <2>2, <2>3
<1> QED BY <1>4, <1>5, <1>7 DEF n

\* The number of temperatures from a database on, as the AVR adds it up.
LEMMA CountFrom ==
    ASSUME Cells
    PROVE  \E f : /\ temperature_count_all = f[0]
                  /\ \A addr \in Addresses :
                        f[addr] = IF NextAddr(Fetch(addr)) = NULL THEN Fetch(addr).used
                                  ELSE Fetch(addr).used + f[NextAddr(Fetch(addr))]
                  /\ f \in [Addresses -> Nat]
<1> DEFINE Def(f) == f = [addr \in Addresses |->
                            IF NextAddr(Fetch(addr)) = NULL THEN Fetch(addr).used
                            ELSE Fetch(addr).used + f[NextAddr(Fetch(addr))]]
           base == [addr \in Addresses |-> Fetch(addr).used]
           F == [addr \in Addresses |-> [x \in Nat |-> Fetch(addr).used + x]]
<1>1. \A addr \in Addresses : Fetch(addr).used \in Nat
  <2> SUFFICES ASSUME NEW addr \in Addresses PROVE Fetch(addr).used \in Nat
    OBVIOUS
  <2>1. addr + USED = addr
    BY DEF USED, Addresses
  <2> QED BY <2>1 DEF Fetch, Cells
<1>2. base \in [Addresses -> Nat] /\ F \in [Addresses -> [Nat -> Nat]]
  <2>1. ASSUME NEW addr \in Addresses PROVE [x \in Nat |-> Fetch(addr).used + x] \in [Nat -> Nat]
    BY <1>1
  <2> QED BY <1>1, <2>1
<1>3. PICK f \in [Addresses -> Nat] : Tells(f, Addresses, NextOf, base, F)
  <2> HIDE DEF base, F
  <2> QED BY <1>2, NextOfType, EepromRecursion
<1>4. ASSUME NEW g \in [Addresses -> Nat], Tells(g, Addresses, NextOf, base, F)
      PROVE  \A addr \in Addresses :
                g[addr] = IF NextAddr(Fetch(addr)) = NULL THEN Fetch(addr).used
                          ELSE Fetch(addr).used + g[NextAddr(Fetch(addr))]
  <2> SUFFICES ASSUME NEW addr \in Addresses
               PROVE  g[addr] = IF NextAddr(Fetch(addr)) = NULL THEN Fetch(addr).used
                                ELSE Fetch(addr).used + g[NextAddr(Fetch(addr))]
    OBVIOUS
  <2> HIDE DEF base, F
  <2>1. g[addr] = IF NextOf[addr] = NULL THEN base[addr] ELSE F[addr][g[NextOf[addr]]]
    BY <1>4 DEF Tells
  <2>2. NextOf[addr] = NextAddr(Fetch(addr)) /\ base[addr] = Fetch(addr).used
    BY DEF NextOf, base
  <2>3. NextOf[addr] # NULL => g[NextOf[addr]] \in Nat
    <3>1. NextOf[addr] # NULL => NextOf[addr] \in Addresses
      BY <2>2, NextIsHigher
    <3> QED BY <3>1
  <2>4. \A x \in Nat : F[addr][x] = Fetch(addr).used + x
    BY DEF F
  <2> QED BY <2>1, <2>2, <2>3, <2>4
<1>5. \E h : Def(h)
  <2>1. f = [addr \in Addresses |-> f[addr]]
    OBVIOUS
  <2>2. Def(f)
    BY <1>3, <1>4, <2>1
  <2> QED BY <2>2
<1> DEFINE g == CHOOSE h : Def(h)
<1>6. Def(g)
  BY <1>5
<1>7. temperature_count_all = g[0]
  BY DEF temperature_count_all
<1>8. \A addr \in Addresses :
         g[addr] = IF NextAddr(Fetch(addr)) = NULL THEN Fetch(addr).used
                   ELSE Fetch(addr).used + g[NextAddr(Fetch(addr))]
  <2> HIDE DEF g
  <2> QED BY <1>6
<1>9. g \in [Addresses -> Nat]
  <2> HIDE DEF base, F
  <2>1. g = [addr \in Addresses |-> g[addr]]
    <3>1. PICK e : e = [addr \in Addresses |->
                            IF NextAddr(Fetch(addr)) = NULL THEN Fetch(addr).used
                            ELSE Fetch(addr).used + g[NextAddr(Fetch(addr))]]
      OBVIOUS
    <3>2. g = e
      BY <1>6, <3>1
    <3>3. e = [addr \in Addresses |-> e[addr]]
      BY <3>1
    <3> QED BY <3>2, <3>3
  <2> HIDE DEF g
  <2>2. \A addr \in Addresses : g[addr] = f[addr]
    <3> DEFINE Wrong == {i \in 0 .. NVM_SIZE - 1 : g[NVM_SIZE - 1 - i] # f[NVM_SIZE - 1 - i]}
    <3>1. Addresses = 0 .. NVM_SIZE - 1 /\ NVM_SIZE \in Nat
      BY NextOfType
    <3>2. \A addr \in Addresses :
            f[addr] = IF NextAddr(Fetch(addr)) = NULL THEN Fetch(addr).used
                      ELSE Fetch(addr).used + f[NextAddr(Fetch(addr))]
      BY <1>3, <1>4
    <3>3. ASSUME Wrong # {} PROVE FALSE
      <4>1. PICK i \in Wrong : \A j \in Wrong : i <= j
        <5>1. Wrong \in SUBSET Nat
          BY <3>1
        <5> HIDE DEF Wrong
        <5> QED BY <3>3, <5>1, LeastNumber
      <4>2. PICK addr \in Addresses : addr = NVM_SIZE - 1 - i
        BY <3>1, <4>1
      <4>3. g[addr] # f[addr]
        BY <4>1, <4>2
      <4>4. PICK next : next = NextAddr(Fetch(addr))
        OBVIOUS
      <4>5. next # NULL => g[next] = f[next]
        <5> SUFFICES ASSUME next # NULL PROVE g[next] = f[next]
          OBVIOUS
        <5>1. next \in addr + 1 .. NVM_SIZE - 1
          BY <4>4, NextIsHigher
        <5>2. NVM_SIZE - 1 - next \in 0 .. NVM_SIZE - 1 /\ ~(i <= NVM_SIZE - 1 - next)
              /\ NVM_SIZE - 1 - (NVM_SIZE - 1 - next) = next
          BY <3>1, <4>1, <4>2, <5>1
        <5> QED BY <4>1, <5>2
      <4> QED BY <1>8, <3>2, <4>3, <4>4, <4>5
    <3> SUFFICES ASSUME NEW addr \in Addresses PROVE g[addr] = f[addr]
      OBVIOUS
    <3>4. NVM_SIZE - 1 - addr \in 0 .. NVM_SIZE - 1 /\ NVM_SIZE - 1 - (NVM_SIZE - 1 - addr) = addr
      BY <3>1
    <3> QED BY <3>3, <3>4
  <2> QED BY <2>1, <2>2
<1> QED BY <1>7, <1>8, <1>9

\* What the AVR counts is the sum of the lengths of the sessions.
LEMMA CountIsTotal ==
    ASSUME DbInv, NEW addrs, Layout(addrs)
    PROVE  LET all == Sessions
               total[k \in 0 .. Len(all)] == IF k = 0 THEN 0 ELSE total[k - 1] + Len(all[k])
           IN  temperature_count_all = total[Len(all)]
<1> DEFINE all == Sessions
           Def(t) == t = [k \in 0 .. Len(all) |-> IF k = 0 THEN 0 ELSE t[k - 1] + Len(all[k])]
           total == CHOOSE t : Def(t)
           n == Len(addrs)
           used(k) == Fetch(addrs[k]).used
<1>1. /\ n \in Nat \ {0} /\ n \in 1 .. n /\ 1 \in 1 .. n
      /\ \A k \in 1 .. n : addrs[k] \in Addresses /\ addrs[k] \in Nat
  BY LayoutAddresses
<1>2. /\ \A k \in 1 .. n - 1 : NextAddr(Fetch(addrs[k])) = addrs[k + 1]
      /\ NextAddr(Fetch(addrs[n])) = NULL /\ addrs[1] = 0
  BY DEF Layout
<1>3. PICK f \in [Addresses -> Nat] :
         /\ temperature_count_all = f[0]
         /\ \A addr \in Addresses :
               f[addr] = IF NextAddr(Fetch(addr)) = NULL THEN Fetch(addr).used
                         ELSE Fetch(addr).used + f[NextAddr(Fetch(addr))]
  BY CountFrom DEF DbInv
<1>4. Len(all) = n /\ \A k \in 1 .. n : all[k] = Items(addrs[k])
  BY SessionsSequence
<1> HIDE DEF n, all, used
<1>5. \A k \in 1 .. n : used(k) \in Nat /\ Len(all[k]) = used(k)
  <2> SUFFICES ASSUME NEW k \in 1 .. n PROVE used(k) \in Nat /\ Len(all[k]) = used(k)
    OBVIOUS
  <2>1. used(k) = nvm[addrs[k] + USED] /\ addrs[k] + USED = addrs[k]
    BY <1>1 DEF used, Fetch, USED
  <2>2. used(k) \in Nat
    BY <1>1, <2>1 DEF DbInv, Cells
  <2>3. Items(addrs[k]) = [i \in 1 .. used(k) |-> nvm[addrs[k] + ITEMS + i - 1]]
    BY <2>1 DEF Items
  <2>4. PICK m \in Nat : m = used(k)
    BY <2>2
  <2>5. Len([i \in 1 .. m |-> nvm[addrs[k] + ITEMS + i - 1]]) = m
    OBVIOUS
  <2> QED BY <1>4, <2>2, <2>3, <2>4, <2>5
<1>6. ASSUME NEW k \in 1 .. n - 1
      PROVE  f[addrs[k]] = used(k) + f[addrs[k + 1]]
  <2>1. k \in 1 .. n /\ k + 1 \in 1 .. n
    BY <1>1
  <2>2. NextAddr(Fetch(addrs[k])) = addrs[k + 1] /\ addrs[k + 1] # NULL
    BY <1>1, <1>2, <2>1 DEF NULL
  <2> QED BY <1>1, <1>3, <2>1, <2>2 DEF used
<1>7. f[addrs[n]] = used(n)
  BY <1>1, <1>2, <1>3 DEF used
<1>8. \A k \in 1 .. n : f[addrs[k]] \in Nat
  BY <1>1
<1> DEFINE t == [k \in 0 .. n |-> IF k = n THEN f[0] ELSE f[0] - f[addrs[k + 1]]]
<1>9. t[0] = 0 /\ t[n] = f[0]
  BY <1>1, <1>2, <1>8
<1>10. ASSUME NEW k \in 1 .. n
       PROVE  t[k] = t[k - 1] + used(k)
  <2>1. /\ k - 1 \in 0 .. n /\ k - 1 # n /\ k \in 0 .. n /\ k - 1 + 1 = k
        /\ f[addrs[k]] \in Nat /\ f[0] \in Nat /\ used(k) \in Nat
    BY <1>1, <1>2, <1>5, <1>8
  <2>2. t[k - 1] = f[0] - f[addrs[k]]
    BY <2>1
  <2>3. CASE k = n
    BY <1>7, <1>9, <2>1, <2>2, <2>3
  <2>4. CASE k # n
    <3>1. k \in 1 .. n - 1 /\ k + 1 \in 1 .. n
      BY <1>1, <2>4
    <3>2. t[k] = f[0] - f[addrs[k + 1]]
      BY <2>1, <2>4
    <3>3. f[addrs[k]] = used(k) + f[addrs[k + 1]] /\ f[addrs[k + 1]] \in Nat
      BY <1>6, <1>8, <3>1
    <3> QED BY <2>1, <2>2, <3>2, <3>3
  <2> QED BY <2>3, <2>4
<1>11. Def(t)
  <2>1. t = [k \in 0 .. n |-> t[k]]
    OBVIOUS
  <2> HIDE DEF t
  <2>2. \A k \in 0 .. n : t[k] = IF k = 0 THEN 0 ELSE t[k - 1] + Len(all[k])
    <3> SUFFICES ASSUME NEW k \in 0 .. n, k # 0 PROVE t[k] = t[k - 1] + Len(all[k])
      BY <1>9
    <3>1. k \in 1 .. n
      BY <1>1
    <3> QED BY <1>5, <1>10, <3>1
  <2> QED BY <1>4, <2>1, <2>2
<1>12. Def(total)
  BY <1>11
<1> HIDE DEF total, t
<1>13. \A k \in 0 .. n : total[k] = IF k = 0 THEN 0 ELSE total[k - 1] + Len(all[k])
  BY <1>4, <1>12
<1> DEFINE Wrong == {k \in 0 .. n : total[k] # t[k]}
<1>14. ASSUME Wrong # {} PROVE FALSE
  <2>1. PICK k \in Wrong : \A j \in Wrong : k <= j
    <3>1. Wrong \in SUBSET Nat
      BY <1>1
    <3> HIDE DEF Wrong
    <3> QED BY <1>14, <3>1, LeastNumber
  <2>2. k # 0
    BY <1>9, <1>13, <2>1
  <2>3. k - 1 \in 0 .. n /\ ~(k <= k - 1) /\ k \in 1 .. n
    BY <1>1, <2>1, <2>2
  <2>4. total[k - 1] = t[k - 1]
    BY <2>1, <2>3
  <2> QED BY <1>5, <1>10, <1>13, <2>1, <2>2, <2>3, <2>4
<1>15. total[n] = f[0]
  <2>1. n \in 0 .. n
    BY <1>1
  <2> QED BY <1>9, <1>14, <2>1
<1>16. temperature_count_all = total[Len(all)]
  BY <1>3, <1>4, <1>15
<1> QED BY <1>16 DEF total, all

\* A download of any part of any session gives that part.
LEMMA BulkIsPart ==
    ASSUME DbInv, NEW addrs, Layout(addrs), Len(addrs) <= DB_IDS, NEW k \in 1 .. Len(addrs),
           NEW start_id \in Nat, NEW ntemps \in Nat
    PROVE  temperature_get_bulk(k - 1, start_id, ntemps) =
             SubSeq(Sessions[k], start_id + 1,
                    Smaller(start_id + ntemps, Len(Sessions[k])))
<1> DEFINE addr == addrs[k]
           used == nvm[addr]
           part == temperature_get_bulk(k - 1, start_id, ntemps)
           to == Smaller(start_id + ntemps, used)
           count == Smaller(used - start_id, ntemps)
<1>1. addr \in Addresses /\ addr \in Nat /\ addr # NULL /\ DbAddr(k - 1) = addr
  BY LayoutAddresses, FoundById DEF NULL
<1>2. used \in Nat /\ Fetch(addr).used = used /\ addr + USED = addr
  BY <1>1 DEF DbInv, Cells, Fetch, USED
<1>3. Sessions[k] = [i \in 1 .. used |-> nvm[addr + ITEMS + i - 1]]
  <2>1. Sessions[k] = Items(addr)
    BY SessionsSequence
  <2> HIDE DEF addr
  <2> QED BY <1>2, <2>1 DEF Items
<1>4. part = [i \in 1 .. count |-> nvm[addr + ITEMS + start_id + i - 1]]
  BY <1>1, <1>2 DEF temperature_get_bulk
<1> HIDE DEF addr, used, part
<1>5. Len(Sessions[k]) = used
  BY <1>2, <1>3
<1>6. to \in Nat /\ to <= used /\ count \in Int /\ to - start_id = count
      /\ \A i \in 1 .. count : start_id + i \in 1 .. used
  BY <1>2 DEF Smaller
<1> HIDE DEF to, count
<1>7. SubSeq(Sessions[k], start_id + 1, to) =
        [i \in 1 .. count |-> Sessions[k][start_id + 1 + i - 1]]
  <2>1. 1 + to - (start_id + 1) = count /\ to - (start_id + 1) + 1 = count
    BY <1>6
  <2>2. PICK s : s = Sessions[k]
    OBVIOUS
  <2>3. SubSeq(s, start_id + 1, to) =
          [i \in 1 .. 1 + to - (start_id + 1) |-> s[start_id + 1 + i - 1]]
    BY <1>6
  <2> QED BY <2>1, <2>2, <2>3
<1>8. \A i \in 1 .. count :
         Sessions[k][start_id + 1 + i - 1] = nvm[addr + ITEMS + start_id + i - 1]
  <2> SUFFICES ASSUME NEW i \in 1 .. count
               PROVE  Sessions[k][start_id + 1 + i - 1] = nvm[addr + ITEMS + start_id + i - 1]
    OBVIOUS
  <2>1. /\ start_id + 1 + i - 1 = start_id + i /\ start_id + i \in 1 .. used
        /\ addr + ITEMS + (start_id + i) - 1 = addr + ITEMS + start_id + i - 1
    <3>1. start_id + i \in 1 .. used
      BY <1>6
    <3>2. i \in Int
      BY <1>6
    <3> QED BY <1>1, <3>1, <3>2 DEF ITEMS
  <2> QED BY <1>3, <2>1
<1>9. part = SubSeq(Sessions[k], start_id + 1, to)
  BY <1>4, <1>7, <1>8
<1> QED BY <1>5, <1>9 DEF part, to

\* In an EEPROM of any size, every session can be downloaded, whole or from any
\* temperature on, as long as there are no more of them than ids; and what is counted is
\* the temperatures of all, whatever their number.  The power is cut as EepromIsLog says.
THEOREM EverySessionFound == ASSUME PowerCutsAtFew PROVE Spec => []EveryDbFound
<1>1. DbInv => EveryDbFound
  <2> SUFFICES ASSUME DbInv PROVE EveryDbFound
    OBVIOUS
  <2>1. PICK addrs : Layout(addrs)
    BY DEF DbInv
  <2> DEFINE n == Len(addrs)
  <2>2. n \in Nat \ {0} /\ Len(Sessions) = n /\ DOMAIN Sessions = 1 .. n
    <3>1. Sessions = [k \in 1 .. n |-> Items(addrs[k])]
      BY <2>1, SessionsLaid DEF DbInv
    <3> QED BY <2>1, <3>1, LayoutAddresses, SessionsSequence
  <2>3. ASSUME n <= DB_IDS, NEW k \in 1 .. n
        PROVE  Len(Sessions[k]) \in Nat /\ temperature_count(k - 1) = Len(Sessions[k])
    <3>1. /\ addrs[k] \in Addresses /\ addrs[k] \in Nat /\ addrs[k] # NULL
          /\ DbAddr(k - 1) = addrs[k]
      BY <2>1, <2>3, LayoutAddresses, FoundById DEF NULL
    <3>2. PICK addr : addr = addrs[k]
      OBVIOUS
    <3>3. PICK m \in Nat : m = nvm[addr]
      BY <3>1, <3>2 DEF DbInv, Cells
    <3>4. Fetch(addr).used = m /\ addr + USED = addr
      BY <3>1, <3>2, <3>3 DEF Fetch, USED
    <3>5. Sessions[k] = [i \in 1 .. m |-> nvm[addr + ITEMS + i - 1]]
      <4>1. Sessions[k] = Items(addr)
        BY <2>1, <3>2, SessionsSequence
      <4> QED BY <3>3, <3>4, <4>1 DEF Items
    <3>6. Len(Sessions[k]) = m
      BY <3>5
    <3>7. CASE k - 1 = local_db.id
      <4>1. addr = local_db.nvm_addr /\ nvm[local_db.nvm_addr + USED] = local_db.used
        <5>1. k = n
          <6>1. local_db.id = n - 1
            BY <2>1, <2>3, FoundById
          <6> HIDE DEF n
          <6> QED BY <2>2, <3>7, <6>1
        <5> QED BY <2>1, <3>2, <5>1, LastInUse
      <4>2. local_db.used = m
        BY <3>3, <3>4, <4>1
      <4> QED BY <3>6, <3>7, <4>2 DEF temperature_count
    <3>8. CASE k - 1 # local_db.id
      BY <3>1, <3>2, <3>4, <3>6, <3>8 DEF temperature_count
    <3> QED BY <3>6, <3>7, <3>8
  <2>4. n <= DB_IDS => \A k \in 1 .. n : \A start_id \in 0 .. Len(Sessions[k]), ntemps \in 0 .. Len(Sessions[k]) :
           temperature_get_bulk(k - 1, start_id, ntemps) =
             SubSeq(Sessions[k], start_id + 1, Smaller(start_id + ntemps, Len(Sessions[k])))
    <3> SUFFICES ASSUME n <= DB_IDS, NEW k \in 1 .. n,
                        NEW start_id \in 0 .. Len(Sessions[k]), NEW ntemps \in 0 .. Len(Sessions[k])
                 PROVE  temperature_get_bulk(k - 1, start_id, ntemps) =
                          SubSeq(Sessions[k], start_id + 1,
                                 Smaller(start_id + ntemps, Len(Sessions[k])))
      OBVIOUS
    <3>1. start_id \in Nat /\ ntemps \in Nat
      BY <2>3
    <3> QED BY <2>1, <3>1, BulkIsPart
  <2>5. Len(Sessions) < DB_IDS => DbAddr(Len(Sessions)) = NULL
    <3>1. n < DB_IDS => n <= DB_IDS
      BY <2>2, TempDbAssumption
    <3> QED BY <2>1, <2>2, <3>1, FoundById
  <2> HIDE DEF n
  <2> QED BY <2>1, <2>2, <2>3, <2>4, <2>5, CountIsTotal DEF EveryDbFound
<1>2. Init => DbInv
  BY InitDbInv
<1>3. DbInv /\ [Next]_vars => DbInv'
  BY NextDbInv
<1> QED BY <1>1, <1>2, <1>3, PTL DEF Spec
=============================================================================
