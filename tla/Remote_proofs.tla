--------------------------- MODULE Remote_proofs ---------------------------
(***************************************************************************)
(* For every layout of the fields and every value, string and database:    *)
(* the EEPROM holds the configuration that is in memory between two        *)
(* commands; each field has the value that it was set to; what the shell   *)
(* shows is what the tmon held; packets are whole, and damage is detected. *)
(***************************************************************************)
EXTENDS Remote, FiniteSetTheorems, SequenceTheorems, WellFoundedInduction, TLAPS

\* While a field is saved, the two copies differ at most in the bytes that have
\* still to be written.
SavedBytes ==
    /\ nvm = [o \in Offsets |-> nvm[o]]
    /\ config = [o \in Offsets |-> config[o]]
    /\ \A o \in Offsets \ saving : nvm[o] = config[o]

\* The copies start equal
LEMMA InitSaved == Init => SavedBytes
<1>1. SUFFICES ASSUME ConfigInit PROVE SavedBytes
  BY DEF Init
<1>2. nvm = [o \in Offsets |-> nvm[o]] /\ nvm = config
  BY <1>1 DEF ConfigInit, Image
<1>. QED BY <1>2 DEF SavedBytes

\* A new value makes the copies differ only where it is to be saved
LEMMA SetSaved ==
    ASSUME NEW field, NEW value, SavedBytes, saving = {}, config_set(field, value)
    PROVE  SavedBytes'
<1>1. nvm' = nvm /\ saving' = Differs(field)
  BY DEF config_set
<1>2. config' = [o \in Offsets |-> config'[o]]
  BY DEF config_set
<1>3. ASSUME NEW o \in Offsets, o \notin saving' PROVE nvm'[o] = config'[o]
  <2>1. CASE o \in Place(field)
    BY <1>1, <1>3, <2>1 DEF Differs
  <2>2. CASE o \notin Place(field)
    <3>1. config'[o] = config[o]
      BY <2>2 DEF config_set
    <3>. QED BY <1>1, <3>1 DEF SavedBytes
  <2>. QED BY <2>1, <2>2
<1>. QED BY <1>1, <1>2, <1>3 DEF SavedBytes

\* Each byte that is written is taken off the list
LEMMA SaveSaved == ASSUME SavedBytes, SaveByte PROVE SavedBytes'
<1>1. PICK o \in saving : /\ nvm' = [nvm EXCEPT ![o] = config[o]]
                          /\ saving' = saving \ {o}
                          /\ UNCHANGED config
  BY DEF SaveByte
<1>2. nvm' = [p \in Offsets |-> nvm'[p]]
  BY <1>1 DEF SavedBytes
<1>3. ASSUME NEW p \in Offsets, p \notin saving' PROVE nvm'[p] = config'[p]
  <2>1. CASE p = o
    BY <1>1, <2>1 DEF SavedBytes
  <2>2. CASE p # o
    BY <1>1, <1>3, <2>2 DEF SavedBytes
  <2>. QED BY <2>1, <2>2
<1>. QED BY <1>1, <1>2, <1>3 DEF SavedBytes

\* Whatever the cut spoils, the configuration is fetched from what is left
LEMMA CutSaved == ASSUME SavedBytes, Cut, config_fetch PROVE SavedBytes'
<1>1. nvm' = [o \in Offsets |-> nvm'[o]]
  BY DEF SavedBytes, Cut
<1>2. config' = nvm'
  BY DEF config_fetch
<1>. QED BY <1>1, <1>2 DEF SavedBytes

\* Every step keeps it
LEMMA StepSaved == SavedBytes /\ [Next]_vars => SavedBytes'
<1>1. SUFFICES ASSUME SavedBytes, [Next]_vars PROVE SavedBytes'
  OBVIOUS
<1>2. CASE UNCHANGED configVars
  BY <1>1, <1>2 DEF SavedBytes, configVars
<1>3. CASE cmd_config_set_field
  <2>1. saving = {} /\ config_set(Num(Arg[1]), Tail(Arg))
    BY <1>3 DEF cmd_config_set_field, Executes
  <2>. QED BY <1>1, <2>1, SetSaved
<1>4. CASE Execute /\ ~cmd_config_set_field
  <2>1. UNCHANGED configVars
    BY <1>4 DEF Execute, cmd_config_get_field, cmd_set_resolution, cmd_set_interval,
       cmd_echo, cmd_temperatures_download, Answers
  <2>. QED BY <1>2, <2>1
<1>5. CASE Save
  BY <1>1, <1>5, SaveSaved DEF Save
<1>6. CASE PowerCycle
  BY <1>1, <1>6, CutSaved DEF PowerCycle
<1>7. CASE Ask \/ GiveUp \/ Done \/ Show \/ NewDatabase \/ UNCHANGED vars
  <2>1. UNCHANGED configVars
    BY <1>7 DEF Ask, GiveUp, Done, Show, NewDatabase, vars, configVars
  <2>. QED BY <1>2, <2>1
<1>. QED BY <1>1, <1>3, <1>4, <1>5, <1>6, <1>7 DEF Next

\* Whatever fields are set and wherever the power is cut, the EEPROM and the
\* memory hold the same configuration when no field is being saved.
THEOREM ConfigurationKept == Spec => []KeptIsCurrent
<1>1. SavedBytes => KeptIsCurrent
  BY DEF SavedBytes, KeptIsCurrent
<1>. QED BY <1>1, InitSaved, StepSaved, PTL DEF Spec
-----------------------------------------------------------------------------

(***************************************************************************)
(* The recursive functions of Packet, Config and Remote count up; they are *)
(* what their equations say because a function with such an equation       *)
(* exists.                                                                 *)
(***************************************************************************)

\* A nonempty set of numbers has a least element.
LEMMA LeastNumber ==
    ASSUME NEW S \in SUBSET Nat, S # {}
    PROVE  \E least \in S : \A n \in S : least <= n
<1>1. PICK least \in S : \A n \in S : ~(<<n, least>> \in OpToRel(<, Nat))
  BY NatLessThanWellFounded, WFMin
<1>2. \A n \in Nat : n < least => <<n, least>> \in OpToRel(<, Nat)
  BY DEF OpToRel
<1>3. \A n \in S : ~(n < least)
  BY <1>1, <1>2
<1>4. \A n \in S : least <= n
  BY <1>3
<1>. QED BY <1>4

\* What holds of low, and of each number after one of which it holds, holds up to
\* high.
LEMMA CountingUp ==
    ASSUME NEW low \in Nat, NEW high \in Nat, NEW S \in SUBSET Nat, low \in S,
           \A n \in low + 1 .. high : n - 1 \in S => n \in S
    PROVE  \A n \in low .. high : n \in S
<1> DEFINE Left == {n \in low .. high : n \notin S}
<1>1. ASSUME Left # {} PROVE FALSE
  <2>1. PICK n \in Left : \A m \in Left : n <= m
    <3>1. Left \in SUBSET Nat
      OBVIOUS
    <3> HIDE DEF Left
    <3>. QED BY <1>1, <3>1, LeastNumber
  <2>2. n \in low + 1 .. high /\ n - 1 \in low .. high
    BY <2>1
  <2>3. n - 1 \in S
    BY <2>1, <2>2
  <2>. QED BY <2>1, <2>2, <2>3
<1>. QED BY <1>1

\* A function that is told for a number from what it is for the one before
CountsUp(f, N, base, F) ==
    f = [n \in 0 .. N |-> IF n = 0 THEN base ELSE F[n][f[n - 1]]]

\* Such a function exists.
LEMMA UpwardRecursion ==
    ASSUME NEW N \in Nat, NEW T, NEW base \in T, NEW F \in [1 .. N -> [T -> T]]
    PROVE  \E f \in [0 .. N -> T] : CountsUp(f, N, base, F)
<1> DEFINE Has(n) == \E f \in [0 .. n -> T] : CountsUp(f, n, base, F)
           S == {n \in Nat : Has(n)}
<1> HIDE DEF Has
<1>1. 0 \in S
  <2> DEFINE f == [n \in 0 .. 0 |-> base]
  <2>1. f \in [0 .. 0 -> T]
    OBVIOUS
  <2>2. f = [n \in 0 .. 0 |-> IF n = 0 THEN base ELSE F[n][f[n - 1]]]
    OBVIOUS
  <2>. QED BY <2>1, <2>2 DEF Has, CountsUp
<1>2. ASSUME NEW n \in 0 + 1 .. N, n - 1 \in S PROVE n \in S
  <2>1. PICK f \in [0 .. n - 1 -> T] : CountsUp(f, n - 1, base, F)
    BY <1>2 DEF Has
  <2> DEFINE g == [i \in 0 .. n |-> IF i = n THEN F[n][f[n - 1]] ELSE f[i]]
  <2>2. n \in 1 .. N /\ n \in Nat /\ n - 1 \in 0 .. n - 1 /\ n \notin 0 .. n - 1
        /\ \A i \in 0 .. n : i # n => i \in 0 .. n - 1 /\ i \in 0 .. N
    BY <1>2
  <2>3. F[n][f[n - 1]] \in T
    BY <2>1, <2>2
  <2>4. g \in [0 .. n -> T]
    BY <2>1, <2>2, <2>3
  <2>5. ASSUME NEW i \in 0 .. n
        PROVE  g[i] = IF i = 0 THEN base ELSE F[i][g[i - 1]]
    <3>1. i # 0 => i - 1 \in 0 .. n - 1 /\ i - 1 \in 0 .. n /\ i - 1 # n
      BY <2>2
    <3>2. i # 0 => g[i - 1] = f[i - 1]
      BY <3>1
    <3>3. CASE i = n
      BY <2>2, <3>2, <3>3
    <3>4. CASE i # n
      <4>1. i \in 0 .. n - 1 /\ g[i] = f[i]
        BY <2>2, <3>4
      <4>2. f[i] = IF i = 0 THEN base ELSE F[i][f[i - 1]]
        BY <2>1, <4>1 DEF CountsUp
      <4>. QED BY <3>2, <4>1, <4>2
    <3>. QED BY <3>3, <3>4
  <2>6. g = [i \in 0 .. n |-> g[i]]
    OBVIOUS
  <2> HIDE DEF g
  <2>7. CountsUp(g, n, base, F)
    BY <2>5, <2>6 DEF CountsUp
  <2>. QED BY <2>2, <2>4, <2>7 DEF Has
<1>3. N \in S
  <2>1. S \in SUBSET Nat /\ N \in 0 .. N
    OBVIOUS
  <2> HIDE DEF S
  <2>. QED BY <1>1, <1>2, <2>1, CountingUp
<1>. QED BY <1>3 DEF Has

-----------------------------------------------------------------------------

(***************************************************************************)
(* Bytes and numbers.                                                      *)
(***************************************************************************)

\* Each bit of a number
LEMMA BitsOf ==
    ASSUME NEW n \in 0 .. 255
    PROVE  /\ 0 \in Bits(n) <=> n % 2 = 1
           /\ 1 \in Bits(n) <=> (n \div 2) % 2 = 1
           /\ 2 \in Bits(n) <=> (n \div 4) % 2 = 1
           /\ 3 \in Bits(n) <=> (n \div 8) % 2 = 1
           /\ 4 \in Bits(n) <=> (n \div 16) % 2 = 1
           /\ 5 \in Bits(n) <=> (n \div 32) % 2 = 1
           /\ 6 \in Bits(n) <=> (n \div 64) % 2 = 1
           /\ 7 \in Bits(n) <=> (n \div 128) % 2 = 1
<1>1. n \div 1 = n
  OBVIOUS
<1>2. /\ 2^0 = 1 /\ 2^1 = 2 /\ 2^2 = 4 /\ 2^3 = 8
      /\ 2^4 = 16 /\ 2^5 = 32 /\ 2^6 = 64 /\ 2^7 = 128
  OBVIOUS
<1>. QED BY <1>1, <1>2 DEF Bits, BIT_NUM

\* A number is the sum of its bits.
LEMMA BitSum ==
    ASSUME NEW n \in 0 .. 255
    PROVE  n = (n % 2) + 2 * ((n \div 2) % 2) + 4 * ((n \div 4) % 2)
                + 8 * ((n \div 8) % 2) + 16 * ((n \div 16) % 2) + 32 * ((n \div 32) % 2)
                + 64 * ((n \div 64) % 2) + 128 * ((n \div 128) % 2)
OBVIOUS

LEMMA BitsType == ASSUME NEW n PROVE Bits(n) \in Byte
BY DEF Bits, Byte

LEMMA NumType == ASSUME NEW byte PROVE Num(byte) \in 0 .. 255
BY DEF Num

\* The bits of a number give it back.
LEMMA NumBits == ASSUME NEW n \in 0 .. 255 PROVE Num(Bits(n)) = n
<1> DEFINE B == Bits(n)
           bit(b) == IF b \in B THEN 1 ELSE 0
<1>1. /\ bit(0) = n % 2 /\ bit(1) = (n \div 2) % 2
      /\ bit(2) = (n \div 4) % 2 /\ bit(3) = (n \div 8) % 2
      /\ bit(4) = (n \div 16) % 2 /\ bit(5) = (n \div 32) % 2
      /\ bit(6) = (n \div 64) % 2 /\ bit(7) = (n \div 128) % 2
  <2> HIDE DEF B
  <2>. QED BY SMTT(20), BitsOf DEF B
<1>2. Num(B) = bit(0) + 2 * bit(1) + 4 * bit(2) + 8 * bit(3)
                + 16 * bit(4) + 32 * bit(5) + 64 * bit(6) + 128 * bit(7)
  BY DEF Num
<1> HIDE DEF B, bit
<1>3. Num(B) = n
  BY <1>1, <1>2, BitSum
<1>. QED BY <1>3 DEF B

LEMMA BytesType ==
    ASSUME NEW n, NEW size \in {1, 2, 4}
    PROVE  Bytes(n, size) \in Seq(Byte) /\ Len(Bytes(n, size)) = size
<1>1. \A k : Bits(k) \in Byte
  BY BitsType
<1>. QED BY <1>1 DEF Bytes

\* The bytes of a number, from the lowest one
LEMMA FirstByte ==
    ASSUME NEW n \in Nat, NEW size \in {1, 2, 4}
    PROVE  Bytes(n, size)[1] = Bits(n % 256)
<1>1. n \div 1 = n
  BY SMT
<1>. QED BY SMT, <1>1 DEF Bytes

LEMMA SecondByte ==
    ASSUME NEW n \in Nat, NEW size \in {2, 4}
    PROVE  Bytes(n, size)[2] = Bits((n \div 256) % 256)
BY SMT DEF Bytes

LEMMA ThirdByte ==
    ASSUME NEW n \in Nat
    PROVE  Bytes(n, 4)[3] = Bits((n \div 65536) % 256)
BY SMT DEF Bytes

LEMMA FourthByte ==
    ASSUME NEW n \in Nat
    PROVE  Bytes(n, 4)[4] = Bits((n \div 16777216) % 256)
BY SMT DEF Bytes

LEMMA TwoBytes ==
    ASSUME NEW n \in Nat
    PROVE  n % 65536 = (n % 256) + 256 * ((n \div 256) % 256)
BY SMT

LEMMA FourBytes ==
    ASSUME NEW n \in Nat
    PROVE  n % 4294967296 = (n % 65536) + 65536 * ((n \div 65536) % 256)
                                + 16777216 * ((n \div 16777216) % 256)
<1>1. n % 4294967296 = (n % 65536) + 65536 * ((n \div 65536) % 65536)
  BY SMT
<1>2. n \div 16777216 = (n \div 65536) \div 256
  BY SMT
<1>3. n \div 65536 \in Nat
  BY SMT
<1>. QED BY SMT, <1>1, <1>2, <1>3, TwoBytes

\* An integer that goes through its bytes comes back as much of it as they have
\* room for.
LEMMA ValueBytes ==
    ASSUME NEW n \in Nat, NEW size \in {1, 2, 4}
    PROVE  Value(Bytes(n, size)) = n % 256^size
<1> DEFINE bytes == Bytes(n, size)
<1>1. bytes = Bytes(n, size)
  OBVIOUS
<1>2. Len(bytes) = size
  BY BytesType
<1>3. bytes[1] = Bits(n % 256)
  BY FirstByte
<1>4. ASSUME size # 1 PROVE bytes[2] = Bits((n \div 256) % 256)
  <2>1. size \in {2, 4}
    BY <1>4
  <2>. QED BY <2>1, SecondByte
<1> HIDE DEF bytes
<1>5. /\ Num(bytes[1]) = n % 256
      /\ size # 1 => Num(bytes[2]) = (n \div 256) % 256
  <2>1. n % 256 \in 0 .. 255 /\ (n \div 256) % 256 \in 0 .. 255
    BY SMT
  <2>2. Num(bytes[1]) = n % 256
    BY Zenon, <1>3, <2>1, NumBits
  <2>3. ASSUME size # 1 PROVE Num(bytes[2]) = (n \div 256) % 256
    BY ZenonT(30), <1>4, <2>1, <2>3, NumBits
  <2>. QED BY <2>2, <2>3
<1>6. CASE size = 1
  <2>1. Value(bytes) = n % 256
    BY SMT, <1>2, <1>5, <1>6 DEF Value
  <2>2. 256^1 = 256
    BY SMT
  <2>. QED BY <1>6, <2>1, <2>2 DEF bytes
<1>7. CASE size = 2
  <2>1. Value(bytes) = Num(bytes[1]) + 256 * Num(bytes[2])
    BY SMT, <1>2, <1>5, <1>7 DEF Value
  <2>2. 256^2 = 65536
    BY SMT
  <2>3. Value(bytes) = n % 65536
    BY SMT, <1>5, <1>7, <2>1, TwoBytes
  <2>. QED BY SMT, <1>7, <2>2, <2>3 DEF bytes
<1>8. CASE size = 4
  <2>1. PICK third \in 0 .. 255 : third = (n \div 65536) % 256
    BY SMT
  <2>2. PICK fourth \in 0 .. 255 : fourth = (n \div 16777216) % 256
    BY SMT
  <2>3. Num(bytes[3]) = third
    <3>1. bytes[3] = Bits(third)
      BY SMT, <1>1, <1>8, <2>1, ThirdByte
    <3>. QED BY Zenon, <3>1, NumBits
  <2>4. Num(bytes[4]) = fourth
    <3>1. bytes[4] = Bits(fourth)
      BY SMT, <1>1, <1>8, <2>2, FourthByte
    <3>. QED BY Zenon, <3>1, NumBits
  <2>5. Value(bytes) = Num(bytes[1]) + 256 * Num(bytes[2])
                        + 65536 * Num(bytes[3]) + 16777216 * Num(bytes[4])
    BY SMT, <1>2, <1>8 DEF Value
  <2>6. Value(bytes) = (n % 65536) + 65536 * third + 16777216 * fourth
    <3>1. Num(bytes[1]) + 256 * Num(bytes[2]) = n % 65536
      BY SMT, <1>5, <1>8, TwoBytes
    <3>. QED BY SMT, <2>3, <2>4, <2>5, <3>1, NumType
  <2>7. Value(bytes) = n % 4294967296
    BY SMT, <2>1, <2>2, <2>6, FourBytes
  <2>8. 256^4 = 4294967296
    BY SMT
  <2>. QED BY SMT, <1>8, <2>7, <2>8 DEF bytes
<1>. QED BY <1>6, <1>7, <1>8 DEF bytes

\* What a uint16_t is, for the provers
LEMMA UInt16Range ==
    UInt16 \subseteq Nat /\ \A n \in Int : n \in UInt16 <=> 0 <= n /\ n <= 65535
<1> DEFINE max == 65535
<1>1. max \in Nat
  BY SMT
<1>2. UInt16 = 0 .. max
  BY DEF UInt16
<1> HIDE DEF max
<1>3. UInt16 \subseteq Nat /\ \A n \in Int : n \in UInt16 <=> 0 <= n /\ n <= max
  BY <1>1, <1>2
<1>. QED BY <1>3 DEF max

\* Two bytes make a uint16_t, whatever they are.
LEMMA ValueOfTwo ==
    ASSUME NEW bytes, Len(bytes) = 2
    PROVE  Value(bytes) \in UInt16
<1>1. PICK a \in 0 .. 255, b \in 0 .. 255 : Num(bytes[1]) = a /\ Num(bytes[2]) = b
  BY NumType
<1>2. Value(bytes) = a + 256 * b
  BY SMT, <1>1 DEF Value
<1>3. a + 256 * b \in Int /\ 0 <= a + 256 * b /\ a + 256 * b <= 65535
  BY SMT
<1>. QED BY SMT, <1>2, <1>3, UInt16Range

LEMMA ValueOfUInt16 == ASSUME NEW n \in UInt16 PROVE Value(Bytes(n, 2)) = n
<1>1. n \in Nat
  BY UInt16Range
<1>2. n % 65536 = n
  <2>1. n <= 65535
    BY SMT, UInt16Range
  <2>. QED BY SMT, <1>1, <2>1
<1>3. 256^2 = 65536
  BY SMT
<1>4. Value(Bytes(n, 2)) = n % 256^2
  BY <1>1, ValueBytes
<1>. QED BY SMT, <1>2, <1>3, <1>4

LEMMA ValueOfByte == ASSUME NEW n \in 0 .. 255 PROVE Value(Bytes(n, 1)) = n
<1>1. n \in Nat /\ n % 256 = n
  BY SMT
<1>2. 256^1 = 256
  BY SMT
<1>3. Value(Bytes(n, 1)) = n % 256^1
  BY <1>1, ValueBytes
<1>. QED BY SMT, <1>1, <1>2, <1>3
-----------------------------------------------------------------------------

(***************************************************************************)
(* What packet_craft makes passes the checks and is taken apart again.     *)
(***************************************************************************)

\* A small number has no high bits.
LEMMA NibbleBits == ASSUME NEW n \in 0 .. 15 PROVE Bits(n) \subseteq 0 .. 3
<1>1. n \in 0 .. 255
  OBVIOUS
<1>2. n \div 16 = 0 /\ n \div 32 = 0 /\ n \div 64 = 0 /\ n \div 128 = 0
  OBVIOUS
<1>3. 4 \notin Bits(n) /\ 5 \notin Bits(n) /\ 6 \notin Bits(n) /\ 7 \notin Bits(n)
  BY <1>1, <1>2, BitsOf
<1>4. Bits(n) \subseteq 0 .. 7
  BY DEF Bits, BIT_NUM
<1>. QED BY <1>3, <1>4

LEMMA SevenBits == ASSUME NEW n \in 0 .. 127 PROVE Bits(n) \subseteq 0 .. 6
<1>1. n \in 0 .. 255
  OBVIOUS
<1>2. n \div 128 = 0
  OBVIOUS
<1>3. 7 \notin Bits(n)
  BY <1>1, <1>2, BitsOf
<1>4. Bits(n) \subseteq 0 .. 7
  BY DEF Bits, BIT_NUM
<1>. QED BY <1>3, <1>4

\* The first byte of a header: the type over the id
Kind(type, id) == _bitfield_set(_bitfield_set({}, type, 4, 7), id, 0, 3)

LEMMA KindReads ==
    ASSUME NEW type \in 0 .. 15, NEW id \in 0 .. 15
    PROVE  /\ Kind(type, id) \in Byte
           /\ _bitfield_get(Kind(type, id), 4, 7) = type
           /\ _bitfield_get(Kind(type, id), 0, 3) = id
<1> DEFINE T == Bits(type)
           I == Bits(id)
           B == Kind(type, id)
<1>1. T \subseteq 0 .. 3 /\ I \subseteq 0 .. 3
  BY NibbleBits
<1>2. B = {t + 4 : t \in T} \cup I
  <2>1. B = ((({} \ (4 .. 7)) \cup ({t + 4 : t \in T} \cap (4 .. 7))) \ (0 .. 3))
              \cup ({i + 0 : i \in I} \cap (0 .. 3))
    BY DEF Kind, _bitfield_set
  <2> HIDE DEF T, I, B
  <2>2. {t + 4 : t \in T} \subseteq 4 .. 7
    BY <1>1
  <2>3. {i + 0 : i \in I} = I
    <3>1. \A i \in I : i + 0 = i
      BY <1>1
    <3>. QED BY Zenon, <3>1
  <2>4. (4 .. 7) \cap (0 .. 3) = {}
    OBVIOUS
  <2>. QED BY Zenon, <1>1, <2>1, <2>2, <2>3, <2>4
<1> HIDE DEF T, I, B
<1>3. B \in Byte
  <2>1. (\A t \in T : t + 4 \in 0 .. 7) /\ I \subseteq 0 .. 7 /\ 8 - 1 = 7
    BY <1>1
  <2>. QED BY Zenon, <1>2, <2>1 DEF Byte, BIT_NUM
<1>4. {i - 4 : i \in B \cap (4 .. 7)} = T
  <2>1. B \cap (4 .. 7) = {t + 4 : t \in T}
    BY <1>1, <1>2
  <2>2. ASSUME NEW t \in T PROVE t \in {i - 4 : i \in B \cap (4 .. 7)}
    <3>1. t + 4 \in B \cap (4 .. 7)
      BY Zenon, <2>1
    <3>2. (t + 4) - 4 = t
      BY <1>1
    <3>. QED BY Zenon, <3>1, <3>2
  <2>3. ASSUME NEW i \in B \cap (4 .. 7) PROVE i - 4 \in T
    <3>1. PICK t \in T : i = t + 4
      BY Zenon, <2>1
    <3>2. i - 4 = t
      BY <1>1, <3>1
    <3>. QED BY <3>2
  <2>. QED BY Zenon, <2>2, <2>3
<1>5. {i - 0 : i \in B \cap (0 .. 3)} = I
  <2>1. B \cap (0 .. 3) = I
    <3>1. \A t \in T : t + 4 \notin 0 .. 3
      BY <1>1
    <3>. QED BY Zenon, <1>1, <1>2, <3>1
  <2>2. \A i \in I : i - 0 = i
    BY <1>1
  <2>. QED BY Zenon, <2>1, <2>2
<1>6. Num(T) = type /\ Num(I) = id
  BY NumBits DEF T, I
<1>. QED BY <1>3, <1>4, <1>5, <1>6 DEF B, _bitfield_get

\* The second one: the size, over the bit of the parity
LEMMA SizeReads ==
    ASSUME NEW n \in 0 .. 127, NEW parity \in {{}, {0}}
    PROVE  LET byte == _bitfield_set({}, n, 1, 7) IN
           /\ byte \subseteq 1 .. 7
           /\ _bitfield_get(byte \cup parity, 1, 7) = n
<1> DEFINE S == Bits(n)
           B == _bitfield_set({}, n, 1, 7)
           C == B \cup parity
<1>1. S \subseteq 0 .. 6
  BY SevenBits
<1>2. B = {s + 1 : s \in S}
  <2>1. B = ({} \ (1 .. 7)) \cup ({s + 1 : s \in S} \cap (1 .. 7))
    BY DEF _bitfield_set
  <2> HIDE DEF S, B
  <2>2. {s + 1 : s \in S} \subseteq 1 .. 7
    BY <1>1
  <2>. QED BY Zenon, <2>1, <2>2
<1> HIDE DEF S, B
<1>3. B \subseteq 1 .. 7
  BY <1>1, <1>2
<1>4. {i - 1 : i \in C \cap (1 .. 7)} = S
  <2>1. C \cap (1 .. 7) = {s + 1 : s \in S}
    BY <1>2, <1>3
  <2> HIDE DEF C
  <2>2. ASSUME NEW s \in S PROVE s \in {i - 1 : i \in C \cap (1 .. 7)}
    <3>1. s + 1 \in C \cap (1 .. 7)
      BY Zenon, <2>1
    <3>2. (s + 1) - 1 = s
      BY <1>1
    <3>. QED BY Zenon, <3>1, <3>2
  <2>3. ASSUME NEW i \in C \cap (1 .. 7) PROVE i - 1 \in S
    <3>1. PICK s \in S : i = s + 1
      BY Zenon, <2>1
    <3>2. i - 1 = s
      BY <1>1, <3>1
    <3>. QED BY <3>2
  <2>. QED BY Zenon, <2>2, <2>3
<1>5. Num(S) = n
  <2>1. n \in 0 .. 255
    OBVIOUS
  <2>. QED BY <2>1, NumBits DEF S
<1>6. _bitfield_get(C, 1, 7) = n
  BY <1>4, <1>5 DEF _bitfield_get
<1>. QED BY <1>3, <1>6 DEF B
-----------------------------------------------------------------------------

(***************************************************************************)
(* The CRC.                                                                *)
(***************************************************************************)

LEMMA XorType == \A a, b \in Byte : Xor(a, b) \in Byte
BY DEF Xor, Byte

LEMMA XorSelf == \A a : Xor(a, a) = {} /\ Xor({}, a) = a /\ Xor(a, {}) = a
BY DEF Xor

LEMMA XorLeft == ASSUME NEW a, NEW b, NEW c, Xor(a, c) = Xor(b, c) PROVE a = b
BY Zenon DEF Xor

LEMMA XorRight == ASSUME NEW a, NEW b, NEW c, Xor(c, a) = Xor(c, b) PROVE a = b
BY Zenon DEF Xor

\* A round takes bytes to bytes, leaves nothing of nothing, and tells apart both
\* remainders and bytes.
LEMMA RoundType == \A c, b \in Byte : crc_division_round(c, b) \in Byte
<1>1. \A c \in Byte : Rounds[c] \in Byte
  BY BitsType DEF Rounds
<1>. QED BY Zenon, <1>1, XorType DEF crc_division_round

LEMMA RoundZero == \A c \in Byte : crc_division_round(c, c) = {}
<1>1. Reduced({}) = {}
  BY DEF Reduced, Xor
<1>2. {} \in Byte /\ {e + 8 : e \in {}} = {}
  BY DEF Byte
<1>3. Rounds[{}] = {}
  BY <1>1, <1>2, TableAssumption
<1>. QED BY <1>3, XorSelf DEF crc_division_round

LEMMA RoundTells ==
    ASSUME NEW x \in Byte, NEW y \in Byte, Rounds[x] = Rounds[y] PROVE x = y
BY TableAssumption

LEMMA RoundLeft ==
    ASSUME NEW c \in Byte, NEW d \in Byte, NEW b \in Byte,
           crc_division_round(c, b) = crc_division_round(d, b)
    PROVE  c = d
<1>1. Xor(c, b) \in Byte /\ Xor(d, b) \in Byte
  BY Zenon, XorType
<1>2. Rounds[Xor(c, b)] = Rounds[Xor(d, b)]
  BY DEF crc_division_round
<1>3. Xor(c, b) = Xor(d, b)
  BY Zenon, <1>1, <1>2, RoundTells
<1>. QED BY Zenon, <1>3, XorLeft

LEMMA RoundRight ==
    ASSUME NEW c \in Byte, NEW b \in Byte, NEW d \in Byte,
           crc_division_round(c, b) = crc_division_round(c, d)
    PROVE  b = d
<1>1. Xor(c, b) \in Byte /\ Xor(c, d) \in Byte
  BY Zenon, XorType
<1>2. Rounds[Xor(c, b)] = Rounds[Xor(c, d)]
  BY DEF crc_division_round
<1>3. Xor(c, b) = Xor(c, d)
  BY Zenon, <1>1, <1>2, RoundTells
<1>. QED BY Zenon, <1>3, XorRight

\* The remainders that the division goes through
Divides(rest, data) ==
    /\ rest \in [0 .. Len(data) -> Byte] /\ rest[0] = CRC_INIT
    /\ \A n \in 1 .. Len(data) : rest[n] = crc_division_round(rest[n - 1], data[n])

LEMMA CrcSteps ==
    ASSUME NEW data \in Seq(Byte)
    PROVE  \E rest : Divides(rest, data) /\ crc(data) = rest[Len(data)]
<1> DEFINE N == Len(data)
           Def(f) == f = [n \in 0 .. Len(data) |->
                            IF n = 0 THEN CRC_INIT
                            ELSE crc_division_round(f[n - 1], data[n])]
           F == [n \in 1 .. N |-> [c \in Byte |-> crc_division_round(c, data[n])]]
<1>1. N \in Nat /\ CRC_INIT \in Byte /\ \A n \in 1 .. N : data[n] \in Byte
  BY DEF CRC_INIT, Byte
<1>2. F \in [1 .. N -> [Byte -> Byte]]
  BY <1>1, RoundType
<1> HIDE DEF F
<1>3. PICK f \in [0 .. N -> Byte] : CountsUp(f, N, CRC_INIT, F)
  BY <1>1, <1>2, UpwardRecursion
<1>4. \A n \in 0 .. N :
         f[n] = IF n = 0 THEN CRC_INIT ELSE crc_division_round(f[n - 1], data[n])
  <2> SUFFICES ASSUME NEW n \in 0 .. N
               PROVE  f[n] = IF n = 0 THEN CRC_INIT
                             ELSE crc_division_round(f[n - 1], data[n])
    OBVIOUS
  <2>1. f[n] = IF n = 0 THEN CRC_INIT ELSE F[n][f[n - 1]]
    BY <1>3 DEF CountsUp
  <2>2. n # 0 => n \in 1 .. N /\ n - 1 \in 0 .. N
    BY <1>1
  <2>3. n # 0 => F[n][f[n - 1]] = crc_division_round(f[n - 1], data[n])
    BY <1>3, <2>2 DEF F
  <2>. QED BY <2>1, <2>3
<1>5. Def(f)
  <2>1. f = [n \in 0 .. Len(data) |-> f[n]]
    OBVIOUS
  <2>. QED BY <1>4, <2>1
<1> DEFINE g == CHOOSE h : Def(h)
<1>6. Def(g)
  BY <1>5
<1>7. crc(data) = g[Len(data)]
  BY DEF crc
<1>8. Divides(g, data)
  <2> HIDE DEF g
  <2>1. \A n \in 0 .. N :
           g[n] = IF n = 0 THEN CRC_INIT ELSE crc_division_round(g[n - 1], data[n])
    BY <1>6
  <2>2. DOMAIN g = 0 .. N /\ g = [n \in 0 .. N |-> g[n]]
    BY <1>6
  <2>3. \A n \in 0 .. N : g[n] \in Byte
    <3> DEFINE S == {n \in Nat : g[n] \in Byte}
    <3>1. 0 \in S
      BY <1>1, <2>1
    <3>2. ASSUME NEW n \in 0 + 1 .. N, n - 1 \in S PROVE n \in S
      <4>1. n \in 0 .. N /\ n # 0 /\ n \in 1 .. N /\ n \in Nat
        BY <1>1
      <4>2. g[n] = crc_division_round(g[n - 1], data[n])
        BY <2>1, <4>1
      <4>3. g[n - 1] \in Byte /\ data[n] \in Byte
        BY <1>1, <3>2, <4>1
      <4>4. g[n] \in Byte
        BY <4>2, <4>3, RoundType
      <4>. QED BY <4>1, <4>4
    <3>3. S \in SUBSET Nat
      OBVIOUS
    <3> HIDE DEF S
    <3>4. \A n \in 0 .. N : n \in S
      BY <1>1, <3>1, <3>2, <3>3, CountingUp
    <3>. QED BY <3>4 DEF S
  <2>4. g \in [0 .. N -> Byte]
    BY <2>2, <2>3
  <2>5. g[0] = CRC_INIT
    BY <1>1, <2>1
  <2>6. \A n \in 1 .. N : n \in 0 .. N /\ n # 0
    BY <1>1
  <2>. QED BY <2>1, <2>4, <2>5, <2>6 DEF Divides
<1>. QED BY <1>7, <1>8

\* Two divisions that agree on their first bytes agree on the remainders.
LEMMA DivisionsAgree ==
    ASSUME NEW a \in Seq(Byte), NEW b \in Seq(Byte), NEW f, NEW g,
           Divides(f, a), Divides(g, b), NEW n \in Nat, n <= Len(a), n <= Len(b),
           \A i \in 1 .. n : a[i] = b[i]
    PROVE  f[n] = g[n]
<1> DEFINE S == {i \in Nat : f[i] = g[i]}
<1>1. 0 \in S
  BY DEF Divides
<1>2. ASSUME NEW i \in 0 + 1 .. n, i - 1 \in S PROVE i \in S
  <2>1. i \in 1 .. n /\ i \in 1 .. Len(a) /\ i \in 1 .. Len(b) /\ i \in Nat
    OBVIOUS
  <2>2. f[i] = crc_division_round(f[i - 1], a[i]) /\ g[i] = crc_division_round(g[i - 1], b[i])
    BY <2>1 DEF Divides
  <2>. QED BY <1>2, <2>1, <2>2
<1>3. S \in SUBSET Nat /\ n \in 0 .. n
  OBVIOUS
<1> HIDE DEF S
<1>4. n \in S
  BY <1>1, <1>2, <1>3, CountingUp
<1>. QED BY <1>4 DEF S

\* The CRC tells two messages apart that differ in one byte.
LEMMA CrcTellsApart ==
    ASSUME NEW a \in Seq(Byte), NEW b \in Seq(Byte), Len(a) = Len(b),
           NEW i \in 1 .. Len(a), a[i] # b[i],
           \A j \in 1 .. Len(a) : j # i => a[j] = b[j]
    PROVE  crc(a) # crc(b)
<1> DEFINE N == Len(a)
<1>1. PICK f : Divides(f, a) /\ crc(a) = f[N]
  BY CrcSteps
<1>2. PICK g : Divides(g, b) /\ crc(b) = g[N]
  BY CrcSteps
<1>3. N \in Nat /\ i \in Nat /\ i - 1 \in Nat /\ i - 1 <= N
  OBVIOUS
<1>4. f[i - 1] = g[i - 1]
  <2>1. \A j \in 1 .. i - 1 : j \in 1 .. N /\ j # i
    BY <1>3
  <2>. QED BY <1>1, <1>2, <1>3, <2>1, DivisionsAgree
<1> DEFINE S == {n \in Nat : f[n] # g[n]}
<1>5. \A n \in 0 .. N : f[n] \in Byte /\ g[n] \in Byte
  BY <1>1, <1>2 DEF Divides
<1>6. \A n \in 1 .. N : /\ n - 1 \in 0 .. N /\ n \in 0 .. N /\ n \in Nat
                        /\ a[n] \in Byte /\ b[n] \in Byte
  BY <1>3
<1>7. \A n \in 1 .. N : /\ f[n] = crc_division_round(f[n - 1], a[n])
                        /\ g[n] = crc_division_round(g[n - 1], b[n])
  BY <1>1, <1>2 DEF Divides
<1>8. f[i] # g[i]
  <2>1. f[i] = crc_division_round(f[i - 1], a[i]) /\ g[i] = crc_division_round(f[i - 1], b[i])
    BY <1>4, <1>7
  <2>2. f[i - 1] \in Byte /\ a[i] \in Byte /\ b[i] \in Byte
    BY <1>5, <1>6
  <2>. QED BY Zenon, <2>1, <2>2, RoundRight
<1>9. ASSUME NEW n \in i + 1 .. N, f[n - 1] # g[n - 1] PROVE f[n] # g[n]
  <2>1. n \in 1 .. N /\ n # i
    BY <1>3
  <2>2. f[n] = crc_division_round(f[n - 1], a[n]) /\ g[n] = crc_division_round(g[n - 1], a[n])
    BY <1>7, <2>1
  <2>3. f[n - 1] \in Byte /\ g[n - 1] \in Byte /\ a[n] \in Byte
    BY <1>5, <1>6, <2>1
  <2>. QED BY Zenon, <1>9, <2>2, <2>3, RoundLeft
<1>10. i \in S /\ \A n \in i + 1 .. N : n - 1 \in S => n \in S
  <2>1. \A n \in i + 1 .. N : n \in Nat
    BY <1>3
  <2>. QED BY <1>3, <1>8, <1>9, <2>1
<1>11. S \in SUBSET Nat /\ N \in i .. N
  BY <1>3
<1> HIDE DEF S, N
<1>12. N \in S
  BY <1>3, <1>10, <1>11, CountingUp
<1>. QED BY <1>1, <1>2, <1>12 DEF S

LEMMA CrcType == ASSUME NEW data \in Seq(Byte) PROVE crc(data) \in Byte
<1>1. PICK f : Divides(f, data) /\ crc(data) = f[Len(data)]
  BY CrcSteps
<1>. QED BY <1>1 DEF Divides

\* The CRC after a message leaves nothing of the division.
LEMMA CrcClosed ==
    ASSUME NEW data \in Seq(Byte)
    PROVE  crc(Append(data, crc(data))) = {}
<1> DEFINE N == Len(data)
           c == crc(data)
           more == Append(data, c)
<1>1. c \in Byte
  BY CrcType
<1> HIDE DEF c
<1>2. /\ more \in Seq(Byte) /\ Len(more) = N + 1 /\ more[N + 1] = c
      /\ \A i \in 1 .. N : data[i] = more[i]
  BY <1>1
<1> HIDE DEF more
<1>3. PICK f : Divides(f, data) /\ crc(data) = f[N]
  BY CrcSteps
<1>4. PICK g : Divides(g, more) /\ crc(more) = g[Len(more)]
  BY <1>2, CrcSteps
<1>5. N \in Nat /\ N + 1 \in 1 .. N + 1 /\ (N + 1) - 1 = N /\ N <= N + 1
  OBVIOUS
<1>6. f[N] = g[N]
  <2>1. N <= Len(data) /\ N <= Len(more)
    BY <1>2, <1>5
  <2> HIDE DEF N
  <2>. QED BY <1>2, <1>3, <1>4, <1>5, <2>1, DivisionsAgree
<1>7. g[N + 1] = crc_division_round(g[N], c)
  BY <1>2, <1>4, <1>5 DEF Divides
<1>8. g[N] = c
  BY <1>3, <1>6 DEF c
<1>9. crc(more) = crc_division_round(c, c)
  BY <1>2, <1>4, <1>7, <1>8
<1>. QED BY <1>1, <1>9, RoundZero DEF more, c

\* The parity bit makes the number of bits of the header even.
LEMMA EvenParity ==
    ASSUME NEW kind \in Byte, NEW size \in SUBSET (1 .. 7)
    PROVE  LET parity == IF packet_header_parity(<<kind, size>>) = 1 THEN {0} ELSE {}
           IN  (Cardinality(kind) + Cardinality(size \cup parity)) % 2 = 0
<1>0. \A a, b \in Int : IsFiniteSet(a .. b)
  BY FS_Interval
<1>01. 0 \in Int /\ 1 \in Int /\ 7 \in Int
  OBVIOUS
<1>1. IsFiniteSet(kind) /\ Cardinality(kind) \in Nat
  <2>1. IsFiniteSet(0 .. 7)
    BY Zenon, <1>0, <1>01
  <2>2. kind \subseteq 0 .. 7
    BY DEF Byte, BIT_NUM
  <2>. QED BY <2>1, <2>2, FS_Subset, FS_CardinalityType
<1>2. IsFiniteSet(size) /\ Cardinality(size) \in Nat
  <2>1. IsFiniteSet(1 .. 7)
    BY Zenon, <1>0, <1>01
  <2>. QED BY <2>1, FS_Subset, FS_CardinalityType
<1>3. Cardinality(size \cup {0}) = Cardinality(size) + 1
  <2>1. 0 \notin size
    OBVIOUS
  <2>. QED BY <1>2, <2>1, FS_AddElement
<1>4. packet_header_parity(<<kind, size>>) = (Cardinality(kind) + Cardinality(size)) % 2
  BY DEF packet_header_parity
<1>5. size \cup {} = size
  OBVIOUS
<1>6. \A a, b \in Nat : (a + b) % 2 = 1 => (a + (b + 1)) % 2 = 0
  OBVIOUS
<1>7. \A a, b \in Nat : (a + b) % 2 # 1 => (a + b) % 2 = 0
  OBVIOUS
<1>8. CASE packet_header_parity(<<kind, size>>) = 1
  BY <1>1, <1>2, <1>3, <1>4, <1>6, <1>8
<1>9. CASE packet_header_parity(<<kind, size>>) # 1
  BY <1>1, <1>2, <1>4, <1>5, <1>7, <1>9
<1>. QED BY <1>8, <1>9

\* A packet that passes the checks and is read as it was made
Reads(p, id, type, data) ==
    /\ p \in Seq(Byte) /\ Len(p) = Len(data) + PACKET_MIN_SIZE
    /\ packet_get_type(p) = type
    /\ packet_get_id(p) = id
    /\ packet_get_size(p) = Len(p)
    /\ packet_data_size(p) = Len(data)
    /\ Data(p) = data
    /\ packet_header_parity(p) = 0
    /\ p[Len(p)] = crc(Front(p))
    /\ crc(p) = {}

\* The packets of the commands and their answers
LEMMA Crafted ==
    ASSUME NEW id \in 0 .. 15, NEW type \in {CMD, CTR, DAT}, NEW data \in Seq(Byte),
           Len(data) <= PACKET_DATA_MAX_SIZE
    PROVE  Reads(packet_craft(id, type, data), id, type, data)
<1> SUFFICES ASSUME NEW p, p = packet_craft(id, type, data)
             PROVE  Reads(p, id, type, data)
  OBVIOUS
<1> DEFINE N == Len(data)
           K == Kind(type, id)
           S == _bitfield_set({}, N + 3, 1, 7)
           P == IF packet_header_parity(<<K, S>>) = 1 THEN {0} ELSE {}
           b == <<K, S \cup P>> \o data
           c == crc(b)
<1>1. N \in Nat /\ N <= 28 /\ N + 3 \in 0 .. 127
  <2>1. N \in Nat /\ N <= 28
    BY DEF PACKET_DATA_MAX_SIZE
  <2> HIDE DEF N
  <2>. QED BY <2>1
<1>2. p = Append(b, c)
  <2>1. PACKET_MIN_SIZE + Len(data) = N + 3
    BY <1>1 DEF PACKET_MIN_SIZE, PACKET_HEADER_SIZE
  <2>. QED BY Zenon, <2>1 DEF packet_craft, Kind
<1>3. K \in Byte /\ _bitfield_get(K, 4, 7) = type /\ _bitfield_get(K, 0, 3) = id
  <2>1. type \in 0 .. 15
    BY DEF CMD, CTR, DAT
  <2>. QED BY <2>1, KindReads
<1> HIDE DEF K
<1>4. S \subseteq 1 .. 7 /\ _bitfield_get(S \cup P, 1, 7) = N + 3
  <2>1. P \in {{}, {0}}
    OBVIOUS
  <2> HIDE DEF P
  <2>. QED BY <1>1, <2>1, SizeReads
<1>5. S \cup P \in Byte
  <2>1. \A i \in 1 .. 7 : i \in 0 .. 7
    OBVIOUS
  <2>2. 0 \in 0 .. 7 /\ 8 - 1 = 7
    OBVIOUS
  <2>. QED BY Zenon, <1>4, <2>1, <2>2 DEF Byte, BIT_NUM
<1>6. (Cardinality(K) + Cardinality(S \cup P)) % 2 = 0
  <2> HIDE DEF S
  <2>. QED BY <1>3, <1>4, EvenParity
<1> DEFINE H == S \cup P
<1>7. b = <<K, H>> \o data /\ H \in Byte
  BY <1>5
<1> HIDE DEF H, S, P, N
<1>8. b \in Seq(Byte) /\ Len(b) = N + 2
  <2>1. <<K, H>> \in Seq(Byte) /\ Len(<<K, H>>) = 2
    BY <1>3, <1>7
  <2>2. Len(b) = 2 + N
    BY <1>7, <2>1 DEF N
  <2>3. b \in Seq(Byte)
    BY Zenon, <1>7, <2>1, ConcatProperties
  <2>. QED BY <1>1, <2>2, <2>3
<1>9. b[1] = K /\ b[2] = H
  BY <1>7
<1>10. \A i \in 1 .. N : b[i + 2] = data[i]
  BY <1>1, <1>7 DEF N
<1> HIDE DEF b
<1>11. c \in Byte /\ crc(p) = {}
  BY <1>2, <1>8, CrcType, CrcClosed
<1> HIDE DEF c
<1>12. p \in Seq(Byte) /\ Len(p) = N + 3 /\ p[N + 3] = c
  BY <1>1, <1>2, <1>8, <1>11
<1>13. \A i \in 1 .. N + 2 : p[i] = b[i]
  BY <1>1, <1>2, <1>8
<1>14. p[1] = K /\ p[2] = H
  <2>1. 1 \in 1 .. N + 2 /\ 2 \in 1 .. N + 2
    BY <1>1
  <2>. QED BY <1>9, <1>13, <2>1
<1>15. Front(p) = b
  BY <1>1, <1>2, <1>8, <1>11 DEF Front
<1>16. packet_get_type(p) = type /\ packet_get_id(p) = id
  BY <1>3, <1>14 DEF packet_get_type, packet_get_id
<1>17. packet_get_size(p) = N + 3
  BY <1>4, <1>14 DEF packet_get_size, H
<1>18. packet_data_size(p) = N
  BY <1>1, <1>17 DEF packet_data_size, PACKET_MIN_SIZE, PACKET_HEADER_SIZE
<1>19. Data(p) = data
  <2>1. Data(p) = SubSeq(p, 3, N + 2)
    BY <1>1, <1>18 DEF Data, PACKET_HEADER_SIZE
  <2>2. SubSeq(p, 3, N + 2) = data
    BY <1>1, <1>10, <1>12, <1>13 DEF N
  <2>. QED BY <2>1, <2>2
<1>20. packet_header_parity(p) = 0
  BY <1>6, <1>14 DEF packet_header_parity, H
<1>21. PACKET_MIN_SIZE = 3
  BY DEF PACKET_MIN_SIZE, PACKET_HEADER_SIZE
<1>22. p[Len(p)] = crc(Front(p))
  BY <1>12, <1>15 DEF c
<1>. QED BY <1>11, <1>12, <1>16, <1>17, <1>18, <1>19, <1>20, <1>21, <1>22
    DEF N, Reads
-----------------------------------------------------------------------------

(***************************************************************************)
(* What damage does to a packet.                                           *)
(***************************************************************************)

\* A packet as one of the two ends made it
Whole(p) ==
    /\ p \in Seq(Byte) /\ Len(p) \in PACKET_MIN_SIZE .. PACKET_MAX_SIZE
    /\ packet_brings_data(p)
    /\ packet_get_size(p) = Len(p)
    /\ packet_header_parity(p) = 0
    /\ p[Len(p)] = crc(Front(p)) /\ crc(p) = {}

LEMMA CraftedWhole ==
    ASSUME NEW id \in 0 .. 15, NEW type \in {CMD, CTR, DAT}, NEW data \in Seq(Byte),
           Len(data) <= PACKET_DATA_MAX_SIZE
    PROVE  Whole(packet_craft(id, type, data))
<1>0. PICK p : p = packet_craft(id, type, data)
  OBVIOUS
<1>1. /\ p \in Seq(Byte) /\ Len(p) = Len(data) + PACKET_MIN_SIZE
      /\ packet_get_type(p) = type /\ packet_get_size(p) = Len(p)
      /\ packet_header_parity(p) = 0 /\ p[Len(p)] = crc(Front(p)) /\ crc(p) = {}
  <2>1. Reads(p, id, type, data)
    BY <1>0, Crafted
  <2>. QED BY <2>1 DEF Reads
<1>2. Len(p) \in PACKET_MIN_SIZE .. PACKET_MAX_SIZE
  <2>1. PACKET_MIN_SIZE = 3 /\ PACKET_MAX_SIZE = 31 /\ PACKET_DATA_MAX_SIZE = 28
    BY DEF PACKET_MIN_SIZE, PACKET_MAX_SIZE, PACKET_DATA_MAX_SIZE, PACKET_HEADER_SIZE
  <2>2. Len(data) \in Nat /\ Len(p) = Len(data) + 3
    BY <1>1, <2>1
  <2>3. Len(data) <= 28
    BY <2>1
  <2>4. \A n \in Nat : n <= 28 => n + 3 \in 3 .. 31
    OBVIOUS
  <2>. QED BY Zenon, <2>1, <2>2, <2>3, <2>4
<1>3. packet_brings_data(p)
  BY <1>1 DEF packet_brings_data, CMD, CTR, DAT
<1>4. Whole(p)
  BY <1>1, <1>2, <1>3 DEF Whole
<1>. QED BY <1>0, <1>4

LEMMA WholeSequence == ASSUME NEW p \in Seq(Byte) PROVE SubSeq(p, 1, Len(p)) = p
OBVIOUS

LEMMA WholeAccepted == ASSUME NEW p, Whole(p) PROVE Accepted(p)
<1>1. p \in Seq(Byte) /\ Len(p) \in PACKET_MIN_SIZE .. PACKET_MAX_SIZE
  BY DEF Whole
<1>2. packet_check_crc(p)
  BY <1>1, WholeSequence DEF Whole, packet_check_crc
<1>3. packet_check_header(p)
  BY DEF Whole, packet_check_header
<1>4. Len(p) >= PACKET_MIN_SIZE /\ packet_get_size(p) <= Len(p)
  BY <1>1 DEF Whole, PACKET_MIN_SIZE, PACKET_MAX_SIZE, PACKET_DATA_MAX_SIZE,
     PACKET_HEADER_SIZE
<1>. QED BY <1>2, <1>3, <1>4 DEF Accepted

LEMMA ByteFinite == ASSUME NEW byte \in Byte PROVE IsFiniteSet(byte) /\ Cardinality(byte) \in Nat
<1>1. \A a, b \in Int : IsFiniteSet(a .. b)
  BY FS_Interval
<1>2. 0 \in Int /\ 7 \in Int
  OBVIOUS
<1>3. IsFiniteSet(0 .. 7)
  BY Zenon, <1>1, <1>2
<1>4. byte \subseteq 0 .. 7
  BY DEF Byte, BIT_NUM
<1>. QED BY <1>3, <1>4, FS_Subset, FS_CardinalityType

\* A flipped bit changes the number of bits by one.
LEMMA FlipCounts ==
    ASSUME NEW byte \in Byte, NEW b \in Erased
    PROVE  \/ Cardinality(Xor(byte, {b})) = Cardinality(byte) + 1
           \/ Cardinality(Xor(byte, {b})) = Cardinality(byte) - 1
<1>1. CASE b \in byte
  <2>1. Xor(byte, {b}) = byte \ {b}
    BY <1>1 DEF Xor
  <2>. QED BY <1>1, <2>1, ByteFinite, FS_RemoveElement
<1>2. CASE b \notin byte
  <2>1. Xor(byte, {b}) = byte \cup {b}
    BY <1>2 DEF Xor
  <2>. QED BY <1>2, <2>1, ByteFinite, FS_AddElement
<1>. QED BY <1>1, <1>2

\* The parity bit catches a flipped bit of the header ...
LEMMA HeaderDamageSeen ==
    ASSUME NEW p, Whole(p), NEW i \in 1 .. PACKET_HEADER_SIZE, NEW b \in Erased
    PROVE  ~Accepted(Damaged(p, i, {b}))
<1> DEFINE bad == [p EXCEPT ![i] = Xor(@, {b})]
<1>1. p \in Seq(Byte) /\ Len(p) \in Nat /\ Len(p) >= 3
  BY DEF Whole, PACKET_MIN_SIZE, PACKET_MAX_SIZE, PACKET_DATA_MAX_SIZE, PACKET_HEADER_SIZE
<1>2. p[1] \in Byte /\ p[2] \in Byte /\ 1 \in DOMAIN p /\ 2 \in DOMAIN p
  BY <1>1
<1>3. Cardinality(p[1]) \in Nat /\ Cardinality(p[2]) \in Nat
  BY <1>2, ByteFinite
<1>4. (Cardinality(p[1]) + Cardinality(p[2])) % 2 = 0
  BY DEF Whole, packet_header_parity
<1>5. i \in {1, 2}
  BY DEF PACKET_HEADER_SIZE
<1>6. /\ i = 1 => bad[1] = Xor(p[1], {b}) /\ bad[2] = p[2]
      /\ i = 2 => bad[2] = Xor(p[2], {b}) /\ bad[1] = p[1]
  BY <1>1, <1>2
<1> HIDE DEF bad
<1>7. \A m, n \in Nat : (m + n) % 2 = 0 => /\ ((m + 1) + n) % 2 # 0 /\ ((m - 1) + n) % 2 # 0
                                           /\ (m + (n + 1)) % 2 # 0 /\ (m + (n - 1)) % 2 # 0
  OBVIOUS
<1>8. (Cardinality(bad[1]) + Cardinality(bad[2])) % 2 # 0
  <2>1. CASE i = 1
    <3>1. \/ Cardinality(bad[1]) = Cardinality(p[1]) + 1
          \/ Cardinality(bad[1]) = Cardinality(p[1]) - 1
      BY <1>2, <1>6, <2>1, FlipCounts
    <3>. QED BY <1>3, <1>4, <1>6, <1>7, <2>1, <3>1
  <2>2. CASE i = 2
    <3>1. \/ Cardinality(bad[2]) = Cardinality(p[2]) + 1
          \/ Cardinality(bad[2]) = Cardinality(p[2]) - 1
      BY <1>2, <1>6, <2>2, FlipCounts
    <3>. QED BY <1>3, <1>4, <1>6, <1>7, <2>2, <3>1
  <2>. QED BY <1>5, <2>1, <2>2
<1>9. ~Accepted(bad)
  BY <1>8 DEF Accepted, packet_check_header, packet_header_parity
<1>. QED BY <1>9 DEF bad, Damaged

\* ... and the CRC any other byte.
LEMMA DataDamageSeen ==
    ASSUME NEW p, Whole(p), NEW i \in PACKET_HEADER_SIZE + 1 .. Len(p), NEW mask \in Masks
    PROVE  ~Accepted(Damaged(p, i, mask))
<1> DEFINE bad == [p EXCEPT ![i] = Xor(@, mask)]
<1>1. p \in Seq(Byte) /\ Len(p) \in Nat /\ i \in 3 .. Len(p)
  BY DEF Whole, PACKET_HEADER_SIZE
<1>2. mask \in Byte /\ mask # {}
  <2>0. Masks \subseteq (SUBSET Erased) \ {{}}
    BY SMT, RemoteAssumption
  <2>1. mask \in (SUBSET Erased) \ {{}}
    BY <2>0
  <2>. QED BY <2>1 DEF Erased, Byte
<1>3. p[i] \in Byte /\ i \in 1 .. Len(p) /\ i # 1 /\ i # 2
      /\ 1 \in 1 .. Len(p) /\ 2 \in 1 .. Len(p)
  BY <1>1
<1>4. Xor(p[i], mask) \in Byte
  BY <1>2, <1>3, XorType
<1>5. Xor(p[i], mask) # p[i]
  BY <1>2 DEF Xor
<1>6. bad \in Seq(Byte) /\ Len(bad) = Len(p)
  BY <1>1, <1>3, <1>4
<1>7. bad[i] # p[i] /\ \A j \in 1 .. Len(p) : j # i => bad[j] = p[j]
  BY <1>1, <1>3, <1>5
<1> HIDE DEF bad
<1>8. crc(bad) # crc(p)
  <2>1. i \in 1 .. Len(bad) /\ \A j \in 1 .. Len(bad) : j # i => bad[j] = p[j]
    BY <1>3, <1>6, <1>7
  <2>. QED BY Zenon, <1>1, <1>6, <1>7, <2>1, CrcTellsApart
<1>9. packet_get_size(bad) = Len(bad)
  <2>1. bad[2] = p[2]
    BY <1>3, <1>7
  <2>. QED BY <1>6, <2>1 DEF Whole, packet_get_size
<1>10. SubSeq(bad, 1, Len(bad)) = bad
  BY <1>6, WholeSequence
<1>11. ~packet_check_crc(bad)
  BY <1>8, <1>9, <1>10 DEF Whole, packet_check_crc
<1>12. ~Accepted(bad)
  BY <1>11 DEF Accepted
<1>. QED BY <1>12 DEF bad, Damaged
-----------------------------------------------------------------------------

(***************************************************************************)
(* The polynomial division.                                                *)
(***************************************************************************)

LEMMA XorAssociative == \A a, b, c : Xor(Xor(a, b), c) = Xor(a, Xor(b, c))
BY DEF Xor

\* What is below x^8 stays out of a reduction.
LEMMA ReducedApart ==
    ASSUME NEW b \in Byte, NEW q
    PROVE  Reduced(Xor(b, q)) = Xor(b, Reduced(q))
<1> DEFINE High(p) == {e - 8 : e \in {h \in p : h >= 8}}
           Down(h) == Xor(h, Xor({e + 1 : e \in h}, {e + 2 : e \in h}))
<1>1. \A p : Reduced(p) = Xor(p \cap Erased, Down(High(p)))
  BY Zenon DEF Reduced
<1>2. b \subseteq Erased /\ \A h \in b : ~(h >= 8)
  BY DEF Byte, Erased, BIT_NUM
<1>3. {h \in Xor(b, q) : h >= 8} = {h \in q : h >= 8}
  BY Zenon, <1>2 DEF Xor
<1>4. High(Xor(b, q)) = High(q)
  BY Zenon, <1>3
<1> HIDE DEF High, Down
<1>5. Xor(b, q) \cap Erased = Xor(b, q \cap Erased)
  BY Zenon, <1>2 DEF Xor
<1>6. Reduced(Xor(b, q)) = Xor(Xor(b, q \cap Erased), Down(High(q)))
  BY Zenon, <1>1, <1>4, <1>5
<1>7. Xor(Xor(b, q \cap Erased), Down(High(q))) = Xor(b, Xor(q \cap Erased, Down(High(q))))
  BY XorAssociative
<1>8. Reduced(q) = Xor(q \cap Erased, Down(High(q)))
  BY <1>1
<1>. QED BY Zenon, <1>6, <1>7, <1>8

\* A byte comes down.
LEMMA ReducedTwice ==
    ASSUME NEW r \in Byte, NEW b \in Byte
    PROVE  Reduced(Reduced({e + 8 : e \in r} \cup b)) = Xor(b, Rounds[r])
<1> DEFINE high == {e + 8 : e \in r}
<1>1. Rounds[r] = Reduced(Reduced(high))
  BY TableAssumption
<1>2. high \cup b = Xor(b, high)
  <2>1. \A e \in r : e + 8 \notin b
    BY DEF Byte, BIT_NUM
  <2>. QED BY Zenon, <2>1 DEF Xor
<1> HIDE DEF high
<1>3. Reduced(Reduced(high \cup b)) = Xor(b, Reduced(Reduced(high)))
  <2>1. Reduced(high \cup b) = Xor(b, Reduced(high))
    BY Zenon, <1>2, ReducedApart
  <2>2. Reduced(Xor(b, Reduced(high))) = Xor(b, Reduced(Reduced(high)))
    BY Zenon, ReducedApart
  <2>. QED BY <2>1, <2>2
<1>. QED BY <1>1, <1>3 DEF high

LEMMA RemainderSteps ==
    ASSUME NEW bytes \in Seq(Byte)
    PROVE  \E rest :
               /\ rest \in [0 .. Len(bytes) -> Byte] /\ rest[0] = {}
               /\ \A n \in 1 .. Len(bytes) : rest[n] = Xor(bytes[n], Rounds[rest[n - 1]])
               /\ Remainder(bytes) = rest[Len(bytes)]
<1> DEFINE N == Len(bytes)
           Def(f) == f = [n \in 0 .. Len(bytes) |->
                            IF n = 0 THEN {}
                            ELSE Reduced(Reduced({e + 8 : e \in f[n - 1]} \cup bytes[n]))]
           F == [n \in 1 .. N |-> [r \in Byte |-> Xor(bytes[n], Rounds[r])]]
<1>1. N \in Nat /\ {} \in Byte /\ \A n \in 1 .. N : bytes[n] \in Byte
  BY DEF Byte
<1>2. F \in [1 .. N -> [Byte -> Byte]]
  <2>1. \A c \in Byte : Rounds[c] \in Byte
    BY BitsType DEF Rounds
  <2>2. \A n \in 1 .. N : \A r \in Byte : Xor(bytes[n], Rounds[r]) \in Byte
    BY Zenon, <1>1, <2>1, XorType
  <2>. QED BY <2>2
<1>3. \A n \in 1 .. N : \A r \in Byte :
         Reduced(Reduced({e + 8 : e \in r} \cup bytes[n])) = F[n][r]
  <2>1. \A n \in 1 .. N : \A r \in Byte :
           Reduced(Reduced({e + 8 : e \in r} \cup bytes[n])) = Xor(bytes[n], Rounds[r])
    BY Zenon, <1>1, ReducedTwice
  <2>. QED BY <2>1
<1>4. \A n \in 1 .. N : \A r \in Byte : F[n][r] = Xor(bytes[n], Rounds[r])
  OBVIOUS
<1> HIDE DEF F
<1>5. PICK f \in [0 .. N -> Byte] : CountsUp(f, N, {}, F)
  BY Zenon, <1>1, <1>2, UpwardRecursion
<1>6. \A n \in 1 .. N : n - 1 \in 0 .. N /\ n \in 0 .. N /\ n # 0
  BY <1>1
<1>7. Def(f)
  <2>1. \A n \in 0 .. N :
          f[n] = IF n = 0 THEN {} ELSE Reduced(Reduced({e + 8 : e \in f[n - 1]} \cup bytes[n]))
    <3>1. \A n \in 0 .. N : f[n] = IF n = 0 THEN {} ELSE F[n][f[n - 1]]
      BY <1>5 DEF CountsUp
    <3>2. \A n \in 0 .. N : n # 0 => n \in 1 .. N
      BY <1>1
    <3>3. \A n \in 1 .. N : f[n - 1] \in Byte
      BY <1>5, <1>6
    <3>. QED BY Zenon, <1>3, <3>1, <3>2, <3>3
  <2>2. f = [n \in 0 .. Len(bytes) |-> f[n]]
    OBVIOUS
  <2>. QED BY <2>1, <2>2
<1> DEFINE g == CHOOSE h : Def(h)
<1>8. Def(g)
  BY <1>7
<1>9. Remainder(bytes) = g[Len(bytes)]
  BY DEF Remainder
<1> HIDE DEF g
<1>10. \A n \in 0 .. N :
          g[n] = IF n = 0 THEN {} ELSE Reduced(Reduced({e + 8 : e \in g[n - 1]} \cup bytes[n]))
  BY <1>8
<1>11. g[0] = {}
  <2>1. 0 \in 0 .. N
    BY <1>1
  <2>. QED BY Zenon, <1>10, <2>1
<1>12. \A n \in 1 .. N :
          g[n] = Reduced(Reduced({e + 8 : e \in g[n - 1]} \cup bytes[n]))
  BY <1>6, <1>10
<1>13. \A n \in 1 .. N : g[n - 1] \in Byte => g[n] = F[n][g[n - 1]] /\ g[n] \in Byte
  <2>1. SUFFICES ASSUME NEW n \in 1 .. N, g[n - 1] \in Byte
                 PROVE  g[n] = F[n][g[n - 1]] /\ g[n] \in Byte
    OBVIOUS
  <2>2. g[n] = F[n][g[n - 1]]
    BY Zenon, <1>3, <1>12, <2>1
  <2>. QED BY <1>2, <2>1, <2>2
<1>14. \A n \in 0 .. N : g[n] \in Byte
  <2> DEFINE S == {n \in Nat : g[n] \in Byte}
  <2>1. 0 \in S
    BY <1>1, <1>11
  <2>2. ASSUME NEW n \in 0 + 1 .. N, n - 1 \in S PROVE n \in S
    <3>1. n \in 1 .. N /\ n \in Nat
      BY <1>1
    <3>. QED BY <1>13, <2>2, <3>1
  <2>3. S \in SUBSET Nat
    OBVIOUS
  <2> HIDE DEF S
  <2>4. \A n \in 0 .. N : n \in S
    BY <1>1, <2>1, <2>2, <2>3, CountingUp
  <2>. QED BY <2>4 DEF S
<1>15. g \in [0 .. N -> Byte]
  BY <1>8, <1>14
<1>16. \A n \in 1 .. N : g[n] = Xor(bytes[n], Rounds[g[n - 1]])
  BY Zenon, <1>4, <1>6, <1>13, <1>14
<1>. QED BY <1>9, <1>11, <1>15, <1>16

\* The CRC of a message is what is left of it when eight zeros come after it.
LEMMA CrcRemains ==
    ASSUME NEW data \in Seq(Byte)
    PROVE  crc(data) = Remainder(Append(data, {}))
<1> DEFINE N == Len(data)
           more == Append(data, {})
<1>1. {} \in Byte
  BY DEF Byte
<1>2. /\ N \in Nat /\ more \in Seq(Byte) /\ Len(more) = N + 1 /\ more[N + 1] = {}
      /\ \A n \in 1 .. N : more[n] = data[n]
  BY <1>1
<1> HIDE DEF more
<1>3. PICK f : Divides(f, data) /\ crc(data) = f[N]
  BY CrcSteps
<1>4. PICK g : /\ g \in [0 .. Len(more) -> Byte] /\ g[0] = {}
               /\ \A n \in 1 .. Len(more) : g[n] = Xor(more[n], Rounds[g[n - 1]])
               /\ Remainder(more) = g[Len(more)]
  BY <1>2, RemainderSteps
<1> DEFINE S == {n \in Nat : Rounds[g[n]] = f[n]}
<1>5. 0 \in S
  <2>1. Rounds[{}] = {}
    <3>1. crc_division_round({}, {}) = {} /\ Xor({}, {}) = {}
      BY <1>1, RoundZero, XorSelf
    <3>. QED BY <3>1 DEF crc_division_round
  <2>. QED BY <1>3, <1>4, <2>1 DEF Divides, CRC_INIT
<1>6. ASSUME NEW n \in 0 + 1 .. N, n - 1 \in S PROVE n \in S
  <2>1. n \in 1 .. N /\ n \in 1 .. Len(more) /\ n \in Nat
    BY <1>2
  <2>2. g[n] = Xor(data[n], f[n - 1])
    BY <1>2, <1>4, <1>6, <2>1
  <2>3. f[n] = Rounds[Xor(f[n - 1], data[n])]
    BY <1>3, <2>1 DEF Divides, crc_division_round
  <2>4. Xor(data[n], f[n - 1]) = Xor(f[n - 1], data[n])
    BY DEF Xor
  <2>. QED BY <2>1, <2>2, <2>3, <2>4
<1>7. S \in SUBSET Nat /\ N \in 0 .. N
  BY <1>2
<1> HIDE DEF S, N
<1>8. N \in S
  BY <1>2, <1>5, <1>6, <1>7, CountingUp
<1>9. g[N + 1] = Xor({}, Rounds[g[N]])
  <2>1. N + 1 \in 1 .. Len(more) /\ (N + 1) - 1 = N
    BY <1>2
  <2>. QED BY <1>2, <1>4, <2>1
<1>10. Xor({}, Rounds[g[N]]) = f[N]
  BY <1>8, XorSelf DEF S
<1>. QED BY <1>2, <1>3, <1>4, <1>9, <1>10 DEF more
-----------------------------------------------------------------------------

(***************************************************************************)
(* The places of the fields.                                               *)
(***************************************************************************)

\* The fields follow one another.
LEMMA OffsetSteps ==
    /\ \A f \in 0 .. CONFIG_FIELD_COUNT : offsets[f] \in Nat
    /\ \A f \in config_field_t : offsets[f + 1] = offsets[f] + FieldSize[f]
<1> DEFINE C == CONFIG_FIELD_COUNT
           Def(h) == h = [f \in 0 .. CONFIG_FIELD_COUNT |->
                            IF f = 0 THEN 0 ELSE h[f - 1] + FieldSize[f - 1]]
           F == [n \in 1 .. C |-> [c \in Nat |-> c + FieldSize[n - 1]]]
<1>1. C \in Nat /\ \A n \in 1 .. C : n - 1 \in config_field_t /\ n - 1 \in 0 .. C /\ n # 0
  BY ConfigAssumption DEF config_field_t
<1>2. \A f \in config_field_t : /\ FieldSize[f] \in Nat
                                /\ f + 1 \in 0 .. C /\ f + 1 # 0 /\ (f + 1) - 1 = f
  <2>1. \A f \in config_field_t : FieldSize[f] \in Nat
    BY ConfigAssumption
  <2>2. \A f \in config_field_t : f + 1 \in 0 .. C /\ f + 1 # 0 /\ (f + 1) - 1 = f
    BY <1>1 DEF config_field_t
  <2>. QED BY <2>1, <2>2
<1>3. F \in [1 .. C -> [Nat -> Nat]]
  BY <1>1, <1>2
<1>4. \A n \in 1 .. C : \A c \in Nat : F[n][c] = c + FieldSize[n - 1]
  OBVIOUS
<1> HIDE DEF F
<1>5. PICK h \in [0 .. C -> Nat] : CountsUp(h, C, 0, F)
  BY <1>1, <1>3, UpwardRecursion
<1>6. \A n \in 0 .. C : h[n] = IF n = 0 THEN 0 ELSE h[n - 1] + FieldSize[n - 1]
  <2>1. \A n \in 0 .. C : h[n] = IF n = 0 THEN 0 ELSE F[n][h[n - 1]]
    BY <1>5 DEF CountsUp
  <2>2. \A n \in 0 .. C : n # 0 => n \in 1 .. C /\ h[n - 1] \in Nat
    BY <1>1, <1>5
  <2>. QED BY Zenon, <1>4, <2>1, <2>2
<1>7. Def(h)
  <2>1. h = [f \in 0 .. CONFIG_FIELD_COUNT |-> h[f]]
    OBVIOUS
  <2>. QED BY <1>6, <2>1
<1>8. Def(offsets)
  <2>1. offsets = CHOOSE x : Def(x)
    BY DEF offsets
  <2>. QED BY <1>7, <2>1
<1>9. \A n \in 0 .. C : offsets[n] = IF n = 0 THEN 0 ELSE offsets[n - 1] + FieldSize[n - 1]
  BY <1>8
<1>10. \A n \in 0 .. C : offsets[n] \in Nat
  <2> DEFINE S == {n \in Nat : offsets[n] \in Nat}
  <2>1. 0 \in S
    BY <1>1, <1>9
  <2>2. ASSUME NEW n \in 0 + 1 .. C, n - 1 \in S PROVE n \in S
    <3>1. n \in 1 .. C /\ n \in Nat /\ n \in 0 .. C
      BY <1>1
    <3>2. offsets[n] = offsets[n - 1] + FieldSize[n - 1]
      BY <1>1, <1>9, <3>1
    <3>3. FieldSize[n - 1] \in Nat /\ offsets[n - 1] \in Nat
      BY <1>1, <1>2, <2>2, <3>1
    <3>. QED BY <3>1, <3>2, <3>3
  <2>3. S \in SUBSET Nat
    OBVIOUS
  <2> HIDE DEF S
  <2>4. \A n \in 0 .. C : n \in S
    BY <1>1, <2>1, <2>2, <2>3, CountingUp
  <2>. QED BY <2>4 DEF S
<1>11. \A f \in config_field_t : offsets[f + 1] = offsets[f] + FieldSize[f]
  BY <1>2, <1>9
<1>. QED BY <1>10, <1>11

\* One field ends before a later one begins.
LEMMA FieldsInOrder ==
    ASSUME NEW f \in config_field_t, NEW g \in config_field_t, f < g
    PROVE  offsets[f] + FieldSize[f] <= offsets[g]
<1> DEFINE S == {n \in Nat : n <= CONFIG_FIELD_COUNT /\ offsets[f] + FieldSize[f] <= offsets[n]}
<1>1. /\ f \in Nat /\ g \in Nat /\ f + 1 <= g /\ g < CONFIG_FIELD_COUNT
      /\ CONFIG_FIELD_COUNT \in Nat
  BY ConfigAssumption DEF config_field_t
<1>2. offsets[f] \in Nat /\ FieldSize[f] \in Nat
  BY <1>1, ConfigAssumption, OffsetSteps
<1>3. f + 1 \in S
  BY <1>1, <1>2, OffsetSteps
<1>4. ASSUME NEW n \in (f + 1) + 1 .. g, n - 1 \in S PROVE n \in S
  <2>1. n \in Nat /\ n <= CONFIG_FIELD_COUNT /\ n - 1 \in config_field_t /\ (n - 1) + 1 = n
        /\ n - 1 \in 0 .. CONFIG_FIELD_COUNT
    BY <1>1 DEF config_field_t
  <2>2. offsets[n] = offsets[n - 1] + FieldSize[n - 1]
    BY <2>1, OffsetSteps
  <2>3. offsets[n - 1] \in Nat /\ FieldSize[n - 1] \in Nat
    BY <2>1, OffsetSteps, ConfigAssumption
  <2>. QED BY <1>2, <1>4, <2>1, <2>2, <2>3
<1>5. S \in SUBSET Nat /\ g \in f + 1 .. g /\ f + 1 \in Nat
  BY <1>1
<1> HIDE DEF S
<1>6. g \in S
  BY <1>1, <1>3, <1>4, <1>5, CountingUp
<1>. QED BY <1>6 DEF S

\* The bytes of a field, counted from its own first one
LEMMA PlaceOf ==
    ASSUME NEW f \in config_field_t
    PROVE  /\ offsets[f] \in Nat /\ FieldSize[f] \in {1, 2, 4}
           /\ \A i \in 1 .. FieldSize[f] : /\ offsets[f] + i - 1 \in Place(f)
                                           /\ (offsets[f] + i - 1) - offsets[f] + 1 = i
           /\ \A o \in Place(f) : o - offsets[f] + 1 \in 1 .. FieldSize[f]
           /\ Place(f) \subseteq Offsets
<1>1. f \in 0 .. CONFIG_FIELD_COUNT
  BY ConfigAssumption DEF config_field_t
<1>2. offsets[f] \in Nat /\ FieldSize[f] \in {1, 2, 4}
  BY <1>1, OffsetSteps, ConfigAssumption
<1>3. Place(f) = offsets[f] .. offsets[f] + FieldSize[f] - 1
  BY DEF Place, config_get_offset, config_get_size
<1>4. Place(f) \subseteq Offsets
  BY DEF Offsets
<1>5. \A i \in 1 .. FieldSize[f] : /\ offsets[f] + i - 1 \in Place(f)
                                   /\ (offsets[f] + i - 1) - offsets[f] + 1 = i
  BY <1>2, <1>3
<1>6. \A o \in Place(f) : o - offsets[f] + 1 \in 1 .. FieldSize[f]
  BY <1>2, <1>3
<1>. QED BY <1>2, <1>4, <1>5, <1>6

\* No byte belongs to two fields.
LEMMA PlacesApart ==
    ASSUME NEW f \in config_field_t, NEW g \in config_field_t, f # g
    PROVE  Place(f) \cap Place(g) = {}
<1>1. offsets[f] \in Nat /\ offsets[g] \in Nat /\ FieldSize[f] \in Nat /\ FieldSize[g] \in Nat
  BY PlaceOf
<1>2. /\ Place(f) = offsets[f] .. offsets[f] + FieldSize[f] - 1
      /\ Place(g) = offsets[g] .. offsets[g] + FieldSize[g] - 1
  BY DEF Place, config_get_offset, config_get_size
<1>3. offsets[f] + FieldSize[f] <= offsets[g] \/ offsets[g] + FieldSize[g] <= offsets[f]
  <2>1. f < g \/ g < f
    BY ConfigAssumption DEF config_field_t
  <2>. QED BY <2>1, FieldsInOrder
<1>. QED BY SMTT(20), <1>1, <1>2, <1>3

\* The bytes of a field, in a copy of the configuration
LEMMA GetType ==
    ASSUME NEW f \in config_field_t, NEW bytes \in [Offsets -> Byte]
    PROVE  config_get(bytes, f) \in Seq(Byte) /\ Len(config_get(bytes, f)) = FieldSize[f]
<1>1. FieldSize[f] \in Nat /\ \A i \in 1 .. FieldSize[f] : bytes[offsets[f] + i - 1] \in Byte
  BY PlaceOf
<1>2. config_get(bytes, f) = [i \in 1 .. FieldSize[f] |-> bytes[offsets[f] + i - 1]]
  BY DEF config_get, config_get_size, config_get_offset
<1>. QED BY <1>1, <1>2

\* Copies that agree on the bytes of a field agree on its value.
LEMMA GetSame ==
    ASSUME NEW f \in config_field_t, NEW a, NEW b, \A o \in Place(f) : a[o] = b[o]
    PROVE  config_get(a, f) = config_get(b, f)
<1>1. \A i \in 1 .. FieldSize[f] : a[offsets[f] + i - 1] = b[offsets[f] + i - 1]
  BY PlaceOf
<1>. QED BY <1>1 DEF config_get, config_get_size, config_get_offset

\* config_set writes the field, and no other.
LEMMA SetGet ==
    ASSUME NEW field \in config_field_t, NEW value \in Seq(Byte), Len(value) = FieldSize[field],
           config \in [Offsets -> Byte], config_set(field, value)
    PROVE  /\ config' \in [Offsets -> Byte]
           /\ config_get(config', field) = value
           /\ \A f \in config_field_t \ {field} :
                 config_get(config', f) = config_get(config, f)
<1>1. config' = [o \in Offsets |->
                   IF o \in Place(field) THEN value[o - offsets[field] + 1] ELSE config[o]]
  BY DEF config_set, config_get_offset
<1>2. \A o \in Place(field) : /\ o \in Offsets /\ o - offsets[field] + 1 \in 1 .. Len(value)
                              /\ config'[o] = value[o - offsets[field] + 1]
  BY <1>1, PlaceOf
<1>3. config' \in [Offsets -> Byte]
  <2>1. \A i \in 1 .. Len(value) : value[i] \in Byte
    OBVIOUS
  <2>2. \A o \in Offsets : config'[o] \in Byte
    BY <1>1, <1>2, <2>1
  <2>. QED BY <1>1, <2>2
<1>4. config_get(config', field) = value
  <2>1. config_get(config', field) = [i \in 1 .. FieldSize[field] |-> config'[offsets[field] + i - 1]]
    BY DEF config_get, config_get_size, config_get_offset
  <2>2. \A i \in 1 .. FieldSize[field] : config'[offsets[field] + i - 1] = value[i]
    BY <1>2, PlaceOf
  <2>3. value = [i \in 1 .. FieldSize[field] |-> value[i]]
    OBVIOUS
  <2>. QED BY Zenon, <2>1, <2>2, <2>3
<1>5. ASSUME NEW f \in config_field_t \ {field}
      PROVE  config_get(config', f) = config_get(config, f)
  <2>1. \A o \in Place(f) : o \in Offsets /\ o \notin Place(field)
    BY PlaceOf, PlacesApart
  <2>2. \A o \in Place(f) : config'[o] = config[o]
    BY <1>1, <2>1
  <2>. QED BY <2>2, GetSame
<1>. QED BY <1>3, <1>4, <1>5

\* The image holds the defaults.
LEMMA ImageGet ==
    /\ Image \in [Offsets -> Byte]
    /\ \A f \in config_field_t : Value(config_get(Image, f)) = FieldDefault[f]
<1>1. ASSUME NEW f \in config_field_t, NEW o \in Place(f)
      PROVE  /\ o \in Offsets
             /\ Image[o] = Bytes(FieldDefault[f], FieldSize[f])[o - offsets[f] + 1]
  <2>1. o \in Offsets
    BY <1>1, PlaceOf
  <2>2. (CHOOSE g \in config_field_t : o \in Place(g)) = f
    BY <1>1, PlacesApart
  <2>3. Image[o] = LET g == CHOOSE g \in config_field_t : o \in Place(g)
                   IN  Bytes(FieldDefault[g], FieldSize[g])[o - config_get_offset(g) + 1]
    BY Zenon, <2>1 DEF Image
  <2>. QED BY <2>1, <2>2, <2>3 DEF config_get_offset
<1>2. Image \in [Offsets -> Byte]
  <2>1. ASSUME NEW o \in Offsets PROVE Image[o] \in Byte
    <3>1. PICK f \in config_field_t : o \in Place(f)
      BY DEF Offsets
    <3>2. o - offsets[f] + 1 \in 1 .. FieldSize[f] /\ FieldSize[f] \in {1, 2, 4}
      BY <3>1, PlaceOf
    <3>3. /\ Bytes(FieldDefault[f], FieldSize[f]) \in Seq(Byte)
          /\ Len(Bytes(FieldDefault[f], FieldSize[f])) = FieldSize[f]
      BY <3>2, BytesType
    <3>. QED BY <1>1, <3>1, <3>2, <3>3
  <2>2. Image = [o \in Offsets |-> Image[o]]
    BY DEF Image
  <2>. QED BY <2>1, <2>2
<1>3. ASSUME NEW f \in config_field_t
      PROVE  Value(config_get(Image, f)) = FieldDefault[f]
  <2> DEFINE bytes == Bytes(FieldDefault[f], FieldSize[f])
  <2>1. bytes \in Seq(Byte) /\ Len(bytes) = FieldSize[f]
    BY PlaceOf, BytesType
  <2>2. Value(bytes) = FieldDefault[f]
    <3>1. FieldDefault[f] \in Nat /\ FieldDefault[f] < 256^FieldSize[f]
          /\ FieldSize[f] \in {1, 2, 4}
      BY ConfigAssumption
    <3>2. Value(bytes) = FieldDefault[f] % 256^FieldSize[f]
      BY ZenonT(30), <3>1, ValueBytes
    <3>3. 256^1 = 256 /\ 256^2 = 65536 /\ 256^4 = 4294967296
      BY SMT
    <3> HIDE DEF bytes
    <3>4. FieldDefault[f] % 256^FieldSize[f] = FieldDefault[f]
      BY SMT, <3>1, <3>3
    <3>. QED BY <3>2, <3>4
  <2> HIDE DEF bytes
  <2>3. config_get(Image, f) = [i \in 1 .. FieldSize[f] |-> Image[offsets[f] + i - 1]]
    BY DEF config_get, config_get_size, config_get_offset
  <2>4. \A i \in 1 .. FieldSize[f] : Image[offsets[f] + i - 1] = bytes[i]
    BY <1>1, PlaceOf DEF bytes
  <2>5. bytes = [i \in 1 .. FieldSize[f] |-> bytes[i]]
    BY <2>1
  <2>6. config_get(Image, f) = bytes
    BY Zenon, <2>3, <2>4, <2>5
  <2>. QED BY <2>2, <2>6
<1>. QED BY <1>2, <1>3
-----------------------------------------------------------------------------

(***************************************************************************)
(* What the commands and their answers carry.                              *)
(***************************************************************************)

\* The requests, one kind after the other
LEMMA RequestKinds ==
    ASSUME NEW r \in Requests
    PROVE  \/ r.cmd = CMD_CONFIG_GET_FIELD /\ r.field \in config_field_t
           \/ r.cmd = CMD_CONFIG_SET_FIELD /\ r.field \in config_field_t /\ r.value \in Nat
           \/ r.cmd \in {CMD_SET_RESOLUTION, CMD_SET_INTERVAL} /\ r.value \in Nat
           \/ r.cmd = CMD_ECHO /\ r.length \in Nat
           \/ r.cmd = CMD_TEMPERATURES_DOWNLOAD
<1>1. Arguments \subseteq Nat /\ Lengths \subseteq Nat
  BY RemoteAssumption
<1>2. CASE r \in [cmd : {CMD_CONFIG_GET_FIELD}, field : config_field_t]
  BY <1>2
<1>3. CASE r \in [cmd : {CMD_CONFIG_SET_FIELD}, field : config_field_t, value : Arguments]
  BY <1>1, <1>3
<1>4. CASE r \in [cmd : {CMD_SET_RESOLUTION, CMD_SET_INTERVAL}, value : Arguments]
  BY <1>1, <1>4
<1>5. CASE r \in [cmd : {CMD_ECHO}, length : Lengths]
  BY <1>1, <1>5
<1>6. CASE r \in [cmd : {CMD_TEMPERATURES_DOWNLOAD}]
  BY <1>6
<1>. QED BY <1>2, <1>3, <1>4, <1>5, <1>6 DEF Requests

LEMMA CommandIds ==
    /\ CMD_CONFIG_GET_FIELD = 0 /\ CMD_CONFIG_SET_FIELD = 1 /\ CMD_TEMPERATURES_DOWNLOAD = 2
    /\ CMD_SET_RESOLUTION = 4 /\ CMD_SET_INTERVAL = 5 /\ CMD_ECHO = 8
BY DEF CMD_CONFIG_GET_FIELD, CMD_CONFIG_SET_FIELD, CMD_TEMPERATURES_DOWNLOAD,
       CMD_SET_RESOLUTION, CMD_SET_INTERVAL, CMD_ECHO

LEMMA ArgumentOf ==
    ASSUME NEW r
    PROVE  /\ r.cmd = CMD_CONFIG_GET_FIELD => Argument(r) = <<Bits(r.field)>>
           /\ r.cmd = CMD_CONFIG_SET_FIELD =>
                 Argument(r) = <<Bits(r.field)>> \o Bytes(r.value, FieldSize[r.field])
           /\ r.cmd \in {CMD_SET_RESOLUTION, CMD_SET_INTERVAL} =>
                 Argument(r) = Bytes(r.value, 2)
           /\ r.cmd = CMD_ECHO => Argument(r) = Append(Text(r.length), NUL)
           /\ r.cmd = CMD_TEMPERATURES_DOWNLOAD => Argument(r) = <<>>
BY CommandIds DEF Argument, config_get_size, NoData

\* The string to echo, and its end
LEMMA TextType ==
    ASSUME NEW n \in Nat
    PROVE  /\ Text(n) \in Seq(Byte) /\ Len(Text(n)) = n
           /\ Append(Text(n), NUL) \in Seq(Byte)
<1>1. \A i : Bits(i) \in Byte
  BY BitsType
<1>2. NUL \in Byte
  BY DEF NUL, Byte
<1>3. Text(n) \in Seq(Byte) /\ Len(Text(n)) = n
  BY <1>1 DEF Text
<1>. QED BY <1>2, <1>3

LEMMA ArgumentType ==
    ASSUME NEW r \in Requests
    PROVE  Argument(r) \in Seq(Byte)
<1>1. CASE r.cmd = CMD_CONFIG_GET_FIELD
  <2>1. <<Bits(r.field)>> \in Seq(Byte)
    BY BitsType
  <2>2. Argument(r) = <<Bits(r.field)>>
    BY <1>1, ArgumentOf
  <2>. QED BY Zenon, <2>1, <2>2
<1>2. CASE r.cmd = CMD_CONFIG_SET_FIELD
  <2>1. FieldSize[r.field] \in {1, 2, 4}
    BY <1>2, RequestKinds, CommandIds, PlaceOf
  <2>2. <<Bits(r.field)>> \in Seq(Byte)
    BY BitsType
  <2>3. Bytes(r.value, FieldSize[r.field]) \in Seq(Byte)
    BY <2>1, BytesType
  <2>4. <<Bits(r.field)>> \o Bytes(r.value, FieldSize[r.field]) \in Seq(Byte)
    BY Zenon, <2>2, <2>3, ConcatProperties
  <2>. QED BY <1>2, <2>4, ArgumentOf
<1>3. CASE r.cmd \in {CMD_SET_RESOLUTION, CMD_SET_INTERVAL}
  <2>1. Bytes(r.value, 2) \in Seq(Byte)
    BY BytesType
  <2>. QED BY <1>3, <2>1, ArgumentOf
<1>4. CASE r.cmd = CMD_ECHO
  <2>1. r.length \in Nat
    BY <1>4, RequestKinds, CommandIds
  <2>2. Append(Text(r.length), NUL) \in Seq(Byte)
    BY <2>1, TextType
  <2>. QED BY <1>4, <2>2, ArgumentOf
<1>5. CASE r.cmd = CMD_TEMPERATURES_DOWNLOAD
  <2>1. Argument(r) = <<>>
    BY <1>5, ArgumentOf
  <2>2. <<>> \in Seq(Byte)
    OBVIOUS
  <2>. QED BY Zenon, <2>1, <2>2
<1>6. \/ r.cmd = CMD_CONFIG_GET_FIELD \/ r.cmd = CMD_CONFIG_SET_FIELD
      \/ r.cmd \in {CMD_SET_RESOLUTION, CMD_SET_INTERVAL}
      \/ r.cmd = CMD_ECHO \/ r.cmd = CMD_TEMPERATURES_DOWNLOAD
  BY RequestKinds
<1>. QED BY <1>1, <1>2, <1>3, <1>4, <1>5, <1>6

\* The tmon reads in a packet the command and the argument that the user gave.
LEMMA CommandReads ==
    ASSUME NEW r \in Requests, IsSent(r), NEW id \in 0 .. 15, NEW p,
           p = packet_craft(id, CMD, <<Bits(r.cmd)>> \o Argument(r))
    PROVE  /\ Whole(p)
           /\ Num(Data(p)[1]) = r.cmd
           /\ Tail(Data(p)) = Argument(r)
<1> DEFINE data == <<Bits(r.cmd)>> \o Argument(r)
<1>1. Argument(r) \in Seq(Byte) /\ Len(Argument(r)) <= 27
  <2>1. Len(Argument(r)) <= PACKET_DATA_MAX_SIZE - SIZEOF_COMMAND_ID
    BY DEF IsSent, Fits
  <2>2. PACKET_DATA_MAX_SIZE - SIZEOF_COMMAND_ID = 27
    BY DEF PACKET_DATA_MAX_SIZE, SIZEOF_COMMAND_ID
  <2>3. Argument(r) \in Seq(Byte)
    BY ArgumentType
  <2>. QED BY <2>1, <2>2, <2>3
<1>2. Bits(r.cmd) \in Byte
  BY BitsType
<1>3. data \in Seq(Byte)
  <2>1. <<Bits(r.cmd)>> \in Seq(Byte)
    BY <1>2
  <2>. QED BY Zenon, <1>1, <2>1, ConcatProperties
<1>4. /\ Len(data) = 1 + Len(Argument(r)) /\ data[1] = Bits(r.cmd)
      /\ Tail(data) = Argument(r)
  BY <1>1
<1> HIDE DEF data
<1>5. Len(data) <= PACKET_DATA_MAX_SIZE
  <2>1. Len(data) <= 28
    BY <1>1, <1>4
  <2>. QED BY <2>1 DEF PACKET_DATA_MAX_SIZE
<1>6. p = packet_craft(id, CMD, data)
  BY DEF data
<1>7. Reads(packet_craft(id, CMD, data), id, CMD, data)
  BY <1>3, <1>5, Crafted
<1>8. Data(p) = data
  BY <1>6, <1>7 DEF Reads
<1>9. Whole(p)
  BY <1>3, <1>5, <1>6, CraftedWhole
<1>10. Num(data[1]) = r.cmd
  <2>1. r.cmd \in 0 .. 255
    BY RequestKinds, CommandIds
  <2>. QED BY ZenonT(30), <1>4, <2>1, NumBits
<1>. QED BY <1>4, <1>8, <1>9, <1>10

\* cmd_echo finds the end of the string.
LEMMA EchoReads ==
    ASSUME NEW n \in Nat, n < 26
    PROVE  LET arg == Append(Text(n), NUL) IN
           SubSeq(arg, 1, SelectInSeq(arg, LAMBDA c : c = NUL) - 1) = Text(n)
<1> DEFINE arg == Append(Text(n), NUL)
           I == {i \in 1 .. Len(arg) : arg[i] = NUL}
<1>1. Text(n) \in Seq(Byte) /\ Len(Text(n)) = n
  BY TextType
<1>2. /\ Len(arg) = n + 1 /\ arg[n + 1] = NUL
      /\ \A i \in 1 .. n : arg[i] = Text(n)[i]
  BY <1>1
<1>3. \A i \in 1 .. n : Text(n)[i] # NUL
  <2>1. SUFFICES ASSUME NEW i \in 1 .. n PROVE Text(n)[i] # NUL
    OBVIOUS
  <2>2. 96 + i \in 0 .. 255 /\ 96 + i # 0
    OBVIOUS
  <2>3. Num(Bits(96 + i)) = 96 + i
    BY <2>2, NumBits
  <2>4. Num({}) = 0
    BY DEF Num
  <2>. QED BY <2>2, <2>3, <2>4 DEF Text, NUL
<1>4. SubSeq(arg, 1, n) = Text(n)
  BY <1>1, <1>2
<1> HIDE DEF arg
<1>5. I = {n + 1}
  BY <1>2, <1>3
<1>6. SelectInSeq(arg, LAMBDA c : c = NUL) = IF I # {} THEN Min(I) ELSE 0
  BY DEF SelectInSeq
<1> HIDE DEF I
<1>7. Min(I) = n + 1
  BY <1>5 DEF Min
<1>8. SelectInSeq(arg, LAMBDA c : c = NUL) - 1 = n
  BY <1>5, <1>6, <1>7
<1>. QED BY <1>4, <1>8 DEF arg

\* The parts of two sequences that were put together
LEMMA HeadOfTwo ==
    ASSUME NEW s \in Seq(Byte), NEW t \in Seq(Byte), NEW m \in Nat \ {0}, NEW n \in Nat,
           n <= Len(s)
    PROVE  SubSeq(s \o t, m, n) = SubSeq(s, m, n)
<1>1. s \o t \in Seq(Byte) /\ Len(s \o t) = Len(s) + Len(t)
  BY Zenon, ConcatProperties
<1>2. \A i \in m .. n : (s \o t)[i] = s[i]
  OBVIOUS
<1> DEFINE u == s \o t
<1>3. u \in Seq(Byte) /\ Len(u) = Len(s) + Len(t) /\ \A i \in m .. n : u[i] = s[i]
  BY <1>1, <1>2
<1> HIDE DEF u
<1>4. SubSeq(u, m, n) = SubSeq(s, m, n)
  BY SMTT(20), <1>3
<1>. QED BY <1>4 DEF u

LEMMA TailOfTwo ==
    ASSUME NEW s \in Seq(Byte), NEW t \in Seq(Byte)
    PROVE  SubSeq(s \o t, Len(s) + 1, Len(s) + Len(t)) = t
<1>1. s \o t \in Seq(Byte) /\ Len(s \o t) = Len(s) + Len(t)
  BY Zenon, ConcatProperties
<1>2. \A i \in 1 .. Len(t) : (s \o t)[Len(s) + i] = t[i]
  OBVIOUS
<1> DEFINE u == s \o t
           v == SubSeq(u, Len(s) + 1, Len(s) + Len(t))
<1>3. u \in Seq(Byte) /\ Len(u) = Len(s) + Len(t)
      /\ \A i \in 1 .. Len(t) : u[Len(s) + i] = t[i]
  BY <1>1, <1>2
<1> HIDE DEF u
<1>4. v \in Seq(Byte) /\ Len(v) = Len(t) /\ \A i \in 1 .. Len(t) : v[i] = u[Len(s) + i]
  BY <1>3
<1> HIDE DEF v
<1>5. v = t
  BY SMTT(20), <1>3, <1>4
<1>. QED BY <1>5 DEF v, u

\* The records that the last database goes through
DbType == [id : 0 .. 255, count : UInt16, reg_resolution : UInt16, reg_interval : UInt16]

\* temperature_db_info_extract undoes temperature_db_info_pack.
LEMMA InfoReads ==
    ASSUME NEW info \in DbType
    PROVE  LET data == temperature_db_info_pack(info) IN
           /\ data \in Seq(Byte) /\ Len(data) = 7
           /\ temperature_db_info_extract(data) = info
<1> DEFINE data == temperature_db_info_pack(info)
           a == Bytes(info.count, 2)
           b == Bytes(info.reg_resolution, 2)
           c == Bytes(info.reg_interval, 2)
           d == Bytes(info.id, 1)
<1>1. /\ info.count \in UInt16 /\ info.reg_resolution \in UInt16
      /\ info.reg_interval \in UInt16 /\ info.id \in 0 .. 255
      /\ info = [id |-> info.id, count |-> info.count,
                 reg_resolution |-> info.reg_resolution, reg_interval |-> info.reg_interval]
  BY DEF DbType
<1>2. Value(a) = info.count /\ Value(b) = info.reg_resolution /\ Value(c) = info.reg_interval
      /\ Value(d) = info.id
  BY <1>1, ValueOfUInt16, ValueOfByte
<1>3. /\ a \in Seq(Byte) /\ Len(a) = 2 /\ b \in Seq(Byte) /\ Len(b) = 2
      /\ c \in Seq(Byte) /\ Len(c) = 2 /\ d \in Seq(Byte) /\ Len(d) = 1
  BY BytesType
<1>4. data = ((a \o b) \o c) \o d
  BY DEF temperature_db_info_pack
<1> HIDE DEF a, b, c, d
<1>5. PICK ab, abc, u : ab = a \o b /\ abc = ab \o c /\ u = abc \o d
  OBVIOUS
<1>6. data = u
  BY <1>4, <1>5
<1>7. /\ ab \in Seq(Byte) /\ Len(ab) = 4
      /\ SubSeq(ab, 1, 2) = a /\ SubSeq(ab, 3, 4) = b
  <2>1. ab \in Seq(Byte) /\ Len(ab) = Len(a) + Len(b)
    BY Zenon, <1>3, <1>5, ConcatProperties
  <2>2. SubSeq(ab, Len(a) + 1, Len(a) + Len(b)) = b
    BY Zenon, <1>3, <1>5, TailOfTwo
  <2>3. SubSeq(ab, 1, 2) = SubSeq(a, 1, 2)
    BY SMTT(20), <1>3, <1>5, HeadOfTwo
  <2>4. SubSeq(a, 1, Len(a)) = a
    BY Zenon, <1>3, WholeSequence
  <2>5. Len(a) + 1 = 3 /\ Len(a) + Len(b) = 4
    BY <1>3
  <2>. QED BY Zenon, <1>3, <2>1, <2>2, <2>3, <2>4, <2>5
<1>8. /\ abc \in Seq(Byte) /\ Len(abc) = 6 /\ SubSeq(abc, 5, 6) = c
      /\ SubSeq(abc, 1, 2) = a /\ SubSeq(abc, 3, 4) = b
  <2>1. abc \in Seq(Byte) /\ Len(abc) = Len(ab) + Len(c)
    BY Zenon, <1>3, <1>5, <1>7, ConcatProperties
  <2>2. SubSeq(abc, Len(ab) + 1, Len(ab) + Len(c)) = c
    BY Zenon, <1>3, <1>5, <1>7, TailOfTwo
  <2>3. SubSeq(abc, 1, 2) = SubSeq(ab, 1, 2)
    BY <1>3, <1>5, <1>7, HeadOfTwo
  <2>4. SubSeq(abc, 3, 4) = SubSeq(ab, 3, 4)
    BY <1>3, <1>5, <1>7, HeadOfTwo
  <2>5. Len(ab) + 1 = 5 /\ Len(ab) + Len(c) = 6
    BY <1>3, <1>7
  <2>. QED BY Zenon, <1>7, <2>1, <2>2, <2>3, <2>4, <2>5
<1>9. /\ u \in Seq(Byte) /\ Len(u) = 7 /\ SubSeq(u, 7, 7) = d /\ SubSeq(u, 5, 6) = c
      /\ SubSeq(u, 1, 2) = a /\ SubSeq(u, 3, 4) = b
  <2>1. u \in Seq(Byte) /\ Len(u) = Len(abc) + Len(d)
    BY Zenon, <1>3, <1>5, <1>8, ConcatProperties
  <2>2. SubSeq(u, Len(abc) + 1, Len(abc) + Len(d)) = d
    BY Zenon, <1>3, <1>5, <1>8, TailOfTwo
  <2>3. SubSeq(u, 1, 2) = SubSeq(abc, 1, 2)
    BY <1>3, <1>5, <1>8, HeadOfTwo
  <2>4. SubSeq(u, 3, 4) = SubSeq(abc, 3, 4)
    BY <1>3, <1>5, <1>8, HeadOfTwo
  <2>5. SubSeq(u, 5, 6) = SubSeq(abc, 5, 6)
    BY <1>3, <1>5, <1>8, HeadOfTwo
  <2>6. Len(abc) + 1 = 7 /\ Len(abc) + Len(d) = 7
    BY <1>3, <1>8
  <2>. QED BY Zenon, <1>8, <2>1, <2>2, <2>3, <2>4, <2>5, <2>6
<1> HIDE DEF data
<1>10. data \in Seq(Byte) /\ Len(data) = 7
  BY <1>6, <1>9
<1>11. SubSeq(data, 1, 2) = a /\ SubSeq(data, 3, 4) = b /\ SubSeq(data, 5, 6) = c
       /\ SubSeq(data, 7, 7) = d
  BY <1>6, <1>9
<1>12. temperature_db_info_extract(data) =
         [count |-> Value(a), reg_resolution |-> Value(b), reg_interval |-> Value(c),
          id |-> Value(d)]
  BY <1>11 DEF temperature_db_info_extract
<1>13. temperature_db_info_extract(data) = info
  BY <1>1, <1>2, <1>12
<1>. QED BY <1>10, <1>13 DEF data
-----------------------------------------------------------------------------

(***************************************************************************)
(* The inductive invariant.                                                *)
(***************************************************************************)

\* While the shell waits, its request is one that it sends, and nothing is shown.
RequestSent == busy => request \in Requests /\ IsSent(request) /\ shown = None

\* The packet on its way to the tmon is the one of the request ...
LineCarries == line # <<>> => busy /\ answer = <<>> /\ line = communication_cmd(request)

Reply(type, data, value) ==
    /\ answer = packet_craft(NextId(1), type, data)
    /\ held = value

\* ... and the packet on its way back carries what the tmon held.
AnswerCarries ==
    answer # <<>> =>
      /\ busy
      /\ \/ /\ request.cmd = CMD_CONFIG_GET_FIELD
            /\ \E data \in Seq(Byte) : /\ Len(data) \in {1, 2, 4}
                                       /\ Reply(DAT, data, [number |-> Value(data)])
         \/ /\ request.cmd = CMD_ECHO
            /\ Reply(DAT, Text(request.length), [text |-> Text(request.length)])
         \/ /\ request.cmd = CMD_TEMPERATURES_DOWNLOAD
            /\ Reply(CTR, NoData, NoMore)
         \/ /\ request.cmd = CMD_TEMPERATURES_DOWNLOAD
            /\ \E info \in DbType : Reply(CTR, temperature_db_info_pack(info), info)

\* Each field that no cut spoiled has the value that it was last set to.
FieldsHeld ==
    /\ set = [f \in config_field_t |-> set[f]]
    /\ \A f \in config_field_t \ spoiled : Value(config_get(config, f)) = set[f]

Bounds ==
    /\ config \in [Offsets -> Byte] /\ nvm \in [Offsets -> Byte] /\ saving \subseteq Offsets
    /\ busy \in BOOLEAN /\ packet_global_id \in 0 .. 15
    /\ timer_resolution \in UInt16 /\ timer_interval \in UInt16
    /\ db \in DbType
    /\ spoiled \subseteq config_field_t
    /\ commands \in 0 .. MaxCommands /\ cuts \in 0 .. MaxCuts

RemoteInv ==
    /\ Bounds /\ RequestSent /\ LineCarries /\ AnswerCarries
    /\ ShownIsHeld /\ FieldsHeld /\ SavedBytes

LEMMA InitHolds == Init => RemoteInv
<1> SUFFICES ASSUME Init PROVE RemoteInv
  OBVIOUS
<1>1. config = Image /\ nvm = Image /\ saving = {} /\ set = FieldDefault /\ spoiled = {}
  BY DEF Init, ConfigInit
<1>2. \A f \in {RESOLUTION, INTERVAL} : FieldDefault[f] \in UInt16
  <2> SUFFICES ASSUME NEW f \in {RESOLUTION, INTERVAL} PROVE FieldDefault[f] \in UInt16
    OBVIOUS
  <2>1. f \in config_field_t /\ FieldSize[f] = 2
    BY SettingsAssumption
  <2>2. FieldDefault[f] \in Nat /\ FieldDefault[f] < 256^2
    BY <2>1, ConfigAssumption
  <2>3. 256^2 = 65536
    BY SMT
  <2>. QED BY SMT, <2>2, <2>3, UInt16Range
<1>3. Bounds
  <2>1. config \in [Offsets -> Byte] /\ nvm \in [Offsets -> Byte] /\ saving \subseteq Offsets
    BY <1>1, ImageGet
  <2>2. timer_resolution \in UInt16 /\ timer_interval \in UInt16
    BY <1>2 DEF Init
  <2>3. db \in DbType
    <3>1. 0 \in UInt16
      BY SMT, UInt16Range
    <3>2. db = [id |-> 0, count |-> 0, reg_resolution |-> 0, reg_interval |-> 0]
      BY DEF Init
    <3>. QED BY <3>1, <3>2 DEF DbType
  <2>4. commands \in 0 .. MaxCommands /\ cuts \in 0 .. MaxCuts
    <3>1. MaxCommands \in Nat /\ MaxCuts \in Nat
      BY RemoteAssumption
    <3>. QED BY <3>1 DEF Init
  <2>5. busy \in BOOLEAN /\ packet_global_id \in 0 .. 15 /\ spoiled \subseteq config_field_t
    <3>1. packet_global_id \in 0 .. 15
      BY DEF Init
    <3>2. busy \in BOOLEAN /\ spoiled \subseteq config_field_t
      BY DEF Init
    <3>. QED BY <3>1, <3>2
  <2>. QED BY <2>1, <2>2, <2>3, <2>4, <2>5 DEF Bounds
<1>4. RequestSent /\ LineCarries /\ AnswerCarries /\ ShownIsHeld
  BY DEF Init, RequestSent, LineCarries, AnswerCarries, ShownIsHeld
<1>5. FieldsHeld
  <2>1. set = [f \in config_field_t |-> set[f]]
    BY <1>1, ConfigAssumption
  <2>2. \A f \in config_field_t : Value(config_get(config, f)) = set[f]
    BY <1>1, ImageGet
  <2>. QED BY <2>1, <2>2 DEF FieldsHeld
<1>. QED BY <1>3, <1>4, <1>5, InitSaved DEF RemoteInv

\* What the tmon takes is what the user asked for.
LEMMA LineReads ==
    ASSUME RemoteInv, line # <<>>
    PROVE  /\ Whole(line)
           /\ Num(Payload[1]) = request.cmd
           /\ Arg = Argument(request)
           /\ busy /\ answer = <<>> /\ request \in Requests /\ IsSent(request)
<1>1. busy /\ answer = <<>> /\ line = communication_cmd(request)
  BY DEF RemoteInv, LineCarries
<1>2. request \in Requests /\ IsSent(request) /\ packet_global_id \in 0 .. 15
  BY <1>1 DEF RemoteInv, RequestSent, Bounds
<1>3. line = packet_craft(packet_global_id, CMD, <<Bits(request.cmd)>> \o Argument(request))
  BY <1>1 DEF communication_cmd
<1>4. Whole(line) /\ Num(Data(line)[1]) = request.cmd /\ Tail(Data(line)) = Argument(request)
  BY <1>2, <1>3, CommandReads
<1>. QED BY <1>1, <1>2, <1>4 DEF Payload, Arg

LEMMA ExecutesRequest ==
    ASSUME RemoteInv, NEW cmd, Executes(cmd)
    PROVE  /\ request.cmd = cmd /\ Arg = Argument(request)
           /\ busy /\ answer = <<>> /\ request \in Requests /\ IsSent(request)
           /\ saving = {} /\ line' = <<>>
           /\ UNCHANGED <<request, busy, packet_global_id, shown, db, commands, cuts>>
<1>1. line # <<>> /\ saving = {} /\ Num(Payload[1]) = cmd /\ line' = <<>>
      /\ UNCHANGED <<request, busy, packet_global_id, shown, db, commands, cuts>>
  BY DEF Executes
<1>. QED BY <1>1, LineReads

LEMMA NextIdType == ASSUME NEW n \in Nat, packet_global_id \in 0 .. 15 PROVE NextId(n) \in 0 .. 15
BY DEF NextId

\* The data of an answer
LEMMA AnswerReads ==
    ASSUME RemoteInv, answer # <<>>
    PROVE  /\ Whole(answer) /\ busy
           /\ Reading(request, answer) = held
<1>1. NextId(1) \in 0 .. 15
  BY NextIdType DEF RemoteInv, Bounds
<1>2. \A type \in {CMD, CTR, DAT} : \A data \in Seq(Byte) :
         /\ answer = packet_craft(NextId(1), type, data)
         /\ Len(data) <= PACKET_DATA_MAX_SIZE
         => /\ Whole(answer) /\ packet_get_type(answer) = type
            /\ packet_data_size(answer) = Len(data) /\ Data(answer) = data
  <2> SUFFICES ASSUME NEW type \in {CMD, CTR, DAT}, NEW data \in Seq(Byte),
                      answer = packet_craft(NextId(1), type, data),
                      Len(data) <= PACKET_DATA_MAX_SIZE
               PROVE  /\ Whole(answer) /\ packet_get_type(answer) = type
                      /\ packet_data_size(answer) = Len(data) /\ Data(answer) = data
    OBVIOUS
  <2>1. Reads(answer, NextId(1), type, data)
    BY <1>1, Crafted
  <2>2. Whole(answer)
    BY <1>1, CraftedWhole
  <2>. QED BY <2>1, <2>2 DEF Reads
<1>3. CMD # CTR /\ CTR # DAT /\ CMD # DAT /\ PACKET_DATA_MAX_SIZE = 28
  BY DEF CMD, CTR, DAT, PACKET_DATA_MAX_SIZE
<1>4. busy
  BY DEF RemoteInv, AnswerCarries
<1>5. CASE request.cmd = CMD_CONFIG_GET_FIELD
           /\ \E data \in Seq(Byte) : /\ Len(data) \in {1, 2, 4}
                                      /\ Reply(DAT, data, [number |-> Value(data)])
  <2>1. PICK data \in Seq(Byte) : /\ Len(data) \in {1, 2, 4}
                                  /\ Reply(DAT, data, [number |-> Value(data)])
    BY <1>5
  <2>2. Whole(answer) /\ packet_get_type(answer) = DAT /\ Data(answer) = data
        /\ held = [number |-> Value(data)]
    <3>1. answer = packet_craft(NextId(1), DAT, data) /\ held = [number |-> Value(data)]
      BY Zenon, <2>1 DEF Reply
    <3>2. Len(data) <= PACKET_DATA_MAX_SIZE
      <4>1. \A n \in {1, 2, 4} : n <= 28
        OBVIOUS
      <4>. QED BY Zenon, <1>3, <2>1, <4>1
    <3>3. DAT \in {CMD, CTR, DAT}
      OBVIOUS
    <3>. QED BY <1>2, <3>1, <3>2, <3>3
  <2>3. Reading(request, answer) = [number |-> Value(Data(answer))]
    BY <1>5, <2>2, CommandIds DEF Reading
  <2>. QED BY <1>4, <2>2, <2>3
<1>6. CASE request.cmd = CMD_ECHO
           /\ Reply(DAT, Text(request.length), [text |-> Text(request.length)])
  <2>1. request.length \in Nat /\ request.length < 26
    <3>1. request \in Requests /\ IsSent(request)
      BY <1>4 DEF RemoteInv, RequestSent
    <3>2. request.length \in Nat
      BY <1>6, <3>1, RequestKinds, CommandIds
    <3>. QED BY <1>3, <1>6, <3>1, <3>2 DEF IsSent
  <2>2. Text(request.length) \in Seq(Byte) /\ Len(Text(request.length)) = request.length
    BY <2>1, TextType
  <2>3. Len(Text(request.length)) <= PACKET_DATA_MAX_SIZE
    BY <1>3, <2>1, <2>2
  <2>4. Whole(answer) /\ Data(answer) = Text(request.length)
        /\ packet_data_size(answer) = request.length
        /\ held = [text |-> Text(request.length)]
    BY <1>2, <1>6, <2>2, <2>3 DEF Reply
  <2>5. Reading(request, answer) = [text |-> Data(answer)]
    BY <1>6, <2>4, CommandIds DEF Reading
  <2>. QED BY <1>4, <2>4, <2>5
<1>7. CASE request.cmd = CMD_TEMPERATURES_DOWNLOAD /\ Reply(CTR, NoData, NoMore)
  <2>1. NoData \in Seq(Byte) /\ Len(NoData) = 0
    BY DEF NoData
  <2>2. Whole(answer) /\ packet_data_size(answer) = 0 /\ held = NoMore
    <3>1. answer = packet_craft(NextId(1), CTR, NoData) /\ held = NoMore
      BY Zenon, <1>7 DEF Reply
    <3>2. Len(NoData) <= PACKET_DATA_MAX_SIZE /\ CTR \in {CMD, CTR, DAT}
      BY <1>3, <2>1
    <3>. QED BY <1>2, <2>1, <3>1, <3>2
  <2>3. Reading(request, answer) = NoMore
    BY <1>7, <2>2, CommandIds DEF Reading
  <2>. QED BY <1>4, <2>2, <2>3
<1>8. CASE request.cmd = CMD_TEMPERATURES_DOWNLOAD
           /\ \E info \in DbType : Reply(CTR, temperature_db_info_pack(info), info)
  <2>1. PICK info \in DbType : Reply(CTR, temperature_db_info_pack(info), info)
    BY <1>8
  <2>2. PICK data : data = temperature_db_info_pack(info)
    OBVIOUS
  <2>3. data \in Seq(Byte) /\ Len(data) = 7 /\ temperature_db_info_extract(data) = info
    BY <2>2, InfoReads
  <2>4. Whole(answer) /\ packet_data_size(answer) = 7 /\ Data(answer) = data /\ held = info
    <3>1. answer = packet_craft(NextId(1), CTR, data) /\ held = info
      BY Zenon, <2>1, <2>2 DEF Reply
    <3>2. Len(data) <= PACKET_DATA_MAX_SIZE /\ CTR \in {CMD, CTR, DAT}
      BY <1>3, <2>3
    <3>. QED BY <1>2, <2>3, <3>1, <3>2
  <2>5. Reading(request, answer) = temperature_db_info_extract(Data(answer))
    BY <1>8, <2>4, CommandIds DEF Reading
  <2>. QED BY <1>4, <2>3, <2>4, <2>5
<1>. QED BY <1>5, <1>6, <1>7, <1>8 DEF RemoteInv, AnswerCarries

\* A field id is a byte.
LEMMA FieldIds == config_field_t \subseteq 0 .. 255
<1>1. CONFIG_FIELD_COUNT \in 1 .. 256
  BY ConfigAssumption
<1>. QED BY <1>1 DEF config_field_t

\* The request stays until the command ends.
LEMMA StepRequest == ASSUME RemoteInv, [Next]_vars PROVE RequestSent'
<1>1. RequestSent
  BY DEF RemoteInv
<1>2. CASE Ask
  BY <1>2 DEF Ask, RequestSent
<1>3. CASE GiveUp \/ Done \/ Show
  BY <1>3 DEF GiveUp, Done, Show, RequestSent
<1>4. CASE UNCHANGED <<request, busy, shown>>
  BY <1>1, <1>4 DEF RequestSent, IsSent
<1>5. CASE Execute
  <2>1. UNCHANGED <<request, busy, shown>>
    BY <1>5 DEF Execute, Executes, cmd_config_get_field, cmd_config_set_field,
       cmd_set_resolution, cmd_set_interval, cmd_echo, cmd_temperatures_download
  <2>. QED BY <1>4, <2>1
<1>6. CASE Save \/ NewDatabase \/ PowerCycle \/ UNCHANGED vars
  BY <1>4, <1>6 DEF Save, NewDatabase, PowerCycle, vars
<1>. QED BY <1>2, <1>3, <1>5, <1>6 DEF Next

\* One packet is on its way at a time, and it is the one of the request.
LEMMA StepLine == ASSUME RemoteInv, [Next]_vars PROVE LineCarries'
<1>1. LineCarries
  BY DEF RemoteInv
<1>2. CASE Ask
  <2>1. answer = <<>>
    BY <1>2 DEF Ask, RemoteInv, AnswerCarries
  <2>2. line' = communication_cmd(request)' /\ busy' /\ answer' = answer
    BY <1>2 DEF Ask, communication_cmd
  <2>. QED BY <2>1, <2>2 DEF LineCarries
<1>3. CASE line' = <<>>
  BY <1>3 DEF LineCarries
<1>4. CASE GiveUp \/ Done \/ PowerCycle
  BY <1>3, <1>4 DEF GiveUp, Done, PowerCycle
<1>5. CASE Show
  <2>1. line = <<>>
    BY <1>1, <1>5 DEF Show, LineCarries
  <2>. QED BY <1>3, <1>5, <2>1 DEF Show
<1>6. CASE Execute
  <2>1. line' = <<>>
    BY <1>6 DEF Execute, Executes, cmd_config_get_field, cmd_config_set_field,
       cmd_set_resolution, cmd_set_interval, cmd_echo, cmd_temperatures_download
  <2>. QED BY <1>3, <2>1
<1>7. CASE Save \/ NewDatabase \/ UNCHANGED vars
  <2>1. UNCHANGED <<line, answer, busy, request, packet_global_id>>
    BY <1>7 DEF Save, NewDatabase, vars, linkVars
  <2>2. communication_cmd(request)' = communication_cmd(request)
    BY <2>1 DEF communication_cmd
  <2>. QED BY <1>1, <2>1, <2>2 DEF LineCarries
<1>. QED BY <1>2, <1>4, <1>5, <1>6, <1>7 DEF Next

\* An answer is made from the request.
LEMMA StepAnswer == ASSUME RemoteInv, [Next]_vars PROVE AnswerCarries'
<1>1. AnswerCarries
  BY DEF RemoteInv
<1>2. CASE answer' = <<>>
  BY <1>2 DEF AnswerCarries
<1>3. CASE UNCHANGED <<answer, busy, request, packet_global_id, held>>
  BY <1>1, <1>3 DEF AnswerCarries, Reply, NextId
<1>4. CASE Ask
  <2>1. answer' = <<>>
    BY <1>1, <1>4 DEF Ask, AnswerCarries
  <2>. QED BY <1>2, <2>1
<1>5. CASE GiveUp \/ Show
  BY <1>2, <1>5 DEF GiveUp, Show
<1>6. CASE Done
  <2>1. answer' = <<>>
    BY <1>1, <1>6 DEF Done, AnswerCarries, IsAnswered
  <2>. QED BY <1>2, <2>1
<1>7. CASE cmd_config_get_field
  <2>1. /\ request.cmd = CMD_CONFIG_GET_FIELD /\ Arg = Argument(request)
        /\ busy /\ request \in Requests /\ UNCHANGED <<request, busy, packet_global_id>>
    BY <1>7, ExecutesRequest DEF cmd_config_get_field
  <2>2. request.field \in config_field_t /\ request.field \in 0 .. 255
    <3>1. request.field \in config_field_t
      BY <2>1, RequestKinds, CommandIds
    <3>. QED BY <3>1, FieldIds
  <2>3. Num(Arg[1]) = request.field
    <3>1. Arg = <<Bits(request.field)>>
      BY <2>1, ArgumentOf
    <3>. QED BY <2>2, <3>1, NumBits
  <2> PICK data : data = config_get(config, request.field)
    OBVIOUS
  <2>4. data \in Seq(Byte) /\ Len(data) \in {1, 2, 4}
    BY <2>2, GetType, PlaceOf DEF RemoteInv, Bounds
  <2>5. answer' = packet_craft(NextId(1), DAT, data) /\ held' = [number |-> Value(data)]
    BY <1>7, <2>3 DEF cmd_config_get_field, Answers
  <2>6. Reply(DAT, data, [number |-> Value(data)])'
    BY <2>1, <2>5 DEF Reply, NextId
  <2>. QED BY <2>1, <2>4, <2>6 DEF AnswerCarries
<1>8. CASE cmd_echo
  <2>1. /\ request.cmd = CMD_ECHO /\ Arg = Argument(request) /\ IsSent(request)
        /\ busy /\ request \in Requests /\ UNCHANGED <<request, busy, packet_global_id>>
    BY <1>8, ExecutesRequest DEF cmd_echo
  <2>2. request.length \in Nat /\ request.length < 26
    <3>1. request.length \in Nat
      BY <2>1, RequestKinds, CommandIds
    <3>2. PACKET_DATA_MAX_SIZE - 2 = 26
      BY DEF PACKET_DATA_MAX_SIZE
    <3>. QED BY <2>1, <3>1, <3>2 DEF IsSent
  <2>3. Arg = Append(Text(request.length), NUL)
    BY <2>1, ArgumentOf
  <2>4. SubSeq(Arg, 1, SelectInSeq(Arg, LAMBDA c : c = NUL) - 1) = Text(request.length)
    BY <2>2, <2>3, EchoReads
  <2>5. /\ answer' = packet_craft(NextId(1), DAT, Text(request.length))
        /\ held' = [text |-> Text(request.length)]
    BY <1>8, <2>4 DEF cmd_echo, Answers
  <2>6. Reply(DAT, Text(request.length), [text |-> Text(request.length)])'
    BY <2>1, <2>5 DEF Reply, NextId, Text
  <2>. QED BY <2>1, <2>6 DEF AnswerCarries
<1>9. CASE cmd_temperatures_download
  <2>1. /\ request.cmd = CMD_TEMPERATURES_DOWNLOAD
        /\ busy /\ UNCHANGED <<request, busy, packet_global_id>>
    BY <1>9, ExecutesRequest DEF cmd_temperatures_download
  <2>2. CASE db.count = 0
    <3>1. answer' = packet_craft(NextId(1), CTR, NoData) /\ held' = NoMore
      BY <1>9, <2>2 DEF cmd_temperatures_download, Answers
    <3>2. Reply(CTR, NoData, NoMore)'
      BY <2>1, <3>1 DEF Reply, NextId
    <3>. QED BY <2>1, <3>2 DEF AnswerCarries
  <2>3. CASE db.count # 0
    <3>1. answer' = packet_craft(NextId(1), CTR, temperature_db_info_pack(db)) /\ held' = db
      BY <1>9, <2>3 DEF cmd_temperatures_download, Answers
    <3>2. PICK info \in DbType : info = db
      BY DEF RemoteInv, Bounds
    <3>3. Reply(CTR, temperature_db_info_pack(info), info)'
      BY <2>1, <3>1, <3>2 DEF Reply, NextId
    <3>. QED BY <2>1, <3>3 DEF AnswerCarries
  <2>. QED BY <2>2, <2>3
<1>10. CASE cmd_config_set_field \/ cmd_set_resolution \/ cmd_set_interval
  <2>1. line # <<>> /\ answer' = answer
    BY <1>10 DEF cmd_config_set_field, cmd_set_resolution, cmd_set_interval, Executes
  <2>2. answer' = <<>>
    BY <2>1 DEF RemoteInv, LineCarries
  <2>. QED BY <1>2, <2>2
<1>11. CASE Save \/ NewDatabase \/ PowerCycle \/ UNCHANGED vars
  BY <1>3, <1>11 DEF Save, NewDatabase, PowerCycle, vars, linkVars, historyVars
<1>. QED BY <1>4, <1>5, <1>6, <1>7, <1>8, <1>9, <1>10, <1>11 DEF Next, Execute

\* What the shell shows, it shows at the end of the command.
LEMMA StepShown == ASSUME RemoteInv, [Next]_vars PROVE ShownIsHeld'
<1>1. ShownIsHeld
  BY DEF RemoteInv
<1>2. CASE Ask
  BY <1>2 DEF Ask, ShownIsHeld
<1>3. CASE Show
  <2>1. Reading(request, answer) = held
    BY <1>3, AnswerReads DEF Show
  <2>. QED BY <1>3, <2>1 DEF Show, ShownIsHeld, historyVars
<1>4. CASE Execute
  <2>1. PICK cmd : Executes(cmd)
    BY <1>4 DEF Execute, cmd_config_get_field, cmd_config_set_field, cmd_set_resolution,
       cmd_set_interval, cmd_echo, cmd_temperatures_download
  <2>2. busy /\ shown' = shown
    BY <2>1, ExecutesRequest
  <2>3. shown = None
    BY <2>2 DEF RemoteInv, RequestSent
  <2>. QED BY <2>2, <2>3 DEF ShownIsHeld
<1>5. CASE GiveUp \/ Done \/ Save \/ NewDatabase \/ PowerCycle \/ UNCHANGED vars
  BY <1>1, <1>5 DEF GiveUp, Done, Save, NewDatabase, PowerCycle, vars, historyVars, ShownIsHeld
<1>. QED BY <1>2, <1>3, <1>4, <1>5 DEF Next

\* What a command to set a field does
LEMMA SetsField ==
    ASSUME RemoteInv, cmd_config_set_field
    PROVE  /\ request.field \in config_field_t
           /\ config_set(request.field, Bytes(request.value, FieldSize[request.field]))
           /\ config' \in [Offsets -> Byte]
           /\ Value(config_get(config', request.field)) =
                 request.value % 256^FieldSize[request.field]
           /\ \A f \in config_field_t \ {request.field} :
                 config_get(config', f) = config_get(config, f)
<1>1. request.cmd = CMD_CONFIG_SET_FIELD /\ Arg = Argument(request) /\ request \in Requests
  BY ExecutesRequest DEF cmd_config_set_field
<1>2. request.field \in config_field_t /\ request.value \in Nat
  BY <1>1, RequestKinds, CommandIds
<1>3. request.field \in 0 .. 255
  BY <1>2, FieldIds
<1>4. FieldSize[request.field] \in {1, 2, 4}
  BY <1>2, PlaceOf
<1> DEFINE bytes == Bytes(request.value, FieldSize[request.field])
<1>5. bytes \in Seq(Byte) /\ Len(bytes) = FieldSize[request.field]
  BY <1>4, BytesType
<1>6. Value(bytes) = request.value % 256^FieldSize[request.field]
  BY ZenonT(30), <1>2, <1>4, ValueBytes
<1>7. Arg = <<Bits(request.field)>> \o bytes
  BY <1>1, ArgumentOf
<1> HIDE DEF bytes
<1>8. Arg[1] = Bits(request.field) /\ Tail(Arg) = bytes
  BY <1>5, <1>7
<1>9. Num(Arg[1]) = request.field
  BY <1>3, <1>8, NumBits
<1>10. config_set(request.field, bytes)
  BY <1>8, <1>9 DEF cmd_config_set_field
<1>11. config \in [Offsets -> Byte]
  BY DEF RemoteInv, Bounds
<1>12. /\ config' \in [Offsets -> Byte]
       /\ config_get(config', request.field) = bytes
       /\ \A f \in config_field_t \ {request.field} :
             config_get(config', f) = config_get(config, f)
  BY <1>2, <1>5, <1>10, <1>11, SetGet
<1>. QED BY <1>2, <1>6, <1>10, <1>12 DEF bytes

\* What a cut leaves is what was in memory, but for the bytes still to be written.
LEMMA CutLeaves ==
    ASSUME RemoteInv, Cut, config_fetch
    PROVE  /\ nvm' \in [Offsets -> Byte] /\ config' = nvm' /\ saving' = {}
           /\ \A o \in Offsets \ saving : config'[o] = config[o]
<1>1. nvm \in [Offsets -> Byte] /\ \A o \in Offsets \ saving : nvm[o] = config[o]
  BY DEF RemoteInv, Bounds, SavedBytes
<1>2. config' = nvm' /\ saving' = {}
  BY DEF config_fetch
<1>3. CASE nvm' = nvm
  BY <1>1, <1>2, <1>3
<1>4. CASE \E o \in saving : nvm' = [nvm EXCEPT ![o] = Erased]
  <2>1. PICK o \in saving : nvm' = [nvm EXCEPT ![o] = Erased]
    BY <1>4
  <2>2. Erased \in Byte
    BY DEF Erased, Byte
  <2>3. nvm' \in [Offsets -> Byte] /\ \A p \in Offsets \ saving : nvm'[p] = nvm[p]
    BY <1>1, <2>1, <2>2
  <2>. QED BY <1>1, <1>2, <2>3
<1>. QED BY <1>3, <1>4 DEF Cut

\* A command sets one field, and a cut spoils the one that is being set.
LEMMA StepFields == ASSUME RemoteInv, [Next]_vars PROVE FieldsHeld'
<1>1. FieldsHeld
  BY DEF RemoteInv
<1>2. CASE UNCHANGED <<config, set, spoiled>>
  BY <1>1, <1>2 DEF FieldsHeld
<1>3. CASE cmd_config_set_field
  <2> DEFINE value == request.value % 256^FieldSize[request.field]
  <2>1. /\ request.field \in config_field_t
        /\ Value(config_get(config', request.field)) = value
        /\ \A f \in config_field_t \ {request.field} :
              config_get(config', f) = config_get(config, f)
    BY <1>3, SetsField
  <2>2. set' = [set EXCEPT ![request.field] = value] /\ spoiled' = spoiled \ {request.field}
    BY <1>3 DEF cmd_config_set_field, config_get_size
  <2> HIDE DEF value
  <2>3. set' = [f \in config_field_t |-> set'[f]]
    BY <1>1, <2>2 DEF FieldsHeld
  <2>4. ASSUME NEW f \in config_field_t \ spoiled'
        PROVE  Value(config_get(config', f)) = set'[f]
    <3>1. CASE f = request.field
      <4>1. set'[f] = value
        BY <1>1, <2>2, <3>1 DEF FieldsHeld
      <4>. QED BY <2>1, <3>1, <4>1
    <3>2. CASE f # request.field
      <4>1. f \in config_field_t \ spoiled /\ set'[f] = set[f]
        BY <1>1, <2>2, <2>4, <3>2 DEF FieldsHeld
      <4>2. config_get(config', f) = config_get(config, f)
        BY <2>1, <3>2
      <4>. QED BY <1>1, <4>1, <4>2 DEF FieldsHeld
    <3>. QED BY <3>1, <3>2
  <2>. QED BY <2>3, <2>4 DEF FieldsHeld
<1>4. CASE PowerCycle
  <2>1. /\ Cut /\ config_fetch /\ set' = set
        /\ spoiled' = spoiled \cup {f \in config_field_t : Place(f) \cap saving # {}}
    BY <1>4 DEF PowerCycle
  <2>2. \A o \in Offsets \ saving : config'[o] = config[o]
    BY <2>1, CutLeaves
  <2>3. ASSUME NEW f \in config_field_t \ spoiled'
        PROVE  Value(config_get(config', f)) = set'[f]
    <3>1. f \in config_field_t \ spoiled /\ Place(f) \cap saving = {}
      BY <2>1, <2>3
    <3>2. Place(f) \subseteq Offsets
      BY PlaceOf
    <3>3. config_get(config', f) = config_get(config, f)
      <4>1. \A o \in Place(f) : config'[o] = config[o]
        BY <2>2, <3>1, <3>2
      <4>. QED BY <4>1, GetSame
    <3>. QED BY <1>1, <2>1, <3>1, <3>3 DEF FieldsHeld
  <2>. QED BY <1>1, <2>1, <2>3 DEF FieldsHeld
<1>5. CASE Execute /\ ~cmd_config_set_field
  <2>1. UNCHANGED <<config, set, spoiled>>
    BY <1>5 DEF Execute, cmd_config_get_field, cmd_set_resolution, cmd_set_interval,
       cmd_echo, cmd_temperatures_download, Answers, configVars
  <2>. QED BY <1>2, <2>1
<1>6. CASE Ask \/ GiveUp \/ Done \/ Show \/ NewDatabase \/ UNCHANGED vars
  BY <1>2, <1>6 DEF Ask, GiveUp, Done, Show, NewDatabase, vars, configVars, historyVars
<1>7. CASE Save
  BY <1>2, <1>7 DEF Save, SaveByte, historyVars
<1>. QED BY <1>3, <1>4, <1>5, <1>6, <1>7 DEF Next

\* A setting is a uint16_t.
LEMMA SettingType ==
    ASSUME RemoteInv, NEW cmd \in {CMD_SET_RESOLUTION, CMD_SET_INTERVAL}, Executes(cmd),
           NEW old \in UInt16
    PROVE  Setting(old) \in UInt16
<1>1. request.cmd = cmd /\ Arg = Argument(request)
  BY ExecutesRequest
<1>2. Arg = Bytes(request.value, 2)
  BY <1>1, ArgumentOf
<1>3. Arg \in Seq(Byte) /\ Len(Arg) = 2
  BY <1>2, BytesType
<1>4. Len(SubSeq(Arg, 1, 2)) = 2
  BY <1>3
<1>5. Value(SubSeq(Arg, 1, 2)) \in UInt16
  BY <1>4, ValueOfTwo
<1>. QED BY <1>5 DEF Setting

LEMMA StepBounds == ASSUME RemoteInv, [Next]_vars PROVE Bounds'
<1>1. Bounds
  BY DEF RemoteInv
<1> DEFINE Stored == config \in [Offsets -> Byte] /\ nvm \in [Offsets -> Byte]
                        /\ saving \subseteq Offsets /\ spoiled \subseteq config_field_t
           Timers == timer_resolution \in UInt16 /\ timer_interval \in UInt16
           Shell == busy \in BOOLEAN /\ packet_global_id \in 0 .. 15
           Counts == commands \in 0 .. MaxCommands /\ cuts \in 0 .. MaxCuts
<1>2. Stored'
  <2>1. CASE UNCHANGED <<configVars, spoiled>>
    BY <1>1, <2>1 DEF Bounds, configVars
  <2>2. CASE cmd_config_set_field
    <3>1. /\ config' \in [Offsets -> Byte] /\ request.field \in config_field_t
          /\ config_set(request.field, Bytes(request.value, FieldSize[request.field]))
      BY <2>2, SetsField
    <3>2. nvm' = nvm /\ saving' \subseteq Place(request.field)
      BY <3>1 DEF config_set, Differs
    <3>3. Place(request.field) \subseteq Offsets
      BY <3>1, PlaceOf
    <3>4. spoiled' \subseteq spoiled
      BY <2>2 DEF cmd_config_set_field
    <3>. QED BY <1>1, <3>1, <3>2, <3>3, <3>4 DEF Bounds
  <2>3. CASE Save
    <3>1. PICK o \in saving : /\ nvm' = [nvm EXCEPT ![o] = config[o]]
                              /\ saving' = saving \ {o} /\ UNCHANGED config
      BY <2>3 DEF Save, SaveByte
    <3>2. spoiled' = spoiled
      BY <2>3 DEF Save, historyVars
    <3>. QED BY <1>1, <3>1, <3>2 DEF Bounds
  <2>4. CASE PowerCycle
    <3>1. nvm' \in [Offsets -> Byte] /\ config' = nvm' /\ saving' = {}
      BY <2>4, CutLeaves DEF PowerCycle
    <3>2. spoiled' \subseteq config_field_t
      BY <1>1, <2>4 DEF PowerCycle, Bounds
    <3>. QED BY <3>1, <3>2
  <2>5. CASE Execute /\ ~cmd_config_set_field
    <3>1. UNCHANGED <<configVars, spoiled>>
      BY <2>5 DEF Execute, cmd_config_get_field, cmd_set_resolution, cmd_set_interval,
         cmd_echo, cmd_temperatures_download, Answers, configVars
    <3>. QED BY <2>1, <3>1
  <2>6. CASE Ask \/ GiveUp \/ Done \/ Show \/ NewDatabase \/ UNCHANGED vars
    <3>1. UNCHANGED <<configVars, spoiled>>
      BY <2>6 DEF Ask, GiveUp, Done, Show, NewDatabase, vars, configVars, historyVars
    <3>. QED BY <2>1, <3>1
  <2> HIDE DEF Stored
  <2>. QED BY <2>2, <2>3, <2>4, <2>5, <2>6 DEF Next
<1>3. Timers'
  <2>1. CASE UNCHANGED <<timer_resolution, timer_interval>>
    BY <1>1, <2>1 DEF Bounds
  <2>2. CASE cmd_set_resolution
    <3>1. Setting(timer_resolution) \in UInt16
      BY <1>1, <2>2, SettingType DEF cmd_set_resolution, Bounds
    <3>. QED BY <1>1, <2>2, <3>1 DEF cmd_set_resolution, Bounds
  <2>3. CASE cmd_set_interval
    <3>1. Setting(timer_interval) \in UInt16
      BY <1>1, <2>3, SettingType DEF cmd_set_interval, Bounds
    <3>. QED BY <1>1, <2>3, <3>1 DEF cmd_set_interval, Bounds
  <2>4. CASE PowerCycle
    <3>1. config' \in [Offsets -> Byte]
      BY <2>4, CutLeaves DEF PowerCycle
    <3>2. \A f \in {RESOLUTION, INTERVAL} : Value(config_get(config', f)) \in UInt16
      <4> SUFFICES ASSUME NEW f \in {RESOLUTION, INTERVAL}
                   PROVE  Value(config_get(config', f)) \in UInt16
        OBVIOUS
      <4>1. f \in config_field_t /\ FieldSize[f] = 2
        BY SettingsAssumption
      <4>2. Len(config_get(config', f)) = 2
        BY <3>1, <4>1, GetType
      <4>. QED BY <4>2, ValueOfTwo
    <3>3. temperature_setup(config')
      BY <2>4 DEF PowerCycle
    <3>. QED BY <3>2, <3>3 DEF temperature_setup
  <2>5. CASE cmd_config_get_field \/ cmd_config_set_field \/ cmd_echo
             \/ cmd_temperatures_download
    BY <2>1, <2>5 DEF cmd_config_get_field, cmd_config_set_field, cmd_echo,
       cmd_temperatures_download, Answers
  <2>6. CASE Ask \/ GiveUp \/ Done \/ Show \/ Save \/ NewDatabase \/ UNCHANGED vars
    <3>1. UNCHANGED <<timer_resolution, timer_interval>>
      BY <2>6 DEF Ask, GiveUp, Done, Show, Save, NewDatabase, vars, daemonVars
    <3>. QED BY <2>1, <3>1
  <2> HIDE DEF Timers
  <2>. QED BY <2>2, <2>3, <2>4, <2>5, <2>6 DEF Next, Execute
<1>4. (db \in DbType)'
  <2>1. CASE NewDatabase
    <3>1. PICK d \in Databases :
             db' = [id |-> d.id, count |-> d.count, reg_resolution |-> timer_resolution,
                    reg_interval |-> timer_interval]
      BY <2>1 DEF NewDatabase
    <3>2. Databases \subseteq [id : 0 .. 255, count : UInt16]
      BY RemoteAssumption
    <3>3. d.id \in 0 .. 255 /\ d.count \in UInt16
      BY <3>2
    <3>. QED BY <1>1, <3>1, <3>3 DEF Bounds, DbType
  <2>2. CASE ~NewDatabase
    <3>1. db' = db
      BY <2>2 DEF Next, Ask, GiveUp, Done, Show, Execute, Executes, cmd_config_get_field,
         cmd_config_set_field, cmd_set_resolution, cmd_set_interval, cmd_echo,
         cmd_temperatures_download, Save, PowerCycle, vars, daemonVars
    <3>. QED BY <1>1, <3>1 DEF Bounds
  <2>. QED BY <2>1, <2>2
<1>5. Shell'
  <2>1. busy' \in BOOLEAN
    BY <1>1 DEF Bounds, Next, Ask, GiveUp, Done, Show, Execute, Executes, cmd_config_get_field,
         cmd_config_set_field, cmd_set_resolution, cmd_set_interval, cmd_echo,
         cmd_temperatures_download, Save, NewDatabase, PowerCycle, vars
  <2>2. packet_global_id' \in {packet_global_id, 1, NextId(1), NextId(2)}
    BY DEF Next, Ask, GiveUp, Done, Show, Execute, Executes, cmd_config_get_field,
         cmd_config_set_field, cmd_set_resolution, cmd_set_interval, cmd_echo,
         cmd_temperatures_download, Save, NewDatabase, PowerCycle, vars, linkVars
  <2>3. packet_global_id \in 0 .. 15 /\ 1 \in 0 .. 15 /\ NextId(1) \in 0 .. 15
        /\ NextId(2) \in 0 .. 15
    BY <1>1, NextIdType DEF Bounds
  <2>. QED BY <2>1, <2>2, <2>3
<1>6. Counts'
  <2>1. MaxCommands \in Nat /\ MaxCuts \in Nat
    BY RemoteAssumption
  <2>2. CASE Ask
    <3>1. commands < MaxCommands /\ commands' = commands + 1 /\ cuts' = cuts
      BY <2>2 DEF Ask
    <3>. QED BY <1>1, <2>1, <3>1 DEF Bounds
  <2>3. CASE PowerCycle
    <3>1. cuts < MaxCuts /\ cuts' = cuts + 1 /\ commands' = commands
      BY <2>3 DEF PowerCycle
    <3>. QED BY <1>1, <2>1, <3>1 DEF Bounds
  <2>4. CASE ~Ask /\ ~PowerCycle
    <3>1. UNCHANGED <<commands, cuts>>
      BY <2>4 DEF Next, GiveUp, Done, Show, Execute, Executes, cmd_config_get_field,
         cmd_config_set_field, cmd_set_resolution, cmd_set_interval, cmd_echo,
         cmd_temperatures_download, Save, NewDatabase, vars
    <3>. QED BY <1>1, <3>1 DEF Bounds
  <2>. QED BY <2>2, <2>3, <2>4
<1>. QED BY <1>2, <1>3, <1>4, <1>5, <1>6 DEF Bounds

LEMMA StepHolds == RemoteInv /\ [Next]_vars => RemoteInv'
<1> SUFFICES ASSUME RemoteInv, [Next]_vars PROVE RemoteInv'
  OBVIOUS
<1>1. SavedBytes'
  BY StepSaved DEF RemoteInv
<1>. QED BY <1>1, StepBounds, StepRequest, StepLine, StepAnswer, StepShown, StepFields
         DEF RemoteInv

LEMMA RemoteAlways == Spec => []RemoteInv
BY InitHolds, StepHolds, PTL DEF Spec

\* The packets on the line are whole.
LEMMA PacketsWhole ==
    ASSUME RemoteInv, NEW p \in Packets
    PROVE  Whole(p)
<1>1. p # <<>> /\ (p = line \/ p = answer)
  BY DEF Packets
<1>. QED BY <1>1, LineReads, AnswerReads
-----------------------------------------------------------------------------

(***************************************************************************)
(* The theorems.                                                           *)
(***************************************************************************)

\* The configuration, the settings, the packets and the databases have the types of
\* the code, for every set of fields and values.
THEOREM RemoteTypes == Spec => []TypeOK
<1>1. ASSUME RemoteInv PROVE TypeOK
  <2>1. ASSUME NEW p \in {line, answer} PROVE p \in Seq(Byte) /\ Len(p) <= PACKET_MAX_SIZE
    <3>1. PACKET_MAX_SIZE = 31
      BY DEF PACKET_MAX_SIZE, PACKET_MIN_SIZE, PACKET_DATA_MAX_SIZE, PACKET_HEADER_SIZE
    <3>2. CASE p = <<>>
      BY <3>1, <3>2
    <3>3. CASE p # <<>>
      <4>1. Whole(p)
        BY <1>1, <2>1, <3>3, PacketsWhole DEF Packets
      <4>2. p \in Seq(Byte) /\ Len(p) \in PACKET_MIN_SIZE .. PACKET_MAX_SIZE
        BY <4>1 DEF Whole
      <4>3. \A m, n, k \in Int : k \in m .. n => k <= n
        OBVIOUS
      <4>4. PACKET_MIN_SIZE \in Int /\ PACKET_MAX_SIZE \in Int /\ Len(p) \in Int
        BY <3>1, <4>2 DEF PACKET_MIN_SIZE, PACKET_HEADER_SIZE
      <4>. QED BY Zenon, <4>2, <4>3, <4>4
    <3>. QED BY <3>2, <3>3
  <2>2. Bounds
    BY <1>1 DEF RemoteInv
  <2>. QED BY <2>1, <2>2 DEF TypeOK, Bounds, DbType
<1>. QED BY <1>1, RemoteAlways, PTL

\* Every packet of the two ends passes the checks of its receiver, whatever it
\* carries; with a wrong bit in the header, or any wrong byte after it, it does not.
THEOREM DamageAlwaysDetected == Spec => []DamageDetected
<1>1. ASSUME RemoteInv PROVE DamageDetected
  <2>1. \A p \in Packets : Whole(p)
    BY <1>1, PacketsWhole
  <2>2. \A p \in Packets : Accepted(p)
    BY <2>1, WholeAccepted
  <2>. QED BY Zenon, <2>1, <2>2, HeaderDamageSeen, DataDamageSeen DEF DamageDetected
<1>. QED BY <1>1, RemoteAlways, PTL

\* The CRC of every packet that the two ends send is the remainder of the polynomial
\* division of what comes before it, however long it is.
THEOREM CrcAlwaysRemainder == Spec => []CrcIsRemainder
<1>1. ASSUME RemoteInv PROVE CrcIsRemainder
  <2>1. ASSUME NEW p \in Packets PROVE Last(p) = Remainder(Append(Front(p), {}))
    <3>1. Whole(p)
      BY <1>1, PacketsWhole
    <3>2. p \in Seq(Byte) /\ Len(p) \in Nat /\ Len(p) >= 1
      BY <3>1 DEF Whole, PACKET_MIN_SIZE, PACKET_MAX_SIZE, PACKET_DATA_MAX_SIZE,
         PACKET_HEADER_SIZE
    <3>3. Front(p) \in Seq(Byte)
      BY <3>2 DEF Front
    <3>4. Last(p) = crc(Front(p))
      BY <3>1 DEF Whole, Last
    <3>. QED BY <3>3, <3>4, CrcRemains
  <2>. QED BY <2>1 DEF CrcIsRemainder
<1>. QED BY <1>1, RemoteAlways, PTL

\* Every field has the value that it was last set to, in memory and in the EEPROM,
\* for every layout of the fields; only a power cut spoils one, the one being set.
THEOREM FieldsStayAsSet == Spec => []FieldsAsSet
<1>1. ASSUME RemoteInv PROVE FieldsAsSet
  <2>1. ASSUME saving = {} PROVE nvm = config
    BY <1>1, <2>1 DEF RemoteInv, SavedBytes
  <2>2. \A f \in config_field_t \ spoiled : Value(config_get(config, f)) = set[f]
    BY <1>1 DEF RemoteInv, FieldsHeld
  <2>. QED BY <2>1, <2>2 DEF FieldsAsSet
<1>. QED BY <1>1, RemoteAlways, PTL

\* What the shell shows is what the tmon held of what the user asked for, for every
\* value, string and database.
THEOREM ShownWasHeld == Spec => []ShownIsHeld
<1>1. RemoteInv => ShownIsHeld
  BY DEF RemoteInv
<1>. QED BY <1>1, RemoteAlways, PTL
=============================================================================
