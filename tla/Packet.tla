------------------------------- MODULE Packet -------------------------------
(***************************************************************************)
(* Packets byte by byte (sources/packet.c, sources/crc.c).  A byte is the  *)
(* set of the bits that are 1, so that a xor is a symmetric difference; a  *)
(* packet is the sequence of the bytes that go on the line.                *)
(***************************************************************************)
EXTENDS Integers, Sequences, SequencesExt

BIT_NUM == 8

Byte == SUBSET (0 .. BIT_NUM - 1)

Bits(n) == {b \in 0 .. BIT_NUM - 1 : (n \div 2^b) % 2 = 1}

Num(byte) ==
    LET bit(b) == IF b \in byte THEN 1 ELSE 0
    IN  bit(0) + 2 * bit(1) + 4 * bit(2) + 8 * bit(3)
        + 16 * bit(4) + 32 * bit(5) + 64 * bit(6) + 128 * bit(7)

Xor(a, b) == (a \ b) \cup (b \ a)

\* An integer of size bytes in memory, on both machines, and back from up to four
\* of them; a value that does not fit is truncated
Bytes(n, size) == [i \in 1 .. size |-> Bits((n \div 256^(i - 1)) % 256)]

Value(bytes) ==
    LET byte(i) == IF i <= Len(bytes) THEN Num(bytes[i]) ELSE 0
    IN  byte(1) + 256 * byte(2) + 65536 * byte(3) + 16777216 * byte(4)

\* The bits a to b of a byte as a number, and a byte with such bits set
_bitfield_get(src, a, b) == Num({i - a : i \in src \cap (a .. b)})

_bitfield_set(src, val, a, b) ==
    (src \ (a .. b)) \cup ({i + a : i \in Bits(val)} \cap (a .. b))

-----------------------------------------------------------------------------

crc8_table_0x07 ==
    <<  0,   7,  14,   9,  28,  27,  18,  21,  56,  63,  54,  49,  36,  35,  42,  45,
      112, 119, 126, 121, 108, 107,  98, 101,  72,  79,  70,  65,  84,  83,  90,  93,
      224, 231, 238, 233, 252, 251, 242, 245, 216, 223, 214, 209, 196, 195, 202, 205,
      144, 151, 158, 153, 140, 139, 130, 133, 168, 175, 166, 161, 180, 179, 186, 189,
      199, 192, 201, 206, 219, 220, 213, 210, 255, 248, 241, 246, 227, 228, 237, 234,
      183, 176, 185, 190, 171, 172, 165, 162, 143, 136, 129, 134, 147, 148, 157, 154,
       39,  32,  41,  46,  59,  60,  53,  50,  31,  24,  17,  22,   3,   4,  13,  10,
       87,  80,  89,  94,  75,  76,  69,  66, 111, 104,  97, 102, 115, 116, 125, 122,
      137, 142, 135, 128, 149, 146, 155, 156, 177, 182, 191, 184, 173, 170, 163, 164,
      249, 254, 247, 240, 229, 226, 235, 236, 193, 198, 207, 200, 221, 218, 211, 212,
      105, 110, 103,  96, 117, 114, 123, 124,  81,  86,  95,  88,  77,  74,  67,  68,
       25,  30,  23,  16,   5,   2,  11,  12,  33,  38,  47,  40,  61,  58,  51,  52,
       78,  73,  64,  71,  82,  85,  92,  91, 118, 113, 120, 127, 106, 109, 100,  99,
       62,  57,  48,  55,  34,  37,  44,  43,   6,   1,   8,  15,  26,  29,  20,  19,
      174, 169, 160, 167, 178, 181, 188, 187, 150, 145, 152, 159, 138, 141, 132, 131,
      222, 217, 208, 215, 194, 197, 204, 203, 230, 225, 232, 239, 250, 253, 244, 243>>

\* The table is made of bytes once and for all
Rounds == [byte \in Byte |-> Bits(crc8_table_0x07[Num(byte) + 1])]

\* Mutant: the division starts from another remainder
CRC_INITErased == 0 .. BIT_NUM - 1

\* Mutant: the table is looked up with the byte alone
crc_division_roundAlone(current_crc, byte) == Rounds[byte]

crc_division_round(current_crc, byte) == Rounds[Xor(current_crc, byte)]

CRC_INIT == {}

\* crc and crc_check, whose 0x00 to start from is CRC_INIT
crc(data) ==
    LET current[n \in 0 .. Len(data)] ==
            IF n = 0 THEN CRC_INIT ELSE crc_division_round(current[n - 1], data[n])
    IN  current[Len(data)]

-----------------------------------------------------------------------------

PACKET_HEADER_SIZE == 2
PACKET_DATA_MAX_SIZE == 28
PACKET_MIN_SIZE == PACKET_HEADER_SIZE + 1
PACKET_MAX_SIZE == PACKET_MIN_SIZE + PACKET_DATA_MAX_SIZE

HND == 0
ACK == 1
ERR == 2
CMD == 3
CTR == 4
DAT == 5
PACKET_TYPE_COUNT == 6

packet_get_type(p) == _bitfield_get(p[1], 4, 7)
packet_get_id(p) == _bitfield_get(p[1], 0, 3)
packet_get_size(p) == _bitfield_get(p[2], 1, 7)

packet_data_size(p) == packet_get_size(p) - PACKET_MIN_SIZE

\* The data of a packet that passes the checks
Data(p) == SubSeq(p, PACKET_HEADER_SIZE + 1, PACKET_HEADER_SIZE + packet_data_size(p))

packet_brings_data(p) == packet_get_type(p) > 2

packet_header_parity(header) == (Cardinality(header[1]) + Cardinality(header[2])) % 2

\* packet_craft accepts its arguments; NoData is a null pointer
NoData == <<>>

IsCraftable(id, type, data) ==
    /\ type <= PACKET_TYPE_COUNT
    /\ type <= 2 => data = NoData
    /\ Len(data) <= PACKET_DATA_MAX_SIZE
    /\ type = HND => id = 0

packet_craft(id, type, data) ==
    LET size   == _bitfield_set({}, PACKET_MIN_SIZE + Len(data), 1, 7)
        header == << _bitfield_set(_bitfield_set({}, type, 4, 7), id, 0, 3), size >>
        parity == IF packet_header_parity(header) = 1 THEN {0} ELSE {}
        bytes  == <<header[1], header[2] \cup parity>> \o data
    IN  Append(bytes, crc(bytes))

packet_check_header(p) ==
    /\ packet_get_size(p) \in PACKET_MIN_SIZE .. PACKET_MAX_SIZE
    /\ packet_brings_data(p) \/ packet_get_size(p) = PACKET_MIN_SIZE
    /\ packet_header_parity(p) = 0

packet_check_crc(p) == crc(SubSeq(p, 1, packet_get_size(p))) = {}

\* A receiver takes the bytes that come for a packet: the header is checked
\* first, then the CRC once as many bytes came as it says
Accepted(bytes) ==
    /\ Len(bytes) >= PACKET_MIN_SIZE
    /\ packet_check_header(bytes)
    /\ packet_get_size(bytes) <= Len(bytes)
    /\ packet_check_crc(bytes)
=============================================================================
