----------------------------- MODULE MySQLCodec -----------------------------
(***************************************************************************)
(* How ProtocolBuffer, ProtocolStringReader and BinlogProcessor read and   *)
(* write the values of the MySQL protocol and of binlog events.  Data is a *)
(* sequence of fields, each a value of a number of bytes; a read that does *)
(* not take exactly one field takes bytes of something else, and is out of *)
(* step from there on.  Numbers in the cells of a row are sequences of     *)
(* bytes, in the order in which they are sent.                             *)
(***************************************************************************)
EXTENDS Integers, Sequences

F(v, n) == [v |-> v, n |-> n]

\* A read of n bytes at field p of r is in step.
InStep(r, p, n) == p \in DOMAIN r /\ r[p].n = n

-----------------------------------------------------------------------------
(* Length-encoded integers, and bitmasks *)

add_varint(v) ==
  IF v <= 250 THEN <<F(v, 1)>>
  ELSE IF v <= 65535 THEN <<F(252, 1), F(v, 2)>>
  ELSE IF v <= 16777215 THEN <<F(253, 1), F(v, 3)>>
  ELSE <<F(254, 1), F(v, 8)>>

\* How many fields get_varint takes at p; none if it throws.
get_varint_span(r, p) ==
  IF ~InStep(r, p, 1) THEN 0
  ELSE IF r[p].v < 251 THEN 1
  ELSE IF \/ r[p].v = 252 /\ InStep(r, p + 1, 2)
          \/ r[p].v = 253 /\ InStep(r, p + 1, 3)
          \/ r[p].v = 254 /\ InStep(r, p + 1, 8)
       THEN 2 ELSE 0

get_varint(r, p) == IF r[p].v < 251 THEN r[p].v ELSE r[p + 1].v

\* Bit x of a bitmask of n bits, which takes (n + 7) / 8 bytes.
get_bitmask(mask, x) == (mask \div 2^x) % 2 = 1
BitmaskBytes(n) == (n + 7) \div 8

-----------------------------------------------------------------------------
(* Numbers as bytes, the least significant first *)

\* The n bytes of v, in two's complement.
Digits(v, n) ==
  LET q[i \in 0..n] == IF i = 0 THEN v ELSE q[i - 1] \div 256 IN [i \in 1..n |-> q[i - 1] % 256]

Reversed(b) == [i \in 1..Len(b) |-> b[Len(b) + 1 - i]]

\* The number with the bytes b below top.
Number(b, top) ==
  LET s[i \in 0..Len(b)] == IF i = 0 THEN top ELSE 256 * s[i - 1] + b[Len(b) + 1 - i] IN s[Len(b)]
Unsigned(b) == Number(b, 0)
Signed(b) == Number(b, IF b[Len(b)] >= 128 THEN -1 ELSE 0)

\* static_cast<uint64_t> of an unsigned number.
uint64(b) == [i \in 1..8 |-> IF i <= Len(b) THEN b[i] ELSE 0]

\* b * k modulo 2^64, and b / k, of a uint64_t.
Product(b, k) ==
  LET carry[i \in 0..8] == IF i = 0 THEN 0 ELSE (k * b[i] + carry[i - 1]) \div 256
  IN  [i \in 1..8 |-> (k * b[i] + carry[i - 1]) % 256]
Quotient(b, k) ==
  LET rest[i \in 0..8] == IF i = 0 THEN 0 ELSE (256 * rest[i - 1] + b[9 - i]) % k
  IN  [i \in 1..8 |-> (256 * rest[8 - i] + b[i]) \div k]

-----------------------------------------------------------------------------
(* Dates and times *)

\* Hours, minutes and seconds in bits 12, 6 and 0 of a number.
Clock(t) == 4096 * t.hours + 64 * t.minutes + t.seconds

\* How the server writes a TIME: 24 bits, the upper one set, or the two's
\* complement of that for a negative time.
EncodedTime(t) == IF t.is_negative = 1 THEN 8388608 - Clock(t) ELSE 8388608 + Clock(t)

\* The upper bit is the sign; (~z) + 1 is the complement.
TimeValue(z) ==
  LET is_negative == IF z < 8388608 THEN 1 ELSE 0
      c == IF is_negative = 1 THEN 16777216 - z ELSE z
  IN  [is_negative |-> is_negative, hours |-> (c \div 4096) % 1024, minutes |-> (c \div 64) % 64, seconds |-> c % 64]

\* How the server writes a DATETIME: 40 bits, the upper 18 for the years and
\* months, in two parts here.
EncodedMonth(d) == 131072 + 13 * d.years + d.months
EncodedDay(d) == 131072 * d.days + Clock(d)

\* ((z >> 22) - 131073) / 13 is unsigned: in the month 0 of the year 0 the
\* dividend is 2^64 - 1, and years has 16 bits.
DateTimeValue(month, day) ==
  [years |-> IF month = 131072 THEN 5041 ELSE (month - 131073) \div 13,
   months |-> (month + 7) % 13, days |-> (day \div 131072) % 32,
   hours |-> (day \div 4096) % 32, minutes |-> (day \div 64) % 64, seconds |-> day % 64]

\* The 40 bits as bytes, the most significant first, and back.
DateBytes(month, day) ==
  <<month \div 1024, (month \div 4) % 256, 64 * (month % 4) + day \div 65536, (day \div 256) % 256, day % 256>>
MonthBits(b) == 1024 * b[1] + 4 * b[2] + b[3] \div 64
DayBits(b) == 65536 * (b[3] % 64) + 256 * b[4] + b[5]

\* The bytes of a fraction of a second with this precision, and what they count.
FractionBytes(precision) == (precision + 1) \div 2
FractionUnit(precision) == CASE precision \in 1..2 -> 10000 [] precision \in 3..4 -> 100 [] OTHER -> 1

\* The microseconds at field p; it throws if the precision is above 6.
read_datetime_fractional_part(r, p, precision) ==
  IF precision = 0 THEN 0 ELSE Unsigned(Reversed(r[p].v)) * FractionUnit(precision)

-----------------------------------------------------------------------------
(* The columns of a table, and their cells *)

metadata_bytes_for_column_type(type) ==
  CASE type \in {"TINYINT", "SMALLINT", "MEDIUMINT", "INT", "BIGINT", "YEAR", "TIMESTAMP"} -> 0
    [] type \in {"BLOB", "FLOAT", "DOUBLE", "JSON", "TIMESTAMP2", "TIME2", "DATETIME2"}    -> 1
    [] type \in {"STRING", "VARCHAR", "NEWDECIMAL"}                                        -> 2

\* The width of a STRING: two bits of it are in the type byte.
max_display_width(meta) == 256 * (3 - ((meta[1] \div 16) % 4)) + meta[2]

ENUM == 247
SET == 248

\* Mutation of PrefixBytes: a width of 255 takes two bytes.
PrefixBytes_255(ci) ==
  IF ci.type = "VARCHAR" THEN IF ci.meta[1] + 256 * ci.meta[2] >= 255 THEN 2 ELSE 1
  ELSE IF ci.type = "STRING" THEN IF max_display_width(ci.meta) >= 255 THEN 2 ELSE 1
  ELSE ci.meta[1]

\* The bytes of the length before a cell of variable length.
PrefixBytes(ci) ==
  IF ci.type = "VARCHAR" THEN IF ci.meta[1] + 256 * ci.meta[2] > 255 THEN 2 ELSE 1
  ELSE IF ci.type = "STRING" THEN IF max_display_width(ci.meta) > 255 THEN 2 ELSE 1
  ELSE ci.meta[1]

Enumerated(ci) == ci.type = "STRING" /\ ci.meta[1] \in {ENUM, SET}

FixedBytes(ci) ==
  CASE ci.type \in {"TINYINT", "YEAR"}                        -> 1
    [] ci.type = "SMALLINT"                                   -> 2
    [] ci.type \in {"MEDIUMINT", "TIME2"}                     -> 3
    [] ci.type \in {"INT", "FLOAT", "TIMESTAMP", "TIMESTAMP2"} -> 4
    [] ci.type = "DATETIME2"                                  -> 5
    [] ci.type \in {"BIGINT", "DOUBLE"}                       -> 8
    [] Enumerated(ci)                                         -> ci.meta[2]

Fraction(ci) == IF ci.type \in {"TIMESTAMP2", "TIME2", "DATETIME2"} THEN FractionBytes(ci.meta[1]) ELSE 0

Variable(ci) == ci.type \in {"BLOB", "JSON", "VARCHAR", "STRING"} /\ ~Enumerated(ci)
Supported(ci) == ci.type # "NEWDECIMAL" /\ (ci.type \in {"TIME2", "DATETIME2"} => ci.meta[1] <= 6)

\* read_cell_data at field p: how many fields it takes; none if it throws, and
\* -1 if it gets out of step.
CellSpan(ci, r, p) ==
  CASE ~Supported(ci) -> 0
    [] Supported(ci) /\ Variable(ci) ->
         IF InStep(r, p, PrefixBytes(ci)) /\ InStep(r, p + 1, Unsigned(r[p].v)) THEN 2 ELSE -1
    [] OTHER ->
         IF ~InStep(r, p, FixedBytes(ci)) THEN -1
         ELSE IF Fraction(ci) = 0 THEN 1
         ELSE IF InStep(r, p + 1, Fraction(ci)) THEN 2 ELSE -1

\* read_cell_data: the Value.  Integers are unsigned, a TIMESTAMP is given in
\* microseconds, and a TIMESTAMP2 is read with its first byte as the least
\* significant one and without its fraction.
read_cell_data(ci, r, p) ==
  CASE Variable(ci)          -> r[p + 1].v
    [] ci.type = "TIME2"     -> [time |-> TimeValue(Unsigned(Reversed(r[p].v))),
                                 usecs |-> read_datetime_fractional_part(r, p + 1, ci.meta[1])]
    [] ci.type = "DATETIME2" -> [date |-> DateTimeValue(MonthBits(r[p].v), DayBits(r[p].v)),
                                 usecs |-> read_datetime_fractional_part(r, p + 1, ci.meta[1])]
    [] ci.type = "TIMESTAMP" -> Product(uint64(r[p].v), 1000000)
    [] ci.type \in {"TINYINT", "SMALLINT", "MEDIUMINT", "INT", "BIGINT", "YEAR", "TIMESTAMP2"} -> uint64(r[p].v)
    [] OTHER                 -> r[p].v
=============================================================================
