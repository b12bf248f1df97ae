------------------------------- MODULE Binlog -------------------------------
(***************************************************************************)
(* BinlogProcessor, and the two programs that follow a server's binlog     *)
(* with it: MySQLBinlogStats and MySQLBinlogReader.  The server writes its *)
(* log one event at a time and sends each as it is written; one step is an *)
(* event sent, parsed and accounted for.                                   *)
(***************************************************************************)
EXTENDS MySQLCodec, TLC

CONSTANTS Ids,        \* the table ids the server uses
          Starts,     \* where in the first file a reader may start
          Times,      \* the numbers of hours, minutes and seconds tried
          Wide,       \* how many events may be of any table and any row
          MaxEvents   \* how many events the server sends

ASSUME BinlogAssumption == /\ 4 \in Starts /\ Starts \subseteq Nat /\ {Wide, MaxEvents} \subseteq Nat
                           /\ Times \subseteq 0..59 /\ Times # {}

VARIABLES srv,                     \* the server: where it is in its log
          table,                   \* the table of its statement, and whether its map was sent
          trx,                     \* what it wrote since BEGIN, 0 if none was sent
          filename, position, table_map,                   \* BinlogProcessor
          current_filename, current_position, transaction_event_bytes,  \* Stats
          reader_filename, printed,                        \* Reader
          reported,                \* the last transaction_event_bytes, and what it should be
          rows,                    \* whether the last event's rows were read as written,
                                   \* and whether it had a table and all of its columns
          failed                   \* an exception ended the program

proc == <<filename, position, table_map>>
stats == <<current_filename, current_position, transaction_event_bytes>>
reader == <<reader_filename, printed>>
server == <<srv, table, trx>>
vars == <<server, proc, stats, reader, reported, rows, failed>>

\* The sum of the first n values of f, and the sequences of s in one.
Sum(f, n) == LET s[i \in 0..n] == IF i = 0 THEN 0 ELSE s[i - 1] + f[i] IN s[n]
Joined(s) == LET j[i \in 0..Len(s)] == IF i = 0 THEN <<>> ELSE j[i - 1] \o s[i] IN j[Len(s)]

Bytes(r) == Sum([i \in DOMAIN r |-> r[i].n], Len(r))
Masked(bits) == Sum([i \in DOMAIN bits |-> IF bits[i] THEN 2^(i - 1) ELSE 0], Len(bits))

-----------------------------------------------------------------------------
(* The server: the columns of its tables, with their layout in a row: a    *)
(* length of so many bytes before the data, or fixed numbers of bytes      *)

Column(type, meta, prefix, fixed) ==
  [type |-> type, meta |-> meta, nullable |-> type \in {"INT", "STRING"}, prefix |-> prefix, fixed |-> fixed]
Whole(type, n) == Column(type, <<>>, 0, <<n>>)
Lengthy(type, meta, n) == Column(type, meta, n, <<>>)
CharColumn(width) == Lengthy("STRING", <<254 - 16 * (width \div 256), width % 256>>, IF width < 256 THEN 1 ELSE 2)

Columns ==
  {Whole("TINYINT", 1), Whole("SMALLINT", 2), Whole("MEDIUMINT", 3), Whole("INT", 4), Whole("BIGINT", 8),
   Whole("YEAR", 1), Whole("TIMESTAMP", 4), Column("FLOAT", <<4>>, 0, <<4>>), Column("DOUBLE", <<8>>, 0, <<8>>),
   Column("TIMESTAMP2", <<0>>, 0, <<4>>), Column("TIMESTAMP2", <<3>>, 0, <<4, 2>>),
   Column("TIME2", <<0>>, 0, <<3>>), Column("TIME2", <<1>>, 0, <<3, 1>>), Column("TIME2", <<3>>, 0, <<3, 2>>),
   Column("DATETIME2", <<0>>, 0, <<5>>), Column("DATETIME2", <<6>>, 0, <<5, 3>>),
   Column("STRING", <<ENUM, 1>>, 0, <<1>>), Column("STRING", <<SET, 2>>, 0, <<2>>),
   Column("NEWDECIMAL", <<5, 2>>, 0, <<3>>),
   Lengthy("VARCHAR", <<255, 0>>, 1), Lengthy("VARCHAR", <<0, 1>>, 2)}
  \cup {Lengthy("BLOB", <<n>>, n) : n \in 1..4}
  \cup {CharColumn(width) : width \in {10, 255, 256, 512, 1023}}

\* The tables mapped: any at first, one of two later.
Tables == IF srv.n >= Wide THEN {<<Whole("INT", 4)>>, <<CharColumn(10), Whole("INT", 4)>>}
          ELSE {<<c>> : c \in Columns} \cup {<<CharColumn(1023), Whole("INT", 4)>>, [i \in 1..9 |-> Whole("INT", 4)]}

\* The last second that a TIMESTAMP can hold.
LastSecond == 2147483647

\* Fractions of a second with this precision, in microseconds.
Usecs(precision) == {0, 987654 - (987654 % 10^(6 - precision))}

\* What a cell of the column can hold: a number (the bits of a FLOAT or DOUBLE,
\* the index of an ENUM), the length of a string, or a point in time.
Held(c) ==
  CASE c.type = "TIME2" ->
         {t \in [time : [is_negative : 0..1, hours : Times, minutes : Times, seconds : Times], usecs : Usecs(c.meta[1])] :
            t.time.is_negative = 1 => Clock(t.time) + t.usecs > 0}
    [] c.type = "DATETIME2" ->
         [date : [years : {0, 9999}, months : {0, 1, 12}, days : {1, 31}, hours : {0, 23}, minutes : Times, seconds : Times],
          usecs : Usecs(c.meta[1])]
    [] c.type = "TIMESTAMP2" -> [seconds : {0, 258, LastSecond}, usecs : Usecs(c.meta[1])]
    [] c.type = "TIMESTAMP" -> {0, 258, LastSecond}
    [] c.type = "YEAR" -> {0, 1901, 2155}
    [] c.prefix > 0 -> {0, 3} \cup (IF c.prefix > 1 THEN {256} ELSE {})
    [] OTHER -> {0, 3} \cup (IF c.fixed[1] > 1 THEN {258} ELSE {}) \cup (IF c.meta = <<>> THEN {-2} ELSE {})

\* The same cell as the server writes it: a length and a string, or numbers of
\* a fixed size.  Times are written with the most significant byte first.  The
\* fraction of a negative time counts up from the second before.
Written(c, v) ==
  LET negative == c.type = "TIME2" /\ v.time.is_negative = 1 /\ v.usecs > 0
      main == CASE c.type = "TIME2"      -> Reversed(Digits(EncodedTime(v.time) - (IF negative THEN 1 ELSE 0), 3))
                [] c.type = "DATETIME2"  -> DateBytes(EncodedMonth(v.date), EncodedDay(v.date))
                [] c.type = "TIMESTAMP2" -> Reversed(Digits(v.seconds, 4))
                [] c.type = "YEAR"       -> Digits(IF v = 0 THEN 0 ELSE v - 1900, 1)
                [] OTHER                 -> Digits(v, c.fixed[1])
      count == v.usecs \div 10^(6 - 2 * c.fixed[2])
      fraction == Reversed(Digits(IF negative THEN -count ELSE count, c.fixed[2]))
  IN  IF c.prefix > 0 THEN <<F(Digits(v, c.prefix), c.prefix), F(v, v)>>
      ELSE [i \in 1..Len(c.fixed) |-> F(IF i = 1 THEN main ELSE fraction, c.fixed[i])]

\* A row: a sequence of cells, <<>> for NULL.
Images(cols) ==
  LET cell(c) == {<<v>> : v \in Held(c)} \cup (IF c.nullable THEN {<<>>} ELSE {})
  IN  CASE Len(cols) = 1 -> {<<x>> : x \in cell(cols[1])}
        [] Len(cols) = 2 -> {<<x, y>> : x \in cell(cols[1]), y \in cell(cols[2])}
        [] OTHER -> {[i \in 1..Len(cols) |-> <<3>>], [i \in 1..Len(cols) |-> IF i = 9 THEN <<>> ELSE <<0>>]}

WrittenImage(cols, image) ==
  <<F(Masked([i \in 1..Len(cols) |-> image[i] = <<>>]), BitmaskBytes(Len(cols)))>>
  \o Joined([i \in 1..Len(cols) |-> IF image[i] = <<>> THEN <<>> ELSE Written(cols[i], image[i][1])])

TableMapBody(id, cols) ==
  LET metas == Joined([i \in 1..Len(cols) |-> cols[i].meta])
  IN  <<F(id, 6), F(0, 2)>> \o add_varint(Len(cols))
      \o [i \in 1..Len(cols) |-> F(cols[i].type, 1)]
      \o add_varint(Len(metas)) \o [i \in 1..Len(metas) |-> F(metas[i], 1)]
      \o <<F(Masked([i \in 1..Len(cols) |-> cols[i].nullable]), BitmaskBytes(Len(cols)))>>

\* The rows of an event.  gone says for each image of a row whether its first
\* column is left out, as the bitmask of the columns present tells.
RowsBody(id, version, gone, cols, data) ==
  LET left(i) == gone[1 + ((i - 1) % Len(gone))]
      cut(s)  == [j \in 1..(Len(cols) - 1) |-> s[j + 1]]
  IN  <<F(id, 6), F(0, 2)>> \o (IF version = 2 THEN <<F(2, 2)>> ELSE <<>>) \o add_varint(Len(cols))
      \o [i \in 1..Len(gone) |-> F(2^Len(cols) - (IF gone[i] THEN 2 ELSE 1), BitmaskBytes(Len(cols)))]
      \o Joined([i \in 1..Len(data) |-> IF left(i) THEN WrittenImage(cut(cols), cut(data[i]))
                                                   ELSE WrittenImage(cols, data[i])])

\* The event the server sends next: in its log, with a checksum, or made up.
Logged(type, body) ==
  [type |-> type, body |-> body, size |-> 19 + Bytes(body), length |-> 23 + Bytes(body),
   end_position |-> srv.pos + 23 + Bytes(body)]
Artificial(type, body) ==
  [type |-> type, body |-> body, size |-> 19 + Bytes(body), length |-> 19 + Bytes(body), end_position |-> 0]

-----------------------------------------------------------------------------
(* BinlogProcessor *)

\* The columns of a table map event.
TableInfo(r) ==
  LET n     == get_varint(r, 3)
      types == [i \in 1..n |-> r[2 + get_varint_span(r, 3) + i].v]
      at    == 3 + get_varint_span(r, 3) + n
      first == at + get_varint_span(r, at)
      skipped(i) == Sum([j \in 1..n |-> metadata_bytes_for_column_type(types[j])], i)
      mask  == r[first + get_varint(r, at)].v
  IN  [parsed  |-> skipped(n) = get_varint(r, at),
       columns |-> [i \in 1..n |->
         [type |-> types[i], nullable |-> get_bitmask(mask, i - 1),
          meta |-> [j \in 1..metadata_bytes_for_column_type(types[i]) |-> r[first + skipped(i - 1) + j - 1].v]]]]

\* Where the cell of each column begins, and where the row ends; 0 once
\* read_row_data has thrown, -1 once it is out of step.
RowPlaces(cols, r, p) ==
  LET cell(i, at) == CASE at <= 0 -> at
                       [] at > 0 /\ get_bitmask(r[p].v, i - 1) -> IF cols[i].nullable THEN at ELSE 0
                       [] OTHER -> LET span == CellSpan(cols[i], r, at) IN IF span <= 0 THEN span ELSE at + span
      f[i \in 0..Len(cols)] ==
        IF i = 0 THEN <<IF InStep(r, p, BitmaskBytes(Len(cols))) THEN p + 1 ELSE -1>>
        ELSE LET g == f[i - 1] IN Append(g, cell(i, g[i]))
  IN  f[Len(cols)]

read_row_data(cols, r, p) ==
  LET f   == RowPlaces(cols, r, p)
      end == f[Len(cols) + 1]
  IN  [next  |-> end,
       bytes |-> Bytes(SubSeq(r, p, end - 1)),
       row   |-> IF end <= 0 THEN <<>>
                 ELSE [i \in 1..Len(cols) |-> IF get_bitmask(r[p].v, i - 1) THEN <<>>
                                              ELSE <<read_cell_data(cols[i], r, f[i])>>]]

\* The rows from field p to the end of the event.
RowsFrom(cols, r, from) ==
  LET f[p \in from..(Len(r) + 1)] ==
        IF p > Len(r) THEN <<>>
        ELSE LET x == read_row_data(cols, r, p) IN IF x.next <= 0 THEN <<x>> ELSE <<x>> \o f[x.next]
  IN  f[from]

has_preimage(write_type, version) == write_type = "UPDATE" /\ version > 0

\* Where the number of columns is, and the first row; in between are the
\* bitmasks of the columns present, which all must be.
ColumnCount(version) == IF version = 2 THEN 4 ELSE 3
FirstRow(r, write_type, version) ==
  LET at == ColumnCount(version)
  IN  at + get_varint_span(r, at) + (IF has_preimage(write_type, version) THEN 2 ELSE 1)
AllPresent(r, write_type, version) ==
  LET n == get_varint(r, ColumnCount(version))
  IN  \A p \in (ColumnCount(version) + get_varint_span(r, ColumnCount(version)))..(FirstRow(r, write_type, version) - 1) :
        InStep(r, p, BitmaskBytes(n)) /\ \A x \in 1..n : get_bitmask(r[p].v, x - 1)

-----------------------------------------------------------------------------
(* What a program does with every event *)

\* Mutation of Accounted: the checksum is forgotten.
Accounted_NoChecksum(e) ==
  current_position' = IF e.end_position # 0 THEN e.end_position - e.size ELSE current_position

\* MySQLBinlogStats, before it looks at the type of the event.
Accounted(e) ==
  current_position' = IF e.end_position # 0 THEN e.end_position - e.size - 4 ELSE current_position

counted(e) == transaction_event_bytes + e.size

\* print_pos_comment_start
Printed(e) == IF e.end_position = 0 THEN <<0, 0>>
              ELSE <<reader_filename, e.end_position - e.length>>

Silent == printed' = <<0, 0>> /\ UNCHANGED reader_filename
Shown(e) == printed' = Printed(e) /\ UNCHANGED reader_filename

\* The server sends an event, which is in its log or made up.
Sends(e, phase) ==
  /\ ~failed /\ srv.n < MaxEvents
  /\ srv' = [srv EXCEPT !.n = @ + 1, !.phase = phase, !.artificial = e.end_position = 0,
                        !.place = <<srv.file, srv.pos>>,
                        !.pos = IF e.end_position = 0 THEN @ ELSE e.end_position]
  /\ Accounted(e)

Counted(e) ==
  /\ transaction_event_bytes' = counted(e)
  /\ trx' = IF trx = 0 THEN 0 ELSE trx + e.size
  /\ UNCHANGED reported

Parsed(e) == position' = e.end_position /\ UNCHANGED <<filename, table_map>>
NoEvent == [read |-> "none", whole |-> TRUE]
NoRows == rows' = NoEvent

\* A parse_... method throws: the exception ends the program.
Unparsed(e) == failed' = TRUE /\ UNCHANGED proc

Init ==
  /\ \E start \in Starts, phase \in {"idle", "statement"} :
       /\ start = 4 => phase = "idle"
       /\ srv = [file |-> 1, pos |-> start, phase |-> "rotate", resume |-> phase, n |-> 0,
                 place |-> <<0, 0>>, artificial |-> TRUE]
  /\ table \in [id : Ids, columns : {<<Whole("INT", 4)>>}, sent : {FALSE}] /\ trx = 0
  /\ filename = 0 /\ position = 4 /\ table_map = <<>>
  /\ current_filename = 1 /\ current_position = srv.pos /\ transaction_event_bytes = 0
  /\ reader_filename = 1 /\ printed = <<0, 0>>
  /\ reported = <<0, 0>> /\ rows = NoEvent /\ failed = FALSE

-----------------------------------------------------------------------------
(* Events *)

\* Mutation of parse_rotate_event: the position is that of the end of the event.
parse_rotate_event_End(file, pos, e) == filename' = file /\ position' = e.end_position /\ UNCHANGED table_map

parse_rotate_event(file, pos, e) == filename' = file /\ position' = pos /\ UNCHANGED table_map

\* Both programs take the name of the file from the event.
NextFile(file, e) == current_filename' = file /\ printed' = Printed(e) /\ reader_filename' = file

\* Sent at the start, and after each change of file.
Rotated ==
  LET e == Artificial("ROTATE", <<F(srv.pos, 8), F(srv.file, 16)>>)
  IN  /\ srv.phase = "rotate" /\ Sends(e, "format") /\ Counted(e)
      /\ parse_rotate_event(srv.file, srv.pos, e) /\ NextFile(srv.file, e)
      /\ NoRows /\ UNCHANGED <<table, failed>>

\* The last event of a file.
Rotate ==
  LET e == Logged("ROTATE", <<F(4, 8), F(srv.file + 1, 16)>>)
  IN  /\ srv.phase = "idle" /\ ~failed /\ srv.n < MaxEvents
      /\ srv' = [srv EXCEPT !.n = @ + 1, !.phase = "rotate", !.resume = "idle", !.artificial = FALSE,
                            !.place = <<srv.file, srv.pos>>, !.file = @ + 1, !.pos = 4]
      /\ Accounted(e) /\ Counted(e)
      /\ parse_rotate_event(srv.file + 1, 4, e) /\ NextFile(srv.file + 1, e)
      /\ NoRows /\ UNCHANGED <<table, failed>>

\* In the log at the start of a file; made up for a reader that starts later.
\* The version stands for all it checks.
parse_format_description_event(version) ==
  LET body == <<F(version, 2), F(0, 96)>>
      e == IF srv.pos = 4 THEN Logged("FORMAT_DESCRIPTION", body) ELSE Artificial("FORMAT_DESCRIPTION", body)
  IN  /\ srv.phase = "format" /\ Sends(e, srv.resume) /\ Counted(e)
      /\ IF version = 4 THEN Parsed(e) /\ UNCHANGED failed ELSE Unparsed(e)
      /\ Silent /\ NoRows /\ UNCHANGED <<table, current_filename>>

\* Mutation of BEGIN: the count goes on from the events before.
BEGIN_Counting(e) == transaction_event_bytes' = counted(e) /\ trx' = e.size /\ UNCHANGED reported

BEGIN(e) == transaction_event_bytes' = e.size /\ trx' = e.size /\ UNCHANGED reported

COMMIT(e) ==
  /\ transaction_event_bytes' = 0 /\ trx' = 0
  /\ reported' = IF trx = 0 THEN reported ELSE <<counted(e), trx + e.size>>

parse_query_event(query) ==
  LET e == Logged("QUERY", <<F(0, 14), F(query, IF query = "BEGIN" THEN 5 ELSE 6)>>)
  IN  /\ srv.phase = IF query = "COMMIT" THEN "statement" ELSE "idle"
      /\ Sends(e, IF query = "BEGIN" THEN "statement" ELSE "idle")
      /\ CASE query = "BEGIN" -> BEGIN(e) [] query = "COMMIT" -> COMMIT(e) [] OTHER -> Counted(e)
      /\ IF query = "OTHER" THEN Shown(e) ELSE Silent
      /\ Parsed(e) /\ NoRows /\ UNCHANGED <<table, current_filename, failed>>

parse_xid_event ==
  LET e == Logged("XID", <<F(0, 8)>>)
  IN  /\ srv.phase = "statement" /\ Sends(e, "idle") /\ COMMIT(e)
      /\ Parsed(e) /\ Silent /\ NoRows /\ UNCHANGED <<table, current_filename, failed>>

\* A GTID, a STOP or an event the programs do not know.
parse_unknown_event(type) ==
  LET e == Logged(type, <<>>)
  IN  /\ srv.phase = "idle" /\ Sends(e, "idle") /\ Counted(e)
      /\ IF type = "GTID" THEN Silent ELSE Shown(e)
      /\ Parsed(e) /\ NoRows /\ UNCHANGED <<table, current_filename, failed>>

parse_table_map_event(id, cols) ==
  LET e == Logged("TABLE_MAP", TableMapBody(id, cols))
      ti == TableInfo(e.body)
  IN  /\ srv.phase = "statement" /\ Sends(e, "statement") /\ Counted(e)
      /\ table' = [id |-> id, columns |-> cols, sent |-> TRUE]
      /\ IF ti.parsed THEN /\ table_map' = (id :> ti.columns) @@ table_map /\ position' = e.end_position
                           /\ UNCHANGED <<filename, failed>>
                      ELSE Unparsed(e)
      /\ Silent /\ NoRows /\ UNCHANGED current_filename

\* The rows the server writes: one, or two of which the first is always the
\* same.
RowData(write_type, version) ==
  LET all  == Images(table.columns)
      some == CHOOSE image \in all : TRUE
  IN  (IF has_preimage(write_type, version) THEN {} ELSE {<<a>> : a \in IF srv.n > Wide THEN {some} ELSE all})
      \cup {<<some, b>> : b \in IF srv.n > Wide THEN {some} ELSE all}

\* What is left out of the images of a row: of tables with several columns.
LeftOut(write_type, version) ==
  [1..(IF has_preimage(write_type, version) THEN 2 ELSE 1) -> IF Len(table.columns) > 1 THEN BOOLEAN ELSE {FALSE}]

\* A reader that knows the table gets back from the Value x what the cell held.
\* Integers have lost their sign but not their bytes, a TIMESTAMP2 is read the
\* wrong way round and has no fraction.  Not judged are the fraction of a negative
\* time and a date in the month 0.
Tells(c, v, x) ==
  CASE c.type = "TIME2"      -> x = v \/ (v.time.is_negative = 1 /\ v.usecs > 0)
    [] c.type = "DATETIME2"  -> x = v \/ v.date.months = 0
    [] c.type = "TIMESTAMP2" -> Unsigned(Reversed(SubSeq(x, 1, 4))) = v.seconds
    [] c.type = "TIMESTAMP"  -> Unsigned(Quotient(x, 1000000)) = v
    [] c.type = "YEAR"       -> v = IF x[1] = 0 THEN 0 ELSE 1900 + x[1]
    [] c.prefix > 0          -> x = v
    [] OTHER                 -> Signed(SubSeq(x, 1, c.fixed[1])) = v

\* The row that read_row_data returned is the one the server wrote, and so is
\* its size.
SameRow(x, image) ==
  /\ x.next # -1 /\ Len(x.row) = Len(image)
  /\ \A i \in 1..Len(image) :
       IF image[i] = <<>> THEN x.row[i] = <<>>
       ELSE x.row[i] # <<>> /\ Tells(table.columns[i], image[i][1], x.row[i][1])
  /\ x.bytes = Bytes(WrittenImage(table.columns, image))

SameRows(read, data) == Len(read) = Len(data) /\ \A i \in 1..Len(data) : SameRow(read[i], data[i])

\* read_row_data threw, which ends the event.
Threw(read) == \E i \in 1..Len(read) : read[i].next = 0

\* The id of no table, in an event that frees the table maps.
FREE == 16777215

parse_rows_event(id, write_type, version, gone, data) ==
  LET e    == Logged("ROWS", RowsBody(id, version, gone, table.columns, data))
      ti   == table_map[id]
      read == RowsFrom(ti, e.body, FirstRow(e.body, write_type, version))
      good == /\ id # FREE /\ id \in DOMAIN table_map
              /\ get_varint(e.body, ColumnCount(version)) = Len(ti)
              /\ AllPresent(e.body, write_type, version)
              /\ ~Threw(read)
  IN  /\ srv.phase = "statement" /\ Sends(e, "statement") /\ Counted(e)
      /\ rows' = [read |-> IF good /\ SameRows(read, data) THEN "right" ELSE "wrong",
                  whole |-> id # FREE /\ \A i \in DOMAIN gone : ~gone[i]]
      /\ IF good THEN Parsed(e) /\ Shown(e) /\ UNCHANGED failed
                 ELSE Unparsed(e) /\ Silent
      /\ UNCHANGED <<table, current_filename>>

\* StatsDClient::send fails: the exception ends the coroutine.
SendFails ==
  /\ ~failed /\ failed' = TRUE /\ NoRows
  /\ UNCHANGED <<server, proc, stats, reader, reported>>

Next ==
  \/ Rotated \/ Rotate \/ parse_xid_event \/ SendFails
  \/ \E version \in {3, 4} : parse_format_description_event(version)
  \/ \E query \in {"BEGIN", "COMMIT", "OTHER"} : parse_query_event(query)
  \/ \E type \in {"GTID", "STOP", "UNKNOWN"} : parse_unknown_event(type)
  \/ \E id \in Ids, cols \in Tables : parse_table_map_event(id, cols)
  \/ /\ srv.phase = "statement" /\ srv.n < MaxEvents
     /\ \E write_type \in {"INSERT", "UPDATE", "DELETE"}, version \in 0..2 :
          \E id \in {table.id, FREE}, gone \in LeftOut(write_type, version), data \in RowData(write_type, version) :
            parse_rows_event(id, write_type, version, gone, data)

Spec == Init /\ [][Next]_vars

Symmetry == Permutations(Ids)

-----------------------------------------------------------------------------
(* Properties *)

\* From the Values of every row that parse_rows_event returns the row that the
\* server wrote can be told (Tells names what is lost), and its size is right,
\* whatever the columns, the nulls, the version of the event and the order in
\* which table ids were mapped and mapped again.  It throws, and does not return
\* something else, for a column it does not support, a table whose map was sent
\* before the reader started, an event that frees table maps, and rows of which
\* columns are left out.
RowsFaithful ==
  rows.read = "wrong" =>
    failed /\ (~table.sent \/ ~rows.whole \/ \E i \in 1..Len(table.columns) : ~Supported(table.columns[i]))

\* BinlogProcessor's filename and position are where the next event begins:
\* a reader that starts there again misses nothing and repeats nothing.  Only
\* a made-up format description, at the start of a stream, clears them.
PositionFollows ==
  ~failed /\ srv.n > 0 =>
    filename = srv.file /\ (position = srv.pos \/ (position = 0 /\ srv.artificial))

\* The position MySQLBinlogStats reports, and the comment MySQLBinlogReader
\* prints, are where the event begins, in the file it is in.
PlacesTrue ==
  srv.n > 0 /\ ~srv.artificial =>
    /\ current_position = srv.place[2]
    /\ printed[1] # 0 => printed = srv.place

\* The bytes reported at COMMIT or XID are those of the events from BEGIN on,
\* whatever was sent between transactions.
TransactionBytes == reported[1] = reported[2]

=============================================================================
