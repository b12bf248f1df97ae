------------------------------ MODULE UrlParams ------------------------------
(***************************************************************************)
(* Request::parse_url_params (Protocols/HTTP/Request.cc): the query of a   *)
(* URL is split into names and values, and each value is decoded in place, *)
(* in the string it is read from.  Pure operators over sequences of        *)
(* characters.                                                             *)
(***************************************************************************)
EXTENDS Integers, Sequences, SequencesExt

\* The characters with the hexadecimal digits of their codes; a query is made
\* of the characters and of the digits.
Code == [c \in {" ", "&", "a"} |-> CASE c = " " -> <<"2", "0">> [] c = "&" -> <<"2", "6">> [] OTHER -> <<"6", "1">>]
HexDigits == {"0", "1", "2", "6", "a"}

\* phosg's value_for_hex_char for both digits; what is not the code of a
\* character of the model is Other, and no digit is an exception.
Other == "?"
Exception == "!"
HexChar(h, l) ==
  IF {h, l} \subseteq HexDigits
  THEN LET cs == {c \in DOMAIN Code : Code[c] = <<h, l>>} IN IF cs = {} THEN Other ELSE CHOOSE c \in cs : TRUE
  ELSE Exception

\* The character at offset i; the one after the last is the terminator.
At(value, i) == IF i < Len(value) THEN value[i + 1] ELSE "0x00"

\* Is there an escape at offset r?  size() - 2 wraps around for a value of one
\* character (and the loop does not run for an empty one).
Escaped(value, r) == At(value, r) = "%" /\ (r < Len(value) - 2 \/ Len(value) = 1)

\* Mutation of Unescape: the last two characters are never the end of an escape.
Unescape_Short(value, w, r) ==
  IF At(value, r) = "%" /\ r < Len(value) - 3 THEN <<HexChar(At(value, r + 1), At(value, r + 2)), 3>>
  ELSE <<IF At(value, w) = "+" THEN " " ELSE At(value, r), 1>>

\* One turn of the loop: the character that is written at offset w, and how far
\* the reading goes on from r.  The plus is looked for at the offset of the
\* writing, which is behind the reading after an escape.
Unescape(value, w, r) ==
  IF Escaped(value, r) THEN <<HexChar(At(value, r + 1), At(value, r + 2)), 3>>
  ELSE <<IF At(value, w) = "+" THEN " " ELSE At(value, r), 1>>

\* The loop over write_offset, in place, and the resize.
Decoded(value) ==
  LET turn[w \in 0..Len(value)] ==
        IF w = 0 THEN [value |-> value, r |-> 0, size |-> 0]
        ELSE LET prev == turn[w - 1] IN
             IF prev.r >= Len(value) THEN prev
             ELSE LET u == Unescape(prev.value, w - 1, prev.r)
                  IN [value |-> [prev.value EXCEPT ![w] = u[1]], r |-> prev.r + u[2], size |-> w]
      end == turn[Len(value)]
  IN SubSeq(end.value, 1, end.size)

\* The pieces of s between the separators (phosg's split).
Pieces(s, separator) ==
  LET ends == {i \in DOMAIN s : s[i] = separator} \cup {0, Len(s) + 1}
      from == SetToSortSeq(ends, <)
  IN [i \in 1..Len(from) - 1 |-> SubSeq(s, from[i] + 1, from[i + 1] - 1)]

\* The parameters in the order of the query; the multimap keeps them all.
parse_url_params(query) ==
  LET param(it) ==
        LET equals == {i \in DOMAIN it : it[i] = "="} IN
        IF equals = {} THEN [name |-> it, value |-> <<>>]
        ELSE LET first == CHOOSE i \in equals : \A j \in equals : i <= j
             IN [name |-> SubSeq(it, 1, first - 1), value |-> Decoded(SubSeq(it, first + 1, Len(it)))]
  IN IF query = <<>> THEN <<>> ELSE [i \in DOMAIN Pieces(query, "&") |-> param(Pieces(query, "&")[i])]

-----------------------------------------------------------------------------
(* What a client may write for a value *)

\* The forms of a character: itself, a plus for the space, or an escape.
Forms(c) == {<<"%">> \o Code[c]} \cup (CASE c = " " -> {<<"+">>} [] c = "a" -> {<<c>>} [] OTHER -> {})

\* The encodings of a text.
Encodings(text) == {FlattenSeq(fs) : fs \in {f \in [DOMAIN text -> UNION {Forms(c) : c \in DOMAIN Code}] :
                                              \A i \in DOMAIN text : f[i] \in Forms(text[i])}}

\* A plus comes after an escape.
PlusAfterEscape(value) == \E i, j \in DOMAIN value : i < j /\ value[i] = "%" /\ value[j] = "+"
=============================================================================
