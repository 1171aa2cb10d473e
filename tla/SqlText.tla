------------------------------ MODULE SqlText -------------------------------
(***************************************************************************)
(* From a line of input to a statement (src/src/parser.c).                 *)
(*                                                                         *)
(* A line is a sequence of symbols: a keyword, the name of a table or a    *)
(* column, a letter, a numeral or one of the characters that part them.    *)
(* However it is spelled, a keyword is one symbol; " " stands for all of   *)
(* the blanks.  Lines and names fit into the buffers, numbers have no      *)
(* sign, and null in place of an id is left to module Statements.          *)
(*                                                                         *)
(* An operator introduced by "As ..., but" is no part of the model: it is  *)
(* a slip the code could have made, and README.md names the property that  *)
(* rejects it.                                                             *)
(***************************************************************************)
EXTENDS Integers, SequencesExt

CONSTANTS
  MAX_CELL_TEXT,
  MAX_SCHEMA_COLUMNS,
  MAX_INSERT_ROWS,
  UINT32_MAX

Quote == "\""
Blanks == {" "}
Breaks == Blanks \cup {"(", ")", ",", ";"}
Marks == Breaks \cup {Quote, "=", "*"}

Digits == <<"0", "1", "2", "3", "4", "5", "6", "7", "8", "9">>
DigitOf == [d \in ToSet(Digits) |-> (CHOOSE i \in DOMAIN Digits : Digits[i] = d) - 1]

Failed == [type |-> "failed"]

At(line, i) == IF i \in DOMAIN line THEN line[i] ELSE "end"

\* The first place from i on with a symbol of S, or without one.
Until(line, i, S) ==
  Min({j \in i .. Len(line) : line[j] \in S} \cup {Len(line) + 1})
skip_spaces(line, i, S) ==
  Min({j \in i .. Len(line) : line[j] \notin S} \cup {Len(line) + 1})

is_valid_identifier(token) == token # <<>> /\ \A s \in ToSet(token) : s \notin Marks

\* How a number is shown.
Numeral(n) == ToString(n)

\* A number, -1 if the text is none: strtoul skips blanks in front.
parse_u32(text) ==
  LET digits == SubSeq(text, skip_spaces(text, 1, Blanks), Len(text))
      number[i \in 0 .. Len(digits)] ==
        IF i = 0 THEN 0 ELSE 10 * number[i - 1] + DigitOf[digits[i]]
  IN IF digits = <<>> \/ ~(ToSet(digits) \subseteq DOMAIN DigitOf) THEN -1
     ELSE IF number[Len(digits)] > UINT32_MAX THEN -1 ELSE number[Len(digits)]

-----------------------------------------------------------------------------
(* Statements that are split into tokens as a whole. *)

\* As TokenEnd, but a quoted token ends at a blank, too.
TokenEndAtBlank(line, i) ==
  IF line[i] = Quote THEN Until(line, i + 1, {Quote} \cup Blanks) ELSE Until(line, i, Breaks)

\* Where the token that begins at i ends.
TokenEnd(line, i) ==
  IF line[i] = Quote THEN Until(line, i + 1, {Quote}) ELSE Until(line, i, Breaks)

split_tokens_sql(line) ==
  LET From[i \in 1 .. Len(line) + 2] ==
        LET start == skip_spaces(line, i, Breaks) IN
        IF start > Len(line) THEN <<>>
        ELSE LET end == TokenEnd(line, start)
                 first == IF line[start] = Quote THEN start + 1 ELSE start
             IN <<SubSeq(line, first, end - 1)>> \o From[end + 1]
  IN From[1]

\* parse_delete_from and parse_update_table.
WithoutEquals(line) == [i \in DOMAIN line |-> IF line[i] = "=" THEN " " ELSE line[i]]

\* The tokens are those of a form, in which "?" stands for any.
Matches(tokens, form) ==
  /\ Len(tokens) = Len(form)
  /\ \A i \in DOMAIN form : form[i] = "?" \/ tokens[i] = <<form[i]>>

Column(name, type) ==
  [name |-> name, type |-> type, max |-> IF type = "text" THEN MAX_CELL_TEXT ELSE 0]

\* Columns are read two tokens at a time; a single one at the end is ignored.
parse_create_table(line) ==
  LET tokens == split_tokens_sql(line)
      primary == At(tokens, 6) = <<"primary">> /\ At(tokens, 7) = <<"key">>
      rest == SubSeq(tokens, IF primary THEN 8 ELSE 6, Len(tokens))
      columns == [i \in 1 .. Len(rest) \div 2 |-> [name |-> rest[2 * i - 1], type |-> rest[2 * i]]]
  IN IF /\ Len(tokens) >= 8
        /\ Matches(SubSeq(tokens, 1, 5), <<"create", "table", "?", "id", "int">>)
        /\ is_valid_identifier(tokens[3])
        /\ Len(columns) < MAX_SCHEMA_COLUMNS
        /\ \A c \in ToSet(columns) :
             is_valid_identifier(c.name) /\ c.type \in {<<"int">>, <<"text">>}
     THEN [type |-> "create", table |-> tokens[3],
           schema |-> <<Column(<<"id">>, "int")>>
                        \o [i \in DOMAIN columns |-> Column(columns[i].name, columns[i].type[1])]]
     ELSE Failed

parse_select_from(line) ==
  LET tokens == split_tokens_sql(line) IN
  IF Matches(tokens, <<"select", "*", "from", "?">>) /\ is_valid_identifier(tokens[4])
  THEN [type |-> "select", table |-> tokens[4]]
  ELSE Failed

parse_drop_table(line) ==
  LET tokens == split_tokens_sql(line) IN
  IF Matches(tokens, <<"drop", "table", "?">>) /\ is_valid_identifier(tokens[3])
  THEN [type |-> "drop", table |-> tokens[3]]
  ELSE Failed

parse_delete_from(line) ==
  LET tokens == split_tokens_sql(WithoutEquals(line)) IN
  IF /\ Matches(tokens, <<"delete", "from", "?", "where", "id", "?">>)
     /\ is_valid_identifier(tokens[3]) /\ parse_u32(tokens[6]) # -1
  THEN [type |-> "delete", table |-> tokens[3], id |-> parse_u32(tokens[6])]
  ELSE Failed

parse_update_table(line) ==
  LET tokens == split_tokens_sql(WithoutEquals(line)) IN
  IF /\ Matches(tokens, <<"update", "?", "set", "?", "?", "where", "id", "?">>)
     /\ is_valid_identifier(tokens[2]) /\ is_valid_identifier(tokens[4])
     /\ parse_u32(tokens[8]) # -1
  THEN [type |-> "update", table |-> tokens[2], column |-> tokens[4], value |-> tokens[5],
        id |-> parse_u32(tokens[8])]
  ELSE Failed

-----------------------------------------------------------------------------
(* An insert is read from left to right.  A place of 0 is where it failed. *)

consume_keyword_ci(line, i, keyword) ==
  LET p == skip_spaces(line, i, Blanks) IN
  IF i # 0 /\ At(line, p) = keyword /\ At(line, p + 1) \in Marks \cup {"end"} THEN p + 1 ELSE 0

\* A value, in quotes or not, of one symbol at least.
QuotedValue(line, first, end) ==
  [text |-> SubSeq(line, first, end - 1), next |-> IF end > first /\ end <= Len(line) THEN end + 1 ELSE 0]
BareValue(line, first, end) ==
  [text |-> SubSeq(line, first, end - 1), next |-> IF end > first THEN end ELSE 0]
ValueAt(line, p) ==
  IF At(line, p) = Quote THEN QuotedValue(line, p + 1, Until(line, p + 1, {Quote}))
  ELSE BareValue(line, p, Until(line, p, Blanks \cup {",", ")", ";"}))
parse_sql_value_token(line, i) == ValueAt(line, skip_spaces(line, i, Blanks))

\* The values from i to the bracket that closes the row.
NoValues == [values |-> <<>>, next |-> 0]
Prepend(text, row) == [row EXCEPT !.values = <<text>> \o @]
Delimiter(line, value) == IF value.next = 0 THEN 0 ELSE skip_spaces(line, value.next, Blanks)
ValuesOfRow(line, i) ==
  LET From[p \in 1 .. Len(line) + 1] ==
        LET value == parse_sql_value_token(line, p)
            next == Delimiter(line, value)
        IN IF At(line, next) = ")" THEN [values |-> <<value.text>>, next |-> next + 1]
           ELSE IF At(line, next) = "," THEN Prepend(value.text, From[next + 1])
           ELSE NoValues
  IN From[i]

\* The row that begins at p, if its first value is an id.
RowOf(read) ==
  IF read.next # 0 /\ Len(read.values) <= MAX_SCHEMA_COLUMNS /\ parse_u32(read.values[1]) # -1
  THEN read ELSE NoValues
RowAt(line, p) == IF At(line, p) = "(" THEN RowOf(ValuesOfRow(line, p + 1)) ELSE NoValues

\* The rows from i on, none if one cannot be read.  A comma at the end is
\* ignored, as is a semicolon.
AllOrNone(row, rest) ==
  IF rest = <<>> THEN <<>> ELSE <<[id |-> parse_u32(row.values[1]), values |-> row.values]>> \o rest
OnlyRow(row) == <<[id |-> parse_u32(row.values[1]), values |-> row.values]>>
AtEnd(line, p) ==
  At(line, IF At(line, p) = ";" THEN skip_spaces(line, p + 1, Blanks) ELSE p) = "end"
parse_insert_values_clause(line, i) ==
  LET From[p \in 1 .. Len(line) + 1] ==
        LET row == RowAt(line, p)
            next == Delimiter(line, row)
            after == skip_spaces(line, next + 1, Blanks)
        IN IF next = 0 THEN <<>>
           ELSE IF At(line, next) = "," /\ after <= Len(line) THEN AllOrNone(row, From[after])
           ELSE IF At(line, next) = "," \/ AtEnd(line, next) THEN OnlyRow(row)
           ELSE <<>>
  IN From[skip_spaces(line, i, Blanks)]

\* A name here must not begin with a numeral.
InsertWith(table, rows) ==
  IF /\ table # <<>> /\ table[1] \notin DOMAIN DigitOf
     /\ rows # <<>> /\ Len(rows) <= MAX_INSERT_ROWS
  THEN [type |-> "insert", table |-> table, rows |-> rows]
  ELSE Failed
AfterName(line, name, end, start) ==
  IF start = 0 THEN Failed
  ELSE InsertWith(SubSeq(line, name, end - 1), parse_insert_values_clause(line, start))
AfterInto(line, name, end) == AfterName(line, name, end, consume_keyword_ci(line, end, "values"))
NameAt(line, name) == AfterInto(line, name, Until(line, name, Marks))
parse_insert_into(line) ==
  LET start == consume_keyword_ci(line, consume_keyword_ci(line, 1, "insert"), "into") IN
  IF start = 0 THEN Failed ELSE NameAt(line, skip_spaces(line, start, Blanks))

\* The parsers are tried in this order.
parse_sql_statement(line) ==
  LET parsed == <<parse_create_table(line), parse_insert_into(line), parse_select_from(line),
                  parse_delete_from(line), parse_update_table(line), parse_drop_table(line)>>
      accepted == {i \in DOMAIN parsed : parsed[i] # Failed}
  IN IF accepted = {} THEN Failed ELSE parsed[Min(accepted)]
=============================================================================
