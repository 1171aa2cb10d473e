---------------------------- MODULE MCTextTable -----------------------------
(***************************************************************************)
(* Small instances of TextTable for TLC: lines in the forms README.md of   *)
(* the repository and its tests give.                                      *)
(***************************************************************************)
EXTENDS TextTableProperties

CONSTANT EQUALS   \* bound: whether updates set texts that hold "="

\* What is written, in quotes or not, and the number it means.
Bare(text, number) == [text |-> text, number |-> number, written |-> text]
Quoted(text, number) ==
  [text |-> text, number |-> number, written |-> <<Quote>> \o text \o <<Quote>>]
Id(n) == Bare(<<n>>, n)

Numbers == {Bare(<<"1">>, "1"), Bare(<<"1", "1">>, "11"), Bare(<<"1", "2">>, "none")}
Words == {Bare(<<"x">>, "none"), Bare(<<"x", "1">>, "none")}
Texts ==
  {Quoted(text, "none") : text \in
     {<<>>, <<"x">>, <<"x", "x">>, <<"x", "x", "x">>, <<"x", " ">>, <<" ", "x">>, <<",">>, <<")", "x">>,
      <<"(", ";">>, <<"1", "x">>, <<"x", "=">>}}
  \cup {Quoted(<<" ", "1">>, "1"), Quoted(<<"1">>, "1")}
Values == Numbers \cup Words \cup Texts
SomeValues == {Quoted(<<" ", "1">>, "1"), Quoted(<<"(", ";">>, "none")}
NewValues ==
  {Bare(<<"1">>, "1"), Bare(<<"x", "1">>, "none"), Quoted(<<"1", "2">>, "none")}
    \cup {Quoted(text, "none") : text \in {<<>>, <<"x", " ">>, <<"x", "x", "x">>, <<"=">>}}
FewValues == {Bare(<<"2">>, "2"), Quoted(<<"x", ",">>, "none")}

\* Blanks where none are needed, and a semicolon at the end.
Styles == {[blank |-> <<>>, end |-> <<>>], [blank |-> <<" ">>, end |-> <<" ", ";">>]}

Separated(parts, separator) ==
  FlattenSeq([i \in DOMAIN parts |-> IF i = 1 THEN parts[i] ELSE separator \o parts[i]])
Words_(words) == Separated([i \in DOMAIN words |-> <<words[i]>>], <<" ">>)
List(parts, style) ==
  <<"(">> \o style.blank
    \o Separated(parts, style.blank \o <<",">> \o style.blank) \o style.blank \o <<")">>

-----------------------------------------------------------------------------
CreateLine(columns, primary, style) ==
  LET Written(i) == Words_(<<columns[i].name[1], columns[i].type>>
                             \o IF i = 1 /\ primary THEN <<"primary", "key">> ELSE <<>>)
  IN Words_(<<"create", "table", "t">>) \o <<" ">>
       \o List([i \in DOMAIN columns |-> Written(i)], style) \o style.end

InsertLine(rows, style) ==
  LET Row(r) == List([i \in DOMAIN r |-> r[i].written], style)
  IN Words_(<<"insert", "into", "t", "values">>) \o style.blank
       \o Separated([i \in DOMAIN rows |-> Row(rows[i])], style.blank \o <<",">> \o style.blank)
       \o style.end

Where(id, style) ==
  <<" ", "where", " ", "id">> \o style.blank \o <<"=">> \o style.blank \o id.written \o style.end

UpdateLine(id, column, value, style) ==
  Words_(<<"update", "t", "set", column[1]>>) \o style.blank \o <<"=">> \o style.blank
    \o value.written \o Where(id, style)

-----------------------------------------------------------------------------
Named(name, type) == [name |-> <<name>>, type |-> type]
IdColumn == Named("id", "int")
Schemas ==
  {<<IdColumn, Named("a", s), Named("b", t)>> : s, t \in {"int", "text"}}
    \cup {<<IdColumn, Named("a", "text")>>}
    \cup {<<IdColumn, Named("a", "int"), Named("b", "int"), Named("c", "int")>>}

\* A table of two columns needs the words "primary key" (see ShortTables).
Creates ==
  {[request |-> [kind |-> "create", columns |-> s], line |-> CreateLine(s, p, style)] :
     s \in Schemas, p \in {TRUE}, style \in Styles}
  \cup {[request |-> [kind |-> "create", columns |-> s], line |-> CreateLine(s, FALSE, style)] :
     s \in {r \in Schemas : Len(r) > 2}, style \in Styles}

OneRow ==
  {<<<<Id("1"), v>>>> : v \in Values} \cup
  UNION {{<<<<Id("1"), v, w>>>>, <<<<Id("1"), w, v>>>>} : v \in Values, w \in SomeValues}
TwoRows ==
  {<<<<Id(m), v, w>>, <<Id(n), w, v>>>> : m, n \in {"1", "2"}, v, w \in FewValues}
Inserts ==
  {[request |-> [kind |-> "insert", rows |-> rows], line |-> InsertLine(rows, style)] :
     rows \in OneRow \cup TwoRows, style \in Styles}

Updates ==
  {[request |-> [kind |-> "update", id |-> Id(n), column |-> <<c>>, value |-> v],
    line |-> UpdateLine(Id(n), <<c>>, v, style)] :
     n \in {"1"}, c \in {"id", "a", "b"}, style \in Styles,
     v \in {w \in NewValues : EQUALS \/ "=" \notin ToSet(w.text)}}

Others ==
  UNION {{[request |-> [kind |-> "delete", id |-> Id(n)],
           line |-> Words_(<<"delete", "from", "t">>) \o Where(Id(n), style)],
          [request |-> [kind |-> "select"],
           line |-> Words_(<<"select", "*", "from", "t">>) \o style.end],
          [request |-> [kind |-> "drop"],
           line |-> Words_(<<"drop", "table", "t">>) \o style.end]} :
            n \in {"1", "2"}, style \in Styles}

Documented == Creates \cup Inserts \cup Updates \cup Others

\* "(optionally `primary key`)", README.md:167: not so for a table of two columns.
ShortTables ==
  {[request |-> [kind |-> "create", columns |-> s], line |-> CreateLine(s, FALSE, style)] :
     s \in Schemas, style \in Styles}
=============================================================================
