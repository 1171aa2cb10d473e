--------------------------- MODULE TextTableProofs ---------------------------
(***************************************************************************)
(* Proofs about TextTable for every line, every number of columns and      *)
(* every length of text: the cells of a row always fit the schema in the   *)
(* catalog, and where lines are parsed to what they mean, a select shows   *)
(* what has been written.                                                  *)
(***************************************************************************)
EXTENDS TextTableProperties, Lemmas

\* Strings that are written out are no nuls, but the provers do not know them to be
\* in STRING.
Symbols == Characters \cup {" ", "id"}
Text == Seq(Symbols)

LEMMA NoNul == Nul \notin Symbols
BY DEF Symbols, Characters, Nul

-----------------------------------------------------------------------------
(* Places in a line. *)

\* The least of a set of numbers.
LEMMA MinOf ==
  ASSUME NEW T, T \subseteq Nat, T # {}
  PROVE  Min(T) \in T /\ \A k \in T : Min(T) <= k
<1>1. \E m \in T : \A k \in T : m <= k
  BY LeastOf
<1> QED BY <1>1, Zenon DEF Min

\* Until and skip_spaces stop at a place of the line, or behind it, and pass what
\* they must.
LEMMA StopsAt ==
  ASSUME NEW A, NEW line \in Seq(A), NEW i \in 1 .. Len(line) + 1, NEW S
  PROVE  /\ Until(line, i, S) \in i .. Len(line) + 1
         /\ Until(line, i, S) <= Len(line) => line[Until(line, i, S)] \in S
         /\ \A j \in i .. Until(line, i, S) - 1 : line[j] \notin S
         /\ skip_spaces(line, i, S) \in i .. Len(line) + 1
         /\ skip_spaces(line, i, S) <= Len(line) => line[skip_spaces(line, i, S)] \notin S
<1> DEFINE In == {j \in i .. Len(line) : line[j] \in S} \cup {Len(line) + 1}
           Out == {j \in i .. Len(line) : line[j] \notin S} \cup {Len(line) + 1}
<1>1. Len(line) \in Nat /\ i \in Nat
  OBVIOUS
<1>2. In \subseteq Nat /\ In # {} /\ Out \subseteq Nat /\ Out # {}
  BY <1>1
<1>3. Min(In) \in In /\ \A k \in In : Min(In) <= k
  <2> HIDE DEF In
  <2> QED BY <1>2, MinOf
<1>4. Min(Out) \in Out
  <2> HIDE DEF Out
  <2> QED BY <1>2, MinOf
<1>5. Until(line, i, S) = Min(In) /\ skip_spaces(line, i, S) = Min(Out)
  BY DEF Until, skip_spaces
<1> DEFINE u == Min(In)
           v == Min(Out)
<1>6. u \in i .. Len(line) + 1 /\ (u <= Len(line) => line[u] \in S)
  <2> HIDE DEF u
  <2>1. u \in In
    BY <1>3 DEF u
  <2> QED BY <1>1, <2>1
<1>7. \A j \in i .. u - 1 : line[j] \notin S
  <2>1. SUFFICES ASSUME NEW j \in i .. u - 1, line[j] \in S PROVE FALSE
    OBVIOUS
  <2>2. u \in Nat
    BY <1>1, <1>6
  <2>3. j \in i .. Len(line)
    <3> HIDE DEF u
    <3> QED BY <1>1, <1>6, <2>2
  <2>4. j \in In /\ u <= j
    BY <1>3, <2>1, <2>3
  <2> HIDE DEF u
  <2> QED BY <1>1, <2>2, <2>4
<1>8. v \in i .. Len(line) + 1 /\ (v <= Len(line) => line[v] \notin S)
  <2> HIDE DEF v
  <2>1. v \in Out
    BY <1>4 DEF v
  <2> QED BY <1>1, <2>1
<1> QED BY <1>5, <1>6, <1>7, <1>8

\* The digits of a number.
LEMMA DigitsOf ==
  \A d \in DOMAIN DigitOf : DigitOf[d] \in 0 .. 9
<1>1. DOMAIN Digits = 1 .. 10
  BY DEF Digits
<1>2. ASSUME NEW d \in ToSet(Digits)
      PROVE  DigitOf[d] \in 0 .. 9
  <2>1. \E i \in DOMAIN Digits : Digits[i] = d
    BY <1>2, Zenon DEF ToSet
  <2>2. (CHOOSE i \in DOMAIN Digits : Digits[i] = d) \in 1 .. 10
    BY <1>1, <2>1
  <2> QED BY <2>2 DEF DigitOf
<1> QED BY <1>2 DEF DigitOf

\* What parse_u32 makes of a text is a number of 32 bits, or none.
LEMMA ParsedNumber ==
  ASSUME NEW S, NEW text \in Seq(S)
  PROVE  parse_u32(text) \in -1 .. UINT32_MAX
<1> DEFINE start == skip_spaces(text, 1, Blanks)
           digits == SubSeq(text, start, Len(text))
           n == Len(digits)
           number[i \in 0 .. n] == IF i = 0 THEN 0 ELSE 10 * number[i - 1] + DigitOf[digits[i]]
           step == [i \in 1 .. n |-> [m \in Nat |-> 10 * m + DigitOf[digits[i]]]]
<1>0. UINT32_MAX \in Nat
  BY TextTableAssumption
<1>1. parse_u32(text) = IF digits = <<>> \/ ~(ToSet(digits) \subseteq DOMAIN DigitOf) THEN -1
                        ELSE IF number[n] > UINT32_MAX THEN -1 ELSE number[n]
  BY Zenon DEF parse_u32
<1>2. CASE digits = <<>> \/ ~(ToSet(digits) \subseteq DOMAIN DigitOf)
  <2> HIDE DEF number, n, digits
  <2> QED BY <1>0, <1>1, <1>2
<1>3. CASE ToSet(digits) \subseteq DOMAIN DigitOf
  <2>1. digits \in Seq(S) /\ n \in Nat /\ DOMAIN digits = 1 .. n
    <3>1. start \in 1 .. Len(text) + 1 /\ Len(text) \in Nat
      BY StopsAt
    <3>2. digits \in Seq(S) /\ Len(digits) \in Nat
      <4> HIDE DEF start
      <4>1. start \in Nat \ {0} /\ Len(text) <= Len(text) /\ start <= Len(text) + 1
        BY <3>1
      <4> QED BY <3>1, <4>1, Portion
    <3> HIDE DEF digits
    <3> QED BY <3>2
  <2>2. \A i \in 1 .. n : DigitOf[digits[i]] \in Nat
    <3> HIDE DEF digits
    <3>1. \A i \in 1 .. n : digits[i] \in DOMAIN DigitOf
      BY <1>3, <2>1 DEF ToSet
    <3> QED BY <3>1, DigitsOf
  <2>3. AreSteps(step, n, Nat)
    <3> HIDE DEF digits, n
    <3> QED BY <2>1, <2>2 DEF AreSteps
  <2>4. PICK f : Iterates(f, 0, step, n, Nat)
    <3> HIDE DEF step, n
    <3> QED BY <2>1, <2>3, Iteration
  <2>5. f = [i \in 0 .. n |-> IF i = 0 THEN 0 ELSE 10 * f[i - 1] + DigitOf[digits[i]]]
    <3> HIDE DEF digits, n
    <3>1. \A i \in 1 .. n : f[i] = 10 * f[i - 1] + DigitOf[digits[i]]
      <4> TAKE i \in 1 .. n
      <4>1. i - 1 \in 0 .. n /\ f[i] = step[i][f[i - 1]]
        <5> HIDE DEF step, number
        <5> QED BY <2>1, <2>4 DEF Iterates
      <4>2. f[i - 1] \in Nat
        <5> HIDE DEF step, number
        <5> QED BY <4>1, <2>4 DEF Iterates
      <4> HIDE DEF number
      <4> QED BY <4>1, <4>2
    <3> QED BY <2>1, <2>4, <3>1 DEF Iterates
  <2>6. number = [i \in 0 .. n |-> IF i = 0 THEN 0 ELSE 10 * number[i - 1] + DigitOf[digits[i]]]
    <3> HIDE DEF digits, n
    <3> QED BY <2>5, Zenon
  <2>7. number[n] \in Nat
    <3> HIDE DEF digits, n, number
    <3> DEFINE T == {i \in 0 .. n : number[i] \in Nat}
    <3>1. 0 \in T
      BY <2>1, <2>6
    <3>2. ASSUME NEW k \in 0 .. n - 1, k \in T
          PROVE  k + 1 \in T
      <4>1. k + 1 \in 1 .. n /\ k + 1 \in 0 .. n /\ k + 1 # 0 /\ (k + 1) - 1 = k /\ number[k] \in Nat
        BY <2>1, <3>2
      <4>2. number[k + 1] = 10 * number[k] + DigitOf[digits[k + 1]]
        BY <2>6, <4>1
      <4> QED BY <2>2, <4>1, <4>2
    <3> HIDE DEF T
    <3>3. \A k \in 0 .. n : k \in T
      BY <2>1, <3>1, <3>2, UpTo
    <3> QED BY <2>1, <3>3 DEF T
  <2> HIDE DEF number, n, digits
  <2> QED BY <1>0, <1>1, <2>7
<1> QED BY <1>2, <1>3

-----------------------------------------------------------------------------
(* The columns of a row. *)

Types == {"int", "text"}
ColumnRecords == [name : Text, type : Types, max : Nat]
MaxOf(type) == IF type = "text" THEN MAX_CELL_TEXT ELSE 0
Schemas ==
  {schema \in Seq(ColumnRecords) :
     /\ Len(schema) \in 1 .. MAX_SCHEMA_COLUMNS /\ schema[1].type = "int"
     /\ \A i \in DOMAIN schema : schema[i].max = MaxOf(schema[i].type)}

\* The columns begin one behind the other.
LaysOut(layout, schema) ==
  /\ layout \in Seq([type : Types, offset : Nat, size : Nat]) /\ Len(layout) = Len(schema)
  /\ \A i \in 1 .. Len(schema) :
       /\ layout[i].type = schema[i].type /\ layout[i].size = ColSize(schema[i])
       /\ i # 1 => layout[i].offset = layout[i - 1].offset + layout[i - 1].size

LEMMA ColumnsLaidOut ==
  ASSUME NEW schema \in Schemas
  PROVE  LaysOut(compute_row_layout(schema), schema)
<1> DEFINE n == Len(schema)
           end[i \in 0 .. n] == IF i = 0 THEN 0 ELSE end[i - 1] + ColSize(schema[i])
           step == [i \in 1 .. n |-> [m \in Nat |-> m + ColSize(schema[i])]]
           layout == [i \in DOMAIN schema |->
             [type |-> schema[i].type, offset |-> end[i - 1], size |-> ColSize(schema[i])]]
<1>0. n \in Nat /\ DOMAIN schema = 1 .. n
  BY DEF Schemas
<1>1. \A i \in 1 .. n : ColSize(schema[i]) \in Nat /\ schema[i].type \in Types
  <2> TAKE i \in 1 .. n
  <2>1. schema[i] \in ColumnRecords
    BY DEF Schemas
  <2> QED BY <2>1 DEF ColumnRecords, Types, ColSize
<1>2. AreSteps(step, n, Nat)
  <2> HIDE DEF n
  <2> QED BY <1>0, <1>1 DEF AreSteps
<1>3. PICK f : Iterates(f, 0, step, n, Nat)
  <2> HIDE DEF step, n
  <2> QED BY <1>0, <1>2, Iteration
<1>4. \A i \in 1 .. n : i - 1 \in 0 .. n /\ f[i] = f[i - 1] + ColSize(schema[i])
  <2> TAKE i \in 1 .. n
  <2>1. i - 1 \in 0 .. n /\ f[i] = step[i][f[i - 1]] /\ f[i - 1] \in Nat
    <3> HIDE DEF step, n, end
    <3>1. i - 1 \in 0 .. n
      BY <1>0
    <3> QED BY <1>3, <3>1 DEF Iterates
  <2> HIDE DEF n, end
  <2> QED BY <2>1
<1>5. f = [i \in 0 .. n |-> IF i = 0 THEN 0 ELSE f[i - 1] + ColSize(schema[i])]
  <2> HIDE DEF n, step, end
  <2> QED BY <1>0, <1>3, <1>4 DEF Iterates
<1>6. end = [i \in 0 .. n |-> IF i = 0 THEN 0 ELSE end[i - 1] + ColSize(schema[i])]
  BY <1>5, Zenon
<1>7. compute_row_layout(schema) = layout
  BY Zenon DEF compute_row_layout
<1> HIDE DEF end, n, step
<1>8. \A i \in 0 .. n : end[i] \in Nat
  <2> DEFINE T == {i \in 0 .. n : end[i] \in Nat}
  <2>1. 0 \in T
    BY <1>0, <1>6
  <2>2. ASSUME NEW k \in 0 .. n - 1, k \in T
        PROVE  k + 1 \in T
    <3>1. k + 1 \in 1 .. n /\ k + 1 \in 0 .. n /\ k + 1 # 0 /\ (k + 1) - 1 = k /\ end[k] \in Nat
      BY <1>0, <2>2
    <3>2. end[k + 1] = end[k] + ColSize(schema[k + 1])
      BY <1>6, <3>1
    <3> QED BY <1>1, <3>1, <3>2
  <2> HIDE DEF T
  <2>3. \A k \in 0 .. n : k \in T
    BY <1>0, <2>1, <2>2, UpTo
  <2> QED BY <2>3 DEF T
<1>9. layout \in Seq([type : Types, offset : Nat, size : Nat]) /\ Len(layout) = n
  <2>1. \A i \in 1 .. n : i - 1 \in 0 .. n
    BY <1>0
  <2> QED BY <1>0, <1>1, <1>8, <2>1
<1>10. ASSUME NEW i \in 1 .. n, i # 1
       PROVE  layout[i].offset = layout[i - 1].offset + layout[i - 1].size
  <2>1. i - 1 \in 1 .. n /\ i - 1 \in 0 .. n /\ i - 1 # 0
    BY <1>0, <1>10
  <2>2. end[i - 1] = end[(i - 1) - 1] + ColSize(schema[i - 1])
    BY <1>6, <2>1
  <2> QED BY <1>0, <2>1, <2>2
<1>11. \A i \in 1 .. n : layout[i].type = schema[i].type /\ layout[i].size = ColSize(schema[i])
  BY <1>0
<1> HIDE DEF layout
<1> QED BY <1>7, <1>9, <1>10, <1>11 DEF LaysOut, n

Width(layout) == Last(layout).offset + Last(layout).size

\* No column reaches into the next ones, or behind the row.
LEMMA ColumnsApart ==
  ASSUME NEW schema \in Schemas, NEW layout, LaysOut(layout, schema)
  PROVE  /\ Width(layout) \in Nat
         /\ \A i \in 1 .. Len(schema) : layout[i].offset + layout[i].size <= Width(layout)
         /\ \A i, j \in 1 .. Len(schema) :
              i < j => layout[i].offset + layout[i].size <= layout[j].offset
<1> DEFINE n == Len(schema)
           Till(i) == layout[i].offset + layout[i].size
           T == {j \in 0 .. n : \A i \in 1 .. n : i < j => Till(i) <= layout[j].offset}
<1>0. n \in Nat /\ n >= 1
  BY DEF Schemas
<1>1. \A i \in 1 .. n : /\ layout[i].offset \in Nat /\ layout[i].size \in Nat
                        /\ Till(i) \in Nat /\ Till(i) >= layout[i].offset
  <2> TAKE i \in 1 .. n
  <2>1. layout[i] \in [type : Types, offset : Nat, size : Nat]
    <3>1. i \in 1 .. Len(layout) /\ layout \in Seq([type : Types, offset : Nat, size : Nat])
      BY <1>0 DEF LaysOut
    <3> QED BY <3>1, ElementOfSeq
  <2>2. layout[i].offset \in Nat /\ layout[i].size \in Nat
    BY <2>1
  <2> QED BY <2>2
<1>2. 0 \in T
  BY <1>0
<1>3. ASSUME NEW k \in 0 .. n - 1, k \in T
      PROVE  k + 1 \in T
  <2>1. k \in Nat /\ k + 1 \in 1 .. n
    BY <1>0
  <2>2. CASE k = 0
    BY <1>0, <2>2
  <2>3. CASE k # 0
    <3>1. k \in 1 .. n /\ k + 1 # 1 /\ (k + 1) - 1 = k
      BY <1>0, <2>1, <2>3
    <3>2. layout[k + 1].offset = Till(k)
      BY <2>1, <3>1 DEF LaysOut
    <3>3. ASSUME NEW i \in 1 .. n, i < k + 1
          PROVE  Till(i) <= layout[k + 1].offset
      <4>1. CASE i = k
        BY <1>1, <3>1, <3>2, <4>1
      <4>2. CASE i < k
        <5>1. Till(i) <= layout[k].offset
          BY <1>3, <4>2
        <5> HIDE DEF T, Till
        <5> QED BY <1>1, <3>1, <3>2, <5>1
      <4> QED BY <2>1, <3>3, <4>1, <4>2
    <3> QED BY <2>1, <3>3
  <2> QED BY <2>2, <2>3
<1>4. \A j \in 0 .. n : j \in T
  <2> HIDE DEF T, n
  <2> QED BY <1>0, <1>2, <1>3, UpTo
<1>5. \A i, j \in 1 .. n : i < j => Till(i) <= layout[j].offset
  <2>1. \A j \in 1 .. n : j \in T
    <3>1. \A j \in 1 .. n : j \in 0 .. n
      BY <1>0
    <3> HIDE DEF T
    <3> QED BY <1>4, <3>1
  <2> QED BY <2>1
<1>6. Last(layout) = layout[n] /\ n \in 1 .. n
  BY <1>0 DEF LaysOut, Last
<1>7. Width(layout) = Till(n)
  BY <1>6 DEF Width
<1>8. \A i \in 1 .. n : Till(i) <= Width(layout)
  <2> TAKE i \in 1 .. n
  <2>1. CASE i = n
    BY <1>1, <1>6, <1>7, <2>1
  <2>2. CASE i # n
    <3>1. i < n
      BY <1>0, <2>2
    <3>2. Till(i) <= layout[n].offset
      BY <1>5, <1>6, <3>1
    <3> HIDE DEF T, Till, n
    <3> QED BY <1>1, <1>6, <1>7, <3>2
  <2> QED BY <2>1, <2>2
<1> QED BY <1>1, <1>5, <1>6, <1>7, <1>8

-----------------------------------------------------------------------------
(* The cells of a column. *)

CellValues == Symbols \cup {Nul}
Rows == Seq(CellValues)

\* The cells of a column hold a text, and nuls behind it.
Holds(row, col, text) ==
  /\ text \in Text /\ Len(text) <= col.size
  /\ \A c \in 1 .. Len(text) : row[col.offset + c] = text[c]
  /\ \A c \in Len(text) + 1 .. col.size : row[col.offset + c] = Nul

LEMMA HeldIsShown ==
  ASSUME NEW row \in Rows, NEW col, col.offset \in Nat, col.size \in Nat,
         col.offset + col.size <= Len(row), NEW text, Holds(row, col, text)
  PROVE  Shown(row, col) = text
<1> DEFINE from == col.offset + 1
           to == col.offset + col.size
           part == SubSeq(row, from, to)
           u == Until(part, 1, {Nul})
<1>1. /\ part \in Seq(CellValues) /\ Len(part) = col.size
      /\ \A c \in 1 .. col.size : part[c] = row[col.offset + c]
  <2>1. from \in Nat \ {0} /\ to \in Nat /\ to <= Len(row) /\ from <= to + 1 /\ to - from + 1 = col.size
        /\ \A c \in 1 .. col.size : c + from - 1 = col.offset + c
    <3> DEFINE o == col.offset
               z == col.size
    <3>1. o \in Nat /\ z \in Nat /\ o + z <= Len(row)
      OBVIOUS
    <3> HIDE DEF o, z
    <3>2. /\ o + 1 \in Nat \ {0} /\ o + z \in Nat /\ o + 1 <= (o + z) + 1 /\ (o + z) - (o + 1) + 1 = z
          /\ \A c \in 1 .. z : c + (o + 1) - 1 = o + c
      BY <3>1
    <3> QED BY <3>1, <3>2 DEF o, z
  <2> HIDE DEF from, to
  <2>2. /\ part \in Seq(CellValues) /\ Len(part) = to - from + 1
        /\ \A c \in 1 .. to - from + 1 : part[c] = row[c + from - 1]
    BY <2>1, Portion DEF Rows
  <2> QED BY <2>1, <2>2
<1>2. Shown(row, col) = SubSeq(part, 1, u - 1)
  BY DEF Shown, bounded_text_len
<1> HIDE DEF part, from, to
<1>3. /\ text \in Seq(Symbols) /\ Len(text) \in Nat /\ Len(text) <= col.size
      /\ \A c \in 1 .. Len(text) : text[c] # Nul
  <2>1. text \in Seq(Symbols) /\ Len(text) \in Nat /\ Len(text) <= col.size
    BY DEF Holds, Text
  <2> QED BY <2>1, NoNul
<1>4. /\ u \in 1 .. col.size + 1 /\ (u <= col.size => part[u] \in {Nul})
      /\ \A c \in 1 .. u - 1 : part[c] \notin {Nul}
  <2>1. 1 \in 1 .. Len(part) + 1
    BY <1>1
  <2> QED BY <1>1, <2>1, StopsAt
<1> HIDE DEF u
<1>5. /\ \A c \in 1 .. Len(text) : part[c] = text[c] /\ text[c] # Nul
      /\ \A c \in Len(text) + 1 .. col.size : part[c] = Nul
  <2>1. /\ \A c \in 1 .. Len(text) : row[col.offset + c] = text[c]
        /\ \A c \in Len(text) + 1 .. col.size : row[col.offset + c] = Nul
    BY DEF Holds
  <2>2. /\ \A c \in 1 .. Len(text) : c \in 1 .. col.size
        /\ \A c \in Len(text) + 1 .. col.size : c \in 1 .. col.size
    BY <1>3
  <2> QED BY <1>1, <1>3, <2>1, <2>2
<1>6. u = Len(text) + 1
  <2>1. ~(u < Len(text) + 1)
    BY <1>3, <1>4, <1>5
  <2>2. ~(u > Len(text) + 1)
    <3> SUFFICES ASSUME u > Len(text) + 1 PROVE FALSE
      OBVIOUS
    <3>1. Len(text) + 1 \in 1 .. u - 1 /\ Len(text) + 1 \in Len(text) + 1 .. col.size
      BY <1>3, <1>4
    <3> QED BY <1>4, <1>5, <3>1
  <2> QED BY <1>3, <1>4, <2>1, <2>2
<1>7. /\ SubSeq(part, 1, u - 1) \in Seq(CellValues) /\ Len(SubSeq(part, 1, u - 1)) = Len(text)
      /\ \A c \in 1 .. Len(text) : SubSeq(part, 1, u - 1)[c] = part[c]
  <2> DEFINE m == u - 1
  <2>1. m \in Nat /\ m <= Len(part) /\ 1 <= m + 1 /\ m - 1 + 1 = Len(text)
        /\ \A c \in 1 .. Len(text) : c + 1 - 1 = c
    BY <1>1, <1>3, <1>6
  <2> HIDE DEF m
  <2>2. /\ SubSeq(part, 1, m) \in Seq(CellValues) /\ Len(SubSeq(part, 1, m)) = m - 1 + 1
        /\ \A c \in 1 .. m - 1 + 1 : SubSeq(part, 1, m)[c] = part[c + 1 - 1]
    <3>1. 1 \in Nat \ {0}
      OBVIOUS
    <3> QED BY <1>1, <2>1, <3>1, Portion
  <2> QED BY <2>1, <2>2 DEF m
<1>8. SubSeq(part, 1, u - 1) = text
  <2> DEFINE a == SubSeq(part, 1, u - 1)
  <2>1. a \in Seq(CellValues) /\ Len(a) = Len(text) /\ \A c \in 1 .. Len(text) : a[c] = text[c]
    BY <1>5, <1>7
  <2>2. text \in Seq(CellValues)
    <3>1. Symbols \subseteq CellValues
      BY DEF CellValues
    <3> QED BY <1>3, <3>1, SeqMonotonic
  <2> HIDE DEF a
  <2>3. a \in Seq(CellValues) /\ text \in Seq(CellValues) /\ Len(a) = Len(text)
        /\ \A c \in 1 .. Len(a) : a[c] = text[c]
    BY <2>1, <2>2
  <2>4. a = text
    BY <2>3, SeqEqual
  <2> QED BY <2>4 DEF a
<1> QED BY <1>2, <1>8

\* A value takes its column and leaves the other cells alone.
LEMMA ColumnPut ==
  ASSUME NEW row \in Rows, NEW col, col.offset \in Nat, col.size \in Nat,
         col.offset + col.size <= Len(row),
         NEW text, Put(col.type, text) \in Text, Len(Put(col.type, text)) <= col.size
  PROVE  /\ PutColumn(row, col, text) \in Rows
         /\ Len(PutColumn(row, col, text)) = Len(row)
         /\ Holds(PutColumn(row, col, text), col, Put(col.type, text))
         /\ \A k \in 1 .. Len(row) :
              k <= col.offset \/ k > col.offset + col.size => PutColumn(row, col, text)[k] = row[k]
<1> DEFINE o == col.offset
           z == col.size
           w == Len(row)
           v == Put(col.type, text)
           m == Len(v)
           nuls == [k \in 1 .. z - m |-> Nul]
           a == SubSeq(row, 1, o)
           d == SubSeq(row, o + z + 1, w)
           r == PutColumn(row, col, text)
<1>1. o \in Nat /\ z \in Nat /\ w \in Nat /\ o + z <= w /\ m \in Nat /\ m <= z
  BY DEF Text, Rows
<1>2. r = ((a \o v) \o nuls) \o d
  BY DEF PutColumn
<1>3. v \in Seq(CellValues) /\ \A c \in 1 .. m : v[c] \in CellValues
  <2>1. v \in Seq(Symbols) /\ Symbols \subseteq CellValues
    BY DEF Text, CellValues
  <2>2. v \in Seq(CellValues)
    <3> HIDE DEF v
    <3> QED BY <2>1, SeqMonotonic
  <2> QED BY <2>2
<1> HIDE DEF o, z, w, r, v
<1>4. nuls \in Seq(CellValues) /\ Len(nuls) = z - m /\ \A c \in 1 .. z - m : nuls[c] = Nul
  <2>1. z - m \in Nat
    BY <1>1 DEF m
  <2>2. Nul \in CellValues
    BY DEF CellValues
  <2> QED BY <2>1, <2>2
<1> HIDE DEF m, nuls
<1>5. a \in Seq(CellValues) /\ Len(a) = o /\ \A c \in 1 .. o : a[c] = row[c]
  <2>1. /\ a \in Seq(CellValues) /\ Len(a) = o - 1 + 1
        /\ \A c \in 1 .. o - 1 + 1 : a[c] = row[c + 1 - 1]
    <3>1. 1 \in Nat \ {0} /\ o <= Len(row) /\ 1 <= o + 1 /\ row \in Seq(CellValues)
      BY <1>1 DEF w, Rows
    <3> QED BY <1>1, <3>1, Portion
  <2>2. o - 1 + 1 = o /\ \A c \in 1 .. o : c + 1 - 1 = c
    BY <1>1
  <2> HIDE DEF a
  <2> QED BY <2>1, <2>2
<1>6. /\ d \in Seq(CellValues) /\ Len(d) = w - (o + z)
      /\ \A c \in 1 .. w - (o + z) : d[c] = row[c + (o + z)]
  <2> DEFINE e == o + z + 1
  <2>1. /\ e \in Nat \ {0} /\ w \in Nat /\ w <= Len(row) /\ e <= w + 1 /\ row \in Seq(CellValues)
        /\ w - e + 1 = w - (o + z) /\ \A c \in 1 .. w - (o + z) : c + e - 1 = c + (o + z)
    <3>1. w = Len(row) /\ row \in Seq(CellValues)
      BY DEF w, Rows
    <3> QED BY <1>1, <3>1
  <2> HIDE DEF e
  <2>2. /\ SubSeq(row, e, w) \in Seq(CellValues) /\ Len(SubSeq(row, e, w)) = w - e + 1
        /\ \A c \in 1 .. w - e + 1 : SubSeq(row, e, w)[c] = row[c + e - 1]
    BY <2>1, Portion
  <2>3. d = SubSeq(row, e, w)
    BY DEF e
  <2> HIDE DEF d
  <2> QED BY <2>1, <2>2, <2>3
<1> HIDE DEF a, d
<1> DEFINE x == a \o v
           y == x \o nuls
<1>7. /\ x \in Seq(CellValues) /\ Len(x) = o + m
      /\ \A k \in 1 .. o + m : x[k] = IF k <= o THEN a[k] ELSE v[k - o]
  BY <1>1, <1>3, <1>5, ConcatProperties DEF m
<1> HIDE DEF x
<1>8. /\ y \in Seq(CellValues) /\ Len(y) = o + z
      /\ \A k \in 1 .. o + z : y[k] = IF k <= o + m THEN x[k] ELSE nuls[k - (o + m)]
  <2>1. /\ y \in Seq(CellValues) /\ Len(y) = Len(x) + Len(nuls)
        /\ \A k \in 1 .. Len(x) + Len(nuls) : y[k] = IF k <= Len(x) THEN x[k] ELSE nuls[k - Len(x)]
    BY <1>4, <1>7, ConcatProperties
  <2>2. (o + m) + (z - m) = o + z
    BY <1>1
  <2> HIDE DEF y
  <2> QED BY <1>4, <1>7, <2>1, <2>2
<1>9. r = y \o d
  BY <1>2 DEF x, y
<1> HIDE DEF y
<1>10. /\ r \in Seq(CellValues) /\ Len(r) = w
       /\ \A k \in 1 .. w : r[k] = IF k <= o + z THEN y[k] ELSE d[k - (o + z)]
  <2>1. /\ r \in Seq(CellValues) /\ Len(r) = Len(y) + Len(d)
        /\ \A k \in 1 .. Len(y) + Len(d) : r[k] = IF k <= Len(y) THEN y[k] ELSE d[k - Len(y)]
    <3>1. y \in Seq(CellValues) /\ d \in Seq(CellValues)
      BY <1>6, <1>8
    <3> DEFINE c == y \o d
    <3>2. /\ c \in Seq(CellValues) /\ Len(c) = Len(y) + Len(d)
          /\ \A k \in 1 .. Len(y) + Len(d) : c[k] = IF k <= Len(y) THEN y[k] ELSE d[k - Len(y)]
      BY <3>1, ConcatProperties
    <3> HIDE DEF c
    <3>3. r = c
      BY <1>9 DEF c
    <3> QED BY <3>2, <3>3
  <2>2. (o + z) + (w - (o + z)) = w
    BY <1>1
  <2>3. Len(y) = o + z /\ Len(d) = w - (o + z)
    BY <1>6, <1>8
  <2>4. Len(y) + Len(d) = w
    BY <2>2, <2>3
  <2>5. \A k \in 1 .. w : r[k] = IF k <= o + z THEN y[k] ELSE d[k - (o + z)]
    BY <2>1, <2>3, <2>4, Zenon
  <2> QED BY <2>1, <2>4, <2>5
<1>11. \A k \in 1 .. w : k <= o \/ k > o + z => r[k] = row[k]
  <2> TAKE k \in 1 .. w
  <2>1. CASE k <= o
    BY <1>1, <1>5, <1>7, <1>8, <1>10, <2>1
  <2>2. CASE k > o + z
    <3>1. k - (o + z) \in 1 .. w - (o + z) /\ (k - (o + z)) + (o + z) = k /\ ~(k <= o + z)
      BY <1>1, <2>2
    <3> QED BY <1>6, <1>10, <3>1
  <2> QED BY <2>1, <2>2
<1>12. \A c \in 1 .. m : r[o + c] = v[c]
  <2> TAKE c \in 1 .. m
  <2>1. /\ o + c \in 1 .. o + m /\ o + c \in 1 .. o + z /\ o + c \in 1 .. w
        /\ o + c <= o + z /\ o + c <= o + m /\ ~(o + c <= o) /\ (o + c) - o = c
    BY <1>1
  <2> QED BY <1>7, <1>8, <1>10, <2>1
<1>13. \A c \in m + 1 .. z : r[o + c] = Nul
  <2> TAKE c \in m + 1 .. z
  <2>1. /\ o + c \in 1 .. o + z /\ o + c \in 1 .. w
        /\ o + c <= o + z /\ ~(o + c <= o + m) /\ (o + c) - (o + m) = c - m /\ c - m \in 1 .. z - m
    BY <1>1
  <2> QED BY <1>4, <1>8, <1>10, <2>1
<1>14. Holds(r, col, v)
  BY <1>1, <1>12, <1>13 DEF Holds, o, z, m, v
<1> QED BY <1>10, <1>11, <1>14 DEF o, z, w, r, v, Rows

\* A text that is held stays held where its column is left alone.
LEMMA HeldElsewhere ==
  ASSUME NEW row, NEW other, NEW col, col.offset \in Nat, col.size \in Nat, NEW text, Holds(row, col, text),
         \A k \in col.offset + 1 .. col.offset + col.size : other[k] = row[k]
  PROVE  Holds(other, col, text)
<1> DEFINE o == col.offset
           z == col.size
           m == Len(text)
<1>1. o \in Nat /\ z \in Nat /\ m \in Nat /\ m <= z
  BY DEF Holds, Text
<1>2. \A c \in 1 .. m : row[o + c] = text[c]
  BY DEF Holds
<1>3. \A c \in m + 1 .. z : row[o + c] = Nul
  BY DEF Holds
<1>4. \A k \in o + 1 .. o + z : other[k] = row[k]
  OBVIOUS
<1>5. text \in Text
  BY DEF Holds
<1> HIDE DEF o, z, m
<1>6. \A c \in 1 .. m : other[o + c] = text[c]
  <2> TAKE c \in 1 .. m
  <2>1. o + c \in o + 1 .. o + z
    BY <1>1
  <2> QED BY <1>2, <1>4, <2>1
<1>7. \A c \in m + 1 .. z : other[o + c] = Nul
  <2> TAKE c \in m + 1 .. z
  <2>1. o + c \in o + 1 .. o + z
    BY <1>1
  <2> QED BY <1>3, <1>4, <2>1
<1> QED BY <1>1, <1>5, <1>6, <1>7 DEF Holds, o, z, m

\* A value that is valid for a column has the room it needs.
LEMMA ValidFits ==
  ASSUME NEW schema \in Schemas, NEW i \in 1 .. Len(schema), NEW text \in Text,
         ValueValid(schema[i], text)
  PROVE  Put(schema[i].type, text) \in Text /\ Len(Put(schema[i].type, text)) <= ColSize(schema[i])
<1>1. schema[i].type \in Types
  <2>1. schema[i] \in ColumnRecords
    BY DEF Schemas
  <2> QED BY <2>1 DEF ColumnRecords
<1>2. CASE schema[i].type = "int"
  <2>1. parse_u32(text) \in 0 .. UINT32_MAX
    <3>1. parse_u32(text) # -1
      BY <1>2 DEF ValueValid
    <3>2. parse_u32(text) \in -1 .. UINT32_MAX
      BY ParsedNumber DEF Text
    <3> QED BY <3>1, <3>2, TextTableAssumption
  <2>2. Numeral(parse_u32(text)) \in Symbols
    BY <2>1, TextTableAssumption, Zenon DEF Symbols
  <2>3. Put(schema[i].type, text) = <<Numeral(parse_u32(text))>> /\ ColSize(schema[i]) = 1
    BY <1>2 DEF Put, ColSize
  <2> HIDE DEF Numeral
  <2> QED BY <2>2, <2>3 DEF Text
<1>3. CASE schema[i].type = "text"
  BY <1>3 DEF ValueValid, Put, ColSize
<1> QED BY <1>1, <1>2, <1>3 DEF Types

ValidValues(values, schema) ==
  /\ values \in Seq(Text) /\ Len(values) = Len(schema)
  /\ \A i \in 1 .. Len(schema) : ValueValid(schema[i], values[i])

\* Each column of a row that is packed holds its value.
LEMMA RowPacked ==
  ASSUME NEW schema \in Schemas, NEW layout, layout = compute_row_layout(schema),
         NEW values, ValidValues(values, schema)
  PROVE  /\ pack_insert_row_values(values, layout) \in Rows
         /\ Len(pack_insert_row_values(values, layout)) = Width(layout)
         /\ \A i \in 1 .. Len(schema) :
              Holds(pack_insert_row_values(values, layout), layout[i], Put(schema[i].type, values[i]))
<1> DEFINE n == Len(layout)
           w == Last(layout).offset + Last(layout).size
           cleared == [k \in 1 .. w |-> Nul]
           row[i \in 0 .. n] ==
             IF i = 0 THEN cleared ELSE PutColumn(row[i - 1], layout[i], values[i])
           A == {r \in Rows : Len(r) = w}
           step == [i \in 1 .. n |-> [r \in A |-> PutColumn(r, layout[i], values[i])]]
<1>1. LaysOut(layout, schema)
  BY ColumnsLaidOut
<1>2. n = Len(schema) /\ n \in Nat
  BY <1>1 DEF LaysOut, Schemas
<1>3. /\ w = Width(layout) /\ w \in Nat
      /\ \A i \in 1 .. n : layout[i].offset + layout[i].size <= w
      /\ \A i, j \in 1 .. n : i < j => layout[i].offset + layout[i].size <= layout[j].offset
  BY <1>1, <1>2, ColumnsApart DEF Width
<1>4. \A i \in 1 .. n : /\ layout[i].offset \in Nat /\ layout[i].size \in Nat
                        /\ layout[i].type = schema[i].type /\ layout[i].size = ColSize(schema[i])
  <2> TAKE i \in 1 .. n
  <2>1. layout[i] \in [type : Types, offset : Nat, size : Nat]
    BY <1>1, ElementOfSeq DEF LaysOut
  <2> QED BY <1>1, <1>2, <2>1 DEF LaysOut
<1>5. \A i \in 1 .. n : /\ Put(layout[i].type, values[i]) \in Text
                        /\ Len(Put(layout[i].type, values[i])) <= layout[i].size
  <2> TAKE i \in 1 .. n
  <2>1. values[i] \in Text
    BY <1>2, ElementOfSeq DEF ValidValues
  <2> QED BY <1>2, <1>4, <2>1, ValidFits DEF ValidValues
<1>6. pack_insert_row_values(values, layout) = row[n]
  BY Zenon DEF pack_insert_row_values
<1> HIDE DEF n, w
<1>7. cleared \in A /\ \A k \in 1 .. w : cleared[k] = Nul
  <2>1. Nul \in CellValues
    BY DEF CellValues
  <2>2. cleared \in Seq(CellValues) /\ Len(cleared) = w
    BY <1>3, <2>1
  <2> QED BY <2>2 DEF Rows
<1>8. ASSUME NEW i \in 1 .. n, NEW r \in A
      PROVE  /\ PutColumn(r, layout[i], values[i]) \in A
             /\ Holds(PutColumn(r, layout[i], values[i]), layout[i], Put(layout[i].type, values[i]))
             /\ \A k \in 1 .. w : k <= layout[i].offset \/ k > layout[i].offset + layout[i].size
                                    => PutColumn(r, layout[i], values[i])[k] = r[k]
  <2>1. r \in Rows /\ Len(r) = w
    OBVIOUS
  <2> QED BY <1>3, <1>4, <1>5, <2>1, ColumnPut
<1> HIDE DEF A, cleared
<1>9. AreSteps(step, n, A)
  BY <1>8 DEF AreSteps
<1>10. PICK f : Iterates(f, cleared, step, n, A)
  <2> HIDE DEF step
  <2> QED BY <1>2, <1>7, <1>9, Iteration
<1>11. f \in [0 .. n -> A] /\ f[0] = cleared
       /\ \A i \in 1 .. n : i - 1 \in 0 .. n /\ f[i] = PutColumn(f[i - 1], layout[i], values[i])
  <2>1. \A i \in 1 .. n : i - 1 \in 0 .. n
    BY <1>2
  <2> HIDE DEF row
  <2> QED BY <1>10, <2>1 DEF Iterates
<1>12. f = [i \in 0 .. n |-> IF i = 0 THEN cleared ELSE PutColumn(f[i - 1], layout[i], values[i])]
  <2> HIDE DEF step, row
  <2> QED BY <1>2, <1>11
<1>13. row = [i \in 0 .. n |-> IF i = 0 THEN cleared ELSE PutColumn(row[i - 1], layout[i], values[i])]
  BY <1>12, Zenon
<1> HIDE DEF row, step
<1> DEFINE Right(k) ==
             /\ row[k] \in A
             /\ \A i \in 1 .. n : i <= k => Holds(row[k], layout[i], Put(layout[i].type, values[i]))
           T == {k \in 0 .. n : Right(k)}
<1>14. 0 \in T
  BY <1>2, <1>7, <1>13
<1>15. ASSUME NEW k \in 0 .. n - 1, k \in T
       PROVE  k + 1 \in T
  <2>1. k + 1 \in 1 .. n /\ k + 1 \in 0 .. n /\ k + 1 # 0 /\ (k + 1) - 1 = k
    BY <1>2
  <2>2. row[k + 1] = PutColumn(row[k], layout[k + 1], values[k + 1])
    BY <1>13, <2>1
  <2>3. row[k] \in A /\ \A i \in 1 .. n : i <= k => Holds(row[k], layout[i], Put(layout[i].type, values[i]))
    BY <1>15
  <2>4. /\ row[k + 1] \in A
        /\ Holds(row[k + 1], layout[k + 1], Put(layout[k + 1].type, values[k + 1]))
        /\ \A c \in 1 .. w : c <= layout[k + 1].offset \/ c > layout[k + 1].offset + layout[k + 1].size
                               => row[k + 1][c] = row[k][c]
    BY <1>8, <2>1, <2>2, <2>3
  <2>5. ASSUME NEW i \in 1 .. n, i <= k
        PROVE  Holds(row[k + 1], layout[i], Put(layout[i].type, values[i]))
    <3>1. layout[i].offset + layout[i].size <= layout[k + 1].offset
      BY <1>2, <1>3, <2>1, <2>5
    <3>2. \A c \in layout[i].offset + 1 .. layout[i].offset + layout[i].size :
            row[k + 1][c] = row[k][c]
      <4> DEFINE o == layout[i].offset
                 z == layout[i].size
                 next == layout[k + 1].offset
      <4>1. o \in Nat /\ z \in Nat /\ next \in Nat /\ o + z <= next /\ o + z <= w
        BY <1>3, <1>4, <2>1, <3>1
      <4> HIDE DEF o, z, next
      <4>2. \A c \in o + 1 .. o + z : c \in 1 .. w /\ c <= next
        BY <1>3, <4>1
      <4> QED BY <2>4, <4>2 DEF o, z, next
    <3> HIDE DEF T
    <3> QED BY <1>4, <2>3, <2>5, <3>2, HeldElsewhere
  <2>6. Right(k + 1)
    <3>1. \A i \in 1 .. n : i <= k + 1 => i <= k \/ i = k + 1
      BY <1>2
    <3> QED BY <2>4, <2>5, <3>1
  <2> QED BY <2>1, <2>6
<1>16. Right(n)
  <2> HIDE DEF T
  <2>1. \A k \in 0 .. n : k \in T
    BY <1>2, <1>14, <1>15, UpTo
  <2>2. n \in 0 .. n
    BY <1>2
  <2> QED BY <2>1, <2>2 DEF T
<1>17. \A i \in 1 .. n : i <= n
  BY <1>2
<1> QED BY <1>2, <1>3, <1>4, <1>6, <1>16, <1>17 DEF A

-----------------------------------------------------------------------------
(* The schema in the catalog. *)

\* The parts of a column.
PartOf(c) == <<c.name, COLUMN_TYPE[c.type], c.max>>
PartValues == Text \cup Nat

LEMMA PartsOfColumn ==
  ASSUME NEW schema \in Schemas, NEW i \in 1 .. Len(schema)
  PROVE  /\ schema[i] = [name |-> schema[i].name, max |-> schema[i].max, type |-> schema[i].type]
         /\ schema[i].type \in Types /\ schema[i].max = MaxOf(schema[i].type)
         /\ PartOf(schema[i]) \in Seq(PartValues) /\ Len(PartOf(schema[i])) = 3
         /\ PartOf(schema[i])[1] = schema[i].name
         /\ PartOf(schema[i])[2] = COLUMN_TYPE[schema[i].type]
         /\ PartOf(schema[i])[3] = schema[i].max
<1>1. schema[i] \in ColumnRecords /\ schema[i].max = MaxOf(schema[i].type)
  BY DEF Schemas
<1>2. /\ schema[i] = [name |-> schema[i].name, max |-> schema[i].max, type |-> schema[i].type]
      /\ schema[i].type \in Types /\ schema[i].name \in PartValues /\ schema[i].max \in PartValues
  BY <1>1 DEF ColumnRecords, PartValues
<1>3. COLUMN_TYPE[schema[i].type] \in PartValues
  <2>1. COLUMN_TYPE[schema[i].type] \in Nat
    BY <1>2 DEF Types, COLUMN_TYPE
  <2> QED BY <2>1 DEF PartValues
<1>4. \A a, b, c \in PartValues :
        <<a, b, c>> \in Seq(PartValues) /\ Len(<<a, b, c>>) = 3
        /\ <<a, b, c>>[1] = a /\ <<a, b, c>>[2] = b /\ <<a, b, c>>[3] = c
  OBVIOUS
<1> QED BY <1>1, <1>2, <1>3, <1>4, Zenon DEF PartOf

\* The payload has three parts for each column.
LEMMA PayloadParts ==
  ASSUME NEW schema \in Schemas
  PROVE  /\ make_schema_payload(schema) \in Seq(PartValues)
         /\ Len(make_schema_payload(schema)) = 1 + 3 * Len(schema)
         /\ make_schema_payload(schema)[1] = Len(schema)
         /\ \A i \in 1 .. Len(schema) :
              /\ make_schema_payload(schema)[3 * i - 1] = schema[i].name
              /\ make_schema_payload(schema)[3 * i] = COLUMN_TYPE[schema[i].type]
              /\ make_schema_payload(schema)[3 * i + 1] = schema[i].max
<1> DEFINE n == Len(schema)
           Part(c) == <<c.name, COLUMN_TYPE[c.type], c.max>>
           parts[i \in 0 .. n] == IF i = 0 THEN <<n>> ELSE parts[i - 1] \o Part(schema[i])
           A == Seq(PartValues)
           step == [i \in 1 .. n |-> [p \in A |-> p \o Part(schema[i])]]
<1>1. n \in Nat /\ <<n>> \in A
  BY DEF Schemas, PartValues
<1>2. \A i \in 1 .. n : /\ Part(schema[i]) \in A /\ Len(Part(schema[i])) = 3
                        /\ Part(schema[i])[1] = schema[i].name
                        /\ Part(schema[i])[2] = COLUMN_TYPE[schema[i].type]
                        /\ Part(schema[i])[3] = schema[i].max
  BY PartsOfColumn, Zenon DEF PartOf
<1>3. make_schema_payload(schema) = parts[n]
  BY Zenon DEF make_schema_payload
<1> HIDE DEF n, Part
<1>4. \A i \in 1 .. n : \A p \in A : p \o Part(schema[i]) \in A
  BY <1>2, ConcatProperties
<1>5. AreSteps(step, n, A)
  BY <1>4 DEF AreSteps
<1>6. PICK f : Iterates(f, <<n>>, step, n, A)
  <2> HIDE DEF step, A
  <2> QED BY <1>1, <1>5, Iteration
<1>7. f \in [0 .. n -> A] /\ f[0] = <<n>>
      /\ \A i \in 1 .. n : i - 1 \in 0 .. n /\ f[i] = f[i - 1] \o Part(schema[i])
  <2>1. \A i \in 1 .. n : i - 1 \in 0 .. n
    BY <1>1
  <2> HIDE DEF parts, A
  <2> QED BY <1>6, <2>1 DEF Iterates
<1>8. f = [i \in 0 .. n |-> IF i = 0 THEN <<n>> ELSE f[i - 1] \o Part(schema[i])]
  <2> HIDE DEF step, parts, A
  <2> QED BY <1>1, <1>7
<1>9. parts = [i \in 0 .. n |-> IF i = 0 THEN <<n>> ELSE parts[i - 1] \o Part(schema[i])]
  BY <1>8, Zenon
<1> HIDE DEF parts, step
<1> DEFINE Right(k) ==
             /\ parts[k] \in A /\ Len(parts[k]) = 1 + 3 * k /\ parts[k][1] = n
             /\ \A i \in 1 .. k :
                  /\ parts[k][3 * i - 1] = schema[i].name
                  /\ parts[k][3 * i] = COLUMN_TYPE[schema[i].type]
                  /\ parts[k][3 * i + 1] = schema[i].max
           T == {k \in 0 .. n : Right(k)}
<1>10. 0 \in T
  <2>1. parts[0] = <<n>> /\ 1 + 3 * 0 = 1 /\ 0 \in 0 .. n
    BY <1>1, <1>9
  <2>2. Len(<<n>>) = 1 /\ <<n>>[1] = n /\ 1 .. 0 = {}
    OBVIOUS
  <2>3. Right(0)
    <3> HIDE DEF A
    <3> QED BY <1>1, <2>1, <2>2, Zenon
  <2> QED BY <2>1, <2>3
<1>11. ASSUME NEW k \in 0 .. n - 1, k \in T
       PROVE  k + 1 \in T
  <2>1. k \in Nat /\ k + 1 \in 1 .. n /\ k + 1 \in 0 .. n /\ k + 1 # 0 /\ (k + 1) - 1 = k
    BY <1>1
  <2> DEFINE p == parts[k]
             e == Part(schema[k + 1])
             q == parts[k + 1]
  <2>2. q = p \o e
    BY <1>9, <2>1
  <2>3. Right(k)
    BY <1>11
  <2>4. /\ p \in A /\ Len(p) = 1 + 3 * k /\ p[1] = n
        /\ \A i \in 1 .. k : /\ p[3 * i - 1] = schema[i].name
                             /\ p[3 * i] = COLUMN_TYPE[schema[i].type]
                             /\ p[3 * i + 1] = schema[i].max
    BY <2>3
  <2>5. /\ e \in A /\ Len(e) = 3 /\ e[1] = schema[k + 1].name
        /\ e[2] = COLUMN_TYPE[schema[k + 1].type] /\ e[3] = schema[k + 1].max
    BY <1>2, <2>1
  <2> HIDE DEF p, e, q, T, Right
  <2>6. /\ q \in A /\ Len(q) = Len(p) + 3
        /\ \A c \in 1 .. Len(p) + 3 : q[c] = IF c <= Len(p) THEN p[c] ELSE e[c - Len(p)]
    <3> DEFINE c == p \o e
    <3>1. /\ c \in A /\ Len(c) = Len(p) + Len(e)
          /\ \A k1 \in 1 .. Len(p) + Len(e) : c[k1] = IF k1 <= Len(p) THEN p[k1] ELSE e[k1 - Len(p)]
      BY <2>4, <2>5, ConcatProperties
    <3> HIDE DEF c
    <3>2. q = c
      BY <2>2 DEF c
    <3> QED BY <2>5, <3>1, <3>2
  <2>7. /\ Len(p) + 3 = 1 + 3 * (k + 1)
        /\ \A c \in 1 .. 1 + 3 * k : q[c] = p[c]
        /\ \A c \in 1 .. 3 : q[1 + 3 * k + c] = e[c]
    <3>1. Len(p) + 3 = 1 + 3 * (k + 1)
      BY <2>1, <2>4
    <3>2. \A c \in 1 .. 1 + 3 * k : q[c] = p[c]
      <4> TAKE c \in 1 .. 1 + 3 * k
      <4>1. c \in 1 .. Len(p) + 3 /\ c <= Len(p)
        BY <2>1, <2>4
      <4> QED BY <2>6, <4>1
    <3>3. \A c \in 1 .. 3 : q[1 + 3 * k + c] = e[c]
      <4> TAKE c \in 1 .. 3
      <4>1. 1 + 3 * k + c \in 1 .. Len(p) + 3 /\ ~(1 + 3 * k + c <= Len(p))
            /\ (1 + 3 * k + c) - Len(p) = c
        BY <2>1, <2>4
      <4> QED BY <2>6, <4>1
    <3> QED BY <3>1, <3>2, <3>3
  <2>8. Len(q) = 1 + 3 * (k + 1) /\ q[1] = n
    <3>1. 1 \in 1 .. 1 + 3 * k
      BY <2>1
    <3> QED BY <2>4, <2>6, <2>7, <3>1
  <2>9. ASSUME NEW i \in 1 .. k + 1
        PROVE  /\ q[3 * i - 1] = schema[i].name
               /\ q[3 * i] = COLUMN_TYPE[schema[i].type]
               /\ q[3 * i + 1] = schema[i].max
    <3>1. CASE i = k + 1
      <4>1. 3 * i - 1 = 1 + 3 * k + 1 /\ 3 * i = 1 + 3 * k + 2 /\ 3 * i + 1 = 1 + 3 * k + 3
        BY <2>1, <3>1
      <4>2. q[1 + 3 * k + 1] = e[1] /\ q[1 + 3 * k + 2] = e[2] /\ q[1 + 3 * k + 3] = e[3]
        BY <2>7
      <4> QED BY <2>5, <3>1, <4>1, <4>2
    <3>2. CASE i # k + 1
      <4>1. i \in 1 .. k /\ 3 * i - 1 \in 1 .. 1 + 3 * k /\ 3 * i \in 1 .. 1 + 3 * k
            /\ 3 * i + 1 \in 1 .. 1 + 3 * k
        BY <2>1, <3>2
      <4> QED BY <2>4, <2>7, <4>1
    <3> QED BY <3>1, <3>2
  <2>10. Right(k + 1)
    BY <2>6, <2>8, <2>9 DEF Right, q
  <2> QED BY <2>1, <2>10 DEF T
<1>12. Right(n)
  <2> HIDE DEF T
  <2>1. \A k \in 0 .. n : k \in T
    BY <1>1, <1>10, <1>11, UpTo
  <2>2. n \in 0 .. n
    BY <1>1
  <2> QED BY <2>1, <2>2 DEF T
<1> QED BY <1>3, <1>12 DEF n

\* What the catalog has of a schema is read back as that schema.
LEMMA SchemaKept ==
  ASSUME NEW schema \in Schemas
  PROVE  split_schema_payload(make_schema_payload(schema)) = schema
<1> DEFINE n == Len(schema)
           parts == make_schema_payload(schema)
           Type(i) == parts[3 * i]
           Maximum(i) == IF Type(i) = COLUMN_TYPE.int THEN 0 ELSE parts[3 * i + 1]
           read == [i \in 1 .. parts[1] |->
                      [name |-> parts[3 * i - 1], max |-> Maximum(i),
                       type |-> IF Type(i) = COLUMN_TYPE.int THEN "int" ELSE "text"]]
<1>1. /\ parts[1] = n /\ Len(parts) = 1 + 3 * n
      /\ \A i \in 1 .. n : /\ parts[3 * i - 1] = schema[i].name
                           /\ Type(i) = COLUMN_TYPE[schema[i].type]
                           /\ parts[3 * i + 1] = schema[i].max
  BY PayloadParts
<1> HIDE DEF parts
<1>2. n \in Nat /\ n <= MAX_SCHEMA_COLUMNS /\ schema = [i \in 1 .. n |-> schema[i]]
  <2>1. schema \in Seq(ColumnRecords) /\ n \in 1 .. MAX_SCHEMA_COLUMNS
    BY DEF Schemas
  <2>2. MAX_SCHEMA_COLUMNS \in Nat
    BY TextTableAssumption
  <2>3. n \in Nat /\ n <= MAX_SCHEMA_COLUMNS
    BY <2>1, <2>2
  <2> QED BY <2>1, <2>3
<1>3. ASSUME NEW i \in 1 .. n
      PROVE  /\ Type(i) \in {COLUMN_TYPE.int, COLUMN_TYPE.text}
             /\ Type(i) = COLUMN_TYPE.text => Maximum(i) \in 1 .. MAX_CELL_TEXT
             /\ schema[i] = [name |-> parts[3 * i - 1], max |-> Maximum(i),
                             type |-> IF Type(i) = COLUMN_TYPE.int THEN "int" ELSE "text"]
  <2>1. /\ schema[i] = [name |-> schema[i].name, max |-> schema[i].max, type |-> schema[i].type]
        /\ schema[i].type \in Types /\ schema[i].max = MaxOf(schema[i].type)
    BY PartsOfColumn
  <2>2. COLUMN_TYPE.int = 1 /\ COLUMN_TYPE.text = 2
        /\ COLUMN_TYPE["int"] = 1 /\ COLUMN_TYPE["text"] = 2
    BY DEF COLUMN_TYPE
  <2>3. CASE schema[i].type = "int"
    <3>1. Type(i) = 1 /\ Maximum(i) = 0 /\ schema[i].max = 0
      BY <1>1, <2>1, <2>2, <2>3 DEF MaxOf
    <3> HIDE DEF Type, Maximum
    <3> QED BY <1>1, <2>1, <2>2, <2>3, <3>1
  <2>4. CASE schema[i].type = "text"
    <3>1. Type(i) = 2 /\ Maximum(i) = MAX_CELL_TEXT /\ schema[i].max = MAX_CELL_TEXT
      BY <1>1, <2>1, <2>2, <2>4 DEF MaxOf
    <3>2. MAX_CELL_TEXT \in 1 .. MAX_CELL_TEXT
      BY TextTableAssumption
    <3> HIDE DEF Type, Maximum
    <3> QED BY <1>1, <2>1, <2>2, <2>4, <3>1, <3>2
  <2> QED BY <2>1, <2>3, <2>4 DEF Types
<1>4. split_schema_payload(parts) = read
  BY <1>1, <1>2, <1>3, Zenon DEF split_schema_payload
<1>5. read = schema
  <2>1. read = [i \in 1 .. n |-> schema[i]]
    <3> HIDE DEF Type, Maximum
    <3> QED BY <1>1, <1>3, Zenon
  <2> QED BY <1>2, <2>1
<1> QED BY <1>4, <1>5 DEF parts

-----------------------------------------------------------------------------
(* Recursion from a place of a line to later ones. *)

\* Induction from the last place to the first.
LEMMA Downward ==
  ASSUME NEW n \in Nat, NEW T, \A i \in 1 .. n : (\A j \in i + 1 .. n : j \in T) => i \in T
  PROVE  \A i \in 1 .. n : i \in T
<1> DEFINE Bad == {n - i : i \in {j \in 1 .. n : j \notin T}}
<1> SUFFICES ASSUME Bad # {} PROVE FALSE
  OBVIOUS
<1>1. Bad \subseteq Nat
  OBVIOUS
<1>2. PICK m \in Bad : \A k \in Bad : m <= k
  <2> HIDE DEF Bad
  <2> QED BY <1>1, LeastOf
<1>3. PICK i \in 1 .. n : i \notin T /\ m = n - i
  BY DEF Bad
<1>4. \A j \in i + 1 .. n : j \in T
  <2> SUFFICES ASSUME NEW j \in i + 1 .. n, j \notin T PROVE FALSE
    OBVIOUS
  <2>1. j \in 1 .. n /\ n - j \in Bad /\ n - j < n - i
    OBVIOUS
  <2> HIDE DEF Bad
  <2> QED BY <1>2, <1>3, <2>1
<1> QED BY <1>3, <1>4

\* From every place to a later one, or to the base.
AreCases(base, step, n, A) == base \in [1 .. n -> A] /\ step \in [1 .. n -> [A -> A]]
Recurs(f, base, next, step, n, A) ==
  /\ f \in [1 .. n -> A]
  /\ \A i \in 1 .. n : f[i] = IF next[i] \in i + 1 .. n THEN step[i][f[next[i]]] ELSE base[i]

LEMMA Backward ==
  ASSUME NEW n \in Nat, NEW A, NEW base, NEW next, NEW step, AreCases(base, step, n, A)
  PROVE  \E f : Recurs(f, base, next, step, n, A)
<1> USE DEF AreCases, Recurs
<1> DEFINE Value(f, i) == IF next[i] \in i + 1 .. n THEN step[i][f[next[i]]] ELSE base[i]
           Has(k) == \E f \in [n - k + 1 .. n -> A] : \A i \in n - k + 1 .. n : f[i] = Value(f, i)
           T == {k \in 0 .. n : Has(k)}
<1>1. Has(0)
  <2>1. n - 0 + 1 .. n = {}
    OBVIOUS
  <2>2. [i \in {} |-> {}] \in [n - 0 + 1 .. n -> A]
    BY <2>1
  <2> QED BY <2>1, <2>2
<1>2. ASSUME NEW k \in 0 .. n - 1, Has(k)
      PROVE  Has(k + 1)
  <2>1. PICK f \in [n - k + 1 .. n -> A] : \A i \in n - k + 1 .. n : f[i] = Value(f, i)
    BY <1>2
  <2> DEFINE p == n - k
             g == [i \in p .. n |-> IF i = p THEN Value(f, p) ELSE f[i]]
  <2>2. p \in 1 .. n /\ n - (k + 1) + 1 = p /\ n - k + 1 = p + 1
    OBVIOUS
  <2> HIDE DEF p
  <2>3. \A i \in p .. n : i = p \/ i \in p + 1 .. n
    BY <2>2
  <2>4. Value(f, p) \in A
    <3>1. step[p] \in [A -> A] /\ base[p] \in A
      BY <2>2
    <3> QED BY <2>1, <2>2, <3>1
  <2>5. g \in [p .. n -> A]
    <3> HIDE DEF Value
    <3> QED BY <2>1, <2>2, <2>3, <2>4
  <2>6. \A i \in p + 1 .. n : g[i] = f[i]
    <3>1. \A i \in p + 1 .. n : i \in p .. n /\ i # p
      BY <2>2
    <3> HIDE DEF Value
    <3> QED BY <3>1
  <2>7. ASSUME NEW i \in p .. n
        PROVE  g[i] = Value(g, i)
    <3>1. next[i] \in i + 1 .. n => next[i] \in p + 1 .. n
      BY <2>2
    <3>2. Value(g, i) = Value(f, i)
      <4> HIDE DEF g
      <4> QED BY <2>6, <3>1
    <3>3. g[i] = Value(f, i)
      <4>1. CASE i = p
        <5>1. p \in p .. n
          BY <2>2
        <5> HIDE DEF Value
        <5> QED BY <4>1, <5>1
      <4>2. CASE i # p
        <5> HIDE DEF Value, g
        <5> QED BY <2>1, <2>2, <2>3, <2>6, <4>2
      <4> QED BY <4>1, <4>2
    <3> QED BY <3>2, <3>3
  <2> HIDE DEF Value, g
  <2> QED BY <2>2, <2>5, <2>7
<1>3. Has(n)
  <2>1. 0 \in T /\ \A k \in 0 .. n - 1 : k \in T => k + 1 \in T
    <3> HIDE DEF Has
    <3>1. \A k \in 0 .. n - 1 : k + 1 \in 0 .. n
      OBVIOUS
    <3> QED BY <1>1, <1>2, <3>1
  <2> HIDE DEF T
  <2>2. \A k \in 0 .. n : k \in T
    BY <2>1, UpTo
  <2>3. n \in T
    BY <2>2
  <2> HIDE DEF Has
  <2> QED BY <2>3 DEF T
<1>4. n - n + 1 = 1
  OBVIOUS
<1> QED BY <1>3, <1>4

-----------------------------------------------------------------------------
(* Tokens. *)

LEMMA Piece ==
  ASSUME NEW line \in Text, NEW i \in 1 .. Len(line) + 1, NEW j \in i .. Len(line) + 1
  PROVE  SubSeq(line, i, j - 1) \in Text
<1>1. line \in Seq(Symbols) /\ Len(line) \in Nat
  BY DEF Text
<1>2. i \in Nat \ {0} /\ j - 1 \in Nat /\ j - 1 <= Len(line) /\ i <= (j - 1) + 1
  BY <1>1
<1> DEFINE k == j - 1
<1> HIDE DEF k
<1>3. SubSeq(line, i, k) \in Seq(Symbols)
  BY <1>1, <1>2, Portion DEF k
<1> QED BY <1>3 DEF k, Text

\* The tokens of a line are texts.
LEMMA TokensAreTexts ==
  ASSUME NEW line \in Text
  PROVE  split_tokens_sql(line) \in Seq(Text)
<1> DEFINE n == Len(line) + 2
           From[i \in 1 .. n] ==
             LET start == skip_spaces(line, i, Breaks) IN
             IF start > Len(line) THEN <<>>
             ELSE LET end == TokenEnd(line, start)
                      first == IF line[start] = Quote THEN start + 1 ELSE start
                  IN <<SubSeq(line, first, end - 1)>> \o From[end + 1]
           Start(i) == skip_spaces(line, i, Breaks)
           End(i) == TokenEnd(line, Start(i))
           First(i) == IF line[Start(i)] = Quote THEN Start(i) + 1 ELSE Start(i)
           Token(i) == SubSeq(line, First(i), End(i) - 1)
           A == Seq(Text)
           base == [i \in 1 .. n |-> <<>>]
           later == [i \in 1 .. n |-> IF Start(i) > Len(line) THEN 0 ELSE End(i) + 1]
           step == [i \in 1 .. n |->
                      [s \in A |-> IF Start(i) > Len(line) THEN <<>> ELSE <<Token(i)>> \o s]]
<1>1. Len(line) \in Nat /\ n \in Nat /\ 1 \in 1 .. n /\ line \in Seq(Symbols)
  BY DEF Text
<1>2. ASSUME NEW i \in 1 .. n
      PROVE  Start(i) \in Nat /\ (Start(i) <= Len(line) => Start(i) \in i .. Len(line))
  <2>1. CASE i = n
    <3>1. {j \in i .. Len(line) : line[j] \notin Breaks} = {}
      BY <1>1, <2>1
    <3>2. Start(i) = Min({Len(line) + 1})
      BY <3>1, Zenon DEF skip_spaces
    <3>3. Min({Len(line) + 1}) = Len(line) + 1
      <4>1. {Len(line) + 1} \subseteq Nat /\ {Len(line) + 1} # {}
        BY <1>1
      <4> QED BY <4>1, MinOf
    <3> QED BY <1>1, <3>2, <3>3
  <2>2. CASE i # n
    <3>1. i \in 1 .. Len(line) + 1
      BY <1>1, <2>2
    <3>2. Start(i) \in i .. Len(line) + 1
      BY <1>1, <3>1, StopsAt
    <3> HIDE DEF Start
    <3> QED BY <1>1, <3>1, <3>2
  <2> QED BY <2>1, <2>2
<1>3. ASSUME NEW i \in 1 .. n, ~(Start(i) > Len(line))
      PROVE  /\ End(i) + 1 \in i + 1 .. n
             /\ Token(i) \in Text
  <2> DEFINE s == Start(i)
             e == End(i)
  <2>1. s \in i .. Len(line)
    BY <1>1, <1>2, <1>3
  <2> HIDE DEF s
  <2>2. s \in 1 .. Len(line) + 1 /\ s + 1 \in 1 .. Len(line) + 1
    BY <1>1, <2>1
  <2>3. /\ Until(line, s, Breaks) \in s .. Len(line) + 1
        /\ Until(line, s + 1, {Quote}) \in s + 1 .. Len(line) + 1
    BY <1>1, <2>2, StopsAt
  <2>4. e = IF line[s] = Quote THEN Until(line, s + 1, {Quote}) ELSE Until(line, s, Breaks)
    BY DEF TokenEnd, s
  <2>5. Token(i) = SubSeq(line, IF line[s] = Quote THEN s + 1 ELSE s, e - 1)
    BY DEF s
  <2> HIDE DEF e, Token
  <2>6. e \in s .. Len(line) + 1
    BY <1>1, <2>2, <2>3, <2>4
  <2>7. e + 1 \in i + 1 .. n
    BY <1>1, <2>1, <2>6
  <2>8. Token(i) \in Text
    BY <2>2, <2>3, <2>4, <2>5, Piece
  <2> QED BY <2>7, <2>8 DEF e
<1>4. split_tokens_sql(line) = From[1]
  BY Zenon DEF split_tokens_sql
<1>5. <<>> \in A /\ \A t \in Text : \A s \in A : <<t>> \o s \in A
  <2>1. \A t \in Text : <<t>> \in A
    OBVIOUS
  <2> QED BY <2>1, ConcatProperties
<1> HIDE DEF n, A, Token, Start, End
<1>6. AreCases(base, step, n, A)
  BY <1>3, <1>5 DEF AreCases
<1>7. PICK f \in [1 .. n -> A] :
        \A i \in 1 .. n : f[i] = IF later[i] \in i + 1 .. n THEN step[i][f[later[i]]] ELSE base[i]
  <2> HIDE DEF base, step, later, From
  <2>1. \E f : Recurs(f, base, later, step, n, A)
    BY <1>1, <1>6, Backward
  <2> QED BY <2>1, Zenon DEF Recurs
<1>8. \A i \in 1 .. n : f[i] = IF Start(i) > Len(line) THEN <<>> ELSE <<Token(i)>> \o f[End(i) + 1]
  <2> TAKE i \in 1 .. n
  <2>1. CASE Start(i) > Len(line)
    <3>1. later[i] = 0 /\ ~(0 \in i + 1 .. n)
      BY <1>1, <2>1
    <3> HIDE DEF From
    <3> QED BY <1>7, <2>1, <3>1
  <2>2. CASE ~(Start(i) > Len(line))
    <3>1. later[i] = End(i) + 1 /\ End(i) + 1 \in i + 1 .. n
      BY <1>3, <2>2
    <3>2. f[End(i) + 1] \in A
      <4>1. End(i) + 1 \in 1 .. n
        BY <1>1, <3>1
      <4> HIDE DEF From, step, later, base
      <4> QED BY <1>7, <4>1
    <3>3. f[i] = step[i][f[End(i) + 1]]
      <4> HIDE DEF From, step, later, base
      <4> QED BY <1>7, <3>1
    <3> HIDE DEF From, later, base
    <3> QED BY <2>2, <3>2, <3>3
  <2> QED BY <2>1, <2>2
<1>9. f = [i \in 1 .. n |->
             LET start == skip_spaces(line, i, Breaks) IN
             IF start > Len(line) THEN <<>>
             ELSE LET end == TokenEnd(line, start)
                      first == IF line[start] = Quote THEN start + 1 ELSE start
                  IN <<SubSeq(line, first, end - 1)>> \o f[end + 1]]
  <2> HIDE DEF From, step, later, base
  <2> QED BY <1>7, <1>8, Zenon DEF Start, End, Token
<1>10. From = [i \in 1 .. n |->
                 LET start == skip_spaces(line, i, Breaks) IN
                 IF start > Len(line) THEN <<>>
                 ELSE LET end == TokenEnd(line, start)
                          first == IF line[start] = Quote THEN start + 1 ELSE start
                      IN <<SubSeq(line, first, end - 1)>> \o From[end + 1]]
  <2> HIDE DEF step, later, base
  <2> QED BY <1>9, Zenon
<1> HIDE DEF From, step, later, base
<1>11. \A i \in 1 .. n :
         From[i] = IF Start(i) > Len(line) THEN <<>> ELSE <<Token(i)>> \o From[End(i) + 1]
  BY <1>10, Zenon DEF Start, End, Token
<1> DEFINE T == {i \in 1 .. n : From[i] \in A}
<1>12. ASSUME NEW i \in 1 .. n, \A j \in i + 1 .. n : j \in T
       PROVE  i \in T
  <2>1. CASE Start(i) > Len(line)
    BY <1>5, <1>11, <2>1
  <2>2. CASE ~(Start(i) > Len(line))
    <3>1. End(i) + 1 \in i + 1 .. n /\ Token(i) \in Text
      BY <1>3, <2>2
    <3> QED BY <1>5, <1>11, <1>12, <2>2, <3>1
  <2> QED BY <2>1, <2>2
<1>13. \A i \in 1 .. n : i \in T
  <2> HIDE DEF T
  <2> QED BY <1>1, <1>12, Downward
<1> QED BY <1>1, <1>4, <1>13 DEF A

LEMMA BlankedIsText ==
  ASSUME NEW line \in Text
  PROVE  WithoutEquals(line) \in Text
<1>1. " " \in Symbols
  BY DEF Symbols
<1> DEFINE n == Len(line)
<1>2. n \in Nat /\ DOMAIN line = 1 .. n /\ \A i \in 1 .. n : line[i] \in Symbols
  BY DEF Text
<1>3. WithoutEquals(line) = [i \in 1 .. n |-> IF line[i] = "=" THEN " " ELSE line[i]]
  BY <1>2, Zenon DEF WithoutEquals
<1>4. \A i \in 1 .. n : (IF line[i] = "=" THEN " " ELSE line[i]) \in Symbols
  BY <1>1, <1>2, Zenon
<1> DEFINE Blanked(i) == IF line[i] = "=" THEN " " ELSE line[i]
<1>5. [i \in 1 .. n |-> Blanked(i)] \in Seq(Symbols)
  <2> HIDE DEF Blanked, n
  <2>1. \A i \in 1 .. n : Blanked(i) \in Symbols
    BY <1>4 DEF Blanked
  <2> QED BY <1>2, <2>1
<1> QED BY <1>3, <1>5 DEF Text

-----------------------------------------------------------------------------
(* Values and rows of an insert. *)

\* A symbol that is none of those that can follow a line is found in it.
LEMMA FoundAt ==
  ASSUME NEW line \in Text, NEW i, At(line, i) # "end"
  PROVE  i \in 1 .. Len(line) /\ i + 1 \in 1 .. Len(line) + 1 /\ At(line, i) = line[i]
<1>1. i \in DOMAIN line /\ At(line, i) = line[i]
  BY DEF At
<1>2. line \in Seq(Symbols)
  BY DEF Text
<1> QED BY <1>1, <1>2

\* A value is a text; what follows it is behind its place.
LEMMA ValueRead ==
  ASSUME NEW line \in Text, NEW i \in 1 .. Len(line) + 1
  PROVE  /\ parse_sql_value_token(line, i).text \in Text
         /\ parse_sql_value_token(line, i).next \in {0} \cup i + 1 .. Len(line) + 1
<1> DEFINE v == parse_sql_value_token(line, i)
           p == skip_spaces(line, i, Blanks)
           n == Len(line)
<1>1. n \in Nat /\ line \in Seq(Symbols)
  BY DEF Text
<1>2. p \in i .. n + 1
  BY <1>1, StopsAt
<1>3. v = ValueAt(line, p)
  BY DEF parse_sql_value_token
<1> HIDE DEF v, p
<1>4. CASE At(line, p) = Quote
  <2> DEFINE e == Until(line, p + 1, {Quote})
  <2>1. p + 1 \in 1 .. n + 1
    BY <1>4, FoundAt DEF Quote
  <2>2. e \in p + 1 .. n + 1
    BY <1>1, <2>1, StopsAt
  <2>3. /\ v.text = SubSeq(line, p + 1, e - 1)
        /\ v.next = IF e > p + 1 /\ e <= Len(line) THEN e + 1 ELSE 0
    BY <1>3, <1>4 DEF ValueAt, QuotedValue
  <2> HIDE DEF e
  <2>4. v.text \in Text
    BY <2>1, <2>2, <2>3, Piece
  <2> QED BY <1>1, <1>2, <2>2, <2>3, <2>4 DEF v
<1>5. CASE At(line, p) # Quote
  <2> DEFINE e == Until(line, p, Blanks \cup {",", ")", ";"})
  <2>1. p \in 1 .. n + 1
    BY <1>1, <1>2
  <2>2. e \in p .. n + 1
    BY <1>1, <2>1, StopsAt
  <2>3. /\ v.text = SubSeq(line, p, e - 1)
        /\ v.next = IF e > p THEN e ELSE 0
    BY <1>3, <1>5 DEF ValueAt, BareValue
  <2> HIDE DEF e
  <2>4. v.text \in Text
    BY <2>1, <2>2, <2>3, Piece
  <2> QED BY <1>1, <1>2, <2>2, <2>3, <2>4 DEF v
<1> QED BY <1>4, <1>5

\* What follows is behind what is read, where it was read.
LEMMA DelimiterAt ==
  ASSUME NEW line \in Text, NEW value, value.next \in {0} \cup 1 .. Len(line) + 1
  PROVE  /\ value.next = 0 => Delimiter(line, value) = 0
         /\ value.next # 0 => Delimiter(line, value) \in value.next .. Len(line) + 1
<1>1. line \in Seq(Symbols)
  BY DEF Text
<1>2. value.next # 0 => skip_spaces(line, value.next, Blanks) \in value.next .. Len(line) + 1
  <2> DEFINE x == value.next
  <2>1. x # 0 => x \in 1 .. Len(line) + 1
    OBVIOUS
  <2> HIDE DEF x
  <2>2. x # 0 => skip_spaces(line, x, Blanks) \in x .. Len(line) + 1
    BY <1>1, <2>1, StopsAt
  <2> QED BY <2>2 DEF x
<1> QED BY <1>2 DEF Delimiter

\* The values of a row are texts; a row that is read has one.
RowsRead(line) ==
  {row \in [values : Seq(Text), next : {0} \cup 1 .. Len(line) + 1] : row.next # 0 => row.values # <<>>}

LEMMA ValuesRead ==
  ASSUME NEW line \in Text, NEW i \in 1 .. Len(line) + 1
  PROVE  /\ ValuesOfRow(line, i) \in RowsRead(line)
         /\ ValuesOfRow(line, i).next # 0 => ValuesOfRow(line, i).next > i
<1> DEFINE n == Len(line) + 1
           From[p \in 1 .. n] ==
             LET value == parse_sql_value_token(line, p)
                 next == Delimiter(line, value)
             IN IF At(line, next) = ")" THEN [values |-> <<value.text>>, next |-> next + 1]
                ELSE IF At(line, next) = "," THEN Prepend(value.text, From[next + 1])
                ELSE NoValues
           Value(p) == parse_sql_value_token(line, p)
           Behind(p) == Delimiter(line, Value(p))
           A == RowsRead(line)
           base == [p \in 1 .. n |->
                      IF At(line, Behind(p)) = ")"
                      THEN [values |-> <<Value(p).text>>, next |-> Behind(p) + 1] ELSE NoValues]
           later == [p \in 1 .. n |-> IF At(line, Behind(p)) = "," THEN Behind(p) + 1 ELSE 0]
           step == [p \in 1 .. n |->
                      [row \in A |-> IF At(line, Behind(p)) = "," THEN Prepend(Value(p).text, row)
                                     ELSE NoValues]]
<1>1. Len(line) \in Nat /\ n \in Nat
  BY DEF Text
<1>2. ASSUME NEW p \in 1 .. n
      PROVE  /\ Value(p).text \in Text
             /\ At(line, Behind(p)) # "end" => Behind(p) \in p + 1 .. Len(line)
  <2>1. Value(p).text \in Text /\ Value(p).next \in {0} \cup p + 1 .. Len(line) + 1
    BY ValueRead
  <2>2. Value(p).next \in {0} \cup 1 .. Len(line) + 1
    <3> HIDE DEF Value
    <3> QED BY <1>1, <2>1
  <2>3. /\ Value(p).next = 0 => Behind(p) = 0
        /\ Value(p).next # 0 => Behind(p) \in Value(p).next .. Len(line) + 1
    <3> HIDE DEF Value
    <3> QED BY <2>2, DelimiterAt
  <2> HIDE DEF Value, Behind
  <2>4. At(line, Behind(p)) # "end" => Behind(p) \in 1 .. Len(line)
    BY FoundAt
  <2> QED BY <1>1, <2>1, <2>3, <2>4
<1>3. ValuesOfRow(line, i) = From[i]
  BY Zenon DEF ValuesOfRow
<1>4. NoValues \in A
  BY DEF NoValues, RowsRead
<1>5. ASSUME NEW text \in Text, NEW row \in A
      PROVE  /\ Prepend(text, row) \in A
             /\ Prepend(text, row).next = row.next
  <2>1. row \in [values : Seq(Text), next : {0} \cup 1 .. Len(line) + 1]
    BY DEF RowsRead
  <2>2. /\ <<text>> \o row.values \in Seq(Text)
        /\ <<text>> \o row.values # <<>>
    <3>1. row.values \in Seq(Text) /\ <<text>> \in Seq(Text) /\ Len(<<text>>) = 1
      BY <2>1
    <3> DEFINE c == <<text>> \o row.values
    <3>2. c \in Seq(Text) /\ Len(c) = 1 + Len(row.values) /\ Len(row.values) \in Nat
      BY <3>1, ConcatProperties
    <3> HIDE DEF c
    <3>3. Len(c) # 0
      BY <3>2
    <3>4. c # <<>>
      BY <3>3
    <3> QED BY <3>2, <3>4 DEF c
  <2>3. /\ Prepend(text, row) = [row EXCEPT !.values = <<text>> \o row.values]
    BY DEF Prepend
  <2>4. [row EXCEPT !.values = <<text>> \o row.values]
          \in [values : Seq(Text), next : {0} \cup 1 .. Len(line) + 1]
    BY <2>1, <2>2
  <2>5. /\ [row EXCEPT !.values = <<text>> \o row.values].values = <<text>> \o row.values
        /\ [row EXCEPT !.values = <<text>> \o row.values].next = row.next
    BY <2>1
  <2> QED BY <2>2, <2>3, <2>4, <2>5 DEF RowsRead
<1>6. ASSUME NEW p \in 1 .. n, At(line, Behind(p)) = ")"
      PROVE  /\ [values |-> <<Value(p).text>>, next |-> Behind(p) + 1] \in A
             /\ Behind(p) + 1 > p
  <2>1. Behind(p) \in p + 1 .. Len(line) /\ Value(p).text \in Text
    BY <1>2, <1>6
  <2> HIDE DEF Behind, Value
  <2>2. Behind(p) + 1 \in 1 .. Len(line) + 1 /\ Behind(p) + 1 > p
    BY <1>1, <2>1
  <2>3. <<Value(p).text>> \in Seq(Text) /\ <<Value(p).text>> # <<>>
    BY <2>1
  <2> QED BY <2>2, <2>3 DEF RowsRead
<1> HIDE DEF n, A, Value, Behind
<1>7. AreCases(base, step, n, A)
  <2>1. base \in [1 .. n -> A]
    BY <1>4, <1>6
  <2>2. step \in [1 .. n -> [A -> A]]
    BY <1>2, <1>4, <1>5
  <2> QED BY <2>1, <2>2 DEF AreCases
<1>8. ASSUME NEW p \in 1 .. n, At(line, Behind(p)) = ","
      PROVE  Behind(p) + 1 \in p + 1 .. n
  <2>1. Behind(p) \in p + 1 .. Len(line)
    BY <1>2, <1>8
  <2> HIDE DEF From, base, step, later
  <2> QED BY <1>1, <2>1 DEF n
<1>9. PICK f \in [1 .. n -> A] :
        \A p \in 1 .. n : f[p] = IF later[p] \in p + 1 .. n THEN step[p][f[later[p]]] ELSE base[p]
  <2> HIDE DEF base, step, later, From
  <2>1. \E f : Recurs(f, base, later, step, n, A)
    BY <1>1, <1>7, Backward
  <2> QED BY <2>1, Zenon DEF Recurs
<1>10. \A p \in 1 .. n :
         f[p] = IF At(line, Behind(p)) = ")" THEN [values |-> <<Value(p).text>>, next |-> Behind(p) + 1]
                ELSE IF At(line, Behind(p)) = "," THEN Prepend(Value(p).text, f[Behind(p) + 1])
                ELSE NoValues
  <2> TAKE p \in 1 .. n
  <2>1. CASE At(line, Behind(p)) # ","
    <3> HIDE DEF From
    <3>1. later[p] = 0 /\ ~(0 \in p + 1 .. n)
      <4>1. later[p] = 0
        BY <2>1
      <4> HIDE DEF base, step, later
      <4> QED BY <1>1, <4>1
    <3> QED BY <1>9, <2>1, <3>1
  <2>2. CASE At(line, Behind(p)) = ","
    <3>1. later[p] = Behind(p) + 1 /\ Behind(p) + 1 \in p + 1 .. n
      BY <1>8, <2>2
    <3>2. f[Behind(p) + 1] \in A
      <4> HIDE DEF From, step, later, base
      <4>1. Behind(p) + 1 \in 1 .. n
        BY <1>1, <3>1
      <4> QED BY <1>9, <4>1
    <3>3. f[p] = step[p][f[Behind(p) + 1]]
      <4> HIDE DEF From, step, later, base
      <4> QED BY <1>9, <3>1
    <3> HIDE DEF From, later, base
    <3> QED BY <2>2, <3>2, <3>3
  <2> QED BY <2>1, <2>2
<1>11. f = [p \in 1 .. n |->
             LET value == parse_sql_value_token(line, p)
                 next == Delimiter(line, value)
             IN IF At(line, next) = ")" THEN [values |-> <<value.text>>, next |-> next + 1]
                ELSE IF At(line, next) = "," THEN Prepend(value.text, f[next + 1])
                ELSE NoValues]
  <2> HIDE DEF From, step, later, base
  <2> QED BY <1>9, <1>10, Zenon DEF Value, Behind
<1>12. From = [p \in 1 .. n |->
             LET value == parse_sql_value_token(line, p)
                 next == Delimiter(line, value)
             IN IF At(line, next) = ")" THEN [values |-> <<value.text>>, next |-> next + 1]
                ELSE IF At(line, next) = "," THEN Prepend(value.text, From[next + 1])
                ELSE NoValues]
  <2> HIDE DEF step, later, base
  <2> QED BY <1>11, Zenon
<1> HIDE DEF From, step, later, base
<1>13. \A p \in 1 .. n :
         From[p] = IF At(line, Behind(p)) = ")" THEN [values |-> <<Value(p).text>>, next |-> Behind(p) + 1]
                   ELSE IF At(line, Behind(p)) = "," THEN Prepend(Value(p).text, From[Behind(p) + 1])
                   ELSE NoValues
  BY <1>12, Zenon DEF Value, Behind
<1> DEFINE T == {p \in 1 .. n : From[p] \in A /\ (From[p].next # 0 => From[p].next > p)}
<1>14. ASSUME NEW p \in 1 .. n, \A j \in p + 1 .. n : j \in T
       PROVE  p \in T
  <2>1. CASE At(line, Behind(p)) = ")"
    <3> DEFINE row == [values |-> <<Value(p).text>>, next |-> Behind(p) + 1]
    <3>1. row \in A /\ row.next = Behind(p) + 1 /\ Behind(p) + 1 > p
      BY <1>6, <2>1
    <3>2. From[p] = row
      BY <1>13, <2>1
    <3> HIDE DEF row
    <3> QED BY <3>1, <3>2
  <2>2. CASE At(line, Behind(p)) = ","
    <3> DEFINE q == Behind(p) + 1
    <3>1. q \in p + 1 .. n /\ Value(p).text \in Text
      BY <1>2, <1>8, <2>2
    <3>2. From[p] = Prepend(Value(p).text, From[q])
      <4>1. At(line, Behind(p)) # ")"
        BY <2>2
      <4> QED BY <1>13, <2>2, <4>1
    <3> HIDE DEF q
    <3>3. From[q] \in A /\ (From[q].next # 0 => From[q].next > q) /\ q > p
      BY <1>1, <1>14, <3>1
    <3>4. From[p] \in A /\ From[p].next = From[q].next
      BY <1>5, <3>1, <3>2, <3>3
    <3>5. From[q].next \in Nat
      BY <1>1, <3>3 DEF A, RowsRead
    <3> QED BY <1>1, <3>1, <3>3, <3>4, <3>5
  <2>3. CASE At(line, Behind(p)) # ")" /\ At(line, Behind(p)) # ","
    <3>1. From[p] = NoValues
      BY <1>13, <2>3
    <3> QED BY <1>4, <3>1 DEF NoValues
  <2> QED BY <2>1, <2>2, <2>3
<1>15. \A p \in 1 .. n : p \in T
  <2> HIDE DEF T
  <2> QED BY <1>1, <1>14, Downward
<1> QED BY <1>3, <1>15 DEF A, n

\* A row that is read has an id.
LEMMA RowRead ==
  ASSUME NEW line \in Text, NEW p \in 1 .. Len(line) + 1
  PROVE  /\ RowAt(line, p) \in RowsRead(line)
         /\ RowAt(line, p).next # 0 =>
              RowAt(line, p).next > p /\ parse_u32(RowAt(line, p).values[1]) # -1
<1>1. NoValues \in RowsRead(line) /\ NoValues.next = 0
  BY DEF NoValues, RowsRead
<1>2. CASE At(line, p) = "("
  <2> DEFINE read == ValuesOfRow(line, p + 1)
  <2>1. p + 1 \in 1 .. Len(line) + 1
    BY <1>2, FoundAt
  <2>2. read \in RowsRead(line) /\ (read.next # 0 => read.next > p + 1)
    BY <2>1, ValuesRead
  <2>3. RowAt(line, p) = RowOf(read)
    BY <1>2 DEF RowAt
  <2> HIDE DEF read
  <2>4. \/ RowOf(read) = NoValues
        \/ RowOf(read) = read /\ read.next # 0 /\ parse_u32(read.values[1]) # -1
    <3> DEFINE Taken == /\ read.next # 0 /\ Len(read.values) <= MAX_SCHEMA_COLUMNS
                        /\ parse_u32(read.values[1]) # -1
    <3>1. RowOf(read) = IF Taken THEN read ELSE NoValues
      BY DEF RowOf
    <3>2. Taken => read.next # 0 /\ parse_u32(read.values[1]) # -1
      OBVIOUS
    <3> HIDE DEF Taken
    <3> QED BY <3>1, <3>2
  <2>5. read.next # 0 => read.next > p
    <3> DEFINE x == read.next
    <3>1. x \in {0} \cup 1 .. Len(line) + 1 /\ Len(line) \in Nat
      BY <2>2 DEF RowsRead, Text
    <3>2. x \in Nat
      BY <3>1
    <3>3. x # 0 => x > p + 1
      BY <2>2
    <3>4. p \in Nat
      BY <3>1
    <3> HIDE DEF x
    <3>5. x # 0 => x > p
      BY <3>2, <3>3, <3>4
    <3> QED BY <3>5 DEF x
  <2> QED BY <1>1, <2>2, <2>3, <2>4, <2>5, Zenon
<1>3. CASE At(line, p) # "("
  BY <1>1, <1>3, Zenon DEF RowAt
<1> QED BY <1>2, <1>3

\* The rows of an insert have values, the id of each being its first.
Insertions ==
  {row \in [id : 0 .. UINT32_MAX, values : Seq(Text)] :
     row.values # <<>> /\ row.id = parse_u32(row.values[1])}

LEMMA RowsAreInsertions ==
  ASSUME NEW line \in Text, NEW i \in 1 .. Len(line) + 1
  PROVE  parse_insert_values_clause(line, i) \in Seq(Insertions)
<1> DEFINE n == Len(line) + 1
           From[p \in 1 .. n] ==
             LET row == RowAt(line, p)
                 next == Delimiter(line, row)
                 after == skip_spaces(line, next + 1, Blanks)
             IN IF next = 0 THEN <<>>
                ELSE IF At(line, next) = "," /\ after <= Len(line) THEN AllOrNone(row, From[after])
                ELSE IF At(line, next) = "," \/ AtEnd(line, next) THEN OnlyRow(row)
                ELSE <<>>
           Row(p) == RowAt(line, p)
           Behind(p) == Delimiter(line, Row(p))
           After(p) == skip_spaces(line, Behind(p) + 1, Blanks)
           Goes(p) == Behind(p) # 0 /\ At(line, Behind(p)) = "," /\ After(p) <= Len(line)
           A == Seq(Insertions)
           base == [p \in 1 .. n |->
                      IF Behind(p) = 0 THEN <<>>
                      ELSE IF At(line, Behind(p)) = "," \/ AtEnd(line, Behind(p)) THEN OnlyRow(Row(p))
                      ELSE <<>>]
           later == [p \in 1 .. n |-> IF Goes(p) THEN After(p) ELSE 0]
           step == [p \in 1 .. n |-> [rest \in A |-> IF Goes(p) THEN AllOrNone(Row(p), rest) ELSE <<>>]]
<1>1. Len(line) \in Nat /\ n \in Nat /\ line \in Seq(Symbols)
  BY DEF Text
<1>2. ASSUME NEW p \in 1 .. n, Behind(p) # 0
      PROVE  /\ [id |-> parse_u32(Row(p).values[1]), values |-> Row(p).values] \in Insertions
             /\ Behind(p) \in p + 1 .. Len(line) + 1
  <2>1. /\ Row(p) \in RowsRead(line)
        /\ Row(p).next # 0 => Row(p).next > p /\ parse_u32(Row(p).values[1]) # -1
    BY RowRead
  <2> HIDE DEF Row
  <2>2. Row(p).next \in {0} \cup 1 .. Len(line) + 1
    BY <2>1 DEF RowsRead
  <2>3. /\ Row(p).next = 0 => Behind(p) = 0
        /\ Row(p).next # 0 => Behind(p) \in Row(p).next .. Len(line) + 1
    BY <2>2, DelimiterAt
  <2>4. /\ Row(p).next # 0 /\ Behind(p) \in Row(p).next .. Len(line) + 1 /\ Row(p).next > p
        /\ parse_u32(Row(p).values[1]) # -1
    BY <1>2, <2>1, <2>3
  <2> HIDE DEF Behind
  <2>5. Behind(p) \in p + 1 .. Len(line) + 1
    BY <1>1, <2>2, <2>4
  <2>6. Row(p).values \in Seq(Text) /\ Row(p).values # <<>>
    BY <2>1, <2>4 DEF RowsRead
  <2>7. Row(p).values[1] \in Text
    <3> DEFINE vs == Row(p).values
    <3>1. vs \in Seq(Text) /\ vs # <<>>
      BY <2>6
    <3> HIDE DEF vs
    <3>2. vs[1] \in Text
      BY <3>1
    <3> QED BY <3>2 DEF vs
  <2>8. parse_u32(Row(p).values[1]) \in 0 .. UINT32_MAX
    <3>1. parse_u32(Row(p).values[1]) \in -1 .. UINT32_MAX
      BY <2>7, ParsedNumber DEF Text
    <3> QED BY <2>4, <3>1, TextTableAssumption
  <2> QED BY <2>5, <2>6, <2>8 DEF Insertions
<1>3. ASSUME NEW p \in 1 .. n, Goes(p)
      PROVE  After(p) \in p + 1 .. n
  <2>1. Behind(p) \in p + 1 .. Len(line) + 1
    BY <1>2, <1>3
  <2>2. Behind(p) + 1 \in 1 .. Len(line) + 1
    BY <1>3, FoundAt
  <2>3. After(p) \in Behind(p) + 1 .. Len(line) + 1
    <3> HIDE DEF Behind
    <3> QED BY <1>1, <2>2, StopsAt
  <2> HIDE DEF Behind, After
  <2> QED BY <1>1, <2>1, <2>3
<1>4. parse_insert_values_clause(line, i) = From[skip_spaces(line, i, Blanks)]
  BY Zenon DEF parse_insert_values_clause
<1>5. skip_spaces(line, i, Blanks) \in 1 .. n
  <2>1. skip_spaces(line, i, Blanks) \in i .. Len(line) + 1
    BY <1>1, StopsAt
  <2> QED BY <1>1, <2>1
<1>6. <<>> \in A
  OBVIOUS
<1>7. ASSUME NEW p \in 1 .. n, Behind(p) # 0
      PROVE  OnlyRow(Row(p)) \in A /\ \A rest \in A : AllOrNone(Row(p), rest) \in A
  <2> DEFINE r == [id |-> parse_u32(Row(p).values[1]), values |-> Row(p).values]
  <2>1. r \in Insertions
    BY <1>2, <1>7
  <2>2. OnlyRow(Row(p)) = <<r>>
        /\ \A rest \in A : AllOrNone(Row(p), rest) = IF rest = <<>> THEN <<>> ELSE <<r>> \o rest
    BY DEF OnlyRow, AllOrNone
  <2> HIDE DEF r, Row, Behind
  <2>3. <<r>> \in Seq(Insertions)
    BY <2>1
  <2>4. \A rest \in Seq(Insertions) : <<r>> \o rest \in Seq(Insertions)
    BY <2>3, ConcatProperties
  <2> QED BY <1>6, <2>2, <2>3, <2>4
<1> HIDE DEF n, A, Row, Behind, After, Goes
<1>8. AreCases(base, step, n, A)
  <2>1. base \in [1 .. n -> A]
    BY <1>6, <1>7
  <2>2. \A p \in 1 .. n : Goes(p) => Behind(p) # 0
    BY DEF Goes
  <2>3. step \in [1 .. n -> [A -> A]]
    BY <1>6, <1>7, <2>2
  <2> QED BY <2>1, <2>3 DEF AreCases
<1>9. PICK f \in [1 .. n -> A] :
        \A p \in 1 .. n : f[p] = IF later[p] \in p + 1 .. n THEN step[p][f[later[p]]] ELSE base[p]
  <2> HIDE DEF base, step, later, From
  <2>1. \E f : Recurs(f, base, later, step, n, A)
    BY <1>1, <1>8, Backward
  <2> QED BY <2>1, Zenon DEF Recurs
<1>10. \A p \in 1 .. n :
         f[p] = IF Goes(p) THEN AllOrNone(Row(p), f[After(p)])
                ELSE IF Behind(p) = 0 THEN <<>>
                ELSE IF At(line, Behind(p)) = "," \/ AtEnd(line, Behind(p)) THEN OnlyRow(Row(p))
                ELSE <<>>
  <2> TAKE p \in 1 .. n
  <2>1. CASE ~Goes(p)
    <3> HIDE DEF From
    <3>1. later[p] = 0 /\ ~(0 \in p + 1 .. n)
      <4>1. later[p] = 0
        BY <2>1
      <4> HIDE DEF base, step, later
      <4> QED BY <1>1, <4>1
    <3> QED BY <1>9, <2>1, <3>1
  <2>2. CASE Goes(p)
    <3>1. later[p] = After(p) /\ After(p) \in p + 1 .. n
      BY <1>3, <2>2
    <3>2. f[After(p)] \in A
      <4> HIDE DEF From, step, later, base
      <4>1. After(p) \in 1 .. n
        BY <1>1, <3>1
      <4> QED BY <1>9, <4>1
    <3>3. f[p] = step[p][f[After(p)]]
      <4> HIDE DEF From, step, later, base
      <4> QED BY <1>9, <3>1
    <3> HIDE DEF From, later, base
    <3> QED BY <2>2, <3>2, <3>3
  <2> QED BY <2>1, <2>2
<1>11. f = [p \in 1 .. n |->
             LET row == RowAt(line, p)
                 next == Delimiter(line, row)
                 after == skip_spaces(line, next + 1, Blanks)
             IN IF next = 0 THEN <<>>
                ELSE IF At(line, next) = "," /\ after <= Len(line) THEN AllOrNone(row, f[after])
                ELSE IF At(line, next) = "," \/ AtEnd(line, next) THEN OnlyRow(row)
                ELSE <<>>]
  <2> HIDE DEF From, step, later, base
  <2> QED BY <1>9, <1>10, Zenon DEF Goes, Row, Behind, After
<1>12. From = [p \in 1 .. n |->
             LET row == RowAt(line, p)
                 next == Delimiter(line, row)
                 after == skip_spaces(line, next + 1, Blanks)
             IN IF next = 0 THEN <<>>
                ELSE IF At(line, next) = "," /\ after <= Len(line) THEN AllOrNone(row, From[after])
                ELSE IF At(line, next) = "," \/ AtEnd(line, next) THEN OnlyRow(row)
                ELSE <<>>]
  <2> HIDE DEF step, later, base
  <2> QED BY <1>11, Zenon
<1> HIDE DEF From, step, later, base
<1>13. \A p \in 1 .. n :
         From[p] = IF Goes(p) THEN AllOrNone(Row(p), From[After(p)])
                   ELSE IF Behind(p) = 0 THEN <<>>
                   ELSE IF At(line, Behind(p)) = "," \/ AtEnd(line, Behind(p)) THEN OnlyRow(Row(p))
                   ELSE <<>>
  BY <1>12, Zenon DEF Goes, Row, Behind, After
<1> DEFINE T == {p \in 1 .. n : From[p] \in A}
<1>14. ASSUME NEW p \in 1 .. n, \A j \in p + 1 .. n : j \in T
       PROVE  p \in T
  <2>1. CASE Goes(p)
    <3>1. After(p) \in p + 1 .. n /\ Behind(p) # 0
      BY <1>3, <2>1 DEF Goes
    <3>2. From[p] = AllOrNone(Row(p), From[After(p)])
      BY <1>13, <2>1
    <3>3. From[After(p)] \in A
      BY <1>14, <3>1
    <3> QED BY <1>7, <3>1, <3>2, <3>3
  <2>2. CASE ~Goes(p)
    <3>1. From[p] = IF Behind(p) = 0 THEN <<>>
                    ELSE IF At(line, Behind(p)) = "," \/ AtEnd(line, Behind(p)) THEN OnlyRow(Row(p))
                    ELSE <<>>
      BY <1>13, <2>2, Zenon
    <3> QED BY <1>6, <1>7, <3>1
  <2> QED BY <2>1, <2>2
<1>15. \A p \in 1 .. n : p \in T
  <2> HIDE DEF T
  <2> QED BY <1>1, <1>14, Downward
<1> QED BY <1>4, <1>5, <1>15 DEF A, n

-----------------------------------------------------------------------------
(* Statements. *)

\* What the statements of every line have.
WellFormed(stmt) ==
  \/ stmt.type \in {"failed", "select", "drop"}
  \/ stmt.type = "create" /\ stmt.schema \in Schemas
  \/ stmt.type = "insert" /\ stmt.rows \in Seq(Insertions)
  \/ stmt.type = "update" /\ stmt.value \in Text /\ stmt.id \in 0 .. UINT32_MAX
  \/ stmt.type = "delete" /\ stmt.id \in 0 .. UINT32_MAX

LEMMA FailedIsWellFormed == WellFormed(Failed)
BY DEF WellFormed, Failed

LEMMA IdOfToken ==
  ASSUME NEW text \in Text, parse_u32(text) # -1
  PROVE  parse_u32(text) \in 0 .. UINT32_MAX
<1>1. parse_u32(text) \in -1 .. UINT32_MAX
  BY ParsedNumber DEF Text
<1> QED BY <1>1, TextTableAssumption

LEMMA ColumnMade ==
  ASSUME NEW name \in Text, NEW type \in Types
  PROVE  /\ Column(name, type) \in ColumnRecords
         /\ Column(name, type).max = MaxOf(Column(name, type).type)
         /\ Column(name, type).type = type
<1>1. (IF type = "text" THEN MAX_CELL_TEXT ELSE 0) \in Nat
  BY TextTableAssumption
<1> QED BY <1>1 DEF Column, ColumnRecords, MaxOf

LEMMA CreateIsWellFormed ==
  ASSUME NEW line \in Text
  PROVE  WellFormed(parse_create_table(line))
<1> DEFINE tokens == split_tokens_sql(line)
           primary == At(tokens, 6) = <<"primary">> /\ At(tokens, 7) = <<"key">>
           from == IF primary THEN 8 ELSE 6
           rest == SubSeq(tokens, from, Len(tokens))
           q == Len(rest) \div 2
           columns == [i \in 1 .. q |-> [name |-> rest[2 * i - 1], type |-> rest[2 * i]]]
           id == Column(<<"id">>, "int")
           others == [i \in DOMAIN columns |-> Column(columns[i].name, columns[i].type[1])]
           schema == <<id>> \o others
           Accepted == /\ Len(tokens) >= 8
                       /\ Matches(SubSeq(tokens, 1, 5), <<"create", "table", "?", "id", "int">>)
                       /\ is_valid_identifier(tokens[3])
                       /\ Len(columns) < MAX_SCHEMA_COLUMNS
                       /\ \A c \in ToSet(columns) :
                            is_valid_identifier(c.name) /\ c.type \in {<<"int">>, <<"text">>}
           stmt == [type |-> "create", table |-> tokens[3], schema |-> schema]
<1>1. parse_create_table(line) = IF Accepted THEN stmt ELSE Failed
  BY Zenon DEF parse_create_table
<1>2. tokens \in Seq(Text) /\ Len(tokens) \in Nat
  BY TokensAreTexts
<1>3. ASSUME Accepted PROVE WellFormed(stmt)
  <2>1. /\ Len(tokens) >= 8 /\ Len(columns) < MAX_SCHEMA_COLUMNS
        /\ \A c \in ToSet(columns) : c.type \in {<<"int">>, <<"text">>}
    BY <1>3
  <2> HIDE DEF tokens, Accepted
  <2>2. from \in Nat \ {0} /\ from <= Len(tokens) + 1
    BY <1>2, <2>1
  <2> HIDE DEF from
  <2>3. rest \in Seq(Text) /\ Len(rest) \in Nat
    BY <1>2, <2>2, Portion
  <2> HIDE DEF rest
  <2>4. q \in Nat /\ 2 * q <= Len(rest)
    BY <2>3
  <2> HIDE DEF q
  <2>5. DOMAIN columns = 1 .. q /\ Len(columns) = q
    BY <2>4
  <2>6. \A i \in 1 .. q : columns[i].name \in Text /\ columns[i].type[1] \in Types
    <3> TAKE i \in 1 .. q
    <3>1. 2 * i - 1 \in 1 .. Len(rest)
      BY <2>3, <2>4
    <3>2. rest[2 * i - 1] \in Text
      BY <2>3, <3>1, ElementOfSeq
    <3>3. columns[i].name = rest[2 * i - 1]
      OBVIOUS
    <3>4. columns[i] \in ToSet(columns)
      BY <2>5, Zenon DEF ToSet
    <3>5. columns[i].type \in {<<"int">>, <<"text">>}
      BY <2>1, <3>4
    <3> HIDE DEF columns
    <3>6. columns[i].type[1] \in Types
      BY <3>5 DEF Types
    <3> QED BY <3>2, <3>3, <3>6
  <2> HIDE DEF columns
  <2>7. /\ others \in Seq(ColumnRecords) /\ Len(others) = q
        /\ \A i \in 1 .. q : others[i].max = MaxOf(others[i].type)
    <3>1. \A i \in 1 .. q : LET c == Column(columns[i].name, columns[i].type[1])
                            IN c \in ColumnRecords /\ c.max = MaxOf(c.type)
      BY <2>6, ColumnMade
    <3> QED BY <2>4, <2>5, <3>1
  <2>8. id \in ColumnRecords /\ id.max = MaxOf(id.type) /\ id.type = "int"
    <3>1. "id" \in Symbols /\ "int" \in Types
      BY DEF Symbols, Types
    <3>2. <<"id">> \in Text
      BY <3>1 DEF Text
    <3> QED BY <3>1, <3>2, ColumnMade
  <2> HIDE DEF id, others
  <2>9. <<id>> \in Seq(ColumnRecords) /\ Len(<<id>>) = 1 /\ <<id>>[1] = id
    BY <2>8
  <2>10. /\ schema \in Seq(ColumnRecords) /\ Len(schema) = 1 + q
         /\ \A k \in 1 .. 1 + q : schema[k] = IF k <= 1 THEN <<id>>[k] ELSE others[k - 1]
    BY <2>7, <2>9, ConcatProperties
  <2> HIDE DEF schema
  <2>11. /\ 1 + q \in 1 .. MAX_SCHEMA_COLUMNS
         /\ schema[1] = id
         /\ \A k \in 1 .. 1 + q : schema[k].max = MaxOf(schema[k].type)
    <3>1. 1 + q \in 1 .. MAX_SCHEMA_COLUMNS /\ 1 \in 1 .. 1 + q
      BY <2>1, <2>4, <2>5, TextTableAssumption
    <3>2. schema[1] = id
      BY <2>9, <2>10, <3>1
    <3>3. ASSUME NEW k \in 1 .. 1 + q
          PROVE  schema[k].max = MaxOf(schema[k].type)
      <4>1. CASE k = 1
        BY <2>8, <3>2, <4>1
      <4>2. CASE k # 1
        <5>1. k - 1 \in 1 .. q /\ ~(k <= 1)
          BY <2>4, <4>2
        <5> QED BY <2>7, <2>10, <5>1
      <4> QED BY <4>1, <4>2
    <3> QED BY <3>1, <3>2, <3>3
  <2>12. schema \in Schemas
    <3>1. DOMAIN schema = 1 .. 1 + q
      BY <2>4, <2>10
    <3> QED BY <2>8, <2>10, <2>11, <3>1 DEF Schemas
  <2> QED BY <2>12 DEF WellFormed
<1> HIDE DEF Accepted, stmt
<1> QED BY <1>1, <1>3, FailedIsWellFormed

LEMMA InsertIsWellFormed ==
  ASSUME NEW line \in Text
  PROVE  WellFormed(parse_insert_into(line))
<1>1. line \in Seq(Symbols) /\ Len(line) \in Nat
  BY DEF Text
<1>2. ASSUME NEW i, NEW keyword \in {"insert", "into", "values"}, consume_keyword_ci(line, i, keyword) # 0
      PROVE  consume_keyword_ci(line, i, keyword) \in 1 .. Len(line) + 1
  <2>1. /\ At(line, skip_spaces(line, i, Blanks)) = keyword
        /\ consume_keyword_ci(line, i, keyword) = skip_spaces(line, i, Blanks) + 1
    BY <1>2, Zenon DEF consume_keyword_ci
  <2>2. At(line, skip_spaces(line, i, Blanks)) # "end"
    BY <2>1
  <2> QED BY <2>1, <2>2, FoundAt
<1>3. ASSUME NEW table, NEW i \in 1 .. Len(line) + 1
      PROVE  WellFormed(InsertWith(table, parse_insert_values_clause(line, i)))
  <2> DEFINE rows == parse_insert_values_clause(line, i)
             stmt == [type |-> "insert", table |-> table, rows |-> rows]
  <2>1. rows \in Seq(Insertions)
    BY RowsAreInsertions
  <2> HIDE DEF rows
  <2>2. WellFormed(stmt)
    BY <2>1 DEF WellFormed
  <2>3. InsertWith(table, rows) \in {stmt, Failed}
    BY Zenon DEF InsertWith
  <2> HIDE DEF stmt
  <2> QED BY <2>2, <2>3, FailedIsWellFormed DEF rows
<1>4. ASSUME NEW name, NEW end
      PROVE  WellFormed(AfterInto(line, name, end))
  <2> DEFINE start == consume_keyword_ci(line, end, "values")
  <2>1. CASE start = 0
    BY <2>1, FailedIsWellFormed, Zenon DEF AfterInto, AfterName
  <2>2. CASE start # 0
    <3>1. start \in 1 .. Len(line) + 1
      BY <1>2, <2>2
    <3>2. AfterInto(line, name, end)
            = InsertWith(SubSeq(line, name, end - 1), parse_insert_values_clause(line, start))
      BY <2>2, Zenon DEF AfterInto, AfterName
    <3> HIDE DEF start
    <3> QED BY <1>3, <3>1, <3>2
  <2> QED BY <2>1, <2>2
<1> DEFINE start == consume_keyword_ci(line, consume_keyword_ci(line, 1, "insert"), "into")
<1>5. parse_insert_into(line) = IF start = 0 THEN Failed ELSE NameAt(line, skip_spaces(line, start, Blanks))
  BY Zenon DEF parse_insert_into
<1> HIDE DEF start
<1>6. WellFormed(NameAt(line, skip_spaces(line, start, Blanks)))
  BY <1>4 DEF NameAt
<1> QED BY <1>5, <1>6, FailedIsWellFormed

LEMMA OthersAreWellFormed ==
  ASSUME NEW line \in Text
  PROVE  /\ WellFormed(parse_select_from(line)) /\ WellFormed(parse_drop_table(line))
         /\ WellFormed(parse_delete_from(line)) /\ WellFormed(parse_update_table(line))
<1>1. WellFormed(parse_select_from(line))
  <2> DEFINE tokens == split_tokens_sql(line)
             stmt == [type |-> "select", table |-> tokens[4]]
  <2>1. WellFormed(stmt)
    BY DEF WellFormed
  <2>2. parse_select_from(line) \in {stmt, Failed}
    BY Zenon DEF parse_select_from
  <2> HIDE DEF stmt
  <2> QED BY <2>1, <2>2, FailedIsWellFormed
<1>2. WellFormed(parse_drop_table(line))
  <2> DEFINE tokens == split_tokens_sql(line)
             stmt == [type |-> "drop", table |-> tokens[3]]
  <2>1. WellFormed(stmt)
    BY DEF WellFormed
  <2>2. parse_drop_table(line) \in {stmt, Failed}
    BY Zenon DEF parse_drop_table
  <2> HIDE DEF stmt
  <2> QED BY <2>1, <2>2, FailedIsWellFormed
<1> DEFINE tokens == split_tokens_sql(WithoutEquals(line))
<1>3. tokens \in Seq(Text)
  BY BlankedIsText, TokensAreTexts
<1>4. WellFormed(parse_delete_from(line))
  <2> DEFINE stmt == [type |-> "delete", table |-> tokens[3], id |-> parse_u32(tokens[6])]
             Accepted == /\ Matches(tokens, <<"delete", "from", "?", "where", "id", "?">>)
                         /\ is_valid_identifier(tokens[3]) /\ parse_u32(tokens[6]) # -1
  <2>1. parse_delete_from(line) = IF Accepted THEN stmt ELSE Failed
    BY Zenon DEF parse_delete_from
  <2>2. ASSUME Accepted PROVE WellFormed(stmt)
    <3> HIDE DEF tokens
    <3> DEFINE form == <<"delete", "from", "?", "where", "id", "?">>
    <3>0. Matches(tokens, form) /\ Len(form) = 6
      BY <2>2
    <3> HIDE DEF form
    <3>1. Len(tokens) = 6
      BY <3>0 DEF Matches
    <3>2. tokens[6] \in Text
      <4>1. 6 \in 1 .. Len(tokens)
        BY <3>1
      <4> QED BY <1>3, <4>1, ElementOfSeq
    <3>3. parse_u32(tokens[6]) \in 0 .. UINT32_MAX
      BY <2>2, <3>2, IdOfToken
    <3> QED BY <3>3 DEF WellFormed
  <2> HIDE DEF stmt, Accepted
  <2> QED BY <2>1, <2>2, FailedIsWellFormed
<1>5. WellFormed(parse_update_table(line))
  <2> DEFINE stmt == [type |-> "update", table |-> tokens[2], column |-> tokens[4], value |-> tokens[5],
                      id |-> parse_u32(tokens[8])]
             Accepted == /\ Matches(tokens, <<"update", "?", "set", "?", "?", "where", "id", "?">>)
                         /\ is_valid_identifier(tokens[2]) /\ is_valid_identifier(tokens[4])
                         /\ parse_u32(tokens[8]) # -1
  <2>1. parse_update_table(line) = IF Accepted THEN stmt ELSE Failed
    BY Zenon DEF parse_update_table
  <2>2. ASSUME Accepted PROVE WellFormed(stmt)
    <3> HIDE DEF tokens
    <3> DEFINE form == <<"update", "?", "set", "?", "?", "where", "id", "?">>
    <3>0. Matches(tokens, form) /\ Len(form) = 8
      BY <2>2
    <3> HIDE DEF form
    <3>1. Len(tokens) = 8
      BY <3>0 DEF Matches
    <3>2. tokens[5] \in Text /\ tokens[8] \in Text
      <4>1. 5 \in 1 .. Len(tokens) /\ 8 \in 1 .. Len(tokens)
        BY <3>1
      <4> QED BY <1>3, <4>1, ElementOfSeq
    <3>3. parse_u32(tokens[8]) \in 0 .. UINT32_MAX
      BY <2>2, <3>2, IdOfToken
    <3> QED BY <3>2, <3>3 DEF WellFormed
  <2> HIDE DEF stmt, Accepted
  <2> QED BY <2>1, <2>2, FailedIsWellFormed
<1> QED BY <1>1, <1>2, <1>4, <1>5

LEMMA StatementsAreWellFormed ==
  ASSUME NEW line \in Text
  PROVE  WellFormed(parse_sql_statement(line))
<1> DEFINE parsed == <<parse_create_table(line), parse_insert_into(line), parse_select_from(line),
                       parse_delete_from(line), parse_update_table(line), parse_drop_table(line)>>
           accepted == {i \in DOMAIN parsed : parsed[i] # Failed}
<1>1. DOMAIN parsed = 1 .. 6
  OBVIOUS
<1>2. \A i \in 1 .. 6 : WellFormed(parsed[i])
  <2> TAKE i \in 1 .. 6
  <2>1. i \in {1, 2, 3, 4, 5, 6}
    OBVIOUS
  <2>2. parsed[i] \in {parse_create_table(line), parse_insert_into(line), parse_select_from(line),
                       parse_delete_from(line), parse_update_table(line), parse_drop_table(line)}
    BY <2>1
  <2> HIDE DEF parsed
  <2> QED BY <2>2, CreateIsWellFormed, InsertIsWellFormed, OthersAreWellFormed
<1>3. parse_sql_statement(line) = IF accepted = {} THEN Failed ELSE parsed[Min(accepted)]
  BY Zenon DEF parse_sql_statement
<1> HIDE DEF parsed
<1>4. accepted # {} => Min(accepted) \in 1 .. 6
  <2>1. accepted \subseteq Nat
    BY <1>1
  <2>2. accepted # {} => Min(accepted) \in accepted
    <3> HIDE DEF accepted
    <3> QED BY <2>1, MinOf
  <2> QED BY <1>1, <2>2
<1> HIDE DEF accepted
<1> QED BY <1>2, <1>3, <1>4, FailedIsWellFormed

-----------------------------------------------------------------------------
(* The rows of the table. *)

\* What the proofs use of a layout.
IsLayout(layout, schema) ==
  /\ Len(schema) \in Nat \ {0} /\ DOMAIN schema = 1 .. Len(schema) /\ schema[1].type = "int"
  /\ DOMAIN layout = 1 .. Len(schema) /\ Width(layout) \in Nat
  /\ \A i \in 1 .. Len(schema) :
       /\ layout[i].offset \in Nat /\ layout[i].size \in Nat
       /\ layout[i].offset + layout[i].size <= Width(layout)
       /\ layout[i].type = schema[i].type /\ layout[i].size = ColSize(schema[i])
  /\ \A i, j \in 1 .. Len(schema) : i < j => layout[i].offset + layout[i].size <= layout[j].offset

LEMMA LayoutOf ==
  ASSUME NEW schema \in Schemas
  PROVE  IsLayout(compute_row_layout(schema), schema)
<1> DEFINE layout == compute_row_layout(schema)
           n == Len(schema)
<1>1. LaysOut(layout, schema)
  BY ColumnsLaidOut
<1> HIDE DEF layout
<1>2. n \in Nat \ {0} /\ DOMAIN schema = 1 .. n /\ schema[1].type = "int"
  BY DEF Schemas
<1>3. DOMAIN layout = 1 .. n
  BY <1>1 DEF LaysOut
<1>4. \A i \in 1 .. n : /\ layout[i].offset \in Nat /\ layout[i].size \in Nat
                        /\ layout[i].type = schema[i].type /\ layout[i].size = ColSize(schema[i])
  <2> TAKE i \in 1 .. n
  <2>1. i \in 1 .. Len(layout) /\ layout \in Seq([type : Types, offset : Nat, size : Nat])
    BY <1>1 DEF LaysOut
  <2>2. layout[i] \in [type : Types, offset : Nat, size : Nat]
    BY <2>1, ElementOfSeq
  <2> QED BY <1>1, <2>2 DEF LaysOut
<1>5. /\ Width(layout) \in Nat
      /\ \A i \in 1 .. n : layout[i].offset + layout[i].size <= Width(layout)
      /\ \A i, j \in 1 .. n : i < j => layout[i].offset + layout[i].size <= layout[j].offset
  BY <1>1, ColumnsApart
<1> HIDE DEF n
<1>6. IsLayout(layout, schema)
  BY <1>2, <1>3, <1>4, <1>5, Zenon DEF IsLayout, n
<1> QED BY <1>6 DEF layout

\* The row with an id holds the id, and a text in every column.
RowRight(k, row, layout, schema) ==
  /\ k \in 0 .. UINT32_MAX /\ row \in Rows /\ Len(row) = Width(layout)
  /\ Holds(row, layout[1], <<Numeral(k)>>)
  /\ \A i \in 1 .. Len(schema) : \E text \in Text : Holds(row, layout[i], text)

\* A row of an insert that is valid.
LEMMA RowInserted ==
  ASSUME NEW schema \in Schemas, NEW layout, layout = compute_row_layout(schema),
         NEW row \in Insertions, ValidValues(row.values, schema)
  PROVE  /\ RowRight(row.id, pack_insert_row_values(row.values, layout), layout, schema)
         /\ \A i \in 1 .. Len(schema) :
              Holds(pack_insert_row_values(row.values, layout), layout[i],
                    Put(schema[i].type, row.values[i]))
<1> DEFINE packed == pack_insert_row_values(row.values, layout)
<1>1. /\ packed \in Rows /\ Len(packed) = Width(layout)
      /\ \A i \in 1 .. Len(schema) : Holds(packed, layout[i], Put(schema[i].type, row.values[i]))
  BY RowPacked
<1> HIDE DEF packed
<1>2. row.id \in 0 .. UINT32_MAX /\ row.id = parse_u32(row.values[1])
  BY DEF Insertions
<1>3. Len(schema) \in Nat \ {0} /\ 1 \in 1 .. Len(schema) /\ schema[1].type = "int"
  BY LayoutOf DEF IsLayout
<1>4. Put(schema[1].type, row.values[1]) = <<Numeral(row.id)>>
  BY <1>2, <1>3, Zenon DEF Put
<1>5. Holds(packed, layout[1], <<Numeral(row.id)>>)
  BY <1>1, <1>3, <1>4, Zenon
<1>6. \A i \in 1 .. Len(schema) : \E text \in Text : Holds(packed, layout[i], text)
  <2> TAKE i \in 1 .. Len(schema)
  <2>1. Holds(packed, layout[i], Put(schema[i].type, row.values[i]))
    BY <1>1
  <2>2. Put(schema[i].type, row.values[i]) \in Text
    BY <2>1, Zenon DEF Holds
  <2> QED BY <2>1, <2>2, Zenon
<1> QED BY <1>1, <1>2, <1>5, <1>6, Zenon DEF RowRight, packed

\* A column of a row that is not the first one gets a value; all of the others keep
\* what they hold.
LEMMA ColumnUpdated ==
  ASSUME NEW schema \in Schemas, NEW layout, layout = compute_row_layout(schema),
         NEW k, NEW row, RowRight(k, row, layout, schema),
         NEW t \in 2 .. Len(schema), NEW text \in Text, ValueValid(schema[t], text)
  PROVE  /\ RowRight(k, PutColumn(row, layout[t], text), layout, schema)
         /\ Holds(PutColumn(row, layout[t], text), layout[t], Put(schema[t].type, text))
         /\ \A i \in 1 .. Len(schema) \ {t} : \A held :
              Holds(row, layout[i], held) => Holds(PutColumn(row, layout[t], text), layout[i], held)
<1> DEFINE put == PutColumn(row, layout[t], text)
           n == Len(schema)
           v == Put(schema[t].type, text)
           w == Width(layout)
           Old(i) == \E x \in Text : Holds(row, layout[i], x)
           New(i) == \E x \in Text : Holds(put, layout[i], x)
<1>1. /\ n \in Nat /\ n # 0 /\ w \in Nat
      /\ \A i \in 1 .. n : /\ layout[i].offset \in Nat /\ layout[i].size \in Nat
                           /\ layout[i].offset + layout[i].size <= w
                           /\ layout[i].type = schema[i].type /\ layout[i].size = ColSize(schema[i])
      /\ \A i, j \in 1 .. n : i < j => layout[i].offset + layout[i].size <= layout[j].offset
  BY LayoutOf DEF IsLayout
<1>2. t \in 1 .. n /\ 1 \in 1 .. n /\ t # 1
  BY <1>1
<1>3. v \in Text /\ Len(v) <= ColSize(schema[t])
  BY <1>2, ValidFits
<1>4. /\ k \in 0 .. UINT32_MAX /\ row \in Rows /\ Len(row) = w
      /\ Holds(row, layout[1], <<Numeral(k)>>) /\ \A i \in 1 .. n : Old(i)
  BY Zenon DEF RowRight
<1>5. /\ put \in Rows /\ Len(put) = w /\ Holds(put, layout[t], v)
      /\ \A c \in 1 .. w : c <= layout[t].offset \/ c > layout[t].offset + layout[t].size
                             => put[c] = row[c]
  <2>1. Put(layout[t].type, text) = v
    BY <1>1, <1>2
  <2>2. /\ layout[t].offset \in Nat /\ layout[t].size \in Nat
        /\ layout[t].offset + layout[t].size <= Len(row)
        /\ v \in Text /\ Len(v) <= layout[t].size
    BY <1>1, <1>2, <1>3, <1>4
  <2> HIDE DEF v
  <2> QED BY <1>4, <2>1, <2>2, ColumnPut
<1> HIDE DEF put, n, v, w
<1>6. ASSUME NEW i \in 1 .. n \ {t}, NEW held, Holds(row, layout[i], held)
      PROVE  Holds(put, layout[i], held)
  <2> DEFINE o == layout[i].offset
             z == layout[i].size
             from == layout[t].offset
             to == layout[t].offset + layout[t].size
  <2>1. i \in 1 .. n /\ (i < t \/ t < i)
    BY <1>1, <1>2
  <2>2. o \in Nat /\ z \in Nat /\ o + z <= w /\ from \in Nat /\ to \in Nat
    BY <1>1, <1>2, <2>1
  <2>3. o + z <= from \/ to <= o
    BY <1>1, <1>2, <2>1
  <2> HIDE DEF o, z, from, to
  <2>4. \A c \in o + 1 .. o + z : c \in 1 .. w /\ (c <= from \/ c > to)
    BY <1>1, <2>2, <2>3
  <2>5. \A c \in o + 1 .. o + z : put[c] = row[c]
    BY <1>5, <2>4 DEF from, to
  <2>6. Holds(put, layout[i], held)
    BY <1>6, <2>2, <2>5, HeldElsewhere DEF o, z
  <2> QED BY <2>6
<1>7. \A i \in 1 .. n : New(i)
  <2> TAKE i \in 1 .. n
  <2>1. CASE i = t
    BY <1>3, <1>5, <2>1, Zenon
  <2>2. CASE i # t
    <3>1. PICK x \in Text : Holds(row, layout[i], x)
      BY <1>4, Zenon
    <3>2. Holds(put, layout[i], x)
      BY <1>6, <2>2, <3>1
    <3> QED BY <3>2, Zenon
  <2> QED BY <2>1, <2>2
<1>8. Holds(put, layout[1], <<Numeral(k)>>)
  <2>1. 1 \in 1 .. n \ {t}
    BY <1>2
  <2> HIDE DEF Numeral
  <2> QED BY <1>4, <1>6, <2>1
<1>9. RowRight(k, put, layout, schema)
  BY <1>4, <1>5, <1>7, <1>8, Zenon DEF RowRight, n, w
<1> QED BY <1>5, <1>6, <1>9 DEF put, n, v

\* The inductive invariant: the payload is that of a schema, and each row is one of
\* this schema.
RowsRight(rows, schema) ==
  \A k \in DOMAIN rows : RowRight(k, rows[k], compute_row_layout(schema), schema)
TableRight(load, rows) ==
  \/ load = <<>> /\ DOMAIN rows = {}
  \/ \E schema \in Schemas : load = make_schema_payload(schema) /\ RowsRight(rows, schema)
Replies == {"ok", "syntax error", "table exists", "not inserted", "not updated", "not deleted", "not found"}
IInv == TableRight(payload, cells) /\ reply \in Replies

LEMMA Catalogued ==
  ASSUME NEW schema \in Schemas
  PROVE  /\ make_schema_payload(schema) # <<>> /\ schema # <<>>
         /\ split_schema_payload(make_schema_payload(schema)) = schema
<1>1. /\ make_schema_payload(schema) \in Seq(PartValues)
      /\ Len(make_schema_payload(schema)) = 1 + 3 * Len(schema)
  BY PayloadParts
<1>2. schema \in Seq(ColumnRecords) /\ Len(schema) \in 1 .. MAX_SCHEMA_COLUMNS
  BY DEF Schemas
<1> DEFINE load == make_schema_payload(schema)
<1> HIDE DEF load
<1>3. load # <<>>
  <2>1. Len(load) # 0
    BY <1>1, <1>2 DEF load
  <2> QED BY <2>1
<1>4. schema # <<>>
  BY <1>2
<1> QED BY <1>3, <1>4, SchemaKept DEF load

\* What a statement sees of a table that is right.
LEMMA Seen ==
  ASSUME TableRight(payload, cells)
  PROVE  /\ Schema = <<>> => payload = <<>> /\ DOMAIN cells = {}
         /\ Schema # <<>> => /\ Schema \in Schemas /\ payload = make_schema_payload(Schema)
                             /\ RowsRight(cells, Schema)
         /\ payload = <<>> => Schema = <<>>
<1>1. CASE payload = <<>> /\ DOMAIN cells = {}
  BY <1>1 DEF Schema
<1>2. ASSUME NEW schema \in Schemas, payload = make_schema_payload(schema), RowsRight(cells, schema)
      PROVE  payload # <<>> /\ Schema = schema /\ schema # <<>>
  <2>1. payload # <<>> /\ split_schema_payload(payload) = schema /\ schema # <<>>
    BY <1>2, Catalogued
  <2> QED BY <2>1 DEF Schema
<1> QED BY <1>1, <1>2, Zenon DEF TableRight

LEMMA TypedAtInit == Init => IInv
<1>1. DOMAIN NoRows = {}
  BY DEF NoRows
<1> QED BY <1>1, Zenon DEF Init, IInv, TableRight, Replies

\* What is typed is parsed to a statement that is well formed.
LEMMA TypedIsWellFormed ==
  ASSUME NEW typed \in ParsedInputs
  PROVE  WellFormed(typed.stmt)
<1>1. PICK i \in Inputs : typed = [stmt |-> parse_sql_statement(i.line), request |-> i.request]
  BY DEF ParsedInputs
<1>2. i.line \in Text
  <2>1. i.line \in Seq(Characters)
    BY TextTableAssumption
  <2>2. Characters \subseteq Symbols
    BY DEF Symbols
  <2> QED BY <2>1, <2>2, SeqMonotonic DEF Text
<1>3. typed.stmt = parse_sql_statement(i.line)
  BY <1>1
<1> QED BY <1>2, <1>3, StatementsAreWellFormed

\* Rows of an insert that are accepted.
Accepted(rows) ==
  /\ IsInjective([i \in DOMAIN rows |-> rows[i].id])
  /\ \A row \in ToSet(rows) : RowValid(row, Schema)

\* The row with the id of one of the rows is that row.
LEMMA RowWithId ==
  ASSUME NEW rows \in Seq(Insertions), Accepted(rows), NEW i \in DOMAIN rows
  PROVE  (CHOOSE row \in ToSet(rows) : row.id = rows[i].id) = rows[i]
<1> DEFINE row == CHOOSE row \in ToSet(rows) : row.id = rows[i].id
           ids == [j \in DOMAIN rows |-> rows[j].id]
<1>1. rows[i] \in ToSet(rows)
  BY Zenon DEF ToSet
<1>2. row \in ToSet(rows) /\ row.id = rows[i].id
  BY <1>1, Zenon
<1> HIDE DEF row
<1>3. PICK j \in DOMAIN rows : row = rows[j]
  BY <1>2, Zenon DEF ToSet
<1>4. ids[j] = ids[i] /\ DOMAIN ids = DOMAIN rows
  BY <1>2, <1>3
<1>5. IsInjective(ids)
  BY DEF Accepted
<1> HIDE DEF ids
<1>6. j = i
  BY <1>4, <1>5, Zenon DEF IsInjective
<1> QED BY <1>3, <1>6 DEF row

\* An insert that is not refused.
LEMMA InsertedRows ==
  ASSUME TableRight(payload, cells), NEW stmt, stmt.rows \in Seq(Insertions),
         execute_insert(stmt), Found(stmt), Accepted(stmt.rows)
  PROVE  /\ reply' = "ok" /\ payload' = payload
         /\ DOMAIN cells' = DOMAIN cells \cup {stmt.rows[i].id : i \in DOMAIN stmt.rows}
         /\ \A k \in DOMAIN cells : cells'[k] = cells[k]
         /\ \A i \in DOMAIN stmt.rows :
              /\ stmt.rows[i].id \notin DOMAIN cells
              /\ stmt.rows[i] \in Insertions /\ ValidValues(stmt.rows[i].values, Schema)
              /\ cells'[stmt.rows[i].id] = pack_insert_row_values(stmt.rows[i].values, Layout)
<1> DEFINE rows == stmt.rows
           ids == [i \in DOMAIN rows |-> rows[i].id]
           RowWith(id) == CHOOSE row \in ToSet(rows) : row.id = id
           new == [k \in DOMAIN cells \cup ToSet(ids) |->
                     IF k \in DOMAIN cells THEN cells[k]
                     ELSE pack_insert_row_values(RowWith(k).values, Layout)]
<1>1. reply' = "ok" /\ payload' = payload /\ cells' = new
  <2>1. ~(\/ ~Found(stmt) \/ ~IsInjective(ids)
          \/ \E row \in ToSet(stmt.rows) : ~RowValid(row, Schema))
    BY DEF Accepted
  <2> QED BY <2>1, Zenon DEF execute_insert, Done, Layout
<1>2. ToSet(ids) = {rows[i].id : i \in DOMAIN rows}
  BY DEF ToSet
<1>3. Schema \in Schemas
  BY Seen DEF Found
<1>4. ASSUME NEW i \in DOMAIN rows
      PROVE  /\ rows[i].id \notin DOMAIN cells
             /\ rows[i] \in Insertions /\ ValidValues(rows[i].values, Schema)
             /\ RowWith(rows[i].id) = rows[i]
  <2>1. rows[i] \in Insertions
    <3> HIDE DEF rows
    <3>1. rows \in Seq(Insertions)
      BY DEF rows
    <3> QED BY <3>1
  <2>2. RowWith(rows[i].id) = rows[i]
    BY RowWithId
  <2>3. rows[i] \in ToSet(rows)
    BY Zenon DEF ToSet
  <2>4. RowValid(rows[i], Schema)
    BY <2>3 DEF Accepted
  <2>5. DOMAIN Schema = 1 .. Len(Schema)
    BY <1>3, LayoutOf DEF IsLayout
  <2>6. ValidValues(rows[i].values, Schema)
    <3>1. rows[i].values \in Seq(Text)
      BY <2>1 DEF Insertions
    <3> QED BY <2>4, <2>5, <3>1, Zenon DEF ValidValues, RowValid
  <2>7. rows[i].id \notin DOMAIN cells
    BY <2>4, Zenon DEF RowValid
  <2> QED BY <2>1, <2>2, <2>6, <2>7
<1> HIDE DEF rows, RowWith
<1>5. \A k \in DOMAIN new : new[k] = IF k \in DOMAIN cells THEN cells[k]
                                     ELSE pack_insert_row_values(RowWith(k).values, Layout)
  OBVIOUS
<1>6. DOMAIN new = DOMAIN cells \cup {rows[i].id : i \in DOMAIN rows}
  BY <1>2
<1> HIDE DEF new
<1>7. \A k \in DOMAIN cells : new[k] = cells[k]
  BY <1>5, <1>6
<1>8. \A i \in DOMAIN rows : new[rows[i].id] = pack_insert_row_values(rows[i].values, Layout)
  <2> TAKE i \in DOMAIN rows
  <2>1. rows[i].id \in DOMAIN new
    BY <1>6
  <2> QED BY <1>4, <1>5, <2>1, Zenon
<1> QED BY <1>1, <1>4, <1>6, <1>7, <1>8, Zenon DEF rows

\* An update that is not refused.
Named(stmt) == {i \in DOMAIN Schema : Schema[i].name = stmt.column}
Target(stmt) == Min(Named(stmt))
UpdateAccepted(stmt) ==
  /\ Found(stmt) /\ Named(stmt) # {} /\ Target(stmt) # 1 /\ stmt.id \in DOMAIN cells
  /\ ValueValid(Schema[Target(stmt)], stmt.value)

LEMMA UpdatedRow ==
  ASSUME TableRight(payload, cells), NEW stmt, execute_update(stmt), UpdateAccepted(stmt)
  PROVE  /\ reply' = "ok" /\ payload' = payload /\ DOMAIN cells' = DOMAIN cells
         /\ Target(stmt) \in 2 .. Len(Schema) /\ Schema[Target(stmt)].name = stmt.column
         /\ cells'[stmt.id] = PutColumn(cells[stmt.id], Layout[Target(stmt)], stmt.value)
         /\ \A k \in DOMAIN cells \ {stmt.id} : cells'[k] = cells[k]
<1>1. Schema \in Schemas
  BY Seen DEF UpdateAccepted, Found
<1>2. Len(Schema) \in Nat /\ DOMAIN Schema = 1 .. Len(Schema)
  BY <1>1, LayoutOf DEF IsLayout
<1>3. Target(stmt) \in Named(stmt)
  <2>1. Named(stmt) \subseteq Nat /\ Named(stmt) # {}
    BY <1>2 DEF Named, UpdateAccepted
  <2> QED BY <2>1, MinOf DEF Target
<1>4. Target(stmt) \in 2 .. Len(Schema) /\ Schema[Target(stmt)].name = stmt.column
  BY <1>2, <1>3 DEF Named, UpdateAccepted
<1>5. /\ reply' = "ok" /\ payload' = payload
      /\ cells' = [cells EXCEPT ![stmt.id] = PutColumn(@, Layout[Target(stmt)], stmt.value)]
  <2>1. ~(\/ ~Found(stmt) \/ Named(stmt) = {} \/ Target(stmt) = 1 \/ stmt.id \notin DOMAIN cells
          \/ ~ValueValid(Schema[Target(stmt)], stmt.value))
    BY DEF UpdateAccepted
  <2> QED BY <2>1, Zenon DEF execute_update, Done, Layout, Named, Target
<1>6. stmt.id \in DOMAIN cells
  BY DEF UpdateAccepted
<1> QED BY <1>4, <1>5, <1>6

\* A statement leaves the table right.
LEMMA TypedStep == IInv /\ Next => IInv'
<1> SUFFICES ASSUME IInv, Next PROVE IInv'
  OBVIOUS
<1>1. TableRight(payload, cells)
  BY DEF IInv
<1>2. WellFormed(statement')
  <2>1. PICK typed \in ParsedInputs : statement' = typed.stmt
    BY DEF Next
  <2> QED BY <2>1, TypedIsWellFormed
<1>3. ASSUME NEW error, Refused(error), error \in Replies
      PROVE  IInv'
  BY <1>1, <1>3 DEF Refused, IInv
<1>4. CASE Syntax
  BY <1>3, <1>4 DEF Syntax, Replies
<1>5. CASE Create
  <2>1. CASE Found(statement')
    BY <1>3, <1>5, <2>1, Zenon DEF Create, execute_create_table, Replies
  <2>2. CASE ~Found(statement')
    <3>1. /\ reply' = "ok" /\ payload' = make_schema_payload(statement'.schema) /\ cells' = NoRows
          /\ statement'.type = "create"
      BY <1>5, <2>2, Zenon DEF Create, execute_create_table, Done
    <3>2. statement'.schema \in Schemas
      BY <1>2, <3>1 DEF WellFormed
    <3>3. RowsRight(cells', statement'.schema)
      BY <3>1 DEF RowsRight, NoRows
    <3> QED BY <3>1, <3>2, <3>3, Zenon DEF IInv, TableRight, Replies
  <2> QED BY <2>1, <2>2
<1>6. CASE Insert
  <2>1. statement'.rows \in Seq(Insertions) /\ execute_insert(statement')
    BY <1>2, <1>6 DEF Insert, WellFormed
  <2>2. CASE ~(Found(statement') /\ Accepted(statement'.rows))
    <3>1. Refused("not inserted")
      BY <2>1, <2>2, Zenon DEF execute_insert, Accepted
    <3> QED BY <1>3, <3>1 DEF Replies
  <2>3. CASE Found(statement') /\ Accepted(statement'.rows)
    <3>1. /\ reply' = "ok" /\ payload' = payload
          /\ DOMAIN cells' = DOMAIN cells \cup {statement'.rows[i].id : i \in DOMAIN statement'.rows}
          /\ \A k \in DOMAIN cells : cells'[k] = cells[k]
          /\ \A i \in DOMAIN statement'.rows :
               /\ statement'.rows[i].id \notin DOMAIN cells
               /\ statement'.rows[i] \in Insertions /\ ValidValues(statement'.rows[i].values, Schema)
               /\ cells'[statement'.rows[i].id] = pack_insert_row_values(statement'.rows[i].values, Layout)
      BY <1>1, <2>1, <2>3, InsertedRows
    <3>2. Schema \in Schemas /\ payload = make_schema_payload(Schema) /\ RowsRight(cells, Schema)
      BY <1>1, <2>3, Seen DEF Found
    <3>3. ASSUME NEW k \in DOMAIN cells'
          PROVE  RowRight(k, cells'[k], Layout, Schema)
      <4>1. CASE k \in DOMAIN cells
        BY <3>1, <3>2, <4>1 DEF RowsRight, Layout
      <4>2. CASE k \notin DOMAIN cells
        <5>1. PICK i \in DOMAIN statement'.rows : k = statement'.rows[i].id
          BY <3>1, <4>2
        <5> DEFINE row == statement'.rows[i]
        <5>2. row \in Insertions /\ ValidValues(row.values, Schema)
              /\ cells'[k] = pack_insert_row_values(row.values, Layout) /\ k = row.id
          BY <3>1, <5>1
        <5> HIDE DEF row
        <5> QED BY <3>2, <5>2, RowInserted DEF Layout
      <4> QED BY <4>1, <4>2
    <3>4. RowsRight(cells', Schema)
      BY <3>3 DEF RowsRight, Layout
    <3>5. TableRight(payload', cells')
      BY <3>1, <3>2, <3>4, Zenon DEF TableRight
    <3> QED BY <3>1, <3>5 DEF IInv, Replies
  <2> QED BY <2>2, <2>3
<1>7. CASE Update
  <2> DEFINE stmt == statement'
  <2>1. stmt.value \in Text /\ execute_update(stmt)
    BY <1>2, <1>7 DEF Update, WellFormed
  <2> HIDE DEF stmt
  <2>2. CASE ~UpdateAccepted(stmt)
    <3>1. Refused("not updated")
      BY <2>1, <2>2, Zenon DEF execute_update, UpdateAccepted, Named, Target
    <3> QED BY <1>3, <3>1 DEF Replies
  <2>3. CASE UpdateAccepted(stmt)
    <3> DEFINE t == Target(stmt)
    <3>1. /\ reply' = "ok" /\ payload' = payload /\ DOMAIN cells' = DOMAIN cells
          /\ t \in 2 .. Len(Schema) /\ cells'[stmt.id] = PutColumn(cells[stmt.id], Layout[t], stmt.value)
          /\ \A k \in DOMAIN cells \ {stmt.id} : cells'[k] = cells[k]
      BY <1>1, <2>1, <2>3, UpdatedRow
    <3>2. Schema \in Schemas /\ payload = make_schema_payload(Schema) /\ RowsRight(cells, Schema)
      BY <1>1, <2>3, Seen DEF UpdateAccepted, Found
    <3>3. ValueValid(Schema[t], stmt.value)
      BY <2>3 DEF UpdateAccepted
    <3> HIDE DEF t
    <3>4. ASSUME NEW k \in DOMAIN cells'
          PROVE  RowRight(k, cells'[k], Layout, Schema)
      <4>1. RowRight(k, cells[k], Layout, Schema)
        BY <3>1, <3>2 DEF RowsRight, Layout
      <4>2. CASE k = stmt.id
        BY <2>1, <3>1, <3>2, <3>3, <4>1, <4>2, ColumnUpdated DEF Layout
      <4>3. CASE k # stmt.id
        BY <3>1, <4>1, <4>3
      <4> QED BY <4>2, <4>3
    <3>5. RowsRight(cells', Schema)
      BY <3>4 DEF RowsRight, Layout
    <3>6. TableRight(payload', cells')
      BY <3>1, <3>2, <3>5, Zenon DEF TableRight
    <3> QED BY <3>1, <3>6 DEF IInv, Replies
  <2> QED BY <2>2, <2>3
<1>8. CASE Delete
  <2>1. CASE Refused("not deleted")
    BY <1>3, <2>1 DEF Replies
  <2>2. CASE ~Refused("not deleted")
    <3>1. /\ reply' = "ok" /\ payload' = payload
          /\ cells' = [k \in DOMAIN cells \ {statement'.id} |-> cells[k]]
      BY <1>8, <2>2, Zenon DEF Delete, execute_delete, Done
    <3>2. DOMAIN cells' \subseteq DOMAIN cells /\ \A k \in DOMAIN cells' : cells'[k] = cells[k]
      BY <3>1
    <3>3. TableRight(payload', cells')
      <4>1. CASE payload = <<>> /\ DOMAIN cells = {}
        BY <3>1, <3>2, <4>1 DEF TableRight
      <4>2. ASSUME NEW schema \in Schemas, payload = make_schema_payload(schema), RowsRight(cells, schema)
            PROVE  TableRight(payload', cells')
        <5>1. RowsRight(cells', schema)
          BY <3>2, <4>2 DEF RowsRight
        <5> QED BY <3>1, <4>2, <5>1, Zenon DEF TableRight
      <4> QED BY <1>1, <4>1, <4>2, Zenon DEF TableRight
    <3> QED BY <3>1, <3>3 DEF IInv, Replies
  <2> QED BY <2>1, <2>2
<1>9. CASE Drop
  <2>1. CASE Found(statement')
    <3>1. reply' = "ok" /\ payload' = <<>> /\ cells' = NoRows
      BY <1>9, <2>1, Zenon DEF Drop, execute_drop_table, Done
    <3>2. DOMAIN NoRows = {}
      BY DEF NoRows
    <3> QED BY <3>1, <3>2, Zenon DEF IInv, TableRight, Replies
  <2>2. CASE ~Found(statement')
    BY <1>3, <1>9, <2>2, Zenon DEF Drop, execute_drop_table, Replies
  <2> QED BY <2>1, <2>2
<1>10. CASE Select
  <2>1. CASE Found(statement')
    BY <1>1, <1>10, <2>1 DEF Select, execute_select, Done, IInv, Replies
  <2>2. CASE ~Found(statement')
    BY <1>3, <1>10, <2>2, Zenon DEF Select, execute_select, Replies
  <2> QED BY <2>1, <2>2
<1> QED BY <1>4, <1>5, <1>6, <1>7, <1>8, <1>9, <1>10, Zenon DEF Next

\* What is shown of a row is what its columns hold, and ends once.
LEMMA RowShown ==
  ASSUME NEW schema \in Schemas, NEW layout, layout = compute_row_layout(schema),
         NEW k, NEW row, RowRight(k, row, layout, schema), NEW i \in 1 .. Len(schema)
  PROVE  /\ \A text : Holds(row, layout[i], text) => Shown(row, layout[i]) = text
         /\ Holds(row, layout[i], Shown(row, layout[i]))
<1>1. /\ layout[i].offset \in Nat /\ layout[i].size \in Nat
      /\ layout[i].offset + layout[i].size <= Len(row) /\ row \in Rows
  BY LayoutOf DEF IsLayout, RowRight
<1>2. \A text : Holds(row, layout[i], text) => Shown(row, layout[i]) = text
  BY <1>1, HeldIsShown
<1>3. \E text \in Text : Holds(row, layout[i], text)
  BY Zenon DEF RowRight
<1> QED BY <1>2, <1>3, Zenon

LEMMA TypedOK == IInv => TypeOK
<1> SUFFICES ASSUME IInv PROVE TypeOK
  OBVIOUS
<1>1. TableRight(payload, cells) /\ reply \in Replies
  BY DEF IInv
<1>2. payload # <<>> => Schema # <<>>
  BY <1>1, Seen
<1>3. ASSUME NEW k \in DOMAIN cells
      PROVE  /\ k \in 0 .. UINT32_MAX
             /\ Len(cells[k]) = Last(Layout).offset + Last(Layout).size
             /\ \A col \in ToSet(Layout) : \A c \in 1 .. col.size :
                  c > Len(Shown(cells[k], col)) <=> cells[k][col.offset + c] = Nul
  <2>1. Schema \in Schemas /\ RowRight(k, cells[k], Layout, Schema)
    BY <1>1, Seen DEF RowsRight, Layout
  <2>2. k \in 0 .. UINT32_MAX /\ Len(cells[k]) = Width(Layout)
    BY <2>1, Zenon DEF RowRight
  <2>3. ASSUME NEW col \in ToSet(Layout), NEW c \in 1 .. col.size
        PROVE  c > Len(Shown(cells[k], col)) <=> cells[k][col.offset + c] = Nul
    <3>1. PICK i \in DOMAIN Layout : col = Layout[i]
      BY Zenon DEF ToSet
    <3>2. i \in 1 .. Len(Schema) /\ col.size \in Nat
      BY <2>1, <3>1, LayoutOf DEF IsLayout, Layout
    <3> DEFINE text == Shown(cells[k], col)
    <3>3. Holds(cells[k], col, text)
      BY <2>1, <3>1, <3>2, RowShown DEF Layout
    <3> HIDE DEF text
    <3>4. /\ Len(text) \in Nat /\ \A d \in 1 .. Len(text) : text[d] # Nul
      <4>1. text \in Seq(Symbols)
        BY <3>3 DEF Holds, Text
      <4> QED BY <4>1, NoNul
    <3>5. /\ \A d \in 1 .. Len(text) : cells[k][col.offset + d] = text[d]
          /\ \A d \in Len(text) + 1 .. col.size : cells[k][col.offset + d] = Nul
      BY <3>3, Zenon DEF Holds
    <3>6. CASE c > Len(text)
      <4>1. c \in Len(text) + 1 .. col.size
        BY <3>2, <3>4, <3>6
      <4> QED BY <3>5, <3>6, <4>1 DEF text
    <3>7. CASE ~(c > Len(text))
      <4>1. c \in 1 .. Len(text)
        BY <3>2, <3>4, <3>7
      <4>2. cells[k][col.offset + c] # Nul
        BY <3>4, <3>5, <4>1
      <4> QED BY <3>7, <4>2 DEF text
    <3> QED BY <3>6, <3>7
  <2> QED BY <2>2, <2>3 DEF Width
<1> QED BY <1>1, <1>2, <1>3, Zenon DEF TypeOK, Replies

\* Whatever is typed, the payload in the catalog is a schema, and every row has the
\* cells of its columns, each of them with a text that ends once.
THEOREM TypeCorrect == Spec => []TypeOK
<1>1. IInv /\ [Next]_vars => IInv'
  <2>1. IInv /\ UNCHANGED vars => IInv'
    BY DEF IInv, vars
  <2> QED BY <2>1, TypedStep
<1> QED BY <1>1, TypedAtInit, TypedOK, PTL DEF Spec

-----------------------------------------------------------------------------
(* What a select shows, and what the lines have meant. *)

ShownRow(row, layout) == [i \in DOMAIN layout |-> Shown(row, layout[i])]
TableOf(schema, rows) ==
  [columns |-> ColumnsOf(schema),
   rows |-> {ShownRow(rows[k], compute_row_layout(schema)) : k \in DOMAIN rows}]

LEMMA TableShown ==
  /\ [columns |-> Columns, rows |-> ShownRows] = TableOf(Schema, cells)
  /\ [columns |-> Columns, rows |-> ShownRows]' = TableOf(Schema', cells')
<1>1. ShownRows = {ShownRow(cells[k], Layout) : k \in DOMAIN cells}
  BY DEF ShownRows, ShownRow
<1>2. ShownRows' = {ShownRow(cells'[k], Layout') : k \in DOMAIN cells'}
  BY DEF ShownRows, ShownRow
<1> QED BY <1>1, <1>2, Zenon DEF TableOf, Columns, Layout

LEMMA NoTableShown ==
  ASSUME NEW rows, DOMAIN rows = {}
  PROVE  TableOf(<<>>, rows) = Meant!NoTable
<1>1. ColumnsOf(<<>>) = <<>>
  BY DEF ColumnsOf
<1>2. {ShownRow(rows[k], compute_row_layout(<<>>)) : k \in DOMAIN rows} = {}
  OBVIOUS
<1> QED BY <1>1, <1>2, Zenon DEF TableOf, Meant!NoTable

LEMMA ColumnsShown ==
  ASSUME NEW schema \in Schemas
  PROVE  /\ DOMAIN ColumnsOf(schema) = 1 .. Len(schema) /\ Len(ColumnsOf(schema)) = Len(schema)
         /\ Len(schema) \in Nat \ {0} /\ Len(schema) <= MAX_SCHEMA_COLUMNS
         /\ \A i \in 1 .. Len(schema) :
              ColumnsOf(schema)[i].name = schema[i].name /\ ColumnsOf(schema)[i].type = schema[i].type
         /\ \A rows : TableOf(schema, rows).columns = ColumnsOf(schema)
         /\ \A rows : TableOf(schema, rows) # Meant!NoTable
<1> DEFINE n == Len(schema)
<1>1. n \in Nat \ {0} /\ DOMAIN schema = 1 .. n /\ n <= MAX_SCHEMA_COLUMNS
  <2>1. n \in 1 .. MAX_SCHEMA_COLUMNS
    BY DEF Schemas
  <2> QED BY <2>1, LayoutOf, TextTableAssumption DEF IsLayout
<1> HIDE DEF n
<1>2. ColumnsOf(schema) = [i \in 1 .. n |-> [name |-> schema[i].name, type |-> schema[i].type]]
  BY <1>1, Zenon DEF ColumnsOf
<1>3. DOMAIN ColumnsOf(schema) = 1 .. n /\ Len(ColumnsOf(schema)) = n
  BY <1>1, <1>2
<1>4. \A i \in 1 .. n :
        ColumnsOf(schema)[i].name = schema[i].name /\ ColumnsOf(schema)[i].type = schema[i].type
  BY <1>2
<1>5. \A rows : TableOf(schema, rows).columns = ColumnsOf(schema)
  BY DEF TableOf
<1>6. Meant!NoTable.columns = <<>> /\ Len(<<>>) = 0
  BY DEF Meant!NoTable
<1>7. \A rows : TableOf(schema, rows) # Meant!NoTable
  BY <1>1, <1>3, <1>5, <1>6
<1> QED BY <1>1, <1>3, <1>4, <1>5, <1>7 DEF n

LEMMA NumeralsDiffer ==
  ASSUME NEW j \in 0 .. UINT32_MAX, NEW k \in 0 .. UINT32_MAX
  PROVE  /\ <<Numeral(j)>> = <<Numeral(k)>> => j = k
         /\ Numeral(j) = Numeral(k) => j = k
         /\ Numeral(j) # "none"
<1>1. (Numeral(j) = Numeral(k) => j = k) /\ Numeral(j) # "none"
  BY TextTableAssumption
<1> HIDE DEF Numeral
<1>2. <<Numeral(j)>> = <<Numeral(k)>> => Numeral(j) = Numeral(k)
  OBVIOUS
<1> QED BY <1>1, <1>2

\* The row of an id shows it, and no other row does.
LEMMA IdShown ==
  ASSUME NEW schema \in Schemas, NEW rows, RowsRight(rows, schema),
         NEW layout, layout = compute_row_layout(schema)
  PROVE  /\ \A k \in DOMAIN rows : /\ k \in 0 .. UINT32_MAX
                                   /\ DOMAIN ShownRow(rows[k], layout) = 1 .. Len(schema)
                                   /\ ShownRow(rows[k], layout)[1] = <<Numeral(k)>>
         /\ \A k \in 0 .. UINT32_MAX :
              <<Numeral(k)>> \in Meant!Ids(TableOf(schema, rows)) <=> k \in DOMAIN rows
<1>1. ASSUME NEW k \in DOMAIN rows
      PROVE  /\ k \in 0 .. UINT32_MAX
             /\ DOMAIN ShownRow(rows[k], layout) = 1 .. Len(schema)
             /\ ShownRow(rows[k], layout)[1] = <<Numeral(k)>>
  <2>1. RowRight(k, rows[k], layout, schema)
    BY DEF RowsRight
  <2>2. k \in 0 .. UINT32_MAX /\ Holds(rows[k], layout[1], <<Numeral(k)>>)
    BY <2>1, Zenon DEF RowRight
  <2>3. DOMAIN layout = 1 .. Len(schema) /\ 1 \in 1 .. Len(schema)
    BY LayoutOf DEF IsLayout
  <2>4. Shown(rows[k], layout[1]) = <<Numeral(k)>>
    BY <2>1, <2>2, <2>3, RowShown
  <2>5. DOMAIN ShownRow(rows[k], layout) = DOMAIN layout
        /\ ShownRow(rows[k], layout)[1] = Shown(rows[k], layout[1])
    BY <2>3 DEF ShownRow
  <2> QED BY <2>2, <2>3, <2>4, <2>5, Zenon
<1>2. Meant!Ids(TableOf(schema, rows)) = {<<Numeral(k)>> : k \in DOMAIN rows}
  <2>1. TableOf(schema, rows).rows = {ShownRow(rows[k], layout) : k \in DOMAIN rows}
    BY DEF TableOf
  <2> DEFINE t == TableOf(schema, rows)
             R(k) == ShownRow(rows[k], layout)
             N(k) == <<Numeral(k)>>
  <2>2. t.rows = {R(k) : k \in DOMAIN rows} /\ \A k \in DOMAIN rows : R(k)[1] = N(k)
    BY <1>1, <2>1
  <2> HIDE DEF t, R, N
  <2>3. Meant!Ids(t) = {row[1] : row \in t.rows}
    BY DEF Meant!Ids
  <2>4. Meant!Ids(t) = {N(k) : k \in DOMAIN rows}
    BY <2>2, <2>3
  <2> QED BY <2>4 DEF t, N
<1>3. ASSUME NEW k \in 0 .. UINT32_MAX, <<Numeral(k)>> \in Meant!Ids(TableOf(schema, rows))
      PROVE  k \in DOMAIN rows
  <2>1. PICK j \in DOMAIN rows : <<Numeral(k)>> = <<Numeral(j)>>
    <3> DEFINE N(m) == <<Numeral(m)>>
    <3>1. N(k) \in {N(m) : m \in DOMAIN rows}
      BY <1>2, <1>3
    <3> HIDE DEF N
    <3>2. \E j \in DOMAIN rows : N(k) = N(j)
      BY <3>1
    <3> QED BY <3>2 DEF N
  <2>2. j = k
    BY <1>1, <2>1, NumeralsDiffer
  <2> QED BY <2>2
<1>4. ASSUME NEW k \in DOMAIN rows
      PROVE  <<Numeral(k)>> \in Meant!Ids(TableOf(schema, rows))
  BY <1>2, Zenon
<1> QED BY <1>1, <1>3, <1>4, Zenon

\* A value is valid for a column where it fits, and is put as what it shows.
LEMMA FitsWhereValid ==
  ASSUME NEW schema \in Schemas, NEW i \in 1 .. Len(schema), NEW text \in Text,
         NEW value, Reads(text, value)
  PROVE  /\ Meant!Fits(value, ColumnsOf(schema)[i]) <=> ValueValid(schema[i], text)
         /\ ValueValid(schema[i], text) =>
              Meant!Shows(value, ColumnsOf(schema)[i]) = Put(schema[i].type, text)
<1> DEFINE col == ColumnsOf(schema)[i]
<1>1. col.type = schema[i].type /\ schema[i].type \in Types /\ schema[i].max = MaxOf(schema[i].type)
  BY ColumnsShown, PartsOfColumn
<1> HIDE DEF col
<1>2. CASE schema[i].type = "text"
  <2>1. col.type = "text" /\ schema[i].max = MAX_CELL_TEXT /\ schema[i].type # "int"
    BY <1>1, <1>2 DEF MaxOf
  <2>2. Meant!Fits(value, col) <=> Len(value.text) <= MAX_CELL_TEXT
    BY <2>1, Zenon DEF Meant!Fits
  <2>3. ValueValid(schema[i], text) <=> Len(text) <= MAX_CELL_TEXT
    BY <2>1 DEF ValueValid
  <2>4. Meant!Shows(value, col) = value.text /\ Put(schema[i].type, text) = text
    BY <2>1, Zenon DEF Meant!Shows, Put
  <2>5. value.text = text
    BY DEF Reads
  <2> QED BY <2>2, <2>3, <2>4, <2>5, Zenon DEF col
<1>3. CASE schema[i].type = "int"
  <2> DEFINE p == parse_u32(text)
  <2>1. col.type # "text" /\ schema[i].type = "int"
    BY <1>1, <1>3
  <2>2. /\ Meant!Fits(value, col) <=> value.number # "none"
        /\ ValueValid(schema[i], text) <=> p # -1
        /\ Meant!Shows(value, col) = <<value.number>>
        /\ Put(schema[i].type, text) = <<Numeral(p)>>
    BY <2>1, Zenon DEF Meant!Fits, Meant!Shows, ValueValid, Put
  <2>3. value.number = IF p = -1 THEN "none" ELSE Numeral(p)
    BY Zenon DEF Reads
  <2>4. p # -1 => p \in 0 .. UINT32_MAX
    BY IdOfToken
  <2>5. p # -1 => Numeral(p) # "none"
    <3> HIDE DEF p, Numeral
    <3> QED BY <2>4, NumeralsDiffer
  <2> HIDE DEF p
  <2> QED BY <2>2, <2>3, <2>5, Zenon DEF col
<1> QED BY <1>1, <1>2, <1>3 DEF Types

\* A step is an answer if it accepts what can be taken and refuses what cannot.
LEMMA Answered ==
  ASSUME \/ /\ Meant!Acceptable(TableOf(Schema, cells), request') /\ reply' = "ok"
            /\ TableOf(Schema', cells') = Meant!After(TableOf(Schema, cells), request')
         \/ /\ ~Meant!Acceptable(TableOf(Schema, cells), request') /\ reply' # "ok"
            /\ TableOf(Schema', cells') = TableOf(Schema, cells)
  PROVE  Meant!Answer
<1> DEFINE t == [columns |-> Columns, rows |-> ShownRows]
           new == [columns |-> Columns, rows |-> ShownRows]'
<1>1. t = TableOf(Schema, cells) /\ new = TableOf(Schema', cells')
  BY TableShown
<1>2. IF Meant!Acceptable(t, request') THEN (reply' = "ok") = TRUE /\ new = Meant!After(t, request')
      ELSE (reply' = "ok") = FALSE /\ new = t
  BY <1>1, Zenon
<1> QED BY <1>2, Zenon DEF Meant!Answer

LEMMA RefusedAnswer ==
  ASSUME NEW error \in Replies \ {"ok"}, Refused(error),
         ~Meant!Acceptable(TableOf(Schema, cells), request')
  PROVE  Meant!Answer
<1>1. reply' # "ok" /\ payload' = payload /\ cells' = cells
  BY DEF Refused
<1>2. Schema' = Schema
  BY <1>1 DEF Schema
<1> QED BY <1>1, <1>2, Answered, Zenon

\* A table that is not there takes nothing but a create, one that is there all else.
LEMMA Taken ==
  ASSUME NEW r, TableRight(payload, cells)
  PROVE  /\ Schema = <<>> => TableOf(Schema, cells) = Meant!NoTable
         /\ Schema # <<>> => TableOf(Schema, cells) # Meant!NoTable
         /\ r.kind # "create" /\ Schema = <<>> => ~Meant!Acceptable(TableOf(Schema, cells), r)
<1>1. Schema = <<>> => TableOf(Schema, cells) = Meant!NoTable
  BY Seen, NoTableShown
<1>2. Schema # <<>> => TableOf(Schema, cells) # Meant!NoTable
  BY Seen, ColumnsShown
<1>3. r.kind # "create" /\ Schema = <<>> => ~Meant!Acceptable(TableOf(Schema, cells), r)
  BY <1>1, Zenon DEF Meant!Acceptable
<1> QED BY <1>1, <1>2, <1>3

LEMMA TableWith ==
  ASSUME NEW a, NEW b, NEW z, z = [columns |-> a, rows |-> b], NEW c
  PROVE  /\ [z EXCEPT !.columns = c] = [columns |-> c, rows |-> b]
         /\ [z EXCEPT !.rows = c] = [columns |-> a, rows |-> c]
<1> DEFINE u == [z EXCEPT !.columns = c]
<1>1. z \in [columns : {a}, rows : {b}]
  OBVIOUS
<1>2. [z EXCEPT !.rows = c] = [columns |-> a, rows |-> c]
  OBVIOUS
<1>3. u \in [columns : {a, c}, rows : {b}] /\ u.columns = c /\ u.rows = b
  BY <1>1
<1> HIDE DEF u
<1>4. u = [columns |-> c, rows |-> b]
  BY <1>3
<1> QED BY <1>2, <1>4 DEF u

\* A table whose columns stay is the table with its rows replaced.
LEMMA RowsReplaced ==
  ASSUME NEW schema, NEW rows, NEW others, NEW new, TableOf(schema, others).rows = new
  PROVE  TableOf(schema, others) = [TableOf(schema, rows) EXCEPT !.rows = new]
<1>1. TableOf(schema, rows) = [columns |-> ColumnsOf(schema), rows |-> TableOf(schema, rows).rows]
  BY DEF TableOf
<1>2. TableOf(schema, others) = [columns |-> ColumnsOf(schema), rows |-> new]
  BY DEF TableOf
<1> QED BY <1>1, <1>2, TableWith

LEMMA NoTableWith ==
  ASSUME NEW c
  PROVE  [Meant!NoTable EXCEPT !.columns = c] = [columns |-> c, rows |-> {}]
<1> DEFINE z == Meant!NoTable
           u == [z EXCEPT !.columns = c]
<1>1. z \in [columns : {<<>>}, rows : {{}}]
  BY DEF Meant!NoTable
<1> HIDE DEF z
<1>2. u \in [columns : {<<>>, c}, rows : {{}}] /\ u.columns = c /\ u.rows = {}
  BY <1>1
<1> HIDE DEF u
<1>3. u = [columns |-> c, rows |-> {}]
  BY <1>2
<1> QED BY <1>3, Zenon DEF u, z

LEMMA CreateAnswer ==
  ASSUME TableRight(payload, cells), WellFormed(statement'), request'.kind = "create",
         CreateMeans(statement', request'), Syntax \/ Create
  PROVE  Meant!Answer
<1> DEFINE stmt == statement'
           r == request'
           t == TableOf(Schema, cells)
<1>1. Meant!Acceptable(t, r) <=> t = Meant!NoTable /\ Len(r.columns) <= MAX_SCHEMA_COLUMNS
  BY Zenon DEF Meant!Acceptable
<1>2. CASE Len(r.columns) > MAX_SCHEMA_COLUMNS
  <2>1. stmt = Failed
    BY <1>2 DEF CreateMeans
  <2>2. stmt.type = "failed"
    BY <2>1 DEF Failed
  <2>3. Refused("syntax error")
    BY <2>2 DEF Syntax, Create
  <2>4. ~(Len(r.columns) <= MAX_SCHEMA_COLUMNS)
    <3>1. Len(r.columns) \in Nat
      BY DEF CreateMeans
    <3> DEFINE m == Len(r.columns)
    <3>2. m \in Nat /\ m > MAX_SCHEMA_COLUMNS /\ MAX_SCHEMA_COLUMNS \in Nat
      BY <1>2, <3>1, TextTableAssumption
    <3> HIDE DEF m
    <3>3. ~(m <= MAX_SCHEMA_COLUMNS)
      BY <3>2
    <3> QED BY <3>3 DEF m
  <2>5. ~Meant!Acceptable(t, r)
    BY <1>1, <2>4, Zenon
  <2> QED BY <2>3, <2>5, RefusedAnswer DEF Replies
<1>3. CASE ~(Len(r.columns) > MAX_SCHEMA_COLUMNS)
  <2>1. stmt.type = "create" /\ stmt.table = Name /\ r.columns = ColumnsOf(stmt.schema)
    BY <1>3, Zenon DEF CreateMeans
  <2>2. stmt.schema \in Schemas /\ execute_create_table(stmt)
    BY <2>1 DEF WellFormed, Syntax, Create
  <2>3. Len(r.columns) <= MAX_SCHEMA_COLUMNS
    BY <2>1, <2>2, ColumnsShown
  <2>4. CASE Found(stmt)
    <3>1. Refused("table exists") /\ Schema # <<>>
      BY <2>2, <2>4, Zenon DEF execute_create_table, Found
    <3>2. ~Meant!Acceptable(t, r)
      BY <1>1, <3>1, Taken
    <3> QED BY <3>1, <3>2, RefusedAnswer DEF Replies
  <2>5. CASE ~Found(stmt)
    <3>1. Schema = <<>>
      BY <2>1, <2>5 DEF Found
    <3>2. reply' = "ok" /\ payload' = make_schema_payload(stmt.schema) /\ cells' = NoRows
      BY <2>2, <2>5, Zenon DEF execute_create_table, Done
    <3>3. t = Meant!NoTable /\ Meant!Acceptable(t, r)
      BY <1>1, <2>3, <3>1, Taken
    <3>4. Schema' = stmt.schema
      <4>1. payload' # <<>> /\ split_schema_payload(payload') = stmt.schema
        BY <2>2, <3>2, Catalogued
      <4> QED BY <4>1 DEF Schema
    <3>5. TableOf(Schema', cells') = [columns |-> r.columns, rows |-> {}]
      <4>1. DOMAIN cells' = {}
        BY <3>2 DEF NoRows
      <4>2. {ShownRow(cells'[k], compute_row_layout(stmt.schema)) : k \in DOMAIN cells'} = {}
        BY <4>1
      <4> QED BY <2>1, <3>4, <4>2, Zenon DEF TableOf
    <3>6. Meant!After(t, r) = [Meant!NoTable EXCEPT !.columns = r.columns]
      BY Zenon DEF Meant!After
    <3>7. [Meant!NoTable EXCEPT !.columns = r.columns] = [columns |-> r.columns, rows |-> {}]
      BY NoTableWith, Zenon
    <3> QED BY <3>2, <3>3, <3>5, <3>6, <3>7, Answered, Zenon
  <2> QED BY <2>4, <2>5
<1> QED BY <1>2, <1>3

LEMMA RowFitsWhereValid ==
  ASSUME TableRight(payload, cells), Schema # <<>>,
         NEW row \in Insertions, NEW meant \in Seq(Meanings), ReadsRow(row, meant)
  PROVE  /\ 1 \in DOMAIN meant /\ meant[1].number = Numeral(row.id)
         /\ Meant!RowFits(TableOf(Schema, cells), meant) <=> RowValid(row, Schema)
         /\ RowValid(row, Schema) =>
              /\ ValidValues(row.values, Schema)
              /\ Meant!Inserted(TableOf(Schema, cells), meant)
                   = ShownRow(pack_insert_row_values(row.values, Layout), Layout)
<1> DEFINE t == TableOf(Schema, cells)
           n == Len(Schema)
           values == row.values
           packed == pack_insert_row_values(values, Layout)
<1>1. Schema \in Schemas /\ RowsRight(cells, Schema)
  BY Seen
<1>2. /\ n \in Nat \ {0} /\ DOMAIN Schema = 1 .. n /\ DOMAIN Layout = 1 .. n
      /\ t.columns = ColumnsOf(Schema) /\ Len(t.columns) = n
  BY <1>1, LayoutOf, ColumnsShown DEF IsLayout, Layout
<1>3. /\ values \in Seq(Text) /\ values # <<>> /\ row.id = parse_u32(values[1])
      /\ row.id \in 0 .. UINT32_MAX
  BY DEF Insertions
<1>4. /\ Len(values) = Len(meant) /\ Len(values) \in Nat \ {0}
      /\ DOMAIN meant = 1 .. Len(meant)
      /\ \A j \in 1 .. Len(meant) : /\ Reads(values[j], meant[j]) /\ meant[j].text # <<>>
                                    /\ values[j] \in Text
  <2>1. Len(values) = Len(meant) /\ \A j \in DOMAIN meant : Reads(values[j], meant[j]) /\ meant[j].text # <<>>
    BY DEF ReadsRow
  <2>2. DOMAIN meant = 1 .. Len(meant)
    OBVIOUS
  <2> HIDE DEF values
  <2>3. Len(values) \in Nat \ {0}
    BY <1>3
  <2>4. \A j \in 1 .. Len(values) : values[j] \in Text
    BY <1>3
  <2> QED BY <2>1, <2>2, <2>3, <2>4
<1> HIDE DEF n, values, packed
<1>5. 1 \in DOMAIN meant /\ meant[1].number = Numeral(row.id)
  <2>1. 1 \in 1 .. Len(meant)
    BY <1>4
  <2>2. Reads(values[1], meant[1])
    BY <1>4, <2>1
  <2>3. row.id # -1
    BY <1>3, TextTableAssumption
  <2> QED BY <1>3, <1>4, <2>1, <2>2, <2>3, Zenon DEF Reads
<1>6. \A j \in 1 .. n : Len(meant) = n =>
        /\ Meant!Fits(meant[j], t.columns[j]) <=> ValueValid(Schema[j], values[j])
        /\ ValueValid(Schema[j], values[j]) =>
             Meant!Shows(meant[j], t.columns[j]) = Put(Schema[j].type, values[j])
  <2> HIDE DEF t
  <2> QED BY <1>1, <1>2, <1>4, FitsWhereValid DEF n
<1>7. <<meant[1].number>> \in Meant!Ids(t) <=> row.id \in DOMAIN cells
  BY <1>1, <1>3, <1>5, IdShown
<1> HIDE DEF t
<1>8. Meant!RowFits(t, meant) <=>
        /\ Len(meant) = n /\ \A j \in 1 .. n : Meant!Fits(meant[j], t.columns[j])
        /\ row.id \notin DOMAIN cells
  BY <1>2, <1>4, <1>7, Zenon DEF Meant!RowFits
<1>9. RowValid(row, Schema) <=>
        /\ Len(meant) = n /\ \A j \in 1 .. n : ValueValid(Schema[j], values[j])
        /\ row.id \notin DOMAIN cells
  BY <1>2, <1>4, Zenon DEF RowValid, values, n
<1>10. Meant!RowFits(t, meant) <=> RowValid(row, Schema)
  BY <1>6, <1>8, <1>9, Zenon
<1>11. ASSUME RowValid(row, Schema)
       PROVE  ValidValues(values, Schema) /\ Meant!Inserted(t, meant) = ShownRow(packed, Layout)
  <2>1. Len(meant) = n /\ \A j \in 1 .. n : ValueValid(Schema[j], values[j])
    BY <1>9, <1>11
  <2>2. ValidValues(values, Schema)
    BY <1>3, <1>4, <2>1, Zenon DEF ValidValues, n
  <2>3. /\ RowRight(row.id, packed, Layout, Schema)
        /\ \A j \in 1 .. n : Holds(packed, Layout[j], Put(Schema[j].type, values[j]))
    BY <1>1, <2>2, RowInserted DEF Layout, values, packed, n
  <2>4. \A j \in 1 .. n : Shown(packed, Layout[j]) = Put(Schema[j].type, values[j])
    BY <1>1, <2>3, RowShown DEF Layout, n
  <2>5. Meant!Inserted(t, meant) = [j \in 1 .. n |-> Meant!Shows(meant[j], t.columns[j])]
    BY <1>4, <2>1, Zenon DEF Meant!Inserted
  <2>6. ShownRow(packed, Layout) = [j \in 1 .. n |-> Shown(packed, Layout[j])]
    BY <1>2, Zenon DEF ShownRow
  <2>7. \A j \in 1 .. n : Meant!Shows(meant[j], t.columns[j]) = Shown(packed, Layout[j])
    BY <1>6, <2>1, <2>4, Zenon
  <2> QED BY <2>2, <2>5, <2>6, <2>7, Zenon
<1> QED BY <1>5, <1>10, <1>11, Zenon DEF t, values, packed

\* The rows of an insert and what they mean: one can be taken if the other can.
RowsMean(rows, meant) ==
  /\ rows \in Seq(Insertions) /\ meant \in Seq(Seq(Meanings)) /\ Len(rows) = Len(meant)
  /\ \A i \in DOMAIN meant : ReadsRow(rows[i], meant[i])

LEMMA InsertableWhereAccepted ==
  ASSUME TableRight(payload, cells), Schema # <<>>, NEW rows, NEW meant, RowsMean(rows, meant)
  PROVE  Meant!Insertable(TableOf(Schema, cells), meant) <=> Accepted(rows)
<1> DEFINE t == TableOf(Schema, cells)
           n == Len(meant)
<1>1. n \in Nat /\ DOMAIN rows = 1 .. n /\ DOMAIN meant = 1 .. n
  BY DEF RowsMean
<1>2. \A i \in 1 .. n : rows[i] \in Insertions /\ meant[i] \in Seq(Meanings) /\ ReadsRow(rows[i], meant[i])
  <2>1. rows \in Seq(Insertions) /\ meant \in Seq(Seq(Meanings)) /\ n = Len(rows) /\ n = Len(meant)
    BY DEF RowsMean
  <2> HIDE DEF n
  <2>2. \A i \in 1 .. n : rows[i] \in Insertions /\ meant[i] \in Seq(Meanings)
    BY <1>1, <2>1, ElementOfSeq, Zenon
  <2>3. \A i \in 1 .. n : ReadsRow(rows[i], meant[i])
    BY <1>1, Zenon DEF RowsMean
  <2> QED BY <2>2, <2>3
<1>3. \A i \in 1 .. n : /\ meant[i][1].number = Numeral(rows[i].id)
                        /\ rows[i].id \in 0 .. UINT32_MAX
                        /\ Meant!RowFits(t, meant[i]) <=> RowValid(rows[i], Schema)
  <2> TAKE i \in 1 .. n
  <2>1. meant[i][1].number = Numeral(rows[i].id) /\ (Meant!RowFits(t, meant[i]) <=> RowValid(rows[i], Schema))
    BY <1>2, RowFitsWhereValid, Zenon
  <2>2. rows[i].id \in 0 .. UINT32_MAX
    BY <1>2 DEF Insertions
  <2> QED BY <2>1, <2>2
<1> HIDE DEF n, t
<1>4. \A i, j \in 1 .. n : meant[i][1].number = meant[j][1].number <=> rows[i].id = rows[j].id
  BY <1>3, NumeralsDiffer
<1>5. IsInjective([i \in DOMAIN rows |-> rows[i].id])
        <=> \A i, j \in 1 .. n : rows[i].id = rows[j].id => i = j
  <2> DEFINE ids == [i \in DOMAIN rows |-> rows[i].id]
  <2>1. DOMAIN ids = 1 .. n /\ \A i \in 1 .. n : ids[i] = rows[i].id
    BY <1>1
  <2> HIDE DEF ids
  <2>2. IsInjective(ids) <=> \A i, j \in 1 .. n : rows[i].id = rows[j].id => i = j
    BY <2>1 DEF IsInjective
  <2> QED BY <2>2 DEF ids
<1>6. (\A row \in Meant!Elements(meant) : Meant!RowFits(t, row)) <=> \A i \in 1 .. n : Meant!RowFits(t, meant[i])
  BY <1>1, Zenon DEF Meant!Elements
<1>7. (\A row \in ToSet(rows) : RowValid(row, Schema)) <=> \A i \in 1 .. n : RowValid(rows[i], Schema)
  BY <1>1, Zenon DEF ToSet
<1>8. Meant!Insertable(t, meant) <=>
        /\ \A i \in 1 .. n : Meant!RowFits(t, meant[i])
        /\ \A i, j \in 1 .. n : meant[i][1].number = meant[j][1].number => i = j
  BY <1>1, <1>6, Zenon DEF Meant!Insertable
<1>9. Accepted(rows) <=>
        /\ \A i \in 1 .. n : RowValid(rows[i], Schema)
        /\ \A i, j \in 1 .. n : rows[i].id = rows[j].id => i = j
  BY <1>5, <1>7, Zenon DEF Accepted
<1>10. Meant!Insertable(t, meant) <=> Accepted(rows)
  BY <1>3, <1>4, <1>8, <1>9, Zenon
<1> QED BY <1>10 DEF t

\* No table takes a row that is too long, has no id, or has an empty text.
LEMMA TakesNoSuchRow ==
  ASSUME TableRight(payload, cells), Schema # <<>>, NEW row \in Seq(Meanings), NoTableTakes(row)
  PROVE  ~Meant!RowFits(TableOf(Schema, cells), row)
<1> DEFINE t == TableOf(Schema, cells)
<1>1. Schema \in Schemas
  BY Seen
<1>2. /\ Len(t.columns) = Len(Schema) /\ Len(Schema) \in Nat \ {0} /\ Len(Schema) <= MAX_SCHEMA_COLUMNS
      /\ t.columns[1].type = Schema[1].type
  <2>1. t.columns = ColumnsOf(Schema)
    BY <1>1, ColumnsShown
  <2>2. /\ Len(ColumnsOf(Schema)) = Len(Schema) /\ Len(Schema) \in Nat \ {0}
        /\ Len(Schema) <= MAX_SCHEMA_COLUMNS
    BY <1>1, ColumnsShown
  <2>3. ColumnsOf(Schema)[1].type = Schema[1].type
    BY <1>1, <2>2, ColumnsShown
  <2> HIDE DEF t
  <2> QED BY <2>1, <2>2, <2>3
<1>3. Schema[1].type = "int"
  BY <1>1 DEF Schemas
<1> HIDE DEF t
<1>4. ASSUME Meant!RowFits(t, row)
      PROVE  FALSE
  <2>1. Len(row) = Len(t.columns) /\ \A i \in DOMAIN row : row[i].text # <<>> /\ Meant!Fits(row[i], t.columns[i])
    BY <1>4 DEF Meant!RowFits
  <2>2. ~(Len(row) > MAX_SCHEMA_COLUMNS)
    BY <1>2, <2>1, TextTableAssumption
  <2>3. 1 \in DOMAIN row
    BY <1>2, <2>1
  <2>4. row[1].number # "none"
    BY <1>2, <1>3, <2>1, <2>3 DEF Meant!Fits
  <2> QED BY <2>1, <2>2, <2>4, Zenon DEF NoTableTakes
<1> QED BY <1>4 DEF t

\* What a select shows after an insert: the rows it showed, and the ones meant.
LEMMA RowsInserted ==
  ASSUME TableRight(payload, cells), NEW stmt, NEW meant, RowsMean(stmt.rows, meant),
         execute_insert(stmt), Found(stmt), Accepted(stmt.rows)
  PROVE  /\ reply' = "ok" /\ Schema' = Schema
         /\ TableOf(Schema', cells').rows =
              TableOf(Schema, cells).rows
                \cup {Meant!Inserted(TableOf(Schema, cells), row) : row \in Meant!Elements(meant)}
<1> DEFINE t == TableOf(Schema, cells)
           rows == stmt.rows
           Packed(i) == pack_insert_row_values(rows[i].values, Layout)
<1>1. rows \in Seq(Insertions) /\ Schema # <<>> /\ DOMAIN meant = DOMAIN rows
  BY DEF RowsMean, Found
<1>2. /\ reply' = "ok" /\ payload' = payload
      /\ DOMAIN cells' = DOMAIN cells \cup {rows[i].id : i \in DOMAIN rows}
      /\ \A k \in DOMAIN cells : cells'[k] = cells[k]
      /\ \A i \in DOMAIN rows : cells'[rows[i].id] = Packed(i)
  BY <1>1, InsertedRows, Zenon
<1>3. Schema' = Schema
  BY <1>2 DEF Schema
<1>4. \A i \in DOMAIN rows : Meant!Inserted(t, meant[i]) = ShownRow(Packed(i), Layout)
  <2> TAKE i \in DOMAIN rows
  <2>1. rows[i] \in Insertions /\ rows[i] \in ToSet(rows)
    <3>1. rows[i] \in ToSet(rows)
      BY Zenon DEF ToSet
    <3>2. i \in 1 .. Len(rows)
      BY <1>1
    <3> HIDE DEF rows
    <3> QED BY <1>1, <3>1, <3>2, ElementOfSeq
  <2>2. RowValid(rows[i], Schema)
    BY <2>1, Zenon DEF Accepted
  <2>3. meant[i] \in Seq(Meanings) /\ ReadsRow(rows[i], meant[i])
    BY <1>1 DEF RowsMean
  <2> QED BY <1>1, <2>1, <2>2, <2>3, RowFitsWhereValid, Zenon
<1>5. t.rows = {ShownRow(cells[k], Layout) : k \in DOMAIN cells}
  BY DEF TableOf, Layout
<1>6. TableOf(Schema', cells').rows = {ShownRow(cells'[k], Layout) : k \in DOMAIN cells'}
  BY <1>3 DEF TableOf, Layout
<1>7. {Meant!Inserted(t, row) : row \in Meant!Elements(meant)} = {ShownRow(Packed(i), Layout) : i \in DOMAIN rows}
  <2>1. {Meant!Inserted(t, row) : row \in Meant!Elements(meant)} = {Meant!Inserted(t, meant[i]) : i \in DOMAIN meant}
    BY Zenon DEF Meant!Elements
  <2>2. {Meant!Inserted(t, meant[i]) : i \in DOMAIN meant} = {ShownRow(Packed(i), Layout) : i \in DOMAIN rows}
    BY <1>1, <1>4, Zenon
  <2> QED BY <2>1, <2>2, Zenon
<1> HIDE DEF t, Packed
<1>8. {ShownRow(cells'[k], Layout) : k \in DOMAIN cells'}
        = {ShownRow(cells[k], Layout) : k \in DOMAIN cells} \cup {ShownRow(Packed(i), Layout) : i \in DOMAIN rows}
  <2> DEFINE after == {ShownRow(cells'[k], Layout) : k \in DOMAIN cells'}
             old == {ShownRow(cells[k], Layout) : k \in DOMAIN cells}
             new == {ShownRow(Packed(i), Layout) : i \in DOMAIN rows}
  <2>1. \A row \in after : row \in old \/ row \in new
    <3> TAKE row \in after
    <3>1. PICK k \in DOMAIN cells' : row = ShownRow(cells'[k], Layout)
      OBVIOUS
    <3>2. CASE k \in DOMAIN cells
      BY <1>2, <3>1, <3>2
    <3>3. CASE k \notin DOMAIN cells
      <4>1. PICK i \in DOMAIN rows : k = rows[i].id
        BY <1>2, <3>3, Zenon
      <4>2. row = ShownRow(Packed(i), Layout)
        BY <1>2, <3>1, <4>1, Zenon
      <4> QED BY <4>2
    <3> QED BY <3>2, <3>3
  <2>2. \A row \in old : row \in after
    BY <1>2, Zenon
  <2>3. \A row \in new : row \in after
    BY <1>2, Zenon
  <2> HIDE DEF after, old, new
  <2>4. after = old \cup new
    BY <2>1, <2>2, <2>3
  <2> QED BY <2>4 DEF after, old, new
<1>9. TableOf(Schema', cells').rows = t.rows \cup {Meant!Inserted(t, row) : row \in Meant!Elements(meant)}
  BY <1>5, <1>6, <1>7, <1>8, Zenon
<1> QED BY <1>2, <1>3, <1>9 DEF t

LEMMA InsertAnswer ==
  ASSUME TableRight(payload, cells), WellFormed(statement'), request'.kind = "insert",
         InsertMeans(statement', request'), Syntax \/ Insert
  PROVE  Meant!Answer
<1> DEFINE stmt == statement'
           r == request'
           t == TableOf(Schema, cells)
<1>1. Meant!Acceptable(t, r) <=> t # Meant!NoTable /\ Meant!Insertable(t, r.rows)
  BY DEF Meant!Acceptable
<1>2. CASE \E i \in DOMAIN r.rows : NoTableTakes(r.rows[i])
  <2>1. PICK i \in DOMAIN r.rows : NoTableTakes(r.rows[i])
    BY <1>2
  <2>2. stmt = Failed /\ r.rows \in Seq(Seq(Meanings))
    BY <1>2, Zenon DEF InsertMeans
  <2>3. Refused("syntax error")
    BY <2>2 DEF Failed, Syntax, Insert
  <2>4. r.rows[i] \in Seq(Meanings)
    BY <2>1, <2>2
  <2>5. ~Meant!Acceptable(t, r)
    <3>1. CASE Schema = <<>>
      BY <3>1, Taken
    <3>2. CASE Schema # <<>>
      <4>1. ~Meant!RowFits(t, r.rows[i])
        BY <2>1, <2>4, <3>2, TakesNoSuchRow
      <4>2. r.rows[i] \in Meant!Elements(r.rows)
        BY <2>1, Zenon DEF Meant!Elements
      <4> QED BY <1>1, <4>1, <4>2, Zenon DEF Meant!Insertable
    <3> QED BY <3>1, <3>2
  <2> QED BY <2>3, <2>5, RefusedAnswer DEF Replies
<1>3. CASE ~\E i \in DOMAIN r.rows : NoTableTakes(r.rows[i])
  <2>1. /\ stmt.type = "insert" /\ stmt.table = Name /\ r.rows \in Seq(Seq(Meanings))
        /\ Len(stmt.rows) = Len(r.rows) /\ \A i \in DOMAIN r.rows : ReadsRow(stmt.rows[i], r.rows[i])
    BY <1>3, Zenon DEF InsertMeans
  <2>2. stmt.rows \in Seq(Insertions) /\ execute_insert(stmt)
    BY <2>1 DEF WellFormed, Syntax, Insert
  <2>3. RowsMean(stmt.rows, r.rows)
    BY <2>1, <2>2, Zenon DEF RowsMean
  <2>4. CASE Found(stmt) /\ Accepted(stmt.rows)
    <3>1. Schema # <<>>
      BY <2>4, Zenon DEF Found
    <3>2. Meant!Acceptable(t, r)
      BY <1>1, <2>3, <2>4, <3>1, Taken, InsertableWhereAccepted, Zenon
    <3>3. /\ reply' = "ok" /\ Schema' = Schema
          /\ TableOf(Schema', cells').rows = t.rows \cup {Meant!Inserted(t, row) : row \in Meant!Elements(r.rows)}
      BY <2>2, <2>3, <2>4, RowsInserted, Zenon
    <3>4. Meant!After(t, r) = [t EXCEPT !.rows = @ \cup {Meant!Inserted(t, row) : row \in Meant!Elements(r.rows)}]
      BY DEF Meant!After
    <3>5. TableOf(Schema', cells') = Meant!After(t, r)
      <4> DEFINE new == t.rows \cup {Meant!Inserted(t, row) : row \in Meant!Elements(r.rows)}
      <4>1. TableOf(Schema', cells').rows = new
        BY <3>3
      <4>2. [t EXCEPT !.rows = @ \cup {Meant!Inserted(t, row) : row \in Meant!Elements(r.rows)}]
              = [t EXCEPT !.rows = new]
        OBVIOUS
      <4> HIDE DEF new
      <4>3. TableOf(Schema', cells') = [TableOf(Schema', cells) EXCEPT !.rows = new]
        BY <4>1, RowsReplaced
      <4>4. TableOf(Schema', cells) = t
        BY <3>3, Zenon
      <4> QED BY <3>4, <4>2, <4>3, <4>4, Zenon
    <3> QED BY <3>2, <3>3, <3>5, Answered, Zenon
  <2>5. CASE ~(Found(stmt) /\ Accepted(stmt.rows))
    <3> DEFINE refused == \/ ~Found(stmt) \/ ~IsInjective([i \in DOMAIN stmt.rows |-> stmt.rows[i].id])
                          \/ \E row \in ToSet(stmt.rows) : ~RowValid(row, Schema)
    <3>3. refused
      BY <2>5, Zenon DEF Accepted
    <3>1. Refused("not inserted")
      BY <2>2, <3>3, Zenon DEF execute_insert
    <3>2. ~Meant!Acceptable(t, r)
      <4>1. CASE Schema = <<>>
        BY <4>1, Taken
      <4>2. CASE Schema # <<>>
        <5>1. ~Accepted(stmt.rows)
          BY <2>1, <2>5, <4>2 DEF Found
        <5> QED BY <1>1, <2>3, <4>2, <5>1, InsertableWhereAccepted, Zenon
      <4> QED BY <4>1, <4>2
    <3> QED BY <3>1, <3>2, RefusedAnswer DEF Replies
  <2> QED BY <2>4, <2>5
<1> QED BY <1>2, <1>3

\* The names of the columns differ, so that the first column of a name is the only one.
DistinctNames == \A i, j \in DOMAIN Schema : Schema[i].name = Schema[j].name => i = j

LEMMA UpdatableWhereAccepted ==
  ASSUME TableRight(payload, cells), Schema # <<>>, DistinctNames, NEW stmt, NEW r,
         stmt.value \in Text, stmt.id \in 0 .. UINT32_MAX, UpdateMeans(stmt, r)
  PROVE  Meant!Updatable(TableOf(Schema, cells), r) <=> UpdateAccepted(stmt)
<1> DEFINE t == TableOf(Schema, cells)
           n == Len(Schema)
           Right(i) == t.columns[i].name = r.column /\ Meant!Fits(r.value, t.columns[i])
<1>1. Schema \in Schemas /\ RowsRight(cells, Schema)
  BY Seen
<1>2. /\ n \in Nat \ {0} /\ DOMAIN Schema = 1 .. n /\ t.columns = ColumnsOf(Schema) /\ DOMAIN t.columns = 1 .. n
      /\ \A i \in 1 .. n : t.columns[i].name = Schema[i].name
  BY <1>1, LayoutOf, ColumnsShown DEF IsLayout
<1>3. /\ stmt.table = Name /\ r.id.number = Numeral(stmt.id) /\ stmt.column = r.column
      /\ Reads(stmt.value, r.value)
  BY DEF UpdateMeans
<1>4. <<r.id.number>> \in Meant!Ids(t) <=> stmt.id \in DOMAIN cells
  BY <1>1, <1>3, IdShown
<1>5. Found(stmt)
  BY <1>3 DEF Found
<1>6. \A i \in 1 .. n : Meant!Fits(r.value, t.columns[i]) <=> ValueValid(Schema[i], stmt.value)
  <2> HIDE DEF t
  <2> QED BY <1>1, <1>2, <1>3, FitsWhereValid DEF n
<1> HIDE DEF t, n
<1>7. Named(stmt) = {i \in 1 .. n : Schema[i].name = stmt.column}
  BY <1>2, Zenon DEF Named
<1>8. Named(stmt) # {} => Target(stmt) \in Named(stmt)
  <2>1. Named(stmt) \subseteq Nat
    BY <1>2, <1>7
  <2> QED BY <2>1, MinOf, Zenon DEF Target
<1>9. Meant!Updatable(t, r) <=> stmt.id \in DOMAIN cells /\ \E i \in 1 .. n : i # 1 /\ Right(i)
  <2>1. Meant!Updatable(t, r) <=> <<r.id.number>> \in Meant!Ids(t) /\ \E i \in DOMAIN t.columns \ {1} : Right(i)
    BY Zenon DEF Meant!Updatable
  <2> HIDE DEF Right
  <2>2. (\E i \in DOMAIN t.columns \ {1} : Right(i)) <=> \E i \in 1 .. n : i # 1 /\ Right(i)
    BY <1>2
  <2> QED BY <1>4, <2>1, <2>2, Zenon
<1>10. \A i \in 1 .. n : Right(i) <=> i \in Named(stmt) /\ ValueValid(Schema[i], stmt.value)
  BY <1>2, <1>3, <1>6, <1>7, Zenon
<1>11. \A i \in Named(stmt) : i = Target(stmt)
  BY <1>2, <1>7, <1>8, Zenon DEF DistinctNames
<1> HIDE DEF Right
<1>12. (\E i \in 1 .. n : i # 1 /\ Right(i))
         <=> Named(stmt) # {} /\ Target(stmt) # 1 /\ ValueValid(Schema[Target(stmt)], stmt.value)
  <2>1. ASSUME NEW i \in 1 .. n, i # 1, Right(i)
        PROVE  Named(stmt) # {} /\ Target(stmt) # 1 /\ ValueValid(Schema[Target(stmt)], stmt.value)
    BY <1>10, <1>11, <2>1, Zenon
  <2>2. ASSUME Named(stmt) # {}, Target(stmt) # 1, ValueValid(Schema[Target(stmt)], stmt.value)
        PROVE  Target(stmt) \in 1 .. n /\ Target(stmt) # 1 /\ Right(Target(stmt))
    BY <1>7, <1>8, <1>10, <2>2, Zenon
  <2> QED BY <2>1, <2>2, Zenon
<1>13. Meant!Updatable(t, r) <=> UpdateAccepted(stmt)
  BY <1>5, <1>9, <1>12, Zenon DEF UpdateAccepted
<1> QED BY <1>13 DEF t

\* What a select shows of a row after an update: the row it showed, with the value meant.
LEMMA RowMeant ==
  ASSUME TableRight(payload, cells), DistinctNames, NEW stmt, NEW r, stmt.value \in Text,
         UpdateMeans(stmt, r), execute_update(stmt), UpdateAccepted(stmt), NEW k \in DOMAIN cells
  PROVE  ShownRow(cells'[k], Layout) = Meant!Updated(TableOf(Schema, cells), r, ShownRow(cells[k], Layout))
<1> DEFINE t == TableOf(Schema, cells)
           n == Len(Schema)
           old == ShownRow(cells[k], Layout)
           T == Target(stmt)
           Changed(i) == old[1] = <<r.id.number>> /\ t.columns[i].name = r.column
<1>1. Schema \in Schemas /\ RowsRight(cells, Schema)
  BY Seen, Zenon DEF UpdateAccepted, Found
<1>2. /\ n \in Nat \ {0} /\ DOMAIN Schema = 1 .. n /\ DOMAIN Layout = 1 .. n
      /\ t.columns = ColumnsOf(Schema) /\ \A i \in 1 .. n : t.columns[i].name = Schema[i].name
  BY <1>1, LayoutOf, ColumnsShown DEF IsLayout, Layout
<1>3. r.id.number = Numeral(stmt.id) /\ stmt.column = r.column /\ Reads(stmt.value, r.value)
  BY Zenon DEF UpdateMeans
<1>4. /\ T \in 2 .. n /\ T \in 1 .. n /\ Schema[T].name = stmt.column /\ stmt.id \in DOMAIN cells
      /\ ValueValid(Schema[T], stmt.value)
      /\ cells'[stmt.id] = PutColumn(cells[stmt.id], Layout[T], stmt.value)
      /\ \A j \in DOMAIN cells \ {stmt.id} : cells'[j] = cells[j]
  <2>1. T \in 2 .. n /\ Schema[T].name = stmt.column
        /\ cells'[stmt.id] = PutColumn(cells[stmt.id], Layout[T], stmt.value)
        /\ \A j \in DOMAIN cells \ {stmt.id} : cells'[j] = cells[j]
    BY UpdatedRow, Zenon
  <2>2. stmt.id \in DOMAIN cells /\ ValueValid(Schema[T], stmt.value)
    BY Zenon DEF UpdateAccepted
  <2> HIDE DEF n, T
  <2>3. T \in 1 .. n
    BY <1>2, <2>1
  <2> QED BY <2>1, <2>2, <2>3
<1>5. /\ k \in 0 .. UINT32_MAX /\ stmt.id \in 0 .. UINT32_MAX /\ old[1] = <<Numeral(k)>>
      /\ old = [i \in 1 .. n |-> Shown(cells[k], Layout[i])]
      /\ \A i \in 1 .. n : old[i] = Shown(cells[k], Layout[i])
  <2>1. k \in 0 .. UINT32_MAX /\ stmt.id \in 0 .. UINT32_MAX /\ old[1] = <<Numeral(k)>>
    BY <1>1, <1>4, IdShown DEF Layout
  <2>2. old = [i \in 1 .. n |-> Shown(cells[k], Layout[i])]
    BY <1>2, Zenon DEF ShownRow
  <2> HIDE DEF old
  <2> QED BY <2>1, <2>2
<1>6. Meant!Updated(t, r, old) =
        [i \in 1 .. n |-> IF Changed(i) THEN Meant!Shows(r.value, t.columns[i]) ELSE old[i]]
  <2>1. DOMAIN old = 1 .. n
    BY <1>5, Zenon
  <2> HIDE DEF old, t
  <2> QED BY <2>1, Zenon DEF Meant!Updated
<1>7. ShownRow(cells'[k], Layout) = [i \in 1 .. n |-> Shown(cells'[k], Layout[i])]
  BY <1>2, Zenon DEF ShownRow
<1>8. \A i \in 1 .. n : Changed(i) <=> k = stmt.id /\ i = T
  <2>1. old[1] = <<r.id.number>> <=> k = stmt.id
    BY <1>3, <1>5, NumeralsDiffer, Zenon
  <2> HIDE DEF n, t, T
  <2>2. \A i \in 1 .. n : t.columns[i].name = r.column <=> i = T
    <3>1. \A i \in 1 .. n : Schema[i].name = Schema[T].name => i = T
      BY <1>2, <1>4 DEF DistinctNames
    <3> QED BY <1>2, <1>3, <1>4, <3>1
  <2> QED BY <2>1, <2>2, Zenon
<1>9. Meant!Shows(r.value, t.columns[T]) = Put(Schema[T].type, stmt.value)
  BY <1>1, <1>2, <1>3, <1>4, FitsWhereValid
<1> HIDE DEF old, t, Changed
<1>10. \A i \in 1 .. n :
         Shown(cells'[k], Layout[i]) = IF Changed(i) THEN Meant!Shows(r.value, t.columns[i]) ELSE old[i]
  <2>1. CASE k # stmt.id
    BY <1>4, <1>5, <1>8, <2>1, Zenon
  <2>2. CASE k = stmt.id
    <3> DEFINE new == cells'[k]
    <3>1. new = PutColumn(cells[k], Layout[T], stmt.value) /\ RowRight(k, cells[k], Layout, Schema)
      BY <1>1, <1>4, <2>2, Zenon DEF RowsRight, Layout
    <3>2. /\ RowRight(k, new, Layout, Schema) /\ Holds(new, Layout[T], Put(Schema[T].type, stmt.value))
          /\ \A i \in 1 .. n \ {T} : \A held : Holds(cells[k], Layout[i], held) => Holds(new, Layout[i], held)
      <4> DEFINE row == cells[k]
                 put == PutColumn(row, Layout[T], stmt.value)
      <4>1. T \in 2 .. Len(Schema) /\ ValueValid(Schema[T], stmt.value)
        BY <1>4
      <4>2. Schema \in Schemas /\ RowRight(k, row, Layout, Schema)
        BY <1>1, <3>1
      <4> HIDE DEF T, row
      <4>3. /\ RowRight(k, put, Layout, Schema) /\ Holds(put, Layout[T], Put(Schema[T].type, stmt.value))
            /\ \A i \in 1 .. Len(Schema) \ {T} : \A held :
                 Holds(row, Layout[i], held) => Holds(put, Layout[i], held)
        BY <4>1, <4>2, ColumnUpdated DEF Layout
      <4> QED BY <3>1, <4>3, Zenon DEF row
    <3> HIDE DEF new, T
    <3>7. Schema \in Schemas /\ RowRight(k, new, Layout, Schema)
      BY <1>1, <3>2
    <3>8. ASSUME NEW i \in 1 .. n, NEW text, Holds(new, Layout[i], text)
          PROVE  Shown(new, Layout[i]) = text
      BY <3>7, <3>8, RowShown DEF Layout
    <3>3. Shown(new, Layout[T]) = Put(Schema[T].type, stmt.value)
      <4> DEFINE value == Put(Schema[T].type, stmt.value)
      <4>1. T \in 1 .. n /\ Holds(new, Layout[T], value)
        BY <1>4, <3>2
      <4> HIDE DEF value
      <4>2. Shown(new, Layout[T]) = value
        BY <3>8, <4>1
      <4> QED BY <4>2 DEF value
    <3>4. \A i \in 1 .. n \ {T} : Shown(new, Layout[i]) = old[i]
      <4> TAKE i \in 1 .. n \ {T}
      <4>1. Holds(cells[k], Layout[i], Shown(cells[k], Layout[i]))
        BY <1>1, <3>1, RowShown DEF Layout
      <4>2. Holds(new, Layout[i], Shown(cells[k], Layout[i]))
        BY <3>2, <4>1
      <4>3. Shown(new, Layout[i]) = Shown(cells[k], Layout[i])
        BY <3>8, <4>2
      <4> QED BY <1>5, <4>3
    <3> TAKE i \in 1 .. n
    <3>5. CASE i = T
      BY <1>4, <1>8, <1>9, <2>2, <3>3, <3>5, Zenon DEF new
    <3>6. CASE i # T
      BY <1>8, <3>4, <3>6, Zenon DEF new
    <3> QED BY <3>5, <3>6
  <2> QED BY <2>1, <2>2
<1>11. ShownRow(cells'[k], Layout) = Meant!Updated(t, r, old)
  BY <1>6, <1>7, <1>10, Zenon
<1> QED BY <1>11 DEF t, old

LEMMA RowsUpdated ==
  ASSUME TableRight(payload, cells), DistinctNames, NEW stmt, NEW r, stmt.value \in Text,
         UpdateMeans(stmt, r), execute_update(stmt), UpdateAccepted(stmt)
  PROVE  /\ reply' = "ok" /\ Schema' = Schema
         /\ TableOf(Schema', cells').rows
              = {Meant!Updated(TableOf(Schema, cells), r, row) : row \in TableOf(Schema, cells).rows}
<1> DEFINE t == TableOf(Schema, cells)
<1>1. reply' = "ok" /\ payload' = payload /\ DOMAIN cells' = DOMAIN cells
  BY UpdatedRow, Zenon
<1>2. Schema' = Schema
  BY <1>1 DEF Schema
<1>3. t.rows = {ShownRow(cells[k], Layout) : k \in DOMAIN cells}
  BY DEF TableOf, Layout
<1>4. TableOf(Schema', cells').rows = {ShownRow(cells'[k], Layout) : k \in DOMAIN cells}
  BY <1>1, <1>2 DEF TableOf, Layout
<1>5. \A k \in DOMAIN cells : ShownRow(cells'[k], Layout) = Meant!Updated(t, r, ShownRow(cells[k], Layout))
  BY RowMeant, Zenon
<1> HIDE DEF t
<1>6. {ShownRow(cells'[k], Layout) : k \in DOMAIN cells}
        = {Meant!Updated(t, r, ShownRow(cells[k], Layout)) : k \in DOMAIN cells}
  BY <1>5, Zenon
<1>7. {Meant!Updated(t, r, row) : row \in t.rows}
        = {Meant!Updated(t, r, ShownRow(cells[k], Layout)) : k \in DOMAIN cells}
  BY <1>3, Zenon
<1>8. TableOf(Schema', cells').rows = {Meant!Updated(t, r, row) : row \in t.rows}
  BY <1>4, <1>6, <1>7, Zenon
<1> QED BY <1>1, <1>2, <1>8 DEF t

LEMMA UpdateAnswer ==
  ASSUME TableRight(payload, cells), DistinctNames, WellFormed(statement'), request'.kind = "update",
         UpdateMeans(statement', request'), Update
  PROVE  Meant!Answer
<1> DEFINE stmt == statement'
           r == request'
           t == TableOf(Schema, cells)
<1>1. Meant!Acceptable(t, r) <=> t # Meant!NoTable /\ Meant!Updatable(t, r)
  BY DEF Meant!Acceptable
<1>2. stmt.type = "update" /\ execute_update(stmt)
  BY DEF Update
<1>3. stmt.value \in Text /\ stmt.id \in 0 .. UINT32_MAX
  BY <1>2 DEF WellFormed
<1>4. CASE UpdateAccepted(stmt)
  <2> DEFINE new == {Meant!Updated(t, r, row) : row \in t.rows}
  <2>1. Schema # <<>>
    BY <1>4, Zenon DEF UpdateAccepted, Found
  <2>2. Meant!Acceptable(t, r)
    BY <1>1, <1>3, <1>4, <2>1, Taken, UpdatableWhereAccepted, Zenon
  <2>3. reply' = "ok" /\ Schema' = Schema /\ TableOf(Schema', cells').rows = new
    BY <1>2, <1>3, <1>4, RowsUpdated, Zenon
  <2>4. Meant!After(t, r) = [t EXCEPT !.rows = {Meant!Updated(t, r, row) : row \in @}]
    BY DEF Meant!After
  <2>5. [t EXCEPT !.rows = {Meant!Updated(t, r, row) : row \in @}] = [t EXCEPT !.rows = new]
    OBVIOUS
  <2> HIDE DEF new
  <2>6. TableOf(Schema', cells') = [TableOf(Schema', cells) EXCEPT !.rows = new]
    BY <2>3, RowsReplaced
  <2>7. TableOf(Schema', cells) = t
    BY <2>3, Zenon
  <2> QED BY <2>2, <2>3, <2>4, <2>5, <2>6, <2>7, Answered, Zenon
<1>5. CASE ~UpdateAccepted(stmt)
  <2>1. Refused("not updated")
    BY <1>2, <1>5, Zenon DEF execute_update, UpdateAccepted, Named, Target
  <2>2. ~Meant!Acceptable(t, r)
    <3>1. CASE Schema = <<>>
      BY <3>1, Taken
    <3>2. CASE Schema # <<>>
      BY <1>1, <1>3, <1>5, <3>2, UpdatableWhereAccepted, Zenon
    <3> QED BY <3>1, <3>2
  <2> QED BY <2>1, <2>2, RefusedAnswer DEF Replies
<1> QED BY <1>4, <1>5

LEMMA RowsDeleted ==
  ASSUME TableRight(payload, cells), NEW stmt, NEW r, stmt.id \in 0 .. UINT32_MAX,
         DeleteMeans(stmt, r), execute_delete(stmt), Found(stmt), stmt.id \in DOMAIN cells
  PROVE  /\ reply' = "ok" /\ Schema' = Schema
         /\ TableOf(Schema', cells').rows = {row \in TableOf(Schema, cells).rows : row[1] # <<r.id.number>>}
<1> DEFINE old == {ShownRow(cells[k], Layout) : k \in DOMAIN cells}
           rest == {row \in old : row[1] # <<r.id.number>>}
           new == {ShownRow(cells'[k], Layout) : k \in DOMAIN cells'}
<1>1. reply' = "ok" /\ payload' = payload /\ cells' = [k \in DOMAIN cells \ {stmt.id} |-> cells[k]]
  BY Zenon DEF execute_delete, Done
<1>2. Schema' = Schema
  BY <1>1 DEF Schema
<1>3. Schema \in Schemas /\ RowsRight(cells, Schema)
  BY Seen, Zenon DEF Found
<1>4. TableOf(Schema, cells).rows = old /\ TableOf(Schema', cells').rows = new
  BY <1>2 DEF TableOf, Layout
<1>5. DOMAIN cells' = DOMAIN cells \ {stmt.id} /\ \A k \in DOMAIN cells \ {stmt.id} : cells'[k] = cells[k]
  BY <1>1
<1>6. \A k \in DOMAIN cells : ShownRow(cells[k], Layout)[1] # <<r.id.number>> <=> k # stmt.id
  <2>1. \A k \in DOMAIN cells : k \in 0 .. UINT32_MAX /\ ShownRow(cells[k], Layout)[1] = <<Numeral(k)>>
    BY <1>3, IdShown DEF Layout
  <2> TAKE k \in DOMAIN cells
  <2>2. k \in 0 .. UINT32_MAX /\ ShownRow(cells[k], Layout)[1] = <<Numeral(k)>>
    BY <2>1
  <2>3. r.id.number = Numeral(stmt.id)
    BY DEF DeleteMeans
  <2>4. <<Numeral(k)>> = <<Numeral(stmt.id)>> <=> k = stmt.id
    BY <2>2, NumeralsDiffer
  <2> QED BY <2>2, <2>3, <2>4, Zenon
<1>7. new = rest
  <2>1. \A row \in new : row \in rest
    <3> TAKE row \in new
    <3>1. PICK k \in DOMAIN cells' : row = ShownRow(cells'[k], Layout)
      OBVIOUS
    <3>2. k \in DOMAIN cells /\ k # stmt.id /\ row = ShownRow(cells[k], Layout)
      BY <1>5, <3>1
    <3> QED BY <1>6, <3>2
  <2>2. \A row \in rest : row \in new
    <3> TAKE row \in rest
    <3>1. PICK k \in DOMAIN cells : row = ShownRow(cells[k], Layout)
      OBVIOUS
    <3>2. k # stmt.id
      BY <1>6, <3>1
    <3>3. k \in DOMAIN cells' /\ row = ShownRow(cells'[k], Layout)
      BY <1>5, <3>1, <3>2
    <3> QED BY <3>3
  <2> HIDE DEF new, rest
  <2> QED BY <2>1, <2>2
<1> QED BY <1>1, <1>2, <1>4, <1>7, Zenon

LEMMA DeleteAnswer ==
  ASSUME TableRight(payload, cells), WellFormed(statement'), request'.kind = "delete",
         DeleteMeans(statement', request'), Delete
  PROVE  Meant!Answer
<1> DEFINE stmt == statement'
           r == request'
           t == TableOf(Schema, cells)
<1>1. Meant!Acceptable(t, r) <=> t # Meant!NoTable /\ <<r.id.number>> \in Meant!Ids(t)
  BY DEF Meant!Acceptable
<1>2. stmt.type = "delete" /\ execute_delete(stmt)
  BY DEF Delete
<1>3. stmt.id \in 0 .. UINT32_MAX /\ stmt.table = Name /\ r.id.number = Numeral(stmt.id)
  BY <1>2 DEF WellFormed, DeleteMeans
<1>4. Schema # <<>> => (<<r.id.number>> \in Meant!Ids(t) <=> stmt.id \in DOMAIN cells)
  BY <1>3, Seen, IdShown
<1>5. CASE Found(stmt) /\ stmt.id \in DOMAIN cells
  <2> DEFINE new == {row \in t.rows : row[1] # <<r.id.number>>}
  <2>1. Meant!Acceptable(t, r)
    BY <1>1, <1>4, <1>5, Taken DEF Found
  <2>2. reply' = "ok" /\ Schema' = Schema /\ TableOf(Schema', cells').rows = new
    BY <1>2, <1>3, <1>5, RowsDeleted, Zenon
  <2>3. Meant!After(t, r) = [t EXCEPT !.rows = {row \in @ : row[1] # <<r.id.number>>}]
    BY DEF Meant!After
  <2>4. [t EXCEPT !.rows = {row \in @ : row[1] # <<r.id.number>>}] = [t EXCEPT !.rows = new]
    OBVIOUS
  <2> HIDE DEF new
  <2>5. TableOf(Schema', cells') = [TableOf(Schema', cells) EXCEPT !.rows = new]
    BY <2>2, RowsReplaced
  <2>6. TableOf(Schema', cells) = t
    BY <2>2, Zenon
  <2> QED BY <2>1, <2>2, <2>3, <2>4, <2>5, <2>6, Answered, Zenon
<1>6. CASE ~(Found(stmt) /\ stmt.id \in DOMAIN cells)
  <2>1. Refused("not deleted")
    BY <1>2, <1>6, Zenon DEF execute_delete
  <2>2. ~Meant!Acceptable(t, r)
    <3>1. CASE Schema = <<>>
      BY <3>1, Taken
    <3>2. CASE Schema # <<>>
      BY <1>1, <1>3, <1>4, <1>6, <3>2 DEF Found
    <3> QED BY <3>1, <3>2
  <2> QED BY <2>1, <2>2, RefusedAnswer DEF Replies
<1> QED BY <1>5, <1>6

LEMMA DropAnswer ==
  ASSUME TableRight(payload, cells), request'.kind = "drop", TableMeans(statement', request'), Drop
  PROVE  Meant!Answer
<1> DEFINE stmt == statement'
           r == request'
           t == TableOf(Schema, cells)
<1>1. Meant!Acceptable(t, r) <=> t # Meant!NoTable
  BY DEF Meant!Acceptable
<1>2. stmt.table = Name /\ execute_drop_table(stmt)
  BY DEF Drop, TableMeans
<1>3. CASE Schema = <<>>
  <2>1. Refused("not found")
    BY <1>2, <1>3, Zenon DEF execute_drop_table, Found
  <2> QED BY <1>3, <2>1, Taken, RefusedAnswer DEF Replies
<1>4. CASE Schema # <<>>
  <2>1. Meant!Acceptable(t, r)
    BY <1>1, <1>4, Taken, Zenon
  <2>2. reply' = "ok" /\ payload' = <<>> /\ cells' = NoRows
    BY <1>2, <1>4, Zenon DEF execute_drop_table, Found, Done
  <2>3. Schema' = <<>> /\ DOMAIN cells' = {}
    BY <2>2 DEF Schema, NoRows
  <2>4. TableOf(Schema', cells') = Meant!NoTable
    BY <2>3, NoTableShown, Zenon
  <2>5. Meant!After(t, r) = Meant!NoTable
    BY DEF Meant!After
  <2> QED BY <2>1, <2>2, <2>4, <2>5, Answered, Zenon
<1> QED BY <1>3, <1>4

LEMMA SelectAnswer ==
  ASSUME TableRight(payload, cells), request'.kind = "select", TableMeans(statement', request'), Select
  PROVE  Meant!Answer
<1> DEFINE stmt == statement'
           r == request'
           t == TableOf(Schema, cells)
<1>1. Meant!Acceptable(t, r) <=> t # Meant!NoTable
  BY DEF Meant!Acceptable
<1>2. stmt.table = Name /\ execute_select(stmt)
  BY DEF Select, TableMeans
<1>3. CASE Schema = <<>>
  <2>1. Refused("not found")
    BY <1>2, <1>3, Zenon DEF execute_select, Found
  <2> QED BY <1>3, <2>1, Taken, RefusedAnswer DEF Replies
<1>4. CASE Schema # <<>>
  <2>1. Meant!Acceptable(t, r)
    BY <1>1, <1>4, Taken, Zenon
  <2>2. reply' = "ok" /\ payload' = payload /\ cells' = cells
    BY <1>2, <1>4, Zenon DEF execute_select, Found, Done
  <2>3. Schema' = Schema
    BY <2>2 DEF Schema
  <2>4. Meant!After(t, r) = t
    BY DEF Meant!After
  <2> QED BY <2>1, <2>2, <2>3, <2>4, Answered, Zenon
<1> QED BY <1>3, <1>4

LEMMA AnswerStep ==
  ASSUME TableRight(payload, cells), DistinctNames, Next, MeansWhatItSays(statement', request')
  PROVE  Meant!Answer
<1> DEFINE stmt == statement'
           r == request'
<1>1. WellFormed(stmt)
  BY TypedIsWellFormed, Zenon DEF Next
<1>2. Syntax \/ Create \/ Insert \/ Update \/ Delete \/ Drop \/ Select
  BY Zenon DEF Next
<1>3. CASE r.kind = "create" /\ CreateMeans(stmt, r)
  <2>1. stmt.type \in {"create", "failed"}
    <3>1. stmt = Failed \/ stmt.type = "create"
      BY <1>3, Zenon DEF CreateMeans
    <3> QED BY <3>1 DEF Failed
  <2>2. Syntax \/ Create
    BY <1>2, <2>1 DEF Insert, Update, Delete, Drop, Select
  <2> QED BY <1>1, <1>3, <2>2, CreateAnswer
<1>4. CASE r.kind = "insert" /\ InsertMeans(stmt, r)
  <2>1. stmt.type \in {"insert", "failed"}
    <3>1. stmt = Failed \/ stmt.type = "insert"
      BY <1>4, Zenon DEF InsertMeans
    <3> QED BY <3>1 DEF Failed
  <2>2. Syntax \/ Insert
    BY <1>2, <2>1 DEF Create, Update, Delete, Drop, Select
  <2> QED BY <1>1, <1>4, <2>2, InsertAnswer
<1>5. CASE r.kind = "update" /\ UpdateMeans(stmt, r)
  <2>1. Update
    BY <1>2, <1>5 DEF UpdateMeans, Syntax, Create, Insert, Delete, Drop, Select
  <2> QED BY <1>1, <1>5, <2>1, UpdateAnswer
<1>6. CASE r.kind = "delete" /\ DeleteMeans(stmt, r)
  <2>1. Delete
    BY <1>2, <1>6 DEF DeleteMeans, Syntax, Create, Insert, Update, Drop, Select
  <2> QED BY <1>1, <1>6, <2>1, DeleteAnswer
<1>7. CASE r.kind \in {"drop", "select"} /\ TableMeans(stmt, r)
  <2>1. (r.kind = "drop" /\ Drop) \/ (r.kind = "select" /\ Select)
    BY <1>2, <1>7 DEF TableMeans, Syntax, Create, Insert, Update, Delete, Drop, Select
  <2> QED BY <1>7, <2>1, DropAnswer, SelectAnswer
<1> QED BY <1>3, <1>4, <1>5, <1>6, <1>7, Zenon DEF MeansWhatItSays

LEMMA NamesAtInit == Init => DistinctNames
<1>1. Init => Schema = <<>>
  BY DEF Init, Schema
<1>2. DOMAIN <<>> = {}
  OBVIOUS
<1> QED BY <1>1, <1>2 DEF DistinctNames

LEMMA NamesStep ==
  ASSUME IInv, DistinctNames, Next, MeansWhatItSays(statement', request')
  PROVE  DistinctNames'
<1> DEFINE stmt == statement'
<1>1. WellFormed(stmt)
  BY TypedIsWellFormed, Zenon DEF Next
<1>2. CASE payload' = payload
  <2>1. Schema' = Schema
    BY <1>2 DEF Schema
  <2> QED BY <2>1 DEF DistinctNames
<1>3. CASE payload' = <<>>
  <2>1. Schema' = <<>>
    BY <1>3 DEF Schema
  <2>2. DOMAIN <<>> = {}
    OBVIOUS
  <2> QED BY <2>1, <2>2 DEF DistinctNames
<1>4. CASE stmt.type = "create" /\ payload' = make_schema_payload(stmt.schema)
  <2> DEFINE columns == request'.columns
  <2>1. stmt.schema \in Schemas
    BY <1>1, <1>4 DEF WellFormed
  <2>2. CreateMeans(stmt, request')
    BY <1>4 DEF MeansWhatItSays, InsertMeans, UpdateMeans, DeleteMeans, TableMeans, Failed
  <2>3. stmt # Failed
    BY <1>4 DEF Failed
  <2>4. /\ columns = ColumnsOf(stmt.schema)
        /\ \A i, j \in DOMAIN columns : columns[i].name = columns[j].name => i = j
    BY <2>2, <2>3, Zenon DEF CreateMeans
  <2>5. Schema' = stmt.schema
    <3>1. payload' # <<>> /\ split_schema_payload(payload') = stmt.schema
      BY <1>4, <2>1, Catalogued
    <3> QED BY <3>1 DEF Schema
  <2>6. \A i, j \in DOMAIN stmt.schema : stmt.schema[i].name = stmt.schema[j].name => i = j
    <3>1. DOMAIN columns = DOMAIN stmt.schema /\ \A i \in DOMAIN stmt.schema : columns[i].name = stmt.schema[i].name
      BY <2>4 DEF ColumnsOf
    <3> HIDE DEF columns
    <3> QED BY <2>4, <3>1, Zenon
  <2> QED BY <2>5, <2>6 DEF DistinctNames
<1>5. \/ payload' = payload \/ payload' = <<>>
      \/ stmt.type = "create" /\ payload' = make_schema_payload(stmt.schema)
  <2>1. Syntax \/ Create \/ Insert \/ Update \/ Delete \/ Drop \/ Select
    BY Zenon DEF Next
  <2>2. CASE Syntax \/ Insert \/ Update \/ Delete \/ Select
    BY <2>2, Zenon DEF Syntax, Insert, Update, Delete, Select, Refused,
         execute_insert, execute_update, execute_delete, execute_select
  <2>3. CASE Create
    BY <2>3, Zenon DEF Create, Refused, execute_create_table
  <2>4. CASE Drop
    BY <2>4, Zenon DEF Drop, Refused, execute_drop_table
  <2> QED BY <2>1, <2>2, <2>3, <2>4
<1> QED BY <1>2, <1>3, <1>4, <1>5

\* If every line is parsed to what it means, then every line does what it means
\* to the table that a select shows, and only those are refused that no such
\* table can take.
THEOREM Refinement == ReadAsMeant /\ Spec => ImplementsTypedTable
<1>1. Init => Meant!TTInit
  <2> SUFFICES ASSUME Init PROVE Meant!TTInit
    OBVIOUS
  <2>1. payload = <<>> /\ DOMAIN cells = {} /\ reply = "ok"
    BY DEF Init, NoRows
  <2>2. Schema = <<>>
    BY <2>1 DEF Schema
  <2>3. [columns |-> Columns, rows |-> ShownRows] = Meant!NoTable
    BY <2>1, <2>2, TableShown, NoTableShown, Zenon
  <2> QED BY <2>1, <2>3, Zenon DEF Meant!TTInit
<1>2. IInv /\ DistinctNames /\ [Next]_vars /\ [MeansWhatItSays(statement', request')]_vars
        => IInv' /\ DistinctNames' /\ [Meant!Answer]_(Meant!ttVars)
  <2> SUFFICES ASSUME IInv, DistinctNames, [Next]_vars, [MeansWhatItSays(statement', request')]_vars
               PROVE  IInv' /\ DistinctNames' /\ [Meant!Answer]_(Meant!ttVars)
    OBVIOUS
  <2>1. CASE Next /\ MeansWhatItSays(statement', request')
    <3>1. IInv' /\ DistinctNames'
      BY <2>1, TypedStep, NamesStep
    <3>2. Meant!Answer
      BY <2>1, AnswerStep DEF IInv
    <3> QED BY <3>1, <3>2
  <2>2. CASE UNCHANGED vars
    <3>1. payload' = payload /\ cells' = cells /\ reply' = reply /\ request' = request
      BY <2>2 DEF vars
    <3>2. Schema' = Schema
      BY <3>1 DEF Schema
    <3>3. IInv' /\ DistinctNames'
      BY <3>1, <3>2 DEF IInv, DistinctNames
    <3>4. [columns |-> Columns, rows |-> ShownRows]' = [columns |-> Columns, rows |-> ShownRows]
      BY <3>1, <3>2, TableShown, Zenon
    <3>5. UNCHANGED Meant!ttVars
      BY <3>1, <3>4 DEF Meant!ttVars
    <3> QED BY <3>3, <3>5
  <2> QED BY <2>1, <2>2
<1> QED BY <1>1, <1>2, TypedAtInit, NamesAtInit, PTL DEF Spec, ReadAsMeant, ImplementsTypedTable, Meant!TTSpec
=============================================================================
