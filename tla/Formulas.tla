------------------------------ MODULE Formulas -------------------------------
(***************************************************************************)
(* The formulas of a sheet.  They are parsed by recursive descent and      *)
(* evaluated with a memo and a set of the cells that are being evaluated;  *)
(* MeantTable says what they mean without either.  A quotient is rounded   *)
(* down; a formula is a sequence of words, and the letters and digits of a *)
(* word are abstracted.                                                    *)
(***************************************************************************)
EXTENDS Cells, SequencesExt

\* The words of a formula, as the tokenizer classifies them: column and row of a
\* reference, the corners of a range.
NumberOf == [w \in {"0", "1", "2", "3"} |-> CASE w = "0" -> 0 [] w = "1" -> 1 [] w = "2" -> 2 [] OTHER -> 3]
CellNamed == [A1 |-> <<1, 1>>, A2 |-> <<1, 2>>, A3 |-> <<1, 3>>, B1 |-> <<2, 1>>]
RangeNamed == ("A1:A2" :> <<1, 1, 1, 2>>) @@ ("A3:A1" :> <<1, 3, 1, 1>>)
Functions == {"SUM", "AVG", "AVERAGE", "MIN", "MAX", "COUNT", "ABS", "ROUND", "IF", "NOPE"}

\* Syntax trees.
Leaf(w) == [k |-> "leaf", w |-> w]
Node(op, l, r) == [k |-> "node", op |-> op, l |-> l, r |-> r]
Negated(e) == [k |-> "neg", e |-> e]
Call(f, args) == [k |-> "call", f |-> f, args |-> args]
Unparsed == [k |-> "bad"]

-----------------------------------------------------------------------------
\* The parser: what it has read so far and the place of the next word; 0 once it throws.
Parsed(ast, at) == [ast |-> ast, at |-> at]
Peek(ws, at) == IF at \in DOMAIN ws THEN ws[at] ELSE "end"
NotParsed == Parsed(Unparsed, 0)

\* From the loosest to the tightest of the operators that associate to the left.
Levels == <<{"=", "<>", ">", "<", ">=", "<="}, {"+", "-"}, {"*", "/"}>>

RECURSIVE ReadLevel(_, _, _), Extend(_, _, _), Unary(_, _), Arguments(_, _, _)

\* Seeded fault: a further operator of the level takes everything to its right.
ExtendToTheRight(ws, level, l) ==
  IF Peek(ws, l.at) \notin Levels[level] THEN l
  ELSE LET r == ReadLevel(ws, level, l.at + 1) IN Parsed(Node(Peek(ws, l.at), l.ast, r.ast), r.at)

\* cmp, add and mul: further operators of the level, from left to right.
Extend(ws, level, l) ==
  IF Peek(ws, l.at) \notin Levels[level] THEN l
  ELSE LET r == ReadLevel(ws, level + 1, l.at + 1)
       IN  Extend(ws, level, Parsed(Node(Peek(ws, l.at), l.ast, r.ast), r.at))

\* One operand of a level, or with level 4 a power, which associates to the right.
ReadLevel(ws, level, at) ==
  IF level <= 3 THEN Extend(ws, level, ReadLevel(ws, level + 1, at))
  ELSE LET l == Unary(ws, at) IN
       IF Peek(ws, l.at) # "^" THEN l
       ELSE LET r == ReadLevel(ws, 4, l.at + 1) IN Parsed(Node("^", l.ast, r.ast), r.at)

\* A number, a reference, a range, a group or a call.
Atom(ws, at) ==
  LET w == Peek(ws, at)
      group == ReadLevel(ws, 1, at + 1)
      list == IF Peek(ws, at + 2) = ")" THEN [args |-> <<>>, at |-> at + 2] ELSE Arguments(ws, at + 2, <<>>)
  IN  CASE w \in DOMAIN NumberOf \cup DOMAIN CellNamed \cup DOMAIN RangeNamed -> Parsed(Leaf(w), at + 1)
        [] w = "(" -> IF Peek(ws, group.at) = ")" THEN Parsed(group.ast, group.at + 1) ELSE NotParsed
        [] w \in Functions -> IF Peek(ws, at + 1) = "(" /\ Peek(ws, list.at) = ")"
                              THEN Parsed(Call(w, list.args), list.at + 1) ELSE NotParsed
        [] OTHER -> NotParsed

Unary(ws, at) ==
  CASE Peek(ws, at) = "-" -> LET e == Unary(ws, at + 1) IN Parsed(Negated(e.ast), e.at)
    [] Peek(ws, at) = "+" -> Unary(ws, at + 1)
    [] OTHER -> Atom(ws, at)

Arguments(ws, at, args) ==
  LET e == ReadLevel(ws, 1, at) IN
  IF Peek(ws, e.at) = "," THEN Arguments(ws, e.at + 1, Append(args, e.ast))
  ELSE [args |-> Append(args, e.ast), at |-> e.at]

Parse(ws) == LET e == ReadLevel(ws, 1, 1) IN IF e.at = Len(ws) + 1 THEN e.ast ELSE Unparsed

-----------------------------------------------------------------------------
\* Arithmetic.  An empty cell counts as 0.
AsNumber(v) == CASE v = Word("") -> Number(0) [] v.k = "text" -> Wrong("#VALUE!") [] OTHER -> v
Truth(b) == Number(IF b THEN 1 ELSE 0)

\* A quotient, rounded down.
Quotient(x, y) == IF y > 0 THEN x \div y ELSE (-x) \div (-y)

\* Bound: no formula raises 0 to a negative power, which is infinite.
RECURSIVE Power(_, _)
Power(x, n) ==
  CASE n = 0 -> 1 [] n > 0 -> x * Power(x, n - 1) [] OTHER -> Quotient(1, Power(x, -n))

\* A whole number rounds to itself, or with negative digits to a multiple, a half upwards.
Rounded(x, digits) ==
  IF digits >= 0 THEN x
  ELSE LET f == Power(10, -digits) IN ((2 * x + f) \div (2 * f)) * f

\* The divisor is converted, and compared with 0, before the dividend is converted.
Combine(op, l, r) ==
  LET a == AsNumber(l)  b == AsNumber(r) IN
  CASE op = "=" -> Truth(l = r)
    [] op = "<>" -> Truth(l # r)
    [] op = "/" /\ ~IsWrong(b) /\ b.n = 0 -> Wrong("#DIV/0!")
    [] op = "/" /\ IsWrong(b) -> b
    [] IsWrong(a) -> a
    [] IsWrong(b) -> b
    [] op = "+" -> Number(a.n + b.n)
    [] op = "-" -> Number(a.n - b.n)
    [] op = "*" -> Number(a.n * b.n)
    [] op = "/" -> Number(Quotient(a.n, b.n))
    [] op = "^" -> Number(Power(a.n, b.n))
    [] op = ">" -> Truth(a.n > b.n)
    [] op = "<" -> Truth(a.n < b.n)
    [] op = ">=" -> Truth(a.n >= b.n)
    [] op = "<=" -> Truth(a.n <= b.n)

Aggregate(f, ns) ==
  LET sum == FoldSeq(+, 0, ns) IN
  CASE f = "SUM" -> Number(sum)
    [] f = "COUNT" -> Number(Len(ns))
    [] f \in {"AVG", "AVERAGE"} -> IF ns = <<>> THEN Wrong("#DIV/0!") ELSE Number(sum \div Len(ns))
    [] f \in {"MIN", "MAX"} /\ ns = <<>> -> Number(0)
    [] f = "MIN" -> Number(Min(ToSet(ns)))
    [] f = "MAX" -> Number(Max(ToSet(ns)))
    [] OTHER -> Wrong("#VALUE!")

\* What the arguments of a call stand for: each cell of a range, row by row, whichever
\* corners name it, or the expression.
Corners(w) ==
  LET q == RangeNamed[w]
      c == Min({q[1], q[3]})  width == Max({q[1], q[3]}) - c + 1
      r == Min({q[2], q[4]})  height == Max({q[2], q[4]}) - r + 1
  IN  [i \in 1..(width * height) |-> [k |-> "cell", at |-> <<c + ((i - 1) % width), r + ((i - 1) \div width)>>]]

IsRange(a) == a.k = "leaf" /\ a.w \in DOMAIN RangeNamed
Items(args) == FlattenSeq([i \in DOMAIN args |-> IF IsRange(args[i]) THEN Corners(args[i].w) ELSE <<args[i]>>])

-----------------------------------------------------------------------------
\* The evaluator: a value, the memo and the cells in flight.
Got(st, v) == [st EXCEPT !.val = v]

\* Seeded fault: a cell whose formula throws stays in flight.
LeaveUnlessThrown(st, x) == IF IsWrong(st.val) THEN st ELSE [st EXCEPT !.flight = @ \ {x}]

Leave(st, x) == [st EXCEPT !.flight = @ \ {x}]

RECURSIVE CellValue(_, _, _), RunTree(_, _, _), Flat(_, _, _, _)

CellValue(sheet, x, st) ==
  IF ~Inside(sheet, x) THEN Got(st, Wrong("#REF!"))
  ELSE IF x \in DOMAIN st.memo THEN Got(st, st.memo[x])
  ELSE IF x \in st.flight THEN Got(st, Wrong("#CYCLE!"))
  ELSE LET raw == Raw(sheet, x)
           done == IF raw.k # "formula" THEN Got(st, raw)
                   ELSE Leave(RunTree(sheet, Parse(raw.words), [st EXCEPT !.flight = @ \cup {x}]), x)
       IN  IF IsWrong(done.val) THEN done ELSE [done EXCEPT !.memo = (x :> done.val) @@ @]

\* flat: the numbers of the items; a range skips what is not a number.
Flat(sheet, items, st, ns) ==
  IF items = <<>> THEN [st |-> st, ns |-> ns]
  ELSE LET ranged == Head(items).k = "cell"
           found == IF ranged THEN CellValue(sheet, Head(items).at, st) ELSE RunTree(sheet, Head(items), st)
           v == IF ranged THEN found.val ELSE AsNumber(found.val)
       IN  IF IsWrong(v) THEN [st |-> Got(found, v), ns |-> ns]
           ELSE Flat(sheet, Tail(items), found, IF v.k = "num" THEN Append(ns, v.n) ELSE ns)

\* run: from left to right, up to the first error.
RunTree(sheet, a, st) ==
  CASE a.k = "leaf" /\ a.w \in DOMAIN NumberOf -> Got(st, Number(NumberOf[a.w]))
    [] a.k = "leaf" /\ a.w \in DOMAIN CellNamed -> CellValue(sheet, CellNamed[a.w], st)
    [] a.k = "bad" \/ IsRange(a) -> Got(st, Wrong("#VALUE!"))
    [] a.k = "neg" ->
         LET e == RunTree(sheet, a.e, st)  v == AsNumber(e.val) IN Got(e, IF IsWrong(v) THEN v ELSE Number(-v.n))
    [] a.k = "node" ->
         LET l == RunTree(sheet, a.l, st)  r == RunTree(sheet, a.r, l) IN
         IF IsWrong(l.val) THEN l ELSE IF IsWrong(r.val) THEN r ELSE Got(r, Combine(a.op, l.val, r.val))
    [] a.k = "call" /\ a.f = "IF" ->
         IF Len(a.args) # 3 THEN Got(st, Wrong("#VALUE!"))
         ELSE LET c == RunTree(sheet, a.args[1], st)  v == AsNumber(c.val) IN
              IF IsWrong(v) THEN Got(c, v) ELSE RunTree(sheet, a.args[IF v.n # 0 THEN 2 ELSE 3], c)
    [] a.k = "call" /\ a.f = "ABS" ->
         IF Len(a.args) # 1 THEN Got(st, Wrong("#VALUE!"))
         ELSE LET e == RunTree(sheet, a.args[1], st)  v == AsNumber(e.val)
              IN  Got(e, IF IsWrong(v) \/ v.n >= 0 THEN v ELSE Number(-v.n))
    [] a.k = "call" /\ a.f = "ROUND" ->
         IF Len(a.args) \notin 1..2 THEN Got(st, Wrong("#VALUE!"))
         ELSE LET e == RunTree(sheet, a.args[1], st)  x == AsNumber(e.val)
                  d == IF Len(a.args) = 2 THEN RunTree(sheet, a.args[2], e) ELSE Got(e, Number(0))
                  digits == AsNumber(d.val)
              IN  IF IsWrong(x) THEN Got(e, x) ELSE IF IsWrong(digits) THEN Got(d, digits)
                  ELSE Got(d, Number(Rounded(x.n, digits.n)))
    [] a.k = "call" /\ a.f \notin {"IF", "ABS", "ROUND"} ->
         LET f == Flat(sheet, Items(a.args), st, <<>>)
         IN  IF IsWrong(f.st.val) THEN f.st ELSE Got(f.st, Aggregate(a.f, f.ns))

\* evaluateSheet: one evaluator goes through the cells; an error is shown as a text.
EvaluateSheet(sheet) ==
  LET cells == FlattenSeq([r \in DOMAIN sheet.rows |-> [c \in DOMAIN sheet.rows[r] |-> <<c, r>>]])
      Visit(x, done) ==
        LET st == CellValue(sheet, x, [done.st EXCEPT !.val = Number(0)])
            v == IF IsWrong(st.val) THEN Word(st.val.s) ELSE st.val
        IN  IF Raw(sheet, x).k # "formula" THEN done
            ELSE [st |-> st, rows |-> [done.rows EXCEPT ![x[2]][x[1]] = v]]
      start == [st |-> [val |-> Number(0), memo |-> <<>>, flight |-> {}], rows |-> sheet.rows]
  IN  [sheet EXCEPT !.rows = FoldLeft(LAMBDA done, x : Visit(x, done), start, cells).rows]

-----------------------------------------------------------------------------
\* What a formula means: its words, with the fewest groups, and its value, given a table
\* of the values that are known.
Strength(a) ==
  CASE a.k = "neg" -> 5
    [] a.k = "node" /\ a.op = "^" -> 4
    [] a.k = "node" /\ a.op # "^" -> CHOOSE i \in 1..3 : a.op \in Levels[i]
    [] OTHER -> 6

RECURSIVE Written(_, _), Commas(_), Meant(_, _, _), Table(_, _)
Commas(args) == Written(Head(args), 1) \o (IF Len(args) = 1 THEN <<>> ELSE <<",">> \o Commas(Tail(args)))
Written(a, least) ==
  LET s == Strength(a)
      ws == CASE a.k = "leaf" -> <<a.w>>
              [] a.k = "neg" -> <<"-">> \o Written(a.e, 5)
              [] a.k = "node" /\ a.op = "^" -> Written(a.l, 5) \o <<"^">> \o Written(a.r, 4)
              [] a.k = "node" /\ a.op # "^" -> Written(a.l, s) \o <<a.op>> \o Written(a.r, s + 1)
              [] a.k = "call" -> <<a.f, "(">> \o Commas(a.args) \o <<")">>
  IN  IF s < least THEN <<"(">> \o ws \o <<")">> ELSE ws

\* The value of the first that is wrong, or what they make together.
FirstWrong(vs, v) == IF \E i \in DOMAIN vs : IsWrong(vs[i]) THEN SelectSeq(vs, IsWrong)[1] ELSE v

Meant(sheet, a, table) ==
  LET Known(x) == IF Inside(sheet, x) THEN table[x] ELSE Wrong("#REF!")
      Value(e) == Meant(sheet, e, table)
      ItemValue(e) == IF e.k = "cell" THEN Known(e.at) ELSE AsNumber(Value(e))
  IN  CASE a.k = "leaf" /\ a.w \in DOMAIN NumberOf -> Number(NumberOf[a.w])
        [] a.k = "leaf" /\ a.w \in DOMAIN CellNamed -> Known(CellNamed[a.w])
        [] a.k = "bad" \/ IsRange(a) -> Wrong("#VALUE!")
        [] a.k = "neg" -> FirstWrong(<<Value(a.e)>>, Combine("-", Number(0), Value(a.e)))
        [] a.k = "node" -> FirstWrong(<<Value(a.l), Value(a.r)>>, Combine(a.op, Value(a.l), Value(a.r)))
        [] a.k = "call" /\ a.f = "IF" ->
             LET c == AsNumber(Value(a.args[1]))
             IN  IF IsWrong(c) THEN c ELSE Value(a.args[IF c.n # 0 THEN 2 ELSE 3])
        [] a.k = "call" /\ a.f = "ABS" ->
             LET v == AsNumber(Value(a.args[1])) IN IF IsWrong(v) THEN v ELSE Number(Max({v.n, -v.n}))
        [] a.k = "call" /\ a.f = "ROUND" ->
             LET vs == [i \in DOMAIN a.args |-> AsNumber(Value(a.args[i]))]
             IN  FirstWrong(vs, Number(Rounded(vs[1].n, IF Len(vs) = 2 THEN vs[2].n ELSE 0)))
        [] a.k = "call" /\ a.f \notin {"IF", "ABS", "ROUND"} ->
             LET items == Items(a.args)  vs == [i \in DOMAIN items |-> ItemValue(items[i])]
                 ns == SelectSeq(vs, LAMBDA v : v.k = "num")
             IN  FirstWrong(vs, Aggregate(a.f, [i \in DOMAIN ns |-> ns[i].n]))

\* The table after n rounds in which every formula takes the values of the round before;
\* what is not known after as many rounds as there are cells never will be.
Table(sheet, n) ==
  LET Places == {x \in (1..sheet.width) \X DOMAIN sheet.rows : x[1] \in DOMAIN sheet.rows[x[2]]}
      before == Table(sheet, n - 1)
  IN  [x \in Places |->
        CASE Raw(sheet, x).k # "formula" -> Raw(sheet, x)
          [] n = 0 /\ Raw(sheet, x).k = "formula" -> Wrong("#CYCLE!")
          [] OTHER -> Meant(sheet, Raw(sheet, x).ast, before)]

MeantTable(sheet) == Table(sheet, sheet.width * Len(sheet.rows))

-----------------------------------------------------------------------------
\* Cells that a person fills: plain ones, formulas and words that are not a formula.
Formula(a) == [k |-> "formula", words |-> Written(a, 1), ast |-> a]
Scrap(words) == [k |-> "formula", words |-> words, ast |-> Unparsed]

\* The formulas: chains of one operator, a cell that asks for itself through others, groups,
\* powers and calls.
Formulas == {
  Leaf("A2"),
  Node("-", Node("-", Leaf("3"), Leaf("1")), Leaf("A3")),
  Node("+", Leaf("A1"), Node("*", Leaf("2"), Node("+", Leaf("A3"), Leaf("1")))),
  Node("^", Leaf("2"), Node("^", Leaf("3"), Leaf("2"))),
  Node("^", Negated(Leaf("2")), Leaf("2")),
  Negated(Node("/", Leaf("B1"), Leaf("A1"))),
  Node("/", Leaf("1"), Leaf("A2")),
  Call("IF", <<Node("=", Leaf("A1"), Leaf("2")), Leaf("A2"), Leaf("A3")>>),
  Call("SUM", <<Leaf("A1:A2"), Leaf("1")>>),
  Call("AVERAGE", <<Leaf("A3:A1")>>),
  Call("ROUND", <<Node("*", Leaf("3"), Leaf("A1")), Negated(Leaf("1"))>>),
  Node("+", Call("AVG", <<Leaf("A2")>>), Node("^", Leaf("2"), Negated(Leaf("1"))))}

Filled ==
  {Word(""), Word("note"), Number(2)} \cup {Formula(a) : a \in Formulas}
    \cup {Scrap(words) : words \in {<<"2", "+">>, <<"A1:A2">>}}

\* Bound: the cells of the sheets that several runs work on.
FilledShared == {c \in Filled : c.k = "formula" =>
  c.words \in {<<"A2">>, <<"-", "(", "B1", "/", "A1", ")">>, <<"SUM", "(", "A1:A2", ",", "1", ")">>}}
=============================================================================
