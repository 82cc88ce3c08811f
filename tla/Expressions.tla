---------------------------- MODULE Expressions ----------------------------
(***************************************************************************)
(* The expressions of the rules' conditions (infix/infixeval.tcc): their   *)
(* tokens, what an operator does to two values, and the language: which    *)
(* sequences of tokens are well formed, and what they mean.  Conditions is *)
(* the evaluator that reads them.                                          *)
(***************************************************************************)
EXTENDS Integers, Sequences

CONSTANTS
  Names,         \* names of fields of the products, such as X.date
  IntIndefinite  \* the int that the build makes of an infinite double

LastValue == "_"                     \* the value of the expression before
Binary == {"EXP", "MULT", "DIV", "PLUS", "MINUS", "LT", "LE", "GT", "GE",
           "EQUAL", "NOT_EQUAL", "AND", "OR"}
TokenTypes == Binary \cup {"EOL", "OPAREN", "CPAREN", "DEFINED_AS", "none"}
Token == [type : {"VALUE"}, value : Int]
           \cup [type : {"WORD", "SYMBOL"}, name : Names \cup {LastValue}]
           \cup [type : TokenTypes]
Number(v) == [type |-> "VALUE", value |-> v]
Word(n) == [type |-> "WORD", name |-> n]       \* a name, as in the text
Symbol(n) == [type |-> "SYMBOL", name |-> n]   \* a name without a value
Op(t) == [type |-> t]
NoToken == Op("none")

-----------------------------------------------------------------------------
(* Operations                                                              *)

Truth(b) == IF b THEN 1 ELSE 0

\* Integer division truncates, \div does not.
Magnitude(n) == IF n < 0 THEN -n ELSE n
Quotient(a, b) ==
  LET q == Magnitude(a) \div Magnitude(b)
  IN IF (a < 0) = (b < 0) THEN q ELSE -q

\* A power is computed as a double, and truncated; one of 0 with a negative
\* exponent is infinite.
Power(a, b) ==
  CASE b = 0 -> 1
    [] b > 0 -> a ^ b
    [] a = 0 -> IntIndefinite
    [] OTHER -> IF a \in {1, -1} THEN a ^ (-b) ELSE 0

\* The value of an operation.  Division by zero gives the dividend.
Result(op, lhs, rhs) ==
  CASE op = "EXP" -> Power(lhs, rhs)
    [] op = "MULT" -> lhs * rhs
    [] op = "DIV" -> IF rhs = 0 THEN lhs ELSE Quotient(lhs, rhs)
    [] op = "PLUS" -> lhs + rhs
    [] op = "MINUS" -> lhs - rhs
    [] op = "LT" -> Truth(lhs < rhs)
    [] op = "LE" -> Truth(lhs <= rhs)
    [] op = "GT" -> Truth(lhs > rhs)
    [] op = "GE" -> Truth(lhs >= rhs)
    [] op = "EQUAL" -> Truth(lhs = rhs)
    [] op = "NOT_EQUAL" -> Truth(lhs # rhs)
    [] op = "AND" -> Truth(lhs # 0 /\ rhs # 0)
    [] op = "OR" -> Truth(lhs # 0 \/ rhs # 0)
    [] OTHER -> 0

-----------------------------------------------------------------------------
(* The language                                                            *)

\* How close an operator binds its operands, by the comments of the table of
\* precedences.
Level(op) ==
  CASE op = "EXP" -> 5
    [] op \in {"MULT", "DIV"} -> 4
    [] op \in {"PLUS", "MINUS"} -> 3
    [] op \in {"LT", "LE", "GT", "GE", "EQUAL", "NOT_EQUAL"} -> 2
    [] OTHER -> 1
Atomic == 6      \* a number, a name, or an expression in parentheses

\* Whether an expression can be the operand of op without parentheses.
\* Operators of a level associate to the left, but powers to the right.
MayBeLeft(level, op) == level >= IF op = "EXP" THEN Atomic ELSE Level(op)
MayBeRight(level, op) ==
  IF op = "EXP" THEN level >= Level(op) ELSE level > Level(op)

\* The rows of the table are not where the comments say: a sum or a comparison
\* on the right of a comparison or of a logical operator is not read as one.
\* With parentheses there is no doubt.
IsClearOnRight(level, op) ==
  MayBeRight(level, op) /\ level >= Level("MULT")

Expression == [text : Seq(Token), value : Int, level : 1 .. Atomic]

Parenthesised(e) ==
  [text |-> <<Op("OPAREN")>> \o e.text \o <<Op("CPAREN")>>,
   value |-> e.value, level |-> Atomic]

Operation(op, l, r) ==
  [text |-> l.text \o <<Op(op)>> \o r.text,
   value |-> Result(op, l.value, r.value), level |-> Level(op)]

IsAtom(e, map) ==
  /\ e.level = Atomic
  /\ \/ e.text = <<Number(e.value)>>
     \/ \E n \in DOMAIN map : e.text = <<Word(n)>> /\ e.value = map[n]

\* parts shows how to read an expression, where map gives the values of names:
\* each part is an atom, or is made of parts before it, in the one way that
\* the comments and the rows of the table allow.
IsReading(parts, map) ==
  \A i \in 1 .. Len(parts) :
    \/ IsAtom(parts[i], map)
    \/ \E j \in 1 .. i - 1 : parts[i] = Parenthesised(parts[j])
    \/ \E op \in Binary, j, k \in 1 .. i - 1 :
         /\ MayBeLeft(parts[j].level, op) /\ IsClearOnRight(parts[k].level, op)
         /\ parts[i] = Operation(op, parts[j], parts[k])

Whole(parts) == parts[Len(parts)]

\* The values of names after n is given one.
With(map, n, v) ==
  [m \in DOMAIN map \cup {n} |-> IF m = n THEN v ELSE map[m]]

\* The text of an expression whose value a name gets; the name of a value that
\* gets no other is "_".
Defining(name, text) ==
  IF name = LastValue THEN text ELSE <<Word(name), Op("DEFINED_AS")>> \o text

Defined(map, name, value) ==
  IF name = LastValue THEN map ELSE With(map, name, value)

\* reading shows how to read the expressions of a line, from the left.
IsReadingOf(reading, line) ==
  /\ Len(reading) = Len(line)
  /\ reading[1].map = <<>>
  /\ \A k \in 1 .. Len(line) :
       LET e == reading[k]
           whole == Whole(e.parts)
       IN /\ e.parts \in Seq(Expression) \ {<<>>} /\ IsReading(e.parts, e.map)
          /\ e.name \in (Names \cup {LastValue}) \ (DOMAIN e.map \ {LastValue})
          /\ line[k] = Defining(e.name, whole.text)
          /\ k < Len(line) =>
               reading[k + 1].map =
                 With(Defined(e.map, e.name, whole.value), LastValue, whole.value)

Meaning(reading) == Whole(reading[Len(reading)].parts).value
=============================================================================
