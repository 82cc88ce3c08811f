---------------------------- MODULE MCConditions ----------------------------
(***************************************************************************)
(* Rules for Conditions: trees of operations, read from texts with all the *)
(* parentheses, or with the fewest that leave no doubt; strings of tokens  *)
(* that mean nothing.                                                      *)
(***************************************************************************)
EXTENDS Conditions, SequencesExt, FiniteSets

CONSTANTS
  MaxMalformed  \* tokens of a text that means nothing

MCNames == {"a", "b"}
MCIntIndefinite == -2147483647 - 1    \* on x86-64

\* What the rule's inputs say: a is defined by its first expression.
Fields == [n \in {"a"} |-> 2]
DefinitionsOf == <<<<Word("a"), Op("DEFINED_AS"), Number(Fields["a"])>>>>

-----------------------------------------------------------------------------
(* Trees                                                                   *)

Operators == <<"EXP", "DIV", "MINUS", "LT", "EQUAL", "OR">>

Leaves == <<[word |-> "a"], [number |-> 1]>>

\* All the operators over all pairs of the given trees, numbered.
Over(trees) ==
  LET n == Len(trees)
  IN [i \in 1 .. Len(Operators) * n * n |->
        [op |-> Operators[((i - 1) \div (n * n)) + 1],
         lhs |-> trees[(((i - 1) \div n) % n) + 1],
         rhs |-> trees[((i - 1) % n) + 1]]]

IsLeaf(t) == "op" \notin DOMAIN t

\* The two operands of an operation, in parentheses or not.
Operand(parts, parenthesised) ==
  IF parenthesised THEN Append(parts, Parenthesised(Whole(parts))) ELSE parts

RECURSIVE Parts(_, _)
\* How to read the text of a tree, with parentheses around all its operations,
\* or around the ones only that need them.
Parts(t, all) ==
  IF "word" \in DOMAIN t
  THEN <<[text |-> <<Word(t.word)>>, value |-> Fields[t.word], level |-> Atomic]>>
  ELSE IF "number" \in DOMAIN t
  THEN <<[text |-> <<Number(t.number)>>, value |-> t.number, level |-> Atomic]>>
  ELSE LET left == Parts(t.lhs, all)
           right == Parts(t.rhs, all)
           l == Operand(left, \/ all /\ ~IsLeaf(t.lhs)
                              \/ ~MayBeLeft(Whole(left).level, t.op))
           r == Operand(right, \/ all /\ ~IsLeaf(t.rhs)
                               \/ ~IsClearOnRight(Whole(right).level, t.op))
       IN Append(l \o r, Operation(t.op, Whole(l), Whole(r)))

-----------------------------------------------------------------------------
(* Rules, numbered                                                         *)

\* The reading of a line, from the names it defines and the trees of its
\* expressions; the values of the names are those of Fields.
Read(names, parts) ==
  [k \in 1 .. Len(names) |->
     [name |-> names[k], parts |-> parts[k],
      map |-> [n \in IF k = 1 THEN {}
                     ELSE Range(SubSeq(names, 1, k - 1)) \cup {LastValue} |->
                 IF n = LastValue THEN Whole(parts[k - 1]).value
                 ELSE Fields[n]]]]

RuleOfParts(names, parts) ==
  [line |-> [k \in 1 .. Len(names) |->
               Defining(names[k], Whole(parts[k]).text)],
   reading |-> Read(names, parts)]

ValueOfA == Parts([number |-> Fields["a"]], FALSE)

RuleOf(t, all) == RuleOfParts(<<"a", LastValue>>, <<ValueOfA, Parts(t, all)>>)

\* The last expression uses the value of the one before: (a + 1), (_ * a).
UsesLast ==
  LET sum == Parts([op |-> "PLUS", lhs |-> [word |-> "a"], rhs |-> [number |-> 1]],
                   FALSE)
      last == [text |-> <<Word(LastValue)>>, value |-> 3, level |-> Atomic]
      a == Whole(Parts([word |-> "a"], FALSE))
  IN RuleOfParts(<<"a", LastValue, LastValue>>,
                 <<ValueOfA, sum, <<last, a, Operation("MULT", last, a)>>>>)

\* Read from the left: (1 - (a < 1)).
Small ==
  RuleOf([op |-> "MINUS", lhs |-> [number |-> 1],
          rhs |-> [op |-> "LT", lhs |-> [word |-> "a"], rhs |-> [number |-> 1]]],
         FALSE)

\* Inputs of one type twice: the second definition of a name throws.
Twice ==
  [line |-> DefinitionsOf \o DefinitionsOf \o <<<<Word("a")>>>>, reading |-> <<>>]

MalformedTokens ==
  <<Number(1), Word("a"), Word("b"), Op("OPAREN"), Op("CPAREN"), Op("PLUS"),
    Op("DEFINED_AS"), Op("AND"), Op("EOL")>>

\* All the texts of k tokens, by numbers of k digits.
Malformed(k) ==
  LET base == Len(MalformedTokens)
      Digit(i, j) == ((i - 1) \div base ^ (j - 1)) % base
  IN [i \in 1 .. base ^ k |->
        [line |-> Append(DefinitionsOf,
                         [j \in 1 .. k |-> MalformedTokens[Digit(i, j) + 1]]),
         reading |-> <<>>]]

WellFormed(trees, all) ==
  [i \in 1 .. Len(trees) |-> RuleOf(trees[i], all)]

\* The trees have up to three operators.
AllRules ==
  LET small == Leaves \o Over(Leaves)
      trees == Leaves \o Over(small)
  IN <<UsesLast, Small, Twice>>
       \o FlattenSeq([k \in 1 .. MaxMalformed |-> Malformed(k)])
       \o WellFormed(trees, TRUE) \o WellFormed(trees, FALSE)

MCRules == 1 .. Len(AllRules)
MCLine == LET all == AllRules IN [r \in 1 .. Len(all) |-> all[r].line]
MCReading == LET all == AllRules IN [r \in 1 .. Len(all) |-> all[r].reading]

\* A rule alone, or one of the first two after one that may leave the stacks in
\* disorder.
MCChecks ==
  LET reading == MCReading
      all == 1 .. Len(reading)
  IN {<<r>> : r \in all}
       \cup {<<m, r>> : m \in {n \in all : reading[n] = <<>>}, r \in {1, 2}}
=============================================================================
