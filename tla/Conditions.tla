----------------------------- MODULE Conditions -----------------------------
(***************************************************************************)
(* The conditions of the rules: the evaluator of infix expressions         *)
(* (infix/infixeval.tcc), as the Task Orchestrator uses it                 *)
(* (fmk/tskorc.cpp).  One evaluator serves all the rules that a product    *)
(* may fire.  For each rule it gets one line: the definitions of the       *)
(* fields of the rule's inputs, each an expression of its own, and the     *)
(* condition.                                                              *)
(*                                                                         *)
(* An operator precedence parser that evaluates as it reduces: a stack of  *)
(* operators, one of values, and one of the names to be defined.  They     *)
(* are never cleared; the map of the names is, before each rule.  The      *)
(* status is left out: each token resets it and nobody reads it.           *)
(***************************************************************************)
EXTENDS Expressions

CONSTANTS
  Rules,
  Line,      \* the expressions of a rule's line
  Reading,   \* how the line is to be read, for the properties: empty if it is
             \* malformed
  Checks     \* the sequences of rules that one product may fire

ASSUME ConditionsAssumption ==
  /\ LastValue \notin Names
  /\ IntIndefinite \in Int
  /\ Line \in [Rules -> Seq(Seq(Token)) \ {<<>>}]
  /\ \A r \in Rules : Reading[r] = <<>> \/ IsReadingOf(Reading[r], Line[r])
  /\ Checks \subseteq Seq(Rules)

VARIABLES
  rules,         \* the rules not evaluated yet, with the current one first
  line,          \* expressions after the current one
  expression,    \* tokens of the current one not read
  token,         \* the token being processed
  opStack, postFixStack, symbolStack,   \* the last element is the top
  symbolMap,     \* the values of names
  outcomes       \* the values of the rules evaluated

vars == <<rules, line, expression, token, opStack, postFixStack, symbolStack,
          symbolMap, outcomes>>
stacks == <<opStack, postFixStack, symbolStack>>

-----------------------------------------------------------------------------
(* Operators                                                               *)

\* PREC_TABLE by the order of the tokens.  The table has one row too many for
\* PLUS and MINUS, so that all the rows after it are those of the tokens two
\* places before: no comparison or logical operator waits for any but a product
\* or a power on its right, and a == b + 1 is read as (a == b) + 1.
\* Mutant: binary operators associate to the right.
TopOfStackMutant(op) ==
  CASE op = "EOL" -> -1 [] op = "OPAREN" -> 0 [] op = "EXP" -> 50
    [] op \in {"MULT", "DIV"} -> 29 [] op \in {"PLUS", "MINUS", "LT", "LE"} -> 9
    [] op = "DEFINED_AS" -> 2 [] OTHER -> 4

TopOfStack(op) ==
  CASE op = "EOL" -> -1 [] op = "OPAREN" -> 0 [] op = "EXP" -> 50
    [] op \in {"MULT", "DIV"} -> 40 [] op \in {"PLUS", "MINUS", "LT", "LE"} -> 20
    [] op = "DEFINED_AS" -> 2 [] OTHER -> 10

InputSymbol(op) ==
  CASE op = "EOL" -> 0 [] op = "OPAREN" -> 100 [] op = "EXP" -> 60
    [] op \in {"MULT", "DIV"} -> 30 [] op \in {"PLUS", "MINUS", "LT", "LE"} -> 10
    [] op = "DEFINED_AS" -> 1 [] OTHER -> 5

Top(s) == s[Len(s)]
Pop(s) == SubSeq(s, 1, Len(s) - 1)

\* getTop: an operand that is missing counts as 0.
TopValue(s) == IF s = <<>> THEN 0 ELSE Top(s)
PopValue(s) == IF s = <<>> THEN s ELSE Pop(s)

-----------------------------------------------------------------------------
(* Rules and expressions                                                   *)

Init ==
  /\ rules \in Checks
  /\ line = <<>> /\ expression = <<>> /\ token = NoToken
  /\ opStack = <<>> /\ postFixStack = <<>> /\ symbolStack = <<>>
  /\ symbolMap = <<>>
  /\ outcomes = <<>>

Idle == expression = <<>> /\ token = NoToken    \* no expression is in progress

\* clear, set, and the beginning of getValue.
StartRule ==
  /\ Idle /\ line = <<>> /\ rules # <<>>
  /\ line' = Line[Head(rules)]
  /\ opStack' = Append(opStack, "EOL")
  /\ symbolMap' = <<>>
  /\ UNCHANGED <<rules, expression, token, postFixStack, symbolStack, outcomes>>

NextExpression ==
  /\ Idle /\ line # <<>>
  /\ expression' = Append(Head(line), Op("EOL"))
  /\ line' = Tail(line)
  /\ UNCHANGED <<rules, token, stacks, symbolMap, outcomes>>

\* A word is a value if it has one when it is read.
GetToken ==
  /\ expression # <<>> /\ token = NoToken
  /\ LET next == Head(expression) IN
       token' = IF next.type # "WORD" THEN next
                ELSE IF next.name \in DOMAIN symbolMap
                     THEN Number(symbolMap[next.name])
                     ELSE Symbol(next.name)
  /\ expression' = Tail(expression)
  /\ UNCHANGED <<rules, line, stacks, symbolMap, outcomes>>

Assign(n, v) == symbolMap' = With(symbolMap, n, v)

EndRule(result) ==
  /\ rules' = Tail(rules)
  /\ outcomes' = Append(outcomes, [rule |-> Head(rules), value |-> result])

-----------------------------------------------------------------------------
(* processToken, by the type of the token; binaryOp, by the operator       *)

PushOperand ==
  /\ \/ /\ token.type = "VALUE"
        /\ postFixStack' = Append(postFixStack, token.value)
        /\ UNCHANGED symbolStack
     \/ /\ token.type = "SYMBOL"
        /\ symbolStack' = Append(symbolStack, token.name)
        /\ UNCHANGED postFixStack
  /\ token' = NoToken
  /\ UNCHANGED <<rules, line, expression, opStack, symbolMap, outcomes>>

IsOperator(type) == type \in TokenTypes \ {"CPAREN", "none"}

\* Whether the operator on top is to be applied before the token is used.
ReducedBy(top, type) ==
  \/ type = "CPAREN" /\ top \notin {"OPAREN", "EOL"}
  \/ IsOperator(type) /\ InputSymbol(type) <= TopOfStack(top)
Reduces == ReducedBy(Top(opStack), token.type)

\* A parenthesis that the end of the expression finds open.
DropParenthesis ==
  /\ Reduces /\ Top(opStack) = "OPAREN"
  /\ opStack' = Pop(opStack)
  /\ UNCHANGED <<rules, line, expression, token, postFixStack, symbolStack,
                 symbolMap, outcomes>>

\* Mutant: the operator remains on the stack.
ApplyMutant ==
  /\ Reduces /\ Top(opStack) \in Binary
  /\ LET rest == PopValue(postFixStack) IN
       postFixStack' =
         Append(PopValue(rest),
                Result(Top(opStack), TopValue(rest), TopValue(postFixStack)))
  /\ UNCHANGED <<rules, line, expression, token, opStack, symbolStack, symbolMap,
                 outcomes>>

\* The right operand is on top of the left one.
Apply ==
  /\ Reduces /\ Top(opStack) \in Binary
  /\ LET rest == PopValue(postFixStack) IN
       postFixStack' =
         Append(PopValue(rest),
                Result(Top(opStack), TopValue(rest), TopValue(postFixStack)))
  /\ opStack' = Pop(opStack)
  /\ UNCHANGED <<rules, line, expression, token, symbolStack, symbolMap, outcomes>>

\* An insertion in the map: a name keeps the value it has.
Define ==
  /\ Reduces /\ Top(opStack) = "DEFINED_AS" /\ symbolStack # <<>>
  /\ LET name == Top(symbolStack)
         rhs == TopValue(postFixStack)
     IN /\ IF name \in DOMAIN symbolMap THEN UNCHANGED symbolMap
           ELSE Assign(name, rhs)
        /\ postFixStack' = Append(PopValue(postFixStack), rhs)
  /\ symbolStack' = Pop(symbolStack)
  /\ opStack' = Pop(opStack)
  /\ UNCHANGED <<rules, line, expression, token, outcomes>>

\* A name to define is missing, for instance because the word was a value:
\* getTopSymbol makes a string of a null pointer, which throws.  The
\* Orchestrator takes it for a condition that holds.  The stacks stay.
Throw ==
  /\ Reduces /\ Top(opStack) = "DEFINED_AS" /\ symbolStack = <<>>
  /\ EndRule(1)
  /\ line' = <<>> /\ expression' = <<>> /\ token' = NoToken
  /\ UNCHANGED <<stacks, symbolMap>>

\* Mutant: what is on top is popped, whatever it is.
CloseParenthesisMutant ==
  /\ token.type = "CPAREN" /\ ~Reduces
  /\ opStack' = Pop(opStack)
  /\ token' = NoToken
  /\ UNCHANGED <<rules, line, expression, postFixStack, symbolStack, symbolMap,
                 outcomes>>

CloseParenthesis ==
  /\ token.type = "CPAREN" /\ ~Reduces
  /\ opStack' = IF Top(opStack) = "OPAREN" THEN Pop(opStack) ELSE opStack
  /\ token' = NoToken
  /\ UNCHANGED <<rules, line, expression, postFixStack, symbolStack, symbolMap,
                 outcomes>>

PushOperator ==
  /\ IsOperator(token.type) /\ token.type # "EOL" /\ ~Reduces
  /\ opStack' = Append(opStack, token.type)
  /\ token' = NoToken
  /\ UNCHANGED <<rules, line, expression, postFixStack, symbolStack, symbolMap,
                 outcomes>>

\* The end of eval: its result is the value on top, and that of "_".  What
\* comes after the EOL (a line break, or a character over 126) is not read.
EndExpression ==
  /\ token.type = "EOL" /\ ~Reduces
  /\ postFixStack' = PopValue(postFixStack)
  /\ Assign(LastValue, TopValue(postFixStack))
  /\ expression' = <<>> /\ token' = NoToken
  /\ IF line = <<>> THEN EndRule(TopValue(postFixStack))
     ELSE UNCHANGED <<rules, outcomes>>
  /\ UNCHANGED <<line, opStack, symbolStack>>

ProcessToken ==
  \/ PushOperand
  \/ CloseParenthesis
  \/ PushOperator
  \/ EndExpression

BinaryOp ==
  \/ DropParenthesis
  \/ Apply
  \/ Define
  \/ Throw

Next ==
  \/ StartRule
  \/ NextExpression
  \/ GetToken
  \/ ProcessToken
  \/ BinaryOp

Spec == Init /\ [][Next]_vars
FairSpec == Spec /\ WF_vars(Next)

-----------------------------------------------------------------------------
(* Properties                                                              *)

\* The types, but for the values of expressions, and the bottom of the stack of
\* operators: it is an EOL, there from the start of a rule, so that top() is
\* never called on an empty stack, whatever the text of the condition.
OnStack == Binary \cup {"EOL", "OPAREN", "DEFINED_AS"}
TypeOK ==
  /\ rules \in Seq(Rules)
  /\ line \in Seq(Seq(Token))
  /\ expression \in Seq(Token)
  /\ token.type \in TokenTypes \cup {"VALUE", "SYMBOL"}
  /\ token.type = "SYMBOL" => token.name \in Names \cup {LastValue}
  /\ opStack \in Seq(OnStack)
  /\ symbolStack \in Seq(Names \cup {LastValue})
  /\ DOMAIN symbolMap \subseteq Names \cup {LastValue}
  /\ opStack # <<>> => opStack[1] = "EOL"
  /\ ~Idle \/ line # <<>> => rules # <<>> /\ opStack # <<>>

\* A well-formed condition, whose parentheses leave no doubt of the levels of
\* its operators, has the value it means, whatever was evaluated with the same
\* stacks before it: a malformed condition, or one that was left in the middle
\* by an exception, does not change the result of the next rule.
RightValue ==
  \A i \in 1 .. Len(outcomes) :
    LET reading == Reading[outcomes[i].rule]
    IN reading # <<>> => outcomes[i].value = Meaning(reading)

\* All rules are evaluated in the end: no text makes the parser loop.
EvaluationEnds == <>(rules = <<>>)
=============================================================================
