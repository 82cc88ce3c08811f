-------------------------- MODULE ConditionsProofs --------------------------
(***************************************************************************)
(* For any names and rules: the evaluator never looks at the top of an     *)
(* empty stack of operators, and a condition that is well formed gets the  *)
(* value it means.                                                         *)
(*                                                                         *)
(* The second is about texts of any length and depth.  States of the       *)
(* evaluator within an expression are records; LeadTo(f, U) is the least   *)
(* set of states of U that has f and every state whose step leads into the *)
(* set.  That an expression is read as its value is proved backwards, from *)
(* the state after it to the one before, part by part of its reading.  The *)
(* invariant is that the evaluator's state leads to the right end of its   *)
(* expression: as its steps are determined, it gets there or goes on.      *)
(***************************************************************************)
EXTENDS Conditions, SequenceTheorems, WellFoundedInduction, TLAPS

\* What is pushed on a sequence, and popped from it.
LEMMA Pushed ==
  ASSUME NEW S, NEW s \in Seq(S), NEW e \in S
  PROVE  /\ Append(s, e) \in Seq(S)
         /\ Append(s, e) # <<>>
         /\ s = <<>> => Append(s, e)[1] = e
         /\ s # <<>> => Append(s, e)[1] = s[1]
OBVIOUS

LEMMA Popped ==
  ASSUME NEW S, NEW s \in Seq(S), s # <<>>
  PROVE  /\ Top(s) \in S
         /\ Pop(s) \in Seq(S)
         /\ Top(s) # s[1] => Pop(s) # <<>> /\ Pop(s)[1] = s[1]
<1>1. Len(s) \in Nat /\ Len(s) > 0
  OBVIOUS
<1>2. /\ Pop(s) \in Seq(S)
      /\ Len(Pop(s)) = Len(s) - 1
      /\ \A i \in 1 .. Len(s) - 1 : Pop(s)[i] = s[i]
  <2> DEFINE n == Len(s) - 1
  <2>1. n \in Nat /\ \A i \in 1 .. n : s[i] \in S
    BY <1>1
  <2>2. /\ Pop(s) \in Seq(S)
        /\ Len(Pop(s)) = IF 1 <= n THEN n - 1 + 1 ELSE 0
        /\ \A i \in 1 .. n - 1 + 1 : Pop(s)[i] = s[1 + i - 1]
    BY <2>1, SubSeqProperties DEF Pop
  <2>3. n - 1 + 1 = n /\ (1 <= n \/ n = 0)
    <3>1. \A k \in Nat : k - 1 + 1 = k /\ (1 <= k \/ k = 0)
      OBVIOUS
    <3> HIDE DEF n
    <3> QED
      BY <2>1, <3>1
  <2>4. \A i \in 1 .. n : 1 + i - 1 = i
    BY <1>1, <2>1
  <2> QED
    BY <2>2, <2>3, <2>4
<1>3. ASSUME Top(s) # s[1] PROVE Pop(s) # <<>> /\ Pop(s)[1] = s[1]
  <2>1. Len(s) > 1
    BY <1>1, <1>3 DEF Top
  <2> QED
    BY <1>1, <1>2, <2>1
<1> QED
  BY <1>1, <1>2, <1>3 DEF Top

\* The stack of operators under its top, if that is not an EOL.
Based(s) == s \in Seq(OnStack) /\ s # <<>> /\ s[1] = "EOL"

LEMMA OperatorsPopped ==
  ASSUME NEW s, Based(s), Top(s) # "EOL"
  PROVE  Based(Pop(s))
BY Popped DEF Based

LEMMA TypeInit == Init => TypeOK
<1> SUFFICES ASSUME Init PROVE TypeOK
  OBVIOUS
<1>1. rules \in Seq(Rules)
  BY ConditionsAssumption DEF Init
<1>2. token.type \in TokenTypes /\ token.type # "SYMBOL"
  BY DEF Init, NoToken, Op, TokenTypes
<1> QED
  BY <1>1, <1>2 DEF Init, TypeOK, Idle

\* Between the start of a rule and its end there is an operator on the stack.
LEMMA Reducing ==
  ASSUME TypeOK, token # NoToken
  PROVE  Based(opStack) /\ rules # <<>>
BY DEF TypeOK, Idle, Based

LEMMA Busy ==
  ASSUME token.type # "none" PROVE token # NoToken
BY DEF NoToken, Op

LEMMA TypeNext == TypeOK /\ [Next]_vars => TypeOK'
<1> SUFFICES ASSUME TypeOK, [Next]_vars PROVE TypeOK'
  OBVIOUS
<1>1. CASE StartRule
  <2>1. Head(rules) \in Rules
    BY <1>1 DEF StartRule, TypeOK
  <2>2. line' \in Seq(Seq(Token))
    BY <1>1, <2>1, ConditionsAssumption DEF StartRule
  <2>3. "EOL" \in OnStack
    BY DEF OnStack
  <2>4. Based(opStack')
    BY <1>1, <2>3, Pushed DEF StartRule, TypeOK, Based
  <2>5. DOMAIN symbolMap' = {}
    BY <1>1 DEF StartRule
  <2> QED
    BY <1>1, <2>2, <2>4, <2>5 DEF StartRule, TypeOK, Based
<1>2. CASE NextExpression
  <2>1. Head(line) \in Seq(Token) /\ Tail(line) \in Seq(Seq(Token))
    BY <1>2 DEF NextExpression, TypeOK
  <2>2. Op("EOL") \in Token
    BY DEF Token, TokenTypes, Op
  <2>3. expression' \in Seq(Token)
    BY <1>2, <2>1, <2>2, Pushed DEF NextExpression
  <2>4. Based(opStack)
    BY <1>2 DEF NextExpression, TypeOK, Based
  <2> QED
    BY <1>2, <2>1, <2>3, <2>4 DEF NextExpression, TypeOK, stacks, Based
<1>3. CASE GetToken
  <2> DEFINE next == Head(expression)
  <2>1. next \in Token /\ Tail(expression) \in Seq(Token)
    BY <1>3 DEF GetToken, TypeOK
  <2>2. next.type = "WORD" => next.name \in Names \cup {LastValue}
    BY <2>1 DEF Token, TokenTypes, Binary
  <2>3. next.type # "WORD" => next.type \in TokenTypes \cup {"VALUE", "SYMBOL"}
    BY <2>1 DEF Token
  <2>4. next.type = "SYMBOL" => next.name \in Names \cup {LastValue}
    BY <2>1 DEF Token, TokenTypes, Binary
  <2>5. CASE next.type # "WORD"
    <3>1. token' = next
      BY <1>3, <2>5 DEF GetToken
    <3> QED
      BY <1>3, <2>1, <2>3, <2>4, <2>5, <3>1 DEF GetToken, TypeOK, stacks, Idle
  <2>6. CASE next.type = "WORD"
    <3>1. /\ token'.type \in {"VALUE", "SYMBOL"}
          /\ token'.type = "SYMBOL" => token'.name = next.name
      BY <1>3, <2>6 DEF GetToken, Number, Symbol
    <3> QED
      BY <1>3, <2>1, <2>2, <2>6, <3>1 DEF GetToken, TypeOK, stacks, Idle
  <2> QED
    BY <2>5, <2>6
<1>4. CASE PushOperand
  <2>1. Based(opStack) /\ rules # <<>>
    <3>1. token.type # "none"
      BY <1>4 DEF PushOperand
    <3> QED
      BY <3>1, Reducing, Busy
  <2>2. symbolStack' \in Seq(Names \cup {LastValue})
    <3>1. CASE token.type = "SYMBOL"
      <4>1. token.name \in Names \cup {LastValue}
        BY <3>1 DEF TypeOK
      <4>2. Append(symbolStack, token.name) \in Seq(Names \cup {LastValue})
        BY <4>1, Pushed DEF TypeOK
      <4> QED
        BY <1>4, <3>1, <4>2 DEF PushOperand
    <3>2. CASE token.type # "SYMBOL"
      <4>1. symbolStack' = symbolStack
        BY <1>4, <3>2 DEF PushOperand
      <4> QED
        BY <4>1 DEF TypeOK
    <3> QED
      BY <3>1, <3>2
  <2>3. token'.type \in TokenTypes /\ token'.type # "SYMBOL"
    BY <1>4 DEF PushOperand, NoToken, Op, TokenTypes
  <2> QED
    BY <1>4, <2>1, <2>2, <2>3 DEF PushOperand, TypeOK, Based
<1>5. NoToken.type \in TokenTypes /\ NoToken.type # "SYMBOL"
  BY DEF NoToken, Op, TokenTypes
<1>6. CASE CloseParenthesis
  <2>1. Based(opStack) /\ rules # <<>>
    BY <1>6, Reducing, Busy DEF CloseParenthesis
  <2>2. Based(opStack')
    BY <1>6, <2>1, OperatorsPopped DEF CloseParenthesis
  <2> QED
    BY <1>5, <1>6, <2>1, <2>2 DEF CloseParenthesis, TypeOK, Based
<1>7. CASE PushOperator
  <2>1. token.type \in OnStack
    BY <1>7 DEF PushOperator, IsOperator, TokenTypes, OnStack
  <2>2. token.type # "none"
    BY <1>7 DEF PushOperator, IsOperator
  <2>3. Based(opStack) /\ rules # <<>>
    BY <2>2, Reducing, Busy
  <2>4. Based(opStack')
    BY <1>7, <2>1, <2>3, Pushed DEF PushOperator, Based
  <2> QED
    BY <1>5, <1>7, <2>3, <2>4 DEF PushOperator, TypeOK, Based
<1>8. CASE EndExpression
  <2>1. Based(opStack)
    BY <1>8, Reducing, Busy DEF EndExpression
  <2>2. rules # <<>>
    BY <1>8, Reducing, Busy DEF EndExpression
  <2>3. rules' \in Seq(Rules) /\ (line # <<>> => rules' = rules)
    <3>1. Tail(rules) \in Seq(Rules)
      BY <2>2 DEF TypeOK
    <3>2. rules' \in {rules, Tail(rules)} /\ (line # <<>> => rules' = rules)
      BY <1>8 DEF EndExpression, EndRule
    <3> QED
      BY <3>1, <3>2 DEF TypeOK
  <2>4. DOMAIN symbolMap' \subseteq Names \cup {LastValue}
    <3>1. DOMAIN symbolMap' = DOMAIN symbolMap \cup {LastValue}
      BY <1>8 DEF EndExpression, Assign, With
    <3> QED
      BY <3>1 DEF TypeOK
  <2> QED
    BY <1>5, <1>8, <2>1, <2>2, <2>3, <2>4 DEF EndExpression, TypeOK, Based, Idle
<1>9. ASSUME Reduces PROVE Based(opStack) /\ rules # <<>>
  <2>1. token.type # "none"
    BY <1>9 DEF Reduces, ReducedBy, IsOperator
  <2> QED
    BY <2>1, Busy, Reducing
<1>10. CASE DropParenthesis
  <2>1. Based(opStack')
    BY <1>9, <1>10, OperatorsPopped DEF DropParenthesis
  <2> QED
    BY <1>9, <1>10, <2>1 DEF DropParenthesis, TypeOK, Based
<1>11. CASE Apply
  <2>1. Top(opStack) # "EOL"
    BY <1>11 DEF Apply, Binary
  <2>2. Based(opStack')
    BY <1>9, <1>11, <2>1, OperatorsPopped DEF Apply
  <2> QED
    BY <1>9, <1>11, <2>2 DEF Apply, TypeOK, Based
<1>12. CASE Define
  <2>1. Based(opStack')
    BY <1>9, <1>12, OperatorsPopped DEF Define
  <2>2. /\ Top(symbolStack) \in Names \cup {LastValue}
        /\ symbolStack' \in Seq(Names \cup {LastValue})
    BY <1>12, Popped DEF Define, TypeOK
  <2>3. DOMAIN symbolMap' \subseteq Names \cup {LastValue}
    BY <1>12, <2>2 DEF Define, Assign, With, TypeOK
  <2> QED
    BY <1>9, <1>12, <2>1, <2>2, <2>3 DEF Define, TypeOK, Based
<1>13. CASE Throw
  <2>1. Based(opStack)
    BY <1>9, <1>13 DEF Throw
  <2>2. rules' \in Seq(Rules)
    BY <1>9, <1>13 DEF Throw, EndRule, TypeOK
  <2> QED
    BY <1>5, <1>13, <2>1, <2>2 DEF Throw, TypeOK, stacks, Based, Idle
<1>14. CASE UNCHANGED vars
  BY <1>14 DEF vars, TypeOK, Idle
<1> QED
  BY <1>1, <1>2, <1>3, <1>4, <1>6, <1>7, <1>8, <1>10, <1>11, <1>12, <1>13, <1>14
  DEF Next, ProcessToken, BinaryOp

\* No text of a condition, no name defined twice and no exception on the way
\* empties the stack of operators under the evaluator, for any number of rules.
THEOREM StackHasBottom == Spec => []TypeOK
BY TypeInit, TypeNext, PTL DEF Spec

-----------------------------------------------------------------------------
(* Sequences                                                               *)

LEMMA InFront ==
  ASSUME NEW S, NEW a \in S, NEW s \in Seq(S)
  PROVE  /\ <<a>> \in Seq(S)
         /\ <<a>> \o s \in Seq(S)
         /\ <<a>> \o s # <<>>
         /\ Head(<<a>> \o s) = a
         /\ Tail(<<a>> \o s) = s
<1>1. /\ <<a>> \in Seq(S) /\ Len(<<a>>) = 1 /\ <<a>>[1] = a
  OBVIOUS
<1> DEFINE t == <<a>> \o s
<1>2. /\ t \in Seq(S) /\ Len(t) = 1 + Len(s)
      /\ \A i \in 1 .. 1 + Len(s) : t[i] = IF i <= 1 THEN a ELSE s[i - 1]
  BY <1>1, ConcatProperties
<1>3. Len(s) \in Nat
  OBVIOUS
<1> HIDE DEF t
<1>4. t # <<>> /\ Head(t) = a
  BY <1>2, <1>3
<1>5. /\ Tail(t) \in Seq(S) /\ Len(Tail(t)) = Len(s)
      /\ \A i \in 1 .. Len(s) : Tail(t)[i] = t[i + 1]
  BY <1>2, <1>3, <1>4, HeadTailProperties
<1>6. \A i \in 1 .. Len(s) : Tail(t)[i] = s[i]
  BY <1>2, <1>3, <1>5
<1>7. Tail(t) = s
  BY <1>5, <1>6, SeqEqual
<1> QED
  BY <1>1, <1>2, <1>4, <1>7 DEF t

\* A name for the association of four sequences: the provers rewrite the
\* concatenations of a fact that they are to match.
Associates(a, b, c, d) == ((a \o b) \o c) \o d = a \o (b \o (c \o d))

LEMMA Joined ==
  ASSUME NEW S, NEW a \in Seq(S), NEW b \in Seq(S), NEW c \in Seq(S), NEW d \in Seq(S)
  PROVE  Associates(a, b, c, d)
BY DEF Associates

LEMMA Stacked ==
  ASSUME NEW S, NEW s \in Seq(S), NEW e \in S
  PROVE  /\ Append(s, e) \in Seq(S)
         /\ Append(s, e) # <<>>
         /\ Top(Append(s, e)) = e
         /\ Pop(Append(s, e)) = s
<1> DEFINE t == Append(s, e)
<1>1. /\ t \in Seq(S) /\ Len(t) = Len(s) + 1 /\ t # <<>>
      /\ \A i \in 1 .. Len(s) : t[i] = s[i]
      /\ t[Len(s) + 1] = e
      /\ Len(s) \in Nat
  OBVIOUS
<1>2. Pop(t) = SubSeq(t, 1, Len(s))
  BY <1>1 DEF Pop
<1>3. /\ SubSeq(t, 1, Len(s)) \in Seq(S)
      /\ Len(SubSeq(t, 1, Len(s))) = IF 1 <= Len(s) THEN Len(s) - 1 + 1 ELSE 0
      /\ \A i \in 1 .. Len(s) - 1 + 1 : SubSeq(t, 1, Len(s))[i] = t[1 + i - 1]
  <2> HIDE DEF t
  <2>1. \A i \in 1 .. Len(s) : t[i] \in S
    BY <1>1
  <2> QED
    BY <1>1, <2>1, SubSeqProperties
<1> HIDE DEF t
<1>4. Len(SubSeq(t, 1, Len(s))) = Len(s)
  <2>1. \A n \in Nat : n - 1 + 1 = n /\ (1 <= n \/ n = 0)
    OBVIOUS
  <2> QED
    BY <1>1, <1>3, <2>1
<1>5. \A i \in 1 .. Len(s) : SubSeq(t, 1, Len(s))[i] = s[i]
  <2>1. \A n \in Nat : \A i \in 1 .. n : 1 + i - 1 = i /\ i \in 1 .. n - 1 + 1
    OBVIOUS
  <2> QED
    BY <1>1, <1>3, <2>1
<1>6. SubSeq(t, 1, Len(s)) = s
  BY <1>3, <1>4, <1>5, SeqEqual
<1> QED
  BY <1>1, <1>2, <1>6 DEF t, Top

-----------------------------------------------------------------------------
(* The evaluator within an expression: its states, and what follows each   *)

State(tok, text, ops, values, symbols, map) ==
  [token |-> tok, expression |-> text, ops |-> ops, values |-> values,
   symbols |-> symbols, map |-> map]

Now == State(token, expression, opStack, postFixStack, symbolStack, symbolMap)

AnyName == Names \cup {LastValue}
Tokens(W) ==
  {Op(t) : t \in TokenTypes} \cup {Number(w) : w \in W} \cup {Symbol(n) : n \in AnyName}

\* The values are in W, which need not be a set of numbers: what a malformed
\* condition leaves on the stacks is never looked at.
States(W, M) ==
  [token : Tokens(W), expression : Seq(Token), ops : Seq(OnStack),
   values : Seq(W), symbols : Seq(AnyName), map : M]

AsRead(next, map) ==
  IF next.type # "WORD" THEN next
  ELSE IF next.name \in DOMAIN map THEN Number(map[next.name]) ELSE Symbol(next.name)

\* The actions GetToken, ProcessToken and BinaryOp but for EndExpression and
\* Throw: at most one of them is possible.
Moves(x) ==
  \/ x.token = NoToken /\ x.expression # <<>>
  \/ x.token.type \in {"VALUE", "SYMBOL"}
  \/ /\ ReducedBy(Top(x.ops), x.token.type)
     /\ \/ Top(x.ops) \in Binary \cup {"OPAREN"}
        \/ Top(x.ops) = "DEFINED_AS" /\ x.symbols # <<>>
  \/ /\ ~ReducedBy(Top(x.ops), x.token.type)
     /\ \/ x.token.type = "CPAREN"
        \/ IsOperator(x.token.type) /\ x.token.type # "EOL"

After(x) ==
  LET rest == PopValue(x.values)
      name == Top(x.symbols)
      rhs == TopValue(x.values)
  IN IF x.token = NoToken
     THEN State(AsRead(Head(x.expression), x.map), Tail(x.expression), x.ops, x.values,
                x.symbols, x.map)
     ELSE IF x.token.type = "VALUE"
     THEN State(NoToken, x.expression, x.ops, Append(x.values, x.token.value),
                x.symbols, x.map)
     ELSE IF x.token.type = "SYMBOL"
     THEN State(NoToken, x.expression, x.ops, x.values,
                Append(x.symbols, x.token.name), x.map)
     ELSE IF ReducedBy(Top(x.ops), x.token.type)
     THEN IF Top(x.ops) = "OPAREN"
          THEN State(x.token, x.expression, Pop(x.ops), x.values, x.symbols, x.map)
          ELSE IF Top(x.ops) \in Binary
          THEN State(x.token, x.expression, Pop(x.ops),
                     Append(PopValue(rest), Result(Top(x.ops), TopValue(rest), rhs)),
                     x.symbols, x.map)
          ELSE State(x.token, x.expression, Pop(x.ops), Append(rest, rhs),
                     Pop(x.symbols),
                     IF name \in DOMAIN x.map THEN x.map ELSE With(x.map, name, rhs))
     ELSE IF x.token.type = "CPAREN"
     THEN State(NoToken, x.expression,
                IF Top(x.ops) = "OPAREN" THEN Pop(x.ops) ELSE x.ops,
                x.values, x.symbols, x.map)
     ELSE State(NoToken, x.expression, Append(x.ops, x.token.type), x.values,
                x.symbols, x.map)

\* A set with all the states of U that lead into it, and the states of U that
\* lead to f: the least such set that has f.
Closed(G, U) == \A x \in U : Moves(x) /\ After(x) \in G => x \in G
LeadTo(f, U) == {x \in U : \A G \in SUBSET U : Closed(G, U) /\ f \in G => x \in G}

\* What leads to f but is not f moves on, to something that leads to f.
LEMMA Onward ==
  ASSUME NEW U, NEW f \in U, NEW x \in LeadTo(f, U), x # f
  PROVE  Moves(x) /\ After(x) \in LeadTo(f, U)
<1> DEFINE L == LeadTo(f, U)
           G == {f} \cup {z \in U : Moves(z) /\ After(z) \in L}
<1>1. L \in SUBSET U /\ f \in L
  BY DEF LeadTo
<1>2. Closed(L, U)
  <2> SUFFICES ASSUME NEW z \in U, Moves(z), After(z) \in L,
                      NEW H \in SUBSET U, Closed(H, U), f \in H
               PROVE  z \in H
    BY DEF Closed, LeadTo
  <2>1. After(z) \in H
    BY DEF LeadTo
  <2> QED
    BY <2>1 DEF Closed
<1>3. G \subseteq L
  BY <1>1, <1>2 DEF Closed
<1>4. Closed(G, U)
  BY <1>3 DEF Closed
<1>5. x \in G
  <2>1. G \in SUBSET U /\ f \in G
    OBVIOUS
  <2> QED
    BY <1>4, <2>1 DEF LeadTo
<1> QED
  BY <1>5

LEMMA LeadsBack ==
  ASSUME NEW U, NEW f \in U
  PROVE  /\ f \in LeadTo(f, U)
         /\ LeadTo(f, U) \subseteq U
         /\ Closed(LeadTo(f, U), U)
<1> SUFFICES ASSUME NEW z \in U, Moves(z), After(z) \in LeadTo(f, U),
                    NEW H \in SUBSET U, Closed(H, U), f \in H
             PROVE  z \in H
  BY DEF Closed, LeadTo
<1>1. After(z) \in H
  BY DEF LeadTo
<1> QED
  BY <1>1 DEF Closed

-----------------------------------------------------------------------------
(* The evaluator's steps, each from what it leads to                       *)

LEMMA Kinds ==
  /\ Binary \subseteq TokenTypes /\ Binary \subseteq OnStack
  /\ {"EOL", "OPAREN", "CPAREN", "DEFINED_AS", "none"} \subseteq TokenTypes
  /\ {"EOL", "OPAREN", "DEFINED_AS"} \subseteq OnStack
  /\ Binary \cap {"EOL", "OPAREN", "CPAREN", "DEFINED_AS", "none", "VALUE",
                  "SYMBOL", "WORD"} = {}
  /\ LastValue \in AnyName
BY DEF Binary, TokenTypes, OnStack, AnyName

LEMMA OpIs ==
  ASSUME NEW t
  PROVE  /\ Op(t).type = t
         /\ t # "none" => Op(t) # NoToken
         /\ t \in TokenTypes => Op(t) \in Token
<1>1. Op(t).type = t /\ NoToken.type = "none"
  BY DEF Op, NoToken
<1>2. t \in TokenTypes => Op(t) \in Token
  BY DEF Op, Token
<1> QED
  BY <1>1, <1>2

LEMMA InStates ==
  ASSUME NEW W, NEW M, NEW tok \in Tokens(W), NEW text \in Seq(Token),
         NEW ops \in Seq(OnStack), NEW values \in Seq(W), NEW symbols \in Seq(AnyName),
         NEW map \in M
  PROVE  State(tok, text, ops, values, symbols, map) \in States(W, M)
BY DEF State, States

\* GetToken.
LEMMA Gets ==
  ASSUME NEW W, NEW M, NEW G, Closed(G, States(W, M)),
         NEW a \in Token, NEW text \in Seq(Token), NEW ops \in Seq(OnStack),
         NEW values \in Seq(W), NEW symbols \in Seq(AnyName), NEW map \in M,
         State(AsRead(a, map), text, ops, values, symbols, map) \in G
  PROVE  State(NoToken, <<a>> \o text, ops, values, symbols, map) \in G
<1> DEFINE x == State(NoToken, <<a>> \o text, ops, values, symbols, map)
<1>1. /\ <<a>> \o text \in Seq(Token) /\ <<a>> \o text # <<>>
      /\ Head(<<a>> \o text) = a /\ Tail(<<a>> \o text) = text
  BY InFront
<1>2. NoToken \in Tokens(W)
  BY Kinds DEF Tokens, NoToken
<1>3. x \in States(W, M)
  BY <1>1, <1>2, InStates
<1>a. /\ x.token = NoToken /\ x.expression = <<a>> \o text /\ x.ops = ops
      /\ x.values = values /\ x.symbols = symbols /\ x.map = map
  BY DEF State
<1> HIDE DEF x
<1>4. Moves(x)
  BY <1>1, <1>a DEF Moves
<1>5. After(x) = State(AsRead(a, map), text, ops, values, symbols, map)
  BY <1>1, <1>a DEF After
<1> QED
  BY <1>3, <1>4, <1>5 DEF Closed, x

\* PushOperand, of a value and of a symbol.
LEMMA PushesValue ==
  ASSUME NEW W, NEW M, NEW G, Closed(G, States(W, M)),
         NEW w \in W, NEW text \in Seq(Token), NEW ops \in Seq(OnStack),
         NEW values \in Seq(W), NEW symbols \in Seq(AnyName), NEW map \in M,
         State(NoToken, text, ops, Append(values, w), symbols, map) \in G
  PROVE  State(Number(w), text, ops, values, symbols, map) \in G
<1> DEFINE x == State(Number(w), text, ops, values, symbols, map)
<1>1. /\ Number(w) \in Tokens(W) /\ Number(w).type = "VALUE" /\ Number(w).value = w
      /\ Number(w) # NoToken
  BY DEF Tokens, Number, NoToken, Op
<1>2. x \in States(W, M)
  BY <1>1, InStates
<1>a. /\ x.token = Number(w) /\ x.expression = text /\ x.ops = ops
      /\ x.values = values /\ x.symbols = symbols /\ x.map = map
  BY DEF State
<1> HIDE DEF x
<1>3. Moves(x)
  BY <1>1, <1>a DEF Moves
<1>4. After(x) = State(NoToken, text, ops, Append(values, w), symbols, map)
  BY <1>1, <1>a DEF After
<1> QED
  BY <1>2, <1>3, <1>4 DEF Closed, x

LEMMA PushesSymbol ==
  ASSUME NEW W, NEW M, NEW G, Closed(G, States(W, M)),
         NEW n \in AnyName, NEW text \in Seq(Token), NEW ops \in Seq(OnStack),
         NEW values \in Seq(W), NEW symbols \in Seq(AnyName), NEW map \in M,
         State(NoToken, text, ops, values, Append(symbols, n), map) \in G
  PROVE  State(Symbol(n), text, ops, values, symbols, map) \in G
<1> DEFINE x == State(Symbol(n), text, ops, values, symbols, map)
<1>1. /\ Symbol(n) \in Tokens(W) /\ Symbol(n).type = "SYMBOL" /\ Symbol(n).name = n
      /\ Symbol(n) # NoToken
  BY DEF Tokens, Symbol, NoToken, Op
<1>2. x \in States(W, M)
  BY <1>1, InStates
<1>a. /\ x.token = Symbol(n) /\ x.expression = text /\ x.ops = ops
      /\ x.values = values /\ x.symbols = symbols /\ x.map = map
  BY DEF State
<1> HIDE DEF x
<1>3. Moves(x)
  BY <1>1, <1>a DEF Moves
<1>4. After(x) = State(NoToken, text, ops, values, Append(symbols, n), map)
  BY <1>1, <1>a DEF After
<1> QED
  BY <1>2, <1>3, <1>4 DEF Closed, x

\* PushOperator.
LEMMA PushesOperator ==
  ASSUME NEW W, NEW M, NEW G, Closed(G, States(W, M)),
         NEW t \in Binary \cup {"OPAREN", "DEFINED_AS"}, NEW text \in Seq(Token),
         NEW ops \in Seq(OnStack),
         NEW values \in Seq(W), NEW symbols \in Seq(AnyName), NEW map \in M,
         ~ReducedBy(Top(ops), t),
         State(NoToken, text, Append(ops, t), values, symbols, map) \in G
  PROVE  State(Op(t), text, ops, values, symbols, map) \in G
<1> DEFINE x == State(Op(t), text, ops, values, symbols, map)
<1>1. /\ Op(t) \in Tokens(W) /\ Op(t).type = t /\ Op(t) # NoToken
      /\ t \notin {"VALUE", "SYMBOL", "CPAREN", "EOL"} /\ IsOperator(t)
  BY Kinds, OpIs DEF Tokens, IsOperator
<1>2. x \in States(W, M)
  BY <1>1, InStates
<1>a. /\ x.token = Op(t) /\ x.expression = text /\ x.ops = ops
      /\ x.values = values /\ x.symbols = symbols /\ x.map = map
  BY DEF State
<1> HIDE DEF x
<1>3. Moves(x)
  BY <1>1, <1>a DEF Moves
<1>4. After(x) = State(NoToken, text, Append(ops, t), values, symbols, map)
  BY <1>1, <1>a DEF After
<1> QED
  BY <1>2, <1>3, <1>4 DEF Closed, x

\* CloseParenthesis, of one that is open.
LEMMA Closes ==
  ASSUME NEW W, NEW M, NEW G, Closed(G, States(W, M)),
         NEW text \in Seq(Token), NEW ops \in Seq(OnStack),
         NEW values \in Seq(W), NEW symbols \in Seq(AnyName), NEW map \in M,
         State(NoToken, text, ops, values, symbols, map) \in G
  PROVE  State(Op("CPAREN"), text, Append(ops, "OPAREN"), values, symbols, map) \in G
<1> DEFINE x == State(Op("CPAREN"), text, Append(ops, "OPAREN"), values, symbols, map)
<1>1. /\ Op("CPAREN") \in Tokens(W) /\ Op("CPAREN").type = "CPAREN"
      /\ Op("CPAREN") # NoToken
  BY Kinds, OpIs DEF Tokens
<1>2. /\ Append(ops, "OPAREN") \in Seq(OnStack)
      /\ Top(Append(ops, "OPAREN")) = "OPAREN" /\ Pop(Append(ops, "OPAREN")) = ops
  BY Kinds, Stacked
<1>3. x \in States(W, M)
  BY <1>1, <1>2, InStates
<1>4. ~ReducedBy("OPAREN", "CPAREN")
  BY DEF ReducedBy, IsOperator
<1>a. /\ x.token = Op("CPAREN") /\ x.expression = text /\ x.ops = Append(ops, "OPAREN")
      /\ x.values = values /\ x.symbols = symbols /\ x.map = map
  BY DEF State
<1> HIDE DEF x
<1>5. Moves(x)
  BY <1>1, <1>2, <1>4, <1>a DEF Moves
<1>6. After(x) = State(NoToken, text, ops, values, symbols, map)
  BY <1>1, <1>2, <1>4, <1>a DEF After
<1> QED
  BY <1>3, <1>5, <1>6 DEF Closed, x

\* Apply, to two operands.
LEMMA Applies ==
  ASSUME NEW W, NEW M, NEW G, Closed(G, States(W, M)),
         NEW t \in Binary \cup {"EOL", "CPAREN"}, NEW op \in Binary, ReducedBy(op, t),
         NEW lhs \in W, NEW rhs \in W,
         NEW text \in Seq(Token), NEW ops \in Seq(OnStack),
         NEW values \in Seq(W), NEW symbols \in Seq(AnyName), NEW map \in M,
         State(Op(t), text, ops, Append(values, Result(op, lhs, rhs)), symbols, map) \in G
  PROVE  State(Op(t), text, Append(ops, op), Append(Append(values, lhs), rhs), symbols,
               map) \in G
<1> DEFINE two == Append(Append(values, lhs), rhs)
           x == State(Op(t), text, Append(ops, op), two, symbols, map)
<1>1. /\ Op(t) \in Tokens(W) /\ Op(t).type = t /\ Op(t) # NoToken
      /\ t \notin {"VALUE", "SYMBOL"}
  BY Kinds, OpIs DEF Tokens
<1>2. /\ Append(ops, op) \in Seq(OnStack)
      /\ Top(Append(ops, op)) = op /\ Pop(Append(ops, op)) = ops
  BY Kinds, Stacked
<1>3. /\ Append(values, lhs) \in Seq(W)
      /\ PopValue(Append(values, lhs)) = values /\ TopValue(Append(values, lhs)) = lhs
  BY Stacked DEF PopValue, TopValue
<1>4. /\ two \in Seq(W)
      /\ PopValue(two) = Append(values, lhs) /\ TopValue(two) = rhs
  BY <1>3, Stacked DEF PopValue, TopValue
<1> HIDE DEF two
<1>5. x \in States(W, M)
  BY <1>1, <1>2, <1>4, InStates
<1>a. /\ x.token = Op(t) /\ x.expression = text /\ x.ops = Append(ops, op)
      /\ x.values = two /\ x.symbols = symbols /\ x.map = map
  BY DEF State
<1> HIDE DEF x
<1>6. Moves(x)
  BY <1>1, <1>2, <1>a DEF Moves
<1>7. After(x) =
        State(Op(t), text, ops, Append(values, Result(op, lhs, rhs)), symbols, map)
  <2>1. op # "OPAREN"
    BY Kinds
  <2> QED
    BY <1>1, <1>2, <1>3, <1>4, <2>1, <1>a DEF After
<1>8. x \in G
  BY <1>5, <1>6, <1>7 DEF Closed
<1> QED
  BY <1>8 DEF two, x

\* Define, at the end of the expression of a name that has no value.
LEMMA Defines ==
  ASSUME NEW W, NEW M, NEW G, Closed(G, States(W, M)),
         NEW w \in W, NEW n \in AnyName,
         NEW text \in Seq(Token), NEW ops \in Seq(OnStack),
         NEW values \in Seq(W), NEW symbols \in Seq(AnyName), NEW map \in M,
         n \notin DOMAIN map,
         State(Op("EOL"), text, ops, Append(values, w), symbols, With(map, n, w)) \in G
  PROVE  State(Op("EOL"), text, Append(ops, "DEFINED_AS"), Append(values, w),
               Append(symbols, n), map) \in G
<1> DEFINE x == State(Op("EOL"), text, Append(ops, "DEFINED_AS"), Append(values, w),
                      Append(symbols, n), map)
<1>1. /\ Op("EOL") \in Tokens(W) /\ Op("EOL").type = "EOL" /\ Op("EOL") # NoToken
  BY Kinds, OpIs DEF Tokens
<1>2. /\ Append(ops, "DEFINED_AS") \in Seq(OnStack)
      /\ Top(Append(ops, "DEFINED_AS")) = "DEFINED_AS"
      /\ Pop(Append(ops, "DEFINED_AS")) = ops
  BY Kinds, Stacked
<1>3. /\ Append(values, w) \in Seq(W)
      /\ PopValue(Append(values, w)) = values /\ TopValue(Append(values, w)) = w
  BY Stacked DEF PopValue, TopValue
<1>4. /\ Append(symbols, n) \in Seq(AnyName) /\ Append(symbols, n) # <<>>
      /\ Top(Append(symbols, n)) = n /\ Pop(Append(symbols, n)) = symbols
  BY Stacked
<1>5. x \in States(W, M)
  BY <1>1, <1>2, <1>3, <1>4, InStates
<1>6. ReducedBy("DEFINED_AS", "EOL")
  BY DEF ReducedBy, IsOperator, TokenTypes, InputSymbol, TopOfStack
<1>a. /\ x.token = Op("EOL") /\ x.expression = text /\ x.ops = Append(ops, "DEFINED_AS")
      /\ x.values = Append(values, w) /\ x.symbols = Append(symbols, n) /\ x.map = map
  BY DEF State
<1> HIDE DEF x
<1>7. Moves(x)
  BY <1>1, <1>2, <1>4, <1>6, <1>a DEF Moves
<1>8. After(x) = State(Op("EOL"), text, ops, Append(values, w), symbols, With(map, n, w))
  BY <1>1, <1>2, <1>3, <1>4, <1>6, <1>a, Kinds DEF After
<1> QED
  BY <1>5, <1>7, <1>8 DEF Closed, x

-----------------------------------------------------------------------------
(* What the evaluator makes of an expression                               *)

\* Whether an expression of a level may stand after the operator on the stack,
\* and before the type of token that follows it.
MayFollow(level, top) ==
  \/ top \in {"EOL", "OPAREN", "DEFINED_AS"}
  \/ top \in Binary /\ IsClearOnRight(level, top)
MayPrecede(level, t) ==
  \/ t \in {"EOL", "CPAREN"}
  \/ t \in Binary /\ MayBeLeft(level, t)

\* Where there is no doubt, the two columns of the table say what the levels
\* say: an operator waits on the stack for the operand on its right, and is
\* applied after it.
LEMMA Waits ==
  ASSUME NEW op \in Binary, NEW top, MayFollow(Level(op), top)
  PROVE  ~ReducedBy(top, op)
<1>1. op # "CPAREN"
  BY Kinds
<1> SUFFICES ASSUME ReducedBy(top, op) PROVE FALSE
  OBVIOUS
<1>2. InputSymbol(op) <= TopOfStack(top)
  BY <1>1 DEF ReducedBy
<1>3. \/ op = "EXP" /\ InputSymbol(op) = 60 /\ Level(op) = 5
      \/ op \in {"MULT", "DIV"} /\ InputSymbol(op) = 30 /\ Level(op) = 4
      \/ /\ op \notin {"EXP", "MULT", "DIV"}
         /\ InputSymbol(op) \in {10, 5} /\ Level(op) \in {1, 2, 3}
  BY DEF Binary, InputSymbol, Level
<1>4. CASE top \in {"EOL", "OPAREN", "DEFINED_AS"}
  <2>1. TopOfStack(top) \in {-1, 0, 2}
    BY <1>4 DEF TopOfStack
  <2> QED
    BY <1>2, <1>3, <2>1
<1>5. CASE top \in Binary /\ IsClearOnRight(Level(op), top)
  <2>1. \/ top = "EXP" /\ TopOfStack(top) = 50 /\ Level(top) = 5
        \/ top \in {"MULT", "DIV"} /\ TopOfStack(top) = 40 /\ Level(top) = 4
        \/ /\ top \notin {"EXP", "MULT", "DIV"}
           /\ TopOfStack(top) \in {20, 10} /\ Level(top) \in {1, 2, 3}
    BY <1>5 DEF Binary, TopOfStack, Level
  <2>2. Level("MULT") = 4
    BY DEF Level
  <2> QED
    BY <1>2, <1>3, <1>5, <2>1, <2>2 DEF IsClearOnRight, MayBeRight
<1> QED
  BY <1>4, <1>5 DEF MayFollow

LEMMA IsApplied ==
  ASSUME NEW op \in Binary, NEW t, MayPrecede(Level(op), t)
  PROVE  ReducedBy(op, t)
<1>1. op \notin {"OPAREN", "EOL"}
  BY Kinds
<1>2. \/ op = "EXP" /\ TopOfStack(op) = 50 /\ Level(op) = 5
      \/ op \in {"MULT", "DIV"} /\ TopOfStack(op) = 40 /\ Level(op) = 4
      \/ /\ op \notin {"EXP", "MULT", "DIV"}
         /\ TopOfStack(op) \in {20, 10} /\ Level(op) \in {1, 2, 3}
  BY DEF Binary, TopOfStack, Level
<1>3. CASE t = "CPAREN"
  BY <1>1, <1>3 DEF ReducedBy
<1>4. CASE t = "EOL"
  <2>1. InputSymbol(t) = 0 /\ IsOperator(t)
    BY <1>4, Kinds DEF InputSymbol, IsOperator
  <2> QED
    BY <1>2, <2>1 DEF ReducedBy
<1>5. CASE t \in Binary /\ MayBeLeft(Level(op), t)
  <2>1. \/ t = "EXP" /\ Level(t) = 5
        \/ t \in {"MULT", "DIV"} /\ InputSymbol(t) = 30 /\ Level(t) = 4
        \/ /\ t \notin {"EXP", "MULT", "DIV"}
           /\ InputSymbol(t) \in {10, 5} /\ Level(t) \in {1, 2, 3}
    BY <1>5 DEF Binary, InputSymbol, Level
  <2>2. IsOperator(t)
    BY <1>5, Kinds DEF IsOperator
  <2> QED
    BY <1>2, <1>5, <2>1, <2>2 DEF MayBeLeft, Atomic, ReducedBy
<1> QED
  BY <1>3, <1>4, <1>5 DEF MayPrecede

\* An operand binds at least as close as the operation that it is part of.
LEMMA Operands ==
  ASSUME NEW op \in Binary, NEW l \in 1 .. Atomic, NEW r \in 1 .. Atomic,
         MayBeLeft(l, op), IsClearOnRight(r, op),
         NEW top, MayFollow(Level(op), top), NEW t, MayPrecede(Level(op), t)
  PROVE  /\ MayFollow(l, top) /\ MayPrecede(l, op)
         /\ MayFollow(r, op) /\ MayPrecede(r, t)
<1>1. /\ Level(op) \in 1 .. 5 /\ l \in Int /\ r \in Int /\ Atomic = 6
      /\ l >= Level(op) /\ r >= Level(op)
  BY DEF MayBeLeft, IsClearOnRight, MayBeRight, Level, Atomic
<1>2. MayFollow(l, top)
  <2>1. CASE top \in Binary /\ IsClearOnRight(Level(op), top)
    <3>1. Level(top) \in 1 .. 5 /\ Level("MULT") = 4
      BY DEF Level
    <3> QED
      BY <1>1, <2>1, <3>1 DEF IsClearOnRight, MayBeRight, MayFollow
  <2> QED
    BY <2>1 DEF MayFollow
<1>3. MayPrecede(r, t)
  <2>1. CASE t \in Binary /\ MayBeLeft(Level(op), t)
    <3>1. Level(t) \in 1 .. 5
      BY DEF Level
    <3> QED
      BY <1>1, <2>1, <3>1 DEF MayBeLeft, MayPrecede
  <2> QED
    BY <2>1 DEF MayPrecede
<1> QED
  BY <1>2, <1>3 DEF MayFollow, MayPrecede

\* The evaluator reads the text of e as one value, the value of e, wherever it
\* is: G is what leads to some state, and the state before e leads there if the
\* one after it does, when the token that follows e has been read.
Evaluated(e, map, G, W) ==
  \A t \in Binary \cup {"EOL", "CPAREN"}, text \in Seq(Token), ops \in Seq(OnStack),
     values \in Seq(W), symbols \in Seq(AnyName) :
    /\ MayFollow(e.level, Top(ops)) /\ MayPrecede(e.level, t)
    /\ State(Op(t), text, ops, Append(values, e.value), symbols, map) \in G
    => State(NoToken, e.text \o (<<Op(t)>> \o text), ops, values, symbols, map) \in G

LEMMA NextToken ==
  ASSUME NEW W, NEW M, NEW G, Closed(G, States(W, M)),
         NEW t \in TokenTypes, NEW text \in Seq(Token), NEW ops \in Seq(OnStack),
         NEW values \in Seq(W), NEW symbols \in Seq(AnyName), NEW map \in M,
         State(Op(t), text, ops, values, symbols, map) \in G
  PROVE  State(NoToken, <<Op(t)>> \o text, ops, values, symbols, map) \in G
<1>1. Op(t) \in Token /\ AsRead(Op(t), map) = Op(t)
  <2>1. t # "WORD"
    BY DEF TokenTypes, Binary
  <2> QED
    BY <2>1, OpIs DEF AsRead
<1> QED
  BY <1>1, Gets

LEMMA AtomEvaluated ==
  ASSUME NEW W, NEW M, NEW G, Closed(G, States(W, M)), NEW map \in M,
         NEW e \in Expression, IsAtom(e, map), e.value \in W
  PROVE  Evaluated(e, map, G, W)
<1> SUFFICES ASSUME NEW t \in Binary \cup {"EOL", "CPAREN"}, NEW text \in Seq(Token),
                    NEW ops \in Seq(OnStack), NEW values \in Seq(W),
                    NEW symbols \in Seq(AnyName),
                    State(Op(t), text, ops, Append(values, e.value), symbols, map) \in G
             PROVE  State(NoToken, e.text \o (<<Op(t)>> \o text), ops, values, symbols,
                          map) \in G
  BY DEF Evaluated
<1>1. PICK a \in Token : e.text = <<a>> /\ AsRead(a, map) = Number(e.value)
  <2>1. CASE e.text = <<Number(e.value)>>
    <3>1. Number(e.value) \in Token /\ Number(e.value).type = "VALUE"
      BY DEF Expression, Token, Number
    <3> QED
      BY <2>1, <3>1 DEF AsRead
  <2>2. ASSUME NEW n \in DOMAIN map, e.text = <<Word(n)>>, e.value = map[n]
        PROVE  \E a \in Token : e.text = <<a>> /\ AsRead(a, map) = Number(e.value)
    <3>1. Word(n).type = "WORD" /\ Word(n).name = n
      BY DEF Word
    <3>2. Word(n) \in Token
      <4>1. e.text \in Seq(Token)
        BY DEF Expression
      <4>2. Len(<<Word(n)>>) = 1 /\ <<Word(n)>>[1] = Word(n)
        OBVIOUS
      <4> QED
        BY <2>2, <4>1, <4>2, ElementOfSeq
    <3> QED
      BY <2>2, <3>1, <3>2 DEF AsRead
  <2> QED
    BY <2>1, <2>2 DEF IsAtom
<1> DEFINE rest == <<Op(t)>> \o text
<1>2. t \in TokenTypes /\ Op(t) \in Token /\ rest \in Seq(Token)
  BY Kinds, OpIs, InFront
<1>3. Append(values, e.value) \in Seq(W)
  BY Stacked
<1>4. State(NoToken, rest, ops, Append(values, e.value), symbols, map) \in G
  BY <1>2, <1>3, NextToken
<1> HIDE DEF rest
<1>5. State(Number(e.value), rest, ops, values, symbols, map) \in G
  BY <1>2, <1>4, PushesValue
<1>6. State(NoToken, <<a>> \o rest, ops, values, symbols, map) \in G
  BY <1>1, <1>2, <1>5, Gets
<1> QED
  BY <1>1, <1>6 DEF rest

LEMMA ParenthesisedEvaluated ==
  ASSUME NEW W, NEW M, NEW G, Closed(G, States(W, M)), NEW map \in M,
         NEW e \in Expression, Evaluated(e, map, G, W), e.value \in W
  PROVE  Evaluated(Parenthesised(e), map, G, W)
<1> SUFFICES ASSUME NEW t \in Binary \cup {"EOL", "CPAREN"}, NEW text \in Seq(Token),
                    NEW ops \in Seq(OnStack), NEW values \in Seq(W),
                    NEW symbols \in Seq(AnyName),
                    State(Op(t), text, ops, Append(values, e.value), symbols, map) \in G
             PROVE  State(NoToken, Parenthesised(e).text \o (<<Op(t)>> \o text), ops,
                          values, symbols, map) \in G
  BY DEF Evaluated, Parenthesised
<1> DEFINE rest == <<Op(t)>> \o text
           inner == Append(ops, "OPAREN")
           after == <<Op("CPAREN")>> \o rest
<1>1. t \in TokenTypes /\ Op(t) \in Token /\ rest \in Seq(Token)
  BY Kinds, OpIs, InFront
<1>2. Append(values, e.value) \in Seq(W)
  BY Stacked
<1>3. State(NoToken, rest, ops, Append(values, e.value), symbols, map) \in G
  BY <1>1, <1>2, NextToken
<1> HIDE DEF rest
<1>4. State(Op("CPAREN"), rest, inner, Append(values, e.value), symbols, map) \in G
  BY <1>1, <1>2, <1>3, Closes
<1>5. inner \in Seq(OnStack) /\ Top(inner) = "OPAREN"
  BY Kinds, Stacked
<1> HIDE DEF inner
<1>6. State(NoToken, e.text \o after, inner, values, symbols, map) \in G
  <2>1. MayFollow(e.level, "OPAREN") /\ MayPrecede(e.level, "CPAREN")
    BY DEF MayFollow, MayPrecede
  <2> QED
    BY <1>1, <1>4, <1>5, <2>1 DEF Evaluated
<1>7. /\ e.text \in Seq(Token) /\ Op("OPAREN") \in Token /\ Op("CPAREN") \in Token
      /\ after \in Seq(Token) /\ <<Op("OPAREN")>> \in Seq(Token)
      /\ <<Op("CPAREN")>> \in Seq(Token)
  BY <1>1, Kinds, OpIs, InFront DEF Expression
<1> HIDE DEF after
<1> DEFINE inside == e.text \o after
<1>8. inside \in Seq(Token)
  BY <1>7, ConcatProperties
<1> HIDE DEF inside
<1>9. State(Op("OPAREN"), inside, ops, values, symbols, map) \in G
  <2>1. ~ReducedBy(Top(ops), "OPAREN")
    BY DEF ReducedBy, InputSymbol, TopOfStack
  <2>2. State(NoToken, inside, Append(ops, "OPAREN"), values, symbols, map) \in G
    BY <1>6 DEF inside, inner
  <2> QED
    BY <1>8, <2>1, <2>2, PushesOperator
<1>10. State(NoToken, <<Op("OPAREN")>> \o inside, ops, values, symbols, map) \in G
  BY <1>8, <1>9, Kinds, NextToken
<1>11. Parenthesised(e).text \o rest = <<Op("OPAREN")>> \o inside
  <2> DEFINE written == Parenthesised(e).text
             open == <<Op("OPAREN")>>
             close == <<Op("CPAREN")>>
             s == e.text
  <2>1. written = (open \o s) \o close
    BY DEF Parenthesised
  <2>2. open \in Seq(Token) /\ close \in Seq(Token) /\ s \in Seq(Token)
    BY <1>7
  <2>3. open \o inside = open \o (s \o (close \o rest))
    BY DEF inside, after
  <2> HIDE DEF written, open, close, s
  <2>4. Associates(open, s, close, rest)
    BY <1>1, <2>2, Joined
  <2>5. written \o rest = open \o inside
    BY <2>1, <2>3, <2>4 DEF Associates
  <2> QED
    BY <2>5 DEF open, written
<1> QED
  BY <1>10, <1>11 DEF rest

LEMMA OperationEvaluated ==
  ASSUME NEW W, NEW M, NEW G, Closed(G, States(W, M)), NEW map \in M,
         NEW op \in Binary, NEW l \in Expression, NEW r \in Expression,
         MayBeLeft(l.level, op), IsClearOnRight(r.level, op),
         Evaluated(l, map, G, W), Evaluated(r, map, G, W),
         l.value \in W, r.value \in W, Result(op, l.value, r.value) \in W
  PROVE  Evaluated(Operation(op, l, r), map, G, W)
<1> DEFINE v == Result(op, l.value, r.value)
<1> SUFFICES ASSUME NEW t \in Binary \cup {"EOL", "CPAREN"}, NEW text \in Seq(Token),
                    NEW ops \in Seq(OnStack), NEW values \in Seq(W),
                    NEW symbols \in Seq(AnyName),
                    MayFollow(Level(op), Top(ops)), MayPrecede(Level(op), t),
                    State(Op(t), text, ops, Append(values, v), symbols, map) \in G
             PROVE  State(NoToken, Operation(op, l, r).text \o (<<Op(t)>> \o text), ops,
                          values, symbols, map) \in G
  BY DEF Evaluated, Operation
<1> DEFINE rest == <<Op(t)>> \o text
           both == Append(ops, op)
           one == Append(values, l.value)
<1>1. /\ l.level \in 1 .. Atomic /\ r.level \in 1 .. Atomic
      /\ l.text \in Seq(Token) /\ r.text \in Seq(Token)
  BY DEF Expression
<1>2. /\ MayFollow(l.level, Top(ops)) /\ MayPrecede(l.level, op)
      /\ MayFollow(r.level, op) /\ MayPrecede(r.level, t)
  BY <1>1, Operands
<1>3. ReducedBy(op, t) /\ ~ReducedBy(Top(ops), op)
  BY Waits, IsApplied
<1>4. /\ t \in TokenTypes /\ Op(t) \in Token /\ rest \in Seq(Token)
      /\ op \in TokenTypes /\ Op(op) \in Token /\ <<Op(op)>> \in Seq(Token)
  BY Kinds, OpIs, InFront
<1>5. both \in Seq(OnStack) /\ Top(both) = op /\ one \in Seq(W)
  BY Kinds, Stacked
<1>6. State(Op(t), text, both, Append(one, r.value), symbols, map) \in G
  BY <1>3, Applies
<1> HIDE DEF both, one
<1>7. State(NoToken, r.text \o rest, both, one, symbols, map) \in G
  BY <1>2, <1>5, <1>6 DEF Evaluated
<1> HIDE DEF rest
<1> DEFINE right == r.text \o rest
<1>8. right \in Seq(Token)
  BY <1>1, <1>4, ConcatProperties
<1> HIDE DEF right
<1>9. State(Op(op), right, ops, one, symbols, map) \in G
  <2>1. State(NoToken, right, Append(ops, op), one, symbols, map) \in G
    BY <1>7 DEF right, both
  <2> QED
    BY <1>3, <1>5, <1>8, <2>1, PushesOperator
<1>10. State(NoToken, l.text \o (<<Op(op)>> \o right), ops, values, symbols, map) \in G
  BY <1>2, <1>8, <1>9 DEF Evaluated, one
<1>11. Operation(op, l, r).text \o rest = l.text \o (<<Op(op)>> \o right)
  <2> DEFINE written == Operation(op, l, r).text
             left == l.text
             o == <<Op(op)>>
             s == r.text
  <2>1. written = (left \o o) \o s
    BY DEF Operation
  <2>2. left \in Seq(Token) /\ o \in Seq(Token) /\ s \in Seq(Token)
    BY <1>1, <1>4
  <2>3. left \o (o \o right) = left \o (o \o (s \o rest))
    BY DEF right
  <2> HIDE DEF written, left, o, s
  <2>4. Associates(left, o, s, rest)
    BY <1>4, <2>2, Joined
  <2>5. written \o rest = left \o (o \o right)
    BY <2>1, <2>3, <2>4 DEF Associates
  <2> QED
    BY <2>5 DEF left, o, written
<1> QED
  BY <1>10, <1>11 DEF rest

\* Every part of a reading, by induction on the parts.
LEMMA PartsEvaluated ==
  ASSUME NEW W, NEW M, NEW G, Closed(G, States(W, M)), NEW map \in M,
         NEW parts \in Seq(Expression), IsReading(parts, map),
         \A i \in 1 .. Len(parts) : parts[i].value \in W
  PROVE  \A i \in 1 .. Len(parts) : Evaluated(parts[i], map, G, W)
<1> DEFINE Bad == {i \in 1 .. Len(parts) : ~Evaluated(parts[i], map, G, W)}
<1> SUFFICES ASSUME Bad # {} PROVE FALSE
  OBVIOUS
<1>1. Bad \subseteq Nat
  OBVIOUS
<1>2. PICK i \in Bad : \A j \in Bad : ~ (<<j, i>> \in OpToRel(<, Nat))
  <2> HIDE DEF Bad
  <2> QED
    BY <1>1, NatLessThanWellFounded, WFMin
<1>3. \A j \in Bad : ~ (j < i)
  BY <1>1, <1>2 DEF OpToRel
<1>4. i \in 1 .. Len(parts) /\ ~Evaluated(parts[i], map, G, W)
  OBVIOUS
<1>5. \A j \in 1 .. i - 1 :
        /\ parts[j] \in Expression /\ parts[j].value \in W
        /\ Evaluated(parts[j], map, G, W)
  <2> SUFFICES ASSUME NEW j \in 1 .. i - 1
               PROVE  /\ parts[j] \in Expression /\ parts[j].value \in W
                      /\ Evaluated(parts[j], map, G, W)
    OBVIOUS
  <2>1. j \in 1 .. Len(parts) /\ j < i
    BY <1>4
  <2>2. j \notin Bad
    BY <1>3, <2>1
  <2> QED
    BY <2>1, <2>2
<1>6. parts[i] \in Expression /\ parts[i].value \in W
  BY <1>4
<1>7. CASE IsAtom(parts[i], map)
  BY <1>4, <1>6, <1>7, AtomEvaluated
<1>8. ASSUME NEW j \in 1 .. i - 1, parts[i] = Parenthesised(parts[j]) PROVE FALSE
  BY <1>4, <1>5, <1>8, ParenthesisedEvaluated
<1>9. ASSUME NEW op \in Binary, NEW j \in 1 .. i - 1, NEW k \in 1 .. i - 1,
             MayBeLeft(parts[j].level, op), IsClearOnRight(parts[k].level, op),
             parts[i] = Operation(op, parts[j], parts[k])
      PROVE  FALSE
  <2>1. Result(op, parts[j].value, parts[k].value) \in W
    BY <1>6, <1>9 DEF Operation
  <2> QED
    BY <1>4, <1>5, <1>9, <2>1, OperationEvaluated
<1> QED
  BY <1>4, <1>7, <1>8, <1>9 DEF IsReading

\* What is written for an expression, to its end.
LEMMA WrittenAs ==
  ASSUME NEW text \in Seq(Token), NEW name \in AnyName
  PROVE  LET end == text \o (<<Op("EOL")>> \o <<>>)
         IN /\ end \in Seq(Token)
            /\ Append(Defining(name, text), Op("EOL")) =
                 IF name = LastValue THEN end
                 ELSE <<Word(name)>> \o (<<Op("DEFINED_AS")>> \o end)
<1> DEFINE e == Op("EOL")
           w == Word(name)
           d == Op("DEFINED_AS")
<1>1. e \in Token /\ w \in Token /\ d \in Token
  BY Kinds, OpIs DEF Word, Token, AnyName
<1>2. Append(Defining(name, text), Op("EOL")) =
        IF name = LastValue THEN Append(text, e) ELSE Append(<<w, d>> \o text, e)
  BY DEF Defining
<1> HIDE DEF e, w, d
<1>3. text \o (<<e>> \o <<>>) \in Seq(Token) /\ Append(text, e) = text \o (<<e>> \o <<>>)
  BY <1>1
<1>4. Append(<<w, d>> \o text, e) = <<w>> \o (<<d>> \o (text \o (<<e>> \o <<>>)))
  <2> DEFINE ws == <<w>>
             ds == <<d>>
             es == <<e>> \o <<>>
             s == <<w, d>> \o text
  <2>1. ws \in Seq(Token) /\ ds \in Seq(Token) /\ es \in Seq(Token) /\ es = <<e>>
    BY <1>1
  <2>2. <<w, d>> = ws \o ds
    <3> DEFINE wd == <<w, d>>
    <3>1. wd \in Seq(Token) /\ Len(wd) = 2 /\ wd[1] = w /\ wd[2] = d
      BY <1>1
    <3>2. Len(ws) = 1 /\ Len(ds) = 1 /\ ws[1] = w /\ ds[1] = d
      OBVIOUS
    <3> HIDE DEF wd, ws, ds
    <3>3. /\ ws \o ds \in Seq(Token) /\ Len(ws \o ds) = 2
          /\ \A i \in 1 .. 2 : (ws \o ds)[i] = IF i <= 1 THEN ws[i] ELSE ds[i - 1]
      <4>1. /\ ws \o ds \in Seq(Token) /\ Len(ws \o ds) = Len(ws) + Len(ds)
            /\ \A i \in 1 .. Len(ws) + Len(ds) :
                 (ws \o ds)[i] = IF i <= Len(ws) THEN ws[i] ELSE ds[i - Len(ws)]
        BY <2>1, ConcatProperties
      <4> DEFINE both == ws \o ds
      <4> HIDE DEF both
      <4>2. /\ both \in Seq(Token) /\ Len(both) = 2
            /\ \A i \in 1 .. 2 : both[i] = IF i <= 1 THEN ws[i] ELSE ds[i - 1]
        BY <3>2, <4>1 DEF both
      <4> QED
        BY <4>2 DEF both
    <3>4. \A i \in 1 .. 2 : (ws \o ds)[i] = wd[i]
      BY <3>1, <3>2, <3>3
    <3>5. wd = ws \o ds
      BY <3>1, <3>3, <3>4, SeqEqual
    <3> QED
      BY <3>5 DEF wd
  <2>3. s \in Seq(Token)
    BY <1>1
  <2>4. s = (ws \o ds) \o text
    BY <2>2
  <2>5. Append(s, e) = s \o es
    <3> HIDE DEF s
    <3> QED
      BY <1>1, <2>1, <2>3
  <2> HIDE DEF ws, ds, es, s
  <2>6. Associates(ws, ds, text, es)
    BY <2>1, Joined
  <2>7. Append(s, e) = ws \o (ds \o (text \o es))
    BY <2>4, <2>5, <2>6 DEF Associates
  <2> QED
    BY <2>7 DEF ws, ds, es, s
<1> QED
  BY <1>2, <1>3, <1>4 DEF e, w, d

\* The end of an expression that is read as e says: its value is on top, and the
\* name that it defines has it.
Ends(f, e) ==
  /\ f.token = Op("EOL") /\ Top(f.ops) = "EOL"
  /\ TopValue(f.values) = Whole(e.parts).value
  /\ f.map = Defined(e.map, e.name, Whole(e.parts).value)

LEMMA ExpressionRead ==
  ASSUME NEW e, e.parts \in Seq(Expression) \ {<<>>}, IsReading(e.parts, e.map),
         e.name \in (Names \cup {LastValue}) \ (DOMAIN e.map \ {LastValue}),
         NEW V, NEW values \in Seq(V), NEW ops \in Seq(OnStack), Top(ops) = "EOL",
         NEW symbols \in Seq(AnyName)
  PROVE  \E U : \E f \in U :
           /\ Ends(f, e)
           /\ State(NoToken, Append(Defining(e.name, Whole(e.parts).text), Op("EOL")),
                    ops, values, symbols, e.map) \in LeadTo(f, U)
<1> DEFINE parts == e.parts
           whole == Whole(parts)
           map == e.map
           name == e.name
           v == whole.value
           last == Defined(map, name, v)
           W == V \cup {parts[i].value : i \in 1 .. Len(parts)}
           M == {map, last}
           U == States(W, M)
           f == State(Op("EOL"), <<>>, ops, Append(values, v), symbols, last)
           G == LeadTo(f, U)
           rest == whole.text \o (<<Op("EOL")>> \o <<>>)
<1>1. Len(parts) \in 1 .. Len(parts)
  OBVIOUS
<1>2. whole \in Expression /\ v \in W /\ whole.text \in Seq(Token)
  <2>1. whole \in Expression /\ v \in W
    BY <1>1 DEF Whole
  <2> QED
    BY <2>1 DEF Expression
<1>3. values \in Seq(W) /\ Append(values, v) \in Seq(W)
  <2> HIDE DEF W, v
  <2>1. V \subseteq W
    BY DEF W
  <2>2. values \in Seq(W)
    BY <2>1, SeqMonotonic
  <2> QED
    BY <1>2, <2>2, Stacked
<1>4. f \in U
  <2>1. Op("EOL") \in Tokens(W) /\ <<>> \in Seq(Token)
    BY Kinds DEF Tokens
  <2> HIDE DEF W, v, last
  <2> QED
    BY <1>3, <2>1, InStates
<1>5. Ends(f, e)
  <2>1. /\ f.token = Op("EOL") /\ f.ops = ops /\ f.values = Append(values, v)
        /\ f.map = last
    BY DEF State
  <2>2. TopValue(Append(values, v)) = v
    <3> HIDE DEF v, W
    <3> QED
      BY <1>2, <1>3, Stacked DEF TopValue
  <2> HIDE DEF f
  <2> QED
    BY <2>1, <2>2 DEF Ends
<1>6. Closed(G, U) /\ f \in G
  <2> HIDE DEF f, U
  <2> QED
    BY <1>4, LeadsBack
<1>7. Evaluated(whole, map, G, W)
  <2>1. parts \in Seq(Expression) /\ IsReading(parts, map) /\ map \in M
    OBVIOUS
  <2>2. \A i \in 1 .. Len(parts) : parts[i].value \in W
    OBVIOUS
  <2>3. whole = parts[Len(parts)]
    BY DEF Whole
  <2> HIDE DEF parts, map, W, M, G, whole
  <2>4. \A i \in 1 .. Len(parts) : Evaluated(parts[i], map, G, W)
    BY <1>6, <2>1, <2>2, PartsEvaluated
  <2> QED
    BY <1>1, <2>3, <2>4
<1>8. /\ rest \in Seq(Token)
      /\ Append(Defining(name, whole.text), Op("EOL")) =
           IF name = LastValue THEN rest
           ELSE <<Word(name)>> \o (<<Op("DEFINED_AS")>> \o rest)
  <2> HIDE DEF whole, name
  <2>1. name \in AnyName
    BY DEF name, AnyName
  <2> QED
    BY <1>2, <2>1, WrittenAs
<1>9. map \in M /\ last \in M /\ <<>> \in Seq(Token)
  OBVIOUS
<1>10. CASE name = LastValue
  <2>1. State(Op("EOL"), <<>>, ops, Append(values, v), symbols, map) \in G
    BY <1>6, <1>10 DEF Defined
  <2>2. MayFollow(whole.level, Top(ops)) /\ MayPrecede(whole.level, "EOL")
    BY DEF MayFollow, MayPrecede
  <2>3. State(NoToken, rest, ops, values, symbols, map) \in G
    <3> HIDE DEF G, W, whole, map
    <3> QED
      BY <1>3, <1>7, <1>9, <2>1, <2>2 DEF Evaluated, v, rest
  <2> QED
    BY <1>4, <1>5, <1>8, <1>10, <2>3
<1>11. CASE name # LastValue
  <2> DEFINE more == Append(symbols, name)
             inner == Append(ops, "DEFINED_AS")
  <2>1. /\ name \in AnyName /\ name \notin DOMAIN map /\ last = With(map, name, v)
        /\ more \in Seq(AnyName)
    BY <1>11, Stacked DEF Defined, AnyName
  <2>2. inner \in Seq(OnStack) /\ Top(inner) = "DEFINED_AS"
    BY Kinds, Stacked
  <2>3. State(Op("EOL"), <<>>, inner, Append(values, v), more, map) \in G
    <3>1. State(Op("EOL"), <<>>, ops, Append(values, v), symbols, With(map, name, v)) \in G
      BY <1>6, <2>1
    <3> HIDE DEF G, W, map, name, v, last
    <3> QED
      BY <1>2, <1>3, <1>6, <1>9, <2>1, <3>1, Defines
  <2>4. MayFollow(whole.level, "DEFINED_AS") /\ MayPrecede(whole.level, "EOL")
    BY DEF MayFollow, MayPrecede
  <2> HIDE DEF G, W, M, whole, map, name, last, more
  <2>5. State(NoToken, rest, inner, values, more, map) \in G
    <3> HIDE DEF inner
    <3> QED
      BY <1>3, <1>9, <2>1, <2>2, <2>3, <2>4, <1>7 DEF Evaluated, v, rest
  <2> HIDE DEF rest
  <2>6. State(Op("DEFINED_AS"), rest, ops, values, more, map) \in G
    <3>1. ~ReducedBy(Top(ops), "DEFINED_AS")
      BY DEF ReducedBy, InputSymbol, TopOfStack
    <3> QED
      BY <1>3, <1>6, <1>8, <1>9, <2>1, <2>5, <3>1, PushesOperator
  <2> DEFINE tail == <<Op("DEFINED_AS")>> \o rest
  <2>7. tail \in Seq(Token)
    BY <1>8, Kinds, OpIs, InFront
  <2>8. State(NoToken, tail, ops, values, more, map) \in G
    BY <1>3, <1>6, <1>8, <1>9, <2>1, <2>6, Kinds, NextToken
  <2> HIDE DEF tail
  <2>9. State(Symbol(name), tail, ops, values, symbols, map) \in G
    BY <1>3, <1>6, <1>9, <2>1, <2>7, <2>8, PushesSymbol DEF more
  <2>10. Word(name) \in Token /\ AsRead(Word(name), map) = Symbol(name)
    BY <2>1 DEF Word, Token, AsRead, AnyName
  <2>11. State(NoToken, <<Word(name)>> \o tail, ops, values, symbols, map) \in G
    BY <1>3, <1>6, <1>9, <2>7, <2>9, <2>10, Gets
  <2> QED
    BY <1>4, <1>5, <1>8, <1>11, <2>11 DEF tail, G, whole, name, map
<1> QED
  BY <1>10, <1>11

-----------------------------------------------------------------------------
(* The rules and their outcomes                                            *)

\* The expressions of a line from the k-th on.
From(s, k) == SubSeq(s, k, Len(s))

LEMMA FromIs ==
  ASSUME NEW S, NEW s \in Seq(S)
  PROVE  /\ From(s, 1) = s
         /\ \A k \in 1 .. Len(s) :
              /\ From(s, k) # <<>>
              /\ Head(From(s, k)) = s[k] /\ Tail(From(s, k)) = From(s, k + 1)
         /\ From(s, Len(s) + 1) = <<>>
<1>1. From(s, 1) = s
  BY SubSeqFull DEF From
<1>2. ASSUME NEW k \in 1 .. Len(s)
      PROVE  /\ From(s, k) # <<>>
             /\ Head(From(s, k)) = s[k] /\ Tail(From(s, k)) = From(s, k + 1)
  <2>1. Len(s) \in Nat /\ k \in Nat /\ k <= Len(s) /\ Len(s) \in k .. Len(s)
    OBVIOUS
  <2>2. Head(From(s, k)) = s[k] /\ Tail(From(s, k)) = From(s, k + 1)
    BY <2>1, HeadTailOfSubSeq DEF From
  <2>3. Len(From(s, k)) = IF k <= Len(s) THEN Len(s) - k + 1 ELSE 0
    <3>1. \A i \in k .. Len(s) : s[i] \in S
      BY <2>1
    <3> DEFINE n == Len(s)
    <3>2. n \in Int /\ k \in Int
      BY <2>1
    <3> HIDE DEF n
    <3> QED
      BY <3>1, <3>2, SubSeqProperties DEF From, n
  <2> QED
    BY <2>1, <2>2, <2>3
<1>3. From(s, Len(s) + 1) = <<>>
  <2>1. Len(s) \in Int /\ Len(s) + 1 \in Int /\ Len(s) < Len(s) + 1
    OBVIOUS
  <2> QED
    BY <2>1, SubSeqEmpty DEF From
<1> QED
  BY <1>1, <1>2, <1>3

\* Between two expressions of a line that is well formed, the names have the
\* values that its reading says.  Within one, the evaluator is on its way to its
\* end, with the right value.
Between(reading, text) ==
  \E k \in 1 .. Len(text) :
    /\ line = From(text, k)
    /\ Top(opStack) = "EOL" /\ symbolMap = reading[k].map

Within(reading, text) ==
  \E k \in 1 .. Len(text) :
    /\ line = From(text, k + 1)
    /\ \E U : \E f \in U : Ends(f, reading[k]) /\ Now \in LeadTo(f, U)

OnTheWay ==
  LET reading == Reading[Head(rules)]
      text == Line[Head(rules)]
  IN rules # <<>> /\ reading # <<>> =>
       /\ Idle /\ line # <<>> => Between(reading, text)
       /\ ~Idle => Within(reading, text)

\* The outcomes, and a stack of values, of whatever is on it.
Stacks ==
  /\ \E W : postFixStack \in Seq(W)
  /\ \E W : outcomes \in Seq(W)

LEMMA AnyValue ==
  ASSUME NEW W, NEW s \in Seq(W), NEW e
  PROVE  /\ Append(s, e) \in Seq(W \cup {e})
         /\ PopValue(s) \in Seq(W)
<1>1. Append(s, e) \in Seq(W \cup {e})
  <2>1. s \in Seq(W \cup {e})
    BY SeqMonotonic
  <2> QED
    BY <2>1, Stacked
<1> QED
  BY <1>1, Popped DEF PopValue

LEMMA StacksInit == Init => Stacks
BY DEF Init, Stacks

LEMMA StacksNext == Stacks /\ [Next]_vars => Stacks'
<1> SUFFICES ASSUME Stacks, [Next]_vars PROVE Stacks'
  OBVIOUS
<1>1. PICK W : postFixStack \in Seq(W)
  BY DEF Stacks
<1>2. PICK V : outcomes \in Seq(V)
  BY DEF Stacks
<1>3. ASSUME NEW r PROVE \E X : Append(outcomes, r) \in Seq(X)
  BY <1>2, AnyValue
<1>4. ASSUME NEW w
      PROVE  /\ \E X : Append(postFixStack, w) \in Seq(X)
             /\ \E X : Append(PopValue(postFixStack), w) \in Seq(X)
             /\ \E X : Append(PopValue(PopValue(postFixStack)), w) \in Seq(X)
             /\ \E X : PopValue(postFixStack) \in Seq(X)
  <2>1. PopValue(postFixStack) \in Seq(W)
    BY <1>1, AnyValue
  <2>2. PopValue(PopValue(postFixStack)) \in Seq(W)
    BY <2>1, AnyValue
  <2> QED
    BY <1>1, <2>1, <2>2, AnyValue
<1>5. \E X : outcomes' \in Seq(X)
  <2>1. outcomes' = outcomes \/ \E r : outcomes' = Append(outcomes, r)
    BY DEF Next, StartRule, NextExpression, GetToken, ProcessToken, PushOperand,
           CloseParenthesis, PushOperator, EndExpression, EndRule, BinaryOp,
           DropParenthesis, Apply, Define, Throw, vars
  <2> QED
    BY <1>2, <1>3, <2>1
<1>6. \E X : postFixStack' \in Seq(X)
  <2>1. CASE StartRule \/ NextExpression \/ GetToken \/ CloseParenthesis \/ PushOperator
             \/ DropParenthesis \/ Throw \/ UNCHANGED vars
    <3>1. postFixStack' = postFixStack
      BY <2>1 DEF StartRule, NextExpression, GetToken, CloseParenthesis, PushOperator,
                  DropParenthesis, Throw, vars, stacks
    <3> QED
      BY <1>1, <3>1
  <2>2. CASE PushOperand
    <3>1. postFixStack' = postFixStack \/ postFixStack' = Append(postFixStack, token.value)
      BY <2>2 DEF PushOperand
    <3> QED
      BY <1>1, <1>4, <3>1
  <2>3. CASE EndExpression
    BY <1>4, <2>3 DEF EndExpression
  <2>4. CASE Apply
    BY <1>4, <2>4 DEF Apply
  <2>5. CASE Define
    BY <1>4, <2>5 DEF Define
  <2> QED
    BY <2>1, <2>2, <2>3, <2>4, <2>5 DEF Next, ProcessToken, BinaryOp
<1> QED
  BY <1>5, <1>6 DEF Stacks

\* The steps of the evaluator are those of the specification.
Step == GetToken \/ PushOperand \/ CloseParenthesis \/ PushOperator
          \/ DropParenthesis \/ Apply \/ Define

LEMMA StepIs ==
  ASSUME Step
  PROVE  /\ Moves(Now) /\ Now' = After(Now) /\ ~Idle
         /\ UNCHANGED <<rules, line, outcomes>>
<1>1. /\ Now.token = token /\ Now.expression = expression /\ Now.ops = opStack
      /\ Now.values = postFixStack /\ Now.symbols = symbolStack /\ Now.map = symbolMap
  BY DEF Now, State
<1>2. Now' = State(token', expression', opStack', postFixStack', symbolStack', symbolMap')
  BY DEF Now
<1>3. UNCHANGED <<rules, line, outcomes>>
  BY DEF Step, GetToken, PushOperand, CloseParenthesis, PushOperator, DropParenthesis,
         Apply, Define, stacks
<1>4. NoToken.type = "none"
  BY DEF NoToken, Op
<1>5. ~ReducedBy(Top(opStack), "VALUE") /\ ~ReducedBy(Top(opStack), "SYMBOL")
      /\ ~ReducedBy(Top(opStack), "none")
  BY DEF ReducedBy, IsOperator, TokenTypes, Binary
<1> HIDE DEF Now
<1>6. CASE GetToken
  BY <1>1, <1>2, <1>3, <1>6 DEF GetToken, Moves, After, AsRead, Idle, stacks
<1>7. CASE PushOperand
  <2>1. token # NoToken /\ token.type \in {"VALUE", "SYMBOL"}
    BY <1>4, <1>7 DEF PushOperand
  <2> QED
    BY <1>1, <1>2, <1>3, <1>7, <2>1 DEF PushOperand, Moves, After, Idle
<1>8. CASE CloseParenthesis
  <2>1. token # NoToken /\ token.type = "CPAREN" /\ ~ReducedBy(Top(opStack), token.type)
    BY <1>4, <1>8 DEF CloseParenthesis, Reduces
  <2> QED
    BY <1>1, <1>2, <1>3, <1>8, <2>1 DEF CloseParenthesis, Moves, After, Idle
<1>9. CASE PushOperator
  <2>1. /\ token # NoToken /\ token.type \notin {"CPAREN", "VALUE", "SYMBOL"}
        /\ ~ReducedBy(Top(opStack), token.type)
        /\ IsOperator(token.type) /\ token.type # "EOL"
    BY <1>4, <1>9 DEF PushOperator, Reduces, IsOperator, TokenTypes, Binary
  <2> QED
    BY <1>1, <1>2, <1>3, <1>9, <2>1 DEF PushOperator, Moves, After, Idle
<1>10. ASSUME Reduces
       PROVE  /\ ReducedBy(Top(opStack), token.type)
              /\ token # NoToken /\ token.type \notin {"VALUE", "SYMBOL"}
  BY <1>4, <1>5, <1>10 DEF Reduces
<1>11. CASE DropParenthesis
  BY <1>1, <1>2, <1>3, <1>10, <1>11 DEF DropParenthesis, Moves, After, Idle
<1>12. CASE Apply
  <2>1. Top(opStack) # "OPAREN"
    BY <1>12, Kinds DEF Apply
  <2> QED
    BY <1>1, <1>2, <1>3, <1>10, <1>12, <2>1 DEF Apply, Moves, After, Idle
<1>13. CASE Define
  <2>1. Top(opStack) = "DEFINED_AS" /\ "DEFINED_AS" \notin Binary
    BY <1>13, Kinds DEF Define
  <2>2. symbolMap' = IF Top(symbolStack) \in DOMAIN symbolMap THEN symbolMap
                     ELSE With(symbolMap, Top(symbolStack), TopValue(postFixStack))
    BY <1>13 DEF Define, Assign
  <2> QED
    BY <1>1, <1>2, <1>3, <1>10, <1>13, <2>1, <2>2 DEF Define, Moves, After, Idle
<1> QED
  BY <1>6, <1>7, <1>8, <1>9, <1>11, <1>12, <1>13 DEF Step

\* No step is possible where an expression ends or throws.
LEMMA Stands ==
  ASSUME EndExpression \/ Throw \/ Idle
  PROVE  ~Moves(Now)
<1>1. /\ Now.token = token /\ Now.expression = expression /\ Now.ops = opStack
      /\ Now.symbols = symbolStack
  BY DEF Now, State
<1>2. NoToken.type = "none"
  BY DEF NoToken, Op
<1> HIDE DEF Now
<1>3. CASE EndExpression
  <2>1. token # NoToken /\ token.type = "EOL" /\ ~ReducedBy(Top(opStack), token.type)
    BY <1>2, <1>3 DEF EndExpression, Reduces
  <2> QED
    BY <1>1, <2>1 DEF Moves
<1>4. CASE Throw
  <2>1. /\ ReducedBy(Top(opStack), token.type)
        /\ Top(opStack) = "DEFINED_AS" /\ symbolStack = <<>>
    BY <1>4 DEF Throw, Reduces
  <2>2. token # NoToken /\ token.type \notin {"VALUE", "SYMBOL"}
    BY <1>2, <2>1 DEF ReducedBy, IsOperator, TokenTypes, Binary
  <2> QED
    BY <1>1, <2>1, <2>2, Kinds DEF Moves
<1>5. CASE Idle
  <2>1. ~ReducedBy(Top(opStack), "none") /\ ~IsOperator("none")
    BY DEF ReducedBy, IsOperator
  <2> QED
    BY <1>1, <1>2, <1>5, <2>1 DEF Moves, Idle
<1> QED
  BY <1>3, <1>4, <1>5

\* What the assumption says of the rule that is evaluated.
LEMMA RuleIs ==
  ASSUME NEW r \in Rules
  PROVE  /\ Line[r] \in Seq(Seq(Token)) /\ Line[r] # <<>>
         /\ Reading[r] # <<>> => IsReadingOf(Reading[r], Line[r])
BY ConditionsAssumption

LEMMA ReadingIs ==
  ASSUME NEW reading, NEW text \in Seq(Seq(Token)), IsReadingOf(reading, text),
         NEW k \in 1 .. Len(text)
  PROVE  /\ Len(reading) = Len(text) /\ reading[1].map = <<>>
         /\ LET e == reading[k] IN
              /\ e.parts \in Seq(Expression) \ {<<>>} /\ IsReading(e.parts, e.map)
              /\ e.name \in (Names \cup {LastValue}) \ (DOMAIN e.map \ {LastValue})
              /\ text[k] = Defining(e.name, Whole(e.parts).text)
              /\ k < Len(text) =>
                   reading[k + 1].map =
                     With(Defined(e.map, e.name, Whole(e.parts).value), LastValue,
                          Whole(e.parts).value)
BY DEF IsReadingOf

\* On the way to f, but not there, the evaluator takes a step; at f it ends.
LEMMA AtTheEnd ==
  ASSUME NEW U, NEW f \in U, Now \in LeadTo(f, U), NEW e, Ends(f, e)
  PROVE  /\ ~Idle /\ ~Throw
         /\ EndExpression =>
              /\ TopValue(postFixStack) = Whole(e.parts).value
              /\ Top(opStack) = "EOL"
              /\ symbolMap = Defined(e.map, e.name, Whole(e.parts).value)
<1>1. /\ Now.token = token /\ Now.ops = opStack /\ Now.values = postFixStack
      /\ Now.map = symbolMap
  BY DEF Now, State
<1> HIDE DEF Now
<1>2. ~Moves(Now) => Now = f
  BY Onward
<1>3. f.token = Op("EOL") /\ Op("EOL") # NoToken /\ Top(f.ops) = "EOL"
  BY OpIs DEF Ends
<1>4. ~Idle
  BY <1>1, <1>2, <1>3, Stands DEF Idle
<1>5. ~Throw
  <2>1. Throw => Top(opStack) = "DEFINED_AS"
    BY DEF Throw
  <2> QED
    BY <1>1, <1>2, <1>3, <2>1, Stands
<1>6. ASSUME EndExpression PROVE Now = f
  BY <1>2, <1>6, Stands
<1> QED
  BY <1>1, <1>4, <1>5, <1>6 DEF Ends

LEMMA OnTheWayInit == Init => OnTheWay
BY DEF Init, OnTheWay, Idle

LEMMA OnTheWayNext == TypeOK /\ Stacks /\ OnTheWay /\ [Next]_vars => OnTheWay'
<1> SUFFICES ASSUME TypeOK, Stacks, OnTheWay, [Next]_vars PROVE OnTheWay'
  OBVIOUS
<1>1. CASE StartRule
  <2>r. PICK r : r = Head(rules)
    OBVIOUS
  <2>1. r \in Rules /\ rules' = rules
    BY <1>1, <2>r DEF StartRule, TypeOK
  <2>2. /\ Line[r] \in Seq(Seq(Token)) /\ Line[r] # <<>>
        /\ Reading[r] # <<>> => IsReadingOf(Reading[r], Line[r])
    BY <2>1, RuleIs
  <2>3. Idle' /\ line' = Line[r] /\ symbolMap' = <<>>
    BY <1>1, <2>r DEF StartRule, Idle
  <2>4. Top(opStack') = "EOL"
    <3>1. "EOL" \in OnStack /\ opStack \in Seq(OnStack) /\ opStack' = Append(opStack, "EOL")
      BY <1>1, Kinds DEF StartRule, TypeOK
    <3> QED
      BY <3>1, Stacked
  <2>5. ASSUME Reading[r] # <<>> PROVE Between(Reading[r], Line[r])'
    <3>1. 1 \in 1 .. Len(Line[r])
      BY <2>2
    <3>2. Reading[r][1].map = <<>>
      BY <2>2, <2>5, <3>1, ReadingIs
    <3>3. line' = From(Line[r], 1)
      BY <2>2, <2>3, FromIs
    <3> QED
      BY <2>3, <2>4, <3>1, <3>2, <3>3 DEF Between
  <2> QED
    BY <2>1, <2>r, <2>3, <2>5 DEF OnTheWay
<1>2. CASE NextExpression
  <2>r. PICK r : r = Head(rules)
    OBVIOUS
  <2> DEFINE reading == Reading[r]
             text == Line[r]
  <2>1. rules # <<>> /\ rules' = rules /\ r \in Rules /\ Based(opStack)
    BY <1>2, <2>r DEF NextExpression, TypeOK, Based
  <2>2. /\ text \in Seq(Seq(Token))
        /\ reading # <<>> => IsReadingOf(reading, text)
    BY <2>1, RuleIs
  <2>3. ~Idle'
    <3>1. Head(line) \in Seq(Token) /\ Op("EOL") \in Token
      BY <1>2, Kinds, OpIs DEF NextExpression, TypeOK
    <3>2. Append(Head(line), Op("EOL")) # <<>>
      BY <3>1, Stacked
    <3> QED
      BY <1>2, <3>2 DEF NextExpression, Idle
  <2>4. ASSUME reading # <<>> PROVE Within(reading, text)'
    <3>1. Between(reading, text)
      BY <1>2, <2>r, <2>1, <2>4 DEF OnTheWay, NextExpression
    <3> HIDE DEF reading, text
    <3>2. PICK k \in 1 .. Len(text) :
            /\ line = From(text, k)
            /\ Top(opStack) = "EOL" /\ symbolMap = reading[k].map
      BY <3>1 DEF Between
    <3> DEFINE e == reading[k]
    <3>3. /\ e.parts \in Seq(Expression) \ {<<>>} /\ IsReading(e.parts, e.map)
          /\ e.name \in (Names \cup {LastValue}) \ (DOMAIN e.map \ {LastValue})
          /\ text[k] = Defining(e.name, Whole(e.parts).text)
      BY <2>2, <2>4, ReadingIs
    <3>4. PICK V : postFixStack \in Seq(V)
      BY DEF Stacks
    <3>5. opStack \in Seq(OnStack) /\ symbolStack \in Seq(AnyName)
      BY DEF TypeOK, AnyName
    <3>6. symbolMap = e.map /\ Top(opStack) = "EOL"
      BY <3>2
    <3> HIDE DEF e
    <3>7. \E U : \E f \in U :
            /\ Ends(f, e)
            /\ State(NoToken, Append(text[k], Op("EOL")), opStack, postFixStack,
                     symbolStack, symbolMap) \in LeadTo(f, U)
      BY <3>3, <3>4, <3>5, <3>6, ExpressionRead
    <3>8. Head(line) = text[k] /\ Tail(line) = From(text, k + 1)
      BY <2>2, <3>2, FromIs
    <3>9. Now' = State(NoToken, Append(text[k], Op("EOL")), opStack, postFixStack,
                       symbolStack, symbolMap)
      BY <1>2, <3>8 DEF NextExpression, Now, Idle, stacks
    <3>10. line' = From(text, k + 1)
      BY <1>2, <3>8 DEF NextExpression
    <3>11. \E U : \E f \in U : Ends(f, reading[k]) /\ Now' \in LeadTo(f, U)
      BY <3>7, <3>9 DEF e
    <3> QED
      BY <3>10, <3>11 DEF Within
  <2> QED
    BY <2>r, <2>1, <2>3, <2>4 DEF OnTheWay
<1>3. CASE Step
  <2>1. /\ Moves(Now) /\ Now' = After(Now) /\ ~Idle
        /\ rules' = rules /\ line' = line
    BY <1>3, StepIs
  <2>r. PICK r : r = Head(rules)
    OBVIOUS
  <2> DEFINE reading == Reading[r]
             text == Line[r]
  <2> SUFFICES ASSUME rules # <<>>, reading # <<>>
               PROVE  ~Idle' /\ Within(reading, text)'
    BY <2>1, <2>r DEF OnTheWay
  <2>2. Within(reading, text)
    BY <2>1, <2>r DEF OnTheWay
  <2> HIDE DEF reading, text
  <2>3. PICK k \in 1 .. Len(text) : \E U : \E f \in U :
               /\ line = From(text, k + 1)
               /\ Ends(f, reading[k]) /\ Now \in LeadTo(f, U)
    BY <2>2 DEF Within
  <2>4. PICK U : \E f \in U : /\ line = From(text, k + 1)
                             /\ Ends(f, reading[k]) /\ Now \in LeadTo(f, U)
    BY <2>3
  <2>f. PICK f \in U : /\ line = From(text, k + 1)
                       /\ Ends(f, reading[k]) /\ Now \in LeadTo(f, U)
    BY <2>4
  <2>5. Now # f
    <3>1. f.token = Op("EOL") /\ Top(f.ops) = "EOL"
      BY <2>f DEF Ends
    <3>2. ~Moves(f)
      <4>1. Op("EOL").type = "EOL" /\ Op("EOL") # NoToken
        BY OpIs
      <4>2. ~ReducedBy("EOL", "EOL")
        BY DEF ReducedBy, InputSymbol, TopOfStack
      <4> QED
        BY <3>1, <4>1, <4>2, Kinds DEF Moves
    <3> QED
      BY <2>1, <3>2
  <2>6. Now' \in LeadTo(f, U)
    BY <2>1, <2>f, <2>5, Onward
  <2>7. ~Idle'
    <3>1. SUFFICES ASSUME Idle' PROVE FALSE
      OBVIOUS
    <3>2. Now'.token = NoToken /\ Now'.expression = <<>>
      BY <3>1 DEF Now, State, Idle
    <3>3. ~Moves(Now')
      <4>1. /\ ~ReducedBy(Top(Now'.ops), "none") /\ ~IsOperator("none")
            /\ NoToken.type = "none"
        BY DEF ReducedBy, IsOperator, NoToken, Op
      <4> HIDE DEF Now
      <4> QED
        BY <3>2, <4>1 DEF Moves
    <3> DEFINE next == Now'
    <3>4. next \in LeadTo(f, U) /\ ~Moves(next) /\ next.token = NoToken
      BY <2>6, <3>2, <3>3
    <3> HIDE DEF next
    <3>5. next = f
      BY <3>4, Onward
    <3>6. f.token # NoToken
      BY <2>f, OpIs DEF Ends
    <3> QED
      BY <3>4, <3>5, <3>6
  <2>8. Within(reading, text)'
    <3>1. line' = From(text, k + 1) /\ Ends(f, reading[k]) /\ Now' \in LeadTo(f, U)
      BY <2>1, <2>f, <2>6
    <3> QED
      BY <3>1 DEF Within
  <2> QED
    BY <2>7, <2>8
<1>4. CASE EndExpression
  <2>1. rules # <<>>
    BY <1>4, Reducing, Busy DEF EndExpression
  <2>2. ~Idle /\ Idle' /\ line' = line
    <3>1. NoToken.type = "none"
      BY DEF NoToken, Op
    <3> QED
      BY <1>4, <3>1 DEF EndExpression, Idle
  <2>r. PICK r : r = Head(rules)
    OBVIOUS
  <2> DEFINE reading == Reading[r]
             text == Line[r]
  <2> SUFFICES ASSUME line # <<>>, reading # <<>>
               PROVE  Between(reading, text)'
    <3>1. line # <<>> => rules' = rules
      BY <1>4 DEF EndExpression
    <3> QED
      BY <2>2, <2>r, <3>1 DEF OnTheWay
  <2>3. Within(reading, text)
    BY <2>1, <2>2, <2>r DEF OnTheWay
  <2>4. text \in Seq(Seq(Token)) /\ IsReadingOf(reading, text)
    <3>1. r \in Rules
      BY <2>1, <2>r DEF TypeOK
    <3> QED
      BY <3>1, RuleIs
  <2> HIDE DEF reading, text
  <2>5. PICK k \in 1 .. Len(text) : \E U : \E f \in U :
               /\ line = From(text, k + 1)
               /\ Ends(f, reading[k]) /\ Now \in LeadTo(f, U)
    BY <2>3 DEF Within
  <2> DEFINE e == reading[k]
             v == Whole(e.parts).value
  <2>6. /\ TopValue(postFixStack) = v /\ Top(opStack) = "EOL"
        /\ symbolMap = Defined(e.map, e.name, v)
    BY <1>4, <2>5, AtTheEnd
  <2>7. k + 1 \in 1 .. Len(text) /\ k < Len(text)
    <3>1. Len(text) \in Nat
      BY <2>4
    <3>2. k # Len(text)
      BY <2>4, <2>5, FromIs
    <3> QED
      BY <3>1, <3>2
  <2>8. reading[k + 1].map = With(Defined(e.map, e.name, v), LastValue, v)
    BY <2>4, <2>7, ReadingIs
  <2>9. symbolMap' = reading[k + 1].map /\ opStack' = opStack /\ line' = From(text, k + 1)
    BY <1>4, <2>5, <2>6, <2>8 DEF EndExpression, Assign
  <2> HIDE DEF e, v
  <2>10. Between(reading, text)'
    BY <2>6, <2>7, <2>9 DEF Between
  <2> QED
    BY <2>10
<1>5. CASE Throw
  BY <1>5 DEF Throw, OnTheWay, Idle
<1>6. CASE UNCHANGED vars
  BY <1>6 DEF vars, OnTheWay, Between, Within, Now, Idle
<1> QED
  BY <1>1, <1>2, <1>3, <1>4, <1>5, <1>6 DEF Next, ProcessToken, BinaryOp, Step

\* An outcome is added at the end of the last expression of a line, or by the
\* exception, which no line that is well formed throws.
LEMMA RightNext ==
  TypeOK /\ Stacks /\ OnTheWay /\ RightValue /\ [Next]_vars => RightValue'
<1> SUFFICES ASSUME TypeOK, Stacks, OnTheWay, RightValue, [Next]_vars PROVE RightValue'
  OBVIOUS
<1>1. CASE outcomes' = outcomes
  BY <1>1 DEF RightValue
<1>2. CASE (EndExpression /\ line = <<>>) \/ Throw
  <2> DEFINE r == Head(rules)
             reading == Reading[r]
             text == Line[r]
  <2>1. rules # <<>> /\ token # NoToken
    <3>1. Throw => token.type # "none"
      BY DEF Throw, Reduces, ReducedBy, IsOperator
    <3>2. EndExpression => token.type # "none"
      BY DEF EndExpression
    <3> QED
      BY <1>2, <3>1, <3>2, Busy, Reducing
  <2>2. PICK v : outcomes' = Append(outcomes, [rule |-> r, value |-> v])
                   /\ (~Throw => v = TopValue(postFixStack))
    BY <1>2 DEF EndExpression, Throw, EndRule
  <2>3. ASSUME reading # <<>> PROVE v = Meaning(reading)
    <3>1. Within(reading, text)
      BY <2>1, <2>3 DEF OnTheWay, Idle
    <3>2. text \in Seq(Seq(Token)) /\ IsReadingOf(reading, text)
      <4>1. r \in Rules
        BY <2>1 DEF TypeOK
      <4> QED
        BY <2>3, <4>1, RuleIs
    <3> HIDE DEF r, reading, text
    <3>3. PICK k \in 1 .. Len(text) : \E U : \E f \in U :
                 /\ line = From(text, k + 1)
                 /\ Ends(f, reading[k]) /\ Now \in LeadTo(f, U)
      BY <3>1 DEF Within
    <3>4. /\ ~Throw
          /\ EndExpression => TopValue(postFixStack) = Whole(reading[k].parts).value
      BY <3>3, AtTheEnd
    <3>5. k = Len(text)
      <4>1. k + 1 \in 1 .. Len(text) => From(text, k + 1) # <<>>
        BY <3>2, FromIs
      <4>2. line = <<>> /\ Len(text) \in Nat
        BY <1>2, <3>2, <3>4
      <4> QED
        BY <3>3, <4>1, <4>2
    <3>6. Len(reading) = Len(text)
      BY <3>2, <3>3, ReadingIs
    <3> QED
      BY <1>2, <2>2, <3>4, <3>5, <3>6 DEF Meaning
  <2>4. PICK W : outcomes \in Seq(W)
    BY DEF Stacks
  <2>5. /\ Len(outcomes') = Len(outcomes) + 1 /\ Len(outcomes) \in Nat
        /\ \A i \in 1 .. Len(outcomes) : outcomes'[i] = outcomes[i]
        /\ outcomes'[Len(outcomes) + 1] = [rule |-> r, value |-> v]
    <3> HIDE DEF r
    <3> DEFINE new == [rule |-> r, value |-> v]
    <3> HIDE DEF new
    <3>1. outcomes' = Append(outcomes, new)
      BY <2>2 DEF new
    <3>2. /\ Len(Append(outcomes, new)) = Len(outcomes) + 1 /\ Len(outcomes) \in Nat
          /\ \A i \in 1 .. Len(outcomes) : Append(outcomes, new)[i] = outcomes[i]
          /\ Append(outcomes, new)[Len(outcomes) + 1] = new
      BY <2>4
    <3> QED
      BY <3>1, <3>2 DEF new
  <2>6. ASSUME NEW i \in 1 .. Len(outcomes'), Reading[outcomes'[i].rule] # <<>>
        PROVE  outcomes'[i].value = Meaning(Reading[outcomes'[i].rule])
    <3>1. CASE i = Len(outcomes) + 1
      BY <2>3, <2>5, <2>6, <3>1
    <3>2. CASE i \in 1 .. Len(outcomes)
      BY <2>5, <2>6, <3>2 DEF RightValue
    <3> QED
      BY <2>5, <3>1, <3>2
  <2> QED
    BY <2>6 DEF RightValue
<1> QED
  BY <1>1, <1>2 DEF Next, StartRule, NextExpression, GetToken, ProcessToken, PushOperand,
     CloseParenthesis, PushOperator, EndExpression, BinaryOp, DropParenthesis, Apply,
     Define, vars

\* Every condition that is well formed gets the value it means: whatever rules
\* were evaluated before it with the same stacks, for any expressions however
\* long and deep, and any definitions of names before it.
THEOREM ConditionsRight == Spec => []RightValue
<1>1. Init => RightValue
  BY DEF Init, RightValue
<1> QED
  BY TypeInit, TypeNext, StacksInit, StacksNext, OnTheWayInit, OnTheWayNext, <1>1,
     RightNext, PTL DEF Spec
=============================================================================
