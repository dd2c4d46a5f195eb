----------------------------- MODULE Calculator ------------------------------
(***************************************************************************)
(* Interpretor/part-1/Calculator.cpp: the value of one line of input, from *)
(* left to right, all operators alike.  A text is a sequence of tokens,    *)
(* each [type, value]; two integers in a row are set apart by a space, and *)
(* "unknown" is a character that begins no token.  int32_t has Bits bits.  *)
(***************************************************************************)
EXTENDS Integers, Sequences

Bits == 8

Operators == {"plus", "minus", "multiply", "divide", "mod", "power"}

MinInt == -(2 ^ (Bits - 1))
MaxInt == 2 ^ (Bits - 1) - 1

(* How Expr ends *)
Value(n) == [ends |-> "value", is |-> n]
AssertFails == [ends |-> "assert", is |-> 0]
OutOfRange == [ends |-> "threw", is |-> 0]      \* std::stoi
DividesByZero == [ends |-> "signal", is |-> 0]
-----------------------------------------------------------------------------
(* Arithmetic of int32_t *)

\* Overflow wraps around, as the instructions do.
Int32(n) == ((n - MinInt) % 2 ^ Bits) + MinInt

Abs(n) == IF n < 0 THEN -n ELSE n

\* Towards zero.
Quotient(a, b) == IF a < 0 THEN -(Abs(a) \div b) ELSE a \div b
Remainder(a, b) == IF a < 0 THEN -(Abs(a) % b) ELSE a % b

\* std::pow, kept within a bound that is out of range like all beyond it.
RECURSIVE Pow(_, _)
Pow(a, n) ==
  IF n = 0 THEN 1
  ELSE LET root == Pow(a, n \div 2)
       IN IF Abs(root) > MaxInt + 1 THEN root
          ELSE root * root * (IF n % 2 = 1 THEN a ELSE 1)

\* A double that is no int32_t becomes the least one.
FromDouble(n) == IF n \in MinInt..MaxInt THEN n ELSE MinInt
-----------------------------------------------------------------------------
(* Interpretor: [it, token] is the place in the text and current_ *)

Eof == [type |-> "eof", value |-> 0]

\* Variant of NextToken: what begins no token is passed over.
NextTokenSkips(text, s) ==
  LET known == {i \in s.it..Len(text) : text[i].type # "unknown"}
      i == CHOOSE i \in known : \A j \in known : i <= j
  IN IF known = {} THEN [s EXCEPT !.token = Eof] ELSE [it |-> i + 1, token |-> text[i]]

\* There is no default case in its switch (it says `defult'): a character that
\* begins no token stays where it is, and the token before comes once more.
NextToken(text, s) ==
  IF s.it > Len(text) THEN [s EXCEPT !.token = Eof]
  ELSE IF text[s.it].type = "unknown" THEN s
  ELSE [it |-> s.it + 1, token |-> text[s.it]]

\* The test of the type is passed each time: it is asked for by its own name.
Eat(text, s) == NextToken(text, s)

Apply(type, result, v) ==
  CASE type = "plus"     -> Value(Int32(result + v))
    [] type = "minus"    -> Value(Int32(result - v))
    [] type = "multiply" -> Value(Int32(result * v))
    [] type = "divide"   -> IF v = 0 THEN DividesByZero ELSE Value(Quotient(result, v))
    [] type = "mod"      -> IF v = 0 THEN DividesByZero ELSE Value(Remainder(result, v))
    [] type = "power"    -> Value(FromDouble(Pow(result, v)))
    [] OTHER             -> AssertFails

Stoi(token) == IF token.value > MaxInt THEN OutOfRange ELSE Value(token.value)

\* The loop: an operator, an integer, and on to what follows.
RECURSIVE Operations(_, _, _)
Operations(text, s, result) ==
  IF s.token.type = "eof" THEN Value(result)
  ELSE LET op == s.token
           right == Eat(text, s)
           v == Stoi(right.token)
           next == Apply(op.type, result, right.token.value)
       IN IF right.token.type # "integer" THEN AssertFails
          ELSE IF v.ends # "value" THEN v
          ELSE IF next.ends # "value" THEN next
          ELSE Operations(text, Eat(text, right), next.is)

Expr(text) ==
  LET first == NextToken(text, [it |-> 1, token |-> Eof])
      v == Stoi(first.token)
  IN IF first.token.type # "integer" THEN AssertFails
     ELSE IF v.ends # "value" THEN v
     ELSE Operations(text, Eat(text, first), v.is)
=============================================================================
