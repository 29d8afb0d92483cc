------------------------------ MODULE Calculator ------------------------------
(***************************************************************************)
(* The expressions of the "cal" command and of the calculator on the       *)
(* screen (calculator/calculator.c): the tree that _get_expr_tree builds.  *)
(* A number is left as its digits.  No blank reaches calculate: the shell  *)
(* splits its arguments at blanks, and the screen has no key for one.      *)
(***************************************************************************)
EXTENDS Integers, Sequences

LOCAL INSTANCE FiniteSetsExt
LOCAL INSTANCE SequencesExt

CONSTANTS
  Digit, Signs, Factors,  \* "0" ..., "+" and "-", "*" and "/"
  LB, RB,                 \* the brackets
  EXPR_MAX                \* bound: the length of an expression

VARIABLE expression       \* what has been typed

calVars == <<expression>>

-----------------------------------------------------------------------------
(* Every function gets the rest of the text and returns a tree, or << >>   *)
(* for NULL, and what is left.                                             *)

Nothing(s) == [tree |-> << >>, rest |-> s]
Chars(s, n) == SubSeq(s, 1, n)
From(s, n) == SubSeq(s, n + 1, Len(s))
Starts(s, C) == s # << >> /\ s[1] \in C

\* A sign and the digits that follow.
get_operand_node(s) ==
  LET sign == IF Starts(s, Signs) THEN 1 ELSE 0
      len  == Max({n \in sign .. Len(s) : \A i \in sign + 1 .. n : s[i] \in Digit})
  IN  IF len = sign THEN Nothing(s) ELSE [tree |-> <<"number", Chars(s, len)>>, rest |-> From(s, len)]

\* The position of the bracket that matches the first one, or 0.
closing(s) ==
  LET open(n)   == Len(SelectSeq(Chars(s, n), LAMBDA c : c = LB))
      closed(n) == Len(SelectSeq(Chars(s, n), LAMBDA c : c = RB))
      C == {n \in 1 .. Len(s) : open(n) = closed(n)}
  IN  IF C = {} THEN 0 ELSE Min(C)

RECURSIVE get_expr_tree(_), get_expr_more(_, _), get_term_more(_, _)

get_prim(s) ==
  IF ~ Starts(s, {LB}) THEN get_operand_node(s)
  ELSE IF closing(s) = 0 THEN Nothing(s)
  ELSE [tree |-> get_expr_tree(SubSeq(s, 2, closing(s) - 1)).tree, rest |-> From(s, closing(s))]

\* Mutant: the right operand is a whole term.
get_term_more_right(left, s) ==
  IF left = << >> \/ ~ Starts(s, Factors) THEN [tree |-> left, rest |-> s]
  ELSE LET right == get_term_more(get_prim(Tail(s)).tree, get_prim(Tail(s)).rest)
       IN  IF right.tree = << >> THEN right
           ELSE [tree |-> <<s[1], left, right.tree>>, rest |-> right.rest]

\* The loop of _get_term_tree, with the tree so far.
get_term_more(left, s) ==
  IF left = << >> \/ ~ Starts(s, Factors) THEN [tree |-> left, rest |-> s]
  ELSE LET right == get_prim(Tail(s))
       IN  IF right.tree = << >> THEN right
           ELSE get_term_more(<<s[1], left, right.tree>>, right.rest)

get_term_tree(s) == get_term_more(get_prim(s).tree, get_prim(s).rest)

\* The loop of _get_expr_tree: any character is taken for an operator.
get_expr_more(left, s) ==
  IF left = << >> \/ s = << >> THEN [tree |-> left, rest |-> s]
  ELSE LET right == get_term_tree(Tail(s))
       IN  IF right.tree = << >> THEN right
           ELSE get_expr_more(<<s[1], left, right.tree>>, right.rest)

get_expr_tree(s) == get_expr_more(get_term_tree(s).tree, get_term_tree(s).rest)

-----------------------------------------------------------------------------

calInit == expression = << >>

Type(c) ==
  /\ Len(expression) < EXPR_MAX
  /\ expression' = Append(expression, c)

calNext == \E c \in Digit \cup Signs \cup Factors \cup {LB, RB} : Type(c)

calSpec == calInit /\ [][calNext]_calVars

-----------------------------------------------------------------------------
(* The reference: the trees that the usual grammar gives a text.           *)

RECURSIVE Exprs(_), Terms(_)

Numbers(s) ==
  LET d == IF Starts(s, Signs) THEN Tail(s) ELSE s
  IN  IF d # << >> /\ ToSet(d) \subseteq Digit THEN {<<"number", s>>} ELSE {}

Prims(s) ==
  Numbers(s) \cup
  IF Len(s) > 2 /\ s[1] = LB /\ s[Len(s)] = RB THEN Exprs(SubSeq(s, 2, Len(s) - 1)) ELSE {}

\* A left part, an operator of Ops at i, and a right part.
Terms(s) ==
  Prims(s) \cup UNION {{<<s[i], l, r>> : l \in Terms(Chars(s, i - 1)), r \in Prims(From(s, i))} :
                        i \in {j \in 2 .. Len(s) : s[j] \in Factors}}

Exprs(s) ==
  Terms(s) \cup UNION {{<<s[i], l, r>> : l \in Exprs(Chars(s, i - 1)), r \in Terms(From(s, i))} :
                        i \in {j \in 2 .. Len(s) : s[j] \in Signs}}

\* "cal 2+3*(7+8)/2": every expression of the grammar gets its tree: the operators
\* bind from the left, * and / before + and -, brackets before both, and a sign
\* belongs to its number.
ParsesByPrecedence ==
  LET E == Exprs(expression) IN E # {} => E = {get_expr_tree(expression).tree}
=============================================================================
