---------------------------- MODULE Expressions ----------------------------
(***************************************************************************)
(* The `${{ }}` expressions (tmx-core/src/interpolate.rs): the tokenizer,  *)
(* the precedence-climbing parser with its depth bound, and the evaluator  *)
(* over the scope of a task.  The tree is bounded by the recursion of the  *)
(* parser, which an infix chain does not deepen.                           *)
(*                                                                         *)
(* A source is a sequence of lexemes: <<"id", name>>, <<"lit", value>>,    *)
(* the punctuation <<"!">>, <<"&&">>, ..., <<"ws">> (space, tab), <<"nl">>  *)
(* (newline, return) and <<"bad">> for any text the tokenizer refuses: a   *)
(* lone `=`, `&` or `|`, an open string, an unknown escape, a malformed    *)
(* number, another character.  How characters make lexemes is left out.    *)
(***************************************************************************)
EXTENDS JsonEquality, Integers, SequencesExt

CONSTANTS
  ExprLenMax,     \* EXPR_LEN_MAX_BYTES, counted in lexemes
  ExprDepthMax    \* EXPR_DEPTH_MAX

ASSUME ExprBounds == ExprLenMax \in Nat /\ ExprDepthMax \in Nat \ {0}

Unbound == <<"unbound">>

-----------------------------------------------------------------------------
(* Results: a value or the code of a RunError of the resolution category. *)

Ok(v) == <<"ok", v>>
Err(code) == <<"err", code>>
IsOk(r) == r[1] = "ok"

-----------------------------------------------------------------------------
(* The parser *)

BangBp == 7

BindingPower == [o \in {"||", "&&", "===", "!=="} |->
  CASE o = "||" -> <<1, 2>>
    [] o = "&&" -> <<3, 4>>
    [] OTHER -> <<5, 6>>]

\* Mutant of InfixBp: equality binds as loosely as `&&`.
EqualsAnd(op) == BindingPower[IF op \in {"===", "!=="} THEN "&&" ELSE op]

\* Left and right binding power: all binary operators associate to the left.
InfixBp(op) == BindingPower[op]

Parsed(tree, pos) == [code |-> "", tree |-> tree, pos |-> pos]
Refused(code) == [code |-> code, tree |-> <<"none">>, pos |-> 0]

\* White space is dropped; text that is no lexeme refuses the expression.
Tokenize(src) ==
  IF \E i \in 1..Len(src) : src[i] = <<"bad">>
  THEN Refused("expr_parse_error")
  ELSE Parsed(SelectSeq(src, LAMBDA x : x[1] \notin {"ws", "nl"}), 1)

Kind(ts, pos) == IF pos <= Len(ts) THEN ts[pos][1] ELSE "end"

\* What follows an inner expression: the bracket that closes it, or an error.
Closed(inner, ts, bracket) ==
  IF inner.code # "" THEN inner
  ELSE IF Kind(ts, inner.pos) = bracket THEN [inner EXCEPT !.pos = @ + 1]
  ELSE Refused("expr_parse_error")

RECURSIVE ParseBp(_, _, _, _), Infix(_, _, _, _), ParseSteps(_, _, _, _)

\* The `.field` and `[index]` steps after a root; only an index recurses.
ParseSteps(ts, pos, depth, steps) ==
  CASE Kind(ts, pos) = "." ->
         IF Kind(ts, pos + 1) = "id"
         THEN ParseSteps(ts, pos + 2, depth,
                         Append(steps, <<"field", ts[pos + 1][2]>>))
         ELSE Refused("expr_parse_error")
    [] Kind(ts, pos) = "[" ->
         LET index == Closed(ParseBp(ts, pos + 1, 0, depth + 1), ts, "]")
         IN  IF index.code # "" THEN index
             ELSE ParseSteps(ts, index.pos, depth,
                             Append(steps, <<"index", index.tree>>))
    [] OTHER -> Parsed(steps, pos)

\* The prefix or primary of an expression.
Primary(ts, pos, depth) ==
  CASE Kind(ts, pos) = "!" ->
         LET operand == ParseBp(ts, pos + 1, BangBp, depth + 1)
         IN  IF operand.code # "" THEN operand
             ELSE Parsed(<<"not", operand.tree>>, operand.pos)
    [] Kind(ts, pos) = "(" ->
         Closed(ParseBp(ts, pos + 1, 0, depth + 1), ts, ")")
    [] Kind(ts, pos) = "lit" -> Parsed(ts[pos], pos + 1)
    [] Kind(ts, pos) = "id" ->
         LET steps == ParseSteps(ts, pos + 1, depth, <<>>)
         IN  IF steps.code # "" THEN steps
             ELSE Parsed(<<"path", ts[pos][2], steps.tree>>, steps.pos)
    [] OTHER -> Refused("expr_parse_error")

\* The infix loop: operators at least as tight as `min` extend the tree.
Infix(ts, lhs, min, depth) ==
  LET op == Kind(ts, lhs.pos)
  IN  IF lhs.code # "" THEN lhs
      ELSE IF op \notin DOMAIN BindingPower THEN lhs
      ELSE IF InfixBp(op)[1] < min THEN lhs
      ELSE LET rhs == ParseBp(ts, lhs.pos + 1, InfixBp(op)[2], depth + 1)
           IN  IF rhs.code # "" THEN rhs
               ELSE Infix(ts, Parsed(<<"bin", op, lhs.tree, rhs.tree>>, rhs.pos),
                          min, depth)

ParseBp(ts, pos, min, depth) ==
  IF depth > ExprDepthMax THEN Refused("expr_too_deep")
  ELSE Infix(ts, Primary(ts, pos, depth), min, depth)

\* The length is checked first, and the whole input must be one expression.
Parse(src) ==
  IF Len(src) > ExprLenMax THEN Refused("expr_too_long")
  ELSE LET tokens == Tokenize(src)
           expr == ParseBp(tokens.tree, 1, 0, 1)
       IN  IF tokens.code # "" THEN tokens
           ELSE IF expr.code = "" /\ expr.pos # Len(tokens.tree) + 1
           THEN Refused("expr_parse_error")
           ELSE expr

-----------------------------------------------------------------------------
(* The evaluator *)

\* Read a key of an object; only the first step under `secrets` has its own
\* failure.
AccessKey(v, key, secretFirst) ==
  IF ~IsObj(v) THEN Err("type_mismatch")
  ELSE IF key \in DOMAIN v[2] THEN Ok(v[2][key])
  ELSE Err(IF secretFirst THEN "unlisted_secret" ELSE "unknown_namespace")

AccessIndex(v, n) ==
  IF ~IsArr(v) THEN Err("type_mismatch")
  ELSE IF n < Len(v[2]) THEN Ok(v[2][n + 1])
  ELSE Err("unknown_namespace")

Namespaces == {"inputs", "env", "secrets", "tasks", "matrix", "case", "output"}

\* An element of a `map` as its tasks see it: an object without an `index`
\* of its own gets its position under that key.
BindItem(element, index) ==
  IF IsObj(element)
  THEN Obj([k \in DOMAIN element[2] \cup {"index"} |->
              IF k \in DOMAIN element[2] THEN element[2][k] ELSE index])
  ELSE element

\* The root a path starts from: a namespace, or the element of a `map` under
\* its alias.  A root that this scope does not bind is unknown.
Base(root, scope) ==
  CASE root \in Namespaces -> scope[root]
    [] root \notin Namespaces /\ root = scope.alias -> scope.item
    [] OTHER -> Unbound

\* `<alias>.index` of an element that is no object is its position.
IsItemIndex(root, steps, scope) ==
  /\ root \notin Namespaces /\ root = scope.alias
  /\ scope.item # Unbound /\ ~IsObj(scope.item)
  /\ steps = <<(<<"field", "index">>)>>
  /\ scope.index # Null

\* `===`: equal type and equal value, containers by their structure.
StrictEq(a, b) == SameJson(a, b)

RECURSIVE Eval(_, _), Walk(_, _, _, _)

\* Apply the steps of a path, each to what the one before it read.
Walk(v, steps, first, scope) ==
  IF steps = <<>> THEN Ok(v)
  ELSE LET step == Head(steps)
           key == IF step[1] = "field" THEN Ok(Str(step[2])) ELSE Eval(step[2], scope)
           read == IF ~IsOk(key) THEN key
                   ELSE IF IsStr(key[2]) THEN AccessKey(v, key[2][2], first)
                   ELSE IF IsNum(key[2]) /\ key[2][3] = "int" /\ key[2][2] >= 0
                   THEN AccessIndex(v, key[2][2])
                   ELSE Err("type_mismatch")
       IN  IF ~IsOk(read) THEN read ELSE Walk(read[2], Tail(steps), FALSE, scope)

\* A path: its base, then its steps.
ResolvePath(root, steps, scope) ==
  IF Base(root, scope) = Unbound THEN Err("unknown_namespace")
  ELSE IF IsItemIndex(root, steps, scope) THEN Ok(scope.index)
  ELSE Walk(Base(root, scope), steps, root = "secrets", scope)

\* `&&` and `||` answer an operand, and read the right one only when needed.
EvalBinary(op, l, rhs, scope) ==
  CASE op = "&&" -> IF IsTruthy(l) THEN Eval(rhs, scope) ELSE Ok(l)
    [] op = "||" -> IF IsTruthy(l) THEN Ok(l) ELSE Eval(rhs, scope)
    [] OTHER ->
         LET r == Eval(rhs, scope)
         IN  IF ~IsOk(r) THEN r
             ELSE Ok(Bool(StrictEq(l, r[2]) = (op = "===")))

Eval(tree, scope) ==
  CASE tree[1] = "lit" -> Ok(tree[2])
    [] tree[1] = "not" ->
         LET v == Eval(tree[2], scope)
         IN  IF IsOk(v) THEN Ok(Bool(~IsTruthy(v[2]))) ELSE v
    [] tree[1] = "path" -> ResolvePath(tree[2], tree[3], scope)
    [] OTHER ->
         LET l == Eval(tree[3], scope)
         IN  IF IsOk(l) THEN EvalBinary(tree[2], l[2], tree[4], scope) ELSE l

\* `evaluate`: parse, then evaluate.
Evaluate(src, scope) ==
  LET expr == Parse(src)
  IN  IF expr.code # "" THEN Err(expr.code) ELSE Eval(expr.tree, scope)

-----------------------------------------------------------------------------
(* Templates: texts with `${{ }}` in them.  To the lexemes come <<"${{">>,  *)
(* <<"}}">> and <<"text", s>>, which no expression has.                     *)

\* The text of a value that is spliced: JSON, unless it is a string.  What
\* JSON a container is written as is left out.
ValueToStr(v) ==
  CASE IsStr(v) -> v[2]
    [] IsNum(v) -> (IF v = MinusZero THEN "-" ELSE "")
                   \o ToString(v[2]) \o (IF v[3] = "int" THEN "" ELSE ".0")
    [] v[1] = "bool" -> IF v[2] THEN "true" ELSE "false"
    [] v = Null -> "null"
    [] OTHER -> "json"

\* A lexeme outside of an expression is the text it is.
Written(x) ==
  CASE x[1] \in {"text", "id"} -> x[2]
    [] x[1] = "lit" -> ValueToStr(x[2])
    [] x[1] \in {"ws", "nl"} -> " "
    [] OTHER -> x[1]

Spell(text) == FoldLeft(LAMBDA s, x : s \o Written(x), "", text)

\* Blanks and newlines at either end dropped.
Trim(text) ==
  LET ink == {i \in 1..Len(text) : text[i][1] \notin {"ws", "nl"}}
  IN  IF ink = {} THEN <<>> ELSE SubSeq(text, Min(ink), Max(ink))

\* From `${{` to `}}`, with no second `${{` between: its value, not its text.
IsLone(text) ==
  /\ Len(text) > 1 /\ text[1] = <<"${{">> /\ text[Len(text)] = <<"}}">>
  /\ <<"${{">> \notin ToSet(SubSeq(text, 2, Len(text) - 1))

RECURSIVE Splice(_, _, _)

\* Every expression's text in the place of the expression.
Splice(text, done, scope) ==
  LET open == Min({i \in 1..Len(text) : text[i] = <<"${{">>} \cup {Len(text) + 1})
      close == Min({i \in open..Len(text) : text[i] = <<"}}">>} \cup {Len(text) + 1})
      before == done \o Spell(SubSeq(text, 1, open - 1))
      value == Evaluate(Trim(SubSeq(text, open + 1, close - 1)), scope)
  IN  IF open > Len(text) THEN Ok(Str(before))
      ELSE IF close > Len(text) THEN Err("expr_unterminated")
      ELSE IF ~IsOk(value) THEN value
      ELSE Splice(SubSeq(text, close + 1, Len(text)), before \o ValueToStr(value[2]), scope)

\* `interp_template`
InterpTemplate(text, scope) ==
  IF IsLone(Trim(text))
  THEN Evaluate(Trim(SubSeq(Trim(text), 2, Len(Trim(text)) - 1)), scope)
  ELSE Splice(text, "", scope)

-----------------------------------------------------------------------------
(* The grammar, as a definition to measure the parser against *)

Levels == <<{"||"}, {"&&"}, {"===", "!=="}>>

RECURSIVE Trees(_, _, _, _), StepsOf(_, _, _)

\* The step sequences that ts[i..j] spells.
StepsOf(ts, i, j) ==
  (IF i > j THEN {<<>>} ELSE {})
  \cup (IF i < j /\ ts[j][1] = "id" /\ ts[j - 1][1] = "."
        THEN {Append(s, <<"field", ts[j][2]>>) : s \in StepsOf(ts, i, j - 2)}
        ELSE {})
  \cup (IF i < j /\ ts[j][1] = "]"
        THEN UNION {{Append(s, <<"index", e>>) :
                       s \in StepsOf(ts, i, k - 1), e \in Trees(1, ts, k + 1, j - 1)}
                    : k \in {k \in i..j : ts[k][1] = "["}}
        ELSE {})

\* The trees that the grammar gives ts[i..j] at a level: 1 or, 2 and,
\* 3 equality, 4 unary.  A binary level is one operand, or a sentence of the
\* level, an operator of the level and an operand of the next.
Trees(level, ts, i, j) ==
  IF i > j THEN {}
  ELSE IF level <= 3
  THEN Trees(level + 1, ts, i, j)
       \cup UNION {{<<"bin", ts[k][1], l, r>> :
                      l \in Trees(level, ts, i, k - 1), r \in Trees(level + 1, ts, k + 1, j)}
                   : k \in {k \in i..j : ts[k][1] \in Levels[level]}}
  ELSE (IF i = j /\ ts[i][1] = "lit" THEN {ts[i]} ELSE {})
       \cup (IF ts[i][1] = "!" THEN {<<"not", e>> : e \in Trees(4, ts, i + 1, j)} ELSE {})
       \cup (IF ts[i][1] = "(" /\ ts[j][1] = ")" THEN Trees(1, ts, i + 1, j - 1) ELSE {})
       \cup (IF ts[i][1] = "id"
             THEN {<<"path", ts[i][2], s>> : s \in StepsOf(ts, i + 1, j)} ELSE {})

\* The tokens that each open one more level of the parser's recursion.
Openers(ts) ==
  Cardinality({i \in 1..Len(ts) :
    ts[i][1] \in {"!", "(", "["} \cup DOMAIN BindingPower})


-----------------------------------------------------------------------------
(* What the parser promises *)

\* A source is parsed into the one tree that the grammar has for it, is
\* refused when there is none, and is called too long or too deep only then.
ParsedByGrammar(src) ==
  LET expr == Parse(src)
      tokens == SelectSeq(src, LAMBDA x : x[1] \notin {"ws", "nl"})
  IN  CASE expr.code = "" ->
             Trees(1, tokens, 1, Len(tokens)) = {expr.tree} /\ <<"bad">> \notin ToSet(src)
        [] expr.code = "expr_too_long" -> Len(src) > ExprLenMax
        [] expr.code = "expr_too_deep" -> Openers(tokens) >= ExprDepthMax
        [] OTHER -> \/ <<"bad">> \in ToSet(src)
                    \/ Trees(1, tokens, 1, Len(tokens)) = {}

=============================================================================
