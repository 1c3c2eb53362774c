-------------------------------- MODULE Arith --------------------------------
(***************************************************************************)
(* Arithmetic (src/arith): a lexer one token ahead of a parser that        *)
(* evaluates as it reads.  A text is a sequence of one-character strings.  *)
(* The state p holds the text s, the position pos, the token cur, the two  *)
(* error flags (err the parser's, lexerr the lexer's), nse (a branch not   *)
(* taken: no assignment may happen), the variables env, the depth of       *)
(* nested values, and v, the value of the last thing read.  With toks not  *)
(* empty the lexer replays cached tokens and pos indexes them.             *)
(* A variable is [s, a]: its text, or its elements for an array.  Numbers  *)
(* wrap at Width bits.                                                     *)
(***************************************************************************)
EXTENDS Integers, Sequences, FiniteSets, SequencesExt, Bitwise

CONSTANTS Width, Nesting               \* bits of a number; 100 in the code

LMIN == -(2 ^ (Width - 1))
Wrap(n) == ((n - LMIN) % (2 ^ Width)) + LMIN
Bit(b) == IF b THEN 1 ELSE 0
\* C division truncates towards zero
Quot(l, r) == IF (l < 0) = (r < 0) THEN (IF l < 0 THEN -l ELSE l) \div (IF r < 0 THEN -r ELSE r)
              ELSE -((IF l < 0 THEN -l ELSE l) \div (IF r < 0 THEN -r ELSE r))
Unsigned(n) == n % (2 ^ Width)
Complement(n) == -n - 1

Digit(c) == CASE c = "0" -> 0 [] c = "1" -> 1 [] c = "2" -> 2 [] c = "8" -> 8 [] c = "f" -> 15 [] OTHER -> -1
is_var_start(c) == c \in {"i", "v", "w", "t", "x", "f"}
is_var_char(c) == is_var_start(c) \/ Digit(c) >= 0

-----------------------------------------------------------------------------
(* The lexer: the token at i, [t, n, name, sub, to]; t is an operator's    *)
(* text, "num", "var", "eof" or "bad".                                     *)

At(s, i) == IF i \in 1..Len(s) THEN s[i] ELSE "end"
Token(t, n, name, sub, to) == [t |-> t, n |-> n, name |-> name, sub |-> sub, to |-> to]
Operator(t, to) == Token(t, 0, "", <<>>, to)

RECURSIVE skip_whitespace(_, _)
skip_whitespace(s, i) == IF At(s, i) \in {" ", "nl"} THEN skip_whitespace(s, i + 1) ELSE i

RECURSIVE parse_digits(_, _, _, _)
parse_digits(s, i, base, val) ==       \* [n, to]
    LET d == Digit(At(s, i)) IN
    IF d < 0 \/ d >= base THEN [n |-> val, to |-> i]
    ELSE parse_digits(s, i + 1, base, Wrap(val * base + d))
get_base(s, i) ==                      \* the base and where the digits start
    CASE At(s, i) = "0" /\ At(s, i + 1) = "x" -> [base |-> 16, from |-> i + 2]
      [] At(s, i) = "0" /\ Digit(At(s, i + 1)) \in 0..9 -> [base |-> 8, from |-> i + 1]
      [] OTHER -> [base |-> 10, from |-> i]
base_ok(n) == n \in 2..64
lex_number(s, i) ==
    LET d == parse_digits(s, i, 10, 0)
        b == get_base(s, i)
        n == CASE At(s, d.to) = "#" /\ base_ok(d.n) -> parse_digits(s, d.to + 1, d.n, 0)
               [] At(s, d.to) = "#" /\ ~base_ok(d.n) -> [n |-> 0, to |-> d.to]
               [] OTHER -> parse_digits(s, b.from, b.base, 0)
    IN  Token("num", n.n, "", <<>>, n.to)

lex_subscript(s, i) ==                 \* past the ] of the [ at i, or 0
    LET Depth(j) == Len(SelectSeq(SubSeq(s, i, j), LAMBDA c : c = "["))
                    - Len(SelectSeq(SubSeq(s, i, j), LAMBDA c : c = "]"))
        ends == {j \in i..Len(s) : s[j] = "]" /\ Depth(j) = 0}
    IN  IF At(s, i) # "[" THEN i
        ELSE IF ends = {} THEN 0 ELSE 1 + CHOOSE j \in ends : \A k \in ends : j <= k
RECURSIVE name_end(_, _)
name_end(s, i) == IF is_var_char(At(s, i)) THEN name_end(s, i + 1) ELSE i
lex_variable(s, i) ==                  \* names have one letter here
    LET e == name_end(s, i)
        z == lex_subscript(s, e)
    IN  IF z = 0 THEN Operator("bad", e + 1)
        ELSE Token("var", 0, s[i], IF z = e THEN <<>> ELSE SubSeq(s, e + 1, z - 2), z)
lex_dollar_var(s, i) ==
    LET braced == At(s, i + 1) = "{"
        j == IF braced THEN i + 2 ELSE i + 1
        tok == IF is_var_char(At(s, j)) THEN lex_variable(s, j) ELSE Operator("bad", j + 1)
    IN  IF braced /\ At(s, tok.to) = "}" THEN [tok EXCEPT !.to = @ + 1] ELSE tok

lex_two_char_op(s, i, c2, single, dbl) ==
    IF At(s, i + 1) = c2 THEN Operator(dbl, i + 2) ELSE Operator(single, i + 1)
handle_angle(s, i, c) ==
    IF At(s, i + 1) = "=" THEN Operator(c \o "=", i + 2) ELSE lex_two_char_op(s, i, c, c, c \o c)
handle_common_single(c, i) ==
    Operator(IF c \in {"/", "%", "(", ")", "?", ":", ",", "~", "^"} THEN c ELSE "bad", i + 1)
lex_operator(s, i) ==
    CASE s[i] = "*" -> lex_two_char_op(s, i, "*", "*", "**")
      [] s[i] \in {"<", ">"} -> handle_angle(s, i, s[i])
      [] s[i] = "=" -> lex_two_char_op(s, i, "=", "=", "==")
      [] s[i] = "!" -> lex_two_char_op(s, i, "=", "!", "!=")
      [] s[i] \in {"&", "|", "+", "-"} -> lex_two_char_op(s, i, s[i], s[i], s[i] \o s[i])
      [] OTHER -> handle_common_single(s[i], i)

Scan(s, i0) ==
    LET i == skip_whitespace(s, i0) IN
    CASE At(s, i) = "end" -> Operator("eof", i)
      [] Digit(At(s, i)) \in 0..9 -> lex_number(s, i)
      [] is_var_start(At(s, i)) -> lex_variable(s, i)
      [] At(s, i) = "$" -> lex_dollar_var(s, i)
      [] OTHER -> lex_operator(s, i)
\* an operator that fits nothing, or a base out of range
sets_lex_error(s, i0, tok) ==
    tok.t = "bad" \/ (tok.t = "num" /\ At(s, tok.to) = "#"
                      /\ ~base_ok(parse_digits(s, skip_whitespace(s, i0), 10, 0).n))
arith_lexer_advance(p) ==
    IF p.toks # <<>>
    THEN [p EXCEPT !.cur = IF p.pos <= Len(p.toks) THEN p.toks[p.pos] ELSE Operator("eof", 0),
                   !.pos = @ + 1]
    ELSE LET tok == Scan(p.s, p.pos)
         IN  [p EXCEPT !.cur = tok, !.pos = tok.to, !.lexerr = @ \/ sets_lex_error(p.s, p.pos, tok)]

RECURSIVE lex_all(_, _)
lex_all(s, i) ==                       \* the cached tokens, their last an end or an error
    LET tok == Scan(s, i) IN IF tok.t \in {"eof", "bad"} THEN <<tok>> ELSE <<tok>> \o lex_all(s, tok.to)

-----------------------------------------------------------------------------
(* Operators.                                                              *)

Failed(p) == [p EXCEPT !.err = TRUE, !.v = 0]
Val(p, n) == [p EXCEPT !.v = n]
apply_muldiv(p, op, l, r) ==
    CASE op = "*" -> Val(p, Wrap(l * r))
      [] op # "*" /\ r = 0 -> [p EXCEPT !.err = @ \/ ~p.nse, !.v = 0]
      [] op # "*" /\ l = LMIN /\ r = -1 -> Val(p, IF op = "/" THEN LMIN ELSE 0)
      [] op = "/" /\ r # 0 /\ ~(l = LMIN /\ r = -1) -> Val(p, Quot(l, r))
      [] op = "%" /\ r # 0 /\ ~(l = LMIN /\ r = -1) -> Val(p, l - r * Quot(l, r))
apply_shift_add(op, l, r) ==           \* a count out of range is undefined in C
    CASE op = "<<" -> Wrap(l * 2 ^ (r % Width))
      [] op = ">>" -> l \div 2 ^ (r % Width)
      [] op = "+" -> Wrap(l + r)
      [] op = "-" -> Wrap(l - r)
apply_bitwise(op, l, r) ==
    CASE op = "|" -> Wrap(Unsigned(l) | Unsigned(r))
      [] op = "^" -> Wrap(Unsigned(l) ^^ Unsigned(r))
      [] op = "&" -> Wrap(Unsigned(l) & Unsigned(r))
apply_cmp(op, l, r) ==
    Bit(CASE op = "==" -> l = r [] op = "!=" -> l # r [] op = "<" -> l < r
          [] op = "<=" -> l <= r [] op = ">" -> l > r [] op = ">=" -> l >= r)
apply_binop(p, op, l, r) ==
    CASE op \in {"*", "/", "%"} -> apply_muldiv(p, op, l, r)
      [] op \in {"<<", ">>", "+", "-"} -> Val(p, apply_shift_add(op, l, r))
      [] op \in {"|", "^", "&"} -> Val(p, apply_bitwise(op, l, r))
      [] OTHER -> Val(p, apply_cmp(op, l, r))
binop_prec(op) ==
    CASE op \in {"*", "/", "%"} -> 8 [] op \in {"+", "-"} -> 7 [] op \in {"<<", ">>"} -> 6
      [] op \in {"<", "<=", ">", ">="} -> 5 [] op \in {"==", "!="} -> 4
      [] op = "&" -> 3 [] op = "^" -> 2 [] op = "|" -> 1 [] OTHER -> 0
is_compound_op(op) == op \in {"+", "-", "*", "/", "%", "<<", ">>", "&", "^", "|"}

-----------------------------------------------------------------------------
(* Variables.  A text that is not a plain number is evaluated in turn.     *)

RECURSIVE arith_run(_), get_var_value(_, _), set_var_value(_, _, _), arith_parse_expr(_),
          arith_parse_ternary(_), arith_parse_or(_), arith_parse_and(_), arith_parse_binop(_, _),
          arith_parse_unary(_), and_rest(_), or_rest(_), expr_rest(_), binop_rest(_, _)

Start(s, env, nse, depth) ==
    arith_lexer_advance([s |-> s, pos |-> 1, cur |-> Operator("eof", 0), toks |-> <<>>, err |-> FALSE,
                         lexerr |-> FALSE, nse |-> nse, env |-> env, depth |-> depth, v |-> 0])
\* numbers are kept as n, texts as s
Number(n) == [k |-> "num", n |-> n, s |-> <<>>, a |-> <<>>]
Text(s) == [k |-> "text", n |-> 0, s |-> s, a |-> <<>>]
Array(a) == [k |-> "array", n |-> 0, s |-> <<>>, a |-> a]

resolve_recursive(p, s) ==
    IF p.depth >= Nesting THEN Failed(p)
    ELSE LET r == arith_run(Start(s, p.env, p.nse, p.depth + 1))
         IN  [p EXCEPT !.env = r.env, !.err = @ \/ r.err, !.v = r.v]
\* a subscript is evaluated on its own, as $(( )) would be: not as p is
sub_number(p, sub) == arith_run(Start(sub, p.env, FALSE, p.depth))
arith_elem_get(p, tok) ==
    LET i == sub_number(p, tok.sub)
        a == p.env[tok.name].a
        k == IF i.v < 0 THEN i.v + Len(a) ELSE i.v
    IN  [p EXCEPT !.env = i.env, !.err = @ \/ i.err, !.v = IF k \in 0..Len(a) - 1 THEN a[k + 1] ELSE 0]
get_var_value(p, tok) ==
    LET x == p.env[tok.name] IN
    CASE tok.sub # <<>> -> arith_elem_get(p, tok)
      [] tok.sub = <<>> /\ x.k = "num" -> Val(p, x.n)
      [] tok.sub = <<>> /\ x.k = "text" -> resolve_recursive(p, x.s)
      [] tok.sub = <<>> /\ x.k = "array" -> Val(p, IF x.a = <<>> THEN 0 ELSE x.a[1])
arith_elem_set(p, tok, n) ==
    LET i == sub_number(p, tok.sub)
        a == p.env[tok.name].a
        k == IF i.v < 0 THEN i.v + Len(a) ELSE i.v
    IN  [p EXCEPT !.env = IF k \in 0..Len(a) - 1 THEN [i.env EXCEPT ![tok.name].a[k + 1] = n] ELSE i.env,
                  !.err = @ \/ i.err, !.v = n]
set_var_value(p, tok, n) ==
    CASE p.nse -> Val(p, n)
      [] ~p.nse /\ tok.sub # <<>> -> arith_elem_set(p, tok, n)
      [] ~p.nse /\ tok.sub = <<>> -> [p EXCEPT !.env[tok.name] = Number(n), !.v = n]

-----------------------------------------------------------------------------
(* The parser.                                                             *)

\* what follows a variable: its value is read before anything else happens
try_compound_assign(p, var, val) ==
    LET q == arith_lexer_advance(p)
        r == arith_parse_ternary(arith_lexer_advance(q))
        w == IF p.cur.t \in {"/", "%", "*"} THEN apply_muldiv(r, p.cur.t, val, r.v)
             ELSE Val(r, IF p.cur.t \in {"|", "^", "&"} THEN apply_bitwise(p.cur.t, val, r.v)
                         ELSE apply_shift_add(p.cur.t, val, r.v))
    IN  IF ~is_compound_op(p.cur.t) THEN Val(p, val)
        ELSE IF q.cur.t # "=" THEN [p EXCEPT !.v = val, !.lexerr = q.lexerr]
        ELSE set_var_value(w, var, w.v)
primary_var(p, tok) ==
    LET x == get_var_value(p, tok)
        n == arith_lexer_advance(x)
        r == arith_parse_ternary(n)
    IN  CASE x.cur.t = "++" -> Val(set_var_value(n, tok, Wrap(x.v + 1)), x.v)
          [] x.cur.t = "--" -> Val(set_var_value(n, tok, Wrap(x.v - 1)), x.v)
          [] x.cur.t = "=" -> set_var_value(r, tok, r.v)
          [] OTHER -> try_compound_assign(x, tok, x.v)
expect(p, t) == IF p.cur.t # t THEN [p EXCEPT !.err = TRUE] ELSE arith_lexer_advance(p)
arith_parse_primary(p) ==
    LET n == arith_lexer_advance(p) IN
    CASE p.err -> Val(p, 0)
      [] ~p.err /\ p.cur.t = "num" -> Val(n, p.cur.n)
      [] ~p.err /\ p.cur.t = "var" -> primary_var(n, p.cur)
      [] ~p.err /\ p.cur.t = "(" -> expect(arith_parse_expr(n), ")")
      [] OTHER -> Failed(p)
handle_prefix(p, by) ==
    LET n == arith_lexer_advance(p)
        x == get_var_value(arith_lexer_advance(n), n.cur)
    IN  IF n.cur.t # "var" THEN Failed(n) ELSE set_var_value(x, n.cur, Wrap(x.v + by))
arith_parse_unary(p) ==
    LET u == arith_parse_unary(arith_lexer_advance(p)) IN
    CASE p.err -> Val(p, 0)
      [] ~p.err /\ p.cur.t = "++" -> handle_prefix(p, 1)
      [] ~p.err /\ p.cur.t = "--" -> handle_prefix(p, -1)
      [] ~p.err /\ p.cur.t = "+" -> u
      [] ~p.err /\ p.cur.t = "-" -> Val(u, Wrap(-u.v))
      [] ~p.err /\ p.cur.t = "!" -> Val(u, Bit(u.v = 0))
      [] ~p.err /\ p.cur.t = "~" -> Val(u, Complement(u.v))
      [] OTHER -> arith_parse_primary(p)
RECURSIVE arith_parse_exponent(_), Power(_, _)
Power(b, e) == IF e = 0 THEN 1 ELSE Wrap(b * Power(b, e - 1))
arith_parse_exponent(p) ==
    LET b == arith_parse_unary(p)
        e == arith_parse_exponent(arith_lexer_advance(b))
    IN  IF b.cur.t # "**" THEN b ELSE IF e.err \/ e.v < 0 THEN Val(e, 0) ELSE Val(e, Power(b.v, e.v))
binop_rest(p, min) ==
    LET r == arith_parse_binop(arith_lexer_advance(p), binop_prec(p.cur.t) + 1) IN
    IF p.err \/ binop_prec(p.cur.t) < min THEN p
    ELSE binop_rest(apply_binop(r, p.cur.t, p.v, r.v), min)
arith_parse_binop(p, min) == binop_rest(arith_parse_exponent(p), min)

\* mutant: the operand not taken keeps its side effects
Muted_not(p) == p
\* the operand not taken is read with nse set, and its value ignored
Muted(p) == [p EXCEPT !.nse = TRUE]
Unmuted(p, q, n) == [q EXCEPT !.nse = p.nse, !.v = n]
and_rest(p) ==
    LET n == arith_lexer_advance(p)
        r == arith_parse_binop(n, 1)
    IN  IF p.err \/ p.cur.t # "&&" THEN p
        ELSE and_rest(IF p.v = 0 THEN Unmuted(n, arith_parse_binop(Muted(n), 1), 0) ELSE Val(r, Bit(r.v # 0)))
arith_parse_and(p) == and_rest(arith_parse_binop(p, 1))
or_rest(p) ==
    LET n == arith_lexer_advance(p)
        r == arith_parse_and(n)
    IN  IF p.err \/ p.cur.t # "||" THEN p
        ELSE or_rest(IF p.v # 0 THEN Unmuted(n, arith_parse_and(Muted(n)), 1) ELSE Val(r, Bit(r.v # 0)))
arith_parse_or(p) == or_rest(arith_parse_and(p))
ternary_true(p) ==
    LET a == arith_parse_expr(p)
        n == arith_lexer_advance(a)
    IN  IF a.cur.t # ":" THEN Failed(a) ELSE Unmuted(n, arith_parse_ternary(Muted(n)), a.v)
arith_parse_ternary(p) ==
    LET c == arith_parse_or(p)
        n == arith_lexer_advance(c)
        dead == Unmuted(n, arith_parse_expr(Muted(n)), 0)
    IN  CASE c.cur.t # "?" -> c
          [] c.cur.t = "?" /\ c.v # 0 -> ternary_true(n)
          [] c.cur.t = "?" /\ c.v = 0 /\ dead.cur.t # ":" -> Failed(dead)
          [] c.cur.t = "?" /\ c.v = 0 /\ dead.cur.t = ":" -> arith_parse_ternary(arith_lexer_advance(dead))
expr_rest(p) == IF p.err \/ p.cur.t # "," THEN p ELSE expr_rest(arith_parse_ternary(arith_lexer_advance(p)))
arith_parse_expr(p) == expr_rest(arith_parse_ternary(p))

arith_run(p) ==
    LET r == arith_parse_expr(p) IN
    IF p.cur.t = "eof" THEN p
    ELSE [r EXCEPT !.err = @ \/ r.cur.t # "eof" \/ r.lexerr, !.v = IF r.err \/ r.cur.t # "eof" \/ r.lexerr THEN 0 ELSE @]
arith_eval(s, env) == arith_run(Start(s, env, FALSE, 0))
arith_eval_cached(s, env) ==
    LET p == Start(<<>>, env, FALSE, 0) IN arith_run(arith_lexer_advance([p EXCEPT !.toks = lex_all(s, 1), !.pos = 1]))

-----------------------------------------------------------------------------
(* The reference: expression trees, what each is worth and leaves behind,  *)
(* and the text it is written as, with the parentheses its precedence      *)
(* needs and no more.                                                      *)

Tree(k, op, c, txt) == [k |-> k, op |-> op, c |-> c, txt |-> txt]
Lit(n, txt) == [Tree("num", "", <<>>, txt) EXCEPT !.op = n]
Ref(x) == Tree("var", x, <<>>, <<x>>)
Elem(e) == Tree("elem", "t", <<e>>, <<>>)

Binary == {"+", "-", "*", "/", "%", "<<", "<", ">=", "==", "&", "^", "|", "**"}
Prec(e) == CASE e.k = "bin" /\ e.op = "**" -> 11
             [] e.k = "bin" /\ e.op # "**" -> 2 + binop_prec(e.op)
             [] e.k = "and" -> 2 [] e.k = "or" -> 1 [] e.k = "tern" -> 0 [] e.k = "comma" -> -1
             [] e.k \in {"set", "num", "var", "elem", "pre", "post"} -> IF e.k = "set" THEN -1 ELSE 13
             [] e.k = "un" -> 12

\* [v, err, env] of a tree; nothing is evaluated that C would not evaluate
Result(v, env) == [v |-> v, err |-> FALSE, env |-> env]
Broken(env) == [v |-> 0, err |-> TRUE, env |-> env]
Arithmetic(op, l, r, env) ==
    CASE op \in {"/", "%"} /\ r = 0 -> Broken(env)
      [] op = "**" /\ r < 0 -> Result(0, env)
      [] op = "**" /\ r >= 0 -> Result(Power(l, r), env)
      [] op \in {"/", "%"} /\ r # 0 /\ (l = LMIN /\ r = -1) -> Result(IF op = "/" THEN LMIN ELSE 0, env)
      [] op = "/" /\ r # 0 /\ ~(l = LMIN /\ r = -1) -> Result(CHOOSE q \in LMIN..-LMIN :
             \E m \in -LMIN..LMIN \cup LMIN..-LMIN : l = r * q + m /\ m * m < r * r /\ m * l >= 0, env)
      [] op = "%" /\ r # 0 /\ ~(l = LMIN /\ r = -1) -> Result(CHOOSE m \in LMIN..-LMIN :
             m * m < r * r /\ m * l >= 0 /\ (l - m) % (IF r < 0 THEN -r ELSE r) = 0, env)
      [] op \in {"+", "-", "*"} -> Result(Wrap(CASE op = "+" -> l + r [] op = "-" -> l - r [] op = "*" -> l * r), env)
      [] op \in {"<<", "<", ">=", "==", "&", "^", "|"} ->
           Result(IF op = "<<" THEN Wrap(l * 2 ^ (r % Width))
                  ELSE IF op \in {"&", "^", "|"} THEN apply_bitwise(op, l, r) ELSE apply_cmp(op, l, r), env)

RECURSIVE Value(_, _)
Then(r, F(_)) == IF r.err THEN r ELSE F(r)
Stored(x, v, env) == Result(v, [env EXCEPT ![x] = Number(v)])
Read(x, env) == IF env[x].k = "text" THEN env[env[x].s[1]].n ELSE env[x].n  \* a text is a name
At0(a, i) == LET k == IF i < 0 THEN i + Len(a) ELSE i IN IF k \in 0..Len(a) - 1 THEN a[k + 1] ELSE 0
Value(e, env) ==
    CASE e.k = "num" -> Result(e.op, env)
      [] e.k = "var" -> Result(Read(e.op, env), env)
      [] e.k = "elem" -> Then(Value(e.c[1], env), LAMBDA i : Result(At0(i.env.t.a, i.v), i.env))
      [] e.k = "un" -> Then(Value(e.c[1], env), LAMBDA a :
             Result(CASE e.op = "-" -> Wrap(-a.v) [] e.op = "!" -> Bit(a.v = 0) [] e.op = "~" -> -a.v - 1, a.env))
      [] e.k = "pre" -> Stored(e.op, Wrap(Read(e.op, env) + 1), env)
      [] e.k = "post" -> [Stored(e.op, Wrap(Read(e.op, env) - 1), env) EXCEPT !.v = Read(e.op, env)]
      [] e.k = "set" -> LET x == e.txt[1] IN
             Then(Value(e.c[1], env), LAMBDA a :
                IF e.op = "" THEN Stored(x, a.v, a.env)
                ELSE Then(Arithmetic(e.op, Read(x, env), a.v, a.env), LAMBDA b : Stored(x, b.v, b.env)))
      [] e.k = "bin" -> Then(Value(e.c[1], env), LAMBDA a : Then(Value(e.c[2], a.env), LAMBDA b :
             Arithmetic(e.op, a.v, b.v, b.env)))
      [] e.k = "and" -> Then(Value(e.c[1], env), LAMBDA a : IF a.v = 0 THEN a ELSE
             Then(Value(e.c[2], a.env), LAMBDA b : [b EXCEPT !.v = Bit(b.v # 0)]))
      [] e.k = "or" -> Then(Value(e.c[1], env), LAMBDA a : IF a.v # 0 THEN [a EXCEPT !.v = 1] ELSE
             Then(Value(e.c[2], a.env), LAMBDA b : [b EXCEPT !.v = Bit(b.v # 0)]))
      [] e.k = "tern" -> Then(Value(e.c[1], env), LAMBDA a : Value(IF a.v # 0 THEN e.c[2] ELSE e.c[3], a.env))
      [] e.k = "comma" -> Then(Value(e.c[1], env), LAMBDA a : Value(e.c[2], a.env))

RECURSIVE Written(_)
Paren(e, min) == IF Prec(e) < min THEN <<"(">> \o Written(e) \o <<")">> ELSE Written(e)
Spelled(op) == CASE op = "<<" -> <<"<", "<">> [] op = ">=" -> <<">", "=">> [] op = "==" -> <<"=", "=">>
                 [] op = "**" -> <<"*", "*">> [] op = "" -> <<>> [] OTHER -> <<op>>
Written(e) ==
    CASE e.k \in {"num", "var"} -> e.txt
      [] e.k = "elem" -> <<"t", "[">> \o Written(e.c[1]) \o <<"]">>
      [] e.k = "un" -> <<e.op, " ">> \o Paren(e.c[1], 12)
      [] e.k = "pre" -> <<"+", "+", e.op>>
      [] e.k = "post" -> <<e.op, "-", "-">>
      [] e.k = "set" -> e.txt \o Spelled(e.op) \o <<"=", " ">> \o Paren(e.c[1], 0)
      [] e.k = "bin" -> LET n == Prec(e) IN
             Paren(e.c[1], IF e.op = "**" THEN n + 1 ELSE n) \o <<" ">> \o Spelled(e.op) \o <<" ">>
             \o Paren(e.c[2], IF e.op = "**" THEN n ELSE n + 1)
      [] e.k = "and" -> Paren(e.c[1], 2) \o <<"&", "&">> \o Paren(e.c[2], 3)
      [] e.k = "or" -> Paren(e.c[1], 1) \o <<"|", "|">> \o Paren(e.c[2], 2)
      [] e.k = "tern" -> Paren(e.c[1], 1) \o <<"?">> \o Paren(e.c[2], -1) \o <<":">> \o Paren(e.c[3], 0)
      [] e.k = "comma" -> Paren(e.c[1], 0) \o <<",">> \o Paren(e.c[2], 0)

-----------------------------------------------------------------------------
Leaves == {Lit(0, <<"0">>), Lit(2, <<"2">>), Ref("v"), Tree("pre", "v", <<>>, <<>>), Tree("post", "w", <<>>, <<>>)}
Literals == {Lit(8, <<"0", "1", "0">>), Lit(1, <<"0", "x", "1">>), Lit(2, <<"2", "#", "1", "0">>),
             Tree("var", "w", <<>>, <<"$", "{", "w", "}">>)}
Over(S, T, ops) ==                     \* one node over a child of S and children of T
    {Tree("un", op, <<a>>, <<>>) : op \in {"-", "!", "~"}, a \in S}
    \cup {Tree("set", op, <<a>>, <<"v">>) : op \in {"", "+", "/", "<<", "&"}, a \in S}
    \cup {Tree("bin", op, c, <<>>) : op \in ops, c \in S \X T \cup T \X S}
    \cup {Tree(k, "", c, <<>>) : k \in {"and", "or", "comma"}, c \in S \X T \cup T \X S}
    \cup {Tree("tern", "", c, <<>>) : c \in S \X T \X T \cup T \X S \X T \cup T \X T \X S}
    \cup {Elem(a) : a \in S}
Small == Over(Leaves \cup Literals, Leaves, Binary)
Trees == Small \cup Over(Over(Leaves, {Ref("v")}, {"-", "/", "<<", "==", "&"}),
                         {Tree("pre", "v", <<>>, <<>>)}, {"-", "*", "<", "^", "**"})
==============================================================================
