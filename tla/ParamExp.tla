------------------------------ MODULE ParamExp -------------------------------
(***************************************************************************)
(* ${...}: which operator a body asks for and what it makes of the value   *)
(* (expander/expand_param_*.c).  A body, a value, a pattern and a word are *)
(* sequences of bytes; the word's own expansion is left to its caller.     *)
(* A variable's val is {} when it is unset, {v} when its value is v; vars  *)
(* maps the names to those.                                                *)
(***************************************************************************)
EXTENDS Pattern

Unset == {}
IsSet(val) == val # Unset
IsNull(val) == val \in {Unset, {<<>>}}
ValueOf(val) == IF IsSet(val) THEN CHOOSE v \in val : TRUE ELSE <<>>

\* characters
RECURSIVE chars(_)
chars(s) == IF s = <<>> THEN <<>> ELSE <<SubSeq(s, 1, mb_len0(s))>> \o chars(From(s, mb_len0(s) + 1))
mb_count(s) == Len(chars(s))
mb_skip(s, n) == Len(FlattenSeq(SubSeq(chars(s), 1, n)))
Boundaries(s) == {mb_skip(s, n) : n \in 0..mb_count(s)}
Lowest(S) == CHOOSE x \in S : \A y \in S : x <= y
Highest(S) == CHOOSE x \in S : \A y \in S : x >= y

-----------------------------------------------------------------------------
(* ${v%p} ${v%%p} ${v#p} ${v##p}                                           *)

trim_suffix_shortest(v, p, o) ==
    LET cuts == {i \in Boundaries(v) : case_match(From(v, i + 1), p, o)}
    IN  IF cuts = {} THEN v ELSE SubSeq(v, 1, Highest(cuts))
trim_suffix_longest(v, p, o) ==        \* never the empty suffix: it changes nothing
    LET cuts == {i \in Boundaries(v) \ {Len(v)} : case_match(From(v, i + 1), p, o)}
    IN  IF cuts = {} THEN v ELSE SubSeq(v, 1, Lowest(cuts))
trim_prefix_shortest(v, p, o) ==
    LET cuts == {i \in Boundaries(v) : case_match(SubSeq(v, 1, i), p, o)}
    IN  IF cuts = {} THEN v ELSE From(v, Lowest(cuts) + 1)
trim_prefix_longest(v, p, o) ==
    LET cuts == {i \in Boundaries(v) : case_match(SubSeq(v, 1, i), p, o)}
    IN  IF cuts = {} THEN v ELSE From(v, Highest(cuts) + 1)
trim_by_matcher(v, p, op, o) ==
    CASE op = "%%" -> trim_suffix_longest(v, p, o)
      [] op = "%" -> trim_suffix_shortest(v, p, o)
      [] op = "##" -> trim_prefix_longest(v, p, o)
      [] op = "#" -> trim_prefix_shortest(v, p, o)

\* a pattern without metacharacters is compared as bytes
\* mutant: an escaped metacharacter still counts as one
trim_unescape_deaf(p) == [ok |-> TRUE, lit |-> SelectSeq(p, LAMBDA c : c # "\\")]
RECURSIVE trim_unescape(_)
trim_unescape(p) ==                    \* [ok, lit]
    LET esc == Byte(p, 1) = "\\" /\ Len(p) > 1
        rest == trim_unescape(From(p, IF esc THEN 3 ELSE 2))
    IN  CASE p = <<>> -> [ok |-> TRUE, lit |-> <<>>]
          [] p # <<>> /\ ~esc /\ p[1] \in {"*", "?", "[", "("} -> [ok |-> FALSE, lit |-> <<>>]
          [] OTHER -> [ok |-> rest.ok, lit |-> <<IF esc THEN p[2] ELSE p[1]>> \o rest.lit]
trim_boundary(v, at) == Byte(v, at + 1) \notin {"E2", "E3"}
\* [done, v]: not done when the matcher has to decide
trim_literal(v, p, suffix) ==
    LET u == trim_unescape(p)
        n == Len(u.lit)
        at == IF suffix THEN Len(v) - n ELSE n
    IN  CASE ~u.ok -> [done |-> FALSE, v |-> v]
          [] u.ok /\ (n > Len(v) \/ (IF suffix THEN From(v, at + 1) ELSE SubSeq(v, 1, n)) # u.lit) ->
               [done |-> TRUE, v |-> v]
          [] OTHER -> [done |-> trim_boundary(v, at), v |-> IF suffix THEN SubSeq(v, 1, at) ELSE From(v, n + 1)]
expand_trim(val, op, p, o) ==
    LET v == ValueOf(val)
        l == trim_literal(v, p, op \in {"%", "%%"})
    IN  IF l.done THEN l.v ELSE trim_by_matcher(v, p, op, o)

-----------------------------------------------------------------------------
(* ${v/p/r} ${v//p/r} ${v/#p/r} ${v/%p/r}                                  *)

patsub_head_ok(p, s, o) ==
    CASE s = <<>> \/ xg_start(p, o) \/ Byte(p, 1) \in {"*", "?", "["} -> TRUE
      [] s # <<>> /\ ~xg_start(p, o) /\ Byte(p, 1) = "\\" /\ Len(p) > 1 -> s[1] = p[2]
      [] OTHER -> s[1] = Byte(p, 1)
\* mutant: a bracket expression counts as the bytes it is written with
patsub_maxlen_short(p, o) == IF \E i \in 1..Len(p) : p[i] = "*" \/ xg_start(From(p, i), o) THEN -1 ELSE 1
RECURSIVE patsub_maxlen(_, _)
patsub_maxlen(p, o) ==                 \* no match is longer; -1 when unbounded
    LET close == IF Byte(p, 1) = "[" THEN bracket_close(p, 1) ELSE 0
        width == IF close # 0 \/ Byte(p, 1) = "?" THEN 4 ELSE 1
        rest == patsub_maxlen(From(p, IF close # 0 THEN close + 1
                                      ELSE IF Byte(p, 1) = "\\" /\ Len(p) > 1 THEN 3 ELSE 2), o)
    IN  CASE p = <<>> -> 0
          [] p # <<>> /\ (xg_start(p, o) \/ p[1] = "*") -> -1
          [] OTHER -> IF rest = -1 THEN -1 ELSE width + rest
patsub_match_len(p, s, o) ==           \* of the longest match at the head of s, or -1
    LET plain == \A i \in 1..Len(p) : p[i] \notin {"*", "?", "[", "\\", "("}
        cap == patsub_maxlen(p, o)
        fits == {k \in 0..(IF cap < 0 \/ Len(s) < cap THEN Len(s) ELSE cap) : case_match(SubSeq(s, 1, k), p, o)}
    IN  CASE plain -> IF IsPrefix(p, s) THEN Len(p) ELSE -1
          [] ~plain -> IF patsub_head_ok(p, s, o) /\ fits # {} THEN Highest(fits) ELSE -1
\* is there a match at all?  An open backslash at the end cannot be asked
patsub_tail_bs(p) == Len(p) - (IF \E i \in 1..Len(p) : p[i] # "\\" THEN Highest({i \in 1..Len(p) : p[i] # "\\"}) ELSE 0)
patsub_anywhere(p, s, o) ==
    patsub_tail_bs(p) % 2 = 1 \/ case_match(s, <<"*">> \o p \o <<"*">>, o)
RECURSIVE patsub_rest(_, _, _, _, _, _)
patsub_rest(s, p, r, all, live, o) ==  \* live: "ask", "yes" or "no"
    LET l == IF p # <<>> /\ live = "ask" THEN (IF patsub_anywhere(p, s, o) THEN "yes" ELSE "no") ELSE live
        k == IF p # <<>> /\ l = "yes" THEN patsub_match_len(p, s, o) ELSE -1
    IN  CASE s = <<>> -> <<>>
          [] s # <<>> /\ k > 0 -> r \o patsub_rest(From(s, k + 1), p, r, all, IF all THEN "ask" ELSE "no", o)
          [] OTHER -> <<s[1]>> \o patsub_rest(Tail(s), p, r, all, l, o)
patsub_build(v, p, r, all, o) == patsub_rest(v, p, r, all, "ask", o)
patsub_prefix(v, p, r, o) ==
    LET k == patsub_match_len(p, v, o) IN IF k < 0 THEN v ELSE r \o From(v, k + 1)
patsub_suffix(v, p, r, o) ==
    LET cuts == {i \in 0..Len(v) : i + patsub_match_len(p, From(v, i + 1), o) = Len(v)
                                   /\ patsub_match_len(p, From(v, i + 1), o) >= 0}
    IN  IF cuts = {} THEN v ELSE SubSeq(v, 1, Lowest(cuts)) \o r
expand_subst(val, op, p, r, o) ==
    LET v == ValueOf(val) IN
    CASE op = "/#" -> patsub_prefix(v, p, r, o)
      [] op = "/%" -> patsub_suffix(v, p, r, o)
      [] op \in {"/", "//"} -> patsub_build(v, p, r, op = "//", o)

-----------------------------------------------------------------------------
(* ${v^p} ${v:off:len} ${v@U}                                              *)

Up(c) == CASE c = "a" -> "A" [] c = "b" -> "B" [] OTHER -> c
Down(c) == CASE c = "A" -> "a" [] c = "B" -> "b" [] OTHER -> c
case_conv(c, op) ==
    CASE op = "^" -> Up(c) [] op = "," -> Down(c) [] op = "~" -> IF Down(c) # c THEN Down(c) ELSE Up(c)
case_hit(c, p, o) == p = <<>> \/ case_match(c, p, o)
case_body_pat(v, op, all, p, o) ==
    LET cs == chars(v) IN
    FlattenSeq([i \in 1..Len(cs) |-> IF (i = 1 \/ all) /\ case_hit(cs[i], p, o)
                                     THEN [j \in 1..Len(cs[i]) |-> case_conv(cs[i][j], op)] ELSE cs[i]])
xform(v, op, o) ==
    CASE op = "U" -> case_body_pat(v, "^", TRUE, <<>>, o)
      [] op = "L" -> case_body_pat(v, ",", TRUE, <<>>, o)
      [] op = "u" -> case_body_pat(v, "^", FALSE, <<>>, o)
      [] OTHER -> v

NoLen == {}
ss_slice(v, off, end) == SubSeq(v, mb_skip(v, off) + 1, mb_skip(v, end))
ss_build(v, off0, len) ==              \* [err, v]: an end before the start is fatal
    LET l == mb_count(v)
        off == IF off0 < 0 THEN l + off0 ELSE off0
        end0 == IF len = NoLen THEN l ELSE IF len < 0 THEN l + len ELSE off + len
        end == IF end0 > l THEN l ELSE end0
    IN  CASE off < 0 \/ off > l -> [err |-> FALSE, v |-> <<>>]
          [] off \in 0..l /\ end < off -> [err |-> TRUE, v |-> <<>>]
          [] off \in 0..l /\ end >= off -> [err |-> FALSE, v |-> ss_slice(v, off, end)]

-----------------------------------------------------------------------------
(* Which operator: the body is a name and what follows it.                 *)

IdStart(c) == c \in {"_", "v", "w", "a", "b", "c", "d", "x", "A", "B", "L", "U"}
Digits(c) == c \in {"1", "2"}
Special == {"-", "?", "$", "!"}
RECURSIVE Run1(_, _, _)
Run1(s, i, digits) ==
    IF Digits(Byte(s, i)) \/ (~digits /\ IdStart(Byte(s, i))) THEN Run1(s, i + 1, digits) ELSE i - 1
pf_scan_scalar_name(s) ==              \* the length of the name
    CASE Byte(s, 1) \in Special -> 1
      [] Digits(Byte(s, 1)) -> Run1(s, 1, TRUE)
      [] IdStart(Byte(s, 1)) -> Run1(s, 1, FALSE)
      [] OTHER -> 0
pf_scan_name(s) == IF Byte(s, 1) \in {"@", "*"} THEN 1 ELSE pf_scan_scalar_name(s)
plain_name(s) == LET n == pf_scan_scalar_name(s) IN IF Byte(s, 1) \in Special THEN 0 ELSE n
pf_valid_plain(s) ==
    \/ Len(s) = 1 /\ s[1] \in {"@", "*", "#", "?", "-", "$", "!"}
    \/ LET b == IF Byte(s, 1) = "!" THEN Tail(s) ELSE s IN b # <<>> /\ plain_name(b) = Len(b)

NoOp == [op |-> "none", n |-> 0, at |-> 0]
Op(op, n, at) == [op |-> op, n |-> n, at |-> at]      \* the word starts at at
find_param_op(s) ==
    LET n == pf_scan_name(s)
        colon == Byte(s, n + 1) = ":"
        c == Byte(s, n + (IF colon THEN 2 ELSE 1))
    IN  IF n = 0 \/ c \notin {"-", "=", "?", "+"} THEN NoOp
        ELSE Op((IF colon THEN ":" ELSE "") \o c, n, n + (IF colon THEN 3 ELSE 2))
find_trim_op(s) ==
    LET n == pf_scan_scalar_name(s)
        c == Byte(s, n + 1)
        two == Byte(s, n + 2) \in {"%", "#"}
    IN  IF n = 0 \/ c \notin {"%", "#"} THEN NoOp
        ELSE Op(IF Byte(s, n + 2) = c THEN c \o c ELSE c, n, n + (IF two THEN 3 ELSE 2))
\* the anchor # or % is looked for only when the first / is alone
subst_anchor(s, n) ==
    CASE Byte(s, n + 2) = "/" -> "//" [] Byte(s, n + 2) = "#" -> "/#" [] Byte(s, n + 2) = "%" -> "/%" [] OTHER -> "/"
find_subst_op(s) ==
    LET n == pf_scan_scalar_name(s)
        op == subst_anchor(s, n)
    IN  IF n = 0 \/ Byte(s, n + 1) # "/" THEN NoOp ELSE Op(op, n, n + 1 + Len(op))
RECURSIVE subst_pat_end(_, _)
subst_pat_end(s, i) ==
    CASE i > Len(s) -> Len(s) + 1
      [] i <= Len(s) /\ s[i] = "/" -> i
      [] i <= Len(s) /\ s[i] = "\\" -> subst_pat_end(s, i + 2)
      [] OTHER -> subst_pat_end(s, i + 1)
\* a pattern may begin with a / when there is no anchor
subst_span(s, f) == subst_pat_end(s, IF f.op \in {"/", "//"} /\ Byte(s, f.at) = "/" THEN f.at + 1 ELSE f.at)
find_xform_op(s) ==
    LET n == plain_name(s) IN
    IF n = 0 \/ Byte(s, n + 1) # "@" \/ Byte(s, n + 2) \notin {"U", "L", "u", "A", "a"} THEN NoOp
    ELSE Op("@" \o s[n + 2], n, n + 3)
find_case_op(s) ==
    LET n == plain_name(s)
        c == Byte(s, n + 1)
    IN  IF n = 0 \/ c \notin {"^", ",", "~"} THEN NoOp
        ELSE Op(IF Byte(s, n + 2) = c THEN c \o c ELSE c, n, n + (IF Byte(s, n + 2) = c THEN 3 ELSE 2))
pf_find_substr(s) ==
    LET n == IF Byte(s, 1) \in {"@", "*", "#", "?", "-", "$", "!"} THEN 1 ELSE Run1(s, 1, FALSE)
    IN  IF n > 0 /\ Byte(s, n + 1) = ":" THEN Op("slice", n, n + 2) ELSE NoOp
pf_indirect(s) ==                      \* ${!name...}, unless it lists names or keys
    LET n == pf_scan_scalar_name(Tail(s)) IN
    IF n = 0 \/ Byte(s, n + 2) \in {"*", "@", "["} THEN NoOp ELSE Op("!", n + 1, n + 2)

Chosen(ops) == IF \E i \in 1..Len(ops) : ops[i] # NoOp
               THEN ops[CHOOSE i \in 1..Len(ops) : ops[i] # NoOp /\ \A j \in 1..i - 1 : ops[j] = NoOp] ELSE NoOp
\* mutant: ${#...} is not told from a name
pf_head_dispatch_late(s) == IF s[1] = "!" /\ Len(s) > 1 THEN pf_indirect(s) ELSE NoOp
pf_head_dispatch(s) ==
    CASE s[1] = "#" /\ Len(s) > 1 -> Op("len", Len(s), 2)
      [] s[1] = "!" /\ Len(s) > 1 -> pf_indirect(s)
      [] OTHER -> NoOp
pf_tail_dispatch(s) ==
    LET f == Chosen(<<find_xform_op(s), find_case_op(s), pf_find_substr(s)>>)
    IN  IF f = NoOp /\ ~pf_valid_plain(s) THEN Op("bad", 0, 0) ELSE f
expand_param_format(s) ==              \* "none" is a plain ${name}
    IF s = <<>> THEN Op("bad", 0, 0)
    ELSE Chosen(<<pf_head_dispatch(s), find_param_op(s), find_trim_op(s), find_subst_op(s), pf_tail_dispatch(s)>>)

-----------------------------------------------------------------------------
(* ${v-w} ${v=w} ${v+w} ${v?w}                                             *)

\* the value, the variables after, and whether the shell gives up
Result(val, vars, err) == [val |-> val, vars |-> vars, err |-> err]
Colon(op) == op \in {":-", ":=", ":?", ":+"}
\* mutant: the colon is forgotten
pf_op_word_used_nocolon(val, op) == IF op \in {"+", ":+"} THEN IsSet(val) ELSE ~IsSet(val)
pf_op_word_used(val, op) ==
    LET act == IF Colon(op) THEN IsNull(val) ELSE ~IsSet(val) IN
    CASE op \in {"-", ":-", "=", ":="} -> act [] op \in {"+", ":+"} -> ~act [] OTHER -> FALSE
default_or_alt(val, op, word, vars) ==
    Result(IF pf_op_word_used(val, op) THEN word ELSE IF op \in {"-", ":-"} THEN ValueOf(val) ELSE <<>>, vars, FALSE)
pf_err_word(val, op, vars) ==
    IF IsSet(val) /\ ~(Colon(op) /\ IsNull(val)) THEN Result(ValueOf(val), vars, FALSE) ELSE Result(<<>>, vars, TRUE)
err_or_assign(val, op, name, word, vars) ==
    CASE op \in {"?", ":?"} -> pf_err_word(val, op, vars)
      [] op \in {"=", ":="} /\ ~pf_op_word_used(val, op) -> Result(ValueOf(val), vars, FALSE)
      [] op \in {"=", ":="} /\ pf_op_word_used(val, op) -> Result(word, [vars EXCEPT ![name] = {word}], FALSE)
expand_param_op(val, op, name, word, vars) ==
    IF op \in {"-", ":-", "+", ":+"} THEN default_or_alt(val, op, word, vars)
    ELSE err_or_assign(val, op, name, word, vars)
=============================================================================
