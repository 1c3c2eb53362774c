------------------------------- MODULE Reparse -------------------------------
(***************************************************************************)
(* The second pass over a word (src/word_splitting): the word the lexer    *)
(* delimited is cut into segments, each a slice [tt, from, to) of it: an   *)
(* unquoted piece "word", a quoted literal "sq" or "dq", a parameter       *)
(* "env" or "dqenv", or a substitution kept whole: "cmd", or a "word" when *)
(* it is quoted.                                                           *)
(***************************************************************************)
EXTENDS Scanners

Seg(tt, i, j) == [tt |-> tt, from |-> i, to |-> j]
\* r is the re-parser: position i and the segments out so far
push_subtoken(r, tt, i, j, next) == [i |-> next, out |-> Append(r.out, Seg(tt, i, j))]
Past(s, i) == IF i <= Len(s) THEN i + 1 ELSE i
Clip(s, i) == IF i = Open(s) THEN Len(s) + 1 ELSE i

\* first position of c at or after i, or the end of the word; bs protects as in up_to
Stop(s, i, c, bs) == LET e == up_to(s, i, c, bs) IN IF e = Open(s) THEN Len(s) + 1 ELSE e - 1

\* unquoted, its output will be split
KeptWhole(tt) == IF tt = "env" THEN "cmd" ELSE "word"
reparse_squote(r, s) ==
    LET e == Stop(s, r.i + 1, "'", FALSE) IN push_subtoken(r, "sq", r.i + 1, e, Past(s, e))
reparse_bs(r, s) ==
    IF r.i = Len(s) THEN push_subtoken(r, "sq", r.i, r.i + 1, r.i + 1)
    ELSE push_subtoken(r, "sq", r.i + 1, r.i + 2, r.i + 2)
reparse_backtick(r, s, tt) ==
    LET e == Past(s, Stop(s, r.i + 1, "bq", TRUE)) IN push_subtoken(r, KeptWhole(tt), r.i, e, e)
reparse_ansic(r, s) ==
    LET e == Stop(s, r.i + 2, "'", TRUE) IN push_subtoken(r, "sq", r.i + 2, e, Past(s, e))
RECURSIVE norm_end(_, _)
norm_end(s, i) == IF is_word_boundary(At(s, i)) \/ At(s, i) \in {"\\", "bq"} THEN i ELSE norm_end(s, i + 1)
reparse_norm_word(r, s) ==
    LET e == norm_end(s, r.i)
        z == IF e = r.i THEN e + 1 ELSE e
    IN  push_subtoken(r, "word", r.i, z, z)

-----------------------------------------------------------------------------
(* What follows a dollar.                                                  *)

skip_quoted_in_brace(s, i) == Past(s, Stop(s, i + 1, s[i], s[i] = "\""))
RECURSIVE scan_brace(_, _, _, _)
scan_brace(s, i, depth, dead) ==       \* at the closing }, or at the end of the word
    IF i > Len(s) THEN Len(s) + 1
    ELSE CASE s[i] = "\\" /\ i < Len(s) -> scan_brace(s, i + 2, depth, dead)
           [] s[i] = "\"" \/ (s[i] = "'" /\ ~dead) ->
                scan_brace(s, skip_quoted_in_brace(s, i), depth, dead)
           [] Two(s, i, "$", "{") -> scan_brace(s, i + 2, depth + 1, dead)
           [] s[i] = "bq" \/ Two(s, i, "$", "(") -> scan_brace(s, Clip(s, span_skip(s, i)), depth, dead)
           [] s[i] = "}" -> IF depth = 1 THEN i ELSE scan_brace(s, i + 1, depth - 1, dead)
           [] OTHER -> scan_brace(s, i + 1, depth, dead)
handle_envvar_brace(r, s, tt) ==
    LET a == r.i + 2
        e == scan_brace(s, a, 1, ~brace_sq_live(s, a, tt = "dqenv"))
    IN  IF e = a /\ e <= Len(s) THEN push_subtoken(r, tt, a - 1, e + 1, Past(s, e))
        ELSE push_subtoken(r, tt, a, e, Past(s, e))

RECURSIVE scan_until_matching(_, _, _, _)
scan_until_matching(s, i, depth, cs) ==
    IF i > Len(s) \/ depth = 0 THEN i
    ELSE IF sh_skip_quoted(s, i) # 0
    THEN scan_until_matching(s, sh_skip_quoted(s, i), depth, [cs EXCEPT !.cmd = FALSE])
    ELSE IF depth = 2 /\ Two(s, i, "(", "(") THEN scan_until_matching(s, i + 2, 4, cs)
    ELSE IF depth = 2 /\ Two(s, i, ")", ")") THEN scan_until_matching(s, i + 2, 0, cs)
    ELSE LET m == casescan_step(cs, s, i, depth) IN scan_until_matching(s, m.i, depth + m.d, m.cs)
reparse_envvar_paren(r, s, tt) ==
    LET d == IF At(s, r.i + 2) = "(" THEN 2 ELSE 1
        e == scan_until_matching(s, r.i + 1 + d, d, casescan_init)
    IN  push_subtoken(r, KeptWhole(tt), r.i, e, e)

reparse_special_envvar(c) == c \in {"?", "$", "#", "@", "*", "!", "-"} \cup Digits

RECURSIVE reparse_dquote(_, _), dquote_steps(_, _, _)
reparse_envvar(r, s, tt) ==
    LET a == r.i + 1
        e == IF is_var_name_p1(At(s, a)) THEN name_end(s, a) ELSE a
    IN  CASE At(s, a) = "'" /\ tt = "env" -> reparse_ansic(r, s)
          [] At(s, a) = "{" -> handle_envvar_brace(r, s, tt)
          [] At(s, a) = "(" -> reparse_envvar_paren(r, s, tt)
          [] reparse_special_envvar(At(s, a)) -> push_subtoken(r, tt, a, a + 1, a + 1)
          [] e > a -> push_subtoken(r, tt, a, e, e)
          [] At(s, a) = "\"" /\ tt = "env" -> reparse_dquote([r EXCEPT !.i = a], s)
          [] OTHER -> push_subtoken(r, IF tt = "env" THEN "sq" ELSE "dq", a - 1, a, a)

process_escape_seq(r, s) ==
    LET c == At(s, r.i + 1) IN
    CASE c = "end" -> push_subtoken(r, "dq", r.i, r.i + 1, r.i + 1)
      [] c = "nl" -> [r EXCEPT !.i = @ + 2]
      [] c \in {"\"", "$", "\\", "bq"} -> push_subtoken(r, "dq", r.i + 1, r.i + 2, r.i + 2)
      [] OTHER -> push_subtoken(r, "dq", r.i, r.i + 2, r.i + 2)
flush_pending(r, from) == IF r.i > from THEN push_subtoken(r, "dq", from, r.i, r.i) ELSE r
dquote_steps(r, s, from) ==            \* from: where the literal not yet pushed begins
    LET f == flush_pending(r, from) IN
    CASE At(s, r.i) \in {"end", "\""} -> f
      [] At(s, r.i) = "\\" -> LET n == process_escape_seq(f, s) IN dquote_steps(n, s, n.i)
      [] At(s, r.i) = "$" -> LET n == reparse_envvar(f, s, "dqenv") IN dquote_steps(n, s, n.i)
      [] At(s, r.i) = "bq" -> LET n == reparse_backtick(f, s, "dqenv") IN dquote_steps(n, s, n.i)
      [] OTHER -> dquote_steps([r EXCEPT !.i = @ + 1], s, from)
reparse_dquote(r, s) ==
    LET n == dquote_steps([r EXCEPT !.i = @ + 1], s, r.i + 1)
        m == IF Len(n.out) = Len(r.out) THEN push_subtoken(n, "dq", n.i, n.i, n.i) ELSE n
    IN  [m EXCEPT !.i = Past(s, @)]

reparse_step(r, s) ==
    CASE s[r.i] = "\"" -> reparse_dquote(r, s)
      [] s[r.i] = "\\" -> reparse_bs(r, s)
      [] s[r.i] = "'" -> reparse_squote(r, s)
      [] s[r.i] = "$" -> reparse_envvar(r, s, "env")
      [] s[r.i] = "bq" -> reparse_backtick(r, s, "env")
      [] is_space(s[r.i]) -> push_subtoken(r, "word", r.i, r.i + 1, r.i + 1)
      [] OTHER -> reparse_norm_word(r, s)
RECURSIVE loop_node(_, _)
loop_node(r, s) == IF r.i > Len(s) THEN r ELSE loop_node(reparse_step(r, s), s)
reparse_word(s) == loop_node([i |-> 1, out |-> <<>>], s).out

-----------------------------------------------------------------------------
(* The third pass: a word that is an assignment.                           *)

find_eq_pos(s, seg) == LET eqs == {i \in seg.from..seg.to - 1 : s[i] = "="}
                       IN  IF eqs = {} THEN 0 ELSE CHOOSE i \in eqs : \A j \in eqs : i <= j
is_valid_ident(w) == w # <<>> /\ is_var_name_p1(w[1]) /\ \A i \in 1..Len(w) : is_var_name_p2(w[i])
is_subscript_key(w) ==
    /\ w # <<>> /\ Last(w) = "]"
    /\ \E i \in 2..Len(w) : w[i] = "[" /\ is_valid_ident(SubSeq(w, 1, i - 1))
is_append_key(w) ==
    /\ Len(w) >= 2 /\ Last(w) = "+"
    /\ is_valid_ident(Front(w)) \/ is_subscript_key(Front(w))
apply_assignment_split(out, eq) ==     \* the key, then the segments of the value
    [key |-> Seg("word", out[1].from, eq), value |-> [out EXCEPT ![1].from = eq + 1]]
reparse_assignment_word(s, out) ==
    LET eq == IF out # <<>> /\ out[1].tt \in {"word", "cmd"} THEN find_eq_pos(s, out[1]) ELSE 0
        w == SubSeq(s, out[1].from, eq - 1)
    IN  IF eq # 0 /\ (is_valid_ident(w) \/ is_subscript_key(w) \/ is_append_key(w))
        THEN apply_assignment_split(out, eq)
        ELSE [key |-> Seg("none", 1, 1), value |-> out]
=============================================================================
