-------------------------------- MODULE Words --------------------------------
(***************************************************************************)
(* From the tokens of one word to the fields a command gets                *)
(* (expander/expand_word*.c, expand_token.c, expand_array*.c,              *)
(* expander_split*.c, split_*.c, ifs_split*.c): braces, tilde,             *)
(* substitutions, parameters, splitting by IFS, pathnames -- and the short *)
(* cuts that skip all of that for a simple word.                           *)
(*   A token is [tt, text, mark]; tt is as in Reparse, and mark is what a  *)
(* list that has still to become fields left behind.  The shell s is       *)
(* [vars, pos, ifs, z, nounset, noglob, braces, o, fs, out, err]: the      *)
(* variables, the positional parameters, IFS, zsh_arrays(), the options,   *)
(* the files, what a command writes into a substitution, and whether an    *)
(* expansion gave up.  Arithmetic is left to Arith: here an expression is  *)
(* a numeral.                                                              *)
(***************************************************************************)
EXTENDS Brace, Glob

A == INSTANCE Arrays
P == INSTANCE ParamExp
R == INSTANCE Reparse

Tok(tt, text) == [tt |-> tt, text |-> text, mark |-> <<>>]
Deferred(t, mark) == [t EXCEPT !.text = <<>>, !.mark = mark]
Texted(t, text) == [t EXCEPT !.text = text]
Chars(text) == {text[i] : i \in DOMAIN text}
NumText(n) == <<A!Numerals[n + 1]>>
One(S) == CHOOSE x \in S : TRUE

-----------------------------------------------------------------------------
\* splitting a value by IFS

is_ws_ifs(c, ifs) == c \in Chars(ifs) /\ c \in {" ", "tab", "nl"}
is_nw_ifs(c, ifs) == c \in Chars(ifs) /\ c \notin {" ", "tab", "nl"}
is_ifs_char(c, ifs) == c \in Chars(ifs)

RECURSIVE SkipWs(_, _, _)
SkipWs(v, i, ifs) == IF i <= Len(v) /\ is_ws_ifs(v[i], ifs) THEN SkipWs(v, i + 1, ifs) ELSE i
skip_nw_delimiter(v, i, ifs) == SkipWs(v, i + 1, ifs)
\* mutant: the blanks in front of a delimiter are a delimiter of their own
skip_ws_delimiter_short(v, i, ifs) == SkipWs(v, i, ifs)
skip_ws_delimiter(v, i, ifs) ==
    LET j == SkipWs(v, i, ifs)
    IN  IF j <= Len(v) /\ is_nw_ifs(v[j], ifs) THEN skip_nw_delimiter(v, j, ifs) ELSE j
RECURSIVE split_loop(_, _, _, _)
split_loop(v, start, i, ifs) ==
    CASE i > Len(v) -> IF start <= Len(v) THEN <<From(v, start)>> ELSE <<>>
      [] i <= Len(v) /\ is_ifs_char(v[i], ifs) ->
            LET next == IF is_nw_ifs(v[i], ifs) THEN skip_nw_delimiter(v, i, ifs)
                        ELSE skip_ws_delimiter(v, i, ifs)
            IN  <<SubSeq(v, start, i - 1)>> \o split_loop(v, next, next, ifs)
      [] OTHER -> split_loop(v, start, i + 1, ifs)
ifs_split_posix(v, ifs) == LET i == SkipWs(v, 1, ifs) IN split_loop(v, i, i, ifs)

(* The fields made so far, ret, and the one being built, curr, which is a  *)
(* sequence of pieces [text, quoted].                                      *)
NoFields == [ret |-> <<>>, curr |-> <<>>]
Piece(text, quoted) == [text |-> text, quoted |-> quoted]
star_expandable(tt) == tt \notin {"sq", "dq", "dqenv"}
AsPiece(t) == Piece(t.text, ~star_expandable(t.tt))
Pieces(toks) == [i \in DOMAIN toks |-> AsPiece(toks[i])]
push_and_reinit(f) == IF f.curr = <<>> THEN f ELSE [ret |-> Append(f.ret, f.curr), curr |-> <<>>]
push_new_env_child(f, text) == [f EXCEPT !.curr = Append(@, Piece(text, FALSE))]
push_new_dq_child(f, text) == [f EXCEPT !.curr = Append(@, Piece(text, TRUE))]

distribute_fields(f, things, trail) ==
    IF things = <<>> THEN f
    ELSE LET all == FoldLeft(LAMBDA g, t : push_new_env_child(push_and_reinit(g), t),
                             push_new_env_child(f, things[1]), Tail(things))
         IN  IF trail THEN push_and_reinit(all) ELSE all
split_value(s, v, f) ==
    LET trail == v # <<>> /\ is_ifs_char(Last(v), s.ifs)
        lead == v # <<>> /\ is_ws_ifs(v[1], s.ifs)
    IN  distribute_fields(IF lead THEN push_and_reinit(f) ELSE f, ifs_split_posix(v, s.ifs), trail)

(* Texts one after the other, a field break between two of them and none   *)
(* in front or behind.                                                     *)
EachOwn(f, texts, Put(_, _)) ==
    IF texts = <<>> THEN f
    ELSE FoldLeft(LAMBDA g, t : Put(push_and_reinit(g), t), Put(f, texts[1]), Tail(texts))

-----------------------------------------------------------------------------
\* variables and positional parameters

IsNumber(name) == name # <<>> /\ Chars(name) \subseteq Range(A!Numerals)
env_expand_n(s, name) ==
    CASE name = <<"#">> -> A!Scalar(NumText(Len(s.pos)))
      [] IsNumber(name) /\ A!Decimal(name) >= 1 ->
            IF A!Decimal(name) <= Len(s.pos) THEN A!Scalar(s.pos[A!Decimal(name)]) ELSE A!NoValue
      [] name \in DOMAIN s.vars -> s.vars[name]
      [] OTHER -> A!NoValue
AsText(val) == IF val.is = "scalar" THEN {val.text} ELSE {}

IfsFirst(s) == IF s.ifs = <<>> THEN <<>> ELSE <<s.ifs[1]>>
join_positionals(s) ==
    IF s.pos = <<>> THEN <<>>
    ELSE FoldLeft(LAMBDA out, t : out \o IfsFirst(s) \o t, s.pos[1], Tail(s.pos))
\* a separator only when something is written already
pos_join(s, from, to) ==
    A!JoinedBy([k \in 1..(IF to > from THEN to - from ELSE 0) |-> One(AsText(env_expand_n(s, NumText(from + k - 1))))], <<" ">>)

emit_positional_split(s, f) == EachOwn(f, s.pos, LAMBDA g, t : split_value(s, t, g))
emit_positional_at(s, f) == EachOwn(f, s.pos, push_new_dq_child)

emit_val_at(val, f) ==
    CASE val.is = "unset" -> f
      [] val.is = "scalar" -> push_new_dq_child(f, val.text)
      [] OTHER -> EachOwn(f, A!Texts(val.recs), push_new_dq_child)
emit_array_split(s, val, f) ==
    CASE val.is = "unset" -> f
      [] val.is = "scalar" -> split_value(s, val.text, f)
      [] val.is = "assoc" -> EachOwn(f, A!Texts(val.recs), push_new_env_child)
      [] OTHER -> EachOwn(f, A!Texts(val.recs), LAMBDA g, t : split_value(s, t, g))
KeyTexts(val) == [i \in DOMAIN A!Keys(val.recs) |->
                    IF A!arr_is(val) THEN NumText(A!Keys(val.recs)[i]) ELSE A!Keys(val.recs)[i]]
emit_keys(val, f, quoted) ==
    CASE val.is \in {"unset", "scalar"} -> f
      [] val.is \in {"array", "assoc"} /\ quoted -> EachOwn(f, KeyTexts(val), push_new_dq_child)
      [] OTHER -> EachOwn(f, KeyTexts(val), push_new_env_child)

(* Where a token of the word goes.                                         *)
try_array_child(s, t, f) ==
    CASE t.mark[1] = "val" -> emit_val_at(t.mark[2], f)
      [] t.mark[1] = "keys" -> emit_keys(env_expand_n(s, t.mark[2]), f, t.tt = "dqenv")
      [] t.mark[1] = "arr" /\ t.tt = "dqenv" -> emit_val_at(env_expand_n(s, t.mark[2]), f)
      [] t.mark[1] = "arr" /\ t.tt # "dqenv" -> emit_array_split(s, env_expand_n(s, t.mark[2]), f)
split_one_child(s, t, f) ==
    CASE t.mark # <<>> /\ t.mark[1] # "pos" -> try_array_child(s, t, f)
      [] t.mark # <<>> /\ t.mark[1] = "pos" /\ t.tt = "dqenv" -> emit_positional_at(s, f)
      [] t.mark # <<>> /\ t.mark[1] = "pos" /\ t.tt # "dqenv" -> emit_positional_split(s, f)
      [] t.mark = <<>> /\ t.tt \in {"env", "cmd"} -> split_value(s, t.text, f)
      [] OTHER -> [f EXCEPT !.curr = Append(@, AsPiece(t))]
split_words(s, toks) ==
    push_and_reinit(FoldLeft(LAMBDA f, t : split_one_child(s, t, f), NoFields, toks)).ret

-----------------------------------------------------------------------------
(* The forms of ${...} that are about an array or the positional           *)
(* parameters, told from the text of the body.                             *)

NameLen(t) == P!plain_name(t)
Subscripted(t) == NameLen(t) > 0 /\ Byte(t, NameLen(t) + 1) = "["
All(t, n) == Byte(t, n) \in {"@", "*"} /\ Byte(t, n + 1) = "]"      \* @] or *] at n

\* name[body]: {} or {[n, body]}
subscript_of(t) ==
    LET n == NameLen(t)
    IN  IF Subscripted(t) /\ Len(t) > n + 2 /\ Last(t) = "]"
        THEN {[n |-> n, body |-> SubSeq(t, n + 2, Len(t) - 1)]} ELSE {}
\* name[@]:off, but not name[@]:-word
slice_name_len(t) ==
    LET n == NameLen(t)
    IN  IF Subscripted(t) /\ All(t, n + 2) /\ Byte(t, n + 4) = ":"
           /\ Byte(t, n + 5) \notin {"-", "+", "=", "?"} THEN n ELSE 0
\* name[@]op, op a trim or a substitution
array_op_split(t) ==
    LET n == NameLen(t)
    IN  IF Subscripted(t) /\ All(t, n + 2) /\ Byte(t, n + 4) \in {"#", "%", "/"} THEN n ELSE 0
at_op_ok(op) ==
    \/ Byte(op, 1) \in {"-", "+", "=", "?"}
    \/ Byte(op, 1) = ":" /\ Byte(op, 2) \in {"-", "+", "=", "?"}
RECURSIVE close_from(_, _, _)
close_from(t, i, depth) ==
    CASE i > Len(t) -> 0
      [] i <= Len(t) /\ t[i] = "]" -> IF depth = 1 THEN i ELSE close_from(t, i + 1, depth - 1)
      [] i <= Len(t) /\ t[i] = "[" -> close_from(t, i + 1, depth + 1)
      [] i <= Len(t) /\ t[i] = "\\" -> close_from(t, i + 2, depth)
      [] i <= Len(t) /\ t[i] \in {"'", "\""} -> close_from(t, R!skip_quoted_in_brace(t, i), depth)
      [] OTHER -> close_from(t, i + 1, depth)
subscript_close(t, open) == close_from(t, open + 1, 1)
\* name[sub]op: {} or {[n, sub, op]}
elem_op_split(t) ==
    LET n == NameLen(t)
        c == subscript_close(t, n + 1)
    IN  IF Subscripted(t) /\ (All(t, n + 2) => at_op_ok(From(t, n + 4))) /\ c # 0 /\ c < Len(t)
        THEN {[n |-> n, sub |-> SubSeq(t, n + 2, c - 1), op |-> From(t, c + 1)]} ELSE {}
slice_off_len(t, first) ==             \* the colon after the offset, or the end
    LET at == {i \in first + 1 .. Len(t) : t[i] = ":"} IN IF at = {} THEN Len(t) + 1 ELSE A!Least(at)

-----------------------------------------------------------------------------
(* One token that is a parameter.  An outcome is [s, t]: the shell after   *)
(* it and the token.                                                       *)

Out(s, t) == [s |-> s, t |-> t]
Said(s, t, text) == Out(s, Texted(t, text))
GiveUp(s) == [s EXCEPT !.err = TRUE]
Assigned(s, name, val) == [s EXCEPT !.vars = (name :> val) @@ @]
try_unset(s, name) == [s EXCEPT !.vars = [n \in DOMAIN @ \ {name} |-> @[n]]]
IsPar(t) == t.tt \in {"env", "dqenv"}
\* what expand_param_format and the word of an operator ask of a token again
RECURSIVE expand_token(_, _, _), format(_, _, _)

(* The word of an operator, a subscript, a replacement: parsed again and   *)
(* expanded, never split.  An outcome is [s, text].                        *)
tokens_of(w) ==
    LET segs == R!reparse_word(w)
    IN  [i \in DOMAIN segs |-> Tok(segs[i].tt, SubSeq(w, segs[i].from, segs[i].to - 1))]
word_text(toks) == FlattenSeq([i \in DOMAIN toks |-> toks[i].text])

\* $( ) and ` ` in a piece of unquoted text, $(( )) before them
capture(s) == LET KeepTo == {n \in 0..Len(s.out) : \A i \in n + 1 .. Len(s.out) : s.out[i] = "nl"}
              IN  SubSeq(s.out, 1, A!Least(KeepTo))
RECURSIVE find_cmd_sub_end(_, _, _, _)
find_cmd_sub_end(w, i, depth, cs) ==
    CASE depth = 0 -> i
      [] depth # 0 /\ i > Len(w) -> 0
      [] depth # 0 /\ i <= Len(w) /\ R!sh_skip_quoted(w, i) # 0 ->
            find_cmd_sub_end(w, R!sh_skip_quoted(w, i), depth, [cs EXCEPT !.cmd = FALSE])
      [] OTHER -> LET m == R!casescan_step(cs, w, i, depth)
                  IN  find_cmd_sub_end(w, m.i, depth + m.d, m.cs)
RECURSIVE arith_end(_, _, _)
arith_end(w, i, depth) ==
    CASE depth = 0 -> i
      [] depth # 0 /\ i > Len(w) -> 0
      [] depth # 0 /\ i <= Len(w) /\ w[i] = "(" ->
            IF Byte(w, i + 1) = "(" THEN arith_end(w, i + 2, depth + 2) ELSE arith_end(w, i + 1, depth + 1)
      [] depth # 0 /\ i <= Len(w) /\ w[i] = ")" ->
            IF Byte(w, i + 1) = ")" THEN arith_end(w, i + 2, depth - 2) ELSE arith_end(w, i + 1, depth - 1)
      [] OTHER -> arith_end(w, i + 1, depth)
RECURSIVE backtick_end(_, _)
backtick_end(w, i) ==
    CASE i > Len(w) -> 0
      [] i <= Len(w) /\ w[i] = "bq" -> i + 1
      [] OTHER -> backtick_end(w, i + (IF w[i] = "\\" /\ i < Len(w) THEN 2 ELSE 1))
arith_expand(text) == LET n == A!arith_num(SelectSeq(text, LAMBDA c : c # " "))
                      IN  IF n < 0 THEN <<"-">> \o ft_itoa(-n) ELSE ft_itoa(n)

\* $x and ${x} left in an expression
NameEnd(w, i) == i - 1 + (IF Byte(w, i) \in {"@", "*", "#"} THEN 1 ELSE P!pf_scan_scalar_name(From(w, i)))
RECURSIVE braced_end(_, _, _)
braced_end(w, i, depth) ==
    CASE i > Len(w) \/ (Byte(w, i) = "}" /\ depth = 1) -> i
      [] i <= Len(w) /\ w[i] = "}" /\ depth > 1 -> braced_end(w, i + 1, depth - 1)
      [] OTHER -> braced_end(w, i + 1, IF w[i] = "{" THEN depth + 1 ELSE depth)
RECURSIVE expand_arith_vars(_, _, _)
expand_arith_vars(s, w, i) ==          \* [s, text] from position i on
    LET e == braced_end(w, i + 2, 1)
        b == expand_token(s, Tok("env", SubSeq(w, i + 2, e - 1)), FALSE)
        n == NameEnd(w, i + 1)
        v == env_expand_n(s, SubSeq(w, i + 1, n))
        Then(u, text, next) == LET r == expand_arith_vars(u, w, next) IN [r EXCEPT !.text = text \o @]
    IN  CASE i > Len(w) -> [s |-> s, text |-> <<>>]
          [] i < Len(w) /\ w[i] = "$" /\ w[i + 1] = "{" -> Then(b.s, b.t.text, e + 1)
          [] i < Len(w) /\ w[i] = "$" /\ w[i + 1] # "{" /\ n > i ->
                Then(s, IF AsText(v) = {} THEN <<>> ELSE One(AsText(v)), n + 1)
          [] OTHER -> Then(s, <<w[i]>>, i + 1)

\* text in front of a substitution is written once more when nothing came of
\* the one before it
RECURSIVE word_steps(_, _, _, _)
word_steps(s, w, i, out) ==            \* [s, text]
    LET two == i < Len(w) /\ w[i] = "$" /\ w[i + 1] = "("
        a == IF two /\ Byte(w, i + 2) = "(" THEN arith_end(w, i + 3, 2) ELSE 0
        c == IF two THEN find_cmd_sub_end(w, i + 2, 1, R!casescan_init) ELSE 0
        b == IF i <= Len(w) /\ w[i] = "bq" THEN backtick_end(w, i + 1) ELSE 0
        before == IF i > 1 /\ out = <<>> THEN SubSeq(w, 1, i - 1) ELSE out
    IN  CASE i > Len(w) -> [s |-> s, text |-> out]
          [] a # 0 -> LET inner == word_steps(s, SubSeq(w, i + 3, a - 3), 1, <<>>)
                          e == expand_arith_vars(inner.s, inner.text, 1)
                      IN  word_steps(e.s, w, a, before \o arith_expand(e.text))
          [] a = 0 /\ c # 0 -> word_steps(s, w, c, before \o capture(s))
          [] a = 0 /\ c = 0 /\ b # 0 -> word_steps(s, w, b, before \o capture(s))
          [] OTHER -> word_steps(s, w, i + 1, (IF two THEN before ELSE out) \o <<w[i]>>)
HasSub(w) == \E i \in DOMAIN w : w[i] \in {"$", "bq"}
process_word_token(s, t) == LET r == word_steps(s, t.text, 1, <<>>) IN Said(r.s, t, r.text)

\* every token in turn, the shell threaded through
Threaded(s, toks, Step(_, _, _)) ==    \* [s, toks]
    FoldLeft(LAMBDA acc, i : LET r == Step(acc.s, acc.toks, i)
                             IN  [s |-> r.s, toks |-> [acc.toks EXCEPT ![i] = r.t]],
             [s |-> s, toks |-> toks], [i \in DOMAIN toks |-> i])
expand_cmd_substitutions(s, toks) ==
    Threaded(s, toks, LAMBDA u, ts, i : IF ts[i].tt \in {"word", "cmd"} /\ HasSub(ts[i].text)
                                        THEN process_word_token(u, ts[i]) ELSE Out(u, ts[i]))
next_is_quoted_empty(toks, i) == i < Len(toks) /\ toks[i + 1].tt \in {"sq", "dq"} /\ toks[i + 1].text = <<>>
expand_env_vars(s, toks, split) ==
    Threaded(s, toks, LAMBDA u, ts, i :
        CASE ~IsPar(ts[i]) -> Out(u, ts[i])
          [] IsPar(ts[i]) /\ ts[i].text = <<>> ->
                Said(u, ts[i], IF next_is_quoted_empty(ts, i) THEN <<>> ELSE <<"$">>)
          [] OTHER -> expand_token(u, ts[i], split))

\* ~ ~+ ~- and what a / follows: the first piece, when it is unquoted text
HOME == <<"_", "a">>
PWD == <<"_", "b">>
OLDPWD == <<"_", "x">>
tilde_splice(w, val, n) == IF val = {} THEN w ELSE One(val) \o From(w, n + 1)
expand_tilde_token(s, w) ==            \* a user's ~name is left as it is
    CASE Byte(w, 2) = "+" -> tilde_splice(w, AsText(env_expand_n(s, PWD)), 2)
      [] Byte(w, 2) = "-" -> tilde_splice(w, AsText(env_expand_n(s, OLDPWD)), 2)
      [] Byte(w, 2) \in {"/", "end"} -> tilde_splice(w, AsText(env_expand_n(s, HOME)), 1)
      [] OTHER -> w
expand_tilde_word(s, toks) ==
    LET w == toks[1].text
        n == IF Byte(w, 2) \in {"+", "-"} THEN 2 ELSE 1
    IN  IF /\ toks # <<>> /\ toks[1].tt \in {"word", "cmd"} /\ Byte(w, 1) = "~"
           /\ Byte(w, n + 1) = "/" \/ (Len(w) = n /\ Len(toks) = 1)
        THEN [toks EXCEPT ![1] = Texted(@, expand_tilde_token(s, w))] ELSE toks

pf_word_pipeline(s, w) ==              \* [s, toks]
    LET c == expand_cmd_substitutions(s, expand_tilde_word(s, tokens_of(w)))
    IN  expand_env_vars(c.s, c.toks, FALSE)
RECURSIVE unbrace(_)
unbrace(w) == IF w = <<>> THEN <<>>
              ELSE IF w[1] = "\\" /\ Byte(w, 2) = "}" THEN <<"}">> \o unbrace(From(w, 3))
              ELSE <<w[1]>> \o unbrace(Tail(w))
expand_param_word_dq(s, w) == pf_word_pipeline(s, <<"\"">> \o unbrace(w) \o <<"\"">>)
expand_param_word(s, w, dq) ==         \* [s, text]
    LET r == CASE w = <<>> -> [s |-> s, toks |-> <<>>]
               [] w # <<>> /\ dq -> expand_param_word_dq(s, w)
               [] OTHER -> pf_word_pipeline(s, w)
    IN  [s |-> r.s, text |-> word_text(r.toks)]
expand_param_pattern(s, w) ==
    LET r == IF w = <<>> THEN [s |-> s, toks |-> <<>>] ELSE pf_word_pipeline(s, w)
    IN  [s |-> r.s, text |-> word_to_pattern(Pieces(r.toks))]
arith_num(s, w) ==                     \* [s, n]
    LET r == expand_param_word(s, w, FALSE) IN [s |-> r.s, n |-> A!arith_num(r.text)]

\* ${v...} of one value
AopVar == <<"_", "_">>                 \* where an element goes to be treated as a variable
ScalarOf(val) ==                       \* what the operators see of a value
    CASE val.is = "unset" -> {} [] val.is = "scalar" -> {val.text} [] OTHER -> {<<>>}
ss_len_sep(w, from) ==                 \* the colon before the length
    LET Depth(k) == Cardinality({j \in from..k : w[j] = "("}) - Cardinality({j \in from..k : w[j] = ")"})
        at == {k \in from..Len(w) : w[k] = ":" /\ Depth(k) = 0}
    IN  IF at = {} THEN Len(w) + 1 ELSE A!Least(at)
expand_substr(s, w, n) ==              \* n: where the name ends
    LET sep == ss_len_sep(w, n + 2)
        off == arith_num(s, SubSeq(w, n + 2, sep - 1))
        len == arith_num(off.s, From(w, sep + 1))
        val == ScalarOf(env_expand_n(s, SubSeq(w, 1, n)))
        r == P!ss_build(One(val), off.n, IF sep > Len(w) THEN P!NoLen ELSE len.n)
        u == IF sep > Len(w) THEN off.s ELSE len.s
    IN  IF val = {} THEN [s |-> s, some |-> {<<>>}]
        ELSE [s |-> IF r.err THEN GiveUp(u) ELSE u, some |-> {r.v}]

strlen_of_slice(s, w) ==               \* {} when it is none
    LET sub == subscript_of(w)
        val == env_expand_n(s, SubSeq(w, 1, One(sub).n))
        r == A!zsh_slice_bounds(s.z, One(sub).body, val)
    IN  IF sub = {} \/ r = {} THEN {} ELSE {A!zsh_slice_len(One(r), A!zsh_slice_universe(val))}
strlen_of_first(val) == LET e == A!arr_get_idx(val, 0) IN IF e = {} THEN 0 ELSE P!mb_count(One(e))
expand_strlen(s, w) ==                 \* ${#w}
    LET slice == strlen_of_slice(s, w)
        n == NameLen(w)
        whole == Subscripted(w) /\ All(w, n + 2) /\ Len(w) = n + 3
        e == expand_token(s, Tok("env", w), FALSE)
        val == env_expand_n(s, w)
        Is(u, k) == [s |-> u, some |-> {NumText(k)}]
    IN  CASE slice # {} -> Is(s, One(slice))
          [] slice = {} /\ whole -> Is(s, A!expand_strlen_arr(env_expand_n(s, SubSeq(w, 1, n))))
          [] slice = {} /\ ~whole /\ Subscripted(w) -> Is(e.s, P!mb_count(e.t.text))
          [] OTHER -> Is(s, CASE val = A!NoValue -> 0
                              [] A!arr_is(val) -> IF s.z THEN A!arr_count(val) ELSE strlen_of_first(val)
                              [] A!assoc_is(val) -> A!assoc_count(val)
                              [] OTHER -> P!mb_count(val.text))

pf_target_ok(mid) ==
    P!pf_valid_plain(mid) \/ (Last(mid) = "]" /\ \E i \in 2..Len(mid) : mid[i] = "[" /\ P!pf_valid_plain(SubSeq(mid, 1, i - 1)))
pf_expand_rebuilt(s, mid, rest) ==
    LET r == expand_param_word(s, <<"$", "{">> \o mid \o rest \o <<"}">>, FALSE)
    IN  [s |-> r.s, some |-> {r.text}]
pf_indirect(s, w, n) ==                \* ${!name...}: w without the !, n where the name ends
    LET mid == ScalarOf(env_expand_n(s, SubSeq(w, 1, n)))
    IN  IF mid \in {{}, {<<>>}} THEN [s |-> GiveUp(s), some |-> {<<>>}]
        ELSE IF ~pf_target_ok(One(mid)) THEN [s |-> GiveUp(s), some |-> {<<>>}]
        ELSE pf_expand_rebuilt(s, One(mid), From(w, n + 1))

expand_param_op(s, w, f, dq) ==        \* f says which operator; the word is expanded when it is used
    LET name == SubSeq(w, 1, f.n)
        at == name \in {<<"@">>, <<"*">>}
        val == IF at THEN (IF s.pos = <<>> THEN {} ELSE {join_positionals(s)}) ELSE ScalarOf(env_expand_n(s, name))
        word == expand_param_word(s, From(w, f.at), dq)
        r == P!expand_param_op(val, f.op, name, word.text, name :> val)
        fails == P!pf_err_word(val, f.op, <<>>).err
        assigns == f.op \in {"=", ":="} /\ P!pf_op_word_used(val, f.op)
    IN  CASE f.op \in {"?", ":?"} /\ fails -> [s |-> GiveUp(word.s), some |-> {<<>>}]
          [] assigns -> [s |-> Assigned(word.s, name, A!Scalar(word.text)), some |-> {word.text}]
          [] OTHER -> [s |-> IF P!pf_op_word_used(val, f.op) THEN word.s ELSE s, some |-> {r.val}]
expand_trim(s, w, f) ==
    LET val == ScalarOf(env_expand_n(s, SubSeq(w, 1, f.n)))
        p == expand_param_pattern(s, From(w, f.at))
    IN  IF val = {} THEN [s |-> s, some |-> {<<>>}]
        ELSE [s |-> p.s, some |-> {P!expand_trim(val, f.op, p.text, s.o)}]
expand_subst(s, w, f) ==
    LET val == ScalarOf(env_expand_n(s, SubSeq(w, 1, f.n)))
        e == P!subst_span(w, f)
        p == expand_param_pattern(s, SubSeq(w, f.at, e - 1))
        r == expand_param_word(p.s, From(w, e + 1), FALSE)
    IN  IF val = {} THEN [s |-> s, some |-> {<<>>}]
        ELSE [s |-> r.s, some |-> {P!expand_subst(val, f.op, p.text, r.text, s.o)}]
CaseOps == {"^", "^^", ",", ",,", "~", "~~"}
expand_case(s, w, f) ==
    LET val == ScalarOf(env_expand_n(s, SubSeq(w, 1, f.n)))
        p == expand_param_pattern(s, From(w, f.at))
        one == CASE f.op \in {"^", "^^"} -> "^" [] f.op \in {",", ",,"} -> "," [] OTHER -> "~"
    IN  IF val = {} THEN [s |-> s, some |-> {<<>>}]
        ELSE [s |-> p.s, some |-> {P!case_body_pat(One(val), one, f.op # one, p.text, s.o)}]
expand_xform(s, w, f) ==
    LET val == ScalarOf(env_expand_n(s, SubSeq(w, 1, f.n)))
    IN  [s |-> s, some |-> {IF val = {} THEN <<>> ELSE P!xform(One(val), SubSeq(f.op, 2, 2), s.o)}]
format(s, w, dq) ==                    \* [s, some]: no text for a plain name
    LET f == P!expand_param_format(w) IN
    CASE f.op = "none" -> [s |-> s, some |-> {}]
      [] f.op = "bad" -> [s |-> GiveUp(s), some |-> {<<>>}]
      [] f.op = "len" -> expand_strlen(s, Tail(w))
      [] f.op = "!" -> pf_indirect(s, Tail(w), f.n - 1)
      [] f.op \in {"%", "%%", "#", "##"} -> expand_trim(s, w, f)
      [] f.op \in {"/", "//", "/#", "/%"} -> expand_subst(s, w, f)
      [] f.op \in CaseOps -> expand_case(s, w, f)
      [] f.op = "slice" -> expand_substr(s, w, f.n)
      [] f.op \in {"@U", "@L", "@u", "@A", "@a"} -> expand_xform(s, w, f)
      [] OTHER -> expand_param_op(s, w, f, dq)

-----------------------------------------------------------------------------
(* The forms that may become several fields.  No means that the token is   *)
(* not of that form.                                                       *)
No == [is |-> FALSE]
Yes(s, t) == [is |-> TRUE, s |-> s, t |-> t]
Fields(t, texts) == Deferred(t, <<"val", A!arr_from_elems(texts, A!NoValue)>>)

expand_positional(s, t, split) ==
    CASE t.text \notin {<<"@">>, <<"*">>} -> No
      [] t.text \in {<<"@">>, <<"*">>} /\ split /\ (t.tt = "env" \/ t.text = <<"@">>) ->
            Yes(s, Deferred(t, <<"pos", t.text[1]>>))
      [] OTHER -> Yes(s, Texted(t, join_positionals(s)))

pos_slice_range(s, t) ==               \* [s, off, to]
    LET e == slice_off_len(t.text, 2)
        off == arith_num(s, SubSeq(t.text, 3, e - 1))
        from == IF off.n < 0 THEN off.n + Len(s.pos) + 1 ELSE off.n
        len == arith_num(off.s, From(t.text, e + 1))
    IN  IF e > Len(t.text) THEN [s |-> off.s, off |-> from, to |-> Len(s.pos) + 1]
        ELSE [s |-> len.s, off |-> from, to |-> from + len.n]
\* position 0, the name of the shell, is left out of the model
pos_mark_fields(s, t, off, to) ==
    LET from == IF off < 1 THEN 1 ELSE off
        upto == IF to - 1 > Len(s.pos) THEN Len(s.pos) ELSE to - 1
    IN  Fields(t, SubSeq(s.pos, from, upto))
expand_pos_slice(s, t, split) ==
    LET r == pos_slice_range(s, t) IN
    CASE Len(t.text) < 3 \/ Byte(t.text, 1) \notin {"@", "*"} \/ Byte(t.text, 2) # ":"
         \/ Byte(t.text, 3) \in {"-", "+", "=", "?"} -> No
      [] split /\ t.text[1] = "@" /\ t.tt = "dqenv" -> Yes(r.s, pos_mark_fields(r.s, t, r.off, r.to))
      [] OTHER -> Yes(r.s, Texted(t, pos_join(r.s, r.off, r.to)))

\* ${a[@]op}: each element by itself, joined by a space
array_op_elem(s, op, v) ==
    LET r == format(Assigned(s, AopVar, A!Scalar(v)), AopVar \o op, FALSE)
    IN  [s |-> r.s, text |-> IF r.some = {} THEN v ELSE One(r.some)]
array_op_loop(s, val, op) ==
    FoldLeft(LAMBDA acc, v : LET r == array_op_elem(acc.s, op, v)
                             IN  [s |-> r.s, out |-> Append(acc.out, r.text)],
             [s |-> s, out |-> <<>>], A!Texts(A!arr_next(val)))
SpaceJoined(texts) == FlattenSeq([i \in DOMAIN texts |-> IF i = 1 THEN texts[i] ELSE <<" ">> \o texts[i]])
expand_array_op(s, t) ==
    LET n == array_op_split(t.text)
        r == array_op_loop(s, env_expand_n(s, SubSeq(t.text, 1, n)), From(t.text, n + 4))
    IN  IF n = 0 THEN No ELSE Yes(try_unset(r.s, AopVar), Texted(t, SpaceJoined(r.out)))

\* the word of an operator that is "$@" or "${a[@]}" and nothing else
pf_op_word_at_fields(s, t, w) ==
    LET body == SubSeq(w, 4, Len(w) - 5)
        val == env_expand_n(s, body)
        quoted == Len(w) >= 4 /\ w[1] = "\"" /\ Last(w) = "\""
    IN  CASE w = <<"\"", "$", "@", "\"">> -> Yes(s, pos_mark_fields(s, t, 1, Len(s.pos) + 1))
          [] quoted /\ Len(w) >= 9 /\ w[2] = "$" /\ w[3] = "{"
             /\ SubSeq(w, Len(w) - 4, Len(w) - 1) = <<"[", "@", "]", "}">> /\ P!plain_name(body) = Len(body) ->
                Yes(s, CASE A!arr_is(val) -> Deferred(t, <<"val", val>>)
                         [] val = A!NoValue -> Fields(t, <<>>)
                         [] OTHER -> Fields(t, <<One(ScalarOf(val))>>))
          [] OTHER -> No
at_op_word_fields(s, t, elem, op) ==
    LET o == IF Byte(op, 1) = ":" THEN Tail(op) ELSE op
        used == (Byte(o, 1) = "+") = (elem # {})
    IN  IF Byte(o, 1) \in {"+", "-"} /\ used THEN pf_op_word_at_fields(s, t, Tail(o)) ELSE No

\* ${a[i]op}, ${a[@]-word}
elem_apply(s, op, elem) ==             \* elem is {} or {text}
    LET u == IF elem = {} THEN try_unset(s, AopVar) ELSE Assigned(s, AopVar, A!Scalar(One(elem)))
        r == format(u, AopVar \o op, FALSE)
    IN  [s |-> try_unset(r.s, AopVar), text |-> IF r.some = {} THEN <<>> ELSE One(r.some)]
expand_array_elem_op(s, t, split) ==
    LET f == elem_op_split(t.text)
        e == One(f)
        star == e.sub \in {<<"@">>, <<"*">>}
        val == env_expand_n(s, SubSeq(t.text, 1, e.n))
        sub == expand_param_word(s, e.sub, FALSE)
        elem == IF star THEN A!at_value(val) ELSE A!elem_value(s.z, val, sub.text)
        asFields == IF split /\ e.sub = <<"@">> THEN at_op_word_fields(s, t, elem, e.op) ELSE No
        r == elem_apply(IF star THEN s ELSE sub.s, e.op, elem)
    IN  IF f = {} THEN No ELSE IF asFields.is THEN asFields ELSE Yes(r.s, Texted(t, r.text))

\* ${!a[@]}, ${!a*}, ${a[@]:off:len}
arr_keys(s, t, split) ==
    LET name == SubSeq(t.text, 2, Len(t.text) - 3)
        val == env_expand_n(s, name)
    IN  CASE split -> Deferred(t, <<"keys", name>>)
          [] ~split /\ val.is \in {"array", "assoc"} -> Texted(t, SpaceJoined(KeyTexts(val)))
          [] OTHER -> Texted(t, IF val = A!NoValue THEN <<>> ELSE <<"0">>)
pfx_collect(s, pre) ==                 \* in the order of the names
    SortSeq(SetToSeq({n \in DOMAIN s.vars : IsPrefix(pre, n)}), LAMBDA a, b : strcoll(a, b) < 0)
arr_prefix_names(s, t, split) ==
    LET l == pfx_collect(s, SubSeq(t.text, 2, Len(t.text) - 1))
    IN  IF Last(t.text) = "@" /\ split /\ l # <<>> THEN Fields(t, l) ELSE Texted(t, SpaceJoined(l))
arr_slice(s, t, n) ==
    LET val == env_expand_n(s, SubSeq(t.text, 1, n))
        e == slice_off_len(t.text, n + 4)
        off == arith_num(s, SubSeq(t.text, n + 5, e - 1))
        from == IF off.n < 0 THEN off.n + A!arr_count(val) ELSE off.n
        len == arith_num(off.s, From(t.text, e + 1))
        lim == IF e > Len(t.text) THEN A!arr_count(val) ELSE from + len.n
    IN  Yes(IF e > Len(t.text) THEN off.s ELSE len.s, Texted(t, A!arr_slice_build(val, from, lim)))
expand_array_ext(s, t, split) ==
    LET w == t.text
        n == slice_name_len(w)
        bang == Byte(w, 1) = "!"
    IN  CASE bang /\ Len(w) >= 5 /\ Last(w) = "]" /\ w[Len(w) - 1] \in {"@", "*"} /\ w[Len(w) - 2] = "[" ->
                Yes(s, arr_keys(s, t, split))
          [] bang /\ Len(w) >= 3 /\ Last(w) \in {"@", "*"} /\ P!plain_name(Tail(w)) = Len(w) - 2 ->
                Yes(s, arr_prefix_names(s, t, split))
          [] ~bang /\ n > 0 -> arr_slice(s, t, n)
          [] OTHER -> No

\* ${a[@]}, ${a[*]}, ${a[i]}
arr_at_star(s, t, val, name, split) ==
    LET sub == t.text[Len(t.text) - 1]
    IN  IF split /\ (t.tt = "env" \/ sub = "@") THEN Deferred(t, <<"arr", name>>)
        ELSE Texted(t, A!arr_join(val, IF sub = "*" THEN IfsFirst(s) ELSE <<" ">>))
expand_array_token(s, t, split) ==
    LET f == subscript_of(t.text)
        name == SubSeq(t.text, 1, One(f).n)
        val == env_expand_n(s, name)
        sub == expand_param_word(s, One(f).body, FALSE)
        e == A!arr_element(s.z, val, sub.text, IfsFirst(s))
    IN  CASE f = {} -> No
          [] f # {} /\ One(f).body \in {<<"@">>, <<"*">>} -> Yes(s, arr_at_star(s, t, val, name, split))
          [] OTHER -> Yes(sub.s, Texted(t, IF e = {} THEN <<>> ELSE One(e)))

\* ${@-word}, and the operators of a plain variable
at_cond(s, f, dq, star) ==
    CASE f.op \notin {":-", ":=", ":?", ":+"} -> s.pos = <<>>
      [] f.op \in {":-", ":=", ":?", ":+"} /\ dq /\ star -> join_positionals(s) = <<>>
      [] OTHER -> s.pos = <<>> \/ s.pos = <<<<>>>>
expand_positional_op(s, t, f, split) ==
    LET name == SubSeq(t.text, 1, 1)
        cond == at_cond(s, f, t.tt = "dqenv", name = <<"*">>)
        word == expand_param_word(s, From(t.text, f.at), t.tt = "dqenv")
    IN  CASE f.op \in {"?", ":?", "=", ":="} /\ cond -> Out(GiveUp(s), Texted(t, <<>>))
          [] (f.op \in {"-", ":-"} /\ cond) \/ (f.op \in {"+", ":+"} /\ ~cond) -> Out(word.s, Texted(t, word.text))
          [] OTHER -> LET p == expand_positional(s, Texted(t, name), split) IN Out(s, p.t)
RECURSIVE unquoted_blank(_, _, _)
unquoted_blank(w, i, q) ==             \* q: the quote that is open, or ""
    /\ i <= Len(w)
    /\ \/ q = "" /\ w[i] \in {" ", "tab", "nl"}
       \/ unquoted_blank(w, i + 1, IF q # "" THEN (IF w[i] = q THEN "" ELSE q)
                                   ELSE IF w[i] \in {"\"", "'"} THEN w[i] ELSE "")
opword_no_split(w) == ~unquoted_blank(w, 1, "")
expand_op_token(s, t, split) ==
    LET f == P!find_param_op(t.text)
        word == From(t.text, f.at)
        used == P!pf_op_word_used(ScalarOf(env_expand_n(s, SubSeq(t.text, 1, f.n))), f.op)
        asFields == IF used /\ split THEN pf_op_word_at_fields(s, t, word) ELSE No
        r == expand_param_op(s, t.text, f, t.tt = "dqenv")
        whole == /\ split /\ t.tt = "env" /\ opword_no_split(word)
                 /\ One(r.some) # <<>> \/ (used /\ word # <<>>)
        p == expand_positional_op(s, t, f, split)
    IN  CASE f = P!NoOp -> No
          [] f # P!NoOp /\ SubSeq(t.text, 1, 1) \in {<<"@">>, <<"*">>} -> Yes(p.s, p.t)
          [] f # P!NoOp /\ SubSeq(t.text, 1, 1) \notin {<<"@">>, <<"*">>} /\ asFields.is -> asFields
          [] OTHER -> Yes(r.s, [Texted(t, One(r.some)) EXCEPT !.tt = IF whole THEN "dq" ELSE @])

expand_simple_var(s, t) ==
    LET val == env_expand_n(s, t.text)
        first == A!arr_get_idx(val, 0)
    IN  CASE val = A!NoValue -> Out(IF s.nounset THEN GiveUp(s) ELSE s, Texted(t, <<>>))
          [] A!arr_is(val) -> Said(s, t, IF first = {} THEN <<>> ELSE One(first))
          [] OTHER -> Said(s, t, One(ScalarOf(val)))
\* the first form that takes it
expand_token(s, t, split) ==
    LET forms == <<expand_positional(s, t, split), expand_pos_slice(s, t, split), expand_array_op(s, t),
                   expand_array_elem_op(s, t, split), expand_array_ext(s, t, split),
                   expand_array_token(s, t, split), expand_op_token(s, t, split)>>
        hits == {i \in DOMAIN forms : forms[i].is}
        first == forms[A!Least(hits)]
        r == format(s, t.text, FALSE)
    IN  CASE hits # {} -> Out(first.s, first.t)
          [] hits = {} /\ r.some # {} -> Said(r.s, t, One(r.some))
          [] OTHER -> expand_simple_var(s, t)

-----------------------------------------------------------------------------
(* A word as the parser left it, a sequence of tokens, becomes fields.  An *)
(* outcome is [s, args].                                                   *)

word_has_unquoted_brace(toks) ==
    \E i \in DOMAIN toks : toks[i].tt \in {"word", "cmd"} /\ "{" \in Chars(toks[i].text)
brace_src_append(t) ==
    CASE IsPar(t) -> <<"$">> \o t.text
      [] t.tt = "sq" -> <<"'">> \o t.text \o <<"'">>
      [] t.tt = "dq" -> <<"\"">> \o t.text \o <<"\"">>
      [] OTHER -> t.text
word_to_brace_src(toks) == FlattenSeq([i \in DOMAIN toks |-> brace_src_append(toks[i])])
\* as many texts as the braces of the word ask for, or none when it has none
try_brace_expand(s, toks) ==
    LET flat == word_to_brace_src(toks)
    IN  IF s.braces /\ word_has_unquoted_brace(toks) /\ brace_find_expandable(flat) # 0
        THEN brace_expand_str(flat) ELSE <<>>

build_words(s, toks, keep) ==          \* [s, words]: a word is a sequence of pieces
    LET c == expand_cmd_substitutions(s, expand_tilde_word(s, toks))
        e == expand_env_vars(c.s, c.toks, ~keep)
    IN  [s |-> e.s, words |-> IF keep THEN <<Pieces(e.toks)>> ELSE split_words(e.s, e.toks)]
push_glob_no_split(names) == <<SpaceJoined(names)>>
expand_node_glob(s, w, keep, no_glob) ==
    CASE no_glob -> <<word_to_string(w)>>
      [] ~no_glob /\ keep -> push_glob_no_split(expand_word_glob(w, s.fs, s.o))
      [] OTHER -> expand_word_glob(w, s.fs, s.o)
RECURSIVE expand_word_glob_ctl(_, _, _, _)
expand_word_glob_ctl(s, toks, keep, no_glob) ==
    LET braced == IF keep THEN <<>> ELSE try_brace_expand(s, toks)
        expand_brace_result ==
            FoldLeft(LAMBDA acc, w : LET r == expand_word_glob_ctl(acc.s, tokens_of(w), FALSE, FALSE)
                                     IN  [s |-> r.s, args |-> acc.args \o r.args],
                     [s |-> s, args |-> <<>>], braced)
        b == build_words(s, toks, keep)
    IN  CASE braced # <<>> -> expand_brace_result
          [] braced = <<>> /\ toks = <<>> -> [s |-> s, args |-> <<<<>>>>]
          [] OTHER -> [s |-> b.s, args |-> FlattenSeq([i \in DOMAIN b.words |->
                                     expand_node_glob(b.s, b.words[i], keep, no_glob \/ s.noglob)])]
expand_word(s, toks, keep) == expand_word_glob_ctl(s, toks, keep, FALSE)

-----------------------------------------------------------------------------
(* The short cuts: a value that needs none of the above, in a set, or {}.  *)

has_plain_literal_meta(w, i) ==
    \/ w[i] \in {"$", "bq", "*", "?", "~", "{", "\\", "'", "\"", " ", "tab", "nl"}
    \/ w[i] = "]" /\ \E j \in 1..i - 2 : w[j] = "[" /\ \A k \in j + 1..i - 1 : w[k] # "["
word_is_plain_literal(s, toks) ==
    /\ Len(toks) = 1 /\ toks[1].tt \in {"word", "cmd"}
    /\ LET w == toks[1].text IN
       \A i \in DOMAIN w : /\ ~has_plain_literal_meta(w, i)
                           /\ ~extglob_ahead(w, i, s.o)
                           /\ xg_alt_group_n(w, i, TRUE, s.o) = 0
NonEmpty(toks) == SelectSeq(toks, LAMBDA t : ~(t.tt \in {"word", "cmd"} /\ t.text = <<>>))
lone_nonempty_token(toks) == IF Len(NonEmpty(toks)) = 1 THEN {NonEmpty(toks)[1]} ELSE {}
name_is_plain(w) == Len(w) > 0 /\ P!IdStart(w[1]) /\ P!plain_name(w) = Len(w)
\* mutant: only the blanks of the value count
needs_split_or_glob_blanks(v) == \E c \in Chars(v) : c \in {" ", "tab", "nl"}
needs_split_or_glob(v) == \E c \in Chars(v) : c \in {" ", "tab", "nl", "*", "?", "["}
try_simple_envvar(s, toks) ==
    LET t == lone_nonempty_token(toks)
        v == AsText(env_expand_n(s, One(t).text))
    IN  IF /\ t # {} /\ IsPar(One(t)) /\ name_is_plain(One(t).text)
           /\ s.ifs = <<" ", "tab", "nl">>
           /\ v \notin {{}, {<<>>}} /\ ~needs_split_or_glob(One(v))
        THEN v ELSE {}
is_plain_literal_text(w) ==
    Chars(w) \cap {"$", "bq", "\\", "'", "\"", "~", "{", "}", "*", "?", "[", "]", " ", "tab", "nl"} = {}
concat_one_token(s, t) ==              \* {} when the token is not simple
    LET val == env_expand_n(s, t.text) IN
    CASE t.tt \in {"word", "cmd", "dq"} -> IF is_plain_literal_text(t.text) THEN {t.text} ELSE {}
      [] IsPar(t) /\ name_is_plain(t.text) ->
            CASE val = A!NoValue -> IF s.nounset THEN {} ELSE {<<>>}
              [] OTHER -> AsText(val)
      [] OTHER -> {}
try_simple_concat(s, toks) ==
    IF Len(toks) >= 2 /\ \A i \in DOMAIN toks : concat_one_token(s, toks[i]) # {}
    THEN {FlattenSeq([i \in DOMAIN toks |-> One(concat_one_token(s, toks[i]))])} ELSE {}
lone_word_token(toks) ==
    IF (\A i \in DOMAIN toks : toks[i].tt \in {"word", "cmd"}) THEN lone_nonempty_token(toks) ELSE {}
try_pure_arith(toks) ==
    LET t == lone_word_token(toks)
        w == One(t).text
        n == Len(w)
    IN  IF /\ t # {} /\ n >= 5
           /\ SubSeq(w, 1, 3) = <<"$", "(", "(">> /\ SubSeq(w, n - 1, n) = <<")", ")">>
           /\ \A i \in 4..n - 2 : w[i] \notin {"$", "bq"}
        THEN {arith_expand(SubSeq(w, 4, n - 2))} ELSE {}
fast_path_expand(s, toks, keep) ==
    LET lit == IF word_is_plain_literal(s, toks) THEN {toks[1].text} ELSE {}
    IN  CASE lit # {} -> lit
          [] lit = {} /\ try_pure_arith(toks) # {} -> try_pure_arith(toks)
          [] lit = {} /\ try_pure_arith(toks) = {} /\ try_simple_envvar(s, toks) # {} -> try_simple_envvar(s, toks)
          [] OTHER -> IF keep THEN try_simple_concat(s, toks) ELSE {}
\* a word of a command; the value of an assignment; an element of a=( )
expand_word_ro(s, toks, keep) ==
    LET f == fast_path_expand(s, toks, keep)
    IN  IF f # {} THEN [s |-> s, args |-> <<One(f)>>] ELSE expand_word(s, toks, keep)
expand_word_assign_ro(s, toks) ==
    LET f == fast_path_expand(s, toks, TRUE)
    IN  IF f # {} THEN [s |-> s, args |-> <<One(f)>>] ELSE expand_word_glob_ctl(s, toks, TRUE, TRUE)
expand_word_elem_ro(s, toks) == expand_word_glob_ctl(s, toks, FALSE, FALSE)
expand_word_single(s, toks) ==         \* the name in a redirection: one field or none
    LET r == expand_word(s, toks, FALSE)
    IN  CASE Len(r.args) = 1 -> [s |-> r.s, ok |-> TRUE, text |-> r.args[1]]
          [] Len(r.args) = 0 -> [s |-> r.s, ok |-> TRUE, text |-> <<>>]
          [] OTHER -> [s |-> r.s, ok |-> FALSE, text |-> <<>>]
=============================================================================
