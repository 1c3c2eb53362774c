------------------------------- MODULE Parser -------------------------------
(***************************************************************************)
(* The recursive-descent parser of src/parsing with the keyword pass of    *)
(* src/lexer that runs before it.  The input is a sequence of lexemes, one *)
(* string each: an operator, the newline "nl", or a word.  A token is a    *)
(* record [tt, v]; a word has tt "word" until reclassify_keywords makes it *)
(* a keyword.  A parser state s carries the tokens left, the children      *)
(* parsed so far for the node being built, and parser->res: "ok", "more"   *)
(* (RES_GETMOREINPUT) or "err".                                            *)
(***************************************************************************)
EXTENDS Naturals, Sequences, SequencesExt

Operators == {";", "&", "&&", "|", "||", "(", ")", "((", "<", ">", "<<", "<(",
              ";;", ";&", ";;&", "nl", "end"}
Keywords == {"if", "then", "elif", "else", "fi", "while", "until", "for", "do",
             "done", "case", "esac", "{", "}", "!", "coproc", "select"}
ArrayNames == {"x="}                   \* words NAME= that touch the next lexeme

is_redirect(tt) == tt \in {"<", ">", "<<"}
is_proc_sub(tt) == tt = "<("
is_case_term_plain(t) == t = ";;"       \* mutant: no fall-through
is_case_term(tt) == tt \in {";;", ";&", ";;&"}
is_list_op(tt) == tt \in {";", "&", "&&", "||", "nl"}
is_compound_start(tt) ==
    tt \in {"if", "while", "until", "for", "case", "{", "!", "((", "select"}
is_compound_terminator(tt) ==
    tt \in {")", "then", "elif", "else", "fi", "do", "done", "esac", "}"}
    \/ is_case_term(tt)
is_simple_cmd_token(tt) == tt = "word" \/ is_redirect(tt) \/ is_proc_sub(tt)

-----------------------------------------------------------------------------
(* The keyword pass: a fold over the tokens with the flags of the C code.  *)

is_cmd_position(tt) ==
    tt \in {";", "|", "&&", "||", "(", "nl", "&", "if", "then", "elif", "else",
            "while", "until", "do", "{", "!", ";;", ")", "coproc"}

brace_step(t, depth, zsh) ==
    LET u == IF zsh /\ depth > 0 /\ t.tt = "word" /\ t.v = "}"
             THEN [t EXCEPT !.tt = "}"] ELSE t
    IN  [tok |-> u,
         depth |-> CASE u.tt = "{" -> depth + 1
                     [] u.tt = "}" /\ depth > 0 -> depth - 1
                     [] OTHER -> depth]

reclassify_word(t) == IF t.v \in Keywords THEN [t EXCEPT !.tt = t.v] ELSE t

keyword_step(f, t) ==
    IF f.redir THEN [f EXCEPT !.redir = FALSE, !.out = Append(@, t)]
    ELSE IF is_redirect(t.tt) THEN [f EXCEPT !.redir = TRUE, !.out = Append(@, t)]
    ELSE IF f.name THEN [f EXCEPT !.name = FALSE, !.cmd = TRUE, !.out = Append(@, t)]
    ELSE LET k == IF t.tt = "word" /\ f.cmd THEN reclassify_word(t) ELSE t
             b == brace_step(k, f.depth, f.zsh)
             w == b.tok.tt = "word"
         IN  [f EXCEPT !.out = Append(@, b.tok), !.depth = b.depth,
                !.name = b.tok.tt \in {"for", "select"},
                !.cmd = \/ is_cmd_position(b.tok.tt)
                        \/ f.fn /\ w
                        \/ f.zsh /\ w /\ b.tok.v = "always",
                !.fn = \/ b.tok.tt = "coproc"
                       \/ w /\ b.tok.v = "function"
                       \/ f.zsh /\ f.fn /\ w]

Lexeme(x) == [tt |-> IF x \in Operators THEN x ELSE "word", v |-> x]

reclassify_keywords(xs, zsh) ==
    FoldLeft(keyword_step,
             [out |-> <<>>, cmd |-> TRUE, redir |-> FALSE, name |-> FALSE,
              fn |-> FALSE, depth |-> 0, zsh |-> zsh],
             [i \in 1..Len(xs) |-> Lexeme(xs[i])]).out

-----------------------------------------------------------------------------
Node(k, v, c) == [k |-> k, v |-> v, c |-> c]
Leaf(k, v) == Node(k, v, <<>>)

tokenizer(xs, zsh) ==
    [res |-> "ok", c |-> <<>>, zsh |-> zsh, v |-> "", stream |-> FALSE, cut |-> FALSE,
     t |-> Append(reclassify_keywords(xs, zsh), [tt |-> "end", v |-> "end"])]

Tok(s) == s.t[1].tt
Val(s) == s.t[1].v
Pop(s) == [s EXCEPT !.t = Tail(@)]
Pops(s, n) == [s EXCEPT !.t = SubSeq(@, n + 1, Len(@))]
Is(s, i, tt) == Len(s.t) >= i /\ s.t[i].tt = tt
Fresh(s) == [s EXCEPT !.c = <<>>, !.v = ""]
Res(s, r) == [s EXCEPT !.res = r]
unexpected(s) == Res(s, "err")
Push(s, n) == [s EXCEPT !.c = Append(@, n)]
\* r parsed the children of a node of kind k: the node joins the children of s
Close(s, k, r) == [r EXCEPT !.c = Append(s.c, Node(k, r.v, r.c)), !.v = s.v]
Then(r, F(_)) == IF r.res = "ok" THEN F(r) ELSE r

RECURSIVE skip_newlines(_)
skip_newlines(s) == IF Tok(s) = "nl" THEN skip_newlines(Pop(s)) ELSE s

parse_word(s) == Push(Pop(s), Leaf("word", Val(s)))

expect_token(s, tt) ==
    LET r == skip_newlines(s) IN
    IF Tok(r) = "end" THEN Res(r, "more")
    ELSE IF Tok(r) # tt THEN Res(r, "err")
    ELSE Pop(r)

RECURSIVE words_while(_, _)
words_while(s, kinds) ==
    IF Tok(s) = "word" THEN words_while(parse_word(s), kinds)
    ELSE IF Tok(s) \in kinds THEN words_while(Pop(s), kinds)
    ELSE s

RECURSIVE parse_pipeline(_), compound_rest(_), parse_compound_list(_), parse_command(_),
          pipes_rest(_), elif_chain(_), case_items(_), simple_rest(_), redirects(_)

-----------------------------------------------------------------------------
(* Simple commands: words, redirections, process substitutions, arrays.    *)

RECURSIVE proc_sub_tokens(_, _)
proc_sub_tokens(s, depth) ==
    LET d == CASE Tok(s) \in {"(", "<("} -> depth + 1
               [] Tok(s) = ")" -> depth - 1
               [] OTHER -> depth
    IN  IF Tok(s) = "end" THEN Res(s, "more")
        ELSE IF d = 0 THEN IF s.c = <<>> THEN Res(Pop(s), "err") ELSE Pop(s)
        ELSE proc_sub_tokens(Push(Pop(s), Leaf("tok", Val(s))), d)
parse_proc_sub(s) ==
    Close(s, "procsub", proc_sub_tokens([Fresh(Pop(s)) EXCEPT !.v = Val(s)], 1))

parse_redirect(s) ==
    LET r == [Fresh(Pop(s)) EXCEPT !.v = Val(s)] IN
    Close(s, "redirect", IF is_proc_sub(Tok(r)) THEN parse_proc_sub(r)
                         ELSE IF Tok(r) = "word" THEN parse_word(r)
                         ELSE unexpected(r))
redirects(s) == IF s.res = "ok" /\ is_redirect(Tok(s)) THEN redirects(parse_redirect(s)) ELSE s

is_array_assign_start(s) == Tok(s) = "word" /\ Val(s) \in ArrayNames /\ Is(s, 2, "(")
try_push_array_assign(s) ==
    LET r == words_while([Fresh(Pops(s, 2)) EXCEPT !.v = Val(s)], {"nl"}) IN
    Close(s, "array", CASE Tok(r) = ")" -> Pop(r)
                        [] Tok(r) = "end" -> Res(r, "more")
                        [] OTHER -> Res(r, "err"))

simple_rest(s) ==
    IF s.res # "ok" THEN s
    ELSE IF is_proc_sub(Tok(s)) THEN simple_rest(parse_proc_sub(s))
    ELSE IF is_array_assign_start(s) THEN simple_rest(try_push_array_assign(s))
    ELSE IF Tok(s) = "word" THEN simple_rest(parse_word(s))
    ELSE IF is_redirect(Tok(s)) THEN simple_rest(parse_redirect(s))
    ELSE s
parse_simple_command(s) ==
    Close(s, "simple", IF is_simple_cmd_token(Tok(s)) THEN simple_rest(Fresh(s))
                       ELSE unexpected(Fresh(s)))

-----------------------------------------------------------------------------
(* Arithmetic: ((...)) and for ((...)) are found by counting parentheses.  *)

RECURSIVE arith_span(_, _, _)
arith_span(s, depth, prev) ==          \* collect up to the )) that closes depth
    LET d == CASE Tok(s) \in {"(", "<("} -> depth + 1
               [] Tok(s) = "((" -> depth + 2
               [] Tok(s) = ")" -> depth - 1
               [] OTHER -> depth
    IN  IF Tok(s) = "end" THEN Res(s, "more")
        ELSE IF d = 0 THEN IF prev = ")" THEN [Pop(s) EXCEPT !.c = Front(@)]
                           ELSE Res(s, "err")
        ELSE arith_span(Push(Pop(s), Leaf("tok", Val(s))), d, Tok(s))
collect_arith_span(s) == arith_span(Fresh(Pop(s)), 2, "((")
parse_arith_command(s) == Close(s, "arith", collect_arith_span(s))

push_arith_slices(s) ==                \* three expressions: two semicolons
    FoldLeft(LAMBDA n, x : n + (CASE x.v = ";" -> 1 [] x.v = ";;" -> 2 [] OTHER -> 0),
             0, s.c) = 2
do_list_done(s) ==
    Then(expect_token(s, "do"), LAMBDA a :
    Then(parse_compound_list(a), LAMBDA b : expect_token(b, "done")))
parse_for_arith(s) ==
    Close(s, "for_arith",
      Then(collect_arith_span(s), LAMBDA r :
        IF ~push_arith_slices(r) THEN Res(r, "err")
        ELSE LET n == skip_newlines(r)
             IN  do_list_done(IF Tok(n) = ";" THEN Pop(n) ELSE n)))

-----------------------------------------------------------------------------
(* Loops, if, case.                                                        *)

drop_separator(s) == IF Tok(s) \in {";", "nl"} THEN Pop(s) ELSE s
for_in_clause(s) ==                    \* a list of words after in, or none
    LET r == skip_newlines(s) IN
    IF Tok(r) = "end" THEN Res(r, "more")
    ELSE IF Tok(r) = "word" /\ Val(r) = "in"
    THEN drop_separator(words_while(Push(Pop(r), Leaf("in", "in")), {}))
    ELSE drop_separator(r)

RECURSIVE zfor_names(_)
zfor_names(s) == IF Tok(s) = "word" /\ Val(s) # "in"
                 THEN zfor_names(Push(Pop(s), Leaf("name", Val(s)))) ELSE s
body_pipeline(s) == Close(s, "list", parse_pipeline(Fresh(s)))
zfor_paren(s) ==                       \* zsh: for i (words) body, or do ... done
    LET r == words_while(Push(Pop(s), Leaf("in", "in")), {"nl"}) IN
    IF Tok(r) # ")" THEN Res(r, "err")
    ELSE LET b == skip_newlines(drop_separator(Pop(r))) IN
         IF Tok(b) \in {"do", "end"} THEN do_list_done(b)
         ELSE IF Tok(b) = "{"
         THEN Then(parse_compound_list(Pop(b)), LAMBDA x :
                LET y == skip_newlines(x) IN IF Tok(y) = "}" THEN Pop(y) ELSE unexpected(y))
         ELSE body_pipeline(b)

parse_for_tail(s) ==
    IF Tok(s) = "end" THEN Res(s, "more")
    ELSE IF Tok(s) # "word" THEN Res(s, "err")
    ELSE LET n == [Pop(s) EXCEPT !.v = Val(s)]
             z == IF s.zsh THEN zfor_names(n) ELSE n
         IN  IF s.zsh /\ Tok(z) = "(" THEN zfor_paren(z)
             ELSE Then(for_in_clause(z), do_list_done)
parse_for_command(s) ==
    IF Is(s, 2, "((") THEN parse_for_arith(Pop(s))
    ELSE Close(s, "for", parse_for_tail(Fresh(Pop(s))))
parse_select_command(s) == Close(s, "select", parse_for_tail(Fresh(Pop(s))))

parse_while_command(s) ==              \* and parse_until_command
    Close(s, Tok(s), Then(parse_compound_list(Fresh(Pop(s))), do_list_done))

elif_chain(s) ==
    LET r == skip_newlines(s) IN
    CASE Tok(r) = "elif" ->
           Then(parse_compound_list(Pop(r)), LAMBDA a :
           Then(expect_token(a, "then"), LAMBDA b :
           Then(parse_compound_list(b), elif_chain)))
      [] Tok(r) = "else" -> parse_compound_list(Pop(r))
      [] OTHER -> r
parse_if_command(s) ==
    Close(s, "if",
      Then(parse_compound_list(Fresh(Pop(s))), LAMBDA a :
      Then(expect_token(a, "then"), LAMBDA b :
      Then(parse_compound_list(b), LAMBDA c :
      Then(elif_chain(c), LAMBDA d : expect_token(d, "fi"))))))

RECURSIVE case_patterns(_)
case_patterns(s) == LET r == parse_word(s) IN
                    IF Tok(r) = "|" THEN case_patterns(Pop(r)) ELSE r
take_case_term(s) == IF is_case_term(Tok(s)) THEN [Pop(s) EXCEPT !.v = Tok(s)] ELSE s
parse_case_item(s) ==
    LET p == case_patterns(IF Tok(s) = "(" THEN Pop(Fresh(s)) ELSE Fresh(s))
        b == skip_newlines(Pop(p))
    IN  Close(s, "item",
          IF Tok(p) # ")" THEN Res(p, "err")
          ELSE IF Tok(b) = "esac" \/ is_case_term(Tok(b))
          THEN take_case_term(Push(b, Leaf("list", "")))
          ELSE Then(parse_compound_list(b), take_case_term))
case_items(s) ==
    IF Tok(s) = "end" THEN Res(s, "more")
    ELSE IF Tok(s) = "esac" THEN Pop(s)
    ELSE Then(parse_case_item(s), LAMBDA r : case_items(skip_newlines(r)))
case_word_in(s) ==
    LET w == skip_newlines(s)
        r == skip_newlines(parse_word(w))
    IN  IF Tok(w) = "end" \/ Tok(r) = "end" THEN Res(w, "more")
        ELSE IF Tok(r) = "word" /\ Val(r) = "in" THEN Pop(r)
        ELSE Res(r, "err")
parse_case_command(s) ==
    Close(s, "case", Then(case_word_in(Fresh(Pop(s))), LAMBDA r : case_items(skip_newlines(r))))

-----------------------------------------------------------------------------
(* Groups, functions, coprocesses.                                         *)

parse_subshell(s) ==
    Close(s, "subshell", Then(parse_compound_list(Fresh(Pop(s))), LAMBDA r :
                           IF Tok(r) = ")" THEN Pop(r) ELSE unexpected(r)))
brace_list(s) ==
    Then(parse_compound_list(Pop(s)), LAMBDA r : IF Tok(r) = "}" THEN Pop(r) ELSE unexpected(r))
try_always_block(s) ==
    IF ~(s.zsh /\ Tok(s) = "word" /\ Val(s) = "always") THEN s
    ELSE LET r == skip_newlines(Pop(s)) IN IF Tok(r) = "{" THEN brace_list(r) ELSE unexpected(r)
parse_brace_group(s) == Close(s, "brace", Then(brace_list(Fresh(s)), try_always_block))

parse_func_body(s) ==
    IF Tok(s) = "{"
    THEN Then(parse_compound_list(Pop(s)), LAMBDA a :
           LET r == skip_newlines(a) IN
           CASE Tok(r) = "}" -> Pop(r) [] Tok(r) = "end" -> Res(r, "more")
             [] OTHER -> unexpected(r))
    ELSE IF Tok(s) = "(" \/ is_compound_start(Tok(s)) THEN body_pipeline(s)
    ELSE parse_compound_list(s)

func_kw_len(s) ==                      \* 0, or the lexemes the function head takes
    IF ~(Tok(s) = "word" /\ Val(s) = "function" /\ Is(s, 2, "word")) THEN 0
    ELSE IF Is(s, 3, "(") /\ Is(s, 4, ")") THEN 4 ELSE 2
is_function_def(s) ==
    /\ Tok(s) = "word" /\ Val(s) \notin ArrayNames
    /\ func_kw_len(s) > 0 \/ (Is(s, 2, "(") /\ Is(s, 3, ")"))
pop_func_head(s) ==
    LET h == func_kw_len(s)
        n == IF h > 0 THEN Pop(s) ELSE s
        r == [Fresh(Pop(n)) EXCEPT !.v = Val(n)]
        z == IF h > 0 /\ s.zsh THEN zfor_names(r) ELSE r
    IN  IF h = 2 THEN z ELSE Pops(z, 2)
parse_function_def(s) ==
    LET h == skip_newlines(pop_func_head(s)) IN
    Close(s, "function", IF Tok(h) = "end" THEN Res(h, "more")
                         ELSE Then(parse_func_body(h), redirects))

is_anon_func(s) == s.zsh /\ Tok(s) = "(" /\ Is(s, 2, ")")
parse_anon_func(s) ==
    LET h == skip_newlines(Fresh(Pops(s, 2))) IN
    Close(s, "anon", IF Tok(h) = "end" THEN Res(h, "more") ELSE parse_func_body(h))

coproc_has_name(s) == Tok(s) = "word" /\ Len(s.t) > 1
                      /\ (is_compound_start(s.t[2].tt) \/ s.t[2].tt = "(")
handle_coproc_case(s) ==
    LET r == Fresh(Pop(s)) IN
    Close(s, "coproc", IF coproc_has_name(r) THEN parse_command([Pop(r) EXCEPT !.v = Val(r)])
                       ELSE parse_command(r))

dispatch_compound(s) ==                \* anything else, a stray ! included, is a for
    CASE Tok(s) = "if" -> parse_if_command(s)
      [] Tok(s) \in {"while", "until"} -> parse_while_command(s)
      [] Tok(s) = "case" -> parse_case_command(s)
      [] Tok(s) = "{" -> parse_brace_group(s)
      [] Tok(s) = "((" -> parse_arith_command(s)
      [] Tok(s) = "select" -> parse_select_command(s)
      [] OTHER -> parse_for_command(s)

parse_command(s) ==
    LET r == Fresh(s) IN
    Close(s, "command",
      CASE Tok(s) = "coproc" -> handle_coproc_case(r)
        [] is_anon_func(s) -> parse_anon_func(r)
        [] Tok(s) = "(" /\ ~is_anon_func(s) -> Then(parse_subshell(r), redirects)
        [] is_compound_start(Tok(s)) -> Then(dispatch_compound(r), redirects)
        [] is_function_def(s) -> parse_function_def(r)
        [] OTHER -> parse_simple_command(r))

-----------------------------------------------------------------------------
(* Pipelines and lists.                                                    *)

RECURSIVE eat_bangs(_)
eat_bangs(s) == IF Tok(s) = "!" THEN eat_bangs([Pop(s) EXCEPT !.v = IF @ = "" THEN "!" ELSE ""])
                ELSE s
pipes_rest(s) ==
    IF s.res # "ok" \/ Tok(s) # "|" THEN s
    ELSE LET r == skip_newlines(Pop(s))
         IN  IF Tok(r) = "end" THEN Res(r, "more") ELSE pipes_rest(parse_command(r))
parse_pipeline(s) ==
    LET r == eat_bangs(Fresh(s)) IN
    Close(s, "pipeline",
          IF Tok(s) = "!" /\ Tok(r) \in {"end", "nl"} THEN r
          ELSE pipes_rest(parse_command(r)))

compound_rest_rude(s) ==               \* mutant: the end of the input is an error
    IF s.res # "ok" \/ ~is_list_op(Tok(s)) THEN s
    ELSE LET op == Push(Pop(s), Leaf("op", Val(s)))
             r == skip_newlines(op)
         IN  IF Tok(s) \in {";", "nl"} /\ is_compound_terminator(Tok(op)) THEN op
             ELSE IF is_compound_terminator(Tok(r)) THEN r
             ELSE compound_rest(parse_pipeline(r))
compound_rest(s) ==
    IF s.res # "ok" \/ ~is_list_op(Tok(s)) THEN s
    ELSE LET op == Push(Pop(s), Leaf("op", Val(s)))
             r == skip_newlines(op)
         IN  IF Tok(s) \in {";", "nl"} /\ is_compound_terminator(Tok(op)) THEN op
             ELSE IF is_compound_terminator(Tok(r)) THEN r
             ELSE IF Tok(r) = "end" THEN Res(r, "more")
             ELSE compound_rest(parse_pipeline(r))
parse_compound_list(s) ==
    LET r == skip_newlines(Fresh(s)) IN
    Close(s, "list", IF Tok(r) = "end" THEN Res(r, "more")
                     ELSE IF s.zsh /\ is_compound_terminator(Tok(r)) THEN r
                     ELSE compound_rest(parse_pipeline(r)))

RECURSIVE simple_list_ops(_)
simple_list_ops(s) ==                  \* the list ends at END, or at a newline in a stream
    IF s.res # "ok" THEN s
    ELSE IF ~is_list_op(Tok(s)) THEN IF Tok(s) = "end" THEN s ELSE unexpected(s)
    ELSE LET r == skip_newlines(Push(Pop(s), Leaf("op", Val(s)))) IN
         IF Tok(r) = "end" THEN IF Tok(s) \in {";", "&", "nl"} THEN r ELSE Res(r, "more")
         ELSE IF s.stream /\ Tok(s) = "nl" THEN [r EXCEPT !.cut = TRUE]
         ELSE simple_list_ops(parse_pipeline(r))
parse_simple_list(s) ==
    LET r == skip_newlines(s) IN
    IF Tok(r) = "end" THEN r
    ELSE IF \/ is_simple_cmd_token(Tok(r)) \/ Tok(r) \in {"(", "coproc"}
            \/ is_compound_start(Tok(r))
    THEN simple_list_ops(parse_pipeline(r))
    ELSE unexpected(r)

parse_tokens(xs, zsh) == parse_simple_list(tokenizer(xs, zsh))

\* the streaming parse: one list per newline boundary until the text or the luck ends
RECURSIVE parse_ranges(_)
parse_ranges(s) ==
    LET r == parse_simple_list([s EXCEPT !.stream = TRUE, !.cut = FALSE]) IN
    IF r.res = "ok" /\ r.cut THEN parse_ranges(r) ELSE r
parse_tokens_range(xs, zsh) == parse_ranges(tokenizer(xs, zsh))
=============================================================================
