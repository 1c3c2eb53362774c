------------------------------ MODULE Scanners -------------------------------
(***************************************************************************)
(* The scanners that decide where a quoted or nested span of the command   *)
(* text ends.  Each stage has its own: the lexer (src/lexer), the bounded  *)
(* span_skip and the case-aware casescan of src/helpers, the re-parser of  *)
(* a word (src/word_splitting), the boundary hunt of the expander and the  *)
(* alias pass.  A text is a sequence of one-character strings, except that *)
(* a run of letters may be one string; "nl" is the newline and "bq" the backquote.  A scanner     *)
(* takes the position a span opens at and answers the position after it,   *)
(* or Open when the text ends first.                                       *)
(***************************************************************************)
EXTENDS Naturals, Integers, Sequences, SequencesExt

At(s, i) == IF i \in 1..Len(s) THEN s[i] ELSE "end"
Open(s) == Len(s) + 2
Two(s, i, c, d) == At(s, i) = c /\ At(s, i + 1) = d

Digits == {"0", "1", "2"}
is_var_name_p1(c) == c \in {"a", "b", "x", "in", "case", "esac", "if", "_"}
is_var_name_p2(c) == is_var_name_p1(c) \/ c \in Digits
is_space(c) == c \in {" ", "tab"}
is_word_boundary(c) ==
    is_space(c) \/ c \in {"end", "nl", "\"", "$", "&", "'", "(", ")", ";", "<", ">", "|"}

RECURSIVE skip_while(_, _, _)
skip_while(s, i, C) == IF At(s, i) \in C THEN skip_while(s, i + 1, C) ELSE i
RECURSIVE name_end(_, _)
name_end(s, i) == IF is_var_name_p2(At(s, i)) THEN name_end(s, i + 1) ELSE i

\* up to the closing q; a backslash protects the next character when bs holds
RECURSIVE up_to(_, _, _, _)
up_to(s, i, q, bs) ==
    IF i > Len(s) THEN Open(s)
    ELSE IF s[i] = q THEN i + 1
    ELSE IF bs /\ s[i] = "\\" /\ i < Len(s) THEN up_to(s, i + 2, q, bs)
    ELSE up_to(s, i + 1, q, bs)

-----------------------------------------------------------------------------
(* The lexer's own spans.                                                  *)

advance_bs(s, i) == IF i < Len(s) THEN i + 2 ELSE i + 1
advance_squoted(s, i) == up_to(s, i + 1, "'", FALSE)
advance_ansic(s, i) == up_to(s, i + 2, "'", TRUE)
advance_backtick(s, i) == up_to(s, i + 1, "bq", TRUE)

brace_param_end(s, i) ==               \* past the parameter and its subscripts, or 0
    LET RECURSIVE subscripts(_, _)
        subscripts(j, d) ==
            IF At(s, j) # "end" /\ (d > 0 \/ At(s, j) = "[")
            THEN subscripts(j + 1, d + (CASE s[j] = "[" -> 1 [] s[j] = "]" -> -1 [] OTHER -> 0))
            ELSE j
    IN  CASE At(s, i) \in Digits -> subscripts(skip_while(s, i, Digits), 0)
          [] is_var_name_p1(At(s, i)) -> subscripts(name_end(s, i), 0)
          [] At(s, i) \in {"@", "*", "#", "?", "-", "$", "!"} -> subscripts(i + 1, 0)
          [] OTHER -> 0
brace_sq_live(s, i, dq) ==             \* is a single quote a quote inside this ${...}?
    ~dq \/ LET e == brace_param_end(s, i)
           IN  e # 0 /\ At(s, e) \in {"#", "%", "/", "^", ","}

RECURSIVE advance_dquoted(_, _), dquoted_rest(_, _), advance_cmdsub(_, _, _),
          advance_brace(_, _, _, _)
advance_dquoted(s, i) == dquoted_rest(s, i + 1)
dquoted_rest(s, i) ==
    IF i > Len(s) THEN Open(s)
    ELSE IF s[i] = "\"" THEN i + 1
    ELSE dquoted_rest(s, CASE Two(s, i, "$", "(") -> advance_cmdsub(s, i + 2, 1)
                           [] Two(s, i, "$", "{") ->
                                advance_brace(s, i + 2, 1, brace_sq_live(s, i + 2, TRUE))
                           [] s[i] = "bq" -> advance_backtick(s, i)
                           [] s[i] = "\\" -> i + 2
                           [] OTHER -> i + 1)
advance_cmdsub(s, i, depth) ==         \* parentheses and quotes, no case patterns
    IF depth = 0 THEN i
    ELSE IF i > Len(s) THEN Open(s)
    ELSE CASE s[i] = "\\" -> advance_cmdsub(s, advance_bs(s, i), depth)
           [] s[i] = "'" -> advance_cmdsub(s, advance_squoted(s, i), depth)
           [] s[i] = "\"" -> advance_cmdsub(s, advance_dquoted(s, i), depth)
           [] s[i] = "(" -> advance_cmdsub(s, i + 1, depth + 1)
           [] s[i] = ")" -> advance_cmdsub(s, i + 1, depth - 1)
           [] OTHER -> advance_cmdsub(s, i + 1, depth)
advance_brace(s, i, depth, sq) ==
    IF depth = 0 THEN i
    ELSE IF i > Len(s) THEN Open(s)
    ELSE CASE s[i] = "\\" -> advance_brace(s, advance_bs(s, i), depth, sq)
           [] s[i] = "'" /\ sq -> advance_brace(s, advance_squoted(s, i), depth, sq)
           [] s[i] = "\"" -> advance_brace(s, advance_dquoted(s, i), depth, sq)
           [] s[i] = "bq" -> advance_brace(s, advance_backtick(s, i), depth, sq)
           [] Two(s, i, "$", "(") -> advance_brace(s, advance_cmdsub(s, i + 2, 1), depth, sq)
           [] Two(s, i, "$", "{") -> advance_brace(s, i + 2, depth + 1, sq)
           [] s[i] = "}" -> advance_brace(s, i + 1, depth - 1, sq)
           [] OTHER -> advance_brace(s, i + 1, depth, sq)
advance_brace_param(s, i, dq) == advance_brace(s, i + 2, 1, brace_sq_live(s, i + 2, dq))

-----------------------------------------------------------------------------
(* casescan: the automaton that knows the ) of a case pattern, comments,   *)
(* here-documents and arithmetic inside $( ).  Its state rides along the   *)
(* depth and the position.                                                 *)

casescan_init == [cmd |-> TRUE, cases |-> <<>>, hd |-> <<>>, arith |-> -1]
Moved(cs, i, d) == [cs |-> cs, i |-> i, d |-> d]

cs_word_start(s, i) ==
    CASE At(s, i - 1) \in {"nl", ";", "&", "|"} -> TRUE
      [] At(s, i - 1) = "(" -> At(s, i - 2) = "$"
      [] is_space(At(s, i - 1)) -> At(s, i - 2) # "\\" \/ At(s, i - 3) = "\\"
      [] OTHER -> FALSE
casescan_comment(s, i) == At(s, i) = "#" /\ cs_word_start(s, i)

RECURSIVE cs_hd_word_end(_, _)
cs_hd_word_end(s, j) ==
    IF At(s, j) \in {"end", " ", "tab", "nl", ";", "&", "|", "<", ">", "(", ")"} THEN j
    ELSE cs_hd_word_end(s, CASE At(s, j) \in {"'", "\""} ->
                                  LET e == up_to(s, j + 1, s[j], FALSE)
                                  IN  IF e = Open(s) THEN Len(s) + 1 ELSE e
                             [] At(s, j) = "\\" -> advance_bs(s, j)
                             [] OTHER -> j + 1)
casescan_heredoc_op(cs, s, i) ==
    LET c == [cs EXCEPT !.cmd = FALSE]
        dash == At(s, i + 2) = "-"
        j == skip_while(s, i + 2 + (IF dash THEN 1 ELSE 0), {" ", "tab"})
        e == cs_hd_word_end(s, j)
    IN  IF At(s, i + 2) \in {"<", "="} THEN Moved(c, i + 3, 0)
        ELSE Moved(IF e > j THEN [c EXCEPT !.hd = Append(@, [w |-> SubSeq(s, j, e - 1), dash |-> dash])]
                   ELSE c, e, 0)

cs_delim(w) == SelectSeq(w, LAMBDA c : c \notin {"'", "\"", "\\"})
RECURSIVE cs_skip_body(_, _, _)
cs_skip_body(s, i, h) ==
    LET e == CHOOSE e \in i..Len(s) + 1 :
               At(s, e) \in {"nl", "end"} /\ \A k \in i..e - 1 : s[k] # "nl"
        b == IF h.dash THEN skip_while(s, i, {"tab"}) ELSE i
        next == IF e > Len(s) THEN e ELSE e + 1
    IN  IF i > Len(s) \/ SubSeq(s, b, e - 1) = cs_delim(h.w) THEN IF i > Len(s) THEN i ELSE next
        ELSE cs_skip_body(s, next, h)
casescan_bodies(cs, s, i) ==
    Moved([cs EXCEPT !.hd = <<>>, !.cmd = TRUE],
          FoldLeft(LAMBDA j, h : cs_skip_body(s, j, h), i + 1, cs.hd), 0)

casescan_paren_blind(cs, s, i, depth) ==  \* mutant: every ) closes
    Moved([cs EXCEPT !.cmd = TRUE], i + 1, IF s[i] = "(" THEN 1 ELSE -1)
casescan_paren(cs, s, i, depth) ==
    IF s[i] = "("
    THEN Moved([cs EXCEPT !.cmd = TRUE, !.arith = IF @ < 0 /\ At(s, i - 1) = "(" THEN depth - 1 ELSE @],
               i + 1, 1)
    ELSE IF cs.cases # <<>> /\ Last(cs.cases) = depth
    THEN Moved([cs EXCEPT !.cmd = TRUE], i + 1, 0)
    ELSE Moved([cs EXCEPT !.cmd = FALSE], i + 1, -1)

cs_word(cs, s, i, depth) ==
    LET e == name_end(s, i)
        w == IF e = i + 1 THEN s[i] ELSE "word"
    IN  IF e = i THEN Moved([cs EXCEPT !.cmd = @ /\ s[i] \in {"{", "!"}], i + 1, 0)
        ELSE Moved([cs EXCEPT !.cmd = @ /\ w = "if",
                      !.cases = CASE cs.cmd /\ w = "case" -> Append(@, depth)
                                  [] cs.cmd /\ w = "esac" /\ @ # <<>> -> Front(@)
                                  [] OTHER -> @], e, 0)

casescan_step(cs0, s, i, depth) ==
    LET cs == [cs0 EXCEPT !.arith = IF @ >= 0 /\ depth <= @ THEN -1 ELSE @] IN
    CASE casescan_comment(s, i) ->
           Moved(cs, CHOOSE e \in i..Len(s) + 1 :
                       At(s, e) \in {"nl", "end"} /\ \A k \in i..e - 1 : s[k] # "nl", 0)
      [] s[i] = "nl" /\ cs.hd # <<>> -> casescan_bodies(cs, s, i)
      [] cs.arith < 0 /\ Two(s, i, "<", "<") -> casescan_heredoc_op(cs, s, i)
      [] s[i] \in {"(", ")"} -> casescan_paren(cs, s, i, depth)
      [] s[i] \in {";", "|", "&", "nl"} -> Moved([cs EXCEPT !.cmd = TRUE], i + 1, 0)
      [] is_space(s[i]) -> Moved(cs, i + 1, 0)
      [] OTHER -> cs_word(cs, s, i, depth)

subshell_step(s, i) == CASE s[i] = "\\" -> advance_bs(s, i)
                         [] s[i] = "'" -> advance_squoted(s, i)
                         [] s[i] = "\"" -> advance_dquoted(s, i)
                         [] OTHER -> 0
sh_skip_quoted(s, i) ==                \* a quoted span, nested substitutions unseen
    CASE s[i] = "\\" /\ i < Len(s) -> i + 2
      [] s[i] \in {"'", "\""} ->
           LET e == up_to(s, i + 1, s[i], s[i] = "\"") IN IF e = Open(s) THEN Len(s) + 1 ELSE e
      [] OTHER -> 0

-----------------------------------------------------------------------------
(* Who runs it: the lexer's $( ), the expander, and span_skip.  Each skips *)
(* quoted spans its own way; the rest goes through the automaton.          *)

RECURSIVE span_skip(_, _), casescan_run(_, _, _, _, _)
sp_paren_step(s, i) ==
    CASE s[i] = "\\" -> i + 2
      [] s[i] \in {"'", "\"", "bq"} \/ Two(s, i, "$", "{") -> span_skip(s, i)
      [] OTHER -> 0
casescan_run(s, i, depth, cs, who) ==
    LET e == CASE who = "lexer" -> subshell_step(s, i)
               [] who = "expander" -> sh_skip_quoted(s, i)
               [] who = "span_skip" -> sp_paren_step(s, i)
        m == casescan_step(cs, s, i, depth)
    IN  IF depth = 0 THEN i
        ELSE IF i > Len(s) THEN Open(s)
        ELSE IF e # 0 THEN casescan_run(s, e, depth, [cs EXCEPT !.cmd = FALSE], who)
        ELSE casescan_run(s, m.i, depth + m.d, m.cs, who)
tokenize_subshell(s, i) == casescan_run(s, i + 2, 1, casescan_init, "lexer")
find_cmd_sub_end(s, i) == casescan_run(s, i + 2, 1, casescan_init, "expander")
sp_paren(s, i) == casescan_run(s, i + 2, 1, casescan_init, "span_skip")

RECURSIVE sp_quote(_, _, _), sp_brace(_, _, _)
sp_quote(s, i, q) ==
    IF i > Len(s) THEN Open(s)
    ELSE IF s[i] = q THEN i + 1
    ELSE sp_quote(s, CASE q # "'" /\ s[i] = "\\" -> i + 2
                       [] q = "\"" /\ (s[i] = "bq" \/ Two(s, i, "$", "(") \/ Two(s, i, "$", "{"))
                            -> span_skip(s, i)
                       [] OTHER -> i + 1, q)
sp_brace(s, i, depth) ==
    IF depth = 0 THEN i
    ELSE IF i > Len(s) THEN Open(s)
    ELSE CASE s[i] = "\\" -> sp_brace(s, i + 2, depth)
           [] Two(s, i, "$", "{") -> sp_brace(s, i + 2, depth + 1)
           [] s[i] \in {"'", "\"", "bq"} \/ Two(s, i, "$", "(") -> sp_brace(s, span_skip(s, i), depth)
           [] s[i] = "}" -> sp_brace(s, i + 1, depth - 1)
           [] OTHER -> sp_brace(s, i + 1, depth)
span_skip(s, i) ==
    CASE i > Len(s) -> Open(s)
      [] Two(s, i, "$", "(") -> sp_paren(s, i)
      [] Two(s, i, "$", "{") -> sp_brace(s, i + 2, 1)
      [] At(s, i) \in {"'", "\"", "bq"} -> sp_quote(s, i + 1, s[i])
      [] OTHER -> i + 1

-----------------------------------------------------------------------------
(* One word, as the lexer delimits it.                                     *)

handle_next_chunk(s, i) ==             \* the end of the chunk at i, i itself to stop
    CASE Two(s, i, "$", "'") -> advance_ansic(s, i)
      [] Two(s, i, "$", "(") -> tokenize_subshell(s, i)
      [] At(s, i) = "bq" -> advance_backtick(s, i)
      [] Two(s, i, "$", "{") -> advance_brace_param(s, i, FALSE)
      [] At(s, i) = "\\" -> advance_bs(s, i)
      [] At(s, i) = "$" \/ ~is_word_boundary(At(s, i)) -> i + 1
      [] At(s, i) = "'" -> advance_squoted(s, i)
      [] At(s, i) = "\"" -> advance_dquoted(s, i)
      [] OTHER -> i
RECURSIVE parse_lexeme(_, _)
parse_lexeme(s, i) ==
    IF i > Len(s) THEN i
    ELSE LET e == handle_next_chunk(s, i) IN IF e = i THEN i ELSE parse_lexeme(s, e)

\* the alias pass delimits the same word over again
RECURSIVE asc_dollar(_, _, _), asc_word_span(_, _)
asc_quote(s, i) == up_to(s, i + 1, s[i], s[i] = "\"")
asc_dollar(s, i, depth) ==
    IF depth = 0 \/ i > Len(s) THEN i
    ELSE CASE s[i] \in {"'", "\""} -> asc_dollar(s, asc_quote(s, i), depth)
           [] s[i] = "\\" /\ i < Len(s) -> asc_dollar(s, i + 2, depth)
           [] s[i] = "(" -> asc_dollar(s, i + 1, depth + 1)
           [] s[i] = ")" -> asc_dollar(s, i + 1, depth - 1)
           [] OTHER -> asc_dollar(s, i + 1, depth)
asc_word_span(s, i) ==
    CASE At(s, i) \in {"end", " ", "tab", "nl", ";", "|", "&", "(", ")", "<", ">"} -> i
      [] At(s, i) \in {"'", "\""} -> asc_word_span(s, asc_quote(s, i))
      [] At(s, i) = "\\" /\ i < Len(s) -> asc_word_span(s, i + 2)
      [] Two(s, i, "$", "(") -> asc_word_span(s, asc_dollar(s, i + 2, 1))
      [] At(s, i) = "bq" -> asc_word_span(s, up_to(s, i + 1, "bq", TRUE))
      [] OTHER -> asc_word_span(s, i + 1)
=============================================================================
