-------------------------------- MODULE Lexer --------------------------------
(***************************************************************************)
(* The tokenizer of src/lexer over the scanners.  A token is a slice       *)
(* [tt, from, to) of the text; the lexer's state is the position i, the    *)
(* tokens out, db (0 outside [[ ]], 1 inside, 2 after =~ ) and the prompt  *)
(* it stopped with: "" or "open" when a span needs another line.           *)
(***************************************************************************)
EXTENDS Scanners

Tokn(tt, i, j) == [tt |-> tt, from |-> i, to |-> j]
NoToken == Tokn("none", 0, 0)
LastTok(l) == IF l.out = <<>> THEN NoToken ELSE Last(l.out)
Emit(l, tt, j) == [l EXCEPT !.out = Append(@, Tokn(tt, l.i, j)), !.i = j]

-----------------------------------------------------------------------------
(* Operators: each test looks one or two characters ahead, longest first.  *)

op_left_eager(s, i) ==                 \* mutant: << before <<<
    CASE At(s, i + 1) = "<" -> <<"<<", 2>> [] At(s, i + 1) = "(" -> <<"<(", 2>>
      [] At(s, i + 1) = "&" -> <<"<&", 2>> [] At(s, i + 1) = ">" -> <<"<>", 2>> [] OTHER -> <<"<", 1>>
op_left(s, i) ==
    CASE Two(s, i + 1, "<", "<") -> <<"<<<", 3>>
      [] Two(s, i + 1, "<", "-") -> <<"<<", 3>>
      [] At(s, i + 1) = "<" -> <<"<<", 2>>
      [] At(s, i + 1) = "(" -> <<"<(", 2>>
      [] At(s, i + 1) = "&" -> <<"<&", 2>>
      [] At(s, i + 1) = ">" -> <<"<>", 2>>
      [] OTHER -> <<"<", 1>>
op_right(s, i) ==
    CASE At(s, i + 1) = ">" -> <<">>", 2>>
      [] At(s, i + 1) = "(" -> <<">(", 2>>
      [] At(s, i + 1) = "&" -> <<">&", 2>>
      [] At(s, i + 1) = "|" -> <<">|", 2>>
      [] OTHER -> <<">", 1>>
op_amp(s, i) ==
    CASE At(s, i + 1) = "&" -> <<"&&", 2>>
      [] Two(s, i + 1, ">", ">") -> <<"&>>", 3>>
      [] At(s, i + 1) = ">" -> <<"&>", 2>>
      [] OTHER -> <<"&", 1>>
op_other(s, i) ==
    CASE Two(s, i, "|", "|") -> <<"||", 2>>
      [] s[i] = "|" -> <<"|", 1>>
      [] s[i] = "&" -> op_amp(s, i)
      [] Two(s, i, ";", ";") -> IF At(s, i + 2) = "&" THEN <<";;&", 3>> ELSE <<";;", 2>>
      [] Two(s, i, ";", "&") -> <<";&", 2>>
      [] s[i] = ";" -> <<";", 1>>
      [] Two(s, i, "(", "(") -> <<"((", 2>>
      [] OTHER -> <<s[i], 1>>

io_number_len(s, i) ==                 \* digits that touch < or >
    LET e == skip_while(s, i, Digits) IN IF e > i /\ At(s, e) \in {"<", ">"} THEN e - i ELSE 0
io_number_at(l, s) ==                  \* unless they are the target of <& or >&
    IF LastTok(l).tt \in {"<&", ">&"} THEN 0 ELSE io_number_len(s, l.i)
fd_redir_type(s, p) ==                 \* after a number, <( and >( are plain redirections
    LET o == IF s[p] = "<" THEN op_left(s, p) ELSE op_right(s, p)
    IN  IF o[1] \in {"<(", ">("} THEN <<s[p], 1>> ELSE o
parse_op(l, s) ==
    LET n == io_number_len(s, l.i)
        o == CASE n > 0 -> fd_redir_type(s, l.i + n)
               [] s[l.i] = "<" -> op_left(s, l.i)
               [] s[l.i] = ">" -> op_right(s, l.i)
               [] OTHER -> op_other(s, l.i)
    IN  Emit(l, o[1], l.i + n + o[2])

-----------------------------------------------------------------------------
(* [[ ]]: inside it && || ( ) < > are words, and some newlines are blanks. *)

is_db_boundary(c) == is_space(c) \/ c \in {"end", "nl", ";", "&", "|", "(", ")", "<", ">"}
dbracket_toggle(l, s) ==
    [l EXCEPT !.db = CASE @ = 0 /\ Two(s, l.i, "[", "[") /\ is_db_boundary(At(s, l.i + 2)) -> 1
                       [] @ # 0 /\ Two(s, l.i, "]", "]") /\ is_db_boundary(At(s, l.i + 2)) -> 0
                       [] OTHER -> @]
dbracket_word(s, i) ==
    CASE Two(s, i, "&", "&") \/ Two(s, i, "|", "|") -> 2
      [] At(s, i) \in {"(", ")", "<", ">"} -> 1
      [] OTHER -> 0
db_newline_skippable(l, s) ==
    LET j == skip_while(s, l.i + 1, {" ", "tab"})
        t == LastTok(l)
        w == SubSeq(s, t.from, t.to - 1)
    IN  \/ Two(s, j, "]", "]") \/ Two(s, j, "&", "&") \/ Two(s, j, "|", "|") \/ At(s, j) = ")"
        \/ w \in {<<"[", "[">>, <<"&", "&">>, <<"|", "|">>, <<"(">>, <<"!">>}
db_track_regex(l, s) ==
    IF l.db = 1 /\ LastTok(l).tt = "word" /\ SubSeq(s, LastTok(l).from, LastTok(l).to - 1) = <<"=", "~">>
    THEN [l EXCEPT !.db = 2] ELSE l
RECURSIVE regex_end(_, _)
regex_end(s, i) ==
    IF is_space(At(s, i)) \/ At(s, i) \in {"end", "nl"} THEN i
    ELSE regex_end(s, CASE s[i] = "\\" -> advance_bs(s, i) [] s[i] = "'" -> advance_squoted(s, i)
                        [] s[i] = "\"" -> advance_dquoted(s, i) [] OTHER -> i + 1)
db_regex_word(l, s) == l.db = 2 /\ ~is_space(At(s, l.i)) /\ At(s, l.i) \notin {"end", "nl"}

-----------------------------------------------------------------------------
skip_noise(l, s) ==                    \* a comment or a line continuation: its end, or 0
    CASE s[l.i] = "#" -> CHOOSE e \in l.i..Len(s) + 1 :
                           At(s, e) \in {"nl", "end"} /\ \A k \in l.i..e - 1 : s[k] # "nl"
      [] Two(s, l.i, "\\", "nl") -> l.i + 2
      [] OTHER -> 0

starts_lexeme(s, i) == At(s, i) \in {"'", "\"", "$"} \/ ~is_word_boundary(At(s, i))
try_parse_lexeme(l, s) ==
    IF io_number_at(l, s) > 0 \/ ~starts_lexeme(s, l.i) THEN l
    ELSE LET e == parse_lexeme(s, l.i)
         IN  IF e = Open(s) THEN [l EXCEPT !.prompt = "open", !.i = e] ELSE Emit(l, "word", e)

after_lexeme(l, s) ==                  \* the character the word, if any, stopped at
    CASE At(s, l.i) = "nl" /\ l.db # 0 /\ db_newline_skippable(l, s) -> [l EXCEPT !.i = @ + 1]
      [] At(s, l.i) = "nl" /\ ~(l.db # 0 /\ db_newline_skippable(l, s)) -> Emit(l, "nl", l.i + 1)
      [] is_space(At(s, l.i)) -> [l EXCEPT !.i = @ + 1]
      [] l.db # 0 /\ dbracket_word(s, l.i) > 0 -> Emit(l, "word", l.i + dbracket_word(s, l.i))
      [] At(s, l.i) = "end" -> l
      [] ~is_space(At(s, l.i)) /\ At(s, l.i) \notin {"end", "nl"}
           /\ ~(l.db # 0 /\ dbracket_word(s, l.i) > 0) -> parse_op(l, s)
tokenize_step(l, s) ==
    IF db_regex_word(l, s) THEN [Emit(l, "word", regex_end(s, l.i)) EXCEPT !.db = 1]
    ELSE LET d == IF At(s, l.i) = "[" \/ (l.db # 0 /\ At(s, l.i) = "]") THEN dbracket_toggle(l, s) ELSE l
             w == try_parse_lexeme(d, s)
         IN  IF w.prompt # "" THEN w ELSE after_lexeme(db_track_regex(w, s), s)

RECURSIVE lex_loop(_, _, _)
lex_loop(l, s, one) ==                 \* one: stop after a newline token, as lex_line does
    IF l.prompt # "" \/ l.i > Len(s) THEN l
    ELSE IF skip_noise(l, s) # 0 THEN lex_loop([l EXCEPT !.i = skip_noise(l, s)], s, one)
    ELSE LET n == tokenize_step(l, s)
         IN  IF one /\ n.prompt = "" /\ LastTok(n).tt = "nl" THEN n ELSE lex_loop(n, s, one)
Lexing == [i |-> 1, out |-> <<>>, db |-> 0, prompt |-> ""]
tokenize(s) == lex_loop(Lexing, s, FALSE)
lex_line(l, s) == lex_loop(l, s, TRUE)
RECURSIVE lex_lines(_, _)
lex_lines(l, s) ==                     \* one deque fed call by call
    LET n == lex_line(l, s) IN IF n.prompt # "" \/ n.i > Len(s) THEN n ELSE lex_lines(n, s)
=============================================================================
