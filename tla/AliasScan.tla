------------------------------ MODULE AliasScan ------------------------------
(***************************************************************************)
(* Alias expansion (src/alias): one pass over the input text, before the   *)
(* lexer, that splices alias values where a command may start.  The text   *)
(* is a sequence of items: a word, a blank " ", "nl", "#", or an operator  *)
(* character.  An alias table maps names to texts.  A scan state carries   *)
(* the stack src of texts being read, the output and the flags of the C    *)
(* code; hd are the here-document delimiters whose bodies are still due.   *)
(***************************************************************************)
EXTENDS Naturals, Sequences, SequencesExt

CONSTANTS ScanDepth, HdMax             \* ALIAS_SCAN_DEPTH, ALIAS_HD_MAX

alias_table_init == <<>>
alias_set(table, n, v) == [m \in DOMAIN table \cup {n} |-> IF m = n THEN v ELSE table[m]]
alias_remove(table, n) == [m \in DOMAIN table \ {n} |-> table[m]]
alias_table_empty(table) == DOMAIN table = {}

OpChars == {";", "|", "&", "(", ")", "<", ">"}
Quoted == {"'a'"}                      \* words that are not plain
Assignments == {"x="}
asc_kw_cmdnext(w) == w \in {"if", "then", "elif", "else", "while", "until", "do", "{", "!"}
asc_kw_noncmd(w) == w \in {"for", "case", "in"}
asc_is_assign(w) == w \in Assignments
plain(w) == w \notin Quoted

Source(s, name, blank) == [s |-> s, pos |-> 1, name |-> name, blank_end |-> blank]
Top(a) == Last(a.src)
Peek(a, k) == LET s == Top(a) IN IF s.pos + k <= Len(s.s) THEN s.s[s.pos + k] ELSE "end"
Advance(a, n) == [a EXCEPT !.src[Len(a.src)].pos = @ + n]
Copy(a) == Advance([a EXCEPT !.out = Append(@, Peek(a, 0))], 1)

asc_push(a, name, val) ==
    [a EXCEPT !.src = Append(@, Source(val, name, val # <<>> /\ Last(val) = " "))]
asc_pop(a) == [a EXCEPT !.chk_next = @ \/ (Len(a.src) > 1 /\ Top(a).blank_end),
                        !.src = Front(@)]
asc_active_top(a, w) == Top(a).name = w \* mutant: only the innermost alias
asc_active(a, w) == \E i \in 2..Len(a.src) : a.src[i].name = w

-----------------------------------------------------------------------------
(* Words.                                                                  *)

\* case x in pat) body: the subject, in, the patterns and the bodies in turn
opens_case(a, w) == w = "case" /\ a.was_cmd
closes_case(a, w) == w = "esac" /\ (a.cs_st = "pat" \/ a.was_cmd)
asc_case_word(a, w) ==                 \* is the word the case's own?
    \/ opens_case(a, w)
    \/ a.cs_n > 0 /\ (\/ a.cs_st \in {"subj", "pat"} \/ (a.cs_st = "in" /\ w = "in") \/ closes_case(a, w))
CaseState(a, w) ==
    CASE opens_case(a, w) -> [n |-> a.cs_n + 1, st |-> "subj"]
      [] ~opens_case(a, w) /\ a.cs_st = "subj" -> [n |-> a.cs_n, st |-> "in"]
      [] a.cs_st = "in" /\ w = "in" -> [n |-> a.cs_n, st |-> "pat"]
      [] a.cs_st # "subj" /\ closes_case(a, w) ->
           [n |-> a.cs_n - 1, st |-> IF a.cs_n > 1 THEN "body" ELSE "none"]
      [] OTHER -> [n |-> a.cs_n, st |-> a.cs_st]
asc_word_state(a, w) ==
    LET c == CaseState(a, w)
        n == CASE a.after_redir -> [a EXCEPT !.after_redir = FALSE]
               [] ~a.after_redir /\ asc_case_word(a, w) ->
                    [a EXCEPT !.cs_n = c.n, !.cs_st = c.st, !.cmd_pos = FALSE]
               [] OTHER -> [a EXCEPT !.cmd_pos = asc_kw_cmdnext(w) \/ (@ /\ asc_is_assign(w))]
    IN  [n EXCEPT !.chk_next = FALSE, !.wstart = FALSE]

asc_hd_delim(a, w) ==
    [a EXCEPT !.wstart = FALSE, !.pend_hd = 0,
              !.hd = IF Len(@) < HdMax THEN Append(@, [d |-> w, strip |-> a.pend_hd = 2]) ELSE @]
asc_digits_redir(a) == Peek(a, 0) = "1" /\ Peek(a, 1) \in {"<", ">"}
asc_try_alias(a, w, table) ==
    /\ ~a.after_redir /\ (a.cmd_pos \/ a.chk_next) /\ plain(w) /\ ~asc_is_assign(w)
    /\ w \in DOMAIN table /\ ~asc_active(a, w) /\ Len(a.src) < ScanDepth
asc_word(a0, table) ==
    LET w == Peek(a0, 0)
        a == [a0 EXCEPT !.was_cmd = a0.cmd_pos \/ a0.chk_next]
    IN  IF a.pend_hd # 0 THEN Copy(asc_hd_delim(a, w))
        ELSE IF asc_digits_redir(a) THEN Copy(a)
        ELSE IF asc_try_alias(a, w, table)
        THEN asc_push([Advance(a, 1) EXCEPT !.chk_next = FALSE, !.wstart = TRUE], w, table[w])
        ELSE asc_word_state(Copy(a), w)

-----------------------------------------------------------------------------
(* Operators, newlines, here-document bodies.                              *)

asc_op_extra(a) ==                     \* the second character; <<< is no here-document
    IF Peek(a, 0) = "<" /\ a.pend_hd # 0
    THEN [Copy(a) EXCEPT !.pend_hd = 0, !.after_redir = TRUE] ELSE Copy(a)
asc_op_hd(a) ==
    LET b == Copy(a)
        p == [b EXCEPT !.pend_hd = IF Peek(b, 0) = "-" THEN 2 ELSE 1]
    IN  IF Peek(b, 0) \in {"-", "<"} THEN asc_op_extra(p) ELSE p
RECURSIVE asc_op_dsemi(_)
asc_op_dsemi(a) == IF Peek(a, 0) \in {";", "&"} THEN asc_op_dsemi(Copy(a))
                   ELSE [a EXCEPT !.cs_st = "pat", !.cmd_pos = FALSE, !.wstart = TRUE]
asc_op_case(a) ==                      \* as asc_case_word
    LET c == Peek(a, 0) IN
    CASE a.cs_n > 0 /\ a.cs_st = "body" /\ c = ";" /\ Peek(a, 1) \in {";", "&"} -> asc_op_dsemi(a)
      [] a.cs_n > 0 /\ a.cs_st = "pat" /\ c \in {"|", "("} -> [Copy(a) EXCEPT !.wstart = TRUE]
      [] a.cs_n > 0 /\ a.cs_st = "pat" /\ c = ")" ->
           [Copy(a) EXCEPT !.cs_st = "body", !.cmd_pos = TRUE, !.wstart = TRUE]
      [] OTHER -> a
asc_op(a) ==
    LET c == Peek(a, 0)
        b == [Copy(a) EXCEPT !.wstart = TRUE]
    IN  IF asc_op_case(a) # a THEN asc_op_case(a)
        ELSE IF c \in {";", "|", "&", "(", ")"} THEN [b EXCEPT !.cmd_pos = TRUE, !.after_redir = FALSE]
        ELSE IF c = "<" /\ Peek(a, 1) = "<" THEN asc_op_hd(b)
        ELSE LET r == [b EXCEPT !.after_redir = TRUE]
             IN  IF Peek(a, 1) \in {"<", ">", "&", "|"} THEN asc_op_extra(r) ELSE r

line_end(a) == LET s == Top(a) IN
    CHOOSE e \in s.pos..Len(s.s) + 1 :
        (e > Len(s.s) \/ s.s[e] = "nl") /\ \A k \in s.pos..e - 1 : s.s[k] # "nl"
asc_hd_drop(a) == [a EXCEPT !.hd = Tail(@)]
RECURSIVE asc_hd_body(_)
asc_hd_body(a) ==                      \* one line of a body at a time, while any is due
    LET s == Top(a)
        e == line_end(a)
        line == SubSeq(s.s, s.pos, e - 1)
        text == SelectSeq(line, LAMBDA c : ~(Head(a.hd).strip /\ c = "tab"))
        stop == IF e <= Len(s.s) THEN e ELSE e - 1
        n == [a EXCEPT !.out = @ \o SubSeq(s.s, s.pos, stop), !.src[Len(a.src)].pos = stop + 1]
    IN  IF a.hd = <<>> \/ s.pos > Len(s.s) THEN a
        ELSE asc_hd_body(IF text = <<Head(a.hd).d>> THEN asc_hd_drop(n) ELSE n)
asc_emit_sep(a) == [a EXCEPT !.out = @ \o (IF a.cmd_pos THEN <<" ">> ELSE <<";", " ">>)]
asc_newline(a) ==
    LET b == Advance(IF Len(a.src) > 1 /\ a.hd = <<>> THEN asc_emit_sep(a)
                     ELSE [a EXCEPT !.out = Append(@, "nl")], 1)
    IN  [asc_hd_body(b) EXCEPT !.cmd_pos = a.cs_n = 0 \/ a.cs_st = "body",
           !.chk_next = FALSE, !.after_redir = FALSE, !.pend_hd = 0, !.wstart = TRUE]
asc_comment(a) == LET s == Top(a) IN
    [a EXCEPT !.out = @ \o SubSeq(s.s, s.pos, line_end(a) - 1), !.src[Len(a.src)].pos = line_end(a)]

asc_step(a, table) ==
    LET c == Peek(a, 0) IN
    CASE c = "end" -> asc_pop(a)
      [] c = " " -> [Copy(a) EXCEPT !.wstart = TRUE]
      [] c = "nl" -> asc_newline(a)
      [] c = "#" /\ a.wstart -> asc_comment(a)
      [] c \in OpChars -> asc_op(a)
      [] OTHER -> asc_word(a, table)
RECURSIVE asc_run(_, _)
asc_run(a, table) == IF a.src = <<>> THEN a.out ELSE asc_run(asc_step(a, table), table)
alias_scan_line(table, input) ==
    IF alias_table_empty(table) THEN input
    ELSE asc_run([src |-> <<Source(input, "", FALSE)>>, out |-> <<>>, cmd_pos |-> TRUE,
                  chk_next |-> FALSE, after_redir |-> FALSE, wstart |-> TRUE, was_cmd |-> FALSE,
                  pend_hd |-> 0, hd |-> <<>>, cs_n |-> 0, cs_st |-> "none"], table)
=============================================================================
