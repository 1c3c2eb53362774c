----------------------------- MODULE HistoryText -----------------------------
(***************************************************************************)
(* What the history does to the text of a line: a typed command of several *)
(* lines becomes one (infrastructure/history_join*.c), an entry becomes a  *)
(* line of the file and back (history.c, history2.c), ! and ^ recall older *)
(* entries (history_expand*.c), and fc picks a range (builtin_fc*.c).      *)
(* Texts are sequences of characters as in Scanners; a list of entries is  *)
(* a sequence of texts.                                                    *)
(***************************************************************************)
EXTENDS Scanners, FiniteSets

Blanks == {" ", "tab"}
Until(s, i, C) == LET ends == {e \in i..Len(s) : s[e] \in C} IN
                  IF ends = {} THEN Len(s) + 1 ELSE CHOOSE e \in ends : \A k \in ends : e <= k
Stripped(out) ==                       \* without the blanks at its end
    LET last == {k \in 1..Len(out) : out[k] \notin Blanks}
    IN  IF last = {} THEN <<>> ELSE SubSeq(out, 1, CHOOSE k \in last : \A j \in last : j <= k)

-----------------------------------------------------------------------------
(* Joining.  h is t_hjoin: where it reads, what it wrote, the quotes it is *)
(* in, the depths of $( $(( ${ and (, whether the last ) closed a pattern, *)
(* and the here-documents that wait for their bodies.                      *)

hj_init == [i |-> 1, out |-> <<>>, sq |-> FALSE, dq |-> FALSE, btick |-> FALSE, csub |-> 0, arith |-> 0,
            dpar |-> 0, pdepth |-> 0, cpat |-> FALSE, tags |-> <<>>, body |-> FALSE]
Put(h, text, n) == [h EXCEPT !.out = @ \o text, !.i = @ + n]

KeywordsBefore == {<<k>> : k \in {"if", "then", "else", "elif", "while", "until", "for", "case", "select", "in", "do",
                                  "time", "function", "coproc", "!"}} \cup {<<"[", "[">>}
hj_last_word_kw(out) ==
    LET seps == {k \in 1..Len(out) : out[k] \in Blanks \cup {";", "&", "|", "(", ")", "{", "}"}}
        k == IF seps = {} THEN 0 ELSE CHOOSE j \in seps : \A m \in seps : m <= j
    IN  SubSeq(out, k + 1, Len(out)) \in KeywordsBefore
hj_func_header(out) ==                 \* name ( )
    LET inner == Stripped(Front(out))
        name == Stripped(Front(inner))
    IN  /\ Len(out) >= 3 /\ inner # <<>> /\ Last(inner) = "("
        /\ name # <<>> /\ Last(name) \notin Blanks \cup {";", "&", "|", "(", ")", "{", "}", "<", ">"}
hj_emit_delim_bare(h) == Put(h, <<";", " ">>, 0)  \* mutant: a ; whatever comes before
hj_emit_delim(h) ==
    LET out == Stripped(h.out)
        c == IF out = <<>> THEN "end" ELSE Last(out)
    IN  CASE c = "end" -> Put(h, <<" ">>, 0)
          [] c = ")" /\ (h.cpat \/ hj_func_header(out)) -> Put(h, <<" ">>, 0)
          [] c # ")" /\ c # "end" /\ (c \in {";", "&", "|", "(", "{", "<", ">"} \/ hj_last_word_kw(out)) -> Put(h, <<" ">>, 0)
          [] OTHER -> Put(h, <<";", " ">>, 0)

hj_depth_step(h, d) == IF h.arith > 0 THEN [h EXCEPT !.arith = @ + d] ELSE [h EXCEPT !.csub = @ + d]
hj_paren_plain(h, c) ==                \* mutant: a ) closes a parenthesis, never a pattern
    IF c = "(" THEN [h EXCEPT !.pdepth = @ + 1, !.cpat = FALSE] ELSE [h EXCEPT !.pdepth = @ - 1, !.cpat = FALSE]
hj_paren(h, c) ==
    LET g == [h EXCEPT !.cpat = FALSE] IN
    CASE c = "(" /\ g.arith = 0 /\ g.csub = 0 -> [g EXCEPT !.pdepth = @ + 1]
      [] c = "(" /\ ~(g.arith = 0 /\ g.csub = 0) -> hj_depth_step(g, 1)
      [] c = ")" /\ (g.arith > 0 \/ g.csub > 0) -> hj_depth_step(g, -1)
      [] c = ")" /\ g.arith <= 0 /\ g.csub <= 0 /\ g.pdepth > 0 -> [g EXCEPT !.pdepth = @ - 1]
      [] OTHER -> [g EXCEPT !.cpat = TRUE]
hj_newline(h, lit) ==
    CASE h.sq \/ h.dq \/ h.btick \/ h.csub > 0 \/ h.arith > 0 \/ h.dpar > 0 -> Put(h, <<"nl">>, 1)
      [] h.tags # <<>> -> [Put(h, <<"nl">>, 1) EXCEPT !.body = TRUE]
      [] lit -> Put(h, <<"nl">>, 1)
      [] OTHER -> [hj_emit_delim(h) EXCEPT !.i = h.i + 1]
hj_dollar(h, s) ==                     \* $(( $( ${, or nothing
    LET g == [h EXCEPT !.cpat = FALSE] IN
    CASE Two(s, h.i + 1, "(", "(") -> {[Put(g, <<"$", "(", "(">>, 3) EXCEPT !.arith = @ + 2]}
      [] At(s, h.i + 1) = "(" /\ At(s, h.i + 2) # "(" -> {[Put(g, <<"$", "(">>, 2) EXCEPT !.csub = @ + 1]}
      [] At(s, h.i + 1) = "{" -> {[Put(g, <<"$", "{">>, 2) EXCEPT !.dpar = @ + 1]}
      [] OTHER -> {}
hj_track(h, s) ==
    LET c == s[h.i]
        deep == IF c = "$" /\ ~h.sq THEN hj_dollar(h, s) ELSE {}
        g == CASE h.sq -> [h EXCEPT !.sq = (c # "'")]
               [] ~h.sq /\ c = "'" /\ ~h.dq -> [h EXCEPT !.sq = TRUE]
               [] ~h.sq /\ c = "\"" -> [h EXCEPT !.dq = ~@]
               [] ~h.sq /\ c = "bq" /\ ~h.dq -> [h EXCEPT !.btick = ~@]
               [] ~h.sq /\ c = "}" /\ h.dpar > 0 -> [h EXCEPT !.dpar = @ - 1]
               [] ~h.sq /\ c \in {"(", ")"} /\ ~h.dq -> hj_paren(h, c)
               [] OTHER -> h
    IN  IF deep # {} THEN CHOOSE d \in deep : TRUE
        ELSE [Put(g, <<c>>, 1) EXCEPT !.cpat = @ /\ c \in Blanks \cup {"(", ")"}]
hj_copy_escaped(h, s) ==
    CASE At(s, h.i + 1) = "nl" /\ ~h.dq /\ ~h.btick /\ h.csub = 0 /\ h.arith = 0 -> [h EXCEPT !.i = @ + 2]
      [] At(s, h.i + 1) = "end" -> Put(h, <<"\\">>, 1)
      [] OTHER -> Put(h, <<"\\", s[h.i + 1]>>, 2)

\* here-documents: the tag, then the body up to the line that is the tag
hj_at_heredoc(h, s) == Two(s, h.i, "<", "<") /\ ~h.sq /\ ~h.dq /\ h.arith = 0
hj_read_tag(h, s, strip) ==
    LET e == Until(s, h.i, Blanks \cup {"nl", ";", "&", "|", "<", ">", "(", ")"})
        word == SubSeq(s, h.i, e - 1)
        tag == SelectSeq(word, LAMBDA c : c \notin {"'", "\""})
    IN  [Put(h, word, e - h.i) EXCEPT !.tags = IF tag = <<>> THEN @ ELSE Append(@, [strip |-> strip, tag |-> tag])]
hj_heredoc_tag(h, s) ==
    LET strip == At(s, h.i + 2) = "-"
        b == h.i + (IF strip THEN 3 ELSE 2)
        e == skip_while(s, b, Blanks)
    IN  IF At(s, h.i + 2) = "<" THEN Put(h, <<"<", "<", "<">>, 3)
        ELSE hj_read_tag(Put(h, SubSeq(s, h.i, e - 1), e - h.i), s, strip)
hj_line_matches(l, t) == (IF t.strip THEN SubSeq(l, skip_while(l, 1, {"tab"}), Len(l)) ELSE l) = t.tag
hj_pop_tag(h) == [h EXCEPT !.tags = Tail(@), !.body = Len(h.tags) > 1]
hj_heredoc_body(h, s) ==
    LET e == Until(s, h.i, {"nl"})
        l == SubSeq(s, h.i, e - 1)
        g == IF hj_line_matches(l, h.tags[1]) THEN hj_pop_tag(h) ELSE h
    IN  Put(g, l \o (IF At(s, e) = "nl" THEN <<"nl">> ELSE <<>>), Len(l) + (IF At(s, e) = "nl" THEN 1 ELSE 0))

RECURSIVE hj_loop(_, _, _)
hj_loop(h, s, lit) ==
    IF h.i > Len(s) THEN h.out
    ELSE hj_loop(CASE h.body -> hj_heredoc_body(h, s)
                   [] ~h.body /\ s[h.i] = "\\" /\ ~h.sq -> hj_copy_escaped(h, s)
                   [] ~h.body /\ s[h.i] = "nl" -> hj_newline(h, lit)
                   [] ~h.body /\ hj_at_heredoc(h, s) -> hj_heredoc_tag(h, s)
                   [] OTHER -> hj_track(h, s), s, lit)
hist_join_line(s, lit) == hj_loop(hj_init, s, lit)

-----------------------------------------------------------------------------
(* The file: an entry's backslashes and newlines are escaped, a bare       *)
(* newline ends it.                                                        *)

encode_cmd_hist_raw(cmd) ==            \* mutant: backslashes as they are
    FoldLeft(LAMBDA out, c : out \o (IF c = "nl" THEN <<"\\", c>> ELSE <<c>>), <<>>, cmd) \o <<"nl">>
encode_cmd_hist(cmd) ==
    FoldLeft(LAMBDA out, c : out \o (IF c \in {"\\", "nl"} THEN <<"\\", c>> ELSE <<c>>), <<>>, cmd) \o <<"nl">>
RECURSIVE process_parse_single_cmd(_, _, _, _)
process_parse_single_cmd(text, i, cmd, bs) ==
    CASE i > Len(text) -> [cmd |-> cmd, i |-> i]
      [] i <= Len(text) /\ text[i] = "\\" /\ ~bs -> process_parse_single_cmd(text, i + 1, cmd, TRUE)
      [] i <= Len(text) /\ text[i] = "nl" /\ ~bs -> [cmd |-> cmd, i |-> i + 1]
      [] OTHER -> process_parse_single_cmd(text, i + 1, Append(cmd, text[i]), FALSE)
parse_single_cmd(text, i) == process_parse_single_cmd(text, i, <<>>, FALSE)
RECURSIVE parse_hist_from(_, _)
parse_hist_from(text, i) ==
    IF i > Len(text) THEN <<>>
    ELSE LET p == parse_single_cmd(text, i)
         IN  (IF p.cmd = <<>> THEN <<>> ELSE <<p.cmd>>) \o parse_hist_from(text, p.i)
parse_hist_file(text) == parse_hist_from(text, 1)

-----------------------------------------------------------------------------
(* Recall.  An answer is a set: empty when there is no such entry.         *)

hist_entry_at(cmds, idx) ==            \* from 0; a negative one from the end
    LET i == IF idx < 0 THEN Len(cmds) + idx ELSE idx IN IF i \in 0..Len(cmds) - 1 THEN {cmds[i + 1]} ELSE {}
LastSuch(cmds, Fits(_)) ==
    LET found == {i \in DOMAIN cmds : Fits(cmds[i])}
    IN  IF found = {} THEN {} ELSE {cmds[CHOOSE i \in found : \A j \in found : j <= i]}
Occurs(t, x, i) == SubSeq(t, i, i + Len(x) - 1) = x
hist_search_prefix(cmds, p) == LastSuch(cmds, LAMBDA t : IsPrefix(p, t))
hist_search_contains(cmds, x) == LastSuch(cmds, LAMBDA t : \E i \in 1..Len(t) - Len(x) + 1 : Occurs(t, x, i))
Number(s, i, e) == FoldLeft(LAMBDA n, c : 10 * n + (CASE c = "0" -> 0 [] c = "1" -> 1 [] c = "2" -> 2), 0, SubSeq(s, i, e - 1))
resolve_bang_neg(cmds, s, i) ==
    LET e == skip_while(s, i + 1, Digits) IN [hit |-> hist_entry_at(cmds, -Number(s, i + 1, e)), next |-> e]
resolve_bang_pos(cmds, s, i) ==
    LET e == skip_while(s, i, Digits) IN [hit |-> hist_entry_at(cmds, Number(s, i, e) - 1), next |-> e]
resolve_bang(cmds, s, i) ==            \* i is behind the !
    LET q == Until(s, i + 1, {"?", "nl"})
        w == Until(s, i, Blanks \cup {"nl"})
    IN  CASE At(s, i) = "!" -> [hit |-> hist_entry_at(cmds, -1), next |-> i + 1]
          [] At(s, i) = "?" -> [hit |-> hist_search_contains(cmds, SubSeq(s, i + 1, q - 1)), next |-> IF At(s, q) = "?" THEN q + 1 ELSE q]
          [] At(s, i) = "-" /\ At(s, i + 1) \in Digits -> resolve_bang_neg(cmds, s, i)
          [] At(s, i) \in Digits -> resolve_bang_pos(cmds, s, i)
          [] OTHER -> [hit |-> hist_search_prefix(cmds, SubSeq(s, i, w - 1)), next |-> w]
in_sq(s, i) == Cardinality({k \in 1..i - 1 : s[k] = "'"}) % 2 = 1
is_bang_expand(s, i) == At(s, i) = "!" /\ At(s, i + 1) \notin Blanks \cup {"end", "nl", "="} /\ ~in_sq(s, i)
RECURSIVE expand_bang_loop(_, _, _)
expand_bang_loop(cmds, s, i) ==
    IF i > Len(s) THEN {<<>>}
    ELSE LET b == resolve_bang(cmds, s, i + 1)
         IN  IF is_bang_expand(s, i)
             THEN {x \o rest : x \in b.hit, rest \in expand_bang_loop(cmds, s, b.next)}
             ELSE {<<s[i]>> \o rest : rest \in expand_bang_loop(cmds, s, i + 1)}
replace_first(s, old, new) ==
    LET at == {i \in 1..Len(s) - Len(old) + 1 : Occurs(s, old, i)}
        i == CHOOSE k \in at : \A j \in at : k <= j
    IN  IF at = {} \/ old = <<>> THEN {} ELSE {SubSeq(s, 1, i - 1) \o new \o SubSeq(s, i + Len(old), Len(s))}
quick_sub(cmds, s) ==                  \* ^old^new^: nothing to do without a second ^ or an entry
    LET c2 == Until(s, 2, {"^"})
        c3 == Until(s, c2 + 1, {"^"})
        e == IF At(s, c3) = "^" THEN c3 ELSE Until(s, c2 + 1, {"nl"})
    IN  IF At(s, c2) # "^" \/ cmds = <<>> THEN {s}
        ELSE replace_first(Last(cmds), SubSeq(s, 2, c2 - 1), SubSeq(s, c2 + 1, e - 1))
expand_history(cmds, s) == IF At(s, 1) = "^" THEN quick_sub(cmds, s) ELSE expand_bang_loop(cmds, s, 1)

-----------------------------------------------------------------------------
(* fc: an operand is a number, as text, or a prefix.                       *)

fc_total(cmds, recorded) == IF recorded /\ cmds # <<>> THEN Len(cmds) - 1 ELSE Len(cmds)
fc_resolve_idx(cmds, total, operand) == \* 0-based, or none
    LET n == operand.num - 1
        m == IF n < 0 THEN n + total + 1 ELSE n
        hits == {i \in 0..total - 1 : IsPrefix(operand.text, cmds[i + 1])}
    IN  CASE operand.is = "none" -> {total - 1}
          [] operand.is = "num" -> {IF m < 0 THEN 0 ELSE IF m >= total THEN total - 1 ELSE m}
          [] operand.is = "text" /\ hits # {} -> {CHOOSE i \in hits : \A j \in hits : j <= i}
          [] operand.is = "text" /\ hits = {} -> {}
fc_list(cmds, recorded, ops, rev) ==   \* the numbers it prints
    LET total == fc_total(cmds, recorded)
        none == [is |-> "none", num |-> 0, text |-> <<>>]
        first == IF ops = <<>> THEN {IF total < 16 THEN 0 ELSE total - 16} ELSE fc_resolve_idx(cmds, total, ops[1])
        last == fc_resolve_idx(cmds, total, IF Len(ops) > 1 THEN ops[2] ELSE none)
        Range2(a, b) == IF a <= b THEN [k \in 1..b - a + 1 |-> a + k] ELSE [k \in 1..a - b + 1 |-> a - k + 2]
    IN  IF total <= 0 THEN {<<>>}
        ELSE {IF rev THEN Range2(b, a) ELSE Range2(a, b) : a \in first, b \in last}
=============================================================================
