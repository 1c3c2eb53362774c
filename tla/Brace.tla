-------------------------------- MODULE Brace --------------------------------
(***************************************************************************)
(* Brace expansion (expander/brace_expand*.c): a word, a sequence of       *)
(* characters with its quotes still on, becomes a sequence of words.       *)
(***************************************************************************)
EXTENDS Pattern

DigitChars == <<"0", "1", "2", "3", "4", "5", "6", "7", "8", "9">>
IsDigit(c) == \E d \in 1..10 : DigitChars[d] = c
DigitValue(c) == (CHOOSE d \in 1..10 : DigitChars[d] = c) - 1

-----------------------------------------------------------------------------
(* Scanning: what hides a brace.                                           *)

RECURSIVE dollar_end(_, _, _, _)
dollar_end(s, i, open, depth) ==
    LET close == IF open = "(" THEN ")" ELSE "}"
        d == CASE s[i] = open -> depth + 1 [] s[i] = close -> depth - 1 [] OTHER -> depth
    IN  CASE i > Len(s) -> i
          [] i <= Len(s) /\ s[i] = close /\ d = 0 -> i + 1
          [] OTHER -> dollar_end(s, i + 1, open, d)
skip_dollar(s, i) == dollar_end(s, i + 1, s[i + 1], 0)
RECURSIVE quoted_end(_, _, _)
quoted_end(s, i, q) ==
    CASE i > Len(s) -> i
      [] i <= Len(s) /\ s[i] = q -> i + 1
      [] OTHER -> quoted_end(s, IF q = "\"" /\ s[i] = "\\" /\ i < Len(s) THEN i + 2 ELSE i + 1, q)
skip_quoted(s, i) == quoted_end(s, i + 1, s[i])
\* mutant: a substitution does not hide its braces
brace_next_blind(s, i) ==
    CASE s[i] \in {"'", "\""} -> skip_quoted(s, i)
      [] s[i] = "\\" /\ i < Len(s) -> i + 2
      [] OTHER -> i + 1
brace_next(s, i) ==
    CASE s[i] = "$" /\ Byte(s, i + 1) \in {"(", "{"} -> skip_dollar(s, i)
      [] s[i] \in {"'", "\""} -> skip_quoted(s, i)
      [] s[i] = "\\" /\ i < Len(s) -> i + 2
      [] OTHER -> i + 1

Nested(s, i, depth) == CASE s[i] = "{" -> depth + 1 [] s[i] = "}" -> depth - 1 [] OTHER -> depth
RECURSIVE match_from(_, _, _), top_comma_from(_, _, _, _)
match_from(s, i, depth) ==
    CASE i > Len(s) -> 0
      [] i <= Len(s) /\ s[i] = "}" /\ depth = 1 -> i
      [] OTHER -> match_from(s, brace_next(s, i), Nested(s, i, depth))
brace_match(s, open) == match_from(s, open, 0)
top_comma_from(s, i, close, depth) ==
    i < close /\ ((s[i] = "," /\ depth = 0) \/ top_comma_from(s, brace_next(s, i), close, Nested(s, i, depth)))
has_top_comma(s, open, close) == top_comma_from(s, open + 1, close, 0)

-----------------------------------------------------------------------------
(* {a..b} and {a..b..step}.                                                *)

Signed(s) == Byte(s, 1) \in {"-", "+"}
is_int_str(s) == LET d == IF Signed(s) THEN Tail(s) ELSE s IN d # <<>> /\ \A i \in 1..Len(d) : IsDigit(d[i])
ft_atoi(s) == LET d == IF Signed(s) THEN Tail(s) ELSE s
                  n == FoldLeft(LAMBDA a, c : 10 * a + DigitValue(c), 0, d)
              IN  IF Byte(s, 1) = "-" THEN -n ELSE n
RECURSIVE ft_itoa(_), Padded(_, _)
ft_itoa(n) == (IF n > 9 THEN ft_itoa(n \div 10) ELSE <<>>) \o <<DigitChars[(n % 10) + 1]>>
Padded(s, width) == IF Len(s) < width THEN Padded(<<"0">> \o s, width) ELSE s
fmt_num(v, width) == IF v < 0 THEN <<"-">> \o Padded(ft_itoa(-v), width) ELSE Padded(ft_itoa(v), width)
set_seq_width(p) ==
    IF \E k \in 1..2 : p[k][1] = "0" /\ Len(p[k]) > 1
    THEN (IF Len(p[1]) > Len(p[2]) THEN Len(p[1]) ELSE Len(p[2])) ELSE 0
fields_of(s) ==                        \* cut at runs of dots
    SelectSeq(FoldLeft(LAMBDA f, c : IF c = "." THEN Append(f, <<>>) ELSE [f EXCEPT ![Len(f)] = Append(@, c)],
                       <<<<>>>>, s), LAMBDA f : f # <<>>)
NotSeq == [ok |-> FALSE]
Letter(s) == Len(s) = 1 /\ ~is_int_str(s)
fill_seq_ab(p) ==
    LET step == IF Len(p) = 3 THEN ft_atoi(p[3]) ELSE 0
        alpha == Letter(p[1]) /\ Letter(p[2])
    IN  CASE Len(p) \notin {2, 3} -> NotSeq
          [] Len(p) \in {2, 3} /\ ((Len(p) = 3 /\ ~is_int_str(p[3])) \/ ~(alpha \/ (is_int_str(p[1]) /\ is_int_str(p[2])))) -> NotSeq
          [] OTHER -> [ok |-> TRUE, alpha |-> alpha, step |-> step, width |-> IF alpha THEN 0 ELSE set_seq_width(p),
                       a |-> IF alpha THEN Ord(p[1][1]) ELSE ft_atoi(p[1]), b |-> IF alpha THEN Ord(p[2][1]) ELSE ft_atoi(p[2])]
parse_seq(body) ==
    IF \E i \in 1..Len(body) - 1 : body[i] = "." /\ body[i + 1] = "." THEN fill_seq_ab(fields_of(body)) ELSE NotSeq
RECURSIVE seq_from(_, _, _)
seq_from(q, i, st) ==
    IF (st > 0 /\ i <= q.b) \/ (st < 0 /\ i >= q.b)
    THEN <<IF q.alpha THEN <<ByteOrder[i]>> ELSE fmt_num(i, q.width)>> \o seq_from(q, i + st, st) ELSE <<>>
\* mutant: a step of the wrong sign ends the sequence
run_seq_signed(q) == seq_from(q, q.a, IF q.step = 0 THEN (IF q.a <= q.b THEN 1 ELSE -1) ELSE q.step)
run_seq(q) ==
    LET st == IF q.step = 0 THEN 1 ELSE q.step
    IN  seq_from(q, q.a, IF (q.a <= q.b) # (st > 0) THEN -st ELSE st)

-----------------------------------------------------------------------------
(* Groups and their product.                                               *)

brace_group_opens_at(s, i) ==          \* the } of the group that opens at i, or 0
    LET c == IF s[i] = "{" THEN brace_match(s, i) ELSE 0 IN
    IF c > i + 1 /\ (parse_seq(SubSeq(s, i + 1, c - 1)).ok \/ has_top_comma(s, i, c)) THEN c ELSE 0
RECURSIVE find_from(_, _), pieces_from(_, _, _, _, _), brace_expand_str(_)
find_from(s, i) ==
    CASE i > Len(s) -> 0
      [] i <= Len(s) /\ brace_group_opens_at(s, i) # 0 -> i
      [] OTHER -> find_from(s, brace_next(s, i))
brace_find_expandable(s) == find_from(s, 1)
pieces_from(s, i, start, close, depth) ==
    LET cut == i = close \/ (s[i] = "," /\ depth = 0) IN
    IF i > close THEN <<>>
    ELSE (IF cut THEN brace_expand_str(SubSeq(s, start, i - 1)) ELSE <<>>)
         \o pieces_from(s, brace_next(s, i), IF cut THEN i + 1 ELSE start, close, Nested(s, i, depth))
brace_alternatives(s, open, close) ==
    LET q == parse_seq(SubSeq(s, open + 1, close - 1)) IN
    IF q.ok THEN run_seq(q) ELSE pieces_from(s, open + 1, open + 1, close, 0)
combine(pre, mids, posts) ==           \* empty words are dropped
    SelectSeq(FlattenSeq([a \in 1..Len(mids) |-> [b \in 1..Len(posts) |-> pre \o mids[a] \o posts[b]]]),
              LAMBDA w : w # <<>>)
brace_expand_str(s) ==
    LET open == brace_find_expandable(s)
        close == brace_group_opens_at(s, open)
    IN  IF open = 0 THEN <<s>>
        ELSE combine(SubSeq(s, 1, open - 1), brace_alternatives(s, open, close), brace_expand_str(From(s, close + 1)))

-----------------------------------------------------------------------------
(* The reference: items, how they are written and what they stand for.     *)

Verbatim(txt) == [k |-> "text", txt |-> txt, alts |-> <<>>]
Choice(alts) == [k |-> "group", txt |-> <<>>, alts |-> alts]
Range0(txt, words) == [k |-> "range", txt |-> txt, alts |-> words]
RECURSIVE WordText(_), WordMeans(_)
ItemText(e) ==
    CASE e.k = "group" -> <<"{">> \o WordText(e.alts[1])
            \o FlattenSeq([i \in 1..Len(e.alts) - 1 |-> <<",">> \o WordText(e.alts[i + 1])]) \o <<"}">>
      [] e.k = "range" -> <<"{">> \o e.txt \o <<"}">>
      [] OTHER -> e.txt
WordText(w) == FlattenSeq([i \in 1..Len(w) |-> ItemText(w[i])])
ItemMeans(e) == CASE e.k = "group" -> FlattenSeq([i \in 1..Len(e.alts) |-> WordMeans(e.alts[i])])
                  [] e.k = "range" -> e.alts
                  [] OTHER -> <<e.txt>>
WordMeans(w) ==                        \* the leftmost item varies slowest
    IF w = <<>> THEN <<<<>>>>
    ELSE LET heads == ItemMeans(w[1])
             tails == WordMeans(Tail(w))
         IN  FlattenSeq([i \in 1..Len(heads) |-> [j \in 1..Len(tails) |-> heads[i] \o tails[j]]])
\* only the first group of a word, and no group in a group, may give an empty word
RECURSIVE NoEmpty(_)
NoEmpty(w) == \A i \in 1..Len(w) : w[i].k = "group" => \A j \in 1..Len(w[i].alts) :
                 <<>> \notin ToSet(WordMeans(w[i].alts[j])) /\ NoEmpty(w[i].alts[j])
EmptyFirst(w) == \A i \in 1..Len(w) : w[i].k = "group" => \A j \in 1..Len(w[i].alts) :
                    NoEmpty(w[i].alts[j])
                    /\ (<<>> \in ToSet(WordMeans(w[i].alts[j])) => \A k \in 1..i - 1 : w[k].k = "text")

Texts1 == {Verbatim(<<"a">>), Verbatim(<<"'", "{", ",", "}", "'">>), Verbatim(<<"$", "{", "a", "}">>),
           Verbatim(<<"$", "(", ",", "{", ")">>), Verbatim(<<"\\", ",">>), Verbatim(<<"{", "a", "}">>),
           Verbatim(<<"\"", "\\", "\"", "}", "\"">>), Verbatim(<<"{", "}">>)}
Ranges == {Range0(<<"1", ".", ".", "3">>, <<<<"1">>, <<"2">>, <<"3">>>>),
           Range0(<<"1", ".", ".", "-", "1">>, <<<<"1">>, <<"0">>, <<"-", "1">>>>),
           Range0(<<"0", "8", ".", ".", "1", "0">>, <<<<"0", "8">>, <<"0", "9">>, <<"1", "0">>>>),
           Range0(<<"c", ".", ".", "a", ".", ".", "2">>, <<<<"c">>, <<"a">>>>),
           Range0(<<"5", ".", ".", "5">>, <<<<"5">>>>)}
Empty == <<>>
Groups1 == {Choice(<<<<t>>, <<Verbatim(<<"b">>)>>>>) : t \in Texts1}
           \cup {Choice(<<Empty, <<Verbatim(<<"b">>)>>>>), Choice(<<Empty, Empty>>)} \cup Ranges
Groups2 == {Choice(<<<<g>>, <<t, h>>>>) : g \in Groups1, t \in Texts1, h \in Ranges}
BraceWords == {<<g>> : g \in Groups1} \cup {<<t, g>> : t \in Texts1, g \in Groups1 \cup Groups2} \cup {<<g, h>> : g \in Groups1, h \in Groups1}
              \cup {<<g, t, h>> : g \in Groups1, t \in Texts1, h \in Groups1} \cup {<<g, t>> : g \in Groups2, t \in Texts1}
=============================================================================
