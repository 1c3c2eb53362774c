-------------------------------- MODULE Glob ---------------------------------
(***************************************************************************)
(* Pathname expansion (glob/*.c): a word is cut into tokens, the tokens    *)
(* walk the directories, and what they reach is qualified and sorted.  A   *)
(* word is a sequence of parts [text, quoted]; a name and a path are       *)
(* sequences of bytes.  fs maps the path of a file, a sequence of names    *)
(* from the working directory, to "dir", "plain" or "link"; <<>> is there. *)
(* The options o add dotglob, nullglob, globstar and nocase to Pattern's.  *)
(***************************************************************************)
EXTENDS Pattern

Glob(ty, txt, neg, set, part, at) ==
    [ty |-> ty, txt |-> txt, neg |-> neg, set |-> set, part |-> part, at |-> at]
Plain(ty, txt, part, at) == Glob(ty, txt, FALSE, <<>>, part, at)

-----------------------------------------------------------------------------
(* [ ]: the bytes a bracket expression stands for.                         *)

classes == [alpha |-> <<"A", "B", "a", "b", "c", "d", "x">>, digit |-> <<"1", "2">>, upper |-> <<"A", "B">>]
check_posix_class(s, i) == AtClass(s, i) /\ Byte(s, i + 2) \in DOMAIN classes /\ Byte(s, i + 3) = ":" /\ Byte(s, i + 4) = "]"
InRange(lo, hi) == SelectSeq(ByteOrder, LAMBDA c : Ord(c) >= Ord(lo) /\ Ord(c) <= Ord(hi))
is_valid_range_pattern(s, i) == i + 2 <= Len(s) /\ s[i + 1] = "-" /\ s[i + 2] \notin {"]", "["}
\* one element of a bracket: [take, put]
handle_range(s, i) ==
    LET escaped == s[i + 2] = "\\" /\ i + 3 <= Len(s)
        hi == IF escaped THEN s[i + 3] ELSE s[i + 2]
    IN  IF Ord(s[i]) > Ord(hi) THEN [take |-> 2, put |-> <<s[i], "-">>]
        ELSE [take |-> IF escaped THEN 4 ELSE 3, put |-> InRange(s[i], hi)]
BracketStep(s, i) ==
    CASE s[i] = "\\" /\ i < Len(s) -> [take |-> 2, put |-> <<s[i + 1]>>]
      [] check_posix_class(s, i) -> [take |-> 5, put |-> classes[s[i + 2]]]
      [] s[i] = "-" /\ i \in {1, Len(s)} -> [take |-> 1, put |-> <<"-">>]
      [] s[i] # "\\" /\ s[i] # "-" /\ is_valid_range_pattern(s, i) /\ ~check_posix_class(s, i) -> handle_range(s, i)
      [] OTHER -> [take |-> 1, put |-> <<s[i]>>]
RECURSIVE expand_bracket_content(_, _)
expand_bracket_content(s, i) ==
    IF i > Len(s) THEN <<>>
    ELSE BracketStep(s, i).put \o expand_bracket_content(s, i + BracketStep(s, i).take)
\* a ] that comes first is skipped when more follows
glob_expand_bracket(s) ==
    CASE s = <<>> -> <<>>
      [] Len(s) = 2 /\ s[1] = "]" -> <<s[2]>>
      [] Len(s) > 2 /\ s[1] = "]" -> expand_bracket_content(Tail(s), 1)
      [] OTHER -> expand_bracket_content(s, 1)
parse_bracket(p, i, part) ==           \* the token of the [ at i, and the place after it, or 0
    LET f == FirstMember(p, i)
        close == bracket_find(p, IF Byte(p, f) = "]" THEN f + 1 ELSE f)
        body == SubSeq(p, f, close - 1)
        set == glob_expand_bracket(body)
    IN  IF close = 0 \/ close = f \/ set = <<>> THEN [to |-> 0, g |-> Plain("lit", <<>>, part, i)]
        ELSE [to |-> close + 1, g |-> Glob("set", body, Negated(p, i), set, part, i)]

-----------------------------------------------------------------------------
(* The tokenizer.                                                          *)

RECURSIVE seg_end(_, _, _)
seg_end(p, i, depth) ==
    CASE i > Len(p) -> i
      [] i <= Len(p) /\ p[i] = "/" /\ depth = 0 -> i
      [] i <= Len(p) /\ p[i] = ")" -> seg_end(p, i + 1, IF depth > 0 THEN depth - 1 ELSE 0)
      [] OTHER -> seg_end(p, i + 1, IF p[i] = "(" THEN depth + 1 ELSE depth)
extglob_ahead(p, i, o) == /\ o.extglob /\ Byte(p, i) \in {"?", "*", "+", "@", "!"} /\ Byte(p, i + 1) = "("
                          /\ xg_group_end(p, i + 1, FALSE) # 0
seg_has_group(p, i, end, o) == \E j \in i..end - 1 : extglob_ahead(p, j, o) \/ xg_alt_group_n(p, j, TRUE, o) # 0
handle_extglob_token(p, i, quoted, o) ==
    ~quoted /\ (i = 1 \/ p[i - 1] = "/") /\ seg_has_group(p, i, seg_end(p, i, 0), o)
RECURSIVE run_of(_, _), tokenize_literal_n(_, _, _)
run_of(p, i) == IF Byte(p, i) = "*" THEN 1 + run_of(p, i + 1) ELSE 0
is_globstar(p, i, o) ==
    o.globstar /\ run_of(p, i) = 2 /\ (i = 1 \/ p[i - 1] = "/") /\ Byte(p, i + 2) \in {"/", "end"}
tokenize_literal_n(p, i, quoted) ==    \* where the literal that goes on at i ends
    IF i > Len(p) \/ Byte(p, i) = "/" \/ (~quoted /\ Byte(p, i) \in {"*", "?", "["}) THEN i
    ELSE tokenize_literal_n(p, i + 1, quoted)
RECURSIVE glob_tokenize(_, _, _, _, _)
glob_tokenize(p, i, quoted, part, o) ==
    LET b == parse_bracket(p, i, part)
        end == tokenize_literal_n(p, IF p[i] = "[" THEN i + 1 ELSE i, quoted)
        Go(ty, to) == <<Plain(ty, SubSeq(p, i, to - 1), part, i)>> \o glob_tokenize(p, to, quoted, part, o)
    IN  CASE i > Len(p) -> <<>>
          [] i <= Len(p) /\ handle_extglob_token(p, i, quoted, o) -> Go("ext", seg_end(p, i, 0))
          [] i <= Len(p) /\ ~handle_extglob_token(p, i, quoted, o) ->
             CASE p[i] = "/" -> Go("slash", i + 1)
               [] ~quoted /\ p[i] = "*" -> Go(IF is_globstar(p, i, o) THEN "stars" ELSE "star", i + run_of(p, i))
               [] ~quoted /\ p[i] = "?" -> Go("any", i + 1)
               [] ~quoted /\ p[i] = "[" /\ b.to # 0 -> <<b.g>> \o glob_tokenize(p, b.to, quoted, part, o)
               [] OTHER -> Go("lit", end)
word_to_glob(w, o) == FlattenSeq([k \in 1..Len(w) |-> glob_tokenize(w[k].text, 1, w[k].quoted, k, o)])
word_to_string(w) == FlattenSeq([k \in 1..Len(w) |-> w[k].text])
glob_has_wildcard(g) == \E i \in 1..Len(g) : g[i].ty \in {"star", "any", "set", "stars", "ext"}

-----------------------------------------------------------------------------
(* One name against one segment, from token off on.  A match says where    *)
(* the segment ends, no match is 0; first is at the head of the name.      *)

Low(c) == CASE c = "A" -> "a" [] c = "B" -> "b" [] OTHER -> c
Same(a, b, o) == a = b \/ (o.nocase /\ Low(a) = Low(b))
glob_ncmp(a, name, o) == Len(a) <= Len(name) /\ \A i \in 1..Len(a) : Same(a[i], name[i], o)
finished_pattern(g, off) == off >= Len(g) \/ g[off + 1].ty = "slash"
glob_char_in_class(c, t, o) == (\E i \in 1..Len(t.set) : Same(t.set[i], c, o)) # t.neg
glob_mb_in_class(c, t) == (\E i \in 0..Len(t.txt) - Len(c) : SubSeq(t.txt, i + 1, i + Len(c)) = c) # t.neg
InClass(name, t, o) ==
    IF mb_len0(name) = 1 THEN glob_char_in_class(name[1], t, o) ELSE glob_mb_in_class(SubSeq(name, 1, 3), t)
HiddenFrom(name, first, o) == first /\ Byte(name, 1) = "." /\ ~o.dotglob

RECURSIVE matches_pattern(_, _, _, _, _)
\* mutant: the last token of a segment may leave some of the name
AtEnd_short(rest, g, off, o) == IF finished_pattern(g, off) THEN off + 1 ELSE matches_pattern(rest, g, off + 1, FALSE, o)
AtEnd(rest, g, off, o) ==              \* after a token that took its share of the name
    IF finished_pattern(g, off) THEN (IF rest = <<>> THEN off + 1 ELSE 0)
    ELSE matches_pattern(rest, g, off + 1, FALSE, o)
FirstOf(S, F(_)) == IF \E x \in S : F(x) # 0 THEN F(CHOOSE x \in S : F(x) # 0 /\ \A y \in S : y < x => F(y) = 0) ELSE 0
match_g_literal(name, g, off, o) ==
    IF glob_ncmp(g[off].txt, name, o) THEN AtEnd(From(name, Len(g[off].txt) + 1), g, off, o) ELSE 0
match_g_asterisk(name, g, off, first, o) ==
    CASE HiddenFrom(name, first, o) -> 0
      [] ~HiddenFrom(name, first, o) /\ finished_pattern(g, off) -> off + 1
      [] OTHER -> FirstOf(1..Len(name), LAMBDA k : matches_pattern(From(name, k), g, off + 1, FALSE, o))
match_g_question(name, g, off, first, o) ==
    IF name = <<>> \/ HiddenFrom(name, first, o) THEN 0 ELSE AtEnd(From(name, mb_len0(name) + 1), g, off, o)
match_g_bracket(name, g, off, first, o) ==
    IF name = <<>> \/ HiddenFrom(name, first, o) \/ ~InClass(name, g[off], o) THEN 0
    ELSE AtEnd(From(name, mb_len0(name) + 1), g, off, o)
match_g_extglob(name, g, off, o) ==    \* the tokens after it take what the group leaves
    LET Takes(k) == case_match(SubSeq(name, 1, k), g[off].txt, o) IN
    CASE Byte(name, 1) = "." /\ g[off].txt[1] # "." /\ ~o.dotglob -> 0
      [] finished_pattern(g, off) -> IF Takes(Len(name)) THEN off + 1 ELSE 0
      [] OTHER -> FirstOf(0..Len(name), LAMBDA k : IF Takes(k)
                     THEN matches_pattern(From(name, k + 1), g, off + 1, FALSE, o) ELSE 0)
matches_pattern(name, g, off, first, o) ==
    CASE off > Len(g) -> 0
      [] off <= Len(g) /\ g[off].ty = "lit" -> match_g_literal(name, g, off, o)
      [] off <= Len(g) /\ g[off].ty = "star" -> match_g_asterisk(name, g, off, first, o)
      [] off <= Len(g) /\ g[off].ty = "any" -> match_g_question(name, g, off, first, o)
      [] off <= Len(g) /\ g[off].ty = "set" -> match_g_bracket(name, g, off, first, o)
      [] off <= Len(g) /\ g[off].ty = "ext" -> match_g_extglob(name, g, off, o)
      [] OTHER -> 0

\* the other matcher: a whole name, no groups
RECURSIVE glob_match_at(_, _, _, _)
match_literal(name, t) == IF IsPrefix(t.txt, name) THEN Len(t.txt) ELSE -1
match_question(name, first, o) == IF name = <<>> \/ HiddenFrom(name, first, o) THEN -1 ELSE mb_len0(name)
match_bracket(name, t, first, o) ==
    IF name = <<>> \/ HiddenFrom(name, first, o) \/ ~InClass(name, t, o) THEN -1 ELSE mb_len0(name)
match_asterisk_recursive(name, g, off, first, o) ==
    ~HiddenFrom(name, first, o) /\ \E k \in 1..Len(name) + 1 : glob_match_at(From(name, k), g, off + 1, o)
glob_match_at(name, g, off, o) ==
    LET first == off = 1 \/ g[off - 1].ty = "slash"
        n == CASE g[off].ty = "lit" -> match_literal(name, g[off])
               [] g[off].ty = "any" -> match_question(name, first, o)
               [] g[off].ty = "set" -> match_bracket(name, g[off], first, o)
               [] OTHER -> -1
    IN  CASE off > Len(g) -> name = <<>>
          [] off <= Len(g) /\ g[off].ty = "star" -> match_asterisk_recursive(name, g, off, first, o)
          [] OTHER -> n >= 0 /\ glob_match_at(From(name, n + 1), g, off + 1, o)
glob_match(name, g, o) == glob_match_at(name, g, 1, o)

-----------------------------------------------------------------------------
(* The walk.  A path is the text it is written as.                         *)

RECURSIVE names_of(_, _)
names_of(path, cur) ==                 \* the names between the slashes
    CASE path = <<>> -> IF cur = <<>> THEN <<>> ELSE <<cur>>
      [] path # <<>> /\ path[1] = "/" -> (IF cur = <<>> THEN <<>> ELSE <<cur>>) \o names_of(Tail(path), <<>>)
      [] OTHER -> names_of(Tail(path), Append(cur, path[1]))
\* where a path leads; Outside is no file of fs, and the root is not one
Outside == <<<<"/">>>>
Resolve(path, fs) == IF Byte(path, 1) = "/" THEN Outside ELSE
    FoldLeft(LAMBDA at, n : CASE n = <<".">> -> at
                              [] n = <<".", ".">> -> IF at = <<>> THEN Outside ELSE Front(at)
                              [] OTHER -> IF at \in DOMAIN fs /\ fs[at] = "dir" THEN Append(at, n) ELSE Outside,
             <<>>, names_of(path, <<>>))
Exists(path, fs) == Resolve(path, fs) \in DOMAIN fs
IsDir(path, fs) == Exists(path, fs) /\ fs[Resolve(path, fs)] = "dir"
readdir(path, fs) == LET at == Resolve(path, fs) IN
    SetToSeq({Last(p) : p \in {p \in DOMAIN fs : p # <<>> /\ Front(p) = at}})

seg_is_dots(g, off) == /\ g[off].ty = "lit" /\ g[off].txt \in {<<".">>, <<".", ".">>} /\ finished_pattern(g, off)
RECURSIVE match_dir(_, _, _, _, _), gs_descend(_, _, _, _)
handle_glob_match_result(g, path, name, res, fs, o) ==
    IF res <= Len(g) THEN match_dir(g, path \o name \o <<"/">>, res + 1, fs, o) ELSE <<path \o name>>
process_dir(g, path, off, fs, o) ==
    LET names == readdir(path, fs)
        Found(n) == LET res == matches_pattern(n, g, off, TRUE, o) IN
                    IF res = 0 THEN <<>> ELSE handle_glob_match_result(g, path, n, res, fs, o)
    IN  FlattenSeq([i \in 1..Len(names) |-> Found(names[i])])
handle_dot_segment(g, path, off, fs, o) ==
    LET next == path \o g[off].txt IN
    IF off < Len(g) THEN match_dir(g, next \o <<"/">>, off + 2, fs, o)
    ELSE IF Exists(next, fs) THEN <<next>> ELSE <<>>
gs_entry(g, path, name, fs, o) ==
    LET child == path \o name \o <<"/">> IN
    IF name[1] = "." /\ ~o.dotglob THEN <<>> ELSE
    (IF finished_pattern(g, 2) THEN <<path \o name>> ELSE <<>>)
    \o (IF ~IsDir(child, fs) THEN <<>> ELSE
        (IF Len(g) > 1 THEN match_dir(g, child, 3, fs, o) ELSE <<>>) \o gs_descend(g, child, fs, o))
gs_descend(g, path, fs, o) ==
    LET names == readdir(path, fs) IN FlattenSeq([i \in 1..Len(names) |-> gs_entry(g, path, names[i], fs, o)])
\* mutant: a ** in the middle always stands for at least one directory
handle_globstar_deep(g, path, off, fs, o) ==
    LET rest == From(g, off) IN
    (IF Len(rest) = 1 /\ path # <<>> THEN match_dir(rest, path, 2, fs, o) ELSE <<>>) \o gs_descend(rest, path, fs, o)
handle_globstar(g, path, off, fs, o) ==
    LET rest == From(g, off) IN
    (CASE Len(rest) > 1 -> match_dir(rest, path, 3, fs, o)
       [] Len(rest) = 1 /\ path # <<>> -> match_dir(rest, path, 2, fs, o)
       [] OTHER -> <<>>) \o gs_descend(rest, path, fs, o)
match_dir(g, path, off, fs, o) ==      \* what off and the tokens after it reach below path
    CASE ~IsDir(path, fs) -> <<>>
      [] IsDir(path, fs) /\ off > Len(g) -> <<path>>
      [] IsDir(path, fs) /\ off <= Len(g) ->
         CASE g[off].ty = "stars" -> handle_globstar(g, path, off, fs, o)
           [] g[off].ty # "stars" /\ seg_is_dots(g, off) -> handle_dot_segment(g, path, off, fs, o)
           [] OTHER -> process_dir(g, path, off, fs, o)
glob_walk(g, fs, o) == IF g[1].ty = "slash" THEN match_dir(g, <<"/">>, 2, fs, o) ELSE match_dir(g, <<>>, 1, fs, o)

-----------------------------------------------------------------------------
(* zsh's qualifiers, a list in parentheses at the end of the word.         *)

NoQual == [on |-> FALSE, dots |-> FALSE, null |-> FALSE, types |-> {}, limit |-> 0]
gq_one(c, q) ==                        \* the set holds the answer, or nothing
    CASE c = "D" -> {[q EXCEPT !.dots = TRUE]}
      [] c = "N" -> {[q EXCEPT !.null = TRUE]}
      [] c = "." -> {[q EXCEPT !.types = @ \cup {"plain"}]}
      [] c = "/" -> {[q EXCEPT !.types = @ \cup {"dir"}]}
      [] c = "@" -> {[q EXCEPT !.types = @ \cup {"link"}]}
      [] OTHER -> {}
RECURSIVE gq_list(_, _, _)
gq_list(s, i, q) ==
    CASE i > Len(s) -> {[q EXCEPT !.on = TRUE]}
      [] Byte(s, i) = "Y" /\ Byte(s, i + 1) \in {"1", "2"} ->
           gq_list(s, i + 2, [q EXCEPT !.limit = IF s[i + 1] = "1" THEN 1 ELSE 2])
      [] OTHER -> UNION {gq_list(s, i + 1, n) : n \in IF i <= Len(s) THEN gq_one(s[i], q) ELSE {}}
\* the tokens the list may be spread over: they lie side by side in one part
gq_run_start(g) ==
    LET n == Len(g)
        Beside(i) == g[i].ty \in {"lit", "slash"} /\ g[i].part = g[i + 1].part /\ g[i].at + Len(g[i].txt) = g[i + 1].at
        breaks == {i \in 1..n - 1 : ~Beside(i)}
    IN  IF breaks = {} THEN 1 ELSE 1 + CHOOSE i \in breaks : \A j \in breaks : j <= i
gq_trim(g, from, keep) ==              \* keep: the bytes of the run before the list
    LET Before(i) == Len(FlattenSeq([j \in 1..i - from |-> g[from + j - 1].txt]))
        cut == [i \in 1..Len(g) |-> IF i < from \/ Before(i) + Len(g[i].txt) <= keep THEN g[i]
                  ELSE [g[i] EXCEPT !.txt = SubSeq(@, 1, IF keep > Before(i) THEN keep - Before(i) ELSE 0)]]
    IN  SelectSeq(cut, LAMBDA t : t.txt # <<>>)
glob_qual_parse(g, o) ==               \* [g, q]
    LET from == gq_run_start(g)
        run == FlattenSeq([i \in 1..Len(g) - from + 1 |-> g[from + i - 1].txt])
        opens == {i \in 1..Len(run) - 1 : run[i] = "("}
        open == CHOOSE i \in opens : \A j \in opens : j <= i
        found == gq_list(SubSeq(run, open + 1, Len(run) - 1), 1, NoQual)
    IN  IF ~o.zsh \/ g = <<>> \/ g[Len(g)].ty # "lit" \/ Len(run) < 3 \/ Last(run) # ")" \/ opens = {} \/ found = {}
        THEN [g |-> g, q |-> NoQual]
        ELSE [g |-> gq_trim(g, from, open - 1), q |-> CHOOSE q \in found : TRUE]
gq_type_ok(path, q, fs) == q.types = {} \/ (Exists(path, fs) /\ fs[Resolve(path, fs)] \in q.types)
gq_is_dot(path) == LET n == names_of(path, <<>>) IN Last(path) # "/" /\ n[Len(n)][1] = "."
glob_qual_apply(args, q, fs) ==
    LET kept == SelectSeq(args, LAMBDA p : (q.dots \/ ~gq_is_dot(p)) /\ gq_type_ok(p, q, fs)) IN
    IF ~q.on THEN args ELSE IF q.limit > 0 /\ Len(kept) > q.limit THEN SubSeq(kept, 1, q.limit) ELSE kept

-----------------------------------------------------------------------------
(* The sort: Hoare's partition around the middle element.                  *)

RECURSIVE strcoll(_, _)
strcoll(a, b) ==                       \* the C locale's
    CASE a = <<>> \/ b = <<>> -> Len(a) - Len(b)
      [] a # <<>> /\ b # <<>> /\ a[1] # b[1] -> Ord(a[1]) - Ord(b[1])
      [] OTHER -> strcoll(Tail(a), Tail(b))
Upto(a, i, p) == CHOOSE k \in i..Len(a) : strcoll(a[k], p) >= 0 /\ \A m \in i..k - 1 : strcoll(a[m], p) < 0
Downto(a, j, p) == CHOOSE k \in 1..j : strcoll(a[k], p) <= 0 /\ \A m \in k + 1..j : strcoll(a[m], p) > 0
RECURSIVE glob_partition(_, _, _, _), glob_sort_inner(_, _, _)
glob_partition(a, i0, j0, p) ==        \* [a, i, j]
    LET i == Upto(a, i0, p)
        j == Downto(a, j0, p)
    IN  CASE i0 > j0 -> [a |-> a, i |-> i0, j |-> j0]
          [] i0 <= j0 /\ i <= j -> glob_partition([a EXCEPT ![i] = a[j], ![j] = a[i]], i + 1, j - 1, p)
          [] i0 <= j0 /\ i > j -> [a |-> a, i |-> i, j |-> j]
glob_sort_inner(a, low, high) ==
    LET r == glob_partition(a, low, high, a[(low + high) \div 2]) IN
    IF low >= high THEN a ELSE glob_sort_inner(glob_sort_inner(r.a, low, r.j), r.i, high)
glob_sort(a) == glob_sort_inner(a, 1, Len(a))

expand_word_glob(w, fs, o) ==
    LET p == glob_qual_parse(word_to_glob(w, o), o)
        paths == glob_qual_apply(glob_walk(p.g, fs, [o EXCEPT !.dotglob = @ \/ p.q.dots]), p.q, fs)
    IN  CASE p.g = <<>> -> <<<<>>>>
          [] p.g # <<>> /\ ~glob_has_wildcard(p.g) -> <<word_to_string(w)>>
          [] p.g # <<>> /\ glob_has_wildcard(p.g) ->
             IF paths = <<>> THEN (IF o.nullglob \/ p.q.null THEN <<>> ELSE <<word_to_string(w)>>) ELSE glob_sort(paths)
=============================================================================
