------------------------------- MODULE Pattern -------------------------------
(***************************************************************************)
(* The pattern matcher of case, [[ ]] and the trims                        *)
(* (execution/case_match*.c), and the two functions that turn a word into  *)
(* a pattern.  A subject and a pattern are sequences of bytes, one string  *)
(* each; "E1" "E2" "E3" are the bytes of one character.  The name of a     *)
(* class is one byte here.  The options o are [extglob, zsh].              *)
(***************************************************************************)
EXTENDS Integers, Sequences, FiniteSets, SequencesExt

Byte(p, i) == IF i \in 1..Len(p) THEN p[i] ELSE "end"
From(p, i) == SubSeq(p, i, Len(p))
Mb == <<"E1", "E2", "E3">>
\* bytes of the character at the head of s, no more than a slice has left of it
\* (a value holds whole characters); what is no first byte is one byte wide
mb_len0(s) == IF s[1] # "E1" THEN 1 ELSE IF Len(s) < 3 THEN Len(s) ELSE 3

ByteOrder == <<"!", "(", ")", "*", "-", ".", "/", "1", "2", "?", "A", "B", "[", "\\", "]", "^", "a", "b", "c", "d", "x">>
Ord(c) == IF \E i \in 1..Len(ByteOrder) : ByteOrder[i] = c THEN CHOOSE i \in 1..Len(ByteOrder) : ByteOrder[i] = c ELSE 0
CharOrd(c) == IF Len(c) = 3 THEN 1000 ELSE Ord(c[1])

cm_class_has(name, c) ==
    CASE name = "alpha" -> c[1] \in {"a", "b", "c", "d", "x", "A", "B", "E1"}
      [] name = "digit" -> c[1] \in {"1", "2"}
      [] name = "upper" -> c[1] \in {"A", "B"}
      [] OTHER -> FALSE

-----------------------------------------------------------------------------
(* Bracket expressions.                                                    *)

\* past the [: :] at i, or one byte on when it has no end
ClassEnd(p, i) == LET ends == {j \in i + 2..Len(p) - 1 : p[j] = ":" /\ p[j + 1] = "]"}
                  IN  IF ends = {} THEN 0 ELSE 2 + CHOOSE j \in ends : \A k \in ends : j <= k
cm_class_skip(p, i) == IF ClassEnd(p, i) = 0 THEN i + 1 ELSE ClassEnd(p, i)
AtClass(p, i) == Byte(p, i) = "[" /\ Byte(p, i + 1) = ":"
RECURSIVE bracket_find(_, _)
bracket_find(p, i) ==
    CASE i > Len(p) -> 0
      [] i <= Len(p) /\ p[i] = "]" -> i
      [] AtClass(p, i) -> bracket_find(p, cm_class_skip(p, i))
      [] OTHER -> bracket_find(p, i + 1)
Negated(p, i) == Byte(p, i + 1) \in {"!", "^"}
FirstMember(p, i) == IF Negated(p, i) THEN i + 2 ELSE i + 1
bracket_close(p, i) ==                 \* the ] of the [ at i, or 0
    LET f == FirstMember(p, i) IN bracket_find(p, IF Byte(p, f) = "]" THEN f + 1 ELSE f)

cm_in_range(c, lo, hi) == CharOrd(c) >= CharOrd(lo) /\ CharOrd(c) <= CharOrd(hi)
cm_class_match(p, i, c) ==             \* [hit, to]
    IF ClassEnd(p, i) = 0 THEN [hit |-> c = <<"[">>, to |-> i + 1]
    ELSE [hit |-> cm_class_has(p[i + 2], c), to |-> ClassEnd(p, i)]
RECURSIVE cm_members(_, _, _)
cm_members(p, i, c) ==                 \* [hit, to]: to is at the ]
    LET k == mb_len0(From(p, i))
        k2 == mb_len0(From(p, i + k + 1))
        one == CASE AtClass(p, i) -> cm_class_match(p, i, c)
                 [] ~AtClass(p, i) /\ Byte(p, i + k) = "-" /\ Byte(p, i + k + 1) \notin {"]", "end"} ->
                      [hit |-> cm_in_range(c, SubSeq(p, i, i + k - 1), SubSeq(p, i + k + 1, i + k + k2)),
                       to |-> i + k + 1 + k2]
                 [] OTHER -> [hit |-> SubSeq(p, i, i + k - 1) = c, to |-> i + k]
        rest == cm_members(p, one.to, c)
    IN  IF i > Len(p) \/ Byte(p, i) = "]" THEN [hit |-> FALSE, to |-> i]
        ELSE [hit |-> one.hit \/ rest.hit, to |-> rest.to]
cm_bracket(p, c) ==                    \* the [ is p[1]: [hit, to]
    LET f == FirstMember(p, 1)
        lead == Byte(p, f) = "]"
        m == cm_members(p, IF lead THEN f + 1 ELSE f, c)
    IN  [hit |-> (m.hit \/ (lead /\ c = <<"]">>)) # Negated(p, 1), to |-> m.to + 1]

cm_advance_byte(s, p) ==               \* what is left to match, as [ok, s, p]
    CASE s # <<>> /\ p[1] = "\\" /\ Len(p) > 1 /\ p[2] = s[1] -> [ok |-> TRUE, s |-> Tail(s), p |-> From(p, 3)]
      [] s # <<>> /\ p[1] \notin {"?", "\\"} /\ p[1] = s[1] -> [ok |-> TRUE, s |-> Tail(s), p |-> Tail(p)]
      [] OTHER -> [ok |-> FALSE, s |-> s, p |-> p]
cm_advance_one(s, p) ==
    LET n == mb_len0(s)
        b == cm_bracket(p, SubSeq(s, 1, n))
    IN  CASE p[1] = "?" /\ s # <<>> -> [ok |-> TRUE, s |-> From(s, n + 1), p |-> Tail(p)]
          [] p[1] = "[" /\ bracket_close(p, 1) # 0 ->
               IF s = <<>> \/ ~b.hit THEN [ok |-> FALSE, s |-> s, p |-> p]
               ELSE [ok |-> TRUE, s |-> From(s, n + 1), p |-> From(p, b.to)]
          [] OTHER -> cm_advance_byte(s, p)

-----------------------------------------------------------------------------
(* Groups: ?(..) *(..) +(..) @(..) !(..), and zsh's bare (a|b).            *)

\* steps over what hides a parenthesis at i: 0 when a bracket never closes
Hidden(p, i, brk) ==
    CASE Byte(p, i) = "\\" /\ i < Len(p) -> i + 2
      [] brk /\ Byte(p, i) = "[" -> IF bracket_close(p, i) = 0 THEN 0 ELSE bracket_close(p, i) + 1
      [] OTHER -> i + 1
Deeper(p, i, depth) == CASE p[i] = "(" -> depth + 1 [] p[i] = ")" -> depth - 1 [] OTHER -> depth
RECURSIVE group_end_from(_, _, _, _), alt_end_from(_, _, _, _)
group_end_from(p, i, depth, brk) ==
    CASE i = 0 \/ i > Len(p) -> 0
      [] i \in 1..Len(p) /\ p[i] = ")" /\ depth = 0 -> i + 1
      [] OTHER -> group_end_from(p, Hidden(p, i, brk), Deeper(p, i, depth), brk)
xg_group_end(p, i, brk) == group_end_from(p, i + 1, 0, brk)
alt_end_from(p, i, depth, brk) ==
    CASE i > Len(p) -> Len(p) + 1
      [] i <= Len(p) /\ depth = 0 /\ p[i] \in {")", "|"} -> i
      [] OTHER -> alt_end_from(p, IF Hidden(p, i, brk) = 0 THEN i + 1 ELSE Hidden(p, i, brk), Deeper(p, i, depth), brk)
xg_alt_end(p, i, brk) == alt_end_from(p, i, 0, brk)
xg_alt_group_n(p, i, brk, o) ==        \* the length of a zsh (a|b) at i, or 0
    IF o.zsh /\ Byte(p, i) = "(" /\ xg_group_end(p, i, brk) # 0 /\ Byte(p, xg_alt_end(p, i + 1, brk)) = "|"
    THEN xg_group_end(p, i, brk) - i ELSE 0
xg_start(p, o) == \/ Byte(p, 1) = "(" /\ xg_alt_group_n(p, 1, TRUE, o) # 0
                  \/ Byte(p, 1) \in {"?", "*", "+", "@", "!"} /\ Byte(p, 2) = "(" /\ o.extglob
xg_open(p) == IF p[1] = "(" THEN 1 ELSE 2
xg_meta(c) == c \in {"*", "?", "[", "\\", "(", ")", "|"}

RECURSIVE cm_run(_, _, _), xg_rep(_, _, _, _), xg_any_alt(_, _, _)
xg_any_alt(s, inner, o) ==             \* inner lies between the parentheses
    LET e == xg_alt_end(inner, 1, TRUE) IN
    \/ cm_run(s, SubSeq(inner, 1, e - 1), o)
    \/ Byte(inner, e) = "|" /\ xg_any_alt(s, From(inner, e + 1), o)
\* each round of a repetition takes at least one byte
xg_plus(s, inner, tail, o) ==
    \E cut \in 1..Len(s) : xg_any_alt(SubSeq(s, 1, cut), inner, o) /\ xg_rep(From(s, cut + 1), inner, tail, o)
xg_rep(s, inner, tail, o) == cm_run(s, tail, o) \/ xg_plus(s, inner, tail, o)
\* mutant: the part that !( ) takes is not compared with the alternatives
xg_once_not(op, s, inner, tail, o) ==
    \/ op = "?" /\ cm_run(s, tail, o)
    \/ \E cut \in 0..Len(s) : (op = "!" \/ xg_any_alt(SubSeq(s, 1, cut), inner, o)) /\ cm_run(From(s, cut + 1), tail, o)
xg_once(op, s, inner, tail, o) ==
    \/ op = "?" /\ cm_run(s, tail, o)
    \/ \E cut \in 0..Len(s) : /\ xg_any_alt(SubSeq(s, 1, cut), inner, o) = (op # "!")
                              /\ cm_run(From(s, cut + 1), tail, o)
xg_match(s, p, o) ==
    LET open == xg_open(p)
        end == xg_group_end(p, open, TRUE)
        inner == SubSeq(p, open + 1, end - 2)
        tail == From(p, end)
    IN  /\ end # 0
        /\ CASE p[1] = "*" -> xg_rep(s, inner, tail, o)
             [] p[1] = "+" -> xg_plus(s, inner, tail, o)
             [] OTHER -> xg_once(p[1], s, inner, tail, o)
RECURSIVE skip_stars(_)
skip_stars(p) == IF Byte(p, 1) = "*" THEN skip_stars(Tail(p)) ELSE p
cm_run(s, p, o) ==
    LET a == cm_advance_one(s, p)
        q == skip_stars(p)
    IN  CASE p = <<>> -> s = <<>>
          [] p # <<>> /\ xg_start(p, o) -> xg_match(s, p, o)
          [] p # <<>> /\ ~xg_start(p, o) /\ p[1] = "*" ->
               q = <<>> \/ \E k \in 1..Len(s) + 1 : cm_run(From(s, k), q, o)
          [] OTHER -> a.ok /\ cm_run(a.s, a.p, o)
case_match(s, p, o) == cm_run(s, p, o)

-----------------------------------------------------------------------------
(* A word is a sequence of parts [text, quoted].  The bytes of a quoted    *)
(* part are escaped: one way for case and [[ ]], another for ${v#word}.    *)

Escaped(t, Meta(_)) == FlattenSeq([i \in 1..Len(t) |-> IF Meta(t[i]) THEN <<"\\", t[i]>> ELSE <<t[i]>>])
append_pat_tok(part) == IF part.quoted THEN Escaped(part.text, xg_meta) ELSE part.text
pat_meta(c) == c \in {"*", "?", "[", "\\"}
pat_append(part) == IF part.quoted THEN Escaped(part.text, pat_meta) ELSE part.text
case_pattern(word) == FlattenSeq([i \in 1..Len(word) |-> append_pat_tok(word[i])])
word_to_pattern(word) == FlattenSeq([i \in 1..Len(word) |-> pat_append(word[i])])
=============================================================================
