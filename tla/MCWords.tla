------------------------------- MODULE MCWords -------------------------------
(***************************************************************************)
(* What becomes of a word.  A behaviour starts from one thing to expand --  *)
(* an expression, a pattern, a path, a word with braces, a word with       *)
(* parameters and the shell they live in -- and the step expands it; or it *)
(* starts from an unset variable, and the steps are assignments to it.     *)
(* The properties compare the answers with references that do not look at  *)
(* the code: trees that are evaluated, languages that are defined, fields  *)
(* that POSIX cuts, a partial function for an array.                       *)
(***************************************************************************)
EXTENDS Words, TLC

CONSTANTS ItemsMax, WritesMax

E == INSTANCE Arith WITH Width <- 5, Nesting <- 3

VARIABLES kind, item, asked, val, ref
vars == <<kind, item, asked, val, ref>>

-----------------------------------------------------------------------------
(* The reference for patterns: trees of elements, the subjects each stands *)
(* for, and how it is written, as one text and as the parts of a word; and *)
(* from these what the trims, the substitutions and pathname expansion     *)
(* have to answer.                                                         *)

El(k, txt, set, alts) == [k |-> k, txt |-> txt, set |-> set, alts |-> alts]
Lit(c) == El("lit", <<c>>, {}, <<>>)
Wide == El("lit", Mb, {}, <<>>)
AnyOne == El("any", <<"?">>, {}, <<>>)
Star == El("star", <<"*">>, {}, <<>>)
Stars == El("stars", <<"*", "*">>, {}, <<>>)
Slash == El("slash", <<"/">>, {}, <<>>)
Set(txt, set) == El("set", txt, set, <<>>)
Group(op, alts) == El("group", op, {}, alts)

\* does the sequence of elements stand for exactly s?
OneChar(s) == s = Mb \/ (Len(s) = 1 /\ s[1] \notin {"E1", "E2", "E3"})
RECURSIVE Means(_, _)
Takes(e, s) ==                         \* one element and one piece
    CASE e.k = "lit" -> s = e.txt
      [] e.k = "any" -> OneChar(s)
      [] e.k = "set" -> OneChar(s) /\ s \in e.set
      [] e.k = "star" -> TRUE
      [] e.k = "group" ->
           LET Alt(t) == \E i \in 1..Len(e.alts) : Means(e.alts[i], t)
               Again[t \in {SubSeq(s, i, Len(s)) : i \in 1..Len(s) + 1}] ==
                   t = <<>> \/ \E n \in 1..Len(t) : Alt(SubSeq(t, 1, n)) /\ Again[SubSeq(t, n + 1, Len(t))]
           IN  CASE e.txt = <<"?">> -> s = <<>> \/ Alt(s)
                 [] e.txt = <<"*">> -> Again[s]
                 [] e.txt = <<"+">> -> Alt(s) \/ (s # <<>> /\ Again[s])
                 [] e.txt \in {<<"@">>, <<>>} -> Alt(s)
                 [] e.txt = <<"!">> -> ~Alt(s)
Means(es, s) ==
    IF es = <<>> THEN s = <<>>
    ELSE \E n \in 0..Len(s) : Takes(es[1], SubSeq(s, 1, n)) /\ Means(Tail(es), From(s, n + 1))

\* how it is written: a special character that means itself is escaped
RECURSIVE Spelled(_)
SpelledOne(e) ==
    CASE e.k = "lit" -> IF xg_meta(e.txt[1]) THEN <<"\\">> \o e.txt ELSE e.txt
      [] e.k = "group" -> e.txt \o <<"(">> \o Spelled(e.alts[1])
                          \o FlattenSeq([i \in 1..Len(e.alts) - 1 |-> <<"|">> \o Spelled(e.alts[i + 1])]) \o <<")">>
      [] OTHER -> e.txt
Spelled(es) == FlattenSeq([i \in 1..Len(es) |-> SpelledOne(es[i])])
\* or quoted, a part of its own
IsQuoted(e) == e.k = "lit" /\ xg_meta(e.txt[1])
AsWord(es) ==
    FoldLeft(LAMBDA w, e : IF w # <<>> /\ Last(w).quoted = IsQuoted(e)
                           THEN [w EXCEPT ![Len(w)].text = @ \o (IF IsQuoted(e) THEN e.txt ELSE SpelledOne(e))]
                           ELSE Append(w, [text |-> IF IsQuoted(e) THEN e.txt ELSE SpelledOne(e), quoted |-> IsQuoted(e)]),
             <<>>, es)

Singles(S) == {<<c>> : c \in S}
BracketAB == Set(<<"[", "a", "b", "]">>, Singles({"a", "b"}))
Elements ==
    {Lit("a"), Lit("b"), Lit("*"), AnyOne, Star, BracketAB,
     Set(<<"[", "!", "a", "]">>, Singles({"b", "*", "-", "]"}) \cup {Mb}),
     Set(<<"[", "a", "-", "d", "]">>, Singles({"a", "b", "c", "d"})),
     Group(<<"@">>, <<<<Lit("a")>>, <<Lit("b"), Lit("a")>>>>), Group(<<"+">>, <<<<Lit("a")>>, <<AnyOne, Lit("b")>>>>),
     Group(<<"!">>, <<<<Lit("a")>>>>)}
Rare == {Wide, Lit("-"), Lit("]"), Set(<<"[", "]", "a", "]">>, Singles({"]", "a"})),
         Set(<<"[", "[", ":", "alpha", ":", "]", "-", "]">>, Singles({"a", "b", "-"}) \cup {Mb}),
         Set(<<"[", "a", "-", "]">>, Singles({"a", "-"})),
         Group(<<"?">>, <<<<Lit("a"), Star>>>>), Group(<<"*">>, <<<<Lit("*")>>, <<Lit("b")>>>>),
         Group(<<>>, <<<<Lit("a")>>, <<AnyOne, Lit("*")>>>>)}
\* a ? or * before a bare ( would make it a group of another kind, and a run of
\* stars takes the star of a group with it: see the README
Readable(es) == \A i \in 1..Len(es) - 1 :
    ~(es[i].k \in {"any", "star"} /\ es[i + 1].k = "group" /\ es[i + 1].txt = <<>>)
    /\ ~(es[i].k = "star" /\ es[i + 1].txt = <<"*">> /\ es[i + 1].k # "lit")
Patterns == {es \in {<<x>> : x \in Rare} \cup {<<x, y>> : x \in Elements \cup Rare, y \in Elements \cup Rare}
                    \cup {<<x, y, z>> : x \in Elements, y \in Elements, z \in Elements} : Readable(es)}
\* a star takes bytes, so it may split a wide character: see the README
Splits(es) == \E i \in 1..Len(es) : es[i].k = "star" \/ (es[i].k = "group" /\ es[i].txt \in {<<"!">>, <<"?">>})
Subjects(es) == {<<>>} \cup UNION {[1..n -> {"a", "b", "*"}] : n \in 1..3}
                \cup {<<"-">>, <<"]">>, <<"a", "-">>, <<"]", "a">>, <<"b", "a", "b", "a">>}
                \cup (IF Splits(es) THEN {} ELSE {Mb, <<"a">> \o Mb, Mb \o <<"b">>})
Zsh == [extglob |-> TRUE, zsh |-> TRUE, dotglob |-> FALSE, nullglob |-> FALSE, globstar |-> FALSE, nocase |-> FALSE]

-----------------------------------------------------------------------------
(* What ${v%p} and ${v/p/r} have to answer.                                *)

RefTrim(v, es, op) ==
    LET suffix == op \in {"%", "%%"}
        Left(n) == IF suffix THEN SubSeq(v, 1, Len(v) - n) ELSE From(v, n + 1)
        Gone(n) == IF suffix THEN From(v, Len(v) - n + 1) ELSE SubSeq(v, 1, n)
        fits == {n \in 0..Len(v) : Means(es, Gone(n))}
    IN  IF fits = {} THEN v ELSE Left(IF op \in {"%", "#"} THEN P!Lowest(fits) ELSE P!Highest(fits))
RECURSIVE RefAll(_, _, _, _)
RefAll(v, es, r, all) ==               \* from the left, the longest that takes something
    LET fits == {n \in 1..Len(v) : Means(es, SubSeq(v, 1, n))} IN
    CASE v = <<>> -> <<>>
      [] v # <<>> /\ fits = {} -> <<v[1]>> \o RefAll(Tail(v), es, r, all)
      [] OTHER -> r \o (IF all THEN RefAll(From(v, P!Highest(fits) + 1), es, r, all) ELSE From(v, P!Highest(fits) + 1))
RefSubst(v, es, op, r) ==
    LET heads == {n \in 0..Len(v) : Means(es, SubSeq(v, 1, n))}
        tails == {n \in 0..Len(v) : Means(es, From(v, n + 1))}
    IN  CASE op = "/#" -> IF heads = {} THEN v ELSE r \o From(v, P!Highest(heads) + 1)
          [] op = "/%" -> IF tails = {} THEN v ELSE SubSeq(v, 1, P!Lowest(tails)) \o r
          [] OTHER -> RefAll(v, es, r, op = "//")
Values == {<<>>, <<"a", "b", "a">>, <<"b", "b", "a", "b">>, <<"*", "a">>, <<"b", "]", "a", "-">>}
WideValue == Mb \o <<"a">> \o Mb

-----------------------------------------------------------------------------
(* What a word of path segments has to expand to.                          *)

RECURSIVE Segments(_)
Segments(es) ==
    IF ~\E i \in 1..Len(es) : es[i].k = "slash" THEN <<es>>
    ELSE LET i == P!Lowest({i \in 1..Len(es) : es[i].k = "slash"})
         IN  <<SubSeq(es, 1, i - 1)>> \o Segments(From(es, i + 1))
Offered(seg, name, o) == name[1] # "." \/ o.dotglob \/ seg[1] = Lit(".")
RECURSIVE Reach(_, _, _, _, _)
Below(at, fs) == {p \in DOMAIN fs : p # <<>> /\ Front(p) = at}
Reach(segs, at, text, fs, o) ==        \* the paths below at, text being how at is written
    LET seg == Head(segs)
        name == IF seg # <<>> /\ \A i \in 1..Len(seg) : seg[i].k = "lit" THEN FlattenSeq([i \in 1..Len(seg) |-> seg[i].txt]) ELSE <<>>
        Into(p, ss) == IF fs[p] = "dir" THEN Reach(ss, p, text \o Last(p) \o <<"/">>, fs, o) ELSE {}
        Shown == {p \in Below(at, fs) : Last(p)[1] # "." \/ o.dotglob}
    IN  CASE seg = <<>> -> {text}
          [] seg = <<Stars>> ->
               (IF Len(segs) > 1 THEN Reach(Tail(segs), at, text, fs, o)
                ELSE (IF text = <<>> \/ Last(text) # "/" THEN {} ELSE {text})
                     \cup {text \o Last(p) : p \in Shown})
               \cup UNION {Into(p, segs) \ (IF Len(segs) > 1 THEN {} ELSE {text \o Last(p) \o <<"/">>}) : p \in Shown}
          [] name = <<".">> -> IF Len(segs) > 1 THEN Reach(Tail(segs), at, text \o <<".", "/">>, fs, o)
                               ELSE {text \o <<".">>}
          [] name = <<".", ".">> -> IF at = <<>> THEN {}
                ELSE IF Len(segs) > 1 THEN Reach(Tail(segs), Front(at), text \o <<".", ".", "/">>, fs, o)
                ELSE {text \o <<".", ".">>}
          [] OTHER -> UNION {IF Len(segs) = 1 THEN {text \o Last(p)} ELSE Into(p, Tail(segs)) :
                             p \in {q \in Below(at, fs) : Means(seg, Last(q)) /\ Offered(seg, Last(q), o)}}
Wild(es) == \E i \in 1..Len(es) : es[i].k \in {"any", "star", "stars", "set", "group"}
Unwritten(es) == FlattenSeq([i \in 1..Len(es) |-> IF es[i].k = "lit" THEN es[i].txt ELSE SpelledOne(es[i])])
Ascending(a) == \A i \in 1..Len(a) - 1 : strcoll(a[i], a[i + 1]) < 0
RefGlob(es, fs, o, got) ==
    LET found == Reach(Segments(es), <<>>, <<>>, fs, o) IN
    IF ~Wild(es) \/ found = {} THEN got = IF Wild(es) /\ o.nullglob THEN <<>> ELSE <<Unwritten(es)>>
    ELSE ToSet(got) = found /\ Ascending(got)

NameA == <<"a">>
NameB == <<"b">>
NameAB == <<"a", "b">>
DotB == <<".", "b">>
Tree0 == {<<>>, <<NameA>>, <<NameA, NameA>>, <<NameA, NameB>>, <<NameA, DotB>>, <<NameA, NameA, NameB>>, <<NameAB>>, <<DotB>>, <<DotB, NameB>>, <<<<"*">>>>, <<<<"b", "-">>>>}
Dirs == {<<>>, <<NameA>>, <<NameA, NameA>>, <<DotB>>}
Files(es) == [p \in Tree0 \cup (IF Splits(es) THEN {} ELSE {<<Mb>>, <<NameA, Mb \o NameB>>}) |->
              IF p \in Dirs THEN "dir" ELSE IF p = <<NameAB>> THEN "link" ELSE "plain"]
PathElements == {Lit("a"), Lit("b"), Lit("*"), Lit("."), AnyOne, Star, BracketAB,
     Set(<<"[", "!", "a", "]">>, Singles({"b", "*", "-", "."}) \cup {Mb}),
     Group(<<"@">>, <<<<Lit("a")>>, <<Lit("b"), Lit("a")>>>>), Group(<<"!">>, <<<<Lit("a")>>>>)}
Short == {<<x>> : x \in PathElements \cup {Stars}} \cup {<<x, y>> : x \in {Lit("a"), Lit("."), Star, BracketAB}, y \in PathElements}
Paths == {es \in {s \o t : s \in {x \o <<Slash>> : x \in Short} \cup {<<>>, <<Lit("."), Slash>>}, t \in Short \cup {<<Slash>>, <<>>}} :
            es # <<>> /\ es[1] # Slash /\ Readable(es)
            /\ (\A i \in 1..Len(es) - 1 : es[i] # Slash \/ es[i + 1] # Slash)
            /\ (Last(es) = Slash => Stars \notin ToSet(es)) /\ Cardinality({i \in 1..Len(es) : es[i] = Stars}) < 2}
Opts == {[Zsh EXCEPT !.zsh = FALSE, !.globstar = TRUE, !.dotglob = d, !.nullglob = n] : d \in BOOLEAN, n \in BOOLEAN}

-----------------------------------------------------------------------------
(* Words: parts of which each says what it contributes, as a sequence of   *)
(* <<"c", ch>> (a character that stays), <<"s", ch>> (one that may         *)
(* split), <<"q">> (quotes: the field exists) and <<"b">> (a new field).   *)

Each(v, k) == [i \in DOMAIN v |-> <<k, v[i]>>]
Kept(v) == Each(v, "c")
Loose(v) == Each(v, "s")
Quoted(v) == <<<<"q">>>> \o Kept(v)
Between(parts) == FlattenSeq([i \in DOMAIN parts |-> IF i = 1 THEN parts[i] ELSE <<<<"b">>>> \o parts[i]])
Part(text, means) == [text |-> text, means |-> means]

IfsJoined(vs, ifs) ==
    FlattenSeq([i \in DOMAIN vs |-> IF i = 1 \/ ifs = <<>> THEN vs[i] ELSE <<ifs[1]>> \o vs[i]])
\* x is a scalar, a an array, b is not set; (c) is a command that writes s.out
Parts(s) ==                            \* the first is a bare $x, the second a letter that would extend its name
    LET x == s.vars[<<"x">>].text
        elems == A!Texts(s.vars[<<"a">>].recs)
        written == IF s.out # <<>> /\ Last(s.out) = "nl" THEN Front(s.out) ELSE s.out
        Qt(w) == <<"\"">> \o w \o <<"\"">>
        At(vs) == IF vs = <<>> THEN <<>> ELSE Between([i \in DOMAIN vs |-> Quoted(vs[i])])
        Unquoted(vs) == Between([i \in DOMAIN vs |-> Loose(vs[i])])
    IN  <<Part(<<"$", "x">>, Loose(x)), Part(<<"1">>, Kept(<<"1">>)), Part(<<"\"", "\"">>, Quoted(<<>>)), Part(<<"'", " ", "'">>, Quoted(<<" ">>)),
         Part(<<"$", "{", "x", "}">>, Loose(x)), Part(Qt(<<"$", "x">>), Quoted(x)),
         Part(<<"$", "{", "b", "}">>, <<>>), Part(Qt(<<"$", "{", "b", "}">>), Quoted(<<>>)),
         Part(<<"$", "{", "b", "-", "\"", "$", "x", "\"", "}">>, Quoted(x)),
         Part(<<"$", "{", "x", "#", "a", "}">>, Loose(IF Byte(x, 1) = "a" THEN Tail(x) ELSE x)),
         Part(<<"$", "@">>, Unquoted(s.pos)), Part(Qt(<<"$", "@">>), At(s.pos)),
         Part(Qt(<<"$", "*">>), Quoted(IfsJoined(s.pos, s.ifs))),
         Part(<<"$", "{", "a", "[", "@", "]", "}">>, Unquoted(elems)),
         Part(Qt(<<"$", "{", "a", "[", "@", "]", "}">>), At(elems)),
         Part(Qt(<<"$", "{", "a", "[", "1", "]", "}">>), Quoted(IF Len(elems) > 1 THEN elems[2] ELSE <<>>)),
         Part(Qt(<<"$", "{", "#", "a", "[", "@", "]", "}">>), Quoted(NumText(Len(elems)))),
         Part(<<"$", "(", "c", ")">>, Loose(written)), Part(Qt(<<"$", "(", "c", ")">>), Quoted(written))>>

\* POSIX 2.6.5: a white space character of IFS ends a field that has begun, any
\* other one ends a field even when it is empty, the white space around it
\* being part of the same delimiter
PosixFields(cs, ifs) ==
    LET Blank(c) == c \in {" ", "tab", "nl"}
        Keep(f, text) == [f EXCEPT !.cur = @ \o text, !.has = TRUE, !.ended = FALSE]
        End(f) == [done |-> Append(f.done, f.cur), cur |-> <<>>, has |-> FALSE, ended |-> FALSE]
        Take(f, c) ==
            CASE c[1] = "q" -> Keep(f, <<>>)
              [] c[1] = "b" -> IF f.has THEN End(f) ELSE [f EXCEPT !.ended = FALSE]
              [] c[1] = "c" \/ (c[1] = "s" /\ c[2] \notin Chars(ifs)) -> Keep(f, <<c[2]>>)
              [] c[1] = "s" /\ c[2] \in Chars(ifs) /\ Blank(c[2]) -> IF f.has THEN [End(f) EXCEPT !.ended = TRUE] ELSE f
              [] OTHER -> IF f.ended THEN [f EXCEPT !.ended = FALSE] ELSE End(f)
        f == FoldLeft(Take, [done |-> <<>>, cur |-> <<>>, has |-> FALSE, ended |-> FALSE], cs)
    IN  IF f.has THEN Append(f.done, f.cur) ELSE f.done

ValueTexts == {<<>>, <<"a">>, <<"a", " ", "b">>, <<" ", "a">>, <<"a", ":">>, <<":", "a">>, <<"a", " ", ":", " ", "b">>,
               <<"a", ":", ":", "b">>}
Lists == {<<>>, <<<<>>>>, <<<<"a">>, <<"b", " ", "b">>>>, <<<<>>, <<"a">>, <<>>>>}
NoOptions == [extglob |-> FALSE, alt |-> FALSE, zsh |-> FALSE, bareq |-> FALSE, dotglob |-> FALSE, nullglob |-> FALSE,
          globstar |-> FALSE, nocase |-> FALSE]
Shell(x, elems, pos, ifs, out) ==
    [vars |-> (<<"x">> :> A!Scalar(x)) @@ (<<"a">> :> A!arr_from_elems(elems, A!NoValue)), pos |-> pos, ifs |-> ifs,
     z |-> FALSE, nounset |-> FALSE, noglob |-> FALSE, braces |-> TRUE, o |-> NoOptions,
     fs |-> (<<>> :> "dir") @@ (<<<<"a">>>> :> "plain") @@ (<<<<"b">>>> :> "plain"), out |-> out, err |-> FALSE]
Ifs == {<<" ", "tab", "nl">>, <<" ", ":">>, <<":">>, <<>>}
PartSeqs == {k \in UNION {[1..n -> 1..19] : n \in 1..ItemsMax} : \A i \in 1..Len(k) - 1 : <<k[i], k[i + 1]>> # <<1, 2>>}
FieldItems == [x : ValueTexts, list : Lists, ifs : Ifs, parts : PartSeqs]
ShellOf(i) == Shell(i.x, i.list, i.list, i.ifs, i.x \o <<"nl">>)
PartsOf(i) == LET p == Parts(ShellOf(i)) IN [k \in DOMAIN i.parts |-> p[i.parts[k]]]
WordOf(parts) == FlattenSeq([k \in DOMAIN parts |-> parts[k].text])
MeansOf(parts) == FlattenSeq([k \in DOMAIN parts |-> parts[k].means])

\* words that a short cut may take, and words that look like it
FastParts == {<<"1">>, <<"a", "*">>, <<"[">>, <<"$", "x">>, <<"\"", "$", "x", "\"">>, <<"$", "{", "x", "}">>, <<"$", "b">>,
              <<"\"", "1", "*", "\"">>, <<"'", " ", "'">>, <<"\"", "\"">>, <<"{", "1", ",", "2", "}">>, <<"$", "(", "(", "2", ")", ")">>,
              <<"$", "a">>, <<"~">>, <<"\\", "a">>}
FastValues == {<<>>, <<"a">>, <<"a", " ", "b">>, <<"*">>, <<"[", "a", "]">>, <<"?", ":">>, <<"{", "1", ",", "2", "}">>, <<"$", "b">>}
FastWords == FastParts \cup {u \o v : u \in FastParts, v \in FastParts}
FastItems == [x : FastValues, list : {<<>>, <<<<"b">>>>}, ifs : {<<" ", "tab", "nl">>, <<":">>, <<>>},
              nounset : BOOLEAN, noglob : BOOLEAN, w : FastWords]
FastShell(i) == [Shell(i.x, i.list, <<>>, i.ifs, <<>>) EXCEPT !.nounset = i.nounset, !.noglob = i.noglob]

-----------------------------------------------------------------------------
(* Assignments to a variable: the code's value val, and the reference: a   *)
(* kind and a function from indices or keys to texts.                      *)

Subs == {<<"0">>, <<"1">>, <<"3">>, <<"-", "1">>}
NewTexts == {<<"a">>, <<>>}
ElemLists == {<<>>, <<<<"a">>, <<>>>>, <<<<"[", "2", "]", "=", "b">>, <<"a">>>>}
Ref(is, f) == [is |-> is, f |-> f]
NoRef == Ref("unset", <<>>)
RefIndex(z, t, f) == LET n == A!arith_num(t)
                     IN  IF n < 0 THEN n + Cardinality(DOMAIN f) ELSE IF z THEN n - 1 ELSE n
Put(r, k, v) == Ref(IF r.is = "assoc" THEN "assoc" ELSE "array", (k :> v) @@ r.f)
At(r, k) == IF k \in DOMAIN r.f THEN r.f[k] ELSE <<>>
Top(f) == IF DOMAIN f = {} THEN -1 ELSE CHOOSE k \in DOMAIN f : \A j \in DOMAIN f : j <= k
RefElems(base, elems) ==               \* a=(elems), base being what is kept
    FoldLeft(LAMBDA acc, e :
        LET p == A!parse_sub_elem(e)
            k == IF p = {} THEN acc.next ELSE IF base.is = "assoc" THEN One(p)[1] ELSE A!arith_num(One(p)[1])
        IN  IF base.is = "assoc" /\ p = {} THEN acc
            ELSE [r |-> Put(acc.r, k, IF p = {} THEN e ELSE One(p)[2]), next |-> IF base.is = "assoc" THEN 0 ELSE k + 1],
        [r |-> Ref(IF base.is = "assoc" THEN "assoc" ELSE "array", base.f),
         next |-> IF base.is = "assoc" THEN 0 ELSE Top(base.f) + 1], elems).r
RefSplice(r, lo, hi, elems) ==         \* as a dense list: what is before, the new, what is after
    LET dense == [i \in 1..(IF r.is = "array" THEN Top(r.f) + 1 ELSE 0) |-> At(r, i - 1)]
        before == [i \in 1..lo |-> IF i <= Len(dense) THEN dense[i] ELSE <<>>]
        list == before \o elems \o From(dense, (IF hi < lo THEN lo ELSE hi + 1) + 1)
    IN  Ref("array", [k \in 0..Len(list) - 1 |-> list[k + 1]])

Took(out, r) == val' = out.val /\ ref' = (IF out.ok THEN r ELSE ref)
AssignCompound(z, elems, append, assoc) ==
    /\ ~(z /\ A!has_subscript(elems)) /\ ~(append /\ val.is = "scalar" /\ A!has_subscript(elems))
    /\ assoc => val.is \in {"unset", "assoc"}
    /\ LET is == IF assoc \/ val.is = "assoc" THEN "assoc" ELSE "array"
       IN  Took(A!build_array_value(val, elems, append, assoc),
                RefElems(Ref(is, IF append THEN ref.f ELSE <<>>), elems))
AssignElem(z, t, v, append) ==
    LET k == IF val.is = "assoc" THEN t ELSE RefIndex(z, t, IF val.is = "array" THEN ref.f ELSE <<>>)
        add == append /\ val.is # "scalar"   \* see ElementAppends
    IN  Took(A!subscript_assign(z, val, t, v, append), Put(ref, k, IF add THEN At(ref, k) \o v ELSE v))
AssignScalar(v, append) ==
    LET k == IF val.is = "assoc" THEN <<"0">> ELSE 0
        nv == IF append THEN At(ref, k) \o v ELSE v
    IN  Took(A!Good(A!keep_array_shape(val, IF append THEN A!scalar_append(val, v) ELSE v)),
             IF val.is \in {"array", "assoc"} THEN Put(ref, k, nv) ELSE Ref("scalar", 0 :> nv))
UnsetElem(z, t) ==
    /\ ~z /\ val.is \in {"array", "assoc"} /\ t[1] # "-"
    /\ Took(A!unset_array_elem(val, t),
            LET k == IF val.is = "assoc" THEN t ELSE A!arith_num(t)
            IN  Ref(ref.is, [i \in DOMAIN ref.f \ {k} |-> ref.f[i]]))
AssignSlice(z, t, elems) ==
    /\ z /\ val.is = "array"             \* what is no array is not padded: see the README
    /\ LET r == One(A!zsh_slice_bounds(z, t, val)) IN r.lo <= r.hi \/ r.lo <= A!arr_max_idx(val)
    /\ LET r == One(A!zsh_slice_bounds(z, t, val))
       IN  IF Len(elems) = 1
           THEN Took(A!subscript_assign(z, val, t, elems[1], FALSE),
                     IF r.lo < 0 THEN RefSplice(ref, 0, -1, <<>>) ELSE RefSplice(ref, r.lo, r.hi, elems))
           ELSE Took(A!splice_elem_assign(z, val, t, elems), RefSplice(ref, r.lo, r.hi, elems))

-----------------------------------------------------------------------------
Env == [x \in {"v", "w", "t", "x", "i"} |->
          CASE x = "t" -> E!Array(<<3, 1, 2>>) [] x = "w" -> E!Text(<<"x">>) [] OTHER -> E!Number(IF x = "v" THEN 3 ELSE 1)]

Init == /\ asked = 0 /\ val = A!NoValue /\ ref = NoRef
        /\ \/ kind = "expression" /\ item \in E!Trees
           \/ kind = "pattern" /\ item \in Patterns
           \/ kind = "path" /\ item \in Paths
           \/ kind = "braces" /\ item \in BraceWords
           \/ kind = "fields" /\ item \in FieldItems
           \/ kind = "fast" /\ item \in FastItems
           \/ kind = "store" /\ item \in BOOLEAN
Expand == /\ kind # "store" /\ asked = 0 /\ asked' = 1
          /\ UNCHANGED <<kind, item, val, ref>>
Write == /\ kind = "store" /\ asked < WritesMax /\ asked' = asked + 1
         /\ UNCHANGED <<kind, item>>
         /\ \/ \E e \in ElemLists, append, assoc \in BOOLEAN : AssignCompound(item, e, append, assoc)
            \/ \E t \in Subs, v \in NewTexts, append \in BOOLEAN : AssignElem(item, t, v, append)
            \/ \E v \in NewTexts, append \in BOOLEAN : AssignScalar(v, append)
            \/ \E t \in Subs : UnsetElem(item, t)
            \/ \E t \in {<<"1", ",", "2">>, <<"3", ",", "2">>, <<"-", "1", ",", "-", "1">>},
                  e \in {<<>>, <<<<"b">>>>, <<<<"a">>, <<"b">>>>} : AssignSlice(item, t, e)
Next == Expand \/ Write
Spec == Init /\ [][Next]_vars

-----------------------------------------------------------------------------
\* the code of arith/ gives an expression the value its tree has, with the side
\* effects C gives it and no other, and an error exactly when C's operators have
\* no answer; an expression read again from the cache gives the same
DeadSubscript(e) ==                    \* a subscript that C would skip: see the README
    e.k \in {"and", "or", "tern"} /\ \E i \in 2..Len(e.c) : e.c[i].k = "elem" /\ e.c[i].c[1].k \in {"pre", "post"}
ExpressionsMean ==
    kind = "expression" /\ ~DeadSubscript(item) =>
    LET want == E!Value(item, Env)
        got == E!arith_eval(E!Written(item), Env)
        again == E!arith_eval_cached(E!Written(item), Env)
    IN  /\ got.err = want.err
        /\ ~want.err => got.v = want.v /\ got.env = want.env
        /\ again.err = got.err /\ again.v = got.v /\ again.env = got.env

\* case and [[ = ]] match a text exactly when the pattern stands for it
PatternsMean ==
    kind = "pattern" => \A t \in Subjects(item) : case_match(t, Spelled(item), Zsh) = Means(item, t)

\* ${v%p} ${v%%p} ${v#p} ${v##p} take off the shortest or the longest end that
\* the pattern stands for, nothing when there is none
TrimsMean ==
    kind = "pattern" =>
    \A v \in Values \cup (IF Splits(item) THEN {} ELSE {WideValue}), op \in {"%", "%%", "#", "##"} :
        P!expand_trim({v}, op, Spelled(item), Zsh) = RefTrim(v, item, op)

\* ${v/p/r} and its kin replace the leftmost longest match, every one of them, or
\* the one at an end
Fused(es) == es[1].k = "group" /\ es[1].txt \in {<<>>, <<"*">>}
SubstsMean ==
    kind = "pattern" /\ ~Fused(item) =>
    \A v \in Values, op \in {"/", "//", "/#", "/%"} :
        P!expand_subst({v}, op, Spelled(item), <<"x">>, Zsh) = RefSubst(v, item, op, <<"x">>)

\* a word with wildcards becomes exactly the paths that it stands for, in order,
\* and itself (or nothing) when there is none
GlobFinds ==
    kind = "path" => \A o \in Opts : RefGlob(item, Files(item), o, expand_word_glob(AsWord(item), Files(item), o))

\* a word with braces becomes every choice of its alternatives, the leftmost
\* varying slowest, and nothing else of the word is touched
BracesMean ==
    kind = "braces" /\ EmptyFirst(item) =>
    brace_expand_str(WordText(item)) = SelectSeq(WordMeans(item), LAMBDA w : w # <<>>)

\* the fields a command gets are the ones POSIX cuts out of what the parts of
\* the word contribute, however the parts are arranged
LateDelimiter(parts, ifs) ==           \* text, then blanks and a delimiter: see the README
    \E k \in 2..Len(parts) : LET m == parts[k].means IN
        \E n \in 2..Len(m) : /\ \A j \in 1..n - 1 : m[j][1] = "s" /\ is_ws_ifs(m[j][2], ifs)
                             /\ m[n][1] = "s" /\ is_nw_ifs(m[n][2], ifs)
FieldsSplit ==
    kind = "fields" =>
    LET parts == PartsOf(item) IN
    LateDelimiter(parts, item.ifs)
    \/ expand_word_ro(ShellOf(item), tokens_of(WordOf(parts)), FALSE).args = PosixFields(MeansOf(parts), item.ifs)

\* a short cut is never taken where the whole expansion would answer otherwise
FastPathAgrees ==
    kind = "fast" =>
    LET s == FastShell(item)
        toks == tokens_of(item.w)
    IN  /\ expand_word_ro(s, toks, FALSE) = expand_word(s, toks, FALSE)
        /\ expand_word_assign_ro(s, toks) = expand_word_glob_ctl(s, toks, TRUE, TRUE)

\* after any sequence of assignments the records of an array stand for the function
\* the assignments describe, in ascending order, and every way to read it agrees
StoreIsFunction ==
    kind = "store" =>
    /\ val.is = ref.is
    /\ val.is = "scalar" => val.text = ref.f[0]
    /\ val.is \in {"array", "assoc"} =>
         /\ DOMAIN ref.f = {val.recs[i][1] : i \in DOMAIN val.recs} /\ Len(val.recs) = Cardinality(DOMAIN ref.f)
         /\ \A i \in DOMAIN val.recs : val.recs[i][2] = ref.f[val.recs[i][1]]
    /\ val.is = "array" =>
         /\ \A i \in 1..Len(val.recs) - 1 : val.recs[i][1] < val.recs[i + 1][1]
         /\ \A i \in 0..4 : A!arr_get_idx(val, i) = IF i \in DOMAIN ref.f THEN {ref.f[i]} ELSE {}

=============================================================================
