------------------------------ MODULE MCSyntax ------------------------------
(***************************************************************************)
(* From text to tree.  A behaviour starts from one input: a program and    *)
(* its text, a word with nested quotes and expansions, a string of         *)
(* operator characters, or lines with here-documents; a step damages the   *)
(* program, and the last one reads the text.  The properties compare what  *)
(* the stages make of a text that is read.                                 *)
(***************************************************************************)
EXTENDS Parser, TLC

CONSTANTS WordDepth, CharsMax, LinesMax

Lx == INSTANCE Lexer
Rp == INSTANCE Reparse
Hd == INSTANCE Heredoc WITH HDOC_PIPE_MAX <- 2
Ht == INSTANCE HistoryText
Al == INSTANCE AliasScan WITH ScanDepth <- 16, HdMax <- 8

VARIABLES kind, prog, text
vars == <<kind, prog, text>>

None == Leaf("none", "")

-----------------------------------------------------------------------------
(* The reference the parser is checked against: abstract programs, built   *)
(* from the grammar outward, and the text each one is written as.  The     *)
(* parser must read that text back to the same tree.                       *)

W(v) == Leaf("word", v)
Op(v) == Leaf("op", v)
Simple(c) == Node("simple", "", c)
Cmd(c) == Node("command", "", c)
Pipe(v, cs) == Node("pipeline", v, [i \in 1..Len(cs) |-> Cmd(cs[i])])
One(n) == Pipe("", <<<<n>>>>)
List(c) == Node("list", "", c)

a == Simple(<<W("a")>>)
Read == Node("redirect", "<", <<W("f")>>)
Sub == Node("procsub", "<(", <<Leaf("tok", "a"), Leaf("tok", "b")>>)
Simples == {a, Simple(<<W("a"), W("if"), Read>>), Simple(<<W("a"), Sub>>),
            Simple(<<Node("array", "x=", <<W("a"), W("b")>>), W("a")>>),
            Simple(<<Node("redirect", "<", <<Sub>>), W("a")>>)}

Ends == {";", "nl", "&"}
Closed(n) == {List(<<One(n), Op(e)>>) : e \in Ends}
Lists(n) == Closed(n) \cup {List(<<One(n), Op(o), One(a), Op(";")>>) : o \in {"&&", "nl", ";"}}
La == List(<<One(a), Op(";")>>)
Lb == List(<<One(a), Op("nl")>>)

\* every compound command around one list, the other lists fixed
Compounds(l) ==
    {Node("if", "", c) : c \in {<<l, La>>, <<La, l>>, <<La, Lb, l>>, <<La, La, l, Lb>>,
                                <<La, l, La, La, Lb>>}}
    \cup {Node(k, "", c) : k \in {"while", "until"}, c \in {<<l, La>>, <<Lb, l>>}}
    \cup {Node(k, "i", c) : k \in {"for", "select"},
             c \in {<<l>>, <<Leaf("in", "in"), l>>, <<Leaf("in", "in"), W("a"), W("do"), l>>}}
    \cup {Node("for_arith", "", <<Leaf("tok", ";"), Leaf("tok", "("), Leaf("tok", "a"),
               Leaf("tok", ")"), Leaf("tok", ";"), l>>)}
    \cup {Node("arith", "", <<Leaf("tok", "a")>>)}
    \cup {Node("case", "", <<W("a"), Node("item", t, <<W("a"), W("b"), l>>),
                             Node("item", "", <<W("b"), e>>)>>) :
             t \in {";;", ";&", ";;&"}, e \in {La, l}}
    \cup {Node("case", "", <<W("a"), Node("item", ";;", <<W("if"), List(<<>>)>>)>>)}
    \cup {Node("subshell", "", <<l>>), Node("brace", "", <<l>>)}
    \cup {Node("function", "f", <<l>>)}
    \cup {Node("coproc", v, <<Cmd(<<Node("brace", "", <<l>>)>>)>>) : v \in {"", "p"}}
Inner == {Node("if", "", <<La, Lb>>), Node("brace", "", <<La>>), Node("subshell", "", <<Lb>>),
          Node("while", "", <<La, La>>), Node("function", "f", <<La>>),
          Node("case", "", <<W("a"), Node("item", ";;", <<W("a"), La>>)>>)}

Level1 == Simples \cup UNION {Compounds(l) : l \in Lists(a)}
Level2 == UNION {Compounds(l) : l \in UNION {Closed(n) : n \in Inner}}
Pipelines ==
    {Pipe(v, <<<<n>>>>) : v \in {"", "!"}, n \in Level1}
    \cup {One(n) : n \in Level2}
    \cup {Pipe("", <<<<n, Read>>>>) : n \in {m \in Level1 : m.k \notin {"simple", "coproc", "function"}}}
    \cup {Pipe("", <<<<m>>, <<n>>>>) : m \in Simples \cup Inner, n \in Simples \cup Inner}
    \cup {Node("pipeline", "!", <<>>)}
Programs ==
    {Node("prog", "", <<p, Op("nl")>>) : p \in Pipelines}
    \cup {Node("prog", "", <<One(m), Op(o), One(n), Op("nl")>>) :
             m \in Simples \cup Inner, o \in {"&&", "||", ";", "&", "nl"}, n \in Simples \cup Inner}

-----------------------------------------------------------------------------
(* The text of a program.  A reserved word that would read as an argument  *)
(* is set off by the separators the lists already carry.                   *)

Flat(ss) == FoldLeft(\o, <<>>, ss)
Join(ss, x) == FoldLeft(LAMBDA s, t : IF s = <<>> THEN t ELSE s \o <<x>> \o t, <<>>, ss)

RECURSIVE Text(_)
Text(n) ==
    LET T == [i \in 1..Len(n.c) |-> Text(n.c[i])]
        From(i) == Flat(SubSeq(T, i, Len(T)))
        Loop(i) == <<"do">> \o From(i) \o <<"done">>
        ins == {i \in 1..Len(n.c) : n.c[i].k = "in"}
    IN
    CASE n.k \in {"word", "op", "tok", "name", "in"} -> <<n.v>>
      [] n.k \in {"simple", "command", "list", "prog"} -> Flat(T)
      [] n.k = "redirect" -> <<n.v>> \o Flat(T)
      [] n.k = "procsub" -> <<"<(">> \o Flat(T) \o <<")">>
      [] n.k = "array" -> <<n.v, "(">> \o Flat(T) \o <<")">>
      [] n.k = "pipeline" -> (IF n.v = "!" THEN <<"!">> ELSE <<>>) \o Join(T, "|")
      [] n.k = "arith" -> <<"((">> \o Flat(T) \o <<")", ")">>
      [] n.k = "for_arith" -> <<"for", "((">> \o Flat(Front(T)) \o <<")", ")", ";">> \o Loop(Len(T))
      [] n.k \in {"while", "until"} -> <<n.k>> \o T[1] \o Loop(2)
      [] n.k \in {"for", "select"} ->
           <<n.k, n.v>> \o Flat(Front(T)) \o (IF ins = {} THEN <<"nl">> ELSE <<";">>) \o Loop(Len(T))
      [] n.k = "if" ->
           <<"if">> \o T[1] \o <<"then">> \o T[2]
           \o Flat([j \in 1..((Len(T) - 1) \div 2) |->
                    IF 2 * j + 2 <= Len(T) THEN <<"elif">> \o T[2*j+1] \o <<"then">> \o T[2*j+2]
                    ELSE <<"else">> \o T[2*j+1]])
           \o <<"fi">>
      [] n.k = "case" -> <<"case">> \o T[1] \o <<"in">> \o From(2) \o <<"esac">>
      [] n.k = "item" -> Join(Front(T), "|") \o <<")">> \o Last(T)
                         \o (IF n.v = "" THEN <<>> ELSE <<n.v, "nl">>)
      [] n.k = "subshell" -> <<"(">> \o Flat(T) \o <<")">>
      [] n.k = "brace" -> <<"{">> \o Flat(T) \o <<"}">>
      [] n.k = "function" -> <<n.v, "(", ")", "{">> \o Flat(T) \o <<"}">>
      [] n.k = "coproc" -> <<"coproc">> \o (IF n.v = "" THEN <<>> ELSE <<n.v>>) \o Flat(T)

-----------------------------------------------------------------------------
(* Words, built from the inside out.  ctx says which characters are        *)
(* special where the word will stand.                                      *)

InQuotes(ctx) == ctx \in {"dq", "dqbrace"}
Pieces(ctx) ==
    {<<"a">>, <<"\\", ")">>, <<"\\", "\"">>, <<"$", "a">>, <<"bq", "a", " ", "a", "bq">>}
    \cup (IF InQuotes(ctx) THEN {} ELSE {<<"'", ")", "'">>, <<"'", "}", "'">>})
    \cup (IF ctx \in {"top", "sub"} THEN {<<"'", "\"", "'">>} ELSE {})
    \cup (IF ctx = "top" THEN {<<"$", "'", "\\", "'", "'">>} ELSE {})
    \cup (IF ctx = "dq" THEN {<<")">>, <<"}">>} ELSE {})
RECURSIVE Gen(_, _)
Gen(depth, ctx) ==
    Pieces(ctx) \cup
    IF depth = 0 THEN {} ELSE
    {<<"$", "(">> \o w \o <<")">> : w \in Gen(depth - 1, "sub")}
    \cup {<<"$", "(", "(">> \o w \o <<")", ")">> : w \in Gen(depth - 1, "sub")}
    \cup {<<"$", "{", "a", "-">> \o w \o <<"}">> :
             w \in Gen(depth - 1, IF InQuotes(ctx) THEN "dqbrace" ELSE "brace")}
    \cup {<<"$", "{", "a", "%">> \o w \o <<"}">> : w \in Gen(depth - 1, "brace")}
    \cup (IF ctx = "dq" THEN {} ELSE {<<"\"">> \o w \o <<"\"">> : w \in Gen(depth - 1, "dq")})
    \cup (IF InQuotes(ctx) THEN {} ELSE
          {<<"$", "(", "case", " ", "a", " ", "in", " ", "a", ")">> \o w
                \o <<" ", ";", ";", " ", "esac", ")">> : w \in Gen(depth - 1, "sub")})
Words == Gen(WordDepth, "top")

Chars == {"a", "1", " ", "nl", "<", ">", "&", "|", ";", "(", "-"}
Strings == UNION {[1..n -> Chars] : n \in 1..CharsMax}

-----------------------------------------------------------------------------
(* Lines with here-documents, and the tree a shell would have made of them *)

HdLines == {<<"w">>, <<"<<A">>, <<"<<A", "<<-B">>, <<"q">>, <<"q", "<<A">>, <<"<<'B'", "q">>,
            <<"A">>, <<"tab", "B">>, <<"w", "\\">>}
Texts == UNION {[1..n -> HdLines] : n \in 1..LinesMax}
BodyChars == {"$", "\\", "bq", "x", "{", "}", "nl"}
Redirs(ops) == [i \in 1..Len(ops) |-> [k |-> "hd", op |-> ops[i]]]
Word == [k |-> "word", c |-> <<>>]
Shapes(ops) == {[k |-> "simple", c |-> <<Word>> \o Redirs(ops)],
                [k |-> "function", c |-> <<[k |-> "simple", c |-> Redirs(ops) \o <<Word>>]>>],
                [k |-> "pipeline", c |-> <<[k |-> "loop", c |-> Redirs(ops)]>>]}

-----------------------------------------------------------------------------
Init == \/ kind = "prog" /\ prog \in Programs /\ text = Text(prog)
        \/ kind = "word" /\ prog = None /\ text \in Words
        \/ kind = "chars" /\ prog = None /\ text \in Strings
        \/ kind = "body" /\ prog = None /\ text \in UNION {[1..n -> BodyChars] : n \in 1..CharsMax}
        \/ kind = "lines" /\ prog = None /\ text \in Texts
Drop == /\ kind = "prog"
        /\ \E i \in 1..Len(text) - 1 : text' = RemoveAt(text, i)
        /\ kind' = "damaged" /\ prog' = None
ReadText == /\ kind # "read" /\ kind' = "read"
            /\ prog' = None /\ text' = <<>>
Next == Drop \/ ReadText
Spec == Init /\ [][Next]_vars

Parsed == parse_tokens(text, FALSE)
\* a program is read back as it was written, in one go or range by range, and a
\* damaged one that still parses keeps every word
WordsOf(xs) == SelectSeq(xs, LAMBDA x : x \notin Operators)
RoundTrip ==
    /\ kind = "prog" => Parsed.res = "ok" /\ Parsed.c = Front(prog.c) \o <<Op("nl")>>
    /\ kind \in {"prog", "damaged"} =>
         LET r == parse_tokens_range(text, FALSE) IN
         r.res = Parsed.res /\ (Parsed.res = "ok" =>
            r.c = Parsed.c /\ WordsOf(Text(Node("prog", "", Parsed.c))) = WordsOf(text))
\* the lines of a good program, typed one by one, never make a syntax error
MoreNotError ==
    kind \in {"prog", "damaged"} /\ Parsed.res = "ok" =>
    \A i \in 1..Len(text) : text[i] = "nl" => parse_tokens(SubSeq(text, 1, i), FALSE).res # "err"

\* where a span ends: the lexer, the bounded skipper and the re-parser agree
Whole(s) == <<"word", 1, Len(s) + 1>>
SpansAgree ==
    kind = "word" =>
    /\ Lx!tokenize(text).out = <<Lx!Tokn("word", 1, Len(text) + 1)>>
    /\ text[1] \in {"\"", "'", "bq"} \/ (text[1] = "$" /\ text[2] \in {"(", "{"}) =>
         /\ Lx!span_skip(text, 1) = Len(text) + 1
         /\ Rp!reparse_step([i |-> 1, out |-> <<>>], text).i = Len(text) + 1

\* an operator is the longest one that fits; after a number <( is no substitution
OpChars == {"<", ">", "&", "|", ";", "("}
OpStrings == {<<"<">>, <<">">>, <<"<", "<">>, <<"<", "<", "<">>, <<"<", "<", "-">>, <<"<", "&">>, <<"<", ">">>,
              <<"<", "(">>, <<">", ">">>, <<">", "&">>, <<">", "|">>, <<">", "(">>, <<"&">>, <<"&", "&">>,
              <<"&", ">">>, <<"&", ">", ">">>, <<"|">>, <<"|", "|">>, <<";">>, <<";", ";">>,
              <<";", "&">>, <<";", ";", "&">>, <<"(">>, <<"(", "(">>}
Munch(s, t) ==
    LET From(n) == SubSeq(s, t.from + n, Len(s))
        Fits(n) == {o \in OpStrings : IsPrefix(o, From(n))}
        n == Lx!io_number_len(s, t.from)
        size == t.to - t.from - n
    IN  t.tt # "word" /\ s[t.from + n] \in OpChars =>
          /\ SubSeq(s, t.from + n, t.to - 1) \in OpStrings
          /\ \A o \in Fits(n) : Len(o) > size => n > 0 /\ Last(o) = "("
TokensExact ==
    kind = "chars" =>
    LET l == Lx!tokenize(text)
        covered == UNION {l.out[k].from..l.out[k].to - 1 : k \in 1..Len(l.out)}
    IN  /\ Lx!lex_lines(Lx!Lexing, text).out = l.out
        /\ \A k \in 1..Len(l.out) : Munch(text, l.out[k])
        /\ \A i \in 1..Len(text) : i \in covered \/ text[i] \in {" ", "nl"}

\* the bodies leave the text in the order of their operators, each line of it
\* stays or leaves an empty one behind, and the walk over the tree gives every
\* operator exactly its own body, whoever reads it
Kept(t, w) ==
    LET removed == {i \in 1..Len(t) : w.stripped[i] # t[i]}
    IN  /\ Len(w.stripped) = Len(t) /\ \A i \in removed : w.stripped[i] = <<>>
        /\ w.bodies = FoldLeft(LAMBDA b, i : IF i \in removed THEN Append(b, t[i]) ELSE b, <<>>, [i \in 1..Len(t) |-> i])
OpsOf(t) == LET c == Hd!collect_specs(t, 1) IN [k \in 1..Len(c) |-> c[k].op]
Ended(f, op) == f # <<>> /\ Last(f) = "nl"
HeredocBodies ==
    kind = "lines" /\ ~Hd!heredoc_incomplete(text) =>
    LET w == Hd!split_heredocs(text)
        ops == OpsOf(text)
    IN  /\ Kept(text, w)
        /\ Hd!tokenizer(FoldLeft(\o, <<>>, w.stripped)).ops = ops
        /\ \A tree \in Shapes(ops), extracted \in BOOLEAN, buffered \in BOOLEAN :
             LET g == Hd!gather_heredocs([src |-> w.bodies, in_func |-> FALSE, extracted |-> extracted,
                                          buffered |-> buffered, got |-> <<>>], tree)
             IN  "\\" \notin {Last(l) : l \in {w.bodies[i] : i \in 1..Len(w.bodies)} \ {<<>>}} =>
                 /\ [k \in 1..Len(g.got) |-> g.got[k].op] = ops
                 /\ g.src = <<>>
                 /\ Len(w.bodies) = Len(ops)
                      + Len(SelectSeq(FoldLeft(\o, <<>>, [k \in 1..Len(g.got) |-> g.got[k].file]),
                                      LAMBDA x : x = "nl"))
\* quoting a body's special characters gives the body back
Quote(t) == FoldLeft(LAMBDA q, c : q \o (IF c \in {"$", "\\", "bq"} THEN <<"\\", c>> ELSE <<c>>), <<>>, t)
BodyQuoted == kind = "body" => /\ Hd!expand_line(Quote(text)) = text
                               /\ Hd!expand_line(Quote(text) \o <<"\\", "nl">>) = text

\* aliases are expanded exactly where a command starts, and never twice
AliasTable == [n \in {"a", "b"} |-> IF n = "a" THEN <<"b", " ", "w">> ELSE <<"a", " ", "v">>]
RECURSIVE CharsOf(_)
CharsOf(ts) == IF ts = <<>> THEN <<>> ELSE
    LET Two(x, y) == <<x, y, " ">>
        t == Head(ts)
    IN  (CASE t = "&&" -> Two("&", "&") [] t = "||" -> Two("|", "|") [] t = ";;" -> Two(";", ";")
           [] t = ";&" -> Two(";", "&") [] t = "((" -> Two("(", "(") [] t = "<(" -> Two("<", "(") [] t = ";;&" -> <<";", ";", "&", " ">>
           [] t = "nl" -> <<"nl">> [] OTHER -> <<t, " ">>) \o CharsOf(Tail(ts))
RECURSIVE Substituted(_), Without(_, _)
Substituted(n) ==
    IF n.k = "simple" /\ n.c[1].k = "word" /\ n.c[1].v \in {"a", "b"}
    THEN [n EXCEPT !.c = (IF n.c[1].v = "a" THEN <<W("a"), W("v"), W("w")>>
                          ELSE <<W("b"), W("w"), W("v")>>) \o Tail(n.c)]
    ELSE [n EXCEPT !.c = [i \in 1..Len(n.c) |-> Substituted(n.c[i])]]
Without(n, ks) == n.k \notin ks /\ \A i \in 1..Len(n.c) : Without(n.c[i], ks)
Unspaced(t) == SelectSeq(t, LAMBDA c : c # " ")
AliasOnlyCommands ==
    kind = "prog" /\ Without(prog, {"array", "procsub", "arith", "for_arith"}) =>
    Unspaced(Al!alias_scan_line(AliasTable, CharsOf(text))) = Unspaced(CharsOf(Text(Substituted(prog))))
\* a command of several lines, recalled from the history as the one line it was
\* joined to, is the same command; under lithist it is the same text
Spelt(cs) ==                           \* the tokens the characters between two blanks make
    LET Glue(w) == CASE w = <<"&", "&">> -> "&&" [] w = <<"|", "|">> -> "||" [] w = <<";", ";">> -> ";;"
                     [] w = <<";", "&">> -> ";&" [] w = <<";", ";", "&">> -> ";;&" [] w = <<"(", "(">> -> "(("
                     [] w = <<"<", "(">> -> "<(" [] OTHER -> w[1]
        End(f) == IF f.w = <<>> THEN f ELSE [out |-> Append(f.out, Glue(f.w)), w |-> <<>>]
        Take(f, c) == CASE c = " " -> End(f)
                        [] c = "nl" -> [End(f) EXCEPT !.out = Append(@, "nl")]
                        [] OTHER -> [f EXCEPT !.w = Append(@, c)]
    IN  End(FoldLeft(Take, [out |-> <<>>, w |-> <<>>], cs)).out
RECURSIVE OneLined(_)
OneLined(n) == IF n = Op("nl") THEN Op(";") ELSE [n EXCEPT !.c = [i \in 1..Len(n.c) |-> OneLined(n.c[i])]]
Stored(cmds) == Ht!parse_hist_file(FoldLeft(LAMBDA f, cmd : f \o Ht!encode_cmd_hist(cmd), <<>>, cmds))
Named(cmds, i) ==                      \* the ways to name entry i
    LET Digit(n) == CASE n = 1 -> "1" [] n = 2 -> "2" IN
    {<<"!", Digit(i)>>, <<"!", "-", Digit(Len(cmds) + 1 - i)>>}
    \cup (IF i = Len(cmds) THEN {<<"!", "!">>} ELSE {})
RecalledSame ==
    /\ kind \in {"prog", "damaged"} /\ Len(text) > 1 /\ Parsed.res = "ok" =>
         LET typed == CharsOf(Front(text))
             again == parse_tokens(Append(Spelt(Stored(<<Ht!hist_join_line(typed, FALSE)>>)[1]), "nl"), FALSE)
         IN  /\ again.res = "ok" /\ [i \in 1..Len(again.c) |-> OneLined(again.c[i])] = [i \in 1..Len(Parsed.c) |-> OneLined(Parsed.c[i])]
             /\ Stored(<<Ht!hist_join_line(typed, TRUE)>>) = <<typed>>
    /\ kind = "body" =>
         LET cmds == <<text, <<"x">>>> IN
         /\ Stored(cmds) = cmds
         /\ \A i \in 1..2 : /\ \A w \in Named(cmds, i) : Ht!expand_history(cmds, w \o <<" ", "x">>) = {cmds[i] \o <<" ", "x">>}
                            /\ \E found \in Ht!expand_history(cmds, <<"!", "?", cmds[i][1], "?">>) : cmds[i][1] \in {found[k] : k \in DOMAIN found}
                            /\ Ht!fc_list(cmds, FALSE, <<[is |-> "num", num |-> i - 3, text |-> <<>>]>>, FALSE) = {[k \in 1..3 - i |-> i + k - 1]}
=============================================================================
