------------------------------- MODULE Heredoc -------------------------------
(***************************************************************************)
(* Here-documents (src/heredoc).  A text is a sequence of lines, a line a  *)
(* sequence of atoms: "w" is text, "q" a quote character that opens or     *)
(* closes a span, "\\" (last on its line) a line continuation, "tab" a tab *)
(* and "<<A", "<<-B", "<<'B'" are operators: the delimiter, whether its    *)
(* leading tabs go, and whether it was quoted (no expansion).  A body      *)
(* travels three ways: extracted from the whole input (split_heredocs),    *)
(* captured raw onto the node and expanded later, or read from the input   *)
(* directly (write_heredoc).                                               *)
(***************************************************************************)
EXTENDS Naturals, Sequences, FiniteSets, SequencesExt

CONSTANT HDOC_PIPE_MAX                 \* in atoms

OpAtoms == {"<<A", "<<-B", "<<'B'"}
OpOf(x) == CASE x = "<<A" -> [d |-> "A", dash |-> FALSE, quoted |-> FALSE]
             [] x = "<<-B" -> [d |-> "B", dash |-> TRUE, quoted |-> FALSE]
             [] x = "<<'B'" -> [d |-> "B", dash |-> FALSE, quoted |-> TRUE]

RECURSIVE no_tabs(_)
no_tabs(line) == IF line # <<>> /\ Head(line) = "tab" THEN no_tabs(Tail(line)) ELSE line
is_delim_line(line, op) == (IF op.dash THEN no_tabs(line) ELSE line) = <<op.d>>

-----------------------------------------------------------------------------
(* Which operators a logical line holds.  A line that ends inside a quote  *)
(* is joined with the lines up to the one that holds the closing quote.    *)

tokenizer(atoms) ==                    \* [open, ops] of a joined line
    FoldLeft(LAMBDA t, x : CASE x = "q" -> [t EXCEPT !.open = ~@]
                             [] x \in OpAtoms /\ ~t.open -> [t EXCEPT !.ops = Append(@, OpOf(x))]
                             [] OTHER -> t,
             [open |-> FALSE, ops |-> <<>>], atoms)
RECURSIVE hd_join(_, _)
hd_join(text, i) ==                    \* past the next line that holds a quote
    IF i > Len(text) THEN i
    ELSE IF "q" \in {text[i][k] : k \in 1..Len(text[i])} THEN i + 1
    ELSE hd_join(text, i + 1)
hd_lex_line_alone(text, i, end) ==     \* mutant: a quote left open is not carried on
    [ops |-> tokenizer(text[i]).ops, end |-> end]
RECURSIVE hd_lex_line(_, _, _)
hd_lex_line(text, i, end) ==           \* the line from i, joined while it is open
    LET t == tokenizer(FoldLeft(\o, <<>>, SubSeq(text, i, end - 1))) IN
    IF ~t.open \/ end > Len(text) THEN [ops |-> t.ops, end |-> end]
    ELSE hd_lex_line(text, i, hd_join(text, end))
specs_on_line(text, i) == hd_lex_line(text, i, i + 1)

RECURSIVE skip_one_body(_, _, _)
skip_one_body(text, i, op) ==          \* past the delimiter line, or at the end
    IF i > Len(text) THEN i
    ELSE IF is_delim_line(text[i], op) THEN i + 1
    ELSE skip_one_body(text, i + 1, op)
delim_present(text, i, op) == \E j \in i..Len(text) : is_delim_line(text[j], op)

\* every operator with the index of the last line of its logical line
RECURSIVE collect_specs(_, _)
collect_specs(text, i) ==
    IF i > Len(text) THEN <<>>
    ELSE LET l == specs_on_line(text, i)
             next == FoldLeft(LAMBDA j, op : skip_one_body(text, j, op), l.end, l.ops)
         IN  [k \in 1..Len(l.ops) |-> [op |-> l.ops[k], line |-> l.end - 1]]
             \o collect_specs(text, next)

\* line by line: the line goes to the stripped text, the bodies due after it to
\* bodies, each leaving an empty line behind for every line of its own
advance_hd(text, w, line) ==
    LET late == SelectSeq(w.specs, LAMBDA s : s.line >= line)
        due == SelectSeq(late, LAMBDA s : s.line = line)
        Take(u, s) == IF ~delim_present(text, u.i, s.op) THEN u
                      ELSE LET e == skip_one_body(text, u.i, s.op)
                               body == SubSeq(text, u.i, e - 1)
                           IN  [u EXCEPT !.i = e, !.got = @ + 1, !.bodies = @ \o body,
                                         !.stripped = @ \o [k \in 1..Len(body) |-> <<>>]]
    IN  FoldLeft(Take, [w EXCEPT !.specs = SubSeq(late, Len(due) + 1, Len(late))], due)
RECURSIVE walk_and_strip(_, _)
walk_and_strip(text, w) ==
    IF w.i > Len(text) THEN w
    ELSE walk_and_strip(text, advance_hd(text,
             [w EXCEPT !.stripped = Append(@, text[w.i]), !.i = @ + 1], w.i))
split_heredocs(text) ==
    walk_and_strip(text, [i |-> 1, got |-> 0, stripped |-> <<>>, bodies |-> <<>>,
                          specs |-> collect_specs(text, 1)])

\* does the input end in the middle of a body?
RECURSIVE line_bodies_ok(_, _, _)
line_bodies_ok(text, i, ops) ==        \* the position after the bodies, or 0
    IF ops = <<>> THEN i
    ELSE IF ~delim_present(text, i, Head(ops)) THEN 0
    ELSE line_bodies_ok(text, skip_one_body(text, i, Head(ops)), Tail(ops))
RECURSIVE incomplete_from(_, _)
incomplete_from(text, i) ==
    IF i > Len(text) THEN FALSE
    ELSE LET l == specs_on_line(text, i)
             next == line_bodies_ok(text, l.end, l.ops)
         IN  next = 0 \/ incomplete_from(text, next)
heredoc_incomplete(text) == incomplete_from(text, 1)

-----------------------------------------------------------------------------
(* Reading one body.  src is what is left of the stream; the result is the *)
(* file written and what the stream still holds.                           *)

\* one atom of a body whose delimiter is unquoted: "$" is followed by a name "x",
\* "{x}", a special "#" or anything else; "$(c)" and "`c`" stand for substitutions
special(x) == x \in {"x", "#"}
brace_span(line, i) ==                 \* the brace that closes the one at i, or 0
    LET Depth(j) == Cardinality({k \in i..j : line[k] = "{"}) - Cardinality({k \in i..j : line[k] = "}"})
        ends == {j \in i..Len(line) : Depth(j) = 0}
    IN  IF ends = {} THEN 0 ELSE CHOOSE j \in ends : \A k \in ends : j <= k
expand_dolar(line, i) ==               \* [put, next] of the dollar at i - 1
    LET x == IF i > Len(line) THEN "end" ELSE line[i]
        b == brace_span(line, i)
    IN  CASE x = "{" -> IF b = 0 THEN [put |-> <<"$">>, next |-> i] ELSE [put |-> <<"V">>, next |-> b + 1]
          [] special(x) -> [put |-> <<"V">>, next |-> i + 1]
          [] OTHER -> [put |-> <<"$">>, next |-> i]
expand_bs(x) == CASE x \in {"$", "\\", "bq"} -> <<x>>
                  [] x = "nl" -> <<>>
                  [] OTHER -> <<"\\", x>>
expand_sub_char(line, i) ==
    CASE line[i] \in {"$(c)", "bqcbq"} -> [put |-> <<"C">>, next |-> i + 1]
      [] line[i] = "bq" -> [put |-> <<"bq">>, next |-> i + 1]
      [] line[i] = "$" -> expand_dolar(line, i + 1)
RECURSIVE expand_from(_, _, _)
expand_from(line, i, bs) ==
    IF i > Len(line) THEN <<>>
    ELSE CASE bs -> expand_bs(line[i]) \o expand_from(line, i + 1, FALSE)
           [] line[i] \in {"$", "bq", "$(c)", "bqcbq"} ->
                LET e == expand_sub_char(line, i) IN e.put \o expand_from(line, e.next, FALSE)
           [] line[i] = "\\" -> expand_from(line, i + 1, TRUE)
           [] OTHER -> <<line[i]>> \o expand_from(line, i + 1, FALSE)
expand_line(line) == expand_from(line, 1, FALSE)
is_sep(file, line, op) == (file = <<>> \/ Last(file) = "nl") /\ line = <<op.d>>
RECURSIVE write_heredoc(_, _, _)
write_heredoc(src, op, file) ==
    IF src = <<>> THEN [file |-> file, src |-> src, eof |-> TRUE]
    ELSE LET line == IF op.dash THEN no_tabs(Head(src)) ELSE Head(src) IN
         IF is_sep(file, line, op) THEN [file |-> file, src |-> Tail(src), eof |-> FALSE]
         ELSE write_heredoc(Tail(src), op,
                file \o (IF op.quoted THEN Append(line, "nl") ELSE expand_line(Append(line, "nl"))))

scan_to_delim(src, op) == skip_one_body(src, 1, op)
capture_heredoc_to_node(src, op) ==    \* the raw body, its delimiter line included
    LET e == scan_to_delim(src, op) IN [body |-> SubSeq(src, 1, e - 1), src |-> SubSeq(src, e, Len(src))]
live_is_delim(line, op) == is_delim_line(line, op)
RECURSIVE capture_heredoc_live(_, _, _)
capture_heredoc_live(src, op, body) == \* at end of input the delimiter is made up
    IF src = <<>> THEN [body |-> Append(body, <<op.d>>), src |-> src]
    ELSE IF live_is_delim(Head(src), op) THEN [body |-> Append(body, Head(src)), src |-> Tail(src)]
    ELSE capture_heredoc_live(Tail(src), op, Append(body, Head(src)))
materialize_heredoc(body, op) == write_heredoc(body, op, <<>>)

\* A small body goes through a pipe, a large one through an unlinked file.
hdoc_attach_backing(op, mode, file) ==
    [op |-> op, mode |-> mode, file |-> file, fd |-> IF Len(file) <= HDOC_PIPE_MAX THEN "pipe" ELSE "file"]

-----------------------------------------------------------------------------
(* The tree walk that reads the bodies before the range runs.  A node is   *)
(* [k, c] or a redirection [k |-> "hd", op]; g carries what is left of the *)
(* source, whether a definition or a loop is being read (the body must     *)
(* then stay on the node, for every later run), and what was read so far.  *)

Got(g, op, m) ==
    LET c == IF m = "live" THEN capture_heredoc_live(g.src, op, <<>>)
             ELSE capture_heredoc_to_node(g.src, op)
        w == write_heredoc(g.src, op, <<>>)
    IN  IF m = "eager" THEN [g EXCEPT !.src = w.src, !.got = Append(@, hdoc_attach_backing(op, m, w.file))]
        ELSE [g EXCEPT !.src = c.src,
                       !.got = Append(@, hdoc_attach_backing(op, m, materialize_heredoc(c.body, op).file))]
\* the redirection of a simple command
try_defer_heredoc(g) == CASE g.extracted -> "node"
                          [] ~g.extracted /\ ~g.in_func /\ g.buffered -> "buff"
                          [] ~g.extracted /\ g.in_func -> "live"
                          [] OTHER -> "eager"
\* the redirection of a compound command
gather_heredoc(g) == CASE g.in_func /\ g.extracted -> "node"
                       [] g.in_func /\ ~g.extracted /\ g.buffered -> "buff"
                       [] OTHER -> "eager"
should_skip_node(n) == n.k \in {"word", "procsub"}
RECURSIVE gather_heredocs(_, _)
gather_heredocs(g, n) ==
    LET process_child_node(h, c) ==
            IF c.k # "hd" THEN gather_heredocs(h, c)
            ELSE Got(h, c.op, IF n.k = "simple" THEN try_defer_heredoc(h) ELSE gather_heredoc(h))
    IN  IF should_skip_node(n) THEN g
        ELSE [FoldLeft(process_child_node, [g EXCEPT !.in_func = @ \/ n.k \in {"function", "loop"}], n.c)
              EXCEPT !.in_func = g.in_func]
=============================================================================
