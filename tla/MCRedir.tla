------------------------------ MODULE MCRedir ------------------------------
(***************************************************************************)
(* Redir in lockstep with what the shell language says redirections mean:  *)
(* from left to right, each at once.  `view` is the table the user should   *)
(* see, `saved` the standard descriptors each nested command will put back. *)
(***************************************************************************)
EXTENDS Redir

CONSTANTS Mixed,     \* bound: FALSE keeps descriptor 3 away from commands
                     \* that use here-documents, here-strings or <(...)
          MaxSteps   \* bound: commands per behaviour
VARIABLES view, saved, steps

mcvars == <<vars, view, saved, steps>>
User == 0 .. ParkFloor - 1
Std == 0 .. 2

File(f) == [is |-> "file", of |-> f, n |-> 0]
Fd(k) == [is |-> "fd", of |-> "", n |-> k]
Dev(k) == [is |-> "dev", of |-> "", n |-> k]
CloseWord == [is |-> "close", of |-> "", n |-> 0]
Sub(d) == [is |-> "sub", of |-> d, n |-> 0]
Net(h) == [is |-> "net", of |-> h, n |-> 0]
NoWord == [is |-> "none", of |-> "", n |-> 0]
R(op, src, word) == [op |-> op, src |-> src, word |-> word]

LowRedirs ==
  {R("<", -1, File("a")), R(">", -1, File("b")), R(">>", 2, File("a")), R("&>", -1, File("b")),
   R(">&", 2, Fd(1)), R(">&", 1, Fd(2)), R(">&", -1, File("a")), R("<", -1, File("none")),
   R(">", -1, Net("down"))}
DocRedirs == {R("<<", -1, NoWord), R("<<<", -1, NoWord), R("<", -1, Sub("in"))}
Doc3Redirs == {R("<<", 3, NoWord)}
CloseRedirs == {R(">&", 1, CloseWord), R("<&", 0, CloseWord)}
HighRedirs == {R(">", 3, File("b")), R(">&", 3, Fd(1)), R(">&", 1, Fd(3)), R("<&", -1, Fd(3)),
               R(">&", 3, CloseWord), R("<", -1, Dev(3))}
Words == {R("word", 0, Sub("in")), R("word", 0, Sub("out")), R("word", 0, Sub("file"))}

Singles(S) == {<<r>> : r \in S}
Pairs(S, T) == {<<r, s>> : r \in S, s \in T}
Of(kinds, lists) == {[kind |-> k, children |-> l] : k \in kinds, l \in lists}

Swaps == {R(">", -1, File("b")), R(">&", 2, Fd(1)), R(">&", 1, Fd(2)), R("<", -1, File("a"))}
To3 == R(">", 3, File("b"))
LeafLists == {<<>>} \cup Singles(LowRedirs \cup DocRedirs \cup HighRedirs \cup CloseRedirs)
             \cup Pairs(Swaps, Swaps) \cup Pairs(HighRedirs, HighRedirs)
             \cup Pairs(DocRedirs, Swaps) \cup Pairs(Swaps, DocRedirs)
WordLists == {<<w>> \o l : w \in Words, l \in {<<>>} \cup Singles(LowRedirs)}
NestLists == {<<>>, <<R(">", -1, File("b"))>>, <<R("<<", -1, NoWord)>>, <<R("<", -1, Sub("in"))>>,
              <<R(">", 2, File("b")), R(">&", 1, Fd(2))>>, <<To3, R(">&", 1, Fd(3))>>, <<To3, R("<", -1, File("none"))>>}
UsualCommands == Of({"external"}, LeafLists \cup WordLists)
              \cup Of({"builtin"}, NestLists \cup WordLists \cup Singles(HighRedirs \cup CloseRedirs))
              \cup Of({"special", "assign", "empty", "subshell", "eval", "func", "group", "exec"}, NestLists)
              \cup Of({"exec"}, Singles(HighRedirs))
Stages == Of({"external"}, {<<>>, <<R(">&", 2, Fd(1))>>, <<R("<<", -1, NoWord)>>})
            \cup Of({"group"}, {<<R("<<<", -1, NoWord)>>, <<R(">", -1, File("b"))>>})

\* A here-document or a here-string beside a redirection of descriptor 3
MixedCommands == Of({"external"}, Pairs(DocRedirs, {To3}) \cup Pairs({To3}, DocRedirs))
Commands == IF Mixed THEN MixedCommands ELSE UsualCommands

(***************************************************************************)
(* What a list of redirections means                                       *)
(***************************************************************************)
MeanNode(m, node) ==
  LET src == parse_src_fd(node)
      To(fd, what) == [m EXCEPT !.v[fd] = what]
      Bad == [m EXCEPT !.ok = FALSE]
      Dup(k) == IF k \in User /\ m.v[k] # Shut THEN To(src, m.v[k]) ELSE Bad
      both == node.op = "&>" \/ (node.op = ">&" /\ node.word.is = "file")
      opened == IF both THEN [m EXCEPT !.v[1] = node.word.of, !.v[2] = node.word.of]
                ELSE To(src, node.word.of)
  IN  CASE ~m.ok \/ node.op = "word"            -> m
        [] node.op \in {"<<", "<<<"}            -> To(src, "doc")
        [] node.word.is = "sub"                 -> To(src, "sub")
        [] node.word.is = "close"               -> To(src, Shut)
        [] node.word.is \in {"fd", "dev"}       -> Dup(node.word.n)
        [] node.word.is = "net"                 -> Bad
        [] OTHER -> IF \/ node.op = "<" /\ node.word.of \notin m.files
                       \/ noclobber /\ node.op \in {">", "&>"} /\ node.word.of \in m.files
                    THEN Bad ELSE [opened EXCEPT !.files = @ \cup {node.word.of}]

Meaning(v, children) == FoldLeft(MeanNode, [v |-> v, files |-> files, ok |-> TRUE], children)

(***************************************************************************)
(* The commands the properties speak of (the README says why)              *)
(***************************************************************************)
Closes(node, fd) == node.word.is = "close" /\ parse_src_fd(node) = fd
Uses(node, fd) == node.op # "word" /\ (parse_src_fd(node) = fd \/ (node.word.is \in {"fd", "dev"} /\ node.word.n = fd))
\* A source probed too early: closed, or a /dev/fd path redirected, before it
Early(ch) == \E i, j \in DOMAIN ch :
               /\ i < j /\ ch[j].word.is \in {"fd", "dev"}
               /\ \/ Closes(ch[i], ch[j].word.n)
                  \/ ch[j].word.is = "dev" /\ parse_src_fd(ch[i]) = ch[j].word.n
Scratch(ch) == docs # <<>> \/ subs # <<>> \/ \E i \in DOMAIN ch : ch[i].op \in {"<<", "<<<", "word"} \/ ch[i].word.is = "sub"
Meant(c) == /\ ~Early(c.children)
            /\ Mixed \/ ~Scratch(c.children) \/ \A i \in DOMAIN c.children : ~Uses(c.children[i], 3)

Held == ToSet(docs) \cup ToSet(subs)
View(t) == [fd \in User |-> IF fd \in Held THEN view[fd] ELSE t[fd]]

(***************************************************************************)
(* Behaviours                                                              *)
(***************************************************************************)
Init ==
  /\ fds = [fd \in 0 .. OpenMax - 1 |-> CASE fd = 0 -> "in" [] fd = 1 -> "out" [] fd = 2 -> "err" [] OTHER -> Shut]
  /\ files = {"a"} /\ noclobber \in BOOLEAN
  /\ docs = <<>> /\ subs = <<>> /\ frames = <<>> /\ alive = TRUE
  /\ view = [fd \in User |-> fds[fd]] /\ saved = <<>> /\ steps = 0

Step == alive /\ steps < MaxSteps /\ steps' = steps + 1
NoStep == UNCHANGED steps

\* A command in the shell puts the standard descriptors back; what it did to
\* the others stays
Kept(v, before) == [fd \in User |-> IF fd \in Std THEN before[fd] ELSE v[fd]]

\* One command whose list has been resolved to p
Ran(c, p) ==
  \/ /\ res_expand_failed(c, p) \/ handle_assign_only(c, p) \/ handle_empty_command(c, p)
        \/ execute_cmd_bg(c, p) \/ execute_subshell(c, p)
     /\ UNCHANGED <<view, saved>>
  \/ /\ execute_builtin_cmd_fg(c, p)
     /\ view' = Kept(Meaning(view, c.children).v, view) /\ UNCHANGED saved
  \/ /\ BareExec(c, p)
     /\ view' = Meaning(view, c.children).v /\ UNCHANGED saved
  \/ /\ handle_func_call(c, p) \/ compound_in_parent(c, p) \/ builtin_eval(c, p)
     /\ view' = Meaning(view, c.children).v
     /\ saved' = Append(saved, IF c.children = <<>> THEN <<>> ELSE <<view>>)
DoCommand == \E c \in Commands : Meant(c) /\ Step /\ Ran(c, expand_simple_command(fds, c.children))
DoLeave == /\ NoStep /\ execute_pipeline_one
           /\ view' = IF Last(saved) = <<>> THEN view ELSE Kept(view, Last(saved)[1])
           /\ saved' = Front(saved)
DoPipeline == \E c, d \in Stages : Step /\ execute_pipeline_children(c, d) /\ UNCHANGED <<view, saved>>
DoCoproc == Step /\ execute_coproc /\ UNCHANGED <<view, saved>>
DoGather == Step /\ gather_range_heredocs /\ UNCHANGED <<view, saved>>
DoEndCycle == NoStep /\ free_redirects /\ UNCHANGED <<view, saved>>

Next == DoCommand \/ DoLeave \/ DoPipeline \/ DoCoproc \/ DoGather \/ DoEndCycle
Spec == Init /\ [][Next]_mcvars

(***************************************************************************)
(* Properties                                                              *)
(***************************************************************************)
\* Whatever the shell has open, a command runs exactly when its redirections
\* can be made one after the other, and it then starts with the table they
\* make, its process substitutions open; the two stages of a pipeline too (redirect_from_ast_redir,
\* redir_park_fd, apply_redir_now, set_up_redirection).
StageMeans(c, stage, t, v) ==
  LET p == expand_simple_command(t, c.children)
      m == Meaning(v, c.children)
      g == Given(c, p, stage)
  IN  /\ p.ok = m.ok
      /\ p.ok => /\ \A fd \in User \ (Held \cup ToSet(p.subs)) : g[fd] = m.v[fd]
                 /\ c.kind = "func" \/ \A fd \in ToSet(p.subs) : g[fd] = "sub"

GivenAsWritten ==
  /\ \A c \in Commands : Meant(c) => StageMeans(c, Alone, fds, view)
  /\ ~(docs # <<>> \/ IsOpen(fds, 3)) =>
       LET one == FirstStage(fds)
           t2  == PutAll(one.t, {one.at.outfd})
       IN  \A c \in Stages : /\ StageMeans(c, one.at, one.t, [view EXCEPT ![1] = "pw"])
                             /\ StageMeans(c, LastStage(t2, one.at.next), t2, [view EXCEPT ![0] = "pr"])

\* The shell's own table is the user's: after a command, however nested, 0 to
\* 2 are back unless exec moved them, and nothing else is left open but the
\* copies the running commands need (save_fd, restore_backup_fds,
\* free_executable_node, procsub_close_fds_parent).
ShellKeepsItsTable ==
  /\ View(fds) = view
  /\ {fd \in ParkFloor .. OpenMax - 1 : fds[fd] \notin {Shut, "coin", "coout"}} = Backups \cup (Held \ User)
=============================================================================
