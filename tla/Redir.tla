------------------------------- MODULE Redir -------------------------------
(***************************************************************************)
(* Redirections and the descriptor table: expander/create_redir.c,         *)
(* redirect_from_ast_redir*.c, redir_fd.c, execution/utils*.c,             *)
(* execute_builtin.c, execute_command.c, execute_simple_command*.c and the *)
(* children of platform/posix.                                             *)
(*                                                                         *)
(* A command first RESOLVES its whole list (opens, probes, parks each      *)
(* descriptor at ParkFloor or above), and only then APPLIES it in order.   *)
(* A table maps a descriptor to what it is open on, Shut when closed.      *)
(* A command runs in the shell with descriptors 0 to 2 saved around it, or *)
(* in a child.                                                             *)
(***************************************************************************)
EXTENDS Integers, Sequences, FiniteSets, FiniteSetsExt, SequencesExt

CONSTANTS ParkFloor,    \* 10 in the code: parked and saved descriptors; 3 or more
          OpenMax,          \* OPEN_MAX
          Interactive,  \* metinp = INP_RL
          MaxDepth      \* bound: nested functions and groups

VARIABLES fds,        \* the shell's descriptor table
          files,      \* the regular files that exist
          noclobber,  \* set -C
          docs,       \* read ends of gathered here-documents, in order
          subs,       \* open ends of process substitutions (proc_subs)
          frames,     \* commands running in the shell, innermost last
          alive

vars == <<fds, files, noclobber, docs, subs, frames, alive>>

Shut == ""
Put(t, fd, what) == IF fd \in DOMAIN t THEN [t EXCEPT ![fd] = what] ELSE t
IsOpen(t, fd) == fd \in DOMAIN t /\ t[fd] # Shut
PutAll(t, which) == [fd \in DOMAIN t |-> IF fd \in which THEN Shut ELSE t[fd]]

\* What the kernel gives: the lowest free descriptor, or none
Lowest(t, from) ==
  LET free == {fd \in from .. OpenMax - 1 : t[fd] = Shut}
  IN  IF free = {} THEN -1 ELSE Min(free)

dup2(t, from, to) == IF IsOpen(t, from) THEN Put(t, to, t[from]) ELSE t

pal_pipe(t) ==
  LET r == Lowest(t, 0) IN <<r, Lowest(Put(t, r, "pipe"), 0)>>

(***************************************************************************)
(* Resolving.  `a` is what resolving has done so far: the table, the files, *)
(* the list of t_redir, the open ends of process substitutions, and the    *)
(* here-documents not used yet.                                            *)
(***************************************************************************)
NoRedir == [fd |-> -1, src |-> 0, close |-> FALSE, dup |-> FALSE, both |-> FALSE]

Failed(a) == [a EXCEPT !.ok = FALSE]
Pushed(a, rd) == [a EXCEPT !.rds = Append(@, rd)]

get_default_src_fd(op) == IF op \in {"<", "<>", "<<", "<<<", "<&"} THEN 0 ELSE 1
parse_src_fd(node) == IF node.src < 0 THEN get_default_src_fd(node.op) ELSE node.src

dup_target_is_fd(word) == word.is \in {"fd", "close"}

(* Mutant: the descriptor open(2) gave is left where it is. *)
redir_park_fd_low(t, fd) == [t |-> t, fd |-> fd]
redir_park_fd(t, fd) ==
  IF fd < 0 \/ fd >= ParkFloor THEN [t |-> t, fd |-> fd]
  ELSE LET parked == Lowest(t, ParkFloor)
       IN  [t |-> Put(Put(t, parked, t[fd]), fd, Shut), fd |-> parked]

\* The tail of every path that has just acquired a descriptor on `what`
Acquired(a, rd, what) ==
  LET low    == Lowest(a.t, 0)
      parked == redir_park_fd(Put(a.t, low, what), low)
      b      == [a EXCEPT !.t = parked.t]
  IN  IF parked.fd < 0 THEN Failed(b) ELSE Pushed(b, [rd EXCEPT !.fd = parked.fd])

open_file_redir(a, op, word, rd) ==
  IF word.of \notin a.files /\ (op = "<" \/ word.is = "nodir") THEN Failed(a)
  ELSE Acquired([a EXCEPT !.files = @ \cup {word.of}], rd, word.of)

handle_devfd_redir(a, word, rd) ==
  IF IsOpen(a.t, word.n) THEN Acquired(a, rd, a.t[word.n]) ELSE Failed(a)

net_redir_open(a, word, rd) ==
  IF word.of = "down" THEN Failed(a) ELSE Acquired(a, rd, "socket")

(* Mutant: a list already resolved is not looked at. *)
dup_of_pending_none(a, n) == FALSE
dup_of_pending(a, n) ==
  LET on == {i \in DOMAIN a.rds : a.rds[i].src = n}
  IN  on # {} /\ ~a.rds[Max(on)].close

create_dup_redir(a, word, rd) ==
  IF word.is = "close" THEN Pushed(a, [rd EXCEPT !.close = TRUE, !.dup = TRUE])
  ELSE IF word.is = "fd" /\ (IsOpen(a.t, word.n) \/ dup_of_pending(a, word.n))
       THEN Pushed(a, [rd EXCEPT !.fd = word.n, !.dup = TRUE])
       ELSE Failed(a)

create_redir_4(a, op, word, src) ==
  LET both == op \in {"&>", "&>>"} \/ (op = ">&" /\ ~dup_target_is_fd(word))
      rd   == [NoRedir EXCEPT !.src = src, !.both = both]
  IN  CASE op = "<&" \/ (op = ">&" /\ dup_target_is_fd(word)) -> create_dup_redir(a, word, rd)
        [] word.is = "dev" -> handle_devfd_redir(a, word, rd)
        [] word.is = "net" -> net_redir_open(a, word, rd)
        [] OTHER           -> open_file_redir(a, op, word, rd)

noclobber_blocks(a, op, word) ==
  noclobber /\ op \in {">", "&>"} /\ word.is = "file" /\ word.of \in a.files

\* <(cmd): the shell keeps the read end;  >(cmd): the write end.  =(cmd) is a
\* file written and closed before the path is handed over.
create_procsub_input(a) ==
  LET p == pal_pipe(a.t)
  IN  [a EXCEPT !.t = Put(@, p[1], "sub"), !.subs = Append(@, p[1])]
create_procsub_output(a) ==
  LET p == pal_pipe(a.t)
  IN  [a EXCEPT !.t = Put(@, p[2], "sub"), !.subs = Append(@, p[2])]
create_procsub_file(a) == [a EXCEPT !.files = @ \cup {"tmp"}]

expand_proc_sub(a, word) ==
  CASE word.of = "in"   -> create_procsub_input(a)
    [] word.of = "out"  -> create_procsub_output(a)
    [] word.of = "file" -> create_procsub_file(a)

\* The word of a redirection, once expanded
expand_redir_fname(a, word) ==
  CASE word.is # "sub"    -> word
    [] word.of = "file"   -> [is |-> "file", of |-> "tmp", n |-> 0]
    [] OTHER              -> [is |-> "dev", of |-> "", n |-> Last(expand_proc_sub(a, word).subs)]

create_unless_blocked(a, op, word, src) ==
  IF noclobber_blocks(a, op, word) THEN Failed(a) ELSE create_redir_4(a, op, word, src)
try_create_redir(a, node, src) ==
  create_unless_blocked(IF node.word.is = "sub" THEN expand_proc_sub(a, node.word) ELSE a,
                        node.op, expand_redir_fname(a, node.word), src)

\* A body in a pipe or an unlinked file: one end stays, where the kernel put it
hdoc_attach_backing(t) == [fd |-> Lowest(t, 0), t |-> Put(t, Lowest(t, 0), "doc")]
herestring_fd(t) == hdoc_attach_backing(t)

herestring_redir(a, src) ==
  LET h == herestring_fd(a.t)
  IN  Pushed([a EXCEPT !.t = h.t], [NoRedir EXCEPT !.fd = h.fd, !.src = src])

materialize_heredoc(a, src) ==
  LET h == hdoc_attach_backing(a.t)
  IN  Pushed([a EXCEPT !.t = h.t], [NoRedir EXCEPT !.fd = h.fd, !.src = src])

\* A body kept on the node is put in a pipe now; the others were gathered
heredoc_redir(a, src) ==
  IF a.docs = <<>> THEN materialize_heredoc(a, src)
  ELSE Pushed([a EXCEPT !.docs = Tail(@)], [NoRedir EXCEPT !.fd = Head(a.docs), !.src = src])

redir_src_fd_ok(a) ==
  LET r == Last(a.rds)
  IN  IF ~a.ok \/ r.close \/ r.src < OpenMax THEN a
      ELSE [a EXCEPT !.ok = FALSE, !.rds = Front(@),
                     !.t = IF r.dup \/ r.fd <= 2 THEN @ ELSE Put(@, r.fd, Shut)]

redirect_from_ast_redir(a, node) ==
  LET src == parse_src_fd(node)
  IN  redir_src_fd_ok(CASE node.op = "<<"  -> heredoc_redir(a, src)
                        [] node.op = "<<<" -> herestring_redir(a, src)
                        [] OTHER           -> try_create_redir(a, node, src))

process_simple_child(a, child) ==
  IF child.op = "word" THEN expand_proc_sub(a, child.word)
  ELSE redirect_from_ast_redir(a, child)

\* The children of a command in order, up to the first that fails
expand_from(t, held, children) ==
  FoldLeft(LAMBDA a, child : IF a.ok THEN process_simple_child(a, child) ELSE a,
           [t |-> t, files |-> files, rds |-> <<>>, subs |-> subs, docs |-> held, ok |-> TRUE],
           children)
expand_simple_command(t, children) == expand_from(t, docs, children)

(***************************************************************************)
(* Applying, saving and restoring                                          *)
(***************************************************************************)
apply_redir_now(t, rd) ==
  IF rd.close THEN Put(t, rd.src, Shut)
  ELSE IF rd.dup THEN dup2(t, rd.fd, rd.src)
  ELSE LET moved == IF rd.fd = rd.src THEN t ELSE Put(dup2(t, rd.fd, rd.src), rd.fd, Shut)
       IN  IF rd.both THEN dup2(moved, rd.src, 2) ELSE moved

apply_redirs_from_vec(t, rds) == FoldLeft(apply_redir_now, t, rds)

\* A command on its own, and the stages of a pipeline
Alone == [infd |-> 0, outfd |-> 1, next |-> -1]

set_up_redirection(t, stage, rds) ==
  LET t1 == Put(t, stage.next, Shut)
      t2 == IF stage.outfd = 1 THEN t1 ELSE Put(dup2(t1, stage.outfd, 1), stage.outfd, Shut)
      t3 == IF stage.infd = 0 THEN t2 ELSE Put(dup2(t2, stage.infd, 0), stage.infd, Shut)
  IN  apply_redirs_from_vec(t3, rds)

fd_setup_needed(stage, rds) == stage # Alone \/ rds # <<>>

\* The descriptor of a standard descriptor's copy
(* Mutant: the copy is made by dup(2). *)
save_fd_low(t, fd) == IF ~IsOpen(t, fd) THEN -1 ELSE Lowest(t, 0)
save_fd(t, fd) ==
  IF ~IsOpen(t, fd) THEN -1
  ELSE IF Lowest(t, ParkFloor) >= 0 THEN Lowest(t, ParkFloor) ELSE Lowest(t, 0)

take_backup_fds(t) ==
  FoldLeft(LAMBDA s, fd : LET n == save_fd(s.t, fd)
                          IN  [t |-> IF n < 0 THEN s.t ELSE dup2(s.t, fd, n), bak |-> Append(s.bak, n)],
           [t |-> t, bak |-> <<>>], <<0, 1, 2>>)

(* Mutant: the error stream is not put back. *)
restore_fds_partly(t, bak) ==
  PutAll(dup2(dup2(t, bak[1], 0), bak[2], 1), ToSet(bak))
restore_fds(t, bak) ==
  PutAll(dup2(dup2(dup2(t, bak[1], 0), bak[2], 1), bak[3], 2), ToSet(bak))

restore_backup_fds(t, bak) == IF bak = <<>> THEN t ELSE restore_fds(t, bak)

\* What the node still owns; what apply_redir has consumed it does not
(* Mutant: nothing is closed. *)
free_executable_node_none(t, rds) == t
free_executable_node(t, rds) ==
  PutAll(t, {rds[i].fd : i \in {j \in DOMAIN rds : ~rds[j].dup /\ ~rds[j].close /\ rds[j].fd > 2}})

procsub_close_fds_parent(t, held) == PutAll(t, ToSet(held))

\* execve closes the copies of the standard descriptors
Backups == UNION {ToSet(frames[i].bak) : i \in DOMAIN frames}
Execve(t) == [fd \in DOMAIN t |-> IF fd \in Backups /\ t[fd] = fds[fd] THEN Shut ELSE t[fd]]

\* The table a builtin, a function or a group in the shell starts with, and
\* the copies made for it
prep_redir(p, stage, persist) ==
  LET need  == persist \/ fd_setup_needed(stage, p.rds)
      saved == IF need /\ ~persist THEN take_backup_fds(p.t) ELSE [t |-> p.t, bak |-> <<>>]
  IN  [t |-> IF need THEN set_up_redirection(saved.t, stage, p.rds) ELSE p.t, bak |-> saved.bak]

cmd_child_body(p, stage) == Execve(set_up_redirection(p.t, stage, p.rds))
subshell_body(p, stage) == set_up_redirection(p.t, stage, p.rds)
fork_compound(p, stage) == set_up_redirection(p.t, stage, p.rds)

(***************************************************************************)
(* Commands.  p is what resolving a command's list came to:                *)
(* expand_simple_command(fds, c.children).                                 *)
(***************************************************************************)
is_special_builtin(c) == c.kind \in {"special", "exec", "eval"}
redir_err_is_fatal(c) == ~Interactive /\ is_special_builtin(c)

\* The table command c runs with, from the table it was expanded in
dispatch_compound(p, stage) ==
  IF stage # Alone THEN fork_compound(p, stage) ELSE prep_redir(p, stage, FALSE).t
dispatch_cmd(c, p, stage) ==
  CASE c.kind = "external" -> cmd_child_body(p, stage)
    [] c.kind = "exec"     -> prep_redir(p, stage, TRUE).t
    [] c.kind = "func"     -> procsub_close_fds_parent(prep_redir(p, stage, FALSE).t, p.subs)
    [] OTHER               -> prep_redir(p, stage, FALSE).t
Given(c, p, stage) ==
  CASE c.kind = "group"    -> dispatch_compound(p, stage)
    [] c.kind = "subshell" -> subshell_body(p, stage)
    [] OTHER               -> dispatch_cmd(c, p, stage)

\* What every simple command leaves: no process substitution stays open
Settle(t, p) ==
  /\ fds' = procsub_close_fds_parent(t, p.subs)
  /\ subs' = <<>>
  /\ files' = p.files
  /\ docs' = p.docs

\* A redirection that failed: the command does not run
res_expand_failed(c, p) ==
  /\ ~p.ok
  /\ Settle(free_executable_node(p.t, p.rds), p)
  /\ alive' = ~redir_err_is_fatal(c)
  /\ UNCHANGED <<noclobber, frames>>

\* Nothing runs in the shell: what was opened for the command is closed again
NothingHere(p) ==
  /\ p.ok
  /\ Settle(free_executable_node(p.t, p.rds), p)
  /\ UNCHANGED <<noclobber, frames, alive>>
handle_assign_only(c, p) == c.kind = "assign" /\ NothingHere(p)
handle_empty_command(c, p) == c.kind = "empty" /\ NothingHere(p)

\* A builtin that runs no command: saved, applied, restored in one go
execute_builtin_cmd_fg(c, p) ==
  LET q == prep_redir(p, Alone, FALSE) IN
  /\ c.kind \in {"builtin", "special"} /\ p.ok
  /\ Settle(restore_backup_fds(q.t, q.bak), p)
  /\ UNCHANGED <<noclobber, frames, alive>>

\* exec without a command keeps what it redirected
BareExec(c, p) ==
  /\ c.kind = "exec" /\ p.ok
  /\ Settle(prep_redir(p, Alone, TRUE).t, p)
  /\ UNCHANGED <<noclobber, frames, alive>>

\* Commands that run others, up to the body ...
Enter(c, p) ==
  /\ p.ok /\ Len(frames) < MaxDepth
  /\ fds' = Given(c, p, Alone)
  /\ files' = p.files
  /\ docs' = p.docs
  /\ frames' = Append(frames, [kind |-> c.kind, bak |-> prep_redir(p, Alone, FALSE).bak])
  /\ UNCHANGED <<noclobber, alive>>
handle_func_call(c, p) == c.kind = "func" /\ Enter(c, p) /\ subs' = <<>>
compound_in_parent(c, p) == c.kind = "group" /\ Enter(c, p) /\ subs' = p.subs
builtin_eval(c, p) == c.kind = "eval" /\ Enter(c, p) /\ subs' = p.subs

\* ... and after it
execute_pipeline_one ==
  /\ frames # <<>>
  /\ LET f == Last(frames)
         t == IF f.kind = "group" /\ f.bak # <<>> THEN restore_fds(fds, f.bak)
              ELSE restore_backup_fds(fds, f.bak)
     IN  fds' = procsub_close_fds_parent(t, subs)
  /\ subs' = <<>>
  /\ frames' = Front(frames)
  /\ UNCHANGED <<files, noclobber, docs, alive>>

\* A command in a child; the parent frees what it opened for it
execute_cmd_bg(c, p) == c.kind = "external" /\ NothingHere(p)
execute_subshell(c, p) == c.kind = "subshell" /\ NothingHere(p)

\* Two stages: the pipe is made, the first stage forked, its end closed, then
\* the second stage
FirstStage(t) ==
  LET p == pal_pipe(t)
  IN  [t |-> Put(Put(t, p[1], "pr"), p[2], "pw"),
       at |-> [infd |-> 0, outfd |-> p[2], next |-> p[1]]]
LastStage(t, r) == [infd |-> r, outfd |-> 1, next |-> -1]

\* One stage as the parent sees it: resolved, forked or failed, freed
finalize_child_parent(p) == free_executable_node(p.t, p.rds)

after_last_stage(at, p1, p2) ==
  /\ fds' = procsub_close_fds_parent(PutAll(finalize_child_parent(p2), {at.next}), p1.subs \o p2.subs)
  /\ subs' = <<>>
  /\ files' = p2.files \cup p1.files
  /\ docs' = p2.docs
  /\ UNCHANGED <<noclobber, frames, alive>>
after_first_stage(at, p1, c2) ==
  after_last_stage(at, p1, expand_from(PutAll(finalize_child_parent(p1), {at.outfd}), p1.docs, c2.children))
execute_pipeline_children(c1, c2) ==
  LET one == FirstStage(fds)
  IN  after_first_stage(one.at, expand_simple_command(one.t, c1.children), c2)

\* Both pipes of a coprocess; its ends are kept as high as the backups
execute_coproc ==
  LET out == pal_pipe(fds)
      t1  == Put(Put(fds, out[1], "coout"), out[2], "w")
      inp == pal_pipe(t1)
      t2  == Put(Put(t1, inp[2], "coin"), inp[1], "r")
      t3  == PutAll(t2, {inp[1], out[2]})
      h1  == save_fd(t3, out[1])
      t4  == dup2(t3, out[1], h1)
      t5  == dup2(t4, inp[2], save_fd(t4, inp[2]))
  IN
  /\ frames = <<>> /\ \A fd \in DOMAIN fds : fds[fd] \notin {"coin", "coout"}
  /\ fds' = PutAll(t5, {out[1], inp[2]})
  /\ UNCHANGED <<files, noclobber, docs, subs, frames, alive>>

\* The here-documents of a range, or of a string given to eval, are read before
\* it runs ...
gather_range_heredocs ==
  LET p == pal_pipe(fds) IN
  /\ docs = <<>>
  /\ frames # <<>> => Last(frames).kind = "eval"
  /\ fds' = Put(fds, p[1], "doc")
  /\ docs' = <<p[1]>>
  /\ UNCHANGED <<files, noclobber, subs, frames, alive>>

\* ... and what no command used is closed when the cycle ends
free_redirects ==
  /\ frames = <<>> /\ docs # <<>>
  /\ fds' = PutAll(fds, ToSet(docs))
  /\ docs' = <<>>
  /\ UNCHANGED <<files, noclobber, subs, frames, alive>>
=============================================================================
