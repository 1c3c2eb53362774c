----------------------------- MODULE JobControl -----------------------------
(***************************************************************************)
(* Job control of one shell process against the kernel.                    *)
(*                                                                         *)
(* The kernel side holds, for every process the shell ever forked, its     *)
(* state, its process group, its final status word, a signal it has not    *)
(* acted on yet and the stop/continue event the parent has not collected.  *)
(* The shell side is the read-execute loop (core/shell.c), the job table,  *)
(* the bg_done ring and the builtins that read and change them: `&`,       *)
(* foreground pipelines, wait, jobs, fg, bg, kill, exit and ^D.            *)
(*                                                                         *)
(* Kernel steps interleave with shell steps at every system call: a loop   *)
(* around waitpid() is one step per call, so a child may die or stop       *)
(* between any two of them.  `pc` says where the shell is, `after` where   *)
(* it goes once the status poll it is in has gone round the table.         *)
(***************************************************************************)
EXTENDS JobTable, Sequences

CONSTANTS
  NPids,          \* processes the shell may fork; pids are not reused
  RingSize,       \* BG_DONE_MAX (128 in the code)
  Interactive,    \* metinp = INP_RL; otherwise a script or piped input
  MaxStages,      \* longest foreground pipeline the user types
  HangupRounds,   \* polls before an exiting shell gives up (200 in the code)
  ParentExpands,  \* may a stage's words hold a $(..) that runs in-process?
  FgFinished,     \* does the user type fg for a job that is already over?
  Kills,          \* signals the user sends with kill, of "TERM" "KILL" "STOP"
  OwnStops        \* may a process stop on its own (tty access, ^Z)?

ASSUME JobControlAssumption ==
  /\ NPids \in Nat /\ RingSize \in Nat \ {0} /\ MaxStages \in Nat
  /\ HangupRounds \in Nat
  /\ Interactive \in BOOLEAN /\ ParentExpands \in BOOLEAN
  /\ FgFinished \in BOOLEAN /\ OwnStops \in BOOLEAN
  /\ Kills \subseteq {"TERM", "KILL", "STOP"}

Pids == 1 .. NPids
ShellGroup == NPids + 1     \* the shell's own process group
OwnExit == 3                \* the status a process that exits by itself has

SignalNumber == [HUP |-> 1, KILL |-> 9, TERM |-> 15]

VARIABLES
  proc,      \* the kernel's view of each pid
  table,     \* state->job_table
  ring,      \* state->bg_done: [slot, next]
  lastBg,    \* state->last_bg_pid, 0 before the first &
  pc, after, cursor,       \* where the shell is; the poll's next slot
  target,    \* the pid or table slot the current builtin is about
  stages,    \* forked and not yet waited-for stages of the pipeline
  todo,      \* stages still to fork
  rounds,    \* hangup polls done
  warned, attempt,         \* state->exit_warned, state->exit_attempt
  reply,     \* the answer of the last wait or fg
  launched, told, swept, shown, typed, turns     \* history: see below

(* History variables, read by the properties only (and by wait's choice of *)
(* an argument).                                                           *)
(*   launched  pids started with &                                         *)
(*   told      pids whose final status a wait argument, wait -n or fg gave *)
(*   swept     pids a bare wait collected, whose status it gave to nobody  *)
(*   shown     how often a finished line was printed for a pid, up to 2    *)
(*   typed     pids that were stopped when the exit being decided was      *)
(*             typed and have not run since                                *)
(*   turns     prompts since exit was last refused, up to 2                *)

kernel == <<proc>>
shell == <<table, ring, lastBg, pc, after, cursor, target, stages,
           todo, rounds, warned, attempt, reply>>
history == <<launched, told, swept, shown, typed, turns>>
vars == <<kernel, shell, history>>

NoReply == [pid |-> 0, code |-> 0]

-----------------------------------------------------------------------------
(* The kernel.                                                             *)

Unborn == [st |-> "none", pgid |-> 0, raw |-> NoStatus, pend |-> "none",
           event |-> "none"]
Forked(g) == [st |-> "run", pgid |-> g, raw |-> NoStatus, pend |-> "none",
              event |-> "none"]

Unreaped(p) == proc[p].st \in {"run", "stop", "zombie"}
Children == {p \in Pids : Unreaped(p)}
Group(g) == {p \in Children : proc[p].pgid = g}

Zombie(p) == proc[p].st = "zombie"
(* Children of S that waitpid() would report now, with WUNTRACED and       *)
(* WCONTINUED as asked for.                                                *)
Ready_no_continued(S, untraced, continued) ==     \* mutant: no WCONTINUED
  {p \in S : \/ Zombie(p)
             \/ untraced /\ proc[p].st = "stop" /\ proc[p].event = "stop"}
Ready(S, untraced, continued) ==
  {p \in S : \/ Zombie(p)
             \/ untraced /\ proc[p].st = "stop" /\ proc[p].event = "stop"
             \/ continued /\ proc[p].st = "run" /\ proc[p].event = "cont"}

WordOf(p) == IF Zombie(p) THEN proc[p].raw
             ELSE IF proc[p].event = "stop" THEN StoppedWord ELSE ContinuedWord

(* waitpid() returns p.                                                    *)
Collect(p) ==
  proc' = [proc EXCEPT ![p].st = IF Zombie(p) THEN "reaped" ELSE @,
                       ![p].event = "none"]

Dead(r, w) == [r EXCEPT !.st = "zombie", !.raw = w, !.pend = "none",
                        !.event = "none"]

(* What kill() does to one process record.  A fatal signal is acted on     *)
(* later, when the process runs (Deliver); SIGKILL needs no running.       *)
Signalled(r, sig) ==
  CASE r.st \notin {"run", "stop"} -> r
    [] sig = "STOP" -> IF r.st = "run" THEN [r EXCEPT !.st = "stop",
                                                      !.event = "stop"]
                       ELSE r
    [] sig = "CONT" -> IF r.st = "stop" THEN [r EXCEPT !.st = "run",
                                                       !.event = "cont"]
                       ELSE r
    [] sig \in {"TERM", "HUP"} /\ r.pend # "none" -> r
    [] OTHER -> [r EXCEPT !.pend = sig]

KillGroups(G, sigs) ==
  [p \in Pids |->
     IF proc[p].pgid \notin G THEN proc[p]
     ELSE IF Len(sigs) = 1 THEN Signalled(proc[p], sigs[1])
     ELSE Signalled(Signalled(proc[p], sigs[1]), sigs[2])]

Exit(p) ==
  /\ proc[p].st = "run"
  /\ proc' = [proc EXCEPT ![p] = Dead(@, Exited(OwnExit))]
  /\ UNCHANGED <<shell, history>>

Deliver(p) ==
  /\ \/ proc[p].st = "run" /\ proc[p].pend # "none"
     \/ proc[p].st = "stop" /\ proc[p].pend = "KILL"
  /\ proc' = [proc EXCEPT ![p] = Dead(@, Signaled(SignalNumber[@.pend]))]
  /\ UNCHANGED <<shell, history>>

(* SIGTTIN/SIGTTOU on terminal access, ^Z, or a stop from elsewhere; a     *)
(* stopped process resumed from elsewhere.                                 *)
Stop(p) ==
  /\ OwnStops /\ proc[p].st = "run" /\ proc[p].pgid # ShellGroup
  /\ proc' = [proc EXCEPT ![p] = Signalled(@, "STOP")]
  /\ UNCHANGED <<shell, history>>

Continue(p) ==
  /\ OwnStops /\ proc[p].st = "stop"
  /\ proc' = [proc EXCEPT ![p] = Signalled(@, "CONT")]
  /\ typed' = typed \ {p}
  /\ UNCHANGED <<shell, launched, told, swept, shown, turns>>

(* A shell step that makes no system call commutes with every step of a    *)
(* child, so the kernel waits for the shell to reach its next call.        *)
Local == {"notify", "range", "announce", "bgadd", "next", "jobs", "gone"}

Kernel == pc \notin Local /\ \E p \in Pids : Exit(p) \/ Deliver(p) \/ Stop(p) \/ Continue(p)

-----------------------------------------------------------------------------
(* The ring of remembered statuses (execution/bg_done.c).                  *)

RingSlots == 0 .. RingSize - 1
EmptyRing == [slot |-> [i \in RingSlots |-> [pid |-> 0, raw |-> NoStatus]],
              next |-> 0]

Remembered(p) == {i \in RingSlots : ring.slot[i].pid = p}

(* Mutant: the ring index is not wrapped.                                  *)
Pushed_unwrapped(p, w) ==
  [slot |-> [ring.slot EXCEPT ![ring.next] = [pid |-> p, raw |-> w]],
   next |-> ring.next + 1]

Pushed(p, w) == [slot |-> [ring.slot EXCEPT ![ring.next] = [pid |-> p, raw |-> w]],
                 next |-> (ring.next + 1) % RingSize]

(* bg_done_take: the first entry for p in array order is consumed.         *)
Taken(r, p) ==
  LET hits == {i \in RingSlots : r.slot[i].pid = p}
  IN  IF hits = {} THEN r ELSE [r EXCEPT !.slot[Least(hits)].pid = 0]

(* The job of group p, if any, learns the status: the first slot matches.  *)
TableLearns(T, p, w) ==
  IF job_find_pgid(T, p) = {} THEN T
  ELSE job_record_exit(T, Least(job_find_pgid(T, p)), w)

(* Mutant: the ring remembers, the table is not told.                      *)
bg_done_record_ring_only(p, w) == ring' = Pushed(p, w) /\ UNCHANGED table

bg_done_record(p, w) ==
  /\ ring' = Pushed(p, w)
  /\ table' = TableLearns(table, p, w)

-----------------------------------------------------------------------------
(* Moving the shell.                                                       *)

(* bg_job_count > 0: it only ever counts the forks of `&`.                 *)
bgCount == lastBg # 0

Goto(label) == pc' = label
At(label) == pc = label

(* A round of job_update_status, then on at `label`.  A table with nothing *)
(* left to ask about needs no system call (the callers that test count > 0 *)
(* first only save the walk over an empty table).                          *)
PollThen(label) ==
  IF Unfinished(table) = {} THEN Goto(label) /\ UNCHANGED <<after, cursor>>
  ELSE pc' = "poll" /\ after' = label /\ cursor' = Least(Unfinished(table))

polling == <<after, cursor>>
exiting == <<rounds, warned, attempt>>
fgvars == <<stages, todo>>

-----------------------------------------------------------------------------
Init ==
  /\ proc = [p \in Pids |-> Unborn]
  /\ table = job_table_init
  /\ ring = EmptyRing
  /\ lastBg = 0
  /\ pc = "prompt" /\ after = "prompt" /\ cursor = 1
  /\ target = 0 /\ stages = <<>> /\ todo = 0
  /\ rounds = 0 /\ warned = FALSE /\ attempt = FALSE
  /\ reply = NoReply
  /\ launched = {} /\ told = {} /\ swept = {} /\ shown = [p \in Pids |-> 0]
  /\ typed = {} /\ turns = 2

-----------------------------------------------------------------------------
(* job_update_status: one waitpid(-pgid, WNOHANG|WUNTRACED|WCONTINUED) for *)
(* each job that has not finished, filed by job_reap_record.               *)

(* Mutant: the poll records into the table alone (the old bug).            *)
job_reap_record_table_only(s, w) ==
  table' = job_record_exit(table, s, w) /\ UNCHANGED ring

job_reap_record(s, w) ==
  IF w.how \in {"stop", "cont"}
  THEN table' = job_record_exit(table, s, w) /\ UNCHANGED ring
  ELSE bg_done_record(table.jobs[s].pgid, w)

PollSlot ==
  LET member == Ready(Group(table.jobs[cursor].pgid), TRUE, TRUE)
      rest == {s \in Unfinished(table) : s > cursor}
  IN
  /\ At("poll")
  /\ IF member # {}
     THEN \E q \in member : Collect(q) /\ job_reap_record(cursor, WordOf(q))
     ELSE UNCHANGED <<proc, table, ring>>
  /\ IF rest = {} THEN Goto(after) /\ cursor' = 1 /\ after' = "prompt"
     ELSE cursor' = Least(rest) /\ UNCHANGED <<pc, after>>
  /\ UNCHANGED <<lastBg, target, fgvars, exiting, reply, history>>

-----------------------------------------------------------------------------
(* The read-eval-print loop.                                               *)

Printed(S) == shown' = [p \in Pids |->
                          IF p \in S /\ shown[p] < 2 THEN shown[p] + 1 ELSE shown[p]]
GroupsOf(S) == {table.jobs[s].pgid : s \in S}

(* Mutant: the warning is never aged, as before issue #58.                 *)
Prompt_unaged ==
  /\ At("prompt")
  /\ IF Interactive THEN PollThen("notify")
     ELSE Goto("line") /\ UNCHANGED polling
  /\ turns' = IF turns < 2 THEN turns + 1 ELSE 2
  /\ UNCHANGED <<kernel, table, ring, lastBg, target, fgvars, exiting,
                 reply, launched, told, swept, shown, typed>>

(* open_cycle, then job_notify's poll; a script does neither.              *)
Prompt ==
  /\ At("prompt")
  /\ warned' = attempt /\ attempt' = FALSE
  /\ IF Interactive THEN PollThen("notify")
     ELSE Goto("line") /\ UNCHANGED polling
  /\ turns' = IF turns < 2 THEN turns + 1 ELSE 2
  /\ UNCHANGED <<kernel, table, ring, lastBg, target, fgvars, rounds,
                 reply, launched, told, swept, shown, typed>>

(* Mutant: the prompt retires jobs as wait does, one line for all of them. *)
job_notify_first ==
  LET news == {s \in Finished(table) : ~table.jobs[s].notified}
  IN
  /\ At("notify") /\ Goto("line")
  /\ table' = job_purge_done(table)
  /\ Printed(IF news = {} THEN {} ELSE GroupsOf({Least(news)}))
  /\ UNCHANGED <<kernel, ring, lastBg, polling, target, fgvars,
                 exiting, reply, launched, told, swept, typed, turns>>

(* The rest of job_notify: print what finished, then retire it.            *)
job_notify ==
  LET news == {s \in Finished(table) : ~table.jobs[s].notified}
  IN
  /\ At("notify") /\ Goto("line")
  /\ table' = job_purge_reported(Notified(table, news))
  /\ Printed(GroupsOf(news))
  /\ UNCHANGED <<kernel, ring, lastBg, polling, target, fgvars,
                 exiting, reply, launched, told, swept, typed, turns>>

(* The user types a line: a list of one or more ranges.                    *)
ReadLine ==
  /\ At("line") /\ Goto("begin")
  /\ UNCHANGED <<kernel, table, ring, lastBg, polling, target, fgvars,
                 exiting, reply, history>>

(* reap_background_children, at both ends of every list.                   *)
reap_background_children ==
  /\ pc \in {"begin", "end"}
  /\ IF bgCount /\ \E p \in Children : Zombie(p)
     THEN /\ \E p \in Children :
               Zombie(p) /\ Collect(p) /\ bg_done_record(p, WordOf(p))
          /\ UNCHANGED pc
     ELSE /\ Goto(IF At("begin") THEN "range" ELSE "prompt")
          /\ UNCHANGED <<proc, table, ring>>
  /\ UNCHANGED <<lastBg, polling, target, fgvars, exiting, reply,
                 history>>

(* run_list_range: job_notify_async first, in a script that has jobs.      *)
RangeStart ==
  /\ At("range")
  /\ IF Interactive THEN Goto("command") /\ UNCHANGED polling
     ELSE IF table.count = 0 THEN Goto("command") /\ UNCHANGED polling
     ELSE PollThen("announce")
  /\ UNCHANGED <<kernel, table, ring, lastBg, target, fgvars, exiting,
                 reply, history>>

sig_worth_announcing(n) == n \notin {2, 3, 13, 15}   \* INT QUIT PIPE TERM

(* Deaths by a signal worth a line are announced and retired at once.      *)
job_notify_async ==
  LET news == {s \in WithStatus(table, "killed") :
                 ~table.jobs[s].notified
                 /\ sig_worth_announcing(table.jobs[s].raw.n)}
  IN
  /\ At("announce") /\ Goto("command")
  /\ table' = job_remove(table, news)
  /\ Printed(GroupsOf(news))
  /\ UNCHANGED <<kernel, ring, lastBg, polling, target, fgvars,
                 exiting, reply, launched, told, swept, typed, turns>>

(* Another range of the same list, or its end.                             *)
RangeEnd ==
  /\ At("next") /\ (Goto("range") \/ Goto("end"))
  /\ reply' = NoReply /\ target' = 0
  /\ UNCHANGED <<kernel, table, ring, lastBg, polling, fgvars, exiting,
                 history>>

-----------------------------------------------------------------------------
(* `cmd &`: fork, own group (both sides of the fork see to it), $!, then a *)
(* poll if there are jobs, then the table entry.                           *)

Fresh == {p \in Pids : proc[p].st = "none"}

execute_range_background ==
  /\ At("command") /\ Fresh # {}
  /\ LET p == Least(Fresh)
     IN  /\ proc' = [proc EXCEPT ![p] = Forked(p)]
         /\ lastBg' = p /\ target' = p
         /\ launched' = launched \cup {p}
  /\ PollThen("bgadd")
  /\ UNCHANGED <<table, ring, fgvars, exiting, reply, told, swept, shown, typed,
                 turns>>

BackgroundAdded ==
  /\ At("bgadd") /\ Goto("next")
  /\ table' = job_add(table, target)
  /\ UNCHANGED <<kernel, ring, lastBg, polling, target, fgvars,
                 exiting, reply, history>>

-----------------------------------------------------------------------------
(* Foreground pipelines.                                                   *)

execute_pipeline ==
  /\ At("command")
  /\ \E k \in 1 .. MaxStages :
       /\ Cardinality(Fresh) >= k
       /\ todo' = k
       /\ IF k > 1 THEN PollThen("stage") ELSE Goto("stage") /\ UNCHANGED polling
  /\ stages' = <<>>
  /\ UNCHANGED <<kernel, table, ring, lastBg, target, exiting, reply,
                 history>>

(* jc_child/jc_parent: the first stage leads a group of its own, the others *)
(* join it while it has a member; a script's stages stay in the shell's.   *)
StageGroup(p) ==
  IF ~Interactive THEN ShellGroup
  ELSE IF stages = <<>> THEN p
  ELSE IF Group(stages[1]) # {} THEN stages[1]
  ELSE ShellGroup

ForkStage ==
  /\ At("stage") /\ Fresh # {}
  /\ LET p == Least(Fresh)
     IN  /\ proc' = [proc EXCEPT ![p] = Forked(StageGroup(p))]
         /\ stages' = Append(stages, p)
  /\ todo' = todo - 1
  /\ Goto(IF todo = 1 THEN "fgwait" ELSE "stage")
  /\ UNCHANGED <<table, ring, lastBg, polling, target, exiting, reply,
                 history>>

(* The words of a later stage hold a $( ) body simple enough to run in this *)
(* process (cmdsub_fast): its list reaps like any other.                   *)
ExpandInParent ==
  /\ At("stage") /\ ParentExpands /\ stages # <<>> /\ bgCount
  /\ \E p \in Children :
       Zombie(p) /\ Collect(p) /\ bg_done_record(p, WordOf(p))
  /\ UNCHANGED <<lastBg, pc, polling, target, fgvars, exiting, reply,
                 history>>

(* fg_job_stopped: the stage's group becomes a job, marked stopped.        *)
fg_job_stopped(p) ==
  LET free == Slots \ Occupied(table)
  IN  table' = IF free = {} THEN table
               ELSE job_record_exit(job_add(table, proc[p].pgid),
                                    Least(free), StoppedWord)

(* pipeline_status: wait each stage in turn with WUNTRACED.  A stage that  *)
(* someone else collected keeps exe_res_set_status in its loop for ever.   *)
exe_res_set_status ==
  /\ At("fgwait") /\ stages # <<>>
  /\ LET p == Head(stages)
     IN  /\ p \in Ready({p}, TRUE, FALSE)
         /\ Collect(p)
         /\ IF Zombie(p) THEN UNCHANGED table ELSE fg_job_stopped(p)
  /\ stages' = Tail(stages)
  /\ UNCHANGED <<ring, lastBg, pc, polling, target, todo, exiting,
                 reply, history>>

PipelineDone ==
  /\ At("fgwait") /\ stages = <<>> /\ Goto("next")
  /\ UNCHANGED <<kernel, table, ring, lastBg, polling, target, fgvars,
                 exiting, reply, history>>

-----------------------------------------------------------------------------
(* wait.  A pid argument is one the user was given, by $! or by `&`; a     *)
(* jobspec resolves to its job's group, the pid of the group's leader.     *)

builtin_wait ==
  /\ At("command")
  /\ \/ \E p \in launched \cup GroupsOf(Occupied(table)) :
          p # ShellGroup /\ target' = p /\ Goto("waitOne")
     \/ UNCHANGED target /\ Goto("waitNext")
     \/ UNCHANGED target /\ Goto(IF Interactive THEN "waitDrain" ELSE "waitDrain0")
  /\ UNCHANGED <<kernel, table, ring, lastBg, polling, fgvars,
                 exiting, reply, history>>

Answer(p, code) == reply' = [pid |-> p, code |-> code]

(* wait_one, the child is there to be collected.                           *)
wait_one ==
  LET p == target
      T == TableLearns(table, p, proc[p].raw)
  IN
  /\ At("waitOne") /\ Zombie(p) /\ Goto("next")
  /\ Collect(p)
  /\ ring' = Taken(Pushed(p, proc[p].raw), p)
  /\ table' = job_purge_done(T)
  /\ Answer(p, CodeOf(proc[p].raw)) /\ told' = told \cup {p}
  /\ UNCHANGED <<lastBg, polling, target, fgvars, exiting, launched,
                 swept, shown, typed, turns>>

(* wait_one, waitpid() failed: the status is in the ring, else in the      *)
(* table, else unknown; whichever has it gives it up.                      *)
reaped_job_status ==
  LET p == target
      job == IF job_find_pgid(table, p) = {} THEN {}
             ELSE {Least(job_find_pgid(table, p))}
      hits == Remembered(p)
      over == {s \in job : job_finished(table.jobs[s])}
      code == IF hits # {}
              THEN LET w == ring.slot[Least(hits)].raw
                   IN  IF w.how \in {"exit", "sig"} THEN CodeOf(w) ELSE 127
              ELSE IF over # {} THEN table.jobs[Least(over)].code
              ELSE 127
  IN
  /\ At("waitOne") /\ ~Unreaped(p) /\ Goto("next")
  /\ ring' = Taken(ring, p)
  /\ table' = IF hits # {} THEN job_remove(table, job) ELSE job_remove(table, over)
  /\ Answer(p, code)
  /\ told' = IF code = 127 THEN told ELSE told \cup {p}
  /\ UNCHANGED <<kernel, lastBg, polling, target, fgvars, exiting,
                 launched, swept, shown, typed, turns>>

(* Mutant: wait -n does not notice that there is nothing to wait for.      *)
wait_n_stubborn ==
  /\ At("waitNext") /\ Goto("next")
  /\ \E p \in Children :
       /\ Zombie(p) /\ Collect(p)
       /\ ring' = Taken(Pushed(p, proc[p].raw), p)
       /\ table' = job_purge_done(TableLearns(table, p, proc[p].raw))
       /\ Answer(p, CodeOf(proc[p].raw)) /\ told' = told \cup {p}
  /\ UNCHANGED <<lastBg, polling, target, fgvars, exiting, launched, swept,
                 shown, typed, turns>>

(* wait -n.                                                                *)
wait_n ==
  /\ At("waitNext") /\ Goto("next")
  /\ \/ \E p \in Children :
          /\ Zombie(p) /\ Collect(p)
          /\ ring' = Taken(Pushed(p, proc[p].raw), p)
          /\ table' = job_purge_done(TableLearns(table, p, proc[p].raw))
          /\ Answer(p, CodeOf(proc[p].raw)) /\ told' = told \cup {p}
     \/ /\ Children = {}
        /\ Answer(0, 127)
        /\ UNCHANGED <<proc, ring, table, told>>
  /\ UNCHANGED <<lastBg, polling, target, fgvars, exiting, launched,
                 swept, shown, typed, turns>>

(* A bare wait collects p: remembered and forgotten at once.               *)
Sweep(p) ==
  /\ Zombie(p) /\ Collect(p)
  /\ ring' = Taken(Pushed(p, proc[p].raw), p)
  /\ swept' = swept \cup {p}

(* The end of a bare wait: a script retires what died, $! excepted.        *)
WaitAllEnd ==
  /\ Goto("next")
  /\ table' = IF Interactive THEN table
              ELSE job_purge_reported(job_mark_reported_except(table, lastBg))
  /\ UNCHANGED <<proc, ring, swept>>

(* wait_drain: without blocking (waitDrain0), then blocking to the end.    *)
wait_drain ==
  /\ \/ /\ pc \in {"waitDrain0", "waitDrain"}
        /\ \E p \in Children :
             Sweep(p) /\ table' = TableLearns(table, p, proc[p].raw)
        /\ UNCHANGED pc
     \/ /\ At("waitDrain0") /\ ~\E p \in Children : Zombie(p)
        /\ Goto("waitOrder") /\ UNCHANGED <<proc, table, ring, swept>>
     \/ At("waitDrain") /\ Children = {} /\ WaitAllEnd
  /\ UNCHANGED <<lastBg, polling, target, fgvars, exiting, reply,
                 launched, told, shown, typed, turns>>

(* The lowest-numbered unfinished job is the one wait is blocked on: only  *)
(* its death counts as reported by wait.                                   *)
wait_in_order ==
  LET head == ByNumber(table, Unfinished(table))
  IN
  /\ At("waitOrder")
  /\ \/ /\ Unfinished(table) # {}
        /\ \E p \in Children :
             /\ Sweep(p)
             /\ LET T == TableLearns(table, p, proc[p].raw)
                IN  table' = IF p = table.jobs[head].pgid
                             THEN Notified(T, {Least(job_find_pgid(T, p))})
                             ELSE T
        /\ UNCHANGED pc
     \/ /\ Unfinished(table) = {} \/ Children = {}
        /\ Goto("waitDrain") /\ UNCHANGED <<proc, table, ring, swept>>
  /\ UNCHANGED <<lastBg, polling, target, fgvars, exiting, reply,
                 launched, told, shown, typed, turns>>

-----------------------------------------------------------------------------
(* jobs, and jobs -p, which reports nothing.                               *)

builtin_jobs ==
  /\ At("command") /\ (PollThen("jobs") \/ PollThen("next"))
  /\ UNCHANGED <<kernel, table, ring, lastBg, target, fgvars, exiting,
                 reply, history>>

(* In number order, each finished job not yet reported: retire_reported.   *)
(* Then the reported ones leave the table.                                 *)
ListJobs ==
  LET news == {s \in Finished(table) : ~table.jobs[s].notified}
      s == ByNumber(table, news)
      j == table.jobs[s]
  IN
  /\ At("jobs")
  /\ IF news # {}
     THEN /\ ring' = Pushed(j.pgid, j.raw)
          /\ table' = TableLearns(Notified(table, {s}), j.pgid, j.raw)
          /\ Printed({j.pgid})
          /\ UNCHANGED pc
     ELSE /\ table' = job_purge_reported(table)
          /\ Goto("next")
          /\ UNCHANGED <<ring, shown>>
  /\ UNCHANGED <<kernel, lastBg, polling, target, fgvars, exiting,
                 reply, launched, told, swept, typed, turns>>

-----------------------------------------------------------------------------
(* fg, bg, kill.                                                           *)

builtin_fg ==
  /\ At("command") /\ Goto("fg")
  /\ \E s \in Occupied(table) :
       /\ FgFinished \/ s \in Unfinished(table)
       /\ target' = s
       /\ table' = [table EXCEPT !.jobs[s].status = "running"]
       /\ proc' = KillGroups({table.jobs[s].pgid}, <<"CONT">>)
  /\ UNCHANGED <<ring, lastBg, polling, fgvars, exiting, reply, history>>

(* With nobody left in the group waitpid() fails and leaves `status`       *)
(* uninitialised: any word.                                                *)
AnyWord == {StoppedWord, Exited(0)}

fg_wait_result ==
  LET g == table.jobs[target].pgid
      result(w) == /\ table' = IF w.how = "stop"
                               THEN [table EXCEPT !.jobs[target].status = "stopped"]
                               ELSE job_remove(table, {target})
                   /\ Answer(g, IF w.how = "stop" THEN 148 ELSE CodeOf(w))
  IN
  /\ At("fg") /\ Goto("next")
  /\ \/ \E q \in Ready(Group(g), TRUE, FALSE) :
          /\ Collect(q) /\ result(WordOf(q))
          /\ told' = IF Zombie(q) THEN told \cup {q} ELSE told
     \/ /\ Group(g) = {}
        /\ \E w \in AnyWord : result(w)
        /\ UNCHANGED <<proc, told>>
  /\ UNCHANGED <<ring, lastBg, polling, target, fgvars, exiting,
                 launched, swept, shown, typed, turns>>

builtin_bg ==
  /\ At("command") /\ Goto("next")
  /\ \E s \in WithStatus(table, "stopped") :
       /\ table' = [table EXCEPT !.jobs[s].status = "running"]
       /\ proc' = KillGroups({table.jobs[s].pgid}, <<"CONT">>)
  /\ UNCHANGED <<ring, lastBg, polling, target, fgvars, exiting, reply,
                 history>>

(* kill %n: a job the TABLE calls stopped is continued after the signal.   *)
job_kill_group ==
  /\ At("command") /\ Goto("next")
  /\ \E s \in Occupied(table), sig \in Kills :
       /\ Group(table.jobs[s].pgid) # {}
       /\ proc' = KillGroups({table.jobs[s].pgid},
                             IF table.jobs[s].status = "stopped" /\ sig # "STOP"
                             THEN <<sig, "CONT">> ELSE <<sig>>)
  /\ UNCHANGED <<table, ring, lastBg, polling, target, fgvars, exiting,
                 reply, history>>

-----------------------------------------------------------------------------
(* Leaving: the exit builtin, ^D or the end of a script's input.           *)

(* exit_stopped_guard polls first, unless the user was warned last turn.   *)
StoppedNow == {p \in Pids : proc[p].st = "stop"}

builtin_exit ==
  /\ At("command")
  /\ IF Interactive /\ ~warned THEN PollThen("guardExit") /\ typed' = StoppedNow
     ELSE Goto("gone") /\ UNCHANGED <<polling, typed>>
  /\ UNCHANGED <<kernel, table, ring, lastBg, target, fgvars, exiting,
                 reply, launched, told, swept, shown, turns>>

(* Mutant: ^D consults the table as it stands, without a poll.             *)
handle_eof_unpolled ==
  /\ At("line")
  /\ IF Interactive /\ ~warned THEN Goto("guardEof") /\ typed' = StoppedNow
     ELSE Goto("off") /\ UNCHANGED typed
  /\ UNCHANGED <<kernel, table, ring, lastBg, polling, target, fgvars, exiting,
                 reply, launched, told, swept, shown, turns>>

handle_eof ==
  /\ At("line")
  /\ IF Interactive /\ ~warned THEN PollThen("guardEof") /\ typed' = StoppedNow
     ELSE Goto("off") /\ UNCHANGED <<polling, typed>>
  /\ UNCHANGED <<kernel, table, ring, lastBg, target, fgvars, exiting,
                 reply, launched, told, swept, shown, turns>>

exit_stopped_guard ==
  LET eof == At("guardEof")
  IN
  /\ pc \in {"guardEof", "guardExit"}
  /\ IF WithStatus(table, "stopped") # {}
     THEN /\ warned' = TRUE /\ attempt' = TRUE
          /\ typed' = {} /\ turns' = 0
          /\ Goto(IF eof THEN "prompt" ELSE "next")
     ELSE /\ UNCHANGED <<warned, attempt, typed, turns>>
          /\ Goto(IF eof THEN "off" ELSE "gone")
  /\ UNCHANGED <<kernel, table, ring, lastBg, polling, target, fgvars,
                 rounds, reply, launched, told, swept, shown>>

(* jobs_hangup_on_exit, from off(): SIGHUP then SIGCONT to every job still *)
(* alive, then a bounded number of polls for them to go.                   *)
hangup_every_job ==
  /\ At("off")
  /\ IF Interactive /\ Unfinished(table) # {}
     THEN Goto("hangup")
          /\ proc' = KillGroups(GroupsOf(Unfinished(table)), <<"HUP", "CONT">>)
     ELSE Goto("gone") /\ UNCHANGED proc
  /\ UNCHANGED <<table, ring, lastBg, polling, target, fgvars, exiting,
                 reply, history>>

(* Mutant: the drain is not bounded.                                       *)
AwaitHangup_unbounded ==
  /\ At("hangup")
  /\ IF Unfinished(table) # {} THEN PollThen("hangup")
     ELSE Goto("gone") /\ UNCHANGED polling
  /\ UNCHANGED <<kernel, table, ring, lastBg, target, fgvars, exiting, reply,
                 history>>

AwaitHangup ==
  /\ At("hangup")
  /\ IF rounds < HangupRounds /\ Unfinished(table) # {}
     THEN rounds' = rounds + 1 /\ PollThen("hangup")
     ELSE Goto("gone") /\ UNCHANGED <<rounds, polling>>
  /\ UNCHANGED <<kernel, table, ring, lastBg, target, fgvars, warned,
                 attempt, reply, history>>

-----------------------------------------------------------------------------
(* The steps the shell takes by itself, and the commands the user gives.   *)
Internal ==
  \/ PollSlot \/ Prompt \/ job_notify \/ reap_background_children
  \/ RangeStart \/ job_notify_async \/ RangeEnd \/ BackgroundAdded
  \/ ForkStage \/ ExpandInParent \/ exe_res_set_status \/ PipelineDone
  \/ wait_one \/ reaped_job_status \/ wait_n \/ wait_drain \/ wait_in_order
  \/ ListJobs \/ fg_wait_result
  \/ exit_stopped_guard \/ hangup_every_job \/ AwaitHangup

Command ==
  \/ execute_range_background \/ execute_pipeline
  \/ builtin_wait \/ builtin_jobs \/ builtin_fg \/ builtin_bg \/ job_kill_group
  \/ builtin_exit

User == ReadLine \/ handle_eof \/ Command

Next == Kernel \/ Internal \/ User

Spec == Init /\ [][Next]_vars

(* The shell always takes its next step: it never sits between two system  *)
(* calls.  Nothing is asked of the user, nor of the processes.             *)
FairSpec == Spec /\ WF_vars(Internal)

-----------------------------------------------------------------------------
(* Properties.                                                             *)

ProcessStates == {"none", "run", "stop", "zombie", "reaped"}
Labels == {"prompt", "poll", "notify", "line", "begin", "range", "announce",
           "command", "bgadd", "stage", "fgwait", "waitOne", "waitNext",
           "waitDrain0", "waitOrder", "waitDrain", "jobs", "fg", "guardExit",
           "guardEof", "off", "hangup", "next", "end", "gone"}

(* Every variable keeps the shape its declaration in incs/ and the kernel  *)
(* give it.                                                                *)
TypeOK ==
  /\ proc \in [Pids -> [st : ProcessStates, pgid : 0 .. NPids + 1,
                        raw : StatusWord,
                        pend : {"none", "HUP", "TERM", "KILL"},
                        event : {"none", "stop", "cont"}]]
  /\ table \in Table
  /\ ring \in [slot : [RingSlots -> [pid : Nat, raw : StatusWord]],
               next : RingSlots]
  /\ lastBg \in Nat
  /\ pc \in Labels /\ after \in Labels /\ cursor \in Slots
  /\ target \in Nat /\ stages \in Seq(Pids) /\ todo \in Int
  /\ rounds \in Nat /\ warned \in BOOLEAN /\ attempt \in BOOLEAN
  /\ reply \in [pid : Nat, code : Nat]
  /\ launched \subseteq Pids /\ told \subseteq Pids /\ swept \subseteq Pids
  /\ shown \in [Pids -> 0 .. 2] /\ typed \subseteq Pids /\ turns \in 0 .. 2

(* The table stays well formed through every interleaving of polls, reaps, *)
(* listings and removals: numbers unique, count exact, markers alive.      *)
TableWellFormed ==
  NumbersUnique(table) /\ CountExact(table) /\ MarkersNameJobs(table)

(* The loops of src/job_control compute what the definitions of JobTable   *)
(* say: searches find the same job, and no order of removals lets '+' or   *)
(* '-' come to rest on a job that is going too (job_id.c, job_utils.c,     *)
(* job_wait.c).                                                            *)
LoopsAgree == SearchesAgree(table) /\ RemovalsAgree(table)

(* While some job is alive, `%%` names a job: a removal never leaves the   *)
(* shell without a current job when job_reelect could have found one.      *)
CurrentElected == Unfinished(table) # {} => table.current # NoJob

(* The code wait or fg answers with for a pid is the one the process died  *)
(* with, however it was collected: poll, reap, ring, table or waitpid.     *)
(* (127 is "unknown", 148 a job that stopped again under fg.)              *)
ReplyTruthful ==
  reply.pid \in Pids /\ reply.code \notin {127, 148}
    => LET r == proc[reply.pid]
       IN  /\ r.st = "reaped"
           /\ r.raw.how = "exit" => reply.code = r.raw.n
           /\ r.raw.how = "sig"  => reply.code = 128 + r.raw.n

(* An exit status is never lost: `wait` answers 127 for a pid only if its  *)
(* status was handed out before (job_reap_record's "durable half").        *)
NothingLost ==
  reply.pid \in Pids /\ reply.code = 127 => reply.pid \in told \cup swept

(* An entry that is over, from which the prompt, the script's announcement *)
(* and `jobs` print their line and wait may answer, is about a process     *)
(* that was collected, with the word and the code it died with.            *)
EndsTruthful ==
  \A s \in Finished(table) :
    LET j == table.jobs[s]
    IN  /\ j.pgid \in Pids /\ proc[j.pgid].st = "reaped"
        /\ j.raw = proc[j.pgid].raw /\ j.code = CodeOf(j.raw)

(* The end of a process is printed at most once, whichever of those three  *)
(* gets to it first, and not before the process is over.                   *)
ShownOnce ==
  \A p \in Pids : shown[p] # 0 => shown[p] = 1 /\ proc[p].st = "reaped"

(* The code that wait or fg answers with for a child, and the status its   *)
(* line on the terminal is made from, are what it died with, and the line  *)
(* is printed at most once.  An answer may come twice: of a status that    *)
(* `jobs` listed in between (res_status, job_reap_record, job_notify).     *)
StatusTold == ReplyTruthful /\ EndsTruthful /\ ShownOnce

(* No end goes by in silence: a job leaves the table only when its line    *)
(* was printed or its status handed out (job_notify, retire_reported,      *)
(* fg_wait_result).  A wait is left out, which retires jobs over the user's *)
(* head: of one child every job that is over (job_purge_done), of all of a  *)
(* script's those that died before it (job_mark_reported_except).          *)
NoSilentEnd ==
  [][\A p \in GroupsOf(Occupied(table)) :
       p \in GroupsOf(Occupied(table))' \/ pc \in {"waitOne", "waitNext", "waitDrain"}
         \/ shown'[p] # 0 \/ p \in (told \cup swept)']_vars

(* No ghost: an entry still shown as alive has a process left to hear      *)
(* from, so a later poll or wait can retire it.                            *)
NoGhost ==
  \A s \in Unfinished(table) : Group(table.jobs[s].pgid) # {}

(* What the table says of a job is what the kernel last told the shell: a  *)
(* difference means an event is still there to be collected.               *)
TableTracks ==
  \A s \in Occupied(table) :
    LET p == table.jobs[s].pgid
    IN  p \in Pids /\ proc[p].event = "none" =>
          /\ proc[p].st = "stop" => table.jobs[s].status = "stopped"
          /\ proc[p].st = "run"  => table.jobs[s].status = "running"

(* What the ring remembers is the word of a process that was collected,    *)
(* and of the one it names.                                                *)
RingTruthful ==
  \A i \in RingSlots :
    LET r == ring.slot[i]
    IN  r.pid # 0 => r.pid \in Pids /\ proc[r.pid].st = "reaped" /\ r.raw = proc[r.pid].raw

(* Every entry of the table is what the kernel last said of a process      *)
(* there still is, every entry of the ring what it said of one it reported *)
(* dead (job_record_exit, bg_done_record).                                 *)
EntriesTrue == TableTracks /\ NoGhost /\ RingTruthful

Leaves == pc \notin {"off", "hangup", "gone"} /\ pc' \in {"off", "gone"}

(* The guard asks twice in a row: an interactive shell leaves over a job   *)
(* it knows to be stopped only in the turn of a refusal or the next one.   *)
ExitAsksTwice ==
  [][Leaves /\ Interactive /\ WithStatus(table, "stopped") # {}
       => turns <= 1]_vars

StillStopped == {p \in typed : proc[p].st = "stop"}

(* The guard does not depend on how fast the user types (issue #58): a job *)
(* stopped when the exit was typed, and ever since, is never left behind   *)
(* without a word.                                                         *)
GuardHonest ==
  [][Leaves => \A s \in Occupied(table) : table.jobs[s].pgid \notin StillStopped]_vars

(* Leaving an interactive shell asks twice over stopped jobs, whatever the *)
(* user's speed (exit_jobs.c, input.c).                                    *)
ExitHonest == ExitAsksTwice /\ GuardHonest

(* A foreground child is collected by its own wait and by nobody else: one *)
(* collected earlier keeps exe_res_set_status in its loop for ever.        *)
FgChildHeld ==
  At("fgwait") => \A i \in DOMAIN stages : proc[stages[i]].st # "reaped"

(* Leaving never hangs on a job that refuses to die.                       *)
HangupPatience == At("off") ~> At("gone")

(* The prompt catches up: if prompts keep coming, a job that stays running *)
(* or stopped is listed so, and a dead one does not stay a live entry.     *)
Reads(p, st) ==
  \A s \in job_find_pgid(table, p) :
    \/ st = "run" /\ table.jobs[s].status = "running"
    \/ st = "stop" /\ table.jobs[s].status = "stopped"
TableCatchesUp ==
  \A p \in Pids, st \in {"run", "stop", "zombie"} :
    []<>At("prompt") /\ <>[](proc[p].st = st) => <>[]Reads(p, st)

(* What a session owes in the end: a table that is up to date, and an exit *)
(* that is over (job_update_status, job_hangup.c).                         *)
SessionMovesOn == TableCatchesUp /\ HangupPatience

(* A wait whose processes all end comes to an end.                         *)
Waiting == pc \in {"waitOne", "waitNext", "waitDrain0", "waitOrder", "waitDrain"}
WaitReturns ==
  (\A p \in Pids : []<>(proc[p].st \notin {"run", "stop"}))
    => (Waiting ~> ~Waiting)
=============================================================================
