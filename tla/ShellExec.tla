------------------------------ MODULE ShellExec ------------------------------
(***************************************************************************)
(* The tree-walking executor (src/src/execution/): lists, and-or ranges,   *)
(* loops, if, { } always { }, functions, eval and traps.                   *)
(*                                                                         *)
(* break, continue and return are not exceptions in the C code.  They set  *)
(* a flag in the shell state, return normally, and every walker that       *)
(* matters polls the flags when its child comes back; loop_depth,          *)
(* func_depth, trap_depth and errexit_off are counters each walker raises  *)
(* and lowers around its children.  Signals arrive at any moment and sit   *)
(* in one slot until a list, between two of its ranges, looks.             *)
(*                                                                         *)
(* Not here: redirections, forks (JobControl), ^C unwinding, DEBUG traps   *)
(* and source, whose absence leaves the flags and counters below alone.    *)
(***************************************************************************)
EXTENDS ShellProg

CONSTANTS
  Programs,       \* records [main, f, trap, ERR, RETURN, EXIT, errexit, signals]
  Nodes,          \* their trees, and every part of them
  Interactive     \* metinp = INP_RL

ASSUME ShellExecAssumption ==
  /\ Interactive \in BOOLEAN
  /\ Parsed(Nodes)
  /\ \A p \in Programs : ScriptOf(p, Nodes)

VARIABLES
  prog, input,    \* the program; its top-level statements still to be read
  ctl, stack,     \* what the walk does next, the activations below it
  last,           \* last_cmd_st_exe, the value of $?
  loop_depth, loop_break, loop_continue,
  func_depth, func_return,
  errexit_off, trap_depth,
  traps,          \* which of the ERR, RETURN and EXIT slots are set
  pending,        \* g_trap_pending
  signals         \* signals received so far (at most prog.signals)

flags == <<loop_break, loop_continue, func_return>>
depths == <<loop_depth, func_depth, errexit_off, trap_depth>>
async == <<pending, signals>>
vars == <<prog, input, ctl, stack, last, flags, depths, traps, async>>

(* The three ways out of a body, saved together where the code saves them. *)
WaysOut == [fr |-> func_return, lb |-> loop_break, lc |-> loop_continue]
NoWayOut == [fr |-> FALSE, lb |-> 0, lc |-> 0]

(* `returned` is history: the call this frame belongs to executed return.  *)
CallFrame(saved) == [f |-> "call", saved |-> saved, returned |-> FALSE]
CleanupFrame(st, save) == [f |-> "cleanup", st |-> st, save |-> save]
(* `held` is history: the flags that the string found set when it began,   *)
(* unless a string further out had found them already.                     *)
HeldBelow == \E i \in Positions(stack, {"string"}) : stack[i].held # NoWayOut
StringFrame(todo, why, saved, st) ==
  [f |-> "string", todo |-> todo, why |-> why, saved |-> saved, st |-> st,
   held |-> IF HeldBelow THEN NoWayOut ELSE WaysOut]

Top == Head(stack)
Below == Tail(stack)
Back(f) == ctl.do = "status" /\ stack # <<>> /\ Top.f = f
Push(frame) == stack' = <<frame>> \o stack
Replace(frame) == stack' = <<frame>> \o Below
Pop == stack' = Below

-----------------------------------------------------------------------------
Init ==
  /\ prog \in Programs /\ input = prog.main
  /\ ctl = Idle /\ stack = <<>> /\ last = 0
  /\ loop_depth = 0 /\ loop_break = 0 /\ loop_continue = 0
  /\ func_depth = 0 /\ func_return = FALSE
  /\ errexit_off = 0 /\ trap_depth = 0
  /\ traps = [ERR |-> FALSE, RETURN |-> FALSE, EXIT |-> prog.EXIT # <<>>]
  /\ pending = 0 /\ signals = 0

(* exec_string(state, body): the first statement runs whatever the flags.  *)
exec_string(body, why, st) ==
  /\ Push(StringFrame(Tail(body), why, last, st)) /\ ctl' = Run(Head(body))

(* exit_clean, with the EXIT trap; it does not come back.                  *)
exit_clean(code) ==
  IF traps.EXIT
  THEN /\ traps' = [traps EXCEPT !.EXIT = FALSE]
       /\ stack' = <<StringFrame(Tail(prog.EXIT), "EXIT", last, code)>>
       /\ ctl' = Run(Head(prog.EXIT))
  ELSE ctl' = Gone(code) /\ stack' = <<>> /\ UNCHANGED traps

unwinding == func_return \/ loop_break > 0 \/ loop_continue > 0

-----------------------------------------------------------------------------
(* The input loop, and signals.                                            *)

execute_top_level ==
  \/ /\ ctl = Idle /\ input # <<>>
     /\ ctl' = Run(Head(input)) /\ input' = Tail(input)
     /\ UNCHANGED <<prog, stack, last, flags, depths, traps, async>>
  \/ /\ ctl = Idle /\ input = <<>>
     /\ exit_clean(last)
     /\ UNCHANGED <<prog, input, last, flags, depths, async>>
  \/ /\ ctl.do = "status" /\ stack = <<>>
     /\ ctl' = Idle /\ last' = ctl.st
     /\ UNCHANGED <<prog, input, stack, flags, depths, traps, async>>

trap_sighandler ==
  /\ prog.trap # <<>> /\ signals < prog.signals /\ ctl.do # "gone"
  /\ pending' = 1 /\ signals' = signals + 1
  /\ UNCHANGED <<prog, input, ctl, stack, last, flags, depths, traps>>

-----------------------------------------------------------------------------
(* Lists: range, pending traps, look at the flags, next range.             *)

execute_simple_list ==
  /\ ctl.do = "run" /\ ctl.node.k = "list"
  /\ Push(ListFrame(ctl.node.ranges)) /\ ctl' = [do |-> "range", st |-> 0]
  /\ UNCHANGED <<prog, input, last, flags, depths, traps, async>>

(* A range begins with status 0 and no operand run.                        *)
run_list_range ==
  /\ ctl.do = "range"
  /\ stack' = <<RangeFrame(Head(Top.todo), FALSE, FALSE, FALSE),
                ListFrame(Tail(Top.todo))>> \o Below
  /\ ctl' = Status(0)
  /\ UNCHANGED <<prog, input, last, flags, depths, traps, async>>

(* run_pending_traps: the slot is read, then zeroed, then looked at.       *)
ReadPending ==
  /\ Back("list")
  /\ ctl' = [do |-> "pending", st |-> ctl.st, sig |-> pending]
  /\ UNCHANGED <<prog, input, stack, last, flags, depths, traps, async>>

run_pending_traps ==
  /\ ctl.do = "pending" /\ pending' = 0
  /\ IF ctl.sig = 0
     THEN ctl' = [do |-> "next", st |-> ctl.st] /\ UNCHANGED stack
     ELSE exec_string(prog.trap, "signal", ctl.st)
  /\ UNCHANGED <<prog, input, last, flags, depths, traps, signals>>

(* Mutant: a list forgets to look at loop_continue.                        *)
NextRange_no_continue ==
  /\ ctl.do = "next"
  /\ IF func_return \/ loop_break > 0 \/ Top.todo = <<>>
     THEN Pop /\ ctl' = Status(ctl.st) /\ last' = ctl.st
     ELSE ctl' = [do |-> "range", st |-> 0] /\ UNCHANGED <<stack, last>>
  /\ UNCHANGED <<prog, input, flags, depths, traps, async>>

NextRange ==
  /\ ctl.do = "next"
  /\ IF unwinding \/ Top.todo = <<>>
     THEN Pop /\ ctl' = Status(ctl.st) /\ last' = ctl.st
     ELSE ctl' = [do |-> "range", st |-> 0] /\ UNCHANGED <<stack, last>>
  /\ UNCHANGED <<prog, input, flags, depths, traps, async>>

-----------------------------------------------------------------------------
(* And-or ranges and set -e.                                               *)

should_execute(st, op) ==
  CASE op = "&&" -> st = 0
    [] op = "||" -> st # 0
    [] OTHER     -> TRUE

(* Mutant: the depth is restored as if it were a flag (issue #121).        *)
execute_lhs_restore_flag(r) == IF r.lhs THEN Lesser(errexit_off, 1) ELSE errexit_off

(* The depth after an operand: the one before, if it was suppressed.       *)
execute_lhs_restore(r) == IF r.lhs THEN errexit_off - 1 ELSE errexit_off

(* The next operand of the range, run or skipped.                          *)
execute_range ==
  LET r == Top
      o == Head(r.todo)
      more == Len(r.todo) > 1
      run == should_execute(ctl.st, o.op)
      off == execute_lhs_restore(r)
  IN
  /\ Back("range") /\ r.todo # <<>>
  /\ last' = IF r.ran THEN ctl.st ELSE last
  /\ Replace(RangeFrame(Tail(r.todo), run, run /\ more, o.negate))
  /\ errexit_off' = IF run /\ more THEN off + 1 ELSE off
  /\ ctl' = IF run THEN [do |-> "pipeline", cmd |-> o.cmd, negate |-> o.negate]
            ELSE ctl
  /\ UNCHANGED <<prog, input, flags, loop_depth, func_depth, trap_depth,
                 traps, async>>

(* Mutant: set -e and ERR do not look at errexit_off.                      *)
errexit_ignores_deaf(st, r) == ~r.ran \/ st = 0 \/ r.neg \/ unwinding

errexit_ignores(st, r) ==
  errexit_off > 0 \/ ~r.ran \/ st = 0 \/ r.neg \/ unwinding

(* The end of the range: errexit_check, with the ERR trap first.           *)
errexit_check ==
  LET st == ctl.st
  IN
  /\ Back("range") /\ Top.todo = <<>>
  /\ last' = IF Top.ran THEN st ELSE last
  /\ IF errexit_ignores(st, Top)
     THEN Pop /\ UNCHANGED <<ctl, traps, trap_depth>>
     ELSE IF traps.ERR /\ trap_depth = 0
     THEN /\ stack' = <<StringFrame(Tail(prog.ERR), "ERR", last', st)>> \o Below
          /\ ctl' = Run(Head(prog.ERR))
          /\ trap_depth' = trap_depth + 1 /\ UNCHANGED traps
     ELSE IF prog.errexit THEN exit_clean(st) /\ UNCHANGED trap_depth
     ELSE Pop /\ UNCHANGED <<ctl, traps, trap_depth>>
  /\ UNCHANGED <<prog, input, flags, loop_depth, func_depth, errexit_off, async>>

(* pipeline_single: a negated command runs with set -e suspended.          *)
pipeline_single ==
  /\ ctl.do = "pipeline"
  /\ IF ctl.negate THEN Push(NotFrame) /\ errexit_off' = errexit_off + 1
     ELSE UNCHANGED <<stack, errexit_off>>
  /\ ctl' = Run(ctl.cmd)
  /\ UNCHANGED <<prog, input, last, flags, loop_depth, func_depth, trap_depth,
                 traps, async>>

negate_status ==
  /\ Back("not") /\ Pop
  /\ errexit_off' = errexit_off - 1
  /\ ctl' = IF unwinding THEN ctl ELSE Status(IF ctl.st = 0 THEN 1 ELSE 0)
  /\ UNCHANGED <<prog, input, last, flags, loop_depth, func_depth, trap_depth,
                 traps, async>>
(* Simple commands that set a flag, and the others.                        *)

Command(word) == ctl.do = "run" /\ ctl.node.k = "cmd" /\ ctl.node.word = word
arg == ctl.node.n

ext ==
  /\ Command("ext") /\ (ctl' = Status(0) \/ ctl' = Status(1))
  /\ UNCHANGED <<prog, input, stack, last, flags, depths, traps, async>>

ok ==
  /\ Command("ok") /\ ctl' = Status(0)
  /\ UNCHANGED <<prog, input, stack, last, flags, depths, traps, async>>

(* Mutant: break n is not clamped to the loops there are.                  *)
builtin_break_unclamped ==
  /\ Command("break") /\ ctl' = Status(IF arg < 1 THEN 1 ELSE 0)
  /\ loop_break' = IF arg < 1 \/ loop_depth = 0 THEN loop_break ELSE arg
  /\ UNCHANGED <<prog, input, stack, last, loop_continue, func_return, depths,
                 traps, async>>

builtin_break ==
  /\ Command("break") /\ ctl' = Status(IF arg < 1 THEN 1 ELSE 0)
  /\ loop_break' = IF arg < 1 \/ loop_depth = 0 THEN loop_break
                   ELSE Lesser(arg, loop_depth)
  /\ UNCHANGED <<prog, input, stack, last, loop_continue, func_return, depths,
                 traps, async>>

builtin_continue ==
  /\ Command("continue") /\ ctl' = Status(IF arg < 1 THEN 1 ELSE 0)
  /\ loop_continue' = IF arg < 1 \/ loop_depth = 0 THEN loop_continue
                      ELSE Lesser(arg, loop_depth)
  /\ UNCHANGED <<prog, input, stack, last, loop_break, func_return, depths,
                 traps, async>>

(* The innermost call returns, unless an eval or a trap body comes first.  *)
Returning == LET ends == Positions(stack, {"call", "string"})
                 i == CHOOSE i \in ends : \A j \in ends : i <= j
             IN  IF stack[i].f = "call" THEN [stack EXCEPT ![i].returned = TRUE]
                 ELSE stack

builtin_return ==
  /\ Command("return")
  /\ IF func_depth > 0
     THEN /\ func_return' = TRUE /\ ctl' = Status(arg)
          /\ stack' = Returning /\ UNCHANGED traps
     ELSE IF Interactive
     THEN ctl' = Status(2) /\ UNCHANGED <<func_return, stack, traps>>
     ELSE exit_clean(2) /\ UNCHANGED func_return
  /\ UNCHANGED <<prog, input, last, loop_break, loop_continue, depths, async>>

builtin_exit ==
  /\ Command("exit") /\ exit_clean(arg)
  /\ UNCHANGED <<prog, input, last, flags, depths, async>>

(* `trap ... ERR` or `trap ... RETURN`.                                    *)
set_one_trap ==
  /\ Command("trap") /\ ctl' = Status(0)
  /\ traps' = [traps EXCEPT ![ctl.node.slot] = TRUE]
  /\ UNCHANGED <<prog, input, stack, last, flags, depths, async>>

builtin_eval ==
  /\ ctl.do = "run" /\ ctl.node.k = "eval"
  /\ exec_string(ctl.node.body, "eval", 0)
  /\ UNCHANGED <<prog, input, last, flags, depths, traps, async>>

-----------------------------------------------------------------------------
(* Loops and if.                                                           *)

Compound(kind) == ctl.do = "run" /\ ctl.node.k = kind

execute_while ==
  /\ Compound("loop")
  /\ Push(CondFrame(ctl.node, 0)) /\ ctl' = Run(ctl.node.cond)
  /\ loop_depth' = loop_depth + 1 /\ errexit_off' = errexit_off + 1
  /\ UNCHANGED <<prog, input, last, flags, func_depth, trap_depth, traps, async>>

(* The condition decides by its status alone; the flags are not looked at. *)
LoopCondition ==
  LET go == (ctl.st = 0) # Top.node.until
  IN
  /\ Back("cond")
  /\ errexit_off' = errexit_off - 1
  /\ IF go THEN Replace(BodyFrame(Top.node)) /\ ctl' = Run(Top.node.body)
               /\ UNCHANGED loop_depth
     ELSE Pop /\ ctl' = Status(Top.st) /\ loop_depth' = loop_depth - 1
  /\ UNCHANGED <<prog, input, last, flags, func_depth, trap_depth, traps, async>>

(* Mutant: a continue is obeyed but its level is not used up.              *)
handle_loop_ctl_keep(stops) ==
  /\ loop_break' = IF loop_break > 0 THEN loop_break - 1 ELSE 0
  /\ stops = (loop_break > 0 \/ loop_continue > 1 \/ func_return)
  /\ UNCHANGED loop_continue

(* Mutant: a loop does not stop for a return.                              *)
handle_loop_ctl_deaf(stops) ==
  /\ loop_break' = IF loop_break > 0 THEN loop_break - 1 ELSE 0
  /\ loop_continue' = IF loop_break = 0 /\ loop_continue > 0 THEN loop_continue - 1
                      ELSE loop_continue
  /\ stops = (loop_break > 0 \/ loop_continue > 1)

(* One level of break or continue is used up; `stops` says the loop ends.  *)
handle_loop_ctl(stops) ==
  IF loop_break > 0
  THEN loop_break' = loop_break - 1 /\ stops /\ UNCHANGED loop_continue
  ELSE IF loop_continue > 0
  THEN /\ loop_continue' = loop_continue - 1 /\ stops = (loop_continue > 1)
       /\ UNCHANGED loop_break
  ELSE stops = func_return /\ UNCHANGED <<loop_break, loop_continue>>

LoopBody ==
  /\ Back("body")
  /\ \E stops \in BOOLEAN :
       /\ handle_loop_ctl(stops)
       /\ IF stops
          THEN /\ Pop /\ UNCHANGED <<ctl, errexit_off>>
               /\ loop_depth' = loop_depth - 1
          ELSE /\ Replace(CondFrame(Top.node, ctl.st)) /\ ctl' = Run(Top.node.cond)
               /\ errexit_off' = errexit_off + 1 /\ UNCHANGED loop_depth
  /\ UNCHANGED <<prog, input, last, func_return, func_depth, trap_depth, traps,
                 async>>

(* for over `times` words.                                                 *)
for_word_loop ==
  \/ /\ Compound("for")
     /\ IF ctl.node.times = 0 THEN ctl' = Status(0) /\ UNCHANGED <<stack, loop_depth>>
        ELSE /\ Push(ForFrame(ctl.node.times - 1, ctl.node.body))
             /\ ctl' = Run(ctl.node.body) /\ loop_depth' = loop_depth + 1
     /\ UNCHANGED <<loop_break, loop_continue>>
     /\ UNCHANGED <<prog, input, last, func_return, func_depth, errexit_off,
                    trap_depth, traps, async>>
  \/ /\ Back("for")
     /\ \E stops \in BOOLEAN :
          /\ handle_loop_ctl(stops)
          /\ IF stops \/ Top.left = 0
             THEN Pop /\ loop_depth' = loop_depth - 1 /\ UNCHANGED ctl
             ELSE /\ Replace(ForFrame(Top.left - 1, Top.body))
                  /\ ctl' = Run(Top.body) /\ UNCHANGED loop_depth
     /\ UNCHANGED <<prog, input, last, func_return, func_depth, errexit_off,
                    trap_depth, traps, async>>

execute_if ==
  \/ /\ Compound("if")
     /\ Push(IfFrame(ctl.node)) /\ ctl' = Run(ctl.node.cond)
     /\ errexit_off' = errexit_off + 1
     /\ UNCHANGED <<prog, input, last, flags, loop_depth, func_depth, trap_depth,
                    traps, async>>
  \/ /\ Back("if") /\ Pop
     /\ errexit_off' = errexit_off - 1
     /\ ctl' = IF ctl.st = 0 THEN Run(Top.node.then)
               ELSE IF Top.node.else = <<>> THEN Status(0)
               ELSE Run(Head(Top.node.else))
     /\ UNCHANGED <<prog, input, last, flags, loop_depth, func_depth, trap_depth,
                    traps, async>>

-----------------------------------------------------------------------------
(* { body } always { cleanup }.                                            *)

execute_brace_group ==
  /\ Compound("brace") /\ ctl' = Run(ctl.node.body)
  /\ IF ctl.node.cleanup = <<>> THEN UNCHANGED stack
     ELSE Push(AlwaysFrame(Head(ctl.node.cleanup)))
  /\ UNCHANGED <<prog, input, last, flags, depths, traps, async>>

always_park ==
  /\ Back("always")
  /\ Replace(CleanupFrame(ctl.st, WaysOut)) /\ ctl' = Run(Top.cleanup)
  /\ loop_break' = 0 /\ loop_continue' = 0 /\ func_return' = FALSE
  /\ UNCHANGED <<prog, input, last, depths, traps, async>>

(* What the cleanup raised itself wins; the status is the body's.          *)
always_unpark ==
  LET save == Top.save
  IN
  /\ Back("cleanup") /\ Pop
  /\ ctl' = Status(Top.st) /\ last' = Top.st
  /\ loop_break' = IF loop_break > 0 THEN loop_break ELSE save.lb
  /\ loop_continue' = IF loop_continue > 0 THEN loop_continue ELSE save.lc
  /\ func_return' = (func_return \/ save.fr)
  /\ UNCHANGED <<prog, input, depths, traps, async>>

-----------------------------------------------------------------------------
(* Functions.  The caller's ERR and RETURN traps are lifted out; those the *)
(* body sets stay.                                                         *)

execute_func_call ==
  /\ Command("call")
  /\ Push(CallFrame(traps)) /\ ctl' = Run(prog.f)
  /\ func_depth' = func_depth + 1
  /\ traps' = [traps EXCEPT !.ERR = FALSE, !.RETURN = FALSE]
  /\ UNCHANGED <<prog, input, last, flags, loop_depth, errexit_off, trap_depth,
                 async>>

trap_restore(saved) ==
  traps' = [traps EXCEPT !.ERR = @ \/ saved.ERR, !.RETURN = @ \/ saved.RETURN]

FinishCall(frames) ==
  /\ trap_restore(Head(frames).saved) /\ func_return' = FALSE
  /\ func_depth' = func_depth - 1 /\ stack' = Tail(frames)

fire_return_trap ==
  /\ Back("call")
  /\ IF traps.RETURN /\ trap_depth = 0
     THEN /\ exec_string(prog.RETURN, "RETURN", ctl.st)
          /\ last' = ctl.st /\ trap_depth' = trap_depth + 1
          /\ UNCHANGED <<traps, func_return, func_depth>>
     ELSE FinishCall(stack) /\ UNCHANGED <<ctl, last, trap_depth>>
  /\ UNCHANGED <<prog, input, loop_break, loop_continue, loop_depth, errexit_off,
                 async>>

-----------------------------------------------------------------------------
(* exec_chunks: statement after statement, until a flag says stop.  The    *)
(* end clears func_return, for a `return` inside eval stays there.         *)

StringOver == unwinding \/ Top.todo = <<>>

NextStatement ==
  /\ Back("string") /\ ~StringOver
  /\ Replace([Top EXCEPT !.todo = Tail(@)]) /\ ctl' = Run(Head(Top.todo))
  /\ last' = ctl.st
  /\ UNCHANGED <<prog, input, flags, depths, traps, async>>

(* Then back to whoever ran the string: run_pending_traps and the pseudo   *)
(* traps put $? back, the ERR trap is followed by set -e, the EXIT trap by *)
(* the end.                                                                *)
StringEnd ==
  LET s == Top
      quiet == s.why \in {"ERR", "RETURN"}
  IN
  /\ Back("string") /\ StringOver
  /\ last' = IF s.why \in {"eval", "EXIT"} THEN ctl.st ELSE s.saved
  /\ trap_depth' = IF quiet THEN trap_depth - 1 ELSE trap_depth
  /\ CASE s.why = "eval"   -> /\ Pop /\ ctl' = ctl /\ func_return' = FALSE
                              /\ UNCHANGED <<func_depth, traps>>
       [] s.why = "signal" -> /\ Pop /\ ctl' = [do |-> "next", st |-> s.st]
                              /\ func_return' = FALSE
                              /\ UNCHANGED <<func_depth, traps>>
       [] s.why = "RETURN" -> FinishCall(Below) /\ ctl' = Status(s.st)
       [] s.why = "EXIT"   -> /\ ctl' = Gone(s.st) /\ stack' = <<>>
                              /\ func_return' = FALSE
                              /\ UNCHANGED <<func_depth, traps>>
       [] s.why = "ERR"    -> /\ IF prog.errexit THEN exit_clean(s.st)
                                 ELSE /\ Pop /\ ctl' = Status(s.st)
                                      /\ UNCHANGED traps
                              /\ func_return' = FALSE /\ UNCHANGED func_depth
  /\ UNCHANGED <<prog, input, loop_break, loop_continue, loop_depth, errexit_off,
                 async>>

-----------------------------------------------------------------------------
Walk ==
  \/ execute_top_level \/ execute_simple_list \/ run_list_range \/ ReadPending
  \/ run_pending_traps \/ NextRange \/ execute_range \/ errexit_check
  \/ pipeline_single \/ negate_status \/ ext \/ ok \/ builtin_break
  \/ builtin_continue \/ builtin_return \/ builtin_exit \/ set_one_trap
  \/ builtin_eval \/ execute_while \/ LoopCondition \/ LoopBody \/ for_word_loop
  \/ execute_if \/ execute_brace_group \/ always_park \/ always_unpark
  \/ execute_func_call \/ fire_return_trap \/ NextStatement \/ StringEnd

Next == Walk \/ trap_sighandler

Spec == Init /\ [][Next]_vars

(* The walk is one thread that never waits here.                           *)
FairSpec == Spec /\ WF_vars(Walk)
-----------------------------------------------------------------------------
(* The semantics this walk implements: flags that are set while a status   *)
(* goes up are an unwinding; those a trap body found set wait under it.    *)

Meaning(w, st) ==
  LET out(what, n) == [do |-> "unwind", what |-> what, n |-> n, st |-> st]
  IN  IF w.fr THEN out("return", 1)
      ELSE IF w.lb > 0 THEN out("break", w.lb)
      ELSE IF w.lc > 0 THEN out("continue", w.lc)
      ELSE Status(st)

MeaningOfCtl ==
  IF ctl.do \in {"status", "pending", "next"}
  THEN IF HeldBelow THEN Status(ctl.st) ELSE Meaning(WaysOut, ctl.st)
  ELSE ctl

MeaningOfFrame(r) ==
  CASE r.f = "call"    -> [f |-> "call", saved |-> r.saved]
    [] r.f = "cleanup" -> [f |-> "cleanup", resume |-> Meaning(r.save, r.st)]
    [] r.f = "string"  -> [f |-> "string", todo |-> r.todo, why |-> r.why,
                           resume |-> CASE r.why = "eval" -> Idle
                                        [] r.why = "EXIT" -> Gone(r.st)
                                        [] r.why = "RETURN" ->
                                             Meaning([r.held EXCEPT !.fr = FALSE], r.st)
                                        [] OTHER -> Meaning(r.held, r.st)]
    [] OTHER           -> r

Sem == INSTANCE ShellSem WITH
         ctl <- MeaningOfCtl,
         stack <- [i \in DOMAIN stack |-> MeaningOfFrame(stack[i])]

-----------------------------------------------------------------------------
(* Properties.                                                             *)

(* The walk with its flags and counters does what the structured semantics *)
(* says: nothing runs while unwinding, break n and continue n reach their  *)
(* loop, set -e and the ERR trap overlook what they must and no more,      *)
(* cleanups run, a trap is transparent to what it interrupts.              *)
Refines == Sem!Spec

(* The counters are paired: each says how many activations of its kind are *)
(* on the stack.  (The EXIT trap runs wherever exit was called.)           *)
CountersPaired ==
  \/ \E i \in Positions(stack, {"string"}) : stack[i].why = "EXIT"
  \/ ctl.do = "gone"
  \/ /\ loop_depth = LoopsOn(stack) /\ func_depth = CallsOn(stack)
     /\ errexit_off = SuppressorsOn(stack) /\ trap_depth = TrapsOn(stack)

(* A flag that is set has a loop or a call still to consume it, so none    *)
(* outlives the construct it was meant for.                                *)
FlagsHaveTargets ==
  /\ loop_break <= loop_depth /\ loop_continue <= loop_depth
  /\ func_return => func_depth > 0

(* No command begins while break, continue or return is on its way out,    *)
(* trap bodies apart.                                                      *)
NothingWhileUnwinding ==
  ctl.do = "run" /\ ctl.node.k = "cmd" /\ ~HeldBelow => ~unwinding

(* A call that executed return runs no more of its body: a command begins  *)
(* below it only inside an always block or a trap body.                    *)
ReturnReturns ==
  ctl.do = "run" /\ ctl.node.k = "cmd" =>
    \A i \in Positions(stack, {"call"}) :
      stack[i].returned =>
        \E j \in Positions(stack, {"cleanup", "string", "call"}) : j < i

(* The flags of an unwinding are those of the constructs it leaves, and    *)
(* nothing of what it leaves runs (handle_loop_ctl, execute_simple_list).  *)
FlagsSound == FlagsHaveTargets /\ NothingWhileUnwinding /\ ReturnReturns

(* An unwinding comes to its end.                                          *)
UnwindingEnds == unwinding ~> ~unwinding \/ ctl.do = "gone"
=============================================================================
