------------------------------ MODULE ShellSem ------------------------------
(***************************************************************************)
(* What break, continue, return, set -e and traps promise a script: a      *)
(* structured semantics, with no flags and no counters.                    *)
(*                                                                         *)
(* break, continue and return unwind: control leaves frame after frame,    *)
(* running nothing on the way but `always` cleanups and RETURN traps, up   *)
(* to the loop or call they aim at.  Whether set -e applies, how many      *)
(* loops there are to break from and whether a function is running are     *)
(* read off the stack.  A trap runs between two ranges of a list, and what *)
(* it interrupted, unwinding included, goes on afterwards as if nothing    *)
(* had happened.  ShellExec implements this with flags and counters.       *)
(***************************************************************************)
EXTENDS ShellProg

CONSTANTS Programs, Interactive

VARIABLES prog, input, ctl, stack, traps

vars == <<prog, input, ctl, stack, traps>>

Unwind(what, n, st) == [do |-> "unwind", what |-> what, n |-> n, st |-> st]

CallFrame(saved) == [f |-> "call", saved |-> saved]
CleanupFrame(resume) == [f |-> "cleanup", resume |-> resume]
StringFrame(todo, why, resume) ==
  [f |-> "string", todo |-> todo, why |-> why, resume |-> resume]

Top == Head(stack)
Below == Tail(stack)
Running(kind) == ctl.do = "run" /\ ctl.node.k = kind
Finished(f) == ctl.do = "status" /\ stack # <<>> /\ Top.f = f
Leaving(f, what) == /\ ctl.do = "unwind" /\ ctl.what \in what
                    /\ stack # <<>> /\ Top.f = f
Ways == {"break", "continue", "return"}

Go(frames, c) == stack' = frames /\ ctl' = c
Same == UNCHANGED <<prog, input, traps>>

Init ==
  /\ prog \in Programs /\ input = prog.main
  /\ ctl = Idle /\ stack = <<>>
  /\ traps = [ERR |-> FALSE, RETURN |-> FALSE, EXIT |-> prog.EXIT # <<>>]

Leave(code) ==
  IF traps.EXIT
  THEN /\ traps' = [traps EXCEPT !.EXIT = FALSE]
       /\ Go(<<StringFrame(Tail(prog.EXIT), "EXIT", Gone(code))>>,
             Run(Head(prog.EXIT)))
  ELSE Go(<<>>, Gone(code)) /\ UNCHANGED traps

TopLevel ==
  \/ /\ ctl = Idle /\ input # <<>> /\ input' = Tail(input)
     /\ Go(stack, Run(Head(input))) /\ UNCHANGED <<prog, traps>>
  \/ ctl = Idle /\ input = <<>> /\ (\E n \in 0 .. 255 : Leave(n)) /\ UNCHANGED <<prog, input>>
  \/ ctl.do = "status" /\ stack = <<>> /\ Go(stack, Idle) /\ Same

-----------------------------------------------------------------------------
(* Lists and and-or ranges.                                                *)

Lists ==
  \/ /\ Running("list") /\ Same
     /\ Go(<<ListFrame(ctl.node.ranges)>> \o stack, [do |-> "range", st |-> 0])
  \/ /\ ctl.do = "range" /\ Same
     /\ Go(<<RangeFrame(Head(Top.todo), FALSE, FALSE, FALSE),
             ListFrame(Tail(Top.todo))>> \o Below, Status(0))
  \/ /\ Finished("list") /\ Same
     /\ IF Top.todo = <<>> THEN Go(Below, ctl)
        ELSE Go(stack, [do |-> "range", st |-> 0])

(* A trapped signal is answered between two ranges, unwinding or not.      *)
Interrupt ==
  /\ prog.trap # <<>> /\ stack # <<>> /\ Top.f = "list"
  /\ ctl.do \in {"status", "unwind"}
  /\ Go(<<StringFrame(Tail(prog.trap), "signal", ctl)>> \o stack,
        Run(Head(prog.trap)))
  /\ Same

Runs(st, op) == (op = "&&" => st = 0) /\ (op = "||" => st # 0)

Operands ==
  /\ Finished("range") /\ Top.todo # <<>> /\ Same
  /\ LET o == Head(Top.todo)
         run == Runs(ctl.st, o.op)
     IN  Go(<<RangeFrame(Tail(Top.todo), run, run /\ Len(Top.todo) > 1,
                         o.negate)>> \o Below,
            IF run THEN [do |-> "pipeline", cmd |-> o.cmd, negate |-> o.negate]
            ELSE ctl)

(* A failure nothing overlooks: the ERR trap, then set -e.                 *)
Fatal == ctl.st # 0 /\ Top.ran /\ ~Top.neg /\ SuppressorsOn(stack) = 0

RangeEnds ==
  /\ Finished("range") /\ Top.todo = <<>>
  /\ IF Fatal /\ traps.ERR /\ TrapsOn(stack) = 0
     THEN /\ Go(<<StringFrame(Tail(prog.ERR), "ERR", ctl)>> \o Below,
                Run(Head(prog.ERR)))
          /\ UNCHANGED traps
     ELSE IF Fatal /\ prog.errexit THEN Leave(ctl.st)
     ELSE Go(Below, ctl) /\ UNCHANGED traps
  /\ UNCHANGED <<prog, input>>

Pipelines ==
  \/ /\ ctl.do = "pipeline" /\ Same
     /\ Go(IF ctl.negate THEN <<NotFrame>> \o stack ELSE stack, Run(ctl.cmd))
  \/ Finished("not") /\ Go(Below, Status(IF ctl.st = 0 THEN 1 ELSE 0)) /\ Same

-----------------------------------------------------------------------------
(* Simple commands.                                                        *)

Word == ctl.node.word
LoopWord(n) ==
  IF n < 1 THEN Status(1)
  ELSE IF LoopsOn(stack) = 0 THEN Status(0)
  ELSE Unwind(Word, Lesser(n, LoopsOn(stack)), 0)

Commands ==
  /\ Running("cmd") /\ UNCHANGED <<prog, input>>
  /\ \/ Word = "ext" /\ (\E st \in {0, 1} : Go(stack, Status(st))) /\ UNCHANGED traps
     \/ Word = "ok" /\ Go(stack, Status(0)) /\ UNCHANGED traps
     \/ /\ Word \in {"break", "continue"}
        /\ Go(stack, LoopWord(ctl.node.n)) /\ UNCHANGED traps
     \/ /\ Word = "return" /\ CallsOn(stack) > 0
        /\ Go(stack, Unwind("return", 1, ctl.node.n)) /\ UNCHANGED traps
     \/ /\ Word = "return" /\ CallsOn(stack) = 0
        /\ IF Interactive THEN Go(stack, Status(2)) /\ UNCHANGED traps ELSE Leave(2)
     \/ Word = "exit" /\ Leave(ctl.node.n)
     \/ /\ Word = "trap" /\ Go(stack, Status(0))
        /\ traps' = [traps EXCEPT ![ctl.node.slot] = TRUE]
     \/ /\ Word = "call" /\ Go(<<CallFrame(traps)>> \o stack, Run(prog.f))
        /\ traps' = [traps EXCEPT !.ERR = FALSE, !.RETURN = FALSE]

-----------------------------------------------------------------------------
(* Compounds.                                                              *)

Again(frame, st) ==      \* the next turn of a loop whose frame is on top
  IF frame.f = "for"
  THEN IF frame.left = 0 THEN Go(Below, Status(st))
       ELSE Go(<<ForFrame(frame.left - 1, frame.body)>> \o Below, Run(frame.body))
  ELSE Go(<<CondFrame(frame.node, st)>> \o Below, Run(frame.node.cond))

Compounds ==
  /\ Same
  /\ \/ Running("loop") /\ Go(<<CondFrame(ctl.node, 0)>> \o stack, Run(ctl.node.cond))
     \/ /\ Finished("cond")
        /\ IF (ctl.st = 0) # Top.node.until
           THEN Go(<<BodyFrame(Top.node)>> \o Below, Run(Top.node.body))
           ELSE Go(Below, Status(Top.st))
     \/ (Finished("body") \/ Finished("for")) /\ Again(Top, ctl.st)
     \/ /\ Running("for")
        /\ IF ctl.node.times = 0 THEN Go(stack, Status(0))
           ELSE Go(<<ForFrame(ctl.node.times - 1, ctl.node.body)>> \o stack,
                   Run(ctl.node.body))
     \/ Running("if") /\ Go(<<IfFrame(ctl.node)>> \o stack, Run(ctl.node.cond))
     \/ /\ Finished("if")
        /\ Go(Below, IF ctl.st = 0 THEN Run(Top.node.then)
                     ELSE IF Top.node.else = <<>> THEN Status(0)
                     ELSE Run(Head(Top.node.else)))
     \/ /\ Running("brace")
        /\ Go(IF ctl.node.cleanup = <<>> THEN stack
              ELSE <<AlwaysFrame(Head(ctl.node.cleanup))>> \o stack,
              Run(ctl.node.body))
     \/ (Finished("always") \/ Leaving("always", Ways))
        /\ Go(<<CleanupFrame(ctl)>> \o Below, Run(Top.cleanup))
     \/ Finished("cleanup") /\ Go(Below, Top.resume)
     \/ /\ Running("eval")
        /\ Go(<<StringFrame(Tail(ctl.node.body), "eval", Idle)>> \o stack,
              Run(Head(ctl.node.body)))

-----------------------------------------------------------------------------
(* Unwinding.                                                              *)

Transparent == {"list", "range", "not", "if"}

Unwinding ==
  /\ Same
  /\ \/ \E f \in Transparent : Leaving(f, Ways) /\ Go(Below, ctl)
     \/ \E f \in {"cond", "body", "for"} :
          \/ Leaving(f, {"return"}) /\ Go(Below, ctl)
          \/ Leaving(f, {"break", "continue"}) /\ ctl.n > 1
             /\ Go(Below, [ctl EXCEPT !.n = @ - 1])
          \/ Leaving(f, {"break"}) /\ ctl.n = 1 /\ Go(Below, Status(ctl.st))
          \/ Leaving(f, {"continue"}) /\ ctl.n = 1 /\ Again(Top, ctl.st)
     \/ Leaving("cleanup", Ways) /\ Go(Below, [ctl EXCEPT !.st = Top.resume.st])

(* The end of a call; a return that unwinds ends here.                     *)
Landed == IF ctl.do = "unwind" /\ ctl.what = "return" THEN Status(ctl.st) ELSE ctl
Back(frames, c) ==
  /\ Go(Tail(frames), c)
  /\ traps' = LET saved == Head(frames).saved
              IN  [traps EXCEPT !.ERR = @ \/ saved.ERR, !.RETURN = @ \/ saved.RETURN]

Calls ==
  /\ Finished("call") \/ Leaving("call", Ways)
  /\ IF traps.RETURN /\ TrapsOn(stack) = 0
     THEN /\ Go(<<StringFrame(Tail(prog.RETURN), "RETURN", Landed)>> \o stack,
                Run(Head(prog.RETURN)))
          /\ UNCHANGED traps
     ELSE Back(stack, Landed)
  /\ UNCHANGED <<prog, input>>

(* The end of an eval or of a trap.  break and continue go on unwinding    *)
(* through it; a return stops at it.                                       *)
After(resume) == IF ctl.do = "unwind" /\ ctl.what # "return"
                 THEN [ctl EXCEPT !.st = resume.st] ELSE resume

Strings ==
  /\ Finished("string") \/ Leaving("string", Ways)
  /\ UNCHANGED <<prog, input>>
  /\ IF ctl.do = "status" /\ Top.todo # <<>>
     THEN /\ Go(<<[Top EXCEPT !.todo = Tail(@)]>> \o Below, Run(Head(Top.todo)))
          /\ UNCHANGED traps
     ELSE CASE Top.why = "eval"   -> Go(Below, Landed) /\ UNCHANGED traps
            [] Top.why = "signal" -> Go(Below, After(Top.resume)) /\ UNCHANGED traps
            [] Top.why = "RETURN" -> Back(Below, After(Top.resume))
            [] Top.why = "EXIT"   -> Go(<<>>, Top.resume) /\ UNCHANGED traps
            [] Top.why = "ERR"    ->
                 IF prog.errexit THEN Leave(Top.resume.st)
                 ELSE Go(Below, After(Top.resume)) /\ UNCHANGED traps

-----------------------------------------------------------------------------
Next ==
  \/ TopLevel \/ Lists \/ Interrupt \/ Operands \/ RangeEnds \/ Pipelines
  \/ Commands \/ Compounds \/ Unwinding \/ Calls \/ Strings

Spec == Init /\ [][Next]_vars
=============================================================================
