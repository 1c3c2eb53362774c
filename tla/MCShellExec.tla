----------------------------- MODULE MCShellExec -----------------------------
(* Programs for TLC to run through ShellExec; the .cfg files choose.        *)
EXTENDS ShellExec

Ext == Cmd("ext", 0)
Ok == Cmd("ok", 0)
Call == Cmd("call", 0)
Return == Cmd("return", 3)

One(c) == <<Operand(";", FALSE, c)>>
AndOr(a, op, b) == <<Operand(";", FALSE, a), Operand(op, FALSE, b)>>
Negated(c) == <<Operand(";", TRUE, c)>>
L1(c) == List(<<One(c)>>)
L2(a, b) == List(<<One(a), One(b)>>)
While(body) == Loop(FALSE, L1(Ext), body)
Until(body) == Loop(TRUE, L1(Ext), body)

Program(main, f) ==
  [main |-> main, f |-> f, trap |-> <<>>, ERR |-> <<L1(Ok)>>,
   RETURN |-> <<L1(Ok)>>, EXIT |-> <<>>, errexit |-> FALSE, signals |-> 2]
Script(list) == Program(<<list>>, L1(Ok))

(* A way out, plain, under an if, after && and before more commands.       *)
Reached(x) ==
  {L2(x, Ext), L2(If(L1(Ext), L1(x), <<>>), Ext),
   List(<<AndOr(Ext, "&&", x), One(Ext)>>), List(<<Negated(x), One(Ext)>>)}

LoopWays == {Cmd(w, n) : w \in {"break", "continue"}, n \in {1, 2}}

(* Two loops: the way out in the inner one, another after it in the outer. *)
Bodies(ways) == UNION {Reached(x) : x \in ways}
NestedLoops ==
  {Script(L2(outer, Ext)) :
     outer \in UNION {{While(b), Until(b), For(2, b)} :
       b \in {L2(inner, y) :
         inner \in UNION {{While(c), For(2, c)} : c \in Bodies(LoopWays)},
         y \in {Ext, If(L1(Ext), L1(Cmd("break", 1)), <<>>),
                If(L1(Ext), L1(Cmd("continue", 1)), <<>>)}}}}

(* Three loops, left or continued from the innermost.                      *)
DeepLoops ==
  {Script(L2(While(L2(While(L2(For(2, L2(x, Ext)), Ext)), Ext)), Ext)) :
     x \in {Cmd(w, n) : w \in {"break", "continue"}, n \in 0 .. 4}}

(* `always` around the way out, and one in the cleanup itself.             *)
Cleanups ==
  {Script(L2(While(L2(Brace(L2(x, Ext), <<L2(y, Ext)>>), Ext)), Ext)) :
     x \in LoopWays \cup {Ext}, y \in {Ext}}
  \cup {Program(<<L2(Call, Ext)>>,
                L2(While(L2(Brace(L2(x, Ext), <<L2(y, Ext)>>), Ext)), Ext)) :
          x \in {Cmd("break", 1), Return}, y \in {Ext, Return}}

(* return from under loops and ifs, with the RETURN trap set or not; break *)
(* and continue out of a function into its caller's loop.                  *)
FunctionBodies(ways) ==
  UNION {{b, L2(While(b), Ext), List(<<One(SetTrap("RETURN")), One(For(2, b))>>)} :
           b \in Bodies(ways)}
Functions ==
  {Program(<<L2(While(L2(main, Ext)), Ext)>>, body) :
     main \in {Call, Brace(L2(Call, Ext), <<L1(Ext)>>)},
     body \in FunctionBodies({Return, Cmd("break", 1), Cmd("continue", 1)})}
  \cup
  {Program(<<L2(main, Ext)>>, body) :
     main \in {If(L1(Call), L1(Ext), <<L1(Ext)>>), Loop(FALSE, L1(Call), L1(Ext))},
     body \in FunctionBodies({Return})}

(* set -e and the ERR trap around calls, conditions and negation.          *)
Errors ==
  {[Program(<<List(main)>>, f) EXCEPT !.errexit = e, !.EXIT = <<L1(Ok)>>] :
     e \in BOOLEAN,
     f \in {L2(Ext, Ext), List(<<AndOr(Ext, "||", Ext), One(Ext)>>),
            L2(If(List(<<AndOr(Ext, "&&", Ext)>>), L1(Ext), <<>>), Ext)},
     main \in {<<One(Call), One(Ext)>>, <<AndOr(Call, "||", Ext), One(Ext)>>,
               <<Negated(Call), One(Ext)>>,
               <<One(SetTrap("ERR")), AndOr(Ext, "&&", Call), One(Ext)>>,
               <<One(If(L1(Call), L1(Ext), <<L1(Ext)>>)), One(Cmd("exit", 2))>>,
               <<One(Until(L1(Call))), One(Return)>>}}

(* eval bodies, whose return stays inside and whose break does not.        *)
Evals ==
  {Program(<<L2(While(L2(Call, Ext)), Ext)>>,
           L2(Eval(<<L2(x, Ext), L1(Ext)>>), Ext)) :
     x \in {Ext, Return, Cmd("break", 1), Cmd("continue", 1)}}

(* A signal trap over loops and their ways out.                            *)
Signals ==
  {[Script(L2(While(L2(inner, Ext)), Ext)) EXCEPT !.trap = t] :
     inner \in {For(2, L2(x, Ext)) : x \in LoopWays},
     t \in {<<L1(Ok)>>}}
  \cup {[Script(L2(For(2, L2(Ext, Ext)), Ext)) EXCEPT !.trap = t[1], !.signals = t[2]] :
          t \in {<<<<L2(Ext, Ext), L1(Ext)>>, 2>>, <<<<L1(Cmd("break", 1))>>, 1>>}}

AllPrograms == NestedLoops \cup DeepLoops \cup Cleanups \cup Functions \cup Errors \cup Evals
               \cup Signals

(* Programs the walk does not run as the semantics says.                   *)
BreakAndThen == {Script(L2(While(List(<<AndOr(Cmd("break", 1), "&&", Ext)>>)), Ext))}
BreakInCondition ==
  {Script(L2(Loop(TRUE, L1(Cmd("break", 1)), L1(Ext)), Ext))}
TrapOverReturn ==
  {[Program(<<L2(Call, Ext)>>, L2(Return, Ext)) EXCEPT !.trap = <<L1(Ok)>>]}

(* The trees of a set of programs: their lists, and the parts of the parts.*)
Parts(n) ==
  CASE n.k = "list"  -> UNION {{n.ranges[i][j].cmd : j \in DOMAIN n.ranges[i]} :
                                 i \in DOMAIN n.ranges}
    [] n.k = "eval"  -> {n.body[i] : i \in DOMAIN n.body}
    [] n.k = "loop"  -> {n.cond, n.body}
    [] n.k = "for"   -> {n.body}
    [] n.k = "if"    -> {n.cond, n.then} \cup {n.else[i] : i \in DOMAIN n.else}
    [] n.k = "brace" -> {n.body} \cup {n.cleanup[i] : i \in DOMAIN n.cleanup}
    [] OTHER         -> {}

RECURSIVE WithParts(_)
WithParts(S) == S \cup IF S = {} THEN {} ELSE WithParts(UNION {Parts(n) : n \in S})

Trees(programs) ==
  WithParts(UNION {{p.f} \cup UNION {{s[i] : i \in DOMAIN s} :
                     s \in {p.main, p.trap, p.ERR, p.RETURN, p.EXIT}} : p \in programs})
AllTrees == Trees(AllPrograms)
TreesInCondition == Trees(BreakInCondition)
=============================================================================
