------------------------------ MODULE ShellProg ------------------------------
(***************************************************************************)
(* Shell programs as the executor sees them after parsing, and the stack   *)
(* of activations it builds while it walks them.                           *)
(*                                                                         *)
(* The executor is a recursive tree walk in C.  Here its C stack is a      *)
(* sequence of frames, the innermost first, one frame for each activation  *)
(* that still has something to do when its child returns.  Words are left  *)
(* out: a command is what it does to control flow, and "ext" is any        *)
(* command that just succeeds or fails.                                    *)
(***************************************************************************)
EXTENDS Integers, Sequences, FiniteSets

-----------------------------------------------------------------------------
(* Programs.                                                               *)

(* Simple commands: "ext", "ok", "break", "continue", "return", "exit",    *)
(* "call" (of the one function f) and "trap" (set a pseudo-signal trap).   *)
Cmd(word, n) == [k |-> "cmd", word |-> word, n |-> n]
SetTrap(slot) == [k |-> "cmd", word |-> "trap", n |-> 0, slot |-> slot]
Eval(body) == [k |-> "eval", body |-> body]

(* while/until, for, if, { } with an optional `always` block (<<>> or one  *)
(* list).                                                                  *)
Loop(until, cond, body) == [k |-> "loop", until |-> until, cond |-> cond,
                            body |-> body]
For(times, body) == [k |-> "for", times |-> times, body |-> body]
If(cond, then, else) == [k |-> "if", cond |-> cond, then |-> then, else |-> else]
Brace(body, cleanup) == [k |-> "brace", body |-> body, cleanup |-> cleanup]

(* A list is a sequence of ranges, a range an and-or sequence of one-stage *)
(* pipelines, each with the operator before it.                            *)
Operand(op, negate, cmd) == [op |-> op, negate |-> negate, cmd |-> cmd]
List(ranges) == [k |-> "list", ranges |-> ranges]

(* What the parser makes: a list has a range, the parts of a node are      *)
(* nodes, and the argument of break, continue, return and exit a number.   *)
OperandsOf(nodes) == [op : {";", "&&", "||"}, negate : BOOLEAN, cmd : nodes]

Parsed(nodes) ==
  \A n \in nodes :
    /\ n.k = "list"  => n.ranges \in Seq(Seq(OperandsOf(nodes))) \ {<<>>}
    /\ n.k = "cmd"   => n.n \in Int
    /\ n.k = "cmd" /\ n.word = "trap" => n.slot \in {"ERR", "RETURN"}
    /\ n.k = "eval"  => n.body \in Seq(nodes) \ {<<>>}
    /\ n.k = "loop"  => n.cond \in nodes /\ n.body \in nodes
    /\ n.k = "for"   => n.body \in nodes
    /\ n.k = "if"    => n.cond \in nodes /\ n.then \in nodes /\ n.else \in Seq(nodes)
    /\ n.k = "brace" => n.body \in nodes /\ n.cleanup \in Seq(nodes)

(* A script, its function and the bodies its traps are given: those of ERR *)
(* and RETURN may be set, and then there is something to run.              *)
ScriptOf(p, nodes) ==
  /\ p.main \in Seq(nodes) /\ p.f \in nodes
  /\ p.trap \in Seq(nodes) /\ p.EXIT \in Seq(nodes)
  /\ p.ERR \in Seq(nodes) \ {<<>>} /\ p.RETURN \in Seq(nodes) \ {<<>>}

-----------------------------------------------------------------------------
(* What the walk does next: run a node, or hand a status to the top frame. *)

Run(node) == [do |-> "run", node |-> node]
Status(n) == [do |-> "status", st |-> n]
Idle == [do |-> "idle"]
Gone(n) == [do |-> "gone", st |-> n]

(* Frames.  `lhs` marks an operand that another one follows.  The body of  *)
(* an exec_string (eval, a trap) remembers why it runs and what for.       *)
ListFrame(todo) == [f |-> "list", todo |-> todo]
RangeFrame(todo, ran, lhs, neg) ==
  [f |-> "range", todo |-> todo, ran |-> ran, lhs |-> lhs, neg |-> neg]
NotFrame == [f |-> "not"]
CondFrame(node, body_status) == [f |-> "cond", node |-> node, st |-> body_status]
BodyFrame(node) == [f |-> "body", node |-> node]
ForFrame(left, body) == [f |-> "for", left |-> left, body |-> body]
IfFrame(node) == [f |-> "if", node |-> node]
AlwaysFrame(cleanup) == [f |-> "always", cleanup |-> cleanup]

Positions(stack, kinds) == {i \in DOMAIN stack : stack[i].f \in kinds}

(* Loops being run, function calls being run, ERR/RETURN trap bodies.      *)
LoopsOn(stack) == Cardinality(Positions(stack, {"cond", "body", "for"}))
CallsOn(stack) == Cardinality(Positions(stack, {"call"}))
TrapsOn(stack) == Cardinality({i \in Positions(stack, {"string"}) :
                                 stack[i].why \in {"ERR", "RETURN"}})

(* Activations whose failure set -e must overlook.                         *)
SuppressorsOn(stack) ==
  Cardinality(Positions(stack, {"cond", "if", "not"})
              \cup {i \in Positions(stack, {"range"}) : stack[i].lhs})

Lesser(a, b) == IF a < b THEN a ELSE b
=============================================================================
