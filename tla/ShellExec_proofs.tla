-------------------------- MODULE ShellExec_proofs --------------------------
(***************************************************************************)
(* The executor, for every script.  The counters are paired: loop_depth,   *)
(* func_depth, errexit_off and trap_depth always say how many loops, calls,*)
(* conditions and trap bodies are on the C stack, whatever breaks, returns,*)
(* fails, is caught by a trap or runs in one, until the shell has begun to *)
(* exit.  And the flags are sound: break, continue and return are consumed *)
(* by the loop or the call they were meant for, and nothing of what they   *)
(* leave runs, in every script whose conditions, cleanups and traps raise  *)
(* no flag.                                                                *)
(***************************************************************************)
EXTENDS ShellExec, TLAPS, FiniteSetTheorems, SequenceTheorems, WellFoundedInduction

-----------------------------------------------------------------------------
(* The inductive invariant.                                                *)

Elems(s) == {s[i] : i \in DOMAIN s}
Whys == {"eval", "signal", "ERR", "RETURN", "EXIT"}

(* A frame holds the nodes it was made with; the last operand of a range   *)
(* is nobody's left-hand side.                                             *)
Kind(x) ==
  /\ x.f = "list" => x.todo \in Seq(Seq(OperandsOf(Nodes)))
  /\ x.f = "range" => /\ x.todo \in Seq(OperandsOf(Nodes))
                      /\ x.lhs \in BOOLEAN /\ (x.todo = <<>> => ~x.lhs)
  /\ x.f \in {"cond", "body"} => x.node \in Nodes /\ x.node.k = "loop"
  /\ x.f = "for" => x.body \in Nodes
  /\ x.f = "if" => x.node \in Nodes /\ x.node.k = "if"
  /\ x.f = "always" => x.cleanup \in Nodes
  /\ x.f = "call" => x = [f |-> "call", saved |-> x.saved, returned |-> x.returned]
  /\ x.f = "string" =>
       /\ x.todo \in Seq(Nodes) /\ x.why \in Whys
       /\ x = [f |-> "string", todo |-> x.todo, why |-> x.why, saved |-> x.saved,
               st |-> x.st, held |-> x.held]

(* A RETURN trap runs on the call it ends, a signal trap on the list it    *)
(* interrupts: the end of the body pops the one and goes on with the other.*)
Leans(x) == x.f = "string" /\ x.why \in {"RETURN", "signal"}
Over(x, y) == /\ x.why = "RETURN" => y.f = "call"
              /\ x.why = "signal" => y.f = "list"

Stacked(s) ==
  /\ s \in Seq(Elems(s))
  /\ \A i \in DOMAIN s : /\ Kind(s[i])
                         /\ Leans(s[i]) => i < Len(s) /\ Over(s[i], s[i + 1])

Placed(x, s) == Kind(x) /\ (Leans(x) => s # <<>> /\ Over(x, Head(s)))

(* What the walk is about to do can be done.                               *)
Control ==
  /\ ctl.do = "run" => ctl.node \in Nodes
  /\ ctl.do = "pipeline" => ctl.cmd \in Nodes
  /\ ctl.do \in {"range", "pending", "next"} => stack # <<>> /\ Top.f = "list"
  /\ ctl.do = "range" => Top.todo # <<>>
  /\ ctl.do = "pending" /\ ctl.sig # 0 => prog.trap # <<>>

TrapBodies ==
  /\ traps = [ERR |-> traps.ERR, RETURN |-> traps.RETURN, EXIT |-> traps.EXIT]
  /\ traps.EXIT => prog.EXIT # <<>>
  /\ pending # 0 => prog.trap # <<>>

Given == prog \in Programs /\ input \in Seq(Nodes)

Numbers == /\ loop_depth \in Int /\ func_depth \in Int
           /\ errexit_off \in Int /\ trap_depth \in Int

CInv == Given /\ Numbers /\ Stacked(stack) /\ Control /\ TrapBodies /\ CountersPaired

-----------------------------------------------------------------------------
(* What a frame adds to each counter.                                      *)

Loops(x) == IF x.f \in {"cond", "body", "for"} THEN 1 ELSE 0
Calls(x) == IF x.f = "call" THEN 1 ELSE 0
Traps(x) == IF x.f = "string" /\ x.why \in {"ERR", "RETURN"} THEN 1 ELSE 0
Suppresses(x) == IF x.f \in {"cond", "if", "not"} \/ (x.f = "range" /\ x.lhs) THEN 1 ELSE 0
Exits(x) == x.f = "string" /\ x.why = "EXIT"
InExit(s) == \E i \in Positions(s, {"string"}) : s[i].why = "EXIT"

(* A set of positions moves up by one, and the first may join it.          *)
LEMMA Shift ==
  ASSUME NEW n \in Nat, NEW A \in SUBSET (1 .. n), NEW B, B = {i + 1 : i \in A}
  PROVE  /\ IsFiniteSet(A) /\ Cardinality(A) \in Nat
         /\ Cardinality(B) = Cardinality(A)
         /\ Cardinality({1} \cup B) = Cardinality(A) + 1
<1>1. IsFiniteSet(A) /\ Cardinality(A) \in Nat
  <2>1. IsFiniteSet(1 .. n)
    BY FS_Interval
  <2>2. IsFiniteSet(A)
    BY <2>1, FS_Subset
  <2> QED BY <2>2, FS_CardinalityType
<1>2. ExistsBijection(A, B)
  <2> DEFINE f == [i \in A |-> i + 1]
  <2>1. f \in [A -> B] /\ \A i \in A : f[i] = i + 1 /\ i \in Nat
    <3>1. \A i \in A : i \in Nat /\ i + 1 \in B
      OBVIOUS
    <3> QED BY <3>1
  <2>2. \A b \in B : \E i \in A : f[i] = b
    OBVIOUS
  <2> HIDE DEF f
  <2>3. \A i, j \in A : f[i] = f[j] => i = j
    BY <2>1
  <2>4. f \in Bijection(A, B)
    BY <2>1, <2>2, <2>3 DEF Bijection, Injection, Surjection, IsInjective
  <2> QED BY <2>4 DEF ExistsBijection
<1>3. IsFiniteSet(B) /\ Cardinality(B) = Cardinality(A)
  BY <1>1, <1>2, FS_Bijection
<1>4. 1 \notin B
  OBVIOUS
<1>5. Cardinality({1} \cup B) = Cardinality(B) + 1
  <2>1. Cardinality(B \cup {1}) = Cardinality(B) + 1
    BY <1>3, <1>4, FS_AddElement
  <2>2. B \cup {1} = {1} \cup B
    OBVIOUS
  <2> QED BY <2>1, <2>2
<1> QED BY <1>1, <1>3, <1>5

(* A function on 1 .. n is a sequence.                                     *)
LEMMA Listed ==
  ASSUME NEW n \in Nat, NEW S, NEW t \in [1 .. n -> S]
  PROVE  t \in Seq(S)
BY SeqDef

(* A frame on a stack, element by element.                                 *)
LEMMA OnTop ==
  ASSUME NEW S, NEW s \in Seq(S), NEW x
  PROVE  LET t == <<x>> \o s
         IN  /\ t \in Seq(S \cup {x}) /\ Len(s) \in Nat /\ Len(t) = Len(s) + 1
             /\ DOMAIN t = 1 .. Len(s) + 1 /\ DOMAIN s = 1 .. Len(s)
             /\ t[1] = x /\ \A i \in DOMAIN s : t[i + 1] = s[i]
             /\ t # <<>> /\ Head(t) = x /\ Tail(t) = s
<1> DEFINE t == <<x>> \o s
<1>1. s \in Seq(S \cup {x}) /\ <<x>> \in Seq(S \cup {x}) /\ Len(<<x>>) = 1
  OBVIOUS
<1>2. t \in Seq(S \cup {x}) /\ Len(t) = 1 + Len(s)
      /\ \A i \in 1 .. 1 + Len(s) : t[i] = IF i <= 1 THEN <<x>>[i] ELSE s[i - 1]
  BY <1>1, ConcatProperties
<1>3. Len(s) \in Nat /\ DOMAIN s = 1 .. Len(s) /\ DOMAIN t = 1 .. Len(t)
  BY <1>2, LenProperties
<1>4. t[1] = x /\ \A i \in DOMAIN s : t[i + 1] = s[i]
  BY <1>2, <1>3
<1> HIDE DEF t
<1>5. t # <<>>
  BY <1>2, <1>3
<1>6. Head(t) = x
  BY <1>2, <1>4, <1>5
<1>7. Tail(t) = s
  <2>1. /\ Tail(t) \in Seq(S \cup {x}) /\ Len(Tail(t)) = Len(t) - 1
        /\ \A i \in 1 .. Len(Tail(t)) : Tail(t)[i] = t[i + 1]
    BY <1>2, <1>5, HeadTailProperties
  <2>2. Len(Tail(t)) = Len(s)
    BY <2>1, <1>2, <1>3
  <2>3. DOMAIN Tail(t) = 1 .. Len(s)
    BY <2>1, <2>2, LenProperties
  <2>4. \A i \in 1 .. Len(s) : Tail(t)[i] = s[i]
    BY <2>1, <2>2, <1>3, <1>4
  <2> QED BY <2>1, <2>2, <2>4, <1>1, SeqEqual
<1> QED BY <1>2, <1>3, <1>4, <1>5, <1>6, <1>7 DEF t

(* A stack with one more frame: every counter by what the frame adds.      *)
LEMMA Counted ==
  ASSUME NEW S, NEW s \in Seq(S), NEW x, NEW t, t = <<x>> \o s
  PROVE  /\ LoopsOn(t) = LoopsOn(s) + Loops(x) /\ CallsOn(t) = CallsOn(s) + Calls(x)
         /\ SuppressorsOn(t) = SuppressorsOn(s) + Suppresses(x)
         /\ TrapsOn(t) = TrapsOn(s) + Traps(x)
         /\ LoopsOn(s) \in Nat /\ CallsOn(s) \in Nat
         /\ SuppressorsOn(s) \in Nat /\ TrapsOn(s) \in Nat
         /\ InExit(t) <=> Exits(x) \/ InExit(s)
<1>1. /\ Len(s) \in Nat /\ DOMAIN t = 1 .. Len(s) + 1 /\ DOMAIN s = 1 .. Len(s)
      /\ t[1] = x /\ \A i \in DOMAIN s : t[i + 1] = s[i]
  BY OnTop
<1> DEFINE n == Len(s)
<1>2. \A j \in 1 .. n + 1 : j = 1 \/ \E i \in 1 .. n : j = i + 1
  <2> SUFFICES ASSUME NEW j \in 1 .. n + 1, j # 1 PROVE \E i \in 1 .. n : j = i + 1
    OBVIOUS
  <2>1. j - 1 \in 1 .. n /\ j = (j - 1) + 1
    BY <1>1
  <2> QED BY <2>1
<1> HIDE DEF n
<1>3. ASSUME NEW A \in SUBSET (1 .. n), NEW C \in SUBSET (1 .. n + 1),
             \A i \in 1 .. n : i \in A <=> i + 1 \in C
      PROVE  /\ Cardinality(A) \in Nat
             /\ 1 \in C => Cardinality(C) = Cardinality(A) + 1
             /\ 1 \notin C => Cardinality(C) = Cardinality(A)
  <2> DEFINE B == {i + 1 : i \in A}
  <2>1. n \in Nat
    BY <1>1 DEF n
  <2>2. \A j \in C : j = 1 \/ j \in B
    BY <1>2, <1>3
  <2>3. B \subseteq C
    BY <1>3
  <2>4. /\ 1 \in C => C = {1} \cup B
        /\ 1 \notin C => C = B
    BY <2>2, <2>3
  <2> QED BY <2>1, <2>4, Shift
<1>4. /\ LoopsOn(s) \in Nat
      /\ LoopsOn(t) = LoopsOn(s) + Loops(x)
  <2> DEFINE A == Positions(s, {"cond", "body", "for"})
             C == Positions(t, {"cond", "body", "for"})
  <2>1. A \in SUBSET (1 .. n) /\ C \in SUBSET (1 .. n + 1)
    BY <1>1 DEF Positions, n
  <2>2. \A i \in 1 .. n : i \in A <=> i + 1 \in C
    BY <1>1 DEF Positions, n
  <2>3. 1 \in C <=> x.f \in {"cond", "body", "for"}
    BY <1>1 DEF Positions, n
  <2> QED BY <2>1, <2>2, <2>3, <1>3 DEF LoopsOn, Loops
<1>5. /\ CallsOn(s) \in Nat
      /\ CallsOn(t) = CallsOn(s) + Calls(x)
  <2> DEFINE A == Positions(s, {"call"})
             C == Positions(t, {"call"})
  <2>1. A \in SUBSET (1 .. n) /\ C \in SUBSET (1 .. n + 1)
    BY <1>1 DEF Positions, n
  <2>2. \A i \in 1 .. n : i \in A <=> i + 1 \in C
    BY <1>1 DEF Positions, n
  <2>3. 1 \in C <=> x.f = "call"
    BY <1>1 DEF Positions, n
  <2> QED BY <2>1, <2>2, <2>3, <1>3 DEF CallsOn, Calls
<1>6. /\ TrapsOn(s) \in Nat
      /\ TrapsOn(t) = TrapsOn(s) + Traps(x)
  <2> DEFINE A == {i \in Positions(s, {"string"}) : s[i].why \in {"ERR", "RETURN"}}
             C == {i \in Positions(t, {"string"}) : t[i].why \in {"ERR", "RETURN"}}
  <2>1. A \in SUBSET (1 .. n) /\ C \in SUBSET (1 .. n + 1)
    BY <1>1 DEF Positions, n
  <2>2. \A i \in 1 .. n : i \in A <=> i + 1 \in C
    BY <1>1 DEF Positions, n
  <2>3. 1 \in C <=> x.f = "string" /\ x.why \in {"ERR", "RETURN"}
    BY <1>1 DEF Positions, n
  <2>4. TrapsOn(s) = Cardinality(A) /\ TrapsOn(t) = Cardinality(C)
    BY DEF TrapsOn
  <2>5. Traps(x) = IF 1 \in C THEN 1 ELSE 0
    BY <2>3 DEF Traps
  <2> HIDE DEF A, C
  <2>6. Cardinality(A) \in Nat /\ Cardinality(C) = Cardinality(A) + IF 1 \in C THEN 1 ELSE 0
    BY <2>1, <2>2, <1>3
  <2> QED BY <2>4, <2>5, <2>6
<1>7. /\ SuppressorsOn(s) \in Nat
      /\ SuppressorsOn(t) = SuppressorsOn(s) + Suppresses(x)
  <2> DEFINE A == Positions(s, {"cond", "if", "not"})
                    \cup {i \in Positions(s, {"range"}) : s[i].lhs}
             C == Positions(t, {"cond", "if", "not"})
                    \cup {i \in Positions(t, {"range"}) : t[i].lhs}
  <2>1. A \in SUBSET (1 .. n) /\ C \in SUBSET (1 .. n + 1)
    BY <1>1 DEF Positions, n
  <2>2. \A i \in 1 .. n : i \in A <=> i + 1 \in C
    BY <1>1 DEF Positions, n
  <2>3. 1 \in C <=> x.f \in {"cond", "if", "not"} \/ (x.f = "range" /\ x.lhs)
    BY <1>1 DEF Positions, n
  <2>4. SuppressorsOn(s) = Cardinality(A) /\ SuppressorsOn(t) = Cardinality(C)
    BY DEF SuppressorsOn
  <2>5. Suppresses(x) = IF 1 \in C THEN 1 ELSE 0
    BY <2>3 DEF Suppresses
  <2> HIDE DEF A, C
  <2>6. Cardinality(A) \in Nat /\ Cardinality(C) = Cardinality(A) + IF 1 \in C THEN 1 ELSE 0
    BY <2>1, <2>2, <1>3
  <2> QED BY <2>4, <2>5, <2>6
<1>8. InExit(t) <=> Exits(x) \/ InExit(s)
  <2>1. InExit(s) <=> \E i \in 1 .. n : Exits(s[i])
    BY <1>1 DEF InExit, Exits, Positions, n
  <2>2. InExit(t) <=> \E j \in 1 .. n + 1 : Exits(t[j])
    BY <1>1 DEF InExit, Exits, Positions, n
  <2>3. 1 \in 1 .. n + 1 /\ \A i \in 1 .. n : i + 1 \in 1 .. n + 1 /\ t[i + 1] = s[i]
    BY <1>1 DEF n
  <2> QED BY <1>1, <1>2, <2>1, <2>2, <2>3
<1> QED BY <1>4, <1>5, <1>6, <1>7, <1>8

(* Such a stack is in order if the frame is in its place.                  *)
LEMMA Pushed ==
  ASSUME NEW s, Stacked(s), NEW x, Placed(x, s), NEW t, t = <<x>> \o s
  PROVE  Stacked(t)
<1>1. s \in Seq(Elems(s))
  BY DEF Stacked
<1>2. /\ t \in Seq(Elems(s) \cup {x}) /\ Len(s) \in Nat /\ Len(t) = Len(s) + 1
      /\ DOMAIN t = 1 .. Len(s) + 1 /\ DOMAIN s = 1 .. Len(s)
      /\ t[1] = x /\ \A i \in DOMAIN s : t[i + 1] = s[i]
  BY <1>1, OnTop
<1>3. t \in Seq(Elems(t))
  <2>1. t \in [1 .. Len(t) -> Elems(t)]
    BY <1>2, LenProperties DEF Elems
  <2>2. Len(t) \in Nat
    BY <1>2
  <2> QED BY <2>1, <2>2, Listed
<1>4. ASSUME NEW j \in DOMAIN t
      PROVE  Kind(t[j]) /\ (Leans(t[j]) => j < Len(t) /\ Over(t[j], t[j + 1]))
  <2>1. CASE j = 1
    <3>1. t[j] = x /\ (s # <<>> => 1 \in DOMAIN s /\ Head(s) = s[1])
      <4>1. s # <<>> => Len(s) >= 1 /\ Head(s) = s[1]
        BY <1>1, <1>2, EmptySeq
      <4> QED BY <1>2, <2>1, <4>1
    <3>2. s # <<>> => j < Len(t) /\ t[j + 1] = Head(s)
      BY <1>2, <2>1, <3>1
    <3> QED BY <3>1, <3>2 DEF Placed
  <2>2. CASE j # 1
    <3>1. PICK i \in DOMAIN s : j = i + 1
      <4>1. j - 1 \in DOMAIN s /\ j = (j - 1) + 1
        BY <1>2, <2>2
      <4> QED BY <4>1
    <3>2. Kind(s[i]) /\ (Leans(s[i]) => i < Len(s) /\ Over(s[i], s[i + 1]))
      BY DEF Stacked
    <3>3. t[j] = s[i] /\ i \in Nat /\ (i < Len(s) => j < Len(t) /\ t[j + 1] = s[i + 1])
      BY <1>2, <3>1
    <3> QED BY <3>2, <3>3
  <2> QED BY <2>1, <2>2
<1> QED BY <1>3, <1>4 DEF Stacked

(* What is under the top of a stack is in order, and the top in its place. *)
LEMMA Popped ==
  ASSUME NEW s, Stacked(s), s # <<>>
  PROVE  /\ Stacked(Tail(s)) /\ Placed(Head(s), Tail(s))
         /\ s = <<Head(s)>> \o Tail(s)
<1> DEFINE t == Tail(s)
<1>1. s \in Seq(Elems(s)) /\ Len(s) \in Nat \ {0} /\ DOMAIN s = 1 .. Len(s) /\ Head(s) = s[1]
  BY EmptySeq DEF Stacked
<1>2. /\ Head(s) \in Elems(s) /\ t \in Seq(Elems(s)) /\ Len(t) = Len(s) - 1
      /\ \A i \in 1 .. Len(t) : t[i] = s[i + 1]
      /\ DOMAIN t = 1 .. Len(t)
  BY <1>1, HeadTailProperties, LenProperties
<1> HIDE DEF t
<1>3. t \in Seq(Elems(t))
  <2>1. t \in [1 .. Len(t) -> Elems(t)]
    BY <1>2, LenProperties DEF Elems
  <2>2. Len(t) \in Nat
    BY <1>1, <1>2
  <2> QED BY <2>1, <2>2, Listed
<1>4. ASSUME NEW i \in DOMAIN t
      PROVE  Kind(t[i]) /\ (Leans(t[i]) => i < Len(t) /\ Over(t[i], t[i + 1]))
  <2>1. i + 1 \in DOMAIN s /\ t[i] = s[i + 1] /\ i \in Nat
        /\ (i + 1 < Len(s) => i < Len(t) /\ t[i + 1] = s[(i + 1) + 1])
    BY <1>1, <1>2
  <2>2. /\ Kind(s[i + 1])
        /\ Leans(s[i + 1]) => i + 1 < Len(s) /\ Over(s[i + 1], s[(i + 1) + 1])
    BY <2>1 DEF Stacked
  <2> QED BY <2>1, <2>2
<1>5. Placed(Head(s), t)
  <2>1. 1 \in DOMAIN s
    BY <1>1
  <2>2. Kind(s[1]) /\ (Leans(s[1]) => 1 < Len(s) /\ Over(s[1], s[1 + 1]))
    BY <2>1 DEF Stacked
  <2>3. 1 < Len(s) => t # <<>> /\ Head(t) = s[1 + 1]
    <3>1. 1 < Len(s) => Len(t) >= 1 /\ t[1] = s[1 + 1]
      BY <1>1, <1>2
    <3>2. Len(t) >= 1 => t # <<>> /\ Head(t) = t[1]
      BY <1>2, EmptySeq
    <3> QED BY <3>1, <3>2
  <2> QED BY <1>1, <2>2, <2>3 DEF Placed
<1>6. s = <<Head(s)>> \o t
  <2> DEFINE u == <<Head(s)>> \o t
  <2>1. u \in Seq(Elems(s) \cup {Head(s)}) /\ Len(t) \in Nat /\ Len(u) = Len(t) + 1
        /\ u[1] = Head(s) /\ \A i \in DOMAIN t : u[i + 1] = t[i]
    BY <1>2, OnTop
  <2>2. Elems(s) \cup {Head(s)} = Elems(s)
    BY <1>2
  <2> HIDE DEF u
  <2>3. Len(u) = Len(s)
    BY <1>1, <1>2, <2>1
  <2>4. ASSUME NEW j \in 1 .. Len(s) PROVE s[j] = u[j]
    <3>1. CASE j = 1
      BY <1>1, <2>1, <3>1
    <3>2. CASE j # 1
      <4>1. j - 1 \in DOMAIN t /\ j = (j - 1) + 1
        BY <1>1, <1>2, <3>2
      <4> QED BY <1>2, <2>1, <4>1
    <3> QED BY <3>1, <3>2
  <2>5. u \in Seq(Elems(s))
    BY <2>1, <2>2
  <2>6. s = u
    BY <1>1, <2>3, <2>4, <2>5, SeqEqual
  <2> QED BY <2>6 DEF u
<1> QED BY <1>3, <1>4, <1>5, <1>6 DEF Stacked, t

-----------------------------------------------------------------------------
(* Counters and stack together.                                            *)

Even(s, l, c, e, t) ==
  \/ InExit(s)
  \/ l = LoopsOn(s) /\ c = CallsOn(s) /\ e = SuppressorsOn(s) /\ t = TrapsOn(s)

(* A frame goes on with its counters raised: all is even again.            *)
LEMMA PushKeeps ==
  ASSUME NEW s, Stacked(s), NEW x, Placed(x, s),
         NEW l \in Int, NEW c \in Int, NEW e \in Int, NEW n \in Int, Even(s, l, c, e, n)
  PROVE  /\ Stacked(<<x>> \o s)
         /\ Even(<<x>> \o s, l + Loops(x), c + Calls(x), e + Suppresses(x), n + Traps(x))
<1> DEFINE t == <<x>> \o s
<1>1. Stacked(t)
  BY Pushed
<1>2. s \in Seq(Elems(s))
  BY DEF Stacked
<1> HIDE DEF t
<1>3. /\ LoopsOn(t) = LoopsOn(s) + Loops(x) /\ CallsOn(t) = CallsOn(s) + Calls(x)
      /\ SuppressorsOn(t) = SuppressorsOn(s) + Suppresses(x)
      /\ TrapsOn(t) = TrapsOn(s) + Traps(x)
      /\ InExit(t) <=> Exits(x) \/ InExit(s)
  BY <1>2, Counted DEF t
<1>4. Even(t, l + Loops(x), c + Calls(x), e + Suppresses(x), n + Traps(x))
  BY <1>3 DEF Even
<1> QED BY <1>1, <1>4 DEF t

(* The top frame comes off with its counters lowered.                      *)
LEMMA PopKeeps ==
  ASSUME NEW s, Stacked(s), s # <<>>,
         NEW l \in Int, NEW c \in Int, NEW e \in Int, NEW n \in Int, Even(s, l, c, e, n)
  PROVE  /\ Stacked(Tail(s)) /\ Placed(Head(s), Tail(s))
         /\ ~Exits(Head(s)) =>
              Even(Tail(s), l - Loops(Head(s)), c - Calls(Head(s)),
                   e - Suppresses(Head(s)), n - Traps(Head(s)))
<1> DEFINE x == Head(s)
           t == Tail(s)
<1>1. Stacked(t) /\ Placed(x, t) /\ s = <<x>> \o t
  BY Popped
<1>2. t \in Seq(Elems(t))
  BY <1>1 DEF Stacked
<1> HIDE DEF x, t
<1>3. /\ LoopsOn(s) = LoopsOn(t) + Loops(x) /\ CallsOn(s) = CallsOn(t) + Calls(x)
      /\ SuppressorsOn(s) = SuppressorsOn(t) + Suppresses(x)
      /\ TrapsOn(s) = TrapsOn(t) + Traps(x)
      /\ LoopsOn(t) \in Nat /\ CallsOn(t) \in Nat
      /\ SuppressorsOn(t) \in Nat /\ TrapsOn(t) \in Nat
      /\ InExit(s) <=> Exits(x) \/ InExit(t)
  BY <1>1, <1>2, Counted
<1>4. Loops(x) \in Int /\ Calls(x) \in Int /\ Suppresses(x) \in Int /\ Traps(x) \in Int
  BY DEF Loops, Calls, Suppresses, Traps
<1>5. ~Exits(x) => Even(t, l - Loops(x), c - Calls(x), e - Suppresses(x), n - Traps(x))
  BY <1>3, <1>4 DEF Even
<1> QED BY <1>1, <1>5 DEF x, t

(* An empty stack is in order, and so is a single frame that leans on none.*)
LEMMA Bare ==
  /\ Stacked(<<>>)
  /\ Even(<<>>, 0, 0, 0, 0)
  /\ \A x : Kind(x) /\ ~Leans(x) => Stacked(<<x>>) /\ (Exits(x) => InExit(<<x>>))
<1>1. Stacked(<<>>)
  BY DEF Stacked, Elems
<1>2. Even(<<>>, 0, 0, 0, 0)
  <2>1. /\ \A K : Positions(<<>>, K) = {}
        /\ {i \in {} : <<>>[i].why \in {"ERR", "RETURN"}} = {}
        /\ {} \cup {i \in {} : <<>>[i].lhs} = {}
    BY DEF Positions
  <2>2. Cardinality({}) = 0
    BY FS_EmptySet
  <2> QED BY <2>1, <2>2 DEF Even, LoopsOn, CallsOn, SuppressorsOn, TrapsOn
<1>3. ASSUME NEW x, Kind(x), ~Leans(x)
      PROVE  Stacked(<<x>>) /\ (Exits(x) => InExit(<<x>>))
  <2>1. DOMAIN <<x>> = {1} /\ <<x>>[1] = x /\ Elems(<<x>>) = {x} /\ <<x>> \in Seq({x})
    BY DEF Elems
  <2>2. Stacked(<<x>>)
    BY <1>3, <2>1 DEF Stacked
  <2>3. Exits(x) => InExit(<<x>>)
    BY <2>1 DEF Exits, InExit, Positions
  <2> QED BY <2>2, <2>3
<1> QED BY <1>1, <1>2, <1>3

(* Marking the call that returns moves no frame.                           *)
LEMMA Marked ==
  ASSUME Stacked(stack), NEW l, NEW c, NEW e, NEW n, Even(stack, l, c, e, n)
  PROVE  Stacked(Returning) /\ Even(Returning, l, c, e, n)
<1> DEFINE ends == Positions(stack, {"call", "string"})
           k == CHOOSE i \in ends : \A j \in ends : i <= j
           t == [stack EXCEPT ![k].returned = TRUE]
<1>1. Returning = IF stack[k].f = "call" THEN t ELSE stack
  BY DEF Returning
<1> HIDE DEF ends, k
<1>2. CASE stack[k].f # "call"
  BY <1>1, <1>2
<1>3. CASE stack[k].f = "call"
  <2>1. stack \in Seq(Elems(stack)) /\ Len(stack) \in Nat /\ DOMAIN stack = 1 .. Len(stack)
    BY LenProperties DEF Stacked
  <2>2. DOMAIN t = 1 .. Len(stack)
        /\ \A i \in DOMAIN stack : t[i] = IF i = k THEN [stack[k] EXCEPT !.returned = TRUE]
                                         ELSE stack[i]
    BY <2>1
  <2> HIDE DEF t
  <2>3. k \in DOMAIN stack => Kind(stack[k])
    BY DEF Stacked
  <2>4. \A i \in DOMAIN stack :
          i = k => t[i] = [f |-> "call", saved |-> stack[k].saved, returned |-> TRUE]
    BY <1>3, <2>2, <2>3 DEF Kind
  <2>5. \A i \in DOMAIN stack : t[i].f = stack[i].f /\ (i # k => t[i] = stack[i])
    BY <1>3, <2>2, <2>4
  <2>6. t \in [1 .. Len(stack) -> Elems(t)]
    <3>1. \A i \in 1 .. Len(stack) : t[i] \in Elems(t)
      BY <2>2 DEF Elems
    <3>2. t = [i \in 1 .. Len(stack) |-> t[i]]
      BY <2>1 DEF t
    <3> QED BY <3>1, <3>2
  <2>7. t \in Seq(Elems(t)) /\ Len(t) = Len(stack)
    BY <2>1, <2>6, Listed, LenProperties
  <2>8. ASSUME NEW i \in DOMAIN t
        PROVE  Kind(t[i]) /\ (Leans(t[i]) => i < Len(t) /\ Over(t[i], t[i + 1]))
    <3>1. i \in DOMAIN stack
      BY <2>1, <2>2
    <3>2. CASE i = k
      BY <2>4, <3>1, <3>2 DEF Kind, Leans
    <3>3. CASE i # k
      <4>1. t[i] = stack[i] /\ Kind(stack[i])
            /\ (Leans(stack[i]) => i < Len(stack) /\ Over(stack[i], stack[i + 1]))
        BY <2>5, <3>1, <3>3 DEF Stacked
      <4>2. i < Len(stack) => i + 1 \in DOMAIN stack
        BY <2>1, <3>1
      <4> QED BY <2>5, <2>7, <4>1, <4>2 DEF Over
    <3> QED BY <3>2, <3>3
  <2>9. Stacked(t)
    BY <2>7, <2>8 DEF Stacked
  <2>10. \A K : Positions(t, K) = Positions(stack, K)
    BY <2>1, <2>2, <2>5 DEF Positions
  <2>11. /\ {i \in Positions(t, {"string"}) : t[i].why \in {"ERR", "RETURN"}}
            = {i \in Positions(stack, {"string"}) : stack[i].why \in {"ERR", "RETURN"}}
         /\ {i \in Positions(t, {"range"}) : t[i].lhs}
            = {i \in Positions(stack, {"range"}) : stack[i].lhs}
         /\ InExit(stack) => InExit(t)
    <3>1. \A i \in Positions(stack, {"string"}) \cup Positions(stack, {"range"}) :
            t[i] = stack[i]
      BY <1>3, <2>5 DEF Positions
    <3> QED BY <2>10, <3>1 DEF InExit
  <2>12. Even(t, l, c, e, n)
    BY <2>10, <2>11 DEF Even, LoopsOn, CallsOn, SuppressorsOn, TrapsOn
  <2> QED BY <1>1, <1>3, <2>9, <2>12 DEF t
<1> QED BY <1>2, <1>3

-----------------------------------------------------------------------------
(* How a step moves the stack.                                             *)

Moved == Numbers' /\ Stacked(stack') /\ CountersPaired'

(* The counters are even with the stack while the shell is there.          *)
LEMMA Balanced ==
  CountersPaired <=> \/ ctl.do = "gone"
                     \/ Even(stack, loop_depth, func_depth, errexit_off, trap_depth)
BY DEF CountersPaired, Even, InExit

LEMMA BalancedNext ==
  Even(stack', loop_depth', func_depth', errexit_off', trap_depth') => CountersPaired'
BY DEF CountersPaired, Even, InExit, Positions, LoopsOn, CallsOn, SuppressorsOn, TrapsOn

LEMMA Raise ==
  ASSUME CInv, ctl.do # "gone", NEW x, Placed(x, stack), stack' = <<x>> \o stack,
         loop_depth' = loop_depth + Loops(x), func_depth' = func_depth + Calls(x),
         errexit_off' = errexit_off + Suppresses(x), trap_depth' = trap_depth + Traps(x)
  PROVE  Moved
<1>1. Stacked(stack) /\ Even(stack, loop_depth, func_depth, errexit_off, trap_depth) /\ Numbers
  BY Balanced DEF CInv
<1>2. /\ Stacked(stack')
      /\ Even(stack', loop_depth', func_depth', errexit_off', trap_depth')
  BY <1>1, PushKeeps DEF Numbers
<1>3. Numbers'
  BY <1>1 DEF Numbers, Loops, Calls, Suppresses, Traps
<1> QED BY <1>2, <1>3, BalancedNext DEF Moved

(* What is known of the top frame.                                         *)
LEMMA AtTop ==
  ASSUME CInv, ctl.do # "gone", stack # <<>>
  PROVE  /\ Kind(Top) /\ Placed(Top, Below) /\ Stacked(Below)
         /\ ~Exits(Top) =>
              Even(Below, loop_depth - Loops(Top), func_depth - Calls(Top),
                   errexit_off - Suppresses(Top), trap_depth - Traps(Top))
<1>1. Stacked(stack) /\ Even(stack, loop_depth, func_depth, errexit_off, trap_depth) /\ Numbers
  BY Balanced DEF CInv
<1> QED BY <1>1, PopKeeps DEF Numbers, Placed, Top, Below

LEMMA Lower ==
  ASSUME CInv, ctl.do # "gone", stack # <<>>, ~Exits(Top), stack' = Below,
         loop_depth' = loop_depth - Loops(Top), func_depth' = func_depth - Calls(Top),
         errexit_off' = errexit_off - Suppresses(Top), trap_depth' = trap_depth - Traps(Top)
  PROVE  Moved
<1>1. /\ Stacked(stack')
      /\ Even(stack', loop_depth', func_depth', errexit_off', trap_depth')
  BY AtTop
<1>2. Numbers'
  BY DEF CInv, Numbers, Loops, Calls, Suppresses, Traps
<1> QED BY <1>1, <1>2, BalancedNext DEF Moved

LEMMA Swap ==
  ASSUME CInv, ctl.do # "gone", stack # <<>>, ~Exits(Top), NEW x, Placed(x, Below),
         stack' = <<x>> \o Below,
         loop_depth' = (loop_depth - Loops(Top)) + Loops(x),
         func_depth' = (func_depth - Calls(Top)) + Calls(x),
         errexit_off' = (errexit_off - Suppresses(Top)) + Suppresses(x),
         trap_depth' = (trap_depth - Traps(Top)) + Traps(x)
  PROVE  Moved
<1> DEFINE l == loop_depth - Loops(Top)
           c == func_depth - Calls(Top)
           e == errexit_off - Suppresses(Top)
           n == trap_depth - Traps(Top)
<1>1. Stacked(Below) /\ Even(Below, l, c, e, n)
  BY AtTop
<1>2. l \in Int /\ c \in Int /\ e \in Int /\ n \in Int
  BY DEF CInv, Numbers, Loops, Calls, Suppresses, Traps
<1> HIDE DEF l, c, e, n
<1>3. /\ Stacked(<<x>> \o Below)
      /\ Even(<<x>> \o Below, l + Loops(x), c + Calls(x), e + Suppresses(x), n + Traps(x))
  BY <1>1, <1>2, PushKeeps
<1>4. Even(stack', loop_depth', func_depth', errexit_off', trap_depth')
  BY <1>3 DEF l, c, e, n
<1>5. Numbers'
  BY <1>2 DEF Numbers, Loops, Calls, Suppresses, Traps, l, c, e, n
<1> QED BY <1>3, <1>4, <1>5, BalancedNext DEF Moved

LEMMA Stay ==
  ASSUME CInv, ctl.do # "gone", UNCHANGED <<stack, depths>>
  PROVE  Moved
<1>1. Stacked(stack) /\ Even(stack, loop_depth, func_depth, errexit_off, trap_depth) /\ Numbers
  BY Balanced DEF CInv
<1>2. Even(stack', loop_depth', func_depth', errexit_off', trap_depth') /\ Stacked(stack')
  BY <1>1 DEF depths
<1> QED BY <1>1, <1>2, BalancedNext DEF Moved, Numbers, depths

-----------------------------------------------------------------------------
(* The frames there are.                                                   *)

Weighs(x, l, c, e, n) ==
  Loops(x) = l /\ Calls(x) = c /\ Suppresses(x) = e /\ Traps(x) = n

Fits(x, l, c, e, n) == Kind(x) /\ ~Leans(x) /\ Weighs(x, l, c, e, n)

LEMMA Frames ==
  /\ \A todo \in Seq(Seq(OperandsOf(Nodes))) : Fits(ListFrame(todo), 0, 0, 0, 0)
  /\ \A todo \in Seq(OperandsOf(Nodes)), lhs \in BOOLEAN : \A ran, neg :
       (todo = <<>> => ~lhs) =>
         Fits(RangeFrame(todo, ran, lhs, neg), 0, 0, IF lhs THEN 1 ELSE 0, 0)
  /\ Fits(NotFrame, 0, 0, 1, 0)
  /\ \A node \in Nodes : node.k = "loop" =>
       Fits(BodyFrame(node), 1, 0, 0, 0) /\ \A st : Fits(CondFrame(node, st), 1, 0, 1, 0)
  /\ \A body \in Nodes : \A left : Fits(ForFrame(left, body), 1, 0, 0, 0)
  /\ \A node \in Nodes : node.k = "if" => Fits(IfFrame(node), 0, 0, 1, 0)
  /\ \A node \in Nodes : Fits(AlwaysFrame(node), 0, 0, 0, 0)
  /\ \A st, save : Fits(CleanupFrame(st, save), 0, 0, 0, 0)
  /\ \A saved : Fits(CallFrame(saved), 0, 1, 0, 0)
<1> USE DEF Fits, Weighs, Kind, Leans, Loops, Calls, Suppresses, Traps
<1>1. \A todo \in Seq(Seq(OperandsOf(Nodes))) : Fits(ListFrame(todo), 0, 0, 0, 0)
  BY DEF ListFrame
<1>2. \A todo \in Seq(OperandsOf(Nodes)), lhs \in BOOLEAN : \A ran, neg :
        (todo = <<>> => ~lhs) =>
          Fits(RangeFrame(todo, ran, lhs, neg), 0, 0, IF lhs THEN 1 ELSE 0, 0)
  BY DEF RangeFrame
<1>3. Fits(NotFrame, 0, 0, 1, 0)
  BY DEF NotFrame
<1>4. \A node \in Nodes : node.k = "loop" =>
        Fits(BodyFrame(node), 1, 0, 0, 0) /\ \A st : Fits(CondFrame(node, st), 1, 0, 1, 0)
  BY DEF BodyFrame, CondFrame
<1>5. \A body \in Nodes : \A left : Fits(ForFrame(left, body), 1, 0, 0, 0)
  BY DEF ForFrame
<1>6. \A node \in Nodes : node.k = "if" => Fits(IfFrame(node), 0, 0, 1, 0)
  BY DEF IfFrame
<1>7. \A node \in Nodes : Fits(AlwaysFrame(node), 0, 0, 0, 0)
  BY DEF AlwaysFrame
<1>8. \A st, save : Fits(CleanupFrame(st, save), 0, 0, 0, 0)
  BY DEF CleanupFrame
<1>9. \A saved : Fits(CallFrame(saved), 0, 1, 0, 0)
  BY DEF CallFrame
<1> QED BY <1>1, <1>2, <1>3, <1>4, <1>5, <1>6, <1>7, <1>8, <1>9

(* The body of a string weighs on trap_depth if it is that of ERR or RETURN.*)
Text(x, why, n) == Kind(x) /\ x.f = "string" /\ x.why = why /\ Weighs(x, 0, 0, 0, n)

LEMMA Strings ==
  \A todo \in Seq(Nodes) : \A saved, st :
    /\ Text(StringFrame(todo, "eval", saved, st), "eval", 0)
    /\ Text(StringFrame(todo, "signal", saved, st), "signal", 0)
    /\ Text(StringFrame(todo, "ERR", saved, st), "ERR", 1)
    /\ Text(StringFrame(todo, "RETURN", saved, st), "RETURN", 1)
    /\ Text(StringFrame(todo, "EXIT", saved, st), "EXIT", 0)
BY DEF Text, StringFrame, Kind, Weighs, Loops, Calls, Suppresses, Traps, Whys

(* A sequence that is not empty has a head and a tail.                     *)
LEMMA Parts ==
  ASSUME NEW S, NEW q \in Seq(S), q # <<>>
  PROVE  Head(q) \in S /\ Tail(q) \in Seq(S)
BY HeadTailProperties

LEMMA Last ==
  ASSUME NEW S, NEW q \in Seq(S), q # <<>>, Tail(q) = <<>>
  PROVE  ~(Len(q) > 1)
<1> DEFINE n == Len(q)
           m == Len(Tail(q))
<1>1. m = n - 1 /\ n \in Nat
  BY HeadTailProperties, LenProperties
<1>2. m = 0
  BY EmptySeq
<1> HIDE DEF n, m
<1>3. ~(n > 1)
  BY <1>1, <1>2
<1> QED BY <1>3 DEF n

(* exit_clean leaves the EXIT trap's body alone on the stack, or nothing.  *)
LEMMA Leave ==
  ASSUME CInv, NEW code, exit_clean(code), Numbers', UNCHANGED <<prog, pending>>
  PROVE  Moved /\ Control' /\ TrapBodies'
<1>1. CASE traps.EXIT
  <2>1. Head(prog.EXIT) \in Nodes /\ Tail(prog.EXIT) \in Seq(Nodes)
    <3>1. prog.EXIT \in Seq(Nodes) /\ prog.EXIT # <<>>
      BY <1>1, ShellExecAssumption DEF CInv, Given, TrapBodies, ScriptOf
    <3> QED BY <3>1, Parts
  <2> DEFINE x == StringFrame(Tail(prog.EXIT), "EXIT", last, code)
  <2>2. Kind(x) /\ x.f = "string" /\ x.why = "EXIT"
    BY <2>1, Strings DEF Text
  <2>3. stack' = <<x>> /\ ctl' = Run(Head(prog.EXIT))
        /\ traps' = [traps EXCEPT !.EXIT = FALSE]
    BY <1>1 DEF exit_clean
  <2> HIDE DEF x
  <2>4. Stacked(stack') /\ InExit(stack')
    BY <2>2, <2>3, Bare DEF Leans, Exits
  <2>5. CountersPaired'
    BY <2>4 DEF CountersPaired, InExit, Positions
  <2>6. Control'
    BY <2>1, <2>3 DEF Control, Run
  <2>7. TrapBodies'
    BY <2>3 DEF CInv, TrapBodies
  <2> QED BY <2>4, <2>5, <2>6, <2>7 DEF Moved
<1>2. CASE ~traps.EXIT
  <2>1. stack' = <<>> /\ ctl' = Gone(code) /\ traps' = traps
    BY <1>2 DEF exit_clean
  <2>2. Stacked(stack') /\ CountersPaired' /\ Control'
    BY <2>1, Bare DEF CountersPaired, Control, Gone
  <2>3. TrapBodies'
    BY <2>1 DEF CInv, TrapBodies
  <2> QED BY <2>2, <2>3 DEF Moved
<1> QED BY <1>1, <1>2

-----------------------------------------------------------------------------
(* The walk, action by action: input, lists and signals.                   *)

LEMMA TopLevelKeeps == ASSUME CInv, execute_top_level PROVE CInv'
<1>1. CASE ctl = Idle /\ input # <<>> /\ ctl' = Run(Head(input)) /\ input' = Tail(input)
           /\ UNCHANGED <<prog, stack, last, flags, depths, traps, async>>
  <2>1. Head(input) \in Nodes /\ Tail(input) \in Seq(Nodes)
    BY <1>1, Parts DEF CInv, Given
  <2>2. Moved
    BY <1>1, Stay DEF Idle
  <2>3. Given' /\ Control' /\ TrapBodies'
    BY <1>1, <2>1 DEF CInv, Given, Control, TrapBodies, Run, async
  <2> QED BY <2>2, <2>3 DEF CInv, Moved
<1>2. CASE ctl = Idle /\ exit_clean(last)
           /\ UNCHANGED <<prog, input, last, flags, depths, async>>
  <2>1. Moved /\ Control' /\ TrapBodies'
    BY <1>2, Leave DEF CInv, Numbers, depths, async
  <2> QED BY <1>2, <2>1 DEF CInv, Moved, Given
<1>3. CASE ctl.do = "status" /\ stack = <<>> /\ ctl' = Idle
           /\ UNCHANGED <<prog, input, stack, flags, depths, traps, async>>
  <2>1. Moved
    BY <1>3, Stay
  <2>2. Given' /\ Control' /\ TrapBodies'
    BY <1>3 DEF CInv, Given, Control, TrapBodies, Idle, async
  <2> QED BY <2>1, <2>2 DEF CInv, Moved
<1> QED BY <1>1, <1>2, <1>3 DEF execute_top_level

LEMMA SignalKeeps == ASSUME CInv, trap_sighandler PROVE CInv'
<1>1. Moved
  BY Stay DEF trap_sighandler
<1>2. Given' /\ Control' /\ TrapBodies'
  BY DEF trap_sighandler, CInv, Given, Control, TrapBodies, Top
<1> QED BY <1>1, <1>2 DEF CInv, Moved

LEMMA ListKeeps == ASSUME CInv, execute_simple_list PROVE CInv'
<1> DEFINE x == ListFrame(ctl.node.ranges)
<1>1. /\ ctl.do = "run" /\ ctl.node.k = "list" /\ stack' = <<x>> \o stack
      /\ ctl' = [do |-> "range", st |-> 0]
      /\ UNCHANGED <<prog, input, last, flags, depths, traps, async>>
  BY DEF execute_simple_list, Push
<1>2. ctl.node.ranges \in Seq(Seq(OperandsOf(Nodes))) /\ ctl.node.ranges # <<>>
  BY <1>1, ShellExecAssumption DEF CInv, Control, Parsed
<1>3. Fits(x, 0, 0, 0, 0) /\ x.f = "list" /\ x.todo # <<>>
  BY <1>2, Frames DEF ListFrame
<1> HIDE DEF x
<1>4. Moved
  BY <1>1, <1>3, Raise DEF Fits, Weighs, Placed, CInv, Numbers, depths
<1>5. stack' # <<>> /\ Head(stack') = x
  BY <1>1, OnTop DEF CInv, Stacked
<1>6. Given' /\ Control' /\ TrapBodies'
  BY <1>1, <1>3, <1>5 DEF CInv, Given, Control, TrapBodies, Top, async
<1> QED BY <1>4, <1>6 DEF CInv, Moved

(* Two frames for one: the range, on the rest of its list.                 *)
LEMMA ConcatTwo ==
  ASSUME NEW S, NEW b \in Seq(S), NEW x, NEW y
  PROVE  <<y, x>> \o b = <<y>> \o (<<x>> \o b)
<1> DEFINE a == <<y>>
           c == <<x>>
           T == S \cup {x, y}
<1>1. a \in Seq(T) /\ c \in Seq(T)
  OBVIOUS
<1>2. b \in Seq(T)
  <2>1. S \subseteq T
    OBVIOUS
  <2> HIDE DEF T
  <2> QED BY <2>1, SeqMonotonic
<1>3. a \o c = <<y, x>>
  <2>1. <<y, x>> \in Seq(T) /\ Len(a) = 1 /\ Len(c) = 1
    OBVIOUS
  <2>2. /\ a \o c \in Seq(T) /\ Len(a \o c) = 2
        /\ (a \o c)[1] = y /\ (a \o c)[2] = x
    BY <1>1, <2>1, ConcatProperties
  <2> HIDE DEF T
  <2>3. \A i \in 1 .. 2 : (a \o c)[i] = <<y, x>>[i]
    BY <2>2
  <2> QED BY <2>1, <2>2, <2>3, SeqEqual
<1> HIDE DEF a, c, T
<1>4. (a \o c) \o b = a \o (c \o b)
  BY <1>1, <1>2, ConcatAssociative
<1> QED BY <1>3, <1>4 DEF a, c

LEMMA LightKeeps ==
  ASSUME Numbers, NEW s, Stacked(s), NEW x, Fits(x, 0, 0, 0, 0),
         Even(s, loop_depth, func_depth, errexit_off, trap_depth)
  PROVE  /\ Stacked(<<x>> \o s)
         /\ Even(<<x>> \o s, loop_depth, func_depth, errexit_off, trap_depth)
<1>1. Placed(x, s)
  BY DEF Placed, Fits
<1>2. /\ Stacked(<<x>> \o s)
      /\ Even(<<x>> \o s, loop_depth + Loops(x), func_depth + Calls(x),
              errexit_off + Suppresses(x), trap_depth + Traps(x))
  BY <1>1, PushKeeps DEF Numbers
<1> QED BY <1>2 DEF Numbers, Fits, Weighs

LEMMA RangeKeeps == ASSUME CInv, run_list_range PROVE CInv'
<1> DEFINE x == ListFrame(Tail(Top.todo))
           y == RangeFrame(Head(Top.todo), FALSE, FALSE, FALSE)
<1>1. /\ ctl.do = "range" /\ stack' = <<y, x>> \o Below /\ ctl' = Status(0)
      /\ UNCHANGED <<prog, input, last, flags, depths, traps, async>>
  BY DEF run_list_range
<1>2. stack # <<>> /\ Top.f = "list" /\ Top.todo # <<>>
  BY <1>1 DEF CInv, Control
<1>3. Kind(Top) /\ Stacked(Below)
      /\ Even(Below, loop_depth, func_depth, errexit_off, trap_depth)
  <2>1. Loops(Top) = 0 /\ Calls(Top) = 0 /\ Suppresses(Top) = 0 /\ Traps(Top) = 0
        /\ ~Exits(Top)
    BY <1>2 DEF Loops, Calls, Suppresses, Traps, Exits
  <2> QED BY <1>1, <1>2, <2>1, AtTop DEF CInv, Numbers
<1>4. Top.todo \in Seq(Seq(OperandsOf(Nodes)))
  BY <1>2, <1>3 DEF Kind
<1>5. Head(Top.todo) \in Seq(OperandsOf(Nodes))
      /\ Tail(Top.todo) \in Seq(Seq(OperandsOf(Nodes)))
  BY <1>2, <1>4, Parts
<1>6. Fits(x, 0, 0, 0, 0) /\ Fits(y, 0, 0, 0, 0)
  BY <1>5, Frames
<1>7. <<y, x>> \o Below = <<y>> \o (<<x>> \o Below)
  BY <1>3, ConcatTwo DEF Stacked
<1> HIDE DEF x, y
<1>8. Stacked(<<x>> \o Below)
      /\ Even(<<x>> \o Below, loop_depth, func_depth, errexit_off, trap_depth)
  BY <1>3, <1>6, LightKeeps DEF CInv
<1>9. Stacked(stack') /\ Even(stack', loop_depth, func_depth, errexit_off, trap_depth)
  BY <1>1, <1>6, <1>7, <1>8, LightKeeps DEF CInv
<1>10. Moved
  BY <1>1, <1>9, BalancedNext DEF Moved, CInv, Numbers, depths
<1>11. Given' /\ Control' /\ TrapBodies'
  BY <1>1 DEF CInv, Given, Control, TrapBodies, Status, async
<1> QED BY <1>10, <1>11 DEF CInv, Moved

LEMMA ReadKeeps == ASSUME CInv, ReadPending PROVE CInv'
<1>1. Moved
  BY Stay DEF ReadPending, Back
<1>2. Given' /\ Control' /\ TrapBodies'
  BY DEF ReadPending, Back, CInv, Given, Control, TrapBodies, Top, async
<1> QED BY <1>1, <1>2 DEF CInv, Moved

LEMMA PendingKeeps == ASSUME CInv, run_pending_traps PROVE CInv'
<1>1. /\ ctl.do = "pending" /\ pending' = 0 /\ stack # <<>> /\ Top.f = "list"
      /\ UNCHANGED <<prog, input, last, flags, depths, traps, signals>>
  BY DEF run_pending_traps, CInv, Control
<1>2. CASE ctl.sig = 0
  <2>1. ctl' = [do |-> "next", st |-> ctl.st] /\ stack' = stack
    BY <1>2 DEF run_pending_traps
  <2>2. Moved
    BY <1>1, <2>1, Stay
  <2>3. Given' /\ Control' /\ TrapBodies'
    BY <1>1, <2>1 DEF CInv, Given, Control, TrapBodies, Top
  <2> QED BY <2>2, <2>3 DEF CInv, Moved
<1>3. CASE ctl.sig # 0
  <2> DEFINE x == StringFrame(Tail(prog.trap), "signal", last, ctl.st)
  <2>1. ctl' = Run(Head(prog.trap)) /\ stack' = <<x>> \o stack
    BY <1>3 DEF run_pending_traps, exec_string, Push
  <2>2. Head(prog.trap) \in Nodes /\ Tail(prog.trap) \in Seq(Nodes)
    <3>1. prog.trap \in Seq(Nodes) /\ prog.trap # <<>>
      BY <1>1, <1>3, ShellExecAssumption DEF CInv, Control, Given, ScriptOf
    <3> QED BY <3>1, Parts
  <2>3. Kind(x) /\ x.f = "string" /\ x.why = "signal" /\ Weighs(x, 0, 0, 0, 0)
    <3>1. Text(x, "signal", 0)
      BY <2>2, Strings
    <3> QED BY <3>1 DEF Text
  <2> HIDE DEF x
  <2>4. Placed(x, stack)
    BY <1>1, <2>3 DEF Placed, Over, Top
  <2>5. Moved
    BY <1>1, <2>1, <2>3, <2>4, Raise DEF Weighs, CInv, Numbers, depths
  <2>6. Given' /\ Control' /\ TrapBodies'
    BY <1>1, <2>1, <2>2 DEF CInv, Given, Control, TrapBodies, Run
  <2> QED BY <2>5, <2>6 DEF CInv, Moved
<1> QED BY <1>2, <1>3

LEMMA NextRangeKeeps == ASSUME CInv, NextRange PROVE CInv'
<1>1. /\ ctl.do = "next" /\ stack # <<>> /\ Top.f = "list"
      /\ UNCHANGED <<prog, input, flags, depths, traps, async>>
  BY DEF NextRange, CInv, Control
<1>2. CASE unwinding \/ Top.todo = <<>>
  <2>1. stack' = Below /\ ctl' = Status(ctl.st)
    BY <1>2 DEF NextRange, Pop
  <2>2. Moved
    BY <1>1, <2>1, Lower DEF Loops, Calls, Suppresses, Traps, Exits, CInv, Numbers, depths
  <2>3. Given' /\ Control' /\ TrapBodies'
    BY <1>1, <2>1 DEF CInv, Given, Control, TrapBodies, Status, async
  <2> QED BY <2>2, <2>3 DEF CInv, Moved
<1>3. CASE ~(unwinding \/ Top.todo = <<>>)
  <2>1. ctl' = [do |-> "range", st |-> 0] /\ stack' = stack
    BY <1>3 DEF NextRange
  <2>2. Moved
    BY <1>1, <2>1, Stay
  <2>3. Given' /\ Control' /\ TrapBodies'
    BY <1>1, <1>3, <2>1 DEF CInv, Given, Control, TrapBodies, Top, async
  <2> QED BY <2>2, <2>3 DEF CInv, Moved
<1> QED BY <1>2, <1>3

-----------------------------------------------------------------------------
(* And-or ranges, set -e and pipelines.                                    *)

LEMMA OperandKeeps == ASSUME CInv, execute_range PROVE CInv'
<1> DEFINE o == Head(Top.todo)
           run == should_execute(ctl.st, o.op)
           more == Len(Top.todo) > 1
           x == RangeFrame(Tail(Top.todo), run, run /\ more, o.negate)
           off == IF Top.lhs THEN errexit_off - 1 ELSE errexit_off
<1>1. /\ ctl.do = "status" /\ stack # <<>> /\ Top.f = "range" /\ Top.todo # <<>>
      /\ stack' = <<x>> \o Below
      /\ errexit_off' = IF run /\ more THEN off + 1 ELSE off
      /\ ctl' = IF run THEN [do |-> "pipeline", cmd |-> o.cmd, negate |-> o.negate] ELSE ctl
      /\ UNCHANGED <<prog, input, flags, loop_depth, func_depth, trap_depth, traps, async>>
  BY DEF execute_range, execute_lhs_restore, Back, Replace
<1>2. Top.todo \in Seq(OperandsOf(Nodes)) /\ Top.lhs \in BOOLEAN
  BY <1>1, AtTop DEF Kind
<1>3. o \in OperandsOf(Nodes) /\ Tail(Top.todo) \in Seq(OperandsOf(Nodes))
  BY <1>1, <1>2, Parts
<1>4. o.cmd \in Nodes
  BY <1>3 DEF OperandsOf
<1>5. Tail(Top.todo) = <<>> => ~more
  BY <1>1, <1>2, Last
<1>6. (run /\ more) \in BOOLEAN
  OBVIOUS
<1> HIDE DEF o, run, more
<1>7. Fits(x, 0, 0, IF run /\ more THEN 1 ELSE 0, 0)
  BY <1>3, <1>5, <1>6, Frames
<1>8. Loops(Top) = 0 /\ Calls(Top) = 0 /\ Suppresses(Top) = (IF Top.lhs THEN 1 ELSE 0)
      /\ Traps(Top) = 0 /\ ~Exits(Top)
  BY <1>1 DEF Loops, Calls, Suppresses, Traps, Exits
<1> HIDE DEF x
<1>9. Moved
  <2>1. Placed(x, Below)
    BY <1>7 DEF Fits, Placed
  <2>2. /\ Loops(x) = 0 /\ Calls(x) = 0 /\ Suppresses(x) = (IF run /\ more THEN 1 ELSE 0)
        /\ Traps(x) = 0
    BY <1>7 DEF Fits, Weighs
  <2>3. errexit_off' = (errexit_off - Suppresses(Top)) + Suppresses(x)
    BY <1>1, <1>2, <1>8, <2>2 DEF CInv, Numbers
  <2> QED BY <1>1, <1>8, <2>1, <2>2, <2>3, Swap DEF CInv, Numbers
<1>10. Given' /\ Control' /\ TrapBodies'
  BY <1>1, <1>4 DEF CInv, Given, Control, TrapBodies, async
<1> QED BY <1>9, <1>10 DEF CInv, Moved

LEMMA RangeEndKeeps == ASSUME CInv, errexit_check PROVE CInv'
<1> DEFINE st == ctl.st
<1>1. /\ ctl.do = "status" /\ stack # <<>> /\ Top.f = "range" /\ Top.todo = <<>>
      /\ UNCHANGED <<prog, input, flags, loop_depth, func_depth, errexit_off, async>>
  BY DEF errexit_check, Back
<1>2. ~Top.lhs
  BY <1>1, AtTop DEF Kind
<1>3. Loops(Top) = 0 /\ Calls(Top) = 0 /\ Suppresses(Top) = 0 /\ Traps(Top) = 0
      /\ ~Exits(Top)
  BY <1>1, <1>2 DEF Loops, Calls, Suppresses, Traps, Exits
<1>4. CASE Pop /\ UNCHANGED <<ctl, traps, trap_depth>>
  <2>1. Moved
    BY <1>1, <1>3, <1>4, Lower DEF Pop, CInv, Numbers
  <2>2. Given' /\ Control' /\ TrapBodies'
    BY <1>1, <1>4 DEF CInv, Given, Control, TrapBodies, async
  <2> QED BY <2>1, <2>2 DEF CInv, Moved
<1>5. CASE exit_clean(st) /\ UNCHANGED trap_depth
  <2>1. Moved /\ Control' /\ TrapBodies'
    BY <1>1, <1>5, Leave DEF CInv, Numbers, async
  <2> QED BY <1>1, <2>1 DEF CInv, Moved, Given
<1>6. CASE /\ stack' = <<StringFrame(Tail(prog.ERR), "ERR", last', st)>> \o Below
           /\ ctl' = Run(Head(prog.ERR))
           /\ trap_depth' = trap_depth + 1 /\ UNCHANGED traps
  <2> DEFINE x == StringFrame(Tail(prog.ERR), "ERR", last', st)
  <2>1. Head(prog.ERR) \in Nodes /\ Tail(prog.ERR) \in Seq(Nodes)
    <3>1. prog.ERR \in Seq(Nodes) /\ prog.ERR # <<>>
      BY ShellExecAssumption DEF CInv, Given, ScriptOf
    <3> QED BY <3>1, Parts
  <2>2. Kind(x) /\ x.f = "string" /\ x.why = "ERR" /\ Weighs(x, 0, 0, 0, 1)
    <3>1. Text(x, "ERR", 1)
      BY <2>1, Strings
    <3> QED BY <3>1 DEF Text
  <2>3. stack' = <<x>> \o Below
    BY <1>6
  <2> HIDE DEF x
  <2>4. Placed(x, Below)
    BY <2>2 DEF Placed, Leans
  <2>5. Moved
    BY <1>1, <1>3, <1>6, <2>2, <2>3, <2>4, Swap DEF Weighs, CInv, Numbers
  <2>6. Given' /\ Control' /\ TrapBodies'
    BY <1>1, <1>6, <2>1 DEF CInv, Given, Control, TrapBodies, Run, async
  <2> QED BY <2>5, <2>6 DEF CInv, Moved
<1> QED BY <1>4, <1>5, <1>6 DEF errexit_check

LEMMA PipelineKeeps == ASSUME CInv, pipeline_single PROVE CInv'
<1>1. /\ ctl.do = "pipeline" /\ ctl' = Run(ctl.cmd)
      /\ UNCHANGED <<prog, input, last, flags, loop_depth, func_depth, trap_depth,
                     traps, async>>
  BY DEF pipeline_single
<1>2. Moved
  <2>1. CASE ctl.negate
    <3>1. stack' = <<NotFrame>> \o stack /\ errexit_off' = errexit_off + 1
      BY <2>1 DEF pipeline_single, Push
    <3>2. Fits(NotFrame, 0, 0, 1, 0)
      BY Frames
    <3> QED BY <1>1, <3>1, <3>2, Raise DEF Fits, Weighs, Placed, CInv, Numbers
  <2>2. CASE ~ctl.negate
    BY <1>1, <2>2, Stay DEF pipeline_single, depths
  <2> QED BY <2>1, <2>2
<1>3. Given' /\ Control' /\ TrapBodies'
  BY <1>1 DEF CInv, Given, Control, TrapBodies, Run, async
<1> QED BY <1>2, <1>3 DEF CInv, Moved

LEMMA NegateKeeps == ASSUME CInv, negate_status PROVE CInv'
<1>1. /\ ctl.do = "status" /\ stack # <<>> /\ Top.f = "not" /\ stack' = Below
      /\ errexit_off' = errexit_off - 1 /\ ctl'.do = "status"
      /\ UNCHANGED <<prog, input, last, flags, loop_depth, func_depth, trap_depth,
                     traps, async>>
  BY DEF negate_status, Back, Pop, Status
<1>2. Moved
  BY <1>1, Lower DEF Loops, Calls, Suppresses, Traps, Exits, CInv, Numbers
<1>3. Given' /\ Control' /\ TrapBodies'
  BY <1>1 DEF CInv, Given, Control, TrapBodies, async
<1> QED BY <1>2, <1>3 DEF CInv, Moved

-----------------------------------------------------------------------------
(* Simple commands.                                                        *)

(* Those that touch no frame, and of the counters none.                    *)
LEMMA PlainKeeps ==
  ASSUME CInv, ext \/ ok \/ builtin_break \/ builtin_continue \/ set_one_trap PROVE CInv'
<1>1. /\ ctl.do = "run" /\ ctl'.do = "status"
      /\ UNCHANGED <<prog, input, stack, depths, async>>
      /\ traps' = traps \/ traps' = [traps EXCEPT !.ERR = TRUE]
                       \/ traps' = [traps EXCEPT !.RETURN = TRUE]
  <2>1. CASE ext \/ ok \/ builtin_break \/ builtin_continue
    BY <2>1 DEF ext, ok, builtin_break, builtin_continue, Command, Status
  <2>2. CASE set_one_trap
    <3>1. ctl.node.slot \in {"ERR", "RETURN"}
      BY <2>2, ShellExecAssumption DEF set_one_trap, Command, CInv, Control, Parsed
    <3> QED BY <2>2, <3>1 DEF set_one_trap, Command, Status
  <2> QED BY <2>1, <2>2
<1>2. Moved
  BY <1>1, Stay
<1>3. Given' /\ Control' /\ TrapBodies'
  BY <1>1 DEF CInv, Given, Control, TrapBodies, async
<1> QED BY <1>2, <1>3 DEF CInv, Moved

LEMMA ReturnKeeps == ASSUME CInv, builtin_return PROVE CInv'
<1>1. /\ ctl.do = "run"
      /\ UNCHANGED <<prog, input, last, loop_break, loop_continue, depths, async>>
  BY DEF builtin_return, Command
<1>2. CASE func_depth > 0
  <2>1. ctl'.do = "status" /\ stack' = Returning /\ traps' = traps
    BY <1>2 DEF builtin_return, Status
  <2>2. Stacked(stack) /\ Even(stack, loop_depth, func_depth, errexit_off, trap_depth)
    BY <1>1, Balanced DEF CInv
  <2>3. Stacked(stack') /\ Even(stack', loop_depth, func_depth, errexit_off, trap_depth)
    BY <2>1, <2>2, Marked
  <2>4. Moved
    BY <1>1, <2>3, BalancedNext DEF Moved, CInv, Numbers, depths
  <2>5. Given' /\ Control' /\ TrapBodies'
    BY <1>1, <2>1 DEF CInv, Given, Control, TrapBodies, async
  <2> QED BY <2>4, <2>5 DEF CInv, Moved
<1>3. CASE ~(func_depth > 0) /\ Interactive
  <2>1. ctl'.do = "status" /\ UNCHANGED <<stack, traps>>
    BY <1>3 DEF builtin_return, Status
  <2>2. Moved
    BY <1>1, <2>1, Stay
  <2>3. Given' /\ Control' /\ TrapBodies'
    BY <1>1, <2>1 DEF CInv, Given, Control, TrapBodies, async
  <2> QED BY <2>2, <2>3 DEF CInv, Moved
<1>4. CASE ~(func_depth > 0) /\ ~Interactive
  <2>1. exit_clean(2)
    BY <1>4 DEF builtin_return
  <2>2. Moved /\ Control' /\ TrapBodies'
    BY <1>1, <2>1, Leave DEF CInv, Numbers, depths, async
  <2> QED BY <1>1, <2>2 DEF CInv, Moved, Given
<1> QED BY <1>2, <1>3, <1>4

LEMMA ExitKeeps == ASSUME CInv, builtin_exit PROVE CInv'
<1>1. /\ exit_clean(arg) /\ UNCHANGED <<prog, input, last, flags, depths, async>>
  BY DEF builtin_exit
<1>2. Moved /\ Control' /\ TrapBodies'
  BY <1>1, Leave DEF CInv, Numbers, depths, async
<1> QED BY <1>1, <1>2 DEF CInv, Moved, Given

LEMMA EvalKeeps == ASSUME CInv, builtin_eval PROVE CInv'
<1> DEFINE x == StringFrame(Tail(ctl.node.body), "eval", last, 0)
<1>1. /\ ctl.do = "run" /\ ctl.node.k = "eval" /\ stack' = <<x>> \o stack
      /\ ctl' = Run(Head(ctl.node.body))
      /\ UNCHANGED <<prog, input, last, flags, depths, traps, async>>
  BY DEF builtin_eval, exec_string, Push
<1>2. Head(ctl.node.body) \in Nodes /\ Tail(ctl.node.body) \in Seq(Nodes)
  <2>1. ctl.node.body \in Seq(Nodes) /\ ctl.node.body # <<>>
    BY <1>1, ShellExecAssumption DEF CInv, Control, Parsed
  <2> QED BY <2>1, Parts
<1>3. Kind(x) /\ x.f = "string" /\ x.why = "eval" /\ Weighs(x, 0, 0, 0, 0)
  <2>1. Text(x, "eval", 0)
    BY <1>2, Strings
  <2> QED BY <2>1 DEF Text
<1> HIDE DEF x
<1>4. Moved
  BY <1>1, <1>3, Raise DEF Weighs, Placed, Leans, CInv, Numbers, depths
<1>5. Given' /\ Control' /\ TrapBodies'
  BY <1>1, <1>2 DEF CInv, Given, Control, TrapBodies, Run, async
<1> QED BY <1>4, <1>5 DEF CInv, Moved

-----------------------------------------------------------------------------
(* Loops and if.                                                           *)

LEMMA WhileKeeps == ASSUME CInv, execute_while PROVE CInv'
<1> DEFINE x == CondFrame(ctl.node, 0)
<1>1. /\ ctl.do = "run" /\ ctl.node.k = "loop" /\ stack' = <<x>> \o stack
      /\ ctl' = Run(ctl.node.cond)
      /\ loop_depth' = loop_depth + 1 /\ errexit_off' = errexit_off + 1
      /\ UNCHANGED <<prog, input, last, flags, func_depth, trap_depth, traps, async>>
  BY DEF execute_while, Compound, Push
<1>2. ctl.node \in Nodes /\ ctl.node.cond \in Nodes
  BY <1>1, ShellExecAssumption DEF CInv, Control, Parsed
<1>3. Fits(x, 1, 0, 1, 0)
  BY <1>1, <1>2, Frames
<1> HIDE DEF x
<1>4. Moved
  BY <1>1, <1>3, Raise DEF Fits, Weighs, Placed, CInv, Numbers
<1>5. Given' /\ Control' /\ TrapBodies'
  BY <1>1, <1>2 DEF CInv, Given, Control, TrapBodies, Run, async
<1> QED BY <1>4, <1>5 DEF CInv, Moved

LEMMA ConditionKeeps == ASSUME CInv, LoopCondition PROVE CInv'
<1> DEFINE go == (ctl.st = 0) # Top.node.until
<1>1. /\ ctl.do = "status" /\ stack # <<>> /\ Top.f = "cond"
      /\ errexit_off' = errexit_off - 1
      /\ UNCHANGED <<prog, input, last, flags, func_depth, trap_depth, traps, async>>
  BY DEF LoopCondition, Back
<1>2. Loops(Top) = 1 /\ Calls(Top) = 0 /\ Suppresses(Top) = 1 /\ Traps(Top) = 0
      /\ ~Exits(Top)
  BY <1>1 DEF Loops, Calls, Suppresses, Traps, Exits
<1>3. Top.node \in Nodes /\ Top.node.k = "loop" /\ Top.node.body \in Nodes
  BY <1>1, AtTop, ShellExecAssumption DEF Kind, Parsed
<1>4. CASE go
  <2> DEFINE x == BodyFrame(Top.node)
  <2>1. stack' = <<x>> \o Below /\ ctl' = Run(Top.node.body) /\ loop_depth' = loop_depth
    BY <1>4 DEF LoopCondition, Replace
  <2>2. Fits(x, 1, 0, 0, 0)
    BY <1>3, Frames
  <2> HIDE DEF x
  <2>3. Moved
    BY <1>1, <1>2, <2>1, <2>2, Swap DEF Fits, Weighs, Placed, CInv, Numbers
  <2>4. Given' /\ Control' /\ TrapBodies'
    BY <1>1, <1>3, <2>1 DEF CInv, Given, Control, TrapBodies, Run, async
  <2> QED BY <2>3, <2>4 DEF CInv, Moved
<1>5. CASE ~go
  <2>1. stack' = Below /\ ctl'.do = "status" /\ loop_depth' = loop_depth - 1
    BY <1>5 DEF LoopCondition, Pop, Status
  <2>2. Moved
    BY <1>1, <1>2, <2>1, Lower DEF CInv, Numbers
  <2>3. Given' /\ Control' /\ TrapBodies'
    BY <1>1, <2>1 DEF CInv, Given, Control, TrapBodies, async
  <2> QED BY <2>2, <2>3 DEF CInv, Moved
<1> QED BY <1>4, <1>5

LEMMA BodyKeeps == ASSUME CInv, LoopBody PROVE CInv'
<1>1. /\ ctl.do = "status" /\ stack # <<>> /\ Top.f = "body"
      /\ UNCHANGED <<prog, input, last, func_return, func_depth, trap_depth, traps, async>>
  BY DEF LoopBody, Back
<1>2. Loops(Top) = 1 /\ Calls(Top) = 0 /\ Suppresses(Top) = 0 /\ Traps(Top) = 0
      /\ ~Exits(Top)
  BY <1>1 DEF Loops, Calls, Suppresses, Traps, Exits
<1>3. Top.node \in Nodes /\ Top.node.k = "loop" /\ Top.node.cond \in Nodes
  BY <1>1, AtTop, ShellExecAssumption DEF Kind, Parsed
<1>4. CASE Pop /\ UNCHANGED <<ctl, errexit_off>> /\ loop_depth' = loop_depth - 1
  <2>1. Moved
    BY <1>1, <1>2, <1>4, Lower DEF Pop, CInv, Numbers
  <2>2. Given' /\ Control' /\ TrapBodies'
    BY <1>1, <1>4 DEF CInv, Given, Control, TrapBodies, async
  <2> QED BY <2>1, <2>2 DEF CInv, Moved
<1>5. CASE /\ Replace(CondFrame(Top.node, ctl.st)) /\ ctl' = Run(Top.node.cond)
           /\ errexit_off' = errexit_off + 1 /\ UNCHANGED loop_depth
  <2> DEFINE x == CondFrame(Top.node, ctl.st)
  <2>1. stack' = <<x>> \o Below
    BY <1>5 DEF Replace
  <2>2. Fits(x, 1, 0, 1, 0)
    BY <1>3, Frames
  <2> HIDE DEF x
  <2>3. Moved
    BY <1>1, <1>2, <1>5, <2>1, <2>2, Swap DEF Fits, Weighs, Placed, CInv, Numbers
  <2>4. Given' /\ Control' /\ TrapBodies'
    BY <1>1, <1>3, <1>5 DEF CInv, Given, Control, TrapBodies, Run, async
  <2> QED BY <2>3, <2>4 DEF CInv, Moved
<1> QED BY <1>4, <1>5 DEF LoopBody

LEMMA ForKeeps == ASSUME CInv, for_word_loop PROVE CInv'
<1>1. ASSUME Compound("for"),
             \/ ctl' = Status(0) /\ UNCHANGED <<stack, loop_depth>>
             \/ /\ Push(ForFrame(ctl.node.times - 1, ctl.node.body))
                /\ ctl' = Run(ctl.node.body) /\ loop_depth' = loop_depth + 1,
             UNCHANGED <<prog, input, last, func_return, func_depth, errexit_off,
                         trap_depth, traps, async>>
      PROVE  CInv'
  <2>1. ctl.do = "run" /\ ctl.node \in Nodes /\ ctl.node.body \in Nodes
    BY <1>1, ShellExecAssumption DEF Compound, CInv, Control, Parsed
  <2>2. CASE ctl' = Status(0) /\ UNCHANGED <<stack, loop_depth>>
    <3>1. Moved
      BY <1>1, <2>1, <2>2, Stay DEF depths
    <3>2. Given' /\ Control' /\ TrapBodies'
      BY <1>1, <2>2 DEF CInv, Given, Control, TrapBodies, Status, async
    <3> QED BY <3>1, <3>2 DEF CInv, Moved
  <2>3. CASE /\ Push(ForFrame(ctl.node.times - 1, ctl.node.body))
             /\ ctl' = Run(ctl.node.body) /\ loop_depth' = loop_depth + 1
    <3> DEFINE x == ForFrame(ctl.node.times - 1, ctl.node.body)
    <3>1. stack' = <<x>> \o stack
      BY <2>3 DEF Push
    <3>2. Fits(x, 1, 0, 0, 0)
      BY <2>1, Frames
    <3> HIDE DEF x
    <3>3. Moved
      BY <1>1, <2>1, <2>3, <3>1, <3>2, Raise DEF Fits, Weighs, Placed, CInv, Numbers
    <3>4. Given' /\ Control' /\ TrapBodies'
      BY <1>1, <2>1, <2>3 DEF CInv, Given, Control, TrapBodies, Run, async
    <3> QED BY <3>3, <3>4 DEF CInv, Moved
  <2> QED BY <1>1, <2>2, <2>3
<1>2. ASSUME Back("for"),
             \/ Pop /\ loop_depth' = loop_depth - 1 /\ UNCHANGED ctl
             \/ /\ Replace(ForFrame(Top.left - 1, Top.body))
                /\ ctl' = Run(Top.body) /\ UNCHANGED loop_depth,
             UNCHANGED <<prog, input, last, func_return, func_depth, errexit_off,
                         trap_depth, traps, async>>
      PROVE  CInv'
  <2>1. ctl.do = "status" /\ stack # <<>> /\ Top.f = "for"
    BY <1>2 DEF Back
  <2>2. Loops(Top) = 1 /\ Calls(Top) = 0 /\ Suppresses(Top) = 0 /\ Traps(Top) = 0
        /\ ~Exits(Top)
    BY <2>1 DEF Loops, Calls, Suppresses, Traps, Exits
  <2>3. Top.body \in Nodes
    BY <2>1, AtTop DEF Kind
  <2>4. CASE Pop /\ loop_depth' = loop_depth - 1 /\ UNCHANGED ctl
    <3>1. Moved
      BY <1>2, <2>1, <2>2, <2>4, Lower DEF Pop, CInv, Numbers
    <3>2. Given' /\ Control' /\ TrapBodies'
      BY <1>2, <2>1, <2>4 DEF CInv, Given, Control, TrapBodies, async
    <3> QED BY <3>1, <3>2 DEF CInv, Moved
  <2>5. CASE /\ Replace(ForFrame(Top.left - 1, Top.body))
             /\ ctl' = Run(Top.body) /\ UNCHANGED loop_depth
    <3> DEFINE x == ForFrame(Top.left - 1, Top.body)
    <3>1. stack' = <<x>> \o Below
      BY <2>5 DEF Replace
    <3>2. Fits(x, 1, 0, 0, 0)
      BY <2>3, Frames
    <3> HIDE DEF x
    <3>3. Moved
      BY <1>2, <2>1, <2>2, <2>5, <3>1, <3>2, Swap DEF Fits, Weighs, Placed, CInv, Numbers
    <3>4. Given' /\ Control' /\ TrapBodies'
      BY <1>2, <2>3, <2>5 DEF CInv, Given, Control, TrapBodies, Run, async
    <3> QED BY <3>3, <3>4 DEF CInv, Moved
  <2> QED BY <1>2, <2>4, <2>5
<1> QED BY <1>1, <1>2 DEF for_word_loop

LEMMA IfKeeps == ASSUME CInv, execute_if PROVE CInv'
<1>1. CASE /\ Compound("if") /\ Push(IfFrame(ctl.node)) /\ ctl' = Run(ctl.node.cond)
           /\ errexit_off' = errexit_off + 1
           /\ UNCHANGED <<prog, input, last, flags, loop_depth, func_depth, trap_depth,
                          traps, async>>
  <2> DEFINE x == IfFrame(ctl.node)
  <2>1. ctl.do = "run" /\ stack' = <<x>> \o stack
    BY <1>1 DEF Compound, Push
  <2>2. ctl.node \in Nodes /\ ctl.node.k = "if" /\ ctl.node.cond \in Nodes
    BY <1>1, <2>1, ShellExecAssumption DEF Compound, CInv, Control, Parsed
  <2>3. Fits(x, 0, 0, 1, 0)
    BY <2>2, Frames
  <2> HIDE DEF x
  <2>4. Moved
    BY <1>1, <2>1, <2>3, Raise DEF Fits, Weighs, Placed, CInv, Numbers
  <2>5. Given' /\ Control' /\ TrapBodies'
    BY <1>1, <2>2 DEF CInv, Given, Control, TrapBodies, Run, async
  <2> QED BY <2>4, <2>5 DEF CInv, Moved
<1>2. CASE /\ Back("if") /\ Pop /\ errexit_off' = errexit_off - 1
           /\ ctl' = IF ctl.st = 0 THEN Run(Top.node.then)
                     ELSE IF Top.node.else = <<>> THEN Status(0)
                     ELSE Run(Head(Top.node.else))
           /\ UNCHANGED <<prog, input, last, flags, loop_depth, func_depth, trap_depth,
                          traps, async>>
  <2>1. ctl.do = "status" /\ stack # <<>> /\ Top.f = "if" /\ stack' = Below
    BY <1>2 DEF Back, Pop
  <2>2. Loops(Top) = 0 /\ Calls(Top) = 0 /\ Suppresses(Top) = 1 /\ Traps(Top) = 0
        /\ ~Exits(Top)
    BY <2>1 DEF Loops, Calls, Suppresses, Traps, Exits
  <2>3. Moved
    BY <1>2, <2>1, <2>2, Lower DEF CInv, Numbers
  <2>4. Top.node \in Nodes /\ Top.node.k = "if"
    BY <2>1, AtTop DEF Kind
  <2>5. Top.node.then \in Nodes /\ (Top.node.else # <<>> => Head(Top.node.else) \in Nodes)
    <3>1. Top.node.then \in Nodes /\ Top.node.else \in Seq(Nodes)
      BY <2>4, ShellExecAssumption DEF Parsed
    <3> QED BY <3>1, Parts
  <2>6. ctl'.do \in {"run", "status"} /\ (ctl'.do = "run" => ctl'.node \in Nodes)
    BY <1>2, <2>5 DEF Run, Status
  <2>7. Given' /\ Control' /\ TrapBodies'
    BY <1>2, <2>6 DEF CInv, Given, Control, TrapBodies, async
  <2> QED BY <2>3, <2>7 DEF CInv, Moved
<1> QED BY <1>1, <1>2 DEF execute_if

-----------------------------------------------------------------------------
(* { body } always { cleanup }.                                            *)

LEMMA BraceKeeps == ASSUME CInv, execute_brace_group PROVE CInv'
<1>1. /\ ctl.do = "run" /\ ctl.node.k = "brace" /\ ctl' = Run(ctl.node.body)
      /\ UNCHANGED <<prog, input, last, flags, depths, traps, async>>
  BY DEF execute_brace_group, Compound
<1>2. ctl.node.body \in Nodes /\ ctl.node.cleanup \in Seq(Nodes)
  BY <1>1, ShellExecAssumption DEF CInv, Control, Parsed
<1>3. Moved
  <2>1. CASE ctl.node.cleanup = <<>>
    BY <1>1, <2>1, Stay DEF execute_brace_group
  <2>2. CASE ctl.node.cleanup # <<>>
    <3> DEFINE x == AlwaysFrame(Head(ctl.node.cleanup))
    <3>1. stack' = <<x>> \o stack
      BY <2>2 DEF execute_brace_group, Push
    <3>2. Head(ctl.node.cleanup) \in Nodes
      BY <1>2, <2>2, Parts
    <3>3. Fits(x, 0, 0, 0, 0)
      BY <3>2, Frames
    <3> HIDE DEF x
    <3> QED BY <1>1, <3>1, <3>3, Raise DEF Fits, Weighs, Placed, CInv, Numbers, depths
  <2> QED BY <2>1, <2>2
<1>4. Given' /\ Control' /\ TrapBodies'
  BY <1>1, <1>2 DEF CInv, Given, Control, TrapBodies, Run, async
<1> QED BY <1>3, <1>4 DEF CInv, Moved

LEMMA ParkKeeps == ASSUME CInv, always_park PROVE CInv'
<1> DEFINE x == CleanupFrame(ctl.st, WaysOut)
<1>1. /\ ctl.do = "status" /\ stack # <<>> /\ Top.f = "always" /\ stack' = <<x>> \o Below
      /\ ctl' = Run(Top.cleanup) /\ UNCHANGED <<prog, input, last, depths, traps, async>>
  BY DEF always_park, Back, Replace
<1>2. Loops(Top) = 0 /\ Calls(Top) = 0 /\ Suppresses(Top) = 0 /\ Traps(Top) = 0
      /\ ~Exits(Top)
  BY <1>1 DEF Loops, Calls, Suppresses, Traps, Exits
<1>3. Top.cleanup \in Nodes
  BY <1>1, AtTop DEF Kind
<1>4. Fits(x, 0, 0, 0, 0)
  BY Frames
<1> HIDE DEF x
<1>5. Moved
  BY <1>1, <1>2, <1>4, Swap DEF Fits, Weighs, Placed, CInv, Numbers, depths
<1>6. Given' /\ Control' /\ TrapBodies'
  BY <1>1, <1>3 DEF CInv, Given, Control, TrapBodies, Run, async
<1> QED BY <1>5, <1>6 DEF CInv, Moved

LEMMA UnparkKeeps == ASSUME CInv, always_unpark PROVE CInv'
<1>1. /\ ctl.do = "status" /\ stack # <<>> /\ Top.f = "cleanup" /\ stack' = Below
      /\ ctl'.do = "status" /\ UNCHANGED <<prog, input, depths, traps, async>>
  BY DEF always_unpark, Back, Pop, Status
<1>2. Moved
  BY <1>1, Lower DEF Loops, Calls, Suppresses, Traps, Exits, CInv, Numbers, depths
<1>3. Given' /\ Control' /\ TrapBodies'
  BY <1>1 DEF CInv, Given, Control, TrapBodies, async
<1> QED BY <1>2, <1>3 DEF CInv, Moved

-----------------------------------------------------------------------------
(* Functions, and the strings of eval and the traps.                       *)

LEMMA CallKeeps == ASSUME CInv, execute_func_call PROVE CInv'
<1> DEFINE x == CallFrame(traps)
<1>1. /\ ctl.do = "run" /\ stack' = <<x>> \o stack /\ ctl' = Run(prog.f)
      /\ func_depth' = func_depth + 1
      /\ traps' = [traps EXCEPT !.ERR = FALSE, !.RETURN = FALSE]
      /\ UNCHANGED <<prog, input, last, flags, loop_depth, errexit_off, trap_depth, async>>
  BY DEF execute_func_call, Command, Push
<1>2. prog.f \in Nodes
  BY ShellExecAssumption DEF CInv, Given, ScriptOf
<1>3. Fits(x, 0, 1, 0, 0)
  BY Frames
<1> HIDE DEF x
<1>4. Moved
  BY <1>1, <1>3, Raise DEF Fits, Weighs, Placed, CInv, Numbers
<1>5. Given' /\ Control' /\ TrapBodies'
  BY <1>1, <1>2 DEF CInv, Given, Control, TrapBodies, Run, async
<1> QED BY <1>4, <1>5 DEF CInv, Moved

LEMMA ReturnTrapKeeps == ASSUME CInv, fire_return_trap PROVE CInv'
<1>1. /\ ctl.do = "status" /\ stack # <<>> /\ Top.f = "call"
      /\ UNCHANGED <<prog, input, loop_break, loop_continue, loop_depth, errexit_off, async>>
  BY DEF fire_return_trap, Back
<1>2. CASE traps.RETURN /\ trap_depth = 0
  <2> DEFINE x == StringFrame(Tail(prog.RETURN), "RETURN", last, ctl.st)
  <2>1. /\ stack' = <<x>> \o stack /\ ctl' = Run(Head(prog.RETURN))
        /\ trap_depth' = trap_depth + 1 /\ UNCHANGED <<traps, func_depth>>
    BY <1>2 DEF fire_return_trap, exec_string, Push
  <2>2. Head(prog.RETURN) \in Nodes /\ Tail(prog.RETURN) \in Seq(Nodes)
    <3>1. prog.RETURN \in Seq(Nodes) /\ prog.RETURN # <<>>
      BY ShellExecAssumption DEF CInv, Given, ScriptOf
    <3> QED BY <3>1, Parts
  <2>3. Kind(x) /\ x.f = "string" /\ x.why = "RETURN" /\ Weighs(x, 0, 0, 0, 1)
    <3>1. Text(x, "RETURN", 1)
      BY <2>2, Strings
    <3> QED BY <3>1 DEF Text
  <2> HIDE DEF x
  <2>4. Placed(x, stack)
    BY <1>1, <2>3 DEF Placed, Over, Top
  <2>5. Moved
    BY <1>1, <2>1, <2>3, <2>4, Raise DEF Weighs, CInv, Numbers
  <2>6. Given' /\ Control' /\ TrapBodies'
    BY <1>1, <2>1, <2>2 DEF CInv, Given, Control, TrapBodies, Run, async
  <2> QED BY <2>5, <2>6 DEF CInv, Moved
<1>3. CASE ~(traps.RETURN /\ trap_depth = 0)
  <2>1. /\ stack' = Below /\ func_depth' = func_depth - 1 /\ UNCHANGED <<ctl, trap_depth>>
        /\ traps' = [traps EXCEPT !.ERR = @ \/ Top.saved.ERR, !.RETURN = @ \/ Top.saved.RETURN]
    BY <1>3 DEF fire_return_trap, FinishCall, trap_restore, Top, Below
  <2>2. Moved
    BY <1>1, <2>1, Lower DEF Loops, Calls, Suppresses, Traps, Exits, CInv, Numbers
  <2>3. Given' /\ Control' /\ TrapBodies'
    BY <1>1, <2>1 DEF CInv, Given, Control, TrapBodies, async
  <2> QED BY <2>2, <2>3 DEF CInv, Moved
<1> QED BY <1>2, <1>3

LEMMA StatementKeeps == ASSUME CInv, NextStatement PROVE CInv'
<1> DEFINE x == [Top EXCEPT !.todo = Tail(@)]
<1>1. /\ ctl.do = "status" /\ stack # <<>> /\ Top.f = "string" /\ Top.todo # <<>>
      /\ stack' = <<x>> \o Below /\ ctl' = Run(Head(Top.todo))
      /\ UNCHANGED <<prog, input, flags, depths, traps, async>>
  BY DEF NextStatement, StringOver, Back, Replace
<1>2. Kind(Top) /\ Placed(Top, Below)
  BY <1>1, AtTop
<1>3. Head(Top.todo) \in Nodes /\ Tail(Top.todo) \in Seq(Nodes)
  BY <1>1, <1>2, Parts DEF Kind
<1>4. x = [f |-> "string", todo |-> Tail(Top.todo), why |-> Top.why, saved |-> Top.saved,
           st |-> Top.st, held |-> Top.held]
  BY <1>1, <1>2 DEF Kind
<1> HIDE DEF x
<1>5. Kind(x) /\ x.f = Top.f /\ x.why = Top.why
  BY <1>1, <1>2, <1>3, <1>4 DEF Kind
<1>6. Placed(x, Below)
  BY <1>2, <1>5 DEF Placed, Leans, Over
<1>7. CASE Exits(Top)
  <2>1. Stacked(Below)
    BY <1>1, AtTop
  <2>2. Stacked(stack')
    BY <1>1, <1>6, <2>1, Pushed
  <2>3. InExit(stack')
    <3>1. Below \in Seq(Elems(Below))
      BY <2>1 DEF Stacked
    <3>2. Exits(x)
      BY <1>5, <1>7 DEF Exits
    <3> QED BY <1>1, <3>1, <3>2, Counted
  <2>4. CountersPaired'
    BY <2>3 DEF CountersPaired, InExit, Positions
  <2> QED BY <1>1, <2>2, <2>4, <1>3 DEF CInv, Given, Numbers, Control, TrapBodies, Run,
                                        depths, async
<1>8. CASE ~Exits(Top)
  <2>1. Loops(Top) = Loops(x) /\ Calls(Top) = Calls(x) /\ Traps(Top) = Traps(x)
        /\ Suppresses(Top) = 0 /\ Suppresses(x) = 0
        /\ Loops(x) = 0 /\ Calls(x) = 0 /\ Traps(x) \in Int
    BY <1>1, <1>5 DEF Loops, Calls, Suppresses, Traps
  <2>2. /\ loop_depth' = (loop_depth - Loops(Top)) + Loops(x)
        /\ func_depth' = (func_depth - Calls(Top)) + Calls(x)
        /\ errexit_off' = (errexit_off - Suppresses(Top)) + Suppresses(x)
        /\ trap_depth' = (trap_depth - Traps(Top)) + Traps(x)
    <3>1. Numbers /\ UNCHANGED depths
      BY <1>1 DEF CInv
    <3>2. \A n, m \in Int : (n - m) + m = n
      OBVIOUS
    <3>3. Suppresses(Top) \in Int /\ Calls(x) \in Int
      BY <2>1
    <3> QED BY <2>1, <3>1, <3>2, <3>3 DEF Numbers, depths
  <2>3. Moved
    BY <1>1, <1>6, <1>8, <2>2, Swap
  <2>4. Given' /\ Control' /\ TrapBodies'
    BY <1>1, <1>3 DEF CInv, Given, Control, TrapBodies, Run, async
  <2> QED BY <2>3, <2>4 DEF CInv, Moved
<1> QED BY <1>7, <1>8

LEMMA StringKeeps == ASSUME CInv, StringEnd PROVE CInv'
<1> DEFINE s == Top
<1>1. /\ ctl.do = "status" /\ stack # <<>> /\ s.f = "string"
      /\ trap_depth' = IF s.why \in {"ERR", "RETURN"} THEN trap_depth - 1 ELSE trap_depth
      /\ UNCHANGED <<prog, input, loop_break, loop_continue, loop_depth, errexit_off, async>>
  BY DEF StringEnd, Back
<1>2. Kind(s) /\ Placed(s, Below) /\ s.why \in Whys
  BY <1>1, AtTop DEF Kind
<1>3. Loops(s) = 0 /\ Calls(s) = 0 /\ Suppresses(s) = 0
      /\ Traps(s) = (IF s.why \in {"ERR", "RETURN"} THEN 1 ELSE 0)
      /\ (s.why # "EXIT" => ~Exits(s))
  BY <1>1 DEF Loops, Calls, Suppresses, Traps, Exits
<1>4. CASE s.why = "eval"
  <2>1. stack' = Below /\ ctl' = ctl /\ UNCHANGED <<func_depth, traps>>
    BY <1>4 DEF StringEnd, Pop
  <2>2. Moved
    BY <1>1, <1>3, <1>4, <2>1, Lower DEF CInv, Numbers
  <2>3. Given' /\ Control' /\ TrapBodies'
    BY <1>1, <2>1 DEF CInv, Given, Control, TrapBodies, async
  <2> QED BY <2>2, <2>3 DEF CInv, Moved
<1>5. CASE s.why = "signal"
  <2>1. stack' = Below /\ ctl' = [do |-> "next", st |-> s.st] /\ UNCHANGED <<func_depth, traps>>
    BY <1>5 DEF StringEnd, Pop
  <2>2. Moved
    BY <1>1, <1>3, <1>5, <2>1, Lower DEF CInv, Numbers
  <2>3. Below # <<>> /\ Head(Below).f = "list"
    BY <1>1, <1>2, <1>5 DEF Placed, Leans, Over
  <2>4. Given' /\ Control' /\ TrapBodies'
    BY <1>1, <2>1, <2>3 DEF CInv, Given, Control, TrapBodies, Top, async
  <2> QED BY <2>2, <2>4 DEF CInv, Moved
<1>6. CASE s.why = "RETURN"
  <2>1. /\ stack' = Tail(Below) /\ func_depth' = func_depth - 1 /\ ctl' = Status(s.st)
        /\ traps' = [traps EXCEPT !.ERR = @ \/ Head(Below).saved.ERR,
                                  !.RETURN = @ \/ Head(Below).saved.RETURN]
    BY <1>6 DEF StringEnd, FinishCall, trap_restore
  <2>2. Below # <<>> /\ Head(Below).f = "call"
    BY <1>1, <1>2, <1>6 DEF Placed, Leans, Over
  <2>3. Stacked(Below) /\ Even(Below, loop_depth, func_depth, errexit_off, trap_depth')
    BY <1>1, <1>3, <1>6, AtTop DEF CInv, Numbers
  <2>4. Loops(Head(Below)) = 0 /\ Calls(Head(Below)) = 1 /\ Suppresses(Head(Below)) = 0
        /\ Traps(Head(Below)) = 0 /\ ~Exits(Head(Below))
    BY <2>2 DEF Loops, Calls, Suppresses, Traps, Exits
  <2>5. Numbers /\ trap_depth' \in Int
    BY <1>1 DEF CInv, Numbers
  <2>6. Stacked(stack') /\ Even(stack', loop_depth, func_depth - 1, errexit_off, trap_depth')
    <3>1. /\ Stacked(Tail(Below))
          /\ Even(Tail(Below), loop_depth - Loops(Head(Below)), func_depth - Calls(Head(Below)),
                  errexit_off - Suppresses(Head(Below)), trap_depth' - Traps(Head(Below)))
      BY <2>2, <2>3, <2>4, <2>5, PopKeeps DEF Numbers
    <3> QED BY <2>1, <2>4, <2>5, <3>1 DEF Numbers
  <2>7. Moved
    BY <1>1, <2>1, <2>5, <2>6, BalancedNext DEF Moved, Numbers
  <2>8. Given' /\ Control' /\ TrapBodies'
    BY <1>1, <2>1 DEF CInv, Given, Control, TrapBodies, Status, async
  <2> QED BY <2>7, <2>8 DEF CInv, Moved
<1>7. CASE s.why = "EXIT"
  <2>1. ctl' = Gone(s.st) /\ stack' = <<>> /\ UNCHANGED <<func_depth, traps>>
    BY <1>7 DEF StringEnd
  <2>2. Stacked(stack') /\ CountersPaired'
    BY <2>1, Bare DEF CountersPaired, Gone
  <2> QED BY <1>1, <1>7, <2>1, <2>2 DEF CInv, Given, Numbers, Control, TrapBodies, Gone, async
<1>8. CASE s.why = "ERR"
  <2>1. func_depth' = func_depth
    BY <1>8 DEF StringEnd
  <2>2. CASE prog.errexit
    <3>1. exit_clean(s.st)
      BY <1>8, <2>2 DEF StringEnd
    <3>2. Numbers'
      BY <1>1, <2>1 DEF CInv, Numbers
    <3>3. Moved /\ Control' /\ TrapBodies'
      BY <1>1, <3>1, <3>2, Leave DEF async
    <3> QED BY <1>1, <3>3 DEF CInv, Moved, Given
  <2>3. CASE ~prog.errexit
    <3>1. stack' = Below /\ ctl' = Status(s.st) /\ UNCHANGED traps
      BY <1>8, <2>3 DEF StringEnd, Pop
    <3>2. Moved
      BY <1>1, <1>3, <1>8, <2>1, <3>1, Lower DEF CInv, Numbers
    <3>3. Given' /\ Control' /\ TrapBodies'
      BY <1>1, <3>1 DEF CInv, Given, Control, TrapBodies, Status, async
    <3> QED BY <3>2, <3>3 DEF CInv, Moved
  <2> QED BY <2>2, <2>3
<1> QED BY <1>2, <1>4, <1>5, <1>6, <1>7, <1>8 DEF Whys

-----------------------------------------------------------------------------
(* The invariant holds.                                                    *)

LEMMA CStart == Init => CInv
<1> SUFFICES ASSUME Init PROVE CInv
  OBVIOUS
<1>1. Given /\ Numbers /\ Control /\ TrapBodies
  <2>1. Given
    BY ShellExecAssumption DEF Init, Given, ScriptOf
  <2>2. Numbers /\ Control
    BY DEF Init, Numbers, Control, Idle
  <2>3. TrapBodies
    BY DEF Init, TrapBodies
  <2> QED BY <2>1, <2>2, <2>3
<1>2. Stacked(stack) /\ Even(stack, loop_depth, func_depth, errexit_off, trap_depth)
  BY Bare DEF Init
<1> QED BY <1>1, <1>2, Balanced DEF CInv

LEMMA CStep == CInv /\ [Next]_vars => CInv'
<1> SUFFICES ASSUME CInv, [Next]_vars PROVE CInv'
  OBVIOUS
<1>1. CASE UNCHANGED vars
  BY <1>1 DEF vars, flags, depths, async, CInv, Given, Numbers, Stacked, Control, TrapBodies,
              Top, CountersPaired, Positions, LoopsOn, CallsOn, SuppressorsOn, TrapsOn
<1>2. CASE trap_sighandler
  BY <1>2, SignalKeeps
<1>3. CASE Walk
  BY <1>3, TopLevelKeeps, ListKeeps, RangeKeeps, ReadKeeps, PendingKeeps, NextRangeKeeps,
     OperandKeeps, RangeEndKeeps, PipelineKeeps, NegateKeeps, PlainKeeps, ReturnKeeps,
     ExitKeeps, EvalKeeps, WhileKeeps, ConditionKeeps, BodyKeeps, ForKeeps, IfKeeps,
     BraceKeeps, ParkKeeps, UnparkKeeps, CallKeeps, ReturnTrapKeeps, StatementKeeps,
     StringKeeps DEF Walk
<1> QED BY <1>1, <1>2, <1>3 DEF Next

(* Whatever the script does, loop_depth, func_depth, errexit_off and       *)
(* trap_depth say how many loops, calls, activations that set -e overlooks *)
(* and ERR or RETURN trap bodies the C stack holds, until the shell exits. *)
THEOREM CountersArePaired == Spec => []CountersPaired
<1>1. CInv => CountersPaired
  BY DEF CInv
<1> QED BY CStart, CStep, <1>1, PTL DEF Spec

-----------------------------------------------------------------------------
(***************************************************************************)
(* The flags: break, continue and return reach what they were meant for,   *)
(* and nothing of what they leave runs.  This is so of scripts in which    *)
(* they stand where the executor looks at its flags before it runs the     *)
(* next thing, which the first definitions say.                            *)
(***************************************************************************)

(* The nodes made of these kinds and these commands all the way down.      *)
Tame(kinds, words) ==
  UNION {S \in SUBSET Nodes :
           Parsed(S) /\ \A n \in S : n.k \in kinds /\ (n.k = "cmd" => n.word \in words)}

Kinds == {"cmd", "list", "eval", "loop", "for", "if", "brace"}
Words == {"ext", "ok", "trap", "exit"}

(* Break and continue do not come out of the function, so that a call may  *)
(* stand where they may not.                                               *)
Contained == \A p \in Programs : p.f \in Tame(Kinds, Words \cup {"return", "call"})
Calling == IF Contained THEN Words \cup {"call"} ELSE Words

(* For the body of a trap; for a place where no flag may come out; for the *)
(* same place in a function, where return may not come out of the call.    *)
Mild == Tame({"cmd", "list", "if"}, {"ext", "ok"})
Calm == Tame(Kinds, Calling)
Steady == Tame(Kinds, Calling \cup {"return"})

Returns == \E n \in Nodes : n.k = "cmd" /\ n.word = "return"

(* No flag comes out of the condition of a loop or an if, out of a cleanup *)
(* or out of an operand that another one follows: there the executor goes  *)
(* on by the status alone.                                                 *)
Orderly ==
  \A n \in Nodes :
    /\ n.k \in {"loop", "if"} => n.cond \in Calm
    /\ n.k = "brace" => n.cleanup \in Seq(Calm)
    /\ n.k = "list" => \A i \in DOMAIN n.ranges : \A j \in DOMAIN n.ranges[i] :
                         j < Len(n.ranges[i]) => n.ranges[i][j].cmd \in Calm

(* The bodies of traps run commands, lists and ifs; and a script that      *)
(* returns traps no signal, for the end of any string clears func_return.  *)
MildTraps ==
  \A p \in Programs : /\ p.trap \in Seq(Mild) /\ p.ERR \in Seq(Mild)
                      /\ p.RETURN \in Seq(Mild) /\ p.EXIT \in Seq(Mild)
                      /\ Returns => p.trap = <<>>

-----------------------------------------------------------------------------
(* What a stack allows.  A trap body is on it; a place is on it where no   *)
(* flag may come out; a call is above every such place; a call that has    *)
(* returned has nothing above it that keeps the flags to itself.           *)
Trap(x) == x.f = "string" /\ x.why # "eval"
Quiet(x) == x.f \in {"cond", "if", "cleanup"} \/ (x.f = "range" /\ x.todo # <<>>)
Barrier == {"cleanup", "string", "call"}

Trapped(s) == \E i \in DOMAIN s : Trap(s[i])
Hushed(s) == \E i \in DOMAIN s : Quiet(s[i])
Open(s) == \E i \in DOMAIN s : s[i].f = "call" /\ \A j \in 1 .. i : ~Quiet(s[j])
Owed(s) == \E i \in DOMAIN s : /\ s[i].f = "call" /\ s[i].returned
                               /\ \A j \in 1 .. i - 1 : s[j].f \notin Barrier

(* A trap body found these flags set; or all of them found none set.       *)
Lent(w, s) == \E i \in DOMAIN s : Trap(s[i]) /\ s[i].held = w
Unheld(s) == \A i \in DOMAIN s : Trap(s[i]) => s[i].held = NoWayOut

Ways == [fr : BOOLEAN, lb : Nat, lc : Nat]

(* The loops and the call that these flags are for are there.              *)
Aimed(w, s) ==
  /\ w \in Ways /\ w.lb <= LoopsOn(s) /\ w.lc <= LoopsOn(s)
  /\ w.fr => Returns /\ CallsOn(s) > 0

(* They are one way out, from a place that lets them out.                  *)
Legal(w, s) ==
  /\ Aimed(w, s)
  /\ w.lb = 0 \/ w.lc = 0
  /\ w.fr => w.lb = 0 /\ w.lc = 0 /\ Open(s)
  /\ Hushed(s) => w.lb = 0 /\ w.lc = 0

(* In a trap body the flags are those that the outermost one found.        *)
Fit(w, s) ==
  IF Trapped(s) THEN Aimed(w, s) /\ Lent(w, s) /\ (w = NoWayOut => Unheld(s))
  ELSE Legal(w, s)

(* What may run on top of a stack.                                         *)
May(n, s) ==
  /\ Trapped(s) => n \in Mild
  /\ Hushed(s) => n \in Steady
  /\ Hushed(s) /\ ~Open(s) => n \in Calm
Operands(r, s) ==
  \A j \in DOMAIN r : May(r[j].cmd, s) /\ (j < Len(r) => r[j].cmd \in Calm)

(* What a frame has still to run may run on what is below it, and what it  *)
(* has put away -- the flags that a cleanup parked or a trap body found -- *)
(* may come back there.                                                    *)
Own(x, s) ==
  /\ x.f = "list" => \A i \in DOMAIN x.todo : Operands(x.todo[i], s)
  /\ x.f = "range" => Operands(x.todo, s)
  /\ x.f \in {"cond", "body", "for", "always", "cleanup", "call"} => ~Trapped(s)
  /\ x.f \in {"cond", "body", "if"} => May(x.node, s)
  /\ x.f = "for" => May(x.body, s)
  /\ x.f = "always" => x.cleanup \in Calm
  /\ x.f = "cleanup" => Legal(x.save, s) /\ (Owed(s) => x.save.fr)
  /\ x.f = "call" => ~Owed(s)
  /\ x.f = "string" /\ x.why = "eval" =>
       /\ x.held = NoWayOut /\ ~Trapped(s) /\ ~Owed(s)
       /\ \A i \in DOMAIN x.todo : May(x.todo[i], s)
  /\ Trap(x) =>
       /\ x.todo \in Seq(Mild)
       /\ IF Trapped(s) THEN x.held = NoWayOut ELSE Legal(x.held, s)
       /\ Owed(s) => x.why = "RETURN"
       /\ x.why = "signal" => ~Returns
       /\ x.why = "ERR" => x.held = NoWayOut /\ Unheld(s)
       /\ x.why = "EXIT" => x.held = NoWayOut /\ s = <<>>

(* What lies under position i.                                             *)
Under(s, i) == [j \in 1 .. Len(s) - i |-> s[i + j]]

Owned(s) == \A i \in DOMAIN s : Own(s[i], Under(s, i))

Sound(w, s) == Fit(w, s) /\ Owned(s) /\ (Owed(s) => w.fr)

(* Nothing begins with a flag set, trap bodies apart, and what begins may. *)
Going ==
  /\ ctl.do \in {"run", "pipeline", "range"} => Trapped(stack) \/ ~unwinding
  /\ ctl.do = "run" => May(ctl.node, stack)
  /\ ctl.do = "pipeline" => May(ctl.cmd, stack)
  /\ ctl.do \in {"idle", "gone"} => stack = <<>>

(* The inductive invariant.                                                *)
FInv == CInv /\ Sound(WaysOut, stack) /\ loop_depth \in Nat /\ Going

-----------------------------------------------------------------------------
(* One frame more.                                                         *)

LEMMA Suffix ==
  ASSUME NEW s, Stacked(s), NEW x
  PROVE  /\ Under(<<x>> \o s, 1) = s
         /\ \A i \in DOMAIN s : Under(<<x>> \o s, i + 1) = Under(s, i)
<1> DEFINE n == Len(s)
           t == <<x>> \o s
<1>0. s \in Seq(Elems(s))
  BY DEF Stacked
<1>1. /\ n \in Nat /\ Len(t) = n + 1 /\ DOMAIN s = 1 .. n
      /\ \A i \in 1 .. n : t[i + 1] = s[i]
  BY <1>0, OnTop
<1>2. s = [j \in 1 .. n |-> s[j]]
  BY <1>0, LenProperties
<1> HIDE DEF n, t
<1>3. Under(t, 1) = s
  <2>1. (n + 1) - 1 = n /\ \A j \in 1 .. n : t[1 + j] = s[j]
    <3>1. \A j \in 1 .. n : 1 + j = j + 1
      BY <1>1
    <3> QED BY <1>1, <3>1
  <2>2. [j \in 1 .. n |-> t[1 + j]] = [j \in 1 .. n |-> s[j]]
    BY <2>1
  <2> QED BY <1>1, <1>2, <2>1, <2>2 DEF Under
<1>4. ASSUME NEW i \in DOMAIN s PROVE Under(t, i + 1) = Under(s, i)
  <2>1. i \in Nat /\ i <= n /\ (n + 1) - (i + 1) = n - i
    BY <1>1
  <2>2. \A j \in 1 .. n - i : t[(i + 1) + j] = s[i + j]
    <3> TAKE j \in 1 .. n - i
    <3>1. i + j \in 1 .. n /\ (i + 1) + j = (i + j) + 1
      BY <1>1, <2>1
    <3> QED BY <1>1, <3>1
  <2>3. [j \in 1 .. n - i |-> t[(i + 1) + j]] = [j \in 1 .. n - i |-> s[i + j]]
    BY <2>2
  <2>4. Under(t, i + 1) = [j \in 1 .. n - i |-> t[(i + 1) + j]]
    BY <1>1, <2>1 DEF Under
  <2>5. Under(s, i) = [j \in 1 .. n - i |-> s[i + j]]
    BY DEF Under, n
  <2> QED BY <2>3, <2>4, <2>5
<1> QED BY <1>3, <1>4 DEF t

(* What a frame on top makes of each of these.                             *)
LEMMA Seen ==
  ASSUME NEW s, Stacked(s), NEW x, NEW t, t = <<x>> \o s
  PROVE  /\ Trapped(t) <=> Trap(x) \/ Trapped(s)
         /\ Hushed(t) <=> Quiet(x) \/ Hushed(s)
         /\ Open(t) <=> ~Quiet(x) /\ (x.f = "call" \/ Open(s))
         /\ Owed(t) <=> \/ x.f = "call" /\ x.returned
                        \/ x.f \notin Barrier /\ Owed(s)
         /\ Unheld(t) <=> (Trap(x) => x.held = NoWayOut) /\ Unheld(s)
         /\ \A w : Lent(w, t) <=> (Trap(x) /\ x.held = w) \/ Lent(w, s)
         /\ Owned(t) <=> Own(x, s) /\ Owned(s)
<1> DEFINE n == Len(s)
<1>1. s \in Seq(Elems(s))
  BY DEF Stacked
<1>2. /\ n \in Nat /\ DOMAIN t = 1 .. n + 1 /\ DOMAIN s = 1 .. n
      /\ t[1] = x /\ \A i \in 1 .. n : t[i + 1] = s[i]
  BY <1>1, OnTop
<1>3. /\ Under(t, 1) = s
      /\ \A i \in 1 .. n : Under(t, i + 1) = Under(s, i)
  <2>1. Under(t, 1) = s /\ \A i \in DOMAIN s : Under(t, i + 1) = Under(s, i)
    BY Suffix
  <2> QED BY <1>2, <2>1
<1>4. \A j \in 1 .. n + 1 : j = 1 \/ \E i \in 1 .. n : j = i + 1
  <2> SUFFICES ASSUME NEW j \in 1 .. n + 1, j # 1 PROVE \E i \in 1 .. n : j = i + 1
    OBVIOUS
  <2>1. j - 1 \in 1 .. n /\ j = (j - 1) + 1
    BY <1>2
  <2> QED BY <2>1
<1>5. 1 \in 1 .. n + 1 /\ \A i \in 1 .. n : i + 1 \in 1 .. n + 1 /\ i \in Nat
  BY <1>2
<1> HIDE DEF n
<1>6. Trapped(t) <=> Trap(x) \/ Trapped(s)
  <2>1. Trapped(t) <=> \E j \in 1 .. n + 1 : Trap(t[j])
    BY <1>2 DEF Trapped
  <2>2. Trapped(s) <=> \E i \in 1 .. n : Trap(s[i])
    BY <1>2 DEF Trapped
  <2> QED BY <1>2, <1>4, <1>5, <2>1, <2>2
<1>7. Hushed(t) <=> Quiet(x) \/ Hushed(s)
  <2>1. Hushed(t) <=> \E j \in 1 .. n + 1 : Quiet(t[j])
    BY <1>2 DEF Hushed
  <2>2. Hushed(s) <=> \E i \in 1 .. n : Quiet(s[i])
    BY <1>2 DEF Hushed
  <2> QED BY <1>2, <1>4, <1>5, <2>1, <2>2
<1>8. Unheld(t) <=> (Trap(x) => x.held = NoWayOut) /\ Unheld(s)
  <2>1. Unheld(t) <=> \A j \in 1 .. n + 1 : Trap(t[j]) => t[j].held = NoWayOut
    BY <1>2 DEF Unheld
  <2>2. Unheld(s) <=> \A i \in 1 .. n : Trap(s[i]) => s[i].held = NoWayOut
    BY <1>2 DEF Unheld
  <2> QED BY <1>2, <1>4, <1>5, <2>1, <2>2
<1>9. ASSUME NEW w PROVE Lent(w, t) <=> (Trap(x) /\ x.held = w) \/ Lent(w, s)
  <2>1. Lent(w, t) <=> \E j \in 1 .. n + 1 : Trap(t[j]) /\ t[j].held = w
    BY <1>2 DEF Lent
  <2>2. Lent(w, s) <=> \E i \in 1 .. n : Trap(s[i]) /\ s[i].held = w
    BY <1>2 DEF Lent
  <2> QED BY <1>2, <1>4, <1>5, <2>1, <2>2
<1>10. Owned(t) <=> Own(x, s) /\ Owned(s)
  <2>1. Owned(t) <=> \A j \in 1 .. n + 1 : Own(t[j], Under(t, j))
    BY <1>2 DEF Owned
  <2>2. Owned(s) <=> \A i \in 1 .. n : Own(s[i], Under(s, i))
    BY <1>2 DEF Owned
  <2>3. Own(t[1], Under(t, 1)) <=> Own(x, s)
    BY <1>2, <1>3
  <2>4. \A i \in 1 .. n : Own(t[i + 1], Under(t, i + 1))
                            <=> Own(s[i], Under(s, i))
    BY <1>2, <1>3
  <2> QED BY <1>4, <1>5, <2>1, <2>2, <2>3, <2>4
<1>12. Open(t) <=> ~Quiet(x) /\ (x.f = "call" \/ Open(s))
  <2>1. ASSUME Open(t) PROVE ~Quiet(x) /\ (x.f = "call" \/ Open(s))
    <3>1. PICK j \in 1 .. n + 1 : t[j].f = "call" /\ \A k \in 1 .. j : ~Quiet(t[k])
      BY <1>2, <2>1 DEF Open
    <3>2. ~Quiet(x)
      BY <1>2, <3>1
    <3>3. CASE j = 1
      BY <1>2, <3>1, <3>2, <3>3
    <3>4. ASSUME NEW i \in 1 .. n, j = i + 1 PROVE Open(s)
      <4>1. \A k \in 1 .. i : k \in 1 .. n /\ k + 1 \in 1 .. j
        BY <1>2, <3>4
      <4>2. s[i].f = "call" /\ \A k \in 1 .. i : ~Quiet(s[k])
        BY <1>2, <3>1, <3>4, <4>1
      <4> QED BY <1>2, <4>2 DEF Open
    <3> QED BY <1>4, <3>2, <3>3, <3>4
  <2>2. ASSUME ~Quiet(x), x.f = "call" PROVE Open(t)
    <3>1. \A k \in 1 .. 1 : ~Quiet(t[k])
      BY <1>2, <2>2
    <3> QED BY <1>2, <1>5, <2>2, <3>1 DEF Open
  <2>3. ASSUME ~Quiet(x), Open(s) PROVE Open(t)
    <3>1. PICK i \in 1 .. n : s[i].f = "call" /\ \A k \in 1 .. i : ~Quiet(s[k])
      BY <1>2, <2>3 DEF Open
    <3>2. ASSUME NEW k \in 1 .. i + 1 PROVE ~Quiet(t[k])
      <4>1. CASE k = 1
        BY <1>2, <2>3, <4>1
      <4>2. CASE k # 1
        <5>1. k - 1 \in 1 .. i /\ k - 1 \in 1 .. n /\ k = (k - 1) + 1
          BY <1>2, <4>2
        <5> QED BY <1>2, <3>1, <5>1
      <4> QED BY <4>1, <4>2
    <3>3. i + 1 \in DOMAIN t /\ t[i + 1].f = "call"
      BY <1>2, <1>5, <3>1
    <3> QED BY <3>2, <3>3 DEF Open
  <2> QED BY <2>1, <2>2, <2>3
<1>13. Owed(t) <=> \/ x.f = "call" /\ x.returned
                   \/ x.f \notin Barrier /\ Owed(s)
  <2>1. ASSUME Owed(t) PROVE (x.f = "call" /\ x.returned) \/ (x.f \notin Barrier /\ Owed(s))
    <3>1. PICK j \in 1 .. n + 1 : /\ t[j].f = "call" /\ t[j].returned
                                  /\ \A k \in 1 .. j - 1 : t[k].f \notin Barrier
      BY <1>2, <2>1 DEF Owed
    <3>2. CASE j = 1
      BY <1>2, <3>1, <3>2
    <3>3. ASSUME NEW i \in 1 .. n, j = i + 1 PROVE x.f \notin Barrier /\ Owed(s)
      <4>1. 1 \in 1 .. j - 1 /\ \A k \in 1 .. i - 1 : k \in 1 .. n /\ k + 1 \in 1 .. j - 1
        BY <1>2, <3>3
      <4>2. s[i].f = "call" /\ s[i].returned /\ \A k \in 1 .. i - 1 : s[k].f \notin Barrier
        BY <1>2, <3>1, <3>3, <4>1
      <4> QED BY <1>2, <3>1, <4>1, <4>2 DEF Owed
    <3> QED BY <1>4, <3>2, <3>3
  <2>2. ASSUME x.f = "call", x.returned PROVE Owed(t)
    <3>1. \A k \in 1 .. 1 - 1 : t[k].f \notin Barrier
      OBVIOUS
    <3> QED BY <1>2, <1>5, <2>2, <3>1 DEF Owed
  <2>3. ASSUME x.f \notin Barrier, Owed(s) PROVE Owed(t)
    <3>1. PICK i \in 1 .. n : /\ s[i].f = "call" /\ s[i].returned
                              /\ \A k \in 1 .. i - 1 : s[k].f \notin Barrier
      BY <1>2, <2>3 DEF Owed
    <3>2. ASSUME NEW k \in 1 .. (i + 1) - 1 PROVE t[k].f \notin Barrier
      <4>1. CASE k = 1
        BY <1>2, <2>3, <4>1
      <4>2. CASE k # 1
        <5>1. k - 1 \in 1 .. i - 1 /\ k - 1 \in 1 .. n /\ k = (k - 1) + 1
          BY <1>2, <4>2
        <5> QED BY <1>2, <3>1, <5>1
      <4> QED BY <4>1, <4>2
    <3>3. i + 1 \in DOMAIN t /\ t[i + 1].f = "call" /\ t[i + 1].returned
      BY <1>2, <1>5, <3>1
    <3> QED BY <3>2, <3>3 DEF Owed
  <2> QED BY <2>1, <2>2, <2>3
<1> QED BY <1>6, <1>7, <1>8, <1>9, <1>10, <1>12, <1>13

-----------------------------------------------------------------------------
(* The parts of a tame node are tame.                                      *)

LEMMA TameParts ==
  ASSUME NEW K, NEW W, NEW n \in Tame(K, W)
  PROVE  /\ n \in Nodes /\ n.k \in K /\ (n.k = "cmd" => n.word \in W /\ n.n \in Int)
         /\ n.k = "list" => /\ n.ranges \in Seq(Seq(OperandsOf(Nodes))) \ {<<>>}
                            /\ \A i \in DOMAIN n.ranges : \A j \in DOMAIN n.ranges[i] :
                                 n.ranges[i][j].cmd \in Tame(K, W)
         /\ n.k = "eval" => n.body \in Seq(Tame(K, W)) \ {<<>>}
         /\ n.k = "loop" => n.cond \in Tame(K, W) /\ n.body \in Tame(K, W)
         /\ n.k = "for" => n.body \in Tame(K, W)
         /\ n.k = "if" => /\ n.cond \in Tame(K, W) /\ n.then \in Tame(K, W)
                          /\ n.else \in Seq(Tame(K, W))
         /\ n.k = "brace" => n.body \in Tame(K, W) /\ n.cleanup \in Seq(Tame(K, W))
<1> DEFINE T == Tame(K, W)
<1>1. PICK S \in SUBSET Nodes :
        /\ Parsed(S) /\ n \in S
        /\ \A m \in S : m.k \in K /\ (m.k = "cmd" => m.word \in W)
  BY DEF Tame
<1>2. S \subseteq T
  BY <1>1 DEF Tame
<1> HIDE DEF T
<1>3. Seq(S) \subseteq Seq(T)
  BY <1>2, SeqMonotonic
<1>4. /\ n \in Nodes /\ n.k \in K /\ (n.k = "cmd" => n.word \in W)
      /\ n.k = "cmd"  => n.n \in Int
      /\ n.k = "list" => n.ranges \in Seq(Seq(OperandsOf(S))) \ {<<>>}
      /\ n.k = "eval" => n.body \in Seq(S) \ {<<>>}
      /\ n.k = "loop" => n.cond \in S /\ n.body \in S
      /\ n.k = "for"  => n.body \in S
      /\ n.k = "if"   => n.cond \in S /\ n.then \in S /\ n.else \in Seq(S)
      /\ n.k = "brace" => n.body \in S /\ n.cleanup \in Seq(S)
  BY <1>1 DEF Parsed
<1>5. ASSUME n.k = "list"
      PROVE  /\ n.ranges \in Seq(Seq(OperandsOf(Nodes))) \ {<<>>}
             /\ \A i \in DOMAIN n.ranges : \A j \in DOMAIN n.ranges[i] :
                  n.ranges[i][j].cmd \in T
  <2>1. n.ranges \in Seq(Seq(OperandsOf(Nodes))) \ {<<>>}
    BY <1>1, <1>5, ShellExecAssumption DEF Parsed
  <2>2. ASSUME NEW i \in DOMAIN n.ranges, NEW j \in DOMAIN n.ranges[i]
        PROVE  n.ranges[i][j].cmd \in T
    <3>1. n.ranges[i] \in Seq(OperandsOf(S))
      BY <1>4, <1>5, LenProperties
    <3>2. n.ranges[i][j] \in OperandsOf(S)
      BY <3>1, LenProperties
    <3> QED BY <1>2, <3>2 DEF OperandsOf
  <2> QED BY <2>1, <2>2
<1> QED BY <1>2, <1>3, <1>4, <1>5 DEF T

LEMMA Classes ==
  /\ Mild \subseteq Calm /\ Calm \subseteq Steady
  /\ Mild \subseteq Nodes /\ Steady \subseteq Nodes
<1>1. ASSUME NEW K, NEW W, NEW L, NEW V, K \subseteq L, W \subseteq V
      PROVE  Tame(K, W) \subseteq Tame(L, V)
  BY <1>1 DEF Tame
<1>2. {"cmd", "list", "if"} \subseteq Kinds /\ {"ext", "ok"} \subseteq Calling
      /\ Calling \subseteq Calling \cup {"return"}
  BY DEF Kinds, Calling, Words
<1> QED BY <1>1, <1>2 DEF Mild, Calm, Steady, Tame

(* A member of a sequence.                                                 *)
LEMMA Member ==
  ASSUME NEW S, NEW q \in Seq(S), NEW i \in DOMAIN q
  PROVE  q[i] \in S
BY LenProperties

LEMMA Rest ==
  ASSUME NEW S, NEW q \in Seq(S), q # <<>>
  PROVE  /\ 1 \in DOMAIN q /\ Head(q) = q[1] /\ Len(q) \in Nat
         /\ Len(Tail(q)) = Len(q) - 1
         /\ \A i \in DOMAIN Tail(q) : i \in Nat /\ i + 1 \in DOMAIN q /\ Tail(q)[i] = q[i + 1]
<1>1. Len(q) \in Nat \ {0} /\ DOMAIN q = 1 .. Len(q) /\ Head(q) = q[1]
  BY EmptySeq, LenProperties
<1>2. /\ Tail(q) \in Seq(S) /\ Len(Tail(q)) = Len(q) - 1
      /\ \A i \in 1 .. Len(Tail(q)) : Tail(q)[i] = q[i + 1]
  BY HeadTailProperties
<1>3. DOMAIN Tail(q) = 1 .. Len(q) - 1
  BY <1>2, LenProperties
<1> QED BY <1>1, <1>2, <1>3

-----------------------------------------------------------------------------
(* What may run in a place: its parts may.                                 *)

LEMMA MayParts ==
  ASSUME Orderly, NEW s, NEW n \in Nodes, May(n, s)
  PROVE  /\ n.k = "list" => \A i \in DOMAIN n.ranges : Operands(n.ranges[i], s)
         /\ n.k = "eval" => \A i \in DOMAIN n.body : May(n.body[i], s)
         /\ n.k = "loop" => n.cond \in Calm /\ May(n.body, s)
         /\ n.k = "for" => May(n.body, s)
         /\ n.k = "if" => /\ n.cond \in Calm /\ (Trapped(s) => n.cond \in Mild)
                          /\ May(n.then, s) /\ \A i \in DOMAIN n.else : May(n.else[i], s)
         /\ n.k = "brace" => May(n.body, s) /\ n.cleanup \in Seq(Calm)
         /\ n.k \in {"eval", "loop", "for", "brace"} => ~Trapped(s)
<1>1. Trapped(s) => n \in Mild
  BY DEF May
<1>2. Hushed(s) => n \in Steady
  BY DEF May
<1>3. Hushed(s) /\ ~Open(s) => n \in Calm
  BY DEF May
<1>4. n.k \in {"eval", "loop", "for", "brace"} => ~Trapped(s)
  <2>1. n \in Mild => n.k \in {"cmd", "list", "if"}
    BY TameParts DEF Mild
  <2> QED BY <1>1, <2>1
<1>5. ASSUME NEW m, n \in Mild => m \in Mild, n \in Steady => m \in Steady,
             n \in Calm => m \in Calm
      PROVE  May(m, s)
  BY <1>1, <1>2, <1>3, <1>5 DEF May
<1>6. CASE n.k = "list"
  <2> SUFFICES ASSUME NEW i \in DOMAIN n.ranges PROVE Operands(n.ranges[i], s)
    BY <1>4, <1>6
  <2>1. ASSUME NEW j \in DOMAIN n.ranges[i] PROVE May(n.ranges[i][j].cmd, s)
    <3>1. /\ n \in Mild => n.ranges[i][j].cmd \in Mild
          /\ n \in Steady => n.ranges[i][j].cmd \in Steady
          /\ n \in Calm => n.ranges[i][j].cmd \in Calm
      BY <1>6, TameParts DEF Mild, Steady, Calm
    <3> QED BY <1>5, <3>1
  <2>2. \A j \in DOMAIN n.ranges[i] : j < Len(n.ranges[i]) => n.ranges[i][j].cmd \in Calm
    BY <1>6 DEF Orderly
  <2> QED BY <2>1, <2>2 DEF Operands
<1>7. CASE n.k = "eval"
  <2>1. ASSUME NEW i \in DOMAIN n.body PROVE May(n.body[i], s)
    <3>1. /\ n \in Mild => n.body \in Seq(Mild)
          /\ n \in Steady => n.body \in Seq(Steady)
          /\ n \in Calm => n.body \in Seq(Calm)
      BY <1>7, TameParts DEF Mild, Steady, Calm
    <3>2. /\ n \in Mild => n.body[i] \in Mild
          /\ n \in Steady => n.body[i] \in Steady
          /\ n \in Calm => n.body[i] \in Calm
      BY <3>1, Member
    <3> QED BY <1>5, <3>2
  <2> QED BY <1>4, <1>7, <2>1
<1>8. CASE n.k = "loop"
  <2>1. /\ n \in Mild => n.body \in Mild
        /\ n \in Steady => n.body \in Steady
        /\ n \in Calm => n.body \in Calm
    BY <1>8, TameParts DEF Mild, Steady, Calm
  <2>2. May(n.body, s)
    BY <1>5, <2>1
  <2>3. n.cond \in Calm
    BY <1>8 DEF Orderly
  <2> QED BY <1>4, <1>8, <2>2, <2>3
<1>9. CASE n.k = "for"
  <2>1. /\ n \in Mild => n.body \in Mild
        /\ n \in Steady => n.body \in Steady
        /\ n \in Calm => n.body \in Calm
    BY <1>9, TameParts DEF Mild, Steady, Calm
  <2>2. May(n.body, s)
    BY <1>5, <2>1
  <2> QED BY <1>4, <1>9, <2>2
<1>10. CASE n.k = "if"
  <2>1. /\ n \in Mild => n.then \in Mild /\ n.cond \in Mild /\ n.else \in Seq(Mild)
        /\ n \in Steady => n.then \in Steady /\ n.else \in Seq(Steady)
        /\ n \in Calm => n.then \in Calm /\ n.else \in Seq(Calm)
    BY <1>10, TameParts DEF Mild, Steady, Calm
  <2>2. May(n.then, s)
    BY <1>5, <2>1
  <2>3. ASSUME NEW i \in DOMAIN n.else PROVE May(n.else[i], s)
    <3>1. /\ n \in Mild => n.else[i] \in Mild
          /\ n \in Steady => n.else[i] \in Steady
          /\ n \in Calm => n.else[i] \in Calm
      BY <2>1, Member
    <3> QED BY <1>5, <3>1
  <2>4. n.cond \in Calm /\ (Trapped(s) => n.cond \in Mild)
    BY <1>1, <1>10, <2>1 DEF Orderly
  <2> QED BY <1>4, <1>10, <2>2, <2>3, <2>4
<1>11. CASE n.k = "brace"
  <2>1. /\ n \in Mild => n.body \in Mild
        /\ n \in Steady => n.body \in Steady
        /\ n \in Calm => n.body \in Calm
    BY <1>11, TameParts DEF Mild, Steady, Calm
  <2>2. May(n.body, s)
    BY <1>5, <2>1
  <2>3. n.cleanup \in Seq(Calm)
    BY <1>11 DEF Orderly
  <2> QED BY <1>4, <1>11, <2>2, <2>3
<1> QED BY <1>4, <1>6, <1>7, <1>8, <1>9, <1>10, <1>11

-----------------------------------------------------------------------------
(* A frame goes on, and the flags are as sound as they were.               *)

LEMMA MayOn ==
  ASSUME NEW s, Stacked(s), NEW x, NEW n
  PROVE  /\ ~Trap(x) /\ ~Quiet(x) /\ x.f # "call" => (May(n, <<x>> \o s) <=> May(n, s))
         /\ ~Trap(x) /\ n \in Calm /\ (Trapped(s) => n \in Mild) => May(n, <<x>> \o s)
         /\ n \in Mild => May(n, <<x>> \o s)
<1> DEFINE t == <<x>> \o s
<1>1. /\ Trapped(t) <=> Trap(x) \/ Trapped(s)
      /\ Hushed(t) <=> Quiet(x) \/ Hushed(s)
      /\ Open(t) <=> ~Quiet(x) /\ (x.f = "call" \/ Open(s))
  BY Seen
<1> HIDE DEF t
<1> QED BY <1>1, Classes DEF May, t

LEMMA OperandsOn ==
  ASSUME NEW s, Stacked(s), NEW x, NEW r, ~Trap(x), ~Quiet(x), x.f # "call"
  PROVE  Operands(r, <<x>> \o s) <=> Operands(r, s)
BY MayOn DEF Operands

(* Flags of which none is set.                                             *)
LEMMA NoWay ==
  /\ NoWayOut \in Ways /\ NoWayOut.fr = FALSE /\ NoWayOut.lb = 0 /\ NoWayOut.lc = 0
  /\ \A w \in Ways : ~w.fr /\ w.lb = 0 /\ w.lc = 0 => w = NoWayOut
BY DEF NoWayOut, Ways

LEMMA NoneLegal ==
  ASSUME NEW s, Stacked(s) PROVE Legal(NoWayOut, s)
<1>1. s \in Seq(Elems(s)) BY DEF Stacked
<1>2. LoopsOn(s) \in Nat
  BY <1>1, Counted
<1> QED BY <1>2, NoWay DEF Legal, Aimed

(* What the numbers of a taller stack are.                                 *)
LEMMA Heights ==
  ASSUME NEW s, Stacked(s), NEW x
  PROVE  /\ LoopsOn(<<x>> \o s) = LoopsOn(s) + Loops(x)
         /\ CallsOn(<<x>> \o s) = CallsOn(s) + Calls(x)
         /\ LoopsOn(s) \in Nat /\ CallsOn(s) \in Nat
         /\ Loops(x) \in Nat /\ Calls(x) \in Nat
<1>1. s \in Seq(Elems(s)) BY DEF Stacked
<1>2. Loops(x) \in Nat /\ Calls(x) \in Nat
  BY DEF Loops, Calls
<1> QED BY <1>1, <1>2, Counted

LEMMA AimedOn ==
  ASSUME NEW s, Stacked(s), NEW x, NEW w, Aimed(w, s)
  PROVE  Aimed(w, <<x>> \o s)
<1> DEFINE t == <<x>> \o s
<1>1. LoopsOn(t) >= LoopsOn(s) /\ CallsOn(t) >= CallsOn(s)
      /\ LoopsOn(t) \in Nat /\ CallsOn(t) \in Nat /\ LoopsOn(s) \in Nat /\ CallsOn(s) \in Nat
  BY Heights
<1>2. w \in Ways /\ w.lb \in Nat /\ w.lc \in Nat
  BY DEF Aimed, Ways
<1> HIDE DEF t
<1> QED BY <1>1, <1>2 DEF Aimed, t

LEMMA OnPush ==
  ASSUME NEW s, Stacked(s), NEW x, NEW w, Sound(w, s), Own(x, s), ~Trap(x),
         x.f = "call" => ~x.returned, Quiet(x) => Trapped(s) \/ w = NoWayOut
  PROVE  Sound(w, <<x>> \o s)
<1> DEFINE t == <<x>> \o s
<1>1. /\ Trapped(t) <=> Trapped(s)
      /\ Hushed(t) <=> Quiet(x) \/ Hushed(s)
      /\ Open(t) <=> ~Quiet(x) /\ (x.f = "call" \/ Open(s))
      /\ Owed(t) => Owed(s)
      /\ Unheld(t) <=> Unheld(s)
      /\ Lent(w, t) <=> Lent(w, s)
      /\ Owned(t) <=> Own(x, s) /\ Owned(s)
  BY Seen
<1>2. Aimed(w, s) => Aimed(w, t)
  BY AimedOn
<1> HIDE DEF t
<1>3. Owned(t) /\ (Owed(t) => w.fr)
  BY <1>1 DEF Sound
<1>4. CASE Trapped(s)
  BY <1>1, <1>2, <1>3, <1>4 DEF Sound, Fit, t
<1>5. CASE ~Trapped(s)
  <2>1. Legal(w, s)
    BY <1>5 DEF Sound, Fit
  <2>2. Legal(w, t)
    BY <1>1, <1>2, <1>5, <2>1, NoWay DEF Legal
  <2> QED BY <1>1, <1>3, <1>5, <2>2 DEF Sound, Fit, t
<1> QED BY <1>4, <1>5

(* The body of a trap goes on: it finds the flags set that it found set.   *)
LEMMA OnTrap ==
  ASSUME NEW s, Stacked(s), NEW x, NEW w, Sound(w, s), Own(x, s), Trap(x),
         x.held = IF Trapped(s) THEN NoWayOut ELSE w
  PROVE  Sound(w, <<x>> \o s)
<1> DEFINE t == <<x>> \o s
<1>1. /\ Trapped(t) /\ ~Owed(t)
      /\ Unheld(t) <=> x.held = NoWayOut /\ Unheld(s)
      /\ Lent(w, t) <=> x.held = w \/ Lent(w, s)
      /\ Owned(t)
  BY Seen DEF Trap, Barrier, Sound
<1>2. Aimed(w, s) => Aimed(w, t)
  BY AimedOn
<1> HIDE DEF t
<1>3. Aimed(w, s)
  BY DEF Sound, Fit, Legal
<1>4. CASE Trapped(s)
  BY <1>1, <1>2, <1>3, <1>4 DEF Sound, Fit, t
<1>5. CASE ~Trapped(s)
  <2>1. Unheld(s)
    BY <1>5 DEF Unheld, Trapped
  <2> QED BY <1>1, <1>2, <1>3, <1>5, <2>1 DEF Sound, Fit, t
<1> QED BY <1>4, <1>5

-----------------------------------------------------------------------------
(* A frame comes off.                                                      *)

LEMMA Off ==
  ASSUME NEW s, Stacked(s), NEW x, NEW w, Sound(w, <<x>> \o s), ~Trap(x), x.f \notin Barrier,
         NEW v \in Ways, v.fr = w.fr, v.lb <= w.lb, v.lc <= w.lc,
         v.lb <= LoopsOn(s), v.lc <= LoopsOn(s), Trapped(s) => v = w
  PROVE  Sound(v, s) /\ Own(x, s)
<1> DEFINE t == <<x>> \o s
<1>1. /\ Trapped(t) <=> Trapped(s)
      /\ Hushed(t) <=> Quiet(x) \/ Hushed(s)
      /\ Open(t) => Open(s)
      /\ Owed(s) => Owed(t)
      /\ Unheld(t) <=> Unheld(s)
      /\ Lent(w, t) <=> Lent(w, s)
      /\ Owned(t) <=> Own(x, s) /\ Owned(s)
  BY Seen DEF Barrier
<1>2. CallsOn(t) = CallsOn(s)
  BY Heights DEF Calls, Barrier
<1> HIDE DEF t
<1>3. Sound(w, t)
  BY DEF t
<1>4. Owned(s) /\ Own(x, s) /\ (Owed(s) => v.fr)
  BY <1>1, <1>3 DEF Sound
<1>5. Aimed(w, t) /\ w.lb \in Nat /\ w.lc \in Nat /\ v.lb \in Nat /\ v.lc \in Nat
  BY <1>3 DEF Sound, Fit, Legal, Aimed, Ways
<1>6. Aimed(v, s)
  BY <1>2, <1>5 DEF Aimed
<1>7. CASE Trapped(s)
  BY <1>1, <1>3, <1>4, <1>6, <1>7 DEF Sound, Fit
<1>8. CASE ~Trapped(s)
  <2>1. Legal(w, t)
    BY <1>1, <1>3, <1>8 DEF Sound, Fit
  <2>2. Legal(v, s)
    BY <1>1, <1>5, <1>6, <2>1 DEF Legal
  <2> QED BY <1>4, <1>8, <2>2 DEF Sound, Fit
<1> QED BY <1>7, <1>8

(* A frame that is no loop, no call and no body of a string or a cleanup.  *)
LEMMA OffPlain ==
  ASSUME NEW s, Stacked(s), NEW x, NEW w, Sound(w, <<x>> \o s), ~Trap(x), x.f \notin Barrier,
         x.f \notin {"cond", "body", "for"}
  PROVE  Sound(w, s) /\ Own(x, s)
<1>1. LoopsOn(<<x>> \o s) = LoopsOn(s) /\ LoopsOn(s) \in Nat
  BY Heights DEF Loops
<1>2. Aimed(w, <<x>> \o s)
  BY DEF Sound, Fit, Legal
<1>3. w \in Ways /\ w.lb \in Nat /\ w.lc \in Nat /\ w.lb <= LoopsOn(s) /\ w.lc <= LoopsOn(s)
  BY <1>1, <1>2 DEF Aimed, Ways
<1>4. w.lb <= w.lb /\ w.lc <= w.lc
  BY <1>3
<1> QED BY <1>3, <1>4, Off

(* Under a condition, a cleanup or an operand that is not the last, nothing*)
(* is on its way out.                                                      *)
LEMMA Hush ==
  ASSUME NEW s, Stacked(s), NEW x, NEW w, Sound(w, <<x>> \o s), Quiet(x), ~Trapped(s)
  PROVE  w = NoWayOut
<1> DEFINE t == <<x>> \o s
<1>1. ~Trapped(t) /\ Hushed(t) /\ ~Open(t)
  BY Seen DEF Quiet, Trap
<1> HIDE DEF t
<1>2. Legal(w, t)
  BY <1>1 DEF Sound, Fit, t
<1>3. w \in Ways /\ ~w.fr /\ w.lb = 0 /\ w.lc = 0
  BY <1>1, <1>2 DEF Legal, Aimed, Ways
<1> QED BY <1>3, NoWay

LEMMA OffCleanup ==
  ASSUME NEW s, Stacked(s), NEW x, NEW w, Sound(w, <<x>> \o s), x.f = "cleanup"
  PROVE  w = NoWayOut /\ Sound(x.save, s) /\ ~Trapped(s)
<1>1. Own(x, s) /\ Owned(s)
  BY Seen DEF Sound
<1>2. ~Trapped(s) /\ Legal(x.save, s) /\ (Owed(s) => x.save.fr)
  BY <1>1 DEF Own
<1>3. w = NoWayOut
  BY <1>2, Hush DEF Quiet
<1> QED BY <1>1, <1>2, <1>3 DEF Sound, Fit

(* A call, and the string of an eval, take a return with them.             *)
LEMMA OffCall ==
  ASSUME NEW s, Stacked(s), NEW x, NEW w, Sound(w, <<x>> \o s),
         x.f = "call" \/ (x.f = "string" /\ x.why = "eval"),
         NEW v \in Ways, ~v.fr, v.lb = w.lb, v.lc = w.lc
  PROVE  Sound(v, s)
<1> DEFINE t == <<x>> \o s
<1>1. /\ Trapped(t) <=> Trap(x) \/ Trapped(s)
      /\ Hushed(t) <=> Quiet(x) \/ Hushed(s)
      /\ Owned(t) <=> Own(x, s) /\ Owned(s)
  BY Seen
<1>2. LoopsOn(t) = LoopsOn(s)
  BY Heights DEF Loops
<1> HIDE DEF t
<1>3. Sound(w, t)
  BY DEF t
<1>4. Owned(s) /\ ~Trapped(s) /\ ~Owed(s) /\ ~Trap(x)
  BY <1>1, <1>3 DEF Sound, Own, Trap
<1>5. Legal(w, t)
  BY <1>1, <1>3, <1>4 DEF Sound, Fit
<1>6. Legal(v, s)
  BY <1>1, <1>2, <1>5 DEF Legal, Aimed
<1> QED BY <1>4, <1>6 DEF Sound, Fit

(* The body of a trap gives back the flags it found.                       *)
LEMMA GivenBack ==
  ASSUME NEW s, Stacked(s), NEW x, NEW w, Sound(w, <<x>> \o s), Trap(x)
  PROVE  /\ Own(x, s) /\ Owned(s)
         /\ IF Trapped(s) THEN Fit(w, s) ELSE Legal(w, s) /\ w = x.held
         /\ x.why = "ERR" => w = NoWayOut
<1> DEFINE t == <<x>> \o s
<1>1. /\ Trapped(t)
      /\ Unheld(t) <=> x.held = NoWayOut /\ Unheld(s)
      /\ Lent(w, t) <=> x.held = w \/ Lent(w, s)
      /\ Owned(t) <=> Own(x, s) /\ Owned(s)
  BY Seen
<1>2. LoopsOn(t) = LoopsOn(s) /\ CallsOn(t) = CallsOn(s)
  BY Heights DEF Loops, Calls, Trap
<1> HIDE DEF t
<1>3. Sound(w, t)
  BY DEF t
<1>4. Own(x, s) /\ Owned(s) /\ Aimed(w, t) /\ Lent(w, t) /\ (w = NoWayOut => Unheld(t))
  BY <1>1, <1>3 DEF Sound, Fit
<1>5. Aimed(w, s)
  BY <1>2, <1>4 DEF Aimed
<1>6. ASSUME Trapped(s) PROVE Fit(w, s)
  <2>1. x.held = NoWayOut
    BY <1>4, <1>6 DEF Own
  <2>2. Lent(w, s)
    <3>1. CASE x.held = w
      <4>1. Unheld(s)
        BY <1>1, <1>4, <2>1, <3>1
      <4> QED BY <1>6, <2>1, <3>1, <4>1 DEF Unheld, Lent, Trapped
    <3> QED BY <1>1, <1>4, <3>1
  <2> QED BY <1>1, <1>4, <1>5, <1>6, <2>2 DEF Fit
<1>7. ASSUME ~Trapped(s) PROVE Legal(w, s) /\ w = x.held
  <2>1. ~Lent(w, s)
    BY <1>7 DEF Lent, Trapped
  <2>2. x.held = w
    BY <1>1, <1>4, <2>1
  <2> QED BY <1>4, <1>7, <2>2 DEF Own
<1>8. x.why = "ERR" => w = NoWayOut
  <2>1. x.why = "ERR" => x.held = NoWayOut /\ Unheld(s)
    BY <1>4 DEF Own
  <2>2. Unheld(s) /\ Lent(w, s) => w = NoWayOut
    BY DEF Unheld, Lent
  <2> QED BY <1>1, <1>4, <2>1, <2>2
<1> QED BY <1>4, <1>6, <1>7, <1>8

LEMMA OffTrap ==
  ASSUME NEW s, Stacked(s), NEW x, NEW w, Sound(w, <<x>> \o s), Trap(x),
         x.why \in {"signal", "ERR"}, NEW v \in Ways, ~v.fr, v.lb = w.lb, v.lc = w.lc
  PROVE  Sound(v, s)
<1>1. /\ Own(x, s) /\ Owned(s)
      /\ IF Trapped(s) THEN Fit(w, s) ELSE Legal(w, s) /\ w = x.held
      /\ x.why = "ERR" => w = NoWayOut
  BY GivenBack
<1>2. Aimed(w, s)
  BY <1>1 DEF Fit, Legal
<1>3. ~w.fr
  BY <1>1, <1>2, NoWay DEF Own, Aimed
<1>4. v = w
  BY <1>2, <1>3 DEF Aimed, Ways
<1>5. ~Owed(s)
  BY <1>1 DEF Own
<1> QED BY <1>1, <1>4, <1>5 DEF Sound, Fit

LEMMA OffReturn ==
  ASSUME NEW s, Stacked(s), NEW y, Stacked(<<y>> \o s), y.f = "call", NEW x, NEW w,
         Sound(w, <<x>> \o (<<y>> \o s)), Trap(x),
         NEW v \in Ways, ~v.fr, v.lb = w.lb, v.lc = w.lc
  PROVE  Sound(v, s)
<1> DEFINE t == <<y>> \o s
<1>1. /\ Trapped(t) <=> Trap(y) \/ Trapped(s)
      /\ Hushed(t) <=> Quiet(y) \/ Hushed(s)
      /\ Owned(t) <=> Own(y, s) /\ Owned(s)
  BY Seen
<1>2. LoopsOn(t) = LoopsOn(s)
  BY Heights DEF Loops
<1> HIDE DEF t
<1>3. /\ Owned(t)
      /\ IF Trapped(t) THEN Fit(w, t) ELSE Legal(w, t) /\ w = x.held
  BY GivenBack DEF t
<1>4. Owned(s) /\ ~Trapped(s) /\ ~Owed(s) /\ ~Trap(y)
  BY <1>1, <1>3 DEF Own, Trap
<1>5. Legal(w, t)
  BY <1>1, <1>3, <1>4
<1>6. Legal(v, s)
  BY <1>1, <1>2, <1>5 DEF Legal, Aimed
<1> QED BY <1>4, <1>6 DEF Sound, Fit

-----------------------------------------------------------------------------
(* What the invariant says of the walk.                                    *)

FNext == Sound(WaysOut, stack)' /\ loop_depth' \in Nat /\ Going'

LEMMA Empty ==
  /\ ~Trapped(<<>>) /\ ~Hushed(<<>>) /\ ~Owed(<<>>) /\ Stacked(<<>>)
  /\ \A n : May(n, <<>>)
  /\ \A w : Sound(w, <<>>) <=> w = NoWayOut
<1>1. ~Trapped(<<>>) /\ ~Hushed(<<>>) /\ ~Owed(<<>>) /\ Owned(<<>>) /\ Stacked(<<>>)
  BY Bare DEF Trapped, Hushed, Owed, Owned
<1>2. LoopsOn(<<>>) = 0 /\ CallsOn(<<>>) = 0
  <2>1. \A K : Positions(<<>>, K) = {}
    BY DEF Positions
  <2> QED BY <2>1, FS_EmptySet DEF LoopsOn, CallsOn
<1>3. ASSUME NEW w, Legal(w, <<>>) PROVE w = NoWayOut
  <2>1. w \in Ways /\ w.lb \in Nat /\ w.lc \in Nat /\ w.lb <= 0 /\ w.lc <= 0 /\ ~w.fr
    BY <1>2, <1>3 DEF Legal, Aimed, Ways
  <2> QED BY <2>1, NoWay
<1>4. Legal(NoWayOut, <<>>)
  BY <1>1, NoneLegal
<1> QED BY <1>1, <1>3, <1>4 DEF May, Sound, Fit

LEMMA Unwinds ==
  /\ WaysOut \in Ways => (unwinding <=> WaysOut # NoWayOut)
  /\ WaysOut.fr = func_return /\ WaysOut.lb = loop_break /\ WaysOut.lc = loop_continue
  /\ WaysOut \in Ways => func_return \in BOOLEAN /\ loop_break \in Nat /\ loop_continue \in Nat
<1>1. WaysOut.fr = func_return /\ WaysOut.lb = loop_break /\ WaysOut.lc = loop_continue
  BY DEF WaysOut
<1>2. WaysOut \in Ways => WaysOut.fr \in BOOLEAN /\ WaysOut.lb \in Nat /\ WaysOut.lc \in Nat
  BY DEF Ways
<1>3. ASSUME WaysOut \in Ways, ~unwinding PROVE WaysOut = NoWayOut
  <2>1. ~func_return /\ loop_break = 0 /\ loop_continue = 0
    BY <1>1, <1>2, <1>3 DEF unwinding
  <2> QED BY <1>1, <1>3, <2>1, NoWay
<1>4. WaysOut = NoWayOut => ~unwinding
  BY <1>1, NoWay DEF unwinding
<1> QED BY <1>1, <1>2, <1>3, <1>4

(* The same after a step.                                                  *)
LEMMA Ahead ==
  ASSUME func_return' \in BOOLEAN, loop_break' \in Nat, loop_continue' \in Nat
  PROVE  /\ WaysOut' \in Ways /\ WaysOut'.fr = func_return'
         /\ WaysOut'.lb = loop_break' /\ WaysOut'.lc = loop_continue'
BY DEF WaysOut, Ways

LEMMA Typed == ASSUME FInv PROVE WaysOut \in Ways /\ Stacked(stack)
BY DEF FInv, CInv, Sound, Fit, Legal, Aimed

(* The top frame apart from the others.                                    *)
LEMMA Apart ==
  ASSUME FInv, stack # <<>>, ctl.do # "gone"
  PROVE  /\ stack = <<Top>> \o Below /\ Stacked(Below) /\ Kind(Top) /\ Placed(Top, Below)
         /\ Sound(WaysOut, <<Top>> \o Below) /\ WaysOut \in Ways
         /\ Trapped(stack) <=> Trap(Top) \/ Trapped(Below)
<1>1. stack = <<Top>> \o Below /\ Stacked(Below) /\ Placed(Top, Below)
  BY Popped DEF FInv, CInv, Top, Below
<1>2. Trapped(<<Top>> \o Below) <=> Trap(Top) \/ Trapped(Below)
  BY <1>1, Seen
<1> QED BY <1>1, <1>2, Typed DEF FInv, Placed

(* Nothing is on its way out where a command begins, trap bodies apart.    *)
LEMMA Running ==
  ASSUME FInv, ctl.do \in {"run", "pipeline", "range"}
  PROVE  Trapped(stack) \/ WaysOut = NoWayOut
BY Typed, Unwinds DEF FInv, Going

LEMMA Same ==
  ASSUME FInv, UNCHANGED <<stack, flags, loop_depth>>, Going'
  PROVE  FNext
BY DEF FInv, FNext, flags, WaysOut

(* The flags that a string finds set.                                      *)
LEMMA HeldIs ==
  ASSUME FInv
  PROVE  (IF HeldBelow THEN NoWayOut ELSE WaysOut) = (IF Trapped(stack) THEN NoWayOut ELSE WaysOut)
<1>1. Fit(WaysOut, stack) /\ Owned(stack)
  BY DEF FInv, Sound
<1>2. CASE Trapped(stack) /\ ~HeldBelow
  <2>1. \A i \in DOMAIN stack : Trap(stack[i]) => stack[i].held = NoWayOut
    BY <1>2 DEF HeldBelow, Positions, Trap
  <2>2. Lent(WaysOut, stack)
    BY <1>1, <1>2 DEF Fit
  <2> QED BY <1>2, <2>1, <2>2 DEF Lent
<1>3. CASE ~Trapped(stack)
  <2>1. \A i \in DOMAIN stack : stack[i].f = "string" => stack[i].held = NoWayOut
    BY <1>1, <1>3 DEF Owned, Own, Trapped, Trap
  <2>2. ~HeldBelow
    BY <2>1 DEF HeldBelow, Positions
  <2> QED BY <1>3, <2>2
<1> QED BY <1>2, <1>3

(* The body of a trap begins.                                              *)
LEMMA TrapStarts ==
  ASSUME FInv, NEW s, Stacked(s), Sound(WaysOut, s),
         (Trapped(s) <=> Trapped(stack)) \/ WaysOut = NoWayOut,
         NEW body \in Seq(Mild), body # <<>>, NEW why \in Whys, why # "eval",
         NEW saved, NEW st, NEW x, x = StringFrame(Tail(body), why, saved, st),
         Owed(s) => why = "RETURN", why = "signal" => ~Returns,
         why \in {"ERR", "EXIT"} => WaysOut = NoWayOut, why = "EXIT" => s = <<>>
  PROVE  Sound(WaysOut, <<x>> \o s) /\ May(Head(body), <<x>> \o s) /\ Trapped(<<x>> \o s)
<1>1. Head(body) \in Mild /\ Tail(body) \in Seq(Mild)
  BY Parts
<1>2. /\ x.f = "string" /\ x.why = why /\ x.todo = Tail(body)
      /\ x.held = IF HeldBelow THEN NoWayOut ELSE WaysOut
  BY DEF StringFrame
<1>3. x.held = IF Trapped(s) THEN NoWayOut ELSE WaysOut
  BY <1>2, HeldIs
<1>4. Trap(x)
  BY <1>2 DEF Trap
<1>5. why = "ERR" => x.held = NoWayOut /\ Unheld(s)
  <2> SUFFICES ASSUME why = "ERR" PROVE x.held = NoWayOut /\ Unheld(s)
    OBVIOUS
  <2>1. x.held = NoWayOut
    BY <1>3
  <2>2. Unheld(s)
    BY DEF Sound, Fit, Unheld, Trapped
  <2> QED BY <2>1, <2>2
<1>6. IF Trapped(s) THEN x.held = NoWayOut ELSE Legal(x.held, s)
  BY <1>3 DEF Sound, Fit
<1>7. why = "EXIT" => x.held = NoWayOut /\ s = <<>>
  BY <1>3
<1>8. Own(x, s)
  BY <1>1, <1>2, <1>4, <1>5, <1>6, <1>7 DEF Own
<1>9. Sound(WaysOut, <<x>> \o s)
  BY <1>3, <1>4, <1>8, OnTrap
<1>10. May(Head(body), <<x>> \o s)
  BY <1>1, MayOn
<1>11. Trapped(<<x>> \o s)
  BY <1>4, Seen
<1> QED BY <1>9, <1>10, <1>11

(* exit_clean: the EXIT trap starts on an empty stack.                     *)
LEMMA Left ==
  ASSUME MildTraps, FInv, NEW code, exit_clean(code), WaysOut = NoWayOut,
         WaysOut' = WaysOut, loop_depth' = loop_depth
  PROVE  FNext
<1>1. Sound(WaysOut, <<>>) /\ Stacked(<<>>) /\ ~Owed(<<>>) /\ loop_depth' \in Nat
  BY Empty DEF FInv
<1>2. CASE traps.EXIT
  <2> DEFINE x == StringFrame(Tail(prog.EXIT), "EXIT", last, code)
  <2>1. prog.EXIT \in Seq(Mild) /\ prog.EXIT # <<>>
    BY <1>2 DEF FInv, CInv, Given, TrapBodies, MildTraps
  <2>2. stack' = <<x>> /\ ctl' = Run(Head(prog.EXIT))
    BY <1>2 DEF exit_clean
  <2>3. "EXIT" \in Whys
    BY DEF Whys
  <2> HIDE DEF x
  <2>4. /\ Sound(WaysOut, <<x>> \o <<>>) /\ May(Head(prog.EXIT), <<x>> \o <<>>)
        /\ Trapped(<<x>> \o <<>>)
    BY <1>1, <2>1, <2>3, TrapStarts DEF x
  <2>5. <<x>> \o <<>> = <<x>>
    OBVIOUS
  <2>6. Going'
    BY <2>2, <2>4, <2>5 DEF Going, Run
  <2> QED BY <1>1, <2>2, <2>4, <2>5, <2>6 DEF FNext
<1>3. CASE ~traps.EXIT
  <2>1. stack' = <<>> /\ ctl' = Gone(code)
    BY <1>3 DEF exit_clean
  <2> QED BY <1>1, <2>1 DEF FNext, Going, Gone
<1> QED BY <1>2, <1>3

-----------------------------------------------------------------------------
(* Input, lists and signals.                                               *)

LEMMA TopLevelSound == ASSUME MildTraps, FInv, execute_top_level PROVE FNext
<1>1. CASE ctl = Idle /\ ctl' = Run(Head(input))
           /\ UNCHANGED <<prog, stack, last, flags, depths, traps, async>>
  <2>1. stack = <<>>
    BY <1>1 DEF FInv, Going, Idle
  <2>2. WaysOut = NoWayOut
    BY <2>1, Empty DEF FInv
  <2>3. ~unwinding' /\ stack' = <<>>
    BY <1>1, <2>1, <2>2, Typed, Unwinds DEF flags, unwinding
  <2>4. Going'
    BY <1>1, <2>3, Empty DEF Going, Run
  <2> QED BY <1>1, <2>4, Same DEF depths
<1>2. CASE ctl = Idle /\ exit_clean(last)
           /\ UNCHANGED <<prog, input, last, flags, depths, async>>
  <2>1. stack = <<>>
    BY <1>2 DEF FInv, Going, Idle
  <2>2. WaysOut = NoWayOut
    BY <2>1, Empty DEF FInv
  <2> QED BY <1>2, <2>2, Left DEF flags, depths, WaysOut
<1>3. CASE stack = <<>> /\ ctl' = Idle
           /\ UNCHANGED <<prog, input, stack, flags, depths, traps, async>>
  <2>1. Going'
    BY <1>3 DEF Going, Idle
  <2> QED BY <1>3, <2>1, Same DEF depths
<1> QED BY <1>1, <1>2, <1>3 DEF execute_top_level

LEMMA SignalSound == ASSUME FInv, trap_sighandler PROVE FNext
<1>1. Going'
  BY DEF trap_sighandler, FInv, Going, flags, unwinding
<1> QED BY <1>1, Same DEF trap_sighandler, depths

LEMMA ListSound == ASSUME Orderly, FInv, execute_simple_list PROVE FNext
<1> DEFINE x == ListFrame(ctl.node.ranges)
<1>1. /\ ctl.do = "run" /\ ctl.node.k = "list" /\ stack' = <<x>> \o stack
      /\ ctl' = [do |-> "range", st |-> 0]
      /\ UNCHANGED <<prog, input, last, flags, depths, traps, async>>
  BY DEF execute_simple_list, Push
<1>2. ctl.node \in Nodes /\ May(ctl.node, stack) /\ loop_depth \in Nat /\ Stacked(stack)
      /\ Sound(WaysOut, stack)
  BY <1>1 DEF FInv, CInv, Control, Going
<1>3. Own(x, stack) /\ x.f = "list"
  <2>1. \A i \in DOMAIN ctl.node.ranges : Operands(ctl.node.ranges[i], stack)
    BY <1>1, <1>2, MayParts
  <2> QED BY <2>1 DEF Own, ListFrame, Trap
<1> HIDE DEF x
<1>4. ~Trap(x) /\ ~Quiet(x) /\ x.f # "call"
  BY <1>3 DEF Trap, Quiet
<1>5. Sound(WaysOut, <<x>> \o stack)
  BY <1>2, <1>3, <1>4, OnPush
<1>6. Trapped(<<x>> \o stack) <=> Trapped(stack)
  BY <1>2, <1>4, Seen
<1>7. Going'
  BY <1>1, <1>6 DEF FInv, Going, flags, unwinding
<1> QED BY <1>1, <1>2, <1>5, <1>7 DEF FNext, flags, depths, WaysOut

(* What is still to be run of a list, or of a range, may be run later.     *)
LEMMA Later ==
  /\ \A q \in Seq(Seq(OperandsOf(Nodes))) : \A s :
       q # <<>> /\ (\A i \in DOMAIN q : Operands(q[i], s)) =>
         Operands(Head(q), s) /\ \A i \in DOMAIN Tail(q) : Operands(Tail(q)[i], s)
  /\ \A r \in Seq(OperandsOf(Nodes)) : \A s :
       r # <<>> /\ Operands(r, s) =>
         /\ May(Head(r).cmd, s) /\ Operands(Tail(r), s)
         /\ Tail(r) # <<>> => Head(r).cmd \in Calm
<1>1. ASSUME NEW q \in Seq(Seq(OperandsOf(Nodes))), NEW s, q # <<>>,
             \A i \in DOMAIN q : Operands(q[i], s)
      PROVE  Operands(Head(q), s) /\ \A i \in DOMAIN Tail(q) : Operands(Tail(q)[i], s)
  <2>1. /\ 1 \in DOMAIN q /\ Head(q) = q[1]
        /\ \A i \in DOMAIN Tail(q) : i + 1 \in DOMAIN q /\ Tail(q)[i] = q[i + 1]
    BY <1>1, Rest
  <2> QED BY <1>1, <2>1
<1>2. ASSUME NEW r \in Seq(OperandsOf(Nodes)), NEW s, r # <<>>, Operands(r, s)
      PROVE  /\ May(Head(r).cmd, s) /\ Operands(Tail(r), s)
             /\ Tail(r) # <<>> => Head(r).cmd \in Calm
  <2>1. /\ 1 \in DOMAIN r /\ Head(r) = r[1] /\ Len(r) \in Nat /\ Len(Tail(r)) = Len(r) - 1
        /\ \A i \in DOMAIN Tail(r) : /\ i \in Nat /\ i + 1 \in DOMAIN r
                                     /\ Tail(r)[i] = r[i + 1]
    BY <1>2, Rest
  <2>2. \A i \in DOMAIN Tail(r) : i < Len(Tail(r)) => i + 1 < Len(r)
    BY <2>1
  <2>3. Operands(Tail(r), s)
    BY <1>2, <2>1, <2>2 DEF Operands
  <2>4. Tail(r) # <<>> => 1 < Len(r)
    <3>1. Tail(r) \in Seq(OperandsOf(Nodes))
      BY <1>2, Parts
    <3>2. Tail(r) # <<>> => Len(Tail(r)) \in Nat \ {0}
      BY <3>1, EmptySeq
    <3> QED BY <2>1, <3>2
  <2> QED BY <1>2, <2>1, <2>3, <2>4 DEF Operands
<1> QED BY <1>1, <1>2

LEMMA RangeSound == ASSUME FInv, run_list_range PROVE FNext
<1> DEFINE x == ListFrame(Tail(Top.todo))
           y == RangeFrame(Head(Top.todo), FALSE, FALSE, FALSE)
<1>1. /\ ctl.do = "range" /\ stack' = <<y, x>> \o Below /\ ctl' = Status(0)
      /\ UNCHANGED <<prog, input, last, flags, depths, traps, async>>
  BY DEF run_list_range
<1>2. stack # <<>> /\ Top.f = "list" /\ Top.todo # <<>>
  BY <1>1 DEF FInv, CInv, Control
<1>3. /\ Stacked(Below) /\ Kind(Top) /\ Sound(WaysOut, <<Top>> \o Below)
      /\ ~Trap(Top) /\ Top.f \notin Barrier /\ Top.f \notin {"cond", "body", "for"}
      /\ Trapped(stack) <=> Trapped(Below)
  BY <1>1, <1>2, Apart DEF Trap, Barrier
<1>4. Sound(WaysOut, Below) /\ Own(Top, Below)
  BY <1>3, OffPlain
<1>5. Top.todo \in Seq(Seq(OperandsOf(Nodes)))
      /\ \A i \in DOMAIN Top.todo : Operands(Top.todo[i], Below)
  BY <1>2, <1>3, <1>4 DEF Kind, Own
<1>6. /\ Operands(Head(Top.todo), Below)
      /\ \A i \in DOMAIN Tail(Top.todo) : Operands(Tail(Top.todo)[i], Below)
  BY <1>2, <1>5, Later
<1>7. Head(Top.todo) \in Seq(OperandsOf(Nodes))
      /\ Tail(Top.todo) \in Seq(Seq(OperandsOf(Nodes)))
  BY <1>2, <1>5, Parts
<1>8. x.f = "list" /\ x.todo = Tail(Top.todo) /\ y.f = "range" /\ y.todo = Head(Top.todo)
      /\ Fits(x, 0, 0, 0, 0)
  BY <1>7, Frames DEF ListFrame, RangeFrame
<1>9. <<y, x>> \o Below = <<y>> \o (<<x>> \o Below)
  BY <1>3, ConcatTwo DEF Stacked
<1> HIDE DEF x, y
<1>10. ~Trap(x) /\ ~Quiet(x) /\ x.f # "call" /\ ~Trap(y) /\ y.f # "call"
  BY <1>8 DEF Trap, Quiet
<1>11. Own(x, Below)
  BY <1>6, <1>8, <1>10 DEF Own
<1>12. Sound(WaysOut, <<x>> \o Below) /\ Stacked(<<x>> \o Below)
  <2>1. Placed(x, Below)
    BY <1>8 DEF Fits, Placed
  <2> QED BY <1>3, <1>4, <1>10, <1>11, <2>1, OnPush, Pushed
<1>13. Operands(Head(Top.todo), <<x>> \o Below)
  BY <1>3, <1>6, <1>10, OperandsOn
<1>14. Own(y, <<x>> \o Below)
  BY <1>8, <1>10, <1>13 DEF Own
<1>15. Trapped(<<x>> \o Below) \/ WaysOut = NoWayOut
  BY <1>1, <1>3, <1>10, Seen, Running
<1>16. Sound(WaysOut, stack')
  BY <1>1, <1>9, <1>10, <1>12, <1>14, <1>15, OnPush
<1>17. Going'
  BY <1>1 DEF Going, Status
<1> QED BY <1>1, <1>16, <1>17 DEF FInv, FNext, flags, depths, WaysOut

LEMMA ReadSound == ASSUME FInv, ReadPending PROVE FNext
<1>1. Going'
  BY DEF ReadPending, Going
<1> QED BY <1>1, Same DEF ReadPending, depths

LEMMA PendingSound == ASSUME MildTraps, FInv, run_pending_traps PROVE FNext
<1>1. /\ ctl.do = "pending"
      /\ UNCHANGED <<prog, input, last, flags, depths, traps, signals>>
  BY DEF run_pending_traps
<1>2. CASE ctl.sig = 0
  <2>1. ctl' = [do |-> "next", st |-> ctl.st] /\ stack' = stack
    BY <1>2 DEF run_pending_traps
  <2>2. Going'
    BY <2>1 DEF Going
  <2> QED BY <1>1, <2>1, <2>2, Same DEF depths
<1>3. CASE ctl.sig # 0
  <2> DEFINE x == StringFrame(Tail(prog.trap), "signal", last, ctl.st)
  <2>1. ctl' = Run(Head(prog.trap)) /\ stack' = <<x>> \o stack
    BY <1>3 DEF run_pending_traps, exec_string, Push
  <2>2. prog.trap # <<>> /\ prog.trap \in Seq(Mild) /\ ~Returns
    BY <1>1, <1>3 DEF FInv, CInv, Control, Given, MildTraps
  <2>3. Stacked(stack) /\ Sound(WaysOut, stack)
    BY DEF FInv, CInv
  <2>4. ~Owed(stack)
    <3>1. Owed(stack) => WaysOut.fr /\ Aimed(WaysOut, stack)
      BY <2>3 DEF Sound, Fit, Legal
    <3> QED BY <2>2, <3>1 DEF Aimed
  <2>5. "signal" \in Whys
    BY DEF Whys
  <2> HIDE DEF x
  <2>6. /\ Sound(WaysOut, <<x>> \o stack) /\ May(Head(prog.trap), <<x>> \o stack)
        /\ Trapped(<<x>> \o stack)
    BY <2>2, <2>3, <2>4, <2>5, TrapStarts DEF x
  <2>7. Going'
    BY <2>1, <2>6 DEF Going, Run
  <2> QED BY <1>1, <2>1, <2>6, <2>7 DEF FInv, FNext, flags, depths, WaysOut
<1> QED BY <1>2, <1>3

LEMMA NextRangeSound == ASSUME FInv, NextRange PROVE FNext
<1>1. /\ ctl.do = "next" /\ stack # <<>> /\ Top.f = "list"
      /\ UNCHANGED <<prog, input, flags, depths, traps, async>>
  BY DEF NextRange, FInv, CInv, Control
<1>2. CASE unwinding \/ Top.todo = <<>>
  <2>1. stack' = Below /\ ctl' = Status(ctl.st)
    BY <1>2 DEF NextRange, Pop
  <2>2. /\ Stacked(Below) /\ Sound(WaysOut, <<Top>> \o Below)
        /\ ~Trap(Top) /\ Top.f \notin Barrier /\ Top.f \notin {"cond", "body", "for"}
    BY <1>1, Apart DEF Trap, Barrier
  <2>3. Sound(WaysOut, Below)
    BY <2>2, OffPlain
  <2>4. Going'
    BY <2>1 DEF Going, Status
  <2> QED BY <1>1, <2>1, <2>3, <2>4 DEF FInv, FNext, flags, depths, WaysOut
<1>3. CASE ~(unwinding \/ Top.todo = <<>>)
  <2>1. ctl' = [do |-> "range", st |-> 0] /\ stack' = stack
    BY <1>3 DEF NextRange
  <2>2. Going'
    BY <1>1, <1>3, <2>1 DEF Going, flags, unwinding
  <2> QED BY <1>1, <2>1, <2>2, Same DEF depths
<1> QED BY <1>2, <1>3

-----------------------------------------------------------------------------
(* And-or ranges, set -e and pipelines.                                    *)

LEMMA OperandSound == ASSUME FInv, execute_range PROVE FNext
<1> DEFINE o == Head(Top.todo)
           run == should_execute(ctl.st, o.op)
           more == Len(Top.todo) > 1
           x == RangeFrame(Tail(Top.todo), run, run /\ more, o.negate)
<1>1. /\ ctl.do = "status" /\ stack # <<>> /\ Top.f = "range" /\ Top.todo # <<>>
      /\ stack' = <<x>> \o Below
      /\ ctl' = IF run THEN [do |-> "pipeline", cmd |-> o.cmd, negate |-> o.negate] ELSE ctl
      /\ UNCHANGED <<prog, input, flags, loop_depth, func_depth, trap_depth, traps, async>>
  BY DEF execute_range, Back, Replace
<1>2. /\ Stacked(Below) /\ Kind(Top) /\ Sound(WaysOut, <<Top>> \o Below)
      /\ ~Trap(Top) /\ Top.f \notin Barrier /\ Top.f \notin {"cond", "body", "for"}
      /\ Quiet(Top) /\ WaysOut \in Ways
  BY <1>1, Apart DEF Trap, Barrier, Quiet
<1>3. Sound(WaysOut, Below) /\ Own(Top, Below)
  BY <1>2, OffPlain
<1>4. Top.todo \in Seq(OperandsOf(Nodes)) /\ Operands(Top.todo, Below)
  BY <1>1, <1>2, <1>3 DEF Kind, Own
<1>5. /\ May(o.cmd, Below) /\ Operands(Tail(Top.todo), Below)
      /\ Tail(Top.todo) # <<>> => o.cmd \in Calm
  BY <1>1, <1>4, Later
<1>6. x.f = "range" /\ x.todo = Tail(Top.todo)
  BY DEF RangeFrame
<1> HIDE DEF x, o, run, more
<1>7. ~Trap(x) /\ x.f # "call" /\ (Quiet(x) <=> Tail(Top.todo) # <<>>)
  BY <1>6 DEF Trap, Quiet
<1>8. Own(x, Below)
  BY <1>5, <1>6, <1>7 DEF Own
<1>9. Trapped(Below) \/ WaysOut = NoWayOut
  BY <1>2, Hush
<1>10. Sound(WaysOut, <<x>> \o Below)
  BY <1>2, <1>3, <1>7, <1>8, <1>9, OnPush
<1>11. Trapped(<<x>> \o Below) \/ ~unwinding
  BY <1>2, <1>9, Seen, Unwinds
<1>12. May(o.cmd, <<x>> \o Below)
  <2>1. CASE Quiet(x)
    <3>1. o.cmd \in Calm /\ (Trapped(Below) => o.cmd \in Mild)
      BY <1>5, <1>7, <2>1 DEF May
    <3> QED BY <1>2, <1>7, <3>1, MayOn
  <2>2. CASE ~Quiet(x)
    BY <1>2, <1>5, <1>7, <2>2, MayOn
  <2> QED BY <2>1, <2>2
<1>13. Going'
  <2>1. ctl'.do = "status" \/ (ctl'.do = "pipeline" /\ ctl'.cmd = o.cmd)
    BY <1>1
  <2>2. unwinding' = unwinding
    BY <1>1 DEF flags, unwinding
  <2> QED BY <1>1, <1>11, <1>12, <2>1, <2>2 DEF Going
<1> QED BY <1>1, <1>10, <1>13 DEF FInv, FNext, flags, WaysOut

LEMMA RangeEndSound == ASSUME MildTraps, FInv, errexit_check PROVE FNext
<1> DEFINE st == ctl.st
<1>1. /\ ctl.do = "status" /\ stack # <<>> /\ Top.f = "range" /\ Top.todo = <<>>
      /\ UNCHANGED <<prog, input, flags, loop_depth, func_depth, errexit_off, async>>
  BY DEF errexit_check, Back
<1>2. /\ Stacked(Below) /\ Sound(WaysOut, <<Top>> \o Below)
      /\ ~Trap(Top) /\ Top.f \notin Barrier /\ Top.f \notin {"cond", "body", "for"}
      /\ (Trapped(stack) <=> Trapped(Below)) /\ WaysOut \in Ways
  BY <1>1, Apart DEF Trap, Barrier
<1>3. Sound(WaysOut, Below)
  BY <1>2, OffPlain
<1>4. CASE Pop /\ UNCHANGED <<ctl, traps, trap_depth>>
  <2>1. Going'
    BY <1>1, <1>4 DEF Going
  <2> QED BY <1>1, <1>3, <1>4, <2>1 DEF FInv, FNext, flags, WaysOut, Pop
<1>5. CASE ~errexit_ignores(st, Top) /\ exit_clean(st) /\ UNCHANGED trap_depth
  <2>1. WaysOut = NoWayOut
    BY <1>2, <1>5, Unwinds DEF errexit_ignores
  <2> QED BY <1>1, <1>5, <2>1, Left DEF flags, WaysOut
<1>6. CASE /\ ~errexit_ignores(st, Top)
           /\ stack' = <<StringFrame(Tail(prog.ERR), "ERR", last', st)>> \o Below
           /\ ctl' = Run(Head(prog.ERR))
  <2> DEFINE x == StringFrame(Tail(prog.ERR), "ERR", last', st)
  <2>1. WaysOut = NoWayOut
    BY <1>2, <1>6, Unwinds DEF errexit_ignores
  <2>2. prog.ERR # <<>> /\ prog.ERR \in Seq(Mild)
    BY ShellExecAssumption DEF FInv, CInv, Given, ScriptOf, MildTraps
  <2>3. stack' = <<x>> \o Below /\ "ERR" \in Whys
    BY <1>6 DEF Whys
  <2>4. ~Owed(Below)
    BY <1>3, <2>1, NoWay DEF Sound
  <2> HIDE DEF x
  <2>5. /\ Sound(WaysOut, <<x>> \o Below) /\ May(Head(prog.ERR), <<x>> \o Below)
        /\ Trapped(<<x>> \o Below)
    BY <1>2, <1>3, <2>1, <2>2, <2>3, <2>4, TrapStarts DEF x
  <2>6. Going'
    BY <1>6, <2>3, <2>5 DEF Going, Run
  <2> QED BY <1>1, <2>3, <2>5, <2>6 DEF FInv, FNext, flags, WaysOut
<1> QED BY <1>4, <1>5, <1>6 DEF errexit_check

LEMMA PipelineSound == ASSUME FInv, pipeline_single PROVE FNext
<1>1. /\ ctl.do = "pipeline" /\ ctl' = Run(ctl.cmd)
      /\ UNCHANGED <<prog, input, last, flags, loop_depth, func_depth, trap_depth,
                     traps, async>>
  BY DEF pipeline_single
<1>2. May(ctl.cmd, stack) /\ (Trapped(stack) \/ ~unwinding) /\ Stacked(stack)
      /\ Sound(WaysOut, stack) /\ loop_depth \in Nat /\ unwinding' = unwinding
  BY <1>1 DEF FInv, CInv, Going, flags, unwinding
<1>3. CASE ctl.negate
  <2>1. stack' = <<NotFrame>> \o stack
    BY <1>3 DEF pipeline_single, Push
  <2>2. NotFrame.f = "not"
    BY DEF NotFrame
  <2>3. ~Trap(NotFrame) /\ ~Quiet(NotFrame) /\ NotFrame.f # "call" /\ Own(NotFrame, stack)
    BY <2>2 DEF Trap, Quiet, Own
  <2>4. Sound(WaysOut, <<NotFrame>> \o stack)
    BY <1>2, <2>3, OnPush
  <2>5. May(ctl.cmd, <<NotFrame>> \o stack)
    BY <1>2, <2>3, MayOn
  <2>6. Trapped(<<NotFrame>> \o stack) <=> Trapped(stack)
    BY <1>2, <2>3, Seen
  <2>7. Going'
    BY <1>1, <1>2, <2>1, <2>5, <2>6 DEF Going, Run
  <2> QED BY <1>1, <1>2, <2>1, <2>4, <2>7 DEF FNext, flags, WaysOut
<1>4. CASE ~ctl.negate
  <2>1. stack' = stack
    BY <1>4 DEF pipeline_single
  <2>2. Going'
    BY <1>1, <1>2, <2>1 DEF Going, Run
  <2> QED BY <1>1, <2>1, <2>2, Same
<1> QED BY <1>3, <1>4

LEMMA NegateSound == ASSUME FInv, negate_status PROVE FNext
<1>1. /\ ctl.do = "status" /\ stack # <<>> /\ Top.f = "not" /\ stack' = Below
      /\ ctl'.do = "status"
      /\ UNCHANGED <<prog, input, last, flags, loop_depth, func_depth, trap_depth,
                     traps, async>>
  BY DEF negate_status, Back, Pop, Status
<1>2. /\ Stacked(Below) /\ Sound(WaysOut, <<Top>> \o Below)
      /\ ~Trap(Top) /\ Top.f \notin Barrier /\ Top.f \notin {"cond", "body", "for"}
  BY <1>1, Apart DEF Trap, Barrier
<1>3. Sound(WaysOut, Below)
  BY <1>2, OffPlain
<1>4. Going'
  BY <1>1 DEF Going
<1> QED BY <1>1, <1>3, <1>4 DEF FInv, FNext, flags, WaysOut

-----------------------------------------------------------------------------
(* Simple commands.                                                        *)

LEMMA PlainSound == ASSUME FInv, ext \/ ok \/ set_one_trap PROVE FNext
<1>1. ctl'.do = "status" /\ UNCHANGED <<stack, flags, loop_depth>>
  BY DEF ext, ok, set_one_trap, Command, Status, depths
<1>2. Going'
  BY <1>1 DEF Going
<1> QED BY <1>1, <1>2, Same

(* Break, continue, return, exit and call stand in no trap body, break and *)
(* continue under nothing quiet, and return only in a call of its own.     *)
LEMMA Where ==
  ASSUME FInv, ctl.do = "run", ctl.node.k = "cmd"
  PROVE  /\ ctl.node \in Nodes /\ ctl.node.n \in Int /\ Sound(WaysOut, stack)
         /\ Stacked(stack) /\ loop_depth \in Nat
         /\ ctl.node.word \in {"break", "continue", "return", "exit", "call"} =>
              ~Trapped(stack) /\ Legal(WaysOut, stack) /\ WaysOut = NoWayOut
         /\ ctl.node.word \in {"break", "continue"} => ~Hushed(stack)
         /\ ctl.node.word = "return" => ~Hushed(stack) \/ Open(stack)
         /\ ctl.node.word = "call" /\ Hushed(stack) => Contained
<1>1. /\ ctl.node \in Nodes /\ Sound(WaysOut, stack) /\ Stacked(stack) /\ loop_depth \in Nat
      /\ May(ctl.node, stack)
  BY DEF FInv, CInv, Control, Going
<1>2. ctl.node.n \in Int
  BY <1>1, ShellExecAssumption DEF Parsed
<1>3. ctl.node \in Mild => ctl.node.word \in {"ext", "ok"}
  BY TameParts DEF Mild
<1>4. ctl.node \in Calm => ctl.node.word \in Calling
  BY TameParts DEF Calm
<1>5. ctl.node \in Steady => ctl.node.word \in Calling \cup {"return"}
  BY TameParts DEF Steady
<1>6. ASSUME ctl.node.word \in {"break", "continue", "return", "exit", "call"}
      PROVE  ~Trapped(stack) /\ Legal(WaysOut, stack) /\ WaysOut = NoWayOut
  <2>1. ~Trapped(stack)
    BY <1>1, <1>3, <1>6 DEF May
  <2> QED BY <1>1, <2>1, Running DEF Sound, Fit
<1>7. "break" \notin Calling /\ "continue" \notin Calling /\ "return" \notin Calling
  BY DEF Calling, Words
<1>8. "call" \in Calling => Contained
  BY DEF Calling, Words
<1> QED BY <1>1, <1>2, <1>4, <1>5, <1>6, <1>7, <1>8 DEF May

(* No trap, no exit: loop_depth is the number of loops there are.          *)
LEMMA DepthIs ==
  ASSUME FInv, ctl.do # "gone", ~Trapped(stack)
  PROVE  loop_depth = LoopsOn(stack) /\ func_depth = CallsOn(stack)
<1>1. ~InExit(stack)
  BY DEF InExit, Positions, Trapped, Trap
<1> QED BY <1>1 DEF FInv, CInv, CountersPaired, InExit

LEMMA BreakSound == ASSUME FInv, builtin_break \/ builtin_continue PROVE FNext
<1>1. /\ ctl.do = "run" /\ ctl.node.k = "cmd" /\ ctl.node.word \in {"break", "continue"}
      /\ ctl'.do = "status" /\ stack' = stack /\ loop_depth' = loop_depth
      /\ func_return' = func_return
  BY DEF builtin_break, builtin_continue, Command, Status, depths
<1>2. /\ arg \in Int /\ Sound(WaysOut, stack) /\ ~Trapped(stack) /\ ~Hushed(stack)
      /\ Legal(WaysOut, stack) /\ WaysOut = NoWayOut /\ loop_depth \in Nat
  BY <1>1, Where DEF arg
<1>3. func_return = FALSE /\ loop_break = 0 /\ loop_continue = 0
  BY <1>2, Unwinds, NoWay
<1>4. /\ loop_break' \in Nat /\ loop_break' <= loop_depth
      /\ loop_continue' \in Nat /\ loop_continue' <= loop_depth
      /\ loop_break' = 0 \/ loop_continue' = 0
  <2>1. Lesser(arg, loop_depth) \in Int /\ Lesser(arg, loop_depth) <= loop_depth
        /\ (arg >= 1 => Lesser(arg, loop_depth) \in Nat)
    BY <1>2 DEF Lesser
  <2>2. CASE builtin_break
    BY <1>2, <1>3, <2>1, <2>2 DEF builtin_break
  <2>3. CASE builtin_continue
    BY <1>2, <1>3, <2>1, <2>3 DEF builtin_continue
  <2> QED BY <2>2, <2>3
<1>5. /\ WaysOut' \in Ways /\ WaysOut'.lb = loop_break' /\ WaysOut'.lc = loop_continue'
      /\ WaysOut'.fr = FALSE
  BY <1>1, <1>3, <1>4, Ahead
<1>6. loop_depth = LoopsOn(stack)
  BY <1>1, <1>2, DepthIs
<1>7. Legal(WaysOut', stack)
  BY <1>2, <1>4, <1>5, <1>6 DEF Legal, Aimed
<1>8. Sound(WaysOut', stack)
  BY <1>2, <1>7, NoWay DEF Sound, Fit
<1>9. Going'
  BY <1>1 DEF Going
<1> QED BY <1>1, <1>2, <1>8, <1>9 DEF FNext

(* A set of numbers has a least one.                                       *)
LEMMA Least ==
  ASSUME NEW S \in SUBSET Nat, S # {}
  PROVE  \E k \in S : \A j \in S : k <= j
<1>1. IsWellFoundedOn(OpToRel(<, Nat), Nat)
  BY NatLessThanWellFounded
<1>2. PICK k \in S : \A j \in S : ~(<<j, k>> \in OpToRel(<, Nat))
  BY <1>1, WFMin, Zenon
<1>3. \A j \in S : ~(j < k)
  BY <1>2 DEF OpToRel
<1> QED BY <1>3

(* Whether a call has returned is all that two stacks differ in.           *)
Alike(s, t) ==
  /\ DOMAIN t = DOMAIN s
  /\ \A i \in DOMAIN s : t[i].f = s[i].f /\ (s[i].f # "call" => t[i] = s[i])

LEMMA AlikeViews ==
  ASSUME NEW s, NEW t, Alike(s, t), NEW m \in Int, DOMAIN s = 1 .. m
  PROVE  /\ (Trapped(t) <=> Trapped(s)) /\ (Hushed(t) <=> Hushed(s)) /\ (Open(t) <=> Open(s))
         /\ \A n : May(n, t) <=> May(n, s)
         /\ \A r : Operands(r, t) <=> Operands(r, s)
         /\ LoopsOn(t) = LoopsOn(s) /\ CallsOn(t) = CallsOn(s)
<1>1. DOMAIN t = 1 .. m
  BY DEF Alike
<1>2. \A i \in 1 .. m : /\ t[i].f = s[i].f /\ (Trap(t[i]) <=> Trap(s[i]))
                        /\ Quiet(t[i]) <=> Quiet(s[i])
  BY DEF Alike, Trap, Quiet
<1>3. \A i \in 1 .. m : \A j \in 1 .. i : j \in 1 .. m
  OBVIOUS
<1>4. Trapped(t) <=> Trapped(s)
  BY <1>1, <1>2 DEF Trapped
<1>5. Hushed(t) <=> Hushed(s)
  BY <1>1, <1>2 DEF Hushed
<1>6. Open(t) <=> Open(s)
  <2>1. Open(t) <=> \E i \in 1 .. m : t[i].f = "call" /\ \A j \in 1 .. i : ~Quiet(t[j])
    BY <1>1 DEF Open
  <2>2. Open(s) <=> \E i \in 1 .. m : s[i].f = "call" /\ \A j \in 1 .. i : ~Quiet(s[j])
    BY DEF Open
  <2>3. \A i \in 1 .. m : (\A j \in 1 .. i : ~Quiet(t[j])) <=> (\A j \in 1 .. i : ~Quiet(s[j]))
    BY <1>2, <1>3
  <2> QED BY <1>2, <2>1, <2>2, <2>3
<1>7. \A n : May(n, t) <=> May(n, s)
  BY <1>4, <1>5, <1>6 DEF May
<1>8. \A r : Operands(r, t) <=> Operands(r, s)
  BY <1>7 DEF Operands
<1>9. \A K : Positions(t, K) = Positions(s, K)
  BY <1>1, <1>2 DEF Positions
<1> QED BY <1>4, <1>5, <1>6, <1>7, <1>8, <1>9 DEF LoopsOn, CallsOn

Innermost(s) == CHOOSE i \in Positions(s, {"call", "string"}) :
                  \A j \in Positions(s, {"call", "string"}) : i <= j

LEMMA Answered ==
  ASSUME NEW x, Kind(x), x.f = "call", NEW y, y = [x EXCEPT !.returned = TRUE]
  PROVE  y = [f |-> "call", saved |-> x.saved, returned |-> TRUE]
<1> DEFINE a == x.saved
           b == x.returned
<1>1. x = [f |-> "call", saved |-> a, returned |-> b]
  BY DEF Kind
<1> HIDE DEF a, b
<1>2. y = [f |-> "call", saved |-> a, returned |-> TRUE]
  BY <1>1
<1> QED BY <1>2 DEF a

(* The innermost call returns: its flag is what it owes.  No cleanup is    *)
(* above it, for there return may not stand.                               *)
LEMMA CallReturns ==
  ASSUME NEW s, Stacked(s), Owned(s), Hushed(s) => Open(s), CallsOn(s) > 0, NEW k,
         k = Innermost(s), s[k].f = "call", NEW t, t = [s EXCEPT ![k].returned = TRUE]
  PROVE  Alike(s, t) /\ Owned(t)
<1> DEFINE n == Len(s)
           ends == Positions(s, {"call", "string"})
<1>1. n \in Nat /\ DOMAIN s = 1 .. n
  BY LenProperties DEF Stacked
<1>2. \E c \in DOMAIN s : s[c].f = "call" /\ \A j \in 1 .. c : ~Quiet(s[j])
  <2>1. CASE Open(s)
    BY <2>1 DEF Open
  <2>2. CASE ~Hushed(s)
    <3>1. Positions(s, {"call"}) # {}
      <4>1. Positions(s, {"call"}) = {} => CallsOn(s) = 0
        BY FS_EmptySet DEF CallsOn
      <4> QED BY <4>1
    <3>2. PICK c \in DOMAIN s : s[c].f = "call"
      BY <3>1 DEF Positions
    <3>3. \A j \in 1 .. c : j \in DOMAIN s
      BY <1>1
    <3> QED BY <2>2, <3>2, <3>3 DEF Hushed
  <2> QED BY <2>1, <2>2
<1>3. PICK c \in DOMAIN s : s[c].f = "call" /\ \A j \in 1 .. c : ~Quiet(s[j])
  BY <1>2
<1>4. k \in ends /\ \A j \in ends : k <= j
  <2>1. ends \in SUBSET Nat /\ ends # {}
    BY <1>1, <1>3 DEF Positions
  <2> HIDE DEF ends
  <2>2. \E i \in ends : \A j \in ends : i <= j
    BY <2>1, Least
  <2>3. k = CHOOSE i \in ends : \A j \in ends : i <= j
    BY DEF ends, Innermost
  <2> QED BY <2>2, <2>3
<1>5. k \in 1 .. n /\ k <= c /\ c \in 1 .. n
  BY <1>1, <1>3, <1>4 DEF Positions
<1>6. \A i \in 1 .. n : i < k => s[i].f \notin {"call", "string", "cleanup"}
  <2> SUFFICES ASSUME NEW i \in 1 .. n, i < k PROVE s[i].f \notin {"call", "string", "cleanup"}
    OBVIOUS
  <2>1. i \notin ends
    BY <1>4, <1>5
  <2>2. ~Quiet(s[i])
    BY <1>3, <1>5
  <2> QED BY <1>1, <2>1, <2>2 DEF Positions, Quiet
<1> HIDE DEF n, ends
<1>7. Kind(s[k])
  BY <1>1, <1>5 DEF Stacked
<1>8. /\ DOMAIN t = 1 .. n
      /\ t[k] = [f |-> "call", saved |-> s[k].saved, returned |-> TRUE]
      /\ \A i \in 1 .. n : i # k => t[i] = s[i]
  <2>1. t[k] = [s[k] EXCEPT !.returned = TRUE] /\ DOMAIN t = 1 .. n
        /\ \A i \in 1 .. n : i # k => t[i] = s[i]
    BY <1>1, <1>5
  <2> QED BY <1>7, <2>1, Answered
<1>9. Alike(s, t)
  BY <1>1, <1>5, <1>8 DEF Alike
<1>10. Len(t) = n
  <2>1. t \in Seq(Elems(t))
    <3>1. t \in [1 .. n -> Elems(t)]
      <4>1. \A i \in 1 .. n : t[i] \in Elems(t)
        BY <1>8 DEF Elems
      <4>2. t = [i \in 1 .. n |-> t[i]]
        BY <1>1, <1>8
      <4> QED BY <4>1, <4>2
    <3> QED BY <1>1, <3>1, Listed
  <2> QED BY <1>1, <1>8, <2>1, LenProperties
<1>11. ASSUME NEW i \in 1 .. n PROVE Own(t[i], Under(t, i))
  <2> DEFINE u == Under(s, i)
             v == Under(t, i)
  <2>1. /\ u = [j \in 1 .. n - i |-> s[i + j]] /\ v = [j \in 1 .. n - i |-> t[i + j]]
        /\ \A j \in 1 .. n - i : i + j \in 1 .. n
    BY <1>1, <1>10 DEF Under, n
  <2>2. Own(s[i], u)
    BY <1>1 DEF Owned
  <2>3. CASE i < k
    <3>1. Alike(u, v) /\ n - i \in Int /\ DOMAIN u = 1 .. n - i
      <4>1. DOMAIN u = 1 .. n - i /\ DOMAIN v = 1 .. n - i /\ n - i \in Int
        BY <1>1, <2>1
      <4>2. ASSUME NEW j \in 1 .. n - i
            PROVE  v[j].f = u[j].f /\ (u[j].f # "call" => v[j] = u[j])
        <5>1. u[j] = s[i + j] /\ v[j] = t[i + j] /\ i + j \in DOMAIN s
          BY <1>1, <2>1
        <5> HIDE DEF u, v
        <5> QED BY <1>9, <5>1 DEF Alike
      <4> HIDE DEF u, v
      <4> QED BY <4>1, <4>2 DEF Alike
    <3>2. t[i] = s[i] /\ s[i].f \notin {"call", "string", "cleanup"}
      BY <1>6, <1>8, <2>3
    <3> HIDE DEF u, v
    <3>3. /\ (Trapped(v) <=> Trapped(u)) /\ (\A m : May(m, v) <=> May(m, u))
          /\ \A r : Operands(r, v) <=> Operands(r, u)
      BY <3>1, AlikeViews
    <3>4. Own(s[i], v)
      BY <2>2, <3>2, <3>3 DEF Own, Trap
    <3> QED BY <3>2, <3>4 DEF v
  <2>4. CASE i >= k
    <3>1. \A j \in 1 .. n - i : t[i + j] = s[i + j]
      <4> TAKE j \in 1 .. n - i
      <4>1. i + j \in 1 .. n
        BY <2>1
      <4>2. i \in Int /\ j \in Int /\ k \in Int /\ i >= k /\ j >= 1
        BY <1>1, <1>5, <2>4
      <4>3. i + j # k
        BY <4>2
      <4> QED BY <1>8, <4>1, <4>3
    <3>2. v = u
      BY <2>1, <3>1
    <3> HIDE DEF u, v
    <3>3. CASE i = k
      <4>1. t[i].f = "call" /\ s[i].f = "call"
        BY <1>8, <3>3
      <4> QED BY <2>2, <3>2, <4>1 DEF Own, Trap, v
    <3>4. CASE i # k
      BY <1>8, <2>2, <3>2, <3>4 DEF v
    <3> QED BY <3>3, <3>4
  <2> QED BY <1>5, <2>3, <2>4
<1> QED BY <1>8, <1>9, <1>11 DEF Owned

LEMMA ReturnSound == ASSUME MildTraps, FInv, builtin_return PROVE FNext
<1>1. /\ ctl.do = "run" /\ ctl.node.k = "cmd" /\ ctl.node.word = "return"
      /\ UNCHANGED <<prog, input, last, loop_break, loop_continue, depths, async>>
  BY DEF builtin_return, Command
<1>2. /\ Sound(WaysOut, stack) /\ Stacked(stack) /\ ~Trapped(stack)
      /\ Legal(WaysOut, stack) /\ WaysOut = NoWayOut /\ loop_depth' \in Nat
      /\ (Hushed(stack) => Open(stack)) /\ Returns
  BY <1>1, Where DEF depths, Returns
<1>3. func_return = FALSE /\ loop_break = 0 /\ loop_continue = 0
  BY <1>2, Unwinds, NoWay
<1>4. CASE func_depth > 0
  <2>1. /\ func_return' = TRUE /\ ctl'.do = "status" /\ stack' = Returning
    BY <1>4 DEF builtin_return, Status
  <2>2. CallsOn(stack) > 0
    BY <1>1, <1>2, <1>4, DepthIs
  <2> DEFINE k == Innermost(stack)
             t == [stack EXCEPT ![k].returned = TRUE]
  <2>3. stack' = IF stack[k].f = "call" THEN t ELSE stack
    BY <2>1 DEF Returning, Innermost
  <2>4. Alike(stack, stack') /\ Owned(stack')
    <3>1. CASE stack[k].f = "call"
      BY <1>2, <2>2, <2>3, <3>1, CallReturns DEF Sound
    <3>2. CASE stack[k].f # "call"
      BY <1>2, <2>3, <3>2 DEF Sound, Alike
    <3> QED BY <3>1, <3>2
  <2> HIDE DEF k, t
  <2>5. Len(stack) \in Int /\ DOMAIN stack = 1 .. Len(stack)
    BY <1>2, LenProperties DEF Stacked
  <2>6. /\ ~Trapped(stack') /\ Open(stack') /\ CallsOn(stack') > 0
        /\ LoopsOn(stack') = LoopsOn(stack)
    <3>1. Open(stack)
      <4>1. Positions(stack, {"call"}) # {}
        <5>1. Positions(stack, {"call"}) = {} => CallsOn(stack) = 0
          BY FS_EmptySet DEF CallsOn
        <5> QED BY <2>2, <5>1
      <4>2. PICK c \in DOMAIN stack : stack[c].f = "call"
        BY <4>1 DEF Positions
      <4>3. \A j \in 1 .. c : j \in DOMAIN stack
        BY <2>5
      <4> QED BY <1>2, <4>2, <4>3 DEF Hushed, Open
    <3> QED BY <1>2, <2>2, <2>4, <2>5, <3>1, AlikeViews
  <2>7. LoopsOn(stack) \in Nat
    BY <1>2, Counted DEF Stacked
  <2>8. /\ WaysOut' \in Ways /\ WaysOut'.fr = TRUE /\ WaysOut'.lb = 0 /\ WaysOut'.lc = 0
    BY <1>1, <1>3, <2>1, Ahead
  <2>9. Legal(WaysOut', stack')
    BY <1>2, <2>6, <2>7, <2>8 DEF Legal, Aimed
  <2>10. Sound(WaysOut', stack')
    BY <2>4, <2>6, <2>8, <2>9 DEF Sound, Fit
  <2>11. Going'
    BY <2>1 DEF Going
  <2> QED BY <1>2, <2>10, <2>11 DEF FNext
<1>5. CASE ~(func_depth > 0) /\ Interactive
  <2>1. ctl'.do = "status" /\ UNCHANGED <<func_return, stack>>
    BY <1>5 DEF builtin_return, Status
  <2>2. Going'
    BY <2>1 DEF Going
  <2> QED BY <1>1, <2>1, <2>2, Same DEF flags, depths
<1>6. CASE ~(func_depth > 0) /\ ~Interactive
  BY <1>1, <1>2, <1>6, Left DEF builtin_return, WaysOut, depths
<1> QED BY <1>4, <1>5, <1>6

LEMMA ExitSound == ASSUME MildTraps, FInv, builtin_exit PROVE FNext
<1>1. /\ exit_clean(arg) /\ ctl.do = "run" /\ ctl.node.k = "cmd" /\ ctl.node.word = "exit"
      /\ UNCHANGED <<prog, input, last, flags, depths, async>>
  BY DEF builtin_exit, Command
<1>2. WaysOut = NoWayOut
  BY <1>1, Where
<1> QED BY <1>1, <1>2, Left DEF WaysOut, flags, depths

LEMMA EvalSound == ASSUME Orderly, FInv, builtin_eval PROVE FNext
<1> DEFINE x == StringFrame(Tail(ctl.node.body), "eval", last, 0)
<1>1. /\ ctl.do = "run" /\ ctl.node.k = "eval" /\ stack' = <<x>> \o stack
      /\ ctl' = Run(Head(ctl.node.body))
      /\ UNCHANGED <<prog, input, last, flags, depths, traps, async>>
  BY DEF builtin_eval, exec_string, Push
<1>2. /\ ctl.node \in Nodes /\ May(ctl.node, stack) /\ Stacked(stack)
      /\ Sound(WaysOut, stack) /\ loop_depth \in Nat
  BY <1>1 DEF FInv, CInv, Control, Going
<1>3. ~Trapped(stack) /\ \A i \in DOMAIN ctl.node.body : May(ctl.node.body[i], stack)
  BY <1>1, <1>2, MayParts
<1>4. ctl.node.body \in Seq(Nodes) /\ ctl.node.body # <<>>
  BY <1>1, <1>2, ShellExecAssumption DEF Parsed
<1>5. /\ May(Head(ctl.node.body), stack)
      /\ \A i \in DOMAIN Tail(ctl.node.body) : May(Tail(ctl.node.body)[i], stack)
  <2>1. /\ 1 \in DOMAIN ctl.node.body /\ Head(ctl.node.body) = ctl.node.body[1]
        /\ \A i \in DOMAIN Tail(ctl.node.body) :
             i + 1 \in DOMAIN ctl.node.body /\ Tail(ctl.node.body)[i] = ctl.node.body[i + 1]
    BY <1>4, Rest
  <2> QED BY <1>3, <2>1
<1>6. WaysOut = NoWayOut
  BY <1>1, <1>3, Running
<1>7. /\ x.f = "string" /\ x.why = "eval" /\ x.todo = Tail(ctl.node.body)
      /\ x.held = NoWayOut
  BY <1>6 DEF StringFrame
<1> HIDE DEF x
<1>8. ~Trap(x) /\ ~Quiet(x) /\ x.f # "call"
  BY <1>7 DEF Trap, Quiet
<1>9. ~Owed(stack)
  BY <1>2, <1>6, NoWay DEF Sound
<1>10. Own(x, stack)
  BY <1>3, <1>5, <1>7, <1>8, <1>9 DEF Own
<1>11. Sound(WaysOut, <<x>> \o stack)
  BY <1>2, <1>8, <1>10, OnPush
<1>12. May(Head(ctl.node.body), <<x>> \o stack)
  BY <1>2, <1>5, <1>8, MayOn
<1>13. ~unwinding'
  BY <1>1, <1>6, Typed, Unwinds DEF flags, unwinding
<1>14. Going'
  BY <1>1, <1>12, <1>13 DEF Going, Run
<1> QED BY <1>1, <1>2, <1>11, <1>14 DEF FNext, flags, depths, WaysOut

-----------------------------------------------------------------------------
(* Loops and if.                                                           *)

LEMMA WhileSound == ASSUME Orderly, FInv, execute_while PROVE FNext
<1> DEFINE x == CondFrame(ctl.node, 0)
<1>1. /\ ctl.do = "run" /\ ctl.node.k = "loop" /\ stack' = <<x>> \o stack
      /\ ctl' = Run(ctl.node.cond) /\ loop_depth' = loop_depth + 1
      /\ UNCHANGED <<prog, input, last, flags, func_depth, trap_depth, traps, async>>
  BY DEF execute_while, Compound, Push
<1>2. /\ ctl.node \in Nodes /\ May(ctl.node, stack) /\ Stacked(stack)
      /\ Sound(WaysOut, stack) /\ loop_depth \in Nat
  BY <1>1 DEF FInv, CInv, Control, Going
<1>3. ~Trapped(stack) /\ ctl.node.cond \in Calm
  BY <1>1, <1>2, MayParts
<1>4. WaysOut = NoWayOut
  BY <1>1, <1>3, Running
<1>5. x.f = "cond" /\ x.node = ctl.node
  BY DEF CondFrame
<1> HIDE DEF x
<1>6. ~Trap(x) /\ x.f # "call" /\ Own(x, stack)
  BY <1>2, <1>3, <1>5 DEF Trap, Own
<1>7. Sound(WaysOut, <<x>> \o stack)
  BY <1>2, <1>4, <1>6, OnPush
<1>8. May(ctl.node.cond, <<x>> \o stack)
  BY <1>2, <1>3, <1>6, MayOn
<1>9. ~unwinding'
  BY <1>1, <1>4, Typed, Unwinds DEF flags, unwinding
<1>10. Going'
  BY <1>1, <1>8, <1>9 DEF Going, Run
<1> QED BY <1>1, <1>2, <1>7, <1>10 DEF FNext, flags, WaysOut

(* A frame of a loop is on top: it is one of the loops that are counted.   *)
LEMMA InLoop ==
  ASSUME FInv, ctl.do # "gone", stack # <<>>, Top.f \in {"cond", "body", "for"}
  PROVE  /\ Stacked(Below) /\ Sound(WaysOut, <<Top>> \o Below) /\ Kind(Top) /\ Own(Top, Below)
         /\ ~Trap(Top) /\ Top.f \notin Barrier /\ ~Trapped(Below) /\ ~Trapped(stack)
         /\ LoopsOn(Below) \in Nat /\ loop_depth = LoopsOn(Below) + 1
         /\ Legal(WaysOut, <<Top>> \o Below) /\ WaysOut \in Ways
         /\ loop_break \in Nat /\ loop_break <= LoopsOn(Below) + 1
         /\ loop_continue \in Nat /\ loop_continue <= LoopsOn(Below) + 1
<1>1. /\ stack = <<Top>> \o Below /\ Stacked(Below) /\ Kind(Top)
      /\ Sound(WaysOut, <<Top>> \o Below) /\ WaysOut \in Ways
      /\ Trapped(stack) <=> Trap(Top) \/ Trapped(Below)
  BY Apart
<1>2. ~Trap(Top) /\ Top.f \notin Barrier
  BY DEF Trap, Barrier
<1>3. Own(Top, Below)
  BY <1>1, Seen DEF Sound
<1>4. ~Trapped(Below) /\ ~Trapped(stack)
  BY <1>1, <1>2, <1>3 DEF Own
<1>5. /\ LoopsOn(<<Top>> \o Below) = LoopsOn(Below) + 1 /\ LoopsOn(Below) \in Nat
      /\ loop_depth = LoopsOn(Below) + 1
  <2>1. loop_depth = LoopsOn(stack)
    BY <1>4, DepthIs
  <2>2. LoopsOn(<<Top>> \o Below) = LoopsOn(Below) + 1 /\ LoopsOn(Below) \in Nat
    BY <1>1, Heights DEF Loops
  <2> QED BY <1>1, <2>1, <2>2
<1>6. Legal(WaysOut, <<Top>> \o Below)
  BY <1>1, <1>4 DEF Sound, Fit
<1>7. /\ loop_break \in Nat /\ loop_break <= LoopsOn(Below) + 1
      /\ loop_continue \in Nat /\ loop_continue <= LoopsOn(Below) + 1
  BY <1>1, <1>5, <1>6, Unwinds DEF Legal, Aimed
<1> QED BY <1>1, <1>2, <1>3, <1>4, <1>5, <1>6, <1>7

(* The loop goes on: nothing is on its way out.                            *)
LEMMA LoopRuns ==
  ASSUME Stacked(Below), ~Trapped(Below), Sound(WaysOut', Below), WaysOut' = NoWayOut,
         NEW x, Own(x, Below), ~Trap(x), x.f # "call", stack' = <<x>> \o Below,
         NEW n \in Nodes, ctl' = Run(n), May(n, <<x>> \o Below), loop_depth' \in Nat
  PROVE  FNext
<1>1. Sound(WaysOut', <<x>> \o Below)
  BY OnPush
<1>2. ~unwinding'
  BY NoWay DEF WaysOut, unwinding
<1>3. Going'
  BY <1>2 DEF Going, Run
<1> QED BY <1>1, <1>3 DEF FNext

LEMMA ConditionSound == ASSUME Orderly, FInv, LoopCondition PROVE FNext
<1> DEFINE go == (ctl.st = 0) # Top.node.until
<1>1. /\ ctl.do = "status" /\ stack # <<>> /\ Top.f = "cond"
      /\ UNCHANGED <<prog, input, last, flags, func_depth, trap_depth, traps, async>>
  BY DEF LoopCondition, Back
<1>2. /\ Stacked(Below) /\ Sound(WaysOut, <<Top>> \o Below) /\ Kind(Top) /\ Own(Top, Below)
      /\ ~Trap(Top) /\ Top.f \notin Barrier /\ ~Trapped(Below)
      /\ LoopsOn(Below) \in Nat /\ loop_depth = LoopsOn(Below) + 1
  BY <1>1, InLoop
<1>3. WaysOut = NoWayOut
  BY <1>1, <1>2, Hush DEF Quiet
<1>4. Sound(WaysOut, Below)
  <2>1. WaysOut \in Ways /\ WaysOut.lb <= WaysOut.lb /\ WaysOut.lc <= WaysOut.lc
        /\ WaysOut.lb <= LoopsOn(Below) /\ WaysOut.lc <= LoopsOn(Below)
    BY <1>2, <1>3, NoWay
  <2> QED BY <1>2, <2>1, Off
<1>5. WaysOut' = WaysOut
  BY <1>1 DEF flags, WaysOut
<1>6. Top.node \in Nodes /\ Top.node.k = "loop" /\ May(Top.node, Below)
  BY <1>1, <1>2 DEF Kind, Own
<1>7. Top.node.body \in Nodes /\ May(Top.node.body, Below)
  BY <1>6, MayParts, ShellExecAssumption DEF Parsed
<1>8. CASE go
  <2> DEFINE x == BodyFrame(Top.node)
  <2>1. stack' = <<x>> \o Below /\ ctl' = Run(Top.node.body) /\ loop_depth' = loop_depth
    BY <1>8 DEF LoopCondition, Replace
  <2>2. x.f = "body" /\ x.node = Top.node
    BY DEF BodyFrame
  <2> HIDE DEF x
  <2>3. ~Trap(x) /\ ~Quiet(x) /\ x.f # "call" /\ Own(x, Below)
    BY <1>2, <1>6, <2>2 DEF Trap, Quiet, Own
  <2>4. May(Top.node.body, <<x>> \o Below)
    BY <1>2, <1>7, <2>3, MayOn
  <2>5. loop_depth' \in Nat
    BY <1>2, <2>1
  <2> QED BY <1>2, <1>3, <1>4, <1>5, <1>7, <2>1, <2>3, <2>4, <2>5, LoopRuns
<1>9. CASE ~go
  <2>1. stack' = Below /\ ctl'.do = "status" /\ loop_depth' = loop_depth - 1
    BY <1>9 DEF LoopCondition, Pop, Status
  <2>2. Going'
    BY <2>1 DEF Going
  <2> QED BY <1>2, <1>4, <1>5, <2>1, <2>2 DEF FNext
<1> QED BY <1>8, <1>9

(* handle_loop_ctl uses up one level, and goes on only if nothing is left. *)
LEMMA LoopEnds ==
  ASSUME FInv, ctl.do # "gone", stack # <<>>, Top.f \in {"body", "for"}, NEW stops \in BOOLEAN,
         handle_loop_ctl(stops), UNCHANGED func_return
  PROVE  Sound(WaysOut', Below) /\ (~stops => WaysOut' = NoWayOut)
<1>1. /\ Stacked(Below) /\ Sound(WaysOut, <<Top>> \o Below) /\ ~Trapped(Below)
      /\ ~Trap(Top) /\ Top.f \notin Barrier /\ Legal(WaysOut, <<Top>> \o Below)
      /\ LoopsOn(Below) \in Nat /\ WaysOut \in Ways
      /\ loop_break \in Nat /\ loop_break <= LoopsOn(Below) + 1
      /\ loop_continue \in Nat /\ loop_continue <= LoopsOn(Below) + 1
  BY InLoop
<1>2. /\ func_return \in BOOLEAN /\ WaysOut.fr = func_return
      /\ WaysOut.lb = loop_break /\ WaysOut.lc = loop_continue
  BY <1>1, Unwinds
<1>3. loop_break = 0 \/ loop_continue = 0
  BY <1>1, <1>2 DEF Legal
<1>4. /\ loop_break' \in Nat /\ loop_break' <= loop_break /\ loop_break' <= LoopsOn(Below)
      /\ loop_continue' \in Nat /\ loop_continue' <= loop_continue
      /\ loop_continue' <= LoopsOn(Below)
      /\ ~stops => loop_break' = 0 /\ loop_continue' = 0 /\ ~func_return
  <2>1. CASE loop_break > 0
    BY <1>1, <1>3, <2>1 DEF handle_loop_ctl
  <2>2. CASE loop_break = 0 /\ loop_continue > 0
    <3>1. /\ loop_break' = 0 /\ loop_continue' = loop_continue - 1
          /\ stops = (loop_continue > 1)
      BY <2>2 DEF handle_loop_ctl
    <3>2. ~func_return
      BY <1>1, <1>2, <2>2 DEF Legal
    <3>3. ~stops => loop_continue = 1
      <4>1. loop_continue \in Nat /\ loop_continue > 0
        BY <1>1, <2>2
      <4>2. CASE loop_continue > 1
        BY <3>1, <4>2
      <4>3. CASE ~(loop_continue > 1)
        BY <4>1, <4>3
      <4> QED BY <4>2, <4>3
    <3> QED BY <1>1, <2>2, <3>1, <3>2, <3>3
  <2>3. CASE loop_break = 0 /\ loop_continue = 0
    <3>1. loop_break' = 0 /\ loop_continue' = 0 /\ stops = func_return
      BY <2>3 DEF handle_loop_ctl
    <3> QED BY <1>1, <2>3, <3>1
  <2> QED BY <1>1, <2>1, <2>2, <2>3
<1>5. /\ WaysOut' \in Ways /\ WaysOut'.fr = func_return
      /\ WaysOut'.lb = loop_break' /\ WaysOut'.lc = loop_continue'
  BY <1>2, <1>4, Ahead
<1>6. Sound(WaysOut', Below)
  BY <1>1, <1>2, <1>4, <1>5, Off
<1>7. ~stops => WaysOut' = NoWayOut
  BY <1>4, <1>5, NoWay
<1> QED BY <1>6, <1>7

LEMMA BodySound == ASSUME Orderly, FInv, LoopBody PROVE FNext
<1>1. /\ ctl.do = "status" /\ stack # <<>> /\ Top.f = "body"
      /\ UNCHANGED <<prog, input, last, func_return, func_depth, trap_depth, traps, async>>
  BY DEF LoopBody, Back
<1>2. /\ Stacked(Below) /\ Kind(Top) /\ Own(Top, Below) /\ ~Trapped(Below)
      /\ LoopsOn(Below) \in Nat /\ loop_depth = LoopsOn(Below) + 1
  BY <1>1, InLoop
<1>3. PICK stops \in BOOLEAN :
        /\ handle_loop_ctl(stops)
        /\ IF stops
           THEN /\ Pop /\ UNCHANGED <<ctl, errexit_off>>
                /\ loop_depth' = loop_depth - 1
           ELSE /\ Replace(CondFrame(Top.node, ctl.st)) /\ ctl' = Run(Top.node.cond)
                /\ errexit_off' = errexit_off + 1 /\ UNCHANGED loop_depth
  BY DEF LoopBody
<1>4. Sound(WaysOut', Below) /\ (~stops => WaysOut' = NoWayOut)
  BY <1>1, <1>3, LoopEnds
<1>5. CASE stops
  <2>1. stack' = Below /\ ctl' = ctl /\ loop_depth' = loop_depth - 1
    BY <1>3, <1>5 DEF Pop
  <2>2. Going'
    BY <1>1, <2>1 DEF Going
  <2> QED BY <1>2, <1>4, <2>1, <2>2 DEF FNext
<1>6. CASE ~stops
  <2> DEFINE x == CondFrame(Top.node, ctl.st)
  <2>1. stack' = <<x>> \o Below /\ ctl' = Run(Top.node.cond) /\ loop_depth' = loop_depth
    BY <1>3, <1>6 DEF Replace
  <2>2. x.f = "cond" /\ x.node = Top.node
    BY DEF CondFrame
  <2>3. Top.node \in Nodes /\ Top.node.k = "loop" /\ May(Top.node, Below)
    BY <1>1, <1>2 DEF Kind, Own
  <2>4. Top.node.cond \in Nodes /\ Top.node.cond \in Calm
    BY <2>3, MayParts, ShellExecAssumption DEF Parsed
  <2> HIDE DEF x
  <2>5. ~Trap(x) /\ x.f # "call" /\ Own(x, Below)
    BY <1>2, <2>2, <2>3 DEF Trap, Own
  <2>6. May(Top.node.cond, <<x>> \o Below)
    BY <1>2, <2>4, <2>5, MayOn
  <2>7. loop_depth' \in Nat
    BY <1>2, <2>1
  <2> QED BY <1>2, <1>4, <1>6, <2>1, <2>4, <2>5, <2>6, <2>7, LoopRuns
<1> QED BY <1>5, <1>6

LEMMA ForSound == ASSUME Orderly, FInv, for_word_loop PROVE FNext
<1>1. CASE /\ Compound("for")
           /\ IF ctl.node.times = 0 THEN ctl' = Status(0) /\ UNCHANGED <<stack, loop_depth>>
              ELSE /\ Push(ForFrame(ctl.node.times - 1, ctl.node.body))
                   /\ ctl' = Run(ctl.node.body) /\ loop_depth' = loop_depth + 1
           /\ UNCHANGED flags
  <2>1. /\ ctl.do = "run" /\ ctl.node.k = "for" /\ ctl.node \in Nodes /\ May(ctl.node, stack)
        /\ Stacked(stack) /\ Sound(WaysOut, stack) /\ loop_depth \in Nat
    BY <1>1 DEF Compound, FInv, CInv, Control, Going
  <2>2. ~Trapped(stack) /\ May(ctl.node.body, stack) /\ ctl.node.body \in Nodes
    BY <2>1, MayParts, ShellExecAssumption DEF Parsed
  <2>3. WaysOut = NoWayOut
    BY <2>1, <2>2, Running
  <2>4. CASE ctl.node.times = 0
    <3>1. ctl'.do = "status" /\ UNCHANGED <<stack, loop_depth>>
      BY <1>1, <2>4 DEF Status
    <3>2. Going'
      BY <3>1 DEF Going
    <3> QED BY <1>1, <3>1, <3>2, Same
  <2>5. CASE ctl.node.times # 0
    <3> DEFINE x == ForFrame(ctl.node.times - 1, ctl.node.body)
    <3>1. /\ stack' = <<x>> \o stack /\ ctl' = Run(ctl.node.body)
          /\ loop_depth' = loop_depth + 1
      BY <1>1, <2>5 DEF Push
    <3>2. x.f = "for" /\ x.body = ctl.node.body
      BY DEF ForFrame
    <3> HIDE DEF x
    <3>3. ~Trap(x) /\ ~Quiet(x) /\ x.f # "call" /\ Own(x, stack)
      BY <2>2, <3>2 DEF Trap, Quiet, Own
    <3>4. Sound(WaysOut, <<x>> \o stack)
      BY <2>1, <3>3, OnPush
    <3>5. May(ctl.node.body, <<x>> \o stack)
      BY <2>1, <2>2, <3>3, MayOn
    <3>6. ~unwinding'
      BY <1>1, <2>3, Typed, Unwinds DEF flags, unwinding
    <3>7. Going'
      BY <3>1, <3>5, <3>6 DEF Going, Run
    <3> QED BY <1>1, <2>1, <3>1, <3>4, <3>7 DEF FNext, flags, WaysOut
  <2> QED BY <2>4, <2>5
<1>2. ASSUME Back("for"), NEW stops \in BOOLEAN, handle_loop_ctl(stops),
             IF stops \/ Top.left = 0
             THEN Pop /\ loop_depth' = loop_depth - 1 /\ UNCHANGED ctl
             ELSE /\ Replace(ForFrame(Top.left - 1, Top.body))
                  /\ ctl' = Run(Top.body) /\ UNCHANGED loop_depth,
             UNCHANGED func_return
      PROVE  FNext
  <2>1. ctl.do = "status" /\ stack # <<>> /\ Top.f = "for"
    BY <1>2 DEF Back
  <2>2. /\ Stacked(Below) /\ Kind(Top) /\ Own(Top, Below) /\ ~Trapped(Below)
        /\ LoopsOn(Below) \in Nat /\ loop_depth = LoopsOn(Below) + 1
    BY <2>1, InLoop
  <2>3. Sound(WaysOut', Below) /\ (~stops => WaysOut' = NoWayOut)
    BY <1>2, <2>1, LoopEnds
  <2>4. CASE stops \/ Top.left = 0
    <3>1. stack' = Below /\ ctl' = ctl /\ loop_depth' = loop_depth - 1
      BY <1>2, <2>4 DEF Pop
    <3>2. Going'
      BY <2>1, <3>1 DEF Going
    <3> QED BY <2>2, <2>3, <3>1, <3>2 DEF FNext
  <2>5. CASE ~(stops \/ Top.left = 0)
    <3> DEFINE x == ForFrame(Top.left - 1, Top.body)
    <3>1. stack' = <<x>> \o Below /\ ctl' = Run(Top.body) /\ loop_depth' = loop_depth
      BY <1>2, <2>5 DEF Replace
    <3>2. x.f = "for" /\ x.body = Top.body
      BY DEF ForFrame
    <3> HIDE DEF x
    <3>3. Top.body \in Nodes /\ May(Top.body, Below)
      BY <2>1, <2>2 DEF Kind, Own
    <3>4. ~Trap(x) /\ ~Quiet(x) /\ x.f # "call" /\ Own(x, Below)
      BY <2>2, <3>2, <3>3 DEF Trap, Quiet, Own
    <3>5. May(Top.body, <<x>> \o Below)
      BY <2>2, <3>3, <3>4, MayOn
    <3>6. loop_depth' \in Nat
      BY <2>2, <3>1
    <3> QED BY <2>2, <2>3, <2>5, <3>1, <3>3, <3>4, <3>5, <3>6, LoopRuns
  <2> QED BY <2>4, <2>5
<1>3. CASE Compound("for")
  BY <1>1, <1>3 DEF for_word_loop, flags, Compound, Back
<1>4. CASE Back("for")
  BY <1>2, <1>4 DEF for_word_loop, flags, Compound, Back
<1> QED BY <1>3, <1>4 DEF for_word_loop

LEMMA IfSound == ASSUME Orderly, FInv, execute_if PROVE FNext
<1>1. UNCHANGED <<flags, loop_depth>> /\ WaysOut' = WaysOut /\ unwinding' = unwinding
  BY DEF execute_if, flags, WaysOut, unwinding
<1>2. CASE Compound("if") /\ Push(IfFrame(ctl.node)) /\ ctl' = Run(ctl.node.cond)
  <2> DEFINE x == IfFrame(ctl.node)
  <2>1. /\ ctl.do = "run" /\ ctl.node.k = "if" /\ ctl.node \in Nodes /\ May(ctl.node, stack)
        /\ Stacked(stack) /\ Sound(WaysOut, stack) /\ loop_depth \in Nat
        /\ stack' = <<x>> \o stack
    BY <1>2 DEF Compound, Push, FInv, CInv, Control, Going
  <2>2. ctl.node.cond \in Calm /\ (Trapped(stack) => ctl.node.cond \in Mild)
    BY <2>1, MayParts
  <2>3. Trapped(stack) \/ WaysOut = NoWayOut
    BY <2>1, Running
  <2>4. x.f = "if" /\ x.node = ctl.node
    BY DEF IfFrame
  <2> HIDE DEF x
  <2>5. ~Trap(x) /\ x.f # "call" /\ Own(x, stack)
    BY <2>1, <2>4 DEF Trap, Own
  <2>6. Sound(WaysOut, <<x>> \o stack)
    BY <2>1, <2>3, <2>5, OnPush
  <2>7. May(ctl.node.cond, <<x>> \o stack)
    BY <2>1, <2>2, <2>5, MayOn
  <2>8. Trapped(<<x>> \o stack) \/ ~unwinding
    BY <2>1, <2>3, Seen, Typed, Unwinds
  <2>9. Going'
    BY <1>1, <1>2, <2>1, <2>7, <2>8 DEF Going, Run
  <2> QED BY <1>1, <2>1, <2>6, <2>9 DEF FNext
<1>3. CASE /\ Back("if") /\ Pop
           /\ ctl' = IF ctl.st = 0 THEN Run(Top.node.then)
                     ELSE IF Top.node.else = <<>> THEN Status(0)
                     ELSE Run(Head(Top.node.else))
  <2>1. ctl.do = "status" /\ stack # <<>> /\ Top.f = "if" /\ stack' = Below
    BY <1>3 DEF Back, Pop
  <2>2. /\ Stacked(Below) /\ Kind(Top) /\ Sound(WaysOut, <<Top>> \o Below)
        /\ ~Trap(Top) /\ Top.f \notin Barrier /\ Top.f \notin {"cond", "body", "for"}
        /\ Quiet(Top) /\ WaysOut \in Ways
    BY <2>1, Apart DEF Trap, Barrier, Quiet
  <2>3. Sound(WaysOut, Below) /\ Own(Top, Below)
    BY <2>2, OffPlain
  <2>4. Top.node \in Nodes /\ Top.node.k = "if" /\ May(Top.node, Below)
    BY <2>1, <2>2, <2>3 DEF Kind, Own
  <2>5. /\ May(Top.node.then, Below)
        /\ \A i \in DOMAIN Top.node.else : May(Top.node.else[i], Below)
        /\ Top.node.else \in Seq(Nodes)
    BY <2>2, <2>4, MayParts, ShellExecAssumption DEF Parsed
  <2>6. Top.node.else # <<>> => May(Head(Top.node.else), Below)
    BY <2>5, Rest
  <2>7. Trapped(Below) \/ ~unwinding
    BY <2>2, Hush, Unwinds
  <2>8. Going'
    <3>1. ctl'.do = "status" \/ (ctl'.do = "run" /\ May(ctl'.node, Below))
      BY <1>3, <2>5, <2>6 DEF Run, Status
    <3> QED BY <1>1, <2>1, <2>7, <3>1 DEF Going
  <2> QED BY <1>1, <2>1, <2>3, <2>8 DEF FInv, FNext
<1> QED BY <1>2, <1>3 DEF execute_if

-----------------------------------------------------------------------------
(* Always blocks.                                                          *)

LEMMA BraceSound == ASSUME Orderly, FInv, execute_brace_group PROVE FNext
<1>1. /\ ctl.do = "run" /\ ctl.node.k = "brace" /\ ctl' = Run(ctl.node.body)
      /\ WaysOut' = WaysOut /\ unwinding' = unwinding /\ loop_depth' = loop_depth
      /\ UNCHANGED flags
  BY DEF execute_brace_group, Compound, flags, WaysOut, unwinding, depths
<1>2. /\ ctl.node \in Nodes /\ May(ctl.node, stack) /\ Stacked(stack)
      /\ Sound(WaysOut, stack) /\ loop_depth \in Nat /\ (Trapped(stack) \/ ~unwinding)
  BY <1>1 DEF FInv, CInv, Control, Going
<1>3. ~Trapped(stack) /\ May(ctl.node.body, stack) /\ ctl.node.cleanup \in Seq(Calm)
  BY <1>1, <1>2, MayParts
<1>4. CASE ctl.node.cleanup = <<>>
  <2>1. stack' = stack
    BY <1>4 DEF execute_brace_group
  <2>2. Going'
    BY <1>1, <1>2, <1>3, <2>1 DEF Going, Run
  <2> QED BY <1>1, <2>1, <2>2, Same
<1>5. CASE ctl.node.cleanup # <<>>
  <2> DEFINE x == AlwaysFrame(Head(ctl.node.cleanup))
  <2>1. stack' = <<x>> \o stack
    BY <1>5 DEF execute_brace_group, Push
  <2>2. x.f = "always" /\ x.cleanup \in Calm
    BY <1>3, <1>5, Parts DEF AlwaysFrame
  <2> HIDE DEF x
  <2>3. ~Trap(x) /\ ~Quiet(x) /\ x.f # "call" /\ Own(x, stack)
    BY <1>3, <2>2 DEF Trap, Quiet, Own
  <2>4. Sound(WaysOut, <<x>> \o stack)
    BY <1>2, <2>3, OnPush
  <2>5. May(ctl.node.body, <<x>> \o stack)
    BY <1>2, <1>3, <2>3, MayOn
  <2>6. Going'
    BY <1>1, <1>2, <1>3, <2>1, <2>5 DEF Going, Run
  <2> QED BY <1>1, <1>2, <2>1, <2>4, <2>6 DEF FNext
<1> QED BY <1>4, <1>5

(* The cleanup begins with nothing on its way out: that is saved.          *)
LEMMA ParkSound == ASSUME FInv, always_park PROVE FNext
<1> DEFINE x == CleanupFrame(ctl.st, WaysOut)
<1>1. /\ ctl.do = "status" /\ stack # <<>> /\ Top.f = "always"
      /\ stack' = <<x>> \o Below /\ ctl' = Run(Top.cleanup)
      /\ loop_break' = 0 /\ loop_continue' = 0 /\ func_return' = FALSE
      /\ loop_depth' = loop_depth
  BY DEF always_park, Back, Replace, depths
<1>2. /\ Stacked(Below) /\ Sound(WaysOut, <<Top>> \o Below)
      /\ ~Trap(Top) /\ Top.f \notin Barrier /\ Top.f \notin {"cond", "body", "for"}
  BY <1>1, Apart DEF Trap, Barrier
<1>3. Sound(WaysOut, Below) /\ Own(Top, Below)
  BY <1>2, OffPlain
<1>4. Top.cleanup \in Calm /\ ~Trapped(Below)
  BY <1>1, <1>3 DEF Own
<1>5. x.f = "cleanup" /\ x.save = WaysOut
  BY DEF CleanupFrame
<1> HIDE DEF x
<1>6. Own(x, Below) /\ ~Trap(x)
  BY <1>3, <1>4, <1>5 DEF Own, Trap, Sound, Fit
<1>7. WaysOut' = NoWayOut /\ ~unwinding'
  <2>1. WaysOut' = [fr |-> func_return', lb |-> loop_break', lc |-> loop_continue']
    BY DEF WaysOut
  <2>2. ~unwinding'
    BY <1>1 DEF unwinding
  <2> QED BY <1>1, <2>1, <2>2 DEF NoWayOut
<1>8. Sound(NoWayOut, <<x>> \o Below)
  <2>1. /\ Trapped(<<x>> \o Below) <=> Trap(x) \/ Trapped(Below)
        /\ ~Owed(<<x>> \o Below)
        /\ Owned(<<x>> \o Below)
    BY <1>2, <1>3, <1>5, <1>6, Seen DEF Sound, Barrier
  <2>2. Legal(NoWayOut, <<x>> \o Below)
    <3>1. Legal(NoWayOut, Below)
      BY <1>2, NoneLegal
    <3>2. Aimed(NoWayOut, <<x>> \o Below)
      BY <1>2, <3>1, AimedOn DEF Legal
    <3> QED BY <3>2, NoWay DEF Legal
  <2> QED BY <1>4, <1>6, <2>1, <2>2 DEF Sound, Fit
<1>9. May(Top.cleanup, <<x>> \o Below)
  BY <1>2, <1>4, <1>6, MayOn
<1>10. Going'
  BY <1>1, <1>7, <1>9 DEF Going, Run
<1> QED BY <1>1, <1>7, <1>8, <1>10 DEF FInv, FNext

(* The cleanup ends with nothing on its way out: what was saved is again.  *)
LEMMA UnparkSound == ASSUME FInv, always_unpark PROVE FNext
<1>1. /\ ctl.do = "status" /\ stack # <<>> /\ Top.f = "cleanup"
      /\ stack' = Below /\ ctl'.do = "status" /\ loop_depth' = loop_depth
      /\ loop_break' = IF loop_break > 0 THEN loop_break ELSE Top.save.lb
      /\ loop_continue' = IF loop_continue > 0 THEN loop_continue ELSE Top.save.lc
      /\ func_return' = (func_return \/ Top.save.fr)
  BY DEF always_unpark, Back, Pop, Status, depths
<1>2. Stacked(Below) /\ Sound(WaysOut, <<Top>> \o Below)
  BY <1>1, Apart
<1>3. WaysOut = NoWayOut /\ Sound(Top.save, Below) /\ ~Trapped(Below)
  BY <1>1, <1>2, OffCleanup
<1>4. Top.save \in Ways
  BY <1>3 DEF Sound, Fit, Legal, Aimed
<1>5. func_return = FALSE /\ loop_break = 0 /\ loop_continue = 0
  BY <1>3, Unwinds, NoWay
<1>6. WaysOut' = Top.save
  <2>1. loop_break' = Top.save.lb /\ loop_continue' = Top.save.lc /\ func_return' = Top.save.fr
    BY <1>1, <1>4, <1>5 DEF Ways
  <2>2. Top.save = [fr |-> Top.save.fr, lb |-> Top.save.lb, lc |-> Top.save.lc]
    BY <1>4 DEF Ways
  <2>3. WaysOut' = [fr |-> func_return', lb |-> loop_break', lc |-> loop_continue']
    BY DEF WaysOut
  <2> QED BY <2>1, <2>2, <2>3
<1>7. Going'
  BY <1>1 DEF Going
<1> QED BY <1>1, <1>3, <1>6, <1>7 DEF FInv, FNext

-----------------------------------------------------------------------------
(* Functions.                                                              *)

LEMMA CallSound == ASSUME FInv, execute_func_call PROVE FNext
<1> DEFINE x == CallFrame(traps)
<1>1. /\ ctl.do = "run" /\ ctl.node.k = "cmd" /\ ctl.node.word = "call"
      /\ stack' = <<x>> \o stack /\ ctl' = Run(prog.f) /\ loop_depth' = loop_depth
      /\ WaysOut' = WaysOut /\ unwinding' = unwinding
  BY DEF execute_func_call, Command, Push, flags, WaysOut, unwinding
<1>2. /\ Sound(WaysOut, stack) /\ Stacked(stack) /\ loop_depth \in Nat /\ ~Trapped(stack)
      /\ WaysOut = NoWayOut /\ (Hushed(stack) => Contained)
  BY <1>1, Where
<1>3. x.f = "call" /\ x.returned = FALSE
  BY DEF CallFrame
<1> HIDE DEF x
<1>4. ~Owed(stack)
  BY <1>2, NoWay DEF Sound
<1>5. ~Trap(x) /\ ~Quiet(x) /\ Own(x, stack)
  BY <1>2, <1>3, <1>4 DEF Trap, Quiet, Own
<1>6. Sound(WaysOut, <<x>> \o stack)
  BY <1>2, <1>3, <1>5, OnPush
<1>7. /\ ~Trapped(<<x>> \o stack) /\ Open(<<x>> \o stack)
      /\ Hushed(<<x>> \o stack) => Hushed(stack)
  BY <1>2, <1>3, <1>5, Seen
<1>8. Contained => prog.f \in Steady
  <2>1. prog \in Programs
    BY DEF FInv, CInv, Given
  <2>2. Contained => Words \cup {"return", "call"} = Calling \cup {"return"}
    BY DEF Calling
  <2> QED BY <2>1, <2>2 DEF Contained, Steady
<1>9. May(prog.f, <<x>> \o stack)
  BY <1>2, <1>7, <1>8 DEF May
<1>10. ~unwinding'
  BY <1>1, <1>2, Typed, Unwinds
<1>11. Going'
  BY <1>1, <1>9, <1>10 DEF Going, Run
<1> QED BY <1>1, <1>2, <1>6, <1>11 DEF FNext

LEMMA ReturnTrapSound == ASSUME MildTraps, FInv, fire_return_trap PROVE FNext
<1>1. /\ ctl.do = "status" /\ stack # <<>> /\ Top.f = "call" /\ loop_depth' = loop_depth
      /\ loop_break' = loop_break /\ loop_continue' = loop_continue
  BY DEF fire_return_trap, Back
<1>2. /\ Stacked(Below) /\ Sound(WaysOut, <<Top>> \o Below) /\ WaysOut \in Ways
      /\ loop_depth \in Nat /\ Stacked(stack) /\ Sound(WaysOut, stack)
  BY <1>1, Apart DEF FInv, CInv
<1>3. CASE traps.RETURN /\ trap_depth = 0
  <2> DEFINE x == StringFrame(Tail(prog.RETURN), "RETURN", last, ctl.st)
  <2>1. /\ stack' = <<x>> \o stack /\ ctl' = Run(Head(prog.RETURN))
        /\ WaysOut' = WaysOut
    BY <1>3 DEF fire_return_trap, exec_string, Push, WaysOut
  <2>2. prog.RETURN # <<>> /\ prog.RETURN \in Seq(Mild) /\ "RETURN" \in Whys
    BY ShellExecAssumption DEF FInv, CInv, Given, ScriptOf, MildTraps, Whys
  <2> HIDE DEF x
  <2>3. /\ Sound(WaysOut, <<x>> \o stack) /\ May(Head(prog.RETURN), <<x>> \o stack)
        /\ Trapped(<<x>> \o stack)
    BY <1>2, <2>2, TrapStarts DEF x
  <2>4. Going'
    BY <2>1, <2>3 DEF Going, Run
  <2> QED BY <1>1, <1>2, <2>1, <2>3, <2>4 DEF FNext
<1>4. CASE ~(traps.RETURN /\ trap_depth = 0)
  <2>1. stack' = Below /\ ctl' = ctl /\ func_return' = FALSE
    BY <1>4 DEF fire_return_trap, FinishCall, Below
  <2>2. WaysOut' \in Ways /\ ~WaysOut'.fr /\ WaysOut'.lb = WaysOut.lb /\ WaysOut'.lc = WaysOut.lc
    <3>1. func_return' \in BOOLEAN /\ loop_break' \in Nat /\ loop_continue' \in Nat
      BY <1>1, <1>2, <2>1, Unwinds
    <3> QED BY <1>1, <2>1, <3>1, Ahead, Unwinds
  <2>3. Sound(WaysOut', Below)
    BY <1>1, <1>2, <2>2, OffCall
  <2>4. Going'
    BY <1>1, <2>1 DEF Going
  <2> QED BY <1>1, <1>2, <2>1, <2>3, <2>4 DEF FNext
<1> QED BY <1>3, <1>4

-----------------------------------------------------------------------------
(* Strings.                                                                *)

(* The next statement of a string: only what is left of it changes.        *)
LEMMA Retold ==
  ASSUME NEW s, Stacked(s), NEW x, NEW w, Sound(w, <<x>> \o s), x.f = "string",
         NEW y, y.f = "string", y.why = x.why, y.held = x.held, Own(y, s)
  PROVE  Sound(w, <<y>> \o s)
<1> DEFINE t == <<x>> \o s
           u == <<y>> \o s
<1>1. /\ Trapped(t) <=> Trap(x) \/ Trapped(s)
      /\ Hushed(t) <=> Quiet(x) \/ Hushed(s)
      /\ Open(t) <=> ~Quiet(x) /\ (x.f = "call" \/ Open(s))
      /\ Unheld(t) <=> (Trap(x) => x.held = NoWayOut) /\ Unheld(s)
      /\ Lent(w, t) <=> (Trap(x) /\ x.held = w) \/ Lent(w, s)
      /\ Owned(t) <=> Own(x, s) /\ Owned(s)
  BY Seen
<1>2. /\ Trapped(u) <=> Trap(y) \/ Trapped(s)
      /\ Hushed(u) <=> Quiet(y) \/ Hushed(s)
      /\ Open(u) <=> ~Quiet(y) /\ (y.f = "call" \/ Open(s))
      /\ Owed(u) <=> \/ y.f = "call" /\ y.returned
                     \/ y.f \notin Barrier /\ Owed(s)
      /\ Unheld(u) <=> (Trap(y) => y.held = NoWayOut) /\ Unheld(s)
      /\ Lent(w, u) <=> (Trap(y) /\ y.held = w) \/ Lent(w, s)
      /\ Owned(u) <=> Own(y, s) /\ Owned(s)
  BY Seen
<1>3. (Trap(y) <=> Trap(x)) /\ ~Quiet(x) /\ ~Quiet(y) /\ y.f \in Barrier
  BY DEF Trap, Quiet, Barrier
<1>4. LoopsOn(u) = LoopsOn(t) /\ CallsOn(u) = CallsOn(t)
  BY Heights DEF Loops, Calls
<1>5. /\ (Trapped(u) <=> Trapped(t)) /\ (Hushed(u) <=> Hushed(t)) /\ (Open(u) <=> Open(t))
      /\ (Unheld(u) <=> Unheld(t)) /\ (Lent(w, u) <=> Lent(w, t)) /\ ~Owed(u)
  BY <1>1, <1>2, <1>3
<1> HIDE DEF t, u
<1>6. Sound(w, t)
  BY DEF t
<1>7. Owned(u)
  BY <1>1, <1>2, <1>6 DEF Sound
<1>8. Aimed(w, t) <=> Aimed(w, u)
  BY <1>4 DEF Aimed
<1>9. Fit(w, u)
  BY <1>5, <1>6, <1>8 DEF Sound, Fit, Legal
<1> QED BY <1>5, <1>7, <1>9 DEF Sound, u

LEMMA Retelling ==
  ASSUME NEW x, Kind(x), x.f = "string", NEW y, y = [x EXCEPT !.todo = Tail(@)]
  PROVE  y = [f |-> "string", todo |-> Tail(x.todo), why |-> x.why, saved |-> x.saved,
              st |-> x.st, held |-> x.held]
<1> DEFINE a == x.todo
           b == x.why
           c == x.saved
           d == x.st
           e == x.held
<1>1. x = [f |-> "string", todo |-> a, why |-> b, saved |-> c, st |-> d, held |-> e]
  BY DEF Kind
<1> HIDE DEF a, b, c, d, e
<1>2. y = [x EXCEPT !.todo = Tail(a)]
  BY DEF a
<1>3. y = [f |-> "string", todo |-> Tail(a), why |-> b, saved |-> c, st |-> d, held |-> e]
  BY <1>1, <1>2
<1> QED BY <1>3 DEF a, b, c, d, e

LEMMA StatementSound == ASSUME FInv, NextStatement PROVE FNext
<1> DEFINE x == [Top EXCEPT !.todo = Tail(@)]
<1>1. /\ ctl.do = "status" /\ stack # <<>> /\ Top.f = "string" /\ Top.todo # <<>>
      /\ stack' = <<x>> \o Below /\ ctl' = Run(Head(Top.todo)) /\ ~unwinding
      /\ loop_depth' = loop_depth /\ WaysOut' = WaysOut /\ unwinding' = unwinding
  BY DEF NextStatement, StringOver, Back, Replace, depths, flags, WaysOut, unwinding
<1>2. Kind(Top) /\ Stacked(Below) /\ Sound(WaysOut, <<Top>> \o Below)
  BY <1>1, Apart
<1>3. Top.todo \in Seq(Nodes)
  BY <1>1, <1>2 DEF Kind
<1>4. x = [f |-> "string", todo |-> Tail(Top.todo), why |-> Top.why, saved |-> Top.saved,
           st |-> Top.st, held |-> Top.held]
  BY <1>1, <1>2, Retelling
<1> HIDE DEF x
<1>5. x.f = "string" /\ x.todo = Tail(Top.todo) /\ x.why = Top.why /\ x.held = Top.held
      /\ (Trap(x) <=> Trap(Top))
  BY <1>1, <1>4 DEF Trap
<1>6. Own(Top, Below)
  BY <1>2, Seen DEF Sound
<1>7. CASE Top.why = "eval"
  <2>1. \A i \in DOMAIN Top.todo : May(Top.todo[i], Below)
    BY <1>1, <1>6, <1>7 DEF Own
  <2>2. May(Head(Top.todo), Below) /\ \A i \in DOMAIN x.todo : May(x.todo[i], Below)
    BY <1>1, <1>3, <1>5, <2>1, Rest
  <2>3. Own(x, Below) /\ ~Trap(x) /\ ~Quiet(x) /\ x.f # "call"
    BY <1>1, <1>5, <1>6, <1>7, <2>2 DEF Own, Trap, Quiet
  <2>4. May(Head(Top.todo), <<x>> \o Below)
    BY <1>2, <2>2, <2>3, MayOn
  <2>5. Sound(WaysOut, <<x>> \o Below)
    BY <1>1, <1>2, <1>5, <2>3, Retold
  <2>6. Going'
    BY <1>1, <2>4 DEF Going, Run
  <2> QED BY <1>1, <2>5, <2>6 DEF FInv, FNext
<1>8. CASE Top.why # "eval"
  <2>1. Trap(Top) /\ Top.todo \in Seq(Mild)
    BY <1>1, <1>6, <1>8 DEF Own, Trap
  <2>2. Head(Top.todo) \in Mild /\ x.todo \in Seq(Mild)
    BY <1>1, <1>5, <2>1, Parts
  <2>3. Own(x, Below)
    BY <1>1, <1>5, <1>6, <1>8, <2>2 DEF Own, Trap
  <2>4. May(Head(Top.todo), <<x>> \o Below)
    BY <1>2, <2>2, MayOn
  <2>5. Sound(WaysOut, <<x>> \o Below)
    BY <1>1, <1>2, <1>5, <2>3, Retold
  <2>6. Going'
    BY <1>1, <2>4 DEF Going, Run
  <2> QED BY <1>1, <2>5, <2>6 DEF FInv, FNext
<1> QED BY <1>7, <1>8

LEMMA StringSound == ASSUME MildTraps, FInv, StringEnd PROVE FNext
<1>1. /\ ctl.do = "status" /\ stack # <<>> /\ Top.f = "string" /\ loop_depth' = loop_depth
      /\ loop_break' = loop_break /\ loop_continue' = loop_continue
      /\ loop_depth \in Nat
  BY DEF StringEnd, Back, FInv
<1>2. /\ Stacked(Below) /\ Kind(Top) /\ Placed(Top, Below)
      /\ Sound(WaysOut, <<Top>> \o Below) /\ WaysOut \in Ways
  BY <1>1, Apart
<1>3. func_return' = FALSE
  BY <1>1, <1>2 DEF StringEnd, FinishCall, Kind, Whys
<1>4. /\ WaysOut' \in Ways /\ ~WaysOut'.fr
      /\ WaysOut'.lb = WaysOut.lb /\ WaysOut'.lc = WaysOut.lc
  <2>1. func_return' \in BOOLEAN /\ loop_break' \in Nat /\ loop_continue' \in Nat
    BY <1>1, <1>2, <1>3, Unwinds
  <2> QED BY <1>1, <1>3, <2>1, Ahead, Unwinds
<1>5. WaysOut = NoWayOut => WaysOut' = WaysOut
  BY <1>4, NoWay
<1>6. CASE Top.why = "eval"
  <2>1. stack' = Below /\ ctl' = ctl
    BY <1>6 DEF StringEnd, Pop
  <2>2. Sound(WaysOut', Below)
    BY <1>1, <1>2, <1>4, <1>6, OffCall
  <2>3. Going'
    BY <1>1, <2>1 DEF Going
  <2> QED BY <1>1, <2>1, <2>2, <2>3 DEF FNext
<1>7. CASE Top.why = "signal"
  <2>1. stack' = Below /\ ctl' = [do |-> "next", st |-> Top.st]
    BY <1>7 DEF StringEnd, Pop
  <2>2. Trap(Top)
    BY <1>1, <1>7 DEF Trap
  <2>3. Sound(WaysOut', Below)
    BY <1>2, <1>4, <1>7, <2>2, OffTrap
  <2>4. Going'
    BY <2>1 DEF Going
  <2> QED BY <1>1, <2>1, <2>3, <2>4 DEF FNext
<1>8. CASE Top.why = "RETURN"
  <2>1. stack' = Tail(Below) /\ ctl' = Status(Top.st)
    BY <1>8 DEF StringEnd, FinishCall
  <2>2. Below # <<>> /\ Head(Below).f = "call"
    BY <1>1, <1>2, <1>8 DEF Placed, Leans, Over
  <2>3. Below = <<Head(Below)>> \o Tail(Below) /\ Stacked(Tail(Below))
    BY <1>2, <2>2, Popped
  <2>4. Trap(Top)
    BY <1>1, <1>8 DEF Trap
  <2> DEFINE y == Head(Below)
             s == Tail(Below)
  <2>5. Stacked(<<y>> \o s) /\ Sound(WaysOut, <<Top>> \o (<<y>> \o s))
    BY <1>2, <2>3
  <2>6. y.f = "call" /\ Stacked(s)
    BY <2>2, <2>3
  <2> HIDE DEF y, s
  <2>7. Sound(WaysOut', s)
    BY <1>4, <2>4, <2>5, <2>6, OffReturn
  <2>8. Going'
    BY <2>1 DEF Going, Status
  <2> QED BY <1>1, <2>1, <2>7, <2>8 DEF FNext, s
<1>9. CASE Top.why = "EXIT"
  <2>1. ctl' = Gone(Top.st) /\ stack' = <<>>
    BY <1>9 DEF StringEnd
  <2>2. Trap(Top)
    BY <1>1, <1>9 DEF Trap
  <2>3. /\ Own(Top, Below)
        /\ IF Trapped(Below) THEN Fit(WaysOut, Below) ELSE WaysOut = Top.held
    BY <1>2, <2>2, GivenBack
  <2>4. Below = <<>> /\ Top.held = NoWayOut
    BY <1>9, <2>2, <2>3 DEF Own
  <2>5. WaysOut = NoWayOut
    BY <2>3, <2>4, Empty
  <2>6. Going'
    BY <2>1 DEF Going, Gone
  <2> QED BY <1>1, <1>5, <2>1, <2>5, <2>6, Empty DEF FNext
<1>10. CASE Top.why = "ERR"
  <2>1. Trap(Top)
    BY <1>1, <1>10 DEF Trap
  <2>2. WaysOut = NoWayOut
    BY <1>2, <1>10, <2>1, GivenBack
  <2>3. CASE prog.errexit
    <3>1. exit_clean(Top.st)
      BY <1>10, <2>3 DEF StringEnd
    <3> QED BY <1>1, <1>5, <2>2, <3>1, Left
  <2>4. CASE ~prog.errexit
    <3>1. stack' = Below /\ ctl' = Status(Top.st)
      BY <1>10, <2>4 DEF StringEnd, Pop
    <3>2. Sound(WaysOut', Below)
      BY <1>2, <1>4, <1>10, <2>1, OffTrap
    <3>3. Going'
      BY <3>1 DEF Going, Status
    <3> QED BY <1>1, <3>1, <3>2, <3>3 DEF FNext
  <2> QED BY <2>3, <2>4
<1> QED BY <1>1, <1>2, <1>6, <1>7, <1>8, <1>9, <1>10 DEF Kind, Whys

-----------------------------------------------------------------------------
(* The invariant holds, and it says what FlagsSound says.                  *)

LEMMA FStart == Init => FInv
<1> SUFFICES ASSUME Init PROVE FInv
  OBVIOUS
<1>1. stack = <<>> /\ loop_depth = 0 /\ ctl = Idle
  BY DEF Init
<1>2. WaysOut = NoWayOut
  BY DEF Init, WaysOut, NoWayOut
<1>3. Going
  BY <1>1 DEF Going, Idle
<1> QED BY <1>1, <1>2, <1>3, CStart, Empty DEF FInv

LEMMA FStep ==
  ASSUME Orderly, MildTraps, FInv, [Next]_vars
  PROVE  FInv'
<1>1. CInv'
  BY CStep DEF FInv
<1>2. ASSUME UNCHANGED vars PROVE FNext
  <2>1. Going'
    BY <1>2 DEF FInv, Going, vars, flags, unwinding
  <2> QED BY <1>2, <2>1, Same DEF vars, depths
<1>3. ASSUME trap_sighandler PROVE FNext
  BY <1>3, SignalSound
<1>4. ASSUME Walk PROVE FNext
  BY <1>4, TopLevelSound, ListSound, RangeSound, ReadSound, PendingSound, NextRangeSound,
     OperandSound, RangeEndSound, PipelineSound, NegateSound, PlainSound, BreakSound,
     ReturnSound, ExitSound, EvalSound, WhileSound, ConditionSound, BodySound, ForSound,
     IfSound, BraceSound, ParkSound, UnparkSound, CallSound, ReturnTrapSound,
     StatementSound, StringSound DEF Walk
<1>5. FNext
  BY <1>2, <1>3, <1>4 DEF Next
<1> QED BY <1>1, <1>5 DEF FInv, FNext

(* The body of the EXIT trap is at the bottom, so the bodies that run in   *)
(* it found no flag set.                                                   *)
LEMMA ExitIsQuiet ==
  ASSUME NEW s, Stacked(s), NEW w, Sound(w, s), InExit(s)
  PROVE  w = NoWayOut
<1> DEFINE n == Len(s)
<1>1. n \in Nat /\ DOMAIN s = 1 .. n
  BY LenProperties DEF Stacked
<1>2. PICK i \in 1 .. n : s[i].f = "string" /\ s[i].why = "EXIT"
  BY <1>1 DEF InExit, Positions
<1>3. Trap(s[i]) /\ Trapped(s)
  BY <1>1, <1>2 DEF Trap, Trapped
<1>4. \A j \in 1 .. n : Own(s[j], Under(s, j))
  BY <1>1 DEF Sound, Owned
<1>5. s[i].held = NoWayOut /\ Under(s, i) = <<>>
  BY <1>2, <1>3, <1>4 DEF Own
<1>6. ~(1 \in 1 .. n - i)
  <2>1. Under(s, i) = [j \in 1 .. n - i |-> s[i + j]]
    BY DEF Under
  <2>2. DOMAIN Under(s, i) = 1 .. n - i
    BY <2>1
  <2>3. 1 \notin DOMAIN <<>>
    OBVIOUS
  <2> QED BY <1>5, <2>2, <2>3
<1> HIDE DEF n
<1>7. i = n
  BY <1>1, <1>6
<1>8. ASSUME NEW j \in 1 .. n, Trap(s[j]) PROVE s[j].held = NoWayOut
  <2>1. CASE j = i
    BY <1>5, <2>1
  <2>2. CASE j # i
    <3>1. i - j \in 1 .. n - j /\ j + (i - j) = i
      BY <1>1, <1>7, <2>2
    <3>2. Under(s, j) = [k \in 1 .. n - j |-> s[j + k]]
      BY DEF Under, n
    <3>3. i - j \in DOMAIN Under(s, j) /\ Under(s, j)[i - j] = s[i]
      BY <3>1, <3>2
    <3>4. Trapped(Under(s, j))
      BY <1>3, <3>3 DEF Trapped
    <3> QED BY <1>4, <1>8, <3>4 DEF Own
  <2> QED BY <2>1, <2>2
<1>9. Lent(w, s)
  BY <1>3 DEF Sound, Fit
<1> QED BY <1>1, <1>8, <1>9 DEF Lent

LEMMA FTargets == ASSUME FInv PROVE FlagsHaveTargets
<1>1. /\ Sound(WaysOut, stack) /\ Stacked(stack) /\ WaysOut \in Ways /\ loop_depth \in Nat
      /\ loop_break = WaysOut.lb /\ loop_continue = WaysOut.lc /\ func_return = WaysOut.fr
  BY Typed, Unwinds DEF FInv
<1>2. CASE ctl.do = "gone" \/ InExit(stack)
  <2>1. WaysOut = NoWayOut
    <3>1. CASE ctl.do = "gone"
      <4>1. stack = <<>>
        BY <3>1 DEF FInv, Going
      <4> QED BY <1>1, <4>1, Empty
    <3>2. CASE InExit(stack)
      BY <1>1, <3>2, ExitIsQuiet
    <3> QED BY <1>2, <3>1, <3>2
  <2> QED BY <1>1, <2>1, NoWay DEF FlagsHaveTargets
<1>3. CASE ~(ctl.do = "gone" \/ InExit(stack))
  <2>1. loop_depth = LoopsOn(stack) /\ func_depth = CallsOn(stack)
    BY <1>3 DEF FInv, CInv, CountersPaired, InExit
  <2>2. Aimed(WaysOut, stack)
    BY <1>1 DEF Sound, Fit, Legal
  <2> QED BY <1>1, <2>1, <2>2 DEF Aimed, FlagsHaveTargets
<1> QED BY <1>2, <1>3

LEMMA FNothing == ASSUME FInv PROVE NothingWhileUnwinding
<1> SUFFICES ASSUME ctl.do = "run", unwinding PROVE HeldBelow
  BY DEF NothingWhileUnwinding
<1>1. Trapped(stack) /\ WaysOut # NoWayOut
  BY Typed, Unwinds DEF FInv, Going
<1>2. Lent(WaysOut, stack)
  BY <1>1 DEF FInv, Sound, Fit
<1> QED BY <1>1, <1>2 DEF Lent, Trap, HeldBelow, Positions

(* A call that executed return, with no barrier above it, is owed a flag;  *)
(* the trap that would let a command run is neither above nor under it.    *)
LEMMA FReturns == ASSUME FInv PROVE ReturnReturns
<1> DEFINE n == Len(stack)
<1>1. n \in Nat /\ DOMAIN stack = 1 .. n
  BY Typed, LenProperties DEF Stacked
<1> SUFFICES ASSUME ctl.do = "run", NEW i \in 1 .. n, stack[i].f = "call", stack[i].returned,
                    \A j \in 1 .. n : stack[j].f \in Barrier => ~(j < i)
             PROVE  FALSE
  BY <1>1 DEF ReturnReturns, Positions, Barrier
<1>2. Owed(stack)
  <2>1. \A j \in 1 .. i - 1 : j \in 1 .. n /\ j < i
    BY <1>1
  <2> QED BY <1>1, <2>1 DEF Owed
<1>3. Trapped(stack)
  <2>1. WaysOut.fr
    BY <1>2 DEF FInv, Sound
  <2> QED BY <2>1, Typed, Unwinds, NoWay DEF FInv, Going
<1>4. PICK p \in 1 .. n : Trap(stack[p])
  BY <1>1, <1>3 DEF Trapped
<1>5. p > i
  <2>1. stack[p].f \in Barrier /\ p # i
    BY <1>4 DEF Trap, Barrier
  <2>2. ~(p < i)
    BY <2>1
  <2> QED BY <1>1, <2>1, <2>2
<1>6. ~Trapped(Under(stack, i))
  BY <1>1 DEF FInv, Sound, Owned, Own
<1>7. Trapped(Under(stack, i))
  <2>1. Under(stack, i) = [j \in 1 .. n - i |-> stack[i + j]]
    BY DEF Under
  <2> HIDE DEF n
  <2>2. p - i \in 1 .. n - i /\ i + (p - i) = p
    BY <1>1, <1>5
  <2>3. p - i \in DOMAIN Under(stack, i) /\ Under(stack, i)[p - i] = stack[p]
    BY <2>1, <2>2
  <2> QED BY <1>4, <2>3 DEF Trapped
<1> QED BY <1>6, <1>7

(* Whatever the script does, break, continue and return are consumed by    *)
(* the loop or the call they were meant for, and nothing of what they      *)
(* leave runs -- provided that break, continue and return stand where the  *)
(* executor looks at its flags next (Orderly) and that the bodies of traps *)
(* are simple commands, lists and ifs (MildTraps).                         *)
THEOREM FlagsAreSound == ASSUME Orderly, MildTraps PROVE Spec => []FlagsSound
<1>1. FInv /\ [Next]_vars => FInv'
  BY FStep
<1>2. FInv => FlagsSound
  BY FTargets, FNothing, FReturns DEF FlagsSound
<1> QED BY FStart, <1>1, <1>2, PTL DEF Spec
=============================================================================
