----------------------------- MODULE FoldFacts -----------------------------
(***************************************************************************)
(* What FoldLeft and FoldRight compute, for a proof that has to follow a   *)
(* loop of the code through them.  The library defines a fold by recursion *)
(* over sets of places and takes the step as a parameter, which no prover  *)
(* here can instantiate; so the step is a constant of this module, and a   *)
(* proof names an instance for each loop.  Left and Right are the bodies   *)
(* of FoldLeft and FoldRight.                                              *)
(***************************************************************************)
EXTENDS Naturals, Sequences, WellFoundedInduction, TLAPS

CONSTANT Op(_, _)       \* what has been computed and the next element

Top(t) == CHOOSE x \in t : \A y \in t : x >= y
Bottom(t) == CHOOSE x \in t : \A y \in t : x <= y

(* iter folds the elements at the places of every subset of D.             *)
FoldsUp(iter, D, base, s) ==
  iter = [t \in SUBSET D |->
            IF t = {} THEN base ELSE Op(iter[t \ {Top(t)}], s[Top(t)])]
FoldsDown(iter, D, base, s) ==
  iter = [t \in SUBSET D |->
            IF t = {} THEN base ELSE Op(iter[t \ {Bottom(t)}], s[Bottom(t)])]

Left(base, s) == (CHOOSE iter : FoldsUp(iter, DOMAIN s, base, s))[DOMAIN s]
Right(s, base) == (CHOOSE iter : FoldsDown(iter, DOMAIN s, base, s))[DOMAIN s]

-----------------------------------------------------------------------------
(* The greatest and the least of a set of places.                          *)

LEMMA LowestOf ==
  ASSUME NEW S, S \subseteq Nat, S # {}
  PROVE  \E m \in S : \A y \in S : m <= y
<1>1. IsWellFoundedOn(OpToRel(<, Nat), Nat)
  BY NatLessThanWellFounded
<1>2. PICK m \in S : \A y \in S : ~ (<<y, m>> \in OpToRel(<, Nat))
  BY <1>1, WFMin, Zenon
<1>3. \A y \in S : ~ (y < m)
  BY <1>2 DEF OpToRel
<1> QED BY <1>3

LEMMA HighestOf ==
  ASSUME NEW n \in Nat, NEW t, t \subseteq 1 .. n, t # {}
  PROVE  \E m \in t : \A y \in t : m >= y
<1> DEFINE U == {u \in Nat : \A x \in t : x <= u}
<1>1. n \in U
  OBVIOUS
<1>2. PICK u \in U : \A y \in U : u <= y
  BY <1>1, LowestOf
<1>3. u \in t
  <2>1. SUFFICES ASSUME u \notin t PROVE FALSE
    OBVIOUS
  <2>2. PICK x \in t : TRUE
    OBVIOUS
  <2>3. \A y \in t : y <= u /\ y # u /\ y \in Nat
    BY <2>1
  <2>4. u - 1 \in Nat /\ \A y \in t : y <= u - 1
    BY <2>2, <2>3
  <2> QED BY <2>4, <1>2
<1> QED BY <1>3

LEMMA TopIs ==
  ASSUME NEW t, t \subseteq Nat, NEW m \in t, \A y \in t : m >= y
  PROVE  Top(t) = m
<1>1. \E x \in t : \A y \in t : x >= y
  OBVIOUS
<1>2. Top(t) \in t /\ \A y \in t : Top(t) >= y
  BY <1>1 DEF Top
<1>3. Top(t) >= m /\ m >= Top(t) /\ Top(t) \in Nat /\ m \in Nat
  BY <1>2
<1> QED BY <1>3

LEMMA BottomIs ==
  ASSUME NEW t, t \subseteq Nat, NEW m \in t, \A y \in t : m <= y
  PROVE  Bottom(t) = m
<1>1. \E x \in t : \A y \in t : x <= y
  OBVIOUS
<1>2. Bottom(t) \in t /\ \A y \in t : Bottom(t) <= y
  BY <1>1 DEF Bottom
<1>3. Bottom(t) <= m /\ m <= Bottom(t) /\ Bottom(t) \in Nat /\ m \in Nat
  BY <1>2
<1> QED BY <1>3

-----------------------------------------------------------------------------
(* A function that folds exists, so the one that is chosen folds.          *)

LEMMA UpExists ==
  ASSUME NEW base, NEW s, NEW n \in Nat
  PROVE  \E iter : FoldsUp(iter, 1 .. n, base, s)
<1> DEFINE Bad == {k \in Nat : ~ \E iter : FoldsUp(iter, 1 .. k, base, s)}
<1>1. SUFFICES ASSUME Bad # {} PROVE FALSE
  OBVIOUS
<1>2. PICK m \in Bad : \A y \in Bad : m <= y
  BY <1>1, LowestOf
<1>3. m # 0
  <2>1. FoldsUp([t \in SUBSET (1 .. 0) |-> base], 1 .. 0, base, s)
    BY DEF FoldsUp
  <2> QED BY <2>1
<1>4. m \in Nat /\ m - 1 \in Nat /\ m - 1 \notin Bad
  BY <1>2, <1>3
<1>5. PICK f : FoldsUp(f, 1 .. m - 1, base, s)
  BY <1>4
<1> DEFINE g == [t \in SUBSET (1 .. m) |-> IF m \in t THEN Op(f[t \ {m}], s[m]) ELSE f[t]]
<1>6. ASSUME NEW t \in SUBSET (1 .. m)
      PROVE  g[t] = IF t = {} THEN base ELSE Op(g[t \ {Top(t)}], s[Top(t)])
  <2>1. CASE m \in t
    <3>1. Top(t) = m
      <4>1. t \subseteq Nat /\ \A x \in t : m >= x
        BY <1>4
      <4> QED BY <4>1, <2>1, TopIs
    <3>2. t \ {m} \in SUBSET (1 .. m) /\ m \notin t \ {m}
      OBVIOUS
    <3> QED BY <2>1, <3>1, <3>2
  <2>2. CASE m \notin t
    <3>1. t \in SUBSET (1 .. m - 1)
      BY <2>2, <1>4
    <3>2. t # {} => Top(t) \in t
      <4>1. t # {} => \E x \in t : \A y \in t : x >= y
        BY <3>1, <1>4, HighestOf
      <4> QED BY <4>1 DEF Top
    <3>3. f[t] = IF t = {} THEN base ELSE Op(f[t \ {Top(t)}], s[Top(t)])
      BY <1>5, <3>1 DEF FoldsUp
    <3>4. g[t] = f[t] /\ g[t \ {Top(t)}] = f[t \ {Top(t)}]
      BY <2>2
    <3> QED BY <3>3, <3>4
  <2> QED BY <2>1, <2>2
<1>7. FoldsUp(g, 1 .. m, base, s)
  <2> HIDE DEF g
  <2>1. g = [t \in SUBSET (1 .. m) |-> g[t]]
    BY DEF g
  <2> QED BY <2>1, <1>6 DEF FoldsUp
<1> QED BY <1>2, <1>7

LEMMA DownExists ==
  ASSUME NEW base, NEW s, NEW n \in Nat
  PROVE  \E iter : FoldsDown(iter, 1 .. n, base, s)
<1> DEFINE Bad == {k \in Nat : k <= n /\ ~ \E iter : FoldsDown(iter, n - k + 1 .. n, base, s)}
<1>1. SUFFICES ASSUME Bad # {} PROVE FALSE
  <2>1. n - n + 1 = 1
    OBVIOUS
  <2>2. n \notin Bad => \E iter : FoldsDown(iter, n - n + 1 .. n, base, s)
    OBVIOUS
  <2> QED BY <2>1, <2>2, <1>1
<1>2. PICK m \in Bad : \A y \in Bad : m <= y
  <2>1. Bad \subseteq Nat
    OBVIOUS
  <2> HIDE DEF Bad
  <2> QED BY <1>1, <2>1, LowestOf
<1>3. m # 0
  <2>1. FoldsDown([t \in SUBSET (n - 0 + 1 .. n) |-> base], n - 0 + 1 .. n, base, s)
    <3>1. n - 0 + 1 .. n = {}
      OBVIOUS
    <3> QED BY <3>1 DEF FoldsDown
  <2> QED BY <2>1
<1>4. m \in Nat /\ m <= n /\ m - 1 \in Nat /\ m - 1 \notin Bad
  BY <1>2, <1>3
<1> DEFINE j == n - m + 1
<1>5. j \in Nat /\ j >= 1 /\ j <= n /\ n - (m - 1) + 1 = j + 1
  BY <1>4
<1>6. PICK f : FoldsDown(f, j + 1 .. n, base, s)
  <2>1. \E iter : FoldsDown(iter, n - (m - 1) + 1 .. n, base, s)
    BY <1>4
  <2> QED BY <2>1, <1>5
<1>7. ~ \E iter : FoldsDown(iter, j .. n, base, s)
  BY <1>2
<1> HIDE DEF j, Bad
<1> DEFINE g == [t \in SUBSET (j .. n) |-> IF j \in t THEN Op(f[t \ {j}], s[j]) ELSE f[t]]
<1>8. ASSUME NEW t \in SUBSET (j .. n)
      PROVE  g[t] = IF t = {} THEN base ELSE Op(g[t \ {Bottom(t)}], s[Bottom(t)])
  <2>1. CASE j \in t
    <3>1. Bottom(t) = j
      <4>1. t \subseteq Nat /\ \A x \in t : j <= x
        BY <1>5
      <4> QED BY <4>1, <2>1, BottomIs
    <3>2. t \ {j} \in SUBSET (j .. n) /\ j \notin t \ {j}
      OBVIOUS
    <3> QED BY <2>1, <3>1, <3>2
  <2>2. CASE j \notin t
    <3>1. t \in SUBSET (j + 1 .. n)
      BY <2>2, <1>5
    <3>2. t # {} => Bottom(t) \in t
      <4>1. t \subseteq Nat
        BY <1>5
      <4>2. t # {} => \E x \in t : \A y \in t : x <= y
        BY <4>1, LowestOf
      <4> QED BY <4>2 DEF Bottom
    <3>3. f[t] = IF t = {} THEN base ELSE Op(f[t \ {Bottom(t)}], s[Bottom(t)])
      BY <1>6, <3>1 DEF FoldsDown
    <3>4. g[t] = f[t] /\ g[t \ {Bottom(t)}] = f[t \ {Bottom(t)}]
      BY <2>2
    <3> QED BY <3>3, <3>4
  <2> QED BY <2>1, <2>2
<1>9. FoldsDown(g, j .. n, base, s)
  <2> HIDE DEF g
  <2>1. g = [t \in SUBSET (j .. n) |-> g[t]]
    BY DEF g
  <2> QED BY <2>1, <1>8 DEF FoldsDown
<1> QED BY <1>7, <1>9

-----------------------------------------------------------------------------
(* What the loops have after each turn.                                    *)

(* r[i] is what a loop over s has after i turns, from the first element on *)
(* and from the last one back.                                             *)
RunsUp(r, base, s, n) == /\ r[0] = base
                         /\ \A i \in 1 .. n : r[i] = Op(r[i - 1], s[i])
RunsDown(r, base, s, n) == /\ r[0] = base
                           /\ \A i \in 1 .. n : r[i] = Op(r[i - 1], s[n - i + 1])

(* FoldLeft goes through s from its first element to its last.             *)
LEMMA LeftRun ==
  ASSUME NEW base, NEW s, NEW n \in Nat, DOMAIN s = 1 .. n
  PROVE  \E r : RunsUp(r, base, s, n) /\ r[n] = Left(base, s)
<1> DEFINE it == CHOOSE iter : FoldsUp(iter, 1 .. n, base, s)
           r == [i \in 0 .. n |-> it[1 .. i]]
<1>1. FoldsUp(it, 1 .. n, base, s)
  BY UpExists
<1>2. Left(base, s) = it[1 .. n]
  BY DEF Left
<1> HIDE DEF it
<1>3. r[0] = base
  <2>1. 1 .. 0 = {} /\ 1 .. 0 \in SUBSET (1 .. n)
    OBVIOUS
  <2>2. it[1 .. 0] = base
    BY <2>1, <1>1 DEF FoldsUp
  <2> QED BY <2>2
<1>4. ASSUME NEW i \in 1 .. n PROVE r[i] = Op(r[i - 1], s[i])
  <2>1. Top(1 .. i) = i
    <3>1. 1 .. i \subseteq Nat /\ i \in 1 .. i /\ \A y \in 1 .. i : i >= y
      OBVIOUS
    <3> QED BY <3>1, TopIs
  <2>2. (1 .. i) \ {i} = 1 .. i - 1 /\ 1 .. i # {} /\ 1 .. i \in SUBSET (1 .. n)
    <3>1. i \in 1 .. i /\ 1 .. i \subseteq 1 .. n
      OBVIOUS
    <3>2. \A x : x \in (1 .. i) \ {i} <=> x \in 1 .. i - 1
      OBVIOUS
    <3> QED BY <3>1, <3>2
  <2>3. it[1 .. i] = Op(it[1 .. i - 1], s[i])
    BY <2>1, <2>2, <1>1 DEF FoldsUp
  <2>4. r[i] = it[1 .. i] /\ r[i - 1] = it[1 .. i - 1]
    OBVIOUS
  <2> QED BY <2>3, <2>4
<1>5. r[n] = it[1 .. n]
  OBVIOUS
<1> QED BY <1>2, <1>3, <1>4, <1>5 DEF RunsUp

(* FoldRight goes through s from its last element to its first.            *)
LEMMA RightRun ==
  ASSUME NEW base, NEW s, NEW n \in Nat, DOMAIN s = 1 .. n
  PROVE  \E r : RunsDown(r, base, s, n) /\ r[n] = Right(s, base)
<1> DEFINE it == CHOOSE iter : FoldsDown(iter, 1 .. n, base, s)
           r == [i \in 0 .. n |-> it[n - i + 1 .. n]]
<1>1. FoldsDown(it, 1 .. n, base, s)
  BY DownExists
<1>2. Right(s, base) = it[1 .. n]
  BY DEF Right
<1> HIDE DEF it
<1>3. r[0] = base
  <2>1. n - 0 + 1 .. n = {} /\ n - 0 + 1 .. n \in SUBSET (1 .. n)
    OBVIOUS
  <2>2. it[n - 0 + 1 .. n] = base
    BY <2>1, <1>1 DEF FoldsDown
  <2> QED BY <2>2
<1>4. ASSUME NEW i \in 1 .. n PROVE r[i] = Op(r[i - 1], s[n - i + 1])
  <2> DEFINE j == n - i + 1
  <2>0. j \in 1 .. n /\ n - (i - 1) + 1 = j + 1
    OBVIOUS
  <2>4. r[i] = it[j .. n] /\ r[i - 1] = it[j + 1 .. n]
    BY <2>0
  <2> HIDE DEF j
  <2>1. Bottom(j .. n) = j
    <3>1. j .. n \subseteq Nat /\ j \in j .. n /\ \A y \in j .. n : j <= y
      BY <2>0
    <3> QED BY <3>1, BottomIs
  <2>2. (j .. n) \ {j} = j + 1 .. n /\ j .. n # {} /\ j .. n \in SUBSET (1 .. n)
    BY <2>0
  <2>3. it[j .. n] = Op(it[j + 1 .. n], s[j])
    BY <2>1, <2>2, <1>1 DEF FoldsDown
  <2> QED BY <2>3, <2>4 DEF j
<1>5. r[n] = it[1 .. n]
  <2>1. n - n + 1 = 1
    OBVIOUS
  <2> QED BY <2>1
<1> QED BY <1>2, <1>3, <1>4, <1>5 DEF RunsDown

(* A loop stays where each turn keeps it: I[i] is a set the value after i  *)
(* turns is in.                                                            *)
LEMMA StaysIn ==
  ASSUME NEW r, NEW I, NEW n \in Nat, NEW e,
         r[0] \in I[0],
         \A i \in 1 .. n : r[i] = Op(r[i - 1], e[i]),
         \A i \in 1 .. n : \A a \in I[i - 1] : Op(a, e[i]) \in I[i]
  PROVE  r[n] \in I[n]
<1> DEFINE Bad == {k \in Nat : k <= n /\ r[k] \notin I[k]}
<1>1. SUFFICES ASSUME Bad # {} PROVE FALSE
  OBVIOUS
<1>2. PICK m \in Bad : \A y \in Bad : m <= y
  <2>1. Bad \subseteq Nat
    OBVIOUS
  <2> HIDE DEF Bad
  <2> QED BY <1>1, <2>1, LowestOf
<1>3. m \in 1 .. n /\ m - 1 \in Nat /\ m - 1 <= n /\ m - 1 \notin Bad
  BY <1>2
<1>4. r[m - 1] \in I[m - 1]
  BY <1>3
<1> QED BY <1>2, <1>3, <1>4

LEMMA LeftStaysIn ==
  ASSUME NEW base, NEW s, NEW n \in Nat, DOMAIN s = 1 .. n, NEW I,
         base \in I[0],
         \A i \in 1 .. n : \A a \in I[i - 1] : Op(a, s[i]) \in I[i]
  PROVE  Left(base, s) \in I[n]
<1>1. PICK r : RunsUp(r, base, s, n) /\ r[n] = Left(base, s)
  BY LeftRun
<1>2. r[0] \in I[0]
  BY <1>1 DEF RunsUp
<1>3. r[n] \in I[n]
  BY <1>1, <1>2, StaysIn DEF RunsUp
<1> QED BY <1>1, <1>3

LEMMA RightStaysIn ==
  ASSUME NEW base, NEW s, NEW n \in Nat, DOMAIN s = 1 .. n, NEW I,
         base \in I[0],
         \A i \in 1 .. n : \A a \in I[i - 1] : Op(a, s[n - i + 1]) \in I[i]
  PROVE  Right(s, base) \in I[n]
<1>1. PICK r : RunsDown(r, base, s, n) /\ r[n] = Right(s, base)
  BY RightRun
<1> DEFINE e == [i \in 1 .. n |-> s[n - i + 1]]
<1>2. \A i \in 1 .. n : e[i] = s[n - i + 1]
  OBVIOUS
<1> HIDE DEF e
<1>3. r[0] \in I[0]
  BY <1>1 DEF RunsDown
<1>4. /\ \A i \in 1 .. n : r[i] = Op(r[i - 1], e[i])
      /\ \A i \in 1 .. n : \A a \in I[i - 1] : Op(a, e[i]) \in I[i]
  BY <1>1, <1>2 DEF RunsDown
<1>5. r[n] \in I[n]
  BY <1>3, <1>4, StaysIn
<1> QED BY <1>1, <1>5

(* What every turn keeps, whatever the element, the loop keeps.            *)
LEMMA LeftKeeps ==
  ASSUME NEW A, NEW E, NEW base \in A, NEW s \in Seq(E),
         \A a \in A, x \in E : Op(a, x) \in A
  PROVE  Left(base, s) \in A
<1>1. Len(s) \in Nat /\ DOMAIN s = 1 .. Len(s) /\ \A i \in 1 .. Len(s) : s[i] \in E
  OBVIOUS
<1> DEFINE I == [i \in Nat |-> A]
<1>2. \A i \in Nat : I[i] = A
  OBVIOUS
<1>3. \A i \in 1 .. Len(s) : I[i] = A /\ I[i - 1] = A
  BY <1>1, <1>2
<1> HIDE DEF I
<1>4. base \in I[0] /\ \A i \in 1 .. Len(s) : \A a \in I[i - 1] : Op(a, s[i]) \in I[i]
  BY <1>1, <1>2, <1>3
<1>5. Left(base, s) \in I[Len(s)]
  BY <1>1, <1>4, LeftStaysIn
<1> QED BY <1>1, <1>2, <1>5

LEMMA RightKeeps ==
  ASSUME NEW A, NEW E, NEW base \in A, NEW s \in Seq(E),
         \A a \in A, x \in E : Op(a, x) \in A
  PROVE  Right(s, base) \in A
<1>1. Len(s) \in Nat /\ DOMAIN s = 1 .. Len(s) /\ \A i \in 1 .. Len(s) : s[i] \in E
  OBVIOUS
<1> DEFINE I == [i \in Nat |-> A]
<1>2. \A i \in Nat : I[i] = A
  OBVIOUS
<1>3. \A i \in 1 .. Len(s) : I[i] = A /\ I[i - 1] = A
  BY <1>1, <1>2
<1> HIDE DEF I
<1>4. base \in I[0]
  BY <1>2
<1>5. ASSUME NEW i \in 1 .. Len(s), NEW a \in I[i - 1]
      PROVE  Op(a, s[Len(s) - i + 1]) \in I[i]
  <2>1. Len(s) - i + 1 \in 1 .. Len(s)
    BY <1>1
  <2>2. s[Len(s) - i + 1] \in E
    BY <1>1, <2>1
  <2> QED BY <2>2, <1>3
<1>6. Right(s, base) \in I[Len(s)]
  BY <1>1, <1>4, <1>5, RightStaysIn
<1> QED BY <1>1, <1>2, <1>6

(* Nothing to go through.                                                  *)
LEMMA LeftEmpty ==
  ASSUME NEW base
  PROVE  Left(base, <<>>) = base /\ Right(<<>>, base) = base
<1>1. DOMAIN <<>> = 1 .. 0
  OBVIOUS
<1>2. PICK r : RunsUp(r, base, <<>>, 0) /\ r[0] = Left(base, <<>>)
  BY <1>1, LeftRun
<1>3. PICK q : RunsDown(q, base, <<>>, 0) /\ q[0] = Right(<<>>, base)
  BY <1>1, RightRun
<1> QED BY <1>2, <1>3 DEF RunsUp, RunsDown
=============================================================================
