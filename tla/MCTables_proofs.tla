---------------------------- MODULE MCTables_proofs ----------------------------
(***************************************************************************)
(* The tables of a session, each right while the others go on: the         *)
(* invariants the run over MCTables checks, for any values of its          *)
(* constants.  What is proved of a table in the module of its own is cited *)
(* through the instance of MCTables; getopts, the star of the prompt, the  *)
(* update and the remembered commands are proved here.                     *)
(***************************************************************************)
EXTENDS MCTables, NaturalsInduction, WellFoundedInduction, TLAPS

(***************************************************************************)
(* A behaviour is of one part                                              *)
(***************************************************************************)
LEMMA EnvOnly ==
  ASSUME [Next]_vars, part' = "Env"
  PROVE  part = "Env" /\ [Env!Next]_(Env!vars)
<1>1. CASE EnvStep
  BY <1>1 DEF EnvStep
<1>2. CASE UNCHANGED vars
  BY <1>2 DEF vars, Parts, EnvVars, Env!vars
<1> QED
  BY <1>1, <1>2 DEF Next, EnvStep, FuncStep, HashStep, DirStep, OptStep, GitStep, UpdStep

LEMMA FuncOnly ==
  ASSUME [Next]_vars, part' = "Func"
  PROVE  part = "Func" /\ [Func!Next]_(Func!vars)
<1>1. CASE FuncStep
  BY <1>1 DEF FuncStep
<1>2. CASE UNCHANGED vars
  BY <1>2 DEF vars, Parts, FuncVars, Func!vars, Func!tree_vars, Func!mode_vars, Func!name_vars
<1> QED
  BY <1>1, <1>2 DEF Next, EnvStep, FuncStep, HashStep, DirStep, OptStep, GitStep, UpdStep

LEMMA HashOnly ==
  ASSUME [Next]_vars, part' = "Hash"
  PROVE  part = "Hash" /\ [Hash!Next]_(Hash!vars)
<1>1. CASE HashStep
  BY <1>1 DEF HashStep
<1>2. CASE UNCHANGED vars
  BY <1>2 DEF vars, Parts, HashVars, Hash!vars
<1> QED
  BY <1>1, <1>2 DEF Next, EnvStep, FuncStep, HashStep, DirStep, OptStep, GitStep, UpdStep

LEMMA DirOnly ==
  ASSUME [Next]_vars, part' = "Dir"
  PROVE  part = "Dir" /\ [Dir!Next]_(Dir!vars)
<1>1. CASE DirStep
  BY <1>1 DEF DirStep
<1>2. CASE UNCHANGED vars
  BY <1>2 DEF vars, Parts, DirVars, Dir!vars
<1> QED
  BY <1>1, <1>2 DEF Next, EnvStep, FuncStep, HashStep, DirStep, OptStep, GitStep, UpdStep

LEMMA OptOnly ==
  ASSUME [Next]_vars, part' = "Opt"
  PROVE  part = "Opt" /\ [Opt!Next]_(Opt!vars)
<1>1. CASE OptStep
  BY <1>1 DEF OptStep
<1>2. CASE UNCHANGED vars
  BY <1>2 DEF vars, Parts, OptVars, Opt!vars
<1> QED
  BY <1>1, <1>2 DEF Next, EnvStep, FuncStep, HashStep, DirStep, OptStep, GitStep, UpdStep

LEMMA GitOnly ==
  ASSUME [Next]_vars, part' = "Git"
  PROVE  part = "Git" /\ [Git!Next]_(Git!vars)
<1>1. CASE GitStep
  BY <1>1 DEF GitStep
<1>2. CASE UNCHANGED vars
  BY <1>2 DEF vars, Parts, GitVars, Git!vars
<1> QED
  BY <1>1, <1>2 DEF Next, EnvStep, FuncStep, HashStep, DirStep, OptStep, GitStep, UpdStep

LEMMA UpdOnly ==
  ASSUME [Next]_vars, part' = "Upd"
  PROVE  part = "Upd" /\ [Upd!Next]_(Upd!vars)
<1>1. CASE UpdStep
  BY <1>1 DEF UpdStep
<1>2. CASE UNCHANGED vars
  BY <1>2 DEF vars, Parts, UpdVars, Upd!vars
<1> QED
  BY <1>1, <1>2 DEF Next, EnvStep, FuncStep, HashStep, DirStep, OptStep, GitStep, UpdStep

(***************************************************************************)
(* getopts                                                                 *)
(*                                                                         *)
(* What the arguments mean is a recursion from a word to the next; the     *)
(* call at hand is at letter p of word i, and what is left to report there *)
(* is the rest of that word, then the words after it.                      *)
(***************************************************************************)
LEMMA LowestPlace ==
  ASSUME NEW S, S \subseteq Nat, S # {}
  PROVE  \E m \in S : \A y \in S : m <= y
<1>1. PICK m \in S : \A y \in S : ~ (<<y, m>> \in OpToRel(<, Nat))
  BY NatLessThanWellFounded, WFMin, Zenon
<1>2. \A y \in S : ~ (y < m)
  BY <1>1 DEF OpToRel
<1> QED
  BY <1>2

LEMMA Upto ==
  ASSUME NEW A, NEW n \in Nat, 0 \in A, \A i \in 1 .. n : i - 1 \in A => i \in A
  PROVE  \A i \in 0 .. n : i \in A
<1> SUFFICES ASSUME NEW k \in 0 .. n, k \notin A
             PROVE  FALSE
  OBVIOUS
<1> DEFINE B == {i \in 0 .. n : i \notin A}
<1>1. PICK m \in B : \A y \in B : m <= y
  <2>1. B \subseteq Nat /\ B # {}
    OBVIOUS
  <2> QED
    BY <2>1, LowestPlace
<1>2. m # 0 /\ m - 1 \in 0 .. n /\ m - 1 \notin B
  BY <1>1
<1> QED
  BY <1>1, <1>2

(* A letter of an argument; and any report.                                *)
Letter == {"-"} \cup UNION {Opt!ToSet(w) : w \in UNION {Opt!ToSet(words) : words \in ArgLists}}
Word == Seq(Letter)
Reports == [name : Letter \cup {"?", ":"}, OPTARG : Seq(Letter \cup {"(unset)"})]
Meant == [reports : Seq(Reports), operand : Nat]

(* Arguments are words, OPTIND is given numbers, and `-` is no option.     *)
GivenOptions ==
  /\ ArgLists \subseteq Seq(Word)
  /\ OptInds \subseteq Int
  /\ 0 \notin Addrs /\ 1 \in Addrs
  /\ \A o \in OptStrings : o.silent \in BOOLEAN /\ "-" \notin o.taking

FlagsTo(w, p, k) == [j \in 1 .. ((IF k = 0 THEN Len(w) ELSE k - 1) - p) |-> Opt!Plain(w[j + p])]
LastOf(words, i, k) ==
  LET w == words[i]
      attached == k # 0 /\ k < Len(w)
      apart == k # 0 /\ k = Len(w) /\ i < Len(words)
  IN  IF attached THEN <<Opt!Report(w[k], SubSeq(w, k + 1, Len(w)))>>
      ELSE IF apart THEN <<Opt!Report(w[k], words[i + 1])>>
      ELSE IF k # 0 THEN <<Opt!Wanting(w[k])>> ELSE <<>>
After(words, i, k) ==
  IF k # 0 /\ k = Len(words[i]) /\ i < Len(words) THEN i + 2 ELSE i + 1
Taking(w) == Opt!SelectInSeq(w, Opt!Takes)
Prepend(s, Z) == [Z EXCEPT !.reports = s \o @]
MeaningBody(words, M, i) ==
  IF i > Len(words) THEN [reports |-> <<>>, operand |-> i]
  ELSE IF words[i] = <<"-", "-">> THEN [reports |-> <<>>, operand |-> i + 1]
  ELSE IF ~Opt!IsOption(words[i]) THEN [reports |-> <<>>, operand |-> i]
  ELSE Prepend(FlagsTo(words[i], 1, Taking(words[i])) \o LastOf(words, i, Taking(words[i])),
               M[After(words, i, Taking(words[i]))])

LEMMA MeaningIs ==
  ASSUME NEW words, NEW from
  PROVE  Opt!Meaning(words, from) =
           (CHOOSE M : M = [i \in 1 .. Len(words) + 1 |-> MeaningBody(words, M, i)])[from]
BY DEF Opt!Meaning, MeaningBody, Prepend, FlagsTo, LastOf, After, Taking

(* It exists, from the last word to the first.                             *)
LEMMA MeansExists ==
  ASSUME NEW words, NEW n \in Nat, n = Len(words)
  PROVE  \E M : M = [i \in 1 .. n + 1 |-> MeaningBody(words, M, i)]
<1> DEFINE Good(M, k) == M = [i \in n - k + 1 .. n + 1 |-> M[i]]
                         /\ \A i \in n - k + 1 .. n + 1 : M[i] = MeaningBody(words, M, i)
           A == {k \in 0 .. n : \E M : Good(M, k)}
<1>1. 0 \in A
  <2> DEFINE M == [i \in n + 1 .. n + 1 |-> [reports |-> <<>>, operand |-> i]]
  <2>1. Good(M, 0)
    <3>1. n - 0 + 1 = n + 1
      OBVIOUS
    <3>2. \A i \in n + 1 .. n + 1 : MeaningBody(words, M, i) = [reports |-> <<>>, operand |-> i]
      BY DEF MeaningBody
    <3> QED
      BY <3>1, <3>2
  <2> HIDE DEF M, Good
  <2> QED
    BY <2>1
<1>2. ASSUME NEW k \in 1 .. n, k - 1 \in A
      PROVE  k \in A
  <2>1. PICK M : Good(M, k - 1)
    BY <1>2
  <2> DEFINE N == [i \in n - k + 1 .. n + 1 |->
                     IF i = n - k + 1 THEN MeaningBody(words, M, i) ELSE M[i]]
  <2>2. \A i \in n - k + 1 .. n + 1 : MeaningBody(words, N, i) = MeaningBody(words, M, i)
    <3> TAKE i \in n - k + 1 .. n + 1
    <3>1. CASE i > Len(words)
      BY <3>1 DEF MeaningBody
    <3>2. CASE i <= Len(words)
      <4> DEFINE a == After(words, i, Taking(words[i]))
      <4>1. a \in i + 1 .. n + 1
        BY <3>2 DEF After
      <4>2. N[a] = M[a]
        BY <4>1
      <4> HIDE DEF N
      <4> QED
        BY <4>2 DEF MeaningBody
    <3> QED
      BY <3>1, <3>2
  <2>3. Good(N, k)
    <3>1. \A i \in n - (k - 1) + 1 .. n + 1 : M[i] = MeaningBody(words, M, i)
      BY <2>1
    <3>2. \A i \in n - k + 1 .. n + 1 : N[i] = MeaningBody(words, M, i)
      BY <3>1
    <3> HIDE DEF N
    <3>3. \A i \in n - k + 1 .. n + 1 : N[i] = MeaningBody(words, N, i)
      BY <2>2, <3>2
    <3>4. N = [i \in n - k + 1 .. n + 1 |-> N[i]]
      BY DEF N
    <3> QED
      BY <3>3, <3>4
  <2> HIDE DEF N, Good
  <2> QED
    BY <2>3
<1>3. n \in A
  <2> HIDE DEF A
  <2>1. \A i \in 0 .. n : i \in A
    BY <1>1, <1>2, Upto
  <2> QED
    BY <2>1
<1>4. PICK M : Good(M, n)
  BY <1>3
<1>5. n - n + 1 = 1
  OBVIOUS
<1>6. M = [i \in 1 .. n + 1 |-> M[i]] /\ \A i \in 1 .. n + 1 : M[i] = MeaningBody(words, M, i)
  BY <1>4, <1>5
<1>7. M = [i \in 1 .. n + 1 |-> MeaningBody(words, M, i)]
  BY <1>6
<1> QED
  BY <1>7

LEMMA MeaningUnfolds ==
  ASSUME NEW words \in Seq(Word), NEW i \in 1 .. Len(words) + 1
  PROVE  /\ i > Len(words) => Opt!Meaning(words, i) = [reports |-> <<>>, operand |-> i]
         /\ i <= Len(words) /\ words[i] = <<"-", "-">> =>
              Opt!Meaning(words, i) = [reports |-> <<>>, operand |-> i + 1]
         /\ i <= Len(words) /\ words[i] # <<"-", "-">> /\ ~Opt!IsOption(words[i]) =>
              Opt!Meaning(words, i) = [reports |-> <<>>, operand |-> i]
         /\ i <= Len(words) /\ Opt!IsOption(words[i]) =>
              Opt!Meaning(words, i) =
                Prepend(FlagsTo(words[i], 1, Taking(words[i]))
                          \o LastOf(words, i, Taking(words[i])),
                        Opt!Meaning(words, After(words, i, Taking(words[i]))))
<1> DEFINE M == CHOOSE M : M = [j \in 1 .. Len(words) + 1 |-> MeaningBody(words, M, j)]
<1>0. Len(words) \in Nat
  OBVIOUS
<1>1. \A j : Opt!Meaning(words, j) = M[j]
  BY MeaningIs
<1>2. M = [j \in 1 .. Len(words) + 1 |-> MeaningBody(words, M, j)]
  BY <1>0, MeansExists
<1> HIDE DEF M
<1>3. M[i] = MeaningBody(words, M, i)
  BY <1>2
<1>4. Opt!IsOption(words[i]) => words[i] # <<"-", "-">>
  BY DEF Opt!IsOption
<1>5. i <= Len(words) <=> ~(i > Len(words))
  BY <1>0
<1>6. Opt!Meaning(words, i) = MeaningBody(words, M, i)
  BY <1>1, <1>3
<1>7. /\ i > Len(words) => MeaningBody(words, M, i) = [reports |-> <<>>, operand |-> i]
      /\ ~(i > Len(words)) /\ words[i] = <<"-", "-">> =>
           MeaningBody(words, M, i) = [reports |-> <<>>, operand |-> i + 1]
      /\ ~(i > Len(words)) /\ words[i] # <<"-", "-">> /\ ~Opt!IsOption(words[i]) =>
           MeaningBody(words, M, i) = [reports |-> <<>>, operand |-> i]
  BY DEF MeaningBody
<1>8. ~(i > Len(words)) /\ words[i] # <<"-", "-">> /\ Opt!IsOption(words[i]) =>
        MeaningBody(words, M, i) =
          Prepend(FlagsTo(words[i], 1, Taking(words[i])) \o LastOf(words, i, Taking(words[i])),
                  M[After(words, i, Taking(words[i]))])
  BY DEF MeaningBody
<1>9. Opt!IsOption(words[i]) => words[i] # <<"-", "-">>
  BY DEF Opt!IsOption
<1> QED
  BY <1>1, <1>5, <1>6, <1>7, <1>8, <1>9

(* The first letter after p that takes an argument, or none.               *)
Ends(w, p, k) ==
  \/ k = 0 /\ \A j \in p + 1 .. Len(w) : ~Opt!Takes(w[j])
  \/ k \in p + 1 .. Len(w) /\ Opt!Takes(w[k]) /\ \A j \in p + 1 .. k - 1 : ~Opt!Takes(w[j])

LEMMA TakingEnds ==
  ASSUME NEW w \in Word, Opt!IsOption(w), ~Opt!Takes("-")
  PROVE  Ends(w, 1, Taking(w))
<1> DEFINE I == {j \in 1 .. Len(w) : Opt!Takes(w[j])}
<1>1. Taking(w) = IF I # {} THEN Opt!Min(I) ELSE 0
  BY DEF Taking, Opt!SelectInSeq
<1>2. Len(w) \in Nat /\ Len(w) > 1 /\ w[1] = "-" /\ I \subseteq Nat /\ 1 \notin I
  BY DEF Opt!IsOption, Word
<1>3. \A j \in 1 .. Len(w) : j \in I <=> Opt!Takes(w[j])
  OBVIOUS
<1>4. I \subseteq 1 .. Len(w)
  OBVIOUS
<1> HIDE DEF I
<1>5. CASE I = {}
  BY <1>1, <1>2, <1>3, <1>5 DEF Ends
<1>6. CASE I # {}
  <2>1. \E m \in I : \A y \in I : m <= y
    BY <1>2, <1>6, LowestPlace
  <2>2. Opt!Min(I) \in I /\ \A y \in I : Opt!Min(I) <= y
    BY <2>1 DEF Opt!Min
  <2> QED
    <3>1. PICK t : t = Opt!Min(I)
      OBVIOUS
    <3>0. t \in I
      BY <2>2, <3>1
    <3>2. t \in 1 + 1 .. Len(w) /\ Opt!Takes(w[t])
      BY <1>2, <1>3, <1>4, <3>0
    <3>3. \A j \in 1 + 1 .. t - 1 : ~Opt!Takes(w[j])
      BY <1>2, <1>3, <2>2, <3>1, <3>2
    <3>4. Taking(w) = t
      BY <1>1, <1>6, <3>1
    <3> QED
      BY <3>2, <3>3, <3>4 DEF Ends
<1> QED
  BY <1>5, <1>6

FirstTaking(w, p) ==
  LET I == {j \in p + 1 .. Len(w) : Opt!Takes(w[j])} IN IF I = {} THEN 0 ELSE Opt!Min(I)

LEMMA FirstEnds ==
  ASSUME NEW w, Len(w) \in Nat, NEW p \in Nat
  PROVE  Ends(w, p, FirstTaking(w, p))
<1> DEFINE I == {j \in p + 1 .. Len(w) : Opt!Takes(w[j])}
<1>1. I \subseteq Nat /\ \A j \in p + 1 .. Len(w) : j \in I <=> Opt!Takes(w[j])
  OBVIOUS
<1>2. I \subseteq p + 1 .. Len(w)
  OBVIOUS
<1>3. FirstTaking(w, p) = IF I = {} THEN 0 ELSE Opt!Min(I)
  BY DEF FirstTaking
<1> HIDE DEF I
<1>4. CASE I = {}
  BY <1>1, <1>3, <1>4 DEF Ends
<1>5. CASE I # {}
  <2>1. \E m \in I : \A y \in I : m <= y
    BY <1>1, <1>5, LowestPlace
  <2>2. PICK m \in I : m = Opt!Min(I) /\ \A y \in I : m <= y
    BY <2>1 DEF Opt!Min
  <2>3. m \in p + 1 .. Len(w) /\ Opt!Takes(w[m])
    BY <1>1, <1>2, <2>2
  <2>4. \A j \in p + 1 .. m - 1 : ~Opt!Takes(w[j])
    BY <1>1, <2>2, <2>3
  <2>5. FirstTaking(w, p) = m
    BY <1>3, <1>5, <2>2
  <2> QED
    BY <2>3, <2>4, <2>5 DEF Ends
<1> QED
  BY <1>4, <1>5

LEMMA EndsOnce ==
  ASSUME NEW w, Len(w) \in Nat, NEW p \in Nat, NEW k, NEW l, Ends(w, p, k), Ends(w, p, l)
  PROVE  k = l
BY DEF Ends

(* What is left to report at letter p of word i.                           *)
Cons(s, Z) == [reports |-> s \o Z.reports, operand |-> Z.operand]
RestAt(words, i, p, k) ==
  Cons(FlagsTo(words[i], p, k) \o LastOf(words, i, k), Opt!Meaning(words, After(words, i, k)))
Rest(words, i, p) ==
  IF p = 0 THEN Opt!Meaning(words, i)
  ELSE RestAt(words, i, p, FirstTaking(words[i], p))
Inside(words, i, p) ==
  p = 0 \/ (i <= Len(words) /\ Opt!IsOption(words[i]) /\ p \in 1 .. Len(words[i]) - 1)

LEMMA PrependIs ==
  ASSUME NEW Z \in Meant, NEW s \in Seq(Reports)
  PROVE  Prepend(s, Z) = Cons(s, Z) /\ Cons(s, Z) \in Meant
<1>1. Z.reports \in Seq(Reports) /\ Z.operand \in Nat
  BY DEF Meant
<1> DEFINE t == s \o Z.reports
<1>2. t \in Seq(Reports)
  BY <1>1
<1> HIDE DEF t
<1>3. [Z EXCEPT !.reports = t] = [reports |-> t, operand |-> Z.operand]
  BY DEF Meant
<1>4. [reports |-> t, operand |-> Z.operand] \in Meant
  BY <1>1, <1>2 DEF Meant
<1> QED
  BY <1>3, <1>4 DEF Prepend, Cons, t

LEMMA NothingMeant ==
  ASSUME NEW e \in Nat
  PROVE  [reports |-> <<>>, operand |-> e] \in Meant
BY DEF Meant

Setup == GivenOptions /\ optstring \in OptStrings

LEMMA SaidTyped ==
  ASSUME Setup, NEW c \in Letter
  PROVE  /\ Opt!Plain(c) \in Reports /\ Opt!Wanting(c) \in Reports
         /\ Opt!Report("?", Opt!Said(c)) \in Reports /\ Opt!Report(c, Opt!Unset) \in Reports
         /\ Opt!Report("?", Opt!Unset) \in Reports
         /\ \A w \in Word : Opt!Report(c, w) \in Reports
         /\ ~Opt!Takes("-")
<1>1. Opt!Unset \in Seq(Letter \cup {"(unset)"}) /\ <<c>> \in Seq(Letter \cup {"(unset)"})
  BY DEF Opt!Unset
<1>2. Opt!Said(c) \in Seq(Letter \cup {"(unset)"})
  BY <1>1 DEF Opt!Said
<1>3. \A w \in Word : w \in Seq(Letter \cup {"(unset)"})
  BY DEF Word
<1>4. ~Opt!Takes("-")
  BY DEF Setup, GivenOptions, Opt!Takes
<1> QED
  BY <1>1, <1>2, <1>3, <1>4 DEF Opt!Plain, Opt!Wanting, Opt!Report, Reports

LEMMA PartsTyped ==
  ASSUME Setup, NEW words \in Seq(Word), NEW i \in 1 .. Len(words), Opt!IsOption(words[i]),
         NEW p \in 1 .. Len(words[i]), NEW k, Ends(words[i], p, k)
  PROVE  /\ FlagsTo(words[i], p, k) \in Seq(Reports) /\ LastOf(words, i, k) \in Seq(Reports)
         /\ After(words, i, k) \in i + 1 .. Len(words) + 1
<1> DEFINE w == words[i]
           m == (IF k = 0 THEN Len(w) ELSE k - 1) - p
<1>1. w \in Word /\ Len(w) \in Nat /\ p \in 1 .. Len(w) /\ (k = 0 \/ k \in p + 1 .. Len(w))
  BY DEF Ends, Word
<1>2. m \in Nat /\ \A j \in 1 .. m : j + p \in 1 .. Len(w)
  BY <1>1
<1>3. \A j \in 1 .. Len(w) : w[j] \in Letter
  BY <1>1 DEF Word
<1>4. FlagsTo(w, p, k) = [j \in 1 .. m |-> Opt!Plain(w[j + p])]
  BY DEF FlagsTo
<1> HIDE DEF m
<1>5. \A j \in 1 .. m : Opt!Plain(w[j + p]) \in Reports
  BY <1>2, <1>3, SaidTyped
<1>6. FlagsTo(w, p, k) \in Seq(Reports)
  BY <1>2, <1>4, <1>5
<1>7. LastOf(words, i, k) \in Seq(Reports)
  <2>1. CASE k = 0
    BY <2>1 DEF LastOf
  <2>2. CASE k # 0
    <3>1. w[k] \in Letter /\ k \in 1 .. Len(w)
      BY <1>1, <1>3, <2>2
    <3>2. SubSeq(w, k + 1, Len(w)) \in Word
      BY <1>1, <3>1 DEF Word
    <3>3. i < Len(words) => words[i + 1] \in Word
      OBVIOUS
    <3>4. /\ Opt!Report(w[k], SubSeq(w, k + 1, Len(w))) \in Reports /\ Opt!Wanting(w[k]) \in Reports
          /\ i < Len(words) => Opt!Report(w[k], words[i + 1]) \in Reports
      BY <3>1, <3>2, <3>3, SaidTyped
    <3> QED
      BY <2>2, <3>4 DEF LastOf
  <2> QED
    BY <2>1, <2>2
<1>8. After(words, i, k) \in i + 1 .. Len(words) + 1
  BY DEF After
<1> QED
  BY <1>6, <1>7, <1>8

LEMMA MeaningTyped ==
  ASSUME Setup, NEW words \in Seq(Word)
  PROVE  \A i \in 1 .. Len(words) + 1 : Opt!Meaning(words, i) \in Meant
<1> DEFINE n == Len(words)
           A == {k \in 0 .. n : \A i \in n + 1 - k .. n + 1 : Opt!Meaning(words, i) \in Meant}
<1>0. n \in Nat
  OBVIOUS
<1>1. 0 \in A
  <2>1. Opt!Meaning(words, n + 1) = [reports |-> <<>>, operand |-> n + 1]
    BY <1>0, MeaningUnfolds
  <2>2. Opt!Meaning(words, n + 1) \in Meant
    BY <1>0, <2>1, NothingMeant
  <2> QED
    BY <2>2
<1>2. ASSUME NEW k \in 1 .. n, k - 1 \in A
      PROVE  k \in A
  <2> DEFINE i == n + 1 - k
             t == Taking(words[i])
  <2>1. i \in 1 .. n /\ words[i] \in Word
    OBVIOUS
  <2>2. \A j \in i + 1 .. n + 1 : Opt!Meaning(words, j) \in Meant
    BY <1>2
  <2> HIDE DEF i
  <2>3. ASSUME words[i] = <<"-", "-">> \/ ~Opt!IsOption(words[i])
        PROVE  Opt!Meaning(words, i) \in Meant
    <3>1. PICK e \in Nat : Opt!Meaning(words, i) = [reports |-> <<>>, operand |-> e]
      BY <2>1, <2>3, MeaningUnfolds
    <3>2. Opt!Meaning(words, i) \in Meant
      BY <3>1 DEF Meant
    <3> QED
      BY <3>2
  <2>4. ASSUME words[i] # <<"-", "-">>, Opt!IsOption(words[i])
        PROVE  Opt!Meaning(words, i) \in Meant
    <3>1. Ends(words[i], 1, t) /\ 1 \in 1 .. Len(words[i])
      <4>1. ~Opt!Takes("-") /\ 1 \in 1 .. Len(words[i])
        BY <2>1, <2>4, SaidTyped DEF Opt!IsOption, Letter, Word
      <4> QED
        BY <2>1, <2>4, <4>1, TakingEnds
    <3>2. /\ FlagsTo(words[i], 1, t) \in Seq(Reports) /\ LastOf(words, i, t) \in Seq(Reports)
          /\ After(words, i, t) \in i + 1 .. n + 1
      BY <2>1, <2>4, <3>1, PartsTyped
    <3>3. Opt!Meaning(words, i) = Prepend(FlagsTo(words[i], 1, t) \o LastOf(words, i, t),
                                      Opt!Meaning(words, After(words, i, t)))
      BY <2>1, <2>4, MeaningUnfolds
    <3>4. Opt!Meaning(words, After(words, i, t)) \in Meant
      BY <2>2, <3>2
    <3>5. FlagsTo(words[i], 1, t) \o LastOf(words, i, t) \in Seq(Reports)
      BY <3>2
    <3> QED
      BY <3>3, <3>4, <3>5, PrependIs
  <2>5. Opt!Meaning(words, i) \in Meant
    BY <2>3, <2>4
  <2>6. \A j \in i .. n + 1 : Opt!Meaning(words, j) \in Meant
    BY <2>1, <2>2, <2>5
  <2> QED
    BY <2>6 DEF i
<1>3. \A k \in 0 .. n : k \in A
  <2> HIDE DEF A, n
  <2> QED
    BY <1>0, <1>1, <1>2, Upto
<1>4. n \in A
  BY <1>0, <1>3
<1> QED
  BY <1>0, <1>4

(* At the first letter of an option.                                       *)
LEMMA RestFirst ==
  ASSUME Setup, NEW words \in Seq(Word), NEW i \in 1 .. Len(words), Opt!IsOption(words[i])
  PROVE  Rest(words, i, 0) = Rest(words, i, 1)
<1> DEFINE w == words[i]
           t == Taking(w)
<1>1. w \in Word /\ Len(w) \in Nat /\ 1 \in 1 .. Len(w) /\ w # <<"-", "-">> /\ "-" \in Letter
  BY DEF Opt!IsOption, Word, Letter
<1>2. Ends(w, 1, t)
  BY <1>1, TakingEnds, SaidTyped
<1>3. FirstTaking(w, 1) = t
  BY <1>1, <1>2, FirstEnds, EndsOnce
<1>4. /\ FlagsTo(w, 1, t) \in Seq(Reports) /\ LastOf(words, i, t) \in Seq(Reports)
      /\ After(words, i, t) \in i + 1 .. Len(words) + 1
  BY <1>1, <1>2, PartsTyped
<1>5. Opt!Meaning(words, i) = Prepend(FlagsTo(w, 1, t) \o LastOf(words, i, t),
                                  Opt!Meaning(words, After(words, i, t)))
  BY MeaningUnfolds
<1>6. Opt!Meaning(words, After(words, i, t)) \in Meant
  BY <1>4, MeaningTyped
<1>7. Opt!Meaning(words, i) = RestAt(words, i, 1, t)
  <2>1. FlagsTo(w, 1, t) \o LastOf(words, i, t) \in Seq(Reports)
    BY <1>4
  <2> QED
    BY <1>5, <1>6, <2>1, PrependIs DEF RestAt
<1> QED
  BY <1>3, <1>7 DEF Rest

(* A letter without an argument.                                           *)
LEMMA ConsTwice ==
  ASSUME NEW a \in Seq(Reports), NEW b \in Seq(Reports), NEW Z \in Meant
  PROVE  Cons(a \o b, Z) = Cons(a, Cons(b, Z))
<1>1. Z.reports \in Seq(Reports)
  BY DEF Meant
<1>2. PICK r \in Seq(Reports) : r = Z.reports
  BY <1>1
<1>3. (a \o b) \o r = a \o (b \o r)
  OBVIOUS
<1> QED
  BY <1>2, <1>3 DEF Cons

LEMMA RestFlag ==
  ASSUME Setup, NEW words \in Seq(Word), NEW i \in 1 .. Len(words), Opt!IsOption(words[i]),
         NEW p \in 1 .. Len(words[i]) - 1, ~Opt!Takes(words[i][p + 1])
  PROVE  Rest(words, i, p) =
           Cons(<<Opt!Plain(words[i][p + 1])>>,
                IF p + 1 = Len(words[i]) THEN Rest(words, i + 1, 0) ELSE Rest(words, i, p + 1))
<1> DEFINE w == words[i]
           n == Len(w)
           c == w[p + 1]
<1>1. w \in Word /\ n \in Nat /\ p \in 1 .. n /\ p + 1 \in 1 .. n /\ p # 0 /\ p + 1 # 0
      /\ c \in Letter
  BY DEF Word
<1>2. Ends(w, p, FirstTaking(w, p)) /\ Ends(w, p + 1, FirstTaking(w, p + 1))
  BY <1>1, FirstEnds
<1>3. PICK k : Ends(w, p + 1, k) /\ k = FirstTaking(w, p + 1)
  BY <1>2
<1>4. Ends(w, p, k)
  BY <1>1, <1>3 DEF Ends
<1>5. FirstTaking(w, p) = k /\ FirstTaking(w, p + 1) = k
  BY <1>1, <1>2, <1>3, <1>4, EndsOnce
<1>6. /\ FlagsTo(w, p, k) \in Seq(Reports) /\ FlagsTo(w, p + 1, k) \in Seq(Reports)
      /\ LastOf(words, i, k) \in Seq(Reports)
      /\ After(words, i, k) \in i + 1 .. Len(words) + 1
  BY <1>1, <1>3, <1>4, PartsTyped
<1>7. Opt!Plain(c) \in Reports
  BY <1>1, SaidTyped
<1>8. FlagsTo(w, p, k) = <<Opt!Plain(c)>> \o FlagsTo(w, p + 1, k)
  <2> DEFINE m == (IF k = 0 THEN n ELSE k - 1) - (p + 1)
             f == FlagsTo(w, p + 1, k)
             g == FlagsTo(w, p, k)
  <2>1. m \in Nat /\ m + 1 = (IF k = 0 THEN n ELSE k - 1) - p
    BY <1>1, <1>3 DEF Ends
  <2>2. /\ f = [j \in 1 .. m |-> Opt!Plain(w[j + (p + 1)])]
        /\ g = [j \in 1 .. m + 1 |-> Opt!Plain(w[j + p])]
    BY <2>1 DEF FlagsTo
  <2> HIDE DEF m, f, g
  <2>3. Len(f) = m /\ Len(g) = m + 1
    BY <2>1, <2>2
  <2>4. g[1] = Opt!Plain(c) /\ \A j \in 1 .. m : g[j + 1] = f[j]
    BY <1>1, <2>1, <2>2
  <2>5. f \in Seq(Reports) /\ g \in Seq(Reports)
    BY <1>6 DEF f, g
  <2>6. g = <<Opt!Plain(c)>> \o f
    BY <1>7, <2>1, <2>3, <2>4, <2>5
  <2> QED
    BY <2>6 DEF f, g
<1>9. Opt!Meaning(words, After(words, i, k)) \in Meant
  BY <1>6, MeaningTyped
<1> DEFINE a == <<Opt!Plain(c)>>
           b == FlagsTo(w, p + 1, k)
           l == LastOf(words, i, k)
<1>10. a \in Seq(Reports) /\ b \in Seq(Reports) /\ l \in Seq(Reports) /\ b \o l \in Seq(Reports)
  BY <1>6, <1>7
<1>11. RestAt(words, i, p, k) = Cons(a, RestAt(words, i, p + 1, k))
  <2> DEFINE M == Opt!Meaning(words, After(words, i, k))
  <2>1. RestAt(words, i, p, k) = Cons((a \o b) \o l, M)
    BY <1>8 DEF RestAt
  <2>2. RestAt(words, i, p + 1, k) = Cons(b \o l, M)
    BY DEF RestAt
  <2> HIDE DEF M, a, b, l
  <2>3. PICK s \in Seq(Reports) : s = b \o l
    BY <1>10
  <2>5. (a \o b) \o l = a \o s
    BY <1>10, <2>3
  <2>4. M \in Meant
    BY <1>9 DEF M
  <2> QED
    <3>1. Cons(a \o s, M) = Cons(a, Cons(s, M))
      BY <1>10, <2>4, ConsTwice
    <3>2. RestAt(words, i, p, k) = Cons(a \o s, M)
      BY <2>1, <2>5
    <3>3. RestAt(words, i, p + 1, k) = Cons(s, M)
      BY <2>2, <2>3
    <3> QED
      BY <3>1, <3>2, <3>3
<1>12. Rest(words, i, p) = Cons(a, RestAt(words, i, p + 1, k))
  BY <1>1, <1>5, <1>11 DEF Rest
<1>13. CASE p + 1 = n
  <2>1. k = 0 /\ b = <<>> /\ l = <<>> /\ After(words, i, k) = i + 1
    BY <1>1, <1>3, <1>13 DEF Ends, FlagsTo, LastOf, After
  <2>2. \A Z \in Meant : Cons(<<>>, Z) = Z
    BY DEF Cons, Meant
  <2>3. b \o l = <<>>
    BY <2>1
  <2>4. RestAt(words, i, p + 1, k) = Cons(b \o l, Opt!Meaning(words, i + 1))
    BY <2>1 DEF RestAt
  <2>5. RestAt(words, i, p + 1, k) = Opt!Meaning(words, i + 1)
    BY <1>9, <2>1, <2>2, <2>3, <2>4
  <2> QED
    BY <1>12, <1>13, <2>5 DEF Rest
<1>14. CASE p + 1 # n
  <2>1. Rest(words, i, p + 1) = RestAt(words, i, p + 1, k)
    BY <1>1, <1>5 DEF Rest
  <2> QED
    BY <1>12, <1>14, <2>1
<1> QED
  BY <1>13, <1>14

(* A letter with one.                                                      *)
LEMMA RestTaking ==
  ASSUME Setup, NEW words \in Seq(Word), NEW i \in 1 .. Len(words), Opt!IsOption(words[i]),
         NEW p \in 1 .. Len(words[i]) - 1, Opt!Takes(words[i][p + 1])
  PROVE  /\ Rest(words, i, p) =
              Cons(LastOf(words, i, p + 1), Rest(words, After(words, i, p + 1), 0))
         /\ LastOf(words, i, p + 1) \in Seq(Reports)
         /\ After(words, i, p + 1) \in i + 1 .. Len(words) + 1
<1> DEFINE w == words[i]
           k == p + 1
<1>1. w \in Word /\ Len(w) \in Nat /\ p \in 1 .. Len(w) /\ p + 1 \in 1 .. Len(w) /\ p # 0
  BY DEF Word
<1>2. Ends(w, p, k)
  BY <1>1 DEF Ends
<1>3. FirstTaking(w, p) = k
  BY <1>1, <1>2, FirstEnds, EndsOnce
<1>4. /\ LastOf(words, i, k) \in Seq(Reports)
      /\ After(words, i, k) \in i + 1 .. Len(words) + 1
  BY <1>1, <1>2, PartsTyped
<1>5. FlagsTo(w, p, k) = <<>>
  BY <1>1 DEF FlagsTo
<1>6. <<>> \o LastOf(words, i, k) = LastOf(words, i, k)
  BY <1>4
<1>7. Rest(words, i, p) = RestAt(words, i, p, k)
  BY <1>1, <1>3 DEF Rest
<1>8. RestAt(words, i, p, k) = Cons(LastOf(words, i, k), Opt!Meaning(words, After(words, i, k)))
  BY <1>5, <1>6 DEF RestAt
<1>9. Rest(words, After(words, i, k), 0) = Opt!Meaning(words, After(words, i, k))
  BY DEF Rest
<1> QED
  BY <1>4, <1>7, <1>8, <1>9

LEMMA RestTyped ==
  ASSUME Setup, NEW words \in Seq(Word), NEW i \in 1 .. Len(words) + 1, NEW p \in Nat,
         Inside(words, i, p)
  PROVE  Rest(words, i, p) \in Meant
<1>1. CASE p = 0
  BY <1>1, MeaningTyped DEF Rest
<1>2. CASE p # 0
  <2> DEFINE w == words[i]
             k == FirstTaking(w, p)
  <2>1. i \in 1 .. Len(words) /\ Opt!IsOption(w) /\ p \in 1 .. Len(w) /\ Len(w) \in Nat
    BY <1>2 DEF Inside, Word
  <2>2. Ends(w, p, k)
    BY <2>1, FirstEnds
  <2> HIDE DEF k
  <2>3. /\ FlagsTo(w, p, k) \in Seq(Reports) /\ LastOf(words, i, k) \in Seq(Reports)
        /\ After(words, i, k) \in i + 1 .. Len(words) + 1
    BY <2>1, <2>2, PartsTyped
  <2>4. Opt!Meaning(words, After(words, i, k)) \in Meant
    BY <2>1, <2>3, MeaningTyped
  <2>5. FlagsTo(w, p, k) \o LastOf(words, i, k) \in Seq(Reports)
    BY <2>3
  <2> QED
    BY <1>2, <2>4, <2>5, PrependIs DEF Rest, RestAt, k
<1> QED
  BY <1>1, <1>2

(***************************************************************************)
(* One call.                                                               *)
(***************************************************************************)
Calls == [optind : Nat, pos : Nat, report : Reports, more : BOOLEAN]

LEMMA OptionReports ==
  ASSUME Setup, args \in Seq(Word), NEW G \in Calls, G.optind \in 1 .. Opt!count,
         Opt!IsOption(args[G.optind]), G.pos \in 1 .. Len(args[G.optind]) - 1
  PROVE  /\ Opt!one_option(G) \in Calls /\ Opt!one_option(G).more = G.more
         /\ Opt!one_option(G).optind \in 1 .. Opt!count + 1
         /\ Inside(args, Opt!one_option(G).optind, Opt!one_option(G).pos)
         /\ Rest(args, G.optind, G.pos) =
              Cons(<<Opt!one_option(G).report>>,
                   Rest(args, Opt!one_option(G).optind, Opt!one_option(G).pos))
<1> DEFINE i == G.optind
           p == G.pos
           w == args[i]
           c == w[p + 1]
<1>1. /\ i \in 1 .. Len(args) /\ p \in 1 .. Len(w) - 1 /\ w \in Word /\ Len(w) \in Nat
      /\ c \in Letter /\ Len(args) \in Nat
  BY DEF Opt!count, Word
<1>2. /\ Opt!Plain(c) \in Reports /\ Opt!Wanting(c) \in Reports
      /\ \A v \in Word : Opt!Report(c, v) \in Reports
  BY <1>1, SaidTyped
<1>3. CASE ~Opt!Takes(c)
  <2> DEFINE e == p + 1 = Len(w)
             j == IF e THEN i + 1 ELSE i
             q == IF e THEN 0 ELSE p + 1
  <2>1. Opt!gopt_advance(G) = [optind |-> j, pos |-> q, report |-> G.report, more |-> G.more]
    BY DEF Opt!gopt_advance, Opt!cur, Calls
  <2>2. Opt!one_option(G) = [Opt!gopt_advance(G) EXCEPT !.report = Opt!Plain(c)]
    BY <1>3 DEF Opt!one_option, Opt!one_option_bad, Opt!At, Opt!cur, Opt!Plain, Opt!Known, Opt!Takes
  <2>3. Opt!one_option(G) = [optind |-> j, pos |-> q, report |-> Opt!Plain(c), more |-> G.more]
    BY <2>1, <2>2
  <2>4. Rest(args, i, p) = Cons(<<Opt!Plain(c)>>, Rest(args, j, q))
    BY <1>1, <1>3, RestFlag
  <2>5. j \in 1 .. Len(args) + 1 /\ j \in Nat /\ q \in Nat /\ Inside(args, j, q)
    BY <1>1 DEF Inside
  <2> HIDE DEF j, q
  <2> QED
    BY <1>2, <2>3, <2>4, <2>5 DEF Calls, Opt!count
<1>4. CASE Opt!Takes(c)
  <2> DEFINE k == p + 1
             j == After(args, i, k)
  <2>1. /\ Rest(args, i, p) = Cons(LastOf(args, i, k), Rest(args, j, 0))
        /\ j \in i + 1 .. Len(args) + 1
    BY <1>1, <1>4, RestTaking
  <2>2. Opt!one_option(G) = Opt!gopt_want_arg(G) /\ Opt!At(G) = c /\ Opt!cur(G) = w
    BY <1>4 DEF Opt!one_option, Opt!At, Opt!cur, Opt!Known, Opt!Takes
  <2>3. \E r \in Reports : /\ Opt!one_option(G) = [optind |-> j, pos |-> 0, report |-> r, more |-> G.more]
                           /\ LastOf(args, i, k) = <<r>>
    <3>1. CASE k < Len(w)
      <4>1. SubSeq(w, k + 1, Len(w)) \in Word /\ k + 1 = p + 2
        BY <1>1, <3>1 DEF Word
      <4>2. Opt!one_option(G) = [G EXCEPT !.pos = 0, !.optind = i + 1,
                                      !.report = Opt!Report(c, SubSeq(w, p + 2, Len(w)))]
        BY <2>2, <3>1 DEF Opt!gopt_want_arg
      <4>3. j = i + 1 /\ LastOf(args, i, k) = <<Opt!Report(c, SubSeq(w, k + 1, Len(w)))>>
        BY <1>1, <3>1 DEF After, LastOf
      <4>4. PICK r \in Reports : r = Opt!Report(c, SubSeq(w, p + 2, Len(w)))
        BY <1>2, <4>1
      <4> QED
        BY <4>1, <4>2, <4>3, <4>4 DEF Calls
    <3>2. CASE k = Len(w) /\ i < Len(args)
      <4>1. args[i + 1] \in Word
        BY <1>1, <3>2
      <4>2. Opt!one_option(G) = [G EXCEPT !.pos = 0, !.optind = i + 2,
                                      !.report = Opt!Report(c, args[i + 1])]
        BY <1>1, <2>2, <3>2 DEF Opt!gopt_want_arg, Opt!count
      <4>3. j = i + 2 /\ LastOf(args, i, k) = <<Opt!Report(c, args[i + 1])>>
        BY <1>1, <3>2 DEF After, LastOf
      <4>4. PICK r \in Reports : r = Opt!Report(c, args[i + 1])
        BY <1>2, <4>1
      <4> QED
        BY <4>2, <4>3, <4>4 DEF Calls
    <3>3. CASE k = Len(w) /\ ~(i < Len(args))
      <4>1. Opt!one_option(G) = [G EXCEPT !.pos = 0, !.optind = i + 1, !.report = Opt!Wanting(c)]
        BY <1>1, <2>2, <3>3 DEF Opt!gopt_want_arg, Opt!gopt_want_error, Opt!count
      <4>2. j = i + 1 /\ LastOf(args, i, k) = <<Opt!Wanting(c)>>
        BY <1>1, <3>3 DEF After, LastOf
      <4>3. PICK r \in Reports : r = Opt!Wanting(c)
        BY <1>2
      <4> QED
        BY <4>1, <4>2, <4>3 DEF Calls
    <3> QED
      BY <1>1, <3>1, <3>2, <3>3
  <2> HIDE DEF j
  <2>4. PICK r \in Reports : /\ Opt!one_option(G) = [optind |-> j, pos |-> 0, report |-> r, more |-> G.more]
                             /\ LastOf(args, i, k) = <<r>>
    BY <2>3
  <2> QED
    BY <1>1, <2>1, <2>4 DEF Calls, Inside, Opt!count
<1> QED
  BY <1>3, <1>4

(* The letter the call looks at, once it has moved past the end of a word. *)
Enter1(G) == IF G.pos < 1 THEN [G EXCEPT !.pos = 1] ELSE G
Enter2(G) ==
  IF Opt!AtOption(G) /\ G.pos = Len(Opt!cur(G)) THEN [G EXCEPT !.pos = 1, !.optind = @ + 1] ELSE G

LEMMA RunIs ==
  ASSUME NEW G
  PROVE  Opt!gopt_run(G) =
           LET H == Enter2(Enter1(G))
           IN  IF Opt!AtOption(H) THEN Opt!one_option(H) ELSE Opt!gopt_done(H)
BY DEF Opt!gopt_run, Enter1, Enter2

LEMMA DoneIs ==
  ASSUME Setup, args \in Seq(Word), NEW G \in Calls, G.optind \in 1 .. Opt!count + 1
  PROVE  /\ Opt!gopt_done(G) \in Calls /\ Opt!gopt_done(G).more = FALSE
         /\ Opt!gopt_done(G).pos = 0 /\ Opt!gopt_done(G).optind \in 1 .. Opt!count + 1
         /\ ~Opt!AtOption(G) => Opt!Meaning(args, G.optind) =
                              [reports |-> <<>>, operand |-> Opt!gopt_done(G).optind]
<1>1. Opt!Report("?", Opt!Unset) \in Reports
  BY SaidTyped DEF Letter
<1> DEFINE dashes == G.optind <= Opt!count /\ Opt!cur(G) = <<"-", "-">>
           j == IF dashes THEN G.optind + 1 ELSE G.optind
<1>2. Opt!gopt_done(G) =
        [optind |-> j, pos |-> 0, report |-> Opt!Report("?", Opt!Unset), more |-> FALSE]
  <2>1. Opt!gopt_done(G) = [G EXCEPT !.pos = 0, !.report = Opt!Report("?", Opt!Unset), !.more = FALSE,
                                 !.optind = IF dashes THEN @ + 1 ELSE @]
    BY DEF Opt!gopt_done
  <2>2. PICK r \in Reports : r = Opt!Report("?", Opt!Unset)
    BY <1>1
  <2>3. CASE dashes
    <3>1. Opt!gopt_done(G) = [G EXCEPT !.pos = 0, !.report = r, !.more = FALSE, !.optind = @ + 1]
      BY <2>1, <2>2, <2>3
    <3>2. j = G.optind + 1
      BY <2>3
    <3> HIDE DEF j, dashes
    <3> QED
      BY <2>2, <3>1, <3>2 DEF Calls
  <2>4. CASE ~dashes
    <3>1. Opt!gopt_done(G) = [G EXCEPT !.pos = 0, !.report = r, !.more = FALSE, !.optind = G.optind]
      BY <2>1, <2>2, <2>4
    <3>2. j = G.optind
      BY <2>4
    <3> HIDE DEF j, dashes
    <3> QED
      BY <2>2, <3>1, <3>2 DEF Calls
  <2> QED
    BY <2>3, <2>4
<1>3. Opt!count \in Nat /\ j \in 1 .. Opt!count + 1
  BY DEF Opt!count
<1>4. ~Opt!AtOption(G) => Opt!Meaning(args, G.optind) = [reports |-> <<>>, operand |-> j]
  <2> SUFFICES ASSUME ~Opt!AtOption(G)
               PROVE  Opt!Meaning(args, G.optind) = [reports |-> <<>>, operand |-> j]
    OBVIOUS
  <2>1. ~(G.optind <= Len(args) /\ Opt!IsOption(args[G.optind])) /\ G.optind \in 1 .. Len(args) + 1
    BY DEF Opt!AtOption, Opt!cur, Opt!count
  <2>2. dashes <=> G.optind <= Len(args) /\ args[G.optind] = <<"-", "-">>
    BY DEF Opt!cur, Opt!count
  <2> QED
    BY <2>1, <2>2, MeaningUnfolds
<1> HIDE DEF j
<1> QED
  BY <1>1, <1>2, <1>3, <1>4 DEF Calls

LEMMA OnToNext ==
  ASSUME NEW G \in Calls, NEW H, H = [G EXCEPT !.pos = 1, !.optind = @ + 1]
  PROVE  H \in Calls /\ H.pos = 1 /\ H.optind = G.optind + 1
<1>1. H = [optind |-> G.optind + 1, pos |-> 1, report |-> G.report, more |-> G.more]
  BY DEF Calls
<1> QED
  BY <1>1 DEF Calls

(* Any call leaves a letter of the word, or its first.                     *)
LEMMA RunWithin ==
  ASSUME Setup, args \in Seq(Word), NEW G \in Calls, G.optind \in 1 .. Opt!count + 1,
         G.optind <= Opt!count => G.pos <= Len(args[G.optind])
  PROVE  /\ Opt!gopt_run(G) \in Calls /\ Opt!gopt_run(G).optind \in 1 .. Opt!count + 1
         /\ Inside(args, Opt!gopt_run(G).optind, Opt!gopt_run(G).pos)
<1> DEFINE F == Enter1(G)
           H == Enter2(F)
<1>1. /\ F \in Calls /\ F.optind = G.optind /\ F.pos >= 1
      /\ F.pos = G.pos \/ F.pos = 1
  BY DEF Enter1, Calls
<1>2. Opt!AtOption(F) => F.optind \in 1 .. Opt!count /\ F.pos <= Len(args[F.optind])
  BY <1>1 DEF Opt!AtOption, Opt!IsOption, Opt!cur, Opt!count
<1>3. H \in Calls /\ H.optind \in 1 .. Opt!count + 1
      /\ (Opt!AtOption(H) => H.pos \in 1 .. Len(args[H.optind]) - 1)
  <2>1. CASE Opt!AtOption(F) /\ F.pos = Len(Opt!cur(F))
    <3>1. H = [F EXCEPT !.pos = 1, !.optind = @ + 1]
      BY <2>1 DEF Enter2
    <3>2. H \in Calls /\ H.pos = 1 /\ H.optind = F.optind + 1
      <4> HIDE DEF F, H
      <4> QED
        BY <1>1, <3>1, OnToNext
    <3> HIDE DEF F, H
    <3>3. H.optind \in 1 .. Opt!count + 1
      BY <1>2, <2>1, <3>2 DEF Opt!count
    <3>4. Opt!AtOption(H) => Len(args[H.optind]) \in Nat /\ Len(args[H.optind]) > 1
      BY <3>3 DEF Opt!AtOption, Opt!IsOption, Opt!cur, Opt!count, Word
    <3> QED
      BY <3>2, <3>3, <3>4
  <2>2. CASE ~(Opt!AtOption(F) /\ F.pos = Len(Opt!cur(F)))
    <3>1. H = F
      BY <2>2 DEF Enter2
    <3> HIDE DEF F, H
    <3>2. Opt!AtOption(H) => Len(args[H.optind]) \in Nat /\ H.pos \in Nat
      BY <1>1, <1>2, <3>1 DEF Word, Opt!count, Calls
    <3>3. Opt!AtOption(H) => H.pos # Len(args[H.optind])
      BY <2>2, <3>1 DEF Opt!cur
    <3> QED
      BY <1>1, <1>2, <3>1, <3>2, <3>3 DEF F
  <2> QED
    BY <2>1, <2>2
<1> HIDE DEF H
<1>4. CASE Opt!AtOption(H)
  <2>1. H.optind \in 1 .. Opt!count /\ Opt!IsOption(args[H.optind])
    BY <1>3, <1>4 DEF Opt!AtOption, Opt!cur, Opt!count
  <2>2. Opt!gopt_run(G) = Opt!one_option(H)
    BY <1>4, RunIs DEF H
  <2> QED
    BY <1>3, <1>4, <2>1, <2>2, OptionReports
<1>5. CASE ~Opt!AtOption(H)
  <2>2. Opt!gopt_run(G) = Opt!gopt_done(H)
    BY <1>5, RunIs DEF H
  <2> QED
    BY <1>3, <2>2, DoneIs DEF Inside
<1> QED
  BY <1>4, <1>5

(* A call inside an option, or between words, reports what comes next.     *)
LEMMA RunTells ==
  ASSUME Setup, args \in Seq(Word), NEW G \in Calls, G.more = TRUE,
         G.optind \in 1 .. Opt!count + 1, Inside(args, G.optind, G.pos)
  PROVE  /\ Opt!gopt_run(G).more =>
              Rest(args, G.optind, G.pos) =
                Cons(<<Opt!gopt_run(G).report>>,
                     Rest(args, Opt!gopt_run(G).optind, Opt!gopt_run(G).pos))
         /\ ~Opt!gopt_run(G).more =>
              Rest(args, G.optind, G.pos) = [reports |-> <<>>, operand |-> Opt!gopt_run(G).optind]
<1> DEFINE H == Enter1(G)
<1>1. /\ H \in Calls /\ H.optind = G.optind /\ H.more = TRUE
      /\ H.pos = IF G.pos = 0 THEN 1 ELSE G.pos
  BY DEF Enter1, Calls
<1>2. Opt!AtOption(H) => /\ G.optind \in 1 .. Len(args) /\ Opt!IsOption(args[G.optind])
                         /\ H.pos \in 1 .. Len(args[G.optind]) - 1
  <2> SUFFICES ASSUME Opt!AtOption(H)
               PROVE  /\ G.optind \in 1 .. Len(args) /\ Opt!IsOption(args[G.optind])
                      /\ H.pos \in 1 .. Len(args[G.optind]) - 1
    OBVIOUS
  <2>1. G.optind \in 1 .. Len(args) /\ Opt!IsOption(args[G.optind])
    BY <1>1 DEF Opt!AtOption, Opt!cur, Opt!count
  <2>2. Len(args[G.optind]) \in Nat /\ Len(args[G.optind]) > 1
    BY <2>1 DEF Opt!IsOption, Word
  <2> QED
    BY <1>1, <2>1, <2>2 DEF Inside
<1>3. Enter2(H) = H
  BY <1>1, <1>2 DEF Enter2, Opt!cur, Opt!AtOption
<1> HIDE DEF H
<1>4. CASE Opt!AtOption(H)
  <2>1. Opt!gopt_run(G) = Opt!one_option(H)
    BY <1>3, <1>4, RunIs DEF H
  <2>2. Rest(args, G.optind, G.pos) = Rest(args, G.optind, H.pos)
    BY <1>1, <1>2, <1>4, RestFirst
  <2>3. /\ Opt!one_option(H).more = TRUE
        /\ Rest(args, H.optind, H.pos) =
             Cons(<<Opt!one_option(H).report>>,
                  Rest(args, Opt!one_option(H).optind, Opt!one_option(H).pos))
    BY <1>1, <1>2, <1>4, OptionReports DEF Opt!count
  <2> QED
    BY <1>1, <2>1, <2>2, <2>3
<1>5. CASE ~Opt!AtOption(H)
  <2>1. Opt!gopt_run(G) = Opt!gopt_done(H)
    BY <1>3, <1>5, RunIs DEF H
  <2>2. G.pos = 0
    BY <1>1, <1>5 DEF Inside, Opt!AtOption, Opt!cur, Opt!count
  <2> QED
    BY <1>1, <1>5, <2>1, <2>2, DoneIs DEF Rest
<1> QED
  BY <1>4, <1>5

(***************************************************************************)
(* Nobody changes the letters there are while scans go on, so arguments    *)
(* mean what they meant.  With the letters as a parameter:                 *)
(***************************************************************************)
TakesOf(o, c) == c \in o.taking
SaidOf(o, c) == IF o.silent THEN <<c>> ELSE Opt!Unset
PlainOf(o, c) ==
  IF c \in o.plain \cup o.taking THEN Opt!Report(c, Opt!Unset) ELSE Opt!Report("?", SaidOf(o, c))
WantingOf(o, c) == Opt!Report(IF o.silent THEN ":" ELSE "?", SaidOf(o, c))
FlagsOf(o, w, p, k) == [j \in 1 .. ((IF k = 0 THEN Len(w) ELSE k - 1) - p) |-> PlainOf(o, w[j + p])]
LastWith(o, words, i, k) ==
  LET w == words[i]
      attached == k # 0 /\ k < Len(w)
      apart == k # 0 /\ k = Len(w) /\ i < Len(words)
  IN  IF attached THEN <<Opt!Report(w[k], SubSeq(w, k + 1, Len(w)))>>
      ELSE IF apart THEN <<Opt!Report(w[k], words[i + 1])>>
      ELSE IF k # 0 THEN <<WantingOf(o, w[k])>> ELSE <<>>
TakingOf(o, w) ==
  LET I == {j \in 1 .. Len(w) : TakesOf(o, w[j])} IN IF I # {} THEN Opt!Min(I) ELSE 0
BodyOf(o, words, M, i) ==
  IF i > Len(words) THEN [reports |-> <<>>, operand |-> i]
  ELSE IF words[i] = <<"-", "-">> THEN [reports |-> <<>>, operand |-> i + 1]
  ELSE IF ~Opt!IsOption(words[i]) THEN [reports |-> <<>>, operand |-> i]
  ELSE Prepend(FlagsOf(o, words[i], 1, TakingOf(o, words[i]))
                 \o LastWith(o, words, i, TakingOf(o, words[i])),
               M[After(words, i, TakingOf(o, words[i]))])
MeaningOf(o, words, from) ==
  (CHOOSE M : M = [i \in 1 .. Len(words) + 1 |-> BodyOf(o, words, M, i)])[from]
FirstOf(o, w, p) ==
  LET I == {j \in p + 1 .. Len(w) : TakesOf(o, w[j])} IN IF I = {} THEN 0 ELSE Opt!Min(I)
RestWith(o, words, i, p, k) ==
  Cons(FlagsOf(o, words[i], p, k) \o LastWith(o, words, i, k),
       MeaningOf(o, words, After(words, i, k)))
RestOf(o, words, i, p) ==
  IF p = 0 THEN MeaningOf(o, words, i)
  ELSE RestWith(o, words, i, p, FirstOf(o, words[i], p))

LEMMA MeaningWith ==
  \A words, i : Opt!Meaning(words, i) = MeaningOf(optstring, words, i)
<1> TAKE words, i
<1>1. Opt!Meaning(words, i) =
        (CHOOSE M : M = [j \in 1 .. Len(words) + 1 |-> MeaningBody(words, M, j)])[i]
  BY MeaningIs
<1> QED
  BY <1>1 DEF MeaningOf, MeaningBody, BodyOf, FlagsTo, FlagsOf, LastOf, LastWith, Taking, TakingOf,
     Opt!SelectInSeq, Opt!Takes, TakesOf, Opt!Plain, PlainOf, Opt!Known, Opt!Wanting, WantingOf,
     Opt!Said, SaidOf

LEMMA RestIs ==
  \A words, i, p : Rest(words, i, p) = RestOf(optstring, words, i, p)
<1> TAKE words, i, p
<1>1. \A j : Opt!Meaning(words, j) = MeaningOf(optstring, words, j)
  BY MeaningWith
<1>2. \A k : FlagsTo(words[i], p, k) = FlagsOf(optstring, words[i], p, k)
  BY DEF FlagsTo, FlagsOf, Opt!Plain, PlainOf, Opt!Known, Opt!Said, SaidOf
<1>3. \A k : LastOf(words, i, k) = LastWith(optstring, words, i, k)
  BY DEF LastOf, LastWith, Opt!Wanting, WantingOf, Opt!Said, SaidOf
<1>4. FirstTaking(words[i], p) = FirstOf(optstring, words[i], p)
  BY DEF FirstTaking, FirstOf, Opt!Takes, TakesOf
<1>5. \A k : RestAt(words, i, p, k) = RestWith(optstring, words, i, p, k)
  BY <1>1, <1>2, <1>3 DEF RestAt, RestWith
<1> QED
  BY <1>1, <1>4, <1>5 DEF Rest, RestOf

LEMMA MeansAsBefore ==
  ASSUME optstring' = optstring
  PROVE  /\ \A words, i : Opt!Meaning(words, i)' = Opt!Meaning(words, i)
         /\ \A words, i, p : Rest(words, i, p)' = Rest(words, i, p)
<1>1. (\A words, i : Opt!Meaning(words, i) = MeaningOf(optstring, words, i))'
  BY MeaningWith, PTL
<1>2. (\A words, i, p : Rest(words, i, p) = RestOf(optstring, words, i, p))'
  BY RestIs, PTL
<1> QED
  BY <1>1, <1>2, MeaningWith, RestIs

(***************************************************************************)
(* The scans, the one that goes on and the one a function interrupted      *)
(***************************************************************************)
Clamp(n, v) == LET i == IF v < 1 THEN 1 ELSE v IN IF i > n + 1 THEN n + 1 ELSE i
Letters(n, o, ref, pos) ==
  IF o = Opt!UnsetOptind \/ o.addr # ref \/ (IF o.val < 1 THEN 1 ELSE o.val) > n + 1 THEN 0 ELSE pos
Reads(n, o, ref, pos) ==
  [optind |-> Clamp(n, o.val), pos |-> Letters(n, o, ref, pos),
   report |-> Opt!Report("?", Opt!Unset), more |-> TRUE]

LEMMA ReadIs == Opt!gopt_read_optind = Reads(Len(args), OPTIND, getopts_ref, getopts_pos)
BY DEF Opt!gopt_read_optind, Reads, Clamp, Letters, Opt!count

(* What was reported and what is left make what the arguments mean.        *)
ScanOK(words, val, i, p, s) ==
  s.from > 0 =>
    /\ s.from \in 1 .. Len(words) + 1
    /\ IF s.ended
       THEN s.reports = Opt!Meaning(words, s.from).reports /\ val = Opt!Meaning(words, s.from).operand
       ELSE Inside(words, i, p) /\ Opt!Meaning(words, s.from) = Cons(s.reports, Rest(words, i, p))
InWord(words, i, p) == i \in DOMAIN words => p <= Len(words[i])
Fine(words, o, ref, pos, s) ==
  /\ InWord(words, Clamp(Len(words), o.val), Letters(Len(words), o, ref, pos))
  /\ ScanOK(words, o.val, Clamp(Len(words), o.val), Letters(Len(words), o, ref, pos), s)

Optinds == [val : Int, addr : Addrs \cup {0}]
OptScans == [from : Nat, reports : Seq(Reports), ended : BOOLEAN]
Interrupted == [OPTIND : Optinds, args : ArgLists \cup {<<>>}, seen : OptScans]

Shapes ==
  /\ args \in ArgLists /\ optstring \in OptStrings
  /\ OPTIND \in Optinds /\ (OPTIND.addr = 0 => OPTIND = Opt!UnsetOptind)
  /\ getopts_ref \in Addrs \cup {0} /\ getopts_pos \in Nat
  /\ seen \in OptScans /\ saved \in Interrupted /\ (saved # Opt!NotSaved => saved.args \in ArgLists)

(* The address getopts left is that of no value of somebody else's, unless *)
(* the letter is the first of its word.                                    *)
Addressed ==
  /\ OPTIND.addr # 0 /\ OPTIND.addr = getopts_ref => getopts_pos = 0 \/ OPTIND.val >= 1
  /\ saved # Opt!NotSaved => saved.OPTIND.addr # 0
  /\ saved.OPTIND.addr # 0 /\ saved.OPTIND.addr = getopts_ref => getopts_pos = 0
Aside ==
  saved # Opt!NotSaved =>
    ScanOK(saved.args, saved.OPTIND.val, Clamp(Len(saved.args), saved.OPTIND.val), 0, saved.seen)

OInv ==
  /\ Shapes /\ Addressed
  /\ Fine(args, OPTIND, getopts_ref, getopts_pos, seen)
  /\ Aside

LEMMA SetupHolds == GivenOptions /\ Shapes => Setup /\ args \in Seq(Word)
BY DEF GivenOptions, Shapes, Setup

LEMMA ClampIn ==
  ASSUME NEW n \in Nat, NEW v \in Int
  PROVE  Clamp(n, v) \in 1 .. n + 1 /\ (v \in 1 .. n + 1 => Clamp(n, v) = v)
BY DEF Clamp

LEMMA ConsNothing ==
  ASSUME NEW Z \in Meant
  PROVE  Cons(<<>>, Z) = Z
BY DEF Cons, Meant

(* A scan that begins, at any word.                                        *)
LEMMA BeginsFine ==
  ASSUME Setup, NEW words \in Seq(Word), NEW i \in 1 .. Len(words) + 1, NEW v
  PROVE  ScanOK(words, v, i, 0, Opt!Began(i)) /\ Opt!Began(i) \in OptScans
<1>1. Opt!Meaning(words, i) \in Meant
  BY MeaningTyped
<1>2. Cons(<<>>, Opt!Meaning(words, i)) = Opt!Meaning(words, i)
  BY <1>1, ConsNothing
<1>3. Opt!Began(i) \in OptScans
  BY DEF Opt!Began, OptScans
<1> QED
  BY <1>2, <1>3 DEF ScanOK, Opt!Began, Inside, Rest

LEMMA LostFine ==
  ASSUME NEW words, NEW v, NEW i, NEW p, NEW s, s = Opt!Lost
  PROVE  ScanOK(words, v, i, p, s) /\ s \in OptScans
BY DEF ScanOK, Opt!Lost, Opt!Began, OptScans

LEMMA ScanAsBefore ==
  ASSUME optstring' = optstring
  PROVE  \A words, v, i, p, s : ScanOK(words, v, i, p, s)' <=> ScanOK(words, v, i, p, s)
BY MeansAsBefore DEF ScanOK, Inside
LEMMA FineAsBefore ==
  ASSUME optstring' = optstring
  PROVE  \A words, o, ref, pos, s : Fine(words, o, ref, pos, s)' <=> Fine(words, o, ref, pos, s)
BY ScanAsBefore DEF Fine

LEMMA AsideAsBefore ==
  ASSUME Aside, UNCHANGED <<optstring, saved>>
  PROVE  Aside'
<1>1. PICK s : s = saved
  OBVIOUS
<1>2. s # Opt!NotSaved =>
        ScanOK(s.args, s.OPTIND.val, Clamp(Len(s.args), s.OPTIND.val), 0, s.seen)'
  BY <1>1, ScanAsBefore DEF Aside
<1>3. saved' = s
  BY <1>1
<1> QED
  BY <1>2, <1>3 DEF Aside, Opt!NotSaved, Opt!UnsetOptind, Opt!Lost, Opt!Began

LEMMA OStarts == GivenOptions /\ Opt!Init => OInv
<1> SUFFICES ASSUME GivenOptions, Opt!Init PROVE OInv
  OBVIOUS
<1>1. /\ OPTIND = [val |-> 1, addr |-> 1] /\ getopts_ref = 0 /\ getopts_pos = 0
      /\ saved = Opt!NotSaved /\ seen = Opt!Began(1) /\ args \in ArgLists /\ optstring \in OptStrings
  BY DEF Opt!Init
<1>2. args \in Seq(Word) /\ Len(args) \in Nat /\ Setup
  BY <1>1 DEF GivenOptions, Setup
<1>3. Clamp(Len(args), OPTIND.val) = 1 /\ Letters(Len(args), OPTIND, getopts_ref, getopts_pos) = 0
  BY <1>1, <1>2 DEF Clamp, Letters
<1>4. ScanOK(args, 1, 1, 0, seen) /\ seen \in OptScans
  BY <1>1, <1>2, BeginsFine
<1>5. InWord(args, 1, 0)
  BY <1>2 DEF InWord, Word
<1>6. Fine(args, OPTIND, getopts_ref, getopts_pos, seen)
  BY <1>1, <1>3, <1>4, <1>5 DEF Fine
<1>7. saved \in Interrupted /\ OPTIND \in Optinds /\ OPTIND.addr = 1 /\ saved.OPTIND.addr = 0
  BY <1>1 DEF Interrupted, Optinds, Opt!NotSaved, Opt!UnsetOptind, Opt!Lost, Opt!Began, OptScans,
     GivenOptions
<1>8. Shapes /\ Addressed /\ Aside
  BY <1>1, <1>4, <1>7 DEF Shapes, Addressed, Aside
<1> QED
  BY <1>6, <1>8 DEF OInv

(* One call of getopts.                                                    *)
LEMMA ReadTyped ==
  ASSUME GivenOptions, Shapes
  PROVE  LET Z == Reads(Len(args), OPTIND, getopts_ref, getopts_pos)
         IN  Z \in Calls /\ Z.more = TRUE /\ Z.optind \in 1 .. Opt!count + 1
<1>1. Len(args) \in Nat /\ OPTIND.val \in Int /\ getopts_pos \in Nat
  BY SetupHolds DEF Shapes, Optinds
<1>2. Opt!Report("?", Opt!Unset) \in Reports
  BY SetupHolds, SaidTyped DEF Letter
<1>3. Clamp(Len(args), OPTIND.val) \in 1 .. Len(args) + 1
  BY <1>1, ClampIn
<1>4. Letters(Len(args), OPTIND, getopts_ref, getopts_pos) \in Nat
  BY <1>1 DEF Letters
<1> QED
  BY <1>1, <1>2, <1>3, <1>4 DEF Reads, Calls, Opt!count

Heard(s, G) ==
  IF s.ended THEN Opt!Lost
  ELSE IF G.more THEN [s EXCEPT !.reports = Append(@, G.report)] ELSE [s EXCEPT !.ended = TRUE]

LEMMA HeardIs ==
  ASSUME NEW s \in OptScans, NEW G \in Calls
  PROVE  /\ Heard(s, G) \in OptScans
         /\ s.ended => Heard(s, G) = Opt!Lost
         /\ ~s.ended /\ G.more => Heard(s, G) = [from |-> s.from, ended |-> FALSE,
                                              reports |-> s.reports \o <<G.report>>]
         /\ ~s.ended /\ ~G.more => Heard(s, G) = [from |-> s.from, reports |-> s.reports,
                                               ended |-> TRUE]
<1>1. G.report \in Reports /\ s.reports \in Seq(Reports) /\ s.from \in Nat
  BY DEF Calls, OptScans
<1>2. PICK q \in Seq(Reports), x \in Reports, f \in Nat : q = s.reports /\ x = G.report /\ f = s.from
  BY <1>1
<1>3. PICK r \in Seq(Reports) : r = Append(q, x) /\ r = q \o <<x>>
  <2>1. Append(q, x) = q \o <<x>>
    OBVIOUS
  <2>2. Append(q, x) \in Seq(Reports)
    OBVIOUS
  <2> QED
    BY <2>1, <2>2
<1>4. [s EXCEPT !.reports = r] = [from |-> s.from, reports |-> r, ended |-> s.ended]
  BY DEF OptScans
<1>5. [s EXCEPT !.ended = TRUE] = [from |-> f, reports |-> q, ended |-> TRUE]
  <2>1. s = [from |-> f, reports |-> q, ended |-> s.ended]
    BY <1>2 DEF OptScans
  <2>2. PICK b \in BOOLEAN : s = [from |-> f, reports |-> q, ended |-> b]
    BY <2>1 DEF OptScans
  <2>3. PICK y \in BOOLEAN : y = TRUE
    OBVIOUS
  <2>4. [s EXCEPT !.ended = y] = [from |-> f, reports |-> q, ended |-> y]
    BY <2>2
  <2> QED
    BY <2>3, <2>4
<1>6. CASE s.ended
  BY <1>6 DEF Heard, Opt!Lost, Opt!Began, OptScans
<1>7. CASE ~s.ended /\ G.more
  <2>1. Heard(s, G) = [from |-> s.from, reports |-> r, ended |-> s.ended]
    BY <1>2, <1>3, <1>4, <1>7 DEF Heard
  <2>2. s.ended = FALSE
    BY <1>7 DEF OptScans
  <2>3. [from |-> s.from, reports |-> r, ended |-> s.ended] \in OptScans
    BY <1>1, <1>3, <2>2 DEF OptScans
  <2> QED
    BY <1>2, <1>3, <1>7, <2>1, <2>2, <2>3
<1>8. CASE ~s.ended /\ ~G.more
  <2>1. Heard(s, G) = [from |-> s.from, reports |-> s.reports, ended |-> TRUE]
    BY <1>2, <1>5, <1>8 DEF Heard
  <2>2. [from |-> s.from, reports |-> s.reports, ended |-> TRUE] \in OptScans
    BY <1>1 DEF OptScans
  <2> QED
    BY <1>8, <2>1, <2>2
<1> QED
  BY <1>6, <1>7, <1>8

(* What is reported and what is left still make what the arguments mean.   *)
LEMMA ScanGoesOn ==
  ASSUME Setup, args \in Seq(Word), NEW Z \in Calls, Z.more = TRUE, Z.optind \in 1 .. Opt!count + 1,
         NEW G, G = Opt!gopt_run(Z), G \in Calls, G.optind \in 1 .. Opt!count + 1,
         Inside(args, G.optind, G.pos),
         NEW v, NEW s \in OptScans, ScanOK(args, v, Z.optind, Z.pos, s),
         NEW t, t = Heard(s, G)
  PROVE  ScanOK(args, G.optind, G.optind, G.pos, t)
<1>1. G.report \in Reports /\ s.reports \in Seq(Reports) /\ s.from \in Nat
  BY DEF Calls, OptScans
<1>2. CASE s.ended
  BY <1>2, HeardIs, LostFine
<1>3. CASE ~s.ended /\ G.more
  <2>1. t = [from |-> s.from, ended |-> FALSE, reports |-> s.reports \o <<G.report>>]
    BY <1>3, HeardIs
  <2>3. ASSUME s.from > 0
        PROVE  Opt!Meaning(args, s.from) = Cons(t.reports, Rest(args, G.optind, G.pos))
               /\ s.from \in 1 .. Len(args) + 1
    <3>1. /\ Inside(args, Z.optind, Z.pos) /\ s.from \in 1 .. Len(args) + 1
          /\ Opt!Meaning(args, s.from) = Cons(s.reports, Rest(args, Z.optind, Z.pos))
      BY <1>3, <2>3 DEF ScanOK
    <3>2. Rest(args, Z.optind, Z.pos) = Cons(<<G.report>>, Rest(args, G.optind, G.pos))
      BY <1>3, <3>1, RunTells
    <3>3. Rest(args, G.optind, G.pos) \in Meant
      <4>1. G.optind \in 1 .. Len(args) + 1 /\ G.pos \in Nat
        BY DEF Opt!count, Calls
      <4> QED
        BY <4>1, RestTyped
    <3>4. t.reports = s.reports \o <<G.report>>
      BY <1>1, <2>1
    <3>5. <<G.report>> \in Seq(Reports)
      BY <1>1
    <3>6. PICK a \in Seq(Reports), b \in Seq(Reports), Q \in Meant :
            a = s.reports /\ b = <<G.report>> /\ Q = Rest(args, G.optind, G.pos)
      BY <1>1, <3>3, <3>5
    <3>7. Cons(a \o b, Q) = Cons(a, Cons(b, Q))
      BY ConsTwice
    <3> QED
      BY <3>1, <3>2, <3>4, <3>6, <3>7
  <2>4. t.from = s.from /\ t.ended = FALSE
    BY <2>1
  <2> QED
    BY <2>3, <2>4 DEF ScanOK
<1>4. CASE ~s.ended /\ ~G.more
  <2>1. t = [from |-> s.from, reports |-> s.reports, ended |-> TRUE]
    BY <1>4, HeardIs
  <2>3. ASSUME s.from > 0
        PROVE  /\ s.from \in 1 .. Len(args) + 1 /\ s.reports = Opt!Meaning(args, s.from).reports
               /\ G.optind = Opt!Meaning(args, s.from).operand
    <3>1. /\ Inside(args, Z.optind, Z.pos) /\ s.from \in 1 .. Len(args) + 1
          /\ Opt!Meaning(args, s.from) = Cons(s.reports, Rest(args, Z.optind, Z.pos))
      BY <1>4, <2>3 DEF ScanOK
    <3>2. Rest(args, Z.optind, Z.pos) = [reports |-> <<>>, operand |-> G.optind]
      BY <1>4, <3>1, RunTells
    <3>3. s.reports \o <<>> = s.reports
      BY <1>1
    <3>4. Cons(s.reports, [reports |-> <<>>, operand |-> G.optind])
            = [reports |-> s.reports, operand |-> G.optind]
      BY <3>3 DEF Cons
    <3> QED
      BY <3>1, <3>2, <3>4
  <2> QED
    BY <2>1, <2>3 DEF ScanOK
<1> QED
  BY <1>2, <1>3, <1>4

LEMMA GetoptsKeeps ==
  ASSUME GivenOptions, OInv, Opt!builtin_getopts
  PROVE  OInv'
<1> DEFINE Z == Reads(Len(args), OPTIND, getopts_ref, getopts_pos)
           G == Opt!gopt_run(Z)
<1>1. Setup /\ args \in Seq(Word) /\ Shapes
  BY SetupHolds DEF OInv
<1>2. Z \in Calls /\ Z.more = TRUE /\ Z.optind \in 1 .. Opt!count + 1
  BY <1>1, ReadTyped
<1>3. /\ Z.optind = Clamp(Len(args), OPTIND.val)
      /\ Z.pos = Letters(Len(args), OPTIND, getopts_ref, getopts_pos)
  BY DEF Reads
<1>4. Opt!gopt_read_optind = Z
  BY ReadIs
<1>5. /\ \E a \in Opt!Free : OPTIND' = [val |-> G.optind, addr |-> a] /\ getopts_ref' = a
      /\ getopts_pos' = G.pos
      /\ seen' = Heard(seen, G)
      /\ UNCHANGED <<optstring, args, saved>>
  BY <1>4 DEF Opt!builtin_getopts, Opt!gopt_commit_optind, Heard
<1>6. PICK a \in Opt!Free : OPTIND' = [val |-> G.optind, addr |-> a] /\ getopts_ref' = a
  BY <1>5
<1>7. a \in Addrs /\ a # 0 /\ a # saved.OPTIND.addr
  BY DEF Opt!Free, Opt!Live, GivenOptions
<1>8. Z.optind <= Opt!count => Z.pos <= Len(args[Z.optind])
  BY <1>1, <1>2, <1>3 DEF OInv, Fine, InWord, Opt!count
<1> HIDE DEF Z, G
<1>9. G \in Calls /\ G.optind \in 1 .. Opt!count + 1 /\ Inside(args, G.optind, G.pos)
  BY <1>1, <1>2, <1>8, RunWithin DEF G
<1>10. seen' \in OptScans /\ ScanOK(args, G.optind, G.optind, G.pos, seen')
  <2>1. seen \in OptScans /\ ScanOK(args, OPTIND.val, Z.optind, Z.pos, seen)
    BY <1>1, <1>3 DEF OInv, Fine, Shapes
  <2>2. PICK t : t = seen'
    OBVIOUS
  <2> QED
    BY <1>1, <1>2, <1>5, <1>9, <2>1, <2>2, HeardIs, ScanGoesOn DEF G
<1>11. PICK o \in Optinds, g \in Nat, t \in OptScans :
         o = OPTIND' /\ g = getopts_pos' /\ t = seen' /\ o.val = G.optind /\ o.addr = a /\ g = G.pos
  BY <1>5, <1>6, <1>7, <1>9, <1>10 DEF Optinds, Calls
<1>12. Clamp(Len(args), o.val) = G.optind /\ Letters(Len(args), o, a, g) = g
  <2>1. Len(args) \in Nat /\ o.val \in Int /\ o.val \in 1 .. Len(args) + 1 /\ o # Opt!UnsetOptind
    BY <1>1, <1>7, <1>9, <1>11 DEF Opt!count, Opt!UnsetOptind
  <2>2. Clamp(Len(args), o.val) = o.val
    BY <2>1, ClampIn
  <2>3. ~((IF o.val < 1 THEN 1 ELSE o.val) > Len(args) + 1)
    BY <2>1
  <2> QED
    BY <1>11, <2>1, <2>2, <2>3 DEF Letters
<1>13. Fine(args, o, a, g, t)
  <2>1. InWord(args, G.optind, g)
    <3>1. G.optind \in DOMAIN args => Len(args[G.optind]) \in Nat
      BY <1>1 DEF Word
    <3> QED
      BY <1>9, <1>11, <3>1 DEF Inside, InWord
  <2> QED
    BY <1>10, <1>11, <1>12, <2>1 DEF Fine
<1>14. Fine(args, OPTIND, getopts_ref, getopts_pos, seen)'
  <2>1. PICK w : w = args
    OBVIOUS
  <2>2. Fine(w, o, a, g, t)'
    BY <1>5, <1>13, <2>1, FineAsBefore
  <2> QED
    BY <1>5, <1>6, <1>11, <2>1, <2>2
<1>15. Shapes'
  BY <1>1, <1>5, <1>6, <1>7, <1>9, <1>10, <1>11 DEF Shapes
<1>16. Addressed'
  BY <1>5, <1>6, <1>7, <1>9, <1>11 DEF Addressed, OInv, Addressed
<1>17. Aside'
  BY <1>5, AsideAsBefore DEF OInv
<1> QED
  BY <1>14, <1>15, <1>16, <1>17 DEF OInv

(* A scan that begins where OPTIND is put: at the first letter.            *)
LEMMA BeginsThere ==
  ASSUME Setup, NEW words \in Seq(Word), NEW o \in Optinds, NEW ref, NEW pos \in Nat, NEW s,
         Letters(Len(words), o, ref, pos) = 0,
         s = Opt!Began(Clamp(Len(words), o.val)) \/ s = Opt!Lost
  PROVE  Fine(words, o, ref, pos, s) /\ s \in OptScans
<1>1. Len(words) \in Nat /\ o.val \in Int
  BY DEF Optinds
<1>2. PICK i \in 1 .. Len(words) + 1 : i = Clamp(Len(words), o.val)
  BY <1>1, ClampIn
<1>3. InWord(words, i, 0)
  BY <1>1 DEF InWord, Word
<1>4. ScanOK(words, o.val, i, 0, s) /\ s \in OptScans
  BY <1>2, BeginsFine, LostFine
<1> QED
  BY <1>2, <1>3, <1>4 DEF Fine

LEMMA SetsKeeps ==
  ASSUME GivenOptions, Liberties = {}, OInv, NEW i \in OptInds, Opt!UserSetsOptind(i)
  PROVE  OInv'
<1>1. Setup /\ args \in Seq(Word) /\ Shapes
  BY SetupHolds DEF OInv
<1>2. PICK a \in Opt!Free : OPTIND' = [val |-> i, addr |-> a]
  BY DEF Opt!UserSetsOptind
<1>3. /\ getopts_ref \in Opt!Live \cup {0}
      /\ seen' = Opt!Began(IF i < 1 THEN 1 ELSE IF i > Opt!count THEN Opt!count + 1 ELSE i)
      /\ UNCHANGED <<optstring, args, getopts_ref, getopts_pos, saved>>
  BY DEF Opt!UserSetsOptind
<1>4. a \in Addrs /\ a # 0 /\ a # getopts_ref
  BY <1>3 DEF Opt!Free, Opt!Live, GivenOptions
<1>5. i \in Int /\ Len(args) \in Nat /\ getopts_pos \in Nat
  BY <1>1 DEF GivenOptions, Shapes
<1>6. PICK o \in Optinds : o = OPTIND' /\ o.val = i /\ o.addr = a
  BY <1>2, <1>4, <1>5 DEF Optinds
<1>7. Letters(Len(args), o, getopts_ref, getopts_pos) = 0
  BY <1>4, <1>6 DEF Letters
<1>8. PICK s : s = seen'
  OBVIOUS
<1>9. s = Opt!Began(Clamp(Len(args), o.val))
  <2>1. Clamp(Len(args), i) = IF i < 1 THEN 1 ELSE IF i > Len(args) THEN Len(args) + 1 ELSE i
    BY <1>5 DEF Clamp
  <2> QED
    BY <1>3, <1>6, <1>8, <2>1 DEF Opt!count
<1>10. Fine(args, o, getopts_ref, getopts_pos, s) /\ s \in OptScans
  BY <1>1, <1>5, <1>7, <1>9, BeginsThere
<1>11. Fine(args, OPTIND, getopts_ref, getopts_pos, seen)'
  <2>1. PICK w, r, p : w = args /\ r = getopts_ref /\ p = getopts_pos
    OBVIOUS
  <2>2. Fine(w, o, r, p, s)'
    BY <1>3, <1>10, <2>1, FineAsBefore
  <2> QED
    BY <1>3, <1>6, <1>8, <2>1, <2>2
<1>12. Shapes'
  BY <1>1, <1>3, <1>4, <1>6, <1>8, <1>10 DEF Shapes
<1>13. Addressed'
  BY <1>3, <1>4, <1>6 DEF Addressed, OInv
<1>14. Aside'
  BY <1>3, AsideAsBefore DEF OInv
<1> QED
  BY <1>11, <1>12, <1>13, <1>14 DEF OInv

LEMMA UnsetsKeeps ==
  ASSUME GivenOptions, OInv, Opt!UserUnsetsOptind
  PROVE  OInv'
<1>1. Setup /\ args \in Seq(Word) /\ Shapes
  BY SetupHolds DEF OInv
<1>2. /\ OPTIND' = Opt!UnsetOptind /\ seen' = Opt!Began(1)
      /\ UNCHANGED <<optstring, args, getopts_ref, getopts_pos, saved>>
  BY DEF Opt!UserUnsetsOptind
<1>3. Len(args) \in Nat /\ getopts_pos \in Nat
  BY <1>1 DEF Shapes
<1>4. PICK o \in Optinds : o = Opt!UnsetOptind /\ o.val = 0 /\ o.addr = 0
  <2>1. Opt!UnsetOptind \in Optinds /\ Opt!UnsetOptind.val = 0 /\ Opt!UnsetOptind.addr = 0
    BY DEF Opt!UnsetOptind, Optinds
  <2> QED
    BY <2>1
<1>5. Letters(Len(args), o, getopts_ref, getopts_pos) = 0 /\ Clamp(Len(args), o.val) = 1
  BY <1>3, <1>4 DEF Letters, Clamp
<1>6. Fine(args, o, getopts_ref, getopts_pos, Opt!Began(1)) /\ Opt!Began(1) \in OptScans
  BY <1>1, <1>3, <1>5, BeginsThere
<1>7. Fine(args, OPTIND, getopts_ref, getopts_pos, seen)'
  <2>1. PICK w, r, p, s : w = args /\ r = getopts_ref /\ p = getopts_pos /\ s = Opt!Began(1)
    OBVIOUS
  <2>2. Fine(w, o, r, p, s)'
    BY <1>2, <1>6, <2>1, FineAsBefore
  <2> QED
    BY <1>2, <1>4, <2>1, <2>2
<1>8. Shapes'
  BY <1>1, <1>2, <1>4, <1>6 DEF Shapes
<1>9. Addressed'
  BY <1>2, <1>4 DEF Addressed, OInv
<1>10. Aside'
  BY <1>2, AsideAsBefore DEF OInv
<1> QED
  BY <1>7, <1>8, <1>9, <1>10 DEF OInv

LEMMA ArgsKeeps ==
  ASSUME GivenOptions, Liberties = {}, OInv, NEW new \in ArgLists, Opt!UserSetsArgs(new)
  PROVE  OInv'
<1>1. Setup /\ args \in Seq(Word) /\ Shapes /\ new \in Seq(Word) /\ Len(new) \in Nat
  BY SetupHolds DEF OInv, GivenOptions
<1>2. /\ OPTIND.val \in DOMAIN new => getopts_pos <= Len(new[OPTIND.val])
      /\ args' = new
      /\ seen' = IF OPTIND = Opt!UnsetOptind THEN Opt!Began(1) ELSE Opt!Lost
      /\ UNCHANGED <<optstring, OPTIND, getopts_ref, getopts_pos, saved>>
  BY DEF Opt!UserSetsArgs
<1>3. PICK o \in Optinds, r \in Addrs \cup {0}, p \in Nat :
        o = OPTIND /\ r = getopts_ref /\ p = getopts_pos
  BY <1>1 DEF Shapes
<1> DEFINE s == IF o = Opt!UnsetOptind THEN Opt!Began(1) ELSE Opt!Lost
<1>9. s = seen'
  BY <1>2, <1>3
<1> HIDE DEF s
<1>4. Fine(new, o, r, p, s) /\ s \in OptScans
  <2>1. CASE Letters(Len(new), o, r, p) = 0
    <3>1. o = Opt!UnsetOptind => Clamp(Len(new), o.val) = 1
      BY <1>1 DEF Clamp, Opt!UnsetOptind
    <3>2. s = Opt!Began(Clamp(Len(new), o.val)) \/ s = Opt!Lost
      BY <3>1 DEF s
    <3> QED
      BY <1>1, <2>1, <3>2, BeginsThere
  <2>2. CASE Letters(Len(new), o, r, p) # 0
    <3>1. /\ o # Opt!UnsetOptind /\ o.addr = r /\ o.addr # 0 /\ Letters(Len(new), o, r, p) = p
          /\ o.val <= Len(new) + 1 /\ o.val \in Int
      BY <1>1, <1>3, <2>2 DEF Letters, Shapes, Optinds
    <3>2. o.val >= 1
      BY <1>3, <2>2, <3>1 DEF OInv, Addressed
    <3>3. Clamp(Len(new), o.val) = o.val
      BY <1>1, <3>1, <3>2 DEF Clamp
    <3>4. InWord(new, o.val, p)
      BY <1>2, <1>3 DEF InWord
    <3>5. s = Opt!Lost
      BY <3>1 DEF s
    <3> QED
      BY <3>1, <3>3, <3>4, <3>5, LostFine DEF Fine
  <2> QED
    BY <2>1, <2>2
<1>5. Fine(args, OPTIND, getopts_ref, getopts_pos, seen)'
  <2>1. Fine(new, o, r, p, s)'
    BY <1>2, <1>4, FineAsBefore
  <2> QED
    BY <1>2, <1>3, <1>9, <2>1
<1>6. Shapes'
  BY <1>1, <1>2, <1>3, <1>4, <1>9 DEF Shapes
<1>7. Addressed'
  BY <1>2 DEF Addressed, OInv
<1>8. Aside'
  BY <1>2, AsideAsBefore DEF OInv
<1> QED
  BY <1>5, <1>6, <1>7, <1>8 DEF OInv

(* A function scans for itself: what it interrupts is at a first letter.   *)
LEMMA CallKeeps ==
  ASSUME GivenOptions, Liberties = {}, OInv, NEW own \in ArgLists, Opt!CallWithLocal(own)
  PROVE  OInv'
<1>1. /\ Setup /\ args \in Seq(Word) /\ Shapes /\ own \in Seq(Word)
      /\ Len(own) \in Nat /\ Len(args) \in Nat
  BY SetupHolds DEF OInv, GivenOptions
<1>2. PICK copy \in Opt!Free, a \in Opt!Free :
        /\ copy # a
        /\ saved' = [OPTIND |-> [OPTIND EXCEPT !.addr = copy], args |-> args, seen |-> seen]
        /\ OPTIND' = [val |-> 1, addr |-> a]
  BY DEF Opt!CallWithLocal
<1>3. /\ getopts_pos = 0 /\ args' = own /\ seen' = Opt!Began(1)
      /\ UNCHANGED <<optstring, getopts_ref, getopts_pos>>
  BY DEF Opt!CallWithLocal
<1>4. copy \in Addrs /\ copy # 0 /\ a \in Addrs /\ a # 0
  BY DEF Opt!Free, GivenOptions
<1>5. PICK q \in Optinds, v \in Int : q = [OPTIND EXCEPT !.addr = copy] /\ q.val = OPTIND.val
                                      /\ q.addr = copy /\ v = OPTIND.val
  <2>1. PICK p \in Optinds : p = OPTIND
    BY <1>1 DEF Shapes
  <2>2. [p EXCEPT !.addr = copy] = [val |-> p.val, addr |-> copy]
    BY DEF Optinds
  <2>3. [p EXCEPT !.addr = copy] \in Optinds /\ p.val \in Int
    BY <1>4, <2>2 DEF Optinds
  <2> QED
    BY <2>1, <2>2, <2>3
<1>6. PICK w \in ArgLists, s \in OptScans : w = args /\ s = seen /\ w \in Seq(Word)
  BY <1>1 DEF Shapes
<1>7. PICK z \in Interrupted : z = saved' /\ z.OPTIND = q /\ z.args = w /\ z.seen = s
  <2>1. saved' = [OPTIND |-> q, args |-> w, seen |-> s]
    BY <1>2, <1>5, <1>6
  <2> QED
    BY <2>1 DEF Interrupted
<1>8. PICK o \in Optinds : o = OPTIND' /\ o.val = 1 /\ o.addr = a
  <2>1. [val |-> 1, addr |-> a] \in Optinds
    BY <1>4 DEF Optinds
  <2> QED
    BY <1>2, <2>1
<1>9. Fine(own, o, getopts_ref, getopts_pos, Opt!Began(1)) /\ Opt!Began(1) \in OptScans
  <2>1. Letters(Len(own), o, getopts_ref, getopts_pos) = 0 /\ Clamp(Len(own), o.val) = 1
    BY <1>1, <1>3, <1>8 DEF Letters, Clamp
  <2> QED
    BY <1>1, <1>3, <1>8, <2>1, BeginsThere
<1>10. Fine(args, OPTIND, getopts_ref, getopts_pos, seen)'
  <2>1. PICK r, p, b : r = getopts_ref /\ p = getopts_pos /\ b = Opt!Began(1)
    OBVIOUS
  <2>2. Fine(own, o, r, p, b)'
    BY <1>3, <1>9, <2>1, FineAsBefore
  <2> QED
    BY <1>3, <1>8, <2>1, <2>2
<1>11. Aside'
  <2>1. ScanOK(w, v, Clamp(Len(w), v), 0, s)
    <3>1. Letters(Len(w), OPTIND, getopts_ref, getopts_pos) = 0
      BY <1>3 DEF Letters
    <3> QED
      BY <1>5, <1>6, <3>1 DEF OInv, Fine
  <2>2. ScanOK(w, v, Clamp(Len(w), v), 0, s)'
    BY <1>3, <2>1, ScanAsBefore
  <2>3. ScanOK(z.args, z.OPTIND.val, Clamp(Len(z.args), z.OPTIND.val), 0, z.seen)'
    BY <1>5, <1>7, <2>2
  <2> QED
    BY <1>7, <2>3 DEF Aside
<1>12. Shapes'
  BY <1>1, <1>3, <1>4, <1>7, <1>8, <1>9 DEF Shapes
<1>13. Addressed'
  BY <1>3, <1>4, <1>5, <1>7, <1>8 DEF Addressed
<1> QED
  BY <1>10, <1>11, <1>12, <1>13 DEF OInv

(* It returns, and the scan it interrupted goes on at a first letter.      *)
LEMMA ReturnKeeps ==
  ASSUME GivenOptions, OInv, Opt!Return
  PROVE  OInv'
<1>1. Setup /\ Shapes
  BY SetupHolds DEF OInv
<1>2. /\ OPTIND' = saved.OPTIND /\ args' = saved.args /\ seen' = saved.seen
      /\ saved' = Opt!NotSaved /\ saved # Opt!NotSaved
      /\ UNCHANGED <<optstring, getopts_ref, getopts_pos>>
  BY DEF Opt!Return
<1>3. PICK o \in Optinds, w \in ArgLists \cup {<<>>}, s \in OptScans :
        o = saved.OPTIND /\ w = saved.args /\ s = saved.seen
  BY <1>1 DEF Shapes, Interrupted
<1>4. o.addr # 0 /\ (o.addr = getopts_ref => getopts_pos = 0)
  BY <1>2, <1>3 DEF OInv, Addressed
<1>5. w \in Seq(Word) /\ w \in ArgLists /\ Len(w) \in Nat /\ getopts_pos \in Nat
  BY <1>1, <1>2, <1>3 DEF Shapes, GivenOptions
<1>6. Letters(Len(w), o, getopts_ref, getopts_pos) = 0
  BY <1>4 DEF Letters
<1>7. Fine(w, o, getopts_ref, getopts_pos, s)
  <2>1. PICK i \in 1 .. Len(w) + 1 : i = Clamp(Len(w), o.val)
    BY <1>5, ClampIn DEF Optinds
  <2>2. InWord(w, i, 0)
    BY <1>5 DEF InWord, Word
  <2>3. ScanOK(w, o.val, i, 0, s)
    BY <1>2, <1>3, <2>1 DEF OInv, Aside
  <2> QED
    BY <1>6, <2>1, <2>2, <2>3 DEF Fine
<1>8. Fine(args, OPTIND, getopts_ref, getopts_pos, seen)'
  <2>1. PICK r, p : r = getopts_ref /\ p = getopts_pos
    OBVIOUS
  <2>2. Fine(w, o, r, p, s)'
    BY <1>2, <1>7, <2>1, FineAsBefore
  <2> QED
    BY <1>2, <1>3, <2>1, <2>2
<1>9. Opt!NotSaved \in Interrupted /\ Opt!NotSaved.OPTIND.addr = 0
  BY DEF Interrupted, Optinds, Opt!NotSaved, Opt!UnsetOptind, Opt!Lost, Opt!Began, OptScans
<1>10. Shapes'
  BY <1>1, <1>2, <1>3, <1>4, <1>5, <1>9 DEF Shapes
<1>11. Addressed'
  BY <1>2, <1>3, <1>4, <1>9 DEF Addressed
<1>12. Aside'
  BY <1>2 DEF Aside
<1> QED
  BY <1>8, <1>10, <1>11, <1>12 DEF OInv

LEMMA PrefixOfLonger ==
  ASSUME NEW s \in Seq(Reports), NEW t \in Seq(Reports)
  PROVE  Opt!IsPrefix(s, s \o t)
BY DEF Opt!IsPrefix

LEMMA PrefixOfWhole ==
  ASSUME NEW s \in Seq(Reports)
  PROVE  Opt!IsPrefix(s, s)
BY DEF Opt!IsPrefix

(* Every step keeps the invariant, and the invariant is what we are after. *)
LEMMA IdleKeeps ==
  ASSUME OInv, UNCHANGED Opt!vars
  PROVE  OInv'
<1>1. UNCHANGED <<args, optstring, OPTIND, getopts_ref, getopts_pos, saved, seen>>
  BY DEF Opt!vars
<1>2. Shapes' /\ Addressed'
  BY <1>1 DEF OInv, Shapes, Addressed
<1>3. Fine(args, OPTIND, getopts_ref, getopts_pos, seen)'
  <2>1. PICK w, o, r, p, s : w = args /\ o = OPTIND /\ r = getopts_ref /\ p = getopts_pos /\ s = seen
    OBVIOUS
  <2>2. Fine(w, o, r, p, s)'
    BY <1>1, <2>1, FineAsBefore DEF OInv
  <2> QED
    BY <1>1, <2>1, <2>2
<1> QED
  BY <1>1, <1>2, <1>3, AsideAsBefore DEF OInv

LEMMA OSteps ==
  ASSUME GivenOptions, Liberties = {}, OInv, [Opt!Next]_(Opt!vars)
  PROVE  OInv'
<1>1. CASE UNCHANGED Opt!vars
  BY <1>1, IdleKeeps
<1>2. CASE Opt!Next
  BY <1>2, GetoptsKeeps, SetsKeeps, UnsetsKeeps, ArgsKeeps, CallKeeps, ReturnKeeps DEF Opt!Next
<1> QED
  BY <1>1, <1>2

LEMMA OShows ==
  ASSUME GivenOptions, OInv
  PROVE  Opt!ReportsAsWritten
<1>1. Setup /\ args \in Seq(Word) /\ Shapes
  BY SetupHolds DEF OInv
<1>2. Opt!Within(Opt!gopt_read_optind)
  BY ReadIs DEF Opt!Within, OInv, Fine, InWord, Reads, Opt!cur
<1>3. ASSUME seen.from > 0
      PROVE  LET meant == Opt!Meaning(args, seen.from)
             IN  /\ Opt!IsPrefix(seen.reports, meant.reports)
                 /\ seen.ended => seen.reports = meant.reports /\ OPTIND.val = meant.operand
  <2> DEFINE Z == Reads(Len(args), OPTIND, getopts_ref, getopts_pos)
  <2>1. ScanOK(args, OPTIND.val, Z.optind, Z.pos, seen) /\ seen.reports \in Seq(Reports)
    BY <1>1 DEF OInv, Fine, Reads, Shapes, OptScans
  <2>2. Z \in Calls /\ Z.optind \in 1 .. Len(args) + 1
    BY <1>1, ReadTyped DEF Opt!count
  <2> HIDE DEF Z
  <2>3. CASE seen.ended
    <3>1. PICK s \in Seq(Reports) : s = seen.reports
      BY <2>1
    <3>2. Opt!IsPrefix(s, s)
      BY PrefixOfWhole
    <3> QED
      BY <1>3, <2>1, <2>3, <3>1, <3>2 DEF ScanOK
  <2>4. CASE ~seen.ended
    <3>1. Inside(args, Z.optind, Z.pos)
          /\ Opt!Meaning(args, seen.from) = Cons(seen.reports, Rest(args, Z.optind, Z.pos))
      BY <1>3, <2>1, <2>4 DEF ScanOK
    <3>2. Z.pos \in Nat
      BY <2>2 DEF Calls
    <3>3. Rest(args, Z.optind, Z.pos).reports \in Seq(Reports)
      BY <1>1, <2>2, <3>1, <3>2, RestTyped DEF Meant
    <3>4. PICK s \in Seq(Reports), t \in Seq(Reports) :
            s = seen.reports /\ t = Rest(args, Z.optind, Z.pos).reports
      BY <2>1, <3>3
    <3>5. Opt!IsPrefix(s, s \o t)
      BY PrefixOfLonger
    <3>6. Opt!Meaning(args, seen.from).reports = s \o t
      <4>1. Cons(seen.reports, Rest(args, Z.optind, Z.pos)).reports
              = seen.reports \o Rest(args, Z.optind, Z.pos).reports
        BY DEF Cons
      <4> QED
        BY <4>1, <3>1, <3>4, Zenon
    <3> QED
      BY <2>4, <3>4, <3>5, <3>6
  <2> QED
    BY <2>3, <2>4
<1> QED
  BY <1>2, <1>3 DEF Opt!ReportsAsWritten

(***************************************************************************)
(* The star of the prompt                                                  *)
(*                                                                         *)
(* For any repositories, any kinds of trees and any number of commands, an *)
(* answer the prompt may show without asking again is the one git would    *)
(* give there now.                                                         *)
(***************************************************************************)
(* What the model is told of trees; and that no subshell changes one: its  *)
(* commands are counted in its own copy of git_scan_gen.                   *)
Lines == {"M.", ".M", "u", "?"}
TreesOfLines == Trees \subseteq SUBSET Lines /\ Git!Outside \notin Roots
NoSubshell == Unseen \subseteq {"foreign"}

(***************************************************************************)
(* Lines and the bits they set                                             *)
(***************************************************************************)
Bits == {"staged", "unstaged", "unmerged", "untracked"}

(* Reading a set of lines in two parts gives the bits of both: where the   *)
(* pipe is cut makes no difference (gs_drain, gs_feed).                    *)
LEMMA FeedOfBoth ==
  ASSUME NEW A, NEW B
  PROVE  Git!gs_feed(A \cup B) = Git!gs_feed(A) \cup Git!gs_feed(B)
BY DEF Git!gs_feed

LEMMA FeedOfNone == Git!gs_feed({}) = {}
BY DEF Git!gs_feed

(* No line of a scan sets a bit the prompt did not ask for.                *)
LEMMA FeedWanted ==
  ASSUME NEW t \in SUBSET Lines, NEW u \in BOOLEAN
  PROVE  Git!gs_feed(Git!Printed(t, u)) \subseteq Git!Wanted(u)
<1>1. \A l \in Git!Printed(t, u) : Git!gs_line(l) \subseteq Git!Wanted(u)
  <2> SUFFICES ASSUME NEW l \in Git!Printed(t, u)
               PROVE  Git!gs_line(l) \subseteq Git!Wanted(u)
    OBVIOUS
  <2>1. l \in Lines /\ (l = "?" => u)
    BY DEF Git!Printed, Lines
  <2> QED
    BY <2>1 DEF Git!gs_line, Git!Wanted, Lines
<1> QED
  BY <1>1 DEF Git!gs_feed

LEMMA FeedBits ==
  ASSUME NEW t \in SUBSET Lines
  PROVE  Git!gs_feed(t) \subseteq Bits
<1>1. \A l \in t : Git!gs_line(l) \subseteq Bits
  BY DEF Git!gs_line, Bits, Lines
<1> QED
  BY <1>1 DEF Git!gs_feed

(***************************************************************************)
(* The inductive invariant                                                 *)
(***************************************************************************)
Caches == [init : BOOLEAN, root : Roots \cup {Git!Outside}, gen : Nat, untracked : BOOLEAN,
           over : BOOLEAN, busy : BOOLEAN, cur : SUBSET (Bits \cup {"dirty"}),
           acc : SUBSET Bits, last : {"none", "quick", "slow"}]
Scans == [runs : BOOLEAN, read : BOOLEAN, root : Roots \cup {Git!Outside},
          untracked : BOOLEAN, todo : SUBSET Lines, pipe : SUBSET Lines]

ScanTyped ==
  /\ where \in Roots \cup {Git!Outside} /\ tree \in [Roots -> Trees]
  /\ gen \in Nat /\ untracked \in BOOLEAN
  /\ cache \in Caches /\ scan \in Scans

(* The cache and the scanner speak of one scan.                            *)
OneScan ==
  /\ cache.gen <= gen
  /\ cache.busy <=> scan.runs
  /\ cache.init => cache.root \in Roots
  /\ cache.busy => /\ cache.init /\ scan.root = cache.root
                   /\ scan.untracked = cache.untracked
  /\ cache.busy /\ ~scan.read => scan.todo = {} /\ scan.pipe = {} /\ cache.acc = {}

(* Nothing the shell knows of touched the tree since this scan was asked.  *)
Believed == cache.gen = gen /\ cache.root \in Roots \ excused

Whole == Git!Answer(cache.root, cache.untracked)

(* What is read, what is in the pipe and what is still to be written make  *)
(* the answer together; and what was published is the answer.              *)
InFlight ==
  cache.busy /\ scan.read /\ Believed =>
    cache.acc \cup Git!gs_feed(scan.pipe \cup scan.todo) = Whole
Published ==
  cache.init /\ ~cache.busy /\ ~cache.over /\ Believed => cache.cur = Git!Dirty(Whole)

GInv == ScanTyped /\ OneScan /\ InFlight /\ Published

LEMMA AnswerWanted ==
  ASSUME TreesOfLines, ScanTyped, NEW r \in Roots, NEW u \in BOOLEAN
  PROVE  Git!Answer(r, u) \subseteq Git!Wanted(u) /\ Git!Answer(r, u) \subseteq Bits
<1>1. tree[r] \in SUBSET Lines
  BY DEF TreesOfLines, ScanTyped
<1>2. Git!Wanted(u) \subseteq Bits
  BY DEF Git!Wanted, Bits
<1> QED
  BY <1>1, <1>2, FeedWanted DEF Git!Answer

LEMMA DirtyBits ==
  ASSUME NEW b \in SUBSET Bits
  PROVE  Git!Dirty(b) \in SUBSET (Bits \cup {"dirty"})
BY DEF Git!Dirty

(***************************************************************************)
(* The steps                                                               *)
(***************************************************************************)
LEMMA GStarts == TreesOfLines /\ Git!Init => GInv
<1> SUFFICES ASSUME TreesOfLines, Git!Init PROVE GInv
  OBVIOUS
<1>1. ScanTyped
  BY DEF Git!Init, ScanTyped, Caches, Scans, Git!NoCache, Git!NoScan
<1> QED
  BY <1>1 DEF Git!Init, GInv, OneScan, InFlight, Published, Git!NoCache, Git!NoScan

(* A readable pipe: the answer is published when it is whole, or when no   *)
(* further line could add to it.                                           *)
LEMMA PollKeeps ==
  ASSUME TreesOfLines, GInv, cache.busy, Git!poll_done(cache),
         UNCHANGED <<where, tree, gen, untracked, excused>>
  PROVE  GInv'
<1> DEFINE c == Git!gs_drain(cache)
<1>0. ScanTyped /\ OneScan /\ InFlight
  BY DEF GInv
<1>1. Git!gs_feed(scan.pipe) \in SUBSET Bits
  BY <1>0, FeedBits DEF ScanTyped, Scans
<1>2. /\ c \in Caches /\ c.acc = cache.acc \cup Git!gs_feed(scan.pipe)
      /\ c.init = cache.init /\ c.root = cache.root /\ c.gen = cache.gen
      /\ c.untracked = cache.untracked /\ c.busy = cache.busy /\ c.over = cache.over
  BY <1>0, <1>1 DEF Git!gs_drain, ScanTyped, Caches
<1>3. Believed /\ scan.read => c.acc \cup Git!gs_feed(scan.todo) = Whole
  BY <1>0, <1>2, FeedOfBoth DEF InFlight
<1>4. UNCHANGED Whole <=> Git!Answer(cache'.root, cache'.untracked)
                          = Git!Answer(cache.root, cache.untracked)
  BY DEF Whole, Git!Answer
<1>5. CASE Git!Drained(c)
  <2> DEFINE p == Git!git_scan_publish(c)
  <2>1. cache' = p /\ scan' = Git!NoScan
    BY <1>5 DEF Git!poll_done
  <2>2. Git!Dirty(c.acc) \in SUBSET (Bits \cup {"dirty"})
    BY <1>2, DirtyBits DEF Caches
  <2>3. /\ p \in Caches /\ p.cur = Git!Dirty(c.acc) /\ p.init = cache.init /\ p.root = cache.root
        /\ p.gen = cache.gen /\ p.untracked = cache.untracked /\ p.busy = FALSE
    BY <1>2, <2>2 DEF Git!git_scan_publish, Git!git_scan_drop, Caches
  <2>4. Believed => c.acc = Whole
    <3> SUFFICES ASSUME Believed PROVE c.acc = Whole
      OBVIOUS
    <3>1. CASE scan.read /\ scan.todo = {}
      BY <1>3, <3>1, FeedOfNone
    <3>2. CASE Git!Wanted(c.untracked) \subseteq c.acc
      <4>1. scan.read
        <5>1. "staged" \in c.acc
          BY <3>2 DEF Git!Wanted
        <5> QED
          BY <5>1, <1>0, <1>2, FeedOfNone DEF OneScan
      <4>2. Whole \subseteq Git!Wanted(cache.untracked)
        BY <1>0, AnswerWanted DEF Believed, Whole, ScanTyped, Caches
      <4> QED
        BY <1>2, <1>3, <3>2, <4>1, <4>2
    <3> QED
      BY <1>5, <3>1, <3>2 DEF Git!Drained
  <2>5. ScanTyped'
    BY <1>0, <2>1, <2>3 DEF ScanTyped, Scans, Git!NoScan
  <2>6. OneScan'
    BY <1>0, <2>1, <2>3 DEF OneScan, Git!NoScan
  <2>7. InFlight'
    BY <2>1, <2>3 DEF InFlight
  <2>8. Published'
    BY <2>1, <2>3, <2>4 DEF Published, Believed, Whole, Git!Answer
  <2> QED
    BY <2>5, <2>6, <2>7, <2>8 DEF GInv
<1>6. CASE ~Git!Drained(c)
  <2>1. cache' = c /\ scan' = [scan EXCEPT !.pipe = {}]
    BY <1>6 DEF Git!poll_done
  <2>2. /\ scan' \in Scans /\ scan'.runs = scan.runs /\ scan'.read = scan.read
        /\ scan'.root = scan.root /\ scan'.untracked = scan.untracked
        /\ scan'.todo = scan.todo /\ scan'.pipe = {}
    BY <1>0, <2>1 DEF ScanTyped, Scans
  <2>3. ScanTyped'
    BY <1>0, <1>2, <2>1, <2>2 DEF ScanTyped
  <2>4. OneScan'
    BY <1>0, <1>2, <2>1, <2>2, FeedOfNone DEF OneScan
  <2>5. InFlight'
    <3>1. {} \cup scan.todo = scan.todo
      OBVIOUS
    <3> QED
      BY <1>2, <1>3, <2>1, <2>2, <3>1 DEF InFlight, Believed, Whole, Git!Answer
  <2>6. Published'
    BY <1>2, <2>1 DEF Published
  <2> QED
    BY <2>3, <2>4, <2>5, <2>6 DEF GInv
<1> QED
  BY <1>5, <1>6

(* A scan is asked for: it cannot be started, it answers while the prompt  *)
(* waits, or it goes on.                                                   *)
LEMMA SpawnKeeps ==
  ASSUME TreesOfLines, GInv, where # Git!Outside,
         NEW c \in Caches, c.gen <= gen, Git!spawn_check(Git!git_scan_wait(c)),
         UNCHANGED <<where, tree, gen, untracked>>
  PROVE  GInv'
<1> DEFINE w == Git!git_scan_wait(c)
<1>0. ScanTyped /\ OneScan /\ where \in Roots
  BY DEF GInv, ScanTyped
<1>1. /\ w \in Caches /\ w.init = TRUE /\ w.gen = gen /\ w.untracked = untracked /\ w.root = where
  BY <1>0 DEF Git!git_scan_wait, Caches, ScanTyped
<1> HIDE DEF w
<1>2. CASE /\ cache' = [w EXCEPT !.busy = FALSE] /\ scan' = Git!NoScan
           /\ excused' = excused \cup {where}
  <2>1. /\ cache' \in Caches /\ cache'.busy = FALSE /\ cache'.init = TRUE /\ cache'.gen = gen
        /\ cache'.root = where
    BY <1>1, <1>2 DEF Caches
  <2>2. ScanTyped'
    BY <1>0, <1>2, <2>1 DEF ScanTyped, Scans, Git!NoScan
  <2>3. OneScan'
    BY <1>0, <1>2, <2>1 DEF OneScan, Git!NoScan, ScanTyped
  <2>4. InFlight' /\ Published'
    BY <1>2, <2>1 DEF InFlight, Published, Believed
  <2> QED
    BY <2>2, <2>3, <2>4 DEF GInv
<1>3. CASE \E took \in {"quick", "slow"} :
             /\ cache' = [Git!git_scan_publish([w EXCEPT !.acc = Git!Answer(w.root, w.untracked)])
                            EXCEPT !.last = took]
             /\ scan' = Git!NoScan
  <2>1. PICK took \in {"quick", "slow"} :
          /\ cache' = [Git!git_scan_publish([w EXCEPT !.acc = Git!Answer(w.root, w.untracked)])
                         EXCEPT !.last = took]
          /\ scan' = Git!NoScan
    BY <1>3
  <2>2. Git!Answer(w.root, w.untracked) \in SUBSET Bits
    BY <1>0, <1>1, AnswerWanted DEF ScanTyped
  <2> DEFINE a == [w EXCEPT !.acc = Git!Answer(w.root, w.untracked)]
             p == Git!git_scan_publish(a)
  <2>3. /\ a \in Caches /\ a.acc = Git!Answer(where, untracked) /\ a.init = TRUE /\ a.gen = gen
        /\ a.untracked = untracked /\ a.root = where
    BY <1>1, <2>2 DEF Caches
  <2>4. Git!Dirty(a.acc) \in SUBSET (Bits \cup {"dirty"})
    BY <1>1, <2>2, <2>3, DirtyBits
  <2> HIDE DEF a
  <2>5. /\ p \in Caches /\ p.cur = Git!Dirty(Git!Answer(where, untracked)) /\ p.init = TRUE
        /\ p.gen = gen /\ p.untracked = untracked /\ p.root = where /\ p.busy = FALSE
    BY <2>3, <2>4 DEF Git!git_scan_publish, Git!git_scan_drop, Caches
  <2>6. cache' = [p EXCEPT !.last = took]
    BY <2>1 DEF a
  <2> HIDE DEF p
  <2>7. /\ cache' \in Caches /\ cache'.cur = Git!Dirty(Git!Answer(where, untracked))
        /\ cache'.init = TRUE /\ cache'.gen = gen /\ cache'.untracked = untracked /\ cache'.root = where
        /\ cache'.busy = FALSE
    BY <2>5, <2>6 DEF Caches
  <2>8. ScanTyped'
    BY <1>0, <2>1, <2>7 DEF ScanTyped, Scans, Git!NoScan
  <2>9. OneScan'
    <3>1. scan'.runs = FALSE /\ gen \in Nat /\ gen' = gen
      BY <1>0, <2>1 DEF Git!NoScan, ScanTyped
    <3> QED
      BY <1>0, <2>7, <3>1 DEF OneScan
  <2>10. InFlight' /\ Published'
    BY <2>7 DEF InFlight, Published, Whole, Git!Answer
  <2> QED
    BY <2>8, <2>9, <2>10 DEF GInv
<1>4. CASE /\ cache' = [w EXCEPT !.busy = TRUE, !.acc = {}]
           /\ scan' = [Git!NoScan EXCEPT !.runs = TRUE, !.root = w.root, !.untracked = w.untracked]
  <2>1. /\ cache' \in Caches /\ cache'.busy = TRUE /\ cache'.acc = {} /\ cache'.init = TRUE
        /\ cache'.gen = gen /\ cache'.root = where /\ cache'.untracked = untracked
    BY <1>1, <1>4 DEF Caches
  <2>2. /\ scan' \in Scans /\ scan'.runs = TRUE /\ scan'.read = FALSE /\ scan'.root = where
        /\ scan'.untracked = untracked /\ scan'.todo = {} /\ scan'.pipe = {}
    BY <1>0, <1>1, <1>4 DEF Scans, Git!NoScan, ScanTyped
  <2>3. ScanTyped'
    BY <1>0, <2>1, <2>2 DEF ScanTyped
  <2>4. OneScan'
    BY <1>0, <2>1, <2>2 DEF OneScan, ScanTyped
  <2>5. InFlight' /\ Published'
    BY <2>1, <2>2 DEF InFlight, Published
  <2> QED
    BY <2>3, <2>4, <2>5 DEF GInv
<1> QED
  BY <1>2, <1>3, <1>4 DEF Git!spawn_check, w

(* A prompt is drawn.                                                      *)
LEMMA PromptKeeps ==
  ASSUME TreesOfLines, GInv, Git!git_dirty_cached
  PROVE  GInv'
<1>1. ScanTyped /\ OneScan
  BY DEF GInv
<1>2. Git!Kept(cache) \in Caches /\ Git!Kept(cache).gen = cache.gen
  BY <1>1 DEF Git!Kept, Git!git_scan_drop, ScanTyped, Caches
<1>3. Git!Kept(cache).busy => Git!Kept(cache) = cache
  BY <1>1 DEF Git!Kept, Git!git_scan_drop, ScanTyped, Caches
<1>4. CASE Git!Kept(cache).busy /\ Git!poll_done(Git!Kept(cache)) /\ UNCHANGED excused
  BY <1>3, <1>4, PollKeeps DEF Git!git_dirty_cached
<1>5. CASE /\ ~Git!Kept(cache).busy /\ ~Git!Fresh(Git!Kept(cache))
           /\ Git!spawn_check(Git!git_scan_wait(Git!Kept(cache)))
  BY <1>1, <1>2, <1>5, SpawnKeeps DEF Git!git_dirty_cached, OneScan
<1> QED
  BY <1>4, <1>5 DEF Git!git_dirty_cached

(* The scanner reads the tree, once, and writes what git printed.          *)
LEMMA ScannerKeeps ==
  ASSUME TreesOfLines, GInv, Git!dirty_child
  PROVE  GInv'
<1>0. ScanTyped /\ OneScan /\ InFlight /\ scan.runs /\ cache.busy
  BY DEF GInv, Git!dirty_child, OneScan
<1>1. UNCHANGED <<where, tree, gen, untracked, cache>>
  BY DEF Git!dirty_child
<1>2. CASE /\ ~scan.read
           /\ scan' = [scan EXCEPT !.read = TRUE,
                                   !.todo = Git!Printed(tree[scan.root], scan.untracked)]
  <2>1. scan.root \in Roots /\ tree[scan.root] \in SUBSET Lines
    BY <1>0 DEF OneScan, ScanTyped, TreesOfLines
  <2>2. Git!Printed(tree[scan.root], scan.untracked) \in SUBSET Lines
    BY <2>1 DEF Git!Printed
  <2>3. /\ scan' \in Scans /\ scan'.runs = scan.runs /\ scan'.read = TRUE
        /\ scan'.root = scan.root /\ scan'.untracked = scan.untracked /\ scan'.pipe = scan.pipe
        /\ scan'.todo = Git!Printed(tree[scan.root], scan.untracked)
    BY <1>0, <1>2, <2>2 DEF ScanTyped, Scans
  <2>4. ScanTyped'
    BY <1>0, <1>1, <2>3 DEF ScanTyped
  <2>5. OneScan'
    BY <1>0, <1>1, <2>3 DEF OneScan
  <2>6. InFlight'
    <3>1. cache.acc = {} /\ scan.pipe \cup scan'.todo = scan'.todo
      BY <1>0, <1>2 DEF OneScan
    <3>2. Git!gs_feed(scan'.todo) = Git!Answer(cache.root, cache.untracked)
      BY <1>0, <2>3 DEF Git!Answer, OneScan
    <3>3. cache'.acc \cup Git!gs_feed(scan'.pipe \cup scan'.todo)
            = Git!Answer(cache.root, cache.untracked)
      BY <1>1, <2>3, <3>1, <3>2
    <3> QED
      BY <1>1, <3>3 DEF InFlight, Whole, Git!Answer
  <2>7. Published'
    BY <1>0, <1>1 DEF Published
  <2> QED
    BY <2>4, <2>5, <2>6, <2>7 DEF GInv
<1>3. CASE \E l \in scan.todo :
             /\ scan' = [scan EXCEPT !.todo = @ \ {l}, !.pipe = @ \cup {l}]
             /\ UNCHANGED excused
  <2>1. PICK l \in scan.todo :
             /\ scan' = [scan EXCEPT !.todo = @ \ {l}, !.pipe = @ \cup {l}]
             /\ UNCHANGED excused
    BY <1>3
  <2>2. /\ scan' \in Scans /\ scan'.runs = scan.runs /\ scan'.read = scan.read
        /\ scan'.root = scan.root /\ scan'.untracked = scan.untracked
        /\ scan'.todo = scan.todo \ {l} /\ scan'.pipe = scan.pipe \cup {l}
    BY <1>0, <2>1 DEF ScanTyped, Scans
  <2>3. scan'.pipe \cup scan'.todo = scan.pipe \cup scan.todo
    BY <2>2
  <2>4. ScanTyped'
    BY <1>0, <1>1, <2>2 DEF ScanTyped
  <2>5. OneScan'
    BY <1>0, <1>1, <2>2 DEF OneScan
  <2>6. InFlight'
    BY <1>0, <1>1, <2>1, <2>2, <2>3 DEF InFlight, Believed, Whole, Git!Answer
  <2>7. Published'
    BY <1>0, <1>1 DEF Published
  <2> QED
    BY <2>4, <2>5, <2>6, <2>7 DEF GInv
<1> QED
  BY <1>2, <1>3 DEF Git!dirty_child

(* What changes a tree either raises the generation or is excused.         *)
LEMMA TreeKeeps ==
  ASSUME TreesOfLines, NoSubshell, GInv, Git!execute_cmd_bg \/ Git!Elsewhere
  PROVE  GInv'
<1>0. ScanTyped /\ OneScan /\ InFlight /\ Published
  BY DEF GInv
<1>1. UNCHANGED <<where, untracked, cache, scan>>
  BY DEF Git!execute_cmd_bg, Git!Elsewhere
<1>2. PICK r \in Roots : \E t \in Trees : tree' = [tree EXCEPT ![r] = t]
  BY DEF Git!execute_cmd_bg, Git!Elsewhere, Git!Touched
<1>3. tree' \in [Roots -> Trees]
  BY <1>0, <1>2 DEF ScanTyped
<1>4. CASE Git!execute_cmd_bg
  <2>1. gen' = gen + 1 /\ gen \in Nat /\ cache.gen \in Nat /\ cache.gen <= gen
    BY <1>0, <1>4 DEF Git!execute_cmd_bg, Git!git_tree_touched, ScanTyped, Caches, OneScan
  <2>2. ~Believed'
    BY <1>1, <2>1 DEF Believed
  <2>3. ScanTyped' /\ OneScan'
    BY <1>0, <1>1, <1>3, <2>1 DEF ScanTyped, OneScan
  <2> QED
    BY <2>2, <2>3 DEF GInv, InFlight, Published
<1>5. CASE Git!Elsewhere
  <2>1. PICK q \in Roots, how \in Unseen :
          /\ Git!Touched(q)
          /\ excused' = IF how = "foreign" THEN excused \cup {q} ELSE excused
    BY <1>5 DEF Git!Elsewhere
  <2>2. excused' = excused \cup {q} /\ gen' = gen
    BY <1>5, <2>1 DEF NoSubshell, Git!Elsewhere
  <2>3. \A x \in Roots \ {q} : tree'[x] = tree[x]
    BY <1>0, <2>1 DEF Git!Touched, ScanTyped
  <2>4. Believed' => Believed /\ Whole' = Whole
    BY <1>1, <2>2, <2>3 DEF Believed, Whole, Git!Answer
  <2>5. ScanTyped' /\ OneScan'
    BY <1>0, <1>1, <1>3, <2>2 DEF ScanTyped, OneScan
  <2>6. InFlight' /\ Published'
    <3> SUFFICES ASSUME Believed' PROVE InFlight' /\ Published'
      BY DEF InFlight, Published
    <3> QED
      BY <1>0, <1>1, <2>4 DEF InFlight, Published
  <2> QED
    BY <2>5, <2>6 DEF GInv
<1> QED
  BY <1>4, <1>5

LEMMA RestKeeps ==
  ASSUME GInv, Git!TtlPasses \/ Git!cd \/ Git!vcs_untracked \/ UNCHANGED Git!vars
  PROVE  GInv'
<1>0. ScanTyped /\ OneScan /\ InFlight /\ Published
  BY DEF GInv
<1>1. CASE Git!TtlPasses
  <2>1. /\ cache' = [cache EXCEPT !.over = TRUE] /\ cache \in Caches
        /\ UNCHANGED <<where, tree, gen, untracked, scan, excused>>
    BY <1>0, <1>1 DEF Git!TtlPasses, ScanTyped
  <2>2. /\ cache' \in Caches /\ cache'.over = TRUE /\ cache'.init = cache.init
        /\ cache'.root = cache.root /\ cache'.gen = cache.gen /\ cache'.busy = cache.busy
        /\ cache'.untracked = cache.untracked /\ cache'.acc = cache.acc
    BY <2>1 DEF Caches
  <2>3. ScanTyped' /\ OneScan'
    BY <1>0, <2>1, <2>2 DEF ScanTyped, OneScan
  <2>4. InFlight' /\ Published'
    BY <1>0, <2>1, <2>2 DEF InFlight, Published, Believed, Whole, Git!Answer
  <2> QED
    BY <2>3, <2>4 DEF GInv
<1>2. CASE Git!cd \/ Git!vcs_untracked \/ UNCHANGED Git!vars
  <2>1. UNCHANGED <<tree, gen, cache, scan, excused>>
    BY <1>2 DEF Git!cd, Git!vcs_untracked, Git!vars
  <2>2. where' \in Roots \cup {Git!Outside} /\ untracked' \in BOOLEAN
    BY <1>0, <1>2 DEF Git!cd, Git!vcs_untracked, Git!vars, ScanTyped
  <2>3. ScanTyped' /\ OneScan'
    BY <1>0, <2>1, <2>2 DEF ScanTyped, OneScan
  <2>4. InFlight' /\ Published'
    BY <1>0, <2>1 DEF InFlight, Published, Believed, Whole, Git!Answer
  <2> QED
    BY <2>3, <2>4 DEF GInv
<1> QED
  BY <1>1, <1>2

(* Every step keeps the invariant, and the invariant is what we are after. *)
LEMMA GSteps ==
  ASSUME TreesOfLines, NoSubshell, GInv, [Git!Next]_(Git!vars)
  PROVE  GInv'
<1>1. CASE Git!git_scan_poll
  BY <1>1, PollKeeps DEF Git!git_scan_poll
<1>2. CASE Git!git_dirty_cached
  BY <1>2, PromptKeeps
<1>3. CASE Git!dirty_child
  BY <1>3, ScannerKeeps
<1>4. CASE Git!execute_cmd_bg \/ Git!Elsewhere
  BY <1>4, TreeKeeps
<1>5. CASE Git!TtlPasses \/ Git!cd \/ Git!vcs_untracked \/ UNCHANGED Git!vars
  BY <1>5, RestKeeps
<1> QED
  BY <1>1, <1>2, <1>3, <1>4, <1>5 DEF Git!Next

LEMMA GShows == GInv => Git!StarTrue
BY DEF GInv, ScanTyped, Published, Believed, Whole, Git!StarTrue, Git!Fresh

(***************************************************************************)
(* The update                                                              *)
(*                                                                         *)
(* An update leaves a binary that runs, for any number of files, wherever  *)
(* it fails and wherever it is killed.  With two updaters on one target it *)
(* need not: both write the same file beside it, so Alone is needed.       *)
(***************************************************************************)
Alone == \A u, v \in Updaters : u = v
Numbered == 0 \notin Inodes /\ 1 \in Inodes

(* The inductive invariant.                                                *)

Contents == {"old", "new", "half", "odd", "none"}
Before == {"fetch", "writing", "fetched", "verify", "validate", "place"}

Typed ==
  /\ data \in [Inodes -> Contents]
  /\ target \in Inodes /\ tmp \in Inodes \cup {0}
  /\ release \in {"new", "odd"}
  /\ writes \in [Updaters -> Inodes \cup {0}]
  /\ at \in [Updaters -> Before \cup {"idle", "copying", "prove"}]
  /\ began \in [Updaters -> Contents] /\ said \in [Updaters -> 0 .. 9]

(* The installed path has a file, which is never the download; and only    *)
(* `sudo install` tears it.                                                *)
Placed ==
  /\ tmp # target /\ data[target] # "none"
  /\ torn => elevated
  /\ ~torn => data[target] \in {"old", "new"}

(* What the place of an updater says of its files.                         *)
Writing(u) ==
  /\ writes[u] # 0 => at[u] \in {"writing", "copying"}
  /\ at[u] = "writing" => writes[u] = tmp /\ tmp # 0
  /\ at[u] = "copying" => writes[u] = target /\ torn
  /\ at[u] \in {"place", "copying"} => tmp # 0 /\ data[tmp] = "new"

(* What was installed when it began is there until it is replaced; a       *)
(* failure after that is 5 or 6.                                           *)
Replacing(u) ==
  /\ at[u] \in Before => data[target] = began[u]
  /\ at[u] = "prove" => data[target] = "new" /\ ~torn
  /\ at[u] = "idle" /\ ~torn => /\ said[u] \in 1 .. 4 => data[target] = began[u]
                                /\ said[u] = 0 => data[target] = "new"

UInv == Typed /\ Placed /\ \A u \in Updaters : Writing(u) /\ Replacing(u)

LEMMA UpdateStarts == Numbered /\ Upd!Init => UInv
BY DEF Numbered, Upd!Init, UInv, Typed, Placed, Writing, Replacing, Contents, Before

LEMMA FreshIsFree ==
  ASSUME UInv, Upd!Free # {}
  PROVE  Upd!Fresh \in Inodes /\ data[Upd!Fresh] = "none" /\ Upd!Fresh # target
<1>1. Upd!Fresh \in Upd!Free
  BY DEF Upd!Fresh
<1> QED
  BY <1>1 DEF Upd!Free, UInv, Placed

(* A step that gives up takes the download away, and nothing else.         *)
LEMMA FailsKeeps ==
  ASSUME Alone, Numbered, UInv, NEW u \in Updaters, NEW code \in 2 .. 5,
         at[u] \in {"fetch", "fetched", "verify", "validate", "place"}, Upd!Fails(u, code)
  PROVE  UInv'
<1>0. Typed /\ Placed /\ Writing(u) /\ Replacing(u) /\ Updaters = {u}
  BY DEF UInv, Alone
<1>1. /\ at' = [at EXCEPT ![u] = "idle"] /\ said' = [said EXCEPT ![u] = code] /\ tmp' = 0
      /\ UNCHANGED <<target, writes, release, sums, elevated, began, torn>>
  BY DEF Upd!Fails, Upd!Ends, Upd!Goto, Upd!unlink_tmp, Upd!Still, Upd!Given
<1>2. data' \in [Inodes -> Contents] /\ data'[target] = data[target]
  BY <1>0 DEF Upd!Fails, Upd!unlink_tmp, Typed, Placed, Contents
<1>3. at'[u] = "idle" /\ said'[u] = code /\ writes[u] = 0
  BY <1>0, <1>1 DEF Typed, Writing
<1>4. Typed'
  BY <1>0, <1>1, <1>2 DEF Typed
<1>5. Placed'
  BY <1>0, <1>1, <1>2 DEF Placed, Typed, Numbered
<1>6. Writing(u)' /\ Replacing(u)'
  BY <1>0, <1>1, <1>2, <1>3 DEF Writing, Replacing, Before
<1> QED
  BY <1>0, <1>4, <1>5, <1>6 DEF UInv

(* A step that goes on, with the files as they are.                        *)
LEMMA MovesOnKeeps ==
  ASSUME Alone, UInv, NEW u \in Updaters, NEW step \in {"verify", "validate", "place"},
         at[u] \in {"fetch", "fetched", "verify", "validate"},
         step = "place" => tmp # 0 /\ data[tmp] = "new",
         Upd!Goto(u, step), UNCHANGED <<data, target, tmp, writes, said>>, Upd!Still
  PROVE  UInv'
<1>0. Typed /\ Placed /\ Writing(u) /\ Replacing(u) /\ Updaters = {u}
  BY DEF UInv, Alone
<1>1. at' = [at EXCEPT ![u] = step] /\ UNCHANGED <<release, sums, elevated, began, torn>>
  BY DEF Upd!Goto, Upd!Still, Upd!Given
<1>2. at'[u] = step /\ writes[u] = 0
  BY <1>0, <1>1 DEF Typed, Writing
<1>3. Typed'
  BY <1>0, <1>1 DEF Typed, Before
<1>4. Placed'
  BY <1>0, <1>1 DEF Placed
<1>5. Writing(u)' /\ Replacing(u)'
  BY <1>0, <1>1, <1>2 DEF Writing, Replacing, Before
<1> QED
  BY <1>0, <1>3, <1>4, <1>5 DEF UInv

(* curl, which opens the download and writes it whole or in part.          *)
LEMMA CurlKeeps ==
  ASSUME Alone, Numbered, UInv, NEW u \in Updaters, Upd!curl_opens(u) \/ Upd!curl_ends(u)
  PROVE  UInv'
<1>0. Typed /\ Placed /\ Writing(u) /\ Replacing(u) /\ Updaters = {u}
  BY DEF UInv, Alone
<1>1. UNCHANGED <<target, said, release, sums, elevated, began, torn>>
  BY DEF Upd!curl_opens, Upd!curl_ends, Upd!Still, Upd!Given
<1>2. CASE Upd!curl_opens(u)
  <2>1. /\ at[u] = "fetch" /\ at' = [at EXCEPT ![u] = "writing"]
        /\ data' = [data EXCEPT ![tmp'] = "half"] /\ writes' = [writes EXCEPT ![u] = tmp']
    BY <1>2 DEF Upd!curl_opens, Upd!Goto
  <2>2. tmp' \in Inodes /\ tmp' # target
    <3>1. CASE tmp = 0
      BY <1>2, <3>1, FreshIsFree DEF Upd!curl_opens
    <3>2. CASE tmp # 0
      BY <1>0, <1>2, <3>2 DEF Upd!curl_opens, Typed, Placed
    <3> QED
      BY <3>1, <3>2
  <2>3. data' \in [Inodes -> Contents] /\ data'[target] = data[target]
    BY <1>0, <2>1, <2>2 DEF Typed, Contents
  <2>4. at'[u] = "writing" /\ writes'[u] = tmp' /\ tmp' # 0
    BY <1>0, <2>1, <2>2 DEF Typed, Numbered
  <2>5. Typed'
    BY <1>0, <1>1, <2>1, <2>2, <2>3 DEF Typed, Before
  <2>6. Placed'
    BY <1>0, <1>1, <2>2, <2>3 DEF Placed
  <2>7. Writing(u)' /\ Replacing(u)'
    BY <1>0, <1>1, <2>1, <2>3, <2>4 DEF Writing, Replacing, Before
  <2> QED
    BY <1>0, <2>5, <2>6, <2>7 DEF UInv
<1>3. CASE Upd!curl_ends(u)
  <2>1. /\ at[u] = "writing" /\ at' = [at EXCEPT ![u] = "fetched"]
        /\ writes' = [writes EXCEPT ![u] = 0] /\ tmp' = tmp
        /\ \E w \in {"half", release} : data' = [data EXCEPT ![tmp] = w]
    BY <1>0, <1>3 DEF Upd!curl_ends, Upd!Goto, Writing
  <2>2. tmp \in Inodes /\ tmp # target
    BY <1>0, <2>1 DEF Typed, Placed, Writing
  <2>3. data' \in [Inodes -> Contents] /\ data'[target] = data[target]
    BY <1>0, <2>1, <2>2 DEF Typed, Contents
  <2>4. at'[u] = "fetched" /\ writes'[u] = 0
    BY <1>0, <2>1 DEF Typed
  <2>5. Typed'
    BY <1>0, <1>1, <2>1, <2>3 DEF Typed, Before
  <2>6. Placed'
    BY <1>0, <1>1, <2>1, <2>3 DEF Placed
  <2>7. Writing(u)' /\ Replacing(u)'
    BY <1>0, <1>1, <2>1, <2>3, <2>4 DEF Writing, Replacing, Before
  <2> QED
    BY <1>0, <2>5, <2>6, <2>7 DEF UInv
<1> QED
  BY <1>2, <1>3

(* After the file is in place: on to its proof, or a failure all the same. *)
ProvesOrSays5(u) ==
  \/ at' = [at EXCEPT ![u] = "prove"] /\ said' = said
  \/ at' = [at EXCEPT ![u] = "idle"] /\ said' = [said EXCEPT ![u] = 5]

LEMMA OnToProof ==
  ASSUME Typed, NEW u \in Updaters, ProvesOrSays5(u)
  PROVE  /\ at' \in [Updaters -> Before \cup {"idle", "copying", "prove"}]
         /\ said' \in [Updaters -> 0 .. 9]
         /\ at'[u] = "prove" \/ (at'[u] = "idle" /\ said'[u] = 5)
<1>1. CASE at' = [at EXCEPT ![u] = "prove"] /\ said' = said
  BY <1>1 DEF Typed
<1>2. CASE at' = [at EXCEPT ![u] = "idle"] /\ said' = [said EXCEPT ![u] = 5]
  BY <1>2 DEF Typed
<1> QED
  BY <1>1, <1>2 DEF ProvesOrSays5

(* A rename puts a validated file in place at once; an install begins to   *)
(* tear.                                                                   *)
LEMMA MoveKeeps ==
  ASSUME Alone, Numbered, UInv, NEW u \in Updaters, Upd!move_into_place(u)
  PROVE  UInv'
<1>0. Typed /\ Placed /\ Writing(u) /\ Replacing(u) /\ Updaters = {u}
  BY DEF UInv, Alone
<1>1. at[u] = "place" /\ tmp \in Inodes /\ tmp # target /\ data[tmp] = "new" /\ writes[u] = 0
  BY <1>0 DEF Upd!move_into_place, Typed, Placed, Writing
<1>2. CASE Upd!Fails(u, 5)
  BY <1>1, <1>2, FailsKeeps
<1>3. CASE /\ ~elevated /\ tmp # 0
           /\ target' = tmp /\ tmp' = 0 /\ data' = [data EXCEPT ![target] = "none"]
           /\ (Upd!Goto(u, "prove") /\ UNCHANGED said) \/ Upd!Ends(u, 5)
           /\ UNCHANGED writes /\ Upd!Still
  <2>1. /\ target' = tmp /\ tmp' = 0 /\ data' = [data EXCEPT ![target] = "none"]
        /\ UNCHANGED <<writes, release, sums, elevated, began, torn>>
    BY <1>3 DEF Upd!Still, Upd!Given
  <2>2. data' \in [Inodes -> Contents] /\ data'[target'] = "new"
    BY <1>0, <1>1, <2>1 DEF Typed, Contents
  <2>3. ProvesOrSays5(u) /\ ~torn
    BY <1>0, <1>3 DEF Placed, ProvesOrSays5, Upd!Goto, Upd!Ends
  <2>4. Typed'
    BY <1>0, <1>1, <2>1, <2>2, <2>3, OnToProof DEF Typed
  <2>5. Placed'
    BY <1>1, <2>1, <2>2, <2>3 DEF Placed, Numbered
  <2>6. Writing(u)' /\ Replacing(u)'
    BY <1>0, <1>1, <2>1, <2>2, <2>3, OnToProof DEF Writing, Replacing, Before
  <2> QED
    BY <1>0, <2>4, <2>5, <2>6 DEF UInv
<1>4. CASE /\ elevated /\ tmp # 0 /\ Upd!Free # {}
           /\ target' = Upd!Fresh /\ writes' = [writes EXCEPT ![u] = Upd!Fresh]
           /\ data' = [data EXCEPT ![Upd!Fresh] = "half", ![target] = "none"]
           /\ Upd!Goto(u, "copying") /\ torn' = TRUE /\ UNCHANGED <<tmp, said>> /\ Upd!Given
  <2>1. /\ at' = [at EXCEPT ![u] = "copying"] /\ target' = Upd!Fresh /\ torn' = TRUE /\ elevated
        /\ writes' = [writes EXCEPT ![u] = Upd!Fresh]
        /\ data' = [data EXCEPT ![Upd!Fresh] = "half", ![target] = "none"]
        /\ UNCHANGED <<tmp, said, release, sums, elevated, began>>
    BY <1>4 DEF Upd!Goto, Upd!Given
  <2>2. Upd!Fresh \in Inodes /\ data[Upd!Fresh] = "none" /\ Upd!Fresh # target
    BY <1>4, FreshIsFree
  <2> DEFINE f == Upd!Fresh
  <2> HIDE DEF f
  <2>3. /\ f \in Inodes /\ f # target /\ f # tmp /\ target' = f
        /\ writes' = [writes EXCEPT ![u] = f]
        /\ data' = [data EXCEPT ![f] = "half", ![target] = "none"]
    BY <1>1, <2>1, <2>2 DEF f
  <2>4. data' \in [Inodes -> Contents] /\ data'[f] = "half" /\ data'[tmp] = "new"
    BY <1>0, <1>1, <2>3 DEF Typed, Contents
  <2>5. at'[u] = "copying" /\ writes'[u] = f
    BY <1>0, <2>1, <2>3 DEF Typed
  <2>6. Typed'
    BY <1>0, <2>1, <2>3, <2>4 DEF Typed, Before
  <2>7. Placed'
    BY <2>1, <2>3, <2>4 DEF Placed
  <2>8. Writing(u)' /\ Replacing(u)'
    BY <1>1, <2>1, <2>3, <2>4, <2>5 DEF Writing, Replacing, Before, Numbered
  <2> QED
    BY <1>0, <2>6, <2>7, <2>8 DEF UInv
<1> QED
  BY <1>2, <1>3, <1>4 DEF Upd!move_into_place

(* An install that ends: whole, or torn for good.                          *)
LEMMA InstallKeeps ==
  ASSUME Alone, Numbered, UInv, NEW u \in Updaters, Upd!install_ends(u)
  PROVE  UInv'
<1>0. Typed /\ Placed /\ Writing(u) /\ Replacing(u) /\ Updaters = {u}
  BY DEF UInv, Alone
<1>1. /\ at[u] = "copying" /\ tmp \in Inodes /\ tmp # target /\ data[tmp] = "new"
      /\ writes[u] = target /\ torn
  BY <1>0 DEF Upd!install_ends, Typed, Placed, Writing
<1>2. /\ writes' = [writes EXCEPT ![u] = 0] /\ tmp' = 0
      /\ UNCHANGED <<target, release, sums, elevated, began>>
  BY DEF Upd!install_ends, Upd!Given
<1>3. writes'[u] = 0
  BY <1>0, <1>2 DEF Typed
<1>4. CASE /\ torn' = FALSE /\ ((Upd!Goto(u, "prove") /\ UNCHANGED said) \/ Upd!Ends(u, 5))
           /\ data' = [data EXCEPT ![writes[u]] = Upd!Content(tmp), ![tmp] = "none"]
  <2>1. /\ torn' = FALSE /\ data' = [data EXCEPT ![target] = "new", ![tmp] = "none"]
    BY <1>1, <1>4 DEF Upd!Content, Numbered
  <2>2. data' \in [Inodes -> Contents] /\ data'[target] = "new"
    BY <1>0, <1>1, <2>1 DEF Typed, Contents
  <2>3. ProvesOrSays5(u)
    BY <1>4 DEF ProvesOrSays5, Upd!Goto, Upd!Ends
  <2>4. Typed'
    BY <1>0, <1>2, <2>1, <2>2, <2>3, OnToProof DEF Typed
  <2>5. Placed'
    BY <1>0, <1>2, <2>1, <2>2 DEF Placed, Typed, Numbered
  <2>6. Writing(u)' /\ Replacing(u)'
    BY <1>0, <1>2, <1>3, <2>1, <2>2, <2>3, OnToProof DEF Writing, Replacing, Before
  <2> QED
    BY <1>0, <2>4, <2>5, <2>6 DEF UInv
<1>5. CASE Upd!Ends(u, 5) /\ UNCHANGED torn /\ data' = [data EXCEPT ![tmp] = "none"]
  <2>1. /\ at' = [at EXCEPT ![u] = "idle"] /\ said' = [said EXCEPT ![u] = 5] /\ torn' = torn
        /\ data' = [data EXCEPT ![tmp] = "none"]
    BY <1>5 DEF Upd!Ends, Upd!Goto
  <2>2. data' \in [Inodes -> Contents] /\ data'[target] = data[target]
    BY <1>0, <1>1, <2>1 DEF Typed, Contents
  <2>3. at'[u] = "idle"
    BY <1>0, <2>1 DEF Typed
  <2>4. Typed'
    BY <1>0, <1>2, <2>1, <2>2 DEF Typed
  <2>5. Placed'
    BY <1>0, <1>1, <1>2, <2>1, <2>2 DEF Placed, Typed, Numbered
  <2>6. Writing(u)' /\ Replacing(u)'
    BY <1>1, <1>2, <1>3, <2>1, <2>2, <2>3 DEF Writing, Replacing, Before
  <2> QED
    BY <1>0, <2>4, <2>5, <2>6 DEF UInv
<1> QED
  BY <1>4, <1>5 DEF Upd!install_ends

(* It begins, ends well, or is killed.                                     *)
LEMMA EndsKeep ==
  ASSUME Alone, Numbered, UInv, NEW u \in Updaters,
         Upd!update_selfupdate(u) \/ Upd!update_apply(u) \/ Upd!Killed(u)
  PROVE  UInv'
<1>0. Typed /\ Placed /\ Writing(u) /\ Replacing(u) /\ Updaters = {u}
  BY DEF UInv, Alone
<1>1. UNCHANGED <<data, target, tmp, release, sums, elevated, torn>>
  BY DEF Upd!update_selfupdate, Upd!update_apply, Upd!Killed, Upd!Still, Upd!Given
<1>2. Placed'
  BY <1>0, <1>1 DEF Placed
<1>3. CASE Upd!update_selfupdate(u)
  <2>1. /\ at[u] = "idle" /\ at' = [at EXCEPT ![u] = "fetch"]
        /\ began' = [began EXCEPT ![u] = data[target]] /\ UNCHANGED <<writes, said>>
    BY <1>0, <1>3 DEF Upd!update_selfupdate, Upd!Goto, Upd!Content, Typed, Numbered
  <2>2. at'[u] = "fetch" /\ began'[u] = data[target] /\ writes[u] = 0
    BY <1>0, <2>1 DEF Typed, Writing
  <2>3. Typed'
    BY <1>0, <1>1, <2>1 DEF Typed, Before
  <2>4. Writing(u)' /\ Replacing(u)'
    BY <1>1, <2>1, <2>2 DEF Writing, Replacing, Before
  <2> QED
    BY <1>0, <1>2, <2>3, <2>4 DEF UInv
<1>4. CASE Upd!update_apply(u)
  <2>1. /\ at[u] = "prove" /\ at' = [at EXCEPT ![u] = "idle"]
        /\ \E code \in {0, 6} : said' = [said EXCEPT ![u] = code]
        /\ UNCHANGED <<writes, began>>
    BY <1>4 DEF Upd!update_apply, Upd!Ends, Upd!Goto, Upd!Still, Upd!Given
  <2>2. at'[u] = "idle" /\ said'[u] \in {0, 6} /\ writes[u] = 0
    BY <1>0, <2>1 DEF Typed, Writing
  <2>3. Typed'
    BY <1>0, <1>1, <2>1 DEF Typed
  <2>4. Writing(u)' /\ Replacing(u)'
    BY <1>0, <1>1, <2>1, <2>2 DEF Writing, Replacing, Before
  <2> QED
    BY <1>0, <1>2, <2>3, <2>4 DEF UInv
<1>5. CASE Upd!Killed(u)
  <2>1. /\ at' = [at EXCEPT ![u] = "idle"] /\ writes' = [writes EXCEPT ![u] = 0]
        /\ said' = [said EXCEPT ![u] = 9] /\ UNCHANGED began
    BY <1>5 DEF Upd!Killed, Upd!Goto, Upd!Still, Upd!Given
  <2>2. at'[u] = "idle" /\ said'[u] = 9 /\ writes'[u] = 0
    BY <1>0, <2>1 DEF Typed
  <2>3. Typed'
    BY <1>0, <1>1, <2>1 DEF Typed
  <2>4. Writing(u)' /\ Replacing(u)'
    BY <2>2 DEF Writing, Replacing, Before
  <2> QED
    BY <1>0, <1>2, <2>3, <2>4 DEF UInv
<1> QED
  BY <1>3, <1>4, <1>5

LEMMA UpdateSteps ==
  ASSUME Alone, Numbered, UInv, [Upd!Next]_(Upd!vars)
  PROVE  UInv'
<1>1. ASSUME NEW u \in Updaters, Upd!update_download(u) PROVE UInv'
  BY <1>1, FailsKeeps, MovesOnKeeps DEF Upd!update_download
<1>2. ASSUME NEW u \in Updaters, Upd!update_verify_sha(u) PROVE UInv'
  BY <1>2, FailsKeeps, MovesOnKeeps DEF Upd!update_verify_sha
<1>3. ASSUME NEW u \in Updaters, Upd!validate_download(u) PROVE UInv'
  BY <1>3, FailsKeeps, MovesOnKeeps DEF Upd!validate_download, Upd!validate_binary
<1>4. CASE UNCHANGED Upd!vars
  BY <1>4 DEF Upd!vars, UInv, Typed, Placed, Writing, Replacing
<1> QED
  BY <1>1, <1>2, <1>3, <1>4, CurlKeeps, MoveKeeps, InstallKeeps, EndsKeep DEF Upd!Next

(***************************************************************************)
(* The remembered commands                                                 *)
(*                                                                         *)
(* A remembered command is never stale, for any commands, directories and  *)
(* values of PATH, whatever changes between the hash in the shell, the     *)
(* look-up in the child and the next command.                              *)
(***************************************************************************)
(* Values of PATH are sequences of directories, or none; the words the     *)
(* model uses for "no file" are not names of directories or commands.      *)
Named ==
  /\ DefaultPath \in Seq(Dirs) /\ Paths \subseteq Seq(Dirs) \cup {Hash!UnsetPath}
  /\ Dirs \cap {Hash!Miss, Hash!None, Hash!NotFound, Hash!Denied, "(unset)", "(never)"} = {}
  /\ Hash!None \notin Commands

(* `hash name` is not the first thing after PATH changed: it would file    *)
(* the name under the directories of the PATH before (find_cmd_path2.c).   *)
HashedLate == HashEarly = FALSE

(* No directory lies where a command was: the child takes what access(2)   *)
(* says may be executed, and that holds of a directory (handle_path_lookup).*)
NoDirectories == "dir" \notin Kinds

(***************************************************************************)
(* Searches                                                                *)
(***************************************************************************)
LEMMA NatHasLeast ==
  ASSUME NEW S, S \subseteq Nat, S # {}
  PROVE  \E m \in S : \A x \in S : m <= x
<1>1. IsWellFoundedOn(OpToRel(<, Nat), Nat)
  BY NatLessThanWellFounded
<1>2. PICK m \in S : \A y \in S : ~ (<<y, m>> \in OpToRel(<, Nat))
  BY <1>1, WFMin, Zenon
<1>3. \A y \in S : ~ (y < m)
  BY <1>2 DEF OpToRel
<1> QED
  BY <1>3

LEMMA MinIsIn ==
  ASSUME NEW S, S \subseteq Nat, S # {}
  PROVE  Hash!Min(S) \in S
BY NatHasLeast DEF Hash!Min

(* A search of directories finds a file that can be run in one of them, or *)
(* there is none (exe_path).                                               *)
LEMMA SearchFinds ==
  ASSUME NEW ds \in Seq(Dirs), NEW c, Named
  PROVE  /\ Hash!exe_path(ds, c) = Hash!Miss
              => \A i \in DOMAIN ds : files[ds[i]][c] # "exec"
         /\ Hash!exe_path(ds, c) # Hash!Miss
              => /\ Hash!exe_path(ds, c) \in Dirs
                 /\ files[Hash!exe_path(ds, c)][c] = "exec"
                 /\ \E i \in DOMAIN ds : ds[i] = Hash!exe_path(ds, c)
<1> DEFINE I == {i \in 1 .. Len(ds) : files[ds[i]][c] = "exec"}
           d == Hash!exe_path(ds, c)
<1>1. d = IF (IF I # {} THEN Hash!Min(I) ELSE 0) = 0 THEN Hash!Miss
          ELSE ds[IF I # {} THEN Hash!Min(I) ELSE 0]
  BY Zenon DEF Hash!exe_path, Hash!SelectInSeq
<1>2. CASE I = {}
  <2>1. d = Hash!Miss
    BY <1>1, <1>2
  <2>2. \A i \in 1 .. Len(ds) : files[ds[i]][c] # "exec"
    BY <1>2
  <2> QED
    BY <2>1, <2>2
<1>3. CASE I # {}
  <2>1. Hash!Min(I) \in I
    <3>1. I \subseteq Nat
      OBVIOUS
    <3> HIDE DEF I
    <3> QED
      BY <1>3, <3>1, MinIsIn
  <2>2. Hash!Min(I) \in 1 .. Len(ds) /\ files[ds[Hash!Min(I)]][c] = "exec"
    BY <2>1
  <2>3. d = ds[Hash!Min(I)]
    <3>1. Hash!Min(I) # 0
      BY <2>2
    <3> HIDE DEF I, d
    <3> QED
      BY <1>1, <1>3, <3>1
  <2>4. ds[Hash!Min(I)] \in Dirs /\ ds[Hash!Min(I)] # Hash!Miss
    BY <2>2 DEF Named
  <2> HIDE DEF I, d
  <2>5. /\ d # Hash!Miss /\ d \in Dirs /\ files[d][c] = "exec"
        /\ \E i \in DOMAIN ds : ds[i] = d
    BY <2>2, <2>3, <2>4
  <2> QED
    BY <2>5 DEF d
<1> QED
  BY <1>2, <1>3

(***************************************************************************)
(* The inductive invariant                                                 *)
(***************************************************************************)
HashTyped ==
  /\ files \in [Dirs -> [Commands -> Kinds]]
  /\ PATH \in Seq(Dirs) \cup {Hash!UnsetPath}
  /\ path_dirs_src \in Seq(Dirs) \cup {Hash!Never}
  /\ cmd_cache \in [Commands -> Dirs \cup {Hash!Miss}]
  /\ starting \in Commands \cup {Hash!None}

(* What is remembered was found under the PATH that is remembered with it; *)
(* with none, at first, nothing is.                                        *)
FoundThere ==
  \A c \in Commands : cmd_cache[c] # Hash!Miss =>
    path_dirs_src # Hash!Never /\ \E i \in DOMAIN path_dirs_src : path_dirs_src[i] = cmd_cache[c]

(* Between the fork and the look-up in the child the shell has the PATH it *)
(* hashed the name with.                                                   *)
InStep == starting # Hash!None => path_dirs_src = Hash!PathDirs

HInv == HashTyped /\ FoundThere /\ InStep

LEMMA PathDirsType ==
  ASSUME Named, HashTyped
  PROVE  /\ Hash!PathDirs \in Seq(Dirs) /\ Hash!PathDirs # Hash!Never /\ PATH # Hash!Never
         /\ path_dirs_src # Hash!UnsetPath
<1>1. \A s \in Seq(Dirs) : s # Hash!UnsetPath /\ s # Hash!Never
  <2> SUFFICES ASSUME NEW s \in Seq(Dirs), s = Hash!UnsetPath \/ s = Hash!Never PROVE FALSE
    OBVIOUS
  <2>1. Len(s) = 1 /\ (s[1] = "(unset)" \/ s[1] = "(never)")
    BY DEF Hash!UnsetPath, Hash!Never
  <2>2. s[1] \in Dirs
    BY <2>1
  <2> QED
    BY <2>1, <2>2 DEF Named
<1>2. Hash!UnsetPath # Hash!Never
  BY DEF Hash!UnsetPath, Hash!Never
<1> QED
  BY <1>1, <1>2 DEF HashTyped, Hash!PathDirs, Named

(* A cache as the shell's or a child's copy of it may be.                  *)
Sound(H) ==
  /\ H.src \in Seq(Dirs) \cup {Hash!Never}
  /\ H.cache \in [Commands -> Dirs \cup {Hash!Miss}]
  /\ \A c \in Commands : H.cache[c] # Hash!Miss =>
       H.src # Hash!Never /\ \E i \in DOMAIN H.src : H.src[i] = H.cache[c]

LEMMA HashSound == HInv => Sound(Hash!Hash)
BY DEF HInv, HashTyped, FoundThere, Sound, Hash!Hash

LEMMA ClearSound ==
  ASSUME NEW s \in Seq(Dirs) \cup {Hash!Never}
  PROVE  Sound([src |-> s, cache |-> [c \in Commands |-> Hash!Miss]])
BY DEF Sound

(* After path_cache_sync the names are those found under the PATH of now.  *)
LEMMA SyncSound ==
  ASSUME Named, HashTyped, NEW H, H = Hash!Hash, Sound(H)
  PROVE  /\ Sound(Hash!path_cache_sync(H)) /\ Hash!path_cache_sync(H).src = Hash!PathDirs
         /\ Hash!path_cache_sync(H) = [src |-> Hash!path_cache_sync(H).src,
                                       cache |-> Hash!path_cache_sync(H).cache]
         /\ H.src = Hash!PathDirs => Hash!path_cache_sync(H) = H
         /\ H.src # Hash!PathDirs => Hash!path_cache_sync(H).cache = [c \in Commands |-> Hash!Miss]
<1>0. Hash!PathDirs \in Seq(Dirs) /\ Hash!PathDirs # Hash!Never
  BY PathDirsType
<1>1. CASE H.src = Hash!PathDirs
  <2>1. Hash!path_cache_sync(H) = H
    BY <1>1 DEF Hash!path_cache_sync
  <2> QED
    BY <1>1, <2>1 DEF Hash!Hash
<1>2. CASE H.src # Hash!PathDirs
  <2>1. H.src = Hash!Never => H.cache = [c \in Commands |-> Hash!Miss]
    BY DEF Sound
  <2>2. Hash!path_cache_sync(H) = [src |-> Hash!PathDirs, cache |-> [c \in Commands |-> Hash!Miss]]
    BY <1>2, <2>1 DEF Hash!path_cache_sync, Hash!cmd_hash_clear, Hash!Hash
  <2> QED
    BY <1>0, <1>2, <2>2, ClearSound
<1> QED
  BY <1>1, <1>2

LEMMA InsertSound ==
  ASSUME Named, NEW s \in Seq(Dirs), s # Hash!Never, NEW h \in [Commands -> Dirs \cup {Hash!Miss}],
         Sound([src |-> s, cache |-> h]), NEW c \in Commands,
         NEW d \in Dirs, \E i \in DOMAIN s : s[i] = d
  PROVE  /\ Sound(Hash!cmd_hash_insert([src |-> s, cache |-> h], c, d))
         /\ Hash!cmd_hash_insert([src |-> s, cache |-> h], c, d)
              = [src |-> s, cache |-> [h EXCEPT ![c] = d]]
<1>1. Hash!cmd_hash_insert([src |-> s, cache |-> h], c, d)
        = [src |-> s, cache |-> [h EXCEPT ![c] = d]]
  BY DEF Hash!cmd_hash_insert
<1> DEFINE g == [h EXCEPT ![c] = d]
<1>2. g \in [Commands -> Dirs \cup {Hash!Miss}] /\ g[c] = d /\ \A b \in Commands \ {c} : g[b] = h[b]
  OBVIOUS
<1> HIDE DEF g
<1>3. Sound([src |-> s, cache |-> g])
  BY <1>2 DEF Sound
<1> QED
  BY <1>1, <1>3 DEF g

(* The shell hashes a name before it forks.                                *)
LEMMA PrehashSound ==
  ASSUME Named, HInv, NEW c \in Commands
  PROVE  LET prehashed == Hash!prehash_external(Hash!Hash, c)
             S == Hash!path_cache_sync(Hash!Hash)
         IN  /\ Sound(prehashed) /\ prehashed.src = Hash!PathDirs
             /\ prehashed = [src |-> prehashed.src, cache |-> prehashed.cache]
             /\ prehashed.cache[c] = IF S.cache[c] # Hash!Miss THEN S.cache[c]
                                     ELSE Hash!exe_path(Hash!PathDirs, c)
<1> DEFINE S == Hash!path_cache_sync(Hash!Hash)
           d == Hash!exe_path(S.src, c)
<1>0. HashTyped
  BY DEF HInv
<1>1. Sound(S) /\ S.src = Hash!PathDirs /\ S = [src |-> S.src, cache |-> S.cache]
  BY <1>0, HashSound, SyncSound
<1>2. Hash!PathDirs \in Seq(Dirs) /\ Hash!PathDirs # Hash!Never
  BY <1>0, PathDirsType
<1>3. d # Hash!Miss => d \in Dirs /\ \E i \in DOMAIN Hash!PathDirs : Hash!PathDirs[i] = d
  BY <1>1, <1>2, SearchFinds
<1>4. Hash!prehash_external(Hash!Hash, c)
        = IF S.cache[c] # Hash!Miss \/ d = Hash!Miss THEN S ELSE Hash!cmd_hash_insert(S, c, d)
  BY DEF Hash!prehash_external, Hash!cmd_hash_lookup
<1> HIDE DEF S, d
<1>5. CASE S.cache[c] # Hash!Miss \/ d = Hash!Miss
  <2>1. d = Hash!exe_path(Hash!PathDirs, c)
    BY <1>1 DEF d
  <2> QED
    BY <1>1, <1>4, <1>5, <2>1 DEF S
<1>6. CASE ~(S.cache[c] # Hash!Miss \/ d = Hash!Miss)
  <2> DEFINE prehashed == Hash!cmd_hash_insert(S, c, d)
             h == S.cache
  <2>0. h \in [Commands -> Dirs \cup {Hash!Miss}]
    BY <1>1 DEF Sound
  <2>1. S = [src |-> Hash!PathDirs, cache |-> h]
    BY <1>1
  <2> HIDE DEF h
  <2>2. Sound(prehashed) /\ prehashed = [src |-> Hash!PathDirs, cache |-> [h EXCEPT ![c] = d]]
    BY <1>1, <1>2, <1>3, <1>6, <2>0, <2>1, InsertSound
  <2>3. [h EXCEPT ![c] = d][c] = d
    BY <2>0
  <2>4. d = Hash!exe_path(Hash!PathDirs, c)
    BY <1>1 DEF d
  <2>5. /\ prehashed.src = Hash!PathDirs /\ prehashed.cache[c] = d
        /\ prehashed = [src |-> prehashed.src, cache |-> prehashed.cache]
    BY <2>2, <2>3
  <2>6. Hash!prehash_external(Hash!Hash, c) = prehashed
    BY <1>4, <1>6
  <2> HIDE DEF prehashed
  <2> QED
    BY <1>6, <2>2, <2>4, <2>5, <2>6 DEF S
<1> QED
  BY <1>5, <1>6

(* What the child finds with the cache its fork began with is a file that  *)
(* can be run, in a directory of PATH; or there is none.                   *)
LEMMA LookupTrue ==
  ASSUME Named, NoDirectories, HInv, NEW c \in Commands, path_dirs_src = Hash!PathDirs
  PROVE  LET r == Hash!handle_path_lookup(Hash!Hash, c)
         IN  IF r \in {Hash!NotFound, Hash!Denied}
             THEN \A i \in DOMAIN Hash!PathDirs : files[Hash!PathDirs[i]][c] # "exec"
             ELSE /\ r \in Dirs /\ files[r][c] = "exec"
                  /\ \E i \in DOMAIN Hash!PathDirs : Hash!PathDirs[i] = r
<1> DEFINE r == Hash!handle_path_lookup(Hash!Hash, c)
           hit == cmd_cache[c]
           d == Hash!exe_path(Hash!PathDirs, c)
<1>0. HashTyped /\ FoundThere
  BY DEF HInv
<1>1. Hash!PathDirs \in Seq(Dirs)
  BY <1>0, PathDirsType
<1>2. Hash!path_cache_sync(Hash!Hash) = Hash!Hash
  BY <1>0, HashSound, SyncSound DEF Hash!Hash
<1>3. r = IF hit # Hash!Miss /\ Hash!Executable(hit, c) THEN hit
          ELSE IF d # Hash!Miss THEN d
          ELSE IF Hash!perm_denied(Hash!PathDirs, c) THEN Hash!Denied ELSE Hash!NotFound
  BY <1>2 DEF Hash!handle_path_lookup, Hash!search_path_dirs, Hash!cmd_hash_lookup, Hash!Hash
<1>4. /\ d = Hash!Miss => \A i \in DOMAIN Hash!PathDirs : files[Hash!PathDirs[i]][c] # "exec"
      /\ d # Hash!Miss => /\ d \in Dirs /\ files[d][c] = "exec"
                          /\ \E i \in DOMAIN Hash!PathDirs : Hash!PathDirs[i] = d
  BY <1>1, SearchFinds
<1>5. hit # Hash!Miss => hit \in Dirs /\ \E i \in DOMAIN Hash!PathDirs : Hash!PathDirs[i] = hit
  BY <1>0 DEF HashTyped, FoundThere
<1>6. hit # Hash!Miss /\ Hash!Executable(hit, c) => files[hit][c] = "exec"
  BY <1>0, <1>5 DEF Hash!Executable, HashTyped, NoDirectories
<1>7. Hash!NotFound \notin Dirs /\ Hash!Denied \notin Dirs
  BY DEF Named
<1> HIDE DEF r, hit, d
<1>8. IF r \in {Hash!NotFound, Hash!Denied}
      THEN \A i \in DOMAIN Hash!PathDirs : files[Hash!PathDirs[i]][c] # "exec"
      ELSE /\ r \in Dirs /\ files[r][c] = "exec"
           /\ \E i \in DOMAIN Hash!PathDirs : Hash!PathDirs[i] = r
  <2>1. CASE hit # Hash!Miss /\ Hash!Executable(hit, c)
    BY <1>3, <1>5, <1>6, <1>7, <2>1
  <2>2. CASE ~(hit # Hash!Miss /\ Hash!Executable(hit, c)) /\ d # Hash!Miss
    BY <1>3, <1>4, <1>7, <2>2
  <2>3. CASE ~(hit # Hash!Miss /\ Hash!Executable(hit, c)) /\ d = Hash!Miss
    BY <1>3, <1>4, <2>3
  <2> QED
    BY <2>1, <2>2, <2>3
<1> QED
  BY <1>8 DEF r

(***************************************************************************)
(* The steps                                                               *)
(***************************************************************************)
LEMMA HashStarts == Named /\ Hash!Init => HInv /\ Hash!RunsFromPath
<1> SUFFICES ASSUME Named, Hash!Init PROVE HInv /\ Hash!RunsFromPath
  OBVIOUS
<1>1. HInv
  BY DEF Hash!Init, HInv, HashTyped, FoundThere, InStep, Named
<1> QED
  BY <1>1 DEF Hash!Init, Hash!RunsFromPath

(* The caches become a sound pair: a name is remembered, forgotten, or all *)
(* are.                                                                    *)
LEMMA BecomesSound ==
  ASSUME NEW H, Sound(H), Hash!Becomes(H)
  PROVE  /\ path_dirs_src' \in Seq(Dirs) \cup {Hash!Never}
         /\ cmd_cache' \in [Commands -> Dirs \cup {Hash!Miss}]
         /\ FoundThere'
BY DEF Sound, Hash!Becomes, FoundThere

LEMMA HashSteps ==
  ASSUME Named, HashedLate, HInv, [Hash!Next]_(Hash!vars)
  PROVE  HInv'
<1>0. HashTyped /\ FoundThere /\ InStep /\ Sound(Hash!Hash)
  BY HashSound DEF HInv
<1>1. ASSUME NEW p \in Paths, Hash!SetPath(p) PROVE HInv'
  BY <1>0, <1>1 DEF Hash!SetPath, Hash!Quiet, HInv, HashTyped, FoundThere, InStep, Named
<1>2. ASSUME NEW c \in Commands, Hash!hash_add_from_path(c) PROVE HInv'
  <2> DEFINE d == Hash!exe_path(PATH, c)
  <2>1. /\ PATH = path_dirs_src /\ PATH # Hash!UnsetPath
        /\ IF d = Hash!Miss THEN UNCHANGED <<path_dirs_src, cmd_cache>>
           ELSE Hash!Becomes(Hash!cmd_hash_insert(Hash!Hash, c, d))
        /\ starting' = Hash!None /\ UNCHANGED <<files, PATH>>
    BY <1>2 DEF Hash!hash_add_from_path, HashedLate, Hash!Quiet
  <2>2. PATH \in Seq(Dirs) /\ PATH # Hash!Never
    BY <1>0, <2>1, PathDirsType DEF HashTyped
  <2>3. d # Hash!Miss => d \in Dirs /\ \E i \in DOMAIN PATH : PATH[i] = d
    BY <2>2, SearchFinds
  <2> HIDE DEF d
  <2>4. /\ path_dirs_src' \in Seq(Dirs) \cup {Hash!Never}
        /\ cmd_cache' \in [Commands -> Dirs \cup {Hash!Miss}] /\ FoundThere'
    <3>1. CASE d = Hash!Miss
      BY <1>0, <2>1, <3>1 DEF HashTyped, FoundThere
    <3>2. CASE d # Hash!Miss
      <4>1. /\ Hash!Hash = [src |-> PATH, cache |-> cmd_cache]
            /\ cmd_cache \in [Commands -> Dirs \cup {Hash!Miss}]
        BY <1>0, <2>1 DEF Hash!Hash, HashTyped
      <4>2. Sound(Hash!cmd_hash_insert(Hash!Hash, c, d))
        BY <1>0, <2>2, <2>3, <3>2, <4>1, InsertSound
      <4> QED
        BY <2>1, <3>2, <4>2, BecomesSound
    <3> QED
      BY <3>1, <3>2
  <2> QED
    BY <1>0, <2>1, <2>4 DEF HInv, HashTyped, InStep
<1>3. ASSUME NEW c \in Commands, Hash!handle_hash_flags(c) PROVE HInv'
  <2>1. starting' = Hash!None /\ UNCHANGED <<files, PATH>>
    BY <1>3 DEF Hash!handle_hash_flags, Hash!Quiet
  <2>2. Sound(Hash!cmd_hash_clear(Hash!Hash)) /\ Sound(Hash!cmd_hash_remove(Hash!Hash, c))
    <3>1. Hash!cmd_hash_clear(Hash!Hash)
            = [src |-> path_dirs_src, cache |-> [b \in Commands |-> Hash!Miss]]
      BY DEF Hash!cmd_hash_clear, Hash!Hash
    <3>2. Hash!cmd_hash_remove(Hash!Hash, c)
            = [src |-> path_dirs_src, cache |-> [cmd_cache EXCEPT ![c] = Hash!Miss]]
      BY DEF Hash!cmd_hash_remove, Hash!Hash
    <3>3. Sound(Hash!cmd_hash_clear(Hash!Hash))
      BY <1>0, <3>1, ClearSound DEF HashTyped
    <3> DEFINE g == [cmd_cache EXCEPT ![c] = Hash!Miss]
    <3>4. /\ g \in [Commands -> Dirs \cup {Hash!Miss}]
          /\ \A b \in Commands : g[b] # Hash!Miss => g[b] = cmd_cache[b]
      BY <1>0 DEF HashTyped
    <3> HIDE DEF g
    <3>5. Sound([src |-> path_dirs_src, cache |-> g])
      BY <1>0, <3>4 DEF Sound, HashTyped, FoundThere
    <3> QED
      BY <3>2, <3>3, <3>5 DEF g
  <2>3. /\ path_dirs_src' \in Seq(Dirs) \cup {Hash!Never}
        /\ cmd_cache' \in [Commands -> Dirs \cup {Hash!Miss}] /\ FoundThere'
    BY <1>3, <2>2, BecomesSound DEF Hash!handle_hash_flags
  <2> QED
    BY <1>0, <2>1, <2>3 DEF HInv, HashTyped, InStep
<1>4. ASSUME NEW c \in Commands, Hash!Start(c) PROVE HInv'
  <2> DEFINE prehashed == Hash!prehash_external(Hash!Hash, c)
  <2>1. Hash!Becomes(prehashed) /\ starting' = c /\ UNCHANGED <<files, PATH>>
    BY <1>4 DEF Hash!Start
  <2>2. Sound(prehashed) /\ prehashed.src = Hash!PathDirs
    BY PrehashSound
  <2> HIDE DEF prehashed
  <2>3. /\ path_dirs_src' \in Seq(Dirs) \cup {Hash!Never}
        /\ cmd_cache' \in [Commands -> Dirs \cup {Hash!Miss}] /\ FoundThere'
    BY <2>1, <2>2, BecomesSound
  <2>4. path_dirs_src' = Hash!PathDirs'
    BY <2>1, <2>2 DEF Hash!Becomes, Hash!PathDirs
  <2> QED
    BY <1>0, <2>1, <2>3, <2>4 DEF HInv, HashTyped, InStep
<1>5. ASSUME NEW c \in Commands, Hash!exec_failed(c) PROVE HInv'
  <2>1. /\ Hash!Becomes(Hash!path_cache_sync(Hash!Hash))
        /\ starting' = Hash!None /\ UNCHANGED <<files, PATH>>
    BY <1>5 DEF Hash!exec_failed, Hash!Quiet
  <2>2. Sound(Hash!path_cache_sync(Hash!Hash))
    BY <1>0, SyncSound
  <2>3. /\ path_dirs_src' \in Seq(Dirs) \cup {Hash!Never}
        /\ cmd_cache' \in [Commands -> Dirs \cup {Hash!Miss}] /\ FoundThere'
    BY <2>1, <2>2, BecomesSound
  <2> QED
    BY <1>0, <2>1, <2>3 DEF HInv, HashTyped, InStep
<1>6. CASE Hash!find_cmd_path
  BY <1>0, <1>6 DEF Hash!find_cmd_path, HInv, HashTyped, FoundThere, InStep, Hash!PathDirs
<1>7. CASE Hash!Reaped
  BY <1>0, <1>7 DEF Hash!Reaped, Hash!Quiet, HInv, HashTyped, FoundThere, InStep
<1>8. ASSUME NEW d \in Dirs, NEW c \in Commands, NEW k \in Kinds, Hash!Installed(d, c, k)
      PROVE  HInv'
  <2>1. files' \in [Dirs -> [Commands -> Kinds]]
    BY <1>0, <1>8 DEF Hash!Installed, HashTyped
  <2>2. UNCHANGED <<PATH, path_dirs_src, cmd_cache, starting>>
    BY <1>8 DEF Hash!Installed
  <2> QED
    BY <1>0, <2>1, <2>2 DEF HInv, HashTyped, FoundThere, InStep, Hash!PathDirs
<1>9. CASE UNCHANGED Hash!vars
  BY <1>0, <1>9 DEF Hash!vars, HInv, HashTyped, FoundThere, InStep, Hash!PathDirs
<1> QED
  BY <1>1, <1>2, <1>3, <1>4, <1>5, <1>6, <1>7, <1>8, <1>9 DEF Hash!Next

LEMMA OutcomeTrue ==
  ASSUME Named, NoDirectories, HInv, Hash!RunsFromPath, [Hash!Next]_(Hash!vars)
  PROVE  Hash!RunsFromPath'
<1>1. CASE Hash!find_cmd_path
  <2> DEFINE r == Hash!handle_path_lookup(Hash!Hash, starting)
  <2>1. /\ outcome' = r /\ starting \in Commands /\ path_dirs_src = Hash!PathDirs
        /\ UNCHANGED <<files, PATH, starting>>
    BY <1>1 DEF Hash!find_cmd_path, HInv, HashTyped, InStep
  <2>2. IF r \in {Hash!NotFound, Hash!Denied}
        THEN \A i \in DOMAIN Hash!PathDirs : files[Hash!PathDirs[i]][starting] # "exec"
        ELSE /\ r \in Dirs /\ files[r][starting] = "exec"
             /\ \E i \in DOMAIN Hash!PathDirs : Hash!PathDirs[i] = r
    BY <2>1, LookupTrue
  <2> HIDE DEF r
  <2>3. Hash!PathDirs' = Hash!PathDirs /\ Hash!PathDirs \in Seq(Dirs)
    BY <2>1, PathDirsType DEF Hash!PathDirs, HInv
  <2>4. DOMAIN Hash!PathDirs = 1 .. Len(Hash!PathDirs)
    BY <2>3
  <2> QED
    BY <2>1, <2>2, <2>3, <2>4 DEF Hash!RunsFromPath, Hash!Contains
<1>2. CASE UNCHANGED Hash!vars
  BY <1>2 DEF Hash!vars, Hash!RunsFromPath, Hash!PathDirs
<1>3. CASE ~Hash!find_cmd_path /\ Hash!Next
  <2>1. outcome' = Hash!Miss
    BY <1>3
       DEF Hash!Next, Hash!SetPath, Hash!hash_add_from_path, Hash!handle_hash_flags, Hash!Start,
           Hash!exec_failed, Hash!Reaped, Hash!Installed, Hash!Quiet
  <2> QED
    BY <2>1 DEF Hash!RunsFromPath
<1> QED
  BY <1>1, <1>2, <1>3

(* What the cache holds is enough for command -v.                          *)
LEMMA HashTells ==
  ASSUME Named
  PROVE  HInv => Hash!CommandVTells
<1> SUFFICES ASSUME HInv, NEW c \in Commands,
                    Hash!handle_path_lookup(Hash!prehash_external(Hash!Hash, c), c) \in Dirs,
                    PATH # Hash!UnsetPath
             PROVE  Hash!command_v_lookup(Hash!Hash, c)
                      = Hash!handle_path_lookup(Hash!prehash_external(Hash!Hash, c), c)
  BY DEF Hash!CommandVTells
<1> DEFINE prehashed == Hash!prehash_external(Hash!Hash, c)
           S == Hash!path_cache_sync(Hash!Hash)
           d == Hash!exe_path(PATH, c)
           hit == cmd_cache[c]
           ran == Hash!handle_path_lookup(prehashed, c)
           says == Hash!command_v_lookup(Hash!Hash, c)
<1>0. HashTyped /\ Hash!PathDirs = PATH /\ PATH \in Seq(Dirs) /\ Sound(Hash!Hash)
  BY HashSound DEF HInv, HashTyped, Hash!PathDirs
<1>1. /\ prehashed.src = PATH
      /\ prehashed.cache[c] = IF S.cache[c] # Hash!Miss THEN S.cache[c] ELSE d
  BY <1>0, PrehashSound
<1>2. S.cache[c] = IF path_dirs_src = PATH THEN hit ELSE Hash!Miss
  BY <1>0, SyncSound DEF Hash!Hash
<1>3. d # Hash!Miss => Hash!Executable(d, c)
  BY <1>0, SearchFinds DEF Hash!Executable
<1>4. Hash!path_cache_sync(prehashed) = prehashed
  BY <1>0, <1>1 DEF Hash!path_cache_sync
<1>5. ran = IF prehashed.cache[c] # Hash!Miss /\ Hash!Executable(prehashed.cache[c], c)
            THEN prehashed.cache[c]
            ELSE IF d # Hash!Miss THEN d
            ELSE IF Hash!perm_denied(PATH, c) THEN Hash!Denied ELSE Hash!NotFound
  BY <1>1, <1>4 DEF Hash!handle_path_lookup, Hash!search_path_dirs, Hash!cmd_hash_lookup
<1>6. says = IF PATH = path_dirs_src /\ hit # Hash!Miss /\ Hash!Executable(hit, c) THEN hit
             ELSE Hash!exe_path_preferred(PATH, c)
  BY DEF Hash!command_v_lookup, Hash!cmd_hash_lookup, Hash!Hash
<1>7. d # Hash!Miss => Hash!exe_path_preferred(PATH, c) = d
  BY DEF Hash!exe_path_preferred
<1>8. ran \in Dirs /\ Hash!NotFound \notin Dirs /\ Hash!Denied \notin Dirs
  BY DEF Named
<1> SUFFICES says = ran
  OBVIOUS
<1> HIDE DEF prehashed, S, d, hit, ran, says
<1>9. CASE PATH = path_dirs_src /\ hit # Hash!Miss /\ Hash!Executable(hit, c)
  BY <1>1, <1>2, <1>5, <1>6, <1>9
<1>10. CASE ~(PATH = path_dirs_src /\ hit # Hash!Miss /\ Hash!Executable(hit, c))
  BY <1>1, <1>2, <1>3, <1>5, <1>6, <1>7, <1>8, <1>10
<1> QED
  BY <1>9, <1>10

(***************************************************************************)
(* The theorems                                                            *)
(***************************************************************************)
(* Wherever an update fails or is killed the installed path holds a whole  *)
(* binary; code 0 means that it was replaced and a code up to 4 that it was *)
(* not; a `sudo install` that stopped half way is left out (update_apply,  *)
(* move_into_place).                                                       *)
THEOREM BinaryStaysWhole ==
  ASSUME Alone, Numbered
  PROVE  Spec => []BinaryWhole
<1> DEFINE Inv == part = "Upd" => UInv
<1>1. Init => Inv
  BY UpdateStarts DEF Init
<1>2. Inv /\ [Next]_vars => Inv'
  BY UpdOnly, UpdateSteps
<1>3. Inv => BinaryWhole
  BY DEF BinaryWhole, UInv, Typed, Placed, Replacing, Upd!BinaryWhole, Upd!Content, Numbered
<1> HIDE DEF Inv
<1> QED
  BY <1>1, <1>2, <1>3, PTL DEF Spec

(* Whatever was set, removed, declared and searched before, the index of   *)
(* the environment answers what a walk over the vector would, for every    *)
(* hash function and every number of records, and a script reads back what *)
(* it last wrote, under that name or one that refers to it (eix_put,       *)
(* env_index_find, env_set, ft_unset, env_expand_n).                       *)
THEOREM EnvironmentStaysTrue ==
  ASSUME Env!Setting
  PROVE  Spec => []EnvironmentTrue
<1> DEFINE Inv == part = "Env" => Env!EnvInv
<1>1. Init => Inv
  BY Env!EnvInit DEF Init
<1>2. Inv /\ [Next]_vars => Inv'
  BY EnvOnly, Env!EnvStep
<1>3. Inv => EnvironmentTrue
  BY Env!EnvAgrees DEF EnvironmentTrue
<1> HIDE DEF Inv
<1> QED
  BY <1>1, <1>2, <1>3, PTL DEF Spec

(* The answer a prompt may show without asking git again is what git would *)
(* say of the repository it stands in: never the answer of another, of     *)
(* before the last command that touched a tree, or cut short               *)
(* (git_dirty_cached, git_scan_wait, git_scan_publish).  NoSubshell: the   *)
(* command did not run in a subshell, where the generation rises unseen.   *)
THEOREM StarStaysTrue ==
  ASSUME TreesOfLines, NoSubshell
  PROVE  Spec => []StarTrue
<1> DEFINE Inv == part = "Git" => GInv
<1>1. Init => Inv
  BY GStarts DEF Init
<1>2. Inv /\ [Next]_vars => Inv'
  BY GitOnly, GSteps
<1>3. Inv => StarTrue
  BY GShows DEF StarTrue
<1> HIDE DEF Inv
<1> QED
  BY <1>1, <1>2, <1>3, PTL DEF Spec

(* However PATH and the files changed since a name was remembered, what    *)
(* runs is a file that can be run in a directory of the PATH there is now, *)
(* and command -v names the very file (find_cmd_path*.c, builtin_cmd3.c);  *)
(* but for `hash name` right after PATH changed (HashedLate) and for       *)
(* directories under the name of a command (NoDirectories).                *)
THEOREM HashStaysFresh ==
  ASSUME Named, HashedLate, NoDirectories
  PROVE  Spec => []HashNeverStale
<1> DEFINE Inv == part = "Hash" => HInv /\ Hash!RunsFromPath
<1>1. Init => Inv
  BY HashStarts DEF Init
<1>2. Inv /\ [Next]_vars => Inv'
  BY HashOnly, HashSteps, OutcomeTrue
<1>3. Inv => HashNeverStale
  BY HashTells DEF HashNeverStale
<1> HIDE DEF Inv
<1> QED
  BY <1>1, <1>2, <1>3, PTL DEF Spec

(* command -v names the file the next run of the command would take, even  *)
(* where directories lie under the name of a command (command_v_lookup     *)
(* against prehash_external and handle_path_lookup); HashedLate as above.  *)
THEOREM CommandVStaysRight ==
  ASSUME Named, HashedLate
  PROVE  Spec => [](part = "Hash" => Hash!CommandVTells)
<1> DEFINE Inv == part = "Hash" => HInv
           Right == part = "Hash" => Hash!CommandVTells
<1>1. Init => Inv
  BY HashStarts DEF Init
<1>2. Inv /\ [Next]_vars => Inv'
  BY HashOnly, HashSteps
<1>3. Inv => Right
  BY HashTells
<1> HIDE DEF Inv, Right
<1>4. Spec => []Right
  BY <1>1, <1>2, <1>3, PTL DEF Spec
<1> QED
  BY <1>4 DEF Right

(* Whatever a function does to itself or to its callers, the trees that    *)
(* are walked are alive and no other outlives the calls, a name means its  *)
(* newest definition, FUNCNAME is the calls in progress, and no file and   *)
(* no function leaks its dialect (func_retire.c, func_index.c,             *)
(* call_frames.c, zsh_mode2.c).                                            *)
THEOREM CallsStaySound ==
  ASSUME Func!ScriptsName, FramesShown \in Nat
  PROVE  Spec => []CallsKeepTheirOwn
<1> DEFINE Inv == part = "Func" => Func!FInv
<1>1. Init => Inv
  BY Func!FStarts DEF Init
<1>2. Inv /\ [Next]_vars => Inv'
  BY FuncOnly, Func!FSteps
<1>3. Inv => CallsKeepTheirOwn
  BY Func!FImplies DEF CallsKeepTheirOwn
<1> HIDE DEF Inv
<1> QED
  BY <1>1, <1>2, <1>3, PTL DEF Spec

(* Whichever of cd, its hooks, pushd, popd and the reader moved the shell, *)
(* the text kept for the directory names it, and so do PWD, OLDPWD and the *)
(* stack of pushd, whatever empty directories come and go; and reading a   *)
(* line moves the shell only if a widget did (cd_helpers*.c,               *)
(* builtin_dirstack.c, zle_cwd.c).                                         *)
THEOREM PlaceStaysTrue ==
  ASSUME Dir!TreeStands, Dir!WordsTyped, ~LogicalReader
  PROVE  Spec => []PlaceHolds
<1> DEFINE Inv == part = "Dir" => Dir!DInv
<1>1. Init => Inv
  BY Dir!DStarts DEF Init
<1>2. Inv /\ [Next]_vars => Inv'
  BY DirOnly, Dir!DSteps
<1>3. Inv => PlaceHolds
  BY Dir!DShows DEF PlaceHolds
<1> HIDE DEF Inv
<1> QED
  BY <1>1, <1>2, <1>3, PTL DEF Spec

(* For any arguments, any strings of options and any addresses, a script   *)
(* that scans as POSIX lets it hears from getopts, once each and in order, *)
(* the options its arguments mean, whatever it sets OPTIND to, unsets,     *)
(* makes local and gets back in between (builtin_getopts*.c).              *)
THEOREM OptionsStayOnce ==
  ASSUME GivenOptions, Liberties = {}
  PROVE  Spec => []OptionsOnce
<1> DEFINE Inv == part = "Opt" => OInv
<1>1. Init => Inv
  BY OStarts DEF Init
<1>2. Inv /\ [Next]_vars => Inv'
  BY OptOnly, OSteps
<1>3. Inv => OptionsOnce
  BY OShows DEF OptionsOnce
<1> HIDE DEF Inv
<1> QED
  BY <1>1, <1>2, <1>3, PTL DEF Spec
================================================================================
