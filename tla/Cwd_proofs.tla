----------------------------- MODULE Cwd_proofs -----------------------------
(***************************************************************************)
(* The texts a shell keeps for its directory are right: for any tree, any  *)
(* links, any operands, hooks and CDPATH, and whatever empty directories   *)
(* other processes remove and make again.                                  *)
(***************************************************************************)
EXTENDS Cwd, WellFoundedInduction, TLAPS

(* The marks are no texts a shell could have; a component is what some     *)
(* path, or a mark, is made of.                                            *)
Marks == {Unset, NoValue, NoCwd, Nowhere}
Typed == Operands \cup {HOME} \cup ToSet(CDPATH) \cup ToSet(Hooks)
Component ==
  UNION {ToSet(p) : p \in Tree \cup DOMAIN Links \cup Assigned \cup Swaps \cup Marks
                            \cup {op.comps : op \in Typed}}
Plain == Seq(Component \ {".", ".."})
Operand == [abs : BOOLEAN, comps : Seq(Component)]

(* What is typed is made of components.                                    *)
WordsTyped ==
  /\ Operands \subseteq Operand /\ HOME \in Operand
  /\ CDPATH \in Seq(Operand) /\ Hooks \in Seq(Operand)
  /\ Swaps \subseteq Component \X Component
  /\ Assigned \subseteq Seq(Component)

(* Any tree, closed under parents; a link is no directory, and what other  *)
(* processes may remove is empty.  No directory has the name of a mark.    *)
TreeStands ==
  /\ Tree \subseteq Plain /\ <<>> \in Tree
  /\ \A d \in Tree : d # <<>> => Front(d) \in Tree
  /\ DOMAIN Links \subseteq Plain \ Tree
  /\ Fragile \subseteq Tree \ {<<>>}
  /\ \A d \in Fragile, e \in Tree \cup DOMAIN Links : e # <<>> => Front(e) # d
  /\ Marks \cap (Tree \cup DOMAIN Links) = {}

LEMMA MarksArePlain ==
  ASSUME NEW m \in Marks
  PROVE  /\ m \in Plain /\ m \in Seq(Component)
         /\ \E c \in Component \ {".", ".."} : m = <<c>>
<1>1. \E c : m = <<c>> /\ c # "." /\ c # ".."
  BY DEF Marks, Unset, NoValue, NoCwd, Nowhere
<1>2. PICK c : m = <<c>> /\ c # "." /\ c # ".."
  BY <1>1
<1>3. c \in ToSet(m)
  BY <1>2 DEF ToSet
<1>4. c \in Component \ {".", ".."}
  BY <1>2, <1>3 DEF Component
<1> QED
  BY <1>2, <1>4 DEF Plain

(***************************************************************************)
(* Paths.  Enters is Enter with the directories there are as a parameter,  *)
(* so that a path can be followed before and after one is removed.         *)
(***************************************************************************)
Enters(D, p, c) ==
  LET q == Append(p, c)
      r == IF q \in DOMAIN Links THEN Links[q] ELSE q
  IN  IF p = Nowhere THEN Nowhere
      ELSE IF c = "." THEN p
      ELSE IF c = ".." THEN (IF p = <<>> THEN p ELSE Front(p))
      ELSE IF r \in D THEN r ELSE Nowhere
Walks(D, r, from, comps) ==
  /\ r[0] = from
  /\ \A i \in 1 .. Len(comps) : r[i] = Enters(D, r[i - 1], comps[i])

Steps == INSTANCE FoldFacts WITH Op <- Enter

LEMMA Upto ==
  ASSUME NEW A, NEW n \in Nat, 0 \in A, \A i \in 1 .. n : i - 1 \in A => i \in A
  PROVE  \A i \in 0 .. n : i \in A
<1> SUFFICES ASSUME NEW k \in 0 .. n, k \notin A
             PROVE  FALSE
  OBVIOUS
<1> DEFINE B == {i \in 0 .. n : i \notin A}
<1>1. PICK m \in B : \A y \in B : m <= y
  <2>1. B \subseteq Nat /\ B # {}
    OBVIOUS
  <2> QED
    BY <2>1, Steps!LowestOf
<1>2. m # 0 /\ m - 1 \in 0 .. n /\ m - 1 \notin B
  BY <1>1
<1> QED
  BY <1>1, <1>2

LEMMA ResolveWalks ==
  \A from : \A comps \in Seq(Component) :
    \E r : Walks(dirs, r, from, comps) /\ r[Len(comps)] = Resolve(from, comps)
<1> TAKE from
<1> TAKE comps \in Seq(Component)
<1>1. Resolve(from, comps) = Steps!Left(from, comps)
  BY DEF Resolve, Steps!Left, Steps!FoldsUp, Steps!Top, FoldLeft, MapThenFoldSet, Max
<1>2. PICK r : Steps!RunsUp(r, from, comps, Len(comps)) /\ r[Len(comps)] = Steps!Left(from, comps)
  BY Steps!LeftRun
<1>3. Walks(dirs, r, from, comps)
  BY <1>2 DEF Walks, Steps!RunsUp, Enters, Enter
<1> QED
  BY <1>1, <1>2, <1>3

LEMMA ResolveWalksNext ==
  \A from : \A comps \in Seq(Component) :
    \E r : Walks(dirs', r, from, comps) /\ r[Len(comps)] = Resolve(from, comps)'
<1>1. (\A from : \A comps \in Seq(Component) :
    \E r : Walks(dirs, r, from, comps) /\ r[Len(comps)] = Resolve(from, comps))'
  BY ResolveWalks, PTL
<1> QED
  BY <1>1

(* More directories: a path that led somewhere leads there still.          *)
LEMMA WalksOn ==
  ASSUME NEW D, NEW E, D \subseteq E, NEW from, NEW comps \in Seq(Component),
         NEW r, Walks(D, r, from, comps), NEW q, Walks(E, q, from, comps),
         r[Len(comps)] # Nowhere
  PROVE  q[Len(comps)] = r[Len(comps)]
<1> DEFINE n == Len(comps)
           A == {i \in 0 .. n : r[i] = Nowhere \/ q[i] = r[i]}
<1>1. n \in Nat /\ 0 \in A
  BY DEF Walks
<1>2. ASSUME NEW i \in 1 .. n, i - 1 \in A
      PROVE  i \in A
  <2>1. /\ r[i] = Enters(D, r[i - 1], comps[i])
        /\ q[i] = Enters(E, q[i - 1], comps[i])
    BY DEF Walks
  <2>2. r[i - 1] = Nowhere \/ q[i - 1] = r[i - 1]
    BY <1>2
  <2>3. r[i] = Nowhere \/ q[i] = r[i]
    BY <2>1, <2>2 DEF Enters
  <2> QED
    BY <2>3
<1>3. \A i \in 0 .. n : i \in A
  <2> HIDE DEF A, n
  <2> QED
    BY <1>1, <1>2, Upto
<1> QED
  BY <1>1, <1>3

(* A path without `..` that does not end in an empty directory does not    *)
(* pass through it.                                                        *)
LEMMA WalksPast ==
  ASSUME TreeStands, NEW D \in SUBSET Tree, NEW d \in Fragile, NEW comps \in Plain,
         NEW r, Walks(D, r, <<>>, comps), NEW q, Walks(D \ {d}, q, <<>>, comps),
         r[Len(comps)] \notin {Nowhere, d}
  PROVE  q[Len(comps)] = r[Len(comps)]
<1> DEFINE n == Len(comps)
           A == {i \in 0 .. n : \/ r[i] \in {Nowhere, d}
                                \/ r[i] \in D \cup {<<>>} /\ q[i] = r[i]}
<1>1. n \in Nat /\ 0 \in A
  BY DEF Walks, Plain
<1>2. ASSUME NEW i \in 1 .. n, i - 1 \in A
      PROVE  i \in A
  <2> DEFINE p == r[i - 1]
             c == comps[i]
  <2>0. c \in Component \ {".", ".."}
    BY DEF Plain
  <2>1. /\ r[i] = Enters(D, p, c)
        /\ q[i] = Enters(D \ {d}, q[i - 1], c)
    BY DEF Walks
  <2>2. \/ p = Nowhere \/ p = d
        \/ (p \in D \/ p = <<>>) /\ q[i - 1] = p
    BY <1>2
  <2> HIDE DEF p, c
  <2>3. CASE p = Nowhere
    BY <2>1, <2>3 DEF Enters
  <2>4. CASE p = d /\ p # Nowhere
    <3>1. d \in Seq(Component)
      BY DEF TreeStands, Plain
    <3>2. Append(d, c) # <<>> /\ Front(Append(d, c)) = d
      BY <3>1, <2>0 DEF Front
    <3>3. Append(d, c) \notin Tree \cup DOMAIN Links
      BY <3>2 DEF TreeStands
    <3>4. r[i] = Nowhere
      BY <2>0, <2>1, <2>4, <3>3 DEF Enters
    <3> QED
      BY <3>4
  <2>5. CASE (p \in D \/ p = <<>>) /\ q[i - 1] = p /\ p # Nowhere
    <3>1. r[i] \in D \cup {Nowhere}
      BY <2>0, <2>1, <2>5 DEF Enters
    <3>2. r[i] \in {Nowhere, d} \/ q[i] = r[i]
      BY <2>0, <2>1, <2>5 DEF Enters
    <3> QED
      BY <3>1, <3>2
  <2> QED
    BY <2>2, <2>3, <2>4, <2>5
<1>3. \A i \in 0 .. n : i \in A
  <2> HIDE DEF A, n
  <2> QED
    BY <1>1, <1>2, Upto
<1> QED
  BY <1>1, <1>3

(* The directories there are: whatever is gone was empty.                  *)
Standing(D) == D \subseteq Tree /\ Tree \ Fragile \subseteq D

LEMMA ParentStands ==
  ASSUME TreeStands, NEW D, Standing(D), NEW p \in Tree, p # <<>>
  PROVE  Front(p) \in D
BY DEF TreeStands, Standing

LEMMA RootStands ==
  ASSUME TreeStands, NEW D, Standing(D)
  PROVE  <<>> \in D
BY DEF TreeStands, Standing

(* A directory is found under its own name.                                *)
LEMMA WalksHome ==
  ASSUME TreeStands, NEW D, Standing(D), NEW d \in D, NEW r, Walks(D, r, <<>>, d)
  PROVE  r[Len(d)] = d
<1> DEFINE n == Len(d)
           to(k) == [j \in 1 .. k |-> d[j]]
           B == {k \in 0 .. n : to(n - k) \in D}
           A == {i \in 0 .. n : r[i] = to(i)}
<1>1. d \in Plain /\ d \in Seq(Component) /\ n \in Nat /\ d = to(n)
  BY DEF TreeStands, Standing, Plain
<1>2. 0 \in B
  BY <1>1
<1>3. ASSUME NEW k \in 1 .. n, k - 1 \in B
      PROVE  k \in B
  <2> DEFINE e == to(n - (k - 1))
  <2>1. e \in D /\ e \in Seq(Component) /\ Len(e) = n - k + 1 /\ e # <<>>
    BY <1>1, <1>3
  <2>2. Front(e) \in D
    BY <2>1, ParentStands DEF Standing
  <2>3. Front(e) = to(n - k)
    BY <2>1, <1>1 DEF Front
  <2> QED
    BY <2>2, <2>3
<1>4. \A k \in 0 .. n : k \in B
  <2> HIDE DEF B, n
  <2> QED
    BY <1>1, <1>2, <1>3, Upto
<1>5. \A i \in 0 .. n : to(i) \in D
  <2> TAKE i \in 0 .. n
  <2>1. n - i \in 0 .. n /\ n - (n - i) = i
    BY <1>1
  <2> QED
    BY <2>1, <1>4
<1>6. 0 \in A
  BY <1>1 DEF Walks
<1>7. ASSUME NEW i \in 1 .. n, i - 1 \in A
      PROVE  i \in A
  <2>1. r[i] = Enters(D, r[i - 1], d[i]) /\ r[i - 1] = to(i - 1)
    BY <1>7 DEF Walks
  <2>2. d[i] \in Component \ {".", ".."}
    BY <1>1 DEF Plain
  <2>3. Append(to(i - 1), d[i]) = to(i)
    BY <1>1
  <2>4. to(i) \in D /\ to(i - 1) \in D
    BY <1>5
  <2>5. to(i) \notin DOMAIN Links /\ to(i - 1) # Nowhere
    BY <2>4 DEF TreeStands, Standing, Marks
  <2>6. r[i] = to(i)
    BY <2>1, <2>2, <2>3, <2>4, <2>5 DEF Enters
  <2> QED
    BY <2>6
<1>8. \A i \in 0 .. n : i \in A
  <2> HIDE DEF A, n
  <2> QED
    BY <1>1, <1>6, <1>7, Upto
<1> QED
  BY <1>1, <1>8

(* Where a path leads is a directory there is, or nowhere.                 *)
LEMMA WalksWithin ==
  ASSUME TreeStands, NEW D, Standing(D), NEW from \in D, NEW comps \in Seq(Component),
         NEW r, Walks(D, r, from, comps)
  PROVE  r[Len(comps)] \in D \cup {Nowhere}
<1> DEFINE n == Len(comps)
           A == {i \in 0 .. n : r[i] \in D \cup {Nowhere}}
<1>1. n \in Nat /\ 0 \in A
  BY DEF Walks
<1>2. ASSUME NEW i \in 1 .. n, i - 1 \in A
      PROVE  i \in A
  <2>1. r[i] = Enters(D, r[i - 1], comps[i]) /\ r[i - 1] \in D \cup {Nowhere}
    BY <1>2 DEF Walks
  <2>2. r[i - 1] \in D /\ r[i - 1] # <<>> => Front(r[i - 1]) \in D
    BY ParentStands DEF Standing
  <2>3. r[i] \in D \cup {Nowhere}
    BY <2>1, <2>2 DEF Enters
  <2> QED
    BY <2>3
<1>3. \A i \in 0 .. n : i \in A
  <2> HIDE DEF A, n
  <2> QED
    BY <1>1, <1>2, Upto
<1> QED
  BY <1>1, <1>3

(* The same of Names and Resolve.                                          *)
LEMMA ResolveWithin ==
  ASSUME TreeStands, Standing(dirs), NEW from \in dirs, NEW comps \in Seq(Component)
  PROVE  Resolve(from, comps) \in dirs \cup {Nowhere}
BY ResolveWalks, WalksWithin

LEMMA NamesWithin ==
  ASSUME TreeStands, Standing(dirs), NEW comps \in Seq(Component)
  PROVE  Names(comps) \in dirs \cup {Nowhere}
BY ResolveWithin, RootStands DEF Names

LEMMA NamesItself ==
  ASSUME TreeStands, Standing(dirs), NEW d \in dirs
  PROVE  Names(d) = d
<1>1. d \in Seq(Component)
  BY DEF TreeStands, Standing, Plain
<1> QED
  BY <1>1, ResolveWalks, WalksHome DEF Names

LEMMA ResolveOne ==
  ASSUME NEW from, NEW c \in Component
  PROVE  Resolve(from, <<c>>) = Enters(dirs, from, c)
<1> DEFINE one == <<c>>
<1>1. one \in Seq(Component) /\ Len(one) = 1 /\ one[1] = c /\ 1 - 1 = 0 /\ 1 \in 1 .. 1
  OBVIOUS
<1> HIDE DEF one
<1>2. PICK r : Walks(dirs, r, from, one) /\ r[1] = Resolve(from, one)
  BY <1>1, ResolveWalks
<1>3. r[1] = Enters(dirs, r[0], one[1]) /\ r[0] = from
  BY <1>1, <1>2 DEF Walks
<1> QED
  BY <1>1, <1>2, <1>3 DEF one

LEMMA MarksLeadNowhere ==
  ASSUME TreeStands, Standing(dirs), NEW m \in Marks
  PROVE  Names(m) = Nowhere
<1>1. PICK c \in Component \ {".", ".."} : m = <<c>>
  BY MarksArePlain
<1>2. Append(<<>>, c) = m /\ <<>> # Nowhere
  BY <1>1 DEF Nowhere
<1>3. m \notin dirs /\ m \notin DOMAIN Links
  BY DEF TreeStands, Standing
<1> QED
  BY <1>1, <1>2, <1>3, ResolveOne DEF Names, Enters

(* A directory is made: what led somewhere leads there still.              *)
LEMMA NamesAfterMkdir ==
  ASSUME NEW comps \in Seq(Component), dirs \subseteq dirs', Names(comps) # Nowhere
  PROVE  Names(comps)' = Names(comps)
BY ResolveWalks, ResolveWalksNext, WalksOn DEF Names

(* An empty one is removed: what led elsewhere leads there still.          *)
LEMMA NamesAfterRmdir ==
  ASSUME TreeStands, Standing(dirs), NEW d \in Fragile, dirs' = dirs \ {d},
         NEW comps \in Plain, Names(comps) \notin {Nowhere, d}
  PROVE  Names(comps)' = Names(comps)
<1>1. comps \in Seq(Component) /\ dirs \in SUBSET Tree
  BY DEF Plain, Standing
<1>2. PICK r : Walks(dirs, r, <<>>, comps) /\ r[Len(comps)] = Names(comps)
  BY <1>1, ResolveWalks DEF Names
<1>3. PICK q : Walks(dirs', q, <<>>, comps) /\ q[Len(comps)] = Names(comps)'
  BY <1>1, ResolveWalksNext DEF Names
<1> QED
  BY <1>1, <1>2, <1>3, WalksPast

(***************************************************************************)
(* The shell.  Spot is a directory the process may be in, removed or not;  *)
(* Tells is NamesResolve for one shell, and what it rests on: the texts    *)
(* have no `..`, or removing an empty directory could change them.         *)
(***************************************************************************)
Place == [at : Tree, live : BOOLEAN]
Spot(p) == p \in Place /\ (IF p.live THEN p.at \in dirs ELSE p.at \in Fragile)
Shell == [here : Place, cwd : Plain, PWD : Seq(Component), OLDPWD : Seq(Component),
          left : Place, own : BOOLEAN, ownOld : BOOLEAN, strayed : BOOLEAN]
Says(text, place) == text \in Plain /\ Names(text) = place.at
Tells(S) ==
  /\ Spot(S.here) /\ Spot(S.left)
  /\ S.here.live => Says(S.cwd, S.here) /\ (S.own => Says(S.PWD, S.here))
  /\ S.ownOld /\ S.left.live => Says(S.OLDPWD, S.left)
Sound == {S \in Shell : Tells(S) /\ ~S.strayed}

LEMMA TreeIsPlain ==
  ASSUME TreeStands, NEW d \in Tree
  PROVE  d \in Plain /\ d \in Seq(Component) /\ d # NoCwd /\ d # Nowhere
BY DEF TreeStands, Plain, Marks

LEMMA PlainIsText ==
  ASSUME NEW p \in Plain
  PROVE  p \in Seq(Component)
BY DEF Plain

(* Where chdir lands, if it does.                                          *)
LEMMA ChdirLands ==
  ASSUME TreeStands, Standing(dirs), NEW here, Spot(here), NEW target \in Operand,
         ~Failed(chdir(here, target))
  PROVE  /\ Spot(chdir(here, target))
         /\ target.abs => /\ chdir(here, target).live
                          /\ Names(target.comps) = chdir(here, target).at
<1> DEFINE to == chdir(here, target)
<1>0. /\ target.comps \in Seq(Component) /\ target.abs \in BOOLEAN
      /\ here.at \in Tree /\ here.live \in BOOLEAN /\ to.at # Nowhere
      /\ IF here.live THEN here.at \in dirs ELSE here.at \in Fragile
  BY DEF Operand, Spot, Place, Failed
<1>1. dirs \subseteq Tree /\ Fragile \subseteq Tree
  BY DEF Standing, TreeStands
<1>2. CASE target.abs
  <2>1. to = [at |-> Names(target.comps), live |-> TRUE]
    BY <1>2 DEF chdir
  <2>2. Names(target.comps) \in dirs
    BY <1>0, <2>1, NamesWithin
  <2> QED
    BY <1>1, <2>1, <2>2 DEF Spot, Place
<1>3. CASE ~target.abs /\ here.live
  <2>1. to = [at |-> Resolve(here.at, target.comps), live |-> TRUE]
    BY <1>3 DEF chdir
  <2>2. Resolve(here.at, target.comps) \in dirs
    BY <1>0, <1>3, <2>1, ResolveWithin
  <2> QED
    BY <1>1, <1>3, <2>1, <2>2 DEF Spot, Place
<1>4. CASE ~target.abs /\ ~here.live
  <2>1. target.comps \in {<<".">>, <<"..">>}
    BY <1>0, <1>4 DEF chdir
  <2>2. here.at # <<>> /\ here.at # Nowhere
    BY <1>0, <1>4, TreeIsPlain DEF TreeStands
  <2>3. CASE target.comps = <<".">>
    <3>1. to = [at |-> Resolve(here.at, <<".">>), live |-> FALSE]
      BY <1>4, <2>3 DEF chdir
    <3>2. "." \in Component
      BY <1>0, <2>3
    <3>3. to.at = here.at
      BY <2>2, <3>1, <3>2, ResolveOne DEF Enters
    <3> QED
      BY <1>0, <1>4, <3>1, <3>3 DEF Spot, Place
  <2>4. CASE target.comps = <<"..">>
    <3>0. <<"..">> # <<".">>
      OBVIOUS
    <3>1. to = [at |-> Resolve(here.at, <<"..">>), live |-> TRUE]
      BY <1>4, <2>4, <3>0 DEF chdir
    <3>2. ".." \in Component
      BY <1>0, <2>4
    <3>3. to.at = Front(here.at)
      BY <2>2, <3>1, <3>2, ResolveOne DEF Enters
    <3>4. Front(here.at) \in dirs
      BY <1>0, <2>2, ParentStands
    <3> QED
      BY <1>1, <1>4, <3>1, <3>3, <3>4 DEF Spot, Place
  <2> QED
    BY <2>1, <2>3, <2>4
<1> QED
  BY <1>2, <1>3, <1>4

(* The text of a logical cd has neither `.` nor `..`.                      *)
Pushes == INSTANCE FoldFacts WITH Op <- cd_push_comp

LEMMA CanonicalIsPlain ==
  ASSUME NEW comps \in Seq(Component)
  PROVE  cd_canonicalize(comps) \in Plain
<1>1. cd_canonicalize(comps) = Pushes!Left(<<>>, comps)
  BY DEF cd_canonicalize, Pushes!Left, Pushes!FoldsUp, Pushes!Top,
         FoldLeft, MapThenFoldSet, Max
<1>2. \A p \in Plain, c \in Component : cd_push_comp(p, c) \in Plain
  BY DEF Plain, cd_push_comp, Front
<1>3. <<>> \in Plain
  BY DEF Plain
<1> HIDE DEF Plain
<1> QED
  BY <1>1, <1>2, <1>3, Pushes!LeftKeeps

LEMMA NullNames ==
  Unset \in Plain /\ NoValue \in Plain /\ NoCwd \in Plain
BY MarksArePlain DEF Marks

LEMMA BaseIsText ==
  ASSUME NEW S \in Shell
  PROVE  Base(S) \in Seq(Component)
BY PlainIsText DEF Base, Shell

(* A cd that lands, before the variables are set: the text it leaves names *)
(* the place.                                                              *)
Lands(S, T) ==
  \E to, text : /\ T = [S EXCEPT !.here = to, !.cwd = text]
                /\ Spot(to) /\ text \in Plain /\ (to.live => Names(text) = to.at)

LEMMA CdLands ==
  ASSUME TreeStands, Standing(dirs), NEW S \in Sound, NEW physical,
         NEW target \in Operand, ~Failed(cd_do(S, physical, target).here)
  PROVE  Lands(S, cd_do(S, physical, target))
<1>0. S \in Shell /\ Tells(S)
  BY DEF Sound
<1>1. CASE physical
  <2> DEFINE to == chdir(S.here, target)
             text == IF to.live THEN x_getcwd(to) ELSE S.cwd
  <2>1. cd_do(S, physical, target) = [S EXCEPT !.here = to, !.cwd = text]
    BY <1>1 DEF cd_do, cd_do_physical
  <2>2. ~Failed(to)
    BY <1>0, <2>1 DEF Shell
  <2>3. Spot(to)
    BY <1>0, <2>2, ChdirLands DEF Tells
  <2>4. to.live => text = to.at /\ to.at \in dirs
    BY <2>3 DEF x_getcwd, Spot
  <2>5. ~to.live => text = S.cwd
    OBVIOUS
  <2>6. to.live => Names(text) = to.at
    BY <2>4, NamesItself
  <2>7. text \in Plain
    BY <1>0, <2>3, <2>4, <2>5, TreeIsPlain DEF Spot, Place, Shell
  <2> QED
    BY <2>1, <2>3, <2>6, <2>7 DEF Lands
<1>2. CASE ~physical
  <2> DEFINE text == cd_logical_path(S, target)
             to == chdir(S.here, Absolute(text))
  <2>1. cd_do(S, physical, target) = [S EXCEPT !.here = to, !.cwd = text]
    BY <1>2 DEF cd_do, cd_do_logical
  <2>2. ~Failed(to)
    BY <1>0, <2>1 DEF Shell
  <2>3. Base(S) \in Seq(Component) /\ target.comps \in Seq(Component)
    BY <1>0, BaseIsText DEF Operand
  <2>4. text \in Plain
    <3>1. Base(S) \o target.comps \in Seq(Component)
      BY <2>3
    <3> QED
      BY <2>3, <3>1, CanonicalIsPlain DEF cd_logical_path
  <2>5. Absolute(text) \in Operand /\ Absolute(text).abs /\ Absolute(text).comps = text
    BY <2>4, PlainIsText DEF Absolute, Operand
  <2>6. Spot(to) /\ Names(text) = to.at
    BY <1>0, <2>2, <2>5, ChdirLands DEF Tells
  <2> QED
    BY <2>1, <2>4, <2>6 DEF Lands
<1> QED
  BY <1>1, <1>2

(* The variables are set.                                                  *)
LEMMA PwdTells ==
  ASSUME TreeStands, Standing(dirs), NEW S \in Sound, NEW to, Spot(to), NEW text \in Plain,
         to.live => Names(text) = to.at
  PROVE  /\ [update_pwd_vars([S EXCEPT !.here = to, !.cwd = text]) EXCEPT !.left = S.here] \in Sound
         /\ update_pwd_vars([S EXCEPT !.here = to, !.left = S.here, !.cwd = text]) \in Sound
<1> DEFINE T == [update_pwd_vars([S EXCEPT !.here = to, !.cwd = text]) EXCEPT !.left = S.here]
           U == update_pwd_vars([S EXCEPT !.here = to, !.left = S.here, !.cwd = text])
           pwd == IF text = NoCwd THEN NoValue ELSE text
<1>0. S \in Shell /\ Tells(S) /\ ~S.strayed /\ to \in Place
  BY DEF Sound, Spot
<1>1. T = [S EXCEPT !.here = to, !.cwd = text, !.left = S.here, !.OLDPWD = S.PWD, !.PWD = pwd,
                    !.ownOld = S.own, !.own = TRUE]
  BY <1>0 DEF update_pwd_vars, Shell
<1>2. U = T
  BY <1>0, <1>1 DEF update_pwd_vars, Shell
<1>3. pwd \in Plain /\ pwd \in Seq(Component)
  BY NullNames, PlainIsText
<1>4. to.live => pwd = text /\ Names(text) = to.at
  <2>1. to.live => to.at # Nowhere
    BY <1>0, TreeIsPlain DEF Place
  <2>2. Names(NoCwd) = Nowhere
    BY MarksLeadNowhere DEF Marks
  <2> QED
    BY <2>1, <2>2
<1> HIDE DEF pwd, T, U
<1>5. T \in Shell
  BY <1>0, <1>1, <1>3 DEF Shell
<1>6. /\ T.here = to /\ T.cwd = text /\ T.left = S.here /\ T.OLDPWD = S.PWD /\ T.PWD = pwd
      /\ T.ownOld = S.own /\ T.own = TRUE /\ T.strayed = S.strayed
  BY <1>0, <1>1 DEF Shell
<1>7. Tells(T)
  BY <1>0, <1>3, <1>4, <1>6 DEF Tells, Says
<1>8. T \in Sound
  BY <1>0, <1>5, <1>6, <1>7 DEF Sound
<1> QED
  BY <1>2, <1>8 DEF T, U

LEMMA CdMovedSound ==
  ASSUME TreeStands, Standing(dirs), NEW S \in Sound, NEW physical, NEW target \in Operand
  PROVE  cd_moved(S, cd_do(S, physical, target)) \in Sound
<1>1. CASE Failed(cd_do(S, physical, target).here)
  BY <1>1 DEF cd_moved
<1>2. CASE ~Failed(cd_do(S, physical, target).here)
  <2>1. PICK to, text :
           /\ cd_do(S, physical, target) = [S EXCEPT !.here = to, !.cwd = text]
           /\ Spot(to) /\ text \in Plain /\ (to.live => Names(text) = to.at)
    <3>1. Lands(S, cd_do(S, physical, target))
      BY <1>2, CdLands
    <3> QED
      BY <3>1 DEF Lands
  <2> QED
    BY <1>2, <2>1, PwdTells DEF cd_moved
<1> QED
  BY <1>1, <1>2

(* The hooks, one cd each.                                                 *)
Hook(T, to) == cd_move(T, FALSE, to)
HookRuns == INSTANCE FoldFacts WITH Op <- Hook

LEMMA HooksSound ==
  ASSUME TreeStands, WordsTyped, Standing(dirs), NEW S \in Sound
  PROVE  run_chpwd_hooks(S) \in Sound
<1>1. run_chpwd_hooks(S) = HookRuns!Left(S, Hooks)
  BY DEF run_chpwd_hooks, HookRuns!Left, HookRuns!FoldsUp, HookRuns!Top, Hook,
         FoldLeft, MapThenFoldSet, Max
<1>2. \A T \in Sound, to \in Operand : Hook(T, to) \in Sound
  BY CdMovedSound DEF Hook, cd_move
<1> QED
  BY <1>1, <1>2, HookRuns!LeftKeeps DEF WordsTyped

LEMMA CdApplySound ==
  ASSUME TreeStands, WordsTyped, Standing(dirs), NEW S \in Sound, NEW o,
         NEW target \in Operand
  PROVE  cd_apply(S, o, target) \in Sound
BY CdMovedSound, HooksSound DEF cd_apply, cd_after

LEMMA CdOneSound ==
  ASSUME TreeStands, WordsTyped, Standing(dirs), NEW S \in Sound, NEW o,
         NEW op \in Operand \cup {Dash}
  PROVE  cd_one(S, o, op) \in Sound
<1>0. S \in Shell /\ S.OLDPWD \in Seq(Component)
  BY DEF Sound, Shell
<1>1. CASE op = Dash
  <2>1. Absolute(S.OLDPWD) \in Operand
    BY <1>0 DEF Absolute, Operand
  <2> QED
    BY <1>1, <2>1, CdApplySound DEF cd_one
<1>2. CASE op # Dash
  <2> DEFINE Has(c) == ~Failed(chdir(S.here, c))
             cand(i) == [abs |-> CDPATH[i].abs, comps |-> CDPATH[i].comps \o op.comps]
             i == SelectInSeq([k \in DOMAIN CDPATH |-> cand(k)], Has)
  <2>1. cd_cdpath(S, op) = op \/ (i # 0 /\ cd_cdpath(S, op) = cand(i))
    BY DEF cd_cdpath
  <2>2. i # 0 => i \in DOMAIN CDPATH
    <3> DEFINE s == [k \in DOMAIN CDPATH |-> cand(k)]
               I == {j \in 1 .. Len(s) : Has(s[j])}
    <3>1. i = IF I # {} THEN Min(I) ELSE 0
      BY DEF SelectInSeq
    <3>2. Len(s) = Len(CDPATH) /\ DOMAIN CDPATH = 1 .. Len(CDPATH) /\ Len(CDPATH) \in Nat
      BY DEF WordsTyped
    <3> HIDE DEF s, i
    <3>5. I \subseteq Nat
      BY <3>2
    <3> HIDE DEF I
    <3>3. I # {} => \E m \in I : \A y \in I : m <= y
      BY <3>5, HookRuns!LowestOf
    <3>4. I # {} => Min(I) \in I
      BY <3>3 DEF Min
    <3> QED
      BY <3>1, <3>2, <3>4 DEF I
  <2>3. \A k \in DOMAIN CDPATH : cand(k) \in Operand
    <3> TAKE k \in DOMAIN CDPATH
    <3>1. CDPATH[k] \in Operand /\ op \in Operand
      BY <1>2 DEF WordsTyped
    <3>2. CDPATH[k].comps \o op.comps \in Seq(Component)
      BY <3>1 DEF Operand
    <3> QED
      BY <3>1, <3>2 DEF Operand
  <2> HIDE DEF i, cand
  <2>4. cd_cdpath(S, op) \in Operand
    BY <1>2, <2>1, <2>2, <2>3
  <2> QED
    BY <1>2, <2>4, CdApplySound DEF cd_one
<1> QED
  BY <1>1, <1>2

LEMMA CdTwoSound ==
  ASSUME TreeStands, WordsTyped, Standing(dirs), NEW S \in Sound, NEW o,
         NEW old, NEW new \in Component
  PROVE  cd_two_arg(S, o, old, new) \in Sound
<1>1. Base(S) \in Seq(Component)
  BY BaseIsText DEF Sound
<1>2. cd_substitute(Base(S), old, new) \in Seq(Component)
  <2>1. ASSUME NEW i
        PROVE  [Base(S) EXCEPT ![i] = new] \in Seq(Component)
    <3> DEFINE n == Len(Base(S))
    <3>1. n \in Nat /\ Base(S) \in [1 .. n -> Component]
      BY <1>1
    <3> HIDE DEF n
    <3>2. [Base(S) EXCEPT ![i] = new] \in [1 .. n -> Component]
      BY <3>1
    <3> QED
      BY <3>1, <3>2
  <2> QED
    BY <2>1 DEF cd_substitute
<1>3. Absolute(cd_substitute(Base(S), old, new)) \in Operand
  BY <1>2 DEF Absolute, Operand
<1> QED
  BY <1>3, CdApplySound DEF cd_two_arg

(***************************************************************************)
(* The inductive invariant                                                 *)
(***************************************************************************)
(* The entries of pushd have the true names of the places it left.         *)
PushedOK ==
  /\ dirstack \in Seq(Tree) /\ pushed \in Seq(Place) /\ Len(dirstack) = Len(pushed)
  /\ \A i \in DOMAIN pushed : Spot(pushed[i]) /\ dirstack[i] = pushed[i].at

(* A reader no widget moved sends what the shell has already.              *)
SentOK ==
  sent # NoReader =>
    /\ sent.path \in Plain /\ sent.moved \in BOOLEAN
    /\ ~sent.moved => sent.path \in {NoCwd, shell.cwd}

DInv == Standing(dirs) /\ shell \in Sound /\ PushedOK /\ SentOK

LEMMA DStarts ==
  ASSUME TreeStands, WordsTyped, Init
  PROVE  DInv
<1>1. Standing(dirs) /\ dirs = Tree
  BY DEF Init, Standing
<1>2. PICK at \in Tree, live \in BOOLEAN, inherited \in Assigned :
        shell = env_to_vec_env([at |-> at, live |-> live \/ at \notin Fragile], inherited)
  BY DEF Init
<1> DEFINE here == [at |-> at, live |-> live \/ at \notin Fragile]
<1>3. Spot(here) /\ here \in Place
  BY <1>1 DEF Spot, Place
<1>4. Names(at) = at /\ at \in Plain /\ at \in Seq(Component)
  BY <1>1, NamesItself, TreeIsPlain
<1>5. /\ shell.here = here /\ shell.left = here /\ shell.strayed = FALSE
      /\ shell.own = here.live /\ shell.ownOld = FALSE
      /\ here.live => shell.cwd = at /\ shell.PWD = at
  BY <1>2 DEF env_to_vec_env, x_getcwd
<1>6. Tells(shell)
  BY <1>3, <1>4, <1>5 DEF Tells, Says
<1>7. x_getcwd(here) \in Plain /\ x_getcwd(here) \in Seq(Component)
  BY <1>4, NullNames, PlainIsText DEF x_getcwd
<1>8. shell \in Shell
  BY <1>2, <1>3, <1>7, NullNames, PlainIsText DEF env_to_vec_env, Shell, WordsTyped
<1>9. PushedOK /\ SentOK
  BY DEF Init, PushedOK, SentOK
<1> QED
  BY <1>1, <1>5, <1>6, <1>8, <1>9 DEF DInv, Sound

(* With the directories there were, what was sound is.                     *)
LEMMA NamesStay ==
  ASSUME dirs \subseteq dirs'
  PROVE  \A comps \in Seq(Component) : Names(comps) # Nowhere => Names(comps)' = Names(comps)
BY NamesAfterMkdir

LEMMA SoundStays ==
  ASSUME TreeStands, dirs \subseteq dirs'
  PROVE  /\ \A p : Spot(p) => Spot(p)'
         /\ \A S \in Sound : S \in Sound'
<1>1. \A p : Spot(p) => Spot(p)'
  BY DEF Spot
<1>2. \A text, p : p \in Place /\ Says(text, p) => Says(text, p)'
  BY NamesStay, TreeIsPlain, PlainIsText DEF Says, Place
<1>3. ASSUME NEW S \in Sound
      PROVE  S \in Sound'
  <2>1. S \in Shell /\ Tells(S) /\ ~S.strayed /\ S.here \in Place /\ S.left \in Place
    BY DEF Sound, Shell
  <2>2. Tells(S)'
    BY <1>1, <1>2, <2>1 DEF Tells
  <2> QED
    BY <2>1, <2>2 DEF Sound
<1> QED
  BY <1>1, <1>3

(* A step that only moves the shell, soundly.                              *)
LEMMA MovesKeep ==
  ASSUME TreeStands, DInv, AtPrompt, UNCHANGED <<dirs, sent>>, shell' \in Sound, PushedOK'
  PROVE  DInv'
<1>1. Standing(dirs)' /\ shell' \in Sound'
  BY SoundStays DEF DInv, Standing
<1>2. SentOK'
  BY DEF SentOK, AtPrompt
<1> QED
  BY <1>1, <1>2 DEF DInv

LEMMA StackStays ==
  ASSUME TreeStands, PushedOK, dirs \subseteq dirs', UNCHANGED <<dirstack, pushed>>
  PROVE  PushedOK'
BY SoundStays DEF PushedOK

LEMMA CdKeeps ==
  ASSUME TreeStands, WordsTyped, DInv, NEW letters, NEW op \in Operands \cup {Dash, HOME},
         builtin_cd(letters, op)
  PROVE  DInv'
<1>1. op \in Operand \cup {Dash}
  BY DEF WordsTyped
<1>2. shell' \in Sound
  BY <1>1, CdOneSound DEF builtin_cd, DInv
<1> QED
  BY <1>2, MovesKeep, StackStays DEF builtin_cd, DInv

LEMMA CdTwoKeeps ==
  ASSUME TreeStands, WordsTyped, DInv, NEW s \in Swaps, builtin_cd_two(s[1], s[2])
  PROVE  DInv'
<1>1. s[2] \in Component
  BY DEF WordsTyped
<1>2. shell' \in Sound
  BY <1>1, CdTwoSound DEF builtin_cd_two, DInv
<1> QED
  BY <1>2, MovesKeep, StackStays DEF builtin_cd_two, DInv

(* pushd and popd.                                                         *)
LEMMA RefreshSound ==
  ASSUME TreeStands, Standing(dirs), NEW S \in Sound, NEW to, Spot(to)
  PROVE  ds_refresh(S, to) \in Sound
<1> DEFINE text == IF to.live THEN x_getcwd(to) ELSE S.cwd
<1>1. to.live => text = to.at /\ to.at \in dirs /\ to.at \in Tree
  BY DEF x_getcwd, Spot, Place
<1>2. to.live => Names(text) = to.at
  BY <1>1, NamesItself
<1>3. text \in Plain
  BY <1>1, TreeIsPlain DEF Sound, Shell
<1>4. ds_refresh(S, to) =
        update_pwd_vars([S EXCEPT !.here = to, !.left = S.here, !.cwd = text])
  BY DEF ds_refresh
<1> HIDE DEF text
<1>5. update_pwd_vars([S EXCEPT !.here = to, !.left = S.here, !.cwd = text]) \in Sound
  BY <1>2, <1>3, PwdTells
<1> QED
  BY <1>4, <1>5

LEMMA PushdKeeps ==
  ASSUME TreeStands, WordsTyped, DInv, NEW target \in Operands, builtin_pushd(target)
  PROVE  DInv'
<1> DEFINE to == chdir(shell.here, target)
<1>1. Spot(shell.here) /\ shell.here \in Place /\ target \in Operand
  BY DEF DInv, Sound, Tells, Spot, WordsTyped
<1>2. Spot(to)
  BY <1>1, ChdirLands DEF builtin_pushd, DInv
<1>3. shell' \in Sound
  BY <1>2, RefreshSound DEF builtin_pushd, DInv
<1>4. PushedOK'
  <2>1. CASE x_getcwd(shell.here) = NoCwd
    BY <2>1, StackStays DEF builtin_pushd, DInv
  <2>2. CASE x_getcwd(shell.here) # NoCwd
    <3>1. x_getcwd(shell.here) = shell.here.at /\ shell.here.at \in Tree
      BY <1>1, <2>2 DEF x_getcwd, Place
    <3>2. /\ dirstack' = Append(dirstack, shell.here.at)
          /\ pushed' = Append(pushed, shell.here) /\ dirs' = dirs
      BY <2>2, <3>1 DEF builtin_pushd
    <3>3. Spot(shell.here)' = Spot(shell.here)'
      OBVIOUS
    <3>4. \A p : Spot(p) => Spot(p)'
      BY <3>2, SoundStays
    <3>5. /\ dirstack \in Seq(Tree) /\ pushed \in Seq(Place) /\ Len(dirstack) = Len(pushed)
          /\ \A i \in DOMAIN pushed : Spot(pushed[i]) /\ dirstack[i] = pushed[i].at
      BY DEF DInv, PushedOK
    <3>6. dirstack' \in Seq(Tree) /\ pushed' \in Seq(Place) /\ Len(dirstack') = Len(pushed')
      BY <1>1, <3>1, <3>2, <3>5
    <3>7. ASSUME NEW i \in DOMAIN pushed'
          PROVE  Spot(pushed'[i]) /\ dirstack'[i] = pushed'[i].at
      BY <1>1, <3>1, <3>2, <3>5
    <3>8. \A i \in DOMAIN pushed' : Spot(pushed[i])'
      <4> TAKE i \in DOMAIN pushed'
      <4>1. Spot(pushed'[i])
        BY <3>7
      <4> QED
        BY <3>2, <4>1 DEF Spot
    <3> QED
      BY <3>6, <3>7, <3>8 DEF PushedOK
  <2> QED
    BY <2>1, <2>2
<1> QED
  BY <1>3, <1>4, MovesKeep DEF builtin_pushd

LEMMA PopdKeeps ==
  ASSUME TreeStands, DInv, builtin_popd
  PROVE  DInv'
<1> DEFINE to == chdir(shell.here, Absolute(Last(dirstack)))
<1>1. /\ dirstack \in Seq(Tree) /\ pushed \in Seq(Place) /\ Len(dirstack) = Len(pushed)
      /\ \A i \in DOMAIN pushed : Spot(pushed[i]) /\ dirstack[i] = pushed[i].at
      /\ dirstack # <<>>
      /\ dirstack' = Front(dirstack) /\ pushed' = Front(pushed) /\ dirs' = dirs
  BY DEF DInv, PushedOK, builtin_popd
<1>2. Spot(shell.here)
  BY DEF DInv, Sound, Tells
<1>3. Last(dirstack) \in Tree
  BY <1>1 DEF Last
<1>4. Absolute(Last(dirstack)) \in Operand
  BY <1>3, TreeIsPlain DEF Absolute, Operand
<1>5. shell' \in Sound
  <2>1. CASE Failed(to)
    BY <2>1 DEF builtin_popd, DInv
  <2>2. CASE ~Failed(to)
    <3>1. Spot(to)
      BY <1>2, <1>4, <2>2, ChdirLands DEF DInv
    <3> QED
      BY <2>2, <3>1, RefreshSound DEF builtin_popd, DInv
  <2> QED
    BY <2>1, <2>2
<1>6. PushedOK'
  <2>1. /\ dirstack' \in Seq(Tree) /\ pushed' \in Seq(Place) /\ Len(dirstack') = Len(pushed')
        /\ \A i \in DOMAIN pushed' : /\ i \in DOMAIN pushed
                                     /\ pushed'[i] = pushed[i] /\ dirstack'[i] = dirstack[i]
    BY <1>1 DEF Front
  <2>2. \A i \in DOMAIN pushed' : Spot(pushed[i])' /\ dirstack'[i] = pushed'[i].at
    BY <1>1, <2>1 DEF Spot
  <2> QED
    BY <2>1, <2>2 DEF PushedOK
<1> QED
  BY <1>5, <1>6, MovesKeep DEF builtin_popd

LEMMA DirsCKeeps ==
  ASSUME TreeStands, DInv, free_dirstack
  PROVE  DInv'
<1>1. PushedOK'
  BY DEF free_dirstack, PushedOK
<1> QED
  BY <1>1, MovesKeep DEF free_dirstack, DInv

LEMMA AssignKeeps ==
  ASSUME TreeStands, WordsTyped, DInv, NEW v \in Assigned \cup {Unset, NoValue}, UserSetsPWD(v)
  PROVE  DInv'
<1>1. v \in Seq(Component)
  BY NullNames, PlainIsText DEF WordsTyped
<1>2. shell' = [shell EXCEPT !.PWD = v, !.own = FALSE]
  BY DEF UserSetsPWD
<1>3. shell \in Shell /\ Tells(shell) /\ ~shell.strayed
  BY DEF DInv, Sound
<1>4. shell' \in Shell
  BY <1>1, <1>2, <1>3 DEF Shell
<1>5. /\ shell'.here = shell.here /\ shell'.cwd = shell.cwd /\ shell'.left = shell.left
      /\ shell'.OLDPWD = shell.OLDPWD /\ shell'.own = FALSE
      /\ shell'.ownOld = shell.ownOld /\ shell'.strayed = shell.strayed
  BY <1>2, <1>3 DEF Shell
<1>6. shell' \in Sound
  BY <1>3, <1>4, <1>5 DEF Sound, Tells
<1> QED
  BY <1>6, MovesKeep, StackStays DEF UserSetsPWD, DInv

(* The reader.                                                             *)
LEMMA SendKeeps ==
  ASSUME TreeStands, ~LogicalReader, DInv, NEW d \in dirs, NEW moved \in BOOLEAN,
         zle_cwd_send([at |-> d, live |-> TRUE], moved)
  PROVE  DInv'
<1>1. /\ sent' = [from |-> "reader", path |-> d, moved |-> moved]
      /\ UNCHANGED <<dirs, shell, dirstack, pushed>>
      /\ Names(shell.cwd) = shell.cwd
      /\ moved \/ shell.here = [at |-> d, live |-> TRUE]
  BY DEF zle_cwd_send, x_getcwd
<1>2. d \in Plain
  BY TreeIsPlain DEF DInv, Standing
<1>3. ~moved => d = shell.cwd
  BY <1>1 DEF DInv, Sound, Tells, Says
<1>4. SentOK'
  BY <1>1, <1>2, <1>3 DEF SentOK
<1>5. Standing(dirs)' /\ shell' \in Sound'
  BY <1>1, SoundStays DEF DInv, Standing
<1> QED
  BY <1>1, <1>4, <1>5, StackStays DEF DInv

LEMMA ApplySound ==
  ASSUME TreeStands, WordsTyped, Standing(dirs), NEW S \in Sound, NEW path \in Plain
  PROVE  zle_cwd_apply(S, path) \in Sound
<1> DEFINE to == chdir(S.here, Absolute(path))
<1>1. CASE Failed(to)
  BY <1>1 DEF zle_cwd_apply
<1>2. CASE ~Failed(to)
  <2>1. Absolute(path) \in Operand /\ Absolute(path).abs
    BY PlainIsText DEF Absolute, Operand
  <2>2. Spot(to) /\ to.live
    BY <1>2, <2>1, ChdirLands DEF Sound, Tells
  <2>3. x_getcwd(to) = to.at /\ to.at \in dirs /\ to.at \in Tree
    BY <2>2 DEF x_getcwd, Spot, Place
  <2>4. Names(x_getcwd(to)) = to.at /\ x_getcwd(to) \in Plain
    BY <2>3, NamesItself, TreeIsPlain
  <2>5. zle_cwd_apply(S, path) =
          run_chpwd_hooks(update_pwd_vars([S EXCEPT !.here = to, !.left = S.here,
                                                    !.cwd = x_getcwd(to)]))
    BY <1>2 DEF zle_cwd_apply
  <2> HIDE DEF to
  <2> QED
    BY <2>2, <2>4, <2>5, PwdTells, HooksSound
<1> QED
  BY <1>1, <1>2

LEMMA AdoptKeeps ==
  ASSUME TreeStands, WordsTyped, DInv, zle_cwd_adopt
  PROVE  DInv'
<1>1. sent # NoReader /\ sent' = NoReader /\ UNCHANGED <<dirs, dirstack, pushed>>
  BY DEF zle_cwd_adopt
<1>2. shell' \in Sound
  <2>1. CASE sent.path \in {NoCwd, shell.cwd}
    BY <2>1 DEF zle_cwd_adopt, DInv
  <2>2. CASE sent.path \notin {NoCwd, shell.cwd}
    <3>1. sent.moved = TRUE /\ sent.path \in Plain
      BY <1>1, <2>2 DEF DInv, SentOK
    <3> DEFINE T == zle_cwd_apply(shell, sent.path)
    <3>2. T \in Sound
      BY <3>1, ApplySound DEF DInv
    <3> HIDE DEF T
    <3>3. [T EXCEPT !.strayed = T.strayed \/ (~sent.moved /\ T # shell)] = T
      BY <3>1, <3>2 DEF Sound, Shell
    <3>4. shell' = T
      BY <2>2, <3>3 DEF zle_cwd_adopt, Adopted, T
    <3> QED
      BY <3>2, <3>4
  <2> QED
    BY <2>1, <2>2
<1>3. Standing(dirs)' /\ shell' \in Sound'
  BY <1>1, <1>2, SoundStays DEF DInv, Standing
<1>4. SentOK'
  BY <1>1 DEF SentOK
<1> QED
  BY <1>1, <1>3, <1>4, StackStays DEF DInv

(* Other processes.                                                        *)
LEMMA MkdirKeeps ==
  ASSUME TreeStands, DInv, NEW d \in Fragile, Mkdir(d)
  PROVE  DInv'
<1>1. dirs \subseteq dirs' /\ dirs' = dirs \cup {d} /\ UNCHANGED <<shell, dirstack, pushed, sent>>
  BY DEF Mkdir
<1>2. Standing(dirs)'
  BY <1>1 DEF DInv, Standing, TreeStands
<1>3. shell' \in Sound' /\ PushedOK'
  BY <1>1, SoundStays, StackStays DEF DInv
<1>4. SentOK'
  BY <1>1 DEF DInv, SentOK
<1> QED
  BY <1>2, <1>3, <1>4 DEF DInv

LEMMA GoneSpot ==
  ASSUME TreeStands, Standing(dirs), NEW d \in Fragile, dirs' = dirs \ {d}
  PROVE  \A p, e : Spot(p) /\ e = Gone(p, d) =>
           /\ Spot(e)' /\ e \in Place /\ e.at = p.at
           /\ e.live => e = p /\ p.at # d
<1> TAKE p, e
<1> HAVE Spot(p) /\ e = Gone(p, d)
<1>1. p \in Place
  BY DEF Spot
<1>2. CASE p.at = d
  <2>1. e = [p EXCEPT !.live = FALSE]
    BY <1>2 DEF Gone
  <2>2. e \in Place /\ e.at = p.at /\ ~e.live
    BY <1>1, <2>1 DEF Place
  <2> QED
    BY <1>2, <2>2 DEF Spot
<1>3. CASE p.at # d
  <2>1. e = p
    BY <1>3 DEF Gone
  <2> QED
    BY <1>1, <1>3, <2>1 DEF Spot
<1> QED
  BY <1>2, <1>3

LEMMA RmdirKeeps ==
  ASSUME TreeStands, DInv, NEW d \in Fragile, Rmdir(d)
  PROVE  DInv'
<1>1. PICK here, left :
        /\ here = Gone(shell.here, d) /\ left = Gone(shell.left, d)
        /\ dirs' = dirs \ {d}
        /\ shell' = [shell EXCEPT !.here = here, !.left = left]
        /\ pushed' = [i \in DOMAIN pushed |-> Gone(pushed[i], d)]
        /\ UNCHANGED <<dirstack, sent>>
  BY DEF Rmdir
<1>2. Standing(dirs) /\ Standing(dirs)'
  BY <1>1 DEF DInv, Standing
<1>3. /\ shell \in Shell /\ Tells(shell) /\ ~shell.strayed
      /\ Spot(shell.here) /\ Spot(shell.left)
  BY DEF DInv, Sound, Tells
<1>4. /\ Spot(here)' /\ here \in Place /\ (here.live => here = shell.here /\ here.at # d)
      /\ Spot(left)' /\ left \in Place /\ (left.live => left = shell.left /\ left.at # d)
  BY <1>1, <1>2, <1>3, GoneSpot
<1>5. \A text \in Plain : \A p \in Place :
        Names(text) = p.at /\ p.at # d => Names(text)' = p.at
  BY <1>1, <1>2, NamesAfterRmdir, TreeIsPlain DEF Place
<1>6. /\ shell' \in Shell
      /\ shell'.here = here /\ shell'.left = left /\ shell'.cwd = shell.cwd
      /\ shell'.PWD = shell.PWD /\ shell'.OLDPWD = shell.OLDPWD /\ shell'.own = shell.own
      /\ shell'.ownOld = shell.ownOld /\ shell'.strayed = shell.strayed
  BY <1>1, <1>3, <1>4 DEF Shell
<1>7. Spot(shell.here)' /\ Spot(shell.left)'
  BY <1>4, <1>6 DEF Spot
<1>8. /\ here.live => shell.cwd \in Plain /\ Names(shell.cwd) = here.at
      /\ here.live /\ shell.own => shell.PWD \in Plain /\ Names(shell.PWD) = here.at
      /\ shell.ownOld /\ left.live => shell.OLDPWD \in Plain /\ Names(shell.OLDPWD) = left.at
  BY <1>3, <1>4 DEF Tells, Says
<1>9. /\ here.live => Names(shell.cwd)' = here.at
      /\ here.live /\ shell.own => Names(shell.PWD)' = here.at
      /\ shell.ownOld /\ left.live => Names(shell.OLDPWD)' = left.at
  BY <1>4, <1>5, <1>6, <1>8
<1>10. Tells(shell)'
  BY <1>6, <1>7, <1>8, <1>9 DEF Tells, Says
<1>11. shell' \in Sound'
  BY <1>3, <1>6, <1>10 DEF Sound
<1>12. PushedOK'
  <2>1. /\ dirstack \in Seq(Tree) /\ pushed \in Seq(Place) /\ Len(dirstack) = Len(pushed)
        /\ \A i \in DOMAIN pushed : Spot(pushed[i]) /\ dirstack[i] = pushed[i].at
    BY DEF DInv, PushedOK
  <2>2. DOMAIN pushed' = DOMAIN pushed /\ \A i \in DOMAIN pushed : pushed'[i] = Gone(pushed[i], d)
    BY <1>1
  <2>3. ASSUME NEW i \in DOMAIN pushed
        PROVE  /\ Spot(pushed[i])' /\ pushed'[i] \in Place
               /\ pushed'[i].at = pushed[i].at
    <3>1. PICK e : e = pushed'[i]
      OBVIOUS
    <3>2. Spot(e)' /\ e \in Place /\ e.at = pushed[i].at
      BY <1>1, <1>2, <2>1, <2>2, <3>1, GoneSpot
    <3> QED
      BY <3>1, <3>2 DEF Spot
  <2>4. pushed' \in Seq(Place) /\ Len(pushed') = Len(pushed)
    BY <1>1, <2>1, <2>2, <2>3
  <2>5. \A i \in DOMAIN pushed' : Spot(pushed[i])' /\ dirstack'[i] = pushed'[i].at
    BY <1>1, <2>1, <2>2, <2>3
  <2> QED
    BY <1>1, <2>1, <2>4, <2>5 DEF PushedOK
<1>13. SentOK'
  BY <1>1, <1>6 DEF DInv, SentOK
<1> QED
  BY <1>2, <1>11, <1>12, <1>13 DEF DInv

LEMMA DSteps ==
  ASSUME TreeStands, WordsTyped, ~LogicalReader, DInv, [Next]_vars
  PROVE  DInv'
<1>1. CASE UNCHANGED vars
  <2>1. UNCHANGED <<dirs, shell, dirstack, pushed, sent>>
    BY <1>1 DEF vars
  <2>2. shell' \in Sound' /\ PushedOK'
    BY <2>1, SoundStays, StackStays DEF DInv
  <2> QED
    BY <2>1, <2>2 DEF DInv, Standing, SentOK
<1>2. CASE Next
  BY <1>2, CdKeeps, CdTwoKeeps, PushdKeeps, PopdKeeps, DirsCKeeps, AssignKeeps, SendKeeps,
     AdoptKeeps, RmdirKeeps, MkdirKeeps DEF Next
<1> QED
  BY <1>1, <1>2

LEMMA DShows ==
  ASSUME TreeStands, DInv
  PROVE  NamesResolve /\ ReaderMovesByWidget
<1>1. NamesResolve
  <2>1. \A i \in DOMAIN pushed : pushed[i].live => Names(dirstack[i]) = pushed[i].at
    BY NamesItself DEF DInv, PushedOK, Spot
  <2> QED
    BY <2>1 DEF NamesResolve, DInv, Sound, Tells, Says
<1>2. ReaderMovesByWidget
  BY DEF DInv, Sound, ReaderMovesByWidget
<1> QED
  BY <1>1, <1>2

(***************************************************************************)
(* The theorem                                                             *)
(***************************************************************************)
(* As long as the directory of the process exists, the text kept for it,   *)
(* $PWD, $OLDPWD and the entries of pushd name what they should, and the   *)
(* reader moves the shell only if a widget did (cd_helpers*.c,             *)
(* builtin_dirstack.c, zle_cwd.c).                                         *)
THEOREM PlacesAreNamed ==
  ASSUME TreeStands, WordsTyped, ~LogicalReader
  PROVE  Spec => [](NamesResolve /\ ReaderMovesByWidget)
<1>1. Init => DInv
  BY DStarts
<1>2. DInv /\ [Next]_vars => DInv'
  BY DSteps
<1>3. DInv => NamesResolve /\ ReaderMovesByWidget
  BY DShows
<1> QED
  BY <1>1, <1>2, <1>3, PTL DEF Spec
=============================================================================
