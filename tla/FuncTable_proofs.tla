-------------------------- MODULE FuncTable_proofs --------------------------
(***************************************************************************)
(* Functions and the frames of their calls, for any names, scripts, files, *)
(* depth of calls and number of bodies.                                    *)
(***************************************************************************)
EXTENDS FuncTable, FiniteSetTheorems, SequenceTheorems, TLAPS

(* What a script is: it defines and unsets functions, and no function has  *)
(* the empty name, by which the code tells the frame of a file.            *)
ScriptsName ==
  /\ "" \notin Functions_
  /\ \A s \in Scripts : s.defines \subseteq Seq(Functions_) /\ s.unsets \subseteq Functions_

(* The loop over the names of a definition.                                *)
Defines == INSTANCE FoldFacts WITH Op <- store_function

LEMMA DefineLoop ==
  ASSUME NEW T, NEW names
  PROVE  zfunc_define_all(T, names) = Defines!Left(T, names)
BY DEF zfunc_define_all, Defines!Left, Defines!FoldsUp, Defines!Top,
       FoldLeft, MapThenFoldSet, Max

(* FUNCNAME is made of the names of the frames, and of nothing else.       *)
NamesIn(frames) == [i \in DOMAIN frames |-> frames[i].func]
Shown(names) ==
  LET all == FoldLeft(add_name, << >>, names)
  IN  SubSeq(all, 1, Min({Len(all), FramesShown}))
Adds == INSTANCE FoldFacts WITH Op <- add_name

LEMMA CollectIs ==
  ASSUME NEW frames
  PROVE  frames_collect(frames) = Shown(NamesIn(frames))
BY DEF frames_collect, Shown, NamesIn

LEMMA AddLoop ==
  ASSUME NEW names
  PROVE  FoldLeft(add_name, << >>, names) = Adds!Left(<< >>, names)
BY DEF Adds!Left, Adds!FoldsUp, Adds!Top, FoldLeft, MapThenFoldSet, Max

-----------------------------------------------------------------------------
(* The inductive invariant                                                 *)

Options == {"zsh", "localoptions", "dotglob", "noglob"}
Entries == [name : Functions_, body : Nat \ {0}, zsh : BOOLEAN]
Tables == [funcs : Seq(Entries), index : [Functions_ -> Nat],
           heap : SUBSET (Nat \ {0}), dead : SUBSET (Nat \ {0})]
FrameNames == Functions_ \cup {"", "(anonymous)"}
Frames == [func : FrameNames, tree : Nat, zsh : BOOLEAN,
           setopt : SUBSET Options, localised : BOOLEAN, cells : SUBSET Options]

Bodies(funcs) == {funcs[i].body : i \in DOMAIN funcs}

(* No name is defined twice, and no body serves two definitions.           *)
OneEach(funcs) ==
  \A i, j \in DOMAIN funcs :
    funcs[i].name = funcs[j].name \/ funcs[i].body = funcs[j].body => i = j

(* The index has the place of a name, or 0 when the table has it not.      *)
Tells(index, funcs) ==
  \A n \in Functions_ :
    \/ index[n] = 0 /\ \A i \in DOMAIN funcs : funcs[i].name # n
    \/ index[n] \in DOMAIN funcs /\ funcs[index[n]].name = n

(* A table that is right while the trees of `walked` are walked and the    *)
(* frames of `calls` are those of calls: what is alive is what the table   *)
(* has and what waits, never both, and nothing waits when no call is left. *)
Right(T, walked, calls) ==
  /\ T \in Tables /\ IsFiniteSet(T.heap)
  /\ OneEach(T.funcs) /\ Tells(T.index, T.funcs)
  /\ T.heap = T.dead \cup Bodies(T.funcs) /\ T.dead \cap Bodies(T.funcs) = {}
  /\ walked \ {0} \subseteq T.heap
  /\ calls = {} => T.dead = {}

(* The frame of a file walks no body.                                      *)
OfFile(func, tree) == func = "" => tree = 0
FramesTyped ==
  /\ call_frames \in Seq(Frames)
  /\ \A i \in DOMAIN call_frames : OfFile(call_frames[i].func, call_frames[i].tree)

(* The oldest frame keeps the dialect that was asked for, for its return.  *)
ModesHold ==
  /\ setopt \in SUBSET Options /\ glob_cells \in SUBSET Options
  /\ cells \in SUBSET Options /\ asked \in BOOLEAN
  /\ "zsh" \in glob_cells <=> zsh_mode
  /\ call_frames = << >> => (zsh_mode <=> asked)
  /\ call_frames # << >> => call_frames[1].zsh = asked

FuncnameHolds ==
  frames_dirty \in BOOLEAN /\ (~frames_dirty => funcname = frames_collect(call_frames))

FInv ==
  /\ Right(Table, Walked, Calls)
  /\ FramesTyped /\ ModesHold /\ FuncnameHolds /\ script \in Scripts

-----------------------------------------------------------------------------
(* Least and greatest; sequences                                           *)

LEMMA SeqFacts ==
  ASSUME NEW S, NEW s \in Seq(S)
  PROVE  /\ Len(s) \in Nat /\ DOMAIN s = 1 .. Len(s)
         /\ s = << >> <=> Len(s) = 0
         /\ s # << >> => Len(s) \in Nat \ {0} /\ 1 \in DOMAIN s
<1>1. Len(s) \in Nat /\ DOMAIN s = 1 .. Len(s)
  BY LenProperties
<1>2. s = << >> <=> Len(s) = 0
  BY EmptySeq
<1> QED BY <1>1, <1>2

LEMMA AppendFacts ==
  ASSUME NEW S, NEW s \in Seq(S), NEW e \in S
  PROVE  /\ Append(s, e) \in Seq(S) /\ Append(s, e) # << >>
         /\ DOMAIN Append(s, e) = DOMAIN s \cup {Len(s) + 1}
         /\ Append(s, e)[Len(s) + 1] = e
         /\ \A i \in DOMAIN s : Append(s, e)[i] = s[i]
<1>1. Append(s, e) \in Seq(S) /\ Append(s, e) # << >>
  BY AppendProperties
<1>2. /\ DOMAIN Append(s, e) = DOMAIN s \cup {Len(s) + 1}
      /\ Append(s, e)[Len(s) + 1] = e
      /\ \A i \in DOMAIN s : Append(s, e)[i] = s[i]
  OBVIOUS
<1> QED BY <1>1, <1>2

LEMMA MinOf ==
  ASSUME NEW S, S \subseteq Nat, S # {}
  PROVE  Min(S) \in S
<1>1. \E m \in S : \A y \in S : m <= y
  BY Defines!LowestOf
<1> QED BY <1>1 DEF Min

LEMMA MinOne ==
  ASSUME NEW m \in Nat
  PROVE  Min({m}) = m
BY MinOf

LEMMA MinZero ==
  ASSUME NEW m \in Nat
  PROVE  Min({0, m}) = 0
<1>1. \E x \in {0, m} : \A y \in {0, m} : x <= y
  OBVIOUS
<1>2. Min({0, m}) \in {0, m} /\ Min({0, m}) <= 0
  BY <1>1 DEF Min
<1> QED BY <1>2

LEMMA CollectNone ==
  ASSUME FramesShown \in Nat
  PROVE  frames_collect(<< >>) = << >>
<1>1. NamesIn(<< >>) = << >>
  <2>1. DOMAIN << >> = {}
    OBVIOUS
  <2> QED BY <2>1 DEF NamesIn
<1>2. Adds!Left(<< >>, << >>) = << >>
  BY Adds!LeftEmpty
<1>3. FoldLeft(add_name, << >>, << >>) = << >>
  BY <1>2, AddLoop
<1>4. Shown(<< >>) = SubSeq(<< >>, 1, Min({0, FramesShown}))
  BY <1>3 DEF Shown
<1>5. Min({0, FramesShown}) = 0
  BY MinZero
<1>6. SubSeq(<< >>, 1, 0) = << >>
  BY SubSeqEmpty
<1> QED BY <1>1, <1>4, <1>5, <1>6, CollectIs

LEMMA MaxOne ==
  ASSUME NEW m \in Nat
  PROVE  Max({m}) = m
<1>1. \E x \in {m} : \A y \in {m} : x >= y
  OBVIOUS
<1>2. Max({m}) \in {m}
  BY <1>1 DEF Max
<1> QED BY <1>2

(* The place of the only entry that has a name, looked for from either end.*)
FirstPlace(funcs, n) == SelectInSeq(funcs, LAMBDA f : f.name = n)
LastPlace(funcs, n) == SelectLastInSeq(funcs, LAMBDA f : f.name = n)

LEMMA PlaceOf ==
  ASSUME NEW funcs \in Seq(Entries), OneEach(funcs), NEW n,
         NEW i \in DOMAIN funcs, funcs[i].name = n
  PROVE  FirstPlace(funcs, n) = i /\ LastPlace(funcs, n) = i /\ i \in Nat \ {0}
<1> DEFINE I == {j \in 1 .. Len(funcs) : funcs[j].name = n}
<1>1. I = {i} /\ i \in Nat \ {0}
  BY DEF OneEach
<1>2. /\ FirstPlace(funcs, n) = IF I # {} THEN Min(I) ELSE 0
      /\ LastPlace(funcs, n) = IF I # {} THEN Max(I) ELSE 0
  BY DEF FirstPlace, LastPlace, SelectInSeq, SelectLastInSeq
<1> HIDE DEF I
<1> QED BY <1>1, <1>2, MinOne, MaxOne

LEMMA NoPlace ==
  ASSUME NEW funcs \in Seq(Entries), NEW n, \A i \in DOMAIN funcs : funcs[i].name # n
  PROVE  FirstPlace(funcs, n) = 0 /\ LastPlace(funcs, n) = 0
<1> DEFINE I == {j \in 1 .. Len(funcs) : funcs[j].name = n}
<1>1. I = {}
  OBVIOUS
<1>2. /\ FirstPlace(funcs, n) = IF I # {} THEN Min(I) ELSE 0
      /\ LastPlace(funcs, n) = IF I # {} THEN Max(I) ELSE 0
  BY DEF FirstPlace, LastPlace, SelectInSeq, SelectLastInSeq
<1> HIDE DEF I
<1> QED BY <1>1, <1>2

(* The index gives what a walk over the table finds.                       *)
LEMMA LookupIs ==
  ASSUME NEW T \in Tables, OneEach(T.funcs), Tells(T.index, T.funcs), NEW n \in Functions_
  PROVE  /\ func_lookup(T, n) = T.index[n]
         /\ func_lookup(T, n) = FirstPlace(T.funcs, n)
<1> DEFINE fs == T.funcs
           k == T.index[n]
<1>1. fs \in Seq(Entries) /\ k \in Nat
  BY DEF Tables
<1>2. \/ k = 0 /\ \A i \in DOMAIN fs : fs[i].name # n
      \/ k \in DOMAIN fs /\ fs[k].name = n
  BY DEF Tells
<1>3. func_lookup(T, n) = k
  BY <1>1, <1>2 DEF func_lookup, func_index_get
<1>4. CASE k = 0 /\ \A i \in DOMAIN fs : fs[i].name # n
  BY <1>1, <1>3, <1>4, NoPlace
<1>5. CASE k \in DOMAIN fs /\ fs[k].name = n
  BY <1>1, <1>3, <1>5, PlaceOf
<1> QED BY <1>2, <1>3, <1>4, <1>5

(* Rebuilding makes the index tell the truth of any table.                 *)
LEMMA RebuildTells ==
  ASSUME NEW funcs \in Seq(Entries), OneEach(funcs)
  PROVE  /\ func_index_rebuild(funcs) \in [Functions_ -> Nat]
         /\ Tells(func_index_rebuild(funcs), funcs)
<1> DEFINE index == func_index_rebuild(funcs)
<1>1. ASSUME NEW n \in Functions_
      PROVE  /\ index[n] \in Nat
             /\ \/ index[n] = 0 /\ \A i \in DOMAIN funcs : funcs[i].name # n
                \/ index[n] \in DOMAIN funcs /\ funcs[index[n]].name = n
  <2>1. index[n] = LastPlace(funcs, n)
    BY DEF func_index_rebuild, LastPlace

  <2> HIDE DEF index
  <2>3. ASSUME NEW i \in DOMAIN funcs, funcs[i].name = n
        PROVE  index[n] = i /\ i \in Nat
    BY <2>1, <2>3, PlaceOf
  <2>4. CASE \A i \in DOMAIN funcs : funcs[i].name # n
    BY <2>1, <2>4, NoPlace
  <2> QED BY <2>3, <2>4
<1>2. index = [n \in Functions_ |-> index[n]]
  BY DEF func_index_rebuild
<1> HIDE DEF index
<1>3. index \in [Functions_ -> Nat]
  BY <1>1, <1>2
<1> QED BY <1>1, <1>3 DEF Tells, index

-----------------------------------------------------------------------------
(* Commands on the table                                                   *)

(* A new body has a number no other tree bears.                            *)
LEMMA FreshIs ==
  ASSUME NEW T, IsFiniteSet(T.heap), T.heap \subseteq Nat \ {0}, Walked \ {0} \subseteq T.heap
  PROVE  Fresh(T) \in Nat \ {0} /\ Fresh(T) \notin T.heap
<1> DEFINE taken == T.heap \cup Walked
           c == Cardinality(taken)
           room == (1 .. c + 1) \ taken
<1>1. IsFiniteSet(taken)
  <2>1. taken \in {T.heap, T.heap \cup {0}}
    OBVIOUS
  <2>2. IsFiniteSet(T.heap \cup {0})
    BY FS_AddElement
  <2> QED BY <2>1, <2>2
<1>2. c \in Nat
  BY <1>1, FS_CardinalityType
<1>3. room # {}
  <2>1. SUFFICES ASSUME 1 .. c + 1 \subseteq taken PROVE FALSE
    OBVIOUS
  <2>2. Cardinality(1 .. c + 1) <= c
    BY <1>1, <2>1, FS_Subset
  <2>3. Cardinality(1 .. c + 1) = c + 1
    BY <1>2, FS_Interval
  <2> QED BY <1>2, <2>2, <2>3
<1>4. Fresh(T) = Min(room)
  BY DEF Fresh
<1>5. room \subseteq Nat
  BY <1>2
<1> HIDE DEF room
<1>6. Fresh(T) \in room
  BY <1>3, <1>4, <1>5, MinOf
<1> QED BY <1>2, <1>6 DEF room

(* What putting an entry in place of another, at the end, or taking one    *)
(* out does to the bodies and the names.                                   *)
LEMMA ReplaceEntry ==
  ASSUME NEW funcs \in Seq(Entries), OneEach(funcs), NEW i \in DOMAIN funcs,
         NEW new \in Entries, new.name = funcs[i].name,
         new.body \notin Bodies(funcs) \ {funcs[i].body}
  PROVE  LET after == [funcs EXCEPT ![i] = new]
         IN  /\ after \in Seq(Entries) /\ OneEach(after)
             /\ DOMAIN after = DOMAIN funcs
             /\ \A j \in DOMAIN funcs : after[j].name = funcs[j].name
             /\ Bodies(after) = (Bodies(funcs) \ {funcs[i].body}) \cup {new.body}
<1> DEFINE after == [funcs EXCEPT ![i] = new]
<1>1. after \in Seq(Entries) /\ DOMAIN after = DOMAIN funcs
  OBVIOUS
<1>2. after[i] = new /\ \A j \in DOMAIN funcs : j # i => after[j] = funcs[j]
  OBVIOUS
<1> HIDE DEF after
<1>3. \A j \in DOMAIN funcs : after[j].name = funcs[j].name
  BY <1>2
<1>4. \A j \in DOMAIN funcs : j # i => funcs[j].body # funcs[i].body
  BY DEF OneEach
<1>5. Bodies(after) = (Bodies(funcs) \ {funcs[i].body}) \cup {new.body}
  BY <1>1, <1>2, <1>4 DEF Bodies
<1>6. \A j \in DOMAIN funcs : j # i => funcs[j].body # new.body
  BY <1>4 DEF Bodies
<1>7. OneEach(after)
  <2> SUFFICES ASSUME NEW j \in DOMAIN funcs, NEW k \in DOMAIN funcs,
                      after[j].name = after[k].name \/ after[j].body = after[k].body
               PROVE  j = k
    BY <1>1 DEF OneEach
  <2>1. after[j].name = after[k].name => j = k
    BY <1>3 DEF OneEach
  <2>2. after[j].body = after[k].body => j = k
    BY <1>2, <1>6 DEF OneEach
  <2> QED BY <2>1, <2>2
<1> QED BY <1>1, <1>3, <1>5, <1>7 DEF after

LEMMA AppendEntry ==
  ASSUME NEW funcs \in Seq(Entries), OneEach(funcs), NEW new \in Entries,
         \A i \in DOMAIN funcs : funcs[i].name # new.name, new.body \notin Bodies(funcs)
  PROVE  LET after == Append(funcs, new)
         IN  /\ after \in Seq(Entries) /\ OneEach(after)
             /\ DOMAIN after = DOMAIN funcs \cup {Len(funcs) + 1}
             /\ after[Len(funcs) + 1] = new /\ \A j \in DOMAIN funcs : after[j] = funcs[j]
             /\ Bodies(after) = Bodies(funcs) \cup {new.body}
<1> DEFINE after == Append(funcs, new)
           n == Len(funcs) + 1
<1>1. after \in Seq(Entries) /\ DOMAIN after = DOMAIN funcs \cup {n} /\ n \notin DOMAIN funcs
  OBVIOUS
<1>2. after[n] = new /\ \A j \in DOMAIN funcs : after[j] = funcs[j]
  OBVIOUS
<1> HIDE DEF after, n
<1>3. Bodies(after) = Bodies(funcs) \cup {new.body}
  BY <1>1, <1>2 DEF Bodies
<1>4. \A j \in DOMAIN funcs : funcs[j].body # new.body
  BY DEF Bodies
<1>5. OneEach(after)
  <2> SUFFICES ASSUME NEW j \in DOMAIN after, NEW k \in DOMAIN after,
                      after[j].name = after[k].name \/ after[j].body = after[k].body
               PROVE  j = k
    BY DEF OneEach
  <2>1. CASE j \in DOMAIN funcs /\ k \in DOMAIN funcs
    BY <2>1, <1>2 DEF OneEach
  <2>2. CASE j = n \/ k = n
    BY <2>2, <1>1, <1>2, <1>4
  <2> QED BY <2>1, <2>2, <1>1
<1> QED BY <1>1, <1>2, <1>3, <1>5 DEF after, n

LEMMA RemoveEntry ==
  ASSUME NEW funcs \in Seq(Entries), OneEach(funcs), NEW i \in DOMAIN funcs
  PROVE  /\ RemoveAt(funcs, i) \in Seq(Entries) /\ OneEach(RemoveAt(funcs, i))
         /\ Bodies(RemoveAt(funcs, i)) = Bodies(funcs) \ {funcs[i].body}
<1> DEFINE after == RemoveAt(funcs, i)
           At(j) == IF j < i THEN j ELSE j + 1
<1>0. i \in 1 .. Len(funcs) /\ Len(funcs) \in Nat
  OBVIOUS
<1> DEFINE a == SubSeq(funcs, 1, i - 1)
           b == SubSeq(funcs, i + 1, Len(funcs))
<1>a. a \in Seq(Entries) /\ Len(a) = i - 1 /\ \A j \in 1 .. i - 1 : a[j] = funcs[j]
  BY <1>0
<1>b. /\ b \in Seq(Entries) /\ Len(b) = Len(funcs) - i
      /\ \A j \in 1 .. Len(funcs) - i : b[j] = funcs[i + j]
  BY <1>0
<1>c. after = a \o b
  BY DEF RemoveAt
<1> HIDE DEF a, b, after
<1>1. after \in Seq(Entries) /\ Len(after) = Len(funcs) - 1
  BY <1>0, <1>a, <1>b, <1>c
<1>2. \A j \in 1 .. Len(funcs) - 1 : after[j] = funcs[At(j)]
  <2> TAKE j \in 1 .. Len(funcs) - 1
  <2>1. CASE j < i
    BY <2>1, <1>0, <1>a, <1>b, <1>c
  <2>2. CASE ~ j < i
    <3>1. after[j] = b[j - (i - 1)] /\ j - (i - 1) \in 1 .. Len(funcs) - i
      BY <2>2, <1>0, <1>a, <1>b, <1>c
    <3> QED BY <3>1, <2>2, <1>0, <1>b
  <2> QED BY <2>1, <2>2
<1>3. DOMAIN after = 1 .. Len(funcs) - 1 /\ DOMAIN funcs = 1 .. Len(funcs)
  BY <1>1
<1>4. \A j \in DOMAIN after : after[j] = funcs[At(j)] /\ At(j) \in DOMAIN funcs \ {i}
  BY <1>0, <1>2, <1>3
<1>5. \A j, k \in DOMAIN after : At(j) = At(k) => j = k
  BY <1>0, <1>3
<1>6. \A k \in DOMAIN funcs \ {i} : \E j \in DOMAIN after : At(j) = k
  <2> TAKE k \in DOMAIN funcs \ {i}
  <2>1. CASE k < i
    BY <2>1, <1>0, <1>3
  <2>2. CASE ~ k < i
    <3>1. k - 1 \in DOMAIN after /\ At(k - 1) = k
      BY <2>2, <1>0, <1>3
    <3> QED BY <3>1
  <2> QED BY <2>1, <2>2
<1> HIDE DEF At
<1>7. OneEach(after)
  BY <1>4, <1>5 DEF OneEach
<1>8. Bodies(after) = Bodies(funcs) \ {funcs[i].body}
  <2>1. \A k \in DOMAIN funcs \ {i} : funcs[k].body # funcs[i].body
    BY DEF OneEach
  <2>2. Bodies(after) = {funcs[k].body : k \in DOMAIN funcs \ {i}}
    BY <1>4, <1>6 DEF Bodies
  <2> QED BY <2>1, <2>2 DEF Bodies
<1> QED BY <1>1, <1>7, <1>8 DEF after

-----------------------------------------------------------------------------
(* Calls in progress.                                                      *)

LEMMA CallsCount ==
  ASSUME FramesTyped
  PROVE  IsFiniteSet(Calls) /\ func_depth \in Nat /\ (func_depth = 0 <=> Calls = {})
<1>0. Len(call_frames) \in Nat /\ DOMAIN call_frames = 1 .. Len(call_frames)
  <2>1. call_frames \in Seq(Frames)
    BY DEF FramesTyped
  <2> QED BY <2>1, LenProperties
<1>1. IsFiniteSet(1 .. Len(call_frames))
  BY <1>0, FS_Interval
<1>2. Calls \subseteq 1 .. Len(call_frames)
  BY <1>0 DEF Calls
<1>3. IsFiniteSet(Calls)
  BY <1>1, <1>2, FS_Subset
<1> QED BY <1>3, FS_CardinalityType, FS_EmptySet DEF func_depth

LEMMA NothingWalked ==
  ASSUME FramesTyped, Calls = {}
  PROVE  Walked \ {0} = {}
BY DEF FramesTyped, OfFile, Calls, Walked

(* A body that goes: at once when no call is in progress, and else it      *)
(* waits; either way what is alive is what waits and what the table has.   *)
LEMMA RetireIs ==
  ASSUME FramesTyped, NEW T \in Tables, Right(T, Walked, Calls), NEW b \in Bodies(T.funcs)
  PROVE  LET R == retire_body(T, b)
         IN  /\ R \in Tables /\ R.funcs = T.funcs /\ R.index = T.index
             /\ IsFiniteSet(R.heap) /\ Walked \ {0} \subseteq R.heap
             /\ R.heap = R.dead \cup (Bodies(T.funcs) \ {b})
             /\ R.dead \cap (Bodies(T.funcs) \ {b}) = {}
             /\ Calls = {} => R.dead = {}
<1> DEFINE R == retire_body(T, b)
<1>1. b \in T.heap /\ T.heap \in SUBSET (Nat \ {0}) /\ IsFiniteSet(T.heap)
  BY DEF Right, Tables
<1>2. CASE Calls = {}
  <2>1. R = [T EXCEPT !.heap = @ \ {b}]
    BY <1>2, CallsCount DEF retire_body
  <2>2. R.heap = T.heap \ {b} /\ R.dead = T.dead /\ R.funcs = T.funcs /\ R.index = T.index
        /\ R \in Tables
    BY <2>1, <1>1 DEF Tables
  <2>3. IsFiniteSet(R.heap)
    BY <2>2, <1>1, FS_Subset
  <2> QED BY <2>2, <2>3, <1>2, NothingWalked DEF Right
<1>3. CASE Calls # {}
  <2>1. R = [T EXCEPT !.dead = @ \cup {b}]
    BY <1>3, CallsCount DEF retire_body
  <2>2. R.heap = T.heap /\ R.dead = T.dead \cup {b} /\ R.funcs = T.funcs /\ R.index = T.index
        /\ R \in Tables
    BY <2>1, <1>1 DEF Tables
  <2> QED BY <2>2, <1>1, <1>3 DEF Right
<1> QED BY <1>2, <1>3

(* A definition, of a new name or in place of an old body.                 *)
LEMMA StoreKeeps ==
  ASSUME FramesTyped, NEW T \in Tables, Right(T, Walked, Calls), NEW n \in Functions_,
         zsh_mode \in BOOLEAN
  PROVE  /\ store_function(T, n) \in Tables
         /\ Right(store_function(T, n), Walked, Calls)
<1> DEFINE i == func_lookup(T, n)
           R == IF i = 0 THEN T ELSE retire_body(T, T.funcs[i].body)
           b == Fresh(R)
           new == [name |-> n, body |-> b, zsh |-> zsh_mode]
           old == IF i = 0 THEN {} ELSE {T.funcs[i].body}
           S == store_function(T, n)
<1>1. /\ T.funcs \in Seq(Entries) /\ T.index \in [Functions_ -> Nat]
      /\ OneEach(T.funcs) /\ Tells(T.index, T.funcs)
  BY DEF Right, Tables
<1>2. i = T.index[n]
  BY <1>1, LookupIs
<1>3. /\ i = 0 => \A j \in DOMAIN T.funcs : T.funcs[j].name # n
      /\ i # 0 => i \in DOMAIN T.funcs /\ T.funcs[i].name = n
  BY <1>1, <1>2 DEF Tells
<1> HIDE DEF i
<1>4. /\ R \in Tables /\ R.funcs = T.funcs /\ R.index = T.index
      /\ IsFiniteSet(R.heap) /\ Walked \ {0} \subseteq R.heap
      /\ R.heap = R.dead \cup (Bodies(T.funcs) \ old)
      /\ R.dead \cap (Bodies(T.funcs) \ old) = {}
      /\ Calls = {} => R.dead = {}
  <2>1. CASE i = 0
    BY <2>1 DEF Right
  <2>2. CASE i # 0
    <3>1. T.funcs[i].body \in Bodies(T.funcs)
      BY <2>2, <1>3 DEF Bodies
    <3> QED BY <3>1, <2>2, RetireIs
  <2> QED BY <2>1, <2>2
<1>5. b \in Nat \ {0} /\ b \notin R.heap
  BY <1>4, FreshIs DEF Tables
<1>6. new \in Entries /\ new.name = n /\ new.body = b
  BY <1>5 DEF Entries
<1>7. deep_clone_ast(R) = [R EXCEPT !.heap = @ \cup {b}]
  BY DEF deep_clone_ast
<1>8. S = IF i # 0 THEN [deep_clone_ast(R) EXCEPT !.funcs[i] = new]
          ELSE func_index_set([deep_clone_ast(R) EXCEPT !.funcs = Append(@, new)], n,
                              Len(deep_clone_ast(R).funcs) + 1)
  BY DEF store_function, i
<1> HIDE DEF R, S
<1>9. IsFiniteSet(R.heap \cup {b})
  BY <1>4, FS_AddElement
<1> HIDE DEF b, new
<1>10. CASE i # 0
  <2> DEFINE fs == [T.funcs EXCEPT ![i] = new]
  <2>1. S = [R EXCEPT !.heap = @ \cup {b}, !.funcs = fs]
    BY <1>4, <1>7, <1>8, <1>10 DEF Tables
  <2>2. S.heap = R.heap \cup {b} /\ S.funcs = fs /\ S.index = T.index /\ S.dead = R.dead
    BY <2>1, <1>4 DEF Tables
  <2>3. /\ fs \in Seq(Entries) /\ OneEach(fs) /\ DOMAIN fs = DOMAIN T.funcs
        /\ \A j \in DOMAIN T.funcs : fs[j].name = T.funcs[j].name
        /\ Bodies(fs) = (Bodies(T.funcs) \ {T.funcs[i].body}) \cup {b}
    BY <1>1, <1>3, <1>4, <1>5, <1>6, <1>10, ReplaceEntry
  <2> HIDE DEF fs
  <2>4. S \in Tables
    BY <2>1, <2>3, <1>4, <1>5 DEF Tables
  <2>5. Tells(S.index, S.funcs)
    BY <2>2, <2>3, <1>1 DEF Tells
  <2>6. S.heap = S.dead \cup Bodies(S.funcs) /\ S.dead \cap Bodies(S.funcs) = {}
    BY <2>2, <2>3, <1>4, <1>5, <1>10
  <2> QED BY <2>2, <2>3, <2>4, <2>5, <2>6, <1>4, <1>9 DEF Right, S
<1>11. CASE i = 0
  <2> DEFINE fs == Append(T.funcs, new)
             k == Len(T.funcs) + 1
  <2>1. S = [R EXCEPT !.heap = @ \cup {b}, !.funcs = fs, !.index = [T.index EXCEPT ![n] = k]]
    BY <1>4, <1>7, <1>8, <1>11 DEF Tables, func_index_set
  <2>2. /\ S.heap = R.heap \cup {b} /\ S.funcs = fs /\ S.dead = R.dead
        /\ S.index = [T.index EXCEPT ![n] = k]
    BY <2>1, <1>4 DEF Tables
  <2>3. k \in Nat
    BY <1>1
  <2>4. /\ fs \in Seq(Entries) /\ OneEach(fs) /\ DOMAIN fs = DOMAIN T.funcs \cup {k}
        /\ fs[k] = new /\ \A j \in DOMAIN T.funcs : fs[j] = T.funcs[j]
        /\ Bodies(fs) = Bodies(T.funcs) \cup {b}
    BY <1>1, <1>3, <1>4, <1>5, <1>6, <1>11, AppendEntry
  <2> HIDE DEF fs, k
  <2>5. S \in Tables
    BY <2>1, <2>3, <2>4, <1>1, <1>4, <1>5 DEF Tables
  <2>6. Tells(S.index, S.funcs)
    <3> SUFFICES ASSUME NEW m \in Functions_
                 PROVE  \/ S.index[m] = 0 /\ \A j \in DOMAIN S.funcs : S.funcs[j].name # m
                        \/ S.index[m] \in DOMAIN S.funcs /\ S.funcs[S.index[m]].name = m
      BY DEF Tells
    <3>1. CASE m = n
      BY <3>1, <2>2, <2>4, <1>1, <1>6
    <3>2. CASE m # n
      BY <3>2, <2>2, <2>4, <1>1, <1>6 DEF Tells
    <3> QED BY <3>1, <3>2
  <2>7. S.heap = S.dead \cup Bodies(S.funcs) /\ S.dead \cap Bodies(S.funcs) = {}
    BY <2>2, <2>4, <1>4, <1>5, <1>11
  <2> QED BY <2>2, <2>4, <2>5, <2>6, <2>7, <1>4, <1>9 DEF Right, S
<1> QED BY <1>10, <1>11

LEMMA DefineKeeps ==
  ASSUME FramesTyped, NEW T \in Tables, Right(T, Walked, Calls),
         NEW names \in Seq(Functions_), zsh_mode \in BOOLEAN
  PROVE  /\ zfunc_define_all(T, names) \in Tables
         /\ Right(zfunc_define_all(T, names), Walked, Calls)
<1> DEFINE A == {t \in Tables : Right(t, Walked, Calls)}
<1>1. T \in A
  OBVIOUS
<1>2. ASSUME NEW t \in A, NEW n \in Functions_
      PROVE  store_function(t, n) \in A
  BY <1>2, StoreKeeps
<1> HIDE DEF A
<1>3. Defines!Left(T, names) \in A
  BY <1>1, <1>2, Defines!LeftKeeps
<1> QED BY <1>3, DefineLoop DEF A

(* unset -f, which moves the entries that follow and so the whole index.   *)
LEMMA UnsetKeeps ==
  ASSUME FramesTyped, NEW T \in Tables, Right(T, Walked, Calls), NEW n \in Functions_
  PROVE  /\ unset_function(T, n) \in Tables
         /\ Right(unset_function(T, n), Walked, Calls)
<1> DEFINE i == FirstPlace(T.funcs, n)
           b == T.funcs[i].body
           R == retire_body(T, b)
           fs == RemoveAt(T.funcs, i)
           S == unset_function(T, n)
<1>1. T.funcs \in Seq(Entries) /\ OneEach(T.funcs)
  BY DEF Right, Tables
<1>2. S = IF i = 0 THEN T
          ELSE [[R EXCEPT !.funcs = RemoveAt(@, i)]
                  EXCEPT !.index = func_index_rebuild([R EXCEPT !.funcs = RemoveAt(@, i)].funcs)]
  BY DEF unset_function, FirstPlace
<1>3. i # 0 => i \in DOMAIN T.funcs
  <2>1. CASE \A j \in DOMAIN T.funcs : T.funcs[j].name # n
    BY <2>1, <1>1, NoPlace
  <2>2. ASSUME NEW j \in DOMAIN T.funcs, T.funcs[j].name = n
        PROVE  i = j
    BY <2>2, <1>1, PlaceOf
  <2> QED BY <2>1, <2>2
<1> HIDE DEF i, S
<1>4. CASE i = 0
  BY <1>2, <1>4 DEF S
<1>5. CASE i # 0
  <2>1. b \in Bodies(T.funcs)
    BY <1>3, <1>5 DEF Bodies
  <2>2. /\ R \in Tables /\ R.funcs = T.funcs
        /\ IsFiniteSet(R.heap) /\ Walked \ {0} \subseteq R.heap
        /\ R.heap = R.dead \cup (Bodies(T.funcs) \ {b})
        /\ R.dead \cap (Bodies(T.funcs) \ {b}) = {}
        /\ Calls = {} => R.dead = {}
    BY <2>1, RetireIs
  <2>3. fs \in Seq(Entries) /\ OneEach(fs) /\ Bodies(fs) = Bodies(T.funcs) \ {b}
    BY <1>1, <1>3, <1>5, RemoveEntry
  <2>4. func_index_rebuild(fs) \in [Functions_ -> Nat] /\ Tells(func_index_rebuild(fs), fs)
    BY <2>3, RebuildTells
  <2> HIDE DEF R, b
  <2>5. S = [R EXCEPT !.funcs = fs, !.index = func_index_rebuild(fs)]
    BY <1>2, <1>5, <2>2 DEF Tables
  <2> HIDE DEF fs
  <2>6. S.funcs = fs /\ S.index = func_index_rebuild(fs) /\ S.heap = R.heap /\ S.dead = R.dead
        /\ S \in Tables
    BY <2>2, <2>3, <2>4, <2>5 DEF Tables
  <2> QED BY <2>2, <2>3, <2>4, <2>6 DEF Right, S
<1> QED BY <1>4, <1>5

-----------------------------------------------------------------------------
(* The pieces of a step                                                    *)

LEMMA WithIs ==
  ASSUME NEW set \in SUBSET Options, NEW o \in Options, NEW on \in BOOLEAN
  PROVE  /\ With(set, o, on) \in SUBSET Options
         /\ o \in With(set, o, on) <=> on
         /\ \A p \in Options \ {o} : p \in With(set, o, on) <=> p \in set
BY DEF With

LEMMA BecomesIs ==
  ASSUME NEW T \in Tables, Becomes(T)
  PROVE  Table' = T
BY DEF Becomes, Table, Tables

LEMMA TableFields ==
  /\ Table.funcs = functions /\ Table.index = func_index
  /\ Table.heap = heap /\ Table.dead = dead_funcs
BY DEF Table

(* What is right of a table stays right while the trees stay, the bodies   *)
(* walked are alive, and no call was in progress where none is now.        *)
LEMMA RightStays ==
  ASSUME NEW T, NEW w1, NEW c1, Right(T, w1, c1), NEW w2, NEW c2,
         w2 \ {0} \subseteq T.heap, c2 = {} => c1 = {}
  PROVE  Right(T, w2, c2)
BY DEF Right

(* A dialect that changes, with the glob layer's copy of it.               *)
LEMMA SwapIs ==
  ASSUME ModesHold, NEW opts \in SUBSET Options, NEW on \in BOOLEAN, zsh_mode_swap(opts, on)
  PROVE  /\ setopt' \in SUBSET Options /\ glob_cells' \in SUBSET Options
         /\ zsh_mode' <=> on
         /\ "zsh" \in glob_cells' <=> zsh_mode'
<1>1. /\ setopt' = With(opts, "zsh", on) /\ glob_cells' = With(glob_cells, "zsh", on)
      /\ glob_cells \in SUBSET Options /\ "zsh" \in Options
  BY DEF zsh_mode_swap, ModesHold, Options
<1>2. /\ With(opts, "zsh", on) \in SUBSET Options /\ ("zsh" \in With(opts, "zsh", on) <=> on)
      /\ With(glob_cells, "zsh", on) \in SUBSET Options
      /\ ("zsh" \in With(glob_cells, "zsh", on) <=> on)
  BY <1>1, WithIs
<1> QED BY <1>1, <1>2 DEF zsh_mode

LEMMA ZshIsFlag == zsh_mode \in BOOLEAN
BY DEF zsh_mode

LEMMA FrameIs ==
  ASSUME NEW func \in FrameNames, NEW tree \in Nat,
         setopt \in SUBSET Options, cells \in SUBSET Options
  PROVE  /\ Frame(func, tree) \in Frames
         /\ Frame(func, tree).func = func /\ Frame(func, tree).tree = tree
         /\ Frame(func, tree).zsh = zsh_mode
BY ZshIsFlag DEF Frame, Frames

(* A frame that opens.                                                     *)
LEMMA PushKeeps ==
  ASSUME FInv, NEW func \in FrameNames, NEW tree \in Nat,
         NEW zsh \in BOOLEAN, tree # 0 => tree \in heap, OfFile(func, tree),
         frame_push(func, tree, zsh), UNCHANGED <<tree_vars, script>>
  PROVE  FInv'
<1>a. PICK n : n = Len(call_frames) + 1
  OBVIOUS
<1>b. PICK f : f = Frame(func, tree)
  OBVIOUS
<1>1. /\ call_frames' = Append(call_frames, f) /\ frames_dirty' = TRUE
      /\ zsh_mode_swap(setopt, zsh) /\ UNCHANGED <<funcname, cells, asked, tree_vars, script>>
  BY <1>b DEF frame_push
<1>2. /\ call_frames \in Seq(Frames) /\ setopt \in SUBSET Options /\ cells \in SUBSET Options
      /\ asked \in BOOLEAN
  BY DEF FInv, FramesTyped, ModesHold
<1>3. f \in Frames /\ f.func = func /\ f.tree = tree /\ f.zsh = zsh_mode
  BY <1>2, <1>b, FrameIs
<1>4. /\ call_frames' \in Seq(Frames) /\ DOMAIN call_frames' = DOMAIN call_frames \cup {n}
      /\ call_frames'[n] = f /\ \A i \in DOMAIN call_frames : call_frames'[i] = call_frames[i]
      /\ call_frames' # << >>
  <2>1. call_frames' = Append(call_frames, f)
    BY <1>1
  <2>2. call_frames \in Seq(Frames) /\ f \in Frames
    BY <1>2, <1>3
  <2>3. /\ Append(call_frames, f) \in Seq(Frames) /\ Append(call_frames, f) # << >>
        /\ DOMAIN Append(call_frames, f) = DOMAIN call_frames \cup {n}
        /\ Append(call_frames, f)[n] = f
        /\ \A i \in DOMAIN call_frames : Append(call_frames, f)[i] = call_frames[i]
    BY <2>2, <1>a, AppendFacts
  <2> QED BY <2>1, <2>3
<1>5. FramesTyped'
  BY <1>3, <1>4 DEF FramesTyped, FInv
<1>6. Right(Table, Walked, Calls)'
  <2>1. Table' = Table
    BY <1>1 DEF Table, tree_vars
  <2>2. Right(Table, Walked, Calls) /\ Table.heap = heap
    BY TableFields DEF FInv
  <2>3. Walked' \ {0} \subseteq Table.heap
    <3>1. Walked' \subseteq Walked \cup {tree}
      BY <1>3, <1>4 DEF Walked
    <3> QED BY <3>1, <2>2 DEF Right
  <2>4. Calls' = {} => Calls = {}
    BY <1>4 DEF Calls
  <2> QED BY <2>1, <2>2, <2>3, <2>4, RightStays
<1>7. ModesHold'
  <2>1. call_frames'[1].zsh = asked
    <3>1. CASE call_frames = << >>
      <4>1. n = 1
        BY <3>1, <1>a
      <4>2. zsh_mode <=> asked
        BY <3>1 DEF FInv, ModesHold
      <4>3. zsh_mode \in BOOLEAN
        BY ZshIsFlag
      <4> QED BY <4>1, <4>2, <4>3, <1>2, <1>3, <1>4
    <3>2. CASE call_frames # << >>
      <4>1. 1 \in DOMAIN call_frames
        BY <3>2, <1>2, SeqFacts
      <4> QED BY <4>1, <3>2, <1>4 DEF FInv, ModesHold
    <3> QED BY <3>1, <3>2
  <2>2. ModesHold
    BY DEF FInv
  <2>3. setopt' \in SUBSET Options /\ glob_cells' \in SUBSET Options
        /\ ("zsh" \in glob_cells' <=> zsh_mode')
    BY <2>2, <1>1, <1>2, SwapIs
  <2> QED BY <2>1, <2>3, <1>1, <1>2, <1>4 DEF ModesHold
<1>8. FuncnameHolds'
  BY <1>1 DEF FuncnameHolds
<1> QED BY <1>1, <1>5, <1>6, <1>7, <1>8 DEF FInv

(* What drain_dead_funcs frees waits for no call.                          *)
LEMMA DrainKeeps ==
  ASSUME NEW T \in Tables, NEW w, NEW c, Right(T, w, c), NEW depth \in Nat, NEW w2, NEW c2,
         w2 \subseteq w, depth = 0 <=> c2 = {}, c2 = {} => w2 \ {0} = {}
  PROVE  drain_dead_funcs(T, depth) \in Tables /\ Right(drain_dead_funcs(T, depth), w2, c2)
<1> DEFINE D == drain_dead_funcs(T, depth)
<1>1. CASE depth > 0
  BY <1>1 DEF drain_dead_funcs, Right
<1>2. CASE depth = 0
  <2>1. D = [T EXCEPT !.heap = @ \ T.dead, !.dead = {}]
    BY <1>2 DEF drain_dead_funcs
  <2>2. /\ D.heap = T.heap \ T.dead /\ D.dead = {} /\ D.funcs = T.funcs /\ D.index = T.index
        /\ D \in Tables
    BY <2>1 DEF Tables
  <2>3. IsFiniteSet(T.heap \ T.dead)
    BY FS_Difference DEF Right
  <2> HIDE DEF D
  <2>4. Right(D, w2, c2)
    BY <2>2, <2>3, <1>2 DEF Right
  <2> QED BY <2>2, <2>4 DEF D
<1> QED BY <1>1, <1>2

(* The end of a call or of a file.                                         *)
LEMMA LeaveKeeps ==
  ASSUME FInv, Leave, UNCHANGED script
  PROVE  FInv'
<1>a. PICK n : n = Len(call_frames)
  OBVIOUS
<1>b. PICK f : f = call_frames[n]
  OBVIOUS
<1>1. /\ call_frames # << >> /\ frame_restore_opts(f) /\ call_frames' = Front(call_frames)
      /\ frames_dirty' = TRUE /\ UNCHANGED <<funcname, cells, asked, script>>
      /\ IF f.func = "" THEN UNCHANGED tree_vars
         ELSE Becomes(drain_dead_funcs(Table, func_depth - 1))
  BY <1>a, <1>b DEF Leave, frame_pop, Last
<1>2. /\ FramesTyped /\ ModesHold /\ Right(Table, Walked, Calls) /\ script \in Scripts
  BY DEF FInv
<1>3. call_frames \in Seq(Frames) /\ n \in Nat \ {0} /\ DOMAIN call_frames = 1 .. n
  <2>1. call_frames \in Seq(Frames)
    BY <1>2 DEF FramesTyped
  <2> QED BY <2>1, <1>1, <1>a, SeqFacts
<1>4. f \in Frames
  BY <1>3, <1>b
<1>5. /\ call_frames' \in Seq(Frames) /\ DOMAIN call_frames' = 1 .. n - 1
      /\ \A i \in 1 .. n - 1 : call_frames'[i] = call_frames[i]
      /\ call_frames' = << >> <=> n = 1
  <2>1. call_frames' = SubSeq(call_frames, 1, n - 1)
    BY <1>1, <1>a DEF Front
  <2>2. call_frames' \in Seq(Frames) /\ Len(call_frames') = n - 1
    BY <2>1, <1>3
  <2>3. \A i \in 1 .. n - 1 : call_frames'[i] = call_frames[i]
    BY <2>1, <1>3
  <2> QED BY <2>2, <2>3, <1>3
<1>6. FramesTyped'
  <2>1. \A i \in 1 .. n - 1 : i \in DOMAIN call_frames
    BY <1>3
  <2> QED BY <2>1, <1>2, <1>5 DEF FramesTyped
<1>7. Calls' = Calls \ {n} /\ Walked' \subseteq Walked
  <2>1. \A i : i \in 1 .. n - 1 <=> i \in DOMAIN call_frames /\ i # n
    BY <1>3
  <2> QED BY <2>1, <1>3, <1>5 DEF Calls, Walked
<1>8. Calls' = {} => Walked' \ {0} = {}
  BY <1>5, <1>6 DEF FramesTyped, OfFile, Calls, Walked
<1>9. Right(Table, Walked, Calls)'
  <2>1. CASE f.func = ""
    <3>1. Calls' = Calls
      BY <2>1, <1>7, <1>b DEF Calls
    <3>2. Table' = Table
      BY <2>1, <1>1 DEF Table, tree_vars
    <3>3. Walked' \ {0} \subseteq Table.heap
      BY <1>2, <1>7 DEF Right
    <3> QED BY <3>1, <3>2, <3>3, <1>2, RightStays
  <2>2. CASE f.func # ""
    <3> DEFINE d == func_depth - 1
    <3>1. n \in Calls
      <4>1. n \in DOMAIN call_frames
        BY <1>3
      <4> QED BY <4>1, <2>2, <1>b DEF Calls
    <3>2. IsFiniteSet(Calls) /\ func_depth \in Nat /\ func_depth = Cardinality(Calls)
          /\ Calls # {}
      BY <3>1, <1>2, CallsCount DEF func_depth
    <3>3. Cardinality(Calls \ {n}) = func_depth - 1 /\ IsFiniteSet(Calls \ {n})
      BY <3>1, <3>2, FS_RemoveElement
    <3>4. d \in Nat /\ (d = 0 <=> Calls \ {n} = {})
      BY <3>2, <3>3, FS_EmptySet, FS_CardinalityType
    <3> HIDE DEF d
    <3>5. Table \in Tables
      BY <1>2 DEF Right
    <3>6. /\ drain_dead_funcs(Table, d) \in Tables
          /\ Right(drain_dead_funcs(Table, d), Walked', Calls')
      BY <3>4, <3>5, <1>2, <1>7, <1>8, DrainKeeps
    <3>7. Table' = drain_dead_funcs(Table, d)
      BY <3>6, <2>2, <1>1, BecomesIs DEF d
    <3> QED BY <3>6, <3>7
  <2> QED BY <2>1, <2>2
<1>10. ModesHold'
  <2> DEFINE opts == IF "localoptions" \in setopt THEN f.setopt ELSE setopt
  <2>1. zsh_mode_swap(opts, f.zsh)
    BY <1>1 DEF frame_restore_opts
  <2>2. opts \in SUBSET Options /\ f.zsh \in BOOLEAN
    BY <1>2, <1>4 DEF ModesHold, Frames
  <2> HIDE DEF opts
  <2>3. /\ setopt' \in SUBSET Options /\ glob_cells' \in SUBSET Options
        /\ (zsh_mode' <=> f.zsh) /\ ("zsh" \in glob_cells' <=> zsh_mode')
    BY <2>1, <2>2, <1>2, SwapIs
  <2>4. call_frames[1].zsh = asked /\ asked \in BOOLEAN /\ cells \in SUBSET Options
    BY <1>1, <1>2 DEF ModesHold

  <2>6. CASE n = 1
    <3>1. zsh_mode' <=> asked'
      BY <2>3, <2>4, <2>6, <1>1, <1>b
    <3> QED BY <3>1, <2>3, <2>4, <2>6, <1>1, <1>5 DEF ModesHold
  <2>7. CASE n # 1
    <3>1. 1 \in 1 .. n - 1
      BY <2>7, <1>3
    <3> QED BY <3>1, <2>3, <2>4, <2>7, <1>1, <1>5 DEF ModesHold
  <2> QED BY <2>6, <2>7
<1>11. FuncnameHolds'
  BY <1>1 DEF FuncnameHolds
<1> QED BY <1>1, <1>2, <1>6, <1>9, <1>10, <1>11 DEF FInv

(* A step that only changes the table.                                     *)
LEMMA TableKeeps ==
  ASSUME FInv, NEW T \in Tables, Right(T, Walked, Calls), Becomes(T),
         UNCHANGED <<call_frames, mode_vars, name_vars, script>>
  PROVE  FInv'
<1>1. Table' = T
  BY BecomesIs
<1>2. UNCHANGED <<call_frames, setopt, cells, glob_cells, asked, frames_dirty, funcname, script>>
  BY DEF mode_vars, name_vars
<1>3. Walked' = Walked /\ Calls' = Calls /\ (zsh_mode' <=> zsh_mode)
  BY <1>2 DEF Walked, Calls, zsh_mode
<1>4. Right(Table, Walked, Calls)'
  BY <1>1, <1>3
<1>5. FramesTyped' /\ ModesHold' /\ FuncnameHolds'
  BY <1>2, <1>3 DEF FInv, FramesTyped, ModesHold, FuncnameHolds
<1> QED BY <1>2, <1>4, <1>5 DEF FInv

(* A step that changes only what frames are to restore.                    *)
SameCalls ==
  /\ call_frames' \in Seq(Frames) /\ DOMAIN call_frames' = DOMAIN call_frames
  /\ \A i \in DOMAIN call_frames :
       /\ call_frames'[i].func = call_frames[i].func
       /\ call_frames'[i].tree = call_frames[i].tree

LEMMA SameCallsKeep ==
  ASSUME FInv, SameCalls, ModesHold', UNCHANGED <<name_vars, tree_vars, script>>
  PROVE  FInv'
<1>1. UNCHANGED <<functions, func_index, heap, dead_funcs, frames_dirty, funcname, script>>
  BY DEF name_vars, tree_vars
<1>2. Table' = Table /\ Walked' = Walked /\ Calls' = Calls
  BY <1>1 DEF SameCalls, Table, Walked, Calls
<1>3. Right(Table, Walked, Calls)'
  BY <1>2 DEF FInv
<1>4. FramesTyped'
  BY DEF FInv, FramesTyped, SameCalls
<1>5. NamesIn(call_frames') = NamesIn(call_frames)
  BY DEF SameCalls, NamesIn
<1>6. frames_collect(call_frames') = frames_collect(call_frames)
  BY <1>5, CollectIs
<1>7. FuncnameHolds'
  BY <1>1, <1>6 DEF FInv, FuncnameHolds
<1> QED BY <1>1, <1>3, <1>4, <1>7 DEF FInv

LEMMA SameFrames ==
  ASSUME FInv, UNCHANGED call_frames
  PROVE  SameCalls
BY DEF FInv, FramesTyped, SameCalls

(* emulate: for the frame alone, or for every frame that is open.          *)
LEMMA ReqKeeps ==
  ASSUME FInv, NEW on \in BOOLEAN, NEW local \in BOOLEAN, zsh_mode_req(on, local),
         UNCHANGED script
  PROVE  FInv'
<1>1. /\ UNCHANGED <<cells, name_vars, tree_vars, script>>
      /\ asked' = IF local /\ call_frames # << >> THEN asked ELSE on
      /\ zsh_mode_swap(setopt, on)
  BY DEF zsh_mode_req, zsh_mode_pin
<1>2. /\ ModesHold /\ call_frames \in Seq(Frames) /\ setopt \in SUBSET Options
      /\ cells \in SUBSET Options /\ asked \in BOOLEAN
  BY DEF FInv, ModesHold, FramesTyped
<1>3. /\ setopt' \in SUBSET Options /\ glob_cells' \in SUBSET Options
      /\ (zsh_mode' <=> on) /\ ("zsh" \in glob_cells' <=> zsh_mode')
  BY <1>1, <1>2, SwapIs
<1>4. cells' \in SUBSET Options /\ asked' \in BOOLEAN
  BY <1>1, <1>2
<1>5. CASE local
  <2>1. UNCHANGED call_frames
    BY <1>5 DEF zsh_mode_req
  <2>2. ModesHold'
    <3>1. CASE call_frames = << >>
      <4>1. asked' <=> zsh_mode'
        BY <3>1, <1>1, <1>3
      <4> QED BY <4>1, <3>1, <2>1, <1>3, <1>4 DEF ModesHold
    <3>2. CASE call_frames # << >>
      <4>1. asked' = asked
        BY <3>2, <1>1, <1>5
      <4> QED BY <4>1, <3>2, <2>1, <1>2, <1>3, <1>4 DEF ModesHold
    <3> QED BY <3>1, <3>2
  <2> QED BY <2>1, <2>2, <1>1, SameFrames, SameCallsKeep
<1>6. CASE ~local
  <2>1. call_frames' = [i \in DOMAIN call_frames |->
          [call_frames[i] EXCEPT !.zsh = on, !.setopt = With(@, "zsh", on)]]
    BY <1>6 DEF zsh_mode_req, zsh_mode_pin
  <2>2. asked' = on
    BY <1>1, <1>6
  <2>3. ASSUME NEW f \in Frames
        PROVE  LET g == [f EXCEPT !.zsh = on, !.setopt = With(@, "zsh", on)]
               IN  g \in Frames /\ g.func = f.func /\ g.tree = f.tree /\ g.zsh = on
    <3>1. With(f.setopt, "zsh", on) \in SUBSET Options
      BY WithIs DEF Frames, Options
    <3> DEFINE w == With(f.setopt, "zsh", on)
    <3> HIDE DEF w
    <3>2. w \in SUBSET Options
      BY <3>1 DEF w
    <3>3. LET g == [f EXCEPT !.zsh = on, !.setopt = w]
          IN  g \in Frames /\ g.func = f.func /\ g.tree = f.tree /\ g.zsh = on
      BY <3>2 DEF Frames
    <3> QED BY <3>3 DEF w
  <2>4. DOMAIN call_frames' = DOMAIN call_frames
    BY <2>1
  <2>5. ASSUME NEW i \in DOMAIN call_frames
        PROVE  /\ call_frames'[i] \in Frames /\ call_frames'[i].zsh = on
               /\ call_frames'[i].func = call_frames[i].func
               /\ call_frames'[i].tree = call_frames[i].tree
    <3>1. call_frames[i] \in Frames
      BY <1>2
    <3>2. call_frames'[i] = [call_frames[i] EXCEPT !.zsh = on, !.setopt = With(@, "zsh", on)]
      BY <2>1
    <3> QED BY <3>1, <3>2, <2>3
  <2>6. call_frames' \in Seq(Frames) /\ (call_frames = << >> <=> call_frames' = << >>)
    <3>1. Len(call_frames) \in Nat /\ DOMAIN call_frames = 1 .. Len(call_frames)
      BY <1>2, SeqFacts
    <3>2. call_frames' = [i \in 1 .. Len(call_frames) |-> call_frames'[i]]
      BY <3>1, <2>1
    <3>3. call_frames' \in Seq(Frames)
      BY <3>1, <3>2, <2>5, IsASeq
    <3>4. Len(call_frames') \in Nat /\ DOMAIN call_frames' = 1 .. Len(call_frames')
          /\ (call_frames' = << >> <=> Len(call_frames') = 0)
          /\ (call_frames = << >> <=> Len(call_frames) = 0)
      BY <3>3, <1>2, SeqFacts
    <3>5. Len(call_frames') = Len(call_frames)
      <4>1. 1 .. Len(call_frames') = 1 .. Len(call_frames)
        BY <3>1, <3>4, <2>4
      <4>2. Len(call_frames') \in Nat /\ Len(call_frames) \in Nat
        BY <3>1, <3>4
      <4>3. ASSUME NEW a \in Nat, NEW b \in Nat, 1 .. a = 1 .. b PROVE a = b
        <5>1. a # 0 => a \in 1 .. b
          BY <4>3
        <5>2. b # 0 => b \in 1 .. a
          BY <4>3
        <5> QED BY <5>1, <5>2
      <4> QED BY <4>1, <4>2, <4>3
    <3> QED BY <3>3, <3>4, <3>5
  <2>7. SameCalls
    BY <2>4, <2>5, <2>6 DEF SameCalls
  <2>8. ModesHold'
    <3>1. call_frames # << >> => call_frames'[1].zsh = on
      <4>1. call_frames # << >> => 1 \in DOMAIN call_frames
        BY <1>2, SeqFacts
      <4> QED BY <4>1, <2>5
    <3> QED BY <3>1, <2>2, <2>6, <1>3, <1>4 DEF ModesHold
  <2> QED BY <2>7, <2>8, <1>1, SameCallsKeep
<1> QED BY <1>5, <1>6

(* setopt: none of the three options is the dialect.                       *)
LEMMA ApplyKeeps ==
  ASSUME FInv, NEW o, NEW on \in BOOLEAN, zopt_apply(o, on), UNCHANGED script
  PROVE  FInv'
<1>1. UNCHANGED <<asked, name_vars, tree_vars, script>>
  BY DEF zopt_apply
<1>2. /\ ModesHold /\ call_frames \in Seq(Frames) /\ setopt \in SUBSET Options
      /\ cells \in SUBSET Options /\ glob_cells \in SUBSET Options /\ asked \in BOOLEAN
  BY DEF FInv, ModesHold, FramesTyped
<1>3. ASSUME NEW p \in {"localoptions", "dotglob", "noglob"}, NEW set \in SUBSET Options
      PROVE  With(set, p, on) \in SUBSET Options /\ ("zsh" \in With(set, p, on) <=> "zsh" \in set)
  <2>1. p \in Options /\ "zsh" \in Options \ {p}
    BY DEF Options
  <2> QED BY <2>1, WithIs
<1>4. CASE zopt_shopt_bit(on)
  <2>1. /\ setopt' = With(setopt, "dotglob", on) /\ glob_cells' = With(glob_cells, "dotglob", on)
        /\ UNCHANGED <<cells, call_frames>>
    BY <1>4 DEF zopt_shopt_bit
  <2>2. /\ setopt' \in SUBSET Options /\ glob_cells' \in SUBSET Options
        /\ (zsh_mode' <=> zsh_mode) /\ ("zsh" \in glob_cells' <=> "zsh" \in glob_cells)
    BY <2>1, <1>2, <1>3 DEF zsh_mode
  <2>3. ModesHold'
    BY <2>1, <2>2, <1>1, <1>2 DEF ModesHold
  <2> QED BY <2>1, <2>3, <1>1, SameFrames, SameCallsKeep
<1>5. CASE setopt_put(on)
  <2>1. cells' = With(cells, "noglob", on) /\ UNCHANGED <<setopt, glob_cells, call_frames>>
    BY <1>5 DEF setopt_put
  <2>2. cells' \in SUBSET Options /\ (zsh_mode' <=> zsh_mode)
    BY <2>1, <1>2, <1>3 DEF zsh_mode
  <2>3. ModesHold'
    BY <2>1, <2>2, <1>1, <1>2 DEF ModesHold
  <2> QED BY <2>1, <2>3, <1>1, SameFrames, SameCallsKeep
<1>6. CASE zopt_own_bit(on)
  <2>1. setopt' = With(setopt, "localoptions", on) /\ UNCHANGED <<cells, glob_cells>>
    BY <1>6 DEF zopt_own_bit
  <2>2. setopt' \in SUBSET Options /\ (zsh_mode' <=> zsh_mode)
    BY <2>1, <1>2, <1>3 DEF zsh_mode
  <2>3. CASE UNCHANGED call_frames
    <3>1. ModesHold'
      BY <2>1, <2>2, <2>3, <1>1, <1>2 DEF ModesHold
    <3> QED BY <2>3, <3>1, <1>1, SameFrames, SameCallsKeep
  <2>4. CASE call_frames # << >>
             /\ call_frames' = [call_frames EXCEPT ![Len(call_frames)].localised = TRUE]
    <3>1. PICK n : n = Len(call_frames)
      OBVIOUS
    <3>2. n \in DOMAIN call_frames /\ 1 \in DOMAIN call_frames
      BY <2>4, <3>1, <1>2, SeqFacts
    <3>3. PICK g : g = [call_frames[n] EXCEPT !.localised = TRUE]
      OBVIOUS
    <3>4. /\ g \in Frames /\ g.func = call_frames[n].func /\ g.tree = call_frames[n].tree
          /\ g.zsh = call_frames[n].zsh
      <4>1. call_frames[n] \in Frames
        BY <3>2, <1>2
      <4> QED BY <4>1, <3>3 DEF Frames
    <3>5. call_frames' = [call_frames EXCEPT ![n] = g]
      BY <2>4, <3>1, <3>3
    <3>6. /\ call_frames' \in Seq(Frames) /\ DOMAIN call_frames' = DOMAIN call_frames
          /\ call_frames'[n] = g
          /\ \A i \in DOMAIN call_frames : i # n => call_frames'[i] = call_frames[i]
      BY <3>2, <3>4, <3>5, <1>2
    <3>7. SameCalls /\ call_frames'[1].zsh = call_frames[1].zsh
      BY <3>2, <3>4, <3>6 DEF SameCalls
    <3>8. call_frames' # << >>
      BY <3>2, <3>6
    <3>9. ModesHold'
      BY <2>1, <2>2, <2>4, <3>7, <3>8, <1>1, <1>2 DEF ModesHold
    <3> QED BY <3>7, <3>9, <1>1, SameCallsKeep
  <2> QED BY <2>3, <2>4, <1>6 DEF zopt_own_bit
<1> QED BY <1>4, <1>5, <1>6 DEF zopt_apply

LEMMA SyncKeeps ==
  ASSUME FInv, frames_sync, UNCHANGED script
  PROVE  FInv'
<1>1. /\ frames_dirty' = FALSE /\ funcname' = frames_collect(call_frames)
      /\ UNCHANGED <<call_frames, mode_vars, tree_vars, script>>
  BY DEF frames_sync
<1>2. UNCHANGED <<functions, func_index, heap, dead_funcs, setopt, cells, glob_cells, asked>>
  BY <1>1 DEF mode_vars, tree_vars
<1>3. /\ Walked' = Walked /\ Calls' = Calls /\ (zsh_mode' <=> zsh_mode) /\ Table' = Table
      /\ frames_collect(call_frames') = frames_collect(call_frames)
  BY <1>1, <1>2 DEF Walked, Calls, zsh_mode, Table
<1>4. FramesTyped' /\ ModesHold' /\ FuncnameHolds'
  BY <1>1, <1>2, <1>3 DEF FInv, FramesTyped, ModesHold, FuncnameHolds
<1> QED BY <1>1, <1>3, <1>4 DEF FInv

-----------------------------------------------------------------------------
(* The theorem                                                             *)

LEMMA FStarts ==
  ASSUME FramesShown \in Nat, Init
  PROVE  FInv
<1>1. /\ functions = << >> /\ func_index = [n \in Functions_ |-> 0] /\ heap = {}
      /\ dead_funcs = {} /\ call_frames = << >>
  BY DEF Init
<1>2. DOMAIN << >> = {} /\ << >> \in Seq(Entries) /\ << >> \in Seq(Frames)
  BY EmptySeq
<1>3. Walked = {} /\ Calls = {}
  BY <1>1, <1>2 DEF Walked, Calls
<1>4. Table \in Tables
  BY <1>1, <1>2 DEF Table, Tables
<1>5. Bodies(functions) = {} /\ OneEach(functions) /\ Tells(func_index, functions)
  BY <1>1, <1>2 DEF Bodies, OneEach, Tells
<1>6. Right(Table, Walked, Calls)
  BY <1>1, <1>3, <1>4, <1>5, TableFields, FS_EmptySet DEF Right
<1>7. FramesTyped
  BY <1>1, <1>2 DEF FramesTyped
<1>8. ModesHold
  BY DEF Init, ModesHold, zsh_mode
<1>9. FuncnameHolds
  <2>1. frames_dirty = FALSE /\ funcname = << >>
    BY DEF Init
  <2> QED BY <2>1, <1>1, CollectNone DEF FuncnameHolds
<1> QED BY <1>6, <1>7, <1>8, <1>9 DEF FInv, Init

LEMMA FSteps ==
  ASSUME ScriptsName, FInv, [Next]_vars
  PROVE  FInv'
<1>1. /\ FramesTyped /\ ModesHold /\ Right(Table, Walked, Calls) /\ script \in Scripts
      /\ zsh_mode \in BOOLEAN /\ Table \in Tables
  BY ZshIsFlag DEF FInv, Right
<1>2. ASSUME NEW names \in script.defines, execute_func_def(names), UNCHANGED script
      PROVE  FInv'
  <2>1. names \in Seq(Functions_)
    BY <1>1 DEF ScriptsName
  <2>2. /\ zfunc_define_all(Table, names) \in Tables
        /\ Right(zfunc_define_all(Table, names), Walked, Calls)
    BY <2>1, <1>1, DefineKeeps
  <2> QED BY <2>2, <1>2, TableKeeps DEF execute_func_def
<1>3. ASSUME NEW n \in script.unsets, unset_operands(n), UNCHANGED script
      PROVE  FInv'
  <2>1. n \in Functions_
    BY <1>1 DEF ScriptsName
  <2>2. unset_function(Table, n) \in Tables /\ Right(unset_function(Table, n), Walked, Calls)
    BY <2>1, <1>1, UnsetKeeps
  <2> QED BY <2>2, <1>3, TableKeeps DEF unset_operands
<1>4. ASSUME NEW n \in Functions_, execute_func_call(n), UNCHANGED script
      PROVE  FInv'
  <2>1. PICK i : i = func_lookup(Table, n)
    OBVIOUS
  <2>2. /\ i # 0 /\ frame_push(n, functions[i].body, functions[i].zsh)
        /\ UNCHANGED <<tree_vars, script>>
    BY <2>1, <1>4 DEF execute_func_call
  <2>3. OneEach(functions) /\ Tells(func_index, functions) /\ functions \in Seq(Entries)
    BY <1>1, TableFields DEF Right, Tables
  <2>4. i = func_index[n]
    BY <2>1, <1>1, LookupIs, TableFields DEF Right
  <2>5. i \in DOMAIN functions
    BY <2>2, <2>3, <2>4 DEF Tells
  <2>6. functions[i] \in Entries
    BY <2>3, <2>5
  <2>7. functions[i].body \in Nat /\ functions[i].body # 0 /\ functions[i].zsh \in BOOLEAN
    BY <2>6 DEF Entries
  <2>8. functions[i].body \in heap
    BY <2>5, <1>1, TableFields DEF Right, Bodies
  <2>9. n \in FrameNames /\ OfFile(n, functions[i].body)
    BY DEF FrameNames, OfFile, ScriptsName
  <2> QED BY <2>2, <2>7, <2>8, <2>9, PushKeeps
<1>5. ASSUME execute_anon_func, UNCHANGED script
      PROVE  FInv'
  <2>1. PICK tree : tree = IF call_frames = << >> THEN 0 ELSE Last(call_frames).tree
    OBVIOUS
  <2>2. frame_push("(anonymous)", tree, TRUE) /\ UNCHANGED <<tree_vars, script>>
    BY <2>1, <1>5 DEF execute_anon_func
  <2>3. tree \in Nat /\ (tree # 0 => tree \in heap)
    <3>1. CASE call_frames = << >>
      BY <2>1, <3>1
    <3>2. CASE call_frames # << >>
      <4>1. call_frames \in Seq(Frames)
        BY <1>1 DEF FramesTyped
      <4>2. Len(call_frames) \in DOMAIN call_frames
        BY <4>1, <3>2, SeqFacts
      <4>3. tree = call_frames[Len(call_frames)].tree
        BY <2>1, <3>2 DEF Last
      <4>4. tree \in Nat
        <5>1. call_frames[Len(call_frames)] \in Frames
          BY <4>1, <4>2
        <5> QED BY <5>1, <4>3 DEF Frames
      <4>5. tree \in Walked
        BY <4>2, <4>3 DEF Walked
      <4>6. Walked \ {0} \subseteq heap
        BY <1>1, TableFields DEF Right
      <4> QED BY <4>4, <4>5, <4>6
    <3> QED BY <3>1, <3>2
  <2>4. "(anonymous)" \in FrameNames /\ OfFile("(anonymous)", tree)
    BY DEF FrameNames, OfFile
  <2>5. PICK func : func = "(anonymous)"
    OBVIOUS
  <2>6. PICK zsh \in BOOLEAN : zsh = TRUE
    OBVIOUS
  <2>7. func \in FrameNames /\ OfFile(func, tree) /\ frame_push(func, tree, zsh)
    BY <2>2, <2>4, <2>5, <2>6
  <2> QED BY <2>2, <2>3, <2>7, PushKeeps
<1>6. ASSUME NEW file \in Files, run_source(file), UNCHANGED script
      PROVE  FInv'
  <2>1. PICK func : func = ""
    OBVIOUS
  <2>2. PICK zsh : zsh = (zsh_mode \/ file = "zsh")
    OBVIOUS
  <2>3. zsh \in BOOLEAN
    BY <2>2
  <2>4. frame_push(func, 0, zsh) /\ UNCHANGED <<tree_vars, script>>
    BY <2>1, <2>2, <1>6 DEF run_source
  <2>5. func \in FrameNames /\ OfFile(func, 0)
    BY <2>1 DEF FrameNames, OfFile
  <2> QED BY <2>3, <2>4, <2>5, PushKeeps
<1>7. ASSUME NEW o \in script.switches, NEW on \in BOOLEAN, zopt_apply(o, on), UNCHANGED script
      PROVE  FInv'
  BY <1>7, ApplyKeeps
<1>8. ASSUME NEW on \in BOOLEAN, NEW local \in BOOLEAN, zsh_mode_req(on, local),
             UNCHANGED script
      PROVE  FInv'
  BY <1>8, ReqKeeps
<1>9. CASE UNCHANGED vars
  <2>1. UNCHANGED <<functions, func_index, heap, dead_funcs>>
    BY <1>9 DEF vars, tree_vars
  <2>2. UNCHANGED <<call_frames, mode_vars, name_vars, script>>
    BY <1>9 DEF vars
  <2>3. Becomes(Table)
    BY <2>1, TableFields DEF Becomes
  <2> QED BY <2>2, <2>3, <1>1, TableKeeps
<1>10. ASSUME Leave, UNCHANGED script PROVE FInv'
  BY <1>10, LeaveKeeps
<1>11. ASSUME frames_sync, UNCHANGED script PROVE FInv'
  BY <1>11, SyncKeeps
<1> QED BY <1>2, <1>3, <1>4, <1>5, <1>6, <1>7, <1>8, <1>9, <1>10, <1>11 DEF Next, Step

LEMMA FImplies ==
  ASSUME FInv
  PROVE  BodiesOutliveCalls /\ LookupAgrees /\ FuncnameCurrent /\ DialectKept
<1>1. /\ FramesTyped /\ ModesHold /\ FuncnameHolds /\ Right(Table, Walked, Calls)
      /\ Table \in Tables
  BY DEF FInv, Right
<1>2. /\ Walked \ {0} \subseteq heap /\ heap = dead_funcs \cup Bodies(functions)
      /\ OneEach(functions) /\ Tells(func_index, functions)
      /\ Calls = {} => dead_funcs = {}
  BY <1>1, TableFields DEF Right
<1>3. BodiesOutliveCalls
  BY <1>1, <1>2, CallsCount DEF BodiesOutliveCalls, Bodies
<1>4. LookupAgrees
  <2> SUFFICES ASSUME NEW n \in Functions_
               PROVE  func_lookup(Table, n) = FirstPlace(functions, n)
    BY DEF LookupAgrees, FirstPlace
  <2> QED BY <1>1, <1>2, LookupIs, TableFields
<1>5. FuncnameCurrent
  BY <1>1 DEF FuncnameHolds, FuncnameCurrent
<1>6. DialectKept
  <2>1. ("zsh" \in glob_cells) \in BOOLEAN /\ zsh_mode \in BOOLEAN /\ asked \in BOOLEAN
    BY <1>1, ZshIsFlag DEF ModesHold
  <2> QED BY <2>1, <1>1 DEF ModesHold, DialectKept
<1> QED BY <1>3, <1>4, <1>5, <1>6

(* Whatever a function does to itself and to its callers' functions, every *)
(* tree that is walked is alive and none outlives its last call; a name    *)
(* means its newest definition; FUNCNAME is the calls in progress; and no  *)
(* file, function or return leaks or undoes a dialect (func_retire.c,      *)
(* func_index.c, call_frames.c, zsh_mode2.c).                              *)
THEOREM CallsAreSound ==
  ASSUME ScriptsName, FramesShown \in Nat
  PROVE  Spec => [](BodiesOutliveCalls /\ LookupAgrees /\ FuncnameCurrent /\ DialectKept)
<1>1. Init => FInv
  BY FStarts
<1>2. FInv /\ [Next]_vars => FInv'
  BY FSteps
<1>3. FInv => BodiesOutliveCalls /\ LookupAgrees /\ FuncnameCurrent /\ DialectKept
  BY FImplies
<1> QED BY <1>1, <1>2, <1>3, PTL DEF Spec
=============================================================================
