--------------------------- MODULE VarScope_proofs --------------------------
(***************************************************************************)
(* Variables and their scopes, for any names, values, lists of assignments *)
(* and depth of calls.                                                     *)
(***************************************************************************)
EXTENDS VarScope, FiniteSetTheorems, SequenceTheorems, TLAPS

-----------------------------------------------------------------------------
(* The loops of VarScope, each a fold whose step is named here.            *)

PlaceOne(acc, a) ==
  [store |-> env_set(acc.store, a.key, a.value, FALSE),
   saved |-> Append(acc.saved, scope_save_capture(acc.store, a.key, 0))]

StageOne(acc, a) ==
  LET placed == apply_temp_assigns(acc.store, acc.pre)
  IN  [store |-> restore_temp_assigns(placed.store, placed.saved),
       pre   |-> Append(acc.pre, assignment_to_env(placed.store, a))]

AssignOne(m, a) == IF a.key \in readonly_vars THEN m
                   ELSE env_set(m, a.key, a.value, AllExport)

MeanOne(M, a) ==
  LET got == assignment_to_env(M, a)
  IN  IF got.key \in readonly_vars THEN M ELSE env_set(M, got.key, got.value, AllExport)

Places == INSTANCE FoldFacts WITH Op <- PlaceOne
Restores == INSTANCE FoldFacts WITH Op <- restore_one
Stages == INSTANCE FoldFacts WITH Op <- StageOne
Assigns == INSTANCE FoldFacts WITH Op <- AssignOne
Means == INSTANCE FoldFacts WITH Op <- MeanOne

LEMMA PlaceLoop ==
  ASSUME NEW M, NEW pre
  PROVE  apply_temp_assigns(M, pre) = Places!Left([store |-> M, saved |-> <<>>], pre)
BY DEF apply_temp_assigns, Places!Left, Places!FoldsUp, Places!Top, PlaceOne,
       FoldLeft, MapThenFoldSet, Max

LEMMA RestoreLoop ==
  ASSUME NEW M, NEW saved
  PROVE  restore_temp_assigns(M, saved) = Restores!Right(saved, M)
BY DEF restore_temp_assigns, Restores!Right, Restores!FoldsDown, Restores!Bottom,
       FoldRight, MapThenFoldSet, Min

LEMMA StageLoop ==
  ASSUME NEW M, NEW list
  PROVE  expand_assignments(M, list) = Stages!Left([store |-> M, pre |-> <<>>], list)
BY DEF expand_assignments, Stages!Left, Stages!FoldsUp, Stages!Top, StageOne,
       FoldLeft, MapThenFoldSet, Max

LEMMA AssignLoop ==
  ASSUME NEW M, NEW pre
  PROVE  apply_pre_assigns(M, pre) = Assigns!Right(pre, M)
BY DEF apply_pre_assigns, Assigns!Right, Assigns!FoldsDown, Assigns!Bottom, AssignOne,
       FoldRight, MapThenFoldSet, Min

LEMMA MeanLoop ==
  ASSUME NEW list
  PROVE  InOrder(list) = Means!Left(Store, list).env
BY DEF InOrder, Means!Left, Means!FoldsUp, Means!Top, MeanOne, FoldLeft, MapThenFoldSet, Max

-----------------------------------------------------------------------------
(* Records and stores.                                                     *)

(* A store whose saves are in S; S is {x} where the saves stay what they    *)
(* are.                                                                    *)
Stores(S) == [env : [Names -> Record], saves : S]
Staged == [key : Names, value : Values]

LEMMA RecordOf ==
  ASSUME NEW v \in Values \cup {NoValue}, NEW x \in BOOLEAN
  PROVE  /\ env_create(v, x) \in Record
         /\ Absent \in Record
BY DEF Record, env_create, Absent

LEMMA RecordHas ==
  ASSUME NEW r \in Record
  PROVE  /\ r.there \in BOOLEAN /\ r.exported \in BOOLEAN
         /\ r.value \in Values \cup {NoValue}
         /\ r.there => r = env_create(r.value, r.exported)
         /\ ~ r.there => r = Absent
<1>1. CASE r = Absent
  BY <1>1 DEF Absent
<1>2. CASE r \in [there : {TRUE}, value : Values \cup {NoValue}, exported : BOOLEAN]
  <2>1. r.there = TRUE /\ r.value \in Values \cup {NoValue} /\ r.exported \in BOOLEAN
    BY <1>2
  <2>2. r = [there |-> r.there, value |-> r.value, exported |-> r.exported]
    BY <1>2
  <2> QED BY <2>1, <2>2 DEF env_create
<1> QED BY <1>1, <1>2 DEF Record

LEMMA StoreAlone ==
  ASSUME NEW S, NEW M \in Stores(S)
  PROVE  M \in Stores({M.saves})
BY DEF Stores

LEMMA AloneStore ==
  ASSUME NEW S, NEW M \in Stores(S), NEW N \in Stores({M.saves})
  PROVE  N \in Stores(S) /\ N.saves = M.saves
BY DEF Stores

LEMMA SetStore ==
  ASSUME NEW S, NEW M \in Stores(S), NEW n \in Names,
         NEW v \in Values \cup {NoValue}, NEW x \in BOOLEAN
  PROVE  /\ env_set(M, n, v, x) \in Stores(S)
         /\ env_set(M, n, v, x).saves = M.saves
         /\ env_set(M, n, v, x).env =
              [M.env EXCEPT ![n] = env_create(v, M.env[n].exported \/ x)]
<1>1. M.env \in [Names -> Record] /\ M.saves \in S /\ M.env[n] \in Record
  BY DEF Stores
<1>2. (M.env[n].exported \/ x) \in BOOLEAN
  OBVIOUS
<1> DEFINE e == [M.env EXCEPT ![n] = env_create(v, M.env[n].exported \/ x)]
<1>3. e \in [Names -> Record]
  BY <1>1, <1>2, RecordOf
<1>4. env_set(M, n, v, x) = [M EXCEPT !.env = e]
  BY <1>1 DEF env_set, Stores
<1> HIDE DEF e
<1>5. [M EXCEPT !.env = e] = [env |-> e, saves |-> M.saves]
  BY DEF Stores
<1> QED BY <1>1, <1>3, <1>4, <1>5 DEF Stores, e

(* A write that does not export.                                           *)
Written(M, n, v) == env_set(M, n, v, FALSE)

LEMMA SetPlain ==
  ASSUME NEW S, NEW M \in Stores(S), NEW n \in Names, NEW v \in Values \cup {NoValue}
  PROVE  /\ Written(M, n, v) \in Stores(S)
         /\ Written(M, n, v).saves = M.saves
         /\ Written(M, n, v).env =
              [M.env EXCEPT ![n] = env_create(v, M.env[n].exported)]
<1>1. M.env \in [Names -> Record] /\ M.saves \in S /\ M.env[n] \in Record
  BY DEF Stores
<1>2. M.env[n].exported \in BOOLEAN
  BY <1>1, RecordHas
<1>3. (M.env[n].exported \/ FALSE) = M.env[n].exported
  BY <1>2
<1> DEFINE e == [M.env EXCEPT ![n] = env_create(v, M.env[n].exported)]
<1>4. e \in [Names -> Record]
  BY <1>1, <1>2, RecordOf
<1>5. Written(M, n, v) = [M EXCEPT !.env = e]
  BY <1>1, <1>3 DEF Written, env_set, Stores
<1> HIDE DEF e
<1>6. [M EXCEPT !.env = e] = [env |-> e, saves |-> M.saves]
  BY DEF Stores
<1> QED BY <1>1, <1>4, <1>5, <1>6 DEF Stores, e

(* A write that exports.                                                   *)
Exporting(M, n, v) == env_set(M, n, v, TRUE)

LEMMA SetExported ==
  ASSUME NEW S, NEW M \in Stores(S), NEW n \in Names, NEW v \in Values \cup {NoValue}
  PROVE  /\ Exporting(M, n, v) \in Stores(S)
         /\ \A m \in Names \ {n} : Exporting(M, n, v).env[m] = M.env[m]
         /\ Exporting(M, n, v).env[n].value = v
<1>1. M.env \in [Names -> Record] /\ M.saves \in S
  BY DEF Stores
<1> DEFINE e == [M.env EXCEPT ![n] = env_create(v, TRUE)]
<1>2. env_create(v, TRUE) \in Record
  BY DEF env_create, Record
<1>3. e \in [Names -> Record] /\ (\A m \in Names \ {n} : e[m] = M.env[m]) /\ e[n].value = v
  BY <1>1, <1>2 DEF env_create
<1>4. Exporting(M, n, v) = [M EXCEPT !.env = e]
  BY <1>1 DEF Exporting, env_set, Stores
<1> HIDE DEF e
<1>5. [M EXCEPT !.env = e] = [env |-> e, saves |-> M.saves]
  BY DEF Stores
<1> QED BY <1>1, <1>3, <1>4, <1>5 DEF Stores, e

LEMMA UnsetStore ==
  ASSUME NEW S, NEW M \in Stores(S), NEW n \in Names
  PROVE  /\ unset_raw(M, n) \in Stores(S)
         /\ unset_raw(M, n).saves = M.saves
         /\ unset_raw(M, n).env = [M.env EXCEPT ![n] = Absent]
<1>1. M.env \in [Names -> Record] /\ M.saves \in S
  BY DEF Stores
<1> DEFINE e == [M.env EXCEPT ![n] = Absent]
<1>3. e \in [Names -> Record]
  BY <1>1 DEF Record
<1>4. unset_raw(M, n) = [M EXCEPT !.env = e]
  BY <1>1 DEF unset_raw, Stores
<1> HIDE DEF e
<1>5. [M EXCEPT !.env = e] = [env |-> e, saves |-> M.saves]
  BY DEF Stores
<1> QED BY <1>1, <1>3, <1>4, <1>5 DEF Stores, e

LEMMA CaptureSave ==
  ASSUME NEW S, NEW M \in Stores(S), NEW n \in Names, NEW d \in Nat
  PROVE  /\ scope_save_capture(M, n, d) \in Save
         /\ scope_save_capture(M, n, d).key = n
         /\ scope_save_capture(M, n, d).depth = d
BY RecordHas DEF scope_save_capture, Save, Stores

(* Putting one name back touches that name alone.                          *)
RecordBack(M, s) ==
  IF s.existed THEN env_create(IF s.value = NoValue THEN Empty ELSE s.value,
                               M.env[s.key].exported)
  ELSE Absent

LEMMA RestoreStore ==
  ASSUME NEW S, NEW M \in Stores(S), NEW s \in Save
  PROVE  /\ restore_one(M, s) \in Stores(S)
         /\ restore_one(M, s).saves = M.saves
         /\ restore_one(M, s).env = [M.env EXCEPT ![s.key] = RecordBack(M, s)]
<1>1. s.key \in Names /\ s.existed \in BOOLEAN /\ s.value \in Values \cup {NoValue}
  BY DEF Save
<1> DEFINE v == IF s.value = NoValue THEN Empty ELSE s.value
<1>2. v \in Values \cup {NoValue}
  BY <1>1, VarScopeAssumption
<1>5. CASE s.existed
  <2>1. restore_one(M, s) = Written(M, s.key, v)
    BY <1>5 DEF restore_one, Written
  <2> HIDE DEF v
  <2>2. /\ Written(M, s.key, v) \in Stores(S)
        /\ Written(M, s.key, v).saves = M.saves
        /\ Written(M, s.key, v).env =
              [M.env EXCEPT ![s.key] = env_create(v, M.env[s.key].exported)]
    BY <1>1, <1>2, SetPlain
  <2>3. restore_one(M, s).env = [M.env EXCEPT ![s.key] = env_create(v, M.env[s.key].exported)]
    BY <2>1, <2>2
  <2>4. RecordBack(M, s) = env_create(v, M.env[s.key].exported)
    BY <1>5 DEF RecordBack, v
  <2> QED BY <2>1, <2>2, <2>3, <2>4
<1>6. CASE ~ s.existed
  <2>1. restore_one(M, s) = unset_raw(M, s.key)
    BY <1>6 DEF restore_one
  <2>2. RecordBack(M, s) = Absent
    BY <1>6 DEF RecordBack
  <2> QED BY <2>1, <2>2, <1>1, UnsetStore
<1> QED BY <1>1, <1>5, <1>6

-----------------------------------------------------------------------------
(* Types of the loops.                                                     *)

LEMMA PlaceTypes ==
  ASSUME NEW S, NEW M \in Stores(S), NEW pre \in Seq(Staged)
  PROVE  /\ apply_temp_assigns(M, pre).store \in Stores(S)
         /\ apply_temp_assigns(M, pre).store.saves = M.saves
         /\ apply_temp_assigns(M, pre).saved \in Seq(Save)
<1> DEFINE A == [store : Stores({M.saves}), saved : Seq(Save)]
           base == [store |-> M, saved |-> <<>>]
<1>1. base \in A
  BY StoreAlone
<1>2. ASSUME NEW a \in A, NEW p \in Staged
      PROVE  PlaceOne(a, p) \in A
  <2>1. a.store \in Stores({M.saves}) /\ a.saved \in Seq(Save)
    OBVIOUS
  <2>2. p.key \in Names /\ p.value \in Values
    BY DEF Staged
  <2>3. Written(a.store, p.key, p.value) \in Stores({M.saves})
    BY <2>1, <2>2, SetPlain
  <2>4. scope_save_capture(a.store, p.key, 0) \in Save
    BY <2>1, <2>2, CaptureSave
  <2>5. Append(a.saved, scope_save_capture(a.store, p.key, 0)) \in Seq(Save)
    BY <2>1, <2>4
  <2> QED BY <2>3, <2>5 DEF PlaceOne, Written
<1> HIDE DEF A, base
<1>3. Places!Left(base, pre) \in A
  BY <1>1, <1>2, Places!LeftKeeps
<1>4. apply_temp_assigns(M, pre) \in A
  BY <1>3, PlaceLoop DEF base
<1> QED BY <1>4, AloneStore DEF A

LEMMA RestoreTypes ==
  ASSUME NEW S, NEW M \in Stores(S), NEW saved \in Seq(Save)
  PROVE  /\ restore_temp_assigns(M, saved) \in Stores(S)
         /\ restore_temp_assigns(M, saved).saves = M.saves
<1> DEFINE A == Stores({M.saves})
<1>1. M \in A
  BY StoreAlone
<1>2. \A a \in A, s \in Save : restore_one(a, s) \in A
  BY RestoreStore
<1> HIDE DEF A
<1>3. Restores!Right(saved, M) \in A
  BY <1>1, <1>2, Restores!RightKeeps
<1>4. restore_temp_assigns(M, saved) \in A
  BY <1>3, RestoreLoop
<1> QED BY <1>4, AloneStore DEF A

LEMMA AssignmentStaged ==
  ASSUME NEW S, NEW M \in Stores(S), NEW a \in [key : Names, rhs : Names \cup Values]
  PROVE  assignment_to_env(M, a) \in Staged /\ assignment_to_env(M, a).key = a.key
<1>1. a.rhs \in Names => M.env[a.rhs].value \in Values \cup {NoValue}
  BY RecordHas DEF Stores
<1> QED BY <1>1, VarScopeAssumption DEF assignment_to_env, Staged

Assignment == [key : Names, rhs : Names \cup Values]

LEMMA StageTypes ==
  ASSUME NEW S, NEW M \in Stores(S), NEW list \in Seq(Assignment)
  PROVE  /\ expand_assignments(M, list).store \in Stores(S)
         /\ expand_assignments(M, list).store.saves = M.saves
         /\ expand_assignments(M, list).pre \in Seq(Staged)
<1> DEFINE A == [store : Stores({M.saves}), pre : Seq(Staged)]
           base == [store |-> M, pre |-> <<>>]
<1>1. base \in A
  BY StoreAlone
<1>2. ASSUME NEW a \in A, NEW x \in Assignment
      PROVE  StageOne(a, x) \in A
  <2> DEFINE P == apply_temp_assigns(a.store, a.pre)
  <2>1. a.store \in Stores({M.saves}) /\ a.pre \in Seq(Staged)
    OBVIOUS
  <2>3. P.store \in Stores({M.saves}) /\ P.saved \in Seq(Save)
    BY <2>1, PlaceTypes
  <2>6. StageOne(a, x) =
          [store |-> restore_temp_assigns(P.store, P.saved),
           pre   |-> Append(a.pre, assignment_to_env(P.store, x))]
    BY DEF StageOne
  <2> HIDE DEF P
  <2>4. restore_temp_assigns(P.store, P.saved) \in Stores({M.saves})
    BY <2>3, RestoreTypes
  <2>5. assignment_to_env(P.store, x) \in Staged
    BY <2>3, AssignmentStaged DEF Assignment
  <2>7. Append(a.pre, assignment_to_env(P.store, x)) \in Seq(Staged)
    BY <2>1, <2>5
  <2> QED BY <2>4, <2>6, <2>7
<1> HIDE DEF A, base
<1>3. Stages!Left(base, list) \in A
  BY <1>1, <1>2, Stages!LeftKeeps
<1>4. expand_assignments(M, list) \in A
  BY <1>3, StageLoop DEF base
<1> QED BY <1>4, AloneStore DEF A

LEMMA AssignTypes ==
  ASSUME NEW S, NEW M \in Stores(S), NEW pre \in Seq(Staged)
  PROVE  /\ apply_pre_assigns(M, pre) \in Stores(S)
         /\ apply_pre_assigns(M, pre).saves = M.saves
<1> DEFINE A == Stores({M.saves})
<1>1. M \in A
  BY StoreAlone
<1>2. ASSUME NEW a \in A, NEW p \in Staged PROVE AssignOne(a, p) \in A
  <2>1. p.key \in Names /\ p.value \in Values
    BY DEF Staged
  <2>3. env_set(a, p.key, p.value, AllExport) \in A
    BY <2>1, SetStore, VarScopeAssumption
  <2> QED BY <2>3 DEF AssignOne
<1> HIDE DEF A
<1>3. Assigns!Right(pre, M) \in A
  BY <1>1, <1>2, Assigns!RightKeeps
<1>4. apply_pre_assigns(M, pre) \in A
  BY <1>3, AssignLoop
<1> QED BY <1>4, AloneStore DEF A

-----------------------------------------------------------------------------
(* The layers of local_saves.                                              *)

Layered(d) ==
  {s \in Seq(Save) : /\ \A i \in DOMAIN s : s[i].depth \in 1 .. d
                     /\ \A i, j \in DOMAIN s : i < j => s[i].depth <= s[j].depth}

LEMMA LayeredSaves ==
  ASSUME NEW d \in Nat, NEW s \in Layered(d), NEW M \in Stores(Layered(d))
  PROVE  s \in Seq(Save) /\ M \in Stores(Seq(Save)) /\ M.saves \in Layered(d)
BY DEF Layered, Stores

LEMMA LayeredEmpty ==
  ASSUME NEW d \in Nat
  PROVE  <<>> \in Layered(d)
BY DEF Layered

LEMMA LayeredWider ==
  ASSUME NEW d \in Nat, NEW s \in Layered(d)
  PROVE  s \in Layered(d + 1)
BY DEF Layered

(* A save of the call on top goes on top.                                  *)
LEMMA LayeredPush ==
  ASSUME NEW d \in Nat, d >= 1, NEW s \in Layered(d), NEW x \in Save, x.depth = d
  PROVE  Append(s, x) \in Layered(d)
<1> DEFINE t == Append(s, x)
           n == Len(s)
<1>1. s \in Seq(Save) /\ n \in Nat /\ DOMAIN s = 1 .. n
  BY DEF Layered
<1>2. t \in Seq(Save) /\ DOMAIN t = 1 .. n + 1 /\ t[n + 1] = x
      /\ \A i \in 1 .. n : t[i] = s[i]
  BY <1>1
<1> HIDE DEF t, n
<1>3. \A i \in 1 .. n : t[i].depth \in 1 .. d
  BY <1>1, <1>2 DEF Layered
<1>4. \A i, j \in 1 .. n : i < j => t[i].depth <= t[j].depth
  BY <1>1, <1>2 DEF Layered
<1>5. \A i \in 1 .. n + 1 : t[i].depth \in 1 .. d
  BY <1>1, <1>2, <1>3
<1>6. \A i, j \in 1 .. n + 1 : i < j => t[i].depth <= t[j].depth
  BY <1>1, <1>2, <1>3, <1>4
<1> QED BY <1>2, <1>5, <1>6 DEF Layered, t

(* The first k elements of a sequence, and the others.                     *)
LEMMA Halves ==
  ASSUME NEW S, NEW s \in Seq(S), NEW k \in 0 .. Len(s)
  PROVE  /\ SubSeq(s, 1, k) \in Seq(S) /\ Len(SubSeq(s, 1, k)) = k
         /\ \A i \in 1 .. k : SubSeq(s, 1, k)[i] = s[i]
         /\ SubSeq(s, k + 1, Len(s)) \in Seq(S)
         /\ Len(SubSeq(s, k + 1, Len(s))) = Len(s) - k
         /\ \A i \in 1 .. Len(s) - k : SubSeq(s, k + 1, Len(s))[i] = s[k + i]
<1> DEFINE n == Len(s)
           m == k + 1
           hi == SubSeq(s, m, n)
           lo == SubSeq(s, 1, k)
<1>1. n \in Nat /\ k \in Nat /\ k <= n /\ \A i \in 1 .. n : s[i] \in S
  OBVIOUS
<1>2. m \in Int /\ n \in Int /\ 1 \in Int /\ k \in Int
      /\ (\A i \in m .. n : s[i] \in S) /\ (\A i \in 1 .. k : s[i] \in S)
  BY <1>1
<1>3. m = k + 1
  OBVIOUS
<1>4. hi \in Seq(S) /\ Len(hi) = (IF m <= n THEN n - m + 1 ELSE 0)
      /\ \A i \in 1 .. n - m + 1 : hi[i] = s[m + i - 1]
  <2> HIDE DEF n, m
  <2> QED BY <1>2, SubSeqProperties
<1>5. lo \in Seq(S) /\ Len(lo) = (IF 1 <= k THEN k - 1 + 1 ELSE 0)
      /\ \A i \in 1 .. k - 1 + 1 : lo[i] = s[1 + i - 1]
  <2> HIDE DEF n, m, hi
  <2> QED BY <1>2, SubSeqProperties
<1> HIDE DEF lo, hi, m, n
<1>6. Len(hi) = n - k /\ Len(lo) = k
  BY <1>1, <1>3, <1>4, <1>5
<1>7. ASSUME NEW i \in 1 .. n - k PROVE hi[i] = s[k + i]
  <2>1. i \in 1 .. n - m + 1 /\ m + i - 1 = k + i
    BY <1>1, <1>3
  <2> QED BY <2>1, <1>4
<1>8. ASSUME NEW i \in 1 .. k PROVE lo[i] = s[i]
  <2>1. i \in 1 .. k - 1 + 1 /\ 1 + i - 1 = i
    BY <1>1
  <2> QED BY <2>1, <1>5
<1> QED BY <1>4, <1>5, <1>6, <1>7, <1>8 DEF lo, hi, m, n

LEMMA LayeredCut ==
  ASSUME NEW d \in Nat, NEW s \in Layered(d), NEW k \in 1 .. Len(s)
  PROVE  RemoveAt(s, k) \in Layered(d)
<1> DEFINE t == RemoveAt(s, k)
           n == Len(s)
           was == [i \in 1 .. n - 1 |-> IF i < k THEN i ELSE i + 1]
<1>1. s \in Seq(Save) /\ n \in Nat /\ DOMAIN s = 1 .. n
  BY DEF Layered
<1> DEFINE lo == SubSeq(s, 1, k - 1)
           hi == SubSeq(s, k + 1, n)
<1>a. k \in Nat /\ k >= 1 /\ k <= n
  BY <1>1
<1>b. /\ lo \in Seq(Save) /\ Len(lo) = k - 1
      /\ \A i \in 1 .. k - 1 : lo[i] = s[i]
  BY <1>1, <1>a
<1>c. /\ hi \in Seq(Save) /\ Len(hi) = n - k
      /\ \A i \in 1 .. n - k : hi[i] = s[k + i]
  <2>1. k \in 0 .. n
    BY <1>a, <1>1
  <2> QED BY <1>1, <2>1, Halves
<1>d. t = lo \o hi
  BY DEF RemoveAt
<1> HIDE DEF lo, hi, t
<1>2. t \in Seq(Save) /\ Len(t) = n - 1 /\ DOMAIN t = 1 .. n - 1
  BY <1>a, <1>b, <1>c, <1>d, <1>1
<1>3. ASSUME NEW i \in 1 .. n - 1 PROVE t[i] = s[was[i]]
  <2>1. CASE i < k
    <3>1. i \in 1 .. Len(lo) /\ i \in 1 .. k - 1
      BY <2>1, <1>1, <1>a, <1>b
    <3>2. t[i] = lo[i]
      BY <3>1, <1>b, <1>c, <1>d, <1>1, <1>a
    <3> QED BY <2>1, <3>1, <3>2, <1>b
  <2>2. CASE ~ (i < k)
    <3>1. i - (k - 1) \in 1 .. n - k /\ k + (i - (k - 1)) = i + 1
      BY <2>2, <1>1, <1>a
    <3>2. t[i] = hi[i - (k - 1)]
      BY <3>1, <2>2, <1>b, <1>c, <1>d, <1>1, <1>a
    <3> QED BY <2>2, <3>1, <3>2, <1>c
  <2> QED BY <2>1, <2>2
<1>4. /\ \A i \in 1 .. n - 1 : was[i] \in 1 .. n
      /\ \A i, j \in 1 .. n - 1 : i < j => was[i] < was[j]
  BY <1>1
<1> HIDE DEF t, n, was
<1>5. \A i \in 1 .. n - 1 : t[i].depth \in 1 .. d
  BY <1>1, <1>3, <1>4 DEF Layered
<1>6. \A i, j \in 1 .. n - 1 : i < j => t[i].depth <= t[j].depth
  BY <1>1, <1>3, <1>4 DEF Layered
<1> QED BY <1>2, <1>5, <1>6 DEF Layered, t

(* `unset` finds a save of the name, or none.                              *)
LEMMA UpvarSaveIs ==
  ASSUME NEW M \in Stores(Seq(Save)), NEW n \in Names, UpvarSave(M, n) # 0
  PROVE  /\ UpvarSave(M, n) \in 1 .. Len(M.saves)
         /\ M.saves[UpvarSave(M, n)].key = n
<1> DEFINE I == {i \in 1 .. Len(M.saves) : M.saves[i].key = n}
           newest == SelectLastInSeq(M.saves, LAMBDA s : s.key = n)
<1>1. M.saves \in Seq(Save) /\ Len(M.saves) \in Nat
  BY DEF Stores
<1>2. newest = IF I # {} THEN Max(I) ELSE 0
  BY DEF SelectLastInSeq
<1>3. UpvarSave(M, n) = newest
  BY DEF UpvarSave
<1>4. I # {}
  BY <1>2, <1>3
<1>5. \E m \in I : \A y \in I : m >= y
  BY <1>1, <1>4, Places!HighestOf
<1>6. Max(I) \in I
  BY <1>5 DEF Max
<1> QED BY <1>2, <1>3, <1>4, <1>6

-----------------------------------------------------------------------------
(* What a call leaves behind.                                              *)

(* scope_leave puts back the saves above place k and drops them: they are  *)
(* those of the call that returns, and the one below is not.               *)
LeavesAt(M, k) ==
  /\ \A i \in k + 1 .. Len(M.saves) : M.saves[i].depth = func_depth
  /\ k > 0 => M.saves[k].depth # func_depth
  /\ scope_leave(M) =
       [Restores!Right(SubSeq(M.saves, k + 1, Len(M.saves)), M)
          EXCEPT !.saves = SubSeq(M.saves, 1, k)]

LEMMA LeaveSplits ==
  ASSUME NEW M \in Stores(Seq(Save))
  PROVE  \E k \in 0 .. Len(M.saves) : LeavesAt(M, k)
<1> DEFINE n == Len(M.saves)
           mine == {i \in DOMAIN M.saves : \A j \in i .. n : M.saves[j].depth = func_depth}
           U == {i \in 0 .. n : \A j \in i + 1 .. n : M.saves[j].depth = func_depth}
<1>1. M.saves \in Seq(Save) /\ n \in Nat /\ DOMAIN M.saves = 1 .. n
  BY DEF Stores
<1>2. n \in U
  BY <1>1
<1>3. U \subseteq Nat
  OBVIOUS
<1>4. PICK k \in U : \A y \in U : k <= y
  BY <1>2, <1>3, Places!LowestOf
<1>5. k \in 0 .. n /\ k \in Nat
  BY <1>1
<1>6. mine = k + 1 .. n
  <2>1. ASSUME NEW i \in k + 1 .. n PROVE i \in mine
    BY <1>1, <1>5
  <2>2. ASSUME NEW i \in mine PROVE i \in k + 1 .. n
    <3>1. i \in 1 .. n
      BY <1>1
    <3>2. i - 1 \in 0 .. n /\ i - 1 + 1 = i
      BY <1>1, <3>1
    <3>3. i - 1 \in U
      BY <3>2
    <3>4. k <= i - 1
      BY <1>4, <3>3
    <3> QED BY <1>5, <3>1, <3>4
  <2> QED BY <2>1, <2>2
<1>7. Cardinality(mine) = n - k
  <2> DEFINE low == k + 1
  <2>1. low \in Int /\ n \in Int
    BY <1>1, <1>5
  <2> HIDE DEF mine, U, n, low
  <2>2. Cardinality(low .. n) = IF low > n THEN 0 ELSE n - low + 1
    BY <2>1, FS_Interval
  <2>3. Cardinality(mine) = IF low > n THEN 0 ELSE n - low + 1
    BY <2>2, <1>6 DEF low
  <2> QED BY <2>3, <1>1, <1>5 DEF low
<1>8. k > 0 => M.saves[k].depth # func_depth
  <2>1. SUFFICES ASSUME k > 0, M.saves[k].depth = func_depth PROVE FALSE
    OBVIOUS
  <2>2. k - 1 \in 0 .. n /\ k - 1 + 1 = k
    BY <1>1, <1>5, <2>1
  <2>3. \A j \in k .. n : M.saves[j].depth = func_depth
    BY <1>1, <1>5, <2>1
  <2>4. k - 1 \in U
    BY <2>2, <2>3
  <2> QED BY <1>4, <1>5, <2>4
<1> DEFINE back(low) == FoldRight(LAMBDA s, m : restore_one(m, s), SubSeq(M.saves, low + 1, n), M)
<1>9. scope_leave(M) = [back(n - Cardinality(mine)) EXCEPT !.saves = SubSeq(M.saves, 1, n - Cardinality(mine))]
  BY DEF scope_leave
<1>10. n - Cardinality(mine) = k
  BY <1>1, <1>5, <1>7
<1>11. back(k) = Restores!Right(SubSeq(M.saves, k + 1, n), M)
  BY DEF Restores!Right, Restores!FoldsDown, Restores!Bottom, FoldRight, MapThenFoldSet, Min
<1> HIDE DEF back, mine
<1>12. scope_leave(M) = [Restores!Right(SubSeq(M.saves, k + 1, n), M)
                           EXCEPT !.saves = SubSeq(M.saves, 1, k)]
  BY <1>9, <1>10, <1>11
<1> QED BY <1>5, <1>8, <1>12 DEF LeavesAt

LEMMA LeaveTypes ==
  ASSUME NEW d \in Nat, func_depth = d + 1, NEW M \in Stores(Layered(d + 1))
  PROVE  scope_leave(M) \in Stores(Layered(d))
<1> DEFINE s == M.saves
           n == Len(s)
<1>1. s \in Layered(d + 1) /\ s \in Seq(Save) /\ n \in Nat /\ M \in Stores(Seq(Save))
  BY DEF Layered, Stores
<1>2. PICK k \in 0 .. n : LeavesAt(M, k)
  BY <1>1, LeaveSplits
<1> DEFINE lo == SubSeq(s, 1, k)
           hi == SubSeq(s, k + 1, n)
           back == Restores!Right(hi, M)
<1> HIDE DEF s, n
<1>3. /\ lo \in Seq(Save) /\ Len(lo) = k /\ \A i \in 1 .. k : lo[i] = s[i]
      /\ hi \in Seq(Save)
  BY <1>1, <1>2, Halves DEF n
<1> HIDE DEF lo, hi
<1>4. back \in Stores(Layered(d + 1))
  <2>1. restore_temp_assigns(M, hi) \in Stores(Layered(d + 1))
    BY <1>3, RestoreTypes
  <2> QED BY <2>1, RestoreLoop
<1> HIDE DEF back
<1>5. scope_leave(M) = [back EXCEPT !.saves = lo]
  BY <1>2 DEF LeavesAt, back, hi, lo, s, n
<1>6. [back EXCEPT !.saves = lo] = [env |-> back.env, saves |-> lo]
  BY <1>4 DEF Stores
<1>7. k \in Nat /\ k <= n /\ DOMAIN lo = 1 .. k /\ DOMAIN s = 1 .. n
  BY <1>1, <1>2, <1>3 DEF n
<1>8. \A i \in 1 .. k : s[i].depth \in 1 .. d + 1 /\ s[i].depth <= s[k].depth
  <2>1. \A i \in 1 .. k : s[i].depth \in 1 .. d + 1
    BY <1>1, <1>7 DEF Layered
  <2>2. \A i \in 1 .. k : i < k => s[i].depth <= s[k].depth
    BY <1>1, <1>7 DEF Layered
  <2>3. \A i \in 1 .. k : i < k \/ i = k
    BY <1>7
  <2> QED BY <2>1, <2>2, <2>3
<1>9. k > 0 => s[k].depth # d + 1
  BY <1>2 DEF LeavesAt, s
<1>10. \A i \in 1 .. k : s[i].depth \in 1 .. d
  <2>1. ASSUME NEW i \in 1 .. k PROVE s[i].depth \in 1 .. d
    <3>1. k \in 1 .. k /\ k > 0
      BY <1>7
    <3>2. s[k].depth \in 1 .. d + 1 /\ s[k].depth # d + 1
      BY <3>1, <1>8, <1>9
    <3>3. s[i].depth \in 1 .. d + 1 /\ s[i].depth <= s[k].depth
      BY <1>8
    <3> QED BY <3>2, <3>3
  <2> QED BY <2>1
<1>11. \A i \in 1 .. k : lo[i].depth \in 1 .. d
  BY <1>3, <1>10
<1>12. \A i, j \in 1 .. k : i < j => lo[i].depth <= lo[j].depth
  BY <1>1, <1>3, <1>7 DEF Layered
<1>13. lo \in Layered(d)
  BY <1>3, <1>7, <1>11, <1>12 DEF Layered
<1> QED BY <1>4, <1>5, <1>6, <1>13 DEF Stores

-----------------------------------------------------------------------------
(* What the builtins make of the store.                                    *)

LEMMA LocalTypes ==
  ASSUME NEW d \in Nat, d >= 1, func_depth = d, NEW M \in Stores(Layered(d)), NEW n \in Names,
         NEW v \in Values
  PROVE  /\ local_name(M, n) \in Stores(Layered(d))
         /\ local_value(M, n, v) \in Stores(Layered(d))
<1> DEFINE T == scope_save(M, n)
           c == scope_save_capture(M, n, d)
<1>1. M.saves \in Layered(d) /\ M.saves \in Seq(Save) /\ M \in Stores(Seq(Save))
  BY DEF Layered, Stores
<1>2. c \in Save /\ c.depth = d
  BY <1>1, CaptureSave
<1>3. T = [M EXCEPT !.saves = Append(M.saves, c)]
  BY DEF scope_save
<1> HIDE DEF c
<1>4. Append(M.saves, c) \in Layered(d)
  BY <1>1, <1>2, LayeredPush
<1>5. T \in Stores(Layered(d))
  BY <1>3, <1>4 DEF Stores
<1> HIDE DEF T
<1>6. Written(T, n, Empty) \in Stores(Layered(d))
  BY <1>5, SetPlain, VarScopeAssumption
<1>7. env_set(T, n, v, AllExport) \in Stores(Layered(d))
  BY <1>5, SetStore, VarScopeAssumption
<1> QED BY <1>6, <1>7 DEF local_name, local_value, Written, T

(* Export attributes.                                                      *)
LEMMA Remarked ==
  ASSUME NEW r \in Record
  PROVE  /\ r.there => [r EXCEPT !.exported = TRUE] = env_create(r.value, TRUE)
         /\ r.there => [r EXCEPT !.exported = FALSE] = env_create(r.value, FALSE)
         /\ ~ r.there => [r EXCEPT !.exported = FALSE] = Absent
<1> DEFINE yes == [r EXCEPT !.exported = TRUE]
           no == [r EXCEPT !.exported = FALSE]
<1>1. CASE r \in [there : {TRUE}, value : Values \cup {NoValue}, exported : BOOLEAN]
  <2>1. yes \in [there : {TRUE}, value : {r.value}, exported : {TRUE}]
    BY <1>1
  <2>2. no \in [there : {TRUE}, value : {r.value}, exported : {FALSE}]
    BY <1>1
  <2>3. r.there
    BY <1>1
  <2> HIDE DEF yes, no
  <2>4. yes = env_create(r.value, TRUE)
    BY <2>1 DEF env_create
  <2>5. no = env_create(r.value, FALSE)
    BY <2>2 DEF env_create
  <2> QED BY <2>3, <2>4, <2>5 DEF yes, no
<1>2. CASE r = Absent
  <2>1. r \in [there : {FALSE}, value : {NoValue}, exported : {FALSE}]
    BY <1>2 DEF Absent
  <2>2. no \in [there : {FALSE}, value : {NoValue}, exported : {FALSE}]
    BY <2>1
  <2>3. ~ r.there
    BY <2>1
  <2> HIDE DEF yes, no
  <2>4. no = Absent
    BY <2>2 DEF Absent
  <2> QED BY <2>3, <2>4 DEF no
<1> QED BY <1>1, <1>2 DEF Record

LEMMA ExportStore ==
  ASSUME NEW S, NEW M \in Stores(S), NEW n \in Names, M.env[n].there
  PROVE  /\ [M EXCEPT !.env[n].exported = TRUE] \in Stores(S)
         /\ \A m \in Names \ {n} : [M EXCEPT !.env[n].exported = TRUE].env[m] = M.env[m]
         /\ [M EXCEPT !.env[n].exported = TRUE].env[n].value = M.env[n].value
<1>1. M.env \in [Names -> Record] /\ M.saves \in S /\ M.env[n] \in Record
  BY DEF Stores
<1> DEFINE r == env_create(M.env[n].value, TRUE)
           e == [M.env EXCEPT ![n] = r]
<1>2. r \in Record
  BY <1>1, RecordHas DEF env_create, Record
<1>3. [M EXCEPT !.env[n].exported = TRUE] = [M EXCEPT !.env = e]
  BY <1>1, Remarked DEF Stores
<1>6. r.value = M.env[n].value
  BY DEF env_create
<1> HIDE DEF r
<1>4. e \in [Names -> Record] /\ (\A m \in Names \ {n} : e[m] = M.env[m]) /\ e[n] = r
  BY <1>1, <1>2
<1> HIDE DEF e
<1>5. [M EXCEPT !.env = e] = [env |-> e, saves |-> M.saves]
  BY DEF Stores
<1> QED BY <1>1, <1>3, <1>4, <1>5, <1>6 DEF Stores

LEMMA UnexportStore ==
  ASSUME NEW S, NEW M \in Stores(S), NEW n \in Names
  PROVE  /\ env_unexport(M, n) \in Stores(S)
         /\ \A m \in Names \ {n} : env_unexport(M, n).env[m] = M.env[m]
         /\ env_unexport(M, n).env[n].value = M.env[n].value
<1>1. M.env \in [Names -> Record] /\ M.saves \in S /\ M.env[n] \in Record
  BY DEF Stores
<1> DEFINE r == [M.env[n] EXCEPT !.exported = FALSE]
           e == [M.env EXCEPT ![n] = r]
<1>2. r \in Record
  <2>1. M.env[n].there \in BOOLEAN /\ M.env[n].value \in Values \cup {NoValue}
    BY <1>1, RecordHas
  <2>2. Absent \in Record /\ env_create(M.env[n].value, FALSE) \in Record
    BY <2>1 DEF Record, env_create
  <2>3. r = Absent \/ r = env_create(M.env[n].value, FALSE)
    BY <1>1, <2>1, Remarked
  <2> QED BY <2>2, <2>3
<1>3. env_unexport(M, n) = [M EXCEPT !.env = e]
  BY <1>1 DEF Stores, env_unexport
<1>6. r.value = M.env[n].value
  <2>1. M.env[n] = Absent \/ M.env[n] \in [there : {TRUE}, value : Values \cup {NoValue}, exported : BOOLEAN]
    BY <1>1 DEF Record
  <2> QED BY <2>1 DEF Absent
<1> HIDE DEF r
<1>4. e \in [Names -> Record] /\ (\A m \in Names \ {n} : e[m] = M.env[m]) /\ e[n] = r
  BY <1>1, <1>2
<1> HIDE DEF e
<1>5. [M EXCEPT !.env = e] = [env |-> e, saves |-> M.saves]
  BY DEF Stores
<1> QED BY <1>1, <1>3, <1>4, <1>5, <1>6 DEF Stores

LEMMA ExportTypes ==
  ASSUME NEW S, NEW M \in Stores(S), NEW n \in Names, NEW v \in Values
  PROVE  /\ export_name_only(M, n) \in Stores(S)
         /\ export_value(M, n, v) \in Stores(S)
         /\ env_unexport(M, n) \in Stores(S)
         /\ env_unexport(env_set(M, n, v, FALSE), n) \in Stores(S)
<1>1. export_name_only(M, n) \in Stores(S)
  <2>1. CASE M.env[n].there
    BY <2>1, ExportStore DEF export_name_only
  <2>2. CASE ~ M.env[n].there
    <3>1. env_set(M, n, NoValue, TRUE) \in Stores(S)
      BY SetExported DEF Exporting
    <3> QED BY <2>2, <3>1 DEF export_name_only
  <2> QED BY <2>1, <2>2
<1>2. Exporting(M, n, v) \in Stores(S) /\ Written(M, n, v) \in Stores(S)
  BY SetExported, SetPlain
<1>3. env_unexport(M, n) \in Stores(S) /\ env_unexport(Written(M, n, v), n) \in Stores(S)
  BY <1>2, UnexportStore
<1> QED BY <1>1, <1>2, <1>3 DEF Written, Exporting, export_value

LEMMA PopTypes ==
  ASSUME NEW d \in Nat, NEW M \in Stores(Layered(d)), NEW n \in Names, UpvarSave(M, n) # 0
  PROVE  /\ scope_pop_upvar(M, n) \in Stores(Layered(d))
         /\ scope_pop_upvar(M, n).env = restore_one(M, M.saves[UpvarSave(M, n)]).env
<1> DEFINE i == UpvarSave(M, n)
           back == restore_one(M, M.saves[i])
<1>1. M.saves \in Layered(d) /\ M.saves \in Seq(Save) /\ M \in Stores(Seq(Save))
  BY DEF Layered, Stores
<1>2. i \in 1 .. Len(M.saves)
  BY <1>1, UpvarSaveIs
<1>3. scope_pop_upvar(M, n) = [back EXCEPT !.saves = RemoveAt(@, i)]
  BY DEF scope_pop_upvar
<1> HIDE DEF i
<1>4. M.saves[i] \in Save
  BY <1>1, <1>2
<1>5. back \in Stores(Layered(d)) /\ back.saves = M.saves
  BY <1>4, RestoreStore
<1>6. RemoveAt(M.saves, i) \in Layered(d)
  BY <1>1, <1>2, LayeredCut
<1> HIDE DEF back
<1> QED BY <1>3, <1>5, <1>6 DEF Stores, back, i

LEMMA UnsetTypes ==
  ASSUME NEW d \in Nat, NEW M \in Stores(Layered(d)), NEW n \in Names
  PROVE  try_unset(M, n) \in Stores(Layered(d))
BY PopTypes, UnsetStore DEF try_unset

-----------------------------------------------------------------------------
(* The table is well formed and its saves are stacked.                     *)

Sound == /\ env \in [Names -> Record]
         /\ local_saves \in Layered(func_depth)
         /\ calls \in Seq(Seq(Save))
         /\ readonly_vars \subseteq ReadonlyNames

LEMMA SoundStore ==
  ASSUME Sound
  PROVE  /\ Store \in Stores(Layered(func_depth)) /\ Store \in Stores({local_saves})
         /\ Store \in Stores(Seq(Save)) /\ func_depth \in Nat
BY DEF Sound, Store, Stores, Layered, func_depth

LEMMA PrefixTypes ==
  ASSUME Sound, NEW prefix \in PreAssigns
  PROVE  /\ Prefixed(prefix).store \in Stores(Layered(func_depth))
         /\ Prefixed(prefix).saved \in Seq(Save)
<1> DEFINE staged == expand_assignments(Store, prefix)
           S == Layered(func_depth)
<1>1. prefix \in Seq(Assignment)
  BY VarScopeAssumption DEF Assignment
<1>2. Store \in Stores(S)
  BY SoundStore
<1> HIDE DEF S
<1>3. staged.store \in Stores(S) /\ staged.pre \in Seq(Staged)
  BY <1>1, <1>2, StageTypes
<1>4. Prefixed(prefix) = apply_temp_assigns(staged.store, staged.pre)
  BY DEF Prefixed
<1> HIDE DEF staged
<1> QED BY <1>3, <1>4, PlaceTypes DEF S

(* A builtin leaves the saves as it made them.                             *)
LEMMA BuiltinSound ==
  ASSUME Sound, NEW prefix \in PreAssigns, NEW after \in Stores(Layered(func_depth)),
         execute_builtin(prefix, after)
  PROVE  /\ env' \in [Names -> Record] /\ local_saves' \in Layered(func_depth)
         /\ calls' = calls
<1> DEFINE S == Layered(func_depth)
           back == restore_temp_assigns(after, Prefixed(prefix).saved)
<1>1. back \in Stores(S)
  BY PrefixTypes, RestoreTypes
<1>2. env' = back.env /\ local_saves' = back.saves /\ calls' = calls
  BY DEF execute_builtin, Becomes
<1> HIDE DEF S, back
<1> QED BY <1>1, <1>2 DEF Stores, S

LEMMA SoundStep ==
  ASSUME Sound, [Next]_vars
  PROVE  Sound'
<1> DEFINE d == func_depth
<1>0. d \in Nat
  BY SoundStore
<1>1. SUFFICES /\ env' \in [Names -> Record]
               /\ local_saves' \in Layered(func_depth')
               /\ calls' \in Seq(Seq(Save))
               /\ readonly_vars' \subseteq ReadonlyNames
  BY DEF Sound, Layered
<1>2. ASSUME NEW list \in Lists, handle_assign_only(list) PROVE Sound'
  <2> DEFINE staged == expand_assignments(Store, list)
             M == apply_pre_assigns(staged.store, staged.pre)
             S == Layered(d)
  <2>1. list \in Seq(Assignment)
    BY VarScopeAssumption DEF Assignment
  <2>2. staged.store \in Stores(S) /\ staged.pre \in Seq(Staged)
    BY <2>1, SoundStore, StageTypes
  <2>3. M \in Stores(S)
    BY <2>2, AssignTypes
  <2>4. env' = M.env /\ local_saves' = M.saves /\ UNCHANGED <<readonly_vars, calls>>
    BY <1>2 DEF handle_assign_only, Becomes, Assigned
  <2> HIDE DEF M, S
  <2>5. env' \in [Names -> Record] /\ local_saves' \in S
    BY <2>3, <2>4 DEF Stores
  <2> QED BY <2>4, <2>5 DEF Sound, S, func_depth, Layered
<1>3. ASSUME NEW prefix \in PreAssigns, handle_func_call(prefix) PROVE Sound'
  <2> DEFINE P == Prefixed(prefix)
  <2>1. P.store \in Stores(Layered(d)) /\ P.saved \in Seq(Save)
    BY PrefixTypes
  <2>2. /\ env' = P.store.env /\ local_saves' = P.store.saves
        /\ calls' = Append(calls, P.saved) /\ readonly_vars' = readonly_vars
    BY <1>3 DEF handle_func_call, Becomes
  <2> HIDE DEF P
  <2>3. env' \in [Names -> Record] /\ local_saves' \in Layered(d)
    BY <2>1, <2>2 DEF Stores
  <2>4. calls' \in Seq(Seq(Save)) /\ Len(calls') = d + 1
    BY <2>1, <2>2 DEF Sound, func_depth
  <2>5. local_saves' \in Layered(d + 1)
    BY <2>3, <1>0, LayeredWider
  <2> QED BY <2>2, <2>3, <2>4, <2>5 DEF Sound, func_depth, Layered
<1>4. ASSUME Return PROVE Sound'
  <2> DEFINE L == scope_leave(Store)
             B == restore_temp_assigns(L, Last(calls))
             c == d - 1
  <2>1. d = c + 1 /\ c \in Nat /\ calls \in Seq(Seq(Save)) /\ Len(calls) = d
    BY <1>0, <1>4 DEF Return, Sound, func_depth
  <2> HIDE DEF c
  <2>2. func_depth = c + 1 /\ Store \in Stores(Layered(c + 1))
    BY <2>1, SoundStore
  <2>3. L \in Stores(Layered(c))
    BY <2>1, <2>2, LeaveTypes
  <2>4. Last(calls) \in Seq(Save) /\ Front(calls) \in Seq(Seq(Save)) /\ Len(Front(calls)) = c
    BY <2>1 DEF Last, Front
  <2> HIDE DEF L
  <2>5. B \in Stores(Layered(c))
    BY <2>3, <2>4, RestoreTypes
  <2>6. /\ env' = B.env /\ local_saves' = B.saves /\ calls' = Front(calls)
        /\ readonly_vars' = readonly_vars
    BY <1>4 DEF Return, Becomes, L
  <2> HIDE DEF B
  <2>7. env' \in [Names -> Record] /\ local_saves' \in Layered(c)
    BY <2>5, <2>6 DEF Stores
  <2>8. calls' \in Seq(Seq(Save)) /\ Len(calls') = c
    BY <2>4, <2>6
  <2> QED BY <2>6, <2>7, <2>8 DEF Sound, func_depth, Layered
<1>5. ASSUME NEW prefix \in PreAssigns, Builtin(prefix) PROVE Sound'
  <2> DEFINE M == Prefixed(prefix).store
  <2>1. M \in Stores(Layered(d))
    BY PrefixTypes
  <2>2. SUFFICES /\ \E after \in Stores(Layered(d)) : execute_builtin(prefix, after)
                 /\ readonly_vars' \subseteq ReadonlyNames
    <3>1. SUFFICES ASSUME NEW after \in Stores(Layered(d)), execute_builtin(prefix, after),
                          readonly_vars' \subseteq ReadonlyNames
                   PROVE  Sound'
      BY <2>2
    <3>2. env' \in [Names -> Record] /\ local_saves' \in Layered(d) /\ calls' = calls
      BY <3>1, BuiltinSound
    <3> QED BY <3>1, <3>2 DEF Sound, func_depth, Layered
  <2> HIDE DEF M
  <2>3. ASSUME NEW n \in Names, builtin_local(prefix, n)
        PROVE  /\ \E after \in Stores(Layered(d)) : execute_builtin(prefix, after)
               /\ readonly_vars' \subseteq ReadonlyNames
    <3>1. d >= 1
      BY <1>0, <2>3 DEF builtin_local
    <3>2. local_name(M, n) \in Stores(Layered(d))
          /\ \A v \in Values : local_value(M, n, v) \in Stores(Layered(d))
      BY <1>0, <2>1, <3>1, LocalTypes, VarScopeAssumption
    <3>3. \/ execute_builtin(prefix, local_name(M, n))
          \/ \E v \in Values : execute_builtin(prefix, local_value(M, n, v))
      BY <2>3 DEF builtin_local, M
    <3>4. readonly_vars' = readonly_vars
      BY <2>3 DEF builtin_local
    <3> QED BY <3>2, <3>3, <3>4 DEF Sound
  <2>4. ASSUME NEW n \in Names, builtin_unset(prefix, n)
        PROVE  /\ \E after \in Stores(Layered(d)) : execute_builtin(prefix, after)
               /\ readonly_vars' \subseteq ReadonlyNames
    <3>1. try_unset(M, n) \in Stores(Layered(d))
      BY <1>0, <2>1, UnsetTypes
    <3>2. execute_builtin(prefix, try_unset(M, n)) /\ readonly_vars' = readonly_vars
      BY <2>4 DEF builtin_unset, M
    <3> QED BY <3>1, <3>2 DEF Sound
  <2>5. ASSUME NEW n \in ExportNames, builtin_export(prefix, n)
        PROVE  /\ \E after \in Stores(Layered(d)) : execute_builtin(prefix, after)
               /\ readonly_vars' \subseteq ReadonlyNames
    <3>1. n \in Names
      BY VarScopeAssumption
    <3>2. /\ export_name_only(M, n) \in Stores(Layered(d))
          /\ env_unexport(M, n) \in Stores(Layered(d))
          /\ \A v \in Values : /\ export_value(M, n, v) \in Stores(Layered(d))
                               /\ env_unexport(env_set(M, n, v, FALSE), n) \in Stores(Layered(d))
      BY <2>1, <3>1, ExportTypes, VarScopeAssumption
    <3>3. \/ execute_builtin(prefix, export_name_only(M, n))
          \/ \E v \in Values : execute_builtin(prefix, export_value(M, n, v))
          \/ execute_builtin(prefix, env_unexport(M, n))
          \/ \E v \in Values : execute_builtin(prefix, env_unexport(env_set(M, n, v, FALSE), n))
      BY <2>5 DEF builtin_export, M
    <3>4. readonly_vars' = readonly_vars
      BY <2>5 DEF builtin_export
    <3> QED BY <3>2, <3>3, <3>4 DEF Sound
  <2>6. ASSUME NEW n \in ReadonlyNames, builtin_readonly(prefix, n)
        PROVE  /\ \E after \in Stores(Layered(d)) : execute_builtin(prefix, after)
               /\ readonly_vars' \subseteq ReadonlyNames
    <3>1. n \in Names
      BY VarScopeAssumption
    <3>2. \A v \in Values : Written(M, n, v) \in Stores(Layered(d))
      BY <2>1, <3>1, SetPlain
    <3>3. \/ execute_builtin(prefix, M)
          \/ \E v \in Values : execute_builtin(prefix, IF n \in readonly_vars THEN M
                                                       ELSE Written(M, n, v))
      BY <2>6 DEF builtin_readonly, M, Written
    <3>4. readonly_vars' = readonly_vars \cup {n}
      BY <2>6 DEF builtin_readonly
    <3> QED BY <2>1, <3>2, <3>3, <3>4 DEF Sound
  <2> QED BY <1>5, <2>3, <2>4, <2>5, <2>6 DEF Builtin
<1>6. CASE UNCHANGED vars
  BY <1>6 DEF vars, Sound, func_depth, Layered
<1> QED BY <1>1, <1>2, <1>3, <1>4, <1>5, <1>6 DEF Next, Sound

LEMMA SoundAlways == Spec => []Sound
<1>1. Init => Sound
  BY LayeredEmpty DEF Init, Sound, Record, Layered, func_depth
<1>2. Sound /\ [Next]_vars => Sound'
  BY SoundStep
<1> QED BY <1>1, <1>2, PTL DEF Spec

-----------------------------------------------------------------------------
(* An exported variable stays in the environment of the child processes.   *)

(* Stores that show n to the child processes, and saves that do not take   *)
(* it out of the table.                                                    *)
Shown(n) == {M \in Stores(Seq(Save)) : n \in get_envp(M.env)}
Known(n) == {s \in Save : s.key = n => s.existed}

LEMMA ShownThere ==
  ASSUME NEW n \in Names, NEW M \in Shown(n)
  PROVE  /\ M \in Stores(Seq(Save)) /\ M.env[n].there /\ M.env[n].exported
         /\ M.env[n].value \in Values
<1>1. M \in Stores(Seq(Save)) /\ M.env[n].exported /\ M.env[n].value # NoValue
  BY DEF Shown, get_envp
<1>2. M.env[n] \in Record
  BY <1>1 DEF Stores
<1>3. M.env[n] # Absent
  BY <1>1 DEF Absent
<1> QED BY <1>1, <1>2, <1>3, RecordHas

(* A store that has n as a store that shows it has.                        *)
LEMMA ShownAs ==
  ASSUME NEW n \in Names, NEW M \in Stores(Seq(Save)), NEW N \in Shown(n), M.env[n] = N.env[n]
  PROVE  M \in Shown(n)
BY DEF Shown, get_envp

LEMMA ShownSet ==
  ASSUME NEW n \in Names, NEW M \in Shown(n), NEW k \in Names, NEW v \in Values,
         NEW x \in BOOLEAN
  PROVE  env_set(M, k, v, x) \in Shown(n)
<1>1. M \in Stores(Seq(Save)) /\ M.env[n].exported /\ M.env \in [Names -> Record]
  BY ShownThere DEF Stores
<1> DEFINE N == env_set(M, k, v, x)
<1>2. N \in Stores(Seq(Save))
      /\ N.env = [M.env EXCEPT ![k] = env_create(v, M.env[k].exported \/ x)]
  BY <1>1, SetStore
<1> HIDE DEF N
<1>3. CASE k = n
  <2>1. (M.env[n].exported \/ x) = TRUE
    BY <1>1
  <2>2. N.env[n] = env_create(v, TRUE)
    BY <1>1, <1>2, <1>3, <2>1
  <2>3. N.env[n].exported /\ N.env[n].value = v
    BY <2>2 DEF env_create
  <2> QED BY <1>2, <2>3, VarScopeAssumption DEF Shown, get_envp, N
<1>4. CASE k # n
  <2>1. N.env[n] = M.env[n]
    BY <1>1, <1>2, <1>4
  <2> QED BY <1>2, <2>1, ShownAs DEF N
<1> QED BY <1>3, <1>4

LEMMA ShownWritten ==
  ASSUME NEW n \in Names, NEW M \in Shown(n), NEW k \in Names, NEW v \in Values
  PROVE  Written(M, k, v) \in Shown(n)
<1>1. M \in Stores(Seq(Save)) /\ M.env[n].exported /\ M.env \in [Names -> Record]
  BY ShownThere DEF Stores
<1> DEFINE N == Written(M, k, v)
<1>2. N \in Stores(Seq(Save))
      /\ N.env = [M.env EXCEPT ![k] = env_create(v, M.env[k].exported)]
  BY <1>1, SetPlain
<1> HIDE DEF N
<1>3. CASE k = n
  <2>1. N.env[n] = env_create(v, M.env[n].exported)
    BY <1>1, <1>2, <1>3
  <2>2. N.env[n].exported /\ N.env[n].value = v
    BY <2>1, <1>1 DEF env_create
  <2> QED BY <1>2, <2>2, VarScopeAssumption DEF Shown, get_envp, N
<1>4. CASE k # n
  <2>1. N.env[n] = M.env[n]
    BY <1>1, <1>2, <1>4
  <2> QED BY <1>2, <2>1, ShownAs DEF N
<1> QED BY <1>3, <1>4

LEMMA ShownCaptured ==
  ASSUME NEW n \in Names, NEW M \in Shown(n), NEW k \in Names, NEW d \in Nat
  PROVE  scope_save_capture(M, k, d) \in Known(n)
<1>1. scope_save_capture(M, k, d) \in Save /\ M.env[n].there
  BY ShownThere, CaptureSave
<1> QED BY <1>1 DEF scope_save_capture, Known

LEMMA ShownRestored ==
  ASSUME NEW n \in Names, NEW M \in Shown(n), NEW s \in Known(n)
  PROVE  restore_one(M, s) \in Shown(n)
<1>1. M \in Stores(Seq(Save)) /\ M.env[n].exported /\ M.env \in [Names -> Record]
  BY ShownThere DEF Stores
<1>2. s \in Save /\ (s.key = n => s.existed) /\ s.key \in Names
      /\ s.value \in Values \cup {NoValue}
  BY DEF Known, Save
<1> DEFINE N == restore_one(M, s)
           v == IF s.value = NoValue THEN Empty ELSE s.value
<1>3. v \in Values
  BY <1>2, VarScopeAssumption
<1>4. CASE s.existed
  <2>1. N = Written(M, s.key, v)
    BY <1>4 DEF restore_one, Written
  <2> HIDE DEF N, v
  <2>2. N \in Shown(n)
    BY <2>1, <1>2, <1>3, ShownWritten
  <2> QED BY <2>2 DEF N
<1>5. CASE ~ s.existed
  <2>1. N = unset_raw(M, s.key) /\ s.key # n
    BY <1>2, <1>5 DEF restore_one
  <2> HIDE DEF N, v
  <2>2. unset_raw(M, s.key) \in Stores(Seq(Save))
        /\ unset_raw(M, s.key).env = [M.env EXCEPT ![s.key] = Absent]
    BY <1>1, <1>2, UnsetStore
  <2>3. N \in Stores(Seq(Save)) /\ N.env[n] = M.env[n]
    BY <1>1, <2>1, <2>2
  <2>4. N \in Shown(n)
    BY <2>3, ShownAs
  <2> QED BY <2>4 DEF N
<1> QED BY <1>4, <1>5

(* The loops.                                                              *)
LEMMA ShownPlaces ==
  ASSUME NEW n \in Names, NEW M \in Shown(n), NEW pre \in Seq(Staged)
  PROVE  /\ apply_temp_assigns(M, pre).store \in Shown(n)
         /\ apply_temp_assigns(M, pre).saved \in Seq(Known(n))
<1> DEFINE A == [store : Shown(n), saved : Seq(Known(n))]
           base == [store |-> M, saved |-> <<>>]
<1>1. base \in A
  OBVIOUS
<1>2. ASSUME NEW a \in A, NEW p \in Staged PROVE PlaceOne(a, p) \in A
  <2>1. a.store \in Shown(n) /\ a.saved \in Seq(Known(n))
    OBVIOUS
  <2>2. p.key \in Names /\ p.value \in Values
    BY DEF Staged
  <2>3. Written(a.store, p.key, p.value) \in Shown(n)
    BY <2>1, <2>2, ShownWritten
  <2>4. scope_save_capture(a.store, p.key, 0) \in Known(n)
    BY <2>1, <2>2, ShownCaptured
  <2>5. Append(a.saved, scope_save_capture(a.store, p.key, 0)) \in Seq(Known(n))
    BY <2>1, <2>4
  <2> QED BY <2>3, <2>5 DEF PlaceOne, Written
<1> HIDE DEF A, base
<1>3. Places!Left(base, pre) \in A
  BY <1>1, <1>2, Places!LeftKeeps
<1>4. apply_temp_assigns(M, pre) \in A
  BY <1>3, PlaceLoop DEF base
<1> QED BY <1>4 DEF A

LEMMA ShownPutBack ==
  ASSUME NEW n \in Names, NEW M \in Shown(n), NEW saved \in Seq(Known(n))
  PROVE  Restores!Right(saved, M) \in Shown(n) /\ restore_temp_assigns(M, saved) \in Shown(n)
<1>1. \A a \in Shown(n), s \in Known(n) : restore_one(a, s) \in Shown(n)
  BY ShownRestored
<1> DEFINE A == Shown(n)
<1> HIDE DEF A
<1>2. Restores!Right(saved, M) \in A
  BY <1>1, Restores!RightKeeps DEF A
<1> QED BY <1>2, RestoreLoop DEF A

LEMMA ShownStages ==
  ASSUME NEW n \in Names, NEW M \in Shown(n), NEW list \in Seq(Assignment)
  PROVE  /\ expand_assignments(M, list).store \in Shown(n)
         /\ expand_assignments(M, list).pre \in Seq(Staged)
<1> DEFINE A == [store : Shown(n), pre : Seq(Staged)]
           base == [store |-> M, pre |-> <<>>]
<1>1. base \in A
  OBVIOUS
<1>2. ASSUME NEW a \in A, NEW x \in Assignment PROVE StageOne(a, x) \in A
  <2> DEFINE P == apply_temp_assigns(a.store, a.pre)
  <2>1. a.store \in Shown(n) /\ a.pre \in Seq(Staged)
    OBVIOUS
  <2>2. P.store \in Shown(n) /\ P.saved \in Seq(Known(n))
    BY <2>1, ShownPlaces
  <2>3. StageOne(a, x) =
          [store |-> restore_temp_assigns(P.store, P.saved),
           pre   |-> Append(a.pre, assignment_to_env(P.store, x))]
    BY DEF StageOne
  <2> HIDE DEF P
  <2>4. restore_temp_assigns(P.store, P.saved) \in Shown(n)
    BY <2>2, ShownPutBack
  <2>5. assignment_to_env(P.store, x) \in Staged
    BY <2>2, ShownThere, AssignmentStaged DEF Assignment
  <2>6. Append(a.pre, assignment_to_env(P.store, x)) \in Seq(Staged)
    BY <2>1, <2>5
  <2> QED BY <2>3, <2>4, <2>6
<1> HIDE DEF A, base
<1>3. Stages!Left(base, list) \in A
  BY <1>1, <1>2, Stages!LeftKeeps
<1>4. expand_assignments(M, list) \in A
  BY <1>3, StageLoop DEF base
<1> QED BY <1>4 DEF A

LEMMA ShownAssigns ==
  ASSUME NEW n \in Names, NEW M \in Shown(n), NEW pre \in Seq(Staged)
  PROVE  apply_pre_assigns(M, pre) \in Shown(n)
<1> DEFINE A == Shown(n)
<1>1. ASSUME NEW a \in A, NEW p \in Staged PROVE AssignOne(a, p) \in A
  <2>1. p.key \in Names /\ p.value \in Values
    BY DEF Staged
  <2>2. env_set(a, p.key, p.value, AllExport) \in A
    BY <2>1, ShownSet, VarScopeAssumption
  <2> QED BY <2>2 DEF AssignOne
<1>2. M \in A
  OBVIOUS
<1> HIDE DEF A
<1>3. Assigns!Right(pre, M) \in A
  BY <1>1, <1>2, Assigns!RightKeeps
<1> QED BY <1>3, AssignLoop DEF A

LEMMA ShownPrefix ==
  ASSUME Sound, NEW n \in get_envp(env), NEW prefix \in PreAssigns
  PROVE  /\ n \in Names /\ Store \in Shown(n)
         /\ Prefixed(prefix).store \in Shown(n)
         /\ Prefixed(prefix).saved \in Seq(Known(n))
<1> DEFINE staged == expand_assignments(Store, prefix)
<1>1. n \in Names
  BY DEF get_envp
<1>2. Store \in Shown(n)
  BY SoundStore DEF Shown, Store
<1>3. prefix \in Seq(Assignment)
  BY VarScopeAssumption DEF Assignment
<1>4. staged.store \in Shown(n) /\ staged.pre \in Seq(Staged)
  BY <1>1, <1>2, <1>3, ShownStages
<1>5. Prefixed(prefix) = apply_temp_assigns(staged.store, staged.pre)
  BY DEF Prefixed
<1> HIDE DEF staged
<1> QED BY <1>1, <1>2, <1>4, <1>5, ShownPlaces

LEMMA ShownBuiltin ==
  ASSUME Sound, NEW n \in get_envp(env), NEW prefix \in PreAssigns, NEW after \in Shown(n),
         execute_builtin(prefix, after)
  PROVE  n \in get_envp(env')
<1> DEFINE back == restore_temp_assigns(after, Prefixed(prefix).saved)
<1>1. n \in Names /\ back \in Shown(n)
  BY ShownPrefix, ShownPutBack
<1>2. env' = back.env
  BY DEF execute_builtin, Becomes
<1> HIDE DEF back
<1> QED BY <1>1, <1>2 DEF Shown

(* A return that puts n back from no save.                                 *)
LEMMA ShownReturn ==
  ASSUME Sound, NEW n \in get_envp(env), Return, ~ PutBack(n)
  PROVE  n \in get_envp(env')
<1> DEFINE d == func_depth
           s == local_saves
           m == Len(local_saves)
           L == scope_leave(Store)
           B == restore_temp_assigns(L, Last(calls))
<1>1. n \in Names /\ Store \in Shown(n) /\ Store \in Stores(Seq(Save)) /\ d \in Nat /\ d > 0
  BY SoundStore DEF get_envp, Shown, Store, Return
<1>2. s \in Seq(Save) /\ m \in Nat /\ Store.saves = s /\ calls \in Seq(Seq(Save)) /\ Len(calls) = d
  BY DEF Sound, Layered, Store, func_depth
<1>3. Len(calls') < Len(calls)
  BY <1>1, <1>2 DEF Return, Front
<1>4. Last(calls) \in Seq(Save) /\ DOMAIN Last(calls) = 1 .. Len(Last(calls))
  BY <1>1, <1>2 DEF Last
<1>5. /\ \A i \in DOMAIN Last(calls) : Last(calls)[i].key # n
      /\ \A i \in 1 .. m : s[i].depth = d => s[i].key # n
  BY <1>2, <1>3 DEF PutBack, Covers
<1>6. PICK k \in 0 .. m : LeavesAt(Store, k)
  BY <1>1, <1>2, LeaveSplits
<1> DEFINE lo == SubSeq(s, 1, k)
           hi == SubSeq(s, k + 1, m)
           back == Restores!Right(hi, Store)
<1>7. k \in Nat /\ k <= m /\ (\A i \in k + 1 .. m : s[i].depth = d)
      /\ L = [back EXCEPT !.saves = lo]
  BY <1>2, <1>6 DEF LeavesAt
<1> HIDE DEF L, back, lo, hi
<1>8. /\ lo \in Seq(Save) /\ hi \in Seq(Save) /\ Len(hi) = m - k
      /\ \A i \in 1 .. m - k : hi[i] = s[k + i]
  BY <1>2, <1>6, Halves DEF lo, hi
<1>9. hi \in Seq(Known(n))
  <2>1. ASSUME NEW i \in 1 .. Len(hi) PROVE hi[i] \in Known(n)
    <3>1. k + i \in k + 1 .. m /\ k + i \in 1 .. m /\ i \in 1 .. m - k
      BY <1>2, <1>7, <1>8
    <3>2. hi[i] = s[k + i] /\ hi[i] \in Save /\ s[k + i].depth = d
      BY <1>7, <1>8, <3>1
    <3>3. hi[i].key # n
      BY <1>5, <3>1, <3>2
    <3> QED BY <3>2, <3>3 DEF Known
  <2>2. hi = [i \in 1 .. Len(hi) |-> hi[i]] /\ Len(hi) \in Nat
    BY <1>8
  <2> QED BY <2>1, <2>2
<1>10. back \in Shown(n)
  BY <1>1, <1>9, ShownPutBack DEF back
<1>11. L \in Shown(n)
  <2>1. back \in Stores(Seq(Save)) /\ n \in get_envp(back.env)
    BY <1>10 DEF Shown
  <2>2. L = [env |-> back.env, saves |-> lo]
    BY <1>7, <2>1 DEF Stores
  <2>3. L.env = back.env /\ L \in Stores(Seq(Save))
    BY <1>8, <2>1, <2>2 DEF Stores
  <2> QED BY <2>1, <2>3 DEF Shown
<1>12. Last(calls) \in Seq(Known(n))
  <2>1. ASSUME NEW i \in 1 .. Len(Last(calls)) PROVE Last(calls)[i] \in Known(n)
    BY <1>4, <1>5 DEF Known
  <2>2. Last(calls) = [i \in 1 .. Len(Last(calls)) |-> Last(calls)[i]] /\ Len(Last(calls)) \in Nat
    BY <1>4
  <2> QED BY <2>1, <2>2
<1>13. B \in Shown(n)
  BY <1>1, <1>11, <1>12, ShownPutBack
<1>14. env' = B.env
  BY DEF Return, Becomes, L
<1> HIDE DEF B
<1> QED BY <1>13, <1>14 DEF Shown

(* What a step may do to an exported variable.                             *)
ExportStep ==
  \A n \in get_envp(env) :
    env'[n].there => \/ n \in get_envp(env')
                     \/ PutBack(n)
                     \/ \E prefix \in PreAssigns : \/ builtin_export(prefix, n)
                                                    \/ builtin_unset(prefix, n)

LEMMA ExportStepHolds ==
  ASSUME Sound, [Next]_vars
  PROVE  [ExportStep]_vars
<1>1. SUFFICES ASSUME Next, NEW n \in get_envp(env), ~ PutBack(n),
                      \A prefix \in PreAssigns : ~ builtin_export(prefix, n)
                                                 /\ ~ builtin_unset(prefix, n)
               PROVE  n \in get_envp(env')
  BY DEF ExportStep
<1>2. n \in Names /\ Store \in Shown(n)
  BY SoundStore DEF get_envp, Shown, Store
<1>3. ASSUME NEW list \in Lists, handle_assign_only(list) PROVE n \in get_envp(env')
  <2> DEFINE staged == expand_assignments(Store, list)
             M == apply_pre_assigns(staged.store, staged.pre)
  <2>1. list \in Seq(Assignment)
    BY VarScopeAssumption DEF Assignment
  <2>2. staged.store \in Shown(n) /\ staged.pre \in Seq(Staged)
    BY <1>2, <2>1, ShownStages
  <2>3. env' = M.env
    BY <1>3 DEF handle_assign_only, Becomes, Assigned
  <2> HIDE DEF staged
  <2>4. M \in Shown(n)
    BY <1>2, <2>2, ShownAssigns
  <2> QED BY <2>3, <2>4 DEF Shown
<1>4. ASSUME NEW prefix \in PreAssigns, handle_func_call(prefix) PROVE n \in get_envp(env')
  <2>1. Prefixed(prefix).store \in Shown(n)
    BY ShownPrefix
  <2>2. env' = Prefixed(prefix).store.env
    BY <1>4 DEF handle_func_call, Becomes
  <2> QED BY <2>1, <2>2 DEF Shown
<1>5. ASSUME Return PROVE n \in get_envp(env')
  BY <1>1, <1>5, ShownReturn
<1>6. ASSUME NEW prefix \in PreAssigns, Builtin(prefix) PROVE n \in get_envp(env')
  <2> DEFINE M == Prefixed(prefix).store
  <2>1. M \in Shown(n) /\ M \in Stores(Seq(Save)) /\ M.env \in [Names -> Record]
    BY ShownPrefix, ShownThere, <1>2 DEF Stores
  <2>2. SUFFICES \E after \in Shown(n) : execute_builtin(prefix, after)
    BY ShownBuiltin
  <2> HIDE DEF M
  <2>3. ASSUME NEW k \in Names, builtin_local(prefix, k)
        PROVE  \E after \in Shown(n) : execute_builtin(prefix, after)
    <3> DEFINE T == scope_save(M, k)
               c == scope_save_capture(M, k, func_depth)
    <3>1. c \in Save
      BY <2>1, SoundStore, CaptureSave
    <3>2. T = [M EXCEPT !.saves = Append(M.saves, c)]
      BY DEF scope_save
    <3> HIDE DEF c
    <3>a. Append(M.saves, c) \in Seq(Save)
      BY <2>1, <3>1 DEF Stores
    <3>b. T = [env |-> M.env, saves |-> Append(M.saves, c)]
      BY <2>1, <3>2 DEF Stores
    <3>3. T \in Stores(Seq(Save)) /\ T.env = M.env
      BY <2>1, <3>a, <3>b DEF Stores
    <3> HIDE DEF T
    <3>4. T \in Shown(n)
      BY <1>2, <2>1, <3>3, ShownAs
    <3>5. Written(T, k, Empty) \in Shown(n)
          /\ \A v \in Values : env_set(T, k, v, AllExport) \in Shown(n)
      BY <1>2, <3>4, ShownWritten, ShownSet, VarScopeAssumption
    <3>6. local_name(M, k) \in Shown(n) /\ \A v \in Values : local_value(M, k, v) \in Shown(n)
      BY <2>1, <3>5 DEF local_name, local_value, Written, T
    <3>7. \/ execute_builtin(prefix, local_name(M, k))
          \/ \E v \in Values : execute_builtin(prefix, local_value(M, k, v))
      BY <2>3 DEF builtin_local, M
    <3> QED BY <3>6, <3>7
  <2>4. ASSUME NEW k \in Names, builtin_unset(prefix, k)
        PROVE  \E after \in Shown(n) : execute_builtin(prefix, after)
    <3>1. k # n
      BY <1>1, <2>4
    <3>2. execute_builtin(prefix, try_unset(M, k))
      BY <2>4 DEF builtin_unset, M
    <3>3. unset_raw(M, k) \in Shown(n)
      <4>1. unset_raw(M, k) \in Stores(Seq(Save))
            /\ unset_raw(M, k).env = [M.env EXCEPT ![k] = Absent]
        BY <2>1, UnsetStore
      <4>2. unset_raw(M, k).env[n] = M.env[n]
        BY <1>2, <2>1, <3>1, <4>1
      <4> QED BY <1>2, <2>1, <4>1, <4>2, ShownAs
    <3>4. ASSUME UpvarSave(M, k) # 0 PROVE scope_pop_upvar(M, k) \in Shown(n)
      <4> DEFINE i == UpvarSave(M, k)
                 back == restore_one(M, M.saves[i])
      <4>1. i \in 1 .. Len(M.saves) /\ M.saves[i].key = k
        BY <2>1, <3>4, UpvarSaveIs
      <4>2. scope_pop_upvar(M, k) = [back EXCEPT !.saves = RemoveAt(@, i)]
        BY DEF scope_pop_upvar
      <4> HIDE DEF i
      <4>3. M.saves \in Seq(Save) /\ M.saves[i] \in Save
        BY <2>1, <4>1 DEF Stores
      <4>4. M.saves[i] \in Known(n)
        BY <3>1, <4>1, <4>3 DEF Known
      <4>5. back \in Shown(n) /\ back.saves = M.saves
        BY <1>2, <2>1, <4>3, <4>4, ShownRestored, RestoreStore
      <4>6. RemoveAt(M.saves, i) \in Seq(Save)
        BY <4>1, <4>3 DEF RemoveAt
      <4> HIDE DEF back
      <4>7. back \in Stores(Seq(Save)) /\ n \in get_envp(back.env)
        BY <4>5 DEF Shown
      <4>8. scope_pop_upvar(M, k) = [env |-> back.env, saves |-> RemoveAt(M.saves, i)]
        BY <4>2, <4>5, <4>7 DEF Stores
      <4>9. scope_pop_upvar(M, k) \in Stores(Seq(Save)) /\ scope_pop_upvar(M, k).env = back.env
        BY <4>6, <4>7, <4>8 DEF Stores
      <4> QED BY <4>7, <4>9 DEF Shown
    <3>5. try_unset(M, k) \in Shown(n)
      BY <2>1, <3>3, <3>4 DEF try_unset
    <3> QED BY <3>2, <3>5
  <2>5. ASSUME NEW k \in ExportNames, builtin_export(prefix, k)
        PROVE  \E after \in Shown(n) : execute_builtin(prefix, after)
    <3>1. k # n /\ k \in Names
      BY <1>1, <2>5, VarScopeAssumption
    <3>2. export_name_only(M, k) \in Shown(n)
      <4> DEFINE N == export_name_only(M, k)
      <4>1. N \in Stores(Seq(Save))
        BY <2>1, <3>1, ExportTypes, VarScopeAssumption
      <4>2. N.env[n] = M.env[n]
        <5>1. CASE M.env[k].there
          BY <5>1, <1>2, <2>1, <3>1, ExportStore DEF export_name_only
        <5>2. CASE ~ M.env[k].there
          <6>1. N = Exporting(M, k, NoValue)
            BY <5>2 DEF export_name_only, Exporting
          <6> HIDE DEF N
          <6> QED BY <1>2, <2>1, <3>1, <6>1, SetExported
        <5> QED BY <5>1, <5>2
      <4> HIDE DEF N
      <4>3. N \in Shown(n)
        BY <1>2, <2>1, <4>1, <4>2, ShownAs
      <4> QED BY <4>3 DEF N
    <3>3. ASSUME NEW N \in Shown(n) PROVE env_unexport(N, k) \in Shown(n)
      <4>1. env_unexport(N, k) \in Stores(Seq(Save)) /\ env_unexport(N, k).env[n] = N.env[n]
        BY <1>2, <3>1, ShownThere, UnexportStore
      <4> QED BY <1>2, <4>1, ShownAs
    <3>4. ASSUME NEW v \in Values
          PROVE  export_value(M, k, v) \in Shown(n) /\ Written(M, k, v) \in Shown(n)
      <4>1. Exporting(M, k, v) \in Stores(Seq(Save))
        BY <2>1, <3>1, SetExported
      <4>2. Exporting(M, k, v).env[n] = M.env[n]
        BY <1>2, <2>1, <3>1, SetExported
      <4>3. Exporting(M, k, v) \in Shown(n)
        BY <1>2, <2>1, <4>1, <4>2, ShownAs
      <4> QED BY <1>2, <2>1, <3>1, <4>3, ShownWritten DEF export_value, Exporting
    <3>5. \/ execute_builtin(prefix, export_name_only(M, k))
          \/ \E v \in Values : execute_builtin(prefix, export_value(M, k, v))
          \/ execute_builtin(prefix, env_unexport(M, k))
          \/ \E v \in Values : execute_builtin(prefix, env_unexport(Written(M, k, v), k))
      BY <2>5 DEF builtin_export, M, Written
    <3> QED BY <2>1, <3>2, <3>3, <3>4, <3>5
  <2>6. ASSUME NEW k \in ReadonlyNames, builtin_readonly(prefix, k)
        PROVE  \E after \in Shown(n) : execute_builtin(prefix, after)
    <3>1. k \in Names
      BY VarScopeAssumption
    <3>2. \A v \in Values : Written(M, k, v) \in Shown(n)
      BY <1>2, <2>1, <3>1, ShownWritten
    <3>3. \/ execute_builtin(prefix, M)
          \/ \E v \in Values : execute_builtin(prefix, IF k \in readonly_vars THEN M
                                                       ELSE Written(M, k, v))
      BY <2>6 DEF builtin_readonly, M, Written
    <3> QED BY <2>1, <3>2, <3>3
  <2> QED BY <1>6, <2>3, <2>4, <2>5, <2>6 DEF Builtin
<1> QED BY <1>1, <1>3, <1>4, <1>5, <1>6 DEF Next

(* Only `export -n`, `unset` and the return of a call that put it back     *)
(* hide an exported variable from the child processes (env_set, get_envp,  *)
(* restore_one): whatever the lists of assignments, the depth of the calls *)
(* and the saves.                                                          *)
THEOREM ExportIsKept == Spec => ExportSticks
<1>1. Sound /\ [Next]_vars => [ExportStep]_vars
  BY ExportStepHolds
<1>2. Spec => []Sound
  BY SoundAlways
<1>3. Spec => [][ExportStep]_vars
  BY <1>1, <1>2, PTL DEF Spec
<1> QED BY <1>3 DEF ExportSticks, ExportStep

-----------------------------------------------------------------------------
(* Assignments one after the other.                                        *)

Distinct(p) == \A i, j \in DOMAIN p : p[i].key = p[j].key => i = j

(* F is E with the assignments of p at the places D made: made[k] is the   *)
(* record the one at place k makes.                                        *)
Made(F, E, p, D, made) ==
  /\ F \in [Names -> Record]
  /\ \A k \in D : F[p[k].key] = made[k]
  /\ \A n \in Names : (\A k \in D : p[k].key # n) => F[n] = E[n]

(* The records of a prefix, and those of a command of assignments.         *)
PlainRecords(E, p) == [k \in DOMAIN p |-> env_create(p[k].value, E[p[k].key].exported)]
AssignRecords(E, p) ==
  [k \in DOMAIN p |-> env_create(p[k].value, E[p[k].key].exported \/ AllExport)]

LEMMA MadeMore ==
  ASSUME NEW F, NEW E, NEW p, NEW D, NEW made, Made(F, E, p, D, made),
         NEW k, k \notin D, p[k].key \in Names, made[k] \in Record,
         \A i \in D : p[i].key # p[k].key
  PROVE  Made([F EXCEPT ![p[k].key] = made[k]], E, p, D \cup {k}, made)
<1> DEFINE G == [F EXCEPT ![p[k].key] = made[k]]
<1>1. F \in [Names -> Record] /\ G \in [Names -> Record] /\ G[p[k].key] = made[k]
      /\ \A n \in Names : n # p[k].key => G[n] = F[n]
  BY DEF Made
<1>2. ASSUME NEW i \in D PROVE G[p[i].key] = made[i]
  <2>1. F[p[i].key] = made[i] /\ p[i].key # p[k].key
    BY DEF Made
  <2> QED BY <2>1, <1>1
<1> HIDE DEF G
<1>3. ASSUME NEW n \in Names, \A i \in D \cup {k} : p[i].key # n PROVE G[n] = E[n]
  BY <1>1, <1>3 DEF Made
<1> QED BY <1>1, <1>2, <1>3 DEF Made, G

LEMMA MadeLess ==
  ASSUME NEW F, NEW E, NEW p, NEW D, NEW made, Made(F, E, p, D, made),
         NEW k \in D, p[k].key \in Names, E[p[k].key] \in Record,
         \A i \in D : i # k => p[i].key # p[k].key
  PROVE  Made([F EXCEPT ![p[k].key] = E[p[k].key]], E, p, D \ {k}, made)
<1> DEFINE G == [F EXCEPT ![p[k].key] = E[p[k].key]]
<1>1. F \in [Names -> Record] /\ G \in [Names -> Record] /\ G[p[k].key] = E[p[k].key]
      /\ \A n \in Names : n # p[k].key => G[n] = F[n]
  BY DEF Made
<1>2. ASSUME NEW i \in D \ {k} PROVE G[p[i].key] = made[i]
  <2>1. F[p[i].key] = made[i] /\ p[i].key # p[k].key
    BY DEF Made
  <2> QED BY <2>1, <1>1
<1> HIDE DEF G
<1>3. ASSUME NEW n \in Names, \A i \in D \ {k} : p[i].key # n PROVE G[n] = E[n]
  <2>1. CASE n = p[k].key
    BY <1>1, <2>1
  <2>2. CASE n # p[k].key
    <3>1. \A i \in D : p[i].key # n
      BY <1>3, <2>2
    <3> QED BY <1>1, <2>2, <3>1 DEF Made
  <2> QED BY <2>1, <2>2
<1> QED BY <1>1, <1>2, <1>3 DEF Made, G

LEMMA MadeNone ==
  ASSUME NEW F, NEW E \in [Names -> Record], NEW p, NEW made
  PROVE  Made(F, E, p, {}, made) <=> F = E
BY DEF Made

LEMMA MadeOnce ==
  ASSUME NEW E, NEW p, NEW D, NEW made, NEW F, NEW G,
         Made(F, E, p, D, made), Made(G, E, p, D, made)
  PROVE  F = G
<1>1. F \in [Names -> Record] /\ G \in [Names -> Record]
  BY DEF Made
<1>2. ASSUME NEW n \in Names PROVE F[n] = G[n]
  BY DEF Made
<1> QED BY <1>1, <1>2

LEMMA RecordsTypes ==
  ASSUME NEW E \in [Names -> Record], NEW p \in Seq(Staged), NEW k \in DOMAIN p
  PROVE  /\ p[k] \in Staged /\ p[k].key \in Names /\ p[k].value \in Values
         /\ PlainRecords(E, p)[k] = env_create(p[k].value, E[p[k].key].exported)
         /\ AssignRecords(E, p)[k] = env_create(p[k].value, E[p[k].key].exported \/ AllExport)
         /\ PlainRecords(E, p)[k] \in Record /\ AssignRecords(E, p)[k] \in Record
<1>1. p[k] \in Staged
  OBVIOUS
<1>2. p[k].key \in Names /\ p[k].value \in Values
  BY <1>1 DEF Staged
<1> DEFINE w == E[p[k].key].exported
           x == w \/ AllExport
<1>3. w \in BOOLEAN
  BY <1>2, RecordHas
<1>4. x \in BOOLEAN
  OBVIOUS
<1>5. PlainRecords(E, p)[k] = env_create(p[k].value, w)
      /\ AssignRecords(E, p)[k] = env_create(p[k].value, x)
  BY DEF PlainRecords, AssignRecords
<1> HIDE DEF w, x
<1>6. env_create(p[k].value, w) \in Record /\ env_create(p[k].value, x) \in Record
  BY <1>2, <1>3, <1>4, RecordOf
<1> QED BY <1>1, <1>2, <1>5, <1>6 DEF w, x

(* Putting a prefix in place.                                              *)
Placed(acc, M, p, i) ==
  /\ acc \in [store : Stores({M.saves}), saved : Seq(Save)]
  /\ Made(acc.store.env, M.env, p, 1 .. i, PlainRecords(M.env, p))
  /\ Len(acc.saved) = i
  /\ \A k \in 1 .. i : acc.saved[k] = scope_save_capture(M, p[k].key, 0)

LEMMA PlaceMakes ==
  ASSUME NEW S, NEW M \in Stores(S), NEW p \in Seq(Staged), Distinct(p)
  PROVE  Placed(apply_temp_assigns(M, p), M, p, Len(p))
<1> DEFINE n == Len(p)
           A == [store : Stores({M.saves}), saved : Seq(Save)]
           I == [i \in Nat |-> {a \in A : Placed(a, M, p, i)}]
           base == [store |-> M, saved |-> <<>>]
           made == PlainRecords(M.env, p)
<1>1. n \in Nat /\ DOMAIN p = 1 .. n /\ M.env \in [Names -> Record]
  BY DEF Stores
<1>2. \A i \in Nat : I[i] = {a \in A : Placed(a, M, p, i)}
  OBVIOUS
<1>3. base \in I[0]
  <2>1. base \in A
    BY StoreAlone
  <2>2. 1 .. 0 = {} /\ Made(M.env, M.env, p, {}, made)
    BY <1>1, MadeNone
  <2>3. base.store.env = M.env /\ base.saved = <<>>
    OBVIOUS
  <2> HIDE DEF A, made
  <2>4. Placed(base, M, p, 0)
    BY <2>1, <2>2 DEF Placed, A, made
  <2> HIDE DEF base, I
  <2> QED BY <1>2, <2>1, <2>4
<1>4. ASSUME NEW i \in 1 .. n, NEW a \in I[i - 1] PROVE PlaceOne(a, p[i]) \in I[i]
  <2> DEFINE c == scope_save_capture(a.store, p[i].key, 0)
             N == Written(a.store, p[i].key, p[i].value)
             j == i - 1
  <2>1. i \in Nat /\ j \in Nat /\ i = j + 1 /\ j \in 0 .. n /\ i \in DOMAIN p
        /\ 1 .. i = (1 .. j) \cup {i} /\ i \notin 1 .. j /\ 1 .. j \subseteq DOMAIN p
    BY <1>1
  <2> HIDE DEF I, A
  <2>2. a \in A /\ Placed(a, M, p, j)
    BY <1>2, <2>1
  <2>3. a.store \in Stores({M.saves}) /\ a.saved \in Seq(Save) /\ Len(a.saved) = j
        /\ Made(a.store.env, M.env, p, 1 .. j, made)
        /\ \A k \in 1 .. j : a.saved[k] = scope_save_capture(M, p[k].key, 0)
    BY <2>2 DEF Placed
  <2> HIDE DEF j
  <2>4. p[i].key \in Names /\ p[i].value \in Values /\ made[i] \in Record
        /\ made[i] = env_create(p[i].value, M.env[p[i].key].exported)
    BY <1>1, <2>1, RecordsTypes
  <2>5. \A k \in 1 .. j : p[k].key # p[i].key
    BY <2>1 DEF Distinct
  <2>6. a.store.env[p[i].key] = M.env[p[i].key]
    BY <2>3, <2>4, <2>5 DEF Made
  <2>7. N \in Stores({M.saves}) /\ N.env = [a.store.env EXCEPT ![p[i].key] = made[i]]
    BY <2>3, <2>4, <2>6, SetPlain
  <2>8. c = scope_save_capture(M, p[i].key, 0) /\ c \in Save
    BY <2>3, <2>4, <2>6, CaptureSave DEF scope_save_capture
  <2>9. PlaceOne(a, p[i]) = [store |-> N, saved |-> Append(a.saved, c)]
    BY DEF PlaceOne, Written
  <2> HIDE DEF c, N, made
  <2>10. Made(N.env, M.env, p, 1 .. i, made)
    <3> DEFINE D == 1 .. j
               F == a.store.env
    <3>1. Made(F, M.env, p, D, made) /\ i \notin D /\ \A k \in D : p[k].key # p[i].key
      BY <2>1, <2>3, <2>5
    <3> HIDE DEF D, F
    <3>2. Made([F EXCEPT ![p[i].key] = made[i]], M.env, p, D \cup {i}, made)
      BY <3>1, <2>4, MadeMore
    <3> QED BY <3>2, <2>1, <2>7 DEF D, F
  <2>11. Append(a.saved, c) \in Seq(Save) /\ Len(Append(a.saved, c)) = i
         /\ \A k \in 1 .. i : Append(a.saved, c)[k] = scope_save_capture(M, p[k].key, 0)
    BY <2>1, <2>3, <2>8
  <2>12. PlaceOne(a, p[i]) \in A
    BY <2>7, <2>9, <2>11 DEF A
  <2>13. Placed(PlaceOne(a, p[i]), M, p, i)
    BY <2>9, <2>10, <2>11, <2>12 DEF Placed, A, made
  <2> QED BY <1>2, <2>1, <2>12, <2>13
<1> HIDE DEF I, base, A
<1>5. Places!Left(base, p) \in I[n]
  BY <1>1, <1>3, <1>4, Places!LeftStaysIn
<1>6. Placed(Places!Left(base, p), M, p, n)
  BY <1>1, <1>2, <1>5
<1> QED BY <1>6, PlaceLoop DEF base

(* Taking it back: nothing has happened.                                   *)
LEMMA PlaceUndone ==
  ASSUME NEW S, NEW M \in Stores(S), NEW p \in Seq(Staged), Distinct(p),
         \A k \in DOMAIN p : ~ Valueless(M, p[k].key)
  PROVE  LET placed == apply_temp_assigns(M, p)
         IN  restore_temp_assigns(placed.store, placed.saved) = M
<1> DEFINE placed == apply_temp_assigns(M, p)
           saved == placed.saved
           n == Len(p)
           made == PlainRecords(M.env, p)
           Back(i) == {a \in Stores({M.saves}) : Made(a.env, M.env, p, 1 .. n - i, made)}
           I == [i \in Nat |-> Back(i)]
<1>1. Placed(placed, M, p, n)
  BY PlaceMakes
<1>2. n \in Nat /\ DOMAIN p = 1 .. n /\ M.env \in [Names -> Record]
  BY DEF Stores
<1>3. /\ placed.store \in Stores({M.saves}) /\ saved \in Seq(Save)
      /\ Len(saved) = n /\ DOMAIN saved = 1 .. n
      /\ Made(placed.store.env, M.env, p, 1 .. n, made)
      /\ \A k \in 1 .. n : saved[k] = scope_save_capture(M, p[k].key, 0)
  BY <1>1, <1>2 DEF Placed
<1> HIDE DEF placed, saved, made
<1>4. \A i \in Nat : I[i] = Back(i)
  OBVIOUS
<1>5. placed.store \in I[0]
  <2>1. n - 0 = n
    BY <1>2
  <2>2. placed.store \in Back(0)
    BY <1>3, <2>1
  <2> HIDE DEF I, Back
  <2> QED BY <1>4, <2>2
<1>6. ASSUME NEW i \in 1 .. n, NEW a \in I[i - 1]
      PROVE  restore_one(a, saved[n - i + 1]) \in I[i]
  <2> DEFINE k == n - i + 1
             D == 1 .. k
             F == a.env
             e == M.env[p[k].key]
             s == saved[k]
             N == restore_one(a, s)
  <2>1. k \in 1 .. n /\ k \in D /\ D \ {k} = 1 .. n - i /\ n - (i - 1) = k /\ D \subseteq 1 .. n
        /\ i \in Nat /\ i - 1 \in Nat
    BY <1>2
  <2> HIDE DEF I
  <2>2. a \in Back(i - 1)
    BY <1>4, <2>1
  <2>3. a \in Stores({M.saves}) /\ Made(F, M.env, p, D, made)
    BY <2>1, <2>2
  <2> HIDE DEF k, D, F
  <2>4. p[k].key \in Names /\ made[k] = env_create(p[k].value, e.exported) /\ e \in Record
    BY <1>2, <2>1, RecordsTypes DEF made
  <2>5. \A j \in D : j # k => p[j].key # p[k].key
    BY <1>2, <2>1 DEF Distinct
  <2>6. F[p[k].key] = made[k]
    BY <2>1, <2>3 DEF Made
  <2>7. F[p[k].key].exported = e.exported
    BY <2>4, <2>6 DEF env_create
  <2>8. s \in Save /\ s.key = p[k].key /\ s.existed = e.there /\ s.value = e.value
    BY <1>3, <2>1 DEF scope_save_capture
  <2>9. e.there => e.value # NoValue /\ e = env_create(e.value, e.exported)
    BY <1>2, <2>1, <2>4, RecordHas DEF Valueless
  <2>10. ~ e.there => e = Absent
    BY <2>4, RecordHas
  <2> HIDE DEF s, e
  <2>11. N \in Stores({M.saves}) /\ N.env = [F EXCEPT ![s.key] = RecordBack(a, s)]
    BY <2>3, <2>8, RestoreStore DEF F
  <2>12. N.env = [F EXCEPT ![p[k].key] = e]
    <3>1. CASE e.there
      <4>1. RecordBack(a, s) = env_create(e.value, e.exported)
        BY <2>7, <2>8, <2>9, <3>1 DEF RecordBack, F
      <4> QED BY <2>8, <2>9, <2>11, <3>1, <4>1
    <3>2. CASE ~ e.there
      <4>1. RecordBack(a, s) = Absent
        BY <2>8, <3>2 DEF RecordBack
      <4> QED BY <2>8, <2>10, <2>11, <3>2, <4>1
    <3> QED BY <3>1, <3>2
  <2>13. Made([F EXCEPT ![p[k].key] = e], M.env, p, D \ {k}, made)
    BY <2>1, <2>3, <2>4, <2>5, MadeLess DEF e
  <2>14. N \in Back(i)
    BY <2>1, <2>11, <2>12, <2>13
  <2> HIDE DEF Back, N
  <2>15. N \in I[i]
    BY <1>4, <2>1, <2>14
  <2> QED BY <2>15 DEF N, s, k
<1> HIDE DEF I
<1>7. Restores!Right(saved, placed.store) \in I[n]
  BY <1>2, <1>3, <1>5, <1>6, Restores!RightStaysIn
<1>8. restore_temp_assigns(placed.store, saved) \in Back(n)
  BY <1>2, <1>4, <1>7, RestoreLoop
<1> DEFINE R == restore_temp_assigns(placed.store, saved)
<1>9. R = M
  <2> HIDE DEF R
  <2>1. R \in Stores({M.saves}) /\ Made(R.env, M.env, p, 1 .. n - n, made)
    BY <1>8 DEF R
  <2>2. 1 .. n - n = {}
    BY <1>2
  <2>3. R.env = M.env
    BY <1>2, <2>1, <2>2, MadeNone
  <2>4. R = [env |-> R.env, saves |-> M.saves] /\ M = [env |-> M.env, saves |-> M.saves]
    BY <2>1 DEF Stores
  <2> QED BY <2>3, <2>4
<1> QED BY <1>9 DEF placed, saved

(* v is what the right-hand side of a reads over E after the first j       *)
(* assignments of p.                                                       *)
ReadsAfter(E, p, j, a, v) ==
  /\ a.rhs \notin Names => v = a.rhs
  /\ a.rhs \in Names =>
       /\ \A i \in 1 .. j : p[i].key = a.rhs => v = p[i].value
       /\ (\A i \in 1 .. j : p[i].key # a.rhs) =>
            v = IF E[a.rhs].value = NoValue THEN Empty ELSE E[a.rhs].value

LEMMA ReadsOnce ==
  ASSUME NEW E, NEW p, NEW j, NEW a, NEW v, NEW w,
         ReadsAfter(E, p, j, a, v), ReadsAfter(E, p, j, a, w)
  PROVE  v = w
<1>1. CASE a.rhs \in Names /\ \E i \in 1 .. j : p[i].key = a.rhs
  BY <1>1 DEF ReadsAfter
<1>2. CASE a.rhs \in Names /\ \A i \in 1 .. j : p[i].key # a.rhs
  BY <1>2 DEF ReadsAfter
<1>3. CASE a.rhs \notin Names
  BY <1>3 DEF ReadsAfter
<1> QED BY <1>1, <1>2, <1>3

LEMMA ReadsAlike ==
  ASSUME NEW E, NEW p, NEW q, NEW j, NEW a, NEW v, \A i \in 1 .. j : p[i] = q[i],
         ReadsAfter(E, p, j, a, v)
  PROVE  ReadsAfter(E, q, j, a, v)
BY DEF ReadsAfter

(* An assignment reads the newest of those that were made, if none that    *)
(* makes the name it reads was refused.                                    *)
LEMMA AssignmentReads ==
  ASSUME NEW E \in [Names -> Record], NEW p, NEW j \in Nat, NEW D \in SUBSET (1 .. j), NEW made,
         NEW M, Made(M.env, E, p, D, made),
         \A i \in D : made[i].value = p[i].value /\ p[i].value \in Values,
         NEW a \in Assignment, \A i \in 1 .. j : p[i].key = a.rhs => i \in D
  PROVE  ReadsAfter(E, p, j, a, assignment_to_env(M, a).value)
<1> DEFINE v == assignment_to_env(M, a).value
<1>1. v = IF a.rhs \notin Names THEN a.rhs
          ELSE IF M.env[a.rhs].value = NoValue THEN Empty ELSE M.env[a.rhs].value
  BY DEF assignment_to_env
<1> HIDE DEF v
<1>2. ASSUME a.rhs \in Names, NEW i \in 1 .. j, p[i].key = a.rhs PROVE v = p[i].value
  <2>1. i \in D
    BY <1>2
  <2>2. M.env[a.rhs] = made[i]
    BY <1>2, <2>1 DEF Made
  <2>3. M.env[a.rhs].value = p[i].value /\ p[i].value # NoValue
    BY <2>1, <2>2, VarScopeAssumption
  <2> QED BY <1>1, <1>2, <2>3
<1>3. ASSUME a.rhs \in Names, \A i \in 1 .. j : p[i].key # a.rhs
      PROVE  v = IF E[a.rhs].value = NoValue THEN Empty ELSE E[a.rhs].value
  <2>1. M.env[a.rhs] = E[a.rhs]
    BY <1>3 DEF Made
  <2> QED BY <1>1, <1>3, <2>1
<1> QED BY <1>1, <1>2, <1>3 DEF ReadsAfter, v

(* Staging keeps the names and their number.                               *)
StagedKeys(acc, list, i) ==
  /\ acc.pre \in Seq(Staged) /\ Len(acc.pre) = i
  /\ \A k \in 1 .. i : acc.pre[k].key = list[k].key

LEMMA StageKeys ==
  ASSUME NEW S, NEW M \in Stores(S), NEW list \in Seq(Assignment)
  PROVE  StagedKeys(expand_assignments(M, list), list, Len(list))
<1> DEFINE n == Len(list)
           A == [store : Stores({M.saves}), pre : Seq(Staged)]
           I == [i \in Nat |-> {a \in A : StagedKeys(a, list, i)}]
           base == [store |-> M, pre |-> <<>>]
<1>1. n \in Nat /\ DOMAIN list = 1 .. n
  OBVIOUS
<1>2. \A i \in Nat : I[i] = {a \in A : StagedKeys(a, list, i)}
  OBVIOUS
<1>3. base \in I[0]
  <2>1. base \in A
    BY StoreAlone
  <2>2. base.pre = <<>>
    OBVIOUS
  <2>3. StagedKeys(base, list, 0)
    BY <2>2 DEF StagedKeys
  <2> HIDE DEF A, base, I
  <2> QED BY <1>2, <2>1, <2>3
<1>4. ASSUME NEW i \in 1 .. n, NEW a \in I[i - 1] PROVE StageOne(a, list[i]) \in I[i]
  <2> DEFINE P == apply_temp_assigns(a.store, a.pre)
             x == assignment_to_env(P.store, list[i])
             j == i - 1
  <2>1. i \in Nat /\ j \in Nat /\ i = j + 1 /\ list[i] \in Assignment
    BY <1>1
  <2> HIDE DEF I, A
  <2>2. a \in A /\ StagedKeys(a, list, j)
    BY <1>2, <2>1
  <2>3. a.store \in Stores({M.saves}) /\ a.pre \in Seq(Staged) /\ Len(a.pre) = j
        /\ \A k \in 1 .. j : a.pre[k].key = list[k].key
    BY <2>2 DEF StagedKeys, A
  <2> HIDE DEF j
  <2>4. P.store \in Stores({M.saves}) /\ P.saved \in Seq(Save)
    BY <2>3, PlaceTypes
  <2>5. StageOne(a, list[i]) =
          [store |-> restore_temp_assigns(P.store, P.saved), pre |-> Append(a.pre, x)]
    BY DEF StageOne
  <2> HIDE DEF P
  <2>6. restore_temp_assigns(P.store, P.saved) \in Stores({M.saves})
    BY <2>4, RestoreTypes
  <2>7. x \in Staged /\ x.key = list[i].key
    BY <2>1, <2>4, AssignmentStaged DEF Assignment
  <2> HIDE DEF x
  <2>8. Append(a.pre, x) \in Seq(Staged) /\ Len(Append(a.pre, x)) = i
        /\ \A k \in 1 .. i : Append(a.pre, x)[k].key = list[k].key
    BY <2>1, <2>3, <2>7
  <2>9. StageOne(a, list[i]) \in A
    BY <2>5, <2>6, <2>8 DEF A
  <2>10. StagedKeys(StageOne(a, list[i]), list, i)
    BY <2>5, <2>8 DEF StagedKeys
  <2> QED BY <1>2, <2>1, <2>9, <2>10
<1> HIDE DEF I, base, A
<1>5. Stages!Left(base, list) \in I[n]
  BY <1>1, <1>3, <1>4, Stages!LeftStaysIn
<1>6. StagedKeys(Stages!Left(base, list), list, n)
  BY <1>1, <1>2, <1>5
<1> QED BY <1>6, StageLoop DEF base

(* Staging leaves the store, and every right-hand side has read what the   *)
(* assignments before it make.                                             *)
StagedAs(acc, M, list, i) ==
  /\ StagedKeys(acc, list, i)
  /\ acc.store = M
  /\ \A k \in 1 .. i : ReadsAfter(M.env, acc.pre, k - 1, list[k], acc.pre[k].value)

LEMMA StageMeans ==
  ASSUME NEW S, NEW M \in Stores(S), NEW list \in Seq(Assignment), Distinct(list),
         \A k \in DOMAIN list : ~ Valueless(M, list[k].key)
  PROVE  StagedAs(expand_assignments(M, list), M, list, Len(list))
<1> DEFINE n == Len(list)
           A == [store : {M}, pre : Seq(Staged)]
           I == [i \in Nat |-> {a \in A : StagedAs(a, M, list, i)}]
           base == [store |-> M, pre |-> <<>>]
           E == M.env
<1>1. n \in Nat /\ DOMAIN list = 1 .. n /\ E \in [Names -> Record]
  BY DEF Stores
<1>2. \A i \in Nat : I[i] = {a \in A : StagedAs(a, M, list, i)}
  OBVIOUS
<1> HIDE DEF E
<1>3. base \in I[0]
  <2>1. base \in A /\ base.pre = <<>> /\ base.store = M
    OBVIOUS
  <2>2. StagedAs(base, M, list, 0)
    BY <2>1 DEF StagedAs, StagedKeys
  <2> HIDE DEF A, base, I
  <2> QED BY <1>2, <2>1, <2>2
<1>4. ASSUME NEW i \in 1 .. n, NEW a \in I[i - 1] PROVE StageOne(a, list[i]) \in I[i]
  <2> DEFINE p == a.pre
             P == apply_temp_assigns(M, p)
             x == assignment_to_env(P.store, list[i])
             j == i - 1
             q == Append(p, x)
  <2>1. i \in Nat /\ j \in Nat /\ i = j + 1 /\ list[i] \in Assignment /\ 1 .. j \subseteq 1 .. n
        /\ \A k \in 1 .. i : k \in 1 .. j \/ k = i
    BY <1>1
  <2> HIDE DEF I
  <2>2. a \in A /\ StagedAs(a, M, list, j)
    BY <1>2, <2>1
  <2>3. /\ a.store = M /\ p \in Seq(Staged) /\ Len(p) = j
        /\ \A k \in 1 .. j : p[k].key = list[k].key
        /\ \A k \in 1 .. j : ReadsAfter(E, p, k - 1, list[k], p[k].value)
    BY <2>2 DEF StagedAs, StagedKeys, E
  <2>4. DOMAIN p = 1 .. j
    BY <2>1, <2>3
  <2>5. StageOne(a, list[i]) =
          [store |-> restore_temp_assigns(P.store, P.saved), pre |-> q]
    BY <2>3 DEF StageOne
  <2> HIDE DEF p, j, A
  <2>6. Distinct(p) /\ \A k \in DOMAIN p : ~ Valueless(M, p[k].key)
    BY <1>1, <2>1, <2>3, <2>4 DEF Distinct
  <2>7. restore_temp_assigns(P.store, P.saved) = M
    BY <2>3, <2>6, PlaceUndone
  <2>8. Placed(P, M, p, j)
    BY <2>3, <2>6, PlaceMakes
  <2>9. Made(P.store.env, E, p, 1 .. j, PlainRecords(E, p)) /\ P.store \in Stores({M.saves})
    BY <2>8 DEF Placed, E
  <2>10. x \in Staged /\ x.key = list[i].key
    BY <2>1, <2>9, AssignmentStaged DEF Assignment
  <2>11. ReadsAfter(E, p, j, list[i], x.value)
    <3> DEFINE made == PlainRecords(E, p)
               N == P.store
    <3>1. ASSUME NEW k \in 1 .. j
          PROVE  made[k].value = p[k].value /\ p[k].value \in Values
      <4>1. k \in DOMAIN p
        BY <2>4
      <4>2. p[k].value \in Values /\ made[k] = env_create(p[k].value, E[p[k].key].exported)
        BY <1>1, <2>3, <4>1, RecordsTypes
      <4> QED BY <4>2 DEF env_create
    <3>2. Made(N.env, E, p, 1 .. j, made) /\ 1 .. j \in SUBSET (1 .. j)
      BY <2>9
    <3> HIDE DEF made, N
    <3>3. ReadsAfter(E, p, j, list[i], assignment_to_env(N, list[i]).value)
      BY <1>1, <2>1, <3>1, <3>2, AssignmentReads
    <3> QED BY <3>3 DEF N
  <2> HIDE DEF x, P
  <2>12. /\ q \in Seq(Staged) /\ Len(q) = i
         /\ \A k \in 1 .. j : q[k] = p[k]
         /\ q[i] = x
    BY <2>1, <2>3, <2>10
  <2> HIDE DEF q
  <2>13. \A k \in 1 .. i : q[k].key = list[k].key
    BY <2>1, <2>3, <2>10, <2>12
  <2>14. ASSUME NEW k \in 1 .. i PROVE ReadsAfter(E, q, k - 1, list[k], q[k].value)
    <3>1. \A h \in 1 .. k - 1 : h \in 1 .. j /\ p[h] = q[h]
      BY <2>1, <2>12
    <3>2. ReadsAfter(E, p, k - 1, list[k], q[k].value)
      <4>1. CASE k \in 1 .. j
        BY <2>3, <2>12, <4>1
      <4>2. CASE k = i
        <5>1. k - 1 = j
          BY <2>1, <4>2
        <5> QED BY <2>11, <2>12, <4>2, <5>1
      <4> QED BY <2>1, <4>1, <4>2
    <3> QED BY <3>1, <3>2, ReadsAlike
  <2> DEFINE T == StageOne(a, list[i])
  <2>15. T.store = M /\ T.pre = q /\ T \in A
    BY <2>5, <2>7, <2>12 DEF A
  <2> HIDE DEF T
  <2>16. StagedAs(T, M, list, i)
    BY <2>12, <2>13, <2>14, <2>15 DEF StagedAs, StagedKeys, E
  <2>17. T \in I[i]
    BY <1>2, <2>1, <2>15, <2>16
  <2> QED BY <2>17 DEF T
<1> HIDE DEF I, base, A
<1>5. Stages!Left(base, list) \in I[n]
  BY <1>1, <1>3, <1>4, Stages!LeftStaysIn
<1>6. StagedAs(Stages!Left(base, list), M, list, n)
  BY <1>1, <1>2, <1>5
<1> QED BY <1>6, StageLoop DEF base

(* The places from..to of p whose names are not read-only.                 *)
Taken(p, from, to) == {k \in from .. to : p[k].key \notin readonly_vars}

(* One assignment of a command of assignments.                             *)
LEMMA AssignMakesOne ==
  ASSUME NEW S, NEW M \in Stores(S), NEW p \in Seq(Staged), Distinct(p),
         NEW D \in SUBSET DOMAIN p, NEW k \in DOMAIN p, k \notin D,
         NEW a \in Stores({M.saves}), Made(a.env, M.env, p, D, AssignRecords(M.env, p))
  PROVE  /\ AssignOne(a, p[k]) \in Stores({M.saves})
         /\ Made(AssignOne(a, p[k]).env, M.env, p,
                 IF p[k].key \in readonly_vars THEN D ELSE D \cup {k}, AssignRecords(M.env, p))
<1> DEFINE made == AssignRecords(M.env, p)
           N == env_set(a, p[k].key, p[k].value, AllExport)
<1>1. M.env \in [Names -> Record]
  BY DEF Stores
<1>2. p[k].key \in Names /\ p[k].value \in Values /\ made[k] \in Record
      /\ made[k] = env_create(p[k].value, M.env[p[k].key].exported \/ AllExport)
  BY <1>1, RecordsTypes
<1>3. \A i \in D : p[i].key # p[k].key
  BY DEF Distinct
<1>4. a.env[p[k].key] = M.env[p[k].key]
  BY <1>2, <1>3 DEF Made
<1>5. N \in Stores({M.saves})
      /\ N.env = [a.env EXCEPT ![p[k].key] =
                    env_create(p[k].value, a.env[p[k].key].exported \/ AllExport)]
  BY <1>2, SetStore, VarScopeAssumption
<1>6. N.env = [a.env EXCEPT ![p[k].key] = made[k]]
  BY <1>2, <1>4, <1>5
<1> HIDE DEF N, made
<1>7. Made([a.env EXCEPT ![p[k].key] = made[k]], M.env, p, D \cup {k}, made)
  BY <1>2, <1>3, MadeMore DEF made
<1>8. AssignOne(a, p[k]) = IF p[k].key \in readonly_vars THEN a ELSE N
  BY DEF AssignOne, N
<1> QED BY <1>5, <1>6, <1>7, <1>8 DEF made

(* From its end.                                                           *)
LEMMA AssignMakes ==
  ASSUME NEW S, NEW M \in Stores(S), NEW p \in Seq(Staged), Distinct(p)
  PROVE  Made(apply_pre_assigns(M, p).env, M.env, p, Taken(p, 1, Len(p)), AssignRecords(M.env, p))
<1> DEFINE n == Len(p)
           made == AssignRecords(M.env, p)
           In(i) == {a \in Stores({M.saves}) : Made(a.env, M.env, p, Taken(p, n - i + 1, n), made)}
           I == [i \in Nat |-> In(i)]
<1>1. n \in Nat /\ DOMAIN p = 1 .. n /\ M.env \in [Names -> Record]
  BY DEF Stores
<1>2. \A i \in Nat : I[i] = In(i)
  OBVIOUS
<1> HIDE DEF made
<1>3. M \in I[0]
  <2>1. Taken(p, n - 0 + 1, n) = {}
    BY <1>1 DEF Taken
  <2>2. M \in Stores({M.saves}) /\ Made(M.env, M.env, p, {}, made)
    BY <1>1, StoreAlone, MadeNone
  <2>3. M \in In(0)
    BY <2>1, <2>2
  <2> HIDE DEF I, In
  <2> QED BY <1>2, <2>3
<1>4. ASSUME NEW i \in 1 .. n, NEW a \in I[i - 1] PROVE AssignOne(a, p[n - i + 1]) \in I[i]
  <2> DEFINE k == n - i + 1
             D == Taken(p, k + 1, n)
             T == AssignOne(a, p[k])
  <2>1. k \in 1 .. n /\ n - (i - 1) + 1 = k + 1 /\ i \in Nat /\ i - 1 \in Nat
        /\ k .. n = (k + 1 .. n) \cup {k} /\ k \notin k + 1 .. n /\ k + 1 .. n \subseteq 1 .. n
    BY <1>1
  <2> HIDE DEF I
  <2>2. a \in In(i - 1)
    BY <1>2, <2>1
  <2>3. a \in Stores({M.saves}) /\ Made(a.env, M.env, p, D, made)
    BY <2>1, <2>2
  <2> HIDE DEF k
  <2>4. /\ D \in SUBSET DOMAIN p /\ k \in DOMAIN p /\ k \notin D
        /\ Taken(p, k, n) = IF p[k].key \in readonly_vars THEN D ELSE D \cup {k}
    BY <1>1, <2>1 DEF Taken
  <2> HIDE DEF D
  <2>5. T \in Stores({M.saves})
        /\ Made(T.env, M.env, p, IF p[k].key \in readonly_vars THEN D ELSE D \cup {k}, made)
    BY <2>3, <2>4, AssignMakesOne DEF made
  <2> HIDE DEF T
  <2>6. T \in In(i)
    BY <2>4, <2>5 DEF k
  <2> HIDE DEF In
  <2>7. T \in I[i]
    BY <1>2, <2>1, <2>6
  <2> QED BY <2>7 DEF T, k
<1> HIDE DEF I
<1>5. Assigns!Right(p, M) \in I[n]
  BY <1>1, <1>3, <1>4, Assigns!RightStaysIn
<1>6. apply_pre_assigns(M, p) \in In(n)
  BY <1>1, <1>2, <1>5, AssignLoop
<1>7. n - n + 1 = 1
  BY <1>1
<1> QED BY <1>6, <1>7 DEF made

(* In the order they are written, when no right-hand side reads a name     *)
(* whose assignment before it was refused.                                 *)
LEMMA MeanMakes ==
  ASSUME NEW S, NEW M \in Stores(S), NEW list \in Seq(Assignment), NEW acc,
         StagedAs(acc, M, list, Len(list)), Distinct(list),
         \A i, j \in DOMAIN list :
           i < j /\ list[j].rhs = list[i].key => list[i].key \notin readonly_vars
  PROVE  Made(Means!Left(M, list).env, M.env, acc.pre, Taken(acc.pre, 1, Len(list)),
              AssignRecords(M.env, acc.pre))
<1> DEFINE n == Len(list)
           p == acc.pre
           E == M.env
           made == AssignRecords(E, p)
           In(i) == {a \in Stores({M.saves}) : Made(a.env, E, p, Taken(p, 1, i), made)}
           I == [i \in Nat |-> In(i)]
<1>1. n \in Nat /\ DOMAIN list = 1 .. n /\ E \in [Names -> Record]
  BY DEF Stores
<1>2. \A i \in Nat : I[i] = In(i)
  OBVIOUS
<1> HIDE DEF made, p, E
<1>3. p \in Seq(Staged) /\ Len(p) = n /\ DOMAIN p = 1 .. n
      /\ (\A k \in 1 .. n : p[k].key = list[k].key)
      /\ (\A k \in 1 .. n : ReadsAfter(E, p, k - 1, list[k], p[k].value))
  BY <1>1 DEF StagedAs, StagedKeys, p, E
<1>4. Distinct(p)
  BY <1>1, <1>3 DEF Distinct
<1>5. M \in I[0]
  <2>1. Taken(p, 1, 0) = {}
    BY DEF Taken
  <2>2. M \in Stores({M.saves}) /\ Made(M.env, E, p, {}, made)
    BY <1>1, StoreAlone, MadeNone DEF E
  <2>3. M \in In(0)
    BY <2>1, <2>2
  <2> HIDE DEF I, In
  <2> QED BY <1>2, <2>3
<1>6. ASSUME NEW i \in 1 .. n, NEW a \in I[i - 1] PROVE MeanOne(a, list[i]) \in I[i]
  <2> DEFINE j == i - 1
             D == Taken(p, 1, j)
             got == assignment_to_env(a, list[i])
             T == AssignOne(a, p[i])
  <2>1. i \in Nat /\ j \in Nat /\ i = j + 1 /\ 1 .. i = (1 .. j) \cup {i} /\ i \notin 1 .. j
        /\ 1 .. j \subseteq 1 .. n /\ list[i] \in Assignment
        /\ \A h \in 1 .. j : h < i /\ h \in DOMAIN list
    BY <1>1
  <2> HIDE DEF I
  <2>2. a \in In(j)
    BY <1>2, <2>1
  <2>3. a \in Stores({M.saves}) /\ Made(a.env, E, p, D, made)
    BY <2>2
  <2>4. D \in SUBSET DOMAIN p /\ i \in DOMAIN p /\ i \notin D /\ D \in SUBSET (1 .. j)
        /\ Taken(p, 1, i) = IF p[i].key \in readonly_vars THEN D ELSE D \cup {i}
    BY <1>3, <2>1 DEF Taken
  <2>5. \A h \in 1 .. j : p[h].key = list[i].rhs => h \in D
    BY <1>1, <1>3, <2>1 DEF Taken
  <2> HIDE DEF D
  <2>6. ASSUME NEW h \in D PROVE made[h].value = p[h].value /\ p[h].value \in Values
    <3>1. made[h] = env_create(p[h].value, E[p[h].key].exported \/ AllExport) /\ p[h].value \in Values
      BY <1>1, <1>3, <2>4, RecordsTypes DEF made
    <3> QED BY <3>1 DEF env_create
  <2>7. ReadsAfter(E, p, j, list[i], got.value)
    BY <1>1, <2>1, <2>3, <2>4, <2>5, <2>6, AssignmentReads
  <2>8. ReadsAfter(E, p, j, list[i], p[i].value)
    BY <1>3
  <2> HIDE DEF j
  <2>9. got.value = p[i].value
    BY <2>7, <2>8, ReadsOnce
  <2>10. got.key = p[i].key
    BY <1>3 DEF assignment_to_env
  <2>11. MeanOne(a, list[i]) = T
    BY <2>9, <2>10 DEF MeanOne, AssignOne
  <2>12. T \in Stores({M.saves})
         /\ Made(T.env, E, p, IF p[i].key \in readonly_vars THEN D ELSE D \cup {i}, made)
    BY <1>3, <1>4, <2>3, <2>4, AssignMakesOne DEF made, E
  <2> HIDE DEF T
  <2>13. T \in In(i)
    BY <2>4, <2>12
  <2> HIDE DEF In
  <2> QED BY <1>2, <2>1, <2>11, <2>13
<1> HIDE DEF I
<1>7. Means!Left(M, list) \in I[n]
  BY <1>1, <1>5, <1>6, Means!LeftStaysIn
<1>8. Means!Left(M, list) \in In(n)
  BY <1>1, <1>2, <1>7
<1> QED BY <1>8 DEF made, p, E

(* As many names as assignments: no name twice.                            *)
LEMMA AllDistinct ==
  ASSUME NEW p \in Seq(Staged), ~ (Cardinality(Keys(p)) < Len(p))
  PROVE  Distinct(p)
<1> DEFINE n == Len(p)
           f == [i \in 1 .. n |-> p[i].key]
           D == 1 .. n
           T == Keys(p)
<1>1. n \in Nat /\ DOMAIN p = D
  OBVIOUS
<1>2. IsFiniteSet(D) /\ Cardinality(D) = n
  <2>1. 1 \in Int /\ n \in Int
    BY <1>1
  <2>2. IsFiniteSet(1 .. n) /\ Cardinality(1 .. n) = IF 1 > n THEN 0 ELSE n - 1 + 1
    BY <2>1, FS_Interval
  <2> QED BY <1>1, <2>2
<1>3. f \in Surjection(D, T)
  BY <1>1 DEF Surjection, Keys
<1>4. \A i \in D : f[i] = p[i].key
  OBVIOUS
<1> HIDE DEF f, D
<1>5. IsFiniteSet(T) /\ Cardinality(T) <= Cardinality(D)
      /\ (Cardinality(T) = Cardinality(D) <=> f \in Injection(D, T))
  BY <1>2, <1>3, FS_Surjection
<1>6. Cardinality(T) \in Nat
  BY <1>5, FS_CardinalityType
<1>7. Cardinality(T) = n
  BY <1>1, <1>2, <1>5, <1>6
<1>8. f \in Injection(D, T)
  BY <1>2, <1>5, <1>7
<1>9. \A i, j \in D : f[i] = f[j] => i = j
  BY <1>8 DEF Injection, IsInjective
<1> QED BY <1>1, <1>4, <1>9 DEF Distinct

(* No list reads a name that `readonly` is used on after assigning it.     *)
ReadsNothingRefused ==
  \A list \in Lists : \A i, j \in DOMAIN list :
    i < j /\ list[j].rhs = list[i].key => list[i].key \notin ReadonlyNames

LEMMA ListMeans ==
  ASSUME Sound, "repeated" \notin Unusual, "valueless" \notin Unusual, ReadsNothingRefused,
         NEW list \in Lists, UsualList(expand_assignments(Store, list))
  PROVE  Assigned(list).env = InOrder(list)
<1> DEFINE staged == expand_assignments(Store, list)
           p == staged.pre
           n == Len(list)
           S == Layered(func_depth)
<1>1. list \in Seq(Assignment) /\ Store \in Stores(S)
  BY SoundStore, VarScopeAssumption DEF Assignment
<1> HIDE DEF S
<1>2. DOMAIN list = 1 .. n /\ n \in Nat
  BY <1>1
<1>3. StagedKeys(staged, list, n)
  BY <1>1, StageKeys
<1>4. ~ (Cardinality(Keys(p)) < Len(p)) /\ \A k \in Keys(p) : ~ Valueless(Store, k)
  BY DEF UsualList, With
<1> HIDE DEF staged
<1>5. p \in Seq(Staged) /\ Len(p) = n /\ DOMAIN p = 1 .. n /\ \A k \in 1 .. n : p[k].key = list[k].key
  BY <1>2, <1>3 DEF StagedKeys
<1>6. Distinct(p)
  BY <1>4, <1>5, AllDistinct
<1>7. Distinct(list)
  BY <1>2, <1>5, <1>6 DEF Distinct
<1>8. \A k \in DOMAIN list : ~ Valueless(Store, list[k].key)
  BY <1>2, <1>4, <1>5 DEF Keys
<1>9. StagedAs(staged, Store, list, n)
  BY <1>1, <1>7, <1>8, StageMeans DEF staged
<1>10. staged.store = Store
  BY <1>9 DEF StagedAs
<1>11. \A i, j \in DOMAIN list :
         i < j /\ list[j].rhs = list[i].key => list[i].key \notin readonly_vars
  BY DEF ReadsNothingRefused, Sound
<1> DEFINE F == apply_pre_assigns(Store, p).env
           G == Means!Left(Store, list).env
           E == Store.env
           D == Taken(p, 1, n)
           made == AssignRecords(E, p)
<1>12. Made(F, E, p, D, made)
  BY <1>1, <1>5, <1>6, AssignMakes
<1>13. Made(G, E, p, D, made)
  BY <1>1, <1>7, <1>9, <1>11, MeanMakes
<1>14. Assigned(list).env = F
  BY <1>10 DEF Assigned, staged
<1>15. InOrder(list) = G
  BY MeanLoop
<1> HIDE DEF F, G, E, D, made, p
<1>16. F = G
  BY <1>12, <1>13, MadeOnce
<1> QED BY <1>14, <1>15, <1>16

(* The saves of a returning call lie on top of those of its callers        *)
(* (scope_save, scope_leave), and a command of assignments makes them in   *)
(* the order they are written, each right-hand side seeing those before it *)
(* (expand_assignments, apply_pre_assigns), though the code stages them    *)
(* and applies them from their end.  Not for a list with a name twice, a   *)
(* saved name without a value, or the value of a name whose assignment was *)
(* refused: x=1 y=$x after `readonly x` gives y the refused value.         *)
THEOREM TableIsLayered ==
  ASSUME "repeated" \notin Unusual, "valueless" \notin Unusual, ReadsNothingRefused
  PROVE  Spec => []TableLayered
<1>1. Sound => TypeOK
  BY VarScopeAssumption DEF Sound, TypeOK, Layered
<1>2. Sound => ScopesLayered
  BY DEF Sound, ScopesLayered, Layered
<1>3. Sound => LeftToRight
  BY ListMeans DEF LeftToRight
<1>4. Sound => TableLayered
  BY <1>1, <1>2, <1>3 DEF TableLayered
<1> QED BY <1>4, SoundAlways, PTL

(* Types and layers alone hold for any lists and uses.                     *)
THEOREM ScopesStacked == Spec => [](TypeOK /\ ScopesLayered)
<1>1. Sound => TypeOK /\ ScopesLayered
  BY VarScopeAssumption DEF Sound, TypeOK, ScopesLayered, Layered
<1> QED BY <1>1, SoundAlways, PTL

-----------------------------------------------------------------------------
(* The scopes the table stands for.                                        *)

(* L[i] has the values the names of layer i had before it was made.        *)
Hides(L, j, n) == n \in DOMAIN L[j]
Open(L, top, i, n) == \A j \in i + 1 .. top : ~ Hides(L, j, n)
Shows(L, i, j, n) == Hides(L, j, n) /\ \A h \in i + 1 .. j - 1 : ~ Hides(L, h, n)
Meant(E, L, top, i, n) ==
  LET above == {j \in i + 1 .. top : n \in DOMAIN L[j]}
  IN  IF above = {} THEN E[n].value ELSE L[Min(above)][n]
Cells(E, L, top) ==
  [i \in 1 .. top |-> [n \in (IF i = 1 THEN Names ELSE DOMAIN L[i]) |-> Meant(E, L, top, i, n)]]

LEMMA LeastIs ==
  ASSUME NEW T, T \subseteq Nat, NEW m \in T, \A y \in T : m <= y
  PROVE  Min(T) = m
<1>1. \E x \in T : \A y \in T : x <= y
  OBVIOUS
<1>2. Min(T) \in T /\ \A y \in T : Min(T) <= y
  BY <1>1 DEF Min
<1>3. Min(T) <= m /\ m <= Min(T) /\ Min(T) \in Nat /\ m \in Nat
  BY <1>2
<1> QED BY <1>3

(* What a name means below: the lowest layer that hides it knows.          *)
LEMMA MeantOpen ==
  ASSUME NEW E, NEW L, NEW top, NEW i, NEW n, Open(L, top, i, n)
  PROVE  Meant(E, L, top, i, n) = E[n].value
BY DEF Meant, Hides, Open

LEMMA MeantHidden ==
  ASSUME NEW E, NEW L, NEW top \in Nat, NEW i \in Nat, NEW n,
         NEW j \in i + 1 .. top, Shows(L, i, j, n)
  PROVE  Meant(E, L, top, i, n) = L[j][n]
<1> DEFINE above == {h \in i + 1 .. top : n \in DOMAIN L[h]}
<1>1. above \subseteq Nat /\ j \in above
  BY DEF Hides, Shows
<1>2. \A h \in above : j <= h
  BY DEF Hides, Shows
<1>3. Min(above) = j
  <2> HIDE DEF above
  <2> QED BY <1>1, <1>2, LeastIs
<1> QED BY <1>1, <1>3 DEF Meant

LEMMA LowestHides ==
  ASSUME NEW L, NEW top \in Nat, NEW i \in Nat, NEW n
  PROVE  Open(L, top, i, n) \/ \E j \in i + 1 .. top : Shows(L, i, j, n)
<1> DEFINE above == {h \in i + 1 .. top : Hides(L, h, n)}
<1>1. CASE above = {}
  BY <1>1 DEF Open
<1>2. CASE above # {}
  <2>1. above \subseteq Nat
    OBVIOUS
  <2>2. PICK j \in above : \A y \in above : j <= y
    <3> HIDE DEF above
    <3> QED BY <1>2, <2>1, Places!LowestOf
  <2>3. j \in i + 1 .. top /\ Hides(L, j, n)
    OBVIOUS
  <2>4. \A h \in i + 1 .. j - 1 : ~ Hides(L, h, n)
    BY <2>2, <2>3
  <2> QED BY <2>3, <2>4 DEF Shows
<1> QED BY <1>1, <1>2

LEMMA ShowsSecond ==
  ASSUME NEW L, NEW i \in Nat, NEW n, ~ Hides(L, i + 1, n), Hides(L, i + 2, n)
  PROVE  Shows(L, i, i + 2, n)
<1>1. \A h \in i + 1 .. (i + 2) - 1 : h = i + 1
  OBVIOUS
<1> QED BY <1>1 DEF Shows

(* Two stacks that hide a name in the same way mean the same by it.        *)
Covered(L, top, R, end, i, n) ==
  \A j \in i + 1 .. top : Hides(L, j, n) => j <= end /\ Hides(R, j, n) /\ R[j][n] = L[j][n]

LEMMA MeantAlike ==
  ASSUME NEW E, NEW L, NEW top \in Nat, NEW F, NEW R, NEW end \in Nat, NEW i \in Nat, NEW n,
         Covered(L, top, R, end, i, n), Covered(R, end, L, top, i, n),
         Open(L, top, i, n) => F[n].value = E[n].value
  PROVE  Meant(F, R, end, i, n) = Meant(E, L, top, i, n)
<1>1. CASE Open(L, top, i, n)
  <2>1. Open(R, end, i, n)
    BY <1>1 DEF Open, Covered
  <2> QED BY <1>1, <2>1, MeantOpen
<1>2. CASE ~ Open(L, top, i, n)
  <2>1. PICK j \in i + 1 .. top : Shows(L, i, j, n)
    BY <1>2, LowestHides
  <2>2. j \in i + 1 .. end /\ Hides(R, j, n) /\ R[j][n] = L[j][n]
    BY <2>1 DEF Covered, Shows
  <2>3. Shows(R, i, j, n)
    BY <2>1, <2>2 DEF Covered, Shows
  <2>4. Meant(E, L, top, i, n) = L[j][n]
    BY <2>1, MeantHidden
  <2>5. Meant(F, R, end, i, n) = R[j][n]
    BY <2>2, <2>3, MeantHidden
  <2> QED BY <2>2, <2>4, <2>5
<1> QED BY <1>1, <1>2

Stack(L, top) == /\ top \in Nat /\ top >= 1
                 /\ \A j \in 1 .. top : DOMAIN L[j] \subseteq Names

LEMMA CellsAre ==
  ASSUME NEW E, NEW L, NEW top, Stack(L, top)
  PROVE  /\ DOMAIN Cells(E, L, top) = 1 .. top
         /\ Len(Cells(E, L, top)) = top
         /\ \A i \in 1 .. top : /\ DOMAIN Cells(E, L, top)[i] = (IF i = 1 THEN Names ELSE DOMAIN L[i])
                                /\ \A n \in DOMAIN Cells(E, L, top)[i] :
                                     Cells(E, L, top)[i][n] = Meant(E, L, top, i, n) /\ n \in Names
<1>1. DOMAIN Cells(E, L, top) = 1 .. top
  BY DEF Cells
<1>2. Len(Cells(E, L, top)) = top
  BY DEF Cells, Stack
<1> QED BY <1>1, <1>2 DEF Cells, Stack

(* The newest cell of a name is the one that no layer hides.               *)
LEMMA NewestIs ==
  ASSUME NEW E, NEW L, NEW top, Stack(L, top), NEW k \in 1 .. top,
         NEW n \in DOMAIN Cells(E, L, top)[k]
  PROVE  k = Scopes!Newest(Cells(E, L, top), n) <=> Open(L, top, k, n)
<1> DEFINE c == Cells(E, L, top)
           having == {j \in DOMAIN c : n \in DOMAIN c[j]}
<1>1. DOMAIN c = 1 .. top /\ n \in Names
      /\ \A j \in 1 .. top : DOMAIN c[j] = (IF j = 1 THEN Names ELSE DOMAIN L[j])
  BY CellsAre
<1>2. having \subseteq 1 .. top /\ k \in having
  BY <1>1
<1>3. top \in Nat
  BY DEF Stack
<1>4. \A j \in k + 1 .. top : j \in having <=> Hides(L, j, n)
  BY <1>1, <1>3 DEF Hides
<1>5. Scopes!Newest(c, n) = Scopes!Max(having)
  BY DEF Scopes!Newest
<1> HIDE DEF having, c
<1>6. PICK m \in having : \A y \in having : m >= y
  <2>1. having # {}
    BY <1>2
  <2> QED BY <1>2, <1>3, <2>1, Places!HighestOf
<1>7. Scopes!Max(having) = m
  <2>1. \A x, y \in having : x \in Nat /\ y \in Nat
    BY <1>2, <1>3
  <2>2. Scopes!Max(having) \in having /\ \A y \in having : Scopes!Max(having) >= y
    BY <1>6 DEF Scopes!Max
  <2>3. Scopes!Max(having) >= m /\ m >= Scopes!Max(having)
    BY <1>6, <2>2
  <2> QED BY <2>1, <2>2, <2>3
<1>8. m \in 1 .. top /\ m >= k
  BY <1>2, <1>6
<1>9. k = m <=> \A j \in k + 1 .. top : j \notin having
  <2>1. k = m => \A j \in k + 1 .. top : j \notin having
    BY <1>6, <1>8
  <2>2. k # m => m \in k + 1 .. top
    BY <1>8, <1>3
  <2> QED BY <2>1, <2>2, <1>6
<1> QED BY <1>4, <1>5, <1>7, <1>9 DEF c, Open


Held(L, i) == IF i = 1 THEN Names ELSE DOMAIN L[i]

(* c is a sequence of top layers, each a function.                         *)
Layers(c, top) == c = [i \in 1 .. top |-> c[i]]
                  /\ \A i \in 1 .. top : c[i] = [n \in DOMAIN c[i] |-> c[i][n]]
Tells(c, E, L, top) ==
  \A i \in 1 .. top : /\ DOMAIN c[i] = Held(L, i)
                      /\ \A n \in Held(L, i) : c[i][n] = Meant(E, L, top, i, n)

LEMMA CellsMean ==
  ASSUME NEW E, NEW L, NEW top, Stack(L, top)
  PROVE  /\ Layers(Cells(E, L, top), top) /\ Tells(Cells(E, L, top), E, L, top)
         /\ DOMAIN Cells(E, L, top) = 1 .. top /\ Len(Cells(E, L, top)) = top
         /\ \A i \in 1 .. top : Held(L, i) \subseteq Names
<1>1. DOMAIN Cells(E, L, top) = 1 .. top /\ Len(Cells(E, L, top)) = top
  BY DEF Cells, Stack
<1> QED BY <1>1 DEF Cells, Stack, Layers, Tells, Held

LEMMA CellsBuilt ==
  ASSUME NEW E, NEW L, NEW top, NEW c, Layers(c, top), Tells(c, E, L, top)
  PROVE  Cells(E, L, top) = c
<1>1. \A i \in 1 .. top : c[i] = [n \in Held(L, i) |-> Meant(E, L, top, i, n)]
  BY DEF Layers, Tells
<1>2. c = [i \in 1 .. top |-> [n \in Held(L, i) |-> Meant(E, L, top, i, n)]]
  BY <1>1 DEF Layers
<1> QED BY <1>2 DEF Cells, Held

(* Writing reaches the newest cells.                                       *)
LEMMA WriteSim ==
  ASSUME NEW E, NEW F, NEW L, NEW top, Stack(L, top), NEW new, DOMAIN new \subseteq Names,
         \A n \in Names : F[n].value = IF n \in DOMAIN new THEN new[n] ELSE E[n].value
  PROVE  Cells(F, L, top) = Scopes!Written(Cells(E, L, top), new)
<1> DEFINE c == Cells(E, L, top)
           w == Scopes!Written(c, new)
<1>1. DOMAIN c = 1 .. top /\ top \in Nat /\ Layers(c, top) /\ Tells(c, E, L, top)
      /\ \A i \in 1 .. top : Held(L, i) \subseteq Names
  BY CellsMean DEF Stack
<1>2. \A i \in 1 .. top : \A n \in Held(L, i) :
        i = Scopes!Newest(c, n) <=> Open(L, top, i, n)
  BY <1>1, NewestIs DEF Tells
<1> HIDE DEF c
<1>3. w = [i \in 1 .. top |-> [n \in Held(L, i) |->
             IF n \in DOMAIN new /\ i = Scopes!Newest(c, n) THEN new[n] ELSE c[i][n]]]
  BY <1>1 DEF Scopes!Written, Tells
<1>4. ASSUME NEW i \in 1 .. top, NEW n \in Held(L, i)
      PROVE  w[i][n] = Meant(F, L, top, i, n)
  <2>1. w[i][n] = IF n \in DOMAIN new /\ i = Scopes!Newest(c, n) THEN new[n] ELSE c[i][n]
    BY <1>3
  <2>2. n \in Names /\ c[i][n] = Meant(E, L, top, i, n) /\ i \in Nat
    BY <1>1 DEF Tells
  <2>3. CASE Open(L, top, i, n)
    <3>1. Meant(E, L, top, i, n) = E[n].value /\ Meant(F, L, top, i, n) = F[n].value
      BY <2>3, MeantOpen
    <3> QED BY <1>2, <2>1, <2>2, <2>3, <3>1
  <2>4. CASE ~ Open(L, top, i, n)
    <3>1. Covered(L, top, L, top, i, n)
      BY <1>1, <2>2 DEF Covered
    <3>2. Meant(F, L, top, i, n) = Meant(E, L, top, i, n)
      BY <1>1, <2>2, <2>4, <3>1, MeantAlike
    <3> QED BY <1>2, <2>1, <2>2, <2>4, <3>2
  <2> QED BY <2>3, <2>4
<1> HIDE DEF w
<1>5. Layers(w, top) /\ \A i \in 1 .. top : DOMAIN w[i] = Held(L, i)
  BY <1>3 DEF Layers
<1>6. Tells(w, F, L, top)
  BY <1>4, <1>5 DEF Tells
<1>7. Cells(F, L, top) = w
  BY <1>5, <1>6, CellsBuilt
<1> QED BY <1>7 DEF w, c

(* Layer j of R hides names as layer j of L does.                          *)
Same(L, R, j) == \A n : (Hides(R, j, n) <=> Hides(L, j, n))
                        /\ (Hides(L, j, n) => R[j][n] = L[j][n])

(* A call: a layer of what its prefix hides, and one for its locals.       *)
CallMade(E, F, L, R, top, K) ==
  /\ \A j \in 1 .. top : Same(L, R, j)
  /\ DOMAIN R[top + 1] = K /\ \A n \in K : R[top + 1][n] = E[n].value
  /\ DOMAIN R[top + 2] = {}
  /\ \A n \in Names \ K : F[n].value = E[n].value
ValuesOf(F, K) == [n \in K |-> F[n].value]
Called(c, prefix) == c \o << prefix, <<>> >>

LEMMA CallSim ==
  ASSUME NEW E, NEW F, NEW L, NEW top, Stack(L, top), NEW R, NEW K \in SUBSET Names,
         CallMade(E, F, L, R, top, K)
  PROVE  Cells(F, R, top + 2) = Called(Cells(E, L, top), ValuesOf(F, K))
<1> USE DEF CallMade
<1> DEFINE c == Cells(E, L, top)
           prefix == ValuesOf(F, K)
           T == {c[i] : i \in 1 .. top} \cup {prefix, <<>>}
           w == c \o <<prefix, <<>>>>
           end == top + 2
<1>1. DOMAIN c = 1 .. top /\ Len(c) = top /\ top \in Nat /\ top >= 1
      /\ Layers(c, top) /\ Tells(c, E, L, top) /\ \A i \in 1 .. top : Held(L, i) \subseteq Names
  BY CellsMean DEF Stack
<1>2. end \in Nat /\ end = top + 2 /\ \A i \in 1 .. end : i \in 1 .. top \/ i = top + 1 \/ i = top + 2
  BY <1>1
<1>3. \A i \in 1 .. top : Held(R, i) = Held(L, i)
  BY DEF Held, Same, Hides
<1> HIDE DEF c, prefix, end
<1>4. c \in Seq(T) /\ <<prefix, <<>>>> \in Seq(T)
  BY <1>1 DEF Layers
<1>5. /\ w = [i \in 1 .. end |-> w[i]]
      /\ \A i \in 1 .. top : w[i] = c[i]
      /\ w[top + 1] = prefix /\ w[top + 2] = <<>>
  <2>1. w \in Seq(T) /\ Len(w) = end
    BY <1>1, <1>2, <1>4
  <2>2. \A i \in 1 .. top : w[i] = c[i]
    BY <1>1, <1>4
  <2>3. w[top + 1] = prefix /\ w[top + 2] = <<>>
    BY <1>1, <1>4
  <2> HIDE DEF w
  <2>4. w = [i \in 1 .. Len(w) |-> w[i]]
    BY <2>1
  <2> QED BY <2>1, <2>2, <2>3, <2>4
<1>6. Held(R, top + 1) = K /\ Held(R, top + 2) = {}
  BY <1>1 DEF Held
<1> HIDE DEF w
<1>7. ASSUME NEW i \in 1 .. end, NEW n \in Held(R, i)
      PROVE  w[i][n] = Meant(F, R, end, i, n)
  <2>1. CASE i \in 1 .. top
    <3>a. Held(R, i) = Held(L, i) /\ w[i] = c[i] /\ Held(L, i) \subseteq Names
      BY <1>1, <1>3, <1>5, <2>1, Zenon
    <3>b. n \in Held(L, i) /\ n \in Names /\ i \in Nat
      BY <2>1, <3>a
    <3>1. w[i][n] = Meant(E, L, top, i, n) /\ n \in Names /\ i \in Nat
      BY <1>1, <2>1, <3>a, <3>b DEF Tells
    <3>2. CASE n \notin K
      <4>1. ~ Hides(R, top + 1, n) /\ ~ Hides(R, top + 2, n)
        BY <3>2 DEF Hides
      <4>2. Covered(L, top, R, end, i, n) /\ Covered(R, end, L, top, i, n)
        BY <1>1, <1>2, <2>1, <4>1 DEF Covered, Same
      <4>3. Meant(F, R, end, i, n) = Meant(E, L, top, i, n)
        BY <1>1, <1>2, <3>1, <3>2, <4>2, MeantAlike
      <4> QED BY <3>1, <4>3
    <3>3. CASE n \in K /\ Open(L, top, i, n)
      <4>1. Hides(R, top + 1, n) /\ \A h \in i + 1 .. top : ~ Hides(R, h, n)
        BY <1>1, <2>1, <3>3 DEF Hides, Open, Same
      <4>2. Shows(R, i, top + 1, n) /\ top + 1 \in i + 1 .. end
        BY <1>1, <1>2, <2>1, <4>1 DEF Shows
      <4>3. Meant(F, R, end, i, n) = R[top + 1][n]
        BY <1>2, <3>1, <4>2, MeantHidden
      <4>4. Meant(E, L, top, i, n) = E[n].value
        BY <3>3, MeantOpen
      <4> QED BY <3>1, <3>3, <4>3, <4>4
    <3>4. CASE n \in K /\ ~ Open(L, top, i, n)
      <4>2. PICK j \in i + 1 .. top : Shows(L, i, j, n)
        BY <1>1, <3>1, <3>4, LowestHides
      <4>3. j \in 1 .. top /\ \A h \in i + 1 .. j - 1 : h \in 1 .. top
        BY <1>1, <2>1
      <4>4. j \in i + 1 .. end /\ Shows(R, i, j, n) /\ R[j][n] = L[j][n]
        BY <1>1, <1>2, <4>2, <4>3 DEF Shows, Same
      <4>5. Meant(F, R, end, i, n) = R[j][n]
        BY <1>2, <3>1, <4>4, MeantHidden
      <4>6. Meant(E, L, top, i, n) = L[j][n]
        BY <1>1, <3>1, <4>2, MeantHidden
      <4> QED BY <3>1, <4>4, <4>5, <4>6
    <3> QED BY <3>2, <3>3, <3>4
  <2>2. CASE i = top + 1
    <3>1. Open(R, end, i, n)
      BY <1>1, <1>2, <2>2 DEF Hides, Open
    <3>2. Meant(F, R, end, i, n) = F[n].value
      BY <3>1, MeantOpen
    <3> QED BY <1>5, <1>6, <2>2, <3>2 DEF prefix, ValuesOf
  <2>3. CASE i = top + 2
    BY <1>6, <2>3
  <2> QED BY <1>2, <2>1, <2>2, <2>3
<1>8. /\ Layers(w, end)
      /\ \A i \in 1 .. end : DOMAIN w[i] = Held(R, i)
  <2>1. \A i \in 1 .. top : w[i] = [n \in DOMAIN w[i] |-> w[i][n]] /\ DOMAIN w[i] = Held(R, i)
    BY <1>1, <1>3, <1>5 DEF Layers, Tells
  <2>2. prefix = [n \in DOMAIN prefix |-> prefix[n]] /\ DOMAIN prefix = K
    BY DEF prefix, ValuesOf
  <2>3. <<>> = [n \in DOMAIN <<>> |-> <<>>[n]] /\ DOMAIN <<>> = {}
    OBVIOUS
  <2>4. \A i \in 1 .. end : w[i] = [n \in DOMAIN w[i] |-> w[i][n]] /\ DOMAIN w[i] = Held(R, i)
    BY <1>2, <1>5, <1>6, <2>1, <2>2, <2>3
  <2> QED BY <1>5, <2>4 DEF Layers
<1>9. Tells(w, F, R, end)
  BY <1>7, <1>8 DEF Tells
<1>10. Cells(F, R, end) = w
  BY <1>8, <1>9, CellsBuilt
<1> QED BY <1>10 DEF w, c, prefix, end, Called

(* A return: the two layers of the call go, and every name has the value   *)
(* that the lowest of them saved.                                          *)
ReturnMade(E, F, L, R, top) ==
  /\ \A j \in 1 .. top : Same(L, R, j)
  /\ \A n \in Names : F[n].value = Meant(E, L, top + 2, top, n)

LEMMA ReturnSim ==
  ASSUME NEW E, NEW F, NEW L, NEW top \in Nat, Stack(L, top + 2), NEW R, top >= 1,
         ReturnMade(E, F, L, R, top)
  PROVE  Cells(F, R, top) = SubSeq(Cells(E, L, top + 2), 1, Len(Cells(E, L, top + 2)) - 2)
<1> USE DEF ReturnMade
<1> DEFINE end == top + 2
           c == Cells(E, L, end)
           T == {c[i] : i \in 1 .. end}
           w == SubSeq(c, 1, top)
<1>1. DOMAIN c = 1 .. end /\ Len(c) = end /\ end \in Nat /\ end = top + 2
      /\ Layers(c, end) /\ Tells(c, E, L, end) /\ \A i \in 1 .. end : Held(L, i) \subseteq Names
  BY CellsMean DEF Stack
<1>2. \A i \in 1 .. top : Held(R, i) = Held(L, i)
  BY DEF Held, Same, Hides
<1> HIDE DEF c, end
<1>3. c \in Seq(T) /\ top \in 0 .. Len(c)
  BY <1>1 DEF Layers
<1>4. w \in Seq(T) /\ Len(w) = top /\ \A i \in 1 .. top : w[i] = c[i]
  BY <1>3, Halves
<1> HIDE DEF w
<1>5. w = [i \in 1 .. top |-> w[i]]
  BY <1>4
<1>6. /\ Layers(w, top)
      /\ \A i \in 1 .. top : DOMAIN w[i] = Held(R, i)
  <2>1. \A i \in 1 .. top : i \in 1 .. end
    BY <1>1
  <2>2. \A i \in 1 .. top : w[i] = [n \in DOMAIN w[i] |-> w[i][n]] /\ DOMAIN w[i] = Held(R, i)
    BY <1>1, <1>2, <1>4, <2>1 DEF Layers, Tells
  <2> QED BY <1>5, <2>2 DEF Layers
<1>7. ASSUME NEW i \in 1 .. top, NEW n \in Held(R, i)
      PROVE  w[i][n] = Meant(F, R, top, i, n)
  <2>a. n \in Held(L, i) /\ n \in Names /\ i \in Nat /\ w[i] = c[i] /\ i \in 1 .. end
    BY <1>1, <1>2, <1>4
  <2>1. w[i][n] = Meant(E, L, end, i, n)
    BY <1>1, <2>a DEF Tells
  <2>2. CASE Open(L, top, i, n)
    <3>1. Open(R, top, i, n)
      BY <2>2 DEF Open, Same
    <3>2. Meant(F, R, top, i, n) = Meant(E, L, end, top, n)
      BY <1>1, <2>a, <3>1, MeantOpen
    <3>3. CASE Open(L, end, top, n)
      <4>1. Open(L, end, i, n)
        BY <1>1, <2>a, <2>2, <3>3 DEF Open
      <4> QED BY <2>1, <3>2, <3>3, <4>1, MeantOpen
    <3>4. CASE ~ Open(L, end, top, n)
      <4>1. PICK j \in top + 1 .. end : Shows(L, top, j, n)
        BY <1>1, <3>4, LowestHides
      <4>2. j \in i + 1 .. end /\ Shows(L, i, j, n)
        BY <1>1, <2>a, <2>2, <4>1 DEF Open, Shows
      <4>3. Meant(E, L, end, top, n) = L[j][n] /\ Meant(E, L, end, i, n) = L[j][n]
        BY <1>1, <2>a, <4>1, <4>2, MeantHidden
      <4> QED BY <2>1, <3>2, <4>3
    <3> QED BY <3>3, <3>4
  <2>3. CASE ~ Open(L, top, i, n)
    <3>1. PICK j \in i + 1 .. top : Shows(L, i, j, n)
      BY <2>a, <2>3, LowestHides
    <3>2. j \in 1 .. top /\ (\A h \in i + 1 .. j - 1 : h \in 1 .. top) /\ j \in i + 1 .. end
      BY <1>1, <2>a
    <3>3. Shows(R, i, j, n) /\ R[j][n] = L[j][n]
      BY <3>1, <3>2 DEF Shows, Same
    <3>4. Meant(F, R, top, i, n) = R[j][n]
      BY <2>a, <3>3, MeantHidden
    <3>5. Meant(E, L, end, i, n) = L[j][n]
      BY <1>1, <2>a, <3>1, <3>2, MeantHidden
    <3> QED BY <2>1, <3>3, <3>4, <3>5
  <2> QED BY <2>2, <2>3
<1>8. Tells(w, F, R, top)
  BY <1>6, <1>7 DEF Tells
<1>9. Cells(F, R, top) = w
  BY <1>6, <1>8, CellsBuilt
<1>10. w = SubSeq(c, 1, Len(c) - 2)
  BY <1>1 DEF w
<1> QED BY <1>9, <1>10 DEF c, end

(* A `local` of x: a cell of the top layer, made or written.               *)
LocalMade(E, F, L, R, top, x, v) ==
  /\ \A j \in 1 .. top - 1 : Same(L, R, j)
  /\ DOMAIN R[top] = DOMAIN L[top] \cup {x}
  /\ \A n \in Names : F[n].value = IF n = x THEN v ELSE E[n].value
  /\ \A n \in DOMAIN L[top] : R[top][n] = L[top][n]
  /\ ~ Hides(L, top, x) => R[top][x] = E[x].value

LEMMA LocalSim ==
  ASSUME NEW E, NEW F, NEW L, NEW top, Stack(L, top), top > 1, NEW R, NEW x \in Names, NEW v,
         LocalMade(E, F, L, R, top, x, v)
  PROVE  Cells(F, R, top) = [Cells(E, L, top) EXCEPT ![Len(Cells(E, L, top))] = Scopes!Set(@, x, v)]
<1> USE DEF LocalMade
<1> DEFINE c == Cells(E, L, top)
           new == Scopes!Set(c[top], x, v)
           w == [c EXCEPT ![top] = new]
<1>1. DOMAIN c = 1 .. top /\ Len(c) = top
      /\ Layers(c, top) /\ Tells(c, E, L, top) /\ \A i \in 1 .. top : Held(L, i) \subseteq Names
  BY CellsMean
<1>0. top \in Nat /\ top \in 1 .. top /\ \A i \in 1 .. top - 1 : i \in 1 .. top /\ i # top
  BY DEF Stack
<1>2. (\A i \in 1 .. top - 1 : Held(R, i) = Held(L, i)) /\ Held(R, top) = Held(L, top) \cup {x}
      /\ Held(L, top) = DOMAIN L[top]
  <2>1. \A i \in 1 .. top - 1 : Held(R, i) = Held(L, i)
    BY DEF Held, Same, Hides
  <2>2. top # 1
    BY <1>0
  <2> QED BY <2>1, <2>2 DEF Held
<1> HIDE DEF c
<1>3. new = [n \in Held(R, top) |-> IF n = x THEN v ELSE c[top][n]]
  BY <1>0, <1>1, <1>2 DEF Scopes!Set, Tells
<1> HIDE DEF new
<1>4. /\ w = [i \in 1 .. top |-> w[i]] /\ w[top] = new
      /\ \A i \in 1 .. top - 1 : w[i] = c[i] /\ i \in 1 .. top
  BY <1>0, <1>1 DEF Layers
<1> HIDE DEF w
<1>5. \A i \in 1 .. top : i = top \/ i \in 1 .. top - 1
  BY <1>0, <1>1
<1>6. /\ Layers(w, top)
      /\ \A i \in 1 .. top : DOMAIN w[i] = Held(R, i)
  <2>1. \A i \in 1 .. top - 1 : w[i] = [n \in DOMAIN w[i] |-> w[i][n]] /\ DOMAIN w[i] = Held(R, i)
    BY <1>0, <1>1, <1>2, <1>4 DEF Layers, Tells
  <2>2. w[top] = [n \in DOMAIN w[top] |-> w[top][n]] /\ DOMAIN w[top] = Held(R, top)
    BY <1>3, <1>4
  <2>3. \A i \in 1 .. top : w[i] = [n \in DOMAIN w[i] |-> w[i][n]] /\ DOMAIN w[i] = Held(R, i)
    BY <1>5, <2>1, <2>2
  <2> QED BY <1>4, <2>3 DEF Layers
<1>7. ASSUME NEW i \in 1 .. top, NEW n \in Held(R, i)
      PROVE  w[i][n] = Meant(F, R, top, i, n)
  <2>1. CASE i = top
    <3>1. Open(R, top, i, n) /\ Open(L, top, i, n)
      BY <1>0, <1>1, <2>1 DEF Open
    <3>2. Meant(F, R, top, i, n) = F[n].value /\ Meant(E, L, top, i, n) = E[n].value
      BY <3>1, MeantOpen
    <3>3. w[i][n] = IF n = x THEN v ELSE c[top][n]
      BY <1>3, <1>4, <2>1
    <3>4. n \in Names /\ (n # x => n \in Held(L, top))
      BY <1>0, <1>1, <1>2, <2>1
    <3>5. n # x => c[top][n] = E[n].value
      BY <1>0, <1>1, <2>1, <3>2, <3>4 DEF Tells
    <3> QED BY <3>2, <3>3, <3>4, <3>5
  <2>2. CASE i \in 1 .. top - 1
    <3>a. Held(R, i) = Held(L, i) /\ w[i] = c[i] /\ Held(L, i) \subseteq Names
      BY <1>0, <1>1, <1>2, <1>4, <2>2, Zenon
    <3>1. n \in Held(L, i) /\ n \in Names /\ i \in Nat /\ w[i] = c[i] /\ top \in i + 1 .. top
      BY <1>0, <2>2, <3>a
    <3>2. w[i][n] = Meant(E, L, top, i, n)
      BY <1>0, <1>1, <3>1 DEF Tells
    <3>3. \A j \in i + 1 .. top : j = top \/ j \in 1 .. top - 1
      BY <1>0, <1>1, <3>1
    <3>4. CASE n # x \/ Hides(L, top, x)
      <4>1. Same(L, R, top) \/ n # x
        BY <3>4 DEF Same, Hides
      <4>2. Covered(L, top, R, top, i, n) /\ Covered(R, top, L, top, i, n)
        BY <1>0, <1>1, <3>1, <3>3, <3>4 DEF Covered, Same, Hides
      <4>3. Open(L, top, i, n) => n # x
        BY <3>1, <3>4 DEF Open
      <4>4. Open(L, top, i, n) => F[n].value = E[n].value
        BY <3>1, <4>3
      <4>5. Meant(F, R, top, i, n) = Meant(E, L, top, i, n)
        BY <1>0, <1>1, <3>1, <4>2, <4>4, MeantAlike
      <4> QED BY <3>2, <4>5
    <3>5. CASE n = x /\ ~ Hides(L, top, x)
      <4>1. CASE Open(L, top, i, n)
        <5>1. Shows(R, i, top, n)
          BY <1>0, <1>1, <3>1, <3>3, <3>5, <4>1 DEF Shows, Same, Open, Hides
        <5>2. Meant(F, R, top, i, n) = R[top][n]
          BY <1>0, <1>1, <3>1, <5>1, MeantHidden
        <5>3. Meant(E, L, top, i, n) = E[n].value
          BY <4>1, MeantOpen
        <5> QED BY <3>2, <3>5, <5>2, <5>3
      <4>2. CASE ~ Open(L, top, i, n)
        <5>1. PICK j \in i + 1 .. top : Shows(L, i, j, n)
          BY <1>0, <1>1, <3>1, <4>2, LowestHides
        <5>2. j # top
          BY <3>5, <5>1 DEF Shows
        <5>3. j \in 1 .. top - 1 /\ \A h \in i + 1 .. j - 1 : h \in 1 .. top - 1
          BY <1>0, <1>1, <3>1, <5>2
        <5>4. Shows(R, i, j, n) /\ R[j][n] = L[j][n]
          BY <5>1, <5>3 DEF Shows, Same
        <5>5. Meant(F, R, top, i, n) = R[j][n]
          BY <1>0, <1>1, <3>1, <5>4, MeantHidden
        <5>6. Meant(E, L, top, i, n) = L[j][n]
          BY <1>0, <1>1, <3>1, <5>1, MeantHidden
        <5> QED BY <3>2, <5>4, <5>5, <5>6
      <4> QED BY <4>1, <4>2
    <3> QED BY <3>4, <3>5
  <2> QED BY <1>5, <2>1, <2>2
<1>8. Tells(w, F, R, top)
  BY <1>6, <1>7 DEF Tells
<1>9. Cells(F, R, top) = w
  BY <1>6, <1>8, CellsBuilt
<1>10. w = [c EXCEPT ![Len(c)] = Scopes!Set(@, x, v)]
  BY <1>0, <1>1 DEF w, new
<1> QED BY <1>9, <1>10 DEF c

(* A callee unsets x, a local of a caller that nothing above hides: the    *)
(* cell goes, and x means again what it meant below it.                    *)
RemoveMade(E, F, L, R, top, k, x) ==
  /\ Hides(L, k, x) /\ Open(L, top, k, x)
  /\ \A j \in 1 .. top : j # k => Same(L, R, j)
  /\ DOMAIN R[k] = DOMAIN L[k] \ {x} /\ \A n \in DOMAIN R[k] : R[k][n] = L[k][n]
  /\ \A n \in Names : F[n].value = IF n = x THEN L[k][x] ELSE E[n].value

WithoutCell(c, k, x) == [c EXCEPT ![k] = Scopes!Restrict(@, DOMAIN @ \ {x})]

LEMMA RemoveSim ==
  ASSUME NEW E, NEW F, NEW L, NEW top, Stack(L, top), NEW R, NEW x \in Names,
         NEW k \in 2 .. top, RemoveMade(E, F, L, R, top, k, x)
  PROVE  Cells(F, R, top) = WithoutCell(Cells(E, L, top), k, x)
<1> USE DEF RemoveMade
<1> DEFINE c == Cells(E, L, top)
           new == Scopes!Restrict(c[k], DOMAIN c[k] \ {x})
           w == [c EXCEPT ![k] = new]
<1>0. top \in Nat /\ k \in Nat /\ k \in 1 .. top /\ k # 1
  BY DEF Stack
<1>1. DOMAIN c = 1 .. top
      /\ Layers(c, top) /\ Tells(c, E, L, top) /\ \A i \in 1 .. top : Held(L, i) \subseteq Names
  BY CellsMean
<1>2. \A i \in 1 .. top : i # k => Held(R, i) = Held(L, i)
  BY DEF Held, Same, Hides
<1>3. Held(R, k) = Held(L, k) \ {x}
  BY <1>0 DEF Held
<1> HIDE DEF c
<1>4. new = [n \in Held(R, k) |-> c[k][n]]
  BY <1>0, <1>1, <1>3 DEF Scopes!Restrict, Tells
<1> HIDE DEF new
<1>5. /\ w = [i \in 1 .. top |-> w[i]] /\ w[k] = new
      /\ \A i \in 1 .. top : i # k => w[i] = c[i]
  BY <1>0, <1>1 DEF Layers
<1> HIDE DEF w
<1>6. /\ Layers(w, top)
      /\ \A i \in 1 .. top : DOMAIN w[i] = Held(R, i)
  <2>1. \A i \in 1 .. top : i # k =>
          w[i] = [n \in DOMAIN w[i] |-> w[i][n]] /\ DOMAIN w[i] = Held(R, i)
    BY <1>1, <1>2, <1>5 DEF Layers, Tells
  <2>2. w[k] = [n \in DOMAIN w[k] |-> w[k][n]] /\ DOMAIN w[k] = Held(R, k)
    BY <1>4, <1>5
  <2>3. \A i \in 1 .. top : w[i] = [n \in DOMAIN w[i] |-> w[i][n]] /\ DOMAIN w[i] = Held(R, i)
    BY <2>1, <2>2
  <2> QED BY <1>5, <2>3 DEF Layers
<1>7. ASSUME NEW i \in 1 .. top, NEW n \in Held(R, i)
      PROVE  w[i][n] = Meant(F, R, top, i, n)
  <2>1. n \in Held(L, i) /\ i \in Nat /\ w[i][n] = c[i][n]
    <3>1. CASE i = k
      BY <1>0, <1>3, <1>4, <1>5, <3>1
    <3>2. CASE i # k
      BY <1>2, <1>5, <3>2
    <3> QED BY <3>1, <3>2
  <2>2. n \in Names /\ w[i][n] = Meant(E, L, top, i, n)
    BY <1>1, <2>1 DEF Tells
  <2>3. ~ Hides(R, k, x)
    BY DEF Hides
  <2>4. \A j \in i + 1 .. top : j \in 1 .. top
    BY <1>0, <2>1
  <2>5. CASE n # x
    <3>1. \A j \in 1 .. top : (Hides(R, j, n) <=> Hides(L, j, n)) /\ (Hides(L, j, n) => R[j][n] = L[j][n])
      BY <1>0, <2>5 DEF Same, Hides
    <3>2. Covered(L, top, R, top, i, n) /\ Covered(R, top, L, top, i, n)
      BY <1>0, <2>1, <2>4, <3>1 DEF Covered
    <3>3. Meant(F, R, top, i, n) = Meant(E, L, top, i, n)
      BY <1>0, <2>1, <2>2, <2>5, <3>2, MeantAlike
    <3> QED BY <2>2, <3>3
  <2>6. CASE n = x
    <3>1. i # k
      BY <1>3, <2>6
    <3>2. i < k
      <4>1. SUFFICES ASSUME i > k PROVE FALSE
        BY <1>0, <2>1, <3>1
      <4>2. i \in k + 1 .. top
        BY <1>0, <4>1
      <4>3. i # 1 /\ Hides(L, i, x)
        BY <1>0, <2>1, <2>6, <4>1 DEF Held, Hides
      <4> QED BY <4>2, <4>3 DEF Open
    <3>3. k \in i + 1 .. top /\ \A j \in k + 1 .. top : ~ Hides(L, j, x)
      BY <1>0, <2>1, <3>2 DEF Open
    <3>4. CASE \E j \in i + 1 .. k - 1 : Hides(L, j, x)
      <4>1. ~ Open(L, top, i, n)
        BY <1>0, <2>1, <2>6, <3>4 DEF Open
      <4>2. PICK j \in i + 1 .. top : Shows(L, i, j, n)
        BY <1>0, <2>1, <4>1, LowestHides
      <4>3. j \in i + 1 .. k - 1
        BY <1>0, <2>1, <2>6, <3>2, <3>3, <3>4, <4>2 DEF Shows
      <4>4. j # k /\ (\A h \in i + 1 .. j - 1 : h # k) /\ \A h \in i + 1 .. j - 1 : h \in 1 .. top
        BY <1>0, <2>1, <4>3
      <4>5. Shows(R, i, j, n) /\ R[j][n] = L[j][n]
        BY <2>4, <4>2, <4>4 DEF Shows, Same
      <4>6. Meant(F, R, top, i, n) = R[j][n]
        BY <1>0, <2>1, <4>2, <4>5, MeantHidden
      <4>7. Meant(E, L, top, i, n) = L[j][n]
        BY <1>0, <2>1, <4>2, MeantHidden
      <4> QED BY <2>2, <4>5, <4>6, <4>7
    <3>5. CASE ~ \E j \in i + 1 .. k - 1 : Hides(L, j, x)
      <4>1. Shows(L, i, k, n)
        BY <2>6, <3>5 DEF Shows
      <4>2. Meant(E, L, top, i, n) = L[k][n]
        BY <1>0, <2>1, <3>3, <4>1, MeantHidden
      <4>3. \A j \in i + 1 .. top : ~ Hides(R, j, n)
        <5>1. \A j \in i + 1 .. top : j \in i + 1 .. k - 1 \/ j = k \/ j \in k + 1 .. top
          BY <1>0, <2>1, <3>2
        <5>2. \A j \in i + 1 .. top : j # k => ~ Hides(L, j, x)
          BY <3>3, <3>5, <5>1
        <5> QED BY <2>3, <2>4, <2>6, <5>2 DEF Same
      <4>4. Meant(F, R, top, i, n) = F[n].value
        BY <4>3, MeantOpen DEF Open
      <4> QED BY <2>2, <2>6, <4>2, <4>4
    <3> QED BY <3>4, <3>5
  <2> QED BY <2>5, <2>6
<1>8. Tells(w, F, R, top)
  BY <1>6, <1>7 DEF Tells
<1>9. Cells(F, R, top) = w
  BY <1>6, <1>8, CellsBuilt
<1>10. w = [c EXCEPT ![k] = Scopes!Restrict(@, DOMAIN @ \ {x})]
  BY <1>0, <1>1 DEF w, new
<1> QED BY <1>9, <1>10 DEF c, WithoutCell

-----------------------------------------------------------------------------
(* The first saves of a layer.                                             *)

Of(s, i, depth, n) == s[i].depth = depth /\ s[i].key = n
IsSaved(s, depth, n) == \E i \in DOMAIN s : Of(s, i, depth, n)
IsFirst(s, depth, n, i) == /\ i \in DOMAIN s /\ Of(s, i, depth, n)
                           /\ \A j \in DOMAIN s : j < i => ~ Of(s, j, depth, n)

LEMMA FirstIs ==
  ASSUME NEW s \in Seq(Save), NEW depth, NEW n
  PROVE  /\ n \in DOMAIN FirstSaved(s, depth) <=> IsSaved(s, depth, n)
         /\ \A i : IsFirst(s, depth, n, i) => FirstSaved(s, depth)[n] = s[i].value
         /\ IsSaved(s, depth, n) => \E i : IsFirst(s, depth, n, i)
<1> DEFINE mine == {i \in DOMAIN s : s[i].depth = depth}
           own == {i \in mine : s[i].key = n}
           all == {s[i].key : i \in mine}
           f == FirstSaved(s, depth)
<1>1. f = [m \in all |-> s[Min({i \in mine : s[i].key = m})].value]
  BY DEF FirstSaved
<1>2. n \in all <=> IsSaved(s, depth, n)
  BY DEF IsSaved, Of
<1>3. own = {i \in DOMAIN s : Of(s, i, depth, n)} /\ own \subseteq Nat
  BY DEF Of
<1>4. n \in all => f[n] = s[Min(own)].value
  BY <1>1
<1>5. DOMAIN f = all
  BY <1>1
<1>6. ASSUME NEW i, IsFirst(s, depth, n, i) PROVE f[n] = s[i].value
  <2>1. i \in own /\ i \in Nat /\ n \in all
    BY <1>2, <1>3, <1>6 DEF IsFirst, IsSaved
  <2>2. \A y \in own : i <= y
    <3>1. \A y \in own : y \in DOMAIN s /\ y \in Nat /\ Of(s, y, depth, n)
      BY <1>3
    <3> QED BY <1>6, <2>1, <3>1 DEF IsFirst
  <2> HIDE DEF own
  <2>3. Min(own) = i
    BY <1>3, <2>1, <2>2, LeastIs
  <2> QED BY <1>4, <2>1, <2>3
<1>7. ASSUME IsSaved(s, depth, n) PROVE \E i : IsFirst(s, depth, n, i)
  <2>1. own # {}
    BY <1>3, <1>7 DEF IsSaved
  <2>2. PICK i \in own : \A y \in own : i <= y
    <3> HIDE DEF own
    <3> QED BY <1>3, <2>1, Places!LowestOf
  <2>3. i \in DOMAIN s /\ Of(s, i, depth, n) /\ i \in Nat
    BY <1>3
  <2>4. ASSUME NEW j \in DOMAIN s, j < i, Of(s, j, depth, n) PROVE FALSE
    <3>1. j \in own /\ j \in Nat
      BY <1>3, <2>4
    <3> QED BY <2>2, <2>3, <2>4, <3>1
  <2> QED BY <2>3, <2>4 DEF IsFirst
<1> HIDE DEF f
<1> QED BY <1>2, <1>5, <1>6, <1>7 DEF f

(* Saves with the same first save of a name.                               *)
Agree(s, t, depth, n) ==
  /\ IsSaved(s, depth, n) <=> IsSaved(t, depth, n)
  /\ \A i : IsFirst(s, depth, n, i) => \E j : IsFirst(t, depth, n, j) /\ t[j].value = s[i].value

LEMMA FirstsAgree ==
  ASSUME NEW s \in Seq(Save), NEW t \in Seq(Save), NEW depth, NEW n, Agree(s, t, depth, n)
  PROVE  /\ n \in DOMAIN FirstSaved(t, depth) <=> n \in DOMAIN FirstSaved(s, depth)
         /\ n \in DOMAIN FirstSaved(s, depth) =>
              FirstSaved(t, depth)[n] = FirstSaved(s, depth)[n]
<1>1. n \in DOMAIN FirstSaved(t, depth) <=> n \in DOMAIN FirstSaved(s, depth)
  BY FirstIs DEF Agree
<1>2. ASSUME n \in DOMAIN FirstSaved(s, depth)
      PROVE  FirstSaved(t, depth)[n] = FirstSaved(s, depth)[n]
  <2>1. PICK i : IsFirst(s, depth, n, i)
    BY <1>2, FirstIs
  <2>2. PICK j : IsFirst(t, depth, n, j) /\ t[j].value = s[i].value
    BY <2>1 DEF Agree
  <2>3. FirstSaved(s, depth)[n] = s[i].value /\ FirstSaved(t, depth)[n] = t[j].value
    BY <2>1, <2>2, FirstIs
  <2> QED BY <2>2, <2>3
<1> QED BY <1>1, <1>2

(* t goes on after s, without a save of the name at that depth.            *)
LEMMA AgreeLonger ==
  ASSUME NEW s \in Seq(Save), NEW t \in Seq(Save), NEW depth, NEW n, Len(s) <= Len(t),
         \A i \in 1 .. Len(s) : t[i] = s[i],
         \A i \in Len(s) + 1 .. Len(t) : ~ Of(t, i, depth, n)
  PROVE  Agree(s, t, depth, n) /\ Agree(t, s, depth, n)
<1>1. Len(s) \in Nat /\ Len(t) \in Nat /\ DOMAIN s = 1 .. Len(s) /\ DOMAIN t = 1 .. Len(t)
  OBVIOUS
<1>2. \A i \in DOMAIN t : i \in DOMAIN s \/ i \in Len(s) + 1 .. Len(t)
  BY <1>1
<1>3. DOMAIN s \subseteq DOMAIN t
  BY <1>1
<1>4. \A i \in DOMAIN s : Of(s, i, depth, n) <=> Of(t, i, depth, n)
  BY <1>1 DEF Of
<1>5. \A i \in DOMAIN t : Of(t, i, depth, n) => i \in DOMAIN s
  BY <1>2
<1>6. IsSaved(s, depth, n) <=> IsSaved(t, depth, n)
  BY <1>3, <1>4, <1>5 DEF IsSaved
<1>7. \A i : IsFirst(s, depth, n, i) <=> IsFirst(t, depth, n, i)
  BY <1>3, <1>4, <1>5 DEF IsFirst
<1>8. \A i : IsFirst(s, depth, n, i) => t[i].value = s[i].value
  BY <1>1 DEF IsFirst
<1> QED BY <1>6, <1>7, <1>8 DEF Agree

(* A save on top of others: the first one of a name stays the first.       *)
LEMMA FirstPushed ==
  ASSUME NEW s \in Seq(Save), NEW x \in Save
  PROVE  /\ \A depth, n : ~ (x.depth = depth /\ x.key = n) => Agree(s, Append(s, x), depth, n)
         /\ IsSaved(s, x.depth, x.key) => Agree(s, Append(s, x), x.depth, x.key)
         /\ IsSaved(Append(s, x), x.depth, x.key)
         /\ ~ IsSaved(s, x.depth, x.key) => FirstSaved(Append(s, x), x.depth)[x.key] = x.value
<1> DEFINE t == Append(s, x)
           m == Len(s)
<1>1. t \in Seq(Save) /\ Len(t) = m + 1 /\ m \in Nat /\ DOMAIN t = 1 .. m + 1 /\ DOMAIN s = 1 .. m
      /\ t[m + 1] = x /\ \A i \in 1 .. m : t[i] = s[i]
  OBVIOUS
<1> HIDE DEF t
<1>2. ASSUME NEW depth, NEW n, ~ (x.depth = depth /\ x.key = n) PROVE Agree(s, t, depth, n)
  <2>1. \A i \in Len(s) + 1 .. Len(t) : ~ Of(t, i, depth, n)
    BY <1>1, <1>2 DEF Of
  <2> QED BY <1>1, <2>1, AgreeLonger
<1>3. Of(t, m + 1, x.depth, x.key)
  BY <1>1 DEF Of
<1>4. IsSaved(t, x.depth, x.key)
  BY <1>1, <1>3 DEF IsSaved
<1>5. \A i \in 1 .. m : Of(s, i, x.depth, x.key) <=> Of(t, i, x.depth, x.key)
  BY <1>1 DEF Of
<1>6. ASSUME IsSaved(s, x.depth, x.key) PROVE Agree(s, t, x.depth, x.key)
  <2>1. ASSUME NEW i, IsFirst(s, x.depth, x.key, i)
        PROVE  IsFirst(t, x.depth, x.key, i) /\ t[i].value = s[i].value
    <3>1. i \in 1 .. m /\ i \in 1 .. m + 1 /\ \A j \in 1 .. m + 1 : j < i => j \in 1 .. m
      BY <1>1, <2>1 DEF IsFirst
    <3> QED BY <1>1, <1>5, <2>1, <3>1 DEF IsFirst
  <2> QED BY <1>4, <1>6, <2>1 DEF Agree
<1>7. ASSUME ~ IsSaved(s, x.depth, x.key) PROVE FirstSaved(t, x.depth)[x.key] = x.value
  <2>1. \A j \in 1 .. m + 1 : j < m + 1 => j \in 1 .. m
    BY <1>1
  <2>2. IsFirst(t, x.depth, x.key, m + 1)
    BY <1>1, <1>3, <1>5, <1>7, <2>1 DEF IsFirst, IsSaved
  <2> QED BY <1>1, <2>2, FirstIs
<1> QED BY <1>2, <1>4, <1>6, <1>7 DEF t

(* Taking one save away.                                                   *)
LEMMA CutIs ==
  ASSUME NEW s \in Seq(Save), NEW k \in 1 .. Len(s)
  PROVE  /\ RemoveAt(s, k) \in Seq(Save) /\ Len(RemoveAt(s, k)) = Len(s) - 1
         /\ \A i \in 1 .. Len(s) - 1 : RemoveAt(s, k)[i] = s[IF i < k THEN i ELSE i + 1]
<1> DEFINE t == RemoveAt(s, k)
           n == Len(s)
<1>1. s \in Seq(Save) /\ n \in Nat /\ DOMAIN s = 1 .. n
  OBVIOUS
<1> DEFINE lo == SubSeq(s, 1, k - 1)
           hi == SubSeq(s, k + 1, n)
<1>a. k \in Nat /\ k >= 1 /\ k <= n
  BY <1>1
<1>b. /\ lo \in Seq(Save) /\ Len(lo) = k - 1
      /\ \A i \in 1 .. k - 1 : lo[i] = s[i]
  BY <1>1, <1>a
<1>c. /\ hi \in Seq(Save) /\ Len(hi) = n - k
      /\ \A i \in 1 .. n - k : hi[i] = s[k + i]
  <2>1. k \in 0 .. n
    BY <1>a, <1>1
  <2> QED BY <1>1, <2>1, Halves
<1>d. t = lo \o hi
  BY DEF RemoveAt
<1> HIDE DEF lo, hi, t
<1>2. t \in Seq(Save) /\ Len(t) = n - 1
  <2>1. t \in Seq(Save) /\ Len(t) = Len(lo) + Len(hi)
    BY <1>b, <1>c, <1>d, ConcatProperties
  <2>2. k - 1 + (n - k) = n - 1
    BY <1>a, <1>1
  <2> HIDE DEF n
  <2> QED BY <1>b, <1>c, <2>1, <2>2
<1>3. ASSUME NEW i \in 1 .. n - 1 PROVE t[i] = s[IF i < k THEN i ELSE i + 1]
  <2>1. CASE i < k
    <3>1. i \in 1 .. Len(lo) /\ i \in 1 .. k - 1
      BY <2>1, <1>1, <1>a, <1>b
    <3>2. t[i] = lo[i]
      BY <3>1, <1>b, <1>c, <1>d, <1>1, <1>a
    <3> QED BY <2>1, <3>1, <3>2, <1>b
  <2>2. CASE ~ (i < k)
    <3>1. i - (k - 1) \in 1 .. n - k /\ k + (i - (k - 1)) = i + 1
      BY <2>2, <1>1, <1>a
    <3>2. t[i] = hi[i - (k - 1)]
      BY <3>1, <2>2, <1>b, <1>c, <1>d, <1>1, <1>a
    <3> QED BY <2>2, <3>1, <3>2, <1>c
  <2> QED BY <2>1, <2>2
<1> QED BY <1>2, <1>3 DEF t

(* Taking away the only save of its name at its depth: no other is missed. *)
LEMMA FirstCut ==
  ASSUME NEW s \in Seq(Save), NEW k \in 1 .. Len(s),
         \A i \in 1 .. Len(s) : Of(s, i, s[k].depth, s[k].key) => i = k
  PROVE  /\ \A depth, n : ~ Of(s, k, depth, n) => Agree(s, RemoveAt(s, k), depth, n)
         /\ ~ IsSaved(RemoveAt(s, k), s[k].depth, s[k].key)
<1> DEFINE t == RemoveAt(s, k)
           m == Len(s)
           was(i) == IF i < k THEN i ELSE i + 1
           now(i) == IF i < k THEN i ELSE i - 1
<1>1. t \in Seq(Save) /\ Len(t) = m - 1 /\ \A i \in 1 .. m - 1 : t[i] = s[was(i)]
  BY CutIs
<1> HIDE DEF t
<1>2. m \in Nat /\ k \in Nat /\ m >= 1 /\ DOMAIN t = 1 .. m - 1 /\ DOMAIN s = 1 .. m
  BY <1>1
<1>3. /\ \A i \in 1 .. m - 1 : was(i) \in 1 .. m /\ was(i) # k
      /\ \A i \in 1 .. m : i # k => now(i) \in 1 .. m - 1 /\ was(now(i)) = i
      /\ \A i \in 1 .. m, j \in 1 .. m - 1 : i # k /\ j < now(i) => was(j) < i
  BY <1>2
<1> HIDE DEF was, now
<1>4. \A depth, n : \A i \in 1 .. m - 1 : Of(t, i, depth, n) <=> Of(s, was(i), depth, n)
  BY <1>1 DEF Of
<1>5. ASSUME NEW depth, NEW n, ~ Of(s, k, depth, n) PROVE Agree(s, t, depth, n)
  <2>1. IsSaved(s, depth, n) <=> IsSaved(t, depth, n)
    <3>1. ASSUME NEW i \in 1 .. m, Of(s, i, depth, n) PROVE IsSaved(t, depth, n)
      <4>1. i # k
        BY <1>5, <3>1
      <4>2. now(i) \in 1 .. m - 1 /\ was(now(i)) = i
        BY <1>3, <4>1
      <4>3. Of(t, now(i), depth, n)
        BY <1>4, <3>1, <4>2
      <4> QED BY <1>2, <4>2, <4>3 DEF IsSaved
    <3>2. ASSUME NEW i \in 1 .. m - 1, Of(t, i, depth, n) PROVE IsSaved(s, depth, n)
      BY <1>2, <1>3, <1>4, <3>2 DEF IsSaved
    <3> QED BY <1>2, <3>1, <3>2 DEF IsSaved
  <2>2. ASSUME NEW i, IsFirst(s, depth, n, i)
        PROVE  IsFirst(t, depth, n, now(i)) /\ t[now(i)].value = s[i].value
    <3>1. i \in 1 .. m /\ i # k /\ Of(s, i, depth, n)
      BY <1>2, <1>5, <2>2 DEF IsFirst
    <3>2. now(i) \in 1 .. m - 1 /\ was(now(i)) = i
      BY <1>3, <3>1
    <3>3. Of(t, now(i), depth, n) /\ t[now(i)] = s[i]
      BY <1>1, <1>4, <3>1, <3>2
    <3>4. ASSUME NEW j \in 1 .. m - 1, j < now(i) PROVE ~ Of(t, j, depth, n)
      <4>1. was(j) \in 1 .. m /\ was(j) < i
        BY <1>3, <3>1, <3>4
      <4> QED BY <1>2, <1>4, <2>2, <4>1 DEF IsFirst
    <3> QED BY <1>2, <3>2, <3>3, <3>4 DEF IsFirst
  <2> QED BY <2>1, <2>2 DEF Agree
<1>6. ~ IsSaved(t, s[k].depth, s[k].key)
  <2>1. SUFFICES ASSUME NEW i \in 1 .. m - 1, Of(t, i, s[k].depth, s[k].key) PROVE FALSE
    BY <1>2 DEF IsSaved
  <2>2. Of(s, was(i), s[k].depth, s[k].key) /\ was(i) \in 1 .. m /\ was(i) # k
    BY <1>3, <1>4, <2>1
  <2> QED BY <2>2
<1> QED BY <1>5, <1>6 DEF t

-----------------------------------------------------------------------------
(* The scopes are the cells of those layers.                               *)

Height(cs) == 2 * Len(cs) + 1
LayersOf(s, cs) ==
  [i \in 1 .. Height(cs) |-> IF i % 2 = 0 THEN FirstSaved(cs[i \div 2], 0)
                             ELSE FirstSaved(s, i \div 2)]

LEMMA ScopeIs == Scope = Cells(env, LayersOf(local_saves, calls), Height(calls))
BY DEF Scope, Cells, Meant, LayersOf, Height, func_depth

LEMMA LayersStack ==
  ASSUME NEW s \in Seq(Save), NEW cs \in Seq(Seq(Save))
  PROVE  Stack(LayersOf(s, cs), Height(cs))
<1> DEFINE L == LayersOf(s, cs)
<1>1. Len(cs) \in Nat /\ Height(cs) \in Nat /\ Height(cs) >= 1
  BY DEF Height
<1>2. ASSUME NEW t \in Seq(Save), NEW depth PROVE DOMAIN FirstSaved(t, depth) \subseteq Names
  <2>1. \A i \in DOMAIN t : t[i] \in Save
    OBVIOUS
  <2>2. \A i \in DOMAIN t : t[i].key \in Names
    BY <2>1 DEF Save
  <2> QED BY <2>2 DEF FirstSaved
<1>3. ASSUME NEW j \in 1 .. Height(cs) PROVE DOMAIN L[j] \subseteq Names
  <2>1. L[j] = IF j % 2 = 0 THEN FirstSaved(cs[j \div 2], 0) ELSE FirstSaved(s, j \div 2)
    BY DEF LayersOf
  <2>2. j % 2 = 0 => cs[j \div 2] \in Seq(Save)
    <3>1. j % 2 = 0 => j \div 2 \in 1 .. Len(cs)
      BY <1>1 DEF Height
    <3> QED BY <3>1
  <2> QED BY <1>2, <2>1, <2>2
<1> QED BY <1>1, <1>3 DEF Stack

(* The layer of call d's prefix and that of its locals.                    *)
LEMMA LayerAt ==
  ASSUME NEW s, NEW cs \in Seq(Seq(Save)), NEW d \in 1 .. Len(cs)
  PROVE  /\ LayersOf(s, cs)[2 * d] = FirstSaved(cs[d], 0)
         /\ LayersOf(s, cs)[2 * d + 1] = FirstSaved(s, d)
         /\ 2 * d \in 1 .. Height(cs) /\ 2 * d + 1 \in 1 .. Height(cs)
<1>1. Len(cs) \in Nat /\ d \in Nat
  OBVIOUS
<1>2. 2 * d \in 1 .. Height(cs) /\ 2 * d + 1 \in 1 .. Height(cs)
  BY <1>1 DEF Height
<1>3. (2 * d) % 2 = 0 /\ (2 * d) \div 2 = d /\ (2 * d + 1) % 2 # 0 /\ (2 * d + 1) \div 2 = d
  BY <1>1
<1> QED BY <1>2, <1>3 DEF LayersOf

LEMMA LayerKinds ==
  ASSUME NEW cs \in Seq(Seq(Save)), NEW j \in 1 .. Height(cs)
  PROVE  \/ j = 1
         \/ \E d \in 1 .. Len(cs) : j = 2 * d \/ j = 2 * d + 1
<1>1. Len(cs) \in Nat
  OBVIOUS
<1>2. CASE j % 2 = 0
  <2>1. j \div 2 \in 1 .. Len(cs) /\ j = 2 * (j \div 2)
    BY <1>1, <1>2 DEF Height
  <2> QED BY <2>1
<1>3. CASE j % 2 # 0 /\ j # 1
  <2>1. j \div 2 \in 1 .. Len(cs) /\ j = 2 * (j \div 2) + 1
    BY <1>1, <1>3 DEF Height
  <2> QED BY <2>1
<1> QED BY <1>2, <1>3

(* The global layer hides nothing.                                         *)
LEMMA LayerBase ==
  ASSUME NEW d, NEW s \in Layered(d), NEW cs \in Seq(Seq(Save))
  PROVE  1 \in 1 .. Height(cs) /\ \A n : ~ Hides(LayersOf(s, cs), 1, n)
<1>1. Len(cs) \in Nat /\ s \in Seq(Save) /\ \A i \in DOMAIN s : s[i].depth # 0
  BY DEF Layered
<1>2. 1 \in 1 .. Height(cs)
  BY <1>1 DEF Height
<1>3. 1 % 2 # 0 /\ 1 \div 2 = 0
  OBVIOUS
<1>4. LayersOf(s, cs)[1] = FirstSaved(s, 0)
  BY <1>2, <1>3 DEF LayersOf
<1>5. \A n : n \notin DOMAIN FirstSaved(s, 0)
  BY <1>1, FirstIs DEF IsSaved, Of
<1> QED BY <1>2, <1>4, <1>5 DEF Hides

-----------------------------------------------------------------------------
(* Putting saves back.                                                     *)

(* A save of a name without a record has no value, and one of a record     *)
(* has one.                                                                *)
Good == {s \in Save : s.existed <=> s.value # NoValue}

LEMMA GoodBack ==
  ASSUME NEW S, NEW M \in Stores(S), NEW s \in Good
  PROVE  /\ restore_one(M, s) \in Stores(S) /\ restore_one(M, s).saves = M.saves
         /\ s.key \in Names
         /\ restore_one(M, s).env[s.key].value = s.value
         /\ \A n \in Names \ {s.key} : restore_one(M, s).env[n] = M.env[n]
<1>1. s \in Save /\ s.key \in Names /\ (s.existed <=> s.value # NoValue)
  BY DEF Good, Save
<1>2. /\ restore_one(M, s) \in Stores(S) /\ restore_one(M, s).saves = M.saves
      /\ restore_one(M, s).env = [M.env EXCEPT ![s.key] = RecordBack(M, s)]
  BY <1>1, RestoreStore
<1>3. M.env \in [Names -> Record]
  BY DEF Stores
<1>4. RecordBack(M, s).value = s.value
  BY <1>1 DEF RecordBack, env_create, Absent
<1> QED BY <1>1, <1>2, <1>3, <1>4

(* The value of n in a store that has put back the saves at from..m.       *)
BackFrom(F, E, s, from, m, n) ==
  /\ (\A j \in from .. m : s[j].key # n) => F[n].value = E[n].value
  /\ \A j \in from .. m : s[j].key = n /\ (\A h \in from .. j - 1 : s[h].key # n) =>
       F[n].value = s[j].value

LEMMA RestoreValues ==
  ASSUME NEW S, NEW M \in Stores(S), NEW s \in Seq(Good)
  PROVE  /\ Restores!Right(s, M) \in Stores(S) /\ Restores!Right(s, M).saves = M.saves
         /\ \A n \in Names : BackFrom(Restores!Right(s, M).env, M.env, s, 1, Len(s), n)
<1> DEFINE m == Len(s)
           In(i) == {a \in Stores({M.saves}) :
                       \A n \in Names : BackFrom(a.env, M.env, s, m - i + 1, m, n)}
           I == [i \in Nat |-> In(i)]
<1>1. m \in Nat /\ DOMAIN s = 1 .. m /\ \A i \in 1 .. m : s[i] \in Good
  OBVIOUS
<1>2. \A i \in Nat : I[i] = In(i)
  OBVIOUS
<1>3. M \in I[0]
  <2>1. \A n : BackFrom(M.env, M.env, s, m - 0 + 1, m, n)
    BY <1>1 DEF BackFrom
  <2>2. M \in In(0)
    BY <2>1, StoreAlone
  <2> HIDE DEF I, In
  <2> QED BY <1>2, <2>2
<1>4. ASSUME NEW i \in 1 .. m, NEW a \in I[i - 1] PROVE restore_one(a, s[m - i + 1]) \in I[i]
  <2> DEFINE k == m - i + 1
             T == restore_one(a, s[k])
  <2>1. k \in 1 .. m /\ m - (i - 1) + 1 = k + 1 /\ i \in Nat /\ i - 1 \in Nat
    BY <1>1
  <2> HIDE DEF I
  <2>2. a \in In(i - 1)
    BY <1>2, <2>1
  <2>3. a \in Stores({M.saves}) /\ \A n \in Names : BackFrom(a.env, M.env, s, k + 1, m, n)
    BY <2>1, <2>2
  <2> HIDE DEF k
  <2>4. /\ T \in Stores({M.saves}) /\ T.env[s[k].key].value = s[k].value
        /\ \A n \in Names \ {s[k].key} : T.env[n] = a.env[n]
    BY <1>1, <2>1, <2>3, GoodBack
  <2> HIDE DEF T
  <2>5. ASSUME NEW n \in Names PROVE BackFrom(T.env, M.env, s, k, m, n)
    <3>0. k \in Nat /\ k + 1 .. m \subseteq k .. m /\ k \in k .. m
          /\ \A j \in k .. m : j = k \/ j \in k + 1 .. m
      BY <1>1, <2>1
    <3>1. CASE n = s[k].key
      <4>1. ~ \A j \in k .. m : s[j].key # n
        BY <3>0, <3>1
      <4>2. ASSUME NEW j \in k .. m, j # k PROVE k \in k .. j - 1
        BY <3>0, <4>2
      <4>3. ASSUME NEW j \in k .. m, \A h \in k .. j - 1 : s[h].key # n PROVE j = k
        BY <3>1, <4>2, <4>3
      <4> QED BY <2>4, <3>1, <4>1, <4>3 DEF BackFrom
    <3>2. CASE n # s[k].key
      <4>1. T.env[n] = a.env[n] /\ BackFrom(a.env, M.env, s, k + 1, m, n)
        BY <2>3, <2>4, <3>2
      <4>2. (\A j \in k .. m : s[j].key # n) => T.env[n].value = M.env[n].value
        BY <3>0, <4>1 DEF BackFrom
      <4>3. ASSUME NEW j \in k .. m, s[j].key = n, \A h \in k .. j - 1 : s[h].key # n
            PROVE  T.env[n].value = s[j].value
        <5>1. j \in k + 1 .. m /\ \A h \in k + 1 .. j - 1 : h \in k .. j - 1
          BY <3>0, <3>2, <4>3
        <5> QED BY <4>1, <4>3, <5>1 DEF BackFrom
      <4> QED BY <4>2, <4>3 DEF BackFrom
    <3> QED BY <3>1, <3>2
  <2>6. T \in In(i)
    BY <2>4, <2>5 DEF k
  <2> HIDE DEF In
  <2> QED BY <1>2, <2>1, <2>6 DEF T, k
<1> HIDE DEF I
<1>5. Restores!Right(s, M) \in I[m]
  <2>1. s \in Seq(Good)
    OBVIOUS
  <2> QED BY <1>1, <1>3, <1>4, Restores!RightStaysIn
<1>6. Restores!Right(s, M) \in In(m)
  BY <1>1, <1>2, <1>5
<1>7. m - m + 1 = 1
  BY <1>1
<1> QED BY <1>6, <1>7, AloneStore

-----------------------------------------------------------------------------
(* What the operations make of the layers.                                 *)

LEMMA SameAt ==
  ASSUME NEW a, NEW s \in Layered(a), NEW cs \in Seq(Seq(Save)),
         NEW b, NEW t \in Layered(b), NEW ds \in Seq(Seq(Save)),
         NEW j \in 1 .. Height(cs), j \in 1 .. Height(ds),
         \A e \in 1 .. Len(cs) : e \in 1 .. Len(ds) => ds[e] = cs[e],
         \A e \in 1 .. Len(cs) : j = 2 * e + 1 => \A n : Agree(s, t, e, n)
  PROVE  Same(LayersOf(s, cs), LayersOf(t, ds), j)
<1>1. s \in Seq(Save) /\ t \in Seq(Save) /\ Len(cs) \in Nat /\ Len(ds) \in Nat
  BY DEF Layered
<1>2. CASE j = 1
  BY <1>2, LayerBase DEF Same
<1>3. ASSUME NEW d \in 1 .. Len(cs), j = 2 * d \/ j = 2 * d + 1
      PROVE  Same(LayersOf(s, cs), LayersOf(t, ds), j)
  <2>1. d \in 1 .. Len(ds)
    BY <1>1, <1>3 DEF Height
  <2>2. CASE j = 2 * d
    <3>1. LayersOf(s, cs)[j] = LayersOf(t, ds)[j]
      BY <2>1, <2>2, LayerAt
    <3> QED BY <3>1 DEF Same, Hides
  <2>3. CASE j = 2 * d + 1
    <3>1. LayersOf(s, cs)[j] = FirstSaved(s, d) /\ LayersOf(t, ds)[j] = FirstSaved(t, d)
      BY <2>1, <2>3, LayerAt
    <3>2. \A n : Agree(s, t, d, n)
      BY <2>3
    <3>3. ASSUME NEW n
          PROVE  /\ n \in DOMAIN FirstSaved(t, d) <=> n \in DOMAIN FirstSaved(s, d)
                 /\ n \in DOMAIN FirstSaved(s, d) => FirstSaved(t, d)[n] = FirstSaved(s, d)[n]
      <4>1. Agree(s, t, d, n)
        BY <3>2
      <4> QED BY <1>1, <4>1, FirstsAgree
    <3> QED BY <3>1, <3>3 DEF Same, Hides
  <2> QED BY <1>3, <2>2, <2>3
<1> QED BY <1>2, <1>3, LayerKinds

LEMMA AgreeItself ==
  ASSUME NEW s, NEW depth, NEW n
  PROVE  Agree(s, s, depth, n)
BY DEF Agree

LEMMA CallLayers ==
  ASSUME NEW cs \in Seq(Seq(Save)), NEW s \in Layered(Len(cs)), NEW saved \in Seq(Save)
  PROVE  LET L == LayersOf(s, cs)
             R == LayersOf(s, Append(cs, saved))
             top == Height(cs)
         IN  /\ Height(Append(cs, saved)) = top + 2
             /\ \A j \in 1 .. top : Same(L, R, j)
             /\ R[top + 1] = FirstSaved(saved, 0) /\ DOMAIN R[top + 2] = {}
<1> DEFINE ds == Append(cs, saved)
           L == LayersOf(s, cs)
           R == LayersOf(s, ds)
           top == Height(cs)
           d == Len(cs)
<1>1. ds \in Seq(Seq(Save)) /\ Len(ds) = d + 1 /\ d \in Nat /\ ds[d + 1] = saved
      /\ \A e \in 1 .. d : ds[e] = cs[e]
  OBVIOUS
<1>2. s \in Seq(Save) /\ DOMAIN s = 1 .. Len(s) /\ \A i \in DOMAIN s : s[i].depth \in 1 .. d
  BY DEF Layered
<1> HIDE DEF ds
<1>3. Height(ds) = top + 2 /\ top = 2 * d + 1 /\ top + 1 = 2 * (d + 1) /\ top + 2 = 2 * (d + 1) + 1
      /\ d + 1 \in 1 .. Len(ds)
  BY <1>1 DEF Height
<1>4. ASSUME NEW j \in 1 .. top PROVE Same(L, R, j)
  <2>1. j \in 1 .. Height(ds)
    BY <1>1, <1>3
  <2> QED BY <1>1, <2>1, SameAt, AgreeItself
<1>5. R[top + 1] = FirstSaved(saved, 0) /\ R[top + 2] = FirstSaved(s, d + 1)
  <2>1. R[2 * (d + 1)] = FirstSaved(ds[d + 1], 0) /\ R[2 * (d + 1) + 1] = FirstSaved(s, d + 1)
    BY <1>1, <1>3, LayerAt
  <2> QED BY <1>1, <1>3, <2>1
<1>6. ASSUME NEW n PROVE n \notin DOMAIN FirstSaved(s, d + 1)
  <2>1. ~ IsSaved(s, d + 1, n)
    BY <1>1, <1>2 DEF IsSaved, Of
  <2> QED BY <1>2, <2>1, FirstIs
<1> QED BY <1>3, <1>4, <1>5, <1>6 DEF ds

LEMMA ReturnLayers ==
  ASSUME NEW cs \in Seq(Seq(Save)), NEW s \in Layered(Len(cs)), Len(cs) >= 1,
         NEW k \in 0 .. Len(s), \A i \in k + 1 .. Len(s) : s[i].depth = Len(cs),
         SubSeq(s, 1, k) \in Layered(Len(cs) - 1)
  PROVE  /\ Height(Front(cs)) = Height(cs) - 2
         /\ \A j \in 1 .. Height(cs) - 2 : Same(LayersOf(s, cs), LayersOf(SubSeq(s, 1, k), Front(cs)), j)
<1> DEFINE d == Len(cs)
           t == SubSeq(s, 1, k)
           ds == Front(cs)
<1>1. ds \in Seq(Seq(Save)) /\ Len(ds) = d - 1 /\ d \in Nat /\ \A e \in 1 .. d - 1 : ds[e] = cs[e]
  <2>1. d - 1 \in 0 .. Len(cs) /\ d \in Nat
    OBVIOUS
  <2>2. ds = SubSeq(cs, 1, d - 1)
    BY DEF Front
  <2> HIDE DEF ds, d
  <2> QED BY <2>1, <2>2, Halves
<1>2. s \in Seq(Save) /\ t \in Seq(Save) /\ Len(t) = k /\ \A i \in 1 .. k : t[i] = s[i]
  BY Halves DEF Layered
<1> HIDE DEF t, ds
<1>3. Height(ds) = Height(cs) - 2
  BY <1>1 DEF Height
<1>4. ASSUME NEW j \in 1 .. Height(cs) - 2 PROVE Same(LayersOf(s, cs), LayersOf(t, ds), j)
  <2>1. j \in 1 .. Height(cs) /\ j \in 1 .. Height(ds) /\ \A e \in 1 .. d : j = 2 * e + 1 => e # d
    BY <1>1, <1>3 DEF Height
  <2>2. ASSUME NEW e \in 1 .. d, e # d, NEW n PROVE Agree(s, t, e, n)
    <3>1. \A i \in Len(t) + 1 .. Len(s) : ~ Of(s, i, e, n)
      BY <1>2, <2>2 DEF Of
    <3>2. Len(t) <= Len(s) /\ \A i \in 1 .. Len(t) : s[i] = t[i]
      BY <1>2
    <3> QED BY <1>2, <3>1, <3>2, AgreeLonger
  <2>3. \A e \in 1 .. Len(cs) : j = 2 * e + 1 => \A n : Agree(s, t, e, n)
    BY <2>1, <2>2
  <2>4. \A e \in 1 .. Len(cs) : e \in 1 .. Len(ds) => ds[e] = cs[e]
    BY <1>1
  <2>5. s \in Layered(d) /\ t \in Layered(d - 1)
    BY DEF t
  <2> HIDE DEF d
  <2> QED BY <1>1, <2>1, <2>3, <2>4, <2>5, SameAt
<1> QED BY <1>3, <1>4 DEF t, ds

(* `local` saves the name on top.                                          *)
LEMMA LocalLayers ==
  ASSUME NEW cs \in Seq(Seq(Save)), NEW d, d = Len(cs), d >= 1, NEW s \in Layered(d),
         NEW x \in Save, x.depth = d
  PROVE  LET L == LayersOf(s, cs)
             R == LayersOf(Append(s, x), cs)
             top == Height(cs)
         IN  /\ \A j \in 1 .. top - 1 : Same(L, R, j)
             /\ DOMAIN R[top] = DOMAIN L[top] \cup {x.key}
             /\ \A n \in DOMAIN L[top] : R[top][n] = L[top][n]
             /\ ~ Hides(L, top, x.key) => R[top][x.key] = x.value
<1> DEFINE L == LayersOf(s, cs)
           t == Append(s, x)
           R == LayersOf(t, cs)
           top == Height(cs)
<1>1. s \in Seq(Save) /\ t \in Seq(Save) /\ d \in Nat /\ d \in 1 .. Len(cs)
      /\ top = 2 * d + 1 /\ top \in Nat
  BY DEF Layered, Height
<1>2. t \in Layered(d)
  BY <1>1, LayeredPush
<1>3. ASSUME NEW j \in 1 .. top - 1 PROVE Same(L, R, j)
  <2>1. j \in 1 .. top /\ \A e \in 1 .. Len(cs) : j = 2 * e + 1 => e # d
    BY <1>1
  <2>2. \A e \in 1 .. Len(cs) : j = 2 * e + 1 => \A n : Agree(s, t, e, n)
    BY <1>1, <2>1, FirstPushed
  <2>3. \A e \in 1 .. Len(cs) : e \in 1 .. Len(cs) => cs[e] = cs[e]
    OBVIOUS
  <2> HIDE DEF t
  <2> QED BY <1>2, <2>1, <2>2, <2>3, SameAt
<1>4. L[top] = FirstSaved(s, d) /\ R[top] = FirstSaved(t, d)
  <2>1. L[2 * d + 1] = FirstSaved(s, d) /\ R[2 * d + 1] = FirstSaved(t, d)
    BY <1>1, LayerAt
  <2> HIDE DEF L, R, t
  <2> QED BY <1>1, <2>1
<1> HIDE DEF L, R, top
<1>5. /\ \A n : n # x.key => Agree(s, t, d, n)
      /\ IsSaved(s, d, x.key) => Agree(s, t, d, x.key)
      /\ IsSaved(t, d, x.key)
      /\ ~ IsSaved(s, d, x.key) => FirstSaved(t, d)[x.key] = x.value
  BY <1>1, FirstPushed
<1> HIDE DEF t
<1>6. \A n : n # x.key => (n \in DOMAIN R[top] <=> n \in DOMAIN L[top])
  BY <1>1, <1>4, <1>5, FirstsAgree
<1>7. x.key \in DOMAIN R[top] /\ (IsSaved(s, d, x.key) <=> Hides(L, top, x.key))
  BY <1>1, <1>4, <1>5, FirstIs DEF Hides
<1>8. ASSUME NEW n \in DOMAIN L[top] PROVE R[top][n] = L[top][n]
  <2>1. Agree(s, t, d, n)
    BY <1>5, <1>7 DEF Hides
  <2> QED BY <1>1, <1>4, <2>1, FirstsAgree
<1>9. ~ Hides(L, top, x.key) => R[top][x.key] = x.value
  BY <1>4, <1>5, <1>7
<1>10. DOMAIN R[top] = DOMAIN L[top] \cup {x.key}
  BY <1>6, <1>7
<1> QED BY <1>3, <1>8, <1>9, <1>10 DEF L, R, t, top

(* `unset` of a caller's local takes its save away.                        *)
CutMade(L, R, top, at, x, v) ==
  /\ at \in 2 .. top
  /\ Hides(L, at, x) /\ L[at][x] = v
  /\ \A j \in 1 .. top : j # at => Same(L, R, j)
  /\ DOMAIN R[at] = DOMAIN L[at] \ {x}
  /\ \A n \in DOMAIN R[at] : R[at][n] = L[at][n]

LEMMA CutLayers ==
  ASSUME NEW cs \in Seq(Seq(Save)), NEW d, d = Len(cs), NEW s \in Layered(d), NEW k \in 1 .. Len(s),
         \A i \in 1 .. Len(s) : Of(s, i, s[k].depth, s[k].key) => i = k
  PROVE  CutMade(LayersOf(s, cs), LayersOf(RemoveAt(s, k), cs), Height(cs), 2 * s[k].depth + 1,
                 s[k].key, s[k].value)
<1> DEFINE L == LayersOf(s, cs)
           t == RemoveAt(s, k)
           R == LayersOf(t, cs)
           e == s[k].depth
           x == s[k].key
           at == 2 * e + 1
<1>1. s \in Seq(Save) /\ k \in DOMAIN s /\ d \in Nat /\ e \in 1 .. d /\ DOMAIN s = 1 .. Len(s)
  BY DEF Layered
<1>2. t \in Layered(d) /\ t \in Seq(Save)
  BY <1>1, LayeredCut, CutIs
<1>3. /\ \A depth, n : ~ Of(s, k, depth, n) => Agree(s, t, depth, n)
      /\ ~ IsSaved(t, e, x)
  BY <1>1, FirstCut
<1>4. Of(s, k, e, x) /\ \A depth, n : Of(s, k, depth, n) => depth = e /\ n = x
  BY DEF Of
<1>5. IsFirst(s, e, x, k)
  BY <1>1, <1>4 DEF IsFirst
<1>6. at \in 2 .. Height(cs) /\ e \in 1 .. Len(cs) /\ \A f \in Int : at = 2 * f + 1 => f = e
  BY <1>1 DEF Height
<1> HIDE DEF t
<1>7. L[at] = FirstSaved(s, e) /\ R[at] = FirstSaved(t, e)
  BY <1>6, LayerAt
<1>8. ASSUME NEW j \in 1 .. Height(cs), j # at PROVE Same(L, R, j)
  <2>1. \A f \in 1 .. Len(cs) : j = 2 * f + 1 => \A n : Agree(s, t, f, n)
    BY <1>3, <1>4, <1>8
  <2>2. \A f \in 1 .. Len(cs) : f \in 1 .. Len(cs) => cs[f] = cs[f]
    OBVIOUS
  <2> HIDE DEF at
  <2> QED BY <1>2, <2>1, <2>2, SameAt
<1>9. x \in DOMAIN L[at] /\ L[at][x] = s[k].value
  BY <1>1, <1>4, <1>5, <1>7, FirstIs DEF IsSaved
<1>10. x \notin DOMAIN R[at]
  BY <1>2, <1>3, <1>7, FirstIs
<1>11. \A n : n # x => /\ n \in DOMAIN R[at] <=> n \in DOMAIN L[at]
                       /\ n \in DOMAIN L[at] => R[at][n] = L[at][n]
  BY <1>1, <1>2, <1>3, <1>4, <1>7, FirstsAgree
<1> HIDE DEF L, R
<1>12. DOMAIN R[at] = DOMAIN L[at] \ {x} /\ \A n \in DOMAIN R[at] : R[at][n] = L[at][n]
  BY <1>10, <1>11
<1> QED BY <1>1, <1>6, <1>8, <1>9, <1>12 DEF CutMade, Hides, L, R, t

-----------------------------------------------------------------------------
(* What the lists in front of a command leave, when no use is unusual.     *)

LEMMA GoodSaves == Good \subseteq Save /\ Seq(Good) \subseteq Seq(Save)
<1>1. Good \subseteq Save
  BY DEF Good
<1>2. ASSUME NEW s \in Seq(Good) PROVE s \in Seq(Save)
  BY <1>1
<1> QED BY <1>1, <1>2

LEMMA CaptureGood ==
  ASSUME NEW S, NEW M \in Stores(S), NEW n \in Names, NEW d \in Nat, ~ Valueless(M, n)
  PROVE  /\ scope_save_capture(M, n, d) \in Good
         /\ scope_save_capture(M, n, d).key = n
         /\ scope_save_capture(M, n, d).depth = d
         /\ scope_save_capture(M, n, d).value = M.env[n].value
<1> DEFINE c == scope_save_capture(M, n, d)
<1>1. c \in Save /\ c.key = n /\ c.depth = d
  BY CaptureSave
<1>2. c.value = M.env[n].value /\ c.existed = M.env[n].there
  BY DEF scope_save_capture
<1> HIDE DEF c
<1>3. M.env[n] \in Record
  BY DEF Stores
<1>4. M.env[n].there <=> M.env[n].value # NoValue
  <2>1. ~ M.env[n].there => M.env[n] = Absent
    BY <1>3, RecordHas
  <2> QED BY <2>1 DEF Valueless, Absent
<1>5. c.existed <=> c.value # NoValue
  BY <1>2, <1>4
<1> QED BY <1>1, <1>2, <1>5 DEF Good, c

LEMMA ListStaged ==
  ASSUME Sound, "repeated" \notin Unusual, "valueless" \notin Unusual,
         NEW list \in Seq(Assignment), UsualList(expand_assignments(Store, list))
  PROVE  LET staged == expand_assignments(Store, list)
             p == staged.pre
         IN  /\ staged.store = Store /\ StagedAs(staged, Store, list, Len(list))
             /\ p \in Seq(Staged) /\ Len(p) = Len(list) /\ Distinct(p) /\ Distinct(list)
             /\ \A k \in 1 .. Len(list) : p[k].key = list[k].key
             /\ \A k \in DOMAIN p : ~ Valueless(Store, p[k].key)
<1> DEFINE staged == expand_assignments(Store, list)
           p == staged.pre
           n == Len(list)
           S == Layered(func_depth)
<1>1. Store \in Stores(S)
  BY SoundStore
<1> HIDE DEF S
<1>2. DOMAIN list = 1 .. n /\ n \in Nat
  OBVIOUS
<1>3. StagedKeys(staged, list, n)
  BY <1>1, StageKeys
<1>4. ~ (Cardinality(Keys(p)) < Len(p)) /\ \A k \in Keys(p) : ~ Valueless(Store, k)
  BY DEF UsualList, With
<1> HIDE DEF staged
<1>5. p \in Seq(Staged) /\ Len(p) = n /\ DOMAIN p = 1 .. n /\ \A k \in 1 .. n : p[k].key = list[k].key
  BY <1>2, <1>3 DEF StagedKeys
<1>6. Distinct(p)
  BY <1>4, <1>5, AllDistinct
<1>7. Distinct(list)
  BY <1>2, <1>5, <1>6 DEF Distinct
<1>8. \A k \in DOMAIN list : ~ Valueless(Store, list[k].key)
  BY <1>2, <1>4, <1>5 DEF Keys
<1>9. StagedAs(staged, Store, list, n)
  BY <1>1, <1>7, <1>8, StageMeans DEF staged
<1>10. staged.store = Store
  BY <1>9 DEF StagedAs
<1>11. \A k \in DOMAIN p : ~ Valueless(Store, p[k].key)
  BY <1>4 DEF Keys
<1> QED BY <1>5, <1>6, <1>7, <1>9, <1>10, <1>11 DEF staged

(* A prefix in place, and what it saved.                                   *)
PrefixIn(P, K) ==
  /\ K \subseteq Names
  /\ P.store \in Stores({local_saves}) /\ P.saved \in Seq(Good)
  /\ \A i \in DOMAIN P.saved : /\ P.saved[i].depth = 0 /\ P.saved[i].key \in K
                               /\ P.saved[i].value = env[P.saved[i].key].value
  /\ \A n \in K : /\ P.store.env[n].value \in Values
                  /\ \E i \in DOMAIN P.saved : P.saved[i].key = n
  /\ \A n \in Names \ K : P.store.env[n] = env[n]

LEMMA PrefixDone ==
  ASSUME Sound, "repeated" \notin Unusual, "valueless" \notin Unusual,
         NEW prefix \in PreAssigns, UsualList(expand_assignments(Store, prefix))
  PROVE  PrefixIn(Prefixed(prefix), Keys(prefix))
<1> DEFINE staged == expand_assignments(Store, prefix)
           p == staged.pre
           n == Len(prefix)
           K == Keys(prefix)
           P == Prefixed(prefix)
<1>1. prefix \in Seq(Assignment)
  BY VarScopeAssumption DEF Assignment
<1>2. /\ staged.store = Store
      /\ p \in Seq(Staged) /\ Len(p) = n /\ Distinct(p)
      /\ \A k \in 1 .. n : p[k].key = prefix[k].key
      /\ \A k \in DOMAIN p : ~ Valueless(Store, p[k].key)
  BY <1>1, ListStaged
<1>3. P = apply_temp_assigns(Store, p)
  BY <1>2 DEF Prefixed
<1>4. Store \in Stores({local_saves}) /\ Store.saves = local_saves /\ Store.env = env
      /\ env \in [Names -> Record]
  BY SoundStore DEF Store, Sound
<1> HIDE DEF staged, P
<1>5. DOMAIN p = 1 .. n /\ DOMAIN prefix = 1 .. n /\ n \in Nat
  BY <1>1, <1>2
<1>6. K = {p[k].key : k \in 1 .. n}
  BY <1>2, <1>5 DEF Keys
<1>7. Placed(P, Store, p, n)
  BY <1>2, <1>3, <1>4, PlaceMakes
<1>8. /\ P.store \in Stores({local_saves}) /\ P.saved \in Seq(Save) /\ Len(P.saved) = n
      /\ Made(P.store.env, env, p, 1 .. n, PlainRecords(env, p))
      /\ \A k \in 1 .. n : P.saved[k] = scope_save_capture(Store, p[k].key, 0)
  BY <1>4, <1>7 DEF Placed
<1>9. DOMAIN P.saved = 1 .. n /\ P.saved = [k \in 1 .. n |-> P.saved[k]]
  BY <1>8
<1>10. ASSUME NEW k \in 1 .. n
       PROVE  /\ P.saved[k] \in Good /\ P.saved[k].depth = 0 /\ P.saved[k].key = p[k].key
              /\ P.saved[k].value = env[P.saved[k].key].value
              /\ p[k].key \in Names /\ P.store.env[p[k].key].value \in Values
  <2>1. p[k].key \in Names /\ p[k].value \in Values
        /\ PlainRecords(env, p)[k] = env_create(p[k].value, env[p[k].key].exported)
    BY <1>2, <1>4, <1>5, RecordsTypes
  <2>2. P.store.env[p[k].key] = PlainRecords(env, p)[k]
    BY <1>8 DEF Made
  <2>3. P.store.env[p[k].key].value = p[k].value
    BY <2>1, <2>2 DEF env_create
  <2>4. ~ Valueless(Store, p[k].key) /\ 0 \in Nat
    BY <1>2, <1>5
  <2>5. P.saved[k] \in Good /\ P.saved[k].depth = 0 /\ P.saved[k].key = p[k].key
        /\ P.saved[k].value = Store.env[p[k].key].value
    BY <1>4, <1>8, <2>1, <2>4, CaptureGood
  <2> QED BY <1>4, <2>1, <2>3, <2>5
<1>11. P.saved \in Seq(Good)
  BY <1>5, <1>9, <1>10
<1>12. \A m \in Names \ K : P.store.env[m] = env[m]
  BY <1>6, <1>8 DEF Made
<1>13. K \subseteq Names
  BY <1>6, <1>10
<1>14. \A m \in K : /\ P.store.env[m].value \in Values
                    /\ \E i \in DOMAIN P.saved : P.saved[i].key = m
  BY <1>6, <1>9, <1>10
<1>15. \A i \in DOMAIN P.saved : /\ P.saved[i].depth = 0 /\ P.saved[i].key \in K
                                 /\ P.saved[i].value = env[P.saved[i].key].value
  BY <1>6, <1>9, <1>10
<1> HIDE DEF K
<1> QED BY <1>8, <1>11, <1>12, <1>13, <1>14, <1>15 DEF PrefixIn, P, K

LEMMA BackSplits ==
  ASSUME NEW s \in Seq(Save), NEW n, NEW F, NEW E, BackFrom(F, E, s, 1, Len(s), n)
  PROVE  \/ (\A j \in DOMAIN s : s[j].key # n) /\ F[n].value = E[n].value
         \/ \E j \in DOMAIN s : /\ s[j].key = n /\ \A h \in DOMAIN s : h < j => s[h].key # n
                                /\ F[n].value = s[j].value
<1> DEFINE own == {j \in DOMAIN s : s[j].key = n}
<1>1. DOMAIN s = 1 .. Len(s) /\ Len(s) \in Nat
  OBVIOUS
<1>2. CASE own = {}
  BY <1>1, <1>2 DEF BackFrom
<1>3. CASE own # {}
  <2>1. own \subseteq Nat
    BY <1>1
  <2>2. PICK j \in own : \A y \in own : j <= y
    <3> HIDE DEF own
    <3> QED BY <1>3, <2>1, Places!LowestOf
  <2>3. j \in 1 .. Len(s) /\ s[j].key = n
    BY <1>1
  <2>4. \A h \in 1 .. Len(s) : h < j => s[h].key # n
    BY <1>1, <2>2, <2>3
  <2>5. \A h \in 1 .. j - 1 : h \in 1 .. Len(s) /\ h < j
    BY <1>1, <2>3
  <2>6. F[n].value = s[j].value
    BY <2>3, <2>4, <2>5 DEF BackFrom
  <2> QED BY <1>1, <2>3, <2>4, <2>6
<1> QED BY <1>2, <1>3

(* A builtin: outside its prefix, names have the values it left.           *)
LEMMA BuiltinBack ==
  ASSUME Sound, NEW S, NEW after \in Stores(S), NEW prefix \in PreAssigns,
         PrefixIn(Prefixed(prefix), Keys(prefix)), execute_builtin(prefix, after)
  PROVE  /\ local_saves' = after.saves /\ calls' = calls
         /\ \A n \in Names : env'[n].value = IF n \in Keys(prefix) THEN env[n].value
                                             ELSE after.env[n].value
<1> DEFINE saved == Prefixed(prefix).saved
           K == Keys(prefix)
           B == restore_temp_assigns(after, saved)
<1>1. env' = B.env /\ local_saves' = B.saves /\ calls' = calls
  BY DEF execute_builtin, Becomes
<1>2. /\ saved \in Seq(Good) /\ saved \in Seq(Save)
      /\ \A i \in DOMAIN saved : saved[i].key \in K /\ saved[i].value = env[saved[i].key].value
      /\ \A n \in K : \E i \in DOMAIN saved : saved[i].key = n
  BY GoodSaves DEF PrefixIn
<1>3. B = Restores!Right(saved, after)
  BY RestoreLoop
<1> HIDE DEF saved, B, K
<1>4. B.saves = after.saves /\ \A n \in Names : BackFrom(B.env, after.env, saved, 1, Len(saved), n)
  BY <1>2, <1>3, RestoreValues
<1>5. ASSUME NEW n \in Names
      PROVE  B.env[n].value = IF n \in K THEN env[n].value ELSE after.env[n].value
  <2>1. BackFrom(B.env, after.env, saved, 1, Len(saved), n)
    BY <1>4
  <2>2. \/ (\A j \in DOMAIN saved : saved[j].key # n) /\ B.env[n].value = after.env[n].value
        \/ \E j \in DOMAIN saved : saved[j].key = n /\ B.env[n].value = saved[j].value
    BY <1>2, <2>1, BackSplits
  <2> QED BY <1>2, <2>2
<1> QED BY <1>1, <1>4, <1>5 DEF K

-----------------------------------------------------------------------------
(* Every step is a step of dynamic scoping.                                *)

LEMMA ScopeNext == Scope' = Cells(env', LayersOf(local_saves', calls'), Height(calls'))
<1>1. (Scope = Cells(env, LayersOf(local_saves, calls), Height(calls)))'
  BY ScopeIs, PTL
<1> QED BY <1>1

LEMMA SoundStack ==
  ASSUME Sound
  PROVE  /\ Stack(LayersOf(local_saves, calls), Height(calls))
         /\ local_saves \in Layered(Len(calls)) /\ local_saves \in Seq(Save)
         /\ calls \in Seq(Seq(Save)) /\ Len(calls) \in Nat /\ func_depth = Len(calls)
         /\ env \in [Names -> Record]
BY LayersStack DEF Sound, Layered, func_depth

LEMMA WriteStep ==
  ASSUME Sound, local_saves' = local_saves, calls' = calls, NEW new, DOMAIN new \subseteq Names,
         \A n \in Names : env'[n].value = IF n \in DOMAIN new THEN new[n] ELSE env[n].value
  PROVE  Scope' = Scopes!Written(Scope, new)
<1> DEFINE L == LayersOf(local_saves, calls)
           top == Height(calls)
<1>1. Scope = Cells(env, L, top) /\ Scope' = Cells(env', L, top)
  BY ScopeIs, ScopeNext
<1>2. Stack(L, top)
  BY SoundStack
<1> HIDE DEF L, top
<1>3. Cells(env', L, top) = Scopes!Written(Cells(env, L, top), new)
  BY <1>2, WriteSim
<1> QED BY <1>1, <1>3

(* Some names get a value, and no scope comes or goes.                     *)
LEMMA AssignStep ==
  ASSUME Sound, local_saves' = local_saves, calls' = calls, NEW K, K \subseteq Names,
         \A n \in K : env'[n].value \in Values,
         \A n \in Names \ K : env'[n].value = env[n].value
  PROVE  Scopes!Next
<1> DEFINE new == [n \in K |-> env'[n].value]
<1>1. new \in Scopes!Layer(Values) /\ DOMAIN new = K
  BY DEF Scopes!Layer
<1>2. \A n \in Names : env'[n].value = IF n \in DOMAIN new THEN new[n] ELSE env[n].value
  OBVIOUS
<1> HIDE DEF new
<1>3. Scope' = Scopes!Written(Scope, new)
  BY <1>1, <1>2, WriteStep
<1> QED BY <1>1, <1>3 DEF Scopes!Next, Scopes!Assign

LEMMA AssignsRefine ==
  ASSUME Sound, "repeated" \notin Unusual, "valueless" \notin Unusual,
         NEW list \in Lists, handle_assign_only(list)
  PROVE  Scopes!Next /\ local_saves' = local_saves /\ calls' = calls
<1> DEFINE staged == expand_assignments(Store, list)
           p == staged.pre
           n == Len(list)
           D == Taken(p, 1, n)
           F == apply_pre_assigns(Store, p)
           K == {p[k].key : k \in D}
<1>1. list \in Seq(Assignment) /\ UsualList(staged)
  BY VarScopeAssumption DEF Assignment, handle_assign_only
<1>2. /\ staged.store = Store
      /\ p \in Seq(Staged) /\ Len(p) = n /\ Distinct(p)
  BY <1>1, ListStaged
<1>3. Store \in Stores({local_saves}) /\ Store.env = env /\ env \in [Names -> Record]
  BY SoundStore DEF Store, Sound
<1>4. env' = F.env /\ local_saves' = F.saves /\ calls' = calls
  BY <1>2 DEF handle_assign_only, Becomes, Assigned
<1> HIDE DEF staged, F
<1>5. Made(F.env, env, p, D, AssignRecords(env, p))
  BY <1>2, <1>3, AssignMakes DEF F
<1>6. F.saves = local_saves
  BY <1>2, <1>3, AssignTypes DEF F, Store
<1>7. D \subseteq DOMAIN p
  BY <1>2 DEF Taken
<1> HIDE DEF D
<1>8. ASSUME NEW k \in D PROVE p[k].key \in Names /\ F.env[p[k].key].value \in Values
  <2>1. p[k].key \in Names /\ p[k].value \in Values
        /\ AssignRecords(env, p)[k] = env_create(p[k].value, env[p[k].key].exported \/ AllExport)
    BY <1>2, <1>3, <1>7, RecordsTypes
  <2>2. F.env[p[k].key] = AssignRecords(env, p)[k]
    BY <1>5 DEF Made
  <2> QED BY <2>1, <2>2 DEF env_create
<1>9. \A m \in Names \ K : F.env[m] = env[m]
  BY <1>5 DEF Made
<1>10. K \subseteq Names /\ \A m \in K : F.env[m].value \in Values
  BY <1>8
<1> HIDE DEF K
<1>11. Scopes!Next
  BY <1>4, <1>6, <1>9, <1>10, AssignStep
<1> QED BY <1>4, <1>6, <1>11

LEMMA CallRefines ==
  ASSUME Sound, "repeated" \notin Unusual, "valueless" \notin Unusual,
         NEW prefix \in PreAssigns, handle_func_call(prefix)
  PROVE  Scopes!Next
<1> DEFINE P == Prefixed(prefix)
           K == Keys(prefix)
           L == LayersOf(local_saves, calls)
           R == LayersOf(local_saves', calls')
           top == Height(calls)
           d == Len(calls)
<1>1. PrefixIn(P, K)
  BY PrefixDone DEF handle_func_call
<1>2. /\ P.store \in Stores({local_saves}) /\ P.saved \in Seq(Good) /\ P.saved \in Seq(Save)
      /\ K \subseteq Names
  BY <1>1, GoodSaves DEF PrefixIn
<1>3. env' = P.store.env /\ local_saves' = local_saves /\ calls' = Append(calls, P.saved)
      /\ d < MaxDepth
  BY <1>2 DEF handle_func_call, Becomes, Stores, func_depth
<1> HIDE DEF P, K
<1>4. /\ Stack(L, top) /\ local_saves \in Layered(d) /\ calls \in Seq(Seq(Save)) /\ d \in Nat
  BY SoundStack
<1>5. /\ Height(calls') = top + 2
      /\ \A j \in 1 .. top : Same(L, R, j)
      /\ R[top + 1] = FirstSaved(P.saved, 0) /\ DOMAIN R[top + 2] = {}
  BY <1>2, <1>3, <1>4, CallLayers
<1>6. /\ \A n : n \in DOMAIN FirstSaved(P.saved, 0) <=> n \in K
      /\ \A n \in K : FirstSaved(P.saved, 0)[n] = env[n].value
  <2>1. /\ \A i \in DOMAIN P.saved : Of(P.saved, i, 0, P.saved[i].key) /\ P.saved[i].key \in K
                                     /\ P.saved[i].value = env[P.saved[i].key].value
        /\ \A n \in K : \E i \in DOMAIN P.saved : P.saved[i].key = n
    BY <1>1 DEF PrefixIn, Of
  <2>2. ASSUME NEW n PROVE IsSaved(P.saved, 0, n) <=> n \in K
    BY <2>1 DEF IsSaved, Of
  <2>3. ASSUME NEW n \in K PROVE FirstSaved(P.saved, 0)[n] = env[n].value
    <3>1. PICK i : IsFirst(P.saved, 0, n, i)
      BY <1>2, <2>2, FirstIs
    <3>2. P.saved[i].value = env[n].value
      BY <2>1, <3>1 DEF IsFirst, Of
    <3> QED BY <1>2, <3>1, <3>2, FirstIs
  <2>4. \A n : n \in DOMAIN FirstSaved(P.saved, 0) <=> n \in K
    BY <1>2, <2>2, FirstIs
  <2> QED BY <2>3, <2>4
<1>7. DOMAIN R[top + 1] = K /\ \A n \in K : R[top + 1][n] = env[n].value
  BY <1>5, <1>6
<1>8. \A n \in Names \ K : env'[n].value = env[n].value
  BY <1>1, <1>3 DEF PrefixIn
<1>9. Scope = Cells(env, L, top) /\ Scope' = Cells(env', R, top + 2)
  BY <1>5, ScopeIs, ScopeNext
<1>10. Len(Scope) = top
  BY <1>4, <1>9, CellsMean
<1>11. top < 2 * MaxDepth
  BY <1>3, <1>4, VarScopeAssumption DEF Height
<1> DEFINE new == [n \in K |-> env'[n].value]
<1>12. new \in Scopes!Layer(Values)
  <2>1. \A n \in K : env'[n].value \in Values
    BY <1>1, <1>3 DEF PrefixIn
  <2> QED BY <1>2, <2>1 DEF Scopes!Layer
<1> HIDE DEF L, R, top
<1>13. Cells(env', R, top + 2) = Cells(env, L, top) \o <<new, <<>>>>
  <2>1. K \in SUBSET Names
    BY <1>2
  <2>2. Cells(env', R, top + 2) = Called(Cells(env, L, top), ValuesOf(env', K))
    <3>1. CallMade(env, env', L, R, top, K)
      BY <1>5, <1>7, <1>8 DEF CallMade
    <3> QED BY <1>4, <2>1, <3>1, CallSim
  <2>3. new = ValuesOf(env', K)
    BY DEF new, ValuesOf
  <2> QED BY <2>2, <2>3 DEF Called
<1> HIDE DEF new
<1>14. Scope' = Scope \o <<new, <<>>>>
  BY <1>9, <1>13
<1> QED BY <1>10, <1>11, <1>12, <1>14 DEF Scopes!Next, Scopes!Call

(* Which saves the returning call has put back.                            *)
Kept == /\ local_saves \in Seq(Good)
        /\ \A k \in DOMAIN calls : /\ calls[k] \in Seq(Good)
                                   /\ \A i \in DOMAIN calls[k] : calls[k][i].depth = 0

LEMMA ReturnParts ==
  ASSUME Sound, Kept, Return
  PROVE  \E k \in 0 .. Len(local_saves) :
           /\ \A i \in k + 1 .. Len(local_saves) : local_saves[i].depth = Len(calls)
           /\ \A i \in 1 .. k : local_saves[i].depth # Len(calls)
           /\ local_saves' = SubSeq(local_saves, 1, k)
           /\ SubSeq(local_saves, 1, k) \in Layered(Len(calls) - 1)
           /\ SubSeq(local_saves, 1, k) \in Seq(Good)
           /\ Len(calls) >= 1 /\ calls' = Front(calls)
           /\ \A n \in Names : \E G :
                /\ BackFrom(G, env, SubSeq(local_saves, k + 1, Len(local_saves)), 1,
                            Len(local_saves) - k, n)
                /\ BackFrom(env', G, calls[Len(calls)], 1, Len(calls[Len(calls)]), n)
<1> DEFINE s == local_saves
           m == Len(s)
           d == Len(calls)
           X == scope_leave(Store)
           B == restore_temp_assigns(X, Last(calls))
<1>1. /\ s \in Layered(d) /\ s \in Seq(Save) /\ calls \in Seq(Seq(Save)) /\ d \in Nat
      /\ func_depth = d /\ m \in Nat /\ s \in Seq(Good)
  BY SoundStack DEF Kept
<1>2. d >= 1 /\ calls' = Front(calls) /\ env' = B.env /\ local_saves' = B.saves
  BY <1>1 DEF Return, Becomes
<1>3. Store \in Stores(Seq(Save)) /\ Store \in Stores(Layered(d)) /\ Store.saves = s /\ Store.env = env
  BY <1>1, SoundStore DEF Store
<1>4. PICK k \in 0 .. m : LeavesAt(Store, k)
  BY <1>3, LeaveSplits
<1> DEFINE lo == SubSeq(s, 1, k)
           hi == SubSeq(s, k + 1, m)
           back == Restores!Right(hi, Store)
<1>5. /\ \A i \in k + 1 .. m : s[i].depth = d
      /\ k > 0 => s[k].depth # d
      /\ X = [back EXCEPT !.saves = lo]
  BY <1>1, <1>3, <1>4 DEF LeavesAt
<1>6. X \in Stores(Layered(d - 1))
  <2>1. d - 1 \in Nat /\ func_depth = (d - 1) + 1
    BY <1>1, <1>2
  <2>2. Store \in Stores(Layered((d - 1) + 1))
    BY <1>1, <1>3
  <2> QED BY <2>1, <2>2, LeaveTypes
<1> HIDE DEF X, B, s, m
<1>7. hi \in Seq(Good) /\ lo \in Seq(Good) /\ Len(hi) = m - k
  BY <1>1, <1>4, Halves DEF m
<1> HIDE DEF lo, hi
<1>8. /\ back \in Stores(Seq(Save))
      /\ \A n \in Names : BackFrom(back.env, env, hi, 1, Len(hi), n)
  BY <1>3, <1>7, RestoreValues
<1> HIDE DEF back
<1>9. X.env = back.env /\ X.saves = lo
  BY <1>5, <1>8 DEF Stores
<1>10. lo \in Layered(d - 1)
  BY <1>6, <1>9 DEF Stores
<1>11. \A i \in 1 .. k : s[i].depth # d
  <2>1. ASSUME NEW i \in 1 .. k, s[i].depth = d PROVE FALSE
    <3>1. k \in 1 .. m /\ i \in 1 .. m /\ k > 0 /\ i \in Nat /\ k \in Nat
      BY <1>1, <1>4, <2>1
    <3>2. s[k].depth \in 1 .. d /\ s[k].depth # d /\ DOMAIN s = 1 .. m
      BY <1>1, <1>5, <3>1 DEF Layered, m
    <3>3. i # k
      BY <2>1, <3>2
    <3>4. i < k
      BY <2>1, <3>1, <3>3
    <3>5. s[i].depth <= s[k].depth
      BY <1>1, <3>1, <3>2, <3>4 DEF Layered
    <3> QED BY <1>1, <2>1, <3>2, <3>5
  <2> QED BY <2>1
<1>12. Last(calls) = calls[d] /\ Last(calls) \in Seq(Good)
  <2>1. d \in DOMAIN calls
    BY <1>1, <1>2
  <2> QED BY <2>1 DEF Last, Kept
<1>13. B = Restores!Right(Last(calls), X)
  BY RestoreLoop DEF B
<1>14. B.saves = lo /\ \A n \in Names : BackFrom(B.env, X.env, Last(calls), 1, Len(Last(calls)), n)
  BY <1>6, <1>9, <1>12, <1>13, RestoreValues
<1>15. ASSUME NEW n \in Names
       PROVE  /\ BackFrom(X.env, env, hi, 1, m - k, n)
              /\ BackFrom(env', X.env, calls[d], 1, Len(calls[d]), n)
  <2>1. BackFrom(back.env, env, hi, 1, Len(hi), n)
        /\ BackFrom(B.env, X.env, Last(calls), 1, Len(Last(calls)), n)
    BY <1>8, <1>14
  <2> QED BY <1>2, <1>7, <1>9, <1>12, <2>1
<1>16. k \in 0 .. Len(local_saves) /\ local_saves' = lo
  BY <1>2, <1>4, <1>14 DEF m, s
<1> QED BY <1>2, <1>5, <1>7, <1>10, <1>11, <1>15, <1>16 DEF s, m, lo, hi

LEMMA ReturnRefines ==
  ASSUME Sound, Kept, Return
  PROVE  Scopes!Next
<1> DEFINE s == local_saves
           m == Len(s)
           d == Len(calls)
           L == LayersOf(s, calls)
           R == LayersOf(local_saves', calls')
           top == Height(calls) - 2
           end == top + 2
           own == calls[d]
<1>1. PICK k \in 0 .. m :
        /\ \A i \in k + 1 .. m : s[i].depth = d
        /\ \A i \in 1 .. k : s[i].depth # d
        /\ local_saves' = SubSeq(s, 1, k)
        /\ SubSeq(s, 1, k) \in Layered(d - 1)
        /\ d >= 1 /\ calls' = Front(calls)
        /\ \A n \in Names : \E G :
             /\ BackFrom(G, env, SubSeq(s, k + 1, m), 1, m - k, n)
             /\ BackFrom(env', G, own, 1, Len(own), n)
  BY ReturnParts
<1>2. /\ Stack(L, Height(calls)) /\ s \in Layered(d) /\ s \in Seq(Save) /\ m \in Nat
      /\ calls \in Seq(Seq(Save)) /\ d \in Nat
  BY SoundStack
<1>3. top \in Nat /\ top >= 1 /\ end = Height(calls) /\ end \in Nat /\ end = top + 2
  BY <1>1, <1>2 DEF Height
<1>4. Height(calls') = top /\ \A j \in 1 .. top : Same(L, R, j)
  BY <1>1, <1>2, ReturnLayers
<1>5. L[top + 1] = FirstSaved(own, 0) /\ L[top + 2] = FirstSaved(s, d) /\ own \in Seq(Save)
  <2>1. d \in 1 .. Len(calls) /\ top + 1 = 2 * d /\ top + 2 = 2 * d + 1
    BY <1>1, <1>2, <1>3 DEF Height
  <2>2. L[2 * d] = FirstSaved(own, 0) /\ L[2 * d + 1] = FirstSaved(s, d)
    BY <1>2, <2>1, LayerAt
  <2> QED BY <1>2, <2>1, <2>2
<1>6. \A i \in DOMAIN own : own[i].depth = 0
  BY <1>1, <1>2 DEF Kept
<1> DEFINE hi == SubSeq(s, k + 1, m)
<1>7. hi \in Seq(Save) /\ Len(hi) = m - k /\ \A i \in 1 .. m - k : hi[i] = s[k + i]
  BY <1>2, Halves
<1> HIDE DEF L, R, top, end, own, s, m, d, hi
<1>8. ASSUME NEW n \in Names PROVE env'[n].value = Meant(env, L, end, top, n)
  <2>1. PICK G : BackFrom(G, env, hi, 1, m - k, n) /\ BackFrom(env', G, own, 1, Len(own), n)
    BY <1>1 DEF hi
  <2>2. \/ (\A j \in DOMAIN own : own[j].key # n) /\ env'[n].value = G[n].value
        \/ \E j \in DOMAIN own : /\ own[j].key = n /\ \A h \in DOMAIN own : h < j => own[h].key # n
                                 /\ env'[n].value = own[j].value
    BY <1>5, <2>1, BackSplits
  <2>3. \/ (\A j \in DOMAIN hi : hi[j].key # n) /\ G[n].value = env[n].value
        \/ \E j \in DOMAIN hi : /\ hi[j].key = n /\ \A h \in DOMAIN hi : h < j => hi[h].key # n
                                /\ G[n].value = hi[j].value
    BY <1>7, <2>1, BackSplits
  <2>4. DOMAIN s = 1 .. m /\ DOMAIN hi = 1 .. m - k /\ k \in Nat /\ k <= m
    BY <1>2, <1>7 DEF m
  <2>5. CASE \E j \in DOMAIN own : /\ own[j].key = n /\ \A h \in DOMAIN own : h < j => own[h].key # n
                                   /\ env'[n].value = own[j].value
    <3>1. PICK j \in DOMAIN own : /\ own[j].key = n /\ \A h \in DOMAIN own : h < j => own[h].key # n
                                  /\ env'[n].value = own[j].value
      BY <2>5
    <3>2. IsFirst(own, 0, n, j) /\ IsSaved(own, 0, n)
      BY <1>6, <3>1 DEF IsFirst, IsSaved, Of
    <3>3. n \in DOMAIN L[top + 1] /\ L[top + 1][n] = env'[n].value
      BY <1>5, <3>1, <3>2, FirstIs
    <3>4. Shows(L, top, top + 1, n) /\ top + 1 \in top + 1 .. end
      BY <1>3, <3>3 DEF Shows, Hides
    <3> QED BY <1>3, <3>3, <3>4, MeantHidden
  <2>6. CASE (\A j \in DOMAIN own : own[j].key # n) /\ env'[n].value = G[n].value
    <3>1. ~ IsSaved(own, 0, n)
      BY <2>6 DEF IsSaved, Of
    <3>2. ~ Hides(L, top + 1, n)
      BY <1>5, <3>1, FirstIs DEF Hides
    <3>3. CASE (\A j \in DOMAIN hi : hi[j].key # n) /\ G[n].value = env[n].value
      <4>1. ~ IsSaved(s, d, n)
        <5>1. SUFFICES ASSUME NEW i \in 1 .. m, Of(s, i, d, n) PROVE FALSE
          BY <2>4 DEF IsSaved
        <5>2. i \in k + 1 .. m
          BY <1>1, <2>4, <5>1 DEF Of
        <5>3. i - k \in 1 .. m - k /\ k + (i - k) = i
          BY <1>2, <2>4, <5>2
        <5>4. hi[i - k] = s[i]
          BY <1>7, <5>3
        <5> QED BY <2>4, <3>3, <5>1, <5>3, <5>4 DEF Of
      <4>2. ~ Hides(L, top + 2, n)
        BY <1>2, <1>5, <4>1, FirstIs DEF Hides
      <4>3. Open(L, end, top, n)
        <5>1. \A j \in top + 1 .. end : j = top + 1 \/ j = top + 2
          BY <1>3
        <5> QED BY <3>2, <4>2, <5>1 DEF Open
      <4> QED BY <2>6, <3>3, <4>3, MeantOpen
    <3>4. CASE \E j \in DOMAIN hi : /\ hi[j].key = n /\ \A h \in DOMAIN hi : h < j => hi[h].key # n
                                    /\ G[n].value = hi[j].value
      <4>1. PICK j \in DOMAIN hi : /\ hi[j].key = n /\ \A h \in DOMAIN hi : h < j => hi[h].key # n
                                   /\ G[n].value = hi[j].value
        BY <3>4
      <4>2. j \in 1 .. m - k /\ j \in Nat /\ k + j \in k + 1 .. m /\ k + j \in 1 .. m /\ hi[j] = s[k + j]
        BY <1>2, <1>7, <2>4
      <4>3. Of(s, k + j, d, n)
        BY <1>1, <4>1, <4>2 DEF Of
      <4>4. ASSUME NEW i \in 1 .. m, i < k + j, Of(s, i, d, n) PROVE FALSE
        <5>1. i \in k + 1 .. m
          BY <1>1, <1>2, <2>4, <4>4 DEF Of
        <5>2. i - k \in 1 .. m - k /\ k + (i - k) = i /\ i - k < j
          BY <1>2, <2>4, <4>2, <4>4, <5>1
        <5>3. hi[i - k] = s[i]
          BY <1>7, <5>2
        <5> QED BY <2>4, <4>1, <4>4, <5>2, <5>3 DEF Of
      <4>5. IsFirst(s, d, n, k + j) /\ IsSaved(s, d, n)
        BY <2>4, <4>2, <4>3, <4>4 DEF IsFirst, IsSaved
      <4>6. n \in DOMAIN L[top + 2] /\ L[top + 2][n] = hi[j].value
        BY <1>2, <1>5, <4>2, <4>5, FirstIs
      <4>7. Shows(L, top, top + 2, n) /\ top + 2 \in top + 1 .. end
        <5>2. top + 2 \in top + 1 .. end
          BY <1>3
        <5>3. Hides(L, top + 2, n)
          BY <4>6 DEF Hides
        <5>5. Shows(L, top, top + 2, n)
          BY <1>3, <3>2, <5>3, ShowsSecond
        <5> QED BY <5>2, <5>5
      <4>8. Meant(env, L, end, top, n) = L[top + 2][n]
        BY <1>3, <4>7, MeantHidden
      <4> QED BY <2>6, <4>1, <4>6, <4>8
    <3> QED BY <2>3, <3>3, <3>4
  <2> QED BY <2>2, <2>5, <2>6
<1>9. Scope = Cells(env, L, end) /\ Scope' = Cells(env', R, top)
  BY <1>3, <1>4, ScopeIs, ScopeNext DEF L, R, s
<1>10. Stack(L, end)
  BY <1>2, <1>3
<1>11. Cells(env', R, top) = SubSeq(Cells(env, L, end), 1, Len(Cells(env, L, end)) - 2)
  <2>1. ReturnMade(env, env', L, R, top)
    BY <1>3, <1>4, <1>8 DEF ReturnMade
  <2> QED BY <1>3, <1>10, <2>1, ReturnSim
<1>12. Len(Scope) = end /\ end > 1
  BY <1>3, <1>9, <1>10, CellsMean
<1> QED BY <1>9, <1>11, <1>12 DEF Scopes!Next, Scopes!Return

-----------------------------------------------------------------------------
(* Builtins.                                                               *)

(* One name gets another value, or none does.                              *)
OneWritten(A, B, n) ==
  /\ A.env[n].value \in Values \/ A.env[n].value = B.env[n].value
  /\ \A m \in Names \ {n} : A.env[m].value = B.env[m].value

LEMMA OneRefines ==
  ASSUME Sound, NEW prefix \in PreAssigns, PrefixIn(Prefixed(prefix), Keys(prefix)),
         NEW after \in Stores({local_saves}), execute_builtin(prefix, after),
         NEW n \in Names, OneWritten(after, Prefixed(prefix).store, n)
  PROVE  Scopes!Next /\ local_saves' = local_saves
<1> DEFINE P == Prefixed(prefix)
           K == Keys(prefix)
           W == {m \in {n} : m \notin K /\ after.env[m].value \in Values}
<1>1. /\ local_saves' = after.saves /\ calls' = calls /\ after.saves = local_saves
      /\ \A m \in Names : env'[m].value = IF m \in K THEN env[m].value ELSE after.env[m].value
  BY BuiltinBack DEF Stores
<1>2. \A m \in Names \ K : P.store.env[m] = env[m]
  BY DEF PrefixIn
<1> HIDE DEF P
<1>3. W \subseteq Names /\ \A m \in W : env'[m].value \in Values
  BY <1>1
<1>4. ASSUME NEW m \in Names \ W PROVE env'[m].value = env[m].value
  <2>1. CASE m \in K
    BY <1>1, <2>1
  <2>2. CASE m \notin K
    <3>1. after.env[m].value = P.store.env[m].value
      BY <1>4, <2>2 DEF OneWritten, P
    <3> QED BY <1>1, <1>2, <2>2, <3>1
  <2> QED BY <2>1, <2>2
<1> HIDE DEF W
<1>5. Scopes!Next
  BY <1>1, <1>3, <1>4, AssignStep
<1> QED BY <1>1, <1>5

LEMMA ReadonlyRefines ==
  ASSUME Sound, "repeated" \notin Unusual, "valueless" \notin Unusual,
         NEW prefix \in PreAssigns, NEW n \in ReadonlyNames, builtin_readonly(prefix, n)
  PROVE  Scopes!Next /\ local_saves' = local_saves /\ calls' = calls
<1> DEFINE M == Prefixed(prefix).store
<1>1. n \in Names
  BY VarScopeAssumption
<1>2. \E v \in Values : execute_builtin(prefix, IF n \in readonly_vars THEN M ELSE Written(M, n, v))
      \/ execute_builtin(prefix, M)
  BY VarScopeAssumption DEF builtin_readonly, Written, M
<1>3. PrefixIn(Prefixed(prefix), Keys(prefix)) /\ calls' = calls
  BY <1>2, PrefixDone DEF execute_builtin
<1>4. M \in Stores({local_saves})
  BY <1>3 DEF PrefixIn
<1>5. M.env \in [Names -> Record]
  BY <1>4 DEF Stores
<1>6. OneWritten(M, M, n)
  BY DEF OneWritten
<1>7. ASSUME NEW v \in Values
      PROVE  Written(M, n, v) \in Stores({local_saves}) /\ OneWritten(Written(M, n, v), M, n)
  <2>1. /\ Written(M, n, v) \in Stores({local_saves})
        /\ Written(M, n, v).env = [M.env EXCEPT ![n] = env_create(v, M.env[n].exported)]
    BY <1>1, <1>4, SetPlain
  <2> HIDE DEF M
  <2> QED BY <1>1, <1>5, <2>1 DEF OneWritten, env_create
<1> HIDE DEF M
<1>8. \E after \in Stores({local_saves}) : execute_builtin(prefix, after) /\ OneWritten(after, M, n)
  BY <1>2, <1>4, <1>6, <1>7
<1> QED BY <1>1, <1>3, <1>8, OneRefines DEF M

LEMMA ExportRefines ==
  ASSUME Sound, "repeated" \notin Unusual, "valueless" \notin Unusual,
         NEW prefix \in PreAssigns, NEW n \in ExportNames, builtin_export(prefix, n)
  PROVE  Scopes!Next /\ local_saves' = local_saves /\ calls' = calls
<1> DEFINE M == Prefixed(prefix).store
<1>1. n \in Names
  BY VarScopeAssumption
<1>2. \/ execute_builtin(prefix, export_name_only(M, n))
      \/ \E v \in Values : execute_builtin(prefix, Exporting(M, n, v))
      \/ execute_builtin(prefix, env_unexport(M, n))
      \/ \E v \in Values : execute_builtin(prefix, env_unexport(Written(M, n, v), n))
  BY DEF builtin_export, Written, Exporting, export_value, M
<1>3. PrefixIn(Prefixed(prefix), Keys(prefix)) /\ calls' = calls
  BY <1>2, PrefixDone DEF execute_builtin
<1>4. M \in Stores({local_saves})
  BY <1>3 DEF PrefixIn
<1>5. M.env \in [Names -> Record] /\ M.env[n] \in Record
  BY <1>1, <1>4 DEF Stores
<1> DEFINE Fits(after) == after \in Stores({local_saves}) /\ OneWritten(after, M, n)
<1> HIDE DEF M
<1>6. Fits(export_name_only(M, n))
  <2>1. CASE M.env[n].there
    <3>1. export_name_only(M, n) = [M EXCEPT !.env[n].exported = TRUE]
      BY <2>1 DEF export_name_only
    <3> QED BY <1>1, <1>4, <2>1, <3>1, ExportStore DEF OneWritten
  <2>2. CASE ~ M.env[n].there
    <3>1. export_name_only(M, n) = Exporting(M, n, NoValue)
      BY <2>2 DEF export_name_only, Exporting
    <3>2. /\ Exporting(M, n, NoValue) \in Stores({local_saves})
          /\ Exporting(M, n, NoValue).env[n].value = NoValue
          /\ \A m \in Names \ {n} : Exporting(M, n, NoValue).env[m] = M.env[m]
      BY <1>1, <1>4, SetExported
    <3>3. M.env[n].value = NoValue
      BY <1>5, <2>2, RecordHas DEF Absent
    <3> QED BY <3>1, <3>2, <3>3 DEF OneWritten
  <2> QED BY <2>1, <2>2
<1>7. ASSUME NEW v \in Values PROVE Fits(Exporting(M, n, v))
  <2>1. /\ Exporting(M, n, v) \in Stores({local_saves})
        /\ Exporting(M, n, v).env[n].value = v
        /\ \A m \in Names \ {n} : Exporting(M, n, v).env[m] = M.env[m]
    BY <1>1, <1>4, SetExported
  <2> QED BY <2>1 DEF OneWritten
<1>8. Fits(env_unexport(M, n))
  BY <1>1, <1>4, UnexportStore DEF OneWritten
<1>9. ASSUME NEW v \in Values PROVE Fits(env_unexport(Written(M, n, v), n))
  <2> DEFINE N == Written(M, n, v)
  <2>1. /\ N \in Stores({local_saves})
        /\ N.env = [M.env EXCEPT ![n] = env_create(v, M.env[n].exported)]
    BY <1>1, <1>4, SetPlain
  <2>2. N.env[n].value = v /\ \A m \in Names \ {n} : N.env[m] = M.env[m]
    BY <1>1, <1>5, <2>1 DEF env_create
  <2> HIDE DEF N
  <2>3. /\ env_unexport(N, n) \in Stores({local_saves})
        /\ env_unexport(N, n).env[n].value = N.env[n].value
        /\ \A m \in Names \ {n} : env_unexport(N, n).env[m] = N.env[m]
    <3>1. ASSUME NEW Q \in Stores({local_saves})
          PROVE  /\ env_unexport(Q, n) \in Stores({local_saves})
                 /\ env_unexport(Q, n).env[n].value = Q.env[n].value
                 /\ \A m \in Names \ {n} : env_unexport(Q, n).env[m] = Q.env[m]
      BY <1>1, UnexportStore
    <3>2. N \in Stores({local_saves})
      BY <2>1
    <3> HIDE DEF Fits
    <3> QED BY <3>1, <3>2
  <2>4. Fits(env_unexport(N, n))
    BY <2>2, <2>3 DEF OneWritten
  <2> QED BY <2>4 DEF N
<1>10. \E after \in Stores({local_saves}) : execute_builtin(prefix, after) /\ OneWritten(after, M, n)
  BY <1>2, <1>6, <1>7, <1>8, <1>9
<1> QED BY <1>1, <1>3, <1>10, OneRefines DEF M

(* The save a local makes.                                                 *)
LEMMA LocalStep ==
  ASSUME Sound, calls' = calls, Len(calls) >= 1, NEW c \in Save, c.depth = Len(calls),
         c.value = env[c.key].value, local_saves' = Append(local_saves, c), NEW v \in Values,
         \A n \in Names : env'[n].value = IF n = c.key THEN v ELSE env[n].value
  PROVE  Scopes!Next
<1> DEFINE d == Len(calls)
           L == LayersOf(local_saves, calls)
           R == LayersOf(local_saves', calls')
           top == Height(calls)
           x == c.key
<1>1. /\ Stack(L, top) /\ local_saves \in Layered(d) /\ calls \in Seq(Seq(Save)) /\ d \in Nat
  BY SoundStack
<1>2. top > 1 /\ x \in Names
  BY <1>1 DEF Height, Save
<1>3. /\ \A j \in 1 .. top - 1 : Same(L, R, j)
      /\ DOMAIN R[top] = DOMAIN L[top] \cup {x}
      /\ \A n \in DOMAIN L[top] : R[top][n] = L[top][n]
      /\ ~ Hides(L, top, x) => R[top][x] = env[x].value
  BY <1>1, LocalLayers
<1>4. Scope = Cells(env, L, top) /\ Scope' = Cells(env', R, top)
  BY ScopeIs, ScopeNext
<1> HIDE DEF L, R, top, x
<1>5. LocalMade(env, env', L, R, top, x, v)
  BY <1>3 DEF LocalMade, x
<1>6. Cells(env', R, top) = [Cells(env, L, top) EXCEPT ![Len(Cells(env, L, top))] = Scopes!Set(@, x, v)]
  BY <1>1, <1>2, <1>5, LocalSim
<1>7. Len(Scope) > 1
  BY <1>1, <1>2, <1>4, CellsMean
<1>8. Scopes!Local(x)
  BY <1>4, <1>6, <1>7 DEF Scopes!Local
<1> QED BY <1>2, <1>8 DEF Scopes!Next

LEMMA LocalRefines ==
  ASSUME Sound, Kept, "repeated" \notin Unusual, "valueless" \notin Unusual,
         "local_prefix" \notin Unusual,
         NEW prefix \in PreAssigns, NEW n \in Names, builtin_local(prefix, n)
  PROVE  Scopes!Next /\ local_saves' \in Seq(Good) /\ calls' = calls
<1> DEFINE M == Prefixed(prefix).store
           K == Keys(prefix)
           d == Len(calls)
           c == scope_save_capture(M, n, d)
           T == scope_save(M, n)
<1>1. /\ d >= 1 /\ d \in Nat /\ n \notin K /\ ~ Valueless(Store, n)
      /\ \/ execute_builtin(prefix, local_name(M, n))
         \/ \E v \in Values : execute_builtin(prefix, local_value(M, n, v))
  BY SoundStack DEF builtin_local, UsualLocal, With, func_depth
<1>2. PrefixIn(Prefixed(prefix), K) /\ calls' = calls
  BY <1>1, PrefixDone DEF execute_builtin
<1>3. M \in Stores({local_saves}) /\ M.saves = local_saves /\ M.env[n] = env[n]
      /\ M.env \in [Names -> Record] /\ \A m \in Names \ K : M.env[m] = env[m]
  BY <1>1, <1>2 DEF PrefixIn, Stores
<1>4. ~ Valueless(M, n)
  BY <1>1, <1>3 DEF Valueless, Store
<1> HIDE DEF M, K
<1>5. c \in Good /\ c.key = n /\ c.depth = d /\ c.value = env[n].value
  BY <1>1, <1>3, <1>4, CaptureGood
<1>6. T = [M EXCEPT !.saves = Append(local_saves, c)]
  BY <1>3 DEF scope_save, func_depth
<1> HIDE DEF c
<1> DEFINE S == {Append(local_saves, c)}
<1>7. T \in Stores(S) /\ T.env = M.env /\ T.saves = Append(local_saves, c)
  BY <1>3, <1>6 DEF Stores
<1> HIDE DEF T
<1>8. ASSUME NEW v \in Values, NEW x \in BOOLEAN, execute_builtin(prefix, env_set(T, n, v, x))
      PROVE  Scopes!Next /\ local_saves' \in Seq(Good)
  <2> DEFINE after == env_set(T, n, v, x)
  <2>1. /\ after \in Stores(S) /\ after.saves = Append(local_saves, c)
        /\ after.env = [M.env EXCEPT ![n] = env_create(v, M.env[n].exported \/ x)]
    BY <1>7, <1>8, SetStore
  <2> HIDE DEF after
  <2>2. /\ local_saves' = after.saves
        /\ \A m \in Names : env'[m].value = IF m \in K THEN env[m].value ELSE after.env[m].value
    BY <1>2, <1>8, <2>1, BuiltinBack DEF after, K
  <2>3. \A m \in Names : env'[m].value = IF m = n THEN v ELSE env[m].value
    BY <1>1, <1>3, <2>1, <2>2 DEF env_create
  <2>4. c \in Save
    BY <1>5 DEF Good
  <2>5. Scopes!Next
    BY <1>1, <1>2, <1>5, <2>1, <2>2, <2>3, <2>4, LocalStep
  <2> QED BY <1>5, <2>1, <2>2, <2>5 DEF Kept
<1>9. ASSUME execute_builtin(prefix, M)
      PROVE  Scopes!Next /\ local_saves' \in Seq(Good)
  <2>1. OneWritten(M, M, n)
    BY DEF OneWritten
  <2> QED BY <1>2, <1>3, <1>9, <2>1, OneRefines DEF M, K, Kept
<1>10. CASE execute_builtin(prefix, local_name(M, n))
  <2>1. local_name(M, n) = M \/ local_name(M, n) = env_set(T, n, Empty, FALSE)
    BY DEF local_name, T
  <2> QED BY <1>2, <1>8, <1>9, <1>10, <2>1, VarScopeAssumption
<1>11. ASSUME NEW v \in Values, execute_builtin(prefix, local_value(M, n, v))
       PROVE  Scopes!Next /\ local_saves' \in Seq(Good)
  <2>1. local_value(M, n, v) = env_set(T, n, v, AllExport)
    BY DEF local_value, T
  <2> QED BY <1>8, <1>11, <2>1, VarScopeAssumption
<1> QED BY <1>1, <1>2, <1>10, <1>11

(* Whose save an unset finds.                                              *)
NoUpvar(s, d, n) ==
  (\E i \in DOMAIN s : s[i].key = n) => \E i \in DOMAIN s : Of(s, i, d, n)
Upvar(s, d, n, u) ==
  /\ u \in 1 .. Len(s) /\ s[u].key = n /\ s[u].depth < d
  /\ \A i \in DOMAIN s : i > u => s[i].key # n

LEMMA UpvarTells ==
  ASSUME NEW d, d = func_depth, NEW M \in Stores(Layered(d)), NEW n
  PROVE  /\ UpvarSave(M, n) = 0 => NoUpvar(M.saves, d, n)
         /\ UpvarSave(M, n) # 0 => Upvar(M.saves, d, n, UpvarSave(M, n))
<1> DEFINE s == M.saves
           I == {i \in 1 .. Len(s) : s[i].key = n}
           newest == SelectLastInSeq(s, LAMBDA x : x.key = n)
<1>1. /\ s \in Seq(Save) /\ Len(s) \in Nat /\ DOMAIN s = 1 .. Len(s) /\ d \in Nat
      /\ \A i \in DOMAIN s : s[i].depth \in 1 .. d
  BY DEF Stores, Layered, func_depth
<1>2. newest = IF I # {} THEN Max(I) ELSE 0
  BY DEF SelectLastInSeq
<1>3. UpvarSave(M, n) = IF newest > 0 /\ s[newest].depth < d THEN newest ELSE 0
  BY DEF UpvarSave
<1> HIDE DEF newest
<1>4. CASE I = {}
  <2>1. newest = 0
    BY <1>2, <1>4
  <2>2. UpvarSave(M, n) = 0
    BY <1>3, <2>1
  <2>3. NoUpvar(s, d, n)
    BY <1>1, <1>4 DEF NoUpvar
  <2> QED BY <2>2, <2>3
<1>5. CASE I # {}
  <2>1. I \subseteq Nat
    OBVIOUS
  <2>2. I \subseteq 1 .. Len(s)
    OBVIOUS
  <2> HIDE DEF I
  <2>3. \E m \in I : \A y \in I : m >= y
    BY <1>1, <1>5, <2>1, <2>2, Places!HighestOf
  <2>4. newest \in I /\ \A y \in I : newest >= y
    BY <1>2, <1>5, <2>3 DEF Max
  <2>5. newest \in 1 .. Len(s) /\ s[newest].key = n /\ \A i \in DOMAIN s : i > newest => s[i].key # n
    BY <1>1, <2>1, <2>4 DEF I
  <2>6. CASE s[newest].depth < d
    BY <1>1, <1>3, <2>5, <2>6 DEF Upvar
  <2>7. CASE ~ (s[newest].depth < d)
    <3>1. UpvarSave(M, n) = 0 /\ newest \in DOMAIN s
      BY <1>1, <1>3, <2>5, <2>7
    <3>2. s[newest].depth = d
      BY <1>1, <2>7, <3>1
    <3>3. NoUpvar(s, d, n)
      BY <2>5, <3>1, <3>2 DEF NoUpvar, Of
    <3> QED BY <3>1, <3>3
  <2> QED BY <2>6, <2>7
<1> QED BY <1>4, <1>5

(* Which layers have a cell of n.                                          *)
LEMMA CellsIn ==
  ASSUME Sound, NEW n
  PROVE  /\ \A e \in 1 .. Len(calls) :
              /\ 2 * e + 1 \in 1 .. Height(calls) /\ 2 * e \in 1 .. Height(calls)
              /\ Hides(LayersOf(local_saves, calls), 2 * e + 1, n) <=> IsSaved(local_saves, e, n)
              /\ Hides(LayersOf(local_saves, calls), 2 * e, n) => Covers(calls[e], n)
<1> SUFFICES ASSUME NEW e \in 1 .. Len(calls)
             PROVE  /\ 2 * e + 1 \in 1 .. Height(calls) /\ 2 * e \in 1 .. Height(calls)
                    /\ Hides(LayersOf(local_saves, calls), 2 * e + 1, n) <=> IsSaved(local_saves, e, n)
                    /\ Hides(LayersOf(local_saves, calls), 2 * e, n) => Covers(calls[e], n)
  OBVIOUS
<1>1. local_saves \in Seq(Save) /\ calls \in Seq(Seq(Save)) /\ calls[e] \in Seq(Save)
  BY SoundStack
<1>2. /\ LayersOf(local_saves, calls)[2 * e] = FirstSaved(calls[e], 0)
      /\ LayersOf(local_saves, calls)[2 * e + 1] = FirstSaved(local_saves, e)
      /\ 2 * e \in 1 .. Height(calls) /\ 2 * e + 1 \in 1 .. Height(calls)
  BY <1>1, LayerAt
<1>3. n \in DOMAIN FirstSaved(local_saves, e) <=> IsSaved(local_saves, e, n)
  BY <1>1, FirstIs
<1>4. n \in DOMAIN FirstSaved(calls[e], 0) <=> IsSaved(calls[e], 0, n)
  BY <1>1, FirstIs
<1>5. IsSaved(calls[e], 0, n) => Covers(calls[e], n)
  BY DEF IsSaved, Covers, Of
<1> QED BY <1>2, <1>3, <1>4, <1>5 DEF Hides

LEMMA GreatestIs ==
  ASSUME NEW T, T \subseteq Nat, NEW m \in T, \A y \in T : y <= m
  PROVE  Scopes!Max(T) = m
<1>1. \E x \in T : \A y \in T : x >= y
  OBVIOUS
<1>2. Scopes!Max(T) \in T /\ \A y \in T : Scopes!Max(T) >= y
  BY <1>1 DEF Scopes!Max
<1>3. Scopes!Max(T) >= m /\ m >= Scopes!Max(T) /\ Scopes!Max(T) \in Nat /\ m \in Nat
  BY <1>2
<1> QED BY <1>3

(* An unset of what no caller made local.                                  *)
LEMMA UnsetOwn ==
  ASSUME Sound, NEW n \in Names, NoUpvar(local_saves, Len(calls), n),
         local_saves' = local_saves, calls' = calls,
         \A m \in Names : env'[m].value = IF m = n THEN NoValue ELSE env[m].value
  PROVE  Scopes!Next
<1> DEFINE d == Len(calls)
           L == LayersOf(local_saves, calls)
           top == Height(calls)
           new == [m \in {n} |-> NoValue]
           c == Scope
<1>1. Scope' = Scopes!Written(Scope, new)
  <2>1. DOMAIN new = {n} /\ new[n] = NoValue
    OBVIOUS
  <2> HIDE DEF new
  <2>2. DOMAIN new \subseteq Names
        /\ \A m \in Names : env'[m].value = IF m \in DOMAIN new THEN new[m] ELSE env[m].value
    BY <2>1
  <2> QED BY <2>2, WriteStep
<1>2. Stack(L, top) /\ d \in Nat /\ top = 2 * d + 1
  BY SoundStack DEF Height
<1>3. c = Cells(env, L, top)
  BY ScopeIs
<1> HIDE DEF c
<1>4. DOMAIN c = 1 .. top /\ Len(c) = top /\ \A i \in 1 .. top : i # 1 => DOMAIN c[i] = DOMAIN L[i]
  BY <1>2, <1>3, CellsMean DEF Tells, Held
<1>5. ASSUME NEW k \in Scopes!CallersLocal(c, n), Len(c) # 1 PROVE n \in DOMAIN c[Len(c)]
  <2>1. k \in 2 .. top - 1 /\ k % 2 = 1 /\ n \in DOMAIN c[k]
    BY <1>4, <1>5 DEF Scopes!CallersLocal
  <2>2. PICK e \in 1 .. d : k = 2 * e + 1
    <3>1. k \div 2 \in 1 .. d /\ k = 2 * (k \div 2) + 1
      BY <1>2, <2>1
    <3> QED BY <3>1
  <2>3. Hides(L, 2 * e + 1, n)
    BY <1>2, <1>4, <2>1, <2>2 DEF Hides
  <2>4. IsSaved(local_saves, e, n)
    BY <2>3, CellsIn
  <2>5. IsSaved(local_saves, d, n)
    BY <2>4 DEF IsSaved, NoUpvar, Of
  <2>6. d \in 1 .. Len(calls)
    BY <1>2, <2>2
  <2>7. Hides(L, 2 * d + 1, n)
    BY <2>5, <2>6, CellsIn
  <2> QED BY <1>2, <1>4, <1>5, <2>7 DEF Hides
<1>6. (Len(c) = 1 \/ n \in DOMAIN c[Len(c)]) \/ Scopes!CallersLocal(c, n) = {}
  BY <1>5
<1>7. Scopes!Remove(n)
  BY <1>1, <1>6 DEF Scopes!Remove, c
<1> QED BY <1>7 DEF Scopes!Next

(* An unset of a caller's local.                                           *)
UnsetFound(s, d, n, u) ==
  /\ Upvar(s, d, n, u) /\ s[u] \in Good
  /\ \A j \in DOMAIN s : j < u => ~ Of(s, j, s[u].depth, n)
  /\ \A e \in s[u].depth + 1 .. d : ~ Covers(calls[e], n)

LEMMA UnsetUpvar ==
  ASSUME Sound, NEW n \in Names, NEW u, UnsetFound(local_saves, Len(calls), n, u),
         local_saves' = RemoveAt(local_saves, u), calls' = calls,
         \A m \in Names : env'[m].value = IF m = n THEN local_saves[u].value ELSE env[m].value
  PROVE  Scopes!Next
<1> DEFINE s == local_saves
           d == Len(calls)
           L == LayersOf(s, calls)
           R == LayersOf(local_saves', calls')
           top == Height(calls)
           a == s[u].depth
           at == 2 * a + 1
           c == Scope
<1>1. /\ Stack(L, top) /\ d \in Nat /\ s \in Layered(d) /\ s \in Seq(Save) /\ calls \in Seq(Seq(Save))
  BY SoundStack
<1>2. /\ u \in 1 .. Len(s) /\ u \in DOMAIN s /\ s[u].key = n /\ a < d /\ a \in 1 .. d /\ a \in Nat
      /\ \A i \in DOMAIN s : i > u => s[i].key # n
      /\ DOMAIN s = 1 .. Len(s) /\ Len(s) \in Nat
  BY <1>1 DEF UnsetFound, Upvar, Layered
<1>3. \A i \in 1 .. Len(s) : Of(s, i, a, n) => i = u
  BY <1>2 DEF UnsetFound, Of
<1>4. /\ at \in 2 .. top
      /\ Hides(L, at, n) /\ L[at][n] = s[u].value
      /\ \A j \in 1 .. top : j # at => Same(L, R, j)
      /\ DOMAIN R[at] = DOMAIN L[at] \ {n}
      /\ \A m \in DOMAIN R[at] : R[at][m] = L[at][m]
  <2>1. \A i \in 1 .. Len(s) : Of(s, i, s[u].depth, s[u].key) => i = u
    BY <1>2, <1>3
  <2> HIDE DEF s
  <2>2. CutMade(LayersOf(s, calls), LayersOf(RemoveAt(s, u), calls), Height(calls), 2 * s[u].depth + 1,
                s[u].key, s[u].value)
    BY <1>1, <1>2, <2>1, CutLayers
  <2>3. R = LayersOf(RemoveAt(s, u), calls)
    BY DEF s
  <2>4. CutMade(L, R, top, at, n, s[u].value)
    BY <1>2, <2>2, <2>3
  <2> HIDE DEF R, L, at, top
  <2> QED BY <2>4 DEF CutMade
<1>5. ASSUME NEW j \in at + 1 .. top, Hides(L, j, n) PROVE FALSE
  <2>1. j \in 1 .. top /\ j # 1
    BY <1>2, <1>5
  <2>2. PICK e \in 1 .. d : j = 2 * e \/ j = 2 * e + 1
    BY <1>1, <2>1, LayerKinds
  <2>3. e \in a + 1 .. d
    BY <1>1, <1>2, <1>5, <2>2
  <2>4. CASE j = 2 * e
    <3>1. Covers(calls[e], n)
      BY <1>5, <2>4, CellsIn
    <3> QED BY <2>3, <3>1 DEF UnsetFound
  <2>5. CASE j = 2 * e + 1
    <3>1. IsSaved(s, e, n)
      BY <1>5, <2>5, CellsIn
    <3>2. PICK i \in DOMAIN s : s[i].depth = e /\ s[i].key = n
      BY <3>1 DEF IsSaved, Of
    <3>3. i \in Nat /\ u \in Nat /\ ~ (i > u)
      BY <1>2, <3>2
    <3>4. s[i].depth # a
      BY <1>2, <2>3, <3>2
    <3>5. i < u
      BY <3>3, <3>4
    <3>6. s[i].depth <= a
      BY <1>1, <1>2, <3>2, <3>5 DEF Layered
    <3> QED BY <1>2, <2>3, <3>2, <3>6
  <2> QED BY <2>2, <2>4, <2>5
<1>6. Open(L, top, at, n)
  BY <1>5 DEF Open
<1>7. c = Cells(env, L, top) /\ Scope' = Cells(env', R, top)
  BY ScopeIs, ScopeNext
<1>8. top \in Nat /\ top = 2 * d + 1 /\ at < top
  BY <1>1, <1>2 DEF Height
<1>9. RemoveMade(env, env', L, R, top, at, n)
  <2> HIDE DEF L, R, top, at, s
  <2> QED BY <1>4, <1>6 DEF RemoveMade, s
<1>10. Scope' = [c EXCEPT ![at] = Scopes!Restrict(@, DOMAIN @ \ {n})]
  <2> HIDE DEF L, R, top, at, c
  <2>1. Cells(env', R, top) = WithoutCell(Cells(env, L, top), at, n)
    BY <1>1, <1>4, <1>9, RemoveSim
  <2> QED BY <1>7, <2>1 DEF WithoutCell
<1> HIDE DEF c
<1>11. DOMAIN c = 1 .. top /\ Len(c) = top /\ \A i \in 1 .. top : i # 1 => DOMAIN c[i] = DOMAIN L[i]
  BY <1>1, <1>7, CellsMean DEF Tells, Held
<1> HIDE DEF L, R, top, s
<1>12. ~ (Len(c) = 1 \/ n \in DOMAIN c[Len(c)])
  <2>1. ~ Hides(L, top, n)
    BY <1>6, <1>8, <1>2 DEF Open
  <2>2. top # 1 /\ top \in 1 .. top
    BY <1>1, <1>2, <1>8
  <2>3. DOMAIN c[top] = DOMAIN L[top]
    BY <1>11, <2>2
  <2> QED BY <1>11, <2>1, <2>2, <2>3 DEF Hides
<1> DEFINE T == Scopes!CallersLocal(c, n)
<1>13. T \subseteq Nat /\ at \in T /\ \A k \in T : k <= at
  <2>1. T = {k \in 2 .. top - 1 : k % 2 = 1 /\ n \in DOMAIN c[k]}
    BY <1>11 DEF Scopes!CallersLocal
  <2>2. at \in 2 .. top - 1 /\ at % 2 = 1
    BY <1>2, <1>8
  <2>3. n \in DOMAIN c[at]
    BY <1>4, <1>8, <1>11, <2>2 DEF Hides
  <2>4. ASSUME NEW k \in 2 .. top - 1, n \in DOMAIN c[k], k > at PROVE FALSE
    <3>1. k \in 1 .. top /\ k # 1 /\ k \in at + 1 .. top
      BY <1>2, <1>8, <2>4
    <3>2. Hides(L, k, n)
      BY <1>11, <2>4, <3>1 DEF Hides
    <3> QED BY <1>6, <3>1, <3>2 DEF Open
  <2> QED BY <1>2, <1>8, <2>1, <2>2, <2>3, <2>4
<1> HIDE DEF T, at
<1>14. Scopes!Max(T) = at /\ T # {}
  BY <1>13, GreatestIs
<1>15. Scopes!Remove(n)
  BY <1>10, <1>12, <1>14 DEF Scopes!Remove, c, T
<1> QED BY <1>15 DEF Scopes!Next

(* What unset leaves.                                                      *)
Unused(names) == \A use \in names : use \notin Unusual

LEMMA UnsetRefines ==
  ASSUME Sound, Kept, Unused({"repeated", "valueless", "redeclared", "under_prefix"}),
         NEW prefix \in PreAssigns, NEW n \in Names, builtin_unset(prefix, n)
  PROVE  Scopes!Next /\ local_saves' \in Seq(Good) /\ calls' = calls
<1> DEFINE M == Prefixed(prefix).store
           K == Keys(prefix)
           d == Len(calls)
           s == local_saves
           u == UpvarSave(M, n)
<1>1. /\ execute_builtin(prefix, try_unset(M, n)) /\ UsualUnset(n, prefix) /\ calls' = calls
      /\ "repeated" \notin Unusual /\ "valueless" \notin Unusual
      /\ "redeclared" \notin Unusual /\ "under_prefix" \notin Unusual
  BY DEF builtin_unset, execute_builtin, Unused
<1>2. PrefixIn(Prefixed(prefix), K)
  BY <1>1, PrefixDone DEF execute_builtin
<1>3. /\ s \in Layered(d) /\ s \in Seq(Save) /\ d \in Nat /\ d = func_depth
      /\ calls \in Seq(Seq(Save)) /\ s \in Seq(Good)
  BY SoundStack DEF Kept
<1>4. /\ M \in Stores({s}) /\ M \in Stores(Layered(d)) /\ M.saves = s
      /\ M.env \in [Names -> Record] /\ K \subseteq Names
      /\ \A m \in Names \ K : M.env[m] = env[m]
  BY <1>2, <1>3 DEF PrefixIn, Stores
<1>5. UpvarSave(Store, n) = u
  BY <1>4 DEF UpvarSave, Store
<1> DEFINE after == try_unset(M, n)
<1>6. ASSUME NEW S, NEW left \in Stores(S), execute_builtin(prefix, left)
      PROVE  /\ local_saves' = left.saves
             /\ \A m \in Names : env'[m].value = IF m \in K THEN env[m].value
                                                 ELSE left.env[m].value
  BY <1>2, <1>6, BuiltinBack
<1>7. after = IF n \in readonly_vars THEN M ELSE IF u # 0 THEN scope_pop_upvar(M, n)
              ELSE unset_raw(M, n)
  BY DEF try_unset
<1>8. CASE n \in readonly_vars
  <2>1. OneWritten(M, M, n)
    BY DEF OneWritten
  <2>2. execute_builtin(prefix, M)
    BY <1>1, <1>7, <1>8
  <2>3. Scopes!Next /\ local_saves' = s
    BY <1>2, <1>4, <2>1, <2>2, OneRefines
  <2> QED BY <1>1, <1>3, <2>3
<1>9. CASE n \notin readonly_vars /\ u = 0
  <2> DEFINE left == unset_raw(M, n)
  <2>1. /\ left \in Stores({s}) /\ left.saves = s
        /\ left.env = [M.env EXCEPT ![n] = Absent]
    BY <1>4, UnsetStore
  <2>2. execute_builtin(prefix, left)
    BY <1>1, <1>7, <1>9
  <2>3. NoUpvar(s, d, n)
    BY <1>3, <1>4, <1>9, UpvarTells
  <2> HIDE DEF left, u, M, K, s
  <2>4. /\ local_saves' = s
        /\ \A m \in Names : env'[m].value = IF m \in K THEN env[m].value ELSE left.env[m].value
    BY <1>6, <2>1, <2>2
  <2>5. CASE n \in K
    <3>1. \A m \in Names : env'[m].value = env[m].value
      BY <1>4, <2>1, <2>4, <2>5
    <3>2. ASSUME NEW T, T = {} PROVE Scopes!Next
      <4>1. T \subseteq Names /\ \A m \in T : env'[m].value \in Values
        BY <3>2
      <4>2. \A m \in Names \ T : env'[m].value = env[m].value
        BY <3>1
      <4>3. local_saves' = local_saves /\ calls' = calls
        BY <1>1, <2>4 DEF s
      <4> QED BY <4>1, <4>2, <4>3, AssignStep
    <3>3. Scopes!Next
      BY <3>2
    <3> QED BY <1>1, <1>3, <2>4, <3>3
  <2>6. CASE n \notin K
    <3>1. \A m \in Names : env'[m].value = IF m = n THEN NoValue ELSE env[m].value
      BY <1>4, <2>1, <2>4, <2>6 DEF Absent
    <3>2. Scopes!Next
      BY <1>1, <2>3, <2>4, <3>1, UnsetOwn DEF s
    <3> QED BY <1>1, <1>3, <2>4, <3>2
  <2> QED BY <2>5, <2>6
<1>10. CASE n \notin readonly_vars /\ u # 0
  <2> DEFINE left == scope_pop_upvar(M, n)
             back == restore_one(M, s[u])
  <2>1. execute_builtin(prefix, left)
    BY <1>1, <1>7, <1>10
  <2>2. Upvar(s, d, n, u)
    BY <1>3, <1>4, <1>10, UpvarTells
  <2>3. left \in Stores(Layered(d)) /\ left.env = back.env
    BY <1>3, <1>4, <1>10, PopTypes
  <2>4. left = [back EXCEPT !.saves = RemoveAt(@, u)]
    BY <1>4 DEF scope_pop_upvar
  <2>5. /\ n \notin K
        /\ \A j \in 1 .. u - 1 : ~ (s[j].key = n /\ s[j].depth = s[u].depth)
        /\ \A k \in s[u].depth + 1 .. d : ~ Covers(calls[k], n)
    BY <1>1, <1>3, <1>5, <1>10 DEF UsualUnset, With
  <2> HIDE DEF u, M, left, K, s
  <2>6. u \in DOMAIN s /\ s[u] \in Good /\ s[u].key = n /\ u \in Nat
        /\ DOMAIN s = 1 .. Len(s) /\ Len(s) \in Nat
    BY <1>3, <2>2 DEF Upvar
  <2>7. /\ back \in Stores({s}) /\ back.saves = s /\ back.env[n].value = s[u].value
        /\ \A m \in Names \ {n} : back.env[m] = M.env[m]
    BY <1>4, <2>6, GoodBack
  <2> HIDE DEF back
  <2>8. left.saves = RemoveAt(s, u)
    BY <2>4, <2>7 DEF Stores
  <2>9. /\ local_saves' = RemoveAt(s, u)
        /\ \A m \in Names : env'[m].value = IF m \in K THEN env[m].value ELSE left.env[m].value
    BY <1>6, <2>1, <2>3, <2>8
  <2>10. \A m \in Names : env'[m].value = IF m = n THEN s[u].value ELSE env[m].value
    BY <1>4, <2>3, <2>5, <2>7, <2>9
  <2>11. UnsetFound(s, d, n, u)
    <3>1. \A j \in DOMAIN s : j < u => ~ Of(s, j, s[u].depth, n)
      BY <2>5, <2>6 DEF Of
    <3> QED BY <2>2, <2>5, <2>6, <3>1 DEF UnsetFound
  <2>12. Scopes!Next
    BY <1>1, <2>9, <2>10, <2>11, UnsetUpvar DEF s
  <2>13. RemoveAt(s, u) \in Seq(Good)
    <3> DEFINE t == RemoveAt(s, u)
    <3>1. t \in Seq(Save) /\ Len(t) = Len(s) - 1
          /\ \A i \in 1 .. Len(s) - 1 : t[i] = s[IF i < u THEN i ELSE i + 1]
      BY <1>3, <2>6, CutIs DEF s
    <3> HIDE DEF t
    <3>2. \A i \in 1 .. Len(t) : t[i] \in Good
      BY <1>3, <2>6, <3>1
    <3>3. t \in [1 .. Len(t) -> Good] /\ Len(t) \in Nat
      BY <3>1, <3>2
    <3> QED BY <3>3 DEF t
  <2> QED BY <1>1, <2>9, <2>12, <2>13
<1> QED BY <1>8, <1>9, <1>10

-----------------------------------------------------------------------------
(* The flat table implements dynamic scoping.                              *)

LEMMA BuiltinRefines ==
  ASSUME Sound, Kept,
         Unused({"repeated", "valueless", "local_prefix", "redeclared", "under_prefix"}),
         NEW prefix \in PreAssigns, Builtin(prefix)
  PROVE  Scopes!Next /\ Kept'
<1>1. /\ "repeated" \notin Unusual /\ "valueless" \notin Unusual /\ "local_prefix" \notin Unusual
      /\ Unused({"repeated", "valueless", "redeclared", "under_prefix"})
  BY DEF Unused
<1>2. ASSUME local_saves' \in Seq(Good), calls' = calls PROVE Kept'
  BY <1>2 DEF Kept
<1>3. ASSUME NEW n \in Names, builtin_local(prefix, n) PROVE Scopes!Next /\ Kept'
  BY <1>1, <1>2, <1>3, LocalRefines
<1>4. ASSUME NEW n \in Names, builtin_unset(prefix, n) PROVE Scopes!Next /\ Kept'
  BY <1>1, <1>2, <1>4, UnsetRefines
<1>5. ASSUME local_saves' = local_saves, calls' = calls PROVE Kept'
  BY <1>5 DEF Kept
<1>6. ASSUME NEW n \in ExportNames, builtin_export(prefix, n) PROVE Scopes!Next /\ Kept'
  BY <1>1, <1>5, <1>6, ExportRefines
<1>7. ASSUME NEW n \in ReadonlyNames, builtin_readonly(prefix, n) PROVE Scopes!Next /\ Kept'
  BY <1>1, <1>5, <1>7, ReadonlyRefines
<1> QED BY <1>3, <1>4, <1>6, <1>7 DEF Builtin

LEMMA CallKept ==
  ASSUME Sound, Kept, Unused({"repeated", "valueless"}),
         NEW prefix \in PreAssigns, handle_func_call(prefix)
  PROVE  Kept'
<1> DEFINE P == Prefixed(prefix)
<1>1. PrefixIn(P, Keys(prefix))
  BY PrefixDone DEF handle_func_call, Unused
<1>2. /\ P.saved \in Seq(Good) /\ P.store.saves = local_saves
      /\ \A i \in DOMAIN P.saved : P.saved[i].depth = 0
  BY <1>1 DEF PrefixIn, Stores
<1>3. local_saves' = local_saves /\ calls' = Append(calls, P.saved)
  BY <1>2 DEF handle_func_call, Becomes
<1> HIDE DEF P
<1>4. calls \in Seq(Seq(Save)) /\ Len(calls) \in Nat
  BY SoundStack
<1>5. ASSUME NEW k \in DOMAIN calls'
      PROVE  calls'[k] \in Seq(Good) /\ \A i \in DOMAIN calls'[k] : calls'[k][i].depth = 0
  <2>1. CASE k \in DOMAIN calls
    <3>1. calls'[k] = calls[k]
      BY <1>3, <1>4, <2>1
    <3> QED BY <2>1, <3>1 DEF Kept
  <2>2. CASE k \notin DOMAIN calls
    <3>1. calls'[k] = P.saved
      BY <1>3, <1>4, <1>5, <2>2
    <3> QED BY <1>2, <3>1
  <2> QED BY <2>1, <2>2
<1> QED BY <1>3, <1>5 DEF Kept

LEMMA ReturnKept ==
  ASSUME Sound, Kept, Return
  PROVE  Kept'
<1>1. PICK k \in 0 .. Len(local_saves) :
        /\ local_saves' = SubSeq(local_saves, 1, k)
        /\ SubSeq(local_saves, 1, k) \in Seq(Good)
        /\ Len(calls) >= 1 /\ calls' = Front(calls)
  BY ReturnParts
<1>2. calls \in Seq(Seq(Save)) /\ Len(calls) \in Nat
  BY SoundStack
<1>3. ASSUME NEW c \in DOMAIN calls'
      PROVE  calls'[c] \in Seq(Good) /\ \A i \in DOMAIN calls'[c] : calls'[c][i].depth = 0
  <2>1. c \in DOMAIN calls /\ calls'[c] = calls[c]
    BY <1>1, <1>2, <1>3 DEF Front
  <2> QED BY <2>1 DEF Kept
<1> QED BY <1>1, <1>3 DEF Kept

LEMMA StepRefines ==
  ASSUME Sound, Kept, [Next]_vars,
         Unused({"repeated", "valueless", "local_prefix", "redeclared", "under_prefix"})
  PROVE  [Scopes!Next]_Scope /\ Kept'
<1>1. /\ "repeated" \notin Unusual /\ "valueless" \notin Unusual
      /\ Unused({"repeated", "valueless"})
  BY DEF Unused
<1>2. ASSUME NEW list \in Lists, handle_assign_only(list) PROVE Scopes!Next /\ Kept'
  <2>1. Scopes!Next /\ local_saves' = local_saves /\ calls' = calls
    BY <1>1, <1>2, AssignsRefine
  <2> QED BY <2>1 DEF Kept
<1>3. ASSUME NEW prefix \in PreAssigns, handle_func_call(prefix) PROVE Scopes!Next /\ Kept'
  BY <1>1, <1>3, CallRefines, CallKept
<1>4. ASSUME NEW prefix \in PreAssigns, Builtin(prefix) PROVE Scopes!Next /\ Kept'
  BY <1>4, BuiltinRefines
<1>5. CASE Return
  BY <1>5, ReturnRefines, ReturnKept
<1>6. CASE UNCHANGED vars
  <2>1. env' = env /\ local_saves' = local_saves /\ calls' = calls
    BY <1>6 DEF vars
  <2>2. Scope' = Scope
    BY <2>1, ScopeIs, ScopeNext
  <2> QED BY <2>1, <2>2 DEF Kept
<1> QED BY <1>2, <1>3, <1>4, <1>5, <1>6 DEF Next

LEMMA FirstScope ==
  ASSUME Init
  PROVE  Scopes!Init /\ Kept
<1>1. Len(calls) = 0 /\ local_saves = <<>> /\ calls = <<>> /\ \A n \in Names : env[n].value = NoValue
  BY DEF Init, Absent
<1> DEFINE L == LayersOf(local_saves, calls)
           g == [n \in Names |-> NoValue]
<1>2. Height(calls) = 1
  BY <1>1 DEF Height
<1>3. Scope = Cells(env, L, 1)
  BY <1>2, ScopeIs
<1> HIDE DEF L
<1>4. ASSUME NEW n \in Names PROVE Meant(env, L, 1, 1, n) = NoValue
  <2>1. Open(L, 1, 1, n)
    BY DEF Open
  <2> QED BY <1>1, <2>1, MeantOpen
<1>5. Cells(env, L, 1) = <<g>>
  <2>1. Cells(env, L, 1) = [i \in 1 .. 1 |-> [n \in Names |-> Meant(env, L, 1, 1, n)]]
    BY DEF Cells
  <2>2. [n \in Names |-> Meant(env, L, 1, 1, n)] = g
    BY <1>4
  <2> QED BY <2>1, <2>2
<1>6. g \in [Names -> Values \cup {NoValue}]
  OBVIOUS
<1> HIDE DEF g
<1>7. Scopes!Init
  BY <1>3, <1>5, <1>6 DEF Scopes!Init
<1>8. Kept
  BY <1>1 DEF Kept
<1> QED BY <1>7, <1>8

(* A name means the newest cell that hides the others, writing and         *)
(* unsetting reach that cell, an unset of a caller's local takes it away,  *)
(* and a return uncovers every caller's value as it was, though the shell  *)
(* keeps one flat table and lists of what to put back (scope_save,         *)
(* scope_leave, scope_pop_upvar, apply_temp_assigns).  For every use but   *)
(* the five that UsualList, UsualLocal and UsualUnset name.                *)
THEOREM ScopesAreDynamic ==
  ASSUME Unused({"repeated", "valueless", "local_prefix", "redeclared", "under_prefix"})
  PROVE  Spec => DynamicScoping
<1>1. Init => Scopes!Init /\ Kept
  BY FirstScope
<1>2. Sound /\ Kept /\ [Next]_vars => [Scopes!Next]_Scope /\ Kept'
  BY StepRefines
<1>3. Spec => []Sound
  BY SoundAlways
<1> QED BY <1>1, <1>2, <1>3, PTL DEF Spec, DynamicScoping, Scopes!Spec
=============================================================================
