-------------------------- MODULE JobControl_proofs --------------------------
(***************************************************************************)
(* What holds in every behaviour of JobControl, for any number of          *)
(* processes, slots and ring entries, in three parts: types, the form of   *)
(* the job table and the loops over it (Typed, WellFormed, LoopsCompute);  *)
(* what the shell says of its jobs is true (StatusIsTold, EntriesAreTrue); *)
(* what a session owes its user besides (NothingIsLost, CurrentIsElected,  *)
(* ExitIsHonest).                                                          *)
(***************************************************************************)
EXTENDS JobControl, TLAPS, FiniteSetTheorems, WellFoundedInduction

-----------------------------------------------------------------------------
(* Every operation on the job table keeps it well formed, for any number of *)
(* slots.                                                                  *)

(* A non-empty set of naturals has a least element.                        *)
LEMMA NatHasLeast ==
  ASSUME NEW S, S \subseteq Nat, S # {}
  PROVE  \E m \in S : \A x \in S : m <= x
<1>1. IsWellFoundedOn(OpToRel(<, Nat), Nat)
  BY NatLessThanWellFounded
<1>2. PICK m \in S : \A y \in S : ~ (<<y, m>> \in OpToRel(<, Nat))
  BY <1>1, WFMin, Zenon
<1>3. \A y \in S : ~ (y < m)
  BY <1>2 DEF OpToRel
<1>4. QED
  BY <1>3

(* A nonempty set of numbers has a least one, and Least finds it.          *)
LEMMA LeastIsLeast ==
  ASSUME NEW S, S \subseteq Nat, S # {}
  PROVE  Least(S) \in S /\ \A x \in S : Least(S) <= x
BY NatHasLeast DEF Least

(* A non-empty bounded set of naturals has a greatest element.             *)
LEMMA NatHasGreatest ==
  ASSUME NEW S, S \subseteq Nat, S # {}, NEW b \in Nat, \A x \in S : x <= b
  PROVE  Greatest(S) \in S /\ \A x \in S : x <= Greatest(S)
<1> DEFINE U == {u \in Nat : \A x \in S : x <= u}
<1>1. PICK m \in U : \A u \in U : m <= u
  <2>1. b \in U OBVIOUS
  <2>2. U \subseteq Nat OBVIOUS
  <2> HIDE DEF U
  <2> QED BY <2>1, <2>2, NatHasLeast
<1>2. m \in S
  <2> SUFFICES ASSUME m \notin S PROVE FALSE
    OBVIOUS
  <2>1. \A x \in S : x <= m - 1
    BY <1>1
  <2>2. PICK x \in S : x <= m - 1
    BY <2>1
  <2>3. m - 1 \in Nat
    BY <2>2
  <2> QED BY <1>1, <2>1, <2>3
<1>3. \E z \in S : \A y \in S : y <= z
  BY <1>1, <1>2
<1> QED BY <1>3 DEF Greatest

(* The numbers a function on 1..n takes are bounded.                       *)
LEMMA RangeBounded ==
  ASSUME NEW n \in Nat, NEW f \in [1 .. n -> Nat]
  PROVE  \E b \in Nat : \A i \in 1 .. n : f[i] <= b
<1> DEFINE Bad == {k \in 0 .. n : ~ \E b \in Nat : \A i \in 1 .. k : f[i] <= b}
<1>0. SUFFICES ASSUME Bad # {} PROVE FALSE
  <2>1. n \in 0 .. n OBVIOUS
  <2> QED BY <2>1, Zenon
<1>1. PICK k \in Bad : \A j \in Bad : k <= j
  <2>1. Bad \subseteq Nat OBVIOUS
  <2> HIDE DEF Bad
  <2> QED BY <1>0, <2>1, NatHasLeast
<1>2. 0 \notin Bad
  <2>1. \A i \in 1 .. 0 : f[i] <= 0 OBVIOUS
  <2> QED BY <2>1
<1>3. k \in 1 .. n /\ k - 1 \notin Bad
  <2>1. k \in 0 .. n OBVIOUS
  <2> HIDE DEF Bad
  <2> QED BY <1>1, <1>2, <2>1
<1>4. PICK b \in Nat : \A i \in 1 .. (k - 1) : f[i] <= b
  BY <1>3
<1>5. LET c == IF f[k] <= b THEN b ELSE f[k]
      IN  c \in Nat /\ \A i \in 1 .. k : f[i] <= c
  BY <1>3, <1>4
<1> QED BY <1>1, <1>5

-----------------------------------------------------------------------------
(* Numbers and elections.                                                  *)

(* The numbers of the jobs on a well-formed table are finitely many.       *)
LEMMA IdsAreNumbers ==
  ASSUME NEW T \in Table
  PROVE  /\ Ids(T) \subseteq Nat
         /\ \E b \in Nat : \A i \in Ids(T) : i <= b
<1> DEFINE f == [s \in 1 .. JobMax |-> T.jobs[s].id]
<1>1. f \in [1 .. JobMax -> Nat]
  BY DEF Table, Job, Slots
<1>2. \A s \in Occupied(T) : s \in 1 .. JobMax /\ T.jobs[s].id = f[s]
  BY DEF Occupied, Slots
<1>3. JobMax \in Nat
  BY JobMaxAssumption
<1> HIDE DEF f
<1>4. PICK b \in Nat : \A i \in 1 .. JobMax : f[i] <= b
  BY <1>1, <1>3, RangeBounded
<1> QED BY <1>1, <1>2, <1>4 DEF Ids, IdsOf

(* job_next_id hands out a number above every number in the table.         *)
LEMMA NextIdFresh ==
  ASSUME NEW T \in Table
  PROVE  /\ job_next_id(T) \in Nat \ {0}
         /\ \A i \in Ids(T) : i < job_next_id(T)
<1>1. PICK b \in Nat : \A i \in Ids(T) : i <= b
  BY IdsAreNumbers
<1> DEFINE S == Ids(T) \cup {0}
<1>2. S \subseteq Nat /\ S # {} /\ \A x \in S : x <= b
  BY <1>1, IdsAreNumbers
<1> HIDE DEF S
<1>3. Greatest(S) \in S /\ \A x \in S : x <= Greatest(S)
  BY <1>2, NatHasGreatest
<1>4. job_next_id(T) = Greatest(S) + 1
  BY DEF job_next_id, S
<1> QED BY <1>2, <1>3, <1>4 DEF S

(* job_live_id elects a job of the table other than the excepted one, and  *)
(* gives up only when nothing else is alive.                               *)
LEMMA LiveIdElects ==
  ASSUME NEW T \in Table, NEW e
  PROVE  /\ job_live_id(T, e) \in (Ids(T) \ {e}) \cup {NoJob}
         /\ job_live_id(T, e) = NoJob => IdsOf(T, Unfinished(T)) \subseteq {e}
<1> DEFINE cand(st) == IdsOf(T, WithStatus(T, st)) \ {e}
<1>1. PICK b \in Nat : \A i \in Ids(T) : i <= b
  BY IdsAreNumbers
<1>2. ASSUME NEW st, cand(st) # {}
      PROVE  Greatest(cand(st)) \in cand(st)
  <2>1. cand(st) \subseteq Ids(T)
    BY DEF IdsOf, Ids, WithStatus
  <2>2. cand(st) \subseteq Nat /\ \A i \in cand(st) : i <= b
    BY <1>1, <2>1, IdsAreNumbers
  <2> HIDE DEF cand
  <2> QED BY <1>2, <2>2, NatHasGreatest
<1>3. \A st : cand(st) \subseteq Ids(T) \ {e}
  BY DEF IdsOf, Ids, WithStatus
<1>4. job_live_id(T, e) = IF cand("stopped") # {} THEN Greatest(cand("stopped"))
                          ELSE IF cand("running") # {} THEN Greatest(cand("running"))
                          ELSE NoJob
  BY DEF job_live_id
<1>5. IdsOf(T, Unfinished(T)) \ {e} \subseteq cand("stopped") \cup cand("running")
  <2> SUFFICES ASSUME NEW s \in Unfinished(T)
               PROVE  s \in WithStatus(T, "stopped") \cup WithStatus(T, "running")
    BY DEF IdsOf
  <2>1. s \in Slots /\ T.jobs[s].status \in JobStatus
    BY DEF Unfinished, Occupied, Table, Job
  <2> QED BY <2>1 DEF Unfinished, Finished, job_finished, WithStatus, JobStatus
<1>6. NoJob \notin Ids(T)
  BY IdsAreNumbers DEF NoJob
<1> HIDE DEF cand
<1> QED BY <1>2, <1>3, <1>4, <1>5, <1>6, Zenon

-----------------------------------------------------------------------------
(* The operations keep the table well formed.                              *)

TableOK(T) ==
  T \in Table /\ NumbersUnique(T) /\ CountExact(T) /\ MarkersNameJobs(T)

(* There are finitely many slots, so finitely many are occupied.           *)
LEMMA SlotsFinite ==
  ASSUME NEW S, S \subseteq Slots
  PROVE  IsFiniteSet(S) /\ Cardinality(S) \in Nat
<1>1. IsFiniteSet(Slots)
  BY JobMaxAssumption, FS_Interval DEF Slots
<1> QED BY <1>1, FS_Subset, FS_CardinalityType

(* job_table_init gives a well-formed table.                               *)
LEMMA InitOK == TableOK(job_table_init)
<1>1. job_table_init \in Table
  BY DEF job_table_init, Table, Job, FreeSlot, JobStatus, StatusWord, NoStatus, NoJob
<1>2. Occupied(job_table_init) = {}
  BY DEF Occupied, job_table_init, FreeSlot
<1> QED BY <1>1, <1>2, FS_EmptySet
        DEF TableOK, NumbersUnique, CountExact, MarkersNameJobs, Ids, IdsOf,
            job_table_init, NoJob

(* A step that keeps every slot's number and group, the count and the      *)
(* markers keeps the table well formed, whatever it does to statuses.      *)
LEMMA SameSlotsOK ==
  ASSUME NEW T, TableOK(T), NEW U \in Table,
         \A s \in Slots : U.jobs[s].id = T.jobs[s].id /\ U.jobs[s].pgid = T.jobs[s].pgid,
         U.count = T.count, U.current = T.current, U.previous = T.previous
  PROVE  TableOK(U)
<1>1. Occupied(U) = Occupied(T)
  BY DEF Occupied
<1>2. Ids(U) = Ids(T)
  BY <1>1 DEF Ids, IdsOf, Occupied
<1> QED BY <1>1, <1>2 DEF TableOK, NumbersUnique, CountExact, MarkersNameJobs, Occupied

(* A decoded job is a job.                                                 *)
LEMMA DecodedType ==
  ASSUME NEW j \in Job, NEW w \in StatusWord
  PROVE  Decoded(j, w) \in Job /\ Decoded(j, w).id = j.id /\ Decoded(j, w).pgid = j.pgid
<1>1. CodeOf(w) \in Nat
  BY DEF CodeOf, StatusWord
<1> QED BY <1>1 DEF Decoded, Job, JobStatus, StatusWord

(* job_record_exit keeps the table well formed.                            *)
LEMMA RecordOK ==
  ASSUME NEW T, TableOK(T), NEW s \in Slots, NEW w \in StatusWord
  PROVE  TableOK(job_record_exit(T, s, w))
<1> DEFINE U == job_record_exit(T, s, w)
<1>1. T \in Table /\ T.jobs[s] \in Job
  BY DEF TableOK, Table
<1>2. U = [T EXCEPT !.jobs[s] = Decoded(T.jobs[s], w)]
  BY DEF job_record_exit
<1>3. Decoded(T.jobs[s], w) \in Job
      /\ Decoded(T.jobs[s], w).id = T.jobs[s].id
      /\ Decoded(T.jobs[s], w).pgid = T.jobs[s].pgid
  BY <1>1, DecodedType
<1>4. U \in Table
  BY <1>1, <1>2, <1>3 DEF Table
<1>5. /\ \A t \in Slots : U.jobs[t].id = T.jobs[t].id /\ U.jobs[t].pgid = T.jobs[t].pgid
      /\ U.count = T.count /\ U.current = T.current /\ U.previous = T.previous
  BY <1>1, <1>2, <1>3 DEF Table
<1> HIDE DEF U
<1> QED BY <1>4, <1>5, SameSlotsOK DEF U

(* fg and bg write a status by hand.                                       *)
LEMMA StatusOK ==
  ASSUME NEW T, TableOK(T), NEW s \in Slots, NEW st \in JobStatus
  PROVE  TableOK([T EXCEPT !.jobs[s].status = st])
<1> DEFINE U == [T EXCEPT !.jobs[s].status = st]
<1>1. T \in Table
  BY DEF TableOK
<1>2. U \in Table
  BY <1>1 DEF Table, Job
<1>3. /\ \A t \in Slots : U.jobs[t].id = T.jobs[t].id /\ U.jobs[t].pgid = T.jobs[t].pgid
      /\ U.count = T.count /\ U.current = T.current /\ U.previous = T.previous
  BY <1>1 DEF Table, Job
<1> HIDE DEF U
<1> QED BY <1>2, <1>3, SameSlotsOK DEF U

(* job_mark_reported keeps the table well formed.                          *)
LEMMA NotifiedOK ==
  ASSUME NEW T, TableOK(T), NEW S
  PROVE  TableOK(Notified(T, S))
<1> DEFINE U == Notified(T, S)
<1>1. T \in Table
  BY DEF TableOK
<1>2. U \in Table
  BY <1>1 DEF Table, Job, Notified
<1>3. /\ \A t \in Slots : U.jobs[t].id = T.jobs[t].id /\ U.jobs[t].pgid = T.jobs[t].pgid
      /\ U.count = T.count /\ U.current = T.current /\ U.previous = T.previous
  BY <1>1 DEF Table, Job, Notified
<1> HIDE DEF U
<1> QED BY <1>2, <1>3, SameSlotsOK DEF U

(* A new job: a slot of its own, a number above all others, the '+' marker, *)
(* and '-' on some other live job or on none.                              *)
LEMMA AddOK ==
  ASSUME NEW T, TableOK(T), NEW g \in Nat \ {0}
  PROVE  TableOK(job_add(T, g))
<1> DEFINE free == Slots \ Occupied(T)
           s == Least(free)
           id == job_next_id(T)
           j == [FreeSlot EXCEPT !.id = id, !.pgid = g]
           new == [T.jobs EXCEPT ![s] = j]
           V == [T EXCEPT !.jobs = new]
           U == [jobs |-> new, count |-> T.count + 1, current |-> id,
                 previous |-> job_live_id(V, id)]
<1>1. CASE free = {}
  BY <1>1 DEF job_add
<1>2. CASE free # {}
  <2>1. s \in Slots /\ s \notin Occupied(T)
    <3>1. free \subseteq Nat
      BY DEF Slots
    <3> QED BY <1>2, <3>1, LeastIsLeast
  <2>2. id \in Nat \ {0} /\ \A i \in Ids(T) : i < id
    BY NextIdFresh DEF TableOK
  <2>3. T \in Table
    BY DEF TableOK
  <2>4. j \in Job /\ j.id = id /\ j.pgid = g
    BY <2>2 DEF Job, FreeSlot, JobStatus, StatusWord, NoStatus
  <2> HIDE DEF j
  <2>5. new \in [Slots -> Job] /\ new[s] = j /\ \A t \in Slots \ {s} : new[t] = T.jobs[t]
    BY <2>1, <2>3, <2>4 DEF Table
  <2> HIDE DEF new
  <2>6. V \in Table /\ V.jobs = new
    BY <2>3, <2>5 DEF Table
  <2>7. job_live_id(V, id) \in (Ids(V) \ {id}) \cup {NoJob}
    BY <2>6, LiveIdElects
  <2>8. Occupied(U) = Occupied(T) \cup {s} /\ Occupied(V) = Occupied(T) \cup {s}
    BY <2>1, <2>4, <2>5, <2>6 DEF Occupied
  <2>9. Ids(U) = Ids(T) \cup {id} /\ Ids(V) = Ids(U)
    <3>1. \A t \in Occupied(T) : new[t].id = T.jobs[t].id
      BY <2>1, <2>5 DEF Occupied
    <3>2. IdsOf(U, Occupied(T) \cup {s}) = IdsOf(V, Occupied(T) \cup {s})
      BY <2>6 DEF IdsOf
    <3>3. U.jobs = new
      OBVIOUS
    <3> HIDE DEF U, V, s, id
    <3>4. ASSUME NEW x \in Ids(U) PROVE x \in Ids(T) \cup {id}
      <4>1. PICK t \in Occupied(T) \cup {s} : x = new[t].id
        BY <2>8, <3>3 DEF Ids, IdsOf
      <4> QED BY <2>4, <2>5, <3>1, <4>1 DEF Ids, IdsOf
    <3>5. ASSUME NEW x \in Ids(T) PROVE x \in Ids(U)
      <4>1. PICK t \in Occupied(T) : x = T.jobs[t].id
        BY DEF Ids, IdsOf
      <4> QED BY <2>8, <3>1, <3>3, <4>1 DEF Ids, IdsOf
    <3>6. id \in Ids(U)
      BY <2>4, <2>5, <2>8, <3>3 DEF Ids, IdsOf
    <3> QED BY <2>8, <3>2, <3>4, <3>5, <3>6 DEF Ids
  <2>10. U \in Table
    <3>1. job_live_id(V, id) \in Int
      BY <2>6, <2>7, IdsAreNumbers DEF NoJob
    <3>2. T.count \in Int
      BY <2>3 DEF Table
    <3> QED BY <2>2, <2>5, <3>1, <3>2 DEF Table
  <2>11. NumbersUnique(U)
    <3>1. \A t \in Occupied(T) : new[t].id = T.jobs[t].id /\ T.jobs[t].id \in Ids(T)
                                 /\ T.jobs[t].id \in Nat
      BY <2>1, <2>3, <2>5 DEF Occupied, Ids, IdsOf, Table, Job
    <3>2. new[s].id = id
      BY <2>4, <2>5
    <3>3. U.jobs = new
      OBVIOUS
    <3>4. NumbersUnique(T)
      BY DEF TableOK
    <3> HIDE DEF U, s, id
    <3>5. ASSUME NEW t \in Occupied(U) PROVE new[t].id > 0
      <4>1. CASE t = s
        BY <2>2, <3>2, <4>1
      <4>2. CASE t \in Occupied(T)
        BY <3>1, <3>4, <4>2 DEF NumbersUnique
      <4> QED BY <2>8, <4>1, <4>2
    <3>6. ASSUME NEW t \in Occupied(T) PROVE new[t].id # new[s].id
      BY <2>2, <3>1, <3>2
    <3>7. \A t, u \in Occupied(T) : new[t].id = new[u].id => t = u
      BY <3>1, <3>4 DEF NumbersUnique
    <3> QED BY <2>8, <3>3, <3>5, <3>6, <3>7 DEF NumbersUnique
  <2>12. CountExact(U)
    <3>1. IsFiniteSet(Occupied(T)) /\ Cardinality(Occupied(T)) \in Nat
      BY SlotsFinite DEF Occupied
    <3>2. Cardinality(Occupied(T) \cup {s}) = Cardinality(Occupied(T)) + 1
      BY <2>1, <3>1, FS_AddElement
    <3> QED BY <2>8, <3>2 DEF CountExact, TableOK
  <2>13. MarkersNameJobs(U)
    <3>1. NoJob # id
      BY <2>2 DEF NoJob
    <3> QED BY <2>7, <2>9, <3>1 DEF MarkersNameJobs
  <2>14. job_add(T, g) = U
    BY <1>2, <2>3, Zenon DEF job_add, new, j
  <2> QED BY <2>10, <2>11, <2>12, <2>13, <2>14 DEF TableOK
<1> QED BY <1>1, <1>2

(* Removal: the slots are freed, the count follows, and a marker whose job *)
(* left is handed to a live one or dropped.                                *)
LEMMA RemoveOK ==
  ASSUME NEW T, TableOK(T), NEW S, S \subseteq Occupied(T)
  PROVE  TableOK(job_remove(T, S))
<1> DEFINE U == [T EXCEPT !.jobs = [s \in Slots |-> IF s \in S THEN FreeSlot
                                                    ELSE T.jobs[s]],
                          !.count = @ - Cardinality(S)]
           gone == IdsOf(T, S)
           R == job_reelect(U, gone)
<1>1. T \in Table /\ NumbersUnique(T) /\ CountExact(T) /\ MarkersNameJobs(T)
  BY DEF TableOK
<1>2. Cardinality(S) \in Nat /\ IsFiniteSet(Occupied(T))
  BY SlotsFinite DEF Occupied
<1>3. /\ U \in Table /\ U.current = T.current /\ U.previous = T.previous
      /\ U.count = T.count - Cardinality(S)
      /\ \A s \in Slots : U.jobs[s] = IF s \in S THEN FreeSlot ELSE T.jobs[s]
  <2> DEFINE new == [s \in Slots |-> IF s \in S THEN FreeSlot ELSE T.jobs[s]]
             n == T.count - Cardinality(S)
  <2>1. FreeSlot \in Job
    BY DEF Job, FreeSlot, JobStatus, StatusWord, NoStatus
  <2>2. new \in [Slots -> Job]
    BY <1>1, <2>1 DEF Table
  <2>3. \A s \in Slots : new[s] = IF s \in S THEN FreeSlot ELSE T.jobs[s]
    OBVIOUS
  <2>4. n \in Int
    BY <1>1, <1>2 DEF Table
  <2>5. U = [jobs |-> new, count |-> n, current |-> T.current, previous |-> T.previous]
    <3> HIDE DEF new
    <3>1. U = [T EXCEPT !.jobs = new, !.count = n]
      BY DEF new
    <3> HIDE DEF U, n
    <3> QED BY <1>1, <3>1 DEF Table
  <2>6. T.current \in Int /\ T.previous \in Int
    BY <1>1 DEF Table
  <2> HIDE DEF new, U
  <2> QED BY <2>2, <2>3, <2>4, <2>5, <2>6 DEF Table
<1> HIDE DEF U
<1>4. Occupied(U) = Occupied(T) \ S
  BY <1>3 DEF Occupied, FreeSlot
<1>5. \A s \in Occupied(U) : U.jobs[s] = T.jobs[s]
  BY <1>3, <1>4 DEF Occupied
<1>6. Ids(U) = Ids(T) \ gone
  <2>1. \A s \in Occupied(T) \ S : T.jobs[s].id \notin gone
    BY <1>1 DEF NumbersUnique, IdsOf
  <2> QED BY <1>4, <1>5, <2>1 DEF Ids, IdsOf
<1>7. NumbersUnique(U)
  BY <1>1, <1>4, <1>5 DEF NumbersUnique
<1>8. CountExact(U)
  <2>1. Occupied(T) \cap S = S
    OBVIOUS
  <2>2. Cardinality(Occupied(T) \ S) = Cardinality(Occupied(T)) - Cardinality(S)
    BY <1>2, <2>1, FS_Difference
  <2> QED BY <1>1, <1>3, <1>4, <2>2 DEF CountExact
<1>9. \A e : job_live_id(U, e) \in (Ids(U) \ {e}) \cup {NoJob}
  BY <1>3, LiveIdElects
<1>10. R \in Table /\ R.jobs = U.jobs /\ R.count = U.count /\ MarkersNameJobs(R)
  <2>1. CASE {U.current, U.previous} \cap gone = {}
    <3>1. R = U
      BY <2>1 DEF job_reelect
    <3> QED BY <1>1, <1>3, <1>6, <2>1, <3>1 DEF MarkersNameJobs
  <2>2. CASE {U.current, U.previous} \cap gone # {}
    <3> DEFINE cur == job_find_id(U, U.current)
               keep == /\ U.current \notin gone
                       /\ cur # {}
                       /\ \A s \in cur : U.jobs[s].status = "stopped"
               plus == IF keep THEN U.current ELSE job_live_id(U, NoJob)
               minus == IF plus < 0 THEN NoJob
                        ELSE IF U.previous \notin Ids(U) \/ U.previous = plus
                             THEN job_live_id(U, plus)
                        ELSE U.previous
    <3>1. R = [U EXCEPT !.current = plus, !.previous = minus]
      BY <2>2 DEF job_reelect
    <3>2. plus \in Ids(U) \cup {NoJob}
      <4>1. ASSUME keep PROVE U.current \in Ids(U)
        BY <4>1 DEF job_find_id, Ids, IdsOf
      <4> QED BY <1>9, <4>1
    <3> HIDE DEF plus
    <3>3. Ids(U) \subseteq Nat /\ NoJob < 0 /\ NoJob \notin Ids(U) /\ NoJob \in Int
      BY <1>3, IdsAreNumbers DEF NoJob
    <3>4. minus \in Ids(U) \cup {NoJob}
      BY <1>9
    <3>5. plus = minus => plus = NoJob
      BY <1>9, <3>2, <3>3
    <3>6. plus = NoJob => minus = NoJob
      BY <3>3
    <3> HIDE DEF minus, R
    <3>9. plus \in Int /\ minus \in Int
      BY <3>2, <3>3, <3>4
    <3>7. /\ R \in Table /\ R.jobs = U.jobs /\ R.count = U.count
          /\ R.current = plus /\ R.previous = minus
      BY <1>3, <3>1, <3>9 DEF Table
    <3>8. Ids(R) = Ids(U)
      BY <3>7 DEF Ids, IdsOf, Occupied
    <3> QED BY <3>2, <3>4, <3>5, <3>6, <3>7, <3>8 DEF MarkersNameJobs
  <2> QED BY <2>1, <2>2
<1>11. Occupied(R) = Occupied(U)
  BY <1>10 DEF Occupied
<1>12. TableOK(R)
  BY <1>7, <1>8, <1>10, <1>11 DEF TableOK, NumbersUnique, CountExact
<1> QED BY <1>12 DEF job_remove, U

(* The purges keep the table well formed.                                  *)
LEMMA PurgeOK ==
  ASSUME NEW T, TableOK(T)
  PROVE  TableOK(job_purge_done(T)) /\ TableOK(job_purge_reported(T))
BY RemoveOK DEF job_purge_done, job_purge_reported, Finished

-----------------------------------------------------------------------------
(***************************************************************************)
(* The loops of src/job_control compute what JobTable says in one          *)
(* expression each, for any number of slots.  A loop is a recursive        *)
(* function of the turn; that there is one is LoopRuns, what all its turns *)
(* keep is LoopStays.  A search has found, after i turns, what it looks    *)
(* for among the first i slots; a walk over the numbers has passed k of    *)
(* them after k steps, and there are no more than slots; a purge has made, *)
(* after i turns, the table that one removal of all the jobs to retire     *)
(* among the first i slots makes.                                          *)
(***************************************************************************)

(* Loops over the slots.                                                   *)

(* acc is what a loop has after each turn, when a turn is the function F   *)
(* of the slot and of what the turns before have made.                     *)
Unrolls(acc, base, F, n) ==
  acc[0] = base /\ \A i \in 1 .. n : acc[i - 1] \in DOMAIN F[i] /\ acc[i] = F[i][acc[i - 1]]

LEMMA LoopRuns ==
  ASSUME NEW A, NEW n \in Nat, NEW base \in A, NEW F \in [1 .. n -> [A -> A]]
  PROVE  \E acc \in [0 .. n -> A] : Unrolls(acc, base, F, n)
<1> DEFINE Bad == {k \in 0 .. n : ~ \E acc \in [0 .. k -> A] : Unrolls(acc, base, F, k)}
<1>1. SUFFICES ASSUME Bad # {} PROVE FALSE
  <2>1. n \in 0 .. n
    OBVIOUS
  <2> QED BY <2>1, Zenon
<1>2. PICK k \in Bad : \A j \in Bad : k <= j
  <2>1. Bad \subseteq Nat
    OBVIOUS
  <2> HIDE DEF Bad
  <2> QED BY <1>1, <2>1, NatHasLeast
<1>3. k # 0
  <2> DEFINE z == [i \in 0 .. 0 |-> base]
  <2>1. z \in [0 .. 0 -> A] /\ Unrolls(z, base, F, 0)
    BY DEF Unrolls
  <2> HIDE DEF z
  <2> QED BY <2>1
<1>4. k \in 1 .. n /\ k - 1 \in 0 .. n /\ k - 1 \notin Bad
  <2>1. k \in 0 .. n
    OBVIOUS
  <2> HIDE DEF Bad
  <2> QED BY <1>2, <1>3, <2>1
<1>5. PICK a \in [0 .. k - 1 -> A] : Unrolls(a, base, F, k - 1)
  BY <1>4
<1>6. a[k - 1] \in A /\ F[k][a[k - 1]] \in A
  <2>1. k - 1 \in 0 .. k - 1
    BY <1>4
  <2> QED BY <1>4, <2>1
<1> DEFINE b == [i \in 0 .. k |-> IF i = k THEN F[k][a[k - 1]] ELSE a[i]]
<1>7. b \in [0 .. k -> A]
  BY <1>4, <1>6
<1>8. ASSUME NEW i \in 1 .. k
      PROVE  b[i - 1] \in A /\ b[i] = F[i][b[i - 1]]
  <2>1. b[i - 1] \in A /\ b[i - 1] = a[i - 1]
    BY <1>4, <1>7
  <2>2. CASE i = k
    BY <1>4, <2>1, <2>2
  <2>3. CASE i # k
    <3>1. i \in 1 .. k - 1 /\ i \in 0 .. k /\ b[i] = a[i]
      BY <1>4, <2>3
    <3> QED BY <1>5, <2>1, <3>1 DEF Unrolls
  <2> QED BY <2>2, <2>3
<1>9. Unrolls(b, base, F, k)
  <2>1. \A i \in 1 .. k : DOMAIN F[i] = A
    BY <1>4
  <2>2. b[0] = base
    BY <1>4, <1>5 DEF Unrolls
  <2> HIDE DEF b
  <2> QED BY <1>8, <2>1, <2>2 DEF Unrolls
<1> HIDE DEF b
<1> QED BY <1>2, <1>7, <1>9

(* What every turn keeps holds when the loop is over: I[i] is a set that   *)
(* has what there is after i turns.                                        *)
LEMMA LoopStays ==
  ASSUME NEW n \in Nat, NEW acc, NEW I, acc[0] \in I[0],
         \A i \in 1 .. n : acc[i - 1] \in I[i - 1] => acc[i] \in I[i]
  PROVE  \A i \in 0 .. n : acc[i] \in I[i]
<1> DEFINE Bad == {i \in 0 .. n : acc[i] \notin I[i]}
<1>1. SUFFICES ASSUME Bad # {} PROVE FALSE
  OBVIOUS
<1>2. PICK k \in Bad : \A j \in Bad : k <= j
  <2>1. Bad \subseteq Nat
    OBVIOUS
  <2> HIDE DEF Bad
  <2> QED BY <1>1, <2>1, NatHasLeast
<1>3. k \in 1 .. n /\ k - 1 \in 0 .. n /\ k - 1 \notin Bad
  <2>1. k \in 0 .. n /\ k # 0
    OBVIOUS
  <2> HIDE DEF Bad
  <2> QED BY <1>2, <2>1
<1> QED BY <1>2, <1>3

(* job_highest_id: the loop that looks for the greatest number.            *)
LEMMA NextIdRuns ==
  ASSUME NEW T \in Table
  PROVE  \E acc :
           /\ acc[0] = 0 /\ next_id_loop(T) = acc[JobMax] + 1
           /\ \A i \in 1 .. JobMax :
                acc[i] = IF T.jobs[i].pgid # 0 /\ T.jobs[i].id > acc[i - 1]
                         THEN T.jobs[i].id ELSE acc[i - 1]
<1> DEFINE body(hi, s) == IF T.jobs[s].pgid # 0 /\ T.jobs[s].id > hi THEN T.jobs[s].id ELSE hi
           F == [i \in 1 .. JobMax |-> [a \in Nat |-> body(a, i)]]
           Is(acc) == acc = [i \in 0 .. JobMax |-> IF i = 0 THEN 0 ELSE body(acc[i - 1], i)]
           run == CHOOSE acc : Is(acc)
<1>1. next_id_loop(T) = run[JobMax] + 1
  BY Zenon DEF next_id_loop, For
<1>2. PICK acc \in [0 .. JobMax -> Nat] : Unrolls(acc, 0, F, JobMax)
  <2>1. F \in [1 .. JobMax -> [Nat -> Nat]]
    BY DEF Table, Job, Slots
  <2> HIDE DEF F
  <2> QED BY <2>1, JobMaxAssumption, LoopRuns
<1>3. Is(acc)
  <2>1. \A i \in 1 .. JobMax : F[i] = [a \in Nat |-> body(a, i)]
    OBVIOUS
  <2> HIDE DEF F, body
  <2>2. \A i \in 1 .. JobMax : acc[i] = body(acc[i - 1], i)
    BY <1>2, <2>1 DEF Unrolls
  <2>3. \A i \in 0 .. JobMax : i = 0 \/ i \in 1 .. JobMax
    BY JobMaxAssumption
  <2> QED BY <1>2, <2>2, <2>3 DEF Unrolls
<1>4. Is(run)
  <2> HIDE DEF Is
  <2> QED BY <1>3
<1> HIDE DEF run
<1>5. run[0] = 0 /\ \A i \in 1 .. JobMax : run[i] = body(run[i - 1], i)
  <2> HIDE DEF body
  <2> QED BY <1>4, JobMaxAssumption
<1> QED BY <1>1, <1>5

(* Only one element of a set of numbers is its greatest.                   *)
LEMMA GreatestIs ==
  ASSUME NEW S, S \subseteq Nat, NEW g \in S, \A x \in S : x <= g
  PROVE  Greatest(S) = g
<1>1. S # {} /\ g \in Nat
  OBVIOUS
<1>2. Greatest(S) \in S /\ \A x \in S : x <= Greatest(S)
  BY <1>1, NatHasGreatest
<1>3. Greatest(S) <= g /\ g <= Greatest(S) /\ Greatest(S) \in Nat
  BY <1>2
<1> QED BY <1>1, <1>3

(* The highest number of the slots up to i, 0 if they are all free.        *)
HighestTo(T, i, a) ==
  /\ a = 0 \/ \E s \in Occupied(T) : s <= i /\ a = T.jobs[s].id
  /\ \A s \in Occupied(T) : s <= i => T.jobs[s].id <= a

LEMMA HighestStep ==
  ASSUME NEW T \in Table, NEW i \in 1 .. JobMax, NEW a \in Nat, HighestTo(T, i - 1, a)
  PROVE  LET b == IF T.jobs[i].pgid # 0 /\ T.jobs[i].id > a THEN T.jobs[i].id ELSE a
         IN  b \in Nat /\ HighestTo(T, i, b)
<1>1. \A s \in Occupied(T) : s \in 1 .. JobMax /\ T.jobs[s].id \in Nat
  BY DEF Occupied, Slots, Table, Job
<1>2. i \in Occupied(T) <=> T.jobs[i].pgid # 0
  BY DEF Occupied, Slots
<1>3. T.jobs[i].id \in Nat
  BY DEF Slots, Table, Job
<1>4. \A s \in Occupied(T) : s <= i <=> s <= i - 1 \/ s = i
  BY <1>1
<1> QED BY <1>1, <1>2, <1>3, <1>4 DEF HighestTo

(* The loop's number is the one above every number in the table.           *)
LEMMA NextIdRight ==
  ASSUME NEW T \in Table
  PROVE  next_id_loop(T) = job_next_id(T)
<1>1. PICK acc :
        /\ acc[0] = 0 /\ next_id_loop(T) = acc[JobMax] + 1
        /\ \A i \in 1 .. JobMax :
             acc[i] = IF T.jobs[i].pgid # 0 /\ T.jobs[i].id > acc[i - 1]
                      THEN T.jobs[i].id ELSE acc[i - 1]
  BY NextIdRuns
<1> DEFINE I == [i \in 0 .. JobMax |-> {a \in Nat : HighestTo(T, i, a)}]
<1>2. \A i \in 0 .. JobMax : \A a : a \in I[i] <=> a \in Nat /\ HighestTo(T, i, a)
  OBVIOUS
<1> HIDE DEF I
<1>3. acc[0] \in I[0]
  <2>1. \A s \in Occupied(T) : s \in 1 .. JobMax
    BY DEF Occupied, Slots
  <2>2. HighestTo(T, 0, 0)
    BY <2>1 DEF HighestTo
  <2> QED BY <1>1, <1>2, <2>2, JobMaxAssumption
<1>4. ASSUME NEW i \in 1 .. JobMax, acc[i - 1] \in I[i - 1]
      PROVE  acc[i] \in I[i]
  <2>1. acc[i - 1] \in Nat /\ HighestTo(T, i - 1, acc[i - 1])
    BY <1>2, <1>4, JobMaxAssumption
  <2>2. acc[i] \in Nat /\ HighestTo(T, i, acc[i])
    BY <1>1, <2>1, HighestStep
  <2> QED BY <1>2, <2>2
<1>5. acc[JobMax] \in I[JobMax]
  <2>1. \A i \in 0 .. JobMax : acc[i] \in I[i]
    BY <1>3, <1>4, JobMaxAssumption, LoopStays
  <2> QED BY <2>1, JobMaxAssumption
<1> DEFINE S == Ids(T) \cup {0}
<1>6. acc[JobMax] \in S /\ \A x \in S : x <= acc[JobMax]
  <2>1. \A s \in Occupied(T) : s <= JobMax
    BY JobMaxAssumption DEF Occupied, Slots
  <2>2. HighestTo(T, JobMax, acc[JobMax]) /\ acc[JobMax] \in Nat
    BY <1>2, <1>5, JobMaxAssumption
  <2> QED BY <2>1, <2>2 DEF HighestTo, Ids, IdsOf
<1>7. S \subseteq Nat
  BY IdsAreNumbers
<1>8. Greatest(S) = acc[JobMax]
  <2> HIDE DEF S
  <2> QED BY <1>6, <1>7, GreatestIs
<1> QED BY <1>1, <1>8 DEF job_next_id

(* job_live_id: one pass over the slots for the jobs of one status.        *)
LEMMA BestRuns ==
  ASSUME NEW T \in Table, NEW want, NEW except
  PROVE  \E acc :
           /\ acc[0] = -1 /\ best_loop(T, want, except) = acc[JobMax]
           /\ \A i \in 1 .. JobMax :
                acc[i] = IF /\ T.jobs[i].pgid # 0 /\ T.jobs[i].id # except
                            /\ T.jobs[i].id > acc[i - 1] /\ T.jobs[i].status = want
                         THEN T.jobs[i].id ELSE acc[i - 1]
<1> DEFINE body(best, s) == IF /\ T.jobs[s].pgid # 0 /\ T.jobs[s].id # except
                               /\ T.jobs[s].id > best /\ T.jobs[s].status = want
                            THEN T.jobs[s].id ELSE best
           F == [i \in 1 .. JobMax |-> [a \in Int |-> body(a, i)]]
           Is(acc) == acc = [i \in 0 .. JobMax |-> IF i = 0 THEN -1 ELSE body(acc[i - 1], i)]
           run == CHOOSE acc : Is(acc)
<1>1. best_loop(T, want, except) = run[JobMax]
  BY Zenon DEF best_loop, For
<1>2. PICK acc \in [0 .. JobMax -> Int] : Unrolls(acc, -1, F, JobMax)
  <2>1. \A i \in 1 .. JobMax, a \in Int : body(a, i) \in Int
    <3>1. \A i \in 1 .. JobMax : T.jobs[i].id \in Nat
      BY DEF Table, Job, Slots
    <3>2. \A i, a : body(a, i) \in {T.jobs[i].id, a}
      BY Zenon
    <3> HIDE DEF body
    <3> QED BY <3>1, <3>2
  <2>2. F \in [1 .. JobMax -> [Int -> Int]] /\ -1 \in Int /\ JobMax \in Nat
    <3> HIDE DEF body
    <3> QED BY <2>1, JobMaxAssumption
  <2> HIDE DEF F
  <2> QED BY ONLY <2>2, LoopRuns
<1>3. Is(acc)
  <2>1. \A i \in 1 .. JobMax : F[i] = [a \in Int |-> body(a, i)]
    OBVIOUS
  <2> HIDE DEF F, body
  <2>2. \A i \in 1 .. JobMax : acc[i] = body(acc[i - 1], i)
    BY <1>2, <2>1 DEF Unrolls
  <2>3. \A i \in 0 .. JobMax : i = 0 \/ i \in 1 .. JobMax
    BY JobMaxAssumption
  <2> QED BY <1>2, <2>2, <2>3 DEF Unrolls
<1>4. Is(run)
  <2> HIDE DEF Is
  <2> QED BY <1>3
<1> HIDE DEF run
<1>5. run[0] = -1 /\ \A i \in 1 .. JobMax : run[i] = body(run[i - 1], i)
  <2> HIDE DEF body
  <2> QED BY <1>4, JobMaxAssumption
<1> QED BY <1>1, <1>5

(* The highest number among the candidates of the slots up to i, -1 if     *)
(* there are none.                                                         *)
Cand(T, want, except) == {s \in WithStatus(T, want) : T.jobs[s].id # except}
BestTo(T, C, i, a) ==
  /\ a = -1 \/ \E s \in C : s <= i /\ a = T.jobs[s].id
  /\ \A s \in C : s <= i => T.jobs[s].id <= a

LEMMA BestStep ==
  ASSUME NEW T \in Table, NEW want, NEW except,
         NEW i \in 1 .. JobMax, NEW a \in Int, BestTo(T, Cand(T, want, except), i - 1, a)
  PROVE  LET b == IF /\ T.jobs[i].pgid # 0 /\ T.jobs[i].id # except
                     /\ T.jobs[i].id > a /\ T.jobs[i].status = want
                  THEN T.jobs[i].id ELSE a
         IN  b \in Int /\ BestTo(T, Cand(T, want, except), i, b)
<1> DEFINE C == Cand(T, want, except)
<1>1. \A s \in C : s \in 1 .. JobMax /\ T.jobs[s].id \in Nat
  BY DEF Cand, WithStatus, Occupied, Slots, Table, Job
<1>2. i \in C <=> T.jobs[i].pgid # 0 /\ T.jobs[i].id # except /\ T.jobs[i].status = want
  BY DEF Cand, WithStatus, Occupied, Slots
<1>3. T.jobs[i].id \in Nat
  BY DEF Slots, Table, Job
<1>4. \A s \in C : s <= i <=> s <= i - 1 \/ s = i
  BY <1>1
<1>5. BestTo(T, C, i - 1, a)
  OBVIOUS
<1> HIDE DEF C
<1>6. LET b == IF i \in C /\ T.jobs[i].id > a THEN T.jobs[i].id ELSE a
      IN  b \in Int /\ BestTo(T, C, i, b)
  BY <1>1, <1>3, <1>4, <1>5 DEF BestTo
<1> QED BY <1>2, <1>6, Zenon DEF C

(* The pass finds the highest number of a candidate, or none.              *)
LEMMA BestRight ==
  ASSUME NEW T \in Table, NEW want, NEW except
  PROVE  LET cand == IdsOf(T, WithStatus(T, want)) \ {except}
         IN  best_loop(T, want, except) = IF cand = {} THEN -1 ELSE Greatest(cand)
<1> DEFINE C == Cand(T, want, except)
<1>1. PICK acc :
        /\ acc[0] = -1 /\ best_loop(T, want, except) = acc[JobMax]
        /\ \A i \in 1 .. JobMax :
             acc[i] = IF /\ T.jobs[i].pgid # 0 /\ T.jobs[i].id # except
                         /\ T.jobs[i].id > acc[i - 1] /\ T.jobs[i].status = want
                      THEN T.jobs[i].id ELSE acc[i - 1]
  BY BestRuns
<1>a. \A s \in C : s \in 1 .. JobMax /\ T.jobs[s].id \in Nat
  BY DEF Cand, WithStatus, Occupied, Slots, Table, Job
<1>b. IdsOf(T, WithStatus(T, want)) \ {except} = {T.jobs[s].id : s \in C}
  BY DEF IdsOf, Cand
<1> HIDE DEF C
<1> DEFINE I == [i \in 0 .. JobMax |-> {a \in Int : BestTo(T, C, i, a)}]
<1>2. \A i \in 0 .. JobMax : \A a : a \in I[i] <=> a \in Int /\ BestTo(T, C, i, a)
  OBVIOUS
<1> HIDE DEF I
<1>3. acc[0] \in I[0]
  <2>1. BestTo(T, C, 0, -1)
    BY <1>a DEF BestTo
  <2> QED BY <1>1, <1>2, <2>1, JobMaxAssumption
<1>4. ASSUME NEW i \in 1 .. JobMax, acc[i - 1] \in I[i - 1]
      PROVE  acc[i] \in I[i]
  <2>1. acc[i - 1] \in Int /\ BestTo(T, C, i - 1, acc[i - 1])
    BY <1>2, <1>4, JobMaxAssumption
  <2>2. acc[i] \in Int /\ BestTo(T, C, i, acc[i])
    BY <1>1, <2>1, BestStep DEF C
  <2> QED BY <1>2, <2>2
<1>5. acc[JobMax] \in I[JobMax]
  <2>1. \A i \in 0 .. JobMax : acc[i] \in I[i]
    BY <1>3, <1>4, JobMaxAssumption, LoopStays
  <2> QED BY <2>1, JobMaxAssumption
<1> DEFINE S == {T.jobs[s].id : s \in C}
<1>6. /\ acc[JobMax] \in Int
      /\ acc[JobMax] = -1 \/ acc[JobMax] \in S
      /\ \A x \in S : x <= acc[JobMax]
  <2>1. \A s \in C : s <= JobMax
    BY <1>a, JobMaxAssumption
  <2>2. BestTo(T, C, JobMax, acc[JobMax]) /\ acc[JobMax] \in Int
    BY <1>2, <1>5, JobMaxAssumption
  <2> QED BY <2>1, <2>2 DEF BestTo
<1>7. S \subseteq Nat
  BY <1>a
<1>8. acc[JobMax] = IF S = {} THEN -1 ELSE Greatest(S)
  <2> HIDE DEF S
  <2>1. CASE S = {}
    BY <1>6, <2>1
  <2>2. CASE S # {}
    <3>1. acc[JobMax] \in S
      <4>1. PICK x \in S : x \in Nat /\ x <= acc[JobMax]
        BY <1>6, <1>7, <2>2
      <4> QED BY <1>6, <4>1
    <3> QED BY <1>6, <1>7, <2>2, <3>1, GreatestIs
  <2> QED BY <2>1, <2>2
<1> QED BY <1>1, <1>b, <1>8

(* job_live_id elects the newest stopped job, else the newest running one. *)
LEMMA LiveIdRight ==
  ASSUME NEW T \in Table, NEW except
  PROVE  live_id_loop(T, except) = job_live_id(T, except)
<1> DEFINE cand(st) == IdsOf(T, WithStatus(T, st)) \ {except}
<1>1. ASSUME NEW st
      PROVE  /\ best_loop(T, st, except) = IF cand(st) = {} THEN -1 ELSE Greatest(cand(st))
             /\ best_loop(T, st, except) >= 0 <=> cand(st) # {}
  <2>1. best_loop(T, st, except) = IF cand(st) = {} THEN -1 ELSE Greatest(cand(st))
    BY BestRight
  <2>2. PICK b \in Nat : \A i \in Ids(T) : i <= b
    BY IdsAreNumbers
  <2>3. cand(st) \subseteq Nat /\ \A i \in cand(st) : i <= b
    <3>1. cand(st) \subseteq Ids(T)
      BY DEF IdsOf, Ids, WithStatus
    <3> QED BY <2>2, <3>1, IdsAreNumbers
  <2> HIDE DEF cand
  <2>4. cand(st) # {} => Greatest(cand(st)) \in cand(st)
    BY <2>3, NatHasGreatest
  <2> QED BY <2>1, <2>3, <2>4
<1>2. live_id_loop(T, except) =
        IF best_loop(T, "stopped", except) >= 0 THEN best_loop(T, "stopped", except)
        ELSE best_loop(T, "running", except)
  BY DEF live_id_loop
<1>3. job_live_id(T, except) = IF cand("stopped") # {} THEN Greatest(cand("stopped"))
                               ELSE IF cand("running") # {} THEN Greatest(cand("running"))
                               ELSE -1
  BY DEF job_live_id, NoJob
<1> HIDE DEF cand
<1> QED BY <1>1, <1>2, <1>3, Zenon

-----------------------------------------------------------------------------
(* Walking the numbers upwards.                                            *)

(* job_next_after: the loop that looks for the next number above id.       *)
LEMMA NextAfterRuns ==
  ASSUME NEW T \in Table, NEW id \in Nat
  PROVE  \E acc :
           /\ acc[0] = 0 /\ next_after_loop(T, id) = acc[JobMax]
           /\ \A i \in 1 .. JobMax :
                acc[i] = IF /\ T.jobs[i].pgid # 0 /\ T.jobs[i].id > id
                            /\ acc[i - 1] = 0 \/ T.jobs[i].id < acc[i - 1]
                         THEN T.jobs[i].id ELSE acc[i - 1]
<1> DEFINE body(best, s) == IF /\ T.jobs[s].pgid # 0 /\ T.jobs[s].id > id
                               /\ best = 0 \/ T.jobs[s].id < best
                            THEN T.jobs[s].id ELSE best
           F == [i \in 1 .. JobMax |-> [a \in Nat |-> body(a, i)]]
           Is(acc) == acc = [i \in 0 .. JobMax |-> IF i = 0 THEN 0 ELSE body(acc[i - 1], i)]
           run == CHOOSE acc : Is(acc)
<1>1. next_after_loop(T, id) = run[JobMax]
  BY Zenon DEF next_after_loop, For
<1>2. PICK acc \in [0 .. JobMax -> Nat] : Unrolls(acc, 0, F, JobMax)
  <2>1. \A i \in 1 .. JobMax, a \in Nat : body(a, i) \in Nat
    <3>1. \A i \in 1 .. JobMax : T.jobs[i].id \in Nat
      BY DEF Table, Job, Slots
    <3>2. \A i, a : body(a, i) \in {T.jobs[i].id, a}
      BY Zenon
    <3> HIDE DEF body
    <3> QED BY <3>1, <3>2
  <2>2. F \in [1 .. JobMax -> [Nat -> Nat]] /\ 0 \in Nat /\ JobMax \in Nat
    <3> HIDE DEF body
    <3> QED BY <2>1, JobMaxAssumption
  <2> HIDE DEF F
  <2> QED BY ONLY <2>2, LoopRuns
<1>3. Is(acc)
  <2>1. \A i \in 1 .. JobMax : F[i] = [a \in Nat |-> body(a, i)]
    OBVIOUS
  <2> HIDE DEF F, body
  <2>2. \A i \in 1 .. JobMax : acc[i] = body(acc[i - 1], i)
    BY <1>2, <2>1 DEF Unrolls
  <2>3. \A i \in 0 .. JobMax : i = 0 \/ i \in 1 .. JobMax
    BY JobMaxAssumption
  <2> QED BY <1>2, <2>2, <2>3 DEF Unrolls
<1>4. Is(run)
  <2> HIDE DEF Is
  <2> QED BY <1>3
<1> HIDE DEF run
<1>5. run[0] = 0 /\ \A i \in 1 .. JobMax : run[i] = body(run[i - 1], i)
  <2> HIDE DEF body
  <2> QED BY <1>4, JobMaxAssumption
<1> QED BY <1>1, <1>5

(* The lowest number above id in the slots up to i, 0 if there is none.    *)
NextTo(T, id, i, a) ==
  \/ a = 0 /\ \A s \in Occupied(T) : s <= i => T.jobs[s].id <= id
  \/ /\ a > id /\ \E s \in Occupied(T) : s <= i /\ a = T.jobs[s].id
     /\ \A s \in Occupied(T) : s <= i /\ T.jobs[s].id > id => a <= T.jobs[s].id

LEMMA NextAfterStep ==
  ASSUME NEW T \in Table, NEW id \in Nat,
         NEW i \in 1 .. JobMax, NEW a \in Nat, NextTo(T, id, i - 1, a)
  PROVE  LET b == IF /\ T.jobs[i].pgid # 0 /\ T.jobs[i].id > id
                     /\ a = 0 \/ T.jobs[i].id < a
                  THEN T.jobs[i].id ELSE a
         IN  b \in Nat /\ NextTo(T, id, i, b)
<1>1. \A s \in Occupied(T) : s \in 1 .. JobMax /\ T.jobs[s].id \in Nat
  BY DEF Occupied, Slots, Table, Job
<1>2. i \in Occupied(T) <=> T.jobs[i].pgid # 0
  BY DEF Occupied, Slots
<1>3. T.jobs[i].id \in Nat
  BY DEF Slots, Table, Job
<1>4. \A s \in Occupied(T) : s <= i <=> s <= i - 1 \/ s = i
  BY <1>1
<1>5. LET b == IF i \in Occupied(T) /\ T.jobs[i].id > id /\ (a = 0 \/ T.jobs[i].id < a)
               THEN T.jobs[i].id ELSE a
      IN  b \in Nat /\ NextTo(T, id, i, b)
  BY <1>1, <1>3, <1>4 DEF NextTo
<1> QED BY <1>2, <1>5, Zenon

(* r is the lowest number above id on the table, 0 if there is none.       *)
NextNumber(T, id, r) ==
  /\ r \in Ids(T) \cup {0}
  /\ r = 0 => \A x \in Ids(T) : x <= id
  /\ r # 0 => r > id /\ \A x \in Ids(T) : x > id => r <= x

LEMMA NextAfterRight ==
  ASSUME NEW T \in Table, NumbersUnique(T), NEW id \in Nat
  PROVE  NextNumber(T, id, next_after_loop(T, id))
<1>1. PICK acc :
        /\ acc[0] = 0 /\ next_after_loop(T, id) = acc[JobMax]
        /\ \A i \in 1 .. JobMax :
             acc[i] = IF /\ T.jobs[i].pgid # 0 /\ T.jobs[i].id > id
                         /\ acc[i - 1] = 0 \/ T.jobs[i].id < acc[i - 1]
                      THEN T.jobs[i].id ELSE acc[i - 1]
  BY NextAfterRuns
<1> DEFINE I == [i \in 0 .. JobMax |-> {a \in Nat : NextTo(T, id, i, a)}]
<1>2. \A i \in 0 .. JobMax : \A a : a \in I[i] <=> a \in Nat /\ NextTo(T, id, i, a)
  OBVIOUS
<1> HIDE DEF I
<1>3. acc[0] \in I[0]
  <2>1. \A s \in Occupied(T) : s \in 1 .. JobMax
    BY DEF Occupied, Slots
  <2>2. NextTo(T, id, 0, 0)
    BY <2>1 DEF NextTo
  <2> QED BY <1>1, <1>2, <2>2, JobMaxAssumption
<1>4. ASSUME NEW i \in 1 .. JobMax, acc[i - 1] \in I[i - 1]
      PROVE  acc[i] \in I[i]
  <2>1. acc[i - 1] \in Nat /\ NextTo(T, id, i - 1, acc[i - 1])
    BY <1>2, <1>4, JobMaxAssumption
  <2>2. acc[i] \in Nat /\ NextTo(T, id, i, acc[i])
    BY <1>1, <2>1, NextAfterStep
  <2> QED BY <1>2, <2>2
<1>5. acc[JobMax] \in Nat /\ NextTo(T, id, JobMax, acc[JobMax])
  <2>1. \A i \in 0 .. JobMax : acc[i] \in I[i]
    BY <1>3, <1>4, JobMaxAssumption, LoopStays
  <2> QED BY <1>2, <2>1, JobMaxAssumption
<1>6. \A s \in Occupied(T) : s <= JobMax /\ T.jobs[s].id \in Nat \ {0}
  BY JobMaxAssumption DEF Occupied, Slots, NumbersUnique, Table, Job
<1> QED BY <1>1, <1>5, <1>6 DEF NextTo, NextNumber, Ids, IdsOf

(* How many numbers of the table are at most a.                            *)
Rank(T, a) == Cardinality({y \in Ids(T) : y <= a})

LEMMA RankCounts ==
  ASSUME NEW T \in Table
  PROVE  /\ \A a \in Nat : Rank(T, a) \in Nat /\ Rank(T, a) <= JobMax
         /\ \A a \in Nat, b \in Ids(T) : a < b => Rank(T, a) + 1 <= Rank(T, b)
<1>1. Ids(T) \subseteq Nat
  BY IdsAreNumbers
<1>2. IsFiniteSet(Ids(T)) /\ Cardinality(Ids(T)) <= JobMax
  <2> DEFINE f == [s \in Occupied(T) |-> T.jobs[s].id]
  <2>1. f \in Surjection(Occupied(T), Ids(T))
    BY DEF Surjection, Ids, IdsOf
  <2>2. IsFiniteSet(Slots) /\ Cardinality(Slots) = JobMax
    <3>1. 1 \in Int /\ JobMax \in Int /\ ~ 1 > JobMax /\ JobMax - 1 + 1 = JobMax
      BY JobMaxAssumption
    <3> QED BY <3>1, FS_Interval DEF Slots
  <2>3. IsFiniteSet(Occupied(T)) /\ Cardinality(Occupied(T)) <= JobMax
        /\ Cardinality(Occupied(T)) \in Nat
    <3>1. Occupied(T) \in SUBSET Slots
      BY DEF Occupied
    <3> QED BY <2>2, <3>1, FS_Subset, FS_CardinalityType
  <2> HIDE DEF f
  <2>4. IsFiniteSet(Ids(T)) /\ Cardinality(Ids(T)) <= Cardinality(Occupied(T))
    BY <2>1, <2>3, FS_Surjection
  <2>5. Cardinality(Ids(T)) \in Nat
    BY <2>4, FS_CardinalityType
  <2> QED BY <2>3, <2>4, <2>5, JobMaxAssumption
<1>3. \A S \in SUBSET Ids(T) : IsFiniteSet(S) /\ Cardinality(S) \in Nat
                               /\ Cardinality(S) <= Cardinality(Ids(T))
  BY <1>2, FS_Subset, FS_CardinalityType
<1>4. ASSUME NEW a \in Nat
      PROVE  Rank(T, a) \in Nat /\ Rank(T, a) <= JobMax
  <2>1. {y \in Ids(T) : y <= a} \in SUBSET Ids(T)
    OBVIOUS
  <2>2. Cardinality(Ids(T)) \in Nat
    BY <1>3
  <2> QED BY <1>2, <1>3, <2>1, <2>2, JobMaxAssumption DEF Rank
<1>5. ASSUME NEW a \in Nat, NEW b \in Ids(T), a < b
      PROVE  Rank(T, a) + 1 <= Rank(T, b)
  <2> DEFINE A == {y \in Ids(T) : y <= a}
             B == {y \in Ids(T) : y <= b}
  <2>1. A \cup {b} \in SUBSET B /\ b \notin A /\ A \in SUBSET Ids(T) /\ B \in SUBSET Ids(T)
    BY <1>1, <1>5
  <2>2. Rank(T, a) = Cardinality(A) /\ Rank(T, b) = Cardinality(B)
    BY DEF Rank
  <2> HIDE DEF A, B
  <2>3. IsFiniteSet(A) /\ IsFiniteSet(B)
    BY <1>3, <2>1
  <2>4. Cardinality(A \cup {b}) = Cardinality(A) + 1
    BY <2>1, <2>3, FS_AddElement
  <2>5. Cardinality(A \cup {b}) <= Cardinality(B)
    BY <2>1, <2>3, FS_Subset
  <2> QED BY <2>2, <2>4, <2>5
<1> QED BY <1>4, <1>5

(* A listing's walk: every step asks for the next number.                  *)
LEMMA ListingRuns ==
  ASSUME NEW T \in Table, NumbersUnique(T)
  PROVE  \E acc \in [0 .. JobMax -> Nat] :
           /\ acc[0] = 0 /\ listing(T) = {acc[k] : k \in 1 .. JobMax} \ {0}
           /\ \A k \in 1 .. JobMax :
                acc[k] = IF k > 1 /\ acc[k - 1] = 0 THEN 0 ELSE next_after_loop(T, acc[k - 1])
<1> DEFINE step(a, k) == IF k > 1 /\ a = 0 THEN 0 ELSE next_after_loop(T, a)
           F == [k \in 1 .. JobMax |-> [a \in Nat |-> step(a, k)]]
           Is(acc) == acc = [k \in 0 .. JobMax |->
                               IF k = 0 THEN 0
                               ELSE IF k > 1 /\ acc[k - 1] = 0 THEN 0
                               ELSE next_after_loop(T, acc[k - 1])]
           run == CHOOSE acc : Is(acc)
<1>1. listing(T) = {run[k] : k \in 1 .. JobMax} \ {0}
  BY Zenon DEF listing
<1>2. \A k \in 1 .. JobMax, a \in Nat : step(a, k) \in Nat
  <2>1. \A a \in Nat : next_after_loop(T, a) \in Nat
    BY NextAfterRight, IdsAreNumbers DEF NextNumber
  <2> QED BY <2>1
<1>3. PICK acc \in [0 .. JobMax -> Nat] : Unrolls(acc, 0, F, JobMax)
  <2>1. F \in [1 .. JobMax -> [Nat -> Nat]] /\ 0 \in Nat /\ JobMax \in Nat
    <3> HIDE DEF step
    <3> QED BY <1>2, JobMaxAssumption
  <2> HIDE DEF F
  <2> QED BY ONLY <2>1, LoopRuns
<1>4. Is(acc)
  <2>1. \A k \in 1 .. JobMax : F[k] = [a \in Nat |-> step(a, k)]
    OBVIOUS
  <2> HIDE DEF F
  <2>2. \A k \in 1 .. JobMax : acc[k] = step(acc[k - 1], k)
    <3> HIDE DEF step
    <3> QED BY <1>3, <2>1 DEF Unrolls
  <2>3. \A k \in 0 .. JobMax : k = 0 \/ k \in 1 .. JobMax
    BY JobMaxAssumption
  <2> QED BY <1>3, <2>2, <2>3 DEF Unrolls
<1>5. Is(run)
  <2> HIDE DEF Is
  <2> QED BY <1>4
<1> HIDE DEF run
<1>6. run[0] = 0 /\ \A k \in 1 .. JobMax : run[k] = step(run[k - 1], k)
  BY <1>5, JobMaxAssumption
<1>7. run \in [0 .. JobMax -> Nat]
  <2> DEFINE I == [i \in 0 .. JobMax |-> Nat]
  <2>1. \A i \in 0 .. JobMax : I[i] = Nat
    OBVIOUS
  <2>2. \A i \in 1 .. JobMax : i \in 0 .. JobMax /\ i - 1 \in 0 .. JobMax
    BY JobMaxAssumption
  <2> HIDE DEF I, step
  <2>3. run[0] \in I[0]
    <3>1. run[0] = 0
      BY <1>6
    <3>2. 0 \in 0 .. JobMax
      BY JobMaxAssumption
    <3> QED BY ONLY <2>1, <3>1, <3>2
  <2>4. ASSUME NEW i \in 1 .. JobMax, run[i - 1] \in I[i - 1]
        PROVE  run[i] \in I[i]
    <3>1. run[i - 1] \in Nat
      BY <2>1, <2>2, <2>4
    <3>2. run[i] = step(run[i - 1], i)
      BY <1>6
    <3>3. run[i] \in Nat
      BY <1>2, <3>1, <3>2
    <3> QED BY <2>1, <2>2, <3>3
  <2>5. \A i \in 0 .. JobMax : run[i] \in I[i]
    BY <2>3, <2>4, JobMaxAssumption, LoopStays
  <2> QED BY <1>5, <2>1, <2>5
<1> QED BY <1>1, <1>6, <1>7

(* The listing goes through every job of the table, and nothing else.      *)
LEMMA ListingRight ==
  ASSUME NEW T \in Table, NumbersUnique(T)
  PROVE  listing(T) = Ids(T)
<1>1. PICK acc \in [0 .. JobMax -> Nat] :
        /\ acc[0] = 0 /\ listing(T) = {acc[k] : k \in 1 .. JobMax} \ {0}
        /\ \A k \in 1 .. JobMax :
             acc[k] = IF k > 1 /\ acc[k - 1] = 0 THEN 0 ELSE next_after_loop(T, acc[k - 1])
  BY ListingRuns
<1>2. \A k \in 1 .. JobMax : acc[k - 1] \in Nat
  <2>1. \A k \in 1 .. JobMax : k - 1 \in 0 .. JobMax
    BY JobMaxAssumption
  <2> QED BY <2>1
<1>3. Ids(T) \subseteq Nat \ {0}
  <2>1. \A s \in Occupied(T) : T.jobs[s].id \in Nat \ {0}
    BY DEF Occupied, NumbersUnique, Table, Job
  <2> QED BY <2>1 DEF Ids, IdsOf
<1>4. listing(T) \subseteq Ids(T)
  <2>1. \A k \in 1 .. JobMax : acc[k] \in Ids(T) \cup {0}
    <3>1. \A a \in Nat : next_after_loop(T, a) \in Ids(T) \cup {0}
      BY NextAfterRight DEF NextNumber
    <3> QED BY <1>1, <1>2, <3>1
  <2> QED BY <1>1, <2>1
<1>5. ASSUME NEW x \in Ids(T), x \notin listing(T)
      PROVE  FALSE
  <2> DEFINE I == [k \in 0 .. JobMax |-> {a \in Nat : a < x /\ k <= Rank(T, a)}]
  <2>1. \A k \in 0 .. JobMax : \A a : a \in I[k] <=> a \in Nat /\ a < x /\ k <= Rank(T, a)
    OBVIOUS
  <2> HIDE DEF I
  <2>2. acc[0] \in I[0]
    <3>1. 0 <= Rank(T, 0)
      BY RankCounts
    <3> QED BY <1>1, <1>3, <2>1, <3>1, JobMaxAssumption
  <2>3. ASSUME NEW k \in 1 .. JobMax, acc[k - 1] \in I[k - 1]
        PROVE  acc[k] \in I[k]
    <3>1. acc[k - 1] \in Nat /\ acc[k - 1] < x /\ k - 1 <= Rank(T, acc[k - 1])
      BY <2>1, <2>3, JobMaxAssumption
    <3>2. acc[k] = next_after_loop(T, acc[k - 1])
      <4>1. Rank(T, 0) = 0
        <5>1. {y \in Ids(T) : y <= 0} = {}
          BY <1>3
        <5> QED BY <5>1, FS_EmptySet DEF Rank
      <4>2. ~ (k > 1 /\ acc[k - 1] = 0)
        BY <3>1, <4>1
      <4> QED BY <1>1, <4>2
    <3>3. NextNumber(T, acc[k - 1], acc[k])
      BY <3>1, <3>2, NextAfterRight
    <3>4. acc[k] \in Ids(T) /\ acc[k] > acc[k - 1] /\ acc[k] <= x
      BY <1>3, <3>1, <3>3 DEF NextNumber
    <3>5. acc[k] # x
      BY <1>1, <1>3, <1>5
    <3>6. Rank(T, acc[k - 1]) + 1 <= Rank(T, acc[k])
          /\ Rank(T, acc[k - 1]) \in Nat /\ Rank(T, acc[k]) \in Nat
      BY <1>3, <3>1, <3>4, RankCounts
    <3> QED BY <1>3, <2>1, <3>1, <3>4, <3>5, <3>6
  <2>4. acc[JobMax] \in I[JobMax]
    <3>1. \A k \in 0 .. JobMax : acc[k] \in I[k]
      BY <2>2, <2>3, JobMaxAssumption, LoopStays
    <3> QED BY <3>1, JobMaxAssumption
  <2>5. acc[JobMax] \in Nat /\ acc[JobMax] < x /\ JobMax <= Rank(T, acc[JobMax])
    BY <2>1, <2>4, JobMaxAssumption
  <2>6. Rank(T, acc[JobMax]) + 1 <= Rank(T, x) /\ Rank(T, x) <= JobMax
        /\ Rank(T, x) \in Nat /\ Rank(T, acc[JobMax]) \in Nat
    BY <1>3, <2>5, RankCounts
  <2> QED BY <2>5, <2>6, JobMaxAssumption
<1> QED BY <1>4, <1>5

(* The walk to the first job still alive.                                  *)
WalkStep(T, a) ==
  IF a = 0 THEN 0
  ELSE IF job_find_id(T, a) \cap Unfinished(T) # {} THEN a
  ELSE next_after_loop(T, a)

LEMMA WalkRuns ==
  ASSUME NEW T \in Table, NumbersUnique(T)
  PROVE  \E acc :
           /\ acc[0] = next_after_loop(T, 0) /\ first_unfinished_loop(T) = acc[JobMax]
           /\ \A k \in 1 .. JobMax : acc[k] = WalkStep(T, acc[k - 1])
<1> DEFINE first == next_after_loop(T, 0)
           F == [k \in 1 .. JobMax |-> [a \in Nat |-> WalkStep(T, a)]]
           Is(acc) == acc = [k \in 0 .. JobMax |->
                               IF k = 0 THEN next_after_loop(T, 0)
                               ELSE IF acc[k - 1] = 0 THEN 0
                               ELSE IF job_find_id(T, acc[k - 1]) \cap Unfinished(T) # {}
                                    THEN acc[k - 1]
                               ELSE next_after_loop(T, acc[k - 1])]
           Goes(acc) == acc = [k \in 0 .. JobMax |->
                                 IF k = 0 THEN first ELSE WalkStep(T, acc[k - 1])]
           run == CHOOSE acc : Is(acc)
<1>1. first_unfinished_loop(T) = run[JobMax]
  BY Zenon DEF first_unfinished_loop
<1>2. \A a \in Nat : next_after_loop(T, a) \in Nat
  BY NextAfterRight, IdsAreNumbers DEF NextNumber
<1>3. PICK acc \in [0 .. JobMax -> Nat] : Unrolls(acc, first, F, JobMax)
  <2>1. \A a \in Nat : WalkStep(T, a) \in Nat
    BY <1>2 DEF WalkStep
  <2>2. F \in [1 .. JobMax -> [Nat -> Nat]] /\ first \in Nat /\ JobMax \in Nat
    BY <1>2, <2>1, JobMaxAssumption
  <2> HIDE DEF F, first
  <2> QED BY ONLY <2>2, LoopRuns
<1>4. Goes(acc)
  <2>1. \A k \in 1 .. JobMax : F[k] = [a \in Nat |-> WalkStep(T, a)]
    OBVIOUS
  <2> HIDE DEF F, first
  <2>2. \A k \in 1 .. JobMax : acc[k] = WalkStep(T, acc[k - 1])
    BY <1>3, <2>1 DEF Unrolls
  <2>3. \A k \in 0 .. JobMax : k = 0 \/ k \in 1 .. JobMax
    BY JobMaxAssumption
  <2> QED BY <1>3, <2>2, <2>3 DEF Unrolls
<1>5. \A f : Is(f) <=> Goes(f)
  BY DEF WalkStep
<1>6. Goes(run)
  <2> HIDE DEF Is, Goes
  <2>1. Is(acc)
    BY <1>4, <1>5
  <2>2. Is(run)
    BY <2>1
  <2> QED BY <1>5, <2>2
<1> HIDE DEF run, Is
<1>7. run[0] = first /\ \A k \in 1 .. JobMax : run[k] = WalkStep(T, run[k - 1])
  <2> HIDE DEF first
  <2> QED BY <1>6, JobMaxAssumption
<1> QED BY <1>1, <1>7

(* m is the number of the first job still alive, 0 if none is.             *)
FirstAlive(T, m) ==
  LET alive == IdsOf(T, Unfinished(T))
  IN  IF alive = {} THEN m = 0 ELSE m \in alive /\ \A u \in alive : m <= u

(* a is below every job still alive and not among the first j numbers.     *)
Below(T, j, a) ==
  a \in Nat /\ (\A u \in IdsOf(T, Unfinished(T)) : a < u) /\ j <= Rank(T, a)

LEMMA WalkAdvances ==
  ASSUME NEW T \in Table, NumbersUnique(T), NEW m, FirstAlive(T, m),
         NEW j \in Nat, NEW a, Below(T, j, a), NEW y, NextNumber(T, a, y)
  PROVE  y = m \/ (y # 0 /\ Below(T, j + 1, y))
<1> DEFINE alive == IdsOf(T, Unfinished(T))
<1>1. Ids(T) \subseteq Nat \ {0} /\ alive \subseteq Ids(T)
  <2>1. \A s \in Occupied(T) : T.jobs[s].id \in Nat \ {0}
    BY DEF Occupied, NumbersUnique, Table, Job
  <2> QED BY <2>1 DEF Ids, IdsOf, Unfinished
<1>2. IF alive = {} THEN m = 0 ELSE m \in alive /\ \A u \in alive : m <= u
  BY DEF FirstAlive
<1>3. a \in Nat /\ (\A u \in alive : a < u) /\ j <= Rank(T, a)
  BY DEF Below
<1> HIDE DEF alive
<1>4. CASE y = 0
  <2>1. \A x \in Ids(T) : x <= a
    BY <1>4 DEF NextNumber
  <2>2. alive = {}
    BY <1>1, <1>3, <2>1
  <2> QED BY <1>2, <1>4, <2>2
<1>5. CASE y # 0
  <2>1. y \in Ids(T) /\ y > a /\ \A x \in Ids(T) : x > a => y <= x
    BY <1>5 DEF NextNumber
  <2>2. \A u \in alive : y <= u
    BY <1>1, <1>3, <2>1
  <2>3. CASE y \in alive
    <3>1. m \in alive /\ m <= y /\ y <= m
      BY <1>2, <2>2, <2>3
    <3> QED BY <1>1, <2>3, <3>1
  <2>4. CASE y \notin alive
    <3>1. \A u \in alive : y < u
      BY <1>1, <2>1, <2>2, <2>4
    <3>2. Rank(T, a) + 1 <= Rank(T, y) /\ Rank(T, a) \in Nat /\ Rank(T, y) \in Nat
      BY <1>1, <1>3, <2>1, RankCounts
    <3>3. j + 1 <= Rank(T, y) /\ y \in Nat
      BY <1>1, <1>3, <2>1, <3>2
    <3> QED BY <1>5, <3>1, <3>3 DEF Below, alive
  <2> QED BY <2>3, <2>4
<1> QED BY <1>4, <1>5

(* job_first_unfinished finds the lowest-numbered job still alive.         *)
LEMMA WalkRight ==
  ASSUME NEW T \in Table, NumbersUnique(T), NEW m, FirstAlive(T, m)
  PROVE  first_unfinished_loop(T) = m
<1>1. PICK acc :
        /\ acc[0] = next_after_loop(T, 0) /\ first_unfinished_loop(T) = acc[JobMax]
        /\ \A k \in 1 .. JobMax : acc[k] = WalkStep(T, acc[k - 1])
  BY WalkRuns
<1> DEFINE alive == IdsOf(T, Unfinished(T))
           I == [k \in 0 .. JobMax |-> {m} \cup {a \in Nat : a # 0 /\ Below(T, k + 1, a)}]
<1>2. \A k \in 0 .. JobMax : \A a : a \in I[k] <=> a = m \/ (a # 0 /\ Below(T, k + 1, a))
  BY DEF Below
<1> HIDE DEF I
<1>3. alive \subseteq Nat \ {0}
  BY DEF IdsOf, Unfinished, Occupied, NumbersUnique, Table, Job
<1>4. acc[0] \in I[0]
  <2>1. Below(T, 0, 0)
    <3>1. Rank(T, 0) \in Nat
      BY RankCounts
    <3> QED BY <1>3, <3>1 DEF Below
  <2>2. NextNumber(T, 0, acc[0])
    BY <1>1, NextAfterRight
  <2>3. acc[0] = m \/ (acc[0] # 0 /\ Below(T, 0 + 1, acc[0]))
    BY <2>1, <2>2, WalkAdvances
  <2> QED BY <1>2, <2>3, JobMaxAssumption
<1>5. ASSUME NEW k \in 1 .. JobMax, acc[k - 1] \in I[k - 1]
      PROVE  acc[k] \in I[k]
  <2>1. acc[k - 1] = m \/ (acc[k - 1] # 0 /\ Below(T, k, acc[k - 1]))
    <3>1. k - 1 \in 0 .. JobMax /\ (k - 1) + 1 = k
      BY JobMaxAssumption
    <3> QED BY <1>2, <1>5, <3>1
  <2>2. acc[k] = WalkStep(T, acc[k - 1])
    BY <1>1
  <2>3. \A a : job_find_id(T, a) \cap Unfinished(T) # {} <=> a \in alive
    BY DEF job_find_id, IdsOf, Unfinished
  <2>4. CASE acc[k - 1] = m
    <3>1. m = 0 \/ m \in alive
      BY DEF FirstAlive
    <3>2. acc[k] = m
      BY <2>2, <2>3, <2>4, <3>1 DEF WalkStep
    <3> QED BY <1>2, <3>2, JobMaxAssumption
  <2>5. CASE acc[k - 1] # 0 /\ Below(T, k, acc[k - 1])
    <3>1. acc[k - 1] \in Nat /\ acc[k - 1] \notin alive
      BY <1>3, <2>5 DEF Below
    <3>2. acc[k] = next_after_loop(T, acc[k - 1])
      BY <2>2, <2>3, <2>5, <3>1 DEF WalkStep
    <3>3. NextNumber(T, acc[k - 1], acc[k])
      BY <3>1, <3>2, NextAfterRight
    <3>4. acc[k] = m \/ (acc[k] # 0 /\ Below(T, k + 1, acc[k]))
      BY <2>5, <3>3, WalkAdvances
    <3> QED BY <1>2, <3>4, JobMaxAssumption
  <2> QED BY <2>1, <2>4, <2>5
<1>6. acc[JobMax] \in I[JobMax]
  <2>1. \A k \in 0 .. JobMax : acc[k] \in I[k]
    BY <1>4, <1>5, JobMaxAssumption, LoopStays
  <2> QED BY <2>1, JobMaxAssumption
<1>7. ~ Below(T, JobMax + 1, acc[JobMax])
  <2> SUFFICES ASSUME Below(T, JobMax + 1, acc[JobMax]) PROVE FALSE
    OBVIOUS
  <2>1. acc[JobMax] \in Nat /\ JobMax + 1 <= Rank(T, acc[JobMax])
    BY DEF Below
  <2>2. Rank(T, acc[JobMax]) \in Nat /\ Rank(T, acc[JobMax]) <= JobMax
    BY <2>1, RankCounts
  <2> QED BY <2>1, <2>2, JobMaxAssumption
<1> QED BY <1>1, <1>2, <1>6, <1>7, JobMaxAssumption

(* The search for a job still alive, as JobTable puts it.                  *)
LEMMA FirstUnfinishedRight ==
  ASSUME NEW T \in Table, NumbersUnique(T)
  PROVE  /\ Unfinished(T) = {} => first_unfinished_loop(T) = 0
         /\ Unfinished(T) # {} =>
              first_unfinished_loop(T) = T.jobs[ByNumber(T, Unfinished(T))].id
<1>1. CASE Unfinished(T) = {}
  <2>1. FirstAlive(T, 0)
    BY <1>1 DEF FirstAlive, IdsOf
  <2> QED BY <1>1, <2>1, WalkRight
<1>2. CASE Unfinished(T) # {}
  <2> DEFINE alive == IdsOf(T, Unfinished(T))
  <2>1. alive \subseteq Nat /\ alive # {}
    BY <1>2 DEF IdsOf, Unfinished, Occupied, Table, Job
  <2>2. PICK n \in alive : \A u \in alive : n <= u
    <3> HIDE DEF alive
    <3> QED BY <2>1, NatHasLeast
  <2>3. \E s \in Unfinished(T) : \A t \in Unfinished(T) : T.jobs[s].id <= T.jobs[t].id
    BY <2>2 DEF IdsOf
  <2>4. /\ ByNumber(T, Unfinished(T)) \in Unfinished(T)
        /\ \A t \in Unfinished(T) : T.jobs[ByNumber(T, Unfinished(T))].id <= T.jobs[t].id
    BY <2>3 DEF ByNumber
  <2>5. FirstAlive(T, T.jobs[ByNumber(T, Unfinished(T))].id)
    BY <2>1, <2>4 DEF FirstAlive, IdsOf
  <2> QED BY <1>2, <2>5, WalkRight
<1> QED BY <1>1, <1>2

(* Every search of the code finds what JobTable says it finds.             *)
LEMMA SearchesRight ==
  ASSUME NEW T, TableOK(T)
  PROVE  SearchesAgree(T)
BY NextIdRight, LiveIdRight, ListingRight, FirstUnfinishedRight DEF SearchesAgree, TableOK

(* Two tables with the same fields are the same table.                     *)
LEMMA TableExt ==
  ASSUME NEW T \in Table, NEW U \in Table,
         T.jobs = U.jobs, T.count = U.count, T.current = U.current, T.previous = U.previous
  PROVE  T = U
BY DEF Table

(* One election after one removal: the code's order of tests and           *)
(* assignments, and the expression of JobTable.                            *)
LEMMA ReelectRight ==
  ASSUME NEW T \in Table, NumbersUnique(T), NEW gone
  PROVE  reelect_after(T, gone) = job_reelect(T, {gone})
<1> DEFINE cur == job_find_id(T, T.current)
           keep == /\ T.current \notin {gone}
                   /\ cur # {}
                   /\ \A s \in cur : T.jobs[s].status = "stopped"
           plus == IF keep THEN T.current ELSE job_live_id(T, NoJob)
           minus == IF plus < 0 THEN NoJob
                    ELSE IF T.previous \notin Ids(T) \/ T.previous = plus
                         THEN job_live_id(T, plus)
                    ELSE T.previous
           stays == T.current # gone
                    /\ \E s \in job_find_id(T, T.current) : T.jobs[s].status = "stopped"
           U == IF stays THEN T ELSE [T EXCEPT !.current = live_id_loop(T, -1)]
<1>1. job_reelect(T, {gone}) =
        IF {T.current, T.previous} \cap {gone} = {} THEN T
        ELSE [T EXCEPT !.current = plus, !.previous = minus]
  BY Zenon DEF job_reelect
<1>2. reelect_after(T, gone) =
        IF T.current # gone /\ T.previous # gone THEN T
        ELSE IF U.current < 0 THEN [U EXCEPT !.previous = -1]
        ELSE IF job_find_id(U, U.previous) = {} \/ U.previous = U.current
             THEN [U EXCEPT !.previous = live_id_loop(U, U.current)]
        ELSE U
  BY Zenon DEF reelect_after
<1>3. stays <=> keep
  <2>1. \A s, t \in cur : s = t
    BY DEF job_find_id, NumbersUnique
  <2>2. cur = job_find_id(T, T.current)
    OBVIOUS
  <2> HIDE DEF cur
  <2> QED BY <2>1, <2>2, Zenon
<1>4. plus \in Int
  <2>1. T.current \in Int
    BY DEF Table
  <2>2. job_live_id(T, NoJob) \in Int
    BY LiveIdElects, IdsAreNumbers DEF NoJob
  <2> HIDE DEF keep
  <2> QED BY <2>1, <2>2
<1>5. live_id_loop(T, -1) = job_live_id(T, NoJob)
  BY LiveIdRight DEF NoJob
<1> HIDE DEF keep, stays
<1>6. U = [T EXCEPT !.current = plus]
  <2>1. CASE keep
    <3>1. U = T /\ plus = T.current
      BY <1>3, <2>1
    <3> QED BY <3>1 DEF Table
  <2>2. CASE ~ keep
    BY <1>3, <1>5, <2>2
  <2> QED BY <2>1, <2>2
<1> HIDE DEF plus, U
<1>7. /\ U \in Table /\ U.jobs = T.jobs /\ U.count = T.count
      /\ U.current = plus /\ U.previous = T.previous
  BY <1>4, <1>6 DEF Table
<1>8. \A x : job_find_id(U, x) = job_find_id(T, x) /\ job_live_id(U, x) = job_live_id(T, x)
  BY <1>7 DEF job_find_id, job_live_id, WithStatus, Occupied, IdsOf
<1>9. job_find_id(T, T.previous) = {} <=> T.previous \notin Ids(T)
  BY DEF job_find_id, Ids, IdsOf
<1>10. live_id_loop(U, plus) = job_live_id(T, plus)
  BY <1>7, <1>8, LiveIdRight
<1>11. CASE T.current # gone /\ T.previous # gone
  BY <1>1, <1>2, <1>11
<1>12. CASE ~ (T.current # gone /\ T.previous # gone)
  <2>1. job_reelect(T, {gone}) = [T EXCEPT !.current = plus, !.previous = minus]
    BY <1>1, <1>12
  <2>2. reelect_after(T, gone) = [U EXCEPT !.previous = minus]
    <3>1. CASE plus < 0
      BY <1>2, <1>7, <1>12, <3>1 DEF NoJob
    <3>2. CASE ~ plus < 0 /\ (T.previous \notin Ids(T) \/ T.previous = plus)
      BY <1>2, <1>7, <1>8, <1>9, <1>10, <1>12, <3>2
    <3>3. CASE ~ plus < 0 /\ ~ (T.previous \notin Ids(T) \/ T.previous = plus)
      <4>1. reelect_after(T, gone) = U /\ minus = U.previous
        BY <1>2, <1>7, <1>8, <1>9, <1>12, <3>3
      <4> QED BY <1>7, <4>1 DEF Table
    <3> QED BY <3>1, <3>2, <3>3
  <2> HIDE DEF minus
  <2> QED BY <1>6, <2>1, <2>2
<1> QED BY <1>11, <1>12

(* The table once the slots S are zeroed, before any election.             *)
Zeroed(T, S) ==
  [T EXCEPT !.jobs = [s \in Slots |-> IF s \in S THEN FreeSlot ELSE T.jobs[s]],
            !.count = @ - Cardinality(S)]

LEMMA ZeroedIs ==
  ASSUME NEW T \in Table, NEW S, S \subseteq Occupied(T)
  PROVE  /\ Zeroed(T, S) \in Table
         /\ Zeroed(T, S).jobs = [s \in Slots |-> IF s \in S THEN FreeSlot ELSE T.jobs[s]]
         /\ Zeroed(T, S).count = T.count - Cardinality(S)
         /\ Zeroed(T, S).current = T.current /\ Zeroed(T, S).previous = T.previous
<1> DEFINE new == [s \in Slots |-> IF s \in S THEN FreeSlot ELSE T.jobs[s]]
           n == T.count - Cardinality(S)
<1>1. FreeSlot \in Job
  BY DEF Job, FreeSlot, JobStatus, StatusWord, NoStatus
<1>2. new \in [Slots -> Job]
  BY <1>1 DEF Table
<1>3. n \in Int
  BY SlotsFinite DEF Table, Occupied
<1>4. Zeroed(T, S) = [T EXCEPT !.jobs = new, !.count = n]
  BY DEF Zeroed
<1> HIDE DEF new, n
<1>5. Zeroed(T, S) = [jobs |-> new, count |-> n, current |-> T.current, previous |-> T.previous]
  BY <1>4 DEF Table
<1> QED BY <1>2, <1>3, <1>5 DEF Table, new, n

(* job_remove: the first slot that holds the number is zeroed, and the     *)
(* markers are handed on.                                                  *)
LEMMA RemoveOneRight ==
  ASSUME NEW T, TableOK(T), NEW s \in Occupied(T)
  PROVE  remove_one(T, T.jobs[s].id) = job_remove(T, {s})
<1> DEFINE id == T.jobs[s].id
           Z == Zeroed(T, {s})
<1>1. T \in Table /\ NumbersUnique(T) /\ s \in Slots
  BY DEF TableOK, Occupied
<1>2. job_find_id(T, id) = {s} /\ Least({s}) = s
  <2>1. job_find_id(T, id) = {s}
    BY <1>1 DEF job_find_id, NumbersUnique
  <2>2. Least({s}) \in {s}
    <3>1. {s} \subseteq Nat /\ {s} # {}
      BY <1>1 DEF Slots
    <3> QED BY <3>1, LeastIsLeast
  <2> QED BY <2>1, <2>2
<1>3. IdsOf(T, {s}) = {id} /\ Cardinality({s}) = 1
  BY FS_Singleton DEF IdsOf
<1>4. Z = [T EXCEPT !.jobs[s] = FreeSlot, !.count = @ - 1]
  <2>1. [r \in Slots |-> IF r \in {s} THEN FreeSlot ELSE T.jobs[r]]
          = [T.jobs EXCEPT ![s] = FreeSlot]
    BY <1>1 DEF Table
  <2> QED BY <1>3, <2>1, Zenon DEF Zeroed
<1>5. Z \in Table /\ NumbersUnique(Z)
  <2>1. Z \in Table /\ Z.jobs = [r \in Slots |-> IF r \in {s} THEN FreeSlot ELSE T.jobs[r]]
    BY <1>1, ZeroedIs
  <2> HIDE DEF Z
  <2>2. \A r \in Occupied(Z) : r \in Occupied(T) /\ Z.jobs[r] = T.jobs[r]
    BY <2>1 DEF Occupied, FreeSlot
  <2> QED BY <1>1, <2>1, <2>2 DEF NumbersUnique
<1>6. remove_one(T, id) = reelect_after(Z, id)
  BY <1>2, <1>4, Zenon DEF remove_one
<1>7. job_remove(T, {s}) = job_reelect(Z, {id})
  BY <1>3, Zenon DEF job_remove, Zeroed
<1> QED BY <1>5, <1>6, <1>7, ReelectRight

(* Who has '+' and '-' after an election in which the numbers gone left:   *)
(* a stopped '+' stays, and neither depends on the order of the removals.  *)
HoldsPlus(T) == \E s \in WithStatus(T, "stopped") : T.jobs[s].id = T.current
Plus(T) == IF HoldsPlus(T) THEN T.current ELSE job_live_id(T, NoJob)
Minus(T, gone) ==
  IF Plus(T) < 0 THEN NoJob
  ELSE IF T.previous \notin Ids(T) \ gone \/ T.previous = Plus(T) THEN job_live_id(T, Plus(T))
  ELSE T.previous

(* job_live_id elects a job that is alive, or none.                        *)
LEMMA LiveIdAlive ==
  ASSUME NEW T \in Table, NEW e
  PROVE  job_live_id(T, e) \in IdsOf(T, Unfinished(T)) \cup {NoJob}
<1> DEFINE cand(st) == IdsOf(T, WithStatus(T, st)) \ {e}
<1>1. PICK b \in Nat : \A i \in Ids(T) : i <= b
  BY IdsAreNumbers
<1>2. ASSUME NEW st, cand(st) # {}
      PROVE  Greatest(cand(st)) \in cand(st)
  <2>1. cand(st) \subseteq Ids(T)
    BY DEF IdsOf, Ids, WithStatus
  <2>2. cand(st) \subseteq Nat /\ \A i \in cand(st) : i <= b
    BY <1>1, <2>1, IdsAreNumbers
  <2> HIDE DEF cand
  <2> QED BY <1>2, <2>2, NatHasGreatest
<1>3. \A st : st \notin {"done", "killed"} => cand(st) \subseteq IdsOf(T, Unfinished(T))
  BY DEF IdsOf, WithStatus, Unfinished, Finished, job_finished
<1>4. job_live_id(T, e) = IF cand("stopped") # {} THEN Greatest(cand("stopped"))
                          ELSE IF cand("running") # {} THEN Greatest(cand("running"))
                          ELSE NoJob
  BY DEF job_live_id
<1>5. "stopped" \notin {"done", "killed"} /\ "running" \notin {"done", "killed"}
  OBVIOUS
<1> HIDE DEF cand
<1> QED BY <1>2, <1>3, <1>4, <1>5, Zenon

(* W has the slots D of T zeroed.                                          *)
JobsFreed(T, D, W) == W.jobs = [s \in Slots |-> IF s \in D THEN FreeSlot ELSE T.jobs[s]]

(* W has the jobs of T without those in D, and would elect the same ones.  *)
LivesOn(T, D, W) ==
  /\ Occupied(W) = Occupied(T) \ D
  /\ Finished(W) = Finished(T) \ D
  /\ Ids(W) = Ids(T) \ IdsOf(T, D)
  /\ WithStatus(W, "stopped") = WithStatus(T, "stopped")
  /\ \A e : job_live_id(W, e) = job_live_id(T, e)

(* Zeroing finished jobs leaves the live ones, and who would be elected.   *)
LEMMA ZeroedLives ==
  ASSUME NEW T, TableOK(T), NEW D, D \subseteq Finished(T), NEW W \in Table,
         JobsFreed(T, D, W)
  PROVE  LivesOn(T, D, W)
<1>1. T \in Table /\ NumbersUnique(T) /\ D \subseteq Occupied(T)
  BY DEF TableOK, Finished
<1>2. Occupied(W) = Occupied(T) \ D /\ \A s \in Occupied(W) : W.jobs[s] = T.jobs[s]
  BY <1>1 DEF JobsFreed, Occupied, FreeSlot
<1>3. Finished(W) = Finished(T) \ D
  BY <1>2 DEF Finished
<1>4. Ids(W) = Ids(T) \ IdsOf(T, D)
  <2>1. \A s \in Occupied(T) \ D : T.jobs[s].id \notin IdsOf(T, D)
    BY <1>1 DEF NumbersUnique, IdsOf
  <2> QED BY <1>2, <2>1 DEF Ids, IdsOf
<1>5. ASSUME NEW st, st \notin {"done", "killed"}
      PROVE  WithStatus(W, st) = WithStatus(T, st)
             /\ IdsOf(W, WithStatus(W, st)) = IdsOf(T, WithStatus(T, st))
  <2>1. \A s \in D : T.jobs[s].status # st
    BY <1>5 DEF Finished, job_finished
  <2>2. WithStatus(W, st) = WithStatus(T, st)
    BY <1>1, <1>2, <2>1 DEF WithStatus
  <2>3. \A s \in WithStatus(T, st) : W.jobs[s].id = T.jobs[s].id
    BY <1>2, <2>2 DEF WithStatus
  <2> QED BY <2>2, <2>3 DEF IdsOf
<1>6. "stopped" \notin {"done", "killed"} /\ "running" \notin {"done", "killed"}
  OBVIOUS
<1>7. \A e : job_live_id(W, e) = job_live_id(T, e)
  <2>1. IdsOf(W, WithStatus(W, "stopped")) = IdsOf(T, WithStatus(T, "stopped"))
    BY <1>5, <1>6, Zenon
  <2>2. IdsOf(W, WithStatus(W, "running")) = IdsOf(T, WithStatus(T, "running"))
    BY <1>5, <1>6, Zenon
  <2> QED BY ONLY <2>1, <2>2, Zenon DEF job_live_id
<1> QED BY <1>2, <1>3, <1>4, <1>5, <1>6, <1>7, Zenon DEF LivesOn

(* What a removal of finished jobs makes of a table.                       *)
RemovedIs(T, D, W) ==
  /\ JobsFreed(T, D, W)
  /\ W.count = T.count - Cardinality(D)
  /\ {T.current, T.previous} \cap IdsOf(T, D) = {} =>
       W.current = T.current /\ W.previous = T.previous
  /\ {T.current, T.previous} \cap IdsOf(T, D) # {} =>
       W.current = Plus(T) /\ W.previous = Minus(T, IdsOf(T, D))

LEMMA RemoveIs ==
  ASSUME NEW T, TableOK(T), NEW D, D \subseteq Finished(T)
  PROVE  RemovedIs(T, D, job_remove(T, D))
<1> DEFINE Z == Zeroed(T, D)
           gone == IdsOf(T, D)
           cur == job_find_id(Z, Z.current)
           keep == /\ Z.current \notin gone
                   /\ cur # {}
                   /\ \A s \in cur : Z.jobs[s].status = "stopped"
           plus == IF keep THEN Z.current ELSE job_live_id(Z, NoJob)
           minus == IF plus < 0 THEN NoJob
                    ELSE IF Z.previous \notin Ids(Z) \/ Z.previous = plus
                         THEN job_live_id(Z, plus)
                    ELSE Z.previous
<1>1. T \in Table /\ NumbersUnique(T) /\ D \subseteq Occupied(T)
  BY DEF TableOK, Finished
<1>2. /\ Z \in Table
      /\ JobsFreed(T, D, Z)
      /\ Z.count = T.count - Cardinality(D)
      /\ Z.current = T.current /\ Z.previous = T.previous
  BY <1>1, ZeroedIs DEF JobsFreed
<1>3. job_remove(T, D) = IF {Z.current, Z.previous} \cap gone = {} THEN Z
                         ELSE [Z EXCEPT !.current = plus, !.previous = minus]
  BY Zenon DEF job_remove, job_reelect, Zeroed
<1> HIDE DEF Z
<1>4. /\ Occupied(Z) = Occupied(T) \ D
      /\ Ids(Z) = Ids(T) \ gone
      /\ WithStatus(Z, "stopped") = WithStatus(T, "stopped")
      /\ \A e : job_live_id(Z, e) = job_live_id(T, e)
  <2>1. LivesOn(T, D, Z)
    BY <1>2, ZeroedLives
  <2> QED BY ONLY <2>1, Zenon DEF LivesOn
<1>5. keep <=> HoldsPlus(T)
  <2>1. \A s \in Occupied(Z) : s \in Slots /\ Z.jobs[s] = T.jobs[s]
    BY <1>2, <1>4 DEF Occupied, JobsFreed
  <2>2. ASSUME keep PROVE HoldsPlus(T)
    <3>1. PICK s \in cur : Z.jobs[s].status = "stopped"
      BY <2>2
    <3>2. s \in WithStatus(Z, "stopped") /\ Z.jobs[s].id = T.current
      BY <1>2, <3>1 DEF job_find_id, WithStatus
    <3>3. s \in Occupied(Z)
      BY DEF job_find_id
    <3> QED BY <1>4, <2>1, <3>2, <3>3 DEF HoldsPlus
  <2>3. ASSUME HoldsPlus(T) PROVE keep
    <3>1. PICK s \in WithStatus(T, "stopped") : T.jobs[s].id = T.current
      BY <2>3 DEF HoldsPlus
    <3>2. s \in WithStatus(Z, "stopped")
      BY <1>4, <3>1, Zenon
    <3>3. s \in Occupied(Z) /\ Z.jobs[s].status = "stopped"
      BY <3>2 DEF WithStatus
    <3>4. s \in cur
      BY <1>2, <2>1, <3>1, <3>3 DEF job_find_id
    <3>5. \A r \in cur : r = s
      BY <1>1, <1>2, <1>4, <2>1, <3>1, <3>3 DEF job_find_id, NumbersUnique
    <3>6. Z.current \notin gone
      <4>1. s \in Occupied(T) \ D
        BY <1>4, <3>3
      <4> QED BY <1>1, <1>2, <3>1, <4>1 DEF NumbersUnique, IdsOf
    <3> QED BY <3>3, <3>4, <3>5, <3>6
  <2> HIDE DEF keep
  <2> QED BY <2>2, <2>3
<1> HIDE DEF keep
<1>6. plus = Plus(T) /\ plus \in Int
  <2>1. plus = Plus(T)
    BY <1>2, <1>4, <1>5, Zenon DEF Plus
  <2>2. T.current \in Int /\ job_live_id(T, NoJob) \in Int
    BY <1>1, LiveIdElects, IdsAreNumbers DEF Table, NoJob
  <2> QED BY <2>1, <2>2 DEF Plus
<1> HIDE DEF plus
<1>7. minus = Minus(T, gone) /\ minus \in Int
  <2>1. minus = Minus(T, gone)
    BY <1>2, <1>4, <1>6, Zenon DEF Minus
  <2>2. T.previous \in Int /\ \A e : job_live_id(T, e) \in Int
    BY <1>1, LiveIdElects, IdsAreNumbers DEF Table, NoJob
  <2> QED BY <2>1, <2>2 DEF Minus, NoJob
<1> HIDE DEF minus, gone
<1>8. CASE {T.current, T.previous} \cap gone = {}
  BY <1>2, <1>3, <1>8 DEF RemovedIs, gone
<1>9. CASE {T.current, T.previous} \cap gone # {}
  <2>1. job_remove(T, D) = [Z EXCEPT !.current = plus, !.previous = minus]
    BY <1>2, <1>3, <1>9
  <2> DEFINE R == [Z EXCEPT !.current = plus, !.previous = minus]
  <2>2. /\ R.jobs = Z.jobs /\ R.count = Z.count
        /\ R.current = plus /\ R.previous = minus
    <3>1. Z \in Table
      BY <1>2
    <3> QED BY <3>1 DEF Table
  <2> HIDE DEF R
  <2> QED BY <1>2, <1>6, <1>7, <1>9, <2>1, <2>2 DEF RemovedIs, R, gone, JobsFreed
<1> QED BY <1>8, <1>9

(* Zeroing slots keeps the table a table and finished jobs in it.          *)
FinishedIn(T, D, W) == TableOK(W) /\ LivesOn(T, D, W) /\ RemovedIs(T, D, W)

LEMMA RemovedFinished ==
  ASSUME NEW T, TableOK(T), NEW D, D \subseteq Finished(T)
  PROVE  FinishedIn(T, D, job_remove(T, D))
<1> DEFINE W == job_remove(T, D)
<1>1. TableOK(W)
  BY RemoveOK DEF Finished
<1>2. RemovedIs(T, D, W)
  BY RemoveIs
<1> HIDE DEF W
<1>3. W \in Table
  BY <1>1 DEF TableOK
<1>4. LivesOn(T, D, W)
  BY <1>2, <1>3, ZeroedLives DEF RemovedIs
<1> QED BY <1>1, <1>2, <1>4 DEF FinishedIn, W

(* Removing one finished job more, with an election of its own, ends where *)
(* one removal of them all with one election ends.                         *)
LEMMA RemoveOneMore ==
  ASSUME NEW T, TableOK(T), NEW D, D \subseteq Finished(T), NEW s \in Finished(T) \ D
  PROVE  job_remove(job_remove(T, D), {s}) = job_remove(T, D \cup {s})
<1> DEFINE W == job_remove(T, D)
           V == job_remove(T, D \cup {s})
           X == job_remove(W, {s})
           i == T.jobs[s].id
           g == IdsOf(T, D)
<1>1. /\ T \in Table /\ NumbersUnique(T) /\ D \cup {s} \subseteq Finished(T)
      /\ s \in Slots /\ s \in Occupied(T)
  BY DEF TableOK, Finished, Occupied
<1>2. FinishedIn(T, D, W) /\ FinishedIn(T, D \cup {s}, V)
  BY <1>1, RemovedFinished
<1> HIDE DEF W, V
<1>3. TableOK(W) /\ TableOK(V) /\ LivesOn(T, D, W) /\ RemovedIs(T, D, W)
      /\ RemovedIs(T, D \cup {s}, V)
  BY <1>2 DEF FinishedIn
<1>4. FinishedIn(W, {s}, X)
  <2>1. {s} \subseteq Finished(W)
    BY <1>3 DEF LivesOn
  <2> QED BY <1>3, <2>1, RemovedFinished
<1> HIDE DEF X
<1>5. X \in Table /\ V \in Table /\ RemovedIs(W, {s}, X)
  BY <1>3, <1>4 DEF FinishedIn, TableOK
<1>6. X.jobs = V.jobs
  <2>1. W.jobs = [r \in Slots |-> IF r \in D THEN FreeSlot ELSE T.jobs[r]]
    BY <1>3 DEF RemovedIs, JobsFreed
  <2>2. V.jobs = [r \in Slots |-> IF r \in D \cup {s} THEN FreeSlot ELSE T.jobs[r]]
    BY <1>3 DEF RemovedIs, JobsFreed
  <2>3. X.jobs = [r \in Slots |-> IF r \in {s} THEN FreeSlot ELSE W.jobs[r]]
    BY <1>5 DEF RemovedIs, JobsFreed
  <2> QED BY <2>1, <2>2, <2>3
<1>7. X.count = V.count
  <2>1. W.count = T.count - Cardinality(D) /\ X.count = W.count - Cardinality({s})
        /\ V.count = T.count - Cardinality(D \cup {s}) /\ T.count \in Int
    BY <1>1, <1>3, <1>5 DEF RemovedIs, Table
  <2>2. IsFiniteSet(D) /\ Cardinality(D) \in Nat
    <3>1. D \subseteq Slots
      BY DEF Finished, Occupied
    <3> QED BY <3>1, SlotsFinite
  <2>3. Cardinality(D \cup {s}) = Cardinality(D) + 1 /\ Cardinality({s}) = 1
    BY <2>2, FS_AddElement, FS_Singleton
  <2> QED BY <2>1, <2>2, <2>3
<1>8. /\ IdsOf(T, D \cup {s}) = g \cup {i} /\ IdsOf(W, {s}) = {i}
      /\ i \in Ids(T) /\ i \notin g /\ i \notin IdsOf(T, Unfinished(T)) /\ i # NoJob
  <2>1. W.jobs[s] = T.jobs[s]
    BY <1>1, <1>3 DEF RemovedIs, JobsFreed
  <2>2. i # NoJob
    BY <1>1, IdsAreNumbers DEF NoJob, Ids, IdsOf
  <2>3. \A t \in Occupied(T) : T.jobs[t].id = i => t = s
    BY <1>1 DEF NumbersUnique
  <2>4. IdsOf(W, {s}) = {i}
    BY <2>1 DEF IdsOf
  <2>5. i \notin g /\ i \notin IdsOf(T, Unfinished(T))
    BY <1>1, <2>3 DEF IdsOf, Unfinished, Finished
  <2> QED BY <1>1, <2>2, <2>4, <2>5 DEF IdsOf, Ids
<1>9. /\ Ids(W) = Ids(T) \ g /\ WithStatus(W, "stopped") = WithStatus(T, "stopped")
      /\ \A e : job_live_id(W, e) = job_live_id(T, e)
  BY ONLY <1>3, Zenon DEF LivesOn
<1>10. Plus(T) # i /\ \A e : job_live_id(T, e) # i
  <2>1. \A e : job_live_id(T, e) \in IdsOf(T, Unfinished(T)) \cup {NoJob}
    BY <1>1, LiveIdAlive
  <2>2. HoldsPlus(T) => T.current \in IdsOf(T, Unfinished(T))
    BY DEF HoldsPlus, WithStatus, IdsOf, Unfinished, Finished, job_finished
  <2> QED BY <1>8, <2>1, <2>2 DEF Plus
<1>11. \A r \in WithStatus(T, "stopped") : W.jobs[r].id = T.jobs[r].id
  <2>1. \A r \in WithStatus(T, "stopped") : r \in Slots /\ r \notin D
    BY DEF WithStatus, Occupied, Finished, job_finished
  <2> QED BY <1>3, <2>1 DEF RemovedIs, JobsFreed
<1>12. X.current = V.current /\ X.previous = V.previous
  <2>1. CASE {T.current, T.previous} \cap g = {}
    <3>1. W.current = T.current /\ W.previous = T.previous
      BY <1>3, <2>1 DEF RemovedIs
    <3>2. HoldsPlus(W) <=> HoldsPlus(T)
      BY <1>9, <1>11, <3>1, Zenon DEF HoldsPlus
    <3>3. Plus(W) = Plus(T)
      BY <1>9, <3>1, <3>2, Zenon DEF Plus
    <3>4. Minus(W, {i}) = Minus(T, g \cup {i})
      <4>1. Ids(W) \ {i} = Ids(T) \ (g \cup {i})
        BY <1>9
      <4> QED BY <1>9, <3>1, <3>3, <4>1, Zenon DEF Minus
    <3>5. {W.current, W.previous} \cap {i} = {} <=>
            {T.current, T.previous} \cap (g \cup {i}) = {}
      BY <2>1, <3>1
    <3> QED BY <1>3, <1>5, <1>8, <3>1, <3>3, <3>4, <3>5 DEF RemovedIs
  <2>2. CASE {T.current, T.previous} \cap g # {}
    <3>1. W.current = Plus(T) /\ W.previous = Minus(T, g)
      BY <1>3, <2>2 DEF RemovedIs
    <3>2. V.current = Plus(T) /\ V.previous = Minus(T, g \cup {i})
      <4>1. {T.current, T.previous} \cap (g \cup {i}) # {}
        BY <2>2
      <4> QED BY <1>3, <1>8, <4>1 DEF RemovedIs
    <3>3. CASE Minus(T, g) # i
      <4>1. X.current = W.current /\ X.previous = W.previous
        <5>1. {W.current, W.previous} \cap {i} = {}
          BY <1>10, <3>1, <3>3
        <5> QED BY <1>5, <1>8, <5>1 DEF RemovedIs
      <4>2. Minus(T, g) = Minus(T, g \cup {i})
        BY <1>8, <3>3, Zenon DEF Minus
      <4> QED BY <3>1, <3>2, <4>1, <4>2
    <3>4. CASE Minus(T, g) = i
      <4>1. ~ (Plus(T) < 0) /\ T.previous = i
        BY <1>8, <1>10, <3>4, Zenon DEF Minus
      <4>2. Minus(T, g \cup {i}) = job_live_id(T, Plus(T))
        BY <4>1 DEF Minus
      <4>3. X.current = Plus(W) /\ X.previous = Minus(W, {i})
        <5>1. {W.current, W.previous} \cap {i} # {}
          BY <3>1, <3>4
        <5> QED BY <1>5, <1>8, <5>1 DEF RemovedIs
      <4>4. Plus(W) = Plus(T)
        <5>1. CASE HoldsPlus(T)
          <6>1. W.current = T.current
            BY <3>1, <5>1 DEF Plus
          <6>2. HoldsPlus(W)
            BY <1>9, <1>11, <5>1, <6>1, Zenon DEF HoldsPlus
          <6> QED BY <3>1, <6>2 DEF Plus
        <5>2. CASE ~ HoldsPlus(T)
          <6>1. Plus(T) = job_live_id(T, NoJob)
            BY <5>2 DEF Plus
          <6>2. job_live_id(W, NoJob) = job_live_id(T, NoJob)
            BY <1>9, Zenon
          <6>3. Plus(W) \in {W.current, job_live_id(W, NoJob)}
            BY DEF Plus
          <6> QED BY <3>1, <6>1, <6>2, <6>3
        <5> QED BY <5>1, <5>2
      <4>5. Minus(W, {i}) = job_live_id(W, Plus(W))
        <5>1. W.previous = i /\ ~ (Plus(W) < 0)
          BY <3>1, <3>4, <4>1, <4>4
        <5> QED BY <5>1 DEF Minus
      <4>6. job_live_id(W, Plus(W)) = job_live_id(T, Plus(T))
        BY <1>9, <4>4, Zenon
      <4> QED BY <3>2, <4>2, <4>3, <4>4, <4>5, <4>6
    <3> QED BY <3>3, <3>4
  <2> QED BY <2>1, <2>2
<1> QED BY <1>5, <1>6, <1>7, <1>12, TableExt DEF X, V, W

(* Removing nothing changes nothing.                                       *)
LEMMA RemoveNone ==
  ASSUME NEW T, TableOK(T)
  PROVE  job_remove(T, {}) = T
<1> DEFINE W == job_remove(T, {})
<1>1. FinishedIn(T, {}, W)
  BY RemovedFinished
<1> HIDE DEF W
<1>2. W \in Table /\ RemovedIs(T, {}, W) /\ T \in Table
  BY <1>1 DEF FinishedIn, TableOK
<1>3. IdsOf(T, {}) = {} /\ Cardinality({}) = 0
  BY FS_EmptySet DEF IdsOf
<1>4. W.jobs = T.jobs
  BY <1>2 DEF RemovedIs, JobsFreed, Table
<1>5. W.count = T.count
  BY <1>2, <1>3 DEF RemovedIs, Table
<1>6. W.current = T.current /\ W.previous = T.previous
  BY <1>2, <1>3 DEF RemovedIs
<1> QED BY <1>2, <1>4, <1>5, <1>6, TableExt DEF W

-----------------------------------------------------------------------------
(* The purges.                                                             *)

(* The finished jobs a purge retires.                                      *)
Doomed(T, reportedOnly) == {s \in Finished(T) : reportedOnly => T.jobs[s].notified}

PurgeStep(U, s, reportedOnly) ==
  IF U.jobs[s].pgid # 0 /\ job_finished(U.jobs[s])
     /\ (reportedOnly => U.jobs[s].notified)
  THEN remove_one(U, U.jobs[s].id) ELSE U

(* One turn removes the job of its slot if it is one to retire.            *)
LEMMA PurgeStepIs ==
  ASSUME NEW U, TableOK(U), NEW s \in Slots, NEW reportedOnly \in BOOLEAN
  PROVE  /\ PurgeStep(U, s, reportedOnly) =
              IF s \in Doomed(U, reportedOnly) THEN job_remove(U, {s}) ELSE U
         /\ TableOK(PurgeStep(U, s, reportedOnly))
<1>1. s \in Doomed(U, reportedOnly) <=>
        U.jobs[s].pgid # 0 /\ job_finished(U.jobs[s])
        /\ (reportedOnly => U.jobs[s].notified)
  BY DEF Doomed, Finished, Occupied
<1>2. s \in Doomed(U, reportedOnly) =>
        remove_one(U, U.jobs[s].id) = job_remove(U, {s}) /\ TableOK(job_remove(U, {s}))
  <2>1. s \in Doomed(U, reportedOnly) => s \in Occupied(U)
    BY DEF Doomed, Finished
  <2> QED BY <2>1, RemoveOneRight, RemoveOK
<1> QED BY <1>1, <1>2, Zenon DEF PurgeStep

LEMMA PurgeRuns ==
  ASSUME NEW T, TableOK(T), NEW reportedOnly \in BOOLEAN
  PROVE  \E acc :
           /\ acc[0] = T /\ purge_loop(T, reportedOnly) = acc[JobMax]
           /\ \A i \in 1 .. JobMax : acc[i] = PurgeStep(acc[i - 1], i, reportedOnly)
<1> DEFINE A == {U \in Table : TableOK(U)}
           F == [i \in 1 .. JobMax |-> [U \in A |-> PurgeStep(U, i, reportedOnly)]]
           Is(acc) == acc = [i \in 0 .. JobMax |->
                               IF i = 0 THEN T ELSE PurgeStep(acc[i - 1], i, reportedOnly)]
           run == CHOOSE acc : Is(acc)
<1>1. purge_loop(T, reportedOnly) = run[JobMax]
  BY Zenon DEF purge_loop, For, PurgeStep
<1>2. PICK acc \in [0 .. JobMax -> A] : Unrolls(acc, T, F, JobMax)
  <2>1. \A i \in 1 .. JobMax, U \in A : PurgeStep(U, i, reportedOnly) \in A
    BY PurgeStepIs DEF Slots, TableOK
  <2>2. F \in [1 .. JobMax -> [A -> A]] /\ T \in A /\ JobMax \in Nat
    <3> HIDE DEF A
    <3>1. T \in A
      BY DEF TableOK, A
    <3> QED BY <2>1, <3>1, JobMaxAssumption
  <2> HIDE DEF F, A
  <2> QED BY ONLY <2>2, LoopRuns
<1>3. Is(acc)
  <2>1. \A i \in 1 .. JobMax : F[i] = [U \in A |-> PurgeStep(U, i, reportedOnly)]
    OBVIOUS
  <2> HIDE DEF F, A
  <2>2. \A i \in 1 .. JobMax : acc[i] = PurgeStep(acc[i - 1], i, reportedOnly)
    BY <1>2, <2>1 DEF Unrolls
  <2>3. \A i \in 0 .. JobMax : i = 0 \/ i \in 1 .. JobMax
    BY JobMaxAssumption
  <2> QED BY <1>2, <2>2, <2>3 DEF Unrolls
<1>4. Is(run)
  <2> HIDE DEF Is
  <2> QED BY <1>3
<1> HIDE DEF run
<1>5. run[0] = T /\ \A i \in 1 .. JobMax : run[i] = PurgeStep(run[i - 1], i, reportedOnly)
  BY <1>4, JobMaxAssumption
<1> QED BY <1>1, <1>5

(* The jobs to retire in the slots up to i.                                *)
DoomedTo(T, r, i) == {s \in Doomed(T, r) : s <= i}

(* Retiring slot by slot, electing after each, is retiring all at once.    *)
LEMMA PurgeRight ==
  ASSUME NEW T, TableOK(T), NEW reportedOnly \in BOOLEAN
  PROVE  purge_loop(T, reportedOnly) = job_remove(T, Doomed(T, reportedOnly))
<1> DEFINE D(i) == DoomedTo(T, reportedOnly, i)
           I == [i \in 0 .. JobMax |-> {job_remove(T, D(i))}]
<1>1. PICK acc :
        /\ acc[0] = T /\ purge_loop(T, reportedOnly) = acc[JobMax]
        /\ \A i \in 1 .. JobMax : acc[i] = PurgeStep(acc[i - 1], i, reportedOnly)
  BY PurgeRuns
<1>2. \A i \in 0 .. JobMax : \A U : U \in I[i] <=> U = job_remove(T, D(i))
  OBVIOUS
<1>3. \A s \in Doomed(T, reportedOnly) : s \in 1 .. JobMax /\ s \in Finished(T)
  BY DEF Doomed, Finished, Occupied, Slots
<1> HIDE DEF I
<1>4. acc[0] \in I[0]
  <2>1. D(0) = {}
    BY <1>3 DEF DoomedTo
  <2>2. job_remove(T, D(0)) = T
    BY <2>1, RemoveNone
  <2> QED BY <1>1, <1>2, <2>2, JobMaxAssumption
<1>5. ASSUME NEW i \in 1 .. JobMax, acc[i - 1] \in I[i - 1]
      PROVE  acc[i] \in I[i]
  <2> DEFINE W == job_remove(T, D(i - 1))
  <2>1. acc[i - 1] = W
    BY <1>2, <1>5, JobMaxAssumption
  <2>2. D(i - 1) \subseteq Finished(T) /\ i \notin D(i - 1) /\ i \in Slots
    BY <1>3 DEF DoomedTo, Slots
  <2>3. FinishedIn(T, D(i - 1), W)
    BY <2>2, RemovedFinished
  <2>4. acc[i] = PurgeStep(W, i, reportedOnly)
    BY <1>1, <2>1
  <2>5. TableOK(W) /\ RemovedIs(T, D(i - 1), W) /\ LivesOn(T, D(i - 1), W)
    BY <2>3 DEF FinishedIn
  <2> HIDE DEF W
  <2>6. i \in Doomed(W, reportedOnly) <=> i \in Doomed(T, reportedOnly)
    <3>1. W.jobs[i] = T.jobs[i]
      BY <2>2, <2>5 DEF RemovedIs, JobsFreed
    <3>2. Finished(W) = Finished(T) \ D(i - 1)
      BY <2>5 DEF LivesOn
    <3> QED BY <2>2, <3>1, <3>2 DEF Doomed
  <2>7. acc[i] = IF i \in Doomed(T, reportedOnly) THEN job_remove(W, {i}) ELSE W
    BY <2>2, <2>4, <2>5, <2>6, PurgeStepIs
  <2>8. acc[i] = job_remove(T, D(i))
    <3>1. CASE i \in Doomed(T, reportedOnly)
      <4>1. D(i) = D(i - 1) \cup {i}
        <5>1. \A s \in Doomed(T, reportedOnly) : s <= i <=> s <= i - 1 \/ s = i
          BY <1>3
        <5> QED BY <3>1, <5>1 DEF DoomedTo
      <4>2. i \in Finished(T) \ D(i - 1)
        BY <1>3, <2>2, <3>1
      <4>3. job_remove(W, {i}) = job_remove(T, D(i - 1) \cup {i})
        BY <2>2, <4>2, RemoveOneMore DEF W
      <4> QED BY <2>7, <3>1, <4>1, <4>3
    <3>2. CASE i \notin Doomed(T, reportedOnly)
      <4>1. D(i) = D(i - 1)
        BY <1>3, <3>2 DEF DoomedTo
      <4> QED BY <2>7, <3>2, <4>1 DEF W
    <3> QED BY <3>1, <3>2
  <2> QED BY <1>2, <2>8
<1>6. acc[JobMax] \in I[JobMax]
  <2>1. \A i \in 0 .. JobMax : acc[i] \in I[i]
    BY <1>4, <1>5, JobMaxAssumption, LoopStays
  <2> QED BY <2>1, JobMaxAssumption
<1>7. D(JobMax) = Doomed(T, reportedOnly)
  BY <1>3, JobMaxAssumption DEF DoomedTo
<1> QED BY <1>1, <1>2, <1>6, <1>7, JobMaxAssumption

(* Every removal of the code ends in the table JobTable gives.             *)
LEMMA RemovalsRight ==
  ASSUME NEW T, TableOK(T)
  PROVE  RemovalsAgree(T)
<1>1. purge_loop(T, FALSE) = job_purge_done(T)
  <2>1. Doomed(T, FALSE) = Finished(T)
    BY DEF Doomed
  <2> QED BY <2>1, PurgeRight DEF job_purge_done
<1>2. purge_loop(T, TRUE) = job_purge_reported(T)
  <2>1. Doomed(T, TRUE) = {s \in Finished(T) : T.jobs[s].notified}
    BY DEF Doomed
  <2> QED BY <2>1, PurgeRight DEF job_purge_reported
<1> QED BY <1>1, <1>2, RemoveOneRight DEF RemovalsAgree

-----------------------------------------------------------------------------
(* The inductive invariant: TypeOK and TableWellFormed, and what the step  *)
(* from one label to the next relies on.                                   *)

Process == [st : ProcessStates, pgid : 0 .. NPids + 1, raw : StatusWord,
            pend : {"none", "HUP", "TERM", "KILL"},
            event : {"none", "stop", "cont"}]

(* A process that was born is in a group.                                  *)
Grouped(r) == r \in Process /\ (r.st # "none" => r.pgid # 0)
KernelOK == /\ proc \in [Pids -> Process]
            /\ \A p \in Pids : Grouped(proc[p])

(* The groups of the table are groups of the kernel.                       *)
Good(T) == TableOK(T) /\ \A s \in Slots : T.jobs[s].pgid \in 0 .. NPids + 1

Remembers(r) == r \in [slot : [RingSlots -> [pid : Nat, raw : StatusWord]],
                       next : RingSlots]

Afters == {"prompt", "notify", "announce", "bgadd", "stage", "jobs", "next",
           "guardExit", "guardEof", "hangup"}

(* Where the shell is, and what `target` then stands for.                  *)
PlaceOK ==
  /\ pc \in Labels /\ after \in Afters /\ cursor \in Slots
  /\ target \in Nat
  /\ pc \in {"bgadd", "waitOne"} => target \in Pids
  /\ pc = "poll" /\ after = "bgadd" => target \in Pids
  /\ pc = "fg" => target \in Occupied(table)

ShellOK ==
  /\ lastBg \in Nat
  /\ stages \in Seq(Pids) /\ todo \in Int
  /\ rounds \in Nat /\ warned \in BOOLEAN /\ attempt \in BOOLEAN
  /\ reply \in [pid : Nat, code : Nat]

HistoryOK ==
  /\ launched \subseteq Pids /\ told \subseteq Pids /\ swept \subseteq Pids
  /\ shown \in [Pids -> 0 .. 2] /\ typed \subseteq Pids /\ turns \in 0 .. 2

IInv == KernelOK /\ Good(table) /\ Remembers(ring) /\ PlaceOK /\ ShellOK /\ HistoryOK

-----------------------------------------------------------------------------
(* The operators the actions are made of.                                  *)

(* Process numbers and the group of the shell are positive numbers.        *)
LEMMA PidsAreNumbers == Pids \subseteq Nat /\ ShellGroup \in Nat \ {0}
BY JobControlAssumption DEF Pids, ShellGroup

(* The slot a search stops at is one of those it looks for.                *)
LEMMA LeastSlot ==
  ASSUME NEW S, S \subseteq Slots, S # {}
  PROVE  Least(S) \in S
<1>1. S \subseteq Nat
  BY DEF Slots
<1> QED BY <1>1, LeastIsLeast

(* fork gives the least unused process number.                             *)
LEMMA LeastFresh ==
  ASSUME Fresh # {}
  PROVE  Least(Fresh) \in Pids
<1>1. Fresh \subseteq Pids /\ Fresh \subseteq Nat
  BY PidsAreNumbers DEF Fresh
<1> QED BY <1>1, LeastIsLeast

(* job_record_exit keeps the table good.                                   *)
LEMMA RecordGood ==
  ASSUME NEW T, Good(T), NEW s \in Slots, NEW w \in StatusWord
  PROVE  Good(job_record_exit(T, s, w))
<1>1. TableOK(job_record_exit(T, s, w))
  BY RecordOK DEF Good
<1>2. T \in Table /\ T.jobs[s] \in Job
  BY DEF Good, TableOK, Table
<1>3. Decoded(T.jobs[s], w).pgid = T.jobs[s].pgid
  BY <1>2, DecodedType
<1>4. \A t \in Slots : job_record_exit(T, s, w).jobs[t].pgid = T.jobs[t].pgid
  BY <1>2, <1>3 DEF job_record_exit, Table
<1> QED BY <1>1, <1>4 DEF Good

(* What bg_done_record does to the table keeps it good.                    *)
LEMMA LearnsGood ==
  ASSUME NEW T, Good(T), NEW p, NEW w \in StatusWord
  PROVE  Good(TableLearns(T, p, w))
<1>1. CASE job_find_pgid(T, p) = {}
  BY <1>1 DEF TableLearns
<1>2. CASE job_find_pgid(T, p) # {}
  <2>1. Least(job_find_pgid(T, p)) \in Slots
    BY <1>2, LeastSlot DEF job_find_pgid
  <2> QED BY <1>2, <2>1, RecordGood DEF TableLearns
<1> QED BY <1>1, <1>2

(* Marking jobs as reported keeps the table good.                          *)
LEMMA NotifiedGood ==
  ASSUME NEW T, Good(T), NEW S
  PROVE  Good(Notified(T, S))
<1>1. T \in Table
  BY DEF Good, TableOK
<1>2. \A t \in Slots : Notified(T, S).jobs[t].pgid = T.jobs[t].pgid
  BY <1>1 DEF Notified, Table, Job
<1> QED BY <1>2, NotifiedOK DEF Good

(* fg and bg write a status and nothing else.                              *)
LEMMA StatusGood ==
  ASSUME NEW T, Good(T), NEW s \in Slots, NEW st \in JobStatus
  PROVE  /\ Good([T EXCEPT !.jobs[s].status = st])
         /\ Occupied([T EXCEPT !.jobs[s].status = st]) = Occupied(T)
<1>1. T \in Table
  BY DEF Good, TableOK
<1>2. \A t \in Slots : [T EXCEPT !.jobs[s].status = st].jobs[t].pgid = T.jobs[t].pgid
  BY <1>1 DEF Table, Job
<1>3. TableOK([T EXCEPT !.jobs[s].status = st])
  BY StatusOK DEF Good
<1> HIDE DEF Good
<1>4. Good([T EXCEPT !.jobs[s].status = st])
  BY <1>2, <1>3 DEF Good
<1>5. Occupied([T EXCEPT !.jobs[s].status = st]) = Occupied(T)
  BY <1>2 DEF Occupied
<1> QED BY <1>4, <1>5

(* job_add keeps the table good.                                           *)
LEMMA AddGood ==
  ASSUME NEW T, Good(T), NEW g \in 1 .. NPids + 1
  PROVE  Good(job_add(T, g))
<1>1. g \in Nat \ {0}
  BY JobControlAssumption
<1>2. TableOK(job_add(T, g))
  BY <1>1, AddOK DEF Good
<1>3. T \in Table
  BY DEF Good, TableOK
<1>4. ASSUME NEW t \in Slots
      PROVE  job_add(T, g).jobs[t].pgid \in {T.jobs[t].pgid, g}
  BY <1>3 DEF job_add, Table, FreeSlot
<1> QED BY <1>2, <1>4, JobControlAssumption DEF Good

(* job_remove keeps the table good.                                        *)
LEMMA RemoveGood ==
  ASSUME NEW T, Good(T), NEW S, S \subseteq Occupied(T)
  PROVE  Good(job_remove(T, S))
<1>1. TableOK(job_remove(T, S))
  BY RemoveOK DEF Good
<1>2. T \in Table
  BY DEF Good, TableOK
<1> DEFINE U == [T EXCEPT !.jobs = [s \in Slots |-> IF s \in S THEN FreeSlot
                                                    ELSE T.jobs[s]],
                          !.count = @ - Cardinality(S)]
<1>3. U.jobs = [s \in Slots |-> IF s \in S THEN FreeSlot ELSE T.jobs[s]]
  BY <1>2 DEF Table
<1>4. \A G : job_reelect(U, G).jobs = U.jobs
  <2>1. DOMAIN U = DOMAIN T /\ DOMAIN T = {"jobs", "count", "current", "previous"}
    BY <1>2 DEF Table
  <2> HIDE DEF U
  <2> QED BY <2>1 DEF job_reelect
<1>5. job_remove(T, S).jobs = U.jobs
  BY <1>4 DEF job_remove
<1>6. \A t \in Slots : job_remove(T, S).jobs[t].pgid \in {T.jobs[t].pgid, 0}
  BY <1>3, <1>5 DEF FreeSlot
<1> QED BY <1>1, <1>6, JobControlAssumption DEF Good

(* The two purges keep the table good.                                     *)
LEMMA PurgeGood ==
  ASSUME NEW T, Good(T)
  PROVE  Good(job_purge_done(T)) /\ Good(job_purge_reported(T))
<1>1. Finished(T) \subseteq Occupied(T)
  BY DEF Finished
<1> QED BY <1>1, RemoveGood DEF job_purge_done, job_purge_reported

(* waitpid leaves a well-formed kernel.                                    *)
LEMMA CollectOK ==
  ASSUME KernelOK, NEW p \in Pids, Collect(p)
  PROVE  KernelOK' /\ WordOf(p) \in StatusWord /\ proc[p].raw \in StatusWord
<1>1. proc[p].raw \in StatusWord
  BY DEF KernelOK, Process
<1>2. WordOf(p) \in StatusWord
  BY <1>1 DEF WordOf, StoppedWord, ContinuedWord, StatusWord
<1> DEFINE st == IF Zombie(p) THEN "reaped" ELSE proc[p].st
           r == [proc[p] EXCEPT !.st = st, !.event = "none"]
<1>3. Grouped(r)
  <2>1. Grouped(proc[p])
    BY DEF KernelOK
  <2> QED BY <2>1 DEF Grouped, Zombie, Process, ProcessStates
<1>4. proc' = [proc EXCEPT ![p] = r]
  BY DEF KernelOK, Collect, Process
<1> HIDE DEF r
<1>5. KernelOK'
  BY <1>3, <1>4 DEF KernelOK, Grouped
<1> QED BY <1>1, <1>2, <1>5

(* A status word has an exit code.                                         *)
LEMMA CodeIsNumber ==
  ASSUME NEW w \in StatusWord
  PROVE  CodeOf(w) \in Nat
BY DEF CodeOf, StatusWord

SignalNames == {"TERM", "KILL", "STOP", "HUP", "CONT"}

(* The signals that the shell sends are ones the kernel knows.             *)
LEMMA SignalLists ==
  ASSUME NEW a \in SignalNames, NEW b \in SignalNames
  PROVE  /\ <<a>> \in Seq(SignalNames) /\ Len(<<a>>) = 1
         /\ <<a, b>> \in Seq(SignalNames) /\ Len(<<a, b>>) = 2
OBVIOUS

(* A process that got a signal is still a process.                         *)
LEMMA SignalledOK ==
  ASSUME NEW r, Grouped(r), NEW sig \in SignalNames
  PROVE  Grouped(Signalled(r, sig))
BY DEF SignalNames, Grouped, Signalled, Process, ProcessStates

(* kill(-pgid) leaves a well-formed kernel.                                *)
LEMMA KillGroupsOK ==
  ASSUME KernelOK, NEW G, NEW sigs,
         sigs \in Seq(SignalNames),
         Len(sigs) \in {1, 2},
         proc' = KillGroups(G, sigs)
  PROVE  KernelOK'
<1> SUFFICES ASSUME NEW p \in Pids
             PROVE  Grouped(KillGroups(G, sigs)[p])
  BY DEF KernelOK, Grouped, KillGroups
<1>1. Grouped(proc[p])
  BY DEF KernelOK
<1>2. sigs[1] \in SignalNames
  OBVIOUS
<1>3. Grouped(Signalled(proc[p], sigs[1]))
  BY <1>1, <1>2, SignalledOK
<1>4. ASSUME Len(sigs) # 1
      PROVE  Grouped(Signalled(Signalled(proc[p], sigs[1]), sigs[2]))
  <2>1. sigs[2] \in SignalNames
    BY <1>4
  <2> QED BY <1>3, <2>1, SignalledOK
<1> QED BY <1>1, <1>3, <1>4 DEF KillGroups

(* bg_done_record writes inside the ring.                                  *)
LEMMA PushedOK ==
  ASSUME Remembers(ring), NEW p \in Nat, NEW w \in StatusWord
  PROVE  Remembers(Pushed(p, w))
<1>1. RingSize \in Nat \ {0}
  BY JobControlAssumption
<1>2. (ring.next + 1) % RingSize \in RingSlots
  BY <1>1 DEF Remembers, RingSlots
<1> QED BY <1>2 DEF Remembers, Pushed

(* bg_done_take clears an entry of the ring.                               *)
LEMMA TakenOK ==
  ASSUME NEW r, Remembers(r), NEW p
  PROVE  Remembers(Taken(r, p))
<1> DEFINE hits == {i \in RingSlots : r.slot[i].pid = p}
<1>1. CASE hits = {}
  BY <1>1 DEF Taken
<1>2. CASE hits # {}
  <2>1. Least(hits) \in RingSlots
    <3>1. hits \subseteq Nat
      BY DEF RingSlots
    <3> QED BY <1>2, <3>1, LeastIsLeast
  <2>2. Taken(r, p) = [r EXCEPT !.slot[Least(hits)].pid = 0]
    BY <1>2 DEF Taken
  <2> HIDE DEF hits
  <2> QED BY <2>1, <2>2 DEF Remembers
<1> QED BY <1>1, <1>2

(* A poll goes to "poll" with a slot to start at, or straight on.          *)
LEMMA PollThenOK ==
  ASSUME NEW l \in Afters, after \in Afters, cursor \in Slots, PollThen(l)
  PROVE  /\ after' \in Afters /\ cursor' \in Slots
         /\ pc' = l \/ (pc' = "poll" /\ after' = l)
<1>1. Unfinished(table) \subseteq Slots
  BY DEF Unfinished, Occupied
<1> QED BY <1>1, LeastSlot DEF PollThen, Goto

(* What a wait answer and the history of it look like.                     *)
LEMMA AnswerOK ==
  ASSUME NEW p \in Nat, NEW c \in Nat, Answer(p, c)
  PROVE  reply' \in [pid : Nat, code : Nat]
BY DEF Answer

(* The job with the lowest number is one of those asked for.               *)
LEMMA ByNumberIn ==
  ASSUME NEW T \in Table, NEW S, S \subseteq Slots, S # {}
  PROVE  ByNumber(T, S) \in S
<1> DEFINE I == {T.jobs[s].id : s \in S}
<1>1. I \subseteq Nat /\ I # {}
  BY DEF Table, Job
<1>2. PICK m \in I : \A x \in I : m <= x
  <2> HIDE DEF I
  <2> QED BY <1>1, NatHasLeast
<1>3. PICK s \in S : m = T.jobs[s].id
  BY <1>2
<1>4. \A t \in S : T.jobs[s].id <= T.jobs[t].id
  BY <1>2, <1>3
<1> QED BY <1>4 DEF ByNumber

-----------------------------------------------------------------------------
(* The steps, one lemma per action.  In each, the parts of the invariant   *)
(* the action cannot disturb come first.                                   *)

USE DEF kernel, shell, history, polling, fgvars, exiting, At, Goto, Labels, Afters

(* A session starts in a consistent state.                                 *)
LEMMA InitHolds == Init => IInv
<1> SUFFICES ASSUME Init PROVE IInv
  OBVIOUS
<1>1. KernelOK
  BY JobControlAssumption
     DEF Init, KernelOK, Grouped, Process, ProcessStates, Unborn, StatusWord, NoStatus
<1>2. Good(table)
  <2>1. \A s \in Slots : job_table_init.jobs[s].pgid = 0
    BY DEF job_table_init, FreeSlot
  <2> QED BY <2>1, InitOK, JobControlAssumption DEF Init, Good
<1>3. Remembers(ring)
  BY JobControlAssumption DEF Init, Remembers, EmptyRing, RingSlots, StatusWord, NoStatus
<1>4. PlaceOK
  BY JobMaxAssumption DEF Init, PlaceOK, Slots
<1>5. ShellOK
  <2>1. NoReply \in [pid : Nat, code : Nat]
    BY DEF NoReply
  <2>2. <<>> \in Seq(Pids)
    OBVIOUS
  <2>3. warned \in BOOLEAN /\ attempt \in BOOLEAN
    BY Zenon DEF Init
  <2> QED BY <2>1, <2>2, <2>3 DEF Init, ShellOK
<1>6. HistoryOK
  BY DEF Init, HistoryOK
<1> QED BY <1>1, <1>2, <1>3, <1>4, <1>5, <1>6 DEF IInv

(* A step that changes nothing keeps the invariant.                        *)
LEMMA StutterStep == ASSUME IInv, UNCHANGED vars PROVE IInv'
BY DEF IInv, vars, KernelOK, Grouped, Remembers, PlaceOK, ShellOK, HistoryOK, Good,
       TableOK, NumbersUnique, CountExact, MarkersNameJobs, Ids, IdsOf, Occupied

(* What a step that leaves the table or the ring alone keeps.              *)
LEMMA TableKept == ASSUME IInv, UNCHANGED table PROVE Good(table') /\ Good(table)
BY DEF IInv

(* Steps that leave the processes alone keep the kernel part.              *)
LEMMA KernelKept == ASSUME IInv, UNCHANGED proc PROVE KernelOK'
BY DEF IInv, KernelOK, Grouped

(* Steps that leave the ring alone keep its part.                          *)
LEMMA RingKept == ASSUME IInv, UNCHANGED ring PROVE Remembers(ring')
BY DEF IInv

(* Steps that leave the shell variables alone keep their part.             *)
LEMMA ShellKept ==
  ASSUME IInv, UNCHANGED <<lastBg, stages, todo, rounds, warned, attempt, reply>>
  PROVE  ShellOK'
BY DEF IInv, ShellOK

(* Steps that leave the history alone keep its part.                       *)
LEMMA HistoryKept == ASSUME IInv, UNCHANGED history PROVE HistoryOK'
BY DEF IInv, HistoryOK

(* Printing counts what was shown.                                         *)
LEMMA PrintedOK ==
  ASSUME IInv, NEW S, Printed(S), UNCHANGED <<launched, told, swept, typed, turns>>
  PROVE  HistoryOK'
BY DEF IInv, HistoryOK, Printed

(* The whole invariant from its parts after the step.                      *)
LEMMA Parts ==
  ASSUME KernelOK', Good(table'), Remembers(ring'), PlaceOK', ShellOK', HistoryOK'
  PROVE  IInv'
BY DEF IInv

(* A process acts: nothing of the shell moves.                             *)
LEMMA ProcessStep ==
  ASSUME IInv, NEW p \in Pids, NEW r, Grouped(r), proc' = [proc EXCEPT ![p] = r],
         UNCHANGED shell, HistoryOK'
  PROVE  IInv'
<1>1. KernelOK'
  BY DEF IInv, KernelOK, Grouped
<1>2. PlaceOK'
  BY DEF IInv, PlaceOK, Occupied
<1> QED BY <1>1, <1>2, TableKept, RingKept, ShellKept, Parts

(* A process exits, stops, continues or receives a signal.                 *)
LEMMA KernelStep == ASSUME IInv, Kernel PROVE IInv'
<1>1. PICK p \in Pids : Exit(p) \/ Deliver(p) \/ Stop(p) \/ Continue(p)
  BY DEF Kernel
<1>2. Grouped(proc[p])
  BY DEF IInv, KernelOK
<1>3. CASE Exit(p)
  <2>1. Grouped(Dead(proc[p], Exited(OwnExit)))
    BY <1>2, <1>3 DEF Grouped, Dead, Process, ProcessStates, StatusWord, Exited,
                      OwnExit, Exit
  <2> QED BY <1>3, <2>1, HistoryKept, ProcessStep DEF Exit
<1>4. CASE Deliver(p)
  <2>1. proc[p].pend \in {"HUP", "TERM", "KILL"}
    BY <1>2, <1>4 DEF Deliver, Grouped, Process
  <2>2. SignalNumber[proc[p].pend] \in Nat
    BY <2>1 DEF SignalNumber
  <2>3. Grouped(Dead(proc[p], Signaled(SignalNumber[proc[p].pend])))
    <3> DEFINE w == Signaled(SignalNumber[proc[p].pend])
    <3>1. w \in StatusWord
      BY <2>2 DEF Signaled, StatusWord
    <3> HIDE DEF w
    <3>2. proc[p].pgid # 0
      BY <1>2, <1>4 DEF Deliver, Grouped
    <3>3. Grouped(Dead(proc[p], w))
      BY <1>2, <3>1, <3>2 DEF Grouped, Dead, Process, ProcessStates
    <3> QED BY <3>3 DEF w
  <2> QED BY <1>4, <2>3, HistoryKept, ProcessStep DEF Deliver
<1>5. CASE Stop(p)
  <2>1. Grouped(Signalled(proc[p], "STOP"))
    BY <1>2, SignalledOK DEF SignalNames
  <2> QED BY <1>5, <2>1, HistoryKept, ProcessStep DEF Stop
<1>6. CASE Continue(p)
  <2>1. Grouped(Signalled(proc[p], "CONT"))
    BY <1>2, SignalledOK DEF SignalNames
  <2>2. HistoryOK'
    BY <1>6 DEF Continue, IInv, HistoryOK
  <2> QED BY <1>6, <2>1, <2>2, ProcessStep DEF Continue
<1> QED BY <1>1, <1>3, <1>4, <1>5, <1>6

(* One waitpid of a poll, filed in the table or in the ring and the table. *)
LEMMA PollStep == ASSUME IInv, PollSlot PROVE IInv'
<1> DEFINE member == Ready(Group(table.jobs[cursor].pgid), TRUE, TRUE)
           rest == {s \in Unfinished(table) : s > cursor}
<1>1. ShellOK' /\ HistoryOK'
  BY ShellKept, HistoryKept DEF PollSlot
<1>2. KernelOK' /\ Good(table') /\ Remembers(ring')
  <2>1. CASE member = {}
    BY <2>1, KernelKept, TableKept, RingKept DEF PollSlot
  <2>2. CASE member # {}
    <3>1. PICK q \in member : Collect(q) /\ job_reap_record(cursor, WordOf(q))
      BY <2>2 DEF PollSlot
    <3>2. q \in Pids
      BY DEF Ready, Group, Children
    <3>3. KernelOK' /\ WordOf(q) \in StatusWord
      BY <3>1, <3>2, CollectOK DEF IInv
    <3>4. Good(table) /\ Remembers(ring) /\ cursor \in Slots
      BY DEF IInv, PlaceOK
    <3>5. table.jobs[cursor].pgid \in Nat
      BY <3>4 DEF Good, TableOK, Table, Job
    <3> QED BY <3>1, <3>3, <3>4, <3>5, RecordGood, LearnsGood, PushedOK
            DEF job_reap_record, bg_done_record
  <2> QED BY <2>1, <2>2
<1>3. PlaceOK'
  <2>1. rest # {} => Least(rest) \in Slots
    <3>1. rest \subseteq Slots
      BY DEF Unfinished, Occupied
    <3> HIDE DEF rest
    <3> QED BY <3>1, LeastSlot
  <2>2. \/ pc' = after /\ cursor' = 1 /\ after' = "prompt"
        \/ rest # {} /\ cursor' = Least(rest) /\ pc' = pc /\ after' = after
    BY DEF PollSlot
  <2>3. pc = "poll" /\ target' = target
    BY DEF PollSlot
  <2> HIDE DEF rest
  <2> QED BY <2>1, <2>2, <2>3, JobMaxAssumption DEF IInv, PlaceOK, Slots
<1> QED BY <1>1, <1>2, <1>3, Parts

(* The top of the read-eval loop.                                          *)
LEMMA PromptStep == ASSUME IInv, Prompt PROVE IInv'
<1>1. KernelOK' /\ Good(table') /\ Remembers(ring')
  BY KernelKept, TableKept, RingKept DEF Prompt
<1>2. ShellOK' /\ HistoryOK'
  <2>1. warned' \in BOOLEAN /\ attempt' \in BOOLEAN
    BY Zenon DEF IInv, ShellOK, Prompt
  <2>2. turns' \in 0 .. 2
    BY DEF IInv, HistoryOK, Prompt
  <2> QED BY <2>1, <2>2 DEF IInv, ShellOK, HistoryOK, Prompt
<1>3. PlaceOK'
  BY PollThenOK DEF Prompt, IInv, PlaceOK
<1> QED BY <1>1, <1>2, <1>3, Parts

(* job_notify: finished jobs are printed and retired.                      *)
LEMMA NotifyStep == ASSUME IInv, job_notify PROVE IInv'
<1>1. KernelOK' /\ Remembers(ring') /\ ShellOK' /\ HistoryOK'
  BY KernelKept, RingKept, ShellKept, PrintedOK DEF job_notify
<1>2. Good(table')
  BY NotifiedGood, PurgeGood DEF job_notify, IInv
<1>3. PlaceOK'
  BY DEF job_notify, IInv, PlaceOK
<1> QED BY <1>1, <1>2, <1>3, Parts

(* A line is read.                                                         *)
LEMMA ReadLineStep == ASSUME IInv, ReadLine PROVE IInv'
<1>1. KernelOK' /\ Good(table') /\ Remembers(ring') /\ ShellOK' /\ HistoryOK'
  BY KernelKept, TableKept, RingKept, ShellKept, HistoryKept DEF ReadLine
<1>2. PlaceOK'
  BY DEF ReadLine, IInv, PlaceOK
<1> QED BY <1>1, <1>2, Parts

(* A reaped child, whoever it was, goes to the ring and to the table.      *)
LEMMA Filed ==
  ASSUME IInv, NEW p \in Pids, Collect(p), bg_done_record(p, WordOf(p))
  PROVE  KernelOK' /\ Good(table') /\ Remembers(ring')
<1>1. KernelOK' /\ WordOf(p) \in StatusWord
  BY CollectOK DEF IInv
<1>2. p \in Nat
  BY PidsAreNumbers
<1> QED BY <1>1, <1>2, LearnsGood, PushedOK DEF IInv, bg_done_record

(* reap_background_children collects one child, or is done.                *)
LEMMA ReapStep == ASSUME IInv, reap_background_children PROVE IInv'
<1>1. ShellOK' /\ HistoryOK'
  BY ShellKept, HistoryKept DEF reap_background_children
<1>2. KernelOK' /\ Good(table') /\ Remembers(ring')
  <2>1. CASE bgCount /\ \E p \in Children : Zombie(p)
    <3>1. PICK p \in Children : Collect(p) /\ bg_done_record(p, WordOf(p))
      BY <2>1 DEF reap_background_children
    <3> QED BY <3>1, Filed DEF Children
  <2>2. CASE ~(bgCount /\ \E p \in Children : Zombie(p))
    BY <2>2, KernelKept, TableKept, RingKept DEF reap_background_children
  <2> QED BY <2>1, <2>2
<1>3. PlaceOK'
  BY DEF reap_background_children, IInv, PlaceOK
<1> QED BY <1>1, <1>2, <1>3, Parts

(* A range begins or ends.                                                 *)
LEMMA RangeStep == ASSUME IInv, RangeStart \/ RangeEnd PROVE IInv'
<1>1. KernelOK' /\ Good(table') /\ Remembers(ring') /\ HistoryOK'
  BY KernelKept, TableKept, RingKept, HistoryKept DEF RangeStart, RangeEnd
<1>2. ShellOK'
  BY DEF RangeStart, RangeEnd, IInv, ShellOK, NoReply
<1>3. PlaceOK'
  BY PollThenOK DEF RangeStart, RangeEnd, IInv, PlaceOK
<1> QED BY <1>1, <1>2, <1>3, Parts

(* job_notify_async: a script announces deaths by a signal.                *)
LEMMA AsyncStep == ASSUME IInv, job_notify_async PROVE IInv'
<1>1. KernelOK' /\ Remembers(ring') /\ ShellOK' /\ HistoryOK'
  BY KernelKept, RingKept, ShellKept, PrintedOK DEF job_notify_async
<1>2. Good(table')
  <2>1. {s \in WithStatus(table, "killed") :
           ~table.jobs[s].notified /\ sig_worth_announcing(table.jobs[s].raw.n)}
        \subseteq Occupied(table)
    BY DEF WithStatus
  <2> QED BY <2>1, RemoveGood DEF job_notify_async, IInv
<1>3. PlaceOK'
  BY DEF job_notify_async, IInv, PlaceOK
<1> QED BY <1>1, <1>2, <1>3, Parts

(* `cmd &`: the child leads a group of its own; the job is added once the  *)
(* poll is over.                                                           *)
LEMMA BackgroundStep ==
  ASSUME IInv, execute_range_background \/ BackgroundAdded
  PROVE  IInv'
<1>1. CASE execute_range_background
  <2> DEFINE p == Least(Fresh)
  <2>1. p \in Pids /\ p \in Nat /\ p \in 1 .. NPids + 1
    BY <1>1, LeastFresh, PidsAreNumbers, JobControlAssumption
       DEF execute_range_background, Pids
  <2>2. /\ proc' = [proc EXCEPT ![p] = Forked(p)]
        /\ lastBg' = p /\ target' = p /\ launched' = launched \cup {p}
        /\ PollThen("bgadd")
        /\ UNCHANGED <<table, ring, fgvars, exiting, reply, told, swept, shown,
                       typed, turns>>
    BY <1>1 DEF execute_range_background
  <2> HIDE DEF p
  <2>3. KernelOK'
    <3>1. Grouped(Forked(p))
      BY <2>1 DEF Grouped, Forked, Process, ProcessStates, StatusWord, NoStatus
    <3> QED BY <2>2, <3>1 DEF IInv, KernelOK, Grouped
  <2>4. Good(table') /\ Remembers(ring')
    BY <2>2, TableKept, RingKept
  <2>5. ShellOK' /\ HistoryOK'
    BY <2>1, <2>2 DEF IInv, ShellOK, HistoryOK
  <2>6. PlaceOK'
    BY <2>1, <2>2, PollThenOK DEF IInv, PlaceOK
  <2> QED BY <2>3, <2>4, <2>5, <2>6, Parts
<1>2. CASE BackgroundAdded
  <2>1. KernelOK' /\ Remembers(ring') /\ ShellOK' /\ HistoryOK'
    BY <1>2, KernelKept, RingKept, ShellKept, HistoryKept DEF BackgroundAdded
  <2>2. target \in 1 .. NPids + 1
    BY <1>2, JobControlAssumption DEF BackgroundAdded, IInv, PlaceOK, Pids
  <2>3. Good(table')
    BY <1>2, <2>2, AddGood DEF BackgroundAdded, IInv
  <2>4. PlaceOK'
    BY <1>2 DEF BackgroundAdded, IInv, PlaceOK
  <2> QED BY <2>1, <2>3, <2>4, Parts
<1> QED BY <1>1, <1>2

(* A foreground pipeline begins or ends.                                   *)
LEMMA PipelineStep == ASSUME IInv, execute_pipeline \/ PipelineDone PROVE IInv'
<1>1. KernelOK' /\ Good(table') /\ Remembers(ring') /\ HistoryOK'
  BY KernelKept, TableKept, RingKept, HistoryKept DEF execute_pipeline, PipelineDone
<1>2. ShellOK'
  <2>1. CASE execute_pipeline
    <3>1. stages' \in Seq(Pids)
      BY <2>1 DEF execute_pipeline
    <3>2. todo' \in Int
      BY <2>1, JobControlAssumption DEF execute_pipeline
    <3> QED BY <2>1, <3>1, <3>2 DEF execute_pipeline, IInv, ShellOK
  <2>2. CASE PipelineDone
    BY <2>2, ShellKept DEF PipelineDone
  <2> QED BY <2>1, <2>2
<1>3. PlaceOK'
  <2>1. CASE execute_pipeline
    <3>1. (pc' = "stage" /\ UNCHANGED polling) \/ PollThen("stage")
      BY <2>1 DEF execute_pipeline
    <3>2. target' = target
      BY <2>1 DEF execute_pipeline
    <3> QED BY <3>1, <3>2, PollThenOK DEF IInv, PlaceOK
  <2>2. CASE PipelineDone
    BY <2>2 DEF PipelineDone, IInv, PlaceOK
  <2> QED BY <2>1, <2>2
<1> QED BY <1>1, <1>2, <1>3, Parts

(* A stage is forked into its group.                                       *)
LEMMA ForkStep == ASSUME IInv, ForkStage PROVE IInv'
<1> DEFINE p == Least(Fresh)
<1>1. p \in Pids
  BY LeastFresh DEF ForkStage
<1>2. /\ proc' = [proc EXCEPT ![p] = Forked(StageGroup(p))]
      /\ stages' = Append(stages, p)
  BY DEF ForkStage
<1> HIDE DEF p
<1>3. StageGroup(p) \in 1 .. NPids + 1
  <2>1. stages # <<>> => stages[1] \in Pids
    BY DEF IInv, ShellOK
  <2> QED BY <1>1, <2>1, JobControlAssumption DEF StageGroup, Pids, ShellGroup
<1>4. KernelOK'
  <2>1. Grouped(Forked(StageGroup(p)))
    BY <1>3, JobControlAssumption
       DEF Grouped, Forked, Process, ProcessStates, StatusWord, NoStatus
  <2> QED BY <1>2, <2>1 DEF IInv, KernelOK, Grouped
<1>5. Good(table') /\ Remembers(ring') /\ HistoryOK'
  BY TableKept, RingKept, HistoryKept DEF ForkStage
<1>6. ShellOK'
  <2>1. stages' \in Seq(Pids)
    BY <1>1, <1>2 DEF IInv, ShellOK
  <2>2. todo' \in Int
    BY DEF IInv, ShellOK, ForkStage
  <2> QED BY <2>1, <2>2 DEF IInv, ShellOK, ForkStage
<1>7. PlaceOK'
  BY DEF IInv, PlaceOK, ForkStage
<1> QED BY <1>4, <1>5, <1>6, <1>7, Parts

(* A command substitution run in the parent reaps.                         *)
LEMMA ExpandStep == ASSUME IInv, ExpandInParent PROVE IInv'
<1>1. PICK p \in Children : Collect(p) /\ bg_done_record(p, WordOf(p))
  BY DEF ExpandInParent
<1>2. KernelOK' /\ Good(table') /\ Remembers(ring')
  BY <1>1, Filed DEF Children
<1>3. ShellOK' /\ HistoryOK'
  BY ShellKept, HistoryKept DEF ExpandInParent
<1>4. PlaceOK'
  BY DEF ExpandInParent, IInv, PlaceOK
<1> QED BY <1>2, <1>3, <1>4, Parts

(* A stage that stopped becomes a job: its group is a real one.            *)
LEMMA StageWaited == ASSUME IInv, exe_res_set_status PROVE IInv'
<1> DEFINE p == Head(stages)
<1>1. p \in Pids
  BY DEF exe_res_set_status, IInv, ShellOK
<1>2. /\ p \in Ready({p}, TRUE, FALSE) /\ Collect(p)
      /\ IF Zombie(p) THEN UNCHANGED table ELSE fg_job_stopped(p)
      /\ stages' = Tail(stages)
  BY DEF exe_res_set_status
<1>3. stages' \in Seq(Pids)
  BY DEF exe_res_set_status, IInv, ShellOK
<1> HIDE DEF p
<1>4. KernelOK'
  BY <1>1, <1>2, CollectOK DEF IInv
<1>5. Good(table')
  <2>1. CASE Zombie(p)
    BY <1>2, <2>1, TableKept
  <2>2. CASE ~Zombie(p)
    <3> DEFINE free == Slots \ Occupied(table)
    <3>1. fg_job_stopped(p) /\ Good(table)
      BY <1>2, <2>2 DEF IInv
    <3>2. CASE free = {}
      BY <3>1, <3>2 DEF fg_job_stopped
    <3>3. CASE free # {}
      <4>1. Least(free) \in Slots
        <5>1. free \subseteq Slots
          OBVIOUS
        <5> HIDE DEF free
        <5> QED BY <3>3, <5>1, LeastSlot
      <4>2. proc[p].pgid \in 1 .. NPids + 1
        <5>1. Grouped(proc[p]) /\ proc[p].st # "none"
          BY <1>1, <1>2, <2>2 DEF IInv, KernelOK, Ready
        <5> QED BY <5>1, JobControlAssumption DEF Grouped, Process
      <4>3. StoppedWord \in StatusWord
        BY DEF StoppedWord, StatusWord
      <4> QED BY <3>1, <3>3, <4>1, <4>2, <4>3, AddGood, RecordGood DEF fg_job_stopped
    <3> QED BY <3>2, <3>3
  <2> QED BY <2>1, <2>2
<1>6. Remembers(ring') /\ HistoryOK'
  BY RingKept, HistoryKept DEF exe_res_set_status
<1>7. ShellOK'
  BY <1>3 DEF exe_res_set_status, IInv, ShellOK
<1>8. PlaceOK'
  BY DEF exe_res_set_status, IInv, PlaceOK
<1> QED BY <1>4, <1>5, <1>6, <1>7, <1>8, Parts

(* The wait builtin resolves its argument.                                 *)
LEMMA WaitStep == ASSUME IInv, builtin_wait PROVE IInv'
<1>1. KernelOK' /\ Good(table') /\ Remembers(ring') /\ ShellOK' /\ HistoryOK'
  BY KernelKept, TableKept, RingKept, ShellKept, HistoryKept DEF builtin_wait
<1>2. \A g \in GroupsOf(Occupied(table)) : g # ShellGroup => g \in Pids
  BY JobControlAssumption DEF IInv, Good, GroupsOf, Occupied, ShellGroup, Pids
<1>3. \A p \in launched \cup GroupsOf(Occupied(table)) : p # ShellGroup => p \in Pids
  BY <1>2 DEF IInv, HistoryOK
<1>4. PlaceOK'
  <2>1. UNCHANGED polling
    BY DEF builtin_wait
  <2>2. CASE pc' = "waitOne" /\ target' \in Pids
    BY <2>1, <2>2, PidsAreNumbers DEF IInv, PlaceOK
  <2>3. CASE /\ target' = target
             /\ pc' \in {"waitNext", "waitDrain", "waitDrain0"}
    BY <2>1, <2>3 DEF IInv, PlaceOK
  <2> QED BY <1>3, <2>2, <2>3 DEF builtin_wait
<1> QED BY <1>1, <1>4, Parts

(* One zombie is collected, remembered and taken back, and its job learns. *)
LEMMA Answered ==
  ASSUME IInv, NEW p \in Pids, Collect(p)
  PROVE  /\ KernelOK' /\ proc[p].raw \in StatusWord /\ CodeOf(proc[p].raw) \in Nat
         /\ Remembers(Taken(Pushed(p, proc[p].raw), p))
         /\ Good(TableLearns(table, p, proc[p].raw))
         /\ Good(job_purge_done(TableLearns(table, p, proc[p].raw)))
<1>1. KernelOK' /\ proc[p].raw \in StatusWord
  BY CollectOK DEF IInv
<1>2. p \in Nat
  BY PidsAreNumbers
<1>3. Remembers(Taken(Pushed(p, proc[p].raw), p))
  BY <1>1, <1>2, PushedOK, TakenOK DEF IInv
<1>4. Good(TableLearns(table, p, proc[p].raw))
  BY <1>1, LearnsGood DEF IInv
<1> QED BY <1>1, <1>3, <1>4, PurgeGood, CodeIsNumber

(* wait pid collects the child.                                            *)
LEMMA WaitOneStep == ASSUME IInv, wait_one PROVE IInv'
<1>1. target \in Pids /\ target \in Nat
  BY PidsAreNumbers DEF wait_one, IInv, PlaceOK
<1>2. /\ Collect(target)
      /\ ring' = Taken(Pushed(target, proc[target].raw), target)
      /\ table' = job_purge_done(TableLearns(table, target, proc[target].raw))
      /\ Answer(target, CodeOf(proc[target].raw)) /\ told' = told \cup {target}
  BY DEF wait_one
<1>3. KernelOK' /\ Good(table') /\ Remembers(ring') /\ CodeOf(proc[target].raw) \in Nat
  BY <1>1, <1>2, Answered
<1>4. ShellOK'
  BY <1>1, <1>2, <1>3, AnswerOK DEF wait_one, IInv, ShellOK
<1>5. HistoryOK'
  BY <1>1, <1>2 DEF wait_one, IInv, HistoryOK
<1>6. PlaceOK'
  BY DEF wait_one, IInv, PlaceOK
<1> QED BY <1>3, <1>4, <1>5, <1>6, Parts

(* wait -n collects any child, or has none.                                *)
LEMMA WaitNextStep == ASSUME IInv, wait_n PROVE IInv'
<1>1. PlaceOK'
  BY DEF wait_n, IInv, PlaceOK
<1>2. CASE Children = {} /\ Answer(0, 127) /\ UNCHANGED <<proc, ring, table, told>>
  <2>1. KernelOK' /\ Good(table') /\ Remembers(ring') /\ HistoryOK'
    BY <1>2, KernelKept, TableKept, RingKept, HistoryKept DEF wait_n
  <2>2. ShellOK'
    BY <1>2, AnswerOK DEF wait_n, IInv, ShellOK
  <2> QED BY <1>1, <2>1, <2>2, Parts
<1>3. ASSUME NEW p \in Children, Zombie(p), Collect(p),
             ring' = Taken(Pushed(p, proc[p].raw), p),
             table' = job_purge_done(TableLearns(table, p, proc[p].raw)),
             Answer(p, CodeOf(proc[p].raw)), told' = told \cup {p}
      PROVE  IInv'
  <2>1. p \in Pids /\ p \in Nat
    BY PidsAreNumbers DEF Children
  <2>2. KernelOK' /\ Good(table') /\ Remembers(ring') /\ CodeOf(proc[p].raw) \in Nat
    BY <1>3, <2>1, Answered
  <2>3. ShellOK'
    BY <1>3, <2>1, <2>2, AnswerOK DEF wait_n, IInv, ShellOK
  <2>4. HistoryOK'
    BY <1>3, <2>1 DEF wait_n, IInv, HistoryOK
  <2> QED BY <1>1, <2>2, <2>3, <2>4, Parts
<1> QED BY <1>2, <1>3 DEF wait_n

(* The job a lost child's answer is read from is one of the table.         *)
LEMMA ReapedStep == ASSUME IInv, reaped_job_status PROVE IInv'
<1> DEFINE p == target
           job == IF job_find_pgid(table, p) = {} THEN {}
                  ELSE {Least(job_find_pgid(table, p))}
           hits == Remembered(p)
           over == {s \in job : job_finished(table.jobs[s])}
           code == IF hits # {}
                   THEN LET w == ring.slot[Least(hits)].raw
                        IN  IF w.how \in {"exit", "sig"} THEN CodeOf(w) ELSE 127
                   ELSE IF over # {} THEN table.jobs[Least(over)].code
                   ELSE 127
<1>1. p \in Pids /\ p \in Nat /\ p # 0
  BY PidsAreNumbers DEF reaped_job_status, IInv, PlaceOK, Pids
<1>2. job \subseteq Occupied(table) /\ over \subseteq job
  <2>1. job_find_pgid(table, p) \subseteq Occupied(table)
    BY <1>1 DEF job_find_pgid, Occupied
  <2>2. job_find_pgid(table, p) # {}
          => Least(job_find_pgid(table, p)) \in job_find_pgid(table, p)
    BY LeastSlot DEF job_find_pgid
  <2> QED BY <2>1, <2>2
<1>3. code \in Nat
  <2>1. CASE hits # {}
    <3>1. hits \subseteq Nat
      BY DEF Remembered, RingSlots
    <3>2. Least(hits) \in RingSlots
      <4> HIDE DEF hits
      <4>1. Least(hits) \in hits
        BY <2>1, <3>1, LeastIsLeast
      <4> QED BY <4>1 DEF hits, Remembered
    <3>3. ring.slot[Least(hits)].raw \in StatusWord
      BY <3>2 DEF IInv, Remembers
    <3> HIDE DEF hits
    <3> QED BY <2>1, <3>3, CodeIsNumber
  <2>2. CASE hits = {} /\ over # {}
    <3>1. over \subseteq Slots
      BY <1>2 DEF Occupied
    <3> HIDE DEF over
    <3>2. Least(over) \in Slots
      BY <2>2, <3>1, LeastSlot
    <3>3. table.jobs[Least(over)].code \in Nat
      BY <3>2 DEF IInv, Good, TableOK, Table, Job
    <3> QED BY <2>2, <3>3
  <2> QED BY <2>1, <2>2
<1>4. /\ pc = "waitOne" /\ pc' = "next"
      /\ ring' = Taken(ring, p)
      /\ table' = IF hits # {} THEN job_remove(table, job) ELSE job_remove(table, over)
      /\ Answer(p, code)
      /\ told' = IF code = 127 THEN told ELSE told \cup {p}
      /\ UNCHANGED <<kernel, lastBg, polling, target, fgvars, exiting, launched,
                     swept, shown, typed, turns>>
  BY DEF reaped_job_status
<1> HIDE DEF job, over, code, hits
<1>5. Good(table')
  <2>1. over \subseteq Occupied(table)
    BY <1>2
  <2> QED BY <1>2, <1>4, <2>1, RemoveGood DEF IInv
<1>6. KernelOK' /\ Remembers(ring')
  BY <1>4, KernelKept, TakenOK DEF IInv
<1>7. ShellOK'
  BY <1>1, <1>3, <1>4, AnswerOK DEF IInv, ShellOK
<1>8. HistoryOK'
  BY <1>1, <1>4 DEF IInv, HistoryOK
<1>9. PlaceOK'
  BY <1>4 DEF IInv, PlaceOK
<1> QED BY <1>5, <1>6, <1>7, <1>8, <1>9, Parts

(* A bare wait collects what is there.                                     *)
LEMMA WaitDrainStep == ASSUME IInv, wait_drain PROVE IInv'
<1>1. ShellOK'
  BY ShellKept DEF wait_drain
<1>2. PlaceOK'
  BY DEF wait_drain, WaitAllEnd, IInv, PlaceOK
<1>3. ASSUME NEW p \in Children, Sweep(p), table' = TableLearns(table, p, proc[p].raw)
      PROVE  KernelOK' /\ Good(table') /\ Remembers(ring') /\ HistoryOK'
  <2>1. p \in Pids
    BY DEF Children
  <2>2. KernelOK' /\ Good(table') /\ Remembers(ring')
    BY <1>3, <2>1, Answered DEF Sweep
  <2>3. HistoryOK'
    BY <1>3, <2>1 DEF Sweep, wait_drain, IInv, HistoryOK
  <2> QED BY <2>2, <2>3
<1>4. ASSUME UNCHANGED <<proc, table, ring, swept>>
      PROVE  KernelOK' /\ Good(table') /\ Remembers(ring') /\ HistoryOK'
  BY <1>4, KernelKept, TableKept, RingKept, HistoryKept DEF wait_drain
<1>5. ASSUME WaitAllEnd
      PROVE  KernelOK' /\ Good(table') /\ Remembers(ring') /\ HistoryOK'
  <2>1. KernelOK' /\ Remembers(ring') /\ HistoryOK'
    BY <1>5, KernelKept, RingKept, HistoryKept DEF wait_drain, WaitAllEnd
  <2>2. Good(table')
    BY <1>5, NotifiedGood, PurgeGood DEF WaitAllEnd, job_mark_reported_except, IInv
  <2> QED BY <2>1, <2>2
<1> QED BY <1>1, <1>2, <1>3, <1>4, <1>5, Parts DEF wait_drain

(* A bare wait collects while the first unfinished job runs.               *)
LEMMA WaitOrderStep == ASSUME IInv, wait_in_order PROVE IInv'
<1> DEFINE head == ByNumber(table, Unfinished(table))
<1>1. ShellOK'
  BY ShellKept DEF wait_in_order
<1>2. PlaceOK'
  BY DEF wait_in_order, IInv, PlaceOK
<1>3. ASSUME NEW p \in Children, Sweep(p),
             LET T == TableLearns(table, p, proc[p].raw)
             IN  table' = IF p = table.jobs[head].pgid
                          THEN Notified(T, {Least(job_find_pgid(T, p))})
                          ELSE T
      PROVE  KernelOK' /\ Good(table') /\ Remembers(ring') /\ HistoryOK'
  <2>1. p \in Pids
    BY DEF Children
  <2>2. KernelOK' /\ Good(TableLearns(table, p, proc[p].raw)) /\ Remembers(ring')
    BY <1>3, <2>1, Answered DEF Sweep
  <2>3. Good(table')
    BY <1>3, <2>2, NotifiedGood
  <2>4. HistoryOK'
    BY <1>3, <2>1 DEF Sweep, wait_in_order, IInv, HistoryOK
  <2> QED BY <2>2, <2>3, <2>4
<1>4. ASSUME UNCHANGED <<proc, table, ring, swept>>
      PROVE  KernelOK' /\ Good(table') /\ Remembers(ring') /\ HistoryOK'
  BY <1>4, KernelKept, TableKept, RingKept, HistoryKept DEF wait_in_order
<1> QED BY <1>1, <1>2, <1>3, <1>4, Parts DEF wait_in_order

(* The jobs builtin polls.                                                 *)
LEMMA JobsStep == ASSUME IInv, builtin_jobs PROVE IInv'
<1>1. KernelOK' /\ Good(table') /\ Remembers(ring') /\ ShellOK' /\ HistoryOK'
  BY KernelKept, TableKept, RingKept, ShellKept, HistoryKept DEF builtin_jobs
<1>2. PlaceOK'
  BY PollThenOK DEF builtin_jobs, IInv, PlaceOK
<1> QED BY <1>1, <1>2, Parts

(* The jobs builtin reports one finished job, or retires them all.         *)
LEMMA ListStep == ASSUME IInv, ListJobs PROVE IInv'
<1> DEFINE news == {s \in Finished(table) : ~table.jobs[s].notified}
           s == ByNumber(table, news)
           j == table.jobs[s]
<1>1. KernelOK' /\ ShellOK'
  BY KernelKept, ShellKept DEF ListJobs
<1>2. PlaceOK'
  BY DEF ListJobs, IInv, PlaceOK
<1>3. CASE news # {}
  <2>1. s \in Slots
    <3>1. news \subseteq Slots /\ table \in Table
      BY DEF Finished, Occupied, IInv, Good, TableOK
    <3> HIDE DEF news
    <3> QED BY <1>3, <3>1, ByNumberIn
  <2>2. j.pgid \in Nat /\ j.raw \in StatusWord
    <3> HIDE DEF s
    <3> QED BY <2>1 DEF IInv, Good, TableOK, Table, Job
  <2>3. /\ ring' = Pushed(j.pgid, j.raw)
        /\ table' = TableLearns(Notified(table, {s}), j.pgid, j.raw)
        /\ Printed({j.pgid})
    BY <1>3 DEF ListJobs
  <2> HIDE DEF j, s
  <2>4. Good(table') /\ Remembers(ring')
    BY <2>2, <2>3, NotifiedGood, LearnsGood, PushedOK DEF IInv
  <2>5. HistoryOK'
    BY <2>3, PrintedOK DEF ListJobs
  <2> QED BY <1>1, <1>2, <2>4, <2>5, Parts
<1>4. CASE news = {}
  <2>1. table' = job_purge_reported(table) /\ UNCHANGED <<ring, shown>>
    BY <1>4 DEF ListJobs
  <2>2. Good(table') /\ Remembers(ring')
    BY <2>1, PurgeGood DEF IInv
  <2>3. HistoryOK'
    BY <2>1, HistoryKept DEF ListJobs
  <2> QED BY <1>1, <1>2, <2>2, <2>3, Parts
<1> QED BY <1>3, <1>4

-----------------------------------------------------------------------------
(* fg, bg, kill.                                                           *)

(* fg continues a job.                                                     *)
LEMMA FgStep == ASSUME IInv, builtin_fg PROVE IInv'
<1>1. PICK s \in Occupied(table) :
        /\ target' = s
        /\ table' = [table EXCEPT !.jobs[s].status = "running"]
        /\ proc' = KillGroups({table.jobs[s].pgid}, <<"CONT">>)
  BY DEF builtin_fg
<1>2. s \in Slots /\ s \in Nat
  BY DEF Occupied, Slots
<1>3. KernelOK'
  <2>1. <<"CONT">> \in Seq(SignalNames) /\ Len(<<"CONT">>) \in {1, 2}
    BY SignalLists DEF SignalNames
  <2> QED BY <1>1, <2>1, KillGroupsOK DEF IInv
<1>4. Good(table') /\ Occupied(table') = Occupied(table)
  BY <1>1, <1>2, StatusGood DEF IInv, JobStatus
<1>5. Remembers(ring') /\ ShellOK' /\ HistoryOK'
  BY RingKept, ShellKept, HistoryKept DEF builtin_fg
<1>6. PlaceOK'
  BY <1>1, <1>2, <1>4 DEF builtin_fg, IInv, PlaceOK
<1> QED BY <1>3, <1>4, <1>5, <1>6, Parts

(* fg waits for its job.                                                   *)
LEMMA FgWaitStep == ASSUME IInv, fg_wait_result PROVE IInv'
<1> DEFINE g == table.jobs[target].pgid
           result(w) == /\ table' = IF w.how = "stop"
                                    THEN [table EXCEPT !.jobs[target].status = "stopped"]
                                    ELSE job_remove(table, {target})
                        /\ Answer(g, IF w.how = "stop" THEN 148 ELSE CodeOf(w))
<1>1. target \in Occupied(table) /\ target \in Slots /\ g \in Nat
  BY DEF fg_wait_result, IInv, PlaceOK, Occupied, Good, TableOK, Table, Job
<1>2. ASSUME NEW w \in StatusWord, result(w)
      PROVE  Good(table') /\ ShellOK'
  <2>1. Good(table')
    <3>1. {target} \subseteq Occupied(table)
      BY <1>1
    <3> QED BY <1>1, <1>2, <3>1, StatusGood, RemoveGood DEF IInv, JobStatus
  <2>2. reply' \in [pid : Nat, code : Nat]
    <3> HIDE DEF g
    <3>1. (IF w.how = "stop" THEN 148 ELSE CodeOf(w)) \in Nat
      BY CodeIsNumber
    <3> QED BY <1>1, <1>2, <3>1, AnswerOK
  <2>3. ShellOK'
    BY <2>2 DEF fg_wait_result, IInv, ShellOK
  <2> QED BY <2>1, <2>3
<1>3. Remembers(ring')
  BY RingKept DEF fg_wait_result
<1>4. PlaceOK'
  BY DEF fg_wait_result, IInv, PlaceOK
<1>5. CASE \E q \in Ready(Group(g), TRUE, FALSE) :
             /\ Collect(q) /\ result(WordOf(q))
             /\ told' = IF Zombie(q) THEN told \cup {q} ELSE told
  <2>1. PICK q \in Ready(Group(g), TRUE, FALSE) :
          /\ Collect(q) /\ result(WordOf(q))
          /\ told' = IF Zombie(q) THEN told \cup {q} ELSE told
    BY <1>5
  <2>2. q \in Pids
    BY DEF Ready, Group, Children
  <2>3. KernelOK' /\ WordOf(q) \in StatusWord
    BY <2>1, <2>2, CollectOK DEF IInv
  <2>4. Good(table') /\ ShellOK'
    BY <1>2, <2>1, <2>3
  <2>5. HistoryOK'
    BY <2>1, <2>2 DEF fg_wait_result, IInv, HistoryOK
  <2> QED BY <1>3, <1>4, <2>3, <2>4, <2>5, Parts
<1>6. CASE /\ \E w \in AnyWord : result(w)
           /\ UNCHANGED <<proc, told>>
  <2>1. PICK w \in AnyWord : result(w)
    BY <1>6
  <2>2. w \in StatusWord
    BY DEF AnyWord, StoppedWord, Exited, StatusWord
  <2>3. Good(table') /\ ShellOK'
    BY <1>2, <2>1, <2>2
  <2>4. KernelOK' /\ HistoryOK'
    BY <1>6, KernelKept, HistoryKept DEF fg_wait_result
  <2> QED BY <1>3, <1>4, <2>3, <2>4, Parts
<1> QED BY <1>5, <1>6 DEF fg_wait_result

(* bg continues a job.                                                     *)
LEMMA BgStep == ASSUME IInv, builtin_bg PROVE IInv'
<1>1. PICK s \in WithStatus(table, "stopped") :
        /\ table' = [table EXCEPT !.jobs[s].status = "running"]
        /\ proc' = KillGroups({table.jobs[s].pgid}, <<"CONT">>)
  BY DEF builtin_bg
<1>2. s \in Slots
  BY DEF WithStatus, Occupied
<1>3. KernelOK'
  <2>1. <<"CONT">> \in Seq(SignalNames) /\ Len(<<"CONT">>) \in {1, 2}
    BY SignalLists DEF SignalNames
  <2> QED BY <1>1, <2>1, KillGroupsOK DEF IInv
<1>4. Good(table')
  BY <1>1, <1>2, StatusGood DEF IInv, JobStatus
<1>5. Remembers(ring') /\ ShellOK' /\ HistoryOK'
  BY RingKept, ShellKept, HistoryKept DEF builtin_bg
<1>6. PlaceOK'
  BY DEF builtin_bg, IInv, PlaceOK
<1> QED BY <1>3, <1>4, <1>5, <1>6, Parts

(* kill %n signals a group.                                                *)
LEMMA KillStep == ASSUME IInv, job_kill_group PROVE IInv'
<1>1. PICK s \in Occupied(table), sig \in Kills :
        proc' = KillGroups({table.jobs[s].pgid},
                           IF table.jobs[s].status = "stopped" /\ sig # "STOP"
                           THEN <<sig, "CONT">> ELSE <<sig>>)
  BY DEF job_kill_group
<1> DEFINE sigs == IF table.jobs[s].status = "stopped" /\ sig # "STOP"
                   THEN <<sig, "CONT">> ELSE <<sig>>
<1>2. sig \in SignalNames /\ "CONT" \in SignalNames
  BY JobControlAssumption DEF SignalNames
<1>3. sigs \in Seq(SignalNames) /\ Len(sigs) \in {1, 2}
  BY <1>2, SignalLists
<1>4. KernelOK'
  <2> HIDE DEF sigs
  <2>1. proc' = KillGroups({table.jobs[s].pgid}, sigs)
    BY <1>1 DEF sigs
  <2> QED BY <1>3, <2>1, KillGroupsOK DEF IInv
<1>5. Good(table') /\ Remembers(ring') /\ ShellOK' /\ HistoryOK'
  BY TableKept, RingKept, ShellKept, HistoryKept DEF job_kill_group
<1>6. PlaceOK'
  BY DEF job_kill_group, IInv, PlaceOK
<1> QED BY <1>4, <1>5, <1>6, Parts

-----------------------------------------------------------------------------
(* Leaving.                                                                *)

(* The user asks to leave.                                                 *)
LEMMA ExitStep == ASSUME IInv, builtin_exit \/ handle_eof PROVE IInv'
<1>1. KernelOK' /\ Good(table') /\ Remembers(ring') /\ ShellOK'
  BY KernelKept, TableKept, RingKept, ShellKept DEF builtin_exit, handle_eof
<1>2. HistoryOK'
  BY DEF builtin_exit, handle_eof, StoppedNow, IInv, HistoryOK
<1>3. PlaceOK'
  BY PollThenOK DEF builtin_exit, handle_eof, IInv, PlaceOK
<1> QED BY <1>1, <1>2, <1>3, Parts

(* The guard refuses, or lets the shell go.                                *)
LEMMA GuardStep == ASSUME IInv, exit_stopped_guard PROVE IInv'
<1>1. KernelOK' /\ Good(table') /\ Remembers(ring')
  BY KernelKept, TableKept, RingKept DEF exit_stopped_guard
<1>2. ShellOK'
  <2>1. warned' \in BOOLEAN /\ attempt' \in BOOLEAN
    BY Zenon DEF exit_stopped_guard, IInv, ShellOK
  <2> QED BY <2>1 DEF exit_stopped_guard, IInv, ShellOK
<1>3. HistoryOK'
  BY DEF exit_stopped_guard, IInv, HistoryOK
<1>4. PlaceOK'
  BY DEF exit_stopped_guard, IInv, PlaceOK
<1> QED BY <1>1, <1>2, <1>3, <1>4, Parts

(* The shell hangs its jobs up and waits a while.                          *)
LEMMA HangupStep == ASSUME IInv, hangup_every_job \/ AwaitHangup PROVE IInv'
<1>1. Good(table') /\ Remembers(ring') /\ HistoryOK'
  BY TableKept, RingKept, HistoryKept DEF hangup_every_job, AwaitHangup
<1>2. KernelOK'
  <2>1. CASE proc' = KillGroups(GroupsOf(Unfinished(table)), <<"HUP", "CONT">>)
    <3>1. /\ <<"HUP", "CONT">> \in Seq(SignalNames)
          /\ Len(<<"HUP", "CONT">>) \in {1, 2}
      BY SignalLists DEF SignalNames
    <3> QED BY <2>1, <3>1, KillGroupsOK DEF IInv
  <2>2. CASE UNCHANGED proc
    BY <2>2, KernelKept
  <2> QED BY <2>1, <2>2 DEF hangup_every_job, AwaitHangup
<1>3. ShellOK'
  BY DEF hangup_every_job, AwaitHangup, IInv, ShellOK
<1>4. PlaceOK'
  BY PollThenOK DEF hangup_every_job, AwaitHangup, IInv, PlaceOK
<1> QED BY <1>1, <1>2, <1>3, <1>4, Parts

-----------------------------------------------------------------------------
(* The theorems.                                                           *)

(* Every step of a session keeps the invariant.                            *)
LEMMA NextStep == ASSUME IInv, [Next]_vars PROVE IInv'
<1>1. CASE UNCHANGED vars
  BY <1>1, StutterStep
<1>2. CASE Kernel
  BY <1>2, KernelStep
<1>3. CASE Internal
  BY <1>3, PollStep, PromptStep, NotifyStep, ReapStep, RangeStep, AsyncStep,
     BackgroundStep, ForkStep, ExpandStep, StageWaited, PipelineStep, WaitOneStep,
     ReapedStep, WaitNextStep, WaitDrainStep, WaitOrderStep, ListStep, FgWaitStep,
     GuardStep, HangupStep
     DEF Internal
<1>4. CASE User
  BY <1>4, ReadLineStep, ExitStep, BackgroundStep, PipelineStep, WaitStep, JobsStep,
     FgStep, BgStep, KillStep
     DEF User, Command
<1> QED BY <1>1, <1>2, <1>3, <1>4 DEF Next

(* What the runs check follows from the invariant.                         *)
LEMMA Consequences == IInv => TypeOK /\ TableWellFormed
<1> SUFFICES ASSUME IInv PROVE TypeOK /\ TableWellFormed
  OBVIOUS
<1>1. table \in Table /\ TableWellFormed
  BY DEF IInv, Good, TableOK, TableWellFormed
<1>2. proc \in [Pids -> Process]
  BY DEF IInv, KernelOK
<1>3. TypeOK
  BY <1>1, <1>2 DEF IInv, Remembers, PlaceOK, ShellOK, HistoryOK, TypeOK, Process
<1> QED BY <1>1, <1>3

(* The invariant holds in every reachable state.                           *)
THEOREM Inductive == Spec => []IInv
<1>1. Init => IInv
  BY InitHolds
<1>2. IInv /\ [Next]_vars => IInv'
  BY NextStep
<1> QED BY <1>1, <1>2, PTL DEF Spec

(* Every variable keeps its type: the status decoder, the ring and the     *)
(* builtins never leave the domains their C declarations give.             *)
THEOREM Typed == Spec => []TypeOK
<1>1. IInv => TypeOK
  BY Consequences
<1> QED BY <1>1, Inductive, PTL

(* Whatever the order of forks, deaths, polls, reaps, listings and         *)
(* removals, job numbers are unique, the count is the number of entries    *)
(* and '+' and '-' name two different jobs of the table or none.           *)
THEOREM WellFormed == Spec => []TableWellFormed
<1>1. IInv => TableWellFormed
  BY Consequences
<1> QED BY <1>1, Inductive, PTL

(* The loops of src/job_control compute what JobTable says on every table  *)
(* a session reaches, whatever the number of slots: no order of removals   *)
(* lets '+' or '-' come to rest on a job that is going too.                *)
THEOREM LoopsCompute == Spec => []LoopsAgree
<1>1. IInv => LoopsAgree
  <2>1. IInv => TableOK(table)
    BY DEF IInv, Good
  <2> QED BY <2>1, SearchesRight, RemovalsRight DEF LoopsAgree
<1> QED BY <1>1, Inductive, PTL

-----------------------------------------------------------------------------
(***************************************************************************)
(* What the shell says of its jobs is true, for any number of processes,   *)
(* slots, ring entries and exit polls: what the table says is what the     *)
(* kernel last said, what wait and fg answer is what the process died      *)
(* with, and its end is printed at most once.                              *)
(*                                                                         *)
(* Two uses are left out by hypothesis, and each is a counterexample to    *)
(* what it is left out of: fg of a job that is already over, which waits   *)
(* for nobody and answers with a word nobody wrote; and pipelines of       *)
(* several stages, whose job has one entry and several processes.          *)
(***************************************************************************)

HIDE DEF Labels, Afters

-----------------------------------------------------------------------------
(* What the operations do to the slots.                                    *)

(* job_remove frees the slots of S and leaves the others.                  *)
LEMMA RemoveJobs ==
  ASSUME NEW T \in Table, NEW S
  PROVE  /\ job_remove(T, S).jobs =
              [s \in Slots |-> IF s \in S THEN FreeSlot ELSE T.jobs[s]]
         /\ job_remove(T, S).current =
              IF {T.current, T.previous} \cap IdsOf(T, S) = {} THEN T.current
              ELSE LET U == [T EXCEPT !.jobs = [s \in Slots |-> IF s \in S THEN FreeSlot
                                                               ELSE T.jobs[s]],
                                      !.count = @ - Cardinality(S)]
                   IN  job_reelect(U, IdsOf(T, S)).current
<1> DEFINE U == [T EXCEPT !.jobs = [s \in Slots |-> IF s \in S THEN FreeSlot
                                                    ELSE T.jobs[s]],
                          !.count = @ - Cardinality(S)]
<1>1. /\ U.jobs = [s \in Slots |-> IF s \in S THEN FreeSlot ELSE T.jobs[s]]
      /\ U.current = T.current /\ U.previous = T.previous
      /\ DOMAIN U = {"jobs", "count", "current", "previous"}
  BY DEF Table
<1>2. job_remove(T, S) = job_reelect(U, IdsOf(T, S))
  BY DEF job_remove
<1> HIDE DEF U
<1>3. \A G : /\ job_reelect(U, G).jobs = U.jobs
             /\ {U.current, U.previous} \cap G = {} => job_reelect(U, G).current = U.current
  BY <1>1 DEF job_reelect
<1> QED BY <1>1, <1>2, <1>3 DEF U

(* job_add fills a free slot with a running job, or changes nothing.       *)
LEMMA AddJobs ==
  ASSUME NEW T \in Table, NEW g
  PROVE  \/ job_add(T, g) = T /\ Slots \ Occupied(T) = {}
         \/ /\ Least(Slots \ Occupied(T)) \in Slots \ Occupied(T)
            /\ job_add(T, g).jobs =
                 [T.jobs EXCEPT ![Least(Slots \ Occupied(T))] =
                    [FreeSlot EXCEPT !.id = job_next_id(T), !.pgid = g]]
            /\ job_add(T, g).current = job_next_id(T)
<1>1. Slots \ Occupied(T) # {} => Least(Slots \ Occupied(T)) \in Slots \ Occupied(T)
  BY LeastSlot
<1> QED BY <1>1 DEF job_add

(* The job of group g learns, when only one slot has that group.           *)
LEMMA LearnsJobs ==
  ASSUME NEW T \in Table, NEW p, NEW w,
         \A s, t \in Slots : T.jobs[s].pgid = p /\ T.jobs[t].pgid = p => s = t
  PROVE  TableLearns(T, p, w).jobs =
           [s \in Slots |-> IF T.jobs[s].pgid = p THEN Decoded(T.jobs[s], w) ELSE T.jobs[s]]
<1>1. CASE job_find_pgid(T, p) = {}
  BY <1>1 DEF TableLearns, job_find_pgid, Table
<1>2. CASE job_find_pgid(T, p) # {}
  <2> DEFINE s == Least(job_find_pgid(T, p))
  <2>1. s \in Slots /\ T.jobs[s].pgid = p
    <3>1. s \in job_find_pgid(T, p)
      BY <1>2, LeastSlot DEF job_find_pgid
    <3> QED BY <3>1 DEF job_find_pgid
  <2>2. TableLearns(T, p, w) = [T EXCEPT !.jobs[s] = Decoded(@, w)]
    BY <1>2 DEF TableLearns, job_record_exit
  <2> HIDE DEF s
  <2>3. TableLearns(T, p, w).jobs = [T.jobs EXCEPT ![s] = Decoded(T.jobs[s], w)]
    BY <2>1, <2>2 DEF Table
  <2>4. \A t \in Slots : T.jobs[t].pgid = p <=> t = s
    BY <2>1
  <2> QED BY <2>1, <2>3, <2>4 DEF Table
<1> QED BY <1>1, <1>2

(* The words a dead process leaves are filed as done or killed.            *)
FinalWords == {Exited(OwnExit)} \cup {Signaled(n) : n \in {1, 9, 15}}

(* Such a word is a status word whose code is what wait answers, and the   *)
(* job it is filed for is finished with that code.                         *)
LEMMA FinalDecoded ==
  ASSUME NEW j \in Job, NEW w \in FinalWords
  PROVE  /\ w \in StatusWord
         /\ job_finished(Decoded(j, w))
         /\ Decoded(j, w) = [j EXCEPT !.status = Decoded(j, w).status,
                                      !.code = CodeOf(w), !.raw = w]
         /\ CodeOf(w) \in Nat /\ CodeOf(w) # 127
         /\ w.how = "exit" => CodeOf(w) = w.n
         /\ w.how = "sig" => CodeOf(w) = 128 + w.n
<1>1. CASE w = Exited(OwnExit)
  <2>1. w \in StatusWord /\ w.how = "exit" /\ w.n = 3 /\ CodeOf(w) = 3
    BY <1>1 DEF Exited, OwnExit, CodeOf, StatusWord
  <2>2. Decoded(j, w) = [j EXCEPT !.status = "done", !.code = CodeOf(w), !.raw = w]
    BY <2>1 DEF Decoded
  <2> QED BY <2>1, <2>2 DEF Job, job_finished
<1>2. ASSUME NEW n \in {1, 9, 15}, w = Signaled(n)
      PROVE  /\ w \in StatusWord /\ w.how = "sig" /\ CodeOf(w) = 128 + n /\ w.n = n
  BY <1>2 DEF Signaled, CodeOf, StatusWord
<1>3. CASE \E n \in {1, 9, 15} : w = Signaled(n)
  <2>1. PICK n \in {1, 9, 15} : w = Signaled(n)
    BY <1>3
  <2>2. /\ w \in StatusWord /\ w.how = "sig" /\ CodeOf(w) = 128 + n /\ w.n = n
    BY <2>1, <1>2
  <2>3. Decoded(j, w) = [j EXCEPT !.status = "killed", !.code = CodeOf(w), !.raw = w]
    BY <2>2 DEF Decoded
  <2> QED BY <2>2, <2>3 DEF Job, job_finished
<1> QED BY <1>1, <1>3 DEF FinalWords

-----------------------------------------------------------------------------
(* The truth of what the shell keeps, against the processes K: `sh` is     *)
(* how often the end of each was printed.                                  *)

(* A process leads its own group or stays in the shell's, where it does    *)
(* not stop, and dies with one of the final words.                         *)
LoneProcess(p, r) ==
  /\ r.pgid \in {0, p, ShellGroup}
  /\ r.st \in {"zombie", "reaped"} => r.raw \in FinalWords
  /\ r.pgid = ShellGroup => r.st # "stop"
Lone(K) == \A p \in Pids : LoneProcess(p, K[p])

Alive(r) == r.st \in {"run", "stop", "zombie"}

(* An entry is about the leader of its group.  One that is over has the    *)
(* word and the code of a process that was collected, one that is not has  *)
(* a process still to be collected; without a pending event it says what   *)
(* the process is; and what was printed is marked as printed.              *)
JobTrue(j, r) ==
  /\ r.pgid = j.pgid
  /\ job_finished(j) => r.st = "reaped" /\ j.raw = r.raw /\ j.code = CodeOf(j.raw)
  /\ ~job_finished(j) => Alive(r)
  /\ r.event = "none" /\ r.st = "stop" => j.status = "stopped"
  /\ r.event = "none" /\ r.st = "run" => j.status = "running"

EntryTrue(j, K, sh) ==
  j.pgid # 0 => /\ j.pgid \in Pids /\ JobTrue(j, K[j.pgid])
                /\ sh[j.pgid] # 0 => j.notified

Entries(T, K, sh) == \A s \in Slots : EntryTrue(T.jobs[s], K, sh)

(* One entry for a group.                                                  *)
Distinct(T) ==
  \A s, t \in Slots : T.jobs[s].pgid # 0 /\ T.jobs[s].pgid = T.jobs[t].pgid => s = t

(* What the ring remembers is what a collected process died with.          *)
RingTrue(R, K) ==
  \A i \in RingSlots : R.slot[i].pid # 0 =>
    /\ R.slot[i].pid \in Pids /\ K[R.slot[i].pid].st = "reaped"
    /\ R.slot[i].raw = K[R.slot[i].pid].raw

(* What was printed was printed once, of a collected process.              *)
ShownTrue(sh, K) == \A p \in Pids : sh[p] # 0 => sh[p] = 1 /\ K[p].st = "reaped"

(* An answer other than "unknown" or "stopped" is the code of a collected  *)
(* process.                                                                *)
AnswerTrue(a, K) ==
  a.pid \in Pids /\ a.code \notin {127, 148} =>
    /\ K[a.pid].st = "reaped"
    /\ K[a.pid].raw.how = "exit" => a.code = K[a.pid].raw.n
    /\ K[a.pid].raw.how = "sig" => a.code = 128 + K[a.pid].raw.n

Truth(K, T, R, a, sh) ==
  Lone(K) /\ Entries(T, K, sh) /\ Distinct(T) /\ RingTrue(R, K)
    /\ ShownTrue(sh, K) /\ AnswerTrue(a, K)

(* The process the shell has in hand between its fork and its entry, or    *)
(* between its fork and its wait: nobody else has collected it.            *)
NotListed(p, T) == \A s \in Slots : T.jobs[s].pgid # p
Ours(p, K, T) ==
  /\ p \in Pids /\ Alive(K[p]) /\ NotListed(p, T)
  /\ K[p].st = "stop" => K[p].event = "stop"

InHand ==
  /\ pc = "bgadd" \/ (pc = "poll" /\ after = "bgadd")
       => Ours(target, proc, table) /\ proc[target].pgid = target
  /\ pc = "stage" => stages = <<>> /\ todo = 1
  /\ ~(pc = "poll" /\ after = "stage")
  /\ pc = "fgwait" =>
       stages = <<>> \/ \E p \in Pids : stages = <<p>> /\ Ours(p, proc, table)
  /\ pc = "poll" => cursor \in Unfinished(table)
  /\ pc = "fg" => target \in Unfinished(table)

TInv == Truth(proc, table, ring, reply, shown) /\ InHand

(* The two uses that are left out.                                         *)
Plain == MaxStages <= 1 /\ ~FgFinished

-----------------------------------------------------------------------------
(* What the kernel may do to a process between two calls of the shell.     *)

Moves(r, q) ==
  /\ q.pgid = r.pgid
  /\ r.st \in {"none", "reaped"} => q = r
  /\ Alive(r) => Alive(q)
  /\ q.st = "zombie" => q.raw \in FinalWords \/ (r.st = "zombie" /\ q.raw = r.raw)
  /\ q.st = "stop" => \/ r.st = "stop" /\ q.event = r.event
                      \/ q.event = "stop" /\ r.pgid # ShellGroup
                      \/ r.st = "stop" /\ q.event = "stop"
  /\ q.st = "run" /\ q.event = "none" => r.st = "run" /\ r.event = "none"

(* Moves after moves.                                                      *)
LEMMA MovesMore ==
  ASSUME NEW r \in Process, NEW q \in Process, NEW u \in Process, Moves(r, q), Moves(q, u)
  PROVE  Moves(r, u)
BY DEF Moves, Alive, Process, ProcessStates

(* A signal moves a process.                                               *)
LEMMA SignalMoves ==
  ASSUME NEW r \in Process, NEW sig \in SignalNames, sig = "STOP" => r.pgid # ShellGroup
  PROVE  Moves(r, Signalled(r, sig))
BY DEF Moves, Alive, Process, ProcessStates, Signalled, SignalNames

(* What an entry says stays true when its process moves.                   *)
LEMMA MovesJob ==
  ASSUME NEW r \in Process, NEW q \in Process, Moves(r, q)
  PROVE  /\ q.st = "reaped" => q = r
         /\ \A j : JobTrue(j, r) => JobTrue(j, q)
<1>1. q.st = "reaped" => q = r
  BY DEF Moves, Alive, Process, ProcessStates
<1>2. ASSUME NEW j, JobTrue(j, r)
      PROVE  JobTrue(j, q)
  <2>1. job_finished(j) => r = q
    BY <1>2 DEF JobTrue, Moves
  <2>2. ~job_finished(j) => Alive(q)
    BY <1>2 DEF JobTrue, Moves
  <2>3. q.event = "none" /\ q.st = "stop" => j.status = "stopped"
    BY <1>2 DEF JobTrue, Moves
  <2>4. q.event = "none" /\ q.st = "run" => j.status = "running"
    BY <1>2 DEF JobTrue, Moves
  <2> QED BY <1>2, <2>1, <2>2, <2>3, <2>4 DEF JobTrue, Moves
<1> QED BY <1>1, <1>2

(* Everything true of the shell stays true when processes move.            *)
LEMMA MovesTrue ==
  ASSUME NEW K \in [Pids -> Process], NEW L \in [Pids -> Process],
         \A p \in Pids : Moves(K[p], L[p]),
         NEW T, NEW R, NEW a, NEW sh, Truth(K, T, R, a, sh)
  PROVE  /\ Truth(L, T, R, a, sh)
         /\ \A p : Ours(p, K, T) => Ours(p, L, T)
<1>1. Lone(L)
  <2> SUFFICES ASSUME NEW p \in Pids PROVE LoneProcess(p, L[p])
    BY DEF Lone
  <2> DEFINE r == K[p]
             q == L[p]
  <2>1. LoneProcess(p, r) /\ Moves(r, q) /\ r \in Process /\ q \in Process
    BY DEF Truth, Lone
  <2> HIDE DEF r, q
  <2>2. q.pgid \in {0, p, ShellGroup}
    BY <2>1 DEF LoneProcess, Moves
  <2>3. q.st = "reaped" => r = q
    BY <2>1, MovesJob
  <2>4. q.st \in {"zombie", "reaped"} => q.raw \in FinalWords
    BY <2>1, <2>3 DEF LoneProcess, Moves
  <2>5. q.pgid = ShellGroup => q.st # "stop"
    BY <2>1 DEF LoneProcess, Moves
  <2>6. LoneProcess(p, q)
    BY <2>2, <2>4, <2>5 DEF LoneProcess
  <2> QED BY <2>6 DEF q
<1>2. ASSUME NEW p \in Pids, K[p].st = "reaped"
      PROVE  L[p] = K[p]
  BY <1>2 DEF Moves
<1>3. Entries(T, L, sh)
  <2> SUFFICES ASSUME NEW s \in Slots PROVE EntryTrue(T.jobs[s], L, sh)
    BY DEF Entries
  <2> DEFINE j == T.jobs[s]
  <2>1. EntryTrue(j, K, sh)
    BY DEF Truth, Entries
  <2> HIDE DEF j
  <2>2. j.pgid \in Pids => (JobTrue(j, K[j.pgid]) => JobTrue(j, L[j.pgid]))
    BY MovesJob
  <2>3. EntryTrue(j, L, sh)
    BY <2>1, <2>2 DEF EntryTrue
  <2> QED BY <2>3 DEF j
<1>4. RingTrue(R, L) /\ ShownTrue(sh, L) /\ AnswerTrue(a, L)
  BY <1>2 DEF Truth, RingTrue, ShownTrue, AnswerTrue
<1>5. ASSUME NEW p, Ours(p, K, T)
      PROVE  Ours(p, L, T)
  <2>1. p \in Pids /\ Moves(K[p], L[p]) /\ K[p] \in Process /\ L[p] \in Process
    BY <1>5 DEF Ours
  <2> QED BY <1>5, <2>1 DEF Ours, Moves, Alive, Process, ProcessStates
<1> QED BY <1>1, <1>3, <1>4, <1>5 DEF Truth

-----------------------------------------------------------------------------
(* What waitpid and fork do.                                               *)

Unborns(K, p) == p \in Pids /\ K[p].st = "none"

(* A new process is known to nobody.                                       *)
LEMMA ForkTrue ==
  ASSUME NEW K \in [Pids -> Process], NEW p, Unborns(K, p), NEW g \in {p, ShellGroup},
         NEW L, L = [K EXCEPT ![p] = Forked(g)],
         NEW T, NEW R, NEW a, NEW sh, Truth(K, T, R, a, sh)
  PROVE  Truth(L, T, R, a, sh) /\ Ours(p, L, T) /\ L[p].pgid = g
<1>1. p \in Pids /\ K[p].st = "none" /\ L[p] = Forked(g)
  BY DEF Unborns
<1>2. \A q \in Pids : q # p => L[q] = K[q]
  BY DEF Unborns
<1>3. Lone(L)
  BY <1>1, <1>2 DEF Truth, Lone, LoneProcess, Forked
<1>4. ASSUME NEW s \in Slots
      PROVE  T.jobs[s].pgid # p /\ EntryTrue(T.jobs[s], L, sh)
  <2> DEFINE j == T.jobs[s]
  <2>1. EntryTrue(j, K, sh)
    BY DEF Truth, Entries
  <2> HIDE DEF j
  <2>2. j.pgid # p
    BY <1>1, <2>1, PidsAreNumbers DEF EntryTrue, JobTrue, Alive, Pids
  <2>3. EntryTrue(j, L, sh)
    BY <1>2, <2>1, <2>2 DEF EntryTrue
  <2> QED BY <2>2, <2>3 DEF j
<1>5. RingTrue(R, L) /\ ShownTrue(sh, L) /\ AnswerTrue(a, L)
  BY <1>1, <1>2 DEF Truth, RingTrue, ShownTrue, AnswerTrue
<1>6. Ours(p, L, T)
  BY <1>1, <1>4 DEF Ours, NotListed, Alive, Forked
<1> QED BY <1>1, <1>3, <1>4, <1>5, <1>6 DEF Truth, Entries, Forked

(* What waitpid has to report of a child.                                  *)
Reports(r) ==
  \/ r.st = "zombie"
  \/ r.st = "stop" /\ r.event = "stop"
  \/ r.st = "run" /\ r.event = "cont"

(* A child that was reported and the words filed for its job, if any:      *)
(* every other entry is about another process.                             *)
Files(T, U, q, w) ==
  \A s \in Slots : U.jobs[s] = IF T.jobs[s].pgid = q THEN Decoded(T.jobs[s], w)
                               ELSE T.jobs[s]

(* waitpid returning p leaves everything that is said of the others true;  *)
(* the word it gives may be filed for p, and is final when p is a zombie.  *)
LEMMA CollectTrue ==
  ASSUME NEW p \in Pids, KernelOK, Collect(p), Reports(proc[p]),
         NEW T \in Table, NEW R, NEW a, NEW sh, Truth(proc, T, R, a, sh)
  PROVE  /\ Lone(proc') /\ RingTrue(R, proc') /\ ShownTrue(sh, proc') /\ AnswerTrue(a, proc')
         /\ \A q \in Pids : q # p => proc'[q] = proc[q]
         /\ \A q : q # p /\ Ours(q, proc, T) => Ours(q, proc', T)
         /\ NotListed(p, T) => Entries(T, proc', sh)
         /\ \A U : Files(T, U, p, WordOf(p)) => Entries(U, proc', sh)
         /\ Zombie(p) => /\ proc'[p].st = "reaped" /\ proc'[p].raw = proc[p].raw
                         /\ proc[p].raw \in FinalWords /\ WordOf(p) = proc[p].raw
<1> DEFINE r == proc[p]
           st == IF Zombie(p) THEN "reaped" ELSE r.st
           n == [r EXCEPT !.st = st, !.event = "none"]
<1>1. r \in Process /\ LoneProcess(p, r)
  BY DEF KernelOK, Truth, Lone
<1>2. proc' = [proc EXCEPT ![p] = n]
  BY <1>1 DEF KernelOK, Collect, Process
<1>3. proc'[p] = n /\ \A q \in Pids : q # p => proc'[q] = proc[q]
  BY <1>2 DEF KernelOK
<1>4. /\ n.st = st /\ n.event = "none" /\ n.pgid = r.pgid /\ n.raw = r.raw
      /\ st = IF r.st = "zombie" THEN "reaped" ELSE r.st
  BY <1>1 DEF Process, Zombie
<1>5. Reports(r)
  OBVIOUS
<1>6. WordOf(p) = IF r.st = "zombie" THEN r.raw
                  ELSE IF r.event = "stop" THEN StoppedWord ELSE ContinuedWord
  BY DEF WordOf, Zombie
<1>7. r.st = "zombie" => r.raw \in FinalWords
  BY <1>1 DEF LoneProcess
<1>z. Zombie(p) <=> r.st = "zombie"
  BY DEF Zombie
<1> HIDE DEF r, n, st
<1>8. LoneProcess(p, n)
  BY <1>1, <1>4, <1>5 DEF LoneProcess, Reports
<1>9. ASSUME NEW j \in Job, JobTrue(j, r)
      PROVE  JobTrue(Decoded(j, WordOf(p)), n)
  <2>1. r.st # "reaped" /\ ~job_finished(j)
    BY <1>5, <1>9 DEF Reports, JobTrue
  <2>2. CASE r.st = "zombie"
    <3> DEFINE d == Decoded(j, r.raw)
    <3>1. /\ job_finished(d)
          /\ d = [j EXCEPT !.status = d.status, !.code = CodeOf(r.raw), !.raw = r.raw]
      BY <1>7, <2>2, FinalDecoded
    <3>2. d.pgid = j.pgid /\ d.raw = r.raw /\ d.code = CodeOf(r.raw)
      <4> HIDE DEF d
      <4> QED BY <3>1 DEF Job
    <3> HIDE DEF d
    <3>3. JobTrue(d, n)
      BY <1>4, <1>9, <2>2, <3>1, <3>2 DEF JobTrue
    <3> QED BY <1>6, <2>2, <3>3 DEF d
  <2>3. CASE r.st = "stop"
    <3>1. WordOf(p) = StoppedWord
      BY <1>5, <1>6, <2>3 DEF Reports
    <3>2. Decoded(j, WordOf(p)) = [j EXCEPT !.status = "stopped"]
      BY <3>1 DEF Decoded, StoppedWord
    <3> QED BY <1>4, <1>9, <2>3, <3>2 DEF JobTrue, Job, job_finished, Alive
  <2>4. CASE r.st = "run"
    <3>1. WordOf(p) = ContinuedWord
      BY <1>5, <1>6, <2>4 DEF Reports
    <3>2. Decoded(j, WordOf(p)) = [j EXCEPT !.status = "running"]
      BY <3>1 DEF Decoded, ContinuedWord
    <3> QED BY <1>4, <1>9, <2>4, <3>2 DEF JobTrue, Job, job_finished, Alive
  <2> QED BY <1>5, <2>2, <2>3, <2>4 DEF Reports
<1>10. Lone(proc')
  BY <1>3, <1>8 DEF Truth, Lone
<1>11. RingTrue(R, proc') /\ ShownTrue(sh, proc') /\ AnswerTrue(a, proc')
  <2>1. r.st # "reaped" /\ r = proc[p]
    BY <1>5 DEF Reports, r
  <2> QED BY <1>3, <2>1 DEF Truth, RingTrue, ShownTrue, AnswerTrue
<1>12. ASSUME NEW s \in Slots, T.jobs[s].pgid # p
       PROVE  EntryTrue(T.jobs[s], proc', sh)
  BY <1>3, <1>12 DEF Truth, Entries, EntryTrue
<1>13. ASSUME NEW s \in Slots, T.jobs[s].pgid = p
       PROVE  EntryTrue(Decoded(T.jobs[s], WordOf(p)), proc', sh)
  <2> DEFINE j == T.jobs[s]
  <2>1. j \in Job /\ WordOf(p) \in StatusWord
    BY CollectOK DEF Table
  <2>2. j.pgid = p /\ EntryTrue(j, proc, sh)
    BY <1>13 DEF Truth, Entries
  <2> HIDE DEF j
  <2>3. Decoded(j, WordOf(p)).pgid = p
    BY <2>1, <2>2, DecodedType
  <2>4. Decoded(j, WordOf(p)).notified = j.notified
    BY <2>1 DEF Decoded, Job
  <2>5. JobTrue(j, r)
    BY <2>2, PidsAreNumbers DEF EntryTrue, r, Pids
  <2>6. JobTrue(Decoded(j, WordOf(p)), n)
    BY <1>9, <2>1, <2>5
  <2>7. EntryTrue(Decoded(j, WordOf(p)), proc', sh)
    BY <1>3, <2>2, <2>3, <2>4, <2>6, PidsAreNumbers DEF EntryTrue, Pids
  <2> QED BY <2>7 DEF j
<1>14. NotListed(p, T) => Entries(T, proc', sh)
  BY <1>12 DEF NotListed, Entries
<1>15. \A U : Files(T, U, p, WordOf(p)) => Entries(U, proc', sh)
  BY <1>12, <1>13 DEF Files, Entries
<1>16. \A q : q # p /\ Ours(q, proc, T) => Ours(q, proc', T)
  BY <1>3 DEF Ours
<1> QED BY <1>3, <1>4, <1>6, <1>7, <1>10, <1>11, <1>14, <1>15, <1>16, <1>z DEF r

-----------------------------------------------------------------------------
(* What the operations on the table keep true.                             *)

(* Slots are freed or marked as reported, and nothing else.                *)
Kept(U, T) ==
  \A s \in Slots : U.jobs[s] \in {FreeSlot, T.jobs[s], [T.jobs[s] EXCEPT !.notified = TRUE]}

(* Freeing or marking slots leaves the entries true and distinct.          *)
LEMMA KeptTrue ==
  ASSUME NEW K, NEW T \in Table, NEW U, NEW sh, Kept(U, T)
  PROVE  /\ Entries(T, K, sh) => Entries(U, K, sh)
         /\ Distinct(T) => Distinct(U)
         /\ \A p : p # 0 /\ NotListed(p, T) => NotListed(p, U)
<1>1. ASSUME NEW s \in Slots
      PROVE  /\ EntryTrue(T.jobs[s], K, sh) => EntryTrue(U.jobs[s], K, sh)
             /\ U.jobs[s].pgid \in {0, T.jobs[s].pgid}
  <2> DEFINE j == T.jobs[s]
             n == [j EXCEPT !.notified = TRUE]
  <2>1. j \in Job /\ U.jobs[s] \in {FreeSlot, j, n}
    BY DEF Table, Kept
  <2>2. n.pgid = j.pgid /\ n.status = j.status /\ n.raw = j.raw /\ n.code = j.code /\ n.notified
    BY <2>1 DEF Job
  <2>3. FreeSlot.pgid = 0
    BY DEF FreeSlot
  <2> HIDE DEF j, n
  <2>4. EntryTrue(j, K, sh) => EntryTrue(n, K, sh)
    BY <2>2 DEF EntryTrue, JobTrue, job_finished
  <2>5. EntryTrue(FreeSlot, K, sh)
    BY <2>3 DEF EntryTrue
  <2>6. U.jobs[s].pgid \in {0, j.pgid}
    BY <2>1, <2>2, <2>3
  <2>7. EntryTrue(j, K, sh) => EntryTrue(U.jobs[s], K, sh)
    BY <2>1, <2>4, <2>5
  <2> QED BY <2>6, <2>7 DEF j
<1> QED BY <1>1 DEF Entries, Distinct, NotListed

(* job_remove and Notified keep the rest.                                  *)
LEMMA RemoveKeeps ==
  ASSUME NEW T \in Table, NEW S
  PROVE  /\ Kept(job_remove(T, S), T)
         /\ \A s \in Slots : s \in S => job_remove(T, S).jobs[s] = FreeSlot
         /\ \A s \in Slots : s \notin S => job_remove(T, S).jobs[s] = T.jobs[s]
<1>1. job_remove(T, S).jobs = [s \in Slots |-> IF s \in S THEN FreeSlot ELSE T.jobs[s]]
  BY RemoveJobs
<1> QED BY <1>1 DEF Kept

(* job_mark_notified marks the slots of S and leaves the others.           *)
LEMMA NotifiedKeeps ==
  ASSUME NEW T \in Table, NEW S
  PROVE  /\ Kept(Notified(T, S), T)
         /\ Notified(T, S) \in Table
         /\ \A s \in Slots : Notified(T, S).jobs[s] = IF s \in S
                                                    THEN [T.jobs[s] EXCEPT !.notified = TRUE]
                                                    ELSE T.jobs[s]
<1>1. Notified(T, S).jobs = [s \in Slots |-> IF s \in S
                                             THEN [T.jobs[s] EXCEPT !.notified = TRUE]
                                             ELSE T.jobs[s]]
  BY DEF Notified, Table
<1>2. \A s \in Slots : [T.jobs[s] EXCEPT !.notified = TRUE] \in Job
  BY DEF Table, Job
<1>3. Notified(T, S) \in Table
  BY <1>2 DEF Notified, Table
<1> QED BY <1>1, <1>3 DEF Kept

(* What is filed for a group is filed for its only entry.                  *)
LEMMA LearnsFiles ==
  ASSUME NEW T \in Table, Distinct(T), NEW p, p # 0, NEW w
  PROVE  Files(T, TableLearns(T, p, w), p, w)
<1>1. \A s, t \in Slots : T.jobs[s].pgid = p /\ T.jobs[t].pgid = p => s = t
  BY DEF Distinct
<1>2. TableLearns(T, p, w).jobs =
        [s \in Slots |-> IF T.jobs[s].pgid = p THEN Decoded(T.jobs[s], w) ELSE T.jobs[s]]
  BY <1>1, LearnsJobs
<1> QED BY <1>2 DEF Files

(* job_record_exit files the word for the group of the slot.               *)
LEMMA RecordFiles ==
  ASSUME NEW T \in Table, Distinct(T), NEW s \in Slots, T.jobs[s].pgid # 0, NEW w
  PROVE  Files(T, job_record_exit(T, s, w), T.jobs[s].pgid, w)
<1>1. job_record_exit(T, s, w).jobs = [T.jobs EXCEPT ![s] = Decoded(T.jobs[s], w)]
  BY DEF job_record_exit, Table
<1>2. \A t \in Slots : T.jobs[t].pgid = T.jobs[s].pgid <=> t = s
  BY DEF Distinct
<1> QED BY <1>1, <1>2 DEF Files, Table

(* Filing keeps the groups.                                                *)
LEMMA FilesGroups ==
  ASSUME NEW T \in Table, NEW U, NEW p, NEW w \in StatusWord, Files(T, U, p, w)
  PROVE  /\ \A s \in Slots : U.jobs[s].pgid = T.jobs[s].pgid
         /\ Distinct(T) => Distinct(U)
         /\ \A q : NotListed(q, T) => NotListed(q, U)
<1>1. \A s \in Slots : U.jobs[s].pgid = T.jobs[s].pgid
  BY DecodedType DEF Files, Table
<1> QED BY <1>1 DEF Distinct, NotListed

-----------------------------------------------------------------------------
(* What the ring remembers.                                                *)

(* Pushing the word of a reaped process leaves the ring true.              *)
LEMMA PushedTrue ==
  ASSUME Remembers(ring), NEW K, RingTrue(ring, K), NEW p \in Pids, K[p].st = "reaped"
  PROVE  RingTrue(Pushed(p, K[p].raw), K)
<1>1. /\ Pushed(p, K[p].raw).slot =
           [ring.slot EXCEPT ![ring.next] = [pid |-> p, raw |-> K[p].raw]]
      /\ DOMAIN ring.slot = RingSlots
  BY DEF Pushed, Remembers
<1> QED BY <1>1 DEF RingTrue

(* Taking an entry out of the ring leaves the others true.                 *)
LEMMA TakenTrue ==
  ASSUME NEW R, Remembers(R), NEW K, RingTrue(R, K), NEW p
  PROVE  RingTrue(Taken(R, p), K)
<1> DEFINE hits == {i \in RingSlots : R.slot[i].pid = p}
<1>1. CASE hits = {}
  BY <1>1 DEF Taken
<1>2. CASE hits # {}
  <2>1. Taken(R, p) = [R EXCEPT !.slot[Least(hits)].pid = 0]
    BY <1>2 DEF Taken
  <2> DEFINE h == Least(hits)
  <2> HIDE DEF hits, h
  <2>2. Taken(R, p).slot = [R.slot EXCEPT ![h] = [R.slot[h] EXCEPT !.pid = 0]]
    BY <2>1 DEF h, Remembers
  <2>3. ASSUME NEW i \in RingSlots
        PROVE  Taken(R, p).slot[i] \in {R.slot[i], [R.slot[i] EXCEPT !.pid = 0]}
    BY <2>2 DEF Remembers
  <2>4. ASSUME NEW i \in RingSlots
        PROVE  [R.slot[i] EXCEPT !.pid = 0].pid = 0
    BY DEF Remembers
  <2> QED BY <2>3, <2>4 DEF RingTrue
<1> QED BY <1>1, <1>2

-----------------------------------------------------------------------------
(* Where the shell is after a step.                                        *)

(* Away from the labels that hold a process, nothing is in hand.           *)
LEMMA Elsewhere ==
  ASSUME pc' \notin {"bgadd", "stage", "fgwait", "poll", "fg"}
  PROVE  InHand'
BY DEF InHand

(* A poll starts at a job that is not over, or is skipped.                 *)
LEMMA PollHere ==
  ASSUME NEW l, PollThen(l), UNCHANGED table,
         l \notin {"bgadd", "stage", "fgwait", "poll", "fg"}
  PROVE  InHand'
<1>1. CASE Unfinished(table) = {}
  BY <1>1, Elsewhere DEF PollThen
<1>2. CASE Unfinished(table) # {}
  <2>1. Least(Unfinished(table)) \in Unfinished(table)
    BY <1>2, LeastSlot DEF Unfinished, Occupied
  <2>2. pc' = "poll" /\ after' = l /\ cursor' \in Unfinished(table')
    BY <1>2, <2>1 DEF PollThen
  <2> QED BY <2>2 DEF InHand
<1> QED BY <1>1, <1>2

(* A step that touches none of what is said.                               *)
LEMMA TruthKept ==
  ASSUME TInv, UNCHANGED <<proc, table, ring, reply, shown>>
  PROVE  Truth(proc', table', ring', reply', shown')
BY DEF TInv

(* The two parts of the invariant.                                         *)
LEMMA TruthHolds ==
  ASSUME Truth(proc', table', ring', reply', shown'), InHand'
  PROVE  TInv'
BY DEF TInv

(* What the parts of the invariant say of the variables.                   *)
LEMMA Typings ==
  ASSUME IInv
  PROVE  /\ proc \in [Pids -> Process] /\ table \in Table /\ Remembers(ring)
         /\ \A s \in Slots : table.jobs[s] \in Job
         /\ \A p \in Pids : proc[p].raw \in StatusWord
BY DEF IInv, KernelOK, Good, TableOK, Table, Process

(* The group of an entry has one process, the one the entry is about.      *)
LEMMA GroupIsLeader ==
  ASSUME IInv, TInv, NEW s \in Occupied(table)
  PROVE  /\ table.jobs[s].pgid \in Pids /\ table.jobs[s].pgid # 0
         /\ table.jobs[s].pgid # ShellGroup
         /\ \A p \in Group(table.jobs[s].pgid) : p \in Pids /\ p = table.jobs[s].pgid
         /\ s \in Unfinished(table) => Alive(proc[table.jobs[s].pgid])
         /\ s \in Unfinished(table) =>
              table.jobs[s].pgid \in Group(table.jobs[s].pgid)
<1> DEFINE g == table.jobs[s].pgid
<1>1. s \in Slots /\ g # 0
  BY DEF Occupied
<1>2. EntryTrue(table.jobs[s], proc, shown)
  BY <1>1 DEF TInv, Truth, Entries
<1>3. g \in Pids /\ JobTrue(table.jobs[s], proc[g])
  BY <1>1, <1>2 DEF EntryTrue
<1>4. g # ShellGroup
  BY <1>3, JobControlAssumption DEF Pids, ShellGroup
<1>5. ASSUME NEW p \in Group(g)
      PROVE  p \in Pids /\ p = g
  <2>1. p \in Pids /\ proc[p].pgid = g /\ LoneProcess(p, proc[p])
    BY DEF Group, Children, TInv, Truth, Lone
  <2> QED BY <1>1, <1>4, <2>1 DEF LoneProcess
<1>6. s \in Unfinished(table) => Alive(proc[g])
  BY <1>3 DEF Unfinished, Finished, JobTrue
<1>7. s \in Unfinished(table) => g \in Group(g)
  BY <1>3, <1>6 DEF Group, Children, Unreaped, Alive, JobTrue
<1> QED BY <1>1, <1>3, <1>4, <1>5, <1>6, <1>7

(* A dead child is collected, filed for its job and remembered, whatever   *)
(* is then retired, marked or taken from the ring.                         *)
LEMMA ReapTrue ==
  ASSUME IInv, TInv, NEW p \in Pids, Zombie(p), Collect(p),
         NEW U, U = TableLearns(table, p, proc[p].raw),
         NEW P, P = Pushed(p, proc[p].raw)
  PROVE  /\ Truth(proc', U, P, reply, shown)
         /\ U \in Table
         /\ \A V : Kept(V, U) => Truth(proc', V, P, reply, shown)
         /\ Truth(proc', U, Taken(P, p), reply, shown)
         /\ \A V : Kept(V, U) => Truth(proc', V, Taken(P, p), reply, shown)
         /\ AnswerTrue([pid |-> p, code |-> CodeOf(proc[p].raw)], proc')
<1>1. Truth(proc, table, ring, reply, shown)
  BY DEF TInv
<1>2. Reports(proc[p]) /\ KernelOK /\ table \in Table /\ proc[p].raw \in StatusWord
  BY Typings DEF Reports, Zombie, IInv
<1>3. /\ Lone(proc') /\ RingTrue(ring, proc') /\ ShownTrue(shown, proc')
      /\ AnswerTrue(reply, proc')
      /\ \A W : Files(table, W, p, WordOf(p)) => Entries(W, proc', shown)
      /\ proc'[p].st = "reaped" /\ proc'[p].raw = proc[p].raw
      /\ proc[p].raw \in FinalWords /\ WordOf(p) = proc[p].raw
  BY <1>1, <1>2, CollectTrue
<1>4. p # 0 /\ Distinct(table)
  BY <1>1 DEF Truth, Pids
<1>5. Files(table, U, p, proc[p].raw)
  BY <1>2, <1>4, LearnsFiles
<1>6. Entries(U, proc', shown) /\ Distinct(U)
  BY <1>2, <1>3, <1>4, <1>5, FilesGroups
<1>7. RingTrue(P, proc') /\ RingTrue(Taken(P, p), proc')
  <2>1. Remembers(ring) /\ Remembers(P)
    BY <1>2, Typings, PushedOK, PidsAreNumbers
  <2>2. RingTrue(P, proc')
    BY <1>3, <2>1, PushedTrue
  <2> QED BY <2>1, <2>2, TakenTrue
<1>8. U \in Table
  BY <1>2, LearnsGood DEF IInv, Good, TableOK
<1>9. AnswerTrue([pid |-> p, code |-> CodeOf(proc[p].raw)], proc')
  <2>1. /\ proc[p].raw.how = "exit" => CodeOf(proc[p].raw) = proc[p].raw.n
        /\ proc[p].raw.how = "sig" => CodeOf(proc[p].raw) = 128 + proc[p].raw.n
    BY DEF CodeOf
  <2> QED BY <1>3, <2>1 DEF AnswerTrue
<1>10. \A V : Kept(V, U) => Entries(V, proc', shown) /\ Distinct(V)
  BY <1>6, <1>8, KeptTrue
<1> QED BY <1>3, <1>6, <1>7, <1>8, <1>9, <1>10 DEF Truth

-----------------------------------------------------------------------------
(* The steps, one lemma per action.                                        *)

(* A session starts with nothing said.                                     *)
LEMMA InitTrue == Init => TInv
<1> SUFFICES ASSUME Init PROVE TInv
  OBVIOUS
<1>1. Lone(proc) /\ ShownTrue(shown, proc)
  BY DEF Init, Lone, LoneProcess, Unborn, ShownTrue
<1>2. Entries(table, proc, shown) /\ Distinct(table)
  BY DEF Init, job_table_init, FreeSlot, Entries, EntryTrue, Distinct
<1>3. RingTrue(ring, proc)
  BY DEF Init, EmptyRing, RingTrue
<1>4. AnswerTrue(reply, proc)
  BY JobControlAssumption DEF Init, NoReply, AnswerTrue, Pids
<1>5. InHand
  BY DEF Init, InHand
<1> QED BY <1>1, <1>2, <1>3, <1>4, <1>5 DEF Truth, TInv

(* A step that changes nothing keeps the invariant.                        *)
LEMMA StutterTrue == ASSUME TInv, UNCHANGED vars PROVE TInv'
<1>1. Truth(proc', table', ring', reply', shown')
  BY TruthKept DEF vars
<1>2. InHand'
  BY DEF TInv, vars, InHand, Unfinished, Finished, Occupied
<1> QED BY <1>1, <1>2, TruthHolds

(* A process moves, and the others stay.                                   *)
LEMMA OneMoves ==
  ASSUME IInv, NEW p \in Pids, NEW r \in Process, Moves(proc[p], r),
         proc' = [proc EXCEPT ![p] = r]
  PROVE  proc' \in [Pids -> Process] /\ \A q \in Pids : Moves(proc[q], proc'[q])
<1>1. proc \in [Pids -> Process] /\ proc' \in [Pids -> Process]
  BY Typings
<1>2. ASSUME NEW q \in Pids, q # p
      PROVE  Moves(proc[q], proc'[q])
  BY <1>1, <1>2 DEF Moves
<1>3. proc'[p] = r
  BY <1>1
<1> QED BY <1>1, <1>2, <1>3

(* Between two calls of the shell the kernel moves processes, nothing else. *)
LEMMA KernelMoves ==
  ASSUME IInv, Kernel
  PROVE  /\ proc' \in [Pids -> Process]
         /\ \A q \in Pids : Moves(proc[q], proc'[q])
         /\ UNCHANGED <<shell, launched, told, swept, shown>>
<1>1. PICK p \in Pids : Exit(p) \/ Deliver(p) \/ Stop(p) \/ Continue(p)
  BY DEF Kernel
<1>2. proc[p] \in Process /\ proc[p].raw \in StatusWord
  BY Typings
<1>3. ASSUME NEW w \in FinalWords, Alive(proc[p])
      PROVE  Dead(proc[p], w) \in Process /\ Moves(proc[p], Dead(proc[p], w))
  <2>1. FreeSlot \in Job
    BY DEF FreeSlot, Job, JobStatus, StatusWord, NoStatus
  <2>2. w \in StatusWord
    BY <2>1, FinalDecoded
  <2> QED BY <1>2, <1>3, <2>2 DEF Dead, Process, ProcessStates, Moves, Alive
<1>4. CASE Exit(p)
  <2>1. Alive(proc[p]) /\ Exited(OwnExit) \in FinalWords
    BY <1>4 DEF Exit, Alive, FinalWords
  <2> QED BY <1>3, <1>4, <2>1, OneMoves DEF Exit
<1>5. CASE Deliver(p)
  <2> DEFINE w == Signaled(SignalNumber[proc[p].pend])
  <2>1. proc[p].pend \in {"HUP", "TERM", "KILL"} /\ Alive(proc[p])
    BY <1>2, <1>5 DEF Deliver, Process, Alive
  <2>2. w \in FinalWords
    BY <2>1 DEF SignalNumber, FinalWords
  <2>3. proc' = [proc EXCEPT ![p] = Dead(proc[p], w)]
        /\ UNCHANGED <<shell, launched, told, swept, shown>>
    BY <1>5 DEF Deliver
  <2> HIDE DEF w
  <2> QED BY <1>3, <2>1, <2>2, <2>3, OneMoves
<1>6. CASE Stop(p)
  <2>1. Grouped(proc[p]) /\ proc[p].pgid # ShellGroup
    BY <1>6 DEF IInv, KernelOK, Stop
  <2>2. Moves(proc[p], Signalled(proc[p], "STOP")) /\ Signalled(proc[p], "STOP") \in Process
    BY <1>2, <2>1, SignalMoves, SignalledOK DEF SignalNames, Grouped
  <2> QED BY <1>6, <2>2, OneMoves DEF Stop
<1>7. CASE Continue(p)
  <2>1. Grouped(proc[p])
    BY DEF IInv, KernelOK
  <2>2. Moves(proc[p], Signalled(proc[p], "CONT")) /\ Signalled(proc[p], "CONT") \in Process
    BY <1>2, <2>1, SignalMoves, SignalledOK DEF SignalNames, Grouped
  <2> QED BY <1>7, <2>2, OneMoves DEF Continue
<1> QED BY <1>1, <1>4, <1>5, <1>6, <1>7

(* The kernel moves a process, and the shell stays where it is.            *)
LEMMA KernelTrue == ASSUME IInv, TInv, Kernel PROVE TInv'
<1>1. /\ proc \in [Pids -> Process] /\ proc' \in [Pids -> Process]
      /\ \A q \in Pids : Moves(proc[q], proc'[q])
      /\ UNCHANGED <<shell, shown>>
  BY KernelMoves, Typings
<1>2. /\ Truth(proc', table, ring, reply, shown)
      /\ \A q : Ours(q, proc, table) => Ours(q, proc', table)
  BY <1>1, MovesTrue DEF TInv
<1>3. \A q \in Pids : proc'[q].pgid = proc[q].pgid
  BY <1>1 DEF Moves
<1>4. InHand'
  <2>1. Ours(target, proc, table) => target \in Pids
    BY DEF Ours
  <2> QED BY <1>1, <1>2, <1>3, <2>1 DEF TInv, InHand, Unfinished, Finished, Occupied
<1> QED BY <1>1, <1>2, <1>4, TruthHolds

(* The steps that only go from one label to another.                       *)
LEMMA PlainTrue ==
  ASSUME TInv, Prompt \/ ReadLine \/ RangeStart \/ RangeEnd \/ PipelineDone
               \/ builtin_wait \/ builtin_jobs \/ builtin_exit \/ handle_eof
               \/ exit_stopped_guard \/ AwaitHangup
  PROVE  TInv'
<1>1. UNCHANGED <<proc, table, ring, shown>>
  BY DEF Prompt, ReadLine, RangeStart, RangeEnd, PipelineDone, builtin_wait,
         builtin_jobs, builtin_exit, handle_eof, exit_stopped_guard, AwaitHangup
<1>2. \/ pc' \notin {"bgadd", "stage", "fgwait", "poll", "fg"}
      \/ \E l \in {"notify", "announce", "jobs", "next", "guardExit", "guardEof",
                   "hangup"} : PollThen(l)
  BY DEF Prompt, ReadLine, RangeStart, RangeEnd, PipelineDone, builtin_wait,
         builtin_jobs, builtin_exit, handle_eof, exit_stopped_guard, AwaitHangup
<1>3. InHand'
  BY <1>1, <1>2, Elsewhere, PollHere
<1>4. Truth(proc', table', ring', reply', shown')
  <2>1. CASE RangeEnd
    <3>1. AnswerTrue(reply', proc')
      BY <2>1 DEF RangeEnd, NoReply, AnswerTrue, Pids
    <3> QED BY <1>1, <3>1 DEF TInv, Truth
  <2>2. CASE ~RangeEnd
    <3>1. reply' = reply
      BY <2>2 DEF Prompt, ReadLine, RangeStart, RangeEnd, PipelineDone, builtin_wait,
         builtin_jobs, builtin_exit, handle_eof, exit_stopped_guard, AwaitHangup
    <3> QED BY <1>1, <3>1, TruthKept
  <2> QED BY <2>1, <2>2
<1> QED BY <1>3, <1>4, TruthHolds

(* One waitpid of a poll: what it reports is filed for the job asked about, *)
(* and a process in hand is not a job yet.                                 *)
LEMMA PollTrue == ASSUME IInv, TInv, PollSlot PROVE TInv'
<1> DEFINE g == table.jobs[cursor].pgid
           member == Ready(Group(g), TRUE, TRUE)
           rest == {s \in Unfinished(table) : s > cursor}
<1>1. /\ pc = "poll" /\ cursor \in Unfinished(table) /\ cursor \in Slots
      /\ cursor \in Occupied(table)
  BY DEF PollSlot, TInv, InHand, IInv, PlaceOK, Unfinished
<1>2. g \in Pids /\ g # 0 /\ \A q \in Group(g) : q = g
  BY <1>1, GroupIsLeader
<1>3. UNCHANGED <<target, stages, todo, reply, shown>>
  BY DEF PollSlot
<1>4. /\ Truth(proc', table', ring', reply', shown')
      /\ \A s \in Slots : s # cursor => table'.jobs[s] = table.jobs[s]
      /\ \A q : Ours(q, proc, table) => Ours(q, proc', table') /\ proc'[q].pgid = proc[q].pgid
  <2>1. CASE member = {}
    BY <1>3, <2>1, TruthKept DEF PollSlot
  <2>2. CASE member # {}
    <3>1. PICK q \in member : Collect(q) /\ job_reap_record(cursor, WordOf(q))
      BY <2>2 DEF PollSlot
    <3>2. q = g /\ Reports(proc[q])
      BY <1>2 DEF Ready, Reports, Zombie
    <3>3. KernelOK /\ table \in Table /\ WordOf(g) \in StatusWord
      BY <1>2, <3>1, <3>2, CollectOK, Typings DEF IInv
    <3>4. Truth(proc, table, ring, reply, shown) /\ Distinct(table)
      BY DEF TInv, Truth
    <3> HIDE DEF g, member
    <3>5. /\ Lone(proc') /\ RingTrue(ring, proc') /\ ShownTrue(shown, proc')
          /\ AnswerTrue(reply, proc')
          /\ \A p \in Pids : p # g => proc'[p] = proc[p]
          /\ \A p : p # g /\ Ours(p, proc, table) => Ours(p, proc', table)
          /\ \A U : Files(table, U, g, WordOf(g)) => Entries(U, proc', shown)
          /\ Zombie(g) => /\ proc'[g].st = "reaped" /\ proc'[g].raw = proc[g].raw
                          /\ WordOf(g) = proc[g].raw
      BY <1>2, <3>1, <3>2, <3>3, <3>4, CollectTrue
    <3>6. /\ Files(table, table', g, WordOf(g))
          /\ ring' = ring \/ (Zombie(g) /\ ring' = Pushed(g, WordOf(g)))
      <4>1. WordOf(g).how \in {"stop", "cont"} \/ Zombie(g)
        BY DEF WordOf, StoppedWord, ContinuedWord
      <4>2. CASE WordOf(g).how \in {"stop", "cont"}
        <5>1. table' = job_record_exit(table, cursor, WordOf(g)) /\ ring' = ring
          BY <3>1, <3>2, <4>2 DEF job_reap_record
        <5> QED BY <1>1, <1>2, <3>3, <3>4, <5>1, RecordFiles DEF g
      <4>3. CASE WordOf(g).how \notin {"stop", "cont"}
        <5>1. table' = TableLearns(table, g, WordOf(g)) /\ ring' = Pushed(g, WordOf(g))
          BY <3>1, <3>2, <4>3 DEF job_reap_record, bg_done_record, g
        <5> QED BY <1>2, <3>3, <3>4, <4>1, <4>3, <5>1, LearnsFiles
      <4> QED BY <4>2, <4>3
    <3>7. RingTrue(ring', proc')
      BY <1>2, <3>5, <3>6, PushedTrue DEF IInv
    <3>8. Distinct(table') /\ \A p : NotListed(p, table) => NotListed(p, table')
      BY <3>3, <3>4, <3>6, FilesGroups
    <3>9. \A s \in Slots : s # cursor => table'.jobs[s] = table.jobs[s]
      <4>1. \A s \in Slots : s # cursor => table.jobs[s].pgid # g
        BY <1>1, <1>2, <3>4 DEF Distinct, g
      <4> QED BY <3>6, <4>1 DEF Files
    <3>10. ASSUME NEW p, Ours(p, proc, table)
           PROVE  Ours(p, proc', table') /\ proc'[p].pgid = proc[p].pgid
      <4>1. p \in Pids /\ p # g
        BY <1>1, <3>10 DEF Ours, NotListed, g
      <4> QED BY <3>5, <3>8, <3>10, <4>1 DEF Ours
    <3>11. Truth(proc', table', ring', reply', shown')
      <4>1. Entries(table', proc', shown)
        BY <3>5, <3>6
      <4> QED BY <1>3, <3>5, <3>7, <3>8, <4>1 DEF Truth
    <3> QED BY <3>9, <3>10, <3>11
  <2> QED BY <2>1, <2>2
<1>5. after = "bgadd" => Ours(target', proc', table') /\ proc'[target'].pgid = target'
  BY <1>1, <1>3, <1>4 DEF TInv, InHand
<1>6. after \in Afters \ {"stage"}
  BY <1>1 DEF TInv, InHand, IInv, PlaceOK
<1>7. CASE rest = {}
  <2>1. pc' = after
    BY <1>7 DEF PollSlot
  <2>2. pc' \notin {"stage", "fgwait", "poll", "fg"}
    BY <1>6, <2>1 DEF Afters
  <2>3. (pc = "bgadd" => Ours(target, proc, table) /\ proc[target].pgid = target)'
    BY <1>5, <2>1
  <2>4. InHand'
    BY <2>2, <2>3 DEF InHand
  <2> QED BY <1>4, <2>4, TruthHolds
<1>8. CASE rest # {}
  <2>1. pc' = "poll" /\ after' = after /\ cursor' = Least(rest)
    BY <1>1, <1>8 DEF PollSlot
  <2>2. Least(rest) \in rest
    <3>1. rest \subseteq Slots
      BY DEF Unfinished, Occupied
    <3> HIDE DEF rest
    <3> QED BY <1>8, <3>1, LeastSlot
  <2>3. cursor' \in Unfinished(table) /\ cursor' \in Slots /\ cursor' > cursor
    BY <2>1, <2>2 DEF Unfinished, Occupied
  <2>4. table'.jobs[cursor'] = table.jobs[cursor']
    BY <1>1, <1>4, <2>3 DEF Slots
  <2>5. cursor' \in Unfinished(table')
    BY <2>3, <2>4 DEF Unfinished, Finished, Occupied
  <2>6. InHand'
    BY <1>5, <1>6, <2>1, <2>5 DEF InHand
  <2> QED BY <1>4, <2>6, TruthHolds
<1> QED BY <1>7, <1>8

(* The entries N are printed: each was not before, and each is then either *)
(* retired or marked.                                                      *)
Marked(j, n) ==
  /\ n.pgid = j.pgid /\ n.raw = j.raw /\ n.code = j.code
  /\ job_finished(n) /\ n.notified

(* Printing the ends of finished jobs nobody was told about, whether the   *)
(* jobs then leave the table or are marked, leaves what is said true.      *)
LEMMA PrintedTrue ==
  ASSUME IInv, TInv, NEW N, N \subseteq Finished(table), UNCHANGED <<proc, reply>>,
         \A s \in N : ~table.jobs[s].notified, Printed(GroupsOf(N)),
         RingTrue(ring', proc),
         \A s \in Slots : \/ table'.jobs[s] = FreeSlot
                          \/ s \notin N /\ table'.jobs[s] = table.jobs[s]
                          \/ s \in N /\ Marked(table.jobs[s], table'.jobs[s])
  PROVE  Truth(proc', table', ring', reply', shown')
<1>1. /\ Lone(proc) /\ Entries(table, proc, shown) /\ Distinct(table)
      /\ ShownTrue(shown, proc) /\ AnswerTrue(reply, proc)
  BY DEF TInv, Truth
<1>2. /\ \A p \in Pids : p \in GroupsOf(N) => shown'[p] = IF shown[p] < 2 THEN shown[p] + 1
                                                         ELSE shown[p]
      /\ \A p \in Pids : p \notin GroupsOf(N) => shown'[p] = shown[p]
  BY DEF Printed
<1>3. FreeSlot.pgid = 0
  BY DEF FreeSlot
<1>4. ASSUME NEW s \in N
      PROVE  /\ s \in Slots /\ table.jobs[s].pgid \in Pids /\ table.jobs[s].pgid # 0
             /\ shown[table.jobs[s].pgid] = 0
             /\ job_finished(table.jobs[s])
             /\ JobTrue(table.jobs[s], proc[table.jobs[s].pgid])
             /\ proc[table.jobs[s].pgid].st = "reaped"
  BY <1>1 DEF Finished, Occupied, Entries, EntryTrue, JobTrue
<1>5. ShownTrue(shown', proc)
  <2> SUFFICES ASSUME NEW p \in Pids, shown'[p] # 0
               PROVE  shown'[p] = 1 /\ proc[p].st = "reaped"
    BY DEF ShownTrue
  <2>1. CASE p \in GroupsOf(N)
    <3>1. PICK s \in N : p = table.jobs[s].pgid
      BY <2>1 DEF GroupsOf
    <3>2. shown[p] = 0 /\ proc[p].st = "reaped"
      BY <1>4, <3>1
    <3> QED BY <1>2, <2>1, <3>2
  <2>2. CASE p \notin GroupsOf(N)
    BY <1>1, <1>2, <2>2 DEF ShownTrue
  <2> QED BY <2>1, <2>2
<1>6. ASSUME NEW s \in Slots, s \notin N, table.jobs[s].pgid # 0
      PROVE  table.jobs[s].pgid \notin GroupsOf(N)
  BY <1>1, <1>4, <1>6 DEF GroupsOf, Distinct
<1>7. Entries(table', proc, shown')
  <2> SUFFICES ASSUME NEW s \in Slots PROVE EntryTrue(table'.jobs[s], proc, shown')
    BY DEF Entries
  <2>1. CASE table'.jobs[s] = FreeSlot
    BY <1>3, <2>1 DEF EntryTrue
  <2>2. CASE s \notin N /\ table'.jobs[s] = table.jobs[s]
    <3>1. EntryTrue(table.jobs[s], proc, shown)
      BY <1>1 DEF Entries
    <3> QED BY <1>2, <1>6, <2>2, <3>1 DEF EntryTrue
  <2>3. CASE s \in N /\ Marked(table.jobs[s], table'.jobs[s])
    <3> DEFINE j == table.jobs[s]
               n == table'.jobs[s]
    <3>1. JobTrue(j, proc[j.pgid]) /\ Marked(j, n) /\ j.pgid \in Pids
          /\ proc[j.pgid].st = "reaped" /\ job_finished(j)
      BY <1>4, <2>3
    <3> HIDE DEF j, n
    <3>2. EntryTrue(n, proc, shown')
      BY <3>1 DEF Marked, EntryTrue, JobTrue
    <3> QED BY <3>2 DEF n
  <2> QED BY <2>1, <2>2, <2>3
<1>8. Distinct(table')
  <2>1. \A s \in Slots : table'.jobs[s].pgid \in {0, table.jobs[s].pgid}
    BY <1>3 DEF Marked
  <2> QED BY <1>1, <2>1 DEF Distinct
<1> QED BY <1>1, <1>5, <1>7, <1>8 DEF Truth

(* The notice before a prompt.                                             *)
LEMMA NotifyTrue == ASSUME IInv, TInv, job_notify PROVE TInv'
<1> DEFINE news == {s \in Finished(table) : ~table.jobs[s].notified}
           U == Notified(table, news)
<1>1. /\ table' = job_purge_reported(U) /\ Printed(GroupsOf(news))
      /\ UNCHANGED <<proc, ring, reply>> /\ pc' = "line"
  BY DEF job_notify
<1>2. table \in Table
  BY Typings
<1>3. /\ U \in Table
      /\ \A s \in Slots : U.jobs[s] = IF s \in news
                                      THEN [table.jobs[s] EXCEPT !.notified = TRUE]
                                      ELSE table.jobs[s]
  BY <1>2, NotifiedKeeps
<1>4. ASSUME NEW s \in news
      PROVE  s \in Slots /\ s \in Finished(U) /\ U.jobs[s].notified
  <2>1. s \in Slots /\ table.jobs[s].pgid # 0 /\ job_finished(table.jobs[s])
    BY DEF Finished, Occupied
  <2>2. U.jobs[s] = [table.jobs[s] EXCEPT !.notified = TRUE] /\ table.jobs[s] \in Job
    BY <1>2, <1>3, <2>1 DEF Table
  <2>3. U.jobs[s].pgid # 0 /\ job_finished(U.jobs[s]) /\ U.jobs[s].notified
    BY <2>1, <2>2 DEF Job, job_finished
  <2> QED BY <2>1, <2>3 DEF Finished, Occupied
<1>8. news \subseteq Finished(table) /\ \A s \in news : ~table.jobs[s].notified
  OBVIOUS
<1> HIDE DEF news, U
<1>5. \A s \in Slots : \/ table'.jobs[s] = FreeSlot
                       \/ s \notin news /\ table'.jobs[s] = table.jobs[s]
  <2> DEFINE over == {s \in Finished(U) : U.jobs[s].notified}
  <2>1. table' = job_remove(U, over)
    BY <1>1 DEF job_purge_reported
  <2>2. \A s \in Slots : s \in news => s \in over
    BY <1>4
  <2> HIDE DEF over
  <2>3. \A s \in Slots : table'.jobs[s] = IF s \in over THEN FreeSlot ELSE U.jobs[s]
    BY <1>3, <2>1, RemoveKeeps
  <2> QED BY <1>3, <2>2, <2>3
<1>6. RingTrue(ring', proc)
  BY <1>1 DEF TInv, Truth
<1>7. Truth(proc', table', ring', reply', shown')
  BY <1>1, <1>5, <1>6, <1>8, PrintedTrue
<1> QED BY <1>1, <1>7, Elsewhere, TruthHolds

(* The notice of a child that dies while a line is read.                   *)
LEMMA AsyncTrue == ASSUME IInv, TInv, job_notify_async PROVE TInv'
<1> DEFINE news == {s \in WithStatus(table, "killed") :
                      ~table.jobs[s].notified
                      /\ sig_worth_announcing(table.jobs[s].raw.n)}
<1>1. /\ table' = job_remove(table, news) /\ Printed(GroupsOf(news))
      /\ UNCHANGED <<proc, ring, reply>> /\ pc' = "command"
  BY DEF job_notify_async
<1>2. news \subseteq Finished(table) /\ \A s \in news : ~table.jobs[s].notified
  BY DEF WithStatus, Finished, job_finished
<1> HIDE DEF news
<1>3. \A s \in Slots : \/ table'.jobs[s] = FreeSlot
                       \/ s \notin news /\ table'.jobs[s] = table.jobs[s]
  BY <1>1, RemoveKeeps, Typings
<1>4. RingTrue(ring', proc)
  BY <1>1 DEF TInv, Truth
<1>5. Truth(proc', table', ring', reply', shown')
  BY <1>1, <1>2, <1>3, <1>4, PrintedTrue
<1> QED BY <1>1, <1>5, Elsewhere, TruthHolds

(* The collection of background children between two commands.             *)
LEMMA ReapChildTrue == ASSUME IInv, TInv, reap_background_children PROVE TInv'
<1>1. pc' \notin {"bgadd", "stage", "fgwait", "poll", "fg"} /\ UNCHANGED <<reply, shown>>
  BY DEF reap_background_children
<1>2. CASE UNCHANGED <<proc, table, ring>>
  BY <1>1, <1>2, TruthKept, TruthHolds, Elsewhere
<1>3. CASE \E p \in Children : Zombie(p) /\ Collect(p) /\ bg_done_record(p, WordOf(p))
  <2>1. PICK p \in Children : Zombie(p) /\ Collect(p) /\ bg_done_record(p, WordOf(p))
    BY <1>3
  <2>2. p \in Pids /\ WordOf(p) = proc[p].raw
    BY <2>1 DEF Children, WordOf
  <2>3. Truth(proc', table', ring', reply, shown)
    BY <2>1, <2>2, ReapTrue DEF bg_done_record
  <2> QED BY <1>1, <2>3, Elsewhere, TruthHolds
<1> QED BY <1>2, <1>3 DEF reap_background_children

(* A process enters the table: nobody collected it nor printed its end.    *)
LEMMA EnteredTrue ==
  ASSUME NEW T \in Table, NEW U, NEW K, NEW sh, Entries(T, K, sh), Distinct(T),
         ShownTrue(sh, K), NEW p \in Pids, NotListed(p, T), NEW s \in Slots,
         T.jobs[s].pgid = 0, NEW j, JobTrue(j, K[p]), j.pgid = p, K[p].st # "reaped",
         U.jobs = [T.jobs EXCEPT ![s] = j]
  PROVE  Entries(U, K, sh) /\ Distinct(U)
<1>1. U.jobs[s] = j /\ \A t \in Slots : t # s => U.jobs[t] = T.jobs[t]
  BY DEF Table
<1>2. EntryTrue(j, K, sh)
  BY DEF EntryTrue, ShownTrue
<1>3. Entries(U, K, sh)
  BY <1>1, <1>2 DEF Entries
<1>4. Distinct(U)
  BY <1>1 DEF Distinct, NotListed
<1> QED BY <1>3, <1>4

(* `cmd &` forks a process nobody has spoken of.                           *)
LEMMA BackgroundTrue == ASSUME IInv, TInv, execute_range_background PROVE TInv'
<1> DEFINE p == Least(Fresh)
<1>1. /\ proc' = [proc EXCEPT ![p] = Forked(p)] /\ target' = p
      /\ PollThen("bgadd") /\ UNCHANGED <<table, ring, stages, todo, reply, shown>>
  BY DEF execute_range_background
<1>2. p \in Fresh
  <2>1. Fresh # {} /\ Fresh \subseteq Nat
    BY PidsAreNumbers DEF execute_range_background, Fresh
  <2> QED BY <2>1, LeastIsLeast
<1> HIDE DEF p
<1>3. Unborns(proc, p)
  BY <1>2 DEF Unborns, Fresh
<1>4. /\ Truth(proc', table, ring, reply, shown)
      /\ Ours(p, proc', table) /\ proc'[p].pgid = p
  BY <1>1, <1>3, Typings, ForkTrue DEF TInv
<1>5. Unfinished(table) # {} => Least(Unfinished(table)) \in Unfinished(table)
  BY LeastSlot DEF Unfinished, Occupied
<1>6. \/ pc' = "bgadd"
      \/ pc' = "poll" /\ after' = "bgadd" /\ cursor' \in Unfinished(table)
  BY <1>1, <1>5 DEF PollThen
<1>7. InHand'
  BY <1>1, <1>4, <1>6 DEF InHand
<1> QED BY <1>1, <1>4, <1>7, TruthHolds

(* The new background job enters the table under a group no slot has.      *)
LEMMA AddedTrue == ASSUME IInv, TInv, BackgroundAdded PROVE TInv'
<1>1. /\ pc = "bgadd" /\ pc' = "next" /\ table' = job_add(table, target)
      /\ UNCHANGED <<proc, ring, reply, shown>>
  BY DEF BackgroundAdded
<1>2. Ours(target, proc, table) /\ proc[target].pgid = target
  BY <1>1 DEF TInv, InHand
<1>3. Entries(table', proc, shown) /\ Distinct(table')
  <2> DEFINE s == Least(Slots \ Occupied(table))
             j == [FreeSlot EXCEPT !.id = job_next_id(table), !.pgid = target]
  <2>1. CASE table' = table
    BY <2>1 DEF TInv, Truth
  <2>2. CASE table' # table
    <3>1. s \in Slots \ Occupied(table) /\ table'.jobs = [table.jobs EXCEPT ![s] = j]
      BY <1>1, <2>2, AddJobs, Typings
    <3>2. s \in Slots /\ table.jobs[s].pgid = 0
      BY <3>1 DEF Occupied
    <3>3. j.pgid = target /\ j.status = "running"
      BY DEF FreeSlot
    <3> HIDE DEF s, j
    <3>4. JobTrue(j, proc[target]) /\ proc[target].st # "reaped"
      BY <1>2, <3>3 DEF JobTrue, Ours, job_finished, Alive
    <3>5. /\ Entries(table, proc, shown) /\ Distinct(table) /\ ShownTrue(shown, proc)
          /\ target \in Pids /\ NotListed(target, table) /\ table \in Table
      BY <1>2, Typings DEF Ours, TInv, Truth
    <3> QED BY <3>1, <3>2, <3>3, <3>4, <3>5, EnteredTrue
  <2> QED BY <2>1, <2>2
<1>4. Truth(proc', table', ring', reply', shown')
  BY <1>1, <1>3 DEF TInv, Truth
<1> QED BY <1>1, <1>4, Elsewhere, TruthHolds

(* A foreground pipeline has one stage.                                    *)
LEMMA PipelineTrue == ASSUME IInv, TInv, Plain, execute_pipeline PROVE TInv'
<1>1. /\ UNCHANGED <<proc, table, ring, reply, shown>>
      /\ pc' = "stage" /\ stages' = <<>> /\ todo' = 1
  BY JobControlAssumption DEF execute_pipeline, Plain
<1>2. Truth(proc', table', ring', reply', shown')
  BY <1>1, TruthKept
<1>3. InHand'
  BY <1>1 DEF InHand
<1> QED BY <1>2, <1>3, TruthHolds

(* A foreground stage is forked.                                           *)
LEMMA StageTrue == ASSUME IInv, TInv, ForkStage PROVE TInv'
<1> DEFINE p == Least(Fresh)
           g == StageGroup(p)
<1>1. /\ proc' = [proc EXCEPT ![p] = Forked(g)] /\ stages' = Append(stages, p)
      /\ pc = "stage" /\ pc' = IF todo = 1 THEN "fgwait" ELSE "stage"
      /\ UNCHANGED <<table, ring, reply, shown>>
  BY DEF ForkStage
<1>2. stages = <<>> /\ todo = 1
  BY <1>1 DEF TInv, InHand
<1>3. p \in Fresh
  <2>1. Fresh # {} /\ Fresh \subseteq Nat
    BY PidsAreNumbers DEF ForkStage, Fresh
  <2> QED BY <2>1, LeastIsLeast
<1>4. g \in {p, ShellGroup}
  BY <1>2 DEF StageGroup
<1> HIDE DEF p, g
<1>5. Unborns(proc, p)
  BY <1>3 DEF Unborns, Fresh
<1>6. Truth(proc', table, ring, reply, shown) /\ Ours(p, proc', table)
  BY <1>1, <1>4, <1>5, Typings, ForkTrue DEF TInv
<1>7. pc' = "fgwait" /\ stages' = <<p>> /\ p \in Pids
  BY <1>1, <1>2, <1>3 DEF Fresh
<1>8. InHand'
  BY <1>1, <1>6, <1>7 DEF InHand
<1> QED BY <1>1, <1>6, <1>8, TruthHolds

(* No stage is expanded after another.                                     *)
LEMMA ExpandTrue == ASSUME IInv, TInv, ExpandInParent PROVE TInv'
BY DEF ExpandInParent, TInv, InHand

(* The foreground child is collected by its own wait; if it stopped it     *)
(* becomes a job that says so.                                             *)
LEMMA StageWaitTrue == ASSUME IInv, TInv, exe_res_set_status PROVE TInv'
<1>1. /\ pc = "fgwait" /\ stages # <<>> /\ stages' = Tail(stages)
      /\ UNCHANGED <<pc, ring, reply, shown>>
  BY DEF exe_res_set_status
<1> DEFINE p == Head(stages)
<1>2. p \in Pids /\ stages = <<p>> /\ Ours(p, proc, table)
  <2>1. PICK q \in Pids : stages = <<q>> /\ Ours(q, proc, table)
    BY <1>1 DEF TInv, InHand
  <2>2. Head(stages) = q
    BY <2>1
  <2> QED BY <2>1, <2>2
<1>3. /\ p \in Ready({p}, TRUE, FALSE) /\ Collect(p)
      /\ IF Zombie(p) THEN UNCHANGED table ELSE fg_job_stopped(p)
  BY DEF exe_res_set_status
<1> HIDE DEF p
<1>4. Reports(proc[p]) /\ KernelOK /\ table \in Table
  BY <1>3, Typings DEF Ready, Reports, Zombie, IInv
<1>5. Truth(proc, table, ring, reply, shown)
  BY DEF TInv
<1>6. /\ Lone(proc') /\ RingTrue(ring, proc') /\ ShownTrue(shown, proc')
      /\ AnswerTrue(reply, proc')
      /\ NotListed(p, table) => Entries(table, proc', shown)
  BY <1>2, <1>3, <1>4, <1>5, CollectTrue
<1>7. Entries(table, proc', shown) /\ Distinct(table) /\ NotListed(p, table)
  BY <1>2, <1>5, <1>6 DEF Ours, Truth
<1>8. Entries(table', proc', shown) /\ Distinct(table')
  <2>1. CASE Zombie(p)
    BY <1>3, <1>7, <2>1
  <2>2. CASE ~Zombie(p)
    <3> DEFINE g == proc[p].pgid
               s == Least(Slots \ Occupied(table))
               j == [FreeSlot EXCEPT !.id = job_next_id(table), !.pgid = g]
               n == [j EXCEPT !.status = "stopped"]
    <3>1. proc[p].st = "stop" /\ proc[p].event = "stop"
      BY <1>3, <2>2 DEF Ready
    <3>2. g = p
      <4>1. LoneProcess(p, proc[p]) /\ Grouped(proc[p])
        BY <1>2, <1>5 DEF Truth, Lone, IInv, KernelOK
      <4> QED BY <3>1, <4>1 DEF LoneProcess, Grouped
    <3>3. proc'[p].st = "stop" /\ proc'[p].pgid = p
      <4>1. proc[p] \in Process /\ proc \in [Pids -> Process]
        BY <1>2, Typings
      <4> QED BY <1>3, <2>2, <3>1, <3>2, <4>1 DEF Collect, Process
    <3>4. j.pgid = p /\ n.pgid = p /\ n.status = "stopped"
          /\ Decoded(j, StoppedWord) = n
      BY <3>2 DEF FreeSlot, Decoded, StoppedWord
    <3>5. JobTrue(n, proc'[p]) /\ proc'[p].st # "reaped"
      BY <3>3, <3>4 DEF JobTrue, job_finished, Alive
    <3>6. CASE Slots \ Occupied(table) = {}
      BY <1>3, <1>7, <2>2, <3>6 DEF fg_job_stopped
    <3>7. CASE Slots \ Occupied(table) # {}
      <4> DEFINE U == job_add(table, g)
      <4>1. table' = job_record_exit(U, s, StoppedWord)
        BY <1>3, <2>2, <3>7 DEF fg_job_stopped
      <4>2. s \in Slots /\ s \in Slots \ Occupied(table)
        BY <3>7, LeastSlot
      <4>3. U.jobs = [table.jobs EXCEPT ![s] = j]
        BY <1>4, <3>7, AddJobs
      <4>4. U \in Table
        <5>1. g \in 1 .. NPids + 1
          BY <1>2, <3>2, JobControlAssumption DEF Pids
        <5> QED BY <5>1, AddGood DEF IInv, Good, TableOK
      <4>5. table.jobs[s].pgid = 0
        BY <4>2 DEF Occupied
      <4> HIDE DEF U, s, n, j
      <4>6. U.jobs[s] = j
        BY <1>4, <4>2, <4>3 DEF Table
      <4>7. table'.jobs = [U.jobs EXCEPT ![s] = n]
        BY <3>4, <4>1, <4>2, <4>4, <4>6 DEF job_record_exit, Table
      <4>8. table'.jobs = [table.jobs EXCEPT ![s] = n]
        BY <1>4, <4>3, <4>7 DEF Table
      <4> QED BY <1>2, <1>4, <1>6, <1>7, <3>4, <3>5, <4>2, <4>5, <4>8, EnteredTrue
    <3> QED BY <3>6, <3>7
  <2> QED BY <2>1, <2>2
<1>9. Truth(proc', table', ring', reply', shown')
  BY <1>1, <1>6, <1>8 DEF Truth
<1>10. pc' = "fgwait" /\ stages' = <<>>
  BY <1>1, <1>2
<1>11. InHand'
  BY <1>10 DEF InHand
<1> QED BY <1>9, <1>11, TruthHolds

(* wait PID collects the process.                                          *)
LEMMA WaitOneTrue == ASSUME IInv, TInv, wait_one PROVE TInv'
<1> DEFINE U == TableLearns(table, target, proc[target].raw)
           P == Pushed(target, proc[target].raw)
<1>1. /\ Zombie(target) /\ Collect(target) /\ target \in Pids
      /\ ring' = Taken(P, target) /\ table' = job_purge_done(U)
      /\ reply' = [pid |-> target, code |-> CodeOf(proc[target].raw)]
      /\ shown' = shown /\ pc' = "next"
  BY DEF wait_one, IInv, PlaceOK, Answer
<1>2. /\ \A V : Kept(V, U) => Truth(proc', V, Taken(P, target), reply, shown)
      /\ U \in Table
      /\ AnswerTrue([pid |-> target, code |-> CodeOf(proc[target].raw)], proc')
  BY <1>1, ReapTrue
<1> HIDE DEF U, P
<1>3. Kept(job_purge_done(U), U)
  BY <1>2, RemoveKeeps DEF job_purge_done
<1>4. Truth(proc', table', ring', reply, shown)
  BY <1>1, <1>2, <1>3
<1>5. Truth(proc', table', ring', reply', shown')
  BY <1>1, <1>2, <1>4 DEF Truth
<1> QED BY <1>1, <1>5, Elsewhere, TruthHolds

(* wait -n collects any, or has nobody to wait for.                        *)
LEMMA WaitNextTrue == ASSUME IInv, TInv, wait_n PROVE TInv'
<1>1. shown' = shown /\ pc' = "next"
  BY DEF wait_n
<1>2. CASE UNCHANGED <<proc, ring, table>> /\ reply' = [pid |-> 0, code |-> 127]
  <2>1. AnswerTrue(reply', proc')
    BY <1>2 DEF AnswerTrue
  <2>2. Truth(proc', table', ring', reply', shown')
    BY <1>1, <1>2, <2>1 DEF TInv, Truth
  <2> QED BY <1>1, <2>2, Elsewhere, TruthHolds
<1>3. ASSUME NEW p \in Children, Zombie(p), Collect(p),
             ring' = Taken(Pushed(p, proc[p].raw), p),
             table' = job_purge_done(TableLearns(table, p, proc[p].raw)),
             reply' = [pid |-> p, code |-> CodeOf(proc[p].raw)]
      PROVE  TInv'
  <2> DEFINE U == TableLearns(table, p, proc[p].raw)
             P == Pushed(p, proc[p].raw)
  <2>1. p \in Pids
    BY DEF Children
  <2>2. /\ \A V : Kept(V, U) => Truth(proc', V, Taken(P, p), reply, shown)
        /\ U \in Table
        /\ AnswerTrue([pid |-> p, code |-> CodeOf(proc[p].raw)], proc')
    BY <1>3, <2>1, ReapTrue
  <2>3. table' = job_purge_done(U) /\ ring' = Taken(P, p)
    BY <1>3
  <2> HIDE DEF U, P
  <2>4. Kept(job_purge_done(U), U)
    BY <2>2, RemoveKeeps DEF job_purge_done
  <2>5. Truth(proc', table', ring', reply, shown)
    BY <2>2, <2>3, <2>4
  <2>6. Truth(proc', table', ring', reply', shown')
    BY <1>1, <1>3, <2>2, <2>5 DEF Truth
  <2> QED BY <1>1, <2>6, Elsewhere, TruthHolds
<1> QED BY <1>2, <1>3 DEF wait_n, Answer

(* wait PID, the process is collected already: the ring or the table has   *)
(* its status, or the answer is "unknown".                                 *)
LEMMA ReapedTrue == ASSUME IInv, TInv, reaped_job_status PROVE TInv'
<1> DEFINE p == target
           job == IF job_find_pgid(table, p) = {} THEN {}
                  ELSE {Least(job_find_pgid(table, p))}
           hits == Remembered(p)
           over == {s \in job : job_finished(table.jobs[s])}
           code == IF hits # {}
                   THEN LET w == ring.slot[Least(hits)].raw
                        IN  IF w.how \in {"exit", "sig"} THEN CodeOf(w) ELSE 127
                   ELSE IF over # {} THEN table.jobs[Least(over)].code
                   ELSE 127
<1>1. /\ p \in Pids /\ pc' = "next" /\ UNCHANGED <<proc, shown>>
      /\ ring' = Taken(ring, p)
      /\ table' = job_remove(table, job) \/ table' = job_remove(table, over)
      /\ reply' = [pid |-> p, code |-> code]
  BY DEF reaped_job_status, IInv, PlaceOK, Answer
<1>2. /\ Lone(proc) /\ Entries(table, proc, shown) /\ Distinct(table)
      /\ RingTrue(ring, proc) /\ ShownTrue(shown, proc)
  BY DEF TInv, Truth
<1>3. job \subseteq Slots /\ \A s \in job : table.jobs[s].pgid = p
  <2>1. job_find_pgid(table, p) # {} =>
          Least(job_find_pgid(table, p)) \in job_find_pgid(table, p)
    BY LeastSlot DEF job_find_pgid
  <2> QED BY <2>1 DEF job_find_pgid
<1>4. AnswerTrue([pid |-> p, code |-> code], proc)
  <2>1. CASE hits # {}
    <3> DEFINE w == ring.slot[Least(hits)].raw
    <3>1. Least(hits) \in hits
      <4>1. hits \subseteq Nat
        BY DEF Remembered, RingSlots
      <4> HIDE DEF hits
      <4> QED BY <2>1, <4>1, LeastIsLeast
    <3>2. proc[p].st = "reaped" /\ w = proc[p].raw
      <4> DEFINE h == Least(hits)
      <4>1. h \in RingSlots /\ ring.slot[h].pid = p
        BY <3>1 DEF Remembered
      <4> HIDE DEF h
      <4>2. p \in Pids /\ p # 0
        BY DEF reaped_job_status, IInv, PlaceOK, Pids
      <4>3. proc[p].st = "reaped" /\ ring.slot[h].raw = proc[p].raw
        BY <1>2, <4>1, <4>2 DEF RingTrue
      <4> QED BY <4>3 DEF h
    <3>3. code = IF w.how \in {"exit", "sig"} THEN CodeOf(w) ELSE 127
      BY <2>1
    <3> HIDE DEF w, code
    <3>4. w.how \in {"exit", "sig"} \/ code = 127
      BY <3>3
    <3>5. w.how \in {"exit", "sig"} => code = IF w.how = "sig" THEN 128 + w.n ELSE w.n
      BY <3>3 DEF CodeOf
    <3> QED BY <3>2, <3>4, <3>5 DEF AnswerTrue
  <2>2. CASE hits = {} /\ over # {}
    <3> DEFINE s == Least(over)
    <3>1. s \in over
      <4>1. over \subseteq Slots
        BY <1>3
      <4> HIDE DEF over
      <4> QED BY <2>2, <4>1, LeastSlot
    <3>2. s \in Slots /\ table.jobs[s].pgid = p /\ job_finished(table.jobs[s])
      BY <1>3, <3>1
    <3>3. code = table.jobs[s].code
      BY <2>2
    <3> HIDE DEF s, code
    <3>4. JobTrue(table.jobs[s], proc[p])
      BY <1>1, <1>2, <3>2, PidsAreNumbers DEF Entries, EntryTrue, Pids
    <3>5. proc[p].st = "reaped" /\ code = CodeOf(proc[p].raw)
      BY <3>2, <3>3, <3>4 DEF JobTrue
    <3> QED BY <3>5 DEF AnswerTrue, CodeOf
  <2>3. CASE hits = {} /\ over = {}
    BY <2>3 DEF AnswerTrue
  <2> QED BY <2>1, <2>2, <2>3
<1> HIDE DEF p, job, hits, over, code
<1>5. Kept(table', table) /\ table \in Table
  BY <1>1, RemoveKeeps, Typings
<1>6. Entries(table', proc, shown) /\ Distinct(table')
  BY <1>2, <1>5, KeptTrue
<1>7. RingTrue(ring', proc)
  BY <1>1, <1>2, TakenTrue, Typings
<1>8. Truth(proc', table', ring', reply', shown')
  BY <1>1, <1>2, <1>4, <1>6, <1>7 DEF Truth
<1> QED BY <1>1, <1>8, Elsewhere, TruthHolds

(* A bare wait collects whom it finds.                                     *)
LEMMA WaitDrainTrue == ASSUME IInv, TInv, wait_drain PROVE TInv'
<1>1. /\ UNCHANGED <<reply, shown>>
      /\ pc' \notin {"bgadd", "stage", "fgwait", "poll", "fg"}
  BY DEF wait_drain, WaitAllEnd
<1>2. CASE \E p \in Children :
             Sweep(p) /\ table' = TableLearns(table, p, proc[p].raw)
  <2>1. PICK p \in Children :
             Sweep(p) /\ table' = TableLearns(table, p, proc[p].raw)
    BY <1>2
  <2>2. /\ p \in Pids /\ Zombie(p) /\ Collect(p)
        /\ ring' = Taken(Pushed(p, proc[p].raw), p)
    BY <2>1 DEF Sweep, Children
  <2>3. Truth(proc', table', ring', reply, shown)
    BY <2>1, <2>2, ReapTrue
  <2> QED BY <1>1, <2>3, Elsewhere, TruthHolds
<1>3. CASE UNCHANGED <<proc, table, ring>>
  BY <1>1, <1>3, TruthKept, TruthHolds, Elsewhere
<1>4. CASE WaitAllEnd
  <2> DEFINE U == job_mark_reported_except(table, lastBg)
  <2>1. UNCHANGED <<proc, ring>> /\ (table' = table \/ table' = job_purge_reported(U))
    BY <1>4 DEF WaitAllEnd
  <2>2. table \in Table /\ U \in Table /\ Kept(U, table)
    BY Typings, NotifiedKeeps DEF job_mark_reported_except
  <2> HIDE DEF U
  <2>3. Kept(job_purge_reported(U), U)
    BY <2>2, RemoveKeeps DEF job_purge_reported
  <2>4. Entries(table, proc, shown) /\ Distinct(table)
    BY DEF TInv, Truth
  <2>5. Entries(U, proc, shown) /\ Distinct(U)
    BY <2>2, <2>4, KeptTrue
  <2>6. Entries(table', proc, shown) /\ Distinct(table')
    BY <2>1, <2>2, <2>3, <2>4, <2>5, KeptTrue
  <2>7. Truth(proc', table', ring', reply', shown')
    BY <1>1, <2>1, <2>6 DEF TInv, Truth
  <2> QED BY <1>1, <2>7, Elsewhere, TruthHolds
<1> QED BY <1>2, <1>3, <1>4 DEF wait_drain

(* `wait` for a list of operands, one at a time.                           *)
LEMMA WaitOrderTrue == ASSUME IInv, TInv, wait_in_order PROVE TInv'
<1>1. /\ UNCHANGED <<reply, shown>>
      /\ pc' \notin {"bgadd", "stage", "fgwait", "poll", "fg"}
  BY DEF wait_in_order
<1>2. CASE UNCHANGED <<proc, table, ring>>
  BY <1>1, <1>2, TruthKept, TruthHolds, Elsewhere
<1>3. ASSUME NEW p \in Children, Sweep(p), NEW S,
             table' = TableLearns(table, p, proc[p].raw)
             \/ table' = Notified(TableLearns(table, p, proc[p].raw), S)
      PROVE  TInv'
  <2> DEFINE U == TableLearns(table, p, proc[p].raw)
             P == Pushed(p, proc[p].raw)
  <2>1. p \in Pids /\ Zombie(p) /\ Collect(p) /\ ring' = Taken(P, p)
    BY <1>3 DEF Sweep, Children
  <2>2. table' = U \/ table' = Notified(U, S)
    BY <1>3
  <2>3. /\ Truth(proc', U, Taken(P, p), reply, shown) /\ U \in Table
        /\ \A V : Kept(V, U) => Truth(proc', V, Taken(P, p), reply, shown)
    BY <2>1, ReapTrue
  <2> HIDE DEF U, P
  <2>4. Truth(proc', table', ring', reply, shown)
    BY <2>1, <2>2, <2>3, NotifiedKeeps
  <2> QED BY <1>1, <2>4, Elsewhere, TruthHolds
<1> QED BY <1>2, <1>3 DEF wait_in_order

(* jobs prints an ended job once, remembers it again, and then retires it. *)
LEMMA ListTrue == ASSUME IInv, TInv, ListJobs PROVE TInv'
<1> DEFINE news == {s \in Finished(table) : ~table.jobs[s].notified}
           s == ByNumber(table, news)
           j == table.jobs[s]
<1>1. UNCHANGED <<proc, reply>> /\ pc' \notin {"bgadd", "stage", "fgwait", "poll", "fg"}
  BY DEF ListJobs
<1>2. Truth(proc, table, ring, reply, shown) /\ table \in Table
  BY Typings DEF TInv
<1>3. CASE news # {}
  <2>1. s \in news
    <3>1. news \subseteq Slots
      BY DEF Finished, Occupied
    <3> HIDE DEF news
    <3> QED BY <1>2, <1>3, <3>1, ByNumberIn
  <2>2. /\ ring' = Pushed(j.pgid, j.raw)
        /\ table' = TableLearns(Notified(table, {s}), j.pgid, j.raw)
        /\ Printed({j.pgid})
    BY <1>3 DEF ListJobs
  <2>3. s \in Slots /\ s \in Finished(table) /\ ~j.notified /\ j.pgid # 0 /\ job_finished(j)
    BY <2>1 DEF Finished, Occupied
  <2> HIDE DEF news, s
  <2>4. /\ j.pgid \in Pids /\ proc[j.pgid].st = "reaped"
        /\ j.raw = proc[j.pgid].raw /\ j.code = CodeOf(j.raw)
    BY <1>2, <2>3 DEF Truth, Entries, EntryTrue, JobTrue
  <2>5. j.raw \in FinalWords /\ j \in Job
    BY <1>2, <2>3, <2>4 DEF Truth, Lone, LoneProcess, Table
  <2>6. RingTrue(ring', proc)
    BY <1>2, <2>2, <2>4, PushedTrue DEF Truth, IInv
  <2> DEFINE U == Notified(table, {s})
             n == [j EXCEPT !.notified = TRUE]
  <2>7. /\ U \in Table /\ U.jobs[s] = n
        /\ \A t \in Slots : t # s => U.jobs[t] = table.jobs[t]
        /\ Kept(U, table)
    BY <1>2, <2>3, NotifiedKeeps
  <2>8. Files(U, table', j.pgid, j.raw)
    <3>1. Distinct(U)
      BY <1>2, <2>7, KeptTrue DEF Truth
    <3> HIDE DEF U
    <3> QED BY <2>2, <2>3, <2>7, <3>1, LearnsFiles DEF U
  <2> HIDE DEF U, j
  <2>9. n \in Job /\ n.pgid = j.pgid /\ n.notified
    BY <2>5 DEF Job
  <2> HIDE DEF n
  <2>10. Marked(j, Decoded(n, j.raw))
    <3> DEFINE d == Decoded(n, j.raw)
    <3>1. job_finished(d) /\ d = [n EXCEPT !.status = d.status, !.code = CodeOf(j.raw),
                                           !.raw = j.raw]
      BY <2>5, <2>9, FinalDecoded
    <3> HIDE DEF d
    <3>2. d.pgid = n.pgid /\ d.code = CodeOf(j.raw) /\ d.raw = j.raw /\ d.notified
      BY <2>9, <3>1 DEF Job
    <3>3. Marked(j, d)
      BY <2>4, <2>9, <3>1, <3>2 DEF Marked
    <3> QED BY <3>3 DEF d
  <2>11. Marked(j, table'.jobs[s])
    BY <2>3, <2>7, <2>8, <2>9, <2>10 DEF Files
  <2>12. ASSUME NEW t \in Slots, t # s
         PROVE  table'.jobs[t] = table.jobs[t]
    <3>1. table.jobs[t].pgid # j.pgid
      BY <1>2, <2>3, <2>12 DEF Truth, Distinct, j
    <3> QED BY <2>7, <2>8, <2>12, <3>1 DEF Files
  <2>13. Printed(GroupsOf({s}))
    <3>1. GroupsOf({s}) = {j.pgid}
      BY DEF GroupsOf, j
    <3> QED BY <2>2, <3>1
  <2>14. Truth(proc', table', ring', reply', shown')
    BY <1>1, <2>3, <2>6, <2>11, <2>12, <2>13, PrintedTrue DEF j
  <2> QED BY <1>1, <2>14, Elsewhere, TruthHolds
<1>4. CASE news = {}
  <2>1. table' = job_purge_reported(table) /\ UNCHANGED <<ring, shown>>
    BY <1>4 DEF ListJobs
  <2>2. Kept(table', table)
    BY <1>2, <2>1, RemoveKeeps DEF job_purge_reported
  <2>3. Truth(proc', table', ring', reply', shown')
    BY <1>1, <1>2, <2>1, <2>2, KeptTrue DEF Truth
  <2> QED BY <1>1, <2>3, Elsewhere, TruthHolds
<1> QED BY <1>3, <1>4

-----------------------------------------------------------------------------
(* Signals to the groups of the table.                                     *)

(* Signals sent to groups of jobs move their processes and nobody else.    *)
LEMMA GroupsMove ==
  ASSUME IInv, NEW G, ShellGroup \notin G, NEW sigs, sigs \in Seq(SignalNames),
         Len(sigs) \in {1, 2}, proc' = KillGroups(G, sigs)
  PROVE  /\ proc' \in [Pids -> Process]
         /\ \A p \in Pids : Moves(proc[p], proc'[p])
<1> SUFFICES ASSUME NEW p \in Pids
             PROVE  KillGroups(G, sigs)[p] \in Process
                    /\ Moves(proc[p], KillGroups(G, sigs)[p])
  BY DEF KillGroups
<1> DEFINE r == proc[p]
           q == Signalled(r, sigs[1])
           u == Signalled(q, sigs[2])
<1>1. r \in Process /\ Grouped(r)
  BY Typings DEF IInv, KernelOK
<1>2. KillGroups(G, sigs)[p] = IF r.pgid \notin G THEN r ELSE IF Len(sigs) = 1 THEN q ELSE u
  BY DEF KillGroups
<1>3. sigs[1] \in SignalNames /\ (Len(sigs) # 1 => sigs[2] \in SignalNames)
  OBVIOUS
<1> HIDE DEF r
<1>4. CASE r.pgid \notin G
  <2>1. Moves(r, r)
    BY DEF Moves
  <2> QED BY <1>1, <1>2, <1>4, <2>1 DEF r
<1>5. CASE r.pgid \in G
  <2>1. r.pgid # ShellGroup
    BY <1>5
  <2>2. q \in Process /\ Grouped(q) /\ Moves(r, q)
    BY <1>1, <1>3, <2>1, SignalMoves, SignalledOK DEF Grouped
  <2>3. q.pgid = r.pgid
    BY <2>2 DEF Moves
  <2> HIDE DEF q
  <2>4. Len(sigs) # 1 => u \in Process /\ Moves(q, u)
    BY <1>3, <2>1, <2>2, <2>3, SignalMoves, SignalledOK DEF Grouped
  <2> HIDE DEF u
  <2>5. Len(sigs) # 1 => Moves(r, u)
    BY <1>1, <2>2, <2>4, MovesMore
  <2> QED BY <1>2, <1>5, <2>2, <2>4, <2>5 DEF r
<1> QED BY <1>4, <1>5

(* kill and the hang-up signal groups of the table.                        *)
LEMMA SignalsMove ==
  ASSUME IInv, TInv, job_kill_group \/ hangup_every_job
  PROVE  proc' \in [Pids -> Process] /\ \A p \in Pids : Moves(proc[p], proc'[p])
<1>1. ASSUME UNCHANGED proc
      PROVE  proc' \in [Pids -> Process] /\ \A p \in Pids : Moves(proc[p], proc'[p])
  BY <1>1, Typings DEF Moves
<1>2. ASSUME NEW G, G \subseteq GroupsOf(Occupied(table)), NEW sigs \in Seq(SignalNames),
             Len(sigs) \in {1, 2}, proc' = KillGroups(G, sigs)
      PROVE  proc' \in [Pids -> Process] /\ \A p \in Pids : Moves(proc[p], proc'[p])
  <2>1. ShellGroup \notin G
    BY <1>2, GroupIsLeader DEF GroupsOf
  <2> QED BY <1>2, <2>1, GroupsMove
<1>3. CASE job_kill_group
  <2>1. PICK s \in Occupied(table), sig \in Kills :
          proc' = KillGroups({table.jobs[s].pgid},
                             IF table.jobs[s].status = "stopped" /\ sig # "STOP"
                             THEN <<sig, "CONT">> ELSE <<sig>>)
    BY <1>3 DEF job_kill_group
  <2> DEFINE sigs == IF table.jobs[s].status = "stopped" /\ sig # "STOP"
                     THEN <<sig, "CONT">> ELSE <<sig>>
  <2>2. sig \in SignalNames /\ "CONT" \in SignalNames
    BY JobControlAssumption DEF SignalNames
  <2>3. sigs \in Seq(SignalNames) /\ Len(sigs) \in {1, 2}
    BY <2>2, SignalLists
  <2>4. {table.jobs[s].pgid} \subseteq GroupsOf(Occupied(table))
    BY DEF GroupsOf
  <2>5. proc' = KillGroups({table.jobs[s].pgid}, sigs)
    BY <2>1
  <2> HIDE DEF sigs
  <2> QED BY <1>2, <2>3, <2>4, <2>5
<1>4. CASE hangup_every_job
  <2>1. UNCHANGED proc \/ proc' = KillGroups(GroupsOf(Unfinished(table)), <<"HUP", "CONT">>)
    BY <1>4 DEF hangup_every_job
  <2>2. /\ <<"HUP", "CONT">> \in Seq(SignalNames) /\ Len(<<"HUP", "CONT">>) \in {1, 2}
    BY SignalLists DEF SignalNames
  <2>3. GroupsOf(Unfinished(table)) \subseteq GroupsOf(Occupied(table))
    BY DEF GroupsOf, Unfinished
  <2> QED BY <1>1, <1>2, <2>1, <2>2, <2>3
<1> QED BY <1>3, <1>4

(* What the shell says is as true of the signalled processes.              *)
LEMMA SignalTrue == ASSUME IInv, TInv, job_kill_group \/ hangup_every_job PROVE TInv'
<1>1. /\ UNCHANGED <<table, ring, reply, shown>>
      /\ pc' \notin {"bgadd", "stage", "fgwait", "poll", "fg"}
  BY DEF job_kill_group, hangup_every_job
<1>2. Truth(proc', table, ring, reply, shown)
  BY SignalsMove, MovesTrue, Typings DEF TInv
<1> QED BY <1>1, <1>2, Elsewhere, TruthHolds

(* fg and bg continue a group.                                             *)
LEMMA ContinueMoves ==
  ASSUME IInv, TInv, NEW s \in Occupied(table),
         proc' = KillGroups({table.jobs[s].pgid}, <<"CONT">>)
  PROVE  /\ proc' \in [Pids -> Process]
         /\ \A p \in Pids : Moves(proc[p], proc'[p])
         /\ proc'[table.jobs[s].pgid].st # "stop"
<1> DEFINE g == table.jobs[s].pgid
<1>1. g \in Pids /\ g # 0 /\ g # ShellGroup /\ s \in Slots
  BY GroupIsLeader DEF Occupied
<1>2. <<"CONT">> \in Seq(SignalNames) /\ Len(<<"CONT">>) = 1
  BY SignalLists DEF SignalNames
<1>3. ShellGroup \notin {g}
  BY <1>1
<1>4. proc[g].pgid = g
  BY <1>1 DEF TInv, Truth, Entries, EntryTrue, JobTrue
<1>5. proc'[g] = Signalled(proc[g], "CONT")
  BY <1>1, <1>2, <1>4 DEF KillGroups
<1>6. proc[g] \in Process
  BY <1>1, Typings
<1>7. proc'[g].st # "stop"
  BY <1>5, <1>6 DEF Signalled, Process, ProcessStates
<1> QED BY <1>2, <1>3, <1>7, GroupsMove

(* fg and bg continue a group and call its job running: it is not stopped. *)
LEMMA ContinuedTrue ==
  ASSUME IInv, TInv, NEW s \in Unfinished(table),
         table' = [table EXCEPT !.jobs[s].status = "running"],
         proc' = KillGroups({table.jobs[s].pgid}, <<"CONT">>),
         UNCHANGED <<ring, reply, shown>>
  PROVE  Truth(proc', table', ring', reply', shown') /\ s \in Unfinished(table')
<1> DEFINE j == table.jobs[s]
           n == [j EXCEPT !.status = "running"]
           g == j.pgid
<1>1. s \in Occupied(table) /\ s \in Slots /\ table \in Table /\ j \in Job
  BY Typings DEF Unfinished, Occupied
<1>2. g \in Pids /\ g # 0 /\ g # ShellGroup
  BY <1>1, GroupIsLeader
<1>4. proc' \in [Pids -> Process] /\ \A p \in Pids : Moves(proc[p], proc'[p])
  BY <1>1, ContinueMoves
<1>5. Truth(proc', table, ring, reply, shown)
  BY <1>4, MovesTrue, Typings DEF TInv
<1>6. ~job_finished(j)
  BY <1>1 DEF Unfinished, Finished
<1>7. EntryTrue(j, proc', shown)
  BY <1>1, <1>5 DEF Truth, Entries
<1>8. proc'[g].st # "stop"
  BY <1>1, ContinueMoves
<1>9. table'.jobs[s] = n /\ \A t \in Slots : t # s => table'.jobs[t] = table.jobs[t]
  BY <1>1 DEF Table
<1>10. n.pgid = g /\ n.status = "running" /\ n.notified = j.notified
  BY <1>1 DEF Job
<1>11. EntryTrue(n, proc', shown) /\ ~job_finished(n)
  <2> HIDE DEF n, j
  <2>1. g \in Pids /\ JobTrue(j, proc'[g]) /\ (shown[g] # 0 => j.notified)
    BY <1>2, <1>7 DEF EntryTrue
  <2>2. JobTrue(n, proc'[g])
    BY <1>6, <1>8, <1>10, <2>1 DEF JobTrue, job_finished
  <2> QED BY <1>10, <2>1, <2>2 DEF EntryTrue, job_finished
<1> HIDE DEF n
<1>12. Entries(table', proc', shown)
  BY <1>5, <1>9, <1>11 DEF Truth, Entries
<1>13. Distinct(table')
  <2>1. \A t \in Slots : table'.jobs[t].pgid = table.jobs[t].pgid
    BY <1>9, <1>10
  <2> QED BY <1>5, <2>1 DEF Truth, Distinct
<1>14. s \in Unfinished(table')
  BY <1>1, <1>2, <1>9, <1>10, <1>11 DEF Unfinished, Finished, Occupied
<1> QED BY <1>5, <1>12, <1>13, <1>14 DEF Truth

(* fg and bg continue a job: its entry says running, which no end          *)
(* contradicts while the job is not over.                                  *)
LEMMA ContinueTrue == ASSUME IInv, TInv, Plain, builtin_fg \/ builtin_bg PROVE TInv'
<1>1. UNCHANGED <<ring, reply, shown>>
  BY DEF builtin_fg, builtin_bg
<1>2. PICK s \in Unfinished(table) :
        /\ table' = [table EXCEPT !.jobs[s].status = "running"]
        /\ proc' = KillGroups({table.jobs[s].pgid}, <<"CONT">>)
        /\ pc' = "next" \/ (pc' = "fg" /\ target' = s)
  <2>1. \A s \in WithStatus(table, "stopped") : s \in Unfinished(table)
    BY DEF WithStatus, Unfinished, Finished, job_finished
  <2> QED BY <2>1 DEF builtin_fg, builtin_bg, Plain
<1>3. Truth(proc', table', ring', reply', shown') /\ s \in Unfinished(table')
  BY <1>1, <1>2, ContinuedTrue
<1>4. InHand'
  BY <1>2, <1>3 DEF InHand
<1> QED BY <1>3, <1>4, TruthHolds

(* fg answers with what its job died with, or that it stopped again.       *)
LEMMA FgWaitTrue == ASSUME IInv, TInv, fg_wait_result PROVE TInv'
<1> DEFINE g == table.jobs[target].pgid
           result(w) == /\ table' = IF w.how = "stop"
                                    THEN [table EXCEPT !.jobs[target].status = "stopped"]
                                    ELSE job_remove(table, {target})
                        /\ Answer(g, IF w.how = "stop" THEN 148 ELSE CodeOf(w))
<1>1. pc = "fg" /\ pc' = "next" /\ UNCHANGED <<ring, shown>>
  BY DEF fg_wait_result
<1>2. /\ target \in Unfinished(table) /\ target \in Occupied(table) /\ target \in Slots
      /\ table \in Table /\ KernelOK
  BY <1>1, Typings DEF TInv, InHand, Unfinished, Occupied, IInv
<1>3. g \in Pids /\ g # 0 /\ g \in Group(g) /\ \A q \in Group(g) : q = g
  BY <1>2, GroupIsLeader
<1>4. PICK q \in Ready(Group(g), TRUE, FALSE) : Collect(q) /\ result(WordOf(q))
  BY <1>3 DEF fg_wait_result
<1>5. q = g /\ Reports(proc[g])
  BY <1>3 DEF Ready, Reports, Zombie
<1>6. Truth(proc, table, ring, reply, shown) /\ Distinct(table)
  BY DEF TInv, Truth
<1>7. /\ Lone(proc') /\ RingTrue(ring, proc') /\ ShownTrue(shown, proc')
      /\ \A U : Files(table, U, g, WordOf(g)) => Entries(U, proc', shown)
      /\ Zombie(g) => /\ proc'[g].st = "reaped" /\ proc'[g].raw = proc[g].raw
                      /\ proc[g].raw \in FinalWords /\ WordOf(g) = proc[g].raw
  BY <1>2, <1>3, <1>4, <1>5, <1>6, CollectTrue
<1>8. WordOf(g) \in StatusWord
  BY <1>2, <1>3, <1>4, <1>5, CollectOK
<1>9. result(WordOf(g))
  BY <1>4, <1>5
<1> HIDE DEF g
<1>10. CASE Zombie(g)
  <2> DEFINE U == job_record_exit(table, target, WordOf(g))
  <2>1. WordOf(g).how # "stop"
    BY <1>7, <1>10 DEF FinalWords, Exited, Signaled
  <2>2. table' = job_remove(table, {target})
        /\ reply' = [pid |-> g, code |-> CodeOf(WordOf(g))]
    BY <1>9, <2>1 DEF Answer
  <2>3. Files(table, U, g, WordOf(g))
    BY <1>2, <1>3, <1>6, RecordFiles DEF g
  <2>4. U \in Table
    BY <1>2, <1>8, RecordGood DEF IInv, Good, TableOK
  <2>5. Entries(U, proc', shown) /\ Distinct(U)
    BY <1>2, <1>6, <1>7, <1>8, <2>3, FilesGroups
  <2>6. Kept(table', U)
    <3>1. \A s \in Slots : s # target => table.jobs[s].pgid # g
      BY <1>2, <1>3, <1>6 DEF Distinct, g
    <3>2. \A s \in Slots : s # target => U.jobs[s] = table.jobs[s]
      BY <2>3, <3>1 DEF Files
    <3> HIDE DEF U
    <3>3. \A s \in Slots : table'.jobs[s] = IF s = target THEN FreeSlot ELSE table.jobs[s]
      BY <1>2, <2>2, RemoveKeeps
    <3> QED BY <3>2, <3>3 DEF Kept
  <2> HIDE DEF U
  <2>7. Entries(table', proc', shown) /\ Distinct(table')
    BY <2>4, <2>5, <2>6, KeptTrue
  <2>8. AnswerTrue(reply', proc')
    BY <1>7, <1>10, <2>2 DEF AnswerTrue, CodeOf
  <2>9. Truth(proc', table', ring', reply', shown')
    BY <1>1, <1>7, <2>7, <2>8 DEF Truth
  <2> QED BY <1>1, <2>9, Elsewhere, TruthHolds
<1>11. CASE ~Zombie(g)
  <2>1. WordOf(g) = StoppedWord
    BY <1>4, <1>5, <1>11 DEF Ready, WordOf
  <2>2. table' = [table EXCEPT !.jobs[target].status = "stopped"]
        /\ reply' = [pid |-> g, code |-> 148]
    BY <1>9, <2>1 DEF StoppedWord, Answer
  <2>3. table' = job_record_exit(table, target, WordOf(g))
    <3>1. Decoded(table.jobs[target], WordOf(g)) = [table.jobs[target] EXCEPT !.status = "stopped"]
      BY <2>1 DEF Decoded, StoppedWord
    <3> QED BY <2>2, <3>1 DEF job_record_exit
  <2>4. Files(table, table', g, WordOf(g))
    BY <1>2, <1>3, <1>6, <2>3, RecordFiles DEF g
  <2>5. Entries(table', proc', shown) /\ Distinct(table')
    BY <1>2, <1>6, <1>7, <1>8, <2>4, FilesGroups
  <2>6. AnswerTrue(reply', proc')
    BY <2>2 DEF AnswerTrue
  <2>7. Truth(proc', table', ring', reply', shown')
    BY <1>1, <1>7, <2>5, <2>6 DEF Truth
  <2> QED BY <1>1, <2>7, Elsewhere, TruthHolds
<1> QED BY <1>10, <1>11

-----------------------------------------------------------------------------
(* What a step does to one process.                                        *)

(* A signal changes neither the group nor the word of a process.           *)
LEMMA SignalledWord ==
  ASSUME NEW r \in Process, NEW sig
  PROVE  Signalled(r, sig).raw = r.raw /\ Signalled(r, sig).pgid = r.pgid
BY DEF Signalled, Process

(* A process stays in its type under a signal.                             *)
LEMMA SignalledType ==
  ASSUME NEW r \in Process, NEW sig \in SignalNames
  PROVE  Signalled(r, sig) \in Process
BY DEF Signalled, Process, ProcessStates, SignalNames

(* waitpid() has returned the process.                                     *)
Collected(r) == [r EXCEPT !.st = IF r.st = "zombie" THEN "reaped" ELSE r.st,
                          !.event = "none"]

(* It is left alone, collected, born, dies, or is sent one signal or two.  *)
Turn(r, q) ==
  \/ q = r
  \/ q = Collected(r)
  \/ \E g : q = Forked(g)
  \/ \E w \in FinalWords : q = Dead(r, w)
  \/ \E sig \in SignalNames : q = Signalled(r, sig)
  \/ \E sig, more \in SignalNames : q = Signalled(Signalled(r, sig), more)

(* No step does anything else.                                             *)
LEMMA ProcessTurns == ASSUME IInv, [Next]_vars PROVE \A p \in Pids : Turn(proc[p], proc'[p])
<1>1. proc \in [Pids -> Process] /\ \A p \in Pids : Grouped(proc[p])
  BY Typings DEF IInv, KernelOK
<1> DEFINE Turns == \A p \in Pids : Turn(proc[p], proc'[p])
<1>2. CASE UNCHANGED proc
  BY <1>2 DEF Turn
<1>3. CASE \E p \in Pids : Collect(p)
  <2>1. PICK p \in Pids : Collect(p)
    BY <1>3
  <2>2. proc' = [proc EXCEPT ![p] = Collected(proc[p])]
    BY <1>1, <2>1 DEF Collect, Zombie, Collected, Process
  <2> QED BY <1>1, <2>2 DEF Turn
<1>4. ASSUME NEW G, NEW sigs, sigs \in Seq(SignalNames), Len(sigs) \in {1, 2},
             proc' = KillGroups(G, sigs)
      PROVE  Turns
  <2> SUFFICES ASSUME NEW p \in Pids PROVE Turn(proc[p], proc'[p])
    OBVIOUS
  <2>1. Len(sigs) = 1 => sigs[1] \in SignalNames
    BY <1>4
  <2>2. Len(sigs) # 1 => sigs[1] \in SignalNames /\ sigs[2] \in SignalNames
    BY <1>4
  <2> QED BY <1>4, <2>1, <2>2 DEF KillGroups, Turn
<1>5. ASSUME NEW p \in Pids, NEW r, Turn(proc[p], r), proc' = [proc EXCEPT ![p] = r]
      PROVE  Turns
  BY <1>1, <1>5 DEF Turn
<1>6. \A p, g : Turn(proc[p], Forked(g))
  BY DEF Turn
<1>7. CASE Kernel
  <2>1. PICK p \in Pids : Exit(p) \/ Deliver(p) \/ Stop(p) \/ Continue(p)
    BY <1>7 DEF Kernel
  <2>2. \A w \in FinalWords : Turn(proc[p], Dead(proc[p], w))
    BY DEF Turn
  <2>3. \A sig \in SignalNames : Turn(proc[p], Signalled(proc[p], sig))
    BY DEF Turn
  <2>4. \E r : Turn(proc[p], r) /\ proc' = [proc EXCEPT ![p] = r]
    <3>1. CASE Exit(p)
      BY <3>1, <2>2 DEF Exit, FinalWords
    <3>2. CASE Deliver(p)
      <4>1. proc[p].pend \in {"HUP", "TERM", "KILL"}
        BY <1>1, <3>2 DEF Deliver, Process
      <4>2. Signaled(SignalNumber[proc[p].pend]) \in FinalWords
        BY <4>1 DEF SignalNumber, FinalWords
      <4> QED BY <3>2, <4>2, <2>2 DEF Deliver
    <3>3. CASE Stop(p)
      BY <3>3, <2>3 DEF Stop, SignalNames
    <3>4. CASE Continue(p)
      BY <3>4, <2>3 DEF Continue, SignalNames
    <3> QED BY <2>1, <3>1, <3>2, <3>3, <3>4
  <2> QED BY <1>5, <2>4
<1>8. CASE Internal
  <2>1. CASE ForkStage
    <3>1. Least(Fresh) \in Pids
      BY <2>1, LeastFresh DEF ForkStage
    <3>2. proc' = [proc EXCEPT ![Least(Fresh)] = Forked(StageGroup(Least(Fresh)))]
      BY <2>1 DEF ForkStage
    <3> QED BY <1>5, <1>6, <3>1, <3>2
  <2>2. CASE PollSlot
    <3>1. \A g, a, b : Ready(Group(g), a, b) \subseteq Pids
      BY DEF Ready, Group, Children
    <3> QED BY <1>2, <1>3, <2>2, <3>1 DEF PollSlot
  <2>3. CASE exe_res_set_status
    <3>1. Head(stages) \in Pids /\ Collect(Head(stages))
      BY <2>3 DEF exe_res_set_status, IInv, ShellOK
    <3> QED BY <1>3, <3>1
  <2>4. CASE fg_wait_result
    <3>1. \A g, a, b : Ready(Group(g), a, b) \subseteq Pids
      BY DEF Ready, Group, Children
    <3> QED BY <1>2, <1>3, <2>4, <3>1 DEF fg_wait_result
  <2>5. CASE reap_background_children \/ ExpandInParent \/ wait_n
    BY <1>2, <1>3, <2>5 DEF reap_background_children, ExpandInParent, wait_n, Children
  <2>6. CASE wait_drain
    BY <1>2, <1>3, <2>6 DEF wait_drain, WaitAllEnd, Sweep, Children
  <2>7. CASE wait_in_order
    BY <1>2, <1>3, <2>7 DEF wait_in_order, Sweep, Children
  <2>8. CASE wait_one
    BY <1>3, <2>8 DEF wait_one, IInv, PlaceOK
  <2>9. CASE hangup_every_job
    <3>1. /\ <<"HUP", "CONT">> \in Seq(SignalNames) /\ Len(<<"HUP", "CONT">>) \in {1, 2}
      BY SignalLists DEF SignalNames
    <3>2. UNCHANGED proc \/ proc' = KillGroups(GroupsOf(Unfinished(table)), <<"HUP", "CONT">>)
      BY <2>9 DEF hangup_every_job
    <3> QED BY <1>2, <1>4, <3>1, <3>2
  <2>10. CASE Prompt \/ job_notify \/ RangeStart \/ job_notify_async \/ RangeEnd
              \/ BackgroundAdded \/ PipelineDone \/ reaped_job_status \/ ListJobs
              \/ exit_stopped_guard \/ AwaitHangup
    BY <1>2, <2>10 DEF Prompt, job_notify, RangeStart, job_notify_async, RangeEnd,
       BackgroundAdded, PipelineDone, reaped_job_status, ListJobs, exit_stopped_guard,
       AwaitHangup
  <2> QED BY <1>8, <2>1, <2>2, <2>3, <2>4, <2>5, <2>6, <2>7, <2>8, <2>9, <2>10 DEF Internal
<1>9. CASE User
  <2>1. CASE execute_range_background
    <3>1. Least(Fresh) \in Pids
      BY <2>1, LeastFresh DEF execute_range_background
    <3>2. proc' = [proc EXCEPT ![Least(Fresh)] = Forked(Least(Fresh))]
      BY <2>1 DEF execute_range_background
    <3> QED BY <1>5, <1>6, <3>1, <3>2
  <2>2. CASE builtin_fg \/ builtin_bg
    <3>1. <<"CONT">> \in Seq(SignalNames) /\ Len(<<"CONT">>) \in {1, 2}
      BY SignalLists DEF SignalNames
    <3>2. \E G : proc' = KillGroups(G, <<"CONT">>)
      BY <2>2 DEF builtin_fg, builtin_bg
    <3> QED BY <1>4, <3>1, <3>2
  <2>3. CASE job_kill_group
    <3>1. PICK s \in Occupied(table), sig \in Kills :
            proc' = KillGroups({table.jobs[s].pgid},
                               IF table.jobs[s].status = "stopped" /\ sig # "STOP"
                               THEN <<sig, "CONT">> ELSE <<sig>>)
      BY <2>3 DEF job_kill_group
    <3> DEFINE sigs == IF table.jobs[s].status = "stopped" /\ sig # "STOP"
                       THEN <<sig, "CONT">> ELSE <<sig>>
    <3>2. sig \in SignalNames /\ "CONT" \in SignalNames
      BY JobControlAssumption DEF SignalNames
    <3>3. sigs \in Seq(SignalNames) /\ Len(sigs) \in {1, 2}
      BY <3>2, SignalLists
    <3>4. proc' = KillGroups({table.jobs[s].pgid}, sigs)
      BY <3>1
    <3> HIDE DEF sigs
    <3> QED BY <1>4, <3>3, <3>4
  <2>4. CASE ReadLine \/ handle_eof \/ execute_pipeline \/ builtin_wait
             \/ builtin_jobs \/ builtin_exit
    BY <1>2, <2>4 DEF ReadLine, handle_eof, execute_pipeline, builtin_wait,
       builtin_jobs, builtin_exit
  <2> QED BY <1>9, <2>1, <2>2, <2>3, <2>4 DEF User, Command
<1> QED BY <1>2, <1>7, <1>8, <1>9 DEF Next, vars

-----------------------------------------------------------------------------
(* The theorems.                                                           *)

(* Every step keeps the invariant.                                         *)
LEMMA NextTrue == ASSUME IInv, TInv, Plain, [Next]_vars PROVE TInv'
<1>1. CASE UNCHANGED vars
  BY <1>1, StutterTrue
<1>2. CASE Kernel
  BY <1>2, KernelTrue
<1>3. CASE Internal
  BY <1>3, PollTrue, PlainTrue, NotifyTrue, ReapChildTrue, AsyncTrue, AddedTrue,
     StageTrue, ExpandTrue, StageWaitTrue, WaitOneTrue, ReapedTrue, WaitNextTrue,
     WaitDrainTrue, WaitOrderTrue, ListTrue, FgWaitTrue, SignalTrue
     DEF Internal
<1>4. CASE User
  BY <1>4, PlainTrue, BackgroundTrue, PipelineTrue, ContinueTrue, SignalTrue
     DEF User, Command
<1> QED BY <1>1, <1>2, <1>3, <1>4 DEF Next

(* What the runs check follows.                                            *)
LEMMA TruthMeans ==
  ASSUME IInv, TInv
  PROVE  StatusTold /\ EntriesTrue
<1>1. /\ Entries(table, proc, shown) /\ ShownTrue(shown, proc)
      /\ AnswerTrue(reply, proc)
  BY DEF TInv, Truth
<1>2. ReplyTruthful
  BY <1>1 DEF AnswerTrue, ReplyTruthful
<1>3. ShownOnce
  BY <1>1 DEF ShownTrue, ShownOnce
<1>6. EndsTruthful
  BY <1>1 DEF EndsTruthful, Finished, Occupied, Entries, EntryTrue, JobTrue
<1>4. TableTracks
  BY <1>1 DEF Entries, EntryTrue, JobTrue, TableTracks, Occupied
<1>5. NoGhost
  <2> SUFFICES ASSUME NEW s \in Unfinished(table)
               PROVE  Group(table.jobs[s].pgid) # {}
    BY DEF NoGhost
  <2>1. s \in Occupied(table)
    BY DEF Unfinished
  <2> QED BY <2>1, GroupIsLeader
<1>7. RingTruthful
  BY DEF TInv, Truth, RingTrue, RingTruthful
<1> QED BY <1>2, <1>3, <1>4, <1>5, <1>6, <1>7 DEF StatusTold, EntriesTrue

(* The inductive invariant holds in every behaviour.                       *)
THEOREM Truthful == ASSUME Plain PROVE Spec => [](IInv /\ TInv)
<1>1. Init => IInv /\ TInv
  BY InitHolds, InitTrue
<1>2. IInv /\ TInv /\ [Next]_vars => (IInv /\ TInv)'
  BY NextStep, NextTrue
<1> QED BY <1>1, <1>2, PTL DEF Spec

(* What is told of the end of a process is true: wait and fg answer with   *)
(* the status it died with, whoever collected it, the entries from which   *)
(* lines are printed hold that status, and a line is printed at most once, *)
(* after the end (res_status, job_reap_record, job_notify).                *)
THEOREM StatusIsTold == ASSUME Plain PROVE Spec => []StatusTold
<1>1. Spec => [](IInv /\ TInv)
  BY Truthful
<1>2. IInv /\ TInv => StatusTold
  BY TruthMeans
<1> QED BY <1>1, <1>2, PTL

(* An entry of the table is what the kernel last said of a process that is *)
(* still there: no ghosts, no stale status without an event to collect;    *)
(* and the ring has no status but that of the process it names             *)
(* (job_record_exit, bg_done_record).                                      *)
THEOREM EntriesAreTrue == ASSUME Plain PROVE Spec => []EntriesTrue
<1>1. Spec => [](IInv /\ TInv)
  BY Truthful
<1>2. IInv /\ TInv => EntriesTrue
  BY TruthMeans
<1> QED BY <1>1, <1>2, PTL

-----------------------------------------------------------------------------
(***************************************************************************)
(* What a session of any size owes its user beyond true answers: no exit   *)
(* status is lost (NothingIsLost), while some job is alive one of them is  *)
(* current (CurrentIsElected), and leaving over stopped jobs asks first    *)
(* (ExitIsHonest).  One invariant each, on top of IInv and TInv.           *)
(***************************************************************************)

-----------------------------------------------------------------------------
(***************************************************************************)
(* No exit status is lost: wait answers "unknown" only for a process whose *)
(* status was handed out before, for any number of processes, slots and    *)
(* exit polls.  Beyond what Plain leaves out, the ring must have           *)
(* room: a status is pushed at most twice, when the process is collected   *)
(* and when `jobs` prints its end, so 2 * NPids entries never wrap.  With  *)
(* fewer a status is overwritten, which the code accepts (BG_DONE_MAX).    *)
(***************************************************************************)

Roomy == RingSize >= 2 * NPids

-----------------------------------------------------------------------------
(* The inductive invariant.                                                *)

(* The processes wait can be asked about.                                  *)
Known == launched \cup GroupsOf(Occupied(table))

Reaped == {p \in Pids : proc[p].st = "reaped"}
Shown == {p \in Pids : shown[p] # 0}
Spent == Cardinality(Reaped) + Cardinality(Shown)

(* Every push is paid for by a process that is collected or printed: the   *)
(* ring has not wrapped, or there is nothing left to push.                 *)
Room ==
  \/ /\ ring.next <= Spent
     /\ \A i \in RingSlots : i >= ring.next => ring.slot[i].pid = 0
  \/ Spent = 2 * NPids

(* A process somebody can ask about, and has not been told of, is in the   *)
(* ring once it is collected.                                              *)
Recalled ==
  \A p \in Known \ (told \cup swept) : proc[p].st = "reaped" => Remembered(p) # {}

Born == \A p \in launched : proc[p].st # "none"

(* Where the shell is, it asks about a known process, and the stage it     *)
(* waits for is nobody's background process.                               *)
Asked ==
  /\ pc = "waitOne" => target \in Known
  /\ pc = "fgwait" => \A p \in Pids : stages = <<p>> => p \notin launched

KInv == Recalled /\ Room /\ Born /\ Asked /\ NothingLost

-----------------------------------------------------------------------------
(* What a step does to the memory of the shell.                            *)

(* Nothing is taken back, and who becomes known is alive.                  *)
Onward ==
  /\ told \subseteq told' /\ swept \subseteq swept'
  /\ \A p \in Pids : /\ proc[p].st = "reaped" => proc'[p].st = "reaped"
                     /\ proc[p].st # "none" => proc'[p].st # "none"
                     /\ shown[p] # 0 => shown'[p] # 0
  /\ \A p \in launched' : p \in launched \/ proc'[p].st = "run"
  /\ \A s \in Slots : LET g == table'.jobs[s].pgid
                      IN  \/ g \in {0, table.jobs[s].pgid}
                          \/ g \in Pids /\ proc'[g].st # "reaped"

(* Nobody is collected, but perhaps p.                                     *)
NobodyBut(p) ==
  \A q \in Pids : q # p => (proc'[q].st = "reaped" => proc[q].st = "reaped")
Nobody == \A q \in Pids : proc'[q].st = "reaped" => proc[q].st = "reaped"

(* Whoever is collected is told of at once, or nobody can ask about it.    *)
Silent(p) == p \in told' \cup swept' \/ (p \notin launched /\ NotListed(p, table))

Fresher(p) ==
  \/ proc[p].st # "reaped" /\ proc'[p].st = "reaped"
  \/ shown[p] = 0 /\ shown'[p] # 0

RingMoves ==
  \/ ring' = ring /\ Nobody
  \/ \E p \in Pids : ring' = ring /\ NobodyBut(p) /\ Silent(p)
  \/ \E p \in Pids : \E w \in StatusWord :
       ring' = Pushed(p, w) /\ NobodyBut(p) /\ Fresher(p)
  \/ \E p \in Pids : \E w \in StatusWord :
       /\ ring' = Taken(Pushed(p, w), p) /\ NobodyBut(p) /\ Fresher(p)
       /\ p \in told' \cup swept'
  \/ \E p \in Pids :
       /\ ring' = Taken(ring, p) /\ Nobody
       /\ p \in told' \cup swept' \/ Remembered(p) = {}

-----------------------------------------------------------------------------
(* Counting.                                                               *)

(* Pids is finite and has NPids members; a subset has at most as many.     *)
LEMMA Counts ==
  /\ IsFiniteSet(Pids) /\ Cardinality(Pids) = NPids
  /\ \A S \in SUBSET Pids : /\ IsFiniteSet(S) /\ Cardinality(S) \in Nat
                            /\ Cardinality(S) <= NPids
                            /\ S # Pids => Cardinality(S) < NPids
<1>1. IsFiniteSet(Pids) /\ Cardinality(Pids) = NPids
  BY JobControlAssumption, FS_Interval DEF Pids
<1>2. ASSUME NEW S \in SUBSET Pids
      PROVE  /\ IsFiniteSet(S) /\ Cardinality(S) \in Nat /\ Cardinality(S) <= NPids
             /\ S # Pids => Cardinality(S) < NPids
  BY <1>1, FS_Subset, FS_CardinalityType
<1> QED BY <1>1, <1>2

(* More is collected and printed, never less; and strictly more when       *)
(* somebody is freshly collected or printed.                               *)
LEMMA Spending ==
  ASSUME Onward
  PROVE  /\ Spent \in Nat /\ Spent' \in Nat /\ Spent <= Spent' /\ Spent' <= 2 * NPids
         /\ \A p \in Pids : Fresher(p) => Spent < Spent'
<1>1. /\ Reaped \in SUBSET Pids /\ Reaped' \in SUBSET Pids /\ Reaped \subseteq Reaped'
      /\ Shown \in SUBSET Pids /\ Shown' \in SUBSET Pids /\ Shown \subseteq Shown'
  BY DEF Onward, Reaped, Shown
<1>2. /\ IsFiniteSet(Reaped') /\ IsFiniteSet(Shown')
      /\ Cardinality(Reaped) \in Nat /\ Cardinality(Reaped') \in Nat
      /\ Cardinality(Shown) \in Nat /\ Cardinality(Shown') \in Nat
      /\ Cardinality(Reaped') <= NPids /\ Cardinality(Shown') <= NPids
  BY <1>1, Counts
<1>3. /\ Cardinality(Reaped) <= Cardinality(Reaped')
      /\ Reaped # Reaped' => Cardinality(Reaped) < Cardinality(Reaped')
  BY <1>1, <1>2, FS_Subset
<1>4. /\ Cardinality(Shown) <= Cardinality(Shown')
      /\ Shown # Shown' => Cardinality(Shown) < Cardinality(Shown')
  BY <1>1, <1>2, FS_Subset
<1>5. ASSUME NEW p \in Pids, Fresher(p)
      PROVE  Reaped # Reaped' \/ Shown # Shown'
  BY <1>5 DEF Fresher, Reaped, Shown
<1>6. Spent = Cardinality(Reaped) + Cardinality(Shown)
      /\ Spent' = Cardinality(Reaped') + Cardinality(Shown')
  BY DEF Spent
<1> QED BY <1>2, <1>3, <1>4, <1>5, <1>6, JobControlAssumption

-----------------------------------------------------------------------------
(* The ring.                                                               *)

(* Taking p forgets p alone.                                               *)
LEMMA TakenForgets ==
  ASSUME NEW R, Remembers(R), NEW p
  PROVE  /\ Taken(R, p).next = R.next
         /\ \A i \in RingSlots : /\ Taken(R, p).slot[i].pid \in {0, R.slot[i].pid}
                                 /\ R.slot[i].pid # p =>
                                      Taken(R, p).slot[i].pid = R.slot[i].pid
         /\ {i \in RingSlots : R.slot[i].pid = p} = {} => Taken(R, p) = R
<1> DEFINE hits == {i \in RingSlots : R.slot[i].pid = p}
<1>1. CASE hits = {}
  BY <1>1 DEF Taken
<1>2. CASE hits # {}
  <2>1. Taken(R, p) = [R EXCEPT !.slot[Least(hits)].pid = 0]
    BY <1>2 DEF Taken
  <2> DEFINE h == Least(hits)
  <2>2. h \in RingSlots /\ R.slot[h].pid = p
    <3>1. hits \subseteq Nat
      BY DEF RingSlots
    <3>2. h \in hits
      <4> HIDE DEF hits
      <4> QED BY <1>2, <3>1, LeastIsLeast
    <3> QED BY <3>2
  <2>n. hits # {}
    BY <1>2
  <2> HIDE DEF hits, h
  <2>3. Taken(R, p).slot = [R.slot EXCEPT ![h] = [R.slot[h] EXCEPT !.pid = 0]]
        /\ Taken(R, p).next = R.next
    BY <2>1 DEF h, Remembers
  <2>4. Taken(R, p).slot[h].pid = 0 /\ \A i \in RingSlots : i # h =>
                                         Taken(R, p).slot[i] = R.slot[i]
    BY <2>2, <2>3 DEF Remembers
  <2> QED BY <2>2, <2>3, <2>4, <2>n DEF hits
<1> QED BY <1>1, <1>2

(* A push writes the next entry alone.                                     *)
LEMMA PushedWrites ==
  ASSUME Remembers(ring), NEW p, NEW w
  PROVE  /\ Pushed(p, w).slot[ring.next].pid = p
         /\ \A i \in RingSlots : i # ring.next => Pushed(p, w).slot[i] = ring.slot[i]
         /\ Pushed(p, w).next = (ring.next + 1) % RingSize
BY DEF Pushed, Remembers

(* A push that is paid for finds an empty entry, and leaves room.          *)
LEMMA PushRoom ==
  ASSUME Remembers(ring), Room, Roomy, Onward, NEW p \in Pids, Fresher(p), NEW w,
         NEW R, R = Pushed(p, w)
  PROVE  /\ ring.slot[ring.next].pid = 0
         /\ \/ /\ R.next <= Spent'
               /\ \A i \in RingSlots : i >= R.next => R.slot[i].pid = 0
            \/ Spent' = 2 * NPids
<1>1. /\ RingSize \in Nat \ {0} /\ NPids \in Nat /\ RingSize >= 2 * NPids
      /\ ring.next \in 0 .. RingSize - 1
  BY JobControlAssumption DEF Roomy, Remembers, RingSlots
<1>2. /\ Spent \in Nat /\ Spent' \in Nat /\ Spent < Spent' /\ Spent' <= 2 * NPids
  BY Spending
<1>3. /\ ring.next <= Spent
      /\ \A i \in RingSlots : i >= ring.next => ring.slot[i].pid = 0
  BY <1>1, <1>2 DEF Room
<1>4. /\ \A i \in RingSlots : i # ring.next => R.slot[i] = ring.slot[i]
      /\ R.next = (ring.next + 1) % RingSize
  BY PushedWrites
<1>5. CASE ring.next + 1 < RingSize
  <2>1. R.next = ring.next + 1
    BY <1>1, <1>4, <1>5
  <2>2. \A i \in RingSlots : i >= R.next => R.slot[i].pid = 0
    BY <1>1, <1>3, <1>4, <2>1 DEF RingSlots
  <2> QED BY <1>1, <1>2, <1>3, <2>1, <2>2 DEF RingSlots
<1>6. CASE ring.next + 1 = RingSize
  BY <1>1, <1>2, <1>3, <1>6 DEF RingSlots
<1> QED BY <1>1, <1>5, <1>6

(* p stays remembered, and becomes so when it is collected.                *)
Keeps(p) ==
  /\ Remembered(p) # {} => Remembered(p)' # {}
  /\ proc[p].st # "reaped" /\ proc'[p].st = "reaped" /\ ~Silent(p) => Remembered(p)' # {}

(* The room and the memory survive every such step.                        *)
LEMMA Remembering ==
  ASSUME IInv, KInv, Roomy, Onward, RingMoves
  PROVE  Room' /\ \A p \in Pids \ (told' \cup swept') : Keeps(p)
<1>1. Remembers(ring) /\ Room
  BY DEF IInv, KInv
<1>2. /\ Spent \in Nat /\ Spent' \in Nat /\ Spent <= Spent' /\ Spent' <= 2 * NPids
      /\ ring.next \in Nat /\ ring.next \in RingSlots /\ NPids \in Nat
  BY Spending, <1>1, JobControlAssumption DEF Remembers, RingSlots
<1>3. CASE ring' = ring /\ Nobody
  <2>1. Room'
    BY <1>1, <1>2, <1>3 DEF Room
  <2> QED BY <1>3, <2>1 DEF Keeps, Remembered, Nobody
<1>4. ASSUME NEW q \in Pids, ring' = ring, NobodyBut(q), Silent(q)
      PROVE  Room' /\ \A p \in Pids \ (told' \cup swept') : Keeps(p)
  <2>1. Room'
    BY <1>1, <1>2, <1>4 DEF Room
  <2> QED BY <1>4, <2>1 DEF Keeps, Remembered, NobodyBut
<1>5. ASSUME NEW q \in Pids, NEW w \in StatusWord, NobodyBut(q), Fresher(q),
             NEW P, P = Pushed(q, w)
      PROVE  /\ ring' = P => Room' /\ \A p \in Pids \ (told' \cup swept') : Keeps(p)
             /\ ring' = Taken(P, q) /\ q \in told' \cup swept' =>
                  Room' /\ \A p \in Pids \ (told' \cup swept') : Keeps(p)
  <2>1. /\ ring.slot[ring.next].pid = 0
        /\ \/ /\ P.next <= Spent'
              /\ \A i \in RingSlots : i >= P.next => P.slot[i].pid = 0
           \/ Spent' = 2 * NPids
    BY <1>1, <1>5, PushRoom
  <2>2. /\ P.slot[ring.next].pid = q
        /\ \A i \in RingSlots : i # ring.next => P.slot[i] = ring.slot[i]
    BY <1>1, <1>5, PushedWrites
  <2>3. Remembers(P)
    BY <1>1, <1>5, PushedOK, PidsAreNumbers
  <2>4. \A p \in Pids : p # 0 /\ \A i \in RingSlots : ring.slot[i].pid = p => P.slot[i].pid = p
    BY <2>1, <2>2 DEF Pids
  <2>5. ASSUME ring' = P
        PROVE  Room' /\ \A p \in Pids \ (told' \cup swept') : Keeps(p)
    <3>1. Room'
      BY <2>1, <2>5 DEF Room
    <3>2. ASSUME NEW p \in Pids
          PROVE  Keeps(p)
      <4>1. Remembered(p) # {} => Remembered(p)' # {}
        BY <2>4, <2>5 DEF Remembered
      <4>2. Remembered(q)' # {}
        BY <1>2, <2>2, <2>5 DEF Remembered
      <4> QED BY <1>5, <4>1, <4>2 DEF Keeps, NobodyBut
    <3> QED BY <3>1, <3>2
  <2>6. ASSUME ring' = Taken(P, q), q \in told' \cup swept'
        PROVE  Room' /\ \A p \in Pids \ (told' \cup swept') : Keeps(p)
    <3>1. /\ ring'.next = P.next
          /\ \A i \in RingSlots : /\ ring'.slot[i].pid \in {0, P.slot[i].pid}
                                  /\ P.slot[i].pid # q => ring'.slot[i].pid = P.slot[i].pid
      BY <2>3, <2>6, TakenForgets
    <3>2. Room'
      BY <2>1, <3>1 DEF Room
    <3>3. ASSUME NEW p \in Pids \ (told' \cup swept')
          PROVE  Keeps(p)
      <4>1. p # q
        BY <2>6, <3>3
      <4>2. \A i \in RingSlots : ring.slot[i].pid = p => ring'.slot[i].pid = p
        BY <2>4, <3>1, <4>1
      <4> QED BY <1>5, <4>1, <4>2 DEF Keeps, NobodyBut, Remembered
    <3> QED BY <3>2, <3>3
  <2> QED BY <2>5, <2>6
<1>6. ASSUME NEW q \in Pids, ring' = Taken(ring, q), Nobody,
             q \in told' \cup swept' \/ Remembered(q) = {}
      PROVE  Room' /\ \A p \in Pids \ (told' \cup swept') : Keeps(p)
  <2>1. /\ ring'.next = ring.next
        /\ \A i \in RingSlots : /\ ring'.slot[i].pid \in {0, ring.slot[i].pid}
                                /\ ring.slot[i].pid # q => ring'.slot[i].pid = ring.slot[i].pid
        /\ Remembered(q) = {} => ring' = ring
    BY <1>1, <1>6, TakenForgets DEF Remembered
  <2>2. Room'
    BY <1>1, <1>2, <2>1 DEF Room
  <2>3. ASSUME NEW p \in Pids \ (told' \cup swept')
        PROVE  Keeps(p)
    <3>1. \A i \in RingSlots : ring.slot[i].pid = p => ring'.slot[i].pid = p
      BY <1>6, <2>1, <2>3
    <3> QED BY <1>6, <3>1 DEF Keeps, Nobody, Remembered
  <2> QED BY <2>2, <2>3
<1> QED BY <1>3, <1>4, <1>5, <1>6 DEF RingMoves

(* An answer is not "unknown" to one who was not told.                     *)
AnswerKept ==
  \/ reply' = reply
  \/ reply'.pid \notin Pids \/ reply'.code # 127 \/ reply'.pid \in told' \cup swept'

Minds == Onward /\ RingMoves /\ AnswerKept /\ Asked'

(* A step that forgets nobody and asks about a known process keeps KInv.   *)
LEMMA MindsKeep ==
  ASSUME IInv, TInv, KInv, Roomy, Minds
  PROVE  KInv'
<1>1. /\ Onward /\ Room' /\ \A p \in Pids \ (told' \cup swept') : Keeps(p)
  BY Remembering DEF Minds
<1>2. launched \subseteq Pids /\ told \subseteq told' /\ swept \subseteq swept'
  BY <1>1 DEF IInv, HistoryOK, Onward
<1>3. Recalled'
  <2> SUFFICES ASSUME NEW p \in Known', p \notin told' \cup swept', proc'[p].st = "reaped"
               PROVE  Remembered(p)' # {}
    BY DEF Recalled
  <2>1. p \in Known
    <3>1. CASE p \in launched'
      BY <1>1, <3>1 DEF Onward, Known
    <3>2. CASE p \in GroupsOf(Occupied(table))'
      <4>1. PICK s \in Slots : table'.jobs[s].pgid = p /\ p # 0
        BY <3>2 DEF GroupsOf, Occupied
      <4>2. p = table.jobs[s].pgid
        BY <1>1, <4>1 DEF Onward
      <4> QED BY <4>1, <4>2 DEF Known, GroupsOf, Occupied
    <3> QED BY <3>1, <3>2 DEF Known
  <2>2. p \in Pids
    BY <1>2, <2>1, GroupIsLeader DEF Known, GroupsOf
  <2>3. Keeps(p) /\ p \notin told \cup swept
    BY <1>1, <1>2, <2>2
  <2>4. ~Silent(p)
    <3>1. p \in launched \/ ~NotListed(p, table)
      BY <2>1 DEF Known, GroupsOf, NotListed, Occupied
    <3> QED BY <3>1 DEF Silent
  <2>5. proc[p].st = "reaped" => Remembered(p) # {}
    BY <2>1, <2>3 DEF KInv, Recalled
  <2> QED BY <2>3, <2>4, <2>5 DEF Keeps
<1>4. Born'
  BY <1>1, <1>2 DEF Onward, KInv, Born
<1>5. NothingLost'
  BY <1>2 DEF Minds, AnswerKept, KInv, NothingLost
<1> QED BY <1>1, <1>3, <1>4, <1>5 DEF KInv, Minds

-----------------------------------------------------------------------------
(* The steps.                                                              *)

(* At the start nobody is known and nothing is asked.                      *)
LEMMA InitKnown == Init => KInv
<1> SUFFICES ASSUME Init PROVE KInv
  OBVIOUS
<1>1. \A p : p \notin Known
  BY DEF Init, Known, GroupsOf, Occupied, job_table_init, FreeSlot
<1>2. Room
  <2>1. Reaped = {} /\ Shown = {}
    BY DEF Init, Reaped, Shown, Unborn
  <2>2. Spent = 0
    BY <2>1, FS_EmptySet DEF Spent
  <2> QED BY <2>2 DEF Init, EmptyRing, Room
<1>3. NothingLost
  BY JobControlAssumption DEF Init, NoReply, NothingLost, Pids
<1> QED BY <1>1, <1>2, <1>3 DEF KInv, Recalled, Born, Asked, Init

(* A group that stays or leaves, or is nobody's who was collected.         *)
Shrinks(T, U) == \A s \in Slots : U.jobs[s].pgid \in {0, T.jobs[s].pgid}

(* Freeing slots or marking them reported brings no new group.             *)
LEMMA KeptShrinks ==
  ASSUME NEW T \in Table, NEW U, Kept(U, T)
  PROVE  Shrinks(T, U)
<1> SUFFICES ASSUME NEW s \in Slots PROVE U.jobs[s].pgid \in {0, T.jobs[s].pgid}
  BY DEF Shrinks
<1>1. T.jobs[s] \in Job
  BY DEF Table
<1>2. [T.jobs[s] EXCEPT !.notified = TRUE].pgid = T.jobs[s].pgid
  BY <1>1 DEF Job
<1>3. FreeSlot.pgid = 0
  BY DEF FreeSlot
<1>4. U.jobs[s] \in {FreeSlot, T.jobs[s], [T.jobs[s] EXCEPT !.notified = TRUE]}
  BY DEF Kept
<1> HIDE DEF FreeSlot
<1> QED BY <1>2, <1>3, <1>4

(* Filing a word brings no new group.                                      *)
LEMMA FilesShrinks ==
  ASSUME NEW T \in Table, NEW U, NEW p, NEW w \in StatusWord, Files(T, U, p, w)
  PROVE  Shrinks(T, U)
BY FilesGroups DEF Shrinks

(* Nobody is collected and nothing is pushed.                              *)
LEMMA Quiet ==
  ASSUME \A p \in Pids : /\ proc'[p].st = "reaped" <=> proc[p].st = "reaped"
                         /\ proc[p].st # "none" => proc'[p].st # "none"
                         /\ shown[p] # 0 => shown'[p] # 0,
         UNCHANGED <<ring, told, swept, launched>>, Shrinks(table, table')
  PROVE  Onward /\ RingMoves
<1>1. Onward
  BY DEF Onward, Shrinks
<1>2. Nobody
  BY DEF Nobody
<1> QED BY <1>1, <1>2 DEF RingMoves

(* A step that only moves processes collects nobody and pushes nothing.    *)
LEMMA MovedQuiet ==
  ASSUME IInv, \A p \in Pids : Moves(proc[p], proc'[p]), proc' \in [Pids -> Process],
         UNCHANGED <<ring, shown, told, swept, launched>>, Shrinks(table, table')
  PROVE  Onward /\ RingMoves
<1>1. \A p \in Pids : /\ proc'[p].st = "reaped" <=> proc[p].st = "reaped"
                      /\ proc[p].st # "none" => proc'[p].st # "none"
  <2> SUFFICES ASSUME NEW p \in Pids
               PROVE  /\ proc'[p].st = "reaped" <=> proc[p].st = "reaped"
                      /\ proc[p].st # "none" => proc'[p].st # "none"
    OBVIOUS
  <2>1. Moves(proc[p], proc'[p]) /\ proc[p] \in Process /\ proc'[p] \in Process
    BY Typings
  <2> QED BY <2>1 DEF Moves, Alive, Process, ProcessStates
<1> QED BY <1>1, Quiet

(* The same table has the same groups.                                     *)
LEMMA SameShrinks == ASSUME UNCHANGED table PROVE Shrinks(table, table')
BY DEF Shrinks

(* Nobody is asked about by a shell that is not at a wait.                 *)
LEMMA NotAsking == ASSUME pc' \notin {"waitOne", "fgwait"} PROVE Asked'
BY DEF Asked

(* A shell that stays where it is asks about the same process.             *)
LEMMA StillAsking ==
  ASSUME KInv, UNCHANGED <<pc, target, stages, launched, table>>
  PROVE  Asked'
<1>1. Known' = Known
  BY DEF Known, GroupsOf, Occupied
<1> QED BY <1>1 DEF KInv, Asked

(* waitpid returns p.                                                      *)
LEMMA Collecting ==
  ASSUME IInv, NEW p \in Pids, Collect(p)
  PROVE  /\ \A q \in Pids : /\ proc[q].st = "reaped" => proc'[q].st = "reaped"
                            /\ proc[q].st # "none" => proc'[q].st # "none"
         /\ NobodyBut(p)
         /\ Zombie(p) => proc[p].st # "reaped" /\ proc'[p].st = "reaped"
         /\ ~Zombie(p) => Nobody
<1>1. proc \in [Pids -> Process] /\ proc[p] \in Process
  BY Typings
<1>2. /\ \A q \in Pids : q # p => proc'[q] = proc[q]
      /\ proc'[p].st = IF proc[p].st = "zombie" THEN "reaped" ELSE proc[p].st
  BY <1>1 DEF Collect, Zombie, Process
<1> QED BY <1>2 DEF NobodyBut, Nobody, Zombie

(* A dead child is collected and pushed, and perhaps taken again.          *)
LEMMA Pushing ==
  ASSUME IInv, NEW p \in Pids, Collect(p), Zombie(p), UNCHANGED <<launched, shown>>,
         told \subseteq told', swept \subseteq swept', Shrinks(table, table'),
         \/ ring' = Pushed(p, proc[p].raw)
         \/ ring' = Taken(Pushed(p, proc[p].raw), p) /\ p \in told' \cup swept'
  PROVE  Onward /\ RingMoves
<1>1. Onward
  BY Collecting DEF Onward, Shrinks
<1>2. proc[p].raw \in StatusWord /\ NobodyBut(p) /\ Fresher(p)
  BY Collecting, Typings DEF Fresher
<1> QED BY <1>1, <1>2 DEF RingMoves

(* What is filed for a collected child leaves the groups as they are.      *)
LEMMA LearnsShrinks ==
  ASSUME IInv, TInv, NEW p \in Pids
  PROVE  /\ TableLearns(table, p, proc[p].raw) \in Table
         /\ Shrinks(table, TableLearns(table, p, proc[p].raw))
         /\ \A V : Kept(V, TableLearns(table, p, proc[p].raw)) => Shrinks(table, V)
<1> DEFINE U == TableLearns(table, p, proc[p].raw)
<1>1. table \in Table /\ proc[p].raw \in StatusWord /\ Distinct(table) /\ p # 0
  BY Typings DEF TInv, Truth, Pids
<1>2. Files(table, U, p, proc[p].raw)
  BY <1>1, LearnsFiles
<1>3. U \in Table
  BY <1>1, LearnsGood DEF IInv, Good, TableOK
<1> HIDE DEF U
<1>4. Shrinks(table, U)
  BY <1>1, <1>2, FilesShrinks
<1>5. ASSUME NEW V, Kept(V, U)
      PROVE  Shrinks(table, V)
  BY <1>3, <1>4, <1>5, KeptShrinks DEF Shrinks
<1> QED BY <1>3, <1>4, <1>5 DEF U

(* Two shrinkings make one.                                                *)
LEMMA ShrinksMore ==
  ASSUME NEW T, NEW U, NEW V, Shrinks(T, U), Shrinks(U, V)
  PROVE  Shrinks(T, V)
BY DEF Shrinks

(* The steps that only go from one label to another: wait asks about a     *)
(* process it knows.                                                       *)
LEMMA PlainMinds ==
  ASSUME KInv, Prompt \/ ReadLine \/ RangeStart \/ RangeEnd \/ execute_pipeline
               \/ PipelineDone \/ builtin_wait \/ builtin_jobs \/ builtin_exit
               \/ handle_eof \/ exit_stopped_guard \/ AwaitHangup
  PROVE  Minds
<1>1. UNCHANGED <<proc, table, ring, shown, told, swept, launched>>
  BY DEF Prompt, ReadLine, RangeStart, RangeEnd, execute_pipeline, PipelineDone,
         builtin_wait, builtin_jobs, builtin_exit, handle_eof, exit_stopped_guard,
         AwaitHangup
<1>2. Onward /\ RingMoves
  BY <1>1, SameShrinks, Quiet
<1>3. AnswerKept
  <2>1. CASE RangeEnd
    BY <2>1 DEF RangeEnd, NoReply, AnswerKept, Pids
  <2>2. CASE ~RangeEnd
    <3>1. reply' = reply
      BY <2>2 DEF Prompt, ReadLine, RangeStart, RangeEnd, execute_pipeline, PipelineDone,
         builtin_wait, builtin_jobs, builtin_exit, handle_eof, exit_stopped_guard,
         AwaitHangup
    <3> QED BY <3>1 DEF AnswerKept
  <2> QED BY <2>1, <2>2
<1>4. Asked'
  <2>1. CASE builtin_wait
    <3>1. pc' # "fgwait" /\ (pc' = "waitOne" => target' \in Known)
      BY <2>1 DEF builtin_wait, Known
    <3>2. Known' = Known
      BY <1>1 DEF Known, GroupsOf, Occupied
    <3> QED BY <3>1, <3>2 DEF Asked
  <2>2. CASE ~builtin_wait
    <3>1. pc' \notin {"waitOne", "fgwait"}
      BY <2>2 DEF Prompt, ReadLine, RangeStart, RangeEnd, execute_pipeline, PipelineDone,
         builtin_wait, builtin_jobs, builtin_exit, handle_eof, exit_stopped_guard,
         AwaitHangup, PollThen
    <3> QED BY <3>1, NotAsking
  <2> QED BY <2>1, <2>2
<1> QED BY <1>2, <1>3, <1>4 DEF Minds

(* Nothing happens, or the kernel moves a process.                         *)
LEMMA KernelMinds == ASSUME IInv, KInv, Kernel \/ UNCHANGED vars PROVE Minds
<1>1. UNCHANGED <<shell, launched, told, swept, shown>>
  BY KernelMoves DEF vars
<1>2. Onward /\ RingMoves
  <2>1. CASE Kernel
    BY <1>1, <2>1, KernelMoves, MovedQuiet, SameShrinks
  <2>2. CASE UNCHANGED vars
    BY <1>1, <2>2, Quiet, SameShrinks DEF vars
  <2> QED BY <2>1, <2>2
<1>3. Asked'
  BY <1>1, StillAsking
<1> QED BY <1>1, <1>2, <1>3 DEF Minds, AnswerKept

(* Signals, and fg and bg, which continue a job.                           *)
LEMMA SignalMinds ==
  ASSUME IInv, TInv, job_kill_group \/ hangup_every_job \/ builtin_fg \/ builtin_bg
  PROVE  Minds
<1>1. /\ UNCHANGED <<ring, shown, told, swept, launched, reply>>
      /\ pc' \notin {"waitOne", "fgwait"}
  BY DEF job_kill_group, hangup_every_job, builtin_fg, builtin_bg
<1>2. CASE job_kill_group \/ hangup_every_job
  <2>1. UNCHANGED table
    BY <1>2 DEF job_kill_group, hangup_every_job
  <2>2. Onward /\ RingMoves
    BY <1>1, <1>2, <2>1, SignalsMove, MovedQuiet, SameShrinks
  <2> QED BY <1>1, <2>2, NotAsking DEF Minds, AnswerKept
<1>3. CASE builtin_fg \/ builtin_bg
  <2>1. PICK s \in Occupied(table) :
          /\ table' = [table EXCEPT !.jobs[s].status = "running"]
          /\ proc' = KillGroups({table.jobs[s].pgid}, <<"CONT">>)
    BY <1>3 DEF builtin_fg, builtin_bg, WithStatus
  <2>2. Shrinks(table, table')
    <3>1. table \in Table
      BY Typings
    <3>2. \A t \in Slots : table'.jobs[t].pgid = table.jobs[t].pgid
      BY <2>1, <3>1 DEF Table, Job
    <3> QED BY <3>2 DEF Shrinks
  <2>3. Onward /\ RingMoves
    BY <1>1, <2>1, <2>2, ContinueMoves, MovedQuiet
  <2> QED BY <1>1, <2>3, NotAsking DEF Minds, AnswerKept
<1> QED BY <1>2, <1>3

(* One waitpid of a poll: the end of a job is pushed.                      *)
LEMMA PollMinds == ASSUME IInv, TInv, PollSlot PROVE Minds
<1> DEFINE g == table.jobs[cursor].pgid
           member == Ready(Group(g), TRUE, TRUE)
<1>1. cursor \in Slots /\ cursor \in Occupied(table)
  BY DEF PollSlot, TInv, InHand, IInv, PlaceOK, Unfinished
<1>2. g \in Pids /\ g # 0 /\ \A q \in Group(g) : q = g
  BY <1>1, GroupIsLeader
<1>3. UNCHANGED <<shown, told, swept, launched, reply>>
  BY DEF PollSlot
<1>4. Onward /\ RingMoves
  <2>1. CASE member = {}
    <3>1. UNCHANGED <<proc, table, ring>>
      BY <2>1 DEF PollSlot
    <3> QED BY <1>3, <3>1, Quiet, SameShrinks
  <2>2. CASE member # {}
    <3>1. PICK q \in member : Collect(q) /\ job_reap_record(cursor, WordOf(q))
      BY <2>2 DEF PollSlot
    <3>2. q = g
      BY <1>2 DEF Ready
    <3> HIDE DEF g, member
    <3>3. CASE Zombie(g)
      <4>1. WordOf(g) = proc[g].raw
        BY <3>3 DEF WordOf
      <4>2. WordOf(g).how \notin {"stop", "cont"}
        <5>1. LoneProcess(g, proc[g])
          BY <1>2 DEF TInv, Truth, Lone
        <5> QED BY <3>3, <4>1, <5>1 DEF LoneProcess, Zombie, FinalWords, Exited, Signaled
      <4>3. table' = TableLearns(table, g, proc[g].raw) /\ ring' = Pushed(g, proc[g].raw)
        BY <3>1, <3>2, <4>1, <4>2 DEF job_reap_record, bg_done_record, g
      <4>4. Shrinks(table, table')
        BY <1>2, <4>3, LearnsShrinks
      <4> QED BY <1>2, <1>3, <3>1, <3>2, <3>3, <4>3, <4>4, Pushing
    <3>4. CASE ~Zombie(g)
      <4>1. WordOf(g).how \in {"stop", "cont"}
        BY <3>4 DEF WordOf, StoppedWord, ContinuedWord
      <4>2. table' = job_record_exit(table, cursor, WordOf(g)) /\ ring' = ring
        BY <3>1, <3>2, <4>1 DEF job_reap_record
      <4>3. table \in Table /\ Distinct(table) /\ WordOf(g) \in StatusWord
        BY <1>2, <3>1, <3>2, Typings, CollectOK DEF TInv, Truth, IInv
      <4>4. Shrinks(table, table')
        BY <1>1, <1>2, <4>2, <4>3, RecordFiles, FilesShrinks DEF g
      <4>5. Nobody /\ Onward
        BY <1>2, <1>3, <3>1, <3>2, <3>4, <4>4, Collecting DEF Onward, Shrinks
      <4> QED BY <4>2, <4>5 DEF RingMoves
    <3> QED BY <3>3, <3>4
  <2> QED BY <2>1, <2>2
<1>5. Asked'
  <2>1. after \in Afters /\ pc = "poll"
    BY DEF IInv, PlaceOK, PollSlot
  <2>2. pc' = after \/ pc' = "poll"
    BY <2>1 DEF PollSlot
  <2> QED BY <2>1, <2>2, NotAsking DEF Afters
<1> QED BY <1>3, <1>4, <1>5 DEF Minds, AnswerKept

(* A prompt or a script's announcement prints, and retires what it printed. *)
LEMMA NotifyMinds == ASSUME IInv, job_notify \/ job_notify_async PROVE Minds
<1>1. /\ UNCHANGED <<proc, ring, told, swept, launched, reply>>
      /\ pc' \notin {"waitOne", "fgwait"}
  BY DEF job_notify, job_notify_async
<1>2. table \in Table
  BY Typings
<1>3. Shrinks(table, table')
  <2>1. CASE job_notify
    <3> DEFINE U == Notified(table, {s \in Finished(table) : ~table.jobs[s].notified})
    <3>1. Kept(U, table) /\ U \in Table /\ table' = job_purge_reported(U)
      BY <1>2, <2>1, NotifiedKeeps DEF job_notify
    <3> HIDE DEF U
    <3>2. Shrinks(table, U)
      BY <1>2, <3>1, KeptShrinks
    <3>3. Shrinks(U, table')
      BY <3>1, RemoveKeeps, KeptShrinks DEF job_purge_reported
    <3> QED BY <3>2, <3>3, ShrinksMore
  <2>2. CASE job_notify_async
    BY <1>2, <2>2, RemoveKeeps, KeptShrinks DEF job_notify_async
  <2> QED BY <2>1, <2>2
<1>4. \A p \in Pids : shown[p] # 0 => shown'[p] # 0
  <2>1. \A p \in Pids : shown[p] \in 0 .. 2
    BY DEF IInv, HistoryOK
  <2>2. \E S : Printed(S)
    BY DEF job_notify, job_notify_async
  <2> QED BY <2>1, <2>2 DEF Printed
<1>5. Onward /\ RingMoves
  BY <1>1, <1>3, <1>4, Quiet
<1> QED BY <1>1, <1>5, NotAsking DEF Minds, AnswerKept

(* A list collects whom it finds and remembers them.                       *)
LEMMA ReapChildMinds == ASSUME IInv, TInv, reap_background_children PROVE Minds
<1>1. /\ UNCHANGED <<reply, shown, told, swept, launched>>
      /\ pc' \notin {"waitOne", "fgwait"}
  BY DEF reap_background_children
<1>2. Onward /\ RingMoves
  <2>1. CASE UNCHANGED <<proc, table, ring>>
    BY <1>1, <2>1, Quiet, SameShrinks
  <2>2. CASE \E p \in Children : Zombie(p) /\ Collect(p) /\ bg_done_record(p, WordOf(p))
    <3>1. PICK p \in Children : Zombie(p) /\ Collect(p) /\ bg_done_record(p, WordOf(p))
      BY <2>2
    <3>2. p \in Pids /\ WordOf(p) = proc[p].raw
      BY <3>1 DEF Children, WordOf
    <3>3. ring' = Pushed(p, proc[p].raw) /\ table' = TableLearns(table, p, proc[p].raw)
      BY <3>1, <3>2 DEF bg_done_record
    <3>4. Shrinks(table, table')
      BY <3>2, <3>3, LearnsShrinks
    <3> QED BY <1>1, <3>1, <3>2, <3>3, <3>4, Pushing
  <2> QED BY <2>1, <2>2 DEF reap_background_children
<1> QED BY <1>1, <1>2, NotAsking DEF Minds, AnswerKept

(* A new process: nobody was told of it.                                   *)
LEMMA Forking ==
  ASSUME IInv, NEW p \in Fresh, NEW g, proc' = [proc EXCEPT ![p] = Forked(g)],
         UNCHANGED <<table, ring, shown, told, swept>>,
         launched' \subseteq launched \cup {p}
  PROVE  Onward /\ RingMoves
<1>1. p \in Pids /\ proc[p].st = "none"
  BY DEF Fresh
<1>2. proc'[p].st = "run" /\ \A q \in Pids : q # p => proc'[q] = proc[q]
  BY <1>1, Typings DEF Forked
<1>3. Onward
  BY <1>1, <1>2 DEF Onward
<1>4. Nobody
  BY <1>2 DEF Nobody
<1> QED BY <1>3, <1>4 DEF RingMoves

(* The least of the processes not yet born is one of them.                 *)
LEMMA FreshLeast == ASSUME Fresh # {} PROVE Least(Fresh) \in Fresh
<1>1. Fresh \subseteq Nat
  BY PidsAreNumbers DEF Fresh
<1> QED BY <1>1, LeastIsLeast

(* `&` forks.                                                              *)
LEMMA BackgroundMinds == ASSUME IInv, execute_range_background PROVE Minds
<1>1. /\ UNCHANGED <<table, ring, shown, told, swept, reply>> /\ Fresh # {}
      /\ proc' = [proc EXCEPT ![Least(Fresh)] = Forked(Least(Fresh))]
      /\ launched' = launched \cup {Least(Fresh)}
      /\ pc' \notin {"waitOne", "fgwait"}
  BY DEF execute_range_background, PollThen
<1>2. Onward /\ RingMoves
  BY <1>1, FreshLeast, Forking
<1> QED BY <1>1, <1>2, NotAsking DEF Minds, AnswerKept

(* A foreground stage is forked: it is nobody's background process.        *)
LEMMA StageMinds == ASSUME IInv, TInv, KInv, ForkStage PROVE Minds
<1> DEFINE p == Least(Fresh)
<1>1. /\ UNCHANGED <<table, ring, shown, told, swept, reply, launched>>
      /\ Fresh # {} /\ proc' = [proc EXCEPT ![p] = Forked(StageGroup(p))]
      /\ stages' = Append(stages, p)
      /\ pc = "stage" /\ pc' \in {"fgwait", "stage"}
  BY DEF ForkStage
<1>2. p \in Fresh
  BY <1>1, FreshLeast
<1>3. stages = <<>>
  BY <1>1 DEF TInv, InHand
<1> HIDE DEF p
<1>4. Onward /\ RingMoves
  BY <1>1, <1>2, Forking
<1>5. p \notin launched
  BY <1>2 DEF Fresh, KInv, Born
<1>6. stages' = <<p>>
  BY <1>1, <1>3
<1>7. Asked'
  <2>1. ASSUME NEW q \in Pids, stages' = <<q>>
        PROVE  q \notin launched'
    BY <1>1, <1>5, <1>6, <2>1
  <2>2. pc' # "waitOne"
    BY <1>1
  <2> QED BY <2>1, <2>2 DEF Asked
<1> QED BY <1>1, <1>4, <1>7 DEF Minds, AnswerKept

(* No stage is expanded after another.                                     *)
LEMMA ExpandMinds == ASSUME TInv, ExpandInParent PROVE Minds
BY DEF ExpandInParent, TInv, InHand

(* The background job enters the table.                                    *)
LEMMA AddedMinds == ASSUME IInv, TInv, BackgroundAdded PROVE Minds
<1>1. /\ pc = "bgadd" /\ pc' = "next" /\ table' = job_add(table, target)
      /\ UNCHANGED <<proc, ring, reply, shown, told, swept, launched>>
  BY DEF BackgroundAdded
<1>2. target \in Pids /\ proc[target].st # "reaped"
  BY <1>1 DEF TInv, InHand, Ours, Alive
<1>3. \A s \in Slots : table'.jobs[s].pgid \in {target, table.jobs[s].pgid}
  <2> DEFINE s == Least(Slots \ Occupied(table))
             j == [FreeSlot EXCEPT !.id = job_next_id(table), !.pgid = target]
  <2>1. CASE table' = table
    BY <2>1
  <2>2. CASE table' # table
    <3>1. s \in Slots \ Occupied(table) /\ table'.jobs = [table.jobs EXCEPT ![s] = j]
      BY <1>1, <2>2, AddJobs, Typings
    <3>2. j.pgid = target /\ table \in Table
      BY Typings DEF FreeSlot
    <3> HIDE DEF s, j
    <3> QED BY <3>1, <3>2 DEF Table
  <2> QED BY <2>1, <2>2
<1>4. Onward
  BY <1>1, <1>2, <1>3 DEF Onward
<1>5. RingMoves
  BY <1>1 DEF RingMoves, Nobody
<1> QED BY <1>1, <1>4, <1>5, NotAsking DEF Minds, AnswerKept

(* The foreground child is collected silently; if it stopped it is a job.  *)
LEMMA StageWaitMinds == ASSUME IInv, TInv, KInv, exe_res_set_status PROVE Minds
<1>1. /\ pc = "fgwait" /\ stages # <<>> /\ stages' = Tail(stages)
      /\ UNCHANGED <<pc, ring, reply, shown, told, swept, launched>>
  BY DEF exe_res_set_status
<1> DEFINE p == Head(stages)
<1>2. p \in Pids /\ stages = <<p>> /\ Ours(p, proc, table)
  <2>1. PICK q \in Pids : stages = <<q>> /\ Ours(q, proc, table)
    BY <1>1 DEF TInv, InHand
  <2>2. Head(stages) = q
    BY <2>1
  <2> QED BY <2>1, <2>2
<1>3. /\ p \in Ready({p}, TRUE, FALSE) /\ Collect(p)
      /\ IF Zombie(p) THEN UNCHANGED table ELSE fg_job_stopped(p)
  BY DEF exe_res_set_status
<1> HIDE DEF p
<1>4. p \notin launched /\ NotListed(p, table)
  BY <1>1, <1>2 DEF KInv, Asked, Ours
<1>5. Asked'
  <2>1. stages' = <<>>
    BY <1>1, <1>2
  <2>2. pc' = "fgwait" /\ \A q \in Pids : stages' # <<q>>
    BY <1>1, <2>1
  <2> QED BY <2>2 DEF Asked
<1>6. CASE Zombie(p)
  <2>1. Onward /\ NobodyBut(p)
    BY <1>1, <1>2, <1>3, <1>6, Collecting DEF Onward
  <2>2. Silent(p)
    BY <1>4 DEF Silent
  <2> QED BY <1>1, <1>2, <1>5, <2>1, <2>2 DEF RingMoves, Minds, AnswerKept
<1>7. CASE ~Zombie(p)
  <2> DEFINE g == proc[p].pgid
             s == Least(Slots \ Occupied(table))
  <2>1. proc[p].st = "stop" /\ Nobody
    BY <1>2, <1>3, <1>7, Collecting DEF Ready
  <2>2. g = p
    <3>1. LoneProcess(p, proc[p]) /\ Grouped(proc[p])
      BY <1>2 DEF TInv, Truth, Lone, IInv, KernelOK
    <3> QED BY <2>1, <3>1 DEF LoneProcess, Grouped
  <2>3. proc'[p].st # "reaped"
    BY <1>2, <2>1 DEF Nobody
  <2>4. \A t \in Slots : table'.jobs[t].pgid \in {p, table.jobs[t].pgid}
    <3>1. CASE Slots \ Occupied(table) = {}
      BY <1>3, <1>7, <3>1 DEF fg_job_stopped
    <3>2. CASE Slots \ Occupied(table) # {}
      <4> DEFINE U == job_add(table, g)
                 j == [FreeSlot EXCEPT !.id = job_next_id(table), !.pgid = g]
      <4>1. table' = job_record_exit(U, s, StoppedWord)
        BY <1>3, <1>7, <3>2 DEF fg_job_stopped
      <4>2. s \in Slots
        BY <3>2, LeastSlot
      <4>3. U.jobs = table.jobs \/ U.jobs = [table.jobs EXCEPT ![s] = j]
        BY <3>2, AddJobs, Typings
      <4>4. U \in Table
        <5>1. g \in 1 .. NPids + 1
          BY <1>2, <2>2, JobControlAssumption DEF Pids
        <5> QED BY <5>1, AddGood DEF IInv, Good, TableOK
      <4>5. j.pgid = p
        BY <2>2 DEF FreeSlot
      <4>6. table \in Table
        BY Typings
      <4> HIDE DEF U, j, s
      <4>7. \A t \in Slots : U.jobs[t].pgid \in {p, table.jobs[t].pgid}
        BY <4>2, <4>3, <4>5, <4>6 DEF Table
      <4>8. \A t \in Slots : table'.jobs[t].pgid = U.jobs[t].pgid
        <5>1. table'.jobs = [U.jobs EXCEPT ![s] = Decoded(U.jobs[s], StoppedWord)]
          BY <4>1, <4>4 DEF job_record_exit, Table
        <5>2. Decoded(U.jobs[s], StoppedWord) = [U.jobs[s] EXCEPT !.status = "stopped"]
          BY DEF Decoded, StoppedWord
        <5>3. U.jobs[s] \in Job
          BY <4>2, <4>4 DEF Table
        <5>4. Decoded(U.jobs[s], StoppedWord).pgid = U.jobs[s].pgid
          BY <5>2, <5>3 DEF Job
        <5> QED BY <4>2, <4>4, <5>1, <5>4 DEF Table
      <4> QED BY <4>7, <4>8
    <3> QED BY <3>1, <3>2
  <2>5. Onward
    BY <1>1, <1>2, <1>3, <2>3, <2>4, Collecting DEF Onward
  <2> QED BY <1>1, <1>5, <2>1, <2>5 DEF RingMoves, Minds, AnswerKept
<1> QED BY <1>6, <1>7

(* wait collects a child, tells of it or sweeps it, and files the end.     *)
LEMMA WaitMinds ==
  ASSUME IInv, TInv, NEW p \in Pids, Zombie(p), Collect(p),
         ring' = Taken(Pushed(p, proc[p].raw), p),
         table' = TableLearns(table, p, proc[p].raw)
           \/ Kept(table', TableLearns(table, p, proc[p].raw)),
         told \subseteq told', swept \subseteq swept', p \in told' \cup swept',
         UNCHANGED <<launched, shown>>, AnswerKept, pc' \notin {"waitOne", "fgwait"}
  PROVE  Minds
<1>1. Shrinks(table, table')
  BY LearnsShrinks
<1>2. Onward /\ RingMoves
  BY <1>1, Pushing
<1> QED BY <1>2, NotAsking DEF Minds

(* The three forms of wait.                                                *)
LEMMA WaitsMind ==
  ASSUME IInv, TInv, wait_one \/ wait_n \/ wait_drain \/ wait_in_order
  PROVE  Minds
<1>1. UNCHANGED <<launched, shown>> /\ pc' \notin {"waitOne", "fgwait"}
  BY DEF wait_one, wait_n, wait_drain, wait_in_order, WaitAllEnd
<1>2. \A p \in Pids : TableLearns(table, p, proc[p].raw) \in Table
  BY LearnsShrinks
<1>3. CASE wait_one \/ wait_n
  <2>1. CASE \E p \in Pids : /\ Zombie(p) /\ Collect(p)
                             /\ ring' = Taken(Pushed(p, proc[p].raw), p)
                             /\ table' = job_purge_done(TableLearns(table, p, proc[p].raw))
                             /\ reply' = [pid |-> p, code |-> CodeOf(proc[p].raw)]
                             /\ told' = told \cup {p} /\ swept' = swept
    <3>1. PICK p \in Pids : /\ Zombie(p) /\ Collect(p)
                             /\ ring' = Taken(Pushed(p, proc[p].raw), p)
                             /\ table' = job_purge_done(TableLearns(table, p, proc[p].raw))
                             /\ reply' = [pid |-> p, code |-> CodeOf(proc[p].raw)]
                             /\ told' = told \cup {p} /\ swept' = swept
      BY <2>1
    <3> DEFINE U == TableLearns(table, p, proc[p].raw)
    <3>2. U \in Table /\ table' = job_purge_done(U)
      BY <1>2, <3>1
    <3> HIDE DEF U
    <3>3. Kept(table', U)
      BY <3>2, RemoveKeeps DEF job_purge_done
    <3>4. AnswerKept
      BY <3>1 DEF AnswerKept
    <3> QED BY <1>1, <3>1, <3>3, <3>4, WaitMinds DEF U
  <2>2. CASE Children = {} /\ wait_n /\ UNCHANGED <<proc, ring, table, told>>
    <3>1. reply' = [pid |-> 0, code |-> 127] \/ Children # {}
      BY <2>2 DEF wait_n, Answer
    <3>2. AnswerKept
      BY <2>2, <3>1 DEF AnswerKept, Pids
    <3>3. swept' = swept
      BY <2>2 DEF wait_n
    <3> QED BY <1>1, <2>2, <3>2, <3>3, Quiet, SameShrinks, NotAsking DEF Minds
  <2>3. wait_one => target \in Pids
    BY DEF wait_one, IInv, PlaceOK
  <2> QED BY <1>3, <2>1, <2>2, <2>3 DEF wait_one, wait_n, Answer, Children
<1>4. ASSUME UNCHANGED <<proc, ring, told, swept, reply>>, Shrinks(table, table')
      PROVE  Minds
  BY <1>1, <1>4, Quiet, NotAsking DEF Minds, AnswerKept
<1>5. ASSUME NEW p \in Children, Sweep(p), UNCHANGED <<told, reply>>, NEW S,
             table' = TableLearns(table, p, proc[p].raw)
             \/ table' = Notified(TableLearns(table, p, proc[p].raw), S)
      PROVE  Minds
  <2>1. /\ p \in Pids /\ Zombie(p) /\ Collect(p) /\ swept' = swept \cup {p}
        /\ ring' = Taken(Pushed(p, proc[p].raw), p)
    BY <1>5 DEF Sweep, Children
  <2>2. table' = TableLearns(table, p, proc[p].raw)
          \/ Kept(table', TableLearns(table, p, proc[p].raw))
    BY <1>2, <1>5, <2>1, NotifiedKeeps
  <2>3. AnswerKept
    BY <1>5 DEF AnswerKept
  <2> QED BY <1>1, <1>5, <2>1, <2>2, <2>3, WaitMinds
<1>6. CASE wait_drain
  <2>1. UNCHANGED <<told, reply>>
    BY <1>6 DEF wait_drain
  <2>2. CASE WaitAllEnd
    <3> DEFINE U == job_mark_reported_except(table, lastBg)
    <3>1. UNCHANGED <<proc, ring, swept>> /\ (table' = table \/ table' = job_purge_reported(U))
      BY <2>2 DEF WaitAllEnd
    <3>2. table \in Table /\ U \in Table /\ Kept(U, table)
      BY Typings, NotifiedKeeps DEF job_mark_reported_except
    <3> HIDE DEF U
    <3>3. Kept(job_purge_reported(U), U)
      BY <3>2, RemoveKeeps DEF job_purge_reported
    <3>4. Shrinks(table, table')
      BY <3>1, <3>2, <3>3, KeptShrinks, ShrinksMore, SameShrinks
    <3> QED BY <1>4, <2>1, <3>1, <3>4
  <2>3. CASE UNCHANGED <<proc, table, ring, swept>>
    BY <1>4, <2>1, <2>3, SameShrinks
  <2>4. CASE \E p \in Children : Sweep(p) /\ table' = TableLearns(table, p, proc[p].raw)
    BY <1>5, <2>1, <2>4
  <2> QED BY <1>6, <2>2, <2>3, <2>4 DEF wait_drain
<1>7. CASE wait_in_order
  <2>1. UNCHANGED <<told, reply>>
    BY <1>7 DEF wait_in_order
  <2>2. CASE UNCHANGED <<proc, table, ring, swept>>
    BY <1>4, <2>1, <2>2, SameShrinks
  <2> QED BY <1>5, <1>7, <2>1, <2>2 DEF wait_in_order
<1> QED BY <1>3, <1>6, <1>7

(* The word of a dead process is an end, and its code is not "unknown".    *)
LEMMA FinalCode ==
  ASSUME NEW w \in FinalWords
  PROVE  w.how \in {"exit", "sig"} /\ CodeOf(w) # 127
<1>1. FreeSlot \in Job
  BY DEF FreeSlot, Job, JobStatus, StatusWord, NoStatus
<1>2. CodeOf(w) # 127
  BY <1>1, FinalDecoded
<1> QED BY <1>2 DEF FinalWords, Exited, Signaled

(* wait PID for a process collected earlier: what the ring has is told,    *)
(* and when the ring has nothing it was told before.                       *)
LEMMA ReapedMinds == ASSUME IInv, TInv, KInv, reaped_job_status PROVE Minds
<1> DEFINE p == target
           job == IF job_find_pgid(table, p) = {} THEN {}
                  ELSE {Least(job_find_pgid(table, p))}
           hits == Remembered(p)
           over == {s \in job : job_finished(table.jobs[s])}
           code == IF hits # {}
                   THEN LET w == ring.slot[Least(hits)].raw
                        IN  IF w.how \in {"exit", "sig"} THEN CodeOf(w) ELSE 127
                   ELSE IF over # {} THEN table.jobs[Least(over)].code
                   ELSE 127
<1>1. /\ p \in Pids /\ p \in Known /\ ~Unreaped(p) /\ pc' = "next"
      /\ UNCHANGED <<proc, shown, launched, swept>>
      /\ ring' = Taken(ring, p)
      /\ table' = job_remove(table, job) \/ table' = job_remove(table, over)
      /\ reply' = [pid |-> p, code |-> code]
      /\ told' = IF code = 127 THEN told ELSE told \cup {p}
  BY DEF reaped_job_status, IInv, PlaceOK, Answer, KInv, Asked
<1>2. proc[p].st = "reaped"
  <2>1. proc[p].st # "none"
    <3>1. p \in launched => proc[p].st # "none"
      BY DEF KInv, Born
    <3>2. ASSUME NEW s \in Occupied(table), p = table.jobs[s].pgid
          PROVE  proc[p].st # "none"
      <4>1. JobTrue(table.jobs[s], proc[p])
        BY <1>1, <3>2 DEF TInv, Truth, Entries, EntryTrue, Occupied
      <4> QED BY <4>1 DEF JobTrue, Alive
    <3> QED BY <1>1, <3>1, <3>2 DEF Known, GroupsOf
  <2>2. proc[p] \in Process
    BY <1>1, Typings
  <2> QED BY <1>1, <2>1, <2>2 DEF Unreaped, Process, ProcessStates
<1>3. hits # {} => code # 127
  <2> SUFFICES ASSUME hits # {} PROVE code # 127
    OBVIOUS
  <2> DEFINE h == Least(hits)
             w == ring.slot[h].raw
  <2>1. h \in hits
    <3>1. hits \subseteq Nat
      BY DEF Remembered, RingSlots
    <3> HIDE DEF hits
    <3> QED BY <3>1, LeastIsLeast
  <2>2. h \in RingSlots /\ ring.slot[h].pid = p /\ p # 0
    BY <1>1, <2>1 DEF Remembered, Pids
  <2>3. w = proc[p].raw
    <3> HIDE DEF h
    <3> QED BY <2>2 DEF TInv, Truth, RingTrue
  <2>4. w \in FinalWords
    BY <1>1, <1>2, <2>3 DEF TInv, Truth, Lone, LoneProcess
  <2>5. code = IF w.how \in {"exit", "sig"} THEN CodeOf(w) ELSE 127
    OBVIOUS
  <2> HIDE DEF w, code
  <2> QED BY <2>4, <2>5, FinalCode
<1> HIDE DEF code, job, over
<1>4. p \in told' \cup swept'
  <2>1. hits = {} => p \in told \cup swept
    BY <1>1, <1>2 DEF KInv, Recalled
  <2> QED BY <1>1, <1>3, <2>1
<1>5. Shrinks(table, table')
  BY <1>1, RemoveKeeps, KeptShrinks, Typings
<1> HIDE DEF p
<1>6. Onward
  BY <1>1, <1>5 DEF Onward, Shrinks
<1>7. RingMoves
  BY <1>1, <1>4 DEF RingMoves, Nobody
<1>8. AnswerKept
  BY <1>1, <1>4 DEF AnswerKept
<1> QED BY <1>1, <1>6, <1>7, <1>8, NotAsking DEF Minds

(* jobs prints the end of a job for the first time, and pushes it again.   *)
LEMMA ListMinds == ASSUME IInv, TInv, ListJobs PROVE Minds
<1> DEFINE news == {s \in Finished(table) : ~table.jobs[s].notified}
           s == ByNumber(table, news)
           j == table.jobs[s]
<1>1. UNCHANGED <<proc, reply, told, swept, launched>> /\ pc' \notin {"waitOne", "fgwait"}
  BY DEF ListJobs
<1>2. /\ table \in Table /\ Distinct(table) /\ Entries(table, proc, shown)
      /\ \A p \in Pids : shown[p] \in 0 .. 2
  BY Typings DEF TInv, Truth, IInv, HistoryOK
<1>3. CASE news # {}
  <2>1. s \in news
    <3>1. news \subseteq Slots
      BY DEF Finished, Occupied
    <3> HIDE DEF news
    <3> QED BY <1>2, <1>3, <3>1, ByNumberIn
  <2> DEFINE U == Notified(table, {s})
             p == j.pgid
  <2>2. /\ ring' = Pushed(p, j.raw) /\ table' = TableLearns(U, p, j.raw)
        /\ Printed({p})
    BY <1>3 DEF ListJobs
  <2>3. s \in Slots /\ ~j.notified /\ p # 0
    BY <2>1 DEF Finished, Occupied
  <2>4. U \in Table /\ Kept(U, table)
    BY <1>2, NotifiedKeeps
  <2> HIDE DEF news, s, U
  <2>5. p \in Pids /\ shown[p] = 0 /\ j.raw \in StatusWord
    BY <1>2, <2>3 DEF Entries, EntryTrue, Table, Job
  <2>6. Shrinks(table, table')
    <3>1. Distinct(U) /\ Shrinks(table, U)
      BY <1>2, <2>4, KeptTrue, KeptShrinks
    <3>2. Files(U, table', p, j.raw)
      BY <2>2, <2>3, <2>4, <3>1, LearnsFiles
    <3> QED BY <2>4, <2>5, <3>1, <3>2, FilesShrinks, ShrinksMore
  <2> HIDE DEF p, j
  <2>7. shown'[p] # 0 /\ \A q \in Pids : shown[q] # 0 => shown'[q] # 0
    BY <1>2, <2>2, <2>5 DEF Printed
  <2>8. Onward
    BY <1>1, <2>6, <2>7 DEF Onward, Shrinks
  <2>9. RingMoves
    BY <1>1, <2>2, <2>5, <2>7 DEF RingMoves, NobodyBut, Fresher
  <2> QED BY <1>1, <2>8, <2>9, NotAsking DEF Minds, AnswerKept
<1>4. CASE news = {}
  <2>1. table' = job_purge_reported(table) /\ UNCHANGED <<ring, shown>>
    BY <1>4 DEF ListJobs
  <2>2. Shrinks(table, table')
    BY <1>2, <2>1, RemoveKeeps, KeptShrinks DEF job_purge_reported
  <2>3. Onward /\ RingMoves
    BY <1>1, <2>1, <2>2, Quiet
  <2> QED BY <1>1, <2>3, NotAsking DEF Minds, AnswerKept
<1> QED BY <1>3, <1>4

(* fg tells how its job ended, without the ring.                           *)
LEMMA FgWaitMinds == ASSUME IInv, TInv, fg_wait_result PROVE Minds
<1> DEFINE g == table.jobs[target].pgid
           result(w) == /\ table' = IF w.how = "stop"
                                    THEN [table EXCEPT !.jobs[target].status = "stopped"]
                                    ELSE job_remove(table, {target})
                        /\ Answer(g, IF w.how = "stop" THEN 148 ELSE CodeOf(w))
<1>1. pc = "fg" /\ pc' = "next" /\ UNCHANGED <<ring, shown, launched, swept>>
  BY DEF fg_wait_result
<1>2. target \in Occupied(table) /\ target \in Unfinished(table) /\ table \in Table
  BY <1>1, Typings DEF TInv, InHand, Unfinished
<1>3. g \in Pids /\ g \in Group(g) /\ \A q \in Group(g) : q = g
  BY <1>2, GroupIsLeader
<1>4. PICK q \in Ready(Group(g), TRUE, FALSE) :
        /\ Collect(q) /\ result(WordOf(q))
        /\ told' = IF Zombie(q) THEN told \cup {q} ELSE told
  BY <1>3 DEF fg_wait_result
<1>5. q = g
  BY <1>3 DEF Ready
<1>6. Shrinks(table, table')
  <2>1. \/ table' = [table EXCEPT !.jobs[target].status = "stopped"]
        \/ table' = job_remove(table, {target})
    BY <1>4
  <2>2. CASE table' = [table EXCEPT !.jobs[target].status = "stopped"]
    <3>1. \A t \in Slots : table'.jobs[t].pgid = table.jobs[t].pgid
      BY <1>2, <2>2 DEF Table, Job
    <3> QED BY <3>1 DEF Shrinks
  <2> QED BY <1>2, <2>1, <2>2, RemoveKeeps, KeptShrinks
<1>7. reply'.pid = g /\ (~Zombie(g) => reply'.code = 148)
  <2>1. ~Zombie(g) => WordOf(g) = StoppedWord
    BY <1>4, <1>5 DEF Ready, WordOf
  <2> QED BY <1>4, <1>5, <2>1 DEF Answer, StoppedWord
<1>8. Collect(g) /\ told' = IF Zombie(g) THEN told \cup {g} ELSE told
  BY <1>4, <1>5
<1> HIDE DEF g
<1>9. Onward
  BY <1>1, <1>3, <1>6, <1>8, Collecting DEF Onward, Shrinks
<1>10. RingMoves
  <2>1. CASE Zombie(g)
    <3>1. NobodyBut(g) /\ Silent(g)
      BY <1>3, <1>8, <2>1, Collecting DEF Silent
    <3> QED BY <1>1, <1>3, <3>1 DEF RingMoves
  <2>2. CASE ~Zombie(g)
    BY <1>1, <1>3, <1>8, <2>2, Collecting DEF RingMoves
  <2> QED BY <2>1, <2>2
<1>11. AnswerKept
  BY <1>7, <1>8 DEF AnswerKept
<1> QED BY <1>1, <1>9, <1>10, <1>11, NotAsking DEF Minds

-----------------------------------------------------------------------------
(* The theorem.                                                            *)

(* Every step keeps in mind what can still be asked for.                   *)
LEMMA NextKnown ==
  ASSUME IInv, TInv, KInv, Plain, Roomy, [Next]_vars
  PROVE  KInv'
<1>1. CASE Kernel \/ UNCHANGED vars
  BY <1>1, KernelMinds, MindsKeep
<1>2. CASE Internal
  <2>1. Minds
    BY <1>2, PollMinds, PlainMinds, NotifyMinds, ReapChildMinds, AddedMinds,
       StageMinds, ExpandMinds, StageWaitMinds, WaitsMind, ReapedMinds, ListMinds,
       FgWaitMinds, SignalMinds
       DEF Internal
  <2> QED BY <2>1, MindsKeep
<1>3. CASE User
  <2>1. Minds
    BY <1>3, PlainMinds, BackgroundMinds, SignalMinds DEF User, Command
  <2> QED BY <2>1, MindsKeep
<1> QED BY <1>1, <1>2, <1>3 DEF Next

(* An exit status is never lost (job_reap_record's "durable half", bg_done *)
(* and the table together): `wait` answers 127 only for a process whose    *)
(* status was handed out before.                                           *)
THEOREM NothingIsLost == ASSUME Plain, Roomy PROVE Spec => []NothingLost
<1>1. Init => IInv /\ TInv /\ KInv
  BY InitHolds, InitTrue, InitKnown
<1>2. IInv /\ TInv /\ KInv /\ [Next]_vars => (IInv /\ TInv /\ KInv)'
  BY NextStep, NextTrue, NextKnown
<1>3. KInv => NothingLost
  BY DEF KInv
<1> QED BY <1>1, <1>2, <1>3, PTL DEF Spec

-----------------------------------------------------------------------------
(***************************************************************************)
(* While some job is alive there is a current job, for any number of       *)
(* processes, slots, ring entries and stages of a pipeline.  The re-       *)
(* election of a removal (job_reelect) sees to it at that moment; what has *)
(* to be shown beside it is that no job comes back to life afterwards: a   *)
(* stop or a continue is only ever filed for a job that is not over, which *)
(* the poll owes to the order in which it walks the table.                 *)
(*                                                                         *)
(* fg of a job that is over is left out: it brings that job back to life,  *)
(* with no current job to name it.                                         *)
(***************************************************************************)

-----------------------------------------------------------------------------
(* The inductive invariant.                                                *)

Elected(T) == Unfinished(T) # {} => T.current # NoJob

(* A word that brings nobody back to life.                                 *)
Ended(w) == w.how \notin {"stop", "cont"}

(* A table with a current job, whose entries remember ends alone.          *)
Fair(T) == T \in Table /\ Elected(T) /\ \A s \in Slots : Ended(T.jobs[s].raw)

(* What a process died with is an end.                                     *)
Words == \A p \in Pids : Ended(proc[p].raw)

(* The job the poll or fg is at is not over.                               *)
Pointed ==
  /\ pc = "poll" => cursor \in Unfinished(table)
  /\ pc = "fg" => target \in Unfinished(table)

EInv == Fair(table) /\ Words /\ Pointed

-----------------------------------------------------------------------------
(* The operations on the table.                                            *)

(* Nobody comes to life.                                                   *)
LEMMA FewerElected ==
  ASSUME NEW T, Fair(T), NEW U \in Table, U.current = T.current,
         Unfinished(U) \subseteq Unfinished(T),
         \A s \in Slots : Ended(U.jobs[s].raw)
  PROVE  Fair(U)
BY DEF Fair, Elected

(* Decoding a status word keeps the word an end, and an ending word ends   *)
(* a job or leaves a finished one finished.                                *)
LEMMA DecodedFair ==
  ASSUME NEW j \in Job, NEW w \in StatusWord, Ended(j.raw)
  PROVE  /\ Ended(Decoded(j, w).raw)
         /\ Ended(w) /\ job_finished(j) => job_finished(Decoded(j, w))
<1>1. CASE w.how \in {"stop", "cont"}
  <2>1. \E st \in JobStatus : Decoded(j, w) = [j EXCEPT !.status = st]
    BY <1>1 DEF Decoded, JobStatus
  <2>2. Decoded(j, w).raw = j.raw
    BY <2>1 DEF Job
  <2> QED BY <1>1, <2>2 DEF Ended
<1>2. CASE w.how \in {"exit", "sig"}
  <2>1. \E st \in {"done", "killed"} :
          Decoded(j, w) = [j EXCEPT !.status = st, !.code = CodeOf(w), !.raw = w]
    BY <1>2 DEF Decoded
  <2>2. Decoded(j, w).raw = w /\ Decoded(j, w).status \in {"done", "killed"}
    BY <2>1 DEF Job
  <2> QED BY <1>2, <2>2 DEF Ended, job_finished
<1>3. CASE w.how = "none"
  <2>1. Decoded(j, w) = j
    BY <1>3 DEF Decoded
  <2> QED BY <2>1
<1> QED BY <1>1, <1>2, <1>3 DEF StatusWord

(* A word is filed: an end for any job, any word for one that is not over. *)
LEMMA RecordFair ==
  ASSUME NEW T, Fair(T), NEW s \in Slots, NEW w \in StatusWord,
         Ended(w) \/ s \in Unfinished(T)
  PROVE  /\ Fair(job_record_exit(T, s, w))
         /\ \A t \in Slots : t # s => job_record_exit(T, s, w).jobs[t] = T.jobs[t]
<1> DEFINE U == job_record_exit(T, s, w)
           j == T.jobs[s]
           n == Decoded(j, w)
<1>1. T \in Table /\ j \in Job /\ Ended(j.raw)
  BY DEF Fair, Table
<1>2. n \in Job /\ n.pgid = j.pgid
  BY <1>1, DecodedType
<1>3. Ended(n.raw) /\ (Ended(w) /\ job_finished(j) => job_finished(n))
  BY <1>1, DecodedFair
<1>4. U = [T EXCEPT !.jobs[s] = n]
  BY DEF job_record_exit
<1> HIDE DEF n, U
<1>5. /\ U \in Table /\ U.current = T.current /\ U.jobs[s] = n
      /\ \A t \in Slots : t # s => U.jobs[t] = T.jobs[t]
  BY <1>1, <1>2, <1>4 DEF Table
<1>6. Unfinished(U) \subseteq Unfinished(T)
  <2> SUFFICES ASSUME NEW t \in Slots, U.jobs[t].pgid # 0, ~job_finished(U.jobs[t])
               PROVE  t \in Unfinished(T)
    BY DEF Unfinished, Finished, Occupied
  <2>1. CASE t # s
    BY <1>5, <2>1 DEF Unfinished, Finished, Occupied
  <2>2. CASE t = s
    <3>1. n.pgid # 0 /\ ~job_finished(n)
      BY <1>5, <2>2
    <3> QED BY <1>2, <1>3, <2>2, <3>1 DEF Unfinished, Finished, Occupied
  <2> QED BY <2>1, <2>2
<1>7. \A t \in Slots : Ended(U.jobs[t].raw)
  BY <1>3, <1>5 DEF Fair
<1> QED BY <1>5, <1>6, <1>7, FewerElected DEF U

(* The job of a group learns an end: the first slot that matches, and no   *)
(* other.                                                                  *)
LEMMA LearnsFair ==
  ASSUME NEW T, Fair(T), NEW p, NEW w \in StatusWord, Ended(w)
  PROVE  /\ Fair(TableLearns(T, p, w))
         /\ \A s, t \in Slots : T.jobs[s].pgid = p /\ t > s =>
                                  TableLearns(T, p, w).jobs[t] = T.jobs[t]
<1>1. CASE job_find_pgid(T, p) = {}
  BY <1>1 DEF TableLearns
<1>2. CASE job_find_pgid(T, p) # {}
  <2> DEFINE l == Least(job_find_pgid(T, p))
  <2>1. job_find_pgid(T, p) \subseteq Nat
    BY DEF job_find_pgid, Slots
  <2>2. l \in job_find_pgid(T, p) /\ \A s \in job_find_pgid(T, p) : l <= s
    BY <1>2, <2>1, LeastIsLeast
  <2>3. TableLearns(T, p, w) = job_record_exit(T, l, w)
    BY <1>2 DEF TableLearns
  <2> HIDE DEF l
  <2>4. l \in Slots
    BY <2>2 DEF job_find_pgid
  <2>5. /\ Fair(TableLearns(T, p, w))
        /\ \A t \in Slots : t # l => TableLearns(T, p, w).jobs[t] = T.jobs[t]
    BY <2>3, <2>4, RecordFair
  <2>6. ASSUME NEW s \in Slots, NEW t \in Slots, T.jobs[s].pgid = p, t > s
        PROVE  t # l
    <3>1. l <= s
      BY <2>2, <2>6 DEF job_find_pgid
    <3> QED BY <2>4, <2>6, <3>1 DEF Slots
  <2> QED BY <2>5, <2>6
<1> QED BY <1>1, <1>2

(* Marking as reported changes nobody's life.                              *)
LEMMA NotifiedFair == ASSUME NEW T, Fair(T), NEW S PROVE Fair(Notified(T, S))
<1> DEFINE U == Notified(T, S)
<1>1. T \in Table
  BY DEF Fair
<1>2. U \in Table /\ \A s \in Slots : U.jobs[s] = IF s \in S
                                               THEN [T.jobs[s] EXCEPT !.notified = TRUE]
                                               ELSE T.jobs[s]
  BY <1>1, NotifiedKeeps
<1>3. U.current = T.current
  BY <1>1 DEF Notified, Table
<1> HIDE DEF U
<1>4. \A s \in Slots : /\ U.jobs[s].pgid = T.jobs[s].pgid /\ U.jobs[s].raw = T.jobs[s].raw
                       /\ U.jobs[s].status = T.jobs[s].status
  BY <1>1, <1>2 DEF Table, Job
<1>5. Unfinished(U) \subseteq Unfinished(T)
  BY <1>4 DEF Unfinished, Finished, Occupied, job_finished
<1>6. \A s \in Slots : Ended(U.jobs[s].raw)
  BY <1>4 DEF Fair
<1> QED BY <1>2, <1>3, <1>5, <1>6, FewerElected DEF U

(* A removal that takes a marker away re-elects while anybody is alive.    *)
LEMMA RemoveFair ==
  ASSUME NEW T, Fair(T), TableOK(T), NEW S, S \subseteq Occupied(T)
  PROVE  Fair(job_remove(T, S)) /\ TableOK(job_remove(T, S))
<1> DEFINE U == [T EXCEPT !.jobs = [s \in Slots |-> IF s \in S THEN FreeSlot
                                                    ELSE T.jobs[s]],
                          !.count = @ - Cardinality(S)]
           gone == IdsOf(T, S)
           R == job_remove(T, S)
<1>1. T \in Table /\ TableOK(R)
  BY RemoveOK DEF Fair
<1>2. R \in Table
  BY <1>1 DEF TableOK
<1>3. R = job_reelect(U, gone)
  BY DEF job_remove
<1>4. /\ R.jobs = [s \in Slots |-> IF s \in S THEN FreeSlot ELSE T.jobs[s]]
      /\ U.jobs = R.jobs /\ U.current = T.current /\ U.previous = T.previous
  BY <1>1, RemoveJobs DEF Table
<1>5. U \in Table
  <2>1. FreeSlot \in Job
    BY DEF FreeSlot, Job, JobStatus, StatusWord, NoStatus
  <2>2. Cardinality(S) \in Int
    BY SlotsFinite DEF Occupied
  <2> DEFINE J == [s \in Slots |-> IF s \in S THEN FreeSlot ELSE T.jobs[s]]
             c == T.count - Cardinality(S)
  <2>3. J \in [Slots -> Job] /\ c \in Int
    BY <1>1, <2>1, <2>2 DEF Table
  <2>4. U = [T EXCEPT !.jobs = J, !.count = c]
    OBVIOUS
  <2> HIDE DEF J, c, U
  <2> QED BY <1>1, <2>3, <2>4 DEF Table
<1> HIDE DEF U, R
<1>6. FreeSlot.pgid = 0 /\ Ended(FreeSlot.raw)
  BY DEF FreeSlot, Ended, NoStatus
<1>7. Unfinished(R) = Unfinished(U) /\ Unfinished(R) \subseteq Unfinished(T)
  BY <1>4, <1>6 DEF Unfinished, Finished, Occupied
<1>8. \A s \in Slots : Ended(R.jobs[s].raw)
  BY <1>4, <1>6 DEF Fair
<1>9. Elected(R)
  <2>1. CASE {U.current, U.previous} \cap gone = {}
    <3>1. R.current = T.current
      BY <1>3, <1>4, <2>1 DEF job_reelect
    <3> QED BY <1>7, <3>1 DEF Elected, Fair
  <2>2. CASE {U.current, U.previous} \cap gone # {}
    <3> DEFINE cur == job_find_id(U, U.current)
               keep == /\ U.current \notin gone /\ cur # {}
                       /\ \A s \in cur : U.jobs[s].status = "stopped"
               plus == IF keep THEN U.current ELSE job_live_id(U, NoJob)
    <3>1. R.current = plus
      <4>1. \E m : R = [U EXCEPT !.current = plus, !.previous = m]
        BY <1>3, <2>2, Zenon DEF job_reelect
      <4> QED BY <1>5, <4>1 DEF Table
    <3>2. CASE keep
      <4>1. PICK s \in cur : TRUE
        BY <3>2
      <4>2. s \in Slots /\ U.jobs[s].id = U.current
        BY <4>1 DEF job_find_id, Occupied
      <4>3. U.current \in Nat
        BY <1>5, <4>2 DEF Table, Job
      <4> QED BY <3>1, <3>2, <4>3 DEF Elected, NoJob
    <3>3. CASE ~keep
      <4>1. R.current = job_live_id(U, NoJob)
        BY <3>1, <3>3
      <4>2. R.current = NoJob => IdsOf(U, Unfinished(U)) \subseteq {NoJob}
        BY <1>5, <4>1, LiveIdElects
      <4>3. \A s \in Unfinished(U) : U.jobs[s].id \in Nat
        BY <1>5 DEF Unfinished, Occupied, Table, Job
      <4>4. ASSUME R.current = NoJob, NEW s \in Unfinished(U)
            PROVE  FALSE
        <5>1. U.jobs[s].id \in IdsOf(U, Unfinished(U))
          BY DEF IdsOf
        <5>2. U.jobs[s].id = NoJob /\ U.jobs[s].id \in Nat
          BY <4>2, <4>3, <4>4, <5>1
        <5> QED BY <5>2 DEF NoJob
      <4> QED BY <1>7, <4>4 DEF Elected
    <3> QED BY <3>2, <3>3
  <2> QED BY <2>1, <2>2
<1> QED BY <1>1, <1>2, <1>8, <1>9 DEF Fair, R

(* The two purges are removals of jobs that are over.                      *)
LEMMA PurgeFair ==
  ASSUME NEW T, Fair(T), TableOK(T)
  PROVE  Fair(job_purge_done(T)) /\ Fair(job_purge_reported(T))
BY RemoveFair DEF job_purge_done, job_purge_reported, Finished

(* A new job is the current one.                                           *)
LEMMA AddFair ==
  ASSUME NEW T, Fair(T), NEW g \in Nat \ {0}, job_add(T, g) \in Table
  PROVE  /\ Fair(job_add(T, g))
         /\ Slots \ Occupied(T) # {} =>
              Least(Slots \ Occupied(T)) \in Unfinished(job_add(T, g))
<1> DEFINE U == job_add(T, g)
           s == Least(Slots \ Occupied(T))
           j == [FreeSlot EXCEPT !.id = job_next_id(T), !.pgid = g]
<1>1. T \in Table
  BY DEF Fair
<1>2. CASE U = T /\ Slots \ Occupied(T) = {}
  BY <1>2
<1>3. CASE ~(U = T /\ Slots \ Occupied(T) = {})
  <2>1. /\ s \in Slots \ Occupied(T) /\ U.jobs = [T.jobs EXCEPT ![s] = j]
        /\ U.current = job_next_id(T)
    BY <1>1, <1>3, AddJobs
  <2>2. U.current # NoJob
    BY <1>1, <2>1, NextIdFresh DEF NoJob
  <2>3. j.pgid = g /\ j.status = "running" /\ Ended(j.raw)
    BY DEF FreeSlot, Ended, NoStatus
  <2> HIDE DEF j, s
  <2>4. U.jobs[s] = j /\ \A t \in Slots : t # s => U.jobs[t] = T.jobs[t]
    BY <1>1, <2>1 DEF Table
  <2>5. \A t \in Slots : Ended(U.jobs[t].raw)
    BY <2>3, <2>4 DEF Fair
  <2>6. s \in Unfinished(U)
    BY <2>1, <2>3, <2>4 DEF Unfinished, Finished, Occupied, job_finished
  <2> QED BY <2>2, <2>5, <2>6 DEF Fair, Elected, s
<1> QED BY <1>2, <1>3

(* A status set by hand, stopped or running, of a job that is not over.    *)
LEMMA StatusFair ==
  ASSUME NEW T, Fair(T), NEW s \in Unfinished(T), NEW st \in {"running", "stopped"},
         NEW U, U = [T EXCEPT !.jobs[s].status = st]
  PROVE  Fair(U) /\ s \in Unfinished(U)
<1> DEFINE j == T.jobs[s]
           n == [j EXCEPT !.status = st]
<1>1. T \in Table /\ s \in Slots /\ j \in Job
  BY DEF Fair, Unfinished, Occupied, Table
<1>2. n \in Job /\ n.pgid = j.pgid /\ n.raw = j.raw /\ n.status = st
  BY <1>1 DEF Job, JobStatus
<1> HIDE DEF n
<1>3. U = [T EXCEPT !.jobs[s] = n]
  BY DEF n
<1>4. /\ U \in Table /\ U.current = T.current /\ U.jobs[s] = n
      /\ \A t \in Slots : t # s => U.jobs[t] = T.jobs[t]
  BY <1>1, <1>2, <1>3 DEF Table
<1>5. s \in Unfinished(U) /\ Unfinished(U) \subseteq Unfinished(T)
  BY <1>1, <1>2, <1>4 DEF Unfinished, Finished, Occupied, job_finished
<1>6. \A t \in Slots : Ended(U.jobs[t].raw)
  BY <1>2, <1>4 DEF Fair
<1> QED BY <1>4, <1>5, <1>6, FewerElected

-----------------------------------------------------------------------------
(* The words of the dead.                                                  *)

(* What the kernel files is an end, and nothing rewrites it.               *)
LEMMA WordsKept == ASSUME IInv, Words, [Next]_vars PROVE Words'
<1> SUFFICES ASSUME NEW p \in Pids PROVE Ended(proc'[p].raw)
  BY DEF Words
<1> DEFINE r == proc[p]
           q == proc'[p]
<1>1. r \in Process /\ Ended(r.raw) /\ Turn(r, q)
  BY Typings, ProcessTurns DEF Words
<1> SUFFICES Ended(q.raw)
  OBVIOUS
<1> HIDE DEF r, q
<1>2. CASE q = Collected(r)
  <2>1. q.raw = r.raw
    BY <1>1, <1>2 DEF Collected, Process
  <2> QED BY <1>1, <2>1
<1>3. CASE \E g : q = Forked(g)
  <2>1. q.raw = NoStatus
    BY <1>3 DEF Forked
  <2> QED BY <2>1 DEF NoStatus, Ended
<1>4. CASE \E w \in FinalWords : q = Dead(r, w)
  <2>1. PICK w \in FinalWords : q = Dead(r, w)
    BY <1>4
  <2>2. q.raw = w
    BY <1>1, <2>1 DEF Dead, Process
  <2>3. Ended(w)
    BY DEF FinalWords, Exited, Signaled, Ended
  <2> QED BY <2>2, <2>3
<1>5. CASE \E sig \in SignalNames : q = Signalled(r, sig)
  <2>1. q.raw = r.raw
    BY <1>1, <1>5, SignalledWord
  <2> QED BY <1>1, <2>1
<1>6. CASE \E sig \in SignalNames, more \in SignalNames : q = Signalled(Signalled(r, sig), more)
  <2>1. PICK sig \in SignalNames, more \in SignalNames : q = Signalled(Signalled(r, sig), more)
    BY <1>6
  <2>2. Signalled(r, sig).raw = r.raw /\ Signalled(r, sig) \in Process
    BY <1>1, SignalledWord, SignalledType
  <2>3. q.raw = r.raw
    BY <2>1, <2>2, SignalledWord
  <2> QED BY <1>1, <2>3
<1> QED BY <1>1, <1>2, <1>3, <1>4, <1>5, <1>6 DEF Turn

-----------------------------------------------------------------------------
(* The steps.                                                              *)

(* A shell that is neither in a poll nor in fg points at nothing.          *)
LEMMA PointsNowhere == ASSUME pc' \notin {"poll", "fg"} PROVE Pointed'
BY DEF Pointed

(* A poll starts at a job that is not over.                                *)
LEMMA PollPoints ==
  ASSUME NEW l \in Afters, PollThen(l), UNCHANGED table
  PROVE  Pointed'
<1>1. CASE Unfinished(table) = {}
  <2>1. pc' = l
    BY <1>1 DEF PollThen
  <2> QED BY <2>1, PointsNowhere DEF Afters
<1>2. CASE Unfinished(table) # {}
  <2>1. Least(Unfinished(table)) \in Unfinished(table)
    BY <1>2, LeastSlot DEF Unfinished, Occupied
  <2>2. pc' = "poll" /\ cursor' \in Unfinished(table')
    BY <1>2, <2>1 DEF PollThen
  <2> QED BY <2>2 DEF Pointed
<1> QED BY <1>1, <1>2

(* The steps that leave the table alone.                                   *)
LEMMA TableLeft ==
  ASSUME EInv, Kernel \/ UNCHANGED vars \/ Prompt \/ ReadLine \/ RangeStart \/ RangeEnd
               \/ execute_range_background \/ execute_pipeline \/ ForkStage
               \/ PipelineDone \/ builtin_wait \/ builtin_jobs \/ job_kill_group
               \/ builtin_exit \/ handle_eof \/ exit_stopped_guard
               \/ hangup_every_job \/ AwaitHangup
  PROVE  Fair(table') /\ Pointed'
<1>1. UNCHANGED table
  BY DEF vars, Kernel, Exit, Deliver, Stop, Continue, Prompt, ReadLine, RangeStart,
         RangeEnd, execute_range_background, execute_pipeline, ForkStage, PipelineDone,
         builtin_wait, builtin_jobs, job_kill_group, builtin_exit, handle_eof,
         exit_stopped_guard, hangup_every_job, AwaitHangup
<1>2. CASE Kernel \/ UNCHANGED vars
  <2>1. UNCHANGED <<table, pc, cursor, target>>
    BY <1>2 DEF vars, Kernel, Exit, Deliver, Stop, Continue
  <2> QED BY <2>1 DEF EInv, Pointed, Unfinished, Finished, Occupied
<1>3. CASE ~(Kernel \/ UNCHANGED vars)
  <2>1. \/ pc' \notin {"poll", "fg"}
        \/ \E l \in {"bgadd", "stage", "notify", "announce", "jobs", "next",
                     "guardExit", "guardEof", "hangup"} : PollThen(l)
    BY <1>3 DEF Prompt, ReadLine, RangeStart, RangeEnd, execute_range_background,
       execute_pipeline, ForkStage, PipelineDone, builtin_wait, builtin_jobs,
       job_kill_group, builtin_exit, handle_eof, exit_stopped_guard,
       hangup_every_job, AwaitHangup
  <2>2. Pointed'
    BY <1>1, <2>1, PointsNowhere, PollPoints DEF Afters
  <2> QED BY <1>1, <2>2 DEF EInv
<1> QED BY <1>2, <1>3

(* A poll files at the slot it is at, or before it; the slots it has still *)
(* to visit stay as they are.                                              *)
LEMMA PollElects == ASSUME IInv, EInv, PollSlot PROVE Fair(table') /\ Pointed'
<1> DEFINE member == Ready(Group(table.jobs[cursor].pgid), TRUE, TRUE)
           rest == {s \in Unfinished(table) : s > cursor}
<1>1. cursor \in Unfinished(table) /\ cursor \in Slots /\ Fair(table) /\ Words
  BY DEF PollSlot, EInv, Pointed, Unfinished, Occupied
<1>2. Fair(table') /\ \A t \in Slots : t > cursor => table'.jobs[t] = table.jobs[t]
  <2>1. CASE member = {}
    BY <1>1, <2>1 DEF PollSlot
  <2>2. CASE member # {}
    <3>1. PICK q \in member : Collect(q) /\ job_reap_record(cursor, WordOf(q))
      BY <2>2 DEF PollSlot
    <3>2. q \in Pids
      BY DEF Ready, Group, Children
    <3>3. WordOf(q) \in StatusWord
      BY <3>1, <3>2, CollectOK DEF IInv
    <3>4. CASE WordOf(q).how \in {"stop", "cont"}
      <4>1. table' = job_record_exit(table, cursor, WordOf(q))
        BY <3>1, <3>4 DEF job_reap_record
      <4> QED BY <1>1, <3>3, <4>1, RecordFair DEF Slots
    <3>5. CASE WordOf(q).how \notin {"stop", "cont"}
      <4>1. table' = TableLearns(table, table.jobs[cursor].pgid, WordOf(q))
        BY <3>1, <3>5 DEF job_reap_record, bg_done_record
      <4>2. Ended(WordOf(q))
        BY <3>5 DEF Ended
      <4> QED BY <1>1, <3>3, <4>1, <4>2, LearnsFair
    <3> QED BY <3>4, <3>5
  <2> QED BY <2>1, <2>2
<1>3. Pointed'
  <2>1. CASE rest = {}
    <3>1. pc' = after /\ after \in Afters
      BY <2>1 DEF PollSlot, IInv, PlaceOK
    <3> QED BY <3>1, PointsNowhere DEF Afters
  <2>2. CASE rest # {}
    <3>1. pc' = "poll" /\ cursor' = Least(rest)
      BY <2>2 DEF PollSlot
    <3>2. Least(rest) \in rest
      <4>1. rest \subseteq Slots
        BY DEF Unfinished, Occupied
      <4> HIDE DEF rest
      <4> QED BY <2>2, <4>1, LeastSlot
    <3>3. cursor' \in Unfinished(table) /\ cursor' \in Slots /\ cursor' > cursor
      BY <3>1, <3>2 DEF Unfinished, Occupied
    <3>4. table'.jobs[cursor'] = table.jobs[cursor']
      BY <1>2, <3>3
    <3>5. cursor' \in Unfinished(table')
      BY <3>3, <3>4 DEF Unfinished, Finished, Occupied
    <3> QED BY <3>1, <3>5 DEF Pointed
  <2> QED BY <2>1, <2>2
<1> QED BY <1>2, <1>3

(* What is filed for a process at its end leaves a fair table, which can   *)
(* be purged.                                                              *)
LEMMA EndFair ==
  ASSUME IInv, EInv, NEW p \in Pids
  PROVE  LET U == TableLearns(table, p, proc[p].raw)
         IN  Fair(U) /\ TableOK(U)
<1>1. proc[p].raw \in StatusWord /\ Ended(proc[p].raw) /\ Fair(table) /\ Good(table)
  BY Typings DEF EInv, Words, IInv
<1> QED BY <1>1, LearnsFair, LearnsGood DEF Good

(* The steps that collect a process at its end: a list, the expansion of a *)
(* stage's words, and the forms of wait.                                   *)
LEMMA ReapElects ==
  ASSUME IInv, EInv, reap_background_children \/ ExpandInParent \/ wait_one \/ wait_n
                     \/ wait_drain \/ wait_in_order
  PROVE  Fair(table') /\ Pointed'
<1>1. pc' \notin {"poll", "fg"}
  BY DEF reap_background_children, ExpandInParent, wait_one, wait_n, wait_drain,
         wait_in_order, WaitAllEnd
<1>2. Fair(table) /\ TableOK(table)
  BY DEF EInv, IInv, Good
<1>3. ASSUME NEW p \in Pids, NEW U, U = TableLearns(table, p, proc[p].raw)
      PROVE  Fair(U) /\ Fair(job_purge_done(U)) /\ \A S : Fair(Notified(U, S))
  BY <1>3, EndFair, PurgeFair, NotifiedFair
<1>4. CASE reap_background_children \/ ExpandInParent
  <2>1. \/ UNCHANGED table
        \/ \E p \in Pids : table' = TableLearns(table, p, proc[p].raw)
    BY <1>4 DEF reap_background_children, ExpandInParent, bg_done_record, Children, WordOf
  <2> QED BY <1>1, <1>2, <1>3, <2>1, PointsNowhere
<1>5. CASE wait_one \/ wait_n
  <2>1. \/ UNCHANGED table
        \/ \E p \in Pids : table' = job_purge_done(TableLearns(table, p, proc[p].raw))
    BY <1>5 DEF wait_one, wait_n, Children, IInv, PlaceOK
  <2> QED BY <1>1, <1>2, <1>3, <2>1, PointsNowhere
<1>6. CASE wait_in_order
  <2>1. \/ UNCHANGED table
        \/ \E p \in Pids : table' = TableLearns(table, p, proc[p].raw)
        \/ \E p \in Pids : \E S : table' = Notified(TableLearns(table, p, proc[p].raw), S)
    BY <1>6 DEF wait_in_order, Children
  <2> QED BY <1>1, <1>2, <1>3, <2>1, PointsNowhere
<1>7. CASE wait_drain
  <2>1. \/ UNCHANGED table
        \/ \E p \in Pids : table' = TableLearns(table, p, proc[p].raw)
        \/ table' = job_purge_reported(job_mark_reported_except(table, lastBg))
    BY <1>7 DEF wait_drain, WaitAllEnd, Children
  <2>2. Fair(job_purge_reported(job_mark_reported_except(table, lastBg)))
    <3> DEFINE U == job_mark_reported_except(table, lastBg)
    <3>1. Fair(U) /\ TableOK(U)
      BY <1>2, NotifiedFair, NotifiedOK DEF job_mark_reported_except
    <3> HIDE DEF U
    <3> QED BY <3>1, PurgeFair DEF U
  <2> QED BY <1>1, <1>2, <1>3, <2>1, <2>2, PointsNowhere
<1> QED BY <1>4, <1>5, <1>6, <1>7

(* The steps that print, and wait for a process collected earlier: jobs    *)
(* that are over, and no other, leave or learn their end once more.        *)
LEMMA ReportElects ==
  ASSUME IInv, EInv, job_notify \/ job_notify_async \/ ListJobs \/ reaped_job_status
  PROVE  Fair(table') /\ Pointed'
<1>1. pc' \notin {"poll", "fg"}
  BY DEF job_notify, job_notify_async, ListJobs, reaped_job_status
<1>2. Fair(table) /\ TableOK(table) /\ table \in Table
  BY DEF EInv, IInv, Good, Fair
<1>3. CASE job_notify
  <2> DEFINE U == Notified(table, {s \in Finished(table) : ~table.jobs[s].notified})
  <2>1. Fair(U) /\ TableOK(U) /\ table' = job_purge_reported(U)
    BY <1>2, <1>3, NotifiedFair, NotifiedOK DEF job_notify
  <2> HIDE DEF U
  <2> QED BY <1>1, <2>1, PurgeFair, PointsNowhere
<1>4. CASE job_notify_async
  <2>1. \E S : S \subseteq Occupied(table) /\ table' = job_remove(table, S)
    <3>1. {s \in WithStatus(table, "killed") :
             ~table.jobs[s].notified /\ sig_worth_announcing(table.jobs[s].raw.n)}
          \subseteq Occupied(table)
      BY DEF WithStatus
    <3> QED BY <1>4, <3>1 DEF job_notify_async
  <2> QED BY <1>1, <1>2, <2>1, RemoveFair, PointsNowhere
<1>5. CASE ListJobs
  <2> DEFINE news == {s \in Finished(table) : ~table.jobs[s].notified}
             s == ByNumber(table, news)
             j == table.jobs[s]
  <2>1. CASE news = {}
    <3>1. table' = job_purge_reported(table)
      BY <1>5, <2>1 DEF ListJobs
    <3> QED BY <1>1, <1>2, <3>1, PurgeFair, PointsNowhere
  <2>2. CASE news # {}
    <3>1. s \in news
      <4>1. news \subseteq Slots
        BY DEF Finished, Occupied
      <4> HIDE DEF news
      <4> QED BY <1>2, <2>2, <4>1, ByNumberIn
    <3>2. table' = TableLearns(Notified(table, {s}), j.pgid, j.raw)
      BY <1>5, <2>2 DEF ListJobs
    <3>3. s \in Slots
      BY <3>1 DEF Finished, Occupied
    <3> HIDE DEF news, s
    <3>4. j.raw \in StatusWord /\ Ended(j.raw)
      BY <1>2, <3>3 DEF Fair, Table, Job
    <3>5. Fair(Notified(table, {s}))
      BY <1>2, NotifiedFair
    <3> HIDE DEF j
    <3> QED BY <1>1, <3>2, <3>4, <3>5, LearnsFair, PointsNowhere
  <2> QED BY <2>1, <2>2
<1>6. CASE reaped_job_status
  <2> DEFINE job == IF job_find_pgid(table, target) = {} THEN {}
                    ELSE {Least(job_find_pgid(table, target))}
             over == {s \in job : job_finished(table.jobs[s])}
  <2>1. table' = job_remove(table, job) \/ table' = job_remove(table, over)
    BY <1>6 DEF reaped_job_status
  <2>2. target # 0
    BY <1>6 DEF reaped_job_status, IInv, PlaceOK, Pids
  <2>3. job \subseteq Occupied(table) /\ over \subseteq Occupied(table)
    <3>1. job_find_pgid(table, target) # {} =>
            Least(job_find_pgid(table, target)) \in job_find_pgid(table, target)
      BY LeastSlot DEF job_find_pgid
    <3> QED BY <2>2, <3>1 DEF job_find_pgid, Occupied
  <2> HIDE DEF job, over
  <2> QED BY <1>1, <1>2, <2>1, <2>3, RemoveFair, PointsNowhere
<1> QED BY <1>3, <1>4, <1>5, <1>6

(* The steps that add a job: a background process, and a foreground one    *)
(* that stopped.                                                           *)
LEMMA AddElects ==
  ASSUME IInv, EInv, BackgroundAdded \/ exe_res_set_status
  PROVE  Fair(table') /\ Pointed'
<1>1. pc' \notin {"poll", "fg"}
  BY DEF BackgroundAdded, exe_res_set_status
<1>2. Fair(table) /\ Good(table)
  BY DEF EInv, IInv
<1>3. ASSUME NEW g \in 1 .. NPids + 1
      PROVE  /\ Fair(job_add(table, g))
             /\ Slots \ Occupied(table) # {} =>
                  Least(Slots \ Occupied(table)) \in Unfinished(job_add(table, g))
  <2>1. g \in Nat \ {0} /\ job_add(table, g) \in Table
    BY <1>2, AddGood, JobControlAssumption DEF Good, TableOK
  <2> QED BY <1>2, <2>1, AddFair
<1>4. CASE BackgroundAdded
  <2>1. table' = job_add(table, target) /\ target \in 1 .. NPids + 1
    BY <1>4, JobControlAssumption DEF BackgroundAdded, IInv, PlaceOK, Pids
  <2> QED BY <1>1, <1>3, <2>1, PointsNowhere
<1>5. CASE exe_res_set_status
  <2> DEFINE p == Head(stages)
             s == Least(Slots \ Occupied(table))
             U == job_add(table, proc[p].pgid)
  <2>1. \/ UNCHANGED table
        \/ Slots \ Occupied(table) # {} /\ table' = job_record_exit(U, s, StoppedWord)
    BY <1>5 DEF exe_res_set_status, fg_job_stopped
  <2>2. CASE UNCHANGED table
    BY <1>1, <1>2, <2>2, PointsNowhere
  <2>3. CASE Slots \ Occupied(table) # {} /\ table' = job_record_exit(U, s, StoppedWord)
    <3>1. p \in Pids /\ p \in Ready({p}, TRUE, FALSE)
      <4>1. stages # <<>> /\ Head(stages) \in Ready({Head(stages)}, TRUE, FALSE)
        BY <1>5 DEF exe_res_set_status
      <4>2. stages \in Seq(Pids)
        BY DEF IInv, ShellOK
      <4>3. Head(stages) \in Pids
        <5>1. ASSUME NEW S, NEW q \in Seq(S), q # <<>>
              PROVE  Head(q) \in S
          BY <5>1
        <5> QED BY <4>1, <4>2, <5>1
      <4> QED BY <4>1, <4>3
    <3>2. proc[p].pgid \in 1 .. NPids + 1
      <4>1. Grouped(proc[p]) /\ proc[p].st # "none"
        BY <3>1 DEF IInv, KernelOK, Ready, Zombie
      <4> QED BY <4>1, JobControlAssumption DEF Grouped, Process
    <3>3. Fair(U) /\ s \in Unfinished(U)
      BY <1>3, <2>3, <3>2
    <3>4. StoppedWord \in StatusWord /\ s \in Slots
      BY <2>3, LeastSlot DEF StoppedWord, StatusWord
    <3> HIDE DEF U, s
    <3>5. Fair(job_record_exit(U, s, StoppedWord))
      BY <3>3, <3>4, RecordFair
    <3> QED BY <1>1, <2>3, <3>5, PointsNowhere
  <2> QED BY <2>1, <2>2, <2>3
<1> QED BY <1>4, <1>5

(* fg and bg: the job they name is not over, and is not over afterwards    *)
(* unless it leaves the table.                                             *)
LEMMA FgElects ==
  ASSUME IInv, EInv, ~FgFinished, builtin_fg \/ builtin_bg \/ fg_wait_result
  PROVE  Fair(table') /\ Pointed'
<1>1. Fair(table) /\ TableOK(table)
  BY DEF EInv, IInv, Good
<1>2. CASE builtin_fg \/ builtin_bg
  <2>1. PICK s \in Unfinished(table) :
          /\ table' = [table EXCEPT !.jobs[s].status = "running"]
          /\ pc' = "next" \/ (pc' = "fg" /\ target' = s)
    <3>1. \A s \in WithStatus(table, "stopped") : s \in Unfinished(table)
      BY DEF WithStatus, Unfinished, Finished, job_finished
    <3> QED BY <1>2, <3>1 DEF builtin_fg, builtin_bg
  <2>2. Fair(table') /\ s \in Unfinished(table')
    BY <1>1, <2>1, StatusFair
  <2>3. Pointed'
    BY <2>1, <2>2 DEF Pointed
  <2> QED BY <2>2, <2>3
<1>3. CASE fg_wait_result
  <2>1. pc = "fg" /\ pc' = "next"
    BY <1>3 DEF fg_wait_result
  <2>2. target \in Unfinished(table) /\ {target} \subseteq Occupied(table)
    BY <2>1 DEF EInv, Pointed, Unfinished
  <2>3. \/ table' = [table EXCEPT !.jobs[target].status = "stopped"]
        \/ table' = job_remove(table, {target})
    BY <1>3 DEF fg_wait_result
  <2>4. Fair(table')
    BY <1>1, <2>2, <2>3, StatusFair, RemoveFair
  <2> QED BY <2>1, <2>4, PointsNowhere
<1> QED BY <1>2, <1>3

-----------------------------------------------------------------------------
(* The theorem.                                                            *)

(* A session starts with an empty table.                                   *)
LEMMA InitElects == Init => EInv
<1> SUFFICES ASSUME Init PROVE EInv
  OBVIOUS
<1>1. table \in Table
  BY InitOK DEF Init, TableOK
<1>2. Unfinished(table) = {} /\ \A s \in Slots : Ended(table.jobs[s].raw)
  BY DEF Init, job_table_init, FreeSlot, NoStatus, Ended, Unfinished, Occupied
<1>3. Words
  BY DEF Init, Unborn, NoStatus, Ended, Words
<1>4. Pointed
  BY DEF Init, Pointed
<1> QED BY <1>1, <1>2, <1>3, <1>4 DEF EInv, Fair, Elected

(* Every step keeps the invariant.                                         *)
LEMMA NextElects == ASSUME IInv, EInv, ~FgFinished, [Next]_vars PROVE EInv'
<1>1. Words'
  BY WordsKept DEF EInv
<1>2. Fair(table') /\ Pointed'
  BY TableLeft, PollElects, ReapElects, ReportElects, AddElects, FgElects
     DEF Next, Internal, User, Command
<1> QED BY <1>1, <1>2 DEF EInv

(* While some job is alive, `%%` names a job: a removal never leaves the   *)
(* shell without a current job when job_reelect could have found one.      *)
THEOREM CurrentIsElected == ASSUME ~FgFinished PROVE Spec => []CurrentElected
<1>1. Init => IInv /\ EInv
  BY InitHolds, InitElects
<1>2. IInv /\ EInv /\ [Next]_vars => (IInv /\ EInv)'
  BY NextStep, NextElects
<1>3. EInv => CurrentElected
  BY DEF EInv, Fair, Elected, CurrentElected
<1> QED BY <1>1, <1>2, <1>3, PTL DEF Spec

-----------------------------------------------------------------------------
(***************************************************************************)
(* Leaving an interactive shell with stopped jobs, for any number of       *)
(* processes, slots and ring entries.  The first exit is refused over a    *)
(* job that is stopped, whether or not the shell had heard of it, because  *)
(* the guard polls first and the poll visits every job that is not over;   *)
(* a refusal is good for the turn it is given in and the next, because     *)
(* the warning ages by one prompt and only one.                            *)
(***************************************************************************)

-----------------------------------------------------------------------------
(* The inductive invariant.                                                *)

(* The guard is about to decide, or polls in order to.                     *)
Guards == {"guardEof", "guardExit"}
Guarding == pc \in Guards \/ (pc = "poll" /\ after \in Guards)

(* An exit was typed and has not been refused.                             *)
Leaving == \/ Guarding
           \/ pc \in {"off", "hangup", "gone"}
           \/ pc = "poll" /\ after = "hangup"

(* A warning is remembered for the turn it is given in and the next one.   *)
WarningAges == (attempt => turns = 0) /\ (warned => turns <= 1)

(* A process that is stopped has no continuation left to report.           *)
Halted == \A p \in Pids : proc[p].st = "stop" => proc[p].event # "cont"

(* What was stopped when the exit was typed has not run since.             *)
Still == \A p \in typed : proc[p].st \notin {"none", "run"}

(* The table says of a job that is still stopped that it is, or the poll   *)
(* has yet to hear it, at a slot it has not left behind.                   *)
Owned(s) ==
  table.jobs[s].pgid \in StillStopped =>
    \/ table.jobs[s].status = "stopped"
    \/ pc = "poll" /\ cursor <= s /\ proc[table.jobs[s].pgid].event = "stop"

XInv == /\ Halted
        /\ typed # {} => Leaving
        /\ Guarding => Still /\ \A s \in Slots : Owned(s)

-----------------------------------------------------------------------------
(* Asking twice.                                                           *)

(* The warning and its age are written by the prompt and the guard alone.  *)
LEMMA AskedKept == ASSUME HistoryOK, WarningAges, [Next]_vars PROVE WarningAges'
<1>1. CASE UNCHANGED <<attempt, warned, turns>>
  BY <1>1 DEF WarningAges
<1>2. CASE Prompt
  <2>1. warned' = attempt /\ attempt' = FALSE /\ (turns = 0 => turns' = 1)
    BY <1>2 DEF Prompt
  <2> QED BY <2>1 DEF WarningAges
<1>3. CASE exit_stopped_guard
  <2>1. turns' = 0 \/ UNCHANGED <<attempt, warned, turns>>
    BY <1>3 DEF exit_stopped_guard
  <2> QED BY <2>1 DEF WarningAges
<1>4. CASE Kernel
  BY <1>1, <1>4 DEF Kernel, Exit, Deliver, Stop, Continue
<1>5. CASE Internal /\ ~Prompt /\ ~exit_stopped_guard
  BY <1>1, <1>5 DEF Internal, PollSlot, job_notify, reap_background_children, RangeStart,
     job_notify_async, RangeEnd, BackgroundAdded, ForkStage, ExpandInParent,
     exe_res_set_status, PipelineDone, wait_one, reaped_job_status, wait_n, wait_drain,
     wait_in_order, ListJobs, fg_wait_result, hangup_every_job, AwaitHangup
<1>6. CASE User
  BY <1>1, <1>6 DEF User, Command, ReadLine, handle_eof, execute_range_background,
     execute_pipeline, builtin_wait, builtin_jobs, builtin_fg, builtin_bg,
     job_kill_group, builtin_exit
<1> QED BY <1>1, <1>2, <1>3, <1>4, <1>5, <1>6 DEF Next, vars

(* The shell leaves by an exit the user insists on, or by a guard that     *)
(* finds nothing stopped.                                                  *)
LEMMA LeavesHow ==
  ASSUME IInv, [Next]_vars, Leaves
  PROVE  \/ pc \in {"command", "line"} /\ (Interactive => warned)
         \/ pc \in Guards /\ WithStatus(table, "stopped") = {}
<1>1. pc \notin {"off", "hangup", "gone"} /\ pc' \in {"off", "gone"} /\ after \in Afters
  BY DEF Leaves, IInv, PlaceOK
<1>2. \A l \in Afters : ~PollThen(l)
  BY <1>1 DEF PollThen, Afters
<1>3. CASE builtin_exit \/ handle_eof
  BY <1>2, <1>3 DEF builtin_exit, handle_eof, Afters
<1>4. CASE exit_stopped_guard
  BY <1>1, <1>4 DEF exit_stopped_guard, Guards
<1>5. ~(UNCHANGED vars \/ Kernel)
  BY <1>1 DEF vars, Kernel, Exit, Deliver, Stop, Continue
<1>6. ~(Prompt \/ RangeStart \/ execute_range_background \/ execute_pipeline \/ builtin_jobs)
  BY <1>1, <1>2 DEF Prompt, RangeStart, execute_range_background, execute_pipeline,
     builtin_jobs, Afters
<1>7. ~(PollSlot \/ hangup_every_job \/ AwaitHangup)
  BY <1>1 DEF PollSlot, hangup_every_job, AwaitHangup, Afters
<1>8. ~(job_notify \/ reap_background_children \/ job_notify_async \/ RangeEnd
        \/ BackgroundAdded \/ ForkStage \/ ExpandInParent \/ exe_res_set_status
        \/ PipelineDone \/ wait_one \/ reaped_job_status \/ wait_n \/ ListJobs
        \/ fg_wait_result \/ ReadLine \/ builtin_fg \/ builtin_bg \/ job_kill_group
        \/ builtin_wait)
  BY <1>1 DEF job_notify, reap_background_children, job_notify_async, RangeEnd,
     BackgroundAdded, ForkStage, ExpandInParent, exe_res_set_status, PipelineDone,
     wait_one, reaped_job_status, wait_n, ListJobs, fg_wait_result, ReadLine,
     builtin_fg, builtin_bg, job_kill_group, builtin_wait
<1>9. ~(wait_drain \/ wait_in_order)
  BY <1>1 DEF wait_drain, wait_in_order, WaitAllEnd
<1> QED BY <1>3, <1>4, <1>5, <1>6, <1>7, <1>8, <1>9 DEF Next, Internal, User, Command

(* The exit guard asks twice in a row, whatever the user does in between   *)
(* (exit_stopped_guard, open_cycle).                                       *)
THEOREM AsksTwice == Spec => ExitAsksTwice
<1>1. Init => WarningAges
  BY DEF Init, WarningAges
<1>2. IInv /\ WarningAges /\ [Next]_vars => WarningAges'
  BY AskedKept DEF IInv
<1>3. IInv /\ WarningAges /\ [Next]_vars =>
        [Leaves /\ Interactive /\ WithStatus(table, "stopped") # {} => turns <= 1]_vars
  BY LeavesHow DEF WarningAges
<1>4. Spec => []IInv
  BY Inductive
<1> QED BY <1>1, <1>2, <1>3, <1>4, PTL DEF Spec, ExitAsksTwice

-----------------------------------------------------------------------------
(* What the guard knows.                                                   *)

(* A signal that stops a process leaves a stop to report.                  *)
LEMMA SignalHalts ==
  ASSUME NEW r \in Process, r.st = "stop" => r.event # "cont",
         NEW sig \in SignalNames
  PROVE  Signalled(r, sig).st = "stop" => Signalled(r, sig).event # "cont"
BY DEF Signalled, Process, ProcessStates, SignalNames

LEMMA HaltedKept == ASSUME IInv, Halted, [Next]_vars PROVE Halted'
<1> DEFINE Settled(r) == r.st = "stop" => r.event # "cont"
<1> SUFFICES ASSUME NEW p \in Pids PROVE Settled(proc'[p])
  BY DEF Halted
<1> DEFINE r == proc[p]
           q == proc'[p]
<1>1. r \in Process /\ Settled(r) /\ Turn(r, q)
  BY Typings, ProcessTurns DEF Halted
<1> SUFFICES Settled(q)
  OBVIOUS
<1> HIDE DEF r, q
<1>2. CASE q = Collected(r)
  <2>1. q.event = "none"
    BY <1>1, <1>2 DEF Collected, Process
  <2> QED BY <2>1
<1>3. CASE \E g : q = Forked(g)
  <2>1. q.st = "run"
    BY <1>3 DEF Forked
  <2> QED BY <2>1
<1>4. CASE \E w \in FinalWords : q = Dead(r, w)
  <2>1. q.st = "zombie"
    BY <1>1, <1>4 DEF Dead, Process
  <2> QED BY <2>1
<1>5. CASE \E sig \in SignalNames : q = Signalled(r, sig)
  BY <1>1, <1>5, SignalHalts
<1>6. CASE \E sig \in SignalNames, more \in SignalNames : q = Signalled(Signalled(r, sig), more)
  <2>1. PICK sig \in SignalNames, more \in SignalNames : q = Signalled(Signalled(r, sig), more)
    BY <1>6
  <2> DEFINE m == Signalled(r, sig)
  <2>2. m \in Process /\ Settled(m)
    BY <1>1, SignalHalts, SignalledType
  <2> HIDE DEF m
  <2>3. q = Signalled(m, more)
    BY <2>1 DEF m
  <2> QED BY <2>2, <2>3, SignalHalts
<1> QED BY <1>1, <1>2, <1>3, <1>4, <1>5, <1>6 DEF Turn

(* A job that is stopped is not over, and the table says that it is        *)
(* stopped unless the stop is still to be reported.                        *)
LEMMA StoppedEntry ==
  ASSUME IInv, TInv, NEW s \in Slots, table.jobs[s].pgid \in Pids,
         proc[table.jobs[s].pgid].st = "stop"
  PROVE  /\ s \in Unfinished(table)
         /\ proc[table.jobs[s].pgid].event = "none" => table.jobs[s].status = "stopped"
<1>1. table.jobs[s].pgid # 0
  BY DEF Pids
<1>2. JobTrue(table.jobs[s], proc[table.jobs[s].pgid])
  BY <1>1 DEF TInv, Truth, Entries, EntryTrue
<1> QED BY <1>1, <1>2 DEF JobTrue, Unfinished, Finished, Occupied

(* An exit that has not been refused leaves the shell on its way out.      *)
LEMMA LeavingKept ==
  ASSUME IInv, typed # {} => Leaving, [Next]_vars
  PROVE  typed' # {} => Leaving'
<1>1. after \in Afters
  BY DEF IInv, PlaceOK
<1>2. ASSUME NEW l \in Guards \cup {"hangup"}, PollThen(l) PROVE Leaving'
  BY <1>2 DEF PollThen, Leaving, Guarding, Guards
<1>3. CASE UNCHANGED vars \/ Kernel
  <2>1. UNCHANGED <<pc, after>> /\ (typed' # {} => typed # {})
    BY <1>3 DEF vars, Kernel, Exit, Deliver, Stop, Continue
  <2> QED BY <2>1 DEF Leaving, Guarding
<1>4. CASE builtin_exit \/ handle_eof
  <2>1. (\E l \in Guards : PollThen(l)) \/ pc' \in {"off", "gone"}
    BY <1>4 DEF builtin_exit, handle_eof, Guards
  <2> QED BY <1>2, <2>1 DEF Leaving
<1>5. CASE exit_stopped_guard
  <2>1. typed' = {} \/ pc' \in {"off", "gone"}
    BY <1>5 DEF exit_stopped_guard
  <2> QED BY <2>1 DEF Leaving
<1>6. CASE hangup_every_job \/ AwaitHangup
  <2>1. pc' \in {"hangup", "gone"} \/ PollThen("hangup")
    BY <1>6 DEF hangup_every_job, AwaitHangup
  <2> QED BY <1>2, <2>1 DEF Leaving
<1>7. CASE PollSlot
  <2>1. /\ pc = "poll" /\ typed' = typed
        /\ \/ pc' = after
           \/ pc' = "poll" /\ after' = after
    BY <1>7 DEF PollSlot
  <2>2. Leaving => after \in Guards \cup {"hangup"}
    BY <2>1 DEF Leaving, Guarding, Guards
  <2> QED BY <2>1, <2>2 DEF Leaving, Guarding, Guards
<1>8. CASE \/ Prompt \/ job_notify \/ reap_background_children \/ RangeStart
           \/ job_notify_async \/ RangeEnd \/ BackgroundAdded \/ ForkStage
           \/ ExpandInParent \/ exe_res_set_status \/ PipelineDone \/ wait_one
           \/ reaped_job_status \/ wait_n \/ wait_drain \/ wait_in_order \/ ListJobs
           \/ fg_wait_result
  <2>1. typed' = typed /\ ~Leaving
    BY <1>8 DEF Prompt, job_notify, reap_background_children, RangeStart, job_notify_async,
       RangeEnd, BackgroundAdded, ForkStage, ExpandInParent, exe_res_set_status,
       PipelineDone, wait_one, reaped_job_status, wait_n, wait_drain, wait_in_order,
       ListJobs, fg_wait_result, Leaving, Guarding, Guards
  <2> QED BY <2>1
<1>9. CASE \/ ReadLine \/ execute_range_background \/ execute_pipeline \/ builtin_wait
           \/ builtin_jobs \/ builtin_fg \/ builtin_bg \/ job_kill_group
  <2>1. typed' = typed /\ ~Leaving
    BY <1>9 DEF ReadLine, execute_range_background, execute_pipeline, builtin_wait,
       builtin_jobs, builtin_fg, builtin_bg, job_kill_group, Leaving, Guarding, Guards
  <2> QED BY <2>1
<1> QED BY <1>3, <1>4, <1>5, <1>6, <1>7, <1>8, <1>9 DEF Next, Internal, User, Command

(* The guard is on its way because it already was, or because an exit was  *)
(* typed in this very step.                                                *)
LEMMA GuardBegins ==
  ASSUME IInv, [Next]_vars, Guarding'
  PROVE  \/ Guarding /\ (UNCHANGED vars \/ Kernel \/ PollSlot)
         \/ /\ \E l \in Guards : PollThen(l)
            /\ typed' = StoppedNow /\ UNCHANGED <<proc, table>>
<1>1. after \in Afters
  BY DEF IInv, PlaceOK
<1>2. ASSUME NEW l, l \notin Guards \cup {"poll"}, PollThen(l) PROVE FALSE
  BY <1>2 DEF PollThen, Guarding, Guards
<1>3. CASE UNCHANGED vars \/ Kernel
  <2>1. UNCHANGED <<pc, after>>
    BY <1>3 DEF vars, Kernel, Exit, Deliver, Stop, Continue
  <2> QED BY <1>3, <2>1 DEF Guarding
<1>4. CASE PollSlot
  <2>1. pc = "poll" /\ (pc' = after \/ (pc' = "poll" /\ after' = after))
    BY <1>4 DEF PollSlot
  <2> QED BY <1>1, <1>4, <2>1 DEF Guarding, Guards, Afters
<1>5. CASE builtin_exit \/ handle_eof
  <2>1. \/ pc' \in {"off", "gone"}
        \/ \E l \in Guards : PollThen(l) /\ typed' = StoppedNow
    BY <1>5 DEF builtin_exit, handle_eof, Guards
  <2>2. UNCHANGED <<proc, table>>
    BY <1>5 DEF builtin_exit, handle_eof
  <2> QED BY <2>1, <2>2 DEF Guarding, Guards
<1>6. CASE \/ Prompt \/ RangeStart \/ AwaitHangup \/ execute_range_background
           \/ execute_pipeline \/ builtin_jobs
  <2>1. \/ pc' \notin Guards \cup {"poll"}
        \/ \E l \in {"notify", "announce", "hangup", "bgadd", "stage", "jobs", "next"} :
             PollThen(l)
    BY <1>6 DEF Prompt, RangeStart, AwaitHangup, execute_range_background,
       execute_pipeline, builtin_jobs, Guards
  <2> QED BY <1>2, <2>1 DEF Guarding, Guards
<1>7. CASE \/ job_notify \/ job_notify_async \/ RangeEnd \/ BackgroundAdded \/ ForkStage
           \/ PipelineDone \/ wait_one \/ reaped_job_status \/ wait_n \/ fg_wait_result
           \/ exit_stopped_guard \/ hangup_every_job \/ ReadLine \/ builtin_wait
           \/ builtin_fg \/ builtin_bg \/ job_kill_group
  <2>1. pc' \notin Guards \cup {"poll"}
    BY <1>7 DEF job_notify, job_notify_async, RangeEnd, BackgroundAdded, ForkStage,
       PipelineDone, wait_one, reaped_job_status, wait_n, fg_wait_result,
       exit_stopped_guard, hangup_every_job, ReadLine, builtin_wait, builtin_fg,
       builtin_bg, job_kill_group, Guards
  <2> QED BY <2>1 DEF Guarding
<1>8. CASE \/ reap_background_children \/ ExpandInParent \/ exe_res_set_status
           \/ wait_drain \/ wait_in_order \/ ListJobs
  <2>1. pc' \notin Guards \cup {"poll"}
    BY <1>8 DEF reap_background_children, ExpandInParent, exe_res_set_status,
       wait_drain, wait_in_order, ListJobs, WaitAllEnd, Guards
  <2> QED BY <2>1 DEF Guarding
<1> QED BY <1>3, <1>4, <1>5, <1>6, <1>7, <1>8 DEF Next, Internal, User, Command

-----------------------------------------------------------------------------
(* The guard's poll.                                                       *)

(* When an exit is typed the poll has every stopped job before it.         *)
LEMMA GuardStarts ==
  ASSUME IInv, TInv, Halted, NEW l \in Guards, PollThen(l), typed' = StoppedNow,
         UNCHANGED <<proc, table>>
  PROVE  Still' /\ \A s \in Slots : Owned(s)'
<1>1. Still'
  BY DEF Still, StoppedNow
<1>2. ASSUME NEW s \in Slots, table.jobs[s].pgid \in StoppedNow PROVE Owned(s)'
  <2> DEFINE g == table.jobs[s].pgid
  <2>1. g \in Pids /\ proc[g].st = "stop" /\ proc[g] \in Process
    BY <1>2, Typings DEF StoppedNow
  <2>2. s \in Unfinished(table) /\ (proc[g].event = "none" => table.jobs[s].status = "stopped")
    BY <2>1, StoppedEntry
  <2>3. pc' = "poll" /\ cursor' = Least(Unfinished(table)) /\ cursor' <= s
    <3>1. Unfinished(table) # {} /\ Unfinished(table) \subseteq Nat
      BY <2>2 DEF Unfinished, Occupied, Slots
    <3>2. Least(Unfinished(table)) <= s
      BY <2>2, <3>1, LeastIsLeast
    <3> QED BY <3>1, <3>2 DEF PollThen
  <2>4. proc[g].event \in {"none", "stop"}
    BY <2>1 DEF Halted, Process
  <2> QED BY <2>2, <2>3, <2>4 DEF Owned
<1>3. \A s \in Slots : table'.jobs[s].pgid \in StillStopped' => table.jobs[s].pgid \in StoppedNow
  BY DEF StillStopped
<1> QED BY <1>1, <1>2, <1>3 DEF Owned

(* Between two calls a stopped process stays, dies, or is no longer one of *)
(* those the exit is about.                                                *)
LEMMA KernelHonest ==
  ASSUME IInv, XInv, Guarding, Kernel
  PROVE  Still' /\ \A s \in Slots : Owned(s)'
<1>1. /\ UNCHANGED <<table, pc, cursor>> /\ typed' \subseteq typed
      /\ \A p \in typed' : proc'[p] = proc[p] \/ proc'[p].st = "zombie"
  <2>1. PICK p \in Pids : Exit(p) \/ Deliver(p) \/ Stop(p) \/ Continue(p)
    BY DEF Kernel
  <2>2. proc \in [Pids -> Process] /\ typed \subseteq Pids
    BY DEF IInv, KernelOK, HistoryOK
  <2>3. UNCHANGED <<table, pc, cursor>> /\ typed' \subseteq typed
    BY <2>1 DEF Exit, Deliver, Stop, Continue
  <2>4. \A q \in Pids : q # p => proc'[q] = proc[q]
    BY <2>1, <2>2 DEF Exit, Deliver, Stop, Continue
  <2>5. p \in typed' => proc'[p].st = "zombie"
    <3>1. \A w : Dead(proc[p], w).st = "zombie"
      BY <2>2 DEF Dead, Process
    <3>2. CASE Exit(p) \/ Deliver(p)
      BY <2>2, <3>1, <3>2 DEF Exit, Deliver
    <3>3. CASE Stop(p)
      <4>1. proc[p].st = "run" /\ typed' = typed
        BY <3>3 DEF Stop
      <4> QED BY <4>1 DEF XInv, Still
    <3>4. CASE Continue(p)
      BY <3>4 DEF Continue
    <3> QED BY <2>1, <3>2, <3>3, <3>4
  <2> QED BY <2>2, <2>3, <2>4, <2>5
<1>2. Still'
  BY <1>1 DEF XInv, Still
<1>3. ASSUME NEW s \in Slots PROVE Owned(s)'
  <2> SUFFICES ASSUME table'.jobs[s].pgid \in StillStopped'
               PROVE  \/ table'.jobs[s].status = "stopped"
                      \/ /\ pc' = "poll" /\ cursor' <= s
                         /\ proc'[table'.jobs[s].pgid].event = "stop"
    BY DEF Owned
  <2>1. table.jobs[s].pgid \in StillStopped
        /\ proc'[table.jobs[s].pgid] = proc[table.jobs[s].pgid]
    BY <1>1 DEF StillStopped
  <2>2. Owned(s)
    BY DEF XInv
  <2> QED BY <1>1, <2>1, <2>2 DEF Owned
<1> QED BY <1>2, <1>3

(* The poll hears of the job it is at, and leaves the others for later.    *)
LEMMA PollHonest ==
  ASSUME IInv, TInv, XInv, Guarding, PollSlot
  PROVE  Still' /\ \A s \in Slots : Owned(s)'
<1> DEFINE g == table.jobs[cursor].pgid
           member == Ready(Group(g), TRUE, TRUE)
           rest == {s \in Unfinished(table) : s > cursor}
<1>1. /\ pc = "poll" /\ cursor \in Unfinished(table) /\ cursor \in Slots
      /\ cursor \in Occupied(table) /\ typed' = typed
  BY DEF PollSlot, TInv, InHand, IInv, PlaceOK, Unfinished
<1>2. /\ g \in Pids /\ g # 0 /\ g \in Group(g) /\ \A q \in Group(g) : q = g
      /\ proc \in [Pids -> Process] /\ table \in Table /\ table.jobs[cursor] \in Job
      /\ typed \subseteq Pids
  BY <1>1, GroupIsLeader, Typings DEF IInv, HistoryOK
<1>3. \/ /\ UNCHANGED <<proc, table>>
         /\ proc[g].st = "stop" => proc[g].event # "stop"
      \/ /\ proc' = [proc EXCEPT ![g] = Collected(proc[g])]
         /\ \A s \in Slots : s # cursor => table'.jobs[s] = table.jobs[s]
         /\ table'.jobs[cursor].pgid = g
         /\ proc[g].st = "stop" => table'.jobs[cursor].status = "stopped"
  <2>1. CASE member = {}
    <3>1. UNCHANGED <<proc, table>> /\ g \notin member
      BY <2>1 DEF PollSlot
    <3> QED BY <1>2, <3>1 DEF Ready
  <2>2. CASE member # {}
    <3>1. PICK q \in member : Collect(q) /\ job_reap_record(cursor, WordOf(q))
      BY <2>2 DEF PollSlot
    <3>2. q = g /\ Reports(proc[g])
      BY <1>2 DEF Ready, Reports, Zombie
    <3>3. proc' = [proc EXCEPT ![g] = Collected(proc[g])]
      BY <1>2, <3>1, <3>2 DEF Collect, Zombie, Collected, Process
    <3>4. WordOf(g) \in StatusWord
      BY <1>2, <3>1, <3>2, CollectOK DEF IInv
    <3>5. Distinct(table)
      BY DEF TInv, Truth
    <3> DEFINE w == WordOf(g)
               h == g
    <3> HIDE DEF member, w, h
    <3>6. \A s \in Slots : s # cursor => table.jobs[s].pgid # g
      BY <1>1, <1>2, <3>5 DEF Distinct
    <3>7. Files(table, table', h, w)
      <4>1. h = g /\ w \in StatusWord /\ h # 0
        BY <1>2, <3>4 DEF h, w
      <4>2. CASE w.how \in {"stop", "cont"}
        <5>1. table' = job_record_exit(table, cursor, w)
          BY <3>1, <3>2, <4>2 DEF job_reap_record, w
        <5> QED BY <1>1, <1>2, <3>5, <4>1, <5>1, RecordFiles
      <4>3. CASE w.how \notin {"stop", "cont"}
        <5>1. table' = TableLearns(table, h, w)
          BY <3>1, <3>2, <4>3 DEF job_reap_record, bg_done_record, w, h
        <5> QED BY <1>2, <3>5, <4>1, <5>1, LearnsFiles
      <4> QED BY <4>2, <4>3
    <3>8. /\ \A s \in Slots : s # cursor => table'.jobs[s] = table.jobs[s]
          /\ table'.jobs[cursor] = Decoded(table.jobs[cursor], w)
      BY <1>1, <3>6, <3>7 DEF Files, h
    <3>9. table'.jobs[cursor].pgid = g
      BY <1>2, <3>8 DEF Decoded, Job
    <3>10. ASSUME proc[g].st = "stop" PROVE table'.jobs[cursor].status = "stopped"
      <4>1. proc[g].event = "stop"
        BY <3>2, <3>10 DEF Reports
      <4>2. w = StoppedWord
        BY <3>10, <4>1 DEF w, WordOf, Zombie
      <4>3. Decoded(table.jobs[cursor], w) = [table.jobs[cursor] EXCEPT !.status = "stopped"]
        BY <4>2 DEF StoppedWord, Decoded
      <4> QED BY <1>2, <3>8, <4>3 DEF Job
    <3> QED BY <3>3, <3>8, <3>9, <3>10
  <2> QED BY <2>1, <2>2
<1>4. /\ \A s \in Slots : s # cursor => table'.jobs[s] = table.jobs[s]
      /\ table'.jobs[cursor].pgid = g
      /\ \A p \in Pids : p # g => proc'[p] = proc[p]
      /\ proc'[g].st = proc[g].st \/ proc'[g].st = "reaped"
  <2>1. CASE UNCHANGED <<proc, table>>
    BY <2>1
  <2>2. CASE /\ proc' = [proc EXCEPT ![g] = Collected(proc[g])]
             /\ \A s \in Slots : s # cursor => table'.jobs[s] = table.jobs[s]
             /\ table'.jobs[cursor].pgid = g
    <3>1. /\ \A p \in Pids : p # g => proc'[p] = proc[p]
          /\ proc'[g] = Collected(proc[g]) /\ proc[g] \in Process
      BY <1>2, <2>2
    <3>2. Collected(proc[g]).st \in {proc[g].st, "reaped"}
      BY <3>1 DEF Collected, Process
    <3> QED BY <2>2, <3>1, <3>2
  <2> QED BY <1>3, <2>1, <2>2
<1>5. Still'
  BY <1>1, <1>2, <1>4 DEF XInv, Still
<1>6. ASSUME table'.jobs[cursor].pgid \in StillStopped'
      PROVE  table'.jobs[cursor].status = "stopped"
  <2>1. g \in typed /\ proc[g].st = "stop"
    BY <1>1, <1>4, <1>6 DEF StillStopped
  <2>2. CASE UNCHANGED <<proc, table>> /\ proc[g].event # "stop"
    <3>1. proc[g].event = "none"
      BY <1>2, <2>1, <2>2 DEF XInv, Halted, Process
    <3> QED BY <1>1, <1>2, <2>1, <2>2, <3>1, StoppedEntry
  <2> QED BY <1>3, <2>1, <2>2
<1>7. ASSUME NEW s \in Slots, s # cursor, table'.jobs[s].pgid \in StillStopped'
      PROVE  \/ table'.jobs[s].status = "stopped"
             \/ /\ pc' = "poll" /\ cursor' <= s
                /\ proc'[table'.jobs[s].pgid].event = "stop"
  <2> DEFINE e == table.jobs[s].pgid
  <2>1. table'.jobs[s] = table.jobs[s] /\ e \in Pids /\ e # 0 /\ e \in typed
    <3>1. table'.jobs[s] = table.jobs[s]
      BY <1>4, <1>7
    <3>2. e \in typed
      BY <1>1, <1>7, <3>1 DEF StillStopped
    <3>3. 0 \notin Pids
      BY DEF Pids
    <3> QED BY <1>2, <3>1, <3>2, <3>3
  <2>2. e # g
    BY <1>1, <1>7, <2>1 DEF TInv, Truth, Distinct
  <2>3. proc'[e] = proc[e] /\ proc[e].st = "stop"
    BY <1>4, <1>7, <2>1, <2>2 DEF StillStopped
  <2>4. Owned(s) /\ e \in StillStopped
    BY <2>1, <2>3 DEF XInv, StillStopped
  <2>5. CASE table.jobs[s].status = "stopped"
    BY <2>1, <2>5
  <2>6. CASE cursor <= s /\ proc[e].event = "stop"
    <3>1. s \in rest
      <4>1. s \in Unfinished(table)
        BY <2>1, <2>3, StoppedEntry
      <4> QED BY <1>1, <1>7, <2>6, <4>1 DEF Slots
    <3>2. pc' = "poll" /\ cursor' = Least(rest)
      BY <1>1, <3>1 DEF PollSlot
    <3>3. Least(rest) <= s
      <4>1. rest \subseteq Nat
        BY DEF Unfinished, Occupied, Slots
      <4> HIDE DEF rest
      <4> QED BY <3>1, <4>1, LeastIsLeast
    <3> QED BY <2>1, <2>3, <2>6, <3>2, <3>3
  <2> QED BY <2>4, <2>5, <2>6 DEF Owned
<1> QED BY <1>5, <1>6, <1>7 DEF Owned

-----------------------------------------------------------------------------
(* The theorems.                                                           *)

LEMMA InitLeaving == Init => XInv
BY DEF Init, Unborn, XInv, Halted, Guarding, Guards, Leaving

(* Every step keeps what the guard knows.                                  *)
LEMMA NextHonest == ASSUME IInv, TInv, XInv, [Next]_vars PROVE XInv'
<1>1. Halted' /\ (typed' # {} => Leaving')
  BY HaltedKept, LeavingKept DEF XInv
<1>2. ASSUME Guarding' PROVE Still' /\ \A s \in Slots : Owned(s)'
  <2>1. CASE Guarding /\ UNCHANGED vars
    BY <2>1 DEF XInv, Still, Owned, StillStopped, vars
  <2>2. CASE Guarding /\ Kernel
    BY <2>2, KernelHonest
  <2>3. CASE Guarding /\ PollSlot
    BY <2>3, PollHonest
  <2>4. CASE /\ \E l \in Guards : PollThen(l)
             /\ typed' = StoppedNow /\ UNCHANGED <<proc, table>>
    BY <2>4, GuardStarts DEF XInv
  <2> QED BY <1>2, <2>1, <2>2, <2>3, <2>4, GuardBegins
<1> QED BY <1>1, <1>2 DEF XInv

(* A shell that leaves has nothing stopped that was stopped when the exit  *)
(* was typed.                                                              *)
LEMMA LeavesNothing ==
  ASSUME IInv, XInv, [Next]_vars, Leaves, NEW s \in Occupied(table)
  PROVE  table.jobs[s].pgid \notin StillStopped
<1>1. CASE pc \in {"command", "line"}
  BY <1>1 DEF XInv, Leaving, Guarding, Guards, StillStopped
<1>2. CASE pc \in Guards /\ WithStatus(table, "stopped") = {}
  <2>1. Owned(s) /\ s \in Slots
    BY <1>2 DEF XInv, Guarding, Occupied
  <2>2. table.jobs[s].status # "stopped"
    BY <1>2 DEF WithStatus
  <2> QED BY <1>2, <2>1, <2>2 DEF Owned, Guards
<1> QED BY <1>1, <1>2, LeavesHow

(* A job that was stopped when the exit was typed, and has been stopped    *)
(* ever since, is never left behind without a word, however many jobs the  *)
(* poll has to go round (exit_stopped_guard, job_update_status).           *)
THEOREM GuardIsHonest == ASSUME Plain PROVE Spec => GuardHonest
<1>1. Init => XInv
  BY InitLeaving
<1>2. IInv /\ TInv /\ XInv /\ [Next]_vars => XInv'
  BY NextHonest
<1>3. IInv /\ TInv /\ XInv /\ [Next]_vars =>
        [Leaves => \A s \in Occupied(table) : table.jobs[s].pgid \notin StillStopped]_vars
  BY LeavesNothing
<1>4. Spec => [](IInv /\ TInv)
  BY Truthful
<1> QED BY <1>1, <1>2, <1>3, <1>4, PTL DEF Spec, GuardHonest

(* Both: an interactive shell leaves over a job it knows to be stopped     *)
(* only right after it refused to, and over one that was stopped when the  *)
(* exit was typed never without a word, whatever the user's speed; Plain   *)
(* rules out pipelines whose stages stop apart (exit_jobs.c, input.c).     *)
THEOREM ExitIsHonest == ASSUME Plain PROVE Spec => ExitHonest
BY AsksTwice, GuardIsHonest DEF ExitHonest
=============================================================================
