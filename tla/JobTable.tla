------------------------------ MODULE JobTable ------------------------------
(***************************************************************************)
(* The job table of the shell (src/src/job_control/): a fixed array of     *)
(* slots, the '+' and '-' markers, and the functions that are the only     *)
(* ways it changes.  Every operator takes a table and returns a table, so  *)
(* that modules which drive it (JobControl) say what happens when, and     *)
(* this one says what happens.                                             *)
(*                                                                         *)
(* A slot with pgid = 0 is free, as in the code; a removed slot is zeroed. *)
(* NoJob (-1) is the "no such job" value of the markers.  The command text *)
(* and the `bg` flag are for display only and left out; so is the raw word *)
(* of a stop or a continue, which nothing reads.                           *)
(***************************************************************************)
EXTENDS Integers, FiniteSets

CONSTANT JobMax      \* JOB_MAX, the number of slots (256 in the code)

ASSUME JobMaxAssumption == JobMax \in Nat \ {0}

Slots == 1 .. JobMax
NoJob == -1

-----------------------------------------------------------------------------
(* waitpid status words, reduced to what the W* macros tell apart.         *)

NoStatus == [how |-> "none", n |-> 0]
Exited(n) == [how |-> "exit", n |-> n]
Signaled(n) == [how |-> "sig", n |-> n]
StoppedWord == [how |-> "stop", n |-> 0]
ContinuedWord == [how |-> "cont", n |-> 0]

CodeOf_no128(w) == w.n      \* mutant: a signal's number as it is
(* What `$?` shows for a status word: 128+signal for a death by signal.    *)
CodeOf(w) == IF w.how = "sig" THEN 128 + w.n ELSE w.n

StatusWord == [how : {"none", "exit", "sig", "stop", "cont"}, n : Nat]
JobStatus == {"running", "stopped", "done", "killed"}
Job == [id : Nat, pgid : Nat, status : JobStatus, code : Nat,
        raw : StatusWord, notified : BOOLEAN]

FreeSlot == [id |-> 0, pgid |-> 0, status |-> "running", code |-> 0,
             raw |-> NoStatus, notified |-> FALSE]

Table == [jobs : [Slots -> Job], count : Int,
          current : Int, previous : Int]

job_table_init == [jobs |-> [s \in Slots |-> FreeSlot], count |-> 0,
                   current |-> NoJob, previous |-> NoJob]

-----------------------------------------------------------------------------
(* Searching.                                                              *)

Least(S) == CHOOSE x \in S : \A y \in S : x <= y
Greatest(S) == CHOOSE x \in S : \A y \in S : y <= x

Occupied(T) == {s \in Slots : T.jobs[s].pgid # 0}
IdsOf(T, S) == {T.jobs[s].id : s \in S}
Ids(T) == IdsOf(T, Occupied(T))

job_finished(j) == j.status \in {"done", "killed"}

Finished(T) == {s \in Occupied(T) : job_finished(T.jobs[s])}
Unfinished(T) == Occupied(T) \ Finished(T)
WithStatus(T, st) == {s \in Occupied(T) : T.jobs[s].status = st}

(* The slots a search by group matches; the search returns the first.      *)
job_find_pgid(T, g) == {s \in Slots : T.jobs[s].pgid = g}
job_find_id(T, id) == {s \in Occupied(T) : T.jobs[s].id = id}

job_next_id_count(T) == T.count + 1      \* mutant: numbers by count
job_next_id(T) == Greatest(Ids(T) \cup {0}) + 1

(* Mutant: a stopped job is not considered.                                *)
job_live_id_running(T, except) ==
  LET cand == IdsOf(T, WithStatus(T, "running")) \ {except}
  IN  IF cand = {} THEN NoJob ELSE Greatest(cand)

(* The newest stopped job, else the newest running one, else NoJob.        *)
job_live_id(T, except) ==
  LET cand(st) == IdsOf(T, WithStatus(T, st)) \ {except}
  IN  IF cand("stopped") # {} THEN Greatest(cand("stopped"))
      ELSE IF cand("running") # {} THEN Greatest(cand("running"))
      ELSE NoJob

(* The slot of the lowest-numbered job among S: job_next_after's order.    *)
ByNumber(T, S) == CHOOSE s \in S : \A t \in S : T.jobs[s].id <= T.jobs[t].id

-----------------------------------------------------------------------------
(* Changing the table.                                                     *)

(* A new job takes the first free slot, the next number and '+'; with no   *)
(* free slot nothing is recorded.                                          *)
job_add(T, pgid) ==
  LET free == Slots \ Occupied(T)
      id   == job_next_id(T)
      new  == [T.jobs EXCEPT ![Least(free)] =
                 [FreeSlot EXCEPT !.id = id, !.pgid = pgid]]
  IN  IF free = {} THEN T
      ELSE [jobs |-> new, count |-> T.count + 1, current |-> id,
            previous |-> job_live_id([T EXCEPT !.jobs = new], id)]

(* Mutant: a continued job keeps its status.                               *)
Decoded_no_continue(j, w) ==
  CASE w.how = "stop" -> [j EXCEPT !.status = "stopped"]
    [] w.how = "exit" -> [j EXCEPT !.status = "done", !.code = CodeOf(w), !.raw = w]
    [] w.how = "sig"  -> [j EXCEPT !.status = "killed", !.code = CodeOf(w), !.raw = w]
    [] OTHER          -> j

(* One status word decoded into one job.                                   *)
Decoded(j, w) ==
  CASE w.how = "stop" -> [j EXCEPT !.status = "stopped"]
    [] w.how = "cont" -> [j EXCEPT !.status = "running"]
    [] w.how = "exit" -> [j EXCEPT !.status = "done", !.code = CodeOf(w), !.raw = w]
    [] w.how = "sig"  -> [j EXCEPT !.status = "killed", !.code = CodeOf(w), !.raw = w]
    [] OTHER          -> j

job_record_exit(T, s, w) == [T EXCEPT !.jobs[s] = Decoded(@, w)]

job_reelect_never(T, gone) == T      \* mutant: the markers are left as they are

(* Re-election of '+' and '-' once the jobs numbered `gone` have left.     *)
(* The code removes jobs one at a time and re-elects after each; removing  *)
(* several finished jobs that way ends in the same table (RemovalsAgree).  *)
job_reelect(T, gone) ==
  LET cur == job_find_id(T, T.current)
      keep == /\ T.current \notin gone
              /\ cur # {}
              /\ \A s \in cur : T.jobs[s].status = "stopped"
      plus == IF keep THEN T.current ELSE job_live_id(T, NoJob)
      minus == IF plus < 0 THEN NoJob
               ELSE IF T.previous \notin Ids(T) \/ T.previous = plus
                    THEN job_live_id(T, plus)
               ELSE T.previous
  IN  IF {T.current, T.previous} \cap gone = {} THEN T
      ELSE [T EXCEPT !.current = plus, !.previous = minus]

(* Zero the slots S (all occupied) and hand the markers on.                *)
job_remove(T, S) ==
  job_reelect([T EXCEPT !.jobs = [s \in Slots |-> IF s \in S THEN FreeSlot
                                                  ELSE T.jobs[s]],
                        !.count = @ - Cardinality(S)],
              IdsOf(T, S))

job_purge_done(T) == job_remove(T, Finished(T))

job_purge_reported(T) ==
  job_remove(T, {s \in Finished(T) : T.jobs[s].notified})

(* Mark the jobs in the slots S as reported.                               *)
Notified(T, S) ==
  [T EXCEPT !.jobs = [s \in Slots |-> IF s \in S
                                      THEN [T.jobs[s] EXCEPT !.notified = TRUE]
                                      ELSE T.jobs[s]]]

job_mark_reported_except(T, keep) ==
  Notified(T, {s \in Finished(T) : T.jobs[s].pgid # keep})

-----------------------------------------------------------------------------
(* What a well-formed table is: the invariant every operator keeps.        *)

NumbersUnique(T) ==
  /\ \A s \in Occupied(T) : T.jobs[s].id > 0
  /\ \A s, t \in Occupied(T) : T.jobs[s].id = T.jobs[t].id => s = t

CountExact(T) == T.count = Cardinality(Occupied(T))

(* Each marker names a job of the table or none, the two never the same    *)
(* one, and there is no '-' without a '+'.                                 *)
MarkersNameJobs(T) ==
  /\ T.current \in Ids(T) \cup {NoJob}
  /\ T.previous \in Ids(T) \cup {NoJob}
  /\ T.current = T.previous => T.current = NoJob
  /\ T.current = NoJob => T.previous = NoJob

-----------------------------------------------------------------------------
(***************************************************************************)
(* The same table as the code walks it: every function of src/job_control  *)
(* is a loop over the slots, with a running best or a removal and a fresh  *)
(* election in the loop body.  The definitions above say the same in one   *)
(* expression each; SearchesAgree and RemovalsAgree compare the two.       *)
(***************************************************************************)

(* for (i = 0; i < JOB_MAX; i++) acc = body(acc, i)                        *)
For(start, Body(_, _)) ==
  LET acc[i \in 0 .. JobMax] == IF i = 0 THEN start ELSE Body(acc[i - 1], i)
  IN  acc[JobMax]

-----------------------------------------------------------------------------
(* Searching loops.                                                        *)

next_id_loop(T) ==
  LET body(hi, s) == IF T.jobs[s].pgid # 0 /\ T.jobs[s].id > hi
                     THEN T.jobs[s].id ELSE hi
  IN  For(0, body) + 1

(* One pass of job_live_id's outer loop.                                   *)
best_loop(T, want, except) ==
  LET body(best, s) == IF /\ T.jobs[s].pgid # 0 /\ T.jobs[s].id # except
                          /\ T.jobs[s].id > best /\ T.jobs[s].status = want
                       THEN T.jobs[s].id ELSE best
  IN  For(-1, body)

live_id_loop(T, except) ==
  IF best_loop(T, "stopped", except) >= 0 THEN best_loop(T, "stopped", except)
  ELSE best_loop(T, "running", except)

(* job_next_after: the smallest number above `id`, 0 for none.             *)
next_after_loop(T, id) ==
  LET body(best, s) == IF /\ T.jobs[s].pgid # 0 /\ T.jobs[s].id > id
                          /\ best = 0 \/ T.jobs[s].id < best
                       THEN T.jobs[s].id ELSE best
  IN  For(0, body)

(* The numbers in the order a listing (`jobs`) prints them.                *)
listing(T) ==
  LET after[k \in 0 .. JobMax] ==
        IF k = 0 THEN 0
        ELSE IF k > 1 /\ after[k - 1] = 0 THEN 0
        ELSE next_after_loop(T, after[k - 1])
  IN  {after[k] : k \in 1 .. JobMax} \ {0}

(* job_first_unfinished: walk the numbers upwards to a job still alive.    *)
first_unfinished_loop(T) ==
  LET walk[k \in 0 .. JobMax] ==
        IF k = 0 THEN next_after_loop(T, 0)
        ELSE IF walk[k - 1] = 0 THEN 0
        ELSE IF job_find_id(T, walk[k - 1]) \cap Unfinished(T) # {} THEN walk[k - 1]
        ELSE next_after_loop(T, walk[k - 1])
  IN  walk[JobMax]

-----------------------------------------------------------------------------
(* Changing loops: removal of one number at a time, electing after each.   *)

reelect_after(T, gone) ==
  LET stays == T.current # gone
               /\ \E s \in job_find_id(T, T.current) : T.jobs[s].status = "stopped"
      U == IF stays THEN T ELSE [T EXCEPT !.current = live_id_loop(T, -1)]
  IN  IF T.current # gone /\ T.previous # gone THEN T
      ELSE IF U.current < 0 THEN [U EXCEPT !.previous = -1]
      ELSE IF job_find_id(U, U.previous) = {} \/ U.previous = U.current
           THEN [U EXCEPT !.previous = live_id_loop(U, U.current)]
      ELSE U

(* job_remove(jt, id): the first slot holding the number.                  *)
remove_one(T, id) ==
  LET s == Least(job_find_id(T, id))
  IN  reelect_after([T EXCEPT !.jobs[s] = FreeSlot, !.count = @ - 1], id)

purge_loop(T, reportedOnly) ==
  LET body(U, s) == IF U.jobs[s].pgid # 0 /\ job_finished(U.jobs[s])
                       /\ (reportedOnly => U.jobs[s].notified)
                    THEN remove_one(U, U.jobs[s].id) ELSE U
  IN  For(T, body)

-----------------------------------------------------------------------------
(* The searches of the code find what JobTable says they find, and the     *)
(* listing goes through every job of the table.                            *)
SearchesAgree(T) ==
  /\ next_id_loop(T) = job_next_id(T)
  /\ \A except \in Ids(T) \cup {NoJob} :
       live_id_loop(T, except) = job_live_id(T, except)
  /\ listing(T) = Ids(T)
  /\ Unfinished(T) = {} => first_unfinished_loop(T) = 0
  /\ Unfinished(T) # {} =>
       first_unfinished_loop(T) = T.jobs[ByNumber(T, Unfinished(T))].id

(* Removing one job, or retiring many with an election after each removal, *)
(* ends in the table JobTable gives at once, markers included: no order of *)
(* removals lets '+' or '-' come to rest on a job that is going too.       *)
RemovalsAgree(T) ==
  /\ \A s \in Occupied(T) : remove_one(T, T.jobs[s].id) = job_remove(T, {s})
  /\ purge_loop(T, FALSE) = job_purge_done(T)
  /\ purge_loop(T, TRUE) = job_purge_reported(T)
=============================================================================
