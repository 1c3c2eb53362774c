------------------------------ MODULE VarScope ------------------------------
(***************************************************************************)
(* Variables and their scopes.  The shell keeps ONE flat table of records  *)
(* (src/src/environment); a scope is nothing but a list of what to put     *)
(* back: `local` pushes the old record on local_saves, and an assignment   *)
(* in front of a command keeps the old record in the command's own frame.  *)
(* Arrays and the attributes of declare -i and -n are left out.            *)
(* An interactive shell: an error is reported and the shell goes on.       *)
(***************************************************************************)
EXTENDS Naturals, Sequences, FiniteSets, SequencesExt

CONSTANTS
  Names,        \* variable names
  Values,       \* their values
  Empty,        \* the empty string, one of Values
  NoValue,      \* a record without a value: `export X` before X=1
  Lists,        \* the NAME=value lists of the commands that have no word
  PreAssigns,     \* the lists in front of a command word
  ReadonlyNames,  \* the names `readonly` is used on
  ExportNames,    \* the names `export` is used on
  AllExport,    \* set -a
  Unusual,      \* uses of the scopes to include: see the guards
  MaxDepth, MaxSaves       \* bounds on calls in progress and on local_saves

ASSUME VarScopeAssumption ==
  /\ Empty \in Values /\ NoValue \notin Values
  /\ ReadonlyNames \cup ExportNames \subseteq Names
  /\ Lists \cup PreAssigns \subseteq Seq([key : Names, rhs : Names \cup Values])
  /\ AllExport \in BOOLEAN /\ MaxDepth \in Nat

VARIABLES
  env,            \* name -> record of the environment table
  readonly_vars,  \* the names readonly has listed
  local_saves,    \* what to put back, oldest first
  calls           \* for each function call in progress, the saves of its prefix

vars == <<env, readonly_vars, local_saves, calls>>

func_depth == Len(calls)

Absent == [there |-> FALSE, value |-> NoValue, exported |-> FALSE]
env_create(v, x) == [there |-> TRUE, value |-> v, exported |-> x]
Record == {Absent} \cup [there : {TRUE}, value : Values \cup {NoValue}, exported : BOOLEAN]

Save == [depth : Nat, key : Names, existed : BOOLEAN, value : Values \cup {NoValue}]

(* The store one command works on.                                         *)
Store == [env |-> env, saves |-> local_saves]

-----------------------------------------------------------------------------
(* The table.                                                              *)

(* Mutant: a write brings its own export attribute.                        *)
env_set_overwriting(M, n, v, x) == [M EXCEPT !.env[n] = env_create(v, x)]

(* The export attribute is sticky.                                         *)
env_set(M, n, v, x) ==
  [M EXCEPT !.env[n] = env_create(v, @.exported \/ x)]

(* Mutant: the record goes, its fields stay.                               *)
unset_raw_keeping(M, n) == [M EXCEPT !.env[n].there = FALSE]

unset_raw(M, n) == [M EXCEPT !.env[n] = Absent]

(* What a child process is given.                                          *)
get_envp(E) == {n \in Names : E[n].exported /\ E[n].value # NoValue}

-----------------------------------------------------------------------------
(* Saving and restoring one name.                                          *)

scope_save_capture(M, n, depth) ==
  [depth |-> depth, key |-> n, existed |-> M.env[n].there, value |-> M.env[n].value]

scope_save(M, n) ==
  [M EXCEPT !.saves = Append(@, scope_save_capture(M, n, func_depth))]

(* A save of a record without a value puts the empty string back.          *)
restore_one(M, s) ==
  IF s.existed THEN env_set(M, s.key, IF s.value = NoValue THEN Empty ELSE s.value, FALSE)
  ELSE unset_raw(M, s.key)

(* Mutant: one save only.                                                  *)
scope_leave_once(M) ==
  LET mine == M.saves # <<>> /\ Last(M.saves).depth = func_depth
  IN  IF mine THEN [restore_one(M, Last(M.saves)) EXCEPT !.saves = Front(@)] ELSE M

(* Everything the call that returns saved, newest first.                   *)
scope_leave(M) ==
  LET mine == {i \in DOMAIN M.saves :
                 \A j \in i .. Len(M.saves) : M.saves[j].depth = func_depth}
      kept == Len(M.saves) - Cardinality(mine)
      back == FoldRight(LAMBDA s, m : restore_one(m, s),
                        SubSeq(M.saves, kept + 1, Len(M.saves)), M)
  IN  [back EXCEPT !.saves = SubSeq(M.saves, 1, kept)]

-----------------------------------------------------------------------------
(* NAME=value words in front of a command, or alone.                       *)

(* pre: staged assignments.  Each is applied over the one before, and the  *)
(* old records are kept in that order.                                     *)
apply_temp_assigns(M, pre) ==
  FoldLeft(LAMBDA acc, a :
             [store |-> env_set(acc.store, a.key, a.value, FALSE),
              saved |-> Append(acc.saved, scope_save_capture(acc.store, a.key, 0))],
           [store |-> M, saved |-> <<>>], pre)

restore_temp_assigns(M, saved) == FoldRight(LAMBDA s, m : restore_one(m, s), saved, M)

(* NAME=rhs with rhs a value or the name of the variable it reads.         *)
assignment_to_env(M, a) ==
  [key   |-> a.key,
   value |-> IF a.rhs \notin Names THEN a.rhs
             ELSE IF M.env[a.rhs].value = NoValue THEN Empty
             ELSE M.env[a.rhs].value]

(* Mutant: every right-hand side sees the store of before the command.     *)
expand_assignments_apart(M, list) ==
  [store |-> M, pre |-> [i \in DOMAIN list |-> assignment_to_env(M, list[i])]]

(* Staging a list: a right-hand side sees the assignments before it, which *)
(* are put in place around its expansion and taken back.                   *)
expand_assignments(M, list) ==
  FoldLeft(LAMBDA acc, a :
             LET placed == apply_temp_assigns(acc.store, acc.pre)
             IN  [store |-> restore_temp_assigns(placed.store, placed.saved),
                  pre   |-> Append(acc.pre, assignment_to_env(placed.store, a))],
           [store |-> M, pre |-> <<>>], list)

(* A command of assignments only: the list is popped, so from its end.     *)
apply_pre_assigns(M, pre) ==
  FoldRight(LAMBDA a, m : IF a.key \in readonly_vars THEN m
                          ELSE env_set(m, a.key, a.value, AllExport),
            pre, M)

-----------------------------------------------------------------------------
(* The builtins that change the table.                                     *)

local_already(M, n) == \E i \in DOMAIN M.saves :
                          M.saves[i].depth = func_depth /\ M.saves[i].key = n

local_name(M, n) == IF local_already(M, n) THEN M
                    ELSE env_set(scope_save(M, n), n, Empty, FALSE)
local_value(M, n, v) == env_set(scope_save(M, n), n, v, AllExport)

export_name_only(M, n) ==
  IF M.env[n].there THEN [M EXCEPT !.env[n].exported = TRUE]
  ELSE env_set(M, n, NoValue, TRUE)
export_value(M, n, v) == env_set(M, n, v, TRUE)
env_unexport(M, n) == [M EXCEPT !.env[n].exported = FALSE]

(* Mutant: the own local of a function is popped too.                      *)
UpvarSaveOwn(M, n) == SelectLastInSeq(M.saves, LAMBDA s : s.key = n)

(* The newest save of n, if it belongs to a caller of the current function. *)
UpvarSave(M, n) ==
  LET newest == SelectLastInSeq(M.saves, LAMBDA s : s.key = n)
  IN  IF newest > 0 /\ M.saves[newest].depth < func_depth THEN newest ELSE 0

scope_pop_upvar(M, n) ==
  LET i == UpvarSave(M, n)
      back == restore_one(M, M.saves[i])
  IN  [back EXCEPT !.saves = RemoveAt(@, i)]

try_unset(M, n) ==
  IF n \in readonly_vars THEN M
  ELSE IF UpvarSave(M, n) # 0 THEN scope_pop_upvar(M, n)
  ELSE unset_raw(M, n)

-----------------------------------------------------------------------------
(* Uses that the scopes of this table do not survive, on demand.           *)

With(use, case) == case => use \in Unusual

Valueless(M, n) == M.env[n].there /\ M.env[n].value = NoValue
Keys(list) == {list[i].key : i \in DOMAIN list}
Covers(saved, n) == \E i \in DOMAIN saved : saved[i].key = n

(* A list that assigns one name twice; a name without a value that is      *)
(* saved; `unset` of a caller's local that was declared twice, or that an  *)
(* assignment in front of a later command hides; `x=1 local x`.            *)
UsualList(staged) ==
  /\ With("repeated", Cardinality(Keys(staged.pre)) < Len(staged.pre))
  /\ With("valueless", \E n \in Keys(staged.pre) : Valueless(Store, n))

UsualLocal(n, prefix) ==
  /\ With("valueless", Valueless(Store, n))
  /\ With("local_prefix", n \in Keys(prefix))

UsualUnset(n, prefix) ==
  LET i == UpvarSave(Store, n)
  IN  i # 0 =>
      /\ With("redeclared", \E j \in 1 .. i - 1 : local_saves[j].key = n
                              /\ local_saves[j].depth = local_saves[i].depth)
      /\ With("under_prefix", n \in Keys(prefix)
                \/ \E k \in local_saves[i].depth + 1 .. func_depth : Covers(calls[k], n))

-----------------------------------------------------------------------------
(* Commands.                                                               *)

Becomes(M) == /\ Len(M.saves) <= MaxSaves
              /\ env' = M.env /\ local_saves' = M.saves

Assigned(list) ==
  LET staged == expand_assignments(Store, list)
  IN  apply_pre_assigns(staged.store, staged.pre)

handle_assign_only(list) ==
  /\ UsualList(expand_assignments(Store, list))
  /\ Becomes(Assigned(list))
  /\ UNCHANGED <<readonly_vars, calls>>

(* The store with the prefix of a command in place, and what it saved.     *)
Prefixed(prefix) == LET staged == expand_assignments(Store, prefix)
                    IN  apply_temp_assigns(staged.store, staged.pre)

handle_func_call(prefix) ==
  /\ func_depth < MaxDepth
  /\ UsualList(expand_assignments(Store, prefix))
  /\ Becomes(Prefixed(prefix).store)
  /\ calls' = Append(calls, Prefixed(prefix).saved)
  /\ UNCHANGED readonly_vars

Return ==
  /\ func_depth > 0
  /\ Becomes(restore_temp_assigns(scope_leave(Store), Last(calls)))
  /\ calls' = Front(calls)
  /\ UNCHANGED readonly_vars

(* A builtin runs with its prefix in place and leaves the store `after`:   *)
(* then the prefix is taken back.                                          *)
execute_builtin(prefix, after) ==
  /\ UsualList(expand_assignments(Store, prefix))
  /\ Becomes(restore_temp_assigns(after, Prefixed(prefix).saved))
  /\ UNCHANGED calls

builtin_local(prefix, n) ==
  LET M == Prefixed(prefix).store
  IN  /\ func_depth > 0
      /\ UsualLocal(n, prefix)
      /\ \/ execute_builtin(prefix, local_name(M, n))
         \/ \E v \in Values : execute_builtin(prefix, local_value(M, n, v))
      /\ UNCHANGED readonly_vars

builtin_export(prefix, n) ==
  LET M == Prefixed(prefix).store
  IN  /\ \/ execute_builtin(prefix, export_name_only(M, n))
         \/ \E v \in Values : execute_builtin(prefix, export_value(M, n, v))
         \/ execute_builtin(prefix, env_unexport(M, n))
         \/ \E v \in Values :
              execute_builtin(prefix, env_unexport(env_set(M, n, v, FALSE), n))
      /\ UNCHANGED readonly_vars

builtin_unset(prefix, n) ==
  /\ UsualUnset(n, prefix)
  /\ execute_builtin(prefix, try_unset(Prefixed(prefix).store, n))
  /\ UNCHANGED readonly_vars

(* A new value for a name that is read-only already is refused.            *)
builtin_readonly(prefix, n) ==
  LET M == Prefixed(prefix).store
  IN  /\ \/ execute_builtin(prefix, M)
         \/ \E v \in Values :
              execute_builtin(prefix, IF n \in readonly_vars THEN M
                                      ELSE env_set(M, n, v, FALSE))
      /\ readonly_vars' = readonly_vars \cup {n}

Init == /\ env = [n \in Names |-> Absent]
        /\ readonly_vars = {}
        /\ local_saves = <<>> /\ calls = <<>>

Builtin(prefix) ==
  \/ \E n \in Names : builtin_local(prefix, n) \/ builtin_unset(prefix, n)
  \/ \E n \in ExportNames : builtin_export(prefix, n)
  \/ \E n \in ReadonlyNames : builtin_readonly(prefix, n)

Next == \/ \E list \in Lists : handle_assign_only(list)
        \/ \E prefix \in PreAssigns : handle_func_call(prefix) \/ Builtin(prefix)
        \/ Return

Spec == Init /\ [][Next]_vars

-----------------------------------------------------------------------------
(* Types.                                                                  *)
TypeOK ==
  /\ env \in [Names -> Record]
  /\ readonly_vars \subseteq Names
  /\ local_saves \in Seq(Save) /\ calls \in Seq(Seq(Save))

(* local_saves is stacked: scope_leave stops at the first save that is not *)
(* of the returning call, so a save of a callee under one of its caller    *)
(* would never be put back.                                                *)
ScopesLayered ==
  /\ \A i \in DOMAIN local_saves : local_saves[i].depth \in 1 .. func_depth
  /\ \A i, j \in DOMAIN local_saves :
       i < j => local_saves[i].depth <= local_saves[j].depth

(* What a list of assignments means: one after the other, each seeing what *)
(* the ones before it made.                                                *)
InOrder(list) ==
  FoldLeft(LAMBDA M, a :
             LET got == assignment_to_env(M, a)
             IN  IF got.key \in readonly_vars THEN M
                 ELSE env_set(M, got.key, got.value, AllExport),
           Store, list).env

(* `x=1 y=$x` is x=1, then y=1: a command of assignments makes them from   *)
(* left to right, and each right-hand side sees the earlier ones.          *)
LeftToRight ==
  \A list \in Lists : UsualList(expand_assignments(Store, list)) =>
    Assigned(list).env = InOrder(list)

(* The saves lie in the order of the calls, and assignments in the order   *)
(* they are written (scope_save, expand_assignments).                      *)
TableLayered == TypeOK /\ ScopesLayered /\ LeftToRight

(* An exported variable that stays set stays exported: only `export -n`, a *)
(* `unset`, and the return of a call that put the name back from its saves *)
(* hide it from the child processes.                                       *)
PutBack(n) == /\ Len(calls') < Len(calls)
              /\ \/ Covers(Last(calls), n)
                 \/ \E i \in DOMAIN local_saves : /\ local_saves[i].depth = func_depth
                                                  /\ local_saves[i].key = n
ExportSticks ==
  [][\A n \in get_envp(env) :
       env'[n].there => \/ n \in get_envp(env')
                        \/ PutBack(n)
                        \/ \E prefix \in PreAssigns : \/ builtin_export(prefix, n)
                                                       \/ builtin_unset(prefix, n)]_vars

-----------------------------------------------------------------------------
(* The scopes the table stands for: layer 1 is global, and call k makes    *)
(* layer 2k with its prefix and layer 2k + 1 with its locals.  A layer is  *)
(* known by the values its names had before it was made, each the first    *)
(* that was saved.                                                         *)
FirstSaved(saves, depth) ==
  LET mine == {i \in DOMAIN saves : saves[i].depth = depth}
  IN  [n \in {saves[i].key : i \in mine} |->
         saves[Min({i \in mine : saves[i].key = n})].value]

(* What a name meant when the layers above were not there is what the      *)
(* lowest of them saved.                                                   *)
Scope ==
  LET top == 2 * func_depth + 1
      made == [i \in 1 .. top |-> IF i % 2 = 0 THEN FirstSaved(calls[i \div 2], 0)
                                  ELSE FirstSaved(local_saves, i \div 2)]
      Meant(i, n) == LET above == {j \in i + 1 .. top : n \in DOMAIN made[j]}
                     IN  IF above = {} THEN env[n].value ELSE made[Min(above)][n]
  IN  [i \in 1 .. top |-> [n \in (IF i = 1 THEN Names ELSE DOMAIN made[i]) |-> Meant(i, n)]]

Scopes == INSTANCE DynScope WITH Unset <- NoValue, cells <- Scope

(* The flat table implements dynamic scoping: the cells of a call hide     *)
(* those of its callers, writing and unsetting reach the newest cell, and  *)
(* a return uncovers every caller's value as it was.                       *)
DynamicScoping == Scopes!Spec
=============================================================================
