------------------------------ MODULE EnvTable ------------------------------
(***************************************************************************)
(* The table of variables (src/src/environment): a vector of records in    *)
(* the order they were made, and beside it one global hash index of names, *)
(* with open addressing, that is thrown away whenever a record is removed  *)
(* and built again by the next search.  Above them the attributes of       *)
(* declare -i and declare -n, which redirect or evaluate what is written.  *)
(* A value is a sequence of digits or one word; an array is one word.      *)
(***************************************************************************)
EXTENDS Naturals, SequencesExt

CONSTANTS
  Names,         \* the names a script uses
  Values,        \* the values it writes
  HashOf,        \* name -> its hash
  MinCap,        \* the least capacity of the index (16 in the code)
  Environs,      \* the environments the shell may be started in
  Integers_,     \* the names declare -i is used on
  Refs,          \* the pairs <<reference, target>> of declare -n
  Chains,        \* whether a reference may name another reference
  Directories,   \* where cd goes
  EnvMax         \* bound on the length of the vector

VARIABLES
  env,           \* the vector of records
  index,         \* the hash index of names
  var_attrs,     \* the attributes, in the order they were first declared
  told           \* ghost: the value each cell was last given, None once unset

vars == <<env, index, var_attrs, told>>

None == <<"(none)">>           \* no such variable
NULL == <<"(null)">>           \* a record with no value
Digit == [d \in {"0", "1", "2", "3", "4", "5", "6", "7", "8", "9"} |->
            CHOOSE n \in 0 .. 9 : ToString(n) = d]
IsNumber(v) == v # << >> /\ \A i \in DOMAIN v : v[i] \in DOMAIN Digit
Number(v) == IF IsNumber(v) THEN FoldLeft(LAMBDA n, d : 10 * n + Digit[d], 0, v) ELSE 0
Decimal(n) == IF n < 10 THEN <<ToString(n)>>
              ELSE <<ToString(n \div 10), ToString(n % 10)>>

-----------------------------------------------------------------------------
(* The index.  A slot is empty when its idx is 0.                          *)

EmptySlot == [h |-> 0, idx |-> 0]
NoIndex == [tab |-> << >>, count |-> 0, dirty |-> TRUE]
Cap(ix) == Len(ix.tab)
Probe(ix, h, k) == ((h + k) % Cap(ix)) + 1

env_index_mark_dirty(ix) == [ix EXCEPT !.dirty = TRUE]

(* The first free slot from the name's own one on.                         *)
Gap(ix, h) == CHOOSE k \in 0 .. Cap(ix) - 1 :
                /\ ix.tab[Probe(ix, h, k)].idx = 0
                /\ \A j \in 0 .. k - 1 : ix.tab[Probe(ix, h, j)].idx # 0

eix_put(ix, h, i) ==
  [ix EXCEPT !.tab[Probe(ix, h, Gap(ix, h))] = [h |-> h, idx |-> i],
             !.count = @ + 1]

(* Twice the room the vector needs, and every record put in again, in      *)
(* order, so that the count tells the next one's place.                    *)
Doublings(len) ==
  LET cap[k \in 0 .. len + 1] == IF k = 0 THEN MinCap ELSE 2 * cap[k - 1]
  IN  {cap[k] : k \in 0 .. len + 1}
Capacity(len) == Min({n \in Doublings(len) : n >= (len + 1) * 2})

Empty(cap) == [tab |-> [s \in 1 .. cap |-> EmptySlot], count |-> 0, dirty |-> FALSE]
put_next(ix, el) == eix_put(ix, HashOf[el.key], ix.count + 1)
eix_reset_fill(e, cap) == FoldLeft(put_next, Empty(cap), e)

env_index_reset(e) == eix_reset_fill(e, Capacity(Len(e)))

(* Mutant: the last record's slot is added even when the index is full     *)
(* enough to be built again.                                               *)
env_index_add_late(e, ix, i) ==
  IF ix.dirty THEN ix
  ELSE IF ix.count >= Cap(ix) THEN env_index_reset(e)
  ELSE eix_put(ix, HashOf[e[i].key], i)

env_index_add(e, ix, i) ==
  IF ix.dirty THEN ix
  ELSE IF ix.tab = << >> \/ (ix.count + 1) * 10 >= Cap(ix) * 7 THEN env_index_reset(e)
  ELSE eix_put(ix, HashOf[e[i].key], i)

(* A search walks from the name's own slot to the first free one, and      *)
(* trusts no slot: the record it names must bear the name.                 *)
Hits(e, ix, key) ==
  LET h == HashOf[key]
      slot(k) == ix.tab[Probe(ix, h, k)]
  IN  {k \in 0 .. Gap(ix, h) - 1 : /\ slot(k).h = h
                                         /\ slot(k).idx \in DOMAIN e
                                         /\ e[slot(k).idx].key = key}

Ready(e, ix) == IF ix.dirty \/ ix.tab = << >> THEN env_index_reset(e) ELSE ix

env_index_find(e, ix, key) ==
  LET r == Ready(e, ix)
      hits == Hits(e, r, key)
  IN  IF hits = {} THEN 0 ELSE r.tab[Probe(r, HashOf[key], Min(hits))].idx

-----------------------------------------------------------------------------
(* The table: t.env and t.ix.                                              *)

env_create(n, v, x) == [key |-> n, value |-> v, exported |-> x]

env_get(t, n) == LET i == env_index_find(t.env, t.ix, n)
                 IN  IF i = 0 THEN env_create(n, None, FALSE) ELSE t.env[i]

Searched(t) == [t EXCEPT !.ix = Ready(t.env, @)]

(* The export attribute is never taken back by a write.                    *)
env_set_found(t, el, i) ==
  LET grown == Append(t.env, el)
  IN  IF i # 0 THEN [t EXCEPT !.env[i].value = el.value,
                              !.env[i].exported = @ \/ el.exported]
      ELSE [env |-> grown, ix |-> env_index_add(grown, t.ix, Len(grown))]

env_set_searched(t, el) == env_set_found(t, el, env_index_find(t.env, t.ix, el.key))
env_set(t, el) == env_set_searched(Searched(t), el)

(* Mutant: the index is kept when a record goes.                           *)
env_drop_entry_indexed(t, n) ==
  [Searched(t) EXCEPT !.env = RemoveAt(@, env_index_find(t.env, t.ix, n))]

env_drop_entry(t, n) ==
  LET s == Searched(t)
  IN  [env |-> RemoveAt(s.env, env_index_find(s.env, s.ix, n)),
       ix |-> env_index_mark_dirty(s.ix)]

unset_raw(t, n) == IF env_get(t, n).value = None THEN Searched(t) ELSE env_drop_entry(t, n)

(* What a child is given: the exported records that have a value.          *)
get_envp(t) == SelectSeq(t.env, LAMBDA e : e.exported /\ e.value # NULL)

-----------------------------------------------------------------------------
(* Attributes.                                                             *)

Attribute(a, n) == {i \in DOMAIN a : a[i].name = n}
attr_kind(a, n) ==
  IF Attribute(a, n) = {} THEN "-" ELSE a[Min(Attribute(a, n))].kind
attr_target(a, n) ==
  LET refs == {i \in Attribute(a, n) : a[i].kind = "n"}
  IN  IF refs = {} THEN "" ELSE a[Min(refs)].target

attr_set(a, n, kind, target) ==
  LET one == [name |-> n, kind |-> kind, target |-> target]
  IN  IF Attribute(a, n) = {} THEN Append(a, one)
      ELSE [a EXCEPT ![Min(Attribute(a, n))] = one]

declare_nameref(a, n, target) == attr_set(a, n, "n", target)

(* A read follows references to the end; on a ring of references it would  *)
(* never return, see the guard of DeclareReference.                        *)
End(a, n) ==
  LET at[k \in 0 .. Cardinality(Names)] ==
        IF k = 0 THEN n
        ELSE IF attr_target(a, at[k - 1]) = "" THEN at[k - 1]
        ELSE attr_target(a, at[k - 1])
  IN  at[Cardinality(Names)]

(* Names the shell answers for itself, whatever the table holds.           *)
Running == <<"(running)">>
expand_special_dyn_time(key) ==
  IF key \in {"EPOCHREALTIME", "SRANDOM"} THEN Running ELSE NULL
expand_special_dyn(key) ==
  IF key \in {"LINENO", "RANDOM", "SECONDS", "EPOCHSECONDS"} THEN Running
  ELSE expand_special_dyn_time(key)
expand_special(key) ==
  IF key \in {"?", "$", "!", "-", "#"} THEN Running ELSE expand_special_dyn(key)

env_expand_n(t, a, key) ==
  IF expand_special(key) # NULL THEN expand_special(key)
  ELSE env_get(t, End(a, key)).value

-----------------------------------------------------------------------------
(* Assignment: name[+]=value.                                              *)

append_base(v) == IF v \in {None, NULL} THEN << >> ELSE v

(* Mutant: += on an integer joins the digits.                              *)
apply_int_attr_joined(t, a, el, append) ==
  LET old == append_base(env_expand_n(t, a, el.key))
  IN  [el EXCEPT !.value = IF append THEN old \o @ ELSE Decimal(Number(@))]

(* The value of an integer is evaluated, and += adds.                      *)
apply_int_attr(t, a, el, append) ==
  LET old == append_base(env_expand_n(t, a, el.key))
  IN  [el EXCEPT !.value = Decimal((IF append THEN Number(old) ELSE 0) + Number(@))]

scalar_append(t, a, el) == [el EXCEPT !.value = append_base(env_expand_n(t, a, el.key)) \o @]

(* A write follows one reference.                                          *)
apply_var_attrs(t, a, el, append) ==
  LET key == IF attr_target(a, el.key) = "" THEN el.key ELSE attr_target(a, el.key)
      to == [el EXCEPT !.key = key]
  IN  IF attr_kind(a, key) = "i" THEN apply_int_attr(t, a, to, append)
      ELSE IF append THEN scalar_append(t, a, to)
      ELSE to

assignment_to_env(t, a, n, v, append) ==
  apply_var_attrs(t, a, env_create(n, v, FALSE), append)

-----------------------------------------------------------------------------
(* Start-up.                                                               *)

str_to_env(s) == env_create(s[1], s[2], TRUE)

env_to_vec_env(environ, cwd) ==
  LET pushed == [env |-> [i \in DOMAIN environ |-> str_to_env(environ[i])],
                 ix |-> env_index_mark_dirty(NoIndex)]
  IN  IF cwd = NULL THEN pushed
      ELSE env_set(env_set(pushed, env_create("PWD", cwd, TRUE)),
                   env_create("IFS", <<"(blanks)">>, FALSE))

Bare(v) == v \in {None, NULL, << >>}

set_path(t) == IF Bare(env_get(t, "PATH").value) THEN env_set(t, env_create("PATH", <<"/bin">>, TRUE)) ELSE t

(* One level deeper than the parent says, or 1 when it says no number.     *)
Deeper(old) == IF ~Bare(old) /\ IsNumber(old) THEN Number(old) + 1 ELSE 1
set_shlvl(t) ==
  env_set(t, env_create("SHLVL", Decimal(Deeper(env_get(t, "SHLVL").value)), TRUE))

set_optind(t) == env_set(t, env_create("OPTIND", <<"1">>, env_get(t, "OPTIND").exported))

set_pwd(t, cwd) ==
  IF Bare(env_get(t, "PWD").value) THEN env_set(t, env_create("PWD", cwd, TRUE)) ELSE t

ensure_essential_env_vars(t, cwd) == set_pwd(set_optind(set_shlvl(set_path(t))), cwd)

(* cd: the old directory is what $PWD says, not where the shell was.       *)
update_pwd_vars(t, cwd) ==
  LET pwd == env_get(t, "PWD")
      old == IF pwd.value = None THEN unset_raw(t, "OLDPWD")
             ELSE env_set(t, [pwd EXCEPT !.key = "OLDPWD"])
  IN  env_set(old, env_create("PWD", cwd, TRUE))

-----------------------------------------------------------------------------
(* The shell at work.                                                      *)

Table == [env |-> env, ix |-> index]

Becomes(t) == /\ Len(t.env) <= EnvMax
              /\ env' = t.env
              /\ index' = t.ix

Value(t, n) == LET i == SelectInSeq(t.env, LAMBDA e : e.key = n)
               IN  IF i = 0 THEN None ELSE t.env[i].value

(* What the cell a name means to the script should hold after an           *)
(* assignment, and the cell: the end of the name's references.             *)
Meant(n) == End(var_attrs, n)
Given(n, v, append) ==
  LET old == append_base(told[Meant(n)])
  IN  IF attr_kind(var_attrs, Meant(n)) = "i"
      THEN Decimal((IF append THEN Number(old) ELSE 0) + Number(v))
      ELSE IF append THEN old \o v ELSE v

Assign(n, v, append) ==
  /\ append => Len(append_base(env_expand_n(Table, var_attrs, n))) < 2
  /\ Becomes(env_set(Table, assignment_to_env(Table, var_attrs, n, v, append)))
  /\ told' = [told EXCEPT ![Meant(n)] = Given(n, v, append)]
  /\ UNCHANGED var_attrs

(* `unset n` takes the record of the name itself.                          *)
Unset(n) ==
  /\ Becomes(unset_raw(Table, n))
  /\ told' = [told EXCEPT ![n] = None]
  /\ UNCHANGED var_attrs

(* A read of any variable finds it again, and may build the index.         *)
Read(n) == /\ Becomes(Searched(Table))
           /\ UNCHANGED <<var_attrs, told>>

DeclareInteger(n) ==
  /\ var_attrs' = attr_set(var_attrs, n, "i", "")
  /\ UNCHANGED <<env, index, told>>

(* A ring of references is left out: a read of it would never return.      *)
DeclareReference(n, target) ==
  LET new == declare_nameref(var_attrs, n, target)
  IN  /\ \A m \in Names : attr_target(new, End(new, m)) = ""
      /\ Chains \/ \A m \in Names : attr_target(new, attr_target(new, m)) = ""
      /\ var_attrs' = new
      /\ UNCHANGED <<env, index, told>>

ChangeDirectory(d) ==
  /\ Becomes(update_pwd_vars(Table, d))
  /\ told' = [told EXCEPT !["PWD"] = d, !["OLDPWD"] = told["PWD"]]
  /\ UNCHANGED var_attrs

Cells == Names \cup {"PWD", "OLDPWD"}

Init ==
  \E environ \in Environs, cwd \in Directories :
    \E t \in {ensure_essential_env_vars(env_to_vec_env(environ, cwd), cwd)} :
      /\ env = t.env
      /\ index = t.ix
      /\ var_attrs = << >>
      /\ told = [n \in Cells |-> Value(t, n)]

Next == \/ \E n \in Names, v \in Values, append \in BOOLEAN : Assign(n, v, append)
        \/ \E n \in Names : Unset(n) \/ Read(n)
        \/ \E n \in Integers_ : DeclareInteger(n)
        \/ \E r \in Refs : DeclareReference(r[1], r[2])
        \/ \E d \in Directories : ChangeDirectory(d)

Spec == Init /\ [][Next]_vars

-----------------------------------------------------------------------------
(* Whatever was set, removed and searched before, the index answers what a *)
(* walk over the vector would: the first record of that name, or none      *)
(* (env_index.c, env_index2.c).                                            *)
IndexAgrees ==
  \A n \in Cells : env_index_find(env, index, n) = SelectInSeq(env, LAMBDA e : e.key = n)

(* A script reads back what it last wrote, under the name it wrote it or   *)
(* under any other that refers to it, and nothing once it is unset: the    *)
(* header of declare -n says that reads and writes of a reference both go  *)
(* to its target (builtin_declare2.c).                                     *)
ReadsBack ==
  \A n \in Names : env_expand_n(Table, var_attrs, n) = told[End(var_attrs, n)]
=============================================================================
