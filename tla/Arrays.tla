------------------------------- MODULE Arrays -------------------------------
(***************************************************************************)
(* The value of a variable and everything the shell does to it: a scalar,  *)
(* an indexed array kept as a list of (index, text) records, an            *)
(* associative one kept as a list of (key, text) records                   *)
(* (environment/env_array*.c, env_assoc*.c), the subscripts that read and  *)
(* write them, and the assignments a=(...), a+=(...), a[i]=v, a[i]=(...).  *)
(* The bytes that separate the records are abstracted.  z is zsh_arrays(): *)
(* subscripts count from 1.  An optional text is {} or {t}.                *)
(***************************************************************************)
EXTENDS Integers, SequencesExt

NoValue == [is |-> "unset"]
Scalar(t) == [is |-> "scalar", text |-> t]
Indexed(recs) == [is |-> "array", recs |-> recs]
Assoc(recs) == [is |-> "assoc", recs |-> recs]

arr_is(val) == val.is = "array"
assoc_is(val) == val.is = "assoc"
arr_next(val) == IF arr_is(val) THEN val.recs ELSE <<>>
assoc_next(val) == IF assoc_is(val) THEN val.recs ELSE <<>>

Keys(recs) == [i \in DOMAIN recs |-> recs[i][1]]
Texts(recs) == [i \in DOMAIN recs |-> recs[i][2]]
Least(S) == CHOOSE x \in S : \A y \in S : x <= y
FirstWith(recs, k) ==
    LET at == {i \in DOMAIN recs : recs[i][1] = k}
    IN  IF at = {} THEN {} ELSE {recs[Least(at)][2]}

arr_count(val) == Len(arr_next(val))
assoc_count(val) == Len(assoc_next(val))
arr_get_idx(val, want) == FirstWith(arr_next(val), want)
assoc_get(val, key) == FirstWith(assoc_next(val), key)
arr_max_idx(val) ==
    FoldLeft(LAMBDA m, r : IF r[1] > m THEN r[1] ELSE m, -1, arr_next(val))

(* A separator goes in front of an element when something is written       *)
(* already, so an empty first element takes its separator with it.         *)
JoinedBy(texts, sep) ==
    FoldLeft(LAMBDA out, t : IF out = <<>> THEN t ELSE out \o sep \o t, <<>>, texts)

(* Elements lo..hi by position.                                            *)
Positions(s, lo, hi) ==
    SubSeq(s, (IF lo < 0 THEN 0 ELSE lo) + 1, IF hi >= Len(s) THEN Len(s) ELSE hi + 1)
arr_join_range(val, sep, lo, hi) == JoinedBy(Positions(Texts(arr_next(val)), lo, hi), sep)
arr_join(val, sep) == JoinedBy(Texts(arr_next(val)), sep)
assoc_keys(val) == JoinedBy(Keys(assoc_next(val)), <<" ">>)
assoc_values(val, sep) == JoinedBy(Texts(assoc_next(val)), sep)
arr_slice_build(val, off, lim) == arr_join_range(val, <<" ">>, off, lim - 1)

-----------------------------------------------------------------------------
\* building

\* mutant: the new record goes to the end, wherever its index belongs
arr_with_set_last(old, idx, nv) ==
    Indexed(SelectSeq(arr_next(old), LAMBDA r : r[1] # idx) \o << <<idx, nv>> >>)

arr_with_set(old, idx, nv) ==
    LET recs == arr_next(old)
        from == {i \in DOMAIN recs : recs[i][1] >= idx}
        k == IF from = {} THEN Len(recs) + 1 ELSE Least(from)
        scalar == IF old.is = "scalar" /\ idx # 0 THEN << <<0, old.text>> >> ELSE <<>>
    IN  Indexed(scalar \o SubSeq(recs, 1, k - 1) \o << <<idx, nv>> >>
                \o SelectSeq(SubSeq(recs, k, Len(recs)), LAMBDA r : r[1] # idx))

Numbered(texts, from) == [i \in DOMAIN texts |-> <<from + i - 1, texts[i]>>]

arr_from_elems(elems, base) ==
    CASE base.is = "scalar" -> Indexed(<< <<0, base.text>> >> \o Numbered(elems, 1))
      [] arr_is(base) -> Indexed(base.recs \o Numbered(elems, arr_max_idx(base) + 1))
      [] OTHER -> Indexed(Numbered(elems, 0))

arr_without(old, idx) == Indexed(SelectSeq(arr_next(old), LAMBDA r : r[1] # idx))

(* a[lo,hi]=(elems): a gap becomes an empty element, what follows closes   *)
(* up, hi < lo inserts, lo < 0 writes nothing; a scalar is dropped.        *)
arr_splice(old, lo, hi, elems) ==
    LET last == IF lo > arr_max_idx(old) THEN lo ELSE arr_max_idx(old)
        splice_keep(i) == LET e == arr_get_idx(old, i)
                          IN  IF e = {} THEN <<>> ELSE CHOOSE t \in e : TRUE
        Kept(from, to) == IF arr_is(old) THEN [k \in 1..(to - from + 1) |-> splice_keep(from + k - 1)]
                          ELSE <<>>
        resume == IF hi < lo THEN lo ELSE hi + 1
    IN  Indexed(Numbered(IF lo < 0 THEN Kept(0, last)
                         ELSE Kept(0, lo - 1) \o elems
                              \o (IF resume > last THEN <<>> ELSE Kept(resume, last)), 0))

assoc_with_set(old, key, nv) ==
    LET recs == assoc_next(old)
    IN  Assoc(IF \E i \in DOMAIN recs : recs[i][1] = key
              THEN [i \in DOMAIN recs |-> IF recs[i][1] = key THEN <<key, nv>> ELSE recs[i]]
              ELSE Append(recs, <<key, nv>>))
assoc_without(old, key) == Assoc(SelectSeq(assoc_next(old), LAMBDA r : r[1] # key))

-----------------------------------------------------------------------------
\* subscripts: a text of digits, with a sign in front or not

Numerals == <<"0", "1", "2", "3", "4", "5", "6", "7", "8", "9">>
DigitOf(c) == CHOOSE d \in 0..9 : Numerals[d + 1] = c
Decimal(t) == FoldLeft(LAMBDA n, c : n * 10 + DigitOf(c), 0, t)
arith_num(t) ==
    CASE t = <<>> -> 0
      [] t[1] = "-" -> -Decimal(Tail(t))
      [] OTHER -> Decimal(t)

sub_to_index(z, sub, count) ==
    CASE sub < 0 -> sub + count
      [] z /\ sub >= 0 -> sub - 1
      [] OTHER -> sub

slice_comma(t) ==
    LET at == {i \in DOMAIN t : t[i] = ","} IN IF at = {} THEN 0 ELSE Least(at)
slice_bound(t, count) ==
    LET v == arith_num(t)
    IN  IF v < 0 THEN count + v ELSE IF v > 0 THEN v - 1 ELSE 0
zsh_slice_universe(val) ==
    CASE arr_is(val) -> arr_count(val)
      [] val.is = "scalar" -> Len(val.text)
      [] OTHER -> 0
\* {} when the subscript is no slice
zsh_slice_bounds(z, t, val) ==
    LET c == slice_comma(t)
        n == zsh_slice_universe(val)
        lo == slice_bound(SubSeq(t, 1, c - 1), n)
        hi == slice_bound(SubSeq(t, c + 1, Len(t)), n)
    IN  IF ~z \/ c = 0 THEN {}
        ELSE {[lo |-> lo, hi |-> IF lo < 0 \/ hi < 0 THEN lo - 1 ELSE hi]}
zsh_slice_len(r, count) ==
    LET hi == IF r.hi >= count THEN count - 1 ELSE r.hi
    IN  IF r.lo < 0 \/ r.lo >= count \/ hi < r.lo THEN 0 ELSE hi - r.lo + 1
zsh_slice_str(val, r, sep) ==
    CASE val = NoValue \/ r.lo < 0 \/ r.hi < r.lo -> <<>>
      [] arr_is(val) -> arr_join_range(val, sep, r.lo, r.hi)
      [] OTHER -> SubSeq(val.text, r.lo + 1, r.lo + zsh_slice_len(r, Len(val.text)))

zn_pick_char(v, n) ==
    LET k == IF n < 0 THEN n + Len(v) + 1 ELSE n
    IN  IF k < 1 \/ k > Len(v) THEN <<>> ELSE <<v[k]>>
zn_scalar_pick(z, val, sub) ==
    CASE val = NoValue -> {}
      [] z -> {zn_pick_char(val.text, sub)}
      [] sub = 0 -> {val.text}
      [] OTHER -> {}

(* ${a[sub]}: a key, a slice or an index.                                  *)
arr_element(z, val, t, sep) ==
    LET r == zsh_slice_bounds(z, t, val)
    IN  CASE assoc_is(val) -> assoc_get(val, t)
          [] r # {} -> {zsh_slice_str(val, CHOOSE x \in r : TRUE, sep)}
          [] arr_is(val) -> arr_get_idx(val, sub_to_index(z, arith_num(t), arr_count(val)))
          [] OTHER -> zn_scalar_pick(z, val, arith_num(t))
elem_value(z, val, t) ==
    CASE assoc_is(val) -> assoc_get(val, t)
      [] arr_is(val) -> arr_get_idx(val, sub_to_index(z, arith_num(t), arr_count(val)))
      [] OTHER -> zn_scalar_pick(z, val, arith_num(t))
at_value(val) ==
    CASE assoc_is(val) -> IF val.recs = <<>> THEN {} ELSE {assoc_values(val, <<" ">>)}
      [] arr_is(val) -> IF val.recs = <<>> THEN {} ELSE {arr_join(val, <<" ">>)}
      [] val = NoValue -> {}
      [] OTHER -> {val.text}
expand_strlen_arr(val) ==
    CASE assoc_is(val) -> assoc_count(val)
      [] val.is = "scalar" -> 1
      [] OTHER -> arr_count(val)

-----------------------------------------------------------------------------
\* assignments: an outcome is [ok, val], val untouched when ok is FALSE

Bad(old) == [ok |-> FALSE, val |-> old]
Good(val) == [ok |-> TRUE, val |-> val]

append_base(old) ==
    LET first == CASE arr_is(old) -> arr_get_idx(old, 0)
                   [] assoc_is(old) -> assoc_get(old, <<"0">>)
                   [] old = NoValue -> {}
                   [] OTHER -> {old.text}
    IN  IF first = {} THEN <<>> ELSE CHOOSE t \in first : TRUE
\* a=v and a+=v keep an array an array
keep_array_shape(old, v) ==
    CASE arr_is(old) -> arr_with_set(old, 0, v)
      [] assoc_is(old) -> assoc_with_set(old, <<"0">>, v)
      [] OTHER -> Scalar(v)
scalar_append(old, v) == append_base(old) \o v

arr_sub_index(z, t, count) == IF t = <<>> THEN 0 ELSE sub_to_index(z, arith_num(t), count)
elem_current(z, old, t) ==
    IF assoc_is(old) THEN assoc_get(old, t)
    ELSE LET i == arr_sub_index(z, t, arr_count(old)) IN IF i < 0 THEN {} ELSE arr_get_idx(old, i)
subscript_append_value(z, old, t, v) ==
    LET e == elem_current(z, old, t) IN IF e = {} THEN v ELSE (CHOOSE x \in e : TRUE) \o v
assoc_elem_assign(old, t, v) == IF t = <<>> THEN Bad(old) ELSE Good(assoc_with_set(old, t, v))

(* a[t]=v and a[t]+=v                                                      *)
subscript_assign(z, old, t, v, append) ==
    LET nv == IF append THEN subscript_append_value(z, old, t, v) ELSE v
        r == zsh_slice_bounds(z, t, old)
        s == CHOOSE x \in r : TRUE
        i == arr_sub_index(z, t, arr_count(old))
    IN  CASE assoc_is(old) -> assoc_elem_assign(old, t, nv)
          [] ~assoc_is(old) /\ r # {} -> Good(arr_splice(old, s.lo, s.hi, <<nv>>))
          [] ~assoc_is(old) /\ r = {} /\ i < 0 -> Bad(old)
          [] OTHER -> Good(arr_with_set(old, i, nv))

(* a[t]=(elems)                                                            *)
splice_elem_assign(z, old, t, elems) ==
    LET r == zsh_slice_bounds(z, t, old)
        i == sub_to_index(z, arith_num(t), arr_count(old))
        s == IF r # {} THEN CHOOSE x \in r : TRUE ELSE [lo |-> i, hi |-> i]
    IN  IF assoc_is(old) \/ s.lo < 0 THEN Bad(old) ELSE Good(arr_splice(old, s.lo, s.hi, elems))

(* An element of a=(...) as a text: [sub]=val or val alone.                *)
parse_sub_elem(e) ==
    LET rb == {i \in DOMAIN e : e[i] = "]"}
        k == Least(rb)
    IN  IF e # <<>> /\ e[1] = "[" /\ rb # {} /\ k < Len(e) /\ e[k + 1] = "="
        THEN {<<SubSeq(e, 2, k - 1), SubSeq(e, k + 2, Len(e))>>} ELSE {}
has_subscript(elems) == \E i \in DOMAIN elems : parse_sub_elem(elems[i]) # {}

build_assoc(old, elems, append) ==
    LET start == IF append /\ assoc_is(old) THEN old ELSE Assoc(<<>>)
    IN  FoldLeft(LAMBDA st, e :
                   LET p == parse_sub_elem(e)
                       se == CHOOSE x \in p : TRUE
                   IN  CASE ~st.ok \/ p = {} -> st
                         [] p # {} /\ se[1] = <<>> -> [st EXCEPT !.ok = FALSE]
                         [] OTHER -> [st EXCEPT !.val = assoc_with_set(@, se[1], se[2])],
                 Good(start), elems)
(* The index runs on from the last subscript written; a scalar base is     *)
(* dropped.                                                                *)
build_indexed_sub(old, elems, append) ==
    LET keep == append /\ arr_is(old)
        start == [val |-> IF keep THEN old ELSE Indexed(<<>>),
                  run |-> IF keep THEN arr_max_idx(old) + 1 ELSE 0]
        idx_elem(st, e) ==
            LET p == parse_sub_elem(e)
                se == CHOOSE x \in p : TRUE
                i == IF p = {} THEN st.run ELSE arith_num(se[1])
            IN  [val |-> arr_with_set(st.val, i, IF p = {} THEN e ELSE se[2]), run |-> i + 1]
    IN  Good(FoldLeft(idx_elem, start, elems).val)
(* a=(elems), a+=(elems); assoc: declare -A is in front                    *)
build_array_value(old, elems, append, assoc) ==
    CASE assoc_is(old) \/ assoc -> build_assoc(old, elems, append)
      [] ~(assoc_is(old) \/ assoc) /\ has_subscript(elems) -> build_indexed_sub(old, elems, append)
      [] OTHER -> Good(arr_from_elems(elems, IF append THEN old ELSE NoValue))

(* unset a[t]: FALSE leaves the name to the caller, who drops it whole     *)
unset_array_elem(old, t) ==
    CASE arr_is(old) -> Good(arr_without(old, arith_num(t)))
      [] assoc_is(old) -> Good(assoc_without(old, t))
      [] OTHER -> [ok |-> TRUE, val |-> old]
=============================================================================
