--------------------------- MODULE EnvTable_proofs --------------------------
(***************************************************************************)
(* The table of variables and its hash index, for any names, any hash      *)
(* function and any number of records.                                     *)
(***************************************************************************)
EXTENDS EnvTable, FiniteSetTheorems, SequenceTheorems, TLAPS

Puts == INSTANCE FoldFacts WITH Op <- put_next

(* The loop of eix_reset_fill is a fold from the left.                     *)
LEMMA PutLoop ==
  ASSUME NEW ix, NEW e
  PROVE  FoldLeft(put_next, ix, e) = Puts!Left(ix, e)
BY DEF Puts!Left, Puts!FoldsUp, Puts!Top, FoldLeft, MapThenFoldSet, Max

LEMMA MinIs ==
  ASSUME NEW S, S \subseteq Nat, NEW m \in S, \A y \in S : m <= y
  PROVE  Min(S) = m
<1>1. \E x \in S : \A y \in S : x <= y
  OBVIOUS
<1>2. Min(S) \in S /\ \A y \in S : Min(S) <= y
  BY <1>1 DEF Min
<1>3. Min(S) <= m /\ m <= Min(S) /\ Min(S) \in Nat /\ m \in Nat
  BY <1>2
<1> QED BY <1>3

LEMMA MinOf ==
  ASSUME NEW S, S \subseteq Nat, S # {}
  PROVE  Min(S) \in S /\ \A y \in S : Min(S) <= y
<1>1. \E m \in S : \A y \in S : m <= y
  BY Puts!LowestOf
<1> QED BY <1>1 DEF Min

-----------------------------------------------------------------------------
(* The walk from a name's own slot round the table.                        *)

Round(cap, h, k) == ((h + k) % cap) + 1

LEMMA RemainderIs ==
  ASSUME NEW cap \in Nat \ {0}, NEW q \in Nat, NEW r \in 0 .. cap - 1
  PROVE  (q * cap + r) % cap = r
OBVIOUS

LEMMA RoundParts ==
  ASSUME NEW cap \in Nat \ {0}, NEW n \in Nat
  PROVE  /\ n % cap \in 0 .. cap - 1 /\ n \div cap \in Nat
         /\ n = (n \div cap) * cap + (n % cap)
OBVIOUS

(* It comes to every slot once.                                            *)
LEMMA RoundOnce ==
  ASSUME NEW cap \in Nat \ {0}, NEW h \in Nat
  PROVE  /\ \A k \in 0 .. cap - 1 : Round(cap, h, k) \in 1 .. cap
         /\ \A s \in 1 .. cap : \E k \in 0 .. cap - 1 : Round(cap, h, k) = s
         /\ \A j, k \in 0 .. cap - 1 : Round(cap, h, j) = Round(cap, h, k) => j = k
<1> DEFINE r == h % cap
           q == h \div cap
<1>1. r \in 0 .. cap - 1 /\ q \in Nat /\ h = q * cap + r
  BY RoundParts
<1> HIDE DEF r, q
<1>2. ASSUME NEW k \in 0 .. cap - 1
      PROVE  (h + k) % cap = IF r + k < cap THEN r + k ELSE r + k - cap
  <2>1. CASE r + k < cap
    <3>1. h + k = q * cap + (r + k) /\ r + k \in 0 .. cap - 1
      BY <1>1, <2>1
    <3> QED BY <3>1, <1>1, <2>1, RemainderIs
  <2>2. CASE ~ (r + k < cap)
    <3>1. h + k = (q + 1) * cap + (r + k - cap) /\ r + k - cap \in 0 .. cap - 1 /\ q + 1 \in Nat
      BY <1>1, <2>2
    <3> QED BY <3>1, <2>2, RemainderIs
  <2> QED BY <2>1, <2>2
<1>3. \A k \in 0 .. cap - 1 : Round(cap, h, k) \in 1 .. cap
  BY <1>1, <1>2 DEF Round
<1>4. ASSUME NEW s \in 1 .. cap
      PROVE  \E k \in 0 .. cap - 1 : Round(cap, h, k) = s
  <2>1. CASE s - 1 >= r
    <3>1. s - 1 - r \in 0 .. cap - 1 /\ r + (s - 1 - r) < cap
      BY <1>1, <2>1
    <3>2. Round(cap, h, s - 1 - r) = s
      BY <3>1, <1>1, <1>2 DEF Round
    <3> QED BY <3>1, <3>2
  <2>2. CASE ~ (s - 1 >= r)
    <3>1. s - 1 - r + cap \in 0 .. cap - 1 /\ ~ (r + (s - 1 - r + cap) < cap)
      BY <1>1, <2>2
    <3>2. Round(cap, h, s - 1 - r + cap) = s
      BY <3>1, <1>1, <1>2 DEF Round
    <3> QED BY <3>1, <3>2
  <2> QED BY <2>1, <2>2
<1>5. ASSUME NEW j \in 0 .. cap - 1, NEW k \in 0 .. cap - 1, Round(cap, h, j) = Round(cap, h, k)
      PROVE  j = k
  <2>1. (h + j) % cap \in 0 .. cap - 1 /\ (h + k) % cap \in 0 .. cap - 1
    BY <1>1, <1>2
  <2>2. (h + j) % cap = (h + k) % cap
    BY <1>5, <2>1 DEF Round
  <2> QED BY <2>2, <1>1, <1>2
<1> QED BY <1>3, <1>4, <1>5

-----------------------------------------------------------------------------
(* What an index is while it is one of the first m records of e: d says    *)
(* how far from its own slot each of them was put.                         *)

Keys == DOMAIN HashOf
Slots == [h : Nat, idx : Nat]
HashAt(e, i) == HashOf[e[i].key]

Placed(e, m, ix, d) ==
  /\ \A i \in 1 .. m : ix.tab[Probe(ix, HashAt(e, i), d[i])] = [h |-> HashAt(e, i), idx |-> i]
  /\ \A s \in 1 .. Cap(ix) : ix.tab[s].idx # 0 =>
       \E i \in 1 .. m : s = Probe(ix, HashAt(e, i), d[i])
  /\ \A i \in 1 .. m : \A j \in 0 .. d[i] - 1 : ix.tab[Probe(ix, HashAt(e, i), j)].idx # 0
  /\ \A i, j \in 1 .. m : i < j /\ HashAt(e, i) = HashAt(e, j) => d[i] < d[j]

Tabs == [tab : Seq(Slots), count : Nat, dirty : BOOLEAN]
Indexed(e, m, ix) ==
  /\ ix \in Tabs /\ m < Cap(ix) /\ ix.count = m /\ ix.dirty = FALSE
  /\ \E d \in [1 .. m -> 0 .. Cap(ix) - 1] : Placed(e, m, ix, d)

LEMMA ProbeIs ==
  ASSUME NEW ix, NEW h, NEW k
  PROVE  Probe(ix, h, k) = Round(Cap(ix), h, k)
BY DEF Probe, Round

(* There is a free slot: fewer records than slots.                         *)
LEMMA SlotFree ==
  ASSUME NEW e, NEW m \in Nat, NEW ix, Indexed(e, m, ix)
  PROVE  \E s \in 1 .. Cap(ix) : ix.tab[s].idx = 0
<1> DEFINE cap == Cap(ix)
<1>1. cap \in Nat /\ m < cap
  BY DEF Indexed, Tabs, Cap
<1> SUFFICES ASSUME \A s \in 1 .. cap : ix.tab[s].idx # 0 PROVE FALSE
  OBVIOUS
<1>2. PICK d : Placed(e, m, ix, d)
  BY DEF Indexed
<1> HIDE DEF cap
<1> DEFINE at == [i \in 1 .. m |-> Probe(ix, HashAt(e, i), d[i])]
<1>3. 1 .. cap \subseteq {at[i] : i \in 1 .. m}
  BY <1>2 DEF Placed, cap
<1>4. IsFiniteSet(1 .. m) /\ Cardinality(1 .. m) = m
  BY <1>1, FS_Interval
<1>5. IsFiniteSet(1 .. cap) /\ Cardinality(1 .. cap) = cap
  BY <1>1, FS_Interval
<1> DEFINE hit == {at[i] : i \in 1 .. m}
<1>6. at \in Surjection(1 .. m, hit)
  BY DEF Surjection
<1> HIDE DEF at
<1>7. IsFiniteSet(hit) /\ Cardinality(hit) <= m
  <2> HIDE DEF hit
  <2> QED BY <1>4, <1>6, FS_Surjection
<1> HIDE DEF hit
<1>8. Cardinality(1 .. cap) <= Cardinality(hit)
  BY <1>3, <1>7, FS_Subset DEF hit, at
<1> QED
  BY <1>1, <1>5, <1>7, <1>8, FS_CardinalityType

(* So a walk comes to a free slot, and every slot before it is taken.      *)
LEMMA GapIs ==
  ASSUME NEW e, NEW m \in Nat, NEW ix, Indexed(e, m, ix), NEW h \in Nat
  PROVE  /\ Gap(ix, h) \in 0 .. Cap(ix) - 1
         /\ ix.tab[Probe(ix, h, Gap(ix, h))].idx = 0
         /\ \A j \in 0 .. Gap(ix, h) - 1 : ix.tab[Probe(ix, h, j)].idx # 0
<1> DEFINE cap == Cap(ix)
           free(k) == ix.tab[Probe(ix, h, k)].idx = 0
<1>1. cap \in Nat \ {0}
  BY DEF Indexed, Tabs, Cap
<1>2. PICK s \in 1 .. cap : ix.tab[s].idx = 0
  BY SlotFree
<1>3. PICK k \in 0 .. cap - 1 : free(k)
  <2>1. PICK k \in 0 .. cap - 1 : Round(cap, h, k) = s
    BY <1>1, RoundOnce
  <2>2. Probe(ix, h, k) = s
    BY <2>1, ProbeIs
  <2> QED BY <2>2, <1>2
<1> DEFINE S == {n \in 0 .. cap - 1 : free(n)}
<1>4. PICK g \in S : \A n \in S : g <= n
  <2>1. S \subseteq Nat /\ S # {}
    BY <1>1, <1>3
  <2> HIDE DEF S
  <2> QED BY <2>1, Puts!LowestOf
<1>5. g \in 0 .. cap - 1 /\ free(g) /\ \A j \in 0 .. g - 1 : ~ free(j)
  BY <1>1, <1>4
<1> QED BY <1>5 DEF Gap

(* The next record goes in the first free slot of its walk.                *)
LEMMA PutIs ==
  ASSUME NEW ix \in Tabs, NEW h, NEW i
  PROVE  eix_put(ix, h, i) =
           [tab |-> [ix.tab EXCEPT ![Probe(ix, h, Gap(ix, h))] = [h |-> h, idx |-> i]],
            count |-> ix.count + 1, dirty |-> ix.dirty]
<1>1. PICK t, c, b : ix = [tab |-> t, count |-> c, dirty |-> b]
  BY DEF Tabs
<1>2. ASSUME NEW a, NEW k
      PROVE  [[ix EXCEPT !.tab = a] EXCEPT !.count = k] = [tab |-> a, count |-> k, dirty |-> b]
  <2>1. [ix EXCEPT !.tab = a] = [tab |-> a, count |-> c, dirty |-> b]
    BY <1>1
  <2>2. [[tab |-> a, count |-> c, dirty |-> b] EXCEPT !.count = k]
          = [tab |-> a, count |-> k, dirty |-> b]
    OBVIOUS
  <2> QED BY <2>1, <2>2, Zenon
<1>3. eix_put(ix, h, i) =
        [[ix EXCEPT !.tab = [t EXCEPT ![Probe(ix, h, Gap(ix, h))] = [h |-> h, idx |-> i]]]
                    EXCEPT !.count = c + 1]
  BY <1>1 DEF eix_put
<1> QED BY <1>1, <1>2, <1>3

LEMMA PutKeeps ==
  ASSUME NEW e, NEW m \in Nat, NEW ix, Indexed(e, m, ix), m + 1 < Cap(ix),
         NEW h \in Nat, h = HashAt(e, m + 1), \A i \in 1 .. m : HashAt(e, i) \in Nat
  PROVE  /\ Indexed(e, m + 1, eix_put(ix, h, m + 1))
         /\ Cap(eix_put(ix, h, m + 1)) = Cap(ix)
<1> DEFINE g == Gap(ix, h)
           cap == Cap(ix)
           new == eix_put(ix, h, m + 1)
           p == Probe(ix, h, g)
           one == [h |-> h, idx |-> m + 1]
<1>1. /\ ix.tab \in Seq(Slots) /\ ix.count = m /\ ix.dirty = FALSE /\ cap = Len(ix.tab)
      /\ cap \in Nat \ {0} /\ h \in Nat
  BY DEF Indexed, Tabs, Cap
<1>2. PICK d \in [1 .. m -> 0 .. cap - 1] : Placed(e, m, ix, d)
  BY DEF Indexed
<1>3. /\ g \in 0 .. cap - 1 /\ ix.tab[p].idx = 0
      /\ \A j \in 0 .. g - 1 : ix.tab[Probe(ix, h, j)].idx # 0
  <2>1. /\ Gap(ix, h) \in 0 .. Cap(ix) - 1
        /\ ix.tab[Probe(ix, h, Gap(ix, h))].idx = 0
        /\ \A j \in 0 .. Gap(ix, h) - 1 : ix.tab[Probe(ix, h, j)].idx # 0
    BY GapIs
  <2> QED BY <2>1
<1>4. new = [tab |-> [ix.tab EXCEPT ![p] = one], count |-> m + 1, dirty |-> FALSE]
  <2>1. ix \in Tabs
    BY DEF Indexed
  <2> QED BY <2>1, <1>1, PutIs
<1>5. p \in 1 .. cap
  BY <1>1, <1>3, RoundOnce, ProbeIs
<1>6. one \in Slots
  BY <1>1 DEF Slots
<1> HIDE DEF g, new, p, one, cap
<1>7. /\ new.tab = [ix.tab EXCEPT ![p] = one] /\ new.count = m + 1 /\ new.dirty = FALSE
      /\ new = [tab |-> [ix.tab EXCEPT ![p] = one], count |-> m + 1, dirty |-> FALSE]
  BY <1>4
<1>8. new.tab \in Seq(Slots) /\ Len(new.tab) = cap
  BY <1>1, <1>5, <1>6, <1>7
<1>9. Cap(new) = cap /\ \A a, k : Probe(new, a, k) = Probe(ix, a, k)
  BY <1>8 DEF Cap, Probe, cap
<1>10. new \in Tabs
  BY <1>7, <1>8 DEF Tabs
<1> DEFINE f == [i \in 1 .. m + 1 |-> IF i = m + 1 THEN g ELSE d[i]]
<1>11. f \in [1 .. m + 1 -> 0 .. cap - 1]
  BY <1>2, <1>3
<1>12. f[m + 1] = g /\ \A i \in 1 .. m : f[i] = d[i]
  OBVIOUS
<1> HIDE DEF f
<1>13. /\ new.tab[p] = one /\ one.h = h /\ one.idx = m + 1
       /\ \A s \in 1 .. cap : s # p => new.tab[s] = ix.tab[s]
  BY <1>1, <1>5, <1>7 DEF one
<1>14. \A i \in 1 .. m : Probe(ix, HashAt(e, i), d[i]) \in 1 .. cap
  BY <1>1, <1>2, RoundOnce, ProbeIs DEF cap
<1>15. \A i \in 1 .. m : \A j \in 0 .. d[i] - 1 : Probe(ix, HashAt(e, i), j) \in 1 .. cap
  <2> SUFFICES ASSUME NEW i \in 1 .. m, NEW j \in 0 .. d[i] - 1
               PROVE  Probe(ix, HashAt(e, i), j) \in 1 .. cap
    OBVIOUS
  <2>1. j \in 0 .. cap - 1
    BY <1>1, <1>2
  <2> QED BY <2>1, <1>1, RoundOnce, ProbeIs DEF cap
<1>16. \A j \in 0 .. g - 1 : Probe(ix, h, j) \in 1 .. cap
  <2> SUFFICES ASSUME NEW j \in 0 .. g - 1 PROVE Probe(ix, h, j) \in 1 .. cap
    OBVIOUS
  <2>1. j \in 0 .. cap - 1
    BY <1>1, <1>3
  <2> QED BY <2>1, <1>1, RoundOnce, ProbeIs DEF cap
<1>17. ASSUME NEW i \in 1 .. m + 1
       PROVE  new.tab[Probe(new, HashAt(e, i), f[i])] = [h |-> HashAt(e, i), idx |-> i]
  <2>1. CASE i = m + 1
    BY <2>1, <1>9, <1>12, <1>13 DEF p, one
  <2>2. CASE i # m + 1
    <3>1. i \in 1 .. m
      BY <2>2
    <3>2. ix.tab[Probe(ix, HashAt(e, i), d[i])].idx = i /\ i # 0
      <4>1. ix.tab[Probe(ix, HashAt(e, i), d[i])] = [h |-> HashAt(e, i), idx |-> i]
        BY <3>1, <1>2 DEF Placed
      <4> QED BY <3>1, <4>1
    <3>3. Probe(ix, HashAt(e, i), d[i]) # p
      BY <3>2, <1>3
    <3>4. f[i] = d[i] /\ Probe(ix, HashAt(e, i), d[i]) \in 1 .. cap
      BY <3>1, <1>12, <1>14
    <3>5. new.tab[Probe(ix, HashAt(e, i), d[i])] = ix.tab[Probe(ix, HashAt(e, i), d[i])]
      BY <3>3, <3>4, <1>13
    <3>6. ix.tab[Probe(ix, HashAt(e, i), d[i])] = [h |-> HashAt(e, i), idx |-> i]
      BY <3>1, <1>2 DEF Placed
    <3> QED BY <3>4, <3>5, <3>6, <1>9
  <2> QED BY <2>1, <2>2
<1>18. ASSUME NEW s \in 1 .. cap, new.tab[s].idx # 0
       PROVE  \E i \in 1 .. m + 1 : s = Probe(new, HashAt(e, i), f[i])
  <2>1. CASE s = p
    BY <2>1, <1>9, <1>12 DEF p
  <2>2. CASE s # p
    <3>1. PICK i \in 1 .. m : s = Probe(ix, HashAt(e, i), d[i])
      BY <2>2, <1>2, <1>13, <1>18 DEF Placed, cap
    <3> QED BY <3>1, <1>9, <1>12
  <2> QED BY <2>1, <2>2
<1>19. ASSUME NEW i \in 1 .. m + 1, NEW j \in 0 .. f[i] - 1
       PROVE  new.tab[Probe(new, HashAt(e, i), j)].idx # 0
  <2>1. CASE i = m + 1
    <3>1. j \in 0 .. g - 1
      BY <2>1, <1>12
    <3>2. Probe(new, HashAt(e, i), j) = Probe(ix, h, j)
      BY <2>1, <1>9
    <3> QED BY <3>1, <3>2, <1>3, <1>13, <1>16
  <2>2. CASE i # m + 1
    <3>1. i \in 1 .. m /\ j \in 0 .. d[i] - 1
      BY <2>2, <1>12
    <3>2. ix.tab[Probe(ix, HashAt(e, i), j)].idx # 0
      BY <3>1, <1>2 DEF Placed
    <3>3. new.tab[Probe(ix, HashAt(e, i), j)] = IF Probe(ix, HashAt(e, i), j) = p THEN one
                                                ELSE ix.tab[Probe(ix, HashAt(e, i), j)]
      BY <3>1, <1>13, <1>15
    <3>4. new.tab[Probe(ix, HashAt(e, i), j)].idx # 0
      BY <3>2, <3>3, <1>13
    <3> QED BY <3>4, <1>9
  <2> QED BY <2>1, <2>2
<1>20. ASSUME NEW i \in 1 .. m + 1, NEW j \in 1 .. m + 1, i < j, HashAt(e, i) = HashAt(e, j)
       PROVE  f[i] < f[j]
  <2>1. CASE j = m + 1
    <3>1. i \in 1 .. m /\ f[i] = d[i] /\ f[j] = g /\ HashAt(e, i) = h
      BY <2>1, <1>12, <1>20
    <3>2. d[i] # g
      <4>1. ix.tab[Probe(ix, HashAt(e, i), d[i])] = [h |-> HashAt(e, i), idx |-> i]
        BY <3>1, <1>2 DEF Placed
      <4>2. ix.tab[Probe(ix, h, d[i])].idx = i /\ i # 0
        BY <3>1, <4>1
      <4> QED BY <4>2, <1>3 DEF p
    <3>3. ~ (g < d[i])
      <4>1. SUFFICES ASSUME g < d[i] PROVE FALSE
        OBVIOUS
      <4>2. g \in 0 .. d[i] - 1
        BY <3>1, <4>1, <1>2, <1>3
      <4>3. ix.tab[Probe(ix, h, g)].idx # 0
        BY <3>1, <4>2, <1>2 DEF Placed
      <4> QED BY <4>3, <1>3 DEF p
    <3>4. d[i] \in Nat /\ g \in Nat
      BY <3>1, <1>1, <1>2, <1>3
    <3> QED BY <3>1, <3>2, <3>3, <3>4
  <2>2. CASE j # m + 1
    <3>1. i \in 1 .. m /\ j \in 1 .. m
      BY <2>2, <1>20
    <3> QED BY <3>1, <1>2, <1>12, <1>20 DEF Placed
  <2> QED BY <2>1, <2>2
<1>21. Placed(e, m + 1, new, f)
  BY <1>9, <1>17, <1>18, <1>19, <1>20 DEF Placed
<1>22. Indexed(e, m + 1, new)
  BY <1>7, <1>9, <1>10, <1>11, <1>21 DEF Indexed, cap
<1> QED BY <1>9, <1>22 DEF new, cap

-----------------------------------------------------------------------------
(* The index built again: there is room, and every record goes in.         *)

Doubles(cap, n) == cap = [k \in 0 .. n |-> IF k = 0 THEN MinCap ELSE 2 * cap[k - 1]]

LEMMA DoublesExist ==
  ASSUME NEW n \in Nat
  PROVE  \E cap : Doubles(cap, n)
<1> DEFINE Bad == {k \in Nat : ~ \E cap : Doubles(cap, k)}
<1>1. SUFFICES ASSUME Bad # {} PROVE FALSE
  OBVIOUS
<1>2. PICK m \in Bad : \A y \in Bad : m <= y
  <2>1. Bad \subseteq Nat
    OBVIOUS
  <2> HIDE DEF Bad
  <2> QED BY <1>1, <2>1, Puts!LowestOf
<1>3. m # 0
  <2>1. Doubles([k \in 0 .. 0 |-> MinCap], 0)
    BY DEF Doubles
  <2> QED BY <2>1
<1>4. m - 1 \in Nat /\ m - 1 \notin Bad
  BY <1>2, <1>3
<1>5. PICK f : Doubles(f, m - 1)
  BY <1>4
<1> DEFINE g == [k \in 0 .. m |-> IF k = m THEN 2 * f[m - 1] ELSE f[k]]
<1>6. ASSUME NEW k \in 0 .. m
      PROVE  g[k] = IF k = 0 THEN MinCap ELSE 2 * g[k - 1]
  <2>1. CASE k = m
    BY <2>1, <1>3, <1>4
  <2>2. CASE k # m
    <3>1. k \in 0 .. m - 1 /\ g[k] = f[k] /\ (k # 0 => g[k - 1] = f[k - 1])
      BY <2>2
    <3> QED BY <3>1, <1>5 DEF Doubles
  <2> QED BY <2>1, <2>2
<1>7. Doubles(g, m)
  <2> HIDE DEF g
  <2>1. g = [k \in 0 .. m |-> g[k]]
    BY DEF g
  <2> QED BY <2>1, <1>6 DEF Doubles
<1> QED BY <1>2, <1>7

LEMMA DoublesGrow ==
  ASSUME MinCap \in Nat \ {0}, NEW n \in Nat, NEW cap, Doubles(cap, n)
  PROVE  \A k \in 0 .. n : cap[k] \in Nat \ {0} /\ cap[k] >= 2 * k
<1> DEFINE Bad == {k \in 0 .. n : ~ (cap[k] \in Nat \ {0} /\ cap[k] >= 2 * k)}
<1>1. SUFFICES ASSUME Bad # {} PROVE FALSE
  OBVIOUS
<1>2. PICK m \in Bad : \A y \in Bad : m <= y
  <2>1. Bad \subseteq Nat
    OBVIOUS
  <2> HIDE DEF Bad
  <2> QED BY <1>1, <2>1, Puts!LowestOf
<1>3. cap[0] = MinCap /\ m # 0
  BY <1>2 DEF Doubles
<1>4. m - 1 \in 0 .. n /\ m - 1 \notin Bad /\ cap[m] = 2 * cap[m - 1]
  <2>1. m \in 1 .. n /\ m - 1 \notin Bad
    BY <1>2, <1>3
  <2>2. cap[m] = 2 * cap[m - 1]
    <3> HIDE DEF Bad
    <3> QED BY <2>1 DEF Doubles
  <2> QED BY <2>1, <2>2
<1>5. cap[m - 1] \in Nat \ {0} /\ cap[m - 1] >= 2 * (m - 1)
  BY <1>4
<1>6. cap[m] \in Nat \ {0} /\ cap[m] >= 2 * m
  BY <1>2, <1>3, <1>4, <1>5
<1> QED BY <1>2, <1>6

LEMMA RoomIs ==
  ASSUME MinCap \in Nat \ {0}, NEW len \in Nat
  PROVE  Capacity(len) \in Nat /\ Capacity(len) >= (len + 1) * 2
<1> DEFINE c == CHOOSE cap : Doubles(cap, len + 1)
           S == {n \in Doublings(len) : n >= (len + 1) * 2}
<1>1. Doubles(c, len + 1)
  BY DoublesExist
<1>2. Doublings(len) = {c[k] : k \in 0 .. len + 1}
  BY DEF Doublings, Doubles
<1> HIDE DEF c
<1>3. \A k \in 0 .. len + 1 : c[k] \in Nat \ {0} /\ c[k] >= 2 * k
  BY <1>1, DoublesGrow
<1>4. S \subseteq Nat /\ c[len + 1] \in S
  BY <1>2, <1>3
<1>5. Capacity(len) = Min(S)
  BY DEF Capacity
<1>6. Min(S) \in S
  <2> HIDE DEF S
  <2> QED BY <1>4, MinOf
<1>7. Min(S) \in Nat /\ Min(S) >= (len + 1) * 2
  BY <1>4, <1>6
<1> QED BY <1>5, <1>7

IsRec(r) == /\ r = [key |-> r.key, value |-> r.value, exported |-> r.exported]
            /\ r.key \in Keys
IsEnv(e) == \E R : e \in Seq(R) /\ \A r \in R : IsRec(r)
HashesOk == \A n \in Keys : HashOf[n] \in Nat

LEMMA HashesAre ==
  ASSUME HashesOk, NEW e, IsEnv(e)
  PROVE  Len(e) \in Nat /\ DOMAIN e = 1 .. Len(e) /\ \A i \in 1 .. Len(e) : HashAt(e, i) \in Nat
BY DEF HashesOk, IsEnv, IsRec, HashAt

LEMMA EmptyIs ==
  ASSUME NEW cap \in Nat \ {0}, NEW e
  PROVE  Indexed(e, 0, Empty(cap)) /\ Cap(Empty(cap)) = cap
<1> DEFINE T == [s \in 1 .. cap |-> EmptySlot]
<1>1. T \in Seq(Slots) /\ Len(T) = cap /\ \A s \in 1 .. cap : T[s].idx = 0
  BY DEF EmptySlot, Slots
<1> HIDE DEF T
<1>2. Empty(cap) = [tab |-> T, count |-> 0, dirty |-> FALSE]
  BY DEF Empty, T
<1>3. Empty(cap) \in Tabs /\ Cap(Empty(cap)) = cap
  BY <1>1, <1>2 DEF Tabs, Cap
<1> DEFINE d == [i \in 1 .. 0 |-> 0]
<1>4. d \in [1 .. 0 -> 0 .. Cap(Empty(cap)) - 1] /\ Placed(e, 0, Empty(cap), d)
  BY <1>1, <1>2, <1>3 DEF Placed
<1> HIDE DEF d
<1>5. Empty(cap).count = 0 /\ Empty(cap).dirty = FALSE
  BY <1>2
<1>6. 0 < Cap(Empty(cap))
  BY <1>3
<1>7. \E f \in [1 .. 0 -> 0 .. Cap(Empty(cap)) - 1] : Placed(e, 0, Empty(cap), f)
  BY <1>4
<1> QED BY <1>3, <1>5, <1>6, <1>7, Zenon DEF Indexed

LEMMA ResetIs ==
  ASSUME MinCap \in Nat \ {0}, HashesOk, NEW e, IsEnv(e)
  PROVE  Indexed(e, Len(e), env_index_reset(e))
<1> DEFINE n == Len(e)
           C == Capacity(n)
           I == [i \in 0 .. n |-> {ix \in Tabs : Indexed(e, i, ix) /\ Cap(ix) = C}]
<1>1. /\ n \in Nat /\ DOMAIN e = 1 .. n
      /\ \A i \in 1 .. n : HashAt(e, i) \in Nat
  BY HashesAre
<1> HIDE DEF n
<1>2. C \in Nat \ {0} /\ n + 1 < C
  <2>1. Capacity(n) \in Nat /\ Capacity(n) >= (n + 1) * 2
    BY <1>1, RoomIs
  <2> QED BY <2>1, <1>1
<1> HIDE DEF C
<1>3. Empty(C) \in I[0]
  <2>1. Indexed(e, 0, Empty(C)) /\ Cap(Empty(C)) = C
    BY <1>2, EmptyIs
  <2>2. Empty(C) \in Tabs
    BY <2>1 DEF Indexed
  <2> QED BY <1>1, <2>1, <2>2
<1>4. ASSUME NEW i \in 1 .. n, NEW a \in I[i - 1]
      PROVE  put_next(a, e[i]) \in I[i]
  <2> DEFINE m == i - 1
  <2>1. m \in Nat /\ m \in 0 .. n /\ m + 1 = i
    BY <1>1
  <2>2. Indexed(e, m, a) /\ Cap(a) = C
    BY <2>1
  <2>3. a.count = m /\ put_next(a, e[i]) = eix_put(a, HashAt(e, i), i)
    BY <2>1, <2>2 DEF Indexed, put_next, HashAt
  <2>4. m + 1 < Cap(a) /\ \A j \in 1 .. m : HashAt(e, j) \in Nat
    BY <1>1, <1>2, <2>2
  <2> HIDE DEF m
  <2>5. \A h \in Nat : h = HashAt(e, m + 1) =>
          Indexed(e, m + 1, eix_put(a, h, m + 1)) /\ Cap(eix_put(a, h, m + 1)) = Cap(a)
    BY <2>1, <2>2, <2>4, PutKeeps
  <2>6. Indexed(e, i, put_next(a, e[i])) /\ Cap(put_next(a, e[i])) = C
    BY <1>1, <2>1, <2>2, <2>3, <2>5
  <2>7. put_next(a, e[i]) \in Tabs
    BY <2>6 DEF Indexed
  <2> QED BY <2>6, <2>7
<1>5. Puts!Left(Empty(C), e) \in I[n]
  <2> HIDE DEF I
  <2> QED BY <1>1, <1>3, <1>4, Puts!LeftStaysIn
<1>6. env_index_reset(e) = Puts!Left(Empty(C), e)
  BY PutLoop DEF env_index_reset, eix_reset_fill, C, n
<1>7. Indexed(e, n, env_index_reset(e))
  BY <1>1, <1>5, <1>6
<1> QED BY <1>7 DEF n

-----------------------------------------------------------------------------
(* A search finds the first record of the name.                            *)

Place(e, key) == SelectInSeq(e, LAMBDA r : r.key = key)
At(e, key) == {i \in 1 .. Len(e) : e[i].key = key}

LEMMA PlaceIs ==
  ASSUME NEW e, Len(e) \in Nat, NEW key
  PROVE  /\ Place(e, key) \in Nat
         /\ At(e, key) = {} => Place(e, key) = 0
         /\ At(e, key) # {} => Place(e, key) \in At(e, key)
         /\ \A i \in At(e, key) : Place(e, key) <= i
<1> DEFINE I == {i \in 1 .. Len(e) : e[i].key = key}
<1>1. I = At(e, key) /\ I \subseteq Nat /\ (\A i \in I : i # 0)
  BY DEF At
<1>2. Place(e, key) = IF I # {} THEN Min(I) ELSE 0
  BY DEF Place, SelectInSeq
<1> HIDE DEF I
<1>3. I # {} => Min(I) \in I /\ \A y \in I : Min(I) <= y
  BY <1>1, MinOf
<1> QED BY <1>1, <1>2, <1>3

IxOk(e, ix) == ix \in Tabs /\ (ix.dirty = FALSE => Indexed(e, Len(e), ix))

LEMMA ReadyIs ==
  ASSUME MinCap \in Nat \ {0}, HashesOk, NEW e, IsEnv(e), NEW ix, IxOk(e, ix)
  PROVE  Indexed(e, Len(e), Ready(e, ix))
<1>1. CASE ix.dirty = FALSE
  <2>1. Indexed(e, Len(e), ix) /\ Len(e) \in Nat
    BY <1>1, HashesAre DEF IxOk
  <2>2. ix.tab # << >>
    BY <2>1 DEF Indexed, Cap
  <2> QED BY <1>1, <2>1, <2>2 DEF Ready
<1>2. CASE ix.dirty # FALSE
  <2>1. ix.dirty
    BY <1>2 DEF IxOk, Tabs
  <2>2. Ready(e, ix) = env_index_reset(e)
    BY <2>1 DEF Ready
  <2> QED BY <2>2, ResetIs
<1> QED BY <1>1, <1>2

(* The slots a search stops at are those of the records of the name.       *)
LEMMA HitsAre ==
  ASSUME NEW e, Len(e) \in Nat, DOMAIN e = 1 .. Len(e),
         \A i \in 1 .. Len(e) : HashAt(e, i) \in Nat,
         NEW r, Indexed(e, Len(e), r), NEW key, NEW h \in Nat, h = HashOf[key]
  PROVE  \E d \in [1 .. Len(e) -> 0 .. Cap(r) - 1] :
           /\ Hits(e, r, key) = {d[i] : i \in At(e, key)}
           /\ \A i \in At(e, key) : r.tab[Probe(r, h, d[i])].idx = i
           /\ \A i, j \in At(e, key) : i < j => d[i] < d[j]
<1> DEFINE n == Len(e)
           cap == Cap(r)
           G == Gap(r, h)
<1>1. /\ G \in 0 .. cap - 1 /\ r.tab[Probe(r, h, G)].idx = 0
      /\ \A j \in 0 .. G - 1 : r.tab[Probe(r, h, j)].idx # 0
  BY GapIs
<1>2. PICK d \in [1 .. n -> 0 .. cap - 1] : Placed(e, n, r, d)
  BY DEF Indexed
<1>3. cap \in Nat \ {0} /\ n \in Nat
  BY DEF Indexed, Tabs, Cap
<1>4. Hits(e, r, key) =
        {k \in 0 .. G - 1 : /\ r.tab[Probe(r, h, k)].h = h
                            /\ r.tab[Probe(r, h, k)].idx \in 1 .. n
                            /\ e[r.tab[Probe(r, h, k)].idx].key = key}
  BY DEF Hits
<1> HIDE DEF G, cap, n
<1>5. ASSUME NEW i \in At(e, key)
      PROVE  /\ i \in 1 .. n /\ HashAt(e, i) = h /\ d[i] \in Nat
             /\ r.tab[Probe(r, h, d[i])].idx = i /\ r.tab[Probe(r, h, d[i])].h = h
             /\ d[i] \in Hits(e, r, key)
  <2>1. i \in 1 .. n /\ HashAt(e, i) = h /\ e[i].key = key
    BY DEF At, HashAt, n
  <2>2. r.tab[Probe(r, HashAt(e, i), d[i])] = [h |-> HashAt(e, i), idx |-> i]
    BY <2>1, <1>2 DEF Placed
  <2>3. r.tab[Probe(r, h, d[i])] = [h |-> h, idx |-> i]
    BY <2>1, <2>2
  <2>4. r.tab[Probe(r, h, d[i])].h = h /\ r.tab[Probe(r, h, d[i])].idx = i /\ i # 0
    BY <2>1, <2>3
  <2>5. d[i] \in 0 .. cap - 1
    BY <2>1, <1>2
  <2>6. d[i] # G
    BY <2>4, <1>1
  <2>7. ~ (G < d[i])
    <3> SUFFICES ASSUME G < d[i] PROVE FALSE
      OBVIOUS
    <3>1. G \in 0 .. d[i] - 1
      BY <2>5, <1>1, <1>3
    <3>2. r.tab[Probe(r, HashAt(e, i), G)].idx # 0
      BY <2>1, <3>1, <1>2 DEF Placed
    <3> QED BY <3>2, <2>1, <1>1
  <2>8. d[i] \in 0 .. G - 1
    BY <2>5, <2>6, <2>7, <1>1, <1>3
  <2> QED BY <2>1, <2>4, <2>5, <2>8, <1>4
<1>6. ASSUME NEW k \in Hits(e, r, key)
      PROVE  \E i \in At(e, key) : k = d[i]
  <2>1. /\ k \in 0 .. G - 1 /\ r.tab[Probe(r, h, k)].idx \in 1 .. n
        /\ e[r.tab[Probe(r, h, k)].idx].key = key
    BY <1>4
  <2>2. k \in 0 .. cap - 1
    BY <2>1, <1>1, <1>3
  <2>3. Probe(r, h, k) \in 1 .. cap
    BY <2>2, <1>3, RoundOnce, ProbeIs DEF cap
  <2>4. PICK i \in 1 .. n : Probe(r, h, k) = Probe(r, HashAt(e, i), d[i])
    BY <2>1, <2>3, <1>2 DEF Placed, cap
  <2>5. r.tab[Probe(r, h, k)] = [h |-> HashAt(e, i), idx |-> i]
    BY <2>4, <1>2 DEF Placed
  <2>6. r.tab[Probe(r, h, k)].idx = i
    BY <2>5
  <2>7. i \in At(e, key) /\ HashAt(e, i) = h
    BY <2>1, <2>6 DEF At, HashAt, n
  <2>8. d[i] \in 0 .. cap - 1 /\ Round(cap, h, k) = Round(cap, h, d[i])
    BY <2>4, <2>7, <1>2, ProbeIs DEF cap
  <2>9. k = d[i]
    <3>1. \A a, b \in 0 .. cap - 1 : Round(cap, h, a) = Round(cap, h, b) => a = b
      BY <1>3, RoundOnce
    <3> QED BY <3>1, <2>2, <2>8
  <2> QED BY <2>7, <2>9
<1>7. Hits(e, r, key) = {d[i] : i \in At(e, key)}
  BY <1>5, <1>6
<1>8. ASSUME NEW i \in At(e, key), NEW j \in At(e, key), i < j
      PROVE  d[i] < d[j]
  <2>1. i \in 1 .. n /\ j \in 1 .. n /\ HashAt(e, i) = HashAt(e, j)
    BY <1>5
  <2> QED BY <2>1, <1>2, <1>8 DEF Placed
<1> QED BY <1>2, <1>5, <1>7, <1>8 DEF n, cap

(* What env_index_find answers is the place a walk over the vector would   *)
(* come to.                                                                *)
LEMMA FindIs ==
  ASSUME MinCap \in Nat \ {0}, HashesOk, NEW e, IsEnv(e), NEW ix, IxOk(e, ix),
         NEW key \in Keys
  PROVE  env_index_find(e, ix, key) = Place(e, key)
<1>1. Indexed(e, Len(e), Ready(e, ix))
  BY ReadyIs
<1>2. PICK r : r = Ready(e, ix)
  OBVIOUS
<1>3. PICK h : h = HashOf[key]
  OBVIOUS
<1>4. h \in Nat
  BY <1>3 DEF HashesOk
<1>5. /\ Len(e) \in Nat /\ DOMAIN e = 1 .. Len(e)
      /\ \A i \in 1 .. Len(e) : HashAt(e, i) \in Nat
  BY HashesAre
<1>6. Indexed(e, Len(e), r)
  BY <1>1, <1>2
<1>7. PICK d \in [1 .. Len(e) -> 0 .. Cap(r) - 1] :
           /\ Hits(e, r, key) = {d[i] : i \in At(e, key)}
           /\ \A i \in At(e, key) : r.tab[Probe(r, h, d[i])].idx = i
           /\ \A i, j \in At(e, key) : i < j => d[i] < d[j]
  BY <1>3, <1>4, <1>5, <1>6, HitsAre
<1> DEFINE H == Hits(e, r, key)
           p == Place(e, key)
<1>8. env_index_find(e, ix, key) = IF H = {} THEN 0 ELSE r.tab[Probe(r, h, Min(H))].idx
  BY <1>2, <1>3 DEF env_index_find
<1>9. \A i \in At(e, key) : i \in 1 .. Len(e) /\ d[i] \in Nat
  <2> SUFFICES ASSUME NEW i \in At(e, key) PROVE i \in 1 .. Len(e) /\ d[i] \in Nat
    OBVIOUS
  <2>1. i \in 1 .. Len(e)
    BY DEF At
  <2>2. d[i] \in 0 .. Cap(r) - 1
    BY <2>1
  <2> QED BY <2>1, <2>2
<1>10. H = {d[i] : i \in At(e, key)}
  BY <1>7
<1> HIDE DEF H
<1>11. CASE At(e, key) = {}
  <2>1. p = 0
    BY <1>5, <1>11, PlaceIs
  <2> QED BY <2>1, <1>8, <1>10, <1>11
<1>12. CASE At(e, key) # {}
  <2>1. p \in At(e, key) /\ \A i \in At(e, key) : p <= i
    BY <1>5, <1>12, PlaceIs
  <2> HIDE DEF p
  <2>2. d[p] \in H /\ \A y \in H : d[p] <= y
    <3>1. ASSUME NEW i \in At(e, key)
          PROVE  d[p] <= d[i]
      <4>1. CASE i = p
        BY <4>1, <1>9
      <4>2. CASE i # p
        <5>1. p < i
          BY <4>2, <2>1, <1>9
        <5>2. d[p] < d[i]
          BY <5>1, <2>1, <1>7
        <5> QED BY <5>2, <2>1, <1>9
      <4> QED BY <4>1, <4>2
    <3> QED BY <3>1, <2>1, <1>10
  <2>3. H \subseteq Nat
    BY <1>9, <1>10
  <2>4. Min(H) = d[p]
    BY <2>2, <2>3, MinIs
  <2>5. env_index_find(e, ix, key) = r.tab[Probe(r, h, d[p])].idx
    BY <2>2, <2>4, <1>8
  <2> QED BY <2>1, <2>5, <1>7 DEF p
<1> QED BY <1>11, <1>12

-----------------------------------------------------------------------------
(* The vector.                                                             *)

LEMMA EnvParts ==
  ASSUME NEW e, IsEnv(e)
  PROVE  /\ Len(e) \in Nat /\ e = [i \in 1 .. Len(e) |-> e[i]] /\ DOMAIN e = 1 .. Len(e)
         /\ \A i \in 1 .. Len(e) : IsRec(e[i])
BY DEF IsEnv

LEMMA EnvFrom ==
  ASSUME NEW n \in Nat, NEW e, e = [i \in 1 .. n |-> e[i]], \A i \in 1 .. n : IsRec(e[i])
  PROVE  IsEnv(e) /\ Len(e) = n
<1> DEFINE R == {e[i] : i \in 1 .. n}
<1>1. e \in [1 .. n -> R] /\ \A r \in R : IsRec(r)
  OBVIOUS
<1> HIDE DEF R
<1>2. e \in Seq(R)
  BY <1>1, SeqDef
<1>3. Len(e) = n
  BY <1>1, <1>2
<1> QED BY <1>1, <1>2, <1>3 DEF IsEnv

LEMMA SameKeys ==
  ASSUME NEW e, NEW f, NEW m \in Nat, \A i \in 1 .. m : f[i].key = e[i].key,
         NEW ix, Indexed(e, m, ix)
  PROVE  Indexed(f, m, ix)
<1>1. \A i \in 1 .. m : HashAt(f, i) = HashAt(e, i)
  BY DEF HashAt
<1>2. PICK d \in [1 .. m -> 0 .. Cap(ix) - 1] : Placed(e, m, ix, d)
  BY DEF Indexed
<1>3. Placed(f, m, ix, d)
  BY <1>1, <1>2 DEF Placed
<1> QED BY <1>3 DEF Indexed

Unique(e) == \A i, j \in 1 .. Len(e) : e[i].key = e[j].key => i = j
ValueOf(e, n) == IF Place(e, n) = 0 THEN None ELSE e[Place(e, n)].value

LEMMA ValueAt ==
  ASSUME NEW e, Len(e) \in Nat, Unique(e), NEW i \in 1 .. Len(e), NEW n, e[i].key = n
  PROVE  Place(e, n) = i /\ ValueOf(e, n) = e[i].value
<1>1. i \in At(e, n) /\ \A j \in At(e, n) : j = i
  BY DEF At, Unique
<1>2. Place(e, n) = i /\ i # 0
  BY <1>1, PlaceIs
<1> QED BY <1>2 DEF ValueOf

LEMMA ValueNone ==
  ASSUME NEW e, Len(e) \in Nat, NEW n, \A i \in 1 .. Len(e) : e[i].key # n
  PROVE  Place(e, n) = 0 /\ ValueOf(e, n) = None
<1>1. At(e, n) = {}
  BY DEF At
<1>2. Place(e, n) = 0
  BY <1>1, PlaceIs
<1> QED BY <1>2 DEF ValueOf

LEMMA PlaceHas ==
  ASSUME NEW e, Len(e) \in Nat, NEW n
  PROVE  /\ Place(e, n) # 0 => Place(e, n) \in 1 .. Len(e) /\ e[Place(e, n)].key = n
         /\ Place(e, n) = 0 => \A i \in 1 .. Len(e) : e[i].key # n
<1>1. CASE At(e, n) = {}
  BY <1>1, PlaceIs DEF At
<1>2. CASE At(e, n) # {}
  <2>1. Place(e, n) \in At(e, n)
    BY <1>2, PlaceIs
  <2> QED BY <2>1 DEF At
<1> QED BY <1>1, <1>2

(* The vector f is e with the one variable n given the value v.            *)
Gives(e, n, v, f) ==
  /\ IsEnv(f) /\ Unique(f)
  /\ \A k : ValueOf(f, k) = IF k = n THEN v ELSE ValueOf(e, k)
SameNames(e, f) == Len(f) = Len(e) /\ \A j \in 1 .. Len(e) : f[j].key = e[j].key

(* One record written.                                                     *)
Written(e, i, v, f) ==
  \E b : f = [e EXCEPT ![i] = [key |-> e[i].key, value |-> v, exported |-> b]]

LEMMA WriteKeeps ==
  ASSUME NEW e, IsEnv(e), Unique(e), NEW i \in 1 .. Len(e), NEW v, NEW f, Written(e, i, v, f)
  PROVE  Gives(e, e[i].key, v, f) /\ SameNames(e, f)
<1>0. PICK b : f = [e EXCEPT ![i] = [key |-> e[i].key, value |-> v, exported |-> b]]
  BY DEF Written
<1> DEFINE n == Len(e)
           rec == [key |-> e[i].key, value |-> v, exported |-> b]
<1>1. /\ n \in Nat /\ e = [j \in 1 .. n |-> e[j]] /\ DOMAIN e = 1 .. n
      /\ \A j \in 1 .. n : IsRec(e[j])
  BY EnvParts
<1>2. rec.key = e[i].key /\ rec.value = v /\ IsRec(rec)
  BY <1>1 DEF IsRec
<1> HIDE DEF rec, n
<1>3. /\ f = [j \in 1 .. n |-> f[j]] /\ f[i] = rec
      /\ \A j \in 1 .. n : j # i => f[j] = e[j]
  BY <1>0, <1>1 DEF rec, n
<1>4. i \in 1 .. n /\ \A j \in 1 .. n : IsRec(f[j])
  BY <1>1, <1>2, <1>3 DEF n
<1>5. IsEnv(f) /\ Len(f) = n
  BY <1>1, <1>3, <1>4, EnvFrom
<1>6. \A j \in 1 .. n : f[j].key = e[j].key
  BY <1>2, <1>3
<1>7. Unique(f)
  BY <1>5, <1>6 DEF Unique, n
<1>8. ASSUME NEW k
      PROVE  ValueOf(f, k) = IF k = e[i].key THEN v ELSE ValueOf(e, k)
  <2>1. CASE \E j \in 1 .. n : e[j].key = k
    <3>1. PICK j \in 1 .. n : e[j].key = k
      BY <2>1
    <3>2. f[j].key = k
      BY <3>1, <1>6
    <3>3. ValueOf(f, k) = f[j].value
      BY <3>2, <1>1, <1>5, <1>7, ValueAt
    <3>4. ValueOf(e, k) = e[j].value
      BY <3>1, <1>1, ValueAt DEF n
    <3>5. (k = e[i].key) = (j = i)
      BY <3>1, <1>4 DEF Unique, n
    <3> QED BY <3>3, <3>4, <3>5, <1>2, <1>3
  <2>2. CASE ~ \E j \in 1 .. n : e[j].key = k
    <3>1. ValueOf(f, k) = None
      BY <2>2, <1>1, <1>5, <1>6, ValueNone
    <3>2. ValueOf(e, k) = None
      BY <2>2, <1>1, ValueNone DEF n
    <3> QED BY <3>1, <3>2, <2>2, <1>4
  <2> QED BY <2>1, <2>2
<1> QED BY <1>5, <1>6, <1>7, <1>8 DEF n, Gives, SameNames

(* One record more.                                                        *)
Grown(e, el, n, f) ==
  /\ n = Len(e) /\ f = [j \in 1 .. n + 1 |-> f[j]] /\ f[n + 1] = el
  /\ \A j \in 1 .. n : f[j] = e[j]

LEMMA GrownIs ==
  ASSUME NEW e, IsEnv(e), NEW el
  PROVE  Grown(e, el, Len(e), Append(e, el))
<1>1. PICK R : e \in Seq(R)
  BY DEF IsEnv
<1>2. e \in Seq(R \cup {el}) /\ el \in R \cup {el}
  <2>1. e \in [1 .. Len(e) -> R] /\ Len(e) \in Nat
    BY <1>1
  <2>2. e \in [1 .. Len(e) -> R \cup {el}]
    BY <2>1
  <2> QED BY <2>1, <2>2, SeqDef
<1>3. PICK Q : Q = R \cup {el}
  OBVIOUS
<1>4. e \in Seq(Q) /\ el \in Q
  BY <1>2, <1>3
<1>5. PICK f : f = Append(e, el)
  OBVIOUS
<1>6. /\ f \in Seq(Q) /\ Len(f) = Len(e) + 1 /\ f[Len(e) + 1] = el
      /\ \A j \in 1 .. Len(e) : f[j] = e[j]
  BY <1>4, <1>5
<1>7. f = [j \in 1 .. Len(e) + 1 |-> f[j]]
  BY <1>4, <1>6
<1> QED BY <1>5, <1>6, <1>7 DEF Grown

LEMMA AppendKeeps ==
  ASSUME NEW e, IsEnv(e), Unique(e), NEW el, IsRec(el), Place(e, el.key) = 0, NEW f,
         NEW n \in Nat, Grown(e, el, n, f)
  PROVE  Gives(e, el.key, el.value, f) /\ Len(f) = n + 1
<1>0. n = Len(e) /\ f = [j \in 1 .. n + 1 |-> f[j]]
  BY DEF Grown
<1>1. n \in Nat /\ \A j \in 1 .. n : IsRec(e[j])
  BY <1>0, EnvParts
<1>2. f[n + 1] = el /\ \A j \in 1 .. n : f[j] = e[j]
  BY DEF Grown
<1>3. \A j \in 1 .. n + 1 : IsRec(f[j])
  BY <1>1, <1>2
<1>4. IsEnv(f) /\ Len(f) = n + 1
  <2>1. n + 1 \in Nat
    BY <1>1
  <2> QED BY <1>0, <2>1, <1>2, <1>3, EnvFrom
<1>5. \A j \in 1 .. n : e[j].key # el.key
  BY <1>0, <1>1, PlaceHas
<1>6. Unique(f)
  <2> SUFFICES ASSUME NEW i \in 1 .. n + 1, NEW j \in 1 .. n + 1, f[i].key = f[j].key
               PROVE  i = j
    BY <1>4 DEF Unique
  <2>1. CASE i \in 1 .. n /\ j \in 1 .. n
    BY <1>0, <2>1, <1>2 DEF Unique
  <2>2. CASE i = n + 1 /\ j \in 1 .. n
    BY <2>2, <1>2, <1>5
  <2>3. CASE j = n + 1 /\ i \in 1 .. n
    BY <2>3, <1>2, <1>5
  <2>4. CASE i = n + 1 /\ j = n + 1
    BY <2>4
  <2> QED BY <2>1, <2>2, <2>3, <2>4, <1>1
<1>7. ASSUME NEW k
      PROVE  ValueOf(f, k) = IF k = el.key THEN el.value ELSE ValueOf(e, k)
  <2>1. CASE k = el.key
    <3>1. n + 1 \in 1 .. Len(f) /\ f[n + 1].key = k
      BY <2>1, <1>1, <1>2, <1>4
    <3>2. ValueOf(f, k) = f[n + 1].value
      BY <3>1, <1>1, <1>4, <1>6, ValueAt
    <3> QED BY <3>2, <2>1, <1>2
  <2>2. CASE k # el.key /\ \E j \in 1 .. n : e[j].key = k
    <3>1. PICK j \in 1 .. n : e[j].key = k
      BY <2>2
    <3>2. f[j] = e[j] /\ j \in 1 .. Len(f)
      BY <1>1, <1>2, <1>4
    <3>3. ValueOf(f, k) = f[j].value
      BY <3>1, <3>2, <1>1, <1>4, <1>6, ValueAt
    <3>4. ValueOf(e, k) = e[j].value
      BY <1>0, <3>1, <1>1, ValueAt
    <3> QED BY <2>2, <3>2, <3>3, <3>4
  <2>3. CASE k # el.key /\ ~ \E j \in 1 .. n : e[j].key = k
    <3>1. \A j \in 1 .. n + 1 : f[j].key # k
      BY <2>3, <1>1, <1>2
    <3>2. ValueOf(f, k) = None
      BY <3>1, <1>1, <1>4, ValueNone
    <3>3. ValueOf(e, k) = None
      BY <1>0, <2>3, <1>1, ValueNone
    <3> QED BY <3>2, <3>3, <2>3
  <2> QED BY <2>1, <2>2, <2>3
<1> QED BY <1>4, <1>6, <1>7 DEF Gives

LEMMA AddKeeps ==
  ASSUME MinCap \in Nat \ {0}, HashesOk, NEW e, IsEnv(e), NEW ix, IxOk(e, ix),
         NEW f, IsEnv(f), Len(f) = Len(e) + 1, \A i \in 1 .. Len(e) : f[i] = e[i]
  PROVE  IxOk(f, env_index_add(f, ix, Len(f)))
<1> DEFINE n == Len(e)
           h == HashAt(f, n + 1)
<1>1. /\ n \in Nat /\ Len(f) = n + 1 /\ ix \in Tabs
      /\ \A i \in 1 .. n + 1 : HashAt(f, i) \in Nat
  BY HashesAre DEF IxOk
<1>2. CASE ix.dirty
  BY <1>2 DEF env_index_add, IxOk, Tabs
<1>3. CASE ~ ix.dirty
  <2>1. ix.dirty = FALSE
    BY <1>1, <1>3 DEF Tabs
  <2>2. Indexed(e, n, ix)
    BY <2>1 DEF IxOk
  <2>3. \A i \in 1 .. n : f[i].key = e[i].key
    OBVIOUS
  <2> HIDE DEF n
  <2>4. Indexed(f, n, ix)
    BY <2>2, <2>3, <1>1, SameKeys
  <2>5. CASE ix.tab = << >> \/ (ix.count + 1) * 10 >= Cap(ix) * 7
    <3>1. env_index_add(f, ix, Len(f)) = env_index_reset(f)
      BY <2>5, <1>3 DEF env_index_add
    <3>2. Indexed(f, Len(f), env_index_reset(f))
      BY ResetIs
    <3> QED BY <3>1, <3>2 DEF IxOk, Indexed
  <2>6. CASE ~ (ix.tab = << >> \/ (ix.count + 1) * 10 >= Cap(ix) * 7)
    <3>1. env_index_add(f, ix, Len(f)) = eix_put(ix, h, n + 1)
      BY <2>6, <1>1, <1>3 DEF env_index_add, HashAt
    <3>2. n + 1 < Cap(ix)
      <4>1. ix.count = n /\ Cap(ix) \in Nat
        BY <2>4, <1>1 DEF Indexed, Tabs, Cap
      <4>2. ~ ((n + 1) * 10 >= Cap(ix) * 7)
        BY <4>1, <2>6
      <4> QED BY <4>1, <4>2, <1>1
    <3>3. h \in Nat /\ \A i \in 1 .. n : HashAt(f, i) \in Nat
      BY <1>1
    <3>4. PICK g : g = h
      OBVIOUS
    <3>5. g \in Nat /\ g = HashAt(f, n + 1)
      BY <3>3, <3>4
    <3>6. Indexed(f, n + 1, eix_put(ix, g, n + 1))
      BY <3>2, <3>3, <3>5, <2>4, <1>1, PutKeeps
    <3> QED BY <3>1, <3>4, <3>6, <1>1 DEF IxOk, Indexed
  <2> QED BY <2>5, <2>6
<1> QED BY <1>2, <1>3

(* One record less.                                                        *)
Removed(e, i, n, f) ==
  /\ n = Len(e) /\ f = [j \in 1 .. n - 1 |-> f[j]]
  /\ \A j \in 1 .. n - 1 : f[j] = e[IF j < i THEN j ELSE j + 1]

LEMMA RemovedIs ==
  ASSUME NEW e, IsEnv(e), NEW n \in Nat, n = Len(e), NEW i \in 1 .. n
  PROVE  Removed(e, i, n, RemoveAt(e, i))
<1> DEFINE a == SubSeq(e, 1, i - 1)
           b == SubSeq(e, i + 1, Len(e))
           f == RemoveAt(e, i)
<1>1. PICK R : e \in Seq(R)
  BY DEF IsEnv
<1>2. a \in Seq(R) /\ Len(a) = i - 1 /\ \A j \in 1 .. i - 1 : a[j] = e[j]
  BY <1>1
<1>3. b \in Seq(R) /\ Len(b) = n - i /\ \A j \in 1 .. n - i : b[j] = e[i + j]
  BY <1>1
<1>4. f = a \o b
  BY DEF RemoveAt
<1> HIDE DEF a, b, f
<1>5. f \in Seq(R) /\ Len(f) = n - 1
  BY <1>2, <1>3, <1>4
<1>6. ASSUME NEW j \in 1 .. n - 1
      PROVE  f[j] = e[IF j < i THEN j ELSE j + 1]
  <2>1. CASE j < i
    BY <2>1, <1>2, <1>3, <1>4
  <2>2. CASE ~ j < i
    <3>1. f[j] = b[j - Len(a)]
      BY <2>2, <1>2, <1>3, <1>4
    <3>2. j - Len(a) \in 1 .. n - i /\ i + (j - Len(a)) = j + 1
      BY <2>2, <1>2
    <3> QED BY <3>1, <3>2, <2>2, <1>3
  <2> QED BY <2>1, <2>2
<1>7. f = [j \in 1 .. n - 1 |-> f[j]]
  BY <1>5
<1> QED BY <1>6, <1>7 DEF f, Removed

LEMMA RemoveKeeps ==
  ASSUME NEW e, IsEnv(e), Unique(e), NEW n \in Nat, NEW i \in 1 .. n, NEW f, Removed(e, i, n, f)
  PROVE  Gives(e, e[i].key, None, f)
<1> USE DEF Removed
<1>1. n - 1 \in Nat /\ \A j \in 1 .. n : IsRec(e[j])
  BY EnvParts
<1>2. \A j \in 1 .. n - 1 : IsRec(f[j])
  BY <1>1
<1>3. IsEnv(f) /\ Len(f) = n - 1
  BY <1>1, <1>2, EnvFrom
<1>4. \A j, k \in 1 .. n : e[j].key = e[k].key => j = k
  BY DEF Unique
<1>5. ASSUME NEW j \in 1 .. n - 1, NEW k \in 1 .. n - 1, f[j].key = f[k].key
      PROVE  j = k
  <2> DEFINE J == IF j < i THEN j ELSE j + 1
             K == IF k < i THEN k ELSE k + 1
  <2>1. J \in 1 .. n /\ K \in 1 .. n /\ f[j] = e[J] /\ f[k] = e[K]
    OBVIOUS
  <2>2. J = K => j = k
    OBVIOUS
  <2> HIDE DEF J, K
  <2>3. J = K
    BY <2>1, <1>4, <1>5
  <2> QED BY <2>2, <2>3
<1>6. Unique(f)
  BY <1>3, <1>5 DEF Unique
<1>7. ASSUME NEW k
      PROVE  ValueOf(f, k) = IF k = e[i].key THEN None ELSE ValueOf(e, k)
  <2>1. CASE k # e[i].key /\ \E j \in 1 .. n : e[j].key = k
    <3>1. PICK j \in 1 .. n : e[j].key = k
      BY <2>1
    <3>2. j # i
      BY <2>1, <3>1
    <3> DEFINE m == IF j < i THEN j ELSE j - 1
    <3>3. m \in 1 .. n - 1 /\ f[m] = e[j]
      BY <3>2
    <3> HIDE DEF m
    <3>4. m \in 1 .. Len(f) /\ Len(f) \in Nat /\ f[m].key = k
      BY <3>1, <3>3, <1>1, <1>3
    <3>5. ValueOf(f, k) = f[m].value
      BY <3>4, <1>6, ValueAt
    <3>6. ValueOf(e, k) = e[j].value
      BY <3>1, ValueAt
    <3> QED BY <3>3, <3>5, <3>6, <2>1
  <2>2. CASE k = e[i].key
    <3>1. \A j \in 1 .. n - 1 : f[j].key # k
      <4> SUFFICES ASSUME NEW j \in 1 .. n - 1, f[j].key = k PROVE FALSE
        OBVIOUS
      <4> DEFINE J == IF j < i THEN j ELSE j + 1
      <4>1. J \in 1 .. n /\ J # i /\ f[j] = e[J]
        OBVIOUS
      <4> HIDE DEF J
      <4> QED BY <4>1, <2>2, <1>4
    <3>2. ValueOf(f, k) = None
      BY <3>1, <1>1, <1>3, ValueNone
    <3> QED BY <3>2, <2>2
  <2>3. CASE k # e[i].key /\ ~ \E j \in 1 .. n : e[j].key = k
    <3>1. \A j \in 1 .. n - 1 : f[j].key # k
      <4> SUFFICES ASSUME NEW j \in 1 .. n - 1 PROVE f[j].key # k
        OBVIOUS
      <4> DEFINE J == IF j < i THEN j ELSE j + 1
      <4>1. J \in 1 .. n /\ f[j] = e[J]
        OBVIOUS
      <4> HIDE DEF J
      <4> QED BY <4>1, <2>3
    <3>2. ValueOf(f, k) = None
      BY <3>1, <1>1, <1>3, ValueNone
    <3>3. ValueOf(e, k) = None
      BY <2>3, ValueNone
    <3> QED BY <3>2, <3>3, <2>3
  <2> QED BY <2>1, <2>2, <2>3
<1> QED BY <1>3, <1>6, <1>7 DEF Gives

-----------------------------------------------------------------------------
(* The table.                                                              *)

Room == MinCap \in Nat \ {0} /\ HashesOk
TableOk(t) ==
  /\ t = [env |-> t.env, ix |-> t.ix]
  /\ IsEnv(t.env) /\ Unique(t.env) /\ IxOk(t.env, t.ix)

LEMMA TableFrom ==
  ASSUME NEW e, IsEnv(e), Unique(e), NEW ix, IxOk(e, ix), NEW t, t = [env |-> e, ix |-> ix]
  PROVE  TableOk(t) /\ t.env = e /\ t.ix = ix
BY DEF TableOk

LEMMA SearchedIs ==
  ASSUME Room, NEW t, TableOk(t)
  PROVE  TableOk(Searched(t)) /\ Searched(t) = [env |-> t.env, ix |-> Ready(t.env, t.ix)]
<1>1. PICK e, ix : t = [env |-> e, ix |-> ix] /\ e = t.env /\ ix = t.ix
  BY DEF TableOk
<1>2. IsEnv(e) /\ Unique(e) /\ IxOk(e, ix)
  BY <1>1 DEF TableOk
<1>3. PICK r : r = Ready(e, ix)
  OBVIOUS
<1>4. Searched(t) = [env |-> e, ix |-> r]
  BY <1>1, <1>3 DEF Searched
<1>5. IxOk(e, r)
  <2>1. Indexed(e, Len(e), r)
    BY <1>2, <1>3, ReadyIs DEF Room
  <2> QED BY <2>1 DEF IxOk, Indexed
<1>6. TableOk(Searched(t))
  BY <1>2, <1>4, <1>5, TableFrom
<1> QED BY <1>1, <1>3, <1>4, <1>6

LEMMA PlaceFound ==
  ASSUME Room, NEW t, TableOk(t), NEW n \in Keys
  PROVE  env_index_find(t.env, t.ix, n) = Place(t.env, n)
BY FindIs DEF Room, TableOk

LEMMA GetIs ==
  ASSUME Room, NEW t, TableOk(t), NEW n \in Keys
  PROVE  IsRec(env_get(t, n)) /\ env_get(t, n).key = n /\ env_get(t, n).value = ValueOf(t.env, n)
<1> DEFINE p == Place(t.env, n)
<1>1. env_get(t, n) = IF p = 0 THEN env_create(n, None, FALSE) ELSE t.env[p]
  BY PlaceFound DEF env_get
<1>2. Len(t.env) \in Nat /\ \A i \in 1 .. Len(t.env) : IsRec(t.env[i])
  BY EnvParts DEF TableOk
<1>3. CASE p = 0
  <2>1. env_get(t, n) = [key |-> n, value |-> None, exported |-> FALSE]
    BY <1>1, <1>3 DEF env_create
  <2> QED BY <2>1, <1>3 DEF IsRec, ValueOf
<1>4. CASE p # 0
  <2>1. p \in 1 .. Len(t.env) /\ t.env[p].key = n
    BY <1>2, <1>4, PlaceHas
  <2>2. env_get(t, n) = t.env[p]
    BY <1>1, <1>4
  <2> QED BY <2>1, <2>2, <1>2, <1>4 DEF ValueOf
<1> QED BY <1>3, <1>4

LEMMA WriteIs ==
  ASSUME NEW e, IsEnv(e), NEW i \in 1 .. Len(e), NEW r, NEW s, s = [env |-> e, ix |-> r], NEW el
  PROVE  \E f : Written(e, i, el.value, f) /\ env_set_found(s, el, i) = [env |-> f, ix |-> r]
<1>1. /\ e = [j \in 1 .. Len(e) |-> e[j]] /\ DOMAIN e = 1 .. Len(e)
      /\ e[i] = [key |-> e[i].key, value |-> e[i].value, exported |-> e[i].exported]
  BY EnvParts DEF IsRec
<1>2. PICK k, v, x : e[i] = [key |-> k, value |-> v, exported |-> x]
  BY <1>1
<1>3. PICK b : b = (x \/ el.exported)
  OBVIOUS
<1>4. i # 0
  BY EnvParts
<1> DEFINE e1 == [e EXCEPT ![i] = [key |-> k, value |-> el.value, exported |-> x]]
           e2 == [e EXCEPT ![i] = [key |-> k, value |-> el.value, exported |-> b]]
<1>5. [e EXCEPT ![i].value = el.value] = e1
  <2>1. [e[i] EXCEPT !.value = el.value] = [key |-> k, value |-> el.value, exported |-> x]
    BY <1>2
  <2> QED BY <2>1
<1>6. e1[i] = [key |-> k, value |-> el.value, exported |-> x]
  BY <1>1
<1>7. [e1 EXCEPT ![i].exported = b] = e2
  <2>1. [e1[i] EXCEPT !.exported = b] = [key |-> k, value |-> el.value, exported |-> b]
    BY <1>6
  <2>2. [e1 EXCEPT ![i] = [key |-> k, value |-> el.value, exported |-> b]] = e2
    OBVIOUS
  <2> HIDE DEF e1, e2
  <2> QED BY <2>1, <2>2
<1>8. env_set_found(s, el, i) = [[s EXCEPT !.env[i].value = el.value]
                                   EXCEPT !.env[i].exported = @ \/ el.exported]
  BY <1>4 DEF env_set_found
<1> HIDE DEF e1, e2
<1>9. [s EXCEPT !.env[i].value = el.value] = [env |-> e1, ix |-> r]
  BY <1>5
<1>10. [[env |-> e1, ix |-> r] EXCEPT !.env[i].exported = @ \/ el.exported]
         = [env |-> [e1 EXCEPT ![i].exported = b], ix |-> r]
  <2>1. e1[i].exported = x
    BY <1>6
  <2> QED BY <2>1, <1>3
<1>11. env_set_found(s, el, i) = [env |-> e2, ix |-> r]
  BY <1>7, <1>8, <1>9, <1>10
<1>12. e[i].key = k
  BY <1>2
<1>13. Written(e, i, el.value, e2)
  BY <1>12 DEF Written, e2
<1> QED BY <1>11, <1>13

(* A write is read back, and no other variable is touched.                 *)
LEMMA SetIs ==
  ASSUME Room, NEW t, TableOk(t), NEW el, IsRec(el)
  PROVE  TableOk(env_set(t, el)) /\ Gives(t.env, el.key, el.value, env_set(t, el).env)
<1>1. PICK e, r : e = t.env /\ r = Ready(t.env, t.ix)
  OBVIOUS
<1>2. PICK s : s = Searched(t)
  OBVIOUS
<1>3. TableOk(s) /\ s = [env |-> e, ix |-> r] /\ s.env = e /\ s.ix = r
  BY <1>1, <1>2, SearchedIs
<1>4. IsEnv(e) /\ Unique(e) /\ IxOk(e, r) /\ Len(e) \in Nat
  BY <1>3, EnvParts DEF TableOk
<1>5. PICK i : i = Place(e, el.key)
  OBVIOUS
<1>6. env_set(t, el) = env_set_found(s, el, i)
  <2>1. el.key \in Keys
    BY DEF IsRec
  <2>2. env_index_find(s.env, s.ix, el.key) = i
    BY <2>1, <1>3, <1>5, PlaceFound
  <2> QED BY <2>2, <1>2 DEF env_set, env_set_searched
<1>7. CASE i # 0
  <2>1. i \in 1 .. Len(e) /\ e[i].key = el.key
    BY <1>4, <1>5, <1>7, PlaceHas
  <2>2. PICK f : Written(e, i, el.value, f) /\ env_set_found(s, el, i) = [env |-> f, ix |-> r]
    BY <2>1, <1>3, <1>4, WriteIs
  <2>3. Gives(e, e[i].key, el.value, f) /\ SameNames(e, f)
    BY <2>1, <2>2, <1>4, WriteKeeps
  <2>4. IsEnv(f) /\ Unique(f)
    BY <2>3 DEF Gives
  <2>5. IxOk(f, r)
    <3>1. r \in Tabs /\ (r.dirty = FALSE => Indexed(e, Len(e), r))
      BY <1>4 DEF IxOk
    <3>2. PICK n : n = Len(e)
      OBVIOUS
    <3>3. n \in Nat /\ Len(f) = n /\ \A j \in 1 .. n : f[j].key = e[j].key
      BY <3>2, <2>3, <1>4 DEF SameNames
    <3>4. r.dirty = FALSE => Indexed(f, n, r)
      BY <3>1, <3>2, <3>3, SameKeys
    <3> QED BY <3>1, <3>3, <3>4 DEF IxOk
  <2>6. env_set(t, el) = [env |-> f, ix |-> r]
    BY <1>6, <2>2
  <2>7. TableOk(env_set(t, el)) /\ env_set(t, el).env = f
    BY <2>4, <2>5, <2>6, TableFrom
  <2> QED BY <2>1, <2>3, <2>7, <1>1
<1>8. CASE i = 0
  <2>1. PICK f : f = Append(e, el)
    OBVIOUS
  <2>2. PICK n : n = Len(e)
    OBVIOUS
  <2>3. Grown(e, el, n, f)
    BY <2>1, <2>2, <1>4, GrownIs
  <2>4. n \in Nat
    BY <2>2, <1>4
  <2>5. Place(e, el.key) = 0
    BY <1>5, <1>8
  <2>6. Gives(e, el.key, el.value, f) /\ Len(f) = n + 1
    BY <2>2, <2>3, <2>4, <2>5, <1>4, AppendKeeps
  <2>a. IsEnv(f) /\ Unique(f) /\ \A j \in 1 .. n : f[j] = e[j]
    BY <2>3, <2>6 DEF Gives, Grown
  <2>7. PICK x : x = env_index_add(f, r, Len(f))
    OBVIOUS
  <2>8. IxOk(f, x)
    BY <2>2, <2>a, <2>6, <2>7, <1>4, AddKeeps DEF Room
  <2>9. env_set(t, el) = [env |-> f, ix |-> x]
    BY <2>1, <2>7, <1>3, <1>6, <1>8 DEF env_set_found
  <2>10. TableOk(env_set(t, el)) /\ env_set(t, el).env = f
    BY <2>a, <2>8, <2>9, TableFrom
  <2> QED BY <2>6, <2>10, <1>1
<1> QED BY <1>7, <1>8

(* A removal takes that variable alone.                                    *)
LEMMA UnsetIs ==
  ASSUME Room, NEW t, TableOk(t), NEW n \in Keys
  PROVE  TableOk(unset_raw(t, n)) /\ Gives(t.env, n, None, unset_raw(t, n).env)
<1>1. CASE env_get(t, n).value = None
  <2>1. unset_raw(t, n) = Searched(t)
    BY <1>1 DEF unset_raw
  <2>2. TableOk(Searched(t)) /\ Searched(t).env = t.env
    BY SearchedIs
  <2>3. ValueOf(t.env, n) = None
    BY <1>1, GetIs
  <2> QED BY <2>1, <2>2, <2>3 DEF Gives, TableOk
<1>2. CASE env_get(t, n).value # None
  <2>1. PICK e, r : e = t.env /\ r = Ready(t.env, t.ix)
    OBVIOUS
  <2>2. PICK s : s = Searched(t)
    OBVIOUS
  <2>3. TableOk(s) /\ s = [env |-> e, ix |-> r] /\ s.env = e /\ s.ix = r
    BY <2>1, <2>2, SearchedIs
  <2>4. IsEnv(e) /\ Unique(e) /\ IxOk(e, r) /\ Len(e) \in Nat
    BY <2>3, EnvParts DEF TableOk
  <2>5. PICK i : i = Place(e, n)
    OBVIOUS
  <2>6. env_index_find(s.env, s.ix, n) = i
    BY <2>3, <2>5, PlaceFound
  <2>7. i # 0
    BY <1>2, <2>1, <2>5, GetIs DEF ValueOf
  <2>8. i \in 1 .. Len(e) /\ e[i].key = n
    BY <2>4, <2>5, <2>7, PlaceHas
  <2>9. PICK f : f = RemoveAt(e, i)
    OBVIOUS
  <2>10. PICK m : m = Len(e)
    OBVIOUS
  <2>11. m \in Nat /\ i \in 1 .. m
    BY <2>4, <2>8, <2>10
  <2>12. Removed(e, i, m, f)
    BY <2>4, <2>9, <2>10, <2>11, RemovedIs
  <2>13. Gives(e, e[i].key, None, f)
    BY <2>4, <2>11, <2>12, RemoveKeeps
  <2>14. PICK x : x = env_index_mark_dirty(r)
    OBVIOUS
  <2>15. IxOk(f, x)
    <3>1. r \in Tabs
      BY <2>4 DEF IxOk
    <3>2. x \in Tabs /\ x.dirty = TRUE
      BY <3>1, <2>14 DEF env_index_mark_dirty, Tabs
    <3> QED BY <3>2 DEF IxOk
  <2>16. unset_raw(t, n) = [env |-> f, ix |-> x]
    BY <1>2, <2>2, <2>3, <2>6, <2>9, <2>14 DEF unset_raw, env_drop_entry
  <2>17. TableOk(unset_raw(t, n)) /\ unset_raw(t, n).env = f
    BY <2>13, <2>15, <2>16, TableFrom DEF Gives
  <2> QED BY <2>8, <2>13, <2>17, <2>1
<1> QED BY <1>1, <1>2

-----------------------------------------------------------------------------
(* Attributes, where no reference names another.                           *)

AttrKinds == {"i", "n"}
NoTarget == ""
Targets == Names \cup {NoTarget}
Attrs == [name : Names, kind : AttrKinds, target : Targets]
IsRef(el) == el.kind = "n"
TargetOf(el) == IF IsRef(el) THEN el.target ELSE NoTarget
AttrsOk(a) ==
  /\ a \in Seq(Attrs)
  /\ \A i, j \in 1 .. Len(a) : a[i].name = a[j].name => i = j
OneHop(a) == \A n \in Names : attr_target(a, attr_target(a, n)) = NoTarget

LEMMA NoAttribute ==
  ASSUME NEW a, AttrsOk(a), NEW n, \A i \in 1 .. Len(a) : a[i].name # n
  PROVE  Attribute(a, n) = {} /\ attr_target(a, n) = NoTarget
<1>1. Attribute(a, n) = {}
  BY DEF Attribute, AttrsOk
<1>2. {i \in Attribute(a, n) : a[i].kind = "n"} = {}
  BY <1>1
<1> QED BY <1>1, <1>2 DEF attr_target, NoTarget

LEMMA TheAttribute ==
  ASSUME NEW a, AttrsOk(a), NEW i \in 1 .. Len(a), NEW n, a[i].name = n
  PROVE  /\ Attribute(a, n) = {i} /\ Min({i}) = i
         /\ attr_target(a, n) = TargetOf(a[i])
<1>1. Attribute(a, n) = {i}
  BY DEF Attribute, AttrsOk
<1>2. Min({i}) = i
  BY MinIs DEF AttrsOk
<1>3. CASE IsRef(a[i])
  <2>1. {j \in Attribute(a, n) : a[j].kind = "n"} = {i}
    BY <1>1, <1>3 DEF IsRef
  <2> QED BY <2>1, <1>1, <1>2, <1>3 DEF attr_target, TargetOf
<1>4. CASE ~ IsRef(a[i])
  <2>1. {j \in Attribute(a, n) : a[j].kind = "n"} = {}
    BY <1>1, <1>4 DEF IsRef
  <2> QED BY <2>1, <1>1, <1>2, <1>4 DEF attr_target, TargetOf, NoTarget
<1> QED BY <1>1, <1>2, <1>3, <1>4

LEMMA TargetIs ==
  ASSUME NEW a, AttrsOk(a), NEW n
  PROVE  attr_target(a, n) \in Targets
<1>1. CASE \E i \in 1 .. Len(a) : a[i].name = n
  <2>1. PICK i \in 1 .. Len(a) : a[i].name = n
    BY <1>1
  <2>2. a[i].target \in Targets
    <3>1. a[i] \in Attrs
      BY DEF AttrsOk
    <3> QED BY <3>1 DEF Attrs
  <2> QED BY <2>1, <2>2, TheAttribute DEF TargetOf, Targets
<1>2. CASE ~ \E i \in 1 .. Len(a) : a[i].name = n
  BY <1>2, NoAttribute DEF Targets
<1> QED BY <1>1, <1>2

LEMMA GrowsBy ==
  ASSUME NEW S, NEW s \in Seq(S), NEW x \in S, NEW n, n = Len(s), NEW f, f = Append(s, x)
  PROVE  /\ f \in Seq(S) /\ Len(f) = n + 1 /\ f[n + 1] = x /\ n \in Nat
         /\ \A j \in 1 .. n : f[j] = s[j]
OBVIOUS

LEMMA ChangesAt ==
  ASSUME NEW S, NEW s \in Seq(S), NEW x \in S, NEW n, n = Len(s), NEW i \in 1 .. n, NEW f,
         f = [s EXCEPT ![i] = x]
  PROVE  /\ f \in Seq(S) /\ Len(f) = n /\ f[i] = x /\ n \in Nat
         /\ \A j \in 1 .. n : j # i => f[j] = s[j]
OBVIOUS

(* The declaration of one name leaves the targets of the others.           *)
LEMMA OthersKept ==
  ASSUME NEW a, AttrsOk(a), NEW b, AttrsOk(b), NEW m,
         NEW N, N = Len(a), NEW M, M = Len(b),
         \A i \in 1 .. N : a[i].name = m => i \in 1 .. M /\ b[i] = a[i],
         \A i \in 1 .. M : b[i].name = m => i \in 1 .. N /\ b[i] = a[i]
  PROVE  attr_target(b, m) = attr_target(a, m)
<1>1. CASE \E i \in 1 .. N : a[i].name = m
  <2>1. PICK i \in 1 .. N : a[i].name = m
    BY <1>1
  <2>2. i \in 1 .. M /\ b[i] = a[i] /\ b[i].name = m
    BY <2>1
  <2>3. attr_target(a, m) = TargetOf(a[i])
    BY <2>1, TheAttribute
  <2>4. attr_target(b, m) = TargetOf(b[i])
    BY <2>2, TheAttribute
  <2> QED BY <2>2, <2>3, <2>4
<1>2. CASE ~ \E i \in 1 .. N : a[i].name = m
  <2>1. \A i \in 1 .. M : b[i].name # m
    BY <1>2
  <2> QED BY <2>1, <1>2, NoAttribute
<1> QED BY <1>1, <1>2

LEMMA AttrSetKeeps ==
  ASSUME NEW a, AttrsOk(a), NEW n \in Names, NEW k \in AttrKinds, NEW u \in Targets
  PROVE  /\ AttrsOk(attr_set(a, n, k, u))
         /\ attr_target(attr_set(a, n, k, u), n) = TargetOf([name |-> n, kind |-> k, target |-> u])
         /\ \A m : m # n => attr_target(attr_set(a, n, k, u), m) = attr_target(a, m)
<1>1. PICK one : one = [name |-> n, kind |-> k, target |-> u]
  OBVIOUS
<1>2. one \in Attrs /\ one.name = n
  BY <1>1 DEF Attrs
<1>3. PICK N : N = Len(a)
  OBVIOUS
<1>4. a \in Seq(Attrs) /\ N \in Nat /\ \A i, j \in 1 .. N : a[i].name = a[j].name => i = j
  BY <1>3 DEF AttrsOk
<1>5. PICK b : b = attr_set(a, n, k, u)
  OBVIOUS
<1>6. CASE \E i \in 1 .. N : a[i].name = n
  <2>1. PICK i \in 1 .. N : a[i].name = n
    BY <1>6
  <2>2. Attribute(a, n) = {i} /\ Min({i}) = i
    BY <2>1, <1>3, TheAttribute
  <2>3. b = [a EXCEPT ![i] = one]
    BY <2>2, <1>1, <1>5 DEF attr_set
  <2>4. b \in Seq(Attrs) /\ Len(b) = N /\ b[i] = one /\ \A j \in 1 .. N : j # i => b[j] = a[j]
    BY <2>3, <1>2, <1>3, <1>4, ChangesAt
  <2>5. \A j \in 1 .. N : b[j].name = a[j].name
    BY <2>1, <2>4, <1>2
  <2>6. \A x, y \in 1 .. N : b[x].name = b[y].name => x = y
    BY <2>5, <1>4
  <2>7. AttrsOk(b)
    BY <2>4, <2>6 DEF AttrsOk
  <2>8. attr_target(b, n) = TargetOf(one)
    <3>1. i \in 1 .. Len(b) /\ b[i].name = n /\ b[i] = one
      BY <2>4, <1>2
    <3> QED BY <3>1, <2>7, TheAttribute
  <2>9. ASSUME NEW m, m # n
        PROVE  attr_target(b, m) = attr_target(a, m)
    <3>1. \A j \in 1 .. N : a[j].name = m => j \in 1 .. N /\ b[j] = a[j]
      BY <2>1, <2>4, <2>9
    <3>2. \A j \in 1 .. N : b[j].name = m => j \in 1 .. N /\ b[j] = a[j]
      BY <2>1, <2>4, <2>5, <2>9
    <3> QED BY <3>1, <3>2, <2>4, <2>7, <1>3, OthersKept
  <2> QED BY <2>7, <2>8, <2>9, <1>1, <1>5
<1>7. CASE ~ \E i \in 1 .. N : a[i].name = n
  <2>1. Attribute(a, n) = {}
    BY <1>3, <1>7, NoAttribute
  <2>2. b = Append(a, one)
    BY <2>1, <1>1, <1>5 DEF attr_set
  <2>3. /\ b \in Seq(Attrs) /\ Len(b) = N + 1 /\ b[N + 1] = one
        /\ \A j \in 1 .. N : b[j] = a[j]
    BY <2>2, <1>2, <1>3, <1>4, GrowsBy
  <2>4. \A x, y \in 1 .. N + 1 : b[x].name = b[y].name => x = y
    <3> SUFFICES ASSUME NEW x \in 1 .. N + 1, NEW y \in 1 .. N + 1, b[x].name = b[y].name
                 PROVE  x = y
      OBVIOUS
    <3>1. CASE x \in 1 .. N /\ y \in 1 .. N
      BY <3>1, <2>3, <1>4
    <3>2. CASE x = N + 1 /\ y \in 1 .. N
      BY <3>2, <2>3, <1>2, <1>7
    <3>3. CASE y = N + 1 /\ x \in 1 .. N
      BY <3>3, <2>3, <1>2, <1>7
    <3>4. CASE x = N + 1 /\ y = N + 1
      BY <3>4
    <3> QED BY <3>1, <3>2, <3>3, <3>4, <1>4
  <2>5. AttrsOk(b)
    BY <2>3, <2>4 DEF AttrsOk
  <2>6. attr_target(b, n) = TargetOf(one)
    <3>1. N + 1 \in 1 .. Len(b)
      BY <2>3, <1>4
    <3>2. b[N + 1].name = n /\ b[N + 1] = one
      BY <2>3, <1>2
    <3> QED BY <3>1, <3>2, <2>5, TheAttribute
  <2>7. ASSUME NEW m, m # n
        PROVE  attr_target(b, m) = attr_target(a, m)
    <3>1. \A j \in 1 .. N : a[j].name = m => j \in 1 .. N + 1 /\ b[j] = a[j]
      BY <2>3, <1>4
    <3>2. \A j \in 1 .. N + 1 : b[j].name = m => j \in 1 .. N /\ b[j] = a[j]
      <4> SUFFICES ASSUME NEW j \in 1 .. N + 1, b[j].name = m PROVE j \in 1 .. N /\ b[j] = a[j]
        OBVIOUS
      <4>1. j # N + 1
        BY <2>3, <2>7, <1>2
      <4> QED BY <4>1, <2>3, <1>4
    <3> QED BY <3>1, <3>2, <2>3, <2>5, <1>3, OthersKept
  <2> QED BY <2>5, <2>6, <2>7, <1>1, <1>5
<1> QED BY <1>6, <1>7

-----------------------------------------------------------------------------
(* A reference is followed to its target, which is no reference.           *)

NamesOk ==
  /\ IsFiniteSet(Names) /\ Names \subseteq Keys /\ NoTarget \notin Names
  /\ \A n \in Names : expand_special(n) = NULL
Hop(a, n) == IF attr_target(a, n) = "" THEN n ELSE attr_target(a, n)
Walks(at, a, n, N) == at = [k \in 0 .. N |-> IF k = 0 THEN n ELSE Hop(a, at[k - 1])]

LEMMA HopOnce ==
  ASSUME NamesOk, NEW a, AttrsOk(a), OneHop(a), NEW n \in Names
  PROVE  /\ Hop(a, n) \in Names /\ attr_target(a, Hop(a, n)) = NoTarget
         /\ Hop(a, Hop(a, n)) = Hop(a, n)
<1>1. attr_target(a, n) \in Targets /\ attr_target(a, attr_target(a, n)) = NoTarget
  BY TargetIs DEF OneHop
<1>2. CASE attr_target(a, n) = NoTarget
  <2>1. Hop(a, n) = n
    BY <1>2 DEF Hop, NoTarget
  <2> QED BY <2>1, <1>2
<1>3. CASE attr_target(a, n) # NoTarget
  <2>1. Hop(a, n) = attr_target(a, n)
    BY <1>3 DEF Hop, NoTarget
  <2>2. Hop(a, n) \in Names /\ attr_target(a, Hop(a, n)) = NoTarget
    BY <2>1, <1>1, <1>3 DEF Targets
  <2> QED BY <2>2 DEF Hop, NoTarget
<1> QED BY <1>2, <1>3

LEMMA EndIs ==
  ASSUME NamesOk, NEW a, AttrsOk(a), OneHop(a), NEW n \in Names
  PROVE  End(a, n) = Hop(a, n)
<1>1. PICK N : N = Cardinality(Names)
  OBVIOUS
<1>2. N \in Nat \ {0}
  BY <1>1, FS_CardinalityType, FS_EmptySet DEF NamesOk
<1>3. PICK h : h = Hop(a, n)
  OBVIOUS
<1>4. Hop(a, h) = h
  BY <1>3, HopOnce
<1> DEFINE g == [k \in 0 .. N |-> IF k = 0 THEN n ELSE h]
<1>5. Walks(g, a, n, N)
  <2>1. \A k \in 0 .. N : g[k] = IF k = 0 THEN n ELSE Hop(a, g[k - 1])
    <3> SUFFICES ASSUME NEW k \in 0 .. N, k # 0 PROVE g[k] = Hop(a, g[k - 1])
      OBVIOUS
    <3>1. g[k] = h /\ g[k - 1] = IF k = 1 THEN n ELSE h
      BY <1>2
    <3> QED BY <3>1, <1>3, <1>4
  <2>2. g = [k \in 0 .. N |-> g[k]]
    OBVIOUS
  <2> HIDE DEF g
  <2> QED BY <2>1, <2>2 DEF Walks
<1> DEFINE w == CHOOSE at : Walks(at, a, n, N)
<1>6. Walks(w, a, n, N)
  BY <1>5
<1>7. End(a, n) = w[N]
  BY <1>1, Zenon DEF End, Walks, Hop
<1> HIDE DEF w
<1>8. w[0] = n /\ \A k \in 1 .. N : w[k] = Hop(a, w[k - 1])
  BY <1>2, <1>6 DEF Walks
<1> DEFINE Bad == {k \in 1 .. N : w[k] # h}
<1>9. SUFFICES ASSUME Bad # {} PROVE FALSE
  BY <1>2, <1>3, <1>7
<1>10. PICK m \in Bad : \A y \in Bad : m <= y
  <2>1. Bad \subseteq Nat
    OBVIOUS
  <2> HIDE DEF Bad
  <2> QED BY <1>9, <2>1, Puts!LowestOf
<1>11. CASE m = 1
  <2>1. w[1] = h
    BY <1>2, <1>3, <1>8
  <2> QED BY <2>1, <1>10, <1>11
<1>12. CASE m # 1
  <2>1. m \in 1 .. N /\ m - 1 \in 1 .. N
    BY <1>2, <1>10, <1>12
  <2>2. w[m - 1] = h
    <3>1. m - 1 \notin Bad
      <4> HIDE DEF Bad
      <4> QED BY <2>1, <1>10
    <3> QED BY <2>1, <3>1
  <2>3. w[m] = h
    BY <2>2, <1>4, <1>8, <1>10
  <2> QED BY <2>3, <1>10
<1> QED BY <1>11, <1>12

LEMMA ReadIs ==
  ASSUME Room, NamesOk, NEW t, TableOk(t), NEW a, AttrsOk(a), OneHop(a), NEW n \in Names
  PROVE  env_expand_n(t, a, n) = ValueOf(t.env, End(a, n))
<1>1. env_expand_n(t, a, n) = env_get(t, End(a, n)).value
  BY DEF env_expand_n, NamesOk
<1>2. End(a, n) \in Keys
  BY EndIs, HopOnce DEF NamesOk
<1> QED BY <1>1, <1>2, GetIs

(* What an assignment writes, and where.                                   *)
Result(a, m, old, v, append) ==
  IF attr_kind(a, m) = "i"
  THEN Decimal((IF append THEN Number(append_base(old)) ELSE 0) + Number(v))
  ELSE IF append THEN append_base(old) \o v ELSE v

LEMMA AssignmentIs ==
  ASSUME Room, NamesOk, NEW t, TableOk(t), NEW a, AttrsOk(a), OneHop(a), NEW n \in Names,
         NEW v, NEW append \in BOOLEAN
  PROVE  assignment_to_env(t, a, n, v, append) =
           [key |-> End(a, n), value |-> Result(a, End(a, n), ValueOf(t.env, End(a, n)), v, append),
            exported |-> FALSE]
<1>1. PICK m : m = End(a, n)
  OBVIOUS
<1>2. m = Hop(a, n) /\ m \in Names /\ Hop(a, m) = m
  BY <1>1, EndIs, HopOnce
<1>3. End(a, m) = m
  BY <1>2, EndIs
<1>4. PICK old : old = ValueOf(t.env, m)
  OBVIOUS
<1>5. env_expand_n(t, a, m) = old
  BY <1>2, <1>3, <1>4, ReadIs
<1>a. PICK no : no = FALSE
  OBVIOUS
<1>6. PICK to : to = [key |-> m, value |-> v, exported |-> no]
  OBVIOUS
<1>7. assignment_to_env(t, a, n, v, append) =
        IF attr_kind(a, m) = "i" THEN apply_int_attr(t, a, to, append)
        ELSE IF append THEN scalar_append(t, a, to) ELSE to
  <2>1. PICK el : el = env_create(n, v, FALSE)
    OBVIOUS
  <2>2. el = [key |-> n, value |-> v, exported |-> no] /\ el.key = n
    BY <2>1, <1>a DEF env_create
  <2>3. [el EXCEPT !.key = m] = to
    BY <2>2, <1>6
  <2>4. m = IF attr_target(a, el.key) = "" THEN el.key ELSE attr_target(a, el.key)
    BY <2>2, <1>2 DEF Hop
  <2>5. apply_var_attrs(t, a, el, append) =
          IF attr_kind(a, m) = "i" THEN apply_int_attr(t, a, to, append)
          ELSE IF append THEN scalar_append(t, a, to) ELSE to
    BY <2>3, <2>4, Zenon DEF apply_var_attrs
  <2> QED BY <2>1, <2>5 DEF assignment_to_env
<1>8. /\ to.key = m /\ to.value = v
      /\ \A x : [to EXCEPT !.value = x] = [key |-> m, value |-> x, exported |-> no]
  BY <1>6
<1>9. apply_int_attr(t, a, to, append) =
        [key |-> m, value |-> Decimal((IF append THEN Number(append_base(old)) ELSE 0) + Number(v)),
         exported |-> no]
  BY <1>5, <1>8, Zenon DEF apply_int_attr
<1>10. scalar_append(t, a, to) = [key |-> m, value |-> append_base(old) \o v, exported |-> no]
  BY <1>5, <1>8, Zenon DEF scalar_append
<1>11. assignment_to_env(t, a, n, v, append) =
         [key |-> m, value |-> Result(a, m, old, v, append), exported |-> no]
  BY <1>6, <1>7, <1>9, <1>10, Zenon DEF Result
<1> QED BY <1>1, <1>4, <1>11, <1>a

-----------------------------------------------------------------------------
(* Start-up and cd.                                                        *)

Own == {"PWD", "OLDPWD", "IFS", "PATH", "SHLVL", "OPTIND"}
OwnOk == Own \subseteq Keys

LEMMA CreateIs ==
  ASSUME NEW n \in Keys, NEW v, NEW x
  PROVE  IsRec(env_create(n, v, x)) /\ env_create(n, v, x).key = n /\ env_create(n, v, x).value = v
BY DEF env_create, IsRec

LEMMA CreateKeeps ==
  ASSUME Room, NEW t, TableOk(t), NEW n \in Keys, NEW v, NEW x
  PROVE  TableOk(env_set(t, env_create(n, v, x)))
BY CreateIs, SetIs

LEMMA EssentialKeeps ==
  ASSUME Room, OwnOk, NEW t, TableOk(t), NEW cwd
  PROVE  TableOk(ensure_essential_env_vars(t, cwd))
<1>0. /\ "PATH" \in Keys /\ "SHLVL" \in Keys /\ "OPTIND" \in Keys /\ "PWD" \in Keys
  BY DEF OwnOk, Own
<1>1. ASSUME NEW u, TableOk(u) PROVE TableOk(set_path(u))
  BY <1>0, <1>1, CreateKeeps DEF set_path
<1>2. ASSUME NEW u, TableOk(u) PROVE TableOk(set_shlvl(u))
  BY <1>0, <1>2, CreateKeeps DEF set_shlvl
<1>3. ASSUME NEW u, TableOk(u) PROVE TableOk(set_optind(u))
  BY <1>0, <1>3, CreateKeeps DEF set_optind
<1>4. ASSUME NEW u, TableOk(u) PROVE TableOk(set_pwd(u, cwd))
  BY <1>0, <1>4, CreateKeeps DEF set_pwd
<1> QED BY <1>1, <1>2, <1>3, <1>4 DEF ensure_essential_env_vars

Inherits(environ) ==
  /\ \E V : environ \in Seq(Keys \X V)
  /\ \A i, j \in 1 .. Len(environ) : environ[i][1] = environ[j][1] => i = j

LEMMA StartIs ==
  ASSUME Room, OwnOk, NEW environ, Inherits(environ), NEW cwd
  PROVE  TableOk(env_to_vec_env(environ, cwd))
<1>1. PICK V : environ \in Seq(Keys \X V)
  BY DEF Inherits
<1>2. PICK n : n = Len(environ)
  OBVIOUS
<1>3. n \in Nat /\ DOMAIN environ = 1 .. n /\ \A i \in 1 .. n : environ[i] \in Keys \X V
  BY <1>1, <1>2
<1>4. PICK e : e = [i \in 1 .. n |-> str_to_env(environ[i])]
  OBVIOUS
<1>5. ASSUME NEW i \in 1 .. n
      PROVE  IsRec(e[i]) /\ e[i].key = environ[i][1]
  <2>1. PICK k, v : k = environ[i][1] /\ v = environ[i][2]
    OBVIOUS
  <2>a. PICK yes : yes = TRUE
    OBVIOUS
  <2>2. e[i] = env_create(k, v, yes)
    BY <2>1, <2>a, <1>4 DEF str_to_env
  <2>3. k \in Keys
    BY <2>1, <1>3
  <2>4. IsRec(e[i]) /\ e[i].key = k
    BY <2>2, <2>3, CreateIs
  <2> QED BY <2>1, <2>4
<1>6. e = [i \in 1 .. n |-> e[i]] /\ \A i \in 1 .. n : IsRec(e[i])
  BY <1>4, <1>5
<1>7. IsEnv(e) /\ Len(e) = n
  BY <1>3, <1>6, EnvFrom
<1>8. Unique(e)
  BY <1>2, <1>5, <1>7 DEF Unique, Inherits
<1>9. PICK x : x = env_index_mark_dirty(NoIndex)
  OBVIOUS
<1>10. IxOk(e, x)
  <2>1. x = [tab |-> << >>, count |-> 0, dirty |-> TRUE]
    BY <1>9 DEF env_index_mark_dirty, NoIndex
  <2>2. x \in Tabs /\ x.dirty = TRUE
    BY <2>1 DEF Tabs
  <2> QED BY <2>2 DEF IxOk
<1>11. PICK p : p = [env |-> e, ix |-> x]
  OBVIOUS
<1>12. TableOk(p)
  BY <1>7, <1>8, <1>10, <1>11, TableFrom
<1>13. env_to_vec_env(environ, cwd) =
         IF cwd = NULL THEN p
         ELSE env_set(env_set(p, env_create("PWD", cwd, TRUE)),
                      env_create("IFS", <<"(blanks)">>, FALSE))
  BY <1>3, <1>4, <1>9, <1>11, Zenon DEF env_to_vec_env
<1>14. "PWD" \in Keys /\ "IFS" \in Keys
  BY DEF OwnOk, Own
<1>15. TableOk(env_set(p, env_create("PWD", cwd, TRUE)))
  BY <1>12, <1>14, CreateKeeps
<1>16. TableOk(env_set(env_set(p, env_create("PWD", cwd, TRUE)),
                       env_create("IFS", <<"(blanks)">>, FALSE)))
  BY <1>14, <1>15, CreateKeeps
<1> QED BY <1>12, <1>13, <1>16

LEMMA MoveIs ==
  ASSUME Room, OwnOk, NEW t, TableOk(t), NEW d
  PROVE  \E o : /\ TableOk(update_pwd_vars(t, d))
               /\ Gives(t.env, "OLDPWD", ValueOf(t.env, "PWD"), o)
               /\ Gives(o, "PWD", d, update_pwd_vars(t, d).env)
<1>1. "PWD" \in Keys /\ "OLDPWD" \in Keys
  BY DEF OwnOk, Own
<1>2. PICK pwd : pwd = env_get(t, "PWD")
  OBVIOUS
<1>3. IsRec(pwd) /\ pwd.value = ValueOf(t.env, "PWD")
  BY <1>1, <1>2, GetIs
<1>4. PICK el : el = [pwd EXCEPT !.key = "OLDPWD"]
  OBVIOUS
<1>5. IsRec(el) /\ el.key = "OLDPWD" /\ el.value = pwd.value
  <2>1. PICK k, v, x : pwd = [key |-> k, value |-> v, exported |-> x] /\ v = pwd.value
    BY <1>3 DEF IsRec
  <2>2. el = [key |-> "OLDPWD", value |-> v, exported |-> x]
    BY <2>1, <1>4
  <2> QED BY <2>1, <2>2, <1>1 DEF IsRec
<1>6. PICK u : u = IF pwd.value = None THEN unset_raw(t, "OLDPWD") ELSE env_set(t, el)
  OBVIOUS
<1>7. TableOk(u) /\ Gives(t.env, "OLDPWD", ValueOf(t.env, "PWD"), u.env)
  <2>1. CASE pwd.value = None
    BY <2>1, <1>1, <1>3, <1>6, UnsetIs
  <2>2. CASE pwd.value # None
    BY <2>2, <1>3, <1>5, <1>6, SetIs
  <2> QED BY <2>1, <2>2
<1>8. update_pwd_vars(t, d) = env_set(u, env_create("PWD", d, TRUE))
  BY <1>2, <1>4, <1>6 DEF update_pwd_vars
<1>9. TableOk(update_pwd_vars(t, d)) /\ Gives(u.env, "PWD", d, update_pwd_vars(t, d).env)
  <2>a. PICK yes : yes = TRUE
    OBVIOUS
  <2>1. PICK r : r = env_create("PWD", d, yes)
    OBVIOUS
  <2>2. IsRec(r) /\ r.key = "PWD" /\ r.value = d
    BY <2>1, <1>1, CreateIs
  <2>3. TableOk(env_set(u, r)) /\ Gives(u.env, r.key, r.value, env_set(u, r).env)
    BY <2>2, <1>7, SetIs
  <2> QED BY <2>a, <2>1, <2>2, <2>3, <1>8
<1> QED BY <1>7, <1>9

-----------------------------------------------------------------------------
(* The shell at work.                                                      *)

(* What the code and the user give: hashes are numbers, the index has a    *)
(* slot to begin with, no name is one the shell answers for itself, an     *)
(* environment names a variable once, and no reference names another.      *)
Setting ==
  /\ Room /\ NamesOk /\ OwnOk /\ Chains = FALSE
  /\ Integers_ \subseteq Names /\ Refs \subseteq Names \X Names
  /\ \A environ \in Environs : Inherits(environ)

(* The inductive invariant: the index, unless it is to be built again, is  *)
(* one of every record; each cell has the value it was last given; and no  *)
(* reference names another.                                                *)
Told(e) == [c \in Cells |-> ValueOf(e, c)]
EnvInv ==
  /\ TableOk(Table) /\ told = Told(env)
  /\ AttrsOk(var_attrs) /\ OneHop(var_attrs)

LEMMA CellsAre ==
  ASSUME Setting
  PROVE  Cells \subseteq Keys /\ Names \subseteq Cells
BY DEF Setting, Cells, NamesOk, OwnOk, Own

LEMMA ToldOne ==
  ASSUME NEW e, NEW n, NEW v, NEW f, Gives(e, n, v, f)
  PROVE  Told(f) = [Told(e) EXCEPT ![n] = v]
<1>1. \A c \in Cells : ValueOf(f, c) = IF c = n THEN v ELSE ValueOf(e, c)
  BY DEF Gives
<1> QED BY <1>1 DEF Told

(* A table that is right becomes the state.                                *)
LEMMA BecomesIs ==
  ASSUME NEW t, TableOk(t), Becomes(t)
  PROVE  Table' = t /\ env' = t.env /\ TableOk(Table)'
<1>1. env' = t.env /\ index' = t.ix
  BY DEF Becomes
<1>2. Table' = t
  BY <1>1 DEF Table, TableOk
<1>3. TableOk(Table')
  BY <1>2
<1>4. TableOk(Table') <=> TableOk(Table)'
  BY DEF TableOk, IsEnv, IsRec, Unique, IxOk, Indexed, Tabs, Placed, Probe, HashAt, Cap, Keys
<1> QED BY <1>1, <1>2, <1>3, <1>4

(* An inherited environment is made a table.                               *)
LEMMA EnvInit ==
  ASSUME Setting, Init
  PROVE  EnvInv
<1>1. PICK environ \in Environs, cwd \in Directories :
        /\ env = ensure_essential_env_vars(env_to_vec_env(environ, cwd), cwd).env
        /\ index = ensure_essential_env_vars(env_to_vec_env(environ, cwd), cwd).ix
        /\ var_attrs = << >>
        /\ told = [n \in Cells |->
                     Value(ensure_essential_env_vars(env_to_vec_env(environ, cwd), cwd), n)]
  BY DEF Init
<1>2. PICK t : t = ensure_essential_env_vars(env_to_vec_env(environ, cwd), cwd)
  OBVIOUS
<1>3. TableOk(t)
  BY <1>2, StartIs, EssentialKeeps DEF Setting
<1>4. env = t.env /\ index = t.ix /\ told = [n \in Cells |-> Value(t, n)]
  BY <1>1, <1>2
<1>5. Table = t
  BY <1>3, <1>4 DEF Table, TableOk
<1>6. told = Told(env)
  <2>1. \A n : Value(t, n) = ValueOf(t.env, n)
    BY DEF Value, ValueOf, Place
  <2> QED BY <2>1, <1>4 DEF Told
<1>7. AttrsOk(var_attrs)
  BY <1>1 DEF AttrsOk
<1>8. OneHop(var_attrs)
  <2>1. \A n : attr_target(var_attrs, n) = NoTarget
    BY <1>1, <1>7, NoAttribute
  <2> QED BY <2>1 DEF OneHop
<1> QED BY <1>3, <1>5, <1>6, <1>7, <1>8 DEF EnvInv

LEMMA AssignKeeps ==
  ASSUME Setting, EnvInv, NEW n \in Names, NEW v, NEW append \in BOOLEAN, Assign(n, v, append)
  PROVE  EnvInv'
<1>1. PICK m : m = End(var_attrs, n)
  OBVIOUS
<1>2. m \in Names /\ m \in Keys /\ m \in Cells
  BY <1>1, EndIs, HopOnce, CellsAre DEF EnvInv, Setting, NamesOk
<1>3. PICK new : new = Result(var_attrs, m, ValueOf(env, m), v, append)
  OBVIOUS
<1>4. PICK el : el = assignment_to_env(Table, var_attrs, n, v, append)
  OBVIOUS
<1>5. Table.env = env
  BY DEF Table
<1>6. IsRec(el) /\ el.key = m /\ el.value = new
  <2>a. PICK no : no = FALSE
    OBVIOUS
  <2>1. el = [key |-> m, value |-> new, exported |-> no]
    BY <2>a, <1>1, <1>3, <1>4, <1>5, AssignmentIs DEF EnvInv, Setting
  <2> QED BY <2>1, <1>2 DEF IsRec
<1>7. PICK t : t = env_set(Table, el)
  OBVIOUS
<1>8. TableOk(t) /\ Gives(env, m, new, t.env)
  BY <1>5, <1>6, <1>7, SetIs DEF EnvInv, Setting
<1>9. /\ Becomes(t) /\ UNCHANGED var_attrs
      /\ told' = [told EXCEPT ![Meant(n)] = Given(n, v, append)]
  BY <1>4, <1>7 DEF Assign
<1>10. TableOk(Table)' /\ env' = t.env
  BY <1>8, <1>9, BecomesIs
<1>11. Meant(n) = m /\ told[m] = ValueOf(env, m)
  BY <1>1, <1>2 DEF Meant, EnvInv, Told
<1>12. Given(n, v, append) = new
  BY <1>3, <1>11, Zenon DEF Given, Result
<1>13. told' = Told(t.env)
  <2>1. Told(t.env) = [Told(env) EXCEPT ![m] = new]
    BY <1>8, ToldOne
  <2>2. told' = [told EXCEPT ![m] = new]
    BY <1>9, <1>11, <1>12
  <2> QED BY <2>1, <2>2 DEF EnvInv
<1> QED BY <1>9, <1>10, <1>13 DEF EnvInv, Told, Cells

LEMMA UnsetKeeps ==
  ASSUME Setting, EnvInv, NEW n \in Names, Unset(n)
  PROVE  EnvInv'
<1>1. PICK t : t = unset_raw(Table, n)
  OBVIOUS
<1>2. Table.env = env /\ n \in Keys
  BY CellsAre DEF Table
<1>3. TableOk(t) /\ Gives(env, n, None, t.env)
  BY <1>1, <1>2, UnsetIs DEF EnvInv, Setting
<1>4. Becomes(t) /\ UNCHANGED var_attrs /\ told' = [told EXCEPT ![n] = None]
  BY <1>1 DEF Unset
<1>5. TableOk(Table)' /\ env' = t.env
  BY <1>3, <1>4, BecomesIs
<1>6. told' = Told(t.env)
  BY <1>3, <1>4, ToldOne DEF EnvInv
<1> QED BY <1>4, <1>5, <1>6 DEF EnvInv, Told, Cells

LEMMA ReadKeeps ==
  ASSUME Setting, EnvInv, NEW n, Read(n)
  PROVE  EnvInv'
<1>1. PICK t : t = Searched(Table)
  OBVIOUS
<1>2. TableOk(t) /\ t.env = env
  <2>1. Table.env = env
    BY DEF Table
  <2> QED BY <1>1, <2>1, SearchedIs DEF EnvInv, Setting
<1>3. Becomes(t) /\ UNCHANGED <<var_attrs, told>>
  BY <1>1 DEF Read
<1>4. TableOk(Table)' /\ env' = t.env
  BY <1>2, <1>3, BecomesIs
<1> QED BY <1>2, <1>3, <1>4 DEF EnvInv, Told, Cells

LEMMA MoveKeeps ==
  ASSUME Setting, EnvInv, NEW d, ChangeDirectory(d)
  PROVE  EnvInv'
<1>1. PICK t : t = update_pwd_vars(Table, d)
  OBVIOUS
<1>2. Table.env = env
  BY DEF Table
<1>3. PICK o : /\ TableOk(t) /\ Gives(env, "OLDPWD", ValueOf(env, "PWD"), o)
               /\ Gives(o, "PWD", d, t.env)
  BY <1>1, <1>2, MoveIs DEF EnvInv, Setting
<1>4. /\ Becomes(t) /\ UNCHANGED var_attrs
      /\ told' = [[told EXCEPT !["PWD"] = d] EXCEPT !["OLDPWD"] = told["PWD"]]
  BY <1>1 DEF ChangeDirectory
<1>5. TableOk(Table)' /\ env' = t.env
  BY <1>3, <1>4, BecomesIs
<1>6. told' = Told(t.env)
  <2>1. "PWD" \in Cells /\ "PWD" # "OLDPWD" /\ told["PWD"] = ValueOf(env, "PWD")
    BY DEF Cells, EnvInv, Told
  <2>2. PICK p, q : p = "PWD" /\ q = "OLDPWD"
    OBVIOUS
  <2>3. Told(t.env) = [[Told(env) EXCEPT ![q] = ValueOf(env, p)] EXCEPT ![p] = d]
    BY <2>2, <1>3, ToldOne
  <2>4. p # q
    BY <2>1, <2>2
  <2>5. told' = [[Told(env) EXCEPT ![p] = d] EXCEPT ![q] = ValueOf(env, p)]
    BY <2>1, <2>2, <1>4 DEF EnvInv
  <2> QED BY <2>3, <2>4, <2>5 DEF Told
<1> QED BY <1>4, <1>5, <1>6 DEF EnvInv, Told, Cells

LEMMA DeclareKeeps ==
  ASSUME Setting, EnvInv, NEW n \in Names, NEW a, NEW k \in AttrKinds, NEW u \in Targets,
         a = attr_set(var_attrs, n, k, u),
         TargetOf([name |-> n, kind |-> k, target |-> u]) = NoTarget \/ OneHop(a),
         var_attrs' = a, UNCHANGED <<env, index, told>>
  PROVE  EnvInv'
<1>1. AttrsOk(var_attrs) /\ OneHop(var_attrs)
  BY DEF EnvInv
<1>2. /\ AttrsOk(a)
      /\ attr_target(a, n) = TargetOf([name |-> n, kind |-> k, target |-> u])
      /\ \A m : m # n => attr_target(a, m) = attr_target(var_attrs, m)
  BY <1>1, AttrSetKeeps
<1>3. OneHop(a)
  <2> SUFFICES ASSUME attr_target(a, n) = NoTarget, NEW m \in Names
               PROVE  attr_target(a, attr_target(a, m)) = NoTarget
    BY <1>2 DEF OneHop
  <2>1. attr_target(a, NoTarget) = NoTarget
    <3>1. \A i \in 1 .. Len(a) : a[i].name # NoTarget
      <4> SUFFICES ASSUME NEW i \in 1 .. Len(a) PROVE a[i].name # NoTarget
        OBVIOUS
      <4>1. a[i] \in Attrs
        BY <1>2 DEF AttrsOk
      <4> QED BY <4>1 DEF Attrs, Setting, NamesOk
    <3> QED BY <3>1, <1>2, NoAttribute
  <2>2. CASE m = n
    BY <2>1, <2>2
  <2>3. CASE m # n
    <3>1. attr_target(a, m) = attr_target(var_attrs, m)
      BY <2>3, <1>2
    <3>2. CASE attr_target(a, m) = n
      BY <3>2
    <3>3. CASE attr_target(a, m) # n
      BY <3>1, <3>3, <1>1, <1>2 DEF OneHop
    <3> QED BY <3>2, <3>3
  <2> QED BY <2>2, <2>3
<1>4. TableOk(Table)' /\ told' = Told(env)'
  <2>1. Table' = Table /\ TableOk(Table) /\ told = Told(env)
    BY DEF Table, EnvInv
  <2>2. TableOk(Table') <=> TableOk(Table)'
    BY DEF TableOk, IsEnv, IsRec, Unique, IxOk, Indexed, Tabs, Placed, Probe, HashAt, Cap, Keys
  <2> QED BY <2>1, <2>2 DEF Told, Cells
<1> QED BY <1>2, <1>3, <1>4 DEF EnvInv

(* Every operation of a script, one at a time.                             *)
LEMMA EnvStep ==
  ASSUME Setting, EnvInv, [Next]_vars
  PROVE  EnvInv'
<1>1. ASSUME NEW n \in Names, NEW v \in Values, NEW append \in BOOLEAN, Assign(n, v, append)
      PROVE  EnvInv'
  BY <1>1, AssignKeeps
<1>2. ASSUME NEW n \in Names, Unset(n)
      PROVE  EnvInv'
  BY <1>2, UnsetKeeps
<1>3. ASSUME NEW n \in Names, Read(n)
      PROVE  EnvInv'
  BY <1>3, ReadKeeps
<1>4. ASSUME NEW n \in Integers_, DeclareInteger(n)
      PROVE  EnvInv'
  <2>1. PICK k, u : k = "i" /\ u = ""
    OBVIOUS
  <2>2. n \in Names /\ k \in AttrKinds /\ u \in Targets
    BY <2>1 DEF Setting, AttrKinds, Targets, NoTarget
  <2>3. TargetOf([name |-> n, kind |-> k, target |-> u]) = NoTarget
    BY <2>1 DEF TargetOf, IsRef, NoTarget
  <2>4. var_attrs' = attr_set(var_attrs, n, k, u) /\ UNCHANGED <<env, index, told>>
    BY <1>4, <2>1 DEF DeclareInteger
  <2> QED BY <2>2, <2>3, <2>4, DeclareKeeps
<1>5. ASSUME NEW r \in Refs, DeclareReference(r[1], r[2])
      PROVE  EnvInv'
  <2>1. PICK k : k = "n"
    OBVIOUS
  <2>2. PICK n, u : n = r[1] /\ u = r[2]
    OBVIOUS
  <2>3. n \in Names /\ k \in AttrKinds /\ u \in Targets
    BY <2>1, <2>2 DEF Setting, AttrKinds, Targets
  <2>4. PICK a : a = attr_set(var_attrs, n, k, u)
    OBVIOUS
  <2>5. var_attrs' = a /\ UNCHANGED <<env, index, told>>
    BY <1>5, <2>1, <2>2, <2>4 DEF DeclareReference, declare_nameref
  <2>6. OneHop(a)
    BY <1>5, <2>1, <2>2, <2>4 DEF DeclareReference, declare_nameref, OneHop, NoTarget, Setting
  <2> QED BY <2>3, <2>4, <2>5, <2>6, DeclareKeeps
<1>6. ASSUME NEW d \in Directories, ChangeDirectory(d)
      PROVE  EnvInv'
  BY <1>6, MoveKeeps
<1>7. CASE UNCHANGED vars
  <2>1. Table' = Table /\ TableOk(Table) /\ UNCHANGED <<env, told, var_attrs>>
    BY <1>7 DEF vars, Table, EnvInv
  <2>2. TableOk(Table') <=> TableOk(Table)'
    BY DEF TableOk, IsEnv, IsRec, Unique, IxOk, Indexed, Tabs, Placed, Probe, HashAt, Cap, Keys
  <2>3. told' = Told(env)'
    BY <2>1 DEF EnvInv, Told, Cells
  <2>4. AttrsOk(var_attrs)' /\ OneHop(var_attrs)'
    BY <2>1 DEF EnvInv
  <2> QED BY <2>1, <2>2, <2>3, <2>4 DEF EnvInv
<1> QED BY <1>1, <1>2, <1>3, <1>4, <1>5, <1>6, <1>7 DEF Next

(* So a search and a read answer what they should.                         *)
LEMMA EnvAgrees ==
  ASSUME Setting, EnvInv
  PROVE  IndexAgrees /\ ReadsBack
<1>1. Table.env = env /\ Table.ix = index /\ TableOk(Table)
  BY DEF Table, EnvInv
<1>2. ASSUME NEW n \in Cells
      PROVE  env_index_find(env, index, n) = Place(env, n)
  <2>1. n \in Keys
    BY CellsAre
  <2> QED BY <2>1, <1>1, PlaceFound DEF Setting
<1>3. ASSUME NEW n \in Names
      PROVE  env_expand_n(Table, var_attrs, n) = told[End(var_attrs, n)]
  <2>1. End(var_attrs, n) \in Cells
    BY EndIs, HopOnce, CellsAre DEF EnvInv, Setting
  <2>2. env_expand_n(Table, var_attrs, n) = ValueOf(env, End(var_attrs, n))
    BY <1>1, ReadIs DEF EnvInv, Setting
  <2> QED BY <2>1, <2>2 DEF EnvInv, Told
<1>4. IndexAgrees
  BY <1>2 DEF IndexAgrees, Place
<1> QED BY <1>3, <1>4 DEF ReadsBack
=============================================================================
