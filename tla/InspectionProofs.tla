--------------------------- MODULE InspectionProofs ---------------------------
(***************************************************************************)
(* What the inspect tool answers ALREADY_SEEN for was sent, and a read     *)
(* that is not a receipt brings the model further: for all files, budgets  *)
(* and windows, any number of records, edits and goals.                    *)
(***************************************************************************)
EXTENDS Inspection, WellFoundedInduction, FiniteSetTheorems, TLAPS

-------------------------------------------------------------------------------
(* Recursion over an interval.                                             *)

\* Every nonempty set of naturals has a least element.
LEMMA Least ==
  ASSUME NEW T, T \subseteq Nat, T # {}
  PROVE  \E x \in T : \A y \in T : x <= y
  <1> DEFINE R == {ss \in Nat \X Nat : ss[1] < ss[2]}
  <1>1. R = OpToRel(<, Nat)
    BY Zenon DEF OpToRel
  <1>2. IsWellFoundedOn(OpToRel(<, Nat), Nat)
    BY NatLessThanWellFounded, Zenon
  <1>3. IsWellFoundedOn(R, Nat)
    BY <1>1, <1>2, Zenon
  <1>4. ASSUME NEW x \in Nat, NEW y \in Nat, y < x
        PROVE  <<y, x>> \in R
    BY <1>4
  <1> HIDE DEF R
  <1>5. PICK x \in T : \A y \in T : ~ (<<y, x>> \in R)
    BY <1>3, WFMin
  <1>6. ASSUME NEW y \in T PROVE x <= y
    <2>1. ~ (y < x)
      BY <1>4, <1>5
    <2> QED
      BY <2>1
  <1> QED
    BY <1>6

\* What holds at the first place and from each place to the next.
LEMMA Stepwise ==
  ASSUME NEW a \in Nat, NEW n \in Nat, NEW V, NEW f, f[a] \in V,
         \A k \in a + 1 .. n : f[k - 1] \in V => f[k] \in V
  PROVE  \A k \in a .. n : f[k] \in V
  <1> DEFINE T == {k \in a .. n : f[k] \notin V}
  <1>1. SUFFICES ASSUME T # {} PROVE FALSE
    OBVIOUS
  <1>2. PICK m \in T : \A y \in T : m <= y
    <2>1. T \subseteq Nat
      OBVIOUS
    <2> HIDE DEF T
    <2> QED
      BY <1>1, <2>1, Least
  <1>3. m \in a + 1 .. n /\ m - 1 \in a .. n /\ m - 1 \notin T
    BY <1>2
  <1> QED
    BY <1>2, <1>3

\* The values of a recursion from a place to another.
Iterates(f, a, n, V, base, step) ==
    /\ f \in [a .. n -> V]
    /\ f[a] = base
    /\ \A k \in a .. n : k # a => f[k] = step[k][f[k - 1]]

\* A recursion that stays in a set defines a function.
LEMMA Recursion ==
  ASSUME NEW a \in Nat, NEW n \in Nat, a <= n, NEW V, NEW base \in V,
         NEW step \in [a .. n -> [V -> V]]
  PROVE  \E f : Iterates(f, a, n, V, base, step)
  <1> DEFINE Is(f, m) == Iterates(f, a, m, V, base, step)
             T == {m \in a .. n : ~ \E f : Is(f, m)}
  <1>1. SUFFICES ASSUME T # {} PROVE FALSE
    <2>1. n \in a .. n
      OBVIOUS
    <2> QED
      BY <2>1
  <1>2. PICK m \in T : \A y \in T : m <= y
    <2>1. T \subseteq Nat
      OBVIOUS
    <2> HIDE DEF T
    <2> QED
      BY <1>1, <2>1, Least
  <1>3. m \in a .. n /\ ~ \E f : Is(f, m)
    BY <1>2
  <1>4. CASE m = a
    <2> DEFINE g == [k \in a .. a |-> base]
    <2>1. Is(g, a)
      BY DEF Iterates
    <2> HIDE DEF Is
    <2> QED
      BY <1>3, <1>4, <2>1
  <1>5. CASE m # a
    <2>1. m - 1 \in a .. n /\ m - 1 \notin T
      <3>1. m - 1 \in a .. n /\ ~ (m <= m - 1)
        BY <1>3, <1>5
      <3> HIDE DEF T
      <3> QED
        BY <1>2, <3>1
    <2>2. PICK f : Is(f, m - 1)
      BY <2>1
    <2>3. m \in a + 1 .. n
      BY <1>3, <1>5
    <2>4. PICK x \in V : x = step[m][f[m - 1]]
      <3>1. f[m - 1] \in V
        BY <2>1, <2>2 DEF Iterates
      <3> QED
        BY <2>3, <3>1
    <2>5. PICK g : g = [k \in a .. m |-> IF k = m THEN x ELSE f[k]]
      OBVIOUS
    <2>6. \A k \in a .. m : k # m => k \in a .. m - 1
      BY <2>3
    <2>7. g \in [a .. m -> V]
      BY <2>2, <2>5, <2>6 DEF Iterates
    <2>8. g[a] = base
      BY <1>5, <2>2, <2>3, <2>5 DEF Iterates
    <2>9. ASSUME NEW k \in a .. m, k # a
          PROVE  g[k] = step[k][g[k - 1]]
      <3>1. k - 1 \in a .. m /\ k - 1 # m /\ k \in a .. m
        BY <2>3, <2>9
      <3>2. g[k - 1] = f[k - 1]
        BY <2>5, <3>1
      <3>3. CASE k = m
        BY <2>4, <2>5, <3>1, <3>2, <3>3
      <3>4. CASE k # m
        <4>1. k \in a .. m - 1
          BY <2>3, <3>4
        <4>2. f[k] = step[k][f[k - 1]]
          BY <2>2, <2>9, <4>1 DEF Iterates
        <4> QED
          BY <2>5, <3>1, <3>2, <3>4, <4>2
      <3> QED
        BY <3>3, <3>4
    <2>10. Is(g, m)
      BY <2>7, <2>8, <2>9 DEF Iterates
    <2> HIDE DEF Is
    <2> QED
      BY <1>3, <2>10
  <1> QED
    BY <1>4, <1>5

\* A set of places without a gap is as long as it has elements.
LEMMA NoGap ==
  ASSUME NEW s \in Nat, NEW m \in Nat, NEW T, T \subseteq s .. m,
         \A k \in T : k > s => k - 1 \in T
  PROVE  /\ Cardinality(T) \in Nat
         /\ T = s .. s + Cardinality(T) - 1
  <1> DEFINE Missing == {k \in Nat : k >= s /\ k \notin T}
  <1>0. T \subseteq Nat /\ \A k \in T : k >= s
    OBVIOUS
  <1>1. m + s + 1 \in Missing
    OBVIOUS
  <1>2. PICK u \in Missing : \A y \in Missing : u <= y
    <2>1. Missing \subseteq Nat /\ Missing # {}
      BY <1>1
    <2> HIDE DEF Missing
    <2> QED
      BY <2>1, Least
  <1>3. \A k \in s .. u - 1 : k \in T
    BY <1>2
  <1>4. \A k \in T : k < u
    <2> DEFINE Beyond == {k \in T : k > u}
    <2>1. SUFFICES ASSUME Beyond # {} PROVE FALSE
      BY <1>2
    <2>2. PICK k \in Beyond : \A y \in Beyond : k <= y
      <3>1. Beyond \subseteq Nat
        BY <1>0
      <3> HIDE DEF Beyond
      <3> QED
        BY <2>1, <3>1, Least
    <2>3. k - 1 \in T /\ k - 1 >= u
      BY <1>2, <2>2
    <2>4. k - 1 # u
      BY <1>2, <2>3
    <2>5. k - 1 \in Beyond
      BY <1>2, <2>3, <2>4
    <2> QED
      BY <2>2, <2>5
  <1>5. T = s .. u - 1
    <2>1. ASSUME NEW k \in T PROVE k \in s .. u - 1
      BY <1>0, <1>2, <1>4
    <2>2. ASSUME NEW k \in s .. u - 1 PROVE k \in T
      BY <1>3
    <2> QED
      BY <2>1, <2>2
  <1>6. Cardinality(T) = u - s
    <2>1. Cardinality(s .. u - 1) = IF s > u - 1 THEN 0 ELSE (u - 1) - s + 1
      BY <1>2, FS_Interval
    <2> QED
      BY <1>2, <1>5, <2>1
  <1> QED
    BY <1>2, <1>5, <1>6

-------------------------------------------------------------------------------
(* What a window holds.                                                    *)

USE InspectionAssumption

\* The bytes up to a line are those up to the line before, the newline and
\* the line.
LEMMA BytesGrow ==
  ASSUME NEW v \in Versions, NEW s \in Nat \ {0}, s <= Len(Text[v])
  PROVE  \A k \in s .. Len(Text[v]) :
            /\ Bytes(v, s, k) \in Nat
            /\ k > s => Bytes(v, s, k) > Bytes(v, s, k - 1)
  <1> DEFINE N == Len(Text[v])
             Sums(f) == f = [k \in s .. N |->
                                IF k = s THEN Text[v][k]
                                ELSE f[k - 1] + 1 + Text[v][k]]
             step == [k \in s .. N |-> [b \in Nat |-> b + 1 + Text[v][k]]]
  <1>1. N \in Nat /\ \A k \in s .. N : Text[v][k] \in Nat
    <2>1. Text[v] \in Seq(Nat \ {0})
      BY DEF InspectionAssumption
    <2>2. N \in Nat
      BY <2>1
    <2>3. ASSUME NEW k \in s .. N PROVE Text[v][k] \in Nat
      <3>1. k \in 1 .. Len(Text[v])
        BY <2>2
      <3> QED
        BY <2>1, <3>1
    <2> QED
      BY <2>2, <2>3
  <1>2. \E f \in [s .. N -> Nat] : Sums(f)
    <2>2. step \in [s .. N -> [Nat -> Nat]]
      BY <1>1
    <2>3. Text[v][s] \in Nat
      BY <1>1
    <2>1. s \in Nat /\ N \in Nat /\ s <= N
      BY <1>1
    <2> HIDE DEF step, N
    <2>4. PICK f \in [s .. N -> Nat] :
             /\ f[s] = Text[v][s]
             /\ \A k \in s .. N : k # s => f[k] = step[k][f[k - 1]]
      <3>1. \E f : Iterates(f, s, N, Nat, Text[v][s], step)
        BY <2>1, <2>2, <2>3, Recursion
      <3> QED
        BY <3>1 DEF Iterates
    <2>5. ASSUME NEW k \in s .. N
          PROVE  f[k] = IF k = s THEN Text[v][k] ELSE f[k - 1] + 1 + Text[v][k]
      <3>1. CASE k = s
        BY <2>4, <3>1
      <3>2. CASE k # s
        <4>1. k \in s + 1 .. N /\ k - 1 \in s .. N
          BY <1>1, <3>2
        <4>2. f[k - 1] \in Nat
          BY <2>4, <4>1
        <4>3. step[k][f[k - 1]] = f[k - 1] + 1 + Text[v][k]
          BY <4>1, <4>2 DEF step
        <4> QED
          BY <2>4, <3>2, <4>1, <4>3
      <3> QED
        BY <3>1, <3>2
    <2> QED
      BY <2>4, <2>5
  <1>3. PICK f : f = CHOOSE g : Sums(g)
    OBVIOUS
  <1>4. Sums(f)
    BY <1>2, <1>3, Zenon
  <1>5. \A k : Bytes(v, s, k) = f[k]
    BY <1>3 DEF Bytes
  <1>6. \A k \in s .. N : f[k] = IF k = s THEN Text[v][k]
                                 ELSE f[k - 1] + 1 + Text[v][k]
    BY <1>4
  <1> HIDE DEF N, Sums
  <1>7. ASSUME NEW k \in s + 1 .. N
        PROVE  k \in s .. N /\ f[k] = f[k - 1] + 1 + Text[v][k]
    BY <1>1, <1>6
  <1>8. f[s] \in Nat
    BY <1>1, <1>6 DEF N
  <1>9. \A k \in s .. N : f[k] \in Nat
    <2>1. ASSUME NEW k \in s + 1 .. N, f[k - 1] \in Nat
          PROVE  f[k] \in Nat
      <3>1. k \in s .. N /\ f[k] = f[k - 1] + 1 + Text[v][k]
        BY <1>7
      <3>2. Text[v][k] \in Nat
        BY <1>1, <3>1
      <3>3. PICK before \in Nat, line \in Nat :
               before = f[k - 1] /\ line = Text[v][k]
        BY <2>1, <3>2
      <3>4. f[k] = before + 1 + line
        BY <3>1, <3>3
      <3> QED
        BY <3>4
    <2> QED
      BY <1>1, <1>8, <2>1, Stepwise
  <1>10. ASSUME NEW k \in s .. N, k > s
         PROVE  f[k] > f[k - 1]
    <2>1. k \in s + 1 .. N /\ k - 1 \in s .. N
      BY <1>1, <1>10
    <2>2. f[k - 1] \in Nat /\ Text[v][k] \in Nat
      BY <1>1, <1>9, <2>1
    <2>3. PICK before \in Nat, line \in Nat : before = f[k - 1] /\ line = Text[v][k]
      BY <2>2
    <2>4. f[k] = before + 1 + line
      BY <1>7, <2>1, <2>3
    <2>5. before + 1 + line > before
      OBVIOUS
    <2> QED
      BY <2>3, <2>4, <2>5, Zenon
  <1> QED
    BY <1>5, <1>9, <1>10 DEF N

\* A window counts the lines from its first one without a gap, at least one
\* if there is any; all it counts but the last were sent in full, and the
\* last too unless the window was cut; one that was not cut holds all there
\* is.
LEMMA ClipCounts ==
  ASSUME NEW v \in Versions, NEW s \in Nat \ {0}, NEW n \in Nat \ {0},
         NEW limit \in Nat \ {0}
  PROVE  LET rows == Rows(v, s, n)
             text == Clip(v, s, n, limit)
         IN  /\ text.lines \in Nat
             /\ text.cut \in BOOLEAN
             /\ s .. s + text.lines - 1 \subseteq rows
             /\ s .. s + text.lines - 2 \subseteq text.whole
             /\ rows # {} => text.lines > 0
             /\ ~ text.cut => rows \subseteq text.whole
  <1> DEFINE rows == Rows(v, s, n)
             text == Clip(v, s, n, limit)
             counted == {k \in rows : k = s \/ Bytes(v, s, k - 1) < limit}
  <1>1. Len(Text[v]) \in Nat
    BY DEF InspectionAssumption
  <1>2. rows = {k \in s .. s + n - 1 : k <= Len(Text[v])}
    BY DEF Rows
  <1>3. /\ text.lines = Cardinality(counted)
        /\ text.whole = {k \in rows : Bytes(v, s, k) <= limit}
        /\ text.cut = \E k \in rows : Bytes(v, s, k) > limit
    BY DEF Clip
  <1> HIDE DEF rows, text
  <1>4. ASSUME NEW k \in rows
        PROVE  /\ k \in Nat /\ k >= s /\ Bytes(v, s, k) \in Nat
               /\ k > s => /\ k - 1 \in rows
                           /\ Bytes(v, s, k - 1) \in Nat
                           /\ Bytes(v, s, k) > Bytes(v, s, k - 1)
    <2>1. s <= Len(Text[v]) /\ k \in s .. Len(Text[v])
      BY <1>1, <1>2
    <2>2. k > s => k - 1 \in s .. Len(Text[v]) /\ k - 1 \in rows
      BY <1>1, <1>2
    <2>3. \A x \in s .. Len(Text[v]) :
             /\ Bytes(v, s, x) \in Nat
             /\ x > s => Bytes(v, s, x) > Bytes(v, s, x - 1)
      BY <2>1, BytesGrow
    <2>4. k \in Nat /\ k >= s /\ Bytes(v, s, k) \in Nat
      BY <1>1, <2>1, <2>3
    <2>5. ASSUME k > s
          PROVE  k - 1 \in rows /\ Bytes(v, s, k - 1) \in Nat
                 /\ Bytes(v, s, k) > Bytes(v, s, k - 1)
      BY <2>1, <2>2, <2>3, <2>5
    <2> QED
      BY <2>4, <2>5
  <1>5. \A k \in counted : k > s => k - 1 \in counted
    <2> SUFFICES ASSUME NEW k \in counted, k > s
                 PROVE  k - 1 \in counted
      OBVIOUS
    <2>1. k \in rows /\ k - 1 \in rows /\ Bytes(v, s, k - 1) < limit
      BY <1>4
    <2>2. CASE k - 1 = s
      BY <2>1, <2>2
    <2>3. CASE k - 1 # s
      <3>1. Bytes(v, s, k - 1) > Bytes(v, s, k - 1 - 1)
            /\ Bytes(v, s, k - 1 - 1) \in Nat /\ Bytes(v, s, k - 1) \in Nat
        BY <1>4, <2>1, <2>3
      <3> QED
        BY <2>1, <3>1
    <2> QED
      BY <2>2, <2>3
  <1>6. counted \subseteq s .. s + n - 1
    BY <1>2
  <1>7. /\ text.lines \in Nat
        /\ counted = s .. s + text.lines - 1
    <2> HIDE DEF counted
    <2>1. s + n - 1 \in Nat /\ s \in Nat
      OBVIOUS
    <2>2. /\ Cardinality(counted) \in Nat
          /\ counted = s .. s + Cardinality(counted) - 1
      BY <1>5, <1>6, <2>1, NoGap
    <2> QED
      BY <1>3, <2>2
  <1>8. ASSUME NEW k \in s .. s + text.lines - 2
        PROVE  k \in text.whole
    <2>1. k \in counted /\ k + 1 \in counted /\ k + 1 > s
      <3> HIDE DEF counted
      <3> QED
        BY <1>7
    <2>2. Bytes(v, s, k + 1 - 1) < limit /\ k + 1 - 1 = k
      BY <2>1
    <2>3. Bytes(v, s, k) \in Nat /\ k \in rows
      BY <1>4, <2>1
    <2> QED
      BY <1>3, <2>2, <2>3
  <1>9. rows # {} => text.lines > 0
    <2> SUFFICES ASSUME NEW k \in rows PROVE text.lines > 0
      OBVIOUS
    <2>1. s \in counted
      BY <1>1, <1>2
    <2> HIDE DEF counted
    <2> QED
      BY <1>7, <2>1
  <1>10. ASSUME ~ text.cut, NEW k \in rows PROVE k \in text.whole
    <2>1. ~ (Bytes(v, s, k) > limit) /\ Bytes(v, s, k) \in Nat
      BY <1>3, <1>4, <1>10
    <2>2. Bytes(v, s, k) <= limit
      BY <2>1
    <2> QED
      BY <1>3, <2>2
  <1>11. counted \subseteq rows /\ text.cut \in BOOLEAN
    BY <1>3
  <1> HIDE DEF counted
  <1> QED
    BY <1>7, <1>8, <1>9, <1>10, <1>11 DEF rows, text

-------------------------------------------------------------------------------
(* What a window leaves on record.                                         *)

AnyRanges == [path : Paths, start : Nat \ {0}, count : Nat \ {0}]

IsWindow(w) ==
    /\ w.range \in AnyRanges
    /\ \E limit \in Nat \ {0} :
          w.text = Clip(content[w.range.path], w.range.start, w.range.count, limit)

\* A record covers what it counts, and stands for lines of the file as it
\* is now, which the model was sent but for the line the window was cut in.
Sent(r) ==
    /\ r.path \in Paths
    /\ r.base = content[r.path]
    /\ r.start \in Nat /\ r.lines \in Nat
    /\ CoverageEnd(r) \in Nat /\ CoverageEnd(r) >= r.start + r.lines
    /\ r.keyed = Reusable(r.base, r.start .. r.start + r.lines - 1)
    /\ \A k \in r.start .. CoverageEnd(r) - 1 :
          k \in Lines(r.base) => <<r.path, r.base, k>> \in shown \/ CutLine(r, k)

InspectionInv ==
    /\ content \in [Paths -> Versions]
    /\ \A r \in records : Sent(r)

\* The record of a window covers, of the lines of the file, those the
\* window holds in full and the one it was cut in.
LEMMA RecordCovers ==
  ASSUME content \in [Paths -> Versions], NEW w, IsWindow(w)
  PROVE  LET r == RecordOf(w)
             rows == Rows(content[w.range.path], w.range.start, w.range.count)
         IN  /\ r.path = w.range.path /\ r.path \in Paths
             /\ r.base = content[r.path]
             /\ r.start = w.range.start /\ r.start \in Nat
             /\ r.lines \in Nat
             /\ r.keyed = Reusable(r.base, r.start .. r.start + r.lines - 1)
             /\ r.start .. r.start + r.lines - 1 \subseteq rows
             /\ rows # {} => r.lines > 0
             /\ CoverageEnd(r) >= r.start + r.lines
             /\ CoverageEnd(r) \in Nat
             /\ \A k \in r.start .. CoverageEnd(r) - 1 :
                   k \in Lines(r.base) => k \in w.text.whole \/ CutLine(r, k)
  <1> DEFINE p == w.range.path
             s == w.range.start
             n == w.range.count
             v == content[p]
             rows == Rows(v, s, n)
             text == w.text
             r == RecordOf(w)
  <1>1. p \in Paths /\ s \in Nat \ {0} /\ n \in Nat \ {0} /\ v \in Versions
    BY DEF IsWindow, AnyRanges
  <1>2. /\ text.lines \in Nat
        /\ text.cut \in BOOLEAN
        /\ s .. s + text.lines - 1 \subseteq rows
        /\ s .. s + text.lines - 2 \subseteq text.whole
        /\ rows # {} => text.lines > 0
        /\ ~ text.cut => rows \subseteq text.whole
    <2>1. PICK limit \in Nat \ {0} : text = Clip(v, s, n, limit)
      BY DEF IsWindow
    <2> HIDE DEF p, s, n, v, text
    <2> QED
      BY <1>1, <2>1, ClipCounts
  <1>3. /\ r.path = p /\ r.base = v /\ r.start = s /\ r.lines = text.lines
        /\ r.requested = n /\ r.cut = text.cut
        /\ r.eof = (~ text.cut /\ text.lines < n)
        /\ r.keyed = Reusable(v, s .. s + text.lines - 1)
    BY DEF RecordOf
  <1>4. rows = {k \in s .. s + n - 1 : k <= Len(Text[v])}
    BY DEF Rows
  <1>5. Lines(v) = 1 .. Len(Text[v]) /\ Len(Text[v]) \in Nat
    BY <1>1 DEF Lines, InspectionAssumption
  <1> HIDE DEF p, s, n, v, rows, text, r
  <1>6. CASE r.eof
    <2>1. CoverageEnd(r) = s + n /\ ~ text.cut /\ text.lines < n
      BY <1>3, <1>6 DEF CoverageEnd
    <2>2. \A k \in s .. s + n - 1 : k \in Lines(v) => k \in rows
      BY <1>1, <1>4, <1>5
    <2>3. rows \subseteq text.whole
      BY <1>2, <2>1
    <2>4. \A k \in s .. CoverageEnd(r) - 1 : k \in Lines(v) => k \in text.whole
      <3>1. s .. CoverageEnd(r) - 1 = s .. s + n - 1
        BY <1>1, <2>1
      <3> QED
        BY <2>2, <2>3, <3>1
    <2>5. CoverageEnd(r) \in Nat /\ CoverageEnd(r) >= s + text.lines
      BY <1>1, <1>2, <2>1
    <2> QED
      BY <1>1, <1>2, <1>3, <2>4, <2>5 DEF p, s, n, v, rows, text, r
  <1>7. CASE ~ r.eof
    <2>1. CoverageEnd(r) = s + text.lines
      BY <1>3, <1>7 DEF CoverageEnd
    <2>2. ASSUME NEW k \in s .. s + text.lines - 1
          PROVE  k \in text.whole \/ CutLine(r, k)
      <3>1. CASE k = s + text.lines - 1
        <4>1. k \in rows
          BY <1>2
        <4> QED
          BY <1>2, <1>3, <3>1, <4>1 DEF CutLine
      <3>2. CASE k # s + text.lines - 1
        <4>1. PICK l \in Nat : l = text.lines
          BY <1>2
        <4>2. k \in s .. s + l - 1 /\ k # s + l - 1 /\ s \in Nat
          BY <1>1, <3>2, <4>1
        <4>3. k \in s .. s + l - 2
          BY <4>2
        <4> QED
          BY <1>2, <4>1, <4>3
      <3> QED
        BY <3>1, <3>2
    <2>3. \A k \in s .. CoverageEnd(r) - 1 : k \in text.whole \/ CutLine(r, k)
      <3>1. s .. CoverageEnd(r) - 1 = s .. s + text.lines - 1
        BY <1>1, <1>2, <2>1
      <3> QED
        BY <2>2, <3>1
    <2>4. CoverageEnd(r) \in Nat /\ CoverageEnd(r) >= s + text.lines
      BY <1>1, <1>2, <2>1
    <2> QED
      BY <1>1, <1>2, <1>3, <2>3, <2>4 DEF p, s, n, v, rows, text, r
  <1> QED
    BY <1>6, <1>7

\* Capturing windows keeps what the records on file stand for and adds
\* records of the same kind.
LEMMA CaptureKeeps ==
  ASSUME InspectionInv, content' = content, NEW windows,
         \A w \in windows : IsWindow(w), CaptureWindows(windows)
  PROVE  InspectionInv'
  <1>1. content' \in [Paths -> Versions]
    BY DEF InspectionInv
  <1>2. /\ \A r \in records' : r \in records \/ \E w \in windows : r = RecordOf(w)
        /\ shown \subseteq shown'
        /\ \A w \in windows : \A k \in w.text.whole :
              <<w.range.path, content[w.range.path], k>> \in shown'
    BY DEF CaptureWindows
  <1>3. ASSUME NEW r \in records PROVE Sent(r)'
    <2>1. Sent(r)
      BY DEF InspectionInv
    <2> QED
      BY <1>2, <2>1 DEF Sent
  <1>4. ASSUME NEW w \in windows, NEW r, r = RecordOf(w)
        PROVE  Sent(r)'
    <2>1. /\ r.path = w.range.path /\ r.path \in Paths
          /\ r.base = content[r.path]
          /\ r.start \in Nat /\ r.lines \in Nat
          /\ CoverageEnd(r) \in Nat /\ CoverageEnd(r) >= r.start + r.lines
          /\ r.keyed = Reusable(r.base, r.start .. r.start + r.lines - 1)
          /\ \A k \in r.start .. CoverageEnd(r) - 1 :
                k \in Lines(r.base) => k \in w.text.whole \/ CutLine(r, k)
      BY <1>4, RecordCovers DEF InspectionInv
    <2> QED
      BY <1>2, <2>1 DEF Sent
  <1>5. \A r \in records' : Sent(r)'
    BY <1>2, <1>3, <1>4
  <1> QED
    BY <1>1, <1>5 DEF InspectionInv

-------------------------------------------------------------------------------
(* The windows of the three forms of a call.                               *)

\* A hole lies inside the range it was cut out of, and begins with a line
\* that no record covers.
LEMMA Holes ==
  ASSUME NEW range \in AnyRanges, NEW hole \in Uncovered(range)
  PROVE  /\ hole \in AnyRanges
         /\ hole.path = range.path
         /\ hole.start \in range.start .. range.start + range.count - 1
         /\ hole.start + hole.count - 1 <= range.start + range.count - 1
         /\ hole.start \notin Covered(range.path)
  <1> DEFINE open == (range.start .. range.start + range.count - 1)
                        \ Covered(range.path)
  <1>1. PICK ab \in open \X open :
           /\ ab[1] <= ab[2]
           /\ hole = ReadRange(range.path, ab[1], ab[2] - ab[1] + 1)
    BY DEF Uncovered
  <1>2. range.path \in Paths /\ range.start \in Nat \ {0} /\ range.count \in Nat \ {0}
    BY DEF AnyRanges
  <1>3. PICK a \in open, b \in open :
           a <= b /\ hole = ReadRange(range.path, a, b - a + 1)
    BY <1>1
  <1>4. /\ a \in Nat \ {0} /\ b \in Nat /\ a <= b
        /\ a \in range.start .. range.start + range.count - 1
        /\ b <= range.start + range.count - 1
        /\ a \notin Covered(range.path)
    <2>1. range.start .. range.start + range.count - 1 \subseteq Nat \ {0}
      BY <1>2
    <2>2. a \in range.start .. range.start + range.count - 1
          /\ b \in range.start .. range.start + range.count - 1
          /\ a \notin Covered(range.path)
      OBVIOUS
    <2>3. b <= range.start + range.count - 1
      BY <1>2, <2>2
    <2> HIDE DEF open
    <2> QED
      BY <1>3, <2>1, <2>2, <2>3
  <1> HIDE DEF open
  <1>5. /\ hole = ReadRange(range.path, a, b - a + 1)
        /\ b - a + 1 \in Nat \ {0} /\ a + (b - a + 1) - 1 = b
    BY <1>3, <1>4
  <1>6. hole.path = range.path /\ hole.start = a /\ hole.count = b - a + 1
        /\ hole = [path |-> range.path, start |-> a, count |-> b - a + 1]
    BY <1>5 DEF ReadRange
  <1>7. hole \in AnyRanges
    BY <1>2, <1>4, <1>5, <1>6 DEF AnyRanges
  <1> QED
    BY <1>4, <1>5, <1>6, <1>7

\* What a preview makes of a range are windows.
LEMMA PreviewsAreWindows ==
  ASSUME NEW range \in AnyRanges, NEW limit \in Nat \ {0},
         NEW w \in Preview(range, limit)
  PROVE  IsWindow(w) /\ w.range \in Uncovered(range)
  <1>1. PICK hole \in Uncovered(range) :
           w = [range |-> hole,
                text  |-> Clip(content[range.path], hole.start, hole.count, limit)]
    BY DEF Preview
  <1>2. hole \in AnyRanges /\ hole.path = range.path
    BY Holes
  <1>3. /\ w.range = hole
        /\ w.text = Clip(content[hole.path], hole.start, hole.count, limit)
    BY <1>1, <1>2
  <1> QED
    BY <1>2, <1>3 DEF IsWindow

\* The previews that fit are some of those of the ranges.
LEMMA FittingIsPart ==
  ASSUME NEW ranges \in Seq(AnyRanges)
  PROVE  Fitting(ranges) \subseteq 1 .. Len(ranges)
  <1> DEFINE N == Len(ranges)
             V == SUBSET (1 .. N)
             More(chosen, k) ==
                {j \in {k} : TotalSize(ranges, chosen \cup {j}) <= BodyBytes}
             Taken(f) == f = [k \in 0 .. N |-> IF k = 0 THEN {}
                                ELSE f[k - 1] \cup More(f[k - 1], k)]
             step == [k \in 0 .. N |-> [chosen \in V |->
                        IF k = 0 THEN {} ELSE chosen \cup More(chosen, k)]]
  <1>1. N \in Nat /\ 0 <= N /\ 0 \in Nat /\ {} \in V
    OBVIOUS
  <1>2. step \in [0 .. N -> [V -> V]]
    <2>1. ASSUME NEW k \in 0 .. N, NEW chosen \in V, k # 0
          PROVE  chosen \cup More(chosen, k) \in V
      <3>1. k \in 1 .. N
        BY <1>1, <2>1
      <3>2. More(chosen, k) \subseteq {k}
        OBVIOUS
      <3> HIDE DEF More
      <3> QED
        BY <3>1, <3>2
    <2> HIDE DEF V, More
    <2> QED
      BY <1>1, <2>1
  <1> HIDE DEF V, More, N
  <1>3. \E f : Taken(f) /\ f \in [0 .. N -> V]
    <2> HIDE DEF step
    <2>1. PICK f : Iterates(f, 0, N, V, {}, step)
      BY <1>1, <1>2, Recursion
    <2>2. f \in [0 .. N -> V] /\ f[0] = {}
          /\ \A k \in 0 .. N : k # 0 => f[k] = step[k][f[k - 1]]
      BY <2>1 DEF Iterates
    <2>3. ASSUME NEW k \in 0 .. N, k # 0
          PROVE  f[k] = f[k - 1] \cup More(f[k - 1], k)
      <3>1. k - 1 \in 0 .. N
        BY <1>1, <2>3
      <3>2. f[k - 1] \in V
        BY <2>2, <3>1
      <3>3. step[k][f[k - 1]] = f[k - 1] \cup More(f[k - 1], k)
        BY <2>3, <3>2 DEF step
      <3> QED
        BY <2>2, <2>3, <3>3
    <2>4. \A k \in 0 .. N : f[k] = IF k = 0 THEN {}
                                   ELSE f[k - 1] \cup More(f[k - 1], k)
      BY <2>2, <2>3
    <2>5. f = [k \in 0 .. N |-> f[k]]
      BY <2>2
    <2>6. Taken(f)
      BY <2>4, <2>5
    <2> QED
      BY <2>2, <2>6
  <1>4. PICK f : f = CHOOSE g : Taken(g)
    OBVIOUS
  <1>5. Taken(f)
    <2> HIDE DEF Taken
    <2> QED
      BY <1>3, <1>4, Zenon
  <1>6. Fitting(ranges) = f[N]
    BY <1>4 DEF Fitting, More, N
  <1>7. f[0] = {} /\ \A k \in 0 .. N : k # 0 => f[k] = f[k - 1] \cup More(f[k - 1], k)
    <2>1. 0 \in 0 .. N
      BY <1>1
    <2> QED
      BY <1>5, <2>1
  <1>8. \A k \in 0 .. N : f[k] \in V
    <2> HIDE DEF Taken, step
    <2>1. ASSUME NEW k \in 0 + 1 .. N, f[k - 1] \in V
          PROVE  f[k] \in V
      <3>1. k \in 0 .. N /\ k # 0 /\ k \in 1 .. N
        BY <1>1
      <3>2. PICK before \in V : before = f[k - 1]
        BY <2>1
      <3>3. f[k] = before \cup More(before, k)
        BY <1>7, <3>1, <3>2
      <3>4. More(before, k) \subseteq {k}
        BY DEF More
      <3> QED
        BY <3>1, <3>2, <3>3, <3>4 DEF V
    <2>2. f[0] \in V
      BY <1>1, <1>7
    <2>3. \A k \in 0 + 1 .. N : f[k - 1] \in V => f[k] \in V
      BY <2>1
    <2> QED
      BY <1>1, <2>2, <2>3, Stepwise
  <1> QED
    BY <1>1, <1>6, <1>8 DEF V, N

\* The ranges around the matches of a search are ranges of lines.
LEMMA BundlesAreRanges ==
  ASSUME NEW matches \in Seq(Matches)
  PROVE  BundleRanges(matches) \in Seq(AnyRanges)
  <1> DEFINE N == Len(matches)
             V == Seq(AnyRanges)
             size == WindowLines[IF Cardinality({m.path : m \in ToSet(matches)}) > 1
                                 THEN 2 ELSE 1]
             Piece(chosen, k) == IF Clear(chosen, Around(matches[k], size))
                                 THEN <<Around(matches[k], size)>> ELSE <<>>
             Chosen(f) == f = [k \in 0 .. N |-> IF k = 0 THEN <<>>
                                 ELSE f[k - 1] \o Piece(f[k - 1], k)]
             step == [k \in 0 .. N |-> [chosen \in V |->
                        IF k = 0 THEN <<>> ELSE chosen \o Piece(chosen, k)]]
  <1>1. N \in Nat /\ 0 <= N /\ 0 \in Nat /\ <<>> \in V
    OBVIOUS
  <1>2. size \in Nat \ {0}
    BY DEF InspectionAssumption
  <1>3. ASSUME NEW m \in Matches PROVE Around(m, size) \in AnyRanges
    <2>1. PICK l \in Nat \ {0}, n \in Nat \ {0} : l = m.line /\ n = size
      <3>1. m.line \in 1 .. MaxStart /\ MaxStart \in Nat
        BY DEF Matches, InspectionAssumption
      <3>2. m.line \in Nat \ {0}
        BY <3>1
      <3> QED
        BY <1>2, <3>2
    <2>2. (IF l > n \div 3 THEN l - n \div 3 ELSE 1) \in Nat \ {0}
      OBVIOUS
    <2>3. m.path \in Paths
      BY DEF Matches
    <2>4. PICK first \in Nat \ {0} : first = IF l > n \div 3 THEN l - n \div 3 ELSE 1
      BY <2>2
    <2>5. Around(m, size) = ReadRange(m.path, first, n)
      BY <2>1, <2>4 DEF Around
    <2> QED
      BY <2>3, <2>5 DEF ReadRange, AnyRanges
  <1> HIDE DEF size
  <1>4. ASSUME NEW k \in 1 .. N, NEW chosen PROVE Piece(chosen, k) \in V
    <2>1. matches[k] \in Matches
      OBVIOUS
    <2>2. PICK r \in AnyRanges : r = Around(matches[k], size)
      BY <1>3, <2>1
    <2>3. <<r>> \in V
      OBVIOUS
    <2>4. Piece(chosen, k) = <<r>> \/ Piece(chosen, k) = <<>>
      BY <2>2
    <2> QED
      BY <1>1, <2>3, <2>4
  <1> HIDE DEF Piece, N
  <1>5. ASSUME NEW k \in 0 .. N, NEW chosen \in V, k # 0
        PROVE  chosen \o Piece(chosen, k) \in V
    <2>1. k \in 1 .. N
      BY <1>1, <1>5
    <2>2. PICK piece \in V : piece = Piece(chosen, k)
      BY <1>4, <2>1
    <2> QED
      BY <2>2
  <1>6. step \in [0 .. N -> [V -> V]]
    <2> HIDE DEF V
    <2> QED
      BY <1>1, <1>5
  <1> HIDE DEF V
  <1>7. \E f : Chosen(f) /\ f \in [0 .. N -> V]
    <2> HIDE DEF step
    <2>1. PICK f : Iterates(f, 0, N, V, <<>>, step)
      BY <1>1, <1>6, Recursion
    <2>2. f \in [0 .. N -> V] /\ f[0] = <<>>
          /\ \A k \in 0 .. N : k # 0 => f[k] = step[k][f[k - 1]]
      BY <2>1 DEF Iterates
    <2>3. ASSUME NEW k \in 0 .. N, k # 0
          PROVE  f[k] = f[k - 1] \o Piece(f[k - 1], k)
      <3>1. k - 1 \in 0 .. N
        BY <1>1, <2>3
      <3>2. f[k - 1] \in V
        BY <2>2, <3>1
      <3>3. step[k][f[k - 1]] = f[k - 1] \o Piece(f[k - 1], k)
        BY <2>3, <3>2 DEF step
      <3> QED
        BY <2>2, <2>3, <3>3
    <2>4. \A k \in 0 .. N : f[k] = IF k = 0 THEN <<>>
                                   ELSE f[k - 1] \o Piece(f[k - 1], k)
      BY <2>2, <2>3
    <2>5. f = [k \in 0 .. N |-> f[k]]
      BY <2>2
    <2>6. Chosen(f)
      BY <2>4, <2>5
    <2> QED
      BY <2>2, <2>6
  <1>8. PICK f : f = CHOOSE g : Chosen(g)
    OBVIOUS
  <1>9. Chosen(f)
    <2> HIDE DEF Chosen
    <2> QED
      BY <1>7, <1>8, Zenon
  <1>10. BundleRanges(matches) = f[N]
    BY <1>8 DEF BundleRanges, Piece, size, N
  <1>11. f[0] = <<>>
         /\ \A k \in 0 .. N : k # 0 => f[k] = f[k - 1] \o Piece(f[k - 1], k)
    <2>1. 0 \in 0 .. N
      BY <1>1
    <2> QED
      BY <1>9, <2>1
  <1>12. \A k \in 0 .. N : f[k] \in V
    <2> HIDE DEF Chosen, step
    <2>1. ASSUME NEW k \in 0 + 1 .. N, f[k - 1] \in V
          PROVE  f[k] \in V
      <3>1. k \in 0 .. N /\ k # 0
        BY <1>1
      <3>2. f[k] = f[k - 1] \o Piece(f[k - 1], k)
        BY <1>11, <3>1
      <3> QED
        BY <1>5, <2>1, <3>1, <3>2
    <2>2. f[0] \in V
      BY <1>1, <1>11
    <2>3. \A k \in 0 + 1 .. N : f[k - 1] \in V => f[k] \in V
      BY <2>1
    <2> QED
      BY <1>1, <2>2, <2>3, Stepwise
  <1> QED
    BY <1>1, <1>10, <1>12 DEF V

\* A call with several ranges sends windows.
LEMMA AllAreWindows ==
  ASSUME NEW ranges \in Seq(AnyRanges), NEW w \in Windows(ranges)
  PROVE  IsWindow(w)
  <1>1. PICK k \in Fitting(ranges) : w \in Preview(ranges[k], WindowBytes)
    BY DEF Windows
  <1>2. ranges[k] \in AnyRanges
    <2>1. k \in 1 .. Len(ranges)
      BY FittingIsPart
    <2> QED
      BY <2>1
  <1>3. WindowBytes \in Nat \ {0}
    BY DEF InspectionAssumption
  <1> QED
    BY <1>1, <1>2, <1>3, PreviewsAreWindows

-------------------------------------------------------------------------------
(* What holds after every step.                                            *)

\* The ranges the tool is asked for are ranges of lines.
LEMMA RangesAreAny == Ranges \subseteq AnyRanges
  <1>1. 1 .. MaxStart \subseteq Nat \ {0} /\ Counts \subseteq Nat \ {0}
    BY DEF InspectionAssumption
  <1> QED
    BY <1>1 DEF Ranges, AnyRanges

\* A read sends the holes of its range.
LEMMA ReadKeeps ==
  ASSUME InspectionInv, NEW range \in Ranges, Read(range)
  PROVE  InspectionInv'
  <1>1. content' = content /\ CaptureWindows(Preview(range, ReadBytes))
    BY DEF Read
  <1>2. ReadBytes \in Nat \ {0} /\ range \in AnyRanges
    BY RangesAreAny DEF InspectionAssumption
  <1>3. \A w \in Preview(range, ReadBytes) : IsWindow(w)
    BY <1>2, PreviewsAreWindows
  <1> QED
    BY <1>1, <1>3, CaptureKeeps

\* Several ranges send what fits of their previews.
LEMMA ReadManyKeeps ==
  ASSUME InspectionInv, NEW r \in Ranges, NEW q \in Ranges, ReadMany(<<r, q>>)
  PROVE  InspectionInv'
  <1>1. content' = content /\ CaptureWindows(Windows(<<r, q>>))
    BY DEF ReadMany
  <1>2. <<r, q>> \in Seq(AnyRanges)
    BY RangesAreAny
  <1>3. \A w \in Windows(<<r, q>>) : IsWindow(w)
    BY <1>2, AllAreWindows
  <1> QED
    BY <1>1, <1>3, CaptureKeeps

\* A bundle sends what fits of the windows around its matches.
LEMMA BundleKeeps ==
  ASSUME InspectionInv, NEW m \in Matches, NEW n \in Matches, Bundle(<<m, n>>)
  PROVE  InspectionInv'
  <1>1. content' = content /\ CaptureWindows(Windows(BundleRanges(<<m, n>>)))
    BY DEF Bundle
  <1>2. BundleRanges(<<m, n>>) \in Seq(AnyRanges)
    <2>1. <<m, n>> \in Seq(Matches)
      OBVIOUS
    <2> QED
      BY <2>1, BundlesAreRanges
  <1>3. \A w \in Windows(BundleRanges(<<m, n>>)) : IsWindow(w)
    BY <1>2, AllAreWindows
  <1> QED
    BY <1>1, <1>3, CaptureKeeps

\* An edit forgets the records and the lines of its file, and leaves those
\* of the others alone.
LEMMA EditKeeps ==
  ASSUME InspectionInv, NEW p \in Paths, NEW v \in Versions, Edit(p, v)
  PROVE  InspectionInv'
  <1>1. content' = [content EXCEPT ![p] = v]
        /\ records' = {r \in records : r.path # p}
        /\ shown' = {line \in shown : line[1] # p}
    BY DEF Edit
  <1>2. content' \in [Paths -> Versions]
        /\ \A q \in Paths : q # p => content'[q] = content[q]
    BY <1>1 DEF InspectionInv
  <1>3. ASSUME NEW r \in records' PROVE Sent(r)'
    <2>1. Sent(r) /\ r.path # p
      BY <1>1, <1>3 DEF InspectionInv
    <2>2. r.path \in Paths /\ r.base = content[r.path]
          /\ r.base = content'[r.path]
          /\ r.start \in Nat /\ r.lines \in Nat
          /\ CoverageEnd(r) \in Nat /\ CoverageEnd(r) >= r.start + r.lines
          /\ r.keyed = Reusable(r.base, r.start .. r.start + r.lines - 1)
      BY <1>2, <2>1 DEF Sent
    <2>3. ASSUME NEW k, <<r.path, r.base, k>> \in shown
          PROVE  <<r.path, r.base, k>> \in shown'
      BY <1>1, <2>1, <2>3
    <2>4. \A k \in r.start .. CoverageEnd(r) - 1 :
             k \in Lines(r.base) => <<r.path, r.base, k>> \in shown' \/ CutLine(r, k)
      BY <2>1, <2>3 DEF Sent
    <2> QED
      BY <2>2, <2>4 DEF Sent
  <1> QED
    BY <1>2, <1>3 DEF InspectionInv

\* The inductive invariant: every active record stands for lines of its file
\* as it is that the model was sent.
LEMMA InspectionInduction == Spec => []InspectionInv
  <1>1. Init => InspectionInv
    BY DEF Init, InspectionInv, InspectionAssumption
  <1>2. InspectionInv /\ [Next]_vars => InspectionInv'
    <2> SUFFICES ASSUME InspectionInv, [Next]_vars
                 PROVE  InspectionInv'
      OBVIOUS
    <2>1. ASSUME NEW range \in Ranges, Read(range)
          PROVE  InspectionInv'
      BY <2>1, ReadKeeps
    <2>2. ASSUME NEW r \in Ranges, NEW q \in Ranges, ReadMany(<<r, q>>)
          PROVE  InspectionInv'
      BY <2>2, ReadManyKeeps
    <2>3. ASSUME NEW m \in Matches, NEW n \in Matches, Bundle(<<m, n>>)
          PROVE  InspectionInv'
      BY <2>3, BundleKeeps
    <2>4. ASSUME NEW p \in Paths, NEW v \in Versions, Edit(p, v)
          PROVE  InspectionInv'
      BY <2>4, EditKeeps
    <2>5. CASE NewGoal
      <3>1. content' = content /\ records' = {}
        BY <2>5 DEF NewGoal
      <3> QED
        BY <3>1 DEF InspectionInv
    <2>6. CASE UNCHANGED vars
      <3>1. content' = content /\ records' = records /\ shown' = shown
        BY <2>6 DEF vars
      <3> QED
        BY <3>1 DEF InspectionInv, Sent
    <2> QED
      BY <2>1, <2>2, <2>3, <2>4, <2>5, <2>6 DEF Next
  <1> QED
    BY <1>1, <1>2, PTL DEF Spec

-------------------------------------------------------------------------------
(* What the model is told and what it is not.                              *)

\* What is answered ALREADY_SEEN was sent: of the lines of a file, no record
\* ever hides one the model was not sent for this goal, since the file has
\* its content, but the line a window was cut in.
THEOREM HiddenLinesWereSent == Spec => []OnlyCutLinesHidden
  <1>1. InspectionInv => OnlyCutLinesHidden
    <2> SUFFICES ASSUME InspectionInv, NEW p \in Paths,
                        NEW k \in Covered(p) \cap Lines(content[p])
                 PROVE  \/ <<p, content[p], k>> \in shown
                        \/ \E r \in Seen(p) : CutLine(r, k)
      BY DEF OnlyCutLinesHidden
    <2>1. PICK r \in Seen(p) : k \in r.start .. CoverageEnd(r) - 1
      BY DEF Covered
    <2>2. r \in records /\ r.path = p /\ r.base = content[p] /\ Sent(r)
      BY <2>1 DEF Seen, InspectionInv
    <2>3. <<r.path, r.base, k>> \in shown \/ CutLine(r, k)
      BY <2>1, <2>2 DEF Sent
    <2> QED
      BY <2>1, <2>2, <2>3
  <1> QED
    BY <1>1, InspectionInduction, PTL

\* Around a line that is not covered there is a hole.
LEMMA HoleAround ==
  ASSUME NEW range \in AnyRanges,
         NEW k \in range.start .. range.start + range.count - 1,
         k \notin Covered(range.path)
  PROVE  \E hole \in Uncovered(range) : hole.start <= k
  <1> DEFINE open == (range.start .. range.start + range.count - 1)
                        \ Covered(range.path)
             Before == {d \in Nat : d <= k /\ k - d - 1 \notin open}
             Behind == {y \in Nat : y >= k /\ y + 1 \notin open}
  <1>1. PICK s \in Nat \ {0}, n \in Nat \ {0} : s = range.start /\ n = range.count
    BY DEF AnyRanges
  <1>2. /\ k \in Nat \ {0} /\ k \in open /\ -1 \notin open
        /\ s + n - 1 >= k /\ s + n - 1 \in Nat /\ s + n - 1 + 1 \notin open
    <2>1. k \in s .. s + n - 1 /\ k \in open
      BY <1>1
    <2>2. open \subseteq s .. s + n - 1
      BY <1>1
    <2> HIDE DEF open
    <2> QED
      BY <2>1, <2>2
  <1> HIDE DEF open
  <1>3. PICK d \in Before : \A e \in Before : d <= e
    <2>1. k - k - 1 = -1
      BY <1>2
    <2>2. k \in Before
      BY <1>2, <2>1
    <2>3. Before \subseteq Nat
      OBVIOUS
    <2> HIDE DEF Before
    <2> QED
      BY <2>2, <2>3, Least
  <1>4. PICK b \in Behind : \A y \in Behind : b <= y
    <2>1. s + n - 1 \in Behind
      BY <1>2
    <2>2. Behind \subseteq Nat
      OBVIOUS
    <2> HIDE DEF Behind
    <2> QED
      BY <2>1, <2>2, Least
  <1>5. PICK a \in Nat : a = k - d
    BY <1>2
  <1>6. a <= k /\ a - 1 \notin open /\ b \in Nat /\ k <= b /\ b + 1 \notin open
    BY <1>2, <1>5
  <1>7. ASSUME NEW x \in a .. b PROVE x \in open
    <2>1. CASE x = k
      BY <1>2, <2>1
    <2>2. CASE x < k
      <3>1. k - x - 1 \in Nat /\ k - x - 1 < d /\ k - x - 1 <= k
            /\ k - (k - x - 1) - 1 = x
        BY <1>2, <1>5, <2>2
      <3>2. k - x - 1 \notin Before
        <4> HIDE DEF Before
        <4>1. d \in Nat
          BY DEF Before
        <4> QED
          BY <1>3, <3>1, <4>1
      <3> QED
        BY <3>1, <3>2
    <2>3. CASE x > k
      <3>1. x - 1 \in Nat /\ x - 1 < b /\ x - 1 >= k /\ x - 1 + 1 = x
        BY <1>2, <1>6, <2>3
      <3>2. x - 1 \notin Behind
        <4> HIDE DEF Behind
        <4> QED
          BY <1>4, <1>6, <3>1
      <3> QED
        BY <3>1, <3>2
    <2> QED
      BY <1>2, <1>6, <2>1, <2>2, <2>3
  <1>8. a \in open /\ b \in open /\ a <= b /\ a .. b \subseteq open
    BY <1>6, <1>7
  <1>9. PICK hole : hole = ReadRange(range.path, a, b - a + 1)
    OBVIOUS
  <1>10. hole \in Uncovered(range)
    <2>1. <<a, b>> \in open \X open
      BY <1>8
    <2>2. PICK ab \in open \X open : ab[1] = a /\ ab[2] = b
      BY <2>1
    <2> QED
      BY <1>6, <1>8, <1>9, <2>2 DEF Uncovered, open
  <1>11. hole.start = a
    BY <1>9 DEF ReadRange
  <1> QED
    BY <1>6, <1>10, <1>11

\* A read that is not a receipt brings the model further: unless its lines
\* are sensitive or all covered, one more line of the file is covered.
THEOREM ReadsAdvance == Spec => ReadAdvances
  <1> DEFINE Further(range) ==
        LET p == range.path
            asked == Rows(content[p], range.start, range.count)
        IN  \/ Uncovered(range) = {}
            \/ asked \subseteq Covered(p)
            \/ \E k \in asked : k \in Covered(p)' /\ k \notin Covered(p)
            \/ \E k \in asked : <<content[p], k>> \in Secret
  <1>1. ASSUME InspectionInv, NEW range \in Ranges, Read(range)
        PROVE  Further(range)
    <2> DEFINE p == range.path
               v == content[p]
               asked == Rows(v, range.start, range.count)
    <2> SUFFICES ASSUME NEW k \in asked, k \notin Covered(p)
                 PROVE  \/ \E l \in asked : l \in Covered(p)' /\ l \notin Covered(p)
                        \/ \E l \in asked : <<v, l>> \in Secret
      OBVIOUS
    <2>1. InspectionInv'
      BY <1>1, ReadKeeps
    <2>2. range \in AnyRanges /\ range.start \in Nat \ {0} /\ range.count \in Nat \ {0}
          /\ p \in Paths /\ v \in Versions /\ Len(Text[v]) \in Nat
      <3>1. range \in AnyRanges
        BY RangesAreAny
      <3> QED
        BY <1>1, <3>1 DEF AnyRanges, InspectionInv, InspectionAssumption
    <2>3. k \in range.start .. range.start + range.count - 1 /\ k <= Len(Text[v])
      BY DEF Rows
    <2>4. PICK hole \in Uncovered(range) : hole.start <= k
      BY <2>2, <2>3, HoleAround
    <2>5. /\ hole \in AnyRanges /\ hole.path = p
          /\ hole.start \in range.start .. range.start + range.count - 1
          /\ hole.start + hole.count - 1 <= range.start + range.count - 1
          /\ hole.start \notin Covered(p)
      BY <2>2, Holes
    <2>6. hole.start \in Nat \ {0} /\ hole.count \in Nat \ {0}
      BY <2>5 DEF AnyRanges
    <2>7. Rows(v, hole.start, hole.count) \subseteq asked
          /\ hole.start \in Rows(v, hole.start, hole.count)
      <3>1. PICK a \in Nat, n \in Nat \ {0}, b \in Nat, m \in Nat \ {0}, l \in Nat :
               /\ a = hole.start /\ n = hole.count
               /\ b = range.start /\ m = range.count /\ l = Len(Text[v])
        BY <2>2, <2>6
      <3>2. a \in b .. b + m - 1 /\ a + n - 1 <= b + m - 1
        BY <2>5, <3>1
      <3>3. a <= l
        <4>1. k \in b .. b + m - 1 /\ k <= l /\ a <= k
          BY <2>3, <2>4, <3>1
        <4> QED
          BY <4>1
      <3>4. asked = {x \in b .. b + m - 1 : x <= l}
            /\ Rows(v, hole.start, hole.count) = {x \in a .. a + n - 1 : x <= l}
        BY <3>1 DEF Rows
      <3> HIDE DEF asked
      <3>5. ASSUME NEW x \in a .. a + n - 1 PROVE x \in b .. b + m - 1
        BY <3>2
      <3>6. a \in a .. a + n - 1
        OBVIOUS
      <3> QED
        BY <3>1, <3>3, <3>4, <3>5, <3>6
    <2>8. PICK w \in Preview(range, ReadBytes) : w.range = hole /\ IsWindow(w)
      <3>1. PICK w : w = [range |-> hole, text |-> Clip(content[range.path],
                             hole.start, hole.count, ReadBytes)]
        OBVIOUS
      <3>2. w \in Preview(range, ReadBytes)
        BY <3>1 DEF Preview
      <3>3. ReadBytes \in Nat \ {0}
        BY DEF InspectionAssumption
      <3>4. IsWindow(w)
        BY <2>2, <3>2, <3>3, PreviewsAreWindows
      <3> QED
        BY <3>1, <3>2, <3>4
    <2>9. PICK r : r = RecordOf(w)
      OBVIOUS
    <2>10. /\ r.path = p /\ r.base = v /\ r.start = hole.start
           /\ r.lines \in Nat /\ r.lines > 0
           /\ r.keyed = Reusable(r.base, r.start .. r.start + r.lines - 1)
           /\ r.start .. r.start + r.lines - 1 \subseteq asked
      <3>1. /\ r.path = w.range.path
            /\ r.base = content[r.path]
            /\ r.start = w.range.start
            /\ r.lines \in Nat
            /\ r.keyed = Reusable(r.base, r.start .. r.start + r.lines - 1)
            /\ LET rows == Rows(content[w.range.path], w.range.start, w.range.count)
               IN  /\ r.start .. r.start + r.lines - 1 \subseteq rows
                   /\ rows # {} => r.lines > 0
        BY <1>1, <2>8, <2>9, RecordCovers DEF InspectionInv
      <3> QED
        BY <2>5, <2>7, <2>8, <3>1
    <2>11. content' = content /\ \E q \in records' : SameText(r, q)
      <3>1. content' = content /\ CaptureWindows(Preview(range, ReadBytes))
        BY <1>1 DEF Read
      <3>2. PICK new : new = {RecordOf(x) : x \in Preview(range, ReadBytes)}
        OBVIOUS
      <3>3. PICK fresh : /\ \A x \in new : \E q \in records \cup fresh : SameText(x, q)
                         /\ records' = records \cup fresh
        BY <3>1, <3>2 DEF CaptureWindows
      <3>4. r \in new
        BY <2>8, <2>9, <3>2
      <3> QED
        BY <3>1, <3>3, <3>4
    <2>12. PICK q \in records' : SameText(r, q)
      BY <2>11
    <2>13. /\ q.path = p /\ q.base = v /\ q.start = r.start /\ q.lines = r.lines
           /\ q.base = content'[p]
      BY <2>10, <2>11, <2>12 DEF SameText
    <2>14. q.keyed = Reusable(q.base, q.start .. q.start + q.lines - 1)
           /\ CoverageEnd(q) \in Nat /\ CoverageEnd(q) >= q.start + q.lines
      BY <2>1, <2>12 DEF InspectionInv, Sent
    <2>15. CASE q.keyed
      <3>1. q \in Seen(p)'
        BY <2>12, <2>13, <2>15 DEF Seen
      <3>2. PICK a \in Nat, n \in Nat, e \in Nat :
               a = q.start /\ n = q.lines /\ e = CoverageEnd(q)
        BY <2>6, <2>10, <2>13, <2>14
      <3>3. a \in a .. e - 1
        <4>1. n > 0 /\ e >= a + n
          BY <2>10, <2>13, <2>14, <3>2
        <4> QED
          BY <4>1
      <3>4. a \in Covered(p)'
        BY <3>1, <3>2, <3>3 DEF Covered
      <3>5. a \in asked /\ a \notin Covered(p)
        BY <2>5, <2>7, <2>10, <2>13, <3>2
      <3> QED
        BY <3>4, <3>5
    <2>16. CASE ~ q.keyed
      <3>1. ~ Reusable(v, r.start .. r.start + r.lines - 1)
        BY <2>13, <2>14, <2>16
      <3>2. PICK l \in r.start .. r.start + r.lines - 1 : <<v, l>> \in Secret
        BY <3>1 DEF Reusable
      <3> QED
        BY <2>10, <3>2
    <2> QED
      BY <2>15, <2>16
  <1>2. InspectionInv /\ [Next]_vars =>
           [\A range \in Ranges : Read(range) => Further(range)]_vars
    BY <1>1
  <1>3. ReadAdvances <=> [][\A range \in Ranges : Read(range) => Further(range)]_vars
    BY DEF ReadAdvances
  <1> HIDE DEF Further
  <1> QED
    BY <1>2, <1>3, InspectionInduction, PTL DEF Spec
===============================================================================
