---------------------------- MODULE SlotScanProofs ----------------------------
(***************************************************************************)
(* What is proved of SlotScan for every value of its constants: IndInv,    *)
(* and with it each of its safety properties.  Lemmas on the grid, on      *)
(* lists of windows and on stretches of open minutes come first, then one  *)
(* lemma per loop.  At the end, what the expressions of module Slots       *)
(* compute, and that the loops compute the same.                           *)
(***************************************************************************)
EXTENDS SlotScanInvariant, SequenceTheorems, FiniteSetTheorems, TLAPS

-----------------------------------------------------------------------------
(* The grid *)

LEMMA Division ==
    ASSUME NEW s \in Nat \ {0}, NEW x \in Int, x % s = 0
    PROVE  \E k \in Int : x = k * s
<1>1. x \div s \in Int /\ x = (x \div s) * s
    OBVIOUS
<1> QED
    BY <1>1

LEMMA Multiple ==
    ASSUME NEW s \in Nat \ {0}, NEW k \in Int
    PROVE  (k * s) % s = 0
OBVIOUS

LEMMA NoMultipleBetween ==
    ASSUME NEW s \in Nat \ {0}, NEW j \in Int, NEW k \in Int, j * s < k * s
    PROVE  k * s >= j * s + s
<1>1. k >= j + 1
    OBVIOUS
<1>2. k * s >= (j + 1) * s
    BY <1>1
<1>3. (j + 1) * s = j * s + s
    OBVIOUS
<1> QED
    BY <1>2, <1>3

(* The start of a window is on its grid, and one step leads from a point   *)
(* of the grid to the next.                                                *)
LEMMA GridSteps ==
    ASSUME NEW s \in Nat \ {0}, NEW a \in Int
    PROVE  /\ (a - a) % s = 0
           /\ \A c \in Int : (c - a) % s = 0 => ((c + s) - a) % s = 0
           /\ \A c, t \in Int : (c - a) % s = 0 /\ (t - a) % s = 0 /\ c < t => t >= c + s
<1>1. (a - a) % s = 0
    BY Multiple
<1>2. ASSUME NEW c \in Int, (c - a) % s = 0
      PROVE  ((c + s) - a) % s = 0
    <2>0. c - a \in Int
        OBVIOUS
    <2>1. PICK k \in Int : c - a = k * s
        BY <1>2, <2>0, Division
    <2>2. (c + s) - a = (k + 1) * s
        <3>1. (k + 1) * s = k * s + s
            OBVIOUS
        <3> QED
            BY <2>1, <3>1
    <2>3. k + 1 \in Int
        OBVIOUS
    <2>4. ((k + 1) * s) % s = 0
        BY <2>3, Multiple
    <2> QED
        BY <2>2, <2>4
<1>3. ASSUME NEW c \in Int, NEW t \in Int, (c - a) % s = 0, (t - a) % s = 0, c < t
      PROVE  t >= c + s
    <2>0. c - a \in Int /\ t - a \in Int
        OBVIOUS
    <2>1. PICK j \in Int : c - a = j * s
        BY <1>3, <2>0, Division
    <2>2. PICK k \in Int : t - a = k * s
        BY <1>3, <2>0, Division
    <2>3. j * s < k * s
        BY <1>3, <2>1, <2>2
    <2>4. k * s >= j * s + s
        BY <2>3, NoMultipleBetween
    <2> QED
        BY <2>1, <2>2, <2>4
<1> QED
    BY <1>1, <1>2, <1>3

-----------------------------------------------------------------------------
(* Lists of windows *)

LEMMA IntervalType ==
    /\ DayLength \in Nat \ {0}
    /\ \A w \in Interval : w[1] \in 0..DayLength /\ w[2] \in 0..DayLength /\ w[1] < w[2]
    /\ \A a, b \in 0..DayLength : a < b => <<a, b>> \in Interval
BY SlotsAssumption DEF Interval

LEMMA ElementsOf ==
    ASSUME NEW S, NEW list \in Seq(S)
    PROVE  /\ DOMAIN list = 1..Len(list)
           /\ Len(list) \in Nat
           /\ ToSet(list) \subseteq S
           /\ \A i \in 1..Len(list) : list[i] \in S /\ list[i] \in ToSet(list)
           /\ \A x \in ToSet(list) : \E i \in 1..Len(list) : list[i] = x
           /\ list = <<>> => ToSet(list) = {}
BY DEF ToSet

LEMMA TailElements ==
    ASSUME NEW S, NEW list \in Seq(S), list # <<>>
    PROVE  /\ Tail(list) \in Seq(S)
           /\ Head(list) = list[1]
           /\ Len(list) >= 1
           /\ DOMAIN Tail(list) = 1..(Len(list) - 1)
           /\ \A i \in 1..(Len(list) - 1) : Tail(list)[i] = list[i + 1]
           /\ ToSet(list) = {Head(list)} \cup ToSet(Tail(list))
<1>1. /\ Tail(list) \in Seq(S) /\ Len(Tail(list)) = Len(list) - 1
      /\ \A i \in 1..Len(Tail(list)) : Tail(list)[i] = list[i + 1]
    BY HeadTailProperties
<1>2. Head(list) = list[1] /\ Len(list) \in Nat /\ Len(list) >= 1 /\ DOMAIN list = 1..Len(list)
    BY EmptySeq, LenProperties
<1>3. DOMAIN Tail(list) = 1..(Len(list) - 1)
    BY <1>1, LenProperties
<1>4. ToSet(list) = {Head(list)} \cup ToSet(Tail(list))
    <2>1. ASSUME NEW i \in 1..Len(list)
          PROVE  list[i] \in {Head(list)} \cup ToSet(Tail(list))
        <3>1. CASE i = 1
            BY <1>2, <3>1
        <3>2. CASE i # 1
            <4>1. i - 1 \in 1..(Len(list) - 1) /\ Tail(list)[i - 1] = list[i]
                BY <1>1, <1>2, <3>2
            <4> QED
                BY <4>1, <1>3 DEF ToSet
        <3> QED
            BY <3>1, <3>2
    <2>2. ASSUME NEW i \in 1..(Len(list) - 1)
          PROVE  Tail(list)[i] \in ToSet(list)
        BY <1>1, <1>2 DEF ToSet
    <2>3. Head(list) \in ToSet(list)
        BY <1>2 DEF ToSet
    <2> QED
        BY <1>2, <1>3, <2>1, <2>2, <2>3 DEF ToSet
<1> QED
    BY <1>1, <1>2, <1>3, <1>4

LEMMA ConcatElements ==
    ASSUME NEW S, NEW front \in Seq(S), NEW back \in Seq(S)
    PROVE  /\ front \o back \in Seq(S)
           /\ ToSet(front \o back) = ToSet(front) \cup ToSet(back)
<1>1. /\ front \o back \in Seq(S)
      /\ Range(front \o back) = Range(front) \cup Range(back)
    BY ConcatProperties, RangeConcatenation
<1> QED
    BY <1>1 DEF ToSet, Range

LEMMA AppendElements ==
    ASSUME NEW S, NEW list \in Seq(S), NEW x \in S
    PROVE  /\ Append(list, x) \in Seq(S)
           /\ DOMAIN Append(list, x) = 1..(Len(list) + 1)
           /\ \A i \in 1..Len(list) : Append(list, x)[i] = list[i]
           /\ Append(list, x)[Len(list) + 1] = x
           /\ ToSet(Append(list, x)) = ToSet(list) \cup {x}
<1>1. /\ Append(list, x) \in Seq(S) /\ Len(Append(list, x)) = Len(list) + 1
      /\ \A i \in 1..Len(list) : Append(list, x)[i] = list[i]
      /\ Append(list, x)[Len(list) + 1] = x
    BY AppendProperties
<1>2. Len(list) \in Nat /\ DOMAIN list = 1..Len(list) /\ DOMAIN Append(list, x) = 1..(Len(list) + 1)
    BY <1>1, LenProperties
<1>3. ToSet(Append(list, x)) = ToSet(list) \cup {x}
    BY <1>1, <1>2 DEF ToSet
<1> QED
    BY <1>1, <1>2, <1>3

LEMMA CoveredUnion ==
    ASSUME NEW V, NEW W, NEW m
    PROVE  Covered(V \cup W, m) <=> Covered(V, m) \/ Covered(W, m)
BY DEF Covered

LEMMA CoveredOne ==
    ASSUME NEW w, NEW m
    PROVE  Covered({w}, m) <=> Covers(w, m)
BY DEF Covered

(* Two lists, one all before the other, make one. *)
LEMMA SeparatedConcat ==
    ASSUME NEW front \in Seq(Interval), NEW back \in Seq(Interval),
           Separated(front), Separated(back),
           \A i \in DOMAIN front, j \in DOMAIN back : front[i][2] < back[j][1]
    PROVE  Separated(front \o back)
<1> DEFINE both == front \o back
<1>1. /\ Len(front) \in Nat /\ Len(back) \in Nat
      /\ DOMAIN front = 1..Len(front) /\ DOMAIN back = 1..Len(back)
      /\ DOMAIN both = 1..(Len(front) + Len(back))
      /\ \A i \in 1..(Len(front) + Len(back)) :
            both[i] = IF i <= Len(front) THEN front[i] ELSE back[i - Len(front)]
    BY ConcatProperties, LenProperties
<1> HIDE DEF both
<1> SUFFICES ASSUME NEW i \in DOMAIN both, NEW j \in DOMAIN both, i < j
             PROVE  both[i][2] < both[j][1]
    BY DEF Separated, both
<1>2. CASE j <= Len(front)
    <2>1. i \in DOMAIN front /\ j \in DOMAIN front /\ both[i] = front[i] /\ both[j] = front[j]
        BY <1>1, <1>2
    <2> QED
        BY <2>1 DEF Separated
<1>3. CASE i <= Len(front) /\ j > Len(front)
    <2>1. i \in DOMAIN front /\ j - Len(front) \in DOMAIN back
          /\ both[i] = front[i] /\ both[j] = back[j - Len(front)]
        BY <1>1, <1>3
    <2> QED
        BY <2>1
<1>4. CASE i > Len(front)
    <2>1. /\ i - Len(front) \in DOMAIN back /\ j - Len(front) \in DOMAIN back
          /\ i - Len(front) < j - Len(front)
          /\ both[i] = back[i - Len(front)] /\ both[j] = back[j - Len(front)]
        BY <1>1, <1>4
    <2> QED
        BY <2>1 DEF Separated
<1> QED
    BY <1>1, <1>2, <1>3, <1>4

(* The first window lies before the others, which stay separated. *)
LEMMA SeparatedTail ==
    ASSUME NEW list \in Seq(Interval), list # <<>>, Separated(list)
    PROVE  /\ Separated(Tail(list))
           /\ Separated(<<Head(list)>>)
           /\ Head(list) \in Interval
           /\ \A j \in DOMAIN Tail(list) : Head(list)[2] < Tail(list)[j][1]
<1>1. /\ Len(list) \in Nat /\ DOMAIN list = 1..Len(list) /\ Len(list) >= 1
      /\ DOMAIN Tail(list) = 1..(Len(list) - 1)
      /\ \A i \in 1..(Len(list) - 1) : Tail(list)[i] = list[i + 1]
      /\ Head(list) = list[1] /\ Head(list) \in Interval
    BY TailElements, ElementsOf
<1>2. Separated(Tail(list))
    BY <1>1 DEF Separated
<1>3. \A j \in DOMAIN Tail(list) : Head(list)[2] < Tail(list)[j][1]
    BY <1>1 DEF Separated
<1>4. Separated(<<Head(list)>>)
    BY DEF Separated
<1> QED
    BY <1>1, <1>2, <1>3, <1>4

(* One turn of the merging loop: the next interval goes into the last      *)
(* window or becomes the last one.                                         *)
LEMMA MergedInto ==
    ASSUME NEW list \in Seq(Interval), Separated(list), NEW next \in Interval,
           \A i \in DOMAIN list : list[i][1] <= next[1],
           NEW new,
           IF list # <<>> /\ Joins(Last(list), next)
           THEN new = [list EXCEPT ![Len(list)] = <<@[1], Max({@[2], next[2]})>>]
           ELSE new = Append(list, next)
    PROVE  /\ new \in Seq(Interval)
           /\ Separated(new)
           /\ \A i \in DOMAIN new : new[i][1] <= next[1]
           /\ \A m \in Int : Covered(ToSet(new), m) <=> Covered(ToSet(list), m) \/ Covers(next, m)
<1>1. /\ Len(list) \in Nat /\ DOMAIN list = 1..Len(list)
      /\ \A i \in 1..Len(list) : list[i] \in Interval
      /\ list # <<>> => Len(list) >= 1
    BY ElementsOf, EmptySeq
<1>2. CASE list # <<>> /\ Joins(Last(list), next)
    <2> DEFINE n == Len(list)
               last == list[n]
               joined == <<last[1], Max({last[2], next[2]})>>
    <2>1. /\ n \in 1..n /\ last \in Interval /\ next[1] <= last[2] /\ last[1] <= next[1]
        BY <1>1, <1>2 DEF Joins, Last
    <2>2. /\ Max({last[2], next[2]}) \in {last[2], next[2]}
          /\ Max({last[2], next[2]}) >= last[2]
          /\ Max({last[2], next[2]}) >= next[2]
        <3>1. last[2] \in Int /\ next[2] \in Int
            BY <2>1, IntervalType
        <3>2. \E x \in {last[2], next[2]} : \A y \in {last[2], next[2]} : x >= y
            BY <3>1
        <3> QED
            BY <3>1, <3>2 DEF Max
    <2>3. joined \in Interval
        BY <2>1, <2>2, IntervalType
    <2>4. new = [list EXCEPT ![n] = joined]
        BY <1>2
    <2>5. /\ new \in Seq(Interval)
          /\ DOMAIN new = 1..n
          /\ new[n] = joined
          /\ \A i \in 1..n : i # n => new[i] = list[i]
        BY <1>1, <2>1, <2>3, <2>4, ExceptSeq, LenProperties
    <2>6. joined[1] = last[1] /\ joined[2] = Max({last[2], next[2]})
        OBVIOUS
    <2> HIDE DEF joined
    <2>7. ASSUME NEW i \in 1..n, NEW j \in 1..n, i < j
          PROVE  new[i][2] < new[j][1]
        <3>3. i # n
            BY <1>1, <2>7
        <3>4. new[i] = list[i]
            BY <2>5, <3>3
        <3>5. new[j][1] = list[j][1]
            BY <2>5, <2>6
        <3>1. new[i] = list[i] /\ new[j][1] = list[j][1]
            BY <3>4, <3>5
        <3>2. list[i][2] < list[j][1]
            BY <1>1, <2>7 DEF Separated
        <3> QED
            BY <3>1, <3>2
    <2>11. Separated(new)
        BY <2>5, <2>7 DEF Separated
    <2>8. \A i \in DOMAIN new : new[i][1] <= next[1]
        BY <1>1, <2>1, <2>5, <2>6
    <2>9. ASSUME NEW m \in Int
          PROVE  Covers(joined, m) <=> Covers(last, m) \/ Covers(next, m)
        BY <2>1, <2>2, <2>6, IntervalType DEF Covers
    <2>10. ASSUME NEW m \in Int
           PROVE  Covered(ToSet(new), m) <=> Covered(ToSet(list), m) \/ Covers(next, m)
        <3>1. Covered(ToSet(new), m) <=> \E i \in 1..n : Covers(new[i], m)
            BY <2>5 DEF Covered, ToSet
        <3>2. Covered(ToSet(list), m) <=> \E i \in 1..n : Covers(list[i], m)
            BY <1>1 DEF Covered, ToSet
        <3> QED
            BY <2>1, <2>5, <2>9, <3>1, <3>2
    <2> QED
        BY <2>5, <2>8, <2>10, <2>11
<1>3. CASE ~(list # <<>> /\ Joins(Last(list), next))
    <2>1. new = Append(list, next)
        BY <1>3
    <2>2. /\ new \in Seq(Interval)
          /\ DOMAIN new = 1..(Len(list) + 1)
          /\ \A i \in 1..Len(list) : new[i] = list[i]
          /\ new[Len(list) + 1] = next
          /\ ToSet(new) = ToSet(list) \cup {next}
        BY <2>1, AppendElements
    <2>3. ASSUME NEW i \in 1..Len(list)
          PROVE  list[i][2] < next[1]
        <3>1. Len(list) \in 1..Len(list) /\ list # <<>>
            BY <1>1, EmptySeq
        <3>2. list[Len(list)][2] < next[1]
            BY <1>1, <1>3, <3>1, IntervalType DEF Joins, Last
        <3>3. i < Len(list) => list[i][2] < list[Len(list)][1]
            BY <1>1, <3>1 DEF Separated
        <3> QED
            BY <1>1, <3>1, <3>2, <3>3, IntervalType
    <2>4. ASSUME NEW i \in 1..(Len(list) + 1), NEW j \in 1..(Len(list) + 1), i < j
          PROVE  new[i][2] < new[j][1]
        <3>4. i \in 1..Len(list)
            BY <1>1, <2>4
        <3>1. i \in 1..Len(list) /\ new[i] = list[i]
            BY <2>2, <3>4
        <3>2. CASE j \in 1..Len(list)
            <4>1. list[i][2] < list[j][1]
                BY <1>1, <2>4, <3>1, <3>2 DEF Separated
            <4> QED
                BY <2>2, <3>1, <3>2, <4>1
        <3>3. CASE j = Len(list) + 1
            BY <2>2, <2>3, <3>1, <3>3
        <3>5. j \in 1..Len(list) \/ j = Len(list) + 1
            BY <1>1
        <3> QED
            BY <3>2, <3>3, <3>5
    <2>5. ASSUME NEW i \in 1..(Len(list) + 1)
          PROVE  new[i][1] <= next[1]
        <3>1. next[1] \in Int
            BY IntervalType
        <3>2. i \in 1..Len(list) \/ i = Len(list) + 1
            BY <1>1
        <3>3. CASE i \in 1..Len(list)
            BY <1>1, <2>2, <3>3
        <3>4. CASE i = Len(list) + 1
            BY <2>2, <3>1, <3>4
        <3> QED
            BY <3>2, <3>3, <3>4
    <2>6. ASSUME NEW m \in Int
          PROVE  Covered(ToSet(new), m) <=> Covered(ToSet(list), m) \/ Covers(next, m)
        <3>1. Covered(ToSet(new), m) <=> Covered(ToSet(list), m) \/ Covered({next}, m)
            BY <2>2, CoveredUnion
        <3> QED
            BY <3>1, CoveredOne
    <2>7. Separated(new)
        BY <2>2, <2>4 DEF Separated
    <2> QED
        BY <2>2, <2>5, <2>6, <2>7
<1> QED
    BY <1>2, <1>3

(* What a cut leaves of a window are its minutes outside the cut. *)
LEMMA RemainderFacts ==
    ASSUME NEW w \in Interval, NEW c \in Interval
    PROVE  /\ Remainder(w, c) \in Seq(Interval)
           /\ Separated(Remainder(w, c))
           /\ \A i \in DOMAIN Remainder(w, c) :
                w[1] <= Remainder(w, c)[i][1] /\ Remainder(w, c)[i][2] <= w[2]
           /\ \A m \in Int : Covered(ToSet(Remainder(w, c)), m) <=> Covers(w, m) /\ ~Covers(c, m)
<1>1. /\ w[1] \in 0..DayLength /\ w[2] \in 0..DayLength /\ w[1] < w[2]
      /\ c[1] \in 0..DayLength /\ c[2] \in 0..DayLength /\ c[1] < c[2]
    BY IntervalType
<1> DEFINE left == << <<w[1], c[1]>> >>
           right == << <<c[2], w[2]>> >>
<1>2. CASE c[2] <= w[1] \/ c[1] >= w[2]
    <2>1. Remainder(w, c) = <<w>>
        BY <1>2 DEF Remainder
    <2>2. ToSet(<<w>>) = {w}
        BY DEF ToSet
    <2>3. \A m \in Int : Covers(w, m) => ~Covers(c, m)
        BY <1>1, <1>2, IntervalType DEF Covers
    <2> QED
        BY <1>1, <2>1, <2>2, <2>3, CoveredOne, IntervalType DEF Separated
<1>3. CASE ~(c[2] <= w[1] \/ c[1] >= w[2]) /\ c[1] > w[1] /\ c[2] < w[2]
    <2>1. Remainder(w, c) = left \o right
        BY <1>3 DEF Remainder
    <2>2. <<w[1], c[1]>> \in Interval /\ <<c[2], w[2]>> \in Interval
        BY <1>1, <1>3, IntervalType
    <2>3. /\ left \in Seq(Interval) /\ Separated(left) /\ ToSet(left) = {<<w[1], c[1]>>}
          /\ right \in Seq(Interval) /\ Separated(right) /\ ToSet(right) = {<<c[2], w[2]>>}
        BY <2>2 DEF Separated, ToSet
    <2>4. \A i \in DOMAIN left, j \in DOMAIN right : left[i][2] < right[j][1]
        BY <1>1
    <2> HIDE DEF left, right
    <2>9. Separated(left \o right)
        BY <2>3, <2>4, SeparatedConcat
    <2>6. /\ left \o right \in Seq(Interval)
          /\ Separated(left \o right)
          /\ ToSet(left \o right) = {<<w[1], c[1]>>} \cup {<<c[2], w[2]>>}
        BY <2>3, <2>9, ConcatElements
    <2>7. ASSUME NEW i \in DOMAIN Remainder(w, c)
          PROVE  w[1] <= Remainder(w, c)[i][1] /\ Remainder(w, c)[i][2] <= w[2]
        <3>1. Remainder(w, c)[i] \in {<<w[1], c[1]>>, <<c[2], w[2]>>}
            BY <2>1, <2>6 DEF ToSet
        <3> QED
            BY <1>1, <1>3, <3>1
    <2>5. ASSUME NEW m \in Int
          PROVE  Covers(<<w[1], c[1]>>, m) \/ Covers(<<c[2], w[2]>>, m) <=> Covers(w, m) /\ ~Covers(c, m)
        BY <1>1, <1>3, IntervalType DEF Covers
    <2>8. ASSUME NEW m \in Int
          PROVE  Covered(ToSet(Remainder(w, c)), m) <=> Covers(w, m) /\ ~Covers(c, m)
        <3>1. Covered(ToSet(Remainder(w, c)), m)
                <=> Covered({<<w[1], c[1]>>}, m) \/ Covered({<<c[2], w[2]>>}, m)
            BY <2>1, <2>6, CoveredUnion
        <3>2. /\ Covered({<<w[1], c[1]>>}, m) <=> Covers(<<w[1], c[1]>>, m)
              /\ Covered({<<c[2], w[2]>>}, m) <=> Covers(<<c[2], w[2]>>, m)
            BY CoveredOne
        <3> QED
            BY <2>5, <3>1, <3>2
    <2> QED
        BY <2>1, <2>6, <2>7, <2>8
<1>4. CASE ~(c[2] <= w[1] \/ c[1] >= w[2]) /\ c[1] > w[1] /\ ~(c[2] < w[2])
    <2>1. Remainder(w, c) = left
        BY <1>4 DEF Remainder
    <2>2. <<w[1], c[1]>> \in Interval
        BY <1>1, <1>4, IntervalType
    <2>3. ToSet(left) = {<<w[1], c[1]>>}
        BY DEF ToSet
    <2>4. ASSUME NEW m \in Int
          PROVE  Covers(<<w[1], c[1]>>, m) <=> Covers(w, m) /\ ~Covers(c, m)
        BY <1>1, <1>4, IntervalType DEF Covers
    <2> QED
        BY <1>1, <1>4, <2>1, <2>2, <2>3, <2>4, CoveredOne, IntervalType DEF Separated
<1>5. CASE ~(c[2] <= w[1] \/ c[1] >= w[2]) /\ ~(c[1] > w[1]) /\ c[2] < w[2]
    <2>1. Remainder(w, c) = right
        BY <1>5 DEF Remainder
    <2>2. <<c[2], w[2]>> \in Interval
        BY <1>1, <1>5, IntervalType
    <2>3. ToSet(right) = {<<c[2], w[2]>>}
        BY DEF ToSet
    <2>4. ASSUME NEW m \in Int
          PROVE  Covers(<<c[2], w[2]>>, m) <=> Covers(w, m) /\ ~Covers(c, m)
        BY <1>1, <1>5, IntervalType DEF Covers
    <2> QED
        BY <1>1, <1>5, <2>1, <2>2, <2>3, <2>4, CoveredOne, IntervalType DEF Separated
<1>6. CASE ~(c[2] <= w[1] \/ c[1] >= w[2]) /\ ~(c[1] > w[1]) /\ ~(c[2] < w[2])
    <2>1. Remainder(w, c) = <<>>
        BY <1>6 DEF Remainder
    <2>2. \A m \in Int : ~(Covers(w, m) /\ ~Covers(c, m))
        BY <1>1, <1>6, IntervalType DEF Covers
    <2> QED
        BY <2>1, <2>2 DEF Separated, Covered, ToSet
<1> QED
    BY <1>2, <1>3, <1>4, <1>5, <1>6

-----------------------------------------------------------------------------
(* Stretches of minutes *)

(* The maximal runs of a set of minutes. *)
Stretches(M) ==
    {w \in Interval : w[1]..(w[2] - 1) \subseteq M /\ w[1] - 1 \notin M /\ w[2] \notin M}

LEMMA OpenStretches ==
    \A w \in Interval : OpenStretch(w[1], w[2]) <=> w \in Stretches(OpenMinutes)
BY IntervalType DEF OpenStretch, Stretches

(* Windows with gaps between them are the stretches of their minutes. *)
LEMMA SeparatedAreStretches ==
    ASSUME NEW list \in Seq(Interval), Separated(list),
           NEW M, M \subseteq 0..(DayLength - 1),
           \A m \in 0..(DayLength - 1) : Covered(ToSet(list), m) <=> m \in M
    PROVE  ToSet(list) = Stretches(M)
<1> DEFINE n == Len(list)
<1>1. /\ n \in Nat /\ DOMAIN list = 1..n
      /\ \A i \in 1..n : list[i] \in Interval
      /\ ToSet(list) \subseteq Interval
      /\ \A x \in ToSet(list) : \E i \in 1..n : list[i] = x
    BY ElementsOf
<1> HIDE DEF n
<1>2. ASSUME NEW m \in Int
      PROVE  m \in M <=> \E i \in 1..n : list[i][1] <= m /\ m < list[i][2]
    <2>1. Covered(ToSet(list), m) <=> \E i \in 1..n : list[i][1] <= m /\ m < list[i][2]
        BY <1>1 DEF Covered, Covers, ToSet
    <2>2. Covered(ToSet(list), m) => m \in 0..(DayLength - 1)
        BY <1>1, <2>1, IntervalType
    <2> QED
        BY <2>1, <2>2
<1>3. \A i, j \in 1..n : i < j => list[i][2] < list[j][1]
    BY <1>1 DEF Separated
<1>4. ASSUME NEW i \in 1..n
      PROVE  list[i] \in Stretches(M)
    <2>1. list[i] \in Interval /\ list[i][1] \in Int /\ list[i][2] \in Int /\ list[i][1] < list[i][2]
        BY <1>1, IntervalType
    <2>2. list[i][1]..(list[i][2] - 1) \subseteq M
        BY <1>2, <2>1
    <2>3. ASSUME NEW m \in Int, m = list[i][1] - 1 \/ m = list[i][2], m \in M
          PROVE  FALSE
        <3>1. PICK j \in 1..n : list[j][1] <= m /\ m < list[j][2]
            BY <1>2, <2>3
        <3>2. list[j][1] \in Int /\ list[j][2] \in Int
            BY <1>1, IntervalType
        <3>3. i = j \/ i < j \/ j < i
            BY <1>1
        <3> QED
            BY <1>3, <2>1, <2>3, <3>1, <3>2, <3>3
    <2> QED
        BY <2>1, <2>2, <2>3 DEF Stretches
<1>5. ASSUME NEW w \in Stretches(M)
      PROVE  w \in ToSet(list)
    <2>1. /\ w \in Interval /\ w = <<w[1], w[2]>>
          /\ w[1] \in Int /\ w[2] \in Int /\ w[1] < w[2]
          /\ w[1]..(w[2] - 1) \subseteq M /\ w[1] - 1 \notin M /\ w[2] \notin M
        BY IntervalType DEF Stretches, Interval
    <2>2. w[1] \in M
        BY <2>1
    <2>3. PICK i \in 1..n : list[i][1] <= w[1] /\ w[1] < list[i][2]
        BY <1>2, <2>1, <2>2
    <2>4. /\ list[i] \in Interval /\ list[i] = <<list[i][1], list[i][2]>>
          /\ list[i][1] \in Int /\ list[i][2] \in Int
        BY <1>1, IntervalType DEF Interval
    <2>5. list[i][1] = w[1]
        <3>1. w[1] - 1 \in Int
            BY <2>1
        <3>2. ~(list[i][1] <= w[1] - 1 /\ w[1] - 1 < list[i][2])
            BY <1>2, <2>1, <3>1
        <3> QED
            BY <2>1, <2>3, <2>4, <3>2
    <2>6. list[i][2] <= w[2]
        BY <1>2, <2>1, <2>3, <2>4
    <2>7. list[i][2] \notin M
        BY <1>4 DEF Stretches
    <2>8. list[i][2] = w[2]
        BY <2>1, <2>3, <2>4, <2>6, <2>7
    <2>9. list[i] = w
        BY <2>1, <2>4, <2>5, <2>8
    <2> QED
        BY <1>1, <2>9 DEF ToSet
<1> QED
    BY <1>1, <1>4, <1>5

LEMMA OpenMinutesFacts ==
    /\ OpenMinutes \subseteq 0..(DayLength - 1)
    /\ \A m \in 0..(DayLength - 1) :
            m \in OpenMinutes <=> /\ ~exceptions.dayOff
                                  /\ Covered(hours \cup exceptions.extra, m)
                                  /\ ~Covered(exceptions.blocked, m)
BY DEF OpenMinutes, Covered, Covers

-----------------------------------------------------------------------------
(* The loops *)

LEMMA Configuration ==
    /\ SlotStep \in Nat \ {0} /\ BufferMinutes \in Nat /\ DayLength \in Nat \ {0}
    /\ ServiceMinutes \in Nat \ {0}
    /\ WallClocks \subseteq [0..DayLength -> Int]
    /\ BusySpan \subseteq Int
    /\ Nows \subseteq Int
BY SlotsAssumption, SlotScanAssumption

LEMMA ClockType ==
    ASSUME TypeOK
    PROVE  /\ \A m \in 0..DayLength : wallClock[m] \in Int
           /\ now \in Int
           /\ \A b \in busy : b[1] \in Int /\ b[2] \in Int
<1>1. wallClock \in [0..DayLength -> Int] /\ now \in Int /\ busy \subseteq Int \X Int
    BY Configuration DEF TypeOK
<1> QED
    BY <1>1

LEMMA InputKept ==
    ASSUME UNCHANGED input
    PROVE  /\ \A a, b : OpenStretch(a, b)' <=> OpenStretch(a, b)
           /\ \A w : Offered(w)' = Offered(w)
           /\ ClockAdvances' <=> ClockAdvances
BY DEF input, OpenStretch, OpenMinutes, Offered, Collides, ClockAdvances

LEMMA AtMostSubset ==
    ASSUME NEW S, NEW n, NEW T \in AtMost(n, S)
    PROVE  T \subseteq S
<1>1. CASE T = {}
    BY <1>1
<1>2. CASE T # {}
    <2>1. PICK f \in [1..n -> S] : T = {f[i] : i \in 1..n}
        BY <1>2 DEF AtMost
    <2> QED
        BY <2>1
<1> QED
    BY <1>1, <1>2

(* When all cuts are made, the windows are the open stretches. *)
LEMMA WindowsAreOpen ==
    ASSUME NEW list \in Seq(Interval), Separated(list), ~exceptions.dayOff,
           \A m \in 0..(DayLength - 1) :
                Covered(ToSet(list), m) <=> /\ Covered(hours \cup exceptions.extra, m)
                                            /\ ~Covered(exceptions.blocked, m)
    PROVE  \A w \in Interval : OpenStretch(w[1], w[2]) <=> w \in ToSet(list)
<1>1. ToSet(list) = Stretches(OpenMinutes)
    BY OpenMinutesFacts, SeparatedAreStretches
<1> QED
    BY <1>1, OpenStretches

(* A step before the scan that keeps account of the minutes. *)
LEMMA BeforeScan ==
    ASSUME TypeOK', Staged, Staged', WindowsApart', UNCHANGED <<input, cursor, slots, pc>>,
           pc = "merge", ~Effective,
           \A m \in 0..(DayLength - 1) : AccountsFor(m)'
    PROVE  MinutesAccounted' /\ GridFollowed' /\ FoundInOrder'
<1>1. cursor' = {} /\ slots' = <<>> /\ ~exceptions.dayOff /\ exceptions' = exceptions /\ hours' = hours
    BY DEF Staged, input
<1>2. MinutesAccounted'
    BY DEF MinutesAccounted
<1>3. FoundInOrder'
    BY <1>1 DEF FoundInOrder
<1>4. ASSUME Effective'
      PROVE  GridFollowed'
    <2>1. merged' \in Seq(Interval) /\ Separated(merged')
        BY DEF TypeOK, WindowsApart, Separated
    <2>2. unmerged' = {} /\ cuts' = {} /\ cut' = {} /\ result' = <<>>
        BY <1>4 DEF Effective, Staged
    <2>3. ASSUME NEW m \in 0..(DayLength - 1)
          PROVE  Covered(ToSet(merged'), m) <=> /\ Covered(hours \cup exceptions.extra, m)
                                                /\ ~Covered(exceptions.blocked, m)
        <3>1. AccountsFor(m)'
            OBVIOUS
        <3>2. /\ ~Covered(ToSet(<<>>), m) /\ ~Covered({}, m)
              /\ ToSet(merged') \cup {} = ToSet(merged')
              /\ exceptions.blocked \ {} = exceptions.blocked
            BY DEF Covered, ToSet
        <3>3. \/ Covered(ToSet(result'), m)
              \/ Covered(ToSet(merged') \cup unmerged', m) /\ ~Covered(cut', m)
              <=> /\ Covered(hours \cup exceptions.extra, m)
                  /\ ~Covered(exceptions.blocked \ cuts', m)
            BY <1>1, <3>1 DEF AccountsFor, Covered, Covers, ToSet
        <3> QED
            BY <2>2, <3>2, <3>3
    <2>4. \A w \in Interval : OpenStretch(w[1], w[2]) <=> w \in ToSet(merged')
        BY <1>1, <2>1, <2>3, WindowsAreOpen
    <2>5. ASSUME NEW i \in DOMAIN merged'
          PROVE  OpenStretch(merged'[i][1], merged'[i][2])
        <3>1. merged'[i] \in Interval /\ merged'[i] \in ToSet(merged')
            BY <2>1, ElementsOf
        <3> QED
            BY <2>4, <3>1
    <2>6. \A a, b : OpenStretch(a, b)' <=> OpenStretch(a, b)
        BY InputKept
    <2>7. \A i \in DOMAIN merged' : OpenStretch(merged[i][1], merged[i][2])'
        BY <2>5, <2>6
    <2>8. \A w \in Interval :
            (OpenStretch(w[1], w[2]) /\ w \notin ToSet(merged) => Offered(w) \subseteq ToSet(slots))'
        BY <2>4, <2>6 DEF ToSet
    <2>9. ToSet(slots') = {}
        BY <1>1 DEF ToSet
    <2> QED
        BY <1>1, <2>7, <2>8, <2>9 DEF GridFollowed, ToSet
<1>5. ~Effective' => GridFollowed'
    BY DEF GridFollowed
<1> QED
    BY <1>2, <1>3, <1>4, <1>5

LEMMA InitInv == Init => IndInv
<1> SUFFICES ASSUME Init
             PROVE  IndInv
    OBVIOUS
<1>1. /\ hours \subseteq Interval
      /\ exceptions.dayOff \in BOOLEAN
      /\ exceptions.extra \subseteq Interval /\ exceptions.blocked \subseteq Interval
      /\ exceptions = [dayOff |-> exceptions.dayOff, extra |-> exceptions.extra,
                       blocked |-> exceptions.blocked]
    BY AtMostSubset DEF Init
<1>2. exceptions \in ExceptionsOfDay
    BY <1>1 DEF ExceptionsOfDay
<1>3. busy \subseteq BusySpan \X BusySpan
    BY AtMostSubset DEF Init, BusySets
<1>4. /\ wallClock \in WallClocks /\ now \in Nows
      /\ unmerged = hours \cup exceptions.extra
      /\ merged = <<>> /\ result = <<>> /\ slots = <<>>
      /\ cuts = exceptions.blocked /\ cut = {} /\ cursor = {}
      /\ pc = IF exceptions.dayOff THEN "done" ELSE "merge"
    BY DEF Init
<1>5. TypeOK
    BY <1>1, <1>2, <1>3, <1>4, EmptySeq DEF TypeOK
<1>6. Staged
    BY <1>1, <1>4 DEF Staged
<1>7. WindowsApart
    BY <1>4 DEF WindowsApart, Separated
<1>8. MinutesAccounted
    BY <1>4 DEF MinutesAccounted, AccountsFor, Covered, ToSet
<1>9. FoundInOrder
    BY <1>4 DEF FoundInOrder
<1>10. ASSUME Effective, ~exceptions.dayOff
       PROVE  GridFollowed
    <2>1. merged \in Seq(Interval) /\ Separated(merged)
        BY <1>5, <1>7 DEF TypeOK, WindowsApart
    <2>2. \A m \in 0..(DayLength - 1) :
            Covered(ToSet(merged), m) <=> /\ Covered(hours \cup exceptions.extra, m)
                                          /\ ~Covered(exceptions.blocked, m)
        BY <1>4, <1>10 DEF Effective, Covered, ToSet
    <2>3. \A w \in Interval : OpenStretch(w[1], w[2]) <=> w \in ToSet(merged)
        BY <1>10, <2>1, <2>2, WindowsAreOpen
    <2>4. ToSet(merged) = {} /\ ToSet(slots) = {} /\ DOMAIN merged = {}
        BY <1>4 DEF ToSet
    <2> QED
        BY <1>4, <2>3, <2>4 DEF GridFollowed
<1>11. GridFollowed
    BY <1>10 DEF GridFollowed
<1> QED
    BY <1>5, <1>6, <1>7, <1>8, <1>9, <1>11 DEF IndInv

LEMMA MergeInv ==
    ASSUME IndInv, Merge
    PROVE  IndInv'
<1>1. /\ TypeOK /\ Staged /\ WindowsApart /\ MinutesAccounted
      /\ pc = "merge"
      /\ UNCHANGED <<input, cuts, cut, result, cursor, slots, pc>>
      /\ UNCHANGED <<hours, exceptions, busy, wallClock, now>>
    BY DEF IndInv, Merge, input
<1>2. PICK next \in unmerged :
        /\ IsLeast(next, unmerged)
        /\ IF merged # <<>> /\ Joins(Last(merged), next)
           THEN merged' = [merged EXCEPT ![Len(merged)] = <<@[1], Max({@[2], next[2]})>>]
           ELSE merged' = Append(merged, next)
        /\ unmerged' = unmerged \ {next}
    BY DEF Merge
<1>3. /\ next \in Interval /\ unmerged \subseteq Interval
      /\ merged \in Seq(Interval) /\ Separated(merged)
      /\ \A i \in DOMAIN merged : merged[i][1] <= next[1]
      /\ cut = {} /\ result = <<>> /\ ~Effective
    BY <1>1, <1>2 DEF TypeOK, WindowsApart, ExceptionsOfDay, Staged, Effective
<1>4. /\ merged' \in Seq(Interval)
      /\ Separated(merged')
      /\ \A i \in DOMAIN merged' : merged'[i][1] <= next[1]
      /\ \A m \in Int : Covered(ToSet(merged'), m) <=> Covered(ToSet(merged), m) \/ Covers(next, m)
    BY <1>2, <1>3, MergedInto
<1>5. TypeOK'
    BY <1>1, <1>2, <1>4 DEF TypeOK
<1>6. Staged'
    BY <1>1, <1>2, <1>3 DEF Staged, Effective
<1>7. WindowsApart'
    <2>1. \A w \in unmerged' : next[1] <= w[1]
        BY <1>2, <1>3, IntervalType DEF IsLeast
    <2>2. ASSUME NEW i \in DOMAIN merged', NEW w \in unmerged'
          PROVE  merged'[i][1] <= w[1]
        <3>1. merged'[i] \in Interval /\ w \in Interval
            BY <1>2, <1>3, <1>4, ElementsOf
        <3> QED
            BY <1>3, <1>4, <2>1, <3>1, IntervalType
    <2>3. DOMAIN result' = {}
        BY <1>1, <1>3
    <2> QED
        BY <1>4, <2>2, <2>3 DEF WindowsApart, Separated
<1>8. ASSUME NEW m \in 0..(DayLength - 1)
      PROVE  AccountsFor(m)'
    <2>1. AccountsFor(m)
        BY <1>1, <1>3 DEF MinutesAccounted
    <2>2. Covered(unmerged, m) <=> Covered(unmerged', m) \/ Covers(next, m)
        BY <1>2 DEF Covered
    <2>3. m \in Int
        BY IntervalType
    <2>4. Covered(ToSet(merged') \cup unmerged', m) <=> Covered(ToSet(merged) \cup unmerged, m)
        BY <1>4, <2>2, <2>3, CoveredUnion
    <2> QED
        BY <1>1, <2>1, <2>4 DEF AccountsFor, Covered, Covers, ToSet
<1>9. MinutesAccounted' /\ GridFollowed' /\ FoundInOrder'
    BY <1>1, <1>3, <1>5, <1>6, <1>7, <1>8, BeforeScan
<1> QED
    BY <1>5, <1>6, <1>7, <1>9 DEF IndInv

LEMMA StartCutInv ==
    ASSUME IndInv, StartCut
    PROVE  IndInv'
<1>1. /\ TypeOK /\ Staged /\ WindowsApart /\ MinutesAccounted
      /\ pc = "merge" /\ unmerged = {} /\ cut = {}
      /\ UNCHANGED <<input, unmerged, merged, result, cursor, slots, pc>>
      /\ UNCHANGED <<hours, exceptions, busy, wallClock, now>>
    BY DEF IndInv, StartCut, input
<1>2. PICK c \in cuts : cut' = {c} /\ cuts' = cuts \ {c}
    BY DEF StartCut
<1>3. c \in exceptions.blocked /\ cuts \subseteq exceptions.blocked /\ result = <<>> /\ ~Effective
    BY <1>1, <1>2 DEF TypeOK, Staged, Effective
<1>5. TypeOK'
    BY <1>1, <1>2, <1>3 DEF TypeOK
<1>6. Staged'
    BY <1>1, <1>2, <1>3 DEF Staged, Effective
<1>7. WindowsApart'
    BY <1>1 DEF WindowsApart, Separated
<1>8. ASSUME NEW m \in 0..(DayLength - 1)
      PROVE  AccountsFor(m)'
    <2>1. AccountsFor(m)
        BY <1>1, <1>3 DEF MinutesAccounted
    <2>2. ~Covered(ToSet(result), m) /\ ~Covered(cut, m)
        BY <1>1, <1>3 DEF Covered, ToSet
    <2>3. Covered(cut', m) <=> Covers(c, m)
        BY <1>2, CoveredOne
    <2>4. Covered(exceptions.blocked \ cuts', m)
            <=> Covered(exceptions.blocked \ cuts, m) \/ Covers(c, m)
        BY <1>2, <1>3 DEF Covered
    <2>5. Covered(ToSet(merged) \cup unmerged, m)
            <=> /\ Covered(hours \cup exceptions.extra, m)
                /\ ~Covered(exceptions.blocked \ cuts, m)
        BY <2>1, <2>2 DEF AccountsFor
    <2>6. Covered(ToSet(merged) \cup unmerged, m) /\ ~Covered(cut', m)
            <=> /\ Covered(hours \cup exceptions.extra, m)
                /\ ~Covered(exceptions.blocked \ cuts', m)
        BY <2>3, <2>4, <2>5
    <2> QED
        BY <1>1, <2>2, <2>6 DEF AccountsFor, Covered, Covers, ToSet
<1>9. MinutesAccounted' /\ GridFollowed' /\ FoundInOrder'
    BY <1>1, <1>3, <1>5, <1>6, <1>7, <1>8, BeforeScan
<1> QED
    BY <1>5, <1>6, <1>7, <1>9 DEF IndInv

LEMMA CutWindowInv ==
    ASSUME IndInv, CutWindow
    PROVE  IndInv'
<1>1. /\ TypeOK /\ Staged /\ WindowsApart /\ MinutesAccounted
      /\ merged # <<>> /\ merged' = Tail(merged)
      /\ UNCHANGED <<input, unmerged, cuts, cut, cursor, slots, pc>>
      /\ UNCHANGED <<hours, exceptions, busy, wallClock, now>>
    BY DEF IndInv, CutWindow, input
<1>2. PICK c \in cut : result' = result \o Remainder(Head(merged), c)
    BY DEF CutWindow
<1>3. /\ c \in Interval /\ cut = {c} /\ pc = "merge" /\ unmerged = {} /\ ~Effective
      /\ merged \in Seq(Interval) /\ result \in Seq(Interval)
      /\ Separated(merged) /\ Separated(result)
      /\ \A i \in DOMAIN result, j \in DOMAIN merged : result[i][2] < merged[j][1]
    <2>1. c \in Interval /\ cut = {c}
        BY <1>1, <1>2 DEF TypeOK, ExceptionsOfDay
    <2>2. pc = "merge" /\ unmerged = {} /\ ~Effective
        BY <1>1, <2>1 DEF TypeOK, Staged, Effective
    <2> QED
        BY <1>1, <2>1, <2>2 DEF TypeOK, WindowsApart
<1> DEFINE head == Head(merged)
           rest == Tail(merged)
           left == Remainder(head, c)
<1>4. /\ head \in Interval /\ head = merged[1]
      /\ rest \in Seq(Interval) /\ Separated(rest)
      /\ DOMAIN rest = 1..(Len(merged) - 1) /\ DOMAIN merged = 1..Len(merged)
      /\ Len(merged) \in Nat /\ Len(merged) >= 1
      /\ \A i \in 1..(Len(merged) - 1) : rest[i] = merged[i + 1]
      /\ \A j \in DOMAIN rest : head[2] < rest[j][1]
      /\ ToSet(merged) = {head} \cup ToSet(rest)
    BY <1>1, <1>3, SeparatedTail, TailElements, ElementsOf
<1>5. /\ left \in Seq(Interval) /\ Separated(left)
      /\ \A i \in DOMAIN left : head[1] <= left[i][1] /\ left[i][2] <= head[2]
      /\ \A m \in Int : Covered(ToSet(left), m) <=> Covers(head, m) /\ ~Covers(c, m)
    BY <1>3, <1>4, RemainderFacts
<1>6. result' = result \o left /\ merged' = rest
    BY <1>1, <1>2
<1> HIDE DEF head, rest, left
<1>7. \A list \in Seq(Interval) : \A i \in DOMAIN list :
        list[i][1] \in Int /\ list[i][2] \in Int /\ list[i][1] < list[i][2]
    BY ElementsOf, IntervalType
<1>8. ASSUME NEW i \in DOMAIN result, NEW j \in DOMAIN left
      PROVE  result[i][2] < left[j][1]
    <2>1. result[i][2] < head[1]
        BY <1>3, <1>4
    <2>2. head[1] \in Int
        BY <1>4, IntervalType
    <2> QED
        BY <1>3, <1>5, <1>7, <2>1, <2>2
<1>9. /\ result' \in Seq(Interval)
      /\ Separated(result')
      /\ ToSet(result') = ToSet(result) \cup ToSet(left)
    BY <1>3, <1>5, <1>6, <1>8, SeparatedConcat, ConcatElements
<1>10. TypeOK'
    BY <1>1, <1>4, <1>6, <1>9 DEF TypeOK
<1>11. Staged'
    BY <1>1, <1>3 DEF Staged, Effective
<1>12. WindowsApart'
    <2>1. ASSUME NEW w \in ToSet(result'), NEW j \in DOMAIN rest
          PROVE  w[2] < rest[j][1]
        <3>1. CASE w \in ToSet(result)
            <4>1. PICK i \in DOMAIN result : w = result[i]
                BY <3>1 DEF ToSet
            <4>2. j + 1 \in DOMAIN merged /\ rest[j] = merged[j + 1]
                BY <1>4
            <4> QED
                BY <1>3, <4>1, <4>2
        <3>2. CASE w \in ToSet(left)
            <4>1. PICK i \in DOMAIN left : w = left[i]
                BY <3>2 DEF ToSet
            <4>2. w[2] <= head[2] /\ head[2] < rest[j][1]
                BY <1>4, <1>5, <4>1
            <4>3. w[2] \in Int /\ head[2] \in Int /\ rest[j][1] \in Int
                BY <1>4, <1>5, <1>7, <4>1, IntervalType
            <4> QED
                BY <4>2, <4>3
        <3> QED
            BY <1>9, <3>1, <3>2
    <2>2. \A i \in DOMAIN result', j \in DOMAIN merged' : result'[i][2] < merged'[j][1]
        BY <1>6, <2>1 DEF ToSet
    <2>3. unmerged' = {}
        BY <1>1, <1>3
    <2> QED
        BY <1>4, <1>6, <1>9, <2>2, <2>3 DEF WindowsApart, Separated
<1>13. ASSUME NEW m \in 0..(DayLength - 1)
       PROVE  AccountsFor(m)'
    <2>1. AccountsFor(m)
        BY <1>1, <1>3 DEF MinutesAccounted
    <2>2. m \in Int
        BY IntervalType
    <2>3. Covered(cut, m) <=> Covers(c, m)
        BY <1>3, CoveredOne
    <2>4. Covered(ToSet(merged) \cup unmerged, m) <=> Covers(head, m) \/ Covered(ToSet(rest), m)
        <3>1. ToSet(merged) \cup unmerged = {head} \cup ToSet(rest)
            BY <1>3, <1>4
        <3>2. Covered({head} \cup ToSet(rest), m) <=> Covered({head}, m) \/ Covered(ToSet(rest), m)
            BY CoveredUnion
        <3>3. Covered({head}, m) <=> Covers(head, m)
            BY CoveredOne
        <3> QED
            BY <3>1, <3>2, <3>3
    <2>5. Covered(ToSet(result'), m)
            <=> Covered(ToSet(result), m) \/ (Covers(head, m) /\ ~Covers(c, m))
        BY <1>5, <1>9, <2>2, CoveredUnion
    <2>6. Covered(ToSet(merged') \cup unmerged', m) <=> Covered(ToSet(rest), m)
        BY <1>1, <1>3, <1>6
    <2>7. \/ Covered(ToSet(result'), m)
          \/ Covered(ToSet(merged') \cup unmerged', m) /\ ~Covered(cut, m)
          <=> /\ Covered(hours \cup exceptions.extra, m)
              /\ ~Covered(exceptions.blocked \ cuts, m)
        BY <2>1, <2>3, <2>4, <2>5, <2>6 DEF AccountsFor
    <2> QED
        BY <1>1, <2>7 DEF AccountsFor, Covered, Covers, ToSet
<1>14. MinutesAccounted' /\ GridFollowed' /\ FoundInOrder'
    <2>1. UNCHANGED <<input, cursor, slots, pc>> /\ pc = "merge" /\ ~Effective /\ Staged
        BY <1>1, <1>3
    <2> QED
        BY <1>10, <1>11, <1>12, <1>13, <2>1, BeforeScan
<1> QED
    BY <1>10, <1>11, <1>12, <1>14 DEF IndInv

LEMMA EndCutInv ==
    ASSUME IndInv, EndCut
    PROVE  IndInv'
<1>1. /\ TypeOK /\ Staged /\ WindowsApart /\ MinutesAccounted
      /\ merged = <<>> /\ cut # {}
      /\ merged' = result /\ result' = <<>> /\ cut' = {}
      /\ UNCHANGED <<input, unmerged, cuts, cursor, slots, pc>>
      /\ UNCHANGED <<hours, exceptions, busy, wallClock, now>>
    BY DEF IndInv, EndCut, input
<1>3. pc = "merge" /\ unmerged = {} /\ ~Effective
    BY <1>1 DEF TypeOK, Staged, Effective
<1>5. TypeOK'
    BY <1>1, EmptySeq DEF TypeOK
<1>6. Staged'
    BY <1>1, <1>3 DEF Staged, Effective
<1>7. WindowsApart'
    BY <1>1, <1>3 DEF WindowsApart, Separated
<1>8. ASSUME NEW m \in 0..(DayLength - 1)
      PROVE  AccountsFor(m)'
    <2>1. AccountsFor(m)
        BY <1>1, <1>3 DEF MinutesAccounted
    <2>2. ~Covered(ToSet(merged) \cup unmerged, m) /\ ~Covered(ToSet(<<>>), m) /\ ~Covered({}, m)
        BY <1>1, <1>3 DEF Covered, ToSet
    <2>3. Covered(ToSet(result) \cup unmerged, m) <=> Covered(ToSet(result), m)
        BY <1>3
    <2>4. \/ Covered(ToSet(<<>>), m)
          \/ Covered(ToSet(result) \cup unmerged, m) /\ ~Covered({}, m)
          <=> /\ Covered(hours \cup exceptions.extra, m)
              /\ ~Covered(exceptions.blocked \ cuts, m)
        BY <2>1, <2>2, <2>3 DEF AccountsFor
    <2> QED
        BY <1>1, <2>4 DEF AccountsFor, Covered, Covers, ToSet
<1>9. MinutesAccounted' /\ GridFollowed' /\ FoundInOrder'
    BY <1>1, <1>3, <1>5, <1>6, <1>7, <1>8, BeforeScan
<1> QED
    BY <1>5, <1>6, <1>7, <1>9 DEF IndInv

LEMMA EnterWindowInv ==
    ASSUME IndInv, EnterWindow
    PROVE  IndInv'
<1> DEFINE start == wallClock[Head(merged)[1]]
<1>1. /\ TypeOK /\ Staged /\ WindowsApart /\ GridFollowed /\ FoundInOrder
      /\ pc = "merge" /\ Effective /\ cursor = {} /\ merged # <<>>
      /\ cursor' = {start}
      /\ UNCHANGED <<input, unmerged, merged, cuts, cut, result, slots, pc>>
      /\ UNCHANGED <<hours, exceptions, busy, wallClock, now>>
    BY DEF IndInv, EnterWindow, input
<1>2. /\ merged \in Seq(Interval) /\ slots \in Seq(Int)
      /\ Head(merged) = merged[1] /\ Head(merged) \in Interval
      /\ DOMAIN merged = 1..Len(merged) /\ Len(merged) \in Nat /\ 1 \in DOMAIN merged
      /\ start \in Int
    <2>1. merged \in Seq(Interval) /\ slots \in Seq(Int)
        BY <1>1 DEF TypeOK
    <2>2. /\ Head(merged) = merged[1] /\ Len(merged) >= 1 /\ Len(merged) \in Nat
          /\ DOMAIN merged = 1..Len(merged) /\ merged[1] \in Interval
        BY <1>1, <2>1, TailElements, ElementsOf
    <2>3. start \in Int
        BY <1>1, <2>2, ClockType, IntervalType
    <2> QED
        BY <2>1, <2>2, <2>3
<1>3. TypeOK'
    BY <1>1, <1>2 DEF TypeOK
<1>4. Staged'
    BY <1>1 DEF Staged, Effective
<1>5. WindowsApart' /\ MinutesAccounted'
    BY <1>1 DEF WindowsApart, Separated, MinutesAccounted, Effective
<1>6. (start - start) % SlotStep = 0
    BY <1>2, GridSteps, Configuration
<1>7. \A t \in Offered(Head(merged)) : ~(t < start)
    BY <1>2 DEF Offered
<1>8. GridFollowed'
    <2>1. ~exceptions.dayOff
        BY <1>1 DEF Staged
    <2> HIDE DEF start
    <2>2. /\ \A a, b : OpenStretch(a, b)' <=> OpenStretch(a, b)
          /\ \A w : Offered(w)' = Offered(w)
        BY <1>1, InputKept
    <2>3. \A c \in cursor' :
            /\ merged' # <<>>
            /\ c >= wallClock[Head(merged)[1]]'
            /\ (c - wallClock[Head(merged)[1]]') % SlotStep = 0
            /\ \A t \in Offered(Head(merged)') : t < c => t \in ToSet(slots)
        BY <1>1, <1>2, <1>6, <1>7 DEF start
    <2> QED
        BY <1>1, <2>1, <2>2, <2>3 DEF GridFollowed, ToSet
<1>9. FoundInOrder'
    <2>1. ASSUME ClockAdvances
          PROVE  /\ \A i, j \in DOMAIN slots : i < j => slots[i] < slots[j]
                 /\ \A i \in DOMAIN slots, j \in DOMAIN merged : slots[i] < wallClock[merged[j][1]]
        BY <1>1, <2>1 DEF FoundInOrder
    <2>2. ClockAdvances' <=> ClockAdvances
        BY <1>1, InputKept
    <2> QED
        BY <1>1, <1>2, <2>1, <2>2 DEF FoundInOrder
<1> QED
    BY <1>3, <1>4, <1>5, <1>8, <1>9 DEF IndInv

(* The state in which the cursor is in a window. *)
LEMMA InWindow ==
    ASSUME IndInv, NEW t \in cursor
    PROVE  /\ pc = "merge" /\ Effective /\ ~exceptions.dayOff
           /\ cursor = {t} /\ t \in Int
           /\ merged \in Seq(Interval) /\ merged # <<>> /\ slots \in Seq(Int)
           /\ Head(merged) = merged[1] /\ Head(merged) \in Interval
           /\ wallClock[Head(merged)[1]] \in Int /\ wallClock[Head(merged)[2]] \in Int
           /\ DOMAIN merged = 1..Len(merged) /\ Len(merged) \in Nat /\ 1 \in DOMAIN merged
           /\ t >= wallClock[Head(merged)[1]]
           /\ (t - wallClock[Head(merged)[1]]) % SlotStep = 0
           /\ \A u \in Offered(Head(merged)) : u < t => u \in ToSet(slots)
<1>1. /\ TypeOK /\ Staged /\ GridFollowed
    BY DEF IndInv
<1>2. pc = "merge" /\ Effective /\ ~exceptions.dayOff
    BY <1>1 DEF Staged, TypeOK
<1>3. cursor = {t} /\ t \in Int /\ merged \in Seq(Interval) /\ slots \in Seq(Int)
    BY <1>1 DEF TypeOK
<1>4. /\ merged # <<>>
      /\ t >= wallClock[Head(merged)[1]]
      /\ (t - wallClock[Head(merged)[1]]) % SlotStep = 0
      /\ \A u \in Offered(Head(merged)) : u < t => u \in ToSet(slots)
    BY <1>1, <1>2 DEF GridFollowed
<1>5. /\ Head(merged) = merged[1] /\ Len(merged) >= 1 /\ Len(merged) \in Nat
      /\ DOMAIN merged = 1..Len(merged) /\ merged[1] \in Interval
    BY <1>3, <1>4, TailElements, ElementsOf
<1>6. wallClock[Head(merged)[1]] \in Int /\ wallClock[Head(merged)[2]] \in Int
    BY <1>1, <1>5, ClockType, IntervalType
<1> QED
    BY <1>2, <1>3, <1>4, <1>5, <1>6

LEMMA ScanInv ==
    ASSUME IndInv, Scan
    PROVE  IndInv'
<1>1. PICK t \in cursor :
        /\ Fits(t)
        /\ slots' = IF t < now \/ \E b \in busy : Collides(t, ServiceMinutes, b)
                    THEN slots
                    ELSE Append(slots, t)
        /\ cursor' = {Advanced(t)}
    BY DEF Scan
<1>2. /\ TypeOK /\ Staged /\ WindowsApart /\ GridFollowed /\ FoundInOrder
      /\ UNCHANGED <<input, unmerged, merged, cuts, cut, result, pc>>
      /\ UNCHANGED <<hours, exceptions, busy, wallClock, now>>
    BY DEF IndInv, Scan, input
<1> DEFINE start == wallClock[Head(merged)[1]]
           end   == wallClock[Head(merged)[2]]
           free  == t >= now /\ \A b \in busy : ~Collides(t, ServiceMinutes, b)
<1>3. /\ pc = "merge" /\ Effective /\ ~exceptions.dayOff
      /\ cursor = {t} /\ t \in Int
      /\ merged \in Seq(Interval) /\ merged # <<>> /\ slots \in Seq(Int)
      /\ Head(merged) = merged[1] /\ Head(merged) \in Interval
      /\ start \in Int /\ end \in Int
      /\ DOMAIN merged = 1..Len(merged) /\ Len(merged) \in Nat /\ 1 \in DOMAIN merged
      /\ t >= start
      /\ (t - start) % SlotStep = 0
      /\ \A u \in Offered(Head(merged)) : u < t => u \in ToSet(slots)
    BY InWindow
<1>4. /\ SlotStep \in Nat \ {0} /\ ServiceMinutes \in Nat \ {0} /\ now \in Int
    BY <1>2, Configuration, ClockType
<1>5. t + ServiceMinutes <= end /\ cursor' = {t + SlotStep}
    BY <1>1 DEF Fits, Advanced
<1>6. \/ free /\ slots' = Append(slots, t)
      \/ ~free /\ slots' = slots
    BY <1>1, <1>3, <1>4
<1>7. free <=> t \in Offered(Head(merged))
    <2>1. t \in start..(end - ServiceMinutes)
        BY <1>3, <1>4, <1>5
    <2> QED
        BY <1>3, <2>1 DEF Offered
<1> HIDE DEF start, end, free
<1>8. /\ slots' \in Seq(Int)
      /\ ToSet(slots') = IF free THEN ToSet(slots) \cup {t} ELSE ToSet(slots)
    <2>1. Append(slots, t) \in Seq(Int) /\ ToSet(Append(slots, t)) = ToSet(slots) \cup {t}
        BY <1>3, AppendElements
    <2> QED
        BY <1>3, <1>6, <2>1
<1>15. /\ ((t + SlotStep) - start) % SlotStep = 0
       /\ \A u \in Int : (u - start) % SlotStep = 0 /\ t < u => u >= t + SlotStep
    BY <1>3, <1>4, GridSteps
<1>9. TypeOK'
    BY <1>2, <1>3, <1>4, <1>5, <1>8 DEF TypeOK
<1>10. Staged'
    BY <1>2, <1>3 DEF Staged, Effective
<1>11. WindowsApart' /\ MinutesAccounted'
    BY <1>2, <1>3 DEF WindowsApart, Separated, MinutesAccounted, Effective
<1>12. ASSUME NEW u \in Offered(Head(merged)), u < t + SlotStep
       PROVE  u \in ToSet(slots')
    <2>1. u \in Int /\ (u - start) % SlotStep = 0
        BY <1>3, <1>4 DEF Offered, start, end
    <2>2. CASE u < t
        BY <1>3, <1>8, <2>2
    <2>3. CASE u = t
        BY <1>7, <1>8, <2>3
    <2>4. ~(t < u)
        <3>1. t < u => u >= t + SlotStep
            BY <1>15, <2>1
        <3> QED
            BY <1>3, <1>4, <1>12, <2>1, <3>1
    <2> QED
        BY <1>3, <2>1, <2>2, <2>3, <2>4
<1>13. GridFollowed'
    <2>1. /\ \A a, b : OpenStretch(a, b)' <=> OpenStretch(a, b)
          /\ \A w : Offered(w)' = Offered(w)
        BY <1>2, InputKept
    <2>2. \A i \in DOMAIN merged : OpenStretch(merged[i][1], merged[i][2])
        BY <1>2, <1>3 DEF GridFollowed
    <2>3. ASSUME NEW w \in Interval, OpenStretch(w[1], w[2]), w \notin ToSet(merged)
          PROVE  Offered(w) \subseteq ToSet(slots')
        <3>1. Offered(w) \subseteq ToSet(slots)
            BY <1>2, <1>3, <2>3 DEF GridFollowed
        <3> QED
            BY <1>8, <3>1
    <2>4. ASSUME NEW u \in ToSet(slots')
          PROVE  \E w \in Interval : OpenStretch(w[1], w[2]) /\ u \in Offered(w)
        <3>1. CASE u \in ToSet(slots)
            BY <1>2, <1>3, <3>1 DEF GridFollowed
        <3>2. CASE u = t /\ free
            <4>1. OpenStretch(Head(merged)[1], Head(merged)[2])
                BY <1>3, <2>2
            <4> QED
                BY <1>3, <1>7, <3>2, <4>1
        <3> QED
            BY <1>8, <3>1, <3>2
    <2>5. /\ t + SlotStep >= start
          /\ ((t + SlotStep) - start) % SlotStep = 0
        <3>1. t + SlotStep >= start
            BY <1>3, <1>4
        <3> QED
            BY <1>15, <3>1
    <2>6. \A c \in {t + SlotStep} :
            /\ merged # <<>>
            /\ c >= start
            /\ (c - start) % SlotStep = 0
            /\ \A u \in Offered(Head(merged)) : u < c => u \in ToSet(slots')
        BY <1>3, <1>12, <2>5
    <2> QED
        BY <1>2, <1>5, <2>1, <2>2, <2>3, <2>4, <2>6 DEF GridFollowed, ToSet, start
<1>14. FoundInOrder'
    <2>1. ClockAdvances' <=> ClockAdvances
        BY <1>2, InputKept
    <2>2. ASSUME ClockAdvances
          PROVE  /\ \A i, j \in DOMAIN slots' : i < j => slots'[i] < slots'[j]
                 /\ \A i \in DOMAIN slots' : slots'[i] < t + SlotStep
                 /\ \A i \in DOMAIN slots', j \in DOMAIN merged :
                        j > 1 => slots'[i] < wallClock[merged[j][1]]
        <3>1. /\ \A i, j \in DOMAIN slots : i < j => slots[i] < slots[j]
              /\ \A i \in DOMAIN slots : slots[i] < t
              /\ \A i \in DOMAIN slots, j \in DOMAIN merged :
                    j > 1 => slots[i] < wallClock[merged[j][1]]
            BY <1>2, <1>3, <2>2 DEF FoundInOrder
        <3>2. /\ DOMAIN slots = 1..Len(slots) /\ Len(slots) \in Nat
              /\ \A i \in 1..Len(slots) : slots[i] \in Int
            BY <1>3, ElementsOf
        <3>3. CASE slots' = slots
            BY <1>3, <1>4, <3>1, <3>2, <3>3
        <3>4. CASE slots' = Append(slots, t)
            <4>1. /\ DOMAIN slots' = 1..(Len(slots) + 1)
                  /\ \A i \in 1..Len(slots) : slots'[i] = slots[i]
                  /\ slots'[Len(slots) + 1] = t
                BY <1>3, <3>4, AppendElements
            <4>2. \A i \in DOMAIN slots' : i \in 1..Len(slots) \/ i = Len(slots) + 1
                BY <3>2, <4>1
            <4>3. ASSUME NEW i \in DOMAIN slots', NEW j \in DOMAIN slots', i < j
                  PROVE  slots'[i] < slots'[j]
                <5>1. i \in 1..Len(slots)
                    BY <3>2, <4>1, <4>3
                <5> QED
                    BY <3>1, <3>2, <4>1, <4>2, <4>3, <5>1
            <4>4. ASSUME NEW i \in DOMAIN slots'
                  PROVE  slots'[i] < t + SlotStep
                BY <1>3, <1>4, <3>1, <3>2, <4>1, <4>2
            <4>5. ASSUME NEW i \in DOMAIN slots', NEW j \in DOMAIN merged, j > 1
                  PROVE  slots'[i] < wallClock[merged[j][1]]
                <5>1. t < wallClock[merged[j][1]]
                    <6>1. Head(merged)[2] < merged[j][1]
                        BY <1>2, <1>3, <4>5 DEF WindowsApart, Separated
                    <6>2. Head(merged)[2] \in 0..DayLength /\ merged[j][1] \in 0..DayLength
                        BY <1>3, ElementsOf, IntervalType
                    <6>3. end < wallClock[merged[j][1]] /\ wallClock[merged[j][1]] \in Int
                        BY <1>2, <2>2, <6>1, <6>2, ClockType DEF ClockAdvances, end
                    <6> QED
                        BY <1>3, <1>4, <1>5, <6>3
                <5> QED
                    BY <3>1, <3>2, <4>1, <4>2, <4>5, <5>1
            <4> QED
                BY <4>3, <4>4, <4>5
        <3> QED
            BY <1>6, <3>3, <3>4
    <2> QED
        BY <1>2, <1>5, <2>1, <2>2 DEF FoundInOrder
<1> QED
    BY <1>9, <1>10, <1>11, <1>13, <1>14 DEF IndInv

LEMMA LeaveWindowInv ==
    ASSUME IndInv, LeaveWindow
    PROVE  IndInv'
<1>1. PICK t \in cursor : ~Fits(t)
    BY DEF LeaveWindow
<1>2. /\ TypeOK /\ Staged /\ WindowsApart /\ GridFollowed /\ FoundInOrder
      /\ merged' = Tail(merged) /\ cursor' = {}
      /\ UNCHANGED <<input, unmerged, cuts, cut, result, slots, pc>>
      /\ UNCHANGED <<hours, exceptions, busy, wallClock, now>>
    BY DEF IndInv, LeaveWindow, input
<1> DEFINE head == Head(merged)
           rest == Tail(merged)
<1>3. /\ pc = "merge" /\ Effective /\ ~exceptions.dayOff
      /\ cursor = {t} /\ t \in Int
      /\ merged \in Seq(Interval) /\ merged # <<>> /\ slots \in Seq(Int)
      /\ head \in Interval
      /\ wallClock[head[1]] \in Int /\ wallClock[head[2]] \in Int
      /\ \A u \in Offered(head) : u < t => u \in ToSet(slots)
    BY InWindow
<1>4. /\ rest \in Seq(Interval) /\ Separated(rest)
      /\ DOMAIN rest = 1..(Len(merged) - 1) /\ DOMAIN merged = 1..Len(merged)
      /\ Len(merged) \in Nat
      /\ \A i \in 1..(Len(merged) - 1) : rest[i] = merged[i + 1]
      /\ ToSet(merged) = {head} \cup ToSet(rest)
    BY <1>2, <1>3, SeparatedTail, TailElements, ElementsOf DEF WindowsApart
<1>5. \A j \in DOMAIN rest : j + 1 \in DOMAIN merged /\ j + 1 > 1 /\ rest[j] = merged[j + 1]
    BY <1>4
<1>6. t + ServiceMinutes > wallClock[head[2]]
    <2>1. ServiceMinutes \in Int
        BY Configuration
    <2> QED
        BY <1>1, <1>3, <2>1 DEF Fits
<1> HIDE DEF head, rest
<1>7. Offered(head) \subseteq ToSet(slots)
    <2>1. ServiceMinutes \in Int
        BY Configuration
    <2>2. \A u \in Offered(head) : u \in Int /\ u <= wallClock[head[2]] - ServiceMinutes
        BY <1>3, <2>1 DEF Offered
    <2>3. \A u \in Offered(head) : u < t
        BY <1>3, <1>6, <2>1, <2>2
    <2> QED
        BY <1>3, <2>3
<1>8. TypeOK'
    BY <1>2, <1>4 DEF TypeOK, rest
<1>9. Staged'
    BY <1>2, <1>3 DEF Staged, Effective
<1>10. MinutesAccounted'
    BY <1>2, <1>3 DEF MinutesAccounted, Effective
<1>11. WindowsApart'
    <2>1. DOMAIN result' = {} /\ unmerged' = {} /\ result' = result
        BY <1>2, <1>3 DEF Staged, Effective
    <2>2. merged' = rest
        BY <1>2 DEF rest
    <2> QED
        BY <1>2, <1>4, <2>1, <2>2 DEF WindowsApart, Separated
<1>12. GridFollowed'
    <2>1. /\ \A a, b : OpenStretch(a, b)' <=> OpenStretch(a, b)
          /\ \A w : Offered(w)' = Offered(w)
        BY <1>2, InputKept
    <2>2. merged' = rest
        BY <1>2 DEF rest
    <2>3. \A i \in DOMAIN rest : OpenStretch(rest[i][1], rest[i][2])
        BY <1>2, <1>3, <1>5 DEF GridFollowed
    <2>4. \A w \in Interval :
            OpenStretch(w[1], w[2]) /\ w \notin ToSet(rest) => Offered(w) \subseteq ToSet(slots)
        BY <1>2, <1>3, <1>4, <1>7 DEF GridFollowed
    <2>5. \A u \in ToSet(slots) : \E w \in Interval : OpenStretch(w[1], w[2]) /\ u \in Offered(w)
        BY <1>2, <1>3 DEF GridFollowed
    <2> QED
        BY <1>2, <2>1, <2>2, <2>3, <2>4, <2>5 DEF GridFollowed, ToSet
<1>13. FoundInOrder'
    <2>1. ClockAdvances' <=> ClockAdvances
        BY <1>2, InputKept
    <2>2. ASSUME ClockAdvances
          PROVE  /\ \A i, j \in DOMAIN slots : i < j => slots[i] < slots[j]
                 /\ \A i \in DOMAIN slots, j \in DOMAIN rest : slots[i] < wallClock[rest[j][1]]
        BY <1>2, <1>5, <2>2 DEF FoundInOrder
    <2> QED
        BY <1>2, <2>1, <2>2 DEF FoundInOrder, rest
<1> QED
    BY <1>8, <1>9, <1>10, <1>11, <1>12, <1>13 DEF IndInv

(* Sorting a list changes neither its elements nor, when no two of them    *)
(* are equal, that they ascend strictly.                                   *)
LEMMA SortedFacts ==
    ASSUME NEW list \in Seq(Int), NEW sorted \in Rearrangements(list), Ascending(sorted)
    PROVE  /\ sorted \in Seq(Int)
           /\ ToSet(sorted) = ToSet(list)
           /\ (\A i, j \in DOMAIN list : i < j => list[i] < list[j])
                => \A i, j \in DOMAIN sorted : i < j => sorted[i] < sorted[j]
<1>1. DOMAIN list = 1..Len(list) /\ Len(list) \in Nat /\ \A i \in 1..Len(list) : list[i] \in Int
    BY ElementsOf
<1>2. PICK p \in Bijection(DOMAIN list, DOMAIN list) : sorted = [i \in DOMAIN list |-> list[p[i]]]
    BY DEF Rearrangements
<1>3. /\ p \in [1..Len(list) -> 1..Len(list)]
      /\ \A i, j \in 1..Len(list) : p[i] = p[j] => i = j
      /\ \A j \in 1..Len(list) : \E i \in 1..Len(list) : p[i] = j
    BY <1>1, <1>2 DEF Bijection, Injection, Surjection, IsInjective
<1>4. DOMAIN sorted = 1..Len(list) /\ \A i \in 1..Len(list) : sorted[i] = list[p[i]]
    BY <1>1, <1>2
<1>5. sorted \in Seq(Int)
    <2>1. sorted \in [1..Len(list) -> Int]
        BY <1>1, <1>2, <1>3
    <2> QED
        BY <1>1, <2>1
<1>6. ToSet(sorted) = ToSet(list)
    <2>1. ASSUME NEW i \in 1..Len(list)
          PROVE  sorted[i] \in ToSet(list)
        <3>1. p[i] \in 1..Len(list)
            BY <1>3
        <3> QED
            BY <1>1, <1>4, <3>1 DEF ToSet
    <2>2. ASSUME NEW j \in 1..Len(list)
          PROVE  list[j] \in ToSet(sorted)
        <3>1. PICK i \in 1..Len(list) : p[i] = j
            BY <1>3
        <3> QED
            BY <1>4, <3>1 DEF ToSet
    <2>3. ToSet(sorted) \subseteq ToSet(list)
        BY <1>4, <2>1 DEF ToSet
    <2>4. ToSet(list) \subseteq ToSet(sorted)
        BY <1>1, <2>2 DEF ToSet
    <2> QED
        BY <2>3, <2>4
<1>7. ASSUME \A i, j \in DOMAIN list : i < j => list[i] < list[j],
             NEW i \in DOMAIN sorted, NEW j \in DOMAIN sorted, i < j
      PROVE  sorted[i] < sorted[j]
    <2>1. sorted[i] <= sorted[j]
        BY <1>7 DEF Ascending
    <2>2. /\ p[i] \in 1..Len(list) /\ p[j] \in 1..Len(list) /\ p[i] # p[j]
          /\ sorted[i] = list[p[i]] /\ sorted[j] = list[p[j]]
        BY <1>1, <1>3, <1>4, <1>7
    <2>3. list[p[i]] # list[p[j]]
        <3>1. p[i] < p[j] \/ p[j] < p[i]
            BY <1>1, <2>2
        <3>2. list[p[i]] < list[p[j]] \/ list[p[j]] < list[p[i]]
            BY <1>1, <1>7, <2>2, <3>1
        <3> QED
            BY <1>1, <2>2, <3>2
    <2> QED
        BY <1>1, <2>1, <2>2, <2>3
<1> QED
    BY <1>5, <1>6, <1>7

LEMMA FinishInv ==
    ASSUME IndInv, Finish
    PROVE  IndInv'
<1>1. /\ TypeOK /\ Staged /\ WindowsApart /\ GridFollowed /\ FoundInOrder
      /\ pc = "merge" /\ Effective /\ merged = <<>>
      /\ slots' \in Rearrangements(slots) /\ Ascending(slots')
      /\ pc' = "done"
      /\ UNCHANGED <<input, unmerged, merged, cuts, cut, result, cursor>>
      /\ UNCHANGED <<hours, exceptions, busy, wallClock, now>>
    BY DEF IndInv, Finish, input
<1>2. /\ ~exceptions.dayOff /\ slots \in Seq(Int) /\ merged \in Seq(Interval)
      /\ DOMAIN merged = {} /\ ToSet(merged) = {}
    BY <1>1 DEF TypeOK, Staged, ToSet
<1>3. cursor = {}
    BY <1>1, <1>2 DEF GridFollowed
<1>4. /\ slots' \in Seq(Int)
      /\ ToSet(slots') = ToSet(slots)
      /\ (\A i, j \in DOMAIN slots : i < j => slots[i] < slots[j])
            => \A i, j \in DOMAIN slots' : i < j => slots'[i] < slots'[j]
    BY <1>1, <1>2, SortedFacts
<1>5. TypeOK'
    BY <1>1, <1>4 DEF TypeOK
<1>6. Staged'
    BY <1>1, <1>2, <1>3 DEF Staged, Effective
<1>7. WindowsApart' /\ MinutesAccounted'
    BY <1>1 DEF WindowsApart, Separated, MinutesAccounted, Effective
<1>8. GridFollowed'
    <2>1. /\ \A a, b : OpenStretch(a, b)' <=> OpenStretch(a, b)
          /\ \A w : Offered(w)' = Offered(w)
        BY <1>1, InputKept
    <2>2. /\ \A w \in Interval :
                OpenStretch(w[1], w[2]) /\ w \notin ToSet(merged) => Offered(w) \subseteq ToSet(slots')
          /\ \A t \in ToSet(slots') :
                \E w \in Interval : OpenStretch(w[1], w[2]) /\ t \in Offered(w)
        BY <1>1, <1>2, <1>4 DEF GridFollowed
    <2> QED
        BY <1>1, <1>2, <1>3, <2>1, <2>2 DEF GridFollowed, ToSet
<1>9. FoundInOrder'
    <2>1. ClockAdvances' <=> ClockAdvances
        BY <1>1, InputKept
    <2>2. ASSUME ClockAdvances
          PROVE  \A i, j \in DOMAIN slots' : i < j => slots'[i] < slots'[j]
        BY <1>1, <1>4, <2>2 DEF FoundInOrder
    <2> QED
        BY <1>1, <1>2, <1>3, <2>1, <2>2 DEF FoundInOrder
<1> QED
    BY <1>5, <1>6, <1>7, <1>8, <1>9 DEF IndInv

LEMMA StutterInv ==
    ASSUME IndInv, UNCHANGED vars
    PROVE  IndInv'
<1>1. /\ UNCHANGED <<input, unmerged, merged, cuts, cut, result, cursor, slots, pc>>
      /\ UNCHANGED <<hours, exceptions, busy, wallClock, now>>
    BY DEF vars, input
<1>2. /\ \A a, b : OpenStretch(a, b)' <=> OpenStretch(a, b)
      /\ \A w : Offered(w)' = Offered(w)
      /\ ClockAdvances' <=> ClockAdvances
    BY <1>1, InputKept
<1>3. TypeOK' /\ Staged' /\ WindowsApart'
    BY <1>1 DEF IndInv, TypeOK, Staged, Effective, WindowsApart, Separated
<1>4. MinutesAccounted'
    BY <1>1 DEF IndInv, MinutesAccounted, Effective, AccountsFor, Covered, Covers, ToSet
<1>5. GridFollowed'
    BY <1>1, <1>2 DEF IndInv, GridFollowed, Effective, ToSet
<1>6. FoundInOrder'
    BY <1>1, <1>2 DEF IndInv, FoundInOrder
<1> QED
    BY <1>3, <1>4, <1>5, <1>6 DEF IndInv

LEMMA NextInv == IndInv /\ [Next]_vars => IndInv'
<1> SUFFICES ASSUME IndInv, [Next]_vars
             PROVE  IndInv'
    OBVIOUS
<1>1. CASE Merge
    BY <1>1, MergeInv
<1>2. CASE StartCut
    BY <1>2, StartCutInv
<1>3. CASE CutWindow
    BY <1>3, CutWindowInv
<1>4. CASE EndCut
    BY <1>4, EndCutInv
<1>5. CASE EnterWindow
    BY <1>5, EnterWindowInv
<1>6. CASE Scan
    BY <1>6, ScanInv
<1>7. CASE LeaveWindow
    BY <1>7, LeaveWindowInv
<1>8. CASE Finish
    BY <1>8, FinishInv
<1>9. CASE UNCHANGED vars
    BY <1>9, StutterInv
<1> QED
    BY <1>1, <1>2, <1>3, <1>4, <1>5, <1>6, <1>7, <1>8, <1>9 DEF Next

(* The inductive invariant holds of the scan, whatever the hours, the      *)
(* exceptions, the bookings and the clock of the day.                      *)
THEOREM Invariance == Spec => []IndInv
<1>1. Init => IndInv
    BY InitInv
<1>2. IndInv /\ [Next]_vars => IndInv'
    BY NextInv
<1> QED
    BY <1>1, <1>2, PTL DEF Spec

(* Every variable has its type: windows stay proper intervals of the day   *)
(* through every merge and cut.                                            *)
THEOREM TypeCorrect == Spec => []TypeOK
<1>1. IndInv => TypeOK
    BY DEF IndInv
<1> QED
    BY <1>1, Invariance, PTL

(* A booking that a slot does not touch, buffer included, lies before or   *)
(* after it.                                                               *)
LEMMA CollidesMeansNear ==
    ASSUME TypeOK, NEW t \in Int, NEW b \in busy
    PROVE  ~Collides(t, ServiceMinutes, b)
                <=> \/ t + ServiceMinutes + BufferMinutes <= b[1]
                    \/ b[2] + BufferMinutes <= t
<1>1. b[1] \in Int /\ b[2] \in Int /\ ServiceMinutes \in Int /\ BufferMinutes \in Int
    BY ClockType, Configuration
<1> QED
    BY <1>1 DEF Collides

(* The list offered to clients is exactly the grid in the stretches of     *)
(* open minutes, less what is past and what comes too near to a booking:   *)
(* calculate_available_slots loses no slot and invents none, whatever the  *)
(* hours, the exceptions and the day's conversion to UTC.                  *)
THEOREM OffersTheOpenGrid == Spec => []OffersExactlyTheOpenGrid
<1>1. ASSUME IndInv
      PROVE  OffersExactlyTheOpenGrid
    <2> SUFFICES ASSUME pc = "done"
                 PROVE  OffersExactlyTheOpenGrid
        BY DEF OffersExactlyTheOpenGrid
    <2>1. TypeOK /\ Staged /\ GridFollowed
        BY <1>1 DEF IndInv
    <2> DEFINE Grid(s) == {t \in wallClock[s[1]]..(wallClock[s[2]] - ServiceMinutes) :
                            /\ (t - wallClock[s[1]]) % SlotStep = 0
                            /\ t >= now
                            /\ \A b \in busy : \/ t + ServiceMinutes + BufferMinutes <= b[1]
                                               \/ b[2] + BufferMinutes <= t}
    <2>2. ASSUME NEW s \in Interval
          PROVE  Grid(s) = Offered(s)
        <3>1. /\ wallClock[s[1]] \in Int /\ wallClock[s[2]] \in Int /\ ServiceMinutes \in Int
            BY <2>1, ClockType, Configuration, IntervalType
        <3>2. \A t \in wallClock[s[1]]..(wallClock[s[2]] - ServiceMinutes) : t \in Int
            BY <3>1
        <3> QED
            BY <2>1, <3>2, CollidesMeansNear DEF Offered
    <2> HIDE DEF Grid
    <2>3. ToSet(slots) = UNION {Offered(s) : s \in {w \in Interval : OpenStretch(w[1], w[2])}}
        <3>1. CASE exceptions.dayOff
            <4>1. ToSet(slots) = {}
                BY <2>1, <3>1 DEF Staged, ToSet
            <4>2. OpenMinutes = {}
                BY <3>1 DEF OpenMinutes
            <4>3. ASSUME NEW w \in Interval, OpenStretch(w[1], w[2])
                  PROVE  FALSE
                BY <4>2, <4>3, IntervalType DEF OpenStretch
            <4> QED
                BY <4>1, <4>3
        <3>2. CASE ~exceptions.dayOff
            <4>1. ToSet(merged) = {} /\ Effective
                BY <2>1, <3>2 DEF Staged, ToSet
            <4>2. /\ \A w \in Interval : OpenStretch(w[1], w[2]) => Offered(w) \subseteq ToSet(slots)
                  /\ \A t \in ToSet(slots) :
                        \E w \in Interval : OpenStretch(w[1], w[2]) /\ t \in Offered(w)
                BY <2>1, <3>2, <4>1 DEF GridFollowed
            <4> QED
                BY <4>2
        <3> QED
            BY <3>1, <3>2
    <2>4. ToSet(slots) = UNION {Grid(s) : s \in {w \in Interval : OpenStretch(w[1], w[2])}}
        BY <2>2, <2>3
    <2> QED
        BY <2>4 DEF OffersExactlyTheOpenGrid, Grid
<1> QED
    BY <1>1, Invariance, PTL

(* No start is offered twice, and the list is in order, on every day on    *)
(* which the clock is not set forward.                                     *)
THEOREM NoStartTwice == Spec => []StrictlyAscending
<1>1. IndInv => StrictlyAscending
    BY DEF IndInv, FoundInOrder, StrictlyAscending
<1> QED
    BY <1>1, Invariance, PTL

-----------------------------------------------------------------------------
(* What module Slots computes *)

(* A nonempty set of naturals has a least element. *)
LEMMA LeastOf ==
    ASSUME NEW T, T \subseteq Nat, T # {}
    PROVE  \E x \in T : \A y \in T : x <= y
<1>1. PICK x \in T : \A y \in T : ~ (<<y, x>> \in OpToRel(<, Nat))
    BY NatLessThanWellFounded, WFMin
<1>2. \A y \in T : ~(y < x)
    BY <1>1 DEF OpToRel
<1> QED
    BY <1>2

(* The cuts of C made in windows, one after another. *)
CutAll(windows, C) ==
    FoldSet(LAMBDA c, working : IntervalMinus(working, c), windows, C)

(* A function of sets of cuts that takes each cut of a set last. *)
TakesAnyCutLast(g, base, C) ==
    /\ g = [s \in SUBSET C |-> g[s]]
    /\ g[{}] = base
    /\ \A s \in SUBSET C : \A x \in s : g[s] = IntervalMinus(g[s \ {x}], x)

(* Folding a set of cuts over windows: a function that starts with them    *)
(* and takes each cut of any set of cuts last gives the result, in         *)
(* whatever order CHOOSE takes them.                                       *)
LEMMA FoldOfCuts ==
    ASSUME NEW base, NEW C, IsFiniteSet(C), NEW g, TakesAnyCutLast(g, base, C)
    PROVE  CutAll(base, C) = g[C]
<1> DEFINE T == {g[s] : s \in SUBSET C}
<1>0. /\ g \in [SUBSET C -> T]
      /\ g[{}] = base
      /\ \A s \in SUBSET C : \A x \in s : g[s] = IntervalMinus(g[s \ {x}], x)
    BY DEF TakesAnyCutLast
<1> HIDE DEF T
<1> DEFINE Step(f) == [s \in SUBSET C |->
                        IF s = {} THEN base
                        ELSE LET x == CHOOSE y \in s : TRUE
                             IN  IntervalMinus(f[s \ {x}], x)]
           iter == CHOOSE f : f = Step(f)
<1>1. CutAll(base, C) = iter[C]
    BY DEF CutAll, FoldSet, MapThenFoldSet
<1>2. g = Step(g)
    <2>1. ASSUME NEW s \in SUBSET C
          PROVE  g[s] = Step(g)[s]
        <3>1. CASE s = {}
            BY <1>0, <3>1
        <3>2. CASE s # {}
            <4>1. (CHOOSE y \in s : TRUE) \in s
                BY <3>2
            <4>2. g[s] = IntervalMinus(g[s \ {CHOOSE y \in s : TRUE}], CHOOSE y \in s : TRUE)
                BY <1>0, <4>1
            <4> QED
                BY <3>2, <4>2
        <3> QED
            BY <3>1, <3>2
    <2> QED
        BY <1>0, <2>1
<1>3. iter = Step(iter)
    BY <1>2
<1> HIDE DEF iter
<1>4. ASSUME NEW s \in SUBSET C
      PROVE  iter[s] = Step(iter)[s]
    BY <1>3
<1>5. \A s \in SUBSET C : iter[s] = g[s]
    <2> DEFINE Differ == {s \in SUBSET C : iter[s] # g[s]}
    <2> SUFFICES ASSUME Differ # {}
                 PROVE  FALSE
        OBVIOUS
    <2>1. IsWellFoundedOn(StrictSubsetOrdering(C), SUBSET C)
        <3>1. FiniteSubsetsOf(C) = SUBSET C
            BY FS_FiniteSubsetsOfFinite
        <3>2. IsWellFoundedOn(StrictSubsetOrdering(C), FiniteSubsetsOf(C))
            BY FS_StrictSubsetOrderingWellFounded
        <3> QED
            BY <3>1, <3>2
    <2>2. PICK s \in Differ : \A t \in Differ : ~ (<<t, s>> \in StrictSubsetOrdering(C))
        <3>1. Differ \subseteq SUBSET C
            OBVIOUS
        <3> HIDE DEF Differ
        <3> QED
            BY <2>1, <3>1, WFMin
    <2>3. CASE s = {}
        BY <1>0, <1>4, <2>3
    <2>4. CASE s # {}
        <3> DEFINE x == CHOOSE y \in s : TRUE
        <3>1. x \in s
            BY <2>4
        <3>2. s \in SUBSET C /\ s \ {x} \in SUBSET C
            OBVIOUS
        <3>3. <<s \ {x}, s>> \in StrictSubsetOrdering(C)
            BY <3>1, <3>2 DEF StrictSubsetOrdering
        <3>4. iter[s \ {x}] = g[s \ {x}]
            BY <2>2, <3>2, <3>3
        <3>5. iter[s] = IntervalMinus(iter[s \ {x}], x)
            BY <1>4, <2>4, <3>2
        <3>6. g[s] = IntervalMinus(g[s \ {x}], x)
            BY <1>0, <3>1, <3>2
        <3> QED
            BY <3>4, <3>5, <3>6
    <2> QED
        BY <2>3, <2>4
<1> QED
    BY <1>1, <1>5

(* The minutes of the day that intervals hold. *)
MinutesOf(W) == {m \in 0..(DayLength - 1) : Covered(W, m)}

(* Merged is the operator's word for what the merging loop does. *)
LEMMA MergedAreStretches ==
    ASSUME NEW W, W \subseteq Interval
    PROVE  Merged(W) = Stretches(MinutesOf(W))
<1> DEFINE M == MinutesOf(W)
           Joined(s, e) == \A m \in s..(e - 1) : \E w \in W : w[1] <= m /\ m < w[2]
           Runs == {p \in W \X W :
                /\ p[1][1] < p[2][2]
                /\ Joined(p[1][1], p[2][2])
                /\ ~ \E w \in W : \/ w[1] < p[1][1] /\ p[1][1] <= w[2]
                                  \/ w[1] <= p[2][2] /\ p[2][2] < w[2]}
<1>1. Merged(W) = {<<p[1][1], p[2][2]>> : p \in Runs}
    BY DEF Merged
<1>2. \A w \in W : w[1] \in 0..DayLength /\ w[2] \in 0..DayLength /\ w[1] < w[2]
    BY IntervalType
<1>3. ASSUME NEW m \in Int
      PROVE  m \in M <=> \E w \in W : w[1] <= m /\ m < w[2]
    BY <1>2, IntervalType DEF MinutesOf, Covered, Covers
<1> HIDE DEF M
<1>4. ASSUME NEW p \in Runs
      PROVE  <<p[1][1], p[2][2]>> \in Stretches(M)
    <2> DEFINE a == p[1][1]
               b == p[2][2]
    <2>1. a \in 0..DayLength /\ b \in 0..DayLength /\ a < b
        BY <1>2
    <2>2. \A m \in a..(b - 1) : \E w \in W : w[1] <= m /\ m < w[2]
        OBVIOUS
    <2>3. \A w \in W : ~(w[1] < a /\ a <= w[2]) /\ ~(w[1] <= b /\ b < w[2])
        OBVIOUS
    <2> HIDE DEF a, b, Runs
    <2>4. a \in Int /\ b \in Int /\ a - 1 \in Int
        BY <2>1, IntervalType
    <2>5. a..(b - 1) \subseteq M
        BY <1>3, <2>2, <2>4
    <2>6. a - 1 \notin M
        BY <1>2, <1>3, <2>3, <2>4, IntervalType
    <2>7. b \notin M
        BY <1>3, <2>3, <2>4
    <2>8. <<a, b>> \in Interval
        BY <2>1, IntervalType
    <2> QED
        BY <2>5, <2>6, <2>7, <2>8 DEF Stretches, a, b
<1>5. ASSUME NEW x \in Stretches(M)
      PROVE  \E p \in Runs : x = <<p[1][1], p[2][2]>>
    <2>1. /\ x = <<x[1], x[2]>> /\ x[1] \in Int /\ x[2] \in Int /\ x[1] < x[2]
          /\ x[1]..(x[2] - 1) \subseteq M /\ x[1] - 1 \notin M /\ x[2] \notin M
          /\ x[1] - 1 \in Int /\ x[2] - 1 \in Int
        BY IntervalType DEF Stretches, Interval
    <2>2. x[1] \in M /\ x[2] - 1 \in M
        BY <2>1
    <2>3. PICK v \in W : v[1] <= x[1] /\ x[1] < v[2]
        BY <1>3, <2>1, <2>2
    <2>4. PICK w \in W : w[1] <= x[2] - 1 /\ x[2] - 1 < w[2]
        BY <1>3, <2>1, <2>2
    <2>5. v[1] = x[1]
        <3>1. ~(v[1] <= x[1] - 1 /\ x[1] - 1 < v[2])
            BY <1>3, <2>1
        <3> QED
            BY <1>2, <2>1, <2>3, <3>1, IntervalType
    <2>6. w[2] = x[2]
        <3>1. ~(w[1] <= x[2] /\ x[2] < w[2])
            BY <1>3, <2>1
        <3> QED
            BY <1>2, <2>1, <2>4, <3>1, IntervalType
    <2>7. ASSUME NEW u \in W
          PROVE  ~(u[1] < x[1] /\ x[1] <= u[2]) /\ ~(u[1] <= x[2] /\ x[2] < u[2])
        <3>1. /\ ~(u[1] <= x[1] - 1 /\ x[1] - 1 < u[2])
              /\ ~(u[1] <= x[2] /\ x[2] < u[2])
            BY <1>3, <2>1
        <3> QED
            BY <1>2, <2>1, <3>1, IntervalType
    <2>8. \A m \in x[1]..(x[2] - 1) : \E u \in W : u[1] <= m /\ m < u[2]
        BY <1>3, <2>1
    <2>9. <<v, w>> \in Runs
        BY <2>1, <2>5, <2>6, <2>7, <2>8
    <2> QED
        BY <2>1, <2>5, <2>6, <2>9
<1> QED
    BY <1>1, <1>4, <1>5 DEF M

(* Every minute lies in a stretch. *)
LEMMA StretchAround ==
    ASSUME NEW M, M \subseteq 0..(DayLength - 1), NEW m \in M
    PROVE  \E w \in Stretches(M) : Covers(w, m)
<1> DEFINE D == DayLength
           Starts == {a \in 0..m : a..m \subseteq M}
           Ends == {b \in (m + 1)..D : b \notin M}
<1>1. D \in Nat \ {0} /\ m \in 0..(D - 1) /\ D \notin M
    BY IntervalType
<1>2. PICK a \in Starts : \A x \in Starts : a <= x
    <2>1. m \in Starts /\ Starts \subseteq Nat
        BY <1>1
    <2> HIDE DEF Starts
    <2> QED
        BY <2>1, LeastOf
<1>3. PICK b \in Ends : \A x \in Ends : b <= x
    <2>1. D \in Ends /\ Ends \subseteq Nat
        BY <1>1
    <2> HIDE DEF Ends
    <2> QED
        BY <2>1, LeastOf
<1>4. a \in 0..m /\ a..m \subseteq M /\ b \in (m + 1)..D /\ b \notin M
    BY <1>2, <1>3
<1>5. a - 1 \notin M
    <2> SUFFICES ASSUME a - 1 \in M
                 PROVE  FALSE
        OBVIOUS
    <2>1. a - 1 \in 0..m
        BY <1>1, <1>4
    <2>2. (a - 1)..m \subseteq M
        <3>1. ASSUME NEW x \in (a - 1)..m
              PROVE  x \in M
            <4>1. x = a - 1 \/ x \in a..m
                BY <1>1, <1>4
            <4> QED
                BY <1>4, <4>1
        <3> QED
            BY <3>1
    <2>3. a <= a - 1
        BY <1>2, <2>1, <2>2
    <2> QED
        BY <1>1, <1>4, <2>3
<1>6. a..(b - 1) \subseteq M
    <2>1. ASSUME NEW x \in a..(b - 1), x \notin M
          PROVE  FALSE
        <3>1. x \in Ends
            BY <1>1, <1>4, <2>1
        <3> QED
            BY <1>1, <1>3, <1>4, <3>1
    <2> QED
        BY <2>1
<1>7. <<a, b>> \in Interval
    BY <1>1, <1>4, IntervalType
<1>8. <<a, b>> \in Stretches(M)
    BY <1>4, <1>5, <1>6, <1>7 DEF Stretches
<1>9. Covers(<<a, b>>, m)
    BY <1>1, <1>4 DEF Covers
<1> QED
    BY <1>8, <1>9

(* Cutting an interval out of the stretches of some minutes leaves the     *)
(* stretches of the minutes outside it: IntervalMinus neither keeps a      *)
(* blocked minute nor splits or joins what it should not.                  *)
LEMMA MinusStretches ==
    ASSUME NEW M, M \subseteq 0..(DayLength - 1), NEW c \in Interval
    PROVE  IntervalMinus(Stretches(M), c) = Stretches({m \in M : ~Covers(c, m)})
<1> DEFINE N == {m \in M : ~Covers(c, m)}
           Outside(w) == c[2] <= w[1] \/ c[1] >= w[2]
           Lefts == {<<w[1], c[1]>> : w \in {v \in Stretches(M) : ~Outside(v) /\ c[1] > v[1]}}
           Rights == {<<c[2], w[2]>> : w \in {v \in Stretches(M) : ~Outside(v) /\ c[2] < v[2]}}
<1>1. IntervalMinus(Stretches(M), c) = {w \in Stretches(M) : Outside(w)} \cup Lefts \cup Rights
    BY DEF IntervalMinus
<1>2. c[1] \in 0..DayLength /\ c[2] \in 0..DayLength /\ c[1] < c[2] /\ c[1] \in Int /\ c[2] \in Int
    BY IntervalType
<1>3. ASSUME NEW m \in Int
      PROVE  m \in N <=> m \in M /\ ~(c[1] <= m /\ m < c[2])
    BY DEF Covers
<1>4. ASSUME NEW X, NEW w \in Stretches(X)
      PROVE  /\ w \in Interval /\ w = <<w[1], w[2]>>
             /\ w[1] \in 0..DayLength /\ w[2] \in 0..DayLength
             /\ w[1] \in Int /\ w[2] \in Int /\ w[1] < w[2]
             /\ \A m \in Int : w[1] <= m /\ m < w[2] => m \in X
             /\ w[1] - 1 \notin X /\ w[2] \notin X
    BY IntervalType DEF Stretches, Interval
<1>5. ASSUME NEW a \in 0..DayLength, NEW b \in 0..DayLength, a < b,
             \A m \in Int : a <= m /\ m < b => m \in N,
             a - 1 \notin N, b \notin N
      PROVE  <<a, b>> \in Stretches(N)
    <2>1. <<a, b>> \in Interval /\ a \in Int /\ b \in Int
        BY <1>5, IntervalType
    <2>2. a..(b - 1) \subseteq N
        BY <1>5, <2>1
    <2> QED
        BY <1>5, <2>1, <2>2 DEF Stretches
<1> HIDE DEF N
<1>6. ASSUME NEW w \in Stretches(M), Outside(w)
      PROVE  w \in Stretches(N)
    <2>1. /\ \A m \in Int : w[1] <= m /\ m < w[2] => m \in N
          /\ w[1] - 1 \notin N /\ w[2] \notin N
        BY <1>2, <1>3, <1>4, <1>6
    <2>2. <<w[1], w[2]>> \in Stretches(N)
        BY <1>4, <1>5, <2>1
    <2> QED
        BY <1>4, <2>2
<1>7. ASSUME NEW w \in Stretches(M), ~Outside(w), c[1] > w[1]
      PROVE  <<w[1], c[1]>> \in Stretches(N)
    <2>1. /\ \A m \in Int : w[1] <= m /\ m < c[1] => m \in N
          /\ w[1] - 1 \notin N /\ c[1] \notin N
        BY <1>2, <1>3, <1>4, <1>7
    <2> QED
        BY <1>2, <1>4, <1>5, <1>7, <2>1
<1>8. ASSUME NEW w \in Stretches(M), ~Outside(w), c[2] < w[2]
      PROVE  <<c[2], w[2]>> \in Stretches(N)
    <2>1. /\ \A m \in Int : c[2] <= m /\ m < w[2] => m \in N
          /\ c[2] - 1 \notin N /\ w[2] \notin N
        BY <1>2, <1>3, <1>4, <1>8
    <2> QED
        BY <1>2, <1>4, <1>5, <1>8, <2>1
<1>9. ASSUME NEW x \in Stretches(N)
      PROVE  x \in {w \in Stretches(M) : Outside(w)} \cup Lefts \cup Rights
    <2>1. /\ x = <<x[1], x[2]>> /\ x[1] \in Int /\ x[2] \in Int /\ x[1] < x[2]
          /\ \A m \in Int : x[1] <= m /\ m < x[2] => m \in N
          /\ x[1] - 1 \notin N /\ x[2] \notin N /\ x[1] - 1 \in Int
        BY <1>4
    <2>2. x[1] \in M
        BY <1>3, <2>1
    <2>3. PICK w \in Stretches(M) : w[1] <= x[1] /\ x[1] < w[2]
        BY <2>2, StretchAround DEF Covers
    <2>4. /\ w = <<w[1], w[2]>> /\ w[1] \in Int /\ w[2] \in Int /\ w[1] < w[2]
          /\ \A m \in Int : w[1] <= m /\ m < w[2] => m \in M
          /\ w[1] - 1 \notin M /\ w[2] \notin M
        BY <1>4
    <2>5. x[2] <= w[2]
        <3>1. ~(x[1] <= w[2] /\ w[2] < x[2])
            BY <1>3, <2>1, <2>4
        <3> QED
            BY <2>1, <2>3, <2>4, <3>1
    <2>6. x[2] <= c[1] \/ c[2] <= x[1]
        <3>1. ~(x[1] <= c[1] /\ c[1] < x[2])
            BY <1>2, <1>3, <2>1
        <3>2. ~(c[1] <= x[1] /\ x[1] < c[2])
            BY <1>2, <1>3, <2>1
        <3> QED
            BY <1>2, <2>1, <3>1, <3>2
    <2>7. (w[1] <= x[1] - 1) => c[1] <= x[1] - 1 /\ x[1] - 1 < c[2]
        <3>1. w[1] <= x[1] - 1 => x[1] - 1 \in M
            BY <2>1, <2>3, <2>4
        <3> QED
            BY <1>3, <2>1, <3>1
    <2>8. (x[2] < w[2]) => c[1] <= x[2] /\ x[2] < c[2]
        <3>1. x[2] < w[2] => x[2] \in M
            BY <2>1, <2>3, <2>4
        <3> QED
            BY <1>3, <2>1, <3>1
    <2>9. CASE Outside(w)
        <3>1. x[1] = w[1] /\ x[2] = w[2]
            BY <1>2, <2>1, <2>3, <2>4, <2>5, <2>7, <2>8, <2>9
        <3> QED
            BY <2>1, <2>4, <2>9, <3>1
    <2>10. CASE ~Outside(w) /\ x[2] <= c[1]
        <3>1. x[1] = w[1]
            BY <1>2, <2>1, <2>3, <2>4, <2>7, <2>10
        <3>2. x[2] = c[1]
            BY <1>2, <2>1, <2>4, <2>5, <2>8, <2>10
        <3>3. c[1] > w[1]
            BY <2>1, <3>1, <3>2
        <3> QED
            BY <2>1, <2>10, <3>1, <3>2, <3>3
    <2>11. CASE ~Outside(w) /\ c[2] <= x[1]
        <3>1. x[2] = w[2]
            BY <1>2, <2>1, <2>4, <2>5, <2>8, <2>11
        <3>2. x[1] = c[2]
            BY <1>2, <2>1, <2>3, <2>4, <2>7, <2>11
        <3>3. c[2] < w[2]
            BY <2>1, <3>1, <3>2
        <3> QED
            BY <2>1, <2>11, <3>1, <3>2, <3>3
    <2> QED
        BY <2>6, <2>9, <2>10, <2>11
<1> QED
    BY <1>1, <1>6, <1>7, <1>8, <1>9 DEF N

(* Merging the hours and folding the blocked intervals over them leaves    *)
(* the stretches of open minutes, in whatever order the exceptions of the  *)
(* date come: what Bookings takes for effective intervals.                 *)
THEOREM EffectiveAreOpenStretches ==
    ASSUME NEW base, base \subseteq Interval, NEW e \in ExceptionsOfDay, ~e.dayOff
    PROVE  ApplyExceptions(base, e)
                = Stretches({m \in MinutesOf(base \cup e.extra) : ~Covered(e.blocked, m)})
<1> DEFINE M == MinutesOf(base \cup e.extra)
           Left(s) == {m \in M : ~Covered(s, m)}
           g == [s \in SUBSET e.blocked |-> Stretches(Left(s))]
<1>1. e.extra \subseteq Interval /\ e.blocked \subseteq Interval
    BY DEF ExceptionsOfDay
<1>2. M \subseteq 0..(DayLength - 1)
    BY DEF MinutesOf
<1>3. Merged(base \cup e.extra) = Stretches(M)
    BY <1>1, MergedAreStretches
<1> HIDE DEF M
<1>4. IsFiniteSet(e.blocked)
    <2>1. IsFiniteSet(0..DayLength)
        BY IntervalType, FS_Interval
    <2>2. IsFiniteSet((0..DayLength) \X (0..DayLength))
        BY <2>1, FS_Product
    <2>3. e.blocked \subseteq (0..DayLength) \X (0..DayLength)
        BY <1>1 DEF Interval
    <2> QED
        BY <2>2, <2>3, FS_Subset
<1>5. Left({}) = M
    BY DEF Covered
<1>6. g[{}] = Stretches(M)
    BY <1>5
<1>7. ASSUME NEW s \in SUBSET e.blocked, NEW x \in s
      PROVE  g[s] = IntervalMinus(g[s \ {x}], x)
    <2>1. Left(s) = {m \in Left(s \ {x}) : ~Covers(x, m)}
        BY DEF Covered
    <2>2. Left(s \ {x}) \subseteq 0..(DayLength - 1) /\ x \in Interval
        BY <1>1, <1>2
    <2> HIDE DEF Left
    <2>3. IntervalMinus(Stretches(Left(s \ {x})), x) = Stretches(Left(s))
        BY <2>1, <2>2, MinusStretches
    <2>4. g[s] = Stretches(Left(s)) /\ g[s \ {x}] = Stretches(Left(s \ {x}))
        OBVIOUS
    <2> QED
        BY <2>3, <2>4
<1>8. g \in [SUBSET e.blocked -> SUBSET Interval]
    BY DEF Stretches
<1>9. g[e.blocked] = Stretches(Left(e.blocked))
    OBVIOUS
<1> HIDE DEF g, Left
<1>10. CutAll(Stretches(M), e.blocked) = Stretches(Left(e.blocked))
    <2>1. TakesAnyCutLast(g, Stretches(M), e.blocked)
        BY <1>6, <1>7, <1>8 DEF TakesAnyCutLast
    <2>2. CutAll(Stretches(M), e.blocked) = g[e.blocked]
        BY <1>4, <2>1, FoldOfCuts
    <2> QED
        BY <1>9, <2>2
<1>11. ApplyExceptions(base, e) = CutAll(Merged(base \cup e.extra), e.blocked)
    BY DEF ApplyExceptions, CutAll
<1> QED
    BY <1>3, <1>10, <1>11 DEF Left, M

(* On a day without a clock change the loops compute what module Slots     *)
(* says in one expression, and module Bookings relies on: the two models   *)
(* of calculate_available_slots agree.                                     *)
THEOREM LoopsComputeSlots == Spec => []AgreesWithSlots
<1>1. ASSUME IndInv, OffersExactlyTheOpenGrid
      PROVE  AgreesWithSlots
    <2> SUFFICES ASSUME pc = "done", \A m \in 0..DayLength : wallClock[m] = m
                 PROVE  ToSet(slots) = AvailableStarts(0, ApplyExceptions(hours, exceptions),
                                                       ServiceMinutes, busy, now)
        BY DEF AgreesWithSlots
    <2>1. TypeOK
        BY <1>1 DEF IndInv
    <2> DEFINE Grid(s) == {t \in wallClock[s[1]]..(wallClock[s[2]] - ServiceMinutes) :
                            /\ (t - wallClock[s[1]]) % SlotStep = 0
                            /\ t >= now
                            /\ \A b \in busy : \/ t + ServiceMinutes + BufferMinutes <= b[1]
                                               \/ b[2] + BufferMinutes <= t}
               Windows == {w \in Interval : OpenStretch(w[1], w[2])}
    <2>2. ToSet(slots) = UNION {Grid(s) : s \in Windows}
        BY <1>1 DEF OffersExactlyTheOpenGrid
    <2>3. Windows = ApplyExceptions(hours, exceptions)
        <3>1. hours \subseteq Interval /\ exceptions \in ExceptionsOfDay
            BY <2>1 DEF TypeOK
        <3>2. CASE exceptions.dayOff
            <4>1. OpenMinutes = {}
                BY <3>2 DEF OpenMinutes
            <4>2. \A w \in Interval : ~OpenStretch(w[1], w[2])
                BY <4>1, IntervalType DEF OpenStretch
            <4> QED
                BY <3>2, <4>2 DEF ApplyExceptions
        <3>3. CASE ~exceptions.dayOff
            <4>1. OpenMinutes = {m \in MinutesOf(hours \cup exceptions.extra) :
                                    ~Covered(exceptions.blocked, m)}
                BY <3>3 DEF OpenMinutes, MinutesOf, Covered, Covers
            <4>2. ApplyExceptions(hours, exceptions) = Stretches(OpenMinutes)
                BY <3>1, <3>3, <4>1, EffectiveAreOpenStretches
            <4>3. Stretches(OpenMinutes) \subseteq Interval
                BY DEF Stretches
            <4> QED
                BY <4>2, <4>3, OpenStretches
        <3> QED
            BY <3>2, <3>3
    <2>4. ASSUME NEW w \in Windows
          PROVE  Grid(w) = {t \in CursorStops(0, w, ServiceMinutes) :
                                /\ t >= now
                                /\ \A b \in busy : ~Collides(t, ServiceMinutes, b)}
        <3>1. /\ wallClock[w[1]] = w[1] /\ wallClock[w[2]] = w[2] /\ w[1] \in Int /\ w[2] \in Int
              /\ ServiceMinutes \in Int
            BY IntervalType, Configuration
        <3>2. 0 + w[1] = w[1] /\ 0 + w[2] - ServiceMinutes = w[2] - ServiceMinutes
            BY <3>1
        <3>3. \A t \in w[1]..(w[2] - ServiceMinutes) : t \in Int
            BY <3>1
        <3>4. CursorStops(0, w, ServiceMinutes)
                = {t \in w[1]..(w[2] - ServiceMinutes) : (t - w[1]) % SlotStep = 0}
            BY <3>2 DEF CursorStops
        <3> QED
            BY <2>1, <3>1, <3>3, <3>4, CollidesMeansNear
    <2> HIDE DEF Windows, Grid
    <2>5. AvailableStarts(0, Windows, ServiceMinutes, busy, now)
            = UNION {{t \in CursorStops(0, w, ServiceMinutes) :
                        /\ t >= now
                        /\ \A b \in busy : ~Collides(t, ServiceMinutes, b)} : w \in Windows}
        BY DEF AvailableStarts
    <2> QED
        BY <2>2, <2>3, <2>4, <2>5
<1> QED
    BY <1>1, Invariance, OffersTheOpenGrid, PTL
===============================================================================
