--------------------------- MODULE Paging_proofs ----------------------------
(***************************************************************************)
(* What the operators of Paging compute, for totals, pages and caps of any *)
(* size: a plan's windows share the rows among them, and a bisection cuts  *)
(* a request into consecutive smaller ones.                                *)
(*                                                                         *)
(* CapChunks is defined by a recursive function.  That there is such a     *)
(* function, and that its chunks are right, is shown by least              *)
(* counterexample, the intervals ordered by their length.                  *)
(***************************************************************************)
EXTENDS Paging, SequencesExt, FiniteSets, WellFoundedInduction,
        SequenceTheorems, FiniteSetTheorems, TLAPS

(* The sub-requests of s are consecutive and are for the rows lo..hi, at   *)
(* most cap of them each.                                                  *)
Nodes(depths) == [lo : Nat, hi : Nat, depth : depths]
Within(n, lo, hi, cap) ==
  lo <= n.lo /\ n.lo <= n.hi /\ n.hi <= hi /\ n.hi < n.lo + cap
Covers(s, lo, hi, cap, depths) ==
  /\ s \in Seq(Nodes(depths))
  /\ \A i \in 1..Len(s) : Within(s[i], lo, hi, cap)
  /\ \A i, j \in 1..Len(s) : /\ i < j => s[i].hi < s[j].lo
                             /\ j = i + 1 => s[j].lo = s[i].hi + 1
  /\ s = <<>> => hi < lo
  /\ s # <<>> => s[1].lo = lo /\ s[Len(s)].hi = hi

(* One step of _cap_oid_chunks, with chunks for the halves.                *)
Pairs == Nat \X Nat
Left(x) == <<x[1], Middle(x[1], x[2])>>
Right(x) == <<Middle(x[1], x[2]) + 1, x[2]>>
Halves(chunks, x, cap, depth) ==
  IF x[2] < x[1] + cap
  THEN <<Node(x[1], x[2], depth)>>
  ELSE chunks[Left(x)] \o chunks[Right(x)]

(* How long an interval is, less one. *)
Size(x) == IF x[1] <= x[2] THEN x[2] - x[1] ELSE 0

(* A nonempty set of numbers has a least one. *)
LEMMA LeastNumber ==
  ASSUME NEW T \in SUBSET Nat, T # {}
  PROVE  \E n \in T : \A m \in T : n <= m
<1> DEFINE R == {ss \in Nat \X Nat : ss[1] < ss[2]}
<1>1. IsWellFoundedOn(R, Nat)
  BY NatLessThanWellFounded DEF OpToRel
<1>2. PICK n \in T : \A m \in T : ~(<<m, n>> \in R)
  <2> HIDE DEF R
  <2>1. QED
    BY <1>1, WFMin
<1>3. \A m \in T : ~(m < n)
  BY <1>2
<1>4. QED
  BY <1>3

-----------------------------------------------------------------------------
(* Windows *)

(* What a quotient is. *)
LEMMA Division ==
  ASSUME NEW a \in Nat, NEW b \in Nat \ {0}
  PROVE  /\ a \div b \in Nat
         /\ (a \div b) * b <= a /\ a < (a \div b) * b + b
BY Z3

(* Every row is in a window. *)
LEMMA SomeWindow ==
  ASSUME NEW total \in Nat, NEW size \in Nat \ {0}, NEW r \in 1..total
  PROVE  \E i \in 1..WindowCount(total, size) : r \in Window(total, size, i)
<1> DEFINE k == (r - 1) \div size
           n == WindowCount(total, size)
<1>1. k \in Nat /\ k * size <= r - 1 /\ r - 1 < k * size + size
  <2>1. r - 1 \in Nat
    OBVIOUS
  <2>2. QED
    BY <2>1, Division
<1>2. n \in Nat /\ total + size - 1 < n * size + size
  <2>1. total + size - 1 \in Nat
    OBVIOUS
  <2>2. QED
    BY <2>1, Division DEF WindowCount
<1> HIDE DEF k, n
<1>3. k < n
  <2>1. ASSUME n <= k PROVE n * size <= k * size
    BY <1>1, <1>2, <2>1
  <2>2. n * size \in Nat /\ k * size \in Nat
    BY <1>1, <1>2
  <2>3. QED
    BY <1>1, <1>2, <2>1, <2>2
<1>4. (k + 1) - 1 = k /\ (k + 1) * size = k * size + size /\ k * size \in Nat
  BY <1>1
<1>5. r \in Window(total, size, k + 1)
  BY <1>1, <1>4 DEF Window, Lesser
<1>6. QED
  BY <1>1, <1>2, <1>3, <1>5 DEF n

(* A window has a row, and no more rows than a page. *)
LEMMA WindowRows ==
  ASSUME NEW total \in Nat, NEW size \in Nat \ {0},
         NEW i \in 1..WindowCount(total, size)
  PROVE  LET first == (i - 1) * size + 1
             last == Lesser(i * size, total)
         IN  /\ first \in 1..total /\ last \in first..total
             /\ last < first + size
             /\ Window(total, size, i) = first..last
<1> DEFINE n == WindowCount(total, size)
<1>1. n \in Nat /\ n * size <= total + size - 1
  <2>1. total + size - 1 \in Nat
    OBVIOUS
  <2>2. QED
    BY <2>1, Division DEF WindowCount
<1>2. i \in Nat /\ 1 <= i /\ i <= n
  BY <1>1
<1> HIDE DEF n
<1>3. i * size <= n * size /\ i * size \in Nat /\ n * size \in Nat
  BY <1>1, <1>2
<1>4. (i - 1) * size = i * size - size /\ size <= i * size
  BY <1>2
<1>5. QED
  BY <1>1, <1>3, <1>4 DEF Window, Lesser

(* Windows follow one another. *)
LEMMA WindowsInOrder ==
  ASSUME NEW total \in Nat, NEW size \in Nat \ {0},
         NEW i \in Nat \ {0}, NEW j \in Nat \ {0}, i < j
  PROVE  \A r \in Window(total, size, i), q \in Window(total, size, j) :
           r \in Nat /\ q \in Nat /\ r < q
<1> DEFINE c == j - 1
<1>1. c \in Nat /\ i <= c
  OBVIOUS
<1> HIDE DEF c
<1>2. i * size <= c * size /\ i * size \in Nat /\ c * size \in Nat
  BY <1>1
<1>3. i * size <= (j - 1) * size /\ (j - 1) * size \in Nat
  BY <1>2 DEF c
<1>4. \A q \in Window(total, size, j) : q \in Nat /\ (j - 1) * size + 1 <= q
  BY <1>3 DEF Window
<1>5. \A r \in Window(total, size, i) : r <= i * size /\ r <= total
  BY <1>2 DEF Window, Lesser
<1>6. \A r \in Window(total, size, i) : r \in Nat
  <2>1. i - 1 \in Nat
    OBVIOUS
  <2>2. (i - 1) * size \in Nat
    BY <2>1
  <2>3. QED
    BY <2>2 DEF Window
<1>7. QED
  BY <1>2, <1>3, <1>4, <1>5, <1>6

(* No row is in two windows. *)
LEMMA WindowsAreApart ==
  ASSUME NEW total \in Nat, NEW size \in Nat \ {0},
         NEW i \in Nat \ {0}, NEW j \in Nat \ {0}, i # j
  PROVE  Window(total, size, i) \cap Window(total, size, j) = {}
<1>1. i < j \/ j < i
  OBVIOUS
<1>2. QED
  BY <1>1, WindowsInOrder

(* There are no more windows than rows. *)
LEMMA FewWindows ==
  ASSUME NEW total \in Nat, NEW size \in Nat \ {0}
  PROVE  WindowCount(total, size) \in Nat /\ WindowCount(total, size) <= total
<1> DEFINE n == WindowCount(total, size)
<1>1. n \in Nat /\ n * size <= total + size - 1
  <2>1. total + size - 1 \in Nat
    OBVIOUS
  <2>2. QED
    BY <2>1, Division DEF WindowCount
<1> HIDE DEF n
<1>2. ASSUME n >= total + 1 PROVE FALSE
  <2>1. (total + 1) * size <= n * size /\ (total + 1) * size = total * size + size
    BY <1>1, <1>2
  <2>2. total * 1 <= total * size /\ total * size \in Nat /\ n * size \in Nat
    BY <1>1
  <2>3. QED
    BY <1>1, <2>1, <2>2
<1>3. QED
  BY <1>1, <1>2 DEF n

(* build_pagination_plan deals out the rows: each is in one window, and a   *)
(* window is for at most a page of rows (_pagination.py:110-123).          *)
THEOREM WindowsShareRows ==
  ASSUME NEW total \in Nat, NEW size \in Nat \ {0}
  PROVE  /\ \A r \in 1..total : \E i \in 1..WindowCount(total, size) :
              /\ r \in Window(total, size, i)
              /\ \A j \in 1..WindowCount(total, size) :
                   r \in Window(total, size, j) => j = i
         /\ \A i \in 1..WindowCount(total, size) :
              \E lo, hi \in 1..total :
                /\ Window(total, size, i) = lo..hi
                /\ lo <= hi /\ hi < lo + size
<1>1. WindowCount(total, size) \in Nat
  BY FewWindows
<1>2. ASSUME NEW r \in 1..total
      PROVE  \E i \in 1..WindowCount(total, size) :
               /\ r \in Window(total, size, i)
               /\ \A j \in 1..WindowCount(total, size) :
                    r \in Window(total, size, j) => j = i
  <2>1. PICK i \in 1..WindowCount(total, size) : r \in Window(total, size, i)
    BY SomeWindow
  <2>2. ASSUME NEW j \in 1..WindowCount(total, size),
               r \in Window(total, size, j), j # i
        PROVE  FALSE
    <3>1. i \in Nat \ {0} /\ j \in Nat \ {0}
      BY <1>1
    <3>2. Window(total, size, i) \cap Window(total, size, j) = {}
      BY <2>2, <3>1, WindowsAreApart
    <3>3. QED
      BY <2>1, <2>2, <3>2
  <2>3. QED
    BY <2>1, <2>2
<1>3. ASSUME NEW i \in 1..WindowCount(total, size)
      PROVE  \E lo, hi \in 1..total : /\ Window(total, size, i) = lo..hi
                                      /\ lo <= hi /\ hi < lo + size
  <2> DEFINE first == (i - 1) * size + 1
             last == Lesser(i * size, total)
  <2>1. /\ first \in 1..total /\ last \in first..total /\ last < first + size
        /\ Window(total, size, i) = first..last
    BY WindowRows
  <2> HIDE DEF first, last
  <2>2. last \in 1..total /\ first <= last
    BY <2>1
  <2>3. QED
    BY <2>1, <2>2
<1>4. QED
  BY <1>2, <1>3

-----------------------------------------------------------------------------
(* Bisection *)

(* An interval of two rows or more is cut inside. *)
LEMMA MiddleIsInside ==
  ASSUME NEW lo \in Nat, NEW hi \in Nat, lo < hi
  PROVE  Middle(lo, hi) \in Nat /\ lo <= Middle(lo, hi) /\ Middle(lo, hi) < hi
<1>1. PICK n \in Nat : n = hi - lo + 1 /\ n >= 2
  OBVIOUS
<1>2. n \div 2 \in Nat /\ n \div 2 >= 1 /\ n \div 2 < n
  BY <1>1
<1>3. QED
  BY <1>1, <1>2 DEF Middle

(* A chunk that fits is left whole. *)
LEMMA OneCovers ==
  ASSUME NEW lo \in Nat, NEW hi \in Nat, lo <= hi, NEW depth,
         NEW cap \in Nat, hi < lo + cap
  PROVE  Covers(<<Node(lo, hi, depth)>>, lo, hi, cap, {depth})
BY DEF Covers, Node, Nodes, Within

(* The sub-requests of two neighbouring intervals, one after the other. *)
LEMMA ConcatCovers ==
  ASSUME NEW lo \in Nat, NEW mid \in Nat, NEW hi \in Nat, lo <= mid + 1, mid <= hi,
         NEW cap \in Nat, NEW depths, NEW s, NEW t,
         Covers(s, lo, mid, cap, depths), Covers(t, mid + 1, hi, cap, depths)
  PROVE  Covers(s \o t, lo, hi, cap, depths)
<1> DEFINE u == s \o t
           m == Len(s)
           n == Len(t)
<1>1. s \in Seq(Nodes(depths)) /\ t \in Seq(Nodes(depths))
  BY DEF Covers
<1>2. u \in Seq(Nodes(depths)) /\ Len(u) = m + n /\ m \in Nat /\ n \in Nat
  BY <1>1, ConcatProperties, LenProperties
<1>3. /\ \A i \in 1..m : i \in 1..Len(u) /\ u[i] = s[i]
      /\ \A i \in 1..n : m + i \in 1..Len(u) /\ u[m + i] = t[i]
  <2>1. \A i \in 1..m + n : u[i] = IF i <= m THEN s[i] ELSE t[i - m]
    BY <1>1, ConcatProperties
  <2> HIDE DEF u, m, n
  <2>2. ASSUME NEW i \in 1..m PROVE i \in 1..Len(u) /\ u[i] = s[i]
    <3>1. i \in 1..m + n /\ i <= m
      BY <1>2
    <3>2. QED
      BY <1>2, <2>1, <3>1
  <2>3. ASSUME NEW i \in 1..n PROVE m + i \in 1..Len(u) /\ u[m + i] = t[i]
    <3>1. m + i \in 1..m + n /\ ~(m + i <= m) /\ (m + i) - m = i
      BY <1>2
    <3>2. QED
      BY <1>2, <2>1, <3>1
  <2>4. QED
    BY <2>2, <2>3
<1>4. \A i \in 1..Len(u) : i \in 1..m \/ \E k \in 1..n : i = m + k
  <2>1. ASSUME NEW i \in 1..Len(u), i \notin 1..m
        PROVE  i - m \in 1..n /\ i = m + (i - m)
    BY <1>2, <2>1
  <2>2. QED
    BY <2>1
<1>5. /\ \A i \in 1..m : s[i].lo \in Nat /\ s[i].hi \in Nat
      /\ \A i \in 1..n : t[i].lo \in Nat /\ t[i].hi \in Nat
      /\ \A i \in 1..m : Within(s[i], lo, mid, cap)
      /\ \A i \in 1..n : Within(t[i], mid + 1, hi, cap)
  <2>1. /\ \A i \in 1..m : s[i] \in Nodes(depths)
        /\ \A i \in 1..n : t[i] \in Nodes(depths)
    BY <1>1, ElementOfSeq
  <2>2. QED
    BY <2>1 DEF Covers, Nodes
<1>6. /\ s = <<>> <=> m = 0
      /\ t = <<>> <=> n = 0
      /\ u = <<>> <=> m + n = 0
  BY <1>1, <1>2, EmptySeq
<1>7. /\ m # 0 => s[1].lo = lo /\ s[m].hi = mid
      /\ n # 0 => t[1].lo = mid + 1 /\ t[n].hi = hi
      /\ m = 0 => mid < lo
      /\ n = 0 => hi < mid + 1
  BY <1>6 DEF Covers
<1>8. \A i, j \in 1..m : /\ i < j => s[i].hi < s[j].lo
                         /\ j = i + 1 => s[j].lo = s[i].hi + 1
  BY DEF Covers
<1>9. \A i, j \in 1..n : /\ i < j => t[i].hi < t[j].lo
                         /\ j = i + 1 => t[j].lo = t[i].hi + 1
  BY DEF Covers
<1> HIDE DEF m, n, u
<1>10. \A i \in 1..Len(u) : Within(u[i], lo, hi, cap)
  <2> SUFFICES ASSUME NEW i \in 1..Len(u)
               PROVE  Within(u[i], lo, hi, cap)
    OBVIOUS
  <2>1. CASE i \in 1..m
    <3>1. /\ u[i] = s[i] /\ s[i].lo \in Nat /\ s[i].hi \in Nat
          /\ Within(s[i], lo, mid, cap)
      BY <1>3, <1>5, <2>1
    <3>2. QED
      BY <3>1 DEF Within
  <2>2. ASSUME NEW k \in 1..n, i = m + k
        PROVE  Within(u[i], lo, hi, cap)
    <3>1. /\ u[i] = t[k] /\ t[k].lo \in Nat /\ t[k].hi \in Nat
          /\ Within(t[k], mid + 1, hi, cap)
      BY <1>3, <1>5, <2>2
    <3>2. QED
      BY <3>1 DEF Within
  <2>3. QED
    BY <1>4, <2>1, <2>2
<1>11. ASSUME NEW i \in 1..Len(u), NEW j \in 1..Len(u)
       PROVE  /\ i < j => u[i].hi < u[j].lo
              /\ j = i + 1 => u[j].lo = u[i].hi + 1
  <2>1. CASE i \in 1..m /\ j \in 1..m
    <3>1. u[i] = s[i] /\ u[j] = s[j]
      BY <1>3, <2>1
    <3>2. QED
      BY <1>2, <1>5, <1>8, <2>1, <3>1
  <2>2. ASSUME i \in 1..m, NEW l \in 1..n, j = m + l
        PROVE  /\ i < j => u[i].hi < u[j].lo
               /\ j = i + 1 => u[j].lo = u[i].hi + 1
    <3>1. u[i] = s[i] /\ u[j] = t[l]
      BY <1>3, <2>2
    <3>2. j = i + 1 => i = m /\ l = 1
      BY <1>2, <2>2
    <3>3. m # 0 /\ n # 0
      BY <1>2, <2>2
    <3>4. s[i].hi \in Nat /\ t[l].lo \in Nat /\ s[i].hi <= mid /\ mid + 1 <= t[l].lo
      BY <1>5, <2>2 DEF Within
    <3>5. s[i].hi < t[l].lo
      BY <3>4
    <3>6. j = i + 1 => s[i].hi = mid /\ t[l].lo = mid + 1
      BY <1>7, <3>2, <3>3
    <3>7. QED
      BY <3>1, <3>5, <3>6
  <2>3. ASSUME NEW k \in 1..n, i = m + k, j \in 1..m
        PROVE  ~(i < j) /\ j # i + 1
    BY <1>2, <2>3
  <2>4. ASSUME NEW k \in 1..n, i = m + k, NEW l \in 1..n, j = m + l
        PROVE  /\ i < j => u[i].hi < u[j].lo
               /\ j = i + 1 => u[j].lo = u[i].hi + 1
    <3>1. u[i] = t[k] /\ u[j] = t[l]
      BY <1>3, <2>4
    <3>2. (i < j => k < l) /\ (j = i + 1 => l = k + 1)
      BY <1>2, <2>4
    <3>3. QED
      BY <1>2, <1>5, <1>9, <2>4, <3>1, <3>2
  <2>5. QED
    BY <1>4, <2>1, <2>2, <2>3, <2>4
<1>12. u = <<>> => hi < lo
  BY <1>2, <1>6, <1>7
<1>13. u # <<>> => u[1].lo = lo /\ u[Len(u)].hi = hi
  <2>1. CASE m # 0 /\ n # 0
    <3>1. u[1] = s[1] /\ u[Len(u)] = t[n]
      BY <1>2, <1>3, <2>1
    <3>2. QED
      BY <1>7, <2>1, <3>1
  <2>2. CASE m # 0 /\ n = 0
    <3>1. u[1] = s[1] /\ u[Len(u)] = s[m] /\ mid = hi
      BY <1>2, <1>3, <1>7, <2>2
    <3>2. QED
      BY <1>7, <2>2, <3>1
  <2>3. CASE m = 0 /\ n # 0
    <3>1. u[1] = t[1] /\ u[Len(u)] = t[n] /\ lo = mid + 1
      BY <1>2, <1>3, <1>7, <2>3
    <3>2. QED
      BY <1>7, <2>3, <3>1
  <2>4. QED
    BY <1>6, <2>1, <2>2, <2>3
<1>14. QED
  BY <1>2, <1>10, <1>11, <1>12, <1>13 DEF Covers, u

(* Once the first sub-request is answered, the others are for what is left. *)
LEMMA TailCovers ==
  ASSUME NEW lo \in Nat, NEW hi \in Nat, NEW cap \in Nat, NEW depths, NEW s,
         Covers(s, lo, hi, cap, depths), s # <<>>
  PROVE  /\ Head(s) \in Nodes(depths)
         /\ Head(s).lo = lo /\ lo <= Head(s).hi /\ Head(s).hi <= hi
         /\ Covers(Tail(s), Head(s).hi + 1, hi, cap, depths)
<1> DEFINE t == Tail(s)
           n == Len(t)
<1>1. s \in Seq(Nodes(depths))
  BY DEF Covers
<1>2. /\ Head(s) = s[1] /\ t \in Seq(Nodes(depths)) /\ n \in Nat /\ Len(s) = n + 1
      /\ \A i \in 1..n : t[i] = s[i + 1]
  <2>1. Len(s) \in Nat /\ n = Len(s) - 1
    BY <1>1, HeadTailProperties, LenProperties
  <2>2. QED
    BY <1>1, <2>1, HeadTailProperties, LenProperties
<1>3. \A i \in 1..(n + 1) :
        /\ s[i] \in Nodes(depths) /\ s[i].lo \in Nat /\ s[i].hi \in Nat
        /\ Within(s[i], lo, hi, cap)
  <2>1. \A i \in 1..(n + 1) : s[i] \in Nodes(depths)
    BY <1>1, <1>2, ElementOfSeq
  <2>2. QED
    BY <1>2, <2>1 DEF Covers, Nodes
<1>4. s[1].lo = lo /\ s[n + 1].hi = hi
  BY <1>2 DEF Covers
<1>5. \A i, j \in 1..(n + 1) : /\ i < j => s[i].hi < s[j].lo
                               /\ j = i + 1 => s[j].lo = s[i].hi + 1
  BY <1>2 DEF Covers
<1>6. t = <<>> <=> n = 0
  BY <1>2, EmptySeq
<1> HIDE DEF n, t
<1>7. \A i \in 1..n : Within(t[i], s[1].hi + 1, hi, cap)
  <2> SUFFICES ASSUME NEW i \in 1..n
      PROVE  Within(t[i], s[1].hi + 1, hi, cap)
    OBVIOUS
  <2>1. i + 1 \in 1..(n + 1) /\ 1 \in 1..(n + 1) /\ 1 < i + 1 /\ t[i] = s[i + 1]
    BY <1>2
  <2>2. /\ s[1].hi \in Nat /\ s[i + 1].lo \in Nat /\ s[i + 1].hi \in Nat
        /\ Within(s[i + 1], lo, hi, cap) /\ s[1].hi < s[i + 1].lo
    BY <1>3, <1>5, <2>1
  <2>3. QED
    BY <2>1, <2>2 DEF Within
<1>8. ASSUME NEW i \in 1..n, NEW j \in 1..n
      PROVE  /\ i < j => t[i].hi < t[j].lo
             /\ j = i + 1 => t[j].lo = t[i].hi + 1
  <2>1. /\ i + 1 \in 1..(n + 1) /\ j + 1 \in 1..(n + 1)
        /\ i < j => i + 1 < j + 1
        /\ j = i + 1 => j + 1 = (i + 1) + 1
    BY <1>2
  <2>2. t[i] = s[i + 1] /\ t[j] = s[j + 1]
    BY <1>2
  <2>3. QED
    BY <1>2, <1>3, <1>5, <2>1, <2>2
<1>9. t = <<>> => hi < s[1].hi + 1
  <2>1. 1 \in 1..(n + 1)
    BY <1>2
  <2>2. QED
    BY <1>3, <1>4, <1>6, <2>1 DEF Within
<1>10. t # <<>> => t[1].lo = s[1].hi + 1 /\ t[n].hi = hi
  <2> SUFFICES ASSUME n # 0 PROVE t[1].lo = s[1].hi + 1 /\ t[n].hi = hi
    BY <1>6
  <2>1. 1 \in 1..n /\ n \in 1..n /\ 1 \in 1..(n + 1) /\ 2 \in 1..(n + 1) /\ 2 = 1 + 1
    BY <1>2
  <2>2. t[1] = s[2] /\ t[n] = s[n + 1]
    BY <1>2, <2>1
  <2>3. QED
    BY <1>2, <1>3, <1>4, <1>5, <2>1, <2>2
<1>11. 1 \in 1..(n + 1)
  BY <1>2
<1>12. Covers(t, s[1].hi + 1, hi, cap, depths)
  BY <1>2, <1>7, <1>8, <1>9, <1>10 DEF Covers, n
<1>13. QED
  BY <1>2, <1>3, <1>4, <1>11, <1>12 DEF t, Within

(* The halves of an interval are shorter. *)
LEMMA HalvesAreShorter ==
  ASSUME NEW cap \in Nat \ {0}, NEW x \in Pairs
  PROVE  /\ Size(x) \in Nat
         /\ ~(x[2] < x[1] + cap) =>
              /\ x[1] < x[2] /\ Left(x) \in Pairs /\ Right(x) \in Pairs
              /\ Size(Left(x)) < Size(x) /\ Size(Right(x)) < Size(x)
<1>1. PICK lo \in Nat, hi \in Nat : x = <<lo, hi>>
  BY DEF Pairs
<1>2. Size(x) \in Nat
  BY <1>1 DEF Size
<1>3. ASSUME ~(hi < lo + cap)
      PROVE  /\ lo < hi /\ Left(x) \in Pairs /\ Right(x) \in Pairs
             /\ Size(Left(x)) < Size(x) /\ Size(Right(x)) < Size(x)
  <2>1. lo < hi
    BY <1>3
  <2>2. PICK mid \in Nat : mid = Middle(lo, hi) /\ lo <= mid /\ mid < hi
    BY <2>1, MiddleIsInside
  <2>3. Left(x) = <<lo, mid>> /\ Right(x) = <<mid + 1, hi>>
    BY <1>1, <2>2 DEF Left, Right
  <2>4. Size(x) = hi - lo /\ Size(Left(x)) = mid - lo /\ Size(Right(x)) = hi - (mid + 1)
    BY <1>1, <2>1, <2>2, <2>3 DEF Size
  <2>5. QED
    BY <2>1, <2>2, <2>3, <2>4 DEF Pairs
<1>4. QED
  BY <1>1, <1>2, <1>3

(* The recursion is well-founded: some function satisfies its equation.    *)
LEMMA ChunksExist ==
  ASSUME NEW cap \in Nat \ {0}, NEW depth
  PROVE  \E f : f = [x \in Pairs |-> Halves(f, x, cap, depth)]
<1> DEFINE GoodTo(g, n) ==
             \A x \in Pairs : Size(x) < n => g[x] = Halves(g, x, cap, depth)
<1>1. ASSUME NEW g, NEW h, NEW x \in Pairs,
             \A y \in Pairs : Size(y) < Size(x) => g[y] = h[y]
      PROVE  Halves(g, x, cap, depth) = Halves(h, x, cap, depth)
  BY <1>1, HalvesAreShorter DEF Halves
<1>2. \A n \in Nat : \E g : GoodTo(g, n)
  <2> DEFINE T == {n \in Nat : ~ \E g : GoodTo(g, n)}
  <2>1. SUFFICES ASSUME T # {} PROVE FALSE
    OBVIOUS
  <2> HIDE DEF GoodTo
  <2>2. PICK n \in T : \A m \in T : n <= m
    BY <2>1, LeastNumber
  <2>3. n # 0
    <3>1. \A x \in Pairs : ~(Size(x) < 0)
      BY HalvesAreShorter
    <3>2. GoodTo(<<>>, 0)
      BY <3>1 DEF GoodTo
    <3>3. QED
      BY <3>2
  <2>4. PICK g : GoodTo(g, n - 1)
    <3>1. n - 1 \in Nat /\ ~(n <= n - 1)
      BY <2>3
    <3>2. QED
      BY <2>2, <3>1
  <2> DEFINE h == [x \in Pairs |-> Halves(g, x, cap, depth)]
  <2>5. ASSUME NEW x \in Pairs, Size(x) < n
        PROVE  h[x] = Halves(h, x, cap, depth)
    <3>1. \A y \in Pairs : Size(y) < Size(x) => g[y] = h[y]
      <4> SUFFICES ASSUME NEW y \in Pairs, Size(y) < Size(x) PROVE g[y] = h[y]
        OBVIOUS
      <4>1. Size(y) < n - 1
        BY <2>5, HalvesAreShorter
      <4>2. QED
        BY <2>4, <4>1 DEF GoodTo
    <3>2. h[x] = Halves(g, x, cap, depth)
      OBVIOUS
    <3> HIDE DEF h
    <3>3. QED
      BY <1>1, <3>1, <3>2
  <2> HIDE DEF h
  <2>6. GoodTo(h, n)
    BY <2>5 DEF GoodTo
  <2>7. QED
    BY <2>6
<1>3. ASSUME NEW n \in Nat, NEW g, NEW h, GoodTo(g, n), GoodTo(h, n),
             NEW x \in Pairs, Size(x) < n
      PROVE  g[x] = h[x]
  <2> DEFINE T == {m \in Nat : \E y \in Pairs : /\ Size(y) = m /\ m < n
                                                /\ g[y] # h[y]}
  <2>1. SUFFICES ASSUME T # {} PROVE FALSE
    BY <1>3, HalvesAreShorter
  <2>2. PICK m \in T : \A k \in T : m <= k
    <3> HIDE DEF T
    <3>1. T \in SUBSET Nat
      BY DEF T
    <3>2. QED
      BY <2>1, <3>1, LeastNumber
  <2>3. PICK y \in Pairs : Size(y) = m /\ m < n /\ g[y] # h[y]
    OBVIOUS
  <2>4. \A z \in Pairs : Size(z) < Size(y) => g[z] = h[z]
    <3> SUFFICES ASSUME NEW z \in Pairs, Size(z) < Size(y), g[z] # h[z]
                 PROVE  FALSE
      OBVIOUS
    <3>1. Size(z) \in Nat /\ Size(z) < n /\ ~(m <= Size(z))
      BY <2>3, HalvesAreShorter
    <3>2. Size(z) \in T
      BY <3>1
    <3>3. QED
      BY <2>2, <3>1, <3>2
  <2>5. g[y] = Halves(g, y, cap, depth) /\ h[y] = Halves(h, y, cap, depth)
    BY <1>3, <2>3
  <2>6. QED
    BY <1>1, <2>3, <2>4, <2>5
<1> DEFINE G(n) == CHOOSE g : GoodTo(g, n)
           f == [x \in Pairs |-> G(Size(x) + 1)[x]]
<1>4. \A n \in Nat : GoodTo(G(n), n)
  <2> HIDE DEF GoodTo
  <2>1. QED
    BY <1>2
<1> HIDE DEF G
<1>5. ASSUME NEW x \in Pairs
      PROVE  f[x] = Halves(f, x, cap, depth)
  <2> DEFINE n == Size(x) + 1
  <2>1. n \in Nat /\ Size(x) < n
    BY HalvesAreShorter
  <2>2. f[x] = G(n)[x] /\ GoodTo(G(n), n)
    BY <1>4, <2>1
  <2>3. \A y \in Pairs : Size(y) < Size(x) => G(n)[y] = f[y]
    <3> SUFFICES ASSUME NEW y \in Pairs, Size(y) < Size(x) PROVE G(n)[y] = f[y]
      OBVIOUS
    <3> DEFINE m == Size(y) + 1
    <3>1. m \in Nat /\ m <= n /\ Size(y) < m
      BY HalvesAreShorter
    <3>2. GoodTo(G(m), m) /\ f[y] = G(m)[y]
      BY <1>4, <3>1
    <3>3. GoodTo(G(n), m)
      BY <2>1, <2>2, <3>1, HalvesAreShorter
    <3> HIDE DEF m, n, GoodTo, f
    <3>4. QED
      BY <1>3, <3>1, <3>2, <3>3
  <2>4. G(n)[x] = Halves(G(n), x, cap, depth)
    BY <2>1, <2>2
  <2> HIDE DEF n, GoodTo, f
  <2>5. QED
    BY <1>1, <2>2, <2>3, <2>4
<1>6. f = [x \in Pairs |-> Halves(f, x, cap, depth)]
  <2>1. [x \in Pairs |-> Halves(f, x, cap, depth)] = [x \in Pairs |-> f[x]]
    BY <1>5
  <2>2. f = [x \in Pairs |-> f[x]]
    OBVIOUS
  <2>3. QED
    BY <2>1, <2>2
<1> HIDE DEF f
<1>7. QED
  BY <1>6

(* _cap_oid_chunks cuts any interval of ids into consecutive chunks, each  *)
(* of at most cap ids, from its first to its last (getgdf.py:702-726).     *)
THEOREM ChunksCover ==
  ASSUME NEW lo \in Nat, NEW hi \in Nat, lo <= hi, NEW cap \in Nat \ {0}, NEW depth
  PROVE  Covers(CapChunks(lo, hi, cap, depth), lo, hi, cap, {depth})
<1> DEFINE f == CHOOSE f : f = [x \in Pairs |-> Halves(f, x, cap, depth)]
<1>1. f = [x \in Pairs |-> Halves(f, x, cap, depth)]
  <2>1. \E g : g = [x \in Pairs |-> Halves(g, x, cap, depth)]
    BY ChunksExist
  <2>2. QED
    BY <2>1
<1>2. CapChunks(lo, hi, cap, depth) = f[<<lo, hi>>]
  BY DEF CapChunks, Halves, Pairs, Left, Right
<1> HIDE DEF f
<1>3. \A x \in Pairs : f[x] = Halves(f, x, cap, depth)
  BY <1>1
<1> DEFINE Wrong == {x \in Pairs : x[1] <= x[2] /\ ~Covers(f[x], x[1], x[2], cap, {depth})}
           T == {Size(x) : x \in Wrong}
<1>4. Wrong = {}
  <2> SUFFICES ASSUME Wrong # {} PROVE FALSE
    OBVIOUS
  <2>1. T \in SUBSET Nat /\ T # {}
    BY HalvesAreShorter
  <2>2. PICK n \in T : \A m \in T : n <= m
    <3> HIDE DEF T
    <3>1. QED
      BY <2>1, LeastNumber
  <2>3. PICK x \in Wrong : n = Size(x)
    OBVIOUS
  <2>4. \A p, q \in Nat : p <= q /\ Size(<<p, q>>) < Size(x) =>
          Covers(f[<<p, q>>], p, q, cap, {depth})
    <3> SUFFICES ASSUME NEW p \in Nat, NEW q \in Nat, p <= q,
                        Size(<<p, q>>) < Size(x),
                        ~Covers(f[<<p, q>>], p, q, cap, {depth})
                 PROVE  FALSE
      OBVIOUS
    <3>1. <<p, q>> \in Pairs
      BY DEF Pairs
    <3>2. <<p, q>> \in Wrong
      BY <3>1
    <3>3. Size(<<p, q>>) \in T /\ Size(<<p, q>>) \in Nat /\ Size(x) \in Nat
      BY <3>1, <3>2, HalvesAreShorter
    <3> HIDE DEF T, Wrong
    <3>4. QED
      BY <2>2, <2>3, <3>3
  <2>5. PICK a \in Nat, b \in Nat : x = <<a, b>> /\ a <= b
    BY DEF Pairs
  <2>6. ~Covers(f[x], a, b, cap, {depth})
    BY <2>5
  <2>7. f[x] = Halves(f, x, cap, depth)
    BY <1>3
  <2>8. CASE b < a + cap
    BY <2>5, <2>6, <2>7, <2>8, OneCovers DEF Halves
  <2>9. CASE ~(b < a + cap)
    <3>1. a < b /\ Left(x) \in Pairs /\ Right(x) \in Pairs
          /\ Size(Left(x)) < Size(x) /\ Size(Right(x)) < Size(x)
      BY <2>5, <2>9, HalvesAreShorter
    <3>2. PICK mid \in Nat : /\ mid = Middle(a, b) /\ a <= mid /\ mid < b
                             /\ mid + 1 <= b
      BY <3>1, MiddleIsInside
    <3>3. Left(x) = <<a, mid>> /\ Right(x) = <<mid + 1, b>>
      BY <2>5, <3>2 DEF Left, Right
    <3> HIDE DEF T, Wrong
    <3>4. Covers(f[Left(x)], a, mid, cap, {depth})
      <4>1. Size(<<a, mid>>) < Size(x)
        BY <3>1, <3>3
      <4>2. Covers(f[<<a, mid>>], a, mid, cap, {depth})
        BY <2>4, <3>2, <4>1
      <4>3. QED
        BY <3>3, <4>2
    <3>5. Covers(f[Right(x)], mid + 1, b, cap, {depth})
      <4>1. Size(<<mid + 1, b>>) < Size(x) /\ mid + 1 \in Nat
        BY <3>1, <3>3
      <4>2. Covers(f[<<mid + 1, b>>], mid + 1, b, cap, {depth})
        BY <2>4, <3>2, <4>1
      <4>3. QED
        BY <3>3, <4>2
    <3>6. f[x] = f[Left(x)] \o f[Right(x)]
      BY <2>5, <2>7, <2>9 DEF Halves
    <3>7. a <= mid + 1 /\ mid <= b
      BY <3>2
    <3>8. QED
      BY <2>6, <3>2, <3>4, <3>5, <3>6, <3>7, ConcatCovers
  <2>10. QED
    BY <2>8, <2>9
<1>5. QED
  BY <1>2, <1>4 DEF Pairs

(* A truncated request is split into requests for the same ids, in order,  *)
(* none of them for more than cap (getgdf.py:821-827).                     *)
THEOREM BisectCovers ==
  ASSUME NEW lo \in Nat, NEW hi \in Nat, lo < hi, NEW cap \in Nat \ {0}, NEW depth
  PROVE  Covers(Bisect(lo, hi, cap, depth), lo, hi, cap, {depth})
<1>1. PICK mid \in Nat : mid = Middle(lo, hi) /\ lo <= mid /\ mid < hi
  BY MiddleIsInside
<1>2. /\ Covers(CapChunks(lo, mid, cap, depth), lo, mid, cap, {depth})
      /\ Covers(CapChunks(mid + 1, hi, cap, depth), mid + 1, hi, cap, {depth})
  <2>1. mid + 1 \in Nat /\ mid + 1 <= hi
    BY <1>1
  <2>2. QED
    BY <1>1, <2>1, ChunksCover
<1>3. lo <= mid + 1 /\ mid <= hi
  BY <1>1
<1>4. QED
  BY <1>1, <1>2, <1>3, ConcatCovers DEF Bisect

(* So every id is asked for again once: it is in one of the sub-requests,  *)
(* and in no other.                                                        *)
LEMMA CoveredOnce ==
  ASSUME NEW lo \in Nat, NEW hi \in Nat, NEW cap \in Nat, NEW depths, NEW s,
         Covers(s, lo, hi, cap, depths), NEW r \in lo..hi
  PROVE  \E i \in 1..Len(s) :
           /\ r \in NodeRows(s[i])
           /\ \A j \in 1..Len(s) : r \in NodeRows(s[j]) => j = i
<1>1. s \in Seq(Nodes(depths)) /\ Len(s) \in Nat /\ s # <<>>
  BY LenProperties DEF Covers
<1>2. Len(s) # 0
  BY <1>1, EmptySeq
<1>3. \A i \in 1..Len(s) : s[i].lo \in Nat /\ s[i].hi \in Nat
  <2>1. \A i \in 1..Len(s) : s[i] \in Nodes(depths)
    BY <1>1, ElementOfSeq
  <2>2. QED
    BY <2>1 DEF Nodes
<1>4. s[1].lo = lo /\ s[Len(s)].hi = hi
  BY <1>1 DEF Covers
<1>5. \A i, j \in 1..Len(s) : /\ i < j => s[i].hi < s[j].lo
                              /\ j = i + 1 => s[j].lo = s[i].hi + 1
  BY DEF Covers
<1> DEFINE T == {i \in 1..Len(s) : r <= s[i].hi}
<1>6. PICK i \in T : \A m \in T : i <= m
  <2>1. T \in SUBSET Nat
    BY <1>1
  <2>2. Len(s) \in T
    BY <1>1, <1>2, <1>4
  <2> HIDE DEF T
  <2>3. QED
    BY <2>1, <2>2, LeastNumber
<1>7. s[i].lo <= r
  <2>1. CASE i = 1
    BY <1>4, <2>1
  <2>2. CASE i # 1
    <3>1. i - 1 \in 1..Len(s) /\ i = (i - 1) + 1 /\ ~(i <= i - 1)
      BY <1>1, <2>2
    <3>2. ~(r <= s[i - 1].hi)
      BY <1>6, <3>1
    <3>3. s[i].lo = s[i - 1].hi + 1
      BY <1>5, <3>1
    <3>4. s[i - 1].hi \in Nat /\ r \in Nat
      BY <1>3, <3>1
    <3>5. QED
      BY <3>2, <3>3, <3>4
  <2>3. QED
    BY <2>1, <2>2
<1>8. i \in 1..Len(s) /\ r \in NodeRows(s[i])
  BY <1>3, <1>7 DEF NodeRows
<1>9. ASSUME NEW j \in 1..Len(s), r \in NodeRows(s[j]), j # i
      PROVE  FALSE
  <2>1. i < j \/ j < i
    BY <1>1, <1>8, <1>9
  <2>2. s[j].lo <= r /\ r <= s[j].hi /\ s[i].lo <= r /\ r <= s[i].hi
    BY <1>3, <1>8, <1>9 DEF NodeRows
  <2>3. s[i].hi < s[j].lo \/ s[j].hi < s[i].lo
    BY <1>5, <1>8, <1>9, <2>1
  <2>4. /\ r \in Nat /\ s[i].lo \in Nat /\ s[i].hi \in Nat
        /\ s[j].lo \in Nat /\ s[j].hi \in Nat
    BY <1>3, <1>8, <1>9
  <2>5. QED
    BY <2>2, <2>3, <2>4
<1>10. QED
  BY <1>8, <1>9

(* Splitting a request for ids lo..hi asks for each of them in exactly one *)
(* sub-request (getgdf.py:702-726, 821-827).                               *)
COROLLARY BisectionIsExact ==
  ASSUME NEW lo \in Nat, NEW hi \in Nat, lo < hi, NEW cap \in Nat \ {0},
         NEW depth, NEW r \in lo..hi
  PROVE  LET s == Bisect(lo, hi, cap, depth)
         IN  \E i \in 1..Len(s) :
               /\ r \in NodeRows(s[i])
               /\ \A j \in 1..Len(s) : r \in NodeRows(s[j]) => j = i
<1> DEFINE s == Bisect(lo, hi, cap, depth)
<1>1. Covers(s, lo, hi, cap, {depth})
  BY BisectCovers
<1>2. cap \in Nat /\ lo \in Nat /\ hi \in Nat /\ r \in lo..hi
  OBVIOUS
<1> DEFINE depths == {depth}
<1> HIDE DEF s, depths
<1>3. \E i \in 1..Len(s) : /\ r \in NodeRows(s[i])
                         /\ \A j \in 1..Len(s) : r \in NodeRows(s[j]) => j = i
  <2>1. Covers(s, lo, hi, cap, depths)
    BY <1>1 DEF depths
  <2>2. QED
    BY <1>2, <2>1, CoveredOnce
<1>4. QED
  BY <1>3 DEF s
=============================================================================
