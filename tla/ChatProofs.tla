----------------------------- MODULE ChatProofs -----------------------------
(***************************************************************************)
(* Proofs about Chat and its Gateway, for any number of targets, requests, *)
(* conversations and chunks.  The invariant has a part for each of the     *)
(* two: GatewayInv (a request's tried targets and the rest of its chain    *)
(* together list its model's targets by health; in each class of targets   *)
(* the last to head a chain have done so once more than the others, by how *)
(* far the counter has come) and StoreInv (what each row rests on).  First *)
(* come the facts about Only, Rotate and RankTargets that the former needs *)
(* and about Reader that the latter does: these operators are recursive,   *)
(* and are reasoned about by induction over positions.                     *)
(***************************************************************************)
EXTENDS Chat, FiniteSetTheorems, SequenceTheorems, WellFoundedInduction, TLAPS

----------------------------------------------------------------------------
(* Induction and recursion over numbers.                                   *)

\* Induction, over the set of the numbers of which something holds: otherwise
\* some number is the least that is missing.
LEMMA Induction ==
  ASSUME NEW T, 0 \in T, \A n \in Nat : n \in T => n + 1 \in T
  PROVE  Nat \subseteq T
<1> DEFINE Less == {ss \in Nat \X Nat : ss[1] < ss[2]}
           U == Nat \ T
<1>1. IsWellFoundedOn(Less, Nat)
  BY NatLessThanWellFounded DEF OpToRel
<1>2. CASE U # {}
  <2>1. U \subseteq Nat /\ \A x, y \in Nat : y < x => <<y, x>> \in Less
    OBVIOUS
  <2> HIDE DEF Less, U
  <2>2. PICK x \in U : \A y \in U : ~(<<y, x>> \in Less)
    BY <1>1, <1>2, <2>1, WFMin
  <2>3. \A y \in U : ~(y < x)
    BY <2>1, <2>2
  <2>4. x \in Nat /\ x \notin T /\ x # 0
    BY DEF U
  <2>5. x - 1 \in Nat /\ x - 1 < x /\ (x - 1) + 1 = x
    BY <2>4
  <2>6. x - 1 \in T
    BY <2>3, <2>5 DEF U
  <2> QED
    BY <2>4, <2>5, <2>6
<1> QED
  BY <1>2

\* g is computed from base by step, up to n.
Follows(g, n, V, base, step) ==
  g \in [0 .. n -> V] /\ g[0] = base /\ \A k \in 1 .. n : g[k] = step[<<k, g[k - 1]>>]

LEMMA Recursion ==
  ASSUME NEW V, NEW base \in V, NEW step \in [Nat \X V -> V], NEW m \in Nat
  PROVE  \E g : Follows(g, m, V, base, step)
<1> DEFINE T == {n \in Nat : \E g : Follows(g, n, V, base, step)}
<1>1. 0 \in T
  <2>1. Follows([k \in 0 .. 0 |-> base], 0, V, base, step)
    BY DEF Follows
  <2> QED
    BY <2>1
<1>2. ASSUME NEW n \in Nat, n \in T PROVE n + 1 \in T
  <2>1. PICK g : Follows(g, n, V, base, step)
    BY <1>2
  <2> DEFINE h == [k \in 0 .. (n + 1) |-> IF k <= n THEN g[k] ELSE step[<<k, g[n]>>]]
  <2>2. g[n] \in V /\ step[<<n + 1, g[n]>>] \in V
    BY <2>1 DEF Follows
  <2>3. h \in [0 .. (n + 1) -> V]
    BY <2>1, <2>2 DEF Follows
  <2>4. \A k \in 1 .. (n + 1) : h[k] = step[<<k, h[k - 1]>>]
    <3> TAKE k \in 1 .. (n + 1)
    <3>1. CASE k <= n
      BY <2>1, <3>1 DEF Follows
    <3>2. CASE k = n + 1
      BY <3>2
    <3> QED
      BY <3>1, <3>2
  <2>5. Follows(h, n + 1, V, base, step)
    BY <2>1, <2>3, <2>4 DEF Follows
  <2> QED
    BY <2>5
<1>3. Nat \subseteq T
  <2> HIDE DEF T
  <2> QED
    BY <1>1, <1>2, Induction
<1> QED
  BY <1>3

----------------------------------------------------------------------------
(* What is picked from a sequence.                                         *)

\* o holds the elements of S among the first n of s: its k-th is the ix[k]-th of s.
Picks(ix, o, s, n, S) ==
  /\ ix \in [1 .. Len(o) -> 1 .. n]
  /\ \A j, k \in 1 .. Len(o) : j < k => ix[j] < ix[k]
  /\ \A k \in 1 .. Len(o) : o[k] = s[ix[k]] /\ o[k] \in S
  /\ \A i \in 1 .. n : s[i] \in S => \E k \in 1 .. Len(o) : ix[k] = i

LEMMA PicksMore ==
  ASSUME NEW V, NEW s \in Seq(V), NEW S, NEW n \in Nat, n + 1 \in 1 .. Len(s),
         NEW o \in Seq(V), NEW ix, Picks(ix, o, s, n, S)
  PROVE  /\ s[n + 1] \in S => \E jx : Picks(jx, Append(o, s[n + 1]), s, n + 1, S)
         /\ s[n + 1] \notin S => Picks(ix, o, s, n + 1, S)
<1> DEFINE m == Len(o)
           p == Append(o, s[n + 1])
           jx == [k \in 1 .. (m + 1) |-> IF k <= m THEN ix[k] ELSE n + 1]
<1>1. m \in Nat /\ s[n + 1] \in V
  OBVIOUS
<1>2. Len(p) = m + 1 /\ (\A k \in 1 .. m : p[k] = o[k]) /\ p[m + 1] = s[n + 1]
  BY <1>1
<1>3. /\ ix \in [1 .. m -> 1 .. n]
      /\ \A j, k \in 1 .. m : j < k => ix[j] < ix[k]
      /\ \A k \in 1 .. m : o[k] = s[ix[k]] /\ o[k] \in S
      /\ \A i \in 1 .. n : s[i] \in S => \E k \in 1 .. m : ix[k] = i
  BY DEF Picks
<1> HIDE DEF m, p
<1>4. ASSUME s[n + 1] \in S PROVE Picks(jx, p, s, n + 1, S)
  <2>1. jx \in [1 .. Len(p) -> 1 .. (n + 1)]
    BY <1>1, <1>2, <1>3
  <2>2. ASSUME NEW j \in 1 .. Len(p), NEW k \in 1 .. Len(p), j < k PROVE jx[j] < jx[k]
    <3>1. j \in 1 .. m /\ ix[j] \in 1 .. n /\ jx[j] = ix[j]
      BY <1>1, <1>2, <1>3, <2>2
    <3>2. CASE k \in 1 .. m
      BY <1>1, <1>3, <2>2, <3>1, <3>2
    <3>3. CASE k = m + 1
      BY <1>1, <3>1, <3>3
    <3> QED
      BY <1>1, <1>2, <3>2, <3>3
  <2>3. ASSUME NEW k \in 1 .. Len(p) PROVE p[k] = s[jx[k]] /\ p[k] \in S
    <3>1. CASE k \in 1 .. m
      <4>1. jx[k] = ix[k] /\ p[k] = o[k]
        BY <1>1, <1>2, <3>1
      <4>2. o[k] = s[ix[k]] /\ o[k] \in S
        BY <1>3, <3>1
      <4> QED
        BY <4>1, <4>2
    <3>2. CASE k = m + 1
      BY <1>1, <1>2, <1>4, <3>2
    <3> QED
      BY <1>1, <1>2, <3>1, <3>2
  <2>4. ASSUME NEW i \in 1 .. (n + 1), s[i] \in S PROVE \E k \in 1 .. Len(p) : jx[k] = i
    <3>1. CASE i \in 1 .. n
      <4>1. PICK k \in 1 .. m : ix[k] = i
        BY <1>3, <2>4, <3>1
      <4>2. k \in 1 .. Len(p) /\ jx[k] = i
        BY <1>1, <1>2, <4>1
      <4> QED
        BY <4>2
    <3>2. CASE i = n + 1
      <4>1. m + 1 \in 1 .. Len(p) /\ jx[m + 1] = i
        BY <1>1, <1>2, <3>2
      <4> QED
        BY <4>1
    <3> QED
      BY <3>1, <3>2
  <2> QED
    BY <2>1, <2>2, <2>3, <2>4 DEF Picks
<1>5. ASSUME s[n + 1] \notin S PROVE Picks(ix, o, s, n + 1, S)
  <2>1. ix \in [1 .. m -> 1 .. (n + 1)]
    BY <1>1, <1>3
  <2>2. \A i \in 1 .. (n + 1) : s[i] \in S => \E k \in 1 .. m : ix[k] = i
    BY <1>3, <1>5
  <2> QED
    BY <1>3, <2>1, <2>2 DEF Picks, m
<1> QED
  BY <1>4, <1>5 DEF p

LEMMA OnlyPicks ==
  ASSUME NEW V, NEW s \in Seq(V), NEW S
  PROVE  Only(s, S) \in Seq(V) /\ \E ix : Picks(ix, Only(s, S), s, Len(s), S)
<1> DEFINE n == Len(s)
           upto[i \in 0 .. n] ==
             IF i = 0 THEN << >> ELSE IF s[i] \in S THEN Append(upto[i - 1], s[i]) ELSE upto[i - 1]
           step == [io \in Nat \X Seq(V) |->
                      IF io[1] \in 1 .. n /\ s[io[1]] \in S THEN Append(io[2], s[io[1]]) ELSE io[2]]
<1>1. n \in Nat /\ \A i \in 1 .. n : s[i] \in V
  OBVIOUS
<1>2. << >> \in Seq(V) /\ step \in [Nat \X Seq(V) -> Seq(V)]
  BY <1>1
<1>3. PICK g : Follows(g, n, Seq(V), << >>, step)
  <2> HIDE DEF step, n, upto
  <2>1. \E g : Follows(g, n, Seq(V), << >>, step)
    BY <1>1, <1>2, Recursion
  <2> QED
    BY <2>1
<1>4. g = [i \in 0 .. n |-> IF i = 0 THEN << >>
                            ELSE IF s[i] \in S THEN Append(g[i - 1], s[i]) ELSE g[i - 1]]
  <2>1. ASSUME NEW i \in 0 .. n, i # 0
        PROVE  g[i] = IF s[i] \in S THEN Append(g[i - 1], s[i]) ELSE g[i - 1]
    <3>1. i \in 1 .. n /\ i \in Nat /\ i - 1 \in 0 .. n
      BY <1>1, <2>1
    <3>2. g[i] = step[<<i, g[i - 1]>>] /\ g[i - 1] \in Seq(V)
      BY <1>3, <3>1 DEF Follows
    <3> QED
      BY <3>1, <3>2
  <2> QED
    BY <1>3, <2>1 DEF Follows
<1>5. upto = [i \in 0 .. n |-> IF i = 0 THEN << >>
                               ELSE IF s[i] \in S THEN Append(upto[i - 1], s[i]) ELSE upto[i - 1]]
  BY <1>4
<1>6. Only(s, S) = upto[n]
  BY DEF Only
<1> HIDE DEF upto, step, n
<1> DEFINE T == {i \in Nat : i <= n => upto[i] \in Seq(V) /\ \E ix : Picks(ix, upto[i], s, i, S)}
<1>7. 0 \in T
  <2>1. upto[0] = << >>
    BY <1>1, <1>5
  <2>2. Picks(<< >>, << >>, s, 0, S)
    BY DEF Picks
  <2> QED
    BY <1>2, <2>1, <2>2
<1>8. ASSUME NEW i \in Nat, i \in T PROVE i + 1 \in T
  <2>1. CASE i + 1 <= n
    <3>1. i <= n /\ i + 1 \in 0 .. n /\ i + 1 # 0 /\ (i + 1) - 1 = i /\ i + 1 \in 1 .. Len(s)
      BY <1>1, <2>1 DEF n
    <3>2. upto[i] \in Seq(V) /\ \E ix : Picks(ix, upto[i], s, i, S)
      BY <1>8, <3>1
    <3>3. PICK ix : Picks(ix, upto[i], s, i, S)
      BY <3>2
    <3>4. upto[i + 1] = IF s[i + 1] \in S THEN Append(upto[i], s[i + 1]) ELSE upto[i]
      BY <1>5, <3>1
    <3>5. /\ s[i + 1] \in S => \E jx : Picks(jx, Append(upto[i], s[i + 1]), s, i + 1, S)
          /\ s[i + 1] \notin S => Picks(ix, upto[i], s, i + 1, S)
      BY <3>1, <3>2, <3>3, PicksMore
    <3>6. upto[i + 1] \in Seq(V)
      BY <3>1, <3>2, <3>4
    <3>7. \E jx : Picks(jx, upto[i + 1], s, i + 1, S)
      <4>1. CASE s[i + 1] \in S
        BY <3>4, <3>5, <4>1
      <4>2. CASE s[i + 1] \notin S
        BY <3>4, <3>5, <4>2
      <4> QED
        BY <4>1, <4>2
    <3> QED
      BY <3>6, <3>7
  <2> QED
    BY <2>1
<1>9. Nat \subseteq T
  <2> HIDE DEF T
  <2> QED
    BY <1>7, <1>8, Induction
<1>10. upto[n] \in Seq(V) /\ \E ix : Picks(ix, upto[n], s, n, S)
  BY <1>1, <1>9
<1> QED
  BY <1>6, <1>10 DEF n
----------------------------------------------------------------------------
(* Ranking.                                                                *)

\* q names each target of T once.
Lists(q, T) == q \in Seq(Target) /\ IsInjective(q) /\ Range(q) = T

\* No target of q graded worse than a later one.
Graded(q, seen) ==
  \A i \in 1 .. Len(q) : \A j \in 1 .. (i - 1) : Rank(seen[q[j]]) <= Rank(seen[q[i]])

LEMMA ListsMeans ==
  ASSUME NEW q \in Seq(Target), NEW T
  PROVE  Lists(q, T) <=> /\ \A i, j \in 1 .. Len(q) : q[i] = q[j] => i = j
                         /\ \A i \in 1 .. Len(q) : q[i] \in T
                         /\ \A t \in T : \E i \in 1 .. Len(q) : q[i] = t
BY DEF Lists, IsInjective, Range

LEMMA HealthIs ==
  /\ Health = {"healthy", "degraded", "unknown", "down"}
  /\ Rank("healthy") = 1 /\ Rank("degraded") = 2 /\ Rank("unknown") = 3 /\ Rank("down") = 4
<1>1. /\ HealthOrder[1] = "healthy" /\ HealthOrder[2] = "degraded"
      /\ HealthOrder[3] = "unknown" /\ HealthOrder[4] = "down"
  BY DEF HealthOrder
<1>2. Health = {"healthy", "degraded", "unknown", "down"}
  BY <1>1 DEF Health
<1> QED
  BY <1>1, <1>2 DEF Rank

LEMMA ListsOf == ASSUME NEW q, NEW T, Lists(q, T) PROVE T \subseteq Target /\ Range(q) = T
<1>1. q \in Seq(Target) /\ Range(q) = T
  BY DEF Lists
<1>2. \A t \in T : \E i \in 1 .. Len(q) : q[i] = t
  BY <1>1, ListsMeans
<1> QED
  BY <1>1, <1>2

LEMMA OnlyLists ==
  ASSUME NEW q, NEW T, Lists(q, T), NEW S
  PROVE  Lists(Only(q, S), T \cap S)
<1> DEFINE o == Only(q, S)
<1>1. q \in Seq(Target)
  BY DEF Lists
<1>2. o \in Seq(Target) /\ \E ix : Picks(ix, o, q, Len(q), S)
  BY <1>1, OnlyPicks
<1> HIDE DEF o
<1>3. PICK ix : Picks(ix, o, q, Len(q), S)
  BY <1>2
<1>4. /\ \A i, j \in 1 .. Len(q) : q[i] = q[j] => i = j
      /\ \A i \in 1 .. Len(q) : q[i] \in T
      /\ \A t \in T : \E i \in 1 .. Len(q) : q[i] = t
  BY <1>1, ListsMeans
<1>5. ASSUME NEW j \in 1 .. Len(o), NEW k \in 1 .. Len(o), o[j] = o[k] PROVE j = k
  <2>1. ix[j] = ix[k]
    BY <1>3, <1>4, <1>5 DEF Picks
  <2>2. j \in Nat /\ k \in Nat /\ ix[j] \in Nat /\ ix[k] \in Nat
    BY <1>3 DEF Picks
  <2> QED
    BY <1>3, <2>1, <2>2 DEF Picks
<1>6. \A k \in 1 .. Len(o) : o[k] \in T \cap S
  BY <1>3, <1>4 DEF Picks
<1>7. ASSUME NEW t \in T \cap S PROVE \E k \in 1 .. Len(o) : o[k] = t
  <2>1. PICK i \in 1 .. Len(q) : q[i] = t
    BY <1>4
  <2>2. PICK k \in 1 .. Len(o) : ix[k] = i
    BY <1>3, <2>1 DEF Picks
  <2> QED
    BY <1>3, <2>1, <2>2 DEF Picks
<1>8. Lists(o, T \cap S)
  BY <1>2, <1>5, <1>6, <1>7, ListsMeans
<1> QED
  BY <1>8 DEF o

LEMMA ModFacts ==
  ASSUME NEW k \in Nat, NEW m \in Nat \ {0}
  PROVE  /\ k % m \in 0 .. (m - 1)
         /\ (k + 1) % m = IF k % m = m - 1 THEN 0 ELSE (k % m) + 1
<1>1. k % m \in 0 .. (m - 1) /\ k \div m \in Nat
  OBVIOUS
<1>2. PICK q \in Nat, x \in 0 .. (m - 1) : k % m = x /\ k \div m = q
  BY <1>1
<1>3. k = q * m + x
  BY <1>2
<1>4. ASSUME NEW j \in Nat, NEW p \in Nat, NEW y \in 0 .. (m - 1), j = p * m + y PROVE j % m = y
  BY <1>4
<1>5. CASE x = m - 1
  <2>1. k + 1 \in Nat /\ q + 1 \in Nat /\ 0 \in 0 .. (m - 1) /\ (q + 1) * m = q * m + m
    OBVIOUS
  <2>2. k + 1 = (q + 1) * m + 0
    BY <1>3, <1>5, <2>1
  <2> QED
    BY <1>2, <1>4, <1>5, <2>1, <2>2
<1>6. CASE x # m - 1
  <2>1. k + 1 \in Nat /\ x + 1 \in 0 .. (m - 1) /\ k + 1 = q * m + (x + 1)
    BY <1>3, <1>6
  <2>2. (k + 1) % m = x + 1
    BY <1>4, <2>1
  <2> QED
    BY <1>2, <1>6, <2>2
<1> QED
  BY <1>1, <1>5, <1>6

LEMMA RotateLists ==
  ASSUME NEW q, NEW T, Lists(q, T), NEW k \in Nat
  PROVE  /\ Lists(Rotate(q, k), T)
         /\ q # << >> => Rotate(q, k) # << >> /\ Rotate(q, k)[1] = q[(k % Len(q)) + 1]
<1>1. q \in Seq(Target) /\ Len(q) \in Nat
  BY DEF Lists
<1>2. CASE q = << >>
  BY <1>2 DEF Rotate
<1>3. CASE q # << >>
  <2> DEFINE m == Len(q)
             shift == k % m
             r == SubSeq(q, shift + 1, m) \o SubSeq(q, 1, shift)
  <2>1. m \in Nat \ {0}
    BY <1>1, <1>3
  <2>2. shift \in 0 .. (m - 1)
    BY <2>1, ModFacts
  <2> HIDE DEF shift
  <2>3. /\ SubSeq(q, shift + 1, m) \in Seq(Target) /\ SubSeq(q, 1, shift) \in Seq(Target)
        /\ Len(SubSeq(q, shift + 1, m)) = m - shift /\ Len(SubSeq(q, 1, shift)) = shift
        /\ \A i \in 1 .. (m - shift) : SubSeq(q, shift + 1, m)[i] = q[shift + i]
        /\ \A i \in 1 .. shift : SubSeq(q, 1, shift)[i] = q[i]
    BY <1>1, <2>1, <2>2
  <2>4. /\ r \in Seq(Target) /\ Len(r) = m
        /\ \A i \in 1 .. (m - shift) : r[i] = q[shift + i]
        /\ \A i \in (m - shift + 1) .. m : r[i] = q[i - (m - shift)]
    <3> DEFINE front == SubSeq(q, shift + 1, m)
               back == SubSeq(q, 1, shift)
    <3>1. /\ front \in Seq(Target) /\ back \in Seq(Target) /\ Len(front) = m - shift /\ Len(back) = shift
          /\ \A i \in 1 .. (m - shift) : front[i] = q[shift + i]
          /\ \A i \in 1 .. shift : back[i] = q[i]
      BY <2>3
    <3> HIDE DEF front, back
    <3>2. /\ front \o back \in Seq(Target) /\ Len(front \o back) = m
          /\ \A i \in 1 .. (m - shift) : (front \o back)[i] = front[i]
          /\ \A i \in (m - shift + 1) .. m : (front \o back)[i] = back[i - (m - shift)]
      <4> HIDE DEF m
      <4>1. front \o back \in Seq(Target) /\ Len(front \o back) = Len(front) + Len(back)
        BY <3>1, ConcatProperties
      <4>2. \A i \in 1 .. (m - shift) : (front \o back)[i] = front[i]
        BY <2>1, <2>2, <3>1
      <4>3. \A i \in (m - shift + 1) .. m : (front \o back)[i] = back[i - (m - shift)]
        BY <2>1, <2>2, <3>1
      <4> QED
        BY <2>1, <2>2, <3>1, <4>1, <4>2, <4>3
    <3>3. \A i \in (m - shift + 1) .. m : i - (m - shift) \in 1 .. shift
      BY <2>1, <2>2
    <3>4. r = front \o back
      BY DEF front, back
    <3> QED
      BY <3>1, <3>2, <3>3, <3>4
  <2> HIDE DEF r
  <2>5. /\ \A i, j \in 1 .. m : q[i] = q[j] => i = j
        /\ \A i \in 1 .. m : q[i] \in T
        /\ \A t \in T : \E i \in 1 .. m : q[i] = t
    BY <1>1, ListsMeans
  <2> DEFINE to(i) == IF i <= m - shift THEN shift + i ELSE i - (m - shift)
  <2>6. \A i \in 1 .. m : r[i] = q[to(i)] /\ to(i) \in 1 .. m
    BY <2>1, <2>2, <2>4
  <2>7. \A i, j \in 1 .. m : to(i) = to(j) => i = j
    BY <2>1, <2>2
  <2>8. ASSUME NEW t \in T PROVE \E i \in 1 .. Len(r) : r[i] = t
    <3>1. PICK n \in 1 .. m : q[n] = t
      BY <2>5
    <3> DEFINE i == IF n > shift THEN n - shift ELSE n + (m - shift)
    <3>2. i \in 1 .. m /\ to(i) = n
      BY <2>1, <2>2
    <3> QED
      BY <2>4, <2>6, <3>1, <3>2
  <2>9. ASSUME NEW i \in 1 .. Len(r), NEW j \in 1 .. Len(r), r[i] = r[j] PROVE i = j
    <3> HIDE DEF to
    <3>1. i \in 1 .. m /\ j \in 1 .. m
      BY <2>4
    <3>2. q[to(i)] = q[to(j)] /\ to(i) \in 1 .. m /\ to(j) \in 1 .. m
      BY <2>6, <2>9, <3>1
    <3> QED
      BY <2>5, <2>7, <3>1, <3>2
  <2>10. Lists(r, T)
    <3> HIDE DEF to
    <3> QED
      BY <2>4, <2>5, <2>6, <2>8, <2>9, ListsMeans
  <2>11. r # << >> /\ r[1] = q[shift + 1]
    BY <2>1, <2>2, <2>4
  <2> QED
    BY <1>3, <2>10, <2>11 DEF Rotate, r, shift
<1> QED
  BY <1>2, <1>3

LEMMA ConcatLists ==
  ASSUME NEW p, NEW A, Lists(p, A), NEW q, NEW B, Lists(q, B), A \cap B = {}
  PROVE  /\ Lists(p \o q, A \cup B)
         /\ p # << >> => p \o q # << >> /\ (p \o q)[1] = p[1]
         /\ p = << >> => p \o q = q
<1> DEFINE r == p \o q
           m == Len(p)
           n == Len(q)
<1>1. p \in Seq(Target) /\ q \in Seq(Target) /\ m \in Nat /\ n \in Nat
  BY DEF Lists
<1>2. /\ r \in Seq(Target) /\ Len(r) = m + n
      /\ \A i \in 1 .. m : r[i] = p[i] /\ p[i] \in A
      /\ \A i \in (m + 1) .. (m + n) : r[i] = q[i - m] /\ i - m \in 1 .. n /\ q[i - m] \in B
  BY <1>1, ListsMeans
<1>3. /\ \A i, j \in 1 .. m : p[i] = p[j] => i = j
      /\ \A i, j \in 1 .. n : q[i] = q[j] => i = j
      /\ \A t \in A : \E i \in 1 .. m : p[i] = t
      /\ \A t \in B : \E i \in 1 .. n : q[i] = t
  BY <1>1, ListsMeans
<1> HIDE DEF r, m, n
<1>4. ASSUME NEW i \in 1 .. Len(r), NEW j \in 1 .. Len(r), r[i] = r[j] PROVE i = j
  <2>1. \A k \in 1 .. Len(r) : k \in 1 .. m \/ k \in (m + 1) .. (m + n)
    BY <1>1, <1>2
  <2>2. CASE i \in 1 .. m /\ j \in 1 .. m
    BY <1>2, <1>3, <1>4, <2>2
  <2>3. CASE i \in (m + 1) .. (m + n) /\ j \in (m + 1) .. (m + n)
    <3>1. i - m = j - m
      BY <1>2, <1>3, <1>4, <2>3
    <3> QED
      BY <1>1, <2>3, <3>1
  <2>4. CASE i \in 1 .. m /\ j \in (m + 1) .. (m + n)
    BY <1>2, <1>4, <2>4
  <2>5. CASE j \in 1 .. m /\ i \in (m + 1) .. (m + n)
    BY <1>2, <1>4, <2>5
  <2> QED
    BY <2>1, <2>2, <2>3, <2>4, <2>5
<1>5. ASSUME NEW i \in 1 .. Len(r) PROVE r[i] \in A \cup B
  <2>1. i \in 1 .. m \/ i \in (m + 1) .. (m + n)
    BY <1>1, <1>2
  <2> QED
    BY <1>2, <2>1
<1>6. ASSUME NEW t \in A \cup B PROVE \E i \in 1 .. Len(r) : r[i] = t
  <2>1. CASE t \in A
    <3>1. PICK i \in 1 .. m : p[i] = t
      BY <1>3, <2>1
    <3> QED
      BY <1>1, <1>2, <3>1
  <2>2. CASE t \in B
    <3>1. PICK i \in 1 .. n : q[i] = t
      BY <1>3, <2>2
    <3>2. m + i \in (m + 1) .. (m + n) /\ (m + i) - m = i /\ m + i \in 1 .. Len(r)
      BY <1>1, <1>2
    <3>3. r[m + i] = t
      BY <1>2, <3>1, <3>2
    <3> QED
      BY <3>2, <3>3
  <2> QED
    BY <2>1, <2>2
<1>7. Lists(r, A \cup B)
  BY <1>2, <1>4, <1>5, <1>6, ListsMeans
<1>8. p # << >> => r # << >> /\ r[1] = p[1]
  BY <1>1, <1>2 DEF m
<1>9. p = << >> => r = q
  BY <1>1 DEF r
<1> QED
  BY <1>7, <1>8, <1>9 DEF r

LEMMA ConcatGraded ==
  ASSUME NEW p, NEW A, Lists(p, A), NEW q, NEW B, Lists(q, B), NEW seen,
         Graded(p, seen), Graded(q, seen),
         \A a \in A, b \in B : Rank(seen[a]) <= Rank(seen[b])
  PROVE  Graded(p \o q, seen)
<1> DEFINE r == p \o q
           m == Len(p)
           n == Len(q)
<1>1. p \in Seq(Target) /\ q \in Seq(Target) /\ m \in Nat /\ n \in Nat
  BY DEF Lists
<1>2. /\ r \in Seq(Target) /\ Len(r) = m + n
      /\ \A i \in 1 .. m : r[i] = p[i] /\ p[i] \in A
      /\ \A i \in (m + 1) .. (m + n) : r[i] = q[i - m] /\ i - m \in 1 .. n /\ q[i - m] \in B
  BY <1>1, ListsMeans
<1> HIDE DEF r, m, n
<1>3. ASSUME NEW i \in 1 .. Len(r), NEW j \in 1 .. (i - 1)
      PROVE  Rank(seen[r[j]]) <= Rank(seen[r[i]])
  <2>1. CASE i \in 1 .. m
    <3>1. j \in 1 .. m
      BY <1>1, <2>1
    <3> QED
      BY <1>2, <2>1, <3>1 DEF Graded, m
  <2>2. CASE i \in (m + 1) .. (m + n) /\ j \in 1 .. m
    BY <1>2, <2>2
  <2>3. CASE i \in (m + 1) .. (m + n) /\ j \in (m + 1) .. (m + n)
    <3>1. j - m \in 1 .. ((i - m) - 1) /\ i - m \in 1 .. n
      BY <1>1, <2>3
    <3>2. Rank(seen[q[j - m]]) <= Rank(seen[q[i - m]])
      BY <3>1 DEF Graded, n
    <3> QED
      BY <1>2, <2>3, <3>2
  <2>4. \/ i \in 1 .. m
        \/ i \in (m + 1) .. (m + n) /\ j \in 1 .. m
        \/ i \in (m + 1) .. (m + n) /\ j \in (m + 1) .. (m + n)
    BY <1>1, <1>2
  <2> QED
    BY <2>1, <2>2, <2>3, <2>4
<1> QED
  BY <1>3 DEF Graded, r

\* The targets of one class, and the class that is asked first.
Of(targets, seen, h) == Only(targets, {t \in Target : seen[t] = h})

Leads(h, targets, seen) ==
  /\ h \in Health /\ Of(targets, seen, h) # << >>
  /\ \A t \in Range(targets) : Rank(h) <= Rank(seen[t])

LEMMA OfLists ==
  ASSUME NEW targets, NEW T, Lists(targets, T), NEW seen, NEW h
  PROVE  Lists(Of(targets, seen, h), {t \in T : seen[t] = h})
<1>1. T \subseteq Target
  BY ListsOf
<1>2. T \cap {t \in Target : seen[t] = h} = {t \in T : seen[t] = h}
  BY <1>1
<1>3. Lists(Of(targets, seen, h), T \cap {t \in Target : seen[t] = h})
  BY OnlyLists DEF Of
<1> QED
  BY <1>2, <1>3

LEMMA ListsEmpty == ASSUME NEW q, NEW T, Lists(q, T) PROVE q = << >> <=> T = {}
<1>1. q \in Seq(Target)
  BY DEF Lists
<1>2. q # << >> => q[1] \in T
  BY <1>1, ListsMeans
<1>3. T # {} => q # << >>
  BY <1>1, ListsMeans
<1> QED
  BY <1>2, <1>3

\* Targets of the same health are never out of order.
LEMMA SameGraded ==
  ASSUME NEW q, NEW T, Lists(q, T), NEW seen, NEW h \in Health, \A t \in T : seen[t] = h
  PROVE  Graded(q, seen)
<1>1. \A i \in 1 .. Len(q) : seen[q[i]] = h
  <2>1. q \in Seq(Target)
    BY DEF Lists
  <2>2. \A i \in 1 .. Len(q) : q[i] \in T
    BY <2>1, ListsMeans
  <2> QED
    BY <2>2
<1>2. Rank(h) \in Int
  BY HealthIs
<1>3. Len(q) \in Nat
  BY DEF Lists
<1>4. \A i \in 1 .. Len(q) : \A j \in 1 .. (i - 1) : j \in 1 .. Len(q)
  BY <1>3
<1> QED
  BY <1>1, <1>2, <1>4 DEF Graded

\* A class in the order of one request, among targets that list T.
Turned(targets, seen, h, k) == Rotate(Of(targets, seen, h), k)

ClassIs(targets, T, seen, h, k) ==
  LET class == Of(targets, seen, h)
      turned == Turned(targets, seen, h, k)
      these == {t \in T : seen[t] = h}
  IN /\ Lists(turned, these) /\ Graded(turned, seen)
     /\ class # << >> => turned # << >> /\ turned[1] = class[(k % Len(class)) + 1]
     /\ class = << >> <=> these = {}
     /\ turned = << >> <=> class = << >>

LEMMA ClassFacts ==
  ASSUME NEW targets, NEW T, Lists(targets, T), NEW seen, NEW h \in Health, NEW k \in Nat
  PROVE  ClassIs(targets, T, seen, h, k)
<1> DEFINE class == Of(targets, seen, h)
           turned == Rotate(class, k)
           these == {t \in T : seen[t] = h}
<1>1. Lists(class, these)
  BY OfLists
<1>2. turned = Turned(targets, seen, h, k)
  BY DEF Turned
<1>3. \A t \in these : seen[t] = h
  OBVIOUS
<1> HIDE DEF class, these
<1>4. Lists(turned, these) /\ (class # << >> => turned # << >> /\ turned[1] = class[(k % Len(class)) + 1])
  BY <1>1, RotateLists
<1> HIDE DEF turned
<1>5. Graded(turned, seen)
  BY <1>3, <1>4, SameGraded
<1>6. (class = << >> <=> these = {}) /\ (turned = << >> <=> class = << >>)
  BY <1>1, <1>4, ListsEmpty
<1> QED
  BY <1>2, <1>4, <1>5, <1>6 DEF ClassIs, class, these

LEMMA RankTargetsFacts ==
  ASSUME NEW targets, NEW T, Lists(targets, T), NEW seen \in [Target -> Health], NEW k \in Nat
  PROVE  LET ranked == RankTargets(targets, seen, k)
         IN /\ Lists(ranked, T) /\ Graded(ranked, seen)
            /\ \A h : Leads(h, targets, seen) =>
                 LET class == Of(targets, seen, h)
                 IN ranked # << >> /\ ranked[1] = class[(k % Len(class)) + 1]
<1> DEFINE C(h) == Turned(targets, seen, h, k)
           S(h) == {t \in T : seen[t] = h}
           h1 == "healthy"
           h2 == "degraded"
           h3 == "unknown"
           h4 == "down"
           r2 == C(h1) \o C(h2)
           r3 == r2 \o C(h3)
           r4 == r3 \o C(h4)
<1>1. \A h \in Health :
         LET class == Of(targets, seen, h)
         IN /\ Lists(C(h), S(h)) /\ Graded(C(h), seen)
            /\ class # << >> => C(h) # << >> /\ C(h)[1] = class[(k % Len(class)) + 1]
            /\ class = << >> <=> S(h) = {}
            /\ C(h) = << >> <=> class = << >>
  <2> TAKE h \in Health
  <2>1. ClassIs(targets, T, seen, h, k)
    BY ClassFacts
  <2> QED
    BY <2>1 DEF ClassIs
<1>2. T \subseteq Target /\ Range(targets) = T
  BY ListsOf
<1>3. RankTargets(targets, seen, k) = r4
  BY DEF RankTargets, HealthOrder, Turned, Of
<1>4. /\ \A t \in T : seen[t] \in Health
      /\ \A g, h : g # h => S(g) \cap S(h) = {}
      /\ \A h \in Health : \A t \in S(h) : seen[t] = h
  BY <1>2
<1> HIDE DEF C
<1>5. T = ((S(h1) \cup S(h2)) \cup S(h3)) \cup S(h4)
  BY <1>4, HealthIs
<1>6. h1 \in Health /\ h2 \in Health /\ h3 \in Health /\ h4 \in Health
  BY HealthIs
<1>7. /\ Lists(r2, S(h1) \cup S(h2)) /\ Graded(r2, seen)
      /\ (C(h1) # << >> => r2 # << >> /\ r2[1] = C(h1)[1]) /\ (C(h1) = << >> => r2 = C(h2))
  <2>1. Lists(C(h1), S(h1)) /\ Lists(C(h2), S(h2)) /\ Graded(C(h1), seen) /\ Graded(C(h2), seen)
    BY <1>1, <1>6
  <2>2. S(h1) \cap S(h2) = {} /\ \A a \in S(h1), b \in S(h2) : Rank(seen[a]) <= Rank(seen[b])
    BY <1>4, HealthIs
  <2> HIDE DEF S, h1, h2
  <2> QED
    BY <2>1, <2>2, ConcatLists, ConcatGraded
<1>8. /\ Lists(r3, (S(h1) \cup S(h2)) \cup S(h3)) /\ Graded(r3, seen)
      /\ (r2 # << >> => r3 # << >> /\ r3[1] = r2[1]) /\ (r2 = << >> => r3 = C(h3))
  <2>1. Lists(C(h3), S(h3)) /\ Graded(C(h3), seen)
    BY <1>1, <1>6
  <2>2. /\ (S(h1) \cup S(h2)) \cap S(h3) = {}
        /\ \A a \in S(h1) \cup S(h2), b \in S(h3) : Rank(seen[a]) <= Rank(seen[b])
    BY <1>4, HealthIs
  <2> HIDE DEF S, h1, h2, h3, r2
  <2> QED
    BY <1>7, <2>1, <2>2, ConcatLists, ConcatGraded
<1>9. /\ Lists(r4, T) /\ Graded(r4, seen)
      /\ (r3 # << >> => r4 # << >> /\ r4[1] = r3[1]) /\ (r3 = << >> => r4 = C(h4))
  <2>1. Lists(C(h4), S(h4)) /\ Graded(C(h4), seen)
    BY <1>1, <1>6
  <2>2. /\ ((S(h1) \cup S(h2)) \cup S(h3)) \cap S(h4) = {}
        /\ \A a \in (S(h1) \cup S(h2)) \cup S(h3), b \in S(h4) : Rank(seen[a]) <= Rank(seen[b])
    BY <1>4, HealthIs
  <2> HIDE DEF S, h1, h2, h3, h4, r2, r3
  <2> QED
    BY <1>5, <1>8, <2>1, <2>2, ConcatLists, ConcatGraded
<1>10. ASSUME NEW h, Leads(h, targets, seen)
       PROVE  r4 # << >> /\ r4[1] = C(h)[1] /\ C(h) # << >>
  <2>1. h \in Health /\ C(h) # << >> /\ \A t \in T : Rank(h) <= Rank(seen[t])
    BY <1>1, <1>2, <1>10 DEF Leads
  <2>2. \A g \in Health : Rank(g) < Rank(h) => C(g) = << >>
    <3>1. ASSUME NEW g \in Health, Rank(g) < Rank(h) PROVE S(g) = {}
      <4>1. Rank(g) \in Int /\ Rank(h) \in Int
        BY <2>1, HealthIs
      <4> QED
        BY <2>1, <3>1, <4>1
    <3> QED
      BY <1>1, <3>1
  <2> HIDE DEF r2, r3, r4, S
  <2>3. CASE h = h1
    BY <1>7, <1>8, <1>9, <2>1, <2>3
  <2>4. CASE h = h2
    <3>1. C(h1) = << >>
      BY <2>2, <2>4, HealthIs
    <3> QED
      BY <1>7, <1>8, <1>9, <2>1, <2>4, <3>1
  <2>5. CASE h = h3
    <3>1. C(h1) = << >> /\ C(h2) = << >>
      BY <2>2, <2>5, HealthIs
    <3> QED
      BY <1>7, <1>8, <1>9, <2>1, <2>5, <3>1
  <2>6. CASE h = h4
    <3>1. C(h1) = << >> /\ C(h2) = << >> /\ C(h3) = << >>
      BY <2>2, <2>6, HealthIs
    <3> QED
      BY <1>7, <1>8, <1>9, <2>1, <2>6, <3>1
  <2> QED
    BY <2>1, <2>3, <2>4, <2>5, <2>6, HealthIs
<1>11. ASSUME NEW h, Leads(h, targets, seen)
       PROVE  r4 # << >> /\ r4[1] = Of(targets, seen, h)[(k % Len(Of(targets, seen, h))) + 1]
  <2>1. h \in Health /\ Of(targets, seen, h) # << >>
    BY <1>11 DEF Leads
  <2> HIDE DEF r4
  <2> QED
    BY <1>1, <1>10, <1>11, <2>1
<1> QED
  <2> HIDE DEF r4
  <2> QED
    BY <1>3, <1>9, <1>11

\* A list of targets has a class that leads.
LEMMA SomeClassLeads ==
  ASSUME NEW targets, NEW T, Lists(targets, T), T # {}, NEW seen \in [Target -> Health]
  PROVE  \E h : Leads(h, targets, seen)
<1>1. T \subseteq Target /\ Range(targets) = T
  BY ListsOf
<1>2. ASSUME NEW h \in Health
      PROVE  Of(targets, seen, h) = << >> <=> {t \in T : seen[t] = h} = {}
  <2> DEFINE class == Of(targets, seen, h)
             these == {t \in T : seen[t] = h}
  <2>1. Lists(class, these)
    BY OfLists
  <2> HIDE DEF class, these
  <2>2. class = << >> <=> these = {}
    BY <2>1, ListsEmpty
  <2> QED
    BY <2>2 DEF class, these
<1>3. PICK t \in T : \A u \in T : Rank(seen[t]) <= Rank(seen[u])
  <2>1. \A t \in T : seen[t] \in Health
    BY <1>1
  <2> DEFINE there(h) == \E t \in T : seen[t] = h
  <2>2. there("healthy") \/ there("degraded") \/ there("unknown") \/ there("down")
    BY <2>1, HealthIs
  <2>3. CASE there("healthy")
    BY <2>1, <2>3, HealthIs
  <2>4. CASE ~there("healthy") /\ there("degraded")
    BY <2>1, <2>4, HealthIs
  <2>5. CASE ~there("healthy") /\ ~there("degraded") /\ there("unknown")
    BY <2>1, <2>5, HealthIs
  <2>6. CASE ~there("healthy") /\ ~there("degraded") /\ ~there("unknown") /\ there("down")
    BY <2>1, <2>6, HealthIs
  <2> QED
    BY <2>2, <2>3, <2>4, <2>5, <2>6
<1>4. Leads(seen[t], targets, seen)
  <2>1. seen[t] \in Health /\ t \in {u \in T : seen[u] = seen[t]}
    BY <1>1
  <2> QED
    BY <1>1, <1>2, <1>3, <2>1 DEF Leads
<1> QED
  BY <1>4

----------------------------------------------------------------------------
(* The gateway.                                                            *)

Piece == [by : Target, status : {"ok", "failed"}, part : {"whole", "first", "last"}]
Found == [model : Offered, chain : Seq(Target), seen : [Target -> Health]]
Status == {"none", "unknown", "noTargets", "unauthorized", "badRequest", "noUpstream", "ok", "refused",
           "unknownConversation", "notVision", "tooLarge"}

GatewayTypes ==
  /\ served \in Offered \cup {NoModel} /\ rr \in Nat /\ moves \in 0..MaxMoves
  /\ node \in [Target -> [health : Health, host : BOOLEAN]]
  /\ at \in [Request -> Phase] /\ route \in [Request -> Found \cup {NoRoute}]
  /\ tried \in [Request -> Seq(Target)] /\ heard \in [Request -> Seq(Piece)]
  /\ reply \in [Request -> Status] /\ firsts \in [Target -> Nat] /\ seconds \in [Target -> Nat]

\* What has been tried and what is still to try is the whole ranked chain.
OnChain(found, list) ==
  LET all == list \o found.chain
  IN Lists(all, Range(found.model.targets)) /\ Graded(all, found.seen)

\* A request in phase a with the route found, the targets of list behind it and the answer s.
OnRoute(a, found, list, s) ==
  /\ a = "new" => found = NoRoute /\ list = << >>
  /\ a \in {"warming", "asking", "waiting"} \cup Reading => found # NoRoute
  /\ a = "warming" => list = << >>
  /\ a \in {"waiting"} \cup Reading => list # << >>
  /\ a # "done" => s = "none"
  /\ s = "noUpstream" /\ found # NoRoute => found.chain = << >>
  /\ found # NoRoute => OnChain(found, list)

AllOnRoute == \A r \in Request : OnRoute(at[r], route[r], tried[r], reply[r])

\* How many turns ago, of a class of m, the i-th was first, when the k-th is next.
Behind(k, i, m) == IF i < k THEN k - 1 - i ELSE k - 1 - i + m

\* Each of a class was first b times, and the last d were once more.
Even(class, counts, k) ==
  LET m == Len(class)
  IN \E b \in Nat, d \in 0 .. (m - 1) :
       \A i \in 1 .. m : counts[class[i]] = b + (IF Behind(k % m, i - 1, m) < d THEN 1 ELSE 0)

InTurn(targets, seen, counts, k) ==
  \A h : Leads(h, targets, seen) =>
    LET class == Of(targets, seen, h)
    IN Even(class, counts, k) /\ \A t \in Target \ Range(class) : counts[t] = 0

GatewayInv ==
  /\ GatewayTypes /\ AllOnRoute
  /\ served # NoModel => InTurn(served.targets, Seen, firsts, rr)

LEMMA OfferedFacts ==
  ASSUME NEW m \in Offered
  PROVE  m # NoModel /\ m \in Model /\ Lists(m.targets, Range(m.targets)) /\ m.targets \in Seq(Target)
<1>1. m # NoModel /\ m \in Model
  BY GatewayConstants
<1>2. m.targets \in Chains
  BY <1>1 DEF Model
<1>3. Cardinality(Target) \in Nat
  BY GatewayConstants, FS_CardinalityType
<1>4. PICK n \in 0..Cardinality(Target) : m.targets \in [1..n -> Target]
  BY <1>2 DEF Chains
<1>5. n \in Nat /\ m.targets \in Seq(Target)
  BY <1>3, <1>4
<1> QED
  BY <1>1, <1>2, <1>5 DEF Chains, Lists

LEMMA ResolveFacts ==
  ASSUME NEW m \in Offered, NEW k \in Nat, node \in [Target -> [health : Health, host : BOOLEAN]]
  PROVE  LET found == Resolve(m, k)
         IN /\ found \in Found /\ found # NoRoute /\ OnChain(found, << >>) /\ found.model = m
            /\ \A h : Leads(h, m.targets, Seen) =>
                 LET class == Of(m.targets, Seen, h)
                 IN found.chain # << >> /\ found.chain[1] = class[(k % Len(class)) + 1]
            /\ m.targets = << >> => found.chain = << >>
<1> DEFINE ranked == RankTargets(m.targets, Seen, k)
           T == Range(m.targets)
<1>1. Lists(m.targets, T) /\ m # NoModel
  BY OfferedFacts
<1>2. Seen \in [Target -> Health]
  BY DEF Seen
<1> HIDE DEF T
<1>3. /\ Lists(ranked, T) /\ Graded(ranked, Seen)
      /\ \A h : Leads(h, m.targets, Seen) =>
           LET class == Of(m.targets, Seen, h)
           IN ranked # << >> /\ ranked[1] = class[(k % Len(class)) + 1]
  BY <1>1, <1>2, RankTargetsFacts
<1>4. Resolve(m, k) = [model |-> m, chain |-> ranked, seen |-> Seen]
  BY DEF Resolve
<1> HIDE DEF ranked
<1>5. ranked \in Seq(Target) /\ << >> \o ranked = ranked
  BY <1>3 DEF Lists
<1>6. m.targets = << >> => ranked = << >>
  BY <1>1, <1>3, ListsEmpty
<1> QED
  BY <1>1, <1>2, <1>3, <1>4, <1>5, <1>6 DEF OnChain, Found, NoRoute, T

\* Nobody has been first yet.
LEMMA UntouchedInTurn ==
  ASSUME NEW targets, NEW T, Lists(targets, T), NEW seen, NEW k \in Nat
  PROVE  InTurn(targets, seen, Untouched, k)
<1> SUFFICES ASSUME NEW h, Leads(h, targets, seen)
             PROVE  LET class == Of(targets, seen, h)
                    IN Even(class, Untouched, k) /\ \A t \in Target \ Range(class) : Untouched[t] = 0
  BY DEF InTurn
<1> DEFINE class == Of(targets, seen, h)
           m == Len(class)
<1>1. class # << >> /\ Lists(class, {t \in T : seen[t] = h})
  BY OfLists DEF Leads
<1> HIDE DEF class
<1>2. class \in Seq(Target) /\ m \in Nat \ {0}
  BY <1>1 DEF Lists
<1>3. \A i \in 1 .. m : Untouched[class[i]] = 0
  BY <1>2 DEF Untouched
<1>4. 0 \in Nat /\ 0 \in 0 .. (m - 1)
  BY <1>2
<1>5. \A i \in 1 .. m : ~(Behind(k % m, i - 1, m) < 0)
  <2>1. k % m \in 0 .. (m - 1)
    BY <1>2, ModFacts
  <2> QED
    BY <1>2, <2>1 DEF Behind
<1>6. \A i \in 1 .. m : Untouched[class[i]] = 0 + (IF Behind(k % m, i - 1, m) < 0 THEN 1 ELSE 0)
  BY <1>3, <1>5
<1>7. Even(class, Untouched, k)
  BY <1>4, <1>6 DEF Even
<1> QED
  BY <1>7 DEF class, Untouched

\* The one whose turn it is is first once more.
LEMMA NextInTurn ==
  ASSUME NEW class, NEW C, Lists(class, C), class # << >>, NEW counts \in [Target -> Nat],
         NEW k \in Nat, Even(class, counts, k),
         NEW now, now = [counts EXCEPT ![class[(k % Len(class)) + 1]] = @ + 1]
  PROVE  Even(class, now, k + 1)
<1> DEFINE m == Len(class)
           p == k % m
<1>1. class \in Seq(Target) /\ m \in Nat \ {0}
  BY DEF Lists
<1>2. p \in 0 .. (m - 1) /\ (k + 1) % m = IF p = m - 1 THEN 0 ELSE p + 1
  BY <1>1, ModFacts
<1>3. PICK b \in Nat, d \in 0 .. (m - 1) :
        \A i \in 1 .. m : counts[class[i]] = b + (IF Behind(p, i - 1, m) < d THEN 1 ELSE 0)
  BY DEF Even
<1> DEFINE q == (k + 1) % m
           c == IF d = m - 1 THEN b + 1 ELSE b
           e == IF d = m - 1 THEN 0 ELSE d + 1
<1>4. now = [counts EXCEPT ![class[p + 1]] = @ + 1]
  OBVIOUS
<1>5. \A i \in 1 .. m : class[i] \in Target /\ (i # p + 1 => class[i] # class[p + 1])
  <2>1. \A i, j \in 1 .. m : class[i] = class[j] => i = j
    BY <1>1, ListsMeans
  <2>2. p + 1 \in 1 .. m
    BY <1>1, <1>2
  <2> HIDE DEF p
  <2> QED
    BY <1>1, <2>1, <2>2
<1> HIDE DEF m, p, q
<1>6. q \in 0 .. (m - 1) /\ q = IF p = m - 1 THEN 0 ELSE p + 1
  BY <1>1, <1>2 DEF q, p
<1>7. ASSUME NEW i \in 1 .. m
      PROVE  now[class[i]] = c + (IF Behind(q, i - 1, m) < e THEN 1 ELSE 0)
  <2> DEFINE old == Behind(p, i - 1, m)
             new == Behind(q, i - 1, m)
  <2>1. old \in 0 .. (m - 1) /\ new \in 0 .. (m - 1)
    BY <1>1, <1>2, <1>6 DEF Behind
  <2>2. i = p + 1 => new = 0 /\ old = m - 1
    BY <1>1, <1>2, <1>6 DEF Behind
  <2>3. i # p + 1 => new = old + 1
    BY <1>1, <1>2, <1>6 DEF Behind
  <2>4. counts[class[i]] = b + (IF old < d THEN 1 ELSE 0)
    BY <1>3
  <2> HIDE DEF old, new
  <2>5. CASE i = p + 1
    <3>1. now[class[i]] = counts[class[i]] + 1
      BY <1>4, <1>5, <2>5
    <3>2. ~(old < d)
      BY <1>1, <2>2, <2>5
    <3>3. now[class[i]] = b + 1
      BY <2>4, <3>1, <3>2
    <3>4. IF d = m - 1 THEN ~(new < e) ELSE new < e
      BY <1>1, <2>2, <2>5
    <3> QED
      BY <3>3, <3>4 DEF new
  <2>6. CASE i # p + 1
    <3>1. now[class[i]] = counts[class[i]]
      BY <1>4, <1>5, <2>6
    <3>2. CASE d = m - 1
      <4>1. old < d /\ ~(new < e)
        BY <1>1, <2>1, <2>3, <2>6, <3>2
      <4> QED
        BY <2>4, <3>1, <3>2, <4>1 DEF new
    <3>3. CASE d # m - 1
      <4>1. old < d <=> new < e
        BY <1>1, <2>1, <2>3, <2>6, <3>3
      <4> QED
        BY <2>4, <3>1, <3>3, <4>1 DEF new
    <3> QED
      BY <3>2, <3>3
  <2> QED
    BY <2>5, <2>6
<1>8. c \in Nat /\ e \in 0 .. (m - 1)
  BY <1>1
<1> HIDE DEF c, e
<1> QED
  BY <1>7, <1>8 DEF Even, m, q

LEMMA PhaseIs ==
  /\ Reading = {"ok", "refused", "failed"}
  /\ Phase = {"new", "warming", "asking", "waiting", "ok", "refused", "failed", "done", "lost"}
BY DEF Reading, Phase

\* One request moves and nothing else.
LEMMA OneMoves ==
  ASSUME GatewayInv, NEW r \in Request, UNCHANGED <<served, node, rr, firsts, moves>>,
         seconds' \in [Target -> Nat],
         NEW a \in Phase, at' = [at EXCEPT ![r] = a],
         NEW found \in Found \cup {NoRoute}, route' = [route EXCEPT ![r] = found],
         NEW list \in Seq(Target), tried' = [tried EXCEPT ![r] = list],
         NEW chunks \in Seq(Piece), heard' = [heard EXCEPT ![r] = chunks],
         NEW s \in Status, reply' = [reply EXCEPT ![r] = s],
         OnRoute(a, found, list, s)
  PROVE  GatewayInv'
<1>1. GatewayTypes'
  BY DEF GatewayInv, GatewayTypes
<1>2. AllOnRoute'
  <2> SUFFICES ASSUME NEW q \in Request PROVE OnRoute(at'[q], route'[q], tried'[q], reply'[q])
    BY DEF AllOnRoute
  <2>1. CASE q = r
    BY <2>1 DEF GatewayInv, GatewayTypes
  <2>2. CASE q # r
    <3>1. at'[q] = at[q] /\ route'[q] = route[q] /\ tried'[q] = tried[q] /\ reply'[q] = reply[q]
      BY <2>2 DEF GatewayInv, GatewayTypes
    <3> QED
      BY <3>1 DEF GatewayInv, AllOnRoute
  <2> QED
    BY <2>1, <2>2
<1>3. Seen' = Seen
  BY DEF Seen
<1> QED
  BY <1>1, <1>2, <1>3 DEF GatewayInv

LEMMA Same == ASSUME NEW S, NEW f \in [Request -> S], NEW r \in Request PROVE f = [f EXCEPT ![r] = f[r]]
OBVIOUS

\* What the invariant says of one request.
LEMMA OfRequest ==
  ASSUME GatewayInv, NEW r \in Request
  PROVE  /\ at[r] \in Phase /\ route[r] \in Found \cup {NoRoute} /\ tried[r] \in Seq(Target)
         /\ heard[r] \in Seq(Piece) /\ reply[r] \in Status /\ seconds \in [Target -> Nat]
         /\ OnRoute(at[r], route[r], tried[r], reply[r])
         /\ at = [at EXCEPT ![r] = at[r]] /\ route = [route EXCEPT ![r] = route[r]]
         /\ tried = [tried EXCEPT ![r] = tried[r]] /\ heard = [heard EXCEPT ![r] = heard[r]]
         /\ reply = [reply EXCEPT ![r] = reply[r]]
<1>1. /\ at \in [Request -> Phase] /\ route \in [Request -> Found \cup {NoRoute}]
      /\ tried \in [Request -> Seq(Target)] /\ heard \in [Request -> Seq(Piece)]
      /\ reply \in [Request -> Status] /\ seconds \in [Target -> Nat] /\ AllOnRoute
  BY DEF GatewayInv, GatewayTypes
<1>2. /\ at = [at EXCEPT ![r] = at[r]] /\ route = [route EXCEPT ![r] = route[r]]
      /\ tried = [tried EXCEPT ![r] = tried[r]] /\ heard = [heard EXCEPT ![r] = heard[r]]
      /\ reply = [reply EXCEPT ![r] = reply[r]]
  BY <1>1, Same
<1> QED
  BY <1>1, <1>2 DEF AllOnRoute

LEMMA CloseInv ==
  ASSUME GatewayInv, NEW r \in Request, NEW s \in Status \ {"none"}, Close(r, s),
         s = "noUpstream" => route[r].chain = << >>,
         UNCHANGED <<served, node, rr, firsts, seconds, moves>>
  PROVE  GatewayInv'
<1>1. OnRoute("done", route[r], tried[r], s)
  BY OfRequest DEF OnRoute, Reading
<1>2. at' = [at EXCEPT ![r] = "done"] /\ reply' = [reply EXCEPT ![r] = s] /\ "done" \in Phase /\ s \in Status
  BY PhaseIs DEF Close
<1>3. /\ route' = [route EXCEPT ![r] = route[r]] /\ tried' = [tried EXCEPT ![r] = tried[r]]
      /\ heard' = [heard EXCEPT ![r] = heard[r]]
  BY OfRequest DEF Close
<1> QED
  BY <1>1, <1>2, <1>3, OfRequest, OneMoves

LEMMA BeginInv ==
  ASSUME GatewayInv, NEW r \in Request, at[r] = "new", Begin(r), UNCHANGED <<served, node, moves>>
  PROVE  GatewayInv'
<1>1. CASE served = NoModel /\ Close(r, "unknown") /\ UNCHANGED <<rr, firsts, seconds>>
  BY <1>1, CloseInv DEF Status
<1>2. CASE /\ served # NoModel /\ served.targets = <<>> /\ ~served.onDemand
           /\ Close(r, "noTargets") /\ UNCHANGED <<rr, firsts, seconds>>
  BY <1>2, CloseInv DEF Status
<1> DEFINE found == Resolve(served, rr)
           warm == served.onDemand /\ AllDown(found.chain)
           a == IF warm THEN "warming" ELSE "asking"
           now == Headed(firsts, found.chain)
<1>3. CASE /\ served # NoModel /\ (served.targets # <<>> \/ served.onDemand)
           /\ at' = [at EXCEPT ![r] = a] /\ route' = [route EXCEPT ![r] = found]
           /\ firsts' = now /\ rr' = rr + 1 /\ UNCHANGED <<tried, heard, reply, seconds>>
  <2>1. /\ served \in Offered /\ rr \in Nat /\ firsts \in [Target -> Nat]
        /\ node \in [Target -> [health : Health, host : BOOLEAN]]
        /\ InTurn(served.targets, Seen, firsts, rr)
    BY <1>3 DEF GatewayInv, GatewayTypes
  <2>2. /\ found \in Found /\ found # NoRoute /\ OnChain(found, << >>)
        /\ \A h : Leads(h, served.targets, Seen) =>
             LET class == Of(served.targets, Seen, h)
             IN found.chain # << >> /\ found.chain[1] = class[(rr % Len(class)) + 1]
        /\ served.targets = << >> => found.chain = << >>
    BY <2>1, ResolveFacts
  <2>4. at[r] = "new" /\ tried[r] = << >> /\ reply[r] = "none"
    BY OfRequest DEF OnRoute
  <2> HIDE DEF found, warm
  <2>5. OnRoute(a, found, tried[r], reply[r])
    BY <2>2, <2>4 DEF OnRoute, Reading
  <2>6. a \in Phase
    BY PhaseIs
  <2>7. /\ Lists(served.targets, Range(served.targets)) /\ served.targets \in Seq(Target)
    BY <2>1, OfferedFacts
  <2>8. now \in [Target -> Nat] /\ InTurn(served.targets, Seen, now, rr + 1)
    <3>1. CASE served.targets = << >>
      <4>1. now = firsts
        BY <2>2, <3>1 DEF Headed
      <4>2. Range(served.targets) = {}
        BY <2>7, <3>1, ListsEmpty
      <4>3. ASSUME NEW h PROVE ~Leads(h, served.targets, Seen)
        <5>1. Lists(Of(served.targets, Seen, h), {})
          <6>1. Lists(Of(served.targets, Seen, h), {t \in Range(served.targets) : Seen[t] = h})
            BY <2>7, OfLists
          <6>2. {t \in Range(served.targets) : Seen[t] = h} = {}
            BY <4>2
          <6> QED
            BY <6>1, <6>2
        <5> QED
          BY <5>1, ListsEmpty DEF Leads
      <4> QED
        BY <2>1, <4>1, <4>3 DEF InTurn
    <3>2. CASE served.targets # << >>
      <4>2. Range(served.targets) # {}
        BY <2>7, <3>2, ListsEmpty
      <4>3. Seen \in [Target -> Health]
        BY <2>1 DEF Seen
      <4>4. PICK g : Leads(g, served.targets, Seen)
        BY <2>7, <4>2, <4>3, SomeClassLeads
      <4>5. ASSUME NEW h, Leads(h, served.targets, Seen)
            PROVE  LET class == Of(served.targets, Seen, h)
                   IN /\ now \in [Target -> Nat] /\ Even(class, now, rr + 1)
                      /\ \A t \in Target \ Range(class) : now[t] = 0
        <5> DEFINE class == Of(served.targets, Seen, h)
                   C == {t \in Range(served.targets) : Seen[t] = h}
                   p == (rr % Len(class)) + 1
        <5>1. Lists(class, C) /\ class # << >>
          BY <2>7, <4>5, OfLists DEF Leads
        <5>2. found.chain # << >> /\ found.chain[1] = class[p]
          BY <2>2, <4>5
        <5>3. Even(class, firsts, rr) /\ \A t \in Target \ Range(class) : firsts[t] = 0
          BY <2>1, <4>5 DEF InTurn
        <5> HIDE DEF class, C
        <5>4. now = [firsts EXCEPT ![class[p]] = @ + 1]
          BY <5>2 DEF Headed
        <5>5. class \in Seq(Target) /\ Len(class) \in Nat \ {0} /\ Range(class) = C
          BY <5>1 DEF Lists
        <5>6. p \in 1 .. Len(class)
          <6> DEFINE m == Len(class)
          <6>1. m \in Nat \ {0} /\ rr \in Nat
            BY <2>1, <5>5
          <6> HIDE DEF m
          <6>2. rr % m \in 0 .. (m - 1)
            BY <6>1, ModFacts
          <6>3. (rr % m) + 1 \in 1 .. m
            BY <6>1, <6>2
          <6> QED
            BY <6>3 DEF m
        <5>7. Even(class, now, rr + 1)
          <6> HIDE DEF now
          <6> QED
            BY <2>1, <5>1, <5>3, <5>4, NextInTurn
        <5> HIDE DEF now, p
        <5>8. class[p] \in Range(class) /\ class[p] \in Target
          BY <5>5, <5>6 DEF Range
        <5>9. now \in [Target -> Nat] /\ \A t \in Target \ Range(class) : now[t] = 0
          BY <2>1, <5>3, <5>4, <5>8
        <5> QED
          BY <5>7, <5>9 DEF class
      <4> HIDE DEF now
      <4> QED
        BY <4>4, <4>5 DEF InTurn
    <3> QED
      BY <3>1, <3>2
  <2> HIDE DEF a, now
  <2>9. GatewayTypes'
    <3>1. rr' \in Nat /\ firsts' \in [Target -> Nat] /\ seconds' \in [Target -> Nat]
      BY <1>3, <2>1, <2>8 DEF GatewayInv, GatewayTypes
    <3>2. at' \in [Request -> Phase] /\ route' \in [Request -> Found \cup {NoRoute}]
      BY <1>3, <2>2, <2>6 DEF GatewayInv, GatewayTypes
    <3> QED
      BY <1>3, <3>1, <3>2 DEF GatewayInv, GatewayTypes
  <2>10. AllOnRoute'
    <3> SUFFICES ASSUME NEW q \in Request PROVE OnRoute(at'[q], route'[q], tried'[q], reply'[q])
      BY DEF AllOnRoute
    <3>1. CASE q = r
      BY <1>3, <2>5, <3>1 DEF GatewayInv, GatewayTypes
    <3>2. CASE q # r
      <4>1. at'[q] = at[q] /\ route'[q] = route[q] /\ tried'[q] = tried[q] /\ reply'[q] = reply[q]
        BY <1>3, <3>2 DEF GatewayInv, GatewayTypes
      <4> QED
        BY <4>1 DEF GatewayInv, AllOnRoute
    <3> QED
      BY <3>1, <3>2
  <2>11. Seen' = Seen
    BY DEF Seen
  <2> QED
    BY <1>3, <2>8, <2>9, <2>10, <2>11 DEF GatewayInv
<1> QED
  BY <1>1, <1>2, <1>3 DEF Begin

LEMMA NextOfChain ==
  ASSUME NEW p \in Seq(Target), NEW q \in Seq(Target), q # << >>
  PROVE  Append(p, Head(q)) \o Tail(q) = p \o q /\ Append(p, Head(q)) \in Seq(Target)
         /\ Append(p, Head(q)) # << >> /\ Tail(q) \in Seq(Target) /\ Head(q) \in Target
<1>1. Head(q) \in Target /\ Tail(q) \in Seq(Target) /\ q = <<Head(q)>> \o Tail(q)
  BY HeadTailProperties
<1>2. Append(p, Head(q)) = p \o <<Head(q)>> /\ Append(p, Head(q)) \in Seq(Target) /\ Append(p, Head(q)) # << >>
  BY <1>1, AppendIsConcat, AppendProperties
<1>3. (p \o <<Head(q)>>) \o Tail(q) = p \o (<<Head(q)>> \o Tail(q))
  BY <1>1, ConcatAssociative
<1> QED
  BY <1>1, <1>2, <1>3

LEMMA WarmedInv ==
  ASSUME GatewayInv, NEW r \in Request, Warmed(r)
  PROVE  GatewayInv'
<1>1. at[r] = "warming" /\ at' = [at EXCEPT ![r] = "asking"] /\ "asking" \in Phase
  BY PhaseIs DEF Warmed
<1>2. /\ route[r] # NoRoute /\ route[r] \in Found /\ tried[r] = << >> /\ reply[r] = "none"
      /\ OnChain(route[r], tried[r])
  BY <1>1, OfRequest DEF OnRoute
<1>3. CASE UNCHANGED <<route, seconds>>
  <2>1. OnRoute("asking", route[r], tried[r], reply[r]) /\ route' = [route EXCEPT ![r] = route[r]]
    BY <1>2, <1>3, OfRequest DEF OnRoute, Reading
  <2>2. seconds' \in [Target -> Nat]
    BY <1>3, OfRequest
  <2>3. UNCHANGED <<served, node, rr, tried, heard, reply, firsts, moves>>
    BY DEF Warmed
  <2> QED
    BY <1>1, <2>1, <2>2, <2>3, OfRequest, OneMoves
<1> DEFINE fresh == Resolve(route[r].model, rr)
<1>4. CASE route' = [route EXCEPT ![r] = fresh] /\ seconds' = Headed(seconds, fresh.chain)
  <2>1. fresh \in Found /\ fresh # NoRoute /\ OnChain(fresh, << >>)
    <3>1. route[r].model \in Offered /\ rr \in Nat /\ node \in [Target -> [health : Health, host : BOOLEAN]]
      BY <1>2 DEF Found, GatewayInv, GatewayTypes
    <3> QED
      BY <3>1, ResolveFacts
  <2> HIDE DEF fresh
  <2>2. OnRoute("asking", fresh, tried[r], reply[r])
    BY <1>2, <2>1 DEF OnRoute, Reading
  <2>3. seconds' \in [Target -> Nat]
    <3>1. fresh.chain \in Seq(Target) /\ seconds \in [Target -> Nat]
      BY <2>1, OfRequest DEF Found
    <3>2. CASE fresh.chain = << >>
      BY <1>4, <3>1, <3>2 DEF Headed
    <3>3. CASE fresh.chain # << >>
      <4>1. fresh.chain[1] \in Target
        BY <3>1, <3>3
      <4> QED
        BY <1>4, <3>1, <3>3, <4>1 DEF Headed
    <3> QED
      BY <3>2, <3>3
  <2> QED
    BY <1>1, <1>4, <2>1, <2>2, <2>3, OfRequest, OneMoves DEF Warmed
<1> QED
  BY <1>3, <1>4 DEF Warmed

LEMMA TryInv ==
  ASSUME GatewayInv, NEW r \in Request, Try(r)
  PROVE  GatewayInv'
<1> DEFINE chain == route[r].chain
           t == Head(chain)
           found == [route[r] EXCEPT !.chain = Tail(@)]
           list == Append(tried[r], t)
           a == IF node[t].host THEN "waiting" ELSE "asking"
<1>1. /\ at[r] = "asking" /\ chain # << >> /\ tried' = [tried EXCEPT ![r] = list]
      /\ at' = [at EXCEPT ![r] = a] /\ route' = [route EXCEPT ![r] = found]
  BY DEF Try
<1>2. /\ route[r] \in Found /\ route[r] # NoRoute /\ tried[r] \in Seq(Target) /\ reply[r] = "none"
      /\ OnChain(route[r], tried[r])
  BY <1>1, OfRequest DEF OnRoute
<1>3. chain \in Seq(Target)
  BY <1>2 DEF Found
<1>4. list \o Tail(chain) = tried[r] \o chain /\ list \in Seq(Target) /\ list # << >> /\ Tail(chain) \in Seq(Target)
  BY <1>1, <1>2, <1>3, NextOfChain
<1>5. /\ found \in Found /\ found.model = route[r].model /\ found.seen = route[r].seen
      /\ found.chain = Tail(chain)
  BY <1>2, <1>4 DEF Found
<1>6. found # NoRoute
  BY <1>2, <1>5, OfferedFacts DEF Found, NoRoute
<1> HIDE DEF chain, found, list, a
<1>7. OnChain(found, list)
  BY <1>2, <1>4, <1>5 DEF OnChain, chain
<1>8. a \in {"asking", "waiting"} /\ a \in Phase
  BY PhaseIs DEF a
<1>9. OnRoute(a, found, list, reply[r])
  BY <1>2, <1>4, <1>6, <1>7, <1>8 DEF OnRoute, Reading
<1> QED
  BY <1>1, <1>4, <1>5, <1>8, <1>9, OfRequest, OneMoves DEF Try

LEMMA EngineFacts ==
  ASSUME GatewayInv, NEW r \in Request, at[r] \in {"waiting"} \cup Reading
  PROVE  /\ route[r] # NoRoute /\ tried[r] # << >> /\ reply[r] = "none" /\ Engine(r) \in Target
         /\ \A a \in {"asking", "waiting"} \cup Reading :
              a \in Phase /\ OnRoute(a, route[r], tried[r], reply[r])
<1>1. /\ tried[r] # << >> /\ tried[r] \in Seq(Target) /\ reply[r] = "none" /\ route[r] # NoRoute
      /\ OnChain(route[r], tried[r])
  BY OfRequest DEF OnRoute, Reading
<1>2. Engine(r) \in Target
  BY <1>1 DEF Engine
<1> QED
  BY <1>1, <1>2, PhaseIs DEF OnRoute

LEMMA ReadingInv ==
  ASSUME GatewayInv, NEW r \in Request, Headers(r) \/ AnswerBreaks(r) \/ Chunk(r)
  PROVE  GatewayInv'
<1>1. at[r] \in {"waiting"} \cup Reading
  BY DEF Headers, AnswerBreaks, Chunk, Reading
<1>2. CASE Headers(r) \/ AnswerBreaks(r)
  <2>1. PICK a \in {"asking"} \cup Reading : at' = [at EXCEPT ![r] = a]
    BY <1>2 DEF Headers, AnswerBreaks
  <2>2. /\ UNCHANGED <<served, node, rr, route, tried, heard, reply, firsts, seconds, moves>>
        /\ a \in Phase /\ OnRoute(a, route[r], tried[r], reply[r])
    BY <1>1, <1>2, EngineFacts DEF Headers, AnswerBreaks
  <2> QED
    BY <2>1, <2>2, OfRequest, OneMoves
<1>3. CASE Chunk(r)
  <2>1. PICK part \in {"whole", "first", "last"} :
          heard' = [heard EXCEPT ![r] = Append(@, [by |-> Engine(r), status |-> at[r], part |-> part])]
    BY <1>3 DEF Chunk
  <2> DEFINE chunks == Append(heard[r], [by |-> Engine(r), status |-> at[r], part |-> part])
  <2>2. [by |-> Engine(r), status |-> at[r], part |-> part] \in Piece
    BY <1>1, <1>3, EngineFacts DEF Piece, Chunk
  <2>3. chunks \in Seq(Piece) /\ heard' = [heard EXCEPT ![r] = chunks]
    BY <2>1, <2>2, OfRequest
  <2>4. UNCHANGED <<served, node, rr, at, route, tried, reply, firsts, seconds, moves>>
    BY <1>3 DEF Chunk
  <2> HIDE DEF chunks
  <2> QED
    BY <2>3, <2>4, OfRequest, OneMoves
<1> QED
  BY <1>2, <1>3

LEMMA EndInv ==
  ASSUME GatewayInv, NEW r \in Request, AnswerEnds(r) \/ NoUpstream(r)
  PROVE  GatewayInv'
<1>1. CASE NoUpstream(r)
  BY <1>1, CloseInv DEF NoUpstream, Status
<1>2. CASE AnswerEnds(r) /\ at[r] # "failed"
  <2>1. at[r] \in Status \ {"none"} /\ at[r] # "noUpstream" /\ Close(r, at[r])
    BY <1>2 DEF AnswerEnds, Reading, Status
  <2> QED
    BY <1>2, <2>1, CloseInv DEF AnswerEnds
<1>3. CASE AnswerEnds(r) /\ at[r] = "failed"
  <2>1. at' = [at EXCEPT ![r] = "asking"] /\ UNCHANGED <<route, tried, heard, reply>>
    BY <1>3 DEF AnswerEnds
  <2>2. "asking" \in Phase /\ OnRoute("asking", route[r], tried[r], reply[r])
    BY <1>3, EngineFacts DEF Reading
  <2> QED
    BY <1>3, <2>1, <2>2, OfRequest, OneMoves DEF AnswerEnds
<1> QED
  BY <1>1, <1>2, <1>3

LEMMA RequestStepInv ==
  ASSUME GatewayInv, NEW r \in Request, RequestStep(r) \/ Chunk(r)
  PROVE  GatewayInv'
BY WarmedInv, TryInv, ReadingInv, EndInv DEF RequestStep

LEMMA ArriveInv ==
  ASSUME GatewayInv, NEW r \in Request, Arrive(r)
  PROVE  GatewayInv'
<1>1. CASE Begin(r)
  BY <1>1, BeginInv DEF Arrive
<1>2. CASE \E status \in {"unauthorized", "badRequest"} : Close(r, status) /\ UNCHANGED <<rr, firsts, seconds>>
  BY <1>2, CloseInv DEF Arrive, Status
<1> QED
  BY <1>1, <1>2 DEF Arrive

LEMMA EnvironmentInv ==
  ASSUME GatewayInv, NodeMoves \/ SaveModel \/ RemoveModel \/ GatewayRestart
  PROVE  GatewayInv'
<1>1. /\ moves \in 0 .. MaxMoves /\ moves < MaxMoves /\ moves' = moves + 1 /\ MaxMoves \in Nat
      /\ firsts' = Untouched /\ seconds' = Untouched
  BY GatewayConstants DEF GatewayInv, GatewayTypes, NodeMoves, SaveModel, RemoveModel, GatewayRestart, Change, Counted
<1>2. moves' \in 0 .. MaxMoves /\ firsts' \in [Target -> Nat] /\ seconds' \in [Target -> Nat]
  BY <1>1 DEF Untouched
<1>3. served' \in Offered \cup {NoModel} /\ rr' \in Nat
  BY DEF GatewayInv, GatewayTypes, NodeMoves, SaveModel, RemoveModel, GatewayRestart
<1>4. node' \in [Target -> [health : Health, host : BOOLEAN]]
  <2>1. CASE NodeMoves
    <3>1. \/ \E S \in SUBSET Target, h \in MovesTo :
               node' = [t \in Target |-> IF t \in S THEN [node[t] EXCEPT !.health = h] ELSE node[t]]
          \/ \E t \in Target : node' = [node EXCEPT ![t].host = ~@]
      BY <2>1 DEF NodeMoves
    <3>2. MovesTo \subseteq Health /\ node \in [Target -> [health : Health, host : BOOLEAN]]
      BY GatewayConstants DEF GatewayInv, GatewayTypes
    <3> QED
      BY <3>1, <3>2
  <2> QED
    BY <2>1 DEF GatewayInv, GatewayTypes, SaveModel, RemoveModel, GatewayRestart
<1>5. /\ at' \in [Request -> Phase] /\ route' \in [Request -> Found \cup {NoRoute}]
      /\ tried' \in [Request -> Seq(Target)] /\ heard' \in [Request -> Seq(Piece)]
      /\ reply' \in [Request -> Status]
      /\ \A r \in Request : OnRoute(at'[r], route'[r], tried'[r], reply'[r])
  <2>1. CASE UNCHANGED requestVars
    BY <2>1 DEF requestVars, GatewayInv, GatewayTypes, AllOnRoute
  <2>2. CASE GatewayRestart
    <3> DEFINE kept(r) == at[r] \in {"new", "done"}
    <3>1. /\ at' = [r \in Request |-> IF kept(r) THEN at[r] ELSE "lost"]
          /\ route' = [r \in Request |-> IF kept(r) THEN route[r] ELSE NoRoute]
          /\ tried' = [r \in Request |-> IF kept(r) THEN tried[r] ELSE << >>]
          /\ heard' = [r \in Request |-> IF kept(r) THEN heard[r] ELSE << >>]
          /\ reply' = reply
      BY <2>2 DEF GatewayRestart
    <3>2. "lost" \in Phase /\ << >> \in Seq(Target) /\ << >> \in Seq(Piece)
      BY PhaseIs
    <3>3. ASSUME NEW r \in Request PROVE OnRoute(at'[r], route'[r], tried'[r], reply'[r])
      <4>1. CASE kept(r)
        BY <3>1, <4>1, OfRequest
      <4>2. CASE ~kept(r)
        <5>1. reply[r] = "none"
          BY <4>2, OfRequest DEF OnRoute
        <5> QED
          BY <3>1, <4>2, <5>1 DEF OnRoute, Reading
      <4> QED
        BY <4>1, <4>2
    <3> QED
      BY <3>1, <3>2, <3>3 DEF GatewayInv, GatewayTypes
  <2> QED
    BY <2>1, <2>2 DEF NodeMoves, SaveModel, RemoveModel
<1>6. served' # NoModel => InTurn(served'.targets, Seen', Untouched, rr')
  <2>1. served' # NoModel => Lists(served'.targets, Range(served'.targets))
    BY <1>3, OfferedFacts
  <2> QED
    BY <1>3, <2>1, UntouchedInTurn
<1>7. GatewayTypes'
  BY <1>2, <1>3, <1>4, <1>5 DEF GatewayTypes
<1>8. AllOnRoute'
  BY <1>5 DEF AllOnRoute
<1> QED
  BY <1>1, <1>6, <1>7, <1>8 DEF GatewayInv

LEMMA GatewayStutter ==
  ASSUME GatewayInv, UNCHANGED <<served, node, rr, requestVars, firsts, seconds>>, moves' \in 0 .. MaxMoves
  PROVE  GatewayInv'
<1>1. Seen' = Seen
  BY DEF Seen
<1>2. GatewayTypes' /\ AllOnRoute'
  BY DEF GatewayInv, GatewayTypes, AllOnRoute, requestVars
<1> QED
  BY <1>1, <1>2 DEF GatewayInv

LEMMA GatewayStarts == GatewayInit => GatewayInv
<1> SUFFICES ASSUME GatewayInit PROVE GatewayInv
  OBVIOUS
<1>1. /\ served \in Offered /\ rr = 0 /\ firsts = Untouched /\ seconds = Untouched /\ moves = 0
      /\ \E health \in FirstHealths : node = [t \in Target |-> [health |-> health[t], host |-> TRUE]]
      /\ at = [r \in Request |-> "new"] /\ route = [r \in Request |-> NoRoute]
      /\ tried = [r \in Request |-> <<>>] /\ heard = [r \in Request |-> <<>>]
      /\ reply = [r \in Request |-> "none"]
  BY DEF GatewayInit
<1>2. GatewayTypes
  BY <1>1, GatewayConstants, PhaseIs DEF GatewayTypes, Untouched, Status
<1>3. AllOnRoute
  BY <1>1 DEF AllOnRoute, OnRoute, Reading
<1>4. InTurn(served.targets, Seen, firsts, rr)
  BY <1>1, OfferedFacts, UntouchedInTurn
<1> QED
  BY <1>2, <1>3, <1>4 DEF GatewayInv

\* A target ranked worse is never tried before a better one, and no target is left out
\* before the request fails (servedModels.ts, gateway.ts).
LEMMA Failover == GatewayInv => HealthierFirst
<1> SUFFICES ASSUME GatewayInv, NEW r \in Request, at[r] # "new", route[r] # NoRoute
             PROVE  LET grade(t) == Rank(route[r].seen[t])
                        chosen == Range(tried[r])
                    IN /\ IsInjective(tried[r])
                       /\ \A i \in 1..Len(tried[r]) : \A j \in 1..(i - 1) : grade(tried[r][j]) <= grade(tried[r][i])
                       /\ \A t \in chosen, u \in Range(route[r].model.targets) \ chosen : grade(t) <= grade(u)
                       /\ reply[r] = "noUpstream" => chosen = Range(route[r].model.targets)
  BY DEF HealthierFirst
<1> DEFINE p == tried[r]
           q == route[r].chain
           all == p \o q
           T == Range(route[r].model.targets)
           seen == route[r].seen
<1>1. p \in Seq(Target) /\ q \in Seq(Target)
  BY OfRequest DEF Found
<1>2. Lists(all, T) /\ Graded(all, seen) /\ (reply[r] = "noUpstream" => q = << >>)
  BY OfRequest DEF OnRoute, OnChain
<1> HIDE DEF p, q, T, seen
<1>3. /\ all \in Seq(Target) /\ Len(all) = Len(p) + Len(q) /\ Len(p) \in Nat /\ Len(q) \in Nat
      /\ \A i \in 1 .. Len(p) : all[i] = p[i]
  BY <1>1, ConcatProperties
<1> HIDE DEF all
<1>4. /\ \A i, j \in 1 .. Len(all) : all[i] = all[j] => i = j
      /\ \A i \in 1 .. Len(all) : all[i] \in T
      /\ \A t \in T : \E i \in 1 .. Len(all) : all[i] = t
  BY <1>2, <1>3, ListsMeans
<1>5. \A i \in 1 .. Len(p) : i \in 1 .. Len(all) /\ all[i] = p[i]
  BY <1>3
<1>6. IsInjective(p)
  BY <1>1, <1>4, <1>5 DEF IsInjective
<1>7. \A i \in 1 .. Len(p) : \A j \in 1 .. (i - 1) : Rank(seen[p[j]]) <= Rank(seen[p[i]])
  BY <1>2, <1>3, <1>5 DEF Graded
<1>8. ASSUME NEW t \in Range(p), NEW u \in T \ Range(p) PROVE Rank(seen[t]) <= Rank(seen[u])
  <2>1. PICK j \in 1 .. Len(p) : p[j] = t
    BY <1>1 DEF Range
  <2>2. PICK i \in 1 .. Len(all) : all[i] = u
    BY <1>4
  <2>3. i \notin 1 .. Len(p)
    BY <1>1, <1>5, <2>2 DEF Range
  <2>4. j \in 1 .. (i - 1) /\ all[j] = t
    BY <1>3, <1>5, <2>1, <2>3
  <2> QED
    BY <1>2, <2>2, <2>4 DEF Graded
<1>9. ASSUME reply[r] = "noUpstream" PROVE Range(p) = T
  <2>1. Len(q) = 0
    BY <1>2, <1>9
  <2>2. Len(all) = Len(p)
    BY <1>3, <2>1
  <2>3. \A i \in 1 .. Len(p) : p[i] \in T
    BY <1>4, <1>5
  <2>4. \A t \in T : \E i \in 1 .. Len(p) : p[i] = t
    BY <1>4, <1>5, <2>2
  <2> QED
    BY <1>1, <2>3, <2>4 DEF Range
<1> QED
  BY <1>6, <1>7, <1>8, <1>9 DEF p, T, seen

\* However requests overlap, no target of a class is ahead of another by more than one
\* turn (servedModels.ts).
LEMMA Turns == GatewayInv => RoundRobin
<1> SUFFICES ASSUME GatewayInv, served # NoModel, NEW t \in Range(served.targets),
                    NEW u \in Range(served.targets), node[t].health = node[u].health
             PROVE  Heads(t) <= Heads(u) + 1 + seconds[t]
  BY DEF RoundRobin
<1> DEFINE T == Range(served.targets)
<1>1. /\ served \in Offered /\ rr \in Nat /\ firsts \in [Target -> Nat] /\ seconds \in [Target -> Nat] /\ Seen \in [Target -> Health]
      /\ InTurn(served.targets, Seen, firsts, rr)
  BY DEF GatewayInv, GatewayTypes, Seen
<1>2. Lists(served.targets, T) /\ T \subseteq Target
  BY <1>1, OfferedFacts, ListsOf
<1>d. SUFFICES firsts[t] <= firsts[u] + 1
  BY <1>1, <1>2 DEF Heads
<1>3. Seen[t] = Seen[u]
  BY <1>2 DEF Seen
<1>4. PICK h : Leads(h, served.targets, Seen)
  BY <1>1, <1>2, SomeClassLeads
<1> DEFINE class == Of(served.targets, Seen, h)
           m == Len(class)
<1>5. Lists(class, {v \in T : Seen[v] = h})
  BY <1>2, OfLists
<1>6. Even(class, firsts, rr) /\ \A v \in Target \ Range(class) : firsts[v] = 0
  BY <1>1, <1>4 DEF InTurn
<1> HIDE DEF class
<1>7. class \in Seq(Target) /\ Range(class) = {v \in T : Seen[v] = h}
  BY <1>5 DEF Lists
<1>8. CASE Seen[t] # h
  <2>1. t \notin Range(class) /\ t \in Target /\ u \in Target
    BY <1>2, <1>7, <1>8
  <2> QED
    BY <1>1, <1>6, <2>1
<1>9. CASE Seen[t] = h
  <2>1. t \in Range(class) /\ u \in Range(class)
    BY <1>3, <1>7, <1>9
  <2>2. PICK i \in 1 .. m, j \in 1 .. m : class[i] = t /\ class[j] = u
    BY <1>7, <2>1 DEF Range
  <2>3. PICK b \in Nat, d \in 0 .. (m - 1) :
          \A n \in 1 .. m : firsts[class[n]] = b + (IF Behind(rr % m, n - 1, m) < d THEN 1 ELSE 0)
    BY <1>6 DEF Even
  <2>4. firsts[t] \in b .. (b + 1) /\ firsts[u] \in b .. (b + 1)
    BY <2>2, <2>3
  <2> QED
    BY <2>4
<1> QED
  BY <1>8, <1>9

----------------------------------------------------------------------------
(* The readers of a stream.                                                *)

ReaderState == [text : Seq(Target), tail : Target \cup {NoTarget}]

\* g holds the reader after each chunk.
Reads(g, chunks, skipped) ==
  /\ g \in [0 .. Len(chunks) -> ReaderState] /\ g[0] = Clean
  /\ \A k \in 1 .. Len(chunks) :
       g[k] = IF chunks[k].status \in skipped THEN g[k - 1] ELSE Feed(g[k - 1], chunks[k])

LEMMA FeedType ==
  ASSUME NEW reader \in ReaderState, NEW e \in Piece
  PROVE  Feed(reader, e) \in ReaderState
<1>1. <<e.by>> \in Seq(Target) /\ << >> \in Seq(Target) /\ reader.text \in Seq(Target)
  BY DEF Piece, ReaderState
<1>2. reader.text \o <<e.by>> \in Seq(Target) /\ reader.text \o << >> \in Seq(Target)
  BY <1>1
<1> QED
  BY <1>1, <1>2 DEF Feed, Piece, ReaderState

LEMMA ReaderFacts ==
  ASSUME NEW chunks \in Seq(Piece), NEW skipped
  PROVE  \E g : Reads(g, chunks, skipped) /\ Reader(chunks, skipped) = g[Len(chunks)]
<1> DEFINE n == Len(chunks)
           upto[i \in 0 .. n] ==
             IF i = 0 THEN Clean
             ELSE IF chunks[i].status \in skipped THEN upto[i - 1] ELSE Feed(upto[i - 1], chunks[i])
           step == [ir \in Nat \X ReaderState |->
                      IF ir[1] \in 1 .. n /\ ~(chunks[ir[1]].status \in skipped)
                      THEN Feed(ir[2], chunks[ir[1]]) ELSE ir[2]]
<1>1. n \in Nat /\ \A i \in 1 .. n : chunks[i] \in Piece
  OBVIOUS
<1>2. Clean \in ReaderState
  BY DEF Clean, ReaderState
<1>3. step \in [Nat \X ReaderState -> ReaderState]
  BY <1>1, FeedType
<1>4. PICK g : Follows(g, n, ReaderState, Clean, step)
  <2> HIDE DEF step, n, upto
  <2>1. \E g : Follows(g, n, ReaderState, Clean, step)
    BY <1>1, <1>2, <1>3, Recursion
  <2> QED
    BY <2>1
<1>5. ASSUME NEW i \in 1 .. n
      PROVE  g[i] = IF chunks[i].status \in skipped THEN g[i - 1] ELSE Feed(g[i - 1], chunks[i])
  <2>1. i \in Nat /\ i - 1 \in 0 .. n
    BY <1>1
  <2>2. g[i] = step[<<i, g[i - 1]>>] /\ g[i - 1] \in ReaderState
    BY <1>4, <2>1 DEF Follows
  <2> QED
    BY <2>1, <2>2
<1>6. g = [i \in 0 .. n |-> IF i = 0 THEN Clean
                            ELSE IF chunks[i].status \in skipped THEN g[i - 1] ELSE Feed(g[i - 1], chunks[i])]
  <2>1. \A i \in 0 .. n : i # 0 => i \in 1 .. n
    BY <1>1
  <2> QED
    BY <1>4, <1>5, <2>1 DEF Follows
<1>7. upto = [i \in 0 .. n |-> IF i = 0 THEN Clean
                               ELSE IF chunks[i].status \in skipped THEN upto[i - 1]
                               ELSE Feed(upto[i - 1], chunks[i])]
  BY <1>6
<1>8. Reader(chunks, skipped) = upto[n]
  BY DEF Reader
<1> HIDE DEF upto, step, n
<1> DEFINE T == {i \in Nat : i <= n => upto[i] \in ReaderState}
<1>9. 0 \in T
  BY <1>1, <1>2, <1>7
<1>10. ASSUME NEW i \in Nat, i \in T PROVE i + 1 \in T
  <2>1. CASE i + 1 <= n
    <3>1. i <= n /\ i + 1 \in 0 .. n /\ i + 1 # 0 /\ (i + 1) - 1 = i /\ i + 1 \in 1 .. n
      BY <1>1, <2>1
    <3>2. upto[i] \in ReaderState /\ chunks[i + 1] \in Piece
      BY <1>1, <1>10, <3>1
    <3>3. upto[i + 1] = IF chunks[i + 1].status \in skipped THEN upto[i] ELSE Feed(upto[i], chunks[i + 1])
      BY <1>7, <3>1
    <3> QED
      BY <3>2, <3>3, FeedType
  <2> QED
    BY <2>1
<1>11. Nat \subseteq T
  <2> HIDE DEF T
  <2> QED
    BY <1>9, <1>10, Induction
<1>12. upto \in [0 .. n -> ReaderState]
  <2>1. \A i \in 0 .. n : upto[i] \in ReaderState
    BY <1>1, <1>11
  <2> QED
    BY <1>7, <2>1
<1>13. upto[0] = Clean
  BY <1>1, <1>7
<1>14. \A i \in 1 .. n :
         upto[i] = IF chunks[i].status \in skipped THEN upto[i - 1] ELSE Feed(upto[i - 1], chunks[i])
  BY <1>1, <1>7
<1>15. Reads(upto, chunks, skipped)
  BY <1>12, <1>13, <1>14 DEF Reads, n
<1> QED
  BY <1>8, <1>15 DEF n

\* The browser and the collector read the same text, unless a chunk the browser does not
\* get leaves an unfinished line or ends one.
LEMMA ReadersAgree ==
  ASSUME NEW chunks \in Seq(Piece),
         \A k \in 1 .. Len(chunks) :
           ~(chunks[k].status = "failed" /\ (chunks[k].part = "first" \/ (k > 1 /\ chunks[k - 1].part = "first")))
  PROVE  Shown(chunks) = Collected(chunks)
<1> DEFINE n == Len(chunks)
<1>1. n \in Nat /\ \A i \in 1 .. n : chunks[i] \in Piece
  OBVIOUS
<1>2. PICK f : Reads(f, chunks, {"failed"}) /\ Shown(chunks) = f[n]
  BY ReaderFacts DEF Shown
<1>3. PICK g : Reads(g, chunks, {}) /\ Collected(chunks) = g[n]
  BY ReaderFacts DEF Collected
<1> HIDE DEF n
<1> DEFINE T == {i \in Nat : i <= n => /\ f[i] = g[i]
                                       /\ g[i].tail # NoTarget => i > 0 /\ chunks[i].part = "first"}
<1>4. 0 \in T
  BY <1>1, <1>2, <1>3 DEF Reads, Clean
<1>5. ASSUME NEW i \in Nat, i \in T PROVE i + 1 \in T
  <2>1. CASE i + 1 <= n
    <3> DEFINE e == chunks[i + 1]
    <3>1. i <= n /\ i + 1 \in 1 .. n /\ (i + 1) - 1 = i /\ i \in 0 .. n /\ e \in Piece
      BY <1>1, <2>1
    <3>2. /\ f[i] = g[i] /\ g[i] \in ReaderState
          /\ g[i].tail # NoTarget => i > 0 /\ chunks[i].part = "first"
      <4>1. f[i] = g[i] /\ (g[i].tail # NoTarget => i > 0 /\ chunks[i].part = "first")
        BY <1>5, <3>1
      <4>2. g[i] \in ReaderState
        BY <1>3, <3>1 DEF Reads, n
      <4> QED
        BY <4>1, <4>2
    <3>3. f[i + 1] = IF e.status \in {"failed"} THEN f[i] ELSE Feed(f[i], e)
      BY <1>2, <3>1 DEF Reads, n
    <3>4. g[i + 1] = Feed(g[i], e)
      BY <1>3, <3>1 DEF Reads, n
    <3> HIDE DEF e
    <3>5. CASE e.status # "failed"
      <4>1. f[i + 1] = g[i + 1]
        BY <3>2, <3>3, <3>4, <3>5
      <4>2. Feed(g[i], e).tail # NoTarget => e.part = "first"
        BY DEF Feed
      <4> QED
        BY <3>4, <4>1, <4>2 DEF e
    <3>6. CASE e.status = "failed"
      <4>1. e.part # "first" /\ ~(i > 0 /\ chunks[i].part = "first")
        BY <3>1, <3>6 DEF e, n
      <4>2. g[i].tail = NoTarget /\ g[i].text \in Seq(Target) /\ g[i] = [text |-> g[i].text, tail |-> NoTarget]
        BY <3>2, <4>1 DEF ReaderState
      <4>3. g[i].text \o << >> = g[i].text
        BY <4>2
      <4>4. Feed(g[i], e) = [text |-> g[i].text \o << >>, tail |-> NoTarget]
        BY <3>6, <4>1 DEF Feed
      <4> QED
        BY <3>2, <3>3, <3>4, <3>6, <4>2, <4>3, <4>4
    <3> QED
      BY <3>5, <3>6
  <2> QED
    BY <2>1
<1>6. Nat \subseteq T
  <2> HIDE DEF T
  <2> QED
    BY <1>4, <1>5, Induction
<1>7. f[n] = g[n]
  <2>1. n \in T /\ n <= n
    <3> HIDE DEF T
    <3> QED
      BY <1>1, <1>6
  <2> QED
    BY <1>1, <2>1
<1> QED
  BY <1>2, <1>3, <1>7

----------------------------------------------------------------------------
(* The rows of chat_messages.                                              *)

MsgRow == [conv : Conversation, turn : Chat, role : {"user", "assistant"}, text : Seq(Target), error : BOOLEAN]

Asks(m, r, c) == m.role = "user" /\ m.turn = r /\ m.conv = c

Answers(m, r) == m.role = "assistant" /\ m.turn = r

\* The i-th row is an answer: of a turn that is done, with what was collected of it,
\* behind its question and the only one.
Answered(rows, i, phase, chunks) ==
  /\ phase[rows[i].turn] = "done"
  /\ rows[i].text = Collected(chunks[rows[i].turn]).text
  /\ \E j \in 1 .. (i - 1) : Asks(rows[j], rows[i].turn, rows[i].conv)
  /\ \A j \in 1 .. Len(rows) : Answers(rows[j], rows[i].turn) => j = i

\* The rows are in order, for the conversations that exist, the phases of the requests
\* and the chunks they were given.
RowsGood(rows, live, phase, chunks) ==
  /\ rows \in Seq(MsgRow)
  /\ \A i \in 1 .. Len(rows) : rows[i].conv \in live /\ phase[rows[i].turn] # "new"
  /\ \A i \in 1 .. Len(rows) : rows[i].role = "assistant" => Answered(rows, i, phase, chunks)

\* Rows stay in order when requests move on and conversations are made.
LEMMA RowsMoveOn ==
  ASSUME NEW rows, NEW live, NEW phase, NEW chunks, RowsGood(rows, live, phase, chunks),
         NEW more, live \subseteq more, NEW phase2, NEW chunks2,
         \A q \in Chat : /\ phase[q] # "new" => phase2[q] # "new"
                         /\ phase[q] = "done" => phase2[q] = "done" /\ chunks2[q] = chunks[q]
  PROVE  RowsGood(rows, more, phase2, chunks2)
<1>1. \A i \in 1 .. Len(rows) : rows[i].turn \in Chat
  <2>1. \A i \in 1 .. Len(rows) : rows[i] \in MsgRow
    BY DEF RowsGood
  <2> QED
    BY <2>1 DEF MsgRow
<1>2. ASSUME NEW i \in 1 .. Len(rows), rows[i].role = "assistant"
      PROVE  Answered(rows, i, phase2, chunks2)
  BY <1>1, <1>2 DEF RowsGood, Answered
<1> QED
  BY <1>1, <1>2 DEF RowsGood

\* A question is stored.
LEMMA QuestionStored ==
  ASSUME NEW rows, NEW live, NEW phase, NEW chunks, RowsGood(rows, live, phase, chunks),
         NEW r \in Chat, NEW c \in Conversation, c \in live, phase[r] # "new"
  PROVE  LET more == Append(rows, Row(c, r, "user", << >>, FALSE))
         IN /\ RowsGood(more, live, phase, chunks)
            /\ Asks(more[Len(more)], r, c) /\ Len(more) \in 1 .. Len(more)
            /\ \A j \in 1 .. Len(more) : Answers(more[j], r) => j \in 1 .. Len(rows) /\ Answers(rows[j], r)
<1> DEFINE m == Row(c, r, "user", << >>, FALSE)
           more == Append(rows, m)
           n == Len(rows)
<1>1. m \in MsgRow /\ m.role = "user" /\ m.turn = r /\ m.conv = c
  BY DEF Row, MsgRow
<1>2. rows \in Seq(MsgRow) /\ n \in Nat
  BY DEF RowsGood
<1> HIDE DEF m
<1>3. more \in Seq(MsgRow) /\ Len(more) = n + 1 /\ more[n + 1] = m /\ \A i \in 1 .. n : more[i] = rows[i]
  BY <1>1, <1>2
<1> HIDE DEF more, n
<1>4. \A i \in 1 .. (n + 1) : i \in 1 .. n \/ i = n + 1
  BY <1>2
<1>5. ASSUME NEW i \in 1 .. (n + 1) PROVE more[i].conv \in live /\ phase[more[i].turn] # "new"
  BY <1>1, <1>3, <1>4 DEF RowsGood, n
<1>6. \A j \in 1 .. (n + 1) : more[j].role = "assistant" => j \in 1 .. n /\ more[j] = rows[j]
  BY <1>1, <1>3, <1>4
<1>7. ASSUME NEW i \in 1 .. (n + 1), more[i].role = "assistant"
      PROVE  Answered(more, i, phase, chunks)
  <2>1. i \in 1 .. n /\ more[i] = rows[i] /\ Answered(rows, i, phase, chunks)
    BY <1>6, <1>7 DEF RowsGood, n
  <2>2. \A j \in 1 .. (i - 1) : more[j] = rows[j]
    BY <1>2, <1>3, <2>1
  <2>3. \E j \in 1 .. (i - 1) : Asks(more[j], more[i].turn, more[i].conv)
    BY <2>1, <2>2 DEF Answered
  <2>4. \A j \in 1 .. Len(more) : Answers(more[j], more[i].turn) => j = i
    BY <1>3, <1>6, <2>1 DEF Answered, Answers, n
  <2> QED
    BY <2>1, <2>3, <2>4 DEF Answered
<1>8. RowsGood(more, live, phase, chunks)
  BY <1>3, <1>5, <1>7 DEF RowsGood
<1>9. Asks(more[Len(more)], r, c) /\ Len(more) \in 1 .. Len(more)
  BY <1>1, <1>2, <1>3 DEF Asks
<1> QED
  BY <1>3, <1>6, <1>8, <1>9 DEF Answers, more, m, n

\* m is the row that Answer makes of a turn's chunks.
IsAnswer(m, c, r, chunks) ==
  m \in MsgRow /\ m.role = "assistant" /\ m.turn = r /\ m.conv = c /\ m.text = Collected(chunks).text

LEMMA AnswerFacts ==
  ASSUME NEW r \in Chat, NEW c \in Conversation, NEW chunks \in Seq(Piece), NEW status
  PROVE  IsAnswer(Answer(c, r, chunks, status), c, r, chunks)
<1>1. Collected(chunks).text \in Seq(Target)
  <2>1. PICK g : Reads(g, chunks, {}) /\ Collected(chunks) = g[Len(chunks)]
    BY ReaderFacts DEF Collected
  <2> QED
    BY <2>1 DEF Reads, ReaderState
<1> QED
  BY <1>1 DEF IsAnswer, Answer, Row, MsgRow

\* The answer of a turn that is done is stored behind its question.
LEMMA AnswerStored ==
  ASSUME NEW rows, NEW live, NEW phase, NEW chunks, RowsGood(rows, live, phase, chunks),
         NEW r \in Chat, NEW c \in Conversation, phase[r] = "done",
         \E j \in 1 .. Len(rows) : Asks(rows[j], r, c),
         \A j \in 1 .. Len(rows) : ~Answers(rows[j], r),
         NEW m, IsAnswer(m, c, r, chunks[r])
  PROVE  /\ RowsGood(Append(rows, m), live, phase, chunks)
         /\ \A j \in 1 .. Len(rows) : j \in 1 .. Len(Append(rows, m)) /\ Append(rows, m)[j] = rows[j]
<1> DEFINE n == Len(rows)
           more == Append(rows, m)
<1>1. rows \in Seq(MsgRow) /\ n \in Nat
  BY DEF RowsGood
<1>2. /\ m \in MsgRow /\ m.role = "assistant" /\ m.turn = r /\ m.conv = c
      /\ m.text = Collected(chunks[r]).text
  BY DEF IsAnswer
<1>3. more \in Seq(MsgRow) /\ Len(more) = n + 1 /\ more[n + 1] = m /\ \A i \in 1 .. n : more[i] = rows[i]
  BY <1>1, <1>2
<1>4. PICK q \in 1 .. n : Asks(rows[q], r, c)
  OBVIOUS
<1> HIDE DEF more, n
<1>5. \A i \in 1 .. (n + 1) : i \in 1 .. n \/ i = n + 1
  BY <1>1
<1>6. c \in live /\ \A i \in 1 .. n : rows[i].conv \in live /\ phase[rows[i].turn] # "new"
  BY <1>4 DEF RowsGood, n, Asks
<1>7. ASSUME NEW i \in 1 .. (n + 1) PROVE more[i].conv \in live /\ phase[more[i].turn] # "new"
  BY <1>2, <1>3, <1>5, <1>6
<1>8. ASSUME NEW i \in 1 .. (n + 1), more[i].role = "assistant"
      PROVE  Answered(more, i, phase, chunks)
  <2>1. CASE i \in 1 .. n
    <3>1. more[i] = rows[i] /\ Answered(rows, i, phase, chunks) /\ rows[i].turn # r
      BY <1>3, <1>8, <2>1 DEF RowsGood, n, Answers
    <3>2. \A j \in 1 .. (i - 1) : more[j] = rows[j]
      BY <1>1, <1>3, <2>1
    <3>3. \E j \in 1 .. (i - 1) : Asks(more[j], more[i].turn, more[i].conv)
      BY <3>1, <3>2 DEF Answered
    <3>4. \A j \in 1 .. (n + 1) : Answers(more[j], more[i].turn) => j \in 1 .. n /\ Answers(rows[j], rows[i].turn)
      BY <1>2, <1>3, <1>5, <3>1 DEF Answers
    <3>5. \A j \in 1 .. Len(more) : Answers(more[j], more[i].turn) => j = i
      BY <1>3, <3>1, <3>4 DEF Answered, n
    <3> QED
      BY <3>1, <3>3, <3>5 DEF Answered
  <2>2. CASE i = n + 1
    <3>1. more[i] = m /\ (i - 1) = n /\ more[q] = rows[q]
      BY <1>1, <1>3, <2>2
    <3>2. \E j \in 1 .. (i - 1) : Asks(more[j], more[i].turn, more[i].conv)
      BY <1>2, <1>4, <3>1
    <3>3. \A j \in 1 .. Len(more) : Answers(more[j], r) => j = i
      BY <1>3, <1>5, <2>2 DEF n
    <3> QED
      BY <1>2, <3>1, <3>2, <3>3 DEF Answered
  <2> QED
    BY <1>5, <2>1, <2>2
<1>9. RowsGood(more, live, phase, chunks)
  BY <1>3, <1>7, <1>8 DEF RowsGood
<1>10. \A j \in 1 .. n : j \in 1 .. Len(more) /\ more[j] = rows[j]
  BY <1>1, <1>3
<1> QED
  BY <1>9, <1>10 DEF more, n

\* live without c is in fewer, and the rows of other conversations are those in S.
Without(rows, S, live, fewer, c) ==
  /\ \A d \in live : d # c => d \in fewer
  /\ \A i \in 1 .. Len(rows) : rows[i] \in S <=> rows[i].conv # c

\* A conversation is deleted, and its rows with it.
LEMMA RowsDeleted ==
  ASSUME NEW rows, NEW live, NEW phase, NEW chunks, RowsGood(rows, live, phase, chunks),
         NEW c, NEW fewer, NEW S, Without(rows, S, live, fewer, c)
  PROVE  /\ RowsGood(Only(rows, S), fewer, phase, chunks)
         /\ \A i \in 1 .. Len(rows) :
              rows[i].conv # c => \E k \in 1 .. Len(Only(rows, S)) : Only(rows, S)[k] = rows[i]
<1> DEFINE left == Only(rows, S)
<1>1. rows \in Seq(MsgRow) /\ Len(rows) \in Nat
  BY DEF RowsGood
<1>2. left \in Seq(MsgRow) /\ Len(left) \in Nat /\ \E ix : Picks(ix, left, rows, Len(rows), S)
  BY <1>1, OnlyPicks
<1> HIDE DEF left
<1>3. PICK ix : Picks(ix, left, rows, Len(rows), S)
  BY <1>2
<1>4. \A k \in 1 .. Len(left) : ix[k] \in 1 .. Len(rows) /\ left[k] = rows[ix[k]] /\ left[k].conv # c
  <2>1. \A k \in 1 .. Len(left) : ix[k] \in 1 .. Len(rows) /\ left[k] = rows[ix[k]] /\ left[k] \in S
    BY <1>3 DEF Picks
  <2> QED
    BY <2>1 DEF Without
<1>5. \A i \in 1 .. Len(rows) : rows[i].conv # c => \E k \in 1 .. Len(left) : ix[k] = i
  BY <1>3 DEF Picks, Without
<1>6. \A j, k \in 1 .. Len(left) : ix[j] < ix[k] => j < k
  <2>1. \A j, k \in 1 .. Len(left) : j < k => ix[j] < ix[k]
    BY <1>3 DEF Picks
  <2> QED
    BY <1>1, <1>2, <1>4, <2>1
<1>7. ASSUME NEW k \in 1 .. Len(left) PROVE left[k].conv \in fewer /\ phase[left[k].turn] # "new"
  BY <1>4 DEF RowsGood, Without
<1>8. ASSUME NEW k \in 1 .. Len(left), left[k].role = "assistant"
      PROVE  Answered(left, k, phase, chunks)
  <2>1. /\ ix[k] \in 1 .. Len(rows) /\ left[k] = rows[ix[k]] /\ left[k].conv # c
        /\ Answered(rows, ix[k], phase, chunks)
    BY <1>4, <1>8 DEF RowsGood
  <2>2. PICK j \in 1 .. (ix[k] - 1) : Asks(rows[j], left[k].turn, left[k].conv)
    BY <2>1 DEF Answered
  <2>3. j \in 1 .. Len(rows) /\ rows[j].conv # c /\ j < ix[k]
    BY <1>1, <2>1, <2>2 DEF Asks
  <2>4. PICK l \in 1 .. Len(left) : ix[l] = j
    BY <1>5, <2>3
  <2>5. l \in 1 .. (k - 1) /\ left[l] = rows[j]
    BY <1>2, <1>4, <1>6, <2>3, <2>4
  <2>6. ASSUME NEW i \in 1 .. Len(left), Answers(left[i], left[k].turn) PROVE i = k
    <3>1. ix[i] = ix[k]
      BY <1>4, <2>1, <2>6 DEF Answered
    <3> QED
      BY <1>1, <1>2, <1>3, <1>4, <3>1 DEF Picks
  <2> QED
    BY <2>1, <2>2, <2>5, <2>6 DEF Answered
<1>9. RowsGood(left, fewer, phase, chunks)
  BY <1>2, <1>7, <1>8 DEF RowsGood
<1>10. \A i \in 1 .. Len(rows) : rows[i].conv # c => \E k \in 1 .. Len(left) : left[k] = rows[i]
  BY <1>4, <1>5
<1> QED
  BY <1>9, <1>10 DEF left

----------------------------------------------------------------------------
(* The invariant of the store.                                             *)

Alive == {c \in Conversation : Live(c)}

StoreTypes ==
  /\ folder \subseteq Folder /\ turn \in [Chat -> Conversation \cup {NoConversation}]
  /\ conv \in [Conversation -> [is : {"none", "live", "deleted"}, folder : Folder \cup {NoFolder}]]

Foldered == \A c \in Conversation : Live(c) => conv[c].folder \in folder \cup {NoFolder}

\* A turn under way has its question in its conversation for as long as that one exists.
Asked ==
  \A r \in Chat, c \in Conversation :
    turn[r] = c => /\ at[r] # "new" /\ conv[c].is # "none"
                   /\ (Live(c) => \E i \in 1 .. Len(msgs) : Asks(msgs[i], r, c))

StoreInv == StoreTypes /\ Foldered /\ RowsGood(msgs, Alive, at, heard) /\ Asked

\* No request goes back, and a turn that is done hears no more.
Onward ==
  \A q \in Chat : /\ at[q] # "new" => at'[q] # "new"
                  /\ at[q] = "done" => at'[q] = "done" /\ heard'[q] = heard[q]

\* A step that leaves the store alone.
LEMMA StoreWaits ==
  ASSUME StoreInv, Onward, UNCHANGED chatVars
  PROVE  StoreInv'
<1>1. folder' = folder /\ conv' = conv /\ msgs' = msgs /\ turn' = turn
  BY DEF chatVars
<1>2. StoreTypes' /\ Foldered' /\ Alive' = Alive
  BY <1>1 DEF StoreInv, StoreTypes, Foldered, Alive, Live
<1>3. RowsGood(msgs, Alive, at', heard')
  BY RowsMoveOn DEF StoreInv, Onward
<1>4. Asked'
  BY <1>1 DEF StoreInv, Asked, Onward, Live
<1> QED
  BY <1>1, <1>2, <1>3, <1>4 DEF StoreInv

\* A step that edits folders and conversations, and no message.
LEMMA StoreEdited ==
  ASSUME StoreInv, StoreTypes', Foldered', UNCHANGED <<at, heard, msgs, turn>>,
         \A c \in Conversation : conv[c].is # "none" => conv'[c].is = conv[c].is
  PROVE  StoreInv'
<1>1. Alive \subseteq Alive'
  BY DEF Alive, Live
<1>2. RowsGood(msgs, Alive', at, heard)
  BY <1>1, RowsMoveOn DEF StoreInv
<1>3. Asked'
  BY DEF StoreInv, Asked, Live
<1> QED
  BY <1>2, <1>3 DEF StoreInv

\* A conversation is deleted, and its rows with it.
LEMMA DeleteInv ==
  ASSUME StoreInv, NEW c \in Conversation, DeleteConversation(c)
  PROVE  StoreInv'
<1>1. /\ Live(c) /\ UNCHANGED <<folder, turn, at, heard>>
      /\ conv' = [conv EXCEPT ![c] = [is |-> "deleted", folder |-> NoFolder]]
      /\ msgs' = Only(msgs, {m \in Range(msgs) : m.conv # c})
  <2>1. [NoRow EXCEPT !.is = "deleted"] = [is |-> "deleted", folder |-> NoFolder]
    BY DEF NoRow
  <2> QED
    BY <2>1, Zenon DEF DeleteConversation, gatewayVars, requestVars
<1>2. conv \in [Conversation -> [is : {"none", "live", "deleted"}, folder : Folder \cup {NoFolder}]]
  BY DEF StoreInv, StoreTypes
<1>3. /\ conv'[c] = [is |-> "deleted", folder |-> NoFolder]
      /\ \A d \in Conversation : d # c => conv'[d] = conv[d]
  BY <1>1, <1>2
<1>4. StoreTypes'
  BY <1>1, <1>2 DEF StoreInv, StoreTypes
<1>5. Foldered'
  BY <1>1, <1>3 DEF StoreInv, Foldered, Live
<1>6. \A d \in Alive : d # c => d \in Alive'
  BY <1>3 DEF Alive, Live
<1>7. /\ RowsGood(msgs', Alive', at, heard)
      /\ \A i \in 1 .. Len(msgs) : msgs[i].conv # c => \E k \in 1 .. Len(msgs') : msgs'[k] = msgs[i]
  <2>1. RowsGood(msgs, Alive, at, heard)
    BY DEF StoreInv
  <2> DEFINE S == {m \in Range(msgs) : m.conv # c}
  <2>2. Without(msgs, S, Alive, Alive', c)
    <3>1. msgs \in Seq(MsgRow)
      BY <2>1 DEF RowsGood
    <3>2. \A i \in 1 .. Len(msgs) : msgs[i] \in S <=> msgs[i].conv # c
      BY <3>1 DEF Range
    <3> QED
      BY <1>6, <3>2 DEF Without
  <2>3. msgs' = Only(msgs, S)
    BY <1>1
  <2> HIDE DEF S
  <2>4. RowsGood(Only(msgs, S), Alive', at, heard)
    BY <2>1, <2>2, RowsDeleted
  <2>5. \A i \in 1 .. Len(msgs) : msgs[i].conv # c => \E k \in 1 .. Len(Only(msgs, S)) : Only(msgs, S)[k] = msgs[i]
    BY <2>1, <2>2, RowsDeleted
  <2> QED
    BY <2>3, <2>4, <2>5
<1>8. Asked'
  <2> SUFFICES ASSUME NEW r \in Chat, NEW d \in Conversation, turn[r] = d
               PROVE  /\ at[r] # "new" /\ conv'[d].is # "none"
                      /\ conv'[d].is = "live" => \E k \in 1 .. Len(msgs') : Asks(msgs'[k], r, d)
    BY <1>1 DEF Asked, Live
  <2>1. /\ at[r] # "new" /\ conv[d].is # "none"
        /\ conv[d].is = "live" => \E i \in 1 .. Len(msgs) : Asks(msgs[i], r, d)
    BY DEF StoreInv, Asked, Live
  <2>2. CASE d = c
    BY <1>3, <2>1, <2>2
  <2>3. CASE d # c
    <3>1. \A i \in 1 .. Len(msgs) : Asks(msgs[i], r, d) => msgs[i].conv # c
      BY <2>3 DEF Asks
    <3> QED
      BY <1>3, <1>7, <2>1, <2>3, <3>1
  <2> QED
    BY <2>2, <2>3
<1> QED
  BY <1>1, <1>4, <1>5, <1>7, <1>8 DEF StoreInv

\* The edits of folders and conversations.
LEMMA EditInv ==
  ASSUME StoreInv,
         \/ CreateFolder \/ DeleteFolder
         \/ \E c \in Conversation : CreateConversation(c) \/ PatchConversation(c)
  PROVE  StoreInv'
<1>1. /\ conv \in [Conversation -> [is : {"none", "live", "deleted"}, folder : Folder \cup {NoFolder}]]
      /\ folder \subseteq Folder /\ turn \in [Chat -> Conversation \cup {NoConversation}]
  BY DEF StoreInv, StoreTypes
<1>2. \A c \in Conversation : Live(c) => conv[c].folder \in folder \cup {NoFolder}
  BY DEF StoreInv, Foldered
<1>3. NoFolder \notin Folder
  BY ChatConstants
<1>4. CASE CreateFolder
  <2>1. PICK f \in Folder : folder' = folder \cup {f}
    BY <1>4 DEF CreateFolder
  <2>2. UNCHANGED <<conv, msgs, turn, at, heard>>
    BY <1>4 DEF CreateFolder, Edit, requestVars
  <2>3. StoreTypes' /\ Foldered'
    BY <1>1, <1>2, <2>1, <2>2 DEF StoreTypes, Foldered, Live
  <2> QED
    BY <2>2, <2>3, StoreEdited
<1>5. CASE DeleteFolder
  <2>1. PICK f \in folder :
          /\ folder' = folder \ {f}
          /\ conv' = [c \in Conversation |->
                        IF conv[c].folder = f THEN [conv[c] EXCEPT !.folder = NoFolder] ELSE conv[c]]
    BY <1>5 DEF DeleteFolder
  <2>2. UNCHANGED <<msgs, turn, at, heard>>
    BY <1>5 DEF DeleteFolder, Edit, requestVars
  <2>3. ASSUME NEW c \in Conversation
        PROVE  /\ conv'[c] \in [is : {"none", "live", "deleted"}, folder : Folder \cup {NoFolder}]
               /\ conv'[c].is = conv[c].is
               /\ conv'[c].folder = IF conv[c].folder = f THEN NoFolder ELSE conv[c].folder
    <3>1. conv[c] \in [is : {"none", "live", "deleted"}, folder : Folder \cup {NoFolder}]
      BY <1>1
    <3>2. CASE conv[c].folder = f
      BY <2>1, <3>1, <3>2
    <3>3. CASE conv[c].folder # f
      BY <2>1, <3>1, <3>3
    <3> QED
      BY <3>2, <3>3
  <2>4. conv' = [c \in Conversation |-> conv'[c]]
    BY <2>1
  <2>5. StoreTypes'
    BY <1>1, <2>1, <2>2, <2>3, <2>4 DEF StoreTypes
  <2>6. Foldered'
    BY <1>2, <2>1, <2>3 DEF Foldered, Live
  <2> QED
    BY <2>2, <2>3, <2>5, <2>6, StoreEdited
<1>6. ASSUME NEW c \in Conversation, CreateConversation(c) PROVE StoreInv'
  <2>1. PICK f \in folder \cup {NoFolder} : conv' = [conv EXCEPT ![c] = [is |-> "live", folder |-> f]]
    BY <1>6 DEF CreateConversation
  <2>2. conv[c].is = "none" /\ UNCHANGED <<folder, msgs, turn, at, heard>>
    BY <1>6 DEF CreateConversation, gatewayVars, requestVars
  <2>3. conv'[c] = [is |-> "live", folder |-> f] /\ \A d \in Conversation : d # c => conv'[d] = conv[d]
    BY <1>1, <2>1
  <2>4. StoreTypes'
    BY <1>1, <2>1, <2>2 DEF StoreTypes
  <2>5. Foldered'
    BY <1>2, <2>2, <2>3 DEF Foldered, Live
  <2>6. \A d \in Conversation : conv[d].is # "none" => conv'[d].is = conv[d].is
    BY <2>2, <2>3
  <2> QED
    BY <2>2, <2>4, <2>5, <2>6, StoreEdited
<1>7. ASSUME NEW c \in Conversation, PatchConversation(c) PROVE StoreInv'
  <2>1. PICK f \in folder \cup {NoFolder} : conv' = [conv EXCEPT ![c].folder = f]
    BY <1>7 DEF PatchConversation
  <2>2. UNCHANGED <<folder, msgs, turn, at, heard>>
    BY <1>7 DEF PatchConversation, Edit, requestVars
  <2>3. /\ conv'[c] = [conv[c] EXCEPT !.folder = f]
        /\ \A d \in Conversation : d # c => conv'[d] = conv[d]
    BY <1>1, <2>1
  <2>4. conv'[c].is = conv[c].is /\ conv'[c].folder = f
    BY <1>1, <2>3
  <2>5. StoreTypes'
    <3>1. conv'[c] \in [is : {"none", "live", "deleted"}, folder : Folder \cup {NoFolder}]
      BY <1>1, <2>3
    <3> QED
      BY <1>1, <2>1, <2>2, <2>3, <3>1 DEF StoreTypes
  <2>6. Foldered'
    BY <1>2, <2>2, <2>3, <2>4 DEF Foldered, Live
  <2>7. \A d \in Conversation : conv'[d].is = conv[d].is
    BY <2>3, <2>4
  <2> QED
    BY <2>2, <2>5, <2>6, <2>7, StoreEdited
<1> QED
  BY <1>4, <1>5, <1>6, <1>7

\* Requests move one at a time, and none goes back.
LEMMA StepOnward ==
  ASSUME GatewayInv, NEW r \in Request, RequestStep(r) \/ Chunk(r)
  PROVE  /\ at[r] \notin {"new", "done"} /\ at'[r] # "new"
         /\ \A q \in Request : q # r => at'[q] = at[q] /\ heard'[q] = heard[q]
<1>1. at \in [Request -> Phase] /\ heard \in [Request -> Seq(Piece)]
  BY DEF GatewayInv, GatewayTypes
<1>2. CASE Warmed(r) \/ Try(r) \/ NoUpstream(r) \/ Headers(r)
  BY <1>1, <1>2 DEF Warmed, Try, NoUpstream, Headers, Close, Reading
<1>3. CASE AnswerEnds(r) \/ AnswerBreaks(r)
  BY <1>1, <1>3 DEF AnswerEnds, AnswerBreaks, Close, Reading
<1>4. CASE Chunk(r)
  BY <1>1, <1>4 DEF Chunk
<1> QED
  BY <1>2, <1>3, <1>4 DEF RequestStep

LEMMA BeginOnward ==
  ASSUME GatewayInv, NEW r \in Request, Begin(r)
  PROVE  heard' = heard /\ \E a \in Phase \ {"new"} : at' = [at EXCEPT ![r] = a]
<1>1. CASE served = NoModel /\ Close(r, "unknown")
  BY <1>1 DEF Close, Phase
<1>2. CASE Close(r, "noTargets")
  BY <1>2 DEF Close, Phase
<1>3. ASSUME NEW warm \in BOOLEAN, at' = [at EXCEPT ![r] = IF warm THEN "warming" ELSE "asking"], UNCHANGED heard
      PROVE  heard' = heard /\ \E a \in Phase \ {"new"} : at' = [at EXCEPT ![r] = a]
  BY <1>3 DEF Phase
<1> QED
  BY <1>1, <1>2, <1>3 DEF Begin

LEMMA ArriveOnward ==
  ASSUME GatewayInv, NEW r \in Request, Arrive(r)
  PROVE  Onward
<1>1. at \in [Request -> Phase] /\ r \notin Chat /\ Chat \subseteq Request
  BY GatewayConstants DEF GatewayInv, GatewayTypes, Arrive
<1>2. heard' = heard /\ \E a : at' = [at EXCEPT ![r] = a]
  BY BeginOnward DEF Arrive, Close
<1> QED
  BY <1>1, <1>2 DEF Onward

LEMMA EnvironmentOnward ==
  ASSUME GatewayInv, NodeMoves \/ SaveModel \/ RemoveModel \/ GatewayRestart
  PROVE  Onward
<1>1. CASE NodeMoves \/ SaveModel \/ RemoveModel
  BY <1>1 DEF NodeMoves, SaveModel, RemoveModel, requestVars, Onward
<1>2. CASE GatewayRestart
  <2>1. Chat \subseteq Request
    BY GatewayConstants
  <2>2. \A q \in Request : /\ at'[q] = IF at[q] \in {"new", "done"} THEN at[q] ELSE "lost"
                           /\ heard'[q] = IF at[q] \in {"new", "done"} THEN heard[q] ELSE << >>
    BY <1>2 DEF GatewayRestart
  <2> QED
    BY <2>1, <2>2 DEF Onward
<1> QED
  BY <1>1, <1>2

\* A turn under way has no answer yet.
LEMMA NoAnswerYet ==
  ASSUME StoreInv, NEW r \in Chat, at[r] # "done"
  PROVE  \A j \in 1 .. Len(msgs) : ~Answers(msgs[j], r)
BY DEF StoreInv, RowsGood, Answered, Answers

\* Questions stay asked when rows are only added.
LEMMA StaysAsked ==
  ASSUME StoreInv, Onward, NEW r \in Chat, UNCHANGED conv,
         \A q \in Chat : q # r => turn'[q] = turn[q],
         \A j \in 1 .. Len(msgs) : j \in 1 .. Len(msgs') /\ msgs'[j] = msgs[j],
         \A c \in Conversation :
           turn'[r] = c => \/ turn[r] = c
                           \/ at'[r] # "new" /\ Live(c) /\ \E i \in 1 .. Len(msgs') : Asks(msgs'[i], r, c)
  PROVE  Asked'
<1> SUFFICES ASSUME NEW q \in Chat, NEW c \in Conversation, turn'[q] = c
             PROVE  /\ at'[q] # "new" /\ conv[c].is # "none"
                    /\ conv[c].is = "live" => \E i \in 1 .. Len(msgs') : Asks(msgs'[i], q, c)
  BY DEF Asked, Live
<1>1. CASE turn[q] = c
  <2>1. /\ at[q] # "new" /\ conv[c].is # "none"
        /\ conv[c].is = "live" => \E i \in 1 .. Len(msgs) : Asks(msgs[i], q, c)
    BY <1>1 DEF StoreInv, Asked, Live
  <2> QED
    BY <2>1 DEF Onward
<1>2. CASE turn[q] # c
  <2>1. q = r
    BY <1>2
  <2> QED
    BY <1>2, <2>1 DEF Live
<1> QED
  BY <1>1, <1>2

\* A question is posted, and its turn begun or refused.
LEMMA PostInv ==
  ASSUME GatewayInv, GatewayInv', StoreInv, NEW r \in Chat, NEW c \in Conversation, NEW image,
         PostMessage(r, c, image)
  PROVE  StoreInv'
<1> DEFINE m == Row(c, r, "user", << >>, FALSE)
           more == Append(msgs, m)
<1>1. at[r] = "new" /\ folder' = folder /\ conv' = conv /\ r \in Request
  BY GatewayConstants DEF PostMessage
<1>2. heard' = heard /\ \E a \in Phase \ {"new"} : at' = [at EXCEPT ![r] = a]
  BY <1>1, BeginOnward DEF PostMessage, Close, Phase
<1>3. at \in [Request -> Phase] /\ Chat \subseteq Request
  BY GatewayConstants DEF GatewayInv, GatewayTypes
<1>4. at'[r] # "new" /\ Onward
  BY <1>1, <1>2, <1>3 DEF Onward
<1>5. CASE msgs' = msgs /\ turn' = turn
  BY <1>1, <1>4, <1>5, StoreWaits DEF chatVars
<1>6. CASE Live(c) /\ \/ msgs' = more /\ turn' = turn
                      \/ Settle(r, more, c) /\ turn' = [turn EXCEPT ![r] = c]
  <2> HIDE DEF m
  <2>1. RowsGood(msgs, Alive, at', heard')
    BY <1>4, RowsMoveOn DEF Onward, StoreInv
  <2>2. c \in Alive /\ Alive' = Alive
    BY <1>1, <1>6 DEF Alive, Live
  <2> USE DEF m
  <2>3. /\ RowsGood(more, Alive, at', heard')
        /\ Asks(more[Len(more)], r, c) /\ Len(more) \in 1 .. Len(more)
        /\ \A j \in 1 .. Len(more) : Answers(more[j], r) => j \in 1 .. Len(msgs) /\ Answers(msgs[j], r)
    BY <1>4, <2>1, <2>2, QuestionStored
  <2> HIDE DEF m
  <2>4. \A j \in 1 .. Len(msgs) : j \in 1 .. Len(more) /\ more[j] = msgs[j]
    <3>1. msgs \in Seq(MsgRow) /\ m \in MsgRow
      BY DEF StoreInv, RowsGood, m, Row, MsgRow
    <3> QED
      BY <3>1
  <2>5. \A j \in 1 .. Len(more) : ~Answers(more[j], r)
    BY <1>1, <2>3, NoAnswerYet
  <2> HIDE DEF more
  <2>6. /\ RowsGood(msgs', Alive, at', heard')
        /\ \A j \in 1 .. Len(more) : j \in 1 .. Len(msgs') /\ msgs'[j] = more[j]
    <3>1. CASE msgs' = more
      BY <2>3, <3>1
    <3>2. CASE at'[r] = "done" /\ Settle(r, more, c)
      <4> DEFINE a == Answer(c, r, heard'[r], reply'[r])
      <4>1. msgs' = Append(more, a)
        BY <1>6, <3>2 DEF Settle, Append1, Answer, Row
      <4>2. heard'[r] \in Seq(Piece)
        BY <1>1 DEF GatewayInv, GatewayTypes
      <4>3. IsAnswer(a, c, r, heard'[r])
        BY <4>2, AnswerFacts
      <4> HIDE DEF a
      <4> QED
        BY <2>3, <2>5, <3>2, <4>1, <4>3, AnswerStored
    <3> QED
      BY <1>6, <3>1, <3>2 DEF Settle
  <2>7. turn \in [Chat -> Conversation \cup {NoConversation}]
    BY DEF StoreInv, StoreTypes
  <2>8. \E i \in 1 .. Len(msgs') : Asks(msgs'[i], r, c)
    BY <2>3, <2>6
  <2>9. Asked'
    <3>1. \A j \in 1 .. Len(msgs) : j \in 1 .. Len(msgs') /\ msgs'[j] = msgs[j]
      BY <2>4, <2>6
    <3>2. \A q \in Chat : q # r => turn'[q] = turn[q]
      BY <1>6, <2>7
    <3>3. \A d : turn'[r] = d => turn[r] = d \/ d = c
      BY <1>6, <2>7
    <3> QED
      BY <1>1, <1>4, <1>6, <2>8, <3>1, <3>2, <3>3, StaysAsked
  <2>10. StoreTypes' /\ Foldered'
    BY <1>1, <1>6, <2>7 DEF StoreInv, StoreTypes, Foldered, Live
  <2> QED
    BY <2>2, <2>6, <2>9, <2>10 DEF StoreInv
<1> QED
  BY <1>5, <1>6 DEF PostMessage

\* The gateway moves a turn on, and its answer is stored when it has ended.
LEMMA TurnInv ==
  ASSUME GatewayInv, GatewayInv', StoreInv, NEW r \in Request, TurnStep(r)
  PROVE  StoreInv'
<1>1. r \in Chat /\ (RequestStep(r) \/ Chunk(r)) /\ UNCHANGED <<folder, conv, turn>>
  BY DEF TurnStep
<1>2. PICK c \in Conversation : turn[r] = c /\ Settle(r, msgs, c)
  BY DEF TurnStep
<1>3. at[r] \notin {"new", "done"} /\ Onward
  <2>1. Chat \subseteq Request
    BY GatewayConstants
  <2> QED
    BY <1>1, <2>1, StepOnward DEF Onward
<1>4. CASE msgs' = msgs
  BY <1>1, <1>3, <1>4, StoreWaits DEF chatVars
<1>5. CASE msgs' # msgs
  <2>1. at'[r] = "done" /\ Live(c) /\ msgs' = Append(msgs, Answer(c, r, heard'[r], reply'[r]))
    BY <1>2, <1>5 DEF Settle, Append1, Answer, Row
  <2>2. RowsGood(msgs, Alive, at', heard')
    BY <1>3, RowsMoveOn DEF Onward, StoreInv
  <2>3. \E i \in 1 .. Len(msgs) : Asks(msgs[i], r, c)
    BY <1>1, <1>2, <2>1 DEF StoreInv, Asked
  <2>4. \A j \in 1 .. Len(msgs) : ~Answers(msgs[j], r)
    BY <1>1, <1>3, NoAnswerYet
  <2>5. heard'[r] \in Seq(Piece)
    BY DEF GatewayInv, GatewayTypes
  <2>6. /\ RowsGood(msgs', Alive, at', heard')
        /\ \A j \in 1 .. Len(msgs) : j \in 1 .. Len(msgs') /\ msgs'[j] = msgs[j]
    <3> DEFINE a == Answer(c, r, heard'[r], reply'[r])
    <3>1. r \in Chat /\ msgs' = Append(msgs, a)
      BY <1>1, <2>1
    <3>2. IsAnswer(a, c, r, heard'[r])
      BY <2>5, <3>1, AnswerFacts
    <3> HIDE DEF a
    <3> QED
      BY <2>1, <2>2, <2>3, <2>4, <3>1, <3>2, AnswerStored
  <2>7. Asked'
    BY <1>1, <1>3, <2>6, StaysAsked
  <2>8. StoreTypes' /\ Foldered' /\ Alive' = Alive
    BY <1>1 DEF StoreInv, StoreTypes, Foldered, Alive, Live
  <2> QED
    BY <2>6, <2>7, <2>8 DEF StoreInv
<1> QED
  BY <1>4, <1>5

----------------------------------------------------------------------------
(* The theorems.                                                           *)

\* Every step keeps the gateway's invariant ...
LEMMA GatewayKept ==
  ASSUME GatewayInv, [Next]_vars
  PROVE  GatewayInv'
<1>1. moves \in 0 .. MaxMoves /\ MaxMoves \in Nat
  BY GatewayConstants DEF GatewayInv, GatewayTypes
<1>2. CASE CreateFolder \/ DeleteFolder \/ \E c \in Conversation : PatchConversation(c)
  <2>1. moves' \in 0 .. MaxMoves /\ UNCHANGED <<served, node, rr, requestVars, firsts, seconds>>
    BY <1>1, <1>2 DEF CreateFolder, DeleteFolder, PatchConversation, Edit, Counted
  <2> QED
    BY <2>1, GatewayStutter
<1>3. CASE (\E c \in Conversation : CreateConversation(c) \/ DeleteConversation(c)) \/ UNCHANGED vars
  <2>1. moves' \in 0 .. MaxMoves /\ UNCHANGED <<served, node, rr, requestVars, firsts, seconds>>
    BY <1>1, <1>3 DEF CreateConversation, DeleteConversation, gatewayVars, vars
  <2> QED
    BY <2>1, GatewayStutter
<1>4. ASSUME NEW r \in Chat, NEW c \in Conversation, NEW image, PostMessage(r, c, image)
      PROVE  GatewayInv'
  <2>1. r \in Request /\ at[r] = "new" /\ UNCHANGED <<served, node, moves>>
    BY <1>4, GatewayConstants DEF PostMessage
  <2>2. CASE Begin(r)
    BY <2>1, <2>2, BeginInv
  <2>3. ASSUME NEW s \in {"unknownConversation", "notVision", "tooLarge"}, Close(r, s), UNCHANGED <<rr, firsts, seconds>>
        PROVE  GatewayInv'
    <3>1. s \in Status \ {"none"} /\ s # "noUpstream"
      BY DEF Status
    <3> QED
      BY <2>1, <2>3, <3>1, CloseInv
  <2> QED
    BY <1>4, <2>2, <2>3 DEF PostMessage
<1>5. ASSUME NEW r \in Request, TurnStep(r) \/ ApiStep(r)
      PROVE  GatewayInv'
  BY <1>5, RequestStepInv, ArriveInv DEF TurnStep, ApiStep
<1>6. CASE Environment
  BY <1>6, EnvironmentInv DEF Environment
<1> QED
  BY <1>2, <1>3, <1>4, <1>5, <1>6 DEF Next

\* ... and the store's.
LEMMA StoreKept ==
  ASSUME GatewayInv, GatewayInv', StoreInv, [Next]_vars
  PROVE  StoreInv'
<1>1. CASE CreateFolder \/ DeleteFolder \/ (\E c \in Conversation : CreateConversation(c) \/ PatchConversation(c))
  BY <1>1, EditInv
<1>2. CASE \E c \in Conversation : DeleteConversation(c)
  BY <1>2, DeleteInv
<1>3. CASE \E r \in Chat, c \in Conversation, image \in {"none", "fits", "large"} : PostMessage(r, c, image)
  BY <1>3, PostInv
<1>4. CASE \E r \in Request : TurnStep(r)
  BY <1>4, TurnInv
<1>5. ASSUME NEW r \in Request, ApiStep(r) PROVE StoreInv'
  <2>1. CASE Arrive(r)
    BY <1>5, <2>1, ArriveOnward, StoreWaits DEF ApiStep
  <2>2. CASE RequestStep(r)
    <3>1. Chat \subseteq Request
      BY GatewayConstants
    <3>2. Onward
      BY <1>5, <2>2, <3>1, StepOnward DEF ApiStep, Onward
    <3> QED
      BY <1>5, <3>2, StoreWaits DEF ApiStep
  <2> QED
    BY <1>5, <2>1, <2>2 DEF ApiStep
<1>6. CASE Environment
  BY <1>6, EnvironmentOnward, StoreWaits DEF Environment
<1>7. CASE UNCHANGED vars
  <2>1. Onward /\ UNCHANGED chatVars
    BY <1>7 DEF vars, gatewayVars, requestVars, Onward
  <2> QED
    BY <2>1, StoreWaits
<1> QED
  BY <1>1, <1>2, <1>3, <1>4, <1>5, <1>6, <1>7 DEF Next

LEMMA StoreStarts ==
  ASSUME Init
  PROVE  StoreInv
<1>1. msgs = << >> /\ \A c \in Conversation : conv[c] = [is |-> "none", folder |-> NoFolder]
  BY DEF Init, NoRow
<1>2. StoreTypes
  BY DEF Init, NoRow, StoreTypes
<1>3. Foldered
  BY <1>1 DEF Foldered, Live
<1>4. RowsGood(msgs, Alive, at, heard)
  BY <1>1 DEF RowsGood
<1>5. Asked
  <2>1. \A r \in Chat : turn[r] = NoConversation
    BY DEF Init
  <2> QED
    BY <2>1, ChatConstants DEF Asked
<1> QED
  BY <1>2, <1>3, <1>4, <1>5 DEF StoreInv

\* What holds in every state of the chat: each request has tried the beginning of the
\* chain it was given and has the rest of it still to try, each class of targets is in
\* turn, and each stored row has its place.
THEOREM ChatInvariance == Spec => [](GatewayInv /\ StoreInv)
<1>1. Init => GatewayInv /\ StoreInv
  BY GatewayStarts, StoreStarts DEF Init
<1>2. GatewayInv /\ StoreInv /\ [Next]_vars => (GatewayInv /\ StoreInv)'
  BY GatewayKept, StoreKept
<1> QED
  BY <1>1, <1>2, PTL DEF Spec

\* Every variable of the gateway and of the store keeps its type.
THEOREM ChatTypes == Spec => []TypeOK
<1>1. GatewayInv /\ StoreInv => TypeOK
  BY DEF GatewayInv, GatewayTypes, StoreInv, StoreTypes, TypeOK
<1> QED
  BY <1>1, ChatInvariance, PTL

\* Failover in order of health, and round robin among the targets of a class, for any
\* number of targets and of requests (servedModels.ts, gateway.ts).
THEOREM RoutedInOrder == Spec => []RoutedWell
<1>1. GatewayInv => RoutedWell
  BY Failover, Turns DEF RoutedWell
<1> QED
  BY <1>1, ChatInvariance, PTL

\* The store of conversations is sound whatever is deleted while an engine answers
\* (chat/store.ts, chat/routes.ts).
THEOREM TheStoreIsSound == Spec => []StoreSound
<1>1. ASSUME StoreInv PROVE StoreSound
  <2>1. \A c \in Conversation : Live(c) => conv[c].folder \in folder \cup {NoFolder}
    BY <1>1 DEF StoreInv, Foldered
  <2>2. \A i \in 1 .. Len(msgs) : Live(msgs[i].conv)
    BY <1>1 DEF StoreInv, RowsGood, Alive
  <2>3. ASSUME NEW i \in 1 .. Len(msgs), msgs[i].role = "assistant"
        PROVE  /\ \E j \in 1 .. (i - 1) : /\ msgs[j].role = "user" /\ msgs[j].turn = msgs[i].turn
                                          /\ msgs[j].conv = msgs[i].conv
               /\ \A j \in 1 .. Len(msgs) : msgs[j].turn = msgs[i].turn /\ msgs[j].role = "assistant" => j = i
    BY <1>1, <2>3 DEF StoreInv, RowsGood, Answered, Asks, Answers
  <2> QED
    BY <2>1, <2>2, <2>3 DEF StoreSound
<1> QED
  BY <1>1, ChatInvariance, PTL

\* The stored answer is the one the browser showed, for any number of engines and of
\* chunks, but for the unfinished lines that the exception names (chat/sse.ts).
THEOREM ShownAndStored == Spec => []ShownIsStored
<1>1. ASSUME GatewayInv, StoreInv PROVE ShownIsStored
  <2> SUFFICES ASSUME NEW i \in 1 .. Len(msgs), msgs[i].role = "assistant",
                      NEW chunks, chunks = heard[msgs[i].turn],
                      \A k \in 1 .. Len(chunks) :
                        ~ /\ chunks[k].status = "failed"
                          /\ chunks[k].part = "first" \/ (k > 1 /\ chunks[k - 1].part = "first")
               PROVE  msgs[i].text = Shown(chunks).text
    BY DEF ShownIsStored
  <2>1. msgs[i].text = Collected(chunks).text /\ msgs[i].turn \in Chat
    <3>1. msgs[i] \in MsgRow /\ Answered(msgs, i, at, heard)
      BY <1>1 DEF StoreInv, RowsGood
    <3> QED
      BY <3>1 DEF Answered, MsgRow
  <2>2. chunks \in Seq(Piece)
    BY <1>1, <2>1, GatewayConstants DEF GatewayInv, GatewayTypes
  <2> QED
    BY <2>1, <2>2, ReadersAgree
<1> QED
  BY <1>1, ChatInvariance, PTL
=============================================================================
