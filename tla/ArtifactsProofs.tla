---------------------------- MODULE ArtifactsProofs ----------------------------
(***************************************************************************)
(* The safety of Artifacts, for any number of projects, uploads and frames *)
(* and whatever the maps say; and, for every map a bundler may write, that *)
(* Parse gives it back and Resolve finds in it what was meant.  What the   *)
(* loops of the parser compute is shown against the states they ought to   *)
(* go through, from one segment, line or digit to the next.                *)
(***************************************************************************)
EXTENDS Artifacts, SequenceTheorems, WellFoundedInduction, TLAPS

--------------------------------------------------------------------------------
(* Induction. *)
LessThan == {mn \in Nat \X Nat : mn[1] < mn[2]}

(* The order of the natural numbers, as the library wants it. *)
LEMMA LessThanWellFounded == IsWellFoundedOn(LessThan, Nat)
BY NatLessThanWellFounded DEF OpToRel, LessThan

(* A set of natural numbers has a least element. *)
LEMMA LeastElement ==
  ASSUME NEW T, T \subseteq Nat, T # {}
  PROVE  \E m \in T : \A k \in T : m <= k
<1>1. \E m \in T : \A k \in T : ~ (<<k, m>> \in LessThan)
  BY LessThanWellFounded, WFMin
<1>2. \A k, m \in Nat : k < m => <<k, m>> \in LessThan
  BY DEF LessThan
<1>3. \A k, m \in T : ~(k < m) => m <= k
  OBVIOUS
<1>4. \A k, m \in T : ~(<<k, m>> \in LessThan) => m <= k
  BY <1>2, <1>3
<1>5. QED
  BY <1>1, <1>4

(* Induction up to N, on the set of numbers for which something holds. *)
LEMMA UpTo ==
  ASSUME NEW N \in Nat, NEW T, 0 \in T, \A n \in 1 .. N : n - 1 \in T => n \in T
  PROVE  0 .. N \subseteq T
<1> DEFINE Bad == {n \in 0 .. N : n \notin T}
<1> SUFFICES ASSUME Bad # {}
             PROVE  FALSE
  OBVIOUS
<1>1. Bad \subseteq Nat
  OBVIOUS
<1>2. PICK n \in Bad : \A k \in Bad : n <= k
  <2> HIDE DEF Bad
  <2> QED
    BY <1>1, LeastElement
<1>3. n \in 1 .. N /\ n - 1 \in 0 .. N /\ ~ (n <= n - 1)
  OBVIOUS
<1>4. n - 1 \in T
  BY <1>2, <1>3
<1>5. QED
  BY <1>3, <1>4

(* What f[n \in 0 .. N] == IF n = 0 THEN base ELSE step(n, f[n - 1]) is.       *)
Computes(f, N, V, base, step) ==
  /\ f \in [0 .. N -> V]
  /\ f[0] = base
  /\ \A n \in 1 .. N : f[n] = step[<<n, f[n - 1]>>]

(* Such a recursive definition defines a function. *)
LEMMA Recursive ==
  ASSUME NEW N \in Nat, NEW V, NEW base \in V, NEW step \in [(1 .. N) \X V -> V]
  PROVE  \E f : Computes(f, N, V, base, step)
<1> DEFINE Solves(f, n) == /\ f \in [0 .. n -> V]
                           /\ f[0] = base
                           /\ \A k \in 1 .. n : f[k] = step[<<k, f[k - 1]>>]
           Bad == {n \in 0 .. N : ~ \E f : Solves(f, n)}
<1>1. CASE Bad = {}
  <2>1. N \in 0 .. N
    OBVIOUS
  <2>2. \E f : Solves(f, N)
    BY <1>1, <2>1
  <2>3. QED
    BY <2>2 DEF Computes
<1>2. CASE Bad # {}
  <2>1. PICK n \in Bad : \A k \in Bad : n <= k
    <3>1. Bad \subseteq Nat
      OBVIOUS
    <3> HIDE DEF Bad
    <3>2. QED
      BY <1>2, <3>1, LeastElement
  <2>2. CASE n = 0
    <3>1. Solves([k \in 0 .. 0 |-> base], 0)
      OBVIOUS
    <3>2. QED
      BY <2>1, <2>2, <3>1
  <2>3. CASE n > 0
    <3>1. n - 1 \in 0 .. N /\ ~ (n <= n - 1)
      BY <2>3
    <3>2. n - 1 \notin Bad
      BY <2>1, <3>1
    <3>3. PICK f : Solves(f, n - 1)
      BY <3>1, <3>2
    <3> DEFINE g == [k \in 0 .. n |-> IF k = n THEN step[<<n, f[n - 1]>>] ELSE f[k]]
    <3>4. step[<<n, f[n - 1]>>] \in V
      BY <2>3, <3>1, <3>3
    <3>5. g \in [0 .. n -> V] /\ g[0] = base
      BY <2>3, <3>3, <3>4
    <3>6. ASSUME NEW k \in 1 .. n
          PROVE  g[k] = step[<<k, g[k - 1]>>]
      <4>1. g[k - 1] = f[k - 1]
        BY <2>3
      <4>2. CASE k = n
        <5>1. k \in 0 .. n /\ g[k] = step[<<n, f[n - 1]>>]
          BY <4>2
        <5>2. QED
          BY <4>1, <4>2, <5>1
      <4>3. CASE k # n
        <5>1. k \in 1 .. n - 1 /\ g[k] = f[k]
          BY <4>3
        <5>2. QED
          BY <3>3, <4>1, <5>1
      <4>4. QED
        BY <4>2, <4>3
    <3>7. Solves(g, n)
      BY <3>5, <3>6
    <3>8. QED
      BY <2>1, <3>7
  <2>4. QED
    BY <2>2, <2>3
<1>3. QED
  BY <1>1, <1>2

(* What FlattenSeq has gathered of the first n sequences. *)
Gathers(s, S, G) ==
  /\ G \in [0 .. Len(s) -> Seq(S)]
  /\ G[0] = << >>
  /\ \A n \in 1 .. Len(s) : G[n] = G[n - 1] \o s[n]

(* FlattenSeq gathers them all. *)
LEMMA FlattenPrefixes ==
  ASSUME NEW S, NEW s \in Seq(Seq(S))
  PROVE  \E G : Gathers(s, S, G) /\ FlattenSeq(s) = G[Len(s)]
<1> DEFINE N == Len(s)
           step == [nv \in (1 .. N) \X Seq(S) |-> nv[2] \o s[nv[1]]]
           Flat(f) == [i \in 1 .. Len(s) |-> IF i = 1 THEN s[i] ELSE f[i - 1] \o s[i]]
<1>1. N \in Nat /\ << >> \in Seq(S) /\ \A n \in 1 .. N : s[n] \in Seq(S)
  OBVIOUS
<1>2. step \in [(1 .. N) \X Seq(S) -> Seq(S)]
  BY <1>1
<1>3. \A n \in 1 .. N, v \in Seq(S) : step[<<n, v>>] = v \o s[n]
  OBVIOUS
<1>4. PICK G \in [0 .. N -> Seq(S)] :
        G[0] = << >> /\ \A n \in 1 .. N : G[n] = step[<<n, G[n - 1]>>]
  <2> DEFINE V == Seq(S)
             base == << >>
  <2>1. N \in Nat /\ base \in V /\ step \in [(1 .. N) \X V -> V]
    BY <1>1, <1>2
  <2> HIDE DEF N, step, V, base
  <2>2. \E f : Computes(f, N, V, base, step)
    BY <2>1, Recursive
  <2>3. QED
    BY <2>2 DEF Computes, V, base
<1>5. \A n \in 1 .. N : n - 1 \in 0 .. N /\ G[n - 1] \in Seq(S)
  <2> HIDE DEF N
  <2> QED
    BY <1>1, <1>4
<1>6. \A n \in 1 .. N : G[n] = G[n - 1] \o s[n]
  <2> HIDE DEF N, step
  <2> QED
    BY <1>3, <1>4, <1>5
<1>7. N # 0 => G[1] = s[1]
  <2> HIDE DEF N
  <2> SUFFICES ASSUME N # 0
               PROVE  G[1] = s[1]
    OBVIOUS
  <2>1. 1 \in 1 .. N /\ 1 - 1 = 0
    BY <1>1
  <2>2. G[1] = G[0] \o s[1]
    BY <1>6, <2>1
  <2>3. G[0] = << >> /\ s[1] \in Seq(S)
    BY <1>1, <1>4, <2>1
  <2>4. QED
    BY <2>2, <2>3
<1>8. Gathers(s, S, G)
  BY <1>4, <1>6 DEF Gathers
<1>9. CASE N = 0
  BY <1>4, <1>8, <1>9 DEF FlattenSeq
<1>10. CASE N # 0
  <2> DEFINE H == [i \in 1 .. N |-> G[i]]
             flatten == CHOOSE f : f = Flat(f)
  <2>1. \A i \in 1 .. N : H[i] = IF i = 1 THEN s[i] ELSE H[i - 1] \o s[i]
    <3> SUFFICES ASSUME NEW i \in 1 .. N
                 PROVE  H[i] = IF i = 1 THEN s[i] ELSE H[i - 1] \o s[i]
      OBVIOUS
    <3>1. CASE i = 1
      BY <1>10, <1>7, <3>1
    <3>2. CASE i # 1
      <4>1. i - 1 \in 1 .. N
        BY <1>1, <3>2
      <4>2. QED
        BY <1>6, <3>2, <4>1
    <3>3. QED
      BY <3>1, <3>2
  <2>2. H = Flat(H)
    <3> HIDE DEF H
    <3>1. H = [i \in 1 .. N |-> H[i]]
      BY DEF H
    <3>2. QED
      BY <2>1, <3>1
  <2>3. flatten = Flat(flatten)
    <3> HIDE DEF H, Flat
    <3> QED
      BY <2>2
  <2>4. FlattenSeq(s) = flatten[N]
    BY <1>10 DEF FlattenSeq
  <2> DEFINE Bad == {n \in 1 .. N : flatten[n] # G[n]}
  <2>5. Bad = {}
    <3> SUFFICES ASSUME Bad # {}
                 PROVE  FALSE
      OBVIOUS
    <3>1. PICK n \in Bad : \A k \in Bad : n <= k
      <4>1. Bad \subseteq Nat
        OBVIOUS
      <4> HIDE DEF Bad
      <4>2. QED
        BY <4>1, LeastElement
    <3>2. flatten[n] = IF n = 1 THEN s[n] ELSE flatten[n - 1] \o s[n]
      <4> HIDE DEF flatten
      <4> QED
        BY <2>3
    <3>3. CASE n = 1
      <4> HIDE DEF flatten
      <4> QED
        BY <1>10, <1>7, <3>1, <3>2, <3>3
    <3>4. CASE n # 1
      <4> HIDE DEF flatten, N
      <4>1. n - 1 \in 1 .. N /\ ~ (n <= n - 1)
        BY <1>1, <3>4
      <4>2. flatten[n - 1] = G[n - 1]
        BY <3>1, <4>1
      <4>3. QED
        BY <1>6, <3>1, <3>2, <3>4, <4>2
    <3>5. QED
      BY <3>3, <3>4
  <2>6. N \in 1 .. N
    BY <1>1, <1>10
  <2> HIDE DEF flatten
  <2>7. flatten[N] = G[N]
    <3> HIDE DEF N
    <3> QED
      BY <2>5, <2>6
  <2>8. FlattenSeq(s) = G[Len(s)]
    BY <2>4, <2>7
  <2>9. QED
    BY <1>8, <2>8
<1>11. QED
  BY <1>9, <1>10

--------------------------------------------------------------------------------
(* Division by 32 takes a digit away. *)
LEMMA Division ==
  ASSUME NEW n \in Nat
  PROVE  /\ n \div 32 \in Nat /\ n % 32 \in 0 .. 31
         /\ n = 32 * (n \div 32) + (n % 32)
         /\ n >= 32 => n \div 32 < n
OBVIOUS

(* VLQ is what its definition says: there is such a function. *)
Digit == 0 .. 63

VLQBody(f, n) == IF n < 32 THEN <<n>> ELSE <<32 + (n % 32)>> \o f[n \div 32]

SolvesVLQ(f, N) ==
  /\ f \in [0 .. N -> Seq(Digit)]
  /\ \A n \in 0 .. N : f[n] = VLQBody(f, n)

(* And multiplication by 32 makes room for one. *)
LEMMA Multiplication ==
  ASSUME NEW m \in Nat, NEW d \in 0 .. 31, m # 0
  PROVE  /\ 32 * m + d \in Nat /\ 32 * m + d >= 32
         /\ (32 * m + d) \div 32 = m /\ (32 * m + d) % 32 = d
<1> DEFINE n == 32 * m + d
<1>1. n \in Nat /\ n >= 32
  OBVIOUS
<1>2. n \div 32 \in Nat /\ n % 32 \in 0 .. 31 /\ n = 32 * (n \div 32) + (n % 32)
  <2> HIDE DEF n
  <2> QED
    BY <1>1, Division
<1> DEFINE q == n \div 32
           s == n % 32
<1>3. q \in Nat /\ s \in 0 .. 31 /\ 32 * m + d = 32 * q + s
  <2>1. n = 32 * q + s
    BY <1>2
  <2> HIDE DEF q, s
  <2>2. 32 * m + d = 32 * q + s
    BY <2>1
  <2>3. QED
    BY <1>2, <2>2 DEF q, s
<1>4. q = m /\ s = d
  <2> HIDE DEF q, s, n
  <2> QED
    BY <1>3
<1>5. QED
  BY <1>1, <1>4

(* A digit and the digits of what is left are digits. *)
LEMMA VLQBodyType ==
  ASSUME NEW n \in Nat, NEW f, n >= 32 => f[n \div 32] \in Seq(Digit)
  PROVE  VLQBody(f, n) \in Seq(Digit)
<1>1. CASE n < 32
  <2>1. n \in Digit
    BY <1>1 DEF Digit
  <2> HIDE DEF Digit
  <2>2. QED
    BY <1>1, <2>1 DEF VLQBody
<1>2. CASE n >= 32
  <2>1. 32 + (n % 32) \in Digit
    BY Division DEF Digit
  <2> HIDE DEF Digit
  <2> DEFINE d == 32 + (n % 32)
             s == f[n \div 32]
  <2>2. d \in Digit /\ s \in Seq(Digit)
    BY <1>2, <2>1
  <2>3. VLQBody(f, n) = <<d>> \o s
    BY <1>2 DEF VLQBody
  <2> HIDE DEF d, s
  <2>4. QED
    BY <2>2, <2>3
<1>3. QED
  BY <1>1, <1>2

(* The digits of every number up to N can be written down. *)
LEMMA VLQPrefixes ==
  ASSUME NEW N \in Nat
  PROVE  \E f : SolvesVLQ(f, N)
<1> DEFINE Bad == {n \in Nat : ~ \E f : SolvesVLQ(f, n)}
<1> SUFFICES ASSUME Bad # {}
             PROVE  FALSE
  OBVIOUS
<1>1. PICK n \in Bad : \A k \in Bad : n <= k
  <2>1. Bad \subseteq Nat
    OBVIOUS
  <2> HIDE DEF Bad
  <2>2. QED
    BY <2>1, LeastElement
<1>2. CASE n = 0
  <2> DEFINE f == [k \in 0 .. 0 |-> <<0>>]
  <2>1. 0 \in Digit
    BY DEF Digit
  <2>2. <<0>> \in Seq(Digit)
    <3> HIDE DEF Digit
    <3> QED
      BY <2>1
  <2>3. f \in [0 .. 0 -> Seq(Digit)] /\ f[0] = <<0>>
    BY <2>2
  <2>4. \A k \in 0 .. 0 : k = 0 /\ f[k] = VLQBody(f, k)
    BY DEF VLQBody
  <2>5. SolvesVLQ(f, n)
    BY <1>2, <2>3, <2>4 DEF SolvesVLQ
  <2>6. QED
    BY <1>1, <2>5
<1>3. CASE n > 0
  <2>1. n \in Nat /\ n - 1 \in Nat /\ ~ (n <= n - 1)
    BY <1>3
  <2>2. n - 1 \notin Bad
    BY <1>1, <2>1
  <2>3. PICK f : SolvesVLQ(f, n - 1)
    BY <2>1, <2>2
  <2> DEFINE g == [k \in 0 .. n |-> IF k = n THEN VLQBody(f, n) ELSE f[k]]
  <2>4. \A k \in 0 .. n : k # n => k \in 0 .. n - 1 /\ f[k] \in Seq(Digit) /\ g[k] = f[k]
    BY <2>1, <2>3 DEF SolvesVLQ
  <2>5. \A k \in 0 .. n : k >= 32 => k \div 32 \in 0 .. n /\ k \div 32 # n
    <3> SUFFICES ASSUME NEW k \in 0 .. n, k >= 32
                 PROVE  k \div 32 \in 0 .. n /\ k \div 32 # n
      OBVIOUS
    <3>1. k \in Nat
      OBVIOUS
    <3>2. k \div 32 \in Nat /\ k \div 32 < k
      BY <3>1, Division
    <3>3. QED
      BY <2>1, <3>2
  <2>6. \A k \in 0 .. n : VLQBody(g, k) = VLQBody(f, k)
    <3> HIDE DEF g
    <3> QED
      BY <2>4, <2>5 DEF VLQBody
  <2>7. n \in 0 .. n /\ VLQBody(f, n) \in Seq(Digit)
    BY <2>1, <2>4, <2>5, VLQBodyType
  <2>8. g \in [0 .. n -> Seq(Digit)]
    <3>1. \A k \in 0 .. n : (IF k = n THEN VLQBody(f, n) ELSE f[k]) \in Seq(Digit)
      BY <2>4, <2>7
    <3>2. QED
      BY <3>1
  <2>9. \A k \in 0 .. n : g[k] = VLQBody(f, k)
    <3> SUFFICES ASSUME NEW k \in 0 .. n
                 PROVE  g[k] = VLQBody(f, k)
      OBVIOUS
    <3>1. CASE k = n
      BY <3>1, <2>7
    <3>2. CASE k # n
      <4>1. g[k] = f[k] /\ k \in 0 .. n - 1
        BY <2>4, <3>2
      <4> HIDE DEF g
      <4>2. QED
        BY <2>3, <4>1 DEF SolvesVLQ
    <3>3. QED
      BY <3>1, <3>2
  <2> HIDE DEF g
  <2>10. SolvesVLQ(g, n)
    BY <2>6, <2>8, <2>9 DEF SolvesVLQ
  <2>11. QED
    BY <1>1, <2>10
<1>4. QED
  BY <1>1, <1>2, <1>3

(* There is one way to write them. *)
LEMMA VLQUnique ==
  ASSUME NEW N \in Nat, NEW M \in Nat, NEW f, NEW h, SolvesVLQ(f, N), SolvesVLQ(h, M),
         NEW n \in Nat, n <= N, n <= M
  PROVE  f[n] = h[n]
<1> DEFINE Bad == {k \in Nat : k <= N /\ k <= M /\ f[k] # h[k]}
<1> SUFFICES ASSUME Bad # {}
             PROVE  FALSE
  OBVIOUS
<1>1. PICK k \in Bad : \A j \in Bad : k <= j
  <2>1. Bad \subseteq Nat
    OBVIOUS
  <2> HIDE DEF Bad
  <2>2. QED
    BY <2>1, LeastElement
<1>2. f[k] = VLQBody(f, k) /\ h[k] = VLQBody(h, k)
  BY <1>1 DEF SolvesVLQ
<1>3. CASE k < 32
  BY <1>1, <1>2, <1>3 DEF VLQBody
<1>4. CASE k >= 32
  <2>1. k \div 32 \in Nat /\ k \div 32 < k
    BY <1>1, <1>4, Division
  <2> DEFINE q == k \div 32
  <2>2. q \in Nat /\ q < k
    BY <2>1
  <2>3. f[q] = h[q]
    <3> HIDE DEF q
    <3>1. ~ (k <= q) /\ q <= N /\ q <= M
      BY <1>1, <2>2
    <3>2. QED
      BY <1>1, <2>2, <3>1
  <2>4. QED
    BY <1>1, <1>2, <2>3 DEF VLQBody
<1>5. QED
  BY <1>1, <1>3, <1>4

(* So VLQ solves its own equation, whatever the number. *)
LEMMA VLQFacts ==
  ASSUME NEW n \in Nat
  PROVE  VLQ[n] \in Seq(Digit) /\ VLQ[n] = VLQBody(VLQ, n)
<1> DEFINE Upto(k) == CHOOSE f : SolvesVLQ(f, k)
           F == [k \in Nat |-> Upto(k)[k]]
           Body(f) == [k \in Nat |-> VLQBody(f, k)]
<1>1. \A k \in Nat : SolvesVLQ(Upto(k), k)
  BY VLQPrefixes
<1>2. \A k \in Nat : F[k] \in Seq(Digit) /\ F[k] = VLQBody(F, k)
  <2> SUFFICES ASSUME NEW k \in Nat
               PROVE  F[k] \in Seq(Digit) /\ F[k] = VLQBody(F, k)
    OBVIOUS
  <2>1. k \in 0 .. k /\ SolvesVLQ(Upto(k), k) /\ F[k] = Upto(k)[k]
    BY <1>1
  <2>2. F[k] \in Seq(Digit) /\ F[k] = VLQBody(Upto(k), k)
    <3> HIDE DEF Upto, F
    <3> QED
      BY <2>1 DEF SolvesVLQ
  <2>3. k >= 32 => Upto(k)[k \div 32] = F[k \div 32]
    <3> SUFFICES ASSUME k >= 32
                 PROVE  Upto(k)[k \div 32] = F[k \div 32]
      OBVIOUS
    <3> DEFINE q == k \div 32
    <3>1. q \in Nat /\ q < k
      BY Division
    <3> HIDE DEF q
    <3>2. SolvesVLQ(Upto(q), q) /\ F[q] = Upto(q)[q]
      BY <1>1, <3>1
    <3> HIDE DEF Upto, F
    <3>3. q <= k /\ q <= q
      BY <3>1
    <3>4. Upto(k)[q] = Upto(q)[q]
      BY <2>1, <3>1, <3>2, <3>3, VLQUnique
    <3>5. QED
      BY <3>2, <3>4 DEF q
  <2>4. VLQBody(Upto(k), k) = VLQBody(F, k)
    <3> HIDE DEF Upto, F
    <3> QED
      BY <2>3 DEF VLQBody
  <2>5. QED
    BY <2>2, <2>4
<1>3. F = Body(F)
  <2>1. F = [k \in Nat |-> F[k]]
    OBVIOUS
  <2> HIDE DEF F
  <2>2. QED
    BY <1>2, <2>1
<1>4. VLQ = Body(VLQ)
  <2> HIDE DEF F, Body
  <2>1. Body(VLQ) = [k \in Nat |-> IF k < 32 THEN <<k>> ELSE <<32 + (k % 32)>> \o VLQ[k \div 32]]
    BY DEF Body, VLQBody
  <2> DEFINE G == CHOOSE f : f = Body(f)
  <2>2. G = Body(G)
    BY <1>3
  <2>3. VLQ = G
    BY DEF VLQ, Body, VLQBody
  <2>4. QED
    BY <2>2, <2>3
<1>5. \A k \in Nat : VLQ[k] = VLQBody(VLQ, k)
  BY <1>4
<1>6. VLQ[n] \in Seq(Digit)
  <2> DEFINE Bad == {k \in Nat : VLQ[k] \notin Seq(Digit)}
  <2> SUFFICES ASSUME Bad # {}
               PROVE  FALSE
    OBVIOUS
  <2>1. PICK k \in Bad : \A j \in Bad : k <= j
    <3>1. Bad \subseteq Nat
      OBVIOUS
    <3> HIDE DEF Bad
    <3>2. QED
      BY <3>1, LeastElement
  <2>2. k >= 32 => VLQ[k \div 32] \in Seq(Digit)
    <3> SUFFICES ASSUME k >= 32
                 PROVE  VLQ[k \div 32] \in Seq(Digit)
      OBVIOUS
    <3> DEFINE q == k \div 32
    <3>1. q \in Nat /\ q < k
      BY Division
    <3> HIDE DEF q
    <3>2. ~ (k <= q)
      BY <2>1, <3>1
    <3>3. QED
      BY <2>1, <3>1, <3>2 DEF q
  <2>3. VLQBody(VLQ, k) \in Seq(Digit)
    BY <2>1, <2>2, VLQBodyType
  <2>4. QED
    BY <1>5, <2>1, <2>3
<1>7. QED
  BY <1>5, <1>6

--------------------------------------------------------------------------------
(* What decodeVLQ's loop has come to after n digits. *)
Reading == [ok : BOOLEAN, result : Int, weight : Int, values : Seq(Int)]

Start == [ok |-> TRUE, result |-> 0, weight |-> 1, values |-> << >>]

Reads(seg, r) ==
  /\ r \in [0 .. Len(seg) -> Reading]
  /\ r[0] = Start
  /\ \A n \in 1 .. Len(seg) : r[n] = ReadDigit(r[n - 1], seg[n])

(* What the loop assigns keeps the type of its state. *)
LEMMA ReadingUpdated ==
  ASSUME NEW s \in Reading, NEW x \in Int, NEW y \in Int, NEW v \in Seq(Int),
         NEW t, t = [s EXCEPT !.result = x, !.weight = y, !.values = v]
  PROVE  t \in Reading
BY DEF Reading

(* So does reading a digit. *)
LEMMA ReadDigitType ==
  ASSUME NEW s \in Reading, NEW digit \in Digit, NEW t, t = ReadDigit(s, digit)
  PROVE  t \in Reading
<1> DEFINE result == s.result + (digit % 32) * s.weight
           all == Append(s.values, Signed(result))
<1>1. digit \in Nat /\ digit % 32 \in Int
  BY Division DEF Digit
<1>2. result \in Int /\ 32 * s.weight \in Int
  BY <1>1 DEF Reading
<1>3. Signed(result) \in Int
  <2> HIDE DEF result
  <2> QED
    BY <1>2 DEF Signed
<1>4. all \in Seq(Int)
  <2> HIDE DEF result
  <2> QED
    BY <1>3 DEF Reading
<1>5. \/ t = [s EXCEPT !.ok = FALSE]
      \/ t = [s EXCEPT !.result = result, !.weight = 32 * @]
      \/ t = [s EXCEPT !.result = 0, !.weight = 1, !.values = all]
  BY DEF ReadDigit
<1> HIDE DEF result, all
<1>6. CASE t = [s EXCEPT !.ok = FALSE]
  BY <1>6 DEF Reading
<1>7. CASE t = [s EXCEPT !.result = result, !.weight = 32 * @]
  <2> DEFINE weight == 32 * s.weight
  <2>1. t = [s EXCEPT !.result = result, !.weight = weight] /\ weight \in Int
    BY <1>2, <1>7
  <2> HIDE DEF weight
  <2>2. QED
    BY <1>2, <2>1 DEF Reading
<1>8. CASE t = [s EXCEPT !.result = 0, !.weight = 1, !.values = all]
  <2> PICK x \in Int, y \in Int : x = 0 /\ y = 1
    OBVIOUS
  <2>1. t = [s EXCEPT !.result = x, !.weight = y, !.values = all]
    BY <1>8
  <2>2. QED
    BY ONLY <1>4, <2>1, ReadingUpdated
<1>9. QED
  BY <1>5, <1>6, <1>7, <1>8

(* The states decodeVLQ goes through, one for each digit. *)
LEMMA DigitSteps ==
  ASSUME NEW seg \in Seq(Digit)
  PROVE  \E r : Reads(seg, r) /\ Digits(seg) = r[Len(seg)]
<1> DEFINE N == Len(seg)
           Body(f) == [n \in 0 .. N |-> IF n = 0 THEN Start ELSE ReadDigit(f[n - 1], seg[n])]
           step == [ns \in (1 .. N) \X Reading |-> ReadDigit(ns[2], seg[ns[1]])]
           read == CHOOSE f : f = Body(f)
<1>1. N \in Nat /\ Start \in Reading /\ \A n \in 1 .. N : seg[n] \in Digit
  BY DEF Start, Reading
<1>2. /\ step \in [(1 .. N) \X Reading -> Reading]
      /\ \A n \in 1 .. N, s \in Reading : step[<<n, s>>] = ReadDigit(s, seg[n])
  <2>1. \A n \in 1 .. N, s \in Reading : ReadDigit(s, seg[n]) \in Reading
    <3> HIDE DEF N
    <3> QED
      BY <1>1, ReadDigitType
  <2> HIDE DEF N
  <2>2. QED
    BY <2>1
<1>3. PICK r : Computes(r, N, Reading, Start, step)
  <2> HIDE DEF N, step
  <2> QED
    BY <1>1, <1>2, Recursive
<1>4. \A n \in 1 .. N : n - 1 \in 0 .. N /\ r[n - 1] \in Reading
  <2> HIDE DEF N
  <2> QED
    BY <1>1, <1>3 DEF Computes
<1>5. /\ r \in [0 .. N -> Reading] /\ r[0] = Start
      /\ \A n \in 1 .. N : r[n] = ReadDigit(r[n - 1], seg[n])
  <2> HIDE DEF N, step
  <2> QED
    BY <1>2, <1>3, <1>4 DEF Computes
<1>6. r = Body(r)
  <2> HIDE DEF N
  <2>1. r = [n \in 0 .. N |-> r[n]]
    BY <1>5
  <2>2. \A n \in 0 .. N : r[n] = IF n = 0 THEN Start ELSE ReadDigit(r[n - 1], seg[n])
    BY <1>1, <1>5
  <2>3. QED
    BY <2>1, <2>2
<1>7. read = Body(read)
  <2> HIDE DEF Body
  <2> QED
    BY <1>6
<1> DEFINE T == {n \in 0 .. N : read[n] = r[n]}
<1>8. 0 \in T /\ \A n \in 1 .. N : n - 1 \in T => n \in T
  <2> HIDE DEF N, read
  <2>1. \A n \in 0 .. N : read[n] = IF n = 0 THEN Start ELSE ReadDigit(read[n - 1], seg[n])
    BY <1>7
  <2>2. QED
    BY <1>1, <1>5, <2>1
<1>9. 0 .. N \subseteq T
  <2> HIDE DEF N, T
  <2> QED
    BY <1>1, <1>8, UpTo
<1>10. read[N] = r[N]
  BY <1>1, <1>9
<1>11. Digits(seg) = read[N]
  BY DEF Digits, Start
<1>12. QED
  BY <1>5, <1>10, <1>11 DEF Reads

(* The digits of part are those of whole from the p-th on. *)
Sits(part, whole, p) ==
  /\ p + Len(part) <= Len(whole)
  /\ \A n \in 1 .. Len(part) : whole[p + n] = part[n]

(* A state of the loop in a number, and one at its end. *)
Within(result, weight, values) ==
  [ok |-> TRUE, result |-> result, weight |-> weight, values |-> values]

Behind(result, values) == Within(0, 1, Append(values, Signed(result)))

(* A digit without the continuation bit ends a number. *)
LEMMA OnlyDigit ==
  ASSUME NEW n \in 0 .. 31, NEW a \in Nat, NEW w \in Nat, NEW values
  PROVE  ReadDigit(Within(a, w, values), n) = Behind(a + n * w, values)
<1> SUFFICES ASSUME NEW t, t = ReadDigit(Within(a, w, values), n)
             PROVE  t = Behind(a + n * w, values)
  OBVIOUS
<1> DEFINE s == Within(a, w, values)
           all == Append(values, Signed(a + n * w))
<1>1. n % 32 = n /\ ~ (n < 0) /\ ~ (n >= 32)
  OBVIOUS
<1>2. s.ok /\ s.result = a /\ s.weight = w /\ s.values = values
  BY DEF Within
<1>3. t = [s EXCEPT !.result = 0, !.weight = 1, !.values = all]
  <2> HIDE DEF s
  <2> QED
    BY <1>1, <1>2 DEF ReadDigit, s
<1>4. t = Within(0, 1, all)
  <2> HIDE DEF all
  <2> QED
    BY <1>3 DEF Within
<1>5. QED
  BY <1>4 DEF Behind

(* One with it adds five bits and goes on. *)
Continues(d, a, w, values) ==
  ReadDigit(Within(a, w, values), 32 + d) = Within(a + d * w, 32 * w, values)

LEMMA FirstDigit ==
  ASSUME NEW d \in 0 .. 31, NEW a \in Nat, NEW w \in Nat, NEW values
  PROVE  Continues(d, a, w, values)
<1> SUFFICES ASSUME NEW t, t = ReadDigit(Within(a, w, values), 32 + d)
             PROVE  t = Within(a + d * w, 32 * w, values)
  BY DEF Continues
<1> DEFINE s == Within(a, w, values)
           e == 32 + d
           b == a + d * w
           x == 32 * w
<1>1. e % 32 = d /\ ~ (e < 0) /\ e >= 32
  OBVIOUS
<1>2. s.ok /\ s.result = a /\ s.weight = w /\ s.values = values
  BY DEF Within
<1>3. t = ReadDigit(s, e)
  OBVIOUS
<1>4. t = [s EXCEPT !.result = b, !.weight = x]
  <2> HIDE DEF s, e
  <2> QED
    BY <1>1, <1>2, <1>3 DEF ReadDigit
<1>5. t = Within(b, x, values)
  <2> HIDE DEF b, x
  <2> QED
    BY <1>4 DEF Within
<1>6. QED
  BY <1>5

(* The digits of a number that stand somewhere are read in a row. *)
NumberRight(seg, r, values, n) ==
  \A a, w, q \in Nat :
    Sits(VLQ[n], seg, q) /\ r[q] = Within(a, w, values) =>
      r[q + Len(VLQ[n])] = Behind(a + n * w, values)

(* A number of one digit. *)
LEMMA ShortNumber ==
  ASSUME NEW seg \in Seq(Digit), NEW r, Reads(seg, r), NEW values, NEW n \in 0 .. 31
  PROVE  NumberRight(seg, r, values, n)
<1> SUFFICES ASSUME NEW a \in Nat, NEW w \in Nat, NEW q \in Nat,
                    Sits(VLQ[n], seg, q), r[q] = Within(a, w, values)
             PROVE  r[q + Len(VLQ[n])] = Behind(a + n * w, values)
  BY DEF NumberRight
<1>1. VLQ[n] = <<n>>
  <2>1. n \in Nat /\ n < 32
    OBVIOUS
  <2>2. VLQ[n] = VLQBody(VLQ, n)
    BY <2>1, VLQFacts
  <2>3. QED
    BY <2>1, <2>2 DEF VLQBody
<1>2. Len(VLQ[n]) = 1 /\ VLQ[n][1] = n
  BY <1>1
<1>3. q + 1 \in 1 .. Len(seg) /\ seg[q + 1] = n
  BY <1>2 DEF Sits
<1>4. r[q + 1] = ReadDigit(r[q], n)
  BY <1>3 DEF Reads
<1>5. r[q + 1] = Behind(a + n * w, values)
  <2>1. ReadDigit(Within(a, w, values), n) = Behind(a + n * w, values)
    BY OnlyDigit
  <2>2. QED
    BY <1>4, <2>1
<1>6. QED
  BY <1>2, <1>5

(* A number of one digit more than one that is read right. *)
LEMMA LongNumber ==
  ASSUME NEW seg \in Seq(Digit), NEW r, Reads(seg, r), NEW values,
         NEW m \in Nat, NEW d \in 0 .. 31, m # 0, NumberRight(seg, r, values, m)
  PROVE  NumberRight(seg, r, values, 32 * m + d)
<1>0. /\ 32 * m + d \in Nat /\ 32 * m + d >= 32
      /\ (32 * m + d) \div 32 = m /\ (32 * m + d) % 32 = d
  BY ONLY Multiplication, m # 0
<1> DEFINE n == 32 * m + d
           e == 32 + d
<1>1. n \in Nat /\ n >= 32 /\ n \div 32 = m /\ n % 32 = d
  BY ONLY <1>0
<1>2. VLQ[n] = <<e>> \o VLQ[m]
  <2> HIDE DEF n
  <2>1. VLQ[n] = VLQBody(VLQ, n) /\ ~ (n < 32)
    BY <1>1, VLQFacts
  <2>2. VLQ[n] = <<32 + (n % 32)>> \o VLQ[n \div 32]
    BY <2>1 DEF VLQBody
  <2>3. QED
    BY <1>1, <2>2
<1>3. e \in Nat /\ VLQ[m] \in Seq(Digit)
  BY VLQFacts
<1> SUFFICES ASSUME NEW a \in Nat, NEW w \in Nat, NEW q \in Nat,
                    Sits(VLQ[n], seg, q), r[q] = Within(a, w, values)
             PROVE  r[q + Len(VLQ[n])] = Behind(a + n * w, values)
  BY DEF NumberRight
<1> DEFINE L == Len(VLQ[m])
<1>4. /\ Len(VLQ[n]) = 1 + L /\ L \in Nat
      /\ VLQ[n][1] = e /\ \A i \in 1 .. L : VLQ[n][1 + i] = VLQ[m][i]
  <2> HIDE DEF e, n
  <2> HIDE DEF L
  <2>1. e \in Digit
    BY DEF e, Digit
  <2> HIDE DEF Digit
  <2> DEFINE first == <<e>>
             rest == VLQ[m]
             all == VLQ[n]
  <2>2. first \in Seq(Digit) /\ Len(first) = 1 /\ first[1] = e
    BY <2>1
  <2>3. rest \in Seq(Digit) /\ all = first \o rest /\ L = Len(rest)
    BY <1>2, <1>3 DEF L
  <2> HIDE DEF first, rest, all
  <2>4. /\ Len(rest) \in Nat /\ Len(all) = Len(first) + Len(rest)
        /\ \A i \in 1 .. Len(first) : all[i] = first[i]
        /\ \A i \in 1 .. Len(rest) : all[Len(first) + i] = rest[i]
    <3>1. first \in Seq(Digit) /\ rest \in Seq(Digit) /\ all = first \o rest
      BY <2>2, <2>3
    <3>2. QED
      BY ONLY <3>1
  <2>5. L \in Nat /\ Len(all) = 1 + L /\ all[1] = e /\ \A i \in 1 .. L : all[1 + i] = rest[i]
    <3>1. 1 \in 1 .. 1
      OBVIOUS
    <3>2. QED
      BY ONLY <2>2, <2>3, <2>4, <3>1
  <2>6. QED
    BY <2>5 DEF all, rest
<1> HIDE DEF n
<1>5. q + 1 \in 1 .. Len(seg) /\ seg[q + 1] = e
  <2> HIDE DEF e, L
  <2>1. 1 \in 1 .. 1 + L
    BY <1>4
  <2>2. QED
    BY <1>4, <2>1 DEF Sits
<1>6. r[q + 1] = ReadDigit(r[q], e)
  BY <1>5 DEF Reads
<1>7. r[q + 1] = Within(a + d * w, 32 * w, values)
  <2>1. ReadDigit(Within(a, w, values), 32 + d) = Within(a + d * w, 32 * w, values)
    <3>1. Continues(d, a, w, values)
      BY FirstDigit
    <3>2. QED
      BY <3>1 DEF Continues
  <2>2. r[q + 1] = ReadDigit(Within(a, w, values), e)
    <3> HIDE DEF e
    <3> QED
      BY <1>6
  <2>3. QED
    BY <2>1, <2>2, Zenon DEF e
<1>8. Sits(VLQ[m], seg, q + 1)
  <2> HIDE DEF e
  <2>1. \A i \in 1 .. L : 1 + i \in 1 .. 1 + L /\ q + (1 + i) = (q + 1) + i
    BY <1>4
  <2>2. \A i \in 1 .. L : seg[(q + 1) + i] = VLQ[m][i]
    BY <1>4, <2>1 DEF Sits
  <2>3. (q + 1) + L <= Len(seg)
    <3> HIDE DEF L
    <3> QED
      BY <1>4 DEF Sits
  <2>4. QED
    BY <2>2, <2>3 DEF Sits
<1>9. a + d * w \in Nat /\ 32 * w \in Nat /\ q + 1 \in Nat
  BY DEF n
<1>10. r[(q + 1) + L] = Behind((a + d * w) + m * (32 * w), values)
  BY <1>7, <1>8, <1>9 DEF NumberRight
<1>11. (a + d * w) + m * (32 * w) = a + n * w
  BY DEF n
<1>12. (q + 1) + L = q + Len(VLQ[n])
  <2> HIDE DEF L
  <2> QED
    BY <1>4
<1>13. QED
  BY <1>10, <1>11, <1>12

(* Every number is read right wherever it stands. *)
LEMMA NumberRead ==
  ASSUME NEW seg \in Seq(Digit), NEW r, Reads(seg, r), NEW values, NEW n \in Nat
  PROVE  NumberRight(seg, r, values, n)
<1> DEFINE Bad == {m \in Nat : ~ NumberRight(seg, r, values, m)}
<1> SUFFICES ASSUME Bad # {}
             PROVE  FALSE
  OBVIOUS
<1>1. PICK m \in Bad : \A k \in Bad : m <= k
  <2>1. Bad \subseteq Nat
    OBVIOUS
  <2> HIDE DEF Bad
  <2>2. QED
    BY <2>1, LeastElement
<1>2. m \in Nat /\ ~ NumberRight(seg, r, values, m)
  BY <1>1
<1>3. CASE m < 32
  <2>1. m \in 0 .. 31
    BY <1>2, <1>3
  <2>2. QED
    BY <1>2, <2>1, ShortNumber
<1>4. CASE m >= 32
  <2>1. PICK k \in Nat, d \in 0 .. 31 : m = 32 * k + d /\ k < m
    BY <1>2, <1>4, Division
  <2>2. k # 0 /\ ~ (m <= k)
    BY <1>2, <1>4, <2>1
  <2>3. NumberRight(seg, r, values, k)
    BY <1>1, <2>2
  <2>4. NumberRight(seg, r, values, 32 * k + d)
    BY <2>2, <2>3, LongNumber
  <2>5. QED
    BY <1>2, <2>1, <2>4
<1>5. QED
  BY <1>2, <1>3, <1>4

(* The sign bit that VLQ takes at the end is the one Signed undoes. *)
LEMMA SignedNumber ==
  ASSUME NEW v \in Int
  PROVE  LET n == IF v < 0 THEN 1 - 2 * v ELSE 2 * v
         IN  n \in Nat /\ Signed(n) = v
BY DEF Signed

--------------------------------------------------------------------------------
(* The digits of a value are those of a number that stands for it. *)
LEMMA NumberDigits ==
  ASSUME NEW v \in Int
  PROVE  /\ Number(v) \in Seq(Digit) /\ Len(Number(v)) > 0
         /\ \E n \in Nat : Number(v) = VLQ[n] /\ Signed(n) = v
<1> DEFINE n == IF v < 0 THEN 1 - 2 * v ELSE 2 * v
<1>1. n \in Nat /\ Signed(n) = v
  BY SignedNumber
<1>2. Number(v) = VLQ[n]
  BY DEF Number
<1> HIDE DEF n
<1>3. VLQ[n] \in Seq(Digit) /\ VLQ[n] = VLQBody(VLQ, n)
  BY <1>1, VLQFacts
<1>4. Len(VLQ[n]) > 0
  <2>1. CASE n < 32
    BY <1>3, <2>1 DEF VLQBody
  <2>2. CASE ~ (n < 32)
    <3>1. PICK k \in Nat : k = n \div 32
      BY <1>1, Division
    <3>2. VLQ[n] = <<32 + (n % 32)>> \o VLQ[k] /\ VLQ[k] \in Seq(Digit)
      BY <1>3, <2>2, <3>1, VLQFacts DEF VLQBody
    <3> DEFINE first == <<32 + (n % 32)>>
    <3>3. first \in Seq(Int) /\ Len(first) = 1
      BY <1>1, Division
    <3> HIDE DEF first
    <3>4. Len(VLQ[n]) = 1 + Len(VLQ[k]) /\ Len(VLQ[k]) \in Nat
      BY <3>2, <3>3 DEF first
    <3>5. QED
      BY <3>4
  <2>3. QED
    BY <2>1, <2>2
<1>5. QED
  BY <1>1, <1>2, <1>3, <1>4

(* What has been gathered stays where it is. *)
LEMMA GathersPrefix ==
  ASSUME NEW S, NEW s \in Seq(Seq(S)), NEW G, Gathers(s, S, G), NEW i \in 0 .. Len(s)
  PROVE  /\ Len(G[i]) <= Len(G[Len(s)])
         /\ \A q \in 1 .. Len(G[i]) : G[Len(s)][q] = G[i][q]
<1> DEFINE N == Len(s)
           Begins(k, n) == /\ Len(G[k]) <= Len(G[n])
                           /\ \A q \in 1 .. Len(G[k]) : G[n][q] = G[k][q]
           T == {n \in 0 .. N : \A k \in 0 .. n : Begins(k, n)}
<1>0. /\ N \in Nat
      /\ \A n \in 1 .. N : s[n] \in Seq(S)
      /\ G \in [0 .. N -> Seq(S)]
      /\ \A n \in 1 .. N : G[n] = G[n - 1] \o s[n]
      /\ i \in 0 .. N
  <2>1. N \in Nat /\ i \in 0 .. N
    OBVIOUS
  <2>2. \A n \in 1 .. N : s[n] \in Seq(S)
    OBVIOUS
  <2>3. G \in [0 .. N -> Seq(S)]
    BY DEF Gathers
  <2>4. \A n \in 1 .. N : G[n] = G[n - 1] \o s[n]
    BY DEF Gathers
  <2> HIDE DEF N
  <2>5. QED
    BY ONLY <2>1, <2>2, <2>3, <2>4
<1>1. \A n \in 0 .. N : G[n] \in Seq(S) /\ Len(G[n]) \in Nat
  <2> HIDE DEF N
  <2>1. \A n \in 0 .. N : G[n] \in Seq(S)
    BY <1>0
  <2>2. \A q \in Seq(S) : Len(q) \in Nat
    OBVIOUS
  <2>3. QED
    BY <2>1, <2>2
<1>2. 0 \in T
  <2> HIDE DEF N
  <2> QED
    BY <1>0, <1>1
<1>3. ASSUME NEW n \in 1 .. N, n - 1 \in T
      PROVE  n \in T
  <2> HIDE DEF N
  <2> DEFINE a == G[n - 1]
             b == s[n]
             all == G[n]
  <2>1. all = a \o b /\ b \in Seq(S) /\ n - 1 \in 0 .. N /\ a \in Seq(S) /\ n \in 0 .. N
    <3>1. n - 1 \in 0 .. N /\ n \in 0 .. N
      BY <1>0
    <3>2. all = a \o b /\ b \in Seq(S)
      BY <1>0
    <3>3. a \in Seq(S)
      BY <1>1, <3>1
    <3> HIDE DEF all, a, b
    <3>4. QED
      BY ONLY <3>1, <3>2, <3>3
  <2>2. Len(a) \in Nat /\ Len(all) = Len(a) + Len(b) /\ Len(b) \in Nat
        /\ \A q \in 1 .. Len(a) : all[q] = a[q]
    <3> HIDE DEF a, b, all
    <3> QED
      BY <2>1
  <2>3. ASSUME NEW k \in 0 .. n
        PROVE  Begins(k, n)
    <3>1. CASE k = n
      <4>1. Len(G[n]) \in Nat
        BY <1>1, <2>1
      <4>2. Begins(n, n)
        BY ONLY <4>1
      <4>3. QED
        BY ONLY <3>1, <4>2
    <3>2. CASE k # n
      <4>1. k \in 0 .. n - 1 /\ k \in 0 .. N
        BY <1>0, <3>2
      <4>2. Begins(k, n - 1)
        BY <1>3, <4>1
      <4>3. Len(G[k]) \in Nat
        BY <1>1, <4>1
      <4>4. Len(G[k]) <= Len(a) /\ \A q \in 1 .. Len(G[k]) : a[q] = G[k][q]
        BY <4>2
      <4> HIDE DEF a, b, all
      <4>5. Len(G[k]) <= Len(all) /\ \A q \in 1 .. Len(G[k]) : all[q] = G[k][q]
        BY <2>2, <4>3, <4>4
      <4>6. QED
        BY <4>5 DEF all
    <3>3. QED
      BY <3>1, <3>2
  <2>4. QED
    BY <2>1, <2>3
<1>4. 0 .. N \subseteq T
  <2> HIDE DEF N, T
  <2> QED
    BY <1>0, <1>2, <1>3, UpTo
<1>5. N \in T
  <2> HIDE DEF N, T
  <2> QED
    BY <1>0, <1>4
<1>6. Begins(i, N)
  <2> HIDE DEF N, Begins
  <2> QED
    BY <1>0, <1>5
<1>7. QED
  BY <1>6

(* Each of the gathered sequences has its place in the whole. *)
LEMMA GathersPlaces ==
  ASSUME NEW S, NEW s \in Seq(Seq(S)), NEW G, Gathers(s, S, G), NEW i \in 1 .. Len(s)
  PROVE  /\ i - 1 \in 0 .. Len(s) /\ i \in 0 .. Len(s)
         /\ Len(G[i - 1]) \in Nat /\ Len(s[i]) \in Nat
         /\ Len(G[i]) = Len(G[i - 1]) + Len(s[i])
         /\ Sits(s[i], G[Len(s)], Len(G[i - 1]))
<1>1. i - 1 \in 0 .. Len(s) /\ i \in 0 .. Len(s)
  OBVIOUS
<1>2. G[i] = G[i - 1] \o s[i] /\ s[i] \in Seq(S) /\ G[i - 1] \in Seq(S)
  <2>1. s[i] \in Seq(S)
    OBVIOUS
  <2>2. G[i] = G[i - 1] \o s[i]
    BY DEF Gathers
  <2>3. G \in [0 .. Len(s) -> Seq(S)]
    BY DEF Gathers
  <2>4. QED
    BY ONLY <1>1, <2>1, <2>2, <2>3
<1> DEFINE a == G[i - 1]
           b == s[i]
           all == G[i]
           whole == G[Len(s)]
<1>3. Len(all) <= Len(whole) /\ \A q \in 1 .. Len(all) : whole[q] = all[q]
  BY <1>1, GathersPrefix
<1>4. all = a \o b /\ a \in Seq(S) /\ b \in Seq(S)
  BY <1>2
<1> HIDE DEF a, b, all, whole
<1>5. /\ Len(a) \in Nat /\ Len(b) \in Nat /\ Len(all) = Len(a) + Len(b)
      /\ \A q \in 1 .. Len(b) : all[Len(a) + q] = b[q]
  BY <1>4
<1>6. \A q \in 1 .. Len(b) : Len(a) + q \in 1 .. Len(all)
  BY <1>5
<1>7. Sits(b, whole, Len(a))
  BY <1>3, <1>5, <1>6 DEF Sits
<1>8. QED
  BY <1>1, <1>5, <1>7 DEF a, b, all, whole

(* Values that are written one after the other are read so. *)
LEMMA NumbersRead ==
  ASSUME NEW vs \in Seq(Int), NEW s \in Seq(Seq(Digit)), Len(s) = Len(vs),
         \A n \in 1 .. Len(vs) : s[n] = Number(vs[n])
  PROVE  /\ Digits(FlattenSeq(s)) = Within(0, 1, vs)
         /\ vs # << >> => FlattenSeq(s) # << >>
<1>1. PICK G : Gathers(s, Digit, G) /\ FlattenSeq(s) = G[Len(s)]
  BY FlattenPrefixes
<1> DEFINE N == Len(s)
           seg == G[N]
<1>2. N \in Nat /\ \A n \in 1 .. N : vs[n] \in Int /\ s[n] = Number(vs[n])
  OBVIOUS
<1>3. \A i \in 0 .. N : G[i] \in Seq(Digit)
  BY <1>1 DEF Gathers
<1>4. seg \in Seq(Digit)
  BY <1>2, <1>3
<1>5. PICK r : Reads(seg, r) /\ Digits(seg) = r[Len(seg)]
  <2> HIDE DEF seg
  <2> QED
    BY <1>4, DigitSteps
<1>6. ASSUME NEW i \in 1 .. N
      PROVE  /\ i - 1 \in 0 .. N /\ i \in 0 .. N
             /\ Len(G[i - 1]) \in Nat /\ Len(s[i]) \in Nat
             /\ Len(G[i]) = Len(G[i - 1]) + Len(s[i])
             /\ Sits(s[i], seg, Len(G[i - 1]))
  BY <1>1, GathersPlaces
<1> DEFINE T == {i \in 0 .. N : r[Len(G[i])] = Within(0, 1, SubSeq(vs, 1, i))}
<1>7. 0 \in T
  <2>1. G[0] = << >> /\ r[0] = Start
    BY <1>1, <1>5 DEF Gathers, Reads
  <2>2. Len(G[0]) = 0 /\ SubSeq(vs, 1, 0) = << >>
    BY <2>1
  <2>3. Start = Within(0, 1, << >>)
    BY DEF Start, Within
  <2>4. r[Len(G[0])] = Within(0, 1, SubSeq(vs, 1, 0))
    BY <2>1, <2>2, <2>3
  <2>5. QED
    BY <1>2, <2>4
<1>8. ASSUME NEW i \in 1 .. N, i - 1 \in T
      PROVE  i \in T
  <2> DEFINE before == SubSeq(vs, 1, i - 1)
             q == Len(G[i - 1])
             v == vs[i]
  <2>1. Append(before, v) = SubSeq(vs, 1, i)
    OBVIOUS
  <2>2. v \in Int /\ s[i] = Number(v)
    BY <1>2
  <2>3. r[q] = Within(0, 1, before)
    BY <1>8
  <2> HIDE DEF before, q, v, seg, N
  <2>4. PICK n \in Nat : Number(v) = VLQ[n] /\ Signed(n) = v
    BY <2>2, NumberDigits
  <2>5. q \in Nat /\ Sits(VLQ[n], seg, q) /\ q + Len(VLQ[n]) = Len(G[i])
    BY <1>6, <2>2, <2>4 DEF q
  <2>6. NumberRight(seg, r, before, n)
    BY <1>4, <1>5, NumberRead
  <2>7. r[q + Len(VLQ[n])] = Behind(0 + n * 1, before)
    BY <2>3, <2>5, <2>6 DEF NumberRight
  <2>8. 0 + n * 1 = n
    OBVIOUS
  <2>9. r[Len(G[i])] = Within(0, 1, SubSeq(vs, 1, i))
    BY <2>1, <2>4, <2>5, <2>7, <2>8 DEF Behind
  <2>10. QED
    BY <1>6, <2>9
<1>9. 0 .. N \subseteq T
  <2> HIDE DEF T, N
  <2> QED
    BY <1>2, <1>7, <1>8, UpTo
<1>10. r[Len(G[N])] = Within(0, 1, SubSeq(vs, 1, N))
  BY <1>2, <1>9
<1>11. SubSeq(vs, 1, N) = vs
  OBVIOUS
<1>12. Digits(seg) = Within(0, 1, vs)
  BY <1>5, <1>10, <1>11
<1>13. ASSUME vs # << >>
       PROVE  seg # << >>
  <2>1. 1 \in 1 .. N
    BY <1>13
  <2> DEFINE v == vs[1]
  <2>2. v \in Int /\ s[1] = Number(v)
    BY <1>2, <2>1
  <2> HIDE DEF seg, N, v
  <2>3. Len(s[1]) > 0
    BY <2>2, NumberDigits
  <2> DEFINE a == Len(G[1 - 1])
             b == Len(s[1])
  <2>4. Sits(s[1], seg, a) /\ a \in Nat /\ b \in Nat
    BY <1>6, <2>1
  <2>5. a + b <= Len(seg) /\ b > 0
    BY <2>3, <2>4 DEF Sits
  <2>6. Len(seg) > 0
    <3>1. Len(seg) \in Nat
      BY <1>4
    <3> HIDE DEF a, b
    <3>2. QED
      BY <2>4, <2>5, <3>1
  <2>7. QED
    BY <2>6
<1>14. QED
  BY <1>1, <1>12, <1>13

(* A segment is read to the values that were put into it. *)
LEMMA ValuesRead ==
  ASSUME NEW vs \in Seq(Int)
  PROVE  LET seg == FlattenSeq([n \in DOMAIN vs |-> Number(vs[n])])
         IN  Digits(seg) = Within(0, 1, vs) /\ (vs # << >> => seg # << >>)
<1> DEFINE s == [n \in DOMAIN vs |-> Number(vs[n])]
<1>1. \A n \in 1 .. Len(vs) : vs[n] \in Int
  OBVIOUS
<1>2. \A n \in 1 .. Len(vs) : Number(vs[n]) \in Seq(Digit)
  BY <1>1, NumberDigits
<1>3. s \in Seq(Seq(Digit)) /\ Len(s) = Len(vs) /\ \A n \in 1 .. Len(vs) : s[n] = Number(vs[n])
  BY <1>2
<1> HIDE DEF s
<1>4. Digits(FlattenSeq(s)) = Within(0, 1, vs) /\ (vs # << >> => FlattenSeq(s) # << >>)
  BY <1>3, NumbersRead
<1>5. QED
  BY <1>4 DEF s

--------------------------------------------------------------------------------
(* What the places before a segment say of its fields. *)
LEMMA SegmentType ==
  ASSUME NEW map, IsMap(map), NEW l \in DOMAIN map
  PROVE  /\ Len(map) \in Nat /\ l \in 1 .. Len(map) /\ l \in Nat /\ l >= 1
         /\ map[l] \in Seq(Segment) /\ Len(map[l]) \in Nat
         /\ DOMAIN map[l] = 1 .. Len(map[l])
         /\ \A k \in DOMAIN map[l] :
              /\ map[l][k].column \in Nat /\ map[l][k].fields \in Seq(Nat)
              /\ Len(map[l][k].fields) \in {0, 3, 4}
              /\ map[l][k] = [column |-> map[l][k].column, fields |-> map[l][k].fields]
<1>1. map \in Seq(Seq(Segment))
  BY DEF IsMap
<1>2. Len(map) \in Nat /\ l \in 1 .. Len(map) /\ map[l] \in Seq(Segment)
  <2> HIDE DEF Segment
  <2> QED
    BY <1>1
<1> DEFINE segs == map[l]
<1>3. segs \in Seq(Segment)
  BY <1>2
<1>4. Len(segs) \in Nat /\ DOMAIN segs = 1 .. Len(segs) /\ \A k \in DOMAIN segs : segs[k] \in Segment
  <2> HIDE DEF segs, Segment
  <2> QED
    BY <1>3
<1>5. \A s \in Segment :
        /\ s.column \in Nat /\ s.fields \in Seq(Nat) /\ Len(s.fields) \in {0, 3, 4}
        /\ s = [column |-> s.column, fields |-> s.fields]
  BY DEF Segment
<1>6. \A k \in DOMAIN segs :
        /\ segs[k].column \in Nat /\ segs[k].fields \in Seq(Nat)
        /\ Len(segs[k].fields) \in {0, 3, 4}
        /\ segs[k] = [column |-> segs[k].column, fields |-> segs[k].fields]
  <2> HIDE DEF segs
  <2> QED
    BY <1>4, <1>5
<1>7. l \in Nat /\ l >= 1
  BY <1>2
<1>8. QED
  BY <1>2, <1>4, <1>6, <1>7

(* A place is earlier if it is in a line before, or before in the line. *)
LEMMA EarlierPlaces ==
  ASSUME NEW map, NEW l \in Nat, NEW k, NEW i, NEW p
  PROVE  p \in Earlier(map, l, k, i) <=>
           /\ p = <<p[1], p[2]>> /\ p[1] \in 1 .. l /\ p[2] \in DOMAIN map[p[1]]
           /\ p[1] < l \/ p[2] < k
           /\ Len(map[p[1]][p[2]].fields) >= i
<1>1. p \in UNION {{j} \X DOMAIN map[j] : j \in 1 .. l} <=>
        p = <<p[1], p[2]>> /\ p[1] \in 1 .. l /\ p[2] \in DOMAIN map[p[1]]
  <2>1. ASSUME p \in UNION {{j} \X DOMAIN map[j] : j \in 1 .. l}
        PROVE  p = <<p[1], p[2]>> /\ p[1] \in 1 .. l /\ p[2] \in DOMAIN map[p[1]]
    <3>1. PICK j \in 1 .. l : p \in {j} \X DOMAIN map[j]
      BY <2>1
    <3>2. p = <<p[1], p[2]>> /\ p[1] = j /\ p[2] \in DOMAIN map[j]
      BY <3>1
    <3>3. QED
      BY <3>2
  <2>2. ASSUME p = <<p[1], p[2]>>, p[1] \in 1 .. l, p[2] \in DOMAIN map[p[1]]
        PROVE  p \in UNION {{j} \X DOMAIN map[j] : j \in 1 .. l}
    <3>1. p \in {p[1]} \X DOMAIN map[p[1]]
      BY <2>2
    <3>2. QED
      BY <2>2, <3>1
  <2>3. QED
    BY <2>1, <2>2
<1>2. QED
  BY <1>1 DEF Earlier

(* Before the first segment every field is 0. *)
LEMMA PreviousAtFirst ==
  ASSUME NEW map, NEW i
  PROVE  /\ DOMAIN map[1] \subseteq Nat \ {0} => Previous(map, 1, 1, i) = 0
<1> SUFFICES ASSUME DOMAIN map[1] \subseteq Nat \ {0}
             PROVE  Previous(map, 1, 1, i) = 0
  OBVIOUS
<1>1. Earlier(map, 1, 1, i) = {}
  <2> SUFFICES ASSUME NEW p \in Earlier(map, 1, 1, i)
               PROVE  FALSE
    OBVIOUS
  <2>1. p[1] \in 1 .. 1 /\ p[2] \in DOMAIN map[p[1]] /\ (p[1] < 1 \/ p[2] < 1)
    BY EarlierPlaces
  <2>2. p[1] = 1
    BY <2>1
  <2>3. p[2] \in Nat \ {0}
    BY <2>1, <2>2
  <2>4. QED
    BY <2>1, <2>2, <2>3
<1>2. QED
  BY <1>1 DEF Previous

(* The fields run on from a line to the next. *)
LEMMA PreviousInNextLine ==
  ASSUME NEW map, IsMap(map), NEW l \in DOMAIN map, l + 1 \in DOMAIN map, NEW i \in 1 .. 4
  PROVE  Previous(map, l + 1, 1, i) = Previous(map, l, Len(map[l]) + 1, i)
<1> DEFINE A == Earlier(map, l + 1, 1, i)
           B == Earlier(map, l, Len(map[l]) + 1, i)
<1>1. l \in Nat /\ l + 1 \in Nat /\ l >= 1
  BY SegmentType
<1>2. ASSUME NEW p
      PROVE  p \in A <=> p \in B
  <2>1. /\ p \in A <=>
             /\ p = <<p[1], p[2]>> /\ p[1] \in 1 .. l + 1 /\ p[2] \in DOMAIN map[p[1]]
             /\ p[1] < l + 1 \/ p[2] < 1
             /\ Len(map[p[1]][p[2]].fields) >= i
        /\ p \in B <=>
             /\ p = <<p[1], p[2]>> /\ p[1] \in 1 .. l /\ p[2] \in DOMAIN map[p[1]]
             /\ p[1] < l \/ p[2] < Len(map[l]) + 1
             /\ Len(map[p[1]][p[2]].fields) >= i
    BY <1>1, EarlierPlaces
  <2>2. p[2] \in DOMAIN map[l + 1] => p[2] \in Nat /\ ~(p[2] < 1)
    <3>1. DOMAIN map[l + 1] = 1 .. Len(map[l + 1]) /\ Len(map[l + 1]) \in Nat
      BY SegmentType
    <3>2. QED
      BY <3>1
  <2>3. p[2] \in DOMAIN map[l] => p[2] < Len(map[l]) + 1
    <3>1. DOMAIN map[l] = 1 .. Len(map[l]) /\ Len(map[l]) \in Nat
      BY SegmentType
    <3>2. QED
      BY <3>1
  <2>4. p[1] \in 1 .. l + 1 <=> p[1] \in 1 .. l \/ p[1] = l + 1
    BY <1>1
  <2>5. ASSUME p[1] \in 1 .. l
        PROVE  p[1] < l + 1 /\ (p[1] < l \/ p[1] = l)
    BY <1>1, <2>5
  <2>6. ~(l + 1 < l + 1) /\ l + 1 \notin 1 .. l
    BY <1>1
  <2>7. QED
    BY ONLY <2>1, <2>2, <2>3, <2>4, <2>5, <2>6
<1>3. A = B
  BY <1>2
<1> HIDE DEF A, B
<1>4. QED
  BY <1>3 DEF Previous, A, B

(* A field is what the last segment that has it says. *)
LEMMA PreviousInLine ==
  ASSUME NEW map, IsMap(map), NEW l \in DOMAIN map, NEW k \in DOMAIN map[l], NEW i \in 1 .. 4
  PROVE  Previous(map, l, k + 1, i)
           = IF i <= Len(map[l][k].fields) THEN map[l][k].fields[i] ELSE Previous(map, l, k, i)
<1> DEFINE A == Earlier(map, l, k + 1, i)
           B == Earlier(map, l, k, i)
           F == Len(map[l][k].fields)
<1>1. l \in Nat /\ l >= 1 /\ k \in Nat /\ F \in Nat /\ DOMAIN map[l] \subseteq Nat
  BY SegmentType
<1>2. ASSUME NEW p
      PROVE  p \in A <=> p \in B \/ (p = <<l, k>> /\ i <= F)
  <2>1. /\ p \in A <=>
             /\ p = <<p[1], p[2]>> /\ p[1] \in 1 .. l /\ p[2] \in DOMAIN map[p[1]]
             /\ p[1] < l \/ p[2] < k + 1
             /\ Len(map[p[1]][p[2]].fields) >= i
        /\ p \in B <=>
             /\ p = <<p[1], p[2]>> /\ p[1] \in 1 .. l /\ p[2] \in DOMAIN map[p[1]]
             /\ p[1] < l \/ p[2] < k
             /\ Len(map[p[1]][p[2]].fields) >= i
    BY <1>1, EarlierPlaces
  <2>2. l \in 1 .. l
    BY <1>1
  <2>3. p[1] \in 1 .. l => p[1] < l \/ p[1] = l
    BY <1>1
  <2>4. p[2] \in DOMAIN map[l] => (p[2] < k + 1 <=> p[2] < k \/ p[2] = k)
    BY <1>1
  <2>5. F >= i <=> i <= F
    BY <1>1
  <2>6. k < k + 1
    BY <1>1
  <2>7. p = <<l, k>> => p[1] = l /\ p[2] = k /\ p = <<p[1], p[2]>>
    OBVIOUS
  <2>8. QED
    BY ONLY <2>1, <2>2, <2>3, <2>4, <2>5, <2>6, <2>7, k \in DOMAIN map[l]
<1>3. CASE i <= F
  <2> DEFINE here == <<l, k>>
  <2>1. here \in A
    BY <1>2, <1>3
  <2>2. \A q \in A : q[1] < l \/ (q[1] = l /\ q[2] <= k)
    <3> SUFFICES ASSUME NEW q \in A
                 PROVE  q[1] < l \/ (q[1] = l /\ q[2] <= k)
      OBVIOUS
    <3>1. q[1] \in 1 .. l /\ q[2] \in DOMAIN map[q[1]] /\ (q[1] < l \/ q[2] < k + 1)
      BY <1>1, EarlierPlaces
    <3>2. QED
      BY <1>1, <3>1
  <2>3. Latest(A) = here
    <3> DEFINE Greatest(p) == \A q \in A : q[1] < p[1] \/ (q[1] = p[1] /\ q[2] <= p[2])
    <3>1. Greatest(here)
      BY <2>2
    <3>2. ASSUME NEW p \in A, Greatest(p)
          PROVE  p = here
      <4>1. l < p[1] \/ (l = p[1] /\ k <= p[2])
        BY <2>1, <3>2
      <4>2. p[1] < l \/ (p[1] = l /\ p[2] <= k)
        BY <2>2, <3>2
      <4>3. p = <<p[1], p[2]>> /\ p[1] \in 1 .. l /\ p[2] \in DOMAIN map[p[1]]
        BY <1>1, <3>2, EarlierPlaces
      <4>4. p[1] = l
        BY <1>1, <4>1, <4>2, <4>3
      <4>5. p[2] \in Nat
        BY <1>1, <4>3, <4>4
      <4>6. p[2] = k
        BY <1>1, <4>1, <4>2, <4>4, <4>5
      <4>7. QED
        BY <4>3, <4>4, <4>6
    <3>3. Latest(A) = CHOOSE p \in A : Greatest(p)
      BY DEF Latest
    <3> HIDE DEF A, here, Greatest
    <3>4. QED
      BY <2>1, <3>1, <3>2, <3>3
  <2>4. A # {}
    BY <2>1
  <2> HIDE DEF A
  <2>5. Previous(map, l, k + 1, i) = map[l][k].fields[i]
    BY <2>3, <2>4 DEF Previous, A
  <2>6. QED
    BY <1>3, <2>5
<1>4. CASE ~ (i <= F)
  <2>1. A = B
    BY <1>2, <1>4
  <2> HIDE DEF A, B
  <2>2. Previous(map, l, k + 1, i) = Previous(map, l, k, i)
    BY <2>1 DEF Previous, A, B
  <2>3. QED
    BY <1>4, <2>2
<1>5. QED
  BY <1>3, <1>4

--------------------------------------------------------------------------------
(* The fields a segment leaves behind, and a state between two segments. *)
Moved(last, vs) == [i \in 1 .. 4 |-> last[i] + (IF i < Len(vs) THEN vs[i + 1] ELSE 0)]

Between(column, last, segs) == [ok |-> TRUE, column |-> column, last |-> last, segs |-> segs]

(* One turn of the loop over segments, for a segment that is well formed. *)
LEMMA SegmentStep ==
  ASSUME NEW seg, NEW vs, Digits(seg) = Within(0, 1, vs), seg # << >>, Len(vs) \in {1, 4, 5},
         NEW c, NEW last, NEW segs
  PROVE  ReadSegment(Between(c, last, segs), seg)
           = Between(c + vs[1], Moved(last, vs),
                     Append(segs, [column |-> c + vs[1],
                                   fields |-> SubSeq(Moved(last, vs), 1, Len(vs) - 1)]))
<1> DEFINE s == Between(c, last, segs)
           column == c + vs[1]
           moved == Moved(last, vs)
           all == Append(segs, [column |-> column, fields |-> SubSeq(moved, 1, Len(vs) - 1)])
<1>1. s.ok /\ s.column = c /\ s.last = last /\ s.segs = segs
  BY DEF Between
<1> HIDE DEF s
<1>2. Digits(seg).ok /\ Digits(seg).weight = 1 /\ Digits(seg).values = vs
  BY DEF Within
<1>3. WellFormed(seg)
  BY <1>2 DEF WellFormed
<1> SUFFICES ASSUME NEW t, t = ReadSegment(s, seg)
             PROVE  t = Between(column, moved, all)
  BY DEF s
<1>4. t = [s EXCEPT !.column = column, !.last = moved, !.segs = all]
  BY <1>1, <1>2, <1>3 DEF ReadSegment, Moved
<1> HIDE DEF column, moved, all
<1>5. t = [[Between(c, last, segs) EXCEPT !.column = column] EXCEPT !.last = moved, !.segs = all]
  BY <1>4 DEF s
<1>6. QED
  BY <1>4 DEF s, Between

(* The fields as they last were before the k-th segment of line l. *)
Known(map, l, k) == [i \in 1 .. 4 |-> Previous(map, l, k, i)]

(* Fields are natural numbers, however long ago they were set. *)
LEMMA PreviousType ==
  ASSUME NEW map, IsMap(map), NEW l \in DOMAIN map, NEW k \in 1 .. Len(map[l]) + 1, NEW i \in 1 .. 4
  PROVE  Previous(map, l, k, i) \in Nat
<1> DEFINE M == Len(map)
           Typed(j) == \A q \in 1 .. Len(map[j]) + 1 : Previous(map, j, q, i) \in Nat
           T == {j \in 0 .. M : j = 0 \/ Typed(j)}
<1>1. M \in Nat /\ DOMAIN map = 1 .. M
  BY DEF IsMap
<1>2. ASSUME NEW j \in 1 .. M, Previous(map, j, 1, i) \in Nat
      PROVE  Typed(j)
  <2> DEFINE K == Len(map[j])
             S == {q \in 0 .. K : Previous(map, j, q + 1, i) \in Nat}
  <2>1. K \in Nat
    BY <1>1, SegmentType
  <2>2. 0 \in S
    <3>1. 0 + 1 = 1
      OBVIOUS
    <3> HIDE DEF K
    <3>2. QED
      BY <1>2, <2>1, <3>1
  <2>3. ASSUME NEW q \in 1 .. K, q - 1 \in S
        PROVE  q \in S
    <3>1. q \in DOMAIN map[j] /\ j \in DOMAIN map
      BY <1>1, SegmentType
    <3>2. map[j][q].fields \in Seq(Nat)
      BY <1>1, <3>1, SegmentType
    <3>3. (q - 1) + 1 = q
      BY <2>1
    <3>4. Previous(map, j, q, i) \in Nat
      BY <2>3, <3>3
    <3> DEFINE fields == map[j][q].fields
    <3>5. Previous(map, j, q + 1, i) = IF i <= Len(fields) THEN fields[i] ELSE Previous(map, j, q, i)
      BY <3>1, PreviousInLine
    <3>6. Previous(map, j, q + 1, i) \in Nat
      <4>1. i <= Len(fields) => fields[i] \in Nat
        <5>1. fields \in Seq(Nat)
          BY <3>2
        <5> HIDE DEF fields
        <5>2. QED
          BY <5>1
      <4> HIDE DEF fields
      <4>2. QED
        BY <3>4, <3>5, <4>1
    <3>7. q \in 0 .. K
      BY <2>1
    <3>8. QED
      BY <3>6, <3>7
  <2>4. 0 .. K \subseteq S
    <3> HIDE DEF K, S
    <3> QED
      BY <2>1, <2>2, <2>3, UpTo
  <2>5. ASSUME NEW q \in 1 .. K + 1
        PROVE  Previous(map, j, q, i) \in Nat
    <3>1. q - 1 \in 0 .. K /\ (q - 1) + 1 = q
      BY <2>1
    <3>2. Previous(map, j, (q - 1) + 1, i) \in Nat
      BY <2>4, <3>1
    <3>3. QED
      BY <3>1, <3>2
  <2>6. QED
    BY <2>5
<1>3. 0 \in T
  BY <1>1
<1>4. ASSUME NEW j \in 1 .. M, j - 1 \in T
      PROVE  j \in T
  <2>1. j \in DOMAIN map /\ j \in 0 .. M
    BY <1>1
  <2>2. Previous(map, j, 1, i) \in Nat
    <3>1. CASE j = 1
      <4>1. DOMAIN map[1] \subseteq Nat \ {0}
        BY <2>1, <3>1, SegmentType
      <4>2. QED
        BY <3>1, <4>1, PreviousAtFirst
    <3>2. CASE j # 1
      <4>1. j - 1 \in 1 .. M /\ (j - 1) + 1 = j /\ j - 1 # 0
        BY <1>1, <3>2
      <4>2. Typed(j - 1)
        BY <1>4, <4>1
      <4>3. Len(map[j - 1]) \in Nat
        BY <1>1, <4>1, SegmentType
      <4>4. Len(map[j - 1]) + 1 \in 1 .. Len(map[j - 1]) + 1
        BY <4>3
      <4>5. Previous(map, j - 1, Len(map[j - 1]) + 1, i) \in Nat
        BY <4>2, <4>4
      <4>6. Previous(map, (j - 1) + 1, 1, i) = Previous(map, j - 1, Len(map[j - 1]) + 1, i)
        <5>1. j - 1 \in DOMAIN map /\ (j - 1) + 1 \in DOMAIN map
          BY <1>1, <2>1, <4>1
        <5>2. QED
          BY <5>1, PreviousInNextLine
      <4>7. QED
        BY <4>1, <4>5, <4>6
    <3>3. QED
      BY <3>1, <3>2
  <2>3. QED
    BY <1>2, <2>1, <2>2
<1>5. 0 .. M \subseteq T
  <2> HIDE DEF M, T
  <2> QED
    BY <1>1, <1>3, <1>4, UpTo
<1>6. l \in 1 .. M /\ l # 0 /\ l \in 0 .. M
  BY <1>1
<1>7. Typed(l)
  BY <1>5, <1>6
<1>8. QED
  BY <1>7

(* A segment is read as it was meant. *)
LEMMA SegmentRead ==
  ASSUME NEW map, IsMap(map), NEW l \in DOMAIN map, NEW k \in DOMAIN map[l], NEW segs
  PROVE  ReadSegment(Between(IF k = 1 THEN 0 ELSE map[l][k - 1].column, Known(map, l, k), segs),
                     Encoded(map)[l][k])
           = Between(map[l][k].column, Known(map, l, k + 1), Append(segs, map[l][k]))
<1> DEFINE c == IF k = 1 THEN 0 ELSE map[l][k - 1].column
           column == map[l][k].column
           fields == map[l][k].fields
           F == Len(fields)
           vs == Deltas(map, l, k)
           old == Known(map, l, k)
           new == Known(map, l, k + 1)
           seg == FlattenSeq([n \in DOMAIN vs |-> Number(vs[n])])
<1>1. /\ column \in Nat /\ fields \in Seq(Nat) /\ F \in {0, 3, 4}
      /\ map[l][k] = [column |-> column, fields |-> fields]
      /\ DOMAIN map[l] = 1 .. Len(map[l]) /\ Len(map[l]) \in Nat
  BY SegmentType
<1>2. k \in Nat /\ k \in 1 .. Len(map[l]) + 1 /\ k + 1 \in 1 .. Len(map[l]) + 1
  BY <1>1
<1>3. c \in Nat
  <2>1. CASE k = 1
    BY <2>1
  <2>2. CASE k # 1
    <3>1. k - 1 \in DOMAIN map[l]
      BY <1>1, <2>2
    <3>2. QED
      BY <2>2, <3>1, SegmentType
  <2>3. QED
    BY <2>1, <2>2
<1>4. \A i \in 1 .. 4 : old[i] \in Nat /\ new[i] = IF i <= F THEN fields[i] ELSE old[i]
  <2> SUFFICES ASSUME NEW i \in 1 .. 4
               PROVE  old[i] \in Nat /\ new[i] = IF i <= F THEN fields[i] ELSE old[i]
    OBVIOUS
  <2>1. Previous(map, l, k, i) \in Nat
    BY <1>2, PreviousType
  <2>2. Previous(map, l, k + 1, i) = IF i <= F THEN fields[i] ELSE Previous(map, l, k, i)
    BY PreviousInLine
  <2>3. old[i] = Previous(map, l, k, i) /\ new[i] = Previous(map, l, k + 1, i)
    BY DEF Known
  <2>4. QED
    BY <2>1, <2>2, <2>3
<1>5. vs = [n \in 1 .. F + 1 |-> IF n = 1 THEN column - c ELSE fields[n - 1] - old[n - 1]]
  <2>1. ASSUME NEW n \in 1 .. F + 1, n # 1
        PROVE  Previous(map, l, k, n - 1) = old[n - 1]
    <3>1. n - 1 \in 1 .. 4
      <4> HIDE DEF F
      <4> QED
        BY ONLY <1>1, <2>1, n \in 1 .. F + 1
    <3>2. QED
      BY <3>1 DEF Known
  <2>2. vs = [n \in 1 .. F + 1 |-> IF n = 1 THEN column - c ELSE fields[n - 1] - Previous(map, l, k, n - 1)]
    BY DEF Deltas
  <2>3. QED
    BY ONLY <2>1, <2>2
<1>6. Encoded(map)[l][k] = seg
  BY DEF Encoded
<1>7. old \in [1 .. 4 -> Nat] /\ new = [i \in 1 .. 4 |-> new[i]]
  BY <1>4 DEF Known
<1> HIDE DEF c, column, fields, vs, old, new
<1>8. \A i \in 1 .. F : fields[i] \in Nat
  BY <1>1
<1>9. /\ vs \in Seq(Int) /\ Len(vs) = F + 1 /\ vs[1] = column - c
      /\ \A i \in 1 .. F : vs[i + 1] = fields[i] - old[i]
  <2> HIDE DEF F
  <2>1. \A n \in 1 .. F + 1 : n # 1 => n - 1 \in 1 .. F /\ n - 1 \in 1 .. 4
    BY <1>1
  <2>2. ASSUME NEW n \in 1 .. F + 1
        PROVE  vs[n] \in Int
    <3>1. vs[n] = IF n = 1 THEN column - c ELSE fields[n - 1] - old[n - 1]
      BY <1>5
    <3>2. n # 1 => fields[n - 1] \in Nat /\ old[n - 1] \in Nat
      BY <1>4, <1>8, <2>1
    <3>3. column - c \in Int
      BY <1>1, <1>3
    <3>4. QED
      BY ONLY <3>1, <3>2, <3>3
  <2>3. F + 1 \in Nat /\ 1 \in 1 .. F + 1
    BY <1>1
  <2>4. vs \in Seq(Int) /\ Len(vs) = F + 1
    BY <1>5, <2>2, <2>3
  <2>5. \A i \in 1 .. F : i + 1 \in 1 .. F + 1 /\ i + 1 # 1 /\ (i + 1) - 1 = i
    BY <1>1
  <2>6. QED
    BY <1>5, <2>3, <2>4, <2>5
<1>10. Digits(seg) = Within(0, 1, vs) /\ seg # << >>
  <2>1. vs # << >>
    BY <1>1, <1>9
  <2>2. QED
    BY <1>9, <2>1, ValuesRead
<1>11. c + vs[1] = column
  BY <1>1, <1>3, <1>9
<1>12. Moved(old, vs) = new
  <2>1. ASSUME NEW i \in 1 .. 4
        PROVE  old[i] + (IF i < Len(vs) THEN vs[i + 1] ELSE 0) = new[i]
    <3>1. CASE i <= F
      <4>1. i \in 1 .. F /\ i < Len(vs)
        BY <1>1, <1>9, <3>1
      <4>2. fields[i] \in Nat /\ old[i] \in Nat /\ vs[i + 1] = fields[i] - old[i]
        BY <1>4, <1>8, <1>9, <4>1
      <4>3. new[i] = fields[i]
        BY <1>4, <3>1
      <4>4. QED
        BY <4>1, <4>2, <4>3
    <3>2. CASE ~ (i <= F)
      <4>1. ~ (i < Len(vs))
        BY <1>1, <1>9, <3>2
      <4>2. new[i] = old[i] /\ old[i] \in Nat
        BY <1>4, <3>2
      <4>3. QED
        BY <4>1, <4>2
    <3>3. QED
      BY <3>1, <3>2
  <2>2. QED
    BY <1>7, <2>1 DEF Moved
<1>13. SubSeq(new, 1, Len(vs) - 1) = fields
  <2>1. Len(vs) - 1 = F
    BY <1>1, <1>9
  <2> HIDE DEF F
  <2>2. SubSeq(new, 1, F) = [i \in 1 .. F |-> new[i]]
    <3>1. new \in Seq(Nat) /\ Len(new) = 4
      <4>1. ASSUME NEW i \in 1 .. 4
            PROVE  new[i] \in Nat
        <5>1. new[i] = IF i <= F THEN fields[i] ELSE old[i]
          BY <1>4
        <5>2. i <= F => i \in 1 .. F
          BY ONLY <1>1, i \in 1 .. 4
        <5>3. old[i] \in Nat
          BY <1>4
        <5>4. QED
          BY ONLY <1>8, <5>1, <5>2, <5>3
      <4>2. QED
        BY <1>7, <4>1
    <3>2. QED
      BY <1>1, <3>1
  <2>3. ASSUME NEW i \in 1 .. F
        PROVE  new[i] = fields[i]
    <3>1. i \in 1 .. 4 /\ i <= F
      BY ONLY <1>1, i \in 1 .. F
    <3>2. QED
      BY <1>4, <3>1
  <2>4. fields = [i \in 1 .. F |-> fields[i]]
    BY <1>1 DEF F
  <2>5. QED
    BY <2>1, <2>2, <2>3, <2>4
<1>14. ReadSegment(Between(c, old, segs), seg)
         = Between(c + vs[1], Moved(old, vs),
                   Append(segs, [column |-> c + vs[1],
                                 fields |-> SubSeq(Moved(old, vs), 1, Len(vs) - 1)]))
  <2>1. Len(vs) \in {1, 4, 5}
    <3> HIDE DEF F
    <3>1. Len(vs) = F + 1
      BY <1>9
    <3>2. QED
      BY ONLY <1>1, <3>1
  <2> HIDE DEF seg
  <2>2. QED
    BY ONLY <1>10, <2>1, SegmentStep
<1>15. ReadSegment(Between(c, old, segs), seg) = Between(column, new, Append(segs, map[l][k]))
  <2> HIDE DEF seg
  <2>1. [column |-> column, fields |-> fields] = map[l][k]
    BY <1>1
  <2>2. QED
    BY ONLY <1>11, <1>12, <1>13, <1>14, <2>1
<1>16. QED
  BY <1>6, <1>15 DEF c, column, old, new

--------------------------------------------------------------------------------
(* The loop over segments reaches what satisfies its equation. *)
LEMMA SegmentsReach ==
  ASSUME NEW start, NEW line, Len(line) \in Nat, NEW g,
         g = [k \in 0 .. Len(line) |-> IF k = 0 THEN start ELSE ReadSegment(g[k - 1], line[k])]
  PROVE  Segments(start, line) = g[Len(line)]
<1> DEFINE N == Len(line)
           Body(f) == [k \in 0 .. N |-> IF k = 0 THEN start ELSE ReadSegment(f[k - 1], line[k])]
           read == CHOOSE f : f = Body(f)
           T == {k \in 0 .. N : read[k] = g[k]}
<1>1. Segments(start, line) = read[N]
  BY DEF Segments
<1>2. g = Body(g)
  OBVIOUS
<1>3. read = Body(read)
  <2> HIDE DEF Body
  <2> QED
    BY <1>2
<1>4. \A k \in 0 .. N :
        /\ read[k] = IF k = 0 THEN start ELSE ReadSegment(read[k - 1], line[k])
        /\ g[k] = IF k = 0 THEN start ELSE ReadSegment(g[k - 1], line[k])
  <2> HIDE DEF read, N
  <2> QED
    BY <1>2, <1>3
<1> HIDE DEF N, read, Body
<1>5. N \in Nat
  BY DEF N
<1>6. 0 \in T
  BY ONLY <1>4, <1>5
<1>7. ASSUME NEW k \in 1 .. N, k - 1 \in T
      PROVE  k \in T
  <2>1. k \in 0 .. N /\ k # 0
    BY <1>5
  <2>2. read[k] = ReadSegment(read[k - 1], line[k]) /\ g[k] = ReadSegment(g[k - 1], line[k])
    BY <1>4, <2>1
  <2>3. read[k - 1] = g[k - 1]
    BY <1>7
  <2>4. QED
    BY <2>1, <2>2, <2>3
<1>8. 0 .. N \subseteq T
  <2> HIDE DEF T
  <2> QED
    BY <1>5, <1>6, <1>7, UpTo
<1>9. N \in T
  <2> HIDE DEF T
  <2> QED
    BY ONLY <1>5, <1>8
<1>10. read[N] = g[N]
  BY ONLY <1>9
<1>11. QED
  BY <1>1, <1>10 DEF N

(* The same for the lines. *)
LEMMA ParseReach ==
  ASSUME NEW mappings, Len(mappings) \in Nat, NEW g,
         g = [n \in 0 .. Len(mappings) |->
                IF n = 0 THEN [ok |-> TRUE, last |-> <<0, 0, 0, 0>>, lines |-> << >>]
                ELSE ReadLine(g[n - 1], mappings[n])]
  PROVE  Parse(mappings) = g[Len(mappings)]
<1> DEFINE N == Len(mappings)
           start == [ok |-> TRUE, last |-> <<0, 0, 0, 0>>, lines |-> << >>]
           Body(f) == [n \in 0 .. N |-> IF n = 0 THEN start ELSE ReadLine(f[n - 1], mappings[n])]
           read == CHOOSE f : f = Body(f)
           T == {n \in 0 .. N : read[n] = g[n]}
<1>1. Parse(mappings) = read[N]
  BY DEF Parse
<1>2. g = Body(g)
  OBVIOUS
<1>3. read = Body(read)
  <2> HIDE DEF Body
  <2> QED
    BY <1>2
<1>4. \A n \in 0 .. N :
        /\ read[n] = IF n = 0 THEN start ELSE ReadLine(read[n - 1], mappings[n])
        /\ g[n] = IF n = 0 THEN start ELSE ReadLine(g[n - 1], mappings[n])
  <2> HIDE DEF read, N, start
  <2> QED
    BY <1>2, <1>3
<1> HIDE DEF N, read, Body, start
<1>5. N \in Nat
  BY DEF N
<1>6. 0 \in T
  BY ONLY <1>4, <1>5
<1>7. ASSUME NEW n \in 1 .. N, n - 1 \in T
      PROVE  n \in T
  <2>1. n \in 0 .. N /\ n # 0
    BY <1>5
  <2>2. read[n] = ReadLine(read[n - 1], mappings[n]) /\ g[n] = ReadLine(g[n - 1], mappings[n])
    BY <1>4, <2>1
  <2>3. read[n - 1] = g[n - 1]
    BY <1>7
  <2>4. QED
    BY <2>1, <2>2, <2>3
<1>8. 0 .. N \subseteq T
  <2> HIDE DEF T
  <2> QED
    BY <1>5, <1>6, <1>7, UpTo
<1>9. N \in T
  <2> HIDE DEF T
  <2> QED
    BY ONLY <1>5, <1>8
<1>10. read[N] = g[N]
  BY ONLY <1>9
<1>11. QED
  BY <1>1, <1>10 DEF N

(* The parts of a sequence, one element at a time. *)
LEMMA Parts ==
  ASSUME NEW S, NEW s \in Seq(S)
  PROVE  /\ SubSeq(s, 1, 0) = << >> /\ SubSeq(s, 1, Len(s)) = s
         /\ \A k \in 1 .. Len(s) : Append(SubSeq(s, 1, k - 1), s[k]) = SubSeq(s, 1, k)
  OBVIOUS

(* A line is read as it was meant. *)
LEMMA LineRead ==
  ASSUME NEW map, IsMap(map), NEW l \in DOMAIN map
  PROVE  \E column : Segments(Between(0, Known(map, l, 1), << >>), Encoded(map)[l])
                       = Between(column, Known(map, l, Len(map[l]) + 1), map[l])
<1> DEFINE line == Encoded(map)[l]
           K == Len(map[l])
           start == Between(0, Known(map, l, 1), << >>)
           Column(k) == IF k = 0 THEN 0 ELSE map[l][k].column
           State(k) == Between(Column(k), Known(map, l, k + 1), SubSeq(map[l], 1, k))
           g == [k \in 0 .. K |-> State(k)]
<1>1. map[l] \in Seq(Segment) /\ K \in Nat /\ DOMAIN map[l] = 1 .. K
  BY SegmentType
<1>2. Len(line) = K
  <2>1. line = [k \in 1 .. K |-> FlattenSeq([n \in DOMAIN Deltas(map, l, k) |-> Number(Deltas(map, l, k)[n])])]
    BY <1>1 DEF Encoded
  <2> DEFINE Text(k) == FlattenSeq([n \in DOMAIN Deltas(map, l, k) |-> Number(Deltas(map, l, k)[n])])
  <2>2. line = [k \in 1 .. K |-> Text(k)]
    BY <2>1
  <2> HIDE DEF line, K, Text
  <2>3. QED
    BY <1>1, <2>2
<1>3. State(0) = start
  <2>1. SubSeq(map[l], 1, 0) = << >>
    BY <1>1, Parts
  <2>2. Known(map, l, 0 + 1) = Known(map, l, 1)
    <3>1. 0 + 1 = 1
      OBVIOUS
    <3>2. QED
      BY <3>1
  <2>3. QED
    BY <2>1, <2>2
<1>4. ASSUME NEW k \in 1 .. K
      PROVE  State(k) = ReadSegment(State(k - 1), line[k])
  <2>1. (k - 1) + 1 = k /\ (k - 1 = 0 <=> k = 1) /\ k # 0
    BY <1>1
  <2>2. Known(map, l, (k - 1) + 1) = Known(map, l, k)
    BY <2>1
  <2>3. Append(SubSeq(map[l], 1, k - 1), map[l][k]) = SubSeq(map[l], 1, k)
    BY <1>1, Parts
  <2>4. ReadSegment(Between(IF k = 1 THEN 0 ELSE map[l][k - 1].column, Known(map, l, k),
                            SubSeq(map[l], 1, k - 1)), line[k])
          = Between(map[l][k].column, Known(map, l, k + 1),
                    Append(SubSeq(map[l], 1, k - 1), map[l][k]))
    BY <1>1, SegmentRead
  <2>5. Column(k - 1) = IF k = 1 THEN 0 ELSE map[l][k - 1].column
    BY <2>1
  <2>6. Column(k) = map[l][k].column
    BY <2>1
  <2> HIDE DEF Column, line
  <2>7. QED
    BY ONLY <2>2, <2>3, <2>4, <2>5, <2>6 DEF State
<1> HIDE DEF State, start, line, K
<1>5. g = [k \in 0 .. Len(line) |-> IF k = 0 THEN start ELSE ReadSegment(g[k - 1], line[k])]
  <2>1. ASSUME NEW k \in 0 .. K
        PROVE  State(k) = IF k = 0 THEN start ELSE ReadSegment(g[k - 1], line[k])
    <3>1. CASE k = 0
      BY <1>3, <3>1
    <3>2. CASE k # 0
      <4>1. k \in 1 .. K /\ k - 1 \in 0 .. K
        BY <1>1, <3>2
      <4>2. g[k - 1] = State(k - 1)
        BY <4>1
      <4>3. State(k) = ReadSegment(State(k - 1), line[k])
        BY <1>4, <4>1
      <4>4. QED
        BY <3>2, <4>2, <4>3
    <3>3. QED
      BY <3>1, <3>2
  <2> DEFINE h == [k \in 0 .. K |-> IF k = 0 THEN start ELSE ReadSegment(g[k - 1], line[k])]
  <2>2. g = h
    BY <2>1
  <2>3. QED
    BY <1>2, <2>2
<1>6. Segments(start, line) = g[Len(line)]
  <2>1. Len(line) \in Nat
    BY <1>1, <1>2
  <2> HIDE DEF g
  <2>2. QED
    BY <1>5, <2>1, SegmentsReach
<1>7. g[Len(line)] = State(K)
  BY <1>1, <1>2
<1>8. State(K) = Between(Column(K), Known(map, l, K + 1), map[l])
  <2>1. SubSeq(map[l], 1, K) = map[l]
    BY <1>1, Parts DEF K
  <2>2. QED
    BY <2>1 DEF State
<1>9. QED
  BY <1>6, <1>7, <1>8 DEF start, line, K

(* A state between two lines. *)
AtLine(last, lines) == [ok |-> TRUE, last |-> last, lines |-> lines]

(* What is kept of a line that has been read. *)
LEMMA ReadLineKeeps ==
  ASSUME NEW last, NEW lines, NEW line, NEW column, NEW after, NEW segs,
         Segments(Between(0, last, << >>), line) = Between(column, after, segs)
  PROVE  ReadLine(AtLine(last, lines), line) = AtLine(after, Append(lines, segs))
<1> DEFINE s == AtLine(last, lines)
           begin == [ok |-> s.ok, column |-> 0, last |-> s.last, segs |-> << >>]
           end == Segments(begin, line)
<1>1. begin = Between(0, last, << >>) /\ s.lines = lines
  BY DEF Between, AtLine
<1>2. end = Between(column, after, segs)
  <2> HIDE DEF begin
  <2> QED
    BY <1>1
<1>3. end.ok /\ end.last = after /\ end.segs = segs /\ end.ok = TRUE
  <2> HIDE DEF end
  <2> QED
    BY <1>2 DEF Between
<1>4. ReadLine(s, line) = [ok |-> end.ok, last |-> end.last, lines |-> Append(s.lines, end.segs)]
  BY DEF ReadLine
<1> HIDE DEF end, s, begin
<1>5. QED
  BY <1>1, <1>3, <1>4 DEF s, AtLine

(* Parsing gives back the map that was encoded. *)
LEMMA MapParsed ==
  ASSUME NEW map, IsMap(map)
  PROVE  Parse(Encoded(map)).ok /\ Parse(Encoded(map)).lines = map
<1> DEFINE mappings == Encoded(map)
           M == Len(map)
           Left(n) == IF n = 0 THEN <<0, 0, 0, 0>> ELSE Known(map, n, Len(map[n]) + 1)
           State(n) == AtLine(Left(n), SubSeq(map, 1, n))
           start == AtLine(<<0, 0, 0, 0>>, << >>)
           g == [n \in 0 .. M |-> State(n)]
<1>1. map \in Seq(Seq(Segment))
  BY DEF IsMap
<1>2. M \in Nat /\ DOMAIN map = 1 .. M
  <2> HIDE DEF Segment
  <2> QED
    BY <1>1
<1>3. Len(mappings) = M
  <2> DEFINE Line(l) == [k \in DOMAIN map[l] |->
        FlattenSeq([n \in DOMAIN Deltas(map, l, k) |-> Number(Deltas(map, l, k)[n])])]
  <2>1. mappings = [l \in 1 .. M |-> Line(l)]
    BY <1>2 DEF Encoded
  <2> HIDE DEF mappings, M, Line
  <2>2. QED
    BY <1>2, <2>1
<1>4. State(0) = start
  <2>1. SubSeq(map, 1, 0) = << >>
    BY <1>1, Parts
  <2>2. QED
    BY <2>1
<1>5. ASSUME NEW n \in 1 .. M
      PROVE  Known(map, n, 1) = Left(n - 1)
  <2>1. CASE n = 1
    <3>1. DOMAIN map[1] \subseteq Nat \ {0}
      <4>1. 1 \in DOMAIN map
        BY <1>2, <2>1
      <4>2. QED
        BY <4>1, SegmentType
    <3>2. \A i \in 1 .. 4 : Previous(map, 1, 1, i) = 0
      BY <3>1, PreviousAtFirst
    <3>3. Known(map, 1, 1) = [i \in 1 .. 4 |-> 0]
      BY <3>2 DEF Known
    <3>4. [i \in 1 .. 4 |-> 0] = <<0, 0, 0, 0>>
      OBVIOUS
    <3>5. n - 1 = 0
      BY <2>1
    <3>6. QED
      BY <2>1, <3>3, <3>4, <3>5
  <2>2. CASE n # 1
    <3>1. n - 1 \in DOMAIN map /\ (n - 1) + 1 = n /\ n \in DOMAIN map /\ n - 1 # 0
      BY <1>2, <2>2
    <3>2. (n - 1) + 1 \in DOMAIN map
      BY <3>1
    <3>3. ASSUME NEW i \in 1 .. 4
          PROVE  Previous(map, n, 1, i) = Previous(map, n - 1, Len(map[n - 1]) + 1, i)
      <4>1. Previous(map, (n - 1) + 1, 1, i) = Previous(map, n - 1, Len(map[n - 1]) + 1, i)
        BY <3>1, <3>2, PreviousInNextLine
      <4>2. QED
        BY <3>1, <4>1
    <3>4. Known(map, n, 1) = Known(map, n - 1, Len(map[n - 1]) + 1)
      BY <3>3 DEF Known
    <3>5. QED
      BY <3>1, <3>4
  <2>3. QED
    BY <2>1, <2>2
<1>6. ASSUME NEW n \in 1 .. M
      PROVE  State(n) = ReadLine(State(n - 1), mappings[n])
  <2>1. n \in DOMAIN map /\ n # 0
    BY <1>2
  <2>2. PICK column : Segments(Between(0, Known(map, n, 1), << >>), mappings[n])
                        = Between(column, Known(map, n, Len(map[n]) + 1), map[n])
    BY <2>1, LineRead
  <2>3. Append(SubSeq(map, 1, n - 1), map[n]) = SubSeq(map, 1, n)
    BY <1>1, Parts
  <2>4. Left(n) = Known(map, n, Len(map[n]) + 1)
    BY <2>1
  <2>5. Known(map, n, 1) = Left(n - 1)
    BY <1>5
  <2> HIDE DEF Left, mappings
  <2> DEFINE last == Left(n - 1)
             after == Left(n)
             lines == SubSeq(map, 1, n - 1)
  <2>6. Segments(Between(0, last, << >>), mappings[n]) = Between(column, after, map[n])
    BY <2>2, <2>4, <2>5
  <2> HIDE DEF last, after, lines
  <2>7. ReadLine(AtLine(last, lines), mappings[n]) = AtLine(after, Append(lines, map[n]))
    BY ONLY <2>6, ReadLineKeeps
  <2>8. State(n - 1) = AtLine(last, lines)
    BY DEF last, lines
  <2>9. State(n) = AtLine(after, Append(lines, map[n]))
    BY <2>3 DEF after, lines
  <2>10. QED
    BY ONLY <2>7, <2>8, <2>9
<1>7. State(M).ok /\ State(M).lines = map
  <2>1. SubSeq(map, 1, M) = map
    BY <1>1, Parts
  <2>2. QED
    BY <2>1 DEF AtLine
<1> HIDE DEF State, start, mappings, M
<1>8. ASSUME NEW n \in 0 .. M
      PROVE  State(n) = IF n = 0 THEN start ELSE ReadLine(g[n - 1], mappings[n])
  <2>1. CASE n = 0
    BY <1>4, <2>1
  <2>2. CASE n # 0
    <3>1. n \in 1 .. M /\ n - 1 \in 0 .. M
      BY <1>2, <2>2
    <3>2. g[n - 1] = State(n - 1)
      BY <3>1
    <3>3. State(n) = ReadLine(State(n - 1), mappings[n])
      BY <1>6, <3>1
    <3>4. QED
      BY <2>2, <3>2, <3>3
  <2>3. QED
    BY <2>1, <2>2
<1>9. g = [n \in 0 .. M |-> IF n = 0 THEN start ELSE ReadLine(g[n - 1], mappings[n])]
  BY ONLY <1>8
<1>10. Parse(mappings) = g[M]
  <2>1. Len(mappings) \in Nat
    BY <1>2, <1>3
  <2>2. g = [n \in 0 .. Len(mappings) |->
              IF n = 0 THEN [ok |-> TRUE, last |-> <<0, 0, 0, 0>>, lines |-> << >>]
              ELSE ReadLine(g[n - 1], mappings[n])]
    BY <1>3, <1>9 DEF start, AtLine
  <2> HIDE DEF g
  <2>3. QED
    BY <1>3, <2>1, <2>2, ParseReach
<1>11. g[M] = State(M)
  BY <1>2
<1>12. QED
  BY <1>7, <1>10, <1>11 DEF mappings

--------------------------------------------------------------------------------
(* The segment that sort.Search leads to is the one that is meant. *)
LEMMA SearchRight ==
  ASSUME NEW segs, NEW K \in Nat, DOMAIN segs = 1 .. K, Len(segs) = K, NEW column \in Nat,
         \A k \in 1 .. K : segs[k].column \in Nat,
         \A j, k \in 1 .. K : j <= k => segs[j].column <= segs[k].column
  PROVE  LET idx == IF Beyond(segs, column) = {} THEN Len(segs)
                    ELSE Min(Beyond(segs, column)) - 1
         IN  /\ idx \in 0 .. K
             /\ \A k \in 1 .. K : segs[k].column <= column <=> k <= idx
<1> DEFINE beyond == Beyond(segs, column)
           idx == IF beyond = {} THEN K ELSE Min(beyond) - 1
<1>1. \A k : k \in beyond <=> k \in 1 .. K /\ segs[k].column > column
  BY DEF Beyond
<1>2. CASE beyond = {}
  <2> HIDE DEF beyond
  <2>1. \A k \in 1 .. K : segs[k].column <= column
    BY <1>1, <1>2
  <2>2. QED
    BY <1>2, <2>1 DEF beyond
<1>3. CASE beyond # {}
  <2> HIDE DEF beyond
  <2>1. beyond \subseteq Nat
    BY <1>1
  <2>2. PICK m \in beyond : \A k \in beyond : m <= k
    BY <1>3, <2>1, LeastElement
  <2>3. \A x \in beyond : (\A y \in beyond : x <= y) => x = m
    <3> SUFFICES ASSUME NEW x \in beyond, \A y \in beyond : x <= y
                 PROVE  x = m
      OBVIOUS
    <3>1. x <= m /\ m <= x /\ x \in Nat /\ m \in Nat
      BY <2>1, <2>2
    <3>2. QED
      BY ONLY <3>1
  <2>4. Min(beyond) = m
    BY <2>2, <2>3 DEF Min
  <2>5. m \in 1 .. K /\ segs[m].column > column
    BY <1>1, <2>2
  <2>6. m - 1 \in 0 .. K
    BY <2>5
  <2>7. ASSUME NEW k \in 1 .. K
        PROVE  segs[k].column <= column <=> k <= m - 1
    <3>1. CASE k <= m - 1
      <4>1. ~ (m <= k)
        BY <2>5, <3>1
      <4>2. k \notin beyond
        BY <2>2, <4>1
      <4>3. QED
        BY <1>1, <3>1, <4>2
    <3>2. CASE ~ (k <= m - 1)
      <4>1. m <= k
        BY <2>5, <3>2
      <4>2. segs[m].column <= segs[k].column
        BY <2>5, <4>1
      <4>3. segs[m].column \in Nat /\ segs[k].column \in Nat
        BY <2>5
      <4>4. ~ (segs[k].column <= column)
        BY <2>5, <4>2, <4>3
      <4>5. QED
        BY <3>2, <4>4
    <3>3. QED
      BY <3>1, <3>2
  <2>8. QED
    BY <1>3, <2>4, <2>6, <2>7 DEF beyond
<1>4. QED
  BY <1>2, <1>3

(* So a position gets the fields it was meant to get. *)
LEMMA ResolvedAsMeant ==
  ASSUME NEW map, IsMap(map), NEW line \in DOMAIN map, NEW column \in Nat
  PROVE  Resolve(map, line - 1, column) = Meant(map, line, column)
<1> DEFINE segs == map[line]
           K == Len(segs)
           idx == IF Beyond(segs, column) = {} THEN Len(segs)
                  ELSE Min(Beyond(segs, column)) - 1
<1>1. /\ K \in Nat /\ DOMAIN segs = 1 .. K /\ line \in Nat
      /\ \A k \in 1 .. K : segs[k].column \in Nat
  BY SegmentType
<1>2. \A j, k \in 1 .. K : j <= k => segs[j].column <= segs[k].column
  BY <1>1 DEF IsMap
<1>3. idx \in 0 .. K /\ \A k \in 1 .. K : segs[k].column <= column <=> k <= idx
  <2> HIDE DEF segs
  <2> QED
    BY <1>1, <1>2, SearchRight
<1>4. (line - 1) + 1 = line
  BY <1>1
<1>5. Resolve(map, line - 1, column) = IF idx = 0 THEN << >> ELSE segs[idx].fields
  BY <1>4 DEF Resolve
<1> DEFINE Meets(k) == /\ segs[k].column <= column
                      /\ \A j \in DOMAIN segs : segs[j].column <= column => j <= k
           last == CHOOSE k \in DOMAIN segs : Meets(k)
<1>6. Meant(map, line, column)
        = IF \E k \in DOMAIN segs : segs[k].column <= column THEN segs[last].fields ELSE << >>
  BY DEF Meant
<1> HIDE DEF idx, segs, K
<1>7. CASE idx = 0
  <2>1. ~ \E k \in DOMAIN segs : segs[k].column <= column
    BY <1>1, <1>3, <1>7
  <2>2. QED
    BY <1>5, <1>6, <1>7, <2>1
<1>8. CASE idx # 0
  <2>1. idx \in 1 .. K
    BY <1>1, <1>3, <1>8
  <2>2. idx <= idx
    BY <2>1
  <2>3. Meets(idx)
    BY <1>1, <1>3, <2>1, <2>2
  <2>4. ASSUME NEW k \in DOMAIN segs, Meets(k)
        PROVE  k = idx
    <3>1. k <= idx /\ idx <= k
      BY <1>1, <1>3, <2>1, <2>3, <2>4
    <3>2. QED
      BY <1>1, <2>1, <3>1
  <2>5. last = idx
    <3> HIDE DEF Meets
    <3> QED
      BY <1>1, <2>1, <2>3, <2>4
  <2>6. \E k \in DOMAIN segs : segs[k].column <= column
    BY <1>1, <2>1, <2>3
  <2> HIDE DEF last
  <2>7. QED
    BY <1>5, <1>6, <1>8, <2>5, <2>6
<1>9. QED
  BY <1>7, <1>8

(* Whatever a bundler writes is read and looked up as it was meant. *)
THEOREM MapRead ==
  ASSUME NEW map, IsMap(map), NEW columns, columns \subseteq Nat
  PROVE  ReadRight(map, columns)
<1>1. Parse(Encoded(map)).ok /\ Parse(Encoded(map)).lines = map
  BY MapParsed
<1>2. \A line \in DOMAIN map : \A column \in columns :
        Resolve(map, line - 1, column) = Meant(map, line, column)
  BY ResolvedAsMeant
<1>3. QED
  BY <1>1, <1>2 DEF ReadRight

--------------------------------------------------------------------------------
(* No release is there twice. *)
ReleasesUnique ==
  \A i, j \in DOMAIN releases : releases[i] = releases[j] => i = j

TablesInv == TypeOK /\ ReleasesUnique

--------------------------------------------------------------------------------
(* CreateRelease keeps every release, and its answer is one of the right name. *)
LEMMA ReleaseCreated ==
  ASSUME TablesInv, NEW p \in Projects, NEW v \in Versions, NEW id \in ReleaseIds,
         CreateRelease(p, v, id)
  PROVE  /\ DOMAIN releases' \subseteq ReleaseIds
         /\ DOMAIN releases \subseteq DOMAIN releases'
         /\ \A r \in DOMAIN releases : releases'[r] = releases[r]
         /\ \A r \in DOMAIN releases' : releases'[r] \in Projects \X Versions
         /\ id \in DOMAIN releases' /\ releases'[id] = <<p, v>>
         /\ ReleasesUnique'
<1>1. CASE id \in IdsOf(p, v) /\ UNCHANGED releases
  BY <1>1 DEF TablesInv, TypeOK, ReleasesUnique, IdsOf
<1>2. CASE /\ IdsOf(p, v) = {}
           /\ id \in ReleaseIds \ DOMAIN releases
           /\ releases' = [r \in DOMAIN releases \cup {id} |->
                             IF r = id THEN <<p, v>> ELSE releases[r]]
  <2>1. \A r \in DOMAIN releases : releases[r] # <<p, v>>
    BY <1>2 DEF IdsOf
  <2>2. QED
    BY <1>2, <2>1 DEF TablesInv, TypeOK, ReleasesUnique
<1>3. QED
  BY <1>1, <1>2 DEF CreateRelease

(* Requests under way keep their releases. *)
LEMMA UploadsKept ==
  ASSUME TablesInv, DOMAIN releases \subseteq DOMAIN releases',
         NEW u \in Uploads, upload'[u] = upload[u]
  PROVE  \/ upload'[u] = Idle
         \/ upload'[u] \in [step : {"read"}, release : DOMAIN releases', path : Paths]
  BY DEF TablesInv, TypeOK

LEMMA TablesInvHolds == Spec => []TablesInv
<1>1. Init => TablesInv
  BY DEF Init, TablesInv, TypeOK, ReleasesUnique
<1>2. ASSUME TablesInv, [Next]_vars
      PROVE  TablesInv'
  <2>1. ASSUME NEW p \in Projects, NEW v \in Versions, PostRelease(p, v)
        PROVE  TablesInv'
    <3>1. PICK id \in ReleaseIds : CreateRelease(p, v, id)
      BY <2>1 DEF PostRelease
    <3>2. UNCHANGED <<artifacts, upload, event, cache, shown>>
      BY <2>1 DEF PostRelease
    <3>3. \A u \in Uploads :
            \/ upload'[u] = Idle
            \/ upload'[u] \in [step : {"read"}, release : DOMAIN releases', path : Paths]
      BY <1>2, <3>1, <3>2, ReleaseCreated, UploadsKept
    <3>4. QED
      BY <1>2, <3>1, <3>2, <3>3, ReleaseCreated DEF TablesInv, TypeOK
  <2>2. ASSUME NEW u \in Uploads, NEW p \in Projects, NEW v \in Versions, NEW path \in Paths,
               BeginUpload(u, p, v, path)
        PROVE  TablesInv'
    <3>1. PICK id \in ReleaseIds :
            /\ CreateRelease(p, v, id)
            /\ upload' = [upload EXCEPT ![u] = [step |-> "read", release |-> id, path |-> path]]
      BY <2>2 DEF BeginUpload
    <3>2. UNCHANGED <<artifacts, event, cache, shown>>
      BY <2>2 DEF BeginUpload
    <3>3. ASSUME NEW w \in Uploads
          PROVE  \/ upload'[w] = Idle
                 \/ upload'[w] \in [step : {"read"}, release : DOMAIN releases', path : Paths]
      <4>1. CASE w = u
        <5>1. id \in DOMAIN releases'
          BY <1>2, <3>1, ReleaseCreated
        <5>2. upload'[w] = [step |-> "read", release |-> id, path |-> path] \/ upload'[w] = upload[w]
          BY <3>1, <4>1
        <5>3. QED
          BY <1>2, <3>1, <4>1, <5>1, <5>2, ReleaseCreated, UploadsKept
      <4>2. CASE w # u
        BY <1>2, <3>1, <4>2, ReleaseCreated, UploadsKept
      <4>3. QED
        BY <4>1, <4>2
    <3>4. QED
      BY <1>2, <3>1, <3>2, <3>3, ReleaseCreated DEF TablesInv, TypeOK
  <2>3. ASSUME NEW u \in Uploads, RefuseUpload(u)
        PROVE  TablesInv'
    BY <1>2, <2>3 DEF TablesInv, TypeOK, ReleasesUnique, RefuseUpload, tables, page
  <2>4. ASSUME NEW u \in Uploads, NEW content \in Contents, FinishUpload(u, content)
        PROVE  TablesInv'
    BY <1>2, <2>4 DEF TablesInv, TypeOK, ReleasesUnique, FinishUpload, StoreArtifact, Idle
  <2>5. ASSUME NEW p \in Projects, NEW v \in Versions \cup {NoRelease}, OpenPage(p, v)
        PROVE  TablesInv'
    BY <1>2, <2>5 DEF TablesInv, TypeOK, ReleasesUnique, OpenPage, tables
  <2>6. ASSUME NEW f \in Frames, ShowRaw(f)
        PROVE  TablesInv'
    BY <1>2, <2>6 DEF TablesInv, TypeOK, ReleasesUnique, ShowRaw, tables
  <2>7. ASSUME NEW f \in Frames, ShowFrame(f)
        PROVE  TablesInv'
    BY <1>2, <2>7, ArtifactsAssumption
    DEF TablesInv, TypeOK, ReleasesUnique, ShowFrame, HasPosition, tables
  <2>8. CASE UNCHANGED vars
    BY <1>2, <2>8 DEF TablesInv, TypeOK, ReleasesUnique, vars
  <2>9. QED
    BY <1>2, <2>1, <2>2, <2>3, <2>4, <2>5, <2>6, <2>7, <2>8 DEF Next
<1>3. QED
  BY <1>1, <1>2, PTL DEF Spec

(* The tables and the page hold what they should in every reachable state. *)
THEOREM TypeCorrect == Spec => []TypeOK
<1>1. TablesInv => TypeOK
  BY DEF TablesInv
<1>2. QED
  BY <1>1, TablesInvHolds, PTL

--------------------------------------------------------------------------------
(* Unique releases lead to unique artifacts. *)
LEMMA FoundOnce ==
  ASSUME TablesInv, NEW p, NEW v, NEW path, NEW c \in FindArtifact(p, v, path),
         NEW d \in FindArtifact(p, v, path)
  PROVE  c = d
<1>1. PICK k \in DOMAIN artifacts :
        k[2] = path /\ releases[k[1]] = <<p, v>> /\ c = artifacts[k]
  BY DEF FindArtifact
<1>2. PICK l \in DOMAIN artifacts :
        l[2] = path /\ releases[l[1]] = <<p, v>> /\ d = artifacts[l]
  BY DEF FindArtifact
<1>3. k = l
  BY <1>1, <1>2 DEF TablesInv, TypeOK, ReleasesUnique
<1>4. QED
  BY <1>1, <1>2, <1>3

(* FindArtifact never has a choice between two contents. *)
THEOREM FoundUniquely == Spec => []OneArtifactFound
<1>1. TablesInv => OneArtifactFound
  BY FoundOnce DEF OneArtifactFound
<1>2. QED
  BY <1>1, TablesInvHolds, PTL

--------------------------------------------------------------------------------
(* What a page may have found for a file, and may show. *)
Findings == {Usable(contents) : contents \in SUBSET Contents}

Originals == {ResolveFrame(f, maps) : f \in Frames, maps \in Findings}

PageTyped ==
  /\ shown \in Seq([frame : Frames, original : Originals])
  /\ \A path \in DOMAIN cache : cache[path] \in Findings

(* The file at path had contents while the page went on, and they are what   *)
(* the page goes by: in its cache, if there is anything, and on its frames.  *)
GoesBy(path, contents) ==
  /\ path \in DOMAIN cache =>
       cache[path] = IF event.release = NoRelease THEN {} ELSE Usable(contents)
  /\ \A i \in DOMAIN shown : shown[i].frame.abs_path = path =>
       /\ shown[i].original = Original(contents, shown[i].frame)
       /\ path \in DOMAIN cache \/ ~HasPosition(shown[i].frame)

PageInv ==
  /\ PageTyped
  /\ held = [path \in Paths |-> held[path]]
  /\ \A path \in Paths :
       /\ Held(path) \in held[path]
       /\ \E contents \in held[path] \cup {{}} : GoesBy(path, contents)

(* An artifact that is found is one that was uploaded. *)
LEMMA FoundContents ==
  ASSUME TypeOK, NEW p, NEW v, NEW path
  PROVE  FindArtifact(p, v, path) \subseteq Contents
BY DEF TypeOK, FindArtifact

(* Nothing is usable in nothing, and nothing is shown for it. *)
LEMMA NothingUsable ==
  /\ Usable({}) = {}
  /\ {} \in Findings
  /\ \A f : ResolveFrame(f, {}) = << >>
<1>1. Usable({}) = {}
  BY DEF Usable
<1>2. QED
  BY <1>1 DEF Findings, ResolveFrame

(* A write leaves the page alone, and the history grows. *)
LEMMA WriteKeepsPage ==
  ASSUME PageInv, UNCHANGED <<event, cache, shown>>, Noted
  PROVE  PageInv'
<1>1. PageTyped'
  BY DEF PageInv, PageTyped
<1>2. \A path \in Paths : held'[path] = held[path] \cup {Held(path)'}
  BY DEF Noted
<1>3. ASSUME NEW path \in Paths
      PROVE  /\ Held(path)' \in held'[path]
             /\ (\E contents \in held[path] \cup {{}} : GoesBy(path, contents))'
  <2>1. PICK contents \in held[path] \cup {{}} : GoesBy(path, contents)
    BY DEF PageInv
  <2>2. GoesBy(path, contents)'
    BY <2>1 DEF GoesBy, Original
  <2>3. QED
    BY <1>2, <2>1, <2>2
<1>4. held' = [path \in Paths |-> held'[path]]
  BY DEF Noted
<1>5. QED
  BY <1>1, <1>3, <1>4 DEF PageInv

LEMMA PageInvHolds == Spec => []PageInv
<1>1. Init => PageInv
  <2>1. ASSUME Init
        PROVE  PageInv
    <3>1. \A path \in Paths : Held(path) = {} /\ held[path] = {{}}
      BY <2>1 DEF Init, Held, FindArtifact
    <3>2. \A path \in Paths : GoesBy(path, {})
      BY <2>1 DEF Init, GoesBy
    <3>3. QED
      BY <2>1, <3>1, <3>2 DEF Init, PageInv, PageTyped
  <2>2. QED
    BY <2>1
<1>2. ASSUME PageInv, TypeOK, [Next]_vars
      PROVE  PageInv'
  <2>1. ASSUME NEW p \in Projects, NEW v \in Versions, PostRelease(p, v)
        PROVE  PageInv'
    BY <1>2, <2>1, WriteKeepsPage DEF PostRelease
  <2>2. ASSUME NEW u \in Uploads, NEW p \in Projects, NEW v \in Versions, NEW path \in Paths,
               BeginUpload(u, p, v, path)
        PROVE  PageInv'
    BY <1>2, <2>2, WriteKeepsPage DEF BeginUpload
  <2>3. ASSUME NEW u \in Uploads, NEW content \in Contents, FinishUpload(u, content)
        PROVE  PageInv'
    BY <1>2, <2>3, WriteKeepsPage DEF FinishUpload
  <2>4. ASSUME UNCHANGED <<tables, page>>
        PROVE  PageInv'
    <3>1. \A path \in Paths : Held(path)' = Held(path)
      BY <2>4 DEF Held, FindArtifact, tables, page
    <3>2. \A path, contents : GoesBy(path, contents)' = GoesBy(path, contents)
      BY <2>4 DEF GoesBy, Original, page
    <3>3. PageTyped'
      BY <1>2, <2>4 DEF PageInv, PageTyped, page
    <3>4. ASSUME NEW path \in Paths
          PROVE  (\E contents \in held[path] \cup {{}} : GoesBy(path, contents))'
      <4>1. PICK contents \in held[path] \cup {{}} : GoesBy(path, contents)
        BY <1>2 DEF PageInv
      <4>2. QED
        BY <2>4, <3>2, <4>1 DEF page
    <3>5. QED
      BY <1>2, <2>4, <3>1, <3>3, <3>4 DEF PageInv, page
  <2>5. ASSUME NEW p \in Projects, NEW v \in Versions \cup {NoRelease}, OpenPage(p, v)
        PROVE  PageInv'
    <3>1. \A path \in Paths : held'[path] = {Held(path)'}
      BY <2>5 DEF OpenPage, Held, FindArtifact, tables
    <3>2. \A path \in Paths : \A contents : GoesBy(path, contents)'
      BY <2>5 DEF OpenPage, GoesBy
    <3>3. QED
      BY <2>5, <3>1, <3>2 DEF OpenPage, PageInv, PageTyped
  <2>6. ASSUME NEW f \in Frames, ShowRaw(f)
        PROVE  PageInv'
    <3>1. << >> \in Originals
      BY NothingUsable DEF Originals
    <3>2. PageTyped'
      BY <1>2, <2>6, <3>1 DEF PageInv, PageTyped, ShowRaw
    <3>3. \A path \in Paths : Held(path)' = Held(path)
      BY <2>6 DEF ShowRaw, Held, FindArtifact, tables
    <3>4. ASSUME NEW path \in Paths, NEW contents, GoesBy(path, contents)
          PROVE  GoesBy(path, contents)'
      BY <1>2, <2>6, <3>4 DEF PageInv, PageTyped, ShowRaw, GoesBy, Original, HasPosition
    <3>5. ASSUME NEW path \in Paths
          PROVE  (\E contents \in held[path] \cup {{}} : GoesBy(path, contents))'
      <4>1. PICK contents \in held[path] \cup {{}} : GoesBy(path, contents)
        BY <1>2 DEF PageInv
      <4>2. GoesBy(path, contents)'
        BY <3>4, <4>1
      <4>3. QED
        BY <2>6, <4>1, <4>2 DEF ShowRaw
    <3>6. QED
      BY <1>2, <2>6, <3>2, <3>3, <3>5 DEF PageInv, ShowRaw
  <2>7. ASSUME NEW f \in Frames, ShowFrame(f)
        PROVE  PageInv'
    <3> DEFINE file == f.abs_path
    <3>1. file \in Paths /\ HasPosition(f)
      BY <2>7, ArtifactsAssumption DEF ShowFrame, HasPosition
    <3>2. PICK maps \in Lookup(file) :
            /\ cache' = [path \in DOMAIN cache \cup {file} |->
                           IF path = file THEN maps ELSE cache[path]]
            /\ shown' = Append(shown, [frame |-> f, original |-> ResolveFrame(f, maps)])
      BY <2>7 DEF ShowFrame
    <3>3. UNCHANGED <<tables, event, held>>
      BY <2>7 DEF ShowFrame
    <3>4. \A path \in Paths : Held(path)' = Held(path)
      BY <3>3 DEF Held, FindArtifact, tables
    <3>5. maps \in Findings
      BY <1>2, <3>1, FoundContents, NothingUsable
      DEF Lookup, Findings, PageInv, PageTyped, Held
    <3>6. PageTyped'
      BY <1>2, <3>2, <3>5 DEF PageInv, PageTyped, Originals
    <3>7. PICK before \in held[file] \cup {{}} : GoesBy(file, before)
      BY <1>2, <3>1 DEF PageInv
    <3>8. PICK contents \in held[file] \cup {{}} :
            /\ GoesBy(file, contents)
            /\ maps = IF event.release = NoRelease THEN {} ELSE Usable(contents)
      <4>1. CASE file \in DOMAIN cache
        BY <3>2, <3>7, <4>1 DEF Lookup, GoesBy
      <4>2. CASE file \notin DOMAIN cache
        <5>1. \A contents : GoesBy(file, contents)
          BY <3>7, <4>2 DEF GoesBy, Original
        <5>2. \E contents \in held[file] \cup {{}} :
                 maps = IF event.release = NoRelease THEN {} ELSE Usable(contents)
          BY <1>2, <3>1, <3>2, <4>2, NothingUsable DEF Lookup, PageInv
        <5>3. QED
          BY <5>1, <5>2
      <4>3. QED
        BY <4>1, <4>2
    <3>9. ResolveFrame(f, maps) = Original(contents, f)
      BY <3>1, <3>8, NothingUsable DEF Original
    <3>10. GoesBy(file, contents)'
      BY <1>2, <3>1, <3>2, <3>3, <3>8, <3>9
      DEF PageInv, PageTyped, GoesBy, Original, HasPosition
    <3>11. ASSUME NEW path \in Paths \ {file}, NEW c, GoesBy(path, c)
           PROVE  GoesBy(path, c)'
      BY <1>2, <3>2, <3>3, <3>11 DEF PageInv, PageTyped, GoesBy, Original, HasPosition
    <3>12. ASSUME NEW path \in Paths
           PROVE  (\E c \in held[path] \cup {{}} : GoesBy(path, c))'
      <4>1. CASE path = file
        BY <3>3, <3>8, <3>10, <4>1
      <4>2. CASE path # file
        <5>1. PICK c \in held[path] \cup {{}} : GoesBy(path, c)
          BY <1>2 DEF PageInv
        <5>2. GoesBy(path, c)'
          BY <3>11, <4>2, <5>1
        <5>3. QED
          BY <3>3, <5>1, <5>2
      <4>3. QED
        BY <4>1, <4>2
    <3>13. QED
      BY <1>2, <3>3, <3>4, <3>6, <3>12 DEF PageInv
  <2>8. QED
    BY <1>2, <2>1, <2>2, <2>3, <2>4, <2>5, <2>6, <2>7 DEF Next, RefuseUpload, vars, tables, page
<1>3. QED
  BY <1>1, <1>2, TypeCorrect, PTL DEF Spec

(* The frames of one file on a page are all resolved by the same map. *)
THEOREM PageConsistent == Spec => []PageOfOneMap
<1>1. PageInv => PageOfOneMap
  BY DEF PageInv, GoesBy, PageOfOneMap
<1>2. QED
  BY <1>1, PageInvHolds, PTL

--------------------------------------------------------------------------------
(* What a bundler uploads is read as it was built, on every page and however  *)
(* many lines, segments and digits it has: an artifact is a content, and a    *)
(* content that was built is the encoding of a map.                           *)
THEOREM ReadAsBuilt == Spec => []MapsReadRight
<1>1. Misread = {}
  <2> SUFFICES ASSUME NEW c \in DOMAIN Built
               PROVE  ReadRight(Built[c], Columns)
    BY DEF Misread
  <2>1. IsMap(Built[c]) /\ Columns \subseteq Nat
    BY ArtifactsAssumption
  <2>2. QED
    BY <2>1, MapRead
<1>2. MapsReadRight
  BY <1>1 DEF MapsReadRight
<1>3. QED
  BY <1>2, PTL
================================================================================
