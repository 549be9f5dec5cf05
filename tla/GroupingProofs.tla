---------------------------- MODULE GroupingProofs ----------------------------
(***************************************************************************)
(* Grouping, for events with any number of threads, exceptions, frames and *)
(* tags: the fingerprint forgets nothing of what it joins, the collapsed   *)
(* call paths of two stack traces are equal exactly when their frames can  *)
(* be matched, and what is parsed is what was meant.  What the recursive   *)
(* functions of the model compute is shown by the least number at which it *)
(* would go wrong.                                                         *)
(***************************************************************************)
EXTENDS Grouping, SequenceTheorems, FiniteSetTheorems, WellFoundedInduction, TLAPS

LessThan == {mn \in Nat \X Nat : mn[1] < mn[2]}

(* The order of the natural numbers, as the library wants it. *)
LEMMA LessThanWellFounded == IsWellFoundedOn(LessThan, Nat)
BY NatLessThanWellFounded DEF OpToRel, LessThan

(* A set of natural numbers has a least element. *)
LEMMA LeastElement ==
  ASSUME NEW T, T \subseteq Nat, T # {}
  PROVE  \E m \in T : \A k \in T : m <= k
<1>1. \E m \in T : \A k \in T : ~ (<<k, m>> \in LessThan)
  BY LessThanWellFounded, WFMin
<1>2. \A k, m \in Nat : k < m => <<k, m>> \in LessThan
  BY DEF LessThan
<1>3. \A k, m \in T : ~(k < m) => m <= k
  OBVIOUS
<1>4. \A k, m \in T : ~(<<k, m>> \in LessThan) => m <= k
  BY <1>2, <1>3
<1>5. QED
  BY <1>1, <1>4

(* One that is bounded has a greatest. *)
LEMMA GreatestElement ==
  ASSUME NEW T, NEW N \in Nat, T \subseteq 0 .. N, T # {}
  PROVE  \E m \in T : \A k \in T : k <= m
<1> DEFINE Mirror == {n \in 0 .. N : N - n \in T}
<1>1. Mirror \subseteq Nat /\ Mirror # {}
  <2>1. PICK m \in T : TRUE
    OBVIOUS
  <2>2. N - m \in 0 .. N /\ N - (N - m) = m
    OBVIOUS
  <2>3. N - m \in Mirror
    BY <2>2
  <2>4. Mirror \subseteq Nat
    OBVIOUS
  <2> HIDE DEF Mirror
  <2>5. QED
    BY <2>3, <2>4
<1>2. PICK m \in Mirror : \A k \in Mirror : m <= k
  <2> HIDE DEF Mirror
  <2> QED
    BY <1>1, LeastElement
<1>3. ASSUME NEW k \in T
      PROVE  k <= N - m
  <2>1. N - k \in 0 .. N /\ N - (N - k) = k
    OBVIOUS
  <2>2. N - k \in Mirror
    BY <2>1
  <2>3. m \in 0 .. N /\ k \in 0 .. N /\ m <= N - k
    BY <1>2, <2>2
  <2>4. QED
    BY <2>3
<1>4. QED
  BY <1>2, <1>3

(* Induction up to N, on the set of numbers for which something holds. *)
LEMMA UpTo ==
  ASSUME NEW N \in Nat, NEW T, 0 \in T, \A n \in 1 .. N : n - 1 \in T => n \in T
  PROVE  0 .. N \subseteq T
<1> DEFINE Bad == {n \in 0 .. N : n \notin T}
<1> SUFFICES ASSUME Bad # {}
             PROVE  FALSE
  OBVIOUS
<1>1. Bad \subseteq Nat
  OBVIOUS
<1>2. PICK n \in Bad : \A k \in Bad : n <= k
  <2> HIDE DEF Bad
  <2> QED
    BY <1>1, LeastElement
<1>3. n \in 1 .. N /\ n - 1 \in 0 .. N /\ ~ (n <= n - 1)
  OBVIOUS
<1>4. n - 1 \in T
  BY <1>2, <1>3
<1>5. QED
  BY <1>3, <1>4

(* What f[n \in 0 .. N] == IF n = 0 THEN base ELSE step(n, f[n - 1]) is.       *)
Computes(f, N, V, base, step) ==
  /\ f \in [0 .. N -> V]
  /\ f[0] = base
  /\ \A n \in 1 .. N : f[n] = step[<<n, f[n - 1]>>]

(* Such a recursive definition defines a function. *)
LEMMA Recursive ==
  ASSUME NEW N \in Nat, NEW V, NEW base \in V, NEW step \in [(1 .. N) \X V -> V]
  PROVE  \E f : Computes(f, N, V, base, step)
<1> DEFINE Solves(f, n) == /\ f \in [0 .. n -> V]
                           /\ f[0] = base
                           /\ \A k \in 1 .. n : f[k] = step[<<k, f[k - 1]>>]
           Bad == {n \in 0 .. N : ~ \E f : Solves(f, n)}
<1>1. CASE Bad = {}
  <2>1. N \in 0 .. N
    OBVIOUS
  <2>2. \E f : Solves(f, N)
    BY <1>1, <2>1
  <2>3. QED
    BY <2>2 DEF Computes
<1>2. CASE Bad # {}
  <2>1. PICK n \in Bad : \A k \in Bad : n <= k
    <3>1. Bad \subseteq Nat
      OBVIOUS
    <3> HIDE DEF Bad
    <3>2. QED
      BY <1>2, <3>1, LeastElement
  <2>2. CASE n = 0
    <3>1. Solves([k \in 0 .. 0 |-> base], 0)
      OBVIOUS
    <3>2. QED
      BY <2>1, <2>2, <3>1
  <2>3. CASE n > 0
    <3>1. n - 1 \in 0 .. N /\ ~ (n <= n - 1)
      BY <2>3
    <3>2. n - 1 \notin Bad
      BY <2>1, <3>1
    <3>3. PICK f : Solves(f, n - 1)
      BY <3>1, <3>2
    <3> DEFINE g == [k \in 0 .. n |-> IF k = n THEN step[<<n, f[n - 1]>>] ELSE f[k]]
    <3>4. step[<<n, f[n - 1]>>] \in V
      BY <2>3, <3>1, <3>3
    <3>5. g \in [0 .. n -> V] /\ g[0] = base
      BY <2>3, <3>3, <3>4
    <3>6. ASSUME NEW k \in 1 .. n
          PROVE  g[k] = step[<<k, g[k - 1]>>]
      <4>1. g[k - 1] = f[k - 1]
        BY <2>3
      <4>2. CASE k = n
        <5>1. k \in 0 .. n /\ g[k] = step[<<n, f[n - 1]>>]
          BY <4>2
        <5>2. QED
          BY <4>1, <4>2, <5>1
      <4>3. CASE k # n
        <5>1. k \in 1 .. n - 1 /\ g[k] = f[k]
          BY <4>3
        <5>2. QED
          BY <3>3, <4>1, <5>1
      <4>4. QED
        BY <4>2, <4>3
    <3>7. Solves(g, n)
      BY <3>5, <3>6
    <3>8. QED
      BY <2>1, <3>7
  <2>4. QED
    BY <2>2, <2>3
<1>3. QED
  BY <1>1, <1>2

-------------------------------------------------------------------------------
(* What FlattenSeq has gathered of the first n sequences. *)
Gathers(s, S, G) ==
  /\ G \in [0 .. Len(s) -> Seq(S)]
  /\ G[0] = << >>
  /\ \A n \in 1 .. Len(s) : G[n] = G[n - 1] \o s[n]

LEMMA FlattenPrefixes ==
  ASSUME NEW S, NEW s \in Seq(Seq(S))
  PROVE  \E G : Gathers(s, S, G) /\ FlattenSeq(s) = G[Len(s)]
<1> DEFINE N == Len(s)
           step == [nv \in (1 .. N) \X Seq(S) |-> nv[2] \o s[nv[1]]]
           Flat(f) == [i \in 1 .. Len(s) |-> IF i = 1 THEN s[i] ELSE f[i - 1] \o s[i]]
<1>1. N \in Nat /\ << >> \in Seq(S) /\ \A n \in 1 .. N : s[n] \in Seq(S)
  OBVIOUS
<1>2. step \in [(1 .. N) \X Seq(S) -> Seq(S)]
  BY <1>1
<1>3. \A n \in 1 .. N, v \in Seq(S) : step[<<n, v>>] = v \o s[n]
  OBVIOUS
<1>4. PICK G \in [0 .. N -> Seq(S)] :
        G[0] = << >> /\ \A n \in 1 .. N : G[n] = step[<<n, G[n - 1]>>]
  <2> DEFINE V == Seq(S)
             base == << >>
  <2>1. N \in Nat /\ base \in V /\ step \in [(1 .. N) \X V -> V]
    BY <1>1, <1>2
  <2> HIDE DEF N, step, V, base
  <2>2. \E f : Computes(f, N, V, base, step)
    BY <2>1, Recursive
  <2>3. QED
    BY <2>2 DEF Computes, V, base
<1>5. \A n \in 1 .. N : n - 1 \in 0 .. N /\ G[n - 1] \in Seq(S)
  <2> HIDE DEF N
  <2> QED
    BY <1>1, <1>4
<1>6. \A n \in 1 .. N : G[n] = G[n - 1] \o s[n]
  <2> HIDE DEF N, step
  <2> QED
    BY <1>3, <1>4, <1>5
<1>7. N # 0 => G[1] = s[1]
  <2> HIDE DEF N
  <2> SUFFICES ASSUME N # 0
               PROVE  G[1] = s[1]
    OBVIOUS
  <2>1. 1 \in 1 .. N /\ 1 - 1 = 0
    BY <1>1
  <2>2. G[1] = G[0] \o s[1]
    BY <1>6, <2>1
  <2>3. G[0] = << >> /\ s[1] \in Seq(S)
    BY <1>1, <1>4, <2>1
  <2>4. QED
    BY <2>2, <2>3
<1>8. Gathers(s, S, G)
  BY <1>4, <1>6 DEF Gathers
<1>9. CASE N = 0
  BY <1>4, <1>8, <1>9 DEF FlattenSeq
<1>10. CASE N # 0
  <2> DEFINE H == [i \in 1 .. N |-> G[i]]
             flatten == CHOOSE f : f = Flat(f)
  <2>1. \A i \in 1 .. N : H[i] = IF i = 1 THEN s[i] ELSE H[i - 1] \o s[i]
    <3> SUFFICES ASSUME NEW i \in 1 .. N
                 PROVE  H[i] = IF i = 1 THEN s[i] ELSE H[i - 1] \o s[i]
      OBVIOUS
    <3>1. CASE i = 1
      BY <1>10, <1>7, <3>1
    <3>2. CASE i # 1
      <4>1. i - 1 \in 1 .. N
        BY <1>1, <3>2
      <4>2. QED
        BY <1>6, <3>2, <4>1
    <3>3. QED
      BY <3>1, <3>2
  <2>2. H = Flat(H)
    <3> HIDE DEF H
    <3>1. H = [i \in 1 .. N |-> H[i]]
      BY DEF H
    <3>2. QED
      BY <2>1, <3>1
  <2>3. flatten = Flat(flatten)
    <3> HIDE DEF H, Flat
    <3> QED
      BY <2>2
  <2>4. FlattenSeq(s) = flatten[N]
    BY <1>10 DEF FlattenSeq
  <2> DEFINE Bad == {n \in 1 .. N : flatten[n] # G[n]}
  <2>5. Bad = {}
    <3> SUFFICES ASSUME Bad # {}
                 PROVE  FALSE
      OBVIOUS
    <3>1. PICK n \in Bad : \A k \in Bad : n <= k
      <4>1. Bad \subseteq Nat
        OBVIOUS
      <4> HIDE DEF Bad
      <4>2. QED
        BY <4>1, LeastElement
    <3>2. flatten[n] = IF n = 1 THEN s[n] ELSE flatten[n - 1] \o s[n]
      <4> HIDE DEF flatten
      <4> QED
        BY <2>3
    <3>3. CASE n = 1
      <4> HIDE DEF flatten
      <4> QED
        BY <1>10, <1>7, <3>1, <3>2, <3>3
    <3>4. CASE n # 1
      <4> HIDE DEF flatten, N
      <4>1. n - 1 \in 1 .. N /\ ~ (n <= n - 1)
        BY <1>1, <3>4
      <4>2. flatten[n - 1] = G[n - 1]
        BY <3>1, <4>1
      <4>3. QED
        BY <1>6, <3>1, <3>2, <3>4, <4>2
    <3>5. QED
      BY <3>3, <3>4
  <2>6. N \in 1 .. N
    BY <1>1, <1>10
  <2> HIDE DEF flatten
  <2>7. flatten[N] = G[N]
    <3> HIDE DEF N
    <3> QED
      BY <2>5, <2>6
  <2>8. FlattenSeq(s) = G[Len(s)]
    BY <2>4, <2>7
  <2>9. QED
    BY <1>8, <2>8
<1>11. QED
  BY <1>9, <1>10

-------------------------------------------------------------------------------
(* What filterInApp has kept after n frames. *)
Filters(frames, out) ==
  /\ out \in [0 .. Len(frames) -> Seq(SomeFrame)]
  /\ out[0] = << >>
  /\ \A n \in 1 .. Len(frames) :
       out[n] = IF frames[n].in_app THEN Append(out[n - 1], frames[n]) ELSE out[n - 1]

LEMMA FilterSteps ==
  ASSUME NEW frames \in Seq(SomeFrame)
  PROVE  \E out : Filters(frames, out) /\ filterInApp(frames) = out[Len(frames)]
<1> DEFINE N == Len(frames)
           Kept(n, v) == IF frames[n].in_app THEN Append(v, frames[n]) ELSE v
           Body(f) == [n \in 0 .. N |-> IF n = 0 THEN << >> ELSE Kept(n, f[n - 1])]
           V == Seq(SomeFrame)
           base == << >>
           step == [nv \in (1 .. N) \X V |-> Kept(nv[1], nv[2])]
           out == CHOOSE f : f = Body(f)
<1>1. N \in Nat /\ base \in V /\ \A n \in 1 .. N : frames[n] \in SomeFrame
  OBVIOUS
<1>2. \A n \in 1 .. N, v \in V : Kept(n, v) \in V
  <2> HIDE DEF N
  <2> QED
    BY <1>1
<1>3. step \in [(1 .. N) \X V -> V] /\ \A n \in 1 .. N, v \in V : step[<<n, v>>] = Kept(n, v)
  <2> HIDE DEF N, V, Kept
  <2> QED
    BY <1>2
<1>4. PICK g : Computes(g, N, V, base, step)
  <2> HIDE DEF N, V, base, step
  <2> QED
    BY <1>1, <1>3, Recursive
<1>5. \A n \in 1 .. N : n - 1 \in 0 .. N /\ g[n - 1] \in V
  <2> HIDE DEF N, V
  <2> QED
    BY <1>1, <1>4 DEF Computes
<1>6. /\ g \in [0 .. N -> V] /\ g[0] = << >>
      /\ \A n \in 1 .. N : g[n] = Kept(n, g[n - 1])
  <2> HIDE DEF N, V, Kept, step
  <2> QED
    BY <1>3, <1>4, <1>5 DEF Computes
<1>7. g = Body(g)
  <2> HIDE DEF N, V, Kept
  <2>1. g = [n \in 0 .. N |-> g[n]]
    BY <1>6
  <2>2. \A n \in 0 .. N : g[n] = IF n = 0 THEN << >> ELSE Kept(n, g[n - 1])
    BY <1>1, <1>6
  <2>3. QED
    BY <2>1, <2>2
<1>8. out = Body(out)
  <2> HIDE DEF Body
  <2> QED
    BY <1>7
<1> DEFINE T == {n \in 0 .. N : out[n] = g[n]}
<1>9. 0 \in T /\ \A n \in 1 .. N : n - 1 \in T => n \in T
  <2> HIDE DEF N, Kept, out
  <2>1. \A n \in 0 .. N : out[n] = IF n = 0 THEN << >> ELSE Kept(n, out[n - 1])
    BY <1>8
  <2>2. QED
    BY <1>1, <1>6, <2>1
<1>10. 0 .. N \subseteq T
  <2> HIDE DEF N, T
  <2> QED
    BY <1>1, <1>9, UpTo
<1>11. out[N] = g[N]
  BY <1>1, <1>10
<1>12. filterInApp(frames) = out[N]
  BY DEF filterInApp
<1>13. QED
  BY <1>6, <1>11, <1>12 DEF Filters

(* pos counts the numbers of I from the least to the greatest. *)
Enumerates(pos, K, I) ==
  /\ pos \in [1 .. K -> I]
  /\ \A i \in I : \E k \in 1 .. K : pos[k] = i
  /\ \A k, l \in 1 .. K : k < l => pos[k] < pos[l]

(* The frames that are kept are those of the application, in their order. *)
LEMMA FilterPositions ==
  ASSUME NEW frames \in Seq(SomeFrame)
  PROVE  /\ filterInApp(frames) \in Seq(SomeFrame)
         /\ \E pos :
              /\ Enumerates(pos, Len(filterInApp(frames)),
                            {n \in DOMAIN frames : frames[n].in_app})
              /\ \A k \in DOMAIN filterInApp(frames) : filterInApp(frames)[k] = frames[pos[k]]
<1> DEFINE N == Len(frames)
           Of(n) == {i \in 1 .. n : frames[i].in_app}
<1>1. PICK out : Filters(frames, out) /\ filterInApp(frames) = out[N]
  BY FilterSteps
<1> DEFINE Found(n, pos) == /\ Enumerates(pos, Len(out[n]), Of(n))
                            /\ \A k \in 1 .. Len(out[n]) : out[n][k] = frames[pos[k]]
           T == {n \in 0 .. N : \E pos : Found(n, pos)}
<1>2. N \in Nat /\ \A n \in 1 .. N : frames[n] \in SomeFrame
  OBVIOUS
<1>3. 0 \in T
  <2>1. Found(0, << >>)
    BY <1>1 DEF Filters, Enumerates
  <2>2. QED
    BY <2>1
<1>4. ASSUME NEW n \in 1 .. N, n - 1 \in T
      PROVE  n \in T
  <2> DEFINE K == Len(out[n - 1])
  <2>1. n - 1 \in 0 .. N /\ out[n - 1] \in Seq(SomeFrame) /\ K \in Nat
    BY <1>1, <1>2 DEF Filters
  <2>2. PICK pos : Found(n - 1, pos)
    BY <1>4
  <2>3. CASE frames[n].in_app
    <3>1. out[n] = Append(out[n - 1], frames[n])
      BY <1>1, <2>3 DEF Filters
    <3>2. Len(out[n]) = K + 1 /\ out[n][K + 1] = frames[n] /\ \A k \in 1 .. K : out[n][k] = out[n - 1][k]
      BY <1>2, <2>1, <3>1
    <3>3. Of(n) = Of(n - 1) \cup {n}
      BY <2>3
    <3> DEFINE next == [k \in 1 .. K + 1 |-> IF k = K + 1 THEN n ELSE pos[k]]
    <3>4. \A k \in 1 .. K : /\ pos[k] \in Of(n - 1) /\ pos[k] < n
                            /\ k \in 1 .. K + 1 /\ next[k] = pos[k]
      <4> SUFFICES ASSUME NEW k \in 1 .. K
                   PROVE  /\ pos[k] \in Of(n - 1) /\ pos[k] < n
                          /\ k \in 1 .. K + 1 /\ next[k] = pos[k]
        OBVIOUS
      <4>1. pos[k] \in Of(n - 1)
        BY <2>2 DEF Enumerates
      <4>2. pos[k] \in 1 .. n - 1
        BY <4>1
      <4>3. k \in 1 .. K + 1 /\ k # K + 1
        BY <2>1
      <4>4. QED
        BY <4>1, <4>2, <4>3
    <3>5. next[K + 1] = n /\ K + 1 \in 1 .. K + 1
      BY <2>1
    <3>6. \A k \in 1 .. K + 1 : k = K + 1 \/ k \in 1 .. K
      BY <2>1
    <3>7. Enumerates(next, K + 1, Of(n))
      <4> HIDE DEF K, Of
      <4>1. next \in [1 .. K + 1 -> Of(n)]
        <5>1. \A k \in 1 .. K + 1 : next[k] \in Of(n)
          <6> HIDE DEF next
          <6> QED
            BY <3>3, <3>4, <3>5, <3>6
        <5>2. QED
          BY <5>1
      <4> HIDE DEF next
      <4>2. \A i \in Of(n) : \E k \in 1 .. K + 1 : next[k] = i
        <5>1. \A i \in Of(n - 1) : \E k \in 1 .. K : pos[k] = i
          BY <2>2 DEF Enumerates, K
        <5>2. QED
          BY <3>3, <3>4, <3>5, <5>1
      <4>3. \A k, l \in 1 .. K + 1 : k < l => next[k] < next[l]
        <5>1. \A k, l \in 1 .. K : k < l => pos[k] < pos[l]
          BY <2>2 DEF Enumerates, K
        <5>2. \A k, l \in 1 .. K + 1 : k < l => k \in 1 .. K
          BY <2>1
        <5>3. QED
          BY <3>4, <3>5, <3>6, <5>1, <5>2
      <4>4. QED
        BY <4>1, <4>2, <4>3 DEF Enumerates
    <3>8. \A k \in 1 .. K + 1 : out[n][k] = frames[next[k]]
      <4>1. \A k \in 1 .. K : out[n - 1][k] = frames[pos[k]]
        BY <2>2
      <4> HIDE DEF next, K
      <4>2. QED
        BY <3>2, <3>4, <3>5, <3>6, <4>1
    <3>9. Found(n, next)
      <4> HIDE DEF next, K, Of
      <4> QED
        BY <3>2, <3>7, <3>8
    <3>10. QED
      <4> HIDE DEF Found, next
      <4> QED
        BY <3>9
  <2>4. CASE ~ frames[n].in_app
    <3>1. out[n] = out[n - 1]
      BY <1>1, <2>4 DEF Filters
    <3>2. Of(n) = Of(n - 1)
      BY <2>4
    <3>3. Found(n, pos)
      <4> HIDE DEF Of
      <4> QED
        BY <2>2, <3>1, <3>2
    <3>4. QED
      <4> HIDE DEF Found
      <4> QED
        BY <3>3
  <2>5. QED
    BY <2>3, <2>4
<1>5. N \in T
  <2> HIDE DEF N, T
  <2>1. 0 .. N \subseteq T
    BY <1>2, <1>3, <1>4, UpTo
  <2>2. QED
    BY <1>2, <2>1
<1>6. PICK pos : Found(N, pos)
  BY <1>5
<1>7. out[N] \in Seq(SomeFrame) /\ DOMAIN out[N] = 1 .. Len(out[N]) /\ DOMAIN frames = 1 .. N
  BY <1>1, <1>2 DEF Filters
<1>8. QED
  BY <1>1, <1>6, <1>7

-------------------------------------------------------------------------------
(* A site is two texts. *)
LEMMA SiteFacts ==
  ASSUME NEW frames \in Seq(SomeFrame)
  PROVE  /\ Len(frames) \in Nat
         /\ \A n \in 1 .. Len(frames) : Site(frames[n]) \in Texts \X Texts
<1>1. ASSUME NEW frame \in SomeFrame
      PROVE  Site(frame) \in Texts \X Texts
  <2>1. frame.module \in Texts /\ frame.function \in Texts
    BY DEF SomeFrame
  <2>2. QED
    BY <2>1 DEF Site
<1>2. Len(frames) \in Nat /\ \A n \in 1 .. Len(frames) : frames[n] \in SomeFrame
  OBVIOUS
<1>3. QED
  BY <1>1, <1>2

(* What Collapse has gathered after n frames. *)
Collapses(frames, out) ==
  /\ out \in [0 .. Len(frames) -> Seq(Texts \X Texts)]
  /\ out[0] = << >>
  /\ \A n \in 1 .. Len(frames) :
       out[n] = IF out[n - 1] # << >> /\ Last(out[n - 1]) = Site(frames[n])
                THEN out[n - 1] ELSE Append(out[n - 1], Site(frames[n]))

LEMMA CollapseSteps ==
  ASSUME NEW frames \in Seq(SomeFrame)
  PROVE  \E out : Collapses(frames, out) /\ Collapse(frames) = out[Len(frames)]
<1> DEFINE N == Len(frames)
           Kept(n, v) == IF v # << >> /\ Last(v) = Site(frames[n])
                         THEN v ELSE Append(v, Site(frames[n]))
           Body(f) == [n \in 0 .. N |-> IF n = 0 THEN << >> ELSE Kept(n, f[n - 1])]
           V == Seq(Texts \X Texts)
           base == << >>
           step == [nv \in (1 .. N) \X V |-> Kept(nv[1], nv[2])]
           out == CHOOSE f : f = Body(f)
<1>1. N \in Nat /\ base \in V /\ \A n \in 1 .. N : Site(frames[n]) \in Texts \X Texts
  BY SiteFacts
<1>2. \A n \in 1 .. N, v \in V : Kept(n, v) \in V
  <2> HIDE DEF N
  <2> QED
    BY <1>1
<1>3. step \in [(1 .. N) \X V -> V] /\ \A n \in 1 .. N, v \in V : step[<<n, v>>] = Kept(n, v)
  <2> HIDE DEF N, V, Kept
  <2> QED
    BY <1>2
<1>4. PICK g : Computes(g, N, V, base, step)
  <2> HIDE DEF N, V, base, step
  <2> QED
    BY <1>1, <1>3, Recursive
<1>5. \A n \in 1 .. N : n - 1 \in 0 .. N /\ g[n - 1] \in V
  <2> HIDE DEF N, V
  <2> QED
    BY <1>1, <1>4 DEF Computes
<1>6. /\ g \in [0 .. N -> V] /\ g[0] = << >>
      /\ \A n \in 1 .. N : g[n] = Kept(n, g[n - 1])
  <2> HIDE DEF N, V, Kept, step
  <2> QED
    BY <1>3, <1>4, <1>5 DEF Computes
<1>7. g = Body(g)
  <2> HIDE DEF N, V, Kept
  <2>1. g = [n \in 0 .. N |-> g[n]]
    BY <1>6
  <2>2. \A n \in 0 .. N : g[n] = IF n = 0 THEN << >> ELSE Kept(n, g[n - 1])
    BY <1>1, <1>6
  <2>3. QED
    BY <2>1, <2>2
<1>8. out = Body(out)
  <2> HIDE DEF Body
  <2> QED
    BY <1>7
<1> DEFINE T == {n \in 0 .. N : out[n] = g[n]}
<1>9. 0 \in T /\ \A n \in 1 .. N : n - 1 \in T => n \in T
  <2> HIDE DEF N, Kept, out
  <2>1. \A n \in 0 .. N : out[n] = IF n = 0 THEN << >> ELSE Kept(n, out[n - 1])
    BY <1>8
  <2>2. QED
    BY <1>1, <1>6, <2>1
<1>10. 0 .. N \subseteq T
  <2> HIDE DEF N, T
  <2> QED
    BY <1>1, <1>9, UpTo
<1>11. out[N] = g[N]
  BY <1>1, <1>10
<1>12. Collapse(frames) = out[N]
  BY DEF Collapse
<1>13. QED
  BY <1>6, <1>11, <1>12 DEF Collapses

(* The last site gathered is that of the last frame. *)
LEMMA CollapseLast ==
  ASSUME NEW frames \in Seq(SomeFrame), NEW out, Collapses(frames, out)
  PROVE  /\ \A n \in 1 .. Len(frames) : /\ out[n] # << >> /\ Last(out[n]) = Site(frames[n])
                                       /\ Site(frames[n]) \in Texts \X Texts
         /\ Len(frames) # 0 => out[1] = <<Site(frames[1])>>
         /\ \A n \in 2 .. Len(frames) :
              out[n] = IF Site(frames[n - 1]) = Site(frames[n])
                       THEN out[n - 1] ELSE Append(out[n - 1], Site(frames[n]))
<1> DEFINE N == Len(frames)
<1>1. N \in Nat /\ \A n \in 1 .. N : Site(frames[n]) \in Texts \X Texts
  BY SiteFacts
<1>2. \A n \in 1 .. N : out[n] # << >> /\ Last(out[n]) = Site(frames[n])
  <2> SUFFICES ASSUME NEW n \in 1 .. N
               PROVE  out[n] # << >> /\ Last(out[n]) = Site(frames[n])
    OBVIOUS
  <2>1. n - 1 \in 0 .. N /\ out[n - 1] \in Seq(Texts \X Texts)
    <3>1. n - 1 \in 0 .. N
      BY <1>1
    <3>2. QED
      BY <3>1 DEF Collapses
  <2>2. CASE out[n] = out[n - 1] /\ out[n - 1] # << >> /\ Last(out[n - 1]) = Site(frames[n])
    BY <2>2
  <2>3. CASE out[n] = Append(out[n - 1], Site(frames[n]))
    <3> DEFINE v == out[n - 1]
               site == Site(frames[n])
    <3>1. v \in Seq(Texts \X Texts) /\ site \in Texts \X Texts
      BY <1>1, <2>1
    <3> HIDE DEF v, site
    <3>2. Append(v, site) # << >> /\ Append(v, site)[Len(Append(v, site))] = site
      BY <3>1
    <3>3. QED
      BY <2>3, <3>2 DEF v, site, Last
  <2>4. QED
    BY <2>2, <2>3 DEF Collapses
<1>3. ASSUME N # 0
      PROVE  out[1] = <<Site(frames[1])>>
  <2>1. 1 \in 1 .. N /\ 1 - 1 = 0
    BY <1>1, <1>3
  <2>2. out[1] = Append(<< >>, Site(frames[1]))
    BY <2>1 DEF Collapses
  <2>3. QED
    BY <1>1, <2>1, <2>2
<1>4. ASSUME NEW n \in 2 .. N
      PROVE  out[n] = IF Site(frames[n - 1]) = Site(frames[n])
                      THEN out[n - 1] ELSE Append(out[n - 1], Site(frames[n]))
  <2>1. n \in 1 .. N /\ n - 1 \in 1 .. N
    BY <1>1
  <2>2. out[n - 1] # << >> /\ Last(out[n - 1]) = Site(frames[n - 1])
    BY <1>2, <2>1
  <2>3. QED
    BY <2>1, <2>2 DEF Collapses
<1>5. QED
  BY <1>1, <1>2, <1>3, <1>4

(* r[i] is the run the i-th frame is part of, of the runs that are gathered. *)
LEMMA CollapseRuns ==
  ASSUME NEW frames \in Seq(SomeFrame)
  PROVE  /\ Collapse(frames) \in Seq(Texts \X Texts)
         /\ \E r \in [DOMAIN frames -> DOMAIN Collapse(frames)] :
              /\ \A i \in DOMAIN frames : Collapse(frames)[r[i]] = Site(frames[i])
              /\ \A k \in DOMAIN Collapse(frames) : \E i \in DOMAIN frames : r[i] = k
              /\ \A i, k \in DOMAIN frames : i <= k => r[i] <= r[k]
<1> DEFINE N == Len(frames)
<1>1. PICK out : Collapses(frames, out) /\ Collapse(frames) = out[N]
  BY CollapseSteps
<1>2. N \in Nat /\ \A n \in 1 .. N : Site(frames[n]) \in Texts \X Texts
  BY SiteFacts
<1>3. \A n \in 0 .. N : out[n] \in Seq(Texts \X Texts) /\ Len(out[n]) \in Nat
  BY <1>1 DEF Collapses
<1> DEFINE Covered(n) ==
             /\ \A i \in 1 .. n : /\ Len(out[i]) \in 1 .. Len(out[n])
                                 /\ out[n][Len(out[i])] = Site(frames[i])
             /\ \A k \in 1 .. Len(out[n]) : \E i \in 1 .. n : Len(out[i]) = k
           T == {n \in 0 .. N : Covered(n)}
<1>4. 0 \in T
  <2>1. Covered(0)
    BY <1>1 DEF Collapses
  <2>2. QED
    BY <1>2, <2>1
<1>5. ASSUME NEW n \in 1 .. N, n - 1 \in T
      PROVE  n \in T
  <2>1. n - 1 \in 0 .. N /\ n \in 0 .. N /\ Covered(n - 1) /\ \A i \in 1 .. n : i = n \/ i \in 1 .. n - 1
    <3> HIDE DEF N, Covered
    <3> QED
      BY <1>2, <1>5
  <2>2. out[n] # << >> /\ Last(out[n]) = Site(frames[n])
    BY <1>1, CollapseLast
  <2>3. Len(out[n]) \in 1 .. Len(out[n]) /\ out[n][Len(out[n])] = Site(frames[n])
    BY <1>3, <2>1, <2>2 DEF Last
  <2>4. CASE out[n] = out[n - 1]
    <3>1. \A i \in 1 .. n - 1 : i \in 1 .. n
      BY <1>2
    <3>2. QED
      BY <2>1, <2>3, <2>4, <3>1
  <2>5. CASE out[n] = Append(out[n - 1], Site(frames[n]))
    <3>1. /\ Len(out[n]) = Len(out[n - 1]) + 1
          /\ \A k \in 1 .. Len(out[n - 1]) : out[n][k] = out[n - 1][k] /\ k \in 1 .. Len(out[n])
      BY <1>2, <1>3, <2>1, <2>5
    <3>2. \A k \in 1 .. Len(out[n]) : k = Len(out[n]) \/ k \in 1 .. Len(out[n - 1])
      BY <1>3, <2>1, <3>1
    <3>3. n \in 1 .. n /\ \A i \in 1 .. n - 1 : i \in 1 .. n
      BY <1>2
    <3>4. Covered(n)
      BY <2>1, <2>3, <3>1, <3>2, <3>3
    <3>5. QED
      BY <2>1, <3>4
  <2>6. QED
    BY <1>1, <2>4, <2>5 DEF Collapses
<1>6. 0 .. N \subseteq T
  <2> HIDE DEF N, T
  <2> QED
    BY <1>2, <1>4, <1>5, UpTo
<1>7. \A n \in 0 .. N : Covered(n)
  BY <1>6
<1> DEFINE r == [i \in 1 .. N |-> Len(out[i])]
<1>8. N \in 0 .. N /\ DOMAIN frames = 1 .. N /\ DOMAIN out[N] = 1 .. Len(out[N])
  BY <1>2, <1>3
<1>9. \A i \in 1 .. N : r[i] \in 1 .. Len(out[N]) /\ out[N][r[i]] = Site(frames[i])
  BY <1>7, <1>8
<1>10. \A k \in 1 .. Len(out[N]) : \E i \in 1 .. N : r[i] = k
  BY <1>7, <1>8
<1>11. ASSUME NEW i \in 1 .. N, NEW k \in 1 .. N, i <= k
       PROVE  r[i] <= r[k]
  <2>1. k \in 0 .. N /\ i \in 1 .. k
    BY <1>2, <1>11
  <2>2. Len(out[i]) \in 1 .. Len(out[k])
    BY <1>7, <2>1
  <2>3. QED
    BY <2>2
<1>12. r \in [1 .. N -> 1 .. Len(out[N])]
  BY <1>9
<1>13. QED
  <2> HIDE DEF r, N, Covered
  <2> QED
    BY <1>1, <1>3, <1>8, <1>9, <1>10, <1>11, <1>12

-------------------------------------------------------------------------------
(* match pairs the frames of p and q that are counted, as SamePath has it. *)
Matches(match, p, I, q, J) ==
  /\ match \in SUBSET {ij \in I \X J : Site(p[ij[1]]) = Site(q[ij[2]])}
  /\ \A i \in I : \E j \in J : <<i, j>> \in match
  /\ \A j \in J : \E i \in I : <<i, j>> \in match
  /\ \A a, b \in match : a[1] < b[1] => a[2] <= b[2]

(* Frames that collapse to the same sites can be matched: in each run, its  *)
(* first frame with all of the other's, and all of its frames with the last. *)
LEMMA CollapsedMatch ==
  ASSUME NEW p \in Seq(SomeFrame), NEW q \in Seq(SomeFrame), Collapse(p) = Collapse(q)
  PROVE  \E match : Matches(match, p, DOMAIN p, q, DOMAIN q)
<1> DEFINE c == Collapse(p)
           I == DOMAIN p
           J == DOMAIN q
<1>1. PICK r \in [I -> DOMAIN c] :
             /\ \A i \in I : c[r[i]] = Site(p[i])
             /\ \A k \in DOMAIN c : \E i \in I : r[i] = k
             /\ \A i, k \in I : i <= k => r[i] <= r[k]
  BY CollapseRuns
<1>2. PICK s \in [J -> DOMAIN c] :
             /\ \A i \in J : c[s[i]] = Site(q[i])
             /\ \A k \in DOMAIN c : \E i \in J : s[i] = k
             /\ \A i, k \in J : i <= k => s[i] <= s[k]
  <2>1. \E s \in [J -> DOMAIN Collapse(q)] :
             /\ \A i \in J : Collapse(q)[s[i]] = Site(q[i])
             /\ \A k \in DOMAIN Collapse(q) : \E i \in J : s[i] = k
             /\ \A i, k \in J : i <= k => s[i] <= s[k]
    BY CollapseRuns
  <2>2. QED
    BY <2>1
<1>3. I \subseteq Nat /\ J \subseteq 0 .. Len(q) /\ J \subseteq Nat /\ Len(q) \in Nat
  OBVIOUS
<1>4. DOMAIN c \subseteq Nat
  <2>1. c \in Seq(Texts \X Texts)
    BY CollapseRuns
  <2> HIDE DEF c
  <2>2. QED
    BY <2>1
<1> DEFINE First(i) == \A k \in I : r[k] = r[i] => i <= k
           Final(j) == \A k \in J : s[k] = s[j] => k <= j
           match == {ij \in I \X J : /\ r[ij[1]] = s[ij[2]]
                                     /\ First(ij[1]) \/ Final(ij[2])}
<1> HIDE DEF c, I, J
<1>5. ASSUME NEW i \in I
      PROVE  \E j \in J : <<i, j>> \in match
  <2> DEFINE T == {j \in J : s[j] = r[i]}
  <2>1. T \subseteq 0 .. Len(q) /\ T # {}
    BY <1>1, <1>2, <1>3
  <2>2. PICK j \in T : \A k \in T : k <= j
    <3> HIDE DEF T
    <3> QED
      BY <1>3, <2>1, GreatestElement
  <2>3. Final(j) /\ j \in J /\ r[i] = s[j]
    BY <2>2
  <2>4. QED
    BY <2>3
<1>6. ASSUME NEW j \in J
      PROVE  \E i \in I : <<i, j>> \in match
  <2> DEFINE T == {i \in I : r[i] = s[j]}
  <2>1. T \subseteq Nat /\ T # {}
    BY <1>1, <1>2, <1>3
  <2>2. PICK i \in T : \A k \in T : i <= k
    <3> HIDE DEF T
    <3> QED
      BY <2>1, LeastElement
  <2>3. First(i) /\ i \in I /\ r[i] = s[j]
    BY <2>2
  <2>4. QED
    BY <2>3
<1>7. ASSUME NEW a \in match, NEW b \in match, a[1] < b[1]
      PROVE  a[2] <= b[2]
  <2>1. /\ a[1] \in I /\ b[1] \in I /\ a[2] \in J /\ b[2] \in J
        /\ r[a[1]] = s[a[2]] /\ r[b[1]] = s[b[2]] /\ (First(b[1]) \/ Final(b[2]))
    OBVIOUS
  <2>2. a[1] \in Nat /\ b[1] \in Nat /\ a[2] \in Nat /\ b[2] \in Nat
    BY <1>3, <2>1
  <2>3. r[a[1]] <= r[b[1]] /\ r[a[1]] \in Nat /\ r[b[1]] \in Nat
    BY <1>1, <1>4, <1>7, <2>1, <2>2
  <2>4. CASE r[a[1]] = r[b[1]]
    <3>1. ~ First(b[1])
      BY <1>7, <2>1, <2>2, <2>4
    <3>2. Final(b[2]) /\ s[a[2]] = s[b[2]]
      BY <2>1, <2>4, <3>1
    <3>3. QED
      BY <2>1, <3>2
  <2>5. CASE r[a[1]] # r[b[1]]
    <3>1. ~ (s[b[2]] <= s[a[2]])
      BY <2>1, <2>3, <2>5
    <3>2. ~ (b[2] <= a[2])
      BY <1>2, <2>1, <3>1
    <3>3. QED
      BY <2>2, <3>2
  <2>6. QED
    BY <2>4, <2>5
<1>8. match \in SUBSET {ij \in I \X J : Site(p[ij[1]]) = Site(q[ij[2]])}
  BY <1>1, <1>2
<1>9. Matches(match, p, I, q, J)
  <2> HIDE DEF match
  <2> QED
    BY <1>5, <1>6, <1>7, <1>8 DEF Matches
<1>10. QED
  BY <1>9 DEF I, J

(* Frames that can be matched collapse to the same sites, up to any two that *)
(* are paired; the last two are.                                             *)
LEMMA MatchedCollapse ==
  ASSUME NEW p \in Seq(SomeFrame), NEW q \in Seq(SomeFrame), NEW match,
         Matches(match, p, DOMAIN p, q, DOMAIN q)
  PROVE  Collapse(p) = Collapse(q)
<1> DEFINE M == Len(p)
           N == Len(q)
<1>1. PICK A : Collapses(p, A) /\ Collapse(p) = A[M]
  BY CollapseSteps
<1>2. PICK B : Collapses(q, B) /\ Collapse(q) = B[N]
  BY CollapseSteps
<1>3. M \in Nat /\ N \in Nat /\ DOMAIN p = 1 .. M /\ DOMAIN q = 1 .. N
  OBVIOUS
<1> HIDE DEF M, N
<1>4. /\ \A i \in 1 .. M : \E j \in 1 .. N : <<i, j>> \in match
      /\ \A j \in 1 .. N : \E i \in 1 .. M : <<i, j>> \in match
  BY <1>3 DEF Matches
<1>5. \A a \in match : /\ a = <<a[1], a[2]>> /\ a[1] \in 1 .. M /\ a[2] \in 1 .. N
                       /\ Site(p[a[1]]) = Site(q[a[2]])
  BY <1>3 DEF Matches
<1>6. \A i, j, k, l : <<i, j>> \in match /\ <<k, l>> \in match /\ i < k => j <= l
  <2> SUFFICES ASSUME NEW i, NEW j, NEW k, NEW l,
                      <<i, j>> \in match, <<k, l>> \in match, i < k
               PROVE  j <= l
    OBVIOUS
  <2>1. \A a, b \in match : a[1] < b[1] => a[2] <= b[2]
    BY DEF Matches
  <2>2. <<i, j>>[1] < <<k, l>>[1] => <<i, j>>[2] <= <<k, l>>[2]
    BY <2>1
  <2>3. QED
    BY <2>2
<1>7. /\ M # 0 => A[1] = <<Site(p[1])>>
      /\ \A n \in 2 .. M : A[n] = IF Site(p[n - 1]) = Site(p[n])
                                  THEN A[n - 1] ELSE Append(A[n - 1], Site(p[n]))
  BY <1>1, CollapseLast DEF M
<1>8. /\ N # 0 => B[1] = <<Site(q[1])>>
      /\ \A n \in 2 .. N : B[n] = IF Site(q[n - 1]) = Site(q[n])
                                  THEN B[n - 1] ELSE Append(B[n - 1], Site(q[n]))
  BY <1>2, CollapseLast DEF N
<1>9. ASSUME NEW i \in 1 .. M, NEW j \in 1 .. N, <<i, j>> \in match,
             \A k \in 1 .. M, l \in 1 .. N :
               <<k, l>> \in match /\ k + l < i + j => A[k] = B[l]
      PROVE  A[i] = B[j]
  <2>1. Site(p[i]) = Site(q[j])
    BY <1>5, <1>9
  <2>2. CASE i = 1 /\ j = 1
    BY <1>7, <1>8, <2>1, <2>2
  <2>3. ASSUME i # 1
        PROVE  /\ i - 1 \in 1 .. M /\ i \in 2 .. M
               /\ \E l \in 1 .. N : <<i - 1, l>> \in match /\ l <= j
    <3>1. i - 1 \in 1 .. M /\ i \in 2 .. M /\ i - 1 < i
      BY <1>3, <2>3
    <3>2. PICK l \in 1 .. N : <<i - 1, l>> \in match
      BY <1>4, <3>1
    <3>3. QED
      BY <1>6, <1>9, <3>1, <3>2
  <2>4. ASSUME j # 1
        PROVE  /\ j - 1 \in 1 .. N /\ j \in 2 .. N
               /\ \E k \in 1 .. M : <<k, j - 1>> \in match /\ k <= i
    <3>1. j - 1 \in 1 .. N /\ j \in 2 .. N /\ ~ (j <= j - 1)
      BY <1>3, <2>4
    <3>2. PICK k \in 1 .. M : <<k, j - 1>> \in match
      BY <1>4, <3>1
    <3>3. ~ (i < k)
      BY <1>6, <1>9, <3>1, <3>2
    <3>4. k <= i
      BY <1>3, <3>3
    <3>5. QED
      BY <3>1, <3>2, <3>4
  <2>5. ASSUME i # 1, <<i - 1, j>> \in match
        PROVE  A[i] = B[j]
    <3>1. i - 1 \in 1 .. M /\ i \in 2 .. M /\ (i - 1) + j < i + j
      BY <1>3, <2>5
    <3>2. A[i - 1] = B[j]
      BY <1>9, <2>5, <3>1
    <3>3. Site(p[i - 1]) = Site(p[i])
      BY <1>5, <2>1, <2>5
    <3>4. QED
      BY <1>7, <3>1, <3>2, <3>3
  <2>6. ASSUME j # 1, <<i, j - 1>> \in match
        PROVE  A[i] = B[j]
    <3>1. j - 1 \in 1 .. N /\ j \in 2 .. N /\ i + (j - 1) < i + j
      BY <1>3, <2>6
    <3>2. A[i] = B[j - 1]
      BY <1>9, <2>6, <3>1
    <3>3. Site(q[j - 1]) = Site(q[j])
      BY <1>5, <2>1, <2>6
    <3>4. QED
      BY <1>8, <3>1, <3>2, <3>3
  <2>7. CASE i = 1 /\ j # 1
    <3>1. PICK k \in 1 .. M : <<k, j - 1>> \in match /\ k <= i
      BY <2>4, <2>7
    <3>2. k = i
      BY <1>3, <2>7, <3>1
    <3>3. QED
      BY <2>6, <2>7, <3>1, <3>2
  <2>8. CASE i # 1 /\ j = 1
    <3>1. PICK l \in 1 .. N : <<i - 1, l>> \in match /\ l <= j
      BY <2>3, <2>8
    <3>2. l = j
      BY <1>3, <2>8, <3>1
    <3>3. QED
      BY <2>5, <2>8, <3>1, <3>2
  <2>9. CASE i # 1 /\ j # 1
    <3>1. PICK l \in 1 .. N : <<i - 1, l>> \in match /\ l <= j
      BY <2>3, <2>9
    <3>2. PICK k \in 1 .. M : <<k, j - 1>> \in match /\ k <= i
      BY <2>4, <2>9
    <3>3. CASE l = j
      BY <2>5, <2>9, <3>1, <3>3
    <3>4. CASE k = i
      BY <2>6, <2>9, <3>2, <3>4
    <3>5. CASE l # j /\ k # i
      <4>1. <<i - 1, j - 1>> \in match
        <5>1. CASE k = i - 1
          BY <3>2, <5>1
        <5>2. CASE k # i - 1
          <6>1. k < i - 1
            BY <1>3, <3>2, <3>5, <5>2
          <6>2. j - 1 <= l
            BY <1>6, <3>1, <3>2, <6>1
          <6>3. l = j - 1
            BY <1>3, <3>1, <3>5, <6>2
          <6>4. QED
            BY <3>1, <6>3
        <5>3. QED
          BY <5>1, <5>2
      <4>2. /\ i - 1 \in 1 .. M /\ i \in 2 .. M /\ j - 1 \in 1 .. N /\ j \in 2 .. N
            /\ (i - 1) + (j - 1) < i + j
        BY <1>3, <2>9
      <4>3. A[i - 1] = B[j - 1]
        BY <1>9, <4>1, <4>2
      <4>4. Site(p[i - 1]) = Site(q[j - 1])
        BY <1>5, <4>1
      <4>5. QED
        BY <1>7, <1>8, <2>1, <4>2, <4>3, <4>4
    <3>6. QED
      BY <3>3, <3>4, <3>5
  <2>10. QED
    BY <2>2, <2>7, <2>8, <2>9
<1> DEFINE Wrong(k, l) == <<k, l>> \in match /\ A[k] # B[l]
           Bad == {n \in Nat : \E k \in 1 .. M, l \in 1 .. N : n = k + l /\ Wrong(k, l)}
<1>10. Bad = {}
  <2> SUFFICES ASSUME Bad # {}
               PROVE  FALSE
    OBVIOUS
  <2>1. PICK n \in Bad : \A k \in Bad : n <= k
    <3>1. Bad \subseteq Nat
      OBVIOUS
    <3> HIDE DEF Bad
    <3>2. QED
      BY <3>1, LeastElement
  <2>2. PICK i \in 1 .. M, j \in 1 .. N : n = i + j /\ Wrong(i, j)
    OBVIOUS
  <2>3. ASSUME NEW k \in 1 .. M, NEW l \in 1 .. N, <<k, l>> \in match, k + l < i + j
        PROVE  A[k] = B[l]
    <3>1. k + l \in Nat /\ ~ (n <= k + l)
      BY <1>3, <2>2, <2>3
    <3>2. k + l \notin Bad
      BY <2>1, <3>1
    <3>3. QED
      BY <2>3, <3>1, <3>2
  <2>4. <<i, j>> \in match /\ A[i] # B[j]
    BY <2>2
  <2> HIDE DEF Wrong, Bad
  <2>5. A[i] = B[j]
    BY <1>9, <2>3, <2>4
  <2>6. QED
    BY <2>4, <2>5
<1>11. ASSUME NEW k \in 1 .. M, NEW l \in 1 .. N, <<k, l>> \in match
       PROVE  A[k] = B[l]
  <2>1. k + l \in Nat
    BY <1>3
  <2>2. ~ Wrong(k, l)
    BY <1>10, <2>1
  <2>3. QED
    BY <1>11, <2>2
<1>12. CASE M = 0 \/ N = 0
  <2>1. M = 0 /\ N = 0
    <3>1. M # 0 => 1 \in 1 .. M
      BY <1>3
    <3>2. N # 0 => 1 \in 1 .. N
      BY <1>3
    <3>3. \A k \in 1 .. 0 : FALSE
      OBVIOUS
    <3>4. QED
      BY <1>4, <1>12, <3>1, <3>2, <3>3
  <2>2. QED
    BY <1>1, <1>2, <2>1 DEF Collapses
<1>13. CASE M # 0 /\ N # 0
  <2>1. M \in 1 .. M /\ N \in 1 .. N
    BY <1>3, <1>13
  <2>2. PICK j \in 1 .. N : <<M, j>> \in match
    BY <1>4, <2>1
  <2>3. PICK i \in 1 .. M : <<i, N>> \in match
    BY <1>4, <2>1
  <2>4. CASE i = M
    BY <1>1, <1>2, <1>11, <2>1, <2>3, <2>4
  <2>5. CASE i # M
    <3>1. i < M
      BY <1>3, <2>5
    <3>2. N <= j
      BY <1>6, <2>2, <2>3, <3>1
    <3>3. j = N
      BY <1>3, <3>2
    <3>4. QED
      BY <1>1, <1>2, <1>11, <2>1, <2>2, <3>3
  <2>6. QED
    BY <2>4, <2>5
<1>14. QED
  BY <1>12, <1>13

-------------------------------------------------------------------------------
(* The frames a fingerprint is made of, in terms of those of the trace. *)
Target(frames) == IF filterInApp(frames) # << >> THEN filterInApp(frames) ELSE frames

Selects(frames, pos) ==
  /\ Target(frames) \in Seq(SomeFrame)
  /\ Counting(frames) \subseteq Nat
  /\ Enumerates(pos, Len(Target(frames)), Counting(frames))
  /\ \A k \in 1 .. Len(Target(frames)) : Target(frames)[k] = frames[pos[k]]

(* They are the frames that count. *)
LEMMA TargetCounts ==
  ASSUME NEW frames \in Seq(SomeFrame)
  PROVE  \E pos : Selects(frames, pos)
<1> DEFINE N == Len(frames)
           I == {n \in DOMAIN frames : frames[n].in_app}
           F == filterInApp(frames)
<1>1. F \in Seq(SomeFrame)
  BY FilterPositions
<1>2. PICK pos : /\ Enumerates(pos, Len(F), I)
                 /\ \A k \in DOMAIN F : F[k] = frames[pos[k]]
  BY FilterPositions
<1>3. N \in Nat /\ DOMAIN frames = 1 .. N /\ I \subseteq Nat
  OBVIOUS
<1>4. CASE F # << >>
  <2>1. Target(frames) = F
    BY <1>4 DEF Target
  <2> HIDE DEF F, I
  <2>2. DOMAIN F = 1 .. Len(F) /\ 1 \in 1 .. Len(F)
    BY <1>1, <1>4
  <2>3. pos[1] \in I
    BY <1>2, <2>2 DEF Enumerates
  <2>4. Counting(frames) = I
    BY <2>3 DEF Counting, I
  <2>5. QED
    BY <1>1, <1>2, <1>3, <2>1, <2>2, <2>4 DEF Selects
<1>5. CASE F = << >>
  <2>1. Target(frames) = frames
    BY <1>5 DEF Target
  <2>2. I = {}
    <3>1. Len(F) = 0 /\ \A k \in 1 .. 0 : FALSE
      BY <1>5
    <3> HIDE DEF F, I
    <3>2. QED
      BY <1>2, <3>1 DEF Enumerates
  <2>3. Counting(frames) = 1 .. N
    BY <1>3, <2>2 DEF Counting
  <2> DEFINE same == [k \in 1 .. N |-> k]
  <2>4. Enumerates(same, N, 1 .. N)
    BY <1>3 DEF Enumerates
  <2>5. Selects(frames, same)
    BY <1>3, <2>1, <2>3, <2>4 DEF Selects
  <2>6. QED
    BY <2>5
<1>6. QED
  BY <1>4, <1>5

(* Positions and numbers are in the same order. *)
LEMMA EnumeratesBack ==
  ASSUME NEW K \in Nat, NEW I, I \subseteq Nat, NEW pos, Enumerates(pos, K, I)
  PROVE  \A k, l \in 1 .. K : pos[k] <= pos[l] => k <= l
<1> SUFFICES ASSUME NEW k \in 1 .. K, NEW l \in 1 .. K, pos[k] <= pos[l], l < k
             PROVE  FALSE
  OBVIOUS
<1>1. pos[l] < pos[k] /\ pos[k] \in Nat /\ pos[l] \in Nat
  BY DEF Enumerates
<1>2. QED
  BY <1>1

(* Counted frames can be matched exactly if the targets can. *)
LEMMA SamePathOfTargets ==
  ASSUME NEW p \in Seq(SomeFrame), NEW q \in Seq(SomeFrame)
  PROVE  SamePath(p, q) <=> \E match : Matches(match, Target(p), DOMAIN Target(p),
                                               Target(q), DOMAIN Target(q))
<1> DEFINE P == Target(p)
           Q == Target(q)
           I == Counting(p)
           J == Counting(q)
           M == Len(P)
           N == Len(Q)
<1>1. PICK f : Selects(p, f)
  BY TargetCounts
<1>2. PICK g : Selects(q, g)
  BY TargetCounts
<1>3. M \in Nat /\ N \in Nat /\ DOMAIN P = 1 .. M /\ DOMAIN Q = 1 .. N
  BY <1>1, <1>2 DEF Selects
<1>4. /\ I \subseteq Nat /\ Enumerates(f, M, I) /\ \A k \in 1 .. M : P[k] = p[f[k]]
      /\ J \subseteq Nat /\ Enumerates(g, N, J) /\ \A k \in 1 .. N : Q[k] = q[g[k]]
  BY <1>1, <1>2 DEF Selects
<1>5. SamePath(p, q) <=> \E match : Matches(match, p, I, q, J)
  BY DEF SamePath, Matches
<1> HIDE DEF P, Q, I, J, M, N
<1>6. /\ \A k \in 1 .. M : f[k] \in I
      /\ \A i \in I : \E k \in 1 .. M : f[k] = i
      /\ \A k, l \in 1 .. M : (k < l => f[k] < f[l]) /\ (f[k] <= f[l] => k <= l)
      /\ \A k \in 1 .. N : g[k] \in J
      /\ \A j \in J : \E k \in 1 .. N : g[k] = j
      /\ \A k, l \in 1 .. N : (k < l => g[k] < g[l]) /\ (g[k] <= g[l] => k <= l)
  <2>1. /\ \A k, l \in 1 .. M : f[k] <= f[l] => k <= l
        /\ \A k, l \in 1 .. N : g[k] <= g[l] => k <= l
    BY <1>3, <1>4, EnumeratesBack
  <2>2. QED
    BY <1>4, <2>1 DEF Enumerates
<1>7. ASSUME NEW match, Matches(match, p, I, q, J)
      PROVE  \E match2 : Matches(match2, P, 1 .. M, Q, 1 .. N)
  <2> DEFINE match2 == {kl \in (1 .. M) \X (1 .. N) : <<f[kl[1]], g[kl[2]]>> \in match}
  <2>1. \A ij \in match : Site(p[ij[1]]) = Site(q[ij[2]])
    BY <1>7 DEF Matches
  <2>2. match2 \in SUBSET {ij \in (1 .. M) \X (1 .. N) : Site(P[ij[1]]) = Site(Q[ij[2]])}
    BY <1>4, <2>1
  <2>3. ASSUME NEW k \in 1 .. M
        PROVE  \E l \in 1 .. N : <<k, l>> \in match2
    <3>1. PICK j \in J : <<f[k], j>> \in match
      BY <1>6, <1>7 DEF Matches
    <3>2. PICK l \in 1 .. N : g[l] = j
      BY <1>6
    <3>3. QED
      BY <3>1, <3>2
  <2>4. ASSUME NEW l \in 1 .. N
        PROVE  \E k \in 1 .. M : <<k, l>> \in match2
    <3>1. PICK i \in I : <<i, g[l]>> \in match
      BY <1>6, <1>7 DEF Matches
    <3>2. PICK k \in 1 .. M : f[k] = i
      BY <1>6
    <3>3. QED
      BY <3>1, <3>2
  <2>5. ASSUME NEW a \in match2, NEW b \in match2, a[1] < b[1]
        PROVE  a[2] <= b[2]
    <3>1. /\ a[1] \in 1 .. M /\ a[2] \in 1 .. N /\ b[1] \in 1 .. M /\ b[2] \in 1 .. N
          /\ <<f[a[1]], g[a[2]]>> \in match /\ <<f[b[1]], g[b[2]]>> \in match
      OBVIOUS
    <3>2. f[a[1]] < f[b[1]]
      BY <1>6, <2>5, <3>1
    <3>3. g[a[2]] <= g[b[2]]
      BY <1>7, <3>1, <3>2 DEF Matches
    <3>4. QED
      BY <1>6, <3>1, <3>3
  <2>6. Matches(match2, P, 1 .. M, Q, 1 .. N)
    <3> HIDE DEF match2
    <3> QED
      BY <2>2, <2>3, <2>4, <2>5 DEF Matches
  <2>7. QED
    BY <2>6
<1>8. ASSUME NEW match2, Matches(match2, P, 1 .. M, Q, 1 .. N)
      PROVE  \E match : Matches(match, p, I, q, J)
  <2> DEFINE match == {ij \in I \X J : \E kl \in match2 : f[kl[1]] = ij[1] /\ g[kl[2]] = ij[2]}
  <2>1. \A kl \in match2 : /\ kl[1] \in 1 .. M /\ kl[2] \in 1 .. N
                           /\ Site(P[kl[1]]) = Site(Q[kl[2]])
    BY <1>8 DEF Matches
  <2>2. match \in SUBSET {ij \in I \X J : Site(p[ij[1]]) = Site(q[ij[2]])}
    <3> SUFFICES ASSUME NEW ij \in match
                 PROVE  Site(p[ij[1]]) = Site(q[ij[2]])
      OBVIOUS
    <3>1. PICK kl \in match2 : f[kl[1]] = ij[1] /\ g[kl[2]] = ij[2]
      OBVIOUS
    <3>2. P[kl[1]] = p[ij[1]] /\ Q[kl[2]] = q[ij[2]]
      BY <1>4, <2>1, <3>1
    <3>3. QED
      BY <2>1, <3>2
  <2>3. ASSUME NEW i \in I
        PROVE  \E j \in J : <<i, j>> \in match
    <3>1. PICK k \in 1 .. M : f[k] = i
      BY <1>6
    <3>2. PICK l \in 1 .. N : <<k, l>> \in match2
      BY <1>8 DEF Matches
    <3>3. g[l] \in J /\ <<i, g[l]>> \in match
      BY <1>6, <3>1, <3>2
    <3>4. QED
      BY <3>3
  <2>4. ASSUME NEW j \in J
        PROVE  \E i \in I : <<i, j>> \in match
    <3>1. PICK l \in 1 .. N : g[l] = j
      BY <1>6
    <3>2. PICK k \in 1 .. M : <<k, l>> \in match2
      BY <1>8 DEF Matches
    <3>3. f[k] \in I /\ <<f[k], j>> \in match
      BY <1>6, <3>1, <3>2
    <3>4. QED
      BY <3>3
  <2>5. ASSUME NEW a \in match, NEW b \in match, a[1] < b[1]
        PROVE  a[2] <= b[2]
    <3>1. PICK c \in match2 : f[c[1]] = a[1] /\ g[c[2]] = a[2]
      OBVIOUS
    <3>2. PICK d \in match2 : f[d[1]] = b[1] /\ g[d[2]] = b[2]
      OBVIOUS
    <3>3. /\ c[1] \in 1 .. M /\ d[1] \in 1 .. M /\ c[2] \in 1 .. N /\ d[2] \in 1 .. N
          /\ f[c[1]] \in Nat /\ f[d[1]] \in Nat /\ g[c[2]] \in Nat /\ g[d[2]] \in Nat
      BY <1>4, <1>6, <2>1
    <3>4. ~ (d[1] <= c[1])
      <4>1. f[c[1]] < f[d[1]]
        BY <2>5, <3>1, <3>2
      <4>2. d[1] < c[1] => f[d[1]] < f[c[1]]
        BY <1>6, <3>3
      <4>3. d[1] = c[1] => f[d[1]] = f[c[1]]
        OBVIOUS
      <4>4. QED
        BY <3>3, <4>1, <4>2, <4>3
    <3>5. c[2] <= d[2]
      <4>1. \A x, y \in match2 : x[1] < y[1] => x[2] <= y[2]
        BY <1>8 DEF Matches
      <4>2. c[1] < d[1]
        BY <3>3, <3>4
      <4>3. QED
        BY <4>1, <4>2
    <3>6. CASE c[2] = d[2]
      BY <3>1, <3>2, <3>3, <3>6
    <3>7. CASE c[2] < d[2]
      BY <1>6, <3>1, <3>2, <3>3, <3>7
    <3>8. QED
      BY <3>3, <3>5, <3>6, <3>7
  <2>6. Matches(match, p, I, q, J)
    <3> HIDE DEF match
    <3> QED
      BY <2>2, <2>3, <2>4, <2>5 DEF Matches
  <2>7. QED
    BY <2>6
<1>9. QED
  BY <1>3, <1>5, <1>7, <1>8 DEF P, Q

(* Stack traces collapse to the same sites exactly if they are one call path. *)
LEMMA CollapseIffSamePath ==
  ASSUME NEW p \in Seq(SomeFrame), NEW q \in Seq(SomeFrame)
  PROVE  Collapse(Target(p)) = Collapse(Target(q)) <=> SamePath(p, q)
<1>1. Target(p) \in Seq(SomeFrame) /\ Target(q) \in Seq(SomeFrame)
  BY TargetCounts DEF Selects
<1>2. QED
  BY <1>1, SamePathOfTargets, CollapsedMatch, MatchedCollapse

-------------------------------------------------------------------------------
(* What has been joined last can be told from what was joined before. *)
LEMMA AppendCancel ==
  ASSUME NEW S, NEW s \in Seq(S), NEW t \in Seq(S), NEW x \in S, NEW y \in S,
         Append(s, x) = Append(t, y)
  PROVE  s = t /\ x = y
<1>1. Len(s) = Len(t) /\ Len(s) \in Nat
  <2>1. Len(Append(s, x)) = Len(s) + 1 /\ Len(Append(t, y)) = Len(t) + 1
    OBVIOUS
  <2>2. Len(s) \in Nat /\ Len(t) \in Nat
    OBVIOUS
  <2>3. QED
    BY <2>1, <2>2
<1>2. Append(s, x)[Len(s) + 1] = x /\ Append(t, y)[Len(t) + 1] = y
  OBVIOUS
<1>3. \A i \in 1 .. Len(s) : Append(s, x)[i] = s[i] /\ Append(t, y)[i] = t[i]
  BY <1>1
<1>4. s = t
  BY <1>1, <1>3, SeqEqual
<1>5. QED
  BY <1>1, <1>2, <1>4

(* One and two elements as sequences. *)
LEMMA ShortSeqs ==
  ASSUME NEW S, NEW x \in S, NEW y \in S
  PROVE  /\ <<x>> \in Seq(S) /\ <<x, y>> \in Seq(S) /\ << >> \in Seq(S)
         /\ Len(<<x, y>>) = 2 /\ Len(<<x>>) = 1
         /\ <<x>> \o << >> = <<x>> /\ <<x>> \o <<y>> = <<x, y>>
         /\ \A s \in Seq(S) : /\ s \o <<x>> = Append(s, x)
                             /\ s \o <<x, y>> = Append(Append(s, x), y)
<1>1. <<x>> \in Seq(S) /\ <<x, y>> \in Seq(S) /\ << >> \in Seq(S)
  OBVIOUS
<1>2. ASSUME NEW s \in Seq(S)
      PROVE  s \o <<x>> = Append(s, x) /\ s \o <<x, y>> = Append(Append(s, x), y)
  OBVIOUS
<1>3. <<x>> \o << >> = <<x>>
  BY <1>1, ConcatEmptySeq
<1>4. <<x>> \o <<y>> = <<x, y>>
  <2>1. <<y>> \in Seq(S)
    OBVIOUS
  <2> DEFINE s == <<x>> \o <<y>>
             t == <<x, y>>
  <2>2. s \in Seq(S) /\ Len(s) = 2 /\ s[1] = x /\ s[2] = y
    BY <1>1, <2>1, ConcatProperties
  <2>3. t \in Seq(S) /\ Len(t) = 2 /\ t[1] = x /\ t[2] = y
    BY <1>1
  <2> HIDE DEF s, t
  <2>4. \A i \in 1 .. 2 : i = 1 \/ i = 2
    OBVIOUS
  <2>5. s = t
    BY <2>2, <2>3, <2>4, SeqEqual
  <2>6. QED
    BY <2>5 DEF s, t
<1>5. QED
  BY <1>1, <1>2, <1>3, <1>4

(* Pairs that are joined keep their places. *)
LEMMA FlattenPairs ==
  ASSUME NEW S, NEW s \in Seq(S \X S)
  PROVE  /\ FlattenSeq(s) \in Seq(S)
         /\ Len(FlattenSeq(s)) = 2 * Len(s)
         /\ \A k \in 1 .. Len(s) : /\ FlattenSeq(s)[2 * k - 1] = s[k][1]
                                   /\ FlattenSeq(s)[2 * k] = s[k][2]
<1> DEFINE N == Len(s)
<1>1. N \in Nat /\ \A n \in 1 .. N : s[n] \in S \X S
  OBVIOUS
<1>2. s \in Seq(Seq(S))
  <2>1. ASSUME NEW pair \in S \X S
        PROVE  pair \in Seq(S)
    <3>1. PICK x \in S, y \in S : pair = <<x, y>>
      OBVIOUS
    <3>2. QED
      BY <3>1, ShortSeqs
  <2>2. S \X S \subseteq Seq(S)
    BY <2>1
  <2>3. QED
    BY <2>2, SeqMonotonic
<1>3. PICK G : Gathers(s, S, G) /\ FlattenSeq(s) = G[N]
  BY <1>2, FlattenPrefixes
<1> DEFINE Placed(n) == /\ Len(G[n]) = 2 * n
                        /\ \A k \in 1 .. n : G[n][2 * k - 1] = s[k][1] /\ G[n][2 * k] = s[k][2]
           T == {n \in 0 .. N : Placed(n)}
<1>4. 0 \in T
  <2>1. Placed(0)
    BY <1>3 DEF Gathers
  <2>2. QED
    BY <1>1, <2>1
<1>5. ASSUME NEW n \in 1 .. N, n - 1 \in T
      PROVE  n \in T
  <2>1. /\ n - 1 \in 0 .. N /\ n \in 0 .. N /\ n \in Nat /\ Placed(n - 1)
        /\ \A k \in 1 .. n : k = n \/ k \in 1 .. n - 1
    <3> HIDE DEF N, Placed
    <3> QED
      BY <1>1, <1>5
  <2>2. G[n] = G[n - 1] \o s[n] /\ G[n - 1] \in Seq(S) /\ s[n] \in Seq(S)
    <3> HIDE DEF N
    <3>1. s[n] \in Seq(S)
      <4>1. Len(s) = N /\ DOMAIN s = 1 .. N
        BY <1>1 DEF N
      <4>2. QED
        BY <1>2, <4>1, ElementOfSeq
    <3>2. QED
      BY <1>3, <2>1, <3>1 DEF Gathers, N
  <2>3. PICK x \in S, y \in S : s[n] = <<x, y>>
    BY <1>1
  <2>4. Len(G[n - 1]) = 2 * n - 2
    BY <2>1
  <2>5. Len(G[n]) = 2 * n /\ \A i \in 1 .. 2 * n : G[n][i] = IF i <= 2 * n - 2 THEN G[n - 1][i]
                                                           ELSE s[n][i - (2 * n - 2)]
    <3> DEFINE g == G[n - 1]
               t == s[n]
    <3>1. Len(t) = 2 /\ 2 * n - 2 + 2 = 2 * n
      BY <2>1, <2>3
    <3>2. g \in Seq(S) /\ t \in Seq(S) /\ Len(g) = 2 * n - 2 /\ G[n] = g \o t
      BY <2>2, <2>4
    <3> HIDE DEF g, t
    <3>3. /\ Len(g \o t) = Len(g) + Len(t)
          /\ \A i \in 1 .. Len(g) + Len(t) :
               (g \o t)[i] = IF i <= Len(g) THEN g[i] ELSE t[i - Len(g)]
      BY <3>2, ConcatProperties
    <3>4. QED
      BY <3>1, <3>2, <3>3 DEF g, t
  <2>6. G[n][2 * n - 1] = s[n][1] /\ G[n][2 * n] = s[n][2]
    <3>1. /\ 2 * n - 1 \in 1 .. 2 * n /\ ~ (2 * n - 1 <= 2 * n - 2) /\ 2 * n - 1 - (2 * n - 2) = 1
          /\ 2 * n \in 1 .. 2 * n /\ ~ (2 * n <= 2 * n - 2) /\ 2 * n - (2 * n - 2) = 2
      BY <2>1
    <3>2. QED
      BY <2>5, <3>1
  <2>7. ASSUME NEW k \in 1 .. n - 1
        PROVE  G[n][2 * k - 1] = s[k][1] /\ G[n][2 * k] = s[k][2]
    <3>1. /\ 2 * k - 1 \in 1 .. 2 * n /\ 2 * k - 1 <= 2 * n - 2
          /\ 2 * k \in 1 .. 2 * n /\ 2 * k <= 2 * n - 2
      BY <2>1
    <3>2. QED
      BY <2>1, <2>5, <3>1
  <2>8. Placed(n)
    BY <2>1, <2>5, <2>6, <2>7
  <2>9. QED
    BY <2>1, <2>8
<1>6. 0 .. N \subseteq T
  <2> HIDE DEF N, T
  <2> QED
    BY <1>1, <1>4, <1>5, UpTo
<1>7. N \in 0 .. N
  BY <1>1
<1>8. Placed(N) /\ G[N] \in Seq(S)
  BY <1>3, <1>6, <1>7 DEF Gathers
<1>9. QED
  BY <1>3, <1>8

LEMMA PairsInjective ==
  ASSUME NEW S, NEW s \in Seq(S \X S), NEW t \in Seq(S \X S), FlattenSeq(s) = FlattenSeq(t)
  PROVE  s = t
<1> DEFINE u == FlattenSeq(s)
<1>1. /\ Len(u) = 2 * Len(s)
      /\ \A k \in 1 .. Len(s) : u[2 * k - 1] = s[k][1] /\ u[2 * k] = s[k][2]
  BY FlattenPairs
<1>2. /\ Len(u) = 2 * Len(t)
      /\ \A k \in 1 .. Len(t) : u[2 * k - 1] = t[k][1] /\ u[2 * k] = t[k][2]
  <2>1. u = FlattenSeq(t)
    OBVIOUS
  <2> HIDE DEF u
  <2>2. QED
    BY <2>1, FlattenPairs
<1> HIDE DEF u
<1>3. Len(s) \in Nat /\ Len(t) \in Nat
  OBVIOUS
<1>4. Len(s) = Len(t)
  BY <1>1, <1>2, <1>3
<1>5. \A k \in 1 .. Len(s) : s[k][1] = t[k][1] /\ s[k][2] = t[k][2]
  BY <1>1, <1>2, <1>4
<1>6. \A k \in 1 .. Len(s) : s[k] = <<s[k][1], s[k][2]>> /\ t[k] = <<t[k][1], t[k][2]>>
  BY <1>4
<1>7. \A k \in 1 .. Len(s) : s[k] = t[k]
  BY <1>5, <1>6
<1>8. s \in Seq(S \X S) /\ t \in Seq(S \X S)
  OBVIOUS
<1>9. QED
  BY <1>7, <1>8, <1>4, SeqEqual

(* A text joined to others: a text of characters is one, the empty one none. *)
JoinTo(s, x) == IF x = "" THEN Append(s, "NUL") ELSE Append(Append(s, "NUL"), x)

(* What Join has joined of the first n parts: a separator before all but the first. *)
Joined(parts, S, G) ==
  /\ G \in [0 .. Len(parts) -> Seq(S \cup {"NUL"})]
  /\ Len(parts) # 0 => G[1] = Characters(parts[1])
  /\ \A n \in 2 .. Len(parts) : G[n] = JoinTo(G[n - 1], parts[n])

LEMMA JoinPrefixes ==
  ASSUME NEW S, NEW parts \in Seq(S)
  PROVE  \E G : Joined(parts, S, G) /\ Join(parts) = G[Len(parts)]
<1> DEFINE N == Len(parts)
           C == S \cup {"NUL"}
           Piece(n) == IF n = 1 THEN Characters(parts[n]) ELSE <<"NUL">> \o Characters(parts[n])
           pieces == [n \in DOMAIN parts |-> Piece(n)]
<1>1. N \in Nat /\ DOMAIN parts = 1 .. N /\ \A n \in 1 .. N : parts[n] \in C
  OBVIOUS
<1> HIDE DEF C
<1>2. "NUL" \in C
  BY DEF C
<1>3. \A n \in 1 .. N : Characters(parts[n]) \in Seq(C) /\ Piece(n) \in Seq(C)
  <2> SUFFICES ASSUME NEW n \in 1 .. N
               PROVE  Characters(parts[n]) \in Seq(C) /\ Piece(n) \in Seq(C)
    OBVIOUS
  <2>1. parts[n] \in C
    BY <1>1
  <2>2. Characters(parts[n]) \in Seq(C)
    BY <2>1, ShortSeqs DEF Characters
  <2>3. <<"NUL">> \in Seq(C)
    BY <1>2, ShortSeqs
  <2>4. <<"NUL">> \o Characters(parts[n]) \in Seq(C)
    BY <2>2, <2>3, ConcatProperties
  <2>5. QED
    BY <2>2, <2>4
<1>4. pieces \in Seq(Seq(C)) /\ Len(pieces) = N /\ \A n \in 1 .. N : pieces[n] = Piece(n)
  <2> HIDE DEF N, Piece
  <2>1. pieces \in [1 .. N -> Seq(C)]
    BY <1>1, <1>3
  <2>2. QED
    BY <1>1, <2>1
<1>5. PICK G : Gathers(pieces, C, G) /\ FlattenSeq(pieces) = G[Len(pieces)]
  <2> HIDE DEF pieces
  <2> QED
    BY <1>4, FlattenPrefixes
<1>6. Join(parts) = G[N]
  <2>1. Join(parts) = FlattenSeq(pieces)
    BY DEF Join
  <2> HIDE DEF pieces
  <2>2. QED
    BY <1>4, <1>5, <2>1
<1>7. /\ G \in [0 .. N -> Seq(C)] /\ G[0] = << >>
      /\ \A n \in 1 .. N : G[n] = G[n - 1] \o Piece(n)
  <2> HIDE DEF pieces, N, Piece
  <2> QED
    BY <1>4, <1>5 DEF Gathers
<1>8. ASSUME N # 0
      PROVE  G[1] = Characters(parts[1])
  <2>1. 1 \in 1 .. N /\ 1 - 1 = 0
    BY <1>1, <1>8
  <2>2. G[1] = G[0] \o Piece(1)
    BY <1>7, <2>1
  <2>3. G[1] = << >> \o Characters(parts[1])
    BY <1>7, <2>2
  <2>4. QED
    BY <1>3, <2>1, <2>3, ConcatEmptySeq
<1>9. ASSUME NEW n \in 2 .. N
      PROVE  G[n] = JoinTo(G[n - 1], parts[n])
  <2>1. n \in 1 .. N /\ n - 1 \in 0 .. N /\ n # 1
    BY <1>1
  <2>2. G[n] = G[n - 1] \o (<<"NUL">> \o Characters(parts[n])) /\ G[n - 1] \in Seq(C)
    BY <1>7, <2>1
  <2>3. parts[n] \in C
    BY <1>1, <2>1
  <2> DEFINE g == G[n - 1]
             x == parts[n]
  <2> HIDE DEF g, x
  <2>4. g \in Seq(C) /\ x \in C
    BY <2>2, <2>3 DEF g, x
  <2>5. g \o <<"NUL">> = Append(g, "NUL") /\ g \o <<"NUL", x>> = Append(Append(g, "NUL"), x)
    BY <1>2, <2>4, ShortSeqs
  <2>6. Characters(x) = IF x = "" THEN << >> ELSE <<x>>
    BY DEF Characters
  <2>7. <<"NUL">> \o << >> = <<"NUL">> /\ <<"NUL">> \o <<x>> = <<"NUL", x>>
    BY <1>2, <2>4, ShortSeqs
  <2>8. QED
    BY <2>2, <2>5, <2>6, <2>7 DEF JoinTo, g, x
<1>10. Joined(parts, S, G)
  BY <1>7, <1>8, <1>9 DEF Joined, C
<1>11. QED
  BY <1>6, <1>10

(* What was joined is no first part, and tells what it was joined to. *)
LEMMA JoinToFacts ==
  ASSUME NEW C, "NUL" \in C, NEW s \in Seq(C), NEW t \in Seq(C),
         NEW x \in C, NEW y \in C, x # "NUL", y # "NUL"
  PROVE  /\ JoinTo(s, x) # Characters(y)
         /\ JoinTo(s, x) = JoinTo(t, y) => s = t /\ x = y
<1>1. /\ Append(s, "NUL")[Len(s) + 1] = "NUL" /\ Len(Append(s, "NUL")) = Len(s) + 1
      /\ Append(s, "NUL") \in Seq(C) /\ Len(s) \in Nat /\ Append(t, "NUL") \in Seq(C)
  OBVIOUS
<1>2. Characters(y) = << >> \/ (Len(Characters(y)) = 1 /\ Characters(y)[1] = y)
  BY DEF Characters
<1>3. ASSUME Append(s, "NUL") = Characters(y)
      PROVE  FALSE
  <2>1. Len(s) + 1 = 1
    BY <1>1, <1>2, <1>3
  <2>2. QED
    BY <1>1, <1>2, <1>3, <2>1
<1>4. ASSUME Append(Append(s, "NUL"), x) = Characters(y)
      PROVE  FALSE
  <2>1. Len(Append(Append(s, "NUL"), x)) = Len(s) + 2
    BY <1>1
  <2>2. QED
    BY <1>1, <1>2, <1>4, <2>1
<1>5. ASSUME Append(s, "NUL") = Append(t, "NUL")
      PROVE  s = t
  BY <1>5, AppendCancel
<1>6. ASSUME Append(s, "NUL") = Append(Append(t, "NUL"), y)
      PROVE  FALSE
  <2>1. y = "NUL"
    BY <1>1, <1>6, AppendCancel
  <2>2. QED
    BY <2>1
<1>7. ASSUME Append(Append(s, "NUL"), x) = Append(t, "NUL")
      PROVE  FALSE
  <2>1. x = "NUL"
    BY <1>1, <1>7, AppendCancel
  <2>2. QED
    BY <2>1
<1>8. ASSUME Append(Append(s, "NUL"), x) = Append(Append(t, "NUL"), y)
      PROVE  s = t /\ x = y
  <2> DEFINE u == Append(s, "NUL")
             v == Append(t, "NUL")
  <2>1. u \in Seq(C) /\ v \in Seq(C) /\ Append(u, x) = Append(v, y)
    BY <1>1, <1>8
  <2> HIDE DEF u, v
  <2>2. u = v /\ x = y
    BY <2>1, AppendCancel
  <2>3. QED
    BY <1>5, <2>2 DEF u, v
<1>9. QED
  BY <1>3, <1>4, <1>5, <1>6, <1>7, <1>8 DEF JoinTo

(* Parts without the separator can be read back from what they are joined to. *)
LEMMA JoinInjective ==
  ASSUME NEW S, "NUL" \notin S, NEW p \in Seq(S), NEW q \in Seq(S),
         p # << >>, q # << >>, Join(p) = Join(q)
  PROVE  p = q
<1> DEFINE M == Len(p)
           N == Len(q)
           C == S \cup {"NUL"}
<1>1. PICK A : Joined(p, S, A) /\ Join(p) = A[M]
  BY JoinPrefixes
<1>2. PICK B : Joined(q, S, B) /\ Join(q) = B[N]
  BY JoinPrefixes
<1>3. /\ M \in Nat /\ M # 0 /\ N \in Nat /\ N # 0 /\ "NUL" \in C
      /\ \A m \in 1 .. M : p[m] \in S /\ p[m] \in C /\ p[m] # "NUL"
      /\ \A n \in 1 .. N : q[n] \in S /\ q[n] \in C /\ q[n] # "NUL"
  OBVIOUS
<1>4. /\ A \in [0 .. M -> Seq(C)] /\ A[1] = Characters(p[1])
      /\ \A m \in 2 .. M : A[m] = JoinTo(A[m - 1], p[m])
      /\ B \in [0 .. N -> Seq(C)] /\ B[1] = Characters(q[1])
      /\ \A n \in 2 .. N : B[n] = JoinTo(B[n - 1], q[n])
  BY <1>1, <1>2, <1>3 DEF Joined
<1> HIDE DEF M, N, C
<1>5. /\ \A m \in 1 .. M : m \in 0 .. M /\ A[m] \in Seq(C)
      /\ \A n \in 1 .. N : n \in 0 .. N /\ B[n] \in Seq(C)
  BY <1>3, <1>4
<1>6. Characters(p[1]) = Characters(q[1]) => p[1] = q[1]
  <2>1. ASSUME NEW x \in S, NEW y \in S, Characters(x) = Characters(y)
        PROVE  x = y
    <3>1. <<x>> # << >> /\ <<y>> # << >> /\ (<<x>> = <<y>> => x = y)
      OBVIOUS
    <3>2. QED
      BY <2>1, <3>1 DEF Characters
  <2>2. 1 \in 1 .. M /\ 1 \in 1 .. N
    BY <1>3
  <2>3. QED
    BY <1>3, <2>1, <2>2
<1> DEFINE Same(m, n) == m = n /\ \A k \in 1 .. m : p[k] = q[k]
           T == {m \in 0 .. M : m = 0 \/ \A n \in 1 .. N : A[m] = B[n] => Same(m, n)}
<1>7. 0 \in T
  BY <1>3
<1>8. ASSUME NEW m \in 1 .. M, m - 1 \in T
       PROVE  m \in T
  <2>1. SUFFICES ASSUME NEW n \in 1 .. N, A[m] = B[n]
                 PROVE  Same(m, n)
    <3> HIDE DEF Same
    <3>1. m \in 0 .. M
      BY <1>3
    <3>2. QED
      BY <3>1
  <2>2. p[m] \in C /\ p[m] # "NUL" /\ q[n] \in C /\ q[n] # "NUL"
    BY <1>3
  <2>3. CASE m = 1 /\ n = 1
    <3>1. p[1] = q[1]
      BY <1>4, <1>6, <2>1, <2>3
    <3>2. \A k \in 1 .. 1 : k = 1
      OBVIOUS
    <3>3. QED
      BY <2>3, <3>1, <3>2
  <2>4. CASE m = 1 /\ n # 1
    <3>1. n \in 2 .. N /\ n - 1 \in 1 .. N
      BY <1>3, <2>4
    <3>2. B[n - 1] \in Seq(C) /\ JoinTo(B[n - 1], q[n]) = Characters(p[m])
      BY <1>4, <1>5, <2>1, <2>4, <3>1
    <3>3. QED
      BY <1>3, <2>2, <3>2, JoinToFacts
  <2>5. CASE m # 1 /\ n = 1
    <3>1. m \in 2 .. M /\ m - 1 \in 1 .. M
      BY <1>3, <2>5
    <3>2. A[m - 1] \in Seq(C) /\ JoinTo(A[m - 1], p[m]) = Characters(q[n])
      BY <1>4, <1>5, <2>1, <2>5, <3>1
    <3>3. QED
      BY <1>3, <2>2, <3>2, JoinToFacts
  <2>6. CASE m # 1 /\ n # 1
    <3>1. /\ m \in 2 .. M /\ m - 1 \in 1 .. M /\ m - 1 # 0 /\ n \in 2 .. N /\ n - 1 \in 1 .. N
          /\ \A k \in 1 .. m : k = m \/ k \in 1 .. m - 1
      BY <1>3, <2>6
    <3>2. /\ A[m - 1] \in Seq(C) /\ B[n - 1] \in Seq(C)
          /\ JoinTo(A[m - 1], p[m]) = JoinTo(B[n - 1], q[n])
      BY <1>4, <1>5, <2>1, <3>1
    <3>3. p[m] = q[n] /\ A[m - 1] = B[n - 1]
      BY <1>3, <2>2, <3>2, JoinToFacts
    <3>4. Same(m - 1, n - 1)
      <4> HIDE DEF Same
      <4> QED
        BY <1>8, <3>1, <3>3
    <3>5. m = n
      BY <1>3, <3>4
    <3>6. QED
      BY <3>1, <3>3, <3>4, <3>5
  <2>7. QED
    BY <2>3, <2>4, <2>5, <2>6
<1>9. 0 .. M \subseteq T
  <2> HIDE DEF T
  <2> QED
    BY <1>3, <1>7, <1>8, UpTo
<1>10. M \in 0 .. M /\ M # 0 /\ N \in 1 .. N
  BY <1>3
<1>11. Same(M, N)
  <2> HIDE DEF Same
  <2> QED
    BY <1>1, <1>2, <1>9, <1>10
<1>12. QED
  BY <1>11, SeqEqual DEF M, N

-------------------------------------------------------------------------------
(* Two stack traces have the same components exactly if they are one path. *)
LEMMA FrameComponentsFacts ==
  ASSUME NEW p \in Seq(SomeFrame), NEW q \in Seq(SomeFrame)
  PROVE  /\ frameComponents(p) \in Seq(Texts)
         /\ frameComponents(p) = frameComponents(q) <=> SamePath(p, q)
<1>1. ASSUME NEW frames \in Seq(SomeFrame)
      PROVE  /\ Collapse(Target(frames)) \in Seq(Texts \X Texts)
             /\ frameComponents(frames) = FlattenSeq(Collapse(Target(frames)))
  <2>1. Target(frames) \in Seq(SomeFrame)
    BY TargetCounts DEF Selects
  <2>2. QED
    BY <2>1, CollapseRuns DEF frameComponents, Target
<1>2. frameComponents(p) \in Seq(Texts)
  BY <1>1, FlattenPairs
<1>3. frameComponents(p) = frameComponents(q) <=> Collapse(Target(p)) = Collapse(Target(q))
  BY <1>1, PairsInjective
<1>4. QED
  BY <1>2, <1>3, CollapseIffSamePath

LEMMA NoFramesNoComponents == frameComponents(NoFrames) = << >>
<1>1. NoFrames \in Seq(SomeFrame) /\ Len(NoFrames) = 0
  BY DEF NoFrames
<1>2. filterInApp(NoFrames) = << >>
  <2>1. PICK out : Filters(NoFrames, out) /\ filterInApp(NoFrames) = out[Len(NoFrames)]
    BY <1>1, FilterSteps
  <2>2. QED
    BY <1>1, <2>1 DEF Filters
<1>3. Collapse(NoFrames) = << >>
  <2>1. PICK out : Collapses(NoFrames, out) /\ Collapse(NoFrames) = out[Len(NoFrames)]
    BY <1>1, CollapseSteps
  <2>2. QED
    BY <1>1, <2>1 DEF Collapses
<1>4. frameComponents(NoFrames) = FlattenSeq(<< >>)
  BY <1>2, <1>3 DEF frameComponents
<1>5. QED
  BY <1>4 DEF FlattenSeq

(* A trace has frames. *)
LEMMA FramesType ==
  ASSUME NEW trace \in SomeTrace
  PROVE  Frames(trace) \in Seq(SomeFrame)
<1>1. trace = NoTrace \/ (trace # NoTrace /\ trace.frames \in Seq(SomeFrame))
  BY DEF SomeTrace, NoTrace
<1>2. << >> \in Seq(SomeFrame)
  OBVIOUS
<1>3. QED
  BY <1>1, <1>2 DEF Frames, NoFrames

(* The thread whose frames are taken is the one an event is about. *)
LEMMA RunningThread ==
  ASSUME NEW m, m.threads \in Seq(SomeThread)
  PROVE  /\ Running(m) \in SomeTrace
         /\ currentThreadFrames(m.threads) = Frames(Running(m))
<1> DEFINE threads == m.threads
           traced == {n \in DOMAIN threads : threads[n].stacktrace # NoTrace}
           current == {n \in traced : threads[n].current}
           Before(n, k) == IF threads[n].current = threads[k].current
                           THEN n < k ELSE threads[n].current
           Foremost(n) == n \in traced /\ \A k \in traced \ {n} : Before(n, k)
<1>1. traced \subseteq Nat /\ current \subseteq traced /\ current \subseteq Nat
  OBVIOUS
<1>2. \A n \in traced : /\ threads[n].stacktrace \in SomeTrace
                        /\ threads[n].stacktrace # NoTrace
                        /\ threads[n].current \in BOOLEAN
  <2>1. \A n \in DOMAIN threads : threads[n] \in SomeThread
    OBVIOUS
  <2>2. QED
    BY <2>1 DEF SomeThread
<1>3. NoTrace \in SomeTrace
  BY DEF SomeTrace
<1>4. CASE traced = {}
  <2>1. Running(m) = NoTrace
    BY <1>4 DEF Running
  <2>2. currentThreadFrames(threads) = NoFrames
    BY <1>4 DEF currentThreadFrames
  <2>3. QED
    BY <1>3, <2>1, <2>2 DEF Frames
<1>5. CASE traced # {}
  <2> DEFINE n == IF current # {} THEN Min(current) ELSE Min(traced)
  <2>1. ASSUME NEW T, T \subseteq Nat, T # {}
        PROVE  Min(T) \in T /\ \A k \in T : Min(T) <= k
    <3>1. \E x \in T : \A k \in T : x <= k
      BY <2>1, LeastElement
    <3>2. QED
      BY <3>1 DEF Min
  <2>2. \A k \in traced : threads[k].current => k \in current
    OBVIOUS
  <2>3. \A k \in current : k \in traced /\ threads[k].current
    OBVIOUS
  <2> HIDE DEF traced, current, threads
  <2>4. Foremost(n)
    <3>1. CASE current # {}
      <4>1. n \in current /\ \A k \in current : n <= k
        BY <1>1, <2>1, <3>1
      <4>2. n \in traced /\ threads[n].current
        BY <2>3, <4>1
      <4> HIDE DEF n
      <4>3. ASSUME NEW k \in traced \ {n}
            PROVE  Before(n, k)
        <5>1. CASE threads[k].current
          <6>1. k \in current /\ n \in Nat /\ k \in Nat /\ n # k
            BY <1>1, <2>2, <4>1, <5>1
          <6>2. n < k
            BY <4>1, <6>1
          <6>3. QED
            BY <4>2, <6>2
        <5>2. CASE ~ threads[k].current
          <6>1. ~ (threads[n].current = threads[k].current)
            BY <4>2, <5>2
          <6>2. QED
            BY <4>2, <6>1
        <5>3. QED
          BY <5>1, <5>2
      <4>4. QED
        BY <4>2, <4>3
    <3>2. CASE current = {}
      <4>1. n \in traced /\ \A k \in traced : n <= k
        BY <1>1, <1>5, <2>1, <3>2
      <4>2. \A k \in traced : threads[k].current = FALSE
        BY <1>2, <2>2, <3>2
      <4> HIDE DEF n
      <4>3. ASSUME NEW k \in traced \ {n}
            PROVE  Before(n, k)
        <5>1. n \in Nat /\ k \in Nat /\ n # k /\ n <= k
          BY <1>1, <4>1
        <5>2. n < k
          BY <5>1
        <5>3. threads[n].current = FALSE /\ threads[k].current = FALSE
          BY <4>1, <4>2
        <5>4. threads[n].current = threads[k].current
          BY <5>3
        <5>5. QED
          BY <5>2, <5>4
      <4>4. QED
        BY <4>1, <4>3
    <3>3. QED
      BY <3>1, <3>2
  <2>5. ASSUME NEW k, NEW l, Foremost(k), Foremost(l)
        PROVE  k = l
    <3>1. k \in Nat /\ l \in Nat
      BY <1>1, <2>5
    <3>2. SUFFICES ASSUME k # l
                   PROVE  FALSE
      OBVIOUS
    <3>3. Before(k, l) /\ Before(l, k)
      BY <2>5, <3>2
    <3>4. threads[k].current \in BOOLEAN /\ threads[l].current \in BOOLEAN
      BY <1>2, <2>5
    <3>5. CASE threads[k].current = threads[l].current
      <4>1. k < l /\ l < k
        BY <3>3, <3>5
      <4>2. QED
        BY <3>1, <4>1
    <3>6. CASE threads[k].current # threads[l].current
      <4>1. threads[k].current /\ threads[l].current
        BY <3>3, <3>6
      <4>2. QED
        BY <3>4, <3>6, <4>1
    <3>7. QED
      BY <3>5, <3>6
  <2> DEFINE chosen == CHOOSE x \in traced : \A k \in traced \ {x} : Before(x, k)
  <2>6. Foremost(chosen)
    BY <2>4
  <2>7. chosen = n
    <3> HIDE DEF chosen, Foremost, n
    <3> QED
      BY <2>4, <2>5, <2>6
  <2>8. Running(m) = threads[chosen].stacktrace
    BY <1>5 DEF Running, traced, threads
  <2>9. n \in traced
    BY <2>4
  <2>10. currentThreadFrames(threads) = threads[n].stacktrace.frames
    BY <1>5 DEF currentThreadFrames, traced, current
  <2>11. Running(m) = threads[n].stacktrace
    <3> HIDE DEF n, chosen
    <3> QED
      BY <2>7, <2>8
  <2>12. QED
    <3> HIDE DEF n, chosen
    <3> QED
      BY <1>2, <2>9, <2>10, <2>11 DEF Frames, threads
<1>6. QED
  BY <1>4, <1>5

(* The components of what was meant, if it was parsed as it was meant. *)
Described(m) ==
  IF m.exceptions # << >>
  THEN <<"exception", Outermost(m).type>> \o frameComponents(Frames(Outermost(m).stacktrace))
  ELSE <<"message", m.text>> \o frameComponents(Frames(Running(m)))

AsMeant(ev, m) ==
  /\ MessageText(ev.message) = m.text
  /\ ev.exception = m.exceptions
  /\ ev.threads = m.threads

LEMMA OutermostType ==
  ASSUME NEW m, IsMeant(m), m.exceptions # << >>
  PROVE  Outermost(m) \in SomeException
<1>1. m.exceptions \in Seq(SomeException)
  BY DEF IsMeant
<1> DEFINE s == m.exceptions
<1>2. s \in Seq(SomeException) /\ s # << >>
  BY <1>1
<1> HIDE DEF s
<1>3. s[Len(s)] \in SomeException
  BY <1>2
<1>4. QED
  BY <1>3 DEF Outermost, s

LEMMA ComponentsDescribe ==
  ASSUME NEW ev, NEW m, IsMeant(m), AsMeant(ev, m)
  PROVE  Fingerprint(ev) = Join(Described(m))
<1>1. CASE m.exceptions # << >>
  <2>1. primary(ev) = Outermost(m) /\ ev.exception # << >>
    BY <1>1 DEF AsMeant, primary, Outermost, Last
  <2>2. CASE Outermost(m).stacktrace # NoTrace
    BY <1>1, <2>1, <2>2 DEF Fingerprint, components, Described, Frames
  <2>3. CASE Outermost(m).stacktrace = NoTrace
    <3>1. frameComponents(Frames(Outermost(m).stacktrace)) = << >>
      BY <2>3, NoFramesNoComponents DEF Frames
    <3>2. QED
      BY <1>1, <2>1, <2>3, <3>1 DEF Fingerprint, components, Described
  <2>4. QED
    BY <2>2, <2>3
<1>2. CASE m.exceptions = << >>
  <2>1. currentThreadFrames(ev.threads) = Frames(Running(m))
    BY RunningThread DEF IsMeant, AsMeant
  <2>2. QED
    BY <1>2, <2>1 DEF AsMeant, Fingerprint, components, Described
<1>3. QED
  BY <1>1, <1>2

Headed(kind, key, s) == <<kind, key>> \o s

(* Two texts before a list are told from the list. *)
LEMMA TwoBefore ==
  ASSUME NEW S, NEW a \in S, NEW b \in S, NEW c \in S, NEW d \in S,
         NEW s \in Seq(S), NEW t \in Seq(S)
  PROVE  /\ Headed(a, b, s) \in Seq(S) /\ Headed(a, b, s) # << >>
         /\ Headed(a, b, s) = Headed(c, d, t) <=> a = c /\ b = d /\ s = t
<1> DEFINE u == <<a, b>>
           v == <<c, d>>
<1>1. u \in Seq(S) /\ Len(u) = 2 /\ u[1] = a /\ u[2] = b
  OBVIOUS
<1>2. v \in Seq(S) /\ Len(v) = 2 /\ v[1] = c /\ v[2] = d
  OBVIOUS
<1>3. a = c /\ b = d /\ s = t => u \o s = v \o t
  OBVIOUS
<1> HIDE DEF Headed, u, v
<1>4. ASSUME NEW w \in Seq(S), Len(w) = 2, NEW x \in Seq(S)
      PROVE  /\ w \o x \in Seq(S) /\ Len(w \o x) = 2 + Len(x) /\ Len(x) \in Nat
             /\ \A i \in 1 .. 2 + Len(x) : (w \o x)[i] = IF i <= 2 THEN w[i] ELSE x[i - 2]
  <2>1. /\ w \o x \in Seq(S) /\ Len(w \o x) = Len(w) + Len(x)
        /\ \A i \in 1 .. Len(w) + Len(x) :
             (w \o x)[i] = IF i <= Len(w) THEN w[i] ELSE x[i - Len(w)]
    BY ConcatProperties
  <2>2. QED
    BY <1>4, <2>1
<1>5. /\ u \o s \in Seq(S) /\ Len(u \o s) = 2 + Len(s) /\ Len(s) \in Nat
      /\ \A i \in 1 .. 2 + Len(s) : (u \o s)[i] = IF i <= 2 THEN u[i] ELSE s[i - 2]
  BY <1>1, <1>4
<1>6. /\ Len(v \o t) = 2 + Len(t) /\ Len(t) \in Nat
      /\ \A i \in 1 .. 2 + Len(t) : (v \o t)[i] = IF i <= 2 THEN v[i] ELSE t[i - 2]
  BY <1>2, <1>4
<1>7. u \o s # << >>
  BY <1>5
<1>8. ASSUME u \o s = v \o t
      PROVE  a = c /\ b = d /\ s = t
  <2>1. Len(s) = Len(t)
    BY <1>5, <1>6, <1>8
  <2>2. 1 \in 1 .. 2 + Len(s) /\ 2 \in 1 .. 2 + Len(s)
    BY <1>5
  <2>3. u[1] = v[1] /\ u[2] = v[2]
    BY <1>5, <1>6, <1>8, <2>1, <2>2
  <2>4. ASSUME NEW i \in 1 .. Len(s)
        PROVE  s[i] = t[i]
    <3>1. i + 2 \in 1 .. 2 + Len(s) /\ ~ (i + 2 <= 2) /\ i + 2 - 2 = i
      BY <1>5
    <3>2. (u \o s)[i + 2] = s[i + 2 - 2] /\ (v \o t)[i + 2] = t[i + 2 - 2]
      BY <1>5, <1>6, <2>1, <3>1
    <3>3. QED
      BY <1>8, <3>1, <3>2
  <2>5. s = t
    BY <2>1, <2>4, SeqEqual
  <2>6. QED
    BY <1>1, <1>2, <2>3, <2>5
<1>9. QED
  BY <1>3, <1>5, <1>7, <1>8 DEF Headed, u, v

(* Events are described alike exactly if they are about the same bug. *)
LEMMA DescribedIffAlike ==
  ASSUME NEW m, NEW n, IsMeant(m), IsMeant(n)
  PROVE  Join(Described(m)) = Join(Described(n)) <=> Alike(m, n)
<1> DEFINE S == Texts \cup {"exception", "message"}
           Kind(x) == IF x.exceptions # << >> THEN "exception" ELSE "message"
           Key(x) == IF x.exceptions # << >> THEN Outermost(x).type ELSE x.text
           Path(x) == IF x.exceptions # << >> THEN Frames(Outermost(x).stacktrace)
                      ELSE Frames(Running(x))
<1>1. ASSUME NEW x, IsMeant(x)
      PROVE  /\ Described(x) = Headed(Kind(x), Key(x), frameComponents(Path(x)))
             /\ Kind(x) \in S /\ Key(x) \in S
             /\ Path(x) \in Seq(SomeFrame) /\ frameComponents(Path(x)) \in Seq(S)
  <2>1. Key(x) \in Texts /\ Path(x) \in Seq(SomeFrame)
    <3>1. CASE x.exceptions # << >>
      <4>1. Outermost(x).type \in Texts /\ Outermost(x).stacktrace \in SomeTrace
        BY <1>1, <3>1, OutermostType DEF SomeException
      <4>2. QED
        BY <3>1, <4>1, FramesType
    <3>2. CASE x.exceptions = << >>
      <4>1. x.text \in Texts /\ Running(x) \in SomeTrace
        BY <1>1, RunningThread DEF IsMeant
      <4>2. QED
        BY <3>2, <4>1, FramesType
    <3>3. QED
      BY <3>1, <3>2
  <2>2. Described(x) = Headed(Kind(x), Key(x), frameComponents(Path(x)))
    BY DEF Described, Headed
  <2> HIDE DEF Key, Path
  <2>3. frameComponents(Path(x)) \in Seq(Texts)
    BY <2>1, FrameComponentsFacts
  <2>4. frameComponents(Path(x)) \in Seq(S)
    <3>1. Texts \subseteq S
      OBVIOUS
    <3> HIDE DEF S
    <3>2. QED
      BY <2>3, <3>1, SeqMonotonic
  <2>5. QED
    BY <2>1, <2>2, <2>4
<1>2. "NUL" \notin S
  BY DEF Texts
<1>3. Alike(m, n) <=> Kind(m) = Kind(n) /\ Key(m) = Key(n) /\ SamePath(Path(m), Path(n))
  BY DEF Alike
<1> HIDE DEF S, Kind, Key, Path
<1>4. \A a, b, c, d \in S : \A s, t \in Seq(S) :
        /\ Headed(a, b, s) \in Seq(S) /\ Headed(a, b, s) # << >>
        /\ Headed(a, b, s) = Headed(c, d, t) <=> a = c /\ b = d /\ s = t
  BY TwoBefore
<1>5. /\ Described(m) \in Seq(S) /\ Described(m) # << >>
      /\ Described(n) \in Seq(S) /\ Described(n) # << >>
  BY <1>1, <1>4
<1>6. Join(Described(m)) = Join(Described(n)) <=> Described(m) = Described(n)
  BY <1>2, <1>5, JoinInjective
<1>7. Described(m) = Described(n) <=>
        /\ Kind(m) = Kind(n) /\ Key(m) = Key(n)
        /\ frameComponents(Path(m)) = frameComponents(Path(n))
  BY <1>1, <1>4
<1>8. frameComponents(Path(m)) = frameComponents(Path(n)) <=> SamePath(Path(m), Path(n))
  BY <1>1, FrameComponentsFacts
<1>9. QED
  BY <1>3, <1>6, <1>7, <1>8

-------------------------------------------------------------------------------
(* A list is read as it was, in every form. *)
LEMMA ListRead ==
  ASSUME NEW form \in {"bare", "wrapped", "omitted"}, NEW s
  PROVE  IsValues(ListAs(form, s)) /\ Values(ListAs(form, s)) = s
<1>1. CASE form = "wrapped"
  BY <1>1 DEF ListAs, Obj, IsValues, Values
<1>2. CASE form = "omitted" /\ s = << >>
  BY <1>2 DEF ListAs, Null, IsValues, Values
<1>3. CASE form = "omitted" /\ s # << >>
  BY <1>3 DEF ListAs, List, IsValues, Values
<1>4. CASE form = "bare"
  BY <1>4 DEF ListAs, List, IsValues, Values
<1>5. QED
  BY <1>1, <1>2, <1>3, <1>4

(* Threads are, with the ids that were written as numbers. *)
LEMMA ThreadsRead ==
  ASSUME NEW form \in Forms, NEW threads \in Seq(SomeThread)
  PROVE  IsValues(ThreadsAs(form, threads)) /\ ThreadValues(ThreadsAs(form, threads)) = threads
<1> DEFINE Id(x) == IF x = "" THEN Null ELSE IF form.id = "number" THEN Literal(x) ELSE Text(x)
           written == [n \in DOMAIN threads |-> [threads[n] EXCEPT !.id = Id(@)]]
<1>1. form.list \in {"bare", "wrapped", "omitted"}
  BY DEF Forms
<1>2. ThreadsAs(form, threads) = ListAs(form.list, written)
  BY DEF ThreadsAs
<1>3. IsValues(ThreadsAs(form, threads)) /\ Values(ThreadsAs(form, threads)) = written
  <2> HIDE DEF written
  <2> QED
    BY <1>1, <1>2, ListRead
<1>4. \A x : FlexString(Id(x)) = x
  BY DEF FlexString, Null, Literal, Text
<1>5. ThreadValues(ThreadsAs(form, threads))
        = [n \in DOMAIN threads |-> [written[n] EXCEPT !.id = FlexString(@)]]
  <2>1. DOMAIN written = DOMAIN threads
    OBVIOUS
  <2> HIDE DEF written
  <2>2. QED
    BY <1>3, <2>1 DEF ThreadValues
<1>6. ASSUME NEW n \in DOMAIN threads
      PROVE  [written[n] EXCEPT !.id = FlexString(@)] = threads[n]
  <2>1. threads[n] \in SomeThread
    OBVIOUS
  <2> DEFINE r == threads[n]
  <2>2. written[n] = [r EXCEPT !.id = Id(@)]
    OBVIOUS
  <2> HIDE DEF r, written, Id
  <2>3. written[n] = [r EXCEPT !.id = Id(r.id)]
    BY <2>2
  <2>4. r \in SomeThread
    BY <2>1 DEF r
  <2>5. written[n] = [id |-> Id(r.id), current |-> r.current, stacktrace |-> r.stacktrace]
    BY <2>3, <2>4 DEF SomeThread
  <2>6. [written[n] EXCEPT !.id = FlexString(@)]
          = [id |-> FlexString(Id(r.id)), current |-> r.current, stacktrace |-> r.stacktrace]
    BY <2>5
  <2>7. r = [id |-> r.id, current |-> r.current, stacktrace |-> r.stacktrace]
    BY <2>4 DEF SomeThread
  <2>8. QED
    BY <1>4, <2>6, <2>7 DEF r
<1>7. threads = [n \in DOMAIN threads |-> threads[n]]
  OBVIOUS
<1>8. QED
  <2> HIDE DEF written
  <2> QED
    BY <1>3, <1>5, <1>6, <1>7

(* A text is read as it was, from the message or the logentry. *)
LEMMA TextRead ==
  ASSUME NEW form \in Forms, NEW t, NEW json,
         json.message = MessageAs(form.text, t), json.logentry = LogEntryAs(form.text, t)
  PROVE  /\ IsMessage(json.message) /\ json.logentry.json \in {"null", "object"}
         /\ MessageText(Normalized(json)) = t
<1>1. form.text \in {"string", "formatted", "raw", "logentry", "logentry raw"}
  BY DEF Forms
<1>2. /\ Null.json = "null"
      /\ MessageText(Message(Null)) = ""
  BY DEF Null, Message, MessageText, NoMessage
<1>3. ASSUME NEW x
      PROVE  Text(x).json = "string" /\ MessageText(Message(Text(x))) = x
  <2>1. Text(x).json = "string" /\ Text(x).text = x
    BY DEF Text
  <2>2. Message(Text(x)).formatted = x /\ Message(Text(x)).raw = ""
    BY <2>1 DEF Message
  <2>3. QED
    BY <2>1, <2>2 DEF MessageText
<1>4. ASSUME NEW f, NEW r
      PROVE  /\ Template(f, r).json = "object" /\ Template(f, r) # Null
             /\ f # "" => MessageText(Message(Template(f, r))) = f
             /\ f = "" => MessageText(Message(Template(f, r))) = r
  <2> DEFINE v == Template(f, r)
  <2>1. v.json = "object" /\ v.fields = [formatted |-> f, message |-> r]
    BY DEF Template, Obj
  <2>2. v.fields.formatted = f /\ v.fields.message = r
    BY <2>1
  <2> HIDE DEF v
  <2>3. v # Null
    BY <1>2, <2>1
  <2>4. Message(v).formatted = f /\ Message(v).raw = r
    BY <2>1, <2>2 DEF Message
  <2>5. QED
    BY <2>1, <2>3, <2>4 DEF v, MessageText
<1>5. /\ Template(t, "template").json = "object" /\ Template(t, "template") # Null
      /\ Template("", t).json = "object" /\ Template("", t) # Null
  BY <1>4
<1>6. CASE t = ""
  <2>1. json.message = Null /\ json.logentry = Null
    BY <1>6 DEF MessageAs, LogEntryAs
  <2>2. QED
    BY <1>2, <1>6, <2>1 DEF IsMessage, Normalized
<1>7. ASSUME t # "", NEW v, v = Text(t) \/ v = Template(t, "template") \/ v = Template("", t)
      PROVE  IsMessage(v) /\ MessageText(Message(v)) = t
  <2>1. CASE v = Text(t)
    BY <1>3, <2>1 DEF IsMessage
  <2>2. CASE v = Template(t, "template")
    BY <1>4, <1>7, <2>2 DEF IsMessage
  <2>3. CASE v = Template("", t)
    BY <1>4, <2>3 DEF IsMessage
  <2>4. QED
    BY <1>7, <2>1, <2>2, <2>3
<1>8. CASE t # "" /\ form.text \in {"string", "formatted", "raw"}
  <2>1. json.logentry = Null
    BY <1>8 DEF LogEntryAs
  <2>2. \/ json.message = Text(t) \/ json.message = Template(t, "template")
        \/ json.message = Template("", t)
    BY <1>8 DEF MessageAs
  <2>3. IsMessage(json.message) /\ MessageText(Message(json.message)) = t
    BY <1>7, <1>8, <2>2
  <2>4. QED
    BY <1>2, <2>1, <2>3 DEF Normalized
<1>9. CASE t # "" /\ form.text \in {"logentry", "logentry raw"}
  <2>1. json.message = Null
    BY <1>9 DEF MessageAs
  <2>2. json.logentry = Template(t, "template") \/ json.logentry = Template("", t)
    BY <1>9 DEF LogEntryAs
  <2>3. json.logentry.json = "object" /\ json.logentry # Null
    BY <1>5, <2>2
  <2>4. MessageText(Message(json.logentry)) = t
    BY <1>7, <1>9, <2>2
  <2>5. QED
    BY <1>2, <2>1, <2>3, <2>4 DEF IsMessage, Normalized
<1>10. QED
  BY <1>1, <1>6, <1>8, <1>9

(* A set that is listed is listed whole, each of its elements once. *)
LEMMA SetListed ==
  ASSUME NEW S, IsFiniteSet(S)
  PROVE  /\ Cardinality(S) \in Nat
         /\ SetToSeq(S) \in [1 .. Cardinality(S) -> S]
         /\ \A x \in S : \E n \in 1 .. Cardinality(S) : SetToSeq(S)[n] = x
<1> DEFINE K == Cardinality(S)
<1>1. K \in Nat /\ ExistsBijection(1 .. K, S)
  BY FS_CardinalityType
<1>2. \E f \in [1 .. K -> S] : IsInjective(f)
  BY <1>1 DEF ExistsBijection, Bijection, Injection
<1>3. SetToSeq(S) \in [1 .. K -> S] /\ IsInjective(SetToSeq(S))
  BY <1>2 DEF SetToSeq
<1>4. SetToSeq(S) \in Injection(1 .. K, S)
  BY <1>3 DEF Injection
<1>5. Cardinality(1 .. K) = K
  BY <1>1, FS_Interval
<1>6. SetToSeq(S) \in Surjection(1 .. K, S)
  BY <1>4, <1>5, FS_Injection
<1>7. QED
  BY <1>1, <1>3, <1>6 DEF Surjection

(* What Tags has read after n pairs. *)
Reads(items, m) ==
  /\ m[0] = << >>
  /\ \A n \in 1 .. Len(items) : m[n] = Put(m[n - 1], items[n][1], items[n][2])

LEMMA TagSteps ==
  ASSUME NEW D, NEW V, NEW v, v.json = "array", v.items \in Seq(D \X V)
  PROVE  \E m : Reads(v.items, m) /\ Tags(v) = m[Len(v.items)]
<1> DEFINE items == v.items
           N == Len(items)
           Read(n, f) == Put(f, items[n][1], items[n][2])
           Body(f) == [n \in 0 .. N |-> IF n = 0 THEN << >> ELSE Read(n, f[n - 1])]
           U == UNION {[X -> V] : X \in SUBSET D}
           base == << >>
           step == [nf \in (1 .. N) \X U |-> Read(nf[1], nf[2])]
           m == CHOOSE f : f = Body(f)
<1>1. N \in Nat /\ \A n \in 1 .. N : items[n][1] \in D /\ items[n][2] \in V
  OBVIOUS
<1>2. base \in U
  <2>1. << >> \in [{} -> V]
    OBVIOUS
  <2>2. QED
    BY <2>1
<1>3. ASSUME NEW n \in 1 .. N, NEW f \in U
      PROVE  Read(n, f) \in U
  <2>1. PICK X \in SUBSET D : f \in [X -> V]
    OBVIOUS
  <2> DEFINE x == items[n][1]
             y == items[n][2]
  <2>2. x \in D /\ y \in V
    BY <1>1
  <2> HIDE DEF x, y, U
  <2>3. Put(f, x, y) = [z \in X \cup {x} |-> IF z = x THEN y ELSE f[z]]
    BY <2>1 DEF Put
  <2>4. Put(f, x, y) \in [X \cup {x} -> V] /\ X \cup {x} \in SUBSET D
    BY <2>1, <2>2, <2>3
  <2>5. Put(f, x, y) \in U
    BY <2>4 DEF U
  <2>6. QED
    BY <2>5 DEF x, y
<1>4. step \in [(1 .. N) \X U -> U] /\ \A n \in 1 .. N, f \in U : step[<<n, f>>] = Read(n, f)
  <2> HIDE DEF N, U, Read
  <2> QED
    BY <1>3
<1>5. PICK g : Computes(g, N, U, base, step)
  <2> HIDE DEF N, U, base, step
  <2> QED
    BY <1>1, <1>2, <1>4, Recursive
<1>6. \A n \in 1 .. N : n - 1 \in 0 .. N /\ g[n - 1] \in U
  <2> HIDE DEF N, U
  <2> QED
    BY <1>1, <1>5 DEF Computes
<1>7. /\ g \in [0 .. N -> U] /\ g[0] = << >>
      /\ \A n \in 1 .. N : g[n] = Read(n, g[n - 1])
  <2> HIDE DEF N, U, Read, step
  <2> QED
    BY <1>4, <1>5, <1>6 DEF Computes
<1>8. g = Body(g)
  <2> HIDE DEF N, U, Read
  <2>1. g = [n \in 0 .. N |-> g[n]]
    BY <1>7
  <2>2. \A n \in 0 .. N : g[n] = IF n = 0 THEN << >> ELSE Read(n, g[n - 1])
    BY <1>1, <1>7
  <2>3. QED
    BY <2>1, <2>2
<1>9. m = Body(m)
  <2> HIDE DEF Body
  <2> QED
    BY <1>8
<1>10. m[0] = << >> /\ \A n \in 1 .. N : m[n] = Read(n, m[n - 1])
  <2> HIDE DEF N, Read, m
  <2>1. \A n \in 0 .. N : m[n] = IF n = 0 THEN << >> ELSE Read(n, m[n - 1])
    BY <1>9
  <2>2. QED
    BY <1>1, <2>1
<1>11. Tags(v) = m[N]
  BY DEF Tags
<1>12. Reads(items, m)
  <2> HIDE DEF m
  <2> QED
    BY <1>10 DEF Reads
<1>13. QED
  <2> HIDE DEF m
  <2> QED
    BY <1>11, <1>12

(* Tags are read as they were, from pairs as well, whose last one counts. *)
LEMMA TagsRead ==
  ASSUME NEW form \in {"object", "pairs"}, NEW tags,
         IsFiniteSet(DOMAIN tags), tags = [key \in DOMAIN tags |-> tags[key]]
  PROVE  IsTags(TagsAs(form, tags)) /\ Tags(TagsAs(form, tags)) = tags
<1>1. CASE form = "object"
  BY <1>1 DEF TagsAs, Obj, IsTags, Tags
<1>2. CASE form = "pairs"
  <2> DEFINE D == DOMAIN tags
             K == Cardinality(D)
             keys == SetToSeq(D)
             V == {"overwritten"} \cup {tags[key] : key \in D}
             twice == [n \in DOMAIN keys |-> LET key == keys[n]
                                             IN  <<<<key, "overwritten">>, <<key, tags[key]>>>>]
             v == List(FlattenSeq(twice))
             items == v.items
  <2>1. K \in Nat /\ keys \in [1 .. K -> D] /\ \A x \in D : \E n \in 1 .. K : keys[n] = x
    BY SetListed
  <2>2. TagsAs(form, tags) = v
    BY <1>2 DEF TagsAs
  <2>3. v.json = "array" /\ items = FlattenSeq(twice)
    BY DEF List
  <2> HIDE DEF D, K, keys, v, items
  <2> DEFINE W == D \X V
  <2>4. ASSUME NEW n \in 1 .. K
        PROVE  /\ twice[n][1] = <<keys[n], "overwritten">>
               /\ twice[n][2] = <<keys[n], tags[keys[n]]>>
               /\ twice[n] \in W \X W
    <3>1. keys[n] \in D /\ n \in DOMAIN keys
      BY <2>1
    <3>2. twice[n] = <<<<keys[n], "overwritten">>, <<keys[n], tags[keys[n]]>>>>
      BY <3>1
    <3>3. <<keys[n], "overwritten">> \in W /\ <<keys[n], tags[keys[n]]>> \in W
      BY <3>1
    <3> HIDE DEF twice, W
    <3>4. QED
      BY <3>2, <3>3
  <2>5. twice \in Seq(W \X W) /\ Len(twice) = K
    <3>1. DOMAIN twice = 1 .. K /\ twice = [n \in 1 .. K |-> twice[n]]
      BY <2>1
    <3> HIDE DEF twice, W
    <3>2. twice \in [1 .. K -> W \X W]
      BY <2>4, <3>1
    <3>3. QED
      BY <2>1, <3>2
  <2>6. /\ items \in Seq(W) /\ Len(items) = 2 * K
        /\ \A n \in 1 .. K : /\ items[2 * n - 1] = <<keys[n], "overwritten">>
                             /\ items[2 * n] = <<keys[n], tags[keys[n]]>>
    <3> HIDE DEF W, twice
    <3>1. /\ items \in Seq(W) /\ Len(items) = 2 * K
          /\ \A n \in 1 .. K : items[2 * n - 1] = twice[n][1] /\ items[2 * n] = twice[n][2]
      BY <2>3, <2>5, FlattenPairs
    <3>2. \A n \in 1 .. K : /\ twice[n][1] = <<keys[n], "overwritten">>
                            /\ twice[n][2] = <<keys[n], tags[keys[n]]>>
      BY <2>4
    <3> HIDE DEF twice, items
    <3>3. ASSUME NEW n \in 1 .. K
          PROVE  /\ items[2 * n - 1] = <<keys[n], "overwritten">>
                 /\ items[2 * n] = <<keys[n], tags[keys[n]]>>
      <4>1. items[2 * n - 1] = twice[n][1] /\ items[2 * n] = twice[n][2]
        BY <3>1
      <4>2. QED
        BY <3>2, <4>1
    <3>4. items \in Seq(W) /\ Len(items) = 2 * K
      BY <3>1
    <3>5. QED
      BY <3>3, <3>4
  <2>7. PICK m : Reads(items, m) /\ Tags(v) = m[Len(items)]
    <3> HIDE DEF V
    <3> QED
      BY <2>3, <2>6, TagSteps DEF items
  <2> HIDE DEF V, twice
  <2> DEFINE Keys(k) == {keys[n] : n \in 1 .. k}
             T == {k \in 0 .. K : m[2 * k] = [z \in Keys(k) |-> tags[z]]}
  <2>8. 0 \in T
    <3>1. m[0] = << >> /\ 2 * 0 = 0 /\ Keys(0) = {} /\ 0 \in 0 .. K
      BY <2>1, <2>7 DEF Reads
    <3>2. << >> = [z \in {} |-> tags[z]]
      OBVIOUS
    <3>3. m[2 * 0] = [z \in Keys(0) |-> tags[z]]
      <4> HIDE DEF Keys
      <4> QED
        BY <3>1, <3>2
    <3>4. QED
      BY <3>1, <3>3
  <2>9. ASSUME NEW k \in 1 .. K, k - 1 \in T
        PROVE  k \in T
    <3> DEFINE f == m[2 * (k - 1)]
               x == keys[k]
    <3>1. /\ 2 * k - 1 \in 1 .. 2 * K /\ 2 * k - 1 - 1 = 2 * (k - 1)
          /\ 2 * k \in 1 .. 2 * K /\ k \in 0 .. K
      BY <2>1
    <3>2. m[2 * k - 1] = Put(f, x, "overwritten")
      BY <2>6, <2>7, <3>1 DEF Reads
    <3>3. m[2 * k] = Put(Put(f, x, "overwritten"), x, tags[x])
      BY <2>6, <2>7, <3>1, <3>2 DEF Reads
    <3>4. f = [z \in Keys(k - 1) |-> tags[z]]
      BY <2>9
    <3>5. Keys(k) = Keys(k - 1) \cup {x}
      <4>1. \A n \in 1 .. k : n = k \/ n \in 1 .. k - 1
        BY <2>1
      <4>2. \A n \in 1 .. k - 1 : n \in 1 .. k
        BY <2>1
      <4>3. QED
        BY <2>1, <4>1, <4>2
    <3> HIDE DEF f, x, Keys
    <3>6. Put(Put(f, x, "overwritten"), x, tags[x]) = [z \in Keys(k - 1) \cup {x} |-> tags[z]]
      BY <3>4 DEF Put
    <3>7. QED
      BY <3>1, <3>3, <3>5, <3>6
  <2>10. K \in T
    <3> HIDE DEF T
    <3>1. 0 .. K \subseteq T
      BY <2>1, <2>8, <2>9, UpTo
    <3>2. QED
      BY <2>1, <3>1
  <2>11. Keys(K) = D
    BY <2>1
  <2>12. Tags(v) = [z \in D |-> tags[z]]
    <3> HIDE DEF Keys
    <3> QED
      BY <2>6, <2>7, <2>10, <2>11
  <2>13. QED
    BY <2>2, <2>3, <2>12 DEF D, IsTags
<1>3. QED
  BY <1>1, <1>2

(* An event that says what was meant, all of it. *)
ReadRight(ev, m) ==
  /\ AsMeant(ev, m)
  /\ ev.breadcrumbs = m.breadcrumbs
  /\ ev.tags = m.tags
  /\ ev.timestamp = [at |-> m.at, zone |-> 0]
  /\ ev.level = IF m.level = "" THEN "error" ELSE m.level

(* ParseEvent reads what was meant, in every form it can be written in. *)
LEMMA ParsedAsMeant ==
  ASSUME NEW m, IsMeant(m), NEW form \in Forms
  PROVE  Parsable(Written(m, form)) /\ ReadRight(ParseEvent(Written(m, form)), m)
<1> DEFINE json == Written(m, form)
           ev == ParseEvent(json)
<1>1. /\ json.message = MessageAs(form.text, m.text)
      /\ json.logentry = LogEntryAs(form.text, m.text)
      /\ json.level = m.level
      /\ json.exception = ListAs(form.list, m.exceptions)
      /\ json.threads = ThreadsAs(form, m.threads)
      /\ json.breadcrumbs = ListAs(form.list, m.breadcrumbs)
      /\ json.tags = TagsAs(form.tags, m.tags)
      /\ json.timestamp = IF form.time = "number" THEN Number(m.at)
                          ELSE RFC3339(m.at + form.offset, form.offset)
  BY DEF Written
<1> HIDE DEF json
<1>2. /\ form.list \in {"bare", "wrapped", "omitted"} /\ form.tags \in {"object", "pairs"}
      /\ form.offset \in Int
  <2>1. /\ form.list \in {"bare", "wrapped", "omitted"} /\ form.tags \in {"object", "pairs"}
        /\ form.offset \in {-1, 0, 2}
    BY DEF Forms
  <2>2. QED
    BY <2>1
<1>3. /\ ev.message = Normalized(json)
      /\ ev.level = IF json.level = "" THEN "error" ELSE json.level
      /\ ev.exception = ExceptionValues(json.exception)
      /\ ev.threads = ThreadValues(json.threads)
      /\ ev.breadcrumbs = BreadcrumbList(json.breadcrumbs)
      /\ ev.tags = Tags(json.tags)
      /\ ev.timestamp = Timestamp(json.timestamp)
  BY DEF ParseEvent
<1> HIDE DEF ev
<1>4. /\ IsMessage(json.message) /\ json.logentry.json \in {"null", "object"}
      /\ MessageText(ev.message) = m.text
  <2>1. json.message = MessageAs(form.text, m.text) /\ json.logentry = LogEntryAs(form.text, m.text)
    BY <1>1
  <2>2. /\ IsMessage(json.message) /\ json.logentry.json \in {"null", "object"}
        /\ MessageText(Normalized(json)) = m.text
    BY <2>1, TextRead
  <2>3. QED
    BY <1>3, <2>2
<1>5. IsValues(json.exception) /\ ev.exception = m.exceptions
  BY <1>1, <1>2, <1>3, ListRead DEF ExceptionValues
<1>6. IsValues(json.breadcrumbs) /\ ev.breadcrumbs = m.breadcrumbs
  BY <1>1, <1>2, <1>3, ListRead DEF BreadcrumbList
<1>7. IsValues(json.threads) /\ ev.threads = m.threads
  BY <1>1, <1>3, ThreadsRead DEF IsMeant
<1>8. IsTags(json.tags) /\ ev.tags = m.tags
  <2> DEFINE tags == m.tags
  <2>1. IsFiniteSet(DOMAIN tags) /\ tags = [key \in DOMAIN tags |-> tags[key]]
    BY DEF IsMeant
  <2>2. json.tags = TagsAs(form.tags, tags) /\ ev.tags = Tags(json.tags)
    BY <1>1, <1>3
  <2> HIDE DEF tags
  <2>3. IsTags(TagsAs(form.tags, tags)) /\ Tags(TagsAs(form.tags, tags)) = tags
    BY <1>2, <2>1, TagsRead
  <2>4. QED
    BY <2>2, <2>3 DEF tags
<1>9. IsTimestamp(json.timestamp) /\ ev.timestamp = [at |-> m.at, zone |-> 0]
  <2>1. m.at \in Int
    BY DEF IsMeant
  <2>2. CASE form.time = "number"
    <3> DEFINE v == json.timestamp
    <3>1. v = Number(m.at)
      BY <1>1, <2>2
    <3>2. v.json = "number" /\ v.number = m.at
      BY <3>1 DEF Number
    <3> HIDE DEF v
    <3>3. Timestamp(v) = [at |-> v.number, zone |-> 0]
      BY <3>2 DEF Timestamp
    <3>4. QED
      BY <1>3, <3>2, <3>3 DEF v, IsTimestamp
  <2>3. CASE form.time # "number"
    <3> DEFINE v == json.timestamp
    <3>1. v = RFC3339(m.at + form.offset, form.offset)
      BY <1>1, <2>3
    <3>2. /\ v.json = "string" /\ "local" \in DOMAIN v
          /\ v.local = m.at + form.offset /\ v.offset = form.offset
      BY <3>1 DEF RFC3339
    <3>3. v.local - v.offset = m.at
      BY <1>2, <2>1, <3>2
    <3> HIDE DEF v
    <3>4. Timestamp(v) = [at |-> v.local - v.offset, zone |-> 0]
      BY <3>2 DEF Timestamp
    <3>5. QED
      BY <1>3, <3>2, <3>3, <3>4 DEF v, IsTimestamp
  <2>4. QED
    BY <2>2, <2>3
<1>10. ev.level = IF m.level = "" THEN "error" ELSE m.level
  BY <1>1, <1>3
<1>11. Parsable(json)
  BY <1>4, <1>5, <1>6, <1>7, <1>8, <1>9 DEF Parsable
<1>12. AsMeant(ev, m)
  BY <1>4, <1>5, <1>7 DEF AsMeant
<1>13. ReadRight(ev, m)
  BY <1>6, <1>8, <1>9, <1>10, <1>12 DEF ReadRight
<1>14. QED
  BY <1>11, <1>13 DEF json, ev

-------------------------------------------------------------------------------
(* An event in an issue is what was sent, and has the issue's fingerprint. *)
StoredAsSent ==
  \A fp \in DOMAIN issues : \A o \in issues[fp].events :
    /\ Fingerprint(o.event) = fp
    /\ \E sent \in Sent : o = Occurrence(sent)

(* An issue is titled by one of its events. *)
TitledByMember ==
  \A fp \in DOMAIN issues : \E o \in issues[fp].events : issues[fp].title = Title(o.event)

OnlyBrokenSkipped == skipped \subseteq Broken

GroupingInv == StoredAsSent /\ TitledByMember /\ OnlyBrokenSkipped

LEMMA OccurrenceFacts ==
  ASSUME NEW sent \in Sent
  PROVE  /\ Occurrence(sent).meant = sent.meant /\ IsMeant(sent.meant)
         /\ Parsable(Written(sent.meant, sent.form))
         /\ ReadRight(Occurrence(sent).event, sent.meant)
<1>1. IsMeant(sent.meant) /\ sent.form \in Forms
  BY SentAssumption
<1> DEFINE o == Occurrence(sent)
<1>2. o.meant = sent.meant /\ o.event = ParseEvent(Written(sent.meant, sent.form))
  BY DEF Occurrence
<1> HIDE DEF o
<1>3. /\ Parsable(Written(sent.meant, sent.form))
      /\ ReadRight(ParseEvent(Written(sent.meant, sent.form)), sent.meant)
  BY <1>1, ParsedAsMeant
<1>4. QED
  BY <1>1, <1>2, <1>3 DEF o

(* Every step keeps what is said of the issues. *)
LEMMA GroupingStep ==
  ASSUME GroupingInv, [Next]_vars
  PROVE  GroupingInv'
<1>1. ASSUME NEW sent \in Sent, Receive(sent)
      PROVE  GroupingInv'
  <2> DEFINE new == Occurrence(sent)
             f == Fingerprint(new.event)
             issue == IF f \in DOMAIN issues
                      THEN [issues[f] EXCEPT !.events = @ \cup {new}] ELSE NewIssue(new)
  <2>1. issues' = Put(issues, f, issue) /\ UNCHANGED skipped
    BY <1>1 DEF Receive
  <2>2. /\ DOMAIN issues' = DOMAIN issues \cup {f}
        /\ issues'[f] = issue
        /\ \A fp \in DOMAIN issues : fp # f => issues'[fp] = issues[fp]
    <3> HIDE DEF f, issue
    <3> QED
      BY <2>1 DEF Put
  <2>3. /\ \A o \in issue.events : o = new \/ (f \in DOMAIN issues /\ o \in issues[f].events)
        /\ \/ issue.title = Title(new.event) /\ new \in issue.events
           \/ /\ f \in DOMAIN issues /\ issue.title = issues[f].title
              /\ \A o \in issues[f].events : o \in issue.events
    <3>1. CASE f \in DOMAIN issues
      BY <3>1
    <3>2. CASE f \notin DOMAIN issues
      <4>1. issue.title = Title(new.event) /\ issue.events = {new}
        BY <3>2 DEF NewIssue
      <4> HIDE DEF new, issue
      <4>2. QED
        BY <4>1
    <3>3. QED
      BY <3>1, <3>2
  <2>4. Fingerprint(new.event) = f /\ \E s \in Sent : new = Occurrence(s)
    OBVIOUS
  <2> HIDE DEF new, f, issue
  <2>5. StoredAsSent'
    <3> SUFFICES ASSUME NEW fp \in DOMAIN issues', NEW o \in issues'[fp].events
                 PROVE  Fingerprint(o.event) = fp /\ \E s \in Sent : o = Occurrence(s)
      BY DEF StoredAsSent
    <3>1. CASE fp = f /\ o = new
      BY <2>4, <3>1
    <3>2. CASE fp = f /\ o # new
      <4>1. f \in DOMAIN issues /\ o \in issues[f].events
        BY <2>2, <2>3, <3>2
      <4>2. QED
        BY <3>2, <4>1 DEF GroupingInv, StoredAsSent
    <3>3. CASE fp # f
      <4>1. fp \in DOMAIN issues /\ o \in issues[fp].events
        BY <2>2, <3>3
      <4>2. QED
        BY <4>1 DEF GroupingInv, StoredAsSent
    <3>4. QED
      BY <3>1, <3>2, <3>3
  <2>6. TitledByMember'
    <3> SUFFICES ASSUME NEW fp \in DOMAIN issues'
                 PROVE  \E o \in issues'[fp].events : issues'[fp].title = Title(o.event)
      BY DEF TitledByMember
    <3>1. CASE fp = f
      <4>1. CASE issue.title = Title(new.event) /\ new \in issue.events
        BY <2>2, <3>1, <4>1
      <4>2. CASE /\ f \in DOMAIN issues /\ issue.title = issues[f].title
                 /\ \A o \in issues[f].events : o \in issue.events
        <5>1. PICK o \in issues[f].events : issues[f].title = Title(o.event)
          BY <4>2 DEF GroupingInv, TitledByMember
        <5>2. QED
          BY <2>2, <3>1, <4>2, <5>1
      <4>3. QED
        BY <2>3, <4>1, <4>2
    <3>2. CASE fp # f
      <4>1. fp \in DOMAIN issues /\ issues'[fp] = issues[fp]
        BY <2>2, <3>2
      <4>2. QED
        BY <4>1 DEF GroupingInv, TitledByMember
    <3>3. QED
      BY <3>1, <3>2
  <2>7. QED
    BY <2>1, <2>5, <2>6 DEF GroupingInv, OnlyBrokenSkipped
<1>2. ASSUME NEW json, Skip(json), json \in Broken
      PROVE  GroupingInv'
  <2>1. issues' = issues /\ skipped' = skipped \cup {json}
    BY <1>2 DEF Skip
  <2>2. QED
    BY <1>2, <2>1 DEF GroupingInv, StoredAsSent, TitledByMember, OnlyBrokenSkipped
<1>3. ASSUME NEW sent \in Sent, Skip(Written(sent.meant, sent.form))
      PROVE  FALSE
  BY <1>3, OccurrenceFacts DEF Skip
<1>4. CASE UNCHANGED vars
  BY <1>4 DEF vars, GroupingInv, StoredAsSent, TitledByMember, OnlyBrokenSkipped
<1>5. QED
  BY <1>1, <1>2, <1>3, <1>4 DEF Next

(* Receive and Skip put every event where its fingerprint says, as it was sent. *)
THEOREM GroupedRight == Spec => []GroupingInv
<1>1. Init => GroupingInv
  BY DEF Init, GroupingInv, StoredAsSent, TitledByMember, OnlyBrokenSkipped
<1>2. GroupingInv /\ [Next]_vars => GroupingInv'
  BY GroupingStep
<1>3. QED
  BY <1>1, <1>2, PTL DEF Spec

(* What an event in an issue meant gives it the fingerprint of the issue. *)
LEMMA MemberFacts ==
  ASSUME GroupingInv, NEW fp \in DOMAIN issues, NEW o \in issues[fp].events
  PROVE  /\ IsMeant(o.meant) /\ ReadRight(o.event, o.meant)
         /\ Join(Described(o.meant)) = fp
         /\ \E sent \in Sent : o.meant = sent.meant
<1>1. Fingerprint(o.event) = fp
  BY DEF GroupingInv, StoredAsSent
<1>2. PICK sent \in Sent : o = Occurrence(sent)
  BY DEF GroupingInv, StoredAsSent
<1>3. o.meant = sent.meant /\ IsMeant(o.meant) /\ ReadRight(o.event, o.meant)
  BY <1>2, OccurrenceFacts
<1>4. Fingerprint(o.event) = Join(Described(o.meant))
  BY <1>3, ComponentsDescribe DEF ReadRight
<1>5. QED
  BY <1>1, <1>3, <1>4

(* An event is stored as its SDK meant it, in whichever form it was written, *)
(* and none is skipped for its form: ParseEvent's UnmarshalJSON methods.     *)
THEOREM ReadAsMeant == Spec => []FormsAgree
<1>1. GroupingInv => FormsAgree
  <2> SUFFICES ASSUME GroupingInv
               PROVE  FormsAgree
    OBVIOUS
  <2>1. skipped \subseteq Broken
    BY DEF GroupingInv, OnlyBrokenSkipped
  <2>2. ASSUME NEW o \in Grouped
        PROVE  ReadRight(o.event, o.meant)
    <3>1. PICK fp \in DOMAIN issues : o \in issues[fp].events
      BY DEF Grouped
    <3>2. QED
      BY <3>1, MemberFacts
  <2>3. QED
    BY <2>1, <2>2 DEF FormsAgree, ReadRight, AsMeant
<1>2. QED
  BY <1>1, GroupedRight, PTL

(* Two events are in one issue exactly if they are about the same bug: what  *)
(* Fingerprint puts together says neither more nor less, whatever the number *)
(* of frames, of threads and of exceptions.                                  *)
THEOREM SameIssueIffAlike == Spec => []GroupedIffAlike
<1>1. GroupingInv => GroupedIffAlike
  <2> SUFFICES ASSUME GroupingInv, NEW fp \in DOMAIN issues, NEW gp \in DOMAIN issues,
                      NEW o \in issues[fp].events, NEW p \in issues[gp].events
               PROVE  (fp = gp) <=> Alike(o.meant, p.meant)
    BY DEF GroupedIffAlike
  <2>1. IsMeant(o.meant) /\ Join(Described(o.meant)) = fp
    BY MemberFacts
  <2>2. IsMeant(p.meant) /\ Join(Described(p.meant)) = gp
    BY MemberFacts
  <2>3. Join(Described(o.meant)) = Join(Described(p.meant)) <=> Alike(o.meant, p.meant)
    BY <2>1, <2>2, DescribedIffAlike
  <2>4. QED
    BY <2>1, <2>2, <2>3
<1>2. QED
  BY <1>1, GroupedRight, PTL

(* An exception that is sent says its type, its value or both.  Title passes *)
(* over one that says neither, and Fingerprint does not.                     *)
ExceptionsNamed ==
  \A sent \in Sent : sent.meant.exceptions # << >> =>
    Outermost(sent.meant).type # "" \/ Outermost(sent.meant).value # ""

(* The title an issue has from its first event names what its events were    *)
(* grouped on, the type of their outermost exception or their message.       *)
THEOREM TitleOfGroup ==
  ASSUME ExceptionsNamed
  PROVE  Spec => []TitleDescribesGroup
<1>1. GroupingInv => TitleDescribesGroup
  <2> SUFFICES ASSUME GroupingInv, NEW fp \in DOMAIN issues, NEW o \in issues[fp].events
               PROVE  IF o.meant.exceptions # << >>
                      THEN issues[fp].title[1] = Outermost(o.meant).type
                      ELSE issues[fp].title =
                             <<IF o.meant.text = "" THEN "(no message)" ELSE o.meant.text>>
    BY DEF TitleDescribesGroup
  <2>1. PICK p \in issues[fp].events : issues[fp].title = Title(p.event)
    BY DEF GroupingInv, TitledByMember
  <2>2. /\ IsMeant(p.meant) /\ ReadRight(p.event, p.meant)
        /\ Join(Described(p.meant)) = fp
        /\ \E sent \in Sent : p.meant = sent.meant
    BY MemberFacts
  <2>3. IsMeant(o.meant) /\ Join(Described(o.meant)) = fp
    BY MemberFacts
  <2>4. Alike(o.meant, p.meant)
    BY <2>2, <2>3, DescribedIffAlike
  <2>5. CASE p.meant.exceptions # << >>
    <3>1. p.event.exception # << >> /\ primary(p.event) = Outermost(p.meant)
      BY <2>2, <2>5 DEF ReadRight, AsMeant, primary, Outermost, Last
    <3>2. Outermost(p.meant).type # "" \/ Outermost(p.meant).value # ""
      BY <2>2, <2>5 DEF ExceptionsNamed
    <3>3. Title(p.event)[1] = Outermost(p.meant).type
      BY <3>1, <3>2 DEF Title
    <3>4. o.meant.exceptions # << >> /\ Outermost(o.meant).type = Outermost(p.meant).type
      BY <2>4, <2>5 DEF Alike
    <3>5. QED
      BY <2>1, <3>3, <3>4
  <2>6. CASE p.meant.exceptions = << >>
    <3>1. p.event.exception = << >> /\ MessageText(p.event.message) = p.meant.text
      BY <2>2, <2>6 DEF ReadRight, AsMeant
    <3>2. Title(p.event) = <<IF p.meant.text = "" THEN "(no message)" ELSE p.meant.text>>
      BY <3>1 DEF Title
    <3>3. o.meant.exceptions = << >> /\ o.meant.text = p.meant.text
      BY <2>4, <2>6 DEF Alike
    <3>4. QED
      BY <2>1, <3>2, <3>3
  <2>7. QED
    BY <2>5, <2>6
<1>2. QED
  BY <1>1, GroupedRight, PTL

===============================================================================
