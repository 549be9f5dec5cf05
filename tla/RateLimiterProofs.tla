--------------------------- MODULE RateLimiterProofs ---------------------------
(***************************************************************************)
(* Proofs about the rate limiter, for every rate, burst of at least one    *)
(* token and number of clients: what it allows in any stretch of time is   *)
(* bounded from above and from below, and it implements TokenBucket.       *)
(*                                                                         *)
(* The argument is about Credit alone.  CreditAtTick and CreditAtAllow say *)
(* how each step moves it; in CreditAtAllow a sweep drops full buckets     *)
(* only, because a stale bucket has had the time to refill.                *)
(***************************************************************************)
EXTENDS RateLimiter, TLAPS

(* A token is worth having: Burst is at least one. *)
SomeBurst == Full >= Token

SeenInPast ==
  /\ \A c \in DOMAIN buckets : buckets[c].lastSeen <= now
  /\ window.since <= now

Elapsed == (now - window.since) * Rate

(* What was allowed, and what may still be: WindowBound made inductive. *)
WindowPaid ==
  \A c \in Clients : window.granted[c] * Token + Credit(c) <= Full + Elapsed

(* Credit not spent is there: PatientAllowed made inductive. *)
CreditKept ==
  \A c \in Clients : window.granted[c] = 0 => Credit(c) >= Least(Elapsed, Full)

IInv == TypeOK /\ SeenInPast /\ WindowPaid /\ CreditKept

-------------------------------------------------------------------------------
(* A burst of one token or more fills a bucket that a request can use. *)
LEMMA BurstWorth == Burst >= 1 => SomeBurst
  BY LimiterAssumption DEF SomeBurst, Full

(* The arithmetic of refilling. *)
LEMMA Refilling ==
  /\ Full \in Nat
  /\ \A x \in Int : x * Rate \in Int /\ (x + 1) * Rate = x * Rate + Rate
  /\ \A x \in Nat : x * Rate \in Nat
  /\ \A x, y \in Int : x <= y => x * Rate <= y * Rate
  /\ 0 * Rate = 0
<1>1. Full \in Nat
  BY LimiterAssumption DEF Full
<1>2. \A x \in Int : x * Rate \in Int /\ (x + 1) * Rate = x * Rate + Rate
  BY LimiterAssumption
<1>3. \A x \in Nat : x * Rate \in Nat
  BY LimiterAssumption
<1>4. \A x, y \in Int : x <= y => x * Rate <= y * Rate
  BY LimiterAssumption
<1>5. QED
  BY <1>1, <1>2, <1>3, <1>4, LimiterAssumption

(* What is in the map is a bucket that holds no debt. *)
LEMMA BucketType ==
  ASSUME TypeOK, SeenInPast, SomeBurst, NEW c \in DOMAIN buckets
  PROVE  /\ buckets[c].tokens \in 0 .. Full
         /\ buckets[c].lastSeen \in Nat
         /\ now - buckets[c].lastSeen \in Nat
<1>1. Least(0, Full - Token) = 0
  BY LimiterAssumption, Refilling DEF SomeBurst, Least
<1>2. buckets[c] \in [tokens : 0 .. Full, lastSeen : Nat]
  BY <1>1 DEF TypeOK, Bucket
<1>3. now \in Nat /\ buckets[c].lastSeen <= now
  BY DEF TypeOK, SeenInPast
<1>4. QED
  BY <1>2, <1>3

(* Credit is a number between nothing and a full bucket. *)
LEMMA CreditType ==
  ASSUME TypeOK, SeenInPast, SomeBurst, NEW c \in Clients
  PROVE  Credit(c) \in 0 .. Full
<1>1. CASE c \in DOMAIN buckets
  <2> DEFINE tokens == buckets[c].tokens
             due == (now - buckets[c].lastSeen) * Rate
  <2>1. tokens \in 0 .. Full /\ due \in Nat
    BY <1>1, BucketType, Refilling
  <2>2. Credit(c) = Least(tokens + due, Full)
    BY <1>1 DEF Credit, Refilled
  <2> HIDE DEF tokens, due
  <2>3. QED
    BY <2>1, <2>2, Refilling DEF Least
<1>2. CASE c \notin DOMAIN buckets
  BY <1>2, Refilling DEF Credit
<1>3. QED
  BY <1>1, <1>2

(* A request is allowed exactly when there is credit for it. *)
LEMMA AllowedByCredit ==
  ASSUME SomeBurst, NEW c \in Clients
  PROVE  Allowed(c) <=> Credit(c) >= Token
  BY DEF Allowed, Credit, SomeBurst

(* A tick brings every client Rate units, up to a full bucket. *)
LEMMA CreditAtTick ==
  ASSUME TypeOK, SeenInPast, SomeBurst, Tick, NEW c \in Clients
  PROVE  Credit(c)' = Least(Credit(c) + Rate, Full)
<1>1. now' = now + 1 /\ buckets' = buckets
  BY DEF Tick
<1>2. CASE c \in DOMAIN buckets
  <2> DEFINE tokens == buckets[c].tokens
             age == now - buckets[c].lastSeen
             due == age * Rate
             dueNext == (now' - buckets[c].lastSeen) * Rate
  <2>1. tokens \in Int /\ age \in Int /\ due \in Int
    BY <1>2, BucketType, Refilling
  <2>2. now' - buckets[c].lastSeen = age + 1
    BY <1>1, <1>2, BucketType DEF TypeOK
  <2>3. dueNext = due + Rate
    BY <2>1, <2>2, Refilling
  <2>4. Credit(c) = Least(tokens + due, Full)
    BY <1>2 DEF Credit, Refilled
  <2>5. Credit(c)' = Least(tokens + dueNext, Full)
    <3>1. Credit(c)' = Refilled(c)'
      BY <1>1, <1>2 DEF Credit
    <3>2. Refilled(c)' = Least(tokens + dueNext, Full)
      BY <1>1 DEF Refilled
    <3>3. QED
      BY <3>1, <3>2
  <2> HIDE DEF tokens, age, due, dueNext
  <2>6. QED
    BY <2>1, <2>3, <2>4, <2>5, LimiterAssumption, Refilling DEF Least
<1>3. CASE c \notin DOMAIN buckets
  <2>1. Credit(c) = Full /\ Credit(c)' = Full
    BY <1>1, <1>3 DEF Credit
  <2>2. QED
    BY <2>1, LimiterAssumption, Refilling DEF Least
<1>4. QED
  BY <1>2, <1>3

(* Storing a bucket gives its key that credit, and changes the credit only   *)
(* of the keys it does not keep.                                             *)
LEMMA PutCredit ==
  ASSUME TypeOK, SeenInPast, SomeBurst, NEW c \in Clients,
         NEW kept \in SUBSET DOMAIN buckets, NEW tokens \in 0 .. Full,
         Put(c, kept, tokens), now' = now
  PROVE  /\ DOMAIN buckets' = kept \cup {c}
         /\ buckets'[c] = [tokens |-> tokens, lastSeen |-> now]
         /\ \A d \in kept \ {c} : buckets'[d] = buckets[d]
         /\ Credit(c)' = tokens
         /\ \A d \in Clients \ {c} :
              d \in kept \/ d \notin DOMAIN buckets => Credit(d)' = Credit(d)
         /\ \A d \in Clients \ {c} :
              d \in DOMAIN buckets \ kept => Credit(d)' = Full
<1>1. /\ DOMAIN buckets' = kept \cup {c}
      /\ buckets'[c] = [tokens |-> tokens, lastSeen |-> now]
      /\ \A d \in kept \ {c} : buckets'[d] = buckets[d]
  BY DEF Put
<1>2. Credit(c)' = tokens
  <2>1. Credit(c)' = Refilled(c)'
    BY <1>1 DEF Credit
  <2>2. Refilled(c)' = Least(tokens + (now - now) * Rate, Full)
    BY <1>1 DEF Refilled
  <2>3. (now - now) * Rate = 0
    BY Refilling DEF TypeOK
  <2>4. QED
    BY <2>1, <2>2, <2>3, Refilling DEF Least
<1>3. ASSUME NEW d \in Clients \ {c}, d \in kept
      PROVE  Credit(d)' = Credit(d)
  <2>1. d \in DOMAIN buckets /\ d \in DOMAIN buckets' /\ buckets'[d] = buckets[d]
    BY <1>1, <1>3
  <2>2. Refilled(d)' = Refilled(d)
    BY <2>1 DEF Refilled
  <2>3. QED
    BY <2>1, <2>2 DEF Credit
<1>4. ASSUME NEW d \in Clients \ {c}, d \notin kept
      PROVE  Credit(d)' = Full
  BY <1>1, <1>4 DEF Credit
<1>5. ASSUME NEW d \in Clients \ {c}, d \notin DOMAIN buckets
      PROVE  Credit(d)' = Credit(d)
  BY <1>4, <1>5 DEF Credit
<1>6. QED
  BY <1>1, <1>2, <1>3, <1>4, <1>5

(* A bucket that goes stale has been refilled: to forget it changes nothing. *)
LEMMA SweptAreFull ==
  ASSUME TypeOK, SeenInPast, SomeBurst, NEW c \in Swept
  PROVE  c \in DOMAIN buckets /\ Credit(c) = Full
<1>1. c \in DOMAIN buckets /\ Stale(c)
  BY DEF Swept
<1> DEFINE tokens == buckets[c].tokens
           age == now - buckets[c].lastSeen
           due == age * Rate
<1>2. tokens \in 0 .. Full /\ age \in Nat /\ due \in Nat
  BY <1>1, BucketType, Refilling
<1>3. due >= Full
  <2>1. StaleAfter <= age
    BY <1>1, <1>2, LimiterAssumption DEF Stale
  <2>2. StaleAfter * Rate <= due
    BY <1>2, <2>1, Refilling, LimiterAssumption
  <2>3. QED
    BY <1>2, <2>2, Refilling, LimiterAssumption
<1>4. Credit(c) = Least(tokens + due, Full)
  BY <1>1 DEF Credit, Refilled
<1> HIDE DEF tokens, age, due
<1>5. QED
  BY <1>1, <1>2, <1>3, <1>4, Refilling DEF Least

(* A request takes a token from its client's credit if it is allowed, and    *)
(* touches nobody else's.                                                    *)
LEMMA CreditAtAllow ==
  ASSUME TypeOK, SeenInPast, SomeBurst, NEW c \in Clients,
         AllowNew(c) \/ AllowKnown(c)
  PROVE  /\ Credit(c)' = IF Allowed(c) THEN Credit(c) - Token ELSE Credit(c)
         /\ \A d \in Clients \ {c} : Credit(d)' = Credit(d)
         /\ TypeOK' /\ SeenInPast'
<1> DEFINE left == IF Allowed(c) THEN Credit(c) - Token ELSE Credit(c)
           kept == IF c \in DOMAIN buckets THEN DOMAIN buckets ELSE DOMAIN buckets \ Swept
<1>1. left \in 0 .. Full
  <2>1. Credit(c) \in 0 .. Full /\ Token \in Nat /\ Full \in Nat
    BY CreditType, LimiterAssumption, Refilling
  <2>2. Allowed(c) => Credit(c) >= Token
    BY AllowedByCredit
  <2>3. QED
    BY <2>1, <2>2
<1>2. Put(c, kept, left)
  <2>1. CASE AllowNew(c)
    BY <2>1 DEF AllowNew, Allowed, Credit
  <2>2. CASE AllowKnown(c)
    <3>1. c \in DOMAIN buckets /\ Credit(c) = Refilled(c)
      BY <2>2 DEF AllowKnown, Credit
    <3>2. Credit(c) \in 0 .. Full /\ Token \in Nat
      BY CreditType, LimiterAssumption
    <3>3. Refilled(c) < Token <=> ~ Allowed(c)
      BY <3>1, <3>2, Refilling DEF Allowed
    <3>4. QED
      BY <2>2, <3>1, <3>3 DEF AllowKnown
  <2>3. QED
    BY <2>1, <2>2
<1>3. now' = now /\ Answer(c) /\ kept \in SUBSET DOMAIN buckets
  BY DEF AllowNew, AllowKnown, Answer
<1> HIDE DEF left
<1>4. /\ DOMAIN buckets' = kept \cup {c}
      /\ buckets'[c] = [tokens |-> left, lastSeen |-> now]
      /\ \A d \in kept \ {c} : buckets'[d] = buckets[d]
      /\ Credit(c)' = left
      /\ \A d \in Clients \ {c} :
           d \in kept \/ d \notin DOMAIN buckets => Credit(d)' = Credit(d)
      /\ \A d \in Clients \ {c} :
           d \in DOMAIN buckets \ kept => Credit(d)' = Full
  BY <1>1, <1>2, <1>3, PutCredit
<1>5. \A d \in DOMAIN buckets \ kept : Credit(d) = Full
  BY SweptAreFull
<1> HIDE DEF kept
<1>6. \A d \in Clients \ {c} : Credit(d)' = Credit(d)
  BY <1>4, <1>5
<1>7. TypeOK'
  <2>1. DOMAIN buckets' \subseteq Clients
    BY <1>3, <1>4 DEF TypeOK
  <2>2. buckets'[c] \in Bucket
    <3>1. Least(0, Full - Token) = 0
      BY LimiterAssumption, Refilling DEF SomeBurst, Least
    <3>2. QED
      BY <1>1, <1>4, <3>1 DEF Bucket, TypeOK
  <2>3. \A d \in kept \ {c} : buckets'[d] \in Bucket
    BY <1>3, <1>4 DEF TypeOK
  <2>4. buckets' \in [DOMAIN buckets' -> Bucket]
    <3>1. buckets' = [d \in DOMAIN buckets' |-> buckets'[d]]
      BY <1>2 DEF Put
    <3>2. QED
      BY <1>4, <2>2, <2>3, <3>1
  <2>5. answer' \in Clients \X BOOLEAN
    BY <1>3 DEF Answer, Allowed
  <2>6. window' \in [since : Nat, granted : [Clients -> Nat]]
    <3>1. CASE window' = window
      BY <3>1 DEF TypeOK
    <3>2. CASE window' = [window EXCEPT !.granted[c] = @ + 1]
      <4>1. window.since \in Nat /\ window.granted \in [Clients -> Nat]
        BY DEF TypeOK
      <4>2. [window.granted EXCEPT ![c] = @ + 1] \in [Clients -> Nat]
        BY <4>1
      <4>3. window' = [window EXCEPT !.granted = [window.granted EXCEPT ![c] = @ + 1]]
        BY <3>2
      <4>4. QED
        BY <4>1, <4>2, <4>3, Zenon DEF TypeOK
    <3>3. QED
      BY <1>3, <3>1, <3>2 DEF Answer
  <2>7. QED
    BY <1>3, <2>1, <2>4, <2>5, <2>6 DEF TypeOK
<1>8. SeenInPast'
  <2>1. window'.since = window.since
    BY <1>3 DEF Answer, TypeOK
  <2>2. QED
    BY <1>3, <1>4, <2>1 DEF SeenInPast, TypeOK
<1>9. QED
  BY <1>4, <1>6, <1>7, <1>8 DEF left

-------------------------------------------------------------------------------
(* The arithmetic of counting tokens. *)
LEMMA Counting ==
  /\ Token \in Nat \ {0}
  /\ \A g \in Nat : g * Token \in Nat /\ (g + 1) * Token = g * Token + Token
  /\ 0 * Token = 0
  BY LimiterAssumption

(* The time watched brings a whole number of units. *)
LEMMA ElapsedType == TypeOK /\ SeenInPast => Elapsed \in Nat
<1>1. TypeOK /\ SeenInPast => now - window.since \in Nat
  BY DEF TypeOK, SeenInPast
<1>2. QED
  BY <1>1, Refilling DEF Elapsed

(* An empty map of a limiter just made satisfies the invariant. *)
LEMMA InitIInv == Init => IInv
<1> SUFFICES ASSUME Init
             PROVE  IInv
  OBVIOUS
<1>1. TypeOK
  BY DEF Init, TypeOK
<1>2. SeenInPast
  BY DEF Init, SeenInPast
<1>3. \A c \in Clients : Credit(c) = Full /\ window.granted[c] = 0
  BY DEF Init, Credit
<1>4. Elapsed = 0
  <2>1. now - window.since = 0
    BY DEF Init
  <2>2. QED
    BY <2>1, Refilling DEF Elapsed
<1>5. WindowPaid
  BY <1>3, <1>4, Counting, Refilling DEF WindowPaid
<1>6. CreditKept
  BY <1>3, <1>4, Refilling DEF CreditKept, Least
<1>7. QED
  BY <1>1, <1>2, <1>5, <1>6 DEF IInv

(* A request preserves it: what is allowed is paid for. *)
LEMMA AllowStep ==
  ASSUME IInv, SomeBurst, NEW c \in Clients, AllowNew(c) \/ AllowKnown(c)
  PROVE  IInv'
<1>1. TypeOK /\ SeenInPast /\ WindowPaid /\ CreditKept
  BY DEF IInv
<1>2. /\ Credit(c)' = IF Allowed(c) THEN Credit(c) - Token ELSE Credit(c)
      /\ \A d \in Clients \ {c} : Credit(d)' = Credit(d)
      /\ TypeOK' /\ SeenInPast'
  BY <1>1, CreditAtAllow
<1>3. Answer(c)
  BY DEF AllowNew, AllowKnown
<1>4. /\ window'.since = window.since
      /\ window'.granted[c] = IF Allowed(c) THEN window.granted[c] + 1
                                            ELSE window.granted[c]
      /\ \A d \in Clients \ {c} : window'.granted[d] = window.granted[d]
  BY <1>1, <1>3 DEF Answer, TypeOK
<1>5. Elapsed' = Elapsed
  BY <1>3, <1>4 DEF Elapsed, Answer
<1>6. \A d \in Clients : window.granted[d] \in Nat /\ Credit(d) \in 0 .. Full
  BY <1>1, CreditType DEF TypeOK
<1>7. WindowPaid'
  <2> SUFFICES ASSUME NEW d \in Clients
               PROVE  window'.granted[d] * Token + Credit(d)' <= Full + Elapsed
    BY <1>5 DEF WindowPaid, Full
  <2>1. window.granted[d] * Token + Credit(d) <= Full + Elapsed
    BY <1>1 DEF WindowPaid
  <2>2. CASE d = c /\ Allowed(c)
    <3>1. window'.granted[d] * Token = window.granted[d] * Token + Token
      BY <1>4, <1>6, <2>2, Counting
    <3>2. Credit(d)' = Credit(d) - Token
      BY <1>2, <2>2
    <3>3. /\ window.granted[d] * Token \in Nat /\ Token \in Nat
          /\ Credit(d) \in Nat /\ Full \in Nat /\ Elapsed \in Nat
      <4>1. Elapsed \in Nat /\ Full \in Nat
        BY <1>1, Refilling, ElapsedType
      <4>2. window.granted[d] \in Nat /\ Credit(d) \in Nat
        BY <1>6, <4>1
      <4>3. window.granted[d] * Token \in Nat /\ Token \in Nat
        BY <4>2, Counting
      <4>4. QED
        BY <4>1, <4>2, <4>3
    <3>4. window.granted[d] * Token + Token + (Credit(d) - Token) <= Full + Elapsed
      <4> DEFINE paid == window.granted[d] * Token
      <4> HIDE DEF paid
      <4>1. paid \in Nat /\ paid + Credit(d) <= Full + Elapsed
        BY <2>1, <3>3 DEF paid
      <4>2. paid + Token + (Credit(d) - Token) <= Full + Elapsed
        BY <3>3, <4>1
      <4>3. QED
        BY <4>2 DEF paid
    <3>5. QED
      BY <3>1, <3>2, <3>4
  <2>3. CASE d # c \/ ~ Allowed(c)
    <3>1. window'.granted[d] = window.granted[d] /\ Credit(d)' = Credit(d)
      BY <1>2, <1>4, <2>3
    <3>2. QED
      BY <2>1, <3>1
  <2>4. QED
    BY <2>2, <2>3
<1>8. CreditKept'
  <2> SUFFICES ASSUME NEW d \in Clients, window'.granted[d] = 0
               PROVE  Credit(d)' >= Least(Elapsed, Full)
    BY <1>5 DEF CreditKept, Least, Full
  <2>1. window.granted[d] = 0 /\ Credit(d)' = Credit(d)
    BY <1>2, <1>4, <1>6
  <2>2. QED
    BY <1>1, <2>1 DEF CreditKept
<1>9. QED
  BY <1>2, <1>7, <1>8 DEF IInv

(* A tick brings as much as the bound grows. *)
LEMMA TickStep ==
  ASSUME IInv, SomeBurst, Tick
  PROVE  IInv'
<1>1. TypeOK /\ SeenInPast /\ WindowPaid /\ CreditKept
  BY DEF IInv
<1>2. TypeOK' /\ SeenInPast'
  <2>1. now \in Nat /\ now' = now + 1 /\ UNCHANGED <<buckets, answer, window>>
    BY <1>1 DEF Tick, TypeOK
  <2>2. window.since \in Nat /\ \A c \in DOMAIN buckets : buckets[c].lastSeen \in Nat
    BY <1>1, BucketType DEF TypeOK
  <2>3. TypeOK'
    BY <1>1, <2>1 DEF TypeOK, Bucket, Least, Full
  <2>4. SeenInPast'
    BY <1>1, <2>1, <2>2 DEF SeenInPast
  <2>5. QED
    BY <2>3, <2>4
<1>3. window' = window
  BY DEF Tick
<1>4. Elapsed' = Elapsed + Rate
  <2>1. now' - window'.since = (now - window.since) + 1 /\ now - window.since \in Int
    BY <1>1 DEF Tick, TypeOK
  <2>2. QED
    BY <2>1, Refilling DEF Elapsed
<1>5. \A d \in Clients : /\ Credit(d)' = Least(Credit(d) + Rate, Full)
                         /\ Credit(d) \in 0 .. Full
  BY <1>1, CreditAtTick, CreditType
<1>6. Elapsed \in Nat /\ Full \in Nat /\ Rate \in Nat
  BY <1>1, ElapsedType, Refilling, LimiterAssumption
<1>7. WindowPaid'
  <2> SUFFICES ASSUME NEW d \in Clients
               PROVE  window.granted[d] * Token + Credit(d)' <= Full + (Elapsed + Rate)
    BY <1>3, <1>4 DEF WindowPaid, Full
  <2>1. window.granted[d] * Token + Credit(d) <= Full + Elapsed
    BY <1>1 DEF WindowPaid
  <2>2. Credit(d)' <= Credit(d) + Rate /\ Credit(d)' \in Nat
    BY <1>5, <1>6 DEF Least
  <2>3. window.granted[d] * Token \in Nat
    BY <1>1, Counting DEF TypeOK
  <2>4. QED
    BY <1>5, <1>6, <2>1, <2>2, <2>3
<1>8. CreditKept'
  <2> SUFFICES ASSUME NEW d \in Clients, window.granted[d] = 0
               PROVE  Credit(d)' >= Least(Elapsed + Rate, Full)
    BY <1>3, <1>4 DEF CreditKept, Least, Full
  <2>1. Credit(d) >= Least(Elapsed, Full)
    BY <1>1 DEF CreditKept
  <2>2. QED
    BY <1>5, <1>6, <2>1 DEF Least
<1>9. QED
  BY <1>2, <1>7, <1>8 DEF IInv

(* An observer may start at any time: a bucket never holds more than a burst. *)
LEMMA WatchStep ==
  ASSUME IInv, SomeBurst, Watch
  PROVE  IInv'
<1>1. TypeOK /\ SeenInPast /\ WindowPaid /\ CreditKept
  BY DEF IInv
<1>2. TypeOK' /\ SeenInPast'
  BY <1>1 DEF Watch, TypeOK, SeenInPast
<1>3. \A d \in Clients : window'.granted[d] = 0
  BY DEF Watch
<1>4. Elapsed' = 0
  <2>1. now' - window'.since = 0
    BY <1>1 DEF Watch, TypeOK
  <2>2. QED
    BY <2>1, Refilling DEF Elapsed
<1>5. \A d \in Clients : Credit(d)' = Credit(d) /\ Credit(d) \in 0 .. Full
  BY <1>1, CreditType DEF Watch, Credit, Refilled
<1>6. WindowPaid'
  BY <1>3, <1>4, <1>5, Counting, Refilling DEF WindowPaid, Full
<1>7. CreditKept'
  BY <1>4, <1>5, Refilling DEF CreditKept, Least, Full
<1>8. QED
  BY <1>2, <1>6, <1>7 DEF IInv

(* Every step of the limiter preserves the invariant. *)
LEMMA NextIInv == SomeBurst /\ IInv /\ [Next]_vars => IInv'
<1> SUFFICES ASSUME SomeBurst, IInv, [Next]_vars
             PROVE  IInv'
  OBVIOUS
<1>1. ASSUME NEW c \in Clients, AllowNew(c) \/ AllowKnown(c)
      PROVE  IInv'
  BY <1>1, AllowStep
<1>2. CASE Tick
  BY <1>2, TickStep
<1>3. CASE Watch
  BY <1>3, WatchStep
<1>4. CASE UNCHANGED vars
  BY <1>4 DEF vars, IInv, TypeOK, SeenInPast, WindowPaid, CreditKept, Credit,
              Refilled, Elapsed, Bucket, Least, Full
<1>5. QED
  BY <1>1, <1>2, <1>3, <1>4 DEF Next

(* So it holds of every state the limiter reaches. *)
LEMMA IInvHolds == SomeBurst => (Spec => []IInv)
<1> SUFFICES ASSUME SomeBurst
             PROVE  Spec => []IInv
  OBVIOUS
<1>1. IInv /\ [Next]_vars => IInv'
  BY NextIInv
<1>2. QED
  BY <1>1, InitIInv, PTL DEF Spec

-------------------------------------------------------------------------------
(* TypeOK, for every limiter whose burst is at least one token: no bucket of *)
(* the map holds more than a burst, and none is in debt.                     *)
THEOREM TypeCorrect == Burst >= 1 => (Spec => []TypeOK)
<1>1. IInv => TypeOK
  BY DEF IInv
<1>2. QED
  BY <1>1, BurstWorth, IInvHolds, PTL

(* WindowBound: in no stretch of time is a client allowed more requests than *)
(* a burst and what Rate brings, sweeps or no sweeps.                        *)
THEOREM NeverTooMany == Burst >= 1 => (Spec => []WindowBound)
<1> SUFFICES ASSUME SomeBurst
             PROVE  Spec => []WindowBound
  BY BurstWorth
<1>1. IInv => WindowBound
  <2> SUFFICES ASSUME IInv, NEW c \in Clients
               PROVE  window.granted[c] * Token <= Full + Elapsed
    BY DEF WindowBound, Elapsed
  <2>1. window.granted[c] * Token + Credit(c) <= Full + Elapsed
    BY DEF IInv, WindowPaid
  <2>2. Credit(c) \in Nat /\ Full \in Nat /\ Elapsed \in Nat
    BY CreditType, Refilling, ElapsedType DEF IInv
  <2>3. window.granted[c] * Token \in Nat
    <3>1. window.granted[c] \in Nat
      BY DEF IInv, TypeOK
    <3>2. QED
      BY <3>1, Counting
  <2> DEFINE paid == window.granted[c] * Token
  <2> HIDE DEF paid
  <2>4. paid \in Nat /\ paid + Credit(c) <= Full + Elapsed
    BY <2>1, <2>3 DEF paid
  <2>5. paid <= Full + Elapsed
    BY <2>2, <2>4
  <2>6. QED
    BY <2>5 DEF paid
<1>2. QED
  BY <1>1, IInvHolds, PTL

(* PatientAllowed: a client that was allowed nothing for as long as a token  *)
(* takes may make a request, however often it was refused meanwhile.         *)
THEOREM PatienceRewarded == Burst >= 1 => (Spec => []PatientAllowed)
<1> SUFFICES ASSUME SomeBurst
             PROVE  Spec => []PatientAllowed
  BY BurstWorth
<1>1. IInv => PatientAllowed
  <2> SUFFICES ASSUME IInv, NEW c \in Clients,
                      window.granted[c] = 0, Elapsed >= Token
               PROVE  Allowed(c)
    BY DEF PatientAllowed, Elapsed
  <2>1. Credit(c) >= Least(Elapsed, Full)
    BY DEF IInv, CreditKept
  <2>2. Least(Elapsed, Full) >= Token
    BY DEF Least, SomeBurst
  <2>3. Credit(c) \in Nat /\ Full \in Nat /\ Elapsed \in Nat /\ Token \in Nat
    BY CreditType, Refilling, ElapsedType, LimiterAssumption DEF IInv
  <2>4. QED
    BY <2>1, <2>2, <2>3, AllowedByCredit DEF Least
<1>2. QED
  BY <1>1, IInvHolds, PTL

creditMap == [c \in Clients |-> Credit(c)]

(* KeepsPromise: the limiter implements TokenBucket.  A request is a Grant   *)
(* or a Refuse, a tick is a Refill, and watching shows nowhere.              *)
THEOREM PromiseKept == Burst >= 1 => (Spec => KeepsPromise)
<1> SUFFICES ASSUME SomeBurst
             PROVE  Spec => KeepsPromise
  BY BurstWorth
<1>1. Init => Promise!Init
  BY DEF Init, Promise!Init, Credit
<1>2. ASSUME IInv, [Next]_vars
      PROVE  [Promise!Next]_<<creditMap, answer>>
  <2>1. TypeOK /\ SeenInPast
    BY <1>2 DEF IInv
  <2>2. ASSUME NEW c \in Clients, AllowNew(c) \/ AllowKnown(c)
        PROVE  Promise!Grant(c) \/ Promise!Refuse(c)
    <3>1. /\ Credit(c)' = IF Allowed(c) THEN Credit(c) - Token ELSE Credit(c)
          /\ \A d \in Clients \ {c} : Credit(d)' = Credit(d)
      BY <1>2, <2>1, <2>2, CreditAtAllow
    <3>2. answer' = <<c, Allowed(c)>>
      BY <2>2 DEF AllowNew, AllowKnown, Answer
    <3>3. CASE Allowed(c)
      <4>1. Credit(c) >= Token
        BY <1>2, <3>3, AllowedByCredit
      <4>2. creditMap' = [creditMap EXCEPT ![c] = @ - Token]
        BY <3>1, <3>3 DEF creditMap
      <4>3. answer' = <<c, TRUE>>
        BY <3>2, <3>3, Zenon DEF Allowed
      <4>4. QED
        BY <4>1, <4>2, <4>3 DEF Promise!Grant, creditMap
    <3>4. CASE ~ Allowed(c)
      <4>1. Credit(c) < Token
        BY <1>2, <2>1, <3>4, AllowedByCredit, CreditType, LimiterAssumption, Refilling
      <4>2. creditMap' = creditMap
        BY <3>1, <3>4 DEF creditMap
      <4>3. answer' = <<c, FALSE>>
        BY <3>2, <3>4, Zenon DEF Allowed
      <4>4. QED
        BY <4>1, <4>2, <4>3 DEF Promise!Refuse, creditMap
    <3>5. QED
      BY <3>3, <3>4
  <2>3. CASE Tick
    <3>1. \A c \in Clients : Credit(c)' = Least(Credit(c) + Rate, Full)
      BY <1>2, <2>1, <2>3, CreditAtTick
    <3>2. creditMap' = [c \in Clients |-> Promise!Least(creditMap[c] + Rate, Full)]
      BY <3>1 DEF creditMap, Least, Promise!Least
    <3>3. QED
      BY <2>3, <3>2 DEF Tick, Promise!Refill, Promise!Next, creditMap
  <2>4. CASE Watch
    BY <2>4 DEF Watch, creditMap, Credit, Refilled
  <2>5. CASE UNCHANGED vars
    BY <2>5 DEF vars, creditMap, Credit, Refilled
  <2>6. QED
    BY <1>2, <2>2, <2>3, <2>4, <2>5 DEF Next, Promise!Next
<1>3. QED
  BY <1>1, <1>2, IInvHolds, PTL DEF Spec, KeepsPromise, Promise!Spec, creditMap
===============================================================================
