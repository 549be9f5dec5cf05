------------------------------ MODULE RateLimiter ------------------------------
(***************************************************************************)
(* Limiter of internal/ratelimit: a bucket per key in a map, filled when   *)
(* the key is next seen, made when it is first seen, and dropped by a sweep*)
(* once the map is large and the key was not seen for a while.  Allow holds*)
(* the mutex throughout and reads the clock under it: it is one step.      *)
(*                                                                         *)
(* A token is Token units and a tick of the clock brings Rate units, so    *)
(* that rates below one token per tick are whole numbers, too; the         *)
(* rounding of float64 is left out.                                        *)
(***************************************************************************)
EXTENDS Integers, FiniteSets

CONSTANTS
  Clients,       \* the keys: client addresses
  Token,
  Rate,
  Burst,         \* tokens a bucket can hold
  StaleAfter,    \* staleAfter
  SweepAtSize,   \* sweepAtSize
  MaxTime        \* bound: the clock stops here

Full == Burst * Token

(* serve's two limiters refill within seconds, and sweep after ten minutes. *)
ASSUME LimiterAssumption ==
  /\ Token \in Nat \ {0} /\ Rate \in Nat /\ Burst \in Nat
  /\ StaleAfter \in Nat /\ SweepAtSize \in Nat /\ MaxTime \in Nat
  /\ StaleAfter * Rate >= Full

VARIABLES
  now,       \* the clock
  buckets,   \* key -> its bucket, for the keys in the map
  answer,    \* what the last request was told
  window     \* history: since when, and how often each client was allowed

vars == <<now, buckets, answer, window>>

Least(m, n) == IF m < n THEN m ELSE n

(* With Burst = 0 a bucket starts a whole token in debt. *)
Bucket == [tokens : Least(0, Full - Token) .. Full, lastSeen : Nat]

-------------------------------------------------------------------------------
(* Operators named ...Slip are near misses of the definition they precede.  *)
(* No specification uses them: put in its place, each breaks a property.    *)

(* sweepLocked *)
StaleSlip(c) == now - buckets[c].lastSeen <= StaleAfter    \* the wrong way round

Stale(c) == now - buckets[c].lastSeen > StaleAfter

Swept ==
  IF Cardinality(DOMAIN buckets) < SweepAtSize THEN {}
  ELSE {c \in DOMAIN buckets : Stale(c)}

RefilledSlip(c) == buckets[c].tokens + (now - buckets[c].lastSeen) * Rate    \* no cap

Refilled(c) == Least(buckets[c].tokens + (now - buckets[c].lastSeen) * Rate, Full)

Allowed(c) == c \notin DOMAIN buckets \/ Refilled(c) >= Token

Put(c, kept, tokens) ==
  buckets' = [d \in kept \cup {c} |->
                IF d = c THEN [tokens |-> tokens, lastSeen |-> now] ELSE buckets[d]]

Answer(c) ==
  /\ answer' = <<c, Allowed(c)>>
  /\ window' = IF Allowed(c) THEN [window EXCEPT !.granted[c] = @ + 1] ELSE window
  /\ UNCHANGED now

(* A request of a key that is not in the map is allowed. *)
AllowNew(c) ==
  /\ c \notin DOMAIN buckets
  /\ Put(c, DOMAIN buckets \ Swept, Full - Token)
  /\ Answer(c)

AllowKnownTimeSlip(c) ==    \* a refusal stores the refilled bucket, not the time
  /\ c \in DOMAIN buckets
  /\ IF Refilled(c) < Token
     THEN buckets' = [buckets EXCEPT ![c].tokens = Refilled(c)]
     ELSE Put(c, DOMAIN buckets, Refilled(c) - Token)
  /\ Answer(c)

AllowKnownTokensSlip(c) ==    \* a refusal stores the time, not the refilled bucket
  /\ c \in DOMAIN buckets
  /\ IF Refilled(c) < Token
     THEN buckets' = [buckets EXCEPT ![c].lastSeen = now]
     ELSE Put(c, DOMAIN buckets, Refilled(c) - Token)
  /\ Answer(c)

(* A refused request, too, stores the refilled bucket and the time. *)
AllowKnown(c) ==
  /\ c \in DOMAIN buckets
  /\ Put(c, DOMAIN buckets, IF Refilled(c) < Token THEN Refilled(c) ELSE Refilled(c) - Token)
  /\ Answer(c)

Tick ==
  /\ now < MaxTime
  /\ now' = now + 1
  /\ UNCHANGED <<buckets, answer, window>>

(* An observer starts to count, at any time. *)
Watch ==
  /\ window' = [since |-> now, granted |-> [c \in Clients |-> 0]]
  /\ UNCHANGED <<now, buckets, answer>>

Init ==
  /\ now = 0
  /\ buckets = [c \in {} |-> 0]
  /\ answer = << >>
  /\ window = [since |-> 0, granted |-> [c \in Clients |-> 0]]

Next ==
  \/ \E c \in Clients : AllowNew(c) \/ AllowKnown(c)
  \/ Tick
  \/ Watch

Spec == Init /\ [][Next]_vars

-------------------------------------------------------------------------------
TypeOK ==
  /\ now \in Nat
  /\ DOMAIN buckets \subseteq Clients
  /\ buckets \in [DOMAIN buckets -> Bucket]
  /\ answer \in {<< >>} \cup (Clients \X BOOLEAN)
  /\ window \in [since : Nat, granted : [Clients -> Nat]]

(* The limiter's very purpose, "permitting `rate` requests per second per    *)
(* key, with bursts up to `burst` requests": whenever one starts to count, a *)
(* client is allowed no more requests than a burst and what the time brings. *)
WindowBound ==
  \A c \in Clients :
    window.granted[c] * Token <= Full + (now - window.since) * Rate

(* And no less: a client whose requests were not allowed for the time a      *)
(* token takes may make one now.                                             *)
PatientAllowed ==
  \A c \in Clients :
    window.granted[c] = 0 /\ (now - window.since) * Rate >= Token => Allowed(c)

(* A key has the credit its bucket would have if it were filled at every     *)
(* tick; a key without a bucket, a full one.                                 *)
Credit(c) == IF c \in DOMAIN buckets THEN Refilled(c) ELSE Full

Promise == INSTANCE TokenBucket WITH credit <- [c \in Clients |-> Credit(c)]

(* Filling late, making buckets late and sweeping them away cannot be told   *)
(* from a bucket per client that is always there.                            *)
KeepsPromise == Promise!Spec
===============================================================================
