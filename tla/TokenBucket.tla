------------------------------ MODULE TokenBucket ------------------------------
(***************************************************************************)
(* What a rate limiter promises each client, as if every client there can  *)
(* be had a bucket of its own that is full to begin with and filled a      *)
(* little at every tick of the clock: a request is allowed exactly when    *)
(* there is a whole token for it, and takes it.                            *)
(***************************************************************************)
EXTENDS Integers

CONSTANTS
  Clients,
  Token,    \* what a request costs
  Rate,     \* what a tick brings
  Full      \* what a bucket holds

VARIABLES
  credit,   \* the content of each client's bucket
  answer    \* what the last request was told: <<client, allowed>>

Least(m, n) == IF m < n THEN m ELSE n

Init ==
  /\ credit = [c \in Clients |-> Full]
  /\ answer = << >>

Grant(c) ==
  /\ credit[c] >= Token
  /\ credit' = [credit EXCEPT ![c] = @ - Token]
  /\ answer' = <<c, TRUE>>

Refuse(c) ==
  /\ credit[c] < Token
  /\ answer' = <<c, FALSE>>
  /\ UNCHANGED credit

Refill ==
  /\ credit' = [c \in Clients |-> Least(credit[c] + Rate, Full)]
  /\ UNCHANGED answer

Next == (\E c \in Clients : Grant(c) \/ Refuse(c)) \/ Refill

Spec == Init /\ [][Next]_<<credit, answer>>
===============================================================================
