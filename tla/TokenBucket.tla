----------------------------- MODULE TokenBucket -----------------------------
(* The rate limiter of the remote endpoint: a bucket for each caller, credited  *)
(* when the caller comes, and evicted when it has been idle for long.           *)
EXTENDS Naturals

CONSTANTS
  Callers,
  CAPACITY, REFILL,  \* the burst, and the credit of a tick
  MAX_IDLE,          \* ticks after which an idle bucket is evicted
  MaxIdleSeen        \* bound: ticks a bucket's idle time is followed

ASSUME RatesAssumption == CAPACITY \in Nat /\ REFILL \in Nat /\ MAX_IDLE \in Nat

(* What an evicted bucket forgets: the defaults refill one in two seconds and   *)
(* evict it after ten minutes.                                                  *)
ASSUME EvictedFull == MAX_IDLE * REFILL >= CAPACITY

VARIABLES
  bucket,  \* each caller's credit as last counted, and the ticks since
  meter    \* history: what a caller used, less what it was credited since

tb_vars == <<bucket, meter>>
Fresh == [credit |-> CAPACITY, idle |-> 0]
TBInit == bucket = [c \in Callers |-> Fresh] /\ meter = [c \in Callers |-> 0]

Lowest(a, b) == IF a < b THEN a ELSE b
(* Mutant: idle time is credited without the limit of the burst.                *)
Unlimited(c) == bucket[c].credit + bucket[c].idle * REFILL
Credit(c) == Lowest(CAPACITY, bucket[c].credit + bucket[c].idle * REFILL)

(* Refused or not, a caller's bucket is credited up to now.                     *)
take(c) ==
  LET allowed == IF Credit(c) > 0 THEN 1 ELSE 0 IN
  /\ bucket' = [bucket EXCEPT ![c] = [credit |-> Credit(c) - allowed, idle |-> 0]]
  /\ meter' = [meter EXCEPT ![c] = @ + allowed]

Passes ==
  /\ \A c \in Callers : bucket[c].idle < MaxIdleSeen
  /\ bucket' = [c \in Callers |-> [bucket[c] EXCEPT !.idle = @ + 1]]
  /\ meter' = [c \in Callers |-> IF meter[c] > REFILL THEN meter[c] - REFILL ELSE 0]

sweep ==
  /\ \E c \in Callers : bucket[c].idle > MAX_IDLE
  /\ bucket' = [c \in Callers |-> IF bucket[c].idle > MAX_IDLE THEN Fresh ELSE bucket[c]]
  /\ UNCHANGED meter

TBNext == Passes \/ sweep \/ \E c \in Callers : take(c)
TBSpec == TBInit /\ [][TBNext]_tb_vars

------------------------------------------------------------------------------
(* Properties.                                                                  *)

(* In any stretch of time a caller makes no more requests than one burst and    *)
(* what it was credited in it, although credit is counted only when it comes,   *)
(* and forgotten when its bucket is evicted.                                    *)
RateHeld == \A c \in Callers : meter[c] <= CAPACITY

==============================================================================
