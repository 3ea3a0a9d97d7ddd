---------------------------- MODULE RateLimiter ----------------------------
(***************************************************************************)
(* rateLimiter of internal/relay/limits.go: token buckets in a map that is *)
(* swept of idle buckets when it outgrows a soft cap. The mutex makes      *)
(* allow one step. time is l.now(), monotonic; float tokens are units.     *)
(***************************************************************************)
EXTENDS Integers, FiniteSets

CONSTANTS Keys, Unit, Rate, Burst,
          SoftCap,   \* rateLimitSoftCap
          IdleTTL,   \* bucketIdleTTL
          MaxTime    \* bound of the model

ASSUME LimiterAssumption ==
    /\ Unit \in Nat \ {0} /\ Rate \in Nat /\ Burst \in Nat
    /\ SoftCap \in Nat /\ IdleTTL \in Nat /\ MaxTime \in Nat
    /\ ~(Rate = 0 /\ Burst = 0)   \* the limiter is enabled

VARIABLES present,  \* the keys of l.buckets
          tokens, last,
          time, spent, answer

limiterVars == <<present, tokens, last, time, spent, answer>>

LimiterTypeOK ==
    /\ present \subseteq Keys
    /\ tokens \in [Keys -> 0 .. Burst]
    /\ last \in [Keys -> Nat] /\ time \in Nat
    /\ \A k \in Keys : last[k] <= time
    /\ spent \in [Keys -> Nat]

LimiterInit ==
    /\ present = {}
    /\ tokens = [k \in Keys |-> Burst] /\ last = [k \in Keys |-> 0]
    /\ time = 0 /\ spent = [k \in Keys |-> 0] /\ answer = <<>>

AtMost(n, m) == IF n <= m THEN n ELSE m

\* The bucket's content once topped up.
Filled(k) == AtMost(tokens[k] + Rate * (time - last[k]), Burst)

\* What the sweep leaves. Mutant: idle buckets go whatever the map's size,
\* after no idle time at all.
Bug_Swept == {k \in present : last[k] >= time}
Swept == IF Cardinality(present) > SoftCap
         THEN {k \in present : last[k] >= time - IdleTTL}
         ELSE present

\* The tokens a push to k finds: a fresh bucket is full.
Found(k) == IF k \in Swept THEN Filled(k) ELSE Burst

\* Mutant: a bucket that is almost empty lets one push in.
Bug_Allow(k) ==
    LET ok == Found(k) > 0
        left == IF Found(k) >= Unit THEN Found(k) - Unit ELSE 0
    IN  /\ present' = Swept \cup {k}
        /\ tokens' = [tokens EXCEPT ![k] = IF ok THEN left ELSE Found(k)]
        /\ last' = [last EXCEPT ![k] = time]
        /\ spent' = [spent EXCEPT ![k] = IF ok THEN @ + Unit ELSE @]
        /\ answer' = <<k, IF ok THEN "allowed" ELSE "refused">>
        /\ UNCHANGED time
Allow(k) ==
    LET ok == Found(k) >= Unit
    IN  /\ present' = Swept \cup {k}
        /\ tokens' = [tokens EXCEPT ![k] = IF ok THEN Found(k) - Unit ELSE Found(k)]
        /\ last' = [last EXCEPT ![k] = time]
        /\ spent' = [spent EXCEPT ![k] = IF ok THEN @ + Unit ELSE @]
        /\ answer' = <<k, IF ok THEN "allowed" ELSE "refused">>
        /\ UNCHANGED time

Tick ==
    /\ time < MaxTime
    /\ time' = time + 1
    /\ UNCHANGED <<present, tokens, last, spent, answer>>

LimiterNext == (\E k \in Keys : Allow(k)) \/ Tick

LimiterSpec == LimiterInit /\ [][LimiterNext]_limiterVars

-----------------------------------------------------------------------------
(* The limiter implements TokenBucket.                                     *)

Level == [k \in Keys |-> IF k \in present THEN Filled(k) ELSE Burst]

Bucket == INSTANCE TokenBucket WITH level <- Level, earned <- Rate * time

\* Every answer the limiter gives is the one a limiter that never forgets a
\* bucket would give, as long as an idle bucket is full again after IdleTTL,
\* which the comment on bucketIdleTTL takes for granted.
ForgettingIsInvisible == Bucket!TSpec

\* No Inbox gets more pushes than burst plus rate times the time passed,
\* sweeps included.
PushBound == \A k \in Keys : spent[k] <= Burst + Rate * time
=============================================================================
