---------------------------- MODULE TokenBucket ----------------------------
(***************************************************************************)
(* What the per-recipient push limit promises (ADR-0012: sustained rate    *)
(* plus burst): one bucket for every Inbox, never forgotten. Tokens are    *)
(* counted in units, Unit of them to a push, so that a rate need not be a  *)
(* whole number of pushes per tick.                                        *)
(***************************************************************************)
EXTENDS Integers

CONSTANTS Keys, Unit, Rate, Burst

VARIABLES level,   \* tokens in each bucket now
          spent,   \* tokens given out so far
          earned,  \* tokens a bucket without a bound would have gained
          answer   \* the last push's recipient and whether it was let in

tvars == <<level, spent, earned, answer>>

AtMost(n, m) == IF n <= m THEN n ELSE m

TInit ==
    /\ level = [k \in Keys |-> Burst]
    /\ spent = [k \in Keys |-> 0] /\ earned = 0
    /\ answer = <<>>

Grant(k) ==
    /\ level[k] >= Unit
    /\ level' = [level EXCEPT ![k] = @ - Unit]
    /\ spent' = [spent EXCEPT ![k] = @ + Unit]
    /\ answer' = <<k, "allowed">>
    /\ UNCHANGED earned

Deny(k) ==
    /\ level[k] < Unit
    /\ answer' = <<k, "refused">>
    /\ UNCHANGED <<level, spent, earned>>

Refill ==
    /\ level' = [k \in Keys |-> AtMost(level[k] + Rate, Burst)]
    /\ earned' = earned + Rate
    /\ UNCHANGED <<spent, answer>>

TNext == (\E k \in Keys : Grant(k) \/ Deny(k)) \/ Refill

TSpec == TInit /\ [][TNext]_tvars
=============================================================================
