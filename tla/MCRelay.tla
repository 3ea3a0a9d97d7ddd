------------------------------ MODULE MCRelay ------------------------------
(***************************************************************************)
(* Instances of Relay for TLC. alice is honest; mallory acks any id it     *)
(* likes. A message for alice, one whose prefix and envelope disagree and  *)
(* one whose body is too short to hold a key.                              *)
(***************************************************************************)
EXTENDS Relay, TLC

CONSTANTS alice, mallory, m1, swapped, short, s1, s2, p1, p2

mcPrefix == [m \in Msgs |-> IF m = short THEN NoKey ELSE alice]
mcEnvelope == [m \in Msgs |-> CASE m = short -> NoKey
                                [] m = swapped -> mallory
                                [] OTHER -> alice]
mcSize == [m \in Msgs |-> 1]

PushersAlike == Permutations(Pushers)
=============================================================================
