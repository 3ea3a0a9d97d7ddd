------------------------ MODULE MCInProcessNotifier ------------------------
(* Three subscriptions: enough for a removal to shift a live subscriber    *)
(* under a walk, and for an append after a removal to reuse a slot.        *)
EXTENDS InProcessNotifier, TLC

CONSTANTS c1, c2, c3, n1, n2

Alike == Permutations({c1, c2, c3}) \cup Permutations(Notifiers)
=============================================================================
