\* What the comment on Notify says, against the walk outside the mutex.
CONSTANTS
    c1 = c1
    c2 = c2
    c3 = c3
    n1 = n1
    n2 = n2
    Nil = Nil
    Chans = {c1, c2, c3}
    Notifiers = {n1}
SPECIFICATION Spec
SYMMETRY Alike
INVARIANT NotifyReachesAll
CHECK_DEADLOCK FALSE
