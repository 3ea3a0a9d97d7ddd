------------------------------ MODULE Mailbox -------------------------------
(***************************************************************************)
(* What a relay promises to pushers and devices, without sessions,         *)
(* notifications, channels or crashes: every accepted Blob stays in the    *)
(* mailbox of the device its envelope names until that device has it and   *)
(* says so, or until it expires (ADR-0003, ADR-0009).                      *)
(***************************************************************************)
EXTENDS Integers

CONSTANTS Devices,
          Honest,     \* the devices that ack only what they were sent
          Msgs,
          Addressee,  \* the device an envelope names
          NoKey       \* no device

VARIABLES
    mail,      \* Blobs waiting
    accepted,  \* Blobs ever taken in
    promised,  \* messages acked to their pusher
    got,       \* per device, the Blobs that reached it
    clock

vars == <<mail, accepted, promised, got, clock>>

Init ==
    /\ mail = {} /\ accepted = {} /\ promised = {} /\ clock = 0
    /\ got = [d \in Devices |-> {}]

\* A Blob is taken in for the device its envelope names, with an id above all
\* the ids ever given: arrival order is id order, and no ack of an old Blob can
\* be taken for an ack of this one.
Accept ==
    /\ \E b \in accepted' \ accepted :
        /\ accepted' = accepted \cup {b} /\ mail' = mail \cup {b}
        /\ b.rcpt \in Devices /\ b.rcpt = Addressee[b.msg]
        /\ b.exp >= clock
        /\ \A a \in accepted : a.id < b.id
    /\ UNCHANGED <<promised, got, clock>>

\* Only what was taken in is acked to its pusher.
Promise ==
    /\ \E b \in accepted : promised' = promised \cup {b.msg}
    /\ UNCHANGED <<mail, accepted, got, clock>>

\* A device gets Blobs of its own mailbox only, each any number of times.
Hand ==
    /\ \E d \in Devices : \E b \in accepted :
        b.rcpt = d /\ got' = [got EXCEPT ![d] = @ \cup {b}]
    /\ UNCHANGED <<mail, accepted, promised, clock>>

\* A Blob leaves by its owner's ack - an honest owner has it by then - or when
\* its time is over; many at once only in the second case.
Drop ==
    /\ \/ \E b \in mail : /\ b.rcpt \in Honest => b \in got[b.rcpt]
                          /\ mail' = mail \ {b}
       \/ mail' = {b \in mail : b.exp > clock}
    /\ UNCHANGED <<accepted, promised, got, clock>>

Tick == clock' = clock + 1 /\ UNCHANGED <<mail, accepted, promised, got>>

Next == Accept \/ Promise \/ Hand \/ Drop \/ Tick

Spec == Init /\ [][Next]_vars
=============================================================================
