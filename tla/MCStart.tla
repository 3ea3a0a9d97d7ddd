------------------------------ MODULE MCStart ------------------------------
(* What starting processes do with the two files they share. The store and *)
(* the key touch nothing of each other, so a behaviour runs one of them    *)
(* and leaves the other at rest.                                           *)
(* Store: releases 1, 2 and 3; release 2 migrates from 1; release 3 has    *)
(* its chain complete, or without its last step; ordinary, flagged by      *)
(* mistake, and declared Store Reset releases with and without the         *)
(* operator's flag. Key: three processes started as anything, at any time, *)
(* and one power loss.                                                     *)
EXTENDS StoreVersion, Keypair, TLC

R(t, chain, declared, requested) ==
    [target |-> t, chain |-> chain, declared |-> declared, requested |-> requested]
mcReleases ==
    { R(1, {}, FALSE, FALSE), R(2, {1}, FALSE, FALSE), R(3, {1, 2}, FALSE, FALSE),
      R(3, {1}, FALSE, FALSE), R(2, {1}, FALSE, TRUE), R(2, {1}, TRUE, FALSE),
      R(2, {1}, TRUE, TRUE), R(3, {}, TRUE, TRUE) }
Alike == Permutations(Starts)

VARIABLE part   \* the file this behaviour is about
startVars == <<part, vars, keyVars>>

StoreAtRest == file = NoFile /\ rel = R(1, {}, FALSE, FALSE)
KeyAtRest == given = Missing
StartInit ==
    /\ Init /\ KeyInit
    /\ \/ part = "store" /\ KeyAtRest
       \/ part = "key" /\ StoreAtRest
StartNext ==
    \/ part = "store" /\ Next /\ UNCHANGED <<part, keyVars>>
    \/ part = "key" /\ KeyNext /\ UNCHANGED <<part, vars>>
StartSpec == StartInit /\ [][StartNext]_startVars
=============================================================================
