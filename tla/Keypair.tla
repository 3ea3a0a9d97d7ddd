------------------------------- MODULE Keypair -------------------------------
(***************************************************************************)
(* internal/keypair/keypair.go: the relay's static key, resolved by every  *)
(* process that needs it. serve, pubkey and address go through Resolve,    *)
(* genkey through Generate and Load; any number of them run at once on the *)
(* same directory and die at any point.                                    *)
(*                                                                         *)
(* A generated key is named by the process that drew it. Files are the     *)
(* kernel's: link(2) is atomic and fails if the name exists; what was not  *)
(* synced, and a directory entry not yet written back, may be gone after a *)
(* power loss. File names and modes are left out.                          *)
(***************************************************************************)
EXTENDS Naturals

CONSTANTS Starts,                \* processes, each started at most once
          Missing, Broken, Operators, FromEnv,  \* no file; a file that is no key;
                                 \* the operator's own key, in the file or the environment
          MaxLosses              \* bound: power losses

NamesDiffer ==
    /\ {Missing, Broken, Operators, FromEnv} \cap Starts = {}
    /\ Missing \notin {Broken, Operators, FromEnv}
    /\ Broken \notin {Operators, FromEnv} /\ Operators # FromEnv
    /\ MaxLosses \in Nat
ASSUME KeypairAssumption == NamesDiffer

VARIABLES
    keyfile,            \* contents of the file at path
    onDisk,             \* its directory entry survives a power loss
    synced,             \* processes whose temporary file was synced
    temp,               \* each process's temporary file
    stage, command,     \* where each process is, what it was started as
    kp, generated, why, \* the key it uses, the flag it reports, its error
    losses,             \* power losses so far
    given, lost         \* history: what the operator left at path; keys whose file
                        \* a power loss took

files == <<keyfile, onDisk, synced>>
process == <<stage, command, kp, generated, why>>
history == <<given, lost>>
keyVars == <<files, temp, process, losses, history>>

Key == Starts \cup {Operators}
Running == {"load", "temp", "write", "sync", "close", "link", "remove", "reload"}
Ended == {"done", "failed", "killed"}
None == "none"

KeyTypeOK ==
    /\ keyfile \in Key \cup {Missing, Broken} /\ onDisk \in BOOLEAN
    /\ synced \subseteq Starts
    /\ temp \in [Starts -> {"absent", "partial", "whole"}]
    /\ stage \in [Starts -> {"new"} \cup Running \cup Ended]
    /\ command \in [Starts -> {None, "resolve", "genkey"}]
    /\ kp \in [Starts -> Key \cup {FromEnv, None}] /\ generated \in [Starts -> BOOLEAN]
    /\ why \in [Starts -> {None, "env", "io", "corrupt", "missing", "exists"}]
    /\ losses \in 0 .. MaxLosses
    /\ given \in {Missing, Broken, Operators} /\ lost \subseteq Starts

KeyInit ==
    /\ given \in {Missing, Broken, Operators} /\ keyfile = given
    /\ onDisk = TRUE /\ synced = {} /\ losses = 0 /\ lost = {}
    /\ temp = [p \in Starts |-> "absent"] /\ stage = [p \in Starts |-> "new"]
    /\ command = [p \in Starts |-> None] /\ kp = [p \in Starts |-> None]
    /\ generated = [p \in Starts |-> FALSE] /\ why = [p \in Starts |-> None]

Goto(p, s) == stage' = [stage EXCEPT ![p] = s]
Fail(p, error) == Goto(p, "failed") /\ why' = [why EXCEPT ![p] = error]
Use(p, key) == Goto(p, "done") /\ kp' = [kp EXCEPT ![p] = key]

-----------------------------------------------------------------------------
(* Starts: Resolve, or Generate for genkey.                                *)

\* TRUESEAL_RELAY_KEYPAIR_HEX wins over the file and never writes it.
ResolveEnv(p) ==
    /\ stage[p] = "new"
    /\ command' = [command EXCEPT ![p] = "resolve"]
    /\ \/ Use(p, FromEnv) /\ UNCHANGED why
       \/ Fail(p, "env") /\ UNCHANGED kp
    /\ UNCHANGED <<files, temp, generated, losses, history>>

Resolve(p) ==
    /\ stage[p] = "new"
    /\ command' = [command EXCEPT ![p] = "resolve"] /\ Goto(p, "load")
    /\ UNCHANGED <<files, temp, kp, generated, why, losses, history>>

Genkey(p) ==
    /\ stage[p] = "new"
    /\ command' = [command EXCEPT ![p] = "genkey"] /\ Goto(p, "temp")
    /\ UNCHANGED <<files, temp, kp, generated, why, losses, history>>

-----------------------------------------------------------------------------
(* Load, and LoadOrGenerate around it.                                     *)

\* The second Load, after Generate, is in the stage reload. Mutant: a process
\* that generated a key goes on with it without looking at the file again.
Bug_Load(p) ==
    /\ stage[p] \in {"load", "reload"}
    /\ keyfile \in Key \/ stage[p] = "reload"
    /\ Use(p, IF stage[p] = "reload" THEN p ELSE keyfile)
    /\ UNCHANGED <<files, temp, command, generated, why, losses, history>>
Load(p) ==
    /\ stage[p] \in {"load", "reload"} /\ keyfile \in Key
    /\ Use(p, keyfile)
    /\ UNCHANGED <<files, temp, command, generated, why, losses, history>>

\* Only fs.ErrNotExist of the first Load leads to Generate.
LoadMissing(p) ==
    /\ stage[p] = "load" /\ keyfile = Missing
    /\ Goto(p, "temp")
    /\ UNCHANGED <<files, temp, command, kp, generated, why, losses, history>>

LoadFails(p) ==
    /\ stage[p] \in {"load", "reload"}
    /\ \/ Fail(p, "io")
       \/ keyfile = Broken /\ Fail(p, "corrupt")
       \/ keyfile = Missing /\ stage[p] = "reload" /\ Fail(p, "missing")
    /\ UNCHANGED <<files, temp, command, kp, generated, losses, history>>

-----------------------------------------------------------------------------
(* Generate: temporary file, write, sync, close, link, deferred removal.   *)

\* A step of Generate fails: the deferred removal is still to come.
StepFails(p) ==
    /\ stage[p] \in {"write", "sync", "close", "link"}
    /\ Goto(p, "remove") /\ why' = [why EXCEPT ![p] = "io"]
    /\ UNCHANGED <<files, temp, command, kp, generated, losses, history>>

\* The random source, or the directory, fails first.
CreateTempFails(p) ==
    /\ stage[p] = "temp" /\ Fail(p, "io")
    /\ UNCHANGED <<files, temp, command, kp, generated, losses, history>>

CreateTemp(p) ==
    /\ stage[p] = "temp"
    /\ temp' = [temp EXCEPT ![p] = "partial"] /\ Goto(p, "write")
    /\ UNCHANGED <<files, command, kp, generated, why, losses, history>>

WriteString(p) ==
    /\ stage[p] = "write"
    /\ temp' = [temp EXCEPT ![p] = "whole"] /\ Goto(p, "sync")
    /\ UNCHANGED <<files, command, kp, generated, why, losses, history>>

\* Mutant: no fsync.
Bug_Sync(p) ==
    /\ stage[p] = "sync" /\ Goto(p, "close")
    /\ UNCHANGED <<files, temp, command, kp, generated, why, losses, history>>
Sync(p) ==
    /\ stage[p] = "sync"
    /\ synced' = synced \cup {p} /\ Goto(p, "close")
    /\ UNCHANGED <<keyfile, onDisk, temp, command, kp, generated, why, losses, history>>

Close(p) ==
    /\ stage[p] = "close" /\ Goto(p, "link")
    /\ UNCHANGED <<files, temp, command, kp, generated, why, losses, history>>

\* Mutant: rename(2), which replaces.
Bug_Link(p) ==
    /\ stage[p] = "link"
    /\ keyfile' = p /\ onDisk' = FALSE
    /\ generated' = [generated EXCEPT ![p] = TRUE]
    /\ Goto(p, "remove")
    /\ UNCHANGED <<synced, temp, command, kp, why, losses, history>>
Link(p) ==
    /\ stage[p] = "link" /\ keyfile = Missing
    /\ keyfile' = p /\ onDisk' = FALSE
    /\ generated' = [generated EXCEPT ![p] = TRUE]
    /\ Goto(p, "remove")
    /\ UNCHANGED <<synced, temp, command, kp, why, losses, history>>

\* ErrExists: another process won.
LinkExists(p) ==
    /\ stage[p] = "link" /\ keyfile # Missing
    /\ why' = [why EXCEPT ![p] = "exists"] /\ Goto(p, "remove")
    /\ UNCHANGED <<files, temp, command, kp, generated, losses, history>>

\* The deferred os.Remove, whose error is dropped; then Generate's result, which
\* LoadOrGenerate takes for nil when it is ErrExists and genkey does not.
Remove(p) ==
    /\ stage[p] = "remove"
    /\ \/ temp' = [temp EXCEPT ![p] = "absent"] \/ UNCHANGED temp
    /\ \/ why[p] = None /\ Goto(p, "reload") /\ UNCHANGED why
       \/ /\ why[p] = "exists" /\ command[p] = "resolve"
          /\ Goto(p, "reload") /\ why' = [why EXCEPT ![p] = None]
       \/ /\ why[p] = "io" \/ (why[p] = "exists" /\ command[p] = "genkey")
          /\ Goto(p, "failed") /\ UNCHANGED why
    /\ UNCHANGED <<files, command, kp, generated, losses, history>>

-----------------------------------------------------------------------------
(* The machine.                                                            *)

\* A process is killed: its files stay as they are.
Kill(p) ==
    /\ stage[p] \in Running /\ Goto(p, "killed")
    /\ UNCHANGED <<files, temp, command, kp, generated, why, losses, history>>

\* The kernel writes the directory back, in its own time.
WriteBack ==
    /\ ~onDisk /\ onDisk' = TRUE
    /\ UNCHANGED <<keyfile, synced, temp, process, losses, history>>

\* What the file holds after a power loss, if its name survives.
Survivor == IF keyfile \in Starts \ synced THEN Broken ELSE keyfile
PowerLoss ==
    /\ losses < MaxLosses /\ losses' = losses + 1
    /\ keyfile' \in {Survivor} \cup (IF onDisk THEN {} ELSE {Missing})
    /\ onDisk' = TRUE
    /\ lost' = IF keyfile' = Missing THEN lost \cup ({keyfile} \ {Missing}) ELSE lost
    /\ stage' = [p \in Starts |-> IF stage[p] \in Running THEN "killed" ELSE stage[p]]
    /\ UNCHANGED <<synced, temp, command, kp, generated, why, given>>

ProcessNext(p) ==
    \/ ResolveEnv(p) \/ Resolve(p) \/ Genkey(p)
    \/ Load(p) \/ LoadMissing(p) \/ LoadFails(p)
    \/ CreateTempFails(p) \/ CreateTemp(p) \/ WriteString(p) \/ Sync(p) \/ Close(p)
    \/ StepFails(p) \/ Link(p) \/ LinkExists(p) \/ Remove(p) \/ Kill(p)

KeyNext == (\E p \in Starts : ProcessNext(p)) \/ WriteBack \/ PowerLoss

KeySpec == KeyInit /\ [][KeyNext]_keyVars

-----------------------------------------------------------------------------
(* Properties.                                                             *)

\* The processes that took their key from the file, whatever their order, use
\* the key that is there: "the printed key is always the key the handshake
\* uses" (Resolve), the loser of two racing first starts loads the winner's, and
\* a process says that it generated the key exactly when it did. The one
\* exception is a power loss before the directory entry was written back:
\* Generate syncs the file and not its directory.
FromFile == {p \in Starts : stage[p] = "done" /\ kp[p] # FromEnv}
OneKey ==
    /\ KeyTypeOK
    /\ \A p \in FromFile : /\ kp[p] \in {keyfile} \cup lost
                           /\ generated[p] <=> kp[p] = p
                           /\ command[p] = "genkey" => generated[p]

\* A key file, and a broken one, is never replaced: it appears whole, where
\* there was none, and only a power loss before write-back takes it away.
KeepStep ==
    keyfile' # keyfile =>
        \/ keyfile = Missing /\ keyfile' \in Starts /\ temp[keyfile'] = "whole"
        \/ keyfile' = Missing /\ ~onDisk /\ losses' > losses
KeyFileKept == [][KeepStep]_keyVars

\* No crash, power loss or race wedges a later start: the file is unreadable as
\* a key only if the operator left it so, a Load after Generate finds the file,
\* and genkey is refused only over a file.
NoWedge ==
    /\ keyfile = Broken => given = Broken
    /\ \A p \in Starts : stage[p] = "failed" =>
        \/ why[p] \in {"io", "env"}
        \/ why[p] = "corrupt" /\ given = Broken
        \/ why[p] = "exists" /\ command[p] = "genkey" /\ (keyfile # Missing \/ lost # {})

-----------------------------------------------------------------------------
(* The inductive invariant behind the properties above.                    *)

\* A file that can be linked is whole and synced, so the linked one is; only a
\* linked file's entry is ever not written back.
WholeFile ==
    /\ \A p \in Starts :
        /\ stage[p] \in {"sync", "close", "link"} => temp[p] = "whole"
        /\ stage[p] \in {"close", "link"} => p \in synced
    /\ keyfile \in Starts => keyfile \in synced
    /\ ~onDisk => keyfile \in Starts
    /\ keyfile = Broken => given = Broken

\* The flag follows the file: generated is set for the key at path and for the
\* keys a power loss took, whose processes died with it.
Flag ==
    \A p \in Starts :
        /\ generated[p] <=> p = keyfile \/ p \in lost
        /\ generated[p] => stage[p] \in {"remove", "reload"} \cup Ended
        /\ p \in lost => stage[p] \notin Running

\* Where a process stands in Generate decides what it may report.
Progress ==
    \A p \in Starts :
        /\ stage[p] \in {"new"} \cup (Running \ {"remove"}) => why[p] = None
        /\ stage[p] = "load" => command[p] = "resolve"
        /\ stage[p] = "remove" => why[p] \in {None, "io", "exists"}
        /\ stage[p] = "remove" /\ why[p] = None => generated[p]
        /\ stage[p] = "remove" /\ why[p] = "exists" => keyfile # Missing
        /\ stage[p] = "reload" => keyfile # Missing
        /\ stage[p] = "reload" /\ command[p] = "genkey" => generated[p]
        /\ stage[p] = "done" => kp[p] \in Key \cup {FromEnv}

\* The invariant that OneKey, NoWedge and KeyFileKept rest on.
KeyInv == OneKey /\ NoWedge /\ WholeFile /\ Flag /\ Progress
=============================================================================
