---------------------------- MODULE StoreVersion ----------------------------
(***************************************************************************)
(* The versioned open of internal/store/sqlite/version.go: probe, decide,  *)
(* then create, adopt, migrate or reset in one transaction. One relay      *)
(* process at a time opens the file; it may crash between any two          *)
(* statements, be stopped, and be replaced by another release.             *)
(*                                                                         *)
(* A table's columns are named by the Store Version they belong to:        *)
(* NoTable, v for the schema of version v, Odd for any other.              *)
(***************************************************************************)
EXTENDS Integers, Sequences

CONSTANTS
    Releases,  \* [target, chain, declared, requested] of a start
    MaxVersion,
    MaxRows, MaxStarts   \* bounds: ids given, starts of the relay

NoTable == 0
Odd == -1
\* Statements of a transaction; v is the migration step from v to v + 1.
Drop == -1
Schema == -2
Stamp == -3
Release == [target : 1 .. MaxVersion, chain : SUBSET (1 .. MaxVersion),
            declared : BOOLEAN, requested : BOOLEAN]

ASSUME VersionAssumption ==
    /\ MaxVersion \in Nat /\ MaxRows \in Nat /\ MaxStarts \in Nat
    /\ Releases \subseteq Release

VARIABLES
    file,    \* the database file as committed
    proc,    \* the process: off, decide, write, open, refused
    rel,     \* the release it runs
    todo,    \* statements left in the transaction
    tx,      \* the file as the transaction sees it
    starts   \* how often a process started

vars == <<file, proc, rel, todo, tx, starts>>

File == [exists : BOOLEAN, version : 0 .. MaxVersion,
         table : {NoTable, Odd} \cup (1 .. MaxVersion),
         rows : 0 .. MaxRows, seq : 0 .. MaxRows,  \* seq: AUTOINCREMENT's counter
         wal : BOOLEAN]
NoFile == [exists |-> FALSE, version |-> 0, table |-> NoTable, rows |-> 0,
           seq |-> 0, wal |-> FALSE]

TypeOK ==
    /\ file \in File /\ tx \in File
    /\ proc \in {"off", "decide", "write", "open", "refused"}
    /\ rel \in Releases
    /\ todo \in Seq({Drop, Schema, Stamp} \cup (1 .. MaxVersion))
    /\ starts \in 0 .. MaxStarts

\* No file, an empty one, a store older than versioning (of today's shape or of
\* another), or one some release stamped.
Init ==
    /\ file \in {f \in File :
                   /\ ~f.exists => f = NoFile
                   /\ f.table = NoTable => f.seq = 0
                   /\ f.rows <= f.seq
                   /\ f.version > 0 => f.table = f.version}
    /\ proc = "off" /\ rel \in Releases /\ todo = <<>> /\ tx = NoFile
    /\ starts = 0

Start(r) ==
    /\ proc = "off" /\ starts < MaxStarts
    /\ proc' = "decide" /\ rel' = r /\ starts' = starts + 1
    /\ UNCHANGED <<file, todo, tx>>

-----------------------------------------------------------------------------
(* openStore decides on what probe read through a read-only connection.    *)

Target == rel.target
SchemaMatches == file.table = Target

FlagNotDeclared == rel.requested /\ ~rel.declared
Resets == file.exists /\ rel.declared /\ rel.requested
\* Mutant: the operator's reset wins over the version.
Bug_TooNew == file.exists /\ file.version > Target /\ ~Resets
TooNew == file.exists /\ file.version > Target
Fresh == ~file.exists \/ (file.version = 0 /\ file.table = NoTable)
Older == file.version \in 1 .. (Target - 1)

\* migrateForward finds its whole path before it opens the file. Mutant: only
\* the first step is looked up.
Bug_HasPath == file.version \in rel.chain
HasPath == (file.version .. (Target - 1)) \subseteq rel.chain

\* The errors of openStore: ResetNotDeclaredError, TooNewError, and, when no
\* reset was asked for, UnmigratableError.
Refused ==
    \/ FlagNotDeclared \/ TooNew
    \/ /\ ~Resets /\ ~Fresh
       /\ (file.version = 0 /\ ~SchemaMatches) \/ (Older /\ ~HasPath)

Refuse ==
    /\ proc = "decide" /\ Refused
    /\ proc' = "refused"
    /\ UNCHANGED <<file, rel, todo, tx, starts>>

\* openRW creates the file if need be and sets WAL mode, outside the
\* transaction, which then begins.
Begin(statements, reset) ==
    /\ proc = "decide" /\ ~Refused /\ (Resets <=> reset)
    /\ file' = [file EXCEPT !.exists = TRUE, !.wal = TRUE]
    /\ tx' = file' /\ todo' = statements
    /\ proc' = "write"
    /\ UNCHANGED <<rel, starts>>

ResetStore == Begin(<<Drop, Schema, Stamp>>, TRUE)
CreateFresh == Fresh /\ Begin(<<Schema, Stamp>>, FALSE)
AdoptUnversioned == file.version = 0 /\ SchemaMatches /\ Begin(<<Stamp>>, FALSE)
OpenCurrent == file.version = Target /\ Begin(<<Schema>>, FALSE)
MigrateForward ==
    /\ Older
    /\ LET steps == [i \in 1 .. (Target - file.version) |-> file.version + i - 1]
       IN  Begin(Append(steps, Stamp), FALSE)

-----------------------------------------------------------------------------
(* The transaction.                                                        *)

Applied(t, op) ==
    CASE op = Drop -> [t EXCEPT !.table = NoTable, !.rows = 0, !.seq = 0]
      [] op = Schema -> [t EXCEPT !.table = IF @ = NoTable THEN Target ELSE @]
      [] op = Stamp -> [t EXCEPT !.version = Target]
      [] op > 0 -> [t EXCEPT !.table = op + 1]

\* Mutant: every statement commits by itself.
Bug_Execute ==
    /\ proc = "write" /\ todo # <<>>
    /\ tx' = Applied(tx, Head(todo)) /\ file' = tx' /\ todo' = Tail(todo)
    /\ UNCHANGED <<proc, rel, starts>>
Execute ==
    /\ proc = "write" /\ todo # <<>>
    /\ tx' = Applied(tx, Head(todo)) /\ todo' = Tail(todo)
    /\ UNCHANGED <<file, proc, rel, starts>>

Commit ==
    /\ proc = "write" /\ todo = <<>>
    /\ file' = tx /\ tx' = NoFile /\ proc' = "open"
    /\ UNCHANGED <<rel, todo, starts>>

\* An error in openRW or in the transaction rolls back and ends the process; so
\* do a crash and a stop.
Stop ==
    /\ proc # "off"
    /\ proc' = "off" /\ tx' = NoFile /\ todo' = <<>>
    /\ UNCHANGED <<file, rel, starts>>

\* The relay runs on the store: a Blob gets the next id, an ack or the Reaper
\* takes one away.
Put ==
    /\ proc = "open" /\ file.seq < MaxRows
    /\ file' = [file EXCEPT !.rows = @ + 1, !.seq = @ + 1]
    /\ UNCHANGED <<proc, rel, todo, tx, starts>>

Delete ==
    /\ proc = "open" /\ file.rows > 0
    /\ file' = [file EXCEPT !.rows = @ - 1]
    /\ UNCHANGED <<proc, rel, todo, tx, starts>>

Next ==
    \/ \E r \in Releases : Start(r)
    \/ Refuse \/ ResetStore \/ CreateFresh \/ AdoptUnversioned \/ OpenCurrent
    \/ MigrateForward \/ Execute \/ Commit \/ Stop
    \/ Put \/ Delete

Spec == Init /\ [][Next]_vars

-----------------------------------------------------------------------------
(* Properties.                                                             *)

\* Version and schema commit or roll back together: no crash, failed step or
\* change of release leaves a version that is not that of the table, and a store
\* is open only at the version of the release that opened it, whichever path of
\* openStore led there.
VersionNamesSchema ==
    /\ TypeOK
    /\ file.version > 0 => file.table = file.version
    /\ proc = "open" => file.version = Target

\* An open drops Blobs only as a declared Store Reset release started with the
\* flag, and never from a store a newer release wrote (ADR-0013). Nothing else
\* takes the id counter back, even with the Inbox empty, so that an ack from
\* before a restart, an upgrade or a crash cannot name a Blob from after it.
SurviveStep ==
    file'.seq < file.seq \/ (file'.rows < file.rows /\ proc # "open") =>
        rel.declared /\ rel.requested /\ file.version <= Target
RowsSurvive == [][SurviveStep]_vars

\* A migration step only ever runs on the schema it was written for, and only
\* steps this binary has are run: an interrupted chain starts again at its
\* beginning, on the old store.
MigrationsFit ==
    proc = "write" /\ todo # <<>> /\ Head(todo) > 0 =>
        Head(todo) = tx.table /\ Head(todo) \in rel.chain

-----------------------------------------------------------------------------
(* The inductive invariant behind the properties above.                    *)

\* A chain of migration steps from the table's schema up to the target, all of
\* which this binary has, with the new version stamped at its end.
Migrating ==
    /\ tx.table \in 1 .. Target /\ (tx.table .. (Target - 1)) \subseteq rel.chain
    /\ Len(todo) = Target - tx.table + 1
    /\ \A i \in 1 .. Len(todo) :
            todo[i] = IF i = Len(todo) THEN Stamp ELSE tx.table + i - 1

\* What is left of the transaction brings version and table to the target
\* together, and only a Store Reset touches the rows.
Pending ==
    /\ \/ todo = <<Drop, Schema, Stamp>> /\ rel.declared /\ rel.requested
       \/ todo = <<Schema, Stamp>> /\ tx.table = NoTable
       \/ todo \in {<<Schema>>, <<>>} /\ tx.version = Target /\ tx.table = Target
       \/ Migrating
    /\ (tx.seq = file.seq /\ tx.rows = file.rows) \/ (rel.declared /\ rel.requested)
    /\ tx.exists /\ tx.rows <= tx.seq /\ file.version <= Target

\* The invariant that the three properties rest on.
StoreInv ==
    /\ VersionNamesSchema
    /\ ~file.exists => file = NoFile
    /\ file.rows <= file.seq
    /\ proc = "write" => Pending
    /\ proc = "open" => file.exists
=============================================================================
