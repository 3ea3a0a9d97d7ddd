----------------------------- MODULE StartProofs -----------------------------
(***************************************************************************)
(* Proofs about what a starting process does with the files it finds: the  *)
(* store (StoreVersion), for every number of versions, rows and starts,    *)
(* and the relay's key (Keypair), for every number of processes and power  *)
(* losses.                                                                 *)
(***************************************************************************)
EXTENDS StoreVersion, Keypair, TLAPS

-----------------------------------------------------------------------------
(* How a transaction begins: one lemma per path of openStore.              *)

\* The file as openRW leaves it.
LEMMA OpenedFile ==
    ASSUME StoreInv, NEW statements, NEW reset, Begin(statements, reset)
    PROVE  /\ file' \in File /\ tx' = file' /\ file'.exists
           /\ file'.version = file.version /\ file'.table = file.table
           /\ file'.rows = file.rows /\ file'.seq = file.seq
           /\ file'.version > 0 => file'.table = file'.version
           /\ file.version <= Target
           /\ proc' = "write" /\ todo' = statements
           /\ UNCHANGED <<rel, starts>>
<1>1. file \in File /\ rel \in Release
  BY VersionAssumption DEF StoreInv, VersionNamesSchema, TypeOK
<1>2. file' = [file EXCEPT !.exists = TRUE, !.wal = TRUE]
  BY DEF Begin
<1>3. file.version <= Target
  BY <1>1, VersionAssumption DEF Begin, Refused, TooNew, StoreInv, NoFile, File,
     Release, Target
<1> QED
  BY <1>1, <1>2, <1>3 DEF Begin, File, StoreInv, VersionNamesSchema

\* Every path of openStore leaves statements that bring the store to the target.
LEMMA BeginStep ==
    ASSUME StoreInv,
           \/ ResetStore \/ CreateFresh \/ AdoptUnversioned \/ OpenCurrent
           \/ MigrateForward
    PROVE  StoreInv'
<1> USE VersionAssumption DEF Target
<1>1. /\ file \in File /\ rel \in Release /\ rel \in Releases /\ starts \in 0 .. MaxStarts
      /\ rel.target \in 1 .. MaxVersion /\ file.version \in 0 .. MaxVersion
      /\ file.rows <= file.seq
  BY DEF StoreInv, VersionNamesSchema, TypeOK, File, Release
<1> DEFINE Op == {Drop, Schema, Stamp} \cup (1 .. MaxVersion)
<1>2. ASSUME NEW statements \in Seq(Op), NEW reset, Begin(statements, reset),
             \/ statements = <<Drop, Schema, Stamp>> /\ rel.declared /\ rel.requested
             \/ statements = <<Schema, Stamp>> /\ file.table = NoTable
             \/ statements = <<Schema>> /\ file.version = Target /\ file.table = Target
             \/ /\ file.table \in 1 .. Target
                /\ (file.table .. (Target - 1)) \subseteq rel.chain
                /\ Len(statements) = Target - file.table + 1
                /\ \A i \in 1 .. Len(statements) : statements[i] =
                      IF i = Len(statements) THEN Stamp ELSE file.table + i - 1
      PROVE  StoreInv'
  <2>1. Pending'
    BY <1>1, <1>2, OpenedFile DEF Pending, Migrating
  <2>2. VersionNamesSchema'
    BY <1>1, <1>2, OpenedFile DEF VersionNamesSchema, TypeOK
  <2> QED
    BY <1>1, <1>2, <2>1, <2>2, OpenedFile DEF StoreInv
<1>3. CASE ResetStore
  <2>1. Begin(<<Drop, Schema, Stamp>>, TRUE)
    BY <1>3 DEF ResetStore
  <2>2. rel.declared /\ rel.requested
    BY <2>1 DEF Begin, Resets
  <2>3. <<Drop, Schema, Stamp>> \in Seq(Op)
    OBVIOUS
  <2> QED
    BY <1>2, <2>1, <2>2, <2>3
<1>4. CASE CreateFresh
  <2>1. Begin(<<Schema, Stamp>>, FALSE)
    BY <1>4 DEF CreateFresh
  <2>2. Fresh
    BY <1>4 DEF CreateFresh
  <2>3. file.table = NoTable
    BY <2>2 DEF Fresh, StoreInv, NoFile
  <2>4. <<Schema, Stamp>> \in Seq(Op)
    OBVIOUS
  <2> QED
    BY <1>2, <2>1, <2>3, <2>4
<1>5. CASE AdoptUnversioned
  <2>1. Begin(<<Stamp>>, FALSE)
    BY <1>5 DEF AdoptUnversioned
  <2>2. SchemaMatches
    BY <1>5 DEF AdoptUnversioned
  <2>3. /\ <<Stamp>> \in Seq(Op) /\ Len(<<Stamp>>) = 1 /\ <<Stamp>>[1] = Stamp
    OBVIOUS
  <2>4. /\ file.table \in 1 .. Target
        /\ (file.table .. (Target - 1)) \subseteq rel.chain
        /\ Len(<<Stamp>>) = Target - file.table + 1
        /\ \A i \in 1 .. Len(<<Stamp>>) : <<Stamp>>[i] =
              IF i = Len(<<Stamp>>) THEN Stamp ELSE file.table + i - 1
    BY <1>1, <2>2, <2>3 DEF SchemaMatches
  <2> QED
    BY <1>2, <2>1, <2>3, <2>4
<1>6. CASE OpenCurrent
  <2>1. Begin(<<Schema>>, FALSE)
    BY <1>6 DEF OpenCurrent
  <2>2. file.version = Target
    BY <1>6 DEF OpenCurrent
  <2>3. file.table = Target
    BY <1>1, <2>2 DEF StoreInv, VersionNamesSchema
  <2>4. <<Schema>> \in Seq(Op)
    OBVIOUS
  <2> QED
    BY <1>2, <2>1, <2>2, <2>3, <2>4
<1>7. CASE MigrateForward
  <2> DEFINE steps == [i \in 1 .. (Target - file.version) |-> file.version + i - 1]
  <2>1. Older
    BY <1>7 DEF MigrateForward
  <2>2. file.version \in 1 .. (Target - 1) /\ file.table = file.version
    BY <1>1, <2>1 DEF Older, StoreInv, VersionNamesSchema
  <2>3. Begin(Append(steps, Stamp), FALSE)
    BY <1>7 DEF MigrateForward
  <2>4. (file.table .. (Target - 1)) \subseteq rel.chain
    BY <2>1, <2>2, <2>3 DEF Begin, Refused, Fresh, Older, HasPath, StoreInv, NoFile
  <2>5. \A i \in 1 .. (Target - file.version) : file.version + i - 1 \in Op
    BY <1>1, <2>2
  <2>6. Target - file.version \in Nat
    BY <1>1, <2>2
  <2>7. steps \in Seq(Op) /\ Len(steps) = Target - file.version
    BY <2>5, <2>6
  <2>8. /\ Append(steps, Stamp) \in Seq(Op)
        /\ Len(Append(steps, Stamp)) = Target - file.table + 1
    <3> HIDE DEF steps
    <3>1. Stamp \in Op
      OBVIOUS
    <3> HIDE DEF Op
    <3>2. /\ Append(steps, Stamp) \in Seq(Op)
          /\ Len(Append(steps, Stamp)) = Len(steps) + 1
      BY <2>7, <3>1
    <3> QED
      BY <1>1, <2>2, <2>7, <3>2
  <2>9. \A i \in 1 .. Len(Append(steps, Stamp)) : Append(steps, Stamp)[i] =
           IF i = Len(Append(steps, Stamp)) THEN Stamp ELSE file.table + i - 1
    BY <1>1, <2>2, <2>7, <2>8
  <2>10. file.table \in 1 .. Target
    BY <1>1, <2>2
  <2> HIDE DEF steps
  <2> QED
    BY <1>2, <2>3, <2>4, <2>8, <2>9, <2>10
<1> QED
  BY <1>3, <1>4, <1>5, <1>6, <1>7

-----------------------------------------------------------------------------
(* The transaction, statement by statement.                                *)

\* Each statement leaves the rest of its transaction fit for what it finds.
LEMMA ExecuteStep == ASSUME StoreInv, Execute PROVE StoreInv'
<1> USE VersionAssumption DEF Target, Drop, Schema, Stamp, NoTable
<1>1. /\ file \in File /\ tx \in File /\ rel \in Releases /\ rel \in Release
      /\ starts \in 0 .. MaxStarts /\ rel.target \in 1 .. MaxVersion
      /\ todo \in Seq({Drop, Schema, Stamp} \cup (1 .. MaxVersion))
  BY DEF StoreInv, VersionNamesSchema, TypeOK, Release
<1>2. /\ proc = "write" /\ todo # <<>> /\ Pending
      /\ tx' = Applied(tx, Head(todo)) /\ todo' = Tail(todo)
      /\ UNCHANGED <<file, proc, rel, starts>>
  BY DEF Execute, StoreInv
<1>3. /\ tx.exists /\ tx.version \in 0 .. MaxVersion /\ tx.rows <= tx.seq
      /\ tx.table \in {-1, 0} \cup (1 .. MaxVersion)
      /\ tx.rows \in 0 .. MaxRows /\ tx.seq \in 0 .. MaxRows /\ file.version <= Target
      /\ (tx.seq = file.seq /\ tx.rows = file.rows) \/ (rel.declared /\ rel.requested)
  BY <1>1, <1>2 DEF File, Pending, Odd
<1>4. ASSUME NEW table \in {-1, 0} \cup (1 .. MaxVersion),
             tx' = [tx EXCEPT !.table = table]
      PROVE  /\ tx' \in File /\ tx'.exists /\ tx'.rows = tx.rows /\ tx'.seq = tx.seq
             /\ tx'.table = table
  BY <1>1, <1>3, <1>4 DEF File, Odd
<1>5. ASSUME todo = <<Drop, Schema, Stamp>> /\ rel.declared /\ rel.requested
      PROVE  tx' \in File /\ Pending'
  <2>1. Head(todo) = Drop /\ Tail(todo) = <<Schema, Stamp>>
    BY <1>5
  <2>2. tx' = [tx EXCEPT !.table = NoTable, !.rows = 0, !.seq = 0]
    BY <1>2, <2>1 DEF Applied
  <2>3. tx' \in File /\ tx'.exists /\ tx'.rows = 0 /\ tx'.seq = 0 /\ tx'.table = NoTable
    <3>1. 0 \in 0 .. MaxRows
      OBVIOUS
    <3> QED
      BY <1>1, <1>3, <2>2, <3>1 DEF File
  <2> QED
    BY <1>2, <1>3, <1>5, <2>1, <2>3 DEF Pending
<1>6. ASSUME todo = <<Schema, Stamp>> /\ tx.table = NoTable
      PROVE  tx' \in File /\ Pending'
  <2>1. Head(todo) = Schema /\ Tail(todo) = <<Stamp>>
    BY <1>6
  <2>2. tx' = [tx EXCEPT !.table = Target]
    BY <1>2, <1>6, <2>1 DEF Applied
  <2>3. tx' \in File /\ tx'.exists /\ tx'.rows = tx.rows /\ tx'.seq = tx.seq /\
        tx'.table = Target
    BY <1>1, <1>3, <1>4, <2>2
  <2>4. Len(<<Stamp>>) = 1 /\ <<Stamp>>[1] = Stamp
    OBVIOUS
  <2>5. Migrating'
    <3>1. todo' = <<Stamp>> /\ rel' = rel
      BY <1>2, <2>1
    <3>2. /\ Target \in 1 .. Target /\ (Target .. (Target - 1)) \subseteq rel.chain
          /\ Len(<<Stamp>>) = Target - Target + 1
      BY <1>1, <2>4
    <3> QED
      BY <2>3, <2>4, <3>1, <3>2 DEF Migrating
  <2> QED
    BY <1>2, <1>3, <2>3, <2>5 DEF Pending
<1>7. ASSUME todo = <<Schema>> /\ tx.version = Target /\ tx.table = Target
      PROVE  tx' \in File /\ Pending'
  <2>1. Head(todo) = Schema /\ Tail(todo) = <<>>
    BY <1>7
  <2>2. tx' = tx
    BY <1>1, <1>2, <1>7, <2>1 DEF Applied, File
  <2> QED
    BY <1>1, <1>2, <1>3, <1>7, <2>1, <2>2 DEF Pending
<1>8. ASSUME Migrating
      PROVE  /\ todo[Len(todo)] = Stamp /\ Len(todo) = Target - tx.table + 1
             /\ tx.table \in 1 .. Target
  <2>1. Len(todo) \in 1 .. Len(todo)
    BY <1>8, <1>1 DEF Migrating
  <2> QED
    BY <1>8, <2>1 DEF Migrating
<1>9. ASSUME Migrating /\ Len(todo) = 1
      PROVE  tx' \in File /\ Pending'
  <2>1. todo[1] = Stamp
    BY <1>8, <1>9
  <2>2. tx.table = Target
    BY <1>8, <1>1, <1>9
  <2>3. Head(todo) = Stamp /\ Tail(todo) = <<>>
    BY <1>1, <1>2, <1>9, <2>1
  <2>4. tx' = [tx EXCEPT !.version = Target]
    BY <1>2, <2>3 DEF Applied
  <2>5. tx' \in File /\ tx'.exists /\ tx'.rows = tx.rows /\ tx'.seq = tx.seq /\
        tx'.table = Target /\ tx'.version = Target
    <3>1. Target \in 0 .. MaxVersion
      BY <1>1
    <3> QED
      BY <1>1, <1>3, <2>2, <2>4, <3>1 DEF File
  <2> QED
    BY <1>2, <1>3, <2>3, <2>5 DEF Pending
<1>10. ASSUME Migrating /\ Len(todo) # 1
      PROVE  tx' \in File /\ Pending'
  <2>1. /\ Len(todo) \in Nat /\ Len(todo) = Target - tx.table + 1
        /\ tx.table \in 1 .. Target /\ (tx.table .. (Target - 1)) \subseteq rel.chain
    BY <1>1, <1>10 DEF Migrating
  <2>2. Len(todo) > 1 /\ tx.table \in 1 .. (Target - 1)
    BY <1>1, <1>10, <2>1
  <2>3. todo[1] = tx.table
    BY <1>10, <2>1, <2>2 DEF Migrating
  <2>4. Head(todo) = tx.table
    BY <1>1, <1>2, <2>3
  <2>5. tx' = [tx EXCEPT !.table = tx.table + 1]
    <3>1. tx.table > 0 /\ tx.table # Drop /\ tx.table # Schema /\ tx.table # Stamp
      BY <1>1, <2>2
    <3> QED
      BY <1>2, <2>4, <3>1 DEF Applied
  <2>6. tx' \in File /\ tx'.exists /\ tx'.rows = tx.rows /\ tx'.seq = tx.seq /\
        tx'.table = tx.table + 1
    <3>1. tx.table + 1 \in 1 .. MaxVersion
      BY <1>1, <2>2
    <3> QED
      BY <1>3, <1>4, <2>5, <3>1
  <2>7. Len(todo') = Len(todo) - 1 /\ \A i \in 1 .. Len(todo') : todo'[i] = todo[i + 1]
    BY <1>1, <1>2, <2>2
  <2>8. ASSUME NEW i \in 1 .. Len(todo')
        PROVE  todo'[i] = IF i = Len(todo') THEN Stamp ELSE (tx.table + 1) + i - 1
    <3>1. todo[i + 1] = IF i + 1 = Len(todo) THEN Stamp ELSE tx.table + (i + 1) - 1
      BY <1>10, <2>1, <2>7 DEF Migrating
    <3>2. i + 1 = Len(todo) <=> i = Len(todo')
      BY <1>1, <2>2, <2>7
    <3>3. tx.table + (i + 1) - 1 = (tx.table + 1) + i - 1
      BY <1>1, <2>2
    <3> QED
      BY <2>7, <3>1, <3>2, <3>3
  <2>9. /\ tx.table + 1 \in 1 .. Target
        /\ ((tx.table + 1) .. (Target - 1)) \subseteq rel.chain
        /\ Len(todo') = Target - (tx.table + 1) + 1
    BY <1>1, <2>1, <2>2, <2>7
  <2>10. Migrating'
    BY <1>2, <2>6, <2>8, <2>9 DEF Migrating
  <2> QED
    BY <1>2, <1>3, <2>6, <2>10 DEF Pending
<1>11. tx' \in File /\ Pending'
  BY <1>2, <1>5, <1>6, <1>7, <1>9, <1>10 DEF Pending
<1>12. todo' \in Seq({Drop, Schema, Stamp} \cup (1 .. MaxVersion))
  BY <1>1, <1>2
<1> QED
  BY <1>1, <1>2, <1>11, <1>12 DEF StoreInv, VersionNamesSchema, TypeOK

\* Commit publishes version, table and rows at once; every other step of a
\* process leaves the file as it is or changes its rows alone.
LEMMA OtherStep ==
    ASSUME StoreInv,
           \/ \E r \in Releases : Start(r)
           \/ Refuse \/ Commit \/ Stop \/ Put \/ Delete \/ UNCHANGED vars
    PROVE  StoreInv'
<1> USE VersionAssumption DEF StoreInv, VersionNamesSchema, TypeOK, Target
<1>1. CASE \E r \in Releases : Start(r)
  BY <1>1 DEF Start
<1>2. CASE Refuse
  BY <1>2 DEF Refuse
<1>3. CASE Commit
  <2>1. tx.version = Target /\ tx.table = Target
    <3>1. Pending /\ todo = <<>>
      BY <1>3 DEF Commit
    <3>2. ~Migrating
      <4>1. Len(todo) = 0
        BY <3>1
      <4>2. ASSUME Migrating PROVE Len(todo) >= 1
        BY <4>2, VersionAssumption DEF Migrating, Release
      <4> QED
        BY <4>1, <4>2
    <3>3. todo # <<Drop, Schema, Stamp>> /\ todo # <<Schema, Stamp>>
      BY <3>1
    <3> QED
      BY <3>1, <3>2, <3>3 DEF Pending
  <2>2. NoFile \in File
    BY DEF NoFile, File, NoTable
  <2> QED
    BY <1>3, <2>1, <2>2 DEF Commit, Pending, NoFile
<1>4. CASE Stop
  BY <1>4 DEF Stop, NoFile, File, NoTable
<1>5. CASE Put
  <2>1. file.rows \in Nat /\ file.seq \in Nat /\ file.seq < MaxRows
    BY <1>5 DEF Put, File
  <2>2. /\ file' \in File /\ file'.version = file.version /\ file'.table = file.table
        /\ file'.exists = file.exists
        /\ file'.rows = file.rows + 1 /\ file'.seq = file.seq + 1
    <3>1. file.rows + 1 \in 0 .. MaxRows /\ file.seq + 1 \in 0 .. MaxRows
      BY <2>1
    <3>2. file' = [file EXCEPT !.rows = file.rows + 1, !.seq = file.seq + 1]
      BY <1>5 DEF Put
    <3> QED
      BY <3>1, <3>2 DEF File
  <2>3. proc = "open" /\ UNCHANGED <<proc, rel, todo, tx, starts>>
    BY <1>5 DEF Put
  <2> QED
    BY <2>1, <2>2, <2>3
<1>6. CASE Delete
  <2>1. file.rows \in Nat /\ file.seq \in Nat /\ file.rows > 0
    BY <1>6 DEF Delete, File
  <2>2. /\ file' \in File /\ file'.version = file.version /\ file'.table = file.table
        /\ file'.exists = file.exists
        /\ file'.rows = file.rows - 1 /\ file'.seq = file.seq
    <3>1. file.rows - 1 \in 0 .. MaxRows
      BY <2>1 DEF File
    <3>2. file' = [file EXCEPT !.rows = file.rows - 1]
      BY <1>6 DEF Delete
    <3> QED
      BY <3>1, <3>2 DEF File
  <2>3. proc = "open" /\ UNCHANGED <<proc, rel, todo, tx, starts>>
    BY <1>6 DEF Delete
  <2> QED
    BY <2>1, <2>2, <2>3
<1>7. CASE UNCHANGED vars
  BY <1>7 DEF vars, Pending, Migrating
<1> QED
  BY <1>1, <1>2, <1>3, <1>4, <1>5, <1>6, <1>7

-----------------------------------------------------------------------------
(* Theorems.                                                               *)

\* The invariant holds in every reachable state.
THEOREM StoreInvariant == Spec => []StoreInv
<1>1. Init => StoreInv
  <2> SUFFICES ASSUME Init PROVE StoreInv
    OBVIOUS
  <2>1. NoFile \in File
    BY VersionAssumption DEF NoFile, File, NoTable
  <2> QED
    BY <2>1, VersionAssumption DEF Init, StoreInv, VersionNamesSchema, TypeOK, Target
<1>2. StoreInv /\ [Next]_vars => StoreInv'
  BY BeginStep, ExecuteStep, OtherStep DEF Next
<1> QED
  BY <1>1, <1>2, PTL DEF Spec

\* Whatever crashes and releases came before, the stamped version is that of the
\* table, and an open store is at the version of the release that opened it.
THEOREM VersionTrue == Spec => []VersionNamesSchema
<1>1. StoreInv => VersionNamesSchema
  BY DEF StoreInv
<1> QED
  BY <1>1, StoreInvariant, PTL

\* A migration step runs only on the schema it was written for.
THEOREM StepsFit == Spec => []MigrationsFit
<1>1. StoreInv => MigrationsFit
  <2> SUFFICES ASSUME StoreInv, proc = "write", todo # <<>>, Head(todo) > 0
               PROVE  Head(todo) = tx.table /\ Head(todo) \in rel.chain
    BY DEF MigrationsFit
  <2> USE VersionAssumption DEF Target
  <2>1. /\ rel \in Release /\ rel.target \in Nat
        /\ todo \in Seq({Drop, Schema, Stamp} \cup (1 .. MaxVersion))
    BY DEF StoreInv, VersionNamesSchema, TypeOK, Release
  <2>2. Head(todo) = todo[1] /\ Len(todo) >= 1
    BY <2>1
  <2>3. todo[1] # Drop /\ todo[1] # Schema /\ todo[1] # Stamp
    BY <2>2 DEF Drop, Schema, Stamp
  <2>4. Migrating
    <3>1. todo # <<Drop, Schema, Stamp>> /\ todo # <<Schema, Stamp>> /\
          todo # <<Schema>>
      BY <2>3
    <3> QED
      BY <3>1 DEF StoreInv, Pending
  <2>5. /\ tx.table \in 1 .. Target /\ (tx.table .. (Target - 1)) \subseteq rel.chain
        /\ Len(todo) = Target - tx.table + 1
        /\ todo[1] = IF 1 = Len(todo) THEN Stamp ELSE tx.table + 1 - 1
    BY <2>2, <2>4 DEF Migrating
  <2> QED
    BY <2>1, <2>2, <2>3, <2>5
<1> QED
  BY <1>1, StoreInvariant, PTL

\* Only a declared and requested Store Reset, and never over a newer store, loses
\* Blobs or takes the id counter back.
THEOREM OnlyResetDrops == Spec => RowsSurvive
<1>1. StoreInv /\ [Next]_vars => [SurviveStep]_vars
  <2> SUFFICES ASSUME StoreInv, [Next]_vars PROVE SurviveStep
    OBVIOUS
  <2> USE VersionAssumption DEF SurviveStep, Target
  <2>1. /\ file.rows \in Nat /\ file.seq \in Nat /\ file \in File
        /\ file.version \in Nat /\ rel.target \in Nat
    BY DEF StoreInv, VersionNamesSchema, TypeOK, File, Release
  <2>2. ASSUME file'.seq = file.seq, file'.rows = file.rows PROVE SurviveStep
    BY <2>1, <2>2
  <2>3. CASE ResetStore \/ CreateFresh \/ AdoptUnversioned \/ OpenCurrent \/
             MigrateForward
    BY <2>2, <2>3, OpenedFile DEF ResetStore, CreateFresh, AdoptUnversioned,
       OpenCurrent, MigrateForward
  <2>4. CASE Commit
    BY <2>1, <2>4 DEF Commit, StoreInv, Pending
  <2>5. CASE Put \/ Delete
    <3>1. ASSUME Put PROVE file'.seq = file.seq + 1
      BY <2>1, <3>1 DEF Put, File
    <3>2. ASSUME Delete PROVE file'.seq = file.seq
      BY <2>1, <3>2 DEF Delete, File
    <3>3. proc = "open"
      BY <2>5 DEF Put, Delete
    <3>4. ~(file'.seq < file.seq)
      BY <2>1, <2>5, <3>1, <3>2
    <3> QED
      BY <3>3, <3>4
  <2>6. ASSUME (\E r \in Releases : Start(r)) \/ Refuse \/ Execute \/ Stop \/
               UNCHANGED vars
        PROVE  file' = file
    BY <2>6 DEF Start, Refuse, Execute, Stop, vars
  <2> QED
    BY <2>2, <2>3, <2>4, <2>5, <2>6 DEF Next
<1> QED
  BY <1>1, StoreInvariant, PTL DEF Spec, RowsSurvive

-----------------------------------------------------------------------------
(* The relay's key: the invariant, one lemma per part.                     *)

\* State keeps its type; only the key of some start is ever lost to a power loss.
LEMMA KeyTypeStep == NamesDiffer /\ KeyInv /\ [KeyNext]_keyVars => KeyTypeOK'
<1> SUFFICES ASSUME NamesDiffer, KeyInv, [KeyNext]_keyVars PROVE KeyTypeOK'
  OBVIOUS
<1> USE DEF NamesDiffer, KeyInv, OneKey, KeyTypeOK, WholeFile, files, process,
     history, Key, Running, Ended, None
<1>1. ASSUME NEW p \in Starts, ResolveEnv(p) \/ Resolve(p) \/ Genkey(p)
      PROVE  KeyTypeOK'
  BY <1>1 DEF ResolveEnv, Resolve, Genkey, Use, Fail, Goto
<1>2. ASSUME NEW p \in Starts, Load(p) PROVE KeyTypeOK'
  BY <1>2 DEF Load, Use, Goto
<1>3. ASSUME NEW p \in Starts, LoadMissing(p) \/ LoadFails(p) PROVE KeyTypeOK'
  BY <1>3 DEF LoadMissing, LoadFails, Goto, Fail
<1>4. ASSUME NEW p \in Starts, CreateTempFails(p) \/ CreateTemp(p) \/
      WriteString(p) PROVE KeyTypeOK'
  BY <1>4 DEF CreateTempFails, CreateTemp, WriteString, Fail, Goto
<1>5. ASSUME NEW p \in Starts, Sync(p) \/ Close(p) \/ StepFails(p) PROVE KeyTypeOK'
  BY <1>5 DEF Sync, Close, StepFails, Goto
<1>6. ASSUME NEW p \in Starts, Link(p) PROVE KeyTypeOK'
  BY <1>6 DEF Link, Goto
<1>7. ASSUME NEW p \in Starts, LinkExists(p) PROVE KeyTypeOK'
  BY <1>7 DEF LinkExists, Goto
<1>8. ASSUME NEW p \in Starts, Remove(p) PROVE KeyTypeOK'
  BY <1>8 DEF Remove, Goto
<1>9. ASSUME NEW p \in Starts, Kill(p) PROVE KeyTypeOK'
  BY <1>9 DEF Kill, Goto
<1>10. CASE WriteBack
  BY <1>10 DEF WriteBack
<1>11. CASE PowerLoss
  BY <1>11 DEF PowerLoss, Survivor
<1>12. CASE UNCHANGED keyVars
  BY <1>12 DEF keyVars
<1> QED
  BY <1>1, <1>2, <1>3, <1>4, <1>5, <1>6, <1>7, <1>8, <1>9, <1>10, <1>11, <1>12 DEF
     KeyNext, ProcessNext

\* Sync comes before Link, so no power loss leaves half a key at path.
LEMMA WholeFileStep == NamesDiffer /\ KeyInv /\ [KeyNext]_keyVars => WholeFile'
<1> SUFFICES ASSUME NamesDiffer, KeyInv, [KeyNext]_keyVars PROVE WholeFile'
  OBVIOUS
<1> USE DEF NamesDiffer, KeyInv, OneKey, KeyTypeOK, WholeFile, files, process,
     history, Key, Running, Ended, None
<1>1. ASSUME NEW p \in Starts, ResolveEnv(p) \/ Resolve(p) \/ Genkey(p)
      PROVE  WholeFile'
  BY <1>1 DEF ResolveEnv, Resolve, Genkey, Use, Fail, Goto
<1>2. ASSUME NEW p \in Starts, Load(p) PROVE WholeFile'
  BY <1>2 DEF Load, Use, Goto
<1>3. ASSUME NEW p \in Starts, LoadMissing(p) \/ LoadFails(p) PROVE WholeFile'
  BY <1>3 DEF LoadMissing, LoadFails, Goto, Fail
<1>4. ASSUME NEW p \in Starts, CreateTempFails(p) \/ CreateTemp(p) \/
      WriteString(p) PROVE WholeFile'
  BY <1>4 DEF CreateTempFails, CreateTemp, WriteString, Fail, Goto
<1>5. ASSUME NEW p \in Starts, Sync(p) \/ Close(p) \/ StepFails(p)
      PROVE  WholeFile'
  BY <1>5 DEF Sync, Close, StepFails, Goto
<1>6. ASSUME NEW p \in Starts, Link(p) PROVE WholeFile'
  BY <1>6 DEF Link, Goto
<1>7. ASSUME NEW p \in Starts, LinkExists(p) PROVE WholeFile'
  BY <1>7 DEF LinkExists, Goto
<1>8. ASSUME NEW p \in Starts, Remove(p) PROVE WholeFile'
  BY <1>8 DEF Remove, Goto
<1>9. ASSUME NEW p \in Starts, Kill(p) PROVE WholeFile'
  BY <1>9 DEF Kill, Goto
<1>10. CASE WriteBack
  BY <1>10 DEF WriteBack
<1>11. CASE PowerLoss
  BY <1>11 DEF PowerLoss, Survivor
<1>12. CASE UNCHANGED keyVars
  BY <1>12 DEF keyVars
<1> QED
  BY <1>1, <1>2, <1>3, <1>4, <1>5, <1>6, <1>7, <1>8, <1>9, <1>10, <1>11, <1>12 DEF
     KeyNext, ProcessNext

\* Link alone sets generated, together with the file.
LEMMA FlagStep == NamesDiffer /\ KeyInv /\ [KeyNext]_keyVars => Flag'
<1> SUFFICES ASSUME NamesDiffer, KeyInv, [KeyNext]_keyVars PROVE Flag'
  OBVIOUS
<1> USE DEF NamesDiffer, KeyInv, OneKey, KeyTypeOK, WholeFile, Flag, files,
     process, history, Key, Running, Ended, None
<1>1. ASSUME NEW p \in Starts, ResolveEnv(p) \/ Resolve(p) \/ Genkey(p)
      PROVE  Flag'
  BY <1>1 DEF ResolveEnv, Resolve, Genkey, Use, Fail, Goto
<1>2. ASSUME NEW p \in Starts, Load(p) PROVE Flag'
  BY <1>2 DEF Load, Use, Goto
<1>3. ASSUME NEW p \in Starts, LoadMissing(p) \/ LoadFails(p) PROVE Flag'
  BY <1>3 DEF LoadMissing, LoadFails, Goto, Fail
<1>4. ASSUME NEW p \in Starts, CreateTempFails(p) \/ CreateTemp(p) \/
      WriteString(p) PROVE Flag'
  BY <1>4 DEF CreateTempFails, CreateTemp, WriteString, Fail, Goto
<1>5. ASSUME NEW p \in Starts, Sync(p) \/ Close(p) \/ StepFails(p) PROVE Flag'
  BY <1>5 DEF Sync, Close, StepFails, Goto
<1>6. ASSUME NEW p \in Starts, Link(p) PROVE Flag'
  BY <1>6 DEF Link, Goto
<1>7. ASSUME NEW p \in Starts, LinkExists(p) PROVE Flag'
  BY <1>7 DEF LinkExists, Goto
<1>8. ASSUME NEW p \in Starts, Remove(p) PROVE Flag'
  BY <1>8 DEF Remove, Goto
<1>9. ASSUME NEW p \in Starts, Kill(p) PROVE Flag'
  BY <1>9 DEF Kill, Goto
<1>10. CASE WriteBack
  BY <1>10 DEF WriteBack
<1>11. CASE PowerLoss
  BY <1>11 DEF PowerLoss, Survivor
<1>12. CASE UNCHANGED keyVars
  BY <1>12 DEF keyVars
<1> QED
  BY <1>1, <1>2, <1>3, <1>4, <1>5, <1>6, <1>7, <1>8, <1>9, <1>10, <1>11, <1>12 DEF
     KeyNext, ProcessNext

\* A Load after Generate finds a file: the process or its rival linked one.
LEMMA ProgressStep == NamesDiffer /\ KeyInv /\ [KeyNext]_keyVars => Progress'
<1> SUFFICES ASSUME NamesDiffer, KeyInv, [KeyNext]_keyVars PROVE Progress'
  OBVIOUS
<1> USE DEF NamesDiffer, KeyInv, OneKey, KeyTypeOK, WholeFile, Flag, Progress,
     files, process, history, Key, Running, Ended, None
<1>1. ASSUME NEW p \in Starts, ResolveEnv(p) \/ Resolve(p) \/ Genkey(p)
      PROVE  Progress'
  BY <1>1 DEF ResolveEnv, Resolve, Genkey, Use, Fail, Goto
<1>2. ASSUME NEW p \in Starts, Load(p) PROVE Progress'
  BY <1>2 DEF Load, Use, Goto
<1>3. ASSUME NEW p \in Starts, LoadMissing(p) \/ LoadFails(p) PROVE Progress'
  BY <1>3 DEF LoadMissing, LoadFails, Goto, Fail
<1>4. ASSUME NEW p \in Starts, CreateTempFails(p) \/ CreateTemp(p) \/
      WriteString(p) PROVE Progress'
  BY <1>4 DEF CreateTempFails, CreateTemp, WriteString, Fail, Goto
<1>5. ASSUME NEW p \in Starts, Sync(p) \/ Close(p) \/ StepFails(p) PROVE Progress'
  BY <1>5 DEF Sync, Close, StepFails, Goto
<1>6. ASSUME NEW p \in Starts, Link(p) PROVE Progress'
  BY <1>6 DEF Link, Goto
<1>7. ASSUME NEW p \in Starts, LinkExists(p) PROVE Progress'
  BY <1>7 DEF LinkExists, Goto
<1>8. ASSUME NEW p \in Starts, Remove(p) PROVE Progress'
  BY <1>8 DEF Remove, Goto
<1>9. ASSUME NEW p \in Starts, Kill(p) PROVE Progress'
  BY <1>9 DEF Kill, Goto
<1>10. CASE WriteBack
  BY <1>10 DEF WriteBack
<1>11. CASE PowerLoss
  BY <1>11 DEF PowerLoss, Survivor
<1>12. CASE UNCHANGED keyVars
  BY <1>12 DEF keyVars
<1> QED
  BY <1>1, <1>2, <1>3, <1>4, <1>5, <1>6, <1>7, <1>8, <1>9, <1>10, <1>11, <1>12 DEF
     KeyNext, ProcessNext

\* What a process reports when it fails is decided by what it found at path.
LEMMA NoWedgeStep == NamesDiffer /\ KeyInv /\ [KeyNext]_keyVars => NoWedge'
<1> SUFFICES ASSUME NamesDiffer, KeyInv, [KeyNext]_keyVars PROVE NoWedge'
  OBVIOUS
<1> USE DEF NamesDiffer, KeyInv, OneKey, KeyTypeOK, WholeFile, Progress,
     NoWedge, files, process, history, Key, Running, Ended, None
<1>1. ASSUME NEW p \in Starts, ResolveEnv(p) \/ Resolve(p) \/ Genkey(p)
      PROVE  NoWedge'
  BY <1>1 DEF ResolveEnv, Resolve, Genkey, Use, Fail, Goto
<1>2. ASSUME NEW p \in Starts, Load(p) PROVE NoWedge'
  BY <1>2 DEF Load, Use, Goto
<1>3. ASSUME NEW p \in Starts, LoadMissing(p) \/ LoadFails(p) PROVE NoWedge'
  BY <1>3 DEF LoadMissing, LoadFails, Goto, Fail
<1>4. ASSUME NEW p \in Starts, CreateTempFails(p) \/ CreateTemp(p) \/
      WriteString(p) PROVE NoWedge'
  BY <1>4 DEF CreateTempFails, CreateTemp, WriteString, Fail, Goto
<1>5. ASSUME NEW p \in Starts, Sync(p) \/ Close(p) \/ StepFails(p) PROVE NoWedge'
  BY <1>5 DEF Sync, Close, StepFails, Goto
<1>6. ASSUME NEW p \in Starts, Link(p) PROVE NoWedge'
  BY <1>6 DEF Link, Goto
<1>7. ASSUME NEW p \in Starts, LinkExists(p) PROVE NoWedge'
  BY <1>7 DEF LinkExists, Goto
<1>8. ASSUME NEW p \in Starts, Remove(p) PROVE NoWedge'
  BY <1>8 DEF Remove, Goto
<1>9. ASSUME NEW p \in Starts, Kill(p) PROVE NoWedge'
  BY <1>9 DEF Kill, Goto
<1>10. CASE WriteBack
  BY <1>10 DEF WriteBack
<1>11. CASE PowerLoss
  BY <1>11 DEF PowerLoss, Survivor
<1>12. CASE UNCHANGED keyVars
  BY <1>12 DEF keyVars
<1> QED
  BY <1>1, <1>2, <1>3, <1>4, <1>5, <1>6, <1>7, <1>8, <1>9, <1>10, <1>11, <1>12 DEF
     KeyNext, ProcessNext

\* A process ends with the key at path, and the file can only go to lost.
LEMMA OneKeyStep == NamesDiffer /\ KeyInv /\ [KeyNext]_keyVars => OneKey'
<1> SUFFICES ASSUME NamesDiffer, KeyInv, [KeyNext]_keyVars PROVE OneKey'
  OBVIOUS
<1> USE DEF NamesDiffer, KeyInv, OneKey, WholeFile, Flag, Progress, FromFile,
     files, process, history, Key, Running, Ended, None
<1>0. KeyTypeOK'
  BY KeyTypeStep DEF KeyInv
<1>1. ASSUME NEW p \in Starts, ResolveEnv(p) \/ Resolve(p) \/ Genkey(p)
      PROVE  OneKey'
  BY <1>1, <1>0 DEF ResolveEnv, Resolve, Genkey, KeyTypeOK, Use, Fail, Goto
<1>2. ASSUME NEW p \in Starts, Load(p) PROVE OneKey'
  BY <1>2, <1>0 DEF Load, KeyTypeOK, Use, Goto
<1>3. ASSUME NEW p \in Starts, LoadMissing(p) \/ LoadFails(p) PROVE OneKey'
  BY <1>3, <1>0 DEF LoadMissing, LoadFails, KeyTypeOK, Goto, Fail
<1>4. ASSUME NEW p \in Starts, CreateTempFails(p) \/ CreateTemp(p) \/
      WriteString(p) PROVE OneKey'
  BY <1>4, <1>0 DEF CreateTempFails, CreateTemp, WriteString, KeyTypeOK,
     Fail, Goto
<1>5. ASSUME NEW p \in Starts, Sync(p) \/ Close(p) \/ StepFails(p) PROVE OneKey'
  BY <1>5, <1>0 DEF Sync, Close, StepFails, KeyTypeOK, Goto
<1>6. ASSUME NEW p \in Starts, Link(p) PROVE OneKey'
  BY <1>6, <1>0 DEF Link, KeyTypeOK, Goto
<1>7. ASSUME NEW p \in Starts, LinkExists(p) PROVE OneKey'
  BY <1>7, <1>0 DEF LinkExists, KeyTypeOK, Goto
<1>8. ASSUME NEW p \in Starts, Remove(p) PROVE OneKey'
  BY <1>8, <1>0 DEF Remove, KeyTypeOK, Goto
<1>9. ASSUME NEW p \in Starts, Kill(p) PROVE OneKey'
  BY <1>9, <1>0 DEF Kill, KeyTypeOK, Goto
<1>10. CASE WriteBack
  BY <1>10, <1>0 DEF WriteBack, KeyTypeOK
<1>11. CASE PowerLoss
  BY <1>11, <1>0 DEF PowerLoss, KeyTypeOK, Survivor
<1>12. CASE UNCHANGED keyVars
  BY <1>12, <1>0 DEF keyVars, KeyTypeOK
<1> QED
  BY <1>1, <1>2, <1>3, <1>4, <1>5, <1>6, <1>7, <1>8, <1>9, <1>10, <1>11, <1>12 DEF
     KeyNext, ProcessNext

\* Link is the only step that writes path, and it needs a missing file; a power
\* loss can only take a file away.
LEMMA KeepLemma == NamesDiffer /\ KeyInv /\ [KeyNext]_keyVars => KeepStep
<1> SUFFICES ASSUME NamesDiffer, KeyInv, [KeyNext]_keyVars PROVE KeepStep
  OBVIOUS
<1> USE DEF KeepStep, files
<1>1. ASSUME NEW p \in Starts, Link(p) PROVE KeepStep
  BY <1>1 DEF Link, KeyInv, WholeFile
<1>2. CASE PowerLoss
  BY <1>2 DEF PowerLoss, Survivor, KeyInv, WholeFile, OneKey, KeyTypeOK
<1>3. ASSUME NEW p \in Starts, ProcessNext(p), ~Link(p) PROVE keyfile' = keyfile
  BY <1>3 DEF ProcessNext, ResolveEnv, Resolve, Genkey, Load,
     LoadMissing, LoadFails, CreateTempFails, CreateTemp, WriteString,
     Sync, Close, StepFails, LinkExists, Remove, Kill
<1>4. CASE WriteBack \/ UNCHANGED keyVars
  BY <1>4 DEF WriteBack, keyVars
<1> QED
  BY <1>1, <1>2, <1>3, <1>4 DEF KeyNext

\* The invariant holds in every reachable state.
THEOREM KeyInvariant == KeySpec => []KeyInv
<1> USE KeypairAssumption
<1>1. KeyInit => KeyInv
  BY DEF NamesDiffer, KeyInit, KeyInv, OneKey, KeyTypeOK, FromFile, NoWedge,
     WholeFile, Flag, Progress, Key, Running, Ended, None
<1>2. KeyInv /\ [KeyNext]_keyVars => KeyInv'
  BY OneKeyStep, NoWedgeStep, WholeFileStep, FlagStep, ProgressStep DEF KeyInv
<1> QED
  BY <1>1, <1>2, PTL DEF KeySpec

\* All processes that read the key from the file use one key, and generated says
\* who made it, however many first starts race; only a power loss before the
\* directory is written back makes an exception.
THEOREM OneKeyForAll == KeySpec => []OneKey
<1> USE KeypairAssumption
<1>1. KeyInv => OneKey
  BY DEF KeyInv
<1> QED
  BY <1>1, KeyInvariant, PTL

\* No crash, power loss or race leaves a file that later starts fail on.
THEOREM NeverWedged == KeySpec => []NoWedge
<1> USE KeypairAssumption
<1>1. KeyInv => NoWedge
  BY DEF KeyInv
<1> QED
  BY <1>1, KeyInvariant, PTL

\* The key file appears whole, is never replaced, and goes only with a power loss.
THEOREM FileKept == KeySpec => KeyFileKept
<1> USE KeypairAssumption
<1>1. KeyInv /\ [KeyNext]_keyVars => [KeepStep]_keyVars
  BY KeepLemma
<1> QED
  BY <1>1, KeyInvariant, PTL DEF KeySpec, KeyFileKept
==============================================================================
