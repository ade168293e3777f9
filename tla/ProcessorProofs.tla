--------------------------- MODULE ProcessorProofs ---------------------------
(***************************************************************************)
(* Proofs about the migration Processor, for every set of validators and   *)
(* MadIDs, every number of epochs and deposits, and every word size above  *)
(* the epochs: the type invariant (every line written is a command line of *)
(* one field with an argument of its type), the window of snapshots that   *)
(* NextEpoch's pruning keeps, and LatestSnapshotsMigrated.                 *)
(***************************************************************************)
EXTENDS Processor, SequenceTheorems, FiniteSetTheorems, TLAPS

USE EpochAssumption, DepositAssumption, WordAssumption, ValidatorsAssumption

(* An epoch with a pending migration has its list of validators to add:   *)
(* ValidatorSet records both, NextEpoch deletes both.                      *)
CmdMapPaired ==
    \A e \in EpochKeys : migrations[e] # Nil => validatorCmdMap[e] \in Seq(Validators)

(* TypeOK is inductive with CmdMapPaired: AddValidatorLines reads the      *)
(* list of an epoch whose migration is pending.                            *)
TInv == TypeOK /\ CmdMapPaired

(* The snapshots kept are those of the epochs before p.epoch, back to ten  *)
(* epochs: Snapshot records the current epoch and prunes the older ones.   *)
SnapshotWindow ==
    snapShots = {se \in Epochs : se < epoch /\ epoch <= se + 10}

(* The inductive invariant behind LatestSnapshotsMigrated: Finalize finds  *)
(* the snapshots it looks up in the window, and no step follows Finalize.  *)
IInv == TInv /\ SnapshotWindow /\ LatestSnapshotsMigrated


-----------------------------------------------------------------------------
(* The line of a command with a non-nil argument has that one key.        *)
LEMMA LineOfArg ==
    ASSUME NEW k \in Kinds, NEW obj, obj # Nil
    PROVE  Line(k, obj) = [f \in {k} |-> obj]
BY DEF Line, Marshal, With, EmptyCommand

(* A line WriteLine writes for a field and an argument of its type, or a   *)
(* nil argument, is a command line.                                        *)
LEMMA LineType ==
    ASSUME NEW k \in Kinds, NEW obj \in ArgType[k] \cup {Nil}
    PROVE  Line(k, obj) \in CommandLines
<1>1. CASE obj = Nil
  <2>1. DOMAIN Line(k, obj) = {}
    BY <1>1 DEF Line, Marshal, With, EmptyCommand
  <2>2. QED
    BY <2>1 DEF CommandLines, Line, Marshal
<1>2. CASE obj # Nil
  <2>1. Line(k, obj) = [f \in {k} |-> obj]
    BY <1>2, LineOfArg
  <2>2. obj \in ArgType[k]
    BY <1>2
  <2>3. QED
    BY <2>1, <2>2 DEF CommandLines, ArgType, Kinds
<1>3. QED
  BY <1>1, <1>2

(* An ordering of a set of validators (SetToSeqs) is a finite sequence of  *)
(* validators.                                                             *)
LEMMA OrderType ==
    ASSUME NEW S \in SUBSET Validators, NEW order \in SetToSeqs(S)
    PROVE  order \in Seq(Validators) /\ \A i \in 1..Len(order) : order[i] \in S
<1>1. IsFiniteSet(S) /\ Cardinality(S) \in Nat
  BY FS_Subset, FS_CardinalityType
<1>2. order \in [1..Cardinality(S) -> S]
  BY DEF SetToSeqs
<1>3. QED
  BY <1>1, <1>2


(* The number of epochs with pending deposits, len(p.deposits), is a       *)
(* natural number.                                                         *)
LEMMA PendingType == PendingDepositEpochs \in Nat
<1>1. IsFiniteSet(EpochKeys)
  BY FS_Interval DEF EpochKeys
<1>2. IsFiniteSet({k \in EpochKeys : deposits[k] # Nil})
  BY <1>1, FS_Subset
<1>3. QED
  BY <1>2, FS_CardinalityType DEF PendingDepositEpochs

(* The lines NextEpoch writes are command lines.                           *)
LEMMA AddValidatorLinesType ==
    ASSUME TInv, NEW e \in EpochKeys
    PROVE  AddValidatorLines(e) \in Seq(CommandLines)
<1>1. CASE migrations[e] = Nil
  BY <1>1 DEF AddValidatorLines
<1>2. CASE migrations[e] # Nil
  <2>1. validatorCmdMap[e] \in Seq(Validators)
    BY <1>2 DEF TInv, CmdMapPaired
  <2>2. ASSUME NEW i \in 1..Len(validatorCmdMap[e])
        PROVE  Line("AddValidatorImmediate",
                    [validator |-> validatorCmdMap[e][i],
                     madID |-> validatorIDMap[validatorCmdMap[e][i]]])
               \in CommandLines
    <3>1. [validator |-> validatorCmdMap[e][i],
           madID |-> validatorIDMap[validatorCmdMap[e][i]]]
          \in ArgType["AddValidatorImmediate"]
      BY <2>1 DEF TInv, TypeOK, ArgType, AddValidatorImmediateArg
    <3>2. QED
      BY <3>1, LineType DEF Kinds
  <2>3. QED
    BY <1>2, <2>1, <2>2 DEF AddValidatorLines
<1>3. QED
  BY <1>1, <1>2

LEMMA MigrateLinesType ==
    ASSUME TInv, NEW e \in EpochKeys
    PROVE  MigrateLines(e) \in Seq(CommandLines)
<1>1. migrations[e] # Nil => migrations[e] \in ArgType["Migrate"]
  BY DEF TInv, TypeOK, ArgType
<1>2. migrations[e] # Nil => Line("Migrate", migrations[e]) \in CommandLines
  BY <1>1, LineType DEF Kinds
<1>3. QED
  BY <1>2 DEF MigrateLines

LEMMA DepositLinesType ==
    ASSUME TInv, NEW e \in EpochKeys, DepositLoopInRange(e)
    PROVE  DepositLines(e) \in Seq(CommandLines)
<1>1. CASE deposits[e] = Nil
  BY <1>1 DEF DepositLines
<1>2. CASE deposits[e] # Nil
  <2>1. deposits[e] \in Seq(DepositIDs) /\ PendingDepositEpochs <= Len(deposits[e])
    BY <1>2 DEF TInv, TypeOK, DepositLoopInRange
  <2>2. ASSUME NEW i \in 1..PendingDepositEpochs
        PROVE  Line("DirectDeposit", [id |-> deposits[e][i]]) \in CommandLines
    <3>1. [id |-> deposits[e][i]] \in ArgType["DirectDeposit"]
      BY <2>1, PendingType DEF ArgType, DirectDepositArg
    <3>2. QED
      BY <3>1, LineType DEF Kinds
  <2>3. QED
    BY <1>2, <2>2, PendingType DEF DepositLines
<1>3. QED
  BY <1>1, <1>2

(* The lines Finalize writes are command lines.                            *)
LEMMA BalanceLinesType ==
    ASSUME TInv,
           NEW order \in SetToSeqs({v \in Validators : finalValidators[v] # Nil})
    PROVE  BalanceLines(order) \in Seq(CommandLines)
<1>1. order \in Seq(Validators)
      /\ \A i \in 1..Len(order) : finalValidators[order[i]] # Nil
  BY OrderType
<1>2. ASSUME NEW i \in 1..Len(order)
      PROVE  Line("SetBalancesFor",
                  [who |-> order[i],
                   epochs |-> (epoch - finalValidators[order[i]]) % Word])
             \in CommandLines
  <2>1. finalValidators[order[i]] \in Epochs /\ epoch \in EpochKeys
    BY <1>1 DEF TInv, TypeOK
  <2>2. (epoch - finalValidators[order[i]]) % Word \in 0..(Word - 1)
    BY <2>1 DEF Epochs, EpochKeys
  <2>3. [who |-> order[i],
         epochs |-> (epoch - finalValidators[order[i]]) % Word]
        \in ArgType["SetBalancesFor"]
    BY <1>1, <2>2 DEF ArgType, SetBalancesForArg
  <2>4. QED
    BY <2>3, LineType DEF Kinds
<1>3. QED
  BY <1>1, <1>2 DEF BalanceLines

LEMMA SnapshotLinesType ==
    ASSUME TInv
    PROVE  /\ SnapshotLines \in Seq(CommandLines)
           /\ <<Line("SetEpoch", [number |-> epoch])>> \in Seq(CommandLines)
<1>1. ASSUME NEW k PROVE SnapshotAt(k) \in ArgType["Snapshot"] \cup {Nil}
  BY DEF SnapshotAt, TInv, TypeOK, ArgType, SnapshotArg
<1>2. \A j \in 1..5 :
        Line("Snapshot", SnapshotAt((epoch - (6 - j)) % Word)) \in CommandLines
  BY <1>1, LineType DEF Kinds
<1>3. [number |-> epoch] \in ArgType["SetEpoch"]
  BY DEF TInv, TypeOK, ArgType, SetEpochArg
<1>4. Line("SetEpoch", [number |-> epoch]) \in CommandLines
  BY <1>3, LineType DEF Kinds
<1>5. QED
  BY <1>2, <1>4 DEF SnapshotLines


-----------------------------------------------------------------------------
(* The initial state of NewProcessor satisfies TInv.                       *)
LEMMA InitTInv == PInit => TInv
<1> SUFFICES ASSUME PInit PROVE TInv
  OBVIOUS
<1>1. epoch \in EpochKeys
  BY DEF PInit, EpochKeys
<1>2. file \in Seq(CommandLines) /\ received \in Seq(DepositIDs \X EpochKeys)
  BY DEF PInit
<1>3. CmdMapPaired
  BY DEF PInit, CmdMapPaired
<1>4. QED
  BY <1>1, <1>2, <1>3 DEF PInit, TInv, TypeOK

(* Each handler keeps TInv.                                                *)
LEMMA JoinedTInv ==
    ASSUME TInv, ValidatorJoined
    PROVE  TInv'
BY DEF ValidatorJoined, TInv, TypeOK, CmdMapPaired

LEMMA SetTInv ==
    ASSUME TInv, ValidatorSet
    PROVE  TInv'
<1>1. PICK e \in epoch..(epoch + SetHorizon), S \in SUBSET Validators :
        \E addrs \in SetToSeqs(S) :
          /\ e \in Epochs
          /\ migrations[e] = Nil
          /\ validatorCmdMap' = [validatorCmdMap EXCEPT ![e] = addrs]
          /\ migrations' = [migrations EXCEPT ![e] = [epoch |-> e, addresses |-> addrs]]
  BY DEF ValidatorSet
<1>2. PICK addrs \in SetToSeqs(S) :
          /\ e \in Epochs
          /\ migrations[e] = Nil
          /\ validatorCmdMap' = [validatorCmdMap EXCEPT ![e] = addrs]
          /\ migrations' = [migrations EXCEPT ![e] = [epoch |-> e, addresses |-> addrs]]
  BY <1>1
<1>3. addrs \in Seq(Validators)
  BY OrderType
<1>4. e \in EpochKeys
  BY <1>2 DEF Epochs, EpochKeys
<1>5. QED
  BY <1>2, <1>3, <1>4 DEF ValidatorSet, TInv, TypeOK, CmdMapPaired, MigrateArg

LEMMA DepositTInv ==
    ASSUME TInv, Deposit
    PROVE  TInv'
<1>. DEFINE id == Len(received) + 1
            pending == IF deposits[epoch] = Nil THEN <<>> ELSE deposits[epoch]
<1>1. id \in DepositIDs
  BY DEF Deposit, TInv, TypeOK, DepositIDs
<1>2. pending \in Seq(DepositIDs)
  BY DEF TInv, TypeOK
<1>3. Append(pending, id) \in Seq(DepositIDs)
      /\ Append(received, <<id, epoch>>) \in Seq(DepositIDs \X EpochKeys)
  BY <1>1, <1>2 DEF TInv, TypeOK
<1>4. QED
  BY <1>3 DEF Deposit, TInv, TypeOK, CmdMapPaired


LEMMA SnapshotTInv ==
    ASSUME TInv, Snapshot
    PROVE  TInv'
<1>1. epoch \in Epochs /\ epoch \in EpochKeys /\ DepositLoopInRange(epoch)
  BY DEF Snapshot, Epochs, EpochKeys
<1>2. file' \in Seq(CommandLines)
  <2>1. /\ AddValidatorLines(epoch) \in Seq(CommandLines)
        /\ MigrateLines(epoch) \in Seq(CommandLines)
        /\ DepositLines(epoch) \in Seq(CommandLines)
    BY <1>1, AddValidatorLinesType, MigrateLinesType, DepositLinesType
  <2>2. file \in Seq(CommandLines)
    BY DEF TInv, TypeOK
  <2>3. QED
    BY <2>1, <2>2, ConcatProperties DEF Snapshot
<1>3. finalValidators' \in [Validators -> {Nil} \cup Epochs]
  BY <1>1 DEF Snapshot, Started, TInv, TypeOK
<1>4. epoch' \in EpochKeys /\ snapShots' \subseteq Epochs
  <2>1. epoch' = epoch + 1 /\ epoch + 1 \in EpochKeys
    BY <1>1 DEF Snapshot, Epochs, EpochKeys
  <2>2. snapShots' \subseteq snapShots \cup {epoch}
    BY DEF Snapshot, Retained
  <2>3. QED
    BY <1>1, <2>1, <2>2 DEF TInv, TypeOK
<1>5. CmdMapPaired'
  BY DEF Snapshot, TInv, TypeOK, CmdMapPaired
<1>6. QED
  BY <1>2, <1>3, <1>4, <1>5 DEF Snapshot, TInv, TypeOK

LEMMA FinalizeTInv ==
    ASSUME TInv, Finalize
    PROVE  TInv'
<1>1. PICK order \in SetToSeqs({v \in Validators : finalValidators[v] # Nil}) :
        file' = file \o BalanceLines(order) \o SnapshotLines
                     \o <<Line("SetEpoch", [number |-> epoch])>>
  BY DEF Finalize
<1>2. file' \in Seq(CommandLines)
  BY <1>1, BalanceLinesType, SnapshotLinesType, ConcatProperties DEF TInv, TypeOK
<1>3. QED
  BY <1>2 DEF Finalize, TInv, TypeOK, CmdMapPaired

(* TInv is inductive.                                                      *)
LEMMA NextTInv == TInv /\ [PNext]_pvars => TInv'
<1> SUFFICES ASSUME TInv, [PNext]_pvars PROVE TInv'
  OBVIOUS
<1>1. CASE ValidatorJoined
  BY <1>1, JoinedTInv
<1>2. CASE ValidatorSet
  BY <1>2, SetTInv
<1>3. CASE Deposit
  BY <1>3, DepositTInv
<1>4. CASE Snapshot
  BY <1>4, SnapshotTInv
<1>5. CASE Finalize
  BY <1>5, FinalizeTInv
<1>6. CASE UNCHANGED pvars
  BY <1>6 DEF pvars, TInv, TypeOK, CmdMapPaired
<1>7. QED
  BY <1>1, <1>2, <1>3, <1>4, <1>5, <1>6 DEF PNext

(* Every line the Processor writes is "{}" or the JSON of a CommandObj    *)
(* with one field set to an argument object of that field's type, and     *)
(* every map holds values of its Go type.                                  *)
THEOREM TypeCorrect == PSpec => []TypeOK
<1>1. PInit => TInv
  BY InitTInv
<1>2. TInv /\ [PNext]_pvars => TInv'
  BY NextTInv
<1>3. QED
  BY <1>1, <1>2, PTL DEF PSpec, TInv


-----------------------------------------------------------------------------
(* Snapshot keeps the window: the new snapshot is added and the one that   *)
(* is now more than ten epochs old is deleted.                             *)
LEMMA WindowStep ==
    ASSUME TInv, SnapshotWindow, Snapshot
    PROVE  SnapshotWindow'
<1>1. epoch \in Epochs /\ epoch' = epoch + 1
      /\ snapShots' = Retained(snapShots \cup {epoch}, epoch + 1)
  BY DEF Snapshot
<1>2. QED
  BY <1>1 DEF SnapshotWindow, Retained, Epochs

(* Indexing into a concatenation of files.                                 *)
LEMMA ConcatLeft ==
    ASSUME NEW s \in Seq(CommandLines), NEW t \in Seq(CommandLines),
           NEW i \in 1..Len(s)
    PROVE  (s \o t)[i] = s[i]
BY ConcatProperties

LEMMA ConcatRight ==
    ASSUME NEW s \in Seq(CommandLines), NEW t \in Seq(CommandLines),
           NEW i \in 1..Len(t)
    PROVE  (s \o t)[Len(s) + i] = t[i]
BY ConcatProperties

(* The five Snapshot lines Finalize writes after a chain's fifth epoch     *)
(* carry the snapshots of the last five epochs.                            *)
LEMMA FinalizeLatest ==
    ASSUME TInv, SnapshotWindow, Finalize
    PROVE  LatestSnapshotsMigrated'
<1>1. PICK order \in SetToSeqs({v \in Validators : finalValidators[v] # Nil}) :
        file' = file \o BalanceLines(order) \o SnapshotLines
                     \o <<Line("SetEpoch", [number |-> epoch])>>
  BY DEF Finalize
<1>. DEFINE F1 == file \o BalanceLines(order)
            F2 == F1 \o SnapshotLines
            E == <<Line("SetEpoch", [number |-> epoch])>>
<1>2. epoch' = epoch /\ snapShots' = snapShots
  BY DEF Finalize
<1>3. SUFFICES ASSUME epoch > 5, NEW j \in 1..5
               PROVE  /\ "Snapshot" \in DOMAIN file'[Len(file') - 6 + j]
                      /\ file'[Len(file') - 6 + j]["Snapshot"].snapshotID
                           = epoch - 6 + j
  BY <1>2 DEF LatestSnapshotsMigrated, IsLine
<1>4. /\ F1 \in Seq(CommandLines) /\ F2 \in Seq(CommandLines)
      /\ SnapshotLines \in Seq(CommandLines) /\ E \in Seq(CommandLines)
      /\ Len(F1) \in Nat /\ Len(SnapshotLines) = 5
      /\ Len(F2) = Len(F1) + 5 /\ Len(file') = Len(F2) + 1
      /\ file' = F2 \o E
  BY <1>1, BalanceLinesType, SnapshotLinesType, ConcatProperties
     DEF TInv, TypeOK, SnapshotLines
<1>5. file'[Len(F1) + j] = SnapshotLines[j]
  <2>1. (F2 \o E)[Len(F1) + j] = F2[Len(F1) + j]
    BY <1>4, ConcatLeft
  <2>2. (F1 \o SnapshotLines)[Len(F1) + j] = SnapshotLines[j]
    BY <1>4, ConcatRight
  <2>3. QED
    BY <1>4, <2>1, <2>2
<1>. DEFINE k == epoch - (6 - j)
<1>6. k \in Epochs /\ epoch <= k + 10 /\ k < epoch
  <2>1. epoch \in EpochKeys
    BY DEF TInv, TypeOK
  <2>2. QED
    BY <1>3, <2>1 DEF EpochKeys, Epochs
<1>7. k % Word = k
  <2>1. k \in 0..(Word - 1) /\ Word \in Nat \ {0}
    BY <1>6 DEF Epochs
  <2>2. QED
    BY <2>1
<1>8. SnapshotAt(k) = [snapshotID |-> k] /\ [snapshotID |-> k] # Nil
  <2>1. k \in snapShots
    BY <1>6 DEF SnapshotWindow
  <2>2. [snapshotID |-> k] \in ArgType["Snapshot"]
    BY <1>6 DEF ArgType, SnapshotArg
  <2>3. QED
    BY <2>1, <2>2, NilAssumption DEF SnapshotAt, Kinds
<1>9. file'[Len(F1) + j] = [f \in {"Snapshot"} |-> [snapshotID |-> k]]
  <2>1. SnapshotLines[j] = Line("Snapshot", SnapshotAt(k))
    BY <1>7 DEF SnapshotLines
  <2>2. QED
    BY <1>5, <1>8, <2>1, LineOfArg DEF Kinds
<1>10. Len(file') - 6 + j = Len(F1) + j
  BY <1>4
<1>11. file'[Len(file') - 6 + j] = [f \in {"Snapshot"} |-> [snapshotID |-> k]]
  BY <1>9, <1>10
<1>12. k = epoch - 6 + j
  BY DEF TInv, TypeOK, EpochKeys
<1>13. QED
  BY <1>11, <1>12

(* IInv holds initially and is inductive.                                  *)
LEMMA InitIInv == PInit => IInv
BY InitTInv DEF PInit, IInv, SnapshotWindow, LatestSnapshotsMigrated, Epochs

LEMMA NextIInv == IInv /\ [PNext]_pvars => IInv'
<1> SUFFICES ASSUME IInv, [PNext]_pvars PROVE IInv'
  OBVIOUS
<1>1. TInv'
  BY NextTInv DEF IInv
<1>2. CASE Finalize
  <2>1. SnapshotWindow'
    BY <1>2 DEF Finalize, IInv, SnapshotWindow
  <2>2. QED
    BY <1>1, <1>2, <2>1, FinalizeLatest DEF IInv
<1>3. CASE Snapshot
  BY <1>1, <1>3, WindowStep DEF Snapshot, IInv, LatestSnapshotsMigrated
<1>4. CASE ValidatorJoined \/ ValidatorSet \/ Deposit
  BY <1>1, <1>4 DEF ValidatorJoined, ValidatorSet, Deposit, IInv,
                    SnapshotWindow, LatestSnapshotsMigrated
<1>5. CASE UNCHANGED pvars
  BY <1>1, <1>5 DEF pvars, IInv, SnapshotWindow, LatestSnapshotsMigrated, IsLine
<1>6. QED
  BY <1>2, <1>3, <1>4, <1>5 DEF PNext

(* On a chain past its fifth epoch, the last five snapshots are migrated:  *)
(* NextEpoch's pruning never deletes one that Finalize writes.             *)
THEOREM SnapshotsMigratedHolds == PSpec => []LatestSnapshotsMigrated
<1>1. PInit => IInv
  BY InitIInv
<1>2. IInv /\ [PNext]_pvars => IInv'
  BY NextIInv
<1>3. QED
  BY <1>1, <1>2, PTL DEF PSpec, IInv

=============================================================================
