------------------------------ MODULE Processor ------------------------------
(***************************************************************************)
(* The migration Processor (src/cmd/utils/processor.go): it is fed the     *)
(* chain's events in order and writes the migration file, one CommandObj   *)
(* per line (Writer.WriteLine).  Each handler is one action; the file is a *)
(* sequence of lines.  Parse errors of the contract bindings and lookups   *)
(* in the consensus DB are not modelled: they return an error that ends   *)
(* the tool.                                                               *)
(***************************************************************************)
EXTENDS Command, Integers, Sequences, SequencesExt

CONSTANTS
    Validators,    \* the validator addresses
    MadIDs,        \* the MadIDs a ValidatorJoined event may carry
    MaxEpoch,      \* the last epoch the chain snapshots
    SetHorizon,    \* how many epochs ahead a ValidatorSet event may name
    MaxDeposits,   \* the number of DepositReceived events
    Word           \* 2^32: epochs and their differences are uint32

ASSUME EpochAssumption == MaxEpoch \in Nat /\ SetHorizon \in Nat
ASSUME DepositAssumption == MaxDeposits \in Nat
(* A wrapped-around epoch difference is above every epoch.                *)
ASSUME WordAssumption == Word \in Nat /\ Word > MaxEpoch + 6

ASSUME ValidatorsAssumption == IsFiniteSet(Validators)

Epochs == 1..MaxEpoch
(* p.epoch runs from 1 to one past the last snapshot.                       *)
EpochKeys == 1..(MaxEpoch + 1)
DepositIDs == 1..MaxDeposits

(***************************************************************************)
(* The argument objects of cmdtypes.go, with the fields the model keeps:   *)
(* a SetBalancesFor keeps its address and the number of epochs its         *)
(* UnlockedReward pays for, an AddValidatorImmediate its address and       *)
(* MadID, a DirectDeposit its id, a Migrate its epoch and address list, a  *)
(* Snapshot its id, a SetEpoch its number.                                 *)
(***************************************************************************)
SetBalancesForArg == [who: Validators, epochs: 0..(Word - 1)]
AddValidatorImmediateArg == [validator: Validators, madID: {Nil} \cup MadIDs]
DirectDepositArg == [id: DepositIDs]
MigrateArg == [epoch: Epochs, addresses: Seq(Validators)]
SnapshotArg == [snapshotID: Epochs]
SetEpochArg == [number: EpochKeys]

(* The argument type of each field of CommandObj.                          *)
ArgType ==
    [SetBalancesFor |-> SetBalancesForArg,
     AddValidatorImmediate |-> AddValidatorImmediateArg,
     DirectDeposit |-> DirectDepositArg, Migrate |-> MigrateArg,
     Snapshot |-> SnapshotArg, SetEpoch |-> SetEpochArg]

(* A nil pointer is no argument object.                                    *)
ASSUME NilAssumption == \A k \in Kinds : Nil \notin ArgType[k]
(* A missing map entry is no epoch.                                         *)
ASSUME NilEpochAssumption == Nil \notin EpochKeys

(* The JSON lines WriteLine can produce: "{}", or one key with an argument *)
(* object of that key's type.                                              *)
CommandLines ==
    [{} -> {}] \cup [SetBalancesFor: SetBalancesForArg]
    \cup [AddValidatorImmediate: AddValidatorImmediateArg]
    \cup [DirectDeposit: DirectDepositArg] \cup [Migrate: MigrateArg]
    \cup [Snapshot: SnapshotArg] \cup [SetEpoch: SetEpochArg]

VARIABLES
    epoch,            \* p.epoch
    validatorIDMap,   \* p.validatorIDMap: address -> MadID, or Nil
    validatorCmdMap,  \* p.validatorCmdMap: epoch -> validators to add
    migrations,       \* p.migrations: epoch -> Migrate, or Nil
    deposits,         \* p.deposits: epoch -> DirectDeposit ids, or Nil
    snapShots,        \* the keys of p.snapShots
    finalValidators,  \* p.finalValidators: address -> start epoch, or Nil
    file,             \* the lines written so far
    finalized,        \* Finalize has run
    received          \* history: <<deposit id, p.epoch when received>>

pvars == <<epoch, validatorIDMap, validatorCmdMap, migrations, deposits,
           snapShots, finalValidators, file, finalized, received>>

(* NewProcessor: epoch 1, every map empty, the file just created.          *)
PInit ==
    /\ epoch = 1
    /\ validatorIDMap = [v \in Validators |-> Nil]
    /\ validatorCmdMap = [e \in EpochKeys |-> Nil]
    /\ migrations = [e \in EpochKeys |-> Nil]
    /\ deposits = [e \in EpochKeys |-> Nil]
    /\ snapShots = {}
    /\ finalValidators = [v \in Validators |-> Nil]
    /\ file = <<>>
    /\ finalized = FALSE
    /\ received = <<>>

-----------------------------------------------------------------------------
(* ValidatorJoined: the validator's MadID is recorded, replacing any       *)
(* earlier one.                                                            *)
ValidatorJoined ==
    /\ ~finalized
    /\ \E v \in Validators, id \in MadIDs :
         validatorIDMap' = [validatorIDMap EXCEPT ![v] = id]
    /\ UNCHANGED <<epoch, validatorCmdMap, migrations, deposits, snapShots,
                   finalValidators, file, finalized, received>>

(* ValidatorSet: the validator set read from the consensus DB at the      *)
(* event's height becomes the list of validators to add and the Migrate   *)
(* command of the event's epoch.  The chain completes ETHDKG once per      *)
(* epoch, for the current epoch or one at most SetHorizon ahead.           *)
ValidatorSet ==
    /\ ~finalized
    /\ \E e \in epoch..(epoch + SetHorizon), S \in SUBSET Validators :
         \E addrs \in SetToSeqs(S) :
           /\ e \in Epochs
           /\ migrations[e] = Nil
           /\ validatorCmdMap' = [validatorCmdMap EXCEPT ![e] = addrs]
           /\ migrations' = [migrations EXCEPT ![e] = [epoch |-> e, addresses |-> addrs]]
    /\ UNCHANGED <<epoch, validatorIDMap, deposits, snapShots, finalValidators,
                   file, finalized, received>>

(* Deposit: the deposit is appended to the list of the current epoch.      *)
Deposit ==
    /\ ~finalized
    /\ Len(received) < MaxDeposits
    /\ LET id == Len(received) + 1
           pending == IF deposits[epoch] = Nil THEN <<>> ELSE deposits[epoch]
       IN  /\ deposits' = [deposits EXCEPT ![epoch] = Append(pending, id)]
           /\ received' = Append(received, <<id, epoch>>)
    /\ UNCHANGED <<epoch, validatorIDMap, validatorCmdMap, migrations, snapShots,
                   finalValidators, file, finalized>>

-----------------------------------------------------------------------------
(* NextEpoch(e), the lines it writes: for a pending migration, one         *)
(* AddValidatorImmediate per validator with the MadID known now, then the  *)
(* Migrate; for pending deposits, one DirectDeposit per index below        *)
(* len(p.deposits), the number of epochs with pending deposits.            *)
AddValidatorLines(e) ==
    IF migrations[e] = Nil THEN <<>>
    ELSE [i \in 1..Len(validatorCmdMap[e]) |->
            Line("AddValidatorImmediate",
                 [validator |-> validatorCmdMap[e][i],
                  madID |-> validatorIDMap[validatorCmdMap[e][i]]])]

MigrateLines(e) ==
    IF migrations[e] = Nil THEN <<>> ELSE <<Line("Migrate", migrations[e])>>

PendingDepositEpochs == Cardinality({k \in EpochKeys : deposits[k] # Nil})

(* NextEpoch's loop: for i < len(p.deposits), the number of epochs with   *)
(* pending deposits, write a DirectDeposit for p.deposits[epoch][i].      *)
DepositLines(e) ==
    IF deposits[e] = Nil THEN <<>>
    ELSE [i \in 1..PendingDepositEpochs |->
            Line("DirectDeposit", [id |-> deposits[e][i]])]

(* The index deposits[e][i] of line 211 is in range.                       *)
DepositLoopInRange(e) ==
    deposits[e] # Nil => PendingDepositEpochs <= Len(deposits[e])

(* Mutant: a validator keeps the start of its first migration.            *)
MutStartedFirst(e) ==
    IF migrations[e] = Nil THEN finalValidators
    ELSE [v \in Validators |->
            IF /\ \E i \in 1..Len(validatorCmdMap[e]) : validatorCmdMap[e][i] = v
               /\ finalValidators[v] = Nil
            THEN e ELSE finalValidators[v]]
(* The validators of the migration start at epoch e.                       *)
Started(e) ==
    IF migrations[e] = Nil THEN finalValidators
    ELSE [v \in Validators |->
            IF \E i \in 1..Len(validatorCmdMap[e]) : validatorCmdMap[e][i] = v
            THEN e ELSE finalValidators[v]]

(* Mutant: the snapshot is stored under p.epoch once NextEpoch has moved   *)
(* it on.                                                                  *)
MutRetainedAfter(keys, next) ==
    {se \in (keys \ {next - 1}) \cup {next} : ~(se + 10 < next)}
(* Mutant: snapshots are kept for four epochs only.                        *)
MutRetained(keys, next) == {se \in keys : ~(se + 4 < next)}
(* The snapshots kept once p.epoch is next: the others are deleted.        *)
Retained(keys, next) == {se \in keys : ~(se + 10 < next)}

(* Snapshot: the snapshot of the event's epoch, which is p.epoch (the      *)
(* contract takes one snapshot per epoch, in order), is recorded and       *)
(* NextEpoch(epoch) runs: it writes the epoch's lines, drops the written   *)
(* maps' entries, moves to the next epoch and prunes old snapshots.        *)
Snapshot ==
    /\ ~finalized
    /\ epoch \in Epochs
    /\ DepositLoopInRange(epoch)
    /\ file' = file \o AddValidatorLines(epoch) \o MigrateLines(epoch)
                    \o DepositLines(epoch)
    /\ finalValidators' = Started(epoch)
    /\ validatorCmdMap' = [validatorCmdMap EXCEPT ![epoch] = Nil]
    /\ migrations' = [migrations EXCEPT ![epoch] = Nil]
    /\ deposits' = [deposits EXCEPT ![epoch] = Nil]
    /\ epoch' = epoch + 1
    /\ snapShots' = Retained(snapShots \cup {epoch}, epoch + 1)
    /\ UNCHANGED <<validatorIDMap, finalized, received>>

-----------------------------------------------------------------------------
(* Finalize: one SetBalancesFor per final validator, in Go's map order     *)
(* (any order), with the reward for the epochs since its start; then the   *)
(* snapshots of keys p.epoch-5 .. p.epoch-1 in uint32 arithmetic (a        *)
(* missing key gives a nil Snapshot); then SetEpoch.                       *)
BalanceLines(order) ==
    [i \in 1..Len(order) |->
        Line("SetBalancesFor",
             [who |-> order[i],
              epochs |-> (epoch - finalValidators[order[i]]) % Word])]

SnapshotAt(k) == IF k \in snapShots THEN [snapshotID |-> k] ELSE Nil

SnapshotLines ==
    [j \in 1..5 |-> Line("Snapshot", SnapshotAt((epoch - (6 - j)) % Word))]

Finalize ==
    /\ ~finalized
    /\ \E order \in SetToSeqs({v \in Validators : finalValidators[v] # Nil}) :
         file' = file \o BalanceLines(order) \o SnapshotLines
                      \o <<Line("SetEpoch", [number |-> epoch])>>
    /\ finalized' = TRUE
    /\ UNCHANGED <<epoch, validatorIDMap, validatorCmdMap, migrations, deposits,
                   snapShots, finalValidators, received>>

PNext ==
    \/ ValidatorJoined
    \/ ValidatorSet
    \/ Deposit
    \/ Snapshot
    \/ Finalize

PSpec == PInit /\ [][PNext]_pvars


-----------------------------------------------------------------------------
(***************************************************************************)
(* Properties                                                              *)
(***************************************************************************)
TypeOK ==
    /\ epoch \in EpochKeys
    /\ validatorIDMap \in [Validators -> {Nil} \cup MadIDs]
    /\ validatorCmdMap \in [EpochKeys -> {Nil} \cup Seq(Validators)]
    /\ deposits \in [EpochKeys -> {Nil} \cup Seq(DepositIDs)]
    /\ snapShots \subseteq Epochs
    /\ finalValidators \in [Validators -> {Nil} \cup Epochs]
    /\ migrations \in [EpochKeys -> {Nil} \cup MigrateArg]
    /\ file \in Seq(CommandLines)
    /\ finalized \in BOOLEAN
    /\ received \in Seq(DepositIDs \X EpochKeys)

(* The line at index i holds a command of kind k.                          *)
IsLine(i, k) == k \in DOMAIN file[i]
LinesOf(k) == {i \in 1..Len(file) : IsLine(i, k)}

(* Every line of the file holds a command, so that Migrator.Dispatch does  *)
(* not panic on it ("no type for command").                                *)
EveryLineHasCommand ==
    \A i \in 1..Len(file) : Dispatchable(Unmarshal(file[i]))

(* Once Finalize has run on a chain past its fifth epoch, the five         *)
(* Snapshot lines it writes carry the snapshots of the last five epochs:   *)
(* NextEpoch's pruning kept every snapshot Finalize looks up.              *)
LatestSnapshotsMigrated ==
    finalized /\ epoch > 5 =>
        \A j \in 1..5 :
            LET i == Len(file) - 6 + j
            IN  /\ IsLine(i, "Snapshot")
                /\ file[i]["Snapshot"].snapshotID = epoch - 6 + j

(* The epoch of the first Migrate line after line i.                       *)
MigrateEpochAfter(i) ==
    file[Min({j \in LinesOf("Migrate") : j > i})]["Migrate"].epoch

(* Finalize pays each validator the reward of the epochs since the         *)
(* migration that last added it: one SetBalancesFor per validator that an *)
(* AddValidatorImmediate line names, counting from the epoch of the        *)
(* Migrate line that follows its last AddValidatorImmediate line.          *)
RewardsFromLastMigration ==
    finalized =>
        \A v \in Validators :
            LET added == {i \in LinesOf("AddValidatorImmediate") :
                            file[i]["AddValidatorImmediate"].validator = v}
                paid == {i \in LinesOf("SetBalancesFor") :
                            file[i]["SetBalancesFor"].who = v}
            IN  /\ added = {} => paid = {}
                /\ added # {} =>
                     \E b \in paid :
                        /\ paid = {b}
                        /\ file[b]["SetBalancesFor"].epochs
                             = epoch - MigrateEpochAfter(Max(added))

(* Every deposit received in an epoch that has been snapshotted is written *)
(* as exactly one DirectDeposit line.                                      *)
DepositsWrittenOnce ==
    \A r \in Range(received) :
        r[2] < epoch =>
            Cardinality({i \in LinesOf("DirectDeposit") :
                           file[i]["DirectDeposit"].id = r[1]}) = 1

(* Once Finalize has run, every deposit received is in the file.           *)
FinalizeMigratesAllDeposits ==
    finalized =>
        \A r \in Range(received) :
            \E i \in LinesOf("DirectDeposit") : file[i]["DirectDeposit"].id = r[1]

=============================================================================
