--------------------------- MODULE MigrationProofs ---------------------------
(***************************************************************************)
(* Proof that MigrationComplete holds for every validator set, epoch bound *)
(* and number of runs.  The Migrator is started only on a finalized file,  *)
(* which no Processor step changes afterwards; within a run, the chain's   *)
(* history ends with lines 1..mline of the file, in order, and mline never *)
(* passes the file's length, so a run that reaches EOF has executed every  *)
(* line of it, in file order.                                              *)
(***************************************************************************)
EXTENDS Migration, ProcessorProofs

USE RunsAssumption

(* The history ends with lines 1..k of the file, in order.                 *)
EndsWithLines(k) ==
    /\ Len(executed) >= k
    /\ \A i \in 1..k : executed[Len(executed) - k + i] = i

MStates ==
    {"idle", "running", "waiting", "done", "failed", "crashed", "panicked"}

MInv ==
    /\ TInv
    /\ mline \in Nat
    /\ executed \in Seq(Nat)
    /\ mstate \in MStates
    /\ runs \in Nat
    /\ mstate # "idle" => finalized
    /\ mstate \in {"running", "done"} =>
         mline <= Len(file) /\ EndsWithLines(mline)
    /\ mstate = "waiting" => mline < Len(file) /\ EndsWithLines(mline + 1)
    /\ mstate = "done" => mline = Len(file)


(* The Processor steps all require ~finalized: once the Migrator has been  *)
(* started, the file is frozen.                                           *)
LEMMA ProcessorStepsBeforeFinalize == PNext => ~finalized
BY DEF PNext, ValidatorJoined, ValidatorSet, Deposit, Snapshot, Finalize

(* A Migrator step leaves the Processor's state, so TInv, alone.           *)
LEMMA TInvFrame == TInv /\ UNCHANGED pvars => TInv'
BY DEF TInv, TypeOK, CmdMapPaired, pvars

(* A transaction sent for line k + 1 extends a history that ends with     *)
(* lines 1..k to one that ends with lines 1..k+1.                           *)
LEMMA AppendLine ==
    ASSUME NEW h \in Seq(Nat), NEW k \in Nat,
           Len(h) >= k,
           \A i \in 1..k : h[Len(h) - k + i] = i
    PROVE  /\ Append(h, k + 1) \in Seq(Nat)
           /\ Len(Append(h, k + 1)) >= k + 1
           /\ \A i \in 1..(k + 1) :
                Append(h, k + 1)[Len(Append(h, k + 1)) - (k + 1) + i] = i
<1>1. /\ Len(h) \in Nat
      /\ Append(h, k + 1) \in Seq(Nat)
      /\ Len(Append(h, k + 1)) = Len(h) + 1
      /\ \A j \in 1..Len(h) : Append(h, k + 1)[j] = h[j]
      /\ Append(h, k + 1)[Len(h) + 1] = k + 1
  BY AppendProperties, LenProperties
<1>2. \A i \in 1..(k + 1) :
        Append(h, k + 1)[Len(Append(h, k + 1)) - (k + 1) + i] = i
  <2>1. SUFFICES ASSUME NEW i \in 1..(k + 1)
               PROVE  Append(h, k + 1)[Len(Append(h, k + 1)) - (k + 1) + i] = i
    BY Zenon
  <2>2. CASE i = k + 1
    <3>1. Len(Append(h, k + 1)) - (k + 1) + i = Len(h) + 1
      BY <1>1, <2>2
    <3>2. QED
      BY <1>1, <2>2, <3>1
  <2>3. CASE i \in 1..k
    <3>1. Len(Append(h, k + 1)) - (k + 1) + i = Len(h) - k + i
      BY <1>1, <2>3
    <3>2. Len(h) - k + i \in 1..Len(h)
      BY <2>3
    <3>3. QED
      BY <1>1, <2>3, <3>1, <3>2
  <2>4. i = k + 1 \/ i \in 1..k
    OBVIOUS
  <2>5. QED
    BY <2>2, <2>3, <2>4, Zenon
<1>3. Len(Append(h, k + 1)) >= k + 1
  BY <1>1
<1>4. QED
  BY <1>1, <1>2, <1>3, Zenon

LEMMA InitMInv == Init => MInv
BY InitTInv DEF Init, MInv, MStates

LEMMA NextMInv == MInv /\ [Next]_vars => MInv'
<1> SUFFICES ASSUME MInv, [Next]_vars PROVE MInv'
  OBVIOUS
<1>0. Len(file) \in Nat
  BY DEF MInv, TInv, TypeOK
<1>1. CASE PNext /\ UNCHANGED mvars
  <2>1. mstate = "idle" /\ mstate' = "idle"
    BY <1>1, ProcessorStepsBeforeFinalize DEF MInv, mvars
  <2>2. TInv'
    BY <1>1, NextTInv DEF MInv
  <2>3. QED
    BY <1>1, <2>1, <2>2 DEF MInv, mvars, MStates
<1>. DEFINE Frame == /\ TInv' /\ finalized' = finalized /\ file' = file
<1>9. UNCHANGED pvars => Frame
  BY TInvFrame DEF MInv, pvars
<1>2. CASE StartMigrator
  <2>1. /\ UNCHANGED pvars /\ finalized
        /\ mline' = 0 /\ mstate' = "running" /\ runs' = runs + 1
        /\ executed' = executed
    BY <1>2 DEF StartMigrator
  <2>2. QED
    BY <1>0, <1>9, <2>1 DEF MInv, MStates, EndsWithLines
<1>3. CASE ReadEOF
  <2>1. /\ UNCHANGED pvars /\ mstate = "running" /\ mline >= Len(file)
        /\ mstate' = "done" /\ UNCHANGED <<mline, runs, executed>>
    BY <1>3 DEF ReadEOF
  <2>2. QED
    BY <1>0, <1>9, <2>1 DEF MInv, MStates, EndsWithLines
<1>4. CASE ReadDispatch
  <2>1. ~Skipped(mline)
    BY DEF MInv, Skipped, StartLine
  <2>2. /\ mstate = "running" /\ mline < Len(file) /\ UNCHANGED pvars
        /\ mline' = mline /\ runs' = runs
    BY <1>4, <2>1 DEF ReadDispatch
  <2>3. Frame
    BY <1>9, <2>2
  <2>4. CASE mstate' = "waiting"
    <3>1. executed' = Append(executed, mline + 1)
      BY <1>4, <2>1, <2>4 DEF ReadDispatch
    <3>2. /\ executed' \in Seq(Nat)
          /\ Len(executed') >= mline + 1
          /\ \A i \in 1..(mline + 1) :
               executed'[Len(executed') - (mline + 1) + i] = i
      <4>1. /\ executed \in Seq(Nat) /\ mline \in Nat /\ Len(executed) >= mline
            /\ \A i \in 1..mline : executed[Len(executed) - mline + i] = i
        BY <2>2 DEF MInv, EndsWithLines
      <4>2. QED
        BY <3>1, <4>1, AppendLine, Zenon
    <3>3. QED
      BY <2>2, <2>3, <2>4, <3>2 DEF MInv, MStates, EndsWithLines
  <2>5. CASE mstate' # "waiting"
    <3>1. mstate' \in {"failed", "panicked"} /\ executed' = executed
      BY <1>4, <2>1, <2>5 DEF ReadDispatch
    <3>2. QED
      BY <2>2, <2>3, <3>1 DEF MInv, MStates
  <2>6. QED
    BY <2>4, <2>5
<1>5. CASE Receipt
  <2>1. /\ UNCHANGED pvars /\ mstate = "waiting"
        /\ UNCHANGED <<runs, executed>>
        /\ \/ mline' = mline + 1 /\ mstate' = "running"
           \/ mstate' = "failed" /\ mline' = mline
    BY <1>5 DEF Receipt
  <2>2. Frame /\ finalized /\ mline < Len(file) /\ EndsWithLines(mline + 1)
    BY <1>9, <2>1 DEF MInv
  <2>3. CASE mline' = mline + 1 /\ mstate' = "running"
    <3>1. EndsWithLines(mline)'
      BY <2>1, <2>2, <2>3 DEF EndsWithLines
    <3>2. QED
      BY <1>0, <2>1, <2>2, <2>3, <3>1, SMTT(20) DEF MInv, MStates
  <2>4. CASE mstate' = "failed" /\ mline' = mline
    BY <2>1, <2>2, <2>4 DEF MInv, MStates
  <2>5. QED
    BY <2>1, <2>3, <2>4
<1>6. CASE Crash
  <2>1. /\ UNCHANGED pvars /\ mstate' = "crashed"
        /\ mstate \in {"running", "waiting"}
        /\ UNCHANGED <<mline, runs, executed>>
    BY <1>6 DEF Crash
  <2>2. Frame /\ finalized
    BY <1>9, <2>1 DEF MInv
  <2>3. QED
    BY <2>1, <2>2 DEF MInv, MStates, EndsWithLines
<1>7. CASE UNCHANGED vars
  <2>1. UNCHANGED pvars /\ UNCHANGED <<mline, mstate, runs, executed>>
    BY <1>7 DEF vars, mvars
  <2>2. QED
    BY <1>9, <2>1 DEF MInv, MStates, EndsWithLines
<1>8. QED
  BY <1>1, <1>2, <1>3, <1>4, <1>5, <1>6, <1>7, Zenon DEF Next

(* Whatever the file, the failures and the crashes, a Migrator run that    *)
(* returns nil at EOF has executed every line of the file, the last run    *)
(* all of them in file order.                                              *)
THEOREM MigrationCompleteHolds == Spec => []MigrationComplete
<1>1. MInv => MigrationComplete
  <2>1. SUFFICES ASSUME MInv, mstate = "done" PROVE MigrationComplete
    BY DEF MigrationComplete
  <2>2. mline = Len(file) /\ EndsWithLines(mline)
    BY <2>1 DEF MInv
  <2>3. QED
    BY <2>1, <2>2, Zenon DEF EndsWithLines, MigrationComplete
<1>2. QED
  BY <1>1, InitMInv, NextMInv, PTL DEF Spec

=============================================================================
