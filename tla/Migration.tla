------------------------------ MODULE Migration ------------------------------
(***************************************************************************)
(* The Processor's file replayed by the Migrator (src/cmd/utils/           *)
(* migrator.go, reader.go).  Once Finalize has run and the file is closed  *)
(* (its close function flushes the bufio.Writer), Migrate reads it line by *)
(* line: each command is dispatched as a transaction and the Migrator      *)
(* waits for its receipt before the next line.  The process may crash at  *)
(* any point, and a failed receipt ends the run with an error; the tool is *)
(* then run again, at most MaxRuns times in all.                           *)
(***************************************************************************)
EXTENDS Processor

CONSTANT MaxRuns    \* the number of times the Migrator is run

ASSUME RunsAssumption == MaxRuns \in Nat

(* startLine: never assigned (NewMigrator panics), so it keeps Go's zero. *)
StartLine == 0

VARIABLES
    mline,     \* the loop counter i of Migrate: lines read in this run
    mstate,    \* "idle", "running", "waiting", "done", "failed", "crashed", "panicked"
    runs,      \* the runs started so far
    executed,  \* history: the file lines the chain has executed, in order
    confirmed  \* history: positions of executed whose receipt came back

mvars == <<mline, mstate, runs, executed, confirmed>>
vars == <<pvars, mvars>>

Init ==
    /\ PInit
    /\ mline = 0
    /\ mstate = "idle"
    /\ runs = 0
    /\ executed = <<>>
    /\ confirmed = {}

(* The Migrator is started on the closed file, first or after a failed,   *)
(* crashed run.                                                            *)
StartMigrator ==
    /\ finalized
    /\ mstate \in {"idle", "failed", "crashed"}
    /\ runs < MaxRuns
    /\ mline' = 0
    /\ mstate' = "running"
    /\ runs' = runs + 1
    /\ UNCHANGED <<pvars, executed, confirmed>>

(* Mutant: the first line after startLine is skipped as well.              *)
MutSkipped(i) == i <= StartLine
(* Lines before startLine are read and passed over.                        *)
Skipped(i) == i < StartLine

(* ReadLine returns io.EOF after the last line: Migrate returns nil.       *)
ReadEOF ==
    /\ mstate = "running"
    /\ mline >= Len(file)
    /\ mstate' = "done"
    /\ UNCHANGED <<pvars, mline, runs, executed, confirmed>>

(* A line before startLine is passed over.  Otherwise it is unmarshalled  *)
(* and dispatched: a command with no field set makes Dispatch panic;       *)
(* otherwise its transaction is sent and executed by the chain, or the     *)
(* binding returns an error and Migrate returns it, nothing executed.      *)
ReadDispatch ==
    /\ mstate = "running"
    /\ mline < Len(file)
    /\ IF Skipped(mline)
       THEN /\ mline' = mline + 1
            /\ UNCHANGED <<mstate, executed>>
       ELSE /\ UNCHANGED mline
            /\ IF Dispatchable(Unmarshal(file[mline + 1]))
               THEN \/ /\ mstate' = "waiting"
                       /\ executed' = Append(executed, mline + 1)
                    \/ /\ mstate' = "failed"
                       /\ UNCHANGED executed
               ELSE /\ mstate' = "panicked"
                    /\ UNCHANGED executed
    /\ UNCHANGED <<pvars, runs, confirmed>>

(* WaitForReceipt returns: the loop goes on with the next line, or the run *)
(* ends with the error although the transaction was executed.              *)
Receipt ==
    /\ mstate = "waiting"
    /\ \/ /\ mline' = mline + 1
          /\ mstate' = "running"
          /\ confirmed' = confirmed \cup {Len(executed)}
       \/ /\ mstate' = "failed"
          /\ UNCHANGED <<mline, confirmed>>
    /\ UNCHANGED <<pvars, runs, executed>>

(* The Migrator process dies.                                              *)
Crash ==
    /\ mstate \in {"running", "waiting"}
    /\ mstate' = "crashed"
    /\ UNCHANGED <<pvars, mline, runs, executed, confirmed>>

Next ==
    \/ PNext /\ UNCHANGED mvars
    \/ StartMigrator \/ ReadEOF \/ ReadDispatch \/ Receipt \/ Crash

Spec == Init /\ [][Next]_vars

-----------------------------------------------------------------------------
(* Once a Migrator run returns nil, the chain has executed every line of   *)
(* the file, and the last run executed them all in file order.             *)
MigrationComplete ==
    mstate = "done" =>
        LET n == Len(file)
        IN  /\ Len(executed) >= n
            /\ \A i \in 1..n : executed[Len(executed) - n + i] = i

(* The comments on Migrator.w and startLine say each command is to be    *)
(* recorded once it succeeds, so that a later run starts after it: no      *)
(* line whose receipt came back is sent to the chain again.                *)
NoResendAfterReceipt ==
    \A j \in confirmed, i \in 1..Len(executed) :
        i > j => executed[i] # executed[j]

=============================================================================
