------------------------------ MODULE EventFeed ------------------------------
(***************************************************************************)
(* What the Ethereum monitor promises the event processors, abstractly: a  *)
(* consumer of the finalized chain that has run the processor of every     *)
(* effective log of blocks 1..processed exactly once, and of no other      *)
(* log.  It moves forward over finalized blocks only, may save its         *)
(* position as a checkpoint, and on recovery resumes from the checkpoint   *)
(* with the effects of exactly the blocks up to it.  How the blocks are    *)
(* fetched, in how many batches, and what the endpoint reports is left     *)
(* out; Monitor implements this specification (see ImplementsEventFeed).   *)
(***************************************************************************)
EXTENDS Naturals

CONSTANTS
    MaxBlock,       \* the highest block the chain finalizes
    LogCount,       \* LogCount[b]: the number of logs in blocks 1..b
    EffectiveLogs   \* the logs whose processor changes the state

VARIABLES
    finalized,      \* the chain's finalized height
    processed,      \* the height up to which the processors have run
    checkpoint,     \* the saved height a recovery resumes from
    applied         \* applied[l]: how often log l's processor has run

feedvars == <<finalized, processed, checkpoint, applied>>

Logs == 1..LogCount[MaxBlock]

(* The effects of running each effective log of blocks 1..h exactly once.  *)
EffectsUpTo(h) ==
    [l \in Logs |-> IF l <= LogCount[h] /\ l \in EffectiveLogs THEN 1 ELSE 0]

Init ==
    /\ finalized = 0
    /\ processed = 0
    /\ checkpoint = 0
    /\ applied = EffectsUpTo(0)

(* The chain finalizes one more block.                                     *)
Finalize ==
    /\ finalized < MaxBlock
    /\ finalized' = finalized + 1
    /\ UNCHANGED <<processed, checkpoint, applied>>

(* The next blocks, up to some finalized height, are consumed.             *)
Consume ==
    /\ \E h \in (processed + 1)..finalized :
         /\ processed' = h
         /\ applied' = EffectsUpTo(h)
    /\ UNCHANGED <<finalized, checkpoint>>

(* The current position is saved.                                          *)
Save ==
    /\ checkpoint' = processed
    /\ UNCHANGED <<finalized, processed, applied>>

(* After a crash the consumer resumes from the checkpoint.                 *)
Recover ==
    /\ processed' = checkpoint
    /\ applied' = EffectsUpTo(checkpoint)
    /\ UNCHANGED <<finalized, checkpoint>>

Next == Finalize \/ Consume \/ Save \/ Recover

Spec == Init /\ [][Next]_feedvars

=============================================================================
