---------------------------- MODULE MonitorProofs ----------------------------
(***************************************************************************)
(* Proofs about the Ethereum monitor, for every chain, batch size, retry   *)
(* count and bound: the type invariant, the inductive invariant behind     *)
(* AppliedExactlyOnce and ProcessedOnlyFinalized, and the action property  *)
(* CheckpointMonotone.                                                     *)
(***************************************************************************)
EXTENDS Monitor, TLAPS

USE MaxBlockAssumption, BatchSizeAssumption, CountAssumption


(* The gob round trip of a MonitorState gives the state back.              *)
LEMMA GobRoundTripIdentity ==
    ASSUME NEW s \in MonitorStates
    PROVE  GobRoundTrip(s) = s
BY DEF GobRoundTrip, MonitorStates

(* Running the processors on a batch keeps the per-log counts natural.     *)
LEMMA ProcessLogsType ==
    ASSUME NEW a \in [Logs -> Nat], NEW lo \in Nat, NEW hi \in Nat
    PROVE  ProcessLogs(a, lo, hi) \in [Logs -> Nat]
BY DEF ProcessLogs

(* The batch ends at a height no higher than the finalized height read.    *)
LEMMA LastBlockBound ==
    ASSUME NEW s \in MonitorStates, NEW h2 \in Heights,
           s.HighestBlockProcessed <= h2
    PROVE  /\ LastBlock(s, h2) \in Heights
           /\ LastBlock(s, h2) <= h2
           /\ LastBlock(s, h2) >= s.HighestBlockProcessed
BY DEF LastBlock, MonitorStates, Heights

LEMMA InitialStateType == InitialState \in MonitorStates
BY DEF InitialState, MonitorStates, Heights

(* Updating one field of a MonitorState with a value of the field's type   *)
(* gives a MonitorState.                                                   *)
LEMMA FieldUpdates ==
  \A s \in MonitorStates :
    /\ \A v \in Heights :
         [s EXCEPT !.HighestBlockProcessed = v] \in MonitorStates
    /\ \A v \in Heights :
         [s EXCEPT !.HighestBlockFinalized = v] \in MonitorStates
    /\ \A v \in 0..MaxFailures :
         [s EXCEPT !.CommunicationFailures = v] \in MonitorStates
    /\ \A v \in BOOLEAN : [s EXCEPT !.EthereumInSync = v] \in MonitorStates
    /\ \A v \in BOOLEAN : [s EXCEPT !.InSync = v] \in MonitorStates
    /\ \A v \in 0..MaxPeers : [s EXCEPT !.PeerCount = v] \in MonitorStates
    /\ \A v \in [Logs -> Nat] : [s EXCEPT !.applied = v] \in MonitorStates
BY DEF MonitorStates

LEMMA EndpointOkType ==
    ASSUME NEW s \in MonitorStates, NEW syncing \in BOOLEAN,
           NEW peers \in 0..MaxPeers
    PROVE  [EndpointChecked(s, syncing, peers)
               EXCEPT !.CommunicationFailures = 0] \in MonitorStates
<1>. DEFINE eis == ~syncing
            e == IF eis /\ peers >= MinPeers THEN TRUE ELSE eis
<1>0. e \in BOOLEAN
  BY Zenon
<1>1. 0 \in 0..MaxFailures
  BY CountAssumption
<1>2. [s EXCEPT !.EthereumInSync = e] \in MonitorStates
  BY <1>0, FieldUpdates, Zenon
<1>3. [[s EXCEPT !.EthereumInSync = e] EXCEPT !.PeerCount = peers]
          \in MonitorStates
  BY <1>2, FieldUpdates, Zenon
<1>4. [[[s EXCEPT !.EthereumInSync = e] EXCEPT !.PeerCount = peers]
          EXCEPT !.CommunicationFailures = 0] \in MonitorStates
  BY <1>1, <1>3, FieldUpdates, Zenon
<1>5. QED
  BY <1>4 DEF EndpointChecked

LEMMA ProgressedType ==
    ASSUME state \in MonitorStates, NEW peers \in 0..MaxPeers,
           NEW h1 \in Heights
    PROVE  Progressed(peers, h1) \in MonitorStates
<1>1. EndpointOk(FALSE, peers) \in MonitorStates
  BY EndpointOkType DEF EndpointOk
<1>2. QED
  BY <1>1, FieldUpdates, Zenon DEF Progressed

LEMMA FailedType ==
    ASSUME NEW s \in MonitorStates, NEW eis \in BOOLEAN,
           NEW cf \in 0..MaxFailures, NEW ins \in BOOLEAN
    PROVE  [s EXCEPT !.EthereumInSync = eis, !.PeerCount = 0,
                     !.CommunicationFailures = cf, !.InSync = ins]
               \in MonitorStates
<1>1. 0 \in 0..MaxPeers
  OBVIOUS
<1>2. [s EXCEPT !.EthereumInSync = eis] \in MonitorStates
  BY FieldUpdates, Zenon
<1>3. [[s EXCEPT !.EthereumInSync = eis] EXCEPT !.PeerCount = 0]
          \in MonitorStates
  BY <1>1, <1>2, FieldUpdates, Zenon
<1>4. [[[s EXCEPT !.EthereumInSync = eis] EXCEPT !.PeerCount = 0]
          EXCEPT !.CommunicationFailures = cf] \in MonitorStates
  BY <1>3, FieldUpdates, Zenon
<1>5. [[[[s EXCEPT !.EthereumInSync = eis] EXCEPT !.PeerCount = 0]
          EXCEPT !.CommunicationFailures = cf] EXCEPT !.InSync = ins]
          \in MonitorStates
  BY <1>4, FieldUpdates, Zenon
<1>6. QED
  BY <1>5

LEMMA BatchType ==
    ASSUME NEW s \in MonitorStates, NEW a \in [Logs -> Nat],
           NEW last \in Heights, NEW ins \in BOOLEAN
    PROVE  [s EXCEPT !.applied = a, !.HighestBlockProcessed = last,
                     !.InSync = ins] \in MonitorStates
<1>1. [s EXCEPT !.applied = a] \in MonitorStates
  BY FieldUpdates, Zenon
<1>2. [[s EXCEPT !.applied = a] EXCEPT !.HighestBlockProcessed = last]
          \in MonitorStates
  BY <1>1, FieldUpdates, Zenon
<1>3. [[[s EXCEPT !.applied = a] EXCEPT !.HighestBlockProcessed = last]
          EXCEPT !.InSync = ins] \in MonitorStates
  BY <1>2, FieldUpdates, Zenon
<1>4. QED
  BY <1>3

(* The initial state is well typed.                                      *)
LEMMA InitTypeOK == Init => TypeOK
<1> SUFFICES ASSUME Init PROVE TypeOK
  OBVIOUS
<1>1. state \in MonitorStates
  BY InitialStateType DEF Init
<1>2. db \in MonitorStates \cup {NoState}
  BY DEF Init
<1>3. finalized \in Heights /\ restarts \in 0..MaxRestarts
  BY DEF Init, Heights
<1>4. QED
  BY <1>1, <1>2, <1>3 DEF Init, TypeOK

(* Every step keeps the state well typed.                                 *)
LEMMA NextTypeOK == TypeOK /\ [Next]_vars => TypeOK'
<1> SUFFICES ASSUME TypeOK, [Next]_vars PROVE TypeOK'
  OBVIOUS
<1>. USE DEF TypeOK
<1>1. CASE WatchEndpointFailure
  <2>1. PICK eis \in BOOLEAN :
               /\ state' = [state EXCEPT !.EthereumInSync = eis,
                                 !.PeerCount = 0,
                                 !.CommunicationFailures =
                                     state.CommunicationFailures + 1,
                                 !.InSync =
                                     IF state.CommunicationFailures + 1
                                          >= RetryCount
                                     THEN FALSE ELSE state.InSync]
               /\ synchronized' \in BOOLEAN
    BY <1>1 DEF WatchEndpointFailure
  <2>2. state.CommunicationFailures + 1 \in 0..MaxFailures
    BY <1>1 DEF WatchEndpointFailure, MonitorStates
  <2>3. (IF state.CommunicationFailures + 1 >= RetryCount
         THEN FALSE ELSE state.InSync) \in BOOLEAN
    BY DEF MonitorStates
  <2>4. state' \in MonitorStates
    BY <2>1, <2>2, <2>3, FailedType
  <2>5. QED
    BY <1>1, <2>1, <2>4 DEF WatchEndpointFailure
<1>2. CASE WatchNotSynced
  BY <1>2, EndpointOkType DEF WatchNotSynced, EndpointOk
<1>3. CASE WatchProgressFailure
  BY <1>3, EndpointOkType DEF WatchProgressFailure, EndpointOk
<1>4. CASE WatchHeightFailure
  BY <1>4, ProgressedType DEF WatchHeightFailure, Heights
<1>5. CASE WatchChainShrank
  BY <1>5, ProgressedType DEF WatchChainShrank, Heights
<1>6. CASE WatchCaughtUp
  BY <1>6, ProgressedType DEF WatchCaughtUp, Heights
<1>7. CASE WatchEventsFailure
  BY <1>7, ProgressedType DEF WatchEventsFailure, Heights
<1>8. CASE WatchProcess
  <2>1. PICK peers \in 0..MaxPeers, h1, h2 \in 0..finalized :
               WatchProcessAt(peers, h1, h2)
    BY <1>8 DEF WatchProcess
  <2>. DEFINE p == Progressed(peers, h1)
  <2>2. p \in MonitorStates
    BY ProgressedType DEF Heights
  <2>3. p.HighestBlockProcessed = state.HighestBlockProcessed
    BY DEF Progressed, EndpointOk, EndpointChecked
  <2>4. h2 \in Heights /\ p.HighestBlockProcessed <= h2
    BY <2>1, <2>3 DEF WatchProcessAt, Heights
  <2>5. LastBlock(p, h2) \in Heights
    BY <2>2, <2>4, LastBlockBound
  <2>6. ProcessLogs(p.applied, FirstBlock(p), LastBlock(p, h2))
            \in [Logs -> Nat]
    <3>1. p.applied \in [Logs -> Nat] /\ FirstBlock(p) \in Nat
      BY <2>2 DEF MonitorStates, FirstBlock, Heights
    <3>2. QED
      BY <2>5, <3>1, ProcessLogsType DEF Heights
  <2>7. ProcessBatch(p, h2) \in MonitorStates
    <3>1. (LastBlock(p, h2) >= h2) \in BOOLEAN
      OBVIOUS
    <3>2. QED
      BY <2>2, <2>5, <2>6, <3>1, BatchType DEF ProcessBatch
  <2>8. /\ state' = ProcessBatch(p, h2)
        /\ synchronized' = state'.InSync
        /\ UNCHANGED <<db, finalized, restarts>>
    BY <2>1 DEF WatchProcessAt
  <2>9. QED
    BY <2>7, <2>8 DEF MonitorStates
<1>9. CASE UpdateState
  BY <1>9, GobRoundTripIdentity DEF UpdateState
<1>10. CASE Restart
  <2>1. FindState \in MonitorStates
    <3>1. CASE db = NoState
      BY <3>1, InitialStateType DEF FindState
    <3>2. CASE db # NoState
      BY <3>2, GobRoundTripIdentity DEF FindState
    <3>3. QED
      BY <3>1, <3>2
  <2>2. restarts + 1 \in 0..MaxRestarts
    BY <1>10 DEF Restart
  <2>3. QED
    BY <1>10, <2>1, <2>2 DEF Restart
<1>11. CASE ChainAdvance
  BY <1>11 DEF ChainAdvance, Heights
<1>12. CASE UNCHANGED vars
  BY <1>12 DEF vars
<1>13. QED
  BY <1>1, <1>2, <1>3, <1>4, <1>5, <1>6, <1>7, <1>8, <1>9, <1>10,
     <1>11, <1>12 DEF Next, WatchEthereum

-----------------------------------------------------------------------------
(* TypeOK is inductive.                                                    *)
THEOREM TypeCorrect == Spec => []TypeOK
<1>1. Init => TypeOK
  BY InitTypeOK
<1>2. TypeOK /\ [Next]_vars => TypeOK'
  BY NextTypeOK
<1>3. QED
  BY <1>1, <1>2, PTL DEF Spec

-----------------------------------------------------------------------------
(***************************************************************************)
(* The inductive invariant.  AppliedExactlyOnce and ProcessedOnlyFinalized *)
(* are not inductive alone: a restart copies the saved state into memory,  *)
(* so both must hold of the saved state too (they are stated so), and      *)
(* CheckpointMonotone needs the saved state to be no further than the      *)
(* in-memory one, which a save makes equal and WatchEthereum only widens.  *)
(***************************************************************************)
CheckpointBehind ==
    db # NoState => db.HighestBlockProcessed <= state.HighestBlockProcessed

IInv ==
    /\ TypeOK
    /\ AppliedExactlyOnce
    /\ ProcessedOnlyFinalized
    /\ CheckpointBehind

LEMMA NoStateIsNoMonitorState == NoState \notin MonitorStates
BY DEF NoState, MonitorStates

(* ExactlyOnce reads only the effects and the processed height.            *)
LEMMA ExactlyOnceFrame ==
    ASSUME NEW s, NEW t,
           t.applied = s.applied,
           t.HighestBlockProcessed = s.HighestBlockProcessed,
           ExactlyOnce(s)
    PROVE  ExactlyOnce(t)
BY DEF ExactlyOnce

LEMMA InitialExactlyOnce == ExactlyOnce(InitialState)
BY LogCountAssumption DEF ExactlyOnce, InitialState, Logs

(* The endpoint check and the height reads touch neither the effects nor   *)
(* the processed height.                                                   *)
LEMMA ProgressedFrame ==
    ASSUME NEW peers, NEW h1, NEW syncing
    PROVE  /\ EndpointOk(syncing, peers).applied = state.applied
           /\ EndpointOk(syncing, peers).HighestBlockProcessed
                 = state.HighestBlockProcessed
           /\ Progressed(peers, h1).applied = state.applied
           /\ Progressed(peers, h1).HighestBlockProcessed
                 = state.HighestBlockProcessed
BY DEF EndpointOk, EndpointChecked, Progressed

(* Processing a batch from a state that has run every processor exactly    *)
(* once up to its processed height gives such a state again.               *)
LEMMA BatchExactlyOnce ==
    ASSUME NEW s \in MonitorStates, NEW h2 \in Heights,
           s.HighestBlockProcessed <= h2,
           ExactlyOnce(s)
    PROVE  ExactlyOnce(ProcessBatch(s, h2))
<1>. DEFINE hbp == s.HighestBlockProcessed
            last == LastBlock(s, h2)
            t == ProcessBatch(s, h2)
<1>1. hbp \in Heights /\ last \in Heights /\ hbp <= last
  BY LastBlockBound DEF MonitorStates
<1>2. LogCount[hbp] <= LogCount[last] /\ LogCount[hbp] \in Nat
      /\ LogCount[last] \in Nat
  BY <1>1, LogCountAssumption
<1>3. /\ t.HighestBlockProcessed = last
      /\ t.applied = ProcessLogs(s.applied, hbp + 1, last)
  BY DEF ProcessBatch, FirstBlock
<1>4. ASSUME NEW l \in Logs
      PROVE  t.applied[l] = IF l <= LogCount[last] /\ Effective(l)
                            THEN 1 ELSE 0
  <2>1. s.applied[l] = IF l <= LogCount[hbp] /\ Effective(l) THEN 1 ELSE 0
    BY DEF ExactlyOnce
  <2>0. l \in Nat
    BY LogCountAssumption DEF Logs, Heights
  <2>2. (l \in LogsOf(hbp + 1, last)) <=> (LogCount[hbp] < l /\ l <= LogCount[last])
    BY <1>1, <1>2, <2>0 DEF LogsOf, Heights
  <2>3. t.applied[l] = IF l \in LogsOf(hbp + 1, last) /\ Effective(l)
                       THEN s.applied[l] + 1 ELSE s.applied[l]
    BY <1>3 DEF ProcessLogs
  <2>4. QED
    BY <1>2, <2>0, <2>1, <2>2, <2>3
<1>5. QED
  BY <1>3, <1>4 DEF ExactlyOnce

(* A step that changes neither the effects nor the processed height of     *)
(* the state, nor the saved state or the finalized height, keeps IInv.     *)
LEMMA FrameStep ==
    ASSUME IInv, TypeOK',
           state'.applied = state.applied,
           state'.HighestBlockProcessed = state.HighestBlockProcessed,
           UNCHANGED <<db, finalized>>
    PROVE  IInv'
<1>1. ExactlyOnce(state')
  BY ExactlyOnceFrame DEF IInv, AppliedExactlyOnce
<1>2. QED
  BY <1>1 DEF IInv, AppliedExactlyOnce, ProcessedOnlyFinalized,
              CheckpointBehind

(* The endpoint-check outcomes that return before any block is processed.  *)
LEMMA EarlyReturnStep ==
    ASSUME IInv, TypeOK', UNCHANGED <<db, finalized>>,
           \/ \E syncing \in BOOLEAN, peers \in 0..MaxPeers :
                 state' = EndpointOk(syncing, peers)
           \/ \E peers \in 0..MaxPeers, h1 \in Heights :
                 state' = Progressed(peers, h1)
    PROVE  IInv'
BY ProgressedFrame, FrameStep

(* WatchEthereum processing a batch keeps IInv.                            *)
LEMMA ProcessStep ==
    ASSUME IInv, TypeOK', WatchProcess
    PROVE  IInv'
<1>1. PICK peers \in 0..MaxPeers, h1 \in 0..finalized, h2 \in 0..finalized :
             WatchProcessAt(peers, h1, h2)
  BY DEF WatchProcess
<1>. DEFINE p == Progressed(peers, h1)
<1>2. finalized \in Heights /\ h1 \in Heights /\ h2 \in Heights
      /\ h2 <= finalized
  BY DEF IInv, TypeOK, Heights
<1>3. p \in MonitorStates
  BY <1>2, ProgressedType DEF IInv, TypeOK
<1>4. p.applied = state.applied
      /\ p.HighestBlockProcessed = state.HighestBlockProcessed
  BY ProgressedFrame
<1>5. p.HighestBlockProcessed <= h2
  BY <1>1, <1>4 DEF WatchProcessAt
<1>6. ExactlyOnce(p)
  BY <1>4, ExactlyOnceFrame DEF IInv, AppliedExactlyOnce
<1>7. state' = ProcessBatch(p, h2) /\ UNCHANGED <<db, finalized>>
  BY <1>1 DEF WatchProcessAt
<1>8. ExactlyOnce(state')
  BY <1>2, <1>3, <1>5, <1>6, <1>7, BatchExactlyOnce
<1>9. state'.HighestBlockProcessed = LastBlock(p, h2)
  BY <1>7 DEF ProcessBatch
<1>10. LastBlock(p, h2) <= h2 /\ LastBlock(p, h2) >= p.HighestBlockProcessed
       /\ LastBlock(p, h2) \in Heights
  BY <1>2, <1>3, <1>5, LastBlockBound
<1>11. state'.HighestBlockProcessed <= finalized'
  BY <1>2, <1>7, <1>9, <1>10 DEF Heights
<1>12. db' # NoState => db'.HighestBlockProcessed <= state'.HighestBlockProcessed
  <2>1. db' # NoState => db.HighestBlockProcessed <= state.HighestBlockProcessed
    BY <1>7 DEF IInv, CheckpointBehind
  <2>2. db # NoState => db.HighestBlockProcessed \in Heights
    BY NoStateIsNoMonitorState DEF IInv, TypeOK, MonitorStates
  <2>3. state.HighestBlockProcessed \in Heights
    BY DEF IInv, TypeOK, MonitorStates
  <2>4. QED
    BY <1>4, <1>7, <1>9, <1>10, <2>1, <2>2, <2>3 DEF Heights
<1>13. QED
  BY <1>7, <1>8, <1>11, <1>12
     DEF IInv, AppliedExactlyOnce, ProcessedOnlyFinalized, CheckpointBehind

(* Saving the state keeps IInv: the saved copy equals the state.           *)
LEMMA SaveStep ==
    ASSUME IInv, TypeOK', UpdateState
    PROVE  IInv'
<1>1. db' = state /\ UNCHANGED <<state, finalized>>
  BY GobRoundTripIdentity DEF UpdateState, IInv, TypeOK
<1>2. db' # NoState
  BY <1>1, NoStateIsNoMonitorState DEF IInv, TypeOK
<1>3. state.HighestBlockProcessed \in Nat
  BY DEF IInv, TypeOK, MonitorStates, Heights
<1>4. QED
  BY <1>1, <1>2, <1>3
     DEF IInv, AppliedExactlyOnce, ProcessedOnlyFinalized, CheckpointBehind

(* A restart restores the saved state, or the zero state, and keeps IInv.  *)
LEMMA RestartStep ==
    ASSUME IInv, TypeOK', Restart
    PROVE  IInv'
<1>1. UNCHANGED <<db, finalized>> /\ state' = FindState
  BY DEF Restart
<1>2. CASE db = NoState
  <2>1. state' = InitialState
    BY <1>1, <1>2 DEF FindState
  <2>2. finalized \in Nat
    BY DEF IInv, TypeOK, Heights
  <2>3. QED
    BY <1>1, <1>2, <2>1, <2>2, InitialExactlyOnce
       DEF IInv, AppliedExactlyOnce, ProcessedOnlyFinalized,
           CheckpointBehind, InitialState
<1>3. CASE db # NoState
  <2>1. state' = db
    BY <1>1, <1>3, GobRoundTripIdentity DEF FindState, IInv, TypeOK
  <2>2. db.HighestBlockProcessed \in Nat
    BY <1>3 DEF IInv, TypeOK, MonitorStates, Heights
  <2>3. QED
    BY <1>1, <1>3, <2>1, <2>2
       DEF IInv, AppliedExactlyOnce, ProcessedOnlyFinalized, CheckpointBehind
<1>4. QED
  BY <1>2, <1>3

(* The chain finalizing a block keeps IInv.                                *)
LEMMA AdvanceStep ==
    ASSUME IInv, TypeOK', ChainAdvance
    PROVE  IInv'
<1>1. finalized' = finalized + 1 /\ UNCHANGED <<state, db>>
  BY DEF ChainAdvance
<1>2. finalized \in Nat /\ state.HighestBlockProcessed \in Nat
      /\ (db # NoState => db.HighestBlockProcessed \in Nat)
  BY NoStateIsNoMonitorState DEF IInv, TypeOK, MonitorStates, Heights
<1>3. QED
  BY <1>1, <1>2
     DEF IInv, AppliedExactlyOnce, ProcessedOnlyFinalized, CheckpointBehind

(* IInv is inductive.                                                      *)
LEMMA NextIInv == IInv /\ [Next]_vars => IInv'
<1> SUFFICES ASSUME IInv, [Next]_vars PROVE IInv'
  OBVIOUS
<1>0. TypeOK'
  BY NextTypeOK DEF IInv
<1>1. CASE WatchEndpointFailure
  <2>1. PICK eis \in BOOLEAN :
          state' = [state EXCEPT !.EthereumInSync = eis, !.PeerCount = 0,
                      !.CommunicationFailures = state.CommunicationFailures + 1,
                      !.InSync = IF state.CommunicationFailures + 1 >= RetryCount
                                 THEN FALSE ELSE state.InSync]
    BY <1>1 DEF WatchEndpointFailure
  <2>2. state'.applied = state.applied
        /\ state'.HighestBlockProcessed = state.HighestBlockProcessed
    BY <2>1, Zenon DEF IInv, TypeOK, MonitorStates
  <2>3. QED
    BY <1>0, <1>1, <2>2, FrameStep DEF WatchEndpointFailure
<1>2. CASE WatchNotSynced \/ WatchProgressFailure
  BY <1>0, <1>2, EarlyReturnStep DEF WatchNotSynced, WatchProgressFailure
<1>3. CASE WatchHeightFailure \/ WatchChainShrank \/ WatchCaughtUp
           \/ WatchEventsFailure
  <2>1. finalized \in Heights
    BY DEF IInv, TypeOK
  <2>2. 0..finalized \subseteq Heights
    BY <2>1 DEF Heights
  <2>3. QED
    BY <1>0, <1>3, <2>2, EarlyReturnStep
       DEF WatchHeightFailure, WatchChainShrank, WatchCaughtUp,
           WatchEventsFailure
<1>4. CASE WatchProcess
  BY <1>0, <1>4, ProcessStep
<1>5. CASE UpdateState
  BY <1>0, <1>5, SaveStep
<1>6. CASE Restart
  BY <1>0, <1>6, RestartStep
<1>7. CASE ChainAdvance
  BY <1>0, <1>7, AdvanceStep
<1>8. CASE UNCHANGED vars
  BY <1>8 DEF vars, IInv, TypeOK, AppliedExactlyOnce, ProcessedOnlyFinalized,
             CheckpointBehind, ExactlyOnce
<1>9. QED
  BY <1>1, <1>2, <1>3, <1>4, <1>5, <1>6, <1>7, <1>8 DEF Next, WatchEthereum

(* The state and the saved checkpoint run every processor exactly once on *)
(* each finalized block processed so far, whatever the interleaving of     *)
(* failed calls, saves and restarts.                                       *)
THEOREM InvariantHolds == Spec => []IInv
<1>1. Init => IInv
  BY InitTypeOK, InitialExactlyOnce
     DEF Init, IInv, TypeOK, AppliedExactlyOnce, ProcessedOnlyFinalized,
         CheckpointBehind, InitialState
<1>2. IInv /\ [Next]_vars => IInv'
  BY NextIInv
<1>3. QED
  BY <1>1, <1>2, PTL DEF Spec


(* WatchEthereum applies every processor exactly once to each effective   *)
(* log of the processed blocks, in memory and in the saved state.         *)
THEOREM ExactlyOnceHolds == Spec => []AppliedExactlyOnce
BY InvariantHolds, PTL DEF IInv

(* Neither the state nor the saved state is ever past the finalized chain. *)
THEOREM OnlyFinalizedHolds == Spec => []ProcessedOnlyFinalized
BY InvariantHolds, PTL DEF IInv

(* A step never moves the saved checkpoint backwards nor erases it.        *)
LEMMA CheckpointStep ==
    ASSUME IInv, [Next]_vars
    PROVE  [db # NoState =>
              db' # NoState /\ db'.HighestBlockProcessed >= db.HighestBlockProcessed]_db
<1>1. CASE UpdateState
  <2>1. db' = state
    BY <1>1, GobRoundTripIdentity DEF UpdateState, IInv, TypeOK
  <2>2. db' # NoState
    BY <2>1, NoStateIsNoMonitorState DEF IInv, TypeOK
  <2>3. db # NoState => db.HighestBlockProcessed <= state.HighestBlockProcessed
    BY DEF IInv, CheckpointBehind
  <2>4. state.HighestBlockProcessed \in Nat
        /\ (db # NoState => db.HighestBlockProcessed \in Nat)
    BY NoStateIsNoMonitorState DEF IInv, TypeOK, MonitorStates, Heights
  <2>5. QED
    BY <2>1, <2>2, <2>3, <2>4
<1>2. CASE ~UpdateState
  <2>1. db' = db
    BY <1>2 DEF Next, WatchEthereum, WatchEndpointFailure, WatchNotSynced,
               WatchProgressFailure, WatchHeightFailure, WatchChainShrank,
               WatchCaughtUp, WatchEventsFailure, WatchProcess,
               WatchProcessAt, Restart, ChainAdvance, vars
  <2>2. QED
    BY <2>1
<1>3. QED
  BY <1>1, <1>2

(* The saved checkpoint never moves backwards once a state is saved.       *)
THEOREM CheckpointMonotoneHolds == Spec => CheckpointMonotone
<1>1. IInv /\ [Next]_vars =>
        [db # NoState =>
           db' # NoState /\ db'.HighestBlockProcessed >= db.HighestBlockProcessed]_db
  BY CheckpointStep
<1>2. QED
  BY <1>1, InvariantHolds, PTL DEF Spec, CheckpointMonotone


-----------------------------------------------------------------------------
(***************************************************************************)
(* Refinement: Monitor implements the abstract event feed EventFeed under  *)
(* the mapping of Monitor's Feed instance.  Each step maps to a step of    *)
(* the feed or to a stutter; the mapping of the effects needs IInv in the  *)
(* state after the step, since a step of the feed fixes the effects to be  *)
(* exactly those of the blocks up to the new height.                       *)
(***************************************************************************)

(* A state that has run every processor exactly once up to its processed   *)
(* height has exactly the feed's effects of that height.                   *)
LEMMA EffectsOfExactlyOnce ==
    ASSUME NEW s \in MonitorStates, ExactlyOnce(s)
    PROVE  s.applied = Feed!EffectsUpTo(s.HighestBlockProcessed)
BY DEF ExactlyOnce, MonitorStates, Feed!EffectsUpTo, Feed!Logs, Logs

(* A step that leaves the effects, the processed height, the saved state   *)
(* and the finalized height alone is a stutter of the feed.                *)
LEMMA FeedStutter ==
    ASSUME state'.applied = state.applied,
           state'.HighestBlockProcessed = state.HighestBlockProcessed,
           UNCHANGED <<db, finalized>>
    PROVE  UNCHANGED Feed!feedvars
BY DEF Feed!feedvars, SavedHeight

(* WatchEthereum processing a batch is a Consume step of the feed.         *)
LEMMA FeedProcessStep ==
    ASSUME IInv, IInv', WatchProcess
    PROVE  Feed!Consume
<1>1. PICK peers \in 0..MaxPeers, h1 \in 0..finalized, h2 \in 0..finalized :
             WatchProcessAt(peers, h1, h2)
  BY DEF WatchProcess
<1>. DEFINE p == Progressed(peers, h1)
            last == LastBlock(p, h2)
<1>2. finalized \in Heights /\ h1 \in Heights /\ h2 \in Heights
  BY DEF IInv, TypeOK, Heights
<1>3. p \in MonitorStates /\ p.HighestBlockProcessed = state.HighestBlockProcessed
  BY <1>2, ProgressedType, ProgressedFrame DEF IInv, TypeOK
<1>4. state'.HighestBlockProcessed = last
  BY <1>1 DEF WatchProcessAt, ProcessBatch
<1>5. last \in (state.HighestBlockProcessed + 1)..finalized
  <2>1. last >= state.HighestBlockProcessed + 1
    BY <1>1, <1>3 DEF WatchProcessAt, FirstBlock, LastBlock
  <2>2. last \in Heights /\ last <= h2
    BY <1>1, <1>2, <1>3, LastBlockBound DEF WatchProcessAt
  <2>3. QED
    BY <1>2, <2>1, <2>2 DEF Heights
<1>6. state'.applied = Feed!EffectsUpTo(last)
  BY <1>4, EffectsOfExactlyOnce DEF IInv, TypeOK, AppliedExactlyOnce
<1>7. UNCHANGED <<db, finalized>>
  BY <1>1 DEF WatchProcessAt
<1>8. QED
  BY <1>4, <1>5, <1>6, <1>7 DEF Feed!Consume, SavedHeight

(* UpdateState is a Save step of the feed.                                 *)
LEMMA FeedSaveStep ==
    ASSUME IInv, UpdateState
    PROVE  Feed!Save
<1>1. db' = state /\ UNCHANGED <<state, finalized>>
  BY GobRoundTripIdentity DEF UpdateState, IInv, TypeOK
<1>2. db' # NoState
  BY <1>1, NoStateIsNoMonitorState DEF IInv, TypeOK
<1>3. QED
  BY <1>1, <1>2 DEF Feed!Save, SavedHeight

(* A restart with FindState is a Recover step of the feed.                 *)
LEMMA FeedRestartStep ==
    ASSUME IInv, IInv', Restart
    PROVE  Feed!Recover
<1>1. UNCHANGED <<db, finalized>> /\ state' = FindState
  BY DEF Restart
<1>2. state'.HighestBlockProcessed = SavedHeight
  <2>1. CASE db = NoState
    BY <1>1, <2>1 DEF FindState, InitialState, SavedHeight
  <2>2. CASE db # NoState
    BY <1>1, <2>2, GobRoundTripIdentity DEF FindState, SavedHeight, IInv, TypeOK
  <2>3. QED
    BY <2>1, <2>2
<1>3. state'.applied = Feed!EffectsUpTo(SavedHeight)
  BY <1>2, EffectsOfExactlyOnce DEF IInv, TypeOK, AppliedExactlyOnce
<1>4. QED
  BY <1>1, <1>2, <1>3 DEF Feed!Recover, SavedHeight

(* Every step of the monitor is a step of the feed or a stutter of it.     *)
LEMMA FeedStep ==
    ASSUME IInv, IInv', [Next]_vars
    PROVE  [Feed!Next]_Feed!feedvars
<1>1. CASE WatchEndpointFailure
  <2>1. PICK eis \in BOOLEAN :
          state' = [state EXCEPT !.EthereumInSync = eis, !.PeerCount = 0,
                      !.CommunicationFailures = state.CommunicationFailures + 1,
                      !.InSync = IF state.CommunicationFailures + 1 >= RetryCount
                                 THEN FALSE ELSE state.InSync]
    BY <1>1 DEF WatchEndpointFailure
  <2>2. state'.applied = state.applied
        /\ state'.HighestBlockProcessed = state.HighestBlockProcessed
    BY <2>1, Zenon DEF IInv, TypeOK, MonitorStates
  <2>3. QED
    BY <1>1, <2>2, FeedStutter DEF WatchEndpointFailure
<1>2. CASE WatchNotSynced \/ WatchProgressFailure
  BY <1>2, ProgressedFrame, FeedStutter DEF WatchNotSynced, WatchProgressFailure
<1>3. CASE WatchHeightFailure \/ WatchChainShrank \/ WatchCaughtUp
           \/ WatchEventsFailure
  BY <1>3, ProgressedFrame, FeedStutter
     DEF WatchHeightFailure, WatchChainShrank, WatchCaughtUp, WatchEventsFailure
<1>4. CASE WatchProcess
  BY <1>4, FeedProcessStep DEF Feed!Next
<1>5. CASE UpdateState
  BY <1>5, FeedSaveStep DEF Feed!Next
<1>6. CASE Restart
  BY <1>6, FeedRestartStep DEF Feed!Next
<1>7. CASE ChainAdvance
  BY <1>7 DEF ChainAdvance, Feed!Next, Feed!Finalize, SavedHeight
<1>8. CASE UNCHANGED vars
  BY <1>8 DEF vars, Feed!feedvars, SavedHeight
<1>9. QED
  BY <1>1, <1>2, <1>3, <1>4, <1>5, <1>6, <1>7, <1>8 DEF Next, WatchEthereum

(* The monitor implements the abstract event feed: across batches, failed  *)
(* calls, saves and restarts it only moves forward over finalized blocks   *)
(* with exactly the effects of the blocks up to its height, and a restart  *)
(* resumes from the saved checkpoint.                                      *)
THEOREM Refinement == Spec => ImplementsEventFeed
<1>1. Init => Feed!Init
  BY InitialExactlyOnce, InitialStateType, EffectsOfExactlyOnce
     DEF Init, Feed!Init, InitialState, SavedHeight
<1>2. IInv /\ IInv' /\ [Next]_vars => [Feed!Next]_Feed!feedvars
  BY FeedStep
<1>3. QED
  BY <1>1, <1>2, InvariantHolds, PTL DEF Spec, ImplementsEventFeed, Feed!Spec


-----------------------------------------------------------------------------
(***************************************************************************)
(* The admin-bus flag and the retry count.  SyncFlagsAgree is inductive    *)
(* given TypeOK: a successful endpoint check resets the count, a batch     *)
(* sets the bus from the state, a failure that reaches RetryCount clears   *)
(* both, a save copies the state, and a restart clears the bus and takes   *)
(* the saved state, for which the invariant is stated as well.             *)
(***************************************************************************)

(* A successful endpoint check resets the count and leaves InSync.         *)
LEMMA EndpointOkFlags ==
    ASSUME state \in MonitorStates, NEW syncing \in BOOLEAN,
           NEW peers \in 0..MaxPeers
    PROVE  /\ EndpointOk(syncing, peers).CommunicationFailures = 0
           /\ EndpointOk(syncing, peers).InSync = state.InSync
BY DEF EndpointOk, EndpointChecked, MonitorStates

LEMMA ProgressedFlags ==
    ASSUME state \in MonitorStates, NEW peers \in 0..MaxPeers,
           NEW h1 \in Heights
    PROVE  /\ Progressed(peers, h1).CommunicationFailures = 0
           /\ Progressed(peers, h1).InSync = state.InSync
<1>1. EndpointOk(FALSE, peers) \in MonitorStates
  BY EndpointOkType DEF EndpointOk
<1>2. QED
  BY <1>1, EndpointOkFlags DEF Progressed, MonitorStates

(* The calls that return before a batch leave the flags agreeing.          *)
LEMMA EarlyReturnFlags ==
    ASSUME TypeOK, SyncFlagsAgree,
           UNCHANGED <<db, synchronized>>,
           \/ (\E peers \in 0..MaxPeers, syncing \in BOOLEAN :
                  state' = EndpointOk(syncing, peers))
           \/ (\E peers \in 0..MaxPeers, h1 \in Heights :
                  state' = Progressed(peers, h1))
    PROVE  SyncFlagsAgree'
<1>1. state'.CommunicationFailures = 0 /\ state'.InSync = state.InSync
  <2>1. CASE \E peers \in 0..MaxPeers, syncing \in BOOLEAN :
                state' = EndpointOk(syncing, peers)
    BY <2>1, EndpointOkFlags DEF TypeOK
  <2>2. CASE \E peers \in 0..MaxPeers, h1 \in Heights :
                state' = Progressed(peers, h1)
    BY <2>2, ProgressedFlags DEF TypeOK
  <2>3. QED
    BY <2>1, <2>2
<1>2. QED
  BY <1>1 DEF SyncFlagsAgree, OutOfSyncAfterRetries

LEMMA FailureFlags ==
    ASSUME TypeOK, SyncFlagsAgree, WatchEndpointFailure
    PROVE  SyncFlagsAgree'
<1>1. PICK eis \in BOOLEAN :
        LET cf == state.CommunicationFailures + 1
            lost == cf >= RetryCount
        IN  /\ state' = [state EXCEPT !.EthereumInSync = eis, !.PeerCount = 0,
                                      !.CommunicationFailures = cf,
                                      !.InSync = IF lost THEN FALSE ELSE state.InSync]
            /\ synchronized' = IF lost THEN FALSE ELSE synchronized
  BY DEF WatchEndpointFailure
<1>. DEFINE cf == state.CommunicationFailures + 1
            lost == cf >= RetryCount
<1>2. /\ state'.CommunicationFailures = cf
      /\ state'.InSync = IF lost THEN FALSE ELSE state.InSync
      /\ synchronized' = IF lost THEN FALSE ELSE synchronized
      /\ db' = db
  BY <1>1 DEF TypeOK, MonitorStates, WatchEndpointFailure
<1>3. CASE lost
  BY <1>2, <1>3 DEF SyncFlagsAgree, OutOfSyncAfterRetries
<1>4. CASE ~lost
  <2>1. ~(cf > 0 /\ cf >= RetryCount) /\ state.CommunicationFailures \in Nat
    BY <1>4 DEF TypeOK, MonitorStates
  <2>2. QED
    BY <1>2, <1>4, <2>1 DEF SyncFlagsAgree, OutOfSyncAfterRetries
<1>5. QED
  BY <1>3, <1>4

(* A processed batch keeps the count at 0 and sets the bus from the state. *)
LEMMA ProcessFlags ==
    ASSUME TypeOK, SyncFlagsAgree, WatchProcess
    PROVE  SyncFlagsAgree'
<1>1. PICK peers \in 0..MaxPeers, h1, h2 \in 0..finalized :
        WatchProcessAt(peers, h1, h2)
  BY DEF WatchProcess
<1>2. h1 \in Heights
  BY DEF TypeOK, Heights
<1>3. /\ Progressed(peers, h1) \in MonitorStates
      /\ Progressed(peers, h1).CommunicationFailures = 0
  BY <1>2, ProgressedType, ProgressedFlags DEF TypeOK
<1>4. state'.CommunicationFailures = 0
  BY <1>1, <1>3 DEF WatchProcessAt, ProcessBatch, MonitorStates
<1>5. synchronized' = state'.InSync /\ db' = db
  BY <1>1 DEF WatchProcessAt
<1>6. QED
  BY <1>4, <1>5 DEF SyncFlagsAgree, OutOfSyncAfterRetries

(* SyncFlagsAgree holds initially and every step keeps it.                 *)
LEMMA NextSyncFlags ==
    TypeOK /\ SyncFlagsAgree /\ [Next]_vars => SyncFlagsAgree'
<1> SUFFICES ASSUME TypeOK, SyncFlagsAgree, [Next]_vars
             PROVE  SyncFlagsAgree'
  OBVIOUS
<1>0. \A x \in 0..finalized : x \in Heights
  BY DEF TypeOK, Heights
<1>1. CASE WatchEndpointFailure
  BY <1>1, FailureFlags
<1>2. CASE WatchNotSynced \/ WatchProgressFailure
  BY <1>2, EarlyReturnFlags DEF WatchNotSynced, WatchProgressFailure
<1>3. CASE WatchHeightFailure \/ WatchChainShrank \/ WatchCaughtUp
             \/ WatchEventsFailure
  BY <1>0, <1>3, EarlyReturnFlags
     DEF WatchHeightFailure, WatchChainShrank, WatchCaughtUp,
         WatchEventsFailure
<1>4. CASE WatchProcess
  BY <1>4, ProcessFlags
<1>5. CASE UpdateState
  <2>1. db' = state /\ UNCHANGED <<state, synchronized>>
    BY <1>5, GobRoundTripIdentity DEF UpdateState, TypeOK
  <2>2. QED
    BY <2>1, NoStateIsNoMonitorState DEF SyncFlagsAgree, TypeOK
<1>6. CASE Restart
  <2>1. synchronized' = FALSE /\ db' = db /\ state' = FindState
    BY <1>6 DEF Restart
  <2>2. CASE db = NoState
    <3>1. state'.CommunicationFailures = 0
      BY <2>1, <2>2 DEF FindState, InitialState
    <3>2. QED
      BY <2>1, <2>2, <3>1 DEF SyncFlagsAgree, OutOfSyncAfterRetries
  <2>3. CASE db # NoState
    <3>1. state' = db
      BY <2>1, <2>3, GobRoundTripIdentity DEF FindState, TypeOK
    <3>2. QED
      BY <2>1, <2>3, <3>1 DEF SyncFlagsAgree
  <2>4. QED
    BY <2>2, <2>3
<1>7. CASE ChainAdvance \/ UNCHANGED vars
  BY <1>7 DEF ChainAdvance, vars, SyncFlagsAgree, OutOfSyncAfterRetries
<1>8. QED
  BY <1>1, <1>2, <1>3, <1>4, <1>5, <1>6, <1>7 DEF Next, WatchEthereum

(* Whatever the retry count, the admin bus is never marked synchronized    *)
(* while the monitor is out of sync, and RetryCount counted endpoint       *)
(* failures always leave the state, and the saved state, out of sync.      *)
THEOREM SyncFlagsAgreeHolds == Spec => []SyncFlagsAgree
<1>1. Init => SyncFlagsAgree
  BY DEF Init, InitialState, SyncFlagsAgree, OutOfSyncAfterRetries
<1>2. TypeOK /\ SyncFlagsAgree /\ [Next]_vars => SyncFlagsAgree'
  BY NextSyncFlags
<1>3. QED
  BY <1>1, <1>2, TypeCorrect, PTL DEF Spec
=============================================================================
