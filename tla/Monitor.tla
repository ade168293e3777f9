------------------------------- MODULE Monitor -------------------------------
(***************************************************************************)
(* The Ethereum monitor of src/blockchain/monitor: WatchEthereum, called   *)
(* by the monitor loop on every tick, checks the endpoint, reads the       *)
(* finalized height, fetches the logs of the next batch of blocks and runs *)
(* the registered event processor of every log, block by block, on the     *)
(* in-memory MonitorState.  The state is saved to and restored from the    *)
(* badger database by UpdateState and FindState (database.go).             *)
(*                                                                         *)
(* Data is abstracted: the logs of the chain are numbered 1, 2, ... in     *)
(* chain order (block, then log index), a topic is an event name, and the  *)
(* effect of the event processors on MonitorState is counted per log:      *)
(* applied[l] is the number of times the processor of log l has run on    *)
(* the state and succeeded.                                                *)
(***************************************************************************)
EXTENDS Naturals

CONSTANTS
    LogCount,      \* LogCount[b]: the number of logs in blocks 1..b
    Topic,         \* Topic[l]: the event name of log l (its Topics[0])
    Failing,       \* logs on which the event processor returns an error
    MaxBlock,      \* the highest block the chain finalizes in a run
    BatchSize,     \* svcs.batchSize
    RetryCount,    \* eth.RetryCount()
    MinPeers,      \* config.Configuration.Ethereum.EndpointMinimumPeers
    MaxPeers,      \* the largest peer count the endpoint reports
    MaxFailures,   \* bound on state.CommunicationFailures (a uint32)
    MaxRestarts    \* bound on the number of crashes of the process

Blocks == 1..MaxBlock
Heights == 0..MaxBlock

ASSUME MaxBlockAssumption == MaxBlock \in Nat
ASSUME BatchSizeAssumption == BatchSize \in Nat \ {0}
ASSUME CountAssumption ==
    /\ RetryCount \in Nat /\ MinPeers \in Nat /\ MaxPeers \in Nat
    /\ MaxFailures \in Nat /\ MaxRestarts \in Nat
ASSUME LogCountAssumption ==
    /\ LogCount \in [Heights -> Nat]
    /\ LogCount[0] = 0
    /\ \A a, b \in Heights : a <= b => LogCount[a] <= LogCount[b]

(* The logs of the chain, and the logs of blocks lo..hi in chain order.    *)
Logs == 1..LogCount[MaxBlock]
LogsOf(lo, hi) == (LogCount[lo - 1] + 1)..LogCount[hi]

ASSUME LogsAssumption ==
    /\ DOMAIN Topic = Logs
    /\ Failing \subseteq Logs

VARIABLES
    state,         \* the in-memory *objects.MonitorState
    db,            \* the MonitorState saved under stateKey, or NoState
    synchronized,  \* the flag set by svcs.ah.SetSynchronized
    finalized,     \* the height the chain has really finalized
    restarts       \* the number of crashes so far

vars == <<state, db, synchronized, finalized, restarts>>

NoState == [none |-> TRUE]

(***************************************************************************)
(* NewServices registers the topics it knows in svcs.events: the first     *)
(* nine with a nil processor (only named for logging), the last seven with *)
(* a real one.  A log is dispatched to a processor iff its topic is one    *)
(* of those seven (the selector lookup and the nil check of WatchEthereum).*)
(***************************************************************************)
NilProcessorTopics ==
    {"DepositReceived-Obsolete", "DSTokenApproval", "LogSetOwner", "Mint",
     "Transfer", "ValidatorJoined", "ValidatorLeft", "LockedStake"}
ProcessorTopics ==
    {"DepositReceived", "ValidatorMember", "ValidatorSet", "SnapshotTaken",
     "ShareDistribution", "KeyShareSubmission", "RegistrationOpen"}
HasProcessor(l) == Topic[l] \in ProcessorTopics

(* The logs whose processor runs and succeeds leave their effect on the    *)
(* state; a failing processor is only logged and the log is passed over.   *)
Effective(l) == HasProcessor(l) /\ l \notin Failing

(* The effect of the block loop of WatchEthereum on the logs of blocks     *)
(* lo..hi (grouped by block in logsByBlock, visited in ascending block     *)
(* order): every effective log among them has its processor run once.     *)
ProcessLogs(applied, lo, hi) ==
    [l \in Logs |-> IF l \in LogsOf(lo, hi) /\ Effective(l)
                    THEN applied[l] + 1 ELSE applied[l]]

MonitorStates ==
    [HighestBlockProcessed: Heights, HighestBlockFinalized: Heights,
     CommunicationFailures: 0..MaxFailures, EthereumInSync: BOOLEAN,
     InSync: BOOLEAN, PeerCount: 0..MaxPeers, applied: [Logs -> Nat]]

(* The zero MonitorState the loop starts from when none is saved.          *)
InitialState ==
    [HighestBlockProcessed |-> 0, HighestBlockFinalized |-> 0,
     CommunicationFailures |-> 0, EthereumInSync |-> FALSE,
     InSync |-> FALSE, PeerCount |-> 0, applied |-> [l \in Logs |-> 0]]

(* gob encodes the exported fields of MonitorState and decodes them back;  *)
(* every field modelled here is exported, so the round trip keeps them.    *)
(* Mutant: a field that is not exported is dropped by gob.               *)
MutGobRoundTrip(s) == [f \in DOMAIN s \ {"applied"} |-> s[f]]
GobRoundTrip(s) == [f \in DOMAIN s |-> s[f]]

Init ==
    /\ state = InitialState
    /\ db = NoState
    /\ synchronized = FALSE
    /\ finalized = 0
    /\ restarts = 0

-----------------------------------------------------------------------------
(***************************************************************************)
(* EndpointInSync: state.EthereumInSync and state.PeerCount are first      *)
(* reset, then set from GetSyncProgress and GetPeerCount.  The minimum     *)
(* peer check of line 352 sets EthereumInSync to TRUE only when it already *)
(* is TRUE, so EthereumInSync ends as "not syncing" whatever the peers.    *)
(***************************************************************************)
EndpointChecked(s, syncing, peers) ==
    LET eis == ~syncing
    IN  [s EXCEPT !.EthereumInSync =
                      IF eis /\ peers >= MinPeers THEN TRUE ELSE eis,
                  !.PeerCount = peers]

(* WatchEthereum when EndpointInSync fails: GetSyncProgress failed         *)
(* (EthereumInSync FALSE) or GetPeerCount failed (EthereumInSync = not     *)
(* syncing), PeerCount 0.  The failure is counted, and at RetryCount       *)
(* failures the monitor and the admin bus are marked out of sync.          *)
(* Mutant: the node is marked out of sync only after RetryCount failures   *)
(* beyond the first (> instead of >=).                                     *)
MutWatchEndpointFailure ==
    /\ state.CommunicationFailures < MaxFailures
    /\ \E eis \in BOOLEAN :
         LET cf == state.CommunicationFailures + 1
             lost == cf > RetryCount
         IN  /\ state' = [state EXCEPT !.EthereumInSync = eis, !.PeerCount = 0,
                                       !.CommunicationFailures = cf,
                                       !.InSync = IF lost THEN FALSE ELSE state.InSync]
             /\ synchronized' = IF lost THEN FALSE ELSE synchronized
    /\ UNCHANGED <<db, finalized, restarts>>

WatchEndpointFailure ==
    /\ state.CommunicationFailures < MaxFailures
    /\ \E eis \in BOOLEAN :
         LET cf == state.CommunicationFailures + 1
             lost == cf >= RetryCount
         IN  /\ state' = [state EXCEPT !.EthereumInSync = eis, !.PeerCount = 0,
                                       !.CommunicationFailures = cf,
                                       !.InSync = IF lost THEN FALSE ELSE state.InSync]
             /\ synchronized' = IF lost THEN FALSE ELSE synchronized
    /\ UNCHANGED <<db, finalized, restarts>>

(* WatchEthereum after a successful endpoint check: the failure count is   *)
(* reset; an endpoint that is still syncing ends the call.                 *)
EndpointOk(syncing, peers) ==
    [EndpointChecked(state, syncing, peers) EXCEPT !.CommunicationFailures = 0]

WatchNotSynced ==
    /\ \E peers \in 0..MaxPeers :
         state' = EndpointOk(TRUE, peers)
    /\ UNCHANGED <<db, synchronized, finalized, restarts>>

(* UpdateProgress fails: the call returns its error.                       *)
WatchProgressFailure ==
    /\ \E peers \in 0..MaxPeers :
         state' = EndpointOk(FALSE, peers)
    /\ UNCHANGED <<db, synchronized, finalized, restarts>>

(* UpdateProgress reads height h1 into HighestBlockFinalized; the second   *)
(* GetFinalizedHeight then fails: the call returns.  An endpoint reports a *)
(* finalized height no higher than the chain's, possibly a lower one.      *)
Progressed(peers, h1) ==
    [EndpointOk(FALSE, peers) EXCEPT !.HighestBlockFinalized = h1]

WatchHeightFailure ==
    /\ \E peers \in 0..MaxPeers, h1 \in 0..finalized :
         state' = Progressed(peers, h1)
    /\ UNCHANGED <<db, synchronized, finalized, restarts>>

(* The finalized height h2 is below the blocks already processed ("chain   *)
(* height shrank"): the call returns.                                      *)
WatchChainShrank ==
    /\ \E peers \in 0..MaxPeers, h1, h2 \in 0..finalized :
         /\ state.HighestBlockProcessed > h2
         /\ state' = Progressed(peers, h1)
    /\ UNCHANGED <<db, synchronized, finalized, restarts>>

(* The batch WatchEthereum looks at: from the first unprocessed block to   *)
(* BatchSize blocks further, but no further than the finalized height h2.  *)
(* Mutant: the batch is not clamped to the finalized height.              *)
MutLastBlock(s, h2) == s.HighestBlockProcessed + BatchSize
(* Mutant: near the head the batch is clamped to the processed height.     *)
MutStallLastBlock(s, h2) ==
    IF s.HighestBlockProcessed + BatchSize > h2
    THEN s.HighestBlockProcessed ELSE s.HighestBlockProcessed + BatchSize
FirstBlock(s) == s.HighestBlockProcessed + 1
LastBlock(s, h2) ==
    IF s.HighestBlockProcessed + BatchSize > h2
    THEN h2 ELSE s.HighestBlockProcessed + BatchSize

(* Caught up: there is no block to look at and the call returns, leaving   *)
(* InSync as it was.                                                       *)
WatchCaughtUp ==
    /\ \E peers \in 0..MaxPeers, h1, h2 \in 0..finalized :
         /\ state.HighestBlockProcessed <= h2
         /\ LastBlock(state, h2) < FirstBlock(state)
         /\ state' = Progressed(peers, h1)
    /\ UNCHANGED <<db, synchronized, finalized, restarts>>

(* GetEvents fails for the batch: the call returns, nothing processed.     *)
WatchEventsFailure ==
    /\ \E peers \in 0..MaxPeers, h1, h2 \in 0..finalized :
         /\ state.HighestBlockProcessed <= h2
         /\ LastBlock(state, h2) >= FirstBlock(state)
         /\ state' = Progressed(peers, h1)
    /\ UNCHANGED <<db, synchronized, finalized, restarts>>

(* The whole batch is processed: the processors run on every log of blocks *)
(* FirstBlock..LastBlock in order, HighestBlockProcessed becomes LastBlock *)
(* and the monitor is in sync iff LastBlock reached the finalized height.  *)
(* Mutant: the processed height is set to the finalized height read, not   *)
(* to the last block of the batch.                                         *)
MutProcessBatch(s, h2) ==
    LET first == FirstBlock(s)
        last == LastBlock(s, h2)
    IN  [s EXCEPT !.applied = ProcessLogs(s.applied, first, last),
                  !.HighestBlockProcessed = h2,
                  !.InSync = (last >= h2)]

ProcessBatch(s, h2) ==
    LET first == FirstBlock(s)
        last == LastBlock(s, h2)
    IN  [s EXCEPT !.applied = ProcessLogs(s.applied, first, last),
                  !.HighestBlockProcessed = last,
                  !.InSync = (last >= h2)]

WatchProcessAt(peers, h1, h2) ==
    /\ state.HighestBlockProcessed <= h2
    /\ LastBlock(state, h2) >= FirstBlock(state)
    /\ state' = ProcessBatch(Progressed(peers, h1), h2)
    /\ synchronized' = state'.InSync
    /\ UNCHANGED <<db, finalized, restarts>>

WatchProcess ==
    \E peers \in 0..MaxPeers, h1, h2 \in 0..finalized :
        WatchProcessAt(peers, h1, h2)

WatchEthereum ==
    \/ WatchEndpointFailure
    \/ WatchNotSynced
    \/ WatchProgressFailure
    \/ WatchHeightFailure
    \/ WatchChainShrank
    \/ WatchCaughtUp
    \/ WatchEventsFailure
    \/ WatchProcess

-----------------------------------------------------------------------------
(* UpdateState: the state is gob-encoded and written under stateKey.       *)
UpdateState ==
    /\ db' = GobRoundTrip(state)
    /\ UNCHANGED <<state, synchronized, finalized, restarts>>

(* The process crashes and restarts: the in-memory state and the admin     *)
(* bus flag are lost, and FindState restores the saved state, or the loop  *)
(* starts from the zero state when none was saved.                         *)
(* Mutant: FindState failing is taken as "nothing saved".                  *)
MutFindState == InitialState
FindState == IF db = NoState THEN InitialState ELSE GobRoundTrip(db)

Restart ==
    /\ restarts < MaxRestarts
    /\ state' = FindState
    /\ synchronized' = FALSE
    /\ restarts' = restarts + 1
    /\ UNCHANGED <<db, finalized>>

(* The chain finalizes one more block.                                     *)
ChainAdvance ==
    /\ finalized < MaxBlock
    /\ finalized' = finalized + 1
    /\ UNCHANGED <<state, db, synchronized, restarts>>

Next == WatchEthereum \/ UpdateState \/ Restart \/ ChainAdvance

(***************************************************************************)
(* Fairness.  The monitor loop calls WatchEthereum on every tick and the   *)
(* chain keeps finalizing blocks; an endpoint that is healthy and up to    *)
(* date infinitely often is assumed, so a call that processes a batch up   *)
(* to the real finalized height happens whenever it is possible often      *)
(* enough.                                                                 *)
(***************************************************************************)
WatchUpToDate ==
    \E peers \in 0..MaxPeers : WatchProcessAt(peers, finalized, finalized)

Spec == Init /\ [][Next]_vars
FairSpec == Spec /\ WF_vars(ChainAdvance) /\ SF_vars(WatchUpToDate)

-----------------------------------------------------------------------------
(***************************************************************************)
(* Properties                                                              *)
(***************************************************************************)

TypeOK ==
    /\ state \in MonitorStates
    /\ db \in MonitorStates \cup {NoState}
    /\ synchronized \in BOOLEAN
    /\ finalized \in Heights
    /\ restarts \in 0..MaxRestarts

(* The effect of the event processors on the state, in memory and as      *)
(* saved, is exactly that of running each of them once on every effective *)
(* log of blocks 1..HighestBlockProcessed and on no other log:             *)
(* WatchEthereum neither skips nor repeats a block across batches, failed  *)
(* calls, saves and restarts.  Since the logs are numbered in chain order, *)
(* it also says that the effects are applied in chain order.               *)
ExactlyOnce(s) ==
    \A l \in Logs :
        s.applied[l] = IF l <= LogCount[s.HighestBlockProcessed] /\ Effective(l)
                       THEN 1 ELSE 0

AppliedExactlyOnce ==
    /\ ExactlyOnce(state)
    /\ db # NoState => ExactlyOnce(db)

(* WatchEthereum never processes a block the chain has not finalized,      *)
(* however the heights reported by the endpoint lag or shrink.             *)
ProcessedOnlyFinalized ==
    /\ state.HighestBlockProcessed <= finalized
    /\ db # NoState => db.HighestBlockProcessed <= finalized

(* The admin bus and the retry count of WatchEthereum agree with the      *)
(* state across failed calls, successes, saves and restarts: the bus is    *)
(* marked synchronized only while the monitor state is in sync, and once   *)
(* RetryCount consecutive endpoint failures, and at least one, have been   *)
(* counted (line 197), the state is out of sync, in memory and as saved    *)
(* for the next restart.                                                   *)
OutOfSyncAfterRetries(s) ==
    s.CommunicationFailures > 0 /\ s.CommunicationFailures >= RetryCount
        => ~s.InSync

SyncFlagsAgree ==
    /\ synchronized => state.InSync
    /\ OutOfSyncAfterRetries(state)
    /\ db # NoState => OutOfSyncAfterRetries(db)

(* The saved checkpoint never moves backwards: once the state that has     *)
(* processed block b is saved, no later save (after a restart from it)     *)
(* would make the processors run on block b's logs again.                  *)
CheckpointMonotone ==
    [][db # NoState =>
         db' # NoState /\ db'.HighestBlockProcessed >= db.HighestBlockProcessed]_db

(* Every block the chain finalizes is eventually processed.                *)
EventuallyProcessed ==
    \A b \in Blocks : (finalized >= b) ~> (state.HighestBlockProcessed >= b)

(***************************************************************************)
(* Refinement.  The monitor implements the abstract event feed: its        *)
(* position is the processed height of the in-memory state, its checkpoint *)
(* the processed height of the saved state (none saved: the zero state     *)
(* the loop starts from), and its effects the per-log counts of the state. *)
(***************************************************************************)
SavedHeight == IF db = NoState THEN 0 ELSE db.HighestBlockProcessed

Feed == INSTANCE EventFeed WITH
            EffectiveLogs <- {l \in Logs : Effective(l)},
            processed <- state.HighestBlockProcessed,
            checkpoint <- SavedHeight,
            applied <- state.applied

(* Every step of WatchEthereum, UpdateState and a restart with FindState   *)
(* is a step of the abstract feed or leaves it unchanged: batches only     *)
(* move forward over finalized blocks, with exactly the effects of the     *)
(* blocks up to the new height, and a restart resumes at the saved one.    *)
ImplementsEventFeed == Feed!Spec

(* The endpoint check of line 192 "is making sure Ethereum endpoint has    *)
(* synced and has peers": a batch is processed only while the endpoint     *)
(* reports at least EndpointMinimumPeers peers.                            *)
ProcessOnlyWithPeers ==
    [][state'.HighestBlockProcessed > state.HighestBlockProcessed /\
       restarts' = restarts
         => state'.PeerCount >= MinPeers]_vars

=============================================================================
