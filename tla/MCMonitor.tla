------------------------------ MODULE MCMonitor ------------------------------
(* A small chain for TLC: four blocks, one of them empty, two logs in one  *)
(* block; a log with a real processor, one whose processor fails, one with *)
(* a nil processor and one of an unregistered topic.                       *)
EXTENDS Monitor, TLC

(* Logs 1..5: block 1 holds log 1, block 2 none, block 3 logs 2..4,      *)
(* block 4 log 5.                                                          *)
MCLogCount == 0 :> 0 @@ 1 :> 1 @@ 2 :> 1 @@ 3 :> 4 @@ 4 :> 5
MCTopic == 1 :> "ShareDistribution" @@ 2 :> "Transfer"
             @@ 3 :> "KeyShareSubmission" @@ 4 :> "Approval"
             @@ 5 :> "RegistrationOpen"
MCFailing == {5}

(* A three-block chain for the liveness run: logs 1..2 in block 1, none   *)
(* in block 2, logs 3..5 in block 3.                                       *)
MCLogCountShort == 0 :> 0 @@ 1 :> 2 @@ 2 :> 2 @@ 3 :> 5
=============================================================================
