--------------------------- MODULE MCQuotingEngine ---------------------------
(* Instances of QuotingEngine for TLC. *)
EXTENDS QuotingEngine, TLC

OneFair  == {4}
\* Two fair values further apart than the offset threshold.
TwoFairs == {2, 4}
AllFaults  == FaultKinds
VenueFaults == {"answer", "cancel", "remainder"}
AllCommands == CommandKinds
ExitOnly == {"exit"}
=============================================================================
