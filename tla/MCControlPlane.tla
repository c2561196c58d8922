--------------------------- MODULE MCControlPlane ---------------------------
(* Instances of ControlPlane for TLC. *)
EXTENDS ControlPlane, TLC

CONSTANTS m1, m2, yes, no, c1, c2
OneMarket == {m1}
TwoMarkets == {m1, m2}
BothTokens == {yes, no}
TwoCalls == {c1, c2}
AllModes == {"disabled", "paper", "live"}
RealModes == {"disabled", "live"}
\* Tokens and calls are interchangeable; no run of this module checks liveness.
Symmetric == Permutations(BothTokens) \union Permutations(TwoCalls)
AllFaults == FaultKinds
=============================================================================
