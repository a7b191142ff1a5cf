-------------------------- MODULE MCControlSystem --------------------------
(* Instances of ControlSystem for TLC. *)
EXTENDS ControlSystem, TLC

CONSTANTS c1, c2

SetC1 == [mode |-> "ACK", config |-> c1]
SetC2 == [mode |-> "ACK", config |-> c2]
GetFile == [mode |-> "CFG_GET", config |-> NoConfig]
GetList == [mode |-> "CUSTOM_CFG_GET", config |-> NoConfig]

ParameterRequests == {SetC1, SetC2}
MixedRequests == {SetC1, GetFile}
FileRequests == {GetFile, GetList}
AllRequests == {SetC1, SetC2, GetFile, GetList}
TwoConfigs == {c1, c2}
ConfigSymmetry == Permutations(TwoConfigs)
=============================================================================
