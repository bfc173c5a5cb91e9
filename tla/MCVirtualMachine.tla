-------------------------- MODULE MCVirtualMachine --------------------------
(* Two machines and a pool of two nodes for TLC.                            *)
EXTENDS VirtualMachine, TLC

CONSTANTS v1, v2, withData

TwoMachines == {v1, v2}
DataContainers == {withData}
SomeErrors == {0, -2}
Machines == Permutations(TwoMachines)
=============================================================================
