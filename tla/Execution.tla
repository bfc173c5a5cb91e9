----------------------------- MODULE Execution -----------------------------
(***************************************************************************)
(* What bpf_execute() promises its caller, with no instruction set in      *)
(* sight.  A call on a container that has not been accepted yet checks it  *)
(* first, and may reject it: then the caller's result variable is as it    *)
(* was, and the container has not run.  A container that runs stores a     *)
(* result, and from then on is accepted.  A bounded call has a finite      *)
(* amount of work to do when it starts and every step uses some of it up,  *)
(* so it cannot run for ever.                                              *)
(***************************************************************************)
EXTENDS Naturals

VARIABLES
  phase,     \* "idle", or "checking" or "running" the container
  accepted,  \* whether the container passed the check
  bounded,   \* whether the container may only take a limited number of jumps
  work,      \* the steps the call may still take, when it is bounded
  result     \* the caller's variable: "kept" or "stored" by the last call

execVars == <<phase, accepted, bounded, work, result>>

Init ==
  /\ phase = "idle"
  /\ accepted = FALSE
  /\ bounded \in BOOLEAN
  /\ work = 0
  /\ result = "kept"

Call ==
  /\ phase = "idle"
  /\ phase' = IF accepted THEN "running" ELSE "checking"
  /\ work' \in Nat
  /\ result' = "kept"
  /\ UNCHANGED <<accepted, bounded>>

\* A container that cannot even be checked.
Refuse ==
  /\ phase = "idle" /\ ~accepted
  /\ result' = "kept"
  /\ UNCHANGED <<phase, accepted, bounded, work>>

UsesWork ==
  /\ work' \in Nat
  /\ bounded => work' < work
  /\ UNCHANGED <<bounded, result>>

Work ==
  /\ phase # "idle"
  /\ UsesWork
  /\ UNCHANGED <<phase, accepted>>

Accept ==
  /\ phase = "checking"
  /\ phase' = "running"
  /\ accepted' = TRUE
  /\ UsesWork

Reject ==
  /\ phase = "checking"
  /\ phase' = "idle"
  /\ work' = 0
  /\ UNCHANGED <<accepted, bounded, result>>

Finish ==
  /\ phase = "running"
  /\ phase' = "idle"
  /\ work' = 0
  /\ result' = "stored"
  /\ UNCHANGED <<accepted, bounded>>

Next == Call \/ Refuse \/ Work \/ Accept \/ Reject \/ Finish

Spec == Init /\ [][Next]_execVars
=============================================================================
