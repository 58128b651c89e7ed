------------------------------ MODULE Verdict ------------------------------
(***************************************************************************)
(* What README.md promises of the tool: it answers once, and the answer is *)
(* SUCCESSFUL when the post-condition is verified, FAILED when it is       *)
(* violated and UNKNOWN when the result cannot be determined.              *)
(***************************************************************************)
EXTENDS ProgramFamily

VARIABLES prog, printed

Init == prog \in ProgramType /\ printed = <<>>

Answer(v) ==
  /\ printed = <<>>
  /\ v = "SUCCESSFUL" => Valid(prog)
  /\ v = "FAILED" => ~Valid(prog)
  /\ printed' = <<v>>
  /\ UNCHANGED prog

Next == \E v \in {"SUCCESSFUL", "FAILED", "UNKNOWN"} : Answer(v)

Spec == Init /\ [][Next]_<<prog, printed>>
=============================================================================
