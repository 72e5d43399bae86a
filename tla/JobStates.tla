------------------------------ MODULE JobStates ------------------------------
(***************************************************************************)
(* What a client that follows a job by asking the engine for it counts on. *)
(* It does not tell the phases of a live job apart; a job it has no id for *)
(* yet is none, one that the engine no longer has is cleared.              *)
(***************************************************************************)
AnswerStates == {"none", "live", "completed", "failed", "cancelled", "cleared"}

(* The client stops following. *)
Ended == {"completed", "failed", "cancelled"}

(* How the answer for a job whose id is known may change. *)
Onward ==
    [none      |-> {},
     live      |-> Ended,
     completed |-> {"cleared"},
     failed    |-> {"live", "cancelled"},
     cancelled |-> {"cleared"},
     cleared   |-> {}]
=============================================================================
