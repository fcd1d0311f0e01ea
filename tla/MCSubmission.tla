----------------------------- MODULE MCSubmission ----------------------------
(* Submissions of one user to one process for TLC.                         *)
EXTENDS Submission, TLC
=============================================================================
