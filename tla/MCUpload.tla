------------------------------- MODULE MCUpload -------------------------------
(* Small instances of UploadSession for TLC. *)
EXTENDS UploadSession, TLC

\* No constant tells the sessions apart.
SessionSymmetry == Permutations(Sessions)

=============================================================================
