-------------------------- MODULE MCUploadSession --------------------------
(* Instances of UploadSession for TLC.                                     *)
EXTENDS UploadSession, TLC

\* Requests and slots are interchangeable.  (No liveness property is checked under symmetry.)
Symmetric == Permutations(Handler) \cup Permutations(Slot) \cup Permutations(Client)
=============================================================================
