-------------------------- MODULE MCTranscodeQueue --------------------------
(* Small instances of TranscodeQueue for TLC. *)
EXTENDS TranscodeQueue

CONSTANTS r1, r2

\* Every submission asks for both resolutions.
UniformRequest == {{r1, r2}}

\* A submission may ask for any of them.
MixedRequest == {{r1}, {r2}, {r1, r2}}
=============================================================================
