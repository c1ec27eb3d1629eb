------------------------------- MODULE MCStore -------------------------------
(* Store on small instances.  Dictations are interchangeable. *)
EXTENDS StoreRefinement, TLC

CONSTANT MaxCrashesBeside   \* bound: crashes of a behaviour with two dictations

Symmetry == Permutations(Jobs)

Beside == Cardinality(born) > 1

(* A step of two dictations beside each other: nothing has failed when the second one
   starts, what fails from there on is the process, and then recordings are not kept. *)
StepBeside ==
  /\ ~Beside => failures' = 0
  /\ failures' # failures => Crash
  /\ failures' <= MaxCrashesBeside
  /\ failures' > 0 => ~keepAudio'

(* An old database holds one dictation at most. *)
MCInit == Init /\ ~Beside

MCSpec == MCInit /\ [][Next /\ (Beside' => StepBeside)]_vars

================================================================================
