--------------------------- MODULE MCHotkeyDispatch ---------------------------
(* HotkeyDispatch on small instances. *)
EXTENDS HotkeyDispatch

CONSTANT MaxDisturbed   \* bound: inputs of a behaviour with a disturbance

VARIABLE disturbed   \* history: a mode, a shortcut, a capture or a refusal came between

mcVars == <<vars, disturbed>>

Disturbs ==
  \/ mode' # mode \/ saving' # saving \/ capturing'
  \/ worker.at = "taken" /\ worker'.at = "done" /\ LifecycleAction(worker.event.signal) # "none"

MCNext ==
  /\ Next
  /\ disturbed' = (disturbed \/ Disturbs)
  /\ disturbed' => inputs' <= MaxDisturbed

MCInit == Init /\ disturbed = FALSE

MCSpec == MCInit /\ [][MCNext]_mcVars /\ Fairness

(* ReleasedHoldIsOver and BouncedPressDoesNotStop, of which nothing is said where a saved
   mode or shortcut, a capture or a refused stop comes between: the tracker that would
   tell a release may be gone (native_hotkey/worker.rs), or the mode it is judged by is
   another one. *)
UndisturbedHoldIsOver == ~disturbed => ReleasedHoldIsOver
UndisturbedPressDoesNotStop ==
  [][BouncedPressStops => disturbed']_mcVars

(* Every action ends, and so does a save's wait for the loop: EveryActionEnds and
   SaveGivesTheLockBack. *)
DispatchNeverStops == EveryActionEnds /\ SaveGivesTheLockBack

================================================================================
