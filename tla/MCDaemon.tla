-------------------------------- MODULE MCDaemon --------------------------------
(* Small instances of Daemon for TLC; dictations are interchangeable. *)
EXTENDS Daemon, FiniteSets, TLC

CONSTANT MaxOffers   \* bound: different buttons shown

Symmetry == Permutations(Jobs)

MCSpec == Init /\ [][Next /\ Cardinality(offers') <= MaxOffers]_vars

(* The user hears of the end of every dictation, and is offered only what helps:
   EndsAreTold and OfferedHelpWorks. *)
NoticesAreTrue == EndsAreTold /\ OfferedHelpWorks

================================================================================
