--------------------------- MODULE MCHotkeyControl ---------------------------
(* HotkeyControl on small instances. *)
EXTENDS HotkeyControl

VARIABLE excused   \* history: a watcher could not start, or a rollback was refused

watchedVars == <<vars, excused>>

Excuses == RollbackFailed \/ (loop = "failed" /\ failures' # failures)

MCNext == Next /\ excused' = (excused \/ Excuses)

MCInit == Init /\ excused = FALSE

MCSpec == MCInit /\ [][MCNext]_watchedVars /\ Fairness

(* ListenerOrRetry, ReadyMeansListening and ListensForTheSavedShortcut: the shortcut that
   is shown as ready is the saved one and listened for, and one that is not will be
   retried.  After a watcher that could not start nothing retries (README), and after a
   refused rollback the settings are not what the listener listens for. *)
ShortcutIsAsShown ==
  /\ ReadyMeansListening
  /\ ~excused => ListenerOrRetry /\ ListensForTheSavedShortcut

(* Saves, cancels and captures come to an end: LockComesBack and CapturesEnd. *)
CommandsEnd == LockComesBack /\ CapturesEnd

================================================================================
