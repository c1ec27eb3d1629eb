---------------------------------- MODULE Launches ----------------------------------
(* One settings window per session: WindowInstance of
   crates/agentdictate-app/src/window_instance.rs, and the program it opens or closes
   (bin/agentdictate.rs, crates/agentdictate-ui/src/desktop.rs).                        *)
EXTENDS Naturals, FiniteSets

CONSTANTS
  Launched,   \* the processes the user starts
  NoLaunch

ASSUME NoLaunchAssumption == NoLaunch \notin Launched

VARIABLES
  launch,       \* where each process is
  windowLock,   \* the one that holds window.lock
  raised,       \* window.raise was written since the holder's watcher last looked
  deaf,         \* the holder has no such watcher
  owed,         \* history: the launches that handed over and have seen no window since
  missed,       \* history: those whose window went away first
  failed        \* bound: one start, watch or request fails

launchVars == <<launch, windowLock, raised, deaf, owed, missed, failed>>

LaunchInit ==
  /\ launch = [p \in Launched |-> "idle"]
  /\ windowLock = NoLaunch /\ raised = FALSE /\ deaf = FALSE
  /\ owed = {} /\ missed = {} /\ failed = FALSE

LaunchAt(p, place) == launch[p] = place
LaunchGoes(p, place) == launch' = [launch EXCEPT ![p] = place]
Watched == windowLock # NoLaunch /\ launch[windowLock] \in {"starts", "open"}
InFront == owed' = {} /\ UNCHANGED missed
Fails == ~failed /\ failed' = TRUE
GoesAway == missed' = missed \cup owed /\ owed' = {}

Launches(p) ==
  /\ LaunchAt(p, "idle")
  /\ LaunchGoes(p, "acquires")
  /\ UNCHANGED <<windowLock, raised, deaf, owed, missed, failed>>

(* Mutant of Acquires: the lock is let go once it was taken. *)
AcquiresForAMoment(p) ==
  /\ LaunchAt(p, "acquires")
  /\ LaunchGoes(p, IF windowLock = NoLaunch THEN "watches" ELSE "raises")
  /\ UNCHANGED <<windowLock, raised, deaf, owed, missed, failed>>

Acquires(p) ==
  /\ LaunchAt(p, "acquires")
  /\ IF windowLock = NoLaunch
     THEN windowLock' = p /\ LaunchGoes(p, "watches")
     ELSE LaunchGoes(p, "raises") /\ UNCHANGED windowLock
  /\ UNCHANGED <<raised, deaf, owed, missed, failed>>

(* Only what is written from now on is noticed; the window also opens without a watch. *)
Watches(p) ==
  /\ LaunchAt(p, "watches")
  /\ LaunchGoes(p, "starts")
  /\ raised' = FALSE
  /\ \/ UNCHANGED <<deaf, failed>>
     \/ Fails /\ deaf' = TRUE
  /\ UNCHANGED <<windowLock, owed, missed>>

(* The watcher's thread cannot wait for requests any longer. *)
StopsListening ==
  /\ Watched /\ Fails
  /\ deaf' = TRUE /\ raised' = FALSE
  /\ UNCHANGED <<launch, windowLock, owed, missed>>

(* The window opens in front, once a daemon answers; or the process ends. *)
OpensWindow(p) ==
  /\ LaunchAt(p, "starts")
  /\ \/ LaunchGoes(p, "open") /\ InFront /\ UNCHANGED failed
     \/ Fails /\ LaunchGoes(p, "exits") /\ GoesAway
  /\ UNCHANGED <<windowLock, raised, deaf>>

(* The request is written, or the launch ends with the error. *)
RaisesOpenWindow(p) ==
  /\ LaunchAt(p, "raises")
  /\ LaunchGoes(p, "done")
  /\ \/ /\ raised' = (Watched /\ ~deaf)
        /\ IF windowLock # NoLaunch /\ ~LaunchAt(windowLock, "exits")
           THEN owed' = owed \cup {p} /\ UNCHANGED missed
           ELSE missed' = missed \cup {p} /\ UNCHANGED owed
        /\ UNCHANGED failed
     \/ Fails /\ UNCHANGED <<raised, owed, missed>>
  /\ UNCHANGED <<windowLock, deaf>>

ActivatesWindow(p) ==
  /\ LaunchAt(p, "open") /\ raised
  /\ raised' = FALSE /\ InFront
  /\ UNCHANGED <<launch, windowLock, deaf, failed>>

Closes(p) ==
  /\ LaunchAt(p, "open")
  /\ LaunchGoes(p, "exits") /\ GoesAway
  /\ UNCHANGED <<windowLock, raised, deaf, failed>>

(* The lock goes with the process. *)
Exits(p) ==
  /\ LaunchAt(p, "exits")
  /\ LaunchGoes(p, "done")
  /\ windowLock' = NoLaunch
  /\ raised' = FALSE /\ deaf' = FALSE
  /\ UNCHANGED <<owed, missed, failed>>

LaunchSteps(p) ==
  \/ Acquires(p) \/ Watches(p) \/ OpensWindow(p) \/ RaisesOpenWindow(p) \/ ActivatesWindow(p)
  \/ Exits(p)

(* Properties *)

(* The user never has two windows. *)
OneWindow == Cardinality({p \in Launched : launch[p] \in {"watches", "starts", "open"}}) <= 1

(* A launch that finds the lock held sees the window come to the front, unless the
   window's process ends first, or cannot hear of launches. *)
LaunchIsAnswered == owed = {} \/ deaf
LaunchesAreAnswered == <>[]LaunchIsAnswered

(* As above, whenever the window's process ends. *)
NoLaunchIsLost == missed = {}

================================================================================
