---------------------------------- MODULE Window ----------------------------------
(* The settings window: what it shows of the database (History), the settings it edits
   (SettingsForm), the status it and the tray show (Status, once with dictations and once
   with device changes), and the one process it runs in (Launches).  The parts share no
   state. *)
EXTENDS History, SettingsForm, Status, Launches

VARIABLE part    \* bound: the part that moves; the others stay as they were

windowVars == <<historyVars, formVars, statusVars, launchVars, part>>

Init ==
  /\ part \in {"database", "settings", "tray", "desktop", "launches"}
  /\ HistoryInit /\ (part # "database" => stored = {})
  /\ FormInit /\ (part # "settings" => screen = "words" /\ config.words = <<>>)
  /\ StatusInit /\ (part # "desktop" => shortcut)
  /\ LaunchInit

HistoryMoves ==
  /\ part = "database"
  /\ HistoryThreads \/ HistoryWorld \/ HistoryClicks
  /\ UNCHANGED <<formVars, statusVars, launchVars, part>>

FormMoves ==
  /\ part = "settings"
  /\ FormAnswers \/ FormChecks \/ FormClicks
  /\ UNCHANGED <<historyVars, statusVars, launchVars, part>>

StatusMoves ==
  /\ \/ part = "tray" /\ TrayMoves
     \/ part = "desktop" /\ DesktopMoves
  /\ UNCHANGED <<historyVars, formVars, launchVars, part>>

LaunchesMove ==
  /\ part = "launches"
  /\ StopsListening \/ \E p \in Launched : Launches(p) \/ LaunchSteps(p) \/ Closes(p)
  /\ UNCHANGED <<historyVars, formVars, statusVars, part>>

Next == HistoryMoves \/ FormMoves \/ StatusMoves \/ LaunchesMove

Spec == Init /\ [][Next]_windowVars

othersRest == <<historyVars, formVars, launchVars, part>>

(* The threads of the window and of the daemon, the processes and the watchers are the
   kernel's to run; nothing makes the user click or launch, or the daemon commit, stop,
   start or dictate. *)
FairSpec ==
  /\ Spec
  /\ WF_windowVars(/\ part = "database" /\ HistoryThreads
                   /\ UNCHANGED <<formVars, statusVars, launchVars, part>>)
  /\ WF_windowVars(part = "tray" /\ Publishes /\ UNCHANGED othersRest)
  /\ WF_windowVars(part = "tray" /\ Refreshes /\ UNCHANGED othersRest)
  /\ WF_windowVars(part = "tray" /\ TogglesDictation /\ UNCHANGED othersRest)
  /\ WF_windowVars(/\ part = "desktop" /\ (CountsDeviceChange \/ SetsReadiness)
                   /\ UNCHANGED othersRest)
  /\ WF_windowVars(part = "desktop" /\ Signals /\ UNCHANGED othersRest)
  /\ WF_windowVars(/\ part = "desktop" /\ (StartsWatching \/ Connects("watcher"))
                   /\ UNCHANGED othersRest)
  /\ WF_windowVars(part = "desktop" /\ AppliesStatus /\ UNCHANGED othersRest)
  /\ \A a \in Askers :
       WF_windowVars(part = "desktop" /\ ClientSession(a) /\ UNCHANGED othersRest)
  /\ \A p \in Launched :
       WF_windowVars(/\ part = "launches" /\ LaunchSteps(p)
                     /\ UNCHANGED <<historyVars, formVars, statusVars, part>>)


(* What the user typed is what is searched for and saved: SearchIsTyped and
   WordsAreAsEdited. *)
TypedIsMeant == SearchIsTyped /\ WordsAreAsEdited

(* A report of the desktop is as fresh as it says, and there is one window. *)
ReportsAreFresh == ReportIsFresh /\ OneWindow

================================================================================
