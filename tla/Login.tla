---------------------------------- MODULE Login ----------------------------------
(* "Start on login": LoginStartup::sync of crates/agentdictate-app/src/startup.rs, run by
   the maintenance thread with the settings as they were when it was spawned, and by a
   settings change under the process lock.  A step is one file or one call of systemctl.
   The process may die between any two and start again.                              *)
EXTENDS Naturals

CONSTANTS
  SyncFailing,     \* the kinds of step that may fail
  MaxSyncFailures  \* bound: failed steps and deaths

ASSUME SyncAssumption ==
  SyncFailing \subseteq {"write", "systemctl", "remove", "die"} /\ MaxSyncFailures \in Nat

VARIABLES
  start_on_login,  \* the saved setting
  held,            \* the setting that the daemon holds
  enabled,         \* the unit's enablement
  legacy,          \* the autostart entry that an older version installed
  sync,            \* where each thread's sync stands, and the setting it makes so
  changed,         \* history: the user changed the setting
  syncFailures     \* failed steps and deaths so far

loginVars == <<start_on_login, held, enabled, legacy, sync, changed, syncFailures>>

SyncThreads == {"maintenance", "command"}
Done == [at |-> "done", want |-> FALSE]
Maintenance(want) ==
  [t \in SyncThreads |-> IF t = "maintenance" THEN [at |-> "writes", want |-> want] ELSE Done]

LoginTypeOK ==
  /\ {start_on_login, held, enabled, legacy, changed} \subseteq BOOLEAN
  /\ sync \in [SyncThreads ->
                 [at : {"done", "saves", "writes", "shows", "sets", "clears"}, want : BOOLEAN]]
  /\ syncFailures \in 0..MaxSyncFailures

(* An install that starts on login does so by its unit or by the entry of an older one. *)
LoginInit ==
  /\ start_on_login \in BOOLEAN
  /\ held = start_on_login
  /\ enabled \in BOOLEAN /\ legacy \in BOOLEAN
  /\ start_on_login => enabled \/ legacy
  /\ sync = Maintenance(start_on_login)
  /\ changed = FALSE
  /\ syncFailures = 0

SyncMay(kind) ==
  kind \in SyncFailing /\ syncFailures < MaxSyncFailures /\ syncFailures' = syncFailures + 1
SyncFine == UNCHANGED syncFailures

SyncGoes(t, stage) == sync' = [sync EXCEPT ![t].at = stage]
SyncEnds(t) == sync' = [sync EXCEPT ![t] = Done]

(* AgentProcess::update_settings: the file, then the sync, then what the daemon holds. *)
ChangeSetting ==
  /\ sync["command"].at = "done"
  /\ sync' = [sync EXCEPT !["command"] = [at |-> "saves", want |-> ~held]]
  /\ UNCHANGED <<start_on_login, held, enabled, legacy, changed, syncFailures>>

SaveSetting ==
  /\ sync["command"].at = "saves"
  /\ \/ /\ start_on_login' = sync["command"].want
        /\ SyncGoes("command", "writes") /\ SyncFine /\ changed' = TRUE
     \/ SyncMay("write") /\ SyncEnds("command") /\ UNCHANGED <<start_on_login, changed>>
  /\ UNCHANGED <<held, enabled, legacy>>

(* The command's sync is through, whether it failed or not. *)
Holds(t) == held' = IF t = "command" THEN sync[t].want ELSE held

(* `write_unit` *)
WriteUnit(t) ==
  /\ sync[t].at = "writes"
  /\ \/ SyncGoes(t, "shows") /\ SyncFine /\ UNCHANGED held
     \/ (SyncMay("write") \/ SyncMay("systemctl")) /\ SyncEnds(t) /\ Holds(t)
  /\ UNCHANGED <<start_on_login, enabled, legacy, changed>>

(* Mutant of ShowState: the old entry goes before the unit is enabled. *)
ShowStateClearing(t) ==
  /\ sync[t].at = "shows"
  /\ legacy' = FALSE
  /\ \/ /\ SyncGoes(t, IF enabled = sync[t].want THEN "clears" ELSE "sets")
        /\ SyncFine /\ UNCHANGED held
     \/ SyncMay("systemctl") /\ SyncEnds(t) /\ Holds(t)
  /\ UNCHANGED <<start_on_login, enabled, changed>>

(* `sync_enablement` reads the enablement, *)
ShowState(t) ==
  /\ sync[t].at = "shows"
  /\ \/ /\ SyncGoes(t, IF enabled = sync[t].want THEN "clears" ELSE "sets")
        /\ SyncFine /\ UNCHANGED held
     \/ SyncMay("systemctl") /\ SyncEnds(t) /\ Holds(t)
  /\ UNCHANGED <<start_on_login, enabled, legacy, changed>>

(* and changes it; *)
SetState(t) ==
  /\ sync[t].at = "sets"
  /\ \/ /\ enabled' = sync[t].want
        /\ SyncGoes(t, "clears") /\ SyncFine /\ UNCHANGED held
     \/ SyncMay("systemctl") /\ SyncEnds(t) /\ Holds(t) /\ UNCHANGED enabled
  /\ UNCHANGED <<start_on_login, legacy, changed>>

(* the entry of older versions goes last. *)
ClearLegacy(t) ==
  /\ sync[t].at = "clears"
  /\ \/ legacy' = FALSE /\ SyncFine
     \/ legacy /\ SyncMay("remove") /\ UNCHANGED legacy
  /\ SyncEnds(t) /\ Holds(t)
  /\ UNCHANGED <<start_on_login, enabled, changed>>

(* The next start holds what was saved. *)
RestartDaemon ==
  /\ SyncMay("die")
  /\ held' = start_on_login
  /\ sync' = Maintenance(start_on_login)
  /\ UNCHANGED <<start_on_login, enabled, legacy, changed>>

LoginNext ==
  \/ ChangeSetting \/ SaveSetting \/ RestartDaemon
  \/ \E t \in SyncThreads : WriteUnit(t) \/ ShowState(t) \/ SetState(t) \/ ClearLegacy(t)

--------------------------------------------------------------------------------
(* "The daemon deletes that entry once it has enabled its unit; until then, it keeps
   working": a setting the user never touched holds at the next login, wherever the
   daemon died on its way from the entry to the unit. *)
LoginStaysArmed == start_on_login /\ ~changed => enabled \/ legacy

(* "Keeps `agentdictated.service` in step with the Start on login setting": once every
   sync is through and none failed, the unit is enabled as the setting says. *)
LoginFollowsSetting ==
  syncFailures = 0 /\ (\A t \in SyncThreads : sync[t] = Done) => enabled = start_on_login

================================================================================
