-------------------------------- MODULE ServiceProofs --------------------------------
(* Theorems about Service, for any number of commands, quits, transcriptions, builds, faults
   and deaths. *)
EXTENDS Service, TLAPS

--------------------------------------------------------------------------------
(* Shutdown *)

(* The transcription the daemon waits for runs. *)
AwaitedRuns == IsProcessing => processing[activity.of] = "running"

(* The flag is clear beside a quit that goes on only after one that failed cleared it, and only
   then can a command have looked at it. *)
ClearedByFailure ==
  /\ QuitBegun /\ ~quitting => failures > 0
  /\ \A c \in Commands : command[c] = "checked_quitting" => failures > 0

(* A quit has preserved what there was. *)
Preserved == \E q \in Quitters : quitter[q] \notin {"idle", "failed", "marked"}

(* What is recorded behind the back of a quit, and when a quit's failure ends the process. *)
CutIsAccountedFor ==
  /\ shutdownFailed => QuitterAt(SignalQuit, "failed")
  /\ shouldQuit \/ exited => Preserved \/ shutdownFailed
  /\ activity = Recording /\ Preserved =>
       started = "late" \/ (started = "quitting" /\ failures > 0)

(* The inductive invariant of Shutdown. *)
ShutdownInv ==
  /\ ShutdownTypeOK
  /\ AwaitedRuns
  /\ NoLostNotification
  /\ RefusesOnlyWhileQuitting
  /\ ClearedByFailure
  /\ CutIsAccountedFor

(* The records of what the daemon is at are told apart by their kind. *)
LEMMA Kinds ==
  /\ \A a \in Activities : /\ a = Idle <=> a.kind = "idle"
                           /\ a = Recording <=> a.kind = "recording"
                           /\ a.kind = "processing" => a.of \in Transcriptions /\ a = Processing(a.of)
                           /\ a.kind \in {"idle", "recording", "processing"}
  /\ \A t \in Transcriptions :
       Processing(t) \in Activities /\ Processing(t).kind = "processing" /\ Processing(t).of = t
  /\ Idle \in Activities /\ Recording \in Activities
  /\ Idle.kind = "idle" /\ Recording.kind = "recording"
<1>1. Idle.kind = "idle" /\ Recording.kind = "recording"
  BY DEF Idle, Recording
<1>2. \A t \in Transcriptions : Processing(t).kind = "processing" /\ Processing(t).of = t
  BY DEF Processing
<1>3. Idle \in Activities /\ Recording \in Activities
  BY DEF Activities
<1>4. \A t \in Transcriptions : Processing(t) \in Activities
  BY DEF Activities
<1>5. ASSUME NEW a \in Activities
      PROVE  a = Idle \/ a = Recording \/ \E t \in Transcriptions : a = Processing(t)
  BY DEF Activities
<1>6. QED
  BY <1>1, <1>2, <1>3, <1>4, <1>5

(* A daemon that starts satisfies it. *)
LEMMA ShutdownInvInit == ShutdownInit => ShutdownInv
<1> HAVE ShutdownInit
<1>1. activity.kind = "idle" /\ activity \in Activities /\ activity # Recording
  BY Kinds DEF ShutdownInit
<1>2. ShutdownTypeOK
  <2>1. quitting \in BOOLEAN /\ shouldQuit \in BOOLEAN /\ exited \in BOOLEAN
    BY DEF ShutdownInit
  <2>2. failures \in 0..MaxFailures
    BY MaxFailuresAssumption DEF ShutdownInit
  <2>3. QED
    BY <1>1, <2>1, <2>2 DEF ShutdownInit, ShutdownTypeOK
<1>3. AwaitedRuns /\ NoLostNotification /\ RefusesOnlyWhileQuitting
  BY <1>1 DEF ShutdownInit, AwaitedRuns, NoLostNotification, RefusesOnlyWhileQuitting, IsProcessing,
     QuitterAt
<1>4. ClearedByFailure /\ CutIsAccountedFor
  BY <1>1 DEF ShutdownInit, ClearedByFailure, CutIsAccountedFor, Preserved, QuitBegun
<1>5. QED
  BY <1>2, <1>3, <1>4 DEF ShutdownInv

(* A command looks, acts, stops a recording or gives one up. *)
LEMMA CommandStep ==
  ASSUME ShutdownInv, CommandSteps
  PROVE  ShutdownInv'
<1> USE DEF ShutdownInv, ShutdownTypeOK, AwaitedRuns, NoLostNotification, RefusesOnlyWhileQuitting,
            ClearedByFailure, CutIsAccountedFor, Preserved, QuitBegun, QuitterAt, Running
<1>1. ASSUME NEW c \in Commands, LookAtQuitting(c) PROVE ShutdownInv'
  BY <1>1 DEF LookAtQuitting, Move, IsProcessing
<1>2. ASSUME NEW c \in Commands, ActUnderLock(c) PROVE ShutdownInv'
  <2>1. CASE activity = Idle
    <3>1. activity' = Recording /\ activity'.kind = "recording" /\ activity.kind = "idle"
      BY <1>2, <2>1, Kinds DEF ActUnderLock
    <3>2. started' = Start(command[c]) /\ command[c] \in {"checked", "checked_quitting"}
      BY <1>2, <2>1 DEF ActUnderLock, Passed
    <3>3. QED
      BY <1>2, <3>1, <3>2, Kinds DEF ActUnderLock, Move, Start, IsProcessing
  <2>2. CASE activity # Idle
    BY <1>2, <2>2 DEF ActUnderLock, Move, IsProcessing
  <2>3. QED
    BY <2>1, <2>2
<1>3. ASSUME NEW t \in Transcriptions, StopRecording(t) PROVE ShutdownInv'
  <2>1. /\ activity' \in Activities /\ activity'.kind = "processing" /\ activity'.of = t
        /\ activity' # Recording
    BY <1>3, Kinds DEF StopRecording
  <2>2. QED
    BY <1>3, <2>1 DEF StopRecording, IsProcessing
<1>4. CASE EndRecording
  <2>1. /\ activity' \in Activities /\ activity'.kind = "idle" /\ activity.kind = "recording"
        /\ activity' # Recording
    BY <1>4, Kinds DEF EndRecording
  <2>2. QED
    BY <1>4, <2>1 DEF EndRecording, IsProcessing
<1>5. CASE CancelProcessing
  <2>1. /\ activity' \in Activities /\ activity'.kind = "idle" /\ activity' # Recording
        /\ activity.of \in Transcriptions /\ processing[activity.of] = "running"
    BY <1>5, Kinds DEF CancelProcessing, IsProcessing
  <2>2. QED
    BY <1>5, <2>1 DEF CancelProcessing, IsProcessing
<1>6. QED
  BY <1>1, <1>2, <1>3, <1>4, <1>5 DEF CommandSteps

(* A transcription settles, and then notifies. *)
LEMMA ProcessingStep ==
  ASSUME ShutdownInv, ProcessingSteps
  PROVE  ShutdownInv'
<1> USE DEF ShutdownInv, ShutdownTypeOK, AwaitedRuns, NoLostNotification, RefusesOnlyWhileQuitting,
            ClearedByFailure, CutIsAccountedFor, Preserved, QuitBegun, QuitterAt, Running
<1>1. ASSUME NEW t \in Transcriptions, CompleteTranscription(t) PROVE ShutdownInv'
  <2>1. /\ activity' \in Activities /\ (activity' = Recording <=> activity = Recording)
        /\ activity'.kind = "processing" =>
             activity' = activity /\ activity.of \in Transcriptions /\ activity.of # t
    BY <1>1, Kinds DEF CompleteTranscription
  <2>2. processing'[t] = "completed"
    BY <1>1 DEF CompleteTranscription
  <2>3. QED
    BY <1>1, <2>1, <2>2 DEF CompleteTranscription, IsProcessing
<1>2. ASSUME NEW t \in Transcriptions, NotifySettled(t) PROVE ShutdownInv'
  <2>1. \A q \in Quitters : /\ quitter'[q] = IF quitter[q] = "waiting" THEN "woken" ELSE quitter[q]
                            /\ quitter'[q] # "waiting"
    BY <1>2 DEF NotifySettled
  <2>2. ShutdownTypeOK'
    BY <1>2 DEF NotifySettled
  <2>3. AwaitedRuns' /\ NoLostNotification'
    BY <1>2, <2>1 DEF NotifySettled, IsProcessing
  <2>4. RefusesOnlyWhileQuitting' /\ ClearedByFailure' /\ CutIsAccountedFor'
    BY <1>2, <2>1, SignalQuitAssumption DEF NotifySettled
  <2>5. QED
    BY <2>2, <2>3, <2>4
<1>3. QED
  BY <1>1, <1>2 DEF ProcessingSteps

(* A quit begins, preserves, waits, wakes up and finishes, or fails. *)
LEMMA QuitStep ==
  ASSUME ShutdownInv, QuitSteps
  PROVE  ShutdownInv'
<1> USE DEF ShutdownInv, ShutdownTypeOK, AwaitedRuns, NoLostNotification, RefusesOnlyWhileQuitting,
            ClearedByFailure, CutIsAccountedFor, Preserved, QuitBegun, QuitterAt, Running,
            QuitterGoes
<1>1. ASSUME NEW q \in Quitters, BeginQuit(q) PROVE ShutdownInv'
  BY <1>1 DEF BeginQuit, IsProcessing
<1>2. ASSUME NEW q \in Quitters, ShutDown(q) PROVE ShutdownInv'
  <2>1. /\ activity' \in Activities /\ activity' # Recording
        /\ activity'.kind = "processing" => activity' = activity
    BY <1>2, Kinds DEF ShutDown
  <2>2. quitter' = [quitter EXCEPT ![q] = IF IsProcessing' THEN "waiting" ELSE "settled"]
    BY <1>2 DEF ShutDown, WaitOrGoOn, IsProcessing
  <2>3. activity.kind = "processing" => activity' = activity
    BY <1>2, Kinds DEF ShutDown
  <2>4. QED
    BY <1>2, <2>1, <2>2, <2>3 DEF ShutDown, IsProcessing
<1>3. ASSUME NEW q \in Quitters, ShutDownFails(q) PROVE ShutdownInv'
  <2>1. activity' \in Activities /\ activity'.kind # "processing" /\ activity.kind # "processing"
    BY <1>3, Kinds DEF ShutDownFails
  <2>2. failures' \in 0..MaxFailures /\ failures' > 0
    BY <1>3, MaxFailuresAssumption DEF ShutDownFails
  <2>3. CutIsAccountedFor'
    BY <1>3, <2>2 DEF ShutDownFails
  <2>4. QED
    BY <1>3, <2>1, <2>2, <2>3 DEF ShutDownFails, IsProcessing
<1>4. ASSUME NEW q \in Quitters, GraceEnds(q) \/ FinishQuit(q) PROVE ShutdownInv'
  <2>1. CASE GraceEnds(q)
    BY <1>4, <2>1, SignalQuitAssumption DEF GraceEnds, IsProcessing
  <2>2. CASE FinishQuit(q)
    BY <1>4, <2>2, SignalQuitAssumption DEF FinishQuit, IsProcessing
  <2>3. QED
    BY <1>4, <2>1, <2>2
<1>5. ASSUME NEW q \in Quitters, WakeUp(q) PROVE ShutdownInv'
  <2>1. \/ quitter' = [quitter EXCEPT ![q] = "settled"]
        \/ quitter' = [quitter EXCEPT ![q] = "waiting"] /\ IsProcessing'
    BY <1>5 DEF WakeUp, WaitOrGoOn, IsProcessing
  <2>2. quitter[q] \in {"woken", "timed_out"}
    BY <1>5 DEF WakeUp
  <2>3. QED
    BY <1>5, <2>1, <2>2, SignalQuitAssumption DEF WakeUp, IsProcessing
<1>6. QED
  BY <1>1, <1>2, <1>3, <1>4, <1>5 DEF QuitSteps

(* Every behaviour of Shutdown keeps its invariant. *)
LEMMA ShutdownStep ==
  ASSUME ShutdownInv, [ShutdownNext]_shutdownVars
  PROVE  ShutdownInv'
<1>1. CASE Exit
  BY <1>1 DEF Exit, ShutdownInv, ShutdownTypeOK, AwaitedRuns, NoLostNotification,
     RefusesOnlyWhileQuitting, ClearedByFailure, CutIsAccountedFor, Preserved, QuitBegun, QuitterAt,
     IsProcessing
<1>2. CASE FailSignal
  BY <1>2 DEF FailSignal, ShutdownInv, ShutdownTypeOK, AwaitedRuns, NoLostNotification,
     RefusesOnlyWhileQuitting, ClearedByFailure, CutIsAccountedFor, Preserved, QuitBegun, QuitterAt,
     IsProcessing
<1>3. CASE UNCHANGED shutdownVars
  BY <1>3 DEF shutdownVars, ShutdownInv, ShutdownTypeOK, AwaitedRuns, NoLostNotification,
     RefusesOnlyWhileQuitting, ClearedByFailure, CutIsAccountedFor, Preserved, QuitBegun, QuitterAt,
     IsProcessing
<1>4. QED
  BY <1>1, <1>2, <1>3, CommandStep, ProcessingStep, QuitStep DEF ShutdownNext

(* So it holds throughout. *)
LEMMA ShutdownInvariance == ShutdownSpec => []ShutdownInv
<1>1. QED
  BY ShutdownInvInit, ShutdownStep, PTL DEF ShutdownSpec

--------------------------------------------------------------------------------
(* Login *)

(* Until the user changes the setting, every sync makes so what was saved: the settings
   change's own sync runs only once the change is saved. *)
SyncsAgree ==
  /\ sync["command"].at \notin {"done", "saves"} => changed
  /\ sync["maintenance"].at # "saves"
  /\ ~changed => held = start_on_login
  /\ ~changed /\ sync["maintenance"].at # "done" => sync["maintenance"].want = start_on_login

(* The entry of an older version goes only when the unit is as it should be. *)
ClearsLast ==
  ~changed /\ sync["maintenance"].at = "clears" => enabled = start_on_login

(* The inductive invariant of Login. *)
LoginInv == LoginTypeOK /\ SyncsAgree /\ ClearsLast /\ LoginStaysArmed

(* An install that starts on login, and its first sync. *)
LEMMA LoginInvInit == LoginInit => LoginInv
<1> HAVE LoginInit
<1>1. /\ start_on_login \in BOOLEAN /\ held \in BOOLEAN /\ enabled \in BOOLEAN /\ legacy \in BOOLEAN
      /\ changed \in BOOLEAN /\ ~changed /\ syncFailures \in 0..MaxSyncFailures
      /\ sync \in [SyncThreads ->
                 [at : {"done", "saves", "writes", "shows", "sets", "clears"}, want : BOOLEAN]]
  <2>1. sync = [t \in SyncThreads |-> IF t = "maintenance"
                                      THEN [at |-> "writes", want |-> start_on_login]
                                      ELSE [at |-> "done", want |-> FALSE]]
    BY DEF LoginInit, Maintenance, Done
  <2>2. start_on_login \in BOOLEAN /\ enabled \in BOOLEAN /\ legacy \in BOOLEAN
    BY DEF LoginInit
  <2>3. held \in BOOLEAN /\ changed \in BOOLEAN /\ ~changed
    BY <2>2 DEF LoginInit
  <2>4. syncFailures \in 0..MaxSyncFailures
    BY SyncAssumption DEF LoginInit
  <2>5. QED
    BY <2>1, <2>2, <2>3, <2>4
<1>2. /\ sync["maintenance"] = [at |-> "writes", want |-> start_on_login]
      /\ sync["command"].at = "done"
  BY DEF LoginInit, Maintenance, Done, SyncThreads
<1>3. SyncsAgree /\ ClearsLast /\ LoginStaysArmed
  BY <1>1, <1>2 DEF LoginInit, SyncsAgree, ClearsLast, LoginStaysArmed
<1>4. QED
  BY <1>1, <1>3 DEF LoginInv, LoginTypeOK

(* A failing step is counted. *)
LEMMA SyncCounts ==
  ASSUME syncFailures \in 0..MaxSyncFailures,
         SyncFine \/ (\E kind \in {"write", "systemctl", "remove", "die"} : SyncMay(kind))
  PROVE  syncFailures' \in 0..MaxSyncFailures
  BY SyncAssumption DEF SyncFine, SyncMay

(* Where a thread's sync goes, *)
LEMMA SyncMoves ==
  ASSUME LoginTypeOK, NEW t \in SyncThreads, NEW stage \in {"writes", "shows", "sets", "clears"},
         SyncGoes(t, stage)
  PROVE  /\ sync' \in [SyncThreads ->
                 [at : {"done", "saves", "writes", "shows", "sets", "clears"}, want : BOOLEAN]]
         /\ sync'[t].at = stage /\ sync'[t].want = sync[t].want
         /\ \A u \in SyncThreads \ {t} : sync'[u] = sync[u]
  BY DEF LoginTypeOK, SyncGoes

(* and how it ends. *)
LEMMA SyncStops ==
  ASSUME LoginTypeOK, NEW t \in SyncThreads, SyncEnds(t)
  PROVE  /\ sync' \in [SyncThreads ->
                 [at : {"done", "saves", "writes", "shows", "sets", "clears"}, want : BOOLEAN]]
         /\ sync'[t].at = "done"
         /\ \A u \in SyncThreads \ {t} : sync'[u] = sync[u]
  BY DEF LoginTypeOK, SyncEnds, Done

(* A sync that has begun to write keeps the setting, and ends by being held. *)
LEMMA SyncKeeps ==
  ASSUME LoginInv, NEW t \in SyncThreads, sync[t].at \notin {"done", "saves"},
         UNCHANGED <<start_on_login, changed>>, syncFailures' \in 0..MaxSyncFailures,
         \/ SyncEnds(t) /\ Holds(t)
         \/ \E stage \in {"writes", "shows", "sets", "clears"} : SyncGoes(t, stage) /\ UNCHANGED held,
         enabled' \in BOOLEAN, legacy' \in BOOLEAN
  PROVE  LoginTypeOK' /\ SyncsAgree'
<1>1. /\ sync' \in [SyncThreads ->
                 [at : {"done", "saves", "writes", "shows", "sets", "clears"}, want : BOOLEAN]]
      /\ sync'[t].at # "saves"
      /\ sync'[t].at = "done" \/ sync'[t].want = sync[t].want
      /\ \A u \in SyncThreads \ {t} : sync'[u] = sync[u]
  BY SyncMoves, SyncStops DEF LoginInv
<1>2. held' = held \/ (t = "command" /\ held' = sync[t].want)
  BY DEF Holds
<1>3. held' \in BOOLEAN
  BY <1>2 DEF LoginInv, LoginTypeOK
<1>4. LoginTypeOK'
  BY <1>1, <1>3 DEF LoginInv, LoginTypeOK
<1>5. t = "command" => changed
  BY DEF LoginInv, SyncsAgree
<1>6. CASE t = "command"
  BY <1>1, <1>4, <1>5, <1>6 DEF SyncsAgree, LoginInv, SyncThreads
<1>7. CASE t = "maintenance"
  <2>1. sync'["command"] = sync["command"] /\ held' = held
    BY <1>1, <1>2, <1>7 DEF SyncThreads
  <2>2. QED
    BY <1>1, <1>4, <1>7, <2>1 DEF SyncsAgree, LoginInv
<1>8. QED
  BY <1>6, <1>7 DEF SyncThreads

(* Every behaviour of Login keeps its invariant. *)
LEMMA LoginStep ==
  ASSUME LoginInv, [LoginNext]_loginVars
  PROVE  LoginInv'
<1>typed. LoginTypeOK
  BY DEF LoginInv
<1> DEFINE Stages == {"writes", "shows", "sets", "clears"}
<1>1. CASE ChangeSetting
  <2>1. /\ sync' \in [SyncThreads ->
                 [at : {"done", "saves", "writes", "shows", "sets", "clears"}, want : BOOLEAN]]
        /\ sync'["command"].at = "saves" /\ sync'["maintenance"] = sync["maintenance"]
    BY <1>1, <1>typed DEF ChangeSetting, LoginTypeOK, SyncThreads
  <2>2. UNCHANGED <<start_on_login, held, enabled, legacy, changed, syncFailures>>
    BY <1>1 DEF ChangeSetting
  <2>3. QED
    BY <2>1, <2>2 DEF LoginInv, LoginTypeOK, SyncsAgree, ClearsLast, LoginStaysArmed
<1>2. CASE SaveSetting
  <2>1. UNCHANGED <<held, enabled, legacy>>
    BY <1>2 DEF SaveSetting
  <2>2. CASE /\ start_on_login' = sync["command"].want
             /\ SyncGoes("command", "writes") /\ SyncFine /\ changed' = TRUE
    <3>1. /\ sync' \in [SyncThreads ->
                 [at : {"done", "saves", "writes", "shows", "sets", "clears"}, want : BOOLEAN]]
          /\ sync'["maintenance"] = sync["maintenance"] /\ start_on_login' \in BOOLEAN
      BY <1>typed, <2>2, SyncMoves DEF SyncThreads, LoginTypeOK
    <3>2. QED
      BY <2>1, <2>2, <3>1 DEF LoginInv, LoginTypeOK, SyncsAgree, ClearsLast, LoginStaysArmed, SyncFine
  <2>3. CASE SyncMay("write") /\ SyncEnds("command") /\ UNCHANGED <<start_on_login, changed>>
    <3>1. /\ sync' \in [SyncThreads ->
                 [at : {"done", "saves", "writes", "shows", "sets", "clears"}, want : BOOLEAN]]
          /\ sync'["maintenance"] = sync["maintenance"] /\ sync'["command"].at = "done"
          /\ syncFailures' \in 0..MaxSyncFailures
      BY <1>typed, <2>3, SyncStops, SyncCounts DEF SyncThreads, LoginTypeOK
    <3>2. QED
      BY <2>1, <2>3, <3>1 DEF LoginInv, LoginTypeOK, SyncsAgree, ClearsLast, LoginStaysArmed
  <2>4. QED
    BY <1>2, <2>2, <2>3 DEF SaveSetting
<1>3. CASE RestartDaemon
  <2>1. /\ sync' = Maintenance(start_on_login) /\ held' = start_on_login
        /\ UNCHANGED <<start_on_login, enabled, legacy, changed>>
        /\ syncFailures' \in 0..MaxSyncFailures
    BY <1>3, <1>typed, SyncCounts DEF RestartDaemon, LoginTypeOK
  <2>2. /\ sync' \in [SyncThreads ->
                 [at : {"done", "saves", "writes", "shows", "sets", "clears"}, want : BOOLEAN]]
        /\ sync'["command"].at = "done"
        /\ sync'["maintenance"].at = "writes" /\ sync'["maintenance"].want = start_on_login
    BY <2>1, <1>typed DEF Maintenance, Done, SyncThreads, LoginTypeOK
  <2>3. QED
    BY <2>1, <2>2 DEF LoginInv, LoginTypeOK, SyncsAgree, ClearsLast, LoginStaysArmed
<1>4. ASSUME NEW t \in SyncThreads, WriteUnit(t) \/ ShowState(t) \/ SetState(t) \/ ClearLegacy(t)
      PROVE  LoginInv'
  <2>1. /\ sync[t].at \in Stages /\ UNCHANGED <<start_on_login, changed>>
        /\ enabled' \in BOOLEAN /\ legacy' \in BOOLEAN /\ syncFailures' \in 0..MaxSyncFailures
    BY <1>4, <1>typed, SyncCounts DEF WriteUnit, ShowState, SetState, ClearLegacy, LoginTypeOK
  <2>2. \/ SyncEnds(t) /\ Holds(t)
        \/ \E stage \in Stages : SyncGoes(t, stage) /\ UNCHANGED held
    BY <1>4 DEF WriteUnit, ShowState, SetState, ClearLegacy
  <2>3. LoginTypeOK' /\ SyncsAgree'
    BY <2>1, <2>2, SyncKeeps
  <2>4. /\ sync'[t].at = "clears" => sync[t].at \in {"shows", "sets"} /\ enabled' = sync[t].want
        /\ \A u \in SyncThreads \ {t} : sync'[u] = sync[u]
        /\ enabled' = enabled \/ enabled' = sync[t].want
    BY <1>4, <1>typed, SyncMoves, SyncStops DEF WriteUnit, ShowState, SetState, ClearLegacy
  <2>5. /\ legacy' = legacy \/ sync[t].at = "clears"
        /\ sync[t].at # "sets" => enabled' = enabled
    BY <1>4 DEF WriteUnit, ShowState, SetState, ClearLegacy
  <2>6. ~changed => t = "maintenance" /\ sync[t].want = start_on_login
    BY <2>1 DEF LoginInv, SyncsAgree, SyncThreads
  <2>7. ClearsLast' /\ LoginStaysArmed'
    BY <2>1, <2>4, <2>5, <2>6 DEF LoginInv, ClearsLast, LoginStaysArmed
  <2>8. QED
    BY <2>3, <2>7 DEF LoginInv
<1>5. CASE UNCHANGED loginVars
  BY <1>5 DEF loginVars, LoginInv, LoginTypeOK, SyncsAgree, ClearsLast, LoginStaysArmed
<1>6. QED
  BY <1>1, <1>2, <1>3, <1>4, <1>5 DEF LoginNext

--------------------------------------------------------------------------------
(* Startup *)

(* From the lock to the last step of its end, a daemon holds the lock; and who serves, or is on
   its way to, has its own socket at the path. *)
LockedStages == {"probes", "removes", "binds", "opens", "copies", "migrates", "reconciles", "retires",
                 "drops", "serves", "ends", "unlinks", "closes"}

(* From the bind of the socket to the end of serving. *)
BoundStages == {"opens", "copies", "migrates", "reconciles", "retires", "drops", "serves"}

(* The stages a daemon goes through with the lock it holds it in, and those with the
      socket bound it is found in. *)
OneAtWork ==
  \A d \in Daemons : /\ daemon[d].at \in LockedStages <=> lock = d
                     /\ daemon[d].at \in BoundStages => path = d

(* A service that systemd takes for stopped has stopped. *)
UnitIsStopped == unit \in {"inactive", "waiting"} => At("service", "off")

(* How far the job of an older version has come. *)
Renamed(job) ==
  /\ job.stage \in {"none", "failed", "transcribing", "interrupted"}
  /\ job.stage = "failed" => job.delivery \in {"attempting", "ambiguous"}

(* A dictation that reconciliation left to the user, or none. *)
Settled(job) ==
  /\ job.stage \in {"none", "interrupted", "failed"}
  /\ job.stage = "failed" => job.delivery = "ambiguous"

(* What each stage of the start relies on having been done. *)
UpgradeProceeds ==
  /\ database.version # 0 => Renamed(database.job)
  /\ database.version <= 0 => database.job.stage # "failed"
  /\ \A d \in Daemons :
       /\ At(d, "copies") => database.version >= 0
       /\ At(d, "reconciles") => database.version > 0
       /\ daemon[d].at \in {"retires", "drops", "serves"} => Settled(database.job)
       /\ At(d, "drops") => words # "without"
  /\ words = "without" => database.rules

(* The inductive invariant of Startup. *)
StartupInv == StartupTypeOK /\ OneAtWork /\ UnitIsStopped /\ UpgradeProceeds

(* Where a daemon can be, and how it ends. *)
Stages == Starting \cup Ending \cup {"off", "serves"}

(* What an upgrade comes to. *)
Statuses == {"ok", "failed", "newer"}

(* Every build has a schema version of its own, from 1. *)
LEMMA BuildsHaveVersions ==
  /\ 1 \in Builds
  /\ \A b \in Builds : Latest[b] \in Nat /\ Latest[b] > 0
  BY LatestAssumption DEF Builds

(* An install, with the database of an older version or none, satisfies the invariant. *)
LEMMA StartupInvInit == StartupInit => StartupInv
<1> HAVE StartupInit
<1>1. /\ installed \in Builds /\ installs = 0 /\ faults = 0 /\ lock = Nobody /\ path \in {Nobody, Stale}
      /\ backup = NoCopy /\ words = IF database.rules THEN "without" ELSE "never"
      /\ unit \in {"inactive", "active"} /\ client = Closed
      /\ daemon = [d \in Daemons |-> IF d = "service" /\ unit = "active" THEN Launched ELSE Off]
  BY DEF StartupInit
<1>2. /\ database \in [version : Nat \cup {NoDatabase}, rules : BOOLEAN,
                   job : [stage : {"none", "delivering", "cleaning", "canceled", "failed",
                                   "transcribing", "interrupted"},
                          delivery : {"not_attempted", "attempting", "ambiguous"}]]
      /\ database.version # 0 => database.job.stage = "none"
      /\ database.job.stage # "failed"
  <2>1. CASE \E j \in LegacyJobs : database = [version |-> 0, rules |-> TRUE, job |-> j]
    <3>1. PICK j \in LegacyJobs : database = [version |-> 0, rules |-> TRUE, job |-> j]
      BY <2>1
    <3>2. j \in [stage : {"delivering", "cleaning", "canceled"}, delivery : {"not_attempted", "attempting"}]
      BY LegacyJobsAssumption
    <3>3. QED
      BY <3>1, <3>2
  <2>2. CASE \E v \in {NoDatabase, Latest[1]} :
               database = [version |-> v, rules |-> FALSE, job |-> NoJob]
    BY <2>2, BuildsHaveVersions DEF NoJob
  <2>3. QED
    BY <2>1, <2>2 DEF StartupInit
<1>3. /\ Launched \in [at : Stages, build : Builds, exit : Statuses] /\ Launched.at = "locks"
      /\ Off \in [at : Stages, build : Builds, exit : Statuses] /\ Off.at = "off"
  BY <1>1, BuildsHaveVersions DEF Launched, Off, Stages, Starting, Ending, Statuses
<1>4. /\ daemon \in [Daemons -> [at : Stages, build : Builds, exit : Statuses]]
      /\ \A d \in Daemons : daemon[d].at \in {"locks", "off"}
      /\ unit = "inactive" => daemon["service"].at = "off"
  BY <1>1, <1>3 DEF Daemons
<1>5. StartupTypeOK
  <2>1. client \in [at : {"connects", "starts", "restarts", "reads"} \cup Rests, build : Builds,
                 to : Daemons \cup {Nobody}, again : BOOLEAN, disturbed : BOOLEAN]
    BY <1>1, BuildsHaveVersions DEF Closed, Rests
  <2>2. installs \in 0..MaxInstalls /\ faults \in 0..MaxFaults
    BY <1>1, BoundsAssumption
  <2>3. words \in {"never", "without", "with", "removed"}
    BY <1>1
  <2>4. QED
    BY <1>1, <1>2, <1>4, <2>1, <2>2, <2>3 DEF StartupTypeOK, Stages, Statuses
<1>6. OneAtWork
  BY <1>1, <1>4 DEF OneAtWork, LockedStages, BoundStages, Daemons, Nobody
<1>7. UnitIsStopped
  BY <1>1, <1>4 DEF UnitIsStopped, At
<1>8. UpgradeProceeds
  BY <1>1, <1>2, <1>4 DEF UpgradeProceeds, At, Renamed
<1>9. QED
  BY <1>5, <1>6, <1>7, <1>8 DEF StartupInv

(* A daemon is at a stage, and the other as it was. *)
Is(d, stage) ==
  /\ daemon' \in [Daemons -> [at : Stages, build : Builds, exit : Statuses]]
  /\ daemon'[d].at = stage
  /\ \A e \in Daemons \ {d} : daemon'[e] = daemon[e]

(* A daemon goes on, *)
LEMMA DaemonGoes ==
  ASSUME StartupTypeOK, NEW d \in Daemons, NEW stage \in Stages, Goes(d, stage)
  PROVE  Is(d, stage)
  BY DEF StartupTypeOK, Stages, Statuses, Goes, Is

(* gives up, *)
LEMMA DaemonFails ==
  ASSUME StartupTypeOK, NEW d \in Daemons, NEW status \in Statuses, Fails(d, status)
  PROVE  Is(d, "ends")
<1> DEFINE end == IF d = "service" THEN status ELSE daemon[d].exit
<1>1. daemon[d] \in [at : Stages, build : Builds, exit : Statuses]
  BY DEF StartupTypeOK, Stages, Statuses
<1>2. end \in Statuses /\ "ends" \in Stages
  BY <1>1 DEF Stages, Ending
<1>3. daemon' = [daemon EXCEPT ![d] = [@ EXCEPT !.at = "ends", !.exit = end]]
  BY DEF Fails, StartupTypeOK
<1>4. QED
  BY <1>1, <1>2, <1>3 DEF StartupTypeOK, Stages, Statuses, Is

(* exits, *)
LEMMA DaemonExits ==
  ASSUME StartupTypeOK, NEW d \in Daemons, NEW status, Exits(d, status)
  PROVE  /\ Is(d, "off")
         /\ unit' \in {"inactive", "active", "waiting", "replacing"}
         /\ d # "service" => unit' = unit
<1>1. Off \in [at : Stages, build : Builds, exit : Statuses] /\ Off.at = "off"
  BY BuildsHaveVersions DEF Off, Stages, Statuses
<1>2. QED
  BY <1>1 DEF StartupTypeOK, Stages, Statuses, Exits, Supervised, Is

(* and is launched. *)
LEMMA DaemonLaunches ==
  ASSUME StartupTypeOK, NEW d \in Daemons, daemon' = [daemon EXCEPT ![d] = Launched]
  PROVE  Is(d, "locks")
<1>1. Launched \in [at : Stages, build : Builds, exit : Statuses] /\ Launched.at = "locks"
  BY DEF StartupTypeOK, Launched, Stages, Starting, Statuses
<1>2. QED
  BY <1>1 DEF StartupTypeOK, Stages, Statuses, Is

(* The client's part of StartupTypeOK. *)
ClientTypeOK ==
  client \in [at : {"connects", "starts", "restarts", "reads"} \cup Rests, build : Builds,
              to : Daemons \cup {Nobody}, again : BOOLEAN, disturbed : BOOLEAN]

(* What happens beside a client, and what fails. *)
LEMMA Beside ==
  ASSUME StartupTypeOK, Fine \/ \E kind : May(kind)
  PROVE  ClientTypeOK' /\ faults' \in 0..MaxFaults
<1>1. CASE Fine
  BY <1>1 DEF Fine, StartupTypeOK, ClientTypeOK
<1>2. ASSUME NEW kind, May(kind) PROVE ClientTypeOK' /\ faults' \in 0..MaxFaults
  <2>1. faults' \in 0..MaxFaults
    BY <1>2, BoundsAssumption DEF May, StartupTypeOK
  <2>2. (client.disturbed \/ client.at \notin Rests) \in BOOLEAN
    OBVIOUS
  <2>3. ClientTypeOK'
    BY <1>2, <2>2 DEF May, Disturbs, StartupTypeOK, ClientTypeOK
  <2>4. QED
    BY <2>1, <2>3
<1>3. QED
  BY <1>1, <1>2

(* The same where only the client is disturbed. *)
LEMMA Disturbed ==
  ASSUME StartupTypeOK, Disturbs
  PROVE  ClientTypeOK'
<1>1. (client.disturbed \/ client.at \notin Rests) \in BOOLEAN
  OBVIOUS
<1>2. QED
  BY <1>1 DEF Disturbs, StartupTypeOK, ClientTypeOK

(* A connection that is reset. *)
LEMMA Hangs ==
  ASSUME StartupTypeOK, NEW d \in Daemons, client' \in HungUp(d)
  PROVE  ClientTypeOK'
<1>1. client' \in {client, [client EXCEPT !.at = "reset", !.to = Nobody],
                   [client EXCEPT !.at = IF client.again THEN "connects" ELSE "reset", !.to = Nobody]}
  BY DEF HungUp
<1>2. QED
  BY <1>1, ZenonT(40) DEF StartupTypeOK, ClientTypeOK, Rests

(* Who holds the lock keeps the path from everybody else. *)
LEMMA WorkMoves ==
  ASSUME OneAtWork, NEW d \in Daemons, NEW stage, Is(d, stage),
         stage \in LockedStages <=> lock' = d,
         \A e \in Daemons \ {d} : lock' = e <=> lock = e,
         stage \in BoundStages => path' = d,
         path' = path \/ lock = d \/ (path' = Stale /\ path = d)
  PROVE  OneAtWork'
<1>1. BoundStages \subseteq LockedStages
  BY DEF BoundStages, LockedStages
<1>2. ASSUME NEW e \in Daemons \ {d}
      PROVE  /\ daemon'[e].at \in LockedStages <=> lock' = e
             /\ daemon'[e].at \in BoundStages => path' = e
  BY <1>1, <1>2 DEF OneAtWork, Is
<1>3. QED
  BY <1>2 DEF OneAtWork, Is

(* systemd takes the service for stopped only once it is off. *)
LEMMA UnitFollows ==
  ASSUME UnitIsStopped, NEW d \in Daemons, NEW stage, Is(d, stage),
         d # "service" => unit' = unit,
         d = "service" /\ stage # "off" => unit' \notin {"inactive", "waiting"} \/ (unit' = unit /\ ~At(d, "off"))
  PROVE  UnitIsStopped'
  BY DEF UnitIsStopped, Is, At, Daemons

(* What is not about the stages of an upgrade leaves it as it is. *)
LEMMA UpgradeStays ==
  ASSUME UpgradeProceeds, NEW d \in Daemons, NEW stage, Is(d, stage), UNCHANGED <<database, words>>,
         stage \notin {"copies", "reconciles", "retires", "drops", "serves"}
  PROVE  UpgradeProceeds'
  BY DEF UpgradeProceeds, Is, At

(* The type of what a step of a daemon writes. *)
LEMMA TypesStay ==
  ASSUME StartupTypeOK, NEW d \in Daemons, NEW stage, Is(d, stage), ClientTypeOK', faults' \in 0..MaxFaults,
         UNCHANGED <<installed, installs>>,
         lock' \in {lock, d, Nobody}, path' \in {path, d, Nobody, Stale},
         UNCHANGED database, UNCHANGED words, backup' \in {backup, NoCopy, HalfACopy},
         unit' \in {"inactive", "active", "waiting", "replacing"}
  PROVE  StartupTypeOK'
<1>1. backup' \in Nat \cup {NoCopy, HalfACopy}
  BY DEF StartupTypeOK, NoDatabase
<1>2. QED
  BY <1>1 DEF StartupTypeOK, ClientTypeOK, Is, Stages, Statuses

--------------------------------------------------------------------------------
(* Taking the lock and the path *)

(* The steps of IpcServer::bind and drop keep the invariant. *)
LEMMA SocketStep ==
  ASSUME StartupInv, NEW d \in Daemons,
         TakeLock(d) \/ Probe(d) \/ RemoveStale(d) \/ Bind(d) \/ OwnsPath(d) \/ Unlink(d)
           \/ Close(d) \/ Bury(d)
  PROVE  StartupInv'
<1>typed. StartupTypeOK /\ OneAtWork /\ UnitIsStopped /\ UpgradeProceeds
  BY DEF StartupInv
<1>1. /\ UNCHANGED <<installed, installs, storage>>
      /\ ClientTypeOK' /\ faults' \in 0..MaxFaults
  BY <1>typed, Beside, Hangs
     DEF TakeLock, Probe, RemoveStale, Bind, OwnsPath, Unlink, Close, Bury, StartupTypeOK, Fine
<1>goes. ASSUME NEW stage \in Stages \ {"off", "copies", "reconciles", "retires", "drops", "serves"},
                Goes(d, stage), UNCHANGED unit, ~At(d, "off"),
                stage \in LockedStages <=> lock' = d,
                \A e \in Daemons \ {d} : lock' = e <=> lock = e, lock' \in {lock, d, Nobody},
                path' \in {path, d, Nobody, Stale},
                stage \in BoundStages => path' = d, path' = path \/ lock = d
         PROVE  StartupInv'
  <2>1. Is(d, stage)
    BY <1>goes, <1>typed, DaemonGoes
  <2>2. OneAtWork' /\ UnitIsStopped' /\ UpgradeProceeds'
    BY <1>goes, <1>typed, <1>1, <2>1, WorkMoves, UnitFollows, UpgradeStays DEF storage
  <2>3. unit' \in {"inactive", "active", "waiting", "replacing"}
    BY <1>goes, <1>typed DEF StartupTypeOK
  <2>4. StartupTypeOK'
    BY <1>goes, <1>typed, <1>1, <2>1, <2>3, TypesStay DEF storage
  <2>5. QED
    BY <2>2, <2>4 DEF StartupInv
<1>exits. ASSUME NEW status, Exits(d, status), lock' # d,
                \A e \in Daemons \ {d} : lock' = e <=> lock = e, lock' \in {lock, d, Nobody},
                path' \in {path, d, Nobody, Stale}, path' = path \/ lock = d \/ (path' = Stale /\ path = d)
         PROVE  StartupInv'
  <2>1. /\ Is(d, "off") /\ (d # "service" => unit' = unit)
        /\ unit' \in {"inactive", "active", "waiting", "replacing"}
    BY <1>exits, <1>typed, DaemonExits
  <2>2. "off" \notin LockedStages /\ "off" \notin BoundStages
    BY DEF LockedStages, BoundStages
  <2>3. OneAtWork' /\ UnitIsStopped' /\ UpgradeProceeds'
    BY <1>exits, <1>typed, <1>1, <2>1, <2>2, WorkMoves, UnitFollows, UpgradeStays DEF storage
  <2>4. StartupTypeOK'
    BY <1>exits, <1>typed, <1>1, <2>1, TypesStay DEF storage
  <2>5. QED
    BY <2>3, <2>4 DEF StartupInv
<1> USE DEF LockedStages, BoundStages, Stages, Starting, Ending, OneAtWork, At, Daemons, Nobody, Stale, socket
<1>2. CASE TakeLock(d)
  BY <1>2, <1>typed, <1>goes, <1>exits DEF TakeLock
<1>3. CASE Probe(d)
  BY <1>3, <1>typed, <1>goes, <1>exits DEF Probe
<1>4. CASE RemoveStale(d)
  BY <1>4, <1>typed, <1>goes DEF RemoveStale
<1>5. CASE Bind(d)
  BY <1>5, <1>typed, <1>goes, <1>exits DEF Bind
<1>6. CASE OwnsPath(d) \/ Unlink(d)
  BY <1>6, <1>typed, <1>goes DEF OwnsPath, Unlink
<1>7. CASE Close(d)
  BY <1>7, <1>typed, <1>exits DEF Close
<1>8. CASE Bury(d)
  BY <1>8, <1>typed, <1>exits DEF Bury
<1>9. QED
  BY <1>2, <1>3, <1>4, <1>5, <1>6, <1>7, <1>8

--------------------------------------------------------------------------------
(* The database *)

(* What the migrations make of a job. *)
LEMMA JobsAreRenamed ==
  ASSUME StartupInv
  PROVE  /\ Merged(database.job) \in [stage : {"none", "delivering", "cleaning", "canceled", "failed",
                                               "transcribing", "interrupted"},
                                      delivery : {"not_attempted", "attempting", "ambiguous"}]
         /\ database.version <= 0 => Renamed(Merged(database.job))
<1>1. database.job \in [stage : {"none", "delivering", "cleaning", "canceled", "failed",
                                 "transcribing", "interrupted"},
                        delivery : {"not_attempted", "attempting", "ambiguous"}]
  BY DEF StartupInv, StartupTypeOK
<1>2. QED
  BY <1>1 DEF Merged, Renamed, StartupInv, UpgradeProceeds, StartupTypeOK, NoDatabase

(* What a start makes of one. *)
LEMMA JobsSettle ==
  ASSUME StartupInv, Renamed(database.job)
  PROVE  /\ Reconciled(database.job) \in
              [stage : {"none", "delivering", "cleaning", "canceled", "failed",
                        "transcribing", "interrupted"},
               delivery : {"not_attempted", "attempting", "ambiguous"}]
         /\ Settled(Reconciled(database.job)) /\ Renamed(Reconciled(database.job))
<1>1. database.job \in [stage : {"none", "delivering", "cleaning", "canceled", "failed",
                                 "transcribing", "interrupted"},
                        delivery : {"not_attempted", "attempting", "ambiguous"}]
  BY DEF StartupInv, StartupTypeOK
<1>2. QED
  BY <1>1 DEF Reconciled, Renamed, Settled

(* The steps of AgentProcess::open keep the invariant. *)
LEMMA DatabaseStep ==
  ASSUME StartupInv, NEW d \in Daemons,
         OpenDatabase(d) \/ BackUp(d) \/ MigrateStep(d) \/ Reconcile(d) \/ SaveRules(d) \/ DropRules(d)
  PROVE  StartupInv'
<1>typed. StartupTypeOK /\ OneAtWork /\ UnitIsStopped /\ UpgradeProceeds
  BY DEF StartupInv
<1>1. UNCHANGED <<installed, installs, lock, path, unit>>
  BY DEF OpenDatabase, BackUp, MigrateStep, Reconcile, SaveRules, DropRules, socket
<1>2. ClientTypeOK' /\ faults' \in 0..MaxFaults
  BY <1>typed, Beside, Disturbed
     DEF OpenDatabase, BackUp, MigrateStep, Reconcile, SaveRules, DropRules, StartupTypeOK
<1>3. /\ daemon[d].at \in BoundStages /\ lock = d /\ path = d
      /\ daemon[d].at \in {"opens", "copies", "migrates", "reconciles", "retires", "drops"}
  BY <1>typed DEF OpenDatabase, BackUp, MigrateStep, Reconcile, SaveRules, DropRules, At, OneAtWork,
     BoundStages, LockedStages
<1>4. \A e \in Daemons \ {d} : daemon[e].at \notin LockedStages
  BY <1>3, <1>typed DEF OneAtWork
<1>goes. ASSUME NEW stage \in BoundStages \cup {"ends"}, Is(d, stage)
         PROVE  OneAtWork' /\ UnitIsStopped'
  <2>1. stage \in LockedStages /\ BoundStages \subseteq LockedStages
    BY <1>goes DEF BoundStages, LockedStages
  <2>2. "off" \notin BoundStages
    BY DEF BoundStages
  <2>3. QED
    BY <1>goes, <1>typed, <1>1, <1>3, <2>1, <2>2, WorkMoves, UnitFollows DEF At
<1>proceeds. ASSUME NEW stage \in BoundStages \cup {"ends"}, Is(d, stage), StartupTypeOK',
                    database'.version # 0 => Renamed(database'.job),
                    database'.version <= 0 => database'.job.stage # "failed",
                    stage = "copies" => database'.version >= 0,
                    stage = "reconciles" => database'.version > 0,
                    stage \in {"retires", "drops", "serves"} => Settled(database'.job),
                    stage = "drops" => words' # "without",
                    words' = "without" => database'.rules
             PROVE  StartupInv'
  <2>1. \A e \in Daemons \ {d} : daemon'[e].at \notin LockedStages
    BY <1>proceeds, <1>4 DEF Is
  <2>2. UpgradeProceeds'
    BY <1>proceeds, <2>1 DEF UpgradeProceeds, At, Is, LockedStages
  <2>3. QED
    BY <1>proceeds, <1>goes, <2>2 DEF StartupInv
<1>to. ASSUME NEW stage \in BoundStages \cup {"ends"},
              Goes(d, stage) \/ (stage = "ends" /\ \E status \in Statuses : Fails(d, status))
       PROVE  Is(d, stage)
  <2>1. stage \in Stages
    BY DEF BoundStages, Stages, Starting, Ending
  <2>2. QED
    BY <1>to, <1>typed, <2>1, DaemonGoes, DaemonFails
<1>ends. ASSUME \E status \in Statuses : Fails(d, status), UNCHANGED <<database, words>>,
                backup' \in {backup, NoCopy, HalfACopy}
         PROVE  StartupInv'
  <2>1. Is(d, "ends")
    BY <1>ends, <1>to
  <2>2. OneAtWork' /\ UnitIsStopped'
    BY <1>goes, <2>1
  <2>3. UpgradeProceeds'
    BY <1>ends, <1>typed, <2>1, UpgradeStays
  <2>4. unit' \in {"inactive", "active", "waiting", "replacing"}
    BY <1>typed, <1>1 DEF StartupTypeOK
  <2>5. StartupTypeOK'
    BY <1>ends, <1>typed, <1>1, <1>2, <2>1, <2>4, TypesStay
  <2>6. QED
    BY <2>2, <2>3, <2>5 DEF StartupInv
<1>types. ASSUME NEW stage, Is(d, stage),
                 database' \in [version : Nat \cup {NoDatabase}, rules : BOOLEAN,
                   job : [stage : {"none", "delivering", "cleaning", "canceled", "failed",
                                   "transcribing", "interrupted"},
                          delivery : {"not_attempted", "attempting", "ambiguous"}]],
                 backup' \in Nat \cup {NoCopy, HalfACopy},
                 words' \in {"never", "without", "with", "removed"}
          PROVE  StartupTypeOK'
  BY <1>types, <1>typed, <1>1, <1>2 DEF StartupTypeOK, ClientTypeOK, Is, Stages, Statuses
<1>version. Opened(d) \in Nat /\ Opened(d) > 0 /\ database.version \in Nat \cup {NoDatabase}
  BY <1>typed, BuildsHaveVersions DEF Opened, StartupTypeOK
<1>5. CASE OpenDatabase(d)
  <2>1. CASE /\ database.version = Opened(d) /\ backup' = NoCopy /\ Goes(d, "reconciles")
             /\ UNCHANGED <<database, words>>
    <3>1. Is(d, "reconciles")
      BY <2>1, <1>to DEF BoundStages
    <3>2. StartupTypeOK'
      BY <2>1, <3>1, <1>typed, <1>types DEF StartupTypeOK
    <3>3. QED
      BY <2>1, <3>1, <3>2, <1>typed, <1>version, <1>proceeds DEF UpgradeProceeds, BoundStages
  <2>2. CASE /\ database.version \in 0..(Opened(d) - 1) /\ backup' = NoCopy /\ Goes(d, "copies")
             /\ UNCHANGED <<database, words>>
    <3>1. Is(d, "copies")
      BY <2>2, <1>to DEF BoundStages
    <3>2. StartupTypeOK'
      BY <2>2, <3>1, <1>typed, <1>types DEF StartupTypeOK
    <3>3. QED
      BY <2>2, <3>1, <3>2, <1>typed, <1>version, <1>proceeds DEF UpgradeProceeds, BoundStages
  <2>3. CASE Goes(d, "migrates") /\ UNCHANGED storage
    <3>1. Is(d, "migrates")
      BY <2>3, <1>to DEF BoundStages
    <3>2. StartupTypeOK'
      BY <2>3, <3>1, <1>typed, <1>types DEF StartupTypeOK, storage
    <3>3. QED
      BY <2>3, <3>1, <3>2, <1>typed, <1>proceeds DEF UpgradeProceeds, BoundStages, storage
  <2>4. CASE (\E status \in Statuses : Fails(d, status)) /\ UNCHANGED storage
    BY <2>4, <1>ends DEF storage
  <2>5. QED
    BY <1>5, <2>1, <2>2, <2>3, <2>4 DEF OpenDatabase, Statuses
<1>6. CASE BackUp(d)
  <2>1. CASE backup' = database.version /\ Goes(d, "migrates")
    <3>1. Is(d, "migrates")
      BY <2>1, <1>to DEF BoundStages
    <3>2. database.version \in Nat
      BY <1>6, <1>typed, <1>version DEF BackUp, UpgradeProceeds, NoDatabase
    <3>3. StartupTypeOK'
      BY <2>1, <3>1, <3>2, <1>6, <1>typed, <1>types DEF StartupTypeOK, BackUp
    <3>4. QED
      BY <2>1, <3>1, <3>3, <1>6, <1>typed, <1>proceeds DEF UpgradeProceeds, BoundStages, BackUp
  <2>2. CASE May("copy") /\ backup' \in {NoCopy, HalfACopy} /\ Fails(d, "failed")
    BY <1>6, <2>2, <1>ends DEF BackUp, Statuses
  <2>3. QED
    BY <1>6, <2>1, <2>2 DEF BackUp
<1>7. CASE MigrateStep(d)
  <2> DEFINE step == (IF database.version = NoDatabase THEN 0 ELSE database.version) + 1
             job == IF step = 1 THEN Merged(database.job) ELSE database.job
  <2>1. CASE /\ database' = [database EXCEPT !.version = step, !.job = IF step = 1 THEN Merged(@) ELSE @]
             /\ Goes(d, IF step = Opened(d) THEN "reconciles" ELSE "migrates")
    <3>1. step \in Nat /\ step > 0 /\ (step = 1 <=> database.version <= 0)
      BY <1>version DEF NoDatabase
    <3>2. database.rules \in BOOLEAN
          /\ database.job \in [stage : {"none", "delivering", "cleaning", "canceled", "failed",
                                        "transcribing", "interrupted"},
                               delivery : {"not_attempted", "attempting", "ambiguous"}]
      BY <1>typed DEF StartupTypeOK
    <3>3. /\ job \in [stage : {"none", "delivering", "cleaning", "canceled", "failed",
                               "transcribing", "interrupted"},
                      delivery : {"not_attempted", "attempting", "ambiguous"}]
          /\ Renamed(job)
      BY <3>1, <3>2, <1>typed, <1>version, JobsAreRenamed DEF UpgradeProceeds
    <3>4. database' = [version |-> step, rules |-> database.rules, job |-> job]
      BY <2>1, <1>typed DEF StartupTypeOK
    <3>5. PICK stage \in {"reconciles", "migrates"} : Is(d, stage)
      BY <2>1, <1>to DEF BoundStages
    <3>6. StartupTypeOK'
      <4> HIDE DEF step, job
      <4>1. database' \in [version : Nat \cup {NoDatabase}, rules : BOOLEAN,
                   job : [stage : {"none", "delivering", "cleaning", "canceled", "failed",
                                   "transcribing", "interrupted"},
                          delivery : {"not_attempted", "attempting", "ambiguous"}]]
        BY <3>1, <3>2, <3>3, <3>4
      <4>2. QED
        BY <4>1, <3>5, <1>7, <1>typed, <1>types DEF MigrateStep, StartupTypeOK
    <3>7. database'.version = step /\ database'.job = job /\ database'.rules = database.rules /\ UNCHANGED words
      BY <3>4, <1>7 DEF MigrateStep
    <3>8. QED
      <4> HIDE DEF step, job
      <4>1. stage \in BoundStages \cup {"ends"} /\ (words = "without" => database.rules)
        BY <1>typed DEF BoundStages, UpgradeProceeds
      <4>2. step > 0 /\ step # 0 /\ ~(step <= 0)
        BY <3>1
      <4>3. stage \notin {"copies", "retires", "drops", "serves"}
        BY <3>5
      <4>4. QED
        BY <3>3, <3>5, <3>6, <3>7, <4>1, <4>2, <4>3, <1>proceeds
  <2>2. CASE May("migrate") /\ Fails(d, "failed") /\ UNCHANGED database
    BY <1>7, <2>2, <1>ends DEF MigrateStep, Statuses
  <2>3. QED
    BY <1>7, <2>1, <2>2 DEF MigrateStep
<1>8. CASE Reconcile(d)
  <2>1. CASE /\ database' = [database EXCEPT !.job = Reconciled(@)]
             /\ Goes(d, IF database.rules THEN "retires" ELSE "serves")
    <3>1. Renamed(database.job) /\ database.version > 0
      BY <1>8, <1>typed, <1>version DEF Reconcile, UpgradeProceeds
    <3>2. database.rules \in BOOLEAN /\ database.version \in Nat \cup {NoDatabase}
      BY <1>typed DEF StartupTypeOK
    <3>3. database' = [version |-> database.version, rules |-> database.rules, job |-> Reconciled(database.job)]
      BY <2>1, <1>typed DEF StartupTypeOK
    <3>4. PICK stage \in {"retires", "serves"} : Is(d, stage)
      BY <2>1, <1>to DEF BoundStages
    <3>5. StartupTypeOK'
      <4>1. database' \in [version : Nat \cup {NoDatabase}, rules : BOOLEAN,
                   job : [stage : {"none", "delivering", "cleaning", "canceled", "failed",
                                   "transcribing", "interrupted"},
                          delivery : {"not_attempted", "attempting", "ambiguous"}]]
        BY <3>1, <3>2, <3>3, JobsSettle
      <4>2. QED
        BY <4>1, <3>4, <1>8, <1>typed, <1>types DEF Reconcile, StartupTypeOK
    <3>6. /\ database'.version = database.version /\ database'.rules = database.rules /\ UNCHANGED words
          /\ Settled(database'.job) /\ Renamed(database'.job)
      BY <3>1, <3>3, <1>8, JobsSettle DEF Reconcile
    <3>7. stage \in BoundStages \cup {"ends"} /\ (words = "without" => database.rules)
      BY <1>typed DEF BoundStages, UpgradeProceeds
    <3>8. ~(database'.version <= 0) /\ (database'.version # 0) /\ stage \notin {"copies", "reconciles", "drops"}
      BY <3>1, <3>4, <3>6, <1>version DEF NoDatabase
    <3>9. words' = "without" => database'.rules
      BY <3>6, <3>7
    <3>10. QED
      BY <3>4, <3>5, <3>6, <3>7, <3>8, <3>9, <1>proceeds
  <2>2. CASE May("open") /\ Fails(d, "failed") /\ UNCHANGED database
    BY <1>8, <2>2, <1>ends DEF Reconcile, Statuses
  <2>3. QED
    BY <1>8, <2>1, <2>2 DEF Reconcile
<1>9. CASE SaveRules(d)
  <2>1. PICK stage \in {"drops", "serves"} : /\ Is(d, stage)
                                             /\ words' \in {words, "with"}
                                             /\ stage = "drops" => words' = "with"
    BY <1>9, <1>to DEF SaveRules, BoundStages
  <2>2. UNCHANGED <<database, backup>> /\ Settled(database.job)
    BY <1>9, <1>typed DEF SaveRules, UpgradeProceeds, At
  <2>3. StartupTypeOK'
    BY <2>1, <2>2, <1>typed, <1>types DEF StartupTypeOK
  <2>4. QED
    BY <2>1, <2>2, <2>3, <1>typed, <1>proceeds DEF UpgradeProceeds, BoundStages
<1>10. CASE DropRules(d)
  <2>1. Is(d, "serves") /\ UNCHANGED <<words, backup>>
    BY <1>10, <1>to DEF DropRules, BoundStages
  <2>2. words # "without" /\ Settled(database.job)
    BY <1>10, <1>typed DEF DropRules, UpgradeProceeds, At
  <2>3. database' = database \/ database' = [database EXCEPT !.rules = FALSE]
    BY <1>10 DEF DropRules
  <2>4. /\ database' \in [version : Nat \cup {NoDatabase}, rules : BOOLEAN,
                   job : [stage : {"none", "delivering", "cleaning", "canceled", "failed",
                                   "transcribing", "interrupted"},
                          delivery : {"not_attempted", "attempting", "ambiguous"}]]
        /\ database'.version = database.version /\ database'.job = database.job
    BY <2>3, <1>typed DEF StartupTypeOK
  <2>5. StartupTypeOK'
    BY <2>1, <2>4, <1>typed, <1>types DEF StartupTypeOK
  <2>6. QED
    BY <2>1, <2>2, <2>4, <2>5, <1>typed, <1>proceeds DEF UpgradeProceeds, BoundStages
<1>11. QED
  BY <1>5, <1>6, <1>7, <1>8, <1>9, <1>10

--------------------------------------------------------------------------------
(* A daemon at work, its end, systemd, and clients *)

(* What changes neither a daemon nor the socket nor the database. *)
LEMMA OnlyClient ==
  ASSUME StartupInv, UNCHANGED <<daemon, lock, path, database, words, unit>>, ClientTypeOK',
         faults' \in 0..MaxFaults, installed' \in Builds, installs' \in 0..MaxInstalls,
         backup' \in {backup, NoCopy}
  PROVE  StartupInv'
<1>1. StartupTypeOK'
  BY DEF StartupInv, StartupTypeOK, ClientTypeOK
<1>2. OneAtWork' /\ UnitIsStopped' /\ UpgradeProceeds'
  BY DEF StartupInv, OneAtWork, UnitIsStopped, UpgradeProceeds, At
<1>3. QED
  BY <1>1, <1>2 DEF StartupInv

(* A daemon works, quits or dies. *)
LEMMA WorkStep ==
  ASSUME StartupInv, NEW d \in Daemons, Work(d) \/ Quit(d) \/ Die(d)
  PROVE  StartupInv'
<1>typed. StartupTypeOK /\ OneAtWork /\ UnitIsStopped /\ UpgradeProceeds
  BY DEF StartupInv
<1>1. /\ UNCHANGED <<installed, installs, path, database, unit>>
      /\ ClientTypeOK' /\ faults' \in 0..MaxFaults
  BY <1>typed, Beside, Disturbed DEF Work, Quit, Die, socket, storage, StartupTypeOK
<1>2. CASE Work(d)
  <2>1. UNCHANGED <<installed, installs, daemon, lock, path, database, unit>> /\ At(d, "serves")
    BY <1>2 DEF Work, socket
  <2>2. \/ words = "with" /\ words' = "removed" /\ backup' = backup
        \/ backup' = NoCopy /\ words' = words
    BY <1>2 DEF Work
  <2>3. StartupTypeOK'
    BY <1>1, <2>1, <2>2, <1>typed DEF StartupTypeOK, ClientTypeOK
  <2>4. OneAtWork' /\ UnitIsStopped' /\ UpgradeProceeds'
    BY <2>1, <2>2, <1>typed DEF OneAtWork, UnitIsStopped, UpgradeProceeds, At
  <2>5. QED
    BY <2>3, <2>4 DEF StartupInv
<1>3. ASSUME NEW stage \in {"ends", "dying"}, Goes(d, stage), ~At(d, "off"), UNCHANGED words,
             stage \in LockedStages <=> lock' = d,
             \A e \in Daemons \ {d} : lock' = e <=> lock = e, lock' \in {lock, Nobody},
             backup' \in {backup, NoCopy, HalfACopy}
      PROVE  StartupInv'
  <2>1. Is(d, stage)
    BY <1>3, <1>typed, DaemonGoes DEF Stages, Ending
  <2>2. stage \notin BoundStages
    BY DEF BoundStages
  <2>3. OneAtWork' /\ UnitIsStopped' /\ UpgradeProceeds'
    BY <1>3, <1>1, <1>typed, <2>1, <2>2, WorkMoves, UnitFollows, UpgradeStays
  <2>4. unit' \in {"inactive", "active", "waiting", "replacing"}
    BY <1>1, <1>typed DEF StartupTypeOK
  <2>5. StartupTypeOK'
    BY <1>3, <1>1, <2>1, <2>4, <1>typed, TypesStay
  <2>6. QED
    BY <2>3, <2>5 DEF StartupInv
<1>4. CASE Quit(d)
  BY <1>4, <1>3, <1>typed DEF Quit, OneAtWork, LockedStages, At, storage, socket
<1>5. CASE Die(d)
  <2>1. lock' = (IF lock = d THEN Nobody ELSE lock) /\ Goes(d, "dying") /\ ~At(d, "off")
    BY <1>5 DEF Die, At, Starting
  <2>2. lock' # d /\ \A e \in Daemons \ {d} : lock' = e <=> lock = e
    BY <2>1 DEF Nobody, Daemons
  <2>3. "dying" \notin LockedStages /\ UNCHANGED words /\ backup' \in {backup, NoCopy, HalfACopy}
    BY <1>5 DEF LockedStages, Die
  <2>4. QED
    BY <2>1, <2>2, <2>3, <1>3
<1>6. QED
  BY <1>2, <1>4, <1>5

(* A daemon is launched that was off. *)
LEMMA LaunchStep ==
  ASSUME StartupInv, NEW d \in Daemons, At(d, "off"), daemon' = [daemon EXCEPT ![d] = Launched],
         d = "service" => unit' = "active", d # "service" => unit' = unit,
         UNCHANGED <<installed, installs, lock, path, storage>>,
         ClientTypeOK', faults' \in 0..MaxFaults
  PROVE  StartupInv'
<1>typed. StartupTypeOK /\ OneAtWork /\ UnitIsStopped /\ UpgradeProceeds
  BY DEF StartupInv
<1>1. Is(d, "locks")
  BY <1>typed, DaemonLaunches
<1>2. "locks" \notin LockedStages /\ "locks" \notin BoundStages /\ lock # d
  BY <1>typed DEF LockedStages, BoundStages, OneAtWork, At
<1>3. OneAtWork' /\ UnitIsStopped' /\ UpgradeProceeds'
  BY <1>1, <1>2, <1>typed, WorkMoves, UnitFollows, UpgradeStays DEF storage
<1>4. unit' \in {"inactive", "active", "waiting", "replacing"}
  BY <1>typed DEF StartupTypeOK
<1>5. StartupTypeOK'
  BY <1>1, <1>4, <1>typed, TypesStay DEF storage
<1>6. QED
  BY <1>3, <1>5 DEF StartupInv

(* systemd and the user launch daemons, and builds are installed. *)
LEMMA WorldStep ==
  ASSUME StartupInv, Relaunch \/ StartByHand \/ Open \/ \E b \in Builds : Install(b)
  PROVE  StartupInv'
<1>typed. StartupTypeOK
  BY DEF StartupInv
<1>1. CASE Relaunch
  BY <1>1, <1>typed, Beside, LaunchStep DEF Relaunch, LaunchService, Daemons, socket
<1>2. CASE StartByHand
  BY <1>2, <1>typed, Beside, LaunchStep DEF StartByHand, Daemons, socket
<1>3. CASE Open
  <2>1. Hopeless \in BOOLEAN
    BY DEF Hopeless
  <2>2. ClientTypeOK'
    BY <1>3, <1>typed, <2>1 DEF Open, ClientTypeOK, Closed, StartupTypeOK, Rests
  <2>3. QED
    BY <1>3, <1>typed, <2>2, OnlyClient DEF Open, StartupTypeOK, socket, storage
<1>4. ASSUME NEW b \in Builds, Install(b) PROVE StartupInv'
  <2>1. installs' \in 0..MaxInstalls
    BY <1>4, <1>typed, BoundsAssumption DEF Install, StartupTypeOK
  <2>2. QED
    BY <1>4, <1>typed, <2>1, Disturbed, OnlyClient DEF Install, StartupTypeOK, socket, storage
<1>5. QED
  BY <1>1, <1>2, <1>3, <1>4

(* A client connects, starts or restarts the service, and waits. *)
LEMMA ClientStep ==
  ASSUME StartupInv, ClientSteps \/ Deadline
  PROVE  StartupInv'
<1>typed. StartupTypeOK /\ OneAtWork /\ UnitIsStopped /\ UpgradeProceeds
  BY DEF StartupInv
<1>1. UNCHANGED <<installed, installs, path, storage>> /\ faults' \in 0..MaxFaults
  BY <1>typed, BoundsAssumption
     DEF ClientSteps, Deadline, ConnectAbsent, Connect, ReadGreeting, StartService, RestartService,
         SystemctlFails, Client, socket, StartupTypeOK
<1>awaits. Awaits => ClientTypeOK'
  BY <1>typed DEF Awaits, StartupTypeOK, ClientTypeOK
<1>2. CASE ConnectAbsent \/ Connect \/ ReadGreeting \/ SystemctlFails \/ Deadline
  <2>1. UNCHANGED <<daemon, lock, unit>>
    BY <1>2 DEF Deadline, ConnectAbsent, Connect, ReadGreeting, SystemctlFails, Client, socket
  <2>2. Closed \in [at : {"closed"}, build : Builds, to : Daemons \cup {Nobody}, again : BOOLEAN,
                    disturbed : BOOLEAN]
    BY BuildsHaveVersions DEF Closed
  <2>3. ClientTypeOK'
    <3>1. CASE ConnectAbsent \/ Connect
      BY <1>typed, <3>1 DEF ConnectAbsent, Connect, ClientGoes, StartupTypeOK, ClientTypeOK
    <3>2. \A place \in Rests, seen \in BOOLEAN :
            [Closed EXCEPT !.at = place, !.disturbed = seen] \in
              [at : {"connects", "starts", "restarts", "reads"} \cup Rests, build : Builds,
               to : Daemons \cup {Nobody}, again : BOOLEAN, disturbed : BOOLEAN]
      BY <2>2
    <3>3. [Closed EXCEPT !.at = "open"] \in
              [at : {"connects", "starts", "restarts", "reads"} \cup Rests, build : Builds,
               to : Daemons \cup {Nobody}, again : BOOLEAN, disturbed : BOOLEAN]
      BY <2>2 DEF Rests
    <3>4. CASE ReadGreeting
      BY <1>typed, <3>3, <3>4 DEF ReadGreeting, StartupTypeOK, ClientTypeOK
    <3>5. CASE SystemctlFails
      BY <3>2, <3>5 DEF SystemctlFails, ClientTypeOK, Rests
    <3>6. CASE Deadline
      BY <1>typed, <3>2, <3>6 DEF Deadline, StartupTypeOK, ClientTypeOK, Rests
    <3>7. QED
      BY <1>2, <3>1, <3>4, <3>5, <3>6
  <2>4. QED
    BY <1>1, <1>typed, <2>1, <2>3, OnlyClient DEF storage, StartupTypeOK
<1>3. CASE StartService
  <2>1. CASE unit \in {"inactive", "waiting"} /\ LaunchService
    BY <1>1, <1>3, <2>1, <1>awaits, <1>typed, LaunchStep
       DEF StartService, LaunchService, UnitIsStopped, Client, socket, Daemons
  <2>2. CASE unit \in {"active", "replacing"} /\ UNCHANGED <<daemon, unit>>
    BY <1>1, <1>3, <2>2, <1>awaits, <1>typed, OnlyClient DEF StartService, Client, storage, socket, StartupTypeOK
  <2>3. QED
    BY <1>3, <2>1, <2>2 DEF StartService
<1>4. CASE RestartService
  <2>1. CASE unit \in {"inactive", "waiting"} /\ LaunchService /\ UNCHANGED lock
    BY <1>1, <1>4, <2>1, <1>awaits, <1>typed, LaunchStep
       DEF RestartService, LaunchService, UnitIsStopped, Daemons
  <2>2. CASE UNCHANGED <<daemon, lock, unit>>
    BY <1>1, <1>4, <2>2, <1>awaits, <1>typed, OnlyClient DEF RestartService, storage, StartupTypeOK
  <2>3. ASSUME NEW stage \in {"ends", "dying"}, Goes("service", stage),
               unit' = "replacing", UNCHANGED <<backup, words, database>>,
               stage \in LockedStages <=> lock' = "service",
               \A e \in Daemons \ {"service"} : lock' = e <=> lock = e, lock' \in {lock, Nobody}
        PROVE  StartupInv'
    <3>1. Is("service", stage) /\ stage \notin BoundStages
      BY <2>3, <1>typed, DaemonGoes DEF Stages, Ending, Daemons, BoundStages
    <3>2. OneAtWork' /\ UnitIsStopped' /\ UpgradeProceeds'
      BY <2>3, <1>1, <1>typed, <3>1, WorkMoves, UnitFollows, UpgradeStays DEF Daemons
    <3>3. StartupTypeOK'
      BY <2>3, <1>1, <1>4, <3>1, <1>awaits, <1>typed, TypesStay DEF Daemons, RestartService
    <3>4. QED
      BY <3>2, <3>3 DEF StartupInv
  <2>4. CASE unit' = "replacing" /\ At("service", "serves") /\ Goes("service", "ends") /\ UNCHANGED lock
    BY <1>1, <2>3, <2>4, <1>typed DEF OneAtWork, LockedStages, At, Daemons, storage
  <2>5. CASE /\ unit' = "replacing" /\ Goes("service", "dying")
             /\ lock' = IF lock = "service" THEN Nobody ELSE lock
    BY <1>1, <2>3, <2>5 DEF LockedStages, Nobody, Daemons, storage
  <2>6. CASE unit' = "replacing" /\ daemon["service"].at \in Ending /\ UNCHANGED <<daemon, lock>>
    <3>1. StartupTypeOK'
      BY <1>1, <1>4, <2>6, <1>awaits, <1>typed DEF StartupTypeOK, ClientTypeOK, RestartService, storage
    <3>2. OneAtWork' /\ UnitIsStopped' /\ UpgradeProceeds'
      BY <1>1, <2>6, <1>typed DEF OneAtWork, UnitIsStopped, UpgradeProceeds, At, storage
    <3>3. QED
      BY <3>1, <3>2 DEF StartupInv
  <2>7. QED
    BY <1>4, <2>1, <2>2, <2>4, <2>5, <2>6 DEF RestartService
<1>5. QED
  BY <1>2, <1>3, <1>4 DEF ClientSteps

(* Every behaviour of Startup keeps its invariant. *)
LEMMA StartupStep ==
  ASSUME StartupInv, [StartupNext]_startupVars
  PROVE  StartupInv'
<1>1. CASE UNCHANGED startupVars
  BY <1>1 DEF startupVars, StartupInv, StartupTypeOK, OneAtWork, UnitIsStopped, UpgradeProceeds, At
<1>2. QED
  BY <1>1, SocketStep, DatabaseStep, WorkStep, WorldStep, ClientStep
     DEF StartupNext, DaemonSteps, StartupWorld

--------------------------------------------------------------------------------
(* Service *)

(* The parts share no state, so each keeps its invariant while another moves. *)
LEMMA ServiceStep ==
  ASSUME StartupInv, LoginInv, ShutdownInv, [ServiceNext]_serviceVars
  PROVE  StartupInv' /\ LoginInv' /\ ShutdownInv'
<1>1. /\ [StartupNext]_startupVars
      /\ [LoginNext]_loginVars
      /\ [ShutdownNext]_shutdownVars
  BY DEF ServiceNext, serviceVars, StartupMoves, LoginMoves, ShutdownMoves
<1>2. QED
  BY <1>1, StartupStep, LoginStep, ShutdownStep

(* All three invariants hold in every reachable state of the service. *)
THEOREM ServiceInvariance == ServiceSpec => [](StartupInv /\ LoginInv /\ ShutdownInv)
<1>1. ServiceInit => StartupInv /\ LoginInv /\ ShutdownInv
  BY StartupInvInit, LoginInvInit, ShutdownInvInit DEF ServiceInit
<1>2. QED
  BY <1>1, ServiceStep, PTL DEF ServiceSpec

(* A daemon that serves is found: while others start beside it, remove what dead ones left and
   clean up after themselves, the socket's path is its own. *)
THEOREM ServesReachably == ServiceSpec => []ServingIsReachable
<1>1. StartupInv => ServingIsReachable
  BY DEF StartupInv, ServingIsReachable, OneAtWork, BoundStages, At
<1>2. QED
  BY <1>1, ServiceInvariance, PTL

(* What an older version left is taken over, wherever the daemon dies: its rules, its job, and
   how it starts on login. *)
THEOREM HandsOver == ServiceSpec => []HandoversSurviveDeath
<1>1. StartupInv /\ LoginInv => HandoversSurviveDeath
  <2>1. StartupInv => UpgradeKeepsWork
    BY DEF StartupInv, UpgradeKeepsWork, UpgradeProceeds, Settled, At
  <2>2. LoginInv => LoginTypeOK /\ LoginStaysArmed
    BY DEF LoginInv
  <2>3. QED
    BY <2>1, <2>2 DEF HandoversSurviveDeath
<1>2. QED
  BY <1>1, ServiceInvariance, PTL

(* No quit waits for a notification that will not come, refuses work once it failed, or takes
   more of a recording with it than ExitCutsOnlyLateRecordings names. *)
THEOREM Quits == ServiceSpec => []QuitsCleanly
<1>1. ShutdownInv => QuitsCleanly
  BY DEF ShutdownInv, QuitsCleanly, ExitCutsOnlyLateRecordings, CutIsAccountedFor,
     EndsOnFailure
<1>2. QED
  BY <1>1, ServiceInvariance, PTL

================================================================================
