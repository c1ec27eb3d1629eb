-------------------------------- MODULE Shutdown --------------------------------
(* How the daemon quits while its other threads go on: DaemonHandle of
   crates/agentdictate-app/src/handle.rs.  A command that starts work looks at
   the flag `quitting` before it takes the daemon lock; `quit` sets the flag,
   preserves the recording under the lock, and waits on a condition variable,
   which gives the lock back, until the transcription is through.

   A step is what one thread does between two points where another may act: a
   look at the flag, one tenure of the lock, a notification.                 *)
EXTENDS Naturals, FiniteSets

CONSTANTS
  Commands,       \* threads with a command that starts work
  Quitters,       \* threads that quit: the tray, a client, a signal
  SignalQuit,     \* the one of them that answers the first SIGINT or SIGTERM
  Transcriptions, \* processing threads
  MaxFailures     \* bound: recordings that could not be preserved

ASSUME SignalQuitAssumption == SignalQuit \in Quitters
ASSUME MaxFailuresAssumption == MaxFailures \in Nat

VARIABLES
  quitting,       \* Shared::quitting
  shouldQuit,     \* Shared::should_quit
  shutdownFailed, \* shutdown_failed of bin/agentdictated.rs
  exited,         \* the process has ended
  activity,       \* what the daemon is at, and the transcription it waits for
  command,        \* what each command is at
  quitter,        \* what each quit is at
  processing,     \* what each processing thread is at
  started,        \* history: when the recording's command looked and acted
  failures        \* history: recordings that could not be preserved

shutdownVars == <<quitting, shouldQuit, shutdownFailed, exited, activity, command, quitter,
                  processing, started, failures>>

Idle == [kind |-> "idle"]
Recording == [kind |-> "recording"]
Processing(t) == [kind |-> "processing", of |-> t]
Activities == {Idle, Recording} \cup {Processing(t) : t \in Transcriptions}

ShutdownTypeOK ==
  /\ quitting \in BOOLEAN
  /\ shouldQuit \in BOOLEAN
  /\ shutdownFailed \in BOOLEAN
  /\ exited \in BOOLEAN
  /\ activity \in Activities
  /\ command \in [Commands -> {"idle", "checked", "checked_quitting", "refused"}]
  /\ quitter \in [Quitters -> {"idle", "marked", "waiting", "woken", "timed_out",
                               "settled", "done", "failed"}]
  /\ processing \in [Transcriptions -> {"idle", "running", "completed", "done"}]
  /\ started \in {"before", "late", "quitting"}
  /\ failures \in 0..MaxFailures

ShutdownInit ==
  /\ quitting = FALSE
  /\ shouldQuit = FALSE
  /\ shutdownFailed = FALSE
  /\ exited = FALSE
  /\ activity = Idle
  /\ command = [c \in Commands |-> "idle"]
  /\ quitter = [q \in Quitters |-> "idle"]
  /\ processing = [t \in Transcriptions |-> "idle"]
  /\ started = "before"
  /\ failures = 0

--------------------------------------------------------------------------------
(* Commands that start work *)

Running == ~exited

(* A quit has begun and has not failed. *)
QuitBegun == \E q \in Quitters : quitter[q] \notin {"idle", "failed"}

IsProcessing == activity.kind = "processing"

Move(c, at) == command' = [command EXCEPT ![c] = at]

LookAtQuitting(c) ==
  /\ Running
  /\ command[c] = "idle"
  /\ Move(c, IF quitting THEN "refused"
             ELSE IF QuitBegun THEN "checked_quitting" ELSE "checked")
  /\ UNCHANGED <<quitting, shouldQuit, shutdownFailed, exited, activity, quitter,
                 processing, started, failures>>

Passed(c) == command[c] \in {"checked", "checked_quitting"}

(* When a recording starts: its command looked while a quit had begun, acts after
   a quit has preserved what there was, or neither. *)
Start(looked) ==
  IF looked = "checked_quitting" THEN "quitting"
  ELSE IF \E q \in Quitters : quitter[q] \notin {"idle", "failed", "marked"}
       THEN "late" ELSE "before"

(* Under the lock: starts a recording from an idle daemon, nothing otherwise. *)
ActUnderLock(c) ==
  /\ Running
  /\ Passed(c)
  /\ Move(c, "idle")
  /\ IF activity = Idle
     THEN activity' = Recording /\ started' = Start(command[c])
     ELSE UNCHANGED <<activity, started>>
  /\ UNCHANGED <<quitting, shouldQuit, shutdownFailed, exited, quitter, processing,
                 failures>>

(* Stopping and discarding are never refused. *)
StopRecording(t) ==
  /\ Running
  /\ activity = Recording
  /\ processing[t] = "idle"
  /\ activity' = Processing(t)
  /\ processing' = [processing EXCEPT ![t] = "running"]
  /\ UNCHANGED <<quitting, shouldQuit, shutdownFailed, exited, command, quitter,
                 started, failures>>

EndRecording ==
  /\ Running
  /\ activity = Recording
  /\ activity' = Idle
  /\ UNCHANGED <<quitting, shouldQuit, shutdownFailed, exited, command, quitter,
                 processing, started, failures>>

(* Mutant of CancelProcessing: the transcription is stopped, and never settles. *)
CancelTranscription ==
  /\ Running
  /\ IsProcessing
  /\ activity' = Idle
  /\ processing' = [processing EXCEPT ![activity.of] = "done"]
  /\ UNCHANGED <<quitting, shouldQuit, shutdownFailed, exited, command, quitter,
                 started, failures>>

(* The daemon stops waiting; the transcription goes on, nobody is notified. *)
CancelProcessing ==
  /\ Running
  /\ IsProcessing
  /\ activity' = Idle
  /\ UNCHANGED <<quitting, shouldQuit, shutdownFailed, exited, command, quitter,
                 processing, started, failures>>

--------------------------------------------------------------------------------
(* A processing thread: `complete` settles under the lock, then notifies *)

CompleteTranscription(t) ==
  /\ Running
  /\ processing[t] = "running"
  /\ processing' = [processing EXCEPT ![t] = "completed"]
  /\ activity' = IF activity = Processing(t) THEN Idle ELSE activity
  /\ UNCHANGED <<quitting, shouldQuit, shutdownFailed, exited, command, quitter,
                 started, failures>>

NotifySettled(t) ==
  /\ Running
  /\ processing[t] = "completed"
  /\ processing' = [processing EXCEPT ![t] = "done"]
  /\ quitter' = [q \in Quitters |->
                 IF quitter[q] = "waiting" THEN "woken" ELSE quitter[q]]
  /\ UNCHANGED <<quitting, shouldQuit, shutdownFailed, exited, activity, command,
                 started, failures>>

--------------------------------------------------------------------------------
(* Quit *)

QuitterAt(q, at) == quitter[q] = at
QuitterGoes(q, at) == quitter' = [quitter EXCEPT ![q] = at]

(* Only the first signal is heard. *)
BeginQuit(q) ==
  /\ Running
  /\ QuitterAt(q, "idle") \/ (QuitterAt(q, "failed") /\ q # SignalQuit)
  /\ quitting' = TRUE
  /\ QuitterGoes(q, "marked")
  /\ UNCHANGED <<shouldQuit, shutdownFailed, exited, activity, command, processing,
                 started, failures>>

(* `wait_timeout_while` waits only while a transcription is expected. *)
WaitOrGoOn(q) == QuitterGoes(q, IF activity'.kind = "processing" THEN "waiting" ELSE "settled")

(* Mutant of ShutDown: the recording goes on. *)
ShutDownWhileRecording(q) ==
  /\ Running
  /\ QuitterAt(q, "marked")
  /\ UNCHANGED activity
  /\ WaitOrGoOn(q)
  /\ UNCHANGED <<quitting, shouldQuit, shutdownFailed, exited, command, processing,
                 started, failures>>

(* Preserves the recording; the lock is held until the wait gives it back. *)
ShutDown(q) ==
  /\ Running
  /\ QuitterAt(q, "marked")
  /\ activity' = IF activity = Recording THEN Idle ELSE activity
  /\ WaitOrGoOn(q)
  /\ UNCHANGED <<quitting, shouldQuit, shutdownFailed, exited, command, processing,
                 started, failures>>

(* Mutant of ShutDownFails: work is refused for good. *)
ShutDownFailsRefusing(q) ==
  /\ Running
  /\ QuitterAt(q, "marked")
  /\ activity = Recording
  /\ failures < MaxFailures
  /\ failures' = failures + 1
  /\ activity' \in {Recording, Idle}
  /\ QuitterGoes(q, "failed")
  /\ UNCHANGED <<quitting, shouldQuit, shutdownFailed, exited, command, processing,
                 started>>

(* The recording could not be preserved: it goes on, or waits in Recovery
   although writing that failed. *)
ShutDownFails(q) ==
  /\ Running
  /\ QuitterAt(q, "marked")
  /\ activity = Recording
  /\ failures < MaxFailures
  /\ failures' = failures + 1
  /\ activity' \in {Recording, Idle}
  /\ quitting' = FALSE
  /\ QuitterGoes(q, "failed")
  /\ UNCHANGED <<shouldQuit, shutdownFailed, exited, command, processing, started>>

(* The grace is over while nobody has notified. *)
GraceEnds(q) ==
  /\ Running
  /\ QuitterAt(q, "waiting")
  /\ QuitterGoes(q, "timed_out")
  /\ UNCHANGED <<quitting, shouldQuit, shutdownFailed, exited, activity, command,
                 processing, started, failures>>

(* Back under the lock: a woken quit looks again, a late one gives up. *)
WakeUp(q) ==
  /\ Running
  /\ \/ QuitterAt(q, "woken") /\ UNCHANGED activity /\ WaitOrGoOn(q)
     \/ QuitterAt(q, "timed_out") /\ UNCHANGED activity /\ QuitterGoes(q, "settled")
  /\ UNCHANGED <<quitting, shouldQuit, shutdownFailed, exited, command, processing,
                 started, failures>>

FinishQuit(q) ==
  /\ Running
  /\ QuitterAt(q, "settled")
  /\ shouldQuit' = TRUE
  /\ QuitterGoes(q, "done")
  /\ UNCHANGED <<quitting, shutdownFailed, exited, activity, command, processing,
                 started, failures>>

(* Mutant of FailSignal: whichever quit failed, the daemon goes down. *)
FailAnyQuit ==
  /\ Running
  /\ ~shutdownFailed
  /\ \E q \in Quitters : QuitterAt(q, "failed")
  /\ shutdownFailed' = TRUE
  /\ UNCHANGED <<quitting, shouldQuit, exited, activity, command, quitter, processing,
                 started, failures>>

(* A quit that a signal asked for failed: no later signal would be heard, so the
   process is to end with an error. *)
FailSignal ==
  /\ Running
  /\ ~shutdownFailed
  /\ QuitterAt(SignalQuit, "failed")
  /\ shutdownFailed' = TRUE
  /\ UNCHANGED <<quitting, shouldQuit, exited, activity, command, quitter, processing,
                 started, failures>>

(* The accept loop, woken by the quit or by its failure, ends, and the process with
   it. *)
Exit ==
  /\ Running
  /\ shutdownFailed \/ shouldQuit
  /\ exited' = TRUE
  /\ UNCHANGED <<quitting, shouldQuit, shutdownFailed, activity, command, quitter,
                 processing, started, failures>>

--------------------------------------------------------------------------------
CommandSteps ==
  \/ \E c \in Commands : LookAtQuitting(c) \/ ActUnderLock(c)
  \/ \E t \in Transcriptions : StopRecording(t)
  \/ EndRecording \/ CancelProcessing

ProcessingSteps ==
  \E t \in Transcriptions : CompleteTranscription(t) \/ NotifySettled(t)

QuitSteps ==
  \E q \in Quitters :
    \/ BeginQuit(q) \/ ShutDown(q) \/ ShutDownFails(q)
    \/ GraceEnds(q) \/ WakeUp(q) \/ FinishQuit(q)

ShutdownNext ==
  CommandSteps \/ ProcessingSteps \/ QuitSteps \/ FailSignal \/ Exit

ShutdownSpec == ShutdownInit /\ [][ShutdownNext]_shutdownVars

--------------------------------------------------------------------------------
(* Properties *)

(* A quit that waits although no transcription is expected any more will still
   be notified: the notification comes after the settling, and a cancelled
   transcription notifies too (`processing_settled`). *)
NoLostNotification ==
  \A q \in Quitters : QuitterAt(q, "waiting") /\ ~IsProcessing =>
    \E t \in Transcriptions : processing[t] \in {"running", "completed"}

(* "When the recording cannot be preserved, the daemon keeps running and takes
   work again": commands are refused only while a quit is under way or done. *)
RefusesOnlyWhileQuitting == quitting => QuitBegun

(* A signal's quit failed, and its recording goes on until the process ends. *)
EndsOnFailure == shutdownFailed /\ QuitterAt(SignalQuit, "failed")

(* The end of the process cuts off no recording (quit: "an active recording is
   preserved for Recovery"), except one whose command looked at the flag before
   any quit began and got the lock after a quit had preserved what there was, one
   taken because a quit that failed had cleared the flag of another, or one that
   goes on when the quit a signal asked for has failed: "an exit is safer than
   waiting for systemd's SIGKILL". *)
ExitCutsOnlyLateRecordings ==
  exited /\ activity = Recording =>
    \/ started = "late"
    \/ started = "quitting" /\ failures > 0
    \/ EndsOnFailure

(* "Set when shutdown begins; commands that would start work are refused." *)
NothingStartsWhileQuitting ==
  [][activity # Recording /\ activity' = Recording => ~QuitBegun]_shutdownVars

================================================================================
