-------------------------------- MODULE Store --------------------------------
(* How a dictation is kept while it is recorded, transcribed and delivered:
   the job table, the recordings directory and the dictations History counts,
   as the daemon and its maintenance thread change them (agentdictate-runtime,
   driven by agentdictate-app's daemon.rs).

   The daemon runs one command at a time under its lock, but the maintenance
   thread of process.rs has a connection of its own and no lock: a step here is
   one SQL statement, one transaction, one file operation or one call out of
   the process, and the two threads interleave between steps.  The process may
   die between any two steps, and a step may fail.

   The transcription itself holds no lock; only its result is a step.  Times
   are abstracted to what is decided from them: whether a row has outlived
   `recovery_lifetime`, whether a take was long, whether a result came late. *)
EXTENDS JobTable, Naturals, FiniteSets

CONSTANTS
  Jobs,          \* the dictations of one behaviour (JobId)
  NoJob,         \* a value that is no job
  LegacyStages,  \* finished stages an old database may still hold rows in
  Failing,       \* the kinds of step that may fail
  MaxFailures    \* how many failures and crashes a behaviour may have

FailureKinds == {"crash", "write", "read", "disk", "recorder"}

ASSUME NoJobAssumption == NoJob \notin Jobs
ASSUME LegacyAssumption == LegacyStages \subseteq {"delivered", "no_speech", "deleted"}
ASSUME FailingAssumption == Failing \subseteq FailureKinds
ASSUME MaxFailuresAssumption == MaxFailures \in Nat

VARIABLES
  jobs,       \* the table: Jobs -> Rows
  audio,      \* each job's recording in the recordings directory
  recorded,   \* how often each job was inserted into `dictations`
  keepAudio,  \* the "Keep audio recordings" setting (preserve_temp_audio)
  recorder,   \* the job whose pw-record runs (RecorderOwner's `active`)
  activity,   \* Daemon::activity
  tickets,    \* transcriptions under way, by job (ProcessingTicket)
  frame,      \* where each thread stands in its current command
  born,       \* history: jobs that have had a row
  heard,      \* history: jobs whose recorder wrote samples
  chords,     \* history: automatic paste chords sent, by job
  failures    \* history: failures and crashes so far

stored == <<jobs, audio, recorded>>

(* What a step leaves alone that moves a thread on, writes a row, or touches a
   recording, `failures` aside. *)
allButFrame == <<stored, keepAudio, recorder, activity, tickets, born, heard, chords>>
allButRow == <<audio, recorded, keepAudio, recorder, activity, tickets, born, heard, chords>>
allButAudio == <<jobs, recorded, keepAudio, recorder, activity, tickets, born, heard, chords>>

vars == <<jobs, audio, recorded, keepAudio, recorder, activity, tickets, frame,
          born, heard, chords, failures>>

Threads == {"daemon", "maintenance"}

Audio == {"missing", "present", "quarantined"}

NoActivity == [kind |-> "idle", job |-> NoJob, pastes |-> FALSE]

Activities == [kind : {"idle", "recording", "processing"},
               job : Jobs \cup {NoJob}, pastes : BOOLEAN]

DaemonLabels ==
  {"down", "open_ambiguous", "open_interrupted", "open_deletions", "idle",
   "recorder_start", "checkpoint", "abort_start", "interrupt_start",
   "finish", "capture", "interrupt_recording", "begin", "discard",
   "interrupt_captured", "store_raw", "store_ready", "store_silent",
   "store_failed", "fail_job", "read_ready", "gate", "gate_blocked", "attempt",
   "deliver", "record_submitted", "record_ambiguous", "record_not_sent",
   "read_result", "complete", "cleanup_audio", "retry_update", "retry_read",
   "again_update", "again_read", "settle", "panicked"}

MaintenanceLabels ==
  {"off", "due", "list_finished", "next_finished", "finish_row",
   "list_orphans", "remove_orphans"}

SharedLabels ==
  {"expire_list", "expire_next", "expire_row", "delete_move", "delete_row",
   "delete_restore", "delete_unlink"}

Labels == DaemonLabels \cup MaintenanceLabels \cup SharedLabels

(* job      the job the command is about
   todo     the ids a list query returned that are still to be handled
   victim   the job that is being deleted
   moved    `quarantined` in delete_recovery
   goal     the command that shares the steps: how it goes on after them
   pastes   the text is to be pasted, not only copied
   settles  the command ends the daemon's activity
   keeps    the settings snapshot of the maintenance thread                 *)
Frames == [at      : Labels,
           job     : Jobs \cup {NoJob},
           todo    : SUBSET Jobs,
           victim  : Jobs \cup {NoJob},
           moved   : BOOLEAN,
           goal    : {"none", "stop", "discard", "preserve", "user", "retention"},
           pastes  : BOOLEAN,
           settles : BOOLEAN,
           keeps   : BOOLEAN]

AtRest(label) == [at |-> label, job |-> NoJob, todo |-> {},
                  victim |-> NoJob, moved |-> FALSE, goal |-> "none",
                  pastes |-> FALSE, settles |-> FALSE, keeps |-> FALSE]

TypeOK ==
  /\ jobs \in [Jobs -> Rows]
  /\ audio \in [Jobs -> Audio]
  /\ recorded \in [Jobs -> Nat]
  /\ keepAudio \in BOOLEAN
  /\ recorder \in Jobs \cup {NoJob}
  /\ activity \in Activities
  /\ tickets \in [Jobs -> Nat]
  /\ frame \in [Threads -> Frames]
  /\ born \in SUBSET Jobs
  /\ heard \in SUBSET Jobs
  /\ chords \in [Jobs -> Nat]
  /\ failures \in Nat

(* A first start, or a start over a database of an older version: it may hold
   finished rows, delivered ones with or without their dictation recorded.   *)
Init ==
  /\ jobs \in [Jobs -> {NoRow} \cup
        {[NoRow EXCEPT !.stage = s, !.raw = (s = "delivered"),
                       !.text = (s = "delivered"),
                       !.delivery = IF s = "delivered" THEN "submitted" ELSE @] :
           s \in LegacyStages}]
  /\ audio \in [Jobs -> {"missing", "present"}]
  /\ \A j \in Jobs : audio[j] = "present" => IsRow(jobs[j])
  /\ recorded \in [Jobs -> {0, 1}]
  /\ \A j \in Jobs : recorded[j] = 1 => jobs[j].stage = "delivered"
  /\ born = {j \in Jobs : IsRow(jobs[j])}
  /\ heard = {}
  /\ keepAudio \in BOOLEAN
  /\ recorder = NoJob
  /\ activity = NoActivity
  /\ tickets = [j \in Jobs |-> 0]
  /\ frame = [c \in Threads |-> AtRest(IF c = "daemon" THEN "down" ELSE "off")]
  /\ chords = [j \in Jobs |-> 0]
  /\ failures = 0

--------------------------------------------------------------------------------
(* Steps *)

At(c, label) == frame[c].at = label
Job(c) == frame[c].job
Victim(c) == frame[c].victim
Turn(c, new) == frame' = [frame EXCEPT ![c] = new]
Go(c, label) ==
  Turn(c, IF label = "off" THEN AtRest("off") ELSE [frame[c] EXCEPT !.at = label])
Put(j, row) == jobs' = [jobs EXCEPT ![j] = row]

Fault(kind) ==
  /\ kind \in Failing
  /\ failures < MaxFailures
  /\ failures' = failures + 1

(* The lock is free: the daemon may take its next command. *)
Unlocked == At("daemon", "idle")

Command(new) == Turn("daemon", new)

(* One statement that leaves `row` in the table, and where a failure leads. *)
Statement(c, j, row, next, onFault) ==
  \/ Put(j, row) /\ Go(c, next) /\ UNCHANGED failures
  \/ Fault("write") /\ Go(c, onFault) /\ UNCHANGED jobs

(* The row of the daemon's job, and the step of a command that writes it. *)
Row == jobs[Job("daemon")]
RowStep(here, row, next, onFault) ==
  /\ At("daemon", here)
  /\ Statement("daemon", Job("daemon"), row, next, onFault)
  /\ UNCHANGED allButRow

(* The row is read back after it was written, and that read fails. *)
UnreadStatement(c, row, onFault) ==
  Fault("read") /\ Put(Job(c), row) /\ Go(c, onFault)

Keeps(c) == IF c = "daemon" THEN keepAudio ELSE frame[c].keeps

--------------------------------------------------------------------------------
(* Daemon start: `Runtime::open`, then the leftover deletes *)

Boot ==
  /\ At("daemon", "down")
  /\ Go("daemon", "open_ambiguous")
  /\ UNCHANGED <<failures, allButFrame>>

OpenAmbiguous ==
  /\ At("daemon", "open_ambiguous")
  /\ jobs' = [j \in Jobs |-> ReconcileAmbiguous(jobs[j])]
  /\ Go("daemon", "open_interrupted")
  /\ UNCHANGED <<audio, recorded, keepAudio, recorder, activity, tickets, born, heard, chords, failures>>

OpenInterrupted ==
  /\ At("daemon", "open_interrupted")
  /\ jobs' = [j \in Jobs |-> ReconcileInterrupted(jobs[j])]
  /\ Go("daemon", "open_deletions")
  /\ UNCHANGED <<audio, recorded, keepAudio, recorder, activity, tickets, born, heard, chords, failures>>

(* Mutant of ReconcileRecoveryDeletion: every quarantined recording goes. *)
ReconcileByRemoving(j) ==
  /\ At("daemon", "open_deletions")
  /\ audio[j] = "quarantined"
  /\ audio' = [audio EXCEPT ![j] = "missing"]
  /\ UNCHANGED <<frame, failures, allButAudio>>

(* A quarantined recording goes back to a job that still has its row, and away
   otherwise; an error ends the start. *)
ReconcileRecoveryDeletion(j) ==
  /\ At("daemon", "open_deletions")
  /\ audio[j] = "quarantined"
  /\ \/ /\ audio' = [audio EXCEPT ![j] =
                       IF jobs[j].stage \notin {"none", "deleted"}
                       THEN "present" ELSE "missing"]
        /\ UNCHANGED <<frame, failures>>
     \/ Fault("disk") /\ Go("daemon", "down") /\ UNCHANGED audio
  /\ UNCHANGED allButAudio

Serve ==
  /\ At("daemon", "open_deletions")
  /\ \A j \in Jobs : audio[j] # "quarantined"
  /\ frame' = [frame EXCEPT !["daemon"] = AtRest("idle"),
                            !["maintenance"] = AtRest("due")]
  /\ UNCHANGED <<failures, allButFrame>>

(* The whole process ends: pw-record dies with it, and so do the tickets. *)
ProcessEnds ==
  /\ frame' = [c \in Threads |-> AtRest(IF c = "daemon" THEN "down" ELSE "off")]
  /\ recorder' = NoJob
  /\ activity' = NoActivity
  /\ tickets' = [j \in Jobs |-> 0]
  /\ UNCHANGED <<stored, keepAudio, born, heard, chords>>

Crash ==
  /\ ~At("daemon", "down")
  /\ Fault("crash")
  /\ ProcessEnds

(* A panic under the lock ends the process with an error status. *)
PanicExit ==
  /\ At("daemon", "panicked")
  /\ ProcessEnds
  /\ UNCHANGED failures

(* Quitting first preserves a recording, which `FinishRecording` does. *)
Quit ==
  /\ Unlocked
  /\ activity.kind # "recording"
  /\ ProcessEnds
  /\ UNCHANGED failures

ToggleKeepAudio ==
  /\ Unlocked
  /\ keepAudio' = ~keepAudio
  /\ UNCHANGED <<stored, recorder, activity, tickets, frame, born, heard, chords, failures>>

(* Time passes: a row outlives its recovery_lifetime unchanged.  That takes a
   day at least, so none does while a command holds the lock. *)
Outlive(j) ==
  /\ Unlocked \/ At("daemon", "down")
  /\ Expirable(jobs[j])
  /\ ~jobs[j].expired
  /\ Put(j, [jobs[j] EXCEPT !.expired = TRUE])
  /\ UNCHANGED <<audio, recorded, keepAudio, recorder, activity, tickets, frame, born, heard, chords, failures>>

--------------------------------------------------------------------------------
(* Starting a recording *)

(* Mutant of Settle: the activity stays. *)
SettleKeepingTheActivity ==
  /\ At("daemon", "settle")
  /\ Command(AtRest("idle"))
  /\ UNCHANGED <<failures, allButFrame>>

(* A command ends: the workflow settles, and with it the activity, when the
   command ends the active dictation. *)
Settle ==
  /\ At("daemon", "settle")
  /\ activity' = IF frame["daemon"].settles THEN NoActivity ELSE activity
  /\ Command(AtRest("idle"))
  /\ UNCHANGED <<stored, keepAudio, recorder, tickets, born, heard, chords, failures>>

StartRecording(j) ==
  /\ Unlocked
  /\ activity = NoActivity
  /\ j \notin born
  /\ born' = born \cup {j}
  /\ Put(j, InsertStarting)
  /\ \/ /\ Command([AtRest("recorder_start") EXCEPT !.job = j])
        /\ UNCHANGED failures
     \/ Fault("read") /\ UNCHANGED frame  \* the inserted row is not read back
  /\ UNCHANGED <<audio, recorded, keepAudio, recorder, activity, tickets, heard, chords>>

(* A recorder that is still running another job refuses; one that fails may
   leave a file behind. *)
RecorderStart ==
  LET j == Job("daemon") IN
  /\ At("daemon", "recorder_start")
  /\ \/ /\ recorder = NoJob
        /\ recorder' = j
        /\ heard' = heard \cup {j}
        /\ audio' = [audio EXCEPT ![j] = "present"]
        /\ Go("daemon", "checkpoint")
        /\ UNCHANGED failures
     \/ /\ recorder = NoJob
        /\ Fault("recorder")
        /\ audio' \in {audio, [audio EXCEPT ![j] = "present"]}
        /\ Go("daemon", "interrupt_start")
        /\ UNCHANGED <<recorder, heard>>
     \/ /\ recorder # NoJob
        /\ Go("daemon", "interrupt_start")
        /\ UNCHANGED <<audio, recorder, heard, failures>>
  /\ UNCHANGED <<jobs, recorded, keepAudio, activity, tickets, born, chords>>

CheckpointRecording ==
  LET j == Job("daemon")
      row == UpdateStage(jobs[j], "recording")
  IN
  /\ At("daemon", "checkpoint")
  /\ \/ /\ Put(j, row)
        /\ activity' = [kind |-> "recording", job |-> j, pastes |-> FALSE]
        /\ Command(AtRest("idle"))
        /\ UNCHANGED failures
     \/ Fault("write") /\ Go("daemon", "abort_start") /\ UNCHANGED <<jobs, activity>>
     \/ UnreadStatement("daemon", row, "settle") /\ UNCHANGED activity
  /\ UNCHANGED <<audio, recorded, keepAudio, recorder, tickets, born, heard, chords>>

(* Mutant of AbortStart: the recorder is left running. *)
AbortStartByLeavingIt ==
  /\ At("daemon", "abort_start")
  /\ Go("daemon", "interrupt_start")
  /\ UNCHANGED <<failures, allButFrame>>

(* Whatever the recorder answers, its owner has let it go. *)
AbortStart ==
  /\ At("daemon", "abort_start")
  /\ recorder' = NoJob
  /\ Go("daemon", "interrupt_start")
  /\ UNCHANGED <<stored, keepAudio, activity, tickets, born, heard, chords, failures>>

InterruptStart ==
  RowStep("interrupt_start", UpdateStage(Row, "interrupted"), "settle", "settle")

--------------------------------------------------------------------------------
(* Ending a recording: stop, discard, or preserve for shutdown or a recorder
   that exited or stalled *)

FinishRecording(goal) ==
  /\ Unlocked
  /\ activity.kind = "recording"
  /\ Command([AtRest("finish") EXCEPT !.job = activity.job, !.goal = goal,
                                      !.settles = TRUE])
  /\ UNCHANGED <<failures, allButFrame>>

(* The recorder stops in either case. *)
RecorderFinish ==
  /\ At("daemon", "finish")
  /\ recorder' = NoJob
  /\ \/ Go("daemon", "capture") /\ UNCHANGED failures
     \/ Fault("recorder") /\ Go("daemon", "interrupt_recording")
  /\ UNCHANGED <<stored, keepAudio, activity, tickets, born, heard, chords>>

CaptureRecording ==
  /\ At("daemon", "capture")
  /\ \E long \in BOOLEAN :
       LET row == Captured(Row, long)
           next == IF frame["daemon"].goal = "stop" THEN "begin"
                   ELSE IF frame["daemon"].goal = "discard" THEN "discard"
                   ELSE "interrupt_captured"
       IN \/ Statement("daemon", Job("daemon"), row, next, "interrupt_recording")
          \* The recovery that follows refuses a row that is captured already.
          \/ UnreadStatement("daemon", row, "settle")
  /\ UNCHANGED allButRow

InterruptRecording ==
  RowStep("interrupt_recording", UpdateStage(Row, "interrupted"), "settle", "settle")

InterruptCaptured ==
  RowStep("interrupt_captured", UpdateStage(Row, "interrupted"), "settle", "settle")

BeginTranscription ==
  LET j == Job("daemon")
      row == UpdateStage(jobs[j], "transcribing")
  IN
  /\ At("daemon", "begin")
  /\ \/ /\ Put(j, row)
        /\ activity' = [kind |-> "processing", job |-> j, pastes |-> TRUE]
        /\ tickets' = [tickets EXCEPT ![j] = @ + 1]
        /\ Command(AtRest("idle"))
        /\ UNCHANGED failures
     \/ /\ Fault("write") /\ Go("daemon", "settle")
        /\ UNCHANGED <<jobs, activity, tickets>>
     \/ UnreadStatement("daemon", row, "settle") /\ UNCHANGED <<activity, tickets>>
  /\ UNCHANGED <<audio, recorded, keepAudio, recorder, born, heard, chords>>

(* A long take is kept as cancelled; a short one loses its row, and its audio
   unless recordings are kept. *)
DiscardRecording ==
  LET row == Row IN
  /\ At("daemon", "discard")
  /\ \/ row.long /\ Statement("daemon", Job("daemon"), UpdateStage(row, "cancelled"), "settle", "settle")
     \/ ~row.long /\ keepAudio /\ Statement("daemon", Job("daemon"), NoRow, "settle", "settle")
     \/ /\ ~row.long /\ ~keepAudio
        /\ Command([frame["daemon"] EXCEPT !.at = "delete_move",
                                           !.victim = Job("daemon")])
        /\ UNCHANGED <<jobs, failures>>
  /\ UNCHANGED allButRow

--------------------------------------------------------------------------------
(* A transcription's result *)

(* Mutant of IsCurrent: the daemon waits for any result. *)
IsAnyCurrent(j) == activity.kind = "processing"

(* The daemon still waits for this job's result. *)
IsCurrent(j) == activity.kind = "processing" /\ activity.job = j

Resume(j, label) ==
  Command([AtRest(label) EXCEPT !.job = j, !.settles = IsCurrent(j),
                                !.pastes = IsCurrent(j) /\ activity.pastes])

(* Only the job the daemon is processing is delivered.  A stored raw transcript
   is reused, so such a job is never silent.  A result for a job that left
   `transcribing` changes nothing. *)
TranscriptionDone(j) ==
  /\ Unlocked
  /\ tickets[j] > 0
  /\ tickets' = [tickets EXCEPT ![j] = @ - 1]
  /\ \/ /\ jobs[j].stage # "transcribing"
        /\ Resume(j, "settle")
        /\ UNCHANGED failures
     \/ /\ jobs[j].stage = "transcribing"
        /\ \E label \in {"store_raw", "store_failed"} \cup
                        (IF jobs[j].raw THEN {} ELSE {"store_silent"}) :
             Resume(j, label)
        /\ UNCHANGED failures
     \/ Fault("read") /\ Resume(j, "settle")
  /\ UNCHANGED <<stored, keepAudio, recorder, activity, born, heard, chords>>

StoreRawText == RowStep("store_raw", StoreRaw(Row), "store_ready", "fail_job")

(* Mutant of StoreReadyText: a failed write leaves the row as it is. *)
StoreReadyTextOnly == RowStep("store_ready", StoreReady(Row), "read_ready", "settle")

StoreReadyText ==
  RowStep("store_ready", StoreReady(Row), "read_ready", "fail_job")

StoreSilent == RowStep("store_silent", NoRow, "cleanup_audio", "fail_job")

StoreFailed ==
  RowStep("store_failed", UpdateStage(Row, "failed"), "settle", "fail_job")

(* `fail_job`: the failure of a failed step is recorded, or that fails too. *)
FailStep == RowStep("fail_job", FailJob(Row), "settle", "settle")

(* `expect("updated job must be readable")` *)
ReadBack(here, next, onFault) ==
  /\ At("daemon", here)
  /\ \/ ~IsRow(Row) /\ Go("daemon", "panicked") /\ UNCHANGED failures
     \/ IsRow(Row) /\ Go("daemon", next) /\ UNCHANGED failures
     \/ Fault("read") /\ Go("daemon", onFault)

(* The text is pasted, or only copied when it came late or the focus moved. A
   result nobody waits for is only stored. *)
ReadReady ==
  LET here == frame["daemon"] IN
  /\ \/ ReadBack("read_ready",
                 IF ~here.settles THEN "settle" ELSE IF here.pastes THEN "gate" ELSE "attempt",
                 "fail_job")
     \/ /\ At("daemon", "read_ready") /\ IsRow(Row)
        /\ here.settles /\ here.pastes
        /\ Command([here EXCEPT !.at = "attempt", !.pastes = FALSE])
        /\ UNCHANGED failures
  /\ UNCHANGED allButFrame

--------------------------------------------------------------------------------
(* Delivering: gate, checkpoint, one chord or one copy, outcome *)

Gate ==
  /\ At("daemon", "gate")
  /\ Go("daemon", "attempt") \/ Go("daemon", "gate_blocked")
  /\ UNCHANGED <<failures, allButFrame>>

GateRefused == RowStep("gate_blocked", GateBlocked(Row), "fail_job", "fail_job")

Attempt == RowStep("attempt", Attempting(Row), "deliver", "fail_job")

(* The system's deliverer answers every call.  A paste whose injection failed
   may have reached the application, so it counts as a chord. *)
Deliver ==
  /\ At("daemon", "deliver")
  /\ \E outcome \in {"submitted", "not_sent"} \cup
                    (IF frame["daemon"].pastes THEN {"ambiguous"} ELSE {}) :
       /\ Go("daemon", IF outcome = "submitted" THEN "record_submitted"
                       ELSE IF outcome = "ambiguous" THEN "record_ambiguous"
                       ELSE "record_not_sent")
       /\ chords' = IF frame["daemon"].pastes /\ outcome # "not_sent"
                    THEN [chords EXCEPT ![Job("daemon")] = @ + 1] ELSE chords
  /\ UNCHANGED <<stored, keepAudio, recorder, activity, tickets, born, heard, failures>>

RecordSubmitted ==
  RowStep("record_submitted", Submitted(Row), "read_result", "fail_job")

RecordAmbiguous ==
  RowStep("record_ambiguous", Ambiguous(Row), "read_result", "fail_job")

RecordNotSent ==
  RowStep("record_not_sent", NotSent(Row), "read_result", "fail_job")

ReadResult ==
  /\ ReadBack("read_result",
              IF Row.stage = "delivered" THEN "complete" ELSE "settle",
              "fail_job")
  /\ UNCHANGED allButFrame

(* Mutant of CompleteDelivered: the dictation is recorded unlooked for. *)
CompleteDeliveredUnchecked(c, j, next, onFault) ==
  /\ recorded' = IF IsRow(jobs[j]) THEN [recorded EXCEPT ![j] = @ + 1] ELSE recorded
  /\ Put(j, NoRow) /\ Go(c, next) /\ UNCHANGED failures

(* One transaction: the dictation is recorded unless it is already, and the
   row leaves the table. A row that is gone was completed before. *)
CompleteDelivered(c, j, next, onFault) ==
  \/ /\ recorded' = IF IsRow(jobs[j]) /\ recorded[j] = 0
                    THEN [recorded EXCEPT ![j] = @ + 1] ELSE recorded
     /\ Put(j, NoRow)
     /\ Go(c, next)
     /\ UNCHANGED failures
  \/ Fault("write") /\ Go(c, onFault) /\ UNCHANGED <<jobs, recorded>>

Complete ==
  /\ At("daemon", "complete")
  /\ CompleteDelivered("daemon", Job("daemon"), "expire_list", "cleanup_audio")
  /\ UNCHANGED <<audio, keepAudio, recorder, activity, tickets, born, heard, chords>>

(* Completed audio goes, unless recordings are kept or the unlink fails. *)
CleanupAudio ==
  /\ At("daemon", "cleanup_audio")
  /\ \/ /\ audio' = IF keepAudio \/ audio[Job("daemon")] # "present" THEN audio
                    ELSE [audio EXCEPT ![Job("daemon")] = "missing"]
        /\ UNCHANGED failures
     \/ ~keepAudio /\ Fault("disk") /\ UNCHANGED audio
  /\ Go("daemon", "settle")
  /\ UNCHANGED allButAudio

--------------------------------------------------------------------------------
(* Recovery: "Transcribe again", "Paste again", "Delete", and a cancelled wait *)

RetryTranscriptionOf(j) ==
  /\ Unlocked
  /\ activity = NoActivity
  /\ RetryAllowed(jobs[j])
  /\ Command([AtRest("retry_update") EXCEPT !.job = j])
  /\ UNCHANGED <<failures, allButFrame>>

RetryUpdate ==
  RowStep("retry_update", RetryTranscription(Row), "retry_read", "settle")

RetryRead ==
  LET j == Job("daemon") IN
  /\ At("daemon", "retry_read")
  /\ \/ /\ IsRow(jobs[j])
        /\ activity' = [kind |-> "processing", job |-> j, pastes |-> FALSE]
        /\ tickets' = [tickets EXCEPT ![j] = @ + 1]
        /\ Command(AtRest("idle"))
        /\ UNCHANGED failures
     \/ /\ ~IsRow(jobs[j])
        /\ Go("daemon", "panicked")
        /\ UNCHANGED <<activity, tickets, failures>>
     \/ Fault("read") /\ Go("daemon", "settle") /\ UNCHANGED <<activity, tickets>>
  /\ UNCHANGED <<stored, keepAudio, recorder, born, heard, chords>>

(* Mutant of PasteAgain: it injects a chord. *)
PasteAgainByChord(j) ==
  /\ Unlocked
  /\ activity = NoActivity
  /\ PasteAgainAllowed(jobs[j])
  /\ Command([AtRest("again_update") EXCEPT !.job = j, !.pastes = TRUE])
  /\ UNCHANGED <<failures, allButFrame>>

(* "Paste again" only copies. *)
PasteAgain(j) ==
  /\ Unlocked
  /\ activity = NoActivity
  /\ PasteAgainAllowed(jobs[j])
  /\ Command([AtRest("again_update") EXCEPT !.job = j])
  /\ UNCHANGED <<failures, allButFrame>>

AgainUpdate ==
  RowStep("again_update", RetryDelivery(Row), "again_read", "settle")

AgainRead ==
  /\ ReadBack("again_read", "attempt", "settle")
  /\ UNCHANGED allButFrame

CancelProcessing ==
  /\ Unlocked
  /\ activity.kind = "processing"
  /\ activity' = NoActivity
  /\ UNCHANGED <<stored, keepAudio, recorder, tickets, frame, born, heard, chords, failures>>

DeleteRecovery(j) ==
  /\ Unlocked
  /\ DeleteAllowed(jobs[j])
  /\ Command([AtRest("delete_move") EXCEPT !.victim = j, !.goal = "user"])
  /\ UNCHANGED <<failures, allButFrame>>

--------------------------------------------------------------------------------
(* Steps both threads run: `apply_retention` and `delete_recovery` *)

(* Where an ended retention pass leads, after its last item or an error. *)
AfterRetention(c) == IF c = "daemon" THEN "cleanup_audio" ELSE "off"

(* Where a delete leads: retention goes on with its next item, and gives up
   when the database failed. *)
InRetention(c) == frame[c].goal = "retention"
AfterDelete(c) == IF InRetention(c) THEN "expire_next" ELSE "settle"
AfterFailedDelete(c) == IF InRetention(c) THEN AfterRetention(c) ELSE "settle"

ExpireList(c) ==
  /\ At(c, "expire_list")
  /\ \/ /\ Turn(c, [frame[c] EXCEPT
             !.at = "expire_next", !.goal = "retention",
             !.todo = {j \in Jobs : Expirable(jobs[j]) /\ jobs[j].expired}])
        /\ UNCHANGED failures
     \/ Fault("read") /\ Go(c, AfterRetention(c))
  /\ UNCHANGED allButFrame

(* An id from the list: with recordings kept its row goes whatever became of it
   meanwhile; otherwise it is deleted as the user's Delete would, which refuses
   a job that left Recovery. *)
ExpireNext(c) ==
  /\ At(c, "expire_next")
  /\ \/ frame[c].todo = {} /\ Go(c, AfterRetention(c))
     \/ \E j \in frame[c].todo :
          Turn(c, [frame[c] EXCEPT
            !.at = IF Keeps(c) THEN "expire_row"
                   ELSE IF DeleteAllowed(jobs[j]) THEN "delete_move"
                   ELSE "expire_next",
            !.todo = @ \ {j}, !.victim = j])
  /\ UNCHANGED <<failures, allButFrame>>

ExpireRow(c) ==
  /\ At(c, "expire_row")
  /\ Statement(c, Victim(c), NoRow, "expire_next", AfterRetention(c))
  /\ UNCHANGED allButRow

(* The recording moves to quarantine; one that is there already counts too. *)
DeleteMove(c) ==
  LET j == Victim(c) IN
  /\ At(c, "delete_move")
  /\ \/ /\ audio' = IF audio[j] = "present" THEN [audio EXCEPT ![j] = "quarantined"] ELSE audio
        /\ Turn(c, [frame[c] EXCEPT !.at = "delete_row", !.moved = audio[j] # "missing"])
        /\ UNCHANGED failures
     \/ Fault("disk") /\ Go(c, AfterDelete(c)) /\ UNCHANGED audio
  /\ UNCHANGED allButAudio

DeleteRow(c) ==
  /\ At(c, "delete_row")
  /\ Statement(c, Victim(c), NoRow,
               IF frame[c].moved THEN "delete_unlink" ELSE AfterDelete(c),
               IF frame[c].moved THEN "delete_restore" ELSE AfterFailedDelete(c))
  /\ UNCHANGED allButRow

(* The row could not be deleted, so its recording goes back.  A rename that
   fails is an I/O error, after which retention takes its next item. *)
DeleteRestore(c) ==
  LET j == Victim(c) IN
  /\ At(c, "delete_restore")
  /\ \/ /\ audio' = IF audio[j] = "quarantined" THEN [audio EXCEPT ![j] = "present"] ELSE audio
        /\ Go(c, AfterFailedDelete(c))
        /\ UNCHANGED failures
     \/ Fault("disk") /\ Go(c, AfterDelete(c)) /\ UNCHANGED audio
  /\ UNCHANGED allButAudio

(* A quarantined recording that cannot be removed waits for the next start. *)
DeleteUnlink(c) ==
  LET j == Victim(c) IN
  /\ At(c, "delete_unlink")
  /\ \/ /\ audio' = IF audio[j] = "quarantined" THEN [audio EXCEPT ![j] = "missing"] ELSE audio
        /\ UNCHANGED failures
     \/ Fault("disk") /\ UNCHANGED audio
  /\ Go(c, AfterDelete(c))
  /\ UNCHANGED allButAudio

--------------------------------------------------------------------------------
(* The maintenance thread: once per start, with the settings of that moment *)

StartMaintenance ==
  /\ Unlocked
  /\ At("maintenance", "due")
  /\ Turn("maintenance", [AtRest("list_finished") EXCEPT !.keeps = keepAudio])
  /\ UNCHANGED <<failures, allButFrame>>

ListFinished ==
  /\ At("maintenance", "list_finished")
  /\ \/ /\ Turn("maintenance", [frame["maintenance"] EXCEPT
             !.at = "next_finished", !.todo = {j \in Jobs : Finished(jobs[j])}])
        /\ UNCHANGED failures
     \/ Fault("read") /\ Go("maintenance", "off")
  /\ UNCHANGED allButFrame

Take(label, j) ==
  Turn("maintenance", [frame["maintenance"] EXCEPT
                         !.at = label, !.victim = j, !.todo = @ \ {j}])

(* Each finished job loses its recording first, unless recordings are kept; a
   job the user deleted always does.  One whose recording cannot be removed
   keeps its row.  A listed row only ever disappears, completed by the daemon,
   so a row that is gone was listed as delivered. *)
NextFinished ==
  /\ At("maintenance", "next_finished")
  /\ \/ /\ frame["maintenance"].todo = {}
        /\ Go("maintenance", IF Keeps("maintenance") THEN "expire_list" ELSE "list_orphans")
        /\ UNCHANGED <<audio, failures>>
     \/ \E j \in frame["maintenance"].todo :
          LET removed == jobs[j].stage = "deleted" \/ ~Keeps("maintenance")
          IN \/ /\ Take("finish_row", j)
                /\ audio' = IF removed /\ audio[j] = "present"
                            THEN [audio EXCEPT ![j] = "missing"] ELSE audio
                /\ UNCHANGED failures
             \/ removed /\ Fault("disk") /\ Take("next_finished", j) /\ UNCHANGED audio
  /\ UNCHANGED allButAudio

FinishRow ==
  LET j == Victim("maintenance") IN
  /\ At("maintenance", "finish_row")
  /\ IF jobs[j].stage \in {"no_speech", "deleted"}
     THEN /\ Statement("maintenance", j, NoRow, "next_finished", "off")
          /\ UNCHANGED recorded
     ELSE CompleteDelivered("maintenance", j, "next_finished", "off")
  /\ UNCHANGED <<audio, keepAudio, recorder, activity, tickets, born, heard, chords>>

Orphans == {j \in Jobs : ~IsRow(jobs[j]) /\ audio[j] = "present"}

(* Recordings no row owns, as of one query; which of them are older than an
   hour at that moment is left open. *)
ListOrphans ==
  /\ At("maintenance", "list_orphans")
  /\ \/ /\ \E old \in SUBSET Orphans :
             Turn("maintenance", [frame["maintenance"] EXCEPT
               !.at = "remove_orphans", !.todo = old])
        /\ UNCHANGED failures
     \/ Fault("read") /\ Go("maintenance", "off")
  /\ UNCHANGED allButFrame

RemoveOrphan ==
  /\ At("maintenance", "remove_orphans")
  /\ \/ /\ frame["maintenance"].todo = {}
        /\ Go("maintenance", "expire_list")
        /\ UNCHANGED <<audio, failures>>
     \/ \E j \in frame["maintenance"].todo :
          /\ Turn("maintenance", [frame["maintenance"] EXCEPT !.todo = @ \ {j}])
          /\ \/ /\ audio' = IF audio[j] = "present"
                            THEN [audio EXCEPT ![j] = "missing"] ELSE audio
                /\ UNCHANGED failures
             \/ Fault("disk") /\ UNCHANGED audio
  /\ UNCHANGED allButAudio

--------------------------------------------------------------------------------
StartSteps ==
  \/ Boot \/ OpenAmbiguous \/ OpenInterrupted \/ Serve
  \/ \E j \in Jobs : ReconcileRecoveryDeletion(j)

EndSteps == Crash \/ PanicExit \/ Quit

RecordingSteps ==
  \/ \E j \in Jobs : StartRecording(j)
  \/ RecorderStart \/ CheckpointRecording \/ AbortStart \/ InterruptStart
  \/ \E goal \in {"stop", "discard", "preserve"} : FinishRecording(goal)
  \/ RecorderFinish \/ CaptureRecording \/ InterruptRecording
  \/ InterruptCaptured \/ BeginTranscription \/ DiscardRecording

ResultSteps ==
  \/ \E j \in Jobs : TranscriptionDone(j)
  \/ StoreRawText \/ StoreReadyText \/ StoreSilent \/ StoreFailed \/ FailStep
  \/ ReadReady

DeliverySteps ==
  \/ Gate \/ GateRefused \/ Attempt \/ Deliver
  \/ RecordSubmitted \/ RecordAmbiguous \/ RecordNotSent \/ ReadResult
  \/ Complete \/ CleanupAudio \/ Settle

RecoverySteps ==
  \/ \E j \in Jobs : RetryTranscriptionOf(j) \/ PasteAgain(j) \/ DeleteRecovery(j)
  \/ RetryUpdate \/ RetryRead \/ AgainUpdate \/ AgainRead \/ CancelProcessing

RetentionSteps(c) ==
  \/ ExpireList(c) \/ ExpireNext(c) \/ ExpireRow(c)
  \/ DeleteMove(c) \/ DeleteRow(c) \/ DeleteRestore(c) \/ DeleteUnlink(c)

MaintenanceSteps ==
  \/ StartMaintenance \/ ListFinished \/ NextFinished \/ FinishRow
  \/ ListOrphans \/ RemoveOrphan

Next ==
  \/ StartSteps \/ EndSteps \/ RecordingSteps \/ ResultSteps \/ DeliverySteps
  \/ RecoverySteps \/ MaintenanceSteps
  \/ \E c \in Threads : RetentionSteps(c)
  \/ ToggleKeepAudio
  \/ \E j \in Jobs : Outlive(j)

Spec == Init /\ [][Next]_vars

--------------------------------------------------------------------------------
(* Safety *)

(* A dictation is pasted by the daemon at most once, whatever crashes, failed
   writes, late results and retries lie between: `attempting` is checkpointed
   before the one chord, reconciles to ambiguous, and "Paste again" copies. *)
AtMostOneAutomaticPaste == \A j \in Jobs : chords[j] <= 1

(* A dictation whose text may already be in an application never goes back to
   transcription, where a new result could be pasted beside it: it stays a row
   with its text, ready to be copied, ambiguous, or delivered. *)
PastedIsNotTranscribedAgain ==
  \A j \in Jobs : chords[j] > 0 /\ IsRow(jobs[j]) =>
    jobs[j].text /\ jobs[j].stage # "transcribing" /\ ~RetryAllowed(jobs[j])

(* Deleting, cleaning up and retention never destroy the only copy of speech
   that Recovery still offers: an item with no transcript, whose recorder ever
   delivered sound, has its recording, in place or in quarantine, from where
   the next start brings it back. *)
AudioBehindRecovery ==
  \A j \in heard : InRecovery(jobs[j]) /\ ~jobs[j].raw => audio[j] # "missing"

(* With the lock free, the microphone is on exactly while the daemon knows it
   is recording, and that recording has its row and its file. *)
RecorderMatchesActivity ==
  Unlocked =>
    /\ recorder = IF activity.kind = "recording" THEN activity.job ELSE NoJob
    /\ activity.kind = "recording" =>
         jobs[activity.job].stage = "recording" /\ audio[activity.job] = "present"

(* With the lock free, no row is left in flight without somebody who will move
   it on: a recording is the daemon's, and a transcribing row has exactly one
   ticket out.  A row without one would be in no list of the user's until the
   next start. *)
InFlightIsOwned ==
  Unlocked => \A j \in Jobs : InFlight(jobs[j]) =>
    \/ jobs[j].stage = "recording" /\ activity.kind = "recording" /\ activity.job = j
    \/ jobs[j].stage = "transcribing" /\ tickets[j] = 1

(* No dictation is ever being transcribed, and paid for, twice at once, however
   cancelling, retrying and late results interleave. *)
OneTicketPerJob == \A j \in Jobs : tickets[j] <= 1

(* The daemon waits only for a result that is still to come. *)
ProcessingHasTicket ==
  Unlocked /\ activity.kind = "processing" => tickets[activity.job] = 1

(* Both: each dictation is transcribed, and paid for, once at a time, and the daemon
   waits only for what is still to come. *)
TicketsAreAwaited == OneTicketPerJob /\ ProcessingHasTicket

(* The microphone and every row in flight have somebody who will move them on:
   RecorderMatchesActivity and InFlightIsOwned. *)
WorkIsOwned == TypeOK /\ RecorderMatchesActivity /\ InFlightIsOwned

(* No row the daemon reads back after writing it has vanished meanwhile. *)
NeverPanics == ~At("daemon", "panicked")

--------------------------------------------------------------------------------
(* What a step may never do *)

(* Only the dictation the daemon is processing is pasted: never one whose wait
   the user cancelled, nor one asked for from the window or a notification. *)
OnlyCurrentIsPasted ==
  [][\A j \in Jobs : chords'[j] > chords[j] =>
       activity.kind = "processing" /\ activity.job = j /\ activity.pastes]_vars

(* A delivered row leaves the table only with its dictation counted, and it is
   counted once, whichever of the daemon and the maintenance thread gets there
   first, and again after a crash between the two.  The exception is a row that
   retention listed before it was retried; see ExpiresAfterLastChange. *)
BeingDeleted(j) ==
  \E c \in Threads : Victim(c) = j /\ frame[c].at \in {"delete_row", "expire_row"}

DeliveredIsRecordedOnce ==
  [][\A j \in Jobs :
       /\ recorded[j] <= recorded'[j] /\ recorded'[j] <= 1
       /\ jobs[j].stage = "delivered" /\ ~IsRow(jobs'[j]) =>
            recorded'[j] = 1 \/ BeingDeleted(j)]_vars

(* Text that was paid for stays with its row until the dictation is recorded or
   the row is deleted, by the user or by retention. *)
PaidTextIsKept ==
  [][\A j \in Jobs : jobs[j].raw /\ ~jobs'[j].raw =>
       recorded'[j] = 1 \/ BeingDeleted(j)]_vars

(* Retention deletes a Recovery item only once it has gone unchanged for its
   whole lifetime. *)
ExpiresAfterLastChange ==
  [][\A j \in Jobs : \A c \in Threads :
       (/\ frame[c].goal = "retention" /\ Victim(c) = j
        /\ frame[c].at \in {"delete_row", "expire_row"}
        /\ IsRow(jobs[j]) /\ ~IsRow(jobs'[j])) => jobs[j].expired]_vars

--------------------------------------------------------------------------------
(* Liveness *)

(* The threads take their next step; a transcription ends (its requests have
   deadlines) and its result gets the lock although other commands keep coming;
   a daemon that ended is started again. Users promise nothing. *)
DaemonStep ==
  \/ StartSteps \/ PanicExit
  \/ RecorderStart \/ CheckpointRecording \/ AbortStart \/ InterruptStart
  \/ RecorderFinish \/ CaptureRecording \/ InterruptRecording
  \/ InterruptCaptured \/ BeginTranscription \/ DiscardRecording
  \/ StoreRawText \/ StoreReadyText \/ StoreSilent \/ StoreFailed \/ FailStep
  \/ ReadReady \/ DeliverySteps
  \/ RetryUpdate \/ RetryRead \/ AgainUpdate \/ AgainRead
  \/ RetentionSteps("daemon")

Fairness ==
  /\ WF_vars(DaemonStep)
  /\ \A j \in Jobs : SF_vars(TranscriptionDone(j))

FairSpec == Spec /\ Fairness

(* A transcribing row leaves that stage, and an attempted delivery gets its
   outcome, through one failed step or crash and through any number of restarts:
   by the result, by recording the failure, or by the next start. *)
NothingStaysInFlight ==
  \A j \in Jobs :
    /\ jobs[j].stage = "transcribing" ~> jobs[j].stage # "transcribing"
    /\ jobs[j].delivery = "attempting" ~> jobs[j].delivery # "attempting"

================================================================================
