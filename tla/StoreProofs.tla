------------------------------ MODULE StoreProofs ------------------------------
(* What holds of Store for any number of dictations, any legacy database and
   any number of failures and crashes: that each step keeps the types, pastes
   each dictation at most once, records it at most once, and keeps paid text.

   The invariants the runs check are not inductive.  `Inductive` says in
   addition what each label of the daemon knows of its job's row, so that a
   chord is sent only for a row that has never been pasted.  It never claims
   that the row is there: the maintenance thread may delete it at any moment,
   and that is the only thing the maintenance thread does to a row.

   The second part is about who answers for what: tickets, recordings, the recorder.
   None of its properties is inductive.  A transcription is paid for once because a command
   never runs about a row that is being transcribed (TicketIsOwed), which rests on what a
   command knows of its row from one statement to the next (CommandKnows).  A recording is there because whoever
   removes one goes by a list of rows, taken some steps before, whose rows have at most
   disappeared since (ListsAreOld), and in which what the daemon records or is about to paste
   never is (BoundIsSafe).  Lived is their conjunction; the lemmas follow its conjuncts.

   The microphone runs for what the daemon records because at every label of a start or an
   end between the two it is known which of them is ahead (RecorderIsKnown,
   RecordingIsThere).  A row in flight has the daemon's recording, its transcription, or the
   command on its way to move it (FlightsAreOwned): while no step failed, a command reaches
   the label that takes its row out of flight; the failure takes another way there; only a
   second one leaves the row to the next start.

   Store implements Dictation, the abstract life of a dictation, under the mapping of
   StoreRefinement: the initial states map to initial states, and each step to a step or
   to none.  The step lemmas are stated over what a statement does to the life of its row. *)
EXTENDS Store, StoreRefinement, TLAPS

(* The daemon's label, and the labels of a command that has a job. *)
Label == frame["daemon"].at

StartLabels == {"recorder_start", "checkpoint", "abort_start", "interrupt_start"}
EndLabels == {"finish", "capture", "interrupt_recording", "begin", "discard",
              "interrupt_captured"}
StoreLabels == {"store_raw", "store_ready", "store_silent", "store_failed"}
ReadyLabels == {"read_ready", "gate", "gate_blocked", "attempt", "deliver",
                "record_submitted", "record_ambiguous", "record_not_sent"}
RetryLabels == {"retry_update", "retry_read"}
AgainLabels == {"again_update", "again_read"}
OtherLabels == {"fail_job", "read_result", "complete", "cleanup_audio", "expire_list"}
JobLabels == StartLabels \cup EndLabels \cup StoreLabels \cup ReadyLabels
             \cup RetryLabels \cup AgainLabels \cup OtherLabels

(* No row, or one that has all of its columns at their defaults where the
   statements that write them have not run. *)
RowsAreWhole ==
  \A j \in Jobs :
    /\ ~IsRow(jobs[j]) => jobs[j] = NoRow
    /\ jobs[j].stage \in {"no_speech", "deleted"} => ~jobs[j].raw

(* Nothing is known of a job before its row is inserted. *)
UnbornIsBlank ==
  \A j \in Jobs \ born : jobs[j] = NoRow /\ tickets[j] = 0 /\ chords[j] = 0

(* The daemon applies retention: the delivery it ended waits for its cleanup. *)
Retains ==
  \/ Label \in {"expire_next", "expire_row"}
  \/ Label \in SharedLabels /\ InRetention("daemon")

(* A command that needs a job has one, and so has an activity. *)
CommandHasJob ==
  /\ Label \in JobLabels \/ Retains => Job("daemon") \in born
  /\ activity.kind # "idle" => activity.job \in born
  /\ Label \in {"down", "open_ambiguous", "open_interrupted", "open_deletions"} =>
       activity = NoActivity

(* Until the chord of a result that is to be pasted, its job has had none. *)
FreshLabels == StartLabels \cup EndLabels \cup StoreLabels \cup RetryLabels

NotYetPasted ==
  /\ Label \in FreshLabels =>
       chords[Job("daemon")] = 0
  /\ activity.kind = "recording" => chords[activity.job] = 0

(* What is to be pasted is what the daemon processes. *)
PasteLabels == StoreLabels \cup {"again_update", "again_read", "read_ready", "gate",
                                "gate_blocked", "attempt", "deliver"}

PastesTheCurrent ==
  /\ frame["daemon"].pastes
  /\ Label \in PasteLabels
  => /\ activity.kind = "processing"
     /\ activity.job = Job("daemon")
     /\ activity.pastes
     /\ chords[Job("daemon")] = 0

(* What a command at a label knows of its job's row while the row is there. *)
Knows(label, row) ==
  /\ label \in StartLabels =>
       row.stage = "starting" /\ row.delivery = "not_attempted" /\ ~row.raw
  /\ label \in {"finish", "capture"} => row.stage = "recording" /\ ~row.raw
  /\ label = "discard" => row.stage = "captured" /\ ~row.raw
  /\ label \in StoreLabels => row.stage = "transcribing"
  /\ label = "store_silent" => ~row.raw
  /\ label \in ReadyLabels \cup {"again_read"} =>
       row.stage = "ready_to_deliver" /\ row.text
  /\ label = "again_update" => PasteAgainAllowed(row)
  /\ label = "retry_update" => RetryAllowed(row)

RowOfCommand == Label \in JobLabels /\ IsRow(Row) => Knows(Label, Row)

(* The row of the recording, until the command that ends it. *)
RecordingRow(row) ==
  row.stage = "recording" /\ row.delivery = "not_attempted" /\ ~row.raw

ActiveRecording(j) ==
  activity.kind = "recording" /\ activity.job = j /\ ~frame["daemon"].settles

RowOfRecording ==
  /\ \A j \in Jobs : ActiveRecording(j) /\ IsRow(jobs[j]) => RecordingRow(jobs[j])
  /\ Label \in EndLabels => frame["daemon"].settles
  /\ Label = "idle" => ~frame["daemon"].settles

(* A pasted row is never in flight, nor may it be transcribed again. *)
SettledRow(row) == row.text /\ ~InFlight(row) /\ ~RetryAllowed(row)

PastedIsSettled ==
  \A j \in Jobs : chords[j] > 0 /\ IsRow(jobs[j]) => SettledRow(jobs[j])

RecordedOnce == \A j \in Jobs : recorded[j] <= 1

Inductive ==
  /\ TypeOK
  /\ RowsAreWhole
  /\ UnbornIsBlank
  /\ CommandHasJob
  /\ NotYetPasted
  /\ PastesTheCurrent
  /\ RowOfCommand
  /\ RowOfRecording
  /\ PastedIsSettled
  /\ AtMostOneAutomaticPaste
  /\ RecordedOnce

--------------------------------------------------------------------------------
(* Rows *)

LEMMA NoRowType == NoRow \in Rows
  BY DEF NoRow, Rows, Stages, Deliveries

(* Every statement writes a row of the table's type. *)
LEMMA StatementTypes ==
  ASSUME NEW row \in Rows
  PROVE  /\ NoRow \in Rows /\ InsertStarting \in Rows
         /\ \A stage \in Stages : UpdateStage(row, stage) \in Rows
         /\ \A long \in BOOLEAN : Captured(row, long) \in Rows
         /\ RetryTranscription(row) \in Rows
         /\ StoreRaw(row) \in Rows
         /\ StoreReady(row) \in Rows
         /\ RetryDelivery(row) \in Rows
         /\ GateBlocked(row) \in Rows
         /\ Attempting(row) \in Rows
         /\ Submitted(row) \in Rows
         /\ Ambiguous(row) \in Rows
         /\ NotSent(row) \in Rows
         /\ FailJob(row) \in Rows
         /\ ReconcileAmbiguous(row) \in Rows
         /\ ReconcileInterrupted(row) \in Rows
<1> USE DEF Rows, Stages, Deliveries, Updated, IsRow
<1>1. NoRow \in Rows /\ InsertStarting \in Rows
  BY DEF NoRow, InsertStarting
<1>2. \A stage \in Stages : UpdateStage(row, stage) \in Rows
  BY DEF UpdateStage
<1>3. \A long \in BOOLEAN : Captured(row, long) \in Rows
  BY DEF Captured
<1>4. RetryTranscription(row) \in Rows /\ StoreRaw(row) \in Rows
  BY DEF RetryTranscription, StoreRaw
<1>5. StoreReady(row) \in Rows /\ RetryDelivery(row) \in Rows
  BY DEF StoreReady, RetryDelivery
<1>6. GateBlocked(row) \in Rows /\ Attempting(row) \in Rows
  BY DEF GateBlocked, Attempting
<1>7. Submitted(row) \in Rows /\ Ambiguous(row) \in Rows /\ NotSent(row) \in Rows
  BY DEF Submitted, Ambiguous, NotSent
<1>8. FailJob(row) \in Rows
  BY ZenonT(40) DEF FailJob
<1>9. ReconcileAmbiguous(row) \in Rows
  BY <1>7 DEF ReconcileAmbiguous
<1>10. ReconcileInterrupted(row) \in Rows
  BY <1>2 DEF ReconcileInterrupted, InFlight
<1>11. QED
  BY <1>1, <1>2, <1>3, <1>4, <1>5, <1>6, <1>7, <1>8, <1>9, <1>10

--------------------------------------------------------------------------------
(* Types *)

(* A thread that moves on, or comes to rest, stands at a label. *)
LEMMA TurnTypes ==
  ASSUME frame \in [Threads -> Frames]
  PROVE  /\ \A c \in Threads, new \in Frames :
              Turn(c, new) => frame' \in [Threads -> Frames]
         /\ \A new \in Frames : Command(new) => frame' \in [Threads -> Frames]
<1>1. \A c \in Threads, new \in Frames :
        Turn(c, new) => frame' \in [Threads -> Frames]
  BY DEF Turn
<1>2. QED
  BY <1>1 DEF Command, Threads

LEMMA RestTypes ==
  ASSUME NEW label \in Labels, NEW j \in Jobs
  PROVE  /\ AtRest(label) \in Frames
         /\ [AtRest(label) EXCEPT !.job = j] \in Frames
         /\ \A settles \in BOOLEAN, pastes \in BOOLEAN :
              [AtRest(label) EXCEPT !.job = j, !.settles = settles, !.pastes = pastes] \in Frames
         /\ [AtRest(label) EXCEPT !.victim = j, !.goal = "user"] \in Frames
         /\ \A keeps \in BOOLEAN : [AtRest(label) EXCEPT !.keeps = keeps] \in Frames
  BY DEF AtRest, Frames

LEMMA EditTypes ==
  ASSUME frame \in [Threads -> Frames], NEW c \in Threads, NEW label \in Labels
  PROVE  /\ [frame[c] EXCEPT !.at = label] \in Frames
         /\ \A j \in Jobs \cup {NoJob} :
              [frame[c] EXCEPT !.at = label, !.victim = j] \in Frames
         /\ \A flag \in BOOLEAN :
              /\ [frame[c] EXCEPT !.at = label, !.pastes = flag] \in Frames
              /\ [frame[c] EXCEPT !.at = label, !.moved = flag] \in Frames
         /\ \A todo \in SUBSET Jobs :
              /\ [frame[c] EXCEPT !.at = label, !.todo = todo] \in Frames
              /\ [frame[c] EXCEPT !.at = label, !.goal = "retention", !.todo = todo] \in Frames
         /\ \A j \in Jobs :
              /\ [frame[c] EXCEPT !.todo = @ \ {j}] \in Frames
              /\ [frame[c] EXCEPT !.at = label, !.todo = @ \ {j}, !.victim = j] \in Frames
              /\ [frame[c] EXCEPT !.at = label, !.victim = j, !.todo = @ \ {j}] \in Frames
  BY ZenonT(40) DEF Frames

LEMMA FrameTypes ==
  ASSUME frame \in [Threads -> Frames]
  PROVE  /\ \A label \in Labels : AtRest(label) \in Frames
         /\ \A c \in Threads, label \in Labels :
              Go(c, label) => frame' \in [Threads -> Frames]
<1>1. \A label \in Labels : AtRest(label) \in Frames
  BY DEF AtRest, Frames
<1>2. AtRest("off") \in Frames
  BY <1>1 DEF Labels, MaintenanceLabels
<1>3. QED
  BY <1>1, <1>2, TurnTypes, EditTypes DEF Go

(* A count goes up by one, or down from above zero. *)
LEMMA CountTypes ==
  ASSUME NEW count \in [Jobs -> Nat], NEW j
  PROVE  /\ [count EXCEPT ![j] = @ + 1] \in [Jobs -> Nat]
         /\ count[j] > 0 => [count EXCEPT ![j] = @ - 1] \in [Jobs -> Nat]
<1> DEFINE new(n) == [count EXCEPT ![j] = n]
<1>1. \A n \in Nat : new(n) \in [Jobs -> Nat]
  OBVIOUS
<1>2. j \notin Jobs => \A n : new(n) = count
  OBVIOUS
<1>3. j \in Jobs => count[j] \in Nat
  OBVIOUS
<1>4. j \in Jobs => count[j] + 1 \in Nat /\ (count[j] > 0 => count[j] - 1 \in Nat)
  BY <1>3
<1> HIDE DEF new
<1>5. new(count[j] + 1) \in [Jobs -> Nat] /\ (count[j] > 0 => new(count[j] - 1) \in [Jobs -> Nat])
  BY <1>1, <1>2, <1>4
<1>6. QED
  BY <1>5 DEF new

(* A statement on a job's row, whatever it leads to. *)
LEMMA StatementType ==
  ASSUME TypeOK, NEW c \in Threads, NEW j \in Jobs \cup {NoJob}, NEW row,
         j \in Jobs => row \in Rows,
         NEW next \in Labels, NEW onFault \in Labels,
         Statement(c, j, row, next, onFault)
  PROVE  /\ jobs' \in [Jobs -> Rows]
         /\ frame' \in [Threads -> Frames]
         /\ failures' \in Nat
<1>1. jobs' \in [Jobs -> Rows]
  BY DEF Statement, Put, TypeOK
<1>2. frame' \in [Threads -> Frames]
  BY FrameTypes DEF Statement, TypeOK
<1>3. failures' \in Nat
  BY DEF Statement, Fault, TypeOK
<1>4. QED
  BY <1>1, <1>2, <1>3

LEMMA RowStepType ==
  ASSUME TypeOK, NEW here, NEW row, Job("daemon") \in Jobs => row \in Rows,
         NEW next \in Labels, NEW onFault \in Labels,
         RowStep(here, row, next, onFault)
  PROVE  TypeOK'
<1>1. Job("daemon") \in Jobs \cup {NoJob}
  BY DEF TypeOK, Frames, Job, Threads
<1>2. QED
  BY <1>1, StatementType DEF RowStep, TypeOK, allButRow, Threads

(* Every step keeps the types. *)
LEMMA TypeStep ==
  ASSUME TypeOK, CommandHasJob, [Next]_vars
  PROVE  TypeOK'
<1> USE DEF TypeOK, Threads, stored, allButFrame, allButRow, allButAudio
<1>jobs. /\ Job("daemon") \in Jobs \cup {NoJob}
        /\ \A c \in Threads : Victim(c) \in Jobs \cup {NoJob}
  BY DEF Frames, Job, Victim
<1>row. Job("daemon") \in Jobs => Row \in Rows
  BY DEF Row
<1>1. CASE Boot
  BY <1>1, FrameTypes DEF Boot, Labels, DaemonLabels
<1>2. CASE OpenAmbiguous
  BY <1>2, FrameTypes, StatementTypes, NoRowType DEF OpenAmbiguous, Labels,
     DaemonLabels
<1>3. CASE OpenInterrupted
  BY <1>3, FrameTypes, StatementTypes, NoRowType DEF OpenInterrupted, Labels,
     DaemonLabels
<1>4. ASSUME NEW j \in Jobs, ReconcileRecoveryDeletion(j) PROVE TypeOK'
  BY <1>4, FrameTypes DEF ReconcileRecoveryDeletion, Fault, Audio, Labels,
     DaemonLabels
<1>5. CASE Serve
  <2>1. AtRest("idle") \in Frames /\ AtRest("due") \in Frames
    BY FrameTypes DEF Labels, DaemonLabels, MaintenanceLabels, SharedLabels
  <2>2. QED
    BY <1>5, <2>1 DEF Serve
<1>6. ASSUME ProcessEnds PROVE TypeOK'  \/ failures' \notin Nat
  <2>1. frame' \in [Threads -> Frames]
    BY <1>6, FrameTypes DEF ProcessEnds, Labels, DaemonLabels,
       MaintenanceLabels, SharedLabels
  <2>2. activity' \in Activities
    BY <1>6 DEF ProcessEnds, NoActivity, Activities
  <2>3. QED
    BY <1>6, <2>1, <2>2 DEF ProcessEnds
<1>7. CASE Crash
  BY <1>7, <1>6 DEF Crash, Fault
<1>8. CASE PanicExit
  BY <1>8, <1>6 DEF PanicExit
<1>9. CASE Quit
  BY <1>9, <1>6 DEF Quit
<1>10. CASE ToggleKeepAudio
  BY <1>10 DEF ToggleKeepAudio
<1>11. ASSUME NEW j \in Jobs, Outlive(j) PROVE TypeOK'
  BY <1>11, ZenonT(40) DEF Outlive, Put, Rows
<1>12. CASE Settle
  <2>1. frame' \in [Threads -> Frames]
    BY <1>12, FrameTypes, TurnTypes DEF Settle, Labels, DaemonLabels
  <2>2. activity' \in Activities
    BY <1>12 DEF Settle, NoActivity, Activities
  <2>3. QED
    BY <1>12, <2>1, <2>2 DEF Settle
<1>13. ASSUME NEW j \in Jobs, StartRecording(j) PROVE TypeOK'
  <2>1. frame' \in [Threads -> Frames]
    BY <1>13, RestTypes, TurnTypes DEF StartRecording, Labels, DaemonLabels
  <2>2. jobs' \in [Jobs -> Rows]
    BY <1>13, StatementTypes, NoRowType DEF StartRecording, Put
  <2>3. QED
    BY <1>13, <2>1, <2>2 DEF StartRecording, Fault
<1>14. CASE RecorderStart
  <2>1. Job("daemon") \in Jobs
    BY <1>14 DEF RecorderStart, CommandHasJob, At, Label, JobLabels,
       StartLabels
  <2>2. frame' \in [Threads -> Frames]
    BY <1>14, FrameTypes DEF RecorderStart, Labels, DaemonLabels
  <2>3. QED
    BY <1>14, <2>1, <2>2 DEF RecorderStart, Fault, Audio
<1>15. CASE CheckpointRecording
  <2>1. jobs' \in [Jobs -> Rows]
    BY <1>15, <1>row, StatementTypes, NoRowType DEF CheckpointRecording, Put,
       UnreadStatement, Row, Stages
  <2>2. frame' \in [Threads -> Frames]
    BY <1>15, TurnTypes, FrameTypes DEF CheckpointRecording, UnreadStatement,
       Labels, DaemonLabels
  <2>3. [kind |-> "recording", job |-> Job("daemon"), pastes |-> FALSE] \in Activities
    BY <1>jobs DEF Activities
  <2>4. activity' \in {activity, [kind |-> "recording", job |-> Job("daemon"), pastes |-> FALSE]}
    BY <1>15 DEF CheckpointRecording, UnreadStatement
  <2>5. failures' \in Nat
    BY <1>15 DEF CheckpointRecording, UnreadStatement, Fault
  <2>6. QED
    BY <1>15, <2>1, <2>2, <2>3, <2>4, <2>5 DEF CheckpointRecording
<1>16. CASE AbortStart
  BY <1>16, FrameTypes DEF AbortStart, Labels, DaemonLabels
<1>17. CASE InterruptStart
  BY <1>17, <1>row, RowStepType, StatementTypes, NoRowType DEF InterruptStart,
     Stages, Labels, DaemonLabels
<1>18. ASSUME NEW goal \in {"stop", "discard", "preserve"}, FinishRecording(goal) PROVE TypeOK'
  <2>1. [AtRest("finish") EXCEPT !.job = activity.job, !.goal = goal, !.settles = TRUE] \in Frames
    BY  DEF AtRest, Frames, Activities, Labels, DaemonLabels
  <2>2. frame' \in [Threads -> Frames]
    BY <1>18, <2>1, TurnTypes DEF FinishRecording
  <2>3. QED
    BY <1>18, <2>2 DEF FinishRecording
<1>19. CASE RecorderFinish
  BY <1>19, FrameTypes DEF RecorderFinish, Fault, Labels, DaemonLabels
<1>20. CASE CaptureRecording
  <2>1. PICK long \in BOOLEAN, next \in {"begin", "discard", "interrupt_captured"} :
          \/ Statement("daemon", Job("daemon"), Captured(Row, long), next, "interrupt_recording")
          \/ UnreadStatement("daemon", Captured(Row, long), "settle")
    BY <1>20 DEF CaptureRecording
  <2>2. Job("daemon") \in Jobs => Captured(Row, long) \in Rows
    BY <1>row, StatementTypes, NoRowType
  <2>3. jobs' \in [Jobs -> Rows] /\ failures' \in Nat
    BY <1>jobs, <2>1, <2>2 DEF Statement, UnreadStatement, Put, Fault
  <2>4. frame' \in [Threads -> Frames]
    BY <2>1, FrameTypes DEF Statement, UnreadStatement, Labels, DaemonLabels
  <2>5. QED
    BY <1>20, <2>3, <2>4 DEF CaptureRecording
<1>21. CASE InterruptRecording
  BY <1>21, <1>row, RowStepType, StatementTypes, NoRowType DEF
     InterruptRecording, Stages, Labels, DaemonLabels
<1>22. CASE InterruptCaptured
  BY <1>22, <1>row, RowStepType, StatementTypes, NoRowType DEF
     InterruptCaptured, Stages, Labels, DaemonLabels
<1>23. CASE BeginTranscription
  <2>1. jobs' \in [Jobs -> Rows]
    BY <1>23, <1>row, StatementTypes, NoRowType DEF BeginTranscription, Put,
       UnreadStatement, Row, Stages
  <2>2. frame' \in [Threads -> Frames]
    BY <1>23, TurnTypes, FrameTypes DEF BeginTranscription, UnreadStatement,
       Labels, DaemonLabels
  <2>3. [kind |-> "processing", job |-> Job("daemon"), pastes |-> TRUE] \in Activities
    BY <1>jobs DEF Activities
  <2>4. activity' \in {activity, [kind |-> "processing", job |-> Job("daemon"), pastes |-> TRUE]}
    BY <1>23 DEF BeginTranscription, UnreadStatement
  <2>5. tickets' \in [Jobs -> Nat] /\ failures' \in Nat
    BY <1>23, CountTypes DEF BeginTranscription, UnreadStatement, Fault
  <2>6. QED
    BY <1>23, <2>1, <2>2, <2>3, <2>4, <2>5 DEF BeginTranscription
<1>24. CASE DiscardRecording
  <2>1. jobs' \in [Jobs -> Rows] /\ failures' \in Nat
    BY <1>24, <1>jobs, <1>row, StatementTypes, NoRowType DEF DiscardRecording,
       Statement, Put, Fault, Stages
  <2>2. frame' \in [Threads -> Frames]
    BY <1>24, <1>jobs, TurnTypes, EditTypes, FrameTypes DEF DiscardRecording,
       Statement, Labels, DaemonLabels, MaintenanceLabels, SharedLabels
  <2>3. QED
    BY <1>24, <2>1, <2>2 DEF DiscardRecording
<1>25. ASSUME NEW j \in Jobs, TranscriptionDone(j) PROVE TypeOK'
  <2>1. IsCurrent(j) \in BOOLEAN /\ (IsCurrent(j) /\ activity.pastes) \in BOOLEAN
    BY  DEF IsCurrent, Activities
  <2>2. PICK label \in Labels :
          Command([AtRest(label) EXCEPT !.job = j, !.settles = IsCurrent(j),
                                        !.pastes = IsCurrent(j) /\ activity.pastes])
    BY <1>25 DEF TranscriptionDone, Resume, Labels, DaemonLabels
  <2>3. frame' \in [Threads -> Frames]
    BY <2>1, <2>2, RestTypes, TurnTypes
  <2>4. tickets' \in [Jobs -> Nat] /\ failures' \in Nat
    BY <1>25, CountTypes DEF TranscriptionDone, Fault
  <2>5. QED
    BY <1>25, <2>3, <2>4 DEF TranscriptionDone
<1>26. CASE StoreRawText
  BY <1>26, <1>row, RowStepType, StatementTypes, NoRowType DEF StoreRawText,
     Labels, DaemonLabels
<1>27. CASE StoreReadyText
  BY <1>27, <1>row, RowStepType, StatementTypes, NoRowType DEF StoreReadyText,
     Labels, DaemonLabels
<1>28. CASE StoreSilent
  BY <1>28, <1>row, RowStepType, StatementTypes, NoRowType DEF StoreSilent,
     Labels, DaemonLabels
<1>29. CASE StoreFailed
  BY <1>29, <1>row, RowStepType, StatementTypes, NoRowType DEF StoreFailed,
     Stages, Labels, DaemonLabels
<1>30. CASE FailStep
  BY <1>30, <1>row, RowStepType, StatementTypes, NoRowType DEF FailStep,
     Labels, DaemonLabels
<1>31. CASE ReadReady
  <2>1. frame' \in [Threads -> Frames]
    BY <1>31, TurnTypes, EditTypes, FrameTypes DEF ReadReady, ReadBack,
       Labels, DaemonLabels
  <2>2. failures' \in Nat
    BY <1>31 DEF ReadReady, ReadBack, Fault
  <2>3. QED
    BY <1>31, <2>1, <2>2 DEF ReadReady
<1>32. CASE Gate
  BY <1>32, FrameTypes DEF Gate, Labels, DaemonLabels
<1>33. CASE GateRefused
  BY <1>33, <1>row, RowStepType, StatementTypes, NoRowType DEF GateRefused,
     Labels, DaemonLabels
<1>34. CASE Attempt
  BY <1>34, <1>row, RowStepType, StatementTypes, NoRowType DEF Attempt,
     Labels, DaemonLabels
<1>35. CASE Deliver
  <2>1. PICK label \in Labels : Go("daemon", label)
    BY <1>35 DEF Deliver, Labels, DaemonLabels
  <2>2. frame' \in [Threads -> Frames]
    BY <2>1, FrameTypes
  <2>3. chords' \in [Jobs -> Nat]
    BY <1>35, CountTypes DEF Deliver
  <2>4. QED
    BY <1>35, <2>2, <2>3 DEF Deliver
<1>36. CASE RecordSubmitted
  BY <1>36, <1>row, RowStepType, StatementTypes, NoRowType DEF
     RecordSubmitted, Labels, DaemonLabels
<1>37. CASE RecordAmbiguous
  BY <1>37, <1>row, RowStepType, StatementTypes, NoRowType DEF
     RecordAmbiguous, Labels, DaemonLabels
<1>38. CASE RecordNotSent
  BY <1>38, <1>row, RowStepType, StatementTypes, NoRowType DEF RecordNotSent,
     Labels, DaemonLabels
<1>39. CASE ReadResult
  <2>1. frame' \in [Threads -> Frames]
    BY <1>39, FrameTypes DEF ReadResult, ReadBack, Labels, DaemonLabels
  <2>2. QED
    BY <1>39, <2>1 DEF ReadResult, ReadBack, Fault
<1>40. CASE Complete
  <2>1. jobs' \in [Jobs -> Rows] /\ recorded' \in [Jobs -> Nat] /\ failures' \in Nat
    BY <1>40, <1>jobs, StatementTypes, NoRowType, CountTypes DEF Complete,
       CompleteDelivered, Put, Fault
  <2>2. frame' \in [Threads -> Frames]
    BY <1>40, FrameTypes DEF Complete, CompleteDelivered, Labels,
       DaemonLabels, MaintenanceLabels, SharedLabels
  <2>3. QED
    BY <1>40, <2>1, <2>2 DEF Complete
<1>41. CASE CleanupAudio
  BY <1>41, <1>jobs, FrameTypes DEF CleanupAudio, Fault, Audio, Labels,
     DaemonLabels
<1>42. ASSUME NEW j \in Jobs, RetryTranscriptionOf(j) PROVE TypeOK'
  BY <1>42, RestTypes, TurnTypes DEF RetryTranscriptionOf, Labels,
     DaemonLabels
<1>43. CASE RetryUpdate
  BY <1>43, <1>row, RowStepType, StatementTypes, NoRowType DEF RetryUpdate,
     Labels, DaemonLabels
<1>44. CASE RetryRead
  <2>1. frame' \in [Threads -> Frames]
    BY <1>44, TurnTypes, FrameTypes DEF RetryRead, Labels, DaemonLabels
  <2>2. [kind |-> "processing", job |-> Job("daemon"), pastes |-> FALSE] \in Activities
    BY <1>jobs DEF Activities
  <2>3. activity' \in {activity, [kind |-> "processing", job |-> Job("daemon"), pastes |-> FALSE]}
    BY <1>44 DEF RetryRead
  <2>4. tickets' \in [Jobs -> Nat] /\ failures' \in Nat
    BY <1>44, CountTypes DEF RetryRead, Fault
  <2>5. QED
    BY <1>44, <2>1, <2>2, <2>3, <2>4 DEF RetryRead
<1>45. ASSUME NEW j \in Jobs, PasteAgain(j) PROVE TypeOK'
  BY <1>45, RestTypes, TurnTypes DEF PasteAgain, Labels, DaemonLabels
<1>46. CASE AgainUpdate
  BY <1>46, <1>row, RowStepType, StatementTypes, NoRowType DEF AgainUpdate,
     Labels, DaemonLabels
<1>47. CASE AgainRead
  BY <1>47, FrameTypes DEF AgainRead, ReadBack, Fault, Labels, DaemonLabels
<1>48. CASE CancelProcessing
  BY <1>48 DEF CancelProcessing, NoActivity, Activities
<1>49. ASSUME NEW j \in Jobs, DeleteRecovery(j) PROVE TypeOK'
  BY <1>49, RestTypes, TurnTypes DEF DeleteRecovery, Labels, DaemonLabels,
     MaintenanceLabels, SharedLabels
<1>50. ASSUME NEW c \in Threads, ExpireList(c) PROVE TypeOK'
  <2>1. PICK todo \in SUBSET Jobs : Turn(c, [frame[c] EXCEPT !.at = "expire_next", !.goal = "retention", !.todo = todo]) \/ Go(c, AfterRetention(c))
    BY <1>50 DEF ExpireList
  <2>2. frame' \in [Threads -> Frames]
    BY <2>1, TurnTypes, EditTypes, FrameTypes DEF AfterRetention, Labels,
       DaemonLabels, MaintenanceLabels, SharedLabels
  <2>3. QED
    BY <1>50, <2>2 DEF ExpireList, Fault
<1>51. ASSUME NEW c \in Threads, ExpireNext(c) PROVE TypeOK'
  <2>1. frame[c].todo \subseteq Jobs
    BY  DEF Frames
  <2>2. PICK label \in Labels :
          \/ Go(c, label)
          \/ \E j \in Jobs :
               Turn(c, [frame[c] EXCEPT !.at = label, !.todo = @ \ {j}, !.victim = j])
    BY <1>51, <2>1 DEF ExpireNext, AfterRetention, Labels, DaemonLabels,
       MaintenanceLabels, SharedLabels
  <2>3. frame' \in [Threads -> Frames]
    BY <2>2, TurnTypes, EditTypes, FrameTypes
  <2>4. QED
    BY <1>51, <2>3 DEF ExpireNext
<1>52. ASSUME NEW c \in Threads, ExpireRow(c) PROVE TypeOK'
  <2>1. jobs' \in [Jobs -> Rows] /\ failures' \in Nat
    BY <1>52, StatementTypes, NoRowType DEF ExpireRow, Statement, Put, Fault
  <2>2. frame' \in [Threads -> Frames]
    BY <1>52, FrameTypes DEF ExpireRow, Statement, AfterRetention, Labels,
       DaemonLabels, MaintenanceLabels, SharedLabels
  <2>3. QED
    BY <1>52, <2>1, <2>2 DEF ExpireRow
<1>53. ASSUME NEW c \in Threads, DeleteMove(c) PROVE TypeOK'
  <2>1. frame' \in [Threads -> Frames]
    BY <1>53, TurnTypes, EditTypes, FrameTypes DEF DeleteMove, AfterDelete,
       InRetention, Labels, DaemonLabels, MaintenanceLabels, SharedLabels
  <2>2. audio' \in [Jobs -> Audio] /\ failures' \in Nat
    BY <1>53 DEF DeleteMove, Audio, Fault
  <2>3. QED
    BY <1>53, <2>1, <2>2 DEF DeleteMove
<1>54. ASSUME NEW c \in Threads, DeleteRow(c) PROVE TypeOK'
  <2>1. jobs' \in [Jobs -> Rows] /\ failures' \in Nat
    BY <1>54, StatementTypes, NoRowType DEF DeleteRow, Statement, Put, Fault
  <2>2. frame' \in [Threads -> Frames]
    BY <1>54, FrameTypes DEF DeleteRow, Statement, AfterDelete,
       AfterFailedDelete, AfterRetention, InRetention, Labels, DaemonLabels,
       MaintenanceLabels, SharedLabels
  <2>3. QED
    BY <1>54, <2>1, <2>2 DEF DeleteRow
<1>55. ASSUME NEW c \in Threads, DeleteRestore(c) PROVE TypeOK'
  <2>1. frame' \in [Threads -> Frames]
    BY <1>55, FrameTypes DEF DeleteRestore, AfterDelete, AfterFailedDelete,
       AfterRetention, InRetention, Labels, DaemonLabels, MaintenanceLabels,
       SharedLabels
  <2>2. audio' \in [Jobs -> Audio] /\ failures' \in Nat
    BY <1>55 DEF DeleteRestore, Audio, Fault
  <2>3. QED
    BY <1>55, <2>1, <2>2 DEF DeleteRestore
<1>56. ASSUME NEW c \in Threads, DeleteUnlink(c) PROVE TypeOK'
  <2>1. frame' \in [Threads -> Frames]
    BY <1>56, FrameTypes DEF DeleteUnlink, AfterDelete, AfterFailedDelete,
       AfterRetention, InRetention, Labels, DaemonLabels, MaintenanceLabels,
       SharedLabels
  <2>2. audio' \in [Jobs -> Audio] /\ failures' \in Nat
    BY <1>56 DEF DeleteUnlink, Audio, Fault
  <2>3. QED
    BY <1>56, <2>1, <2>2 DEF DeleteUnlink
<1>57. CASE StartMaintenance
  <2>1. "list_finished" \in Labels
    BY  DEF Labels, MaintenanceLabels
  <2>2. [AtRest("list_finished") EXCEPT !.keeps = keepAudio] \in Frames
    BY <2>1 DEF AtRest, Frames
  <2>3. frame' \in [Threads -> Frames]
    BY <1>57, <2>2, TurnTypes DEF StartMaintenance
  <2>4. QED
    BY <1>57, <2>3 DEF StartMaintenance
<1>58. CASE ListFinished
  <2>1. PICK todo \in SUBSET Jobs : Turn("maintenance", [frame["maintenance"] EXCEPT !.at = "next_finished", !.todo = todo]) \/ Go("maintenance", "off")
    BY <1>58 DEF ListFinished
  <2>2. frame' \in [Threads -> Frames]
    BY <2>1, TurnTypes, EditTypes, FrameTypes DEF Labels, MaintenanceLabels
  <2>3. QED
    BY <1>58, <2>2 DEF ListFinished, Fault
<1>59. CASE NextFinished
  <2>1. frame["maintenance"].todo \subseteq Jobs
    BY  DEF Frames
  <2>2. PICK label \in Labels :
          \/ Go("maintenance", label)
          \/ \E j \in Jobs :
               Turn("maintenance", [frame["maintenance"] EXCEPT
                                      !.at = label, !.victim = j, !.todo = @ \ {j}])
    BY <1>59, <2>1 DEF NextFinished, Take, Labels, DaemonLabels,
       MaintenanceLabels, SharedLabels
  <2>3. frame' \in [Threads -> Frames]
    BY <2>2, TurnTypes, EditTypes, FrameTypes
  <2>4. audio' \in [Jobs -> Audio] /\ failures' \in Nat
    BY <1>59 DEF NextFinished, Audio, Fault
  <2>5. QED
    BY <1>59, <2>3, <2>4 DEF NextFinished
<1>60. CASE FinishRow
  <2>1. jobs' \in [Jobs -> Rows] /\ recorded' \in [Jobs -> Nat] /\ failures' \in Nat
    BY <1>60, <1>jobs, StatementTypes, NoRowType, CountTypes DEF FinishRow,
       Statement, CompleteDelivered, Put, Fault
  <2>2. frame' \in [Threads -> Frames]
    BY <1>60, FrameTypes DEF FinishRow, Statement, CompleteDelivered, Labels,
       MaintenanceLabels
  <2>3. QED
    BY <1>60, <2>1, <2>2 DEF FinishRow
<1>61. CASE ListOrphans
  <2>1. Orphans \subseteq Jobs
    BY  DEF Orphans
  <2>2. frame' \in [Threads -> Frames]
    BY <1>61, <2>1, TurnTypes, EditTypes, FrameTypes DEF ListOrphans, Labels,
       MaintenanceLabels
  <2>3. UNCHANGED allButFrame /\ (failures' = failures \/ Fault("read"))
    BY <1>61, Zenon DEF ListOrphans
  <2>4. QED
    BY <1>61, <2>2, <2>3 DEF Fault
<1>62. CASE RemoveOrphan
  <2>1. frame["maintenance"].todo \subseteq Jobs
    BY  DEF Frames
  <2>2. \/ Go("maintenance", "expire_list")
        \/ \E j \in Jobs :
             Turn("maintenance", [frame["maintenance"] EXCEPT !.todo = @ \ {j}])
    BY <1>62, <2>1, Zenon DEF RemoveOrphan
  <2>3. frame' \in [Threads -> Frames]
    BY <2>2, TurnTypes, EditTypes, FrameTypes DEF Labels, DaemonLabels,
       MaintenanceLabels, SharedLabels
  <2>4. audio' \in [Jobs -> Audio]
    BY <1>62 DEF RemoveOrphan, Audio
  <2>5. failures' = failures \/ Fault("disk")
    BY <1>62, Zenon DEF RemoveOrphan
  <2>6. QED
    BY <1>62, <2>3, <2>4, <2>5 DEF RemoveOrphan, Fault
<1>63. CASE UNCHANGED vars
  BY <1>63 DEF vars
<1>64. QED
  BY <1>1, <1>2, <1>3, <1>4, <1>5, <1>7, <1>8, <1>9, <1>10, <1>11, <1>12,
     <1>13, <1>14, <1>15, <1>16, <1>17, <1>18, <1>19, <1>20, <1>21, <1>22,
     <1>23, <1>24, <1>25, <1>26, <1>27, <1>28, <1>29, <1>30, <1>31, <1>32,
     <1>33, <1>34, <1>35, <1>36, <1>37, <1>38, <1>39, <1>40, <1>41, <1>42,
     <1>43, <1>44, <1>45, <1>46, <1>47, <1>48, <1>49, <1>50, <1>51, <1>52,
     <1>53, <1>54, <1>55, <1>56, <1>57, <1>58, <1>59, <1>60, <1>61, <1>62,
     <1>63 DEF Next, StartSteps, EndSteps, RecordingSteps, ResultSteps,
     DeliverySteps, RecoverySteps, RetentionSteps, MaintenanceSteps

--------------------------------------------------------------------------------
(* Steps that leave every job's row as the daemon knows it *)

(* A row that was not written, or was deleted, or only grew older. *)
Unwritten(old, new) ==
  /\ ~IsRow(new) => new = NoRow
  /\ IsRow(new) => /\ new.stage = old.stage
                   /\ new.delivery = old.delivery
                   /\ new.raw = old.raw
                   /\ new.text = old.text

(* The labels at which a command knows nothing of its row. *)
QuietLabels == OtherLabels \cup SharedLabels \cup {"settle", "panicked"}

(* The daemon stands still, or its command goes on to a quiet label. *)
DaemonIsQuiet ==
  \/ frame'["daemon"] = frame["daemon"]
  \/ /\ Label' \in QuietLabels
     /\ frame'["daemon"].settles = frame["daemon"].settles
     /\ Label' \in JobLabels \/ Retains' => Job("daemon")' \in born

(* The steps of the maintenance thread, and those of the daemon's own that
   write no row, preserve the invariant. *)
LEMMA QuietStep ==
  ASSUME Inductive, TypeOK', RecordedOnce', DaemonIsQuiet,
         UNCHANGED <<activity, tickets, chords, born>>,
         \A j \in Jobs : Unwritten(jobs[j], jobs'[j])
  PROVE  Inductive'
<1> USE DEF Inductive
<1>1. RowsAreWhole'
  BY DEF RowsAreWhole, Unwritten, IsRow
<1>2. UnbornIsBlank'
  BY DEF UnbornIsBlank, Unwritten, IsRow, NoRow
<1>3. CommandHasJob'
  BY DEF CommandHasJob, DaemonIsQuiet, QuietLabels, OtherLabels, SharedLabels,
         Label, Job, InRetention, Retains
<1>4. NotYetPasted' /\ PastesTheCurrent'
  BY DEF NotYetPasted, PastesTheCurrent, DaemonIsQuiet, QuietLabels, Label, Job,
         FreshLabels, PasteLabels, StartLabels, EndLabels, StoreLabels, RetryLabels,
         OtherLabels, SharedLabels
<1>5. RowOfCommand'
  <2>1. CASE frame'["daemon"] = frame["daemon"]
    <3>1. Label' = Label /\ Job("daemon")' = Job("daemon")
      BY <2>1 DEF Label, Job
    <3>2. ASSUME Label \in JobLabels, IsRow(Row')
          PROVE  Knows(Label, Row')
      <4>1. Job("daemon") \in Jobs
        BY <3>2 DEF CommandHasJob, TypeOK
      <4>2. Unwritten(Row, Row')
        BY <3>1, <4>1 DEF Row
      <4>3. IsRow(Row) /\ Knows(Label, Row)
        BY <3>2, <4>2 DEF RowOfCommand, Unwritten, IsRow
      <4>4. QED
        BY <3>2, <4>2, <4>3 DEF Knows, Unwritten, IsRow, PasteAgainAllowed, RetryAllowed
    <3>3. QED
      BY <3>1, <3>2 DEF RowOfCommand
  <2>2. CASE Label' \in QuietLabels
    BY <2>2 DEF RowOfCommand, Knows, QuietLabels, StartLabels, StoreLabels, ReadyLabels,
            OtherLabels, SharedLabels
  <2>3. QED
    BY <2>1, <2>2 DEF DaemonIsQuiet
<1>6. RowOfRecording'
  BY DEF RowOfRecording, ActiveRecording, RecordingRow, DaemonIsQuiet, Unwritten, IsRow,
         Label, QuietLabels, EndLabels, OtherLabels, SharedLabels
<1>7. PastedIsSettled'
  BY DEF PastedIsSettled, SettledRow, Unwritten, IsRow, InFlight, RetryAllowed
<1>8. AtMostOneAutomaticPaste'
  BY DEF AtMostOneAutomaticPaste
<1>9. QED
  BY <1>1, <1>2, <1>3, <1>4, <1>5, <1>6, <1>7, <1>8

--------------------------------------------------------------------------------
(* Steps of a command *)

(* A command goes on to its next label and may write its job's row, so that
   whatever is known at that label holds of the row. *)
LEMMA CommandStep ==
  ASSUME Inductive, TypeOK', NEW row, NEW next \in JobLabels \cup {"settle", "panicked"},
         UNCHANGED <<recorded, activity, tickets, chords, born>>,
         Label \in JobLabels,
         jobs' = [jobs EXCEPT ![Job("daemon")] = row],
         Label' = next,
         Job("daemon")' = Job("daemon"),
         frame'["daemon"].settles = frame["daemon"].settles,
         frame'["daemon"].pastes => frame["daemon"].pastes,
         ~IsRow(row) => row = NoRow,
         row.stage \in {"no_speech", "deleted"} => ~row.raw,
         IsRow(row) /\ chords[Job("daemon")] > 0 => SettledRow(row),
         IsRow(row) /\ ActiveRecording(Job("daemon")) => RecordingRow(row),
         IsRow(row) => Knows(next, row),
         next \in FreshLabels => chords[Job("daemon")] = 0,
         next \in PasteLabels => Label \in PasteLabels,
         next \in EndLabels => Label \in EndLabels
  PROVE  Inductive'
<1> USE DEF Inductive
<1>1. Job("daemon") \in born /\ Job("daemon") \in Jobs
  BY DEF CommandHasJob, TypeOK
<1>2. Row' = row /\ \A j \in Jobs : j # Job("daemon") => jobs'[j] = jobs[j]
  BY <1>1 DEF Row, TypeOK
<1>3. RowsAreWhole'
  BY <1>1, <1>2 DEF RowsAreWhole, Row
<1>4. UnbornIsBlank'
  BY <1>1, <1>2 DEF UnbornIsBlank
<1>5. CommandHasJob'
  BY <1>1 DEF CommandHasJob, JobLabels, StartLabels, EndLabels, StoreLabels, ReadyLabels,
              RetryLabels, AgainLabels, OtherLabels, SharedLabels, Retains
<1>6. NotYetPasted' /\ PastesTheCurrent'
  BY DEF NotYetPasted, PastesTheCurrent
<1>7. RowOfCommand'
  BY <1>2 DEF RowOfCommand
<1>8. RowOfRecording'
  BY <1>1, <1>2 DEF RowOfRecording, ActiveRecording, Row, CommandHasJob, TypeOK, JobLabels,
              StartLabels, EndLabels, StoreLabels, ReadyLabels, RetryLabels, AgainLabels,
              OtherLabels
<1>9. PastedIsSettled'
  BY <1>1, <1>2 DEF PastedIsSettled, Row
<1>10. AtMostOneAutomaticPaste' /\ RecordedOnce'
  BY DEF AtMostOneAutomaticPaste, RecordedOnce
<1>11. QED
  BY <1>3, <1>4, <1>5, <1>6, <1>7, <1>8, <1>9, <1>10

(* A command goes on and writes nothing. *)
LEMMA CommandMoves ==
  ASSUME Inductive, TypeOK', NEW next \in JobLabels \cup {"settle", "panicked"},
         UNCHANGED <<jobs, recorded, activity, tickets, chords, born>>,
         Label \in JobLabels,
         Label' = next,
         Job("daemon")' = Job("daemon"),
         frame'["daemon"].settles = frame["daemon"].settles,
         frame'["daemon"].pastes => frame["daemon"].pastes,
         IsRow(Row) => Knows(next, Row),
         next \in FreshLabels => chords[Job("daemon")] = 0,
         next \in PasteLabels => Label \in PasteLabels,
         next \in EndLabels => Label \in EndLabels
  PROVE  Inductive'
<1>1. Job("daemon") \in Jobs
  BY DEF Inductive, CommandHasJob, TypeOK
<1>2. jobs' = [jobs EXCEPT ![Job("daemon")] = Row]
  BY DEF Row, Inductive, TypeOK
<1>3. /\ ~IsRow(Row) => Row = NoRow
      /\ Row.stage \in {"no_speech", "deleted"} => ~Row.raw
      /\ IsRow(Row) /\ chords[Job("daemon")] > 0 => SettledRow(Row)
      /\ IsRow(Row) /\ ActiveRecording(Job("daemon")) => RecordingRow(Row)
  BY <1>1 DEF Inductive, RowsAreWhole, PastedIsSettled, RowOfRecording, ActiveRecording, Row
<1>4. QED
  BY <1>2, <1>3, CommandStep

(* Where a thread stands after `Go`. *)
LEMMA GoesOn ==
  ASSUME frame \in [Threads -> Frames], NEW label \in Labels \ {"off"}, Go("daemon", label)
  PROVE  /\ Label' = label
         /\ Job("daemon")' = Job("daemon")
         /\ frame'["daemon"].settles = frame["daemon"].settles
         /\ frame'["daemon"].pastes = frame["daemon"].pastes
         /\ frame'["daemon"].goal = frame["daemon"].goal
  BY DEF Go, Turn, Label, Job, Threads, Frames

(* A statement on the row of the command's job. *)
LEMMA RowStepInductive ==
  ASSUME Inductive, TypeOK', NEW here \in JobLabels, NEW row,
         NEW next \in JobLabels \cup {"settle"}, NEW onFault \in {"settle", "fail_job"},
         RowStep(here, row, next, onFault),
         ~IsRow(row) => row = NoRow,
         row.stage \in {"no_speech", "deleted"} => ~row.raw,
         IsRow(row) /\ chords[Job("daemon")] > 0 => SettledRow(row),
         IsRow(row) /\ ActiveRecording(Job("daemon")) => RecordingRow(row),
         IsRow(row) => Knows(next, row),
         next \in FreshLabels => chords[Job("daemon")] = 0,
         next \in PasteLabels => here \in PasteLabels,
         next \in EndLabels => here \in EndLabels
  PROVE  Inductive'
<1>1. Label = here /\ UNCHANGED <<recorded, activity, tickets, chords, born>>
  BY DEF RowStep, At, Label, allButRow
<1>2. next \in Labels \ {"off"} /\ onFault \in Labels \ {"off"}
  BY DEF JobLabels, StartLabels, EndLabels, StoreLabels, ReadyLabels, RetryLabels,
         AgainLabels, OtherLabels, Labels, DaemonLabels, SharedLabels
<1>3. CASE Put(Job("daemon"), row) /\ Go("daemon", next)
  BY <1>1, <1>2, <1>3, GoesOn, CommandStep DEF Put, Inductive, TypeOK
<1>4. CASE Go("daemon", onFault) /\ UNCHANGED jobs
  <2>1. Knows(onFault, Row) /\ onFault \notin FreshLabels \cup PasteLabels \cup EndLabels
    BY DEF Knows, FreshLabels, PasteLabels, StartLabels, EndLabels, StoreLabels,
           RetryLabels, ReadyLabels
  <2>2. onFault \in JobLabels \cup {"settle", "panicked"}
    BY DEF JobLabels, OtherLabels
  <2>3. QED
    BY <1>1, <1>2, <1>4, <2>1, <2>2, GoesOn, CommandMoves DEF Inductive, TypeOK
<1>5. QED
  BY <1>3, <1>4 DEF RowStep, Statement

(* What a command turns the daemon's frame into. *)
LEMMA NewCommand ==
  ASSUME frame \in [Threads -> Frames], NEW new, Command(new)
  PROVE  frame'["daemon"] = new
  BY DEF Command, Turn, Threads

(* The daemon holds no lock: only its activity and the rows matter. *)
LEMMA Rests ==
  ASSUME TypeOK', RowsAreWhole', UnbornIsBlank', PastedIsSettled',
         AtMostOneAutomaticPaste', RecordedOnce',
         Label' \in {"down", "open_ambiguous", "open_interrupted", "open_deletions", "idle"},
         Label' = "idle" => ~frame'["daemon"].settles,
         Label' # "idle" => activity' = NoActivity,
         activity'.kind # "idle" => activity'.job \in born',
         activity'.kind = "recording" =>
           /\ chords'[activity'.job] = 0
           /\ IsRow(jobs'[activity'.job]) => RecordingRow(jobs'[activity'.job])
  PROVE  Inductive'
<1>1. Label' \notin JobLabels /\ ~Retains' /\ Label' \notin FreshLabels \cup PasteLabels \cup EndLabels
  BY DEF Retains, JobLabels, FreshLabels, PasteLabels, StartLabels, EndLabels, StoreLabels,
         ReadyLabels, RetryLabels, AgainLabels, OtherLabels, SharedLabels
<1>2. CommandHasJob' /\ NotYetPasted' /\ PastesTheCurrent' /\ RowOfCommand'
  BY <1>1 DEF CommandHasJob, NotYetPasted, PastesTheCurrent, RowOfCommand
<1>3. RowOfRecording'
  BY <1>1 DEF RowOfRecording, ActiveRecording
<1>4. QED
  BY <1>2, <1>3 DEF Inductive

(* The lock is taken: the row is as the command's first label needs it. *)
LEMMA Begins ==
  ASSUME Inductive, TypeOK', NEW j \in Jobs,
         UNCHANGED <<jobs, recorded, activity, chords, born>>,
         j \in born, \A i \in Jobs \ born : tickets'[i] = 0,
         Label' \in JobLabels \cup {"settle"},
         Job("daemon")' = j,
         IsRow(jobs[j]) => Knows(Label', jobs[j]),
         Label' \in FreshLabels => chords[j] = 0,
         frame'["daemon"].pastes /\ Label' \in PasteLabels =>
           activity.kind = "processing" /\ activity.job = j /\ activity.pastes /\ chords[j] = 0,
         Label' \in EndLabels => frame'["daemon"].settles,
         Label = "idle"
  PROVE  Inductive'
<1> USE DEF Inductive
<1>1. RowsAreWhole' /\ UnbornIsBlank' /\ PastedIsSettled' /\ AtMostOneAutomaticPaste' /\ RecordedOnce'
  BY DEF RowsAreWhole, UnbornIsBlank, PastedIsSettled, AtMostOneAutomaticPaste, RecordedOnce
<1>2. CommandHasJob'
  BY DEF CommandHasJob, JobLabels, StartLabels, EndLabels, StoreLabels, ReadyLabels,
         RetryLabels, AgainLabels, OtherLabels
<1>3. NotYetPasted' /\ PastesTheCurrent'
  BY DEF NotYetPasted, PastesTheCurrent
<1>4. RowOfCommand'
  BY DEF RowOfCommand, Row, Job
<1>5. RowOfRecording'
  BY DEF RowOfRecording, ActiveRecording, JobLabels, StartLabels, EndLabels, StoreLabels,
         ReadyLabels, RetryLabels, AgainLabels, OtherLabels
<1>6. QED
  BY <1>1, <1>2, <1>3, <1>4, <1>5

--------------------------------------------------------------------------------
(* Every step *)

(* What the invariant says of the row of a command. *)
LEMMA KnownRow ==
  ASSUME Inductive, Label \in JobLabels
  PROVE  /\ Job("daemon") \in born /\ Job("daemon") \in Jobs
         /\ Row \in Rows
         /\ ~IsRow(Row) => Row = NoRow
         /\ Row.stage \in {"no_speech", "deleted"} => ~Row.raw
         /\ IsRow(Row) => Knows(Label, Row)
         /\ IsRow(Row) /\ chords[Job("daemon")] > 0 => SettledRow(Row)
         /\ IsRow(Row) /\ ActiveRecording(Job("daemon")) => RecordingRow(Row)
  BY DEF Inductive, CommandHasJob, TypeOK, Row, RowsAreWhole, RowOfCommand,
         PastedIsSettled, RowOfRecording

(* The statement of InterruptStart. *)
LEMMA InterruptStartStep ==
  ASSUME Inductive, TypeOK', InterruptStart
  PROVE  Inductive'
<1>1. Label = "interrupt_start"
  BY  DEF InterruptStart, RowStep, At, Label
<1>2. "interrupt_start" \in JobLabels /\ "settle" \in JobLabels \cup {"settle"}
  BY  DEF JobLabels, StartLabels, EndLabels, StoreLabels, ReadyLabels,
     RetryLabels, AgainLabels, OtherLabels
<1>3. /\ ~IsRow(UpdateStage(Row, "interrupted")) => UpdateStage(Row, "interrupted") = NoRow
      /\ UpdateStage(Row, "interrupted").stage \in {"no_speech", "deleted"} => ~UpdateStage(Row, "interrupted").raw
      /\ IsRow(UpdateStage(Row, "interrupted")) => Knows("settle", UpdateStage(Row, "interrupted"))
  BY <1>1, <1>2, KnownRow DEF Knows, Rows, Updated, IsRow, NoRow, UpdateStage,
     StartLabels, EndLabels, StoreLabels, ReadyLabels, RetryLabels,
     AgainLabels, OtherLabels, PasteAgainAllowed, RetryAllowed
<1>4. IsRow(UpdateStage(Row, "interrupted")) /\ chords[Job("daemon")] > 0 => SettledRow(UpdateStage(Row, "interrupted"))
  BY <1>1, <1>2, KnownRow DEF Inductive, NotYetPasted, FreshLabels, Knows,
     SettledRow, InFlight, RetryAllowed, Rows, Updated, IsRow, NoRow,
     UpdateStage, StartLabels, EndLabels, StoreLabels, ReadyLabels,
     RetryLabels, AgainLabels, OtherLabels
<1>5. IsRow(UpdateStage(Row, "interrupted")) /\ ActiveRecording(Job("daemon")) => RecordingRow(UpdateStage(Row, "interrupted"))
  BY <1>1, <1>2, KnownRow DEF Inductive, RowOfRecording, RecordingRow,
     ActiveRecording, Knows, Rows, Updated, IsRow, NoRow, PasteAgainAllowed,
     RetryAllowed, UpdateStage, StartLabels, EndLabels, StoreLabels,
     ReadyLabels, RetryLabels, AgainLabels, OtherLabels
<1>6. "settle" \in FreshLabels => chords[Job("daemon")] = 0
  BY <1>1 DEF Inductive, NotYetPasted, FreshLabels, StartLabels, EndLabels,
     StoreLabels, ReadyLabels, RetryLabels
<1>7. /\ "settle" \in PasteLabels => "interrupt_start" \in PasteLabels
      /\ "settle" \in EndLabels => "interrupt_start" \in EndLabels
  BY  DEF PasteLabels, EndLabels, StoreLabels
<1>8. QED
  BY <1>2, <1>3, <1>4, <1>5, <1>6, <1>7, RowStepInductive DEF InterruptStart

(* The statement of InterruptRecording. *)
LEMMA InterruptRecordingStep ==
  ASSUME Inductive, TypeOK', InterruptRecording
  PROVE  Inductive'
<1>1. Label = "interrupt_recording"
  BY  DEF InterruptRecording, RowStep, At, Label
<1>2. "interrupt_recording" \in JobLabels /\ "settle" \in JobLabels \cup {"settle"}
  BY  DEF JobLabels, StartLabels, EndLabels, StoreLabels, ReadyLabels,
     RetryLabels, AgainLabels, OtherLabels
<1>3. /\ ~IsRow(UpdateStage(Row, "interrupted")) => UpdateStage(Row, "interrupted") = NoRow
      /\ UpdateStage(Row, "interrupted").stage \in {"no_speech", "deleted"} => ~UpdateStage(Row, "interrupted").raw
      /\ IsRow(UpdateStage(Row, "interrupted")) => Knows("settle", UpdateStage(Row, "interrupted"))
  BY <1>1, <1>2, KnownRow DEF Knows, Rows, Updated, IsRow, NoRow, UpdateStage,
     StartLabels, EndLabels, StoreLabels, ReadyLabels, RetryLabels,
     AgainLabels, OtherLabels, PasteAgainAllowed, RetryAllowed
<1>4. IsRow(UpdateStage(Row, "interrupted")) /\ chords[Job("daemon")] > 0 => SettledRow(UpdateStage(Row, "interrupted"))
  BY <1>1, <1>2, KnownRow DEF Inductive, NotYetPasted, FreshLabels, Knows,
     SettledRow, InFlight, RetryAllowed, Rows, Updated, IsRow, NoRow,
     UpdateStage, StartLabels, EndLabels, StoreLabels, ReadyLabels,
     RetryLabels, AgainLabels, OtherLabels
<1>5. IsRow(UpdateStage(Row, "interrupted")) /\ ActiveRecording(Job("daemon")) => RecordingRow(UpdateStage(Row, "interrupted"))
  BY <1>1, <1>2, KnownRow DEF Inductive, RowOfRecording, RecordingRow,
     ActiveRecording, Knows, Rows, Updated, IsRow, NoRow, PasteAgainAllowed,
     RetryAllowed, UpdateStage, StartLabels, EndLabels, StoreLabels,
     ReadyLabels, RetryLabels, AgainLabels, OtherLabels
<1>6. "settle" \in FreshLabels => chords[Job("daemon")] = 0
  BY <1>1 DEF Inductive, NotYetPasted, FreshLabels, StartLabels, EndLabels,
     StoreLabels, ReadyLabels, RetryLabels
<1>7. /\ "settle" \in PasteLabels => "interrupt_recording" \in PasteLabels
      /\ "settle" \in EndLabels => "interrupt_recording" \in EndLabels
  BY  DEF PasteLabels, EndLabels, StoreLabels
<1>8. QED
  BY <1>2, <1>3, <1>4, <1>5, <1>6, <1>7, RowStepInductive DEF
     InterruptRecording

(* The statement of InterruptCaptured. *)
LEMMA InterruptCapturedStep ==
  ASSUME Inductive, TypeOK', InterruptCaptured
  PROVE  Inductive'
<1>1. Label = "interrupt_captured"
  BY  DEF InterruptCaptured, RowStep, At, Label
<1>2. "interrupt_captured" \in JobLabels /\ "settle" \in JobLabels \cup {"settle"}
  BY  DEF JobLabels, StartLabels, EndLabels, StoreLabels, ReadyLabels,
     RetryLabels, AgainLabels, OtherLabels
<1>3. /\ ~IsRow(UpdateStage(Row, "interrupted")) => UpdateStage(Row, "interrupted") = NoRow
      /\ UpdateStage(Row, "interrupted").stage \in {"no_speech", "deleted"} => ~UpdateStage(Row, "interrupted").raw
      /\ IsRow(UpdateStage(Row, "interrupted")) => Knows("settle", UpdateStage(Row, "interrupted"))
  BY <1>1, <1>2, KnownRow DEF Knows, Rows, Updated, IsRow, NoRow, UpdateStage,
     StartLabels, EndLabels, StoreLabels, ReadyLabels, RetryLabels,
     AgainLabels, OtherLabels, PasteAgainAllowed, RetryAllowed
<1>4. IsRow(UpdateStage(Row, "interrupted")) /\ chords[Job("daemon")] > 0 => SettledRow(UpdateStage(Row, "interrupted"))
  BY <1>1, <1>2, KnownRow DEF Inductive, NotYetPasted, FreshLabels, Knows,
     SettledRow, InFlight, RetryAllowed, Rows, Updated, IsRow, NoRow,
     UpdateStage, StartLabels, EndLabels, StoreLabels, ReadyLabels,
     RetryLabels, AgainLabels, OtherLabels
<1>5. IsRow(UpdateStage(Row, "interrupted")) /\ ActiveRecording(Job("daemon")) => RecordingRow(UpdateStage(Row, "interrupted"))
  BY <1>1, <1>2, KnownRow DEF Inductive, RowOfRecording, RecordingRow,
     ActiveRecording, Knows, Rows, Updated, IsRow, NoRow, PasteAgainAllowed,
     RetryAllowed, UpdateStage, StartLabels, EndLabels, StoreLabels,
     ReadyLabels, RetryLabels, AgainLabels, OtherLabels
<1>6. "settle" \in FreshLabels => chords[Job("daemon")] = 0
  BY <1>1 DEF Inductive, NotYetPasted, FreshLabels, StartLabels, EndLabels,
     StoreLabels, ReadyLabels, RetryLabels
<1>7. /\ "settle" \in PasteLabels => "interrupt_captured" \in PasteLabels
      /\ "settle" \in EndLabels => "interrupt_captured" \in EndLabels
  BY  DEF PasteLabels, EndLabels, StoreLabels
<1>8. QED
  BY <1>2, <1>3, <1>4, <1>5, <1>6, <1>7, RowStepInductive DEF
     InterruptCaptured

(* The statement of StoreRawText. *)
LEMMA StoreRawTextStep ==
  ASSUME Inductive, TypeOK', StoreRawText
  PROVE  Inductive'
<1>1. Label = "store_raw"
  BY  DEF StoreRawText, RowStep, At, Label
<1>2. "store_raw" \in JobLabels /\ "store_ready" \in JobLabels \cup {"settle"}
  BY  DEF JobLabels, StartLabels, EndLabels, StoreLabels, ReadyLabels,
     RetryLabels, AgainLabels, OtherLabels
<1>3. /\ ~IsRow(StoreRaw(Row)) => StoreRaw(Row) = NoRow
      /\ StoreRaw(Row).stage \in {"no_speech", "deleted"} => ~StoreRaw(Row).raw
      /\ IsRow(StoreRaw(Row)) => Knows("store_ready", StoreRaw(Row))
  BY <1>1, <1>2, KnownRow DEF Knows, Rows, Updated, IsRow, NoRow, StoreRaw,
     StartLabels, EndLabels, StoreLabels, ReadyLabels, RetryLabels,
     AgainLabels, OtherLabels, PasteAgainAllowed, RetryAllowed
<1>4. IsRow(StoreRaw(Row)) /\ chords[Job("daemon")] > 0 => SettledRow(StoreRaw(Row))
  BY <1>1, <1>2, KnownRow DEF Inductive, NotYetPasted, FreshLabels, Knows,
     SettledRow, InFlight, RetryAllowed, Rows, Updated, IsRow, NoRow,
     StoreRaw, StartLabels, EndLabels, StoreLabels, ReadyLabels, RetryLabels,
     AgainLabels, OtherLabels
<1>5. IsRow(StoreRaw(Row)) /\ ActiveRecording(Job("daemon")) => RecordingRow(StoreRaw(Row))
  BY <1>1, <1>2, KnownRow DEF Inductive, RowOfRecording, RecordingRow,
     ActiveRecording, Knows, Rows, Updated, IsRow, NoRow, PasteAgainAllowed,
     RetryAllowed, StoreRaw, StartLabels, EndLabels, StoreLabels, ReadyLabels,
     RetryLabels, AgainLabels, OtherLabels
<1>6. "store_ready" \in FreshLabels => chords[Job("daemon")] = 0
  BY <1>1 DEF Inductive, NotYetPasted, FreshLabels, StartLabels, EndLabels,
     StoreLabels, ReadyLabels, RetryLabels
<1>7. /\ "store_ready" \in PasteLabels => "store_raw" \in PasteLabels
      /\ "store_ready" \in EndLabels => "store_raw" \in EndLabels
  BY  DEF PasteLabels, EndLabels, StoreLabels
<1>8. QED
  BY <1>2, <1>3, <1>4, <1>5, <1>6, <1>7, RowStepInductive DEF StoreRawText

(* The statement of StoreReadyText. *)
LEMMA StoreReadyTextStep ==
  ASSUME Inductive, TypeOK', StoreReadyText
  PROVE  Inductive'
<1>1. Label = "store_ready"
  BY  DEF StoreReadyText, RowStep, At, Label
<1>2. "store_ready" \in JobLabels /\ "read_ready" \in JobLabels \cup {"settle"}
  BY  DEF JobLabels, StartLabels, EndLabels, StoreLabels, ReadyLabels,
     RetryLabels, AgainLabels, OtherLabels
<1>3. /\ ~IsRow(StoreReady(Row)) => StoreReady(Row) = NoRow
      /\ StoreReady(Row).stage \in {"no_speech", "deleted"} => ~StoreReady(Row).raw
      /\ IsRow(StoreReady(Row)) => Knows("read_ready", StoreReady(Row))
  BY <1>1, <1>2, KnownRow DEF Knows, Rows, Updated, IsRow, NoRow, StoreReady,
     StartLabels, EndLabels, StoreLabels, ReadyLabels, RetryLabels,
     AgainLabels, OtherLabels, PasteAgainAllowed, RetryAllowed
<1>4. IsRow(StoreReady(Row)) /\ chords[Job("daemon")] > 0 => SettledRow(StoreReady(Row))
  BY <1>1, <1>2, KnownRow DEF Inductive, NotYetPasted, FreshLabels, Knows,
     SettledRow, InFlight, RetryAllowed, Rows, Updated, IsRow, NoRow,
     StoreReady, StartLabels, EndLabels, StoreLabels, ReadyLabels,
     RetryLabels, AgainLabels, OtherLabels
<1>5. IsRow(StoreReady(Row)) /\ ActiveRecording(Job("daemon")) => RecordingRow(StoreReady(Row))
  BY <1>1, <1>2, KnownRow DEF Inductive, RowOfRecording, RecordingRow,
     ActiveRecording, Knows, Rows, Updated, IsRow, NoRow, PasteAgainAllowed,
     RetryAllowed, StoreReady, StartLabels, EndLabels, StoreLabels,
     ReadyLabels, RetryLabels, AgainLabels, OtherLabels
<1>6. "read_ready" \in FreshLabels => chords[Job("daemon")] = 0
  BY <1>1 DEF Inductive, NotYetPasted, FreshLabels, StartLabels, EndLabels,
     StoreLabels, ReadyLabels, RetryLabels
<1>7. /\ "read_ready" \in PasteLabels => "store_ready" \in PasteLabels
      /\ "read_ready" \in EndLabels => "store_ready" \in EndLabels
  BY  DEF PasteLabels, EndLabels, StoreLabels
<1>8. QED
  BY <1>2, <1>3, <1>4, <1>5, <1>6, <1>7, RowStepInductive DEF StoreReadyText

(* The statement of StoreSilent. *)
LEMMA StoreSilentStep ==
  ASSUME Inductive, TypeOK', StoreSilent
  PROVE  Inductive'
<1>1. Label = "store_silent"
  BY  DEF StoreSilent, RowStep, At, Label
<1>2. "store_silent" \in JobLabels /\ "cleanup_audio" \in JobLabels \cup {"settle"}
  BY  DEF JobLabels, StartLabels, EndLabels, StoreLabels, ReadyLabels,
     RetryLabels, AgainLabels, OtherLabels
<1>3. /\ ~IsRow(NoRow) => NoRow = NoRow
      /\ NoRow.stage \in {"no_speech", "deleted"} => ~NoRow.raw
      /\ IsRow(NoRow) => Knows("cleanup_audio", NoRow)
  BY <1>1, <1>2, KnownRow DEF Knows, Rows, Updated, IsRow, NoRow, StartLabels,
     EndLabels, StoreLabels, ReadyLabels, RetryLabels, AgainLabels,
     OtherLabels, PasteAgainAllowed, RetryAllowed
<1>4. IsRow(NoRow) /\ chords[Job("daemon")] > 0 => SettledRow(NoRow)
  BY <1>1, <1>2, KnownRow DEF Inductive, NotYetPasted, FreshLabels, Knows,
     SettledRow, InFlight, RetryAllowed, Rows, Updated, IsRow, NoRow,
     StartLabels, EndLabels, StoreLabels, ReadyLabels, RetryLabels,
     AgainLabels, OtherLabels
<1>5. IsRow(NoRow) /\ ActiveRecording(Job("daemon")) => RecordingRow(NoRow)
  BY <1>1, <1>2, KnownRow DEF Inductive, RowOfRecording, RecordingRow,
     ActiveRecording, Knows, Rows, Updated, IsRow, NoRow, PasteAgainAllowed,
     RetryAllowed, StartLabels, EndLabels, StoreLabels, ReadyLabels,
     RetryLabels, AgainLabels, OtherLabels
<1>6. "cleanup_audio" \in FreshLabels => chords[Job("daemon")] = 0
  BY <1>1 DEF Inductive, NotYetPasted, FreshLabels, StartLabels, EndLabels,
     StoreLabels, ReadyLabels, RetryLabels
<1>7. /\ "cleanup_audio" \in PasteLabels => "store_silent" \in PasteLabels
      /\ "cleanup_audio" \in EndLabels => "store_silent" \in EndLabels
  BY  DEF PasteLabels, EndLabels, StoreLabels
<1>8. QED
  BY <1>2, <1>3, <1>4, <1>5, <1>6, <1>7, RowStepInductive DEF StoreSilent

(* The statement of StoreFailed. *)
LEMMA StoreFailedStep ==
  ASSUME Inductive, TypeOK', StoreFailed
  PROVE  Inductive'
<1>1. Label = "store_failed"
  BY  DEF StoreFailed, RowStep, At, Label
<1>2. "store_failed" \in JobLabels /\ "settle" \in JobLabels \cup {"settle"}
  BY  DEF JobLabels, StartLabels, EndLabels, StoreLabels, ReadyLabels,
     RetryLabels, AgainLabels, OtherLabels
<1>3. /\ ~IsRow(UpdateStage(Row, "failed")) => UpdateStage(Row, "failed") = NoRow
      /\ UpdateStage(Row, "failed").stage \in {"no_speech", "deleted"} => ~UpdateStage(Row, "failed").raw
      /\ IsRow(UpdateStage(Row, "failed")) => Knows("settle", UpdateStage(Row, "failed"))
  BY <1>1, <1>2, KnownRow DEF Knows, Rows, Updated, IsRow, NoRow, UpdateStage,
     StartLabels, EndLabels, StoreLabels, ReadyLabels, RetryLabels,
     AgainLabels, OtherLabels, PasteAgainAllowed, RetryAllowed
<1>4. IsRow(UpdateStage(Row, "failed")) /\ chords[Job("daemon")] > 0 => SettledRow(UpdateStage(Row, "failed"))
  BY <1>1, <1>2, KnownRow DEF Inductive, NotYetPasted, FreshLabels, Knows,
     SettledRow, InFlight, RetryAllowed, Rows, Updated, IsRow, NoRow,
     UpdateStage, StartLabels, EndLabels, StoreLabels, ReadyLabels,
     RetryLabels, AgainLabels, OtherLabels
<1>5. IsRow(UpdateStage(Row, "failed")) /\ ActiveRecording(Job("daemon")) => RecordingRow(UpdateStage(Row, "failed"))
  BY <1>1, <1>2, KnownRow DEF Inductive, RowOfRecording, RecordingRow,
     ActiveRecording, Knows, Rows, Updated, IsRow, NoRow, PasteAgainAllowed,
     RetryAllowed, UpdateStage, StartLabels, EndLabels, StoreLabels,
     ReadyLabels, RetryLabels, AgainLabels, OtherLabels
<1>6. "settle" \in FreshLabels => chords[Job("daemon")] = 0
  BY <1>1 DEF Inductive, NotYetPasted, FreshLabels, StartLabels, EndLabels,
     StoreLabels, ReadyLabels, RetryLabels
<1>7. /\ "settle" \in PasteLabels => "store_failed" \in PasteLabels
      /\ "settle" \in EndLabels => "store_failed" \in EndLabels
  BY  DEF PasteLabels, EndLabels, StoreLabels
<1>8. QED
  BY <1>2, <1>3, <1>4, <1>5, <1>6, <1>7, RowStepInductive DEF StoreFailed

(* The statement of FailStep. *)
LEMMA FailStepStep ==
  ASSUME Inductive, TypeOK', FailStep
  PROVE  Inductive'
<1>1. Label = "fail_job"
  BY  DEF FailStep, RowStep, At, Label
<1>2. "fail_job" \in JobLabels /\ "settle" \in JobLabels \cup {"settle"}
  BY  DEF JobLabels, StartLabels, EndLabels, StoreLabels, ReadyLabels,
     RetryLabels, AgainLabels, OtherLabels
<1>3. /\ ~IsRow(FailJob(Row)) => FailJob(Row) = NoRow
      /\ FailJob(Row).stage \in {"no_speech", "deleted"} => ~FailJob(Row).raw
      /\ IsRow(FailJob(Row)) => Knows("settle", FailJob(Row))
  BY <1>1, <1>2, KnownRow DEF Knows, Rows, Updated, IsRow, NoRow, FailJob,
     StartLabels, EndLabels, StoreLabels, ReadyLabels, RetryLabels,
     AgainLabels, OtherLabels, PasteAgainAllowed, RetryAllowed
<1>4. IsRow(FailJob(Row)) /\ chords[Job("daemon")] > 0 => SettledRow(FailJob(Row))
  BY <1>1, <1>2, KnownRow DEF Inductive, NotYetPasted, FreshLabels, Knows,
     SettledRow, InFlight, RetryAllowed, Rows, Updated, IsRow, NoRow, FailJob,
     StartLabels, EndLabels, StoreLabels, ReadyLabels, RetryLabels,
     AgainLabels, OtherLabels
<1>5. IsRow(FailJob(Row)) /\ ActiveRecording(Job("daemon")) => RecordingRow(FailJob(Row))
  BY <1>1, <1>2, KnownRow DEF Inductive, RowOfRecording, RecordingRow,
     ActiveRecording, Knows, Rows, Updated, IsRow, NoRow, PasteAgainAllowed,
     RetryAllowed, FailJob, StartLabels, EndLabels, StoreLabels, ReadyLabels,
     RetryLabels, AgainLabels, OtherLabels
<1>6. "settle" \in FreshLabels => chords[Job("daemon")] = 0
  BY <1>1 DEF Inductive, NotYetPasted, FreshLabels, StartLabels, EndLabels,
     StoreLabels, ReadyLabels, RetryLabels
<1>7. /\ "settle" \in PasteLabels => "fail_job" \in PasteLabels
      /\ "settle" \in EndLabels => "fail_job" \in EndLabels
  BY  DEF PasteLabels, EndLabels, StoreLabels
<1>8. QED
  BY <1>2, <1>3, <1>4, <1>5, <1>6, <1>7, RowStepInductive DEF FailStep

(* The statement of GateRefused. *)
LEMMA GateRefusedStep ==
  ASSUME Inductive, TypeOK', GateRefused
  PROVE  Inductive'
<1>1. Label = "gate_blocked"
  BY  DEF GateRefused, RowStep, At, Label
<1>2. "gate_blocked" \in JobLabels /\ "fail_job" \in JobLabels \cup {"settle"}
  BY  DEF JobLabels, StartLabels, EndLabels, StoreLabels, ReadyLabels,
     RetryLabels, AgainLabels, OtherLabels
<1>3. /\ ~IsRow(GateBlocked(Row)) => GateBlocked(Row) = NoRow
      /\ GateBlocked(Row).stage \in {"no_speech", "deleted"} => ~GateBlocked(Row).raw
      /\ IsRow(GateBlocked(Row)) => Knows("fail_job", GateBlocked(Row))
  BY <1>1, <1>2, KnownRow DEF Knows, Rows, Updated, IsRow, NoRow, GateBlocked,
     StartLabels, EndLabels, StoreLabels, ReadyLabels, RetryLabels,
     AgainLabels, OtherLabels, PasteAgainAllowed, RetryAllowed
<1>4. IsRow(GateBlocked(Row)) /\ chords[Job("daemon")] > 0 => SettledRow(GateBlocked(Row))
  BY <1>1, <1>2, KnownRow DEF Inductive, NotYetPasted, FreshLabels, Knows,
     SettledRow, InFlight, RetryAllowed, Rows, Updated, IsRow, NoRow,
     GateBlocked, StartLabels, EndLabels, StoreLabels, ReadyLabels,
     RetryLabels, AgainLabels, OtherLabels
<1>5. IsRow(GateBlocked(Row)) /\ ActiveRecording(Job("daemon")) => RecordingRow(GateBlocked(Row))
  BY <1>1, <1>2, KnownRow DEF Inductive, RowOfRecording, RecordingRow,
     ActiveRecording, Knows, Rows, Updated, IsRow, NoRow, PasteAgainAllowed,
     RetryAllowed, GateBlocked, StartLabels, EndLabels, StoreLabels,
     ReadyLabels, RetryLabels, AgainLabels, OtherLabels
<1>6. "fail_job" \in FreshLabels => chords[Job("daemon")] = 0
  BY <1>1 DEF Inductive, NotYetPasted, FreshLabels, StartLabels, EndLabels,
     StoreLabels, ReadyLabels, RetryLabels
<1>7. /\ "fail_job" \in PasteLabels => "gate_blocked" \in PasteLabels
      /\ "fail_job" \in EndLabels => "gate_blocked" \in EndLabels
  BY  DEF PasteLabels, EndLabels, StoreLabels
<1>8. QED
  BY <1>2, <1>3, <1>4, <1>5, <1>6, <1>7, RowStepInductive DEF GateRefused

(* The statement of Attempt. *)
LEMMA AttemptStep ==
  ASSUME Inductive, TypeOK', Attempt
  PROVE  Inductive'
<1>1. Label = "attempt"
  BY  DEF Attempt, RowStep, At, Label
<1>2. "attempt" \in JobLabels /\ "deliver" \in JobLabels \cup {"settle"}
  BY  DEF JobLabels, StartLabels, EndLabels, StoreLabels, ReadyLabels,
     RetryLabels, AgainLabels, OtherLabels
<1>3. /\ ~IsRow(Attempting(Row)) => Attempting(Row) = NoRow
      /\ Attempting(Row).stage \in {"no_speech", "deleted"} => ~Attempting(Row).raw
      /\ IsRow(Attempting(Row)) => Knows("deliver", Attempting(Row))
  BY <1>1, <1>2, KnownRow DEF Knows, Rows, Updated, IsRow, NoRow, Attempting,
     StartLabels, EndLabels, StoreLabels, ReadyLabels, RetryLabels,
     AgainLabels, OtherLabels, PasteAgainAllowed, RetryAllowed
<1>4. IsRow(Attempting(Row)) /\ chords[Job("daemon")] > 0 => SettledRow(Attempting(Row))
  BY <1>1, <1>2, KnownRow DEF Inductive, NotYetPasted, FreshLabels, Knows,
     SettledRow, InFlight, RetryAllowed, Rows, Updated, IsRow, NoRow,
     Attempting, StartLabels, EndLabels, StoreLabels, ReadyLabels,
     RetryLabels, AgainLabels, OtherLabels
<1>5. IsRow(Attempting(Row)) /\ ActiveRecording(Job("daemon")) => RecordingRow(Attempting(Row))
  BY <1>1, <1>2, KnownRow DEF Inductive, RowOfRecording, RecordingRow,
     ActiveRecording, Knows, Rows, Updated, IsRow, NoRow, PasteAgainAllowed,
     RetryAllowed, Attempting, StartLabels, EndLabels, StoreLabels,
     ReadyLabels, RetryLabels, AgainLabels, OtherLabels
<1>6. "deliver" \in FreshLabels => chords[Job("daemon")] = 0
  BY <1>1 DEF Inductive, NotYetPasted, FreshLabels, StartLabels, EndLabels,
     StoreLabels, ReadyLabels, RetryLabels
<1>7. /\ "deliver" \in PasteLabels => "attempt" \in PasteLabels
      /\ "deliver" \in EndLabels => "attempt" \in EndLabels
  BY  DEF PasteLabels, EndLabels, StoreLabels
<1>8. QED
  BY <1>2, <1>3, <1>4, <1>5, <1>6, <1>7, RowStepInductive DEF Attempt

(* The statement of RecordSubmitted. *)
LEMMA RecordSubmittedStep ==
  ASSUME Inductive, TypeOK', RecordSubmitted
  PROVE  Inductive'
<1>1. Label = "record_submitted"
  BY  DEF RecordSubmitted, RowStep, At, Label
<1>2. "record_submitted" \in JobLabels /\ "read_result" \in JobLabels \cup {"settle"}
  BY  DEF JobLabels, StartLabels, EndLabels, StoreLabels, ReadyLabels,
     RetryLabels, AgainLabels, OtherLabels
<1>3. /\ ~IsRow(Submitted(Row)) => Submitted(Row) = NoRow
      /\ Submitted(Row).stage \in {"no_speech", "deleted"} => ~Submitted(Row).raw
      /\ IsRow(Submitted(Row)) => Knows("read_result", Submitted(Row))
  BY <1>1, <1>2, KnownRow DEF Knows, Rows, Updated, IsRow, NoRow, Submitted,
     StartLabels, EndLabels, StoreLabels, ReadyLabels, RetryLabels,
     AgainLabels, OtherLabels, PasteAgainAllowed, RetryAllowed
<1>4. IsRow(Submitted(Row)) /\ chords[Job("daemon")] > 0 => SettledRow(Submitted(Row))
  BY <1>1, <1>2, KnownRow DEF Inductive, NotYetPasted, FreshLabels, Knows,
     SettledRow, InFlight, RetryAllowed, Rows, Updated, IsRow, NoRow,
     Submitted, StartLabels, EndLabels, StoreLabels, ReadyLabels, RetryLabels,
     AgainLabels, OtherLabels
<1>5. IsRow(Submitted(Row)) /\ ActiveRecording(Job("daemon")) => RecordingRow(Submitted(Row))
  BY <1>1, <1>2, KnownRow DEF Inductive, RowOfRecording, RecordingRow,
     ActiveRecording, Knows, Rows, Updated, IsRow, NoRow, PasteAgainAllowed,
     RetryAllowed, Submitted, StartLabels, EndLabels, StoreLabels,
     ReadyLabels, RetryLabels, AgainLabels, OtherLabels
<1>6. "read_result" \in FreshLabels => chords[Job("daemon")] = 0
  BY <1>1 DEF Inductive, NotYetPasted, FreshLabels, StartLabels, EndLabels,
     StoreLabels, ReadyLabels, RetryLabels
<1>7. /\ "read_result" \in PasteLabels => "record_submitted" \in PasteLabels
      /\ "read_result" \in EndLabels => "record_submitted" \in EndLabels
  BY  DEF PasteLabels, EndLabels, StoreLabels
<1>8. QED
  BY <1>2, <1>3, <1>4, <1>5, <1>6, <1>7, RowStepInductive DEF RecordSubmitted

(* The statement of RecordAmbiguous. *)
LEMMA RecordAmbiguousStep ==
  ASSUME Inductive, TypeOK', RecordAmbiguous
  PROVE  Inductive'
<1>1. Label = "record_ambiguous"
  BY  DEF RecordAmbiguous, RowStep, At, Label
<1>2. "record_ambiguous" \in JobLabels /\ "read_result" \in JobLabels \cup {"settle"}
  BY  DEF JobLabels, StartLabels, EndLabels, StoreLabels, ReadyLabels,
     RetryLabels, AgainLabels, OtherLabels
<1>3. /\ ~IsRow(Ambiguous(Row)) => Ambiguous(Row) = NoRow
      /\ Ambiguous(Row).stage \in {"no_speech", "deleted"} => ~Ambiguous(Row).raw
      /\ IsRow(Ambiguous(Row)) => Knows("read_result", Ambiguous(Row))
  BY <1>1, <1>2, KnownRow DEF Knows, Rows, Updated, IsRow, NoRow, Ambiguous,
     StartLabels, EndLabels, StoreLabels, ReadyLabels, RetryLabels,
     AgainLabels, OtherLabels, PasteAgainAllowed, RetryAllowed
<1>4. IsRow(Ambiguous(Row)) /\ chords[Job("daemon")] > 0 => SettledRow(Ambiguous(Row))
  BY <1>1, <1>2, KnownRow DEF Inductive, NotYetPasted, FreshLabels, Knows,
     SettledRow, InFlight, RetryAllowed, Rows, Updated, IsRow, NoRow,
     Ambiguous, StartLabels, EndLabels, StoreLabels, ReadyLabels, RetryLabels,
     AgainLabels, OtherLabels
<1>5. IsRow(Ambiguous(Row)) /\ ActiveRecording(Job("daemon")) => RecordingRow(Ambiguous(Row))
  BY <1>1, <1>2, KnownRow DEF Inductive, RowOfRecording, RecordingRow,
     ActiveRecording, Knows, Rows, Updated, IsRow, NoRow, PasteAgainAllowed,
     RetryAllowed, Ambiguous, StartLabels, EndLabels, StoreLabels,
     ReadyLabels, RetryLabels, AgainLabels, OtherLabels
<1>6. "read_result" \in FreshLabels => chords[Job("daemon")] = 0
  BY <1>1 DEF Inductive, NotYetPasted, FreshLabels, StartLabels, EndLabels,
     StoreLabels, ReadyLabels, RetryLabels
<1>7. /\ "read_result" \in PasteLabels => "record_ambiguous" \in PasteLabels
      /\ "read_result" \in EndLabels => "record_ambiguous" \in EndLabels
  BY  DEF PasteLabels, EndLabels, StoreLabels
<1>8. QED
  BY <1>2, <1>3, <1>4, <1>5, <1>6, <1>7, RowStepInductive DEF RecordAmbiguous

(* The statement of RecordNotSent. *)
LEMMA RecordNotSentStep ==
  ASSUME Inductive, TypeOK', RecordNotSent
  PROVE  Inductive'
<1>1. Label = "record_not_sent"
  BY  DEF RecordNotSent, RowStep, At, Label
<1>2. "record_not_sent" \in JobLabels /\ "read_result" \in JobLabels \cup {"settle"}
  BY  DEF JobLabels, StartLabels, EndLabels, StoreLabels, ReadyLabels,
     RetryLabels, AgainLabels, OtherLabels
<1>3. /\ ~IsRow(NotSent(Row)) => NotSent(Row) = NoRow
      /\ NotSent(Row).stage \in {"no_speech", "deleted"} => ~NotSent(Row).raw
      /\ IsRow(NotSent(Row)) => Knows("read_result", NotSent(Row))
  BY <1>1, <1>2, KnownRow DEF Knows, Rows, Updated, IsRow, NoRow, NotSent,
     StartLabels, EndLabels, StoreLabels, ReadyLabels, RetryLabels,
     AgainLabels, OtherLabels, PasteAgainAllowed, RetryAllowed
<1>4. IsRow(NotSent(Row)) /\ chords[Job("daemon")] > 0 => SettledRow(NotSent(Row))
  BY <1>1, <1>2, KnownRow DEF Inductive, NotYetPasted, FreshLabels, Knows,
     SettledRow, InFlight, RetryAllowed, Rows, Updated, IsRow, NoRow, NotSent,
     StartLabels, EndLabels, StoreLabels, ReadyLabels, RetryLabels,
     AgainLabels, OtherLabels
<1>5. IsRow(NotSent(Row)) /\ ActiveRecording(Job("daemon")) => RecordingRow(NotSent(Row))
  BY <1>1, <1>2, KnownRow DEF Inductive, RowOfRecording, RecordingRow,
     ActiveRecording, Knows, Rows, Updated, IsRow, NoRow, PasteAgainAllowed,
     RetryAllowed, NotSent, StartLabels, EndLabels, StoreLabels, ReadyLabels,
     RetryLabels, AgainLabels, OtherLabels
<1>6. "read_result" \in FreshLabels => chords[Job("daemon")] = 0
  BY <1>1 DEF Inductive, NotYetPasted, FreshLabels, StartLabels, EndLabels,
     StoreLabels, ReadyLabels, RetryLabels
<1>7. /\ "read_result" \in PasteLabels => "record_not_sent" \in PasteLabels
      /\ "read_result" \in EndLabels => "record_not_sent" \in EndLabels
  BY  DEF PasteLabels, EndLabels, StoreLabels
<1>8. QED
  BY <1>2, <1>3, <1>4, <1>5, <1>6, <1>7, RowStepInductive DEF RecordNotSent

(* The statement of RetryUpdate. *)
LEMMA RetryUpdateStep ==
  ASSUME Inductive, TypeOK', RetryUpdate
  PROVE  Inductive'
<1>1. Label = "retry_update"
  BY  DEF RetryUpdate, RowStep, At, Label
<1>2. "retry_update" \in JobLabels /\ "retry_read" \in JobLabels \cup {"settle"}
  BY  DEF JobLabels, StartLabels, EndLabels, StoreLabels, ReadyLabels,
     RetryLabels, AgainLabels, OtherLabels
<1>3. /\ ~IsRow(RetryTranscription(Row)) => RetryTranscription(Row) = NoRow
      /\ RetryTranscription(Row).stage \in {"no_speech", "deleted"} => ~RetryTranscription(Row).raw
      /\ IsRow(RetryTranscription(Row)) => Knows("retry_read", RetryTranscription(Row))
  BY <1>1, <1>2, KnownRow DEF Knows, Rows, Updated, IsRow, NoRow,
     RetryTranscription, StartLabels, EndLabels, StoreLabels, ReadyLabels,
     RetryLabels, AgainLabels, OtherLabels, PasteAgainAllowed, RetryAllowed
<1>4. IsRow(RetryTranscription(Row)) /\ chords[Job("daemon")] > 0 => SettledRow(RetryTranscription(Row))
  BY <1>1, <1>2, KnownRow DEF Inductive, NotYetPasted, FreshLabels, Knows,
     SettledRow, InFlight, RetryAllowed, Rows, Updated, IsRow, NoRow,
     RetryTranscription, StartLabels, EndLabels, StoreLabels, ReadyLabels,
     RetryLabels, AgainLabels, OtherLabels
<1>5. IsRow(RetryTranscription(Row)) /\ ActiveRecording(Job("daemon")) => RecordingRow(RetryTranscription(Row))
  BY <1>1, <1>2, KnownRow DEF Inductive, RowOfRecording, RecordingRow,
     ActiveRecording, Knows, Rows, Updated, IsRow, NoRow, PasteAgainAllowed,
     RetryAllowed, RetryTranscription, StartLabels, EndLabels, StoreLabels,
     ReadyLabels, RetryLabels, AgainLabels, OtherLabels
<1>6. "retry_read" \in FreshLabels => chords[Job("daemon")] = 0
  BY <1>1 DEF Inductive, NotYetPasted, FreshLabels, StartLabels, EndLabels,
     StoreLabels, ReadyLabels, RetryLabels
<1>7. /\ "retry_read" \in PasteLabels => "retry_update" \in PasteLabels
      /\ "retry_read" \in EndLabels => "retry_update" \in EndLabels
  BY  DEF PasteLabels, EndLabels, StoreLabels
<1>8. QED
  BY <1>2, <1>3, <1>4, <1>5, <1>6, <1>7, RowStepInductive DEF RetryUpdate

(* The statement of AgainUpdate. *)
LEMMA AgainUpdateStep ==
  ASSUME Inductive, TypeOK', AgainUpdate
  PROVE  Inductive'
<1>1. Label = "again_update"
  BY  DEF AgainUpdate, RowStep, At, Label
<1>2. "again_update" \in JobLabels /\ "again_read" \in JobLabels \cup {"settle"}
  BY  DEF JobLabels, StartLabels, EndLabels, StoreLabels, ReadyLabels,
     RetryLabels, AgainLabels, OtherLabels
<1>3. /\ ~IsRow(RetryDelivery(Row)) => RetryDelivery(Row) = NoRow
      /\ RetryDelivery(Row).stage \in {"no_speech", "deleted"} => ~RetryDelivery(Row).raw
      /\ IsRow(RetryDelivery(Row)) => Knows("again_read", RetryDelivery(Row))
  BY <1>1, <1>2, KnownRow DEF Knows, Rows, Updated, IsRow, NoRow,
     RetryDelivery, StartLabels, EndLabels, StoreLabels, ReadyLabels,
     RetryLabels, AgainLabels, OtherLabels, PasteAgainAllowed, RetryAllowed
<1>4. IsRow(RetryDelivery(Row)) /\ chords[Job("daemon")] > 0 => SettledRow(RetryDelivery(Row))
  BY <1>1, <1>2, KnownRow DEF Inductive, NotYetPasted, FreshLabels, Knows,
     SettledRow, InFlight, RetryAllowed, Rows, Updated, IsRow, NoRow,
     RetryDelivery, StartLabels, EndLabels, StoreLabels, ReadyLabels,
     RetryLabels, AgainLabels, OtherLabels
<1>5. IsRow(RetryDelivery(Row)) /\ ActiveRecording(Job("daemon")) => RecordingRow(RetryDelivery(Row))
  BY <1>1, <1>2, KnownRow DEF Inductive, RowOfRecording, RecordingRow,
     ActiveRecording, Knows, Rows, Updated, IsRow, NoRow, PasteAgainAllowed,
     RetryAllowed, RetryDelivery, StartLabels, EndLabels, StoreLabels,
     ReadyLabels, RetryLabels, AgainLabels, OtherLabels
<1>6. "again_read" \in FreshLabels => chords[Job("daemon")] = 0
  BY <1>1 DEF Inductive, NotYetPasted, FreshLabels, StartLabels, EndLabels,
     StoreLabels, ReadyLabels, RetryLabels
<1>7. /\ "again_read" \in PasteLabels => "again_update" \in PasteLabels
      /\ "again_read" \in EndLabels => "again_update" \in EndLabels
  BY  DEF PasteLabels, EndLabels, StoreLabels
<1>8. QED
  BY <1>2, <1>3, <1>4, <1>5, <1>6, <1>7, RowStepInductive DEF AgainUpdate

(* The steps of retention and of a delete, in either thread. *)
LEMMA RetentionStep ==
  ASSUME Inductive, TypeOK', NEW c \in Threads, RetentionSteps(c)
  PROVE  Inductive'
<1> DEFINE quiet == {"expire_next", "expire_row", "delete_move", "delete_row",
                     "delete_restore", "delete_unlink", "settle"}
<1>1. UNCHANGED <<recorded, activity, tickets, chords, born>>
  BY DEF RetentionSteps, ExpireList, ExpireNext, ExpireRow, DeleteMove, DeleteRow,
         DeleteRestore, DeleteUnlink, allButFrame, allButRow, allButAudio, stored
<1>2. \A j \in Jobs : Unwritten(jobs[j], jobs'[j])
  <2>1. jobs' = jobs \/ jobs' = [jobs EXCEPT ![Victim(c)] = NoRow]
    BY DEF RetentionSteps, ExpireList, ExpireNext, ExpireRow, DeleteMove, DeleteRow,
           DeleteRestore, DeleteUnlink, allButFrame, allButRow, allButAudio, stored,
           Statement, Put
  <2>2. QED
    BY <2>1 DEF Unwritten, Inductive, RowsAreWhole, TypeOK, IsRow, NoRow
<1>3. c = "maintenance" => frame'["daemon"] = frame["daemon"]
  BY DEF RetentionSteps, ExpireList, ExpireNext, ExpireRow, DeleteMove, DeleteRow,
         DeleteRestore, DeleteUnlink, Statement, Go, Turn, Inductive, TypeOK, Threads
<1>4. ASSUME c = "daemon" PROVE DaemonIsQuiet
  <2>1. \A label \in {"expire_next", "delete_row", "delete_restore", "delete_unlink"} :
          Job("daemon") \in born \/ (~InRetention("daemon") /\ label # "expire_next") =>
          (Go("daemon", label) => DaemonIsQuiet)
    BY GoesOn DEF DaemonIsQuiet, Inductive, TypeOK, Labels, DaemonLabels, SharedLabels,
       QuietLabels, InRetention, Retains, JobLabels, StartLabels, EndLabels, StoreLabels,
       ReadyLabels, RetryLabels, AgainLabels, OtherLabels
  <2>2. Go("daemon", "settle") => DaemonIsQuiet
    BY GoesOn DEF DaemonIsQuiet, Inductive, TypeOK, Labels, DaemonLabels, SharedLabels,
       QuietLabels, Retains, JobLabels, StartLabels, EndLabels, StoreLabels,
       ReadyLabels, RetryLabels, AgainLabels, OtherLabels
  <2>3. Job("daemon") \in born => (Go("daemon", "cleanup_audio") => DaemonIsQuiet)
    BY GoesOn DEF DaemonIsQuiet, Inductive, TypeOK, Labels, DaemonLabels, QuietLabels, OtherLabels
  <2>4. CASE ExpireList("daemon")
    <3>1. Job("daemon") \in born
      BY <2>4 DEF ExpireList, At, Inductive, CommandHasJob, Label, JobLabels, OtherLabels
    <3>2. ASSUME NEW todo,
                 Turn("daemon", [frame["daemon"] EXCEPT
                                   !.at = "expire_next", !.goal = "retention", !.todo = todo])
          PROVE  DaemonIsQuiet
      BY <3>1, <3>2 DEF Turn, DaemonIsQuiet, Inductive, TypeOK, Threads, Frames, Label, Job,
         QuietLabels, SharedLabels
    <3>3. QED
      BY <2>3, <2>4, <3>1, <3>2 DEF ExpireList, AfterRetention
  <2>5. CASE ExpireNext("daemon")
    <3>1. Job("daemon") \in born
      BY <2>5 DEF ExpireNext, At, Inductive, CommandHasJob, Label, Retains
    <3>2. ASSUME NEW label \in {"expire_row", "delete_move", "expire_next"}, NEW todo, NEW j,
                 Turn("daemon", [frame["daemon"] EXCEPT
                                   !.at = label, !.todo = todo, !.victim = j])
          PROVE  DaemonIsQuiet
      BY <3>1, <3>2 DEF Turn, DaemonIsQuiet, Inductive, TypeOK, Threads, Frames, Label, Job,
         QuietLabels, SharedLabels
    <3>3. QED
      BY <2>3, <2>5, <3>1, <3>2 DEF ExpireNext, AfterRetention
  <2>6. CASE ExpireRow("daemon")
    <3>1. Job("daemon") \in born
      BY <2>6 DEF ExpireRow, At, Inductive, CommandHasJob, Label, Retains
    <3>2. QED
      BY <2>1, <2>3, <2>6, <3>1 DEF ExpireRow, Statement, AfterRetention
  <2>7. Label \in SharedLabels /\ InRetention("daemon") => Job("daemon") \in born
    BY DEF Inductive, CommandHasJob, Retains
  <2>8. CASE DeleteMove("daemon")
    <3>1. ASSUME NEW moved,
                 Turn("daemon", [frame["daemon"] EXCEPT !.at = "delete_row", !.moved = moved])
          PROVE  DaemonIsQuiet
      BY <2>7, <2>8, <3>1 DEF DeleteMove, At, Turn, DaemonIsQuiet, Inductive, TypeOK, Threads,
         Frames, Label, Job, QuietLabels, SharedLabels, Retains, InRetention, JobLabels,
         StartLabels, EndLabels, StoreLabels, ReadyLabels, RetryLabels, AgainLabels, OtherLabels
    <3>2. Label \in SharedLabels
      BY <2>8 DEF DeleteMove, At, Label, SharedLabels
    <3>3. QED
      BY <2>1, <2>2, <2>7, <2>8, <3>1, <3>2 DEF DeleteMove, AfterDelete
  <2>9. CASE DeleteRow("daemon")
    <3>1. Label \in SharedLabels
      BY <2>9 DEF DeleteRow, At, Label, SharedLabels
    <3>2. QED
      BY <2>1, <2>2, <2>3, <2>7, <2>9, <3>1
      DEF DeleteRow, Statement, AfterDelete, AfterFailedDelete, AfterRetention
  <2>10. CASE DeleteRestore("daemon") \/ DeleteUnlink("daemon")
    <3>1. Label \in SharedLabels
      BY <2>10 DEF DeleteRestore, DeleteUnlink, At, Label, SharedLabels
    <3>2. QED
      BY <2>1, <2>2, <2>3, <2>7, <2>10, <3>1
      DEF DeleteRestore, DeleteUnlink, AfterDelete, AfterFailedDelete, AfterRetention
  <2>11. QED
    BY <1>4, <2>4, <2>5, <2>6, <2>8, <2>9, <2>10 DEF RetentionSteps
<1>5. RecordedOnce'
  BY <1>1 DEF RecordedOnce, Inductive
<1>6. QED
  BY <1>1, <1>2, <1>3, <1>4, <1>5, QuietStep DEF Threads, DaemonIsQuiet

(* The steps only the maintenance thread takes. *)
LEMMA MaintenanceStep ==
  ASSUME Inductive, TypeOK', MaintenanceSteps
  PROVE  Inductive'
<1>1. UNCHANGED <<activity, tickets, chords, born>>
  BY Zenon DEF MaintenanceSteps, StartMaintenance, ListFinished, NextFinished, FinishRow,
         ListOrphans, RemoveOrphan, allButFrame, allButAudio, stored
<1>2. jobs' = jobs \/ jobs' = [jobs EXCEPT ![Victim("maintenance")] = NoRow]
  BY DEF MaintenanceSteps, StartMaintenance, ListFinished, NextFinished, FinishRow,
         ListOrphans, RemoveOrphan, allButFrame, allButAudio, stored,
         Statement, CompleteDelivered, Put
<1>3. \A j \in Jobs : Unwritten(jobs[j], jobs'[j])
  BY <1>2 DEF Unwritten, Inductive, RowsAreWhole, TypeOK, IsRow, NoRow
<1>4. \/ recorded' = recorded
      \/ /\ recorded[Victim("maintenance")] = 0
         /\ recorded' = [recorded EXCEPT ![Victim("maintenance")] = @ + 1]
  BY DEF MaintenanceSteps, StartMaintenance, ListFinished, NextFinished, FinishRow,
         ListOrphans, RemoveOrphan, allButFrame, allButAudio, stored, CompleteDelivered
<1>5. RecordedOnce'
  BY <1>4 DEF RecordedOnce, Inductive, TypeOK
<1>6. frame'["daemon"] = frame["daemon"]
  BY DEF MaintenanceSteps, StartMaintenance, ListFinished, NextFinished, FinishRow,
         ListOrphans, RemoveOrphan, Take, Statement, CompleteDelivered, Go, Turn,
         Inductive, TypeOK, Threads
<1>7. QED
  BY <1>1, <1>3, <1>5, <1>6, QuietStep DEF DaemonIsQuiet

--------------------------------------------------------------------------------
(* The start and the end of the process *)

(* Reconciling never takes a pasted row back. *)
LEMMA ReconciledRow ==
  ASSUME NEW row \in Rows, IsRow(row),
         NEW new \in {row, ReconcileAmbiguous(row), ReconcileInterrupted(row)}
  PROVE  /\ new.raw = row.raw
         /\ new.stage \in {"failed", "interrupted", row.stage}
         /\ SettledRow(row) => SettledRow(new)
  BY DEF Rows, IsRow, ReconcileAmbiguous, ReconcileInterrupted, Ambiguous, UpdateStage,
         Updated, SettledRow, InFlight, RetryAllowed

LEMMA StartStep ==
  ASSUME Inductive, TypeOK', StartSteps
  PROVE  Inductive'
<1> DEFINE down == {"down", "open_ambiguous", "open_interrupted", "open_deletions"}
<1>1. Label \in down /\ activity = NoActivity
  BY DEF StartSteps, Boot, OpenAmbiguous, OpenInterrupted, ReconcileRecoveryDeletion, Serve,
         At, Label, Inductive, CommandHasJob
<1>2. UNCHANGED <<recorded, activity, tickets, chords, born>>
  BY Zenon DEF StartSteps, Boot, OpenAmbiguous, OpenInterrupted, ReconcileRecoveryDeletion,
         Serve, allButFrame, allButAudio, stored
<1>3. \/ jobs' = jobs
      \/ jobs' = [j \in Jobs |-> ReconcileAmbiguous(jobs[j])]
      \/ jobs' = [j \in Jobs |-> ReconcileInterrupted(jobs[j])]
  BY Zenon DEF StartSteps, Boot, OpenAmbiguous, OpenInterrupted, ReconcileRecoveryDeletion,
         Serve, allButFrame, allButAudio, stored
<1>4. ASSUME NEW j \in Jobs
      PROVE  /\ ~IsRow(jobs[j]) => jobs'[j] = NoRow
             /\ IsRow(jobs[j]) =>
                  /\ jobs'[j].raw = jobs[j].raw
                  /\ jobs'[j].stage \in {"failed", "interrupted", jobs[j].stage}
                  /\ chords[j] > 0 => SettledRow(jobs'[j])
  <2>1. jobs'[j] \in {jobs[j], ReconcileAmbiguous(jobs[j]), ReconcileInterrupted(jobs[j])}
    BY <1>3
  <2>2. jobs[j] \in Rows
    BY DEF Inductive, TypeOK
  <2>3. CASE IsRow(jobs[j])
    BY <2>1, <2>2, <2>3, ReconciledRow DEF Inductive, PastedIsSettled
  <2>4. CASE ~IsRow(jobs[j])
    <3>1. jobs[j] = NoRow
      BY <2>4 DEF Inductive, RowsAreWhole
    <3>2. ReconcileAmbiguous(NoRow) = NoRow /\ ReconcileInterrupted(NoRow) = NoRow
      BY DEF NoRow, ReconcileAmbiguous, ReconcileInterrupted, InFlight
    <3>3. QED
      BY <2>1, <2>4, <3>1, <3>2
  <2>5. QED
    BY <2>3, <2>4
<1>5. RowsAreWhole' /\ UnbornIsBlank' /\ PastedIsSettled'
  BY <1>2, <1>4 DEF Inductive, RowsAreWhole, UnbornIsBlank, PastedIsSettled, IsRow, NoRow
<1>6. AtMostOneAutomaticPaste' /\ RecordedOnce'
  BY <1>2 DEF Inductive, AtMostOneAutomaticPaste, RecordedOnce
<1>7. /\ Label' \in down \cup {"idle"}
      /\ Label' = "idle" => ~frame'["daemon"].settles
  <2>1. \A label \in down : Go("daemon", label) => Label' = label
    BY GoesOn DEF Inductive, TypeOK, Labels, DaemonLabels
  <2>2. Serve => Label' = "idle" /\ ~frame'["daemon"].settles
    BY DEF Serve, Label, AtRest, Inductive, TypeOK, Threads
  <2>3. frame' = frame => Label' = Label
    BY DEF Label
  <2>4. QED
    BY <1>1, <2>1, <2>2, <2>3 DEF StartSteps, Boot, OpenAmbiguous, OpenInterrupted,
       ReconcileRecoveryDeletion
<1>8. QED
  BY <1>1, <1>2, <1>5, <1>6, <1>7, Rests DEF NoActivity

LEMMA EndStep ==
  ASSUME Inductive, TypeOK', EndSteps
  PROVE  Inductive'
<1>1. /\ Label' = "down" /\ activity' = NoActivity /\ UNCHANGED <<jobs, recorded, chords, born>>
      /\ tickets' = [j \in Jobs |-> 0]
  BY DEF EndSteps, Crash, PanicExit, Quit, ProcessEnds, stored, Label, AtRest, Threads
<1>2. RowsAreWhole' /\ UnbornIsBlank' /\ PastedIsSettled' /\ AtMostOneAutomaticPaste' /\ RecordedOnce'
  BY <1>1 DEF Inductive, RowsAreWhole, UnbornIsBlank, PastedIsSettled,
              AtMostOneAutomaticPaste, RecordedOnce
<1>3. QED
  BY <1>1, <1>2, Rests DEF NoActivity

--------------------------------------------------------------------------------
(* Recording *)

(* A command of the user's finds the lock free and nothing in its frame. *)
LEMMA Free ==
  ASSUME Inductive, Unlocked
  PROVE  Label = "idle" /\ ~frame["daemon"].settles
  BY DEF Unlocked, At, Label, Inductive, RowOfRecording

LEMMA StartRecordingStep ==
  ASSUME Inductive, TypeOK', NEW j \in Jobs, StartRecording(j)
  PROVE  Inductive'
<1> USE DEF Inductive
<1>1. /\ UNCHANGED <<recorded, activity, tickets, chords>> /\ born' = born \cup {j}
      /\ activity = NoActivity /\ chords[j] = 0 /\ Label = "idle"
      /\ jobs' = [jobs EXCEPT ![j] = InsertStarting]
  BY Free DEF StartRecording, Put, UnbornIsBlank
<1>2. /\ IsRow(InsertStarting) /\ Knows("recorder_start", InsertStarting)
      /\ InsertStarting.stage \notin {"no_speech", "deleted"}
  BY DEF InsertStarting, NoRow, IsRow, Knows, StartLabels, StoreLabels, ReadyLabels
<1>3. RowsAreWhole' /\ UnbornIsBlank' /\ PastedIsSettled'
  <2>1. \A i \in Jobs : jobs'[i] = IF i = j THEN InsertStarting ELSE jobs[i]
    BY <1>1 DEF TypeOK
  <2>2. QED
    BY <1>1, <1>2, <2>1 DEF RowsAreWhole, UnbornIsBlank, PastedIsSettled
<1>4. AtMostOneAutomaticPaste' /\ RecordedOnce'
  BY <1>1 DEF AtMostOneAutomaticPaste, RecordedOnce
<1>5. CASE frame' = frame
  <2>1. Label' = "idle" /\ ~frame'["daemon"].settles
    BY <1>1, <1>5, Free DEF StartRecording, Label
  <2>2. QED
    BY <1>1, <1>3, <1>4, <2>1, Rests DEF NoActivity
<1>6. CASE Command([AtRest("recorder_start") EXCEPT !.job = j])
  <2>1. Label' = "recorder_start" /\ Job("daemon")' = j /\ frame'["daemon"].pastes = FALSE
    BY <1>6, NewCommand DEF TypeOK, Label, Job, AtRest
  <2>2. Row' = InsertStarting
    BY <1>1, <2>1 DEF Row, TypeOK
  <2>3. CommandHasJob' /\ NotYetPasted' /\ PastesTheCurrent'
    BY <1>1, <2>1 DEF CommandHasJob, NotYetPasted, PastesTheCurrent, NoActivity
  <2>4. RowOfCommand'
    BY <1>2, <2>1, <2>2 DEF RowOfCommand
  <2>5. RowOfRecording'
    BY <1>1, <2>1 DEF RowOfRecording, ActiveRecording, NoActivity, EndLabels
  <2>6. QED
    BY <1>3, <1>4, <2>3, <2>4, <2>5
<1>7. QED
  BY <1>5, <1>6 DEF StartRecording

LEMMA RecorderStartStep ==
  ASSUME Inductive, TypeOK', RecorderStart
  PROVE  Inductive'
<1>1. Label = "recorder_start" /\ UNCHANGED <<jobs, recorded, activity, tickets, chords, born>>
  BY DEF RecorderStart, At, Label
<1>2. PICK next \in {"checkpoint", "interrupt_start"} : Go("daemon", next)
  BY DEF RecorderStart
<1>3. IsRow(Row) => Knows(next, Row)
  BY <1>1, KnownRow DEF Knows, JobLabels, StartLabels, StoreLabels, ReadyLabels
<1>4. next \in Labels \ {"off"} /\ Label \in JobLabels /\ next \in JobLabels
  BY <1>1 DEF Labels, DaemonLabels, JobLabels, StartLabels
<1>5. chords[Job("daemon")] = 0 /\ next \notin PasteLabels \cup EndLabels
  BY <1>1 DEF Inductive, NotYetPasted, FreshLabels, PasteLabels, StartLabels, StoreLabels, EndLabels
<1>6. QED
  BY <1>1, <1>2, <1>3, <1>4, <1>5, GoesOn, CommandMoves DEF Inductive, TypeOK

LEMMA AbortStartStep ==
  ASSUME Inductive, TypeOK', AbortStart
  PROVE  Inductive'
<1>1. /\ Label = "abort_start" /\ UNCHANGED <<jobs, recorded, activity, tickets, chords, born>>
      /\ Go("daemon", "interrupt_start")
  BY DEF AbortStart, At, Label, stored
<1>2. IsRow(Row) => Knows("interrupt_start", Row)
  BY <1>1, KnownRow DEF Knows, JobLabels, StartLabels, StoreLabels, ReadyLabels
<1>3. /\ "interrupt_start" \in Labels \ {"off"}
      /\ Label \in JobLabels /\ "interrupt_start" \in JobLabels
  BY <1>1 DEF Labels, DaemonLabels, JobLabels, StartLabels
<1>4. chords[Job("daemon")] = 0 /\ "interrupt_start" \notin PasteLabels \cup EndLabels
  BY <1>1 DEF Inductive, NotYetPasted, FreshLabels, PasteLabels, StartLabels, StoreLabels, EndLabels
<1>5. QED
  BY <1>1, <1>2, <1>3, <1>4, GoesOn, CommandMoves DEF Inductive, TypeOK

(* The lock is released with the job's row written and the activity set. *)
LEMMA CheckpointRecordingStep ==
  ASSUME Inductive, TypeOK', CheckpointRecording
  PROVE  Inductive'
<1> DEFINE row == UpdateStage(Row, "recording")
<1>1. Label = "checkpoint" /\ Label \in JobLabels
      /\ UNCHANGED <<recorded, tickets, chords, born>>
  BY DEF CheckpointRecording, At, Label, JobLabels, StartLabels
<1>2. /\ ~IsRow(row) => row = NoRow
      /\ IsRow(row) => RecordingRow(row) /\ Knows("settle", row)
      /\ row.stage \notin {"no_speech", "deleted"}
  BY <1>1, KnownRow DEF UpdateStage, Updated, IsRow, NoRow, Rows, Knows, RecordingRow,
          StartLabels, EndLabels, StoreLabels, ReadyLabels, JobLabels
<1>3. chords[Job("daemon")] = 0 /\ Job("daemon") \in born /\ Job("daemon") \in Jobs
  BY <1>1, KnownRow DEF Inductive, NotYetPasted, FreshLabels, StartLabels
<1>4. CASE /\ Put(Job("daemon"), row)
           /\ activity' = [kind |-> "recording", job |-> Job("daemon"), pastes |-> FALSE]
           /\ Command(AtRest("idle"))
  <2>1. Label' = "idle" /\ ~frame'["daemon"].settles
    BY <1>4, NewCommand DEF Inductive, TypeOK, Label, AtRest
  <2>2. \A j \in Jobs : jobs'[j] = IF j = Job("daemon") THEN row ELSE jobs[j]
    BY <1>4 DEF Put, Inductive, TypeOK
  <2>3. RowsAreWhole' /\ UnbornIsBlank' /\ PastedIsSettled' /\ AtMostOneAutomaticPaste' /\ RecordedOnce'
    BY <1>1, <1>2, <1>3, <2>2 DEF Inductive, RowsAreWhole, UnbornIsBlank, PastedIsSettled,
            AtMostOneAutomaticPaste, RecordedOnce
  <2>4. QED
    BY <1>1, <1>2, <1>3, <1>4, <2>1, <2>2, <2>3, Rests
<1>5. CASE /\ UNCHANGED <<jobs, activity>> /\ Go("daemon", "abort_start")
  <2>1. /\ "abort_start" \in Labels \ {"off"} /\ "abort_start" \in JobLabels
        /\ "abort_start" \notin PasteLabels \cup EndLabels
    BY DEF Labels, DaemonLabels, JobLabels, StartLabels, PasteLabels, StoreLabels, EndLabels
  <2>2. IsRow(Row) => Knows("abort_start", Row)
    BY <1>1, KnownRow DEF Knows, StartLabels, StoreLabels, ReadyLabels
  <2>3. QED
    BY <1>1, <1>3, <1>5, <2>1, <2>2, GoesOn, CommandMoves DEF Inductive, TypeOK
<1> HIDE DEF row
<1>6. CASE Put(Job("daemon"), row) /\ Go("daemon", "settle") /\ UNCHANGED activity
  <2>1. "settle" \in Labels \ {"off"} /\ "settle" \notin FreshLabels \cup PasteLabels \cup EndLabels
    BY DEF Labels, DaemonLabels, FreshLabels, PasteLabels, StartLabels, EndLabels,
           StoreLabels, RetryLabels
  <2>2. /\ jobs' = [jobs EXCEPT ![Job("daemon")] = row]
        /\ Label' = "settle" /\ Job("daemon")' = Job("daemon")
        /\ frame'["daemon"].settles = frame["daemon"].settles
        /\ frame'["daemon"].pastes = frame["daemon"].pastes
    BY <1>6, <2>1, GoesOn DEF Put, Inductive, TypeOK
  <2>3. UNCHANGED <<recorded, activity, tickets, chords, born>>
    BY <1>1, <1>6
  <2>4. /\ IsRow(row) /\ chords[Job("daemon")] > 0 => SettledRow(row)
        /\ IsRow(row) /\ ActiveRecording(Job("daemon")) => RecordingRow(row)
        /\ row.stage \in {"no_speech", "deleted"} => ~row.raw
    BY <1>2, <1>3
  <2>5. frame'["daemon"].pastes => frame["daemon"].pastes
    BY <2>2
  <2>6. "settle" \in JobLabels \cup {"settle", "panicked"}
    OBVIOUS
  <2>7. QED
    BY <1>1, <1>2, <2>1, <2>2, <2>3, <2>4, <2>5, <2>6, CommandStep
<1>7. QED
  BY <1>4, <1>5, <1>6 DEF CheckpointRecording, UnreadStatement, Row, row

LEMMA FinishRecordingStep ==
  ASSUME Inductive, TypeOK', NEW goal \in {"stop", "discard", "preserve"}, FinishRecording(goal)
  PROVE  Inductive'
<1>1. /\ Label = "idle" /\ ActiveRecording(activity.job) /\ activity.kind = "recording"
      /\ UNCHANGED <<jobs, recorded, activity, tickets, chords, born>>
  BY Free DEF FinishRecording, ActiveRecording, allButFrame, stored
<1>2. /\ activity.job \in born /\ activity.job \in Jobs /\ chords[activity.job] = 0
      /\ \A i \in Jobs \ born : tickets'[i] = 0
  BY <1>1 DEF Inductive, CommandHasJob, NotYetPasted, UnbornIsBlank, TypeOK
<1>3. IsRow(jobs[activity.job]) => Knows("finish", jobs[activity.job])
  BY <1>1, <1>2 DEF Inductive, RowOfRecording, RecordingRow, Knows, StartLabels, StoreLabels, ReadyLabels
<1>4. /\ Label' = "finish" /\ Job("daemon")' = activity.job
      /\ frame'["daemon"].settles = TRUE /\ frame'["daemon"].pastes = FALSE
  BY NewCommand DEF FinishRecording, Inductive, TypeOK, Label, Job, AtRest
<1>5. QED
  BY <1>1, <1>2, <1>3, <1>4, Begins DEF JobLabels, EndLabels

LEMMA RecorderFinishStep ==
  ASSUME Inductive, TypeOK', RecorderFinish
  PROVE  Inductive'
<1>1. Label = "finish" /\ UNCHANGED <<jobs, recorded, activity, tickets, chords, born>>
  BY DEF RecorderFinish, At, Label, stored
<1>2. PICK next \in {"capture", "interrupt_recording"} : Go("daemon", next)
  BY DEF RecorderFinish
<1>3. IsRow(Row) => Knows(next, Row)
  BY <1>1, KnownRow DEF Knows, JobLabels, StartLabels, EndLabels, StoreLabels, ReadyLabels
<1>4. next \in Labels \ {"off"} /\ Label \in JobLabels /\ Label \in EndLabels /\ next \in JobLabels
  BY <1>1 DEF Labels, DaemonLabels, JobLabels, EndLabels
<1>5. chords[Job("daemon")] = 0 /\ next \notin PasteLabels
  BY <1>1 DEF Inductive, NotYetPasted, FreshLabels, PasteLabels, StoreLabels, EndLabels
<1>6. QED
  BY <1>1, <1>2, <1>3, <1>4, <1>5, GoesOn, CommandMoves DEF Inductive, TypeOK

LEMMA CaptureRecordingStep ==
  ASSUME Inductive, TypeOK', CaptureRecording
  PROVE  Inductive'
<1>1. /\ Label = "capture" /\ Label \in JobLabels /\ Label \in EndLabels
      /\ UNCHANGED <<recorded, activity, tickets, chords, born>>
  BY DEF CaptureRecording, At, Label, JobLabels, EndLabels, allButRow
<1>2. PICK long \in BOOLEAN, next \in {"begin", "discard", "interrupt_captured"} :
        \/ Statement("daemon", Job("daemon"), Captured(Row, long), next, "interrupt_recording")
        \/ UnreadStatement("daemon", Captured(Row, long), "settle")
  BY DEF CaptureRecording
<1> DEFINE row == Captured(Row, long)
<1>3. /\ ~IsRow(row) => row = NoRow
      /\ row.stage \notin {"no_speech", "deleted"}
      /\ IsRow(row) => Knows(next, row) /\ Knows("settle", row)
  BY <1>1, KnownRow DEF Captured, Updated, IsRow, NoRow, Rows, Knows,
          StartLabels, EndLabels, StoreLabels, ReadyLabels
<1>4. chords[Job("daemon")] = 0 /\ ~ActiveRecording(Job("daemon"))
  BY <1>1 DEF Inductive, NotYetPasted, FreshLabels, RowOfRecording, ActiveRecording
<1>5. /\ {"begin", "discard", "interrupt_captured", "interrupt_recording", "settle"} \subseteq Labels \ {"off"}
      /\ {"begin", "discard", "interrupt_captured", "interrupt_recording"} \subseteq JobLabels
      /\ \A label \in {"begin", "discard", "interrupt_captured", "interrupt_recording", "settle"} :
           label \notin PasteLabels
  BY DEF Labels, DaemonLabels, JobLabels, EndLabels, PasteLabels, StoreLabels
<1> HIDE DEF row
<1>6. ASSUME NEW to \in {next, "settle"}, Put(Job("daemon"), row), Go("daemon", to)
      PROVE  Inductive'
  <2>1. /\ jobs' = [jobs EXCEPT ![Job("daemon")] = row]
        /\ Label' = to /\ Job("daemon")' = Job("daemon")
        /\ frame'["daemon"].settles = frame["daemon"].settles
        /\ frame'["daemon"].pastes = frame["daemon"].pastes
    BY <1>5, <1>6, GoesOn DEF Put, Inductive, TypeOK
  <2>2. IsRow(row) => Knows(to, row)
    BY <1>3
  <2>3. /\ row.stage \in {"no_speech", "deleted"} => ~row.raw
        /\ IsRow(row) /\ chords[Job("daemon")] > 0 => SettledRow(row)
        /\ IsRow(row) /\ ActiveRecording(Job("daemon")) => RecordingRow(row)
        /\ to \in FreshLabels => chords[Job("daemon")] = 0
    BY <1>3, <1>4
  <2>4. /\ to \in JobLabels \cup {"settle", "panicked"}
        /\ to \in PasteLabels => Label \in PasteLabels
        /\ to \in EndLabels => Label \in EndLabels
    BY <1>1, <1>5
  <2>5. frame'["daemon"].pastes => frame["daemon"].pastes
    BY <2>1
  <2>6. QED
    BY <1>1, <1>3, <2>1, <2>2, <2>3, <2>4, <2>5, CommandStep
<1>7. CASE Go("daemon", "interrupt_recording") /\ UNCHANGED jobs
  <2>1. Knows("interrupt_recording", Row)
    BY DEF Knows, StartLabels, StoreLabels, ReadyLabels
  <2>2. QED
    BY <1>1, <1>4, <1>5, <1>7, <2>1, GoesOn, CommandMoves DEF Inductive, TypeOK
<1>8. QED
  BY <1>2, <1>6, <1>7 DEF Statement, UnreadStatement, row


(* The command gives up, whatever its row has become. *)
LEMMA SettleLabel ==
  /\ "settle" \in Labels \ {"off"}
  /\ "settle" \notin FreshLabels \cup PasteLabels \cup EndLabels
  /\ \A row : Knows("settle", row)
  BY DEF Labels, DaemonLabels, FreshLabels, PasteLabels, StartLabels, EndLabels,
         StoreLabels, RetryLabels, ReadyLabels, Knows

LEMMA GivesUp ==
  ASSUME Inductive, TypeOK', Label \in JobLabels, Go("daemon", "settle"),
         UNCHANGED <<jobs, recorded, activity, tickets, chords, born>>
  PROVE  Inductive'
  BY SettleLabel, GoesOn, CommandMoves DEF Inductive, TypeOK

LEMMA SettleStep ==
  ASSUME Inductive, TypeOK', Settle
  PROVE  Inductive'
<1>1. /\ Label = "settle" /\ UNCHANGED <<jobs, recorded, tickets, chords, born>>
      /\ activity' = IF frame["daemon"].settles THEN NoActivity ELSE activity
  BY DEF Settle, At, Label, stored
<1>2. Label' = "idle" /\ ~frame'["daemon"].settles
  BY NewCommand DEF Settle, Inductive, TypeOK, Label, AtRest
<1>3. RowsAreWhole' /\ UnbornIsBlank' /\ PastedIsSettled' /\ AtMostOneAutomaticPaste' /\ RecordedOnce'
  BY <1>1 DEF Inductive, RowsAreWhole, UnbornIsBlank, PastedIsSettled,
              AtMostOneAutomaticPaste, RecordedOnce
<1>4. /\ activity'.kind # "idle" => activity'.job \in born'
      /\ activity'.kind = "recording" =>
           /\ chords'[activity'.job] = 0
           /\ IsRow(jobs'[activity'.job]) => RecordingRow(jobs'[activity'.job])
  BY <1>1 DEF Inductive, CommandHasJob, NotYetPasted, RowOfRecording, ActiveRecording,
              NoActivity, TypeOK
<1>5. QED
  BY <1>2, <1>3, <1>4, Rests

LEMMA BeginTranscriptionStep ==
  ASSUME Inductive, TypeOK', BeginTranscription
  PROVE  Inductive'
<1> DEFINE row == UpdateStage(Row, "transcribing")
<1>1. /\ Label = "begin" /\ Label \in JobLabels /\ Label \in EndLabels
      /\ UNCHANGED <<recorded, chords, born>>
  BY DEF BeginTranscription, At, Label, JobLabels, EndLabels
<1>2. /\ ~IsRow(row) => row = NoRow
      /\ row.stage \notin {"no_speech", "deleted"}
  BY <1>1, KnownRow DEF UpdateStage, Updated, IsRow, NoRow, Rows
<1>3. /\ chords[Job("daemon")] = 0 /\ Job("daemon") \in born /\ Job("daemon") \in Jobs
      /\ ~ActiveRecording(Job("daemon"))
  BY <1>1, KnownRow DEF Inductive, NotYetPasted, FreshLabels, RowOfRecording, ActiveRecording
<1> HIDE DEF row
<1>4. CASE /\ Put(Job("daemon"), row)
           /\ activity' = [kind |-> "processing", job |-> Job("daemon"), pastes |-> TRUE]
           /\ tickets' = [tickets EXCEPT ![Job("daemon")] = @ + 1]
           /\ Command(AtRest("idle"))
  <2>1. Label' = "idle" /\ ~frame'["daemon"].settles
    BY <1>4, NewCommand DEF Inductive, TypeOK, Label, AtRest
  <2>2. \A j \in Jobs : /\ jobs'[j] = IF j = Job("daemon") THEN row ELSE jobs[j]
                        /\ j # Job("daemon") => tickets'[j] = tickets[j]
    BY <1>4 DEF Put, Inductive, TypeOK
  <2>3. RowsAreWhole' /\ UnbornIsBlank' /\ PastedIsSettled' /\ AtMostOneAutomaticPaste' /\ RecordedOnce'
    BY <1>1, <1>2, <1>3, <2>2 DEF Inductive, RowsAreWhole, UnbornIsBlank, PastedIsSettled,
            AtMostOneAutomaticPaste, RecordedOnce
  <2>4. QED
    BY <1>1, <1>3, <1>4, <2>1, <2>3, Rests
<1>5. CASE Go("daemon", "settle") /\ UNCHANGED <<jobs, activity, tickets>>
  BY <1>1, <1>5, GivesUp
<1>6. CASE Put(Job("daemon"), row) /\ Go("daemon", "settle") /\ UNCHANGED <<activity, tickets>>
  <2>1. /\ jobs' = [jobs EXCEPT ![Job("daemon")] = row]
        /\ Label' = "settle" /\ Job("daemon")' = Job("daemon")
        /\ frame'["daemon"].settles = frame["daemon"].settles
        /\ frame'["daemon"].pastes => frame["daemon"].pastes
    BY <1>6, SettleLabel, GoesOn DEF Put, Inductive, TypeOK
  <2>2. /\ row.stage \in {"no_speech", "deleted"} => ~row.raw
        /\ IsRow(row) /\ chords[Job("daemon")] > 0 => SettledRow(row)
        /\ IsRow(row) /\ ActiveRecording(Job("daemon")) => RecordingRow(row)
        /\ IsRow(row) => Knows("settle", row)
    BY <1>2, <1>3, SettleLabel
  <2>3. UNCHANGED <<recorded, activity, tickets, chords, born>>
    BY <1>1, <1>6
  <2>4. "settle" \in JobLabels \cup {"settle", "panicked"}
    OBVIOUS
  <2>5. QED
    BY <1>1, <1>2, <2>1, <2>2, <2>3, <2>4, SettleLabel, CommandStep
<1>7. QED
  BY <1>4, <1>5, <1>6 DEF BeginTranscription, UnreadStatement, Row, row

LEMMA DiscardRecordingStep ==
  ASSUME Inductive, TypeOK', DiscardRecording
  PROVE  Inductive'
<1>1. /\ Label = "discard" /\ "discard" \in JobLabels /\ "discard" \in EndLabels
      /\ UNCHANGED <<recorded, activity, tickets, chords, born>>
  BY DEF DiscardRecording, At, Label, JobLabels, EndLabels, allButRow
<1>2. /\ chords[Job("daemon")] = 0 /\ Job("daemon") \in born
      /\ ~ActiveRecording(Job("daemon"))
  BY <1>1, KnownRow DEF Inductive, NotYetPasted, FreshLabels, RowOfRecording, ActiveRecording
<1>3. ASSUME NEW row \in {NoRow, UpdateStage(Row, "cancelled")},
             RowStep("discard", row, "settle", "settle")
      PROVE  Inductive'
  <2>1. Row \in Rows /\ (~IsRow(Row) => Row = NoRow) /\ Row.stage \in {"none", "captured"}
    BY <1>1, KnownRow DEF Knows, IsRow
  <2>2. CASE row = NoRow
    BY <2>2, <1>1, <1>2, <1>3, SettleLabel, RowStepInductive DEF NoRow, IsRow
  <2>3. CASE row = UpdateStage(Row, "cancelled")
    <3>1. /\ ~IsRow(row) => row = NoRow
          /\ row.stage \in {"none", "cancelled"}
      BY <2>1, <2>3 DEF UpdateStage, Updated, IsRow, NoRow, Rows
    <3>2. QED
      BY <1>1, <1>2, <1>3, <3>1, SettleLabel, RowStepInductive
  <2>4. QED
    BY <2>2, <2>3
<1>4. CASE /\ Command([frame["daemon"] EXCEPT !.at = "delete_move", !.victim = Job("daemon")])
           /\ UNCHANGED jobs
  <2>1. DaemonIsQuiet
    BY <1>2, <1>4, NewCommand DEF DaemonIsQuiet, Inductive, TypeOK, Threads, Frames, Label, Job,
       QuietLabels, SharedLabels
  <2>2. \A j \in Jobs : Unwritten(jobs[j], jobs'[j])
    BY <1>4 DEF Unwritten, Inductive, RowsAreWhole
  <2>3. RecordedOnce'
    BY <1>1 DEF Inductive, RecordedOnce
  <2>4. QED
    BY <1>1, <2>1, <2>2, <2>3, QuietStep
<1>5. QED
  BY <1>3, <1>4 DEF DiscardRecording, RowStep

--------------------------------------------------------------------------------
(* A transcription's result and its delivery *)

LEMMA TranscriptionDoneStep ==
  ASSUME Inductive, TypeOK', NEW j \in Jobs, TranscriptionDone(j)
  PROVE  Inductive'
<1>1. /\ Label = "idle" /\ tickets[j] > 0 /\ tickets' = [tickets EXCEPT ![j] = @ - 1]
      /\ UNCHANGED <<jobs, recorded, activity, chords, born>>
  BY Free DEF TranscriptionDone, stored
<1>2. PICK label \in {"settle", "store_raw", "store_failed", "store_silent"} :
        /\ Resume(j, label)
        /\ label # "settle" => jobs[j].stage = "transcribing"
        /\ label = "store_silent" => ~jobs[j].raw
  BY DEF TranscriptionDone
<1>3. /\ j \in born
      /\ \A i \in Jobs \ born : tickets'[i] = 0
  BY <1>1 DEF Inductive, UnbornIsBlank, TypeOK
<1>4. /\ Label' = label /\ Job("daemon")' = j
      /\ frame'["daemon"].pastes => activity.kind = "processing" /\ activity.job = j /\ activity.pastes
  <2>1. frame'["daemon"] = [AtRest(label) EXCEPT !.job = j, !.settles = IsCurrent(j),
                                              !.pastes = IsCurrent(j) /\ activity.pastes]
    BY <1>2, NewCommand DEF Resume, Inductive, TypeOK
  <2>2. /\ frame'["daemon"].at = label /\ frame'["daemon"].job = j
        /\ frame'["daemon"].pastes = (IsCurrent(j) /\ activity.pastes)
    BY <2>1 DEF AtRest
  <2>3. QED
    BY <2>2 DEF IsCurrent, Label, Job
<1>5. label # "settle" => chords[j] = 0
  <2>1. chords[j] > 0 /\ IsRow(jobs[j]) => ~InFlight(jobs[j])
    BY DEF Inductive, PastedIsSettled, SettledRow
  <2>2. QED
    BY <1>2, <2>1 DEF InFlight, IsRow, Inductive, TypeOK
<1>6. /\ label \in JobLabels \cup {"settle"} /\ label \notin EndLabels
      /\ label \in FreshLabels \cup PasteLabels => label # "settle"
  BY SettleLabel DEF JobLabels, StoreLabels, EndLabels
<1>7. Knows(label, jobs[j])
  BY <1>2 DEF Knows, StartLabels, EndLabels, StoreLabels, ReadyLabels
<1>8. QED
  BY <1>1, <1>3, <1>4, <1>5, <1>6, <1>7, Begins

(* A row is read back, or has vanished. *)
LEMMA ReadBackStep ==
  ASSUME Inductive, TypeOK', NEW here \in JobLabels, NEW next \in JobLabels \cup {"settle"},
         NEW onFault \in {"settle", "fail_job"},
         ReadBack(here, next, onFault),
         UNCHANGED <<jobs, recorded, activity, tickets, chords, born>>,
         IsRow(Row) => Knows(next, Row),
         next \notin FreshLabels \cup EndLabels,
         next \in PasteLabels => here \in PasteLabels
  PROVE  Inductive'
<1>1. Label = here
  BY DEF ReadBack, At, Label
<1>2. PICK to \in {next, onFault, "panicked"} : Go("daemon", to)
  BY DEF ReadBack
<1>3. /\ {onFault, "panicked"} \subseteq JobLabels \cup {"settle", "panicked"}
      /\ \A label \in {onFault, "panicked"} :
           /\ Knows(label, Row)
           /\ label \notin FreshLabels \cup PasteLabels \cup EndLabels
  BY DEF JobLabels, OtherLabels, Knows, FreshLabels, PasteLabels, StartLabels, EndLabels,
         StoreLabels, RetryLabels, ReadyLabels
<1>4. to \in Labels \ {"off"} /\ to \in JobLabels \cup {"settle", "panicked"}
  BY <1>2 DEF JobLabels, StartLabels, EndLabels, StoreLabels, ReadyLabels, RetryLabels,
         AgainLabels, OtherLabels, Labels, DaemonLabels, SharedLabels
<1>5. /\ IsRow(Row) => Knows(to, Row)
      /\ to \notin FreshLabels \cup EndLabels
      /\ to \in PasteLabels => Label \in PasteLabels
  BY <1>1, <1>2, <1>3
<1>6. QED
  BY <1>1, <1>2, <1>4, <1>5, GoesOn, CommandMoves DEF Inductive, TypeOK

LEMMA ReadReadyStep ==
  ASSUME Inductive, TypeOK', ReadReady
  PROVE  Inductive'
<1>1. Label = "read_ready" /\ UNCHANGED <<jobs, recorded, activity, tickets, chords, born>>
  BY DEF ReadReady, ReadBack, At, Label, allButFrame, stored
<1>2. /\ {"read_ready", "gate", "attempt"} \subseteq JobLabels
      /\ {"read_ready", "gate", "attempt"} \subseteq PasteLabels
      /\ \A label \in {"gate", "attempt"} : label \notin FreshLabels \cup EndLabels
  BY DEF JobLabels, ReadyLabels, PasteLabels, FreshLabels, StartLabels, EndLabels,
         StoreLabels, RetryLabels
<1>3. IsRow(Row) => Knows("gate", Row) /\ Knows("attempt", Row)
  BY <1>1, <1>2, KnownRow DEF Knows, StartLabels, StoreLabels, ReadyLabels
<1>4. ASSUME NEW next \in {"settle", "gate", "attempt"}, ReadBack("read_ready", next, "fail_job")
      PROVE  Inductive'
  BY <1>1, <1>2, <1>3, <1>4, SettleLabel, ReadBackStep
<1>5. CASE Command([frame["daemon"] EXCEPT !.at = "attempt", !.pastes = FALSE])
  <2>1. /\ Label' = "attempt" /\ Job("daemon")' = Job("daemon")
        /\ frame'["daemon"].settles = frame["daemon"].settles
        /\ frame'["daemon"].pastes = FALSE
    BY <1>5, NewCommand DEF Inductive, TypeOK, Threads, Frames, Label, Job
  <2>2. QED
    BY <1>1, <1>2, <1>3, <2>1, CommandMoves
<1>6. QED
  BY <1>4, <1>5 DEF ReadReady

LEMMA GateStep ==
  ASSUME Inductive, TypeOK', Gate
  PROVE  Inductive'
<1>1. Label = "gate" /\ UNCHANGED <<jobs, recorded, activity, tickets, chords, born>>
  BY DEF Gate, At, Label, allButFrame, stored
<1>2. PICK next \in {"attempt", "gate_blocked"} : Go("daemon", next)
  BY DEF Gate
<1>3. /\ Label \in JobLabels /\ Label \in PasteLabels /\ next \in JobLabels
      /\ next \in Labels \ {"off"} /\ next \notin FreshLabels \cup EndLabels
  BY <1>1, <1>2 DEF JobLabels, ReadyLabels, PasteLabels, FreshLabels, StartLabels, EndLabels,
         StoreLabels, RetryLabels, Labels, DaemonLabels
<1>4. IsRow(Row) => Knows(next, Row)
  BY <1>1, <1>2, <1>3, KnownRow DEF Knows, StartLabels, StoreLabels, ReadyLabels
<1>5. QED
  BY <1>1, <1>2, <1>3, <1>4, GoesOn, CommandMoves DEF Inductive, TypeOK

(* The one step that sends a chord: for a row never pasted, which stays settled. *)
LEMMA DeliverStep ==
  ASSUME Inductive, TypeOK', Deliver
  PROVE  Inductive'
<1> USE DEF Inductive
<1>1. Label = "deliver" /\ UNCHANGED <<jobs, recorded, activity, tickets, born>>
  BY DEF Deliver, At, Label, stored
<1>2. /\ Label \in JobLabels /\ Label \in ReadyLabels /\ Label \in PasteLabels
      /\ Job("daemon") \in born /\ Job("daemon") \in Jobs
  BY <1>1, KnownRow DEF JobLabels, ReadyLabels, PasteLabels
<1>3. PICK next \in {"record_submitted", "record_ambiguous", "record_not_sent"} :
        Go("daemon", next)
  BY DEF Deliver
<1>4. /\ Label' = next /\ Job("daemon")' = Job("daemon")
      /\ frame'["daemon"].settles = frame["daemon"].settles
  BY <1>3, GoesOn DEF TypeOK, Labels, DaemonLabels
<1>5. /\ next \in ReadyLabels /\ next \in JobLabels
      /\ next \notin FreshLabels \cup PasteLabels \cup EndLabels
  BY <1>3 DEF JobLabels, ReadyLabels, PasteLabels, FreshLabels, StartLabels, EndLabels,
         StoreLabels, RetryLabels
<1>6. \/ chords' = chords
      \/ frame["daemon"].pastes /\ chords' = [chords EXCEPT ![Job("daemon")] = @ + 1]
  BY DEF Deliver
<1>7. frame["daemon"].pastes => activity.kind = "processing" /\ chords[Job("daemon")] = 0
  BY <1>2 DEF PastesTheCurrent
<1>8. IsRow(Row) => SettledRow(Row) /\ Knows(next, Row)
  BY <1>1, <1>2, <1>3, KnownRow DEF Knows, SettledRow, InFlight, RetryAllowed, StartLabels, EndLabels,
     StoreLabels, ReadyLabels
<1>9. \A j \in Jobs : chords'[j] = chords[j] \/ (j = Job("daemon") /\ chords'[j] = 1)
  BY <1>2, <1>6, <1>7 DEF TypeOK
<1>10. RowsAreWhole' /\ UnbornIsBlank' /\ RecordedOnce' /\ AtMostOneAutomaticPaste' /\ PastedIsSettled'
  BY <1>1, <1>2, <1>8, <1>9 DEF RowsAreWhole, UnbornIsBlank, RecordedOnce,
     AtMostOneAutomaticPaste, PastedIsSettled, Row
<1>11. CommandHasJob'
  BY <1>1, <1>2, <1>4, <1>5, <1>3 DEF CommandHasJob, Retains, SharedLabels
<1>12. NotYetPasted' /\ PastesTheCurrent'
  BY <1>1, <1>4, <1>5, <1>6, <1>7 DEF NotYetPasted, PastesTheCurrent
<1>13. RowOfCommand' /\ RowOfRecording'
  <2>1. Row' = Row
    BY <1>1, <1>4 DEF Row
  <2>2. QED
    BY <1>1, <1>3, <1>4, <1>5, <1>8, <2>1 DEF RowOfCommand, RowOfRecording, ActiveRecording
<1>14. QED
  BY <1>10, <1>11, <1>12, <1>13

LEMMA ReadResultStep ==
  ASSUME Inductive, TypeOK', ReadResult
  PROVE  Inductive'
<1>1. UNCHANGED <<jobs, recorded, activity, tickets, chords, born>>
  BY DEF ReadResult, allButFrame, stored
<1>2. PICK next \in {"complete", "settle"} : ReadBack("read_result", next, "fail_job")
  BY DEF ReadResult
<1>3. /\ "read_result" \in JobLabels /\ next \in JobLabels \cup {"settle"}
      /\ next \notin FreshLabels \cup PasteLabels \cup EndLabels
      /\ Knows(next, Row)
  BY <1>2 DEF JobLabels, OtherLabels, PasteLabels, FreshLabels, StartLabels, EndLabels,
         StoreLabels, RetryLabels, ReadyLabels, Knows
<1>4. QED
  BY <1>1, <1>2, <1>3, ReadBackStep

LEMMA CompleteStep ==
  ASSUME Inductive, TypeOK', Complete
  PROVE  Inductive'
<1>1. /\ Label = "complete" /\ Label \in JobLabels /\ UNCHANGED <<activity, tickets, chords, born>>
      /\ CompleteDelivered("daemon", Job("daemon"), "expire_list", "cleanup_audio")
  BY DEF Complete, At, Label, JobLabels, OtherLabels
<1>2. Job("daemon") \in born /\ Job("daemon") \in Jobs
  BY <1>1, KnownRow
<1>3. \A j \in Jobs : Unwritten(jobs[j], jobs'[j])
  <2>1. jobs' = jobs \/ jobs' = [jobs EXCEPT ![Job("daemon")] = NoRow]
    BY <1>1 DEF CompleteDelivered, Put
  <2>2. QED
    BY <2>1 DEF Unwritten, Inductive, RowsAreWhole, TypeOK, IsRow, NoRow
<1>4. RecordedOnce'
  BY <1>1, <1>2 DEF CompleteDelivered, Inductive, RecordedOnce, TypeOK
<1>5. DaemonIsQuiet
  <2>1. PICK next \in {"expire_list", "cleanup_audio"} : Go("daemon", next)
    BY <1>1 DEF CompleteDelivered
  <2>2. next \in Labels \ {"off"} /\ next \in QuietLabels
    BY <2>1 DEF Labels, DaemonLabels, SharedLabels, QuietLabels, OtherLabels
  <2>3. QED
    BY <1>2, <2>1, <2>2, GoesOn DEF DaemonIsQuiet, Inductive, TypeOK
<1>6. QED
  BY <1>1, <1>3, <1>4, <1>5, QuietStep

LEMMA CleanupAudioStep ==
  ASSUME Inductive, TypeOK', CleanupAudio
  PROVE  Inductive'
<1>1. /\ Label = "cleanup_audio" /\ Label \in JobLabels /\ Go("daemon", "settle")
      /\ UNCHANGED <<jobs, recorded, activity, tickets, chords, born>>
  BY DEF CleanupAudio, At, Label, JobLabels, OtherLabels, allButAudio
<1>2. QED
  BY <1>1, GivesUp

--------------------------------------------------------------------------------
(* Recovery *)

LEMMA RetryTranscriptionOfStep ==
  ASSUME Inductive, TypeOK', NEW j \in Jobs, RetryTranscriptionOf(j)
  PROVE  Inductive'
<1>1. /\ Label = "idle" /\ RetryAllowed(jobs[j])
      /\ UNCHANGED <<jobs, recorded, activity, tickets, chords, born>>
  BY Free DEF RetryTranscriptionOf, allButFrame, stored
<1>2. /\ j \in born /\ chords[j] = 0
      /\ \A i \in Jobs \ born : tickets'[i] = 0
  <2>1. IsRow(jobs[j])
    BY <1>1 DEF RetryAllowed, IsRow
  <2>2. QED
    BY <1>1, <2>1 DEF Inductive, UnbornIsBlank, PastedIsSettled, SettledRow, TypeOK, NoRow, IsRow
<1>3. Label' = "retry_update" /\ Job("daemon")' = j /\ frame'["daemon"].pastes = FALSE
  BY NewCommand DEF RetryTranscriptionOf, Inductive, TypeOK, Label, Job, AtRest
<1>4. "retry_update" \in JobLabels /\ "retry_update" \notin EndLabels /\ Knows("retry_update", jobs[j])
  BY <1>1 DEF JobLabels, RetryLabels, EndLabels, Knows, StartLabels, StoreLabels, ReadyLabels
<1>5. QED
  BY <1>1, <1>2, <1>3, <1>4, Begins

LEMMA PasteAgainStep ==
  ASSUME Inductive, TypeOK', NEW j \in Jobs, PasteAgain(j)
  PROVE  Inductive'
<1>1. /\ Label = "idle" /\ PasteAgainAllowed(jobs[j])
      /\ UNCHANGED <<jobs, recorded, activity, tickets, chords, born>>
  BY Free DEF PasteAgain, allButFrame, stored
<1>2. j \in born /\ \A i \in Jobs \ born : tickets'[i] = 0
  BY <1>1 DEF Inductive, UnbornIsBlank, PasteAgainAllowed, NoRow, IsRow
<1>3. Label' = "again_update" /\ Job("daemon")' = j /\ frame'["daemon"].pastes = FALSE
  BY NewCommand DEF PasteAgain, Inductive, TypeOK, Label, Job, AtRest
<1>4. /\ "again_update" \in JobLabels /\ "again_update" \notin EndLabels \cup FreshLabels
      /\ Knows("again_update", jobs[j])
  BY <1>1 DEF JobLabels, AgainLabels, RetryLabels, EndLabels, FreshLabels, Knows, StartLabels,
     StoreLabels, ReadyLabels
<1>5. QED
  BY <1>1, <1>2, <1>3, <1>4, Begins

LEMMA RetryReadStep ==
  ASSUME Inductive, TypeOK', RetryRead
  PROVE  Inductive'
<1>1. /\ Label = "retry_read" /\ Label \in JobLabels
      /\ UNCHANGED <<jobs, recorded, chords, born>>
  BY DEF RetryRead, At, Label, JobLabels, RetryLabels, stored
<1>2. Job("daemon") \in born /\ Job("daemon") \in Jobs
  BY <1>1, KnownRow
<1>3. CASE /\ activity' = [kind |-> "processing", job |-> Job("daemon"), pastes |-> FALSE]
           /\ tickets' = [tickets EXCEPT ![Job("daemon")] = @ + 1]
           /\ Command(AtRest("idle"))
  <2>1. Label' = "idle" /\ ~frame'["daemon"].settles
    BY <1>3, NewCommand DEF Inductive, TypeOK, Label, AtRest
  <2>2. RowsAreWhole' /\ UnbornIsBlank' /\ PastedIsSettled' /\ AtMostOneAutomaticPaste' /\ RecordedOnce'
    BY <1>1, <1>2, <1>3 DEF Inductive, RowsAreWhole, UnbornIsBlank, PastedIsSettled,
            AtMostOneAutomaticPaste, RecordedOnce, TypeOK
  <2>3. QED
    BY <1>1, <1>2, <1>3, <2>1, <2>2, Rests
<1>4. CASE Go("daemon", "settle") /\ UNCHANGED <<activity, tickets>>
  BY <1>1, <1>4, GivesUp
<1>5. CASE Go("daemon", "panicked") /\ UNCHANGED <<activity, tickets>>
  <2>1. /\ "panicked" \in Labels \ {"off"} /\ Knows("panicked", Row)
        /\ "panicked" \notin FreshLabels \cup PasteLabels \cup EndLabels
    BY DEF Labels, DaemonLabels, FreshLabels, PasteLabels, StartLabels, EndLabels,
           StoreLabels, RetryLabels, ReadyLabels, Knows
  <2>2. QED
    BY <1>1, <1>5, <2>1, GoesOn, CommandMoves DEF Inductive, TypeOK
<1>6. QED
  BY <1>3, <1>4, <1>5 DEF RetryRead

LEMMA AgainReadStep ==
  ASSUME Inductive, TypeOK', AgainRead
  PROVE  Inductive'
<1>1. /\ Label = "again_read" /\ UNCHANGED <<jobs, recorded, activity, tickets, chords, born>>
      /\ ReadBack("again_read", "attempt", "settle")
  BY DEF AgainRead, ReadBack, At, Label, allButFrame, stored
<1>2. /\ "again_read" \in JobLabels /\ "again_read" \in PasteLabels /\ "attempt" \in JobLabels
      /\ "attempt" \notin FreshLabels \cup EndLabels
  BY DEF JobLabels, AgainLabels, ReadyLabels, PasteLabels, FreshLabels, StartLabels, EndLabels,
         StoreLabels, RetryLabels
<1>3. IsRow(Row) => Knows("attempt", Row)
  BY <1>1, <1>2, KnownRow DEF Knows, StartLabels, StoreLabels, ReadyLabels
<1>4. QED
  BY <1>1, <1>2, <1>3, ReadBackStep

LEMMA DeleteRecoveryStep ==
  ASSUME Inductive, TypeOK', NEW j \in Jobs, DeleteRecovery(j)
  PROVE  Inductive'
<1>1. /\ UNCHANGED <<jobs, recorded, activity, tickets, chords, born>>
      /\ frame["daemon"].settles = FALSE
  BY Free DEF DeleteRecovery, allButFrame, stored, Inductive, TypeOK, Frames, Threads
<1>2. frame'["daemon"] = [AtRest("delete_move") EXCEPT !.victim = j, !.goal = "user"]
  BY NewCommand DEF DeleteRecovery, Inductive, TypeOK
<1>3. DaemonIsQuiet
  <2>1. /\ frame'["daemon"].at = "delete_move" /\ frame'["daemon"].goal = "user"
        /\ frame'["daemon"].settles = FALSE
    BY <1>2 DEF AtRest
  <2>2. Label' = "delete_move" /\ ~Retains'
    BY <2>1 DEF Label, Retains, InRetention
  <2>3. "delete_move" \in QuietLabels /\ "delete_move" \notin JobLabels
    BY DEF QuietLabels, SharedLabels, JobLabels, StartLabels, EndLabels, StoreLabels,
       ReadyLabels, RetryLabels, AgainLabels, OtherLabels
  <2>4. QED
    BY <1>1, <2>1, <2>2, <2>3 DEF DaemonIsQuiet
<1>4. RecordedOnce' /\ \A i \in Jobs : Unwritten(jobs[i], jobs'[i])
  BY <1>1 DEF Inductive, RecordedOnce, RowsAreWhole, Unwritten
<1>5. QED
  BY <1>1, <1>3, <1>4, QuietStep

LEMMA CancelProcessingStep ==
  ASSUME Inductive, TypeOK', CancelProcessing
  PROVE  Inductive'
<1>1. /\ UNCHANGED <<jobs, recorded, tickets, chords, born, frame>> /\ activity' = NoActivity
      /\ Label = "idle" /\ ~frame["daemon"].settles
  BY Free DEF CancelProcessing, stored
<1>2. RowsAreWhole' /\ UnbornIsBlank' /\ PastedIsSettled' /\ AtMostOneAutomaticPaste' /\ RecordedOnce'
  BY <1>1 DEF Inductive, RowsAreWhole, UnbornIsBlank, PastedIsSettled,
          AtMostOneAutomaticPaste, RecordedOnce
<1>3. Label' = "idle" /\ ~frame'["daemon"].settles
  BY <1>1 DEF Label
<1>4. QED
  BY <1>1, <1>2, <1>3, Rests DEF NoActivity

(* The setting changes, time passes, or nothing happens. *)
LEMMA IdleStep ==
  ASSUME Inductive, TypeOK',
         ToggleKeepAudio \/ (\E j \in Jobs : Outlive(j)) \/ UNCHANGED vars
  PROVE  Inductive'
<1>1. UNCHANGED <<recorded, activity, tickets, chords, born, frame>>
  BY DEF ToggleKeepAudio, Outlive, vars, stored
<1>2. \A i \in Jobs : Unwritten(jobs[i], jobs'[i])
  <2>1. CASE UNCHANGED jobs
    BY <2>1 DEF Unwritten, Inductive, RowsAreWhole
  <2>2. ASSUME NEW j \in Jobs, Outlive(j)
        PROVE  \A i \in Jobs : Unwritten(jobs[i], jobs'[i])
    BY <2>2 DEF Outlive, Put, Expirable, InRecovery, Unwritten, Inductive, RowsAreWhole,
       TypeOK, Rows, IsRow
  <2>3. QED
    BY <2>1, <2>2 DEF ToggleKeepAudio, vars, stored
<1>3. RecordedOnce' /\ DaemonIsQuiet
  BY <1>1 DEF Inductive, RecordedOnce, DaemonIsQuiet
<1>4. QED
  BY <1>1, <1>2, <1>3, QuietStep

--------------------------------------------------------------------------------
(* The invariant *)

LEMMA InductiveStep ==
  ASSUME Inductive, [Next]_vars
  PROVE  Inductive'
<1>1. TypeOK'
  BY TypeStep DEF Inductive
<1>2. CASE StartSteps
  BY <1>1, <1>2, StartStep
<1>3. CASE EndSteps
  BY <1>1, <1>3, EndStep
<1>4. CASE RecordingSteps
  BY <1>1, <1>4, StartRecordingStep, RecorderStartStep, CheckpointRecordingStep, AbortStartStep,
     InterruptStartStep, FinishRecordingStep, RecorderFinishStep, CaptureRecordingStep,
     InterruptRecordingStep, InterruptCapturedStep, BeginTranscriptionStep,
     DiscardRecordingStep DEF RecordingSteps
<1>5. CASE ResultSteps
  BY <1>1, <1>5, TranscriptionDoneStep, StoreRawTextStep, StoreReadyTextStep, StoreSilentStep,
     StoreFailedStep, FailStepStep, ReadReadyStep DEF ResultSteps
<1>6. CASE DeliverySteps
  BY <1>1, <1>6, GateStep, GateRefusedStep, AttemptStep, DeliverStep, RecordSubmittedStep,
     RecordAmbiguousStep, RecordNotSentStep, ReadResultStep, CompleteStep, CleanupAudioStep,
     SettleStep DEF DeliverySteps
<1>7. CASE RecoverySteps
  BY <1>1, <1>7, RetryTranscriptionOfStep, PasteAgainStep, DeleteRecoveryStep, RetryUpdateStep,
     RetryReadStep, AgainUpdateStep, AgainReadStep, CancelProcessingStep DEF RecoverySteps
<1>8. CASE MaintenanceSteps
  BY <1>1, <1>8, MaintenanceStep
<1>9. CASE \E c \in Threads : RetentionSteps(c)
  BY <1>1, <1>9, RetentionStep
<1>10. CASE ToggleKeepAudio \/ (\E j \in Jobs : Outlive(j)) \/ UNCHANGED vars
  BY <1>1, <1>10, IdleStep
<1>11. QED
  BY <1>2, <1>3, <1>4, <1>5, <1>6, <1>7, <1>8, <1>9, <1>10 DEF Next

(* A first start knows no pasted row, and holds no command. *)
LEMMA InitInductive ==
  ASSUME Init
  PROVE  Inductive
<1>0. /\ DOMAIN jobs = Jobs /\ jobs = [j \in Jobs |-> jobs[j]]
      /\ audio \in [Jobs -> {"missing", "present"}]
      /\ recorded \in [Jobs -> {0, 1}]
      /\ born = {j \in Jobs : IsRow(jobs[j])}
      /\ heard = {} /\ keepAudio \in BOOLEAN /\ recorder = NoJob /\ activity = NoActivity
      /\ tickets = [j \in Jobs |-> 0]
      /\ frame = [c \in Threads |-> AtRest(IF c = "daemon" THEN "down" ELSE "off")]
      /\ chords = [j \in Jobs |-> 0]
      /\ failures = 0
  BY Zenon DEF Init
<1>1. \A j \in Jobs : /\ jobs[j] \in Rows
                      /\ ~IsRow(jobs[j]) => jobs[j] = NoRow
                      /\ jobs[j].stage \in {"no_speech", "deleted"} => ~jobs[j].raw
  <2>1. TAKE j \in Jobs
  <2>2. CASE jobs[j] = NoRow
    BY <2>2, NoRowType DEF NoRow
  <2>3. ASSUME NEW s \in LegacyStages,
               jobs[j] = [NoRow EXCEPT !.stage = s, !.raw = (s = "delivered"),
                                       !.text = (s = "delivered"),
                                       !.delivery = IF s = "delivered" THEN "submitted" ELSE @]
        PROVE  /\ jobs[j] \in Rows
               /\ ~IsRow(jobs[j]) => jobs[j] = NoRow
               /\ jobs[j].stage \in {"no_speech", "deleted"} => ~jobs[j].raw
    <3>1. s \in {"delivered", "no_speech", "deleted"}
      BY LegacyAssumption
    <3>2. CASE s = "delivered"
      BY <2>3, <3>2 DEF Rows, NoRow, IsRow, Stages, Deliveries
    <3>3. CASE s # "delivered"
      BY <2>3, <3>1, <3>3, ZenonT(40) DEF Rows, NoRow, IsRow, Stages, Deliveries
    <3>4. QED
      BY <3>2, <3>3
  <2>4. jobs[j] \in {NoRow} \cup
          {[NoRow EXCEPT !.stage = s, !.raw = (s = "delivered"),
                         !.text = (s = "delivered"),
                         !.delivery = IF s = "delivered" THEN "submitted" ELSE @] :
             s \in LegacyStages}
    BY Zenon DEF Init
  <2>5. QED
    BY <2>2, <2>3, <2>4, Zenon
<1>2. /\ frame["daemon"] = AtRest("down") /\ frame["maintenance"] = AtRest("off")
      /\ frame = [c \in Threads |-> frame[c]]
  BY <1>0 DEF Threads
<1>3. AtRest("down") \in Frames /\ AtRest("off") \in Frames
  BY DEF AtRest, Frames, Labels, DaemonLabels, MaintenanceLabels
<1>4. /\ Label = "down" /\ activity = NoActivity /\ \A j \in Jobs : chords[j] = 0
      /\ \A j \in Jobs : tickets[j] = 0 /\ recorded[j] \in {0, 1}
  BY <1>0, <1>2 DEF Label, AtRest
<1>5. TypeOK
  <2>1. frame \in [Threads -> Frames]
    BY <1>2, <1>3 DEF Threads
  <2>2. jobs \in [Jobs -> Rows] /\ audio \in [Jobs -> Audio]
    BY <1>0, <1>1 DEF Audio
  <2>3. activity \in Activities
    BY <1>4 DEF NoActivity, Activities
  <2>4. QED
    BY <1>0, <2>1, <2>2, <2>3 DEF TypeOK
<1>6. RowsAreWhole /\ UnbornIsBlank /\ PastedIsSettled /\ AtMostOneAutomaticPaste /\ RecordedOnce
  BY <1>0, <1>1, <1>4 DEF RowsAreWhole, UnbornIsBlank, PastedIsSettled,
     AtMostOneAutomaticPaste, RecordedOnce
<1>7. Label \notin JobLabels \cup FreshLabels \cup PasteLabels \cup EndLabels /\ ~Retains
  BY <1>4 DEF Retains, JobLabels, FreshLabels, PasteLabels, StartLabels, EndLabels, StoreLabels,
     ReadyLabels, RetryLabels, AgainLabels, OtherLabels, SharedLabels
<1>8. QED
  BY <1>4, <1>5, <1>6, <1>7 DEF Inductive, CommandHasJob, NotYetPasted, PastesTheCurrent,
     RowOfCommand, RowOfRecording, ActiveRecording, NoActivity

(* The strengthened invariant holds in every reachable state. *)
THEOREM Invariance == Spec => []Inductive
<1>1. Init => Inductive
  BY InitInductive
<1>2. Inductive /\ [Next]_vars => Inductive'
  BY InductiveStep
<1>3. QED
  BY <1>1, <1>2, PTL DEF Spec

(* Every variable keeps its type, over every step of the daemon and of the
   maintenance thread, for any dictations, legacy rows and failures. *)
THEOREM TypeCorrect == Spec => []TypeOK
<1>1. Inductive => TypeOK
  BY DEF Inductive
<1>2. QED
  BY <1>1, Invariance, PTL

(* `deliver_ready` sends the one automatic paste chord of a dictation at most
   once, for any number of dictations, crashes, failed writes and retries. *)
THEOREM PastesOnce == Spec => []AtMostOneAutomaticPaste
<1>1. Inductive => AtMostOneAutomaticPaste
  BY DEF Inductive
<1>2. QED
  BY <1>1, Invariance, PTL

(* `prepare_transcription_retry` and the reconciliation of `Runtime::open`
   never take a row whose text may have been pasted back to transcription. *)
THEOREM PastedStaysSettled == Spec => []PastedIsNotTranscribedAgain
<1>1. Inductive => PastedIsNotTranscribedAgain
  BY DEF Inductive, PastedIsSettled, SettledRow, PastedIsNotTranscribedAgain, InFlight
<1>2. QED
  BY <1>1, Invariance, PTL

--------------------------------------------------------------------------------
(* What no step does *)

(* A chord is sent by the one step that calls the deliverer. *)
LEMMA OnlyDeliverPastes ==
  ASSUME Next, ~Deliver
  PROVE  UNCHANGED chords
<1> USE DEF allButFrame, allButRow, allButAudio, RowStep
<1>1. CASE StartSteps \/ EndSteps
  BY <1>1 DEF StartSteps, Boot, OpenAmbiguous, OpenInterrupted, ReconcileRecoveryDeletion, Serve,
     EndSteps, Crash, PanicExit, Quit, ProcessEnds
<1>2. CASE RecordingSteps
  BY <1>2 DEF RecordingSteps, StartRecording, RecorderStart, CheckpointRecording, AbortStart,
     InterruptStart, FinishRecording, RecorderFinish, CaptureRecording, InterruptRecording,
     InterruptCaptured, BeginTranscription, DiscardRecording
<1>3. CASE ResultSteps
  BY <1>3 DEF ResultSteps, TranscriptionDone, StoreRawText, StoreReadyText, StoreSilent,
     StoreFailed, FailStep, ReadReady
<1>4. CASE DeliverySteps
  BY <1>4 DEF DeliverySteps, Gate, GateRefused, Attempt, RecordSubmitted, RecordAmbiguous,
     RecordNotSent, ReadResult, Complete, CleanupAudio, Settle
<1>5. CASE RecoverySteps
  BY <1>5 DEF RecoverySteps, RetryTranscriptionOf, PasteAgain, DeleteRecovery, RetryUpdate,
     RetryRead, AgainUpdate, AgainRead, CancelProcessing
<1>6. CASE MaintenanceSteps
  BY <1>6 DEF MaintenanceSteps, StartMaintenance, ListFinished, NextFinished, FinishRow,
     ListOrphans, RemoveOrphan
<1>7. CASE \E c \in Threads : RetentionSteps(c)
  BY <1>7 DEF RetentionSteps, ExpireList, ExpireNext, ExpireRow, DeleteMove, DeleteRow,
     DeleteRestore, DeleteUnlink
<1>8. CASE ToggleKeepAudio \/ \E j \in Jobs : Outlive(j)
  BY <1>8 DEF ToggleKeepAudio, Outlive
<1>9. QED
  BY <1>1, <1>2, <1>3, <1>4, <1>5, <1>6, <1>7, <1>8 DEF Next

(* `daemon.deliver` pastes only the dictation it processes: not one whose wait
   was cancelled, nor one asked for from the window or a notification. *)
THEOREM PastesOnlyTheCurrent == Spec => OnlyCurrentIsPasted
<1>1. ASSUME Inductive, [Next]_vars, NEW j \in Jobs, chords'[j] > chords[j]
      PROVE  activity.kind = "processing" /\ activity.job = j /\ activity.pastes
  <2>1. chords' # chords
    BY <1>1 DEF Inductive, TypeOK
  <2>2. Deliver
    BY <1>1, <2>1, OnlyDeliverPastes DEF vars
  <2>3. frame["daemon"].pastes /\ j = Job("daemon")
    BY <1>1, <2>2 DEF Deliver, Inductive, TypeOK
  <2>4. QED
    BY <1>1, <2>2, <2>3 DEF Inductive, PastesTheCurrent, PasteLabels, Deliver, At, Label
<1>2. Inductive /\ [Next]_vars =>
        [\A j \in Jobs : chords'[j] > chords[j] =>
           activity.kind = "processing" /\ activity.job = j /\ activity.pastes]_vars
  BY <1>1
<1>3. QED
  BY <1>2, Invariance, PTL DEF Spec, OnlyCurrentIsPasted

(* What a step takes from a row only when the dictation is recorded or the row
   is being deleted: its paid text, and a delivered row itself. *)
Kept(j) ==
  /\ jobs[j].raw => jobs'[j].raw
  /\ jobs[j].stage = "delivered" => IsRow(jobs'[j])

Accounted(j) == Kept(j) \/ recorded'[j] = 1 \/ BeingDeleted(j)

LEMMA StatementsKeep ==
  ASSUME NEW row \in Rows,
         NEW new \in {UpdateStage(row, "interrupted"), UpdateStage(row, "recording"),
                      UpdateStage(row, "transcribing"), UpdateStage(row, "cancelled"),
                      UpdateStage(row, "failed"), Captured(row, TRUE), Captured(row, FALSE),
                      RetryTranscription(row), StoreRaw(row), StoreReady(row),
                      RetryDelivery(row), GateBlocked(row), Attempting(row), Submitted(row),
                      Ambiguous(row), NotSent(row), FailJob(row), ReconcileAmbiguous(row),
                      ReconcileInterrupted(row)}
  PROVE  (row.raw => new.raw) /\ (IsRow(row) => IsRow(new))
<1> USE DEF Rows, IsRow, Updated
<1>1. CASE \E stage \in Stages : new = UpdateStage(row, stage)
  BY <1>1 DEF UpdateStage, Stages
<1>2. CASE new \in {Captured(row, TRUE), Captured(row, FALSE), RetryTranscription(row)}
  BY <1>2 DEF Captured, RetryTranscription
<1>3. CASE new \in {StoreRaw(row), StoreReady(row), RetryDelivery(row)}
  BY <1>3 DEF StoreRaw, StoreReady, RetryDelivery
<1>4. CASE new \in {GateBlocked(row), Attempting(row), NotSent(row)}
  BY <1>4 DEF GateBlocked, Attempting, NotSent
<1>5. CASE new \in {Submitted(row), Ambiguous(row), FailJob(row)}
  BY <1>5 DEF Submitted, Ambiguous, FailJob
<1>6. CASE new \in {ReconcileAmbiguous(row), ReconcileInterrupted(row)}
  BY <1>6 DEF ReconcileAmbiguous, ReconcileInterrupted, Ambiguous, UpdateStage
<1>7. {"interrupted", "recording", "transcribing", "cancelled", "failed"} \subseteq Stages
  BY DEF Stages
<1>8. QED
  BY <1>1, <1>2, <1>3, <1>4, <1>5, <1>6, <1>7

(* A row written by a statement that keeps its text. *)
LEMMA PutKeeps ==
  ASSUME Inductive, NEW i, NEW row, jobs' = [jobs EXCEPT ![i] = row],
         jobs[i].raw => row.raw, jobs[i].stage = "delivered" => IsRow(row)
  PROVE  \A j \in Jobs : Kept(j)
  BY DEF Kept, Inductive, TypeOK, IsRow

LEMMA RowStepKeeps ==
  ASSUME Inductive, NEW here, NEW row, NEW next, NEW onFault,
         RowStep(here, row, next, onFault),
         Row.raw => row.raw, Row.stage = "delivered" => IsRow(row)
  PROVE  \A j \in Jobs : Kept(j)
<1>1. CASE UNCHANGED jobs
  BY <1>1 DEF Kept, IsRow
<1>2. CASE Put(Job("daemon"), row)
  BY <1>2, PutKeeps DEF Put, Row
<1>3. QED
  BY <1>1, <1>2 DEF RowStep, Statement

(* The transaction that completes a delivered dictation records it. *)
LEMMA CompletionRecords ==
  ASSUME Inductive, NEW c, NEW i \in Jobs, NEW next, NEW onFault,
         CompleteDelivered(c, i, next, onFault)
  PROVE  \A j \in Jobs : Kept(j) \/ recorded'[j] = 1
<1>1. CASE UNCHANGED jobs
  BY <1>1 DEF Kept, IsRow
<1>2. CASE /\ recorded' = IF IsRow(jobs[i]) /\ recorded[i] = 0
                          THEN [recorded EXCEPT ![i] = @ + 1] ELSE recorded
           /\ Put(i, NoRow)
  <2>1. \A j \in Jobs : j # i => Kept(j)
    BY <1>2 DEF Put, Inductive, TypeOK, Kept, IsRow
  <2>2. IsRow(jobs[i]) => recorded'[i] = 1
    BY <1>2 DEF Inductive, RecordedOnce, TypeOK
  <2>3. ~IsRow(jobs[i]) => Kept(i)
    BY DEF Inductive, RowsAreWhole, Kept, NoRow, IsRow
  <2>4. QED
    BY <2>1, <2>2, <2>3
<1>3. QED
  BY <1>1, <1>2 DEF CompleteDelivered

(* Every step accounts for the rows it takes away. *)
LEMMA StepAccounts ==
  ASSUME Inductive, TypeOK', [Next]_vars
  PROVE  \A j \in Jobs : Accounted(j)
<1> USE DEF Accounted
<1>1. CASE UNCHANGED jobs
  BY <1>1 DEF Kept, IsRow
<1>2. CASE StartSteps
  <2>1. \/ UNCHANGED jobs
        \/ jobs' = [j \in Jobs |-> ReconcileAmbiguous(jobs[j])]
        \/ jobs' = [j \in Jobs |-> ReconcileInterrupted(jobs[j])]
    BY <1>2, Zenon DEF StartSteps, Boot, OpenAmbiguous, OpenInterrupted,
       ReconcileRecoveryDeletion, Serve, allButFrame, allButAudio, stored
  <2>2. \A j \in Jobs : jobs[j] \in Rows
    BY DEF Inductive, TypeOK
  <2>3. QED
    BY <1>1, <2>1, <2>2, StatementsKeep DEF Kept, IsRow
<1>3. CASE EndSteps
  BY <1>1, <1>3 DEF EndSteps, Crash, PanicExit, Quit, ProcessEnds, stored
<1>4. CASE RecordingSteps
  <2>1. ASSUME NEW i \in Jobs, StartRecording(i) PROVE \A j \in Jobs : Accounted(j)
    <3>1. jobs[i] = NoRow
      BY <2>1 DEF StartRecording, Inductive, UnbornIsBlank
    <3>2. jobs' = [jobs EXCEPT ![i] = InsertStarting]
      BY <2>1 DEF StartRecording, Put
    <3>3. ~jobs[i].raw /\ jobs[i].stage # "delivered"
      BY <3>1 DEF NoRow
    <3>4. QED
      BY <3>2, <3>3, PutKeeps
  <2>2. CASE CheckpointRecording \/ BeginTranscription \/ CaptureRecording
    <3>1. Row \in Rows
      BY <2>2, KnownRow DEF CheckpointRecording, BeginTranscription, CaptureRecording, At, Label,
         JobLabels, StartLabels, EndLabels
    <3>2. \/ UNCHANGED jobs
          \/ \E row \in {UpdateStage(Row, "recording"), UpdateStage(Row, "transcribing"),
                        Captured(Row, TRUE), Captured(Row, FALSE)} :
               jobs' = [jobs EXCEPT ![Job("daemon")] = row]
      BY <2>2 DEF CheckpointRecording, BeginTranscription, CaptureRecording, UnreadStatement,
         Statement, Put, Row
    <3>3. QED
      BY <1>1, <3>1, <3>2, StatementsKeep, PutKeeps DEF Row, IsRow
  <2>3. CASE InterruptStart \/ InterruptRecording \/ InterruptCaptured
    <3>1. Row \in Rows
      BY <2>3, KnownRow DEF InterruptStart, InterruptRecording, InterruptCaptured, RowStep, At,
         Label, JobLabels, StartLabels, EndLabels
    <3>2. QED
      BY <2>3, <3>1, StatementsKeep, RowStepKeeps DEF InterruptStart, InterruptRecording,
         InterruptCaptured, IsRow
  <2>4. CASE DiscardRecording
    <3>1. Row \in Rows /\ ~Row.raw /\ Row.stage # "delivered"
      BY <2>4, KnownRow DEF DiscardRecording, At, Label, JobLabels, EndLabels, Knows, NoRow, IsRow
    <3>2. \/ UNCHANGED jobs
          \/ \E row \in {NoRow, UpdateStage(Row, "cancelled")} :
               jobs' = [jobs EXCEPT ![Job("daemon")] = row]
      BY <2>4 DEF DiscardRecording, Statement, Put, Row
    <3>3. QED
      BY <1>1, <3>1, <3>2, PutKeeps DEF Row
  <2>5. CASE RecorderStart \/ AbortStart \/ RecorderFinish
             \/ \E goal \in {"stop", "discard", "preserve"} : FinishRecording(goal)
    BY <1>1, <2>5 DEF RecorderStart, AbortStart, FinishRecording, RecorderFinish, allButFrame, stored
  <2>6. QED
    BY <1>4, <2>1, <2>2, <2>3, <2>4, <2>5 DEF RecordingSteps
<1>5. CASE ResultSteps
  <2>1. CASE StoreSilent
    <3>1. Row.stage # "delivered" /\ ~Row.raw
      BY <2>1, KnownRow DEF StoreSilent, RowStep, At, Label, JobLabels, StoreLabels, Knows, NoRow, IsRow
    <3>2. QED
      BY <2>1, <3>1, RowStepKeeps DEF StoreSilent
  <2>2. CASE StoreRawText \/ StoreReadyText \/ StoreFailed \/ FailStep
    <3>1. Row \in Rows
      BY <2>2, KnownRow DEF StoreRawText, StoreReadyText, StoreFailed, FailStep, RowStep, At,
         Label, JobLabels, StoreLabels, OtherLabels
    <3>2. QED
      BY <2>2, <3>1, StatementsKeep, RowStepKeeps DEF StoreRawText, StoreReadyText, StoreFailed,
         FailStep, IsRow
  <2>3. CASE ReadReady \/ \E j \in Jobs : TranscriptionDone(j)
    BY <1>1, <2>3 DEF ReadReady, TranscriptionDone, allButFrame, stored
  <2>4. QED
    BY <1>5, <2>1, <2>2, <2>3 DEF ResultSteps
<1>6. CASE DeliverySteps
  <2>1. CASE GateRefused \/ Attempt \/ RecordSubmitted \/ RecordAmbiguous \/ RecordNotSent
    <3>1. Row \in Rows
      BY <2>1, KnownRow DEF GateRefused, Attempt, RecordSubmitted, RecordAmbiguous, RecordNotSent,
         RowStep, At, Label, JobLabels, ReadyLabels
    <3>2. QED
      BY <2>1, <3>1, StatementsKeep, RowStepKeeps DEF GateRefused, Attempt, RecordSubmitted,
         RecordAmbiguous, RecordNotSent, IsRow
  <2>2. CASE Complete
    <3>1. Job("daemon") \in Jobs
      BY <2>2, KnownRow DEF Complete, At, Label, JobLabels, OtherLabels
    <3>2. QED
      BY <2>2, <3>1, CompletionRecords DEF Complete
  <2>3. CASE Gate \/ Deliver \/ ReadResult \/ CleanupAudio \/ Settle
    BY <1>1, <2>3 DEF Gate, Deliver, ReadResult, CleanupAudio, Settle, allButFrame, allButAudio, stored
  <2>4. QED
    BY <1>6, <2>1, <2>2, <2>3 DEF DeliverySteps
<1>7. CASE RecoverySteps
  <2>1. CASE RetryUpdate \/ AgainUpdate
    <3>1. Row \in Rows
      BY <2>1, KnownRow DEF RetryUpdate, AgainUpdate, RowStep, At, Label, JobLabels, RetryLabels,
         AgainLabels
    <3>2. QED
      BY <2>1, <3>1, StatementsKeep, RowStepKeeps DEF RetryUpdate, AgainUpdate, IsRow
  <2>2. CASE \/ RetryRead \/ AgainRead \/ CancelProcessing
             \/ \E j \in Jobs : RetryTranscriptionOf(j) \/ PasteAgain(j) \/ DeleteRecovery(j)
    BY <1>1, <2>2 DEF RetryRead, AgainRead, CancelProcessing, RetryTranscriptionOf, PasteAgain,
       DeleteRecovery, allButFrame, stored
  <2>3. QED
    BY <1>7, <2>1, <2>2 DEF RecoverySteps
<1>8. CASE MaintenanceSteps
  <2>1. CASE FinishRow
    <3>1. CASE UNCHANGED jobs
      BY <1>1, <3>1
    <3>2. CASE jobs[Victim("maintenance")].stage \in {"no_speech", "deleted"}
               /\ Put(Victim("maintenance"), NoRow)
      <4>1. CASE Victim("maintenance") \in Jobs
        <5>1. ~jobs[Victim("maintenance")].raw
          BY <3>2, <4>1 DEF Inductive, RowsAreWhole
        <5>2. QED
          BY <3>2, <5>1, PutKeeps DEF Put
      <4>2. CASE Victim("maintenance") \notin Jobs
        BY <1>1, <3>2, <4>2 DEF Put, Inductive, TypeOK
      <4>3. QED
        BY <4>1, <4>2
    <3>3. CASE CompleteDelivered("maintenance", Victim("maintenance"), "next_finished", "off")
      <4>1. CASE Victim("maintenance") \in Jobs
        BY <3>3, <4>1, CompletionRecords
      <4>2. CASE Victim("maintenance") \notin Jobs
        BY <1>1, <3>3, <4>2 DEF CompleteDelivered, Put, Inductive, TypeOK
      <4>3. QED
        BY <4>1, <4>2
    <3>4. QED
      BY <2>1, <3>1, <3>2, <3>3 DEF FinishRow, Statement
  <2>2. CASE StartMaintenance \/ ListFinished \/ NextFinished \/ ListOrphans \/ RemoveOrphan
    BY <1>1, <2>2 DEF StartMaintenance, ListFinished, NextFinished, ListOrphans, RemoveOrphan,
       allButFrame, allButAudio, stored
  <2>3. QED
    BY <1>8, <2>1, <2>2 DEF MaintenanceSteps
<1>9. ASSUME NEW c \in Threads, RetentionSteps(c)
      PROVE  \A j \in Jobs : Accounted(j)
  <2>1. \/ UNCHANGED jobs
        \/ At(c, "expire_row") /\ Put(Victim(c), NoRow)
        \/ At(c, "delete_row") /\ Put(Victim(c), NoRow)
    BY <1>9 DEF RetentionSteps, ExpireList, ExpireNext, ExpireRow, DeleteMove, DeleteRow,
       DeleteRestore, DeleteUnlink, Statement, allButFrame, allButAudio, stored
  <2>2. CASE (At(c, "expire_row") \/ At(c, "delete_row")) /\ Put(Victim(c), NoRow)
    <3>1. BeingDeleted(Victim(c))
      BY <2>2 DEF BeingDeleted, At
    <3>2. \A j \in Jobs : j # Victim(c) => Kept(j)
      BY <2>2 DEF Put, Kept, Inductive, TypeOK, IsRow
    <3>3. QED
      BY <3>1, <3>2
  <2>3. QED
    BY <1>1, <2>1, <2>2
<1>10. CASE ToggleKeepAudio \/ \E j \in Jobs : Outlive(j)
  <2>1. ASSUME NEW i \in Jobs, Outlive(i) PROVE \A j \in Jobs : Accounted(j)
    <3>1. jobs' = [jobs EXCEPT ![i] = [jobs[i] EXCEPT !.expired = TRUE]]
      BY <2>1 DEF Outlive, Put
    <3>2. jobs[i] \in Rows
      BY DEF Inductive, TypeOK
    <3>3. QED
      BY <3>1, <3>2, PutKeeps DEF Rows, IsRow
  <2>2. QED
    BY <1>1, <1>10, <2>1 DEF ToggleKeepAudio, stored
<1>11. QED
  BY <1>1, <1>2, <1>3, <1>4, <1>5, <1>6, <1>7, <1>8, <1>9, <1>10 DEF Next, vars

(* A dictation that was counted stays counted. *)
LEMMA RecordedOnlyGrows ==
  ASSUME Inductive, [Next]_vars, NEW j \in Jobs
  PROVE  recorded[j] <= recorded'[j]
<1> USE DEF allButFrame, allButRow, allButAudio, RowStep, stored
<1>1. CASE UNCHANGED recorded
  BY <1>1 DEF Inductive, TypeOK
<1>2. ASSUME NEW c, NEW i, NEW next, NEW onFault, CompleteDelivered(c, i, next, onFault)
      PROVE  recorded[j] <= recorded'[j]
  BY <1>2 DEF CompleteDelivered, Inductive, TypeOK
<1>3. CASE StartSteps \/ EndSteps
  BY <1>1, <1>3 DEF StartSteps, Boot, OpenAmbiguous, OpenInterrupted, ReconcileRecoveryDeletion,
     Serve, EndSteps, Crash, PanicExit, Quit, ProcessEnds
<1>4. CASE RecordingSteps
  BY <1>1, <1>4 DEF RecordingSteps, StartRecording, RecorderStart, CheckpointRecording, AbortStart,
     InterruptStart, FinishRecording, RecorderFinish, CaptureRecording, InterruptRecording,
     InterruptCaptured, BeginTranscription, DiscardRecording
<1>5. CASE ResultSteps
  BY <1>1, <1>5 DEF ResultSteps, TranscriptionDone, StoreRawText, StoreReadyText, StoreSilent,
     StoreFailed, FailStep, ReadReady
<1>6. CASE DeliverySteps
  BY <1>1, <1>2, <1>6 DEF DeliverySteps, Gate, GateRefused, Attempt, Deliver, RecordSubmitted,
     RecordAmbiguous, RecordNotSent, ReadResult, Complete, CleanupAudio, Settle
<1>7. CASE RecoverySteps
  BY <1>1, <1>7 DEF RecoverySteps, RetryTranscriptionOf, PasteAgain, DeleteRecovery, RetryUpdate,
     RetryRead, AgainUpdate, AgainRead, CancelProcessing
<1>8. CASE MaintenanceSteps
  BY <1>1, <1>2, <1>8 DEF MaintenanceSteps, StartMaintenance, ListFinished, NextFinished, FinishRow,
     ListOrphans, RemoveOrphan
<1>9. CASE \E c \in Threads : RetentionSteps(c)
  BY <1>1, <1>9 DEF RetentionSteps, ExpireList, ExpireNext, ExpireRow, DeleteMove, DeleteRow,
     DeleteRestore, DeleteUnlink
<1>10. CASE ToggleKeepAudio \/ \E i \in Jobs : Outlive(i)
  BY <1>1, <1>10 DEF ToggleKeepAudio, Outlive
<1>11. QED
  BY <1>1, <1>3, <1>4, <1>5, <1>6, <1>7, <1>8, <1>9, <1>10 DEF Next, vars

(* `complete_delivered` counts a delivered dictation, and counts it once,
   whichever thread runs it; any other way its row goes is a delete. *)
THEOREM CountsOnce == Spec => DeliveredIsRecordedOnce
<1>1. ASSUME Inductive, [Next]_vars, NEW j \in Jobs
      PROVE  /\ recorded[j] <= recorded'[j] /\ recorded'[j] <= 1
             /\ jobs[j].stage = "delivered" /\ ~IsRow(jobs'[j]) =>
                  recorded'[j] = 1 \/ BeingDeleted(j)
  <2>1. TypeOK' /\ Inductive'
    BY <1>1, TypeStep, InductiveStep DEF Inductive
  <2>2. recorded'[j] <= 1
    BY <2>1 DEF Inductive, RecordedOnce
  <2>3. recorded[j] <= recorded'[j]
    BY <1>1, RecordedOnlyGrows
  <2>4. Accounted(j)
    BY <1>1, <2>1, StepAccounts
  <2>5. QED
    BY <2>2, <2>3, <2>4 DEF Accounted, Kept
<1>2. Inductive /\ [Next]_vars =>
        [\A j \in Jobs :
           /\ recorded[j] <= recorded'[j] /\ recorded'[j] <= 1
           /\ jobs[j].stage = "delivered" /\ ~IsRow(jobs'[j]) =>
                recorded'[j] = 1 \/ BeingDeleted(j)]_vars
  BY <1>1
<1>3. QED
  BY <1>2, Invariance, PTL DEF Spec, DeliveredIsRecordedOnce

(* A stored transcript is never dropped by a retry, a failed step or a late
   result: `prepare_transcription_retry` and `fail_job` keep the text. *)
THEOREM KeepsPaidText == Spec => PaidTextIsKept
<1>1. ASSUME Inductive, [Next]_vars, NEW j \in Jobs, jobs[j].raw, ~jobs'[j].raw
      PROVE  recorded'[j] = 1 \/ BeingDeleted(j)
  BY <1>1, TypeStep, StepAccounts DEF Inductive, Accounted, Kept
<1>2. Inductive /\ [Next]_vars =>
        [\A j \in Jobs : jobs[j].raw /\ ~jobs'[j].raw => recorded'[j] = 1 \/ BeingDeleted(j)]_vars
  BY <1>1
<1>3. QED
  BY <1>2, Invariance, PTL DEF Spec, PaidTextIsKept

--------------------------------------------------------------------------------
(* Who answers for what: the inductive invariant *)

(* A row's columns fit each other: no text without a transcript, and a delivery is attempted
   only for a row that is ready, with its text. *)
SoundRow(row) ==
  /\ row.text => row.raw
  /\ row.delivery = "attempting" => row.stage = "ready_to_deliver" /\ row.text
  /\ row.stage \in {"starting", "recording", "captured", "transcribing"} =>
       row.delivery = "not_attempted"

(* Every row is. *)
RowsAreSound == \A j \in Jobs : SoundRow(jobs[j])

(* The daemon inside a delivery, after the attempt was written. *)
DeliverLabels == {"deliver", "record_submitted", "record_ambiguous", "record_not_sent"}

(* On the way to a delivery, before the attempt is written. *)
BeforeLabels == {"read_ready", "gate", "gate_blocked", "attempt", "again_read"}

(* The tail of a delivered dictation. *)
EndingLabels == {"complete", "expire_list", "cleanup_audio"}

(* What the step at a label relies on having been written by the steps before it. *)
KnowsAlso(label, row) ==
  /\ label = "interrupt_recording" => row.stage = "recording"
  /\ label \in {"begin", "interrupt_captured"} => row.stage = "captured" /\ ~row.expired
  /\ label = "store_ready" => row.raw
  /\ label = "retry_read" => row.stage = "transcribing"
  /\ label \in BeforeLabels => row.delivery = "not_attempted" /\ ~row.expired
  /\ label \in DeliverLabels => row.delivery = "attempting" /\ ~row.expired
  /\ label \in EndingLabels => row.stage = "delivered"

(* The daemon's command knows its row: nothing between two of its statements changed it. *)
CommandKnows ==
  /\ Label \in JobLabels /\ IsRow(Row) => KnowsAlso(Label, Row)
  /\ Retains /\ IsRow(Row) => Row.stage = "delivered"
  /\ Label \in EndLabels => ~InRetention("daemon")

(* The process is down, or opens its database. *)
OpeningLabels == {"down", "open_ambiguous", "open_interrupted", "open_deletions"}

(* A transcription under way is the only one of its row, of a row that waits for it, and no
   command is about that row; the daemon waits for a transcription that is under way. *)
TicketIsOwed ==
  /\ \A j \in Jobs : /\ tickets[j] <= 1
                     /\ tickets[j] = 1 /\ IsRow(jobs[j]) => jobs[j].stage = "transcribing"
  /\ Label \in JobLabels \/ Retains => tickets[Job("daemon")] = 0
  /\ activity.kind = "recording" => tickets[activity.job] = 0
  /\ activity.kind = "processing" /\ ~frame["daemon"].settles => tickets[activity.job] = 1
  /\ Label \in OpeningLabels => \A j \in Jobs : tickets[j] = 0

(* A recording that is not finished yet. *)
Making(row) == row.stage \in {"starting", "recording"}

(* A thread inside a delete, its victim chosen. *)
DeleteLabels == {"expire_row", "delete_move", "delete_row", "delete_restore", "delete_unlink"}

(* A list a thread took from the table goes stale in one direction only: its rows were of the
   listed kind, and since then have at most disappeared. *)
ListIsOld(c) ==
    /\ frame[c].todo \subseteq born
    /\ Victim(c) \in born \cup {NoJob}
    /\ InRetention(c) => \A j \in frame[c].todo : ~Making(jobs[j])
    /\ frame[c].at \in {"expire_next", "expire_row"} => InRetention(c)
    /\ frame[c].at \in {"next_finished", "finish_row"} =>
         \A j \in frame[c].todo : IsRow(jobs[j]) => Finished(jobs[j])
    /\ frame[c].at = "remove_orphans" => \A j \in frame[c].todo : ~IsRow(jobs[j])
    /\ frame[c].at = "finish_row" =>
         Victim(c) \in born /\ (IsRow(jobs[Victim(c)]) => Finished(jobs[Victim(c)]))
    /\ frame[c].at \in DeleteLabels => Victim(c) \in born /\ ~Making(jobs[Victim(c)])
    /\ frame[c].at = "delete_unlink" => ~IsRow(jobs[Victim(c)])

(* Every list in use is. *)
ListsAreOld == \A c \in Threads : ListIsOld(c)

(* The steps from a transcript to its delivery. *)
BoundLabels == StoreLabels \cup {"read_ready", "gate", "gate_blocked", "attempt", "deliver"}

(* The daemon is bound to a dictation: it records it, or will store and paste its result. *)
Bound(j) ==
  \/ /\ activity.job = j /\ ~frame["daemon"].settles
     /\ activity.kind = "recording" \/ (activity.kind = "processing" /\ activity.pastes)
  \/ /\ Job("daemon") = j
     /\ Label \in StartLabels \cup {"finish", "capture", "begin"}
  \/ /\ Job("daemon") = j
     /\ Label \in BoundLabels /\ frame["daemon"].pastes

(* What the daemon is bound to has its row, is not counted, and is in no list of a thread
   that deletes. *)
BoundIsSafe ==
  /\ \A j \in Jobs : Bound(j) =>
       /\ IsRow(jobs[j])
       /\ recorded[j] = 0
       /\ \A c \in Threads : j \notin frame[c].todo /\ j # Victim(c)
  /\ Label \in AgainLabels => ~frame["daemon"].pastes
  /\ /\ Label \in JobLabels \/ Retains
     /\ activity.kind = "recording" /\ ~frame["daemon"].settles
     => Job("daemon") # activity.job

(* Only dictations that were begun are counted. *)
CountedIsBorn == \A j \in Jobs : recorded[j] > 0 => j \in born

(* Recordings belong to dictations, and what was heard is there until the row no longer needs
   it: the strengthening of AudioBehindRecovery. *)
AudioIsOwned ==
  /\ \A j \in Jobs : audio[j] # "missing" => j \in born
  /\ heard \subseteq born
  /\ \A j \in heard : IsRow(jobs[j]) /\ ~Finished(jobs[j]) /\ ~jobs[j].raw => audio[j] # "missing"

(* The second half of the inductive invariant, relative to Inductive. *)
Lived == 
  /\ RowsAreSound
  /\ CommandKnows
  /\ TicketIsOwed
  /\ ListsAreOld
  /\ BoundIsSafe
  /\ CountedIsBorn
  /\ AudioIsOwned

(* How a row ages: a row that is gone stays gone, a recording is not begun again,
   a finished row only ever disappears, and a transcript stays. *)
Aged(old, new) ==
  /\ ~IsRow(old) => ~IsRow(new)
  /\ Making(new) => Making(old)
  /\ Finished(old) /\ IsRow(new) => Finished(new)
  /\ old.raw /\ IsRow(new) => new.raw
  /\ SoundRow(old) => SoundRow(new)

(* A row that is deleted ages. *)
LEMMA GoneAges == \A old : Aged(old, NoRow)
  BY DEF Aged, NoRow, IsRow, Making, Finished, SoundRow

(* A statement that lets its row age lets all rows age. *)
LEMMA PutAges ==
  ASSUME Inductive, NEW i, NEW row, jobs' = [jobs EXCEPT ![i] = row], Aged(jobs[i], row)
  PROVE  \A j \in Jobs : Aged(jobs[j], jobs'[j])
  BY DEF Aged, Inductive, TypeOK

(* The same of a step of the daemon on its command's row. *)
LEMMA RowStepAges ==
  ASSUME Inductive, NEW here, NEW row, NEW next, NEW onFault,
         RowStep(here, row, next, onFault), Aged(Row, row)
  PROVE  \A j \in Jobs : Aged(jobs[j], jobs'[j])
<1>1. CASE UNCHANGED jobs
  BY <1>1 DEF Aged
<1>2. CASE Put(Job("daemon"), row)
  BY <1>2, PutAges DEF Put, Row
<1>3. QED
  BY <1>1, <1>2 DEF RowStep, Statement

(* Every step lets the rows of born dictations age. *)
LEMMA Ageing ==
  ASSUME Inductive, RowsAreSound, CommandKnows, Next
  PROVE  \A j \in born : Aged(jobs[j], jobs'[j])
<1> DEFINE Goal == \A j \in born : Aged(jobs[j], jobs'[j])
<1>born. born \subseteq Jobs
  BY DEF Inductive, TypeOK
<1>0. CASE UNCHANGED jobs
  BY <1>0 DEF Aged
<1>1. ASSUME NEW i, Put(i, NoRow) PROVE Goal
  BY <1>1, <1>born, GoneAges, PutAges DEF Put
<1>2. CASE StartSteps
  <2>1. \/ UNCHANGED jobs
        \/ jobs' = [j \in Jobs |-> ReconcileAmbiguous(jobs[j])]
        \/ jobs' = [j \in Jobs |-> ReconcileInterrupted(jobs[j])]
    BY <1>2, Zenon DEF StartSteps, Boot, OpenAmbiguous, OpenInterrupted,
       ReconcileRecoveryDeletion, Serve, allButFrame, allButAudio, stored
  <2>2. ASSUME NEW row \in Rows, SoundRow(row)
        PROVE  Aged(row, ReconcileAmbiguous(row)) /\ Aged(row, ReconcileInterrupted(row))
    BY <2>2 DEF Rows, SoundRow, Aged, ReconcileAmbiguous, ReconcileInterrupted, Ambiguous,
       UpdateStage, Updated, IsRow, InFlight, Making, Finished
  <2>3. \A j \in Jobs : jobs[j] \in Rows /\ SoundRow(jobs[j])
    BY DEF Inductive, TypeOK, RowsAreSound
  <2>4. QED
    BY <1>0, <1>born, <2>1, <2>2, <2>3
<1>3. CASE EndSteps
  BY <1>0, <1>3 DEF EndSteps, Crash, PanicExit, Quit, ProcessEnds, stored
<1>4. CASE RecordingSteps
  <2>1. ASSUME NEW i \in Jobs, StartRecording(i) PROVE Goal
    BY <1>born, <2>1 DEF StartRecording, Put, Inductive, TypeOK, Aged
  <2>2. CASE CheckpointRecording \/ BeginTranscription \/ CaptureRecording
    <3>1. /\ Row \in Rows
          /\ IsRow(Row) => Knows(Label, Row) /\ KnowsAlso(Label, Row)
      BY <2>2, KnownRow DEF CheckpointRecording, BeginTranscription, CaptureRecording, At, Label,
         JobLabels, StartLabels, EndLabels, CommandKnows
    <3>2. CASE CheckpointRecording
      <4>1. UNCHANGED jobs \/ jobs' = [jobs EXCEPT ![Job("daemon")] = UpdateStage(Row, "recording")]
        BY <3>2 DEF CheckpointRecording, UnreadStatement, Put, Row
      <4>2. Aged(Row, UpdateStage(Row, "recording"))
        BY <3>1, <3>2 DEF CheckpointRecording, At, Label, Knows, StartLabels, Aged, UpdateStage,
           Updated, Rows, IsRow, Making, Finished, SoundRow
      <4>3. QED
        BY <1>0, <1>born, <4>1, <4>2, PutAges DEF Row
    <3>3. CASE BeginTranscription
      <4>1. UNCHANGED jobs \/ jobs' = [jobs EXCEPT ![Job("daemon")] = UpdateStage(Row, "transcribing")]
        BY <3>3 DEF BeginTranscription, UnreadStatement, Put, Row
      <4>2. Aged(Row, UpdateStage(Row, "transcribing"))
        BY <3>1, <3>3 DEF BeginTranscription, At, Label, KnowsAlso, Aged, UpdateStage,
           Updated, Rows, IsRow, Making, Finished, SoundRow
      <4>3. QED
        BY <1>0, <1>born, <4>1, <4>2, PutAges DEF Row
    <3>4. CASE CaptureRecording
      <4>1. \/ UNCHANGED jobs
            \/ \E long \in BOOLEAN : jobs' = [jobs EXCEPT ![Job("daemon")] = Captured(Row, long)]
        BY <3>4 DEF CaptureRecording, UnreadStatement, Statement, Put, Row
      <4>2. \A long \in BOOLEAN : Aged(Row, Captured(Row, long))
        BY <3>1, <3>4 DEF CaptureRecording, At, Label, Knows, Aged, Captured, Updated, Rows, IsRow,
           Making, Finished, SoundRow
      <4>3. QED
        BY <1>0, <1>born, <4>1, <4>2, PutAges DEF Row
    <3>5. QED
      BY <2>2, <3>2, <3>3, <3>4
  <2>3. CASE InterruptStart \/ InterruptRecording \/ InterruptCaptured
    <3>1. /\ Row \in Rows
          /\ IsRow(Row) => Row.stage \in {"starting", "recording", "captured"}
      BY <2>3, KnownRow DEF InterruptStart, InterruptRecording, InterruptCaptured, RowStep, At,
         Label, JobLabels, StartLabels, EndLabels, Knows, KnowsAlso, CommandKnows
    <3>2. Aged(Row, UpdateStage(Row, "interrupted"))
      BY <3>1 DEF Aged, UpdateStage, Updated, Rows, IsRow, Making, Finished, SoundRow
    <3>3. QED
      BY <1>born, <2>3, <3>2, RowStepAges DEF InterruptStart, InterruptRecording, InterruptCaptured
  <2>4. CASE DiscardRecording
    <3>1. /\ Row \in Rows
          /\ IsRow(Row) => Row.stage = "captured"
      BY <2>4, KnownRow DEF DiscardRecording, At, Label, JobLabels, EndLabels, Knows
    <3>2. \/ UNCHANGED jobs
          \/ \E row \in {NoRow, UpdateStage(Row, "cancelled")} :
               jobs' = [jobs EXCEPT ![Job("daemon")] = row]
      BY <2>4 DEF DiscardRecording, Statement, Put, Row
    <3>3. Aged(Row, UpdateStage(Row, "cancelled"))
      BY <3>1 DEF Aged, UpdateStage, Updated, Rows, IsRow, Making, Finished, SoundRow
    <3>4. QED
      BY <1>0, <1>1, <1>born, <3>2, <3>3, PutAges DEF Row, Put
  <2>5. CASE RecorderStart \/ AbortStart \/ RecorderFinish
             \/ \E goal \in {"stop", "discard", "preserve"} : FinishRecording(goal)
    BY <1>0, <2>5 DEF RecorderStart, AbortStart, FinishRecording, RecorderFinish, allButFrame, stored
  <2>6. QED
    BY <1>4, <2>1, <2>2, <2>3, <2>4, <2>5 DEF RecordingSteps
<1>5. CASE ResultSteps
  <2>1. CASE StoreRawText \/ StoreReadyText \/ StoreSilent \/ StoreFailed
    <3>1. /\ Row \in Rows
          /\ IsRow(Row) => Row.stage = "transcribing"
          /\ StoreReadyText /\ IsRow(Row) => Row.raw
      BY <2>1, KnownRow DEF StoreRawText, StoreReadyText, StoreSilent, StoreFailed, RowStep, At,
         Label, JobLabels, StoreLabels, Knows, KnowsAlso, CommandKnows
    <3>2. Aged(Row, StoreRaw(Row)) /\ Aged(Row, UpdateStage(Row, "failed"))
      BY <3>1 DEF Aged, StoreRaw, UpdateStage, Updated, Rows, SoundRow, IsRow, Making, Finished
    <3>3. StoreReadyText => Aged(Row, StoreReady(Row))
      BY <3>1 DEF Aged, StoreReady, Updated, Rows, SoundRow, IsRow, Making, Finished
    <3>4. QED
      BY <1>born, <2>1, <3>2, <3>3, GoneAges, RowStepAges
      DEF StoreRawText, StoreReadyText, StoreSilent, StoreFailed
  <2>2. CASE FailStep
    <3>1. Row \in Rows /\ SoundRow(Row)
      BY <2>2, KnownRow DEF FailStep, RowStep, At, Label, JobLabels, OtherLabels, RowsAreSound, Row
    <3>2. Aged(Row, FailJob(Row))
      BY <3>1 DEF SoundRow, Aged, FailJob, Updated, Rows, IsRow, Making, Finished
    <3>3. QED
      BY <1>born, <2>2, <3>2, RowStepAges DEF FailStep
  <2>3. CASE ReadReady \/ \E j \in Jobs : TranscriptionDone(j)
    BY <1>0, <2>3 DEF ReadReady, TranscriptionDone, allButFrame, stored
  <2>4. QED
    BY <1>5, <2>1, <2>2, <2>3 DEF ResultSteps
<1>6. CASE DeliverySteps
  <2>1. CASE GateRefused \/ Attempt \/ RecordSubmitted \/ RecordAmbiguous \/ RecordNotSent
    <3>1. Row \in Rows /\ (IsRow(Row) => Row.stage = "ready_to_deliver" /\ Row.text)
      BY <2>1, KnownRow DEF GateRefused, Attempt, RecordSubmitted, RecordAmbiguous, RecordNotSent,
         RowStep, At, Label, JobLabels, ReadyLabels, Knows
    <3>2. Aged(Row, GateBlocked(Row)) /\ Aged(Row, Attempting(Row))
      BY <3>1 DEF Aged, GateBlocked, Attempting, Updated, Rows, IsRow, Making, Finished, SoundRow
    <3>3. Aged(Row, Submitted(Row)) /\ Aged(Row, Ambiguous(Row)) /\ Aged(Row, NotSent(Row))
      BY <3>1 DEF Aged, Submitted, Ambiguous, NotSent, Updated, Rows, IsRow, Making, Finished, SoundRow
    <3>4. QED
      BY <1>born, <2>1, <3>2, <3>3, RowStepAges
      DEF GateRefused, Attempt, RecordSubmitted, RecordAmbiguous, RecordNotSent
  <2>2. CASE Complete
    BY <1>0, <1>1, <2>2 DEF Complete, CompleteDelivered
  <2>3. CASE Gate \/ Deliver \/ ReadResult \/ CleanupAudio \/ Settle
    BY <1>0, <2>3 DEF Gate, Deliver, ReadResult, CleanupAudio, Settle, allButFrame, allButAudio, stored
  <2>4. QED
    BY <1>6, <2>1, <2>2, <2>3 DEF DeliverySteps
<1>7. CASE RecoverySteps
  <2>1. CASE RetryUpdate
    <3>1. Row \in Rows /\ (IsRow(Row) => RetryAllowed(Row))
      BY <2>1, KnownRow DEF RetryUpdate, RowStep, At, Label, JobLabels, RetryLabels, Knows
    <3>2. Aged(Row, RetryTranscription(Row))
      BY <3>1 DEF RetryAllowed, Aged, RetryTranscription, Updated, Rows, IsRow, Making, Finished, SoundRow
    <3>3. QED
      BY <1>born, <2>1, <3>2, RowStepAges DEF RetryUpdate
  <2>2. CASE AgainUpdate
    <3>1. /\ Row \in Rows /\ SoundRow(Row)
          /\ Row.stage \in {"no_speech", "deleted"} => ~Row.raw
          /\ IsRow(Row) => PasteAgainAllowed(Row)
      BY <2>2, KnownRow DEF AgainUpdate, RowStep, At, Label, JobLabels, AgainLabels, Knows,
         RowsAreSound, Row
    <3>2. Aged(Row, RetryDelivery(Row))
      BY <3>1 DEF SoundRow, PasteAgainAllowed, Aged, RetryDelivery, Updated, Rows, IsRow, Making,
         Finished, SoundRow
    <3>3. QED
      BY <1>born, <2>2, <3>2, RowStepAges DEF AgainUpdate
  <2>3. CASE \/ RetryRead \/ AgainRead \/ CancelProcessing
             \/ \E j \in Jobs : RetryTranscriptionOf(j) \/ PasteAgain(j) \/ DeleteRecovery(j)
    BY <1>0, <2>3 DEF RetryRead, AgainRead, CancelProcessing, RetryTranscriptionOf, PasteAgain,
       DeleteRecovery, allButFrame, stored
  <2>4. QED
    BY <1>7, <2>1, <2>2, <2>3 DEF RecoverySteps
<1>8. CASE MaintenanceSteps
  <2>1. UNCHANGED jobs \/ Put(Victim("maintenance"), NoRow)
    BY <1>8 DEF MaintenanceSteps, StartMaintenance, ListFinished, NextFinished, FinishRow,
       ListOrphans, RemoveOrphan, Statement, CompleteDelivered, allButFrame, allButAudio, stored
  <2>2. QED
    BY <1>0, <1>1, <2>1
<1>9. ASSUME NEW c \in Threads, RetentionSteps(c) PROVE Goal
  <2>1. UNCHANGED jobs \/ Put(Victim(c), NoRow)
    BY <1>9 DEF RetentionSteps, ExpireList, ExpireNext, ExpireRow, DeleteMove, DeleteRow,
       DeleteRestore, DeleteUnlink, Statement, allButFrame, allButAudio, stored
  <2>2. QED
    BY <1>0, <1>1, <2>1
<1>10. CASE ToggleKeepAudio \/ \E j \in Jobs : Outlive(j)
  <2>1. ASSUME NEW i \in Jobs, Outlive(i) PROVE Goal
    <3>1. jobs' = [jobs EXCEPT ![i] = [jobs[i] EXCEPT !.expired = TRUE]]
      BY <2>1 DEF Outlive, Put
    <3>2. jobs[i] \in Rows
      BY DEF Inductive, TypeOK
    <3>3. Aged(jobs[i], [jobs[i] EXCEPT !.expired = TRUE])
      BY <3>2 DEF Aged, Rows, IsRow, Making, Finished, SoundRow
    <3>4. QED
      BY <1>born, <3>1, <3>3, PutAges
  <2>2. QED
    BY <1>0, <1>10, <2>1 DEF ToggleKeepAudio, stored
<1>11. QED
  BY <1>2, <1>3, <1>4, <1>5, <1>6, <1>7, <1>8, <1>9, <1>10 DEF Next

--------------------------------------------------------------------------------
(* Rows are born by the one step that inserts them. *)
LEMMA OnlyStartBears ==
  ASSUME Next
  PROVE  UNCHANGED born \/ \E j \in Jobs : StartRecording(j)
<1> USE DEF allButFrame, allButRow, allButAudio, RowStep
<1>1. CASE StartSteps \/ EndSteps
  BY <1>1 DEF StartSteps, Boot, OpenAmbiguous, OpenInterrupted, ReconcileRecoveryDeletion, Serve,
     EndSteps, Crash, PanicExit, Quit, ProcessEnds
<1>2. CASE RecordingSteps
  BY <1>2 DEF RecordingSteps, RecorderStart, CheckpointRecording, AbortStart,
     InterruptStart, FinishRecording, RecorderFinish, CaptureRecording, InterruptRecording,
     InterruptCaptured, BeginTranscription, DiscardRecording
<1>3. CASE ResultSteps
  BY <1>3 DEF ResultSteps, TranscriptionDone, StoreRawText, StoreReadyText, StoreSilent,
     StoreFailed, FailStep, ReadReady
<1>4. CASE DeliverySteps
  BY <1>4 DEF DeliverySteps, Gate, GateRefused, Attempt, Deliver, RecordSubmitted, RecordAmbiguous,
     RecordNotSent, ReadResult, Complete, CleanupAudio, Settle
<1>5. CASE RecoverySteps
  BY <1>5 DEF RecoverySteps, RetryTranscriptionOf, PasteAgain, DeleteRecovery, RetryUpdate,
     RetryRead, AgainUpdate, AgainRead, CancelProcessing
<1>6. CASE MaintenanceSteps
  BY <1>6 DEF MaintenanceSteps, StartMaintenance, ListFinished, NextFinished, FinishRow,
     ListOrphans, RemoveOrphan
<1>7. CASE \E c \in Threads : RetentionSteps(c)
  BY <1>7 DEF RetentionSteps, ExpireList, ExpireNext, ExpireRow, DeleteMove, DeleteRow,
     DeleteRestore, DeleteUnlink
<1>8. CASE ToggleKeepAudio \/ \E j \in Jobs : Outlive(j)
  BY <1>8 DEF ToggleKeepAudio, Outlive
<1>9. QED
  BY <1>1, <1>2, <1>3, <1>4, <1>5, <1>6, <1>7, <1>8 DEF Next

(* Every step writes rows whose columns fit. *)
LEMMA SoundStep ==
  ASSUME Inductive, Inductive', RowsAreSound, CommandKnows, Next
  PROVE  RowsAreSound'
<1>1. SUFFICES ASSUME NEW j \in Jobs PROVE SoundRow(jobs'[j])
  BY DEF RowsAreSound
<1>2. SoundRow(NoRow) /\ SoundRow(InsertStarting)
  BY DEF SoundRow, NoRow, InsertStarting
<1>3. CASE j \in born
  BY <1>3, Ageing DEF Aged, RowsAreSound
<1>4. CASE j \in born' \ born
  <2>1. PICK i \in Jobs : StartRecording(i)
    BY <1>4, OnlyStartBears
  <2>2. i = j
    BY <1>4, <2>1 DEF StartRecording
  <2>3. jobs'[j] = InsertStarting
    BY <2>1, <2>2 DEF StartRecording, Put, Inductive, TypeOK
  <2>4. QED
    BY <1>2, <2>3
<1>5. CASE j \notin born'
  BY <1>2, <1>5 DEF Inductive, UnbornIsBlank
<1>6. QED
  BY <1>3, <1>4, <1>5

--------------------------------------------------------------------------------
(* What a command knows *)

(* The maintenance thread only takes rows away. *)
LEMMA MaintenanceTakes ==
  ASSUME Inductive, MaintenanceSteps \/ RetentionSteps("maintenance")
  PROVE  /\ frame'["daemon"] = frame["daemon"]
         /\ UNCHANGED <<activity, tickets, born, heard, chords>>
         /\ \A j \in Jobs : jobs'[j] = jobs[j] \/ jobs'[j] = NoRow
         /\ \A j \in Jobs \ {Victim("maintenance")} : jobs'[j] = jobs[j] /\ recorded'[j] = recorded[j]
<1>1. UNCHANGED <<activity, tickets, born, heard, chords>>
  BY DEF MaintenanceSteps, StartMaintenance, ListFinished, NextFinished, FinishRow,
     ListOrphans, RemoveOrphan, RetentionSteps, ExpireList, ExpireNext, ExpireRow, DeleteMove,
     DeleteRow, DeleteRestore, DeleteUnlink, allButFrame, allButRow, allButAudio, stored
<1>2. UNCHANGED jobs \/ Put(Victim("maintenance"), NoRow)
  BY DEF MaintenanceSteps, StartMaintenance, ListFinished, NextFinished, FinishRow,
     ListOrphans, RemoveOrphan, RetentionSteps, ExpireList, ExpireNext, ExpireRow, DeleteMove,
     DeleteRow, DeleteRestore, DeleteUnlink, Statement, CompleteDelivered, allButFrame,
     allButAudio, stored
<1>3. /\ \A j \in Jobs : jobs'[j] = jobs[j] \/ jobs'[j] = NoRow
      /\ \A j \in Jobs \ {Victim("maintenance")} : jobs'[j] = jobs[j]
  BY <1>2 DEF Put, Inductive, TypeOK
<1>6. \A j \in Jobs \ {Victim("maintenance")} : recorded'[j] = recorded[j]
  <2>1. UNCHANGED recorded \/ FinishRow
    BY DEF MaintenanceSteps, StartMaintenance, ListFinished, NextFinished,
       ListOrphans, RemoveOrphan, RetentionSteps, ExpireList, ExpireNext, ExpireRow, DeleteMove,
       DeleteRow, DeleteRestore, DeleteUnlink, allButFrame, allButRow, allButAudio, stored
  <2>2. QED
    BY <2>1 DEF FinishRow, CompleteDelivered, Inductive, TypeOK
<1>4. frame'["daemon"] = frame["daemon"]
  <2>1. \A new : Turn("maintenance", new) => frame'["daemon"] = frame["daemon"]
    BY DEF Turn, Inductive, TypeOK, Threads
  <2>2. \E new : Turn("maintenance", new)
    BY DEF MaintenanceSteps, StartMaintenance, ListFinished, NextFinished, FinishRow,
       ListOrphans, RemoveOrphan, Take, RetentionSteps, ExpireList, ExpireNext, ExpireRow, DeleteMove,
       DeleteRow, DeleteRestore, DeleteUnlink, Statement, CompleteDelivered, Go
  <2>3. QED
    BY <2>1, <2>2
<1>5. QED
  BY <1>1, <1>3, <1>4, <1>6

(* The daemon's retention and deletes take rows away as well. *)
LEMMA RetentionTakes ==
  ASSUME Inductive, RetentionSteps("daemon")
  PROVE  /\ UNCHANGED <<recorded, activity, tickets, born, heard, chords>>
         /\ \A j \in Jobs : jobs'[j] = jobs[j] \/ jobs'[j] = NoRow
         /\ \A j \in Jobs \ {Victim("daemon")} : jobs'[j] = jobs[j]
<1>1. UNCHANGED jobs \/ Put(Victim("daemon"), NoRow)
  BY DEF RetentionSteps, ExpireList, ExpireNext, ExpireRow, DeleteMove,
     DeleteRow, DeleteRestore, DeleteUnlink, Statement, allButFrame, allButAudio, stored
<1>2. QED
  BY <1>1 DEF RetentionSteps, ExpireList, ExpireNext, ExpireRow, DeleteMove, DeleteRow,
     DeleteRestore, DeleteUnlink, allButFrame, allButRow, allButAudio, stored, Put, Inductive, TypeOK

(* The daemon's command arrives at a label where the row is as it should be. *)
LEMMA Arrives ==
  ASSUME Inductive, NEW label \in Labels \ {"off"}, Go("daemon", label),
         IsRow(Row') => KnowsAlso(label, Row'),
         label \in SharedLabels /\ IsRow(Row') => Row'.stage = "delivered",
         label \in EndLabels => ~InRetention("daemon")
  PROVE  CommandKnows'
<1>1. /\ Label' = label /\ Job("daemon")' = Job("daemon")
      /\ frame'["daemon"].goal = frame["daemon"].goal
  BY GoesOn DEF Inductive, TypeOK
<1>2. QED
  BY <1>1 DEF CommandKnows, Retains, InRetention, SharedLabels

(* A statement of the daemon's command leads to a label that finds the row it knows. *)
LEMMA RowStepArrives ==
  ASSUME Inductive, NEW here \in JobLabels, NEW row, NEW next \in JobLabels \cup {"settle"},
         NEW onFault \in {"settle", "fail_job"},
         RowStep(here, row, next, onFault),
         IsRow(row) => KnowsAlso(next, row),
         next \notin EndLabels \cup SharedLabels
  PROVE  CommandKnows'
<1>1. next \in Labels \ {"off"} /\ onFault \in Labels \ {"off"}
  BY DEF JobLabels, StartLabels, EndLabels, StoreLabels, ReadyLabels, RetryLabels,
         AgainLabels, OtherLabels, Labels, DaemonLabels, SharedLabels
<1>2. onFault \notin EndLabels \cup SharedLabels /\ \A r : KnowsAlso(onFault, r)
  BY DEF EndLabels, SharedLabels, KnowsAlso, BeforeLabels, DeliverLabels, EndingLabels
<1>3. Label = here
  BY DEF RowStep, At, Label
<1>4. CASE Put(Job("daemon"), row) /\ Go("daemon", next)
  <2>1. Job("daemon") \in Jobs /\ Job("daemon")' = Job("daemon")
    BY <1>1, <1>3, <1>4, KnownRow, GoesOn DEF Inductive, TypeOK
  <2>2. Row' = row
    BY <1>4, <2>1 DEF Put, Row, Inductive, TypeOK
  <2>3. QED
    BY <1>1, <1>4, <2>2, Arrives
<1>5. CASE Go("daemon", onFault) /\ UNCHANGED jobs
  BY <1>1, <1>2, <1>5, Arrives
<1>6. QED
  BY <1>4, <1>5 DEF RowStep, Statement

(* A label at which there is nothing to know. *)
BlankLabels == {"down", "open_ambiguous", "open_interrupted", "open_deletions", "idle", "settle",
                "panicked"} \cup StartLabels \cup {"finish", "capture", "discard", "retry_update",
                "again_update", "store_raw", "store_silent", "store_failed", "fail_job", "read_result"}

(* At labels that rely on nothing CommandKnows holds of itself, *)
LEMMA NothingToKnow ==
  ASSUME Label' \in BlankLabels, Label' \in EndLabels => ~InRetention("daemon")'
  PROVE  CommandKnows'
  BY DEF BlankLabels, CommandKnows, Retains, SharedLabels, KnowsAlso, BeforeLabels, DeliverLabels,
     EndingLabels, StartLabels, EndLabels

(* when the command goes on to one, *)
LEMMA BlankGo ==
  ASSUME Inductive, NEW label \in BlankLabels, Go("daemon", label),
         label \in EndLabels => ~InRetention("daemon")
  PROVE  CommandKnows'
<1>1. label \in Labels \ {"off"}
  BY DEF BlankLabels, StartLabels, Labels, DaemonLabels
<1>2. Label' = label /\ (label \in EndLabels => ~InRetention("daemon")')
  BY <1>1, GoesOn DEF Inductive, TypeOK, InRetention
<1>3. QED
  BY <1>2, NothingToKnow

(* when a command starts at one, *)
LEMMA BlankCommand ==
  ASSUME Inductive, NEW new, Command(new), new.at \in BlankLabels, new.goal # "retention"
  PROVE  CommandKnows'
  BY NewCommand, NothingToKnow DEF Inductive, TypeOK, Label, InRetention

(* and of a thread at rest, field by field. *)
LEMMA RestIsBlank ==
  ASSUME NEW label
  PROVE  /\ AtRest(label).at = label /\ AtRest(label).goal = "none"
         /\ AtRest(label) = [at |-> label, job |-> NoJob, todo |-> {}, victim |-> NoJob,
                             moved |-> FALSE, goal |-> "none", pastes |-> FALSE,
                             settles |-> FALSE, keeps |-> FALSE]
  BY DEF AtRest

(* The steps of a recording keep CommandKnows, *)
LEMMA KnowsAfterRecording ==
  ASSUME Inductive, RowsAreSound, CommandKnows, RecordingSteps
  PROVE  CommandKnows'
<1> USE RestIsBlank DEF BlankLabels, StartLabels
<1>1. ASSUME NEW j \in Jobs, StartRecording(j) PROVE CommandKnows'
  <2>1. CASE UNCHANGED frame
    BY <1>1, <2>1, NothingToKnow DEF StartRecording, Unlocked, At, Label, EndLabels
  <2>2. CASE Command([AtRest("recorder_start") EXCEPT !.job = j])
    BY <2>2, BlankCommand
  <2>3. QED
    BY <1>1, <2>1, <2>2 DEF StartRecording
<1>2. CASE RecorderStart
  BY <1>2, BlankGo DEF RecorderStart, EndLabels
<1>3. CASE CheckpointRecording
  <2>1. CASE Command(AtRest("idle"))
    BY <2>1, BlankCommand
  <2>2. QED
    BY <1>3, <2>1, BlankGo DEF CheckpointRecording, UnreadStatement, EndLabels
<1>4. CASE AbortStart
  BY <1>4, BlankGo DEF AbortStart, EndLabels
<1>5. CASE InterruptStart \/ InterruptRecording \/ InterruptCaptured
  BY <1>5, BlankGo DEF InterruptStart, InterruptRecording, InterruptCaptured, RowStep, Statement,
     EndLabels
<1>6. ASSUME NEW goal \in {"stop", "discard", "preserve"}, FinishRecording(goal) PROVE CommandKnows'
  <2> DEFINE new == [AtRest("finish") EXCEPT !.job = activity.job, !.goal = goal, !.settles = TRUE]
  <2>1. new.at = "finish" /\ new.goal = goal
    BY DEF AtRest
  <2>2. Command(new)
    BY <1>6 DEF FinishRecording
  <2>3. QED
    BY <2>1, <2>2, BlankCommand
<1>7. CASE RecorderFinish
  <2>1. Label = "finish" /\ UNCHANGED jobs
    BY <1>7 DEF RecorderFinish, At, Label, stored
  <2>2. ~InRetention("daemon") /\ (IsRow(Row) => Row.stage = "recording")
    BY <2>1, KnownRow DEF CommandKnows, EndLabels, JobLabels, Knows
  <2>3. CASE Go("daemon", "capture")
    BY <2>2, <2>3, BlankGo
  <2>4. CASE Go("daemon", "interrupt_recording")
    <3>1. "interrupt_recording" \in Labels \ {"off"} /\ "interrupt_recording" \notin SharedLabels
      BY DEF Labels, DaemonLabels, SharedLabels
    <3>2. Row' = Row
      BY <2>1, <2>4, <3>1, GoesOn DEF Row, Inductive, TypeOK
    <3>3. KnowsAlso("interrupt_recording", Row) \/ ~IsRow(Row)
      BY <2>2 DEF KnowsAlso, BeforeLabels, DeliverLabels, EndingLabels
    <3>4. QED
      BY <2>2, <2>4, <3>1, <3>2, <3>3, Arrives
  <2>5. QED
    BY <1>7, <2>3, <2>4 DEF RecorderFinish
<1>8. CASE CaptureRecording
  <2>1. Label = "capture"
    BY <1>8 DEF CaptureRecording, At, Label
  <2>2. /\ ~InRetention("daemon") /\ Job("daemon") \in Jobs
        /\ Row \in Rows /\ (IsRow(Row) => Row.stage = "recording")
    BY <2>1, KnownRow DEF CommandKnows, EndLabels, JobLabels, Knows
  <2>3. {"begin", "discard", "interrupt_captured", "interrupt_recording", "settle"}
           \subseteq (Labels \ {"off"}) \ SharedLabels
    BY DEF Labels, DaemonLabels, SharedLabels
  <2>4. ASSUME NEW long \in BOOLEAN, NEW next \in {"begin", "discard", "interrupt_captured"},
               Put(Job("daemon"), Captured(Row, long)), Go("daemon", next)
        PROVE  CommandKnows'
    <3>1. Row' = Captured(Row, long)
      BY <2>2, <2>3, <2>4, GoesOn DEF Row, Put, Inductive, TypeOK
    <3>2. IsRow(Row') => Row'.stage = "captured" /\ ~Row'.expired
      BY <2>2, <3>1 DEF Captured, Updated, Rows, IsRow
    <3>3. IsRow(Row') => KnowsAlso(next, Row')
      BY <3>2 DEF KnowsAlso, BeforeLabels, DeliverLabels, EndingLabels
    <3>4. QED
      BY <2>2, <2>3, <2>4, <3>3, Arrives
  <2>5. CASE Go("daemon", "interrupt_recording") /\ UNCHANGED jobs
    <3>1. Row' = Row
      BY <2>3, <2>5, GoesOn DEF Row, Inductive, TypeOK
    <3>2. IsRow(Row) => KnowsAlso("interrupt_recording", Row)
      BY <2>2 DEF KnowsAlso, BeforeLabels, DeliverLabels, EndingLabels
    <3>3. QED
      BY <2>2, <2>3, <2>5, <3>1, <3>2, Arrives
  <2>6. CASE Go("daemon", "settle")
    BY <2>6, BlankGo DEF EndLabels
  <2>7. QED
    BY <1>8, <2>4, <2>5, <2>6 DEF CaptureRecording, UnreadStatement, Statement
<1>9. CASE BeginTranscription
  <2>1. CASE Command(AtRest("idle"))
    BY <2>1, BlankCommand
  <2>2. QED
    BY <1>9, <2>1, BlankGo DEF BeginTranscription, UnreadStatement, EndLabels
<1>10. CASE DiscardRecording
  <2>1. Label = "discard" /\ ~InRetention("daemon")
    BY <1>10 DEF DiscardRecording, At, Label, CommandKnows, EndLabels
  <2>2. CASE Command([frame["daemon"] EXCEPT !.at = "delete_move", !.victim = Job("daemon")])
    <3>1. Label' = "delete_move" /\ ~InRetention("daemon")'
      BY <2>1, <2>2, NewCommand, ZenonT(40) DEF Inductive, TypeOK, Threads, Frames, Label, InRetention
    <3>2. "delete_move" \notin JobLabels \cup EndLabels
      BY DEF JobLabels, EndLabels, StoreLabels, ReadyLabels, RetryLabels, AgainLabels, OtherLabels
    <3>3. QED
      BY <3>1, <3>2 DEF CommandKnows, Retains
  <2>3. QED
    BY <1>10, <2>2, BlankGo DEF DiscardRecording, Statement, EndLabels
<1>11. QED
  BY <1>1, <1>2, <1>3, <1>4, <1>5, <1>6, <1>7, <1>8, <1>9, <1>10 DEF RecordingSteps

(* those of a transcription's result, *)
LEMMA KnowsAfterResult ==
  ASSUME Inductive, RowsAreSound, CommandKnows, ResultSteps
  PROVE  CommandKnows'
<1>sets. /\ StoreLabels \cup ReadyLabels \cup {"fail_job", "cleanup_audio"} \subseteq JobLabels
         /\ StoreLabels \cup ReadyLabels \cup {"fail_job", "cleanup_audio"}
              \subseteq (Labels \ {"off"}) \ (EndLabels \cup SharedLabels)
  BY DEF JobLabels, StoreLabels, ReadyLabels, OtherLabels, EndLabels, SharedLabels, Labels,
     DaemonLabels
<1>1. ASSUME NEW j \in Jobs, TranscriptionDone(j) PROVE CommandKnows'
  <2>1. \A label \in {"settle", "store_raw", "store_failed", "store_silent"} :
          Resume(j, label) => CommandKnows'
    BY BlankCommand, RestIsBlank, ZenonT(40) DEF Resume, BlankLabels
  <2>2. QED
    BY <1>1, <2>1 DEF TranscriptionDone
<1>2. CASE StoreRawText
  <2>1. Row \in Rows
    BY <1>2, <1>sets, KnownRow DEF StoreRawText, RowStep, At, Label, StoreLabels
  <2>2. IsRow(StoreRaw(Row)) => KnowsAlso("store_ready", StoreRaw(Row))
    BY <2>1 DEF StoreRaw, Updated, Rows, IsRow, KnowsAlso, BeforeLabels, DeliverLabels, EndingLabels
  <2>3. QED
    BY <1>2, <1>sets, <2>2, RowStepArrives DEF StoreRawText, StoreLabels
<1>3. CASE StoreReadyText
  <2>1. Row \in Rows
    BY <1>3, <1>sets, KnownRow DEF StoreReadyText, RowStep, At, Label, StoreLabels
  <2>2. IsRow(StoreReady(Row)) => KnowsAlso("read_ready", StoreReady(Row))
    BY <2>1 DEF StoreReady, Updated, Rows, IsRow, KnowsAlso, BeforeLabels, DeliverLabels, EndingLabels
  <2>3. QED
    BY <1>3, <1>sets, <2>2, RowStepArrives DEF StoreReadyText, StoreLabels, ReadyLabels
<1>4. CASE StoreSilent
  <2>1. ~IsRow(NoRow)
    BY DEF IsRow, NoRow
  <2>2. QED
    BY <1>4, <1>sets, <2>1, RowStepArrives DEF StoreSilent, StoreLabels
<1>5. CASE StoreFailed \/ FailStep
  BY <1>5, BlankGo DEF StoreFailed, FailStep, RowStep, Statement, BlankLabels, EndLabels
<1>6. CASE ReadReady
  <2>1. Label = "read_ready" /\ UNCHANGED jobs /\ Job("daemon") \in Jobs
        /\ (IsRow(Row) => KnowsAlso("read_ready", Row))
    BY <1>6, <1>sets, KnownRow DEF ReadReady, ReadBack, At, Label, ReadyLabels, allButFrame, stored,
       CommandKnows
  <2>2. \A label \in {"gate", "attempt"} : IsRow(Row) => KnowsAlso(label, Row)
    BY <2>1 DEF KnowsAlso, BeforeLabels, DeliverLabels, EndingLabels
  <2>3. \A label \in {"gate", "attempt"} : Go("daemon", label) => CommandKnows'
    <3>1. TAKE label \in {"gate", "attempt"}
    <3>2. HAVE Go("daemon", label)
    <3>3. label \in Labels \ {"off"} /\ label \notin EndLabels \cup SharedLabels
      BY <1>sets DEF ReadyLabels
    <3>4. Row' = Row
      BY <2>1, <3>2, <3>3, GoesOn DEF Row, Inductive, TypeOK
    <3>5. QED
      BY <2>2, <3>2, <3>3, <3>4, Arrives
  <2>4. \A label \in {"settle", "panicked", "fail_job"} : Go("daemon", label) => CommandKnows'
    BY BlankGo DEF BlankLabels, EndLabels
  <2>5. CASE Command([frame["daemon"] EXCEPT !.at = "attempt", !.pastes = FALSE])
    <3>1. Label' = "attempt" /\ Row' = Row
      BY <2>1, <2>5, NewCommand DEF Inductive, TypeOK, Threads, Frames, Label, Row, Job
    <3>2. QED
      BY <1>sets, <2>2, <3>1 DEF CommandKnows, Retains, ReadyLabels, SharedLabels
  <2>6. QED
    BY <1>6, <2>3, <2>4, <2>5 DEF ReadReady, ReadBack
<1>7. QED
  BY <1>1, <1>2, <1>3, <1>4, <1>5, <1>6 DEF ResultSteps

(* those of a delivery, *)
LEMMA KnowsAfterDelivery ==
  ASSUME Inductive, RowsAreSound, CommandKnows, DeliverySteps
  PROVE  CommandKnows'
<1>sets. /\ ReadyLabels \cup OtherLabels \subseteq JobLabels
         /\ ReadyLabels \cup OtherLabels \subseteq (Labels \ {"off"}) \ EndLabels
         /\ (ReadyLabels \cup OtherLabels) \cap SharedLabels = {"expire_list"}
  BY DEF JobLabels, ReadyLabels, OtherLabels, EndLabels, SharedLabels, Labels, DaemonLabels
<1>1. CASE Gate \/ Deliver
  <2>1. /\ UNCHANGED jobs /\ Job("daemon") \in Jobs
        /\ IsRow(Row) => KnowsAlso(Label, Row)
    BY <1>1, <1>sets, KnownRow DEF Gate, Deliver, At, Label, ReadyLabels, allButFrame, stored,
       CommandKnows
  <2>2. PICK label \in ReadyLabels :
          /\ Go("daemon", label)
          /\ Gate => label \in {"attempt", "gate_blocked"}
          /\ Deliver => label \in {"record_submitted", "record_ambiguous", "record_not_sent"}
    BY <1>1 DEF Gate, Deliver, At, ReadyLabels
  <2>3. Row' = Row
    BY <1>sets, <2>1, <2>2, GoesOn DEF Row, Inductive, TypeOK
  <2>4. IsRow(Row) => KnowsAlso(label, Row)
    BY <1>1, <2>1, <2>2 DEF Gate, Deliver, At, Label, KnowsAlso, BeforeLabels, DeliverLabels, EndingLabels
  <2>5. label \notin SharedLabels
    BY <1>sets DEF ReadyLabels
  <2>6. QED
    BY <1>sets, <2>2, <2>3, <2>4, <2>5, Arrives
<1>2. CASE Attempt
  <2>1. Row \in Rows
    BY <1>2, <1>sets, KnownRow DEF Attempt, RowStep, At, Label, ReadyLabels
  <2>2. IsRow(Attempting(Row)) => KnowsAlso("deliver", Attempting(Row))
    BY <2>1 DEF Attempting, Updated, Rows, IsRow, KnowsAlso, BeforeLabels, DeliverLabels, EndingLabels
  <2>3. QED
    BY <1>2, <1>sets, <2>2, RowStepArrives DEF Attempt, ReadyLabels
<1>3. CASE GateRefused \/ RecordSubmitted \/ RecordAmbiguous \/ RecordNotSent \/ CleanupAudio
  BY <1>3, BlankGo DEF GateRefused, RecordSubmitted, RecordAmbiguous, RecordNotSent, CleanupAudio,
     RowStep, Statement, BlankLabels, EndLabels
<1>4. CASE ReadResult
  <2>1. UNCHANGED jobs /\ Job("daemon") \in Jobs
    BY <1>4, <1>sets, KnownRow DEF ReadResult, ReadBack, At, Label, OtherLabels, allButFrame, stored
  <2>2. CASE Go("daemon", "complete") /\ Row.stage = "delivered"
    <3>1. Row' = Row
      BY <1>sets, <2>1, <2>2, GoesOn DEF Row, Inductive, TypeOK, OtherLabels
    <3>2. KnowsAlso("complete", Row)
      BY <2>2 DEF KnowsAlso, BeforeLabels, DeliverLabels, EndingLabels
    <3>3. QED
      BY <1>sets, <2>2, <3>1, <3>2, Arrives DEF OtherLabels
  <2>3. \A label \in {"settle", "panicked", "fail_job"} : Go("daemon", label) => CommandKnows'
    BY BlankGo DEF BlankLabels, EndLabels
  <2>4. QED
    BY <1>4, <2>2, <2>3 DEF ReadResult, ReadBack
<1>5. CASE Complete
  <2>1. /\ Job("daemon") \in Jobs
        /\ IsRow(Row) => Row.stage = "delivered"
    BY <1>5, <1>sets, KnownRow DEF Complete, At, Label, OtherLabels, CommandKnows, KnowsAlso,
       EndingLabels
  <2>2. CASE Put(Job("daemon"), NoRow) /\ Go("daemon", "expire_list")
    <3>1. ~IsRow(Row')
      BY <1>sets, <2>1, <2>2, GoesOn DEF Row, Put, Inductive, TypeOK, OtherLabels, IsRow, NoRow
    <3>2. QED
      BY <1>sets, <2>2, <3>1, Arrives DEF OtherLabels
  <2>3. CASE UNCHANGED jobs /\ Go("daemon", "cleanup_audio")
    <3>1. Row' = Row
      BY <1>sets, <2>1, <2>3, GoesOn DEF Row, Inductive, TypeOK, OtherLabels
    <3>2. IsRow(Row) => KnowsAlso("cleanup_audio", Row)
      BY <2>1 DEF KnowsAlso, BeforeLabels, DeliverLabels
    <3>3. QED
      BY <1>sets, <2>1, <2>3, <3>1, <3>2, Arrives DEF OtherLabels
  <2>4. QED
    BY <1>5, <2>2, <2>3 DEF Complete, CompleteDelivered
<1>6. CASE Settle
  BY <1>6, BlankCommand, RestIsBlank DEF Settle, BlankLabels
<1>7. QED
  BY <1>1, <1>2, <1>3, <1>4, <1>5, <1>6 DEF DeliverySteps

(* those of the Recovery commands, *)
LEMMA KnowsAfterRecovery ==
  ASSUME Inductive, RowsAreSound, CommandKnows, RecoverySteps
  PROVE  CommandKnows'
<1>sets. /\ RetryLabels \cup AgainLabels \cup {"attempt"} \subseteq JobLabels
         /\ RetryLabels \cup AgainLabels \cup {"attempt"}
              \subseteq (Labels \ {"off"}) \ (EndLabels \cup SharedLabels)
  BY DEF JobLabels, RetryLabels, AgainLabels, ReadyLabels, EndLabels, SharedLabels, Labels, DaemonLabels
<1>1. ASSUME NEW j \in Jobs, RetryTranscriptionOf(j) \/ PasteAgain(j) PROVE CommandKnows'
  <2>1. CASE Command([AtRest("retry_update") EXCEPT !.job = j])
    BY <2>1, BlankCommand, RestIsBlank DEF BlankLabels
  <2>2. CASE Command([AtRest("again_update") EXCEPT !.job = j])
    BY <2>2, BlankCommand, RestIsBlank DEF BlankLabels
  <2>3. QED
    BY <1>1, <2>1, <2>2 DEF RetryTranscriptionOf, PasteAgain
<1>2. ASSUME NEW j \in Jobs, DeleteRecovery(j) PROVE CommandKnows'
  <2> DEFINE new == [AtRest("delete_move") EXCEPT !.victim = j, !.goal = "user"]
  <2>rest. new.at = "delete_move" /\ new.goal = "user"
    BY DEF AtRest
  <2>new. frame'["daemon"] = new
    BY <1>2, NewCommand DEF DeleteRecovery, Inductive, TypeOK
  <2>1. Label' = "delete_move" /\ ~InRetention("daemon")'
    BY <2>rest, <2>new DEF Label, InRetention
  <2>2. "delete_move" \notin JobLabels \cup EndLabels
    BY DEF JobLabels, StartLabels, EndLabels, StoreLabels, ReadyLabels, RetryLabels, AgainLabels,
       OtherLabels
  <2>3. QED
    BY <2>1, <2>2 DEF CommandKnows, Retains
<1>3. CASE RetryUpdate
  <2>1. Row \in Rows
    BY <1>3, <1>sets, KnownRow DEF RetryUpdate, RowStep, At, Label, RetryLabels
  <2>2. IsRow(RetryTranscription(Row)) => KnowsAlso("retry_read", RetryTranscription(Row))
    BY <2>1 DEF RetryTranscription, Updated, Rows, IsRow, KnowsAlso, BeforeLabels, DeliverLabels,
       EndingLabels
  <2>3. QED
    BY <1>3, <1>sets, <2>2, RowStepArrives DEF RetryUpdate, RetryLabels
<1>4. CASE AgainUpdate
  <2>1. Row \in Rows
    BY <1>4, <1>sets, KnownRow DEF AgainUpdate, RowStep, At, Label, AgainLabels
  <2>2. IsRow(RetryDelivery(Row)) => KnowsAlso("again_read", RetryDelivery(Row))
    BY <2>1 DEF RetryDelivery, Updated, Rows, IsRow, KnowsAlso, BeforeLabels, DeliverLabels,
       EndingLabels
  <2>3. QED
    BY <1>4, <1>sets, <2>2, RowStepArrives DEF AgainUpdate, AgainLabels
<1>5. CASE RetryRead
  <2>1. CASE Command(AtRest("idle"))
    BY <2>1, BlankCommand, RestIsBlank DEF BlankLabels
  <2>2. QED
    BY <1>5, <2>1, BlankGo DEF RetryRead, BlankLabels, EndLabels
<1>6. CASE AgainRead
  <2>1. /\ UNCHANGED jobs /\ Job("daemon") \in Jobs
        /\ IsRow(Row) => KnowsAlso("again_read", Row)
    BY <1>6, <1>sets, KnownRow DEF AgainRead, ReadBack, At, Label, AgainLabels, allButFrame, stored,
       CommandKnows
  <2>2. CASE Go("daemon", "attempt")
    <3>1. Row' = Row
      BY <1>sets, <2>1, <2>2, GoesOn DEF Row, Inductive, TypeOK
    <3>2. IsRow(Row) => KnowsAlso("attempt", Row)
      BY <2>1 DEF KnowsAlso, BeforeLabels, DeliverLabels, EndingLabels
    <3>3. QED
      BY <1>sets, <2>2, <3>1, <3>2, Arrives
  <2>3. QED
    BY <1>6, <2>2, BlankGo DEF AgainRead, ReadBack, BlankLabels, EndLabels
<1>7. CASE CancelProcessing
  BY <1>7, NothingToKnow DEF CancelProcessing, Unlocked, At, Label, BlankLabels, EndLabels
<1>8. QED
  BY <1>1, <1>2, <1>3, <1>4, <1>5, <1>6, <1>7 DEF RecoverySteps

(* Where retention and deletes lead in the daemon. *)
LEMMA RetentionLeads ==
  ASSUME Inductive, RetentionSteps("daemon")
  PROVE  /\ Job("daemon")' = Job("daemon")
         /\ frame'["daemon"].settles = frame["daemon"].settles
         /\ Label \in SharedLabels
         /\ Label' \in SharedLabels \cup {"cleanup_audio", "settle"}
         /\ InRetention("daemon")' => InRetention("daemon") \/ Label = "expire_list"
         /\ Label' = "cleanup_audio" => Label = "expire_list" \/ Retains
         /\ Label' \in {"expire_next", "expire_row", "expire_list"} => Label = "expire_list" \/ Retains
<1>1. \A label \in {"cleanup_audio", "settle", "expire_next", "delete_unlink", "delete_restore"} :
        Go("daemon", label) => /\ Label' = label /\ Job("daemon")' = Job("daemon")
                               /\ InRetention("daemon")' = InRetention("daemon")
                               /\ frame'["daemon"].settles = frame["daemon"].settles
  BY GoesOn DEF Inductive, TypeOK, InRetention, Labels, DaemonLabels, SharedLabels
<1>2. CASE ExpireList("daemon")
  <2>1. ASSUME NEW todo,
               Turn("daemon", [frame["daemon"] EXCEPT
                                 !.at = "expire_next", !.goal = "retention", !.todo = todo])
        PROVE  /\ Label' = "expire_next" /\ Job("daemon")' = Job("daemon")
               /\ frame'["daemon"].settles = frame["daemon"].settles
    BY <2>1 DEF Turn, Inductive, TypeOK, Threads, Frames, Label, Job
  <2>2. Label = "expire_list"
    BY <1>2 DEF ExpireList, At, Label
  <2>3. QED
    BY <1>1, <1>2, <2>1, <2>2 DEF ExpireList, AfterRetention, SharedLabels
<1>3. CASE ExpireNext("daemon")
  <2>1. ASSUME NEW label \in {"expire_row", "delete_move", "expire_next"}, NEW todo, NEW j,
               Turn("daemon", [frame["daemon"] EXCEPT
                                 !.at = label, !.todo = todo, !.victim = j])
        PROVE  /\ Label' = label /\ Job("daemon")' = Job("daemon")
               /\ InRetention("daemon")' = InRetention("daemon")
               /\ frame'["daemon"].settles = frame["daemon"].settles
    BY <2>1 DEF Turn, Inductive, TypeOK, Threads, Frames, Label, Job, InRetention
  <2>2. Label = "expire_next" /\ Retains
    BY <1>3 DEF ExpireNext, At, Label, Retains
  <2>3. QED
    BY <1>1, <1>3, <2>1, <2>2 DEF ExpireNext, AfterRetention, SharedLabels
<1>4. CASE ExpireRow("daemon")
  <2>1. Label = "expire_row" /\ Retains
    BY <1>4 DEF ExpireRow, At, Label, Retains
  <2>2. QED
    BY <1>1, <1>4, <2>1 DEF ExpireRow, Statement, AfterRetention, SharedLabels
<1>5. Label \in SharedLabels /\ InRetention("daemon") => Retains
  BY DEF Retains
<1>6. CASE DeleteMove("daemon")
  <2>1. ASSUME NEW moved,
               Turn("daemon", [frame["daemon"] EXCEPT !.at = "delete_row", !.moved = moved])
        PROVE  /\ Label' = "delete_row" /\ Job("daemon")' = Job("daemon")
               /\ InRetention("daemon")' = InRetention("daemon")
               /\ frame'["daemon"].settles = frame["daemon"].settles
    BY <2>1 DEF Turn, Inductive, TypeOK, Threads, Frames, Label, Job, InRetention
  <2>2. Label \in SharedLabels
    BY <1>6 DEF DeleteMove, At, Label, SharedLabels
  <2>3. QED
    BY <1>1, <1>5, <1>6, <2>1, <2>2 DEF DeleteMove, AfterDelete, SharedLabels
<1>7. CASE DeleteRow("daemon")
  <2>1. Label \in SharedLabels
    BY <1>7 DEF DeleteRow, At, Label, SharedLabels
  <2>2. QED
    BY <1>1, <1>5, <1>7, <2>1
    DEF DeleteRow, Statement, AfterDelete, AfterFailedDelete, AfterRetention, SharedLabels
<1>8. CASE DeleteRestore("daemon") \/ DeleteUnlink("daemon")
  <2>1. Label \in SharedLabels
    BY <1>8 DEF DeleteRestore, DeleteUnlink, At, Label, SharedLabels
  <2>2. QED
    BY <1>1, <1>5, <1>8, <2>1
    DEF DeleteRestore, DeleteUnlink, AfterDelete, AfterFailedDelete, AfterRetention, SharedLabels
<1>9. Label \in SharedLabels
  BY DEF RetentionSteps, ExpireList, ExpireNext, ExpireRow, DeleteMove, DeleteRow, DeleteRestore,
     DeleteUnlink, At, Label, SharedLabels
<1>10. QED
  BY <1>2, <1>3, <1>4, <1>6, <1>7, <1>8, <1>9 DEF RetentionSteps

(* (as RetentionLeads, and the daemon's command stays about its job) *)
LEMMA RetentionMoves ==
  ASSUME Inductive, RetentionSteps("daemon")
  PROVE  /\ Job("daemon")' = Job("daemon")
         /\ frame'["daemon"].settles = frame["daemon"].settles
         /\ Label \in SharedLabels
         /\ Label' \in SharedLabels \cup {"cleanup_audio", "settle"}
         /\ InRetention("daemon")' => InRetention("daemon") \/ Label = "expire_list"
         /\ Label' = "cleanup_audio" => Label = "expire_list" \/ Retains
         /\ Label' \in {"expire_next", "expire_row", "expire_list"} => Label = "expire_list" \/ Retains
         /\ Label' \in JobLabels \/ Retains' => Label \in JobLabels \/ Retains
<1>1. Label' \in JobLabels => Label' \in {"expire_list", "cleanup_audio"}
  BY RetentionLeads DEF JobLabels, StartLabels, EndLabels, StoreLabels, ReadyLabels, RetryLabels,
     AgainLabels, OtherLabels, SharedLabels
<1>2. "expire_list" \in JobLabels
  BY DEF JobLabels, OtherLabels
<1>3. Label' \in JobLabels \/ Retains' => Label \in JobLabels \/ Retains
  BY <1>1, <1>2, RetentionLeads DEF Retains
<1>4. QED
  BY <1>3, RetentionLeads

(* those of retention and deletes, *)
LEMMA KnowsAfterRetention ==
  ASSUME Inductive, RowsAreSound, CommandKnows, RetentionSteps("daemon")
  PROVE  CommandKnows'
<1>1. /\ Job("daemon")' = Job("daemon")
      /\ Label' \in SharedLabels \cup {"cleanup_audio", "settle"}
      /\ InRetention("daemon")' => InRetention("daemon") \/ Label = "expire_list"
      /\ Label' = "cleanup_audio" => Label = "expire_list" \/ Retains
      /\ Label' \in {"expire_next", "expire_row", "expire_list"} => Label = "expire_list" \/ Retains
  BY RetentionMoves
<1>2. Label = "expire_list" \/ Retains =>
        Job("daemon") \in Jobs /\ (IsRow(Row) => Row.stage = "delivered")
  BY DEF Inductive, CommandHasJob, CommandKnows, TypeOK, JobLabels, OtherLabels, KnowsAlso, EndingLabels
<1>3. Label = "expire_list" \/ Retains => (IsRow(Row') => Row'.stage = "delivered")
  BY <1>1, <1>2, RetentionTakes DEF Row, IsRow, NoRow
<1>4. Label' \in JobLabels => Label' \in {"expire_list", "cleanup_audio"}
  BY <1>1 DEF JobLabels, StartLabels, EndLabels, StoreLabels, ReadyLabels, RetryLabels,
     AgainLabels, OtherLabels, SharedLabels
<1>5. Label' \in JobLabels /\ IsRow(Row') => KnowsAlso(Label', Row')
  BY <1>1, <1>3, <1>4 DEF KnowsAlso, BeforeLabels, DeliverLabels, EndingLabels
<1>6. Retains' => Label = "expire_list" \/ Retains
  BY <1>1 DEF Retains, RetentionSteps, ExpireList, ExpireNext, ExpireRow, DeleteMove, DeleteRow,
     DeleteRestore, DeleteUnlink, At, Label, SharedLabels
<1>7. Label' \notin EndLabels
  BY <1>1 DEF SharedLabels, EndLabels
<1>8. QED
  BY <1>3, <1>5, <1>6, <1>7 DEF CommandKnows

(* and so does every step. *)
LEMMA KnowsStep ==
  ASSUME Inductive, RowsAreSound, CommandKnows, [Next]_vars
  PROVE  CommandKnows'
<1>1. ASSUME frame'["daemon"] = frame["daemon"],
             \A j \in Jobs : jobs'[j] = jobs[j] \/ jobs'[j] = NoRow
      PROVE  CommandKnows'
  <2>1. Label' = Label /\ Job("daemon")' = Job("daemon") /\ InRetention("daemon")' = InRetention("daemon")
    BY <1>1 DEF Label, Job, InRetention
  <2>2. Label \in JobLabels \/ Retains => Job("daemon") \in Jobs
    BY DEF Inductive, CommandHasJob, TypeOK
  <2>3. Retains' = Retains
    BY <2>1 DEF Retains
  <2>4. Label \in JobLabels \/ Retains => Row' = Row \/ ~IsRow(Row')
    BY <1>1, <2>1, <2>2 DEF Row, IsRow, NoRow
  <2>5. QED
    BY <2>1, <2>3, <2>4 DEF CommandKnows
<1>2. CASE StartSteps \/ EndSteps
  <2>1. Label' \in {"down", "open_ambiguous", "open_interrupted", "open_deletions", "idle"}
    <3>1. \A label \in {"down", "open_ambiguous", "open_interrupted", "open_deletions"} :
            Go("daemon", label) => Label' = label
      BY GoesOn DEF Inductive, TypeOK, Labels, DaemonLabels
    <3>2. Serve \/ EndSteps => Label' \in {"idle", "down"}
      BY DEF Serve, EndSteps, Crash, PanicExit, Quit, ProcessEnds, Label, AtRest, Inductive, TypeOK,
         Threads
    <3>3. frame' = frame => Label' = Label
      BY DEF Label
    <3>4. QED
      BY <1>2, <3>1, <3>2, <3>3 DEF StartSteps, Boot, OpenAmbiguous, OpenInterrupted,
         ReconcileRecoveryDeletion, At, Label
  <2>2. QED
    BY <2>1, NothingToKnow DEF BlankLabels, EndLabels
<1>3. CASE MaintenanceSteps \/ RetentionSteps("maintenance")
  BY <1>1, <1>3, MaintenanceTakes
<1>4. CASE ToggleKeepAudio \/ \E j \in Jobs : Outlive(j)
  <2>1. UNCHANGED frame /\ Label \in {"idle", "down"}
    BY <1>4 DEF ToggleKeepAudio, Outlive, Unlocked, At, Label
  <2>2. Label' = Label
    BY <2>1 DEF Label
  <2>3. QED
    BY <2>1, <2>2, NothingToKnow DEF BlankLabels, EndLabels
<1>5. CASE UNCHANGED vars
  BY <1>1, <1>5 DEF vars
<1>6. QED
  BY <1>2, <1>3, <1>4, <1>5, KnowsAfterRecording, KnowsAfterResult, KnowsAfterDelivery,
     KnowsAfterRecovery, KnowsAfterRetention DEF Next, Threads

--------------------------------------------------------------------------------
(* Labels of a command that keeps its row, and which of them follows which. *)
LastingLabels == StartLabels \cup {"finish", "capture", "begin"} \cup BoundLabels

(* Which of the labels that bind follow which. *)
Follows(old, new) ==
  /\ new \in StartLabels => old \in StartLabels
  /\ new \in {"finish", "capture", "begin", "interrupt_recording"} => old \in {"finish", "capture"}
  /\ new \in BoundLabels => old \in BoundLabels \cup AgainLabels
  /\ new \in AgainLabels => old \in AgainLabels
  /\ new \in RetryLabels => old \in RetryLabels

(* The shape of a daemon's step inside a command: its job, and what the command is for,
   stay, and no other row moves. *)
Within ==
  /\ Label \in JobLabels
  /\ Label' \in JobLabels \cup {"settle", "panicked", "delete_move"}
  /\ Follows(Label, Label')
  /\ Job("daemon")' = Job("daemon")
  /\ frame'["daemon"].settles = frame["daemon"].settles
  /\ frame'["daemon"].pastes => frame["daemon"].pastes
  /\ frame'["daemon"].goal = frame["daemon"].goal
  /\ frame'["daemon"].todo = frame["daemon"].todo
  /\ frame'["maintenance"] = frame["maintenance"]
  /\ IF Label' = "delete_move"
     THEN Label = "discard" /\ Victim("daemon")' = Job("daemon") /\ UNCHANGED jobs
     ELSE Victim("daemon")' = Victim("daemon")
  /\ UNCHANGED <<activity, tickets, born>>
  /\ Label' \in LastingLabels =>
       (IsRow(Row) => IsRow(jobs'[Job("daemon")])) /\ UNCHANGED recorded
  /\ \A j \in Jobs \ {Job("daemon")} : jobs'[j] = jobs[j] /\ recorded'[j] = recorded[j]

(* The steps that end a command by giving its job to the activity. *)
Hands(label, kind, pastes, count) ==
  /\ Label = label
  /\ Command(AtRest("idle"))
  /\ activity' = [kind |-> kind, job |-> Job("daemon"), pastes |-> pastes]
  /\ tickets' = [tickets EXCEPT ![Job("daemon")] = @ + count]
  /\ UNCHANGED <<born, recorded>>
  /\ \A j \in Jobs \ {Job("daemon")} : jobs'[j] = jobs[j]

(* A step that goes on within a command has the shape Within. *)
LEMMA GoWithin ==
  ASSUME Inductive, Label \in JobLabels,
         NEW label \in JobLabels \cup {"settle", "panicked"}, Go("daemon", label),
         UNCHANGED <<activity, tickets, born>>,
         Follows(Label, label),
         label \in LastingLabels =>
           (IsRow(Row) => IsRow(jobs'[Job("daemon")])) /\ UNCHANGED recorded,
         \A j \in Jobs \ {Job("daemon")} : jobs'[j] = jobs[j] /\ recorded'[j] = recorded[j]
  PROVE  Within
<1>1. label \in Labels \ {"off"}
  BY DEF JobLabels, StartLabels, EndLabels, StoreLabels, ReadyLabels, RetryLabels,
         AgainLabels, OtherLabels, Labels, DaemonLabels, SharedLabels
<1>2. /\ frame' = [frame EXCEPT !["daemon"] = [frame["daemon"] EXCEPT !.at = label]]
      /\ frame \in [Threads -> Frames]
  BY <1>1 DEF Go, Turn, Inductive, TypeOK
<1>3. /\ frame'["daemon"].todo = frame["daemon"].todo
      /\ Victim("daemon")' = Victim("daemon")
      /\ frame'["maintenance"] = frame["maintenance"]
  BY <1>2 DEF Threads, Frames, Victim
<1>4. label # "delete_move"
  BY DEF JobLabels, StartLabels, EndLabels, StoreLabels, ReadyLabels, RetryLabels,
         AgainLabels, OtherLabels
<1>5. QED
  BY <1>1, <1>3, <1>4, GoesOn DEF Within, Inductive, TypeOK

(* So has a statement on the command's row. *)
LEMMA RowStepWithin ==
  ASSUME Inductive, NEW here \in JobLabels, NEW row, NEW next \in JobLabels \cup {"settle"},
         NEW onFault \in {"settle", "fail_job"}, RowStep(here, row, next, onFault),
         Follows(here, next),
         next \in LastingLabels => (IsRow(Row) => IsRow(row))
  PROVE  Within
<1>1. Label = here
  BY DEF RowStep, At, Label
<1>2. UNCHANGED <<activity, tickets, born, recorded>>
  BY DEF RowStep, allButRow
<1>3. \A j \in Jobs \ {Job("daemon")} : jobs'[j] = jobs[j]
  BY DEF RowStep, Statement, Put, Inductive, TypeOK
<1>4. Follows(here, onFault) /\ onFault \notin LastingLabels /\ onFault \in JobLabels \cup {"settle"}
  BY DEF Follows, LastingLabels, BoundLabels, StartLabels, StoreLabels, AgainLabels, RetryLabels,
         JobLabels, OtherLabels
<1>5. CASE Put(Job("daemon"), row) /\ Go("daemon", next)
  <2>1. jobs'[Job("daemon")] = row
    BY <1>1, <1>5, KnownRow DEF Put, Inductive, TypeOK
  <2>2. QED
    BY <1>1, <1>2, <1>3, <1>5, <2>1, GoWithin
<1>6. CASE Go("daemon", onFault)
  BY <1>1, <1>2, <1>3, <1>4, <1>6, GoWithin
<1>7. QED
  BY <1>5, <1>6 DEF RowStep, Statement

(* Which labels follow which. *)
LEMMA Successions ==
  /\ \A old \in StartLabels, new \in StartLabels : Follows(old, new)
  /\ \A old \in {"finish", "capture"}, new \in {"finish", "capture", "interrupt_recording"} :
           Follows(old, new)
  /\ Follows("capture", "begin")
  /\ \A old : \A new \in {"settle", "panicked", "interrupt_captured", "discard",
                         "record_submitted", "record_ambiguous", "record_not_sent",
                         "delete_move"} \cup OtherLabels : Follows(old, new)
  /\ \A old \in BoundLabels \cup AgainLabels : \A new \in BoundLabels : Follows(old, new)
  /\ \A old, new \in AgainLabels : Follows(old, new)
  /\ \A old, new \in RetryLabels : Follows(old, new)
<1> USE DEF Follows, StartLabels, BoundLabels, StoreLabels, AgainLabels, RetryLabels
<1>1. /\ \A old \in StartLabels, new \in StartLabels : Follows(old, new)
      /\ \A old \in {"finish", "capture"}, new \in {"finish", "capture", "interrupt_recording"} :
           Follows(old, new)
      /\ Follows("capture", "begin")
  OBVIOUS
<1>2. \A old : \A new \in {"settle", "panicked", "interrupt_captured", "discard",
                         "record_submitted", "record_ambiguous", "record_not_sent",
                         "delete_move"} \cup OtherLabels : Follows(old, new)
  BY DEF OtherLabels
<1>3. \A old \in BoundLabels \cup AgainLabels : \A new \in BoundLabels : Follows(old, new)
  OBVIOUS
<1>4. \A old, new \in AgainLabels : Follows(old, new)
  OBVIOUS
<1>5. \A old, new \in RetryLabels : Follows(old, new)
  OBVIOUS
<1>6. QED
  BY <1>1, <1>2, <1>3, <1>4, <1>5

(* A step that only moves the command on. *)
LEMMA GoAlone ==
  ASSUME Inductive, Label \in JobLabels,
         NEW label \in JobLabels \cup {"settle", "panicked"}, Go("daemon", label),
         Follows(Label, label), UNCHANGED <<activity, tickets, born, jobs, recorded>>
  PROVE  Within
  BY GoWithin DEF Row

(* The steps of a recording have the shape Within, but for those that begin or end a command; *)
LEMMA RecordingWithin ==
  ASSUME Inductive, RecordingSteps
  PROVE  \/ \E j \in Jobs : StartRecording(j)
         \/ \E goal \in {"stop", "discard", "preserve"} : FinishRecording(goal)
         \/ CheckpointRecording /\ Hands("checkpoint", "recording", FALSE, 0)
         \/ BeginTranscription /\ Hands("begin", "processing", TRUE, 1)
         \/ Within
<1>sets. /\ StartLabels \cup EndLabels \subseteq JobLabels
         /\ StartLabels \cup EndLabels \subseteq Labels \ {"off"}
  BY DEF JobLabels, StartLabels, EndLabels, Labels, DaemonLabels
<1>1. CASE RecorderStart \/ AbortStart \/ RecorderFinish
  <2>1. Label \in JobLabels
    BY <1>1, <1>sets DEF RecorderStart, AbortStart, RecorderFinish, At, Label, StartLabels, EndLabels
  <2>2. UNCHANGED <<activity, tickets, born, jobs, recorded>>
    BY <1>1 DEF RecorderStart, AbortStart, RecorderFinish, stored
  <2>3. \E label \in StartLabels \cup EndLabels : Go("daemon", label) /\ Follows(Label, label)
    BY <1>1, Successions
    DEF RecorderStart, AbortStart, RecorderFinish, StartLabels, EndLabels, At, Label
  <2>4. QED
    BY <1>sets, <2>1, <2>2, <2>3, GoAlone
<1>2. CASE InterruptStart \/ InterruptRecording \/ InterruptCaptured
  <2>1. "settle" \notin LastingLabels /\ \A old : Follows(old, "settle")
    BY Successions DEF LastingLabels, StartLabels, BoundLabels, StoreLabels
  <2>2. QED
    BY <1>2, <1>sets, <2>1, RowStepWithin DEF InterruptStart, InterruptRecording, InterruptCaptured,
       StartLabels, EndLabels
<1>3. CASE CheckpointRecording
  <2>1. Label = "checkpoint" /\ Label \in JobLabels /\ UNCHANGED <<tickets, born, recorded>>
    BY <1>3, <1>sets DEF CheckpointRecording, At, Label, StartLabels
  <2>2. \A j \in Jobs \ {Job("daemon")} : jobs'[j] = jobs[j]
    BY <1>3 DEF CheckpointRecording, UnreadStatement, Put, Inductive, TypeOK
  <2>3. CASE UNCHANGED <<activity, jobs>> /\ Go("daemon", "abort_start")
    BY <1>sets, <2>1, <2>3, GoAlone, Successions DEF StartLabels
  <2>6. CASE UNCHANGED activity /\ Go("daemon", "settle")
    <3>1. "settle" \notin LastingLabels
      BY DEF LastingLabels, StartLabels, BoundLabels, StoreLabels
    <3>2. QED
      BY <2>1, <2>2, <2>6, <3>1, GoWithin, Successions
  <2>4. CASE /\ Command(AtRest("idle"))
             /\ activity' = [kind |-> "recording", job |-> Job("daemon"), pastes |-> FALSE]
    <3>1. tickets' = [tickets EXCEPT ![Job("daemon")] = @ + 0]
      BY <2>1, KnownRow DEF Inductive, TypeOK
    <3>2. QED
      BY <1>3, <2>1, <2>2, <2>4, <3>1 DEF Hands
  <2>5. QED
    BY <1>3, <2>3, <2>4, <2>6 DEF CheckpointRecording, UnreadStatement
<1>4. CASE BeginTranscription
  <2>1. Label = "begin" /\ Label \in JobLabels /\ UNCHANGED <<born, recorded>>
    BY <1>4, <1>sets DEF BeginTranscription, At, Label, EndLabels
  <2>2. \A j \in Jobs \ {Job("daemon")} : jobs'[j] = jobs[j]
    BY <1>4 DEF BeginTranscription, UnreadStatement, Put, Inductive, TypeOK
  <2>3. CASE Go("daemon", "settle") /\ UNCHANGED <<activity, tickets>>
    <3>1. "settle" \notin LastingLabels
      BY DEF LastingLabels, StartLabels, BoundLabels, StoreLabels
    <3>2. QED
      BY <2>1, <2>2, <2>3, <3>1, GoWithin, Successions
  <2>4. QED
    BY <1>4, <2>1, <2>2, <2>3 DEF BeginTranscription, UnreadStatement, Hands
<1>5. CASE CaptureRecording
  <2>1. /\ Label = "capture" /\ Label \in JobLabels
        /\ UNCHANGED <<activity, tickets, born, recorded>>
    BY <1>5, <1>sets DEF CaptureRecording, At, Label, EndLabels, allButRow
  <2>2. \A j \in Jobs \ {Job("daemon")} : jobs'[j] = jobs[j]
    BY <1>5 DEF CaptureRecording, UnreadStatement, Statement, Put, Inductive, TypeOK
  <2>3. PICK label \in {"begin", "discard", "interrupt_captured", "interrupt_recording", "settle"} :
          Go("daemon", label)
    BY <1>5 DEF CaptureRecording, UnreadStatement, Statement
  <2>4. IsRow(Row) => IsRow(jobs'[Job("daemon")])
    <3>1. Job("daemon") \in Jobs /\ Row \in Rows
      BY <2>1, KnownRow
    <3>2. \/ UNCHANGED jobs
          \/ \E long \in BOOLEAN : jobs'[Job("daemon")] = Captured(Row, long)
      BY <1>5, <3>1 DEF CaptureRecording, UnreadStatement, Statement, Put, Row, Inductive, TypeOK
    <3>3. QED
      BY <3>1, <3>2, StatementsKeep DEF Row
  <2>5. Follows("capture", label) /\ label \in JobLabels \cup {"settle"}
    BY <1>sets, Successions DEF EndLabels
  <2>6. QED
    BY <2>1, <2>2, <2>3, <2>4, <2>5, GoWithin
<1>6. CASE DiscardRecording
  <2>1. /\ Label = "discard" /\ Label \in JobLabels
        /\ UNCHANGED <<activity, tickets, born, recorded>>
    BY <1>6, <1>sets DEF DiscardRecording, At, Label, EndLabels, allButRow
  <2>last. {"settle", "delete_move"} \cap LastingLabels = {}
    BY DEF LastingLabels, StartLabels, BoundLabels, StoreLabels
  <2>2. \A j \in Jobs \ {Job("daemon")} : jobs'[j] = jobs[j]
    BY <1>6 DEF DiscardRecording, Statement, Put, Inductive, TypeOK
  <2>3. CASE /\ Command([frame["daemon"] EXCEPT !.at = "delete_move", !.victim = Job("daemon")])
             /\ UNCHANGED jobs
    <3>1. /\ Label' = "delete_move" /\ Job("daemon")' = Job("daemon")
          /\ frame'["daemon"].settles = frame["daemon"].settles
          /\ frame'["daemon"].pastes = frame["daemon"].pastes
          /\ frame'["daemon"].goal = frame["daemon"].goal
          /\ frame'["daemon"].todo = frame["daemon"].todo
          /\ Victim("daemon")' = Job("daemon")
      BY <2>3, NewCommand DEF Inductive, TypeOK, Threads, Frames, Label, Job, Victim
    <3>2. frame'["maintenance"] = frame["maintenance"]
      BY <2>3 DEF Command, Turn, Inductive, TypeOK, Threads
    <3>3. QED
      BY <2>1, <2>2, <2>3, <2>last, <3>1, <3>2, Successions DEF Within
  <2>4. CASE Go("daemon", "settle")
    BY <2>1, <2>2, <2>4, <2>last, GoWithin, Successions
  <2>5. QED
    BY <1>6, <2>3, <2>4 DEF DiscardRecording, Statement
<1>7. QED
  BY <1>1, <1>2, <1>3, <1>4, <1>5, <1>6 DEF RecordingSteps

(* so have those of a result, *)
LEMMA ResultWithin ==
  ASSUME Inductive, ResultSteps
  PROVE  Within \/ \E j \in Jobs : TranscriptionDone(j)
<1>sets. StoreLabels \cup ReadyLabels \cup OtherLabels \subseteq JobLabels
  BY DEF JobLabels
<1>1. CASE StoreRawText \/ StoreReadyText \/ StoreSilent \/ StoreFailed \/ FailStep
  <2>1. {"store_raw", "store_ready", "store_silent", "store_failed", "fail_job", "cleanup_audio",
         "read_ready"} \subseteq JobLabels
    BY <1>sets DEF StoreLabels, OtherLabels, ReadyLabels
  <2>2. /\ Follows("store_raw", "store_ready") /\ Follows("store_ready", "read_ready")
        /\ \A old : Follows(old, "settle") /\ Follows(old, "cleanup_audio") /\ Follows(old, "fail_job")
        /\ {"settle", "cleanup_audio"} \cap LastingLabels = {}
    BY Successions DEF LastingLabels, BoundLabels, StartLabels, StoreLabels, OtherLabels
  <2>3. Row \in Rows
    BY <1>1, <2>1, KnownRow DEF StoreRawText, StoreReadyText, StoreSilent, StoreFailed, FailStep,
       RowStep, At, Label
  <2>4. IsRow(Row) => IsRow(StoreRaw(Row)) /\ IsRow(StoreReady(Row))
    BY <2>3, StatementsKeep
  <2>5. CASE StoreRawText
    BY <2>1, <2>2, <2>4, <2>5, RowStepWithin DEF StoreRawText
  <2>6. CASE StoreReadyText
    BY <2>1, <2>2, <2>4, <2>6, RowStepWithin DEF StoreReadyText
  <2>7. CASE StoreSilent \/ StoreFailed \/ FailStep
    BY <2>1, <2>2, <2>7, RowStepWithin DEF StoreSilent, StoreFailed, FailStep
  <2>8. QED
    BY <1>1, <2>5, <2>6, <2>7
<1>2. CASE ReadReady
  <2>1. /\ Label = "read_ready" /\ Label \in JobLabels
        /\ UNCHANGED <<activity, tickets, born, jobs, recorded>>
    BY <1>2, <1>sets DEF ReadReady, ReadBack, At, Label, ReadyLabels, allButFrame, stored
  <2>follow. \A label \in {"settle", "gate", "attempt", "panicked", "fail_job"} :
               Follows("read_ready", label)
    BY Successions DEF BoundLabels, OtherLabels
  <2>2. CASE Command([frame["daemon"] EXCEPT !.at = "attempt", !.pastes = FALSE])
    <3>1. /\ Label' = "attempt" /\ Job("daemon")' = Job("daemon")
          /\ frame'["daemon"].settles = frame["daemon"].settles
          /\ frame'["daemon"].pastes = FALSE
          /\ frame'["daemon"].goal = frame["daemon"].goal
          /\ frame'["daemon"].todo = frame["daemon"].todo
          /\ Victim("daemon")' = Victim("daemon")
      BY <2>2, NewCommand DEF Inductive, TypeOK, Threads, Frames, Label, Job, Victim
    <3>2. frame'["maintenance"] = frame["maintenance"]
      BY <2>2 DEF Command, Turn, Inductive, TypeOK, Threads
    <3>3. QED
      BY <1>sets, <2>1, <2>follow, <3>1, <3>2 DEF Within, ReadyLabels, Row
  <2>3. ASSUME NEW label \in {"settle", "gate", "attempt", "panicked", "fail_job"}, Go("daemon", label)
        PROVE  Within
    BY <1>sets, <2>1, <2>3, <2>follow, GoAlone DEF ReadyLabels, OtherLabels
  <2>4. QED
    BY <1>2, <2>2, <2>3 DEF ReadReady, ReadBack
<1>3. QED
  BY <1>1, <1>2 DEF ResultSteps

(* those of a delivery, *)
LEMMA DeliveryWithin ==
  ASSUME Inductive, DeliverySteps
  PROVE  Within \/ Settle
<1>sets. ReadyLabels \cup OtherLabels \subseteq JobLabels
  BY DEF JobLabels
<1>1. CASE GateRefused \/ Attempt \/ RecordSubmitted \/ RecordAmbiguous \/ RecordNotSent
  <2>1. {"gate_blocked", "attempt", "record_submitted", "record_ambiguous", "record_not_sent",
         "read_result", "fail_job", "deliver"} \subseteq JobLabels
    BY <1>sets DEF OtherLabels, ReadyLabels
  <2>2. /\ Follows("attempt", "deliver")
        /\ \A old : Follows(old, "fail_job") /\ Follows(old, "read_result")
        /\ {"fail_job", "read_result"} \cap LastingLabels = {}
    BY Successions DEF LastingLabels, BoundLabels, StartLabels, StoreLabels, OtherLabels
  <2>3. Row \in Rows
    BY <1>1, <2>1, KnownRow DEF GateRefused, Attempt, RecordSubmitted, RecordAmbiguous, RecordNotSent,
       RowStep, At, Label
  <2>4. IsRow(Row) => IsRow(Attempting(Row))
    BY <2>3, StatementsKeep
  <2>5. CASE Attempt
    BY <2>1, <2>2, <2>4, <2>5, RowStepWithin DEF Attempt
  <2>6. CASE GateRefused \/ RecordSubmitted \/ RecordAmbiguous \/ RecordNotSent
    BY <2>1, <2>2, <2>6, RowStepWithin DEF GateRefused, RecordSubmitted, RecordAmbiguous, RecordNotSent
  <2>7. QED
    BY <1>1, <2>5, <2>6
<1>2. CASE Gate \/ Deliver \/ ReadResult \/ CleanupAudio
  <2>1. /\ Label \in JobLabels /\ UNCHANGED <<activity, tickets, born, jobs, recorded>>
    BY <1>2, <1>sets DEF Gate, Deliver, ReadResult, ReadBack, CleanupAudio, At, Label, ReadyLabels,
       OtherLabels, allButFrame, allButAudio, stored
  <2>2. CASE Gate
    <3>1. Follows("gate", "attempt") /\ Follows("gate", "gate_blocked")
      BY Successions DEF BoundLabels
    <3>2. QED
      BY <1>sets, <2>1, <2>2, <3>1, GoAlone DEF Gate, ReadyLabels, At, Label
  <2>3. CASE Deliver \/ ReadResult \/ CleanupAudio
    <3>1. PICK label \in {"record_submitted", "record_ambiguous", "record_not_sent", "settle",
                          "panicked", "complete", "fail_job"} : Go("daemon", label)
      BY <2>3 DEF Deliver, ReadResult, ReadBack, CleanupAudio
    <3>2. Follows(Label, label)
      BY Successions DEF OtherLabels
    <3>3. label \in JobLabels \cup {"settle", "panicked"}
      BY <1>sets DEF ReadyLabels, OtherLabels
    <3>4. QED
      BY <2>1, <3>1, <3>2, <3>3, GoAlone
  <2>4. QED
    BY <1>2, <2>2, <2>3
<1>3. CASE Complete
  <2>1. /\ Label \in JobLabels /\ UNCHANGED <<activity, tickets, born>>
    BY <1>3, <1>sets DEF Complete, At, Label, OtherLabels
  <2>2. \A j \in Jobs \ {Job("daemon")} : jobs'[j] = jobs[j] /\ recorded'[j] = recorded[j]
    BY <1>3 DEF Complete, CompleteDelivered, Put, Inductive, TypeOK
  <2>3. PICK label \in OtherLabels : Go("daemon", label)
    BY <1>3 DEF Complete, CompleteDelivered, OtherLabels
  <2>4. Follows(Label, label) /\ label \notin LastingLabels
    BY Successions DEF OtherLabels, LastingLabels, StartLabels, BoundLabels, StoreLabels
  <2>5. QED
    BY <1>sets, <2>1, <2>2, <2>3, <2>4, GoWithin
<1>4. QED
  BY <1>1, <1>2, <1>3 DEF DeliverySteps

(* and those of the Recovery commands. *)
LEMMA RecoveryWithin ==
  ASSUME Inductive, RecoverySteps
  PROVE  \/ \E j \in Jobs : RetryTranscriptionOf(j) \/ PasteAgain(j) \/ DeleteRecovery(j)
         \/ CancelProcessing
         \/ RetryRead /\ Hands("retry_read", "processing", FALSE, 1)
         \/ Within
<1>sets. RetryLabels \cup AgainLabels \cup ReadyLabels \subseteq JobLabels
  BY DEF JobLabels
<1>1. CASE RetryUpdate \/ AgainUpdate
  <2>1. {"retry_update", "retry_read", "again_update", "again_read"} \subseteq JobLabels
    BY <1>sets DEF RetryLabels, AgainLabels
  <2>2. /\ Follows("retry_update", "retry_read") /\ Follows("again_update", "again_read")
        /\ {"retry_read", "again_read"} \cap LastingLabels = {}
    BY Successions DEF AgainLabels, RetryLabels, LastingLabels, StartLabels, BoundLabels, StoreLabels
  <2>3. QED
    BY <1>1, <2>1, <2>2, RowStepWithin DEF RetryUpdate, AgainUpdate
<1>2. CASE AgainRead
  <2>1. /\ Label = "again_read" /\ Label \in JobLabels
        /\ UNCHANGED <<activity, tickets, born, jobs, recorded>>
    BY <1>2, <1>sets DEF AgainRead, ReadBack, At, Label, AgainLabels, allButFrame, stored
  <2>2. PICK label \in {"attempt", "settle", "panicked"} : Go("daemon", label)
    BY <1>2 DEF AgainRead, ReadBack
  <2>3. Follows("again_read", label) /\ label \in JobLabels \cup {"settle", "panicked"}
    BY <1>sets, Successions DEF AgainLabels, BoundLabels, ReadyLabels
  <2>4. QED
    BY <2>1, <2>2, <2>3, GoAlone
<1>3. CASE RetryRead
  <2>1. /\ Label = "retry_read" /\ Label \in JobLabels /\ UNCHANGED <<born, jobs, recorded>>
    BY <1>3, <1>sets DEF RetryRead, At, Label, RetryLabels, stored
  <2>2. CASE UNCHANGED <<activity, tickets>> /\ (Go("daemon", "settle") \/ Go("daemon", "panicked"))
    BY <2>1, <2>2, GoAlone, Successions
  <2>3. QED
    BY <1>3, <2>1, <2>2 DEF RetryRead, Hands
<1>4. QED
  BY <1>1, <1>2, <1>3 DEF RecoverySteps

--------------------------------------------------------------------------------
(* Tickets *)

(* A step that leaves the tickets, and the rows of the transcriptions under way. *)
LEMMA TicketsStay ==
  ASSUME Inductive, TicketIsOwed, UNCHANGED tickets,
         \A j \in Jobs : tickets[j] = 1 =>
           jobs'[j] = jobs[j] \/ ~IsRow(jobs'[j]) \/ jobs'[j].stage = jobs[j].stage,
         Label' \in JobLabels \/ Retains' => tickets[Job("daemon")'] = 0,
         activity' = activity \/ activity' = NoActivity,
         frame["daemon"].settles /\ ~frame'["daemon"].settles => activity' = NoActivity,
         Label' \in OpeningLabels => Label \in OpeningLabels
  PROVE  TicketIsOwed'
<1>1. \A j \in Jobs : /\ tickets'[j] <= 1
                      /\ tickets'[j] = 1 /\ IsRow(jobs'[j]) => jobs'[j].stage = "transcribing"
  BY DEF TicketIsOwed, IsRow
<1>2. /\ activity'.kind = "recording" => tickets'[activity'.job] = 0
      /\ activity'.kind = "processing" /\ ~frame'["daemon"].settles => tickets'[activity'.job] = 1
  BY DEF TicketIsOwed, NoActivity, Inductive, TypeOK, Threads, Frames
<1>3. QED
  BY <1>1, <1>2 DEF TicketIsOwed

(* A step within a command leaves the tickets as they are owed. *)
LEMMA WithinKeepsTickets ==
  ASSUME Inductive, TicketIsOwed, Within
  PROVE  TicketIsOwed'
<1>1. /\ tickets[Job("daemon")] = 0 /\ tickets[Job("daemon")'] = 0
      /\ Label' \notin OpeningLabels
  BY DEF TicketIsOwed, Within, OpeningLabels, JobLabels, StartLabels, EndLabels, StoreLabels,
     ReadyLabels, RetryLabels, AgainLabels, OtherLabels
<1>2. \A j \in Jobs : tickets[j] = 1 => jobs'[j] = jobs[j]
  BY <1>1 DEF Within
<1>3. frame'["daemon"].settles = frame["daemon"].settles
  BY DEF Within
<1>4. QED
  BY <1>1, <1>2, <1>3, TicketsStay DEF Within

(* The lock is free again: only the tickets, the rows and the activity matter. *)
LEMMA TicketsRest ==
  ASSUME Label' \in OpeningLabels \cup {"idle"},
         \A j \in Jobs : /\ tickets'[j] <= 1
                         /\ tickets'[j] = 1 /\ IsRow(jobs'[j]) => jobs'[j].stage = "transcribing",
         activity'.kind = "recording" => tickets'[activity'.job] = 0,
         activity'.kind = "processing" => tickets'[activity'.job] = 1,
         Label' \in OpeningLabels => \A j \in Jobs : tickets'[j] = 0
  PROVE  TicketIsOwed'
<1>1. Label' \notin JobLabels /\ ~Retains'
  BY DEF OpeningLabels, Retains, JobLabels, StartLabels, EndLabels, StoreLabels, ReadyLabels,
     RetryLabels, AgainLabels, OtherLabels, SharedLabels
<1>2. QED
  BY <1>1 DEF TicketIsOwed

(* So does a step that hands the command's job to the activity. *)
LEMMA HandsKeepTickets ==
  ASSUME Inductive, TicketIsOwed, NEW label \in JobLabels, NEW pastes,
         \/ Hands(label, "recording", pastes, 0)
         \/ /\ Hands(label, "processing", pastes, 1)
            /\ IsRow(jobs'[Job("daemon")]) => jobs'[Job("daemon")].stage = "transcribing"
  PROVE  TicketIsOwed'
<1>1. Job("daemon") \in Jobs /\ tickets[Job("daemon")] = 0
  BY KnownRow DEF TicketIsOwed, Hands
<1>2. frame'["daemon"] = AtRest("idle") /\ Label' = "idle"
  BY NewCommand, RestIsBlank DEF Hands, Inductive, TypeOK, Label
<1>3. CASE Hands(label, "recording", pastes, 0)
  <2>1. tickets' = tickets /\ activity'.kind = "recording" /\ activity'.job = Job("daemon")
    BY <1>1, <1>3 DEF Hands, Inductive, TypeOK
  <2>2. \A j \in Jobs : tickets[j] = 1 => jobs'[j] = jobs[j]
    BY <1>1, <1>3 DEF Hands
  <2>3. QED
    BY <1>1, <1>2, <2>1, <2>2, TicketsRest DEF TicketIsOwed, OpeningLabels
<1>4. CASE /\ Hands(label, "processing", pastes, 1)
           /\ IsRow(jobs'[Job("daemon")]) => jobs'[Job("daemon")].stage = "transcribing"
  <2>1. /\ tickets'[Job("daemon")] = 1
        /\ \A j \in Jobs \ {Job("daemon")} : tickets'[j] = tickets[j] /\ jobs'[j] = jobs[j]
        /\ activity'.kind = "processing" /\ activity'.job = Job("daemon")
    BY <1>1, <1>4 DEF Hands, Inductive, TypeOK
  <2>2. QED
    BY <1>1, <1>2, <1>4, <2>1, TicketsRest DEF TicketIsOwed, OpeningLabels
<1>5. QED
  BY <1>3, <1>4

(* No step lets two transcriptions of a row run, or forgets the one the daemon waits for. *)
LEMMA TicketStep ==
  ASSUME Inductive, Inductive', RowsAreSound, CommandKnows, TicketIsOwed, [Next]_vars
  PROVE  TicketIsOwed'
<1>idle. "idle" \notin JobLabels \cup OpeningLabels \cup SharedLabels
  BY DEF OpeningLabels, JobLabels, StartLabels, EndLabels, StoreLabels, ReadyLabels, RetryLabels,
     AgainLabels, OtherLabels, SharedLabels
<1>1. CASE StartSteps
  <2>1. Label \in OpeningLabels /\ UNCHANGED tickets /\ UNCHANGED activity
    BY <1>1 DEF StartSteps, Boot, OpenAmbiguous, OpenInterrupted, ReconcileRecoveryDeletion, Serve,
       At, Label, OpeningLabels, allButFrame, allButAudio
  <2>2. \A j \in Jobs : tickets'[j] = 0
    BY <2>1 DEF TicketIsOwed
  <2>3. activity' = NoActivity
    BY <2>1 DEF Inductive, CommandHasJob, OpeningLabels
  <2>4. Label' \in OpeningLabels \cup {"idle"}
    <3>1. \A label \in OpeningLabels : Go("daemon", label) => Label' = label
      BY GoesOn DEF Inductive, TypeOK, OpeningLabels, Labels, DaemonLabels
    <3>2. Serve => Label' = "idle"
      BY DEF Serve, Label, AtRest, Inductive, TypeOK, Threads
    <3>3. frame' = frame => Label' = Label
      BY DEF Label
    <3>4. QED
      BY <1>1, <2>1, <3>1, <3>2, <3>3 DEF StartSteps, Boot, OpenAmbiguous, OpenInterrupted,
         ReconcileRecoveryDeletion, OpeningLabels
  <2>5. QED
    BY <2>2, <2>3, <2>4, TicketsRest DEF NoActivity
<1>2. CASE EndSteps
  <2>1. ProcessEnds
    BY <1>2 DEF EndSteps, Crash, PanicExit, Quit
  <2>2. Label' = "down"
    BY <2>1 DEF ProcessEnds, Label, AtRest, Threads
  <2>3. \A j \in Jobs : tickets'[j] = 0
    BY <2>1 DEF ProcessEnds
  <2>4. QED
    BY <2>1, <2>2, <2>3, TicketsRest DEF ProcessEnds, NoActivity, OpeningLabels
<1>3. ASSUME NEW j \in Jobs, StartRecording(j) PROVE TicketIsOwed'
  <2>1. tickets[j] = 0 /\ UNCHANGED <<tickets, activity>> /\ Label = "idle" /\ activity = NoActivity
    BY <1>3, Free DEF StartRecording, Inductive, UnbornIsBlank
  <2>2. \A i \in Jobs : tickets[i] = 1 => jobs'[i] = jobs[i]
    BY <1>3, <2>1 DEF StartRecording, Put, Inductive, TypeOK
  <2>3. CASE UNCHANGED frame
    <3>1. Label' = "idle" /\ ~Retains'
      BY <1>idle, <2>1, <2>3 DEF Label, Retains
    <3>2. QED
      BY <1>idle, <2>1, <2>2, <2>3, <3>1, TicketsStay
  <2>4. CASE Command([AtRest("recorder_start") EXCEPT !.job = j])
    <3>1. Label' = "recorder_start" /\ Job("daemon")' = j
      BY <2>4, NewCommand, RestIsBlank DEF Inductive, TypeOK, Label, Job
    <3>2. Label' \notin OpeningLabels
      BY <3>1 DEF OpeningLabels
    <3>3. QED
      BY <2>1, <2>2, <3>1, <3>2, TicketsStay
  <2>5. QED
    BY <1>3, <2>3, <2>4 DEF StartRecording
<1>4. ASSUME NEW goal \in {"stop", "discard", "preserve"}, FinishRecording(goal) PROVE TicketIsOwed'
  <2> DEFINE new == [AtRest("finish") EXCEPT !.job = activity.job, !.goal = goal, !.settles = TRUE]
  <2>1. new.at = "finish" /\ new.job = activity.job /\ new.settles = TRUE
    BY DEF AtRest
  <2>2. frame'["daemon"] = new
    BY <1>4, NewCommand DEF FinishRecording, Inductive, TypeOK
  <2>3. Label' = "finish" /\ Job("daemon")' = activity.job /\ frame'["daemon"].settles
    BY <2>1, <2>2 DEF Label, Job
  <2>4. tickets[activity.job] = 0 /\ UNCHANGED <<jobs, tickets, activity>>
    BY <1>4 DEF FinishRecording, TicketIsOwed, allButFrame, stored
  <2>5. QED
    BY <2>3, <2>4, TicketsStay DEF OpeningLabels
<1>5. CASE CheckpointRecording /\ Hands("checkpoint", "recording", FALSE, 0)
  BY <1>5, HandsKeepTickets DEF JobLabels, StartLabels
<1>6. CASE BeginTranscription /\ Hands("begin", "processing", TRUE, 1)
  <2>1. "begin" \in JobLabels /\ Label = "begin"
    BY <1>6 DEF JobLabels, EndLabels, Hands
  <2>2. Job("daemon") \in Jobs /\ Row \in Rows /\ tickets[Job("daemon")] = 0
    BY <2>1, KnownRow DEF TicketIsOwed
  <2>3. tickets' # tickets
    BY <1>6, <2>2 DEF Hands, Inductive, TypeOK
  <2>4. jobs' = [jobs EXCEPT ![Job("daemon")] = UpdateStage(Row, "transcribing")]
    BY <1>6, <2>3 DEF BeginTranscription, Put, Row
  <2>5. jobs'[Job("daemon")] = UpdateStage(Row, "transcribing")
    BY <2>2, <2>4 DEF Inductive, TypeOK
  <2>6. IsRow(UpdateStage(Row, "transcribing")) => UpdateStage(Row, "transcribing").stage = "transcribing"
    BY <2>2 DEF UpdateStage, Updated, IsRow, Rows
  <2>7. QED
    BY <1>6, <2>1, <2>5, <2>6, HandsKeepTickets
<1>7. CASE RetryRead /\ Hands("retry_read", "processing", FALSE, 1)
  <2>1. "retry_read" \in JobLabels /\ Label = "retry_read"
    BY <1>7 DEF JobLabels, RetryLabels, Hands
  <2>2. IsRow(Row) => Row.stage = "transcribing"
    BY <2>1 DEF CommandKnows, KnowsAlso
  <2>3. jobs'[Job("daemon")] = Row
    BY <1>7 DEF RetryRead, stored, Row
  <2>4. QED
    BY <1>7, <2>1, <2>2, <2>3, HandsKeepTickets
<1>8. ASSUME NEW j \in Jobs, TranscriptionDone(j) PROVE TicketIsOwed'
  <2>1. /\ tickets[j] = 1 /\ tickets' = [tickets EXCEPT ![j] = 0]
        /\ UNCHANGED <<jobs, activity>>
    <3>1. tickets[j] \in Nat /\ tickets[j] <= 1
      BY DEF TicketIsOwed, Inductive, TypeOK
    <3>2. tickets[j] > 0 /\ tickets' = [tickets EXCEPT ![j] = @ - 1]
      BY <1>8 DEF TranscriptionDone
    <3>3. tickets[j] = 1 /\ tickets[j] - 1 = 0
      BY <3>1, <3>2
    <3>4. QED
      BY <1>8, <3>2, <3>3 DEF TranscriptionDone, stored
  <2>2. ~frame["daemon"].settles
    BY <1>8, Free DEF TranscriptionDone
  <2>3. PICK label \in {"settle", "store_raw", "store_failed", "store_silent"} : Resume(j, label)
    BY <1>8 DEF TranscriptionDone
  <2> DEFINE new == [AtRest(label) EXCEPT !.job = j, !.settles = IsCurrent(j),
                                          !.pastes = IsCurrent(j) /\ activity.pastes]
  <2>4. new.at = label /\ new.job = j /\ new.settles = IsCurrent(j)
    BY DEF AtRest
  <2>5. Label' = label /\ Job("daemon")' = j /\ frame'["daemon"].settles = IsCurrent(j)
    BY <2>3, <2>4, NewCommand DEF Resume, Inductive, TypeOK, Label, Job
  <2>6. /\ \A i \in Jobs : tickets'[i] <= 1 /\ (tickets'[i] = 1 => tickets[i] = 1 /\ i # j)
        /\ tickets'[j] = 0
    BY <2>1 DEF TicketIsOwed, Inductive, TypeOK
  <2>7. activity'.kind = "recording" => tickets'[activity'.job] = 0
    BY <2>1 DEF TicketIsOwed, Inductive, TypeOK, CommandHasJob
  <2>8. activity'.kind = "processing" /\ ~frame'["daemon"].settles => tickets'[activity'.job] = 1
    BY <2>1, <2>2, <2>5 DEF IsCurrent, TicketIsOwed, Inductive, TypeOK, CommandHasJob
  <2>9. Label' \notin OpeningLabels
    BY <2>5 DEF OpeningLabels
  <2>10. QED
    BY <2>1, <2>5, <2>6, <2>7, <2>8, <2>9 DEF TicketIsOwed
<1>9. CASE Settle
  <2>1. /\ UNCHANGED <<jobs, tickets>> /\ Label' = "idle" /\ ~frame'["daemon"].settles
        /\ activity' = IF frame["daemon"].settles THEN NoActivity ELSE activity
    BY <1>9, NewCommand, RestIsBlank DEF Settle, stored, Inductive, TypeOK, Label
  <2>2. ~Retains'
    BY <1>idle, <2>1 DEF Retains
  <2>3. QED
    BY <1>idle, <2>1, <2>2, TicketsStay
<1>10. ASSUME NEW j \in Jobs, RetryTranscriptionOf(j) \/ PasteAgain(j) PROVE TicketIsOwed'
  <2>1. UNCHANGED <<jobs, tickets, activity>> /\ ~frame["daemon"].settles
    BY <1>10, Free DEF RetryTranscriptionOf, PasteAgain, allButFrame, stored
  <2>2. IsRow(jobs[j]) /\ jobs[j].stage # "transcribing"
    BY <1>10 DEF RetryTranscriptionOf, PasteAgain, RetryAllowed, PasteAgainAllowed, IsRow
  <2>3. tickets[j] = 0
    BY <2>2 DEF TicketIsOwed, Inductive, TypeOK
  <2>4. Label' \in {"retry_update", "again_update"} /\ Job("daemon")' = j
    <3>1. \A label : Command([AtRest(label) EXCEPT !.job = j]) => Label' = label /\ Job("daemon")' = j
      BY NewCommand, RestIsBlank DEF Inductive, TypeOK, Label, Job
    <3>2. QED
      BY <1>10, <3>1 DEF RetryTranscriptionOf, PasteAgain
  <2>5. QED
    BY <2>1, <2>3, <2>4, TicketsStay DEF OpeningLabels
<1>11. ASSUME NEW j \in Jobs, DeleteRecovery(j) PROVE TicketIsOwed'
  <2>1. UNCHANGED <<jobs, tickets, activity>> /\ ~frame["daemon"].settles
    BY <1>11, Free DEF DeleteRecovery, allButFrame, stored
  <2> DEFINE new == [AtRest("delete_move") EXCEPT !.victim = j, !.goal = "user"]
  <2>2. new.at = "delete_move" /\ new.goal = "user"
    BY DEF AtRest
  <2>3. Label' = "delete_move" /\ ~InRetention("daemon")'
    BY <1>11, <2>2, NewCommand DEF DeleteRecovery, Inductive, TypeOK, Label, InRetention
  <2>4. Label' \notin JobLabels \cup OpeningLabels /\ ~Retains'
    BY <2>3 DEF OpeningLabels, JobLabels, StartLabels, EndLabels, StoreLabels, ReadyLabels,
       RetryLabels, AgainLabels, OtherLabels, Retains
  <2>5. QED
    BY <2>1, <2>4, TicketsStay
<1>12. CASE CancelProcessing
  <2>1. UNCHANGED <<jobs, tickets, frame>> /\ activity' = NoActivity /\ Label = "idle"
    BY <1>12, Free DEF CancelProcessing, stored
  <2>2. Label' = "idle" /\ ~Retains'
    BY <1>idle, <2>1 DEF Label, Retains
  <2>3. QED
    BY <1>idle, <2>1, <2>2, TicketsStay
<1>13. CASE MaintenanceSteps \/ RetentionSteps("maintenance")
  <2>1. /\ frame'["daemon"] = frame["daemon"]
        /\ UNCHANGED <<activity, tickets>>
        /\ \A j \in Jobs : jobs'[j] = jobs[j] \/ ~IsRow(jobs'[j])
    BY <1>13, MaintenanceTakes DEF IsRow, NoRow
  <2>2. Label' = Label /\ Job("daemon")' = Job("daemon") /\ Retains' = Retains
    BY <2>1 DEF Label, Job, Retains, InRetention
  <2>3. QED
    BY <2>1, <2>2, TicketsStay DEF TicketIsOwed
<1>14. CASE RetentionSteps("daemon")
  <2>1. /\ UNCHANGED <<activity, tickets>>
        /\ \A j \in Jobs : jobs'[j] = jobs[j] \/ ~IsRow(jobs'[j])
    BY <1>14, RetentionTakes DEF IsRow, NoRow
  <2>2. /\ Job("daemon")' = Job("daemon") /\ frame'["daemon"].settles = frame["daemon"].settles
        /\ Label' \in SharedLabels \cup {"cleanup_audio", "settle"}
    BY <1>14, RetentionMoves
  <2>3. Label' \in JobLabels \/ Retains' => Label \in JobLabels \/ Retains
    BY <1>14, RetentionMoves
  <2>4. Label' \notin OpeningLabels
    BY <2>2 DEF SharedLabels, OpeningLabels
  <2>5. QED
    BY <2>1, <2>2, <2>3, <2>4, TicketsStay DEF TicketIsOwed
<1>15. CASE ToggleKeepAudio \/ \E j \in Jobs : Outlive(j)
  <2>1. UNCHANGED <<activity, tickets, frame>>
    BY <1>15 DEF ToggleKeepAudio, Outlive
  <2>2. \A j \in Jobs : jobs'[j].stage = jobs[j].stage
    BY <1>15 DEF ToggleKeepAudio, stored, Outlive, Put, Inductive, TypeOK, Rows
  <2>3. Label' = Label /\ Job("daemon")' = Job("daemon") /\ Retains' = Retains
    BY <2>1 DEF Label, Job, Retains, InRetention
  <2>4. QED
    BY <2>1, <2>2, <2>3, TicketsStay DEF TicketIsOwed
<1>16. CASE UNCHANGED vars
  <2>1. Label' = Label /\ Job("daemon")' = Job("daemon") /\ Retains' = Retains
    BY <1>16 DEF Label, Job, Retains, InRetention, vars
  <2>2. QED
    BY <1>16, <2>1, TicketsStay DEF TicketIsOwed, vars
<1>17. QED
  <2>1. RecordingSteps => TicketIsOwed'
    BY <1>3, <1>4, <1>5, <1>6, RecordingWithin, WithinKeepsTickets
  <2>2. ResultSteps \/ DeliverySteps => TicketIsOwed'
    BY <1>8, <1>9, ResultWithin, DeliveryWithin, WithinKeepsTickets
  <2>3. RecoverySteps => TicketIsOwed'
    BY <1>7, <1>10, <1>11, <1>12, RecoveryWithin, WithinKeepsTickets
  <2>4. QED
    BY <1>1, <1>2, <1>13, <1>14, <1>15, <1>16, <2>1, <2>2, <2>3 DEF Next, Threads

--------------------------------------------------------------------------------
(* Lists *)

(* Labels at which a thread relies on its list or its victim. *)
ListLabels == {"next_finished", "finish_row", "remove_orphans"} \cup DeleteLabels

(* A thread that goes on keeps its list. *)
LEMMA GoesTo ==
  ASSUME frame \in [Threads -> Frames], NEW c \in Threads, NEW label, Go(c, label)
  PROVE  /\ frame'[c].at = label
         /\ label = "off" => frame'[c] = AtRest("off")
         /\ label # "off" => /\ frame'[c].todo = frame[c].todo
                             /\ frame'[c].victim = frame[c].victim
                             /\ frame'[c].goal = frame[c].goal
         /\ \A d \in Threads \ {c} : frame'[d] = frame[d]
<1>1. CASE label = "off"
  BY <1>1, RestIsBlank DEF Go, Turn
<1>2. CASE label # "off"
  BY <1>2 DEF Go, Turn, Frames
<1>3. QED
  BY <1>1, <1>2

(* A list that a step does not extend stays old. *)
LEMMA ListAges ==
  ASSUME NEW c \in Threads, ListIsOld(c),
         born \subseteq born', \A j \in born : Aged(jobs[j], jobs'[j]),
         frame'[c].todo \subseteq frame[c].todo, Victim(c)' = Victim(c),
         InRetention(c)' => InRetention(c),
         frame'[c].at \in ListLabels => frame'[c].at = frame[c].at,
         frame'[c].at \in {"expire_next", "expire_row"} => InRetention(c)'
  PROVE  ListIsOld(c)'
<1>1. /\ frame'[c].todo \subseteq born'
      /\ Victim(c)' \in born' \cup {NoJob}
  BY DEF ListIsOld
<1>2. InRetention(c)' => \A j \in frame'[c].todo : ~Making(jobs'[j])
  BY DEF ListIsOld, Aged
<1>3. /\ frame'[c].at \in {"next_finished", "finish_row"} =>
           \A j \in frame'[c].todo : IsRow(jobs'[j]) => Finished(jobs'[j])
      /\ frame'[c].at = "remove_orphans" => \A j \in frame'[c].todo : ~IsRow(jobs'[j])
  BY DEF ListIsOld, Aged, ListLabels
<1>4. /\ frame'[c].at = "finish_row" =>
           Victim(c)' \in born' /\ (IsRow(jobs'[Victim(c)']) => Finished(jobs'[Victim(c)']))
      /\ frame'[c].at \in DeleteLabels => Victim(c)' \in born' /\ ~Making(jobs'[Victim(c)'])
      /\ frame'[c].at = "delete_unlink" => ~IsRow(jobs'[Victim(c)'])
  BY DEF ListIsOld, Aged, ListLabels, DeleteLabels
<1>5. QED
  BY <1>1, <1>2, <1>3, <1>4 DEF ListIsOld

(* An empty list is old. *)
LEMMA ListRests ==
  ASSUME NEW c \in Threads, frame'[c].todo = {}, Victim(c)' = NoJob,
         frame'[c].at \notin ListLabels \cup {"expire_next", "expire_row"}
  PROVE  ListIsOld(c)'
  BY DEF ListIsOld, ListLabels, DeleteLabels

(* A thread that goes on keeps its list old. *)
LEMMA ListGoes ==
  ASSUME NEW c \in Threads, ListIsOld(c), frame \in [Threads -> Frames],
         born \subseteq born', \A j \in born : Aged(jobs[j], jobs'[j]),
         NEW label, Go(c, label), label \in ListLabels => label = frame[c].at,
         label \in {"expire_next", "expire_row"} => InRetention(c)
  PROVE  ListIsOld(c)'
<1>1. CASE label = "off"
  BY <1>1, GoesTo, ListRests, RestIsBlank DEF Victim, ListLabels, DeleteLabels
<1>2. CASE label # "off"
  BY <1>2, GoesTo, ListAges DEF Victim, InRetention
<1>3. QED
  BY <1>1, <1>2

(* The rows a list query of retention returns. *)
LEMMA RetentionLists ==
  ASSUME Inductive, NEW c \in Threads, ListIsOld(c), UNCHANGED born,
         \A j \in born : Aged(jobs[j], jobs'[j]), RetentionSteps(c)
  PROVE  ListIsOld(c)' /\ \A d \in Threads \ {c} : frame'[d] = frame[d]
<1>typed. frame \in [Threads -> Frames] /\ born \subseteq Jobs /\ jobs \in [Jobs -> Rows]
  BY DEF Inductive, TypeOK
<1>go. ASSUME NEW label, Go(c, label), label \notin ListLabels,
              label \in {"expire_next", "expire_row"} => InRetention(c)
       PROVE  ListIsOld(c)' /\ \A d \in Threads \ {c} : frame'[d] = frame[d]
  BY <1>typed, <1>go, GoesTo, ListGoes
<1>after. {AfterRetention(c), AfterDelete(c), AfterFailedDelete(c)} \cap ListLabels = {}
  BY DEF AfterRetention, AfterDelete, AfterFailedDelete, ListLabels, DeleteLabels
<1>list. /\ frame[c].at \in {"expire_next", "expire_row"} => InRetention(c)
         /\ AfterRetention(c) \notin {"expire_next", "expire_row"}
         /\ {AfterDelete(c), AfterFailedDelete(c)} \cap {"expire_next", "expire_row"} # {} => InRetention(c)
  BY DEF ListIsOld, AfterRetention, AfterDelete, AfterFailedDelete
<1>1. CASE ExpireList(c)
  <2> DEFINE todo == {j \in Jobs : Expirable(jobs[j]) /\ jobs[j].expired}
             new == [frame[c] EXCEPT !.at = "expire_next", !.goal = "retention", !.todo = todo]
  <2>1. CASE Turn(c, new) /\ UNCHANGED jobs
    <3>1. /\ frame'[c] = new /\ \A d \in Threads \ {c} : frame'[d] = frame[d]
      BY <2>1, <1>typed DEF Turn
    <3>2. /\ new.at = "expire_next" /\ new.todo = todo /\ new.victim = frame[c].victim
          /\ new.goal = "retention"
      BY <1>typed DEF Frames
    <3>3. \A j \in todo : j \in born /\ ~Making(jobs'[j])
      BY <2>1 DEF Inductive, UnbornIsBlank, Expirable, InRecovery, NoRow, Making
    <3>4. todo \subseteq born' /\ Victim(c)' \in born' \cup {NoJob}
      BY <3>1, <3>2, <3>3 DEF ListIsOld, Victim
    <3>5. QED
      BY <3>1, <3>2, <3>3, <3>4 DEF ListIsOld, Victim, DeleteLabels, InRetention
  <2>2. QED
    BY <1>1, <1>go, <1>after, <1>list, <2>1 DEF ExpireList, allButFrame, stored
<1>2. CASE ExpireNext(c)
  <2>1. ASSUME NEW j \in frame[c].todo, NEW label \in {"expire_row", "delete_move", "expire_next"},
               Turn(c, [frame[c] EXCEPT !.at = label, !.todo = @ \ {j}, !.victim = j])
        PROVE  ListIsOld(c)' /\ \A d \in Threads \ {c} : frame'[d] = frame[d]
    <3> DEFINE new == [frame[c] EXCEPT !.at = label, !.todo = @ \ {j}, !.victim = j]
    <3>1. frame'[c] = new /\ \A d \in Threads \ {c} : frame'[d] = frame[d]
      BY <2>1, <1>typed DEF Turn
    <3>2. /\ new.at = label /\ new.todo = frame[c].todo \ {j} /\ new.victim = j
          /\ new.goal = frame[c].goal
      BY <1>typed DEF Frames
    <3>3. UNCHANGED jobs /\ frame[c].at = "expire_next"
      BY <1>2 DEF ExpireNext, allButFrame, stored, At
    <3>4. j \in born /\ new.todo \subseteq born
      BY <3>2 DEF ListIsOld
    <3>5. label \in DeleteLabels => ~Making(jobs[j])
      BY <1>list, <3>3 DEF ListIsOld
    <3>6. QED
      BY <3>1, <3>2, <3>3, <3>4, <3>5 DEF ListIsOld, Victim, DeleteLabels, InRetention
  <2>2. QED
    BY <1>2, <1>go, <1>after, <1>list, <2>1 DEF ExpireNext
<1>3. CASE ExpireRow(c)
  <2>1. "expire_next" \notin ListLabels /\ InRetention(c)
    BY <1>3, <1>list DEF ExpireRow, At, ListLabels, DeleteLabels
  <2>2. QED
    BY <1>3, <1>go, <1>after, <1>list, <2>1 DEF ExpireRow, Statement
<1>4. CASE DeleteMove(c)
  <2> DEFINE new == [frame[c] EXCEPT !.at = "delete_row", !.moved = audio[Victim(c)] # "missing"]
  <2>1. CASE Turn(c, new)
    <3>1. frame'[c] = new /\ \A d \in Threads \ {c} : frame'[d] = frame[d]
      BY <2>1, <1>typed DEF Turn
    <3>2. /\ new.at = "delete_row" /\ new.todo = frame[c].todo /\ new.victim = frame[c].victim
          /\ new.goal = frame[c].goal
      BY <1>typed DEF Frames
    <3>3. UNCHANGED jobs /\ frame[c].at = "delete_move"
      BY <1>4 DEF DeleteMove, allButAudio, At
    <3>4. QED
      BY <3>1, <3>2, <3>3 DEF ListIsOld, Victim, DeleteLabels, InRetention
  <2>2. QED
    BY <1>4, <1>go, <1>after, <1>list, <2>1 DEF DeleteMove
<1>5. CASE DeleteRow(c)
  <2>1. Victim(c) \in born /\ ~Making(jobs[Victim(c)])
    BY <1>5 DEF DeleteRow, At, ListIsOld, DeleteLabels
  <2>2. ASSUME NEW label \in {"delete_unlink", "delete_restore"}, Go(c, label),
               label = "delete_unlink" => ~IsRow(jobs'[Victim(c)])
        PROVE  ListIsOld(c)' /\ \A d \in Threads \ {c} : frame'[d] = frame[d]
    <3>1. /\ frame'[c].at = label /\ frame'[c].todo = frame[c].todo
          /\ frame'[c].victim = frame[c].victim /\ frame'[c].goal = frame[c].goal
          /\ \A d \in Threads \ {c} : frame'[d] = frame[d]
      BY <2>2, <1>typed, GoesTo
    <3>2. ~Making(jobs'[Victim(c)])
      BY <2>1 DEF Aged
    <3>3. InRetention(c)' => \A j \in frame'[c].todo : ~Making(jobs'[j])
      BY <3>1 DEF InRetention, ListIsOld, Aged
    <3>4. QED
      BY <2>1, <2>2, <3>1, <3>2, <3>3 DEF ListIsOld, Victim, DeleteLabels
  <2>3. Put(Victim(c), NoRow) => ~IsRow(jobs'[Victim(c)])
    BY <1>typed, <2>1 DEF Put, IsRow, NoRow
  <2>4. QED
    BY <1>5, <1>go, <1>after, <1>list, <2>2, <2>3 DEF DeleteRow, Statement
<1>6. CASE DeleteRestore(c) \/ DeleteUnlink(c)
  BY <1>6, <1>go, <1>after, <1>list DEF DeleteRestore, DeleteUnlink
<1>7. QED
  BY <1>1, <1>2, <1>3, <1>4, <1>5, <1>6 DEF RetentionSteps

(* The maintenance thread's list. *)
LEMMA MaintenanceLists ==
  ASSUME Inductive, AudioIsOwned, ListIsOld("maintenance"), UNCHANGED born,
         \A j \in born : Aged(jobs[j], jobs'[j]), MaintenanceSteps
  PROVE  ListIsOld("maintenance")'
<1>typed. /\ frame \in [Threads -> Frames] /\ born \subseteq Jobs /\ jobs \in [Jobs -> Rows]
          /\ "maintenance" \in Threads
  BY DEF Inductive, TypeOK, Threads
<1>go. ASSUME NEW label \in {"off", "list_orphans", "expire_list", "next_finished"},
              Go("maintenance", label),
              label = "next_finished" => frame["maintenance"].at = "next_finished"
       PROVE  ListIsOld("maintenance")'
  BY <1>typed, <1>go, ListGoes DEF ListLabels, DeleteLabels
<1>turn. \A new : Turn("maintenance", new) => frame'["maintenance"] = new
  BY <1>typed DEF Turn
<1>1. CASE StartMaintenance
  <2> DEFINE new == [AtRest("list_finished") EXCEPT !.keeps = keepAudio]
  <2>1. new.at = "list_finished" /\ new.todo = {} /\ new.victim = NoJob
    BY DEF AtRest
  <2>2. frame'["maintenance"] = new
    BY <1>1, <1>turn DEF StartMaintenance
  <2>3. QED
    BY <1>typed, <2>1, <2>2, ListRests DEF Victim, ListLabels, DeleteLabels
<1>2. CASE ListFinished
  <2> DEFINE todo == {j \in Jobs : Finished(jobs[j])}
             new == [frame["maintenance"] EXCEPT !.at = "next_finished", !.todo = todo]
  <2>1. CASE Turn("maintenance", new) /\ UNCHANGED jobs
    <3>1. frame'["maintenance"] = new
      BY <1>turn, <2>1
    <3>2. /\ new.at = "next_finished" /\ new.todo = todo /\ new.victim = frame["maintenance"].victim
      BY <1>typed DEF Frames
    <3>3. \A j \in todo : j \in born /\ Finished(jobs'[j]) /\ ~Making(jobs'[j])
      BY <2>1 DEF Inductive, UnbornIsBlank, Finished, NoRow, Making
    <3>4. QED
      BY <3>1, <3>2, <3>3 DEF ListIsOld, Victim, DeleteLabels
  <2>2. QED
    BY <1>2, <1>go, <2>1 DEF ListFinished, allButFrame, stored
<1>3. CASE NextFinished
  <2>1. /\ frame["maintenance"].at = "next_finished" /\ UNCHANGED jobs
    BY <1>3 DEF NextFinished, At, allButAudio
  <2>2. ASSUME NEW j \in frame["maintenance"].todo, NEW label \in {"finish_row", "next_finished"},
               Take(label, j)
        PROVE  ListIsOld("maintenance")'
    <3> DEFINE new == [frame["maintenance"] EXCEPT !.at = label, !.victim = j, !.todo = @ \ {j}]
    <3>1. frame'["maintenance"] = new
      BY <1>turn, <2>2 DEF Take
    <3>2. /\ new.at = label /\ new.todo = frame["maintenance"].todo \ {j} /\ new.victim = j
          /\ new.goal = frame["maintenance"].goal
      BY <1>typed DEF Frames
    <3>3. j \in born /\ (IsRow(jobs[j]) => Finished(jobs[j]))
      BY <2>1 DEF ListIsOld
    <3>4. QED
      BY <2>1, <3>1, <3>2, <3>3 DEF ListIsOld, Victim, InRetention, DeleteLabels
  <2>3. QED
    BY <1>3, <1>go, <2>2 DEF NextFinished
<1>4. CASE FinishRow
  <2>1. PICK label \in {"next_finished", "off"} : Go("maintenance", label)
    BY <1>4 DEF FinishRow, Statement, CompleteDelivered
  <2>2. frame["maintenance"].at = "finish_row"
    BY <1>4 DEF FinishRow, At
  <2>3. CASE label = "next_finished"
    <3>1. /\ frame'["maintenance"].at = "next_finished"
          /\ frame'["maintenance"].todo = frame["maintenance"].todo
          /\ frame'["maintenance"].victim = frame["maintenance"].victim
          /\ frame'["maintenance"].goal = frame["maintenance"].goal
      BY <1>typed, <2>1, <2>3, GoesTo
    <3>2. \A j \in frame["maintenance"].todo :
            /\ j \in born
            /\ IsRow(jobs'[j]) => Finished(jobs'[j])
            /\ InRetention("maintenance") => ~Making(jobs'[j])
      BY <2>2 DEF ListIsOld, Aged
    <3>3. QED
      BY <3>1, <3>2 DEF ListIsOld, Victim, InRetention, DeleteLabels
  <2>4. QED
    BY <1>go, <2>1, <2>3
<1>5. CASE ListOrphans
  <2>1. ASSUME NEW old \in SUBSET Orphans, UNCHANGED jobs,
               Turn("maintenance", [frame["maintenance"] EXCEPT !.at = "remove_orphans", !.todo = old])
        PROVE  ListIsOld("maintenance")'
    <3> DEFINE new == [frame["maintenance"] EXCEPT !.at = "remove_orphans", !.todo = old]
    <3>1. frame'["maintenance"] = new
      BY <1>turn, <2>1
    <3>2. new.at = "remove_orphans" /\ new.todo = old /\ new.victim = frame["maintenance"].victim
      BY <1>typed DEF Frames
    <3>3. \A j \in old : j \in born /\ ~IsRow(jobs'[j]) /\ ~Making(jobs'[j])
      BY <2>1 DEF Orphans, Making, IsRow, AudioIsOwned
    <3>4. QED
      BY <3>1, <3>2, <3>3 DEF ListIsOld, Victim, DeleteLabels
  <2>2. QED
    BY <1>5, <1>go, <2>1 DEF ListOrphans, allButFrame, stored
<1>6. CASE RemoveOrphan
  <2>1. frame["maintenance"].at = "remove_orphans"
    BY <1>6 DEF RemoveOrphan, At
  <2>2. ASSUME NEW j \in frame["maintenance"].todo,
               Turn("maintenance", [frame["maintenance"] EXCEPT !.todo = @ \ {j}])
        PROVE  ListIsOld("maintenance")'
    <3> DEFINE new == [frame["maintenance"] EXCEPT !.todo = @ \ {j}]
    <3>1. frame'["maintenance"] = new
      BY <1>turn, <2>2
    <3>2. /\ new.at = "remove_orphans" /\ new.todo = frame["maintenance"].todo \ {j}
          /\ new.victim = frame["maintenance"].victim /\ new.goal = frame["maintenance"].goal
      BY <1>typed, <2>1 DEF Frames
    <3>3. QED
      BY <1>typed, <2>1, <3>1, <3>2, ListAges DEF Victim, InRetention
  <2>3. QED
    BY <1>6, <1>go, <2>2 DEF RemoveOrphan
<1>7. QED
  BY <1>1, <1>2, <1>3, <1>4, <1>5, <1>6 DEF MaintenanceSteps

(* A new command of the daemon starts with an empty list. *)
LEMMA CommandStarts ==
  ASSUME Inductive, NEW new, Command(new)
  PROVE  frame'["daemon"] = new /\ frame'["maintenance"] = frame["maintenance"]
  BY DEF Command, Turn, Inductive, TypeOK, Threads

(* Its list is old, and the maintenance thread's is untouched. *)
LEMMA RestStarts ==
  ASSUME Inductive, NEW new, Command(new), new.todo = {}, new.victim = NoJob,
         new.at \notin ListLabels \cup {"expire_next", "expire_row"}
  PROVE  ListIsOld("daemon")' /\ frame'["maintenance"] = frame["maintenance"]
  BY CommandStarts, ListRests DEF Victim, Threads

(* The daemon's list stays old under every step of its commands. *)
LEMMA DaemonLists ==
  ASSUME Inductive, CommandKnows, ListsAreOld, born \subseteq born', UNCHANGED born \/ Label = "idle",
         \A j \in born : Aged(jobs[j], jobs'[j]),
         RecordingSteps \/ ResultSteps \/ DeliverySteps \/ RecoverySteps
  PROVE  ListIsOld("daemon")' /\ frame'["maintenance"] = frame["maintenance"]
<1> DEFINE Goal == ListIsOld("daemon")' /\ frame'["maintenance"] = frame["maintenance"]
<1>typed. frame \in [Threads -> Frames] /\ "daemon" \in Threads /\ ListIsOld("daemon")
  BY DEF Inductive, TypeOK, Threads, ListsAreOld
<1>1. CASE Within
  <2>1. CASE Label' # "delete_move"
    <3>1. frame'["daemon"].at \notin ListLabels \cup {"expire_next", "expire_row"}
      BY <1>1, <2>1 DEF Within, Label, ListLabels, DeleteLabels, JobLabels, StartLabels, EndLabels,
         StoreLabels, ReadyLabels, RetryLabels, AgainLabels, OtherLabels
    <3>2. /\ frame'["daemon"].todo = frame["daemon"].todo
          /\ Victim("daemon")' = Victim("daemon")
          /\ InRetention("daemon")' = InRetention("daemon")
          /\ frame'["maintenance"] = frame["maintenance"]
      BY <1>1, <2>1 DEF Within, InRetention
    <3>3. QED
      BY <1>typed, <3>1, <3>2, ListAges
  <2>2. CASE Label' = "delete_move"
    <3>1. /\ Label = "discard" /\ Victim("daemon")' = Job("daemon") /\ UNCHANGED <<jobs, born>>
          /\ frame'["daemon"].todo = frame["daemon"].todo
          /\ InRetention("daemon")' = InRetention("daemon")
          /\ frame'["maintenance"] = frame["maintenance"]
      BY <1>1, <2>2 DEF Within, InRetention
    <3>2. Job("daemon") \in born /\ (IsRow(Row) => Row.stage = "captured")
      BY <3>1, KnownRow DEF JobLabels, EndLabels, Knows
    <3>3. ~Making(jobs[Job("daemon")])
      BY <3>2 DEF Row, IsRow, Making
    <3>4. frame'["daemon"].at = "delete_move"
      BY <2>2 DEF Label
    <3>5. QED
      BY <1>typed, <3>1, <3>2, <3>3, <3>4 DEF ListIsOld
  <2>3. QED
    BY <2>1, <2>2
<1>2. ASSUME NEW j \in Jobs, StartRecording(j) PROVE Goal
  <2>1. CASE UNCHANGED frame
    <3>1. Label = "idle"
      BY <1>2, Free DEF StartRecording
    <3>2. frame'["daemon"].at \notin ListLabels \cup {"expire_next", "expire_row"}
      BY <2>1, <3>1 DEF Label, ListLabels, DeleteLabels
    <3>3. QED
      BY <1>typed, <2>1, <3>2, ListAges DEF Victim, InRetention
  <2>2. CASE Command([AtRest("recorder_start") EXCEPT !.job = j])
    <3> DEFINE new == [AtRest("recorder_start") EXCEPT !.job = j]
    <3>1. new.todo = {} /\ new.victim = NoJob /\ new.at = "recorder_start"
      BY DEF AtRest
    <3>2. QED
      BY <2>2, <3>1, RestStarts DEF ListLabels, DeleteLabels
  <2>3. QED
    BY <1>2, <2>1, <2>2 DEF StartRecording
<1>3. ASSUME NEW goal \in {"stop", "discard", "preserve"}, FinishRecording(goal) PROVE Goal
  <2> DEFINE new == [AtRest("finish") EXCEPT !.job = activity.job, !.goal = goal, !.settles = TRUE]
  <2>1. new.todo = {} /\ new.victim = NoJob /\ new.at = "finish"
    BY DEF AtRest
  <2>2. QED
    BY <1>3, <2>1, RestStarts DEF FinishRecording, ListLabels, DeleteLabels
<1>4. CASE Command(AtRest("idle"))
  BY <1>4, RestStarts, RestIsBlank DEF ListLabels, DeleteLabels
<1>5. ASSUME NEW j \in Jobs, TranscriptionDone(j) PROVE Goal
  <2>1. PICK label \in {"settle", "store_raw", "store_failed", "store_silent"} : Resume(j, label)
    BY <1>5 DEF TranscriptionDone
  <2> DEFINE new == [AtRest(label) EXCEPT !.job = j, !.settles = IsCurrent(j),
                                          !.pastes = IsCurrent(j) /\ activity.pastes]
  <2>2. new.todo = {} /\ new.victim = NoJob /\ new.at = label
    BY DEF AtRest
  <2>3. QED
    BY <2>1, <2>2, RestStarts DEF Resume, ListLabels, DeleteLabels
<1>6. ASSUME NEW j \in Jobs, RetryTranscriptionOf(j) \/ PasteAgain(j) PROVE Goal
  <2>1. PICK label \in {"retry_update", "again_update"} : Command([AtRest(label) EXCEPT !.job = j])
    BY <1>6 DEF RetryTranscriptionOf, PasteAgain
  <2> DEFINE new == [AtRest(label) EXCEPT !.job = j]
  <2>2. new.todo = {} /\ new.victim = NoJob /\ new.at = label
    BY DEF AtRest
  <2>3. QED
    BY <2>1, <2>2, RestStarts DEF ListLabels, DeleteLabels
<1>7. ASSUME NEW j \in Jobs, DeleteRecovery(j) PROVE Goal
  <2> DEFINE new == [AtRest("delete_move") EXCEPT !.victim = j, !.goal = "user"]
  <2>1. new.todo = {} /\ new.victim = j /\ new.at = "delete_move" /\ new.goal = "user"
    BY DEF AtRest
  <2>2. frame'["daemon"] = new /\ frame'["maintenance"] = frame["maintenance"]
    BY <1>7, CommandStarts DEF DeleteRecovery
  <2>3. UNCHANGED <<jobs, born>> /\ j \in born /\ ~Making(jobs[j])
    BY <1>7 DEF DeleteRecovery, allButFrame, stored, DeleteAllowed, Making, Inductive, UnbornIsBlank, NoRow
  <2>4. QED
    BY <2>1, <2>2, <2>3 DEF ListIsOld, Victim, InRetention
<1>8. CASE CancelProcessing
  <2>1. UNCHANGED frame /\ Label = "idle"
    BY <1>8, Free DEF CancelProcessing
  <2>2. frame'["daemon"].at \notin ListLabels \cup {"expire_next", "expire_row"}
    BY <2>1 DEF Label, ListLabels, DeleteLabels
  <2>3. QED
    BY <1>typed, <2>1, <2>2, ListAges DEF Victim, InRetention
<1>9. QED
  <2>1. RecordingSteps => Goal
    BY <1>1, <1>2, <1>3, <1>4, RecordingWithin DEF Hands
  <2>2. ResultSteps \/ DeliverySteps => Goal
    BY <1>1, <1>4, <1>5, ResultWithin, DeliveryWithin DEF Settle
  <2>3. RecoverySteps => Goal
    BY <1>1, <1>4, <1>6, <1>7, <1>8, RecoveryWithin DEF Hands
  <2>4. QED
    BY <2>1, <2>2, <2>3

(* No step leaves a thread a list of rows that came back. *)
LEMMA ListsStep ==
  ASSUME Inductive, Inductive', RowsAreSound, CommandKnows, ListsAreOld, AudioIsOwned, [Next]_vars
  PROVE  ListsAreOld'
<1>typed. /\ frame \in [Threads -> Frames] /\ ListIsOld("daemon") /\ ListIsOld("maintenance")
          /\ Threads = {"daemon", "maintenance"}
  BY DEF Inductive, TypeOK, Threads, ListsAreOld
<1>goal. SUFFICES ListIsOld("daemon")' /\ ListIsOld("maintenance")'
  BY <1>typed DEF ListsAreOld
<1>1. /\ born \subseteq born' /\ (UNCHANGED born \/ Label = "idle")
      /\ \A j \in born : Aged(jobs[j], jobs'[j])
  <2>1. CASE Next
    BY <2>1, Ageing, OnlyStartBears, Free DEF StartRecording
  <2>2. CASE UNCHANGED vars
    BY <2>2 DEF vars, Aged
  <2>3. QED
    BY <2>1, <2>2
<1>2. \A c \in Threads : /\ frame'[c] = frame[c] => ListIsOld(c)'
                         /\ \A label : frame'[c] = AtRest(label) /\ label \in {"down", "off", "idle", "due"}
                              => ListIsOld(c)'
  <2>1. TAKE c \in Threads
  <2>2. CASE frame'[c] = frame[c]
    BY <1>1, <1>typed, <2>2, ListAges DEF Victim, InRetention, ListIsOld
  <2>3. ASSUME NEW label \in {"down", "off", "idle", "due"}, frame'[c] = AtRest(label)
        PROVE  ListIsOld(c)'
    BY <2>3, ListRests, RestIsBlank DEF Victim, ListLabels, DeleteLabels
  <2>4. QED
    BY <2>2, <2>3
<1>3. CASE StartSteps
  <2>1. CASE Serve
    <3>1. frame'["daemon"] = AtRest("idle") /\ frame'["maintenance"] = AtRest("due")
      BY <1>typed, <2>1 DEF Serve
    <3>2. QED
      BY <1>2, <1>typed, <3>1
  <2>2. ASSUME NEW label \in {"down", "open_ambiguous", "open_interrupted", "open_deletions"},
               Go("daemon", label)
        PROVE  ListIsOld("daemon")' /\ ListIsOld("maintenance")'
    BY <1>1, <1>2, <1>typed, <2>2, GoesTo, ListGoes DEF ListLabels, DeleteLabels
  <2>3. CASE UNCHANGED frame
    BY <1>2, <1>typed, <2>3
  <2>4. QED
    BY <1>3, <2>1, <2>2, <2>3 DEF StartSteps, Boot, OpenAmbiguous, OpenInterrupted,
       ReconcileRecoveryDeletion
<1>4. CASE EndSteps
  <2>1. frame'["daemon"] = AtRest("down") /\ frame'["maintenance"] = AtRest("off")
    BY <1>4, <1>typed DEF EndSteps, Crash, PanicExit, Quit, ProcessEnds
  <2>2. QED
    BY <1>2, <1>typed, <2>1
<1>5. CASE RecordingSteps \/ ResultSteps \/ DeliverySteps \/ RecoverySteps
  BY <1>1, <1>2, <1>5, <1>typed, DaemonLists
<1>6. CASE MaintenanceSteps
  <2>1. frame'["daemon"] = frame["daemon"] /\ UNCHANGED born
    BY <1>6, MaintenanceTakes
  <2>2. QED
    BY <1>1, <1>2, <1>6, <1>typed, <2>1, MaintenanceLists
<1>7. ASSUME NEW c \in Threads, RetentionSteps(c)
      PROVE  ListIsOld("daemon")' /\ ListIsOld("maintenance")'
  <2>1. UNCHANGED born
    BY <1>7, <1>typed, MaintenanceTakes, RetentionTakes
  <2>2. ListIsOld(c)' /\ \A d \in Threads \ {c} : frame'[d] = frame[d]
    BY <1>1, <1>7, <1>typed, <2>1, RetentionLists
  <2>3. QED
    BY <1>2, <1>typed, <2>2
<1>8. CASE ToggleKeepAudio \/ (\E j \in Jobs : Outlive(j)) \/ UNCHANGED vars
  <2>1. UNCHANGED frame
    BY <1>8 DEF ToggleKeepAudio, Outlive, vars
  <2>2. QED
    BY <1>2, <1>typed, <2>1
<1>9. QED
  BY <1>3, <1>4, <1>5, <1>6, <1>7, <1>8 DEF Next

--------------------------------------------------------------------------------
(* What the daemon is bound to *)

(* The row of what the daemon records, or will paste, is in no state in which it is listed. *)
LEMMA BoundRow ==
  ASSUME Inductive, CommandKnows, TicketIsOwed, BoundIsSafe, NEW j \in Jobs, Bound(j)
  PROVE  /\ IsRow(jobs[j]) /\ ~Finished(jobs[j])
         /\ ~(Expirable(jobs[j]) /\ jobs[j].expired)
         /\ Label = "idle" => ~DeleteAllowed(jobs[j])
<1> USE DEF IsRow, Finished, Expirable, InRecovery, DeleteAllowed
<1>1. IsRow(jobs[j])
  BY DEF BoundIsSafe
<1>2. CASE activity.kind = "recording" /\ activity.job = j /\ ~frame["daemon"].settles
  BY <1>1, <1>2 DEF Inductive, RowOfRecording, ActiveRecording, RecordingRow
<1>3. CASE activity.kind = "processing" /\ activity.job = j /\ ~frame["daemon"].settles
  BY <1>1, <1>3 DEF TicketIsOwed
<1>4. CASE Label \in JobLabels /\ Job("daemon") = j
  <2>1. Knows(Label, jobs[j]) /\ KnowsAlso(Label, jobs[j])
    BY <1>1, <1>4 DEF Inductive, RowOfCommand, CommandKnows, Row
  <2>2. Label # "idle"
    BY <1>4 DEF JobLabels, StartLabels, EndLabels, StoreLabels, ReadyLabels, RetryLabels, AgainLabels,
       OtherLabels
  <2>3. CASE Label \in StartLabels \cup {"finish", "capture"} \cup StoreLabels
    BY <1>1, <2>1, <2>2, <2>3 DEF Knows, StartLabels
  <2>4. CASE Label \in {"begin", "read_ready", "gate", "gate_blocked", "attempt", "deliver"}
    BY <1>1, <2>1, <2>2, <2>4 DEF Knows, KnowsAlso, ReadyLabels, BeforeLabels, DeliverLabels
  <2>5. QED
    BY <1>2, <1>3, <2>3, <2>4 DEF Bound, BoundLabels
<1>5. StartLabels \cup {"finish", "capture", "begin"} \cup BoundLabels \subseteq JobLabels
  BY DEF JobLabels, EndLabels, ReadyLabels, BoundLabels
<1>6. QED
  BY <1>2, <1>3, <1>4, <1>5 DEF Bound

(* A command of the daemon that is about a job is not about what it records or awaits. *)
LEMMA OtherJob ==
  ASSUME Inductive, TicketIsOwed, BoundIsSafe, Label \in JobLabels \/ Retains,
         ~frame["daemon"].settles, activity.kind # "idle"
  PROVE  activity.job # Job("daemon")
  BY DEF TicketIsOwed, BoundIsSafe, Inductive, TypeOK, Activities

(* Labels at which only the activity binds. *)
LEMMA NotBinding ==
  ASSUME NEW label \in {"idle", "settle", "panicked", "delete_move", "retry_update", "again_update"}
                        \cup OpeningLabels \cup SharedLabels \cup OtherLabels
  PROVE  label \notin StartLabels \cup {"finish", "capture", "begin"} \cup BoundLabels
  BY DEF OpeningLabels, SharedLabels, OtherLabels, StartLabels, BoundLabels, StoreLabels

(* The daemon's next command, field by field. *)
LEMMA NewFrame ==
  ASSUME Inductive, NEW new, Command(new)
  PROVE  /\ Label' = new.at /\ Job("daemon")' = new.job
         /\ frame'["daemon"].settles = new.settles /\ frame'["daemon"].pastes = new.pastes
         /\ frame'["daemon"].goal = new.goal
  BY NewCommand DEF Inductive, TypeOK, Label, Job

(* What the daemon is bound to, it was bound to before, but for a recording it starts. *)
LEMMA BoundArises ==
  ASSUME Inductive, TicketIsOwed, BoundIsSafe, Next, NEW j \in Jobs, Bound(j)'
  PROVE  Bound(j) \/ (StartRecording(j) /\ Command([AtRest("recorder_start") EXCEPT !.job = j]))
<1>sets. /\ "recorder_start" \in StartLabels /\ "checkpoint" \in StartLabels
         /\ {"recorder_start", "checkpoint"} \cap BoundLabels = {}
  BY DEF StartLabels, BoundLabels, StoreLabels
<1>bind. \A label : Label' = label /\ label \in {"idle", "settle", "panicked", "delete_move",
              "retry_update", "again_update"} \cup OpeningLabels \cup SharedLabels \cup OtherLabels =>
           /\ activity'.job = j /\ ~frame'["daemon"].settles
           /\ activity'.kind = "recording" \/ (activity'.kind = "processing" /\ activity'.pastes)
  BY NotBinding DEF Bound
<1>same. ASSUME UNCHANGED activity, ~frame["daemon"].settles,
                Label' \in {"idle", "settle", "panicked", "delete_move",
                  "retry_update", "again_update"} \cup OpeningLabels \cup SharedLabels \cup OtherLabels
         PROVE  Bound(j)
  BY <1>bind, <1>same DEF Bound
<1>1. ASSUME Within PROVE Bound(j)
  <2>1. CASE /\ activity'.job = j /\ ~frame'["daemon"].settles
             /\ activity'.kind = "recording" \/ (activity'.kind = "processing" /\ activity'.pastes)
    BY <1>1, <2>1 DEF Within, Bound
  <2>2. CASE Job("daemon")' = j /\ Label' \in StartLabels \cup {"finish", "capture", "begin"}
    BY <1>1, <2>2 DEF Within, Follows, Bound
  <2>3. CASE Job("daemon")' = j /\ Label' \in BoundLabels /\ frame'["daemon"].pastes
    BY <1>1, <2>3 DEF Within, Follows, Bound, BoundIsSafe
  <2>4. QED
    BY <2>1, <2>2, <2>3 DEF Bound
<1>2. ASSUME NEW i \in Jobs, StartRecording(i)
      PROVE  Bound(j) \/ (StartRecording(j) /\ Command([AtRest("recorder_start") EXCEPT !.job = j]))
  <2>1. UNCHANGED activity /\ activity = NoActivity /\ Label = "idle" /\ ~frame["daemon"].settles
    BY <1>2, Free DEF StartRecording
  <2>2. CASE UNCHANGED frame
    BY <1>same, <2>1, <2>2 DEF Label
  <2>3. CASE Command([AtRest("recorder_start") EXCEPT !.job = i])
    <3> DEFINE new == [AtRest("recorder_start") EXCEPT !.job = i]
    <3>0. new.at = "recorder_start" /\ new.job = i
      BY DEF AtRest
    <3>1. Label' = "recorder_start" /\ Job("daemon")' = i
      BY <2>3, <3>0, NewFrame
    <3>2. i = j
      BY <1>sets, <2>1, <3>1 DEF Bound, NoActivity
    <3>3. QED
      BY <1>2, <2>3, <3>2
  <2>4. QED
    BY <1>2, <2>2, <2>3 DEF StartRecording
<1>3. ASSUME NEW goal \in {"stop", "discard", "preserve"}, FinishRecording(goal) PROVE Bound(j)
  <2> DEFINE new == [AtRest("finish") EXCEPT !.job = activity.job, !.goal = goal, !.settles = TRUE]
  <2>1. new.at = "finish" /\ new.job = activity.job /\ new.settles = TRUE /\ new.pastes = FALSE
    BY DEF AtRest
  <2>2. /\ Label' = "finish" /\ Job("daemon")' = activity.job /\ frame'["daemon"].settles
        /\ ~frame'["daemon"].pastes
    BY <1>3, <2>1, NewFrame DEF FinishRecording
  <2>3. activity.kind = "recording" /\ ~frame["daemon"].settles
    BY <1>3, Free DEF FinishRecording
  <2>4. QED
    BY <2>2, <2>3 DEF Bound
<1>4. ASSUME NEW label, NEW kind, NEW pastes, NEW count, Hands(label, kind, pastes, count),
             label \in StartLabels \cup {"begin"} \/ (kind = "processing" /\ ~pastes)
      PROVE  Bound(j)
  <2>1. Label' = "idle"
    BY <1>4, NewFrame, RestIsBlank DEF Hands
  <2>2. /\ activity'.job = j
        /\ activity'.kind = "recording" \/ (activity'.kind = "processing" /\ activity'.pastes)
    BY <1>bind, <2>1
  <2>3. QED
    BY <1>4, <2>2 DEF Hands, Bound
<1>5. ASSUME NEW i \in Jobs, TranscriptionDone(i) PROVE Bound(j)
  <2>1. PICK label \in {"settle", "store_raw", "store_failed", "store_silent"} : Resume(i, label)
    BY <1>5 DEF TranscriptionDone
  <2> DEFINE new == [AtRest(label) EXCEPT !.job = i, !.settles = IsCurrent(i),
                                          !.pastes = IsCurrent(i) /\ activity.pastes]
  <2>2. /\ new.at = label /\ new.job = i /\ new.settles = IsCurrent(i)
        /\ new.pastes = (IsCurrent(i) /\ activity.pastes)
    BY DEF AtRest
  <2>3. /\ Label' = label /\ Job("daemon")' = i
        /\ frame'["daemon"].pastes = (IsCurrent(i) /\ activity.pastes)
    BY <2>1, <2>2, NewFrame DEF Resume
  <2>4. UNCHANGED activity /\ ~frame["daemon"].settles
    BY <1>5, Free DEF TranscriptionDone
  <2>5. label \notin StartLabels \cup {"finish", "capture", "begin"}
    BY DEF StartLabels
  <2>6. QED
    BY <2>3, <2>4, <2>5 DEF Bound, IsCurrent
<1>6. ASSUME Settle PROVE Bound(j)
  <2>1. /\ Label' = "idle"
        /\ activity' = IF frame["daemon"].settles THEN NoActivity ELSE activity
    BY <1>6, NewFrame, RestIsBlank DEF Settle
  <2>2. QED
    <3>1. CASE frame["daemon"].settles
      BY <1>bind, <2>1, <3>1 DEF NoActivity
    <3>2. CASE ~frame["daemon"].settles
      BY <1>same, <2>1, <3>2
    <3>3. QED
      BY <3>1, <3>2
<1>7. ASSUME NEW i \in Jobs, RetryTranscriptionOf(i) \/ PasteAgain(i) PROVE Bound(j)
  <2>1. UNCHANGED activity /\ ~frame["daemon"].settles
    BY <1>7, Free DEF RetryTranscriptionOf, PasteAgain, allButFrame
  <2>2. Label' \in {"retry_update", "again_update"}
    <3>1. ASSUME NEW label, Command([AtRest(label) EXCEPT !.job = i])
          PROVE  Label' = label
      <4> DEFINE new == [AtRest(label) EXCEPT !.job = i]
      <4>1. new.at = label
        BY DEF AtRest
      <4>2. QED
        BY <3>1, <4>1, NewFrame
    <3>2. QED
      BY <1>7, <3>1 DEF RetryTranscriptionOf, PasteAgain
  <2>3. QED
    BY <1>same, <2>1, <2>2
<1>8. ASSUME NEW i \in Jobs, DeleteRecovery(i) PROVE Bound(j)
  <2> DEFINE new == [AtRest("delete_move") EXCEPT !.victim = i, !.goal = "user"]
  <2>1. new.at = "delete_move"
    BY DEF AtRest
  <2>2. Label' = "delete_move"
    BY <1>8, <2>1, NewFrame DEF DeleteRecovery
  <2>3. QED
    BY <1>8, <1>same, <2>2, Free DEF DeleteRecovery, allButFrame
<1>9. ASSUME CancelProcessing PROVE Bound(j)
  <2>1. Label' = "idle" /\ activity' = NoActivity
    BY <1>9, Free DEF CancelProcessing, Label
  <2>2. QED
    BY <1>bind, <2>1 DEF NoActivity
<1>10. CASE StartSteps \/ EndSteps
  <2>1. activity' = NoActivity
    BY <1>10 DEF StartSteps, Boot, OpenAmbiguous, OpenInterrupted, ReconcileRecoveryDeletion, Serve,
       At, Label, allButFrame, allButAudio, EndSteps, Crash, PanicExit, Quit, ProcessEnds,
       Inductive, CommandHasJob
  <2>2. Label' \in OpeningLabels \cup {"idle"}
    <3>1. \A label \in OpeningLabels : Go("daemon", label) => Label' = label
      BY GoesOn DEF Inductive, TypeOK, OpeningLabels, Labels, DaemonLabels
    <3>2. Serve => Label' = "idle"
      BY DEF Serve, Label, AtRest, Inductive, TypeOK, Threads
    <3>3. frame' = frame => Label' = Label
      BY DEF Label
    <3>4. EndSteps => Label' = "down"
      BY DEF EndSteps, Crash, PanicExit, Quit, ProcessEnds, Label, AtRest, Threads
    <3>5. QED
      BY <1>10, <3>1, <3>2, <3>3, <3>4 DEF StartSteps, Boot, OpenAmbiguous, OpenInterrupted,
         ReconcileRecoveryDeletion, OpeningLabels, At, Label
  <2>3. QED
    BY <1>bind, <2>1, <2>2 DEF NoActivity
<1>11. CASE MaintenanceSteps \/ RetentionSteps("maintenance")
  BY <1>11, MaintenanceTakes DEF Bound, Label, Job
<1>12. CASE RetentionSteps("daemon")
  <2>1. Label' \in SharedLabels \cup OtherLabels \cup {"settle"}
    BY <1>12, RetentionMoves DEF OtherLabels
  <2>2. UNCHANGED activity /\ frame'["daemon"].settles = frame["daemon"].settles
    BY <1>12, RetentionMoves, RetentionTakes
  <2>3. QED
    BY <1>bind, <1>same, <2>1, <2>2
<1>13. CASE ToggleKeepAudio \/ \E i \in Jobs : Outlive(i)
  BY <1>13 DEF ToggleKeepAudio, Outlive, Bound, Label, Job
<1>14. QED
  <2>1. RecordingSteps =>
          Bound(j) \/ (StartRecording(j) /\ Command([AtRest("recorder_start") EXCEPT !.job = j]))
    BY <1>1, <1>2, <1>3, <1>4, <1>sets, RecordingWithin
  <2>2. ResultSteps \/ DeliverySteps => Bound(j)
    BY <1>1, <1>5, <1>6, ResultWithin, DeliveryWithin
  <2>3. RecoverySteps => Bound(j)
    BY <1>1, <1>4, <1>7, <1>8, <1>9, RecoveryWithin
  <2>4. QED
    BY <1>10, <1>11, <1>12, <1>13, <2>1, <2>2, <2>3 DEF Next, Threads

(* The ids a thread still has to handle, and a row it may list or delete now. *)
Lists(c) == frame[c].todo \cup {Victim(c)}

(* The rows a query of retention, maintenance or a delete may return now. *)
Listable(j) ==
  \/ ~IsRow(jobs[j]) \/ Finished(jobs[j]) \/ (Expirable(jobs[j]) /\ jobs[j].expired)
  \/ Label = "idle" /\ DeleteAllowed(jobs[j])
  \/ Label = "discard" /\ j = Job("daemon")

(* What a thread lists, it listed before, or may list now. *)
LEMMA ListMoves ==
  ASSUME Inductive, Next, NEW c \in Threads, NEW j \in Jobs, j \in Lists(c)'
  PROVE  j \in Lists(c) \/ Listable(j)
<1> DEFINE Goal == j \in Lists(c) \/ Listable(j)
<1>typed. /\ frame \in [Threads -> Frames] /\ j # NoJob
          /\ Threads = {"daemon", "maintenance"}
  BY NoJobAssumption DEF Inductive, TypeOK, Threads
<1>same. frame'[c] = frame[c] => Goal
  BY DEF Lists, Victim
<1>rest. \A label : frame'[c] = AtRest(label) => Goal
  BY <1>typed, RestIsBlank DEF Lists, Victim
<1>go. \A d \in Threads : \A label : Go(d, label) => Goal
  <2>1. TAKE d \in Threads
  <2>2. TAKE label
  <2>3. HAVE Go(d, label)
  <2>4. CASE d # c
    BY <1>same, <1>typed, <2>3, <2>4, GoesTo
  <2>5. CASE d = c /\ label = "off"
    BY <1>rest, <1>typed, <2>3, <2>5, GoesTo
  <2>6. CASE d = c /\ label # "off"
    BY <1>typed, <2>3, <2>6, GoesTo DEF Lists, Victim
  <2>7. QED
    BY <2>4, <2>5, <2>6
<1>turn. ASSUME NEW d \in Threads, NEW new, Turn(d, new),
                new.todo \cup {new.victim} \subseteq Lists(d) \cup {NoJob} \cup {i \in Jobs : Listable(i)}
         PROVE  Goal
  <2>1. CASE d = c
    <3>1. frame'[c] = new
      BY <1>typed, <1>turn, <2>1 DEF Turn
    <3>2. QED
      BY <1>typed, <1>turn, <2>1, <3>1 DEF Lists, Victim
  <2>2. CASE d # c
    BY <1>same, <1>typed, <1>turn, <2>2 DEF Turn
  <2>3. QED
    BY <2>1, <2>2
<1>command. ASSUME NEW new, Command(new), new.todo = {}, new.victim = NoJob PROVE Goal
  BY <1>command, <1>turn, <1>typed DEF Command
<1>1. CASE Within
  <2>1. CASE c = "daemon" /\ Label' = "delete_move"
    <3>1. /\ frame'["daemon"].todo = frame["daemon"].todo
          /\ Label = "discard" /\ Victim("daemon")' = Job("daemon")
      BY <1>1, <2>1 DEF Within
    <3>2. QED
      BY <2>1, <3>1 DEF Lists, Listable
  <2>2. CASE c = "daemon" /\ Label' # "delete_move"
    BY <1>1, <2>2 DEF Within, Lists
  <2>3. QED
    BY <1>1, <1>same, <1>typed, <2>1, <2>2 DEF Within
<1>2. ASSUME NEW i \in Jobs, StartRecording(i) PROVE Goal
  <2> DEFINE new == [AtRest("recorder_start") EXCEPT !.job = i]
  <2>1. new.todo = {} /\ new.victim = NoJob
    BY DEF AtRest
  <2>2. Command(new) \/ UNCHANGED frame
    BY <1>2 DEF StartRecording
  <2>3. QED
    BY <1>command, <1>same, <2>1, <2>2
<1>3. ASSUME NEW goal \in {"stop", "discard", "preserve"}, FinishRecording(goal) PROVE Goal
  <2> DEFINE new == [AtRest("finish") EXCEPT !.job = activity.job, !.goal = goal, !.settles = TRUE]
  <2>1. new.todo = {} /\ new.victim = NoJob
    BY DEF AtRest
  <2>2. QED
    BY <1>3, <1>command, <2>1 DEF FinishRecording
<1>4. CASE Command(AtRest("idle"))
  BY <1>4, <1>command, RestIsBlank
<1>5. ASSUME NEW i \in Jobs, TranscriptionDone(i) PROVE Goal
  <2>1. PICK label : Resume(i, label)
    BY <1>5 DEF TranscriptionDone
  <2> DEFINE new == [AtRest(label) EXCEPT !.job = i, !.settles = IsCurrent(i),
                                          !.pastes = IsCurrent(i) /\ activity.pastes]
  <2>2. new.todo = {} /\ new.victim = NoJob
    BY DEF AtRest
  <2>3. QED
    BY <1>command, <2>1, <2>2 DEF Resume
<1>6. ASSUME NEW i \in Jobs, RetryTranscriptionOf(i) \/ PasteAgain(i) PROVE Goal
  <2>1. PICK label : Command([AtRest(label) EXCEPT !.job = i])
    BY <1>6 DEF RetryTranscriptionOf, PasteAgain
  <2> DEFINE new == [AtRest(label) EXCEPT !.job = i]
  <2>2. new.todo = {} /\ new.victim = NoJob
    BY DEF AtRest
  <2>3. QED
    BY <1>command, <2>1, <2>2
<1>7. ASSUME NEW i \in Jobs, DeleteRecovery(i) PROVE Goal
  <2> DEFINE new == [AtRest("delete_move") EXCEPT !.victim = i, !.goal = "user"]
  <2>1. new.todo = {} /\ new.victim = i
    BY DEF AtRest
  <2>2. Turn("daemon", new) /\ Listable(i)
    BY <1>7, Free DEF DeleteRecovery, Command, Listable
  <2>3. QED
    BY <1>turn, <1>typed, <2>1, <2>2
<1>8. CASE CancelProcessing
  BY <1>8, <1>same DEF CancelProcessing
<1>9. CASE StartSteps \/ EndSteps
  <2>1. Serve \/ EndSteps => \E label : frame'[c] = AtRest(label)
    BY <1>typed DEF Serve, EndSteps, Crash, PanicExit, Quit, ProcessEnds
  <2>2. StartSteps => Serve \/ UNCHANGED frame \/ \E label : Go("daemon", label)
    BY DEF StartSteps, Boot, OpenAmbiguous, OpenInterrupted, ReconcileRecoveryDeletion
  <2>3. QED
    BY <1>9, <1>go, <1>rest, <1>same, <1>typed, <2>1, <2>2
<1>10. ASSUME NEW d \in Threads, RetentionSteps(d) PROVE Goal
  <2>1. CASE ExpireList(d)
    <3> DEFINE todo == {i \in Jobs : Expirable(jobs[i]) /\ jobs[i].expired}
               new == [frame[d] EXCEPT !.at = "expire_next", !.goal = "retention", !.todo = todo]
    <3>1. new.todo = todo /\ new.victim = Victim(d)
      BY <1>typed DEF Frames, Victim
    <3>2. todo \subseteq {i \in Jobs : Listable(i)} /\ Victim(d) \in Lists(d)
      BY DEF Listable, Lists
    <3>3. Turn(d, new) => Goal
      BY <1>turn, <3>1, <3>2
    <3>4. QED
      BY <1>go, <2>1, <3>3 DEF ExpireList
  <2>2. CASE ExpireNext(d)
    <3>1. ASSUME NEW i \in frame[d].todo, NEW label,
                 Turn(d, [frame[d] EXCEPT !.at = label, !.todo = @ \ {i}, !.victim = i])
          PROVE  Goal
      <4> DEFINE new == [frame[d] EXCEPT !.at = label, !.todo = @ \ {i}, !.victim = i]
      <4>1. new.todo = frame[d].todo \ {i} /\ new.victim = i
        BY <1>typed DEF Frames
      <4>2. QED
        BY <1>turn, <3>1, <4>1 DEF Lists
    <3>2. QED
      BY <1>go, <2>2, <3>1 DEF ExpireNext
  <2>3. CASE DeleteMove(d)
    <3>1. ASSUME NEW moved, Turn(d, [frame[d] EXCEPT !.at = "delete_row", !.moved = moved])
          PROVE  Goal
      <4> DEFINE new == [frame[d] EXCEPT !.at = "delete_row", !.moved = moved]
      <4>1. new.todo = frame[d].todo /\ new.victim = Victim(d)
        BY <1>typed DEF Frames, Victim
      <4>2. QED
        BY <1>turn, <3>1, <4>1 DEF Lists
    <3>2. QED
      BY <1>go, <2>3, <3>1 DEF DeleteMove
  <2>4. CASE ExpireRow(d) \/ DeleteRow(d) \/ DeleteRestore(d) \/ DeleteUnlink(d)
    BY <1>go, <2>4 DEF ExpireRow, DeleteRow, DeleteRestore, DeleteUnlink, Statement
  <2>5. QED
    BY <1>10, <2>1, <2>2, <2>3, <2>4 DEF RetentionSteps
<1>11. CASE MaintenanceSteps
  <2>edit. ASSUME NEW label, NEW todo \in SUBSET Jobs,
                  todo \subseteq Lists("maintenance") \cup {i \in Jobs : Listable(i)},
                  Turn("maintenance", [frame["maintenance"] EXCEPT !.at = label, !.todo = todo])
           PROVE  Goal
    <3> DEFINE new == [frame["maintenance"] EXCEPT !.at = label, !.todo = todo]
    <3>1. new.todo = todo /\ new.victim = Victim("maintenance")
      BY <1>typed DEF Frames, Victim
    <3>2. QED
      BY <1>turn, <1>typed, <2>edit, <3>1 DEF Lists
  <2>1. CASE StartMaintenance
    <3> DEFINE new == [AtRest("list_finished") EXCEPT !.keeps = keepAudio]
    <3>1. new.todo = {} /\ new.victim = NoJob
      BY DEF AtRest
    <3>2. QED
      BY <1>turn, <1>typed, <2>1, <3>1 DEF StartMaintenance
  <2>2. CASE ListFinished
    <3> DEFINE todo == {i \in Jobs : Finished(jobs[i])}
    <3>1. todo \in SUBSET Jobs /\ todo \subseteq {i \in Jobs : Listable(i)}
      BY DEF Listable
    <3>2. \/ Turn("maintenance", [frame["maintenance"] EXCEPT !.at = "next_finished", !.todo = todo])
          \/ Go("maintenance", "off")
      BY <2>2 DEF ListFinished
    <3> HIDE DEF todo
    <3>3. QED
      BY <1>go, <1>typed, <2>edit, <3>1, <3>2
  <2>3. CASE ListOrphans
    BY <1>go, <1>typed, <2>3, <2>edit DEF ListOrphans, Orphans, Listable
  <2>4. CASE NextFinished
    <3>1. ASSUME NEW i \in frame["maintenance"].todo, NEW label, Take(label, i) PROVE Goal
      <4> DEFINE new == [frame["maintenance"] EXCEPT !.at = label, !.victim = i, !.todo = @ \ {i}]
      <4>1. new.todo = frame["maintenance"].todo \ {i} /\ new.victim = i
        BY <1>typed DEF Frames
      <4>2. QED
        BY <1>turn, <1>typed, <3>1, <4>1 DEF Take, Lists
    <3>2. QED
      BY <1>go, <1>typed, <2>4, <3>1 DEF NextFinished
  <2>5. CASE RemoveOrphan
    <3>1. ASSUME NEW i, Turn("maintenance", [frame["maintenance"] EXCEPT !.todo = @ \ {i}])
          PROVE  Goal
      <4> DEFINE new == [frame["maintenance"] EXCEPT !.todo = @ \ {i}]
      <4>1. new.todo = frame["maintenance"].todo \ {i} /\ new.victim = Victim("maintenance")
        BY <1>typed DEF Frames, Victim
      <4>2. QED
        BY <1>turn, <1>typed, <3>1, <4>1 DEF Lists
    <3>2. QED
      BY <1>go, <1>typed, <2>5, <3>1 DEF RemoveOrphan
  <2>6. CASE FinishRow
    BY <1>go, <1>typed, <2>6 DEF FinishRow, Statement, CompleteDelivered
  <2>7. QED
    BY <1>11, <2>1, <2>2, <2>3, <2>4, <2>5, <2>6 DEF MaintenanceSteps
<1>12. CASE ToggleKeepAudio \/ \E i \in Jobs : Outlive(i)
  BY <1>12, <1>same DEF ToggleKeepAudio, Outlive
<1>13. QED
  <2>1. RecordingSteps => Goal
    BY <1>1, <1>2, <1>3, <1>4, RecordingWithin DEF Hands
  <2>2. ResultSteps \/ DeliverySteps => Goal
    BY <1>1, <1>4, <1>5, ResultWithin, DeliveryWithin DEF Settle
  <2>3. RecoverySteps => Goal
    BY <1>1, <1>4, <1>6, <1>7, <1>8, RecoveryWithin DEF Hands
  <2>4. QED
    BY <1>9, <1>10, <1>11, <1>12, <2>1, <2>2, <2>3 DEF Next

(* A step takes no row away, and counts none, but for one a thread is deleting and the job
   the daemon's command is about. *)
LEMMA OthersStay ==
  ASSUME Inductive, Next, NEW j \in Jobs, j \in born, IsRow(jobs[j]),
         ~IsRow(jobs'[j]) \/ recorded'[j] # recorded[j]
  PROVE  \/ \E c \in Threads : j = Victim(c)
         \/ j = Job("daemon") /\ Within /\ Label' \notin LastingLabels
<1> DEFINE Goal == \/ \E c \in Threads : j = Victim(c)
                   \/ j = Job("daemon") /\ Within /\ Label' \notin LastingLabels
<1>typed. Threads = {"daemon", "maintenance"}
  BY DEF Threads
<1>1. CASE Within
  BY <1>1 DEF Within, Row
<1>2. jobs'[j] = jobs[j] /\ recorded'[j] = recorded[j] => Goal
  OBVIOUS
<1>3. IsRow(jobs'[j]) /\ recorded'[j] = recorded[j] => Goal
  OBVIOUS
<1>4. ASSUME NEW i \in Jobs, StartRecording(i) PROVE Goal
  BY <1>2, <1>4 DEF StartRecording, Put, Inductive, TypeOK
<1>5. ASSUME NEW label, NEW kind, NEW pastes, NEW count, Hands(label, kind, pastes, count),
             CheckpointRecording \/ BeginTranscription \/ RetryRead
      PROVE  Goal
  <2>1. \/ UNCHANGED jobs
        \/ \E stage \in {"recording", "transcribing"} :
             jobs' = [jobs EXCEPT ![Job("daemon")] = UpdateStage(Row, stage)]
    BY <1>5 DEF CheckpointRecording, BeginTranscription, RetryRead, UnreadStatement, Put, Row, stored
  <2>2. Label \in JobLabels
    BY <1>5 DEF CheckpointRecording, BeginTranscription, RetryRead, At, Label, JobLabels, StartLabels,
       EndLabels, RetryLabels
  <2>3. Job("daemon") \in Jobs /\ Row \in Rows
    BY <2>2, KnownRow
  <2>4. \A stage \in {"recording", "transcribing"} : IsRow(Row) => IsRow(UpdateStage(Row, stage))
    BY <2>3, StatementsKeep
  <2>5. IsRow(Row) => IsRow(jobs'[Job("daemon")])
    BY <2>1, <2>3, <2>4 DEF Row, Inductive, TypeOK
  <2>6. QED
    BY <1>2, <1>3, <1>5, <2>5 DEF Hands, Row
<1>6. CASE MaintenanceSteps \/ RetentionSteps("maintenance")
  BY <1>2, <1>6, <1>typed, MaintenanceTakes
<1>7. CASE RetentionSteps("daemon")
  BY <1>2, <1>7, <1>typed, RetentionTakes
<1>8. CASE StartSteps \/ EndSteps
  <2>1. UNCHANGED recorded
    BY <1>8 DEF StartSteps, Boot, OpenAmbiguous, OpenInterrupted, ReconcileRecoveryDeletion, Serve,
       EndSteps, Crash, PanicExit, Quit, ProcessEnds, allButFrame, allButAudio, stored
  <2>2. \/ UNCHANGED jobs
        \/ jobs' = [i \in Jobs |-> ReconcileAmbiguous(jobs[i])]
        \/ jobs' = [i \in Jobs |-> ReconcileInterrupted(jobs[i])]
    BY <1>8, Zenon DEF StartSteps, Boot, OpenAmbiguous, OpenInterrupted,
       ReconcileRecoveryDeletion, Serve, allButFrame, allButAudio, stored,
       EndSteps, Crash, PanicExit, Quit, ProcessEnds
  <2>3. \A row \in Rows : IsRow(row) => IsRow(ReconcileAmbiguous(row)) /\ IsRow(ReconcileInterrupted(row))
    BY StatementsKeep
  <2>4. jobs[j] \in Rows
    BY DEF Inductive, TypeOK
  <2>5. QED
    BY <1>3, <2>1, <2>2, <2>3, <2>4
<1>9. CASE ToggleKeepAudio \/ \E i \in Jobs : Outlive(i)
  <2>1. ASSUME NEW i \in Jobs, Outlive(i) PROVE IsRow(jobs'[j]) /\ recorded'[j] = recorded[j]
    <3>1. jobs' = [jobs EXCEPT ![i] = [jobs[i] EXCEPT !.expired = TRUE]] /\ UNCHANGED recorded
      BY <2>1 DEF Outlive, Put
    <3>2. IsRow([jobs[j] EXCEPT !.expired = TRUE])
      BY DEF IsRow, Inductive, TypeOK, Rows
    <3>3. QED
      BY <3>1, <3>2 DEF Inductive, TypeOK
  <2>2. QED
    BY <1>2, <1>9, <2>1 DEF ToggleKeepAudio, stored
<1>10. CASE UNCHANGED <<jobs, recorded>>
  BY <1>10, <1>2
<1>11. QED
  <2>1. RecordingSteps => Goal
    BY <1>1, <1>4, <1>5, <1>10, RecordingWithin DEF FinishRecording, allButFrame, stored
  <2>2. ResultSteps \/ DeliverySteps => Goal
    BY <1>1, <1>10, ResultWithin, DeliveryWithin DEF TranscriptionDone, Settle, stored
  <2>3. RecoverySteps => Goal
    BY <1>1, <1>5, <1>10, RecoveryWithin DEF RetryTranscriptionOf, PasteAgain, DeleteRecovery,
       CancelProcessing, allButFrame, stored
  <2>4. QED
    BY <1>6, <1>7, <1>8, <1>9, <2>1, <2>2, <2>3 DEF Next, Threads

(* A command that is about the recording is the one that ends it, and a text that is asked
   for again is never pasted. *)
LEMMA CommandsKeepOff ==
  ASSUME Inductive, TicketIsOwed, BoundIsSafe, Next
  PROVE  /\ Label' \in AgainLabels => ~frame'["daemon"].pastes
         /\ /\ Label' \in JobLabels \/ Retains'
            /\ activity'.kind = "recording" /\ ~frame'["daemon"].settles
            => Job("daemon")' # activity'.job
<1> DEFINE Goal == /\ Label' \in AgainLabels => ~frame'["daemon"].pastes
                   /\ /\ Label' \in JobLabels \/ Retains'
                      /\ activity'.kind = "recording" /\ ~frame'["daemon"].settles
                      => Job("daemon")' # activity'.job
<1>quiet. ASSUME Label' \in {"idle", "settle", "panicked", "delete_move"} \cup OpeningLabels, ~InRetention("daemon")'
          PROVE  Goal
  BY <1>quiet DEF OpeningLabels, Retains, AgainLabels, JobLabels, StartLabels, EndLabels, StoreLabels,
     ReadyLabels, RetryLabels, OtherLabels
<1>rest. ASSUME NEW label \in {"idle"} \cup OpeningLabels, frame'["daemon"] = AtRest(label) PROVE Goal
  BY <1>quiet, <1>rest, RestIsBlank DEF Label, InRetention
<1>same. ASSUME UNCHANGED activity, frame'["daemon"] = frame["daemon"] PROVE Goal
  BY <1>same DEF BoundIsSafe, Label, Job, Retains, InRetention
<1>1. CASE Within
  <2>1. Retains' => Label' \in JobLabels \cup {"delete_move"} /\ Label \in JobLabels
    BY <1>1 DEF Within, Retains, SharedLabels
  <2>2. QED
    BY <1>1, <2>1 DEF Within, Follows, BoundIsSafe
<1>2. ASSUME NEW i \in Jobs, StartRecording(i) PROVE Goal
  <2>1. UNCHANGED activity /\ activity = NoActivity
    BY <1>2 DEF StartRecording
  <2> DEFINE new == [AtRest("recorder_start") EXCEPT !.job = i]
  <2>2. new.at = "recorder_start"
    BY DEF AtRest
  <2>3. CASE Command(new)
    BY <2>1, <2>2, <2>3, NewFrame DEF AgainLabels, NoActivity
  <2>4. QED
    BY <1>2, <1>same, <2>1, <2>3 DEF StartRecording
<1>3. ASSUME NEW goal \in {"stop", "discard", "preserve"}, FinishRecording(goal) PROVE Goal
  <2> DEFINE new == [AtRest("finish") EXCEPT !.job = activity.job, !.goal = goal, !.settles = TRUE]
  <2>1. new.at = "finish" /\ new.settles = TRUE
    BY DEF AtRest
  <2>2. QED
    BY <1>3, <2>1, NewFrame DEF FinishRecording, AgainLabels
<1>4. CASE Command(AtRest("idle"))
  BY <1>4, <1>rest, CommandStarts
<1>5. ASSUME NEW i \in Jobs, TranscriptionDone(i) PROVE Goal
  <2>1. PICK label \in {"settle", "store_raw", "store_failed", "store_silent"} : Resume(i, label)
    BY <1>5 DEF TranscriptionDone
  <2> DEFINE new == [AtRest(label) EXCEPT !.job = i, !.settles = IsCurrent(i),
                                          !.pastes = IsCurrent(i) /\ activity.pastes]
  <2>2. new.at = label /\ new.job = i
    BY DEF AtRest
  <2>3. Label' = label /\ Job("daemon")' = i
    BY <2>1, <2>2, NewFrame DEF Resume
  <2>4. activity'.kind = "recording" => i # activity'.job
    BY <1>5 DEF TranscriptionDone, TicketIsOwed
  <2>5. QED
    BY <2>3, <2>4 DEF AgainLabels
<1>6. ASSUME NEW i \in Jobs, RetryTranscriptionOf(i) \/ PasteAgain(i) PROVE Goal
  <2>1. PICK label : Command([AtRest(label) EXCEPT !.job = i])
    BY <1>6 DEF RetryTranscriptionOf, PasteAgain
  <2> DEFINE new == [AtRest(label) EXCEPT !.job = i]
  <2>2. new.pastes = FALSE
    BY DEF AtRest
  <2>3. activity' = NoActivity
    BY <1>6 DEF RetryTranscriptionOf, PasteAgain, allButFrame
  <2>4. QED
    BY <2>1, <2>2, <2>3, NewFrame DEF NoActivity
<1>7. ASSUME NEW i \in Jobs, DeleteRecovery(i) PROVE Goal
  <2> DEFINE new == [AtRest("delete_move") EXCEPT !.victim = i, !.goal = "user"]
  <2>1. new.at = "delete_move" /\ new.goal = "user"
    BY DEF AtRest
  <2>2. Label' = "delete_move" /\ ~InRetention("daemon")'
    BY <1>7, <2>1, NewFrame DEF DeleteRecovery, InRetention
  <2>3. QED
    BY <1>quiet, <2>2
<1>8. CASE CancelProcessing
  BY <1>8 DEF CancelProcessing, NoActivity, BoundIsSafe, Label
<1>9. CASE StartSteps \/ EndSteps
  <2>1. activity' = NoActivity
    BY <1>9 DEF StartSteps, Boot, OpenAmbiguous, OpenInterrupted, ReconcileRecoveryDeletion, Serve,
       At, Label, allButFrame, allButAudio, EndSteps, Crash, PanicExit, Quit, ProcessEnds,
       Inductive, CommandHasJob
  <2>2. Label' \in OpeningLabels \cup {"idle"}
    <3>1. \A label \in OpeningLabels : Go("daemon", label) => Label' = label
      BY GoesOn DEF Inductive, TypeOK, OpeningLabels, Labels, DaemonLabels
    <3>2. Serve => Label' = "idle"
      BY DEF Serve, Label, AtRest, Inductive, TypeOK, Threads
    <3>3. frame' = frame => Label' = Label
      BY DEF Label
    <3>4. EndSteps => Label' = "down"
      BY DEF EndSteps, Crash, PanicExit, Quit, ProcessEnds, Label, AtRest, Threads
    <3>5. QED
      BY <1>9, <3>1, <3>2, <3>3, <3>4 DEF StartSteps, Boot, OpenAmbiguous, OpenInterrupted,
         ReconcileRecoveryDeletion, OpeningLabels, At, Label
  <2>3. QED
    BY <2>1, <2>2 DEF NoActivity, OpeningLabels, AgainLabels
<1>10. CASE RetentionSteps("daemon")
  <2>1. /\ Label' \notin AgainLabels /\ UNCHANGED activity
        /\ frame'["daemon"].settles = frame["daemon"].settles
    BY <1>10, RetentionMoves, RetentionTakes DEF AgainLabels, SharedLabels
  <2>2. QED
    BY <1>10, <2>1, RetentionMoves DEF BoundIsSafe
<1>11. CASE MaintenanceSteps \/ RetentionSteps("maintenance")
  BY <1>11, <1>same, MaintenanceTakes
<1>12. CASE ToggleKeepAudio \/ \E i \in Jobs : Outlive(i)
  BY <1>12, <1>same DEF ToggleKeepAudio, Outlive
<1>13. QED
  <2>1. RecordingSteps => Goal
    BY <1>1, <1>2, <1>3, <1>4, RecordingWithin DEF Hands
  <2>2. ResultSteps \/ DeliverySteps => Goal
    BY <1>1, <1>4, <1>5, ResultWithin, DeliveryWithin DEF Settle
  <2>3. RecoverySteps => Goal
    BY <1>1, <1>4, <1>6, <1>7, <1>8, RecoveryWithin DEF Hands
  <2>4. QED
    BY <1>9, <1>10, <1>11, <1>12, <2>1, <2>2, <2>3 DEF Next, Threads

(* No step deletes, counts or lists what the daemon is bound to. *)
LEMMA BoundStep ==
  ASSUME Inductive, Inductive', CommandKnows, TicketIsOwed, ListsAreOld, BoundIsSafe,
         CountedIsBorn, Next
  PROVE  BoundIsSafe'
<1>1. ASSUME NEW j \in Jobs, Bound(j)'
      PROVE  /\ IsRow(jobs'[j])
             /\ recorded'[j] = 0
             /\ \A c \in Threads : j \notin Lists(c)'
  <2>1. CASE Bound(j)
    <3>1. /\ IsRow(jobs[j]) /\ ~Finished(jobs[j])
          /\ ~(Expirable(jobs[j]) /\ jobs[j].expired)
          /\ Label = "idle" => ~DeleteAllowed(jobs[j])
      BY <2>1, BoundRow
    <3>2. recorded[j] = 0 /\ \A c \in Threads : j \notin Lists(c) /\ j # Victim(c)
      BY <2>1 DEF BoundIsSafe, Lists
    <3>3. j \in born
      BY <3>1 DEF Inductive, UnbornIsBlank, IsRow, NoRow
    <3>4. ASSUME j = Job("daemon"), Within, Label' \notin LastingLabels PROVE FALSE
      <4>1. /\ activity'.job = j /\ ~frame'["daemon"].settles
            /\ activity'.kind = "recording" \/ activity'.kind = "processing"
        BY <1>1, <3>4 DEF Bound, LastingLabels
      <4>2. QED
        BY <3>4, <4>1, OtherJob DEF Within
    <3>5. IsRow(jobs'[j]) /\ recorded'[j] = recorded[j]
      BY <3>1, <3>2, <3>3, <3>4, OthersStay
    <3>6. ASSUME Label = "discard", j = Job("daemon") PROVE FALSE
      <4>1. frame["daemon"].settles
        BY <3>6 DEF EndLabels, Inductive, RowOfRecording
      <4>2. QED
        BY <2>1, <3>6, <4>1 DEF Bound, StartLabels, BoundLabels, StoreLabels
    <3>7. ~Listable(j)
      BY <3>1, <3>6 DEF Listable
    <3>8. QED
      BY <3>2, <3>5, <3>7, ListMoves
  <2>2. CASE StartRecording(j) /\ Command([AtRest("recorder_start") EXCEPT !.job = j])
    <3> DEFINE new == [AtRest("recorder_start") EXCEPT !.job = j]
    <3>1. new.todo = {} /\ new.victim = NoJob
      BY DEF AtRest
    <3>2. frame'["daemon"] = new /\ frame'["maintenance"] = frame["maintenance"]
      BY <2>2, CommandStarts
    <3>3. j \notin born /\ jobs'[j] = InsertStarting /\ UNCHANGED recorded
      BY <2>2 DEF StartRecording, Put, Inductive, TypeOK
    <3>4. recorded'[j] = 0
      BY <3>3 DEF CountedIsBorn, Inductive, TypeOK
    <3>5. j \notin Lists("daemon")' /\ j \notin Lists("maintenance")'
      BY <3>1, <3>2, <3>3, NoJobAssumption DEF Lists, Victim, ListsAreOld, ListIsOld, Threads
    <3>6. IsRow(InsertStarting)
      BY DEF IsRow, InsertStarting, NoRow
    <3>7. QED
      BY <3>3, <3>4, <3>5, <3>6 DEF Threads
  <2>3. QED
    BY <1>1, <2>1, <2>2, BoundArises
<1>2. QED
  BY <1>1, CommandsKeepOff DEF BoundIsSafe, Lists

--------------------------------------------------------------------------------
(* What is counted, and the recordings *)

(* Where a step counts a dictation or touches a recording, and where it does neither. *)
LEMMA RecordingsMove ==
  ASSUME Inductive, Next
  PROVE  \/ UNCHANGED <<audio, recorded, heard>>
         \/ Complete \/ FinishRow
         \/ RecorderStart \/ CleanupAudio
         \/ \E j \in Jobs : ReconcileRecoveryDeletion(j)
         \/ NextFinished \/ RemoveOrphan
         \/ \E c \in Threads : DeleteMove(c) \/ DeleteRestore(c) \/ DeleteUnlink(c)
<1> USE DEF allButFrame, allButRow, allButAudio, RowStep, stored
<1>1. CASE StartSteps \/ EndSteps
  BY <1>1 DEF StartSteps, Boot, OpenAmbiguous, OpenInterrupted, Serve,
     EndSteps, Crash, PanicExit, Quit, ProcessEnds
<1>2. CASE RecordingSteps
  BY <1>2 DEF RecordingSteps, StartRecording, CheckpointRecording, AbortStart,
     InterruptStart, FinishRecording, RecorderFinish, CaptureRecording, InterruptRecording,
     InterruptCaptured, BeginTranscription, DiscardRecording
<1>3. CASE ResultSteps
  BY <1>3 DEF ResultSteps, TranscriptionDone, StoreRawText, StoreReadyText, StoreSilent,
     StoreFailed, FailStep, ReadReady
<1>4. CASE DeliverySteps
  BY <1>4 DEF DeliverySteps, Gate, GateRefused, Attempt, Deliver, RecordSubmitted, RecordAmbiguous,
     RecordNotSent, ReadResult, Settle
<1>5. CASE RecoverySteps
  BY <1>5 DEF RecoverySteps, RetryTranscriptionOf, PasteAgain, DeleteRecovery, RetryUpdate,
     RetryRead, AgainUpdate, AgainRead, CancelProcessing
<1>6. CASE MaintenanceSteps
  BY <1>6 DEF MaintenanceSteps, StartMaintenance, ListFinished, ListOrphans
<1>7. ASSUME NEW c \in Threads, RetentionSteps(c)
      PROVE  \/ UNCHANGED <<audio, recorded, heard>>
             \/ DeleteMove(c) \/ DeleteRestore(c) \/ DeleteUnlink(c)
  BY <1>7 DEF RetentionSteps, ExpireList, ExpireNext, ExpireRow, DeleteRow
<1>8. CASE ToggleKeepAudio \/ \E j \in Jobs : Outlive(j)
  BY <1>8 DEF ToggleKeepAudio, Outlive
<1>9. QED
  BY <1>1, <1>2, <1>3, <1>4, <1>5, <1>6, <1>7, <1>8 DEF Next

(* Only a row that is there is counted. *)
LEMMA CountedStep ==
  ASSUME Inductive, CountedIsBorn, Next
  PROVE  CountedIsBorn'
<1>1. born \subseteq born'
  BY OnlyStartBears DEF StartRecording
<1>2. CASE UNCHANGED recorded
  BY <1>1, <1>2 DEF CountedIsBorn
<1>3. ASSUME NEW c \in Threads, NEW i, NEW next, NEW onFault, CompleteDelivered(c, i, next, onFault)
      PROVE  CountedIsBorn'
  <2>1. \A j \in Jobs : recorded'[j] = recorded[j] \/ IsRow(jobs[j])
    BY <1>3 DEF CompleteDelivered, Inductive, TypeOK
  <2>2. QED
    BY <1>1, <2>1 DEF CountedIsBorn, Inductive, UnbornIsBlank, IsRow, NoRow
<1>4. Complete \/ FinishRow => UNCHANGED recorded \/ CountedIsBorn'
  BY <1>3 DEF Complete, FinishRow, Threads
<1>5. QED
  BY <1>2, <1>4, RecordingsMove DEF RecorderStart, CleanupAudio, ReconcileRecoveryDeletion,
     NextFinished, RemoveOrphan, DeleteMove, DeleteRestore, DeleteUnlink, allButAudio

(* The audio of a row that is still to be transcribed is never removed: what removes a
   recording has the lists of dead or finished rows to go by. *)
LEMMA AudioMoves ==
  ASSUME Inductive, CommandKnows, ListsAreOld, AudioIsOwned, Next
  PROVE  /\ \A j \in Jobs : audio'[j] # "missing" => audio[j] # "missing" \/ j \in born
         /\ \A j \in Jobs : audio[j] # "missing" /\ audio'[j] = "missing" =>
              ~IsRow(jobs[j]) \/ Finished(jobs[j])
         /\ \A j \in Jobs : j \in heard' =>
              j \in heard \/ (j \in born /\ audio'[j] # "missing")
<1> DEFINE Goal ==
      /\ \A j \in Jobs : audio'[j] # "missing" => audio[j] # "missing" \/ j \in born
      /\ \A j \in Jobs : audio[j] # "missing" /\ audio'[j] = "missing" =>
           ~IsRow(jobs[j]) \/ Finished(jobs[j])
      /\ \A j \in Jobs : j \in heard' =>
           j \in heard \/ (j \in born /\ audio'[j] # "missing")
<1>typed. audio \in [Jobs -> Audio] /\ Threads = {"daemon", "maintenance"}
  BY DEF Inductive, TypeOK, Threads
<1>same. UNCHANGED <<audio, heard>> => Goal
  OBVIOUS
<1>moves. ASSUME NEW i, UNCHANGED heard, NEW place, audio' = [audio EXCEPT ![i] = place],
                 audio[i] # "missing",
                 place = "missing" /\ i \in Jobs /\ IsRow(jobs[i]) => Finished(jobs[i])
          PROVE  Goal
  BY <1>typed, <1>moves
<1>1. CASE RecorderStart
  <2>1. Job("daemon") \in born /\ Job("daemon") \in Jobs
    BY <1>1, KnownRow DEF RecorderStart, At, Label, JobLabels, StartLabels
  <2>2. QED
    BY <1>1, <1>typed, <2>1 DEF RecorderStart
<1>2. CASE CleanupAudio
  <2>1. /\ Job("daemon") \in Jobs
        /\ IsRow(Row) => Finished(Row)
    BY <1>2, KnownRow DEF CleanupAudio, At, Label, JobLabels, OtherLabels, CommandKnows, KnowsAlso,
       EndingLabels, Finished
  <2>2. QED
    BY <1>2, <1>moves, <1>same, <2>1 DEF CleanupAudio, allButAudio, Row
<1>3. ASSUME NEW i \in Jobs, ReconcileRecoveryDeletion(i) PROVE Goal
  <2>1. CASE UNCHANGED audio
    BY <1>3, <1>same, <2>1 DEF ReconcileRecoveryDeletion, allButAudio
  <2>2. QED
    BY <1>3, <1>moves, <2>1 DEF ReconcileRecoveryDeletion, allButAudio, IsRow, Finished
<1>4. CASE NextFinished
  <2>1. \A j \in frame["maintenance"].todo : IsRow(jobs[j]) => Finished(jobs[j])
    BY <1>4, <1>typed DEF NextFinished, At, ListsAreOld, ListIsOld
  <2>2. QED
    BY <1>4, <1>moves, <1>same, <2>1 DEF NextFinished, allButAudio
<1>5. CASE RemoveOrphan
  <2>1. \A j \in frame["maintenance"].todo : ~IsRow(jobs[j])
    BY <1>5, <1>typed DEF RemoveOrphan, At, ListsAreOld, ListIsOld
  <2>2. QED
    BY <1>5, <1>moves, <1>same, <2>1 DEF RemoveOrphan, allButAudio
<1>6. ASSUME NEW c \in Threads, DeleteMove(c) \/ DeleteRestore(c) PROVE Goal
  BY <1>6, <1>moves, <1>same DEF DeleteMove, DeleteRestore, allButAudio
<1>7. ASSUME NEW c \in Threads, DeleteUnlink(c) PROVE Goal
  <2>1. ~IsRow(jobs[Victim(c)])
    BY <1>7 DEF DeleteUnlink, At, ListsAreOld, ListIsOld
  <2>2. QED
    BY <1>7, <1>moves, <1>same, <2>1 DEF DeleteUnlink, allButAudio
<1>8. Complete \/ FinishRow => UNCHANGED <<audio, heard>>
  BY DEF Complete, FinishRow
<1>9. QED
  BY <1>1, <1>2, <1>3, <1>4, <1>5, <1>6, <1>7, <1>8, <1>same, RecordingsMove

(* No step removes the recording of a row that still needs it. *)
LEMMA AudioStep ==
  ASSUME Inductive, Inductive', RowsAreSound, CommandKnows, ListsAreOld, AudioIsOwned, Next
  PROVE  AudioIsOwned'
<1>1. born \subseteq born' /\ \A j \in born : Aged(jobs[j], jobs'[j])
  BY Ageing, OnlyStartBears DEF StartRecording
<1>2. heard \subseteq born /\ heard' \subseteq Jobs /\ born \subseteq Jobs
  BY DEF AudioIsOwned, Inductive, TypeOK
<1>3. \A j \in Jobs : audio'[j] # "missing" => j \in born'
  BY <1>1, AudioMoves DEF AudioIsOwned
<1>4. heard' \subseteq born'
  BY <1>1, <1>2, AudioMoves
<1>5. ASSUME NEW j \in heard', IsRow(jobs'[j]), ~Finished(jobs'[j]), ~jobs'[j].raw
      PROVE  audio'[j] # "missing"
  <2>1. j \in Jobs /\ (j \in heard \/ audio'[j] # "missing")
    BY <1>2, <1>5, AudioMoves
  <2>2. CASE j \in heard
    <3>1. IsRow(jobs[j]) /\ ~Finished(jobs[j]) /\ ~jobs[j].raw
      BY <1>1, <1>2, <1>5, <2>2 DEF Aged
    <3>2. audio[j] # "missing"
      BY <2>2, <3>1 DEF AudioIsOwned
    <3>3. QED
      BY <2>1, <3>1, <3>2, AudioMoves
  <2>3. QED
    BY <2>1, <2>2
<1>6. QED
  BY <1>3, <1>4, <1>5 DEF AudioIsOwned

--------------------------------------------------------------------------------
(* The invariant *)

(* What an older version leaves behind satisfies Lived, with nothing under way. *)
LEMMA InitLived == Init => Lived
<1> SUFFICES ASSUME Init PROVE Lived
  OBVIOUS
<1>1. \A j \in Jobs : /\ SoundRow(jobs[j]) /\ tickets[j] = 0 /\ recorded[j] \in {0, 1}
                      /\ IsRow(jobs[j]) <=> j \in born
                      /\ recorded[j] = 1 => jobs[j].stage = "delivered"
                      /\ audio[j] \in {"missing", "present"}
  <2>1. TAKE j \in Jobs
  <2>2. jobs[j] \in {NoRow} \cup
          {[NoRow EXCEPT !.stage = s, !.raw = (s = "delivered"),
                         !.text = (s = "delivered"),
                         !.delivery = IF s = "delivered" THEN "submitted" ELSE @] :
             s \in LegacyStages}
    BY DEF Init
  <2>3. SoundRow(jobs[j])
    <3>1. SoundRow(NoRow)
      BY DEF SoundRow, NoRow
    <3>2. ASSUME NEW s \in LegacyStages,
                 jobs[j] = [NoRow EXCEPT !.stage = s, !.raw = (s = "delivered"),
                                         !.text = (s = "delivered"),
                                         !.delivery = IF s = "delivered" THEN "submitted" ELSE @]
          PROVE  SoundRow(jobs[j])
      <4>1. s \in {"delivered", "no_speech", "deleted"}
        BY LegacyAssumption
      <4>2. CASE s = "delivered"
        BY <3>2, <4>2 DEF SoundRow, NoRow
      <4>3. CASE s # "delivered"
        BY <3>2, <4>1, <4>3 DEF SoundRow, NoRow
      <4>4. QED
        BY <4>2, <4>3
    <3>3. QED
      BY <2>2, <3>1, <3>2
  <2>4. tickets[j] = 0 /\ recorded[j] \in {0, 1} /\ audio[j] \in {"missing", "present"}
    BY DEF Init
  <2>5. (IsRow(jobs[j]) <=> j \in born) /\ (recorded[j] = 1 => jobs[j].stage = "delivered")
    BY DEF Init
  <2>6. QED
    BY <2>3, <2>4, <2>5
<1>2. /\ \A c \in Threads : /\ frame[c].todo = {} /\ Victim(c) = NoJob
                            /\ frame[c].at \in {"down", "off"}
      /\ Label = "down" /\ activity = NoActivity /\ heard = {}
  <2>1. frame = [c \in Threads |-> AtRest(IF c = "daemon" THEN "down" ELSE "off")]
        /\ activity = NoActivity /\ heard = {}
    BY DEF Init
  <2>2. frame["daemon"] = AtRest("down")
    BY <2>1 DEF Threads
  <2>3. \A c \in Threads : \E label \in {"down", "off"} : frame[c] = AtRest(label)
    BY <2>1
  <2>4. QED
    BY <2>1, <2>2, <2>3, RestIsBlank DEF Victim, Label
<1>3. RowsAreSound
  BY <1>1 DEF RowsAreSound
<1>4. CommandKnows
  BY <1>2 DEF CommandKnows, Retains, JobLabels, StartLabels, EndLabels, StoreLabels, ReadyLabels,
     RetryLabels, AgainLabels, OtherLabels, SharedLabels
<1>5. Label \notin JobLabels /\ ~Retains /\ Label \notin LastingLabels
  BY <1>2 DEF Retains, JobLabels, StartLabels, EndLabels, StoreLabels, ReadyLabels, LastingLabels,
     RetryLabels, AgainLabels, OtherLabels, SharedLabels, BoundLabels
<1>6. TicketIsOwed
  BY <1>1, <1>2, <1>5 DEF TicketIsOwed, NoActivity
<1>7. ListsAreOld
  <2>1. \A c \in Threads : frame[c].at \notin ListLabels \cup {"expire_next", "expire_row"}
    BY <1>2 DEF ListLabels, DeleteLabels
  <2>2. QED
    BY <1>2, <2>1 DEF ListsAreOld, ListIsOld, ListLabels, DeleteLabels
<1>8. BoundIsSafe
  <2>1. \A j \in Jobs : ~Bound(j)
    BY <1>2, <1>5 DEF Bound, NoActivity, LastingLabels
  <2>2. QED
    BY <1>2, <1>5, <2>1 DEF BoundIsSafe, AgainLabels
<1>9. CountedIsBorn
  BY <1>1 DEF CountedIsBorn, IsRow
<1>10. AudioIsOwned
  BY <1>1, <1>2 DEF AudioIsOwned, Init
<1>11. QED
  BY <1>3, <1>4, <1>6, <1>7, <1>8, <1>9, <1>10 DEF Lived

(* Each half of Lived is kept by every step, given the others and Inductive. *)
LEMMA LivedStep ==
  ASSUME Inductive, Inductive', Lived, [Next]_vars
  PROVE  Lived'
<1>1. CASE Next
  BY <1>1, SoundStep, KnowsStep, TicketStep, ListsStep, BoundStep, CountedStep, AudioStep DEF Lived
<1>2. CASE UNCHANGED vars
  <2>1. Label' = Label /\ Job("daemon")' = Job("daemon") /\ Row' = Row /\ (Retains' <=> Retains)
        /\ (InRetention("daemon")' <=> InRetention("daemon"))
    BY <1>2 DEF vars, Label, Job, Row, Retains, InRetention
  <2>2. RowsAreSound' /\ CommandKnows' /\ TicketIsOwed'
    BY <1>2, <2>1 DEF vars, Lived, RowsAreSound, CommandKnows, TicketIsOwed
  <2>3. ListsAreOld' /\ CountedIsBorn' /\ AudioIsOwned'
    BY <1>2 DEF vars, Lived, ListsAreOld, ListIsOld, Victim, InRetention, CountedIsBorn, AudioIsOwned
  <2>4. BoundIsSafe'
    BY <1>2, <2>1 DEF vars, Lived, BoundIsSafe, Bound, Victim
  <2>5. QED
    BY <2>2, <2>3, <2>4 DEF Lived
<1>3. QED
  BY <1>1, <1>2

(* Lived holds in every reachable state, of any number of dictations, failures and crashes. *)
THEOREM LivedInvariance == Spec => []Lived
<1>1. Init => Lived
  BY InitLived
<1>2. Inductive /\ Inductive' /\ Lived /\ [Next]_vars => Lived'
  BY LivedStep
<1>3. QED
  BY <1>1, <1>2, Invariance, PTL DEF Spec

(* The recording behind every row that still needs it is there *)
THEOREM KeepsAudio == Spec => []AudioBehindRecovery
<1>1. Lived => AudioBehindRecovery
  BY DEF Lived, AudioIsOwned, AudioBehindRecovery, InRecovery, InFlight, IsRow, Finished
<1>2. QED
  BY <1>1, LivedInvariance, PTL

(* Each dictation is transcribed, and paid for, once at a time, and the daemon waits only for
   what is still to come. *)
THEOREM AwaitsTickets == Spec => []TicketsAreAwaited
<1>1. Inductive /\ Lived => TicketsAreAwaited
  BY Free DEF Lived, TicketIsOwed, TicketsAreAwaited, OneTicketPerJob, ProcessingHasTicket
<1>2. QED
  BY <1>1, Invariance, LivedInvariance, PTL

--------------------------------------------------------------------------------
(* The recorder *)

(* The daemon inside a command during which pw-record runs. *)
MicLabels == {"checkpoint", "abort_start", "finish"}

(* pw-record runs for the recording the daemon knows of, or for the command that starts or
   ends one, and no command that starts a dictation runs beside a recording. *)
RecorderIsKnown ==
  /\ recorder = IF Label \in MicLabels THEN Job("daemon")
                ELSE IF activity.kind = "recording" /\ ~frame["daemon"].settles THEN activity.job
                ELSE NoJob
  /\ Label \in StartLabels \cup RetryLabels => activity.kind # "recording"

(* What pw-record writes is in its place. *)
RecordingIsThere == recorder # NoJob => audio[recorder] = "present"

(* The steps that start and stop pw-record. *)
LEMMA RecorderMoves ==
  ASSUME Next
  PROVE  UNCHANGED recorder \/ RecorderStart \/ AbortStart \/ RecorderFinish \/ EndSteps
<1> USE DEF allButFrame, allButRow, allButAudio, RowStep
<1>1. CASE StartSteps
  BY <1>1 DEF StartSteps, Boot, OpenAmbiguous, OpenInterrupted, ReconcileRecoveryDeletion, Serve
<1>2. CASE RecordingSteps
  BY <1>2 DEF RecordingSteps, StartRecording, CheckpointRecording, InterruptStart, FinishRecording,
     CaptureRecording, InterruptRecording, InterruptCaptured, BeginTranscription, DiscardRecording
<1>3. CASE ResultSteps
  BY <1>3 DEF ResultSteps, TranscriptionDone, StoreRawText, StoreReadyText, StoreSilent,
     StoreFailed, FailStep, ReadReady
<1>4. CASE DeliverySteps
  BY <1>4 DEF DeliverySteps, Gate, GateRefused, Attempt, Deliver, RecordSubmitted, RecordAmbiguous,
     RecordNotSent, ReadResult, Complete, CleanupAudio, Settle
<1>5. CASE RecoverySteps
  BY <1>5 DEF RecoverySteps, RetryTranscriptionOf, PasteAgain, DeleteRecovery, RetryUpdate,
     RetryRead, AgainUpdate, AgainRead, CancelProcessing
<1>6. CASE MaintenanceSteps
  BY <1>6 DEF MaintenanceSteps, StartMaintenance, ListFinished, NextFinished, FinishRow,
     ListOrphans, RemoveOrphan
<1>7. CASE \E c \in Threads : RetentionSteps(c)
  BY <1>7 DEF RetentionSteps, ExpireList, ExpireNext, ExpireRow, DeleteMove, DeleteRow,
     DeleteRestore, DeleteUnlink
<1>8. CASE ToggleKeepAudio \/ \E j \in Jobs : Outlive(j)
  BY <1>8 DEF ToggleKeepAudio, Outlive
<1>9. QED
  BY <1>1, <1>2, <1>3, <1>4, <1>5, <1>6, <1>7, <1>8 DEF Next

(* A step that leaves the recorder and the activity alone. *)
LEMMA RecorderStays ==
  ASSUME RecorderIsKnown, UNCHANGED <<recorder, activity>>,
         frame'["daemon"].settles = frame["daemon"].settles \/ activity.kind # "recording",
         Label \notin MicLabels, Label' \notin MicLabels,
         Label' \in StartLabels \cup RetryLabels => activity.kind # "recording"
  PROVE  RecorderIsKnown'
  BY DEF RecorderIsKnown

(* A step after which nothing is recorded. *)
LEMMA RecorderRests ==
  ASSUME recorder' = NoJob, activity'.kind # "recording", Label' \notin MicLabels
  PROVE  RecorderIsKnown'
  BY DEF RecorderIsKnown

(* The same within a command. *)
LEMMA RecorderWithin ==
  ASSUME RecorderIsKnown, Within, UNCHANGED recorder,
         Label \notin MicLabels, Label' \notin MicLabels
  PROVE  RecorderIsKnown'
  BY RecorderStays DEF RecorderIsKnown, Within, Follows

(* Only the steps of a recording touch its labels. *)
LEMMA AwayFromTheMicrophone ==
  ASSUME NEW label \in {"idle", "settle", "panicked"} \cup OpeningLabels \cup SharedLabels
                       \cup StoreLabels \cup ReadyLabels \cup RetryLabels \cup AgainLabels \cup OtherLabels
  PROVE  label \notin StartLabels \cup {"finish", "capture"} \cup MicLabels
  BY DEF OpeningLabels, SharedLabels, StoreLabels, ReadyLabels, RetryLabels, AgainLabels, OtherLabels,
     StartLabels, MicLabels

(* The steps of a recording start and stop pw-record with the daemon's knowledge, *)
LEMMA RecorderInRecording ==
  ASSUME "read" \notin Failing, Inductive, RecorderIsKnown, RecordingSteps
  PROVE  RecorderIsKnown'
<1>sets. StartLabels \cup EndLabels \subseteq JobLabels /\ MicLabels \subseteq JobLabels
  BY DEF JobLabels, MicLabels, StartLabels, EndLabels
<1>moves. UNCHANGED recorder \/ RecorderStart \/ AbortStart \/ RecorderFinish
  BY DEF RecordingSteps, StartRecording, CheckpointRecording, InterruptStart, FinishRecording,
     CaptureRecording, InterruptRecording, InterruptCaptured, BeginTranscription, DiscardRecording,
     allButFrame, allButRow, RowStep
<1>go. \A label \in StartLabels \cup EndLabels \cup {"settle"} : Go("daemon", label) =>
         /\ Label' = label /\ Job("daemon")' = Job("daemon")
         /\ frame'["daemon"].settles = frame["daemon"].settles
  BY GoesOn DEF Inductive, TypeOK, StartLabels, EndLabels, Labels, DaemonLabels
<1>1. ASSUME NEW j \in Jobs, StartRecording(j) PROVE RecorderIsKnown'
  <2>1. Label = "idle" /\ ~frame["daemon"].settles /\ activity.kind = "idle"
    BY <1>1, Free DEF StartRecording, NoActivity
  <2>2. Label' = "recorder_start"
    BY <1>1, NewFrame DEF StartRecording, AtRest, Fault
  <2>3. UNCHANGED <<recorder, activity>>
    BY <1>1 DEF StartRecording
  <2>4. QED
    BY <2>1, <2>2, <2>3, RecorderStays DEF MicLabels
<1>2. CASE RecorderStart
  <2>1. Label = "recorder_start" /\ recorder = NoJob /\ activity.kind # "recording" /\ UNCHANGED activity
    BY <1>2 DEF RecorderStart, RecorderIsKnown, At, Label, StartLabels, MicLabels
  <2>2. CASE recorder' = Job("daemon") /\ Go("daemon", "checkpoint")
    BY <1>go, <2>1, <2>2 DEF RecorderIsKnown, StartLabels, MicLabels
  <2>3. CASE recorder' = NoJob /\ Go("daemon", "interrupt_start")
    BY <1>go, <2>1, <2>3, RecorderRests DEF StartLabels, MicLabels
  <2>4. QED
    BY <1>2, <2>1, <2>2, <2>3 DEF RecorderStart
<1>3. CASE CheckpointRecording
  <2>1. Label = "checkpoint" /\ recorder = Job("daemon") /\ UNCHANGED recorder
        /\ activity.kind # "recording"
    BY <1>3 DEF CheckpointRecording, RecorderIsKnown, At, Label, StartLabels, MicLabels
  <2>2. CASE Go("daemon", "abort_start") /\ UNCHANGED activity
    BY <1>go, <2>1, <2>2 DEF RecorderIsKnown, StartLabels, MicLabels
  <2>3. CASE /\ Command(AtRest("idle"))
             /\ activity' = [kind |-> "recording", job |-> Job("daemon"), pastes |-> FALSE]
    <3>1. Label' = "idle" /\ frame'["daemon"].settles = FALSE
      BY <2>3, NewFrame DEF AtRest
    <3>2. QED
      BY <2>1, <2>3, <3>1 DEF RecorderIsKnown, StartLabels, RetryLabels, MicLabels
  <2>4. QED
    BY <1>3, <2>2, <2>3 DEF CheckpointRecording, UnreadStatement, Fault
<1>4. CASE AbortStart
  <2>1. Label = "abort_start" /\ recorder' = NoJob /\ UNCHANGED activity /\ Go("daemon", "interrupt_start")
    BY <1>4 DEF AbortStart, At, Label
  <2>2. QED
    BY <1>go, <2>1, RecorderRests DEF RecorderIsKnown, StartLabels, MicLabels
<1>5. ASSUME NEW goal \in {"stop", "discard", "preserve"}, FinishRecording(goal) PROVE RecorderIsKnown'
  <2>1. Label = "idle" /\ ~frame["daemon"].settles /\ activity.kind = "recording"
        /\ UNCHANGED <<recorder, activity>>
    BY <1>5, Free DEF FinishRecording, allButFrame
  <2>2. Command([AtRest("finish") EXCEPT !.job = activity.job, !.goal = goal, !.settles = TRUE])
    BY <1>5 DEF FinishRecording
  <2>3. /\ [AtRest("finish") EXCEPT !.job = activity.job, !.goal = goal, !.settles = TRUE].at = "finish"
        /\ [AtRest("finish") EXCEPT !.job = activity.job, !.goal = goal, !.settles = TRUE].job = activity.job
    BY DEF AtRest
  <2>4. Label' = "finish" /\ Job("daemon")' = activity.job
    BY <2>2, <2>3, NewFrame, Zenon
  <2>5. QED
    BY <2>1, <2>4 DEF RecorderIsKnown, StartLabels, RetryLabels, MicLabels
<1>6. CASE RecorderFinish
  <2>1. Label = "finish" /\ frame["daemon"].settles /\ recorder' = NoJob /\ UNCHANGED activity
    BY <1>6 DEF RecorderFinish, At, Label, EndLabels, Inductive, RowOfRecording
  <2>2. PICK label \in {"capture", "interrupt_recording"} : Go("daemon", label)
    BY <1>6 DEF RecorderFinish
  <2>3. /\ Label' = label /\ frame'["daemon"].settles
    BY <1>go, <2>1, <2>2 DEF EndLabels
  <2>4. QED
    BY <2>1, <2>3 DEF RecorderIsKnown, MicLabels, StartLabels, RetryLabels
<1>7. CASE BeginTranscription /\ ~Within
  <2>1. Label = "begin" /\ frame["daemon"].settles /\ UNCHANGED recorder
    BY <1>7 DEF BeginTranscription, At, Label, EndLabels, Inductive, RowOfRecording
  <2>2. recorder = NoJob
    BY <2>1 DEF RecorderIsKnown, MicLabels
  <2>3. Hands("begin", "processing", TRUE, 1)
    BY <1>7, RecordingWithin DEF CheckpointRecording, BeginTranscription, StartRecording,
       FinishRecording, At, Unlocked, Hands
  <2>4. Label' = "idle" /\ activity'.kind = "processing"
    BY <2>3, NewFrame DEF Hands, AtRest
  <2>5. QED
    BY <2>1, <2>2, <2>4, RecorderRests DEF MicLabels
<1>8. CASE /\ Within
           /\ \/ InterruptStart \/ CaptureRecording \/ InterruptRecording
              \/ InterruptCaptured \/ BeginTranscription \/ DiscardRecording
  <2>1. Label \notin MicLabels /\ UNCHANGED recorder
    BY <1>8 DEF InterruptStart, CaptureRecording, InterruptRecording, InterruptCaptured,
       BeginTranscription, DiscardRecording, RowStep, At, Label, allButRow, MicLabels
  <2>2. Label' \notin MicLabels
    <3>1. CASE InterruptStart
      <4>1. Go("daemon", "settle")
        BY <3>1 DEF InterruptStart, RowStep, Statement
      <4>2. QED
        BY <1>go, <4>1 DEF MicLabels
    <3>2. CASE CaptureRecording
      <4>1. PICK label \in {"begin", "discard", "interrupt_captured", "interrupt_recording", "settle"} :
              Go("daemon", label)
        BY <3>2 DEF CaptureRecording, UnreadStatement, Statement
      <4>2. QED
        BY <1>go, <4>1 DEF EndLabels, MicLabels
    <3>3. CASE InterruptRecording \/ InterruptCaptured \/ BeginTranscription \/ DiscardRecording
      <4>1. Label \notin StartLabels \cup {"finish", "capture"}
        BY <3>3 DEF InterruptRecording, InterruptCaptured, BeginTranscription, DiscardRecording,
           RowStep, At, Label, StartLabels
      <4>2. QED
        BY <1>8, <4>1 DEF Within, Follows, MicLabels, StartLabels
    <3>4. QED
      BY <1>8, <3>1, <3>2, <3>3
  <2>3. QED
    BY <1>8, <2>1, <2>2, RecorderWithin
<1>9. QED
  <2>1. InterruptStart \/ CaptureRecording \/ InterruptRecording \/ InterruptCaptured
          \/ DiscardRecording => Within
    BY RecordingWithin DEF InterruptStart, CaptureRecording, InterruptRecording, InterruptCaptured,
       DiscardRecording, CheckpointRecording, BeginTranscription, StartRecording, FinishRecording,
       RowStep, At, Unlocked
  <2>2. QED
    BY <1>1, <1>2, <1>3, <1>4, <1>5, <1>6, <1>7, <1>8, <2>1 DEF RecordingSteps

(* and so does every step. *)
LEMMA RecorderStep ==
  ASSUME "read" \notin Failing, Inductive, TicketIsOwed, RecorderIsKnown, Next
  PROVE  RecorderIsKnown'
<1>stays. UNCHANGED recorder \/ RecordingSteps \/ EndSteps
  BY RecorderMoves DEF RecordingSteps
<1>away. ASSUME Label \notin StartLabels \cup {"finish", "capture"}, Within, UNCHANGED recorder
         PROVE  RecorderIsKnown'
  BY <1>away, RecorderWithin DEF Within, Follows, MicLabels, StartLabels
<1>other. ASSUME NEW label \in StoreLabels \cup ReadyLabels \cup RetryLabels \cup AgainLabels \cup OtherLabels,
                 Label = label, Within, UNCHANGED recorder
          PROVE  RecorderIsKnown'
  BY <1>away, <1>other, AwayFromTheMicrophone
<1>free. ASSUME Unlocked, UNCHANGED <<recorder, activity>>, Label' \notin MicLabels,
                Label' \in StartLabels \cup RetryLabels => activity.kind # "recording",
                frame'["daemon"].settles => activity.kind # "recording"
         PROVE  RecorderIsKnown'
  <2>1. Label \notin MicLabels /\ ~frame["daemon"].settles
    BY <1>free, Free DEF MicLabels
  <2>2. recorder = IF activity.kind = "recording" THEN activity.job ELSE NoJob
    BY <2>1 DEF RecorderIsKnown
  <2>3. QED
    BY <1>free, <2>2 DEF RecorderIsKnown
<1>1. CASE StartSteps
  <2>1. Label \in OpeningLabels /\ UNCHANGED <<recorder, activity>>
    BY <1>1 DEF StartSteps, Boot, OpenAmbiguous, OpenInterrupted, ReconcileRecoveryDeletion, Serve,
       At, Label, OpeningLabels, allButFrame, allButAudio
  <2>2. activity = NoActivity
    BY <2>1 DEF Inductive, CommandHasJob, OpeningLabels
  <2>3. Label \notin MicLabels /\ recorder = NoJob
    BY <2>1, <2>2 DEF RecorderIsKnown, OpeningLabels, MicLabels, NoActivity
  <2>4. Label' \in OpeningLabels \cup {"idle"}
    <3>1. \A label \in OpeningLabels : Go("daemon", label) => Label' = label
      BY GoesOn DEF Inductive, TypeOK, OpeningLabels, Labels, DaemonLabels
    <3>2. Serve => Label' = "idle"
      BY RestIsBlank DEF Serve, Label, Inductive, TypeOK, Threads
    <3>3. UNCHANGED frame => Label' = Label
      BY DEF Label
    <3>4. QED
      BY <1>1, <2>1, <3>1, <3>2, <3>3
      DEF StartSteps, Boot, OpenAmbiguous, OpenInterrupted, ReconcileRecoveryDeletion, OpeningLabels
  <2>5. QED
    BY <2>1, <2>2, <2>3, <2>4, RecorderRests DEF OpeningLabels, MicLabels, NoActivity
<1>2. CASE EndSteps
  <2>1. ProcessEnds
    BY <1>2 DEF EndSteps, Crash, PanicExit, Quit
  <2>2. recorder' = NoJob /\ activity' = NoActivity
    BY <2>1 DEF ProcessEnds
  <2>3. Label' = "down"
    BY <2>1, RestIsBlank DEF ProcessEnds, Label, Threads
  <2>4. QED
    BY <2>2, <2>3, RecorderRests DEF NoActivity, MicLabels
<1>3. CASE RecordingSteps
  BY <1>3, RecorderInRecording
<1>4. CASE ResultSteps /\ ~RecordingSteps /\ ~EndSteps
  <2>1. ASSUME NEW j \in Jobs, TranscriptionDone(j) PROVE RecorderIsKnown'
    <3>1. Unlocked /\ UNCHANGED <<recorder, activity>>
      BY <2>1 DEF TranscriptionDone
    <3>2. PICK label \in {"settle", "store_raw", "store_failed", "store_silent"} : Resume(j, label)
      BY <2>1 DEF TranscriptionDone
    <3>3. Label' = label /\ (frame'["daemon"].settles => IsCurrent(j))
      <4> DEFINE new == [AtRest(label) EXCEPT !.job = j, !.settles = IsCurrent(j),
                                              !.pastes = IsCurrent(j) /\ activity.pastes]
      <4>1. Command(new)
        BY <3>2 DEF Resume
      <4>2. new.at = label /\ new.settles = IsCurrent(j)
        BY DEF AtRest
      <4>3. QED
        BY <4>1, <4>2, NewFrame, Zenon
    <3>4. QED
      BY <1>free, <3>1, <3>2, <3>3 DEF IsCurrent, MicLabels, StartLabels, RetryLabels
  <2>2. CASE Within /\ ~\E j \in Jobs : TranscriptionDone(j)
    <3>1. Label \in StoreLabels \cup ReadyLabels \cup OtherLabels
      BY <1>4, <2>2 DEF ResultSteps, StoreRawText, StoreReadyText, StoreSilent, StoreFailed, FailStep,
         ReadReady, ReadBack, RowStep, At, Label, StoreLabels, ReadyLabels, OtherLabels
    <3>2. QED
      BY <1>4, <1>other, <1>stays, <2>2, <3>1
  <2>3. QED
    BY <1>4, <2>1, <2>2, ResultWithin
<1>5. CASE DeliverySteps /\ ~RecordingSteps /\ ~EndSteps
  <2>1. CASE Settle
    <3>1. Label = "settle" /\ UNCHANGED recorder /\ Label' = "idle" /\ ~frame'["daemon"].settles
      BY <2>1, NewFrame, RestIsBlank DEF Settle, At, Label
    <3>2. activity' = IF frame["daemon"].settles THEN NoActivity ELSE activity
      BY <2>1 DEF Settle
    <3>3. QED
      BY <3>1, <3>2 DEF RecorderIsKnown, NoActivity, MicLabels, StartLabels, RetryLabels
  <2>2. CASE Within /\ ~Settle
    <3>1. Label \in ReadyLabels \cup OtherLabels
      BY <1>5, <2>2 DEF DeliverySteps, Gate, GateRefused, Attempt, Deliver, RecordSubmitted,
         RecordAmbiguous, RecordNotSent, ReadResult, ReadBack, Complete, CleanupAudio, RowStep, At,
         Label, ReadyLabels, OtherLabels
    <3>2. QED
      BY <1>5, <1>other, <1>stays, <2>2, <3>1
  <2>3. QED
    BY <1>5, <2>1, <2>2, DeliveryWithin
<1>6. CASE RecoverySteps /\ ~RecordingSteps /\ ~EndSteps
  <2>1. ASSUME NEW j \in Jobs, RetryTranscriptionOf(j) \/ PasteAgain(j) \/ DeleteRecovery(j)
        PROVE  RecorderIsKnown'
    <3>1. /\ Unlocked /\ UNCHANGED <<recorder, activity>>
          /\ ~DeleteRecovery(j) => activity.kind # "recording"
      BY <2>1 DEF RetryTranscriptionOf, PasteAgain, DeleteRecovery, allButFrame, NoActivity
    <3>2. /\ Label' \in {"retry_update", "again_update", "delete_move"}
          /\ DeleteRecovery(j) => Label' = "delete_move"
          /\ ~frame'["daemon"].settles
      <4>1. DeleteRecovery(j) => Label' = "delete_move" /\ ~frame'["daemon"].settles
        <5> DEFINE new == [AtRest("delete_move") EXCEPT !.victim = j, !.goal = "user"]
        <5>1. new.at = "delete_move" /\ new.settles = AtRest("delete_move").settles
          BY DEF AtRest
        <5>2. ~AtRest("delete_move").settles
          BY DEF AtRest
        <5>3. DeleteRecovery(j) => Command(new)
          BY DEF DeleteRecovery
        <5>4. QED
          BY <5>1, <5>2, <5>3, NewFrame, Zenon
      <4>2. RetryTranscriptionOf(j) => Label' = "retry_update" /\ ~frame'["daemon"].settles
        BY NewFrame DEF RetryTranscriptionOf, AtRest
      <4>3. PasteAgain(j) => Label' = "again_update" /\ ~frame'["daemon"].settles
        BY NewFrame DEF PasteAgain, AtRest
      <4>4. QED
        BY <2>1, <4>1, <4>2, <4>3
    <3>3. QED
      BY <1>free, <3>1, <3>2 DEF MicLabels, StartLabels, RetryLabels
  <2>2. CASE CancelProcessing
    <3>1. /\ Unlocked /\ UNCHANGED <<recorder, frame>> /\ activity.kind # "recording"
          /\ activity' = NoActivity
      BY <2>2 DEF CancelProcessing
    <3>2. Label' = "idle" /\ recorder = NoJob
      BY <3>1, Free DEF RecorderIsKnown, MicLabels, Label
    <3>3. QED
      BY <3>1, <3>2, RecorderRests DEF NoActivity, MicLabels
  <2>3. CASE Hands("retry_read", "processing", FALSE, 1) /\ RetryRead
    <3>1. Label' = "idle" /\ activity'.kind = "processing" /\ UNCHANGED recorder
      BY <2>3, NewFrame, RestIsBlank DEF Hands, RetryRead
    <3>2. recorder = NoJob
      BY <2>3 DEF RecorderIsKnown, Hands, MicLabels, RetryLabels
    <3>3. QED
      BY <3>1, <3>2, RecorderRests DEF MicLabels
  <2>4. CASE Within /\ (RetryUpdate \/ RetryRead \/ AgainUpdate \/ AgainRead)
    <3>1. Label \in RetryLabels \cup AgainLabels
      BY <2>4 DEF RetryUpdate, RetryRead, AgainUpdate, AgainRead, ReadBack, RowStep, At, Label,
         RetryLabels, AgainLabels
    <3>2. QED
      BY <1>6, <1>other, <1>stays, <2>4, <3>1
  <2>5. QED
    BY <1>6, <2>1, <2>2, <2>3, <2>4, RecoveryWithin DEF RecoverySteps
<1>7. CASE (MaintenanceSteps \/ RetentionSteps("maintenance")) /\ UNCHANGED recorder
  <2>1. frame'["daemon"] = frame["daemon"] /\ UNCHANGED activity
    BY <1>7, MaintenanceTakes
  <2>2. Label' = Label /\ Job("daemon")' = Job("daemon")
    BY <2>1 DEF Label, Job
  <2>3. QED
    BY <1>7, <2>1, <2>2 DEF RecorderIsKnown
<1>8. CASE RetentionSteps("daemon") /\ UNCHANGED recorder
  <2>1. /\ UNCHANGED activity /\ frame'["daemon"].settles = frame["daemon"].settles
        /\ Label \in SharedLabels /\ Label' \in SharedLabels \cup {"cleanup_audio", "settle"}
    BY <1>8, RetentionTakes, RetentionMoves
  <2>2. QED
    BY <1>8, <2>1, RecorderStays DEF SharedLabels, MicLabels, StartLabels, RetryLabels
<1>9. CASE ToggleKeepAudio \/ \E j \in Jobs : Outlive(j)
  <2>1. UNCHANGED <<recorder, activity, frame>>
    BY <1>9 DEF ToggleKeepAudio, Outlive
  <2>2. QED
    BY <2>1 DEF RecorderIsKnown, Label, Job
<1>10. MaintenanceSteps \/ (\E c \in Threads : RetentionSteps(c)) => UNCHANGED recorder
  BY DEF MaintenanceSteps, StartMaintenance, ListFinished, NextFinished, FinishRow, ListOrphans,
     RemoveOrphan, RetentionSteps, ExpireList, ExpireNext, ExpireRow, DeleteMove, DeleteRow,
     DeleteRestore, DeleteUnlink, allButFrame, allButRow, allButAudio
<1>11. QED
  BY <1>1, <1>2, <1>3, <1>4, <1>5, <1>6, <1>7, <1>8, <1>9, <1>10 DEF Next, Threads

(* What removes a recording never meets the one that is being made: the daemon is bound to it. *)
LEMMA RecordingStep ==
  ASSUME Inductive, BoundIsSafe, RecorderIsKnown, RecordingIsThere, Next
  PROVE  RecordingIsThere'
<1>typed. audio \in [Jobs -> Audio] /\ Threads = {"daemon", "maintenance"} /\ born \subseteq Jobs
  BY DEF Inductive, TypeOK, Threads
<1>1. CASE recorder' = NoJob
  BY <1>1 DEF RecordingIsThere
<1>2. CASE RecorderStart /\ recorder' # NoJob
  <2>1. Job("daemon") \in Jobs
    BY <1>2, KnownRow DEF RecorderStart, At, Label, JobLabels, StartLabels
  <2>2. QED
    BY <1>2, <1>typed, <2>1 DEF RecorderStart, RecordingIsThere
<1>3. CASE recorder' # NoJob /\ ~RecorderStart
  <2>1. UNCHANGED recorder
    BY <1>3, RecorderMoves DEF AbortStart, RecorderFinish, EndSteps, Crash, PanicExit, Quit, ProcessEnds
  <2>2. Bound(recorder) /\ recorder \in Jobs
    <3>1. CASE Label \in MicLabels
      <4>1. recorder = Job("daemon") /\ Label \in StartLabels \cup {"finish", "capture", "begin"}
            /\ Label \in JobLabels
        BY <3>1 DEF RecorderIsKnown, MicLabels, StartLabels, JobLabels, EndLabels
      <4>2. QED
        BY <4>1, KnownRow DEF Bound
    <3>2. CASE Label \notin MicLabels
      <4>1. recorder = activity.job /\ activity.kind = "recording" /\ ~frame["daemon"].settles
        BY <1>3, <2>1, <3>2 DEF RecorderIsKnown
      <4>2. QED
        BY <1>typed, <4>1 DEF Bound, Inductive, CommandHasJob
    <3>3. QED
      BY <3>1, <3>2
  <2>3. \A c \in Threads : recorder \notin frame[c].todo /\ recorder # Victim(c)
    BY <2>2 DEF BoundIsSafe
  <2>4. audio[recorder] = "present"
    BY <1>3, <2>1 DEF RecordingIsThere
  <2>5. ASSUME NEW i, NEW place, UNCHANGED audio \/ audio' = [audio EXCEPT ![i] = place], i # recorder
        PROVE  RecordingIsThere'
    BY <1>typed, <2>1, <2>2, <2>4, <2>5 DEF RecordingIsThere
  <2>same. UNCHANGED audio => RecordingIsThere'
    BY <2>1, <2>4 DEF RecordingIsThere
  <2>6. CASE CleanupAudio
    <3>1. Label = "cleanup_audio" /\ Label \in JobLabels
      BY <2>6 DEF CleanupAudio, At, Label, JobLabels, OtherLabels
    <3>2. recorder = activity.job /\ activity.kind = "recording" /\ ~frame["daemon"].settles
      BY <1>3, <2>1, <3>1 DEF RecorderIsKnown, MicLabels
    <3>3. Job("daemon") # recorder
      BY <3>1, <3>2 DEF BoundIsSafe
    <3>4. QED
      BY <2>5, <2>6, <2>same, <3>3 DEF CleanupAudio
  <2>7. ASSUME NEW j \in Jobs, ReconcileRecoveryDeletion(j) PROVE FALSE
    <3>1. Label = "open_deletions" /\ activity = NoActivity
      BY <2>7 DEF ReconcileRecoveryDeletion, At, Label, Inductive, CommandHasJob
    <3>2. QED
      BY <1>3, <2>1, <3>1 DEF RecorderIsKnown, NoActivity, MicLabels
  <2>8. CASE NextFinished \/ RemoveOrphan
    <3>1. \/ UNCHANGED audio
          \/ \E j \in frame["maintenance"].todo : audio' = [audio EXCEPT ![j] = "missing"]
      BY <2>8, Zenon DEF NextFinished, RemoveOrphan
    <3>2. QED
      BY <1>typed, <2>3, <2>5, <2>same, <3>1
  <2>9. ASSUME NEW c \in Threads, DeleteMove(c) \/ DeleteRestore(c) \/ DeleteUnlink(c)
        PROVE  RecordingIsThere'
    <3>1. UNCHANGED audio \/ \E place : audio' = [audio EXCEPT ![Victim(c)] = place]
      BY <2>9, Zenon DEF DeleteMove, DeleteRestore, DeleteUnlink
    <3>2. QED
      BY <2>3, <2>5, <2>same, <3>1
  <2>10. QED
    BY <1>3, <2>6, <2>7, <2>8, <2>9, <2>same, RecordingsMove DEF Complete, FinishRow
<1>4. QED
  BY <1>1, <1>2, <1>3

--------------------------------------------------------------------------------
(* Who moves a row on *)

(* The labels at which the daemon's command will still take its row out of flight. *)
MovingLabels == StartLabels \cup StoreLabels
                \cup {"finish", "capture", "interrupt_recording", "fail_job", "retry_read"}

(* A row in flight has the daemon's recording, a transcription under way, or the command
   that is about it. *)
Owned(j) ==
  \/ ActiveRecording(j)
  \/ jobs[j].stage = "transcribing" /\ tickets[j] = 1
  \/ Job("daemon") = j /\ Label \in MovingLabels

(* Every row in flight has one, once the start has reconciled what the last run left; and the
   steps that clean up after a failure come after a failure. *)
FlightsAreOwned ==
  /\ Label \notin {"down", "open_ambiguous", "open_interrupted"} =>
       \A j \in Jobs : InFlight(jobs[j]) => Owned(j)
  /\ Label \in {"abort_start", "interrupt_start", "interrupt_recording"} => failures > 0
  /\ Label = "fail_job" => ~Making(Row) /\ (InFlight(Row) => failures > 0)

(* Failures are only counted. *)
LEMMA FailuresGrow ==
  ASSUME Inductive, Next
  PROVE  /\ failures \in Nat /\ failures' \in Nat
         /\ UNCHANGED failures \/ (failures' = failures + 1 /\ failures < MaxFailures)
<1> SUFFICES failures' = failures \/ \E kind : Fault(kind)
  BY DEF Fault, Inductive, TypeOK
<1> USE DEF allButFrame, allButRow, allButAudio, RowStep, Statement, UnreadStatement
<1>1. CASE StartSteps \/ EndSteps
  BY <1>1 DEF StartSteps, Boot, OpenAmbiguous, OpenInterrupted, ReconcileRecoveryDeletion, Serve,
     EndSteps, Crash, PanicExit, Quit, ProcessEnds
<1>2. CASE RecordingSteps
  BY <1>2 DEF RecordingSteps, StartRecording, RecorderStart, CheckpointRecording, AbortStart,
     InterruptStart, FinishRecording, RecorderFinish, CaptureRecording, InterruptRecording,
     InterruptCaptured, BeginTranscription, DiscardRecording
<1>3. CASE ResultSteps
  BY <1>3 DEF ResultSteps, TranscriptionDone, StoreRawText, StoreReadyText, StoreSilent,
     StoreFailed, FailStep, ReadReady, ReadBack
<1>4. CASE DeliverySteps
  BY <1>4 DEF DeliverySteps, Gate, GateRefused, Attempt, Deliver, RecordSubmitted, RecordAmbiguous,
     RecordNotSent, ReadResult, ReadBack, Complete, CompleteDelivered, CleanupAudio, Settle
<1>5. CASE RecoverySteps
  BY <1>5 DEF RecoverySteps, RetryTranscriptionOf, PasteAgain, DeleteRecovery, RetryUpdate,
     RetryRead, AgainUpdate, AgainRead, ReadBack, CancelProcessing
<1>6. CASE MaintenanceSteps
  BY <1>6 DEF MaintenanceSteps, StartMaintenance, ListFinished, NextFinished, FinishRow,
     CompleteDelivered, ListOrphans, RemoveOrphan
<1>7. CASE \E c \in Threads : RetentionSteps(c)
  BY <1>7 DEF RetentionSteps, ExpireList, ExpireNext, ExpireRow, DeleteMove, DeleteRow,
     DeleteRestore, DeleteUnlink
<1>8. CASE ToggleKeepAudio \/ \E j \in Jobs : Outlive(j)
  BY <1>8 DEF ToggleKeepAudio, Outlive
<1>9. QED
  BY <1>1, <1>2, <1>3, <1>4, <1>5, <1>6, <1>7, <1>8 DEF Next

(* The labels reached only after a failure. *)
HurtLabels == {"abort_start", "interrupt_start", "interrupt_recording"}

(* Where the labels of FlightsAreOwned lie. *)
LEMMA MovingKinds ==
  /\ MovingLabels \subseteq JobLabels /\ HurtLabels \subseteq MovingLabels
  /\ JobLabels \cap {"down", "open_ambiguous", "open_interrupted", "open_deletions", "idle", "settle",
                     "panicked", "delete_move"} = {}
  /\ JobLabels \cap SharedLabels = {"expire_list"}
  /\ (ReadyLabels \cup AgainLabels \cup {"retry_update", "begin", "discard", "interrupt_captured",
      "read_result", "complete", "cleanup_audio", "expire_list"}) \cap MovingLabels = {}
  BY DEF MovingLabels, HurtLabels, JobLabels, StartLabels, EndLabels, StoreLabels, ReadyLabels,
     RetryLabels, AgainLabels, OtherLabels, SharedLabels

(* A command that is not to take its row out of flight has none that is. *)
LEMMA RowRests ==
  ASSUME Inductive, TicketIsOwed, BoundIsSafe, FlightsAreOwned, Label \in JobLabels \ MovingLabels
  PROVE  ~InFlight(Row) /\ ~Making(Row)
<1>1. Job("daemon") \in Jobs
  BY KnownRow
<1>2. InFlight(Row) => Owned(Job("daemon"))
  BY <1>1, MovingKinds DEF FlightsAreOwned, Row
<1>3. ~ActiveRecording(Job("daemon"))
  BY DEF ActiveRecording, BoundIsSafe
<1>4. tickets[Job("daemon")] = 0
  BY DEF TicketIsOwed
<1>5. QED
  BY <1>2, <1>3, <1>4 DEF Owned, InFlight, Making

(* A step that takes no owner from a row in flight: it leaves the tickets and the recording,
   and no command that is about such a row. *)
LEMMA FlightsStay ==
  ASSUME Inductive, FlightsAreOwned,
         failures \in Nat, failures' \in Nat, failures' >= failures, UNCHANGED tickets,
         \A j \in Jobs : ActiveRecording(j) => ActiveRecording(j)',
         \A j \in Jobs : jobs'[j].stage = jobs[j].stage \/ ~InFlight(jobs'[j]),
         \/ Label' = Label /\ Job("daemon")' = Job("daemon")
         \/ /\ Label \notin MovingLabels /\ Label' \notin HurtLabels \cup {"fail_job"}
            /\ Label \in {"down", "open_ambiguous", "open_interrupted"} =>
                 Label' \in {"down", "open_ambiguous", "open_interrupted"}
  PROVE  FlightsAreOwned'
<1>1. ASSUME NEW j \in Jobs, Label' \notin {"down", "open_ambiguous", "open_interrupted"}, InFlight(jobs'[j])
      PROVE  Owned(j)'
  <2>1. jobs'[j].stage = jobs[j].stage /\ Owned(j)
    BY <1>1 DEF FlightsAreOwned, InFlight
  <2>2. QED
    BY <2>1 DEF Owned
<1>2. Label' \in HurtLabels => failures' > 0
  BY DEF FlightsAreOwned, HurtLabels
<1>3. Label' = "fail_job" => ~Making(Row') /\ (InFlight(Row') => failures' > 0)
  <2>1. SUFFICES ASSUME Label' = "fail_job" PROVE ~Making(Row') /\ (InFlight(Row') => failures' > 0)
    OBVIOUS
  <2>2. Label = "fail_job" /\ Job("daemon")' = Job("daemon") /\ Job("daemon") \in Jobs
    BY <2>1, KnownRow DEF JobLabels, OtherLabels
  <2>3. Row' = jobs'[Job("daemon")] /\ ~Making(Row) /\ (InFlight(Row) => failures > 0)
    BY <2>2 DEF Row, FlightsAreOwned
  <2>4. Row'.stage = Row.stage \/ ~InFlight(Row')
    BY <2>2, <2>3 DEF Row
  <2>5. QED
    BY <2>3, <2>4 DEF Making, InFlight
<1>4. QED
  BY <1>1, <1>2, <1>3 DEF FlightsAreOwned, HurtLabels

(* Within a command only its own row and label matter. *)
LEMMA FlightsWithin ==
  ASSUME Inductive, TicketIsOwed, BoundIsSafe, FlightsAreOwned, Within,
         InFlight(Row') => Label' \in MovingLabels,
         Label' \in HurtLabels => failures' > 0,
         Label' = "fail_job" => ~Making(Row') /\ (InFlight(Row') => failures' > 0)
  PROVE  FlightsAreOwned'
<1>1. /\ Job("daemon")' = Job("daemon") /\ Row' = jobs'[Job("daemon")]
      /\ UNCHANGED <<tickets, activity>> /\ frame'["daemon"].settles = frame["daemon"].settles
      /\ \A j \in Jobs \ {Job("daemon")} : jobs'[j] = jobs[j]
      /\ Label \notin {"down", "open_ambiguous", "open_interrupted"}
  BY MovingKinds DEF Within, Row
<1>2. ASSUME NEW j \in Jobs, InFlight(jobs'[j]) PROVE Owned(j)'
  <2>1. CASE j = Job("daemon")
    BY <1>1, <1>2, <2>1 DEF Owned
  <2>2. CASE j # Job("daemon")
    <3>1. jobs'[j] = jobs[j] /\ (ActiveRecording(j) \/ (jobs[j].stage = "transcribing" /\ tickets[j] = 1))
      BY <1>1, <1>2, <2>2 DEF FlightsAreOwned, Owned
    <3>2. QED
      BY <1>1, <3>1 DEF Owned, ActiveRecording
  <2>3. QED
    BY <2>1, <2>2
<1>3. QED
  BY <1>2 DEF FlightsAreOwned, HurtLabels

(* So a step of a command whose row is at rest keeps it there, or is about to transcribe it. *)
LEMMA RestsWithin ==
  ASSUME Inductive, TicketIsOwed, BoundIsSafe, FlightsAreOwned, Within, Label \notin MovingLabels,
         InFlight(Row') => InFlight(Row) \/ Label' \in MovingLabels \ {"fail_job"}
  PROVE  FlightsAreOwned'
<1>1. ~InFlight(Row)
  BY RowRests DEF Within
<1>2. Label' \notin HurtLabels
  BY DEF Within, Follows, MovingLabels, HurtLabels, StartLabels
<1>3. QED
  BY <1>1, <1>2, FlightsWithin DEF Making, InFlight

(* A statement of a command either takes its row out of flight, or leads on to one that will;
   a failed one is the first failure, and leads to the statement that records it. *)
LEMMA FlightsInRowStep ==
  ASSUME Inductive, TicketIsOwed, BoundIsSafe, FlightsAreOwned, Within, failures' <= 1,
         NEW here \in JobLabels, NEW row, NEW next \in JobLabels \cup {"settle"},
         NEW onFault \in {"settle", "fail_job"},
         RowStep(here, row, next, onFault),
         InFlight(row) => next \in MovingLabels,
         next \notin HurtLabels \cup {"fail_job"},
         InFlight(Row) => failures > 0 \/ (onFault = "fail_job" /\ ~Making(Row))
  PROVE  FlightsAreOwned'
<1>1. /\ Job("daemon")' = Job("daemon") /\ Row' = jobs'[Job("daemon")] /\ Job("daemon") \in Jobs
      /\ failures \in Nat
  BY KnownRow DEF Within, Row, Inductive, TypeOK
<1>go. \A label \in JobLabels \cup {"settle"} : Go("daemon", label) => Label' = label
  BY GoesOn DEF Inductive, TypeOK, JobLabels, StartLabels, EndLabels, StoreLabels, ReadyLabels,
     RetryLabels, AgainLabels, OtherLabels, Labels, DaemonLabels, SharedLabels
<1>2. CASE Put(Job("daemon"), row) /\ Go("daemon", next)
  <2>1. Row' = row /\ Label' = next
    BY <1>1, <1>2, <1>go DEF Put, Inductive, TypeOK
  <2>2. QED
    BY <2>1, FlightsWithin
<1>3. CASE failures' = failures + 1 /\ Go("daemon", onFault) /\ UNCHANGED jobs
  <2>1. Row' = Row /\ Label' = onFault /\ failures = 0 /\ failures' > 0
    BY <1>1, <1>3, <1>go DEF Row, JobLabels, OtherLabels
  <2>2. onFault \notin HurtLabels /\ "fail_job" \in MovingLabels
    BY DEF HurtLabels, MovingLabels
  <2>3. InFlight(Row) => onFault = "fail_job" /\ ~Making(Row)
    BY <2>1
  <2>4. Making(Row) => InFlight(Row)
    BY DEF Making, InFlight
  <2>5. QED
    BY <2>1, <2>2, <2>3, <2>4, FlightsWithin
<1>4. QED
  BY <1>2, <1>3 DEF RowStep, Statement, Fault

(* A command that hands its row to the activity, beside no recording. *)
LEMMA FlightsHanded ==
  ASSUME Inductive, TicketIsOwed, FlightsAreOwned, NEW label \in JobLabels, NEW pastes,
         ~(activity.kind = "recording" /\ ~frame["daemon"].settles),
         \/ Hands(label, "recording", pastes, 0)
         \/ /\ Hands(label, "processing", pastes, 1)
            /\ InFlight(jobs'[Job("daemon")]) => jobs'[Job("daemon")].stage = "transcribing"
  PROVE  FlightsAreOwned'
<1>1. Job("daemon") \in Jobs /\ tickets[Job("daemon")] = 0 /\ Label \in JobLabels
  BY KnownRow DEF TicketIsOwed, Hands
<1>2. Label' = "idle" /\ frame'["daemon"].settles = FALSE
  BY NewFrame, RestIsBlank DEF Hands
<1>3. ASSUME NEW j \in Jobs \ {Job("daemon")}, InFlight(jobs'[j]) PROVE Owned(j)'
  <2>1. jobs'[j] = jobs[j] /\ tickets'[j] = tickets[j]
    BY <1>1 DEF Hands, Inductive, TypeOK
  <2>2. jobs[j].stage = "transcribing" /\ tickets[j] = 1
    BY <1>1, <1>3, <2>1, MovingKinds DEF FlightsAreOwned, Owned, ActiveRecording
  <2>3. QED
    BY <2>1, <2>2 DEF Owned
<1>4. InFlight(jobs'[Job("daemon")]) => \A j \in {Job("daemon")} : Owned(j)'
  <2>1. CASE Hands(label, "recording", pastes, 0)
    BY <1>2, <2>1 DEF Hands, Owned, ActiveRecording
  <2>2. CASE /\ Hands(label, "processing", pastes, 1)
             /\ InFlight(jobs'[Job("daemon")]) => jobs'[Job("daemon")].stage = "transcribing"
    <3>1. tickets'[Job("daemon")] = 1
      BY <1>1, <2>2 DEF Hands, Inductive, TypeOK
    <3>2. QED
      BY <2>2, <3>1 DEF Owned
  <2>3. QED
    BY <2>1, <2>2
<1>5. \A j \in Jobs : InFlight(jobs'[j]) => Owned(j)'
  BY <1>3, <1>4
<1>6. QED
  BY <1>2, <1>5 DEF FlightsAreOwned

(* What the statements do to a row in flight. *)
LEMMA StatementsLand ==
  ASSUME NEW row \in Rows
  PROVE  /\ ~InFlight(NoRow) /\ ~InFlight(StoreReady(row)) /\ ~InFlight(RetryDelivery(row))
         /\ \A stage \in {"interrupted", "failed", "cancelled"} : ~InFlight(UpdateStage(row, stage))
         /\ \A long \in BOOLEAN : ~InFlight(Captured(row, long))
         /\ InFlight(StoreRaw(row)) => InFlight(row)
         /\ ~Making(row) => ~InFlight(FailJob(row))
         /\ InFlight(GateBlocked(row)) => InFlight(row)
         /\ InFlight(Attempting(row)) => InFlight(row)
         /\ ~InFlight(Submitted(row)) /\ ~InFlight(Ambiguous(row))
         /\ InFlight(NotSent(row)) => InFlight(row)
         /\ ~InFlight(ReconcileInterrupted(row))
<1> USE DEF Rows, Updated, IsRow, InFlight
<1>1. /\ ~InFlight(NoRow) /\ ~InFlight(StoreReady(row)) /\ ~InFlight(RetryDelivery(row))
      /\ \A stage \in {"interrupted", "failed", "cancelled"} : ~InFlight(UpdateStage(row, stage))
  BY DEF NoRow, StoreReady, RetryDelivery, UpdateStage
<1>2. /\ \A long \in BOOLEAN : ~InFlight(Captured(row, long))
      /\ InFlight(StoreRaw(row)) => InFlight(row)
  BY DEF Captured, StoreRaw
<1>3. ~Making(row) => ~InFlight(FailJob(row))
  BY DEF FailJob, Making
<1>4. /\ InFlight(GateBlocked(row)) => InFlight(row)
      /\ InFlight(Attempting(row)) => InFlight(row)
      /\ InFlight(NotSent(row)) => InFlight(row)
  BY DEF GateBlocked, Attempting, NotSent
<1>5. ~InFlight(Submitted(row)) /\ ~InFlight(Ambiguous(row)) /\ ~InFlight(ReconcileInterrupted(row))
  BY DEF Submitted, Ambiguous, ReconcileInterrupted, UpdateStage
<1>6. QED
  BY <1>1, <1>2, <1>3, <1>4, <1>5

(* The steps of a recording leave each row in flight its owner, *)
LEMMA FlightsInRecording ==
  ASSUME "read" \notin Failing, Inductive, CommandKnows, TicketIsOwed, BoundIsSafe,
         RecorderIsKnown, FlightsAreOwned, failures' <= 1, RecordingSteps
  PROVE  FlightsAreOwned'
<1>grow. failures \in Nat /\ failures' \in Nat /\ failures' >= failures
  BY FailuresGrow DEF Next
<1>sets. StartLabels \cup EndLabels \subseteq JobLabels
  BY DEF JobLabels
<1>go. \A label \in StartLabels \cup EndLabels \cup {"settle"} : Go("daemon", label) => Label' = label
  BY GoesOn DEF Inductive, TypeOK, StartLabels, EndLabels, Labels, DaemonLabels
<1>row. Within /\ UNCHANGED jobs => Row' = Row
  BY DEF Within, Row
<1>1. ASSUME NEW j \in Jobs, StartRecording(j) PROVE FlightsAreOwned'
  <2>1. Label = "idle" /\ activity = NoActivity /\ UNCHANGED <<activity, tickets>>
    BY <1>1, Free DEF StartRecording
  <2>2. Label' = "recorder_start" /\ Job("daemon")' = j
    BY <1>1, NewFrame DEF StartRecording, AtRest, Fault
  <2>3. \A i \in Jobs \ {j} : jobs'[i] = jobs[i]
    BY <1>1 DEF StartRecording, Put, Inductive, TypeOK
  <2>4. ASSUME NEW i \in Jobs \ {j}, InFlight(jobs'[i]) PROVE Owned(i)'
    <3>1. Owned(i)
      BY <2>1, <2>3, <2>4 DEF FlightsAreOwned
    <3>2. jobs[i].stage = "transcribing" /\ tickets[i] = 1
      BY <2>1, <3>1 DEF Owned, ActiveRecording, NoActivity, MovingLabels, StartLabels, StoreLabels
    <3>3. QED
      BY <2>1, <2>3, <3>2 DEF Owned
  <2>5. Owned(j)'
    BY <2>2 DEF Owned, MovingLabels, StartLabels
  <2>6. QED
    BY <2>2, <2>4, <2>5 DEF FlightsAreOwned
<1>2. CASE RecorderStart
  <2>1. Within
    BY <1>2, RecordingWithin DEF RecorderStart, CheckpointRecording, BeginTranscription,
       StartRecording, FinishRecording, At, Unlocked
  <2>2. UNCHANGED jobs /\ recorder = NoJob
    BY <1>2 DEF RecorderStart, RecorderIsKnown, At, Label, StartLabels, MicLabels
  <2>3. \/ Label' = "checkpoint"
        \/ Label' = "interrupt_start" /\ failures' > 0
    BY <1>2, <1>go, <1>grow, <2>2 DEF RecorderStart, Fault, StartLabels
  <2>4. QED
    BY <2>1, <2>3, FlightsWithin DEF MovingLabels, StartLabels, HurtLabels
<1>3. CASE CheckpointRecording
  <2>1. ~(activity.kind = "recording" /\ ~frame["daemon"].settles)
    BY <1>3 DEF CheckpointRecording, RecorderIsKnown, At, Label, StartLabels
  <2>2. CASE ~Within
    <3>1. Hands("checkpoint", "recording", FALSE, 0) /\ "checkpoint" \in JobLabels
      BY <1>3, <1>sets, <2>2, RecordingWithin DEF CheckpointRecording, BeginTranscription,
         StartRecording, FinishRecording, At, Unlocked, StartLabels
    <3>2. QED
      BY <2>1, <3>1, FlightsHanded
  <2>3. CASE Within
    <3>1. ~Command(AtRest("idle"))
      BY <2>3, NewFrame, RestIsBlank, MovingKinds DEF Within
    <3>2. Go("daemon", "abort_start") /\ failures' = failures + 1
      BY <1>3, <3>1 DEF CheckpointRecording, UnreadStatement, Fault
    <3>3. Label' = "abort_start" /\ failures' > 0
      BY <1>go, <1>grow, <3>2 DEF StartLabels
    <3>4. QED
      BY <2>3, <3>3, FlightsWithin DEF MovingLabels, StartLabels
  <2>4. QED
    BY <2>2, <2>3
<1>4. CASE AbortStart
  <2>1. Within
    BY <1>4, RecordingWithin DEF AbortStart, CheckpointRecording, BeginTranscription,
       StartRecording, FinishRecording, At, Unlocked
  <2>2. Label' = "interrupt_start" /\ failures' > 0
    BY <1>4, <1>go, <1>grow DEF AbortStart, At, Label, FlightsAreOwned, StartLabels
  <2>3. QED
    BY <2>1, <2>2, FlightsWithin DEF MovingLabels, StartLabels
<1>5. CASE InterruptStart \/ InterruptRecording \/ InterruptCaptured
  <2>1. Within
    BY <1>5, RecordingWithin DEF InterruptStart, InterruptRecording, InterruptCaptured, RowStep,
       CheckpointRecording, BeginTranscription, StartRecording, FinishRecording, At, Unlocked
  <2>2. /\ Label \in {"interrupt_start", "interrupt_recording", "interrupt_captured"}
        /\ RowStep(Label, UpdateStage(Row, "interrupted"), "settle", "settle")
    BY <1>5 DEF InterruptStart, InterruptRecording, InterruptCaptured, RowStep, At, Label
  <2>3. Label \in JobLabels /\ Row \in Rows
    BY <1>sets, <2>2, KnownRow DEF StartLabels, EndLabels
  <2>4. InFlight(Row) => failures > 0
    <3>1. CASE Label \in HurtLabels
      BY <3>1 DEF FlightsAreOwned, HurtLabels
    <3>2. CASE Label = "interrupt_captured"
      BY <2>3, <3>2, RowRests, MovingKinds
    <3>3. QED
      BY <2>2, <3>1, <3>2 DEF HurtLabels
  <2>5. ~InFlight(UpdateStage(Row, "interrupted"))
    BY <2>3, StatementsLand
  <2>6. "settle" \notin HurtLabels
    BY DEF HurtLabels
  <2>7. QED
    BY <2>1, <2>2, <2>3, <2>4, <2>5, <2>6, FlightsInRowStep
<1>6. ASSUME NEW goal \in {"stop", "discard", "preserve"}, FinishRecording(goal) PROVE FlightsAreOwned'
  <2>1. Label = "idle" /\ UNCHANGED <<jobs, activity, tickets>>
    BY <1>6, Free DEF FinishRecording, allButFrame, stored
  <2>2. Command([AtRest("finish") EXCEPT !.job = activity.job, !.goal = goal, !.settles = TRUE])
    BY <1>6 DEF FinishRecording
  <2>3. /\ [AtRest("finish") EXCEPT !.job = activity.job, !.goal = goal, !.settles = TRUE].at = "finish"
        /\ [AtRest("finish") EXCEPT !.job = activity.job, !.goal = goal, !.settles = TRUE].job = activity.job
    BY DEF AtRest
  <2>4. Label' = "finish" /\ Job("daemon")' = activity.job
    BY <2>2, <2>3, NewFrame, Zenon
  <2>5. ASSUME NEW j \in Jobs, InFlight(jobs'[j]) PROVE Owned(j)'
    <3>1. ActiveRecording(j) \/ (jobs[j].stage = "transcribing" /\ tickets[j] = 1)
      BY <2>1, <2>5 DEF FlightsAreOwned, Owned, MovingLabels, StartLabels, StoreLabels
    <3>2. QED
      BY <2>1, <2>4, <3>1 DEF Owned, ActiveRecording, MovingLabels
  <2>6. QED
    BY <2>4, <2>5 DEF FlightsAreOwned
<1>7. CASE RecorderFinish
  <2>1. Within
    BY <1>7, RecordingWithin DEF RecorderFinish, CheckpointRecording, BeginTranscription,
       StartRecording, FinishRecording, At, Unlocked
  <2>2. \/ Label' = "capture"
        \/ Label' = "interrupt_recording" /\ failures' > 0
    BY <1>7, <1>go, <1>grow DEF RecorderFinish, Fault, EndLabels
  <2>3. QED
    BY <2>1, <2>2, FlightsWithin DEF MovingLabels, HurtLabels
<1>8. CASE CaptureRecording
  <2>1. Within
    BY <1>8, RecordingWithin DEF CaptureRecording, CheckpointRecording, BeginTranscription,
       StartRecording, FinishRecording, At, Unlocked
  <2>2. Job("daemon") \in Jobs /\ Row \in Rows
    BY <1>8, <1>sets, KnownRow DEF CaptureRecording, At, Label, EndLabels
  <2>3. CASE Go("daemon", "interrupt_recording") /\ failures' = failures + 1
    BY <1>go, <1>grow, <2>1, <2>3, FlightsWithin DEF MovingLabels, EndLabels
  <2>4. ASSUME NEW long \in BOOLEAN, Put(Job("daemon"), Captured(Row, long)),
               NEW label \in {"begin", "discard", "interrupt_captured"}, Go("daemon", label)
        PROVE  FlightsAreOwned'
    <3>1. Row' = Captured(Row, long)
      BY <2>1, <2>2, <2>4 DEF Within, Put, Row, Inductive, TypeOK
    <3>2. ~InFlight(Row') /\ Label' = label
      BY <1>go, <2>2, <2>4, <3>1, StatementsLand DEF EndLabels
    <3>3. QED
      BY <2>1, <3>2, FlightsWithin DEF HurtLabels
  <2>5. QED
    BY <1>8, <2>3, <2>4 DEF CaptureRecording, UnreadStatement, Statement, Fault
<1>9. CASE BeginTranscription
  <2>1. Label = "begin" /\ frame["daemon"].settles /\ Label \in JobLabels
    BY <1>9, <1>sets DEF BeginTranscription, At, Label, EndLabels, Inductive, RowOfRecording
  <2>2. CASE ~Within
    <3>1. Hands("begin", "processing", TRUE, 1)
      BY <1>9, <2>2, RecordingWithin DEF CheckpointRecording, BeginTranscription,
         StartRecording, FinishRecording, At, Unlocked
    <3>2. Job("daemon") \in Jobs /\ Row \in Rows
      BY <2>1, KnownRow
    <3>3. jobs' = [jobs EXCEPT ![Job("daemon")] = UpdateStage(Row, "transcribing")] \/ UNCHANGED jobs
      BY <1>9 DEF BeginTranscription, UnreadStatement, Put, Row
    <3>4. ~InFlight(Row)
      BY <2>1, RowRests, MovingKinds
    <3>5. InFlight(jobs'[Job("daemon")]) => jobs'[Job("daemon")].stage = "transcribing"
      <4>1. InFlight(UpdateStage(Row, "transcribing")) => UpdateStage(Row, "transcribing").stage = "transcribing"
        BY <3>2, <3>4 DEF UpdateStage, Updated, Rows, InFlight, IsRow
      <4>2. QED
        BY <3>2, <3>3, <3>4, <4>1 DEF Row, Inductive, TypeOK
    <3>6. QED
      BY <2>1, <3>1, <3>5, FlightsHanded
  <2>3. CASE Within
    <3>1. ~Command(AtRest("idle"))
      BY <2>3, NewFrame, RestIsBlank, MovingKinds DEF Within
    <3>2. UNCHANGED jobs
      BY <1>9, <3>1 DEF BeginTranscription, UnreadStatement, Fault
    <3>3. QED
      BY <1>row, <2>1, <2>3, <3>2, RestsWithin, MovingKinds
  <2>4. QED
    BY <2>2, <2>3
<1>10. CASE DiscardRecording
  <2>1. Within
    BY <1>10, RecordingWithin DEF DiscardRecording, CheckpointRecording, BeginTranscription,
       StartRecording, FinishRecording, At, Unlocked
  <2>2. Label = "discard" /\ Job("daemon") \in Jobs /\ Row \in Rows
    BY <1>10, <1>sets, KnownRow DEF DiscardRecording, At, Label, EndLabels
  <2>3. UNCHANGED jobs \/ \E row \in {NoRow, UpdateStage(Row, "cancelled")} : Put(Job("daemon"), row)
    BY <1>10 DEF DiscardRecording, Statement
  <2>4. Row' = Row \/ Row' \in {NoRow, UpdateStage(Row, "cancelled")}
    BY <1>row, <2>1, <2>2, <2>3 DEF Within, Put, Row, Inductive, TypeOK
  <2>5. InFlight(Row') => InFlight(Row)
    BY <2>2, <2>4, StatementsLand
  <2>6. QED
    BY <2>1, <2>2, <2>5, RestsWithin, MovingKinds
<1>11. QED
  BY <1>1, <1>2, <1>3, <1>4, <1>5, <1>6, <1>7, <1>8, <1>9, <1>10 DEF RecordingSteps

(* those of a result, *)
LEMMA FlightsInResult ==
  ASSUME "read" \notin Failing, Inductive, CommandKnows, TicketIsOwed, BoundIsSafe,
         FlightsAreOwned, failures' <= 1, ResultSteps
  PROVE  FlightsAreOwned'
<1>sets. StoreLabels \cup ReadyLabels \cup {"fail_job", "cleanup_audio"} \subseteq JobLabels
  BY DEF JobLabels, OtherLabels
<1>grow. failures \in Nat /\ failures' \in Nat /\ failures' >= failures
  BY FailuresGrow DEF Next
<1>1. ASSUME NEW j \in Jobs, TranscriptionDone(j) PROVE FlightsAreOwned'
  <2>1. Label = "idle" /\ ~frame["daemon"].settles /\ UNCHANGED <<jobs, activity>>
        /\ tickets[j] > 0 /\ tickets' = [tickets EXCEPT ![j] = @ - 1]
    BY <1>1, Free DEF TranscriptionDone, stored
  <2>2. PICK label \in {"settle", "store_raw", "store_failed", "store_silent"} :
          Resume(j, label) /\ (label = "settle" => jobs[j].stage # "transcribing")
    BY <1>1 DEF TranscriptionDone, Fault
  <2>3. Label' = label /\ Job("daemon")' = j /\ (frame'["daemon"].settles => IsCurrent(j))
    <3> DEFINE new == [AtRest(label) EXCEPT !.job = j, !.settles = IsCurrent(j),
                                            !.pastes = IsCurrent(j) /\ activity.pastes]
    <3>1. Command(new)
      BY <2>2 DEF Resume
    <3>2. new.at = label /\ new.job = j /\ new.settles = IsCurrent(j)
      BY DEF AtRest
    <3>3. QED
      BY <3>1, <3>2, NewFrame, Zenon
  <2>4. ASSUME NEW i \in Jobs, InFlight(jobs'[i]) PROVE Owned(i)'
    <3>1. ActiveRecording(i) \/ (jobs[i].stage = "transcribing" /\ tickets[i] = 1)
      BY <2>1, <2>4 DEF FlightsAreOwned, Owned, MovingLabels, StartLabels, StoreLabels
    <3>2. CASE ActiveRecording(i)
      <4>1. ~frame'["daemon"].settles
        BY <2>3, <3>2 DEF ActiveRecording, IsCurrent
      <4>2. QED
        BY <2>1, <3>2, <4>1 DEF Owned, ActiveRecording
    <3>3. CASE jobs[i].stage = "transcribing" /\ tickets[i] = 1 /\ i = j
      BY <2>2, <2>3, <3>3 DEF Owned, MovingLabels, StoreLabels
    <3>4. CASE jobs[i].stage = "transcribing" /\ tickets[i] = 1 /\ i # j
      <4>1. tickets'[i] = 1
        BY <2>1, <3>4 DEF Inductive, TypeOK
      <4>2. QED
        BY <2>1, <3>4, <4>1 DEF Owned
    <3>5. QED
      BY <3>1, <3>2, <3>3, <3>4
  <2>5. QED
    BY <2>2, <2>3, <2>4 DEF FlightsAreOwned
<1>2. CASE StoreRawText \/ StoreReadyText \/ StoreSilent \/ StoreFailed
  <2>1. Within
    BY <1>2, ResultWithin DEF StoreRawText, StoreReadyText, StoreSilent, StoreFailed, RowStep,
       TranscriptionDone, At, Unlocked
  <2>2. Label \in StoreLabels
    BY <1>2 DEF StoreRawText, StoreReadyText, StoreSilent, StoreFailed, RowStep, At, Label, StoreLabels
  <2>3. Row \in Rows /\ ~Making(Row)
    BY <1>sets, <2>2, KnownRow DEF Knows, Making, IsRow
  <2>4. PICK row \in {StoreRaw(Row), StoreReady(Row), NoRow, UpdateStage(Row, "failed")},
             next \in {"store_ready", "read_ready", "cleanup_audio", "settle"} :
          /\ RowStep(Label, row, next, "fail_job")
          /\ (row = StoreRaw(Row) /\ next = "store_ready") \/ ~InFlight(row)
    BY <1>2, <2>3, StatementsLand
    DEF StoreRawText, StoreReadyText, StoreSilent, StoreFailed, RowStep, At, Label
  <2>5. /\ next \in JobLabels \cup {"settle"} /\ next \notin HurtLabels \cup {"fail_job"}
        /\ "store_ready" \in MovingLabels
    BY <1>sets DEF StoreLabels, ReadyLabels, HurtLabels, MovingLabels
  <2>6. Label \in JobLabels /\ (InFlight(row) => next \in MovingLabels)
    BY <1>sets, <2>2, <2>4, <2>5
  <2>7. QED
    BY <2>1, <2>3, <2>4, <2>5, <2>6, FlightsInRowStep
<1>3. CASE FailStep
  <2>1. Within /\ Label = "fail_job" /\ RowStep("fail_job", FailJob(Row), "settle", "settle")
    BY <1>3, ResultWithin DEF FailStep, RowStep, TranscriptionDone, At, Label, Unlocked
  <2>2. Row \in Rows /\ ~Making(Row) /\ (InFlight(Row) => failures > 0)
    BY <1>sets, <2>1, KnownRow DEF FlightsAreOwned
  <2>3. ~InFlight(FailJob(Row)) /\ "settle" \notin HurtLabels /\ "fail_job" \in JobLabels
    BY <1>sets, <2>2, StatementsLand DEF HurtLabels
  <2>4. QED
    BY <2>1, <2>2, <2>3, FlightsInRowStep
<1>4. CASE ReadReady
  <2>1. Within /\ Label = "read_ready" /\ UNCHANGED jobs
    BY <1>4, ResultWithin DEF ReadReady, ReadBack, TranscriptionDone, At, Label, Unlocked, allButFrame, stored
  <2>2. Row' = Row /\ Label \notin MovingLabels
    BY <2>1, MovingKinds DEF Within, Row, ReadyLabels
  <2>3. QED
    BY <2>1, <2>2, RestsWithin
<1>5. QED
  BY <1>1, <1>2, <1>3, <1>4 DEF ResultSteps

(* those of a delivery, whose row is at rest, *)
LEMMA FlightsInDelivery ==
  ASSUME Inductive, TicketIsOwed, BoundIsSafe, FlightsAreOwned, DeliverySteps
  PROVE  FlightsAreOwned'
<1>grow. failures \in Nat /\ failures' \in Nat /\ failures' >= failures
  BY FailuresGrow DEF Next
<1>1. CASE Settle
  <2>1. Label = "settle" /\ Label' = "idle" /\ ~frame'["daemon"].settles /\ UNCHANGED <<jobs, tickets>>
    BY <1>1, NewFrame, RestIsBlank DEF Settle, At, Label, stored
  <2>2. activity' = IF frame["daemon"].settles THEN NoActivity ELSE activity
    BY <1>1 DEF Settle
  <2>3. \A j \in Jobs : ActiveRecording(j) => ActiveRecording(j)'
    BY <2>1, <2>2 DEF ActiveRecording
  <2>4. Label \notin MovingLabels /\ Label' \notin HurtLabels \cup {"fail_job"}
    BY <2>1 DEF MovingLabels, HurtLabels, StartLabels, StoreLabels
  <2>5. QED
    BY <1>grow, <2>1, <2>3, <2>4, FlightsStay
<1>2. CASE DeliverySteps /\ ~Settle
  <2>1. Within
    BY <1>2, DeliveryWithin
  <2>2. Label \in ReadyLabels \cup {"read_result", "complete", "cleanup_audio"}
    BY <1>2 DEF DeliverySteps, Gate, GateRefused, Attempt, Deliver, RecordSubmitted,
       RecordAmbiguous, RecordNotSent, ReadResult, ReadBack, Complete, CleanupAudio, RowStep, At,
       Label, ReadyLabels
  <2>3. Label \notin MovingLabels /\ Job("daemon") \in Jobs /\ Row \in Rows
    BY <2>1, <2>2, MovingKinds, KnownRow DEF Within
  <2>4. \/ UNCHANGED jobs
        \/ \E row \in {GateBlocked(Row), Attempting(Row), Submitted(Row), Ambiguous(Row), NotSent(Row),
                       NoRow} : Put(Job("daemon"), row)
    BY <1>2 DEF DeliverySteps, Gate, GateRefused, Attempt, Deliver, RecordSubmitted,
       RecordAmbiguous, RecordNotSent, ReadResult, Complete, CompleteDelivered, CleanupAudio,
       RowStep, Statement, allButFrame, allButAudio, stored
  <2>5. Row' \in {Row, GateBlocked(Row), Attempting(Row), Submitted(Row), Ambiguous(Row), NotSent(Row),
                  NoRow}
    BY <2>1, <2>3, <2>4 DEF Within, Put, Row, Inductive, TypeOK
  <2>6. InFlight(Row') => InFlight(Row)
    BY <2>3, <2>5, StatementsLand
  <2>7. QED
    BY <2>1, <2>3, <2>6, RestsWithin
<1>3. QED
  BY <1>1, <1>2

(* those of the Recovery commands, *)
LEMMA FlightsInRecovery ==
  ASSUME "read" \notin Failing, Inductive, CommandKnows, TicketIsOwed, BoundIsSafe,
         RecorderIsKnown, FlightsAreOwned, RecoverySteps
  PROVE  FlightsAreOwned'
<1>grow. failures \in Nat /\ failures' \in Nat /\ failures' >= failures
  BY FailuresGrow DEF Next
<1>1. ASSUME NEW j \in Jobs, RetryTranscriptionOf(j) \/ PasteAgain(j) \/ DeleteRecovery(j)
      PROVE  FlightsAreOwned'
  <2>1. Label = "idle" /\ UNCHANGED <<jobs, tickets, activity>>
    BY <1>1, Free DEF RetryTranscriptionOf, PasteAgain, DeleteRecovery, allButFrame, stored
  <2>2. Label' \in {"retry_update", "again_update", "delete_move"} /\ ~frame'["daemon"].settles
    <3>1. DeleteRecovery(j) => Label' = "delete_move" /\ ~frame'["daemon"].settles
      <4> DEFINE new == [AtRest("delete_move") EXCEPT !.victim = j, !.goal = "user"]
      <4>1. new.at = "delete_move" /\ new.settles = AtRest("delete_move").settles
        BY DEF AtRest
      <4>2. ~AtRest("delete_move").settles
        BY DEF AtRest
      <4>3. DeleteRecovery(j) => Command(new)
        BY DEF DeleteRecovery
      <4>4. QED
        BY <4>1, <4>2, <4>3, NewFrame, Zenon
    <3>2. RetryTranscriptionOf(j) => Label' = "retry_update" /\ ~frame'["daemon"].settles
      BY NewFrame DEF RetryTranscriptionOf, AtRest
    <3>3. PasteAgain(j) => Label' = "again_update" /\ ~frame'["daemon"].settles
      BY NewFrame DEF PasteAgain, AtRest
    <3>4. QED
      BY <1>1, <3>1, <3>2, <3>3
  <2>3. \A i \in Jobs : ActiveRecording(i) => ActiveRecording(i)'
    BY <2>1, <2>2 DEF ActiveRecording
  <2>4. Label \notin MovingLabels /\ Label' \notin HurtLabels \cup {"fail_job"}
    BY <2>1, <2>2 DEF MovingLabels, HurtLabels, StartLabels, StoreLabels
  <2>5. QED
    BY <1>grow, <2>1, <2>3, <2>4, FlightsStay
<1>2. CASE CancelProcessing
  <2>1. /\ UNCHANGED <<jobs, tickets, frame>> /\ activity.kind = "processing"
    BY <1>2 DEF CancelProcessing, stored
  <2>2. Label' = Label /\ Job("daemon")' = Job("daemon") /\ \A j \in Jobs : ~ActiveRecording(j)
    BY <2>1 DEF Label, Job, ActiveRecording
  <2>3. QED
    BY <1>grow, <2>1, <2>2, FlightsStay
<1>3. CASE RetryRead
  <2>1. Label = "retry_read" /\ Label \in JobLabels /\ activity.kind # "recording" /\ UNCHANGED jobs
    BY <1>3 DEF RetryRead, At, Label, RecorderIsKnown, RetryLabels, JobLabels, stored
  <2>2. IsRow(Row) => Row.stage = "transcribing"
    BY <2>1 DEF CommandKnows, KnowsAlso
  <2>3. CASE ~Within
    <3>1. Hands("retry_read", "processing", FALSE, 1) /\ "retry_read" \in JobLabels
      BY <1>3, <2>1, <2>3, RecoveryWithin DEF RetryRead, RetryTranscriptionOf, PasteAgain,
         DeleteRecovery, CancelProcessing, At, Unlocked
    <3>2. QED
      BY <2>1, <2>2, <3>1, FlightsHanded DEF Row, InFlight, IsRow
  <2>4. CASE Within
    <3>1. ~Command(AtRest("idle"))
      BY <2>4, NewFrame, RestIsBlank, MovingKinds DEF Within
    <3>2. ~IsRow(Row) /\ Go("daemon", "panicked")
      BY <1>3, <3>1 DEF RetryRead, Row, Fault
    <3>3. Label' = "panicked"
      BY <3>2, GoesOn DEF Inductive, TypeOK, Labels, DaemonLabels
    <3>4. ~InFlight(Row')
      BY <2>1, <2>4, <3>2 DEF Within, Row, IsRow, InFlight
    <3>5. QED
      BY <2>4, <3>3, <3>4, FlightsWithin DEF HurtLabels
  <2>5. QED
    BY <2>3, <2>4
<1>4. CASE RetryUpdate \/ AgainUpdate \/ AgainRead
  <2>1. Within
    BY <1>4, RecoveryWithin DEF RetryUpdate, AgainUpdate, AgainRead, ReadBack, RetryRead,
       RetryTranscriptionOf, PasteAgain, DeleteRecovery, CancelProcessing, RowStep, At, Unlocked
  <2>2. /\ Label \in {"retry_update"} \cup AgainLabels
        /\ Label \notin MovingLabels
    BY <1>4, MovingKinds DEF RetryUpdate, AgainUpdate, AgainRead, ReadBack, RowStep, At, Label, AgainLabels
  <2>3. Job("daemon") \in Jobs /\ Row \in Rows
    BY <2>1, KnownRow DEF Within
  <2>4. CASE UNCHANGED jobs
    <3>1. Row' = Row
      BY <2>1, <2>4 DEF Within, Row
    <3>2. QED
      BY <2>1, <2>2, <3>1, RestsWithin
  <2>5. CASE AgainUpdate /\ Put(Job("daemon"), RetryDelivery(Row))
    <3>1. Row' = RetryDelivery(Row)
      BY <2>1, <2>3, <2>5 DEF Within, Put, Row, Inductive, TypeOK
    <3>2. QED
      BY <2>1, <2>2, <2>3, <3>1, RestsWithin, StatementsLand
  <2>6. CASE RetryUpdate /\ Go("daemon", "retry_read")
    <3>1. Label' = "retry_read"
      BY <2>6, GoesOn DEF Inductive, TypeOK, Labels, DaemonLabels
    <3>2. QED
      BY <2>1, <2>2, <3>1, RestsWithin DEF MovingLabels
  <2>7. QED
    BY <1>4, <2>4, <2>5, <2>6 DEF RetryUpdate, AgainUpdate, AgainRead, RowStep, Statement, allButFrame, stored
<1>5. QED
  BY <1>1, <1>2, <1>3, <1>4 DEF RecoverySteps

(* and so does every step, as long as one step at most has failed. *)
LEMMA FlightsStep ==
  ASSUME "read" \notin Failing, Inductive, CommandKnows, TicketIsOwed, BoundIsSafe,
         RecorderIsKnown, FlightsAreOwned, failures' <= 1, Next
  PROVE  FlightsAreOwned'
<1>grow. failures \in Nat /\ failures' \in Nat /\ failures' >= failures
  BY FailuresGrow
<1>gone. ASSUME NEW j \in Jobs, jobs'[j] = jobs[j] \/ jobs'[j] = NoRow
         PROVE  jobs'[j].stage = jobs[j].stage \/ ~InFlight(jobs'[j])
  BY <1>gone DEF NoRow, InFlight
<1>1. CASE StartSteps
  <2>1. Label \in OpeningLabels /\ activity = NoActivity
    BY <1>1 DEF StartSteps, Boot, OpenAmbiguous, OpenInterrupted, ReconcileRecoveryDeletion, Serve,
       At, Label, OpeningLabels, Inductive, CommandHasJob
  <2>2. \A label \in OpeningLabels : Go("daemon", label) => Label' = label
    BY GoesOn DEF Inductive, TypeOK, OpeningLabels, Labels, DaemonLabels
  <2>3. CASE Boot \/ OpenAmbiguous
    <3>1. Label' \in {"open_ambiguous", "open_interrupted"}
      BY <2>2, <2>3 DEF Boot, OpenAmbiguous, OpeningLabels
    <3>2. QED
      BY <3>1 DEF FlightsAreOwned
  <2>4. CASE OpenInterrupted
    <3>1. Label' = "open_deletions"
      BY <2>2, <2>4 DEF OpenInterrupted, OpeningLabels
    <3>2. \A j \in Jobs : ~InFlight(jobs'[j])
      BY <2>4, StatementsLand DEF OpenInterrupted, Inductive, TypeOK
    <3>3. QED
      BY <3>1, <3>2 DEF FlightsAreOwned
  <2>5. CASE Serve \/ \E j \in Jobs : ReconcileRecoveryDeletion(j)
    <3>1. Label = "open_deletions" /\ UNCHANGED jobs
      BY <2>5 DEF Serve, ReconcileRecoveryDeletion, At, Label, allButFrame, allButAudio, stored
    <3>2. ASSUME NEW j \in Jobs PROVE ~InFlight(jobs[j])
      <4>1. tickets[j] = 0 /\ ~ActiveRecording(j)
        BY <2>1, <3>1 DEF TicketIsOwed, OpeningLabels, ActiveRecording, NoActivity
      <4>2. QED
        BY <3>1, <4>1 DEF FlightsAreOwned, Owned, MovingLabels, StartLabels, StoreLabels
    <3>3. Label' \in {"open_deletions", "down", "idle"}
      <4>1. Serve => Label' = "idle"
        BY RestIsBlank DEF Serve, Label, Inductive, TypeOK, Threads
      <4>2. UNCHANGED frame => Label' = Label
        BY DEF Label
      <4>3. QED
        BY <2>2, <2>5, <3>1, <4>1, <4>2 DEF ReconcileRecoveryDeletion, OpeningLabels
    <3>4. QED
      BY <3>1, <3>2, <3>3 DEF FlightsAreOwned
  <2>6. QED
    BY <1>1, <2>3, <2>4, <2>5 DEF StartSteps
<1>2. CASE EndSteps
  <2>1. ProcessEnds
    BY <1>2 DEF EndSteps, Crash, PanicExit, Quit
  <2>2. Label' = "down"
    BY <2>1, RestIsBlank DEF ProcessEnds, Label, Threads
  <2>3. QED
    BY <2>2 DEF FlightsAreOwned
<1>3. CASE MaintenanceSteps \/ RetentionSteps("maintenance")
  <2>1. /\ frame'["daemon"] = frame["daemon"] /\ UNCHANGED <<activity, tickets>>
        /\ \A j \in Jobs : jobs'[j] = jobs[j] \/ jobs'[j] = NoRow
    BY <1>3, MaintenanceTakes
  <2>2. Label' = Label /\ Job("daemon")' = Job("daemon")
    BY <2>1 DEF Label, Job
  <2>3. \A j \in Jobs : ActiveRecording(j) => ActiveRecording(j)'
    BY <2>1 DEF ActiveRecording
  <2>4. QED
    BY <1>gone, <1>grow, <2>1, <2>2, <2>3, FlightsStay
<1>4. CASE RetentionSteps("daemon")
  <2>1. /\ UNCHANGED <<activity, tickets>>
        /\ frame'["daemon"].settles = frame["daemon"].settles
        /\ Label \in SharedLabels /\ Label' \in SharedLabels \cup {"cleanup_audio", "settle"}
        /\ \A j \in Jobs : jobs'[j] = jobs[j] \/ jobs'[j] = NoRow
    BY <1>4, RetentionTakes, RetentionMoves
  <2>2. \A j \in Jobs : ActiveRecording(j) => ActiveRecording(j)'
    BY <2>1 DEF ActiveRecording
  <2>3. Label \notin MovingLabels /\ Label' \notin HurtLabels \cup {"fail_job"}
        /\ Label \notin {"down", "open_ambiguous", "open_interrupted"}
    BY <2>1 DEF SharedLabels, MovingLabels, HurtLabels, StartLabels, StoreLabels
  <2>4. QED
    BY <1>gone, <1>grow, <2>1, <2>2, <2>3, FlightsStay
<1>5. CASE ToggleKeepAudio \/ \E j \in Jobs : Outlive(j)
  <2>1. UNCHANGED <<frame, activity, tickets>>
    BY <1>5 DEF ToggleKeepAudio, Outlive
  <2>2. \A j \in Jobs : jobs'[j].stage = jobs[j].stage
    <3>1. UNCHANGED jobs \/ \E j \in Jobs : jobs' = [jobs EXCEPT ![j] = [jobs[j] EXCEPT !.expired = TRUE]]
      BY <1>5 DEF ToggleKeepAudio, Outlive, Put, stored
    <3>2. QED
      BY <3>1 DEF Inductive, TypeOK, Rows
  <2>3. Label' = Label /\ Job("daemon")' = Job("daemon")
    BY <2>1 DEF Label, Job
  <2>4. \A j \in Jobs : ActiveRecording(j) => ActiveRecording(j)'
    BY <2>1 DEF ActiveRecording
  <2>5. QED
    BY <1>grow, <2>1, <2>2, <2>3, <2>4, FlightsStay
<1>6. QED
  BY <1>1, <1>2, <1>3, <1>4, <1>5, FlightsInRecording, FlightsInResult, FlightsInDelivery,
     FlightsInRecovery DEF Next, Threads

(* Nothing is under way before the first start. *)
LEMMA InitOwned == Init => RecorderIsKnown /\ RecordingIsThere /\ FlightsAreOwned /\ failures = 0
<1> SUFFICES ASSUME Init PROVE RecorderIsKnown /\ RecordingIsThere /\ FlightsAreOwned /\ failures = 0
  OBVIOUS
<1>1. Label = "down" /\ activity.kind = "idle" /\ recorder = NoJob /\ failures = 0
  BY RestIsBlank DEF Init, Label, Threads, NoActivity
<1>2. QED
  BY <1>1 DEF RecorderIsKnown, RecordingIsThere, FlightsAreOwned, MicLabels, StartLabels, RetryLabels

(* Whatever fails but a read that follows a write: pw-record runs for what the daemon knows it
   records, and writes to where Recovery looks for it; and while one step at most has failed, a
   crash included, every row in flight has an owner. *)
THEOREM OwnersInvariance ==
  ASSUME "read" \notin Failing
  PROVE  Spec => [](RecorderIsKnown /\ RecordingIsThere /\ (failures <= 1 => FlightsAreOwned))
<1> DEFINE Owners == RecorderIsKnown /\ RecordingIsThere /\ (failures <= 1 => FlightsAreOwned)
<1>1. Init => Owners
  BY InitOwned
<1>2. ASSUME Inductive, Lived, Owners, [Next]_vars PROVE Owners'
  <2>1. CASE Next
    <3>1. RecorderIsKnown' /\ RecordingIsThere'
      BY <1>2, <2>1, RecorderStep, RecordingStep DEF Lived
    <3>2. failures' <= 1 => FlightsAreOwned'
      BY <1>2, <2>1, FailuresGrow, FlightsStep DEF Lived
    <3>3. QED
      BY <3>1, <3>2
  <2>2. CASE UNCHANGED vars
    <3>1. Label' = Label /\ Job("daemon")' = Job("daemon") /\ Row' = Row
      BY <2>2 DEF vars, Label, Job, Row
    <3>2. RecorderIsKnown' /\ RecordingIsThere'
      BY <1>2, <2>2, <3>1 DEF vars, RecorderIsKnown, RecordingIsThere
    <3>3. FlightsAreOwned => FlightsAreOwned'
      BY <2>2, <3>1 DEF vars, FlightsAreOwned, Owned, ActiveRecording
    <3>4. QED
      BY <1>2, <2>2, <3>2, <3>3 DEF vars
  <2>3. QED
    BY <1>2, <2>1, <2>2
<1>3. QED
  BY <1>1, <1>2, Invariance, LivedInvariance, PTL DEF Spec

(* The microphone is on exactly while the daemon knows it is recording, into a row and a file
   of that recording: whichever writes, file operations and recorders fail, and however often the process dies. *)
THEOREM MatchesTheRecorder ==
  ASSUME "read" \notin Failing
  PROVE  Spec => []RecorderMatchesActivity
<1>1. Inductive /\ Lived /\ RecorderIsKnown /\ RecordingIsThere => RecorderMatchesActivity
  <2> SUFFICES ASSUME Inductive, Lived, RecorderIsKnown, RecordingIsThere, Unlocked
               PROVE  /\ recorder = IF activity.kind = "recording" THEN activity.job ELSE NoJob
                      /\ activity.kind = "recording" =>
                           jobs[activity.job].stage = "recording" /\ audio[activity.job] = "present"
    BY DEF RecorderMatchesActivity
  <2>1. Label = "idle" /\ ~frame["daemon"].settles
    BY Free
  <2>2. recorder = IF activity.kind = "recording" THEN activity.job ELSE NoJob
    BY <2>1 DEF RecorderIsKnown, MicLabels
  <2>3. ASSUME activity.kind = "recording"
        PROVE  jobs[activity.job].stage = "recording" /\ audio[activity.job] = "present"
    <3>1. activity.job \in Jobs /\ activity.job # NoJob
      BY <2>3, NoJobAssumption DEF Inductive, CommandHasJob, TypeOK
    <3>2. ActiveRecording(activity.job) /\ Bound(activity.job)
      BY <2>1, <2>3 DEF ActiveRecording, Bound
    <3>3. IsRow(jobs[activity.job])
      BY <3>1, <3>2 DEF Lived, BoundIsSafe
    <3>4. QED
      BY <2>2, <2>3, <3>1, <3>2, <3>3 DEF Inductive, RowOfRecording, RecordingRow, RecordingIsThere
  <2>4. QED
    BY <2>2, <2>3
<1>2. QED
  BY <1>1, Invariance, LivedInvariance, OwnersInvariance, PTL

(* WorkIsOwned, up to the first failed step or crash and past it, for any number of dictations:
   the steps after a failure leave no row in flight that nobody will move on. *)
THEOREM OwnsItsWork ==
  ASSUME "read" \notin Failing, MaxFailures <= 1
  PROVE  Spec => []WorkIsOwned
<1> DEFINE Counted == failures <= MaxFailures
<1>1. Init => Counted
  BY InitOwned, MaxFailuresAssumption
<1>2. Inductive /\ Counted /\ [Next]_vars => Counted'
  BY FailuresGrow, MaxFailuresAssumption DEF vars
<1>3. /\ Inductive /\ Lived /\ RecorderMatchesActivity /\ Counted
      /\ failures <= 1 => FlightsAreOwned
      => WorkIsOwned
  <2> SUFFICES ASSUME Inductive, Lived, FlightsAreOwned, Unlocked, NEW j \in Jobs, InFlight(jobs[j])
               PROVE  \/ jobs[j].stage = "recording" /\ activity.kind = "recording" /\ activity.job = j
                      \/ jobs[j].stage = "transcribing" /\ tickets[j] = 1
    BY MaxFailuresAssumption DEF WorkIsOwned, InFlightIsOwned, Inductive, TypeOK
  <2>1. Label = "idle"
    BY Free
  <2>2. ActiveRecording(j) \/ (jobs[j].stage = "transcribing" /\ tickets[j] = 1)
    BY <2>1 DEF FlightsAreOwned, Owned, MovingLabels, StartLabels, StoreLabels
  <2>3. ActiveRecording(j) => jobs[j].stage = "recording"
    BY DEF Inductive, RowOfRecording, RecordingRow, InFlight, IsRow
  <2>4. QED
    BY <2>2, <2>3 DEF ActiveRecording
<1>4. Spec => []Counted
  BY <1>1, <1>2, Invariance, PTL DEF Spec
<1>5. Spec => [](RecorderIsKnown /\ RecordingIsThere /\ (failures <= 1 => FlightsAreOwned))
  BY OwnersInvariance
<1>6. Spec => []RecorderMatchesActivity
  BY MatchesTheRecorder
<1>7. QED
  BY <1>3, <1>4, <1>5, <1>6, Invariance, LivedInvariance, PTL

--------------------------------------------------------------------------------
(* Store implements Dictation *)

(* The life of a row that is there and not counted. *)
RowLife(row) ==
  IF Making(row) THEN "speaking"
  ELSE IF row.stage = "transcribing" THEN "asked"
  ELSE IF row.stage = "delivered" THEN "sent"
  ELSE IF row.stage \in {"no_speech", "deleted"} THEN "over"
  ELSE IF row.delivery = "attempting" THEN "sending"
  ELSE IF row.delivery = "ambiguous" THEN "doubtful"
  ELSE "kept"

(* LifeOf is read off the count, the birth and the row, *)
LEMMA Lives ==
  ASSUME NEW j \in Jobs, recorded[j] \in Nat, jobs[j] \in Rows
  PROVE  /\ recorded[j] > 0 => LifeOf(j) = "over"
         /\ recorded[j] = 0 /\ ~IsRow(jobs[j]) => LifeOf(j) = (IF j \in born THEN "over" ELSE "none")
         /\ recorded[j] = 0 /\ IsRow(jobs[j]) => LifeOf(j) = RowLife(jobs[j])
<1> USE DEF LifeOf, IsRow, InRecovery, Rows
<1>1. recorded[j] > 0 => LifeOf(j) = "over"
  OBVIOUS
<1>2. recorded[j] = 0 /\ ~IsRow(jobs[j]) => LifeOf(j) = (IF j \in born THEN "over" ELSE "none")
  OBVIOUS
<1>3. recorded[j] = 0 /\ IsRow(jobs[j]) => LifeOf(j) = RowLife(jobs[j])
  BY DEF RowLife, Making, Stages, Deliveries
<1>4. QED
  BY <1>1, <1>2, <1>3

(* also in the next state. *)
LEMMA LivesOn ==
  ASSUME NEW j \in Jobs, recorded'[j] \in Nat, jobs'[j] \in Rows
  PROVE  /\ recorded'[j] > 0 => LifeOf(j)' = "over"
         /\ recorded'[j] = 0 /\ ~IsRow(jobs'[j]) => LifeOf(j)' = (IF j \in born' THEN "over" ELSE "none")
         /\ recorded'[j] = 0 /\ IsRow(jobs'[j]) => LifeOf(j)' = RowLife(jobs'[j])
<1> USE DEF LifeOf, IsRow, InRecovery, Rows
<1>1. recorded'[j] > 0 => LifeOf(j)' = "over"
  OBVIOUS
<1>2. recorded'[j] = 0 /\ ~IsRow(jobs'[j]) => LifeOf(j)' = (IF j \in born' THEN "over" ELSE "none")
  OBVIOUS
<1>3. recorded'[j] = 0 /\ IsRow(jobs'[j]) => LifeOf(j)' = RowLife(jobs'[j])
  BY DEF RowLife, Making, Stages, Deliveries
<1>4. QED
  BY <1>1, <1>2, <1>3

(* A step that moves one dictation. *)
Alone(i) ==
  /\ i \in Jobs
  /\ \A j \in Jobs \ {i} : /\ jobs'[j] = jobs[j] /\ recorded'[j] = recorded[j]
                           /\ j \in born' <=> j \in born

(* A step on one dictation leaves the lives of the others, *)
LEMMA AloneLives ==
  ASSUME NEW i, Alone(i)
  PROVE  \A j \in Jobs \ {i} : LifeOf(j)' = LifeOf(j) /\ (jobs'[j].raw <=> jobs[j].raw)
<1>1. TAKE j \in Jobs \ {i}
<1>2. jobs'[j] = jobs[j] /\ recorded'[j] = recorded[j] /\ (j \in born' <=> j \in born)
  BY DEF Alone
<1>3. QED
  BY <1>2 DEF LifeOf

(* turns the life of that one, *)
LEMMA TurnsOne ==
  ASSUME NEW i, Alone(i), NEW from, NEW to, LifeOf(i) \in from, LifeOf(i)' = to,
         to # "over" => (jobs'[i].raw <=> jobs[i].raw /\ LifeOf(i) # "over")
  PROVE  Promise!Turns(i, from, to)
<1>1. \A j \in Jobs \ {i} : LifeOf(j)' = LifeOf(j) /\ (jobs'[j].raw <=> jobs[j].raw)
  BY AloneLives
<1>2. i \in Jobs
  BY DEF Alone
<1>3. [j \in Jobs |-> LifeOf(j)][i] \in from
  BY <1>2
<1>4. [j \in Jobs |-> LifeOf(j)]' = [[j \in Jobs |-> LifeOf(j)] EXCEPT ![i] = to]
  BY <1>1, <1>2
<1>5. {j \in Jobs : jobs[j].raw /\ LifeOf(j) # "over"}'
        = IF to = "over" THEN {j \in Jobs : jobs[j].raw /\ LifeOf(j) # "over"} \ {i}
          ELSE {j \in Jobs : jobs[j].raw /\ LifeOf(j) # "over"}
  BY <1>1, <1>2
<1>6. QED
  BY <1>3, <1>4, <1>5 DEF Promise!Turns

(* or changes no life at all. *)
LEMMA StaysOne ==
  ASSUME NEW i, Alone(i), LifeOf(i)' = LifeOf(i),
         LifeOf(i) # "over" => (jobs'[i].raw <=> jobs[i].raw),
         UNCHANGED <<chords, recorded>>
  PROVE  UNCHANGED Promise!promised
<1>1. \A j \in Jobs : LifeOf(j)' = LifeOf(j) /\ (LifeOf(j) # "over" => (jobs'[j].raw <=> jobs[j].raw))
  BY AloneLives
<1>2. [j \in Jobs |-> LifeOf(j)]' = [j \in Jobs |-> LifeOf(j)]
  BY <1>1
<1>3. {j \in Jobs : jobs[j].raw /\ LifeOf(j) # "over"}' = {j \in Jobs : jobs[j].raw /\ LifeOf(j) # "over"}
  BY <1>1
<1>4. QED
  BY <1>2, <1>3 DEF Promise!promised

(* A step that touches no row, count, birth or chord changes no life. *)
LEMMA NoneLives ==
  ASSUME UNCHANGED <<jobs, recorded, born, chords>>
  PROVE  UNCHANGED Promise!promised
  BY DEF Promise!promised, LifeOf

(* What a statement makes of the life of a row. *)
LifeStep(old, new, pasted) ==
  \/ ~IsRow(new) /\ ~Making(old)
  \/ IsRow(new) /\ RowLife(new) = RowLife(old) /\ (new.raw <=> old.raw)
  \/ IsRow(new) /\ RowLife(old) = "asked" /\ RowLife(new) = "asked" /\ new.raw
  \/ /\ IsRow(new) /\ (new.raw <=> old.raw)
     /\ \/ RowLife(old) \in {"speaking", "asked"} /\ RowLife(new) = "kept"
        \/ RowLife(old) = "kept" /\ RowLife(new) = "asked" /\ pasted = 0
        \/ RowLife(old) = "kept" /\ RowLife(new) = "sending" /\ old.raw
        \/ RowLife(old) = "sending" /\ RowLife(new) \in {"kept", "sent", "doubtful"}
        \/ RowLife(old) = "doubtful" /\ RowLife(new) = "kept"

(* A statement that makes a LifeStep of its row is a step of Dictation, or none. *)
LEMMA LifeSteps ==
  ASSUME Inductive, Inductive', NEW i \in born, i \in born', Alone(i), UNCHANGED <<chords, recorded>>,
         ~IsRow(jobs[i]) => ~IsRow(jobs'[i]),
         IsRow(jobs[i]) => LifeStep(jobs[i], jobs'[i], chords[i])
  PROVE  Promise!Next \/ UNCHANGED Promise!promised
<1> DEFINE old == jobs[i]
           new == jobs'[i]
           Goal == Promise!Next \/ UNCHANGED Promise!promised
<1>typed. /\ i \in Jobs /\ recorded[i] \in Nat /\ recorded'[i] = recorded[i]
          /\ jobs[i] \in Rows /\ jobs'[i] \in Rows
  BY DEF Inductive, TypeOK
<1>life. /\ recorded[i] > 0 => LifeOf(i) = "over" /\ LifeOf(i)' = "over"
         /\ recorded[i] = 0 /\ ~IsRow(old) => LifeOf(i) = "over"
         /\ recorded[i] = 0 /\ IsRow(old) => LifeOf(i) = RowLife(old)
         /\ recorded[i] = 0 /\ ~IsRow(new) => LifeOf(i)' = "over"
         /\ recorded[i] = 0 /\ IsRow(new) => LifeOf(i)' = RowLife(new)
  BY <1>typed, Lives, LivesOn
<1>only. ASSUME NEW from, NEW to, LifeOf(i) \in from, LifeOf(i)' = to,
                to # "over" => (new.raw <=> old.raw /\ LifeOf(i) # "over")
         PROVE  Promise!Only(i, from, to)
  BY <1>only, TurnsOne DEF Promise!Only
<1>stays. LifeOf(i)' = LifeOf(i) /\ (LifeOf(i) # "over" => (new.raw <=> old.raw)) => Goal
  BY StaysOne
<1>1. CASE recorded[i] > 0 \/ ~IsRow(old)
  BY <1>1, <1>life, <1>stays, <1>typed
<1>2. ASSUME recorded[i] = 0, IsRow(old) PROVE Goal
  <2>1. CASE ~IsRow(new)
    <3>1. RowLife(old) \in {"kept", "asked", "sending", "doubtful", "sent", "over"}
      BY <1>2, <2>1 DEF LifeStep, RowLife
    <3>2. CASE RowLife(old) = "over"
      BY <1>2, <1>life, <1>stays, <2>1, <3>2
    <3>3. CASE RowLife(old) # "over"
      <4>1. Promise!Delete(i)
        BY <1>2, <1>life, <1>only, <2>1, <3>1, <3>3 DEF Promise!Delete
      <4>2. QED
        BY <1>typed, <4>1 DEF Promise!Next
    <3>4. QED
      BY <3>2, <3>3
  <2>2. CASE IsRow(new) /\ RowLife(new) = RowLife(old) /\ (new.raw <=> old.raw)
    BY <1>2, <1>life, <1>stays, <2>2
  <2>3. CASE IsRow(new) /\ RowLife(old) = "asked" /\ RowLife(new) = "asked" /\ new.raw
    <3>1. /\ [j \in Jobs |-> LifeOf(j)]' = [j \in Jobs |-> LifeOf(j)]
          /\ {j \in Jobs : jobs[j].raw /\ LifeOf(j) # "over"}'
               = {j \in Jobs : jobs[j].raw /\ LifeOf(j) # "over"} \cup {i}
          /\ [j \in Jobs |-> LifeOf(j)][i] = "asked"
      BY <1>2, <1>life, <1>typed, <2>3, AloneLives
    <3>2. Promise!Pay(i)
      BY <3>1 DEF Promise!Pay
    <3>3. QED
      BY <1>typed, <3>2 DEF Promise!Next
  <2>4. ASSUME IsRow(new), new.raw <=> old.raw, RowLife(old) # "over", RowLife(new) # "over"
        PROVE  \A from : RowLife(old) \in from => Promise!Only(i, from, RowLife(new))
    BY <1>2, <1>life, <1>only, <2>4
  <2>5. CASE /\ IsRow(new) /\ (new.raw <=> old.raw)
             /\ RowLife(old) \in {"speaking", "asked"} /\ RowLife(new) = "kept"
    BY <1>typed, <2>4, <2>5 DEF Promise!Next, Promise!Keep
  <2>6. CASE /\ IsRow(new) /\ (new.raw <=> old.raw)
             /\ RowLife(old) = "kept" /\ RowLife(new) = "asked" /\ chords[i] = 0
    BY <1>typed, <2>4, <2>6 DEF Promise!Next, Promise!Ask
  <2>7. CASE /\ IsRow(new) /\ (new.raw <=> old.raw)
             /\ RowLife(old) = "kept" /\ RowLife(new) = "sending" /\ old.raw
    <3>1. i \in {j \in Jobs : jobs[j].raw /\ LifeOf(j) # "over"}
      BY <1>2, <1>life, <1>typed, <2>7
    <3>2. QED
      BY <1>typed, <2>4, <2>7, <3>1 DEF Promise!Next, Promise!Send
  <2>8. CASE /\ IsRow(new) /\ (new.raw <=> old.raw)
             /\ RowLife(old) = "sending" /\ RowLife(new) \in {"kept", "sent", "doubtful"}
    BY <1>typed, <2>4, <2>8 DEF Promise!Next, Promise!Unsend, Promise!Submit, Promise!Doubt
  <2>9. CASE /\ IsRow(new) /\ (new.raw <=> old.raw)
             /\ RowLife(old) = "doubtful" /\ RowLife(new) = "kept"
    BY <1>typed, <2>4, <2>9 DEF Promise!Next, Promise!CopyAgain
  <2>10. QED
    BY <1>2, <2>1, <2>2, <2>3, <2>5, <2>6, <2>7, <2>8, <2>9 DEF LifeStep
<1>3. QED
  BY <1>1, <1>2, <1>typed

(* A step that writes one row, and counts nothing. *)
LEMMA WritesOne ==
  ASSUME Inductive, Inductive', NEW i \in born, NEW row, Put(i, row),
         UNCHANGED <<chords, recorded, born>>,
         ~IsRow(jobs[i]) => ~IsRow(row),
         IsRow(jobs[i]) => LifeStep(jobs[i], row, chords[i])
  PROVE  Promise!Next \/ UNCHANGED Promise!promised
<1>1. Alone(i) /\ jobs'[i] = row
  BY DEF Alone, Put, Inductive, TypeOK
<1>2. QED
  BY <1>1, LifeSteps

(* The same of a statement on the row of the daemon's command. *)
LEMMA RowStepLives ==
  ASSUME Inductive, Inductive', NEW here \in JobLabels, NEW row, NEW next, NEW onFault,
         RowStep(here, row, next, onFault),
         ~IsRow(Row) => ~IsRow(row),
         IsRow(Row) => LifeStep(Row, row, chords[Job("daemon")])
  PROVE  Promise!Next \/ UNCHANGED Promise!promised
<1>1. Job("daemon") \in born /\ UNCHANGED <<chords, recorded, born>>
  BY KnownRow DEF RowStep, At, Label, allButRow
<1>2. CASE UNCHANGED jobs
  BY <1>1, <1>2, NoneLives
<1>3. CASE Put(Job("daemon"), row)
  BY <1>1, <1>3, WritesOne DEF Row
<1>4. QED
  BY <1>2, <1>3 DEF RowStep, Statement

(* A row that is gone stays gone under every statement. *)
LEMMA GoneStays ==
  ASSUME NEW row, ~IsRow(row)
  PROVE  /\ \A stage : ~IsRow(UpdateStage(row, stage))
         /\ \A long : ~IsRow(Captured(row, long))
         /\ ~IsRow(RetryTranscription(row)) /\ ~IsRow(StoreRaw(row)) /\ ~IsRow(StoreReady(row))
         /\ ~IsRow(RetryDelivery(row)) /\ ~IsRow(GateBlocked(row)) /\ ~IsRow(Attempting(row))
         /\ ~IsRow(Submitted(row)) /\ ~IsRow(Ambiguous(row)) /\ ~IsRow(NotSent(row))
         /\ ~IsRow(FailJob(row)) /\ ~IsRow(NoRow)
  BY DEF UpdateStage, Captured, RetryTranscription, StoreRaw, StoreReady, RetryDelivery, GateBlocked,
     Attempting, Submitted, Ambiguous, NotSent, FailJob, Updated, NoRow, IsRow

(* The steps of a recording are steps of Dictation, or none; *)
LEMMA RecordingLives ==
  ASSUME Inductive, Inductive', Lived, RecordingSteps
  PROVE  Promise!Next \/ UNCHANGED Promise!promised
<1> DEFINE Goal == Promise!Next \/ UNCHANGED Promise!promised
<1> USE DEF allButFrame, allButRow, stored
<1>sets. StartLabels \cup EndLabels \subseteq JobLabels
  BY DEF JobLabels
<1>knows. CommandKnows
  BY DEF Lived
<1>1. ASSUME NEW i \in Jobs, StartRecording(i) PROVE Goal
  <2>1. /\ i \notin born /\ born' = born \cup {i} /\ jobs' = [jobs EXCEPT ![i] = InsertStarting]
        /\ UNCHANGED <<recorded, chords>> /\ jobs[i] = NoRow
    BY <1>1 DEF StartRecording, Put, Inductive, UnbornIsBlank
  <2>2. /\ jobs \in [Jobs -> Rows] /\ jobs' \in [Jobs -> Rows] /\ jobs'[i] = InsertStarting
        /\ recorded[i] = 0 /\ recorded'[i] = 0
    BY <2>1 DEF Inductive, TypeOK, Lived, CountedIsBorn
  <2>3. Alone(i)
    BY <2>1 DEF Alone, Inductive, TypeOK
  <2>4. ~IsRow(NoRow) /\ IsRow(InsertStarting) /\ RowLife(InsertStarting) = "speaking"
        /\ ~NoRow.raw /\ ~InsertStarting.raw
    BY DEF IsRow, NoRow, InsertStarting, RowLife, Making
  <2>5. LifeOf(i) = "none" /\ LifeOf(i)' = "speaking"
    BY <2>1, <2>2, <2>4, Lives, LivesOn
  <2>6. Promise!Speak(i)
    BY <2>1, <2>2, <2>3, <2>4, <2>5, TurnsOne DEF Promise!Speak, Promise!Only
  <2>7. QED
    BY <2>6 DEF Promise!Next
<1>2. CASE CheckpointRecording
  <2>1. Label = "checkpoint" /\ Label \in JobLabels /\ UNCHANGED <<recorded, chords, born>>
    BY <1>2, <1>sets DEF CheckpointRecording, At, Label, StartLabels
  <2>2. /\ Job("daemon") \in born /\ Row \in Rows
        /\ IsRow(Row) => Row.stage = "starting" /\ Row.delivery = "not_attempted"
    BY <2>1, KnownRow DEF Knows, StartLabels
  <2>3. IsRow(Row) => LifeStep(Row, UpdateStage(Row, "recording"), chords[Job("daemon")])
    BY <2>2 DEF LifeStep, UpdateStage, Updated, Rows, IsRow, RowLife, Making
  <2>4. UNCHANGED jobs \/ Put(Job("daemon"), UpdateStage(Row, "recording"))
    BY <1>2 DEF CheckpointRecording, UnreadStatement, Row
  <2>5. QED
    BY <2>1, <2>2, <2>3, <2>4, GoneStays, NoneLives, WritesOne DEF Row
<1>3. CASE InterruptStart \/ InterruptRecording \/ InterruptCaptured
  <2>1. /\ Label \in {"interrupt_start", "interrupt_recording", "interrupt_captured"}
        /\ Label \in JobLabels
    BY <1>3, <1>sets DEF InterruptStart, InterruptRecording, InterruptCaptured, RowStep, At, Label,
       StartLabels, EndLabels
  <2>2. /\ Row \in Rows
        /\ IsRow(Row) => SoundRow(Row) /\ Row.stage \in {"starting", "recording", "captured"}
    BY <2>1, KnownRow DEF Knows, StartLabels, CommandKnows, KnowsAlso, Lived, RowsAreSound, Row
  <2>3. IsRow(Row) => LifeStep(Row, UpdateStage(Row, "interrupted"), chords[Job("daemon")])
    BY <2>2 DEF LifeStep, UpdateStage, Updated, Rows, IsRow, RowLife, Making, SoundRow
  <2>4. {"interrupt_start", "interrupt_recording", "interrupt_captured"} \subseteq JobLabels
    BY <1>sets DEF StartLabels, EndLabels
  <2>5. QED
    BY <1>3, <2>3, <2>4, GoneStays, RowStepLives DEF InterruptStart, InterruptRecording, InterruptCaptured
<1>4. CASE CaptureRecording
  <2>1. Label = "capture" /\ Label \in JobLabels /\ UNCHANGED <<recorded, chords, born>>
    BY <1>4, <1>sets DEF CaptureRecording, At, Label, EndLabels
  <2>2. /\ Job("daemon") \in born /\ Row \in Rows
        /\ IsRow(Row) => SoundRow(Row) /\ Row.stage = "recording"
    BY <2>1, KnownRow DEF Knows, Lived, RowsAreSound, Row
  <2>3. \A long \in BOOLEAN : IsRow(Row) => LifeStep(Row, Captured(Row, long), chords[Job("daemon")])
    BY <2>2 DEF LifeStep, Captured, Updated, Rows, IsRow, RowLife, Making, SoundRow
  <2>4. UNCHANGED jobs \/ \E long \in BOOLEAN : Put(Job("daemon"), Captured(Row, long))
    BY <1>4 DEF CaptureRecording, UnreadStatement, Statement
  <2>5. QED
    BY <2>1, <2>2, <2>3, <2>4, GoneStays, NoneLives, WritesOne DEF Row
<1>5. CASE BeginTranscription
  <2>1. Label = "begin" /\ Label \in JobLabels /\ UNCHANGED <<recorded, chords, born>>
    BY <1>5, <1>sets DEF BeginTranscription, At, Label, EndLabels
  <2>2. /\ Job("daemon") \in born /\ Row \in Rows /\ chords[Job("daemon")] = 0
        /\ IsRow(Row) => SoundRow(Row) /\ Row.stage = "captured"
    BY <2>1, KnownRow
    DEF CommandKnows, KnowsAlso, Lived, RowsAreSound, Row, Inductive, NotYetPasted, FreshLabels, EndLabels
  <2>3. IsRow(Row) => LifeStep(Row, UpdateStage(Row, "transcribing"), chords[Job("daemon")])
    BY <2>2 DEF LifeStep, UpdateStage, Updated, Rows, IsRow, RowLife, Making, SoundRow
  <2>4. UNCHANGED jobs \/ Put(Job("daemon"), UpdateStage(Row, "transcribing"))
    BY <1>5 DEF BeginTranscription, UnreadStatement, Row
  <2>5. QED
    BY <2>1, <2>2, <2>3, <2>4, GoneStays, NoneLives, WritesOne DEF Row
<1>6. CASE DiscardRecording
  <2>1. Label = "discard" /\ Label \in JobLabels /\ UNCHANGED <<recorded, chords, born>>
    BY <1>6, <1>sets DEF DiscardRecording, At, Label, EndLabels
  <2>2. /\ Job("daemon") \in born /\ Row \in Rows
        /\ IsRow(Row) => SoundRow(Row) /\ Row.stage = "captured"
    BY <2>1, KnownRow DEF Knows, Lived, RowsAreSound, Row
  <2>3. \A row \in {NoRow, UpdateStage(Row, "cancelled")} :
          IsRow(Row) => LifeStep(Row, row, chords[Job("daemon")])
    <3>1. IsRow(Row) => LifeStep(Row, UpdateStage(Row, "cancelled"), chords[Job("daemon")])
      BY <2>2 DEF LifeStep, UpdateStage, Updated, Rows, IsRow, RowLife, Making, SoundRow
    <3>2. IsRow(Row) => LifeStep(Row, NoRow, chords[Job("daemon")])
      BY <2>2 DEF LifeStep, NoRow, IsRow, Making
    <3>3. QED
      BY <3>1, <3>2
  <2>4. UNCHANGED jobs \/ \E row \in {NoRow, UpdateStage(Row, "cancelled")} : Put(Job("daemon"), row)
    BY <1>6 DEF DiscardRecording, Statement
  <2>5. ~IsRow(Row) => \A row \in {NoRow, UpdateStage(Row, "cancelled")} : ~IsRow(row)
    BY GoneStays
  <2>6. QED
    BY <2>1, <2>2, <2>3, <2>4, <2>5, NoneLives, WritesOne DEF Row
<1>7. CASE RecorderStart \/ AbortStart \/ RecorderFinish
             \/ \E goal \in {"stop", "discard", "preserve"} : FinishRecording(goal)
  BY <1>7, NoneLives DEF RecorderStart, AbortStart, RecorderFinish, FinishRecording
<1>8. QED
  BY <1>1, <1>2, <1>3, <1>4, <1>5, <1>6, <1>7 DEF RecordingSteps

(* so are those of a transcription's result, *)
LEMMA ResultLives ==
  ASSUME Inductive, Inductive', Lived, ResultSteps
  PROVE  Promise!Next \/ UNCHANGED Promise!promised
<1> DEFINE Goal == Promise!Next \/ UNCHANGED Promise!promised
<1>sets. {"store_raw", "store_ready", "store_silent", "store_failed", "fail_job"} \subseteq JobLabels
  BY DEF JobLabels, StoreLabels, OtherLabels
<1>1. CASE StoreRawText \/ StoreReadyText \/ StoreSilent \/ StoreFailed
  <2>1. Label \in {"store_raw", "store_ready", "store_silent", "store_failed"}
    BY <1>1 DEF StoreRawText, StoreReadyText, StoreSilent, StoreFailed, RowStep, At, Label
  <2>2. /\ Row \in Rows
        /\ IsRow(Row) => SoundRow(Row) /\ Row.stage = "transcribing"
    BY <1>sets, <2>1, KnownRow DEF Knows, StoreLabels, Lived, RowsAreSound, Row
  <2>3. \A row \in {StoreRaw(Row), StoreReady(Row), UpdateStage(Row, "failed"), NoRow} :
          IsRow(Row) => LifeStep(Row, row, chords[Job("daemon")])
    <3>1. IsRow(Row) => LifeStep(Row, StoreRaw(Row), chords[Job("daemon")])
      BY <2>2 DEF LifeStep, StoreRaw, Updated, Rows, IsRow, RowLife, Making, SoundRow
    <3>2. IsRow(Row) => LifeStep(Row, StoreReady(Row), chords[Job("daemon")])
      BY <2>2 DEF LifeStep, StoreReady, Updated, Rows, IsRow, RowLife, Making, SoundRow
    <3>3. IsRow(Row) => LifeStep(Row, UpdateStage(Row, "failed"), chords[Job("daemon")])
      BY <2>2 DEF LifeStep, UpdateStage, Updated, Rows, IsRow, RowLife, Making, SoundRow
    <3>4. IsRow(Row) => LifeStep(Row, NoRow, chords[Job("daemon")])
      BY <2>2 DEF LifeStep, NoRow, IsRow, Making
    <3>5. QED
      BY <3>1, <3>2, <3>3, <3>4
  <2>4. QED
    BY <1>1, <1>sets, <2>3, GoneStays, RowStepLives
    DEF StoreRawText, StoreReadyText, StoreSilent, StoreFailed
<1>2. CASE FailStep
  <2>1. Label = "fail_job"
    BY <1>2 DEF FailStep, RowStep, At, Label
  <2>2. Row \in Rows /\ SoundRow(Row)
    BY <1>sets, <2>1, KnownRow DEF Lived, RowsAreSound, Row
  <2>3. IsRow(Row) => LifeStep(Row, FailJob(Row), chords[Job("daemon")])
    BY <2>2 DEF LifeStep, FailJob, Updated, Rows, IsRow, RowLife, Making, SoundRow
  <2>4. QED
    BY <1>2, <1>sets, <2>3, GoneStays, RowStepLives DEF FailStep
<1>3. CASE ReadReady \/ \E j \in Jobs : TranscriptionDone(j)
  BY <1>3, NoneLives DEF ReadReady, TranscriptionDone, allButFrame, stored
<1>4. QED
  BY <1>1, <1>2, <1>3 DEF ResultSteps

(* the transaction that counts a dictation, *)
LEMMA CountLives ==
  ASSUME Inductive, Inductive', NEW c, NEW i \in born, NEW next, NEW onFault,
         IsRow(jobs[i]) => jobs[i].stage = "delivered",
         CompleteDelivered(c, i, next, onFault), UNCHANGED <<chords, born>>
  PROVE  Promise!Next \/ UNCHANGED Promise!promised
<1> DEFINE Goal == Promise!Next \/ UNCHANGED Promise!promised
<1>typed. /\ i \in Jobs /\ recorded \in [Jobs -> Nat] /\ jobs \in [Jobs -> Rows]
          /\ jobs' \in [Jobs -> Rows] /\ recorded' \in [Jobs -> Nat] /\ ~IsRow(NoRow)
  BY DEF Inductive, TypeOK, IsRow, NoRow
<1>1. CASE UNCHANGED <<jobs, recorded>>
  BY <1>1, NoneLives
<1>2. CASE Put(i, NoRow) /\ UNCHANGED recorded
  <2>1. ~(IsRow(jobs[i]) /\ Making(jobs[i]))
    BY DEF Making
  <2>2. IsRow(jobs[i]) => LifeStep(jobs[i], NoRow, chords[i])
    BY <1>typed, <2>1 DEF LifeStep
  <2>3. QED
    BY <1>2, <1>typed, <2>2, WritesOne
<1>3. CASE /\ Put(i, NoRow) /\ IsRow(jobs[i]) /\ recorded[i] = 0
           /\ recorded' = [recorded EXCEPT ![i] = @ + 1]
  <2>1. Alone(i) /\ jobs'[i] = NoRow /\ recorded' = [recorded EXCEPT ![i] = 1] /\ recorded'[i] = 1
    BY <1>3, <1>typed DEF Alone, Put
  <2>2. LifeOf(i) = "sent" /\ LifeOf(i)' = "over"
    BY <1>3, <1>typed, <2>1, Lives, LivesOn DEF RowLife, Making
  <2>3. Promise!Count(i)
    BY <1>3, <2>1, <2>2, TurnsOne DEF Promise!Count
  <2>4. QED
    BY <1>typed, <2>3 DEF Promise!Next
<1>4. QED
  BY <1>1, <1>2, <1>3 DEF CompleteDelivered

(* those of a delivery, *)
LEMMA DeliveryLives ==
  ASSUME Inductive, Inductive', Lived, DeliverySteps
  PROVE  Promise!Next \/ UNCHANGED Promise!promised
<1> DEFINE Goal == Promise!Next \/ UNCHANGED Promise!promised
<1>sets. /\ {"gate_blocked", "attempt", "deliver", "record_submitted", "record_ambiguous",
             "record_not_sent", "complete"} \subseteq JobLabels
  BY DEF JobLabels, ReadyLabels, OtherLabels
<1>knows. CommandKnows
  BY DEF Lived
<1>1. CASE GateRefused \/ Attempt
  <2>1. Label \in {"gate_blocked", "attempt"}
    BY <1>1 DEF GateRefused, Attempt, RowStep, At, Label
  <2>2. /\ Row \in Rows
        /\ IsRow(Row) => /\ SoundRow(Row) /\ Row.stage = "ready_to_deliver" /\ Row.text
                         /\ Row.delivery = "not_attempted"
    BY <1>knows, <1>sets, <2>1, KnownRow
    DEF Knows, ReadyLabels, Lived, RowsAreSound, Row, CommandKnows, KnowsAlso, BeforeLabels
  <2>3. IsRow(Row) => LifeStep(Row, GateBlocked(Row), chords[Job("daemon")])
    BY <2>2 DEF LifeStep, GateBlocked, Updated, Rows, IsRow, RowLife, Making, SoundRow
  <2>4. IsRow(Row) => LifeStep(Row, Attempting(Row), chords[Job("daemon")])
    BY <2>2 DEF LifeStep, Attempting, Updated, Rows, IsRow, RowLife, Making, SoundRow
  <2>5. QED
    BY <1>1, <1>sets, <2>3, <2>4, GoneStays, RowStepLives DEF GateRefused, Attempt
<1>2. CASE RecordSubmitted \/ RecordAmbiguous \/ RecordNotSent
  <2>1. Label \in {"record_submitted", "record_ambiguous", "record_not_sent"}
    BY <1>2 DEF RecordSubmitted, RecordAmbiguous, RecordNotSent, RowStep, At, Label
  <2>2. /\ Row \in Rows
        /\ IsRow(Row) => Row.stage = "ready_to_deliver" /\ Row.delivery = "attempting"
    BY <1>knows, <1>sets, <2>1, KnownRow
    DEF Knows, ReadyLabels, CommandKnows, KnowsAlso, DeliverLabels
  <2>3. IsRow(Row) => LifeStep(Row, Submitted(Row), chords[Job("daemon")])
    BY <2>2 DEF LifeStep, Submitted, Updated, Rows, IsRow, RowLife, Making
  <2>4. IsRow(Row) => LifeStep(Row, Ambiguous(Row), chords[Job("daemon")])
    BY <2>2 DEF LifeStep, Ambiguous, Updated, Rows, IsRow, RowLife, Making
  <2>5. IsRow(Row) => LifeStep(Row, NotSent(Row), chords[Job("daemon")])
    BY <2>2 DEF LifeStep, NotSent, Updated, Rows, IsRow, RowLife, Making
  <2>6. QED
    BY <1>2, <1>sets, <2>3, <2>4, <2>5, GoneStays, RowStepLives
    DEF RecordSubmitted, RecordAmbiguous, RecordNotSent
<1>3. CASE Deliver
  <2> DEFINE i == Job("daemon")
  <2>1. /\ Label = "deliver" /\ UNCHANGED <<jobs, recorded, born>>
        /\ \/ UNCHANGED chords
           \/ frame["daemon"].pastes /\ chords' = [chords EXCEPT ![i] = @ + 1]
    BY <1>3 DEF Deliver, At, Label, stored
  <2>2. CASE frame["daemon"].pastes /\ chords' = [chords EXCEPT ![i] = @ + 1]
    <3>1. Bound(i)
      BY <2>1, <2>2 DEF Bound, BoundLabels
    <3>2. /\ i \in Jobs /\ IsRow(jobs[i]) /\ recorded[i] = 0
          /\ jobs[i].stage = "ready_to_deliver" /\ jobs[i].delivery = "attempting"
      BY <1>knows, <1>sets, <2>1, <3>1, KnownRow
      DEF Lived, BoundIsSafe, CommandKnows, KnowsAlso, DeliverLabels, Knows, ReadyLabels, Row
    <3>9. chords[i] = 0
      BY <2>1, <2>2 DEF Inductive, PastesTheCurrent, PasteLabels
    <3>3. chords[i] = 0 /\ chords' = [chords EXCEPT ![i] = 1]
      BY <2>2, <3>9
    <3>4. LifeOf(i) = "sending"
      BY <3>2, Lives DEF RowLife, Making, Inductive, TypeOK
    <3>5. /\ [j \in Jobs |-> LifeOf(j)]' = [j \in Jobs |-> LifeOf(j)]
          /\ {j \in Jobs : jobs[j].raw /\ LifeOf(j) # "over"}'
               = {j \in Jobs : jobs[j].raw /\ LifeOf(j) # "over"}
      BY <2>1 DEF LifeOf
    <3>6. [j \in Jobs |-> LifeOf(j)][i] = "sending"
      BY <3>2, <3>4
    <3>7. Promise!Paste(i)
      BY <2>1, <3>3, <3>5, <3>6 DEF Promise!Paste
    <3>8. QED
      BY <3>2, <3>7 DEF Promise!Next
  <2>3. QED
    BY <2>1, <2>2, NoneLives
<1>4. CASE Complete
  <2>1. Label = "complete" /\ UNCHANGED <<chords, born>>
    BY <1>4 DEF Complete, At, Label
  <2>2. Job("daemon") \in born /\ (IsRow(Row) => Row.stage = "delivered")
    BY <1>knows, <1>sets, <2>1, KnownRow DEF CommandKnows, KnowsAlso, EndingLabels
  <2>3. QED
    BY <1>4, <2>1, <2>2, CountLives DEF Complete, Row
<1>5. CASE Gate \/ ReadResult \/ CleanupAudio \/ Settle
  BY <1>5, NoneLives DEF Gate, ReadResult, CleanupAudio, Settle, allButFrame, allButAudio, stored
<1>6. QED
  BY <1>1, <1>2, <1>3, <1>4, <1>5 DEF DeliverySteps

(* those of the Recovery commands, *)
LEMMA RecoveryLives ==
  ASSUME Inductive, Inductive', Lived, RecoverySteps
  PROVE  Promise!Next \/ UNCHANGED Promise!promised
<1> DEFINE Goal == Promise!Next \/ UNCHANGED Promise!promised
<1>sets. {"retry_update", "again_update"} \subseteq JobLabels
  BY DEF JobLabels, RetryLabels, AgainLabels
<1>1. CASE RetryUpdate
  <2>1. Label = "retry_update"
    BY <1>1 DEF RetryUpdate, RowStep, At, Label
  <2>2. /\ Row \in Rows /\ chords[Job("daemon")] = 0
        /\ IsRow(Row) => SoundRow(Row) /\ RetryAllowed(Row)
    BY <1>sets, <2>1, KnownRow
    DEF Knows, Lived, RowsAreSound, Row, Inductive, NotYetPasted, FreshLabels, RetryLabels
  <2>3. IsRow(Row) => LifeStep(Row, RetryTranscription(Row), chords[Job("daemon")])
    BY <2>2 DEF LifeStep, RetryTranscription, RetryAllowed, Updated, Rows, IsRow, RowLife, Making, SoundRow
  <2>4. QED
    BY <1>1, <1>sets, <2>3, GoneStays, RowStepLives DEF RetryUpdate
<1>2. CASE AgainUpdate
  <2>1. Label = "again_update"
    BY <1>2 DEF AgainUpdate, RowStep, At, Label
  <2>2. /\ Row \in Rows /\ (Row.stage \in {"no_speech", "deleted"} => ~Row.raw)
        /\ IsRow(Row) => SoundRow(Row) /\ PasteAgainAllowed(Row)
    BY <1>sets, <2>1, KnownRow DEF Knows, AgainLabels, Lived, RowsAreSound, Row
  <2>3. IsRow(Row) => LifeStep(Row, RetryDelivery(Row), chords[Job("daemon")])
    BY <2>2 DEF LifeStep, RetryDelivery, PasteAgainAllowed, Updated, Rows, IsRow, RowLife, Making, SoundRow
  <2>4. QED
    BY <1>2, <1>sets, <2>3, GoneStays, RowStepLives DEF AgainUpdate
<1>3. CASE \/ RetryRead \/ AgainRead \/ CancelProcessing
           \/ \E j \in Jobs : RetryTranscriptionOf(j) \/ PasteAgain(j) \/ DeleteRecovery(j)
  BY <1>3, NoneLives DEF RetryRead, AgainRead, CancelProcessing, RetryTranscriptionOf, PasteAgain,
     DeleteRecovery, allButFrame, stored
<1>4. QED
  BY <1>1, <1>2, <1>3 DEF RecoverySteps

(* those of retention and deletes, *)
LEMMA RetentionLives ==
  ASSUME Inductive, Inductive', Lived, NEW c \in Threads, RetentionSteps(c)
  PROVE  Promise!Next \/ UNCHANGED Promise!promised
<1>1. CASE ExpireRow(c) \/ DeleteRow(c)
  <2>1. /\ frame[c].at \in DeleteLabels /\ UNCHANGED <<chords, recorded, born>>
        /\ UNCHANGED jobs \/ Put(Victim(c), NoRow)
    BY <1>1 DEF ExpireRow, DeleteRow, At, DeleteLabels, Statement, allButRow
  <2>2. Victim(c) \in born /\ ~Making(jobs[Victim(c)])
    BY <2>1 DEF Lived, ListsAreOld, ListIsOld
  <2>3. LifeStep(jobs[Victim(c)], NoRow, chords[Victim(c)]) /\ ~IsRow(NoRow)
    BY <2>2 DEF LifeStep, IsRow, NoRow
  <2>4. QED
    BY <2>1, <2>2, <2>3, NoneLives, WritesOne
<1>2. CASE ExpireList(c) \/ ExpireNext(c) \/ DeleteMove(c) \/ DeleteRestore(c) \/ DeleteUnlink(c)
  BY <1>2, NoneLives
  DEF ExpireList, ExpireNext, DeleteMove, DeleteRestore, DeleteUnlink, allButFrame, allButAudio, stored
<1>3. QED
  BY <1>1, <1>2 DEF RetentionSteps

(* those of the maintenance thread, *)
LEMMA MaintenanceLives ==
  ASSUME Inductive, Inductive', Lived, MaintenanceSteps
  PROVE  Promise!Next \/ UNCHANGED Promise!promised
<1>1. CASE FinishRow
  <2> DEFINE i == Victim("maintenance")
  <2>1. frame["maintenance"].at = "finish_row" /\ UNCHANGED <<chords, born>>
    BY <1>1 DEF FinishRow, At
  <2>2. i \in born /\ (IsRow(jobs[i]) => Finished(jobs[i]))
    BY <2>1 DEF Lived, ListsAreOld, ListIsOld, Threads
  <2>3. CASE jobs[i].stage \in {"no_speech", "deleted"}
    <3>1. UNCHANGED recorded /\ (UNCHANGED jobs \/ Put(i, NoRow))
      BY <1>1, <2>3 DEF FinishRow, Statement
    <3>2. LifeStep(jobs[i], NoRow, chords[i]) /\ ~IsRow(NoRow)
      BY <2>3 DEF LifeStep, IsRow, NoRow, Making
    <3>3. QED
      BY <2>1, <2>2, <3>1, <3>2, NoneLives, WritesOne
  <2>4. CASE jobs[i].stage \notin {"no_speech", "deleted"}
    <3>1. CompleteDelivered("maintenance", i, "next_finished", "off")
      BY <1>1, <2>4 DEF FinishRow
    <3>2. QED
      BY <2>1, <2>2, <2>4, <3>1, CountLives DEF Finished
  <2>5. QED
    BY <2>3, <2>4
<1>2. CASE StartMaintenance \/ ListFinished \/ NextFinished \/ ListOrphans \/ RemoveOrphan
  BY <1>2, NoneLives
  DEF StartMaintenance, ListFinished, NextFinished, ListOrphans, RemoveOrphan, allButFrame, allButAudio,
      stored
<1>3. QED
  BY <1>1, <1>2 DEF MaintenanceSteps

(* and those of a start, which repairs all rows at once. *)
LEMMA StartLives ==
  ASSUME Inductive, Inductive', Lived, StartSteps
  PROVE  Promise!Next \/ UNCHANGED Promise!promised
<1>all. ASSUME NEW from, NEW to, UNCHANGED <<recorded, born, chords>>,
               \A j \in Jobs :
                 /\ LifeOf(j)' = IF LifeOf(j) \in from THEN to ELSE LifeOf(j)
                 /\ jobs'[j].raw <=> jobs[j].raw
                 /\ LifeOf(j)' = "over" <=> LifeOf(j) = "over"
        PROVE  Promise!All(from, to)
  <2>1. [j \in Jobs |-> LifeOf(j)]'
          = [d \in Jobs |-> IF [j \in Jobs |-> LifeOf(j)][d] \in from THEN to
                            ELSE [j \in Jobs |-> LifeOf(j)][d]]
    BY <1>all
  <2>2. {j \in Jobs : jobs[j].raw /\ LifeOf(j) # "over"}' = {j \in Jobs : jobs[j].raw /\ LifeOf(j) # "over"}
    BY <1>all
  <2>3. QED
    BY <1>all, <2>1, <2>2 DEF Promise!All
<1>lives. \A j \in Jobs :
            /\ jobs[j] \in Rows /\ jobs'[j] \in Rows /\ recorded[j] \in Nat /\ SoundRow(jobs[j])
            /\ recorded'[j] \in Nat
  BY DEF Inductive, TypeOK, Lived, RowsAreSound
<1>1. CASE OpenAmbiguous
  <2>1. /\ UNCHANGED <<recorded, born, chords>>
        /\ \A j \in Jobs : jobs'[j] = ReconcileAmbiguous(jobs[j])
    BY <1>1 DEF OpenAmbiguous
  <2>2. ASSUME NEW row \in Rows, SoundRow(row)
        PROVE  /\ IsRow(ReconcileAmbiguous(row)) <=> IsRow(row)
               /\ ReconcileAmbiguous(row).raw <=> row.raw
               /\ IsRow(row) => RowLife(ReconcileAmbiguous(row))
                                  = IF RowLife(row) = "sending" THEN "doubtful" ELSE RowLife(row)
    BY <2>2 DEF ReconcileAmbiguous, Ambiguous, Updated, Rows, SoundRow, IsRow, RowLife, Making
  <2>3. ASSUME NEW j \in Jobs
        PROVE  /\ LifeOf(j)' = IF LifeOf(j) \in {"sending"} THEN "doubtful" ELSE LifeOf(j)
               /\ jobs'[j].raw <=> jobs[j].raw
               /\ LifeOf(j)' = "over" <=> LifeOf(j) = "over"
    <3>1. /\ jobs'[j] = ReconcileAmbiguous(jobs[j]) /\ (IsRow(jobs'[j]) <=> IsRow(jobs[j]))
          /\ jobs'[j].raw <=> jobs[j].raw
          /\ IsRow(jobs[j]) => RowLife(jobs'[j])
                                 = IF RowLife(jobs[j]) = "sending" THEN "doubtful" ELSE RowLife(jobs[j])
      BY <1>lives, <2>1, <2>2
    <3>2. recorded'[j] = recorded[j] /\ (j \in born' <=> j \in born)
      BY <2>1
    <3>3. QED
      BY <1>lives, <3>1, <3>2, Lives, LivesOn
  <2>4. QED
    BY <1>all, <2>1, <2>3 DEF Promise!Next, Promise!Restart
<1>2. CASE OpenInterrupted
  <2>1. /\ UNCHANGED <<recorded, born, chords>>
        /\ \A j \in Jobs : jobs'[j] = ReconcileInterrupted(jobs[j])
    BY <1>2 DEF OpenInterrupted
  <2>2. ASSUME NEW row \in Rows, SoundRow(row)
        PROVE  /\ IsRow(ReconcileInterrupted(row)) <=> IsRow(row)
               /\ ReconcileInterrupted(row).raw <=> row.raw
               /\ IsRow(row) => RowLife(ReconcileInterrupted(row))
                                  = IF RowLife(row) \in {"speaking", "asked"} THEN "kept" ELSE RowLife(row)
    BY <2>2 DEF ReconcileInterrupted, InFlight, UpdateStage, Updated, Rows, SoundRow, IsRow, RowLife, Making
  <2>3. ASSUME NEW j \in Jobs
        PROVE  /\ LifeOf(j)' = IF LifeOf(j) \in {"speaking", "asked"} THEN "kept" ELSE LifeOf(j)
               /\ jobs'[j].raw <=> jobs[j].raw
               /\ LifeOf(j)' = "over" <=> LifeOf(j) = "over"
    <3>1. /\ jobs'[j] = ReconcileInterrupted(jobs[j]) /\ (IsRow(jobs'[j]) <=> IsRow(jobs[j]))
          /\ jobs'[j].raw <=> jobs[j].raw
          /\ IsRow(jobs[j]) => RowLife(jobs'[j])
               = IF RowLife(jobs[j]) \in {"speaking", "asked"} THEN "kept" ELSE RowLife(jobs[j])
      BY <1>lives, <2>1, <2>2
    <3>2. recorded'[j] = recorded[j] /\ (j \in born' <=> j \in born)
      BY <2>1
    <3>3. QED
      BY <1>lives, <3>1, <3>2, Lives, LivesOn
  <2>4. QED
    BY <1>all, <2>1, <2>3 DEF Promise!Next, Promise!Restart
<1>3. CASE Boot \/ Serve \/ \E j \in Jobs : ReconcileRecoveryDeletion(j)
  BY <1>3, NoneLives DEF Boot, Serve, ReconcileRecoveryDeletion, allButFrame, allButAudio, stored
<1>4. QED
  BY <1>1, <1>2, <1>3 DEF StartSteps

(* Every step of Store is a step of Dictation, or none. *)
LEMMA PromiseStep ==
  ASSUME Inductive, Inductive', Lived, [Next]_vars
  PROVE  [Promise!Next]_(Promise!promised)
<1>1. CASE UNCHANGED vars
  BY <1>1, NoneLives DEF vars
<1>2. CASE EndSteps \/ ToggleKeepAudio
  BY <1>2, NoneLives DEF EndSteps, Crash, PanicExit, Quit, ProcessEnds, ToggleKeepAudio, stored
<1>3. ASSUME NEW i \in Jobs, Outlive(i) PROVE Promise!Next \/ UNCHANGED Promise!promised
  <2> DEFINE row == [jobs[i] EXCEPT !.expired = TRUE]
  <2>1. Put(i, row) /\ UNCHANGED <<chords, recorded, born>> /\ IsRow(jobs[i])
    BY <1>3 DEF Outlive, Expirable, InRecovery, IsRow
  <2>2. i \in born
    BY <2>1 DEF Inductive, UnbornIsBlank, IsRow, NoRow
  <2>3. LifeStep(jobs[i], row, chords[i])
    BY <2>1 DEF LifeStep, Inductive, TypeOK, Rows, IsRow, RowLife, Making
  <2>4. QED
    BY <2>1, <2>2, <2>3, WritesOne
<1>4. QED
  BY <1>1, <1>2, <1>3, StartLives, RecordingLives, ResultLives, DeliveryLives, RecoveryLives,
     RetentionLives, MaintenanceLives DEF Next

(* What an older version leaves behind is a state Dictation may begin in. *)
LEMMA PromiseInit ==
  ASSUME Init
  PROVE  Promise!Init
<1>1. Inductive /\ Lived
  BY InitInductive, InitLived
<1>2. /\ jobs \in [Jobs -> {NoRow} \cup
            {[NoRow EXCEPT !.stage = s, !.raw = (s = "delivered"),
                           !.text = (s = "delivered"),
                           !.delivery = IF s = "delivered" THEN "submitted" ELSE @] :
               s \in LegacyStages}]
      /\ recorded \in [Jobs -> {0, 1}]
      /\ \A j \in Jobs : recorded[j] = 1 => jobs[j].stage = "delivered"
      /\ born = {j \in Jobs : IsRow(jobs[j])}
      /\ chords = [j \in Jobs |-> 0]
  BY Zenon DEF Init
<1>early. \A j \in Jobs : recorded[j] = 1 => jobs[j].stage = "delivered"
  BY Zenon DEF Init
<1>born. born = {j \in Jobs : IsRow(jobs[j])}
  BY Zenon DEF Init
<1>3. ASSUME NEW j \in Jobs
      PROVE  /\ LifeOf(j) \in {"none", "sent", "over"}
             /\ jobs[j].raw /\ LifeOf(j) # "over" <=> LifeOf(j) = "sent"
             /\ recorded[j] = 1 => LifeOf(j) = "over"
  <2>1. recorded[j] \in {0, 1} /\ recorded[j] \in Nat /\ jobs[j] \in Rows
    BY <1>1, <1>2 DEF Inductive, TypeOK
  <2>2. CASE jobs[j] = NoRow
    <3>a. ~IsRow(jobs[j]) /\ ~jobs[j].raw /\ jobs[j].stage # "delivered"
      BY <2>2 DEF IsRow, NoRow
    <3>1. ~IsRow(jobs[j]) /\ ~jobs[j].raw /\ j \notin born
      BY <3>a, <1>born
    <3>2. recorded[j] = 0
      BY <1>early, <2>1, <3>a
    <3>3. QED
      BY <2>1, <3>1, <3>2, Lives
  <2>3. ASSUME NEW s \in LegacyStages,
               jobs[j] = [NoRow EXCEPT !.stage = s, !.raw = (s = "delivered"),
                                       !.text = (s = "delivered"),
                                       !.delivery = IF s = "delivered" THEN "submitted" ELSE @]
        PROVE  /\ LifeOf(j) \in {"none", "sent", "over"}
               /\ jobs[j].raw /\ LifeOf(j) # "over" <=> LifeOf(j) = "sent"
               /\ recorded[j] = 1 => LifeOf(j) = "over"
    <3>1. jobs[j].stage = s /\ (jobs[j].raw <=> s = "delivered")
      BY <2>3 DEF NoRow
    <3>2. s \in {"delivered", "no_speech", "deleted"}
      BY LegacyAssumption
    <3>3. IsRow(jobs[j]) /\ RowLife(jobs[j]) = IF s = "delivered" THEN "sent" ELSE "over"
      BY <3>1, <3>2 DEF IsRow, RowLife, Making
    <3>4. QED
      BY <2>1, <3>1, <3>3, Lives
  <2>4. jobs[j] \in {NoRow} \cup
            {[NoRow EXCEPT !.stage = s, !.raw = (s = "delivered"),
                           !.text = (s = "delivered"),
                           !.delivery = IF s = "delivered" THEN "submitted" ELSE @] :
               s \in LegacyStages}
    BY Zenon DEF Init
  <2>5. QED
    BY <2>2, <2>3, <2>4
<1> DEFINE life == [j \in Jobs |-> LifeOf(j)]
           paying == {j \in Jobs : jobs[j].raw /\ LifeOf(j) # "over"}
<1>4. /\ life \in [Jobs -> {"none", "sent", "over"}]
      /\ \A j \in Jobs : recorded[j] = 1 => life[j] = "over"
      /\ paying = {j \in Jobs : life[j] = "sent"}
  BY <1>3
<1>5. QED
  BY <1>2, <1>4 DEF Promise!Init

(* Every behaviour of Store is a behaviour of Dictation, for any dictations, failures and
   crashes: the promise a run checks of one dictation. *)
THEOREM StoreImplementsDictation == Spec => ImplementsDictation
<1>1. Init => Promise!Init
  BY PromiseInit
<1>2. Inductive /\ Inductive' /\ Lived /\ [Next]_vars => [Promise!Next]_(Promise!promised)
  BY PromiseStep
<1>3. QED
  BY <1>1, <1>2, Invariance, LivedInvariance, PTL DEF Spec, ImplementsDictation, Promise!Spec

=============================================================================
