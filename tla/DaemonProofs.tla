------------------------------- MODULE DaemonProofs -------------------------------
(* Theorems about Daemon, for any number of dictations, failures and restarts: what is shown
   follows what the daemon is at, a deleted text is not pasted, and the ends of dictations
   are told.

   WorkflowFollowsActivity needs, of a workflow at rest, that no dictation but the next
   concerns it (ReadyIsNobodys).  The other two are about steps.  A text that is pasted is the
   last dictation's or a row's: neither is ever one that was deleted, since a row that is gone
   does not come back (UnbornIsNothing, ForgottenIsGone), and what was last delivered is too
   young for the maintenance of this start to delete it (LastIsYoung).  A dictation the daemon
   is at has the row it is at, which no retention or deletion takes (RowOfActivity): the one
   end that is not announced, of a row that left transcription, never comes.           *)
EXTENDS MCDaemon, TLAPS

--------------------------------------------------------------------------------
(* The inductive invariant *)

Phases == [at : Busy \cup {"ready", "attention"}, job : Jobs \cup {NoJob}]

ReadyIsNobodys == phase.at = "ready" => phase.job = NoJob

(* A row's columns fit each other: no row is blank, and none was delivered before it was
   transcribed. *)
Fits(row) ==
  /\ ~IsRow(row) => row = NoRow
  /\ row.stage \in {"starting", "recording", "captured", "transcribing"} =>
       row.delivery = "not_attempted"

RowsFit == \A j \in Jobs : Fits(jobs[j])

UnbornIsNothing ==
  \A j \in Jobs \ born : jobs[j] = NoRow /\ history[j] = "none" /\ j \notin forgotten

(* A text moves to History when its row goes. *)
KeptHasNoRow == \A j \in Jobs : history[j] # "none" => jobs[j] = NoRow

ForgottenIsGone == \A j \in forgotten : jobs[j] = NoRow /\ last # j

(* Nothing expires before the maintenance of this start. *)
LastIsYoung == due /\ last \in Jobs => ~jobs[last].expired /\ history[last] # "old"

RowOfActivity ==
  /\ activity.kind = "recording" => jobs[activity.job].stage = "recording"
  /\ activity.kind = "processing" => jobs[activity.job].stage = "transcribing"

(* A recorder runs on only where a row could not be read. *)
StrayIsMisread == stray => misreads > 0

Inv ==
  /\ WorkflowFollowsActivity
  /\ ReadyIsNobodys
  /\ RowsFit
  /\ UnbornIsNothing
  /\ KeptHasNoRow
  /\ ForgottenIsGone
  /\ LastIsYoung
  /\ RowOfActivity
  /\ StrayIsMisread

--------------------------------------------------------------------------------
(* The workflow *)

(* The signals that end a dictation. *)
Ends == {"discard", "interrupted", "no_speech", "cancelled", "submitted"}

(* A signal that leads from a phase to one phase only leads there. *)
LEMMA AdvanceGoes ==
  ASSUME NEW p, NEW signal, NEW j, NEW at, Concerns(p, signal, j), at # "ready",
         <<p.at, signal, at>> \in Transitions,
         \A t \in Transitions : t[1] = p.at /\ t[2] = signal => t[3] = at
  PROVE  Advance(p, signal, j) = [at |-> at, job |-> j]
<1> DEFINE moves == {t \in Transitions : t[1] = p.at /\ t[2] = signal /\ Concerns(p, signal, j)}
<1>1. <<p.at, signal, at>> \in moves
  OBVIOUS
<1>2. \A t \in moves : t[3] = at
  OBVIOUS
<1>3. Targets(p, signal, j) = {[at |-> t[3], job |-> IF t[3] = "ready" THEN NoJob ELSE j] : t \in moves}
  BY DEF Targets
<1> HIDE DEF moves
<1>4. Targets(p, signal, j) = {[at |-> at, job |-> j]}
  BY <1>1, <1>2, <1>3
<1>5. QED
  BY <1>4 DEF Advance

(* Where the signals the daemon gives lead. *)
LEMMA Moves ==
  /\ \A from \in {"ready", "attention"} :
       /\ <<from, "start", "starting">> \in Transitions
       /\ <<from, "retry", "transcribing">> \in Transitions
  /\ <<"starting", "first_frame", "recording">> \in Transitions
  /\ <<"starting", "interrupted", "attention">> \in Transitions
  /\ <<"recording", "stop", "stopping">> \in Transitions
  /\ <<"stopping", "captured", "transcribing">> \in Transitions
  /\ \A t \in Transitions :
       /\ t[2] = "start" => t[3] = "starting"
       /\ t[2] = "retry" => t[3] = "transcribing"
       /\ t[2] = "first_frame" => t[3] = "recording"
       /\ t[2] = "interrupted" => t[3] = "attention"
       /\ t[2] = "stop" => t[3] = "stopping"
       /\ t[2] = "captured" => t[3] = "transcribing"
       /\ t[2] \in Ends => t[3] \in {"ready", "attention"}
<1>1. \A t \in Transitions :
        \/ t[2] = "start" /\ t[3] = "starting"
        \/ t[2] = "retry" /\ t[3] = "transcribing"
        \/ t[2] = "stop" /\ t[3] = "stopping"
        \/ t[2] = "discard" /\ t[3] = "ready"
        \/ t[2] = "interrupted" /\ t[3] = "attention"
        \/ t \in {<<"starting", "first_frame", "recording">>,
                  <<"stopping", "captured", "transcribing">>,
                  <<"transcribing", "no_speech", "ready">>,
                  <<"transcribing", "cancelled", "ready">>,
                  <<"transcribing", "stored", "ready_to_deliver">>,
                  <<"ready_to_deliver", "delivery", "delivering">>,
                  <<"delivering", "submitted", "ready">>}
  BY DEF Transitions
<1>2. QED
  BY <1>1 DEF Transitions, Ends, Busy

(* However out of order, an end leaves nothing under way. *)
LEMMA SettledRests ==
  ASSUME NEW p, NEW end \in Ends, NEW j
  PROVE  Settled(p, end, j) \in {Ready, [at |-> "attention", job |-> j]}
<1>1. CASE Targets(p, end, j) # {}
  <2>1. Advance(p, end, j) \in Targets(p, end, j)
    BY <1>1 DEF Advance
  <2>2. PICK t \in Transitions :
          /\ t[2] = end
          /\ Advance(p, end, j) = [at |-> t[3], job |-> IF t[3] = "ready" THEN NoJob ELSE j]
    BY <2>1 DEF Targets
  <2>3. QED
    BY <1>1, <2>2, Moves DEF Settled, Ready
<1>2. CASE Targets(p, end, j) = {} /\ end = "interrupted"
  <2>1. Advance(Ready, "start", j) = [at |-> "starting", job |-> j]
    BY Moves, AdvanceGoes DEF Ready, Concerns
  <2>2. Advance([at |-> "starting", job |-> j], "interrupted", j) = [at |-> "attention", job |-> j]
    BY Moves, AdvanceGoes DEF Concerns
  <2>3. QED
    BY <1>2, <2>1, <2>2 DEF Settled
<1>3. QED
  BY <1>1, <1>2 DEF Settled

--------------------------------------------------------------------------------
(* What is shown *)

(* The workflow tells what the daemon is at. *)
InStep ==
  /\ activity \in Activities
  /\ phase \in Phases
  /\ ReadyIsNobodys
  /\ activity.kind = "recording" => phase = [at |-> "recording", job |-> activity.job]
  /\ activity.kind = "processing" => phase = [at |-> "transcribing", job |-> activity.job]
  /\ activity.kind = "idle" => phase.at \in {"ready", "attention"}

(* So do its mirrors, save for a prompt that the overlay was not told is gone. *)
Mirrored ==
  /\ recording = (activity.kind = "recording")
  /\ unshown \in BOOLEAN
  /\ IF unshown THEN phase = Ready /\ overlay = "attention"
     ELSE overlay = OverlayUpdate(activity, phase)

LEMMA ActivityKinds ==
  ASSUME NEW act \in Activities
  PROVE  /\ act.kind \in {"idle", "recording", "processing"}
         /\ act.kind = "idle" => act = Idle
         /\ act.kind = "recording" => act.job \in Jobs /\ act = Recording(act.job) /\ act.by = "none"
         /\ act.kind = "processing" =>
              act.job \in Jobs /\ act.by \in Requesters /\ act = Processing(act.job, act.by)
  BY DEF Activities, Idle, Recording, Processing

LEMMA ShownIs == WorkflowFollowsActivity /\ ReadyIsNobodys <=> TypeOK /\ InStep /\ Mirrored
<1>1. TypeOK => activity \in Activities /\ phase \in Phases /\ unshown \in BOOLEAN
  BY DEF TypeOK, Phases
<1>2. QED
  BY <1>1, ActivityKinds DEF WorkflowFollowsActivity, InStep, Mirrored

(* What is published is what the daemon is at. *)
LEMMA PublishMirrors ==
  ASSUME InStep', NEW notice, NEW j, Publish(activity', phase', notice, j)
  PROVE  Mirrored'
<1>1. activity'.kind = "recording" <=> phase'.at \in {"starting", "recording"}
  BY ActivityKinds DEF InStep
<1>2. recording' = (activity'.kind = "recording")
  BY <1>1 DEF Publish
<1> DEFINE no == FALSE
<1>3. unshown' = no /\ overlay' = OverlayUpdate(activity', phase')
  BY DEF Publish
<1>4. no \in BOOLEAN /\ ~no
  OBVIOUS
<1> HIDE DEF no
<1>5. QED
  BY <1>2, <1>3, <1>4 DEF Mirrored

LEMMA StandStill ==
  ASSUME InStep, Mirrored, UNCHANGED <<activity, phase>>
  PROVE  /\ InStep'
         /\ UNCHANGED <<recording, overlay, unshown>> => Mirrored'
         /\ \A notice, j : Publish(activity, phase', notice, j) => Mirrored'
         /\ Unpublished => Mirrored'
<1>1. InStep'
  BY DEF InStep, ReadyIsNobodys
<1>2. UNCHANGED <<recording, overlay, unshown>> => Mirrored'
  BY DEF Mirrored
<1>3. QED
  BY <1>1, <1>2, PublishMirrors DEF Unpublished

(* A settled dictation leaves the daemon idle. *)
LEMMA SettleShows ==
  ASSUME NEW p, NEW j \in Jobs, NEW end \in Ends, NEW notice, Settle(p, j, end, notice)
  PROVE  InStep' /\ Mirrored' /\ activity' = Idle
<1>1. phase' \in {Ready, [at |-> "attention", job |-> j]}
  BY SettledRests DEF Settle
<1>2. InStep'
  <2>1. activity' = Idle /\ Idle \in Activities /\ Idle.kind = "idle"
    BY DEF Settle, Activities, Idle
  <2>2. phase' \in Phases /\ phase'.at \in {"ready", "attention"}
    BY <1>1 DEF Ready, Phases, Busy
  <2>3. phase'.at = "ready" => phase'.job = NoJob
    BY <1>1 DEF Ready
  <2>4. QED
    BY <2>1, <2>2, <2>3 DEF InStep, ReadyIsNobodys
<1>3. QED
  BY <1>2, PublishMirrors DEF Settle

LEMMA InterruptShows ==
  ASSUME NEW p, NEW j \in Jobs, NEW notice, Interrupt(p, j, notice)
  PROVE  InStep' /\ Mirrored' /\ activity' = Idle
  BY SettleShows DEF Interrupt, Ends

(* At rest the workflow lets a dictation begin. *)
LEMMA BeginShows ==
  ASSUME InStep, activity = Idle, NEW j \in Jobs
  PROVE  /\ Advance(phase, "start", j) = [at |-> "starting", job |-> j]
         /\ Advance(phase, "retry", j) = [at |-> "transcribing", job |-> j]
         /\ Advance([at |-> "starting", job |-> j], "first_frame", j) = [at |-> "recording", job |-> j]
<1>1. phase.at \in {"ready", "attention"}
  BY DEF InStep, Idle
<1>2. \A signal \in {"start", "retry"} : Concerns(phase, signal, j)
  BY <1>1 DEF Concerns, InStep, ReadyIsNobodys
<1>3. Advance(phase, "start", j) = [at |-> "starting", job |-> j]
  BY <1>1, <1>2, Moves, AdvanceGoes
<1>4. Advance(phase, "retry", j) = [at |-> "transcribing", job |-> j]
  BY <1>1, <1>2, Moves, AdvanceGoes
<1>5. Advance([at |-> "starting", job |-> j], "first_frame", j) = [at |-> "recording", job |-> j]
  BY Moves, AdvanceGoes DEF Concerns
<1>6. QED
  BY <1>3, <1>4, <1>5

(* A recording that is stopped is transcribed. *)
LEMMA StopShows ==
  ASSUME InStep, NEW j \in Jobs, activity = Recording(j)
  PROVE  Advance(Advance(phase, "stop", j), "captured", j) = [at |-> "transcribing", job |-> j]
<1>1. phase = [at |-> "recording", job |-> j]
  BY DEF InStep, Recording
<1>2. Advance(phase, "stop", j) = [at |-> "stopping", job |-> j]
  BY <1>1, Moves, AdvanceGoes DEF Concerns
<1>3. QED
  BY <1>2, Moves, AdvanceGoes DEF Concerns

(* The daemon is at a dictation, and shows it. *)
LEMMA WorkShows ==
  ASSUME NEW j \in Jobs, PublishNothing,
         \/ activity' = Recording(j) /\ phase' = [at |-> "recording", job |-> j]
         \/ \E by \in Requesters :
              activity' = Processing(j, by) /\ phase' = [at |-> "transcribing", job |-> j]
  PROVE  InStep' /\ Mirrored'
<1>1. InStep'
  BY DEF InStep, ReadyIsNobodys, Activities, Recording, Processing, Phases, Busy
<1>2. QED
  BY <1>1, PublishMirrors DEF PublishNothing

LEMMA StartShows ==
  ASSUME Inv, NEW j \in Jobs, StartRecording(j)
  PROVE  InStep' /\ Mirrored'
<1> USE ShownIs DEF Inv
<1>1. activity = Idle /\ Advance(phase, "start", j) = [at |-> "starting", job |-> j]
  BY BeginShows DEF StartRecording
<1>2. \/ /\ activity' = Recording(j)
         /\ phase' = Advance([at |-> "starting", job |-> j], "first_frame", j)
         /\ PublishNothing
      \/ \E found, notice : AbandonStart([at |-> "starting", job |-> j], j, found, notice)
  BY <1>1 DEF StartRecording
<1>3. CASE activity' = Recording(j) /\ PublishNothing
           /\ phase' = Advance([at |-> "starting", job |-> j], "first_frame", j)
  BY <1>1, <1>3, BeginShows, WorkShows
<1>4. ASSUME NEW found, NEW notice, AbandonStart([at |-> "starting", job |-> j], j, found, notice)
      PROVE  InStep' /\ Mirrored'
  <2>1. CASE IsRow(found)
    BY <1>4, <2>1, InterruptShows DEF AbandonStart
  <2>2. CASE ~IsRow(found)
    <3>1. phase' = Ready /\ activity' = Idle /\ Publish(activity', phase', "none", j)
      BY <1>1, <1>4, <2>2 DEF AbandonStart
    <3>2. InStep'
      BY <3>1 DEF InStep, ReadyIsNobodys, Ready, Idle, Activities, Phases, Busy
    <3>3. QED
      BY <3>1, <3>2, PublishMirrors
  <2>3. QED
    BY <2>1, <2>2
<1>5. QED
  BY <1>2, <1>3, <1>4

LEMMA EndShows ==
  ASSUME Inv, NEW j \in Jobs, StopRecording(j) \/ DiscardRecording(j) \/ RecorderFailed(j)
  PROVE  InStep' /\ Mirrored'
<1>1. CASE StopRecording(j)
  <2>1. Advance(Advance(phase, "stop", j), "captured", j) = [at |-> "transcribing", job |-> j]
    BY <1>1, ShownIs, StopShows DEF Inv, StopRecording
  <2>2. \/ /\ activity' = Processing(j, "dictation")
           /\ phase' = Advance(Advance(phase, "stop", j), "captured", j)
           /\ PublishNothing
        \/ Interrupt(Advance(phase, "stop", j), j, Failed.try)
    BY <1>1 DEF StopRecording
  <2>3. QED
    BY <2>1, <2>2, WorkShows, InterruptShows DEF Requesters
<1>2. CASE DiscardRecording(j)
  <2>1. Settle(phase, j, "discard", "none") \/ Interrupt(phase, j, Failed.try)
    BY <1>2 DEF DiscardRecording
  <2>2. QED
    BY <2>1, SettleShows, InterruptShows DEF Ends
<1>3. CASE RecorderFailed(j)
  BY <1>3, InterruptShows DEF RecorderFailed
<1>4. QED
  BY <1>1, <1>2, <1>3

LEMMA ShutdownShows ==
  ASSUME Inv, Shutdown
  PROVE  InStep' /\ Mirrored'
<1>1. CASE activity.kind = "recording" /\ Interrupt(phase, activity.job, "none")
  <2>1. activity.job \in Jobs
    BY <1>1, ShownIs, ActivityKinds DEF Inv, InStep
  <2>2. QED
    BY <1>1, <2>1, InterruptShows
<1>2. CASE Unpublished /\ UNCHANGED <<activity, phase>>
  BY <1>2, ShownIs, StandStill DEF Inv
<1>3. QED
  BY <1>1, <1>2 DEF Shutdown

LEMMA EndWaitShows ==
  ASSUME Inv, NEW j \in Jobs, NEW end, NEW notice, EndWait(j, end, notice) \/ FailWait(j, end, notice),
         end \in Ends \/ ~Current(j)
  PROVE  InStep' /\ Mirrored'
<1>1. CASE Current(j)
  BY <1>1, SettleShows DEF EndWait, FailWait
<1>2. CASE ~Current(j)
  BY <1>2, ShownIs, StandStill, PublishMirrors DEF EndWait, FailWait, Inv, PublishNothing
<1>3. QED
  BY <1>1, <1>2

LEMMA DeliverShows ==
  ASSUME NEW j \in Jobs, NEW row, Deliver(j, row)
  PROVE  InStep' /\ Mirrored'
<1> DEFINE delivering == Advance(Advance(phase, "stored", j), "delivery", j)
<1>1. (\E notice : Settle(delivering, j, "submitted", notice))
      \/ (\E notice : Interrupt(delivering, j, notice))
  BY DEF Deliver
<1> HIDE DEF delivering
<1>2. QED
  BY <1>1, SettleShows, InterruptShows DEF Ends

LEMMA CompleteShows ==
  ASSUME Inv, NEW j \in Jobs, CompleteTranscription(j)
  PROVE  InStep' /\ Mirrored'
<1>1. \/ \E end \in Ends : \E notice : EndWait(j, end, notice) \/ FailWait(j, end, notice)
      \/ ~Current(j) /\ EndWait(j, "stored", "none")
      \/ Deliver(j, StoreReady(StoreRaw(jobs[j])))
  BY DEF CompleteTranscription, Ends
<1>2. QED
  BY <1>1, EndWaitShows, DeliverShows

LEMMA RecoveryShows ==
  ASSUME Inv, NEW j \in Jobs, NEW by \in Requesters, BeginRetry(j, by) \/ CopyAgain(j) \/ DeleteRecovery(j)
  PROVE  InStep' /\ Mirrored'
<1> USE ShownIs DEF Inv
<1>1. CASE BeginRetry(j, by)
  <2>1. CASE Unpublished /\ UNCHANGED <<activity, phase>>
    BY <2>1, StandStill
  <2>2. CASE activity' = Processing(j, by) /\ phase' = Advance(phase, "retry", j) /\ PublishNothing
    BY <1>1, <2>2, BeginShows, WorkShows DEF BeginRetry
  <2>3. QED
    BY <1>1, <2>1, <2>2 DEF BeginRetry
<1>2. ASSUME ClearAttention(j), activity' = activity, Publish(activity, phase', "none", NoJob)
      PROVE  InStep' /\ Mirrored'
  <2>1. CASE phase' = phase
    BY <1>2, <2>1, StandStill
  <2>2. CASE phase' = Ready /\ phase.at = "attention"
    <3>1. activity.kind = "idle"
      BY <2>2, ActivityKinds DEF InStep
    <3>2. InStep'
      BY <1>2, <2>2, <3>1 DEF InStep, ReadyIsNobodys, Ready, Phases, Busy
    <3>3. QED
      BY <1>2, <3>2, PublishMirrors
  <2>3. QED
    BY <1>2, <2>1, <2>2 DEF ClearAttention
<1>3. CASE CopyAgain(j)
  <2>1. /\ UNCHANGED activity
        /\ \/ Unpublished /\ UNCHANGED phase
           \/ ClearAttention(j) /\ Publish(activity, phase', "none", NoJob)
    BY <1>3 DEF CopyAgain
  <2>2. QED
    BY <1>2, <2>1, StandStill
<1>4. ASSUME ClearAttention(j), UNCHANGED activity, Unshown
      PROVE  InStep' /\ Mirrored'
  <2>0. unshown' = (unshown \/ phase' # phase) /\ UNCHANGED <<recording, overlay>>
    BY <1>4 DEF Unshown
  <2>1. CASE phase' = phase
    BY <1>4, <2>0, <2>1, StandStill DEF Mirrored
  <2>2. CASE phase' = Ready /\ phase.at = "attention"
    <3>1. activity.kind = "idle"
      BY <2>2, ActivityKinds DEF InStep
    <3>2. InStep'
      BY <1>4, <2>2, <3>1 DEF InStep, ReadyIsNobodys, Ready, Phases, Busy
    <3>3. phase # Ready
      BY <2>2 DEF Ready
    <3>4. overlay' = "attention" /\ unshown'
      BY <2>0, <2>2, <3>1, <3>3 DEF Mirrored, OverlayUpdate
    <3>5. QED
      BY <1>4, <2>0, <2>2, <3>2, <3>4 DEF Mirrored
  <2>3. QED
    BY <1>4, <2>1, <2>2 DEF ClearAttention
<1>5. CASE DeleteRecovery(j)
  BY <1>2, <1>4, <1>5 DEF DeleteRecovery
<1>6. QED
  BY <1>1, <1>3, <1>5

(* What is shown follows every step. *)
LEMMA ShownStep ==
  ASSUME Inv, Next
  PROVE  InStep' /\ Mirrored'
<1> USE ShownIs DEF Inv
<1>1. ASSUME NEW j \in Jobs, StartRecording(j) \/ StopRecording(j) \/ DiscardRecording(j)
                             \/ RecorderFailed(j) \/ CompleteTranscription(j)
      PROVE  InStep' /\ Mirrored'
  BY <1>1, StartShows, EndShows, CompleteShows
<1>2. ASSUME NEW j \in Jobs, TranscribeAgain(j) \/ FollowTryAgain(j) \/ CopyAgain(j) \/ DeleteRecovery(j)
      PROVE  InStep' /\ Mirrored'
  <2>1. \E by \in Requesters : BeginRetry(j, by) \/ CopyAgain(j) \/ DeleteRecovery(j)
    BY <1>2 DEF TranscribeAgain, FollowTryAgain, Requesters
  <2>2. QED
    BY <2>1, RecoveryShows
<1>3. ASSUME NEW j \in Jobs, DeleteHistory(j) \/ GrowOld(j)
      PROVE  InStep' /\ Mirrored'
  BY <1>3, StandStill DEF DeleteHistory, GrowOld
<1>4. ASSUME NEW j \in Jobs, FollowPasteAgain(j)
      PROVE  InStep' /\ Mirrored'
  <2>1. UNCHANGED <<activity, phase>> /\ (Unpublished \/ \E notice : Publish(activity, phase, notice, j))
    BY <1>4 DEF FollowPasteAgain, PasteDictation, PasteAgain, PastesOnly
  <2>2. QED
    BY <2>1, StandStill
<1>5. CASE PasteLast
  <2>1. UNCHANGED <<activity, phase>> /\ \E notice : Publish(activity, phase, notice, last)
    BY <1>5 DEF PasteLast, PasteAgain, PastesOnly
  <2>2. QED
    BY <2>1, StandStill
<1>6. CASE CancelProcessing
  <2>1. activity.job \in Jobs
    BY <1>6, ActivityKinds DEF CancelProcessing, InStep
  <2>2. QED
    BY <1>6, <2>1, SettleShows DEF CancelProcessing, Ends
<1>7. CASE ClearHistory \/ Maintenance
  BY <1>7, StandStill DEF ClearHistory, Maintenance
<1>8. CASE Restart
  <2>1. InStep'
    BY <1>8 DEF Restart, InStep, ReadyIsNobodys, Ready, Idle, Activities, Phases, Busy
  <2>2. QED
    BY <1>8, <2>1, PublishMirrors DEF Restart, PublishNothing
<1>9. QED
  BY <1>1, <1>2, <1>3, <1>4, <1>5, <1>6, <1>7, <1>8, ShutdownShows DEF Next

--------------------------------------------------------------------------------
(* The table *)

Sound(row) == row \in Rows /\ Fits(row)

(* What a statement may make of a row. *)
Lawful(old, new) ==
  /\ Sound(new)
  /\ ~IsRow(old) => ~IsRow(new)
  /\ new.expired => old.expired

LEMMA NoRowIsSound == Sound(NoRow) /\ ~IsRow(NoRow) /\ ~NoRow.expired /\ ~NoRow.text
  BY DEF Sound, Fits, NoRow, Rows, Stages, Deliveries, IsRow

LEMMA InsertedRows ==
  /\ Sound(InsertStarting) /\ Sound(UpdateStage(InsertStarting, "recording"))
  /\ Sound(UpdateStage(InsertStarting, "interrupted"))
  /\ InsertStarting.stage = "starting"
  /\ UpdateStage(InsertStarting, "recording").stage = "recording"
  /\ RetryAllowed(UpdateStage(InsertStarting, "interrupted"))
  /\ \A row \in {InsertStarting, UpdateStage(InsertStarting, "recording"),
                 UpdateStage(InsertStarting, "interrupted")} : ~row.expired
  BY DEF Sound, Fits, NoRow, Rows, Stages, Deliveries, IsRow, InsertStarting, UpdateStage,
     Updated, 
     RetryAllowed

(* A statement leaves a row that is gone, and makes a younger one of a row that is there. *)
LEMMA UpdatedIs ==
  ASSUME NEW row \in Rows, NEW new \in Rows, new.stage # "none"
  PROVE  /\ ~IsRow(row) => Updated(row, new) = row
         /\ IsRow(row) =>
              /\ Updated(row, new) \in Rows
              /\ ~Updated(row, new).expired
              /\ Updated(row, new).stage = new.stage
              /\ Updated(row, new).delivery = new.delivery
              /\ Updated(row, new).text = new.text
  BY DEF Updated, IsRow, Rows

(* It is lawful when a row that was not transcribed was not delivered. *)
LEMMA UpdatedIsLawful ==
  ASSUME NEW row, Sound(row), NEW new \in Rows, new.stage # "none",
         new.stage \in {"starting", "recording", "captured", "transcribing"} =>
           new.delivery = "not_attempted"
  PROVE  Lawful(row, Updated(row, new))
<1>1. CASE ~IsRow(row)
  BY <1>1, UpdatedIs DEF Sound, Lawful
<1>2. CASE IsRow(row)
  BY <1>2, UpdatedIs DEF Sound, Lawful, Fits, IsRow
<1>3. QED
  BY <1>1, <1>2

(* Before it was stored, a dictation's row moves on or is interrupted. *)
LEMMA EarlyStatements ==
  ASSUME NEW row, Sound(row), row.delivery = "not_attempted"
  PROVE  /\ \A stage \in Stages :
              /\ Lawful(row, UpdateStage(row, stage))
              /\ IsRow(row) => /\ UpdateStage(row, stage).stage = stage
                               /\ UpdateStage(row, stage).delivery = "not_attempted"
         /\ \A long \in BOOLEAN :
              /\ Lawful(row, Captured(row, long))
              /\ IsRow(row) => /\ Captured(row, long).stage = "captured"
                               /\ Captured(row, long).delivery = "not_attempted"
<1>1. ASSUME NEW stage \in Stages
      PROVE  /\ Lawful(row, UpdateStage(row, stage))
             /\ IsRow(row) => /\ UpdateStage(row, stage).stage = stage
                              /\ UpdateStage(row, stage).delivery = "not_attempted"
  <2> DEFINE new == [row EXCEPT !.stage = stage]
  <2>1. new \in Rows /\ new.stage = stage /\ new.delivery = "not_attempted" /\ stage # "none"
    BY DEF Sound, Rows, Stages
  <2> HIDE DEF new
  <2>2. QED
    BY <2>1, UpdatedIs, UpdatedIsLawful DEF UpdateStage, Sound, new
<1>2. ASSUME NEW long \in BOOLEAN
      PROVE  /\ Lawful(row, Captured(row, long))
             /\ IsRow(row) => /\ Captured(row, long).stage = "captured"
                              /\ Captured(row, long).delivery = "not_attempted"
  <2> DEFINE new == [row EXCEPT !.stage = "captured", !.long = long]
  <2>1. new \in Rows /\ new.stage = "captured" /\ new.delivery = "not_attempted"
    BY DEF Sound, Rows, Stages
  <2> HIDE DEF new
  <2>2. QED
    BY <2>1, UpdatedIs, UpdatedIsLawful DEF Captured, Sound, new
<1>3. QED
  BY <1>1, <1>2

(* What comes after transcription. *)
LEMMA LateStatements ==
  ASSUME NEW row, Sound(row), IsRow(row)
  PROVE  /\ \A new \in {StoreRaw(row), StoreReady(row), RetryDelivery(row), RetryTranscription(row),
                        GateBlocked(row), NotSent(row), Submitted(row), Ambiguous(row)} :
              Lawful(row, new) /\ IsRow(new) /\ ~new.expired
         /\ StoreRaw(row).stage = row.stage /\ StoreRaw(row).delivery = row.delivery
         /\ RetryTranscription(row).stage = "transcribing"
         /\ StoreReady(row).stage = "ready_to_deliver" /\ StoreReady(row).text
         /\ RetryDelivery(row).stage = "ready_to_deliver" /\ RetryDelivery(row).text = row.text
         /\ \A new \in {GateBlocked(row), NotSent(row), Submitted(row), Ambiguous(row)} :
              new.text = row.text
<1> DEFINE raw == [row EXCEPT !.raw = TRUE]
           ready == [row EXCEPT !.stage = "ready_to_deliver", !.text = TRUE, !.delivery = "not_attempted"]
           again == [row EXCEPT !.stage = "ready_to_deliver", !.delivery = "not_attempted"]
           retried == [row EXCEPT !.stage = "transcribing", !.delivery = "not_attempted"]
           unsent == [row EXCEPT !.delivery = "not_attempted"]
           sent == [row EXCEPT !.stage = "delivered", !.delivery = "submitted"]
           unknown == [row EXCEPT !.stage = "failed", !.delivery = "ambiguous"]
<1>0. /\ row \in Rows /\ row.stage # "none"
      /\ row.stage \in {"starting", "recording", "captured", "transcribing"} =>
           row.delivery = "not_attempted"
  BY DEF Sound, Fits, IsRow
<1>1. raw \in Rows /\ raw.stage = row.stage /\ raw.delivery = row.delivery
  BY <1>0 DEF Rows
<1>2. ready \in Rows /\ ready.stage = "ready_to_deliver" /\ ready.text
  BY <1>0 DEF Rows, Stages, Deliveries
<1>3. again \in Rows /\ again.stage = "ready_to_deliver" /\ again.text = row.text
  BY <1>0 DEF Rows, Stages, Deliveries
<1>4. retried \in Rows /\ retried.stage = "transcribing" /\ retried.delivery = "not_attempted"
  BY <1>0 DEF Rows, Stages, Deliveries
<1>5. unsent \in Rows /\ unsent.stage = row.stage /\ unsent.delivery = "not_attempted" /\ unsent.text = row.text
  BY <1>0 DEF Rows, Deliveries
<1>6. sent \in Rows /\ sent.stage = "delivered" /\ sent.text = row.text
  BY <1>0 DEF Rows, Stages, Deliveries
<1>7. unknown \in Rows /\ unknown.stage = "failed" /\ unknown.text = row.text
  BY <1>0 DEF Rows, Stages, Deliveries
<1> HIDE DEF raw, ready, again, retried, unsent, sent, unknown
<1>8. ASSUME NEW new \in {row, raw, ready, again, retried, unsent, sent, unknown}
      PROVE  /\ Lawful(row, Updated(row, new)) /\ IsRow(Updated(row, new)) /\ ~Updated(row, new).expired
             /\ Updated(row, new).stage = new.stage /\ Updated(row, new).delivery = new.delivery
             /\ Updated(row, new).text = new.text
  <2>1. new \in Rows /\ new.stage # "none"
    BY <1>0, <1>1, <1>2, <1>3, <1>4, <1>5, <1>6, <1>7
  <2>2. new.stage \in {"starting", "recording", "captured", "transcribing"} => new.delivery = "not_attempted"
    BY <1>0, <1>1, <1>2, <1>3, <1>4, <1>5, <1>6, <1>7
  <2>3. QED
    BY <1>0, <2>1, <2>2, UpdatedIs, UpdatedIsLawful DEF IsRow
<1>9. /\ StoreRaw(row) = Updated(row, raw) /\ StoreReady(row) = Updated(row, ready)
      /\ RetryDelivery(row) = Updated(row, again) /\ RetryTranscription(row) = Updated(row, retried)
      /\ GateBlocked(row) = Updated(row, row) /\ NotSent(row) = Updated(row, unsent)
      /\ Submitted(row) = Updated(row, sent) /\ Ambiguous(row) = Updated(row, unknown)
  BY DEF StoreRaw, StoreReady, RetryDelivery, RetryTranscription, GateBlocked, NotSent,
     Submitted, 
     Ambiguous, raw, ready, again, retried, unsent, sent, unknown
<1>10. QED
  BY <1>1, <1>2, <1>3, <1>4, <1>5, <1>6, <1>7, <1>8, <1>9

LEMMA LawfulTwice ==
  ASSUME NEW a, NEW b, NEW c, Lawful(a, b), Lawful(b, c)
  PROVE  Lawful(a, c)
  BY DEF Lawful

LEMMA SameIsLawful == ASSUME NEW row, Sound(row) PROVE Lawful(row, row)
  BY DEF Lawful

LEMMA NoneIsLawful == ASSUME NEW row PROVE Lawful(row, NoRow)
  BY NoRowIsSound DEF Lawful

(* A failure that is recorded leaves the text, and a transcription that failed may be
   retried. *)
LEMMA FailJobIs ==
  ASSUME NEW row, Sound(row), IsRow(row)
  PROVE  /\ Lawful(row, FailJob(row)) /\ IsRow(FailJob(row)) /\ FailJob(row).text = row.text
         /\ row.stage = "transcribing" => RetryAllowed(FailJob(row)) /\ FailJob(row).stage = "failed"
<1> DEFINE kind == IF row.delivery = "attempting" THEN "ambiguous" ELSE row.delivery
           new == [row EXCEPT !.stage = "failed", !.delivery = kind]
<1>0. row \in Rows /\ (row.stage = "transcribing" => row.delivery = "not_attempted")
  BY DEF Sound, Fits
<1>1. kind \in Deliveries
  BY <1>0 DEF Rows, Deliveries
<1>2. kind = row.delivery \/ row.delivery = "attempting"
  OBVIOUS
<1>3. FailJob(row) = IF row.stage = "transcribing" \/ row.delivery = "attempting"
                     THEN Updated(row, new) ELSE row
  BY Zenon DEF FailJob
<1> HIDE DEF kind
<1>4. new \in Rows /\ new.stage = "failed" /\ new.delivery = kind /\ new.text = row.text
  BY <1>0, <1>1 DEF Rows, Stages
<1> HIDE DEF new
<1>5. CASE row.stage = "transcribing" \/ row.delivery = "attempting"
  <2>1. FailJob(row) = Updated(row, new)
    BY <1>3, <1>5
  <2>2. Lawful(row, FailJob(row))
    BY <1>4, <2>1, UpdatedIsLawful
  <2>3. IsRow(FailJob(row)) /\ FailJob(row).stage = "failed" /\ FailJob(row).delivery = kind
        /\ FailJob(row).text = row.text
    BY <1>0, <1>4, <2>1, UpdatedIs DEF IsRow
  <2>4. row.stage = "transcribing" => kind = "not_attempted"
    BY <1>0, <1>2
  <2>5. QED
    BY <2>2, <2>3, <2>4 DEF RetryAllowed
<1>6. CASE ~(row.stage = "transcribing" \/ row.delivery = "attempting")
  BY <1>3, <1>6, SameIsLawful
<1>7. QED
  BY <1>5, <1>6

LEMMA AttemptingIs ==
  ASSUME NEW row, Sound(row), row.stage = "ready_to_deliver"
  PROVE  Lawful(row, Attempting(row)) /\ IsRow(Attempting(row)) /\ Attempting(row).text = row.text
<1> DEFINE new == [row EXCEPT !.delivery = "attempting"]
<1>1. new \in Rows /\ new.stage = "ready_to_deliver" /\ new.text = row.text
  BY DEF Sound, Rows, Deliveries
<1> HIDE DEF new
<1>2. Attempting(row) = Updated(row, new)
  BY DEF Attempting, new
<1>3. QED
  BY <1>1, <1>2, UpdatedIs, UpdatedIsLawful DEF Sound, IsRow

(* However a delivery ends, the row keeps the text, and nothing was taken that was not sent. *)
LEMMA OutcomeIs ==
  ASSUME NEW row, Sound(row), row.stage = "ready_to_deliver", row.text, NEW pastes \in BOOLEAN,
         NEW outcome \in DeliveryOutcomes(row, pastes)
  PROVE  /\ Lawful(row, outcome.row) /\ IsRow(outcome.row) /\ outcome.row.text
         /\ outcome.sent \in BOOLEAN /\ outcome.taken \in BOOLEAN
         /\ outcome.taken => outcome.sent
         /\ outcome.faults \in Nat
<1> DEFINE attempting == Attempting(row)
           rows == {row, attempting, NotSent(attempting), Submitted(attempting), FailJob(attempting),
                    GateBlocked(row), Ambiguous(attempting)}
<1>1. Lawful(row, attempting) /\ IsRow(attempting) /\ attempting.text /\ IsRow(row)
  BY AttemptingIs DEF IsRow
<1>2. Sound(attempting)
  BY <1>1 DEF Lawful
<1>3. \A new \in {NotSent(attempting), Submitted(attempting), Ambiguous(attempting), FailJob(attempting)} :
        Lawful(attempting, new) /\ IsRow(new) /\ new.text
  BY <1>1, <1>2, LateStatements, FailJobIs
<1>4. Lawful(row, GateBlocked(row)) /\ IsRow(GateBlocked(row)) /\ GateBlocked(row).text
  BY <1>1, LateStatements
<1>5. \A new \in rows : Lawful(row, new) /\ IsRow(new) /\ new.text
  BY <1>1, <1>3, <1>4, LawfulTwice, SameIsLawful
<1>6. /\ outcome.row \in rows
      /\ outcome.sent \in BOOLEAN /\ outcome.taken \in BOOLEAN
      /\ outcome.taken => outcome.sent
      /\ outcome.faults \in Nat
  <2> DEFINE Of(new, faults, result, sent, taken) ==
               [row |-> new, faults |-> faults, result |-> result, sent |-> sent, taken |-> taken]
             no == FALSE
             yes == TRUE
  <2>1. \/ outcome = Of(row, 1, "error", no, no)
        \/ outcome = Of(NotSent(attempting), 0, "not_sent", no, no)
        \/ outcome = Of(NotSent(attempting), 1, "error", no, no)
        \/ \E taken \in {no, pastes} : outcome = Of(Submitted(attempting), 0, "delivered", pastes, taken)
        \/ \E taken \in {no, pastes} : outcome = Of(Submitted(attempting), 1, "error", pastes, taken)
        \/ \E sent \in {no, pastes} : outcome = Of(FailJob(attempting), 1, "error", sent, no)
        \/ \E sent \in {no, pastes} : outcome = Of(attempting, 2, "error", sent, no)
        \/ outcome = Of(GateBlocked(row), 0, "error", no, no)
        \/ pastes /\ outcome = Of(Ambiguous(attempting), 0, "ambiguous", yes, no)
    BY Zenon DEF DeliveryOutcomes
  <2>2. ASSUME NEW new \in rows, NEW faults \in {0, 1, 2}, NEW result, NEW sent \in BOOLEAN,
               NEW taken \in BOOLEAN, taken => sent, outcome = Of(new, faults, result, sent, taken)
        PROVE  /\ outcome.row \in rows /\ outcome.faults \in {0, 1, 2}
               /\ outcome.sent \in BOOLEAN /\ outcome.taken \in BOOLEAN
               /\ outcome.taken => outcome.sent
    <3> HIDE DEF rows
    <3>1. outcome.row = new /\ outcome.faults = faults /\ outcome.sent = sent /\ outcome.taken = taken
      BY <2>2
    <3>2. QED
      BY <2>2, <3>1, Zenon
  <2>3. no \in BOOLEAN /\ yes \in BOOLEAN /\ ~no /\ yes
    OBVIOUS
  <2> HIDE DEF Of, no, yes
  <2>4. \E new \in rows, faults \in {0, 1, 2}, sent \in BOOLEAN, taken \in BOOLEAN : \E result :
          (taken => sent) /\ outcome = Of(new, faults, result, sent, taken)
    BY <2>1, <2>3
  <2>5. QED
    BY <2>2, <2>4
<1>7. QED
  BY <1>5, <1>6

(* A recording's row, however it ends. *)
LEMMA EndedRows ==
  ASSUME NEW row, Sound(row), row.stage = "recording"
  PROVE  /\ row.delivery = "not_attempted" /\ IsRow(row)
         /\ \A end \in Unfinished(row) \cup Preserved(row) :
              /\ Lawful(row, end.row)
              /\ end.faults \in Nat
              /\ end.faults <= 1 => RetryAllowed(end.row)
         /\ \A end \in Preserved(row) : end.kept \in BOOLEAN
         /\ \A long \in BOOLEAN :
              /\ Lawful(row, Captured(row, long)) /\ RetryAllowed(Captured(row, long))
              /\ \A stage \in {"transcribing", "cancelled", "interrupted"} :
                   /\ Lawful(row, UpdateStage(Captured(row, long), stage))
                   /\ UpdateStage(Captured(row, long), stage).stage = stage
                   /\ UpdateStage(Captured(row, long), stage).delivery = "not_attempted"
<1>1. row.delivery = "not_attempted" /\ IsRow(row)
  BY DEF Sound, Fits, IsRow
<1>2. ASSUME NEW long \in BOOLEAN
      PROVE  /\ Lawful(row, Captured(row, long)) /\ RetryAllowed(Captured(row, long))
             /\ \A stage \in {"transcribing", "cancelled", "interrupted"} :
                  /\ Lawful(row, UpdateStage(Captured(row, long), stage))
                  /\ UpdateStage(Captured(row, long), stage).stage = stage
                  /\ UpdateStage(Captured(row, long), stage).delivery = "not_attempted"
  <2> DEFINE captured == Captured(row, long)
  <2>1. /\ Lawful(row, captured) /\ captured.stage = "captured" /\ captured.delivery = "not_attempted"
        /\ Sound(captured) /\ IsRow(captured)
    BY <1>1, EarlyStatements DEF Lawful, IsRow
  <2> HIDE DEF captured
  <2>2. \A stage \in {"transcribing", "cancelled", "interrupted"} :
          /\ Lawful(captured, UpdateStage(captured, stage))
          /\ UpdateStage(captured, stage).stage = stage
          /\ UpdateStage(captured, stage).delivery = "not_attempted"
    BY <2>1, EarlyStatements DEF Stages
  <2>3. QED
    BY <2>1, <2>2, LawfulTwice DEF captured, RetryAllowed
<1>3. Lawful(row, UpdateStage(row, "interrupted")) /\ RetryAllowed(UpdateStage(row, "interrupted"))
  BY <1>1, EarlyStatements DEF Stages, RetryAllowed
<1>4. \A end \in Unfinished(row) : Lawful(row, end.row) /\ end.faults \in Nat /\ (end.faults <= 1 => RetryAllowed(end.row))
  BY <1>3, SameIsLawful DEF Unfinished
<1>5. ASSUME NEW end \in Preserved(row)
      PROVE  /\ Lawful(row, end.row) /\ end.faults \in Nat /\ end.kept \in BOOLEAN
             /\ end.faults <= 1 => RetryAllowed(end.row)
  <2>1. \A long \in BOOLEAN : RetryAllowed(UpdateStage(Captured(row, long), "interrupted"))
    BY <1>2 DEF RetryAllowed
  <2>2. /\ end.faults \in {0, 1, 2} /\ end.kept \in BOOLEAN
        /\ \/ \E long \in BOOLEAN :
                end.row \in {Captured(row, long), UpdateStage(Captured(row, long), "interrupted")}
           \/ end.row = UpdateStage(row, "interrupted")
           \/ end.row = row /\ end.faults = 2
    <3> DEFINE yes == TRUE
               no == FALSE
               Of(new, faults, kept) == [row |-> new, faults |-> faults, kept |-> kept]
    <3>1. \/ \E long \in BOOLEAN : end = Of(UpdateStage(Captured(row, long), "interrupted"), 0, yes)
          \/ \E long \in BOOLEAN : end = Of(UpdateStage(Captured(row, long), "interrupted"), 1, no)
          \/ \E long \in BOOLEAN : end = Of(Captured(row, long), 1, no)
          \/ \E kept \in BOOLEAN : end = Of(UpdateStage(row, "interrupted"), 1, kept)
          \/ end = Of(row, 2, no)
      BY Zenon DEF Preserved
    <3>2. yes \in BOOLEAN /\ no \in BOOLEAN
      OBVIOUS
    <3> HIDE DEF yes, no
    <3>3. QED
      BY <3>1, <3>2
  <2>3. QED
    BY <1>2, <1>3, <2>1, <2>2, SameIsLawful
<1>6. QED
  BY <1>1, <1>2, <1>4, <1>5

--------------------------------------------------------------------------------
(* What becomes of texts *)

Kept ==
  /\ jobs \in [Jobs -> Rows]
  /\ history \in [Jobs -> {"none", "kept", "old"}]
  /\ born \in SUBSET Jobs /\ forgotten \in SUBSET Jobs
  /\ last \in Jobs \cup {NoJob}
  /\ due \in BOOLEAN
  /\ RowsFit
  /\ UnbornIsNothing
  /\ KeptHasNoRow
  /\ ForgottenIsGone
  /\ LastIsYoung

LEMMA KeptHolds == Inv => Kept
  BY DEF Inv, WorkflowFollowsActivity, TypeOK, Kept

(* A row that is there is a dictation's that was started, and neither deleted nor finished. *)
LEMMA LivingRow ==
  ASSUME Kept, NEW j \in Jobs
  PROVE  /\ Sound(jobs[j])
         /\ IsRow(jobs[j]) => j \in born /\ j \notin forgotten /\ history[j] = "none"
         /\ ~IsRow(jobs[j]) => jobs[j] = NoRow
  BY NoRowIsSound DEF Kept, Sound, RowsFit, Fits, UnbornIsNothing, KeptHasNoRow,
     ForgottenIsGone

(* A statement on one row. *)
LEMMA PutKeeps ==
  ASSUME Kept, NEW j \in Jobs, NEW row, Lawful(jobs[j], row), Put(j, row),
         UNCHANGED <<history, born, forgotten, due>>,
         last' \in {last, NoJob} \/ (last' = j /\ IsRow(jobs[j]) /\ ~row.expired)
  PROVE  Kept'
<1>1. /\ jobs' \in [Jobs -> Rows] /\ jobs'[j] = row
      /\ \A k \in Jobs : k # j => jobs'[k] = jobs[k]
  BY DEF Put, Kept, Lawful, Sound
<1>2. \A k \in Jobs : Fits(jobs'[k])
  BY <1>1 DEF Kept, RowsFit, Lawful, Sound
<1>3. \A k \in Jobs : ~IsRow(jobs[k]) => jobs'[k] = NoRow
  <2> TAKE k \in Jobs
  <2>1. CASE k = j
    BY <1>1, <2>1 DEF Lawful, Sound, Fits
  <2>2. CASE k # j
    BY <1>1, <2>2, LivingRow
  <2>3. QED
    BY <2>1, <2>2
<1>4. \A k \in Jobs : jobs'[k].expired => jobs[k].expired
  BY <1>1 DEF Lawful
<1>5. UnbornIsNothing' /\ KeptHasNoRow'
  BY <1>3, NoRowIsSound DEF Kept, UnbornIsNothing, KeptHasNoRow
<1>6. ForgottenIsGone'
  <2> SUFFICES ASSUME NEW k \in forgotten PROVE jobs'[k] = NoRow /\ last' # k
    BY DEF ForgottenIsGone
  <2>1. k \in Jobs /\ jobs[k] = NoRow /\ last # k
    BY DEF Kept, ForgottenIsGone
  <2>2. QED
    BY <1>3, <2>1, NoRowIsSound, NoJobAssumption
<1>7. LastIsYoung'
  <2>1. last' = j => history[j] = "none" \/ last = j
    BY LivingRow, NoJobAssumption
  <2>2. QED
    BY <1>1, <1>4, <2>1, NoJobAssumption DEF Kept, LastIsYoung
<1>8. last' \in Jobs \cup {NoJob}
  BY DEF Kept
<1>9. QED
  BY <1>1, <1>2, <1>5, <1>6, <1>7, <1>8 DEF Kept, RowsFit

(* Retention, after the deliveries in `done` have moved to History. *)
LEMMA RetentionKeeps ==
  ASSUME Kept, NEW done \in SUBSET Jobs, \A j \in done : IsRow(jobs[j]),
         NEW goneRows \in SUBSET Jobs, NEW goneText \in SUBSET Jobs, NEW kept \in {"none", "kept"},
         Retained([j \in Jobs |-> IF j \in done THEN NoRow ELSE jobs[j]],
                  [j \in Jobs |-> IF j \in done THEN kept ELSE history[j]], goneRows, goneText),
         UNCHANGED born, due' \in BOOLEAN, due' => due,
         last' \in done \/ (UNCHANGED last /\ due)
  PROVE  /\ Kept'
         /\ \A j \in Jobs : ~InRecovery(jobs[j]) /\ j \notin done => jobs'[j] = jobs[j]
         /\ \A j \in done : j \notin forgotten'
<1> DEFINE table == [j \in Jobs |-> IF j \in done THEN NoRow ELSE jobs[j]]
           hist == [j \in Jobs |-> IF j \in done THEN kept ELSE history[j]]
<1>1. /\ table \in [Jobs -> Rows] /\ hist \in [Jobs -> {"none", "kept", "old"}]
      /\ \A j \in Jobs : table[j] = IF j \in done THEN NoRow ELSE jobs[j]
      /\ \A j \in Jobs : hist[j] = IF j \in done THEN kept ELSE history[j]
  BY NoRowIsSound DEF Kept, Sound
<1>2. /\ \A j \in goneRows : Expirable(table[j]) /\ table[j].expired
      /\ \A j \in goneText : hist[j] = "old"
      /\ jobs' = [j \in Jobs |-> IF j \in goneRows THEN NoRow ELSE table[j]]
      /\ history' = [j \in Jobs |-> IF j \in goneText THEN "none" ELSE hist[j]]
      /\ forgotten' = forgotten \cup goneRows \cup goneText
  BY DEF Retained
<1> HIDE DEF table, hist
<1>3. /\ jobs' \in [Jobs -> Rows] /\ history' \in [Jobs -> {"none", "kept", "old"}]
      /\ \A j \in Jobs : jobs'[j] = IF j \in goneRows \cup done THEN NoRow ELSE jobs[j]
      /\ \A j \in Jobs : history'[j] = IF j \in goneText THEN "none" ELSE hist[j]
  BY <1>1, <1>2, NoRowIsSound DEF Sound
<1>4. /\ \A j \in goneRows : j \notin done /\ InRecovery(jobs[j]) /\ jobs[j].expired
      /\ \A j \in goneText : j \notin done /\ history[j] = "old"
  BY <1>1, <1>2 DEF Expirable, InRecovery, NoRow
<1>5. \A j \in goneRows : IsRow(jobs[j])
  BY <1>4 DEF InRecovery, IsRow
<1>6. RowsFit' /\ forgotten' \in SUBSET Jobs /\ born' \in SUBSET Jobs
  BY <1>2, <1>3, NoRowIsSound DEF Kept, RowsFit, Sound
<1>7. UnbornIsNothing'
  BY <1>1, <1>2, <1>3, <1>4, <1>5, NoRowIsSound DEF Kept, UnbornIsNothing
<1>8. KeptHasNoRow'
  BY <1>1, <1>3 DEF Kept, KeptHasNoRow
<1>9. \A j \in done : j \notin forgotten'
  BY <1>2, <1>4, LivingRow
<1>10. last' \in Jobs \cup {NoJob} /\ (last' \in Jobs => last' \notin forgotten')
  <2>1. CASE last' \in done
    BY <1>9, <2>1
  <2>2. CASE UNCHANGED last /\ due
    BY <1>2, <1>4, <2>2 DEF Kept, ForgottenIsGone, LastIsYoung
  <2>3. QED
    BY <2>1, <2>2
<1>11. ForgottenIsGone'
  BY <1>2, <1>3, <1>4, <1>6, <1>10 DEF Kept, ForgottenIsGone, KeptHasNoRow
<1>12. LastIsYoung'
  BY <1>1, <1>3, <1>4, NoRowIsSound DEF Kept, LastIsYoung
<1>13. \A j \in Jobs : ~InRecovery(jobs[j]) /\ j \notin done => jobs'[j] = jobs[j]
  BY <1>3, <1>4
<1>14. QED
  BY <1>3, <1>6, <1>7, <1>8, <1>9, <1>10, <1>11, <1>12, <1>13 DEF Kept

(* A delivery that is completed, or whose completion failed. *)
LEMMA CompletionKeeps ==
  ASSUME Kept, NEW j \in Jobs, IsRow(jobs[j]), NEW row, Lawful(jobs[j], row), ~row.expired,
         CompleteDelivered(j, row), UNCHANGED <<born, due>>, last' = j
  PROVE  /\ Kept'
         /\ \A k \in Jobs : ~InRecovery(jobs[k]) /\ k # j => jobs'[k] = jobs[k]
         /\ j \notin forgotten'
<1>1. CASE Put(j, row) /\ UNCHANGED <<history, forgotten>>
  <2>1. Kept'
    BY <1>1, PutKeeps
  <2>2. QED
    BY <1>1, <2>1, LivingRow DEF Put, Kept
<1>2. ASSUME NEW kept \in {"none", "kept"}, NEW goneRows \in SUBSET Jobs, NEW goneText \in SUBSET Jobs,
             Retained([jobs EXCEPT ![j] = NoRow], [history EXCEPT ![j] = kept], goneRows, goneText)
      PROVE  /\ Kept'
             /\ \A k \in Jobs : ~InRecovery(jobs[k]) /\ k # j => jobs'[k] = jobs[k]
             /\ j \notin forgotten'
  <2> DEFINE done == {j}
  <2>1. /\ [jobs EXCEPT ![j] = NoRow] = [k \in Jobs |-> IF k \in done THEN NoRow ELSE jobs[k]]
        /\ [history EXCEPT ![j] = kept] = [k \in Jobs |-> IF k \in done THEN kept ELSE history[k]]
    BY DEF Kept
  <2>2. Retained([k \in Jobs |-> IF k \in done THEN NoRow ELSE jobs[k]],
                 [k \in Jobs |-> IF k \in done THEN kept ELSE history[k]], goneRows, goneText)
    BY <1>2, <2>1
  <2>3. /\ due' \in BOOLEAN /\ (due' => due)
        /\ done \in SUBSET Jobs /\ \A k \in done : IsRow(jobs[k])
        /\ last' \in done /\ j \in done /\ \A k \in Jobs : k # j => k \notin done
    BY DEF Kept
  <2> HIDE DEF done
  <2>4. /\ Kept'
        /\ \A k \in Jobs : ~InRecovery(jobs[k]) /\ k \notin done => jobs'[k] = jobs[k]
        /\ \A k \in done : k \notin forgotten'
    BY <2>2, <2>3, RetentionKeeps
  <2>5. QED
    BY <2>3, <2>4
<1>3. QED
  BY <1>1, <1>2 DEF CompleteDelivered

(* A dictation's first row. *)
LEMMA InsertKeeps ==
  ASSUME Kept, NEW j \in Jobs \ born, NEW row, Sound(row), ~row.expired, Put(j, row),
         born' = born \cup {j}, UNCHANGED <<history, forgotten, due, last>>
  PROVE  Kept'
<1>1. /\ jobs' \in [Jobs -> Rows] /\ jobs'[j] = row
      /\ \A k \in Jobs : k # j => jobs'[k] = jobs[k]
  BY DEF Put, Kept, Sound
<1>2. j \notin forgotten /\ history[j] = "none"
  BY DEF Kept, UnbornIsNothing
<1>3. RowsFit' /\ UnbornIsNothing' /\ KeptHasNoRow' /\ ForgottenIsGone' /\ LastIsYoung'
  BY <1>1, <1>2 DEF Kept, RowsFit, UnbornIsNothing, KeptHasNoRow, ForgottenIsGone,
     LastIsYoung, Sound
<1>4. QED
  BY <1>1, <1>3 DEF Kept

(* The row the daemon is at stays with it. *)
LEMMA ActivityStays ==
  ASSUME Inv, \/ activity' = Idle
              \/ /\ UNCHANGED activity
                 /\ activity.kind # "idle" => jobs'[activity.job] = jobs[activity.job]
  PROVE  RowOfActivity'
  BY ActivityKinds DEF Inv, WorkflowFollowsActivity, TypeOK, RowOfActivity, Idle

(* The row of what the daemon is at. *)
LEMMA ActivityRow ==
  ASSUME Inv, activity.kind # "idle"
  PROVE  /\ activity.job \in Jobs /\ Sound(jobs[activity.job]) /\ IsRow(jobs[activity.job])
         /\ ~InRecovery(jobs[activity.job]) /\ jobs[activity.job].stage # "delivered"
         /\ ~DeleteAllowed(jobs[activity.job])
         /\ activity.kind = "recording" => jobs[activity.job].stage = "recording"
         /\ activity.kind = "processing" => jobs[activity.job].stage = "transcribing"
<1>1. activity.job \in Jobs /\ activity.kind \in {"recording", "processing"}
  BY ActivityKinds DEF Inv, WorkflowFollowsActivity, TypeOK
<1>2. jobs[activity.job].stage \in {"recording", "transcribing"}
  BY <1>1 DEF Inv, RowOfActivity
<1>3. QED
  BY <1>1, <1>2, KeptHolds, LivingRow DEF Inv, RowOfActivity, InRecovery, DeleteAllowed,
     IsRow

(* What a start that failed leaves.  It offers "Try again" only for an interrupted row, unless
   a row could not be read, or two things failed, in this start or before. *)
LEMMA FailedStartsAre ==
  ASSUME stray \in BOOLEAN, NEW start \in FailedStarts
  PROVE  /\ start.row \in {NoRow, InsertStarting, UpdateStage(InsertStarting, "recording"),
                            UpdateStage(InsertStarting, "interrupted")}
         /\ start.notice \in {"none", Failed.fix, Failed.try}
         /\ start.faults \in {0, 1, 2} /\ start.unread \in {0, 1} /\ start.unread <= start.faults
         /\ start.runs \in BOOLEAN /\ (start.runs => stray \/ start.unread = 1)
         /\ start.notice = Failed.try =>
              \/ start.unread = 1 \/ start.faults = 2
              \/ start.row = UpdateStage(InsertStarting, "interrupted")
              \/ stray /\ start.faults = 1
<1> DEFINE yes == TRUE
           Of(row, faults, unread, notice, runs) ==
             [row |-> row, faults |-> faults, unread |-> unread, notice |-> notice, runs |-> runs]
           interrupted == UpdateStage(InsertStarting, "interrupted")
           refused == IF stray THEN 0 ELSE 1
<1>1. /\ Failed.fix # "none" /\ Failed.fix # Failed.try /\ Failed.try # "none"
  BY DEF Failed
<1>2. \/ start = Of(NoRow, 1, 0, "none", stray)
      \/ start = Of(InsertStarting, 1, 1, Failed.try, stray)
      \/ start = Of(interrupted, refused, 0, Failed.fix, stray)
      \/ start = Of(InsertStarting, refused + 1, 0, Failed.try, stray)
      \/ start \in (IF stray THEN {}
                    ELSE {Of(interrupted, 1, 0, Failed.try, stray),
                          Of(InsertStarting, 2, 0, Failed.try, stray),
                          Of(UpdateStage(InsertStarting, "recording"), 1, 1, Failed.try, yes)})
  BY Zenon DEF FailedStarts
<1>3. \/ start = Of(NoRow, 1, 0, "none", stray)
      \/ start = Of(InsertStarting, 1, 1, Failed.try, stray)
      \/ start = Of(interrupted, refused, 0, Failed.fix, stray)
      \/ start = Of(InsertStarting, refused + 1, 0, Failed.try, stray)
      \/ /\ ~stray
         /\ \/ start = Of(interrupted, 1, 0, Failed.try, stray)
            \/ start = Of(InsertStarting, 2, 0, Failed.try, stray)
            \/ start = Of(UpdateStage(InsertStarting, "recording"), 1, 1, Failed.try, yes)
  BY <1>2, Zenon
<1>4. yes \in BOOLEAN
  OBVIOUS
<1> HIDE DEF interrupted, yes
<1>5. QED
  BY <1>1, <1>3, <1>4 DEF interrupted

LEMMA StartKeeps ==
  ASSUME Inv, NEW j \in Jobs, StartRecording(j)
  PROVE  Kept' /\ RowOfActivity'
<1>0. Kept /\ j \in Jobs \ born /\ born' = born \cup {j} /\ UNCHANGED <<history, forgotten, due, last>>
  BY KeptHolds DEF StartRecording
<1>1. \/ Put(j, UpdateStage(InsertStarting, "recording")) /\ activity' = Recording(j)
      \/ \E row \in {NoRow, InsertStarting, UpdateStage(InsertStarting, "recording"),
                     UpdateStage(InsertStarting, "interrupted")} :
           Put(j, row) /\ activity' = Idle
  <2>1. stray \in BOOLEAN /\ activity = Idle
    BY DEF Inv, WorkflowFollowsActivity, TypeOK, StartRecording
  <2>2. \/ Put(j, UpdateStage(InsertStarting, "recording")) /\ activity' = Recording(j)
        \/ \E start \in FailedStarts : Put(j, start.row) /\ activity' = Idle
    BY <2>1 DEF StartRecording, AbandonStart, Interrupt, Settle
  <2>3. QED
    BY <2>1, <2>2, FailedStartsAre
<1>2. ASSUME NEW row, Sound(row), ~row.expired, Put(j, row)
      PROVE  Kept' /\ jobs'[j] = row
  BY <1>0, <1>2, InsertKeeps DEF Put, Kept
<1>3. CASE Put(j, UpdateStage(InsertStarting, "recording")) /\ activity' = Recording(j)
  BY <1>2, <1>3, InsertedRows DEF RowOfActivity, Recording
<1>4. ASSUME NEW row \in {NoRow, InsertStarting, UpdateStage(InsertStarting, "recording"),
                          UpdateStage(InsertStarting, "interrupted")},
             Put(j, row), activity' = Idle
      PROVE  Kept' /\ RowOfActivity'
  BY <1>2, <1>4, InsertedRows, NoRowIsSound, ActivityStays
<1>5. QED
  BY <1>1, <1>3, <1>4

(* A recording that ends, and what comes of its row. *)
LEMMA EndPuts ==
  ASSUME Inv, NEW j \in Jobs,
         \/ StopRecording(j) \/ DiscardRecording(j) \/ RecorderFailed(j)
         \/ Shutdown /\ activity = Recording(j) /\ activity' = Idle
  PROVE  /\ jobs[j].stage = "recording"
         /\ \E row : /\ Put(j, row) /\ Lawful(jobs[j], row)
                     /\ activity' = Idle \/ (activity'.kind = "processing" /\ activity'.job = j
                                             /\ row.stage = "transcribing")
         /\ UNCHANGED <<history, born, forgotten, due, last>>
<1>1. jobs[j].stage = "recording" /\ Sound(jobs[j])
  BY ActivityRow DEF StopRecording, DiscardRecording, RecorderFailed, Recording
<1>2. CASE StopRecording(j)
  <2>1. \/ \E long \in BOOLEAN :
             /\ Put(j, UpdateStage(Captured(jobs[j], long), "transcribing"))
             /\ activity' = Processing(j, "dictation")
        \/ activity' = Idle /\ \E long \in BOOLEAN :
             Put(j, UpdateStage(Captured(jobs[j], long), "transcribing"))
        \/ activity' = Idle /\ \E long \in BOOLEAN : Put(j, Captured(jobs[j], long))
        \/ activity' = Idle /\ \E end \in Unfinished(jobs[j]) : Put(j, end.row)
    BY <1>2 DEF StopRecording, Interrupt, Settle
  <2>2. QED
    BY <1>1, <1>2, <2>1, EndedRows DEF StopRecording, Processing
<1>3. CASE DiscardRecording(j)
  <2>1. /\ activity' = Idle
        /\ \/ Put(j, NoRow)
           \/ \E long \in BOOLEAN : Put(j, UpdateStage(Captured(jobs[j], long), "cancelled"))
           \/ \E long \in BOOLEAN : Put(j, Captured(jobs[j], long))
           \/ \E end \in Unfinished(jobs[j]) : Put(j, end.row)
    BY <1>3 DEF DiscardRecording, Interrupt, Settle
  <2>2. QED
    BY <1>1, <1>3, <2>1, EndedRows, NoneIsLawful DEF DiscardRecording
<1>4. CASE RecorderFailed(j)
  BY <1>1, <1>4, EndedRows DEF RecorderFailed, Interrupt, Settle
<1>5. CASE Shutdown /\ activity = Recording(j) /\ activity' = Idle
  <2>1. activity' = Idle /\ \E end \in Preserved(jobs[j]) : Put(j, end.row)
    BY <1>5 DEF Shutdown, Recording, Idle
  <2>2. QED
    BY <1>1, <1>5, <2>1, EndedRows DEF Shutdown
<1>6. QED
  BY <1>2, <1>3, <1>4, <1>5

LEMMA EndKeeps ==
  ASSUME Inv, NEW j \in Jobs,
         \/ StopRecording(j) \/ DiscardRecording(j) \/ RecorderFailed(j)
         \/ Shutdown /\ activity = Recording(j) /\ activity' = Idle
  PROVE  Kept' /\ RowOfActivity'
<1>1. PICK row : /\ Put(j, row) /\ Lawful(jobs[j], row)
                 /\ activity' = Idle \/ (activity'.kind = "processing" /\ activity'.job = j
                                         /\ row.stage = "transcribing")
  BY EndPuts
<1>2. UNCHANGED <<history, born, forgotten, due, last>>
  BY EndPuts
<1>3. Kept'
  BY <1>1, <1>2, KeptHolds, PutKeeps
<1>4. jobs'[j] = row
  BY <1>1, KeptHolds DEF Put, Kept
<1>5. RowOfActivity'
  BY <1>1, <1>4, ActivityStays DEF RowOfActivity
<1>6. QED
  BY <1>3, <1>5

(* A shutdown preserves a recording, or leaves everything as it is. *)
LEMMA ShutdownIs ==
  ASSUME Inv, Shutdown
  PROVE  \/ /\ activity' = Idle /\ Interrupt(phase, activity.job, "none")
            /\ activity.job \in Jobs /\ activity = Recording(activity.job)
            /\ \E end \in Preserved(jobs[activity.job]) : Fail(end.faults) /\ quiet' = end.kept
         \/ /\ Unpublished /\ UNCHANGED <<jobs, activity>>
            /\ quiet' \in BOOLEAN /\ \E n \in {0, 1} : Fail(n)
<1>1. CASE activity.kind = "recording" /\ Interrupt(phase, activity.job, "none")
           /\ \E end \in Preserved(jobs[activity.job]) : Fail(end.faults) /\ quiet' = end.kept
  <2>1. activity.job \in Jobs /\ activity = Recording(activity.job)
    BY <1>1, ActivityKinds DEF Inv, WorkflowFollowsActivity, TypeOK
  <2>2. activity' = Idle
    BY <1>1 DEF Interrupt, Settle
  <2>3. QED
    BY <1>1, <2>1, <2>2
<1>2. CASE Unpublished /\ UNCHANGED <<jobs, activity>>
           /\ quiet' \in BOOLEAN /\ \E n \in {0, 1} : Fail(n)
  BY <1>2
<1>3. QED
  BY <1>1, <1>2 DEF Shutdown

LEMMA ShutdownKeeps ==
  ASSUME Inv, Shutdown
  PROVE  Kept' /\ RowOfActivity'
<1>1. CASE activity' = Idle /\ activity = Recording(activity.job) /\ activity.job \in Jobs
  BY <1>1, EndKeeps
<1>2. CASE UNCHANGED <<jobs, activity>>
  <2>1. UNCHANGED <<jobs, activity, history, born, forgotten, due, last>>
    BY <1>2 DEF Shutdown
  <2>2. Kept'
    BY <2>1, KeptHolds DEF Kept, RowsFit, UnbornIsNothing, KeptHasNoRow, ForgottenIsGone,
       LastIsYoung
  <2>3. QED
    BY <2>1, <2>2, ActivityStays
<1>3. QED
  BY <1>1, <1>2, ShutdownIs

--------------------------------------------------------------------------------
(* What is told and pasted *)

(* The end of j was told, or needs not be. *)
Tells(j) == told'.job = j \/ (pasted' = j /\ landed') \/ quiet \/ activity.by = "window"

(* What is offered helps, unless two things failed or the row could not be read. *)
Helps ==
  failures' <= 1 /\ misreads' = misreads =>
    /\ <<"try_again", told'.job>> \in Actions(told'.notice, told'.job) => RetryAllowed(jobs'[told'.job])
    /\ <<"paste_again", told'.job>> \in Actions(told'.notice, told'.job) =>
         last' = told'.job \/ jobs'[told'.job].text

PastesKept == pasted' # NoJob => pasted' \notin forgotten'

LEMMA ActionsAre ==
  ASSUME NEW notice, NEW j
  PROVE  /\ Actions(notice, j) \subseteq {<<"paste_again", j>>, <<"try_again", j>>}
         /\ <<"paste_again", j>> \in Actions(notice, j) => notice \in {"copied", Failed.paste}
         /\ <<"try_again", j>> \in Actions(notice, j) => notice = Failed.try
         /\ notice \notin {"copied", Failed.paste, Failed.try} => Actions(notice, j) = {}
<1>1. CASE notice \in {"copied", Failed.paste}
  BY <1>1 DEF Actions, Failed
<1>2. CASE notice = Failed.try
  BY <1>2 DEF Actions, Failed
<1>3. CASE notice \notin {"copied", Failed.paste, Failed.try}
  BY <1>3 DEF Actions, Failed
<1>4. QED
  BY <1>1, <1>2, <1>3

LEMMA SilenceHelps ==
  ASSUME told'.notice \notin {"copied", Failed.paste, Failed.try}
  PROVE  Helps
  BY ActionsAre DEF Helps

LEMMA UntoldHelps == told' = Untold => Helps
  BY SilenceHelps DEF Untold, Failed

(* What a settled dictation tells. *)
LEMMA SettleTells ==
  ASSUME NEW p, NEW j, NEW end, NEW notice, Settle(p, j, end, notice)
  PROVE  /\ activity' = Idle
         /\ told' = Untold \/ told' = [notice |-> notice, job |-> j]
         /\ notice # "none" => Tells(j)
<1>1. activity' = Idle /\ told' = IF Announced(notice) = "none" THEN Untold ELSE [notice |-> Announced(notice), job |-> j]
  BY DEF Settle, Publish
<1>2. Announced(notice) = "none" \/ Announced(notice) = notice
  BY DEF Announced
<1>3. notice # "none" /\ Announced(notice) = "none" => quiet \/ activity.by = "window"
  BY DEF Announced
<1>4. QED
  BY <1>1, <1>2, <1>3 DEF Tells

(* A prompt to try again is told only with a row that may be. *)
LEMMA TryHelps ==
  ASSUME NEW j, NEW notice, told' = Untold \/ told' = [notice |-> notice, job |-> j],
         notice \in {"none", "nothing_heard", Failed.fix, Failed.try},
         failures' <= 1 /\ misreads' = misreads /\ notice = Failed.try => RetryAllowed(jobs'[j])
  PROVE  Helps
<1>1. CASE told' = [notice |-> notice, job |-> j]
  BY <1>1, ActionsAre DEF Helps, Failed
<1>2. QED
  BY <1>1, UntoldHelps

(* One to paste again, only with a text. *)
LEMMA PasteHelps ==
  ASSUME NEW j, NEW notice, told' = Untold \/ told' = [notice |-> notice, job |-> j],
         notice \in {"none", "copied", Failed.paste},
         last' = j \/ jobs'[j].text
  PROVE  Helps
<1>1. CASE told' = [notice |-> notice, job |-> j]
  BY <1>1, ActionsAre DEF Helps, Failed
<1>2. QED
  BY <1>1, UntoldHelps

(* A delivery that a dictation waits for: the text is kept, or moves to History, and the user
   is told, unless the application took it. *)
LEMMA DeliverEnds ==
  ASSUME Inv, NEW j \in Jobs, jobs[j].stage = "transcribing",
         Deliver(j, StoreReady(StoreRaw(jobs[j]))), UNCHANGED <<born, due>>
  PROVE  Kept' /\ activity' = Idle /\ Tells(j) /\ Helps /\ PastesKept
<1> DEFINE ready == StoreReady(StoreRaw(jobs[j]))
           delivering == Advance(Advance(phase, "stored", j), "delivery", j)
<1>0. Kept /\ Sound(jobs[j]) /\ IsRow(jobs[j]) /\ j \notin forgotten
  BY KeptHolds, LivingRow DEF IsRow
<1>1. /\ Lawful(jobs[j], ready) /\ Sound(ready) /\ ready.stage = "ready_to_deliver" /\ ready.text
      /\ ~ready.expired
  <2>1. Lawful(jobs[j], StoreRaw(jobs[j])) /\ Sound(StoreRaw(jobs[j])) /\ IsRow(StoreRaw(jobs[j]))
    BY <1>0, LateStatements DEF Lawful
  <2>2. QED
    BY <2>1, LateStatements, LawfulTwice DEF Lawful
<1> DEFINE Ending(outcome) ==
        /\ Chord(j, outcome)
        /\ \/ /\ outcome.result = "delivered"
              /\ CompleteDelivered(j, outcome.row)
              /\ last' = j
              /\ Settle(delivering, j, "submitted", IF outcome.taken THEN "none" ELSE "copied")
           \/ /\ Put(j, outcome.row)
              /\ last' = IF outcome.result = "error" THEN last ELSE j
              /\ \E notice \in FailedDelivery(outcome) : Interrupt(delivering, j, notice)
              /\ UNCHANGED <<history, forgotten>>
<1>pastes. PICK pastes \in BOOLEAN : \E outcome \in DeliveryOutcomes(ready, pastes) : Ending(outcome)
  BY DEF Deliver
<1>2. PICK outcome \in DeliveryOutcomes(ready, pastes) : Ending(outcome)
  BY <1>pastes
<1> HIDE DEF ready, delivering
<1>3. /\ Lawful(jobs[j], outcome.row) /\ IsRow(outcome.row) /\ outcome.row.text /\ ~outcome.row.expired
      /\ outcome.taken => outcome.sent
  BY <1>1, OutcomeIs, LawfulTwice DEF Lawful
<1>4. pasted' \in {NoJob, j} /\ landed' = outcome.taken /\ (outcome.sent => pasted' = j)
  BY <1>2 DEF Chord
<1>5. CASE CompleteDelivered(j, outcome.row) /\ last' = j
           /\ Settle(delivering, j, "submitted", IF outcome.taken THEN "none" ELSE "copied")
  <2>1. Kept' /\ j \notin forgotten'
    BY <1>0, <1>3, <1>5, CompletionKeeps
  <2>2. activity' = Idle /\ Helps /\ (~outcome.taken => Tells(j))
    BY <1>5, SettleTells, PasteHelps
  <2>3. outcome.taken => Tells(j)
    BY <1>3, <1>4 DEF Tells
  <2>4. QED
    BY <1>4, <2>1, <2>2, <2>3 DEF PastesKept
<1>6. ASSUME Put(j, outcome.row), last' \in {last, j}, UNCHANGED <<history, forgotten>>,
             NEW notice \in FailedDelivery(outcome), Interrupt(delivering, j, notice)
      PROVE  Kept' /\ activity' = Idle /\ Tells(j) /\ Helps /\ PastesKept
  <2>1. Kept'
    BY <1>0, <1>3, <1>6, PutKeeps
  <2>2. jobs'[j].text
    BY <1>0, <1>3, <1>6 DEF Put, Kept
  <2>3. notice \in {"copied", Failed.paste} /\ notice # "none"
    BY <1>6 DEF FailedDelivery, Failed
  <2>4. activity' = Idle /\ Tells(j) /\ Helps
    BY <1>6, <2>2, <2>3, SettleTells, PasteHelps DEF Interrupt
  <2>5. QED
    BY <1>0, <1>4, <1>6, <2>1, <2>4 DEF PastesKept
<1>7. QED
  BY <1>2, <1>5, <1>6

(* The end of a wait, whatever it is told as. *)
LEMMA EndWaitIs ==
  ASSUME NEW j, NEW end, NEW notice, EndWait(j, end, notice) \/ FailWait(j, end, notice)
  PROVE  /\ Current(j) => activity' = Idle /\ (notice # "none" => Tells(j))
         /\ ~Current(j) => UNCHANGED activity
         /\ told' = Untold \/ told' = [notice |-> notice, job |-> j]
<1>1. CASE Current(j)
  BY <1>1, SettleTells DEF EndWait, FailWait
<1>2. CASE ~Current(j)
  BY <1>2 DEF EndWait, FailWait, PublishNothing, Publish, Unpublished
<1>3. QED
  BY <1>1, <1>2

(* A result, of a wait or of a transcription whose wait was cancelled. *)
LEMMA ResultEnds ==
  ASSUME Inv, NEW j \in Jobs, CompleteTranscription(j)
  PROVE  /\ Kept' /\ Helps /\ PastesKept
         /\ Current(j) => activity' = Idle /\ Tells(j)
         /\ ~Current(j) => UNCHANGED activity
         /\ activity' # Idle => jobs'[activity'.job] = jobs[activity'.job]
<1> DEFINE row == jobs[j]
           ready == StoreReady(StoreRaw(row))
           Stored(new) == Put(j, new) /\ UNCHANGED <<last, history, forgotten>> /\ NoPaste
<1>0. Kept /\ Sound(row) /\ UNCHANGED <<born, due>> /\ activity \in Activities
      /\ (Current(j) => row.stage = "transcribing")
  <2>1. Current(j) => row.stage = "transcribing"
    BY DEF Inv, RowOfActivity, Current
  <2>2. QED
    BY <2>1, KeptHolds, LivingRow DEF CompleteTranscription, Inv, WorkflowFollowsActivity,
       TypeOK
<1>1. ASSUME NEW new, Stored(new), Lawful(row, new), NEW end, NEW notice,
             EndWait(j, end, notice) \/ FailWait(j, end, notice),
             Current(j) => notice # "none", row.stage = "transcribing" \/ new = row,
             notice \in {"none", "nothing_heard", Failed.fix, Failed.try},
             failures' <= 1 /\ misreads' = misreads /\ notice = Failed.try => RetryAllowed(new)
      PROVE  /\ Kept' /\ Helps /\ PastesKept
             /\ Current(j) => activity' = Idle /\ Tells(j)
             /\ ~Current(j) => UNCHANGED activity
             /\ activity' # Idle => jobs'[activity'.job] = jobs[activity'.job]
  <2>1. Put(j, new) /\ UNCHANGED <<last, history, forgotten, born, due>> /\ pasted' = NoJob
    BY <1>0, <1>1 DEF NoPaste
  <2>2. Kept' /\ PastesKept
    BY <1>0, <1>1, <2>1, PutKeeps DEF PastesKept
  <2>3. jobs'[j] = new
    BY <1>0, <2>1 DEF Put, Kept
  <2>4. Helps
    BY <1>1, <2>3, EndWaitIs, TryHelps
  <2>5. /\ Current(j) => activity' = Idle /\ Tells(j)
        /\ ~Current(j) => UNCHANGED activity
    BY <1>1, EndWaitIs
  <2>6. activity' # Idle => jobs'[activity'.job] = jobs[activity'.job]
    <3>1. SUFFICES ASSUME activity' # Idle PROVE jobs'[activity'.job] = jobs[activity'.job]
      OBVIOUS
    <3>2. ~Current(j) /\ activity' = activity /\ activity.kind # "idle" /\ activity.job \in Jobs
      BY <1>0, <2>5, <3>1, ActivityKinds
    <3>3. CASE activity.job # j
      BY <1>0, <2>1, <3>2, <3>3 DEF Put, Kept
    <3>4. CASE activity.job = j
      <4>1. row.stage = "recording"
        BY <1>0, <3>2, <3>4, ActivityKinds, ActivityRow DEF Current
      <4>2. QED
        BY <1>1, <2>3, <3>2, <3>4, <4>1
    <3>5. QED
      BY <3>3, <3>4
  <2>7. QED
    BY <2>2, <2>4, <2>5, <2>6
<1>misread. Misread => ~(failures' <= 1 /\ misreads' = misreads)
  BY DEF Misread, Failing, Inv, WorkflowFollowsActivity, TypeOK
<1>2. CASE row.stage # "transcribing"
  <2>1. Stored(row) /\ \/ FailWait(j, "cancelled", "none")
                       \/ Misread /\ FailWait(j, "interrupted", Failed.try)
    BY <1>2 DEF CompleteTranscription
  <2>2. {"none", Failed.try} \subseteq {"none", "nothing_heard", Failed.fix, Failed.try}
        /\ Failed.try # "none"
    BY DEF Failed
  <2> HIDE DEF row, Stored
  <2>3. QED
    BY <1>0, <1>1, <1>misread, <1>2, <2>1, <2>2, SameIsLawful
<1>3. CASE row.stage = "transcribing"
  <2>1. IsRow(row) /\ row.delivery = "not_attempted"
    BY <1>0, <1>3 DEF IsRow, Sound, Fits
  <2>2. /\ Lawful(row, StoreRaw(row)) /\ IsRow(StoreRaw(row)) /\ Sound(StoreRaw(row))
        /\ StoreRaw(row).stage = "transcribing"
    BY <1>0, <1>3, <2>1, LateStatements DEF Lawful
  <2>3. Lawful(row, ready)
    BY <2>2, LateStatements, LawfulTwice
  <2>4. Lawful(row, UpdateStage(row, "failed")) /\ RetryAllowed(UpdateStage(row, "failed"))
    BY <1>0, <2>1, EarlyStatements DEF Stages, RetryAllowed
  <2>5. \A new \in {FailJob(row), FailJob(StoreRaw(row))} : Lawful(row, new) /\ RetryAllowed(new)
    BY <1>0, <1>3, <2>1, <2>2, FailJobIs, LawfulTwice
  <2>6. \/ Stored(NoRow) /\ EndWait(j, "no_speech", "nothing_heard")
        \/ \E notice \in {Failed.try, Failed.fix} :
             Stored(UpdateStage(row, "failed")) /\ EndWait(j, "interrupted", notice)
        \/ \E new \in {FailJob(row), FailJob(StoreRaw(row))} :
             Stored(new) /\ FailWait(j, "interrupted", Failed.try)
        \/ /\ Fail(2) \/ Misread
           /\ \E new \in {row, StoreRaw(row), ready} :
                Stored(new) /\ FailWait(j, "interrupted", Failed.try)
        \/ ~Current(j) /\ Stored(ready) /\ EndWait(j, "stored", "none")
        \/ Current(j) /\ Deliver(j, ready)
    <3>1. \/ Stored(NoRow) /\ EndWait(j, "no_speech", "nothing_heard")
          \/ \E notice \in {Failed.try, Failed.fix} :
               Stored(UpdateStage(row, "failed")) /\ EndWait(j, "interrupted", notice)
          \/ Misread /\ (\E new \in {row, ready} : Stored(new)) /\ FailWait(j, "interrupted", Failed.try)
          \/ \E end \in UnstoredRows(row) :
               Fail(end.faults) /\ Stored(end.row) /\ FailWait(j, "interrupted", Failed.try)
          \/ ~Current(j) /\ Stored(ready) /\ EndWait(j, "stored", "none")
          \/ Current(j) /\ Deliver(j, ready)
      BY <1>3 DEF CompleteTranscription
    <3>2. \A end \in UnstoredRows(row) :
            \/ end.row \in {FailJob(row), FailJob(StoreRaw(row))}
            \/ end.faults = 2 /\ end.row \in {row, StoreRaw(row), ready}
      BY DEF UnstoredRows
    <3> HIDE DEF Stored, row, ready
    <3>3. QED
      BY <3>1, <3>2
  <2>7. CASE Current(j) /\ Deliver(j, ready)
    BY <1>0, <1>3, <2>7, DeliverEnds
  <2>8. Fail(2) => ~(failures' <= 1)
    BY DEF Fail, Failing, Inv, WorkflowFollowsActivity, TypeOK
  <2>9. {"nothing_heard", Failed.fix, Failed.try} \subseteq {"none", "nothing_heard", Failed.fix, Failed.try}
        /\ "none" \notin {"nothing_heard", Failed.fix, Failed.try} /\ "nothing_heard" # Failed.try
        /\ Failed.fix # Failed.try
    BY DEF Failed
  <2> HIDE DEF row, ready, Stored
  <2>10. CASE Stored(NoRow) /\ EndWait(j, "no_speech", "nothing_heard")
    BY <1>1, <1>3, <2>9, <2>10, NoneIsLawful
  <2>11. ASSUME NEW notice \in {Failed.try, Failed.fix}, Stored(UpdateStage(row, "failed")),
                EndWait(j, "interrupted", notice)
         PROVE  /\ Kept' /\ Helps /\ PastesKept
                /\ Current(j) => activity' = Idle /\ Tells(j)
                /\ ~Current(j) => UNCHANGED activity
                /\ activity' # Idle => jobs'[activity'.job] = jobs[activity'.job]
    BY <1>1, <1>3, <2>4, <2>9, <2>11
  <2>12. ASSUME NEW new \in {FailJob(row), FailJob(StoreRaw(row))}, Stored(new),
                FailWait(j, "interrupted", Failed.try)
         PROVE  /\ Kept' /\ Helps /\ PastesKept
                /\ Current(j) => activity' = Idle /\ Tells(j)
                /\ ~Current(j) => UNCHANGED activity
                /\ activity' # Idle => jobs'[activity'.job] = jobs[activity'.job]
    BY <1>1, <1>3, <2>5, <2>9, <2>12
  <2>13. ASSUME Fail(2) \/ Misread, NEW new \in {row, StoreRaw(row), ready}, Stored(new),
                FailWait(j, "interrupted", Failed.try)
         PROVE  /\ Kept' /\ Helps /\ PastesKept
                /\ Current(j) => activity' = Idle /\ Tells(j)
                /\ ~Current(j) => UNCHANGED activity
                /\ activity' # Idle => jobs'[activity'.job] = jobs[activity'.job]
    <3>1. Lawful(row, new)
      BY <1>0, <2>2, <2>3, <2>13, SameIsLawful
    <3>2. QED
      BY <1>1, <1>misread, <1>3, <2>8, <2>9, <2>13, <3>1
  <2>14. CASE ~Current(j) /\ Stored(ready) /\ EndWait(j, "stored", "none")
    BY <1>1, <1>3, <2>3, <2>14 DEF Failed
  <2>15. QED
    BY <2>6, <2>7, <2>10, <2>11, <2>12, <2>13, <2>14
<1>4. QED
  BY <1>2, <1>3

LEMMA SilentPaste == NoPaste => PastesKept
  BY DEF NoPaste, PastesKept

(* Commands that start and end recordings paste nothing, and tell of a failure. *)
LEMMA StartTells ==
  ASSUME Inv, NEW j \in Jobs, StartRecording(j)
  PROVE  Helps /\ PastesKept /\ activity = Idle
<1>0. PastesKept /\ activity = Idle
  BY SilentPaste DEF StartRecording
<1>1. CASE PublishNothing
  BY <1>0, <1>1, UntoldHelps DEF PublishNothing, Publish
<1>2. ASSUME NEW start \in FailedStarts, NEW p, NEW found, NEW lost \in 0..1,
             Failing(start.faults + lost, start.unread), Put(j, start.row),
             AbandonStart(p, j, found, start.notice)
      PROVE  Helps
  <2>1. jobs'[j] = start.row
    BY <1>2, KeptHolds DEF Put, Kept
  <2>2. told' = Untold \/ (told' = [notice |-> start.notice, job |-> j])
    BY <1>2, SettleTells DEF AbandonStart, Interrupt, Publish
  <2>3. /\ failures \in Nat /\ misreads \in 0..failures /\ stray \in BOOLEAN
        /\ stray => misreads > 0
    BY DEF Inv, WorkflowFollowsActivity, TypeOK, StrayIsMisread
  <2>4. failures' <= 1 /\ misreads' = misreads =>
          start.faults # 2 /\ start.unread # 1 /\ ~(stray /\ start.faults = 1)
    BY <1>2, <2>3, FailedStartsAre DEF Failing
  <2>5. failures' <= 1 /\ misreads' = misreads /\ start.notice = Failed.try =>
          RetryAllowed(jobs'[j])
    BY <1>2, <2>1, <2>3, <2>4, FailedStartsAre, InsertedRows
  <2>6. start.notice \in {"none", "nothing_heard", Failed.fix, Failed.try}
    BY <1>2, <2>3, FailedStartsAre
  <2>7. QED
    BY <2>2, <2>5, <2>6, TryHelps
<1>3. QED
  BY <1>0, <1>1, <1>2 DEF StartRecording

LEMMA EndTells ==
  ASSUME Inv, NEW j \in Jobs,
         \/ StopRecording(j) \/ DiscardRecording(j) \/ RecorderFailed(j)
         \/ Shutdown /\ activity = Recording(j) /\ activity' = Idle
  PROVE  /\ Helps /\ PastesKept /\ activity = Recording(j)
         /\ StopRecording(j) \/ RecorderFailed(j) => activity' # Idle \/ Tells(j)
<1>0. PastesKept /\ activity = Recording(j)
  BY SilentPaste DEF StopRecording, DiscardRecording, RecorderFailed, Shutdown
<1>1. jobs[j].stage = "recording" /\ Sound(jobs[j]) /\ failures \in Nat /\ jobs \in [Jobs -> Rows]
  BY <1>0, ActivityRow DEF Recording, Inv, WorkflowFollowsActivity, TypeOK
<1>2. ASSUME NEW row, NEW faults \in Nat, Put(j, row), Fail(faults), faults <= 1 => RetryAllowed(row),
             NEW p, Interrupt(p, j, Failed.try)
      PROVE  Helps /\ Tells(j)
  <2>1. failures' <= 1 => RetryAllowed(jobs'[j])
    BY <1>1, <1>2 DEF Put, Fail, Failing
  <2>2. QED
    BY <1>2, <2>1, SettleTells, TryHelps DEF Interrupt, Failed
<1>misread. ASSUME Misread, NEW p, Interrupt(p, j, Failed.try) PROVE Helps /\ Tells(j)
  <2>1. misreads' # misreads
    BY <1>misread DEF Misread, Failing, Inv, WorkflowFollowsActivity, TypeOK
  <2>2. QED
    BY <1>misread, <2>1, SettleTells, TryHelps DEF Interrupt, Failed
<1>3. \A long \in BOOLEAN :
        RetryAllowed(Captured(jobs[j], long)) /\ RetryAllowed(UpdateStage(Captured(jobs[j], long), "cancelled"))
  BY <1>1, EndedRows DEF RetryAllowed
<1>4. ASSUME StopRecording(j) PROVE Helps /\ (activity' # Idle \/ Tells(j))
  <2>1. \/ activity' = Processing(j, "dictation") /\ PublishNothing
        \/ /\ Interrupt(Advance(phase, "stop", j), j, Failed.try)
           /\ \/ Misread
              \/ \E end \in Unfinished(jobs[j]) : Fail(end.faults) /\ Put(j, end.row)
              \/ \E long \in BOOLEAN : Fail(1) /\ Put(j, Captured(jobs[j], long))
    BY <1>4 DEF StopRecording
  <2>2. CASE activity' = Processing(j, "dictation") /\ PublishNothing
    BY <1>0, <2>2, <1>4, UntoldHelps DEF PublishNothing, Publish, Processing, Idle
  <2>3. CASE Interrupt(Advance(phase, "stop", j), j, Failed.try)
             /\ \E end \in Unfinished(jobs[j]) : Fail(end.faults) /\ Put(j, end.row)
    BY <1>0, <1>1, <1>2, <2>3, EndedRows
  <2>4. CASE Interrupt(Advance(phase, "stop", j), j, Failed.try)
             /\ \E long \in BOOLEAN : Fail(1) /\ Put(j, Captured(jobs[j], long))
    BY <1>0, <1>2, <1>3, <2>4
  <2>5. CASE Misread /\ Interrupt(Advance(phase, "stop", j), j, Failed.try)
    BY <1>misread, <2>5
  <2>6. QED
    BY <2>1, <2>2, <2>3, <2>4, <2>5
<1>5. ASSUME DiscardRecording(j) PROVE Helps
  <2>1. \/ Settle(phase, j, "discard", "none")
        \/ /\ Interrupt(phase, j, Failed.try)
           /\ \/ \E end \in Unfinished(jobs[j]) : Fail(end.faults) /\ Put(j, end.row)
              \/ \E long \in BOOLEAN : \E row \in {Captured(jobs[j], long),
                                           UpdateStage(Captured(jobs[j], long), "cancelled")} :
                   Fail(1) /\ Put(j, row)
    BY <1>5 DEF DiscardRecording
  <2>2. CASE Settle(phase, j, "discard", "none")
    BY <2>2, SettleTells, TryHelps DEF Failed
  <2>3. QED
    BY <1>0, <1>1, <1>2, <1>3, <2>1, <2>2, EndedRows
<1>6. ASSUME RecorderFailed(j) PROVE Helps /\ Tells(j)
  BY <1>0, <1>1, <1>2, <1>6, EndedRows DEF RecorderFailed
<1>7. ASSUME Shutdown, activity' = Idle PROVE Helps
  <2>1. Interrupt(phase, j, "none")
    BY <1>0, <1>7 DEF Shutdown, Recording, Idle
  <2>2. QED
    BY <1>0, <1>7, <2>1, SettleTells, TryHelps DEF Interrupt, Failed
<1>8. QED
  BY <1>0, <1>4, <1>5, <1>6, <1>7

--------------------------------------------------------------------------------
(* Recovery, History, pasting again, and time *)

Fine == Kept' /\ RowOfActivity' /\ Helps /\ PastesKept

LEMMA KeptStays ==
  ASSUME Kept, UNCHANGED <<jobs, history, born, forgotten, last, due>>
  PROVE  Kept'
  BY DEF Kept, RowsFit, UnbornIsNothing, KeptHasNoRow, ForgottenIsGone, LastIsYoung

(* A step that announces nothing. *)
LEMMA QuietStep ==
  ASSUME Unpublished \/ \E act, p : Publish(act, p, "none", NoJob)
  PROVE  Helps
  BY UntoldHelps DEF Unpublished, Publish

LEMMA RetryIsFine ==
  ASSUME Inv, NEW j \in Jobs, NEW by \in Requesters, BeginRetry(j, by)
  PROVE  Fine
<1>0. Kept /\ Sound(jobs[j]) /\ IsRow(jobs[j])
  BY KeptHolds, LivingRow DEF BeginRetry, RetryAllowed, IsRow
<1>1. /\ Put(j, RetryTranscription(jobs[j]))
      /\ UNCHANGED <<history, born, last, due, forgotten>>
      /\ activity' \in {Idle, Processing(j, by)}
  BY DEF BeginRetry
<1>2. Lawful(jobs[j], RetryTranscription(jobs[j]))
      /\ RetryTranscription(jobs[j]).stage = "transcribing"
  BY <1>0, LateStatements
<1>3. Kept'
  BY <1>0, <1>1, <1>2, PutKeeps
<1>4. RowOfActivity'
  BY <1>0, <1>1, <1>2, ActivityStays DEF Put, Kept, RowOfActivity, Processing
<1>5. Helps /\ PastesKept
  BY QuietStep, SilentPaste DEF BeginRetry, PublishNothing
<1>6. QED
  BY <1>3, <1>4, <1>5 DEF Fine

(* "Paste again" in Recovery *)
LEMMA CopyIsFine ==
  ASSUME Inv, NEW j \in Jobs, CopyAgain(j)
  PROVE  Fine
<1> DEFINE again == RetryDelivery(jobs[j])
           no == FALSE
<1>0. Kept /\ Sound(jobs[j]) /\ IsRow(jobs[j]) /\ jobs[j].text /\ activity = Idle /\ j \notin forgotten
      /\ UNCHANGED <<born, activity, due>>
  BY KeptHolds, LivingRow DEF CopyAgain, PasteAgainAllowed
<1>1. /\ Lawful(jobs[j], again) /\ Sound(again) /\ again.stage = "ready_to_deliver" /\ again.text
      /\ ~again.expired
  BY <1>0, LateStatements DEF Lawful
<1>2. \/ Put(j, again) /\ NoPaste /\ UNCHANGED <<history, last, forgotten>>
      \/ \E outcome \in DeliveryOutcomes(again, no) :
           /\ Chord(j, outcome)
           /\ \/ /\ Put(j, outcome.row)
                 /\ last' \in {last, j} /\ UNCHANGED <<history, forgotten>>
              \/ CompleteDelivered(j, outcome.row) /\ last' = j
  BY DEF CopyAgain
<1>3. Helps
  BY UntoldHelps DEF CopyAgain, Unpublished, Publish
<1>4. no \in BOOLEAN
  OBVIOUS
<1> HIDE DEF again, no
<1>5. ASSUME NEW outcome \in DeliveryOutcomes(again, no)
      PROVE  Lawful(jobs[j], outcome.row) /\ ~outcome.row.expired
  BY <1>1, <1>4, <1>5, OutcomeIs, LawfulTwice DEF Lawful
<1>6. pasted' \in {NoJob, j}
  BY <1>2 DEF Chord, NoPaste
<1>7. Kept' /\ j \notin forgotten'
  <2>1. CASE Put(j, again) /\ UNCHANGED <<history, last, forgotten>>
    BY <1>0, <1>1, <2>1, PutKeeps
  <2>2. ASSUME NEW outcome \in DeliveryOutcomes(again, no),
               Put(j, outcome.row), last' \in {last, j}, UNCHANGED <<history, forgotten>>
        PROVE  Kept' /\ j \notin forgotten'
    BY <1>0, <1>5, <2>2, PutKeeps
  <2>3. ASSUME NEW outcome \in DeliveryOutcomes(again, no), CompleteDelivered(j, outcome.row), last' = j
        PROVE  Kept' /\ j \notin forgotten'
    BY <1>0, <1>5, <2>3, CompletionKeeps
  <2>4. QED
    BY <1>2, <2>1, <2>2, <2>3
<1>8. RowOfActivity'
  BY <1>0, ActivityStays
<1>9. QED
  BY <1>3, <1>6, <1>7, <1>8 DEF Fine, PastesKept

LEMMA DeleteIsFine ==
  ASSUME Inv, NEW j \in Jobs, DeleteRecovery(j) \/ DeleteHistory(j)
  PROVE  Fine
<1>0. Kept /\ PastesKept /\ UNCHANGED <<born, activity, due>> /\ Forget(j) /\ forgotten' = forgotten \cup {j}
  BY KeptHolds, SilentPaste DEF DeleteRecovery, DeleteHistory
<1>1. Helps
  BY UntoldHelps DEF DeleteRecovery, DeleteHistory, Unpublished, Unshown, Publish
<1>2. jobs' \in [Jobs -> Rows] /\ (\A k \in Jobs : k # j => jobs'[k] = jobs[k]) /\ jobs'[j] = NoRow
      /\ (UNCHANGED history \/ history' = [history EXCEPT ![j] = "none"])
  <2>1. CASE DeleteRecovery(j)
    BY <1>0, <2>1, NoRowIsSound DEF DeleteRecovery, Put, Kept, Sound
  <2>2. CASE DeleteHistory(j)
    BY <1>0, <2>2 DEF DeleteHistory, Kept, KeptHasNoRow
  <2>3. QED
    BY <2>1, <2>2
<1>3. /\ history' \in [Jobs -> {"none", "kept", "old"}]
      /\ \A k \in Jobs : history'[k] \in {history[k], "none"}
  BY <1>0, <1>2 DEF Kept
<1>4. last' \in {last, NoJob} /\ last' # j
  BY <1>0, NoJobAssumption DEF Forget
<1>5. j \in born
  <2>1. IsRow(jobs[j]) \/ history[j] # "none"
    BY DEF DeleteRecovery, DeleteHistory, DeleteAllowed, IsRow
  <2>2. QED
    BY <1>0, <2>1, LivingRow DEF Kept, UnbornIsNothing
<1>6. RowsFit' /\ UnbornIsNothing' /\ KeptHasNoRow'
  BY <1>0, <1>2, <1>3, <1>5, NoRowIsSound DEF Kept, RowsFit, UnbornIsNothing, KeptHasNoRow,
     Sound
<1>7. ForgottenIsGone' /\ LastIsYoung'
  BY <1>0, <1>2, <1>3, <1>4, NoJobAssumption DEF Kept, ForgottenIsGone, LastIsYoung
<1>8. Kept'
  BY <1>0, <1>2, <1>3, <1>4, <1>6, <1>7 DEF Kept
<1>9. RowOfActivity'
  <2>1. CASE DeleteRecovery(j)
    BY <1>0, <1>2, <2>1, ActivityStays, ActivityRow, ActivityKinds DEF DeleteRecovery, Inv,
       WorkflowFollowsActivity, TypeOK
  <2>2. CASE DeleteHistory(j)
    BY <1>0, <2>2, ActivityStays DEF DeleteHistory
  <2>3. QED
    BY <2>1, <2>2
<1>10. QED
  BY <1>0, <1>1, <1>8, <1>9 DEF Fine

LEMMA ClearIsFine ==
  ASSUME Inv, ClearHistory
  PROVE  Fine
<1>0. Kept /\ PastesKept /\ Helps /\ UNCHANGED <<jobs, born, activity, due>>
  BY KeptHolds, SilentPaste, QuietStep DEF ClearHistory
<1>1. /\ history' = [k \in Jobs |-> "none"] /\ last' = NoJob
      /\ forgotten' = forgotten \cup {k \in Jobs : history[k] # "none"}
  BY DEF ClearHistory
<1>2. Kept'
  BY <1>0, <1>1, NoJobAssumption DEF Kept, RowsFit, UnbornIsNothing, KeptHasNoRow,
     ForgottenIsGone, 
     LastIsYoung
<1>3. QED
  BY <1>0, <1>2, ActivityStays DEF Fine

(* What is pasted again is the last dictation's text or a row's. *)
LEMMA PasteIsFine ==
  ASSUME Inv, PasteLast \/ \E j \in Jobs : FollowPasteAgain(j)
  PROVE  Fine
<1>0. Kept /\ UNCHANGED <<jobs, history, born, forgotten, last, due, activity>>
  BY KeptHolds DEF PasteLast, FollowPasteAgain, PasteDictation, PastesOnly
<1>1. \/ \E j \in Jobs : (last = j \/ jobs[j].text) /\ PasteAgain(j)
      \/ NoPaste /\ told'.notice = "unavailable"
      \/ NoPaste /\ Unpublished
  <2>1. CASE PasteLast
    BY <1>0, <2>1 DEF PasteLast, Kept
  <2>2. ASSUME NEW j \in Jobs, FollowPasteAgain(j), last # j /\ ~jobs[j].text, ~Unpublished
        PROVE  NoPaste /\ told'.notice = "unavailable"
    <3>1. NoPaste /\ Publish(activity, phase, "unavailable", j)
      BY <2>2 DEF FollowPasteAgain, PasteDictation
    <3>2. told' = [notice |-> "unavailable", job |-> j]
      BY <3>1 DEF Publish
    <3>3. QED
      BY <3>1, <3>2
  <2>3. ASSUME NEW j \in Jobs, FollowPasteAgain(j), last = j \/ jobs[j].text
        PROVE  PasteAgain(j) \/ (NoPaste /\ Unpublished)
    BY <2>3 DEF FollowPasteAgain, PasteDictation
  <2>4. ASSUME NEW j \in Jobs, FollowPasteAgain(j), Unpublished
        PROVE  NoPaste \/ ((last = j \/ jobs[j].text) /\ PasteAgain(j))
    <3>1. Untold # [notice |-> "unavailable", job |-> j]
      BY DEF Untold
    <3>2. ~Publish(activity, phase, "unavailable", j)
      BY <2>4, <3>1 DEF Unpublished, Publish
    <3>3. QED
      BY <2>4, <3>2 DEF FollowPasteAgain, PasteDictation
  <2>5. QED
    BY <2>1, <2>2, <2>3, <2>4
<1>2. ASSUME NoPaste, told'.notice = "unavailable" PROVE Helps /\ PastesKept
  <2>1. "unavailable" \notin {"copied", Failed.paste, Failed.try}
    BY DEF Failed
  <2>2. Helps
    BY <1>2, <2>1, SilenceHelps
  <2>3. QED
    BY <1>2, <2>2, SilentPaste
<1>3. ASSUME NEW j \in Jobs, last = j \/ jobs[j].text, PasteAgain(j)
      PROVE  Helps /\ PastesKept
  <2>1. j \notin forgotten
    BY <1>0, <1>3, NoRowIsSound DEF Kept, ForgottenIsGone
  <2>2. pasted' \in {NoJob, j}
    BY <1>3 DEF PasteAgain
  <2>3. \E notice \in {"none", "copied"} : told' = IF notice = "none" THEN Untold ELSE [notice |-> notice, job |-> j]
    BY <1>3 DEF PasteAgain, Publish
  <2>4. QED
    BY <1>0, <1>3, <2>1, <2>2, <2>3, PasteHelps DEF PastesKept
<1>4. Kept' /\ RowOfActivity'
  BY <1>0, KeptStays, ActivityStays
<1>5. QED
  BY <1>1, <1>2, <1>3, <1>4, QuietStep, SilentPaste DEF Fine

LEMMA AgingIsFine ==
  ASSUME Inv, NEW j \in Jobs, GrowOld(j)
  PROVE  Fine
<1> DEFINE yes == TRUE
           aged == [jobs[j] EXCEPT !.expired = yes]
<1>0. Kept /\ Helps /\ PastesKept /\ ~due /\ UNCHANGED <<born, activity, last, due, forgotten>>
  BY KeptHolds, QuietStep, SilentPaste DEF GrowOld
<1>1. Sound(jobs[j]) /\ (InRecovery(jobs[j]) => IsRow(jobs[j]))
  BY <1>0, LivingRow DEF InRecovery, IsRow
<1>2. yes \in BOOLEAN
  OBVIOUS
<1>3. \/ InRecovery(jobs[j]) /\ jobs' = [jobs EXCEPT ![j] = aged] /\ UNCHANGED history
      \/ history[j] = "kept" /\ history' = [history EXCEPT ![j] = "old"] /\ UNCHANGED jobs
  <2>1. jobs \in [Jobs -> Rows]
    BY <1>0 DEF Kept
  <2>2. [jobs EXCEPT ![j].expired = TRUE] = [jobs EXCEPT ![j] = aged]
    BY <2>1
  <2>3. QED
    BY <2>2 DEF GrowOld
<1> HIDE DEF yes
<1>4. CASE InRecovery(jobs[j]) /\ jobs' = [jobs EXCEPT ![j] = aged] /\ UNCHANGED history
  <2>1. /\ aged \in Rows /\ aged.stage = jobs[j].stage /\ aged.delivery = jobs[j].delivery
    BY <1>1, <1>2 DEF Sound, Rows
  <2> HIDE DEF aged
  <2>2. /\ jobs' \in [Jobs -> Rows] /\ jobs'[j] = aged
        /\ \A k \in Jobs : k # j => jobs'[k] = jobs[k]
    BY <1>0, <1>4, <2>1 DEF Kept
  <2>3. Fits(aged) /\ IsRow(jobs[j]) /\ jobs[j] # NoRow
    BY <1>1, <1>4, <2>1, NoRowIsSound DEF Sound, Fits, IsRow
  <2>4. RowsFit' /\ UnbornIsNothing' /\ KeptHasNoRow' /\ ForgottenIsGone' /\ LastIsYoung'
    BY <1>0, <1>4, <2>2, <2>3 DEF Kept, RowsFit, UnbornIsNothing, KeptHasNoRow,
       ForgottenIsGone, LastIsYoung
  <2>5. Kept'
    BY <1>0, <1>4, <2>2, <2>4 DEF Kept
  <2>6. activity.kind # "idle" => activity.job # j /\ activity.job \in Jobs
    BY <1>4, ActivityRow
  <2>7. RowOfActivity'
    BY <1>0, <2>2, <2>6, ActivityStays, ActivityKinds
  <2>8. QED
    BY <1>0, <2>5, <2>7 DEF Fine
<1>5. CASE history[j] = "kept" /\ history' = [history EXCEPT ![j] = "old"] /\ UNCHANGED jobs
  <2>1. Kept'
    BY <1>0, <1>5 DEF Kept, RowsFit, UnbornIsNothing, KeptHasNoRow, ForgottenIsGone,
       LastIsYoung
  <2>2. QED
    BY <1>0, <1>5, <2>1, ActivityStays DEF Fine
<1>6. QED
  BY <1>3, <1>4, <1>5

(* What a start makes of a row. *)
LEMMA ReconciledIs ==
  ASSUME NEW row, Sound(row)
  PROVE  Lawful(row, ReconcileInterrupted(ReconcileAmbiguous(row)))
<1>1. Lawful(row, ReconcileAmbiguous(row))
  <2>1. CASE row.delivery = "attempting"
    <3>1. IsRow(row)
      BY <2>1 DEF Sound, Fits, NoRow
    <3>2. QED
      BY <2>1, <3>1, LateStatements DEF ReconcileAmbiguous
  <2>2. QED
    BY <2>1, SameIsLawful DEF ReconcileAmbiguous
<1>2. ASSUME NEW new, Sound(new) PROVE Lawful(new, ReconcileInterrupted(new))
  <2>1. CASE InFlight(new)
    BY <1>2, <2>1, EarlyStatements DEF ReconcileInterrupted, InFlight, Sound, Fits, Stages
  <2>2. QED
    BY <1>2, <2>1, SameIsLawful DEF ReconcileInterrupted
<1>3. QED
  BY <1>1, <1>2, LawfulTwice DEF Lawful

LEMMA RestartIsFine ==
  ASSUME Inv, Restart
  PROVE  Fine
<1>0. Kept /\ activity' = Idle /\ last' = NoJob /\ UNCHANGED <<history, born, forgotten>> /\ due' \in BOOLEAN
  BY KeptHolds DEF Restart
<1>1. Helps /\ PastesKept
  BY QuietStep DEF Restart, PublishNothing, PastesKept
<1>2. \A j \in Jobs : Lawful(jobs[j], jobs'[j])
  BY <1>0, LivingRow, ReconciledIs DEF Restart
<1>3. jobs' \in [Jobs -> Rows]
  <2>1. \A j \in Jobs : ReconcileInterrupted(ReconcileAmbiguous(jobs[j])) \in Rows
    BY <1>0, LivingRow, ReconciledIs DEF Lawful, Sound
  <2>2. QED
    BY <2>1 DEF Restart
<1>4. RowsFit' /\ \A j \in Jobs : jobs[j] = NoRow => jobs'[j] = NoRow
  BY <1>2, NoRowIsSound DEF RowsFit, Lawful, Sound, Fits
<1>5. Kept'
  BY <1>0, <1>3, <1>4, NoJobAssumption DEF Kept, UnbornIsNothing, KeptHasNoRow,
     ForgottenIsGone, LastIsYoung
<1>6. QED
  BY <1>0, <1>1, <1>5, ActivityStays DEF Fine

LEMMA MaintenanceIsFine ==
  ASSUME Inv, Maintenance
  PROVE  Fine
<1> DEFINE done == {j \in Jobs : jobs[j].stage = "delivered"}
<1>0. Kept /\ UNCHANGED <<born, last, activity>> /\ due /\ due' \in BOOLEAN
  BY KeptHolds DEF Maintenance
<1>1. Helps /\ PastesKept
  BY QuietStep, SilentPaste DEF Maintenance
<1>2. PICK goneRows \in SUBSET Jobs : \E goneText \in SUBSET Jobs :
        Retained([j \in Jobs |-> IF j \in done THEN NoRow ELSE jobs[j]],
                 [j \in Jobs |-> IF j \in done THEN "kept" ELSE history[j]], goneRows, goneText)
  BY DEF Maintenance
<1>3. done \in SUBSET Jobs /\ \A j \in done : IsRow(jobs[j]) /\ jobs[j].stage = "delivered"
  BY DEF IsRow
<1> HIDE DEF done
<1>4. /\ Kept'
      /\ \A j \in Jobs : ~InRecovery(jobs[j]) /\ j \notin done => jobs'[j] = jobs[j]
  BY <1>0, <1>2, <1>3, RetentionKeeps
<1>5. RowOfActivity'
  BY <1>0, <1>3, <1>4, ActivityStays, ActivityRow, ActivityKinds DEF Inv,
     WorkflowFollowsActivity, TypeOK
<1>6. QED
  BY <1>1, <1>4, <1>5 DEF Fine

LEMMA CancelIsFine ==
  ASSUME Inv, CancelProcessing
  PROVE  Fine
<1>1. Kept' /\ activity' = Idle
  BY KeptHolds, KeptStays DEF CancelProcessing, Settle
<1>2. PastesKept
  BY SilentPaste DEF CancelProcessing
<1>3. Helps
  BY SettleTells, TryHelps DEF CancelProcessing, Failed
<1>4. QED
  BY <1>1, <1>2, <1>3, ActivityStays DEF Fine

LEMMA ShutdownTells ==
  ASSUME Inv, Shutdown
  PROVE  Helps /\ PastesKept
<1>1. CASE activity' = Idle /\ activity = Recording(activity.job) /\ activity.job \in Jobs
  BY <1>1, EndTells
<1>2. CASE Unpublished
  BY <1>2, SilentPaste, QuietStep DEF Shutdown
<1>3. QED
  BY <1>1, <1>2, ShutdownIs

(* Every step keeps texts and tells the truth. *)
LEMMA FineStep ==
  ASSUME Inv, Next
  PROVE  Fine
<1>1. ASSUME NEW j \in Jobs, StartRecording(j) PROVE Fine
  BY <1>1, StartKeeps, StartTells DEF Fine
<1>2. ASSUME NEW j \in Jobs, StopRecording(j) \/ DiscardRecording(j) \/ RecorderFailed(j) PROVE Fine
  BY <1>2, EndKeeps, EndTells DEF Fine
<1>3. ASSUME NEW j \in Jobs, CompleteTranscription(j) PROVE Fine
  <2>1. RowOfActivity'
    <3>1. CASE activity' = Idle
      BY <3>1, ActivityStays
    <3>2. CASE activity' # Idle
      <4>1. UNCHANGED activity
        BY <1>3, <3>2, ResultEnds
      <4>2. QED
        BY <1>3, <3>2, <4>1, ResultEnds, ActivityStays
    <3>3. QED
      BY <3>1, <3>2
  <2>2. QED
    BY <1>3, <2>1, ResultEnds DEF Fine
<1>4. ASSUME NEW j \in Jobs, TranscribeAgain(j) \/ FollowTryAgain(j) PROVE Fine
  BY <1>4, RetryIsFine DEF TranscribeAgain, FollowTryAgain, Requesters
<1>5. ASSUME NEW j \in Jobs, CopyAgain(j) \/ DeleteRecovery(j) \/ DeleteHistory(j) \/ GrowOld(j) PROVE Fine
  BY <1>5, CopyIsFine, DeleteIsFine, AgingIsFine
<1>6. CASE Shutdown
  BY <1>6, ShutdownKeeps, ShutdownTells DEF Fine
<1>7. QED
  BY <1>1, <1>2, <1>3, <1>4, <1>5, <1>6, CancelIsFine, ClearIsFine, PasteIsFine,
     RestartIsFine, 
     MaintenanceIsFine DEF Next

--------------------------------------------------------------------------------
(* The other types *)

Said ==
  /\ offers \subseteq {"paste_again", "try_again"} \X Jobs
  /\ told \in [notice : Notices, job : Jobs \cup {NoJob}]

LEMMA PublishSays ==
  ASSUME Said
  PROVE  /\ Unpublished \/ Unshown => Said'
         /\ (\E act, p : Publish(act, p, "none", NoJob)) => Said'
         /\ \A notice \in Notices, j \in Jobs :
              (\E act, p : Publish(act, p, notice, j)) => Said'
<1>1. Untold \in [notice : Notices, job : Jobs \cup {NoJob}]
  BY DEF Untold, Notices
<1>2. Unpublished \/ Unshown => Said'
  BY <1>1 DEF Said, Unpublished, Unshown
<1>3. ASSUME NEW notice \in Notices, NEW j \in Jobs \cup {NoJob}, j \in Jobs \/ notice = "none",
             NEW act, NEW p, Publish(act, p, notice, j)
      PROVE  Said'
  <2>1. Actions(notice, j) \subseteq {"paste_again", "try_again"} \X Jobs
    <3>1. CASE j \in Jobs
      <4>1. {<<"paste_again", j>>, <<"try_again", j>>} \subseteq {"paste_again", "try_again"} \X Jobs
        BY <3>1
      <4>2. QED
        BY <4>1, ActionsAre
    <3>2. CASE notice = "none"
      <4>1. "none" \notin {"copied", Failed.paste, Failed.try}
        BY DEF Failed
      <4>2. Actions(notice, j) = {}
        BY <3>2, <4>1, ActionsAre
      <4>3. QED
        BY <4>2
    <3>3. QED
      BY <1>3, <3>1, <3>2
  <2>2. [notice |-> notice, job |-> j] \in [notice : Notices, job : Jobs \cup {NoJob}]
    OBVIOUS
  <2>3. /\ told' = Untold \/ told' = [notice |-> notice, job |-> j]
        /\ offers' = offers \cup Actions(notice, j)
    BY <1>3 DEF Publish
  <2>4. QED
    BY <1>1, <2>1, <2>2, <2>3 DEF Said
<1>4. "none" \in Notices
  BY DEF Notices
<1>5. QED
  BY <1>2, <1>3, <1>4

LEMMA SettleSays ==
  ASSUME Said, NEW p, NEW j \in Jobs, NEW end, NEW notice \in Notices, Settle(p, j, end, notice)
  PROVE  Said'
<1>1. Announced(notice) \in Notices
  BY DEF Announced, Notices
<1>2. QED
  BY <1>1, PublishSays DEF Settle

LEMMA NoticesAre ==
  /\ {"none", "copied", "nothing_heard", "unavailable"} \subseteq Notices
  /\ Failed.try \in Notices /\ Failed.paste \in Notices /\ Failed.fix \in Notices
  BY DEF Notices

LEMMA SaidStep ==
  ASSUME Inv, Next
  PROVE  Said'
<1>0. Said /\ activity \in Activities /\ last \in Jobs \cup {NoJob}
  BY DEF Inv, WorkflowFollowsActivity, TypeOK, Said
<1> USE NoticesAre
<1>1. ASSUME NEW j \in Jobs, StartRecording(j) PROVE Said'
  <2>1. \/ PublishNothing
        \/ \E start \in FailedStarts : \E p, found : AbandonStart(p, j, found, start.notice)
    BY <1>1 DEF StartRecording
  <2>2. ASSUME NEW start \in FailedStarts, NEW p, NEW found, AbandonStart(p, j, found, start.notice)
        PROVE  Said'
    <3>1. start.notice \in Notices
      BY FailedStartsAre DEF Inv, WorkflowFollowsActivity, TypeOK
    <3>2. QED
      BY <1>0, <2>2, <3>1, PublishSays, SettleSays DEF AbandonStart, Interrupt
  <2>3. QED
    BY <1>0, <2>1, <2>2, PublishSays DEF PublishNothing
<1>2. ASSUME NEW j \in Jobs, StopRecording(j) \/ DiscardRecording(j) \/ RecorderFailed(j) PROVE Said'
  <2>1. PublishNothing \/ \E p, end : \E notice \in {"none", Failed.try} : Settle(p, j, end, notice)
    BY <1>2 DEF StopRecording, DiscardRecording, RecorderFailed, Interrupt
  <2>2. QED
    BY <1>0, <2>1, PublishSays, SettleSays DEF PublishNothing
<1>3. ASSUME NEW j \in Jobs, CompleteTranscription(j) PROVE Said'
  <2>1. \/ \E end : \E notice \in {"none", "nothing_heard", Failed.try, Failed.fix} :
             EndWait(j, end, notice) \/ FailWait(j, end, notice)
        \/ \E row : Deliver(j, row)
    BY <1>3 DEF CompleteTranscription
  <2>2. ASSUME NEW end, NEW notice \in {"none", "nothing_heard", Failed.try, Failed.fix},
               EndWait(j, end, notice) \/ FailWait(j, end, notice)
        PROVE  Said'
    BY <1>0, <2>2, PublishSays, SettleSays DEF EndWait, FailWait, PublishNothing
  <2>3. ASSUME NEW row, Deliver(j, row) PROVE Said'
    <3>1. \E p, end : \E notice \in {"none", "copied", Failed.paste} : Settle(p, j, end, notice)
      BY <2>3 DEF Deliver, Interrupt, FailedDelivery
    <3>2. QED
      BY <1>0, <3>1, SettleSays
  <2>4. QED
    BY <2>1, <2>2, <2>3
<1>4. ASSUME NEW j \in Jobs,
             \/ TranscribeAgain(j) \/ FollowTryAgain(j) \/ CopyAgain(j)
             \/ DeleteRecovery(j) \/ DeleteHistory(j) \/ GrowOld(j)
      PROVE  Said'
  BY <1>0, <1>4, PublishSays DEF TranscribeAgain, FollowTryAgain, BeginRetry, CopyAgain,
     DeleteRecovery, 
     DeleteHistory, GrowOld, PublishNothing
<1>5. ASSUME NEW j \in Jobs, PasteAgain(j) PROVE Said'
  <2>1. \E notice \in {"none", "copied"} : Publish(activity, phase, notice, j)
    BY <1>5 DEF PasteAgain
  <2>2. QED
    BY <1>0, <2>1, PublishSays
<1>6. CASE PasteLast
  BY <1>0, <1>5, <1>6 DEF PasteLast
<1>7. ASSUME NEW j \in Jobs, FollowPasteAgain(j) PROVE Said'
  BY <1>0, <1>5, <1>7, PublishSays DEF FollowPasteAgain, PasteDictation
<1>8. CASE CancelProcessing
  BY <1>0, <1>8, SettleSays, ActivityKinds DEF CancelProcessing
<1>9. CASE Shutdown
  BY <1>0, <1>9, ShutdownIs, PublishSays, SettleSays DEF Interrupt
<1>10. CASE ClearHistory \/ Restart \/ Maintenance
  BY <1>0, <1>10, PublishSays DEF ClearHistory, Restart, Maintenance, PublishNothing
<1>11. QED
  BY <1>1, <1>2, <1>3, <1>4, <1>6, <1>7, <1>8, <1>9, <1>10 DEF Next

Pasted == {pasted, latest} \subseteq Jobs \cup {NoJob} /\ landed \in BOOLEAN

LEMMA NoPasteType == ASSUME Pasted, NoPaste PROVE Pasted'
<1>1. landed' \in BOOLEAN
  BY DEF NoPaste
<1>2. QED
  BY <1>1 DEF NoPaste, Pasted

LEMMA ChordType ==
  ASSUME NEW j \in Jobs, NEW row, Sound(row), row.stage = "ready_to_deliver", row.text,
         NEW pastes \in BOOLEAN, NEW outcome \in DeliveryOutcomes(row, pastes), Chord(j, outcome)
  PROVE  Pasted' /\ outcome.faults \in Nat
<1>1. outcome.taken \in BOOLEAN /\ outcome.faults \in Nat
  BY OutcomeIs
<1>2. QED
  BY <1>1 DEF Chord, Pasted

Counted ==
  /\ failures \in 0..MaxFailures /\ misreads \in 0..failures
  /\ stray \in BOOLEAN /\ StrayIsMisread

LEMMA FailingCounts ==
  ASSUME Counted, NEW n \in Nat, NEW unread \in Nat, unread <= n, Failing(n, unread),
         stray' \in BOOLEAN, stray' => stray \/ unread > 0
  PROVE  Counted'
<1>1. /\ failures \in Nat /\ misreads \in Nat /\ misreads <= failures /\ failures + n <= MaxFailures
      /\ failures' = failures + n /\ misreads' = misreads + unread
  BY DEF Counted, Failing
<1>2. failures' \in 0..MaxFailures /\ misreads' \in 0..failures'
  BY <1>1, BoundsAssumption
<1>3. stray' => misreads' > 0
  BY <1>1 DEF Counted, StrayIsMisread
<1>4. QED
  BY <1>2, <1>3 DEF Counted, StrayIsMisread

LEMMA FailCounts ==
  ASSUME Counted, UNCHANGED stray
  PROVE  /\ \A n \in Nat : Fail(n) => Counted'
         /\ Misread => Counted'
         /\ UNCHANGED <<failures, misreads>> => Counted'
<1>1. \A n \in Nat : Fail(n) => Counted'
  BY FailingCounts DEF Fail, Counted
<1>2. Misread => Counted'
  BY FailingCounts DEF Misread, Counted
<1>3. UNCHANGED <<failures, misreads>> => Counted'
  BY DEF Counted, StrayIsMisread
<1>4. QED
  BY <1>1, <1>2, <1>3

LEMMA CompletionCounts ==
  ASSUME Counted, UNCHANGED stray, NEW j, NEW row, CompleteDelivered(j, row)
  PROVE  Counted'
  BY FailCounts DEF CompleteDelivered

(* A text that was just transcribed, or is to be copied, is ready. *)
LEMMA ReadyRows ==
  ASSUME Kept, NEW j \in Jobs
  PROVE  /\ jobs[j].stage = "transcribing" =>
              /\ Sound(StoreReady(StoreRaw(jobs[j]))) /\ StoreReady(StoreRaw(jobs[j])).text
              /\ StoreReady(StoreRaw(jobs[j])).stage = "ready_to_deliver"
         /\ PasteAgainAllowed(jobs[j]) =>
              /\ Sound(RetryDelivery(jobs[j])) /\ RetryDelivery(jobs[j]).text
              /\ RetryDelivery(jobs[j]).stage = "ready_to_deliver"
<1>1. Sound(jobs[j])
  BY LivingRow
<1>2. ASSUME jobs[j].stage = "transcribing"
      PROVE  /\ Sound(StoreReady(StoreRaw(jobs[j]))) /\ StoreReady(StoreRaw(jobs[j])).text
             /\ StoreReady(StoreRaw(jobs[j])).stage = "ready_to_deliver"
  <2>1. Sound(StoreRaw(jobs[j])) /\ IsRow(StoreRaw(jobs[j]))
    BY <1>1, <1>2, LateStatements DEF IsRow, Lawful
  <2>2. QED
    BY <2>1, LateStatements DEF Lawful
<1>3. ASSUME PasteAgainAllowed(jobs[j])
      PROVE  /\ Sound(RetryDelivery(jobs[j])) /\ RetryDelivery(jobs[j]).text
             /\ RetryDelivery(jobs[j]).stage = "ready_to_deliver"
  BY <1>1, <1>3, LateStatements DEF PasteAgainAllowed, Lawful
<1>4. QED
  BY <1>2, <1>3

LEMMA CompleteCounts ==
  ASSUME Inv, Pasted, Counted, NEW j \in Jobs, CompleteTranscription(j)
  PROVE  Pasted' /\ Counted'
<1> DEFINE ready == StoreReady(StoreRaw(jobs[j]))
<1>0. UNCHANGED stray
  BY DEF CompleteTranscription
<1>1. \/ NoPaste /\ (Misread \/ \E n \in {0, 1, 2} : Fail(n))
      \/ jobs[j].stage = "transcribing" /\ Deliver(j, ready)
  <2>1. \A end \in UnstoredRows(jobs[j]) : end.faults \in {0, 1, 2}
    BY DEF UnstoredRows
  <2>2. \/ NoPaste /\ (Misread \/ (\E n \in {0, 1, 2} : Fail(n))
                        \/ \E end \in UnstoredRows(jobs[j]) : Fail(end.faults))
        \/ jobs[j].stage = "transcribing" /\ Deliver(j, ready)
    BY DEF CompleteTranscription
  <2>3. QED
    BY <2>1, <2>2
<1>2. CASE NoPaste /\ (Misread \/ \E n \in {0, 1, 2} : Fail(n))
  BY <1>0, <1>2, NoPasteType, FailCounts
<1>3. CASE jobs[j].stage = "transcribing" /\ Deliver(j, ready)
  <2>1. Sound(ready) /\ ready.text /\ ready.stage = "ready_to_deliver"
    BY <1>3, KeptHolds, ReadyRows
  <2> HIDE DEF ready
  <2>2. PICK pastes \in BOOLEAN :
          \E outcome \in DeliveryOutcomes(ready, pastes) :
            Chord(j, outcome) /\ (CompleteDelivered(j, outcome.row) \/ Fail(outcome.faults))
    BY <1>3 DEF Deliver
  <2>3. QED
    BY <1>0, <2>1, <2>2, ChordType, FailCounts, CompletionCounts
<1>4. QED
  BY <1>1, <1>2, <1>3

LEMMA CopyCounts ==
  ASSUME Inv, Pasted, Counted, NEW j \in Jobs, CopyAgain(j)
  PROVE  Pasted' /\ Counted'
<1> DEFINE again == RetryDelivery(jobs[j])
           no == FALSE
<1>1. Sound(again) /\ again.text /\ again.stage = "ready_to_deliver"
  BY KeptHolds, ReadyRows DEF CopyAgain
<1>2. \/ NoPaste /\ Misread
      \/ \E outcome \in DeliveryOutcomes(again, no) :
           Chord(j, outcome) /\ (CompleteDelivered(j, outcome.row) \/ Fail(outcome.faults))
  BY DEF CopyAgain
<1>3. no \in BOOLEAN /\ UNCHANGED stray
  BY DEF CopyAgain
<1> HIDE DEF again, no
<1>4. QED
  BY <1>1, <1>2, <1>3, ChordType, NoPasteType, FailCounts, CompletionCounts

LEMMA CountStep ==
  ASSUME Inv, Next
  PROVE  /\ Pasted' /\ Counted' /\ restarts' \in 0..MaxRestarts
         /\ tickets' \in SUBSET Jobs /\ quiet' \in BOOLEAN
<1>0. /\ Pasted /\ Counted /\ activity \in Activities /\ last \in Jobs \cup {NoJob}
      /\ restarts \in 0..MaxRestarts /\ tickets \in SUBSET Jobs /\ quiet \in BOOLEAN
  BY DEF Inv, WorkflowFollowsActivity, TypeOK, Pasted, Counted
<1>1. ASSUME NEW j \in Jobs, StartRecording(j)
      PROVE  Pasted' /\ Counted' /\ UNCHANGED <<restarts, tickets, quiet>>
  <2>1. CASE Fail(0) /\ UNCHANGED stray
    BY <1>0, <1>1, <2>1, NoPasteType, FailCounts DEF StartRecording
  <2>2. ASSUME NEW start \in FailedStarts, NEW lost \in 0..1,
               Failing(start.faults + lost, start.unread), stray' = start.runs
        PROVE  Counted'
    <3>1. /\ start.faults \in Nat /\ start.unread \in Nat /\ start.unread <= start.faults
          /\ start.runs \in BOOLEAN /\ (start.runs => stray \/ start.unread > 0)
      BY <1>0, FailedStartsAre DEF Counted
    <3>2. start.faults + lost \in Nat /\ start.unread <= start.faults + lost
      BY <3>1
    <3>3. QED
      BY <1>0, <2>2, <3>1, <3>2, FailingCounts
  <2>3. QED
    BY <1>0, <1>1, <2>1, <2>2, NoPasteType DEF StartRecording
<1>2. ASSUME NEW j \in Jobs, \/ StopRecording(j) \/ DiscardRecording(j) \/ RecorderFailed(j)
                             \/ Shutdown /\ activity = Recording(j) /\ activity' = Idle
      PROVE  /\ Pasted' /\ Counted' /\ UNCHANGED restarts
             /\ tickets' \in SUBSET Jobs /\ quiet' \in BOOLEAN
  <2>1. Sound(jobs[j]) /\ jobs[j].stage = "recording"
    BY <1>2, KeptHolds, LivingRow, EndPuts
  <2>2. \/ Misread \/ \E n \in {0, 1} : Fail(n)
        \/ \E end \in Unfinished(jobs[j]) \cup Preserved(jobs[j]) : Fail(end.faults)
    <3>1. CASE StopRecording(j) \/ DiscardRecording(j)
      <4>1. \/ Misread \/ Fail(0) \/ Fail(1)
            \/ \E long \in BOOLEAN :
                 \E end \in Unfinished(jobs[j]) \cup {[row |-> Captured(jobs[j], long), faults |-> 1]} :
                   Fail(end.faults)
        BY <3>1 DEF StopRecording, DiscardRecording
      <4>2. QED
        BY <4>1
    <3>2. CASE RecorderFailed(j)
      BY <3>2 DEF RecorderFailed
    <3>3. CASE Shutdown /\ activity = Recording(j) /\ activity' = Idle
      <4>1. activity.kind = "recording" /\ activity.job = j
        BY <3>3 DEF Recording
      <4>2. QED
        BY <3>3, <4>1 DEF Shutdown
    <3>4. QED
      BY <1>2, <3>1, <3>2, <3>3
  <2>3. Counted'
    <3>1. UNCHANGED stray
      BY <1>2 DEF StopRecording, DiscardRecording, RecorderFailed, Shutdown
    <3>2. QED
      BY <1>0, <2>1, <2>2, <3>1, EndedRows, FailCounts
  <2>4. NoPaste /\ UNCHANGED restarts /\ (UNCHANGED tickets \/ tickets' = tickets \cup {j})
    BY <1>2 DEF StopRecording, DiscardRecording, RecorderFailed, Shutdown
  <2>5. quiet' \in BOOLEAN
    <3>1. CASE Shutdown /\ activity = Recording(j) /\ activity' = Idle
      <4>1. activity.kind = "recording" /\ activity.job = j
        BY <3>1 DEF Recording
      <4>2. QED
        BY <2>1, <3>1, <4>1, EndedRows DEF Shutdown, Idle
    <3>2. QED
      BY <1>0, <1>2, <3>1 DEF StopRecording, DiscardRecording, RecorderFailed
  <2>6. QED
    BY <1>0, <2>3, <2>4, <2>5, NoPasteType
<1>3. ASSUME NEW j \in Jobs, CompleteTranscription(j) \/ CopyAgain(j)
      PROVE  Pasted' /\ Counted' /\ UNCHANGED <<restarts, quiet>> /\ tickets' \in SUBSET Jobs
  <2>1. UNCHANGED <<restarts, quiet>> /\ tickets' \in {tickets, tickets \ {j}}
    BY <1>3 DEF CompleteTranscription, CopyAgain
  <2>2. QED
    BY <1>0, <1>3, <2>1, CompleteCounts, CopyCounts
<1>4. ASSUME NEW j \in Jobs,
             \/ TranscribeAgain(j) \/ FollowTryAgain(j)
             \/ DeleteRecovery(j) \/ DeleteHistory(j) \/ GrowOld(j)
      PROVE  /\ Pasted' /\ Counted' /\ UNCHANGED <<restarts, quiet>> /\ tickets' \in SUBSET Jobs
  <2>1. /\ NoPaste /\ UNCHANGED <<stray, restarts, quiet>> /\ tickets' \in {tickets, tickets \cup {j}}
        /\ Misread \/ Fail(0) \/ Fail(1) \/ UNCHANGED <<failures, misreads>>
    BY <1>4 DEF TranscribeAgain, FollowTryAgain, BeginRetry, DeleteRecovery, DeleteHistory,
       GrowOld
  <2>2. QED
    BY <1>0, <2>1, NoPasteType, FailCounts
<1>5. ASSUME NEW j \in Jobs, PasteAgain(j) PROVE Pasted'
  <2>1. /\ pasted' \in {NoJob, j} /\ latest' = latest
        /\ \E sent \in BOOLEAN : \E taken \in {FALSE, sent} : landed' = taken
    BY <1>5 DEF PasteAgain
  <2>2. landed' \in BOOLEAN
    BY <2>1
  <2>3. QED
    BY <1>0, <2>1, <2>2 DEF Pasted
<1>6. CASE PasteLast \/ \E j \in Jobs : FollowPasteAgain(j)
  <2>1. /\ UNCHANGED <<stray, restarts, quiet, tickets>> /\ (NoPaste \/ \E j \in Jobs : PasteAgain(j))
        /\ Fail(0) \/ Fail(1)
    BY <1>0, <1>6 DEF PasteLast, FollowPasteAgain, PasteDictation, PastesOnly
  <2>2. QED
    BY <1>0, <1>5, <2>1, NoPasteType, FailCounts
<1>7. CASE CancelProcessing \/ ClearHistory \/ Maintenance
  <2>1. NoPaste /\ UNCHANGED <<failures, misreads, stray, restarts, quiet, tickets>>
    BY <1>7 DEF CancelProcessing, ClearHistory, Maintenance
  <2>2. QED
    BY <1>0, <2>1, NoPasteType, FailCounts
<1>8. CASE Shutdown
  <2>1. CASE activity' = Idle /\ activity = Recording(activity.job) /\ activity.job \in Jobs
    BY <1>0, <1>2, <1>8, <2>1
  <2>2. CASE quiet' \in BOOLEAN /\ \E n \in {0, 1} : Fail(n)
    <3>1. NoPaste /\ UNCHANGED <<stray, restarts, tickets>>
      BY <1>8 DEF Shutdown
    <3>2. QED
      BY <1>0, <2>2, <3>1, NoPasteType, FailCounts
  <2>3. QED
    BY <1>8, <2>1, <2>2, ShutdownIs
<1>9. CASE Restart
  <2>1. landed' \in BOOLEAN /\ quiet' \in BOOLEAN /\ stray' \in BOOLEAN /\ ~stray'
    BY <1>9 DEF Restart
  <2>2. QED
    BY <1>0, <1>9, <2>1, BoundsAssumption DEF Restart, Pasted, Counted, StrayIsMisread
<1>10. QED
  BY <1>0, <1>1, <1>2, <1>3, <1>4, <1>6, <1>7, <1>8, <1>9 DEF Next

--------------------------------------------------------------------------------
(* The theorems *)

LEMMA InvIs == Inv <=> /\ InStep /\ Mirrored /\ Kept /\ RowOfActivity /\ Said /\ Pasted /\ Counted
                       /\ restarts \in 0..MaxRestarts /\ tickets \in SUBSET Jobs /\ quiet \in BOOLEAN
<1>1. Inv <=> /\ TypeOK /\ InStep /\ Mirrored /\ RowsFit /\ UnbornIsNothing /\ KeptHasNoRow
              /\ ForgottenIsGone /\ LastIsYoung /\ RowOfActivity /\ StrayIsMisread
  BY ShownIs DEF Inv
<1>2. InStep /\ Mirrored =>
        recording \in BOOLEAN /\ unshown \in BOOLEAN /\ overlay \in Busy \cup {"ready", "attention"}
  BY DEF InStep, Mirrored, OverlayUpdate, Phases
<1>3. QED
  BY <1>1, <1>2 DEF TypeOK, InStep, Phases, Kept, Said, Pasted, Counted

LEMMA InitInv == Init => Inv
<1> SUFFICES ASSUME Init PROVE Inv
  OBVIOUS
<1> DEFINE no == FALSE
<1>0. no \in BOOLEAN /\ ~no
  OBVIOUS
<1>1. recording = no /\ landed = no /\ quiet = no /\ unshown = no /\ stray = no
  BY DEF Init
<1> HIDE DEF no
<1>2. InStep /\ Mirrored
  <2>1. activity = Idle /\ phase = Ready /\ overlay = "ready"
    BY DEF Init
  <2>2. Idle \in Activities /\ Idle.kind = "idle"
    BY DEF Activities, Idle
  <2>3. Ready \in Phases /\ Ready.at = "ready" /\ Ready.job = NoJob
    BY DEF Ready, Phases
  <2>4. InStep
    BY <2>1, <2>2, <2>3 DEF InStep, ReadyIsNobodys
  <2>5. OverlayUpdate(activity, phase) = "ready"
    BY <2>1, <2>2, <2>3 DEF OverlayUpdate
  <2>6. activity.kind # "recording" /\ ~recording /\ recording \in BOOLEAN
    BY <1>0, <1>1, <2>1, <2>2
  <2>7. QED
    BY <1>0, <1>1, <2>1, <2>4, <2>5, <2>6 DEF Mirrored
<1>3. Kept /\ RowOfActivity
  BY NoRowIsSound, NoJobAssumption DEF Init, Kept, RowOfActivity, RowsFit, UnbornIsNothing,
     KeptHasNoRow, ForgottenIsGone, LastIsYoung, Idle, Sound
<1>4. Said
  BY DEF Init, Said, Untold, Notices
<1>5. Pasted
  BY <1>0, <1>1 DEF Init, Pasted
<1>6. Counted /\ restarts \in 0..MaxRestarts /\ tickets \in SUBSET Jobs
  BY <1>0, <1>1, BoundsAssumption DEF Init, Counted, StrayIsMisread
<1>7. QED
  BY <1>0, <1>1, <1>2, <1>3, <1>4, <1>5, <1>6, InvIs

LEMMA InvStep ==
  ASSUME Inv, [Next]_vars
  PROVE  Inv'
<1>1. CASE Next
  <2>1. InStep' /\ Mirrored' /\ Kept' /\ RowOfActivity'
    BY <1>1, ShownStep, FineStep DEF Fine
  <2>2. Said' /\ Pasted' /\ Counted'
    BY <1>1, SaidStep, CountStep
  <2>3. restarts' \in 0..MaxRestarts /\ tickets' \in SUBSET Jobs /\ quiet' \in BOOLEAN
    BY <1>1, CountStep
  <2>4. (/\ InStep /\ Mirrored /\ Kept /\ RowOfActivity /\ Said /\ Pasted /\ Counted
         /\ restarts \in 0..MaxRestarts /\ tickets \in SUBSET Jobs /\ quiet \in BOOLEAN)'
    BY <2>1, <2>2, <2>3
  <2>5. QED
    BY <2>4, InvIs, PTL
<1>2. CASE UNCHANGED vars
  BY <1>2 DEF vars, Inv, WorkflowFollowsActivity, TypeOK, ReadyIsNobodys, RowsFit,
     UnbornIsNothing, 
     KeptHasNoRow, ForgottenIsGone, LastIsYoung, RowOfActivity, StrayIsMisread
<1>3. QED
  BY <1>1, <1>2

(* The workflow, the overlay and the mirror tell what the daemon is at in every reachable
   state, whatever failed before and however often it started. *)
THEOREM DaemonInvariance == Spec => []Inv
<1>1. Inv /\ [Next]_vars => Inv'
  BY InvStep
<1>2. QED
  BY <1>1, InitInv, PTL DEF Spec

(* Between two commands the workflow, the overlay and the mirror that Escape reads follow
   the activity: a part of the invariant. *)
THEOREM WorkflowFollows == Spec => []WorkflowFollowsActivity
<1>1. Inv => WorkflowFollowsActivity
  BY DEF Inv
<1>2. QED
  BY <1>1, DaemonInvariance, PTL

(* No step pastes a text that was deleted, by the user or by retention. *)
THEOREM PastesNothingDeleted == Spec => DeletedIsNotPasted
<1>1. Inv /\ [Next]_vars => [pasted' # NoJob => pasted' \notin forgotten']_vars
  BY FineStep DEF Fine, PastesKept
<1>2. QED
  BY <1>1, DaemonInvariance, PTL DEF Spec, DeletedIsNotPasted

(* A dictation that ends is told of, and what is then offered helps. *)
LEMMA EndStep ==
  ASSUME Inv, Next, activity # Idle, activity' = Idle
  PROVE  \/ Tells(activity.job)
         \/ CancelProcessing \/ DiscardRecording(activity.job) \/ Shutdown \/ Restart
<1>1. ASSUME NEW j \in Jobs, StopRecording(j) \/ RecorderFailed(j) PROVE Tells(activity.job)
  BY <1>1, EndTells DEF Recording
<1>2. ASSUME NEW j \in Jobs, DiscardRecording(j) PROVE DiscardRecording(activity.job)
  BY <1>2, EndTells DEF Recording
<1>3. ASSUME NEW j \in Jobs, CompleteTranscription(j) PROVE Tells(activity.job)
  <2>1. Current(j)
    BY <1>3, ResultEnds
  <2>2. QED
    BY <1>3, <2>1, ResultEnds DEF Current
<1>4. ASSUME NEW j \in Jobs,
             \/ StartRecording(j) \/ TranscribeAgain(j) \/ FollowTryAgain(j) \/ FollowPasteAgain(j)
             \/ CopyAgain(j) \/ DeleteRecovery(j) \/ DeleteHistory(j) \/ GrowOld(j)
      PROVE  FALSE
  BY <1>4 DEF StartRecording, TranscribeAgain, FollowTryAgain, BeginRetry, FollowPasteAgain,
     PasteDictation, CopyAgain, DeleteRecovery, DeleteHistory, GrowOld
<1>5. ~PasteLast /\ ~ClearHistory /\ ~Maintenance
  BY DEF PasteLast, ClearHistory, Maintenance
<1>6. QED
  BY <1>1, <1>2, <1>3, <1>4, <1>5 DEF Next

(* Every dictation's end is told, or was asked for, and a button is offered only when it
   helps: EndsAreTold and OfferedHelpWorks. *)
THEOREM TellsTheTruth == Spec => NoticesAreTrue
<1> DEFINE Told == LET j == activity.job IN
             activity # Idle /\ activity' = Idle =>
               \/ told'.job = j
               \/ pasted' = j /\ landed'
               \/ CancelProcessing \/ DiscardRecording(j) \/ Shutdown \/ Restart
               \/ quiet \/ activity.by = "window"
           Helpful == LET j == told'.job IN
             failures' <= 1 /\ misreads' = misreads =>
               /\ <<"try_again", j>> \in Actions(told'.notice, j) => RetryAllowed(jobs'[j])
               /\ <<"paste_again", j>> \in Actions(told'.notice, j) =>
                    last' = j \/ jobs'[j].text
<1>1. Inv /\ [Next]_vars => [Told]_vars
  BY EndStep DEF Tells
<1>2. Inv /\ [Next]_vars => [Helpful]_vars
  BY FineStep DEF Fine, Helps
<1>3. QED
  BY <1>1, <1>2, DaemonInvariance, PTL DEF Spec, NoticesAreTrue, EndsAreTold,
     OfferedHelpWorks


================================================================================
