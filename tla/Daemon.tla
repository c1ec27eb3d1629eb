--------------------------------- MODULE Daemon ---------------------------------
(* The daemon's commands (crates/agentdictate-app/src/daemon.rs): which dictation
   is under way, the workflow shown for it, the last dictation that "Paste last
   dictation" pastes, what a dictation's end is announced as, and what the
   buttons of those notifications (notifications.rs) do when they are clicked,
   perhaps long after.

   Every command holds the daemon lock throughout, so it is one step here; what
   can happen inside one is the module Store's.  A step chooses one of the
   outcomes its statements, its reads and its recorder can have, and `failures`
   counts those that failed.  Rows are the module JobTable's.                *)
EXTENDS JobTable, Naturals

CONSTANTS
  Jobs,         \* dictations there may ever be
  NoJob,
  MaxFailures,  \* bound: failed statements, reads and recorder calls
  MaxRestarts   \* bound: crashes and restarts

ASSUME NoJobAssumption == NoJob \notin Jobs
ASSUME BoundsAssumption == MaxFailures \in Nat /\ MaxRestarts \in Nat

VARIABLES
  jobs,      \* dictation_jobs
  history,   \* what History holds of each dictation's text
  born,      \* dictations that have been started
  activity,  \* Daemon::activity
  phase,     \* Daemon::workflow
  last,      \* Daemon::last_dictation
  quiet,     \* Daemon::quiet
  recording, \* DaemonStatus::recording, which is read without the lock
  overlay,   \* the phase the overlay was last told to show
  unshown,   \* the phase has changed, and the overlay was not told
  stray,     \* a recorder runs on that no activity stands for
  tickets,   \* transcriptions running
  due,       \* the maintenance of this start has still to run
  offers,    \* buttons of notifications shown so far
  told,      \* history: what the last step announced
  pasted,    \* history: the dictation the last step pasted
  landed,    \* history: whether its target took it
  latest,    \* history: the dictation delivered, or refused delivery, last
  forgotten, \* history: dictations whose text was deleted
  failures,
  misreads,  \* history: how many of them left a row that its step could not read
  restarts

vars == <<jobs, history, born, activity, phase, last, quiet, recording, overlay,
          unshown, stray, tickets, due, offers, told, pasted, landed, latest,
          forgotten, failures, misreads, restarts>>

--------------------------------------------------------------------------------
(* The workflow (agentdictate-core/src/workflow.rs) *)

Ready == [at |-> "ready", job |-> NoJob]

Busy == {"starting", "recording", "stopping", "transcribing",
         "ready_to_deliver", "delivering"}

(* From a phase, by a signal, to a phase *)
Transitions ==
  {<<p, "start", "starting">> : p \in {"ready", "attention"}}
  \cup {<<p, "retry", "transcribing">> : p \in {"ready", "attention"}}
  \cup {<<p, "stop", "stopping">> : p \in {"starting", "recording"}}
  \cup {<<p, "discard", "ready">> : p \in {"starting", "recording", "stopping"}}
  \cup {<<p, "interrupted", "attention">> : p \in Busy}
  \cup {<<"starting", "first_frame", "recording">>,
        <<"stopping", "captured", "transcribing">>,
        <<"transcribing", "no_speech", "ready">>,
        <<"transcribing", "cancelled", "ready">>,
        <<"transcribing", "stored", "ready_to_deliver">>,
        <<"ready_to_deliver", "delivery", "delivering">>,
        <<"delivering", "submitted", "ready">>}

(* A signal is for the phase's own job, save that a job waiting in Recovery
   never blocks another.  The signal to stop names none. *)
Concerns(p, signal, j) ==
  \/ p.job \in {NoJob, j}
  \/ signal = "stop"
  \/ p.at = "attention" /\ signal \in {"start", "retry"}

Targets(p, signal, j) ==
  {[at |-> t[3], job |-> IF t[3] = "ready" THEN NoJob ELSE j] :
     t \in {t \in Transitions : t[1] = p.at /\ t[2] = signal /\ Concerns(p, signal, j)}}

(* `advance`: an out-of-order signal is only logged. *)
Advance(p, signal, j) ==
  IF Targets(p, signal, j) = {} THEN p ELSE CHOOSE q \in Targets(p, signal, j) : TRUE

(* `settle`: an out-of-order end rebuilds the workflow. *)
Settled(p, end, j) ==
  IF Targets(p, end, j) # {} THEN Advance(p, end, j)
  ELSE IF end = "interrupted" THEN Advance(Advance(Ready, "start", j), end, j)
  ELSE Ready

--------------------------------------------------------------------------------
(* Announcements *)

Idle == [kind |-> "idle", job |-> NoJob, by |-> "none"]
Recording(j) == [kind |-> "recording", job |-> j, by |-> "none"]
Processing(j, by) == [kind |-> "processing", job |-> j, by |-> by]

Requesters == {"dictation", "window", "notification"}

Activities == {Idle} \cup {Recording(j) : j \in Jobs}
  \cup {Processing(j, by) : j \in Jobs, by \in Requesters}

(* A failure is told apart by what can be done about it: transcribe again,
   paste again, or first something else (a key, a microphone). *)
Failed == [try |-> "failed_try_again", paste |-> "failed_paste", fix |-> "failed_fix"]

Notices == {"none", "copied", "nothing_heard", "unavailable",
            Failed.try, Failed.paste, Failed.fix}

Untold == [notice |-> "none", job |-> NoJob]

(* The buttons of a notification about a dictation; "Open AgentDictate" changes
   nothing here. *)
Actions(notice, j) ==
  CASE notice \in {"copied", Failed.paste} -> {<<"paste_again", j>>}
    [] notice = Failed.try -> {<<"try_again", j>>}
    [] OTHER -> {}

(* Only a dictation shows its progress. *)
OverlayUpdate(act, p) ==
  IF act.kind = "processing" /\ act.by # "dictation" THEN "ready" ELSE p.at

(* `publish`: the overlay, the status mirror, the announcement *)
Publish(act, p, notice, j) ==
  /\ recording' = (p.at \in {"starting", "recording"})
  /\ overlay' = OverlayUpdate(act, p)
  /\ unshown' = FALSE
  /\ told' = IF notice = "none" THEN Untold ELSE [notice |-> notice, job |-> j]
  /\ offers' = offers \cup Actions(notice, j)

PublishNothing == Publish(activity', phase', "none", NoJob)

(* Nothing is published. *)
Unpublished ==
  /\ told' = Untold
  /\ UNCHANGED <<recording, overlay, unshown, offers>>

(* Nothing is published, although the phase may have changed. *)
Unshown ==
  /\ unshown' = (unshown \/ phase' # phase)
  /\ told' = Untold
  /\ UNCHANGED <<recording, overlay, offers>>

(* Mutant of Announced: no retry is announced, whoever asked for it. *)
AnnouncedToDictations(notice) ==
  IF quiet \/ activity.by \in {"window", "notification"} THEN "none" ELSE notice

(* The window reports its own retries, and a shutdown announces nothing. *)
Announced(notice) == IF quiet \/ activity.by = "window" THEN "none" ELSE notice

(* `settle_with_notice`, from the workflow's phase p *)
Settle(p, j, end, notice) ==
  /\ activity' = Idle
  /\ phase' = Settled(p, end, j)
  /\ Publish(Idle, phase', Announced(notice), j)

Interrupt(p, j, notice) == Settle(p, j, "interrupted", notice)

(* So many things fail, and so many reads of a row in the middle of its step. *)
Failing(n, unread) ==
  /\ failures + n <= MaxFailures
  /\ failures' = failures + n
  /\ misreads' = misreads + unread

Fail(n) == Failing(n, 0)

Misread == Failing(1, 1)

Put(j, row) == jobs' = [jobs EXCEPT ![j] = row]

(* A step that pastes nothing *)
NoPaste == pasted' = NoJob /\ landed' = FALSE /\ UNCHANGED latest

--------------------------------------------------------------------------------
(* Starting and ending a recording *)

(* `start_recording`: a failed start leaves no row when the insert failed; when
   the recorder did not start, or its checkpoint failed, an interrupted one, or,
   when that write fails as well, the row as it was inserted; and when the row
   cannot be read after its insert, or once its recorder runs, the row as it is. *)
FailedStarts ==
  LET Of(row, faults, notice) ==
        [row |-> row, faults |-> faults, unread |-> 0, notice |-> notice, runs |-> stray]
      Unread(row, runs) ==
        [row |-> row, faults |-> 1, unread |-> 1, notice |-> Failed.try, runs |-> runs]
      interrupted == UpdateStage(InsertStarting, "interrupted")
      refused == IF stray THEN 0 ELSE 1   \* no second recorder is started
  IN  {Of(NoRow, 1, "none"), Unread(InsertStarting, stray),
       Of(interrupted, refused, Failed.fix), Of(InsertStarting, refused + 1, Failed.try)}
      \cup (IF stray THEN {}
            ELSE {Of(interrupted, 1, Failed.try), Of(InsertStarting, 2, Failed.try),
                  Unread(UpdateStage(InsertStarting, "recording"), TRUE)})

(* `abandon_start`, which looks for the row in the table *)
AbandonStart(p, j, found, notice) ==
  IF IsRow(found) THEN Interrupt(p, j, notice)
  ELSE /\ phase' = Ready
       /\ UNCHANGED activity
       /\ Publish(Idle, Ready, "none", j)

StartRecording(j) ==
  /\ activity = Idle
  /\ j \notin born
  /\ born' = born \cup {j}
  /\ LET starting == Advance(phase, "start", j) IN
     \/ /\ ~stray
        /\ Fail(0)
        /\ Put(j, UpdateStage(InsertStarting, "recording"))
        /\ activity' = Recording(j)
        /\ phase' = Advance(starting, "first_frame", j)
        /\ PublishNothing
        /\ UNCHANGED stray
     \/ \E start \in FailedStarts : \E lost \in 0..1 :
          /\ Failing(start.faults + lost, start.unread)
          /\ Put(j, start.row)
          /\ AbandonStart(starting, j, IF lost = 1 THEN NoRow ELSE start.row, start.notice)
          /\ stray' = start.runs
  /\ NoPaste
  /\ UNCHANGED <<history, last, quiet, tickets, due, forgotten, restarts>>

(* A recording ends by `finish`, then `capture_recording`.  When either fails the
   row is interrupted, unless that fails as well. *)
Unfinished(row) ==
  {[row |-> UpdateStage(row, "interrupted"), faults |-> 1], [row |-> row, faults |-> 2]}

StopRecording(j) ==
  /\ activity = Recording(j)
  /\ LET stopping == Advance(phase, "stop", j) IN
     \E long \in BOOLEAN :
       LET captured == Captured(jobs[j], long)
           transcribing == UpdateStage(captured, "transcribing")
       IN
       \/ /\ Fail(0)
          /\ Put(j, transcribing)
          /\ tickets' = tickets \cup {j}
          /\ activity' = Processing(j, "dictation")
          /\ phase' = Advance(stopping, "captured", j)
          /\ PublishNothing
       \/ /\ \/ Misread /\ Put(j, transcribing)
             \/ \E end \in Unfinished(jobs[j]) \cup {[row |-> captured, faults |-> 1]} :
                  Fail(end.faults) /\ Put(j, end.row)
          /\ Interrupt(stopping, j, Failed.try)
          /\ UNCHANGED tickets
  /\ NoPaste
  /\ UNCHANGED <<history, born, last, quiet, stray, due, forgotten, restarts>>

(* Escape: a long recording is kept as cancelled, a short one deleted. *)
DiscardRecording(j) ==
  /\ activity = Recording(j)
  /\ \E long \in BOOLEAN :
       LET captured == Captured(jobs[j], long)
           cancelled == UpdateStage(captured, "cancelled")
       IN
       \/ /\ Fail(0)
          /\ Put(j, IF long THEN cancelled ELSE NoRow)
          /\ Settle(phase, j, "discard", "none")
       \/ /\ \/ long /\ Fail(1) /\ Put(j, cancelled)
             \/ \E end \in Unfinished(jobs[j]) \cup {[row |-> captured, faults |-> 1]} :
                  Fail(end.faults) /\ Put(j, end.row)
          /\ Interrupt(phase, j, Failed.try)
  /\ NoPaste
  /\ UNCHANGED <<history, born, last, quiet, stray, tickets, due, forgotten, restarts>>

(* `preserve_active_recording`: the audio waits in Recovery, not transcribed, and
   is `kept` when the method says so. *)
Preserved(row) ==
  LET Of(new, faults, kept) == [row |-> new, faults |-> faults, kept |-> kept]
      captures == {Captured(row, long) : long \in BOOLEAN}
  IN  {Of(UpdateStage(new, "interrupted"), 0, TRUE) : new \in captures}
      \cup {Of(UpdateStage(new, "interrupted"), 1, FALSE) : new \in captures}
      \cup {Of(new, 1, FALSE) : new \in captures}
      \cup {Of(UpdateStage(row, "interrupted"), 1, kept) : kept \in BOOLEAN}
      \cup {Of(row, 2, FALSE)}

(* The recorder exited or stalled.  A report about another recording, and one
   that the maximum length was reached, which stops it, add nothing here. *)
RecorderFailed(j) ==
  /\ activity = Recording(j)
  /\ \E end \in Preserved(jobs[j]) :
       /\ Fail(end.faults)
       /\ Put(j, end.row)
  /\ Interrupt(phase, j, Failed.try)
  /\ NoPaste
  /\ UNCHANGED <<history, born, last, quiet, stray, tickets, due, forgotten, restarts>>

(* `shutdown`: after a recording that could not be preserved, or not even read,
   the daemon goes on. *)
Shutdown ==
  /\ \/ /\ activity.kind = "recording"
        /\ \E end \in Preserved(jobs[activity.job]) :
             /\ Fail(end.faults)
             /\ Put(activity.job, end.row)
             /\ quiet' = end.kept
        /\ Interrupt(phase, activity.job, "none")
     \/ /\ \/ activity.kind = "recording" /\ quiet' = FALSE /\ Fail(1)
           \/ activity.kind # "recording" /\ quiet' = TRUE /\ Fail(0)
        /\ Unpublished
        /\ UNCHANGED <<jobs, activity, phase>>
  /\ NoPaste
  /\ UNCHANGED <<history, born, last, stray, tickets, due, forgotten, restarts>>

--------------------------------------------------------------------------------
(* A transcription's result *)

(* `apply_retention` of a completed delivery: expired items and old text go. *)
Retained(table, hist, goneRows, goneText) ==
  /\ goneRows \subseteq {k \in Jobs : Expirable(table[k]) /\ table[k].expired}
  /\ goneText \subseteq {k \in Jobs : hist[k] = "old"}
  /\ jobs' = [k \in Jobs |-> IF k \in goneRows THEN NoRow ELSE table[k]]
  /\ history' = [k \in Jobs |-> IF k \in goneText THEN "none" ELSE hist[k]]
  /\ forgotten' = forgotten \cup goneRows \cup goneText

(* `complete_delivered`, whose failure is only logged *)
CompleteDelivered(j, row) ==
  \/ /\ Fail(0)
     /\ \E kept \in {"none", "kept"} : \E goneRows, goneText \in SUBSET Jobs :
          Retained([jobs EXCEPT ![j] = NoRow], [history EXCEPT ![j] = kept],
                   goneRows, goneText)
  \/ /\ Fail(1)
     /\ Put(j, row)
     /\ UNCHANGED <<history, forgotten>>

(* How `deliver_ready` can end for the row of a ready text: what it returns, an
   error or the row, and whether the chord was sent and taken. *)
DeliveryOutcomes(row, pastes) ==
  LET Of(new, faults, result, sent, taken) ==
        [row |-> new, faults |-> faults, result |-> result, sent |-> sent,
         taken |-> taken]
      attempting == Attempting(row)
  IN  {Of(row, 1, "error", FALSE, FALSE)}
      \cup {Of(NotSent(attempting), 0, "not_sent", FALSE, FALSE)}
      \cup {Of(NotSent(attempting), 1, "error", FALSE, FALSE)}
      \cup {Of(Submitted(attempting), 0, "delivered", pastes, taken) : taken \in {FALSE, pastes}}
      \cup {Of(Submitted(attempting), 1, "error", pastes, taken) : taken \in {FALSE, pastes}}
      \cup {Of(FailJob(attempting), 1, "error", sent, FALSE) : sent \in {FALSE, pastes}}
      \cup {Of(attempting, 2, "error", sent, FALSE) : sent \in {FALSE, pastes}}
      \cup (IF pastes THEN {Of(GateBlocked(row), 0, "error", FALSE, FALSE),
                            Of(Ambiguous(attempting), 0, "ambiguous", TRUE, FALSE)}
            ELSE {})

Chord(j, outcome) ==
  /\ pasted' = IF outcome.sent THEN j ELSE NoJob
  /\ landed' = outcome.taken
  /\ latest' = j

(* Mutant of FailedDelivery: whatever stopped it can be transcribed again. *)
FailedDeliveryTryAgain(outcome) ==
  IF outcome.result = "error" THEN {Failed.try} ELSE {"copied", Failed.paste}

(* What a delivery that did not succeed is announced as: a text that reached the
   clipboard only needs Ctrl+V. *)
FailedDelivery(outcome) ==
  IF outcome.result = "error" THEN {Failed.paste} ELSE {"copied", Failed.paste}

(* `deliver`: the text is pasted only for a dictation, and only when it is neither
   late nor the focus moved. *)
Deliver(j, ready) ==
  LET delivering == Advance(Advance(phase, "stored", j), "delivery", j) IN
  \E pastes \in (IF activity.by = "dictation" THEN BOOLEAN ELSE {FALSE}) :
  \E outcome \in DeliveryOutcomes(ready, pastes) :
    /\ Chord(j, outcome)
    /\ \/ /\ outcome.result = "delivered"
          /\ CompleteDelivered(j, outcome.row)
          /\ last' = j
          /\ Settle(delivering, j, "submitted",
                    IF outcome.taken THEN "none" ELSE "copied")
       \/ /\ outcome.result # "delivered"
          /\ Fail(outcome.faults)
          /\ Put(j, outcome.row)
          /\ last' = IF outcome.result = "error" THEN last ELSE j
          /\ \E notice \in FailedDelivery(outcome) : Interrupt(delivering, j, notice)
          /\ UNCHANGED <<history, forgotten>>

Current(j) == activity.kind = "processing" /\ activity.job = j

(* The step ends the wait for j, if the daemon waits for j; the result of a wait
   that was cancelled is only stored. *)
EndWait(j, end, notice) ==
  IF Current(j) THEN Settle(phase, j, end, notice)
  ELSE UNCHANGED <<activity, phase>> /\ PublishNothing

(* A step for j that failed, or came too late, tells only who waits for j. *)
FailWait(j, end, notice) ==
  IF Current(j) THEN Settle(phase, j, end, notice)
  ELSE UNCHANGED <<activity, phase>> /\ Unpublished

(* `store_transcript` of a transcribing row fails: `fail_job` fails the row,
   unless that fails as well. *)
UnstoredRows(row) ==
  {[row |-> FailJob(new), faults |-> 1] : new \in {row, StoreRaw(row)}}
  \cup {[row |-> new, faults |-> 2] : new \in {row, StoreRaw(row), StoreReady(StoreRaw(row))}}

(* `complete_transcription`: a row that has left transcription keeps its stage.
   One that cannot be read keeps it too, before or behind the stored text. *)
CompleteTranscription(j) ==
  /\ j \in tickets
  /\ tickets' = tickets \ {j}
  /\ LET row == jobs[j]
         ready == StoreReady(StoreRaw(row))
         Stored(new) == Put(j, new) /\ UNCHANGED <<last, history, forgotten>> /\ NoPaste
     IN  IF row.stage # "transcribing"
         THEN /\ \/ Fail(0) /\ FailWait(j, "cancelled", "none")
                 \/ Misread /\ FailWait(j, "interrupted", Failed.try)
              /\ Stored(row)
         ELSE \/ Fail(0) /\ Stored(NoRow) /\ EndWait(j, "no_speech", "nothing_heard")
              \/ \E notice \in {Failed.try, Failed.fix} :
                   /\ Fail(0)
                   /\ Stored(UpdateStage(row, "failed"))
                   /\ EndWait(j, "interrupted", notice)
              \/ /\ Fail(1)
                 /\ Stored(UpdateStage(row, "failed"))
                 /\ EndWait(j, "interrupted", Failed.try)
              \/ /\ \/ Misread /\ \E new \in {row, ready} : Stored(new)
                    \/ \E end \in UnstoredRows(row) : Fail(end.faults) /\ Stored(end.row)
                 /\ FailWait(j, "interrupted", Failed.try)
              \/ ~Current(j) /\ Fail(0) /\ Stored(ready) /\ EndWait(j, "stored", "none")
              \/ Current(j) /\ Deliver(j, ready)
  /\ UNCHANGED <<born, quiet, stray, due, restarts>>

CancelProcessing ==
  /\ activity.kind = "processing"
  /\ Settle(phase, activity.job, "cancelled", "none")
  /\ NoPaste
  /\ UNCHANGED <<jobs, history, born, last, quiet, stray, tickets, due, forgotten,
                 failures, misreads, restarts>>

--------------------------------------------------------------------------------
(* Recovery and History *)

(* Mutant of ClearAttention: whatever the workflow shows is cleared. *)
ClearAnyPhase(j) == phase' = Ready

(* `clear_attention_for` *)
ClearAttention(j) ==
  phase' = IF phase = [at |-> "attention", job |-> j] THEN Ready ELSE phase

(* Mutant of Forget: only "Clear history" forgets. *)
ForgetNothing(j) == UNCHANGED last

(* `forget_dictation` *)
Forget(j) == last' = IF last = j THEN NoJob ELSE last

(* `begin_retry`: a refusal, and a failed write, change nothing; a row that cannot
   be read after it waits for the next start. *)
BeginRetry(j, by) ==
  /\ activity = Idle
  /\ RetryAllowed(jobs[j])
  /\ Put(j, RetryTranscription(jobs[j]))
  /\ \/ /\ Fail(0)
        /\ tickets' = tickets \cup {j}
        /\ activity' = Processing(j, by)
        /\ phase' = Advance(phase, "retry", j)
        /\ PublishNothing
     \/ /\ Misread
        /\ Unpublished
        /\ UNCHANGED <<tickets, activity, phase>>
  /\ NoPaste
  /\ UNCHANGED <<history, born, last, quiet, stray, due, forgotten, restarts>>

TranscribeAgain(j) == BeginRetry(j, "window")

(* `retry_delivery`, which copies: an error leaves the prompt about the item where it is. *)
CopyAgain(j) ==
  /\ activity = Idle
  /\ PasteAgainAllowed(jobs[j])
  /\ LET ready == RetryDelivery(jobs[j]) IN
     \/ /\ Misread
        /\ Put(j, ready)
        /\ NoPaste
        /\ Unpublished
        /\ UNCHANGED <<history, last, phase, forgotten>>
     \/ \E outcome \in DeliveryOutcomes(ready, FALSE) :
       /\ Chord(j, outcome)
       /\ \/ /\ outcome.result = "error"
             /\ Fail(outcome.faults)
             /\ Put(j, outcome.row)
             /\ Unpublished
             /\ UNCHANGED <<history, last, phase, forgotten>>
          \/ /\ outcome.result # "error"
             /\ IF outcome.result = "delivered" THEN CompleteDelivered(j, outcome.row)
                ELSE /\ Fail(outcome.faults)
                     /\ Put(j, outcome.row)
                     /\ UNCHANGED <<history, forgotten>>
             /\ last' = j
             /\ ClearAttention(j)
             /\ Publish(activity, phase', "none", NoJob)
  /\ UNCHANGED <<born, activity, quiet, stray, tickets, due, restarts>>

(* A failing recount returns before the prompt that was cleared is published. *)
DeleteRecovery(j) ==
  /\ DeleteAllowed(jobs[j])
  /\ Put(j, NoRow)
  /\ forgotten' = forgotten \cup {j}
  /\ Forget(j)
  /\ ClearAttention(j)
  /\ \/ Fail(0) /\ Publish(activity, phase', "none", NoJob)
     \/ Fail(1) /\ Unshown
  /\ NoPaste
  /\ UNCHANGED <<history, born, activity, quiet, stray, tickets, due, restarts>>

DeleteHistory(j) ==
  /\ history[j] # "none"
  /\ history' = [history EXCEPT ![j] = "none"]
  /\ forgotten' = forgotten \cup {j}
  /\ Forget(j)
  /\ Unpublished
  /\ NoPaste
  /\ UNCHANGED <<jobs, born, activity, phase, quiet, stray, tickets, due, failures,
                 misreads, restarts>>

ClearHistory ==
  /\ history' = [j \in Jobs |-> "none"]
  /\ forgotten' = forgotten \cup {j \in Jobs : history[j] # "none"}
  /\ last' = NoJob
  /\ Unpublished
  /\ NoPaste
  /\ UNCHANGED <<jobs, born, activity, phase, quiet, stray, tickets, due, failures,
                 misreads, restarts>>

--------------------------------------------------------------------------------
(* Pasting again *)

(* `paste_again`: through the gate and one chord; an error announces nothing. *)
PasteAgain(j) ==
  /\ \E sent \in BOOLEAN : \E taken \in {FALSE, sent} : \E ambiguous \in {FALSE, sent /\ ~taken} :
       /\ pasted' = IF sent THEN j ELSE NoJob
       /\ landed' = taken
       /\ Publish(activity, phase,
                  IF sent /\ ~taken /\ ~ambiguous THEN "copied" ELSE "none", j)
  /\ UNCHANGED latest

PastesOnly ==
  UNCHANGED <<jobs, history, born, activity, phase, last, quiet, stray, tickets, due,
              forgotten, restarts>>

PasteLast ==
  /\ activity = Idle
  /\ last # NoJob
  /\ PasteAgain(last)
  /\ Fail(0)
  /\ PastesOnly

(* `paste_dictation`: the last dictation's text, or that of any row that has one *)
PasteDictation(j) ==
  /\ activity = Idle
  /\ \/ Fail(0) /\ IF last = j \/ jobs[j].text THEN PasteAgain(j)
                    ELSE Publish(activity, phase, "unavailable", j) /\ NoPaste
     \/ last # j /\ Fail(1) /\ Unpublished /\ NoPaste
  /\ PastesOnly

(* A button of a notification, clicked however late *)
FollowPasteAgain(j) == <<"paste_again", j>> \in offers /\ PasteDictation(j)
FollowTryAgain(j) == <<"try_again", j>> \in offers /\ BeginRetry(j, "notification")

--------------------------------------------------------------------------------
(* Time and restarts *)

(* Items and texts grow old.  Retention's lifetimes are days, so nothing does
   between a start and its maintenance. *)
GrowOld(j) ==
  /\ ~due
  /\ \/ /\ InRecovery(jobs[j]) /\ ~jobs[j].expired
        /\ jobs' = [jobs EXCEPT ![j].expired = TRUE]
        /\ UNCHANGED history
     \/ /\ history[j] = "kept"
        /\ history' = [history EXCEPT ![j] = "old"]
        /\ UNCHANGED jobs
  /\ Unpublished
  /\ NoPaste
  /\ UNCHANGED <<born, activity, phase, last, quiet, stray, tickets, due, forgotten,
                 failures, misreads, restarts>>

(* The process ends and starts again: `Daemon::new` over the reconciled table.
   Notifications stay on screen. *)
Restart ==
  /\ restarts < MaxRestarts
  /\ restarts' = restarts + 1
  /\ jobs' = [j \in Jobs |-> ReconcileInterrupted(ReconcileAmbiguous(jobs[j]))]
  /\ activity' = Idle
  /\ phase' = Ready
  /\ last' = NoJob
  /\ quiet' = FALSE
  /\ stray' = FALSE
  /\ tickets' = {}
  /\ due' = TRUE
  /\ PublishNothing
  /\ pasted' = NoJob /\ landed' = FALSE /\ latest' = NoJob
  /\ UNCHANGED <<history, born, forgotten, failures, misreads>>

(* The maintenance thread completes what the last process delivered, and applies
   retention. *)
Maintenance ==
  /\ due
  /\ due' = FALSE
  /\ LET delivered == {j \in Jobs : jobs[j].stage = "delivered"} IN
     \E goneRows, goneText \in SUBSET Jobs :
       Retained([j \in Jobs |-> IF j \in delivered THEN NoRow ELSE jobs[j]],
                [j \in Jobs |-> IF j \in delivered THEN "kept" ELSE history[j]],
                goneRows, goneText)
  /\ Unpublished
  /\ NoPaste
  /\ UNCHANGED <<born, activity, phase, last, quiet, stray, tickets, failures, misreads,
                 restarts>>

--------------------------------------------------------------------------------
Init ==
  /\ jobs = [j \in Jobs |-> NoRow]
  /\ history = [j \in Jobs |-> "none"]
  /\ born = {}
  /\ activity = Idle
  /\ phase = Ready
  /\ last = NoJob
  /\ quiet = FALSE
  /\ recording = FALSE
  /\ overlay = "ready"
  /\ unshown = FALSE
  /\ stray = FALSE
  /\ tickets = {}
  /\ due = FALSE
  /\ offers = {}
  /\ told = Untold
  /\ pasted = NoJob
  /\ landed = FALSE
  /\ latest = NoJob
  /\ forgotten = {}
  /\ failures = 0
  /\ misreads = 0
  /\ restarts = 0

Next ==
  \/ \E j \in Jobs :
       \/ StartRecording(j) \/ StopRecording(j) \/ DiscardRecording(j)
       \/ RecorderFailed(j) \/ CompleteTranscription(j)
       \/ TranscribeAgain(j) \/ CopyAgain(j)
       \/ DeleteRecovery(j) \/ DeleteHistory(j)
       \/ FollowPasteAgain(j) \/ FollowTryAgain(j) \/ GrowOld(j)
  \/ CancelProcessing \/ ClearHistory \/ PasteLast \/ Shutdown
  \/ Restart \/ Maintenance

Spec == Init /\ [][Next]_vars

--------------------------------------------------------------------------------
(* Properties *)

TypeOK ==
  /\ jobs \in [Jobs -> Rows]
  /\ history \in [Jobs -> {"none", "kept", "old"}]
  /\ activity \in Activities
  /\ phase \in [at : Busy \cup {"ready", "attention"}, job : Jobs \cup {NoJob}]
  /\ {last, pasted, latest} \subseteq Jobs \cup {NoJob}
  /\ {quiet, recording, unshown, stray, due, landed} \subseteq BOOLEAN
  /\ {born, tickets, forgotten} \subseteq SUBSET Jobs
  /\ overlay \in Busy \cup {"ready", "attention"}
  /\ offers \subseteq {"paste_again", "try_again"} \X Jobs
  /\ told \in [notice : Notices, job : Jobs \cup {NoJob}]
  /\ failures \in 0..MaxFailures
  /\ misreads \in 0..failures
  /\ restarts \in 0..MaxRestarts

(* Between two commands the workflow tells what the daemon is at, whatever failed
   in the last one: a recording can be stopped, a transcription cancelled, and an
   idle daemon shows nothing under way, so no key press is ignored for good.
   The mirror that Escape reads and the overlay follow it; the overlay only goes on
   showing a prompt that a deletion cleared while the recount after it failed. *)
WorkflowFollowsActivity ==
  /\ TypeOK
  /\ CASE activity.kind = "recording" ->
            phase = [at |-> "recording", job |-> activity.job]
       [] activity.kind = "processing" ->
            phase = [at |-> "transcribing", job |-> activity.job]
       [] OTHER -> phase.at \in {"ready", "attention"}
  /\ recording = (activity.kind = "recording")
  /\ IF unshown THEN phase = Ready /\ overlay = "attention"
     ELSE overlay = OverlayUpdate(activity, phase)

(* "Every workflow change ends with this call", which publishes it: the overlay
   always shows the workflow.  It does not, as just said. *)
OverlayShowsWorkflow == overlay = OverlayUpdate(activity, phase)

(* A text the user deleted, or retention did, is never pasted again: not by "Paste
   last dictation", and not by the button of a notification shown before. *)
DeletedIsNotPasted == [][pasted' # NoJob => pasted' \notin forgotten']_vars

(* A dictation never just ends.  It was taken by the application it was pasted
   into, or the user cancelled or discarded it, or was told: by a notification, by
   the window that asked, or by the shutdown they asked for. *)
EndsAreTold ==
  [][LET j == activity.job IN
     activity # Idle /\ activity' = Idle =>
       \/ told'.job = j
       \/ pasted' = j /\ landed'
       \/ CancelProcessing \/ DiscardRecording(j) \/ Shutdown \/ Restart
       \/ quiet \/ activity.by = "window"]_vars

(* A button is offered only when it helps: at that moment the dictation could be
   transcribed again, or its text pasted again.  Two cases are left out.  When two
   things fail in a life of the program, the second may be the write that records the
   first, and the row says nothing of it.  When the step could not read the row, it
   stays in the stage that was just written, and "Try again" is refused until the
   next start. *)
OfferedHelpWorks ==
  [][LET j == told'.job IN
     failures' <= 1 /\ misreads' = misreads =>
       /\ <<"try_again", j>> \in Actions(told'.notice, j) => RetryAllowed(jobs'[j])
       /\ <<"paste_again", j>> \in Actions(told'.notice, j) =>
            last' = j \/ jobs'[j].text]_vars

(* "The last dictation delivered, or whose delivery failed": what "Paste last
   dictation" pastes is never an older one. *)
LastIsTheLatest == last \in {NoJob, latest}

================================================================================
