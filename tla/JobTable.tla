------------------------------- MODULE JobTable -------------------------------
(* The rows of `dictation_jobs`, the table that holds every dictation that is
   in flight or waits in Recovery, and the statements that change them
   (crates/agentdictate-runtime/src/runtime.rs).  Each operator is one SQL
   statement applied to one row, or the refusal a method makes before it.

   A row keeps what the rest of the system branches on:
     stage, delivery   the columns `stage` and `delivery_status`;
     raw, text         whether `raw_transcript` and `final_text` hold text;
     long              whether `duration_seconds` exceeds KEPT_CANCEL_SECONDS;
     expired           whether `updated_at` is older than recovery_lifetime.
   Every UPDATE writes `updated_at`, so every UPDATE clears `expired`.  The
   column `state` is a function of `stage`; `error_message`, `failure_kind`
   and the texts themselves decide nothing here and are left out.            *)

Stages == {"starting", "recording", "captured", "transcribing",
           "ready_to_deliver", "delivered", "no_speech", "interrupted",
           "failed", "cancelled", "deleted"}

Deliveries == {"not_attempted", "attempting", "submitted", "ambiguous"}

(* "none" is the stage of a job the table has no row for. *)
Rows == [stage    : Stages \cup {"none"},
         delivery : Deliveries,
         raw      : BOOLEAN,
         text     : BOOLEAN,
         long     : BOOLEAN,
         expired  : BOOLEAN]

NoRow == [stage |-> "none", delivery |-> "not_attempted", raw |-> FALSE,
          text |-> FALSE, long |-> FALSE, expired |-> FALSE]

IsRow(row) == row.stage # "none"

(* An UPDATE ... WHERE runtime_id = ? of a row that is gone changes nothing. *)
Updated(row, new) == IF IsRow(row) THEN [new EXCEPT !.expired = FALSE] ELSE row

--------------------------------------------------------------------------------
(* Statements *)

InsertStarting == [NoRow EXCEPT !.stage = "starting"]

UpdateStage(row, stage) == Updated(row, [row EXCEPT !.stage = stage])

Captured(row, long) ==
  Updated(row, [row EXCEPT !.stage = "captured", !.long = long])

(* Mutant of RetryTranscription: the stored text goes too. *)
RetryFromScratch(row) ==
  Updated(row, [row EXCEPT !.stage = "transcribing", !.raw = FALSE,
                           !.delivery = "not_attempted"])

(* "Transcribe again" resets the delivery and keeps the paid-for raw text. *)
RetryTranscription(row) ==
  Updated(row, [row EXCEPT !.stage = "transcribing",
                           !.delivery = "not_attempted"])

StoreRaw(row) == Updated(row, [row EXCEPT !.raw = TRUE])

StoreReady(row) ==
  Updated(row, [row EXCEPT !.stage = "ready_to_deliver", !.text = TRUE,
                           !.delivery = "not_attempted"])

RetryDelivery(row) ==
  Updated(row, [row EXCEPT !.stage = "ready_to_deliver",
                           !.delivery = "not_attempted"])

(* A refused gate only rewrites the message and the failure. *)
GateBlocked(row) == Updated(row, row)

Attempting(row) == Updated(row, [row EXCEPT !.delivery = "attempting"])

Submitted(row) ==
  Updated(row, [row EXCEPT !.stage = "delivered", !.delivery = "submitted"])

Ambiguous(row) ==
  Updated(row, [row EXCEPT !.stage = "failed", !.delivery = "ambiguous"])

(* Mutant of NotSent: the disposition's own name, which no status has. *)
NotSentByName(row) == Updated(row, [row EXCEPT !.delivery = "not_sent"])

(* A delivery that never started leaves the row as it was before the attempt. *)
NotSent(row) == Updated(row, [row EXCEPT !.delivery = "not_attempted"])

(* Mutant of FailJob: a started attempt counts as never made. *)
FailJobForgetting(row) ==
  IF row.stage = "transcribing" \/ row.delivery = "attempting"
  THEN Updated(row, [row EXCEPT !.stage = "failed", !.delivery = "not_attempted"])
  ELSE row

(* `fail_job` touches a row only while the failed step left it in flight. *)
FailJob(row) ==
  IF row.stage = "transcribing" \/ row.delivery = "attempting"
  THEN Updated(row, [row EXCEPT
         !.stage = "failed",
         !.delivery = IF @ = "attempting" THEN "ambiguous" ELSE @])
  ELSE row

(* The two reconciling UPDATEs of `Runtime::open`. *)
ReconcileAmbiguous(row) ==
  IF row.delivery = "attempting" THEN Ambiguous(row) ELSE row

InFlight(row) == row.stage \in {"starting", "recording", "transcribing"}

(* Mutant of ReconcileInterrupted: only a recording is reconciled. *)
ReconcileRecordings(row) ==
  IF row.stage \in {"starting", "recording"}
  THEN UpdateStage(row, "interrupted") ELSE row

(* Whatever was under way when the process ended waits in Recovery. *)
ReconcileInterrupted(row) ==
  IF InFlight(row) THEN UpdateStage(row, "interrupted") ELSE row

--------------------------------------------------------------------------------
(* Refusals *)

(* Mutant of RetryAllowed: also for a row in flight. *)
RetryAllowedInFlight(row) ==
  /\ row.delivery # "ambiguous"
  /\ row.stage \in {"captured", "interrupted", "failed", "cancelled", "transcribing"}

(* "Transcribe again" *)
RetryAllowed(row) ==
  /\ row.delivery # "ambiguous"
  /\ row.stage \in {"captured", "interrupted", "failed", "cancelled"}

(* "Paste again" in Recovery, which copies *)
PasteAgainAllowed(row) ==
  /\ IsRow(row)
  /\ row.delivery # "attempting"
  /\ row.text
  /\ row.stage \notin {"starting", "recording", "captured", "transcribing",
                       "delivered", "deleted"}

(* "Delete", and the deletion of an expired item without its audio kept *)
DeleteAllowed(row) ==
  row.stage \notin {"none", "starting", "recording", "transcribing",
                    "delivered", "deleted"}

(* The items Recovery lists *)
InRecovery(row) ==
  row.stage \in {"captured", "ready_to_deliver", "interrupted", "failed",
                 "cancelled"}

(* The rows retention may list once they are old enough *)
Expirable(row) == InRecovery(row)

Finished(row) == row.stage \in {"delivered", "no_speech", "deleted"}

================================================================================
