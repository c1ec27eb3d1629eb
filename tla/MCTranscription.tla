----------------------------- MODULE MCTranscription -----------------------------
(* Transcription on small instances: two recordings of up to two samples. *)
EXTENDS Transcription

(* What OpenAI is given is the recording, and no process is left behind: UploadIsWhole and
   NothingRunsUnowned. *)
RecordingIsWhole == UploadIsWhole /\ NothingRunsUnowned

(* Nothing is paid for twice, and no speech is taken for silence: SentAgainOnlyUnanswered
   and OnlySilenceIsDropped. *)
AnswersAreKept == TypeOK /\ SentAgainOnlyUnanswered /\ OnlySilenceIsDropped

(* The recorder's end is heard of and every call returns: DeadRecordingIsReported and
   CallsReturn. *)
RecordingsEnd == DeadRecordingIsReported /\ CallsReturn

==================================================================================
