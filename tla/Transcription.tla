------------------------------ MODULE Transcription ------------------------------
(* From a captured recording to its text: ProcessingTicket of
   crates/agentdictate-app/src/processing.rs, TranscriptionPipeline and
   ReqwestOpenAiTransport of openai.rs, and near-silence of captured_audio.rs, on
   top of the recorder that captured it.

   Tickets run without the daemon's lock, several at a time when a wait was
   cancelled.  OpenAI answers, refuses, or fails in any way; a request that was
   broken off may have been carried out.                                          *)
EXTENDS Recorder, Sequences

CONSTANT MaxRetries  \* bound: retries from Recovery
ASSUME RetriesAssumption == MaxRetries \in Nat

VARIABLES
  tickets,  \* the ticket of each recording
  retries
vars == <<recorderVars, tickets, retries>>

NoTicket == [at |-> "none", text |-> FALSE, format |-> "none", holds |-> 0,
             again |-> FALSE, sent |-> <<>>, outcome |-> "none"]
Stages == {"none", "encoding", "file", "read", "send", "answered", "ended"}

(* What a request comes to.  A connection may break before any status comes. *)
Broken == {"broken"}
Status == {"text", "empty", "undecodable", "refused"}
Answers == Broken \cup {"timeout"} \cup Status

TypeOK ==
  /\ RecorderTypeOK
  /\ \A j \in Recordings :
       /\ tickets[j].at \in Stages
       /\ tickets[j].format \in {"none", "webm", "wav"}
       /\ tickets[j].holds \in 0..MaxSamples + 1
       /\ tickets[j].sent \in Seq([format : {"webm", "wav"}, holds : Nat, answer : Answers])
       /\ tickets[j].outcome \in {"none", "Text", "NoSpeech", "Failed"}

Init ==
  RecorderInit /\ tickets = [j \in Recordings |-> NoTicket] /\ retries = 0

--------------------------------------------------------------------------------
At(j, stage) == tickets[j].at = stage
Goes(j, ticket) == tickets' = [tickets EXCEPT ![j] = ticket]
Ends(j, outcome) ==
  Goes(j, [NoTicket EXCEPT !.at = "ended", !.outcome = outcome,
                           !.text = tickets[j].text \/ outcome = "Text"])
Kills(j) == encoders' = [encoders EXCEPT ![j] = NoEncoder]
KeepsRecorder == UNCHANGED <<call, owner, active, pwRecord, files, started, retries>>

(* The daemon takes a finished capture to transcribe it, or drops its encoding. *)
NewTicket ==
  /\ ~Waits /\ call.result = "captured"
  /\ LET j == call.job IN
     IF call.tail
     THEN /\ Goes(j, [NoTicket EXCEPT !.at = IF encoders[j].at = "none" THEN "file"
                                             ELSE "encoding"])
          /\ UNCHANGED encoders
     ELSE Kills(j) /\ UNCHANGED tickets
  /\ call' = NoCall
  /\ UNCHANGED <<owner, active, pwRecord, files, started, failures, retries>>

(* From Recovery: a ticket without an encoding.  A stored text is reused. *)
Retry(j) ==
  /\ retries < MaxRetries /\ retries' = retries + 1
  /\ \/ At(j, "ended") /\ (tickets[j].outcome = "Failed" \/ tickets[j].text)
     \/ /\ At(j, "none") /\ files[j].samples > 0 /\ active.job # j /\ pwRecord.job # j
        /\ call.job # j \/ call.result = "failed"
  /\ IF tickets[j].text THEN Ends(j, "Text")
     ELSE Goes(j, [NoTicket EXCEPT !.at = "file"])
  /\ UNCHANGED recorderVars

Uploads(j, format, holds) ==
  Goes(j, [tickets[j] EXCEPT !.at = "send", !.format = format, !.holds = holds])

(* Mutant of WaitForEncoding: ffmpeg's exit is enough. *)
WaitForFfmpeg(j) ==
  /\ At(j, "encoding")
  /\ \/ encoders[j].ffmpeg = "done" /\ Uploads(j, "webm", encoders[j].fed)
     \/ encoders[j].ffmpeg # "done" /\ Goes(j, [tickets[j] EXCEPT !.at = "file"])
  /\ Kills(j) /\ KeepsRecorder /\ Fine

(* FinishingEncode::wait: ffmpeg ended well and was fed everything, before the
   deadline.  Otherwise the saved file is encoded. *)
WaitForEncoding(j) ==
  /\ At(j, "encoding")
  /\ \/ /\ encoders[j].ffmpeg = "done" /\ encoders[j].at = "fed"
        /\ Uploads(j, "webm", encoders[j].fed)
     \/ Goes(j, [tickets[j] EXCEPT !.at = "file"])
  /\ Kills(j) /\ KeepsRecorder /\ Fine

(* encode_file, and without it the recording itself. *)
EncodeFile(j) ==
  /\ At(j, "file")
  /\ \/ Uploads(j, "webm", DataEnd(files[j])) /\ Fine
     \/ May("encode") /\ Goes(j, [tickets[j] EXCEPT !.at = "read"])
  /\ KeepsRecorder /\ UNCHANGED encoders

WavUpload(j) ==
  /\ At(j, "read")
  /\ \/ Uploads(j, "wav", DataEnd(files[j])) /\ Fine
     \/ May("read") /\ Ends(j, "Failed")
  /\ KeepsRecorder /\ UNCHANGED encoders

(* Mutant of FailedBeforeStatus: so is one that timed out. *)
FailedBeforeStatusOrLate(answer) == answer \in Broken \cup {"timeout"}

(* A request that failed before a status is sent once more, but no timeout. *)
FailedBeforeStatus(answer) == answer \in Broken

(* send_transcription: nothing is sent without a key.  A response whose body cannot be
   read ends as one that timed out. *)
Send(j) ==
  /\ At(j, "send")
  /\ \/ May("key") /\ Ends(j, "Failed")
     \/ \E answer \in Answers :
          LET request == [format |-> tickets[j].format, holds |-> tickets[j].holds,
                          answer |-> answer]
              ticket == [tickets[j] EXCEPT !.sent = Append(@, request)] IN
          /\ IF answer \in Status THEN Fine ELSE May("network")
          /\ CASE answer \in Status -> Goes(j, [ticket EXCEPT !.at = "answered"])
               [] FailedBeforeStatus(answer) /\ ~ticket.again ->
                    Goes(j, [ticket EXCEPT !.again = TRUE])
               [] OTHER -> Ends(j, "Failed")
  /\ KeepsRecorder /\ UNCHANGED encoders

(* rejects_upload_format: only of a compressed upload. *)
RejectsUploadFormat(request) == request.answer = "undecodable" /\ request.format = "webm"

(* Only a finalized recording can be near-silent. *)
IsNearSilent(j) == j \in Silent /\ files[j].sized

(* Mutant of Answered: an empty text is no speech. *)
AnsweredQuietly(j) ==
  /\ At(j, "answered")
  /\ LET request == tickets[j].sent[Len(tickets[j].sent)] IN
     CASE RejectsUploadFormat(request) ->
            Goes(j, [tickets[j] EXCEPT !.at = "read", !.again = FALSE])
       [] request.answer = "text" -> Ends(j, "Text")
       [] request.answer = "empty" -> Ends(j, "NoSpeech")
       [] OTHER -> Ends(j, "Failed")
  /\ UNCHANGED <<recorderVars, retries>>

(* An empty text is no speech only when the recording is near-silent. *)
Answered(j) ==
  /\ At(j, "answered")
  /\ LET request == tickets[j].sent[Len(tickets[j].sent)] IN
     CASE RejectsUploadFormat(request) ->
            Goes(j, [tickets[j] EXCEPT !.at = "read", !.again = FALSE])
       [] request.answer = "text" -> Ends(j, "Text")
       [] request.answer = "empty" /\ IsNearSilent(j) -> Ends(j, "NoSpeech")
       [] OTHER -> Ends(j, "Failed")
  /\ UNCHANGED <<recorderVars, retries>>

TicketSteps ==
  \E j \in Recordings :
    \/ WaitForEncoding(j) \/ EncodeFile(j) \/ WavUpload(j) \/ Send(j) \/ Answered(j)

--------------------------------------------------------------------------------
Next ==
  \/ RecorderNext /\ UNCHANGED <<tickets, retries>>
  \/ NewTicket \/ TicketSteps
  \/ \E j \in Recordings : Retry(j)

(* The threads go on, pw-record captures and heeds an interrupt, ffmpeg ends. *)
Spec ==
  /\ Init /\ [][Next]_vars
  /\ WF_vars(OwnerSteps /\ UNCHANGED <<tickets, retries>>)
  /\ WF_vars(Supervise /\ UNCHANGED <<tickets, retries>>)
  /\ WF_vars(PwRecordSteps /\ UNCHANGED <<tickets, retries>>)
  /\ WF_vars(NewTicket) /\ WF_vars(TicketSteps)

--------------------------------------------------------------------------------
(* Properties *)

(* What is uploaded is the whole recording and nothing else, though the encoder read
   the file while it was written, and ffmpeg or pw-record may have died. *)
UploadIsWhole ==
  \A j \in Recordings : At(j, "send") => tickets[j].holds = files[j].samples

(* No process is left behind: pw-record belongs to a start, a finish or the active
   recording, ffmpeg to the recording or to the ticket that waits for it. *)
NothingRunsUnowned ==
  /\ pwRecord.at # "gone" =>
       owner \in {"spawned", "tail", "interrupt", "exit"} \/ active.job = pwRecord.job
  /\ \A j \in Recordings :
       encoders[j].ffmpeg # "gone" =>
         \/ active.job = j
         \/ call.job = j /\ call.result # "failed"
         \/ At(j, "encoding")

(* A dictation is dropped as silent only when its finalized audio is near-silent,
   "so a misheard dictation is never silently dropped". *)
OnlySilenceIsDropped ==
  \A j \in Recordings : tickets[j].outcome = "NoSpeech" => j \in Silent /\ files[j].sized

(* A ticket sends again only what failed before any status, once for each format, or
   what OpenAI could not decode: nothing is sent after a timeout or any other
   answer, and the original at last. *)
SentAgainOnlyUnanswered ==
  \A j \in Recordings :
    LET sent == tickets[j].sent IN
    /\ \A i \in 1..Len(sent) - 1 :
         \/ sent[i].answer \in Broken /\ sent[i + 1].format = sent[i].format
         \/ sent[i].answer = "undecodable" /\ sent[i + 1].format = "wav"
    /\ \A f \in {"webm", "wav"} :
         Cardinality({i \in 1..Len(sent) : sent[i].format = f}) <= 2

(* A recorder that exits or stops delivering audio is reported, or the recording is
   finished, and of each recording one event at most is. *)
DeadRecordingIsReported ==
  \A j \in Recordings :
    [](active.job = j /\ pwRecord.at = "exited" /\ owner = "free"
         => <>(active.job # j \/ active.reported))

(* The daemon, which holds its lock meanwhile, gets every call back, and every ticket
   comes to an end. *)
CallsReturn == []<>~Waits /\ \A j \in Recordings : []<>(At(j, "none") \/ At(j, "ended"))

================================================================================
