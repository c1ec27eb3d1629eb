----------------------------- MODULE TranscriptionProofs -----------------------------
(* Theorems about Recorder and Transcription, for any number of recordings, samples,
   retries and failed steps: RecordingIsWhole and AnswersAreKept.

   What is uploaded is whole because a recording that has a ticket is no longer written
   (TicketsInv), because then its data chunk ends where its samples end (FilesInv), and
   because an encoder that is done has read it to that end, after it was told of it
   (EncodersInv).  All three rest on how the daemon's call, the owner thread, its recording
   and pw-record fit together (CallInv).  What a ticket has sent follows from its stage
   (SentInv).                                                                      *)
EXTENDS MCTranscription, SequenceTheorems, FiniteSetTheorems, TLAPS

--------------------------------------------------------------------------------
(* The inductive invariant *)

Call == [do : {"none", "start", "finish"}, job : 0..MaxRecordings, tail : BOOLEAN,
         result : {"none", "recording", "failed", "captured"}]
Active == [job : Recordings, seen : 0..MaxSamples, reported : BOOLEAN]
Process == [job : 0..MaxRecordings, at : {"gone", "runs", "interrupted", "exited"}]
File == [samples : 0..MaxSamples, trailer : BOOLEAN, sized : BOOLEAN]
EncoderOf == [at : {"none", "feeding", "fed", "failed"}, told : BOOLEAN,
            fed : 0..MaxSamples + 1, ffmpeg : {"gone", "runs", "done", "died"}]
Request == [format : {"webm", "wav"}, holds : Nat, answer : Answers]
Ticket == [at : Stages, text : BOOLEAN, format : {"none", "webm", "wav"},
           holds : 0..MaxSamples + 1, again : BOOLEAN, sent : Seq(Request),
           outcome : {"none", "Text", "NoSpeech", "Failed"}]

CallType ==
  /\ call \in Call
  /\ owner \in {"free", "spawned", "ready", "tail", "interrupt", "exit"}
  /\ active \in {NoRecording} \cup Active /\ pwRecord \in Process
  /\ started \in 0..MaxRecordings /\ failures \in 0..MaxFailures
DataType ==
  /\ files \in [Recordings -> File] /\ encoders \in [Recordings -> EncoderOf]
  /\ tickets \in [Recordings -> Ticket]

(* The call, the owner thread, its recording and pw-record: nothing is asked for, *)
Rests ==
  /\ call.do = "none" /\ call.result \in {"none", "failed"}
  /\ owner = "free" /\ active = NoRecording /\ pwRecord = NoProcess
  /\ call.result = "none" => call.job = 0

(* a start is, and has not begun, *)
Called ==
  /\ call.do = "start" /\ call.result = "none" /\ call.job = started /\ started > 0
  /\ owner = "free" /\ active = NoRecording /\ pwRecord = NoProcess

(* or waits for the first samples, *)
Spawned ==
  /\ call.do = "start" /\ call.result = "none" /\ call.job > 0
  /\ owner = "spawned" /\ active = NoRecording
  /\ pwRecord.job = call.job /\ pwRecord.at # "gone"

(* the owner has a recording, *)
Records ==
  /\ \/ call.do = "none" /\ call.result = "recording"
     \/ call.do = "finish" /\ call.result = "none"
  /\ owner \in {"ready", "free"} /\ active.job = call.job /\ call.job > 0
  /\ pwRecord.job = call.job /\ pwRecord.at # "gone"

(* stops it, *)
Stops ==
  /\ call.do = "finish" /\ call.result = "none" /\ call.job > 0
  /\ owner \in {"tail", "interrupt", "exit"} /\ active = NoRecording
  /\ pwRecord.job = call.job /\ pwRecord.at # "gone"

(* or has stopped it. *)
IsCaptured ==
  /\ call.do = "none" /\ call.result = "captured" /\ call.job > 0
  /\ owner = "free" /\ active = NoRecording /\ pwRecord = NoProcess

CallInv ==
  /\ CallType
  /\ Rests \/ Called \/ Spawned \/ Records \/ Stops \/ IsCaptured
  /\ call.job <= started

(* Nothing has been written of a recording that is not started, or is about to be; of one
   that has not had its first samples nothing has been encoded. *)
IsFresh(j) == j > started \/ (j = call.job /\ Called)
NothingYet ==
  /\ \A j \in Recordings : IsFresh(j) => files[j] = NoFile /\ encoders[j] = NoEncoder
  /\ Spawned => encoders[call.job] = NoEncoder

(* The data chunk of a recording ends where its samples end; a chunk behind it is only
   written at the end. *)
FilesInv ==
  /\ \A j \in Recordings : files[j].trailer => files[j].sized \/ files[j].samples = 0
  /\ Running => ~files[pwRecord.job].trailer
  /\ Records \/ Stops \/ IsCaptured => files[call.job].samples > 0

(* A recording is over: nothing will be written to its file. *)
IsOver(j) ==
  /\ j <= started /\ pwRecord.job # j
  /\ call.job = j => call.do = "none"

EncodersInv ==
  \A j \in Recordings :
    /\ encoders[j].told => IsOver(j)
    /\ encoders[j].at = "fed" =>
         encoders[j].told /\ encoders[j].fed = DataEnd(files[j])
    /\ encoders[j].at = "none" => encoders[j].ffmpeg = "gone"
    /\ encoders[j].ffmpeg # "gone" =>
         \/ active.job = j
         \/ call.job = j /\ call.result # "failed"
         \/ At(j, "encoding")

(* A recording with a ticket is over, and is not the daemon's any more. *)
TicketsInv ==
  \A j \in Recordings :
    /\ ~At(j, "none") =>
         /\ IsOver(j) /\ files[j].samples > 0
         /\ call.job = j => call.result = "failed"
    /\ At(j, "send") => tickets[j].holds = files[j].samples
    /\ tickets[j].outcome # "none" => At(j, "ended")
    /\ tickets[j].outcome = "NoSpeech" => j \in Silent /\ files[j].sized

(* What was sent before this round: nothing, or what could not be decoded. *)
Undecoded(sent, n) == n > 0 => sent[n].answer = "undecodable"

(* The first n requests were compressed, the others the original; of two of a kind the
   first broke off. *)
InRounds(sent, n) ==
  /\ n <= Len(sent) /\ Len(sent) <= n + 2
  /\ \A i \in 1..Len(sent) : sent[i].format = IF i <= n THEN "webm" ELSE "wav"
  /\ n = 2 => sent[1].answer \in Broken
  /\ Len(sent) = n + 2 => sent[n + 1].answer \in Broken
  /\ Len(sent) > n => Undecoded(sent, n)

(* A round on its way has sent as often as it says, and only what broke off. *)
OnItsWay(ticket, n) ==
  /\ Len(ticket.sent) = n + IF ticket.again THEN 1 ELSE 0
  /\ ticket.again => ticket.sent[n + 1].answer \in Broken

SentBy(ticket) ==
  CASE ticket.at = "send" ->
         \E n \in 0..2 :
           /\ InRounds(ticket.sent, n)
           /\ \/ ticket.format = "webm" /\ n = Len(ticket.sent) /\ OnItsWay(ticket, 0)
              \/ ticket.format = "wav" /\ OnItsWay(ticket, n) /\ Undecoded(ticket.sent, n)
    [] ticket.at = "answered" ->
         /\ Len(ticket.sent) > 0
         /\ \E n \in 0..2 : InRounds(ticket.sent, n)
    [] ticket.at = "read" ->
         /\ ~ticket.again
         /\ \E n \in 0..2 : /\ InRounds(ticket.sent, n) /\ n = Len(ticket.sent)
                            /\ Undecoded(ticket.sent, n)
    [] OTHER -> ticket.sent = <<>> /\ ~ticket.again

SentInv == \A j \in Recordings : SentBy(tickets[j])

Inv ==
  /\ CallInv /\ DataType /\ NothingYet /\ FilesInv /\ EncodersInv /\ TicketsInv /\ SentInv

--------------------------------------------------------------------------------
(* The recorder: proof *)

(* What the recorder does sends nothing. *)
LEMMA SentKept ==
  ASSUME SentInv, UNCHANGED tickets
  PROVE  SentInv'
  BY DEF SentInv

(* What a reply does to the call. *)
LEMMA RepliesMean ==
  ASSUME call \in Call, NEW result \in {"recording", "failed", "captured"}, Replies(result)
  PROVE  /\ call' \in Call /\ call'.do = "none" /\ call'.result = result
         /\ call'.job = call.job
  BY DEF Call, Replies

(* Both edits of a header at once. *)
LEMMA FileFinalized ==
  ASSUME NEW f \in File, NEW sized, NEW trailer
  PROVE  [[f EXCEPT !.sized = sized] EXCEPT !.trailer = trailer]
           = [samples |-> f.samples, trailer |-> trailer, sized |-> sized]
<1> DEFINE g == [f EXCEPT !.sized = sized]
<1>1. g = [samples |-> f.samples, trailer |-> f.trailer, sized |-> sized]
  BY DEF File
<1>2. [g EXCEPT !.trailer = trailer]
        = [samples |-> f.samples, trailer |-> trailer, sized |-> sized]
  <2> HIDE DEF g
  <2> QED BY <1>1
<1>3. QED BY <1>2

(* A sample more, of a file whose chunks are not closed. *)
LEMMA CaptureKeeps ==
  ASSUME Inv, Capture, UNCHANGED tickets
  PROVE  Inv'
<1> DEFINE j == pwRecord.job
           more == [files[j] EXCEPT !.samples = @ + 1]
<1>a. /\ j \in Recordings /\ files \in [Recordings -> File] /\ files[j].samples < MaxSamples
      /\ files' = [files EXCEPT ![j] = more]
  BY DEF Inv, Capture, Running, DataType, CallInv, CallType, Process, Rests, Called,
     Spawned, Records, Stops, IsCaptured, NoProcess, Recordings
<1>b. /\ more \in File /\ more.samples = files[j].samples + 1
      /\ more.trailer = files[j].trailer /\ more.sized = files[j].sized
  BY <1>a, BoundsAssumption DEF File
<1> HIDE DEF more
<1>1. CallInv'
  BY DEF Inv, Capture, CallInv, CallType, Rests, Called, Spawned, Records, Stops, IsCaptured
<1>2. DataType'
  BY <1>a, <1>b DEF Inv, Capture, DataType
<1>3. NothingYet'
  BY DEF Inv, Capture, NothingYet, IsFresh, CallInv, CallType, Process, Rests, Called,
     Spawned, Records, Stops, IsCaptured, NoProcess
<1>4. FilesInv'
  BY DEF Inv, Capture, DataType, NoFile, FilesInv, File, Records, Stops, IsCaptured
<1>5. EncodersInv'
  BY DEF Inv, Capture, EncodersInv, IsOver, At
<1>6. TicketsInv'
  BY DEF Inv, Capture, TicketsInv, IsOver, At
<1>7. SentInv'
  BY SentKept DEF Inv
<1>8. QED BY <1>1, <1>2, <1>3, <1>4, <1>5, <1>6, <1>7 DEF Inv

(* The header and the last chunk are written once, by the process that ends. *)
LEMMA FinalizeKeeps ==
  ASSUME Inv, Finalize, UNCHANGED tickets
  PROVE  Inv'
<1> DEFINE j == pwRecord.job
           sized == files[j].samples > 0
<1>a. /\ j \in Recordings /\ files \in [Recordings -> File]
  BY DEF Inv, Finalize, DataType, CallInv, CallType, Process, Rests, Called, Spawned,
     Records, Stops, IsCaptured, NoProcess, Recordings
<1>b. PICK trailer \in BOOLEAN :
        files' = [files EXCEPT ![j].sized = sized, ![j].trailer = trailer]
  BY DEF Finalize
<1>c. sized \in BOOLEAN
  OBVIOUS
<1> HIDE DEF sized
<1> DEFINE last == [samples |-> files[j].samples, trailer |-> trailer, sized |-> sized]
<1>d. last \in File
  BY <1>a, <1>c DEF File
<1>e. files' = [files EXCEPT ![j] = last]
  <2>1. files[j] \in File
    BY <1>a
  <2>2. [[files[j] EXCEPT !.sized = sized] EXCEPT !.trailer = trailer] = last
    BY <2>1, FileFinalized
  <2>3. files' = [files EXCEPT ![j] = [[files[j] EXCEPT !.sized = sized] EXCEPT !.trailer = trailer]]
    BY <1>b
  <2>4. QED BY <2>2, <2>3
<1> HIDE DEF last
<1>1. CallInv'
  BY BoundsAssumption DEF Inv, Finalize, May, Fine, CallInv, CallType, Process, Rests,
     Called, Spawned, Records, Stops, IsCaptured, NoProcess
<1>2. DataType'
  BY <1>d, <1>e DEF Inv, Finalize, DataType
<1>3. NothingYet'
  BY <1>a DEF Inv, Finalize, NothingYet, IsFresh, CallInv, CallType, Process, Rests, Called,
     Spawned, Records, Stops, IsCaptured, NoProcess
<1>4. FilesInv'
  BY DEF Inv, Finalize, Running, Fine, DataType, NoFile, FilesInv, File, CallInv, CallType,
     Process, Records, Stops, IsCaptured, NoProcess, Recordings
<1>5. EncodersInv'
  BY DEF Inv, Finalize, Fine, DataType, EncodersInv, IsOver, At
<1>6. TicketsInv'
  BY DEF Inv, Finalize, Fine, DataType, TicketsInv, IsOver, At
<1>7. SentInv'
  BY SentKept DEF Inv
<1>8. QED BY <1>1, <1>2, <1>3, <1>4, <1>5, <1>6, <1>7 DEF Inv

(* A process that is gone writes nothing. *)
LEMMA CrashKeeps ==
  ASSUME Inv, Crash, UNCHANGED tickets
  PROVE  Inv'
<1>1. CallInv'
  BY BoundsAssumption DEF Inv, Crash, Running, May, CallInv, CallType, Process, Rests,
     Called, Spawned, Records, Stops, IsCaptured, NoProcess
<1>2. DataType'
  BY DEF Inv, Crash, DataType
<1>3. NothingYet'
  BY DEF Inv, Crash, Running, NothingYet, IsFresh, NoFile, Called, Spawned, NoProcess
<1>4. FilesInv'
  BY DEF Inv, Crash, Running, NoFile, FilesInv, Records, Stops, IsCaptured, NoProcess
<1>5. EncodersInv'
  BY DEF Inv, Crash, EncodersInv, IsOver, At
<1>6. TicketsInv'
  BY DEF Inv, Crash, TicketsInv, IsOver, At
<1>7. SentInv'
  BY SentKept DEF Inv
<1>8. QED BY <1>1, <1>2, <1>3, <1>4, <1>5, <1>6, <1>7 DEF Inv

(* A call that fails leaves nothing behind. *)
LEMMA FailKeeps ==
  ASSUME Inv, Called \/ Spawned \/ Stops, UNCHANGED <<active, files, started, tickets>>,
         pwRecord' = NoProcess, owner' = "free", Replies("failed"),
         failures' \in 0..MaxFailures, encoders' = [encoders EXCEPT ![call.job] = NoEncoder]
  PROVE  Inv'
<1>a. call \in Call /\ call.job \in Recordings
  BY DEF Inv, CallInv, CallType, Process, Called, Spawned, Stops, Recordings
<1>b. /\ call' \in Call /\ call'.do = "none" /\ call'.result = "failed"
      /\ call'.job = call.job
  BY <1>a, RepliesMean
<1>1. CallInv'
  BY <1>b, BoundsAssumption DEF Inv, CallInv, CallType, Process, Rests, Called, Spawned,
     Stops, NoProcess
<1>c. Rests' /\ ~Called' /\ ~Spawned' /\ ~Records' /\ ~Stops' /\ ~IsCaptured'
  BY <1>b DEF Rests, Called, Spawned, Records, Stops, IsCaptured
<1>d. NoEncoder \in EncoderOf
  BY BoundsAssumption DEF NoEncoder, EncoderOf
<1>2. DataType'
  BY <1>d DEF Inv, DataType
<1>3. NothingYet'
  BY <1>c DEF Inv, NothingYet, IsFresh
<1>4. FilesInv'
  BY <1>c DEF Inv, FilesInv, Running, NoProcess
<1>5. EncodersInv'
  BY <1>b DEF Inv, DataType, EncodersInv, IsOver, NoEncoder, At, NoProcess, Recordings
<1>6. TicketsInv'
  BY <1>b DEF Inv, TicketsInv, IsOver, At, NoProcess, Recordings
<1>7. SentInv'
  BY SentKept DEF Inv
<1>8. QED BY <1>1, <1>2, <1>3, <1>4, <1>5, <1>6, <1>7 DEF Inv

(* A process for the recording that was asked for, or a refusal. *)
LEMMA SpawnKeeps ==
  ASSUME Inv, Spawn, UNCHANGED tickets
  PROVE  Inv'
<1>a. Called /\ encoders[call.job] = NoEncoder /\ files[call.job] = NoFile
  BY DEF Inv, Spawn, NothingYet, IsFresh, CallInv, CallType, Rests, Called, Spawned,
     Records, Stops, IsCaptured, Recordings
<1>1. CASE pwRecord' = [job |-> call.job, at |-> "runs"] /\ owner' = "spawned"
           /\ UNCHANGED <<call, failures>>
  <2>a. Spawned' /\ ~Called' /\ ~Records' /\ ~Stops' /\ ~IsCaptured'
    BY <1>a, <1>1 DEF Spawn, Called, Spawned, Records, Stops, IsCaptured
  <2>1. CallInv'
    BY <1>1, <2>a DEF Spawn, Inv, CallInv, CallType, Process, Call
  <2>2. DataType'
    BY DEF Inv, DataType, Spawn
  <2>3. NothingYet'
    BY <1>a, <1>1 DEF Inv, NothingYet, IsFresh, Spawn
  <2>4. FilesInv'
    BY <1>a, <1>1, <2>a DEF Inv, FilesInv, NoFile, Spawn
  <2>5. EncodersInv'
    BY <1>1 DEF Inv, EncodersInv, IsOver, At, Spawn
  <2>6. TicketsInv'
    BY <1>1 DEF Inv, TicketsInv, IsOver, At, Spawn
  <2>7. QED BY <2>1, <2>2, <2>3, <2>4, <2>5, <2>6, SentKept DEF Inv
<1>2. CASE May("spawn") /\ Replies("failed") /\ UNCHANGED <<owner, pwRecord>>
  <2>1. encoders' = [encoders EXCEPT ![call.job] = NoEncoder]
    BY <1>a DEF Spawn, Inv, DataType
  <2>2. pwRecord' = NoProcess /\ owner' = "free" /\ failures' \in 0..MaxFailures
    BY <1>a, <1>2, BoundsAssumption DEF Called, Inv, CallInv, CallType, May
  <2>3. QED BY <1>a, <2>1, <2>2, FailKeeps DEF Spawn
<1>3. QED BY <1>1, <1>2 DEF Spawn, Fine

(* A start that failed has no encoder yet. *)
LEMMA NoSamplesKeeps ==
  ASSUME Inv, NoSamples, UNCHANGED tickets
  PROVE  Inv'
<1>1. Spawned
  BY DEF Inv, NoSamples, CallInv, Rests, Called, Records, Stops, IsCaptured
<1>2. encoders' = [encoders EXCEPT ![call.job] = NoEncoder]
  BY <1>1 DEF NoSamples, Inv, NothingYet, DataType
<1>3. failures' \in 0..MaxFailures
  BY BoundsAssumption DEF Inv, CallInv, CallType, NoSamples, May, Fine
<1>4. QED BY <1>1, <1>2, <1>3, FailKeeps DEF NoSamples, Gone

(* Interrupted, pw-record still writes; if it cannot be, the recording is dropped. *)
LEMMA InterruptKeeps ==
  ASSUME Inv, Interrupt, UNCHANGED tickets
  PROVE  Inv'
<1>a. Stops
  BY DEF Inv, Interrupt, CallInv, Rests, Called, Spawned, Records, IsCaptured
<1>1. CASE /\ pwRecord' = IF Running THEN [pwRecord EXCEPT !.at = "interrupted"] ELSE pwRecord
           /\ owner' = "exit" /\ UNCHANGED <<call, encoders, failures>>
  <2>b. pwRecord' \in Process /\ pwRecord'.job = pwRecord.job /\ pwRecord'.at # "gone"
        /\ (Running' => Running)
    BY <1>a, <1>1 DEF Inv, CallInv, CallType, Process, Running, Stops
  <2>a. Stops' /\ ~Called' /\ ~Records' /\ ~Spawned' /\ ~IsCaptured'
    BY <1>a, <1>1 DEF Interrupt, Called, Records, Stops, Spawned, IsCaptured
  <2>1. CallInv'
    BY <1>1, <2>a, <2>b DEF Interrupt, Inv, CallInv, CallType
  <2>2. DataType'
    BY <1>1 DEF Inv, DataType, Interrupt
  <2>3. NothingYet'
    BY <1>1, <2>a DEF Inv, NothingYet, IsFresh, Interrupt
  <2>4. FilesInv'
    BY <1>a, <1>1, <2>b DEF Inv, FilesInv, Interrupt
  <2>5. EncodersInv'
    BY <1>1 DEF Inv, EncodersInv, IsOver, At, Interrupt
  <2>6. TicketsInv'
    BY <1>1 DEF Inv, TicketsInv, IsOver, At, Interrupt
  <2>7. QED BY <2>1, <2>2, <2>3, <2>4, <2>5, <2>6, SentKept DEF Inv
<1>2. CASE May("interrupt") /\ Fails
  <2>1. failures' \in 0..MaxFailures
    BY <1>2, BoundsAssumption DEF Inv, CallInv, CallType, May
  <2>2. QED BY <1>a, <1>2, <2>1, FailKeeps DEF Interrupt, Fails, Gone
<1>3. QED BY <1>1, <1>2 DEF Interrupt, Fine

(* A recording that does not end is dropped. *)
LEMMA StopTimesOutKeeps ==
  ASSUME Inv, StopTimesOut, UNCHANGED tickets
  PROVE  Inv'
<1>1. Stops
  BY DEF Inv, StopTimesOut, CallInv, Rests, Called, Spawned, Records, IsCaptured
<1>2. failures' \in 0..MaxFailures
  BY BoundsAssumption DEF Inv, CallInv, CallType, StopTimesOut, May
<1>3. QED BY <1>1, <1>2, FailKeeps DEF StopTimesOut, Fails, Gone

(* The owner has its recording, which has samples. *)
LEMMA FirstSamplesKeeps ==
  ASSUME Inv, FirstSamples, UNCHANGED tickets
  PROVE  Inv'
<1>a. call \in Call /\ Spawned
  BY DEF Inv, FirstSamples, CallInv, CallType, Rests, Called, Records, Stops, IsCaptured
<1>b. /\ call' \in Call /\ call'.do = "none" /\ call'.result = "recording"
      /\ call'.job = call.job
  BY <1>a, RepliesMean DEF FirstSamples
<1>c. Records' /\ ~Called' /\ ~Spawned'
  BY <1>a, <1>b DEF FirstSamples, Called, Spawned, Records
<1>1. CallInv'
  BY <1>a, <1>b, <1>c, BoundsAssumption DEF Inv, FirstSamples, CallInv, CallType, Active,
     Spawned, Call, Recordings
<1>2. DataType'
  BY DEF Inv, FirstSamples, DataType
<1>3. NothingYet'
  BY <1>c DEF Inv, NothingYet, IsFresh, FirstSamples
<1>4. FilesInv'
  BY <1>b DEF Inv, FilesInv, FirstSamples
<1>5. EncodersInv'
  BY <1>a, <1>b DEF Inv, EncodersInv, IsOver, At, FirstSamples, Spawned, NoRecording,
     Recordings
<1>6. TicketsInv'
  BY <1>c DEF Inv, TicketsInv, IsOver, At, FirstSamples, Records
<1>7. SentInv'
  BY SentKept DEF Inv
<1>8. QED BY <1>1, <1>2, <1>3, <1>4, <1>5, <1>6, <1>7 DEF Inv

(* An encoder with its ffmpeg. *)
LEMMA EncoderStarted ==
  ASSUME NEW e \in EncoderOf
  PROVE  LET new == [e EXCEPT !.at = "feeding", !.ffmpeg = "runs"]
         IN /\ new \in EncoderOf /\ new.at = "feeding" /\ new.ffmpeg = "runs"
            /\ new.told = e.told
  BY DEF EncoderOf

(* The encoder belongs to the active recording. *)
LEMMA StartEncoderKeeps ==
  ASSUME Inv, StartEncoder, UNCHANGED tickets
  PROVE  Inv'
<1> DEFINE new == [NoEncoder EXCEPT !.at = "feeding", !.ffmpeg = "runs"]
<1>a. /\ new \in EncoderOf /\ new.at = "feeding" /\ ~new.told /\ new.ffmpeg = "runs"
  <2>1. NoEncoder \in EncoderOf /\ ~NoEncoder.told
    BY BoundsAssumption DEF NoEncoder, EncoderOf
  <2>2. QED BY <2>1, EncoderStarted
<1>b. encoders' = [encoders EXCEPT ![active.job] = new] \/ UNCHANGED encoders
  BY DEF StartEncoder
<1>c. Records /\ active.job \in Recordings
  BY DEF Inv, StartEncoder, CallInv, CallType, Active, Rests, Called, Spawned, Records,
     Stops, IsCaptured, NoRecording
<1>d. Records' /\ ~Called' /\ ~Spawned'
  BY <1>c DEF StartEncoder, Called, Spawned, Records
<1> HIDE DEF new
<1>1. CallInv'
  BY BoundsAssumption DEF Inv, StartEncoder, Fine, May, CallInv, CallType, Rests, Called,
     Spawned, Records, Stops, IsCaptured
<1>2. DataType'
  BY <1>a, <1>b DEF Inv, DataType, StartEncoder
<1>3. NothingYet'
  BY <1>d DEF Inv, DataType, NothingYet, IsFresh, StartEncoder, CallInv, CallType, Process,
     Records
<1>4. FilesInv'
  BY DEF Inv, StartEncoder, Fine, NoFile, FilesInv, Running, CallInv, Rests, Called, Spawned
<1>5. EncodersInv'
  BY <1>a, <1>b DEF Inv, DataType, EncodersInv, IsOver, At, StartEncoder
<1>6. TicketsInv'
  BY DEF Inv, StartEncoder, Fine, TicketsInv, IsOver, At
<1>7. SentInv'
  BY SentKept DEF Inv
<1>8. QED BY <1>1, <1>2, <1>3, <1>4, <1>5, <1>6, <1>7 DEF Inv

(* Without the active recording, the call still has its encoder. *)
LEMMA TakeFinishKeeps ==
  ASSUME Inv, TakeFinish, UNCHANGED tickets
  PROVE  Inv'
<1>1. CallInv'
  BY DEF Inv, TakeFinish, CallInv, CallType, Rests, Called, Spawned, Records, Stops,
     IsCaptured
<1>2. DataType'
  BY DEF Inv, TakeFinish, DataType
<1>3. NothingYet'
  BY DEF Inv, TakeFinish, NothingYet, IsFresh, NoFile, Called, Spawned
<1>4. FilesInv'
  BY DEF Inv, TakeFinish, NoFile, FilesInv, Running, Records, Stops, IsCaptured
<1>5. EncodersInv'
  BY DEF Inv, TakeFinish, NothingYet, IsFresh, NoEncoder, EncodersInv, IsOver, At, CallInv,
     Rests, Records, Stops, IsCaptured
<1>6. TicketsInv'
  BY DEF Inv, TakeFinish, TicketsInv, IsOver, At
<1>7. SentInv'
  BY SentKept DEF Inv
<1>8. QED BY <1>1, <1>2, <1>3, <1>4, <1>5, <1>6, <1>7 DEF Inv

(* The tail changes nothing but the owner. *)
LEMMA TailEndsKeeps ==
  ASSUME Inv, TailEnds, UNCHANGED tickets
  PROVE  Inv'
<1>1. CallInv'
  BY DEF Inv, TailEnds, CallInv, CallType, Rests, Called, Spawned, Records, Stops,
     IsCaptured
<1>2. DataType'
  BY DEF Inv, TailEnds, DataType
<1>3. NothingYet'
  BY DEF Inv, TailEnds, NothingYet, IsFresh, NoFile, Called, Spawned
<1>4. FilesInv'
  BY DEF Inv, TailEnds, NoFile, FilesInv, Running, Records, Stops, IsCaptured
<1>5. EncodersInv'
  BY DEF Inv, TailEnds, EncodersInv, IsOver, At
<1>6. TicketsInv'
  BY DEF Inv, TailEnds, TicketsInv, IsOver, At
<1>7. SentInv'
  BY SentKept DEF Inv
<1>8. QED BY <1>1, <1>2, <1>3, <1>4, <1>5, <1>6, <1>7 DEF Inv

(* A report stays within the owner. *)
LEMMA SuperviseKeeps ==
  ASSUME Inv, Supervise, UNCHANGED tickets
  PROVE  Inv'
<1>1. CallInv'
  <2>a. active' \in Active /\ active'.job = active.job
    BY DEF Inv, Supervise, Report, DataType, File, CallInv, CallType, Active
  <2>1. QED BY <2>a DEF Inv, Supervise, CallInv, CallType, Rests, Called, Spawned, Records,
     Stops, IsCaptured
<1>2. DataType'
  BY DEF Inv, Supervise, Report, DataType
<1>3. NothingYet'
  BY DEF Inv, Supervise, Report, NothingYet, IsFresh, NoFile, CallInv, Rests, Called,
     Spawned, Records, Stops, IsCaptured
<1>4. FilesInv'
  BY DEF Inv, Supervise, Report, NoFile, FilesInv, Running, CallInv, Rests, Called, Spawned
<1>5. EncodersInv'
  BY DEF Inv, Supervise, Report, EncodersInv, IsOver, At, CallInv, Rests, Called, Spawned,
     Records, Stops, IsCaptured
<1>6. TicketsInv'
  BY DEF Inv, Supervise, Report, TicketsInv, IsOver, At
<1>7. SentInv'
  BY SentKept DEF Inv
<1>8. QED BY <1>1, <1>2, <1>3, <1>4, <1>5, <1>6, <1>7 DEF Inv

(* The next recording is one of which there is nothing. *)
LEMMA BeginKeeps ==
  ASSUME Inv, Begin, UNCHANGED tickets
  PROVE  Inv'
<1>1. CallInv'
  BY BoundsAssumption DEF Inv, Begin, Waits, CallInv, CallType, Call, Rests, Called,
     Spawned, Records, Stops, IsCaptured
<1>2. DataType'
  BY DEF Inv, Begin, Waits, DataType
<1>3. NothingYet'
  BY DEF Inv, Begin, Waits, NothingYet, IsFresh, NoFile, CallInv, CallType, Rests, Called,
     Spawned, Records, Stops, IsCaptured, Recordings
<1>4. FilesInv'
  BY DEF Inv, Begin, Waits, NoFile, FilesInv, Running, Records, Stops, IsCaptured
<1>5. EncodersInv'
  BY DEF Inv, Begin, Waits, NothingYet, IsFresh, NoEncoder, EncodersInv, IsOver, At,
     CallInv, CallType, Call, Rests, Records, Stops, IsCaptured, Recordings
<1>6. TicketsInv'
  BY DEF Inv, Begin, Waits, TicketsInv, IsOver, At, CallInv, CallType, Recordings
<1>7. SentInv'
  BY SentKept DEF Inv
<1>8. QED BY <1>1, <1>2, <1>3, <1>4, <1>5, <1>6, <1>7 DEF Inv

(* A finish is of the recording there is. *)
LEMMA FinishKeeps ==
  ASSUME Inv, NEW tail \in BOOLEAN, Finish(tail), UNCHANGED tickets
  PROVE  Inv'
<1>1. CallInv'
  BY DEF Inv, Finish, IsRecording, Waits, CallInv, CallType, Call, Rests, Called, Spawned,
     Records, Stops, IsCaptured
<1>2. DataType'
  BY DEF Inv, Finish, IsRecording, Waits, DataType
<1>3. NothingYet'
  BY DEF Inv, Finish, IsRecording, Waits, NothingYet, IsFresh, NoFile, Called, Spawned
<1>4. FilesInv'
  BY DEF Inv, Finish, IsRecording, Waits, NoFile, FilesInv, Running, CallInv, Rests, Called,
     Spawned
<1>5. EncodersInv'
  BY DEF Inv, Finish, IsRecording, Waits, NothingYet, IsFresh, NoEncoder, EncodersInv,
     IsOver, At, CallInv, Rests, Records, Stops, IsCaptured
<1>6. TicketsInv'
  BY DEF Inv, Finish, IsRecording, Waits, TicketsInv, IsOver, At
<1>7. SentInv'
  BY SentKept DEF Inv
<1>8. QED BY <1>1, <1>2, <1>3, <1>4, <1>5, <1>6, <1>7 DEF Inv

(* The recording is over, and its encoder may be told. *)
LEMMA StoppedKeeps ==
  ASSUME Inv, Stopped, UNCHANGED tickets
  PROVE  Inv'
<1>a. call \in Call /\ Stops /\ call.job \in Recordings
  BY DEF Inv, Stopped, CallInv, CallType, Process, Rests, Called, Spawned, Records, Stops,
     IsCaptured, Recordings
<1>b. /\ call' \in Call /\ call'.do = "none" /\ call'.result = "captured"
      /\ call'.job = call.job
  BY <1>a, RepliesMean DEF Stopped
<1>c. IsCaptured' /\ ~Called' /\ ~Spawned'
  BY <1>a, <1>b DEF Stopped, Gone, Called, Spawned, Stops, IsCaptured
<1>1. CallInv'
  BY <1>b, <1>c, BoundsAssumption DEF Inv, Stopped, Gone, CallInv, CallType, Process,
     NoProcess
<1>2. DataType'
  BY DEF Inv, DataType, Stopped, EncoderOf
<1>3. NothingYet'
  BY <1>c DEF Inv, NothingYet, IsFresh, Stopped, CallInv, CallType, Recordings
<1>4. FilesInv'
  BY <1>a, <1>b DEF Inv, FilesInv, Running, Stopped, Gone, NoProcess
<1>5. EncodersInv'
  BY <1>b DEF Inv, EncodersInv, IsOver, At, Stopped, Gone, NoProcess, CallInv, Recordings
<1>6. TicketsInv'
  BY <1>a, <1>b DEF Inv, TicketsInv, IsOver, At, Stopped, Gone, NoProcess, Stops, Recordings
<1>7. SentInv'
  BY SentKept DEF Inv
<1>8. QED BY <1>1, <1>2, <1>3, <1>4, <1>5, <1>6, <1>7 DEF Inv

(* An encoder that goes on is still owned, and is done only with the rest of its file. *)
LEMMA EncoderGoesOn ==
  ASSUME Inv, NEW j \in Recordings, NEW e \in EncoderOf,
         encoders' = [encoders EXCEPT ![j] = e],
         UNCHANGED <<call, owner, active, pwRecord, files, started, tickets>>,
         failures' \in 0..MaxFailures,
         encoders[j].at # "none", e.at # "none", e.told = encoders[j].told,
         e.at = "fed" => e.told /\ e.fed = DataEnd(files[j]),
         e.ffmpeg # "gone" => encoders[j].ffmpeg # "gone"
  PROVE  Inv'
<1>0. UNCHANGED <<Rests, Called, Spawned, Records, Stops, IsCaptured>>
  BY DEF Rests, Called, Spawned, Records, Stops, IsCaptured
<1>1. CallInv'
  BY <1>0 DEF Inv, CallInv, CallType
<1>2. DataType'
  BY DEF Inv, DataType
<1>3. NothingYet'
  <2>1. encoders[j] # NoEncoder
    BY DEF NoEncoder
  <2>2. ~IsFresh(j) /\ (Spawned => call.job # j)
    BY <2>1 DEF Inv, NothingYet
  <2>3. QED BY <1>0, <2>2 DEF Inv, NothingYet, IsFresh
<1>4. FilesInv'
  BY <1>0 DEF Inv, FilesInv, Running
<1>5. EncodersInv'
  BY DEF Inv, EncodersInv, IsOver, At
<1>6. TicketsInv'
  BY DEF Inv, TicketsInv, IsOver, At
<1>7. QED BY <1>1, <1>2, <1>3, <1>4, <1>5, <1>6, SentKept DEF Inv

(* Fed, fed the rest, or ended, an encoder goes on. *)
LEMMA EncoderKeeps ==
  ASSUME Inv, NEW j \in Recordings, Feed(j) \/ FeedRest(j) \/ FfmpegEnds(j),
         UNCHANGED tickets
  PROVE  Inv'
<1>a. /\ encoders[j] \in EncoderOf /\ encoders \in [Recordings -> EncoderOf]
      /\ files[j] \in File /\ failures \in 0..MaxFailures
  BY DEF Inv, DataType, CallInv, CallType
<1>b. Length(files[j]) \in 0..MaxSamples + 1 /\ DataEnd(files[j]) \in 0..MaxSamples + 1
  BY <1>a, BoundsAssumption DEF File, Length, DataEnd
<1>c. encoders[j].at = "none" => encoders[j].ffmpeg = "gone"
  BY DEF Inv, EncodersInv
<1>d. encoders[j].at = "fed" => encoders[j].told /\ encoders[j].fed = DataEnd(files[j])
  BY DEF Inv, EncodersInv
<1>1. CASE Feed(j)
  <2> DEFINE failed == [encoders[j] EXCEPT !.at = "failed"]
             e == [encoders[j] EXCEPT !.fed = Length(files[j])]
  <2>1. /\ failed \in EncoderOf /\ failed.at = "failed" /\ failed.told = encoders[j].told
        /\ failed.ffmpeg = encoders[j].ffmpeg
    BY <1>a DEF EncoderOf
  <2>2. /\ e \in EncoderOf /\ e.at = encoders[j].at /\ e.told = encoders[j].told
        /\ e.ffmpeg = encoders[j].ffmpeg
    BY <1>a, <1>b DEF EncoderOf
  <2>3. encoders' = [encoders EXCEPT ![j] = failed] \/ encoders' = [encoders EXCEPT ![j] = e]
    BY <1>1 DEF Feed, Encoder
  <2> HIDE DEF failed, e
  <2>5. QED BY <1>1, <1>a, <2>1, <2>2, <2>3, EncoderGoesOn DEF Feed
<1>2. CASE FeedRest(j)
  <2> DEFINE failed == [encoders[j] EXCEPT !.at = "failed"]
             e == [encoders[j] EXCEPT !.at = "fed", !.fed = DataEnd(files[j])]
  <2>1. /\ failed \in EncoderOf /\ failed.at = "failed" /\ failed.told = encoders[j].told
        /\ failed.ffmpeg = encoders[j].ffmpeg
    BY <1>a DEF EncoderOf
  <2>2. /\ e \in EncoderOf /\ e.at = "fed" /\ e.told = encoders[j].told
        /\ e.ffmpeg = encoders[j].ffmpeg /\ e.fed = DataEnd(files[j])
    BY <1>a, <1>b DEF EncoderOf
  <2>3. encoders' = [encoders EXCEPT ![j] = failed] \/ encoders' = [encoders EXCEPT ![j] = e]
    BY <1>2 DEF FeedRest, Encoder
  <2> HIDE DEF failed, e
  <2>5. QED BY <1>2, <1>a, <2>1, <2>2, <2>3, EncoderGoesOn DEF FeedRest
<1>3. CASE FfmpegEnds(j)
  <2>1. PICK end \in {"done", "died"} :
          encoders' = [encoders EXCEPT ![j] = [encoders[j] EXCEPT !.ffmpeg = end]]
    BY <1>3 DEF FfmpegEnds
  <2> DEFINE e == [encoders[j] EXCEPT !.ffmpeg = end]
  <2>2. /\ e \in EncoderOf /\ e.at = encoders[j].at /\ e.told = encoders[j].told
        /\ e.fed = encoders[j].fed
    BY <1>a DEF EncoderOf
  <2>3. encoders' = [encoders EXCEPT ![j] = e]
    BY <2>1
  <2>4. encoders[j].ffmpeg = "runs" /\ failures' \in 0..MaxFailures
    BY <1>3, <1>a, BoundsAssumption DEF FfmpegEnds, Fine, May
  <2> HIDE DEF e
  <2>5. UNCHANGED <<call, owner, active, pwRecord, files, started>>
    BY <1>3 DEF FfmpegEnds
  <2>6. e.at # "none" /\ encoders[j].at # "none"
    BY <1>c, <2>2, <2>4
  <2>7. e.at = "fed" => e.told /\ e.fed = DataEnd(files[j])
    BY <1>d, <2>2
  <2>8. QED BY <2>2, <2>3, <2>4, <2>5, <2>6, <2>7, EncoderGoesOn
<1>4. QED BY <1>1, <1>2, <1>3

--------------------------------------------------------------------------------
(* What a ticket sends: proof *)

(* Whatever its stage, what it sent is in rounds. *)
LEMMA AlwaysInRounds ==
  ASSUME NEW t \in Ticket, SentBy(t)
  PROVE  \E n \in 0..2 : InRounds(t.sent, n)
<1>1. CASE t.at \in {"send", "answered", "read"}
  BY <1>1 DEF SentBy
<1>2. CASE t.at \notin {"send", "answered", "read"}
  <2>1. t.sent = <<>>
    BY <1>2 DEF SentBy
  <2>2. InRounds(t.sent, 0)
    BY <2>1 DEF InRounds, Undecoded
  <2>3. QED BY <2>2
<1>3. QED BY <1>1, <1>2

(* A request of the format of the ticket ends up behind those of its round. *)
LEMMA Appended ==
  ASSUME NEW sent \in Seq(Request), NEW r \in Request
  PROVE  LET longer == Append(sent, r)
         IN /\ longer \in Seq(Request) /\ Len(longer) = Len(sent) + 1
            /\ Len(sent) \in Nat
            /\ longer[Len(sent) + 1] = r
            /\ \A i \in 1..Len(sent) : longer[i] = sent[i]
  OBVIOUS

(* What is sent after the rounds so far: the format's next request. *)
LEMMA NextInRounds ==
  ASSUME NEW t \in Ticket, t.at = "send", SentBy(t), NEW r \in Request,
         r.format = t.format
  PROVE  LET longer == Append(t.sent, r)
         IN \E n \in 0..2 :
              /\ InRounds(longer, n)
              /\ r.format = "webm" => n = Len(longer)
              /\ ~t.again /\ r.format = "webm" => Len(longer) = 1
              /\ ~t.again /\ r.format = "wav" => Len(longer) = n + 1 /\ Undecoded(longer, n)
<1> DEFINE longer == Append(t.sent, r)
<1>0. /\ t.sent \in Seq(Request) /\ t.again \in BOOLEAN /\ Len(longer) = Len(t.sent) + 1
      /\ Len(t.sent) \in Nat /\ longer[Len(t.sent) + 1] = r
      /\ \A i \in 1..Len(t.sent) : longer[i] = t.sent[i]
  BY DEF Ticket
<1>1. PICK n \in 0..2 :
        /\ InRounds(t.sent, n)
        /\ \/ t.format = "webm" /\ n = Len(t.sent) /\ OnItsWay(t, 0)
           \/ t.format = "wav" /\ OnItsWay(t, n) /\ Undecoded(t.sent, n)
  BY DEF SentBy
<1> HIDE DEF longer
<1>2. CASE t.format = "webm"
  <2>1. n + 1 \in 0..2 /\ n + 1 = Len(longer) /\ n \in 0..1
    BY <1>0, <1>1, <1>2 DEF OnItsWay
  <2>2. InRounds(longer, n + 1)
    BY <1>0, <1>1, <1>2, <2>1 DEF OnItsWay, InRounds, Undecoded
  <2>3. ~t.again => Len(longer) = 1
    BY <1>0, <1>1, <1>2 DEF OnItsWay
  <2>4. QED BY <1>2, <2>1, <2>2, <2>3 DEF longer
<1>3. CASE t.format = "wav"
  <2>1. InRounds(longer, n)
    <3>1. n <= Len(longer) /\ Len(longer) <= n + 2
      BY <1>0, <1>1 DEF OnItsWay, InRounds
    <3>2. \A i \in 1..Len(longer) : longer[i].format = IF i <= n THEN "webm" ELSE "wav"
      BY <1>0, <1>1, <1>3 DEF OnItsWay, InRounds
    <3>3. n = 2 => longer[1].answer \in Broken
      BY <1>0, <1>1 DEF OnItsWay, InRounds
    <3>4. Len(longer) = n + 2 => longer[n + 1].answer \in Broken
      BY <1>0, <1>1 DEF OnItsWay, InRounds
    <3>5. Undecoded(longer, n)
      BY <1>0, <1>1, <1>3 DEF OnItsWay, Undecoded
    <3>6. QED BY <3>1, <3>2, <3>3, <3>4, <3>5 DEF InRounds
  <2>2. ~t.again => Len(longer) = n + 1 /\ Undecoded(longer, n)
    BY <1>0, <1>1 DEF OnItsWay, Undecoded
  <2>3. QED BY <1>3, <2>1, <2>2 DEF longer
<1>4. QED BY <1>1, <1>2, <1>3

(* The compressed requests come first, of each format there are two at most. *)
LEMMA RoundsAreShort ==
  ASSUME NEW sent \in Seq(Request), NEW n \in 0..2, InRounds(sent, n)
  PROVE  /\ \A i \in 1..Len(sent) - 1 :
              \/ sent[i].answer \in Broken /\ sent[i + 1].format = sent[i].format
              \/ sent[i].answer = "undecodable" /\ sent[i + 1].format = "wav"
         /\ \A f \in {"webm", "wav"} :
              Cardinality({i \in 1..Len(sent) : sent[i].format = f}) <= 2
<1>1. ASSUME NEW i \in 1..Len(sent) - 1
      PROVE  \/ sent[i].answer \in Broken /\ sent[i + 1].format = sent[i].format
             \/ sent[i].answer = "undecodable" /\ sent[i + 1].format = "wav"
  <2>2. CASE i < n
    BY <2>2 DEF InRounds
  <2>3. CASE i = n
    BY DEF InRounds, Undecoded
  <2>4. CASE i > n
    BY <2>4 DEF InRounds
  <2>5. QED BY <2>2, <2>3, <2>4
<1>2. ASSUME NEW f \in {"webm", "wav"}
      PROVE  Cardinality({i \in 1..Len(sent) : sent[i].format = f}) <= 2
  <2> DEFINE those == {i \in 1..Len(sent) : sent[i].format = f}
  <2>1. PICK a \in 0..2 : those \subseteq a + 1..a + 2
    <3>1. CASE f = "webm"
      <4>1. \A i \in those : i \in 1..2
        BY <3>1 DEF InRounds
      <4>2. QED BY <4>1
    <3>2. CASE f = "wav"
      <4>1. \A i \in those : i \in n + 1..n + 2
        BY <3>2 DEF InRounds
      <4>2. QED BY <4>1
    <3>3. QED BY <3>1, <3>2
  <2>2. IsFiniteSet(a + 1..a + 2) /\ Cardinality(a + 1..a + 2) = 2
    <3>2. QED BY FS_Interval
  <2>3. Cardinality(those) <= Cardinality(a + 1..a + 2)
    BY <2>1, <2>2, FS_Subset
  <2>4. QED BY <2>2, <2>3
<1>3. QED BY <1>1, <1>2

--------------------------------------------------------------------------------
(* The tickets: proof *)

(* What a ticket must be of the recording it is about. *)
Fits(j, t) ==
  /\ SentBy(t) /\ t.at \notin {"none", "encoding"}
  /\ t.at = "send" => t.holds = files[j].samples
  /\ t.outcome # "none" => t.at = "ended"
  /\ t.outcome = "NoSpeech" => j \in Silent /\ files[j].sized

(* A ticket whose recording is over gets on, and leaves the encoder if it waited for it. *)
LEMMA TicketGoesOn ==
  ASSUME Inv, NEW j \in Recordings, NEW t \in Ticket, Goes(j, t), Fits(j, t),
         UNCHANGED <<call, owner, active, pwRecord, files, started>>,
         failures' \in 0..MaxFailures,
         \/ Kills(j)
         \/ UNCHANGED encoders /\ ~At(j, "encoding"),
         IsOver(j), files[j].samples > 0, call.job = j => call.result = "failed"
  PROVE  Inv'
<1>0. UNCHANGED <<Rests, Called, Spawned, Records, Stops, IsCaptured>>
  BY DEF Rests, Called, Spawned, Records, Stops, IsCaptured
<1>a. /\ tickets \in [Recordings -> Ticket] /\ tickets' = [tickets EXCEPT ![j] = t]
      /\ encoders \in [Recordings -> EncoderOf]
  BY DEF Inv, DataType, Goes
<1>b. encoders' = [encoders EXCEPT ![j] = NoEncoder] \/ UNCHANGED encoders
  BY DEF Kills
<1>c. /\ NoEncoder \in EncoderOf /\ ~NoEncoder.told /\ NoEncoder.at = "none"
      /\ NoEncoder.ffmpeg = "gone"
  BY BoundsAssumption DEF NoEncoder, EncoderOf
<1>1. CallInv'
  BY <1>0 DEF Inv, CallInv, CallType
<1>2. DataType'
  BY <1>a, <1>b, <1>c DEF Inv, DataType
<1>3. NothingYet'
  <2>1. Spawned => call.job \in Recordings
    BY DEF Inv, CallInv, CallType, Call, Spawned, Recordings
  <2>2. QED BY <1>0, <1>a, <1>b, <2>1 DEF Inv, NothingYet, IsFresh
<1>4. FilesInv'
  BY <1>0 DEF Inv, FilesInv, Running
<1>5. EncodersInv'
  BY <1>a, <1>c DEF Inv, EncodersInv, IsOver, At, Kills
<1>6. TicketsInv'
  BY <1>a DEF Inv, TicketsInv, IsOver, At, Fits
<1>7. SentInv'
  BY <1>a DEF Inv, SentInv, Fits
<1>8. QED BY <1>1, <1>2, <1>3, <1>4, <1>5, <1>6, <1>7 DEF Inv

(* A ticket that ends has nothing left of what it sent. *)
LEMMA EndedFits ==
  ASSUME NEW j \in Recordings, tickets \in [Recordings -> Ticket],
         NEW outcome \in {"Text", "NoSpeech", "Failed"}, Ends(j, outcome),
         outcome = "NoSpeech" => j \in Silent /\ files[j].sized
  PROVE  \E t \in Ticket : Goes(j, t) /\ Fits(j, t)
<1> DEFINE text == tickets[j].text \/ outcome = "Text"
           t == [NoTicket EXCEPT !.at = "ended", !.outcome = outcome, !.text = text]
<1>1. text \in BOOLEAN
  OBVIOUS
<1>2. Goes(j, t)
  BY DEF Ends
<1> HIDE DEF text
<1>3. NoTicket \in Ticket /\ NoTicket.sent = <<>> /\ ~NoTicket.again
  BY BoundsAssumption DEF Ticket, NoTicket, Stages
<1>4. /\ t \in Ticket /\ t.at = "ended" /\ t.outcome = outcome /\ t.sent = <<>>
      /\ ~t.again
  BY <1>1, <1>3 DEF Ticket, Stages
<1> HIDE DEF t
<1>5. SentBy(t)
  BY <1>4 DEF SentBy
<1>6. QED BY <1>2, <1>4, <1>5 DEF Fits

(* A ticket uploads what holds the samples of the recording. *)
LEMMA UploadFits ==
  ASSUME NEW j \in Recordings, tickets \in [Recordings -> Ticket], SentBy(tickets[j]),
         NEW format \in {"webm", "wav"}, Uploads(j, format, files[j].samples),
         files[j].samples \in 0..MaxSamples + 1, tickets[j].outcome = "none",
         IF format = "wav" THEN At(j, "read") ELSE tickets[j].at \in {"encoding", "file"}
  PROVE  \E t \in Ticket : Goes(j, t) /\ Fits(j, t)
<1> DEFINE u == tickets[j]
           t == [u EXCEPT !.at = "send", !.format = format, !.holds = files[j].samples]
<1>1. u \in Ticket
  OBVIOUS
<1>2. Goes(j, t)
  BY DEF Uploads
<1>3. /\ t \in Ticket /\ t.at = "send" /\ t.format = format /\ t.holds = files[j].samples
      /\ t.sent = u.sent /\ t.again = u.again /\ t.outcome = "none"
  <2> HIDE DEF u
  <2>1. u.outcome = "none"
    BY DEF u
  <2>2. QED BY <1>1, <2>1 DEF Ticket, Stages
<1> HIDE DEF t
<1>4. SentBy(t)
  <2>1. CASE format = "webm"
    <3>1. u.sent = <<>> /\ ~u.again
      BY <2>1 DEF SentBy
    <3>2. InRounds(t.sent, 0) /\ OnItsWay(t, 0) /\ Len(t.sent) = 0
      BY <1>3, <3>1 DEF InRounds, OnItsWay, Undecoded
    <3>3. QED BY <1>3, <2>1, <3>2 DEF SentBy
  <2>2. CASE format = "wav"
    <3>1. PICK n \in 0..2 :
            InRounds(u.sent, n) /\ n = Len(u.sent) /\ Undecoded(u.sent, n) /\ ~u.again
      BY <2>2 DEF SentBy, At
    <3>2. InRounds(t.sent, n) /\ OnItsWay(t, n) /\ Undecoded(t.sent, n)
      BY <1>3, <3>1 DEF OnItsWay
    <3>3. QED BY <1>3, <2>2, <3>2 DEF SentBy
  <2>3. QED BY <2>1, <2>2
<1>5. QED BY <1>2, <1>3, <1>4 DEF Fits

(* What is known of a recording with a ticket. *)
LEMMA TicketKnows ==
  ASSUME Inv, NEW j \in Recordings, ~At(j, "none")
  PROVE  /\ IsOver(j) /\ files[j].samples > 0 /\ DataEnd(files[j]) = files[j].samples
         /\ call.job = j => call.result = "failed"
         /\ tickets \in [Recordings -> Ticket] /\ tickets[j] \in Ticket
         /\ SentBy(tickets[j])
         /\ files[j].samples \in 0..MaxSamples + 1
         /\ tickets[j].outcome # "none" => At(j, "ended")
         /\ failures \in 0..MaxFailures
         /\ At(j, "send") => tickets[j].holds = files[j].samples
<1>1. IsOver(j) /\ files[j].samples > 0 /\ (call.job = j => call.result = "failed")
  BY DEF Inv, TicketsInv
<1>2. /\ tickets \in [Recordings -> Ticket] /\ tickets[j] \in Ticket /\ files[j] \in File
      /\ failures \in 0..MaxFailures
  BY DEF Inv, DataType, CallInv, CallType
<1>3. files[j].samples \in 0..MaxSamples + 1
  BY <1>2, BoundsAssumption DEF File
<1>4. DataEnd(files[j]) = files[j].samples
  BY <1>1, <1>2 DEF Inv, FilesInv, DataEnd, Length, File
<1>5. QED BY <1>2, <1>3, <1>4 DEF Inv, SentInv, TicketsInv

(* An encoding that is done holds the recording. *)
LEMMA WaitForEncodingKeeps ==
  ASSUME Inv, NEW j \in Recordings, WaitForEncoding(j)
  PROVE  Inv'
<1>a. At(j, "encoding") /\ ~At(j, "none") /\ tickets[j].outcome = "none"
  <2>1. At(j, "encoding") /\ ~At(j, "none")
    BY DEF WaitForEncoding, At
  <2>2. QED BY <2>1, TicketKnows DEF At
<1>1. \E t \in Ticket : Goes(j, t) /\ Fits(j, t)
  <2>1. CASE encoders[j].at = "fed" /\ Uploads(j, "webm", encoders[j].fed)
    <3>1. encoders[j].fed = files[j].samples
      BY <1>a, <2>1, TicketKnows DEF Inv, EncodersInv
    <3>2. QED BY <1>a, <2>1, <3>1, TicketKnows, UploadFits DEF At
  <2>2. CASE Goes(j, [tickets[j] EXCEPT !.at = "file"])
    <3> DEFINE t == [tickets[j] EXCEPT !.at = "file"]
    <3>1. /\ t \in Ticket /\ t.at = "file" /\ t.sent = tickets[j].sent
          /\ t.again = tickets[j].again /\ t.outcome = tickets[j].outcome
      BY <1>a, TicketKnows DEF Ticket, Stages
    <3> HIDE DEF t
    <3>2. SentBy(t)
      BY <1>a, <3>1, TicketKnows DEF SentBy, At
    <3>3. Fits(j, t)
      BY <1>a, <3>1, <3>2 DEF Fits
    <3>4. QED BY <2>2, <3>1, <3>3 DEF t
  <2>3. QED BY <2>1, <2>2 DEF WaitForEncoding
<1>2. QED BY <1>1, <1>a, TicketKnows, TicketGoesOn DEF WaitForEncoding, KeepsRecorder, Fine

(* The saved file is encoded to its end, or not at all. *)
LEMMA EncodeFileKeeps ==
  ASSUME Inv, NEW j \in Recordings, EncodeFile(j)
  PROVE  Inv'
<1>a. At(j, "file") /\ ~At(j, "none") /\ ~At(j, "encoding") /\ tickets[j].outcome = "none"
  <2>1. At(j, "file") /\ ~At(j, "none") /\ ~At(j, "encoding")
    BY DEF EncodeFile, At
  <2>2. QED BY <2>1, TicketKnows DEF At
<1>1. \E t \in Ticket : Goes(j, t) /\ Fits(j, t)
  <2>1. CASE Uploads(j, "webm", DataEnd(files[j]))
    BY <1>a, <2>1, TicketKnows, UploadFits DEF At
  <2>2. CASE Goes(j, [tickets[j] EXCEPT !.at = "read"])
    <3> DEFINE t == [tickets[j] EXCEPT !.at = "read"]
    <3>1. /\ t \in Ticket /\ t.at = "read" /\ t.sent = tickets[j].sent
          /\ t.again = tickets[j].again /\ t.outcome = tickets[j].outcome
      BY <1>a, TicketKnows DEF Ticket, Stages
    <3> HIDE DEF t
    <3>2. t.sent = <<>> /\ ~t.again
      BY <1>a, <3>1, TicketKnows DEF SentBy, At
    <3>3. InRounds(t.sent, 0) /\ Len(t.sent) = 0 /\ Undecoded(t.sent, 0)
      BY <3>2 DEF InRounds, Undecoded
    <3>4. SentBy(t)
      BY <3>1, <3>2, <3>3 DEF SentBy
    <3>5. Fits(j, t)
      BY <1>a, <3>1, <3>4 DEF Fits
    <3>6. QED BY <2>2, <3>1, <3>5 DEF t
  <2>3. QED BY <2>1, <2>2 DEF EncodeFile
<1>2. failures' \in 0..MaxFailures
  BY <1>a, TicketKnows, BoundsAssumption DEF EncodeFile, Fine, May
<1>3. UNCHANGED <<call, owner, active, pwRecord, files, started, encoders>>
  BY DEF EncodeFile, KeepsRecorder
<1>4. QED BY <1>1, <1>2, <1>3, <1>a, TicketKnows, TicketGoesOn

(* The recording itself is uploaded, or cannot be read. *)
LEMMA WavUploadKeeps ==
  ASSUME Inv, NEW j \in Recordings, WavUpload(j)
  PROVE  Inv'
<1>a. At(j, "read") /\ ~At(j, "none") /\ ~At(j, "encoding") /\ tickets[j].outcome = "none"
  <2>1. At(j, "read") /\ ~At(j, "none") /\ ~At(j, "encoding")
    BY DEF WavUpload, At
  <2>2. QED BY <2>1, TicketKnows DEF At
<1>1. \E t \in Ticket : Goes(j, t) /\ Fits(j, t)
  <2>1. CASE Uploads(j, "wav", DataEnd(files[j]))
    BY <1>a, <2>1, TicketKnows, UploadFits
  <2>2. CASE Ends(j, "Failed")
    BY <1>a, <2>2, TicketKnows, EndedFits
  <2>3. QED BY <2>1, <2>2 DEF WavUpload
<1>2. failures' \in 0..MaxFailures
  BY <1>a, TicketKnows, BoundsAssumption DEF WavUpload, Fine, May
<1>3. UNCHANGED <<call, owner, active, pwRecord, files, started, encoders>>
  BY DEF WavUpload, KeepsRecorder
<1>4. QED BY <1>1, <1>2, <1>3, <1>a, TicketKnows, TicketGoesOn

(* A request is answered, sent once more, or the last. *)
LEMMA SendKeeps ==
  ASSUME Inv, NEW j \in Recordings, Send(j)
  PROVE  Inv'
<1>a. At(j, "send") /\ ~At(j, "none") /\ ~At(j, "encoding") /\ tickets[j].outcome = "none"
  <2>1. At(j, "send") /\ ~At(j, "none") /\ ~At(j, "encoding")
    BY DEF Send, At
  <2>2. QED BY <2>1, TicketKnows DEF At
<1> DEFINE u == tickets[j]
<1>b. /\ u \in Ticket /\ u.at = "send" /\ SentBy(u) /\ u.outcome = "none"
      /\ u.sent \in Seq(Request) /\ u.again \in BOOLEAN
      /\ u.format \in {"webm", "wav"} /\ u.holds = files[j].samples /\ u.holds \in Nat
  <2>1. u \in Ticket /\ u.at = "send" /\ SentBy(u) /\ u.outcome = "none"
        /\ u.holds = files[j].samples
    BY <1>a, TicketKnows DEF At
  <2> HIDE DEF u
  <2>2. u.format \in {"webm", "wav"}
    BY <2>1 DEF SentBy
  <2>3. u.sent \in Seq(Request) /\ u.again \in BOOLEAN /\ u.holds \in Nat
    BY <2>1 DEF Ticket
  <2>4. QED BY <2>1, <2>2, <2>3
<1>1. \E t \in Ticket : Goes(j, t) /\ Fits(j, t)
  <2>1. CASE Ends(j, "Failed")
    BY <1>a, <2>1, TicketKnows, EndedFits
  <2>2. ASSUME NEW answer \in Answers,
               LET request == [format |-> u.format, holds |-> u.holds, answer |-> answer]
                   ticket == [u EXCEPT !.sent = Append(@, request)]
               IN \/ answer \in Status /\ Goes(j, [ticket EXCEPT !.at = "answered"])
                  \/ answer \in Broken /\ ~ticket.again /\ Goes(j, [ticket EXCEPT !.again = TRUE])
        PROVE  \E t \in Ticket : Goes(j, t) /\ Fits(j, t)
    <3> DEFINE request == [format |-> u.format, holds |-> u.holds, answer |-> answer]
               longer == Append(u.sent, request)
               ticket == [u EXCEPT !.sent = longer]
               yes == TRUE
    <3>1. request \in Request /\ request.format = u.format /\ request.answer = answer
      BY <1>b DEF Request
    <3> HIDE DEF request
    <3>2. /\ longer \in Seq(Request) /\ Len(longer) = Len(u.sent) + 1 /\ Len(u.sent) \in Nat
          /\ longer[Len(u.sent) + 1] = request
      BY <1>b, <3>1
    <3>3. PICK n \in 0..2 :
            /\ InRounds(longer, n)
            /\ request.format = "webm" => n = Len(longer)
            /\ ~u.again /\ request.format = "webm" => Len(longer) = 1
            /\ ~u.again /\ request.format = "wav" => Len(longer) = n + 1 /\ Undecoded(longer, n)
      <4> HIDE DEF u
      <4>1. QED BY <1>b, <3>1, NextInRounds
    <3>4. /\ ticket \in Ticket /\ ticket.at = "send" /\ ticket.format = u.format
          /\ ticket.again = u.again /\ ticket.sent = longer /\ ticket.outcome = "none"
          /\ ticket.holds = u.holds
      <4> HIDE DEF u, longer
      <4>1. QED BY <1>b, <3>2 DEF Ticket
    <3>5. yes \in BOOLEAN /\ yes
      OBVIOUS
    <3>6. \/ answer \in Status /\ Goes(j, [ticket EXCEPT !.at = "answered"])
          \/ answer \in Broken /\ ~ticket.again /\ Goes(j, [ticket EXCEPT !.again = yes])
      BY <2>2 DEF request
    <3> HIDE DEF longer, ticket, u, yes
    <3>7. CASE answer \in Status /\ Goes(j, [ticket EXCEPT !.at = "answered"])
      <4> DEFINE t == [ticket EXCEPT !.at = "answered"]
      <4>1. /\ t \in Ticket /\ t.at = "answered" /\ t.sent = longer /\ t.outcome = "none"
        BY <3>4 DEF Ticket, Stages
      <4> HIDE DEF t
      <4>2. SentBy(t)
        BY <3>2, <3>3, <4>1 DEF SentBy
      <4>3. Fits(j, t)
        BY <4>1, <4>2 DEF Fits
      <4>4. QED BY <3>7, <4>1, <4>3 DEF t
    <3>8. CASE answer \in Broken /\ ~ticket.again /\ Goes(j, [ticket EXCEPT !.again = yes])
      <4> DEFINE t == [ticket EXCEPT !.again = yes]
      <4>1. /\ t \in Ticket /\ t.at = "send" /\ t.sent = longer /\ t.outcome = "none"
            /\ t.again = yes /\ t.format = u.format /\ t.holds = u.holds
        BY <3>4, <3>5 DEF Ticket, Stages
      <4> HIDE DEF t
      <4>2. longer[Len(longer)].answer \in Broken /\ ~u.again /\ t.again
        BY <3>1, <3>2, <3>4, <3>5, <3>8, <4>1
      <4>3. ASSUME u.format = "webm" PROVE SentBy(t)
        <5>1. Len(longer) = 1 /\ n = 1 /\ OnItsWay(t, 0)
          BY <3>1, <3>3, <4>1, <4>2, <4>3 DEF OnItsWay
        <5>2. QED BY <3>3, <4>1, <4>3, <5>1 DEF SentBy
      <4>4. ASSUME u.format = "wav" PROVE SentBy(t)
        <5>1. Len(longer) = n + 1 /\ Undecoded(longer, n) /\ OnItsWay(t, n)
          BY <3>1, <3>3, <4>1, <4>2, <4>4 DEF OnItsWay
        <5>2. QED BY <3>3, <4>1, <4>4, <5>1 DEF SentBy
      <4>5. SentBy(t)
        BY <1>b, <4>3, <4>4
      <4>6. Fits(j, t)
        BY <1>b, <4>1, <4>5 DEF Fits
      <4>7. QED BY <3>8, <4>1, <4>6 DEF t
    <3>9. QED BY <3>6, <3>7, <3>8
  <2>3. QED BY <2>1, <2>2 DEF Send, FailedBeforeStatus
<1>2. failures' \in 0..MaxFailures
  <2>1. Fine \/ May("key") \/ May("network")
    BY DEF Send
  <2>2. failures \in 0..MaxFailures
    BY <1>a, TicketKnows
  <2>3. QED BY <2>1, <2>2, BoundsAssumption DEF Fine, May
<1>3. UNCHANGED <<call, owner, active, pwRecord, files, started, encoders>>
  BY DEF Send, KeepsRecorder
<1>4. QED BY <1>1, <1>2, <1>3, <1>a, TicketKnows, TicketGoesOn

(* An answer ends the ticket, or what could not be decoded goes as it is. *)
LEMMA AnsweredKeeps ==
  ASSUME Inv, NEW j \in Recordings, Answered(j)
  PROVE  Inv'
<1> DEFINE u == tickets[j]
           request == u.sent[Len(u.sent)]
<1>a. At(j, "answered") /\ ~At(j, "none") /\ ~At(j, "encoding") /\ u.outcome = "none"
  <2>1. At(j, "answered") /\ ~At(j, "none") /\ ~At(j, "encoding")
    BY DEF Answered, At
  <2>2. QED BY <2>1, TicketKnows DEF At
<1>b. u \in Ticket /\ SentBy(u) /\ u.at = "answered" /\ tickets \in [Recordings -> Ticket]
  BY <1>a, TicketKnows DEF At
<1>1. \E t \in Ticket : Goes(j, t) /\ Fits(j, t)
  <2>1. CASE RejectsUploadFormat(request)
             /\ Goes(j, [u EXCEPT !.at = "read", !.again = FALSE])
    <3> DEFINE no == FALSE
               t == [u EXCEPT !.at = "read", !.again = no]
    <3>1. no \in BOOLEAN /\ ~no
      OBVIOUS
    <3>2. Goes(j, t)
      BY <2>1
    <3> HIDE DEF no
    <3>3. /\ t \in Ticket /\ t.at = "read" /\ t.sent = u.sent /\ t.outcome = "none"
          /\ ~t.again
      <4>1. u.outcome = "none"
        BY <1>a
      <4> HIDE DEF u
      <4>2. QED BY <1>b, <3>1, <4>1 DEF Ticket, Stages
    <3> HIDE DEF t
    <3>4. PICK n \in 0..2 : InRounds(u.sent, n) /\ Len(u.sent) > 0
      BY <1>b DEF SentBy
    <3>6. n = Len(u.sent) /\ Undecoded(u.sent, n)
      <4>1. request.format = "webm" /\ request.answer = "undecodable"
        BY <2>1 DEF RejectsUploadFormat
      <4>2. n = Len(u.sent)
        BY <3>4, <4>1 DEF InRounds
      <4>3. QED BY <4>1, <4>2 DEF Undecoded
    <3>7. SentBy(t)
      BY <3>3, <3>4, <3>6 DEF SentBy
    <3>8. QED BY <3>2, <3>3, <3>7 DEF Fits
  <2>2. CASE Ends(j, "Text") \/ Ends(j, "Failed")
    BY <1>b, <2>2, EndedFits
  <2>3. CASE Ends(j, "NoSpeech") /\ IsNearSilent(j)
    BY <1>b, <2>3, EndedFits DEF IsNearSilent
  <2>4. QED BY <2>1, <2>2, <2>3 DEF Answered
<1>2. UNCHANGED <<call, owner, active, pwRecord, files, started, failures, encoders>>
  BY DEF Answered, recorderVars
<1>3. QED BY <1>1, <1>2, <1>a, TicketKnows, TicketGoesOn

(* From Recovery only what the daemon has nothing more to do with is sent. *)
LEMMA RetryKeeps ==
  ASSUME Inv, NEW j \in Recordings, Retry(j)
  PROVE  Inv'
<1>a. /\ tickets \in [Recordings -> Ticket] /\ failures \in 0..MaxFailures
      /\ UNCHANGED recorderVars
  BY DEF Inv, DataType, CallInv, CallType, Retry
<1>1. \E t \in Ticket : Goes(j, t) /\ Fits(j, t)
  <2>1. CASE Ends(j, "Text")
    BY <1>a, <2>1, EndedFits
  <2>2. CASE Goes(j, [NoTicket EXCEPT !.at = "file"])
    <3> DEFINE t == [NoTicket EXCEPT !.at = "file"]
    <3>1. /\ NoTicket \in Ticket /\ NoTicket.sent = <<>> /\ ~NoTicket.again
          /\ NoTicket.outcome = "none"
      BY BoundsAssumption DEF Ticket, NoTicket, Stages
    <3>2. t \in Ticket /\ t.at = "file" /\ t.sent = <<>> /\ ~t.again /\ t.outcome = "none"
      BY <3>1 DEF Ticket, Stages
    <3> HIDE DEF t
    <3>3. Fits(j, t)
      BY <3>2 DEF Fits, SentBy
    <3>4. QED BY <2>2, <3>2, <3>3 DEF t
  <2>3. QED BY <2>1, <2>2 DEF Retry
<1>2. ~At(j, "encoding") /\ IsOver(j) /\ files[j].samples > 0
      /\ (call.job = j => call.result = "failed")
  <2>1. CASE At(j, "ended")
    <3>1. ~At(j, "none") /\ ~At(j, "encoding")
      BY <2>1 DEF At
    <3>2. QED BY <3>1, TicketKnows
  <2>2. CASE /\ At(j, "none") /\ files[j].samples > 0 /\ pwRecord.job # j
             /\ call.job # j \/ call.result = "failed"
    <3>1. j <= started
      BY <2>2 DEF Inv, NothingYet, IsFresh, NoFile, CallInv, CallType, Recordings
    <3>2. call.job = j => call.do = "none"
      BY <2>2 DEF Inv, CallInv, Rests, Called, Spawned, Records, Stops, IsCaptured
    <3>3. QED BY <2>2, <3>1, <3>2 DEF IsOver, At
  <2>3. QED BY <2>1, <2>2 DEF Retry
<1>3. QED BY <1>a, <1>1, <1>2, TicketGoesOn DEF recorderVars

(* A captured recording gets a ticket, which takes over its encoder, or is dropped with it. *)
LEMMA NewTicketKeeps ==
  ASSUME Inv, NewTicket
  PROVE  Inv'
<1> DEFINE j == call.job
           stage == IF encoders[j].at = "none" THEN "file" ELSE "encoding"
           t == [NoTicket EXCEPT !.at = stage]
<1>a. /\ IsCaptured /\ j \in Recordings /\ call' = NoCall /\ tickets \in [Recordings -> Ticket]
      /\ encoders \in [Recordings -> EncoderOf]
  BY DEF Inv, DataType, NewTicket, Waits, CallInv, CallType, Call, Rests, Called, Spawned,
     Records, Stops, IsCaptured, Recordings
<1>b. UNCHANGED <<owner, active, pwRecord, files, started, failures>>
  BY DEF NewTicket
<1>c. \/ tickets' = [tickets EXCEPT ![j] = t] /\ UNCHANGED encoders
      \/ encoders' = [encoders EXCEPT ![j] = NoEncoder] /\ UNCHANGED tickets
  BY DEF NewTicket, Goes, Kills
<1>d. /\ t \in Ticket /\ t.at = stage /\ t.sent = <<>> /\ ~t.again /\ t.outcome = "none"
      /\ stage \in {"file", "encoding"}
      /\ stage = "file" => encoders[j].at = "none"
  <2>1. /\ NoTicket \in Ticket /\ NoTicket.sent = <<>> /\ ~NoTicket.again
        /\ NoTicket.outcome = "none"
    BY BoundsAssumption DEF Ticket, NoTicket, Stages
  <2>2. stage \in {"file", "encoding"} /\ (stage = "file" => encoders[j].at = "none")
    OBVIOUS
  <2> HIDE DEF stage
  <2>3. QED BY <2>1, <2>2 DEF Ticket, Stages
<1>e. Rests' /\ ~Called' /\ ~Spawned' /\ ~Records' /\ ~Stops' /\ ~IsCaptured'
  BY <1>a, <1>b DEF Rests, Called, Spawned, Records, Stops, IsCaptured, NoCall
<1>f. /\ NoEncoder \in EncoderOf /\ ~NoEncoder.told /\ NoEncoder.at = "none"
      /\ NoEncoder.ffmpeg = "gone"
  BY BoundsAssumption DEF NoEncoder, EncoderOf
<1>g. IsOver(j) /\ files[j].samples > 0
  BY <1>a DEF Inv, CallInv, FilesInv, IsOver, IsCaptured, NoProcess
<1> HIDE DEF t, stage
<1>1. CallInv'
  BY <1>a, <1>b, <1>e, BoundsAssumption DEF Inv, CallInv, CallType, NoCall, Call
<1>2. DataType'
  BY <1>b, <1>c, <1>d, <1>f DEF Inv, DataType
<1>3. NothingYet'
  BY <1>a, <1>b, <1>c, <1>e DEF Inv, NothingYet, IsFresh
<1>4. FilesInv'
  BY <1>b, <1>e DEF Inv, FilesInv, Running
<1>5. EncodersInv'
  BY <1>a, <1>b, <1>c, <1>d, <1>f DEF Inv, EncodersInv, IsOver, At, NoCall
<1>6. TicketsInv'
  <2>1. ASSUME NEW i \in Recordings
        PROVE  tickets'[i] = tickets[i] \/ (i = j /\ tickets'[i] = t)
    BY <1>a, <1>c
  <2>2. ASSUME NEW i \in Recordings PROVE (IsOver(i) => IsOver(i)') /\ call'.job # i
    BY <1>a, <1>b DEF IsOver, NoCall, Recordings
  <2>3. t.at \notin {"none", "send", "ended"} /\ t.outcome = "none"
    BY <1>d
  <2>4. QED BY <1>b, <1>g, <2>1, <2>2, <2>3 DEF Inv, TicketsInv, At
<1>7. SentInv'
  <2>1. SentBy(t)
    BY <1>d DEF SentBy
  <2>2. QED BY <1>a, <1>c, <2>1 DEF Inv, SentInv
<1>8. QED BY <1>1, <1>2, <1>3, <1>4, <1>5, <1>6, <1>7 DEF Inv

--------------------------------------------------------------------------------
(* The theorems *)

(* Nothing is recorded yet. *)
LEMMA InitHolds == Init => Inv
<1> SUFFICES ASSUME Init PROVE Inv
  OBVIOUS
<1>a. /\ NoTicket \in Ticket /\ NoTicket.sent = <<>> /\ ~NoTicket.again
      /\ NoTicket.outcome = "none" /\ NoTicket.at = "none"
  BY BoundsAssumption DEF Ticket, NoTicket, Stages
<1>b. /\ NoEncoder \in EncoderOf /\ ~NoEncoder.told /\ NoEncoder.at = "none"
      /\ NoEncoder.ffmpeg = "gone"
  BY BoundsAssumption DEF NoEncoder, EncoderOf
<1>c. NoFile \in File /\ ~NoFile.trailer /\ NoFile.samples = 0
  BY BoundsAssumption DEF NoFile, File
<1>d. call = NoCall /\ Rests
  BY DEF Init, RecorderInit, NoCall, Rests
<1>1. CallInv
  BY <1>d, BoundsAssumption DEF Init, RecorderInit, CallInv, CallType, Call, Process,
     NoProcess, NoCall
<1>2. DataType
  BY <1>a, <1>b, <1>c DEF Init, RecorderInit, DataType
<1>3. NothingYet
  BY DEF Init, RecorderInit, NothingYet, Spawned
<1>4. FilesInv
  BY <1>c, <1>d DEF Init, RecorderInit, FilesInv, Running, NoProcess, Rests, Records, Stops,
     IsCaptured
<1>5. EncodersInv
  BY <1>b DEF Init, RecorderInit, EncodersInv
<1>6. TicketsInv
  BY <1>a DEF Init, TicketsInv, At
<1>7. SentInv
  BY <1>a DEF Init, SentInv, SentBy
<1>8. QED BY <1>1, <1>2, <1>3, <1>4, <1>5, <1>6, <1>7 DEF Inv

(* Every step keeps the invariant. *)
LEMMA NextKeeps == Inv /\ [Next]_vars => Inv'
<1> SUFFICES ASSUME Inv, [Next]_vars PROVE Inv'
  OBVIOUS
<1>1. CASE RecorderNext /\ UNCHANGED <<tickets, retries>>
  <2>1. CASE PwRecordSteps
    BY <1>1, <2>1, CaptureKeeps, FinalizeKeeps, CrashKeeps DEF PwRecordSteps
  <2>2. CASE EncoderSteps
    BY <1>1, <2>2, EncoderKeeps DEF EncoderSteps
  <2>3. CASE OwnerSteps
    BY <1>1, <2>3, SpawnKeeps, FirstSamplesKeeps, NoSamplesKeeps, StartEncoderKeeps,
       TakeFinishKeeps, TailEndsKeeps, InterruptKeeps, StoppedKeeps, StopTimesOutKeeps
       DEF OwnerSteps
  <2>4. CASE Supervise \/ Begin \/ (\E tail \in BOOLEAN : Finish(tail))
    BY <1>1, <2>4, SuperviseKeeps, BeginKeeps, FinishKeeps
  <2>5. QED BY <1>1, <2>1, <2>2, <2>3, <2>4 DEF RecorderNext
<1>2. CASE NewTicket
  BY <1>2, NewTicketKeeps
<1>3. CASE TicketSteps
  BY <1>3, WaitForEncodingKeeps, EncodeFileKeeps, WavUploadKeeps, SendKeeps, AnsweredKeeps
     DEF TicketSteps
<1>4. CASE \E j \in Recordings : Retry(j)
  BY <1>4, RetryKeeps
<1>5. CASE UNCHANGED vars
  <2>1. UNCHANGED <<Rests, Called, Spawned, Records, Stops, IsCaptured>>
    BY <1>5 DEF vars, recorderVars, Rests, Called, Spawned, Records, Stops, IsCaptured
  <2>2. CallInv' /\ DataType' /\ NothingYet' /\ FilesInv'
    BY <1>5, <2>1 DEF Inv, vars, recorderVars, CallInv, CallType, DataType, NothingYet,
       IsFresh, FilesInv, Running
  <2>3. EncodersInv' /\ TicketsInv' /\ SentInv'
    BY <1>5 DEF Inv, vars, recorderVars, EncodersInv, TicketsInv, SentInv, IsOver, At
  <2>4. QED BY <2>2, <2>3 DEF Inv
<1>6. QED BY <1>1, <1>2, <1>3, <1>4, <1>5 DEF Next

(* The recorder, its encoders and the tickets fit together, however many recordings, failed
   steps and retries there are. *)
THEOREM TranscriptionInvariance == Spec => []Inv
<1>1. QED BY InitHolds, NextKeeps, PTL DEF Spec

(* What is uploaded is the whole recording and nothing else, and no recorder and no ffmpeg
   is left behind: src/crates/agentdictate-app/src/system.rs, opus_encoder.rs. *)
THEOREM UploadsAreWhole == Spec => []RecordingIsWhole
<1>1. Inv => UploadIsWhole
  BY DEF Inv, TicketsInv, UploadIsWhole
<1>2. Inv => NothingRunsUnowned
  <2> SUFFICES ASSUME Inv PROVE NothingRunsUnowned
    OBVIOUS
  <2>1. pwRecord.at # "gone" =>
          owner \in {"spawned", "tail", "interrupt", "exit"} \/ active.job = pwRecord.job
    BY DEF Inv, CallInv, Rests, Called, Spawned, Records, Stops, IsCaptured, NoProcess
  <2>2. QED BY <2>1 DEF Inv, EncodersInv, NothingRunsUnowned
<1>3. Inv => RecordingIsWhole
  BY <1>1, <1>2 DEF RecordingIsWhole
<1>4. QED BY <1>3, TranscriptionInvariance, PTL

(* Nothing is sent again after an answer that may have been paid for, and no speech is
   dropped as silence: src/crates/agentdictate-app/src/openai.rs, captured_audio.rs. *)
THEOREM AnswersKept == Spec => []AnswersAreKept
<1>1. Inv => TypeOK
  <2> SUFFICES ASSUME Inv PROVE TypeOK
    OBVIOUS
  <2>1. RecorderTypeOK
    BY DEF Inv, CallInv, CallType, DataType, RecorderTypeOK, Call, Active, Process, File,
       EncoderOf
  <2>2. ASSUME NEW j \in Recordings
        PROVE  /\ tickets[j].at \in Stages
               /\ tickets[j].format \in {"none", "webm", "wav"}
               /\ tickets[j].holds \in 0..MaxSamples + 1
               /\ tickets[j].sent \in Seq(Request)
               /\ tickets[j].outcome \in {"none", "Text", "NoSpeech", "Failed"}
    <3>1. tickets[j] \in Ticket
      BY DEF Inv, DataType
    <3>2. QED BY <3>1 DEF Ticket
  <2>3. QED BY <2>1, <2>2 DEF TypeOK, Request
<1>2. Inv => SentAgainOnlyUnanswered
  <2> SUFFICES ASSUME Inv, NEW j \in Recordings
               PROVE  \E n \in 0..2 :
                        tickets[j].sent \in Seq(Request) /\ InRounds(tickets[j].sent, n)
    BY RoundsAreShort DEF SentAgainOnlyUnanswered
  <2>1. tickets[j] \in Ticket /\ SentBy(tickets[j])
    BY DEF Inv, DataType, SentInv
  <2>2. tickets[j].sent \in Seq(Request)
    BY <2>1 DEF Ticket
  <2>3. QED BY <2>1, <2>2, AlwaysInRounds
<1>3. Inv => OnlySilenceIsDropped
  BY DEF Inv, TicketsInv, OnlySilenceIsDropped
<1>4. Inv => AnswersAreKept
  BY <1>1, <1>2, <1>3 DEF AnswersAreKept
<1>5. QED BY <1>4, TranscriptionInvariance, PTL
================================================================================
