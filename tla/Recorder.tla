--------------------------------- MODULE Recorder --------------------------------
(* Capturing a dictation: the recorder owner thread of
   crates/agentdictate-app/src/system.rs, pw-record as
   crates/agentdictate-linux/src/recorder.rs runs it, and the ffmpeg that encodes the
   recording while it is written (opus_encoder.rs).

   The daemon's thread calls the owner and waits.  The owner, pw-record, ffmpeg and
   the thread that feeds it run beside each other.  A recording's file is the number
   of its samples, whether its header has their number, and whether pw-record wrote
   a chunk behind them.                                                           *)
EXTENDS Integers, FiniteSets

CONSTANTS
  MaxRecordings, \* bound: recordings, numbered in the order of their starts
  MaxSamples,    \* bound: samples of a recording
  Silent,        \* the recordings of nothing but near-silence
  Failing,       \* the kinds of step that may fail
  MaxFailures    \* bound: failed steps

ASSUME BoundsAssumption ==
  {MaxRecordings, MaxSamples, MaxFailures} \subseteq Nat \ {0}
ASSUME SilentAssumption == Silent \subseteq 1..MaxRecordings
ASSUME FailingAssumption ==
  Failing \subseteq {"spawn", "late", "crash", "interrupt", "encoder", "encode", "read",
                     "key", "network"}

VARIABLES
  call,     \* what the daemon's thread waits for: a start, a finish, or nothing
  owner,    \* where the owner thread stands
  active,   \* its ActiveRecording, or NoRecording
  pwRecord, \* the process that records
  files,    \* the recordings
  encoders, \* the encoder of each recording
  started,  \* recordings so far
  failures

recorderVars ==
  <<call, owner, active, pwRecord, files, encoders, started, failures>>

Recordings == 1..MaxRecordings
NoCall == [do |-> "none", job |-> 0, tail |-> FALSE, result |-> "none"]
NoRecording == [job |-> 0]
NoProcess == [job |-> 0, at |-> "gone"]
NoFile == [samples |-> 0, trailer |-> FALSE, sized |-> FALSE]
NoEncoder == [at |-> "none", told |-> FALSE, fed |-> 0, ffmpeg |-> "gone"]

RecorderTypeOK ==
  /\ call.do \in {"none", "start", "finish"}
  /\ owner \in {"free", "spawned", "ready", "tail", "interrupt", "exit"}
  /\ active \in {NoRecording} \cup
       [job : Recordings, seen : 0..MaxSamples, reported : BOOLEAN]
  /\ pwRecord \in [job : 0..MaxRecordings, at : {"gone", "runs", "interrupted", "exited"}]
  /\ files \in [Recordings -> [samples : 0..MaxSamples, trailer : BOOLEAN,
                               sized : BOOLEAN]]
  /\ encoders \in [Recordings ->
       [at : {"none", "feeding", "fed", "failed"}, told : BOOLEAN,
        fed : 0..MaxSamples + 1, ffmpeg : {"gone", "runs", "done", "died"}]]
  /\ started \in 0..MaxRecordings /\ failures \in 0..MaxFailures

RecorderInit ==
  /\ call = NoCall /\ owner = "free" /\ active = NoRecording /\ pwRecord = NoProcess
  /\ files = [j \in Recordings |-> NoFile]
  /\ encoders = [j \in Recordings |-> NoEncoder]
  /\ started = 0 /\ failures = 0

May(kind) == kind \in Failing /\ failures < MaxFailures /\ failures' = failures + 1
Fine == UNCHANGED failures

--------------------------------------------------------------------------------
(* pw-record *)

Running == pwRecord.at \in {"runs", "interrupted"}
Length(f) == f.samples + IF f.trailer THEN 1 ELSE 0

(* data_end: the end of the data chunk, or of a file whose header has no length. *)
DataEnd(f) == IF f.sized THEN f.samples ELSE Length(f)

Capture ==
  /\ Running /\ files[pwRecord.job].samples < MaxSamples
  /\ files' = [files EXCEPT ![pwRecord.job].samples = @ + 1]
  /\ UNCHANGED <<call, owner, active, pwRecord, encoders, started, failures>>

(* It ends by itself or interrupted, writing the header and, maybe, a last chunk. *)
Finalize ==
  /\ Running
  /\ pwRecord' = [pwRecord EXCEPT !.at = "exited"]
  /\ \E trailer \in BOOLEAN :
       files' = [files EXCEPT ![pwRecord.job].sized = files[pwRecord.job].samples > 0,
                              ![pwRecord.job].trailer = trailer]
  /\ \/ pwRecord.at = "interrupted" /\ Fine
     \/ pwRecord.at = "runs" /\ May("crash")
  /\ UNCHANGED <<call, owner, active, encoders, started>>

Crash ==
  /\ Running /\ May("crash")
  /\ pwRecord' = [pwRecord EXCEPT !.at = "exited"]
  /\ UNCHANGED <<call, owner, active, files, encoders, started>>

PwRecordSteps == Capture \/ Finalize \/ Crash

--------------------------------------------------------------------------------
(* The encoder *)

Encoder(j, at) == encoders' = [encoders EXCEPT ![j].at = at]

(* ffmpeg gets what was appended; a dead one breaks the pipe. *)
Feed(j) ==
  /\ encoders[j].at = "feeding" /\ ~encoders[j].told
  /\ IF encoders[j].ffmpeg = "died" THEN Encoder(j, "failed")
     ELSE encoders' = [encoders EXCEPT ![j].fed = Length(files[j])]
  /\ UNCHANGED <<call, owner, active, pwRecord, files, started, failures>>

(* Mutant of FeedRest: everything up to the end of the file is handed over. *)
FeedToTheEnd(j) ==
  /\ encoders[j].at = "feeding" /\ encoders[j].told
  /\ encoders' = [encoders EXCEPT ![j].at = "fed", ![j].fed = Length(files[j])]
  /\ UNCHANGED <<call, owner, active, pwRecord, files, started, failures>>

(* Told that the file is finalized, it hands over the rest of the data chunk. *)
FeedRest(j) ==
  /\ encoders[j].at = "feeding" /\ encoders[j].told
  /\ IF encoders[j].ffmpeg = "died" \/ encoders[j].fed > DataEnd(files[j])
     THEN Encoder(j, "failed")
     ELSE encoders' = [encoders EXCEPT ![j].at = "fed", ![j].fed = DataEnd(files[j])]
  /\ UNCHANGED <<call, owner, active, pwRecord, files, started, failures>>

(* With its input closed, whole or not, ffmpeg writes what it has and exits. *)
FfmpegEnds(j) ==
  /\ encoders[j].ffmpeg = "runs"
  /\ \/ /\ encoders[j].at \in {"fed", "failed"} /\ Fine
        /\ encoders' = [encoders EXCEPT ![j].ffmpeg = "done"]
     \/ May("encode") /\ encoders' = [encoders EXCEPT ![j].ffmpeg = "died"]
  /\ UNCHANGED <<call, owner, active, pwRecord, files, started>>

EncoderSteps == \E j \in Recordings : Feed(j) \/ FeedRest(j) \/ FfmpegEnds(j)

--------------------------------------------------------------------------------
(* The owner thread *)

Replies(result) == call' = [call EXCEPT !.do = "none", !.result = result]
Gone == pwRecord' = NoProcess

(* pw-record is started on a file that is not there yet. *)
Spawn ==
  /\ owner = "free" /\ call.do = "start" /\ active = NoRecording
  /\ \/ /\ pwRecord' = [job |-> call.job, at |-> "runs"]
        /\ owner' = "spawned" /\ UNCHANGED call /\ Fine
     \/ May("spawn") /\ Replies("failed") /\ UNCHANGED <<owner, pwRecord>>
  /\ UNCHANGED <<active, files, encoders, started>>

(* Samples past the header, of a process that still runs. *)
FirstSamples ==
  /\ owner = "spawned" /\ Running /\ files[call.job].samples > 0
  /\ active' = [job |-> call.job, seen |-> 0, reported |-> FALSE]
  /\ owner' = "ready"
  /\ Replies("recording")
  /\ UNCHANGED <<pwRecord, files, encoders, started, failures>>

(* Mutant of NoSamples: only the deadline is looked at, and it has room. *)
NoSamplesAtTheDeadline ==
  /\ owner = "spawned"
  /\ pwRecord.at # "exited" /\ May("late")
  /\ Gone /\ owner' = "free" /\ Replies("failed")
  /\ UNCHANGED <<active, files, encoders, started>>

(* It ended, or has captured nothing by the deadline; it is stopped all the same. *)
NoSamples ==
  /\ owner = "spawned"
  /\ \/ pwRecord.at = "exited" /\ Fine
     \/ pwRecord.at # "exited" /\ May("late")
  /\ Gone /\ owner' = "free" /\ Replies("failed")
  /\ UNCHANGED <<active, files, encoders, started>>

(* The encoder starts after the reply, or not at all. *)
StartEncoder ==
  /\ owner = "ready"
  /\ \/ Fine /\ encoders' = [encoders EXCEPT ![active.job] =
                               [NoEncoder EXCEPT !.at = "feeding", !.ffmpeg = "runs"]]
     \/ May("encoder") /\ UNCHANGED encoders
  /\ owner' = "free"
  /\ UNCHANGED <<call, active, pwRecord, files, started>>

(* One event of a recording is sent to the daemon. *)
Report == active' = [active EXCEPT !.reported = TRUE]

(* Mutant of Supervise: a recorder that exited is looked for in a grown file only. *)
SuperviseGrowth ==
  /\ owner = "free" /\ active # NoRecording /\ ~active.reported
  /\ LET samples == files[active.job].samples IN
     \/ /\ pwRecord.at # "exited" /\ samples > active.seen
        /\ active' = [active EXCEPT !.seen = samples]
     \/ pwRecord.at # "exited" /\ samples = active.seen /\ Report
  /\ UNCHANGED <<call, owner, pwRecord, files, encoders, started, failures>>

(* Every tick, until an event was reported: an exit goes before a stall, and both
   before the maximum length, which may be reached at any time. *)
Supervise ==
  /\ owner = "free" /\ active # NoRecording /\ ~active.reported
  /\ LET samples == files[active.job].samples IN
     \/ pwRecord.at = "exited" /\ Report
     \/ /\ pwRecord.at # "exited" /\ samples > active.seen
        /\ active' = [active EXCEPT !.seen = samples]
     \/ pwRecord.at # "exited" /\ samples = active.seen /\ Report
     \/ pwRecord.at # "exited" /\ Report
  /\ UNCHANGED <<call, owner, pwRecord, files, encoders, started, failures>>

(* Finishing takes the recording away, whatever comes of it. *)
TakeFinish ==
  /\ owner = "free" /\ call.do = "finish" /\ active.job = call.job
  /\ active' = NoRecording
  /\ owner' = IF call.tail THEN "tail" ELSE "interrupt"
  /\ UNCHANGED <<call, pwRecord, files, encoders, started, failures>>

(* The tail ends with its time, or with the process. *)
TailEnds ==
  /\ owner = "tail"
  /\ owner' = "interrupt"
  /\ UNCHANGED <<call, active, pwRecord, files, encoders, started, failures>>

(* Mutant of Fails: the encoder is left behind. *)
FailsLeaving ==
  Gone /\ owner' = "free" /\ Replies("failed") /\ UNCHANGED encoders

(* A recording that cannot be stopped is dropped: its encoder is killed. *)
Fails ==
  /\ Gone /\ owner' = "free" /\ Replies("failed")
  /\ encoders' = [encoders EXCEPT ![call.job] = NoEncoder]

Interrupt ==
  /\ owner = "interrupt"
  /\ \/ /\ pwRecord' = IF Running THEN [pwRecord EXCEPT !.at = "interrupted"] ELSE pwRecord
        /\ owner' = "exit" /\ UNCHANGED <<call, encoders>> /\ Fine
     \/ Running /\ May("interrupt") /\ Fails
  /\ UNCHANGED <<active, files, started>>

(* Once pw-record has exited the encoder is told, and handed to the daemon. *)
Stopped ==
  /\ owner = "exit" /\ pwRecord.at = "exited"
  /\ Gone /\ owner' = "free" /\ Replies("captured")
  /\ encoders' = [encoders EXCEPT ![call.job].told = TRUE]
  /\ UNCHANGED <<active, files, started, failures>>

StopTimesOut ==
  /\ owner = "exit" /\ pwRecord.at # "exited" /\ May("late")
  /\ Fails
  /\ UNCHANGED <<active, files, started>>

OwnerSteps ==
  \/ Spawn \/ FirstSamples \/ NoSamples \/ StartEncoder
  \/ TakeFinish \/ TailEnds \/ Interrupt \/ Stopped \/ StopTimesOut

--------------------------------------------------------------------------------
(* The daemon's calls *)

Waits == call.do # "none"
IsRecording == ~Waits /\ call.result = "recording"

Begin ==
  /\ ~Waits /\ call.result \in {"none", "failed"}
  /\ started < MaxRecordings
  /\ started' = started + 1
  /\ call' = [do |-> "start", job |-> started', tail |-> FALSE, result |-> "none"]
  /\ UNCHANGED <<owner, active, pwRecord, files, encoders, failures>>

(* To transcribe with a tail; to abort a start, discard or preserve without one. *)
Finish(tail) ==
  /\ IsRecording
  /\ call' = [do |-> "finish", job |-> call.job, tail |-> tail, result |-> "none"]
  /\ UNCHANGED <<owner, active, pwRecord, files, encoders, started, failures>>

RecorderNext ==
  \/ PwRecordSteps \/ EncoderSteps \/ OwnerSteps \/ Supervise
  \/ Begin
  \/ \E tail \in BOOLEAN : Finish(tail)

================================================================================
