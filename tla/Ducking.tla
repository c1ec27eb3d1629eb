--------------------------------- MODULE Ducking ---------------------------------
(* Lowering the output while the user dictates: PlaybackDucker of
   crates/agentdictate-linux/src/audio_ducking.rs, called by
   SystemRecordingController of crates/agentdictate-app/src/system.rs.

   A step is one call of pactl or one change of the journal file, by the worker
   that fades or by the daemon's thread.  Beside them the user sets volumes and
   picks outputs, and the process may die between any two steps.

   The volume of an output is how far it lies below what the user chose: 0 is the
   user's own choice, Full as low as a recording takes it.                      *)
EXTENDS Integers, FiniteSets

CONSTANTS
  Sinks,       \* outputs
  Full,        \* how far a recording lowers one
  MaxSteps,    \* bound: volume writes of one fade
  CallFailing,     \* the kinds of step that may fail
  MaxCallFailures  \* bound: failed steps and deaths

ASSUME FullAssumption == Full \in Nat \ {0}
ASSUME MaxStepsAssumption == MaxSteps \in Nat \ {0}
ASSUME CallFailingAssumption ==
  CallFailing \subseteq {"read", "write", "late", "save", "load", "die"}
ASSUME MaxCallFailuresAssumption == MaxCallFailures \in Nat

VARIABLES
  volume,     \* of every output
  default,    \* the default output
  enabled,    \* the setting audio_ducking_enabled
  recording,  \* the recorder runs
  journal,    \* the saved output in the state file, or None
  stash,      \* PlaybackDucker::saved: the output to restore
  worker,     \* PlaybackDucker::worker: the fade, or what is left of it
  caller,     \* what the daemon's thread is at
  torn,       \* history: outputs ever lowered without a record that said so
  callFailures \* history: failed steps and deaths so far

duckingVars ==
  <<volume, default, enabled, recording, journal, stash, worker, caller, torn,
    callFailures>>

Volume == 0..Full
None == [sink |-> "none"]
SavedOutput == [sink : Sinks, original : Volume, applied : Volume]

(* A running duck or fade: where it stands, the output it owns, the target and the
   writes left, what they lead to, whether a duck follows, whether it is done in
   place and heeds no cancel. *)
NoWorker == [at |-> "none"]
Worker ==
  [at : {"settle", "plan", "begin", "write", "keep", "forget", "ended"},
   own : SavedOutput \cup {None}, target : Volume, left : 0..MaxSteps,
   restoring : BOOLEAN, plan : BOOLEAN, patient : BOOLEAN, cancelled : BOOLEAN]

(* Where the daemon's thread stands: the call, whether it fades, what follows it. *)
Free == [at |-> "free", fade |-> FALSE, ends |-> "free"]
Ducks == [Free EXCEPT !.at = "duck"]
Restores(fade) == [Free EXCEPT !.at = "restore", !.fade = fade]
Drops == [Restores(FALSE) EXCEPT !.ends = "down"]
Down == [Free EXCEPT !.at = "down"]

DuckingTypeOK ==
  /\ volume \in [Sinks -> Volume]
  /\ default \in Sinks
  /\ enabled \in BOOLEAN
  /\ recording \in BOOLEAN
  /\ journal \in SavedOutput \cup {None}
  /\ stash \in SavedOutput \cup {None}
  /\ worker \in Worker \cup {NoWorker}
  /\ caller \in [at : {"free", "duck", "restore", "ramp", "inline", "down"},
                 fade : BOOLEAN, ends : {"free", "down"}]
  /\ torn \subseteq Sinks
  /\ callFailures \in 0..MaxCallFailures

DuckingInit ==
  /\ volume = [s \in Sinks |-> 0]
  /\ default \in Sinks
  /\ enabled \in BOOLEAN
  /\ recording = FALSE
  /\ journal = None
  /\ stash = None
  /\ worker = NoWorker
  /\ caller = Free
  /\ torn = {}
  /\ callFailures = 0

CallMay(kind) ==
  /\ kind \in CallFailing /\ callFailures < MaxCallFailures
  /\ callFailures' = callFailures + 1
CallFine == UNCHANGED callFailures

--------------------------------------------------------------------------------
(* The worker *)

Works(stage) == worker.at = stage
WorkerEnds(own) == worker' = [worker EXCEPT !.at = "ended", !.own = own]

(* Whether the output still has the volume that was written last.  Another volume
   is the user's choice; two choices may differ, though both are 0 here. *)
StillDucked(own) == volume[own.sink] = own.applied
UserChanged(own) == volume[own.sink] # own.applied \/ volume[own.sink] = 0

(* The journal is removed; a removal that fails is only logged. *)
Forget ==
  \/ journal' = None /\ CallFine
  \/ journal # None /\ CallMay("save") /\ UNCHANGED journal

(* What an earlier restore could not put back is settled before anything else. *)
Settle ==
  /\ Works("settle")
  /\ \/ /\ StillDucked(worker.own)
        /\ worker' = [worker EXCEPT !.at = "write", !.target = worker.own.original,
                                    !.left = 1, !.restoring = TRUE, !.patient = TRUE]
        /\ UNCHANGED journal /\ CallFine
     \/ /\ UserChanged(worker.own)
        /\ Forget
        /\ worker' = [worker EXCEPT !.at = "plan", !.own = None]
     \/ CallMay("read") /\ WorkerEnds(worker.own) /\ UNCHANGED journal
  /\ UNCHANGED <<volume, default, enabled, recording, stash, caller, torn>>

(* The default output is read, with its volume, unless ducking is off or the owner
   has cancelled. *)
Snapshot ==
  /\ Works("plan")
  /\ \/ (~worker.plan \/ worker.cancelled) /\ WorkerEnds(None) /\ CallFine
     \/ /\ worker.plan /\ ~worker.cancelled
        /\ worker' = [worker EXCEPT !.at = "begin",
                        !.own = [sink |-> default, original |-> volume[default],
                                 applied |-> volume[default]]]
        /\ CallFine
     \/ worker.plan /\ ~worker.cancelled /\ CallMay("read") /\ WorkerEnds(None)
  /\ UNCHANGED <<volume, default, enabled, recording, journal, stash, caller, torn>>

FadeDown(steps) ==
  [worker EXCEPT !.at = "write", !.target = Full, !.left = steps, !.restoring = FALSE,
                 !.patient = FALSE]

(* Mutant of Begin: the first record is the one of the first lowered volume. *)
BeginUnrecorded ==
  /\ Works("begin")
  /\ \E n \in 1..MaxSteps : worker' = FadeDown(n)
  /\ UNCHANGED <<volume, default, enabled, recording, journal, stash, caller, torn,
                 callFailures>>

(* "Without a durable record, a crash could leave the output ducked." *)
Begin ==
  /\ Works("begin")
  /\ \/ journal' = worker.own /\ CallFine /\ \E n \in 1..MaxSteps : worker' = FadeDown(n)
     \/ CallMay("save") /\ UNCHANGED journal /\ WorkerEnds(None)
  /\ UNCHANGED <<volume, default, enabled, recording, stash, caller, torn>>

(* The volumes of a step: the last one is the target, the others lie between. *)
RampPlan ==
  IF worker.left = 1 THEN {worker.target}
  ELSE {v \in Volume : \/ worker.own.applied <= v /\ v <= worker.target
                       \/ worker.target <= v /\ v <= worker.own.applied}

(* Before each write a fade waits, and stops once the owner has cancelled. *)
Heeds == worker.cancelled /\ ~worker.patient

(* Mutant of StopFade: a cancelled fade hands back nothing. *)
StopFadeForgetting ==
  /\ Works("write")
  /\ Heeds
  /\ WorkerEnds(None)
  /\ UNCHANGED <<volume, default, enabled, recording, journal, stash, caller, torn,
                 callFailures>>

StopFade ==
  /\ Works("write")
  /\ Heeds
  /\ WorkerEnds(worker.own)
  /\ UNCHANGED <<volume, default, enabled, recording, journal, stash, caller, torn,
                 callFailures>>

(* The step's volume is written.  A call that runs out of its second is killed and
   counts as failed, though the sound server may have carried it out ("late"). *)
Write ==
  /\ Works("write")
  /\ ~Heeds
  /\ LET sink == worker.own.sink
         restored == worker.restoring /\ worker.left = 1 IN
     \/ /\ \E v \in RampPlan :
             /\ volume' = [volume EXCEPT ![sink] = v]
             /\ worker' = [worker EXCEPT !.at = IF restored THEN "forget" ELSE "keep",
                                         !.own.applied = v]
        /\ UNCHANGED torn /\ CallFine
     \/ CallMay("write") /\ WorkerEnds(worker.own) /\ UNCHANGED <<volume, torn>>
     \/ /\ CallMay("late") /\ WorkerEnds(worker.own)
        /\ \E v \in RampPlan : volume' = [volume EXCEPT ![sink] = v]
        /\ torn' = torn \cup {sink}
  /\ UNCHANGED <<default, enabled, recording, journal, stash, caller>>

(* Mutant of Keep: one step more than the plan has. *)
KeepPastTheEnd ==
  /\ Works("keep")
  /\ journal' = worker.own /\ CallFine
  /\ worker' = [worker EXCEPT !.left = worker.left - 1,
                              !.at = IF worker.left = 0 THEN "ended" ELSE "write"]
  /\ UNCHANGED <<volume, default, enabled, recording, stash, caller, torn>>

(* The journal follows every write that does not restore; a failure is logged. *)
Keep ==
  /\ Works("keep")
  /\ \/ journal' = worker.own /\ CallFine
     \/ CallMay("save") /\ UNCHANGED journal
  /\ worker' = [worker EXCEPT !.left = worker.left - 1,
                              !.at = IF worker.left = 1 THEN "ended" ELSE "write"]
  /\ UNCHANGED <<volume, default, enabled, recording, stash, caller, torn>>

(* The original volume is back; a duck may follow. *)
ForgetRestored ==
  /\ Works("forget")
  /\ Forget
  /\ worker' = [worker EXCEPT !.own = None,
                              !.at = IF worker.plan THEN "plan" ELSE "ended"]
  /\ UNCHANGED <<volume, default, enabled, recording, stash, caller, torn>>

WorkerSteps ==
  Settle \/ Snapshot \/ Begin \/ StopFade \/ Write \/ Keep \/ ForgetRestored

--------------------------------------------------------------------------------
(* The daemon's thread *)

CallerAt(place) == caller.at = place
Returns == caller' = [Free EXCEPT !.at = caller.ends]

(* A recording ducks, its end restores, and so does switching ducking off. *)
StartRecording ==
  /\ CallerAt("free")
  /\ ~recording
  /\ recording' = TRUE
  /\ caller' = Ducks
  /\ UNCHANGED <<volume, default, enabled, journal, stash, worker, torn, callFailures>>

EndRecording ==
  /\ CallerAt("free")
  /\ recording
  /\ recording' = FALSE
  /\ caller' = Restores(TRUE)
  /\ UNCHANGED <<volume, default, enabled, journal, stash, worker, torn, callFailures>>

UpdateSettings ==
  /\ CallerAt("free")
  /\ enabled' = ~enabled
  /\ caller' = IF enabled THEN Restores(TRUE) ELSE Free
  /\ UNCHANGED <<volume, default, recording, journal, stash, worker, torn,
                 callFailures>>

(* The process ends: dropping the ducker restores at once. *)
Drop ==
  /\ CallerAt("free")
  /\ ~recording
  /\ caller' = Drops
  /\ UNCHANGED <<volume, default, enabled, recording, journal, stash, worker, torn,
                 callFailures>>

(* stop_worker: the worker is cancelled, and hands back what it owned. *)
StopsWorker == CallerAt("duck") \/ CallerAt("restore")

CancelWorker ==
  /\ StopsWorker
  /\ worker # NoWorker
  /\ ~worker.cancelled
  /\ worker' = [worker EXCEPT !.cancelled = TRUE]
  /\ UNCHANGED <<volume, default, enabled, recording, journal, stash, caller, torn,
                 callFailures>>

(* Mutant of JoinWorker: the owner goes on with what it had before. *)
JoinForgetting ==
  /\ StopsWorker
  /\ Works("ended") /\ worker.cancelled
  /\ worker' = NoWorker
  /\ UNCHANGED <<volume, default, enabled, recording, journal, stash, caller, torn,
                 callFailures>>

JoinWorker ==
  /\ StopsWorker
  /\ Works("ended") /\ worker.cancelled
  /\ worker' = NoWorker
  /\ stash' = worker.own
  /\ UNCHANGED <<volume, default, enabled, recording, journal, caller, torn,
                 callFailures>>

(* A new worker settles what is saved and ducks if that is on.  When no thread can
   be started the same work is done in place, and nothing cancels it. *)
Duck ==
  /\ CallerAt("duck")
  /\ worker = NoWorker
  /\ IF ~enabled /\ stash = None THEN Returns /\ UNCHANGED <<stash, worker>>
     ELSE /\ worker' = [at |-> IF stash = None THEN "plan" ELSE "settle", own |-> stash,
                        target |-> 0, left |-> 0, restoring |-> FALSE, plan |-> enabled,
                        patient |-> FALSE, cancelled |-> FALSE]
          /\ stash' = None
          /\ Returns \/ caller' = [caller EXCEPT !.at = "inline"]
  /\ UNCHANGED <<volume, default, enabled, recording, journal, torn, callFailures>>

(* Restoring looks first whether the user has changed the volume. *)
Restore ==
  /\ CallerAt("restore")
  /\ worker = NoWorker
  /\ \/ stash = None /\ Returns /\ UNCHANGED <<journal, stash>> /\ CallFine
     \/ /\ stash # None /\ StillDucked(stash)
        /\ caller' = [caller EXCEPT !.at = "ramp"]
        /\ UNCHANGED <<journal, stash>> /\ CallFine
     \/ stash # None /\ UserChanged(stash) /\ Forget /\ stash' = None /\ Returns
     \/ stash # None /\ CallMay("read") /\ Returns /\ UNCHANGED <<journal, stash>>
  /\ UNCHANGED <<volume, default, enabled, recording, worker, torn>>

(* With a fade a worker restores; otherwise, or without a thread, one write does. *)
Ramp ==
  /\ CallerAt("ramp")
  /\ \E n \in 1..MaxSteps, inPlace \in BOOLEAN :
       /\ inPlace => n = 1
       /\ caller.fade \/ inPlace
       /\ worker' = [at |-> "write", own |-> stash, target |-> stash.original, left |-> n,
                     restoring |-> TRUE, plan |-> FALSE, patient |-> inPlace,
                     cancelled |-> FALSE]
       /\ IF inPlace THEN caller' = [caller EXCEPT !.at = "inline"] ELSE Returns
  /\ stash' = None
  /\ UNCHANGED <<volume, default, enabled, recording, journal, torn, callFailures>>

InlineDone ==
  /\ CallerAt("inline")
  /\ Works("ended")
  /\ worker' = NoWorker
  /\ stash' = worker.own
  /\ Returns
  /\ UNCHANGED <<volume, default, enabled, recording, journal, torn, callFailures>>

Lowered == {s \in Sinks : volume[s] > 0}
Records(r, s) == r # None /\ r.sink = s /\ r.applied = volume[s]
Unrecorded == {s \in Lowered : ~Records(journal, s)}

(* The process has ended, with what it could not restore in the journal, or dies. *)
Leave ==
  /\ CallerAt("down")
  /\ stash # None
  /\ stash' = None
  /\ torn' = torn \cup Unrecorded
  /\ UNCHANGED <<volume, default, enabled, recording, journal, worker, caller,
                 callFailures>>

(* After a death an output whose volume is not what the journal says was written
   last stays lowered: the next start takes it for the user's choice. *)
Die ==
  /\ ~CallerAt("down")
  /\ CallMay("die")
  /\ recording' = FALSE
  /\ stash' = None
  /\ worker' = NoWorker
  /\ caller' = Down
  /\ torn' = torn \cup Unrecorded
  /\ UNCHANGED <<volume, default, enabled, journal>>

(* The next process opens the ducker: it loads the journal and restores at once. *)
Open ==
  /\ CallerAt("down")
  /\ stash = None
  /\ \/ stash' = journal /\ UNCHANGED torn /\ CallFine
     \/ CallMay("load") /\ UNCHANGED stash /\ torn' = torn \cup Lowered
  /\ caller' = Restores(FALSE)
  /\ UNCHANGED <<volume, default, enabled, recording, journal, worker>>

CallerSteps ==
  CancelWorker \/ JoinWorker \/ Duck \/ Restore \/ Ramp \/ InlineDone \/ Leave \/ Open

--------------------------------------------------------------------------------
(* The user *)

SetVolume(s) ==
  /\ s \in Lowered
  /\ volume' = [volume EXCEPT ![s] = 0]
  /\ UNCHANGED <<default, enabled, recording, journal, stash, worker, caller, torn,
                 callFailures>>

PickOutput(s) ==
  /\ default # s
  /\ default' = s
  /\ UNCHANGED <<volume, enabled, recording, journal, stash, worker, caller, torn,
                 callFailures>>

DuckingNext ==
  \/ WorkerSteps \/ CallerSteps
  \/ StartRecording \/ EndRecording \/ UpdateSettings \/ Drop \/ Die
  \/ \E s \in Sinks : SetVolume(s) \/ PickOutput(s)

(* The threads go on; nothing makes the user act, or a step fail. *)
DuckingFairness == WF_duckingVars(WorkerSteps) /\ WF_duckingVars(CallerSteps)
DuckingSpec == DuckingInit /\ [][DuckingNext]_duckingVars /\ DuckingFairness

--------------------------------------------------------------------------------
(* Properties *)

(* An output below the volume its user chose is owned by the running process: one
   record, in `stash` or with the worker, names it with the volume it has now and
   the one to restore, so that a lowered volume is neither forgotten nor, after a
   restore that was cancelled or failed, taken for the user's own.  Excepted are
   outputs lowered by a call that was reported as failed, and those a death left
   between a write and the journal's. *)
LoweredIsOwned ==
  ~CallerAt("down") =>
    \A s \in Lowered \ torn :
      \E r \in {stash} \cup (IF worker = NoWorker THEN {} ELSE {worker.own}) :
        Records(r, s) /\ r.original = 0

(* "Without a durable record, a crash could leave the output ducked": in every
   state the journal holds the volume to restore of a lowered output, also when
   saving one of the later steps has failed. *)
LoweredIsRecorded ==
  \A s \in Lowered \ torn : journal # None /\ journal.sink = s /\ journal.original = 0

(* Unless a step fails, the user's volume comes back after a recording, also when
   quick recordings cancel each other's fades and over restarts, as long as the
   setting is not switched for ever. *)
VolumeComesBack ==
  <>[]enabled \/ <>[]~enabled =>
    \A s \in Sinks :
      (~recording /\ s \in Lowered /\ callFailures = 0)
        ~> (recording \/ s \notin Lowered \/ callFailures > 0)

(* "so a daemon that dies mid-recording can put it back at its next start": a death
   leaves no output lowered without a record the next start acts on. *)
DeathIsRecoverable == torn = {}

================================================================================
