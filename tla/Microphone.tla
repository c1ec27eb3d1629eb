--------------------------------- MODULE Microphone ---------------------------------
(* The Setup screen's microphone test: Microphone of
   crates/agentdictate-app/src/microphone_test.rs, run on the thread of the session that
   asks for it, with the recorder it starts (spawn_recording_group of
   crates/agentdictate-linux/src/command.rs).

   Every test records into the same file.  The daemon may die between any two steps; the
   kernel then interrupts a recorder that had armed its death signal in time.            *)
EXTENDS Integers

CONSTANTS
  Sessions,   \* clients; each asks for one test
  Nobody,
  TestFailing,    \* the kinds of step that may fail
  MaxTestFailures \* bound: failed steps and deaths

ASSUME NobodyAssumption == Nobody \notin Sessions
ASSUME TestBoundsAssumption ==
  /\ TestFailing \subseteq {"spawn", "crash", "late", "read", "die"}
  /\ MaxTestFailures \in Nat

VARIABLES
  up,       \* the daemon runs
  busy,     \* the session that holds Microphone::busy
  test,     \* where each session's test stands
  sound,    \* the recorder of each session's test
  testFile, \* whose recorder wrote microphone-test.wav, or Nobody
  heard,    \* whose audio each test listens to
  stray,    \* history: a recorder of a dead daemon created the file after the next start
  testFailures

testVars == <<up, busy, test, sound, testFile, heard, stray, testFailures>>

Before == {"idle", "waits"}
After == {"done", "cut"}
NoSound == [at |-> "none", orphan |-> FALSE, interrupted |-> FALSE, wrote |-> FALSE]
Listens(s) == sound[s].at \in {"forked", "armed", "runs"}

TestMay(kind) ==
  /\ kind \in TestFailing /\ testFailures < MaxTestFailures
  /\ testFailures' = testFailures + 1
TestFine == UNCHANGED testFailures

MicrophoneTypeOK ==
  /\ up \in BOOLEAN /\ busy \in Sessions \cup {Nobody}
  /\ test \in [Sessions -> Before \cup After \cup
                 {"clears", "forks", "spawns", "ready", "opens", "unlinks", "listens",
                  "stops", "exits", "returns"}]
  /\ sound \in [Sessions -> [at : {"none", "forked", "armed", "runs", "ended"},
                             orphan : BOOLEAN, interrupted : BOOLEAN, wrote : BOOLEAN]]
  /\ testFile \in Sessions \cup {Nobody}
  /\ heard \in [Sessions -> Sessions \cup {Nobody}]
  /\ stray \in BOOLEAN /\ testFailures \in 0..MaxTestFailures

MicrophoneInit ==
  /\ up = TRUE /\ busy = Nobody
  /\ test = [s \in Sessions |-> "idle"]
  /\ sound = [s \in Sessions |-> NoSound]
  /\ testFile = Nobody /\ heard = [s \in Sessions |-> Nobody]
  /\ stray = FALSE /\ testFailures = 0

--------------------------------------------------------------------------------
(* pw-record *)

Sound(s, at) == sound' = [sound EXCEPT ![s].at = at]

ArmDeathSignal(s) ==
  /\ sound[s].at = "forked"
  /\ Sound(s, "armed")
  /\ UNCHANGED <<up, busy, test, testFile, heard, stray, testFailures>>

(* Mutant of Execute: the parent is not looked at again. *)
ExecuteUnchecked(s) ==
  /\ sound[s].at = "armed"
  /\ Sound(s, IF sound[s].interrupted THEN "ended" ELSE "runs")
  /\ UNCHANGED <<up, busy, test, testFile, heard, stray, testFailures>>

(* A parent that died before the signal was armed is no parent any more; an interrupt
   before the exec ends the process. *)
Execute(s) ==
  /\ sound[s].at = "armed"
  /\ Sound(s, IF sound[s].interrupted \/ sound[s].orphan THEN "ended" ELSE "runs")
  /\ UNCHANGED <<up, busy, test, testFile, heard, stray, testFailures>>

(* The file is created once; writing goes on though its name is removed. *)
WriteTest(s) ==
  /\ sound[s].at = "runs" /\ ~sound[s].wrote
  /\ sound' = [sound EXCEPT ![s].wrote = TRUE]
  /\ testFile' = s
  /\ stray' = (stray \/ (sound[s].orphan /\ up))
  /\ UNCHANGED <<up, busy, test, heard, testFailures>>

SoundEnds(s) ==
  /\ sound[s].at = "runs"
  /\ Sound(s, "ended")
  /\ \/ sound[s].interrupted /\ TestFine
     \/ ~sound[s].interrupted /\ TestMay("crash")
  /\ UNCHANGED <<up, busy, test, testFile, heard, stray>>

SoundSteps(s) == ArmDeathSignal(s) \/ Execute(s) \/ WriteTest(s) \/ SoundEnds(s)

--------------------------------------------------------------------------------
(* The test *)

TestAt(s, place) == up /\ test[s] = place
TestGoes(s, place) == test' = [test EXCEPT ![s] = place]

AskForTest(s) ==
  /\ TestAt(s, "idle")
  /\ TestGoes(s, "waits")
  /\ UNCHANGED <<up, busy, sound, testFile, heard, stray, testFailures>>

(* Mutant of LockBusy: a second test does not wait for the first. *)
LockBusyOver(s) ==
  /\ TestAt(s, "waits")
  /\ busy' = s
  /\ TestGoes(s, "clears")
  /\ UNCHANGED <<up, sound, testFile, heard, stray, testFailures>>

LockBusy(s) ==
  /\ TestAt(s, "waits") /\ busy = Nobody
  /\ busy' = s
  /\ TestGoes(s, "clears")
  /\ UNCHANGED <<up, sound, testFile, heard, stray, testFailures>>

(* The recorder starts on a file that is not there. *)
ClearTest(s) ==
  /\ TestAt(s, "clears")
  /\ testFile' = Nobody
  /\ TestGoes(s, "forks")
  /\ UNCHANGED <<up, busy, sound, heard, stray, testFailures>>

ForkSound(s) ==
  /\ TestAt(s, "forks")
  /\ \/ Sound(s, "forked") /\ TestGoes(s, "spawns") /\ TestFine
     \/ TestMay("spawn") /\ TestGoes(s, "returns") /\ UNCHANGED sound
  /\ UNCHANGED <<up, busy, testFile, heard, stray>>

(* `spawn` returns once the recorder runs, or has ended before that. *)
SoundSpawned(s) ==
  /\ TestAt(s, "spawns") /\ sound[s].at \in {"runs", "ended"}
  /\ TestGoes(s, "ready")
  /\ UNCHANGED <<up, busy, sound, testFile, heard, stray, testFailures>>

(* The first samples are waited for; a recorder that does not write any is stopped. *)
AwaitSamples(s) ==
  /\ TestAt(s, "ready")
  /\ \/ sound[s].at = "ended" /\ TestGoes(s, "returns") /\ TestFine
     \/ sound[s].at = "runs" /\ testFile # Nobody /\ TestGoes(s, "opens") /\ TestFine
     \/ TestMay("late") /\ TestGoes(s, "stops")
  /\ UNCHANGED <<up, busy, sound, testFile, heard, stray>>

OpenTest(s) ==
  /\ TestAt(s, "opens")
  /\ heard' = [heard EXCEPT ![s] = testFile]
  /\ TestGoes(s, "unlinks")
  /\ UNCHANGED <<up, busy, sound, testFile, stray, testFailures>>

(* Removing a name that is gone is an error, which ends the test. *)
UnlinkTest(s) ==
  /\ TestAt(s, "unlinks")
  /\ TestGoes(s, IF testFile = Nobody THEN "stops" ELSE "listens")
  /\ testFile' = Nobody
  /\ UNCHANGED <<up, busy, sound, heard, stray, testFailures>>

(* The time is up, the recorder has stopped, no one watches, or a read fails: the
   recording is dropped in every case. *)
ListenEnds(s) ==
  /\ TestAt(s, "listens")
  /\ TestGoes(s, "stops")
  /\ TestFine \/ TestMay("read")
  /\ UNCHANGED <<up, busy, sound, testFile, heard, stray>>

(* Dropping the recording interrupts the recorder and waits; one that goes on past the
   grace is killed. *)
InterruptSound(s) ==
  /\ TestAt(s, "stops")
  /\ sound' = [sound EXCEPT ![s].interrupted = TRUE]
  /\ TestGoes(s, "exits")
  /\ UNCHANGED <<up, busy, testFile, heard, stray, testFailures>>

SoundStopped(s) ==
  /\ TestAt(s, "exits")
  /\ Sound(s, "ended")
  /\ TestGoes(s, "returns")
  /\ UNCHANGED <<up, busy, testFile, heard, stray, testFailures>>

(* Mutant of ReturnFromTest: the name is taken to be gone. *)
ReturnLeavingIt(s) ==
  /\ TestAt(s, "returns")
  /\ busy' = Nobody
  /\ TestGoes(s, "done")
  /\ UNCHANGED <<up, sound, testFile, heard, stray, testFailures>>

(* RemovedOnReturn, then the lock. *)
ReturnFromTest(s) ==
  /\ TestAt(s, "returns")
  /\ testFile' = Nobody
  /\ busy' = Nobody
  /\ TestGoes(s, "done")
  /\ UNCHANGED <<up, sound, heard, stray, testFailures>>

TestSteps(s) ==
  \/ AskForTest(s) \/ LockBusy(s) \/ ClearTest(s) \/ ForkSound(s) \/ SoundSpawned(s)
  \/ AwaitSamples(s) \/ OpenTest(s) \/ UnlinkTest(s) \/ ListenEnds(s)
  \/ InterruptSound(s) \/ SoundStopped(s) \/ ReturnFromTest(s)

--------------------------------------------------------------------------------
(* The daemon *)

(* A recorder still to arm its signal is not interrupted. *)
DaemonDies ==
  /\ up /\ TestMay("die")
  /\ up' = FALSE /\ busy' = Nobody
  /\ test' = [s \in Sessions |-> IF test[s] = "idle" THEN "idle" ELSE "cut"]
  /\ sound' = [s \in Sessions |->
                 IF Listens(s)
                 THEN [sound[s] EXCEPT !.orphan = TRUE,
                                       !.interrupted = @ \/ sound[s].at # "forked"]
                 ELSE sound[s]]
  /\ UNCHANGED <<testFile, heard, stray>>

RemoveLeftover ==
  /\ ~up
  /\ up' = TRUE
  /\ testFile' = Nobody
  /\ UNCHANGED <<busy, test, sound, heard, stray, testFailures>>

MicrophoneNext ==
  \/ DaemonDies \/ RemoveLeftover
  \/ \E s \in Sessions : SoundSteps(s) \/ TestSteps(s)

MicrophoneSpec == MicrophoneInit /\ [][MicrophoneNext]_testVars

--------------------------------------------------------------------------------
(* Properties *)

(* "so nothing it hears outlasts the test": while the daemon runs and no test does, no
   audio of one lies in the runtime directory, whichever step of a test failed or a death
   cut off, and no recorder listens that has not been told to end.  Excepted is a file
   that the recorder of a dead daemon creates only after the next one has started. *)
NothingHeardStays ==
  /\ up /\ busy = Nobody => testFile = Nobody \/ stray
  /\ \A s \in Sessions :
       sound[s].at = "runs" /\ ~sound[s].interrupted => up /\ busy = s /\ ~sound[s].orphan

(* Tests share a file, and yet each hears the recorder it started. *)
HearsItself == \A s \in Sessions : heard[s] \in {Nobody, s} \/ stray

(* All that the user relies on. *)
TestKeepsNothing == MicrophoneTypeOK /\ NothingHeardStays /\ HearsItself

================================================================================
