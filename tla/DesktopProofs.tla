----------------------------- MODULE DesktopProofs -----------------------------
(* Theorems about Desktop, for any number of deliveries, windows, outputs, tools, sessions
   and failures, and about Window, for any number of dictations, words, keys, clicks, device
   changes and processes.  The parts of both share no state, and each has an inductive
   invariant of its own.

   Of the window: what the history lane has read or will read next is what is typed
   (LaneInv); the words the screen shows are the words meant (WordsInv), and a shorter keep
   on its way was confirmed (KeepsInv); a check on its way knows what it will be stored as
   knowing (ChecksInv); a process with a window, or about to have one, holds the lock
   (LaunchInv). *)
EXTENDS Desktop, Window, FiniteSetTheorems, SequenceTheorems, TLAPS

--------------------------------------------------------------------------------
(* Tools *)

(* What the runner has found out is so: a pipe it closed has no writer left and was read to its
   end, the exit it was told of has happened, and it reaps after both. *)
RunnerKnows ==
  /\ \A pipe \in Pipes : ~pipes[pipe].open =>
       Ended(pipe) /\ pipes[pipe].read = pipes[pipe].written
  /\ runner.exited => ToolExited
  /\ runner.at = "reap" => runner.exited /\ \A pipe \in Pipes : ~pipes[pipe].open
  /\ runner.at = "kill" => runner.result \in {"failed", "deadline"}

(* The inductive invariant of Tools. *)
ToolsInv == ToolsAreBounded /\ RunnerKnows

(* Nothing runs at first. *)
LEMMA ToolsInvInit == ToolsInit => ToolsInv
<1> HAVE ToolsInit
<1>1. /\ group \in [Group -> [at : {"gone", "runs", "exited", "failed"}, has : SUBSET Pipes]]
      /\ \A p \in Group : group[p].at = "gone" /\ group[p].has = {}
  BY DEF ToolsInit, Gone, Group
<1>2. /\ pipes \in [Pipes -> [written : 0..MaxOutput, read : 0..MaxOutput, open : BOOLEAN]]
      /\ \A p \in Pipes : pipes[p].read = pipes[p].written /\ pipes[p].open
  BY ToolBoundsAssumption DEF ToolsInit, NoOutput
<1>3. ToolsTypeOK
  <2>1. runner \in [at : {"free", "open", "poll", "reap", "kill"},
                    exited : BOOLEAN, result : {"none", "ok", "failed", "deadline"}]
    BY DEF ToolsInit
  <2>2. overdue \in BOOLEAN
    BY DEF ToolsInit
  <2>3. runs \in 0..MaxRuns /\ toolFailures \in 0..MaxToolFailures
    BY ToolBoundsAssumption DEF ToolsInit
  <2>4. \A p \in Pipes : pipes[p].read <= pipes[p].written
    BY <1>2
  <2>5. QED
    BY <1>1, <1>2, <2>1, <2>2, <2>3, <2>4 DEF ToolsTypeOK
<1>4. FailedToolIsGone /\ OutputIsWhole /\ RunnerKnows
  BY <1>1, <1>2 DEF ToolsInit, FailedToolIsGone, OutputIsWhole, RunnerKnows
<1>5. QED
  BY <1>3, <1>4 DEF ToolsInv, ToolsAreBounded

(* What the group does on its own: a process only lets go of pipes, and only a live one writes. *)
LEMMA GroupStep ==
  ASSUME ToolsInv, GroupMoves
  PROVE  ToolsInv'
<1>typed. /\ group \in [Group -> [at : {"gone", "runs", "exited", "failed"}, has : SUBSET Pipes]]
          /\ pipes \in [Pipes -> [written : 0..MaxOutput, read : 0..MaxOutput, open : BOOLEAN]]
          /\ ToolsTypeOK /\ FailedToolIsGone /\ OutputIsWhole /\ RunnerKnows
          /\ MaxOutput \in Nat
  BY ToolBoundsAssumption DEF ToolsInv, ToolsAreBounded, ToolsTypeOK
<1>1. CASE StartHelper
  <2>1. /\ group' \in [Group -> [at : {"gone", "runs", "exited", "failed"}, has : SUBSET Pipes]]
        /\ group'[Tool] = group[Tool] /\ group'[Helper] = group[Tool]
        /\ group[Tool].at = "runs" /\ group[Tool].has # {}
        /\ UNCHANGED <<runner, pipes, overdue, runs, toolFailures>>
    BY <1>1, <1>typed DEF StartHelper, Alive, Group, Tool, Helper
  <2>2. \A pipe \in Pipes : Ended(pipe) => Ended(pipe)'
    BY <2>1 DEF Ended, Group
  <2>3. ~(runner.at = "free" /\ runner.result \in {"failed", "deadline"})
    BY <2>1, <1>typed DEF FailedToolIsGone, Alive, Group
  <2>4. QED
    BY <2>1, <2>2, <2>3, <1>typed DEF ToolsInv, ToolsAreBounded, ToolsTypeOK, FailedToolIsGone, OutputIsWhole,
       RunnerKnows, ToolExited, Group
<1>2. ASSUME NEW p \in Group, NEW pipe \in Pipes, CloseOutput(p, pipe) PROVE ToolsInv'
  <2>1. /\ group' \in [Group -> [at : {"gone", "runs", "exited", "failed"}, has : SUBSET Pipes]]
        /\ \A q \in Group : group'[q].at = group[q].at /\ group'[q].has \subseteq group[q].has
        /\ UNCHANGED <<runner, pipes, overdue, runs, toolFailures>>
    BY <1>2, <1>typed DEF CloseOutput
  <2>2. \A q \in Pipes : Ended(q) => Ended(q)'
    BY <2>1 DEF Ended
  <2>3. QED
    BY <2>1, <2>2, <1>typed DEF ToolsInv, ToolsAreBounded, ToolsTypeOK, FailedToolIsGone, OutputIsWhole,
       RunnerKnows, ToolExited, Alive, Group
<1>3. ASSUME NEW p \in Group, Exit(p) PROVE ToolsInv'
  <2>1. /\ group' \in [Group -> [at : {"gone", "runs", "exited", "failed"}, has : SUBSET Pipes]]
        /\ \A q \in Group \ {p} : group'[q] = group[q]
        /\ group'[p].at \in {"exited", "failed"} /\ group'[p].has = {} /\ group[p].at = "runs"
        /\ UNCHANGED <<runner, pipes, overdue, runs>>
    BY <1>3, <1>typed DEF Exit, Alive
  <2>2. \A q \in Pipes : Ended(q) => Ended(q)'
    BY <2>1 DEF Ended
  <2>3. toolFailures' \in 0..MaxToolFailures
    BY <1>3, <1>typed, ToolBoundsAssumption DEF Exit, ToolFine, ToolMay, ToolsTypeOK
  <2>4. FailedToolIsGone'
    BY <2>1, <1>typed DEF FailedToolIsGone, Alive, Group
  <2>5. QED
    BY <2>1, <2>2, <2>3, <2>4, <1>typed DEF ToolsInv, ToolsAreBounded, ToolsTypeOK, OutputIsWhole,
       RunnerKnows, ToolExited, Group
<1>4. ASSUME NEW p \in Group, NEW pipe \in Pipes, WriteOutput(p, pipe) PROVE ToolsInv'
  <2>1. /\ pipes' \in [Pipes -> [written : 0..MaxOutput, read : 0..MaxOutput, open : BOOLEAN]]
        /\ \A q \in Pipes \ {pipe} : pipes'[q] = pipes[q]
        /\ pipes'[pipe].read <= pipes'[pipe].written /\ pipes'[pipe].open = pipes[pipe].open
        /\ UNCHANGED <<runner, group, overdue, runs, toolFailures>>
        /\ ~Ended(pipe)
    BY <1>4, <1>typed DEF WriteOutput, ToolsTypeOK, Ended
  <2>2. pipes[pipe].open
    BY <2>1, <1>typed DEF RunnerKnows
  <2>3. \A q \in Pipes : pipes'[q].read <= pipes'[q].written
    BY <2>1, <1>typed DEF ToolsTypeOK
  <2>4. QED
    BY <2>1, <2>2, <2>3, <1>typed, ZenonT(40) DEF ToolsInv, ToolsAreBounded, ToolsTypeOK, FailedToolIsGone, OutputIsWhole,
       RunnerKnows, ToolExited, Ended, Alive
<1>5. QED
  BY <1>1, <1>2, <1>3, <1>4 DEF GroupMoves

(* What the runner does. *)
LEMMA RunnerStep ==
  ASSUME ToolsInv, SpawnTool \/ RunnerSteps \/ ToolDeadlinePasses
  PROVE  ToolsInv'
<1>typed. /\ group \in [Group -> [at : {"gone", "runs", "exited", "failed"}, has : SUBSET Pipes]]
          /\ pipes \in [Pipes -> [written : 0..MaxOutput, read : 0..MaxOutput, open : BOOLEAN]]
          /\ ToolsTypeOK /\ FailedToolIsGone /\ OutputIsWhole /\ RunnerKnows
          /\ MaxOutput \in Nat
  BY ToolBoundsAssumption DEF ToolsInv, ToolsAreBounded, ToolsTypeOK
<1>1. toolFailures' \in 0..MaxToolFailures /\ runs' \in 0..MaxRuns /\ overdue' \in BOOLEAN
  <2>1. toolFailures \in 0..MaxToolFailures /\ runs \in 0..MaxRuns /\ overdue \in BOOLEAN
    BY <1>typed DEF ToolsTypeOK
  <2>2. \/ toolFailures' = toolFailures
        \/ toolFailures < MaxToolFailures /\ toolFailures' = toolFailures + 1
    BY DEF SpawnTool, RunnerSteps, ToolDeadlinePasses, PidfdOpen, CollectOutput, Reap, KillGroup, ToolFine,
           ToolMay
  <2>3. runs' = runs \/ (runs < MaxRuns /\ runs' = runs + 1)
    BY DEF SpawnTool, RunnerSteps, ToolDeadlinePasses, PidfdOpen, CollectOutput, Reap, KillGroup
  <2>4. overdue' = overdue \/ overdue' = TRUE \/ overdue' = FALSE
    BY DEF SpawnTool, RunnerSteps, ToolDeadlinePasses, PidfdOpen, CollectOutput, Reap, KillGroup
  <2>5. overdue' \in BOOLEAN
    BY <2>1, <2>4
  <2>6. QED
    BY <2>1, <2>2, <2>3, <2>5, ToolBoundsAssumption
<1>2. CASE SpawnTool
  <2>1. /\ group' \in [Group -> [at : {"gone", "runs", "exited", "failed"}, has : SUBSET Pipes]]
        /\ runner'.result = "failed" => \A p \in Group : group'[p].at = "gone"
        /\ runner' \in [at : {"free", "open"}, exited : {FALSE}, result : {"none", "failed"}]
        /\ runner'.at # "reap"
    <3>1. CASE /\ group' = [p \in Group |-> IF p = Tool THEN [at |-> "runs", has |-> Pipes] ELSE Gone]
               /\ runner' = [at |-> "open", exited |-> FALSE, result |-> "none"]
      <4>1. group' \in [Group -> [at : {"gone", "runs", "exited", "failed"}, has : SUBSET Pipes]]
        BY <3>1 DEF Gone
      <4>2. QED
        BY <3>1, <4>1
    <3>2. CASE group' = [p \in Group |-> Gone] /\ runner' = Returned("failed")
      <4>1. /\ group' \in [Group -> [at : {"gone", "runs", "exited", "failed"}, has : SUBSET Pipes]]
            /\ \A p \in Group : group'[p].at = "gone"
        BY <3>2 DEF Gone
      <4>2. runner' = [at |-> "free", exited |-> FALSE, result |-> "failed"]
        BY <3>2 DEF Returned
      <4>3. QED
        BY <4>1, <4>2
    <3>3. QED
      BY <1>2, <3>1, <3>2 DEF SpawnTool
  <2>2. /\ pipes' \in [Pipes -> [written : 0..MaxOutput, read : 0..MaxOutput, open : BOOLEAN]]
        /\ \A p \in Pipes : pipes'[p].read = pipes'[p].written /\ pipes'[p].open
    BY <1>2, <1>typed DEF SpawnTool, NoOutput
  <2>3. runner' \in [at : {"free", "open", "poll", "reap", "kill"},
                     exited : BOOLEAN, result : {"none", "ok", "failed", "deadline"}]
    BY <2>1
  <2>4. ToolsTypeOK'
    BY <1>1, <2>1, <2>2, <2>3, <1>typed DEF ToolsTypeOK
  <2>5. /\ runner'.result \in {"none", "failed"} /\ ~runner'.exited
        /\ runner'.at \in {"free", "open"}
    BY <2>1
  <2>6. FailedToolIsGone' /\ OutputIsWhole'
    BY <2>1, <2>5 DEF FailedToolIsGone, OutputIsWhole, Alive
  <2>7. RunnerKnows'
    BY <2>2, <2>5 DEF RunnerKnows
  <2>8. QED
    BY <2>4, <2>6, <2>7 DEF ToolsInv, ToolsAreBounded
<1>3. CASE PidfdOpen \/ ToolDeadlinePasses
  <2>1. /\ runner' \in [at : {"free", "open", "poll", "reap", "kill"},
                        exited : BOOLEAN, result : {"none", "ok", "failed", "deadline"}]
        /\ runner'.exited = runner.exited /\ UNCHANGED <<group, pipes>>
        /\ runner' = runner \/ runner'.at = "poll" \/ (runner'.at = "kill" /\ runner'.result = "failed")
    BY <1>3, <1>typed DEF PidfdOpen, ToolDeadlinePasses, Runner, Gives, ToolsTypeOK
  <2>2. QED
    BY <1>1, <1>typed, <2>1 DEF ToolsInv, ToolsAreBounded, ToolsTypeOK, FailedToolIsGone, OutputIsWhole,
       RunnerKnows, ToolExited, Ended, Alive
<1>4. CASE CollectOutput
  <2>1. UNCHANGED group /\ runner.at = "poll"
    BY <1>4 DEF CollectOutput
  <2>2. CASE /\ ~((\E pipe \in Pipes : pipes[pipe].open) \/ ~runner.exited)
             /\ Runner("reap") /\ UNCHANGED pipes
    BY <1>1, <1>typed, <2>1, <2>2 DEF Runner, ToolsInv, ToolsAreBounded, ToolsTypeOK, FailedToolIsGone,
       OutputIsWhole, RunnerKnows, ToolExited, Ended, Alive
  <2>3. CASE (Gives("deadline") \/ Gives("failed")) /\ UNCHANGED pipes
    BY <1>1, <1>typed, <2>1, <2>3 DEF Gives, ToolsInv, ToolsAreBounded, ToolsTypeOK, FailedToolIsGone,
       OutputIsWhole, RunnerKnows, ToolExited, Ended, Alive
  <2>4. CASE /\ pipes' = [pipe \in Pipes |-> Drained(pipe)]
             /\ runner' = [runner EXCEPT !.exited = @ \/ ToolExited]
    <3>1. ASSUME NEW pipe \in Pipes
          PROVE  /\ Drained(pipe) \in [written : 0..MaxOutput, read : 0..MaxOutput, open : BOOLEAN]
                 /\ Drained(pipe).read <= Drained(pipe).written
                 /\ ~Drained(pipe).open => Ended(pipe) /\ Drained(pipe).read = Drained(pipe).written
      <4>1. /\ pipes[pipe] \in [written : 0..MaxOutput, read : 0..MaxOutput, open : BOOLEAN]
            /\ pipes[pipe].read <= pipes[pipe].written
            /\ ~pipes[pipe].open => Ended(pipe) /\ pipes[pipe].read = pipes[pipe].written
        BY <1>typed DEF ToolsTypeOK, RunnerKnows
      <4>2. CASE ~Readable(pipe)
        BY <4>1, <4>2 DEF Drained
      <4>3. CASE Readable(pipe) /\ pipes[pipe].written > pipes[pipe].read
        <5>1. Drained(pipe) = [pipes[pipe] EXCEPT !.read = pipes[pipe].written]
          BY <4>3 DEF Drained
        <5>2. pipes[pipe].open
          BY <4>3 DEF Readable
        <5>3. QED
          BY <4>1, <5>1, <5>2, <1>typed
      <4>4. CASE Readable(pipe) /\ ~(pipes[pipe].written > pipes[pipe].read)
        <5>1. Drained(pipe) = [pipes[pipe] EXCEPT !.open = FALSE]
          BY <4>4 DEF Drained
        <5>2. Ended(pipe) /\ pipes[pipe].read = pipes[pipe].written
          BY <4>1, <4>4, <1>typed DEF Readable
        <5>3. QED
          BY <4>1, <5>1, <5>2, <1>typed
      <4>5. QED
        BY <4>2, <4>3, <4>4
    <3>2. /\ pipes' \in [Pipes -> [written : 0..MaxOutput, read : 0..MaxOutput, open : BOOLEAN]]
          /\ \A pipe \in Pipes : /\ pipes'[pipe].read <= pipes'[pipe].written
                                 /\ ~pipes'[pipe].open =>
                                      Ended(pipe) /\ pipes'[pipe].read = pipes'[pipe].written
      BY <2>4, <3>1
    <3>3. /\ runner' \in [at : {"poll"}, exited : BOOLEAN, result : {"none", "ok", "failed", "deadline"}]
          /\ runner'.exited => ToolExited
      <4>1. runner' = [runner EXCEPT !.exited = (runner.exited \/ ToolExited)]
        BY <2>4
      <4>2. (runner.exited \/ ToolExited) \in BOOLEAN
        OBVIOUS
      <4>3. runner.exited \/ ToolExited => ToolExited
        BY <1>typed DEF RunnerKnows
      <4>4. QED
        BY <4>1, <4>2, <4>3, <1>typed, <2>1 DEF ToolsTypeOK
    <3>4. QED
      BY <1>1, <1>typed, <2>1, <3>2, <3>3 DEF ToolsInv, ToolsAreBounded, ToolsTypeOK, FailedToolIsGone,
         OutputIsWhole, RunnerKnows, ToolExited, Ended
  <2>5. QED
    BY <1>4, <2>2, <2>3, <2>4 DEF CollectOutput
<1>5. CASE Reap
  <2>1. /\ UNCHANGED <<group, pipes>> /\ runner'.at = "free" /\ ~runner'.exited
        /\ runner' \in [at : {"free"}, exited : BOOLEAN, result : {"ok", "failed"}]
        /\ runner'.result = "failed" => group[Tool].at # "exited"
    BY <1>5 DEF Reap, Returned
  <2>2. \A pipe \in Pipes : Ended(pipe) /\ pipes[pipe].read = pipes[pipe].written
    BY <1>5, <1>typed DEF Reap, RunnerKnows
  <2>3. \A p \in Group : group[p].has = {}
    BY <2>2, <1>typed DEF Ended
  <2>4. group[Tool].at \in {"exited", "failed"}
    BY <1>5, <1>typed DEF Reap, RunnerKnows, ToolExited
  <2>5. QED
    BY <1>1, <1>typed, <2>1, <2>2, <2>3, <2>4 DEF ToolsInv, ToolsAreBounded, ToolsTypeOK, FailedToolIsGone,
       OutputIsWhole, RunnerKnows, ToolExited, Ended, Alive
<1>6. CASE KillGroup
  <2>1. /\ group' \in [Group -> [at : {"gone", "runs", "exited", "failed"}, has : SUBSET Pipes]]
        /\ \A p \in Group : group'[p].at = "gone" /\ group'[p].has = {}
        /\ UNCHANGED pipes
    BY <1>6 DEF KillGroup, Gone
  <2>2. runner' \in [at : {"free"}, exited : {FALSE}, result : {"failed", "deadline"}]
    BY <1>6, <1>typed DEF KillGroup, Returned, RunnerKnows
  <2>3. QED
    BY <1>1, <1>typed, <2>1, <2>2 DEF ToolsInv, ToolsAreBounded, ToolsTypeOK, FailedToolIsGone,
       OutputIsWhole, RunnerKnows, Ended, Alive
<1>7. QED
  BY <1>2, <1>3, <1>4, <1>5, <1>6 DEF RunnerSteps

(* Every step of Tools keeps its invariant. *)
LEMMA ToolsStep ==
  ASSUME ToolsInv, [ToolsNext]_toolVars
  PROVE  ToolsInv'
<1>1. CASE UNCHANGED toolVars
  BY <1>1 DEF toolVars, ToolsInv, ToolsAreBounded, ToolsTypeOK, FailedToolIsGone, OutputIsWhole, RunnerKnows,
     ToolExited, Ended, Alive
<1>2. QED
  BY <1>1, GroupStep, RunnerStep DEF ToolsNext

--------------------------------------------------------------------------------
(* The microphone test *)

(* The stages of a test that holds Microphone::busy, and those whose recorder is not there. *)
Testing == {"clears", "forks", "spawns", "ready", "opens", "unlinks", "listens", "stops", "exits", "returns"}

(* The places of a test at which no recorder of its own listens. *)
Silent == {"idle", "waits", "clears", "forks", "returns"}

(* The places of a test, in the daemon and around it. *)
Stages == Before \cup After \cup Testing

(* What becomes of a recorder. *)
SoundRecord == [at : {"none", "forked", "armed", "runs", "ended"},
                orphan : BOOLEAN, interrupted : BOOLEAN, wrote : BOOLEAN]

(* One test at a time runs, the one that holds the lock. *)
HolderTests == \A s \in Sessions : test[s] \in Testing => up /\ busy = s

(* The file is the holder's, but for what an orphan created after the restart. *)
FileIsHolders == up /\ ~stray => testFile \in {Nobody, busy}

(* A test that has not started its recorder, or has seen it end, has none that listens. *)
SilentWithoutSound == \A s \in Sessions : test[s] \in Silent => ~Listens(s)

(* A recorder whose daemon has died runs only with the interrupt pending, and another one
   listens for the holder. *)
OrphansEnd == \A s \in Sessions : sound[s].at = "runs" /\ sound[s].orphan => sound[s].interrupted

(* A recorder that listens is the holder's, unless its daemon died. *)
ListensForHolder == \A s \in Sessions : Listens(s) /\ ~sound[s].orphan => up /\ busy = s

(* The inductive invariant of Microphone. *)
MicrophoneInv ==
  /\ MicrophoneTypeOK /\ HearsItself
  /\ HolderTests /\ FileIsHolders /\ SilentWithoutSound /\ OrphansEnd /\ ListensForHolder

(* Nobody tests at first. *)
LEMMA MicrophoneInvInit == MicrophoneInit => MicrophoneInv
<1> HAVE MicrophoneInit
<1>1. /\ test \in [Sessions -> Stages] /\ \A s \in Sessions : test[s] = "idle"
  BY DEF MicrophoneInit, Stages, Before
<1>2. /\ sound \in [Sessions -> SoundRecord] /\ \A s \in Sessions : sound[s].at = "none"
  BY DEF MicrophoneInit, NoSound, SoundRecord
<1>3. /\ heard \in [Sessions -> Sessions \cup {Nobody}] /\ \A s \in Sessions : heard[s] = Nobody
  BY DEF MicrophoneInit
<1>4. up \in BOOLEAN /\ stray \in BOOLEAN
  BY DEF MicrophoneInit
<1>5. /\ testFailures \in 0..MaxTestFailures
      /\ busy \in Sessions \cup {Nobody} /\ testFile = Nobody
  BY TestBoundsAssumption DEF MicrophoneInit
<1>6. MicrophoneTypeOK
  BY <1>1, <1>2, <1>3, <1>4, <1>5 DEF MicrophoneTypeOK, Stages, Testing, SoundRecord
<1>7. HearsItself /\ HolderTests /\ FileIsHolders /\ SilentWithoutSound /\ OrphansEnd /\ ListensForHolder
  BY <1>1, <1>2, <1>3, <1>5 DEF HearsItself, HolderTests, FileIsHolders, SilentWithoutSound, OrphansEnd,
     ListensForHolder, Listens, Testing
<1>8. QED
  BY <1>6, <1>7 DEF MicrophoneInv

(* It implies what the user relies on. *)
LEMMA MicrophoneInvKeepsNothing == MicrophoneInv => TestKeepsNothing
BY DEF MicrophoneInv, TestKeepsNothing, NothingHeardStays, FileIsHolders, OrphansEnd, ListensForHolder, Listens,
   MicrophoneTypeOK

(* What a change of a recorder's state or of a test's stage leaves as it was. *)
LEMMA SoundChange ==
  ASSUME sound \in [Sessions -> SoundRecord], NEW s \in Sessions,
         NEW at \in {"none", "forked", "armed", "runs", "ended"}, Sound(s, at)
  PROVE  /\ sound' \in [Sessions -> SoundRecord]
         /\ sound'[s] = [at |-> at, orphan |-> sound[s].orphan, interrupted |-> sound[s].interrupted,
                         wrote |-> sound[s].wrote]
         /\ \A t \in Sessions \ {s} : sound'[t] = sound[t]
<1> DEFINE row == [at |-> at, orphan |-> sound[s].orphan, interrupted |-> sound[s].interrupted,
                   wrote |-> sound[s].wrote]
<1>1. [sound[s] EXCEPT !.at = at] = row /\ row \in SoundRecord
  BY DEF SoundRecord
<1>2. sound' = [sound EXCEPT ![s] = row]
  BY <1>1 DEF Sound
<1>3. QED
  BY <1>1, <1>2

(* A recorder notes that it wrote, or that it was interrupted. *)
LEMMA SoundFlags ==
  ASSUME NEW r \in SoundRecord, NEW flag \in BOOLEAN
  PROVE  /\ [r EXCEPT !.wrote = flag]
              = [at |-> r.at, orphan |-> r.orphan, interrupted |-> r.interrupted, wrote |-> flag]
         /\ [r EXCEPT !.interrupted = flag]
              = [at |-> r.at, orphan |-> r.orphan, interrupted |-> flag, wrote |-> r.wrote]
         /\ [at |-> r.at, orphan |-> r.orphan, interrupted |-> r.interrupted, wrote |-> flag] \in SoundRecord
         /\ [at |-> r.at, orphan |-> r.orphan, interrupted |-> flag, wrote |-> r.wrote] \in SoundRecord
<1>1. /\ r = [at |-> r.at, orphan |-> r.orphan, interrupted |-> r.interrupted, wrote |-> r.wrote]
      /\ r.at \in {"none", "forked", "armed", "runs", "ended"}
      /\ r.orphan \in BOOLEAN /\ r.interrupted \in BOOLEAN /\ r.wrote \in BOOLEAN
  BY DEF SoundRecord
<1>2. [r EXCEPT !.wrote = flag]
        = [at |-> r.at, orphan |-> r.orphan, interrupted |-> r.interrupted, wrote |-> flag]
  BY <1>1
<1>3. [r EXCEPT !.interrupted = flag]
        = [at |-> r.at, orphan |-> r.orphan, interrupted |-> flag, wrote |-> r.wrote]
  BY <1>1
<1>4. [at |-> r.at, orphan |-> r.orphan, interrupted |-> r.interrupted, wrote |-> flag] \in SoundRecord
  BY <1>1 DEF SoundRecord
<1>5. [at |-> r.at, orphan |-> r.orphan, interrupted |-> flag, wrote |-> r.wrote] \in SoundRecord
  BY <1>1 DEF SoundRecord
<1>6. QED
  BY <1>2, <1>3, <1>4, <1>5

(* A recorder loses its daemon. *)
LEMMA SoundOrphaned ==
  ASSUME NEW r \in SoundRecord, NEW gone \in BOOLEAN, NEW heeded \in BOOLEAN
  PROVE  LET q == [r EXCEPT !.orphan = gone, !.interrupted = heeded]
         IN  q \in SoundRecord /\ q.at = r.at /\ q.orphan = gone /\ q.interrupted = heeded
<1> DEFINE q == [r EXCEPT !.orphan = gone, !.interrupted = heeded]
<1>1. /\ q.at = r.at /\ q.orphan = gone /\ q.interrupted = heeded
  BY DEF SoundRecord
<1>2. q \in SoundRecord
  BY DEF SoundRecord
<1>3. QED
  BY <1>1, <1>2

(* A test goes to another place, and no other test does. *)
LEMMA TestChange ==
  ASSUME test \in [Sessions -> Stages], NEW s \in Sessions, NEW place \in Stages, TestGoes(s, place)
  PROVE  /\ test' \in [Sessions -> Stages] /\ test'[s] = place
         /\ \A t \in Sessions \ {s} : test'[t] = test[t]
BY DEF TestGoes

(* The number of failures stays within its bound. *)
LEMMA TestFailuresBounded ==
  ASSUME testFailures \in 0..MaxTestFailures, TestFine \/ \E kind \in TestFailing : TestMay(kind)
  PROVE  testFailures' \in 0..MaxTestFailures
BY TestBoundsAssumption DEF TestFine, TestMay

(* What the recorder of a test does. *)
LEMMA SoundStep ==
  ASSUME MicrophoneInv, NEW s \in Sessions, SoundSteps(s)
  PROVE  MicrophoneInv'
<1>typed. /\ test \in [Sessions -> Stages] /\ sound \in [Sessions -> SoundRecord]
          /\ up \in BOOLEAN /\ stray \in BOOLEAN /\ busy \in Sessions \cup {Nobody}
          /\ testFile \in Sessions \cup {Nobody} /\ heard \in [Sessions -> Sessions \cup {Nobody}]
          /\ testFailures \in 0..MaxTestFailures
          /\ HearsItself /\ HolderTests /\ FileIsHolders /\ SilentWithoutSound /\ OrphansEnd /\ ListensForHolder
  BY DEF MicrophoneInv, MicrophoneTypeOK, Stages, Testing, SoundRecord
<1>same. UNCHANGED <<up, busy, test, heard>>
  BY DEF SoundSteps, ArmDeathSignal, Execute, WriteTest, SoundEnds
<1>failures. testFailures' \in 0..MaxTestFailures
  BY <1>typed, TestFailuresBounded DEF SoundSteps, ArmDeathSignal, Execute, WriteTest, SoundEnds, TestFine, TestMay
<1>1. CASE ArmDeathSignal(s) \/ Execute(s) \/ SoundEnds(s)
  <2>1. PICK at \in {"armed", "runs", "ended"} :
          /\ Sound(s, at) /\ UNCHANGED <<testFile, stray>>
          /\ at = "runs" => ~sound[s].orphan
          /\ sound[s].at \in {"forked", "armed", "runs"}
    BY <1>1 DEF ArmDeathSignal, Execute, SoundEnds
  <2>2. /\ sound' \in [Sessions -> SoundRecord]
        /\ sound'[s] = [at |-> at, orphan |-> sound[s].orphan, interrupted |-> sound[s].interrupted,
                        wrote |-> sound[s].wrote]
        /\ \A t \in Sessions \ {s} : sound'[t] = sound[t]
    BY <2>1, <1>typed, SoundChange
  <2>3. \A t \in Sessions : Listens(t)' => Listens(t)
    BY <2>1, <2>2 DEF Listens
  <2>4. \A t \in Sessions : sound'[t].orphan = sound[t].orphan
    BY <2>2
  <2>5. SilentWithoutSound' /\ ListensForHolder'
    BY <2>3, <2>4, <1>typed, <1>same DEF SilentWithoutSound, ListensForHolder
  <2>6. OrphansEnd'
    BY <2>1, <2>2, <1>typed DEF OrphansEnd
  <2>7. MicrophoneTypeOK'
    BY <1>typed, <1>same, <1>failures, <2>1, <2>2 DEF MicrophoneTypeOK, Stages, Testing, SoundRecord
  <2>8. HearsItself' /\ HolderTests' /\ FileIsHolders'
    BY <1>typed, <1>same, <2>1 DEF HearsItself, HolderTests, FileIsHolders
  <2>9. QED
    BY <2>5, <2>6, <2>7, <2>8 DEF MicrophoneInv
<1>2. CASE WriteTest(s)
  <2> DEFINE row == [at |-> sound[s].at, orphan |-> sound[s].orphan, interrupted |-> sound[s].interrupted,
                     wrote |-> TRUE]
  <2>1. /\ sound[s].at = "runs" /\ testFile' = s
        /\ stray' = (stray \/ (sound[s].orphan /\ up))
    BY <1>2 DEF WriteTest
  <2>2. [sound[s] EXCEPT !.wrote = TRUE] = row /\ row \in SoundRecord
    BY <1>typed, SoundFlags
  <2>3. sound' = [sound EXCEPT ![s] = row]
    BY <1>2, <2>2 DEF WriteTest
  <2>4. /\ sound' \in [Sessions -> SoundRecord]
        /\ \A t \in Sessions : /\ sound'[t].at = sound[t].at /\ sound'[t].orphan = sound[t].orphan
                               /\ sound'[t].interrupted = sound[t].interrupted
    BY <2>2, <2>3, <1>typed
  <2>5. \A t \in Sessions : Listens(t)' <=> Listens(t)
    BY <2>4 DEF Listens
  <2>6. SilentWithoutSound' /\ ListensForHolder' /\ OrphansEnd'
    BY <2>4, <2>5, <1>typed, <1>same DEF SilentWithoutSound, ListensForHolder, OrphansEnd
  <2>7. FileIsHolders'
    BY <2>1, <1>typed, <1>same DEF FileIsHolders, ListensForHolder, Listens
  <2>8. stray' \in BOOLEAN
    BY <2>1, <1>typed
  <2>9. HearsItself' /\ HolderTests'
    BY <2>1, <1>typed, <1>same DEF HearsItself, HolderTests
  <2>10. MicrophoneTypeOK'
    BY <1>typed, <1>same, <1>failures, <2>1, <2>4, <2>8 DEF MicrophoneTypeOK, Stages, Testing, SoundRecord
  <2>11. QED
    BY <2>6, <2>7, <2>9, <2>10 DEF MicrophoneInv
<1>3. QED
  BY <1>1, <1>2 DEF SoundSteps

(* What the session that asks for the test does. *)
LEMMA TestStep ==
  ASSUME MicrophoneInv, NEW s \in Sessions, TestSteps(s)
  PROVE  MicrophoneInv'
<1>typed. /\ test \in [Sessions -> Stages] /\ sound \in [Sessions -> SoundRecord]
          /\ up \in BOOLEAN /\ stray \in BOOLEAN /\ busy \in Sessions \cup {Nobody}
          /\ testFile \in Sessions \cup {Nobody} /\ heard \in [Sessions -> Sessions \cup {Nobody}]
          /\ testFailures \in 0..MaxTestFailures
          /\ HearsItself /\ HolderTests /\ FileIsHolders /\ SilentWithoutSound /\ OrphansEnd /\ ListensForHolder
  BY DEF MicrophoneInv, MicrophoneTypeOK, Stages, Testing, SoundRecord
<1>same. up /\ UNCHANGED <<up, stray>>
  BY DEF TestSteps, AskForTest, LockBusy, ClearTest, ForkSound, SoundSpawned, AwaitSamples, OpenTest, UnlinkTest,
     ListenEnds, InterruptSound, SoundStopped, ReturnFromTest, TestAt
<1>failures. testFailures' \in 0..MaxTestFailures
  BY <1>typed, TestFailuresBounded DEF TestSteps, AskForTest, LockBusy, ClearTest, ForkSound, SoundSpawned,
     AwaitSamples, OpenTest, UnlinkTest, ListenEnds, InterruptSound, SoundStopped, ReturnFromTest, TestFine, TestMay
<1>stages. Stages = {"idle", "waits", "done", "cut"} \cup Testing
  BY DEF Stages, Before, After
(* Stages that only move the test on. *)
<1>moves. ASSUME UNCHANGED <<busy, sound, heard>>, testFile' \in {testFile, Nobody},
                 NEW place \in Stages, TestGoes(s, place),
                 place \in Testing => test[s] \in Testing, place \in Silent => ~Listens(s)
          PROVE  MicrophoneInv'
  <2>1. /\ test' \in [Sessions -> Stages] /\ test'[s] = place
        /\ \A t \in Sessions \ {s} : test'[t] = test[t]
    BY <1>moves, <1>typed, TestChange
  <2>2. HolderTests' /\ SilentWithoutSound'
    BY <2>1, <1>moves, <1>typed, <1>same DEF HolderTests, SilentWithoutSound, Listens
  <2>3. FileIsHolders' /\ OrphansEnd' /\ ListensForHolder' /\ HearsItself'
    BY <1>moves, <1>typed, <1>same DEF FileIsHolders, OrphansEnd, ListensForHolder, Listens, HearsItself
  <2>4. MicrophoneTypeOK'
    BY <2>1, <1>moves, <1>typed, <1>same, <1>failures DEF MicrophoneTypeOK, Stages, Testing, SoundRecord
  <2>5. QED
    BY <2>2, <2>3, <2>4 DEF MicrophoneInv
<1>1. CASE AskForTest(s)
  <2>1. test[s] = "idle" /\ TestGoes(s, "waits") /\ UNCHANGED <<busy, sound, testFile, heard>>
    BY <1>1 DEF AskForTest, TestAt
  <2>2. ~Listens(s) /\ "waits" \in Stages /\ "waits" \notin Testing
    BY <2>1, <1>typed, <1>stages DEF SilentWithoutSound, Silent, Testing
  <2>3. QED
    BY <2>1, <2>2, <1>moves
<1>2. CASE LockBusy(s)
  <2>1. test[s] = "waits" /\ busy = Nobody /\ busy' = s /\ TestGoes(s, "clears")
        /\ UNCHANGED <<sound, testFile, heard>>
    BY <1>2 DEF LockBusy, TestAt
  <2>2. /\ test' \in [Sessions -> Stages] /\ test'[s] = "clears"
        /\ \A t \in Sessions \ {s} : test'[t] = test[t]
    BY <2>1, <1>typed, <1>stages, TestChange DEF Testing
  <2>3. HolderTests'
    BY <2>1, <2>2, <1>typed, <1>same, NobodyAssumption DEF HolderTests
  <2>4. SilentWithoutSound'
    BY <2>1, <2>2, <1>typed DEF SilentWithoutSound, Silent, Listens
  <2>5. ListensForHolder'
    BY <2>1, <1>typed, NobodyAssumption DEF ListensForHolder, Listens
  <2>6. FileIsHolders' /\ OrphansEnd' /\ HearsItself'
    BY <2>1, <1>typed, <1>same DEF FileIsHolders, OrphansEnd, HearsItself
  <2>7. MicrophoneTypeOK'
    BY <2>1, <2>2, <1>typed, <1>same, <1>failures DEF MicrophoneTypeOK, Stages, Testing, SoundRecord
  <2>8. QED
    BY <2>3, <2>4, <2>5, <2>6, <2>7 DEF MicrophoneInv
<1>3. CASE ClearTest(s)
  <2>1. test[s] = "clears" /\ TestGoes(s, "forks") /\ testFile' = Nobody /\ UNCHANGED <<busy, sound, heard>>
    BY <1>3 DEF ClearTest, TestAt
  <2>2. ~Listens(s) /\ "forks" \in Stages /\ test[s] \in Testing
    BY <2>1, <1>typed, <1>stages DEF SilentWithoutSound, Silent, Testing
  <2>3. QED
    BY <2>1, <2>2, <1>moves
<1>4. CASE ForkSound(s)
  <2>1. test[s] = "forks" /\ UNCHANGED <<busy, testFile, heard>>
    BY <1>4 DEF ForkSound, TestAt
  <2>2. ~Listens(s) /\ "returns" \in Stages /\ "spawns" \in Stages /\ test[s] \in Testing
    BY <2>1, <1>typed, <1>stages DEF SilentWithoutSound, Silent, Testing
  <2>3. CASE TestGoes(s, "returns") /\ UNCHANGED sound
    BY <2>1, <2>2, <2>3, <1>moves
  <2>4. CASE Sound(s, "forked") /\ TestGoes(s, "spawns")
    <3>1. /\ sound' \in [Sessions -> SoundRecord]
          /\ sound'[s] = [at |-> "forked", orphan |-> sound[s].orphan, interrupted |-> sound[s].interrupted,
                          wrote |-> sound[s].wrote]
          /\ \A t \in Sessions \ {s} : sound'[t] = sound[t]
      BY <2>4, <1>typed, SoundChange
    <3>2. /\ test' \in [Sessions -> Stages] /\ test'[s] = "spawns"
          /\ \A t \in Sessions \ {s} : test'[t] = test[t]
      BY <2>4, <2>2, <1>typed, TestChange
    <3>3. HolderTests' /\ SilentWithoutSound'
      BY <2>1, <2>2, <3>1, <3>2, <1>typed, <1>same DEF HolderTests, SilentWithoutSound, Silent, Listens
    <3>4. up /\ busy = s
      BY <2>2, <1>typed DEF HolderTests
    <3>5. ListensForHolder' /\ OrphansEnd'
      BY <2>1, <3>1, <3>4, <1>typed, <1>same DEF ListensForHolder, OrphansEnd, Listens
    <3>6. FileIsHolders' /\ HearsItself'
      BY <2>1, <1>typed, <1>same DEF FileIsHolders, HearsItself
    <3>7. MicrophoneTypeOK'
      BY <2>1, <3>1, <3>2, <1>typed, <1>same, <1>failures DEF MicrophoneTypeOK, Stages, Testing, SoundRecord
    <3>8. QED
      BY <3>3, <3>5, <3>6, <3>7 DEF MicrophoneInv
  <2>5. QED
    BY <1>4, <2>3, <2>4 DEF ForkSound
<1>5. CASE SoundSpawned(s) \/ AwaitSamples(s) \/ UnlinkTest(s) \/ ListenEnds(s)
  <2>1. /\ test[s] \in Testing /\ UNCHANGED <<busy, sound, heard>> /\ testFile' \in {testFile, Nobody}
        /\ \E place \in {"ready", "returns", "opens", "stops", "listens"} :
             /\ TestGoes(s, place)
             /\ place = "returns" => sound[s].at = "ended"
    BY <1>5 DEF SoundSpawned, AwaitSamples, UnlinkTest, ListenEnds, TestAt, Testing
  <2>2. {"ready", "returns", "opens", "stops", "listens"} \subseteq Stages
    BY <1>stages DEF Testing
  <2>3. PICK place \in {"ready", "returns", "opens", "stops", "listens"} :
          TestGoes(s, place) /\ (place = "returns" => sound[s].at = "ended")
    BY <2>1
  <2>4. place \in Silent => ~Listens(s)
    BY <2>3 DEF Silent, Listens
  <2>5. QED
    BY <2>1, <2>2, <2>3, <2>4, <1>moves
<1>6. CASE OpenTest(s)
  <2>1. /\ test[s] = "opens" /\ TestGoes(s, "unlinks") /\ UNCHANGED <<busy, sound, testFile>>
        /\ heard' = [heard EXCEPT ![s] = testFile]
    BY <1>6 DEF OpenTest, TestAt
  <2>2. "unlinks" \in Stages /\ test[s] \in Testing
    BY <2>1, <1>stages DEF Testing
  <2>3. /\ test' \in [Sessions -> Stages] /\ test'[s] = "unlinks"
        /\ \A t \in Sessions \ {s} : test'[t] = test[t]
    BY <2>1, <2>2, <1>typed, TestChange
  <2>4. busy = s
    BY <2>2, <1>typed DEF HolderTests
  <2>5. HearsItself'
    BY <2>1, <2>4, <1>typed, <1>same DEF HearsItself, FileIsHolders
  <2>6. HolderTests' /\ SilentWithoutSound'
    BY <2>1, <2>2, <2>3, <1>typed, <1>same DEF HolderTests, SilentWithoutSound, Silent, Listens
  <2>7. FileIsHolders' /\ OrphansEnd' /\ ListensForHolder'
    BY <2>1, <1>typed, <1>same DEF FileIsHolders, OrphansEnd, ListensForHolder, Listens
  <2>8. heard' \in [Sessions -> Sessions \cup {Nobody}]
    BY <2>1, <1>typed
  <2>9. MicrophoneTypeOK'
    BY <2>1, <2>3, <2>8, <1>typed, <1>same, <1>failures DEF MicrophoneTypeOK, Stages, Testing, SoundRecord
  <2>10. QED
    BY <2>5, <2>6, <2>7, <2>9 DEF MicrophoneInv
<1>7. CASE InterruptSound(s)
  <2> DEFINE row == [at |-> sound[s].at, orphan |-> sound[s].orphan, interrupted |-> TRUE,
                     wrote |-> sound[s].wrote]
  <2>1. /\ test[s] = "stops" /\ TestGoes(s, "exits") /\ UNCHANGED <<busy, heard, testFile>>
        /\ sound' = [sound EXCEPT ![s].interrupted = TRUE]
    BY <1>7 DEF InterruptSound, TestAt
  <2>2. [sound[s] EXCEPT !.interrupted = TRUE] = row /\ row \in SoundRecord
    BY <1>typed, SoundFlags
  <2>3. sound' = [sound EXCEPT ![s] = row]
    BY <2>1, <2>2
  <2>4. /\ sound' \in [Sessions -> SoundRecord]
        /\ \A t \in Sessions : /\ sound'[t].at = sound[t].at /\ sound'[t].orphan = sound[t].orphan
                               /\ sound[t].interrupted => sound'[t].interrupted
    BY <2>2, <2>3, <1>typed
  <2>5. "exits" \in Stages /\ test[s] \in Testing
    BY <2>1, <1>stages DEF Testing
  <2>6. /\ test' \in [Sessions -> Stages] /\ test'[s] = "exits"
        /\ \A t \in Sessions \ {s} : test'[t] = test[t]
    BY <2>1, <2>5, <1>typed, TestChange
  <2>7. HolderTests' /\ SilentWithoutSound'
    BY <2>1, <2>4, <2>5, <2>6, <1>typed, <1>same DEF HolderTests, SilentWithoutSound, Silent, Listens
  <2>8. ListensForHolder' /\ OrphansEnd'
    BY <2>1, <2>4, <1>typed, <1>same DEF ListensForHolder, OrphansEnd, Listens
  <2>9. FileIsHolders' /\ HearsItself'
    BY <2>1, <1>typed, <1>same DEF FileIsHolders, HearsItself
  <2>10. MicrophoneTypeOK'
    BY <2>1, <2>4, <2>6, <1>typed, <1>same, <1>failures DEF MicrophoneTypeOK, Stages, Testing, SoundRecord
  <2>11. QED
    BY <2>7, <2>8, <2>9, <2>10 DEF MicrophoneInv
<1>8. CASE SoundStopped(s)
  <2>1. /\ test[s] = "exits" /\ TestGoes(s, "returns") /\ UNCHANGED <<busy, heard, testFile>>
        /\ Sound(s, "ended")
    BY <1>8 DEF SoundStopped, TestAt
  <2>2. "returns" \in Stages /\ test[s] \in Testing
    BY <2>1, <1>stages DEF Testing
  <2>3. /\ sound' \in [Sessions -> SoundRecord]
        /\ sound'[s] = [at |-> "ended", orphan |-> sound[s].orphan, interrupted |-> sound[s].interrupted,
                        wrote |-> sound[s].wrote]
        /\ \A t \in Sessions \ {s} : sound'[t] = sound[t]
    BY <2>1, <1>typed, SoundChange
  <2>4. /\ test' \in [Sessions -> Stages] /\ test'[s] = "returns"
        /\ \A t \in Sessions \ {s} : test'[t] = test[t]
    BY <2>1, <2>2, <1>typed, TestChange
  <2>5. HolderTests' /\ SilentWithoutSound'
    BY <2>1, <2>2, <2>3, <2>4, <1>typed, <1>same DEF HolderTests, SilentWithoutSound, Silent, Listens
  <2>6. ListensForHolder' /\ OrphansEnd'
    BY <2>1, <2>3, <1>typed, <1>same DEF ListensForHolder, OrphansEnd, Listens
  <2>7. FileIsHolders' /\ HearsItself'
    BY <2>1, <1>typed, <1>same DEF FileIsHolders, HearsItself
  <2>8. MicrophoneTypeOK'
    BY <2>1, <2>3, <2>4, <1>typed, <1>same, <1>failures DEF MicrophoneTypeOK, Stages, Testing, SoundRecord
  <2>9. QED
    BY <2>5, <2>6, <2>7, <2>8 DEF MicrophoneInv
<1>9. CASE ReturnFromTest(s)
  <2>1. /\ test[s] = "returns" /\ TestGoes(s, "done") /\ busy' = Nobody /\ testFile' = Nobody
        /\ UNCHANGED <<sound, heard>>
    BY <1>9 DEF ReturnFromTest, TestAt
  <2>2. "done" \in Stages /\ "done" \notin Testing /\ "done" \notin Silent /\ test[s] \in Testing
    BY <2>1, <1>stages DEF Testing, Silent
  <2>3. /\ test' \in [Sessions -> Stages] /\ test'[s] = "done"
        /\ \A t \in Sessions \ {s} : test'[t] = test[t]
    BY <2>1, <2>2, <1>typed, TestChange
  <2>4. busy = s
    BY <2>2, <1>typed DEF HolderTests
  <2>5. HolderTests' /\ SilentWithoutSound'
    BY <2>1, <2>2, <2>3, <2>4, <1>typed, <1>same DEF HolderTests, SilentWithoutSound, Listens
  <2>6. ~Listens(s)
    BY <2>1, <1>typed DEF SilentWithoutSound, Silent
  <2>7. ListensForHolder'
    BY <2>1, <2>4, <2>6, <1>typed, <1>same DEF ListensForHolder, Listens
  <2>8. FileIsHolders' /\ OrphansEnd' /\ HearsItself'
    BY <2>1, <1>typed, <1>same DEF FileIsHolders, OrphansEnd, HearsItself
  <2>9. MicrophoneTypeOK'
    BY <2>1, <2>3, <1>typed, <1>same, <1>failures DEF MicrophoneTypeOK, Stages, Testing, SoundRecord
  <2>10. QED
    BY <2>5, <2>7, <2>8, <2>9 DEF MicrophoneInv
<1>10. QED
  BY <1>1, <1>2, <1>3, <1>4, <1>5, <1>6, <1>7, <1>8, <1>9 DEF TestSteps

(* The daemon's death interrupts the recorders that have armed their signal; the next start
   clears the file. *)
LEMMA RestartStep ==
  ASSUME MicrophoneInv, DaemonDies \/ RemoveLeftover
  PROVE  MicrophoneInv'
<1>typed. /\ test \in [Sessions -> Stages] /\ sound \in [Sessions -> SoundRecord]
          /\ up \in BOOLEAN /\ stray \in BOOLEAN /\ busy \in Sessions \cup {Nobody}
          /\ testFile \in Sessions \cup {Nobody} /\ heard \in [Sessions -> Sessions \cup {Nobody}]
          /\ testFailures \in 0..MaxTestFailures
          /\ HearsItself /\ HolderTests /\ FileIsHolders /\ SilentWithoutSound /\ OrphansEnd /\ ListensForHolder
  BY DEF MicrophoneInv, MicrophoneTypeOK, Stages, Testing, SoundRecord
<1>1. CASE RemoveLeftover
  <2>1. /\ ~up /\ up' = TRUE /\ testFile' = Nobody
        /\ UNCHANGED <<busy, test, sound, heard, stray, testFailures>>
    BY <1>1 DEF RemoveLeftover
  <2>2. MicrophoneTypeOK'
    BY <2>1, <1>typed DEF MicrophoneTypeOK, Stages, Testing, SoundRecord
  <2>3. HearsItself' /\ HolderTests' /\ FileIsHolders'
    BY <2>1, <1>typed DEF HearsItself, HolderTests, FileIsHolders
  <2>4. SilentWithoutSound' /\ OrphansEnd' /\ ListensForHolder'
    BY <2>1, <1>typed DEF SilentWithoutSound, OrphansEnd, ListensForHolder, Listens
  <2>5. QED
    BY <2>2, <2>3, <2>4 DEF MicrophoneInv
<1>2. CASE DaemonDies
  <2> DEFINE row(s) == [sound[s] EXCEPT !.orphan = TRUE, !.interrupted = @ \/ sound[s].at # "forked"]
  <2>1. /\ up' = FALSE /\ busy' = Nobody /\ UNCHANGED <<testFile, heard, stray>>
        /\ test' = [s \in Sessions |-> IF test[s] = "idle" THEN "idle" ELSE "cut"]
    BY <1>2 DEF DaemonDies
  <2>2. testFailures' \in 0..MaxTestFailures
    <3>1. testFailures < MaxTestFailures /\ testFailures' = testFailures + 1
      BY <1>2 DEF DaemonDies, TestMay
    <3>2. QED
      BY <3>1, <1>typed, TestBoundsAssumption
  <2>3. ASSUME NEW s \in Sessions
        PROVE  /\ row(s) \in SoundRecord /\ row(s).at = sound[s].at /\ row(s).orphan
               /\ sound[s].at = "runs" => row(s).interrupted
    <3>1. sound[s] \in SoundRecord
      BY <1>typed
    <3>2. PICK heeded \in BOOLEAN : heeded = (sound[s].interrupted \/ sound[s].at # "forked")
      OBVIOUS
    <3>3. PICK gone \in BOOLEAN : gone = TRUE
      OBVIOUS
    <3> DEFINE q == [sound[s] EXCEPT !.orphan = gone, !.interrupted = heeded]
    <3>4. row(s) = q
      BY <3>2, <3>3
    <3>5. q \in SoundRecord /\ q.at = sound[s].at /\ q.orphan = gone /\ q.interrupted = heeded
      BY <3>1, SoundOrphaned, ZenonT(40)
    <3>6. QED
      BY <3>2, <3>3, <3>4, <3>5
  <2>4. sound' = [s \in Sessions |-> IF Listens(s) THEN row(s) ELSE sound[s]]
    BY <1>2 DEF DaemonDies
  <2>5. sound' \in [Sessions -> SoundRecord]
    BY <2>3, <2>4, <1>typed
  <2>6. ASSUME NEW s \in Sessions
        PROVE  /\ Listens(s) => sound'[s].orphan /\ (sound'[s].at = "runs" => sound'[s].interrupted)
               /\ sound'[s].at = sound[s].at
               /\ ~Listens(s) => sound'[s] = sound[s]
    BY <2>3, <2>4 DEF Listens
  <2>7. \A s \in Sessions : Listens(s)' <=> Listens(s)
    BY <2>6 DEF Listens
  <2>8. OrphansEnd' /\ ListensForHolder'
    BY <2>6, <2>7 DEF OrphansEnd, ListensForHolder, Listens
  <2>9. \A s \in Sessions : test'[s] \in {"idle", "cut"} /\ (test'[s] = "idle" => test[s] = "idle")
    BY <2>1
  <2>10. test' \in [Sessions -> Stages]
    BY <2>1 DEF Stages, Before, After
  <2>11. SilentWithoutSound'
    BY <2>7, <2>9, <1>typed DEF SilentWithoutSound, Silent
  <2>12. HolderTests' /\ FileIsHolders' /\ HearsItself'
    BY <2>1, <2>9, <1>typed DEF HolderTests, FileIsHolders, HearsItself, Testing
  <2>13. MicrophoneTypeOK'
    BY <2>1, <2>2, <2>5, <2>10, <1>typed DEF MicrophoneTypeOK, Stages, Testing, SoundRecord
  <2>14. QED
    BY <2>8, <2>11, <2>12, <2>13 DEF MicrophoneInv
<1>3. QED
  BY <1>1, <1>2

(* Every step of Microphone keeps its invariant. *)
LEMMA MicrophoneStep ==
  ASSUME MicrophoneInv, [MicrophoneNext]_testVars
  PROVE  MicrophoneInv'
<1>1. CASE UNCHANGED testVars
  BY <1>1 DEF testVars, MicrophoneInv, MicrophoneTypeOK, HearsItself, HolderTests, FileIsHolders, SilentWithoutSound,
     OrphansEnd, ListensForHolder, Listens
<1>2. QED
  BY <1>1, SoundStep, TestStep, RestartStep DEF MicrophoneNext

--------------------------------------------------------------------------------
(* Ducking *)

(* The records the running process holds: the saved output, and what its worker owns. *)
Held == {stash} \cup (IF worker = NoWorker THEN {} ELSE {worker.own})

(* The stages at which a worker owns an output. *)
Owns == {"settle", "begin", "write", "keep", "forget"}

(* What a worker owns at its stages: while it runs nothing is saved beside it, it restores to
   the original of its record, and it plans a duck only when nothing is lowered. *)
WorkerOwns ==
  worker # NoWorker =>
    /\ stash = None
    /\ worker.at \in Owns => worker.own # None
    /\ worker.at = "plan" => worker.own = None
    /\ worker.at \in {"write", "keep"} => worker.left >= 1
    /\ worker.at \in {"write", "keep"} /\ worker.restoring => worker.target = worker.own.original
    /\ worker.at = "forget" /\ worker.own.sink \notin torn => volume[worker.own.sink] = 0
    /\ worker.at = "begin" => Lowered \subseteq torn

(* Every record restores what the user chose. *)
OriginalsAreTheUsers ==
  \A r \in Held \cup {journal} : r # None /\ r.sink \notin torn => r.original = 0

(* The journal names the output of every record held, from the first write on. *)
JournalNames ==
  worker.at = "begin" \/ \A r \in Held : r # None => journal # None /\ journal.sink = r.sink

(* A lowered output is held with its volume, or, once nothing is saved any more at the end of
   the process, the journal has it. *)
OwnedOrDown ==
  ~CallerAt("down") \/ stash # None =>
    \A s \in Lowered \ torn : \E r \in Held : Records(r, s)

(* After a death the journal names every output that was left lowered. *)
JournaledDown ==
  CallerAt("down") /\ stash = None => \A s \in Lowered \ torn : Records(journal, s)

(* Where the daemon's thread stands, and what it leaves running there. *)
CallerHolds ==
  /\ caller.at = "ramp" => worker = NoWorker /\ stash # None
  /\ caller.at = "down" => worker = NoWorker
  /\ caller.at \in {"free", "duck", "down"} => caller.ends = "free"
  /\ caller.ends = "down" => ~caller.fade

(* The inductive invariant of Ducking. *)
DuckingInv ==
  /\ DuckingTypeOK /\ WorkerOwns /\ OriginalsAreTheUsers /\ JournalNames
  /\ OwnedOrDown /\ JournaledDown /\ CallerHolds

(* The stages of a worker. *)
WorkerStages == {"settle", "plan", "begin", "write", "keep", "forget", "ended"}

(* The fields of a worker. *)
LEMMA WorkerFields ==
  ASSUME NEW w \in Worker
  PROVE  /\ w.at \in WorkerStages /\ w.own \in SavedOutput \cup {None}
         /\ w.target \in Volume /\ w.left \in 0..MaxSteps
         /\ w.restoring \in BOOLEAN /\ w.plan \in BOOLEAN /\ w.patient \in BOOLEAN /\ w.cancelled \in BOOLEAN
         /\ w # NoWorker
<1>1. w.at \in WorkerStages /\ w.own \in SavedOutput \cup {None}
  BY DEF Worker, WorkerStages
<1>2. w.target \in Volume /\ w.left \in 0..MaxSteps
  BY DEF Worker
<1>3. w.restoring \in BOOLEAN /\ w.plan \in BOOLEAN /\ w.patient \in BOOLEAN /\ w.cancelled \in BOOLEAN
  BY DEF Worker
<1>4. w # NoWorker
  BY <1>1 DEF WorkerStages, NoWorker
<1>5. QED
  BY <1>1, <1>2, <1>3, <1>4

(* A record is not the mark for none. *)
LEMMA NoneIsNoOutput ==
  /\ \A r \in SavedOutput : r.sink \in Sinks /\ r.original \in Volume /\ r.applied \in Volume
  /\ Volume \subseteq Nat /\ 0 \in Volume
BY FullAssumption DEF SavedOutput, Volume

(* The places of a worker that ends, and of one that goes on. *)
LEMMA EndedWorker ==
  ASSUME worker \in Worker, NEW own \in SavedOutput \cup {None}, WorkerEnds(own)
  PROVE  worker' \in Worker /\ worker'.at = "ended" /\ worker'.own = own
BY DEF Worker, WorkerEnds

(* What a lowered output is held by: the worker alone, or what is saved. *)
LEMMA HeldAlone ==
  ASSUME DuckingInv, worker \in Worker
  PROVE  /\ stash = None /\ caller.at \notin {"ramp", "down"}
         /\ \A s \in Lowered \ torn : Records(worker.own, s)
BY WorkerFields DEF DuckingInv, WorkerOwns, CallerHolds, OwnedOrDown, CallerAt, Held, Records

(* Nothing is lowered at first. *)
LEMMA DuckingInvInit == DuckingInit => DuckingInv
<1> HAVE DuckingInit
<1>1. /\ worker = NoWorker /\ stash = None /\ journal = None /\ torn = {} /\ Held = {None}
      /\ caller.at = "free" /\ caller.ends = "free" /\ caller.fade = FALSE
      /\ Lowered = {}
  BY FullAssumption DEF DuckingInit, Held, Free, Lowered
<1>2. /\ volume \in [Sinks -> Volume] /\ callFailures \in 0..MaxCallFailures /\ default \in Sinks
  BY FullAssumption, MaxCallFailuresAssumption DEF DuckingInit, Volume
<1>3. caller \in [at : {"free", "duck", "restore", "ramp", "inline", "down"},
                  fade : BOOLEAN, ends : {"free", "down"}]
  BY DEF DuckingInit, Free
<1>4. enabled \in BOOLEAN /\ recording \in BOOLEAN
  BY DEF DuckingInit
<1>5. DuckingTypeOK
  BY <1>1, <1>2, <1>3, <1>4 DEF DuckingTypeOK
<1>6. QED
  BY <1>1, <1>5 DEF DuckingInv, WorkerOwns, OriginalsAreTheUsers, JournalNames, OwnedOrDown, JournaledDown,
     CallerHolds, CallerAt

(* It implies what the user relies on. *)
LEMMA DuckingInvAccounts == DuckingInv => LoweredIsOwned /\ LoweredIsRecorded
<1> HAVE DuckingInv
<1>1. LoweredIsOwned
  <2>1. SUFFICES ASSUME ~CallerAt("down"), NEW s \in Lowered \ torn
                 PROVE  \E r \in Held : Records(r, s) /\ r.original = 0
    BY <2>1 DEF LoweredIsOwned, Held
  <2>2. PICK r \in Held : Records(r, s)
    BY <2>1 DEF DuckingInv, OwnedOrDown
  <2>3. r # None /\ r.sink = s
    BY <2>2 DEF Records
  <2>4. QED
    BY <2>2, <2>3 DEF DuckingInv, OriginalsAreTheUsers
<1>2. LoweredIsRecorded
  <2>1. SUFFICES ASSUME NEW s \in Lowered \ torn PROVE journal # None /\ journal.sink = s
    BY <2>1 DEF LoweredIsRecorded, DuckingInv, OriginalsAreTheUsers
  <2>2. CASE CallerAt("down") /\ stash = None
    BY <2>2 DEF DuckingInv, JournaledDown, Records
  <2>3. CASE ~CallerAt("down") \/ stash # None
    <3>1. PICK r \in Held : Records(r, s)
      BY <2>3 DEF DuckingInv, OwnedOrDown
    <3>2. worker.at # "begin"
      BY DEF DuckingInv, WorkerOwns, NoWorker
    <3>3. QED
      BY <3>1, <3>2 DEF DuckingInv, JournalNames, Records
  <2>4. QED
    BY <2>2, <2>3
<1>3. QED
  BY <1>1, <1>2

(* The number of failures stays within its bound. *)
LEMMA CallFailuresBounded ==
  ASSUME callFailures \in 0..MaxCallFailures,
         callFailures' = callFailures \/ (callFailures < MaxCallFailures /\ callFailures' = callFailures + 1)
  PROVE  callFailures' \in 0..MaxCallFailures
BY MaxCallFailuresAssumption

(* What the worker does. *)
LEMMA WorkerStep ==
  ASSUME DuckingInv, WorkerSteps
  PROVE  DuckingInv'
<1>typed. /\ DuckingTypeOK /\ WorkerOwns /\ OriginalsAreTheUsers /\ JournalNames
          /\ volume \in [Sinks -> Volume] /\ journal \in SavedOutput \cup {None} /\ torn \subseteq Sinks
          /\ default \in Sinks
  BY DEF DuckingInv, DuckingTypeOK
<1>worker. worker \in Worker /\ worker # NoWorker
  <2>1. worker.at \in {"settle", "plan", "begin", "write", "keep", "forget"}
    BY DEF WorkerSteps, Settle, Snapshot, Begin, StopFade, Write, Keep, ForgetRestored, Works
  <2>2. worker # NoWorker
    BY <2>1 DEF NoWorker
  <2>3. QED
    BY <2>2, <1>typed DEF DuckingTypeOK
<1>own. /\ stash = None /\ caller.at \notin {"ramp", "down"}
        /\ \A s \in Lowered \ torn : Records(worker.own, s)
        /\ worker.own # None /\ worker.own.sink \notin torn => worker.own.original = 0
        /\ worker.at \in Owns => worker.own \in SavedOutput
  BY <1>typed, <1>worker, HeldAlone, WorkerFields DEF OriginalsAreTheUsers, Held, WorkerOwns
<1>names. worker.at # "begin" /\ worker.own # None => journal # None /\ journal.sink = worker.own.sink
  BY <1>typed, <1>worker DEF JournalNames, Held
<1>journal. journal # None /\ journal.sink \notin torn => journal.original = 0
  BY <1>typed DEF OriginalsAreTheUsers
<1>same. UNCHANGED <<default, enabled, recording, stash, caller>> /\ torn \subseteq torn'
  BY DEF WorkerSteps, Settle, Snapshot, Begin, StopFade, Write, Keep, ForgetRestored
<1>failures. callFailures' \in 0..MaxCallFailures
  <2>1. callFailures' = callFailures \/ (callFailures < MaxCallFailures /\ callFailures' = callFailures + 1)
    BY DEF WorkerSteps, Settle, Snapshot, Begin, StopFade, Write, Keep, ForgetRestored, Forget, CallFine, CallMay
  <2>2. QED
    BY <1>typed, <2>1, CallFailuresBounded DEF DuckingTypeOK
(* What is left to show of a step of the worker. *)
<1>rest. ASSUME worker' \in Worker, volume' \in [Sinks -> Volume], journal' \in SavedOutput \cup {None},
                torn' \subseteq Sinks,
                worker'.at \in Owns => worker'.own # None,
                worker'.at = "plan" => worker'.own = None,
                worker'.at \in {"write", "keep"} => worker'.left >= 1,
                worker'.at \in {"write", "keep"} /\ worker'.restoring => worker'.target = worker'.own.original,
                worker'.at = "forget" /\ worker'.own.sink \notin torn' => volume'[worker'.own.sink] = 0,
                worker'.at = "begin" => Lowered' \subseteq torn',
                worker'.own # None /\ worker'.own.sink \notin torn' => worker'.own.original = 0,
                journal' # None /\ journal'.sink \notin torn' => journal'.original = 0,
                worker'.at # "begin" /\ worker'.own # None => journal' # None /\ journal'.sink = worker'.own.sink,
                \A s \in Lowered' \ torn' : Records(worker.own, s)'
         PROVE  DuckingInv'
  <2>1. worker' # NoWorker /\ Held' = {None, worker'.own}
    BY <1>rest, <1>own, <1>same, WorkerFields DEF Held
  <2>2. DuckingTypeOK'
    BY <1>rest, <1>same, <1>failures, <1>typed DEF DuckingTypeOK
  <2>3. WorkerOwns'
    BY <1>rest, <1>own, <1>same DEF WorkerOwns
  <2>4. OriginalsAreTheUsers' /\ JournalNames'
    BY <1>rest, <2>1 DEF OriginalsAreTheUsers, JournalNames
  <2>5. OwnedOrDown'
    BY <1>rest, <2>1 DEF OwnedOrDown, Records
  <2>6. JournaledDown' /\ CallerHolds'
    BY <1>own, <1>same, <1>worker, <2>1 DEF JournaledDown, CallerHolds, CallerAt, DuckingInv
  <2>7. QED
    BY <2>2, <2>3, <2>4, <2>5, <2>6 DEF DuckingInv
(* A worker that ends hands back what it owned, and leaves the rest. *)
<1>ends. ASSUME WorkerEnds(worker.own), UNCHANGED <<volume, journal, torn>>, worker.at # "begin"
         PROVE  DuckingInv'
  <2>1. worker' \in Worker /\ worker'.at = "ended" /\ worker'.own = worker.own
    BY <1>ends, <1>worker, WorkerFields, EndedWorker
  <2>2. Lowered' = Lowered /\ \A s \in Lowered' \ torn' : Records(worker.own, s)'
    BY <1>ends, <1>own, <2>1 DEF Lowered, Records
  <2>3. QED
    BY <1>rest, <1>ends, <1>typed, <1>own, <1>names, <1>journal, <2>1, <2>2 DEF Owns
(* With nothing lowered, a worker may own nothing. *)
<1>drops. ASSUME worker' \in Worker, worker'.own = None, worker'.at \in {"plan", "ended"},
                 Lowered \subseteq torn, UNCHANGED <<volume, torn>>, journal' \in {None, journal}
          PROVE  DuckingInv'
  <2>1. Lowered' = Lowered
    BY <1>drops DEF Lowered
  <2>2. QED
    BY <1>rest, <1>drops, <1>typed, <1>journal, <2>1 DEF Owns
<1>1. CASE Settle
  <2>1. worker.at = "settle" /\ worker.own \in SavedOutput /\ worker.own # None /\ UNCHANGED <<volume, torn>>
    BY <1>1, <1>own, <1>typed, <1>worker DEF Settle, Works, Owns, WorkerOwns
  <2>2. CASE /\ worker' = [worker EXCEPT !.at = "write", !.target = worker.own.original,
                                         !.left = 1, !.restoring = TRUE, !.patient = TRUE]
             /\ UNCHANGED journal
    <3>1. PICK yes \in BOOLEAN : yes = TRUE
      OBVIOUS
    <3> DEFINE next == [worker EXCEPT !.at = "write", !.target = worker.own.original, !.left = 1,
                                      !.restoring = yes, !.patient = yes]
    <3>2. worker' = next
      BY <2>2, <3>1
    <3>3. "write" \in WorkerStages /\ worker.own.original \in Volume /\ 1 \in 0..MaxSteps
      BY <2>1, MaxStepsAssumption, NoneIsNoOutput DEF WorkerStages
    <3>4. /\ next \in Worker /\ next.at = "write" /\ next.own = worker.own
          /\ next.target = worker.own.original /\ next.left = 1
      <4>1. yes \in BOOLEAN
        BY <3>1
      <4>2. QED
        <5>1. next \in Worker
          BY <1>worker, <3>3, <4>1 DEF Worker
        <5>2. /\ next.at = "write" /\ next.own = worker.own
              /\ next.target = worker.own.original /\ next.left = 1
          BY <1>worker DEF Worker
        <5>3. QED
          BY <5>1, <5>2
    <3>5. /\ worker' \in Worker /\ worker'.at = "write" /\ worker'.own = worker.own
          /\ worker'.target = worker.own.original /\ worker'.left = 1
      BY <3>2, <3>4
    <3>6. Lowered' = Lowered /\ \A s \in Lowered' \ torn' : Records(worker.own, s)'
      BY <2>1, <3>5, <1>own DEF Lowered, Records
    <3>7. QED
      BY <1>rest, <1>typed, <1>own, <1>names, <1>journal, <2>1, <2>2, <3>5, <3>6 DEF Owns
  <2>3. CASE /\ UserChanged(worker.own) /\ Forget
             /\ worker' = [worker EXCEPT !.at = "plan", !.own = None]
    <3>1. worker' \in Worker /\ worker'.at = "plan" /\ worker'.own = None
      BY <1>worker, <2>3 DEF Worker
    <3>2. Lowered \subseteq torn
      BY <2>3, <1>own DEF UserChanged, Lowered, Records
    <3>3. journal' \in {None, journal}
      BY <2>3 DEF Forget
    <3>4. QED
      BY <1>drops, <2>1, <3>1, <3>2, <3>3
  <2>4. CASE WorkerEnds(worker.own) /\ UNCHANGED journal
    BY <1>ends, <2>1, <2>4
  <2>5. QED
    BY <1>1, <2>2, <2>3, <2>4 DEF Settle
<1>2. CASE Snapshot
  <2>1. worker.at = "plan" /\ worker.own = None /\ UNCHANGED <<volume, torn, journal>>
    BY <1>2, <1>typed, <1>worker DEF Snapshot, Works, WorkerOwns
  <2>2. Lowered \subseteq torn
    BY <2>1, <1>own DEF Records
  <2>3. CASE WorkerEnds(None)
    BY <1>ends, <2>1, <2>3
  <2>4. CASE worker' = [worker EXCEPT !.at = "begin",
                          !.own = [sink |-> default, original |-> volume[default],
                                   applied |-> volume[default]]]
    <3> DEFINE read == [sink |-> default, original |-> volume[default], applied |-> volume[default]]
    <3>1. read \in SavedOutput
      BY <1>typed DEF SavedOutput
    <3>2. worker' \in Worker /\ worker'.at = "begin" /\ worker'.own = read
      BY <1>worker, <2>4, <3>1 DEF Worker
    <3>3. default \notin torn => volume[default] = 0
      <4>1. volume[default] \in Nat
        BY <1>typed, NoneIsNoOutput
      <4>2. default \notin torn => ~(volume[default] > 0)
        BY <1>typed, <2>2 DEF Lowered
      <4>3. QED
        BY <4>1, <4>2
    <3>4. Lowered' \subseteq torn'
      BY <2>1, <2>2 DEF Lowered
    <3>5. read # None
      BY DEF None
    <3>6. QED
      BY <1>rest, <1>typed, <1>journal, <2>1, <3>1, <3>2, <3>3, <3>4, <3>5
  <2>5. QED
    BY <1>2, <2>3, <2>4 DEF Snapshot
<1>3. CASE Begin
  <2>1. worker.at = "begin" /\ worker.own \in SavedOutput /\ worker.own # None /\ UNCHANGED <<volume, torn>>
    BY <1>3, <1>own, <1>typed, <1>worker DEF Begin, Works, Owns, WorkerOwns
  <2>2. Lowered \subseteq torn /\ Lowered' \subseteq torn'
    BY <2>1, <1>typed, <1>worker DEF WorkerOwns, Lowered
  <2>3. CASE journal' = worker.own /\ \E n \in 1..MaxSteps : worker' = FadeDown(n)
    <3>1. PICK n \in 1..MaxSteps : worker' = FadeDown(n)
      BY <2>3
    <3>2. PICK no \in BOOLEAN : no = FALSE
      OBVIOUS
    <3> DEFINE next == [worker EXCEPT !.at = "write", !.target = Full, !.left = n,
                                      !.restoring = no, !.patient = no]
    <3>3. worker' = next
      BY <3>1, <3>2 DEF FadeDown
    <3>4. "write" \in WorkerStages /\ Full \in Volume /\ n \in 0..MaxSteps /\ n >= 1
      BY FullAssumption, MaxStepsAssumption DEF WorkerStages, Volume
    <3>5. next \in Worker /\ next.at = "write" /\ next.own = worker.own /\ next.left = n /\ next.restoring = no
      <4>1. no \in BOOLEAN
        BY <3>2
      <4>2. QED
        <5>1. next \in Worker
          BY <1>worker, <3>4, <4>1 DEF Worker
        <5>2. next.at = "write" /\ next.own = worker.own /\ next.left = n
          BY <1>worker DEF Worker
        <5>3. next.restoring = no
          BY <1>worker DEF Worker
        <5>4. QED
          BY <5>1, <5>2, <5>3
    <3>6. /\ worker' \in Worker /\ worker'.at = "write" /\ worker'.own = worker.own
          /\ worker'.left >= 1 /\ ~worker'.restoring
      BY <3>2, <3>3, <3>4, <3>5
    <3>7. \A s \in Lowered' \ torn' : Records(worker.own, s)'
      BY <2>2
    <3>8. QED
      BY <1>rest, <1>typed, <1>own, <2>1, <2>2, <2>3, <3>6, <3>7 DEF Owns
  <2>4. CASE WorkerEnds(None) /\ UNCHANGED journal
    <3>1. worker' \in Worker /\ worker'.at = "ended" /\ worker'.own = None
      BY <1>worker, <2>4, EndedWorker
    <3>2. QED
      BY <1>drops, <2>1, <2>2, <2>4, <3>1
  <2>5. QED
    BY <1>3, <2>3, <2>4 DEF Begin
<1>4. CASE StopFade
  BY <1>4, <1>ends DEF StopFade, Works
<1>5. CASE Write
  <2> DEFINE sink == worker.own.sink
             restored == worker.restoring /\ worker.left = 1
  <2>1. worker.at = "write" /\ worker.own \in SavedOutput /\ worker.own # None /\ UNCHANGED journal
    BY <1>5, <1>own, <1>typed, <1>worker DEF Write, Works, Owns, WorkerOwns
  <2>2. /\ sink \in Sinks /\ worker.left >= 1 /\ worker.left \in 0..MaxSteps
        /\ worker.restoring => worker.target = worker.own.original
        /\ RampPlan \subseteq Volume
        /\ worker.left = 1 => RampPlan = {worker.target}
    BY <2>1, <1>typed, <1>worker, WorkerFields, NoneIsNoOutput DEF WorkerOwns, RampPlan
  <2>3. ASSUME NEW v \in RampPlan, volume' = [volume EXCEPT ![sink] = v]
        PROVE  /\ volume' \in [Sinks -> Volume] /\ volume'[sink] = v
               /\ \A s \in Lowered' : s = sink \/ s \in Lowered
    BY <2>2, <2>3, <1>typed DEF Lowered
  <2>4. CASE /\ \E v \in RampPlan :
                  /\ volume' = [volume EXCEPT ![sink] = v]
                  /\ worker' = [worker EXCEPT !.at = IF restored THEN "forget" ELSE "keep",
                                              !.own.applied = v]
             /\ UNCHANGED torn
    <3>1. PICK v \in RampPlan :
            /\ volume' = [volume EXCEPT ![sink] = v]
            /\ worker' = [worker EXCEPT !.at = IF restored THEN "forget" ELSE "keep", !.own.applied = v]
      BY <2>4
    <3> DEFINE lower == [sink |-> sink, original |-> worker.own.original, applied |-> v]
    <3>2. [worker.own EXCEPT !.applied = v] = lower /\ lower \in SavedOutput /\ lower # None
      BY <2>1, <2>2 DEF SavedOutput, None
    <3>3. worker' \in Worker
      BY <1>worker, <3>1, <3>2 DEF Worker
    <3>4. /\ worker'.own = lower /\ worker'.left = worker.left
          /\ worker'.at = IF restored THEN "forget" ELSE "keep"
          /\ worker'.restoring = worker.restoring /\ worker'.target = worker.target
      BY <1>worker, <3>1, <3>2 DEF Worker
    <3>5. restored /\ sink \notin torn => v = 0
      BY <2>1, <2>2, <1>own
    <3>6. \A s \in Lowered' \ torn' : Records(worker.own, s)'
      <4>1. SUFFICES ASSUME NEW s \in Lowered' \ torn' PROVE Records(worker.own, s)'
        OBVIOUS
      <4>2. volume'[sink] = v /\ (s = sink \/ s \in Lowered)
        BY <2>3, <3>1, <4>1
      <4>3. s = sink
        BY <2>4, <4>1, <4>2, <1>own DEF Records
      <4>4. worker'.own # None /\ worker'.own.sink = s /\ worker'.own.applied = volume'[s]
        BY <3>2, <3>4, <4>2, <4>3
      <4>5. QED
        BY <4>4 DEF Records
    <3>7. QED
      BY <1>rest, <1>typed, <1>own, <1>names, <1>journal, <2>1, <2>2, <2>3, <2>4, <3>1, <3>2, <3>3, <3>4, <3>5, <3>6
  <2>5. CASE WorkerEnds(worker.own) /\ UNCHANGED <<volume, torn>>
    BY <1>ends, <2>1, <2>5
  <2>6. CASE /\ WorkerEnds(worker.own)
             /\ \E v \in RampPlan : volume' = [volume EXCEPT ![sink] = v]
             /\ torn' = torn \cup {sink}
    <3>1. worker' \in Worker /\ worker'.at = "ended" /\ worker'.own = worker.own
      BY <2>1, <2>6, <1>worker, EndedWorker
    <3>2. volume' \in [Sinks -> Volume] /\ \A s \in Lowered' : s = sink \/ s \in Lowered
      BY <2>3, <2>6
    <3>3. \A s \in Lowered' \ torn' : Records(worker.own, s)'
      BY <2>1, <2>2, <2>6, <3>1, <3>2, <1>own, <1>typed DEF Records
    <3>4. QED
      BY <1>rest, <1>typed, <1>own, <1>names, <1>journal, <2>1, <2>2, <2>6, <3>1, <3>2, <3>3 DEF Owns
  <2>7. QED
    BY <1>5, <2>4, <2>5, <2>6 DEF Write
<1>6. CASE Keep
  <2>1. worker.at = "keep" /\ worker.own \in SavedOutput /\ worker.own # None /\ UNCHANGED <<volume, torn>>
    BY <1>6, <1>own, <1>typed, <1>worker DEF Keep, Works, Owns, WorkerOwns
  <2>2. worker.left \in 1..MaxSteps
    BY <2>1, <1>typed, <1>worker, WorkerFields, MaxStepsAssumption DEF WorkerOwns
  <2>3. worker' = [worker EXCEPT !.left = worker.left - 1, !.at = IF worker.left = 1 THEN "ended" ELSE "write"]
    BY <1>6 DEF Keep
  <2>4. worker.left - 1 \in 0..MaxSteps /\ (worker.left # 1 => worker.left - 1 >= 1)
    BY <2>2, MaxStepsAssumption
  <2>5. worker' \in Worker
    BY <1>worker, <2>3, <2>4 DEF Worker
  <2>6. /\ worker'.own = worker.own /\ worker'.left = worker.left - 1
        /\ worker'.at = IF worker.left = 1 THEN "ended" ELSE "write"
        /\ worker'.restoring = worker.restoring /\ worker'.target = worker.target
    BY <1>worker, <2>3 DEF Worker
  <2>7. journal' = worker.own \/ journal' = journal
    BY <1>6 DEF Keep
  <2>8. worker.restoring => worker.target = worker.own.original
    BY <2>1, <1>typed, <1>worker DEF WorkerOwns
  <2>9. \A s \in Lowered' \ torn' : Records(worker.own, s)'
    BY <2>1, <2>6, <1>own DEF Lowered, Records
  <2>10. QED
    BY <1>rest, <1>typed, <1>own, <1>names, <1>journal, <2>1, <2>4, <2>5, <2>6, <2>7, <2>8, <2>9
<1>7. CASE ForgetRestored
  <2>1. /\ worker.at = "forget" /\ worker.own # None /\ UNCHANGED <<volume, torn>>
        /\ worker.own.sink \notin torn => volume[worker.own.sink] = 0
    BY <1>7, <1>typed, <1>worker DEF ForgetRestored, Works, Owns, WorkerOwns
  <2>2. Lowered \subseteq torn
    BY <2>1, <1>own DEF Lowered, Records
  <2>3. worker' = [worker EXCEPT !.own = None, !.at = IF worker.plan THEN "plan" ELSE "ended"]
    BY <1>7 DEF ForgetRestored
  <2>4. worker' \in Worker /\ worker'.own = None /\ worker'.at \in {"plan", "ended"}
    BY <1>worker, <2>3 DEF Worker
  <2>5. journal' \in {None, journal}
    BY <1>7 DEF ForgetRestored, Forget
  <2>6. QED
    BY <1>drops, <2>1, <2>2, <2>4, <2>5
<1>8. QED
  BY <1>1, <1>2, <1>3, <1>4, <1>5, <1>6, <1>7 DEF WorkerSteps

(* The places of the daemon's thread. *)
Callers == [at : {"free", "duck", "restore", "ramp", "inline", "down"}, fade : BOOLEAN, ends : {"free", "down"}]

(* The calls of the daemon's thread are sound ones. *)
LEMMA CallerPlaces ==
  /\ Free \in Callers /\ Free.at = "free" /\ Free.ends = "free"
  /\ Ducks \in Callers /\ Ducks.at = "duck" /\ Ducks.ends = "free"
  /\ \A fade \in BOOLEAN :
       Restores(fade) \in Callers /\ Restores(fade).at = "restore" /\ Restores(fade).ends = "free"
  /\ Drops \in Callers /\ Drops.at = "restore" /\ ~Drops.fade
  /\ Down \in Callers /\ Down.at = "down" /\ Down.ends = "free"
<1>1. Free \in Callers /\ Free.at = "free" /\ Free.ends = "free" /\ ~Free.fade
  BY DEF Free, Callers
<1>2. ASSUME NEW at \in {"duck", "restore", "down"}
      PROVE  /\ [Free EXCEPT !.at = at] \in Callers /\ [Free EXCEPT !.at = at].at = at
             /\ [Free EXCEPT !.at = at].ends = "free"
  BY <1>1 DEF Callers
<1>3. ASSUME NEW fade \in BOOLEAN
      PROVE  Restores(fade) \in Callers /\ Restores(fade).at = "restore" /\ Restores(fade).ends = "free"
  BY <1>1 DEF Callers, Restores
<1>4. \A fade \in BOOLEAN : Restores(fade).fade = fade
  BY <1>1 DEF Callers, Restores
<1>5. Restores(FALSE) \in Callers /\ Restores(FALSE).at = "restore" /\ ~Restores(FALSE).fade
  BY <1>3, <1>4
<1>6. Drops \in Callers /\ Drops.at = "restore" /\ ~Drops.fade
  BY <1>5 DEF Drops, Callers
<1>7. QED
  BY <1>1, <1>2, <1>3, <1>6 DEF Ducks, Down

(* A call returns to where it was made. *)
LEMMA CallerReturns ==
  ASSUME caller \in Callers, Returns
  PROVE  caller' \in Callers /\ caller'.at = caller.ends /\ caller'.ends = "free" /\ ~caller'.fade
<1>1. caller' = [at |-> caller.ends, fade |-> FALSE, ends |-> "free"] /\ caller.ends \in {"free", "down"}
  BY DEF Returns, Free, Callers
<1>2. caller' \in Callers
  BY <1>1 DEF Callers
<1>3. QED
  BY <1>1, <1>2

(* A call goes on without losing where it returns to. *)
LEMMA CallerMoves ==
  ASSUME caller \in Callers, NEW at \in {"ramp", "inline"}, caller' = [caller EXCEPT !.at = at]
  PROVE  caller' \in Callers /\ caller'.at = at /\ caller'.ends = caller.ends /\ caller'.fade = caller.fade
BY DEF Callers

(* What a step leaves held stays accounted for. *)
LEMMA HeldKept ==
  ASSUME DuckingInv, UNCHANGED <<volume, journal, torn>>, ~CallerAt("down"),
         Held' \subseteq Held \cup {None}, Held \subseteq Held' \cup {None},
         worker'.at = "begin" \/ worker.at # "begin",
         worker' \in Worker \cup {NoWorker}, stash' \in SavedOutput \cup {None}, caller' \in Callers,
         default' \in Sinks, enabled' \in BOOLEAN, recording' \in BOOLEAN,
         callFailures' \in 0..MaxCallFailures, WorkerOwns', CallerHolds'
  PROVE  DuckingInv'
<1>1. DuckingTypeOK'
  BY DEF DuckingTypeOK, DuckingInv, Callers
<1>2. OriginalsAreTheUsers'
  BY DEF OriginalsAreTheUsers, DuckingInv
<1>3. JournalNames'
  BY DEF JournalNames, DuckingInv
<1>4. \A s \in Lowered \ torn : \E r \in Held : Records(r, s)
  BY DEF DuckingInv, OwnedOrDown
<1>5. Lowered' = Lowered /\ \A r, s : Records(r, s)' <=> r' # None /\ r'.sink = s' /\ r'.applied = volume[s']
  BY DEF Lowered, Records
<1>6. ASSUME NEW s \in Lowered' \ torn' PROVE \E r \in Held' : Records(r, s)'
  <2>1. PICK r \in Held : Records(r, s)
    BY <1>4, <1>5
  <2>2. r \in Held' /\ r # None
    BY <2>1 DEF Records
  <2>3. QED
    BY <2>1, <2>2 DEF Records
<1>7. OwnedOrDown'
  BY <1>6 DEF OwnedOrDown, Records
<1>8. JournaledDown'
  <2>1. SUFFICES ASSUME caller'.at = "down", stash' = None PROVE Lowered' \subseteq torn'
    BY <2>1 DEF JournaledDown, CallerAt
  <2>2. Held' = {None}
    BY <2>1 DEF CallerHolds, Held
  <2>3. QED
    BY <1>4, <1>5, <2>2 DEF Records
<1>9. QED
  BY <1>1, <1>2, <1>3, <1>7, <1>8 DEF DuckingInv

(* What the daemon asks for, and what the user does. *)
LEMMA AskStep ==
  ASSUME DuckingInv,
         StartRecording \/ EndRecording \/ UpdateSettings \/ Drop \/ \E s \in Sinks : SetVolume(s) \/ PickOutput(s)
  PROVE  DuckingInv'
<1>typed. /\ DuckingTypeOK /\ WorkerOwns /\ CallerHolds /\ caller \in Callers /\ volume \in [Sinks -> Volume]
  BY DEF DuckingInv, DuckingTypeOK, Callers
<1>same. UNCHANGED <<journal, stash, worker, torn, callFailures>> /\ Held' = Held
  BY DEF StartRecording, EndRecording, UpdateSettings, Drop, SetVolume, PickOutput, Held
<1>rest. default' \in Sinks /\ enabled' \in BOOLEAN /\ recording' \in BOOLEAN
  <2>1. default' \in Sinks
    BY <1>typed DEF DuckingTypeOK, StartRecording, EndRecording, UpdateSettings, Drop, SetVolume, PickOutput
  <2>2. enabled' \in BOOLEAN
    <3>1. enabled' = enabled \/ enabled' = ~enabled
      BY DEF StartRecording, EndRecording, UpdateSettings, Drop, SetVolume, PickOutput
    <3>2. QED
      BY <3>1, <1>typed DEF DuckingTypeOK
  <2>3. recording' \in BOOLEAN
    <3>1. recording' = recording \/ recording' = TRUE \/ recording' = FALSE
      BY DEF StartRecording, EndRecording, UpdateSettings, Drop, SetVolume, PickOutput
    <3>2. QED
      BY <3>1, <1>typed DEF DuckingTypeOK
  <2>4. QED
    BY <2>1, <2>2, <2>3
<1>1. CASE StartRecording \/ EndRecording \/ UpdateSettings \/ Drop
  <2>1. /\ caller.at = "free" /\ UNCHANGED volume
        /\ caller' \in {Ducks, Restores(TRUE), Restores(FALSE), Free, Drops}
    BY <1>1 DEF StartRecording, EndRecording, UpdateSettings, Drop, CallerAt
  <2>2. caller' \in Callers /\ caller'.at \in {"free", "duck", "restore"}
    BY <2>1, CallerPlaces
  <2>3. caller'.at # "restore" => caller'.ends = "free"
    BY <2>1, CallerPlaces
  <2>4. caller'.ends = "down" => ~caller'.fade
    BY <2>1, CallerPlaces
  <2>7. CallerHolds'
    BY <2>2, <2>3, <2>4 DEF CallerHolds
  <2>5. WorkerOwns'
    BY <2>1, <1>typed, <1>same DEF WorkerOwns, Lowered
  <2>6. QED
    BY <1>typed, <1>same, <1>rest, <2>1, <2>2, <2>5, <2>7, HeldKept DEF CallerAt, DuckingTypeOK
<1>2. CASE \E s \in Sinks : PickOutput(s)
  <2>1. UNCHANGED <<volume, caller>>
    BY <1>2 DEF PickOutput
  <2>2. WorkerOwns' /\ CallerHolds'
    BY <2>1, <1>typed, <1>same DEF WorkerOwns, CallerHolds, Lowered
  <2>3. DuckingTypeOK'
    BY <2>1, <1>typed, <1>same, <1>rest DEF DuckingTypeOK
  <2>4. QED
    BY <2>1, <2>2, <2>3, <1>same DEF DuckingInv, OriginalsAreTheUsers, JournalNames, OwnedOrDown, JournaledDown,
       CallerAt, Lowered, Records
<1>3. ASSUME NEW s \in Sinks, SetVolume(s) PROVE DuckingInv'
  <2>1. volume' = [volume EXCEPT ![s] = 0] /\ UNCHANGED <<default, enabled, recording, caller>>
    BY <1>3 DEF SetVolume
  <2>2. volume' \in [Sinks -> Volume]
    BY <2>1, <1>typed, NoneIsNoOutput
  <2>3. \A t \in Sinks : volume'[t] = 0 \/ volume'[t] = volume[t]
    BY <2>1, <1>typed
  <2>4. Lowered' \subseteq Lowered /\ \A t \in Lowered' : volume'[t] = volume[t]
    BY <2>3 DEF Lowered
  <2>5. WorkerOwns'
    <3>1. worker.own # None /\ worker # NoWorker => worker.own.sink \in Sinks
      BY <1>typed, WorkerFields, NoneIsNoOutput DEF DuckingTypeOK
    <3>2. QED
      BY <2>3, <2>4, <3>1, <1>typed, <1>same DEF WorkerOwns, Owns
  <2>6. OwnedOrDown' /\ JournaledDown'
    BY <2>1, <2>4, <1>same DEF DuckingInv, OwnedOrDown, JournaledDown, CallerAt, Records
  <2>7. OriginalsAreTheUsers' /\ JournalNames' /\ CallerHolds'
    BY <2>1, <1>same DEF DuckingInv, OriginalsAreTheUsers, JournalNames, CallerHolds
  <2>8. DuckingTypeOK'
    BY <2>1, <2>2, <1>typed, <1>same DEF DuckingTypeOK
  <2>9. QED
    BY <2>5, <2>6, <2>7, <2>8 DEF DuckingInv
<1>4. QED
  BY <1>1, <1>2, <1>3

(* Handing records between the daemon's thread and its worker. *)
LEMMA HandStep ==
  ASSUME DuckingInv, CancelWorker \/ JoinWorker \/ Duck \/ Ramp \/ InlineDone
  PROVE  DuckingInv'
<1>typed. /\ DuckingTypeOK /\ WorkerOwns /\ CallerHolds /\ caller \in Callers /\ volume \in [Sinks -> Volume]
          /\ stash \in SavedOutput \cup {None} /\ worker \in Worker \cup {NoWorker}
  BY DEF DuckingInv, DuckingTypeOK, Callers
<1>same. UNCHANGED <<volume, default, enabled, recording, journal, torn, callFailures>>
  BY DEF CancelWorker, JoinWorker, Duck, Ramp, InlineDone
<1>up. ~CallerAt("down")
  BY DEF CancelWorker, JoinWorker, Duck, Ramp, InlineDone, CallerAt, StopsWorker
<1>rest. ASSUME worker' \in Worker \cup {NoWorker}, stash' \in SavedOutput \cup {None}, caller' \in Callers,
                Held' \subseteq Held \cup {None}, Held \subseteq Held' \cup {None},
                worker'.at = "begin" \/ worker.at # "begin", WorkerOwns', CallerHolds'
         PROVE  DuckingInv'
  BY <1>rest, <1>typed, <1>same, <1>up, HeldKept DEF DuckingTypeOK
<1>1. CASE CancelWorker
  <2>1. worker \in Worker /\ worker # NoWorker /\ UNCHANGED <<stash, caller>>
    BY <1>1, <1>typed DEF CancelWorker
  <2>2. worker' = [worker EXCEPT !.cancelled = TRUE]
    BY <1>1 DEF CancelWorker
  <2>3. worker' \in Worker
    <3>1. PICK yes \in BOOLEAN : yes = TRUE
      OBVIOUS
    <3>2. worker' = [worker EXCEPT !.cancelled = yes]
      BY <2>2, <3>1
    <3>3. yes \in BOOLEAN
      BY <3>1
    <3>4. QED
      BY <2>1, <3>2, <3>3 DEF Worker
  <2>4. /\ worker'.at = worker.at /\ worker'.own = worker.own /\ worker'.left = worker.left
        /\ worker'.restoring = worker.restoring /\ worker'.target = worker.target
    BY <2>1, <2>2 DEF Worker
  <2>5. worker' # NoWorker
    BY <2>3, WorkerFields
  <2>6. Held' = Held
    BY <2>1, <2>4, <2>5 DEF Held
  <2>7. WorkerOwns'
    BY <2>1, <2>4, <1>same, <1>typed DEF WorkerOwns, Lowered
  <2>8. CallerHolds'
    BY <2>1, <1>typed DEF CallerHolds
  <2>9. QED
    BY <1>rest, <1>typed, <2>1, <2>3, <2>4, <2>6, <2>7, <2>8
<1>2. CASE JoinWorker
  <2>1. /\ worker.at = "ended" /\ worker' = NoWorker /\ stash' = worker.own /\ UNCHANGED caller
        /\ caller.at \in {"duck", "restore"}
    BY <1>2 DEF JoinWorker, Works, StopsWorker, CallerAt
  <2>2. worker # NoWorker /\ worker \in Worker
    BY <2>1, <1>typed DEF NoWorker
  <2>3. stash' \in SavedOutput \cup {None} /\ stash = None
    BY <2>1, <2>2, <1>typed, WorkerFields DEF WorkerOwns
  <2>4. Held = {None, worker.own} /\ Held' = {worker.own}
    BY <2>1, <2>2, <2>3 DEF Held
  <2>5. WorkerOwns' /\ CallerHolds'
    BY <2>1, <1>typed DEF WorkerOwns, CallerHolds
  <2>6. QED
    BY <1>rest, <1>typed, <2>1, <2>3, <2>4, <2>5
<1>3. CASE InlineDone
  <2>1. worker.at = "ended" /\ worker' = NoWorker /\ stash' = worker.own /\ Returns
    BY <1>3 DEF InlineDone, Works
  <2>2. worker # NoWorker /\ worker \in Worker
    BY <2>1, <1>typed DEF NoWorker
  <2>3. stash' \in SavedOutput \cup {None} /\ stash = None
    BY <2>1, <2>2, <1>typed, WorkerFields DEF WorkerOwns
  <2>4. Held = {None, worker.own} /\ Held' = {worker.own}
    BY <2>1, <2>2, <2>3 DEF Held
  <2>5. /\ caller' \in Callers /\ caller'.at = caller.ends /\ caller'.ends = "free" /\ ~caller'.fade
        /\ caller.ends \in {"free", "down"}
    BY <2>1, <1>typed, CallerReturns DEF Callers
  <2>6. WorkerOwns' /\ CallerHolds'
    BY <2>1, <2>5 DEF WorkerOwns, CallerHolds
  <2>7. QED
    BY <1>rest, <2>1, <2>3, <2>4, <2>5, <2>6
<1>4. CASE Duck
  <2>1. caller.at = "duck" /\ caller.ends = "free" /\ worker = NoWorker /\ Held = {stash}
    BY <1>4, <1>typed DEF Duck, CallerAt, CallerHolds, Held
  <2>2. CASE ~enabled /\ stash = None
    <3>1. Returns /\ UNCHANGED <<stash, worker>>
      BY <1>4, <2>2 DEF Duck
    <3>2. caller' \in Callers /\ caller'.at = "free" /\ caller'.ends = "free"
      BY <2>1, <3>1, <1>typed, CallerReturns
    <3>3. WorkerOwns' /\ CallerHolds' /\ Held' = Held
      BY <2>1, <3>1, <3>2, <1>typed, CallerReturns DEF WorkerOwns, CallerHolds, Held
    <3>4. QED
      BY <1>rest, <1>typed, <2>1, <3>1, <3>2, <3>3 DEF NoWorker
  <2>3. CASE ~(~enabled /\ stash = None)
    <3>1. /\ worker' = [at |-> IF stash = None THEN "plan" ELSE "settle", own |-> stash,
                        target |-> 0, left |-> 0, restoring |-> FALSE, plan |-> enabled,
                        patient |-> FALSE, cancelled |-> FALSE]
          /\ stash' = None
          /\ Returns \/ caller' = [caller EXCEPT !.at = "inline"]
      BY <1>4, <2>3 DEF Duck
    <3>2. worker' \in Worker
      <4>1. enabled \in BOOLEAN
        BY <1>typed DEF DuckingTypeOK
      <4>2. QED
        BY <3>1, <4>1, <1>typed, NoneIsNoOutput, MaxStepsAssumption DEF Worker
    <3>3. /\ worker'.at = (IF stash = None THEN "plan" ELSE "settle") /\ worker'.own = stash
          /\ worker' # NoWorker
      BY <3>1, <3>2, WorkerFields
    <3>4. Held' = {None, stash}
      BY <3>1, <3>3 DEF Held
    <3>5. /\ caller' \in Callers /\ caller'.at \in {"free", "inline"}
          /\ caller'.ends = "free"
      BY <2>1, <3>1, <1>typed, CallerReturns, CallerMoves
    <3>6. WorkerOwns' /\ CallerHolds'
      BY <3>1, <3>3, <3>5 DEF WorkerOwns, CallerHolds, Owns
    <3>7. QED
      BY <1>rest, <2>1, <3>1, <3>2, <3>4, <3>5, <3>6 DEF NoWorker
  <2>4. QED
    BY <2>2, <2>3
<1>5. CASE Ramp
  <2>1. caller.at = "ramp" /\ worker = NoWorker /\ stash \in SavedOutput /\ stash # None /\ Held = {stash}
        /\ stash' = None
    BY <1>5, <1>typed DEF Ramp, CallerAt, CallerHolds, Held
  <2>2. PICK n \in 1..MaxSteps, inPlace \in BOOLEAN :
          /\ caller.fade \/ inPlace
          /\ worker' = [at |-> "write", own |-> stash, target |-> stash.original, left |-> n,
                        restoring |-> TRUE, plan |-> FALSE, patient |-> inPlace, cancelled |-> FALSE]
          /\ IF inPlace THEN caller' = [caller EXCEPT !.at = "inline"] ELSE Returns
    BY <1>5 DEF Ramp
  <2>3. worker' \in Worker
    <3>1. inPlace \in BOOLEAN /\ n \in 0..MaxSteps /\ stash.original \in Volume
      BY <2>1, MaxStepsAssumption, NoneIsNoOutput
    <3>2. QED
      BY <2>1, <2>2, <3>1 DEF Worker
  <2>4. /\ worker'.at = "write" /\ worker'.own = stash /\ worker'.left = n
        /\ worker'.target = stash.original /\ n >= 1
    BY <2>2, MaxStepsAssumption
  <2>5. Held' = {None, stash}
    BY <2>1, <2>3, <2>4, WorkerFields DEF Held
  <2>6. /\ caller' \in Callers /\ caller'.at \in {"inline", "free"}
        /\ caller'.ends = "down" => ~caller'.fade
        /\ caller'.at = "free" => caller'.ends = "free"
    <3>1. CASE caller' = [caller EXCEPT !.at = "inline"]
      BY <3>1, <1>typed, CallerMoves DEF CallerHolds
    <3>2. CASE Returns /\ caller.fade
      <4>1. caller.ends = "free"
        BY <3>2, <1>typed DEF CallerHolds, Callers
      <4>2. QED
        BY <3>2, <4>1, <1>typed, CallerReturns
    <3>3. QED
      BY <2>2, <3>1, <3>2
  <2>7. WorkerOwns' /\ CallerHolds'
    BY <2>1, <2>4, <2>6 DEF WorkerOwns, CallerHolds, Owns
  <2>8. QED
    BY <1>rest, <2>1, <2>3, <2>4, <2>5, <2>6, <2>7 DEF NoWorker
<1>6. QED
  BY <1>1, <1>2, <1>3, <1>4, <1>5

(* Restoring, and the end of a process and the start of the next. *)
LEMMA EndStep ==
  ASSUME DuckingInv, Restore \/ Leave \/ Open \/ Die
  PROVE  DuckingInv'
<1>typed. /\ DuckingTypeOK /\ WorkerOwns /\ CallerHolds /\ caller \in Callers /\ volume \in [Sinks -> Volume]
          /\ stash \in SavedOutput \cup {None} /\ journal \in SavedOutput \cup {None} /\ torn \subseteq Sinks
          /\ OriginalsAreTheUsers
  BY DEF DuckingInv, DuckingTypeOK, Callers
<1>same. UNCHANGED <<volume, default, enabled>> /\ recording' \in {recording, FALSE} /\ Lowered' = Lowered
  BY DEF Restore, Leave, Open, Die, Lowered
<1>recording. recording' \in BOOLEAN
  BY <1>same, <1>typed DEF DuckingTypeOK
<1>failures. callFailures' \in 0..MaxCallFailures
  <2>1. callFailures' = callFailures \/ (callFailures < MaxCallFailures /\ callFailures' = callFailures + 1)
    BY DEF Restore, Leave, Open, Die, Forget, CallFine, CallMay
  <2>2. QED
    BY <1>typed, <2>1, CallFailuresBounded DEF DuckingTypeOK
<1>1. CASE Restore
  <2>1. caller.at = "restore" /\ worker = NoWorker /\ Held = {stash} /\ UNCHANGED <<worker, torn>>
    BY <1>1 DEF Restore, CallerAt, Held
  <2>2. WorkerOwns'
    BY <2>1 DEF WorkerOwns
  <2>3. CASE Returns /\ UNCHANGED <<journal, stash>>
    <3>1. /\ caller' \in Callers /\ caller'.at = caller.ends /\ caller'.ends = "free" /\ ~caller'.fade
          /\ caller.ends \in {"free", "down"}
      BY <2>3, <1>typed, CallerReturns DEF Callers
    <3>2. CallerHolds' /\ Held' = Held
      BY <2>1, <2>3, <3>1 DEF CallerHolds, Held
    <3>3. QED
      BY <1>typed, <1>same, <1>recording, <1>failures, <2>1, <2>2, <2>3, <3>1, <3>2, HeldKept
         DEF CallerAt, DuckingTypeOK, NoWorker
  <2>4. CASE stash # None /\ caller' = [caller EXCEPT !.at = "ramp"] /\ UNCHANGED <<journal, stash>>
    <3>1. caller' \in Callers /\ caller'.at = "ramp" /\ caller'.ends = caller.ends /\ caller'.fade = caller.fade
      BY <2>4, <1>typed, CallerMoves
    <3>2. CallerHolds' /\ Held' = Held
      BY <2>1, <2>4, <3>1, <1>typed DEF CallerHolds, Held
    <3>3. QED
      BY <1>typed, <1>same, <1>recording, <1>failures, <2>1, <2>2, <2>4, <3>1, <3>2, HeldKept
         DEF CallerAt, DuckingTypeOK, NoWorker
  <2>5. CASE stash # None /\ UserChanged(stash) /\ Forget /\ stash' = None /\ Returns
    <3>1. /\ caller' \in Callers /\ caller'.at = caller.ends /\ caller'.ends = "free" /\ ~caller'.fade
          /\ caller.ends \in {"free", "down"}
      BY <2>5, <1>typed, CallerReturns DEF Callers
    <3>2. Lowered \subseteq torn
      <4>1. \A s \in Lowered \ torn : Records(stash, s)
        BY <2>1 DEF DuckingInv, OwnedOrDown, CallerAt
      <4>2. QED
        BY <2>5, <4>1 DEF UserChanged, Records, Lowered
    <3>3. journal' \in {None, journal} /\ Held' = {None}
      BY <2>1, <2>5 DEF Forget, Held
    <3>4. CallerHolds'
      BY <2>1, <3>1 DEF CallerHolds
    <3>5. OriginalsAreTheUsers' /\ JournalNames' /\ OwnedOrDown' /\ JournaledDown'
      BY <1>typed, <1>same, <2>1, <3>2, <3>3 DEF OriginalsAreTheUsers, JournalNames, OwnedOrDown, JournaledDown
    <3>6. DuckingTypeOK'
      BY <1>typed, <1>same, <1>recording, <1>failures, <2>1, <2>5, <3>1, <3>3 DEF DuckingTypeOK, Callers
    <3>7. QED
      BY <2>2, <3>4, <3>5, <3>6 DEF DuckingInv
  <2>6. QED
    BY <1>1, <2>3, <2>4, <2>5 DEF Restore
(* A process that ends leaves its records to the journal; what that does not have is torn. *)
<1>ended. ASSUME worker' = NoWorker, stash' = None, UNCHANGED journal, torn' = torn \cup Unrecorded,
                 caller' \in Callers, caller'.at = "down", caller'.ends = "free"
          PROVE  DuckingInv'
  <2>1. Held' = {None} /\ torn' \subseteq Sinks
    BY <1>ended, <1>typed DEF Held, Unrecorded, Lowered
  <2>2. OriginalsAreTheUsers' /\ JournalNames'
    BY <1>ended, <2>1, <1>typed DEF OriginalsAreTheUsers, JournalNames
  <2>3. OwnedOrDown'
    BY <1>ended DEF OwnedOrDown, CallerAt
  <2>4. JournaledDown'
    BY <1>ended, <1>same DEF JournaledDown, Unrecorded, Records
  <2>5. WorkerOwns' /\ CallerHolds'
    BY <1>ended DEF WorkerOwns, CallerHolds
  <2>6. DuckingTypeOK'
    BY <1>ended, <2>1, <1>typed, <1>same, <1>recording, <1>failures DEF DuckingTypeOK, Callers
  <2>7. QED
    BY <2>2, <2>3, <2>4, <2>5, <2>6 DEF DuckingInv
<1>2. CASE Leave
  <2>1. caller.at = "down" /\ UNCHANGED <<journal, worker, caller>> /\ stash' = None /\ torn' = torn \cup Unrecorded
    BY <1>2 DEF Leave, CallerAt
  <2>2. worker' = NoWorker /\ caller'.ends = "free"
    BY <2>1, <1>typed DEF CallerHolds
  <2>3. QED
    BY <1>ended, <1>typed, <2>1, <2>2
<1>3. CASE Die
  <2>1. worker' = NoWorker /\ stash' = None /\ UNCHANGED journal /\ torn' = torn \cup Unrecorded /\ caller' = Down
    BY <1>3 DEF Die
  <2>2. QED
    BY <1>ended, <2>1, CallerPlaces
<1>4. CASE Open
  <2>1. /\ caller.at = "down" /\ stash = None /\ worker = NoWorker /\ UNCHANGED <<journal, worker>>
        /\ caller' = Restores(FALSE) /\ Held' = {stash'}
    BY <1>4, <1>typed DEF Open, CallerAt, CallerHolds, Held
  <2>2. Restores(FALSE) \in Callers /\ Restores(FALSE).at = "restore" /\ Restores(FALSE).ends = "free"
    BY CallerPlaces
  <2>3. caller' \in Callers
    BY <2>1, <2>2
  <2>4. WorkerOwns' /\ CallerHolds' /\ JournaledDown'
    BY <2>1, <2>2 DEF WorkerOwns, CallerHolds, JournaledDown, CallerAt
  <2>5. CASE stash' = journal /\ UNCHANGED torn
    <3>1. OriginalsAreTheUsers' /\ JournalNames'
      BY <2>1, <2>5, <1>typed DEF OriginalsAreTheUsers, JournalNames
    <3>2. OwnedOrDown'
      BY <2>1, <2>5, <1>same DEF DuckingInv, OwnedOrDown, JournaledDown, CallerAt, Records
    <3>3. DuckingTypeOK'
      BY <1>typed, <1>same, <1>recording, <1>failures, <2>1, <2>3, <2>5 DEF DuckingTypeOK, Callers
    <3>4. QED
      BY <2>4, <3>1, <3>2, <3>3 DEF DuckingInv
  <2>6. CASE UNCHANGED stash /\ torn' = torn \cup Lowered
    <3>1. OriginalsAreTheUsers' /\ JournalNames' /\ OwnedOrDown'
      BY <2>1, <2>6, <1>typed, <1>same DEF OriginalsAreTheUsers, JournalNames, OwnedOrDown
    <3>2. torn' \subseteq Sinks
      BY <2>6, <1>typed DEF Lowered
    <3>3. DuckingTypeOK'
      BY <1>typed, <1>same, <1>recording, <1>failures, <2>1, <2>3, <2>6, <3>2 DEF DuckingTypeOK, Callers
    <3>4. QED
      BY <2>4, <3>1, <3>3 DEF DuckingInv
  <2>7. QED
    BY <1>4, <2>5, <2>6 DEF Open
<1>5. QED
  BY <1>1, <1>2, <1>3, <1>4

(* Every step of Ducking keeps its invariant. *)
LEMMA DuckingStep ==
  ASSUME DuckingInv, [DuckingNext]_duckingVars
  PROVE  DuckingInv'
<1>1. CASE UNCHANGED duckingVars
  BY <1>1 DEF duckingVars, DuckingInv, DuckingTypeOK, WorkerOwns, OriginalsAreTheUsers, JournalNames, OwnedOrDown,
     JournaledDown, CallerHolds, CallerAt, Lowered, Records, Held
<1>2. QED
  BY <1>1, WorkerStep, AskStep, HandStep, EndStep DEF DuckingNext, CallerSteps

--------------------------------------------------------------------------------
(* Delivery *)

(* The keys of the chords. *)
Key == {"shift", "insert", "ctrl", "v"}

(* The places of a delivery that runs. *)
Places == {"focus", "publish", "reply", "replied", "inject", "keys", "asked"}

(* The answers of the owner thread. *)
Answers == {"none", "ok", "not owned", "failed", "stopped"}

(* The deliveries that run. *)
Deliveries ==
  [at : Places, text : 1..MaxDeliveries, method : {"paste", "copy"}, mode : Modes, on : SUBSET Selection,
   target : Windows \cup {NoWindow, NoText}, ready : BOOLEAN, again : BOOLEAN, answer : Answers,
   keys : Seq(Key), held : Seq(Key), failed : BOOLEAN]

(* The claims that wait for the owner thread. *)
QueuedClaims == [text : 1..MaxDeliveries, on : SUBSET Selection]

(* The claims it runs. *)
RunningClaims ==
  [text : 1..MaxDeliveries, on : SUBSET Selection, served : SUBSET (Selection \cup {"release"}),
   unread : {SELECTIONS, <<Clipboard>>, <<>>}]

(* The delivery that runs is one, and deliveries are counted. *)
DeliveryShape ==
  /\ delivery = Idle \/ delivery \in Deliveries
  /\ delivered \in 0..MaxDeliveries

(* What a claim that runs serves it asked for, and what it is about to release it left out. *)
ClaimShape ==
  /\ claim = NoClaim \/ claim \in RunningClaims
  /\ claim.served \subseteq claim.on \cup {"release"}
  /\ "release" \in claim.served => claim.unread # <<>> /\ Head(claim.unread) \notin claim.on
  /\ link = "none" => queue = <<>> /\ claim = NoClaim

(* No key comes twice. *)
Distinct(keys) == \A i, j \in 1..Len(keys) : keys[i] = keys[j] => i = j

(* No key that is still to go down is down. *)
Apart(keys, held) == \A i \in 1..Len(keys), j \in 1..Len(held) : keys[i] # held[j]

(* The keyboard holds these keys, and no other. *)
KeysDown(held, pressed) == \A key : key \in pressed <=> \E i \in 1..Len(held) : held[i] = key

(* While no event of a chord has failed, the keyboard holds what the chord holds. *)
KeysHeld ==
  At("keys") /\ ~delivery.failed =>
    /\ KeysDown(delivery.held, keyboard) /\ Distinct(delivery.held)
    /\ Distinct(delivery.keys) /\ Apart(delivery.keys, delivery.held)

(* A delivery holds no key before its chord. *)
NoneHeld == ~At("idle") /\ ~At("keys") /\ ~At("asked") => delivery.held = <<>>

(* Between two chords no key is down. *)
KeysUp == ~At("keys") => keyboard \in {{}, NoDevice}

(* The paste key goes down once, as the last of its chord, for a text that is ready. *)
Pressed ==
  /\ sent.presses \in {0, 1}
  /\ sent.presses = 1 =>
       (At("keys") /\ delivery.keys = <<>>) \/ At("asked") \/ (At("idle") /\ result.copied)
  /\ At("asked") \/ (At("keys") /\ delivery.keys = <<>> /\ ~delivery.failed) => sent.presses = 1
  /\ At("idle") /\ result.kind = "NotSent" => sent.presses = 0
  /\ At("inject") \/ At("keys") \/ At("asked") => delivery.ready
  /\ ~At("idle") /\ delivery.ready => At("focus") \/ At("inject") \/ At("keys") \/ At("asked")

(* The claim of the delivery that runs is the last one, and only while it waits for the reply;
   the others are of abandoned deliveries. *)
ClaimsAreEarlier ==
  /\ ~At("idle") => delivery.text = delivered
  /\ claim # NoClaim => claim.text <= delivered
  /\ \A i \in 1..Len(queue) : queue[i].text <= delivered
  /\ At("reply") =>
       /\ claim # NoClaim /\ claim.text = delivery.text => queue = <<>> /\ claim.on = delivery.on
       /\ \A i \in 1..Len(queue) : queue[i].text = delivery.text => i = Len(queue) /\ queue[i].on = delivery.on
  /\ ~At("idle") /\ ~At("reply") =>
       /\ claim # NoClaim => claim.text # delivery.text
       /\ \A i \in 1..Len(queue) : queue[i].text # delivery.text
  /\ At("replied") /\ delivery.answer = "stopped" => queue = <<>> /\ claim = NoClaim

(* What the claim that runs is about to serve is ours, unless it was taken since. *)
ServedIsOurs ==
  link = "up" => \A s \in claim.served \ {"release"} : owner[s] = "us" \/ s \in taken

(* A delivery whose text was published: it, or its result, is the current one; its text stays
   served, as no claim is left that could replace it. *)
Settled ==
  \/ At("idle") /\ result.copied
  \/ ~At("idle") /\ (delivery.ready \/ (At("replied") /\ delivery.answer = "ok"))

(* The text of the delivery that runs, or that ran last. *)
CurrentText == IF At("idle") THEN result.text ELSE delivery.text

(* The selections of the delivery that runs, or that ran last. *)
CurrentOn == IF At("idle") THEN result.on ELSE delivery.on

(* A settled text is served from every selection that no application took. *)
SettledIsServed ==
  Settled =>
    /\ queue = <<>> /\ claim = NoClaim
    /\ published.on # {} => published.text = CurrentText
    /\ link = "up" => \A s \in CurrentOn \ taken : owner[s] = "us" /\ s \in published.on

(* A request noted after the press was for the current text. *)
AskedSince ==
  /\ sent.presses = 1 /\ published.asked = "since" => sent.after = CurrentText
  /\ result.consumed => At("idle") /\ result.copied /\ sent.presses = 1 /\ sent.after = result.text

(* The inductive invariant of Delivery. *)
DeliveryInv ==
  /\ DeliveryTypeOK /\ DeliveryShape /\ ClaimShape /\ KeysHeld /\ NoneHeld /\ KeysUp /\ Pressed
  /\ ClaimsAreEarlier /\ ServedIsOurs /\ SettledIsServed /\ AskedSince

(* Nothing was delivered at first. *)
LEMMA DeliveryInvInit == DeliveryInit => DeliveryInv
<1> HAVE DeliveryInit
<1>1. /\ owner \in [Selection -> {"none", "us", "other"}] /\ events = <<>> /\ link = "none" /\ queue = <<>>
      /\ claim = NoClaim /\ focused \in Windows \cup {NoWindow} /\ keyboard \in {{}, NoDevice}
      /\ delivery = Idle /\ delivery.at = "idle" /\ delivered = 0 /\ sent.presses = 0
  BY DEF DeliveryInit, Idle, NotPressed
<1>0. sent \in [presses : Nat, after : 0..MaxDeliveries]
  BY BoundsAssumption DEF DeliveryInit, NotPressed, NoText
<1>2. /\ result.kind = "none" /\ ~result.copied /\ ~result.consumed
      /\ published.text = 0 /\ published.on = {} /\ published.asked = "never"
      /\ published = [text |-> 0, on |-> {}, asked |-> "never"]
  BY DEF DeliveryInit, NoResult, NoText
<1>3. NoClaim.served = {} /\ NoClaim.unread = <<>>
  BY DEF NoClaim
<1>4. 0 \in 0..MaxDeliveries
  BY BoundsAssumption
<1>5. DeliveryTypeOK
  BY <1>0, <1>1, <1>2, <1>3, <1>4 DEF DeliveryTypeOK
<1>6. DeliveryShape /\ ClaimShape /\ ClaimsAreEarlier /\ ServedIsOurs
  BY <1>1, <1>3, <1>4 DEF DeliveryShape, ClaimShape, ClaimsAreEarlier, ServedIsOurs, At
<1>7. KeysHeld /\ NoneHeld /\ KeysUp /\ Pressed /\ SettledIsServed /\ AskedSince
  BY <1>1, <1>2 DEF KeysHeld, NoneHeld, KeysUp, Pressed, SettledIsServed, AskedSince, Settled, At
<1>8. QED
  BY <1>5, <1>6, <1>7 DEF DeliveryInv

(* It implies what the daemon reports and the user sees. *)
LEMMA DeliveryInvReports ==
  DeliveryInv => NoKeyStaysDown /\ CopiedIsServed /\ NotSentIsSafe /\ ConsumedIsThePaste
<1> HAVE DeliveryInv
<1>1. NoKeyStaysDown
  BY DEF DeliveryInv, NoKeyStaysDown, KeysUp
<1>2. CopiedIsServed
  <2>1. SUFFICES ASSUME At("idle"), link = "up", result.copied, NEW s \in result.on \ taken
                 PROVE  owner[s] = "us" /\ s \in published.on /\ published.text = result.text
    BY <2>1 DEF CopiedIsServed
  <2>2. QED
    BY <2>1 DEF DeliveryInv, SettledIsServed, Settled, CurrentText, CurrentOn
<1>3. NotSentIsSafe
  BY DEF DeliveryInv, NotSentIsSafe, Pressed
<1>4. ConsumedIsThePaste
  BY DEF DeliveryInv, ConsumedIsThePaste, AskedSince
<1>5. QED
  BY <1>1, <1>2, <1>3, <1>4

(* A key goes down, and the last one down comes up. *)
LEMMA KeyDown ==
  ASSUME NEW keys \in Seq(Key), keys # <<>>, NEW held \in Seq(Key), NEW pressed,
         KeysDown(held, pressed), Distinct(held), Distinct(keys), Apart(keys, held)
  PROVE  LET next == Append(held, Head(keys)) IN
         /\ next \in Seq(Key) /\ Tail(keys) \in Seq(Key)
         /\ KeysDown(next, pressed \cup {Head(keys)}) /\ Distinct(next)
         /\ Distinct(Tail(keys)) /\ Apart(Tail(keys), next)
<1> DEFINE next == Append(held, Head(keys))
<1>1. /\ next \in Seq(Key) /\ Len(next) = Len(held) + 1 /\ next[Len(held) + 1] = keys[1]
      /\ \A i \in 1..Len(held) : next[i] = held[i]
      /\ Len(held) \in Nat /\ Head(keys) = keys[1]
  OBVIOUS
<1>2. /\ Tail(keys) \in Seq(Key) /\ Len(keys) \in Nat /\ Len(keys) >= 1 /\ Len(Tail(keys)) = Len(keys) - 1
      /\ \A i \in 1..Len(Tail(keys)) : Tail(keys)[i] = keys[i + 1]
  OBVIOUS
<1> HIDE DEF next
<1>3. KeysDown(next, pressed \cup {Head(keys)})
  BY <1>1 DEF KeysDown
<1>4. Distinct(next)
  BY <1>1, <1>2 DEF Distinct, Apart
<1>5. Distinct(Tail(keys))
  BY <1>2 DEF Distinct
<1>6. Apart(Tail(keys), next)
  BY <1>1, <1>2 DEF Distinct, Apart
<1>7. QED
  BY <1>1, <1>2, <1>3, <1>4, <1>5, <1>6 DEF next

(* The last key down comes up. *)
LEMMA KeyUp ==
  ASSUME NEW held \in Seq(Key), held # <<>>, NEW pressed, KeysDown(held, pressed), Distinct(held)
  PROVE  LET rest == SubSeq(held, 1, Len(held) - 1) IN
         /\ rest \in Seq(Key) /\ KeysDown(rest, pressed \ {held[Len(held)]}) /\ Distinct(rest)
         /\ \A keys : keys = <<>> => Apart(keys, rest)
<1> DEFINE rest == SubSeq(held, 1, Len(held) - 1)
<1>5. Len(held) \in Nat /\ Len(held) >= 1
  OBVIOUS
<1>6. /\ rest \in Seq(Key) /\ Len(rest) = Len(held) - 1
      /\ \A i \in 1..Len(rest) : rest[i] = held[i]
  <2>1. PICK n \in Nat : n = Len(held) /\ n >= 1
    BY <1>5
  <2>2. /\ SubSeq(held, 1, n - 1) \in Seq(Key)
        /\ Len(SubSeq(held, 1, n - 1)) = IF 1 <= n - 1 THEN n - 1 - 1 + 1 ELSE 0
        /\ \A i \in 1..(n - 1 - 1 + 1) : SubSeq(held, 1, n - 1)[i] = held[1 + i - 1]
    <3>1. 1 \in Int /\ n - 1 \in Int /\ \A i \in 1..(n - 1) : held[i] \in Key
      BY <2>1
    <3>2. QED
      BY <3>1, SubSeqProperties
  <2>3. n = 1 \/ 1 <= n - 1
    BY <2>1
  <2>4. QED
    BY <2>1, <2>2, <2>3
<1> HIDE DEF rest
<1>1. /\ Len(held) \in Nat /\ Len(held) >= 1 /\ rest \in Seq(Key) /\ Len(rest) = Len(held) - 1
      /\ \A i \in 1..Len(rest) : rest[i] = held[i]
  BY <1>5, <1>6
<1>2. KeysDown(rest, pressed \ {held[Len(held)]})
  BY <1>1 DEF KeysDown, Distinct
<1>3. Distinct(rest)
  BY <1>1 DEF Distinct
<1>4. \A keys : keys = <<>> => Apart(keys, rest)
  BY DEF Apart
<1>7. QED
  BY <1>1, <1>2, <1>3, <1>4 DEF rest

(* The keys of a chord are different ones. *)
LEMMA ChordKeys ==
  ASSUME NEW mode \in Modes
  PROVE  Chord(mode) \in Seq(Key) /\ Chord(mode) # <<>> /\ Distinct(Chord(mode))
<1>1. mode \in {"auto", "standard", "terminal"}
  BY ModesAssumption
<1>2. CASE mode = "auto"
  BY <1>2 DEF Chord, Key, Distinct
<1>3. CASE mode = "standard"
  BY <1>3 DEF Chord, Key, Distinct
<1>4. CASE mode = "terminal"
  BY <1>4 DEF Chord, Key, Distinct
<1>5. QED
  BY <1>1, <1>2, <1>3, <1>4

(* The fields of a delivery, and of a claim. *)
LEMMA DeliveryFields ==
  ASSUME DeliveryShape, ~At("idle")
  PROVE  /\ delivery \in Deliveries /\ delivery.at \in Places /\ delivery.text \in 1..MaxDeliveries
         /\ delivery.mode \in Modes /\ delivery.on \in SUBSET Selection /\ delivery.answer \in Answers
         /\ delivery.keys \in Seq(Key) /\ delivery.held \in Seq(Key)
<1>1. delivery \in Deliveries
  BY DEF DeliveryShape, At, Idle
<1>2. QED
  BY <1>1 DEF Deliveries

(* What stays as it was when neither the delivery nor the keyboard changes. *)
LEMMA SameDelivery ==
  ASSUME DeliveryInv, UNCHANGED <<delivery, result, keyboard, delivered>>, sent'.presses = sent.presses
  PROVE  /\ DeliveryShape' /\ KeysHeld' /\ NoneHeld' /\ KeysUp' /\ Pressed' /\ (Settled' <=> Settled)
         /\ CurrentText' = CurrentText /\ CurrentOn' = CurrentOn
<1>1. DeliveryShape' /\ KeysHeld' /\ NoneHeld' /\ KeysUp'
  BY DEF DeliveryInv, DeliveryShape, KeysHeld, NoneHeld, KeysUp, At, KeysDown
<1>2. Pressed'
  BY DEF DeliveryInv, Pressed, At
<1>3. (Settled' <=> Settled) /\ CurrentText' = CurrentText /\ CurrentOn' = CurrentOn
  BY DEF Settled, CurrentText, CurrentOn, At
<1>4. QED
  BY <1>1, <1>2, <1>3

(* An event joins the queue. *)
LEMMA EventAppended ==
  ASSUME events \in Seq([kind : {"clear", "request"}, selection : Selection]),
         NEW kind \in {"clear", "request"}, NEW s \in Selection
  PROVE  Append(events, [kind |-> kind, selection |-> s]) \in Seq([kind : {"clear", "request"}, selection : Selection])
<1>1. [kind |-> kind, selection |-> s] \in [kind : {"clear", "request"}, selection : Selection]
  OBVIOUS
<1>2. QED
  BY <1>1

(* The owner thread takes up a claim, reads the owners back and releases what it leaves out. *)
LEMMA ClaimStep ==
  ASSUME DeliveryInv, SetOwners \/ ReadOwner \/ Release
  PROVE  DeliveryInv'
<1>typed. /\ DeliveryTypeOK /\ DeliveryShape /\ ClaimShape /\ ClaimsAreEarlier /\ ServedIsOurs /\ SettledIsServed
          /\ AskedSince
          /\ owner \in [Selection -> {"none", "us", "other"}]
          /\ queue \in Seq(QueuedClaims) /\ events \in Seq([kind : {"clear", "request"}, selection : Selection])
          /\ delivered \in Nat
  BY BoundsAssumption DEF DeliveryInv, DeliveryTypeOK, DeliveryShape, QueuedClaims
<1>same. UNCHANGED <<link, published, focused, keyboard, delivery, result, sent, delivered>> /\ link = "up"
  BY DEF SetOwners, ReadOwner, Release, Running
<1>kept. /\ DeliveryShape' /\ KeysHeld' /\ NoneHeld' /\ KeysUp' /\ Pressed' /\ (Settled' <=> Settled)
         /\ CurrentText' = CurrentText /\ AskedSince'
  BY <1>same, <1>typed, SameDelivery DEF AskedSince, At
<1>text. ~At("idle") => delivery.text \in Nat
  BY <1>typed, DeliveryFields, BoundsAssumption
<1>1. CASE SetOwners
  <2> DEFINE first == Head(queue)
  <2>1. /\ claim = NoClaim /\ queue # <<>> /\ queue' = Tail(queue) /\ UNCHANGED events
        /\ claim' = [text |-> first.text, on |-> first.on, served |-> {}, unread |-> SELECTIONS]
        /\ owner' = [s \in Selection |-> IF s \in claim'.on THEN "us" ELSE owner[s]]
    BY <1>1 DEF SetOwners
  <2>2. /\ first \in QueuedClaims /\ first = queue[1] /\ queue' \in Seq(QueuedClaims)
        /\ Len(queue) \in Nat /\ Len(queue) >= 1 /\ Len(queue') = Len(queue) - 1
        /\ \A i \in 1..Len(queue') : queue'[i] = queue[i + 1] /\ i + 1 \in 1..Len(queue)
    BY <2>1, <1>typed
  <2>3. first.text \in 1..MaxDeliveries /\ first.on \in SUBSET Selection
    BY <2>2 DEF QueuedClaims
  <2>4. /\ claim' \in RunningClaims /\ claim'.text = first.text /\ claim'.on = first.on /\ claim'.served = {}
    BY <2>1, <2>3 DEF RunningClaims
  <2>5. ClaimShape' /\ ServedIsOurs'
    BY <2>4, <1>same DEF ClaimShape, ServedIsOurs
  <2>6. ~Settled
    BY <2>1, <1>typed DEF SettledIsServed
  <2>7. SettledIsServed'
    BY <2>6, <1>kept DEF SettledIsServed
  <2>8. ClaimsAreEarlier'
    <3>1. /\ first.text <= delivered /\ \A i \in 1..Len(queue') : queue'[i].text <= delivered
          /\ \A i \in 1..Len(queue') : queue'[i] = queue[i + 1]
      <4>1. 1 \in 1..Len(queue)
        BY <2>2
      <4>2. \A i \in 1..Len(queue) : queue[i].text <= delivered
        BY <1>typed DEF ClaimsAreEarlier
      <4>3. QED BY <4>1, <4>2, <2>2
    <3>2. ASSUME At("reply")
          PROVE  /\ claim'.text = delivery.text => queue' = <<>> /\ claim'.on = delivery.on
                 /\ \A i \in 1..Len(queue') :
                      queue'[i].text = delivery.text => i = Len(queue') /\ queue'[i].on = delivery.on
      <4>1. \A i \in 1..Len(queue) : queue[i].text = delivery.text => i = Len(queue) /\ queue[i].on = delivery.on
        BY <3>2, <1>typed DEF ClaimsAreEarlier
      <4>2. claim'.text = delivery.text => Len(queue) = 1 /\ claim'.on = delivery.on
        BY <4>1, <2>2, <2>4
      <4>3. Len(queue) = 1 => queue' = <<>>
        BY <2>2
      <4>4. QED
        BY <4>1, <4>2, <4>3, <2>2
    <3>3. ASSUME ~At("idle"), ~At("reply")
          PROVE  claim'.text # delivery.text /\ \A i \in 1..Len(queue') : queue'[i].text # delivery.text
      <4>1. \A i \in 1..Len(queue) : queue[i].text # delivery.text
        BY <3>3, <1>typed DEF ClaimsAreEarlier
      <4>2. 1 \in 1..Len(queue)
        BY <2>2
      <4>3. QED
        BY <4>1, <4>2, <2>2, <2>4
    <3>4. ~(At("replied") /\ delivery.answer = "stopped")
      BY <2>1, <1>typed DEF ClaimsAreEarlier
    <3>5. ~At("idle") => delivery.text = delivered
      BY <1>typed DEF ClaimsAreEarlier
    <3>6. QED
      BY <3>1, <3>2, <3>3, <3>4, <3>5, <2>4, <1>same DEF ClaimsAreEarlier, At
  <2>9. owner' \in [Selection -> {"none", "us", "other"}]
    BY <2>1, <1>typed
  <2>10. DeliveryTypeOK'
    BY <2>1, <2>2, <2>4, <2>9, <1>typed, <1>same DEF DeliveryTypeOK, QueuedClaims
  <2>11. QED
    BY <2>5, <2>7, <2>8, <2>10, <1>kept DEF DeliveryInv
<1>2. CASE ReadOwner \/ Release
  <2>1. claim # NoClaim /\ claim \in RunningClaims /\ claim.unread # <<>>
    BY <1>2, <1>typed DEF ReadOwner, Release, ClaimShape, NoClaim
  <2>2. claim.text \in Nat /\ claim.text >= 1 /\ claim.on \subseteq Selection
        /\ claim.served \subseteq Selection \cup {"release"} /\ claim.unread \in {SELECTIONS, <<Clipboard>>}
    BY <2>1, BoundsAssumption DEF RunningClaims
  <2> DEFINE s == Head(claim.unread)
  <2>3. s \in Selection /\ Tail(claim.unread) \in {<<Clipboard>>, <<>>}
    <3>1. CASE claim.unread = SELECTIONS
      BY <3>1 DEF SELECTIONS, Selection
    <3>2. CASE claim.unread = <<Clipboard>>
      BY <3>2 DEF Selection
    <3>3. QED
      BY <2>2, <3>1, <3>2
  (* What is left to show of a step of the claim. *)
  <2>rest. ASSUME claim' \in RunningClaims, claim'.text = claim.text, claim'.on = claim.on,
                  claim'.served \subseteq claim.on \cup {"release"},
                  "release" \in claim'.served => claim'.unread # <<>> /\ Head(claim'.unread) \notin claim.on,
                  \A t \in claim'.served \ {"release"} : owner'[t] = "us" \/ t \in taken',
                  owner' \in [Selection -> {"none", "us", "other"}], UNCHANGED queue,
                  events' \in Seq([kind : {"clear", "request"}, selection : Selection])
           PROVE  DeliveryInv'
    <3>1. claim' # NoClaim
      BY <2>rest, <2>2 DEF NoClaim, NoText
    <3>2. ClaimShape' /\ ServedIsOurs'
      BY <2>rest, <3>1, <1>same DEF ClaimShape, ServedIsOurs
    <3>3. ClaimsAreEarlier'
      BY <2>rest, <2>1, <3>1, <1>same, <1>typed DEF ClaimsAreEarlier, At
    <3>4. SettledIsServed'
      BY <2>1, <1>kept, <1>typed DEF SettledIsServed
    <3>5. claim'.served \subseteq Selection \cup {"release"}
      BY <2>rest, <2>2
    <3>6. DeliveryTypeOK'
      BY <2>rest, <3>5, <1>same, <1>typed DEF DeliveryTypeOK
    <3>7. QED
      BY <3>2, <3>3, <3>4, <3>6, <1>kept DEF DeliveryInv
  <2>4. CASE ReadOwner
    <3>1. "release" \notin claim.served /\ UNCHANGED <<owner, events, queue, taken>>
      BY <2>4 DEF ReadOwner
    <3>2. claim' = CASE owner[s] = "us" /\ s \in claim.on ->
                          [claim EXCEPT !.served = @ \cup {s}, !.unread = Tail(@)]
                     [] owner[s] = "us" /\ s \notin claim.on -> [claim EXCEPT !.served = @ \cup {"release"}]
                     [] OTHER -> [claim EXCEPT !.unread = Tail(@)]
      BY <2>4 DEF ReadOwner
    <3>3. CASE owner[s] = "us" /\ s \in claim.on
      <4>1. claim' = [claim EXCEPT !.served = claim.served \cup {s}, !.unread = Tail(claim.unread)]
        BY <3>2, <3>3
      <4>2. /\ claim' \in RunningClaims /\ claim'.text = claim.text /\ claim'.on = claim.on
            /\ claim'.served = claim.served \cup {s}
        BY <4>1, <2>1, <2>2, <2>3 DEF RunningClaims
      <4>3. s # "release"
        BY <2>3 DEF Selection, Primary, Clipboard
      <4>4. QED
        BY <2>rest, <4>2, <4>3, <3>1, <3>3, <1>typed, <1>same DEF ClaimShape, ServedIsOurs
    <3>4. CASE owner[s] = "us" /\ s \notin claim.on
      <4>1. claim' = [claim EXCEPT !.served = claim.served \cup {"release"}]
        BY <3>2, <3>4
      <4>2. /\ claim' \in RunningClaims /\ claim'.text = claim.text /\ claim'.on = claim.on
            /\ claim'.served = claim.served \cup {"release"} /\ claim'.unread = claim.unread
        BY <4>1, <2>1, <2>2 DEF RunningClaims
      <4>3. QED
        BY <2>rest, <4>2, <3>1, <3>4, <2>1, <1>typed, <1>same DEF ClaimShape, ServedIsOurs
    <3>5. CASE owner[s] # "us"
      <4>1. claim' = [claim EXCEPT !.unread = Tail(claim.unread)]
        BY <3>2, <3>5
      <4>2. /\ claim' \in RunningClaims /\ claim'.text = claim.text /\ claim'.on = claim.on
            /\ claim'.served = claim.served
        BY <4>1, <2>1, <2>2, <2>3 DEF RunningClaims
      <4>3. QED
        BY <2>rest, <4>2, <3>1, <1>typed, <1>same DEF ClaimShape, ServedIsOurs
    <3>6. QED
      BY <3>3, <3>4, <3>5
  <2>5. CASE Release
    <3>1. /\ "release" \in claim.served /\ UNCHANGED <<queue, taken>>
          /\ owner' = [owner EXCEPT ![s] = "none"]
          /\ claim' = [claim EXCEPT !.served = claim.served \ {"release"}, !.unread = Tail(claim.unread)]
          /\ events' = events \/ events' = Append(events, [kind |-> "clear", selection |-> s])
      BY <2>5 DEF Release
    <3>2. /\ claim' \in RunningClaims /\ claim'.text = claim.text /\ claim'.on = claim.on
          /\ claim'.served = claim.served \ {"release"}
      BY <3>1, <2>1, <2>2, <2>3 DEF RunningClaims
    <3>3. s \notin claim'.served /\ claim'.served \subseteq claim.on
      BY <3>1, <3>2, <1>typed DEF ClaimShape
    <3>4. \A t \in claim'.served \ {"release"} : owner'[t] = "us" \/ t \in taken'
      BY <3>1, <3>2, <3>3, <2>2, <1>typed, <1>same DEF ServedIsOurs
    <3>5. events' \in Seq([kind : {"clear", "request"}, selection : Selection])
      BY <3>1, <2>3, <1>typed, EventAppended
    <3>6. owner' \in [Selection -> {"none", "us", "other"}]
      BY <3>1, <2>3, <1>typed
    <3>7. QED
      BY <2>rest, <3>1, <3>2, <3>3, <3>4, <3>5, <3>6
  <2>6. QED
    BY <1>2, <2>4, <2>5
<1>3. QED
  BY <1>1, <1>2

(* A reply reaches the delivery that still waits for its claim, and no other. *)
LEMMA Replied ==
  ASSUME DeliveryShape, NEW text, NEW reply \in Answers, Reply(text, reply)
  PROVE  /\ UNCHANGED delivered => DeliveryShape'
         /\ At("reply") /\ delivery.text = text =>
              /\ delivery' \in Deliveries /\ delivery'.at = "replied" /\ delivery'.answer = reply
              /\ delivery'.text = delivery.text /\ delivery'.on = delivery.on /\ delivery'.ready = delivery.ready
              /\ delivery'.held = delivery.held
         /\ ~(At("reply") /\ delivery.text = text) => delivery' = delivery
<1>1. CASE At("reply") /\ delivery.text = text
  <2>1. delivery \in Deliveries
    BY <1>1, DeliveryFields DEF At
  <2>2. delivery' = [delivery EXCEPT !.at = "replied", !.answer = reply]
    BY <1>1 DEF Reply, At
  <2>3. delivery' \in Deliveries
    BY <2>1, <2>2 DEF Deliveries, Places
  <2>4. /\ delivery'.at = "replied" /\ delivery'.answer = reply /\ delivery'.text = delivery.text
        /\ delivery'.on = delivery.on
    BY <2>1, <2>2 DEF Deliveries
  <2>5. delivery'.ready = delivery.ready /\ delivery'.held = delivery.held
    BY <2>1, <2>2 DEF Deliveries
  <2>6. QED
    BY <1>1, <2>3, <2>4, <2>5 DEF DeliveryShape
<1>2. CASE ~(At("reply") /\ delivery.text = text)
  BY <1>2 DEF Reply, At, DeliveryShape
<1>3. QED
  BY <1>1, <1>2

(* The owner thread publishes a claim, or ends with its connection. *)
LEMMA ReplyStep ==
  ASSUME DeliveryInv, Publish \/ ThreadEnds
  PROVE  DeliveryInv'
<1>typed. /\ DeliveryTypeOK /\ DeliveryShape /\ ClaimShape /\ ClaimsAreEarlier /\ ServedIsOurs /\ SettledIsServed
          /\ AskedSince /\ Pressed /\ KeysHeld /\ NoneHeld /\ KeysUp
          /\ queue \in Seq(QueuedClaims) /\ delivered \in Nat
          /\ published \in [text : 0..MaxDeliveries, on : SUBSET Selection, asked : {"never", "earlier", "since"}]
  BY BoundsAssumption DEF DeliveryInv, DeliveryTypeOK, DeliveryShape, QueuedClaims
<1>same. /\ UNCHANGED <<link, focused, keyboard, result, sent, delivered, owner, events, taken>> /\ claim' = NoClaim
         /\ link # "none"
  BY <1>typed DEF Publish, ThreadEnds, xserver, ClaimShape
<1>none. NoClaim.served = {} /\ NoClaim.unread = <<>> /\ NoClaim.on = {} /\ NoClaim.text = 0
  BY DEF NoClaim, NoText
<1>unsettled. ~Settled
  BY <1>typed DEF Publish, ThreadEnds, SettledIsServed
(* What is left to show of a reply. *)
<1>rest. ASSUME NEW text, NEW reply \in Answers, Reply(text, reply),
                queue' \in Seq(QueuedClaims), queue' = queue \/ queue' = <<>>,
                At("reply") /\ delivery.text = text => queue' = <<>>,
                published' \in [text : 0..MaxDeliveries, on : SUBSET Selection, asked : {"never", "earlier", "since"}],
                published'.asked = published.asked \/ published'.asked = "never",
                At("reply") /\ delivery.text = text /\ reply = "ok" =>
                  /\ published'.text = text
                  /\ link = "up" => \A s \in delivery.on \ taken : owner[s] = "us" /\ s \in published'.on
         PROVE  DeliveryInv'
  <2>1. DeliveryTypeOK'
    BY <1>rest, <1>same, <1>none, <1>typed DEF DeliveryTypeOK, QueuedClaims
  <2>2. ClaimShape' /\ ServedIsOurs'
    BY <1>same, <1>none DEF ClaimShape, ServedIsOurs
  <2>3. CASE At("reply") /\ delivery.text = text
    <3>1. /\ delivery' \in Deliveries /\ delivery'.at = "replied" /\ delivery'.answer = reply
          /\ delivery'.text = delivery.text /\ delivery'.on = delivery.on /\ delivery'.ready = delivery.ready
          /\ delivery'.held = delivery.held /\ DeliveryShape'
      BY <1>rest, <1>same, <1>typed, <2>3, Replied
    <3>2. /\ ~delivery.ready /\ sent.presses = 0 /\ ~At("idle") /\ ~At("idle")' /\ ~At("keys")' /\ ~At("keys")
          /\ ~At("inject")' /\ ~At("asked")' /\ ~At("reply")' /\ At("replied")'
      BY <2>3, <3>1, <1>typed DEF Pressed, At
    <3>3. KeysHeld' /\ NoneHeld' /\ KeysUp' /\ Pressed'
      BY <3>1, <3>2, <1>same, <1>typed DEF KeysHeld, NoneHeld, KeysUp, Pressed
    <3>4. ClaimsAreEarlier'
      BY <1>rest, <1>same, <1>typed, <2>3, <3>1, <3>2 DEF ClaimsAreEarlier
    <3>5. Settled' => reply = "ok"
      BY <3>1, <3>2 DEF Settled
    <3>6. CurrentText' = text /\ CurrentOn' = delivery.on
      BY <2>3, <3>1, <3>2 DEF CurrentText, CurrentOn
    <3>7. SettledIsServed'
      BY <1>rest, <1>same, <2>3, <3>5, <3>6 DEF SettledIsServed
    <3>8. AskedSince'
      BY <1>same, <1>typed, <3>2 DEF AskedSince
    <3>9. QED
      BY <2>1, <2>2, <3>1, <3>3, <3>4, <3>7, <3>8 DEF DeliveryInv
  <2>4. CASE ~(At("reply") /\ delivery.text = text)
    <3>1. delivery' = delivery
      BY <1>rest, <1>typed, <2>4, Replied
    <3>2. /\ DeliveryShape' /\ KeysHeld' /\ NoneHeld' /\ KeysUp' /\ Pressed' /\ ~Settled' /\ CurrentText' = CurrentText
      BY <3>1, <1>same, <1>unsettled, SameDelivery
    <3>3. SettledIsServed'
      BY <3>2 DEF SettledIsServed
    <3>4. AskedSince'
      BY <1>rest, <1>same, <1>typed, <3>1, <3>2 DEF AskedSince, At
    <3>5. ClaimsAreEarlier'
      BY <1>rest, <1>same, <1>typed, <3>1 DEF ClaimsAreEarlier, At
    <3>6. QED
      BY <2>1, <2>2, <3>2, <3>3, <3>4, <3>5 DEF DeliveryInv
  <2>5. QED
    BY <2>3, <2>4
<1>waits. At("reply") /\ claim # NoClaim /\ delivery.text = claim.text => queue = <<>> /\ claim.on = delivery.on
  BY <1>typed DEF ClaimsAreEarlier
<1>1. CASE Publish
  <2> DEFINE reply == IF claim.served = claim.on THEN "ok" ELSE "not owned"
  <2>1. /\ claim # NoClaim /\ claim \in RunningClaims /\ claim.unread = <<>> /\ UNCHANGED queue
        /\ published' = PublishOn(claim.text, claim.served) /\ Reply(claim.text, reply)
    BY <1>1, <1>typed DEF Publish, ClaimShape
  <2>2. "release" \notin claim.served
    BY <2>1, <1>typed DEF ClaimShape
  <2>3. /\ claim.text \in 0..MaxDeliveries /\ claim.served \in SUBSET Selection
    <3>1. claim.text \in 1..MaxDeliveries /\ claim.served \in SUBSET (Selection \cup {"release"})
      BY <2>1 DEF RunningClaims
    <3>2. QED
      BY <3>1, <2>2, BoundsAssumption
  <2>4. /\ published' = [text |-> claim.text, on |-> claim.served, asked |-> "never"]
        /\ published'.text = claim.text /\ published'.on = claim.served /\ published'.asked = "never"
    BY <2>1 DEF PublishOn
  <2>5. published' \in [text : 0..MaxDeliveries, on : SUBSET Selection, asked : {"never", "earlier", "since"}]
    BY <2>3, <2>4
  <2>6. reply \in Answers /\ (reply = "ok" => claim.served = claim.on)
    BY DEF Answers
  <2>7. At("reply") /\ delivery.text = claim.text /\ reply = "ok" =>
          (link = "up" => \A s \in delivery.on \ taken : owner[s] = "us" /\ s \in published'.on)
    BY <1>waits, <1>typed, <2>1, <2>2, <2>4, <2>6 DEF ServedIsOurs
  <2> HIDE DEF reply
  <2>8. QED
    BY <1>rest, <1>waits, <1>typed, <2>1, <2>4, <2>5, <2>6, <2>7
<1>2. CASE ThreadEnds
  <2>1. UNCHANGED published /\ queue' = IF claim = NoClaim THEN <<>> ELSE queue
    BY <1>2 DEF ThreadEnds
  <2>2. {"failed", "stopped"} \subseteq Answers
    BY DEF Answers
  <2>3. CASE claim # NoClaim /\ Reply(claim.text, "failed")
    BY <1>rest, <1>waits, <1>typed, <2>1, <2>2, <2>3
  <2>4. CASE claim = NoClaim /\ Reply(queue[Len(queue)].text, "stopped")
    <3>1. queue' = <<>> /\ queue' \in Seq(QueuedClaims)
      BY <2>1, <2>4
    <3>2. QED
      BY <1>rest, <1>typed, <2>1, <2>2, <2>4, <3>1
  <2>5. QED
    BY <1>2, <2>3, <2>4 DEF ThreadEnds
<1>3. QED
  BY <1>1, <1>2

(* Events of the X server, other applications, time and a lost connection. *)
LEMMA EventStep ==
  ASSUME DeliveryInv, Cleared \/ Answer \/ DeadlinePasses \/ Surroundings
  PROVE  DeliveryInv'
<1>typed. /\ DeliveryTypeOK /\ DeliveryShape /\ ClaimShape /\ ClaimsAreEarlier /\ ServedIsOurs /\ SettledIsServed
          /\ AskedSince /\ Pressed
          /\ owner \in [Selection -> {"none", "us", "other"}] /\ link \in {"none", "up", "lost"}
          /\ events \in Seq([kind : {"clear", "request"}, selection : Selection])
          /\ published \in [text : 0..MaxDeliveries, on : SUBSET Selection, asked : {"never", "earlier", "since"}]
          /\ sent \in [presses : Nat, after : 0..MaxDeliveries]
  BY DEF DeliveryInv, DeliveryTypeOK
<1>same. UNCHANGED <<queue, claim, keyboard, delivery, result, delivered>> /\ sent'.presses = sent.presses
  <2>1. CASE Answer
    <3>1. UNCHANGED <<queue, claim, keyboard, delivery, result, delivered>>
      BY <2>1 DEF Answer
    <3>2. UNCHANGED sent \/ \E after : sent' = [sent EXCEPT !.after = after]
      BY <2>1 DEF Answer
    <3>3. sent'.presses = sent.presses
      BY <3>2, <1>typed
    <3>4. QED
      BY <3>1, <3>3
  <2>2. QED
    BY <2>1 DEF Cleared, DeadlinePasses, Surroundings, LoseDisplay, TakeSelection, Request, MoveFocus, xserver,
       thread, deliverer
<1>kept. /\ DeliveryShape' /\ KeysHeld' /\ NoneHeld' /\ KeysUp' /\ Pressed' /\ (Settled' <=> Settled)
         /\ CurrentText' = CurrentText /\ CurrentOn' = CurrentOn /\ ClaimsAreEarlier'
  BY <1>same, <1>typed, SameDelivery DEF ClaimsAreEarlier, At
(* What is left to show of an event. *)
<1>rest. ASSUME owner' \in [Selection -> {"none", "us", "other"}],
                events' \in Seq([kind : {"clear", "request"}, selection : Selection]),
                published' \in [text : 0..MaxDeliveries, on : SUBSET Selection, asked : {"never", "earlier", "since"}],
                focused' \in Windows \cup {NoWindow},
                link' = link \/ (link' = "lost" /\ link = "up"),
                \A s \in Selection : link' = "up" /\ owner[s] = "us" => owner'[s] = "us" \/ s \in taken',
                taken \subseteq taken',
                published'.on \subseteq published.on,
                published'.on # {} => published'.text = published.text,
                \A s \in published.on : link' = "up" /\ owner[s] = "us" => s \in published'.on,
                sent' \in [presses : Nat, after : 0..MaxDeliveries],
                AskedSince'
         PROVE  DeliveryInv'
  <2>1. DeliveryTypeOK'
    BY <1>rest, <1>same, <1>typed DEF DeliveryTypeOK
  <2>2. ClaimShape' /\ ServedIsOurs'
    BY <1>rest, <1>same, <1>typed DEF ClaimShape, ServedIsOurs, DeliveryTypeOK
  <2>3. SettledIsServed'
    BY <1>rest, <1>same, <1>kept, <1>typed DEF SettledIsServed
  <2>4. QED
    BY <1>rest, <1>kept, <2>1, <2>2, <2>3 DEF DeliveryInv
<1>1. CASE Cleared
  <2> DEFINE s == Head(events).selection
  <2>1. /\ UNCHANGED <<owner, taken, link, sent, focused>> /\ events # <<>> /\ events' = Tail(events)
        /\ published' = IF owner[s] = "us" THEN published ELSE Lose(s)
    BY <1>1 DEF Cleared, Reads, deliverer
  <2>2. events' \in Seq([kind : {"clear", "request"}, selection : Selection])
    BY <2>1, <1>typed
  <2>3. /\ published' \in [text : 0..MaxDeliveries, on : SUBSET Selection, asked : {"never", "earlier", "since"}]
        /\ published'.on = IF owner[s] = "us" THEN published.on ELSE published.on \ {s}
        /\ published'.on # {} => published'.text = published.text
        /\ published'.asked = published.asked
    <3>1. CASE owner[s] = "us"
      BY <2>1, <3>1, <1>typed
    <3>2. CASE owner[s] # "us"
      <4> DEFINE on == published.on \ {s}
                 text == IF on = {} THEN NoText ELSE published.text
      <4>1. published' = [published EXCEPT !.on = on, !.text = text]
        BY <2>1, <3>2 DEF Lose
      <4>2. on \in SUBSET Selection /\ text \in 0..MaxDeliveries /\ (on # {} => text = published.text)
        BY <1>typed, BoundsAssumption DEF NoText
      <4> HIDE DEF on, text
      <4>3. /\ published' \in [text : 0..MaxDeliveries, on : SUBSET Selection, asked : {"never", "earlier", "since"}]
            /\ published'.on = on /\ published'.text = text /\ published'.asked = published.asked
        BY <4>1, <4>2, <1>typed
      <4>4. QED
        BY <3>2, <4>2, <4>3 DEF on
    <3>3. QED
      BY <3>1, <3>2
  <2>4. AskedSince'
    BY <2>1, <2>3, <1>same, <1>kept, <1>typed DEF AskedSince, At
  <2>5. QED
    BY <1>rest, <1>typed, <2>1, <2>2, <2>3, <2>4 DEF DeliveryTypeOK
<1>2. CASE Answer
  <2> DEFINE s == Head(events).selection
  <2>1. /\ UNCHANGED <<owner, taken, link, focused>> /\ events # <<>> /\ events' = Tail(events)
        /\ claim = NoClaim
    BY <1>2 DEF Answer, Reads
  <2>2. events' \in Seq([kind : {"clear", "request"}, selection : Selection])
    BY <2>1, <1>typed
  <2>3. CASE UNCHANGED <<published, sent>>
    <3>1. AskedSince'
      BY <2>3, <1>same, <1>kept, <1>typed DEF AskedSince, At
    <3>2. QED
      BY <1>rest, <1>typed, <2>1, <2>2, <2>3, <3>1 DEF DeliveryTypeOK
  <2>4. CASE /\ s \in published.on
             /\ published' = [published EXCEPT !.asked = IF sent.presses > 0 THEN "since" ELSE "earlier"]
             /\ sent' = [sent EXCEPT !.after = IF sent.presses > 0 THEN published.text ELSE @]
    <3>1. PICK asked \in {"since", "earlier"} :
            published' = [published EXCEPT !.asked = asked] /\ (asked = "since" => sent.presses > 0)
      BY <2>4
    <3>2. /\ published' \in [text : 0..MaxDeliveries, on : SUBSET Selection, asked : {"never", "earlier", "since"}]
          /\ published'.on = published.on /\ published'.text = published.text
      BY <3>1, <1>typed
    <3>3. CASE sent.presses = 1
      <4>1. Settled /\ published.text = CurrentText
        BY <2>4, <3>3, <1>typed DEF Pressed, Settled, SettledIsServed, At
      <4>2. sent.presses > 0
        BY <3>3
      <4>3. sent' = [sent EXCEPT !.after = published.text]
        BY <2>4, <4>2
      <4>4. sent'.after = published.text /\ sent' \in [presses : Nat, after : 0..MaxDeliveries]
        BY <4>3, <1>typed
      <4>5. AskedSince'
        BY <3>3, <4>1, <4>4, <1>same, <1>kept, <1>typed DEF AskedSince, CurrentText, At
      <4>6. QED
        BY <1>rest, <1>typed, <2>1, <2>2, <3>2, <4>4, <4>5 DEF DeliveryTypeOK
    <3>4. CASE sent.presses = 0
      <4>1. AskedSince'
        BY <3>4, <1>same, <1>kept, <1>typed DEF AskedSince, At
      <4>2. UNCHANGED sent \/ sent' = [sent EXCEPT !.after = sent.after]
        BY <2>4, <3>4
      <4>3. sent' \in [presses : Nat, after : 0..MaxDeliveries]
        BY <4>2, <1>typed
      <4>4. QED
        BY <1>rest, <1>typed, <2>1, <2>2, <3>2, <4>1, <4>3 DEF DeliveryTypeOK
    <3>5. QED
      BY <3>3, <3>4, <1>typed DEF Pressed
  <2>5. QED
    BY <1>2, <2>3, <2>4 DEF Answer, Serves
<1>3. CASE DeadlinePasses \/ Surroundings
  <2>1. UNCHANGED <<published, sent>>
    BY <1>3 DEF DeadlinePasses, Surroundings, LoseDisplay, TakeSelection, Request, MoveFocus, thread, deliverer
  <2>2. AskedSince'
    BY <2>1, <1>same, <1>kept, <1>typed DEF AskedSince, At
  <2>3. CASE LoseDisplay
    <3>1. /\ link = "up" /\ link' = "lost" /\ events' = <<>> /\ UNCHANGED <<taken, focused>>
          /\ owner' = [s \in Selection |-> IF owner[s] = "us" THEN "none" ELSE owner[s]]
      BY <2>3 DEF LoseDisplay
    <3>2. owner' \in [Selection -> {"none", "us", "other"}]
      BY <3>1, <1>typed
    <3>3. events' \in Seq([kind : {"clear", "request"}, selection : Selection])
      BY <3>1
    <3>4. QED
      BY <1>rest, <1>typed, <2>1, <2>2, <3>1, <3>2, <3>3 DEF DeliveryTypeOK
  <2>4. CASE DeadlinePasses \/ \E w \in Windows \cup {NoWindow} : MoveFocus(w)
    <3>1. UNCHANGED <<owner, events, link, taken>> /\ (focused' = focused \/ focused' \in Windows \cup {NoWindow})
      BY <2>4 DEF DeadlinePasses, MoveFocus, xserver, thread
    <3>2. QED
      BY <1>rest, <1>typed, <2>1, <2>2, <3>1 DEF DeliveryTypeOK
  <2>5. ASSUME NEW s \in Selection, TakeSelection(s) \/ Request(s) PROVE DeliveryInv'
    <3>1. /\ UNCHANGED <<link, focused>>
          /\ \/ owner' = owner /\ taken' = taken
             \/ owner' = [owner EXCEPT ![s] = "other"] /\ taken' = taken \cup {s}
          /\ \/ events' = events
             \/ events' = Append(events, [kind |-> "clear", selection |-> s])
             \/ events' = Append(events, [kind |-> "request", selection |-> s])
      BY <2>5 DEF TakeSelection, Request, thread
    <3>2. owner' \in [Selection -> {"none", "us", "other"}]
      BY <3>1, <1>typed
    <3>3. events' \in Seq([kind : {"clear", "request"}, selection : Selection])
      <4>1. CASE events' = events
        BY <4>1, <1>typed
      <4>2. CASE events' = Append(events, [kind |-> "clear", selection |-> s])
        BY <4>2, <1>typed, EventAppended
      <4>3. CASE events' = Append(events, [kind |-> "request", selection |-> s])
        BY <4>3, <1>typed, EventAppended
      <4>4. QED
        BY <3>1, <4>1, <4>2, <4>3
    <3>4. /\ taken \subseteq taken' /\ \A t \in Selection : owner[t] = "us" => owner'[t] = "us" \/ t \in taken'
      BY <3>1, <1>typed
    <3>5. QED
      BY <1>rest, <1>typed, <2>1, <2>2, <3>1, <3>2, <3>3, <3>4 DEF DeliveryTypeOK
  <2>6. QED
    BY <1>3, <2>3, <2>4, <2>5 DEF Surroundings
<1>4. QED
  BY <1>1, <1>2, <1>3

(* A delivery that ends says that it was copied only when its text is served, and that it was
   not sent only when nothing was pressed. *)
LEMMA DeliveryEnded ==
  ASSUME DeliveryInv, ~At("idle"), NEW kind \in {"NotSent", "Ambiguous", "Submitted"},
         NEW copied \in BOOLEAN, NEW consumed \in BOOLEAN, Ends(kind, copied, consumed),
         UNCHANGED <<owner, events, link, queue, claim, published, focused, delivered, sent, taken>>,
         keyboard' \in {{}, NoDevice},
         sent.presses = 1 => copied, kind = "NotSent" => sent.presses = 0, copied => Settled,
         consumed => copied /\ sent.presses = 1 /\ published.asked = "since"
  PROVE  DeliveryInv'
<1>typed. /\ DeliveryTypeOK /\ DeliveryShape /\ ClaimShape /\ ClaimsAreEarlier /\ ServedIsOurs /\ SettledIsServed
          /\ AskedSince /\ Pressed
  BY DEF DeliveryInv
<1>1. /\ result'.text = delivery.text /\ result'.on = delivery.on /\ result'.kind = kind
      /\ result'.copied = copied /\ result'.consumed = consumed
  BY DEF Ends
<1>2. /\ delivery' = Idle /\ At("idle")' /\ ~At("keys")' /\ ~At("asked")' /\ ~At("inject")' /\ ~At("reply")'
      /\ ~At("replied")'
  BY DEF Ends, Idle, At
<1>3. DeliveryTypeOK' /\ DeliveryShape' /\ ClaimShape' /\ ServedIsOurs'
  BY <1>1, <1>2, <1>typed DEF DeliveryTypeOK, DeliveryShape, ClaimShape, ServedIsOurs
<1>4. ClaimsAreEarlier'
  BY <1>2, <1>typed DEF ClaimsAreEarlier
<1>5. KeysHeld' /\ NoneHeld' /\ KeysUp' /\ Pressed'
  BY <1>1, <1>2, <1>typed DEF KeysHeld, NoneHeld, KeysUp, Pressed
<1>6. /\ CurrentText' = CurrentText /\ CurrentOn' = CurrentOn /\ (Settled' => Settled)
  BY <1>1, <1>2 DEF CurrentText, CurrentOn, Settled
<1>7. SettledIsServed'
  BY <1>6, <1>typed DEF SettledIsServed
<1>8. AskedSince'
  <2>1. CurrentText' = result'.text
    BY <1>2 DEF CurrentText
  <2>2. QED
    BY <2>1, <1>1, <1>2, <1>6, <1>typed DEF AskedSince
<1>9. QED
  BY <1>3, <1>4, <1>5, <1>7, <1>8 DEF DeliveryInv

(* What is left to show of a step with which a delivery goes on and that claims nothing. *)
LEMMA GoesOn ==
  ASSUME DeliveryInv, ~At("idle"), ~At("reply"),
         delivery' \in Deliveries, delivery'.text = delivery.text, delivery'.on = delivery.on,
         delivery'.at \in {"focus", "publish", "inject", "keys", "asked"},
         UNCHANGED <<owner, events, queue, claim, focused, result, delivered, taken>>,
         link' \in {"none", "up", "lost"}, link' = "none" => queue = <<>> /\ claim = NoClaim,
         link' = "up" => link = "up" \/ (claim = NoClaim /\ ~Settled'), Settled' => Settled,
         published' \in [text : 0..MaxDeliveries, on : SUBSET Selection, asked : {"never", "earlier", "since"}],
         Settled' => published'.on = published.on /\ published'.text = published.text,
         sent' \in [presses : Nat, after : 0..MaxDeliveries],
         sent'.presses = 1 /\ published'.asked = "since" => sent'.after = delivery.text,
         KeysHeld', NoneHeld', KeysUp', Pressed'
  PROVE  DeliveryInv'
<1>typed. /\ DeliveryTypeOK /\ DeliveryShape /\ ClaimShape /\ ClaimsAreEarlier /\ ServedIsOurs /\ SettledIsServed
          /\ AskedSince
  BY DEF DeliveryInv
<1>1. ~At("idle")' /\ ~At("reply")' /\ ~At("replied")'
  BY DEF At
<1>2. DeliveryShape'
  BY <1>typed DEF DeliveryShape
<1>3. NoClaim.served = {}
  BY DEF NoClaim
<1>4. DeliveryTypeOK' /\ ClaimShape' /\ ServedIsOurs'
  BY <1>3, <1>typed DEF DeliveryTypeOK, ClaimShape, ServedIsOurs
<1>5. ClaimsAreEarlier'
  BY <1>1, <1>typed DEF ClaimsAreEarlier
<1>6. CurrentText' = delivery.text /\ CurrentText = delivery.text /\ CurrentOn' = CurrentOn
  BY <1>1 DEF CurrentText, CurrentOn
<1>7. SettledIsServed'
  BY <1>6, <1>typed DEF SettledIsServed
<1>8. AskedSince'
  BY <1>1, <1>6, <1>typed DEF AskedSince
<1>9. QED
  BY <1>2, <1>4, <1>5, <1>7, <1>8 DEF DeliveryInv

(* Before the chord begins nothing was pressed, and no key is down. *)
LEMMA Unpressed ==
  ASSUME DeliveryInv, At("focus") \/ At("publish") \/ At("reply") \/ At("replied") \/ At("inject")
  PROVE  /\ sent.presses = 0 /\ keyboard \in {{}, NoDevice} /\ delivery.held = <<>>
         /\ ~At("idle") /\ ~At("keys") /\ ~At("asked")
<1>1. ~At("idle") /\ ~At("keys") /\ ~At("asked")
  BY DEF At
<1>2. QED
  BY <1>1 DEF DeliveryInv, Pressed, KeysUp, NoneHeld

(* A publication: a thread to own the selections, a claim, its reply or the deadline. *)
LEMMA PublishStep ==
  ASSUME DeliveryInv, StartOwner \/ Claim \/ ClaimTimesOut \/ Claimed
  PROVE  DeliveryInv'
<1>typed. /\ DeliveryTypeOK /\ DeliveryShape /\ ClaimShape /\ ClaimsAreEarlier /\ ServedIsOurs /\ SettledIsServed
          /\ AskedSince /\ Pressed /\ NoneHeld
          /\ queue \in Seq(QueuedClaims) /\ delivered \in Nat
          /\ published \in [text : 0..MaxDeliveries, on : SUBSET Selection, asked : {"never", "earlier", "since"}]
          /\ sent \in [presses : Nat, after : 0..MaxDeliveries] /\ link \in {"none", "up", "lost"}
  BY BoundsAssumption DEF DeliveryInv, DeliveryTypeOK, DeliveryShape, QueuedClaims
<1>at. At("publish") \/ At("reply") \/ At("replied")
  BY DEF StartOwner, Claim, ClaimTimesOut, Claimed
<1>pressed. /\ sent.presses = 0 /\ keyboard \in {{}, NoDevice} /\ delivery.held = <<>>
            /\ ~At("idle") /\ ~At("keys") /\ ~At("asked")
  BY <1>at, Unpressed
<1>fields. /\ delivery \in Deliveries /\ delivery.text \in 1..MaxDeliveries /\ delivery.on \in SUBSET Selection
           /\ delivery.answer \in Answers
  BY <1>typed, <1>pressed, DeliveryFields
<1>same. UNCHANGED <<owner, events, claim, focused, keyboard, delivered, sent, taken>>
  BY DEF StartOwner, Claim, ClaimTimesOut, Claimed, xserver, thread
<1>bool. PICK yes \in BOOLEAN, no \in BOOLEAN : yes = TRUE /\ no = FALSE
  OBVIOUS
<1>never. sent.presses # 1
  BY <1>pressed
(* It ends without a paste. *)
<1>ends. ASSUME Ends("NotSent", FALSE, FALSE), UNCHANGED <<link, queue, published>>
         PROVE  DeliveryInv'
  BY <1>ends, <1>same, <1>pressed, <1>never, DeliveryEnded
<1>1. CASE StartOwner
  <2>1. UNCHANGED <<queue, published>> /\ link = "none" /\ At("publish")
    BY <1>1 DEF StartOwner
  <2>2. CASE link' = "up" /\ delivery' = [delivery EXCEPT !.again = TRUE] /\ UNCHANGED result
    <3>1. delivery' = [delivery EXCEPT !.again = yes]
      BY <2>2, <1>bool
    <3>2. delivery' \in Deliveries
      BY <3>1, <1>fields DEF Deliveries
    <3>3. /\ delivery'.at = "publish" /\ delivery'.text = delivery.text /\ delivery'.on = delivery.on
          /\ delivery'.ready = delivery.ready /\ delivery'.held = delivery.held
      BY <2>1, <3>1, <1>fields DEF Deliveries, At
    <3>4. ~delivery.ready
      BY <2>1, <1>typed DEF Pressed, At
    <3>5. /\ ~At("idle")' /\ ~At("reply") /\ ~At("keys")' /\ ~At("asked")' /\ ~At("inject")' /\ ~At("replied")'
          /\ ~Settled'
      BY <2>1, <3>3, <3>4 DEF At, Settled
    <3>6. KeysHeld' /\ NoneHeld' /\ KeysUp' /\ Pressed'
      BY <3>3, <3>4, <3>5, <1>same, <1>pressed, <1>never DEF KeysHeld, NoneHeld, KeysUp, Pressed
    <3>7. claim = NoClaim
      BY <2>1, <1>typed DEF ClaimShape
    <3>8. QED
      BY <2>1, <2>2, <3>2, <3>3, <3>5, <3>6, <3>7, <1>same, <1>pressed, <1>typed, GoesOn
  <2>3. CASE Ends("NotSent", FALSE, FALSE) /\ UNCHANGED link
    BY <2>1, <2>3, <1>ends
  <2>4. QED
    BY <1>1, <2>2, <2>3 DEF StartOwner
<1>2. CASE Claim
  <2> DEFINE asked == [text |-> delivery.text, on |-> delivery.on]
  <2>1. /\ At("publish") /\ link # "none" /\ UNCHANGED <<link, published, result>>
        /\ queue' = Append(queue, asked) /\ delivery' = [delivery EXCEPT !.at = "reply"]
    BY <1>2 DEF Claim
  <2>2. asked \in QueuedClaims /\ asked.text = delivery.text /\ asked.on = delivery.on
    BY <1>fields DEF QueuedClaims
  <2> HIDE DEF asked
  <2>3. /\ queue' \in Seq(QueuedClaims) /\ Len(queue) \in Nat /\ Len(queue') = Len(queue) + 1
        /\ queue'[Len(queue')] = asked /\ \A i \in 1..Len(queue) : queue'[i] = queue[i]
    BY <2>1, <2>2, <1>typed
  <2>4. delivery' \in Deliveries
    BY <2>1, <1>fields DEF Deliveries, Places
  <2>5. /\ delivery'.at = "reply" /\ delivery'.text = delivery.text /\ delivery'.on = delivery.on
        /\ delivery'.ready = delivery.ready /\ delivery'.held = delivery.held
    BY <2>1, <1>fields DEF Deliveries
  <2>6. ~delivery.ready
    BY <2>1, <1>typed DEF Pressed, At
  <2>7. /\ ~At("idle")' /\ ~At("keys")' /\ ~At("asked")' /\ ~At("inject")' /\ ~At("replied")' /\ ~Settled'
        /\ At("reply")' /\ ~At("reply")
    BY <2>1, <2>5, <2>6 DEF At, Settled
  <2>8. KeysHeld' /\ NoneHeld' /\ KeysUp' /\ Pressed'
    BY <2>5, <2>6, <2>7, <1>same, <1>pressed, <1>never DEF KeysHeld, NoneHeld, KeysUp, Pressed
  <2>9. ClaimsAreEarlier'
    <3>1. /\ delivery.text = delivered /\ (claim # NoClaim => claim.text # delivery.text /\ claim.text <= delivered)
          /\ \A i \in 1..Len(queue) : queue[i].text # delivery.text /\ queue[i].text <= delivered
      BY <2>7, <1>pressed, <1>typed DEF ClaimsAreEarlier
    <3> DEFINE last == Len(queue')
    <3>new. /\ \A i \in 1..last : i = last \/ i \in 1..Len(queue)
            /\ queue'[last].text = delivery.text /\ queue'[last].on = delivery.on
      BY <2>2, <2>3
    <3>old. \A i \in 1..Len(queue) :
              queue'[i].text # delivery.text /\ queue'[i].text <= delivered
      BY <2>3, <3>1
    <3>last. delivered \in Nat
      BY <1>typed
    <3> HIDE DEF last
    <3>2. \A i \in 1..last : queue'[i].text <= delivered
      BY <3>1, <3>new, <3>old, <3>last
    <3>3. \A i \in 1..last :
            queue'[i].text = delivery.text => i = last /\ queue'[i].on = delivery.on
      BY <3>new, <3>old
    <3> USE DEF last
    <3>4. QED
      BY <2>5, <2>7, <3>1, <3>2, <3>3, <1>same DEF ClaimsAreEarlier
  <2>10. DeliveryShape' /\ ClaimShape' /\ ServedIsOurs'
    BY <2>1, <2>4, <1>same, <1>typed DEF DeliveryShape, ClaimShape, ServedIsOurs
  <2>11. DeliveryTypeOK'
    BY <2>1, <2>3, <1>same, <1>typed DEF DeliveryTypeOK, QueuedClaims
  <2>12. SettledIsServed' /\ AskedSince'
    BY <2>1, <2>7, <1>same, <1>never, <1>pressed, <1>typed DEF SettledIsServed, AskedSince
  <2>13. QED
    BY <2>8, <2>9, <2>10, <2>11, <2>12 DEF DeliveryInv
<1>3. CASE ClaimTimesOut
  BY <1>3, <1>ends DEF ClaimTimesOut, thread
<1>4. CASE Claimed
  <2>1. UNCHANGED queue /\ At("replied") /\ ~At("reply") /\ ~At("publish")
    BY <1>4 DEF Claimed, At
  <2>2. CASE delivery.answer = "ok" /\ delivery.method = "copy" /\ Ends("Submitted", TRUE, FALSE)
             /\ UNCHANGED <<link, published>>
    <3>1. Settled
      BY <2>1, <2>2, <1>pressed DEF Settled
    <3>2. QED
      BY <2>1, <2>2, <3>1, <1>same, <1>pressed, <1>never, DeliveryEnded
  <2>3. CASE /\ delivery.answer = "ok" /\ delivery' = [delivery EXCEPT !.at = "focus", !.ready = TRUE]
             /\ UNCHANGED <<link, published, result>>
    <3>1. delivery' = [delivery EXCEPT !.at = "focus", !.ready = yes]
      BY <2>3, <1>bool
    <3>2. delivery' \in Deliveries
      BY <3>1, <1>fields DEF Deliveries, Places
    <3>3. /\ delivery'.at = "focus" /\ delivery'.text = delivery.text /\ delivery'.on = delivery.on
          /\ delivery'.held = delivery.held
      BY <3>1, <1>fields DEF Deliveries
    <3>4. ~At("idle")' /\ At("focus")' /\ ~At("keys")' /\ ~At("asked")' /\ ~At("inject")' /\ Settled
      BY <2>1, <2>3, <3>3, <1>pressed DEF At, Settled
    <3>5. KeysHeld' /\ NoneHeld' /\ KeysUp' /\ Pressed'
      BY <3>3, <3>4, <1>same, <1>pressed, <1>never DEF KeysHeld, NoneHeld, KeysUp, Pressed
    <3>6. link # "none" \/ (queue = <<>> /\ claim = NoClaim)
      BY <1>typed DEF ClaimShape
    <3>7. QED
      BY <2>1, <2>3, <3>2, <3>3, <3>4, <3>5, <3>6, <1>same, <1>pressed, <1>never, <1>typed, GoesOn
  <2>4. CASE /\ delivery.answer = "stopped" /\ delivery' = [delivery EXCEPT !.at = "publish", !.again = TRUE]
             /\ link' = "none" /\ published' = PublishOn(NoText, {}) /\ UNCHANGED result
    <3>1. delivery' = [delivery EXCEPT !.at = "publish", !.again = yes]
      BY <2>4, <1>bool
    <3>2. delivery' \in Deliveries
      BY <3>1, <1>fields DEF Deliveries, Places
    <3>3. /\ delivery'.at = "publish" /\ delivery'.text = delivery.text /\ delivery'.on = delivery.on
          /\ delivery'.ready = delivery.ready /\ delivery'.held = delivery.held
      BY <3>1, <1>fields DEF Deliveries
    <3>4. ~delivery.ready /\ queue = <<>> /\ claim = NoClaim
      BY <2>1, <2>4, <1>typed DEF Pressed, ClaimsAreEarlier, At
    <3>5. ~At("idle")' /\ ~At("keys")' /\ ~At("asked")' /\ ~At("inject")' /\ ~At("replied")' /\ ~Settled'
      BY <3>3, <3>4 DEF At, Settled
    <3>6. KeysHeld' /\ NoneHeld' /\ KeysUp' /\ Pressed'
      BY <3>3, <3>4, <3>5, <1>same, <1>pressed, <1>never DEF KeysHeld, NoneHeld, KeysUp, Pressed
    <3>7. published' \in [text : 0..MaxDeliveries, on : SUBSET Selection, asked : {"never", "earlier", "since"}]
      BY <2>4, BoundsAssumption DEF PublishOn, NoText
    <3>8. QED
      BY <2>1, <2>4, <3>2, <3>3, <3>4, <3>5, <3>6, <3>7, <1>same, <1>pressed, <1>never, <1>typed, GoesOn
  <2>5. CASE Ends("NotSent", FALSE, FALSE) /\ UNCHANGED <<link, published>>
    BY <2>1, <2>5, <1>ends
  <2>6. QED
    BY <1>4, <2>2, <2>3, <2>4, <2>5 DEF Claimed
<1>5. QED
  BY <1>1, <1>2, <1>3, <1>4

(* A look at the focus, before the publication and after it. *)
LEMMA FocusStep ==
  ASSUME DeliveryInv, ObserveFocus
  PROVE  DeliveryInv'
<1>typed. /\ DeliveryTypeOK /\ DeliveryShape /\ ClaimShape /\ Pressed /\ AskedSince
          /\ published \in [text : 0..MaxDeliveries, on : SUBSET Selection, asked : {"never", "earlier", "since"}]
          /\ sent \in [presses : Nat, after : 0..MaxDeliveries] /\ link \in {"none", "up", "lost"}
  BY DEF DeliveryInv, DeliveryTypeOK
<1>at. At("focus") /\ ~At("reply")
  BY DEF ObserveFocus, At
<1>pressed. /\ sent.presses = 0 /\ keyboard \in {{}, NoDevice} /\ delivery.held = <<>>
            /\ ~At("idle") /\ ~At("keys") /\ ~At("asked")
  BY <1>at, Unpressed
<1>never. sent.presses # 1
  BY <1>pressed
<1>fields. delivery \in Deliveries /\ delivery.ready \in BOOLEAN
  BY <1>typed, <1>pressed, DeliveryFields DEF Deliveries
<1>same. UNCHANGED <<owner, events, link, queue, claim, published, focused, keyboard, delivered, sent, taken>>
  BY DEF ObserveFocus, xserver, thread
<1>1. CASE Ends("NotSent", delivery.ready, FALSE)
  <2>1. delivery.ready => Settled
    BY <1>pressed DEF Settled
  <2>2. PICK copied \in BOOLEAN, no \in BOOLEAN : copied = delivery.ready /\ no = FALSE
    BY <1>fields
  <2>3. QED
    BY <1>1, <2>1, <2>2, <1>same, <1>pressed, <1>never, DeliveryEnded
<1>2. ASSUME NEW target \in Windows \cup {NoWindow}, FocusObserved(target), UNCHANGED result
      PROVE  DeliveryInv'
  <2>1. PICK at \in {"inject", "focus", "publish"} :
          /\ delivery' = [delivery EXCEPT !.at = at] \/ delivery' = [delivery EXCEPT !.target = target, !.at = at]
          /\ delivery.ready <=> at # "publish"
    <3>1. CASE delivery.ready /\ SameFocus(target)
      BY <1>2, <3>1 DEF FocusObserved
    <3>2. CASE delivery.ready /\ ~SameFocus(target)
      <4>1. delivery' = [delivery EXCEPT !.target = target]
        BY <1>2, <3>2 DEF FocusObserved
      <4>2. delivery' = [delivery EXCEPT !.target = target, !.at = "focus"]
        BY <4>1, <1>at, <1>fields DEF At, Deliveries
      <4>3. QED
        BY <4>2, <3>2
    <3>3. CASE ~delivery.ready
      BY <1>2, <3>3 DEF FocusObserved
    <3>4. QED
      BY <3>1, <3>2, <3>3
  <2>2. at \in Places
    BY DEF Places
  <2>3. delivery' \in Deliveries
    BY <2>1, <2>2, <1>fields, ZenonT(40) DEF Deliveries
  <2>4. /\ delivery'.at = at /\ delivery'.text = delivery.text /\ delivery'.on = delivery.on
        /\ delivery'.held = delivery.held
    BY <2>1, <1>fields DEF Deliveries
  <2>5. delivery'.ready = delivery.ready
    BY <2>1, <1>fields DEF Deliveries
  <2>6. ~At("idle")' /\ ~At("keys")' /\ ~At("asked")' /\ ~At("replied")' /\ (Settled' => Settled)
    BY <2>4, <2>5, <1>pressed DEF At, Settled
  <2>7. KeysHeld' /\ NoneHeld' /\ KeysUp'
    BY <2>4, <2>6, <1>same, <1>pressed DEF KeysHeld, NoneHeld, KeysUp
  <2>8. Pressed'
    <3>1. (At("inject")' => delivery'.ready) /\ (delivery'.ready => At("focus")' \/ At("inject")')
      BY <2>1, <2>4, <2>5 DEF At
    <3>2. QED
      BY <3>1, <2>6, <1>same, <1>pressed DEF Pressed
  <2>9. link = "none" => queue = <<>> /\ claim = NoClaim
    BY <1>typed DEF ClaimShape
  <2>10. QED
    BY <2>3, <2>4, <2>6, <2>7, <2>8, <2>9, <1>2, <1>at, <1>same, <1>pressed, <1>never, <1>typed, GoesOn
<1>3. ASSUME NEW seen \in ActiveWindow PROVE ResolveFocusTarget(seen) \in Windows \cup {NoWindow}
  BY <1>3 DEF ActiveWindow, ResolveFocusTarget
<1>4. QED
  BY <1>1, <1>2, <1>3 DEF ObserveFocus

(* The chord: its device, its keys down and up, and its end. *)
LEMMA KeyStep ==
  ASSUME DeliveryInv, Inject \/ Press \/ LetGo \/ ChordEnds \/ TextRequestedSince
  PROVE  DeliveryInv'
<1>typed. /\ DeliveryTypeOK /\ DeliveryShape /\ ClaimShape /\ Pressed /\ AskedSince /\ KeysHeld /\ KeysUp
          /\ published \in [text : 0..MaxDeliveries, on : SUBSET Selection, asked : {"never", "earlier", "since"}]
          /\ sent \in [presses : Nat, after : 0..MaxDeliveries] /\ link \in {"none", "up", "lost"}
          /\ sent.presses \in {0, 1}
  BY DEF DeliveryInv, DeliveryTypeOK, Pressed
<1>at. ~At("idle") /\ ~At("reply") /\ (At("inject") \/ At("keys") \/ At("asked"))
  BY DEF Inject, Press, LetGo, ChordEnds, TextRequestedSince, At
<1>fields. /\ delivery \in Deliveries /\ delivery.ready \in BOOLEAN /\ delivery.keys \in Seq(Key)
           /\ delivery.held \in Seq(Key) /\ delivery.mode \in Modes
  BY <1>typed, <1>at, DeliveryFields DEF Deliveries
<1>ready. delivery.ready /\ Settled
  BY <1>typed, <1>at DEF Pressed, Settled
<1>same. UNCHANGED <<owner, events, link, queue, claim, focused, delivered, taken>>
  BY DEF Inject, Press, LetGo, ChordEnds, TextRequestedSince, xserver, thread
<1>none. link = "none" => queue = <<>> /\ claim = NoClaim
  BY <1>typed DEF ClaimShape
<1>asked. sent.presses = 1 /\ published.asked = "since" => sent.after = delivery.text
  BY <1>typed, <1>at DEF AskedSince, CurrentText
<1>bool. PICK yes \in BOOLEAN, no \in BOOLEAN : yes = TRUE /\ no = FALSE
  OBVIOUS
(* It ends: the paste was pressed, or not. *)
<1>ends. ASSUME NEW kind \in {"Ambiguous", "Submitted"}, NEW consumed \in BOOLEAN,
                Ends(kind, delivery.ready, consumed), UNCHANGED <<published, sent>>,
                keyboard' \in {{}, NoDevice}, consumed => sent.presses = 1 /\ published.asked = "since"
         PROVE  DeliveryInv'
  <2>1. kind \in {"NotSent", "Ambiguous", "Submitted"} /\ kind # "NotSent"
    OBVIOUS
  <2>2. QED
    BY <1>ends, <2>1, <1>same, <1>at, <1>ready, <1>fields, DeliveryEnded
(* It goes on with the chord. *)
<1>goes. ASSUME delivery' \in Deliveries, delivery'.text = delivery.text, delivery'.on = delivery.on,
                delivery'.ready = delivery.ready, delivery'.at \in {"keys", "asked"}, UNCHANGED result,
                published' \in [text : 0..MaxDeliveries, on : SUBSET Selection, asked : {"never", "earlier", "since"}],
                published'.on = published.on, published'.text = published.text,
                sent' \in [presses : Nat, after : 0..MaxDeliveries],
                sent'.presses = 1 /\ published'.asked = "since" => sent'.after = delivery.text,
                sent'.presses \in {0, 1}, sent'.presses = 1 => At("asked")' \/ delivery'.keys = <<>>,
                At("asked")' \/ (delivery'.keys = <<>> /\ ~delivery'.failed) => sent'.presses = 1,
                KeysHeld', At("asked")' => keyboard' \in {{}, NoDevice}
         PROVE  DeliveryInv'
  <2>1. ~At("idle")' /\ (At("keys")' \/ At("asked")') /\ ~(At("keys")' /\ At("asked")')
    BY <1>goes DEF At
  <2>2. NoneHeld' /\ KeysUp' /\ Pressed'
    BY <1>goes, <2>1, <1>ready DEF NoneHeld, KeysUp, Pressed
  <2>3. delivery'.at \in {"focus", "publish", "inject", "keys", "asked"}
    BY <1>goes
  <2>4. QED
    BY <1>goes, <2>2, <2>3, <1>same, <1>at, <1>none, <1>ready, <1>typed, GoesOn
<1>1. CASE Inject
  <2>1. At("inject") /\ UNCHANGED <<published, sent>> /\ sent.presses = 0 /\ delivery.held = <<>>
        /\ keyboard \in {{}, NoDevice}
    BY <1>1, Unpressed DEF Inject, thread
  <2>2. CASE Ends("Ambiguous", delivery.ready, FALSE) /\ keyboard' \in {{}, NoDevice}
    BY <2>1, <2>2, <1>bool, <1>ends
  <2>3. CASE /\ delivery' = [delivery EXCEPT !.at = "keys", !.keys = Chord(delivery.mode)]
             /\ keyboard' = {} /\ UNCHANGED result
    <3>1. /\ Chord(delivery.mode) \in Seq(Key) /\ Chord(delivery.mode) # <<>> /\ Distinct(Chord(delivery.mode))
      BY <1>fields, ChordKeys
    <3>2. delivery' \in Deliveries
      BY <2>3, <3>1, <1>fields DEF Deliveries, Places
    <3>3. /\ delivery'.at = "keys" /\ delivery'.text = delivery.text /\ delivery'.on = delivery.on
          /\ delivery'.keys = Chord(delivery.mode) /\ delivery'.held = <<>>
      BY <2>1, <2>3, <1>fields DEF Deliveries
    <3>4. delivery'.ready = delivery.ready
      BY <2>3, <1>fields DEF Deliveries
    <3>5. KeysHeld'
      BY <2>3, <3>1, <3>3 DEF KeysHeld, KeysDown, Distinct, Apart
    <3>6. ~At("asked")' /\ sent.presses # 1
      BY <2>1, <3>3 DEF At
    <3>7. QED
      BY <2>1, <2>3, <3>1, <3>2, <3>3, <3>4, <3>5, <3>6, <1>typed, <1>goes
  <2>4. keyboard' \in {{}, NoDevice}
    BY <1>1, <2>1 DEF Inject
  <2>5. QED
    BY <1>1, <2>1, <2>2, <2>3, <2>4 DEF Inject
<1>2. CASE Press
  <2> DEFINE key == Head(delivery.keys)
  <2>1. At("keys") /\ delivery.keys # <<>> /\ UNCHANGED result
    BY <1>2 DEF Press
  <2>2. sent.presses = 0 /\ ~At("asked")
    BY <2>1, <1>typed DEF Pressed, At
  <2>3. CASE /\ keyboard' = keyboard \cup {key}
             /\ delivery' = [delivery EXCEPT !.keys = Tail(@), !.held = Append(@, key)]
             /\ IF Len(delivery.keys) = 1
                THEN /\ sent' = [presses |-> sent.presses + 1, after |-> NoText]
                     /\ published' = [published EXCEPT !.asked = IF @ = "never" THEN "never" ELSE "earlier"]
                ELSE UNCHANGED <<sent, published>>
    <3> DEFINE keys == Tail(delivery.keys)
               held == Append(delivery.held, key)
    <3>1. keys \in Seq(Key) /\ held \in Seq(Key) /\ (keys = <<>> <=> Len(delivery.keys) = 1)
      <4>1. PICK s \in Seq(Key) : s = delivery.keys /\ s # <<>>
        BY <2>1, <1>fields
      <4>2. Tail(s) \in Seq(Key) /\ Head(s) \in Key /\ (Tail(s) = <<>> <=> Len(s) = 1)
        <5>1. Head(s) \in Key /\ Tail(s) \in Seq(Key) /\ Len(Tail(s)) = Len(s) - 1
          BY <4>1, HeadTailProperties
        <5>2. Tail(s) = <<>> <=> Len(Tail(s)) = 0
          BY <5>1, EmptySeq
        <5>3. QED
          BY <4>1, <5>1, <5>2
      <4>3. held \in Seq(Key)
        BY <4>1, <4>2, <1>fields
      <4>4. QED
        BY <4>1, <4>2, <4>3
    <3>2. delivery' = [delivery EXCEPT !.keys = keys, !.held = held]
      BY <2>3
    <3>3. ~delivery.failed => KeysDown(held, keyboard') /\ Distinct(held) /\ Distinct(keys) /\ Apart(keys, held)
      BY <2>1, <2>3, <1>fields, <1>typed, KeyDown DEF KeysHeld
    <3> HIDE DEF keys, held
    <3>4. delivery' \in Deliveries
      BY <3>1, <3>2, <1>fields DEF Deliveries
    <3>5. /\ delivery'.at = "keys" /\ delivery'.text = delivery.text /\ delivery'.on = delivery.on
          /\ delivery'.keys = keys /\ delivery'.held = held
      BY <2>1, <3>2, <1>fields DEF Deliveries, At
    <3>6. delivery'.ready = delivery.ready /\ delivery'.failed = delivery.failed
      BY <3>2, <1>fields DEF Deliveries
    <3>7. KeysHeld' /\ ~At("asked")'
      BY <3>3, <3>5, <3>6 DEF KeysHeld, At
    <3>8. CASE Len(delivery.keys) = 1
      <4>1. sent' = [presses |-> 1, after |-> 0]
        BY <2>2, <2>3, <3>8 DEF NoText
      <4>2. sent' \in [presses : Nat, after : 0..MaxDeliveries] /\ sent'.presses = 1
        BY <4>1, BoundsAssumption
      <4>3. PICK asked \in {"never", "earlier"} : published' = [published EXCEPT !.asked = asked]
        BY <2>3, <3>8
      <4>4. /\ published' \in [text : 0..MaxDeliveries, on : SUBSET Selection, asked : {"never", "earlier", "since"}]
            /\ published'.on = published.on /\ published'.text = published.text /\ published'.asked # "since"
        BY <4>3, <1>typed
      <4>5. QED
        BY <2>1, <3>1, <3>4, <3>5, <3>6, <3>7, <3>8, <4>2, <4>4, <1>goes
    <3>9. CASE Len(delivery.keys) # 1
      <4>1. UNCHANGED <<sent, published>> /\ keys # <<>>
        BY <2>3, <3>1, <3>9
      <4>2. QED
        BY <2>1, <2>2, <3>4, <3>5, <3>6, <3>7, <4>1, <1>typed, <1>goes
    <3>10. QED
      BY <3>8, <3>9
  <2>4. CASE delivery' = [delivery EXCEPT !.keys = <<>>, !.failed = TRUE] /\ UNCHANGED <<keyboard, sent, published>>
    <3>0. delivery' = [delivery EXCEPT !.keys = <<>>, !.failed = yes] /\ <<>> \in Seq(Key)
      BY <2>4, <1>bool
    <3>1. PICK none \in Seq(Key) : none = <<>> /\ delivery' = [delivery EXCEPT !.keys = none, !.failed = yes]
      BY <3>0, Zenon
    <3>2. delivery' \in Deliveries
      BY <3>1, <1>fields DEF Deliveries
    <3>3. /\ delivery'.at = "keys" /\ delivery'.text = delivery.text /\ delivery'.on = delivery.on
          /\ delivery'.keys = <<>> /\ delivery'.failed = yes
      BY <2>1, <3>1, <1>fields DEF Deliveries, At
    <3>4. delivery'.ready = delivery.ready
      BY <3>1, <1>fields DEF Deliveries
    <3>5. KeysHeld' /\ ~At("asked")'
      BY <3>3, <1>bool DEF KeysHeld, At
    <3>6. QED
      BY <2>1, <2>2, <2>4, <3>2, <3>3, <3>4, <3>5, <1>bool, <1>typed, <1>goes
  <2>5. QED
    BY <1>2, <2>3, <2>4 DEF Press
<1>3. CASE LetGo
  <2> DEFINE key == delivery.held[Len(delivery.held)]
             rest == SubSeq(delivery.held, 1, Len(delivery.held) - 1)
  <2>1. At("keys") /\ delivery.keys = <<>> /\ delivery.held # <<>> /\ UNCHANGED <<result, sent, published>>
    BY <1>3 DEF LetGo, thread
  <2>2. ~At("asked") /\ (~delivery.failed => sent.presses = 1)
    BY <2>1, <1>typed DEF Pressed, At
  <2>3. rest \in Seq(Key)
    BY <2>1, <1>fields
  <2>4. CASE keyboard' = keyboard \ {key} /\ delivery' = [delivery EXCEPT !.held = rest]
    <3>1. ~delivery.failed => KeysDown(rest, keyboard') /\ Distinct(rest) /\ Apart(<<>>, rest)
      BY <2>1, <2>4, <1>fields, <1>typed, KeyUp DEF KeysHeld
    <3> HIDE DEF rest
    <3>2. delivery' \in Deliveries
      BY <2>3, <2>4, <1>fields DEF Deliveries
    <3>3. /\ delivery'.at = "keys" /\ delivery'.text = delivery.text /\ delivery'.on = delivery.on
          /\ delivery'.keys = <<>> /\ delivery'.held = rest
      BY <2>1, <2>4, <1>fields DEF Deliveries, At
    <3>4. delivery'.ready = delivery.ready /\ delivery'.failed = delivery.failed
      BY <2>4, <1>fields DEF Deliveries
    <3>5. KeysHeld' /\ ~At("asked")'
      BY <3>1, <3>3, <3>4 DEF KeysHeld, At, Distinct
    <3>6. QED
      BY <2>1, <2>2, <3>2, <3>3, <3>4, <3>5, <1>asked, <1>typed, <1>goes
  <2>5. CASE delivery' = [delivery EXCEPT !.held = rest, !.failed = TRUE]
    <3>1. delivery' = [delivery EXCEPT !.held = rest, !.failed = yes]
      BY <2>5, <1>bool
    <3> HIDE DEF rest
    <3>2. delivery' \in Deliveries
      BY <2>3, <3>1, <1>fields DEF Deliveries
    <3>3. /\ delivery'.at = "keys" /\ delivery'.text = delivery.text /\ delivery'.on = delivery.on
          /\ delivery'.keys = <<>> /\ delivery'.failed = yes
      BY <2>1, <3>1, <1>fields DEF Deliveries, At
    <3>4. delivery'.ready = delivery.ready
      BY <3>1, <1>fields DEF Deliveries
    <3>5. KeysHeld' /\ ~At("asked")'
      BY <3>3, <1>bool DEF KeysHeld, At
    <3>6. QED
      BY <2>1, <3>2, <3>3, <3>4, <3>5, <1>bool, <1>asked, <1>typed, <1>goes
  <2>6. QED
    BY <1>3, <2>4, <2>5 DEF LetGo
<1>4. CASE ChordEnds
  <2>1. At("keys") /\ delivery.keys = <<>> /\ delivery.held = <<>> /\ UNCHANGED <<sent, published>>
    BY <1>4 DEF ChordEnds, thread
  <2>2. CASE keyboard' = NoDevice /\ Ends("Ambiguous", delivery.ready, FALSE)
    BY <2>1, <2>2, <1>bool, <1>ends
  <2>3. CASE ~delivery.failed /\ delivery' = [delivery EXCEPT !.at = "asked"] /\ UNCHANGED <<keyboard, result>>
    <3>1. sent.presses = 1 /\ keyboard = {}
      <4>1. KeysDown(<<>>, keyboard)
        BY <2>1, <2>3, <1>typed DEF KeysHeld
      <4>2. \A key : key \notin keyboard
        BY <4>1 DEF KeysDown
      <4>3. QED
        BY <2>1, <2>3, <4>2, <1>typed DEF Pressed
    <3>2. delivery' \in Deliveries
      BY <2>3, <1>fields DEF Deliveries, Places
    <3>3. delivery'.at = "asked" /\ delivery'.text = delivery.text /\ delivery'.on = delivery.on
      BY <2>3, <1>fields DEF Deliveries
    <3>4. delivery'.ready = delivery.ready
      BY <2>3, <1>fields DEF Deliveries
    <3>5. KeysHeld' /\ At("asked")'
      BY <3>3 DEF KeysHeld, At
    <3>6. QED
      BY <2>1, <2>3, <3>1, <3>2, <3>3, <3>4, <3>5, <1>asked, <1>typed, <1>goes
  <2>4. QED
    BY <1>4, <2>2, <2>3 DEF ChordEnds
<1>5. CASE TextRequestedSince
  <2>1. /\ At("asked") /\ UNCHANGED <<sent, published, keyboard>> /\ Ends("Submitted", delivery.ready, published.asked = "since")
        /\ sent.presses = 1
    BY <1>5, <1>typed DEF TextRequestedSince, thread, Pressed
  <2>2. PICK consumed \in BOOLEAN : consumed <=> published.asked = "since"
    OBVIOUS
  <2>3. keyboard \in {{}, NoDevice}
    BY <2>1, <1>typed DEF KeysUp, At
  <2>4. Ends("Submitted", delivery.ready, consumed)
    BY <2>1, <2>2
  <2>5. QED
    BY <2>1, <2>2, <2>3, <2>4, <1>ends
<1>6. QED
  BY <1>1, <1>2, <1>3, <1>4, <1>5

(* A delivery begins: every claim that is left is an earlier one's. *)
LEMMA DeliverStep ==
  ASSUME DeliveryInv, NEW method \in {"paste", "copy"}, NEW mode \in Modes, Deliver(method, mode)
  PROVE  DeliveryInv'
<1>typed. /\ DeliveryTypeOK /\ DeliveryShape /\ ClaimShape /\ ServedIsOurs /\ ClaimsAreEarlier /\ KeysUp
          /\ delivered \in 0..MaxDeliveries /\ delivered \in Nat
          /\ queue \in Seq(QueuedClaims) /\ Len(queue) \in Nat
  BY BoundsAssumption DEF DeliveryInv, DeliveryTypeOK, DeliveryShape, QueuedClaims
<1>1. /\ At("idle") /\ delivered' = delivered + 1 /\ delivered < MaxDeliveries /\ result' = NoResult /\ sent' = NotPressed
      /\ UNCHANGED <<owner, events, link, queue, claim, published, focused, keyboard, taken>>
  BY DEF Deliver, xserver, thread
<1>2. PICK at \in {"focus", "publish"}, on \in SUBSET Selection, no \in BOOLEAN, keys \in Seq(Key) :
        /\ no = FALSE /\ keys = <<>>
        /\ delivery' = [at |-> at, text |-> delivered', method |-> method, mode |-> mode, on |-> on,
                        target |-> NoText, ready |-> no, again |-> no, answer |-> "none", keys |-> keys,
                        held |-> keys, failed |-> no]
  <2>1. {Clipboard} \in SUBSET Selection /\ PublishedOn(mode) \in SUBSET Selection
    BY DEF PublishedOn, Selection
  <2> DEFINE at == IF method = "paste" THEN "focus" ELSE "publish"
             on == IF method = "paste" THEN PublishedOn(mode) ELSE {Clipboard}
  <2>2. delivery' = [at |-> at, text |-> delivered', method |-> method, mode |-> mode, on |-> on,
                     target |-> NoText, ready |-> FALSE, again |-> FALSE, answer |-> "none", keys |-> <<>>,
                     held |-> <<>>, failed |-> FALSE]
    BY DEF Deliver
  <2>3. at \in {"focus", "publish"} /\ on \in SUBSET Selection /\ FALSE \in BOOLEAN /\ <<>> \in Seq(Key)
    BY <2>1
  <2> HIDE DEF at, on
  <2>4. QED
    BY <2>2, <2>3, Zenon
<1>3. delivered' \in 1..MaxDeliveries
  BY <1>1, <1>typed, BoundsAssumption
<1>4. at \in Places /\ "none" \in Answers
  BY DEF Places, Answers
<1>5. delivery' \in Deliveries
  BY <1>2, <1>3, <1>4 DEF Deliveries
<1>6. delivery'.at = at /\ delivery'.text = delivered' /\ delivery'.held = <<>>
  BY <1>2
<1>7. ~delivery'.ready
  BY <1>2
<1>8. ~At("idle")' /\ ~At("keys")' /\ ~At("asked")' /\ ~At("inject")' /\ ~At("reply")' /\ ~At("replied")' /\ ~At("keys")
  BY <1>1, <1>6 DEF At
<1>9. ~Settled'
  BY <1>7, <1>8 DEF Settled
<1>10. sent' \in [presses : Nat, after : 0..MaxDeliveries] /\ sent'.presses = 0 /\ result'.kind = "none" /\ ~result'.consumed
  BY <1>1, BoundsAssumption DEF NotPressed, NoResult, NoText
<1>11. DeliveryTypeOK' /\ ClaimShape' /\ ServedIsOurs'
  BY <1>1, <1>10, <1>typed DEF DeliveryTypeOK, ClaimShape, ServedIsOurs
<1>12. DeliveryShape'
  BY <1>3, <1>5 DEF DeliveryShape
<1>13. KeysHeld' /\ NoneHeld' /\ KeysUp' /\ Pressed'
  BY <1>1, <1>6, <1>7, <1>8, <1>10, <1>typed DEF KeysHeld, NoneHeld, KeysUp, Pressed
<1>14. ClaimsAreEarlier'
  <2>1. ASSUME NEW i \in 1..Len(queue) PROVE queue[i].text <= delivered /\ queue[i].text \in Nat
    <3>1. queue[i] \in QueuedClaims
      BY <1>typed
    <3>2. queue[i].text \in 1..MaxDeliveries
      BY <3>1 DEF QueuedClaims
    <3>3. queue[i].text <= delivered
      BY <1>typed DEF ClaimsAreEarlier
    <3>4. QED
      BY <3>2, <3>3, BoundsAssumption
  <2>2. claim # NoClaim => claim.text <= delivered /\ claim.text \in Nat
    BY <1>typed, BoundsAssumption DEF ClaimsAreEarlier, ClaimShape, RunningClaims
  <2>3. QED
    BY <2>1, <2>2, <1>1, <1>6, <1>8, <1>typed DEF ClaimsAreEarlier
<1>15. SettledIsServed' /\ AskedSince'
  BY <1>9, <1>10 DEF SettledIsServed, AskedSince
<1>16. QED
  BY <1>11, <1>12, <1>13, <1>14, <1>15 DEF DeliveryInv

(* Every step of a delivery and of its surroundings keeps the invariant. *)
LEMMA DeliveryStep == DeliveryInv /\ [DeliveryNext]_deliveryVars => DeliveryInv'
<1> SUFFICES ASSUME DeliveryInv, [DeliveryNext]_deliveryVars PROVE DeliveryInv'
  OBVIOUS
<1>1. CASE UNCHANGED deliveryVars
  <2>1. DeliveryTypeOK' /\ DeliveryShape' /\ ClaimShape' /\ ServedIsOurs'
    BY <1>1 DEF deliveryVars, DeliveryInv, DeliveryTypeOK, DeliveryShape, ClaimShape, ServedIsOurs
  <2>2. KeysHeld' /\ NoneHeld' /\ KeysUp' /\ Pressed' /\ ClaimsAreEarlier'
    BY <1>1 DEF deliveryVars, DeliveryInv, KeysHeld, NoneHeld, KeysUp, Pressed, ClaimsAreEarlier, At, KeysDown
  <2>3. SettledIsServed' /\ AskedSince'
    BY <1>1 DEF deliveryVars, DeliveryInv, SettledIsServed, AskedSince, Settled, CurrentText, CurrentOn, At
  <2>4. QED
    BY <2>1, <2>2, <2>3 DEF DeliveryInv
<1>2. QED
  BY <1>1, ClaimStep, ReplyStep, EventStep, PublishStep, FocusStep, KeyStep, DeliverStep
  DEF DeliveryNext, OwnerThread, DelivererSteps

--------------------------------------------------------------------------------
(* Desktop *)

(* The inductive invariant of Desktop: its parts share no state. *)
DesktopInv == DeliveryInv /\ DuckingInv /\ ToolsInv /\ MicrophoneInv

(* A step of one part is one that leaves the others alone. *)
LEMMA DesktopStep == DesktopInv /\ [DesktopNext]_desktopVars => DesktopInv'
<1> SUFFICES ASSUME DesktopInv, [DesktopNext]_desktopVars PROVE DesktopInv'
  OBVIOUS
<1>1. /\ [DeliveryNext]_deliveryVars /\ [DuckingNext]_duckingVars /\ [ToolsNext]_toolVars
      /\ [MicrophoneNext]_testVars
  BY DEF DesktopNext, DeliveryMoves, DuckingMoves, ToolsMove, MicrophoneMoves, desktopVars
<1>2. QED
  BY <1>1, DeliveryStep, DuckingStep, ToolsStep, MicrophoneStep DEF DesktopInv

(* Whatever the desktop and the failures do, every part keeps its invariant. *)
THEOREM DesktopInvariance == DesktopSpec => []DesktopInv
<1>1. DesktopInit => DesktopInv
  BY DeliveryInvInit, DuckingInvInit, ToolsInvInit, MicrophoneInvInit DEF DesktopInit, DesktopInv
<1>2. QED
  BY <1>1, DesktopStep, PTL DEF DesktopSpec

(* No key of a chord stays down, whichever press or release of it failed (injection.rs). *)
THEOREM NoKeyIsLeftDown == DesktopSpec => []NoKeyStaysDown
<1>1. DesktopInv => NoKeyStaysDown
  BY DeliveryInvReports DEF DesktopInv
<1>2. QED
  BY <1>1, DesktopInvariance, PTL

(* What a delivery reports is so: a copied text is served until another application takes the
   selection, a delivery that was not sent pressed no paste key, and a paste reported as consumed
   handed this text out (system.rs, clipboard.rs). *)
THEOREM DeliveryReportsAreTrue == DesktopSpec => []ReportsAreTrue
<1>1. DesktopInv => ReportsAreTrue
  BY DeliveryInvReports DEF DesktopInv, ReportsAreTrue
<1>2. QED
  BY <1>1, DesktopInvariance, PTL

(* A lowered output has one owner who knows its volume, and the journal names it, through deaths
   of the daemon and failed calls (audio_ducking.rs). *)
THEOREM LoweredOutputsAreOwned == DesktopSpec => []LoweredIsAccountedFor
<1>1. DesktopInv => LoweredIsAccountedFor
  BY DuckingInvAccounts DEF DesktopInv, DuckingInv, LoweredIsAccountedFor
<1>2. QED
  BY <1>1, DesktopInvariance, PTL

(* A call leaves no process, pipe or recording behind it: neither a tool that was killed at its
   deadline nor a microphone test whose session or daemon ended (command.rs, microphone_test.rs). *)
THEOREM CallsLeaveNothing == DesktopSpec => []NothingOutlivesItsCall
<1>1. DesktopInv => NothingOutlivesItsCall
  BY MicrophoneInvKeepsNothing DEF DesktopInv, ToolsInv, NothingOutlivesItsCall
<1>2. QED
  BY <1>1, DesktopInvariance, PTL

--------------------------------------------------------------------------------
(* The history lane *)

(* The fields of the records that are updated in place. *)
HistoryShape ==
  /\ DOMAIN client = {"page", "nth", "read", "outdated", "away"}
  /\ DOMAIN lane = {"at", "more", "search", "answer", "pending"}
  /\ lane.at \in {"idle", "reads", "answered"} /\ lane.more \in BOOLEAN
  /\ typed \in Searches

(* What the client holds is the search typed, the read on its way is of it, or the one
   that follows is. *)
LaneInv ==
  LET held == ~excuse => client.page.search = typed
  IN IF lane.pending # "none" THEN lane.at # "idle" /\ lane.pending = typed
     ELSE \/ lane.at = "idle" /\ held
          \/ lane.at = "reads" /\ lane.more /\ held
          \/ lane.at = "reads" /\ ~lane.more /\ lane.search = typed
          \/ lane.at = "answered" /\ held
          \/ lane.at = "answered" /\ lane.answer = Failed

NotYetAnswered == lane.at # "answered" => lane.answer = Failed

HistoryInv == HistoryShape /\ LaneInv /\ NotYetAnswered

--------------------------------------------------------------------------------
(* The settings *)

Word == [spelling : Spellings, aliases : {0, 1}]
Words == Seq(Word)
Settings == [words : Words, keep : Retentions, key : Keys \cup {NoKey}]
Requests ==
  [words : Words] \cup [words : Words, row : Nat] \cup [keep : Retentions]
    \cup [key : Keys \cup {NoKey}, setup : {TRUE}]

QueueType ==
  /\ config \in Settings /\ saved \in Settings
  /\ pending \in Seq(Requests)
  /\ answer \in {"none", "saved", "refused"}
  /\ answer # "none" => pending # <<>>
  /\ lost \in BOOLEAN

ScreenType ==
  /\ shorter \in Retentions \cup {Unset}
  /\ told \in BOOLEAN
  /\ confirmed \subseteq Retentions
  /\ editor = NoEditor \/ editor \in [index : Nat \ {0}, was : Word, of : Spellings]

(* Of the requests on their way that set a field one is the last. *)
Setters(field) == {0} \cup {i \in DOMAIN pending : field \in DOMAIN pending[i]}
HasLast(field) == \E i \in Setters(field) : \A j \in Setters(field) : j <= i

(* What the daemon has, as far as its answers come through. *)
ConfigInv ==
  ~lost => IF answer = "saved" THEN config = Change(saved, pending[1]) ELSE config = saved

ValidInv ==
  /\ Valid(config.words) /\ Valid(saved.words)
  /\ \A i \in DOMAIN pending : "words" \in DOMAIN pending[i] => Valid(pending[i].words)

(* The screen shows the words meant, and an open row the word it edits. *)
WordsInv ==
  ~lost => /\ pending = <<>> => meant = saved.words
           /\ ~told => meant = Shown.words
           /\ ~told => EditorKeepsItsWord

Confirmed(keep, choices) == \E choice \in choices : choice <= keep

(* A keep on its way is no shorter than the daemon's and those before it, or confirmed. *)
KeepsInv ==
  ~lost => \A i \in DOMAIN pending : "keep" \in DOMAIN pending[i] =>
    \/ Confirmed(pending[i].keep, confirmed)
    \/ /\ config.keep <= pending[i].keep
       /\ \A h \in 1..i : "keep" \in DOMAIN pending[h] => pending[h].keep <= pending[i].keep

(* The answer that counts is the one about the key last checked. *)
SetupInv ==
  /\ setup \in [box : Keys \cup {NoKey}, replacing : BOOLEAN, nth : Nat,
                key : {"idle", "checking", "works", "problem"}]
  /\ \A check \in checks : /\ check.nth \in Nat /\ check.nth <= setup.nth
                           /\ check.pasted \in Keys \cup {NoKey}
                           /\ check.nth = setup.nth => check.pasted = latest

QueueInv == QueueType /\ ConfigInv /\ HasLast("words") /\ HasLast("keep") /\ ValidInv

FormInv == QueueInv /\ ScreenType /\ WordsInv /\ KeepsInv /\ SetupInv

--------------------------------------------------------------------------------
(* The status *)

StatusType ==
  /\ {devices, clock} \subseteq Nat
  /\ listened \in Seq(BOOLEAN)
  /\ desktop \in [found : Nat, foundAt : Nat, checkedAt : Nat, counted : Nat, checked : Nat]
  /\ DOMAIN asking = Askers

(* A check on its way counts no more than was counted, and is no later than it says; it
   finds what it counts. *)
KnowsItsPast(session) ==
  /\ "at" \in DOMAIN session
  /\ session.at \in {"check", "store"} =>
       /\ session.counted \in Nat /\ session.counted <= desktop.counted
       /\ session.now \in Nat /\ session.now <= clock
  /\ session.at = "store" =>
       /\ session.found \in Nat /\ session.counted <= session.found
       /\ session.foundAt \in Nat /\ session.now <= session.foundAt
       /\ session.foundAt <= clock

ChecksInv ==
  /\ desktop.counted + Len(listened) = devices
  /\ desktop.checked <= desktop.found
  /\ desktop.checkedAt <= desktop.foundAt /\ desktop.foundAt <= clock
  /\ \A a \in Askers : KnowsItsPast(asking[a])

StatusInv == StatusType /\ ChecksInv

--------------------------------------------------------------------------------
(* The launches *)

LaunchInv ==
  /\ DOMAIN launch = Launched
  /\ \A p \in Launched :
       launch[p] \in {"watches", "starts", "open", "exits"} => windowLock = p

--------------------------------------------------------------------------------
(* The history lane: proof *)

(* Everything read again keeps the search, *)
LEMMA ReloadKeeps ==
  ASSUME NEW c, DOMAIN c = {"page", "nth", "read", "outdated", "away"}
  PROVE  /\ DOMAIN Reload(c) = {"page", "nth", "read", "outdated", "away"}
         /\ Reload(c).page.search = c.page.search
  BY DEF Reload, HistoryPage

(* as does what else leaves the lane alone. *)
LEMMA LaneRests ==
  ASSUME HistoryInv, UNCHANGED <<typed, lane>>, excuse => excuse',
         DOMAIN client' = DOMAIN client, client'.page.search = client.page.search
  PROVE  HistoryInv'
  BY DEF HistoryInv, HistoryShape, LaneInv, NotYetAnswered

LEMMA LaneStarts ==
  ASSUME HistoryInv, UNCHANGED <<client, excuse>>,
         NEW more \in BOOLEAN, NEW search, lane' = Read(more, search),
         typed' \in Searches,
         IF more THEN ~excuse => client.page.search = typed' ELSE search = typed'
  PROVE  HistoryInv'
  BY DEF HistoryInv, HistoryShape, LaneInv, NotYetAnswered, Read, IdleLane

(* A search typed is read at once, or follows the read on its way. *)
LEMMA LaneTypes ==
  ASSUME HistoryInv, NEW search \in Searches, Types(search)
  PROVE  HistoryInv'
<1>1. CASE lane.at = "idle"
  <2> DEFINE no == FALSE
  <2>1. no \in BOOLEAN /\ ~no /\ lane' = Read(no, search)
    BY <1>1 DEF Types, Schedule
  <2> HIDE DEF no
  <2>2. typed' = search /\ UNCHANGED <<client, excuse>>
    BY DEF Types
  <2>3. QED
    BY <2>1, <2>2, LaneStarts
<1>2. CASE lane.at # "idle"
  <2>1. lane' = [lane EXCEPT !.pending = search] /\ typed' = search
    BY <1>2 DEF Types, Schedule
  <2>2. search # "none"
    BY DEF Searches
  <2>3. UNCHANGED <<client, excuse>>
    BY DEF Types
  <2>4. QED
    BY <1>2, <2>1, <2>2, <2>3 DEF HistoryInv, HistoryShape, LaneInv, NotYetAnswered
<1>3. QED
  BY <1>1, <1>2

(* More follows what is shown. *)
LEMMA LaneShowsMore ==
  ASSUME HistoryInv, ShowsMore
  PROVE  HistoryInv'
<1> DEFINE yes == TRUE
<1>1. yes \in BOOLEAN /\ yes
  OBVIOUS
<1>2. lane' = Read(yes, "all") /\ lane.at = "idle" /\ UNCHANGED <<client, excuse, typed>>
  BY DEF ShowsMore
<1> HIDE DEF yes
<1>3. ~excuse => client.page.search = typed'
  BY <1>2 DEF HistoryInv, LaneInv
<1>4. typed' \in Searches
  BY <1>2 DEF HistoryInv, HistoryShape
<1>5. QED
  BY <1>1, <1>2, <1>3, <1>4, LaneStarts

(* A read answers with the page of the search it was begun for, or fails. *)
LEMMA LaneAnswers ==
  ASSUME HistoryInv, LaneReads \/ LaneCannotRead
  PROVE  HistoryInv'
<1> USE DEF HistoryInv, HistoryShape, LaneInv, NotYetAnswered
<1>1. lane.at = "reads" /\ UNCHANGED <<typed, excuse>>
  BY DEF LaneReads, LaneCannotRead
<1>2. CASE /\ lane' = [lane EXCEPT !.at = "answered"]
           /\ DOMAIN client' = DOMAIN client /\ client'.page = client.page
  BY <1>1, <1>2
<1>3. CASE /\ lane' = [lane EXCEPT !.at = "answered", !.answer = Model(client')]
           /\ DOMAIN client' = DOMAIN client
           /\ client'.page.search = IF lane.more THEN client.page.search ELSE lane.search
  <2> DEFINE new == lane'
  <2>1. DOMAIN new = DOMAIN lane /\ new.at = "answered"
    BY <1>3
  <2>2. new.more = lane.more /\ new.pending = lane.pending
    BY <1>3
  <2> HIDE DEF new
  <2>3. lane' = new
    BY DEF new
  <2>4. QED
    BY <1>1, <1>3, <2>1, <2>2, <2>3
<1>4. LaneCannotRead => lane' = [lane EXCEPT !.at = "answered"] /\ client' = client
  BY DEF LaneCannotRead
<1>5. LaneReads /\ daemon = "newer" =>
        /\ lane' = [lane EXCEPT !.at = "answered"]
        /\ DOMAIN client' = DOMAIN client /\ client'.page = client.page
  BY DEF LaneReads
<1>6. LaneReads /\ daemon # "newer" =>
        /\ lane' = [lane EXCEPT !.at = "answered", !.answer = Model(client')]
        /\ DOMAIN client' = DOMAIN client
        /\ client'.page.search = IF lane.more THEN client.page.search ELSE lane.search
  <2> DEFINE page == IF lane.more THEN MorePage(client.page)
                     ELSE HistoryPage(lane.search, 0, FirstPage)
  <2>1. LaneReads /\ daemon # "newer" =>
          /\ lane' = [lane EXCEPT !.at = "answered", !.answer = Model(client')]
          /\ client' = [client EXCEPT !.nth = @ + 1, !.page = page]
    BY DEF LaneReads
  <2>2. page.search = IF lane.more THEN client.page.search ELSE lane.search
    BY DEF MorePage, HistoryPage
  <2> HIDE DEF page
  <2>3. client' = [client EXCEPT !.nth = @ + 1, !.page = page] =>
          DOMAIN client' = DOMAIN client /\ client'.page.search = page.search
    OBVIOUS
  <2>4. QED
    BY <2>1, <2>2, <2>3
<1> HIDE DEF HistoryInv, HistoryShape, LaneInv, NotYetAnswered
<1>7. CASE LaneCannotRead
  BY <1>2, <1>4, <1>7
<1>8. CASE LaneReads
  BY <1>2, <1>3, <1>5, <1>6, <1>8
<1>9. QED
  BY <1>7, <1>8

LEMMA LaneEnds ==
  ASSUME HistoryInv, LaneCompletes
  PROVE  HistoryInv'
<1>1. lane.at = "answered" /\ UNCHANGED <<typed, client>>
  BY DEF LaneCompletes
<1>2. CASE lane.pending # "none"
  <2> DEFINE no == FALSE
  <2>1. no \in BOOLEAN /\ ~no /\ lane' = Read(no, lane.pending) /\ UNCHANGED excuse
    BY <1>2 DEF LaneCompletes
  <2> HIDE DEF no
  <2>2. lane.pending = typed' /\ typed' \in Searches
    BY <1>1, <1>2 DEF HistoryInv, HistoryShape, LaneInv
  <2>3. QED
    BY <1>1, <2>1, <2>2, LaneStarts
<1>3. CASE lane.pending = "none"
  <2>1. lane' = IdleLane /\ IF lane.answer = Failed THEN excuse' ELSE excuse => excuse'
    BY <1>3 DEF LaneCompletes
  <2>2. lane.answer = Failed \/ (~excuse => client.page.search = typed)
    BY <1>1, <1>3 DEF HistoryInv, HistoryShape, LaneInv
  <2>3. QED
    BY <1>1, <2>1, <2>2 DEF HistoryInv, HistoryShape, LaneInv, NotYetAnswered, IdleLane
<1>4. QED
  BY <1>2, <1>3

(* The watcher, the actions and the daemon leave the lane and the search alone. *)
LEMMA HistoryStep ==
  ASSUME HistoryInv, HistoryThreads \/ HistoryWorld \/ HistoryClicks
  PROVE  HistoryInv'
<1> DEFINE LaneKept == /\ UNCHANGED <<typed, lane>> /\ (excuse => excuse')
                     /\ DOMAIN client' = DOMAIN client
                     /\ client'.page.search = client.page.search
<1>c. DOMAIN client = {"page", "nth", "read", "outdated", "away"}
  BY DEF HistoryInv, HistoryShape
<1>r. client' = Reload(client) => /\ DOMAIN client' = DOMAIN client
                                  /\ client'.page.search = client.page.search
  BY <1>c, ReloadKeeps
<1>1. Registers \/ WatcherWakes \/ Applies \/ ActionRuns \/ ActionCompletes => LaneKept
  BY DEF Registers, WatcherWakes, Applies, ActionRuns, ActionCompletes
<1>2. Commits \/ Stops \/ Starts \/ WatcherFails \/ WatcherCannotRead \/ ActionUnanswered
        \/ ActionCannotRead => LaneKept
  <2>1. Commits \/ Stops \/ Starts \/ WatcherFails \/ WatcherCannotRead \/ ActionUnanswered
          \/ ActionCannotRead => UNCHANGED <<typed, lane, client>>
    BY Zenon DEF Commits, Stops, Starts, WatcherFails, WatcherCannotRead, ActionUnanswered,
                 ActionCannotRead
  <2>2. Commits \/ Stops \/ Starts \/ WatcherFails \/ WatcherCannotRead \/ ActionUnanswered
          \/ ActionCannotRead => (excuse => excuse')
    BY Zenon DEF Commits, Stops, Starts, WatcherFails, WatcherCannotRead, ActionUnanswered,
                 ActionCannotRead
  <2>3. QED
    BY <2>1, <2>2
<1>3. Opens \/ WatcherReads \/ ActionReads => LaneKept
  BY <1>r DEF Opens, WatcherReads, ActionReads
<1>4. WatcherAsks => LaneKept
  <2> DEFINE away == IF daemon = "newer" THEN client.away ELSE daemon = "down"
             outdated == client.outdated \/ daemon = "newer"
  <2>1. WatcherAsks =>
          \/ client' = client
          \/ client' = [client EXCEPT !.nth = @ + 1, !.away = away, !.outdated = outdated]
    BY Zenon DEF WatcherAsks
  <2>2. WatcherAsks => UNCHANGED <<typed, lane, excuse>>
    BY Zenon DEF WatcherAsks
  <2> HIDE DEF away, outdated
  <2>3. client' = [client EXCEPT !.nth = @ + 1, !.away = away, !.outdated = outdated]
          => DOMAIN client' = DOMAIN client /\ client'.page.search = client.page.search
    BY <1>c
  <2>4. WatcherAsks => DOMAIN client' = DOMAIN client /\ client'.page.search = client.page.search
    BY <2>1, <2>3
  <2>5. QED
    BY <2>2, <2>4
<1>5. ActionFindsNoDaemon => LaneKept
  BY <1>c DEF ActionFindsNoDaemon
<1>6. ASSUME NEW i \in Dictations, ClicksCopy(i)  PROVE LaneKept
  BY <1>6 DEF ClicksCopy
<1>7. ASSUME NEW act, ClicksDelete(act)  PROVE LaneKept
  BY <1>7 DEF ClicksDelete
<1>8. LaneKept => HistoryInv'
  BY LaneRests
<1> HIDE DEF LaneKept
<1>9. HistoryThreads => HistoryInv'
  BY <1>1, <1>3, <1>4, <1>5, <1>8, LaneAnswers, LaneEnds DEF HistoryThreads
<1>10. HistoryWorld => HistoryInv'
  BY <1>2, <1>8, LaneAnswers DEF HistoryWorld
<1>11. HistoryClicks => HistoryInv'
  BY <1>6, <1>7, <1>8, LaneTypes, LaneShowsMore DEF HistoryClicks
<1>12. QED
  BY <1>9, <1>10, <1>11

--------------------------------------------------------------------------------
(* The status: proof *)

(* A session gets as far as a check or a store only in order, *)
LEMMA SessionMoves ==
  ASSUME StatusInv, NEW a \in Askers, NEW session, Asks(a, session),
         UNCHANGED <<devices, clock, listened, desktop>>, KnowsItsPast(session)
  PROVE  StatusInv'
<1>1. asking' = [asking EXCEPT ![a] = session]
  BY DEF Asks
<1>2. StatusType'
  BY <1>1 DEF StatusInv, StatusType
<1>3. ASSUME NEW b \in Askers  PROVE KnowsItsPast(asking[b])'
  <2>1. asking'[b] = IF b = a THEN session ELSE asking[b]
    BY <1>1 DEF StatusInv, StatusType
  <2>2. KnowsItsPast(asking[b])
    BY DEF StatusInv, ChecksInv
  <2>3. QED
    BY <2>1, <2>2 DEF KnowsItsPast
<1>4. QED
  BY <1>2, <1>3 DEF StatusInv, ChecksInv

(* A session that waits for something else says nothing of the desktop. *)
LEMMA KnowsElsewhere ==
  ASSUME NEW session, "at" \in DOMAIN session, session.at \notin {"check", "store"}
  PROVE  KnowsItsPast(session)
  BY DEF KnowsItsPast

(* A check takes what was counted, and the time, before it looks. *)
LEMMA RefreshingKnows ==
  ASSUME StatusInv, NEW greets
  PROVE  KnowsItsPast(Refreshing(greets))
<1>1. /\ desktop.counted \in Nat /\ desktop.counted <= desktop.counted
      /\ clock \in Nat /\ clock <= clock
  BY DEF StatusInv, StatusType
<1>2. KnowsItsPast([at |-> "check", greets |-> greets, now |-> clock,
                    counted |-> desktop.counted])
  BY <1>1 DEF KnowsItsPast
<1>3. KnowsItsPast([at |-> "render", greets |-> greets])
  BY DEF KnowsItsPast
<1>4. QED
  BY <1>2, <1>3 DEF Refreshing

LEMMA ConnectsStep ==
  ASSUME StatusInv, NEW a \in Askers, Connects(a)
  PROVE  StatusInv'
<1>1. /\ Asks(a, Refreshing(a = "action"))
      /\ UNCHANGED <<devices, clock, listened, desktop>>
  BY Zenon DEF Connects, loopSide
<1>2. KnowsItsPast(Refreshing(a = "action"))
  BY RefreshingKnows
<1>3. QED
  BY <1>1, <1>2, SessionMoves

(* A check finds every device change so far, and so those counted by now. *)
LEMMA ChecksDesktopStep ==
  ASSUME StatusInv, NEW a \in Askers, ChecksDesktop(a)
  PROVE  StatusInv'
<1> DEFINE session == [at |-> "store", greets |-> asking[a].greets, now |-> asking[a].now,
                       counted |-> asking[a].counted, found |-> devices, foundAt |-> clock]
<1>1. KnowsItsPast(asking[a]) /\ asking[a].at = "check"
  BY DEF StatusInv, ChecksInv, ChecksDesktop, AskerAt
<1>2. desktop.counted <= devices /\ desktop.counted \in Nat /\ devices \in Nat /\ clock \in Nat
  BY DEF StatusInv, StatusType, ChecksInv
<1>3. KnowsItsPast(session)
  BY <1>1, <1>2 DEF KnowsItsPast
<1>4. QED
  BY <1>3, SessionMoves DEF ChecksDesktop, loopSide, bounds

(* What it stores is what was counted before it looked. *)
LEMMA StoresCheckStep ==
  ASSUME StatusInv, NEW a \in Askers, StoresCheck(a)
  PROVE  StatusInv'
<1> DEFINE session == [at |-> "render", greets |-> asking[a].greets]
<1>1. KnowsItsPast(asking[a]) /\ asking[a].at = "store"
  BY DEF StatusInv, ChecksInv, StoresCheck, Stored, AskerAt
<1>2. /\ desktop' = [found |-> asking[a].found, foundAt |-> asking[a].foundAt,
                     checkedAt |-> asking[a].now, counted |-> desktop.counted,
                     checked |-> asking[a].counted]
      /\ asking' = [asking EXCEPT ![a] = session]
      /\ UNCHANGED <<devices, clock, listened>>
  BY DEF StoresCheck, Stored, Asks, loopSide, bounds
<1>3. session.at = "render" /\ "at" \in DOMAIN session
  OBVIOUS
<1> HIDE DEF session
<1>4. StatusType'
  BY <1>1, <1>2 DEF StatusInv, StatusType, KnowsItsPast
<1>5. ASSUME NEW b \in Askers  PROVE KnowsItsPast(asking[b])'
  <2>1. asking'[b] = IF b = a THEN session ELSE asking[b]
    BY <1>2 DEF StatusInv, StatusType
  <2>2. KnowsItsPast(asking[b])
    BY DEF StatusInv, ChecksInv
  <2>3. QED
    BY <1>2, <1>3, <2>1, <2>2 DEF KnowsItsPast
<1>6. QED
  BY <1>1, <1>2, <1>4, <1>5 DEF StatusInv, ChecksInv, KnowsItsPast

LEMMA RendersStep ==
  ASSUME StatusInv, NEW a \in Askers, Renders(a)
  PROVE  StatusInv'
<1>1. UNCHANGED <<devices, clock, listened, desktop>>
  BY DEF Renders, loopSide, bounds
<1> DEFINE greeted == Refreshing(FALSE)
           session == [at |-> "answer",
                       model |-> [shortcut |-> shortcut, found |-> desktop.found,
                                  nth |-> rendered + 1]]
<1>2. Asks(a, greeted) \/ Asks(a, session)
  BY DEF Renders
<1>3. KnowsItsPast(greeted)
  BY RefreshingKnows
<1>4. session.at = "answer" /\ "at" \in DOMAIN session
  OBVIOUS
<1> HIDE DEF greeted, session
<1>5. KnowsItsPast(session)
  BY <1>4, KnowsElsewhere
<1>6. QED
  BY <1>1, <1>2, <1>3, <1>5, SessionMoves

(* What ends a session, and the steps of the watch. *)
LEMMA SessionSettles ==
  ASSUME StatusInv, NEW a \in Askers, NEW session, Asks(a, session),
         UNCHANGED <<devices, clock, listened, desktop>>,
         "at" \in DOMAIN session, session.at \notin {"check", "store"}
  PROVE  StatusInv'
BY KnowsElsewhere, SessionMoves

LEMMA ModelsStep ==
  ASSUME StatusInv, NEW a \in Askers, NEW model, Models(a, model),
         UNCHANGED <<devices, clock, listened, desktop>>
  PROVE  StatusInv'
<1>1. Asks(a, Resting) \/ Asks(a, [at |-> "shows", model |-> model])
  BY DEF Models
<1>2. CASE Asks(a, Resting)
  BY <1>2, SessionSettles DEF Resting
<1>3. CASE Asks(a, [at |-> "shows", model |-> model])
  BY <1>3, SessionSettles
<1>4. QED
  BY <1>1, <1>2, <1>3

LEMMA KeepsStep ==
  ASSUME StatusInv, NEW a \in Askers, Keeps(a) \/ BreaksOff(a) \/ ShowsAnswer(a)
  PROVE  StatusInv'
<1>1. UNCHANGED <<devices, clock, listened, desktop>>
  BY DEF Keeps, BreaksOff, ShowsAnswer, loopSide, bounds
<1>2. CASE Asks(a, Resting)
  BY <1>1, <1>2, SessionSettles DEF Resting
<1>3. ASSUME NEW model, Models(a, model)  PROVE StatusInv'
  BY <1>1, <1>3, ModelsStep
<1>4. CASE Keeps(a)
  <2> DEFINE model == asking[a].model
  <2>1. kept' = model /\ Models(a, kept')
    BY <1>4 DEF Keeps
  <2>2. Models(a, model)
    BY <2>1 DEF Models
  <2> HIDE DEF model
  <2>3. QED
    BY <1>3, <2>2
<1>5. CASE BreaksOff(a)
  BY <1>2, <1>3, <1>5 DEF BreaksOff
<1>6. CASE ShowsAnswer(a)
  BY <1>2, <1>6 DEF ShowsAnswer
<1>7. QED
  BY <1>4, <1>5, <1>6

LEMMA WatchStep ==
  ASSUME StatusInv, StartsWatching \/ StopsWatching
  PROVE  StatusInv'
<1>1. UNCHANGED <<devices, clock, listened, desktop>> /\ "watcher" \in Askers
  BY DEF StartsWatching, StopsWatching, loopSide, bounds, Askers
<1>2. Asks("watcher", Resting) \/ Asks("watcher", [at |-> "ended"])
  BY DEF StartsWatching, StopsWatching
<1>3. CASE Asks("watcher", Resting)
  BY <1>1, <1>3, SessionSettles DEF Resting
<1>4. CASE Asks("watcher", [at |-> "ended"])
  BY <1>1, <1>4, SessionSettles
<1>5. QED
  BY <1>2, <1>3, <1>4

(* The clock, the devices and the count of their changes only grow. *)
LEMMA WorldStep ==
  ASSUME StatusInv, DeviceChanges \/ CountsDeviceChange \/ ClockTicks
  PROVE  StatusInv'
<1>1. UNCHANGED asking
  BY DEF DeviceChanges, CountsDeviceChange, ClockTicks, windowSide
<1>2. /\ DeviceChanges => /\ devices' = devices + 1 /\ UNCHANGED <<desktop, clock>>
                          /\ \E readable \in BOOLEAN : listened' = Append(listened, readable)
      /\ CountsDeviceChange => /\ desktop' = [desktop EXCEPT !.counted = @ + 1]
                               /\ listened # <<>> /\ listened' = Tail(listened)
                               /\ UNCHANGED <<devices, clock>>
      /\ ClockTicks => clock' = clock + 1 /\ UNCHANGED <<devices, listened, desktop>>
  BY DEF DeviceChanges, CountsDeviceChange, ClockTicks, loopSide, bounds
<1>t. /\ devices \in Nat /\ clock \in Nat /\ listened \in Seq(BOOLEAN) /\ DOMAIN asking = Askers
      /\ desktop \in [found : Nat, foundAt : Nat, checkedAt : Nat, counted : Nat, checked : Nat]
  BY DEF StatusInv, StatusType
<1>3. StatusType' /\ clock <= clock' /\ desktop.counted <= desktop'.counted
  <2>1. listened' \in Seq(BOOLEAN)
    <3>1. CASE DeviceChanges
      <4>1. PICK readable \in BOOLEAN : listened' = Append(listened, readable)
        BY <1>2, <3>1
      <4>2. listened \in Seq(BOOLEAN)
        BY <1>t
      <4>3. Append(listened, readable) \in Seq(BOOLEAN)
        BY <4>2, AppendProperties
      <4>4. QED
        BY <4>1, <4>3
    <3>2. CASE CountsDeviceChange
      <4>1. listened # <<>> /\ listened' = Tail(listened)
        BY <1>2, <3>2
      <4>2. listened \in Seq(BOOLEAN)
        BY <1>t
      <4>3. Tail(listened) \in Seq(BOOLEAN)
        BY <4>1, <4>2, HeadTailProperties
      <4>4. QED
        BY <4>1, <4>3
    <3>3. CASE ClockTicks
      BY Zenon, <1>2, <1>t, <3>3
    <3>4. QED
      BY <3>1, <3>2, <3>3
  <2>2. /\ desktop' \in [found : Nat, foundAt : Nat, checkedAt : Nat, counted : Nat, checked : Nat]
        /\ desktop.counted <= desktop'.counted
    <3>1. CASE CountsDeviceChange
      BY <1>2, <1>t, <3>1
    <3>2. QED
      BY <1>2, <1>t, <3>1
  <2>3. devices' \in Nat /\ clock' \in Nat /\ clock <= clock'
    BY <1>2, <1>t
  <2>4. QED
    BY <1>1, <1>t, <2>1, <2>2, <2>3 DEF StatusType
<1>4. desktop'.counted + Len(listened') = devices'
  <2>1. CASE DeviceChanges
    <3>1. PICK readable \in BOOLEAN : listened' = Append(listened, readable)
      BY <1>2, <2>1
    <3>2. listened \in Seq(BOOLEAN)
      BY <1>t
    <3>3. Len(Append(listened, readable)) = Len(listened) + 1 /\ Len(listened) \in Nat
      BY <3>2, AppendProperties
    <3>4. /\ desktop.counted + Len(listened) = devices
          /\ desktop' = desktop /\ devices' = devices + 1
          /\ desktop.counted \in Nat /\ devices \in Nat
      BY <1>2, <1>t, <2>1 DEF StatusInv, ChecksInv
    <3>5. QED
      BY <3>1, <3>3, <3>4
  <2>2. CASE CountsDeviceChange
    BY <1>2, <2>2 DEF StatusInv, StatusType, ChecksInv
  <2>3. CASE ClockTicks
    BY <1>2, <2>3 DEF StatusInv, StatusType, ChecksInv
  <2>4. QED
    BY <2>1, <2>2, <2>3
<1>5. /\ desktop'.found = desktop.found /\ desktop'.foundAt = desktop.foundAt
      /\ desktop'.checked = desktop.checked /\ desktop'.checkedAt = desktop.checkedAt
  BY <1>2 DEF StatusInv, StatusType
<1>6. ASSUME NEW a \in Askers  PROVE KnowsItsPast(asking[a])'
  <2>1. KnowsItsPast(asking[a])
    BY DEF StatusInv, ChecksInv
  <2>2. /\ desktop.counted \in Nat /\ desktop'.counted \in Nat
        /\ clock \in Nat /\ clock' \in Nat
    BY <1>3 DEF StatusInv, StatusType
  <2>3. QED
    BY <1>1, <1>3, <2>1, <2>2 DEF KnowsItsPast
<1>7. /\ clock \in Nat /\ clock' \in Nat /\ desktop.foundAt \in Nat
  BY <1>3 DEF StatusInv, StatusType
<1>8. QED
  BY <1>3, <1>4, <1>5, <1>6, <1>7 DEF StatusInv, ChecksInv

LEMMA StatusStep ==
  ASSUME StatusInv, TrayMoves \/ DesktopMoves
  PROVE  StatusInv'
<1>1. Dictates \/ Publishes \/ Clicks \/ Refreshes \/ TogglesDictation
        => UNCHANGED <<devices, clock, listened, desktop, asking>>
  BY DEF Dictates, Publishes, Clicks, Refreshes, TogglesDictation, loopSide, bounds,
         windowSide
<1>2. SetsReadiness \/ Signals \/ AppliesStatus \/ Rereads
        => UNCHANGED <<devices, clock, listened, desktop, asking>>
  BY DEF SetsReadiness, Signals, AppliesStatus, Rereads, loopSide, bounds, windowSide
<1>3. UNCHANGED <<devices, clock, listened, desktop, asking>> => StatusInv'
  BY DEF StatusInv, StatusType, ChecksInv, KnowsItsPast
<1>4. ASSUME NEW a \in Askers, Connects(a) \/ ClientSession(a) \/ BreaksOff(a)
      PROVE  StatusInv'
  BY <1>4, ConnectsStep, ChecksDesktopStep, StoresCheckStep, RendersStep, KeepsStep
     DEF ClientSession
<1>5. CASE SelectsPeriod
  <2>1. "action" \in Askers /\ Models("action", kept)
    BY <1>5 DEF SelectsPeriod, Askers
  <2>2. UNCHANGED <<devices, clock, listened, desktop>>
    BY <1>5 DEF SelectsPeriod, loopSide
  <2>3. QED
    BY <2>1, <2>2, ModelsStep
<1>6. QED
  BY <1>1, <1>2, <1>3, <1>4, <1>5, WatchStep, WorldStep DEF TrayMoves, DesktopMoves

(* What is not due was found since the last device change counted, and not long ago. *)
LEMMA FreshByChecks ==
  ASSUME StatusInv  PROVE ReportIsFresh
BY StatusBoundsAssumption DEF StatusInv, StatusType, ChecksInv, ReportIsFresh, IsDue

--------------------------------------------------------------------------------
(* The launches: proof *)

LEMMA LaunchStep ==
  ASSUME LaunchInv,
         StopsListening \/ \E p \in Launched : Launches(p) \/ LaunchSteps(p) \/ Closes(p)
  PROVE  LaunchInv'
<1>0. CASE StopsListening
  BY <1>0 DEF StopsListening, LaunchInv
<1> SUFFICES ASSUME NEW p \in Launched, Launches(p) \/ LaunchSteps(p) \/ Closes(p)
             PROVE  LaunchInv'
  BY <1>0
<1> USE DEF LaunchAt, LaunchGoes, LaunchInv
<1>1. CASE Launches(p) \/ Acquires(p) \/ Watches(p)
  BY <1>1, NoLaunchAssumption DEF Launches, Acquires, Watches
<1>2. CASE OpensWindow(p) \/ RaisesOpenWindow(p)
  BY <1>2 DEF OpensWindow, RaisesOpenWindow
<1>3. CASE ActivatesWindow(p) \/ Closes(p) \/ Exits(p)
  BY <1>3 DEF ActivatesWindow, Closes, Exits
<1>4. QED
  BY <1>1, <1>2, <1>3 DEF LaunchSteps

(* Who has a window, or is about to, holds the one lock. *)
LEMMA OneByLock ==
  ASSUME LaunchInv  PROVE OneWindow
<1> DEFINE W == {p \in Launched : launch[p] \in {"watches", "starts", "open"}}
<1>1. W \subseteq {windowLock}
  BY DEF LaunchInv
<1>2. IsFiniteSet({windowLock}) /\ Cardinality({windowLock}) = 1
  BY FS_Singleton
<1>3. Cardinality(W) <= Cardinality({windowLock})
  BY <1>1, <1>2, FS_Subset
<1>4. QED
  BY <1>2, <1>3 DEF OneWindow

--------------------------------------------------------------------------------
(* The settings: what is on its way *)

(* What a request sets. *)
LEMMA RequestKinds ==
  ASSUME NEW r \in Requests
  PROVE  /\ "words" \in DOMAIN r => r.words \in Words /\ "keep" \notin DOMAIN r
         /\ "keep" \in DOMAIN r => r.keep \in Retentions
         /\ "row" \in DOMAIN r => "words" \in DOMAIN r
BY DEF Requests

LEMMA MaxIs ==
  ASSUME NEW S, S \subseteq Nat, NEW i \in S, \A j \in S : j <= i
  PROVE  Max(S) = i
<1>1. \A j \in S : i >= j
  OBVIOUS
<1>2. Max(S) \in S /\ \A j \in S : Max(S) >= j
  BY Zenon, <1>1 DEF Max
<1> DEFINE m == Max(S)
<1>3. m \in S /\ m >= i
  BY <1>2
<1> HIDE DEF m
<1>4. m = i
  BY <1>3
<1>5. QED
  BY <1>4 DEF m

(* The last request that sets a field sets it, and none does after it. *)
LEMMA LastIsLast ==
  ASSUME QueueType, NEW field, HasLast(field)
  PROVE  /\ LastSetter(field) \in Setters(field) /\ LastSetter(field) \in Nat
         /\ \A j \in Setters(field) : j <= LastSetter(field)
<1>1. PICK i \in Setters(field) : \A j \in Setters(field) : j <= i
  BY DEF HasLast
<1>2. Setters(field) \subseteq Nat
  BY DEF Setters, QueueType
<1>3. LastSetter(field) = Max(Setters(field))
  BY DEF LastSetter, Setters
<1>4. LastSetter(field) = i
  BY <1>1, <1>2, <1>3, MaxIs
<1>5. QED
  BY <1>1, <1>2, <1>4

(* What is not touched stays on its way, as shown. *)
LEMMA QueueRests ==
  ASSUME QueueInv, UNCHANGED <<config, saved, pending, answer, lost>>
  PROVE  QueueInv' /\ Shown' = Shown
<1>1. QueueType' /\ ConfigInv' /\ ValidInv'
  BY DEF QueueInv, QueueType, ConfigInv, ValidInv
<1>2. HasLast("words")' /\ HasLast("keep")'
  BY DEF QueueInv, HasLast, Setters
<1>3. Shown' = Shown
  BY DEF Shown, LastSetter
<1>4. QED
  BY <1>1, <1>2, <1>3 DEF QueueInv

LEMMA KeepsRest ==
  ASSUME KeepsInv, UNCHANGED <<config, pending, lost, confirmed>>
  PROVE  KeepsInv'
BY DEF KeepsInv

(* What the screen shows is a setting, and its words are valid. *)
LEMMA ShownIsSound ==
  ASSUME QueueInv
  PROVE  /\ Shown.words \in Words /\ Valid(Shown.words)
         /\ Shown.keep \in Retentions
<1> USE DEF QueueInv
<1>1. Shown.words \in Words /\ Valid(Shown.words)
  <2>1. CASE LastSetter("words") = 0
    BY <2>1 DEF Shown, ValidInv, QueueType, Settings
  <2>2. CASE LastSetter("words") # 0
    <3> DEFINE i == LastSetter("words")
    <3>1. i \in DOMAIN pending /\ "words" \in DOMAIN pending[i]
      BY <2>2, LastIsLast DEF Setters
    <3>2. Shown.words = pending[i].words
      BY <2>2 DEF Shown
    <3> HIDE DEF i
    <3>3. pending[i] \in Requests
      BY <3>1 DEF QueueType
    <3>4. QED
      BY <3>1, <3>2, <3>3, RequestKinds DEF ValidInv
  <2>3. QED
    BY <2>1, <2>2
<1>2. Shown.keep \in Retentions
  <2>1. CASE LastSetter("keep") = 0
    BY <2>1 DEF Shown, QueueType, Settings
  <2>2. CASE LastSetter("keep") # 0
    <3> DEFINE i == LastSetter("keep")
    <3>1. i \in DOMAIN pending /\ "keep" \in DOMAIN pending[i]
      BY <2>2, LastIsLast DEF Setters
    <3>2. Shown.keep = pending[i].keep
      BY <2>2 DEF Shown
    <3> HIDE DEF i
    <3>3. pending[i] \in Requests
      BY <3>1 DEF QueueType
    <3>4. QED
      BY <3>1, <3>2, <3>3, RequestKinds
  <2>3. QED
    BY <2>1, <2>2
<1>3. QED
  BY <1>1, <1>2

(* A request that joins the others becomes the last to set what it sets. *)
LEMMA QueueSetters ==
  ASSUME QueueInv, NEW r \in Requests, Queue(r), NEW field \in {"words", "keep"}
  PROVE  /\ HasLast(field)'
         /\ Shown'[field] = IF field \in DOMAIN r THEN r[field] ELSE Shown[field]
<1> DEFINE n == Len(pending) + 1
<1>1. /\ pending \in Seq(Requests) /\ pending' = Append(pending, r) /\ saved' = saved
      /\ HasLast(field)
  BY DEF QueueInv, QueueType, Queue
<1>2. /\ n \in Nat /\ pending' \in Seq(Requests) /\ Len(pending') = n /\ pending'[n] = r
      /\ DOMAIN pending' = DOMAIN pending \cup {n}
      /\ \A i \in DOMAIN pending : pending'[i] = pending[i] /\ i \in Nat /\ i < n /\ i # 0
  BY <1>1
<1> HIDE DEF n
<1>3. Setters(field)' = IF field \in DOMAIN r THEN Setters(field) \cup {n} ELSE Setters(field)
  BY <1>1, <1>2 DEF Setters
<1>4. /\ LastSetter(field) \in Setters(field) /\ LastSetter(field) \in Nat
      /\ \A j \in Setters(field) : j <= LastSetter(field)
  BY <1>1, LastIsLast DEF QueueInv
<1>5. Setters(field)' \subseteq Nat /\ \A j \in Setters(field) : j <= n
  BY <1>2, <1>3 DEF Setters
<1>6. LastSetter(field)' = Max(Setters(field)')
  BY DEF LastSetter, Setters
<1>7. CASE field \in DOMAIN r
  <2>1. n \in Setters(field)' /\ \A j \in Setters(field)' : j <= n
    BY <1>2, <1>3, <1>5, <1>7
  <2>2. LastSetter(field)' = n
    BY <1>5, <1>6, <2>1, MaxIs
  <2>3. n # 0
    BY <1>2
  <2>4. QED
    BY <1>2, <1>7, <2>1, <2>2, <2>3 DEF HasLast, Shown
<1>8. CASE field \notin DOMAIN r
  <2>1. LastSetter(field)' = LastSetter(field)
    BY <1>3, <1>4, <1>5, <1>6, <1>8, MaxIs
  <2>2. HasLast(field)'
    BY <1>3, <1>4, <1>8 DEF HasLast
  <2>3. LastSetter(field) # 0 => pending'[LastSetter(field)] = pending[LastSetter(field)]
    BY <1>2, <1>4 DEF Setters
  <2>4. QED
    BY <1>1, <1>8, <2>1, <2>2, <2>3 DEF Shown
<1>9. QED
  BY <1>7, <1>8

LEMMA QueueStep ==
  ASSUME QueueInv, NEW r \in Requests, Queue(r), lost' = lost,
         "words" \in DOMAIN r => Valid(r.words)
  PROVE  QueueInv'
<1>1. /\ pending \in Seq(Requests) /\ pending' = Append(pending, r)
      /\ UNCHANGED <<config, saved, answer>>
  BY DEF QueueInv, QueueType, Queue
<1>2. /\ pending' \in Seq(Requests) /\ pending' # <<>> /\ pending'[Len(pending) + 1] = r
      /\ DOMAIN pending' = DOMAIN pending \cup {Len(pending) + 1}
      /\ \A i \in DOMAIN pending : pending'[i] = pending[i]
      /\ pending # <<>> => 1 \in DOMAIN pending
  BY <1>1
<1>3. QueueType'
  BY <1>1, <1>2 DEF QueueInv, QueueType
<1>4. ConfigInv'
  BY <1>1, <1>2 DEF QueueInv, QueueType, ConfigInv
<1>5. ValidInv'
  BY <1>1, <1>2 DEF QueueInv, ValidInv, Valid
<1>6. HasLast("words")' /\ HasLast("keep")'
  BY QueueSetters
<1>7. QED
  BY <1>3, <1>4, <1>5, <1>6 DEF QueueInv

--------------------------------------------------------------------------------
(* The settings: the words *)

(* A word's place in a valid list is its only one, *)
LEMMA OnePlace ==
  ASSUME NEW words, Valid(words), NEW i \in DOMAIN words
  PROVE  Place(words, words[i].spelling) = {i}
BY DEF Place, Valid

(* so an edit by index is the edit meant, when the index is the word's. *)
LEMMA MeansWhatItSays ==
  ASSUME NEW kind, NEW index, NEW of, NEW word, NEW words, Valid(words),
         kind \in {"update", "delete"} =>
           index \in DOMAIN words /\ words[index].spelling = of
  PROVE  LET edit == [kind |-> kind, index |-> index, of |-> of, word |-> word]
         IN Mean(edit, words) = Apply(edit, words)
<1> DEFINE edit == [kind |-> kind, index |-> index, of |-> of, word |-> word]
<1>1. CASE edit.kind \in {"update", "delete"}
  <2> DEFINE place == Place(words, edit.of)
             k == IF place = {} THEN 0 ELSE CHOOSE i \in place : TRUE
             here == [edit EXCEPT !.index = k]
  <2>1. place = {edit.index}
    BY <1>1, OnePlace
  <2>2. k = edit.index
    BY <2>1
  <2>3. here = edit
    BY <2>2
  <2>4. Mean(edit, words) = Apply(here, words)
    BY <1>1 DEF Mean
  <2>5. QED
    BY <2>3, <2>4
<1>2. CASE edit.kind \notin {"update", "delete"}
  BY <1>2 DEF Mean
<1>3. QED
  BY <1>1, <1>2

(* An edit makes a list of words; all but a deletion leave the words at their places, and
   an update puts its word where it says. *)
LEMMA ApplyKeeps ==
  ASSUME NEW words \in Words, NEW edit, edit.kind \in {"add", "fix", "update"},
         edit.word \in Word,
         edit.kind = "update" => edit.index \in DOMAIN words
  PROVE  /\ Apply(edit, words) \in Words
         /\ DOMAIN words \subseteq DOMAIN Apply(edit, words)
         /\ edit.kind = "update" => Apply(edit, words)[edit.index] = edit.word
         /\ edit.kind # "update" => \A i \in DOMAIN words :
              Apply(edit, words)[i].spelling = words[i].spelling
<1>1. CASE edit.kind = "add"
  BY <1>1 DEF Apply, Words
<1>2. CASE edit.kind = "fix"
  <2> DEFINE s == edit.word.spelling
             new == [Entry(s) EXCEPT !.aliases = 1]
  <2>1. Apply(edit, words) = FixWord(words, s)
    BY <1>2 DEF Apply
  <2>2. s \in Spellings
    BY DEF Word
  <2>3. new \in Word
    BY <2>2 DEF Word, Entry
  <2> HIDE DEF s
  <2>4. CASE Place(words, s) = {}
    <3> HIDE DEF new
    <3>1. Apply(edit, words) = Append(words, new)
      BY <2>1, <2>4 DEF FixWord, new
    <3>2. QED
      BY <1>2, <2>3, <3>1 DEF Words
  <2>5. CASE Place(words, s) # {}
    <3> DEFINE fixed == [i \in DOMAIN words |->
                           IF i \in Place(words, s) THEN [words[i] EXCEPT !.aliases = 1]
                           ELSE words[i]]
    <3>1. Apply(edit, words) = fixed
      BY <2>1, <2>5 DEF FixWord
    <3>2. ASSUME NEW i \in DOMAIN words
          PROVE  fixed[i] \in Word /\ fixed[i].spelling = words[i].spelling
      <4>1. words[i] \in Word
        BY DEF Words
      <4>2. QED
        BY <4>1 DEF Word
    <3>3. DOMAIN fixed = DOMAIN words /\ DOMAIN words = 1..Len(words) /\ Len(words) \in Nat
      BY DEF Words
    <3>4. fixed \in [1..Len(words) -> Word]
      BY <3>2, <3>3
    <3>5. fixed \in Seq(Word)
      BY <3>3, <3>4
    <3> HIDE DEF fixed
    <3>6. QED
      BY <1>2, <3>1, <3>2, <3>3, <3>5 DEF Words
  <2>6. QED
    BY <2>4, <2>5
<1>3. CASE edit.kind = "update"
  BY <1>3 DEF Apply, Words
<1>4. QED
  BY <1>1, <1>2, <1>3

LEMMA ApplyDeletes ==
  ASSUME NEW words \in Words, NEW edit, edit.kind = "delete", edit.index \in DOMAIN words
  PROVE  Apply(edit, words) \in Words
<1> DEFINE n == Len(words)
           i == edit.index
<1>1. n \in Nat /\ i \in 1..n /\ DOMAIN words = 1..n
  BY DEF Words
<1>2. Apply(edit, words) = SubSeq(words, 1, i - 1) \o SubSeq(words, i + 1, n)
  BY <1>1 DEF Apply, RemoveAt
<1> HIDE DEF n, i
<1>3. SubSeq(words, 1, i - 1) \in Words /\ SubSeq(words, i + 1, n) \in Words
  <2>1. \A k \in 1..n : words[k] \in Word
    BY <1>1 DEF Words
  <2>2. SubSeq(words, 1, i - 1) \in Seq(Word)
    BY <1>1, <2>1, SubSeqProperties
  <2>3. SubSeq(words, i + 1, n) \in Seq(Word)
    BY <1>1, <2>1, SubSeqProperties
  <2>4. QED
    BY <2>2, <2>3 DEF Words
<1>4. QED
  BY <1>2, <1>3, ConcatProperties DEF Words

--------------------------------------------------------------------------------
(* The settings: what is shown and meant *)

(* With nothing on its way the screen shows what is saved. *)
LEMMA NothingOnItsWay ==
  ASSUME QueueInv, pending = <<>>, NEW field \in {"words", "keep"}
  PROVE  Shown[field] = saved[field]
<1>1. LastSetter(field) = 0
  BY LastIsLast DEF QueueInv, Setters
<1>2. QED
  BY <1>1 DEF Shown

(* A valid edit of the words shown, by index, is the one meant; *)
LEMMA SaveWordsStep ==
  ASSUME QueueInv, WordsInv, KeepsInv, UNCHANGED <<told, lost, confirmed>>,
         NEW kind \in {"add", "fix", "update", "delete"}, NEW index \in Nat, NEW of, NEW word,
         SaveWords([kind |-> kind, index |-> index, of |-> of, word |-> word]),
         Apply([kind |-> kind, index |-> index, of |-> of, word |-> word], Shown.words) \in Words,
         ~told /\ ~lost /\ kind \in {"update", "delete"} =>
           index \in DOMAIN Shown.words /\ Shown.words[index].spelling = of
  PROVE  /\ QueueInv' /\ KeepsInv'
         /\ ~lost' => /\ pending' = <<>> => meant' = saved'.words
                      /\ ~told' => meant' = Shown'.words
         /\ pending' # pending =>
              Shown'.words = Apply([kind |-> kind, index |-> index, of |-> of, word |-> word],
                                   Shown.words)
<1> DEFINE edit == [kind |-> kind, index |-> index, of |-> of, word |-> word]
           words == Apply(edit, Shown.words)
           r == IF kind = "update" THEN [words |-> words, row |-> index] ELSE [words |-> words]
<1>1. CASE ~Valid(words)
  <2>1. UNCHANGED <<config, saved, pending, answer, meant>>
    BY <1>1 DEF SaveWords
  <2>2. QueueInv' /\ KeepsInv' /\ Shown' = Shown
    BY <2>1, QueueRests, KeepsRest
  <2>3. QED
    BY <2>1, <2>2 DEF WordsInv
<1>2. CASE Valid(words)
  <2>1. Queue(r) /\ meant' = Mean(edit, meant)
    BY <1>2 DEF SaveWords
  <2>2. r \in Requests /\ "words" \in DOMAIN r /\ r.words = words /\ "keep" \notin DOMAIN r
    BY DEF Requests
  <2> HIDE DEF r
  <2>3. QueueInv' /\ Shown'.words = words
    BY <1>2, <2>1, <2>2, QueueStep, QueueSetters
  <2>4. KeepsInv'
    BY <2>1, <2>2 DEF KeepsInv, QueueInv, QueueType, Queue, Confirmed
  <2>5. pending' # <<>> /\ pending' # pending
    BY <2>1 DEF Queue, QueueInv, QueueType
  <2>6. ASSUME ~told, ~lost  PROVE meant' = words
    <3>1. meant = Shown.words
      BY <2>6 DEF WordsInv
    <3>2. Valid(Shown.words)
      BY ShownIsSound
    <3>3. Mean(edit, Shown.words) = words
      BY <2>6, <3>2, MeansWhatItSays
    <3>4. QED
      BY <2>1, <3>1, <3>3
  <2>7. QED
    BY <2>3, <2>4, <2>5, <2>6
<1>3. QED
  BY <1>1, <1>2

(* the editor stays on its word while others are added or fixed. *)
LEMMA AddsWordStep ==
  ASSUME FormInv, NEW spelling \in Spellings, NEW kind \in {"add", "fix"},
         AddsWord(spelling, kind)
  PROVE  FormInv'
<1> USE DEF FormInv
<1> DEFINE word == Entry(spelling)
           edit == [kind |-> kind, index |-> 0, of |-> "none", word |-> word]
<1>1. word \in Word /\ Shown.words \in Words
  BY ShownIsSound DEF Entry, Word
<1> HIDE DEF word
<1>2. /\ Apply(edit, Shown.words) \in Words
      /\ DOMAIN Shown.words \subseteq DOMAIN Apply(edit, Shown.words)
      /\ \A i \in DOMAIN Shown.words :
           Apply(edit, Shown.words)[i].spelling = Shown.words[i].spelling
  BY <1>1, ApplyKeeps
<1>3. /\ SaveWords(edit)
      /\ UNCHANGED <<editor, shorter, setup, checks, told, lost, confirmed, latest>>
  BY DEF AddsWord, word
<1>4. /\ QueueInv' /\ KeepsInv'
      /\ ~lost' => /\ pending' = <<>> => meant' = saved'.words
                   /\ ~told' => meant' = Shown'.words
      /\ pending' # pending => Shown'.words = Apply(edit, Shown.words)
  BY <1>2, <1>3, SaveWordsStep
<1> HIDE DEF edit
<1>5. pending' = pending => Shown' = Shown
  BY <1>3 DEF SaveWords, Queue, Shown, LastSetter
<1>6. ~lost' /\ ~told' => EditorKeepsItsWord'
  <2>1. ~lost' /\ ~told' => EditorKeepsItsWord
    BY <1>3 DEF WordsInv
  <2>2. \A i \in DOMAIN Shown.words :
          i \in DOMAIN Shown'.words /\ Shown'.words[i].spelling = Shown.words[i].spelling
    BY <1>2, <1>4, <1>5
  <2>3. QED
    BY <1>3, <2>1, <2>2 DEF EditorKeepsItsWord
<1>7. ScreenType' /\ SetupInv'
  BY <1>3 DEF ScreenType, SetupInv
<1>8. QED
  BY <1>4, <1>6, <1>7 DEF WordsInv

LEMMA CommitsEditorStep ==
  ASSUME FormInv, NEW spelling \in Spellings, CommitsEditor(spelling)
  PROVE  FormInv'
<1> USE DEF FormInv
<1> DEFINE word == [editor.was EXCEPT !.spelling = spelling]
           edit == [kind |-> "update", index |-> editor.index, of |-> editor.of, word |-> word]
<1>1. /\ editor \in [index : Nat \ {0}, was : Word, of : Spellings]
      /\ editor # NoEditor
  BY DEF CommitsEditor, ScreenType
<1>2. word \in Word /\ word.spelling = spelling /\ Shown.words \in Words
  BY <1>1, ShownIsSound DEF Word
<1> HIDE DEF word
<1>3. /\ SaveWords(edit)
      /\ editor' = IF pending' # pending THEN [editor EXCEPT !.of = spelling] ELSE editor
      /\ UNCHANGED <<shorter, setup, checks, told, lost, confirmed, latest>>
  BY DEF CommitsEditor, word
<1>4. Apply(edit, Shown.words) =
        [i \in DOMAIN Shown.words |-> IF i = editor.index THEN word ELSE Shown.words[i]]
  BY DEF Apply
<1>5. Apply(edit, Shown.words) \in Words
  BY <1>2, <1>4 DEF Words
<1>6. ~told /\ ~lost =>
        editor.index \in DOMAIN Shown.words /\ Shown.words[editor.index].spelling = editor.of
  BY <1>1 DEF WordsInv, EditorKeepsItsWord
<1>7. /\ QueueInv' /\ KeepsInv'
      /\ ~lost' => /\ pending' = <<>> => meant' = saved'.words
                   /\ ~told' => meant' = Shown'.words
      /\ pending' # pending => Shown'.words = Apply(edit, Shown.words)
  BY <1>1, <1>3, <1>5, <1>6, SaveWordsStep
<1> HIDE DEF edit
<1>8. pending' = pending => Shown' = Shown
  BY <1>3 DEF SaveWords, Queue, Shown, LastSetter
<1>9. ~lost' /\ ~told' => EditorKeepsItsWord'
  <2>1. CASE pending' = pending
    BY <1>3, <1>6, <1>8, <2>1 DEF EditorKeepsItsWord
  <2>2. CASE pending' # pending
    <3>1. editor'.index = editor.index /\ editor'.of = spelling
      BY <1>1, <1>3, <2>2
    <3>2. ~lost /\ ~told => /\ editor.index \in DOMAIN Shown'.words
                            /\ Shown'.words[editor.index].spelling = spelling
      BY <1>2, <1>4, <1>6, <1>7, <2>2
    <3>3. QED
      BY <1>3, <3>1, <3>2 DEF EditorKeepsItsWord
  <2>3. QED
    BY <2>1, <2>2
<1>10. ScreenType' /\ SetupInv'
  BY <1>1, <1>3 DEF ScreenType, SetupInv
<1>11. QED
  BY <1>7, <1>9, <1>10 DEF WordsInv

LEMMA DeletesWordStep ==
  ASSUME FormInv, NEW i \in 1..3, DeletesWord(i)
  PROVE  FormInv'
<1> USE DEF FormInv
<1> DEFINE of == Shown.words[i].spelling
           word == Entry("none")
           edit == [kind |-> "delete", index |-> i, of |-> of, word |-> word]
<1>1. i \in DOMAIN Shown.words /\ i \in Nat /\ Shown.words \in Words
  BY ShownIsSound DEF DeletesWord
<1>2. /\ SaveWords(edit) /\ editor' = NoEditor
      /\ UNCHANGED <<shorter, setup, checks, told, lost, confirmed, latest>>
  BY DEF DeletesWord, Reset
<1>3. Apply(edit, Shown.words) \in Words
  BY <1>1, ApplyDeletes
<1>4. /\ QueueInv' /\ KeepsInv'
      /\ ~lost' => /\ pending' = <<>> => meant' = saved'.words
                   /\ ~told' => meant' = Shown'.words
  BY <1>1, <1>2, <1>3, SaveWordsStep
<1> HIDE DEF edit
<1>5. ScreenType' /\ SetupInv' /\ EditorKeepsItsWord'
  BY <1>2 DEF ScreenType, SetupInv, EditorKeepsItsWord
<1>6. QED
  BY <1>4, <1>5 DEF WordsInv

(* A row is opened on the word it shows, or closed. *)
LEMMA EditorStep ==
  ASSUME FormInv, ClosesEditor \/ \E i \in 1..3 : OpensEditor(i)
  PROVE  FormInv'
<1> USE DEF FormInv
<1>1. UNCHANGED <<config, saved, pending, answer, shorter, setup, checks, meant, lost,
                  confirmed, latest>>
  BY DEF ClosesEditor, OpensEditor
<1>2. QueueInv' /\ KeepsInv' /\ SetupInv' /\ Shown' = Shown
  BY <1>1, QueueRests, KeepsRest DEF SetupInv
<1>3. CASE ClosesEditor
  <2>1. editor' = NoEditor /\ told' = (told /\ pending # <<>>)
    BY <1>3 DEF ClosesEditor
  <2>2. ScreenType'
    BY <1>1, <2>1 DEF ScreenType
  <2>3. pending = <<>> => Shown.words = saved.words
    BY NothingOnItsWay
  <2>4. WordsInv'
    BY <1>1, <1>2, <2>1, <2>3 DEF WordsInv, EditorKeepsItsWord
  <2>5. QED
    BY <1>2, <2>2, <2>4
<1>4. ASSUME NEW i \in 1..3, OpensEditor(i)  PROVE FormInv'
  <2>1. /\ i \in DOMAIN Shown.words /\ UNCHANGED told
        /\ editor' = [index |-> i, was |-> Shown.words[i], of |-> Shown.words[i].spelling]
    BY <1>4 DEF OpensEditor
  <2>2. Shown.words[i] \in Word
    BY <2>1, ShownIsSound DEF Words
  <2>3. ScreenType'
    BY <1>1, <2>1, <2>2 DEF ScreenType, Word
  <2>4. WordsInv'
    BY <1>1, <1>2, <2>1 DEF WordsInv, EditorKeepsItsWord
  <2>5. QED
    BY <1>2, <2>3, <2>4
<1>5. QED
  BY <1>3, <1>4

--------------------------------------------------------------------------------
(* The settings: Keep transcripts *)

(* With no lost answer the daemon's keep is that of its last answer, unless the first
   request, which sets it, was carried out. *)
LEMMA KeepIsKnown ==
  ASSUME QueueInv, ~lost, LastSetter("keep") = 0
  PROVE  Shown.keep = config.keep
<1>1. Shown.keep = saved.keep
  BY DEF Shown
<1>2. answer = "saved" => 1 \in DOMAIN pending
  BY DEF QueueInv, QueueType
<1>3. LastSetter("keep") \in Nat /\ \A i \in Setters("keep") : i <= 0
  BY LastIsLast DEF QueueInv
<1>4. answer = "saved" => "keep" \notin DOMAIN pending[1]
  BY <1>2, <1>3 DEF Setters
<1>5. QED
  BY <1>1, <1>4 DEF QueueInv, QueueType, ConfigInv, Change, Settings

(* A keep joins the others, no shorter than the screen's, or confirmed. *)
LEMMA QueueKeep ==
  ASSUME QueueInv, WordsInv, KeepsInv, confirmed \subseteq Retentions, NEW keep \in Retentions, Queue([keep |-> keep]),
         UNCHANGED <<lost, meant, told, editor>>, confirmed \subseteq confirmed',
         Confirmed(keep, confirmed') \/ Shown.keep <= keep
  PROVE  QueueInv' /\ WordsInv' /\ KeepsInv'
<1> DEFINE r == [keep |-> keep]
           n == Len(pending) + 1
<1>1. r \in Requests /\ "words" \notin DOMAIN r /\ "keep" \in DOMAIN r /\ r.keep = keep
  BY DEF Requests
<1> HIDE DEF r
<1>2. Queue(r)
  BY DEF r
<1>3. QueueInv'
  BY <1>1, <1>2, QueueStep
<1>4. Shown'.words = Shown.words
  BY <1>1, <1>2, QueueSetters
<1>5. /\ pending \in Seq(Requests) /\ pending' = Append(pending, r)
      /\ UNCHANGED <<config, saved, answer>>
  BY <1>2 DEF QueueInv, QueueType, Queue
<1>6. /\ n \in Nat /\ pending' # <<>> /\ pending'[n] = r
      /\ DOMAIN pending' = 1..n /\ DOMAIN pending = 1..(n - 1)
      /\ \A i \in DOMAIN pending : pending'[i] = pending[i]
  BY <1>1, <1>5
<1> HIDE DEF n
<1>7. WordsInv'
  BY <1>4, <1>6 DEF WordsInv, EditorKeepsItsWord
<1>8. ASSUME ~lost, NEW i \in DOMAIN pending', "keep" \in DOMAIN pending'[i]
      PROVE  \/ Confirmed(pending'[i].keep, confirmed')
             \/ /\ config'.keep <= pending'[i].keep
                /\ \A h \in 1..i : "keep" \in DOMAIN pending'[h] =>
                     pending'[h].keep <= pending'[i].keep
  <2>1. CASE i \in DOMAIN pending
    <3>1. pending'[i] = pending[i] /\ \A h \in 1..i : pending'[h] = pending[h]
      BY <1>6, <2>1
    <3>2. Confirmed(pending[i].keep, confirmed) => Confirmed(pending[i].keep, confirmed')
      BY DEF Confirmed
    <3>3. QED
      BY <1>5, <1>8, <2>1, <3>1, <3>2 DEF KeepsInv
  <2>2. CASE i \notin DOMAIN pending /\ Confirmed(keep, confirmed')
    BY <1>1, <1>6, <1>8, <2>2
  <2>3. CASE i \notin DOMAIN pending /\ Shown.keep <= keep
    <3>1. i = n /\ pending'[i].keep = keep
      BY <1>1, <1>6, <1>8, <2>3
    <3> DEFINE last == LastSetter("keep")
    <3>2. CASE last = 0
      <4>1. config.keep <= keep
        BY <1>8, <2>3, <3>2, KeepIsKnown
      <4>2. \A h \in DOMAIN pending : "keep" \notin DOMAIN pending[h]
        BY <3>2, LastIsLast DEF QueueInv, QueueType, Setters
      <4>3. \A h \in 1..i : "keep" \in DOMAIN pending'[h] => h = i
        BY <1>6, <3>1, <4>2
      <4>4. QED
        BY <1>5, <3>1, <4>1, <4>3 DEF Retentions
    <3>3. CASE last # 0
      <4>1. /\ last \in DOMAIN pending /\ "keep" \in DOMAIN pending[last]
            /\ \A h \in DOMAIN pending : "keep" \in DOMAIN pending[h] => h <= last
            /\ Shown.keep = pending[last].keep
        BY <3>3, LastIsLast DEF QueueInv, QueueType, Setters, Shown
      <4> HIDE DEF last
      <4>2. pending[last].keep \in Retentions /\ config.keep \in Retentions
        BY <4>1, RequestKinds DEF QueueInv, QueueType, Settings
      <4>3. CASE Confirmed(pending[last].keep, confirmed)
        <5>1. PICK choice \in confirmed : choice <= pending[last].keep
          BY <4>3 DEF Confirmed
        <5>2. choice <= keep /\ choice \in confirmed'
          BY <2>3, <4>1, <4>2, <5>1 DEF Retentions
        <5>3. QED
          BY <3>1, <5>2 DEF Confirmed
      <4>4. CASE ~Confirmed(pending[last].keep, confirmed)
        <5>1. /\ config.keep <= pending[last].keep
              /\ \A h \in 1..last : "keep" \in DOMAIN pending[h] =>
                   pending[h].keep <= pending[last].keep
          BY <1>8, <4>1, <4>4 DEF KeepsInv
        <5>2. \A h \in DOMAIN pending : "keep" \in DOMAIN pending[h] =>
                pending[h].keep \in Retentions /\ h \in 1..last
          BY <1>6, <4>1, RequestKinds DEF QueueInv, QueueType
        <5>3. \A h \in DOMAIN pending : "keep" \in DOMAIN pending[h] => pending[h].keep <= keep
          BY <2>3, <4>1, <4>2, <5>1, <5>2 DEF Retentions
        <5>4. config.keep <= keep
          BY <2>3, <4>1, <4>2, <5>1 DEF Retentions
        <5>5. \A h \in 1..i : h = i \/ (h \in DOMAIN pending /\ pending'[h] = pending[h])
          BY <1>6, <3>1
        <5>6. QED
          BY <1>5, <3>1, <5>3, <5>4, <5>5 DEF Retentions
      <4>5. QED
        BY <4>3, <4>4
    <3>4. QED
      BY <3>2, <3>3
  <2>4. QED
    BY <2>1, <2>2, <2>3
<1>9. KeepsInv'
  BY <1>8 DEF KeepsInv, Confirmed
<1>10. QED
  BY <1>3, <1>7, <1>9

(* Choosing a shorter keep asks first; another joins those on their way. *)
LEMMA ChoosesStep ==
  ASSUME FormInv, NEW choice \in Retentions, Chooses(choice)
  PROVE  FormInv'
<1> USE DEF FormInv
<1>1. /\ UNCHANGED <<editor, setup, checks, meant, told, lost, confirmed, latest>>
      /\ shorter' \in {choice, Unset}
  BY DEF Chooses
<1>2. ScreenType' /\ SetupInv'
  BY <1>1 DEF ScreenType, SetupInv
<1>3. CASE UNCHANGED <<config, saved, pending, answer>>
  BY <1>1, <1>2, <1>3, QueueRests, KeepsRest DEF WordsInv, EditorKeepsItsWord
<1>4. CASE Queue([keep |-> choice]) /\ ~DeletesTranscripts(choice, Shown.keep)
  <2>1. Shown.keep <= choice
    BY <1>4, ShownIsSound DEF DeletesTranscripts, Retentions
  <2>2. confirmed \subseteq Retentions /\ confirmed \subseteq confirmed'
    BY <1>1 DEF ScreenType
  <2>3. QED
    BY <1>1, <1>2, <1>4, <2>1, <2>2, QueueKeep
<1>5. QED
  BY <1>3, <1>4 DEF Chooses

LEMMA SettlesStep ==
  ASSUME FormInv, NEW yes \in BOOLEAN, Settles(yes)
  PROVE  FormInv'
<1> USE DEF FormInv
<1>1. /\ UNCHANGED <<editor, setup, checks, meant, told, lost, latest>>
      /\ shorter' = Unset /\ shorter \in Retentions
      /\ confirmed \subseteq Retentions
  BY DEF Settles, ScreenType
<1>2. SetupInv'
  BY <1>1 DEF SetupInv
<1>3. CASE UNCHANGED <<config, saved, pending, answer, confirmed>>
  BY <1>1, <1>2, <1>3, QueueRests, KeepsRest DEF ScreenType, WordsInv, EditorKeepsItsWord
<1>4. CASE Queue([keep |-> shorter]) /\ confirmed' = confirmed \cup {shorter}
  <2>1. Confirmed(shorter, confirmed')
    BY <1>1, <1>4 DEF Confirmed, Retentions
  <2>2. confirmed \subseteq confirmed' /\ ScreenType'
    BY <1>1, <1>4 DEF ScreenType
  <2>3. QED
    BY <1>1, <1>2, <1>4, <2>1, <2>2, QueueKeep
<1>5. QED
  BY <1>3, <1>4 DEF Settles

--------------------------------------------------------------------------------
(* The settings: the key *)

(* A later check, Replace and Cancel make every check on its way an earlier one. *)
LEMMA SetupStep ==
  ASSUME FormInv,
         ChecksKey \/ (\E key \in Keys : TypesKey(key)) \/ (\E yes \in BOOLEAN : Replaces(yes))
  PROVE  FormInv'
<1> USE DEF FormInv
<1>1. UNCHANGED <<config, saved, pending, answer, editor, shorter, meant, told, lost, confirmed>>
  BY DEF ChecksKey, TypesKey, Replaces
<1>2. QueueInv' /\ ScreenType' /\ WordsInv' /\ KeepsInv'
  BY <1>1, QueueRests, KeepsRest DEF ScreenType, WordsInv, EditorKeepsItsWord
<1>3. CASE ChecksKey
  <2> DEFINE pasted == IF BoxShows THEN setup.box ELSE NoKey
             check == [nth |-> setup.nth + 1, pasted |-> pasted]
  <2>1. CASE BoxShows /\ setup.box = NoKey
    BY <1>2, <1>3, <2>1 DEF ChecksKey, SetupInv
  <2>2. CASE ~(BoxShows /\ setup.box = NoKey)
    <3>1. /\ setup' = [setup EXCEPT !.key = "checking", !.nth = @ + 1]
          /\ checks' = checks \cup {check} /\ latest' = pasted
      BY <1>3, <2>2 DEF ChecksKey
    <3>2. check.nth = setup.nth + 1 /\ check.pasted = pasted
      OBVIOUS
    <3>3. pasted \in Keys \cup {NoKey}
      BY DEF SetupInv
    <3> HIDE DEF check, pasted
    <3>4. setup.nth \in Nat /\ setup.box \in Keys \cup {NoKey} /\ setup.replacing \in BOOLEAN
      BY DEF SetupInv
    <3>5. setup' = [box |-> setup.box, replacing |-> setup.replacing, nth |-> setup.nth + 1,
                    key |-> "checking"]
      BY <3>1 DEF SetupInv
    <3>6. SetupInv'
      BY <3>1, <3>2, <3>3, <3>4, <3>5 DEF SetupInv
    <3>7. QED
      BY <1>2, <3>6
  <2>3. QED
    BY <2>1, <2>2
<1>4. ASSUME NEW key \in Keys, TypesKey(key)  PROVE FormInv'
  BY <1>2, <1>4 DEF TypesKey, SetupInv
<1>5. ASSUME NEW yes \in BOOLEAN, Replaces(yes)  PROVE FormInv'
  <2>1. /\ setup' = [setup EXCEPT !.replacing = yes, !.key = "idle", !.box = NoKey, !.nth = @ + 1]
        /\ checks' = checks
    BY <1>5 DEF Replaces, Replacing
  <2>2. setup.nth \in Nat
    BY DEF SetupInv
  <2>3. setup' = [box |-> NoKey, replacing |-> yes, nth |-> setup.nth + 1, key |-> "idle"]
    BY <2>1 DEF SetupInv
  <2>4. SetupInv'
    BY <2>1, <2>2, <2>3 DEF SetupInv
  <2>5. QED
    BY <1>2, <2>4
<1>6. QED
  BY <1>3, <1>4, <1>5

(* A key joins the others; it sets neither words nor keep. *)
LEMMA QueueOther ==
  ASSUME QueueInv, WordsInv, KeepsInv, NEW r \in Requests, Queue(r),
         "words" \notin DOMAIN r, "keep" \notin DOMAIN r,
         UNCHANGED <<lost, meant, told, editor, confirmed>>
  PROVE  QueueInv' /\ WordsInv' /\ KeepsInv'
<1>1. QueueInv' /\ Shown'.words = Shown.words
  BY QueueStep, QueueSetters
<1>2. pending' # <<>>
  BY DEF QueueInv, QueueType, Queue
<1>3. WordsInv'
  BY <1>1, <1>2 DEF WordsInv, EditorKeepsItsWord
<1>4. KeepsInv'
  BY DEF KeepsInv, QueueInv, QueueType, Queue, Confirmed
<1>5. QED
  BY <1>1, <1>3, <1>4

LEMMA KeyCheckedStep ==
  ASSUME FormInv, NEW check \in checks, NEW works \in BOOLEAN, KeyChecked(check, works)
  PROVE  FormInv'
<1> USE DEF FormInv
<1> DEFINE r == [key |-> check.pasted, setup |-> TRUE]
<1>1. /\ UNCHANGED <<editor, shorter, meant, told, lost, confirmed, latest>>
      /\ checks' = checks \ {check}
  BY DEF KeyChecked
<1>2. SetupInv' /\ ScreenType'
  BY <1>1 DEF KeyChecked, SetupInv, ScreenType
<1>3. CASE UNCHANGED <<config, saved, pending, answer>>
  BY <1>1, <1>2, <1>3, QueueRests, KeepsRest DEF WordsInv, EditorKeepsItsWord
<1>4. CASE Queue(r)
  <2>1. r \in Requests
    BY DEF Requests, SetupInv
  <2>2. "words" \notin DOMAIN r /\ "keep" \notin DOMAIN r
    OBVIOUS
  <2> HIDE DEF r
  <2>3. QED
    BY <1>1, <1>2, <1>4, <2>1, <2>2, QueueOther
<1>5. QED
  BY <1>3, <1>4 DEF KeyChecked

--------------------------------------------------------------------------------
(* The settings: the daemon and its answers *)

(* A request makes settings of settings, and sets what it sets. *)
LEMMA ChangeMakes ==
  ASSUME NEW s \in Settings, NEW r \in Requests
  PROVE  /\ Change(s, r) \in Settings
         /\ \A field \in {"words", "keep"} :
              Change(s, r)[field] = IF field \in DOMAIN r THEN r[field] ELSE s[field]
<1>1. DOMAIN s = {"words", "keep", "key"}
  BY DEF Settings
<1>2. /\ "words" \in DOMAIN r => r.words \in Words
      /\ "keep" \in DOMAIN r => r.keep \in Retentions
      /\ "key" \in DOMAIN r => r.key \in Keys \cup {NoKey}
  BY DEF Requests
<1>3. Change(s, r) = [words |-> IF "words" \in DOMAIN r THEN r.words ELSE s.words,
                      keep |-> IF "keep" \in DOMAIN r THEN r.keep ELSE s.keep,
                      key |-> IF "key" \in DOMAIN r THEN r.key ELSE s.key]
  BY <1>1 DEF Change
<1>4. Change(s, r) \in Settings
  BY <1>2, <1>3 DEF Settings
<1>5. QED
  BY <1>3, <1>4

(* The request in flight is carried out, or refused. *)
LEMMA DaemonStep ==
  ASSUME FormInv, DaemonSaves \/ DaemonRefuses
  PROVE  FormInv'
<1> USE DEF FormInv
<1>1. /\ UNCHANGED <<saved, pending, editor, shorter, setup, checks, meant, told, confirmed, latest>>
      /\ pending # <<>> /\ answer = "none" /\ answer' \in {"saved", "refused"}
  BY DEF DaemonSaves, DaemonRefuses
<1>b. lost' \in BOOLEAN /\ (lost => lost')
  <2>1. lost' = lost \/ lost' = TRUE
    BY Zenon DEF DaemonSaves, DaemonRefuses
  <2>2. QED
    BY <2>1 DEF QueueInv, QueueType
<1>2. SetupInv' /\ ScreenType' /\ Shown' = Shown /\ HasLast("words")' /\ HasLast("keep")'
  <2>1. SetupInv'
    BY <1>1 DEF SetupInv
  <2>2. ScreenType'
    BY <1>1 DEF ScreenType
  <2>3. Shown' = Shown
    BY <1>1 DEF Shown, LastSetter
  <2>4. HasLast("words")' /\ HasLast("keep")'
    BY <1>1 DEF QueueInv, HasLast, Setters
  <2>5. QED
    BY <2>1, <2>2, <2>3, <2>4
<1>3. WordsInv'
  BY <1>1, <1>b, <1>2 DEF WordsInv, EditorKeepsItsWord
<1>4. CASE DaemonRefuses
  <2>1. config' = config /\ lost' = lost /\ answer' = "refused"
    BY <1>4 DEF DaemonRefuses
  <2>2. QueueInv' /\ KeepsInv'
    BY <1>1, <1>b, <1>2, <2>1 DEF QueueInv, QueueType, ConfigInv, ValidInv, KeepsInv
  <2>3. QED
    BY <1>2, <1>3, <2>2
<1>5. CASE DaemonSaves
  <2> DEFINE r == pending[1]
  <2>1. r \in Requests /\ 1 \in DOMAIN pending /\ config \in Settings
    BY <1>1 DEF QueueInv, QueueType
  <2>2. config' = Change(config, r) /\ (~lost' => ~lost) /\ (answer' = "refused" => lost')
    BY <1>1, <1>b, <1>5 DEF DaemonSaves
  <2>3. /\ config' \in Settings
        /\ config'.words = IF "words" \in DOMAIN r THEN r.words ELSE config.words
        /\ config'.keep = IF "keep" \in DOMAIN r THEN r.keep ELSE config.keep
    BY <2>1, <2>2, ChangeMakes
  <2>4. QueueType'
    BY <1>1, <1>b, <2>3 DEF QueueInv, QueueType
  <2>5. ConfigInv'
    BY <1>1, <2>2 DEF QueueInv, ConfigInv
  <2>6. ValidInv'
    BY <1>1, <2>1, <2>3 DEF QueueInv, ValidInv
  <2>7. KeepsInv'
    <3>1. ASSUME ~lost', NEW i \in DOMAIN pending, "keep" \in DOMAIN pending[i],
                 ~Confirmed(pending[i].keep, confirmed)
          PROVE  config'.keep <= pending[i].keep
      <4>1. /\ config.keep <= pending[i].keep
            /\ \A h \in 1..i : "keep" \in DOMAIN pending[h] => pending[h].keep <= pending[i].keep
        BY <2>2, <3>1 DEF KeepsInv
      <4>2. 1 \in 1..i
        BY <3>1 DEF QueueInv, QueueType
      <4>3. QED
        BY <2>3, <4>1, <4>2
    <3>2. QED
      BY <1>1, <2>2, <3>1 DEF KeepsInv
  <2>8. QED
    BY <1>2, <1>3, <2>4, <2>5, <2>6, <2>7 DEF QueueInv
<1>6. QED
  BY <1>4, <1>5

(* A request answered "saved" is seen no more on its way but in what is saved. *)
LEMMA FinishesShows ==
  ASSUME QueueInv, Finishes, NEW field \in {"words", "keep"}
  PROVE  /\ HasLast(field)'
         /\ answer = "saved" /\ ~lost => Shown'[field] = Shown[field]
         /\ pending' = <<>> => Shown'[field] = saved'[field]
<1> DEFINE last == LastSetter(field)
<1>1. /\ pending \in Seq(Requests) /\ pending # <<>> /\ pending' = Tail(pending)
      /\ answer = "saved" => saved' = config
  BY DEF Finishes, QueueInv, QueueType
<1>2. /\ pending' \in Seq(Requests)
      /\ DOMAIN pending' = 1..(Len(pending) - 1) /\ DOMAIN pending = 1..Len(pending)
      /\ Len(pending) \in Nat \ {0}
      /\ \A i \in DOMAIN pending' : pending'[i] = pending[i + 1]
      /\ pending' = <<>> => DOMAIN pending' = {}
  BY <1>1
<1>3. /\ last \in Setters(field) /\ last \in Nat
      /\ \A j \in Setters(field) : j <= last
  BY LastIsLast DEF QueueInv
<1>4. Setters(field)' = {0} \cup {i \in DOMAIN pending' : field \in DOMAIN pending[i + 1]}
  BY <1>2 DEF Setters
<1>5. LastSetter(field)' = Max(Setters(field)')
  BY DEF LastSetter, Setters
<1> HIDE DEF last
<1>6. CASE last <= 1
  <2>1. Setters(field)' = {0}
    <3>1. ASSUME NEW i \in DOMAIN pending', field \in DOMAIN pending[i + 1]  PROVE FALSE
      <4>1. i + 1 \in Setters(field) /\ i + 1 > 1
        BY <1>2, <3>1 DEF Setters
      <4>2. QED
        BY <1>2, <1>3, <1>6, <3>1, <4>1
    <3>2. QED
      BY <1>4, <3>1
  <2>2. LastSetter(field)' = 0
    BY <1>5, <2>1, MaxIs
  <2>3. HasLast(field)'
    BY <2>1 DEF HasLast
  <2>4. Shown'[field] = saved'[field]
    BY <2>2 DEF Shown
  <2>5. ASSUME answer = "saved", ~lost  PROVE saved'[field] = Shown[field]
    <3>1. pending[1] \in Requests /\ saved \in Settings
      BY <1>1, <1>2 DEF QueueInv, QueueType
    <3>2. saved'[field] = IF field \in DOMAIN pending[1] THEN pending[1][field] ELSE saved[field]
      BY <1>1, <2>5, <3>1, ChangeMakes DEF QueueInv, ConfigInv
    <3>3. field \in DOMAIN pending[1] <=> last = 1
      BY <1>2, <1>3, <1>6 DEF Setters
    <3>4. last = 0 \/ last = 1
      BY <1>3, <1>6
    <3>5. QED
      BY <3>2, <3>3, <3>4 DEF Shown, last
  <2>6. QED
    BY <2>3, <2>4, <2>5
<1>7. CASE last > 1
  <2>1. last - 1 \in Setters(field)' /\ last \in DOMAIN pending
    BY <1>2, <1>3, <1>4, <1>7 DEF Setters
  <2>2. ASSUME NEW j \in Setters(field)'  PROVE j <= last - 1
    <3>1. CASE j = 0
      BY <1>3, <1>7, <3>1
    <3>2. CASE j # 0
      <4>1. j \in Nat /\ j + 1 \in Setters(field)
        BY <1>2, <1>4, <3>2 DEF Setters
      <4>2. QED
        BY <1>3, <4>1
    <3>3. QED
      BY <3>1, <3>2
  <2>3. Setters(field)' \subseteq Nat
    BY <1>2, <1>4
  <2>4. LastSetter(field)' = last - 1 /\ last - 1 # 0 /\ HasLast(field)'
    BY <1>3, <1>5, <1>7, <2>1, <2>2, <2>3, MaxIs DEF HasLast
  <2>5. pending'[last - 1] = pending[last] /\ pending' # <<>>
    BY <1>2, <1>3, <1>7, <2>1
  <2>6. Shown'[field] = pending[last][field]
    BY <2>4, <2>5 DEF Shown
  <2>7. Shown[field] = pending[last][field]
    BY <1>3, <1>7 DEF Shown, last
  <2>8. QED
    BY <2>4, <2>5, <2>6, <2>7
<1>8. QED
  BY <1>3, <1>6, <1>7

LEMMA FinishesStep ==
  ASSUME FormInv, Finishes
  PROVE  FormInv'
<1> USE DEF FormInv
<1> DEFINE ok == answer = "saved"
           quiet == Len(pending) = 1
           wrong == told \/ ~ok
<1>1. /\ answer # "none" /\ pending' = Tail(pending) /\ answer' = "none"
      /\ UNCHANGED <<config, shorter, checks, lost, latest>>
      /\ saved' = IF ok THEN config ELSE saved
      /\ editor' \in {editor, NoEditor}
      /\ confirmed' = IF quiet THEN {} ELSE confirmed
  BY DEF Finishes
<1>2. /\ meant' = IF quiet /\ wrong THEN saved'.words ELSE meant
      /\ told' = (wrong /\ ~(quiet /\ editor' = NoEditor))
  BY DEF Finishes
<1>3. /\ pending \in Seq(Requests) /\ pending # <<>> /\ pending' \in Seq(Requests)
      /\ DOMAIN pending' = 1..(Len(pending) - 1) /\ DOMAIN pending = 1..Len(pending)
      /\ Len(pending) \in Nat \ {0}
      /\ \A i \in DOMAIN pending' : pending'[i] = pending[i + 1]
  BY <1>1 DEF QueueInv, QueueType
<1>4. quiet <=> pending' = <<>>
  BY <1>1, <1>3
<1>5. HasLast("words")' /\ HasLast("keep")'
  BY FinishesShows
<1>6. /\ ok /\ ~lost => Shown'.words = Shown.words
      /\ pending' = <<>> => Shown'.words = saved'.words
  BY FinishesShows
<1>7. QueueInv'
  <2>1. QueueType'
    BY <1>1, <1>3 DEF QueueInv, QueueType
  <2>2. ConfigInv'
    BY <1>1 DEF QueueInv, QueueType, ConfigInv
  <2>3. ValidInv'
    BY <1>1, <1>3 DEF QueueInv, ValidInv
  <2>4. QED
    BY <1>5, <2>1, <2>2, <2>3 DEF QueueInv
<1>8. SetupInv'
  <2>1. setup' \in {setup, [setup EXCEPT !.box = NoKey, !.replacing = FALSE],
                    [setup EXCEPT !.key = "problem"]}
    BY DEF Finishes
  <2>2. /\ setup' \in [box : Keys \cup {NoKey}, replacing : BOOLEAN, nth : Nat,
                       key : {"idle", "checking", "works", "problem"}]
        /\ setup'.nth = setup.nth
    BY <2>1 DEF SetupInv
  <2>3. QED
    BY <1>1, <2>2 DEF SetupInv
<1>9. ScreenType'
  BY <1>1, <1>2 DEF ScreenType
<1> HIDE DEF quiet, ok
<1>10. WordsInv'
  <2>1. told \in BOOLEAN
    BY DEF ScreenType
  <2>2. CASE wrong
    BY <1>1, <1>2, <1>4, <1>6, <2>2 DEF WordsInv, EditorKeepsItsWord
  <2>3. CASE ~wrong
    BY <1>1, <1>2, <1>4, <1>6, <2>3 DEF WordsInv, EditorKeepsItsWord
  <2>4. QED
    BY <2>2, <2>3
<1>11. KeepsInv'
  <2>1. CASE quiet
    BY <1>4, <2>1 DEF KeepsInv
  <2>2. CASE ~quiet
    <3>1. ASSUME ~lost, NEW i \in DOMAIN pending', "keep" \in DOMAIN pending'[i],
                 ~Confirmed(pending'[i].keep, confirmed)
          PROVE  /\ config.keep <= pending'[i].keep
                 /\ \A h \in 1..i : "keep" \in DOMAIN pending'[h] =>
                      pending'[h].keep <= pending'[i].keep
      <4>1. i \in Nat /\ i + 1 \in DOMAIN pending /\ pending'[i] = pending[i + 1]
        BY <1>3
      <4>2. /\ config.keep <= pending[i + 1].keep
            /\ \A h \in 1..(i + 1) : "keep" \in DOMAIN pending[h] =>
                 pending[h].keep <= pending[i + 1].keep
        BY <3>1, <4>1 DEF KeepsInv
      <4>3. \A h \in 1..i : h + 1 \in 1..(i + 1) /\ pending'[h] = pending[h + 1]
        BY <1>3, <4>1
      <4>4. QED
        BY <4>1, <4>2, <4>3
    <3>2. QED
      BY <1>1, <2>2, <3>1 DEF KeepsInv
  <2>3. QED
    BY <2>1, <2>2
<1>12. QED
  BY <1>7, <1>8, <1>9, <1>10, <1>11

LEMMA FormStep ==
  ASSUME FormInv, FormAnswers \/ FormChecks \/ FormClicks
  PROVE  FormInv'
<1>1. CASE FormAnswers
  BY <1>1, DaemonStep, FinishesStep DEF FormAnswers
<1>2. CASE FormChecks
  BY <1>2, KeyCheckedStep DEF FormChecks
<1>3. CASE FormClicks
  BY <1>3, AddsWordStep, CommitsEditorStep, DeletesWordStep, EditorStep, ChoosesStep,
     SettlesStep, SetupStep DEF FormClicks
<1>4. QED
  BY <1>1, <1>2, <1>3

--------------------------------------------------------------------------------
(* The settings: what is saved *)

(* A keep is carried out as it was chosen: no shorter than the daemon's, or confirmed. *)
LEMMA ShorterByQueue ==
  ASSUME FormInv, FormAnswers \/ FormChecks \/ FormClicks,
         config'.keep < config.keep, ~lost'
  PROVE  \E choice \in confirmed : choice <= config'.keep
<1> USE DEF FormInv
<1>1. config' # config
  BY DEF QueueInv, QueueType, Settings, Retentions
<1>2. DaemonSaves
  <2>1. DaemonRefuses \/ Finishes \/ (\E check \in checks, works \in BOOLEAN : KeyChecked(check, works))
          => config' = config
    BY DEF DaemonRefuses, Finishes, KeyChecked, Queue
  <2>2. FormClicks => config' = config
    <3>1. ASSUME NEW edit, SaveWords(edit)  PROVE config' = config
      BY <3>1 DEF SaveWords, Queue
    <3>2. ASSUME NEW spelling \in Spellings,
                 AddsWord(spelling, "add") \/ AddsWord(spelling, "fix") \/ CommitsEditor(spelling)
          PROVE  config' = config
      BY <3>1, <3>2 DEF AddsWord, CommitsEditor
    <3>3. ASSUME NEW i \in 1..3, OpensEditor(i) \/ DeletesWord(i)  PROVE config' = config
      BY <3>1, <3>3 DEF OpensEditor, DeletesWord
    <3>4. ASSUME NEW choice \in Retentions, Chooses(choice)  PROVE config' = config
      BY <3>4 DEF Chooses, Queue
    <3>5. ASSUME NEW yes \in BOOLEAN, Settles(yes) \/ Replaces(yes)  PROVE config' = config
      BY <3>5 DEF Settles, Replaces, Queue
    <3>6. ASSUME NEW key \in Keys, TypesKey(key)  PROVE config' = config
      BY <3>6 DEF TypesKey
    <3>7. ClosesEditor \/ ChecksKey => config' = config
      BY DEF ClosesEditor, ChecksKey
    <3>8. QED
      BY <3>2, <3>3, <3>4, <3>5, <3>6, <3>7 DEF FormClicks
  <2>3. QED
    BY <1>1, <2>1, <2>2 DEF FormAnswers, FormChecks
<1>3. /\ pending[1] \in Requests /\ 1 \in DOMAIN pending /\ config \in Settings
      /\ config' = Change(config, pending[1])
  BY <1>2 DEF DaemonSaves, QueueInv, QueueType
<1>4. ~lost
  BY <1>2 DEF DaemonSaves
<1>5. /\ config'.keep = IF "keep" \in DOMAIN pending[1] THEN pending[1].keep ELSE config.keep
      /\ config.keep \in Retentions /\ config'.keep \in Retentions
  BY <1>3, ChangeMakes DEF Settings
<1>6. "keep" \in DOMAIN pending[1] /\ config'.keep = pending[1].keep
  BY <1>5 DEF Retentions
<1>7. Confirmed(pending[1].keep, confirmed)
  <2>1. ~(config.keep <= pending[1].keep)
    BY <1>5, <1>6 DEF Retentions
  <2>2. QED
    BY <1>3, <1>4, <1>6, <2>1 DEF KeepsInv
<1>8. QED
  BY <1>6, <1>7 DEF Confirmed

(* Of the requests only Setup's says so, and it has the key last checked. *)
LEMMA LatestByQueue ==
  ASSUME FormInv, FormAnswers \/ FormChecks \/ FormClicks,
         Len(pending') > Len(pending), "setup" \in DOMAIN Last(pending')
  PROVE  Last(pending').key = latest
<1>1. pending \in Seq(Requests)
  BY DEF FormInv, QueueInv, QueueType
<1>2. pending' # pending
  BY <1>1
<1>3. ASSUME NEW r, Queue(r)  PROVE Last(pending') = r
  BY <1>1, <1>3 DEF Queue, Last
<1>4. ASSUME NEW edit, SaveWords(edit)  PROVE FALSE
  <2> DEFINE words == Apply(edit, Shown.words)
  <2>1. Queue(IF edit.kind = "update" THEN [words |-> words, row |-> edit.index]
              ELSE [words |-> words])
    BY <1>2, <1>4 DEF SaveWords
  <2> HIDE DEF words
  <2>2. Last(pending') = IF edit.kind = "update" THEN [words |-> words, row |-> edit.index]
                         ELSE [words |-> words]
    BY <1>3, <2>1
  <2>3. QED
    BY <2>2
<1>5. CASE FormAnswers
  <2>1. pending' = pending \/ (pending # <<>> /\ pending' = Tail(pending))
    BY <1>5 DEF FormAnswers, DaemonSaves, DaemonRefuses, Finishes, FormInv, QueueInv, QueueType
  <2>2. QED
    BY <1>1, <1>2, <2>1
<1>6. ASSUME NEW check \in checks, NEW works \in BOOLEAN, KeyChecked(check, works)
      PROVE  Last(pending').key = latest
  <2> DEFINE r == [key |-> check.pasted, setup |-> TRUE]
  <2>1. Queue(r) /\ check.nth = setup.nth
    BY <1>2, <1>6 DEF KeyChecked
  <2>2. check.pasted = latest
    BY <2>1 DEF FormInv, SetupInv
  <2>3. r.key = check.pasted
    OBVIOUS
  <2> HIDE DEF r
  <2>4. QED
    BY <1>3, <2>1, <2>2, <2>3
<1>7. ASSUME NEW keep, Queue([keep |-> keep])  PROVE FALSE
  <2>1. Last(pending') = [keep |-> keep]
    BY <1>3, <1>7
  <2>2. QED
    BY <2>1
<1>8. CASE FormClicks
  <2>1. ASSUME NEW spelling \in Spellings,
               AddsWord(spelling, "add") \/ AddsWord(spelling, "fix") \/ CommitsEditor(spelling)
        PROVE  FALSE
    BY <1>4, <2>1 DEF AddsWord, CommitsEditor
  <2>2. ASSUME NEW i \in 1..3, OpensEditor(i) \/ DeletesWord(i)  PROVE FALSE
    BY <1>2, <1>4, <2>2 DEF OpensEditor, DeletesWord
  <2>3. ASSUME NEW choice \in Retentions, Chooses(choice)  PROVE FALSE
    BY <1>2, <1>7, <2>3 DEF Chooses
  <2>4. ASSUME NEW yes \in BOOLEAN, Settles(yes) \/ Replaces(yes)  PROVE FALSE
    BY <1>2, <1>7, <2>4 DEF Settles, Replaces
  <2>5. ASSUME NEW key \in Keys, TypesKey(key)  PROVE FALSE
    BY <1>2, <2>5 DEF TypesKey
  <2>6. ~ClosesEditor /\ ~ChecksKey
    BY <1>2 DEF ClosesEditor, ChecksKey
  <2>7. QED
    BY <1>8, <2>1, <2>2, <2>3, <2>4, <2>5, <2>6 DEF FormClicks
<1>9. QED
  BY <1>5, <1>6, <1>8 DEF FormChecks

--------------------------------------------------------------------------------
(* The window *)

WindowInv == HistoryInv /\ FormInv /\ StatusInv /\ LaunchInv

LEMMA FormStarts ==
  ASSUME FormInit  PROVE FormInv
<1>1. /\ config \in Settings /\ saved = config /\ Valid(config.words)
      /\ pending = <<>> /\ answer = "none" /\ editor = NoEditor /\ shorter = Unset
      /\ setup = [box |-> NoKey, replacing |-> FALSE, key |-> "idle", nth |-> 0]
      /\ checks = {} /\ meant = config.words /\ told = FALSE /\ lost = FALSE
      /\ confirmed = {}
  <2>1. \A a, b \in Spellings : <<Entry(a), Entry(b)>> \in Words
    <3>1. \A a \in Spellings : Entry(a) \in Word
      BY DEF Entry, Word
    <3>2. QED
      BY <3>1 DEF Words
  <2>2. <<>> \in Words
    BY DEF Words
  <2>3. config \in Settings
    BY <2>1, <2>2 DEF FormInit, Settings
  <2>4. QED
    BY <2>3 DEF FormInit
<1>2. QueueType /\ ScreenType /\ SetupInv
  <2>1. QueueType
    <3>1. pending \in Seq(Requests)
      BY <1>1, EmptySeq
    <3>2. lost \in BOOLEAN /\ answer = "none" /\ config \in Settings /\ saved \in Settings
      BY Zenon, <1>1
    <3>3. QED
      BY <3>1, <3>2 DEF QueueType
  <2>2. ScreenType
    BY <1>1 DEF ScreenType
  <2>3. SetupInv
    BY <1>1 DEF SetupInv
  <2>4. QED
    BY <2>1, <2>2, <2>3
<1>3. Setters("words") = {0} /\ Setters("keep") = {0}
  BY <1>1 DEF Setters
<1>4. QueueInv
  BY <1>1, <1>2, <1>3 DEF QueueInv, ConfigInv, ValidInv, HasLast
<1>5. WordsInv /\ KeepsInv
  <2>1. Shown.words = saved.words
    BY <1>1, <1>4, NothingOnItsWay
  <2>2. QED
    BY <1>1, <2>1 DEF WordsInv, EditorKeepsItsWord, KeepsInv
<1>6. QED
  BY <1>2, <1>4, <1>5 DEF FormInv

LEMMA WindowStarts ==
  ASSUME Init  PROVE WindowInv
<1>1. HistoryInv
  BY DEF Init, HistoryInit, HistoryInv, HistoryShape, LaneInv, NotYetAnswered, IdleLane,
         NoPage, Searches
<1>2. FormInv
  BY FormStarts DEF Init
<1>3. StatusInv
  BY DEF Init, StatusInit, StatusInv, StatusType, ChecksInv, KnowsItsPast, Resting
<1>4. LaunchInv
  BY DEF Init, LaunchInit, LaunchInv
<1>5. QED
  BY <1>1, <1>2, <1>3, <1>4 DEF WindowInv

(* A part that does not move keeps its invariant. *)
LEMMA HistoryRests == ASSUME HistoryInv, UNCHANGED historyVars  PROVE HistoryInv'
BY DEF HistoryInv, HistoryShape, LaneInv, NotYetAnswered, historyVars

LEMMA FormRests ==
  ASSUME FormInv, UNCHANGED formVars  PROVE FormInv'
<1>1. UNCHANGED <<config, saved, pending, answer, editor, shorter, setup, checks, meant, told,
                  lost, confirmed, latest>>
  BY DEF formVars
<1>2. SetupInv' /\ ScreenType'
  BY <1>1 DEF FormInv, SetupInv, ScreenType
<1>3. QED
  BY <1>1, <1>2, QueueRests, KeepsRest DEF FormInv, WordsInv, EditorKeepsItsWord

LEMMA StatusRests == ASSUME StatusInv, UNCHANGED statusVars  PROVE StatusInv'
BY DEF StatusInv, StatusType, ChecksInv, KnowsItsPast, statusVars

LEMMA LaunchRests == ASSUME LaunchInv, UNCHANGED launchVars  PROVE LaunchInv'
BY DEF LaunchInv, launchVars

LEMMA WindowStep ==
  ASSUME WindowInv, [Next]_windowVars
  PROVE  WindowInv'
<1> USE DEF WindowInv
<1>1. CASE HistoryMoves
  BY <1>1, HistoryStep, FormRests, StatusRests, LaunchRests DEF HistoryMoves
<1>2. CASE FormMoves
  BY <1>2, FormStep, HistoryRests, StatusRests, LaunchRests DEF FormMoves
<1>3. CASE StatusMoves
  BY <1>3, StatusStep, HistoryRests, FormRests, LaunchRests DEF StatusMoves
<1>4. CASE LaunchesMove
  BY <1>4, LaunchStep, HistoryRests, FormRests, StatusRests DEF LaunchesMove
<1>5. CASE UNCHANGED windowVars
  BY <1>5, HistoryRests, FormRests, StatusRests, LaunchRests DEF windowVars
<1>6. QED
  BY <1>1, <1>2, <1>3, <1>4, <1>5 DEF Next

(* The invariants of the parts hold together. *)
THEOREM WindowInvariance == Spec => []WindowInv
<1>1. Init => WindowInv
  BY WindowStarts
<1>2. WindowInv /\ [Next]_windowVars => WindowInv'
  BY WindowStep
<1>3. QED
  BY <1>1, <1>2, PTL DEF Spec

(* What the user typed is what is searched for, however many searches were typed during
   slow reads, and the words the daemon comes to hold are those the user made, however
   edits and answers overlap (history_action_lane.rs, settings_form.rs `shown`). *)
THEOREM TypedMeant == Spec => []TypedIsMeant
<1>1. WindowInv => TypedIsMeant
  <2> SUFFICES ASSUME WindowInv  PROVE TypedIsMeant
    OBVIOUS
  <2>1. SearchIsTyped
    BY DEF WindowInv, HistoryInv, LaneInv, SearchIsTyped
  <2>2. WordsAreAsEdited
    BY DEF WindowInv, FormInv, QueueInv, QueueType, ConfigInv, WordsInv, WordsAreAsEdited
  <2>3. QED
    BY <2>1, <2>2 DEF TypedIsMeant
<1>2. QED
  BY <1>1, WindowInvariance, PTL

(* A report of the desktop that is not due knows of every device change the hotkey loop
   has counted and is younger than the interval (daemon.rs `refresh_desktop_readiness`),
   and the user never has two windows (window_instance.rs). *)
THEOREM ReportsFresh == Spec => []ReportsAreFresh
<1>1. WindowInv => ReportsAreFresh
  BY FreshByChecks, OneByLock DEF WindowInv, ReportsAreFresh
<1>2. QED
  BY <1>1, WindowInvariance, PTL

(* Setup saves only the key last checked, and transcripts come to be kept for a shorter
   time only as was confirmed (setup_actions.rs, settings_actions.rs). *)
THEOREM SavesMeant == Spec => SavesAreMeant
<1>1. ASSUME WindowInv, [Next]_windowVars
      PROVE  [Len(pending') > Len(pending) /\ "setup" \in DOMAIN Last(pending') =>
                Last(pending').key = latest]_formVars
  <2>1. CASE FormMoves
    BY <1>1, <2>1, LatestByQueue DEF WindowInv, FormMoves
  <2>2. CASE ~FormMoves
    <3>1. UNCHANGED formVars
      BY <1>1, <2>2 DEF Next, HistoryMoves, StatusMoves, LaunchesMove, windowVars
    <3>2. QED
      BY <3>1
  <2>3. QED
    BY <2>1, <2>2
<1>2. ASSUME WindowInv, [Next]_windowVars
      PROVE  [config'.keep < config.keep /\ ~lost' =>
                \E choice \in confirmed : choice <= config'.keep]_formVars
  <2>1. CASE FormMoves
    BY <1>2, <2>1, ShorterByQueue DEF WindowInv, FormMoves
  <2>2. CASE ~FormMoves
    <3>1. UNCHANGED formVars
      BY <1>2, <2>2 DEF Next, HistoryMoves, StatusMoves, LaunchesMove, windowVars
    <3>2. QED
      BY <3>1
  <2>3. QED
    BY <2>1, <2>2
<1>3. QED
  BY <1>1, <1>2, WindowInvariance, PTL
     DEF Spec, SavesAreMeant, SetupSavesTheLatest, ShorterWasConfirmed

================================================================================
