----------------------------------- MODULE Tools -----------------------------------
(* Running a platform tool within a deadline: SystemCommandRunner::run_output of
   crates/agentdictate-linux/src/command.rs, which runs pactl, systemctl and ffmpeg.

   The tool may start a helper in its process group that inherits its pipes.  Both write
   to stdout and stderr, each a pipe of limited room, while the runner drains them and
   watches the tool through a pidfd with one `poll`.                                   *)
EXTENDS Integers, FiniteSets

CONSTANTS
  MaxRuns,     \* bound: tools run, one after the other
  Room,        \* what a pipe holds before its writer blocks
  MaxOutput,   \* bound: what the tools write to a pipe
  ToolFailing, \* the kinds of step that may fail
  MaxToolFailures

ASSUME ToolBoundsAssumption ==
  /\ {Room, MaxOutput} \subseteq Nat \ {0} /\ {MaxRuns, MaxToolFailures} \subseteq Nat
  /\ ToolFailing \subseteq {"spawn", "pidfd", "poll", "read", "exit"}

VARIABLES
  runner,   \* where run_output stands, and what it returned
  group,    \* the processes of the group: what each is at, and the pipes it has open
  pipes,    \* of each pipe: what was written, what was read, whether its end was
  overdue,  \* the deadline has passed
  runs, toolFailures

toolVars == <<runner, group, pipes, overdue, runs, toolFailures>>

Pipes == {"stdout", "stderr"}
Tool == "tool"
Helper == "helper"
Group == {Tool, Helper}
NoOutput == [p \in Pipes |-> [written |-> 0, read |-> 0, open |-> TRUE]]
Gone == [at |-> "gone", has |-> {}]
Alive(p) == group[p].at = "runs"

ToolMay(kind) ==
  /\ kind \in ToolFailing /\ toolFailures < MaxToolFailures
  /\ toolFailures' = toolFailures + 1
ToolFine == UNCHANGED toolFailures

ToolsTypeOK ==
  /\ runner \in [at : {"free", "open", "poll", "reap", "kill"},
                 exited : BOOLEAN, result : {"none", "ok", "failed", "deadline"}]
  /\ group \in [Group -> [at : {"gone", "runs", "exited", "failed"}, has : SUBSET Pipes]]
  /\ pipes \in [Pipes -> [written : 0..MaxOutput, read : 0..MaxOutput, open : BOOLEAN]]
  /\ \A p \in Pipes : pipes[p].read <= pipes[p].written
  /\ overdue \in BOOLEAN /\ runs \in 0..MaxRuns /\ toolFailures \in 0..MaxToolFailures

ToolsInit ==
  /\ runner = [at |-> "free", exited |-> FALSE, result |-> "none"]
  /\ group = [p \in Group |-> Gone] /\ pipes = NoOutput
  /\ overdue = FALSE /\ runs = 0 /\ toolFailures = 0

--------------------------------------------------------------------------------
(* The tool and its helper *)

(* A full pipe blocks its writer. *)
WriteOutput(p, pipe) ==
  /\ Alive(p) /\ pipe \in group[p].has
  /\ pipes[pipe].written < MaxOutput
  /\ pipes[pipe].written - pipes[pipe].read < Room
  /\ pipes' = [pipes EXCEPT ![pipe].written = @ + 1]
  /\ UNCHANGED <<runner, group, overdue, runs, toolFailures>>

StartHelper ==
  /\ Alive(Tool) /\ group[Helper] = Gone /\ group[Tool].has # {}
  /\ group' = [group EXCEPT ![Helper] = group[Tool]]
  /\ UNCHANGED <<runner, pipes, overdue, runs, toolFailures>>

CloseOutput(p, pipe) ==
  /\ Alive(p) /\ pipe \in group[p].has
  /\ group' = [group EXCEPT ![p].has = @ \ {pipe}]
  /\ UNCHANGED <<runner, pipes, overdue, runs, toolFailures>>

(* The tool that has exited stays a zombie until the runner has reaped it. *)
Exit(p) ==
  /\ Alive(p)
  /\ \/ group' = [group EXCEPT ![p] = [at |-> "exited", has |-> {}]] /\ ToolFine
     \/ /\ p = Tool /\ ToolMay("exit")
        /\ group' = [group EXCEPT ![p] = [at |-> "failed", has |-> {}]]
  /\ UNCHANGED <<runner, pipes, overdue, runs>>

GroupMoves ==
  \/ StartHelper
  \/ \E p \in Group : Exit(p) \/ \E pipe \in Pipes : WriteOutput(p, pipe) \/ CloseOutput(p, pipe)

--------------------------------------------------------------------------------
(* The runner *)

Runner(at) == runner' = [runner EXCEPT !.at = at]
Returned(result) == [at |-> "free", exited |-> FALSE, result |-> result]
Gives(result) == runner' = [runner EXCEPT !.at = "kill", !.result = result]

SpawnTool ==
  /\ runner.at = "free" /\ runs < MaxRuns
  /\ runs' = runs + 1
  /\ \/ /\ group' = [p \in Group |-> IF p = Tool THEN [at |-> "runs", has |-> Pipes] ELSE Gone]
        /\ runner' = [at |-> "open", exited |-> FALSE, result |-> "none"] /\ ToolFine
     \/ /\ ToolMay("spawn") /\ group' = [p \in Group |-> Gone]
        /\ runner' = Returned("failed")
  /\ pipes' = NoOutput
  /\ overdue' = FALSE

PidfdOpen ==
  /\ runner.at = "open"
  /\ \/ Runner("poll") /\ ToolFine
     \/ ToolMay("pidfd") /\ Gives("failed")
  /\ UNCHANGED <<group, pipes, overdue, runs>>

(* Whether a read would not block: there is output, or no writer is left. *)
Ended(pipe) == \A p \in Group : pipe \notin group[p].has
Readable(pipe) ==
  pipes[pipe].open /\ (pipes[pipe].written > pipes[pipe].read \/ Ended(pipe))
Drained(pipe) ==
  IF ~Readable(pipe) THEN pipes[pipe]
  ELSE IF pipes[pipe].written > pipes[pipe].read
       THEN [pipes[pipe] EXCEPT !.read = pipes[pipe].written]
       ELSE [pipes[pipe] EXCEPT !.open = FALSE]
ToolExited == group[Tool].at \in {"exited", "failed"}

(* Mutant of CollectOutput: the exit of the tool ends the reading. *)
CollectUntilExit ==
  /\ runner.at = "poll"
  /\ \/ runner.exited /\ Runner("reap") /\ UNCHANGED pipes /\ ToolFine
     \/ /\ ~runner.exited /\ overdue /\ Gives("deadline") /\ UNCHANGED pipes /\ ToolFine
     \/ /\ ~runner.exited /\ ~overdue
        /\ pipes' = [pipe \in Pipes |-> Drained(pipe)]
        /\ runner' = [runner EXCEPT !.exited = @ \/ ToolExited]
        /\ ToolFine
  /\ UNCHANGED <<group, overdue, runs>>

(* One turn of the loop: it reads what every ready pipe holds, until both have ended and
   the tool has exited, and looks at the clock before each turn.  Nothing is ready: the
   poll waits. *)
CollectOutput ==
  /\ runner.at = "poll"
  /\ LET goes == (\E pipe \in Pipes : pipes[pipe].open) \/ ~runner.exited IN
     \/ ~goes /\ Runner("reap") /\ UNCHANGED pipes /\ ToolFine
     \/ goes /\ overdue /\ Gives("deadline") /\ UNCHANGED pipes /\ ToolFine
     \/ /\ goes /\ ~overdue
        /\ (\E pipe \in Pipes : Readable(pipe)) \/ (~runner.exited /\ ToolExited)
        /\ \/ /\ pipes' = [pipe \in Pipes |-> Drained(pipe)]
              /\ runner' = [runner EXCEPT !.exited = @ \/ ToolExited] /\ ToolFine
           \/ /\ ToolMay("poll") \/ ToolMay("read")
              /\ Gives("failed") /\ UNCHANGED pipes
  /\ UNCHANGED <<group, overdue, runs>>

(* The pidfd has reported the exit, so waiting does not block. *)
Reap ==
  /\ runner.at = "reap"
  /\ runner' = Returned(IF group[Tool].at = "exited" THEN "ok" ELSE "failed")
  /\ UNCHANGED <<group, pipes, overdue, runs, toolFailures>>

(* Mutant of KillGroup: only the tool is killed. *)
KillTool ==
  /\ runner.at = "kill"
  /\ group' = [group EXCEPT ![Tool] = Gone]
  /\ runner' = Returned(runner.result)
  /\ UNCHANGED <<pipes, overdue, runs, toolFailures>>

(* The group goes, helpers included, also when the tool itself has exited: a zombie keeps
   the number of the group its own. *)
KillGroup ==
  /\ runner.at = "kill"
  /\ group' = [p \in Group |-> Gone]
  /\ runner' = Returned(runner.result)
  /\ UNCHANGED <<pipes, overdue, runs, toolFailures>>

RunnerSteps == PidfdOpen \/ CollectOutput \/ Reap \/ KillGroup

ToolDeadlinePasses ==
  /\ runner.at # "free" /\ ~overdue
  /\ overdue' = TRUE
  /\ UNCHANGED <<runner, group, pipes, runs, toolFailures>>

ToolsNext == GroupMoves \/ SpawnTool \/ RunnerSteps \/ ToolDeadlinePasses

(* The caller's thread goes on and time passes; a tool may hang. *)
ToolsFairness == WF_toolVars(RunnerSteps) /\ WF_toolVars(ToolDeadlinePasses)
ToolsSpec == ToolsInit /\ [][ToolsNext]_toolVars /\ ToolsFairness

--------------------------------------------------------------------------------
(* Properties *)

(* "The whole tool process group is killed if it outlives `deadline`, including helpers
   that inherited its pipes": a run that failed leaves no process behind that could still
   act on what the caller gave up, unless the tool itself reported the failure and its
   helper had let go of both pipes. *)
FailedToolIsGone ==
  runner.at = "free" /\ runner.result \in {"failed", "deadline"} =>
    \A p \in Group : Alive(p) => group[p].has = {} /\ group[Tool].at = "failed"

(* A run that succeeded returns all that the tool and its helpers wrote to the pipes they
   were given, however the writes, the exits and the reads interleave. *)
OutputIsWhole ==
  runner.at = "free" /\ runner.result = "ok" =>
    \A pipe \in Pipes : pipes[pipe].read = pipes[pipe].written /\ Ended(pipe)

(* A run ends, though the tool or its helper hangs or writes more than a pipe holds. *)
RunsEnd == runner.at # "free" ~> runner.at = "free"

(* All that a caller of `run_output` relies on. *)
ToolsAreBounded == ToolsTypeOK /\ FailedToolIsGone /\ OutputIsWhole

================================================================================
