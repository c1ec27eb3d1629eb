---------------------------------- MODULE Overlay ---------------------------------
(* The recording overlay: OverlaySupervisor and OverlayController of
   crates/agentdictate-app/src/overlay_process/supervisor.rs, the helper process and
   its monitor (child.rs, helper.rs).

   The daemon sends updates and, before a paste, a dismissal it waits for.  They, the
   statuses of the helpers and their exits reach the presenter thread through one
   queue.  Helpers are numbered: a dismissed one may still fade out while the next
   one starts.                                                                    *)
EXTENDS Integers, Sequences

CONSTANTS
  MaxUpdates,    \* bound: updates the daemon sends
  MaxDismissals, \* bound: pastes
  MaxQueue,      \* bound: events the presenter has not handled
  Failing,       \* the kinds of step that may fail
  MaxFailures    \* bound: failed steps

ASSUME BoundsAssumption == {MaxUpdates, MaxDismissals, MaxQueue, MaxFailures} \subseteq Nat
ASSUME FailingAssumption == Failing \subseteq {"spawn", "helper", "stuck"}

VARIABLES
  daemon,     \* the daemon's side: "free", "waits" for a dismissal, or "pastes"
  calls,      \* dismissals so far, which number them
  answer,     \* the answer on the reply channel of a dismissal
  updates,    \* updates so far
  wanted,     \* what the last of them is to leave on the screen
  queue,      \* the presenter's events
  supervisor, \* OverlaySupervisor
  unavailable,\* OverlayHealth
  helpers,    \* the helper processes, by generation
  failures

vars == <<daemon, calls, answer, updates, wanted, queue, supervisor, unavailable,
          helpers, failures>>

(* One launch and one restart for each update. *)
AutomaticRestartLimit == 1
Generations == 1..2 * MaxUpdates + 1
States == {"busy", "notice", "hidden"}

NoHelper == [generation |-> 0, unmanaged |-> FALSE]
NoDismissal == [generation |-> 0, reply |-> 0]
NoAnswer == [call |-> 0, ok |-> FALSE]
NoProcess == [at |-> "none", window |-> "none", input |-> FALSE, stuck |-> FALSE,
              left |-> FALSE]

(* What the presenter is sent: the commands of the daemon, the end of their channel, and
   the statuses and exits of the helpers. *)
Events ==
  [event : {"update"}, state : States] \cup [event : {"dismiss"}, call : 1..MaxDismissals]
  \cup [event : {"force", "closed"}]
  \cup [event : {"created"}, generation : Generations, unmanaged : BOOLEAN]
  \cup [event : {"frame", "error", "exit"}, generation : Generations]

Helpers == [generation : {0} \cup Generations, unmanaged : BOOLEAN]
Dismissals == [generation : {0} \cup Generations, reply : 0..MaxDismissals]
Supervisors ==
  [running : BOOLEAN, helper : Helpers, last : {"none", "busy", "notice"},
   restarts : 0..AutomaticRestartLimit, generation : {0} \cup Generations,
   notice : BOOLEAN, closed : BOOLEAN, pending : Dismissals]
Processes ==
  [at : {"none", "starts", "created", "shown", "failed", "dead", "reaped"},
   window : {"none", "managed", "unmanaged"}, input : BOOLEAN, stuck : BOOLEAN,
   left : BOOLEAN]

TypeOK ==
  /\ daemon \in {"free", "waits", "pastes", "closed"}
  /\ calls \in 0..MaxDismissals /\ updates \in 0..MaxUpdates
  /\ answer \in [call : 0..MaxDismissals, ok : BOOLEAN]
  /\ wanted \in States
  /\ queue \in Seq(Events) /\ Len(queue) <= MaxQueue
  /\ supervisor \in Supervisors
  /\ unavailable \in BOOLEAN
  /\ helpers \in [Generations -> Processes]
  /\ failures \in 0..MaxFailures

Init ==
  /\ daemon = "free" /\ calls = 0 /\ answer = NoAnswer
  /\ updates = 0 /\ wanted = "hidden" /\ queue = <<>>
  /\ supervisor = [running |-> FALSE, helper |-> NoHelper, last |-> "none", restarts |-> 0,
                   generation |-> 0, notice |-> FALSE, closed |-> FALSE,
                   pending |-> NoDismissal]
  /\ unavailable = FALSE
  /\ helpers = [g \in Generations |-> NoProcess]
  /\ failures = 0

May(kind) == kind \in Failing /\ failures < MaxFailures /\ failures' = failures + 1
Fine == UNCHANGED failures
Alive(g) == helpers[g].at \in {"starts", "created", "shown", "failed"}

--------------------------------------------------------------------------------
(* The daemon, which holds its lock from the dismissal to the end of the paste *)

Enqueue(event) == Len(queue) < MaxQueue /\ queue' = Append(queue, event)

Update(state) ==
  /\ daemon = "free" /\ updates < MaxUpdates
  /\ updates' = updates + 1 /\ wanted' = state
  /\ Enqueue([event |-> "update", state |-> state])
  /\ UNCHANGED <<daemon, calls, answer, supervisor, unavailable, helpers, failures>>

DismissAndWait ==
  /\ daemon = "free" /\ calls < MaxDismissals
  /\ daemon' = "waits" /\ calls' = calls + 1 /\ wanted' = "hidden"
  /\ Enqueue([event |-> "dismiss", call |-> calls'])
  /\ UNCHANGED <<answer, updates, supervisor, unavailable, helpers, failures>>

TakesAnswer ==
  /\ daemon = "waits" /\ answer.call = calls
  /\ daemon' = IF answer.ok THEN "pastes" ELSE "free"
  /\ answer' = NoAnswer
  /\ UNCHANGED <<calls, updates, wanted, queue, supervisor, unavailable, helpers,
                 failures>>

(* Without an answer in time the paste is refused, and the helper is to be killed. *)
WaitTimesOut ==
  /\ daemon = "waits" /\ answer.call # calls
  /\ daemon' = "free"
  /\ Enqueue([event |-> "force"])
  /\ UNCHANGED <<calls, answer, updates, wanted, supervisor, unavailable, helpers,
                 failures>>

PasteEnds ==
  /\ daemon = "pastes" /\ daemon' = "free"
  /\ UNCHANGED <<calls, answer, updates, wanted, queue, supervisor, unavailable,
                 helpers, failures>>

(* The daemon ends: the channel of its commands is closed. *)
Close ==
  /\ daemon = "free" /\ daemon' = "closed" /\ wanted' = "hidden"
  /\ Enqueue([event |-> "closed"])
  /\ UNCHANGED <<calls, answer, updates, supervisor, unavailable, helpers, failures>>

--------------------------------------------------------------------------------
(* The helper process and the thread that monitors it *)

Becomes(g, at) == helpers' = [helpers EXCEPT ![g].at = at]
KeepsOthers ==
  UNCHANGED <<daemon, calls, answer, updates, wanted, supervisor, unavailable>>

(* The X server tells whether the window is override-redirect. *)
WindowCreated(g) ==
  /\ helpers[g].at = "starts"
  /\ \E window \in {"managed", "unmanaged"} :
       /\ helpers' = [helpers EXCEPT ![g].at = "created", ![g].window = window]
       /\ Enqueue([event |-> "created", generation |-> g, unmanaged |-> window = "unmanaged"])
  /\ KeepsOthers /\ Fine

FrameSubmitted(g) ==
  /\ helpers[g].at = "created"
  /\ Becomes(g, "shown") /\ Enqueue([event |-> "frame", generation |-> g])
  /\ KeepsOthers /\ Fine

(* It reports an error, or the monitor does: no frame in time, or a broken status. *)
Errs(g) ==
  /\ helpers[g].at \in {"starts", "created", "shown"} /\ May("helper")
  /\ Becomes(g, "failed") /\ Enqueue([event |-> "error", generation |-> g])
  /\ KeepsOthers

(* It fades out and exits once its input is closed, unless it is stuck; or crashes. *)
Exits(g) ==
  /\ Alive(g)
  /\ \/ ~helpers[g].input /\ ~helpers[g].stuck /\ Becomes(g, "dead") /\ Fine
     \/ May("helper") /\ Becomes(g, "dead")
     \/ ~helpers[g].stuck /\ May("stuck") /\ helpers' = [helpers EXCEPT ![g].stuck = TRUE]
  /\ KeepsOthers /\ UNCHANGED queue

(* wait_for_overlay_child *)
Reaped(g) ==
  /\ helpers[g].at = "dead"
  /\ helpers' = [helpers EXCEPT ![g] = [NoProcess EXCEPT !.at = "reaped"]]
  /\ Enqueue([event |-> "exit", generation |-> g])
  /\ KeepsOthers /\ Fine

HelperSteps ==
  \E g \in Generations :
    WindowCreated(g) \/ FrameSubmitted(g) \/ Errs(g) \/ Exits(g) \/ Reaped(g)

--------------------------------------------------------------------------------
(* The presenter thread.  A handler is what it makes of the supervisor s and of the
   processes hs; a launch may fail.                                               *)

Finish(hs, g) ==
  IF g = 0 THEN hs ELSE [hs EXCEPT ![g].input = FALSE]
Terminate(hs, g) ==
  IF g = 0 THEN hs
  ELSE [hs EXCEPT ![g].input = FALSE, ![g].at = IF Alive(g) THEN "dead" ELSE @]
Leaves(hs, g) == IF g = 0 THEN hs ELSE [hs EXCEPT ![g].left = TRUE]

Stopped(s) == [s EXCEPT !.running = FALSE, !.last = "none", !.restarts = 0, !.notice = FALSE]

Launch(s, hs) ==
  LET g == s.generation + 1
      next == [s EXCEPT !.generation = g, !.running = TRUE] IN
  \/ /\ supervisor' = [next EXCEPT !.helper = [NoHelper EXCEPT !.generation = g]]
     /\ helpers' = [hs EXCEPT ![g] = [NoProcess EXCEPT !.at = "starts", !.input = TRUE]]
     /\ UNCHANGED unavailable /\ Fine
  \/ /\ May("spawn")
     /\ supervisor' = [next EXCEPT !.running = FALSE]
     /\ helpers' = hs /\ unavailable' = TRUE

HandleUpdate(state) ==
  LET s == [supervisor EXCEPT !.notice = state = "notice",
                              !.last = IF state = "hidden" THEN "none" ELSE state,
                              !.restarts = IF state = "hidden" THEN 0
                                           ELSE AutomaticRestartLimit]
      g == s.helper.generation
      sends == g # 0 /\ Alive(g) /\ helpers[g].input IN
  \/ /\ state = "hidden" /\ (supervisor.notice \/ ~supervisor.running)
     /\ supervisor' = IF supervisor.notice THEN supervisor ELSE s
     /\ UNCHANGED <<helpers, unavailable, failures>>
  \/ /\ state = "hidden" /\ ~supervisor.notice /\ supervisor.running
     /\ supervisor' = [s EXCEPT !.running = FALSE, !.helper = NoHelper]
     /\ helpers' = Leaves(Finish(helpers, g), g)
     /\ UNCHANGED <<unavailable, failures>>
  \/ state # "hidden" /\ ~supervisor.running /\ Launch(s, helpers)
  \/ /\ state # "hidden" /\ supervisor.running /\ sends
     /\ supervisor' = s /\ UNCHANGED <<helpers, unavailable, failures>>
  \/ /\ state # "hidden" /\ supervisor.running /\ ~sends
     /\ Launch([s EXCEPT !.helper = NoHelper], Terminate(helpers, g))

(* Each dismissal has a reply channel of its own: an answer that comes after the wait
   has ended reaches nobody. *)
Answers(call, ok) ==
  IF daemon = "waits" /\ call = calls THEN answer' = [call |-> call, ok |-> ok]
  ELSE UNCHANGED answer

(* Mutant of Dismiss: the answer does not wait for a helper that may take the focus. *)
DismissAtOnce(call) ==
  LET helper == supervisor.helper IN
  /\ supervisor' = [Stopped(supervisor) EXCEPT !.helper = NoHelper]
  /\ helpers' = Finish(helpers, helper.generation)
  /\ Answers(call, TRUE)
  /\ UNCHANGED <<unavailable, failures>>

(* The paste may go on at once when no window can take the focus; otherwise the
   answer waits for the exit. *)
Dismiss(call) ==
  LET helper == supervisor.helper
      s == [Stopped(supervisor) EXCEPT !.helper = NoHelper] IN
  /\ IF helper.generation = 0 THEN supervisor' = s
     ELSE supervisor' = [s EXCEPT !.pending =
            [generation |-> helper.generation,
             reply |-> IF helper.unmanaged THEN 0 ELSE call]]
  /\ helpers' = Finish(helpers, helper.generation)
  /\ IF helper.generation = 0 \/ helper.unmanaged THEN Answers(call, TRUE)
     ELSE UNCHANGED answer
  /\ UNCHANGED <<unavailable, failures>>

ForceDismiss ==
  /\ helpers' = Terminate(helpers, supervisor.pending.generation)
  /\ UNCHANGED <<supervisor, unavailable, answer, failures>>

(* Mutant of IsOf: a status counts for the current helper, whoever sent it. *)
IsOfAny(g) == supervisor.helper.generation # 0

(* Of the current helper: an earlier or a dismissed one no longer counts. *)
IsOf(g) == supervisor.helper.generation = g

HandleStatus(e) ==
  /\ IF ~IsOf(e.generation) THEN UNCHANGED <<supervisor, helpers, unavailable>>
     ELSE CASE e.event = "created" ->
                 /\ supervisor' = [supervisor EXCEPT !.helper.unmanaged = @ \/ e.unmanaged]
                 /\ UNCHANGED <<helpers, unavailable>>
            [] e.event = "frame" ->
                 unavailable' = FALSE /\ UNCHANGED <<supervisor, helpers>>
            [] e.event = "error" ->
                 /\ unavailable' = TRUE
                 /\ helpers' = Terminate(helpers, e.generation)
                 /\ UNCHANGED supervisor
  /\ UNCHANGED <<answer, failures>>

(* Mutant of Restarts: a helper that exits is launched again and again. *)
RestartsAlways(s) == Launch(s, helpers)

(* Once for each update; then the next update is waited for. *)
Restarts(s) ==
  IF s.restarts = 0 THEN supervisor' = s /\ UNCHANGED <<helpers, failures>>
  ELSE Launch([s EXCEPT !.restarts = @ - 1], helpers)

HandleExit(g) ==
  LET pending == supervisor.pending
      s == [supervisor EXCEPT !.helper = NoHelper, !.running = FALSE] IN
  CASE pending.generation = g ->
         /\ supervisor' = [supervisor EXCEPT !.pending = NoDismissal]
         /\ IF pending.reply # 0 THEN Answers(pending.reply, TRUE) ELSE UNCHANGED answer
         /\ UNCHANGED <<helpers, unavailable, failures>>
    [] pending.generation # g /\ IsOf(g) ->
         /\ IF s.last = "none" THEN supervisor' = s /\ UNCHANGED <<helpers, failures>>
            ELSE Restarts(s)
         /\ unavailable' = TRUE /\ UNCHANGED answer
    [] OTHER -> UNCHANGED <<supervisor, helpers, unavailable, answer, failures>>

Shutdown ==
  /\ supervisor' = [Stopped(supervisor) EXCEPT !.helper = NoHelper, !.pending = NoDismissal,
                                               !.closed = TRUE]
  /\ helpers' = Finish(helpers, supervisor.helper.generation)
  /\ IF supervisor.pending.reply # 0 THEN Answers(supervisor.pending.reply, FALSE)
     ELSE UNCHANGED answer
  /\ UNCHANGED <<unavailable, failures>>

Handle ==
  /\ queue # <<>> /\ ~supervisor.closed
  /\ queue' = Tail(queue)
  /\ LET e == Head(queue) IN
     \/ e.event = "update" /\ HandleUpdate(e.state) /\ UNCHANGED answer
     \/ e.event = "dismiss" /\ Dismiss(e.call)
     \/ e.event = "force" /\ ForceDismiss
     \/ e.event \in {"created", "frame", "error"} /\ HandleStatus(e)
     \/ e.event = "exit" /\ HandleExit(e.generation)
     \/ e.event = "closed" /\ Shutdown
  /\ UNCHANGED <<daemon, calls, updates, wanted>>

(* Mutant of EndNotice: the helper keeps its input. *)
EndNoticeKeepingIt ==
  /\ supervisor.notice /\ ~supervisor.closed
  /\ supervisor' = [Stopped(supervisor) EXCEPT !.helper = NoHelper]
  /\ UNCHANGED <<daemon, calls, answer, updates, wanted, queue, unavailable, helpers,
                 failures>>

EndNotice ==
  /\ supervisor.notice /\ ~supervisor.closed
  /\ supervisor' = [Stopped(supervisor) EXCEPT !.helper = NoHelper]
  /\ helpers' = LET g == supervisor.helper.generation IN Leaves(Finish(helpers, g), g)
  /\ UNCHANGED <<daemon, calls, answer, updates, wanted, queue, unavailable, failures>>

(* The deadline of a dismissed helper no paste waits for. *)
TeardownTimesOut ==
  /\ supervisor.pending.generation # 0 /\ supervisor.pending.reply = 0
  /\ ~supervisor.closed
  /\ supervisor' = [supervisor EXCEPT !.pending = NoDismissal]
  /\ helpers' = Terminate(helpers, supervisor.pending.generation)
  /\ unavailable' = TRUE
  /\ UNCHANGED <<daemon, calls, answer, updates, wanted, queue, failures>>

PresenterSteps == Handle \/ EndNotice \/ TeardownTimesOut

--------------------------------------------------------------------------------
Next ==
  \/ \E state \in States : Update(state)
  \/ DismissAndWait \/ TakesAnswer \/ WaitTimesOut \/ PasteEnds \/ Close
  \/ HelperSteps \/ PresenterSteps

(* The presenter and the daemon go on, deadlines pass, helpers and monitors run. *)
Spec ==
  /\ Init /\ [][Next]_vars
  /\ WF_vars(TakesAnswer \/ WaitTimesOut) /\ WF_vars(PasteEnds)
  /\ WF_vars(Handle) /\ WF_vars(EndNotice) /\ WF_vars(TeardownTimesOut)
  /\ \A g \in Generations :
       WF_vars(~helpers[g].input /\ Exits(g)) /\ WF_vars(Reaped(g))

--------------------------------------------------------------------------------
(* Properties *)

(* A paste "never" reaches the overlay: while it goes on, every helper that was not
   taken off the screen before has exited, or has a window that the window manager
   cannot focus, and none starts. *)
PasteIsSafe ==
  daemon = "pastes" =>
    \A g \in Generations :
      Alive(g) /\ ~helpers[g].left => ~helpers[g].input /\ helpers[g].window = "unmanaged"

(* A helper that still waits for updates is the one that gets them: no other would
   ever leave the screen. *)
OpenHelperIsOwned ==
  \A g \in Generations :
    Alive(g) /\ helpers[g].input => supervisor.helper.generation = g

(* A helper that cannot show itself is not launched over and over. *)
RestartsAreBounded == supervisor.generation <= (1 + AutomaticRestartLimit) * updates

(* No paste reaches a helper, and the supervisor owns every helper that waits for it and
   gives up on one that cannot start. *)
HelpersAreKnown == TypeOK /\ PasteIsSafe /\ OpenHelperIsOwned /\ RestartsAreBounded

(* Once nothing is left to show, the overlay goes away, a notice included. *)
ScreenClears ==
  <>[](wanted # "busy" => \A g \in Generations : Alive(g) => helpers[g].stuck)

(* "The supervisor kills a helper that is still alive at this deadline." *)
DismissedHelperEnds ==
  \A g \in Generations :
    [](supervisor.pending.generation = g => <>(~Alive(g) \/ supervisor.closed))

================================================================================
