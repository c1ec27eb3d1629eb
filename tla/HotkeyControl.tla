----------------------------- MODULE HotkeyControl -----------------------------
(* Who listens for which shortcut: the listener worker and its restarts
   (agentdictate-linux, native_hotkey), the dispatch loop that supervises it
   (hotkey_dispatch.rs), the save that changes the shortcut (process.rs), and
   the captures the settings window asks for.

   The supervisor blocks in two places: a save holds the daemon lock until the
   loop has answered, and the loop answers only once the worker has.  Captures
   take neither: they ask the loop for the listener's control and then talk to
   the worker themselves.

   Signals are left to HotkeyDispatch.  The thread that copies the worker's
   events into the loop's channel keeps their order and is folded into it; its
   last message, that the listener is gone, is a step of its own.             *)
EXTENDS Naturals, Sequences, FiniteSets

CONSTANTS
  Specs,        \* the shortcuts (HotkeySpec)
  Clients,      \* the commands that capture a shortcut
  Nobody,       \* a value that is no client
  Failing,      \* the kinds of step that may fail
  MaxFailures,  \* bound: failures in one behaviour
  MaxChanges,   \* bound: changes of the input devices
  MaxCommands   \* bound: saves and cancels

FailureKinds == {"start", "listener", "discover", "watch", "reject", "save"}

ASSUME NobodyAssumption == Nobody \notin Clients
ASSUME FailingAssumption == Failing \subseteq FailureKinds
ASSUME BoundsAssumption ==
  MaxFailures \in Nat /\ MaxChanges \in Nat /\ MaxCommands \in Nat

VARIABLES
  environment,  \* how often the input devices have changed
  listener,     \* the newest listener worker
  commands,     \* the worker's channel
  events,       \* the loop's channel
  loop,         \* what the loop is at: its next event, a reply, a failed start
  generation,   \* the loop's `generation`
  active,       \* the loop's `active_listener`
  current,      \* the loop's `current_spec`
  watcher,      \* the watcher that waits for the devices to change
  readiness,    \* DaemonStatus::hotkey
  lock,         \* who holds the daemon lock
  saver,        \* the save under way, and the loop's answer to it
  settings,     \* the saved shortcut
  captures,     \* what each capturing client is at
  canceller,    \* what the cancelling client is at
  failures,     \* history: failures so far
  asked         \* history: saves and cancels so far

vars == <<environment, listener, commands, events, loop, generation, active,
          current, watcher, readiness, lock, saver, settings, captures,
          canceller, failures, asked>>

supervisor == <<generation, active, current, watcher>>
clients == <<captures, canceller>>
save == <<lock, saver, settings>>

Generations == 1..MaxFailures + 1

Commands == [kind : {"reconfigure"}, spec : Specs]
            \cup [kind : {"capture"}, client : Clients]
            \cup {[kind |-> "cancel"]}

Events == [kind : {"status"}, generation : Generations, ready : BOOLEAN]
          \cup [kind : {"discovery_error", "closed", "environment"},
                generation : Generations]
          \cup [kind : {"reconfigure"}, spec : Specs]
          \cup [kind : {"control"}, client : Clients \cup {Nobody}]

NoWatcher == [waiting |-> FALSE, generation |-> 1, since |-> 0]
NoControl == [at |-> "idle", generation |-> 1]

TypeOK ==
  /\ environment \in 0..MaxChanges
  /\ listener \in [generation : Generations, state : {"live", "dead", "closed"},
                   spec : Specs, keyboards : BOOLEAN, seen : 0..MaxChanges,
                   armed : Clients \cup {Nobody}]
  /\ commands \in Seq(Commands)
  /\ events \in Seq(Events)
  /\ loop \in {"receive", "waiting", "starting", "failed"}
  /\ generation \in Generations
  /\ active \in BOOLEAN
  /\ current \in Specs
  /\ watcher \in [waiting : BOOLEAN, generation : Generations, since : 0..MaxChanges]
  /\ readiness \in {"ready", "starting", "unavailable"}
  /\ lock \in {"free", "save", "cancel"}
  /\ saver \in [at : {"idle", "new", "rollback"}, answer : {"none", "ok", "refused"},
                spec : Specs]
  /\ settings \in Specs
  /\ captures \in [Clients -> [at : {"idle", "asked", "control", "waiting", "done"},
                               generation : Generations]]
  /\ canceller \in [at : {"idle", "asked", "control", "done"}, generation : Generations]
  /\ failures \in 0..MaxFailures
  /\ asked \in 0..MaxCommands

Reported(ready) == IF ready THEN "ready" ELSE "unavailable"

(* A listener of `spec`; whether it found a keyboard is up to the devices. *)
Listener(spec, keyboards) ==
  [generation |-> generation, state |-> "live", spec |-> spec,
   keyboards |-> keyboards, seen |-> environment, armed |-> Nobody]

(* The daemon has tried to start its first listener. *)
Init ==
  /\ environment = 0
  /\ generation = 1
  /\ settings \in Specs
  /\ current = settings
  /\ commands = <<>> /\ events = <<>>
  /\ \/ /\ \E keyboards \in BOOLEAN :
             /\ listener = Listener(settings, keyboards)
             /\ readiness = Reported(keyboards)
        /\ active = TRUE /\ loop = "receive" /\ failures = 0
     \/ /\ "start" \in Failing /\ MaxFailures > 0
        /\ listener = [Listener(settings, FALSE) EXCEPT !.state = "closed"]
        /\ readiness = "unavailable"
        /\ active = FALSE /\ loop = "failed" /\ failures = 1
  /\ watcher = NoWatcher
  /\ lock = "free"
  /\ saver = [at |-> "idle", answer |-> "none", spec |-> settings]
  /\ captures = [c \in Clients |-> NoControl]
  /\ canceller = NoControl
  /\ asked = 0

--------------------------------------------------------------------------------
(* Steps *)

Fault(kind) ==
  /\ kind \in Failing
  /\ failures < MaxFailures
  /\ failures' = failures + 1

Send(event) == events' = Append(events, event)
Receive(kind) ==
  /\ loop = "receive"
  /\ events # <<>>
  /\ Head(events).kind = kind
  /\ events' = Tail(events)

Status(ready) ==
  [kind |-> "status", generation |-> listener.generation, ready |-> ready]

Live == listener.state = "live"

(* A client's capture is over, whatever its outcome. *)
Answered(client) ==
  IF client = Nobody THEN captures
  ELSE [captures EXCEPT ![client].at = "done"]

(* The answer the save waits for. *)
Answer(ok) ==
  saver' = [saver EXCEPT !.answer = IF ok THEN "ok" ELSE "refused"]

--------------------------------------------------------------------------------
(* The listener worker and its environment *)

DevicesChange ==
  /\ environment < MaxChanges
  /\ environment' = environment + 1
  /\ UNCHANGED <<listener, commands, events, loop, supervisor, readiness, save,
                 clients, failures, asked>>

(* The worker looks for keyboards after a change, and reports a new status. *)
WorkerDiscovers ==
  /\ Live
  /\ listener.seen < environment
  /\ \/ \E keyboards \in BOOLEAN :
          /\ listener' = [listener EXCEPT !.seen = environment, !.keyboards = keyboards]
          /\ IF keyboards = listener.keyboards THEN UNCHANGED events
             ELSE Send(Status(keyboards))
          /\ UNCHANGED failures
     \/ /\ Fault("discover")
        /\ listener' = [listener EXCEPT !.seen = environment]
        /\ Send([kind |-> "discovery_error", generation |-> listener.generation])
  /\ UNCHANGED <<environment, commands, loop, supervisor, readiness, save, clients,
                 asked>>

NextCommand(kind) ==
  /\ Live
  /\ commands # <<>>
  /\ Head(commands).kind = kind
  /\ commands' = Tail(commands)

(* `reconfigure_listener`, and the loop passing its answer on.  A shortcut no
   keyboard supports is rejected, and the session goes on with its own. *)
WorkerReconfigures ==
  LET spec == Head(commands).spec IN
  /\ NextCommand("reconfigure")
  /\ \/ /\ listener' = [listener EXCEPT !.spec = spec, !.keyboards = TRUE]
        /\ Send(Status(TRUE))
        /\ current' = spec
        /\ Answer(TRUE)
        /\ UNCHANGED failures
     \/ /\ Fault("reject")
        /\ Send(Status(listener.keyboards))
        /\ Answer(FALSE)
        /\ UNCHANGED <<listener, current>>
  /\ loop' = "receive"
  /\ UNCHANGED <<environment, generation, active, watcher, readiness, lock, settings,
                 clients, asked>>

(* Mutant of WorkerArmsCapture: the capture it replaces hears nothing. *)
WorkerReplacesCapture ==
  /\ NextCommand("capture")
  /\ listener' = [listener EXCEPT !.armed = Head(commands).client]
  /\ UNCHANGED <<environment, events, loop, supervisor, readiness, save, clients,
                 failures, asked>>

(* Arms a capture; the one it replaces ends as cancelled. *)
WorkerArmsCapture ==
  /\ NextCommand("capture")
  /\ captures' = Answered(listener.armed)
  /\ listener' = [listener EXCEPT !.armed = Head(commands).client]
  /\ UNCHANGED <<environment, events, loop, supervisor, readiness, save, canceller,
                 failures, asked>>

WorkerCancelsCapture ==
  /\ NextCommand("cancel")
  /\ captures' = Answered(listener.armed)
  /\ listener' = [listener EXCEPT !.armed = Nobody]
  /\ UNCHANGED <<environment, events, loop, supervisor, readiness, save, canceller,
                 failures, asked>>

(* A chord is captured, Esc ends the capture, or its time is over. *)
WorkerEndsCapture ==
  /\ Live
  /\ listener.armed # Nobody
  /\ captures' = Answered(listener.armed)
  /\ listener' = [listener EXCEPT !.armed = Nobody]
  /\ UNCHANGED <<environment, commands, events, loop, supervisor, readiness, save,
                 canceller, failures, asked>>

(* `poll` fails and the worker returns: everyone who waits for an answer of
   its channel or of its capture gets an error instead. *)
WorkerExits ==
  /\ Live
  /\ Fault("listener")
  /\ Send([kind |-> "discovery_error", generation |-> listener.generation])
  /\ listener' = [listener EXCEPT !.state = "dead", !.armed = Nobody]
  /\ commands' = <<>>
  /\ captures' = [c \in Clients |->
                   IF captures[c].at = "waiting" THEN [captures[c] EXCEPT !.at = "done"]
                   ELSE captures[c]]
  /\ IF loop = "waiting" THEN Answer(FALSE) /\ loop' = "receive"
     ELSE UNCHANGED <<saver, loop>>
  /\ UNCHANGED <<environment, supervisor, readiness, lock, settings, canceller,
                 asked>>

(* The copying thread sees the worker's channel closed. *)
ListenerClosed ==
  /\ listener.state = "dead"
  /\ listener' = [listener EXCEPT !.state = "closed"]
  /\ Send([kind |-> "closed", generation |-> listener.generation])
  /\ UNCHANGED <<environment, commands, loop, supervisor, readiness, save, clients,
                 failures, asked>>

--------------------------------------------------------------------------------
(* The dispatch loop *)

IsCurrent(event) == event.generation = generation

(* Mutant of LoopTakesStatus: any status counts as ready. *)
LoopTakesAnyStatus ==
  /\ Receive("status")
  /\ readiness' = IF IsCurrent(Head(events)) THEN "ready" ELSE readiness
  /\ UNCHANGED <<environment, listener, commands, loop, supervisor, save, clients,
                 failures, asked>>

LoopTakesStatus ==
  /\ Receive("status")
  /\ readiness' = IF IsCurrent(Head(events)) THEN Reported(Head(events).ready)
                  ELSE readiness
  /\ UNCHANGED <<environment, listener, commands, loop, supervisor, save, clients,
                 failures, asked>>

LoopTakesDiscoveryError ==
  /\ Receive("discovery_error")
  /\ readiness' = IF IsCurrent(Head(events)) THEN "unavailable" ELSE readiness
  /\ UNCHANGED <<environment, listener, commands, loop, supervisor, save, clients,
                 failures, asked>>

(* Mutant of LoopTakesClosed: no retry is scheduled. *)
LoopTakesClosedForGood ==
  /\ Receive("closed")
  /\ IF IsCurrent(Head(events))
     THEN active' = FALSE /\ readiness' = "unavailable"
     ELSE UNCHANGED <<active, readiness>>
  /\ UNCHANGED <<environment, listener, commands, loop, generation, current, watcher,
                 save, clients, failures, asked>>

LoopTakesClosed ==
  /\ Receive("closed")
  /\ IF IsCurrent(Head(events))
     THEN /\ active' = FALSE
          /\ readiness' = "unavailable"
          /\ loop' = "failed"
     ELSE UNCHANGED <<active, readiness, loop>>
  /\ UNCHANGED <<environment, listener, commands, generation, current, watcher, save,
                 clients, failures, asked>>

(* `schedule_environment_retry`, after the listener could not start or closed. *)
ScheduleRetry ==
  /\ loop = "failed"
  /\ loop' = "receive"
  /\ \/ /\ watcher' = [waiting |-> TRUE, generation |-> generation, since |-> environment]
        /\ UNCHANGED failures
     \/ Fault("watch") /\ UNCHANGED watcher
  /\ UNCHANGED <<environment, listener, commands, events, generation, active, current,
                 readiness, save, clients, asked>>

WatcherFires ==
  /\ watcher.waiting
  /\ watcher.since < environment
  /\ watcher' = NoWatcher
  /\ Send([kind |-> "environment", generation |-> watcher.generation])
  /\ UNCHANGED <<environment, listener, commands, loop, generation, active, current,
                 readiness, save, clients, failures, asked>>

LoopTakesEnvironment ==
  /\ Receive("environment")
  /\ IF IsCurrent(Head(events)) /\ ~active
     THEN /\ readiness' = "starting"
          /\ generation' = generation + 1
          /\ loop' = "starting"
     ELSE UNCHANGED <<readiness, generation, loop>>
  /\ UNCHANGED <<environment, listener, commands, active, current, watcher, save,
                 clients, failures, asked>>

(* `NativeHotkeyListener::start` with the loop's current spec. *)
LoopStartsListener ==
  /\ loop = "starting"
  /\ \/ \E keyboards \in BOOLEAN :
          /\ listener' = Listener(current, keyboards)
          /\ readiness' = Reported(keyboards)
          /\ active' = TRUE
          /\ loop' = "receive"
          /\ UNCHANGED failures
     \/ /\ Fault("start")
        /\ readiness' = "unavailable"
        /\ loop' = "failed"
        /\ UNCHANGED <<listener, active>>
  /\ UNCHANGED <<environment, commands, events, generation, current, watcher, save,
                 clients, asked>>

(* Mutant of LoopTakesReconfigure: with no worker to ask, nobody answers. *)
LoopAsksOrForgets ==
  /\ Receive("reconfigure")
  /\ IF active /\ Live
     THEN commands' = Append(commands, Head(events)) /\ loop' = "waiting"
     ELSE UNCHANGED <<commands, loop>>
  /\ UNCHANGED <<environment, listener, supervisor, readiness, save, clients,
                 failures, asked>>

(* Asks the worker and waits for it; with no worker to ask, refuses at once. *)
LoopTakesReconfigure ==
  /\ Receive("reconfigure")
  /\ IF active /\ Live
     THEN /\ commands' = Append(commands, Head(events))
          /\ loop' = "waiting"
          /\ UNCHANGED saver
     ELSE Answer(FALSE) /\ UNCHANGED <<commands, loop>>
  /\ UNCHANGED <<environment, listener, supervisor, readiness, lock, settings, clients,
                 failures, asked>>

(* Hands out the control of the listener there is, if there is one. *)
LoopTakesControl ==
  LET client == Head(events).client
      reply == IF active THEN [at |-> "control", generation |-> generation]
               ELSE [at |-> "done", generation |-> generation] IN
  /\ Receive("control")
  /\ IF client = Nobody
     THEN canceller' = reply /\ UNCHANGED captures
     ELSE captures' = [captures EXCEPT ![client] = reply] /\ UNCHANGED canceller
  /\ UNCHANGED <<environment, listener, commands, loop, supervisor, readiness, save,
                 failures, asked>>

--------------------------------------------------------------------------------
(* A save that changes the shortcut: `update_settings`, under the daemon lock *)

SaveBegins ==
  /\ lock = "free"
  /\ asked < MaxCommands
  /\ asked' = asked + 1
  /\ lock' = "save"
  /\ \E spec \in Specs \ {settings} :
       /\ saver' = [at |-> "new", answer |-> "none", spec |-> spec]
       /\ Send([kind |-> "reconfigure", spec |-> spec])
  /\ UNCHANGED <<environment, listener, commands, loop, supervisor, readiness, settings,
                 clients, failures>>

SaveReturns ==
  /\ lock' = "free"
  /\ saver' = [at |-> "idle", answer |-> "none", spec |-> settings']

Replied(at, answer) == saver.at = at /\ saver.answer = answer

(* The listener refused the shortcut, or went back to the old one. *)
SaveRefused ==
  /\ Replied("new", "refused") \/ Replied("rollback", "ok")
  /\ UNCHANGED settings
  /\ SaveReturns
  /\ UNCHANGED <<environment, listener, commands, events, loop, supervisor, readiness,
                 clients, failures, asked>>

(* Mutant of SaveSettings: a failed save leaves the listener as it is. *)
SaveWithoutRollback ==
  /\ Replied("new", "ok")
  /\ \/ settings' = saver.spec /\ UNCHANGED failures
     \/ Fault("save") /\ UNCHANGED settings
  /\ SaveReturns
  /\ UNCHANGED <<environment, listener, commands, events, loop, supervisor, readiness,
                 clients, asked>>

SaveSettings ==
  /\ Replied("new", "ok")
  /\ \/ /\ settings' = saver.spec
        /\ SaveReturns
        /\ UNCHANGED <<events, failures>>
     \/ /\ Fault("save")
        /\ saver' = [saver EXCEPT !.at = "rollback", !.answer = "none"]
        /\ Send([kind |-> "reconfigure", spec |-> settings])
        /\ UNCHANGED <<lock, settings>>
  /\ UNCHANGED <<environment, listener, commands, loop, supervisor, readiness, clients,
                 asked>>

RollbackFailed ==
  /\ Replied("rollback", "refused")
  /\ readiness' = "unavailable"
  /\ UNCHANGED settings
  /\ SaveReturns
  /\ UNCHANGED <<environment, listener, commands, events, loop, supervisor, clients,
                 failures, asked>>

--------------------------------------------------------------------------------
(* Captures *)

(* The command was decided under the lock; its thread goes on without it. *)
CaptureBegins(c) ==
  /\ lock = "free"
  /\ captures[c].at = "idle"
  /\ captures' = [captures EXCEPT ![c].at = "asked"]
  /\ Send([kind |-> "control", client |-> c])
  /\ UNCHANGED <<environment, listener, commands, loop, supervisor, readiness, save,
                 canceller, failures, asked>>

(* A control sends nothing once its own worker is gone. *)
Reaches(control) == Live /\ control.generation = listener.generation

CaptureSends(c) ==
  /\ captures[c].at = "control"
  /\ IF Reaches(captures[c])
     THEN /\ commands' = Append(commands, [kind |-> "capture", client |-> c])
          /\ captures' = [captures EXCEPT ![c].at = "waiting"]
     ELSE /\ captures' = [captures EXCEPT ![c].at = "done"]
          /\ UNCHANGED commands
  /\ UNCHANGED <<environment, listener, events, loop, supervisor, readiness, save,
                 canceller, failures, asked>>

Pending(c) == captures[c].at \in {"asked", "control", "waiting"}

(* A cancel holds the daemon lock until it has sent its command. *)
CancelBegins ==
  /\ lock = "free"
  /\ asked < MaxCommands
  /\ asked' = asked + 1
  /\ lock' = "cancel"
  /\ canceller' = [NoControl EXCEPT !.at = "asked"]
  /\ Send([kind |-> "control", client |-> Nobody])
  /\ UNCHANGED <<environment, listener, commands, loop, supervisor, readiness, saver,
                 settings, captures, failures>>

CancelSends ==
  /\ canceller.at \in {"control", "done"}
  /\ commands' = IF canceller.at = "control" /\ Reaches(canceller)
                 THEN Append(commands, [kind |-> "cancel"]) ELSE commands
  /\ canceller' = NoControl
  /\ lock' = "free"
  /\ UNCHANGED <<environment, listener, events, loop, supervisor, readiness, saver,
                 settings, captures, failures, asked>>

--------------------------------------------------------------------------------
WorkerSteps ==
  \/ WorkerDiscovers \/ WorkerReconfigures \/ WorkerArmsCapture
  \/ WorkerCancelsCapture \/ WorkerEndsCapture

LoopSteps ==
  \/ LoopTakesStatus \/ LoopTakesDiscoveryError \/ LoopTakesClosed
  \/ LoopTakesEnvironment \/ LoopStartsListener \/ LoopTakesReconfigure
  \/ LoopTakesControl \/ ScheduleRetry

SaveSteps == SaveRefused \/ SaveSettings \/ RollbackFailed

ClientSteps == CancelSends \/ \E c \in Clients : CaptureSends(c)

Next ==
  \/ DevicesChange \/ WorkerExits \/ ListenerClosed \/ WatcherFires
  \/ WorkerSteps \/ LoopSteps \/ SaveSteps \/ ClientSteps
  \/ SaveBegins \/ CancelBegins \/ \E c \in Clients : CaptureBegins(c)

Spec == Init /\ [][Next]_vars

--------------------------------------------------------------------------------
(* Properties *)

(* Everything sent has arrived, and no command of the daemon is under way. *)
Settled ==
  /\ loop = "receive" /\ events = <<>> /\ commands = <<>>
  /\ listener.state # "dead"
  /\ lock = "free"

(* The daemon without a listener always waits for the devices to change, in the
   generation the loop will heed: a missed or a stale retry would leave the
   shortcut dead until the daemon restarts (schedule_environment_retry). *)
ListenerOrRetry ==
  loop = "receive" /\ ~active =>
    \/ watcher.waiting /\ watcher.generation = generation
    \/ [kind |-> "environment", generation |-> generation]
         \in {events[i] : i \in DOMAIN events}

(* A shortcut reported as ready is listened for: no order of closing, restarts,
   saves and status reports leaves "ready" standing over a listener that is gone
   or has no keyboard (listener_closure_is_never_left_reported_as_ready). *)
ReadyMeansListening ==
  Settled /\ readiness = "ready" => active /\ Live /\ listener.keyboards

(* The listener that is reported as ready listens for the saved shortcut
   (process.rs: a new one "goes back to the old one if saving fails"). *)
ListensForTheSavedShortcut ==
  Settled /\ Live /\ readiness = "ready" => listener.spec = settings

(* Every thread runs on, except that the devices need not change. *)
Fairness ==
  /\ WF_vars(WorkerReconfigures \/ WorkerArmsCapture \/ WorkerCancelsCapture)
  /\ WF_vars(WorkerEndsCapture) /\ WF_vars(ListenerClosed)
  /\ WF_vars(LoopSteps) /\ WF_vars(SaveSteps) /\ WF_vars(CancelSends)
  /\ \A c \in Clients : WF_vars(CaptureSends(c))

FairSpec == Spec /\ Fairness

(* The daemon lock always comes back from a save or a cancel, although both wait
   for the dispatch loop while they hold it, and the loop for the listener. *)
LockComesBack == lock # "free" ~> lock = "free"

(* A client that asked for a capture is answered: with a chord, a cancellation,
   the end of its time, or an error when the listener goes away. *)
CapturesEnd == \A c \in Clients : Pending(c) ~> captures[c].at = "done"

================================================================================
