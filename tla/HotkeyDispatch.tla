---------------------------- MODULE HotkeyDispatch ----------------------------
(* From the keys to the recording: the listener worker turns key events into
   signals, the dispatch loop passes them through the gate, the action worker
   acts on one at a time under the daemon lock, and reports back.  Meanwhile
   other clients of the daemon (tray, command line, recorder events) start and
   end recordings under the same lock, settings change under it, and a save
   that changes the shortcut holds it while the dispatch loop has the listener
   swap its session.

   Every thread is one group of actions below; the channel of the dispatch loop
   is `events`, that of the action worker is `actions`.  The thread that copies
   listener events into the loop's channel keeps their order and is folded into
   it.  The daemon is the part of its workflow that triggers look at.         *)
EXTENDS HotkeyTracker, HotkeyGate, Sequences

CONSTANTS
  Keyboards,     \* the devices the shortcut can be pressed on
  Disturbances,  \* what else may happen while a key is held (see below)
  MaxInputs,     \* bound: key events and commands in one behaviour
  MaxTicks       \* bound: rearm delays that pass in one behaviour

(* "mode": a client saves another recording mode.  "swap": a client saves
   another shortcut, and the listener's session is replaced.  "capture": the
   settings window arms a shortcut capture.  "unread": the first SELECT of a
   stop or a discard fails, which refuses the command. *)
ASSUME DisturbancesAssumption ==
  Disturbances \subseteq {"mode", "swap", "capture", "unread"}
ASSUME BoundsAssumption == MaxInputs \in Nat /\ MaxTicks \in Nat

VARIABLES
  tracker,    \* the listener session's tracker
  capturing,  \* a shortcut capture is armed
  events,     \* the dispatch loop's channel
  gate,       \* the dispatch loop's gate
  actions,    \* the action worker's channel
  worker,     \* what the action worker is at
  holder,     \* who holds the daemon lock, and for which action
  saving,     \* the save that waits for the listener
  phase,      \* the workflow's phase
  mode,       \* the saved recording mode, and its mirror in DaemonStatus
  origin,     \* history: what started the current recording, and when
  lastEsc,    \* history: the last Esc the listener was to act on, if not refused
  now,        \* the time, in rearm delays
  inputs      \* history: how many key events and commands there have been

vars == <<tracker, capturing, events, gate, actions, worker, holder, saving,
          phase, mode, origin, lastEsc, now, inputs>>

listener == <<tracker, capturing>>
dispatch == <<events, gate, actions>>
daemon == <<holder, phase, origin>>

(* What a signal is on its way through the channels: `nth` numbers the key
   event that caused it. *)
Signals == [kind : {"signal"}, signal : {"pressed", "released", "cancelled"},
            at : 0..MaxTicks, nth : 0..MaxInputs]
ActionFinished == [kind : {"finished"}, toggled : BOOLEAN, at : 0..MaxTicks]
Reconfigure == [kind |-> "reconfigure"]
Messages == Signals \cup ActionFinished \cup {Reconfigure}

Free == [who |-> "nobody", action |-> "none"]
Resting == [at |-> "resting", event |-> NoSignal, toggled |-> FALSE]
NoOrigin == [by |-> "nothing", nth |-> 0, rearmAt |-> 0]

TypeOK ==
  /\ tracker \in Trackers(Keyboards)
  /\ capturing \in BOOLEAN
  /\ events \in Seq(Messages)
  /\ gate \in [inFlight : BOOLEAN, pending : Signals \cup {NoSignal},
               rearmAt : 0..MaxTicks + 1]
  /\ actions \in Seq(Signals)
  /\ worker \in [at : {"resting", "taken", "acting", "done"},
                 event : Signals \cup {NoSignal}, toggled : BOOLEAN]
  /\ holder \in [who : {"nobody", "worker", "client", "settings"},
                 action : {"none", "start", "stop", "discard", "save"}]
  /\ saving \in {"none", "asked", "answered"}
  /\ phase \in {"idle", "starting", "recording", "stopping", "processing"}
  /\ mode \in {"hold", "toggle"}
  /\ origin \in [by : {"nothing", "hold", "toggle", "client"},
                 nth : 0..MaxInputs, rearmAt : 0..MaxTicks + 1]
  /\ lastEsc \in 0..MaxInputs
  /\ now \in 0..MaxTicks
  /\ inputs \in 0..MaxInputs

Init ==
  /\ tracker = NewTracker
  /\ capturing = FALSE
  /\ events = <<>>
  /\ gate = NewGate
  /\ actions = <<>>
  /\ worker = Resting
  /\ holder = Free
  /\ saving = "none"
  /\ phase = "idle"
  /\ mode \in {"hold", "toggle"}
  /\ origin = NoOrigin
  /\ lastEsc = 0
  /\ now = 0
  /\ inputs = 0

--------------------------------------------------------------------------------
(* The listener worker *)

Input == inputs < MaxInputs /\ inputs' = inputs + 1

Sends(signal) ==
  events' = IF signal = "none" THEN events
            ELSE Append(events, [kind |-> "signal", signal |-> signal,
                                 at |-> now, nth |-> inputs + 1])

OutsideListener == <<gate, actions, worker, daemon, saving, mode, now>>

(* A key event other than Esc that leaves the chords at `moved`. *)
KeyEvent(moved, pressed) ==
  /\ Input
  /\ \/ /\ ~capturing
        /\ tracker' = Transition(moved)
        /\ Sends(TransitionSignal(moved))
        /\ UNCHANGED capturing
     \/ /\ capturing
        /\ tracker' = CaptureTransition(moved)
        /\ capturing' \in (IF pressed THEN BOOLEAN ELSE {TRUE})
        /\ UNCHANGED events
  /\ UNCHANGED <<lastEsc, OutsideListener>>

KeyDown(k) == k \notin tracker.held /\ KeyEvent(ChordCompletes(tracker, k), TRUE)
KeyUp(k) == k \in tracker.held /\ KeyEvent(ChordBreaks(tracker, k), FALSE)

(* Any other key, such as Esc coming up: the match is evaluated again. *)
OtherKey ==
  /\ Transition(tracker) # tracker \/ capturing
  /\ KeyEvent(tracker, TRUE)

Esc ==
  /\ Input
  /\ tracker' = SwallowUntilRelease(tracker)
  /\ capturing' = FALSE
  /\ Sends(IF capturing THEN "none" ELSE "cancelled")
  /\ lastEsc' = IF capturing THEN lastEsc ELSE inputs + 1
  /\ UNCHANGED OutsideListener

(* A keyboard goes away; the signal is sent even while a capture is armed. *)
Disconnect(k) ==
  LET moved == ChordBreaks(tracker, k) IN
  /\ k \in tracker.held
  /\ Input
  /\ tracker' = Transition(moved)
  /\ Sends(TransitionSignal(moved))
  /\ UNCHANGED <<capturing, lastEsc, OutsideListener>>

ArmCapture ==
  /\ "capture" \in Disturbances
  /\ Input
  /\ capturing' = TRUE
  /\ UNCHANGED <<tracker, events, lastEsc, OutsideListener>>

(* The capture's time is over, or a client cancels it. *)
CaptureEnds ==
  /\ capturing
  /\ capturing' = FALSE
  /\ UNCHANGED <<tracker, events, lastEsc, inputs, OutsideListener>>

--------------------------------------------------------------------------------
(* The dispatch loop: one event of its channel *)

(* The mirror of the workflow the loop reads without the lock. *)
IsRecording == phase \in {"starting", "recording"}

OutsideDispatch == <<worker, daemon, saving, mode, lastEsc, now, inputs, capturing>>

Receive(kind) == events # <<>> /\ Head(events).kind = kind /\ events' = Tail(events)

(* An Esc that cannot cancel anything is dropped before the gate sees it. *)
Heeds(event) == ~(event.signal = "cancelled" /\ IgnoresCancel(gate, IsRecording))

DropSignal ==
  LET event == Head(events) IN
  /\ Receive("signal")
  /\ Heeds(event) => ~Accepts(gate, mode, event) /\ ~Queues(gate, mode, event)
  /\ UNCHANGED <<gate, actions, tracker, OutsideDispatch>>

DispatchSignal ==
  LET event == Head(events) IN
  /\ Receive("signal")
  /\ Heeds(event)
  /\ Accepts(gate, mode, event)
  /\ gate' = [gate EXCEPT !.inFlight = TRUE]
  /\ actions' = Append(actions, event)
  /\ UNCHANGED <<tracker, OutsideDispatch>>

QueueSignal ==
  LET event == Head(events) IN
  /\ Receive("signal")
  /\ Heeds(event)
  /\ Queues(gate, mode, event)
  /\ gate' = [gate EXCEPT !.pending = event]
  /\ UNCHANGED <<actions, tracker, OutsideDispatch>>

CompleteAction ==
  LET event == Head(events) IN
  /\ Receive("finished")
  /\ gate' = Complete(gate, event.toggled, event.at)
  /\ actions' = IF gate.pending = NoSignal THEN actions ELSE Append(actions, gate.pending)
  /\ UNCHANGED <<tracker, OutsideDispatch>>

(* Mutant of ReconfigureListener: the loop takes the daemon lock for it. *)
ReconfigureUnderLock ==
  /\ holder = Free
  /\ Receive("reconfigure")
  /\ tracker' \in {tracker, NewTracker}
  /\ saving' = "answered"
  /\ UNCHANGED <<gate, actions, worker, daemon, mode, lastEsc, now, inputs, capturing>>

(* The loop waits for the listener, which swaps its session or rejects the
   shortcut, and answers the save. *)
ReconfigureListener ==
  /\ Receive("reconfigure")
  /\ tracker' \in {tracker, NewTracker}
  /\ saving' = "answered"
  /\ UNCHANGED <<gate, actions, worker, daemon, mode, lastEsc, now, inputs, capturing>>

--------------------------------------------------------------------------------
(* The daemon, under its lock *)

OutsideDaemon == <<listener, dispatch, saving, mode, lastEsc, now>>

(* `lifecycle_action`: a shortcut's signal in the current mode and phase. *)
LifecycleAction(signal) ==
  CASE signal = "pressed" /\ phase = "idle" -> "start"
    [] signal = "pressed" /\ mode = "toggle" /\ IsRecording -> "stop"
    [] signal = "released" /\ mode = "hold" /\ IsRecording -> "stop"
    [] signal = "cancelled" /\ IsRecording -> "discard"
    [] OTHER -> "none"

(* The first half of a command that changes the workflow: the phase the mirror
   shows while the recorder starts or stops. *)
Begin(who, action) ==
  /\ holder' = [who |-> who, action |-> action]
  /\ phase' = CASE action = "start" -> "starting"
                [] action = "stop" -> "stopping"
                [] OTHER -> phase

(* The phase a command leaves, failures included: a start that fails leaves the
   workflow idle, a stop or a discard always ends the recording. *)
Ends(action) ==
  CASE action = "start" -> {"recording", "idle"}
    [] action = "stop" -> {"processing", "idle"}
    [] OTHER -> {"idle"}

End(who) ==
  /\ holder.who = who
  /\ holder' = Free
  /\ phase' \in Ends(holder.action)

TakeAction ==
  /\ worker = Resting
  /\ actions # <<>>
  /\ actions' = Tail(actions)
  /\ worker' = [Resting EXCEPT !.at = "taken", !.event = Head(actions)]
  /\ UNCHANGED <<events, gate, listener, daemon, saving, mode, lastEsc, now, inputs>>

TriggerBegins ==
  LET action == LifecycleAction(worker.event.signal) IN
  /\ worker.at = "taken"
  /\ holder = Free
  /\ action # "none"
  /\ Begin("worker", action)
  /\ worker' = [worker EXCEPT !.at = "acting"]
  /\ UNCHANGED <<origin, inputs, OutsideDaemon>>

(* Mutant of TriggerIgnored: what did nothing is not reported. *)
TriggerIgnoredSilently ==
  /\ worker.at = "taken"
  /\ holder = Free
  /\ LifecycleAction(worker.event.signal) = "none"
  /\ worker' = Resting
  /\ UNCHANGED <<daemon, inputs, OutsideDaemon>>

(* Nothing to do in this phase, or the stop could not read its job: the command
   of that signal is refused, and the user told. *)
TriggerIgnored ==
  LET action == LifecycleAction(worker.event.signal) IN
  /\ worker.at = "taken"
  /\ holder = Free
  /\ \/ action = "none" /\ UNCHANGED lastEsc
     \/ /\ "unread" \in Disturbances /\ action \in {"stop", "discard"}
        /\ lastEsc' = IF worker.event.nth = lastEsc THEN 0 ELSE lastEsc
  /\ worker' = [worker EXCEPT !.at = "done"]
  /\ UNCHANGED <<daemon, inputs, listener, dispatch, saving, mode, now>>

TriggerEnds ==
  LET started == phase' = "recording" IN
  /\ worker.at = "acting"
  /\ End("worker")
  /\ worker' = [worker EXCEPT !.at = "done", !.toggled = started /\ mode = "toggle"]
  /\ origin' = IF started
               THEN [by |-> mode, nth |-> worker.event.nth, rearmAt |-> now + 1]
               ELSE NoOrigin
  /\ UNCHANGED <<inputs, OutsideDaemon>>

ReportFinished ==
  /\ worker.at = "done"
  /\ events' = Append(events, [kind |-> "finished", toggled |-> worker.toggled,
                               at |-> now])
  /\ worker' = Resting
  /\ UNCHANGED <<gate, actions, listener, daemon, saving, mode, lastEsc, now, inputs>>

(* The tray, the command line or a recorder event. *)
ClientActs ==
  /\ holder = Free
  /\ Input
  /\ \/ phase = "idle" /\ Begin("client", "start")
     \/ phase = "recording" /\ \E action \in {"stop", "discard"} : Begin("client", action)
  /\ UNCHANGED <<worker, origin, OutsideDaemon>>

ClientDone ==
  /\ End("client")
  /\ origin' = IF phase' = "recording"
               THEN [by |-> "client", nth |-> inputs, rearmAt |-> 0] ELSE NoOrigin
  /\ UNCHANGED <<worker, inputs, OutsideDaemon>>

(* The transcription's result is delivered, or the wait for it is cancelled. *)
ProcessingEnds ==
  /\ holder = Free
  /\ phase = "processing"
  /\ phase' = "idle"
  /\ UNCHANGED <<worker, holder, origin, inputs, OutsideDaemon>>

SaveMode ==
  /\ "mode" \in Disturbances
  /\ holder = Free
  /\ Input
  /\ mode' \in {"hold", "toggle"} \ {mode}
  /\ UNCHANGED <<listener, dispatch, worker, daemon, saving, lastEsc, now>>

(* A save that changes the shortcut takes the lock and asks the loop. *)
SaveHotkey ==
  /\ "swap" \in Disturbances
  /\ holder = Free
  /\ Input
  /\ holder' = [who |-> "settings", action |-> "save"]
  /\ saving' = "asked"
  /\ events' = Append(events, Reconfigure)
  /\ UNCHANGED <<gate, actions, listener, worker, phase, origin, mode, lastEsc, now>>

SaveEnds ==
  /\ saving = "answered"
  /\ saving' = "none"
  /\ holder' = Free
  /\ UNCHANGED <<listener, dispatch, worker, phase, origin, mode, lastEsc, now, inputs>>

(* A rearm delay passes. *)
TimePasses ==
  /\ now < MaxTicks
  /\ now' = now + 1
  /\ UNCHANGED <<listener, dispatch, worker, daemon, saving, mode, lastEsc, inputs>>

--------------------------------------------------------------------------------
ListenerSteps ==
  \/ \E k \in Keyboards : KeyDown(k) \/ KeyUp(k) \/ Disconnect(k)
  \/ OtherKey \/ Esc \/ ArmCapture \/ CaptureEnds

LoopSteps ==
  DropSignal \/ DispatchSignal \/ QueueSignal \/ CompleteAction \/ ReconfigureListener

WorkerSteps ==
  TakeAction \/ TriggerBegins \/ TriggerIgnored \/ TriggerEnds \/ ReportFinished

OtherSteps ==
  \/ ClientActs \/ ClientDone \/ ProcessingEnds
  \/ SaveMode \/ SaveHotkey \/ SaveEnds \/ TimePasses

Next == ListenerSteps \/ LoopSteps \/ WorkerSteps \/ OtherSteps

Spec == Init /\ [][Next]_vars

--------------------------------------------------------------------------------
(* Properties *)

(* The reports that are on their way to the loop. *)
Reports(channel) == {i \in DOMAIN channel : channel[i].kind = "finished"}

(* Every accepted signal ends with exactly one report: the gate is in flight
   exactly while one signal is queued, acted on or reported, and never two
   (hotkey_dispatch.rs: "exactly one `ActionFinished` arrives"; the gate would
   otherwise ignore every later press). *)
OneActionInFlight ==
  /\ Len(actions) <= 1
  /\ \A i, j \in Reports(events) : i = j
  /\ actions # <<>> => worker = Resting /\ Reports(events) = {}
  /\ worker # Resting => Reports(events) = {}
  /\ gate.inFlight <=> (actions # <<>> \/ worker # Resting \/ Reports(events) # {})
  /\ gate.pending # NoSignal => gate.inFlight

(* Nothing that was pressed is still on its way. *)
Quiet == events = <<>> /\ actions = <<>> /\ worker = Resting /\ holder = Free

(* Hold-to-talk: once everything has been acted on, a recording the shortcut
   started in hold mode runs only while the chord is held, whatever was
   dropped, queued or coalesced on the way (architecture.md, "Stop"). *)
ReleasedHoldIsOver ==
  Quiet /\ phase = "recording" /\ origin.by = "hold" => tracker.matched

(* An Esc pressed after the press or command a recording came from is never
   lost, even while that start is still on its way (`ignores_cancel`): it ends the
   recording, or its discard was refused. *)
EscapeIsNeverLost ==
  Quiet /\ phase = "recording" => lastEsc <= origin.nth

(* The press that started a toggle recording cannot stop it by bouncing: a
   press stops it only if it was observed a rearm delay after the start
   (TOGGLE_REARM_DELAY, TriggerOutcome::Started). *)
BouncedPressStops ==
  /\ holder = Free /\ holder' = [who |-> "worker", action |-> "stop"]
  /\ worker.event.signal = "pressed" /\ origin.by = "toggle"
  /\ worker.event.at < origin.rearmAt
BouncedPressDoesNotStop == [][~BouncedPressStops]_vars

(* Every thread runs, a command ends, and a thread that wants the daemon lock
   gets it however often others take it before. *)
Fairness ==
  /\ WF_vars(LoopSteps)
  /\ WF_vars(TakeAction) /\ WF_vars(TriggerEnds) /\ WF_vars(ReportFinished)
  /\ SF_vars(TriggerBegins \/ TriggerIgnored)
  /\ WF_vars(ClientDone) /\ WF_vars(SaveEnds)

FairSpec == Spec /\ Fairness

(* The gate always opens again, so a later press is heeded. *)
EveryActionEnds == gate.inFlight ~> ~gate.inFlight

(* A save that changes the shortcut gives the lock back: the dispatch loop it
   waits for never waits for the lock ("The dispatch loop never waits for the
   daemon lock"). *)
SaveGivesTheLockBack == (saving = "asked") ~> (holder.who # "settings")

================================================================================
