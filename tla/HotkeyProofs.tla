----------------------------- MODULE HotkeyProofs -----------------------------
(* Proofs about HotkeyDispatch: its type invariant, that the gate is in flight
   exactly while one action is, that an Esc is never lost, that a hold recording
   ends with its chord, and that the press that started a toggle recording does
   not stop it.                                                               *)
EXTENDS MCHotkeyDispatch, TLAPS

--------------------------------------------------------------------------------
(* The loop's channel *)

(* A message put on the channel leaves the messages before it where they are. *)
LEMMA AppendedMessage ==
  ASSUME NEW channel \in Seq(Messages), NEW message \in Messages
  PROVE  /\ Append(channel, message) \in Seq(Messages)
         /\ message.kind # "finished"
              => Reports(Append(channel, message)) = Reports(channel)
         /\ message.kind = "finished"
              => Reports(Append(channel, message))
                   = Reports(channel) \cup {Len(channel) + 1}
BY DEF Reports

(* The message the loop takes off the channel was the first one. *)
LEMMA TakenMessage ==
  ASSUME NEW channel \in Seq(Messages), channel # <<>>
  PROVE  /\ Head(channel) \in Messages
         /\ Tail(channel) \in Seq(Messages)
         /\ \A i \in Reports(Tail(channel)) : i \in Nat \ {0} /\ i + 1 \in Reports(channel)
         /\ \A i \in Reports(channel) : i \in Nat
         /\ \A i \in Reports(channel) : i # 1 => i - 1 \in Reports(Tail(channel))
         /\ Head(channel).kind = "finished" <=> 1 \in Reports(channel)
BY DEF Reports

(* A report taken off the channel was the only one. *)
LEMMA TakenReport ==
  ASSUME NEW channel \in Seq(Messages), channel # <<>>,
         \A i, j \in Reports(channel) : i = j
  PROVE  /\ \A i, j \in Reports(Tail(channel)) : i = j
         /\ Head(channel).kind = "finished"
              => Reports(channel) # {} /\ Reports(Tail(channel)) = {}
         /\ Head(channel).kind # "finished"
              => (Reports(Tail(channel)) = {} <=> Reports(channel) = {})
<1>1. \A i \in Reports(Tail(channel)) : i \in Nat \ {0} /\ i + 1 \in Reports(channel)
  BY TakenMessage
<1>2. \A i \in Reports(channel) : i \in Nat /\ (i # 1 => i - 1 \in Reports(Tail(channel)))
  BY TakenMessage
<1>3. Head(channel).kind = "finished" <=> 1 \in Reports(channel)
  BY TakenMessage
<1>4. \A i, j \in Reports(Tail(channel)) : i = j
  BY <1>1
<1>5. Head(channel).kind = "finished"
        => Reports(channel) # {} /\ Reports(Tail(channel)) = {}
  BY <1>1, <1>3
<1>6. Head(channel).kind # "finished"
        => (Reports(Tail(channel)) = {} <=> Reports(channel) = {})
  BY <1>1, <1>2, <1>3
<1> QED
  BY <1>4, <1>5, <1>6

--------------------------------------------------------------------------------
(* Types *)

(* Every message on the channel is an event of the loop, every action a signal. *)
THEOREM InitType == Init => TypeOK
<1> SUFFICES ASSUME Init PROVE TypeOK
  OBVIOUS
<1>1. 0 \in 0..MaxInputs /\ 0 \in 0..MaxTicks /\ 0 \in 0..MaxTicks + 1
  BY BoundsAssumption
<1>2. events \in Seq(Messages) /\ actions \in Seq(Signals)
  BY DEF Init
<1>3. /\ tracker \in Trackers(Keyboards)
      /\ gate \in [inFlight : BOOLEAN, pending : Signals \cup {NoSignal},
                   rearmAt : 0..MaxTicks + 1]
  BY <1>1 DEF Init, NewTracker, Trackers, NewGate
<1>4. worker \in [at : {"resting", "taken", "acting", "done"},
                 event : Signals \cup {NoSignal}, toggled : BOOLEAN]
  BY DEF Init, Resting
<1>5. /\ holder \in [who : {"nobody", "worker", "client", "settings"},
                     action : {"none", "start", "stop", "discard", "save"}]
      /\ origin \in [by : {"nothing", "hold", "toggle", "client"},
                     nth : 0..MaxInputs, rearmAt : 0..MaxTicks + 1]
  BY <1>1 DEF Init, Free, NoOrigin
<1> QED
  BY <1>1, <1>2, <1>3, <1>4, <1>5 DEF Init, TypeOK

(* A signal the listener sends is a message, and no report. *)
LEMMA SentSignal ==
  ASSUME TypeOK, inputs < MaxInputs,
         NEW signal \in {"none", "pressed", "released", "cancelled"}, Sends(signal)
  PROVE  /\ events' \in Seq(Messages)
         /\ Reports(events') = Reports(events)
<1>1. CASE signal = "none"
  BY <1>1 DEF Sends, TypeOK
<1>2. CASE signal # "none"
  <2> DEFINE message == [kind |-> "signal", signal |-> signal, at |-> now, nth |-> inputs + 1]
  <2>1. message \in Messages /\ message.kind = "signal"
    BY <1>2, BoundsAssumption DEF Messages, Signals, TypeOK
  <2>2. events' = Append(events, message)
    BY <1>2 DEF Sends
  <2> QED
    BY <2>1, <2>2, AppendedMessage DEF TypeOK
<1> QED
  BY <1>1, <1>2

(* The chord's operators keep a tracker a tracker, and tell a press or a release. *)
LEMMA TrackerType ==
  ASSUME NEW t \in Trackers(Keyboards)
  PROVE  /\ Transition(t) \in Trackers(Keyboards)
         /\ CaptureTransition(t) \in Trackers(Keyboards)
         /\ SwallowUntilRelease(t) \in Trackers(Keyboards)
         /\ NewTracker \in Trackers(Keyboards)
         /\ \A k \in Keyboards : /\ ChordCompletes(t, k) \in Trackers(Keyboards)
                                /\ ChordBreaks(t, k) \in Trackers(Keyboards)
         /\ TransitionSignal(t) \in {"none", "pressed", "released"}
BY DEF Trackers, Transition, CaptureTransition, SwallowUntilRelease, NewTracker,
       ChordCompletes, ChordBreaks, TransitionSignal, Matches

(* What no step of the listener disturbs. *)
LEMMA ListenerStep ==
  ASSUME TypeOK, ListenerSteps
  PROVE  /\ TypeOK'
         /\ Reports(events') = Reports(events)
         /\ UNCHANGED <<gate, actions, worker>>
<1> DEFINE Fine == /\ TypeOK' /\ Reports(events') = Reports(events)
                   /\ UNCHANGED <<gate, actions, worker>>
<1>0. /\ tracker \in Trackers(Keyboards) /\ lastEsc \in 0..MaxInputs
      /\ inputs \in 0..MaxInputs /\ MaxInputs \in Nat
  BY BoundsAssumption DEF TypeOK
<1>1. ASSUME NEW moved \in Trackers(Keyboards), NEW pressed \in BOOLEAN,
             KeyEvent(moved, pressed)
      PROVE  Fine
  <2>1. inputs < MaxInputs /\ inputs' = inputs + 1
    BY <1>1 DEF KeyEvent, Input
  <2>2. tracker' \in Trackers(Keyboards) /\ capturing' \in BOOLEAN
    BY <1>1, TrackerType DEF KeyEvent, TypeOK
  <2>3. events' \in Seq(Messages) /\ Reports(events') = Reports(events)
    BY <1>1, <2>1, TrackerType, SentSignal DEF KeyEvent, TypeOK
  <2> QED
    BY <1>0, <1>1, <2>1, <2>2, <2>3 DEF KeyEvent, OutsideListener, daemon, TypeOK
<1>2. ASSUME NEW k \in Keyboards, KeyDown(k) \/ KeyUp(k)  PROVE Fine
  BY <1>0, <1>1, <1>2, TrackerType DEF KeyDown, KeyUp
<1>3. ASSUME NEW k \in Keyboards, Disconnect(k)  PROVE Fine
  <2>1. inputs < MaxInputs /\ inputs' = inputs + 1
    BY <1>3 DEF Disconnect, Input
  <2>2. tracker' \in Trackers(Keyboards)
    BY <1>0, <1>3, TrackerType DEF Disconnect
  <2>3. events' \in Seq(Messages) /\ Reports(events') = Reports(events)
    BY <1>0, <1>3, <2>1, TrackerType, SentSignal DEF Disconnect
  <2> QED
    BY <1>0, <1>3, <2>1, <2>2, <2>3 DEF Disconnect, OutsideListener, daemon, TypeOK
<1>4. ASSUME OtherKey  PROVE Fine
  BY <1>0, <1>1, <1>4 DEF OtherKey
<1>5. ASSUME Esc  PROVE Fine
  <2>1. inputs < MaxInputs /\ inputs' = inputs + 1
    BY <1>5 DEF Esc, Input
  <2>2. tracker' \in Trackers(Keyboards)
    BY <1>0, <1>5, TrackerType DEF Esc
  <2>3. events' \in Seq(Messages) /\ Reports(events') = Reports(events)
    BY <1>0, <1>5, <2>1, SentSignal DEF Esc
  <2>4. capturing' \in BOOLEAN /\ lastEsc' \in 0..MaxInputs /\ inputs' \in 0..MaxInputs
    <3>1. inputs' \in 0..MaxInputs /\ inputs + 1 \in 0..MaxInputs
      BY <1>0, <2>1
    <3>2. capturing' \in BOOLEAN
      BY <1>5 DEF Esc
    <3>3. lastEsc' = lastEsc \/ lastEsc' = inputs + 1
      BY <1>5 DEF Esc
    <3> QED
      BY <1>0, <3>1, <3>2, <3>3
  <2>5. UNCHANGED <<gate, actions, worker, holder, phase, origin, saving, mode, now>>
    BY <1>5 DEF Esc, OutsideListener, daemon
  <2> QED
    BY <2>2, <2>3, <2>4, <2>5 DEF TypeOK
<1>6. ASSUME ArmCapture \/ CaptureEnds  PROVE Fine
  <2>1. capturing' \in BOOLEAN
    BY <1>6 DEF ArmCapture, CaptureEnds
  <2>2. inputs' = inputs \/ (inputs < MaxInputs /\ inputs' = inputs + 1)
    BY <1>6 DEF ArmCapture, CaptureEnds, Input
  <2>3. inputs' \in 0..MaxInputs
    BY <1>0, <2>2
  <2>4. UNCHANGED <<tracker, events, lastEsc, gate, actions, worker, holder, phase,
                    origin, saving, mode, now>>
    BY <1>6 DEF ArmCapture, CaptureEnds, OutsideListener, daemon
  <2> QED
    BY <2>1, <2>3, <2>4 DEF TypeOK, Reports
<1> QED
  BY <1>2, <1>3, <1>4, <1>5, <1>6 DEF ListenerSteps

--------------------------------------------------------------------------------
(* The dispatch loop *)

(* What kind says of a message. *)
LEMMA MessageKinds ==
  ASSUME NEW message \in Messages
  PROVE  /\ message.kind = "signal" => message \in Signals
         /\ message.kind = "finished" => /\ message.toggled \in BOOLEAN
                                         /\ message.at \in 0..MaxTicks
BY DEF Messages, Signals, ActionFinished, Reconfigure

(* The worker's channel holds at most one action. *)
LEMMA OneAction ==
  ASSUME NEW signal \in Signals
  PROVE  /\ Append(<<>>, signal) \in Seq(Signals)
         /\ Len(Append(<<>>, signal)) <= 1
         /\ Append(<<>>, signal) # <<>>
OBVIOUS

(* The one signal the worker takes leaves its channel empty. *)
LEMMA TakenAction ==
  ASSUME NEW channel \in Seq(Signals), channel # <<>>, Len(channel) <= 1
  PROVE  Head(channel) \in Signals /\ Tail(channel) = <<>>
OBVIOUS

(* The gate's records. *)
Gates == [inFlight : BOOLEAN, pending : Signals \cup {NoSignal},
          rearmAt : 0..MaxTicks + 1]

(* The gate's operators keep it a gate. *)
LEMMA GateType ==
  ASSUME NEW g \in Gates
  PROVE  /\ \A b \in BOOLEAN : [g EXCEPT !.inFlight = b] \in Gates
         /\ \A signal \in Signals : [g EXCEPT !.pending = signal] \in Gates
         /\ \A toggled \in BOOLEAN, at \in 0..MaxTicks : Complete(g, toggled, at) \in Gates
<1>1. \A at \in 0..MaxTicks : at + 1 \in 0..MaxTicks + 1
  BY BoundsAssumption
<1> QED
  BY <1>1 DEF Gates, Complete

(* A step of the loop keeps the gate, the worker and the reports in step. *)
LEMMA LoopStep ==
  ASSUME TypeOK, OneActionInFlight, LoopSteps
  PROVE  TypeOK' /\ OneActionInFlight'
<1> DEFINE Fine == TypeOK' /\ OneActionInFlight'
<1>0. events \in Seq(Messages) /\ actions \in Seq(Signals) /\ gate \in Gates
  BY DEF TypeOK, Gates
<1>1. ASSUME NEW kind \in {"signal", "finished", "reconfigure"}, Receive(kind)
      PROVE  /\ events' \in Seq(Messages)
             /\ Head(events) \in Messages
             /\ Head(events).kind = kind
             /\ \A i, j \in Reports(events') : i = j
             /\ kind = "finished" => Reports(events) # {} /\ Reports(events') = {}
             /\ kind # "finished" => (Reports(events') = {} <=> Reports(events) = {})
  <2>1. events # <<>> /\ Head(events).kind = kind /\ events' = Tail(events)
    BY <1>1 DEF Receive
  <2>2. \A i, j \in Reports(events) : i = j
    BY DEF OneActionInFlight
  <2> QED
    BY <1>0, <2>1, <2>2, TakenMessage, TakenReport
<1>2. ASSUME DropSignal  PROVE Fine
  <2>1. Receive("signal") /\ UNCHANGED <<gate, actions, tracker, capturing, worker, holder,
                              phase, origin, saving, mode, lastEsc, now, inputs>>
    BY <1>2 DEF DropSignal, OutsideDispatch, daemon
  <2>2. TypeOK'
    BY <1>1, <2>1 DEF TypeOK
  <2>3. OneActionInFlight'
    BY <1>1, <2>1 DEF OneActionInFlight
  <2> QED
    BY <2>2, <2>3
<1>3. ASSUME DispatchSignal  PROVE Fine
  <2>1. /\ Receive("signal") /\ ~gate.inFlight
        /\ gate' = [gate EXCEPT !.inFlight = TRUE]
        /\ actions' = Append(actions, Head(events))
        /\ UNCHANGED <<tracker, capturing, worker, holder, phase, origin, saving, mode,
                       lastEsc, now, inputs>>
    BY <1>3 DEF DispatchSignal, Accepts, OutsideDispatch, daemon
  <2>2. /\ actions = <<>> /\ worker = Resting /\ Reports(events) = {}
        /\ gate.pending = NoSignal
    BY <2>1 DEF OneActionInFlight
  <2>3. Head(events) \in Signals
    BY <1>1, <2>1, MessageKinds
  <2>4. actions' \in Seq(Signals) /\ Len(actions') <= 1 /\ actions' # <<>>
    BY <2>1, <2>2, <2>3, OneAction
  <2>5. gate' \in Gates /\ gate'.inFlight /\ gate'.pending = NoSignal
    BY <1>0, <2>1, <2>2, GateType DEF Gates
  <2>6. TypeOK'
    BY <1>1, <2>1, <2>4, <2>5 DEF TypeOK, Gates
  <2>7. OneActionInFlight'
    BY <1>1, <2>1, <2>2, <2>4, <2>5 DEF OneActionInFlight
  <2> QED
    BY <2>6, <2>7
<1>4. ASSUME QueueSignal  PROVE Fine
  <2>1. /\ Receive("signal") /\ gate.inFlight
        /\ gate' = [gate EXCEPT !.pending = Head(events)]
        /\ UNCHANGED <<actions, tracker, capturing, worker, holder, phase, origin, saving,
                       mode, lastEsc, now, inputs>>
    BY <1>4 DEF QueueSignal, Queues, OutsideDispatch, daemon
  <2>2. Head(events) \in Signals
    BY <1>1, <2>1, MessageKinds
  <2>3. gate' \in Gates /\ gate'.inFlight
    BY <1>0, <2>1, <2>2, GateType DEF Gates
  <2>4. TypeOK'
    BY <1>1, <2>1, <2>3 DEF TypeOK, Gates
  <2>5. OneActionInFlight'
    BY <1>1, <2>1, <2>3 DEF OneActionInFlight
  <2> QED
    BY <2>4, <2>5
<1>5. ASSUME CompleteAction  PROVE Fine
  <2> DEFINE event == Head(events)
  <2>1. /\ Receive("finished")
        /\ gate' = Complete(gate, event.toggled, event.at)
        /\ actions' = IF gate.pending = NoSignal THEN actions
                      ELSE Append(actions, gate.pending)
        /\ UNCHANGED <<tracker, capturing, worker, holder, phase, origin, saving, mode,
                       lastEsc, now, inputs>>
    BY <1>5 DEF CompleteAction, OutsideDispatch, daemon
  <2>2. event.toggled \in BOOLEAN /\ event.at \in 0..MaxTicks
    BY <1>1, <2>1, MessageKinds
  <2>3. actions = <<>> /\ worker = Resting /\ Reports(events') = {}
    BY <1>1, <2>1 DEF OneActionInFlight
  <2>4. /\ gate' \in Gates /\ gate'.pending = NoSignal
        /\ gate'.inFlight <=> gate.pending # NoSignal
    BY <1>0, <2>1, <2>2, GateType DEF Complete
  <2>5. /\ actions' \in Seq(Signals) /\ Len(actions') <= 1
        /\ actions' # <<>> <=> gate.pending # NoSignal
    BY <1>0, <2>1, <2>3, OneAction DEF Gates
  <2>6. TypeOK'
    BY <1>1, <2>1, <2>4, <2>5 DEF TypeOK, Gates
  <2>7. OneActionInFlight'
    BY <1>1, <2>1, <2>3, <2>4, <2>5 DEF OneActionInFlight
  <2> QED
    BY <2>6, <2>7
<1>6. ASSUME ReconfigureListener  PROVE Fine
  <2>1. /\ Receive("reconfigure") /\ tracker' \in {tracker, NewTracker}
        /\ saving' = "answered"
        /\ UNCHANGED <<gate, actions, capturing, worker, holder, phase, origin, mode,
                       lastEsc, now, inputs>>
    BY <1>6 DEF ReconfigureListener, daemon
  <2>2. tracker' \in Trackers(Keyboards)
    BY <2>1, TrackerType DEF TypeOK
  <2>3. TypeOK'
    BY <1>1, <2>1, <2>2 DEF TypeOK
  <2>4. OneActionInFlight'
    BY <1>1, <2>1 DEF OneActionInFlight
  <2> QED
    BY <2>3, <2>4
<1> QED
  BY <1>2, <1>3, <1>4, <1>5, <1>6 DEF LoopSteps

--------------------------------------------------------------------------------
(* The action worker *)

(* What the worker may be at. *)
Workers == [at : {"resting", "taken", "acting", "done"},
            event : Signals \cup {NoSignal}, toggled : BOOLEAN]

(* The lock's holder and the action it is held for. *)
Holders == [who : {"nobody", "worker", "client", "settings"},
            action : {"none", "start", "stop", "discard", "save"}]

(* The workflow's phases. *)
Phases == {"idle", "starting", "recording", "stopping", "processing"}

(* What a recording came from. *)
Origins == [by : {"nothing", "hold", "toggle", "client"},
            nth : 0..MaxInputs, rearmAt : 0..MaxTicks + 1]

(* The halves of a command leave a holder and a phase. *)
LEMMA CommandType ==
  ASSUME TypeOK, NEW who \in {"worker", "client"},
         \/ \E action \in {"start", "stop", "discard"} : Begin(who, action)
         \/ End(who)
  PROVE  holder' \in Holders /\ phase' \in Phases
<1>1. ASSUME NEW action \in {"start", "stop", "discard"}, Begin(who, action)
      PROVE  holder' \in Holders /\ phase' \in Phases
  BY <1>1 DEF Begin, TypeOK, Holders, Phases
<1>2. CASE End(who)
  BY <1>2 DEF End, Ends, Free, Holders, Phases
<1> QED
  BY <1>1, <1>2

(* Each way to begin a recording gives an origin. *)
LEMMA OriginType ==
  /\ NoOrigin \in Origins
  /\ \A by \in {"hold", "toggle"}, nth \in 0..MaxInputs, at \in 0..MaxTicks :
       [by |-> by, nth |-> nth, rearmAt |-> at + 1] \in Origins
  /\ \A nth \in 0..MaxInputs : [by |-> "client", nth |-> nth, rearmAt |-> 0] \in Origins
<1>1. 0 \in 0..MaxInputs /\ 0 \in 0..MaxTicks + 1
  BY BoundsAssumption
<1>2. \A at \in 0..MaxTicks : at + 1 \in 0..MaxTicks + 1
  BY BoundsAssumption
<1> QED
  BY <1>1, <1>2 DEF NoOrigin, Origins

(* The worker takes one signal and reports it once. *)
LEMMA WorkerStep ==
  ASSUME TypeOK, OneActionInFlight, WorkerSteps
  PROVE  TypeOK' /\ OneActionInFlight'
<1> DEFINE Fine == TypeOK' /\ OneActionInFlight'
<1>0. /\ worker \in Workers /\ holder \in Holders /\ origin \in Origins /\ phase \in Phases
      /\ actions \in Seq(Signals) /\ events \in Seq(Messages)
      /\ mode \in {"hold", "toggle"} /\ now \in 0..MaxTicks
  BY DEF TypeOK, Workers, Holders, Origins, Phases
<1>1. Resting \in Workers /\ Resting.at = "resting"
  BY DEF Resting, Workers
<1>2. ASSUME TakeAction  PROVE Fine
  <2>1. /\ worker = Resting /\ actions # <<>> /\ actions' = Tail(actions)
        /\ worker' = [Resting EXCEPT !.at = "taken", !.event = Head(actions)]
        /\ UNCHANGED <<events, gate, tracker, capturing, holder, phase, origin, saving,
                       mode, lastEsc, now, inputs>>
    BY <1>2 DEF TakeAction, listener, daemon
  <2>2. Head(actions) \in Signals /\ actions' = <<>>
    BY <1>0, <2>1, TakenAction DEF OneActionInFlight
  <2>3. worker' \in Workers /\ worker'.at = "taken"
    BY <1>1, <2>1, <2>2 DEF Workers
  <2>4. gate.inFlight /\ Reports(events') = {} /\ worker' # Resting
    BY <1>1, <2>1, <2>3 DEF OneActionInFlight
  <2>5. TypeOK'
    BY <2>1, <2>2, <2>3 DEF TypeOK, Workers
  <2>6. OneActionInFlight'
    BY <2>1, <2>2, <2>4 DEF OneActionInFlight
  <2> QED
    BY <2>5, <2>6
<1>3. ASSUME worker # Resting, worker' # Resting, worker' \in Workers,
             holder' \in Holders, phase' \in Phases, origin' \in Origins,
             UNCHANGED <<events, gate, actions, tracker, capturing, saving, mode,
                         lastEsc, now, inputs>>
      PROVE  Fine
  BY <1>3 DEF TypeOK, OneActionInFlight, Workers, Holders, Phases, Origins
<1>4. ASSUME TriggerBegins  PROVE Fine
  <2> DEFINE action == LifecycleAction(worker.event.signal)
  <2>1. /\ worker.at = "taken" /\ worker' = [worker EXCEPT !.at = "acting"]
        /\ action # "none" /\ Begin("worker", action)
        /\ UNCHANGED <<origin, inputs, events, gate, actions, tracker, capturing, saving,
                       mode, lastEsc, now>>
    BY <1>4 DEF TriggerBegins, OutsideDaemon, listener, dispatch
  <2>2. action \in {"start", "stop", "discard"}
    BY <2>1 DEF LifecycleAction
  <2>3. holder' \in Holders /\ phase' \in Phases
    BY <2>1, <2>2, CommandType
  <2>4. worker' \in Workers /\ worker'.at = "acting"
    BY <1>0, <2>1 DEF Workers
  <2> QED
    BY <1>0, <1>1, <1>3, <2>1, <2>3, <2>4
<1>5. ASSUME TriggerIgnored  PROVE Fine
  <2>1. /\ worker.at = "taken" /\ worker' = [worker EXCEPT !.at = "done"]
        /\ UNCHANGED <<origin, holder, phase, inputs, events, gate, actions, tracker,
                       capturing, saving, mode, now>>
    BY <1>5 DEF TriggerIgnored, listener, dispatch, daemon
  <2>2. worker' \in Workers /\ worker'.at = "done"
    BY <1>0, <2>1 DEF Workers
  <2>3. lastEsc' \in {0, lastEsc}
    BY <1>5 DEF TriggerIgnored
  <2>4. lastEsc' \in 0..MaxInputs
    BY <2>3, BoundsAssumption DEF TypeOK
  <2>5. worker # Resting /\ worker' # Resting
    BY <1>1, <2>1, <2>2
  <2>6. OneActionInFlight'
    BY <2>1, <2>5 DEF OneActionInFlight
  <2>7. TypeOK'
    BY <2>1, <2>2, <2>4 DEF TypeOK, Workers
  <2> QED
    BY <2>6, <2>7
<1>6. ASSUME TriggerEnds  PROVE Fine
  <2>1. /\ worker.at = "acting" /\ End("worker")
        /\ worker' = [worker EXCEPT !.at = "done",
                                    !.toggled = (phase' = "recording") /\ mode = "toggle"]
        /\ \/ origin' = [by |-> mode, nth |-> worker.event.nth, rearmAt |-> now + 1]
           \/ origin' = NoOrigin
        /\ UNCHANGED <<inputs, events, gate, actions, tracker, capturing, saving, mode,
                       lastEsc, now>>
    BY <1>6 DEF TriggerEnds, OutsideDaemon, listener, dispatch
  <2>2. worker' \in Workers /\ worker'.at = "done"
    BY <1>0, <2>1 DEF Workers
  <2>3. worker.event.nth \in 0..MaxInputs
    BY <1>0, BoundsAssumption DEF Workers, Signals, NoSignal
  <2>4. origin' \in Origins
    BY <1>0, <2>1, <2>3, OriginType
  <2>5. holder' \in Holders /\ phase' \in Phases
    BY <2>1, CommandType
  <2> QED
    BY <1>1, <1>3, <2>1, <2>2, <2>4, <2>5
<1>7. ASSUME ReportFinished  PROVE Fine
  <2> DEFINE report == [kind |-> "finished", toggled |-> worker.toggled, at |-> now]
  <2>1. /\ worker.at = "done" /\ events' = Append(events, report) /\ worker' = Resting
        /\ UNCHANGED <<gate, actions, tracker, capturing, holder, phase, origin, saving,
                       mode, lastEsc, now, inputs>>
    BY <1>7 DEF ReportFinished, listener, daemon
  <2>2. report \in Messages /\ report.kind = "finished"
    BY <1>0 DEF Workers, Messages, ActionFinished
  <2>3. events' \in Seq(Messages) /\ Reports(events') = Reports(events) \cup {Len(events) + 1}
    BY <1>0, <2>1, <2>2, AppendedMessage
  <2>4. actions = <<>> /\ Reports(events) = {} /\ gate.inFlight
    BY <1>1, <2>1 DEF OneActionInFlight
  <2>5. TypeOK'
    BY <1>1, <2>1, <2>3 DEF TypeOK, Workers
  <2>6. OneActionInFlight'
    BY <2>1, <2>3, <2>4 DEF OneActionInFlight
  <2> QED
    BY <2>5, <2>6
<1> QED
  BY <1>2, <1>4, <1>5, <1>6, <1>7 DEF WorkerSteps

--------------------------------------------------------------------------------
(* Everything else *)

(* Clients, settings and time leave the reports, the gate and the worker alone. *)
LEMMA OtherStep ==
  ASSUME TypeOK, OtherSteps
  PROVE  /\ TypeOK'
         /\ Reports(events') = Reports(events)
         /\ UNCHANGED <<gate, actions, worker>>
<1> DEFINE Fine == /\ TypeOK' /\ Reports(events') = Reports(events)
                   /\ UNCHANGED <<gate, actions, worker>>
<1>0. /\ holder \in Holders /\ origin \in Origins /\ phase \in Phases
      /\ events \in Seq(Messages) /\ now \in 0..MaxTicks
      /\ inputs \in 0..MaxInputs /\ MaxInputs \in Nat /\ MaxTicks \in Nat
  BY BoundsAssumption DEF TypeOK, Holders, Origins, Phases
<1>1. ASSUME Input  PROVE inputs' \in 0..MaxInputs
  BY <1>0, <1>1 DEF Input
<1>2. ASSUME ClientActs  PROVE Fine
  <2>1. /\ Input
        /\ \E action \in {"start", "stop", "discard"} : Begin("client", action)
        /\ UNCHANGED <<worker, origin, events, gate, actions, tracker, capturing, saving,
                       mode, lastEsc, now>>
    BY <1>2 DEF ClientActs, OutsideDaemon, listener, dispatch
  <2>2. holder' \in Holders /\ phase' \in Phases
    BY <2>1, CommandType
  <2> QED
    BY <1>1, <2>1, <2>2 DEF TypeOK, Holders, Phases
<1>3. ASSUME ClientDone  PROVE Fine
  <2>1. /\ End("client")
        /\ \/ origin' = [by |-> "client", nth |-> inputs, rearmAt |-> 0]
           \/ origin' = NoOrigin
        /\ UNCHANGED <<worker, inputs, events, gate, actions, tracker, capturing, saving,
                       mode, lastEsc, now>>
    BY <1>3 DEF ClientDone, OutsideDaemon, listener, dispatch
  <2>2. holder' \in Holders /\ phase' \in Phases
    BY <2>1, CommandType
  <2>3. origin' \in Origins
    BY <1>0, <2>1, OriginType
  <2> QED
    BY <2>1, <2>2, <2>3 DEF TypeOK, Holders, Phases, Origins
<1>4. ASSUME ProcessingEnds  PROVE Fine
  <2>1. /\ phase' = "idle"
        /\ UNCHANGED <<worker, holder, origin, inputs, events, gate, actions, tracker,
                       capturing, saving, mode, lastEsc, now>>
    BY <1>4 DEF ProcessingEnds, OutsideDaemon, listener, dispatch
  <2> QED
    BY <2>1 DEF TypeOK
<1>5. ASSUME SaveMode  PROVE Fine
  <2>1. /\ Input /\ mode' \in {"hold", "toggle"}
        /\ UNCHANGED <<worker, holder, phase, origin, events, gate, actions, tracker,
                       capturing, saving, lastEsc, now>>
    BY <1>5 DEF SaveMode, listener, dispatch, daemon
  <2> QED
    BY <1>1, <2>1 DEF TypeOK
<1>6. ASSUME SaveHotkey  PROVE Fine
  <2>1. /\ Input /\ holder' = [who |-> "settings", action |-> "save"]
        /\ saving' = "asked" /\ events' = Append(events, Reconfigure)
        /\ UNCHANGED <<gate, actions, worker, tracker, capturing, phase, origin, mode,
                       lastEsc, now>>
    BY <1>6 DEF SaveHotkey, listener
  <2>2. Reconfigure \in Messages /\ Reconfigure.kind # "finished"
    BY DEF Messages, Reconfigure
  <2>3. events' \in Seq(Messages) /\ Reports(events') = Reports(events)
    BY <1>0, <2>1, <2>2, AppendedMessage
  <2>4. holder' \in Holders
    BY <2>1 DEF Holders
  <2> QED
    BY <1>1, <2>1, <2>3, <2>4 DEF TypeOK, Holders
<1>7. ASSUME SaveEnds  PROVE Fine
  <2>1. /\ saving' = "none" /\ holder' = Free
        /\ UNCHANGED <<worker, phase, origin, events, gate, actions, tracker, capturing,
                       mode, lastEsc, now, inputs>>
    BY <1>7 DEF SaveEnds, listener, dispatch
  <2>2. holder' \in Holders
    BY <2>1 DEF Free, Holders
  <2> QED
    BY <2>1, <2>2 DEF TypeOK, Holders
<1>8. ASSUME TimePasses  PROVE Fine
  <2>1. /\ now < MaxTicks /\ now' = now + 1
        /\ UNCHANGED <<worker, holder, phase, origin, events, gate, actions, tracker,
                       capturing, saving, mode, lastEsc, inputs>>
    BY <1>8 DEF TimePasses, listener, dispatch, daemon
  <2>2. now' \in 0..MaxTicks
    BY <1>0, <2>1
  <2> QED
    BY <2>1, <2>2 DEF TypeOK
<1> QED
  BY <1>2, <1>3, <1>4, <1>5, <1>6, <1>7, <1>8 DEF OtherSteps

--------------------------------------------------------------------------------
(* The two invariants *)

(* They are inductive together: what is in flight decides what may be taken,
   and the types say what a message is. *)
LEMMA Preserved ==
  ASSUME TypeOK, OneActionInFlight, [Next]_vars
  PROVE  TypeOK' /\ OneActionInFlight'
<1>1. ASSUME TypeOK', Reports(events') = Reports(events), UNCHANGED <<gate, actions, worker>>
      PROVE  OneActionInFlight'
  BY <1>1 DEF OneActionInFlight
<1>2. CASE ListenerSteps
  BY <1>1, <1>2, ListenerStep
<1>3. CASE LoopSteps
  BY <1>3, LoopStep
<1>4. CASE WorkerSteps
  BY <1>4, WorkerStep
<1>5. CASE OtherSteps
  BY <1>1, <1>5, OtherStep
<1>6. CASE UNCHANGED vars
  <2>1. UNCHANGED <<tracker, capturing, events, gate, actions, worker, holder, saving,
                    phase, mode, origin, lastEsc, now, inputs>>
    BY <1>6 DEF vars
  <2> QED
    BY <2>1 DEF TypeOK, OneActionInFlight
<1> QED
  BY <1>2, <1>3, <1>4, <1>5, <1>6 DEF Next

(* At first nothing is in flight. *)
LEMMA InitInFlight == Init => OneActionInFlight
BY DEF Init, OneActionInFlight, NewGate, Reports

(* The channels, the gate and the worker keep their types. *)
THEOREM TypeCorrect == Spec => []TypeOK
<1>1. TypeOK /\ OneActionInFlight /\ [Next]_vars => TypeOK' /\ OneActionInFlight'
  BY Preserved
<1> QED
  BY <1>1, InitType, InitInFlight, PTL DEF Spec

(* Whatever the keys, the clients and the settings do, the gate is in flight
   exactly while one accepted signal is queued, acted on or reported. *)
THEOREM OneActionAtATime == Spec => []OneActionInFlight
<1>1. TypeOK /\ OneActionInFlight /\ [Next]_vars => TypeOK' /\ OneActionInFlight'
  BY Preserved
<1> QED
  BY <1>1, InitType, InitInFlight, PTL DEF Spec

--------------------------------------------------------------------------------
(* Escape *)

(* The i-th message is a signal. *)
SignalAt(i) == events[i].kind = "signal"

(* The listener's signals keep their order, from its channel through the gate to the worker. *)
InOrder ==
  /\ \A i, j \in 1..Len(events) : i < j /\ SignalAt(i) /\ SignalAt(j) => events[i].nth < events[j].nth
  /\ \A i \in 1..Len(events) : SignalAt(i) =>
       /\ gate.pending.nth < events[i].nth /\ worker.event.nth < events[i].nth
       /\ \A k \in 1..Len(actions) : actions[k].nth < events[i].nth
       /\ events[i].nth <= inputs
  /\ gate.pending.nth <= inputs /\ worker.event.nth <= inputs
  /\ \A k \in 1..Len(actions) : actions[k].nth <= inputs
  /\ gate.pending # NoSignal =>
       /\ worker.event.nth < gate.pending.nth
       /\ \A k \in 1..Len(actions) : actions[k].nth < gate.pending.nth

(* No later Esc is on its way than the last one, but for one that was refused. *)
NewestEsc ==
  /\ lastEsc <= inputs
  /\ \A i \in 1..Len(events) :
       SignalAt(i) /\ events[i].signal = "cancelled" => lastEsc = 0 \/ events[i].nth <= lastEsc

(* The worker acts under the lock, as its signal says. *)
HolderActs ==
  worker.at = "acting" =>
    /\ holder.who = "worker"
    /\ worker.event.signal = "cancelled" => holder.action = "discard"
    /\ holder.action = "start" => worker.event.signal = "pressed"

(* A save that waits for the loop has the lock, and asked for one reconfiguration. *)
SaveWaits ==
  /\ saving # "none" => holder.who = "settings"
  /\ \A i \in 1..Len(events) : events[i].kind = "reconfigure" => saving = "asked"
  /\ \A i, j \in 1..Len(events) :
       events[i].kind = "reconfigure" /\ events[j].kind = "reconfigure" => i = j

(* The signal is the last Esc. *)
IsEsc(signal) == signal.signal = "cancelled" /\ signal.nth = lastEsc

(* The last Esc is in a channel, in the gate or with the worker before it is done with. *)
EscOnItsWay ==
  \/ \E i \in 1..Len(events) : SignalAt(i) /\ IsEsc(events[i])
  \/ IsEsc(gate.pending)
  \/ \E k \in 1..Len(actions) : IsEsc(actions[k])
  \/ worker.at \in {"taken", "acting"} /\ IsEsc(worker.event)

(* A press that came after the last Esc. *)
StartsLater(signal) == signal.signal = "pressed" => lastEsc < signal.nth

(* The last Esc has ended every recording that began before it, and every press on its
   way came after it. *)
EscActedOn ==
  /\ phase = "recording" => lastEsc <= origin.nth
  /\ \A i \in 1..Len(events) : SignalAt(i) => StartsLater(events[i])
  /\ StartsLater(gate.pending)
  /\ \A k \in 1..Len(actions) : StartsLater(actions[k])
  /\ worker.at \in {"taken", "acting"} => StartsLater(worker.event)

(* There is no Esc to act on, or it is on its way, or it has been acted on. *)
EscAccounted == lastEsc = 0 \/ EscOnItsWay \/ EscActedOn

(* The inductive invariant of EscapeIsNeverLost: the signals' order tells which presses
   an Esc on its way must still cancel. *)
EscInv == InOrder /\ NewestEsc /\ HolderActs /\ SaveWaits /\ EscAccounted

(* At first there has been no Esc. *)
LEMMA EscInvInit == Init => EscInv
<1> HAVE Init
<1>1. /\ events = <<>> /\ actions = <<>> /\ gate.pending = NoSignal /\ worker = Resting /\ worker.at = "resting"
      /\ worker.event = NoSignal /\ saving = "none" /\ lastEsc = 0 /\ inputs = 0
  BY DEF Init, NewGate, Resting
<1>2. Len(events) = 0 /\ Len(actions) = 0 /\ NoSignal.nth = 0
  BY <1>1 DEF NoSignal
<1>3. InOrder /\ NewestEsc
  BY <1>1, <1>2 DEF InOrder, NewestEsc
<1>4. HolderActs /\ SaveWaits /\ EscAccounted
  BY <1>1, <1>2 DEF HolderActs, SaveWaits, EscAccounted
<1>5. QED
  BY <1>3, <1>4 DEF EscInv

(* The numbers and kinds of the signals on their way. *)
LEMMA SignalFields ==
  ASSUME TypeOK
  PROVE  /\ events \in Seq(Messages) /\ actions \in Seq(Signals) /\ Len(events) \in Nat /\ Len(actions) \in Nat
         /\ \A i \in 1..Len(events) : SignalAt(i) => events[i].nth \in Nat
         /\ gate.pending.nth \in Nat /\ worker.event.nth \in Nat /\ NoSignal.nth = 0 /\ NoSignal.signal = "none"
         /\ \A k \in 1..Len(actions) : actions[k].nth \in Nat
         /\ lastEsc \in Nat /\ inputs \in Nat /\ origin.nth \in Nat
<1>1. \A signal \in Signals : signal.nth \in Nat
  BY BoundsAssumption DEF Signals
<1>2. NoSignal.nth = 0 /\ NoSignal.signal = "none"
  BY DEF NoSignal
<1>3. gate.pending \in Signals \cup {NoSignal} /\ worker.event \in Signals \cup {NoSignal}
  BY DEF TypeOK
<1>4. events \in Seq(Messages) /\ actions \in Seq(Signals) /\ Len(events) \in Nat /\ Len(actions) \in Nat
  BY DEF TypeOK
<1>5. \A i \in 1..Len(events) : SignalAt(i) => events[i] \in Signals
  BY <1>4, MessageKinds DEF SignalAt
<1>6. lastEsc \in Nat /\ inputs \in Nat /\ origin.nth \in Nat
  BY BoundsAssumption DEF TypeOK
<1>7. QED
  BY <1>1, <1>2, <1>3, <1>4, <1>5, <1>6

(* The messages of a channel that one was put on, or taken off. *)
LEMMA ChannelAppended ==
  ASSUME events \in Seq(Messages), NEW message \in Messages, events' = Append(events, message)
  PROVE  /\ Len(events') = Len(events) + 1 /\ events'[Len(events) + 1] = message
         /\ \A i \in 1..Len(events) : events'[i] = events[i]
OBVIOUS

(* The rest of a channel whose first message was taken. *)
LEMMA ChannelTaken ==
  ASSUME events \in Seq(Messages), events # <<>>, events' = Tail(events)
  PROVE  /\ Len(events) >= 1 /\ Len(events') = Len(events) - 1 /\ Head(events) = events[1]
         /\ \A i \in 1..Len(events') : events'[i] = events[i + 1] /\ i + 1 \in 1..Len(events)
OBVIOUS

(* An Esc that was not the first message is on its way when that one was taken. *)
LEMMA StillOnItsWay ==
  ASSUME events \in Seq(Messages), events # <<>>, events' = Tail(events), UNCHANGED lastEsc,
         NEW i \in 1..Len(events), i # 1, SignalAt(i), IsEsc(events[i])
  PROVE  EscAccounted'
<1>1. /\ Len(events') = Len(events) - 1
      /\ \A j \in 1..Len(events') : events'[j] = events[j + 1] /\ j + 1 \in 1..Len(events)
  BY ChannelTaken
<1>2. PICK j \in 1..Len(events') : j + 1 = i
  <2>1. i - 1 \in 1..Len(events') /\ (i - 1) + 1 = i
    BY <1>1
  <2>2. QED
    BY <2>1
<1>3. events'[j] = events[i]
  BY <1>1, <1>2
<1>4. events'[j].kind = "signal" /\ events'[j].signal = "cancelled" /\ events'[j].nth = lastEsc'
  BY <1>3 DEF SignalAt, IsEsc
<1>5. QED
  BY <1>4 DEF EscAccounted, EscOnItsWay, SignalAt, IsEsc

(* The signals behind the one that is taken are later. *)
LEMMA LaterThanFirst ==
  ASSUME EscInv, events \in Seq(Messages), events # <<>>, events' = Tail(events), SignalAt(1),
         NEW i \in 1..Len(events'), SignalAt(i)'
  PROVE  events[1].nth < events'[i].nth
<1>1. /\ Len(events) >= 1 /\ Len(events') = Len(events) - 1
      /\ events'[i] = events[i + 1] /\ i + 1 \in 1..Len(events)
  BY ChannelTaken
<1>2. 1 < i + 1 /\ 1 \in 1..Len(events) /\ SignalAt(i + 1)
  BY <1>1 DEF SignalAt
<1>3. events[1].nth < events[i + 1].nth
  BY <1>1, <1>2 DEF EscInv, InOrder
<1>4. QED
  BY <1>1, <1>3

(* What an Esc that the daemon is done with leaves on its way came after it. *)
LEMMA EscLeavesLater ==
  ASSUME TypeOK, OneActionInFlight, EscInv, IsEsc(worker.event), worker # Resting
  PROVE  /\ \A i \in 1..Len(events) : SignalAt(i) => lastEsc < events[i].nth
         /\ gate.pending # NoSignal => lastEsc < gate.pending.nth
         /\ actions = <<>>
<1>1. worker.event.nth = lastEsc
  BY DEF IsEsc
<1>2. \A i \in 1..Len(events) : SignalAt(i) => worker.event.nth < events[i].nth
  BY DEF EscInv, InOrder
<1>3. gate.pending # NoSignal => worker.event.nth < gate.pending.nth
  BY DEF EscInv, InOrder
<1>4. actions = <<>>
  BY DEF OneActionInFlight
<1>5. QED
  BY <1>1, <1>2, <1>3, <1>4

(* A key event sends its signal behind the others; an Esc is the last one from then on. *)
LEMMA KeysKeepEsc ==
  ASSUME TypeOK, EscInv, ListenerSteps
  PROVE  EscInv'
<1>0. /\ events \in Seq(Messages) /\ Len(events) \in Nat
      /\ \A i \in 1..Len(events) : SignalAt(i) => events[i].nth \in Nat
      /\ gate.pending.nth \in Nat /\ worker.event.nth \in Nat
      /\ \A k \in 1..Len(actions) : actions[k].nth \in Nat
      /\ lastEsc \in Nat /\ inputs \in Nat /\ now \in 0..MaxTicks /\ inputs \in 0..MaxInputs
  BY SignalFields DEF TypeOK
<1>1. UNCHANGED <<gate, actions, worker, holder, saving, phase, origin>>
  BY DEF ListenerSteps, KeyDown, KeyUp, Disconnect, OtherKey, KeyEvent, Esc, ArmCapture, CaptureEnds,
         OutsideListener, daemon
<1>2. CASE UNCHANGED <<events, lastEsc>> /\ inputs' \in {inputs, inputs + 1}
  <2>1. inputs <= inputs'
    BY <1>0, <1>2
  <2>2. InOrder' /\ NewestEsc'
    <3>1. /\ \A i \in 1..Len(events) : SignalAt(i) => events[i].nth <= inputs'
          /\ gate.pending.nth <= inputs' /\ worker.event.nth <= inputs' /\ lastEsc <= inputs'
          /\ \A k \in 1..Len(actions) : actions[k].nth <= inputs'
      BY <1>0, <1>2, SMTT(30) DEF EscInv, InOrder, NewestEsc
    <3>2. InOrder'
      BY <1>1, <1>2, <3>1 DEF EscInv, InOrder, SignalAt
    <3>3. NewestEsc'
      BY <1>2, <3>1 DEF EscInv, NewestEsc, SignalAt
    <3>4. QED
      BY <3>2, <3>3
  <2>3. HolderActs' /\ SaveWaits' /\ EscAccounted'
    BY <1>1, <1>2 DEF EscInv, HolderActs, SaveWaits, EscAccounted, EscOnItsWay, EscActedOn, IsEsc, StartsLater,
       SignalAt
  <2>4. QED
    BY <2>2, <2>3 DEF EscInv
<1>3. ASSUME NEW signal \in {"pressed", "released", "cancelled"}, inputs < MaxInputs, inputs' = inputs + 1,
             events' = Append(events, [kind |-> "signal", signal |-> signal, at |-> now, nth |-> inputs + 1]),
             lastEsc' = IF signal = "cancelled" THEN inputs + 1 ELSE lastEsc
      PROVE  EscInv'
  <2> DEFINE message == [kind |-> "signal", signal |-> signal, at |-> now, nth |-> inputs + 1]
  <2>1. /\ message \in Messages /\ message.kind = "signal" /\ message.nth = inputs + 1 /\ message.signal = signal
    BY <1>0, <1>3, BoundsAssumption DEF Messages, Signals
  <2> HIDE DEF message
  <2>2. /\ Len(events') = Len(events) + 1 /\ events'[Len(events) + 1] = message
        /\ \A i \in 1..Len(events) : events'[i] = events[i]
    BY <1>0, <1>3, <2>1, ChannelAppended DEF message
  <2>3. InOrder'
    <3>1. \A i, j \in 1..Len(events') :
            i < j /\ SignalAt(i)' /\ SignalAt(j)' => events'[i].nth < events'[j].nth
      <4>1. PICK n \in Nat : n = Len(events)
        BY <1>0
      <4>2. /\ \A i \in 1..n : (SignalAt(i)' <=> SignalAt(i)) /\ events'[i] = events[i]
            /\ events'[n + 1].nth = inputs + 1
        BY <2>1, <2>2, <4>1 DEF SignalAt
      <4>3. \A i \in 1..n : SignalAt(i) => events[i].nth \in Nat /\ events[i].nth <= inputs
        BY <1>0, <4>1 DEF EscInv, InOrder, Messages, Signals
      <4>4. \A i, j \in 1..n : i < j /\ SignalAt(i) /\ SignalAt(j) => events[i].nth < events[j].nth
        BY <4>1 DEF EscInv, InOrder
      <4>5. \A i, j \in 1..n + 1 : i < j => i \in 1..n /\ (j \in 1..n \/ j = n + 1)
        BY <4>1
      <4>6. inputs \in Nat
        BY <1>0
      <4>7. \A i, j \in 1..n + 1 :
              i < j /\ SignalAt(i)' /\ SignalAt(j)' => events'[i].nth < events'[j].nth
        BY <4>2, <4>3, <4>4, <4>5, <4>6
      <4>8. QED
        BY <2>2, <4>1, <4>7
    <3>2. \A i \in 1..Len(events') : SignalAt(i)' =>
            /\ gate.pending.nth < events'[i].nth /\ worker.event.nth < events'[i].nth
            /\ \A k \in 1..Len(actions) : actions[k].nth < events'[i].nth
            /\ events'[i].nth <= inputs'
      <4>1. /\ gate.pending.nth <= inputs /\ worker.event.nth <= inputs
            /\ \A k \in 1..Len(actions) : actions[k].nth <= inputs
        BY DEF EscInv, InOrder
      <4>2. QED
        BY <1>0, <1>3, <2>1, <2>2, <4>1 DEF EscInv, InOrder, SignalAt
    <3>3. /\ gate.pending.nth <= inputs' /\ worker.event.nth <= inputs'
          /\ \A k \in 1..Len(actions) : actions[k].nth <= inputs'
      BY <1>0, <1>3 DEF EscInv, InOrder
    <3>4. QED
      BY <1>1, <3>1, <3>2, <3>3 DEF EscInv, InOrder
  <2>4. NewestEsc'
    BY <1>0, <1>3, <2>1, <2>2 DEF EscInv, InOrder, NewestEsc, SignalAt
  <2>5. HolderActs' /\ SaveWaits'
    <3>1. \A i \in 1..Len(events') :
            events'[i].kind = "reconfigure" => i \in 1..Len(events) /\ events[i].kind = "reconfigure"
      BY <1>0, <2>1, <2>2
    <3>2. SaveWaits'
      BY <1>1, <3>1 DEF EscInv, SaveWaits
    <3>3. QED
      BY <1>1, <3>2 DEF EscInv, HolderActs
  <2>6. EscAccounted'
    <3>1. CASE signal = "cancelled"
      <4>1. PICK n \in 1..Len(events') : n = Len(events) + 1
        BY <1>0, <2>2
      <4>2. events'[n].kind = "signal" /\ events'[n].signal = "cancelled" /\ events'[n].nth = lastEsc'
        BY <1>3, <2>1, <2>2, <3>1, <4>1
      <4>3. QED
        BY <4>2 DEF EscAccounted, EscOnItsWay, SignalAt, IsEsc
    <3>2. CASE signal # "cancelled"
      <4>1. CASE EscOnItsWay
        BY <1>0, <1>1, <1>3, <2>2, <3>2, <4>1 DEF EscAccounted, EscOnItsWay, IsEsc, SignalAt
      <4>2. CASE EscActedOn
        BY <1>0, <1>1, <1>3, <2>1, <2>2, <3>2, <4>2
        DEF EscInv, NewestEsc, EscAccounted, EscActedOn, StartsLater, SignalAt
      <4>3. QED
        BY <1>3, <3>2, <4>1, <4>2 DEF EscInv, EscAccounted
    <3>3. QED
      BY <3>1, <3>2
  <2>7. QED
    BY <2>3, <2>4, <2>5, <2>6, <1>1 DEF EscInv

<1>4. ASSUME NEW signal \in {"none", "pressed", "released", "cancelled"}, inputs < MaxInputs, inputs' = inputs + 1,
             Sends(signal), lastEsc' = IF signal = "cancelled" THEN inputs + 1 ELSE lastEsc
      PROVE  EscInv'
  BY <1>2, <1>3, <1>4 DEF Sends
<1>5. ASSUME NEW moved \in Trackers(Keyboards), NEW pressed, KeyEvent(moved, pressed)
      PROVE  EscInv'
  <2>1. inputs < MaxInputs /\ inputs' = inputs + 1 /\ UNCHANGED lastEsc
    BY <1>5 DEF KeyEvent, Input
  <2>2. CASE UNCHANGED events
    BY <2>1, <2>2, <1>2
  <2>3. CASE Sends(TransitionSignal(moved))
    BY <2>1, <2>3, <1>4, TrackerType
  <2>4. QED
    BY <1>5, <2>2, <2>3 DEF KeyEvent
<1>6. tracker \in Trackers(Keyboards)
  BY DEF TypeOK
<1>7. ASSUME NEW k \in Keyboards, KeyDown(k) \/ KeyUp(k) \/ Disconnect(k)
      PROVE  EscInv'
  <2>1. ChordCompletes(tracker, k) \in Trackers(Keyboards) /\ ChordBreaks(tracker, k) \in Trackers(Keyboards)
    BY <1>6, TrackerType
  <2>2. CASE Disconnect(k)
    <3>1. inputs < MaxInputs /\ inputs' = inputs + 1 /\ UNCHANGED lastEsc /\ Sends(TransitionSignal(ChordBreaks(tracker, k)))
      BY <2>2 DEF Disconnect, Input
    <3>2. TransitionSignal(ChordBreaks(tracker, k)) \in {"none", "pressed", "released"}
      BY <2>1, TrackerType
    <3>3. QED
      BY <1>4, <3>1, <3>2
  <2>3. QED
    BY <1>5, <1>7, <2>1, <2>2 DEF KeyDown, KeyUp
<1>8. CASE OtherKey
  BY <1>5, <1>6, <1>8 DEF OtherKey
<1>9. CASE Esc
  <2>1. inputs < MaxInputs /\ inputs' = inputs + 1
    BY <1>9 DEF Esc, Input
  <2>2. CASE capturing
    BY <1>9, <2>1, <2>2, <1>4 DEF Esc
  <2>3. CASE ~capturing
    BY <1>9, <2>1, <2>3, <1>4 DEF Esc
  <2>4. QED
    BY <2>2, <2>3
<1>10. CASE ArmCapture \/ CaptureEnds
  BY <1>2, <1>10 DEF ArmCapture, CaptureEnds, Input
<1>11. QED
  BY <1>7, <1>8, <1>9, <1>10 DEF ListenerSteps

(* The loop takes the first message; an Esc it drops could cancel nothing. *)
LEMMA LoopKeepsEsc ==
  ASSUME TypeOK, OneActionInFlight, EscInv, LoopSteps
  PROVE  EscInv'
<1>0. /\ events \in Seq(Messages) /\ actions \in Seq(Signals) /\ Len(events) \in Nat /\ Len(actions) \in Nat
      /\ \A i \in 1..Len(events) : SignalAt(i) => events[i].nth \in Nat
      /\ gate.pending.nth \in Nat /\ worker.event.nth \in Nat /\ NoSignal.nth = 0 /\ NoSignal.signal = "none"
      /\ \A k \in 1..Len(actions) : actions[k].nth \in Nat
      /\ lastEsc \in Nat /\ inputs \in Nat
  BY SignalFields
<1>1. /\ UNCHANGED <<worker, holder, phase, origin, lastEsc, inputs>> /\ events # <<>> /\ events' = Tail(events)
      /\ saving' = IF Head(events).kind = "reconfigure" THEN "answered" ELSE saving
  BY DEF LoopSteps, DropSignal, DispatchSignal, QueueSignal, CompleteAction, ReconfigureListener, Receive,
         OutsideDispatch, daemon
<1> DEFINE first == events[1]
<1>2. /\ Len(events) >= 1 /\ Len(events') = Len(events) - 1 /\ Head(events) = first /\ 1 \in 1..Len(events)
      /\ \A i \in 1..Len(events') : events'[i] = events[i + 1] /\ i + 1 \in 1..Len(events)
      /\ \A i \in 1..Len(events') : SignalAt(i)' <=> SignalAt(i + 1)
  BY <1>0, <1>1, ChannelTaken DEF SignalAt
<1>3. /\ NewestEsc' /\ HolderActs' /\ SaveWaits'
  <2>1. NewestEsc' /\ HolderActs'
    BY <1>0, <1>1, <1>2 DEF EscInv, NewestEsc, HolderActs
  <2>2. ASSUME first.kind = "reconfigure" PROVE SaveWaits'
    <3>1. saving = "asked" /\ \A i \in 1..Len(events) : events[i].kind = "reconfigure" => i = 1
      BY <2>2, <1>2 DEF EscInv, SaveWaits
    <3>2. saving' = "answered" /\ \A i \in 1..Len(events') : events'[i].kind # "reconfigure"
      BY <2>2, <3>1, <1>0, <1>1, <1>2
    <3>3. QED
      BY <3>1, <3>2, <1>1 DEF EscInv, SaveWaits
  <2>3. ASSUME first.kind # "reconfigure" PROVE SaveWaits'
    <3>1. saving' = saving
      BY <2>3, <1>1, <1>2
    <3>2. QED
      BY <3>1, <1>0, <1>1, <1>2 DEF EscInv, SaveWaits
  <2>4. QED
    BY <2>1, <2>2, <2>3
(* The signals behind the first one stay in order, and later than it. *)
<1>4. /\ \A i, j \in 1..Len(events') : i < j /\ SignalAt(i)' /\ SignalAt(j)' => events'[i].nth < events'[j].nth
      /\ \A i \in 1..Len(events') : SignalAt(i)' =>
           /\ gate.pending.nth < events'[i].nth /\ worker.event.nth < events'[i].nth
           /\ \A k \in 1..Len(actions) : actions[k].nth < events'[i].nth
           /\ events'[i].nth <= inputs
           /\ first.kind = "signal" => first.nth < events'[i].nth
  <2>1. ASSUME NEW i \in 1..Len(events'), NEW j \in 1..Len(events'), i < j, SignalAt(i)', SignalAt(j)'
        PROVE  events'[i].nth < events'[j].nth
    <3>1. i + 1 < j + 1 /\ SignalAt(i + 1) /\ SignalAt(j + 1)
      BY <1>0, <1>2, <2>1
    <3>2. events[i + 1].nth < events[j + 1].nth
      BY <1>2, <3>1 DEF EscInv, InOrder
    <3>3. QED
      BY <1>2, <3>2
  <2>2. ASSUME NEW i \in 1..Len(events'), SignalAt(i)'
        PROVE  /\ gate.pending.nth < events'[i].nth /\ worker.event.nth < events'[i].nth
               /\ \A k \in 1..Len(actions) : actions[k].nth < events'[i].nth
               /\ events'[i].nth <= inputs
    BY <1>2, <2>2 DEF EscInv, InOrder
  <2>3. ASSUME NEW i \in 1..Len(events'), SignalAt(i)', first.kind = "signal"
        PROVE  first.nth < events'[i].nth
    BY <1>0, <1>1, <2>3, LaterThanFirst DEF SignalAt
  <2>4. QED
    BY <2>1, <2>2, <2>3
(* What is on its way stays so, unless it was first. *)
<1>5. CASE UNCHANGED <<gate, actions>>
  <2>1. InOrder'
    BY <1>1, <1>4, <1>5 DEF EscInv, InOrder
  <2>2. ASSUME first.kind = "signal" => ~IsEsc(first) \/ (phase # "recording" /\ gate.pending = NoSignal /\ actions = <<>>
                                                          /\ worker = Resting)
        PROVE  EscAccounted'
    <3>1. CASE \E i \in 1..Len(events) : SignalAt(i) /\ IsEsc(events[i])
      <4>1. PICK i \in 1..Len(events) : SignalAt(i) /\ IsEsc(events[i])
        BY <3>1
      <4>2. CASE i = 1
        <5>1. phase # "recording" /\ gate.pending = NoSignal /\ actions = <<>> /\ worker = Resting /\ first.nth = lastEsc
          BY <2>2, <4>1, <4>2 DEF SignalAt, IsEsc
        <5>2. worker.at = "resting" /\ Len(actions) = 0
          BY <5>1 DEF Resting
        <5>3. \A l \in 1..Len(events') : SignalAt(l)' => lastEsc < events'[l].nth
          BY <1>4, <4>1, <4>2, <5>1 DEF SignalAt
        <5>4. EscActedOn'
          BY <1>0, <1>1, <1>5, <5>1, <5>2, <5>3 DEF EscActedOn, StartsLater
        <5>5. QED
          BY <5>4 DEF EscAccounted
      <4>3. CASE i # 1
        BY <4>1, <4>3, StillOnItsWay, <1>0, <1>1
      <4>4. QED
        BY <4>2, <4>3
    <3>2. CASE EscOnItsWay /\ ~\E i \in 1..Len(events) : SignalAt(i) /\ IsEsc(events[i])
      BY <1>1, <1>5, <3>2 DEF EscAccounted, EscOnItsWay, IsEsc
    <3>3. CASE EscActedOn
      BY <1>0, <1>1, <1>2, <1>5, <3>3 DEF EscAccounted, EscActedOn, StartsLater
    <3>4. QED
      BY <3>1, <3>2, <3>3, <1>1 DEF EscInv, EscAccounted
  <2>3. QED
    <3>1. CASE DropSignal
      <4>1. first.kind = "signal" /\ (Heeds(first) => ~Accepts(gate, mode, first) /\ ~Queues(gate, mode, first))
        BY <3>1, <1>2 DEF DropSignal, Receive
      <4>2. ASSUME IsEsc(first)
            PROVE  phase # "recording" /\ gate.pending = NoSignal /\ actions = <<>> /\ worker = Resting
        <5>1. first.signal = "cancelled" /\ ~Refused(gate, mode, first)
          BY <4>2 DEF IsEsc, Refused, ToggleRelease, ToggleRearming
        <5>2. ~Heeds(first)
          BY <4>1, <5>1 DEF Accepts, Queues, ShouldQueueTerminal
        <5>3. ~IsRecording /\ ~gate.inFlight
          BY <5>2 DEF Heeds, IgnoresCancel
        <5>4. QED
          BY <5>3 DEF IsRecording, OneActionInFlight
      <4>3. QED
        BY <2>1, <2>2, <4>2, <1>3 DEF EscInv
    <3>2. CASE first.kind # "signal"
      BY <2>1, <2>2, <3>2, <1>3 DEF EscInv
    <3>3. CASE DispatchSignal
      <4>1. ~gate.inFlight /\ gate' = [gate EXCEPT !.inFlight = TRUE] /\ gate' = gate
        BY <3>3, <1>5 DEF DispatchSignal, Accepts
      <4>2. gate'.inFlight
        BY <4>1 DEF TypeOK
      <4>3. QED
        BY <4>1, <4>2
    <3>4. CASE QueueSignal
      <4>1. gate' = [gate EXCEPT !.pending = first] /\ gate' = gate /\ first.kind = "signal"
        BY <3>4, <1>2, <1>5 DEF QueueSignal, Receive
      <4>2. gate.pending = first
        BY <4>1 DEF TypeOK
      <4>3. gate.pending.nth < first.nth
        BY <4>1, <1>2 DEF EscInv, InOrder, SignalAt
      <4>4. QED
        BY <4>2, <4>3, <1>0
    <3>5. CASE CompleteAction \/ ReconfigureListener
      BY <3>5, <3>2, <1>2 DEF CompleteAction, ReconfigureListener, Receive
    <3>6. QED
      BY <3>1, <3>3, <3>4, <3>5 DEF LoopSteps
<1>6. CASE DispatchSignal
  <2>1. /\ first.kind = "signal" /\ gate' = [gate EXCEPT !.inFlight = TRUE] /\ actions' = Append(actions, first)
        /\ ~gate.inFlight
    BY <1>2, <1>6 DEF DispatchSignal, Receive, Accepts
  <2>2. actions = <<>> /\ worker = Resting /\ gate.pending = NoSignal
    BY <2>1 DEF OneActionInFlight
  <2>3. Len(actions') = 1 /\ actions'[1] = first /\ gate'.pending = NoSignal
    BY <2>1, <2>2 DEF TypeOK
  <2>4. worker.at = "resting" /\ worker.event = NoSignal /\ SignalAt(1) /\ first.nth \in Nat /\ first.nth <= inputs
    BY <2>1, <2>2, <1>0, <1>2 DEF Resting, SignalAt, EscInv, InOrder
  <2>5. InOrder'
    BY <1>0, <1>1, <1>4, <2>1, <2>3, <2>4 DEF EscInv, InOrder
  <2>6. EscAccounted'
    <3>1. CASE EscOnItsWay
      <4>1. PICK i \in 1..Len(events) : SignalAt(i) /\ IsEsc(events[i])
        BY <3>1, <1>0, <2>2, <2>4 DEF EscOnItsWay, IsEsc
      <4>2. CASE i = 1
        <5>1. IsEsc(actions[1])' /\ 1 \in 1..Len(actions')
          BY <4>1, <4>2, <2>3, <1>1 DEF IsEsc
        <5>2. QED
          BY <5>1 DEF EscAccounted, EscOnItsWay
      <4>3. CASE i # 1
        BY <4>1, <4>3, StillOnItsWay, <1>0, <1>1
      <4>4. QED
        BY <4>2, <4>3
    <3>2. CASE EscActedOn
      BY <1>0, <1>1, <1>2, <2>3, <2>4, <3>2 DEF EscAccounted, EscActedOn, StartsLater
    <3>3. QED
      BY <3>1, <3>2, <1>1 DEF EscInv, EscAccounted
  <2>7. QED
    BY <2>5, <2>6, <1>3 DEF EscInv
<1>7. CASE QueueSignal
  <2>1. /\ first.kind = "signal" /\ gate' = [gate EXCEPT !.pending = first] /\ UNCHANGED actions
        /\ ShouldQueueTerminal(gate, mode, first)
    BY <1>2, <1>7 DEF QueueSignal, Receive, Queues
  <2>2. gate'.pending = first
    BY <2>1 DEF TypeOK
  <2>3. /\ SignalAt(1) /\ first.nth \in Nat /\ first.nth <= inputs /\ gate.pending.nth < first.nth
        /\ worker.event.nth < first.nth /\ \A k \in 1..Len(actions) : actions[k].nth < first.nth
    BY <2>1, <1>0, <1>2 DEF SignalAt, EscInv, InOrder
  <2>4. InOrder'
    BY <1>0, <1>1, <1>4, <2>1, <2>2, <2>3 DEF EscInv, InOrder
  <2>5. lastEsc # 0 => ~IsEsc(gate.pending)
    <3>1. SUFFICES ASSUME lastEsc # 0, IsEsc(gate.pending) PROVE FALSE
      OBVIOUS
    <3>2. first.signal = "cancelled"
      BY <3>1, <2>1 DEF ShouldQueueTerminal, IsEsc
    <3>3. first.nth <= lastEsc
      BY <3>1, <3>2, <2>3, <1>2 DEF EscInv, NewestEsc
    <3>4. QED
      BY <3>1, <3>3, <2>3, <1>0 DEF IsEsc
  <2>6. EscAccounted'
    <3>1. CASE lastEsc # 0 /\ \E i \in 1..Len(events) : SignalAt(i) /\ IsEsc(events[i])
      <4>1. PICK i \in 1..Len(events) : SignalAt(i) /\ IsEsc(events[i])
        BY <3>1
      <4>2. CASE i = 1
        <5>1. IsEsc(gate.pending)'
          BY <4>1, <4>2, <2>2, <1>1 DEF IsEsc
        <5>2. QED
          BY <5>1 DEF EscAccounted, EscOnItsWay
      <4>3. CASE i # 1
        BY <4>1, <4>3, StillOnItsWay, <1>0, <1>1
      <4>4. QED
        BY <4>2, <4>3
    <3>2. CASE lastEsc # 0 /\ EscOnItsWay /\ ~\E i \in 1..Len(events) : SignalAt(i) /\ IsEsc(events[i])
      BY <1>1, <2>1, <2>5, <3>2 DEF EscAccounted, EscOnItsWay, IsEsc
    <3>3. CASE EscActedOn
      BY <1>0, <1>1, <1>2, <2>1, <2>2, <2>3, <3>3 DEF EscAccounted, EscActedOn, StartsLater
    <3>4. CASE lastEsc = 0
      BY <3>4, <1>1 DEF EscAccounted
    <3>5. QED
      BY <3>1, <3>2, <3>3, <3>4 DEF EscInv, EscAccounted
  <2>7. QED
    BY <2>4, <2>6, <1>3 DEF EscInv
<1>8. CASE CompleteAction
  <2>1. /\ first.kind = "finished" /\ gate' = Complete(gate, first.toggled, first.at)
        /\ actions' = IF gate.pending = NoSignal THEN actions ELSE Append(actions, gate.pending)
    BY <1>2, <1>8 DEF CompleteAction, Receive
  <2>2. actions = <<>> /\ worker = Resting /\ worker.at = "resting" /\ worker.event = NoSignal /\ gate'.pending = NoSignal
    <3>1. 1 \in Reports(events)
      BY <2>1, <1>0, <1>2, TakenMessage, <1>1
    <3>2. QED
      BY <3>1, <2>1 DEF OneActionInFlight, Complete, Resting
  <2>3. CASE gate.pending = NoSignal
    <3>1. UNCHANGED actions /\ Len(actions) = 0
      BY <2>1, <2>2, <2>3
    <3>2. InOrder'
      BY <1>0, <1>1, <1>4, <2>2, <2>3, <3>1 DEF EscInv, InOrder
    <3>3. EscAccounted'
      <4>1. CASE EscOnItsWay
        <5>1. PICK i \in 1..Len(events) : SignalAt(i) /\ IsEsc(events[i])
          BY <4>1, <1>0, <2>2, <2>3 DEF EscOnItsWay, IsEsc
        <5>2. i # 1
          BY <5>1, <2>1 DEF SignalAt
        <5>3. QED
          BY <5>1, <5>2, StillOnItsWay, <1>0, <1>1
      <4>2. CASE EscActedOn
        BY <1>0, <1>1, <1>2, <2>2, <2>3, <3>1, <4>2 DEF EscAccounted, EscActedOn, StartsLater
      <4>3. QED
        BY <4>1, <4>2, <1>1 DEF EscInv, EscAccounted
    <3>4. QED
      BY <3>2, <3>3, <1>3 DEF EscInv
  <2>4. CASE gate.pending # NoSignal
    <3>1. Len(actions') = 1 /\ actions'[1] = gate.pending
      BY <2>1, <2>2, <2>4
    <3>2. InOrder'
      BY <1>0, <1>1, <1>4, <2>2, <2>4, <3>1 DEF EscInv, InOrder
    <3>3. EscAccounted'
      <4>1. CASE \E i \in 1..Len(events) : SignalAt(i) /\ IsEsc(events[i])
        <5>1. PICK i \in 1..Len(events) : SignalAt(i) /\ IsEsc(events[i])
          BY <4>1
        <5>2. i # 1
          BY <5>1, <2>1 DEF SignalAt
        <5>3. QED
          BY <5>1, <5>2, StillOnItsWay, <1>0, <1>1
      <4>2. CASE IsEsc(gate.pending)
        <5>1. IsEsc(actions[1])' /\ 1 \in 1..Len(actions')
          BY <4>2, <3>1, <1>1 DEF IsEsc
        <5>2. QED
          BY <5>1 DEF EscAccounted, EscOnItsWay
      <4>3. CASE EscActedOn
        BY <1>0, <1>1, <1>2, <2>2, <3>1, <4>3 DEF EscAccounted, EscActedOn, StartsLater
      <4>4. Len(actions) = 0
        BY <2>2
      <4>5. QED
        BY <4>1, <4>2, <4>3, <4>4, <1>1, <2>2 DEF EscInv, EscAccounted, EscOnItsWay
    <3>4. QED
      BY <3>2, <3>3, <1>3 DEF EscInv
  <2>5. QED
    BY <2>3, <2>4
<1>9. QED
  BY <1>5, <1>6, <1>7, <1>8 DEF LoopSteps, DropSignal, ReconfigureListener

(* Signals that stay where they are stay in order, whatever the count of inputs becomes. *)
LEMMA OrderKept ==
  ASSUME TypeOK, EscInv, UNCHANGED <<events, gate, actions, lastEsc>>,
         worker'.event = worker.event, inputs' \in {inputs, inputs + 1}
  PROVE  InOrder' /\ NewestEsc'
<1>0. /\ \A i \in 1..Len(events) : SignalAt(i) => events[i].nth \in Nat
      /\ gate.pending.nth \in Nat /\ worker.event.nth \in Nat
      /\ \A k \in 1..Len(actions) : actions[k].nth \in Nat
      /\ lastEsc \in Nat /\ inputs \in Nat
  BY SignalFields
<1>1. inputs <= inputs'
  BY <1>0
<1>2. /\ \A i \in 1..Len(events) : SignalAt(i) => events[i].nth <= inputs'
      /\ gate.pending.nth <= inputs' /\ worker.event.nth <= inputs' /\ lastEsc <= inputs'
      /\ \A k \in 1..Len(actions) : actions[k].nth <= inputs'
  BY <1>0, <1>1 DEF EscInv, InOrder, NewestEsc
<1>3. InOrder'
  BY <1>2 DEF EscInv, InOrder, SignalAt
<1>4. NewestEsc'
  BY <1>2 DEF EscInv, NewestEsc, SignalAt
<1>5. QED
  BY <1>3, <1>4

(* A message that is no signal leaves the signals of the channel as they are. *)
LEMMA OtherMessage ==
  ASSUME events \in Seq(Messages), NEW message \in Messages, message.kind # "signal",
         events' = Append(events, message)
  PROVE  /\ \A i \in 1..Len(events') :
              SignalAt(i)' => i \in 1..Len(events) /\ SignalAt(i) /\ events'[i] = events[i]
         /\ \A i \in 1..Len(events) :
              i \in 1..Len(events') /\ events'[i] = events[i] /\ (SignalAt(i)' <=> SignalAt(i))
<1>1. /\ Len(events) \in Nat /\ Len(events') = Len(events) + 1 /\ events'[Len(events) + 1] = message
      /\ \A i \in 1..Len(events) : events'[i] = events[i]
  BY ChannelAppended
<1>2. QED
  BY <1>1 DEF SignalAt

(* An Esc stays on its way while nothing is taken from anywhere, and what was acted
   on stays so while no recording begins that is older than the Esc. *)
LEMMA AccountKept ==
  ASSUME EscAccounted, UNCHANGED <<events, gate, actions, lastEsc, worker>>,
         phase' = "recording" => lastEsc <= origin'.nth \/ (phase = "recording" /\ UNCHANGED origin)
  PROVE  EscAccounted'
<1>1. CASE EscOnItsWay
  BY <1>1 DEF EscAccounted, EscOnItsWay, IsEsc, SignalAt
<1>2. CASE EscActedOn
  BY <1>2 DEF EscAccounted, EscActedOn, StartsLater, SignalAt
<1>3. QED
  BY <1>1, <1>2 DEF EscAccounted

(* The Esc the daemon has now ended the recording for is accounted for. *)
LEMMA AnsweredEsc ==
  ASSUME TypeOK, OneActionInFlight, EscInv, IsEsc(worker.event), worker # Resting,
         UNCHANGED <<events, gate, actions, lastEsc>>, worker'.at = "done", phase' # "recording"
  PROVE  EscAccounted'
<1>1. /\ \A i \in 1..Len(events) : SignalAt(i) => lastEsc < events[i].nth
      /\ gate.pending # NoSignal => lastEsc < gate.pending.nth
      /\ actions = <<>> /\ NoSignal.signal = "none"
  BY EscLeavesLater, SignalFields
<1>2. Len(actions) = 0
  BY <1>1
<1>3. EscActedOn'
  BY <1>1, <1>2 DEF EscActedOn, StartsLater, SignalAt
<1>4. QED
  BY <1>3 DEF EscAccounted

(* Any other signal the daemon is done with leaves the Esc where it is. *)
LEMMA AnsweredOther ==
  ASSUME EscAccounted, ~IsEsc(worker.event),
         UNCHANGED <<events, gate, actions, lastEsc>>, worker'.at = "done",
         EscActedOn /\ phase' = "recording" => lastEsc <= origin'.nth
  PROVE  EscAccounted'
<1>1. CASE EscOnItsWay
  BY <1>1 DEF EscAccounted, EscOnItsWay, IsEsc, SignalAt
<1>2. CASE EscActedOn
  BY <1>2 DEF EscAccounted, EscActedOn, StartsLater, SignalAt
<1>3. QED
  BY <1>1, <1>2 DEF EscAccounted

(* The worker takes the one signal there is, and an Esc it is done with has ended the
   recording, had none to end, or was refused. *)
LEMMA WorkerKeepsEsc ==
  ASSUME TypeOK, OneActionInFlight, EscInv, WorkerSteps
  PROVE  EscInv'
<1>0. /\ events \in Seq(Messages) /\ actions \in Seq(Signals) /\ Len(events) \in Nat /\ Len(actions) \in Nat
      /\ \A i \in 1..Len(events) : SignalAt(i) => events[i].nth \in Nat
      /\ gate.pending.nth \in Nat /\ worker.event.nth \in Nat /\ NoSignal.nth = 0 /\ NoSignal.signal = "none"
      /\ \A k \in 1..Len(actions) : actions[k].nth \in Nat
      /\ lastEsc \in Nat /\ inputs \in Nat /\ origin.nth \in Nat
  BY SignalFields
<1>1. CASE TakeAction
  <2>1. /\ worker = Resting /\ actions # <<>> /\ actions' = Tail(actions)
        /\ worker' = [Resting EXCEPT !.at = "taken", !.event = Head(actions)]
        /\ UNCHANGED <<events, gate, holder, phase, origin, saving, lastEsc, inputs>>
    BY <1>1 DEF TakeAction, daemon
  <2>2. Len(actions) = 1 /\ Head(actions) = actions[1] /\ Len(actions') = 0
    <3>1. PICK n \in Nat : n = Len(actions)
      BY <1>0
    <3>2. n <= 1 /\ n # 0
      BY <1>0, <2>1, <3>1 DEF OneActionInFlight
    <3>3. QED
      BY <1>0, <2>1, <3>1, <3>2
  <2>3. worker.at = "resting" /\ worker'.at = "taken" /\ worker'.event = actions[1]
    BY <2>1, <2>2 DEF Resting
  <2>4. InOrder'
    BY <1>0, <2>1, <2>2, <2>3 DEF EscInv, InOrder, SignalAt
  <2>5. NewestEsc' /\ HolderActs' /\ SaveWaits'
    BY <2>1, <2>3 DEF EscInv, NewestEsc, HolderActs, SaveWaits, SignalAt
  <2>6. ASSUME EscOnItsWay PROVE EscAccounted'
    <3>1. CASE \E k \in 1..Len(actions) : IsEsc(actions[k])
      <4>1. IsEsc(actions[1])
        BY <2>2, <3>1
      <4>2. worker'.at = "taken" /\ worker'.event.signal = "cancelled" /\ worker'.event.nth = lastEsc'
        BY <2>1, <2>3, <4>1 DEF IsEsc
      <4>3. QED
        BY <4>2 DEF EscAccounted, EscOnItsWay, IsEsc
    <3>2. CASE ~\E k \in 1..Len(actions) : IsEsc(actions[k])
      <4>1. worker.at \notin {"taken", "acting"} /\ UNCHANGED <<events, gate, lastEsc>>
        BY <2>1, <2>3
      <4>2. CASE \E i \in 1..Len(events) : SignalAt(i) /\ IsEsc(events[i])
        BY <4>1, <4>2 DEF EscAccounted, EscOnItsWay, IsEsc, SignalAt
      <4>3. CASE IsEsc(gate.pending)
        BY <4>1, <4>3 DEF EscAccounted, EscOnItsWay, IsEsc
      <4>4. QED
        BY <2>6, <3>2, <4>1, <4>2, <4>3 DEF EscOnItsWay
    <3>3. QED
      BY <3>1, <3>2
  <2>7. ASSUME EscActedOn PROVE EscAccounted'
    <3>1. StartsLater(actions[1])
      BY <2>2, <2>7 DEF EscActedOn
    <3>2. worker'.event.signal = "pressed" => lastEsc' < worker'.event.nth
      BY <2>1, <2>3, <3>1 DEF StartsLater
    <3>3. UNCHANGED <<events, gate, phase, origin, lastEsc>> /\ Len(actions') = 0
      BY <2>1, <2>2
    <3>4. EscActedOn'
      BY <2>7, <3>2, <3>3 DEF EscActedOn, StartsLater, SignalAt
    <3>5. QED
      BY <3>4 DEF EscAccounted
  <2>8. EscAccounted'
    BY <2>1, <2>6, <2>7 DEF EscInv, EscAccounted
  <2>9. QED
    BY <2>4, <2>5, <2>8 DEF EscInv
<1>2. CASE TriggerBegins
  <2> DEFINE action == LifecycleAction(worker.event.signal)
  <2>1. /\ worker.at = "taken" /\ holder = Free /\ action # "none"
        /\ holder' = [who |-> "worker", action |-> action]
        /\ phase' = CASE action = "start" -> "starting"
                      [] action = "stop" -> "stopping"
                      [] OTHER -> phase
        /\ worker' = [worker EXCEPT !.at = "acting"]
        /\ UNCHANGED <<events, gate, actions, origin, saving, lastEsc, inputs>>
    BY <1>2 DEF TriggerBegins, Begin, OutsideDaemon, dispatch
  <2>2. /\ worker.event.signal = "cancelled" => action = "discard"
        /\ action = "start" => worker.event.signal = "pressed"
    BY <2>1 DEF LifecycleAction
  <2> HIDE DEF action
  <2>3. worker'.at = "acting" /\ worker'.event = worker.event
    BY <2>1 DEF TypeOK
  <2>4. phase' = "recording" => phase = "recording"
    BY <2>1
  <2>5. InOrder' /\ NewestEsc'
    BY <2>1, <2>3, OrderKept
  <2>6. HolderActs'
    BY <2>1, <2>2, <2>3 DEF HolderActs
  <2>7. saving = "none"
    BY <2>1 DEF EscInv, SaveWaits, Free
  <2>8. SaveWaits'
    BY <2>1, <2>7 DEF EscInv, SaveWaits
  <2>9. UNCHANGED <<events, gate, actions, origin, lastEsc>> /\ worker.at = "taken"
    BY <2>1
  <2>10. ASSUME EscOnItsWay PROVE EscAccounted'
    BY <2>3, <2>9, <2>10 DEF EscAccounted, EscOnItsWay, IsEsc, SignalAt
  <2>11. EscAccounted'
    <3>1. CASE EscActedOn
      BY <2>3, <2>4, <2>9, <3>1 DEF EscAccounted, EscActedOn, StartsLater, SignalAt
    <3>2. QED
      BY <2>9, <2>10, <3>1 DEF EscInv, EscAccounted
  <2>12. QED
    BY <2>5, <2>6, <2>8, <2>11 DEF EscInv
<1>3. CASE TriggerIgnored
  <2>1. /\ worker.at = "taken" /\ worker' = [worker EXCEPT !.at = "done"]
        /\ UNCHANGED <<events, gate, actions, holder, phase, origin, saving, inputs>>
    BY <1>3 DEF TriggerIgnored, dispatch, daemon
  <2>2. worker'.at = "done" /\ worker'.event = worker.event /\ worker # Resting
    BY <2>1 DEF TypeOK, Resting
  <2>3. HolderActs' /\ SaveWaits'
    BY <2>1, <2>2 DEF EscInv, HolderActs, SaveWaits
  <2>4. CASE lastEsc' = lastEsc
    <3>1. InOrder' /\ NewestEsc'
      BY <2>1, <2>2, <2>4, OrderKept
    <3>2. CASE lastEsc # 0 /\ IsEsc(worker.event)
      <4>1. LifecycleAction(worker.event.signal) = "none"
        BY <1>3, <2>4, <3>2 DEF TriggerIgnored, IsEsc
      <4>2. worker.event.signal = "cancelled"
        BY <3>2 DEF IsEsc
      <4>3. phase # "recording"
        BY <4>1, <4>2 DEF LifecycleAction, IsRecording
      <4>4. EscAccounted'
        BY <2>1, <2>2, <2>4, <3>2, <4>3, AnsweredEsc
      <4>5. QED
        BY <2>3, <3>1, <4>4 DEF EscInv
    <3>3. CASE ~IsEsc(worker.event)
      <4>1. EscActedOn /\ phase' = "recording" => lastEsc <= origin'.nth
        BY <2>1 DEF EscActedOn
      <4>2. EscAccounted'
        BY <2>1, <2>2, <2>4, <3>3, <4>1, AnsweredOther DEF EscInv
      <4>3. QED
        BY <2>3, <3>1, <4>2 DEF EscInv
    <3>4. CASE lastEsc = 0
      BY <2>3, <2>4, <3>1, <3>4 DEF EscInv, EscAccounted
    <3>5. QED
      BY <3>2, <3>3, <3>4
  <2>5. CASE lastEsc' = 0
    <3>1. InOrder'
      BY <2>1, <2>2 DEF EscInv, InOrder, SignalAt
    <3>2. NewestEsc' /\ EscAccounted'
      BY <1>0, <2>1, <2>5 DEF NewestEsc, EscAccounted
    <3>3. QED
      BY <2>3, <3>1, <3>2 DEF EscInv
  <2>6. QED
    BY <1>3, <2>4, <2>5 DEF TriggerIgnored
<1>4. CASE TriggerEnds
  <2>1. /\ worker.at = "acting" /\ holder.who = "worker" /\ holder' = Free
        /\ phase' \in Ends(holder.action)
        /\ worker' = [worker EXCEPT !.at = "done",
                                    !.toggled = phase' = "recording" /\ mode = "toggle"]
        /\ phase' = "recording" =>
             origin' = [by |-> mode, nth |-> worker.event.nth, rearmAt |-> now + 1]
        /\ UNCHANGED <<events, gate, actions, saving, lastEsc, inputs>>
    BY <1>4 DEF TriggerEnds, End, OutsideDaemon, dispatch
  <2>2. worker'.at = "done" /\ worker'.event = worker.event /\ worker # Resting
    BY <2>1 DEF TypeOK, Resting
  <2>3. phase' = "recording" => holder.action = "start" /\ origin'.nth = worker.event.nth
    BY <2>1 DEF Ends
  <2>4. InOrder' /\ NewestEsc'
    BY <2>1, <2>2, OrderKept
  <2>5. saving = "none"
    BY <2>1 DEF EscInv, SaveWaits
  <2>6. HolderActs' /\ SaveWaits'
    BY <2>1, <2>2, <2>5 DEF EscInv, HolderActs, SaveWaits
  <2>7. EscAccounted'
    <3>1. CASE IsEsc(worker.event)
      <4>1. holder.action = "discard"
        BY <2>1, <3>1 DEF EscInv, HolderActs, IsEsc
      <4>2. phase' # "recording"
        BY <2>3, <4>1
      <4>3. QED
        BY <2>1, <2>2, <3>1, <4>2, AnsweredEsc
    <3>2. CASE ~IsEsc(worker.event)
      <4>1. ASSUME EscActedOn, phase' = "recording"
            PROVE  lastEsc <= origin'.nth
        <5>1. worker.event.signal = "pressed"
          BY <2>1, <2>3, <4>1 DEF EscInv, HolderActs
        <5>2. lastEsc < worker.event.nth
          BY <2>1, <4>1, <5>1 DEF EscActedOn, StartsLater
        <5>3. QED
          BY <1>0, <2>3, <4>1, <5>2
      <4>2. QED
        BY <2>1, <2>2, <3>2, <4>1, AnsweredOther DEF EscInv
    <3>3. QED
      BY <3>1, <3>2
  <2>8. QED
    BY <2>4, <2>6, <2>7 DEF EscInv
<1>5. CASE ReportFinished
  <2> DEFINE message == [kind |-> "finished", toggled |-> worker.toggled, at |-> now]
  <2>1. /\ worker.at = "done" /\ events' = Append(events, message) /\ worker' = Resting
        /\ UNCHANGED <<gate, actions, holder, phase, origin, saving, lastEsc, inputs>>
    BY <1>5 DEF ReportFinished, daemon
  <2>2. message \in Messages /\ message.kind = "finished"
    BY DEF Messages, ActionFinished, TypeOK
  <2> HIDE DEF message
  <2>3. /\ \A i \in 1..Len(events') :
             SignalAt(i)' => i \in 1..Len(events) /\ SignalAt(i) /\ events'[i] = events[i]
        /\ \A i \in 1..Len(events) :
             i \in 1..Len(events') /\ events'[i] = events[i] /\ (SignalAt(i)' <=> SignalAt(i))
    BY <1>0, <2>1, <2>2, OtherMessage
  <2>4. worker'.at = "resting" /\ worker'.event = NoSignal
    BY <2>1 DEF Resting
  <2>5. InOrder'
    <3>1. \A i, j \in 1..Len(events') :
            i < j /\ SignalAt(i)' /\ SignalAt(j)' => events'[i].nth < events'[j].nth
      BY <2>3 DEF EscInv, InOrder
    <3>2. \A i \in 1..Len(events') : SignalAt(i)' =>
            /\ gate.pending.nth < events'[i].nth /\ 0 < events'[i].nth
            /\ \A k \in 1..Len(actions) : actions[k].nth < events'[i].nth
            /\ events'[i].nth <= inputs
      BY <1>0, <2>3 DEF EscInv, InOrder
    <3>3. gate.pending # NoSignal => 0 < gate.pending.nth
      BY <1>0 DEF EscInv, InOrder
    <3>4. QED
      BY <1>0, <2>1, <2>4, <3>1, <3>2, <3>3 DEF EscInv, InOrder
  <2>6. NewestEsc'
    BY <2>1, <2>3 DEF EscInv, NewestEsc
  <2>7. SaveWaits'
    <3>1. \A i \in 1..Len(events') :
            events'[i].kind = "reconfigure" => i \in 1..Len(events) /\ events[i].kind = "reconfigure"
      BY <1>0, <2>1, <2>2, ChannelAppended
    <3>2. QED
      BY <2>1, <3>1 DEF EscInv, SaveWaits
  <2>8. HolderActs'
    BY <2>4 DEF HolderActs
  <2>9. EscAccounted'
    <3>1. CASE EscOnItsWay
      BY <2>1, <2>3, <3>1 DEF EscAccounted, EscOnItsWay, IsEsc
    <3>2. CASE EscActedOn
      BY <2>1, <2>3, <2>4, <3>2 DEF EscAccounted, EscActedOn, StartsLater
    <3>3. QED
      BY <2>1, <3>1, <3>2 DEF EscInv, EscAccounted
  <2>10. QED
    BY <2>5, <2>6, <2>7, <2>8, <2>9 DEF EscInv
<1>6. QED
  BY <1>1, <1>2, <1>3, <1>4, <1>5 DEF WorkerSteps

(* A client's recording is newer than every Esc, and nobody else takes the lock
   from a save or from the worker. *)
LEMMA OtherKeepsEsc ==
  ASSUME TypeOK, EscInv, OtherSteps
  PROVE  EscInv'
<1>0. /\ events \in Seq(Messages) /\ lastEsc \in Nat /\ inputs \in Nat
  BY SignalFields
<1>1. HolderActs /\ SaveWaits /\ EscAccounted /\ NewestEsc
  BY DEF EscInv
<1>2. holder = Free => worker.at # "acting" /\ saving = "none"
  BY <1>1 DEF HolderActs, SaveWaits, Free
<1>3. CASE ClientActs
  <2>1. /\ holder = Free /\ inputs' = inputs + 1
        /\ UNCHANGED <<events, gate, actions, worker, origin, saving, lastEsc>>
        /\ phase' = "recording" => phase = "recording"
    BY <1>3 DEF ClientActs, Begin, Input, OutsideDaemon, dispatch
  <2>2. InOrder' /\ NewestEsc'
    BY <2>1, OrderKept
  <2>3. HolderActs' /\ SaveWaits'
    BY <1>1, <1>2, <2>1 DEF HolderActs, SaveWaits
  <2>4. EscAccounted'
    BY <1>1, <2>1, AccountKept
  <2>5. QED
    BY <2>2, <2>3, <2>4 DEF EscInv
<1>4. CASE ClientDone
  <2>1. /\ holder.who = "client" /\ holder' = Free
        /\ UNCHANGED <<events, gate, actions, worker, saving, lastEsc, inputs>>
        /\ phase' = "recording" => origin'.nth = inputs
    BY <1>4 DEF ClientDone, End, OutsideDaemon, dispatch
  <2>2. InOrder' /\ NewestEsc'
    BY <2>1, OrderKept
  <2>3. HolderActs' /\ SaveWaits'
    BY <1>1, <2>1 DEF HolderActs, SaveWaits
  <2>4. EscAccounted'
    BY <1>1, <2>1, AccountKept DEF NewestEsc
  <2>5. QED
    BY <2>2, <2>3, <2>4 DEF EscInv
<1>5. CASE SaveHotkey
  <2>1. /\ holder = Free /\ inputs' = inputs + 1 /\ saving' = "asked"
        /\ holder' = [who |-> "settings", action |-> "save"]
        /\ events' = Append(events, Reconfigure)
        /\ UNCHANGED <<gate, actions, worker, phase, origin, lastEsc>>
    BY <1>5 DEF SaveHotkey, Input
  <2>2. Reconfigure \in Messages /\ Reconfigure.kind = "reconfigure"
    BY DEF Messages, Reconfigure
  <2>3. /\ \A i \in 1..Len(events') :
             SignalAt(i)' => i \in 1..Len(events) /\ SignalAt(i) /\ events'[i] = events[i]
        /\ \A i \in 1..Len(events) :
             i \in 1..Len(events') /\ events'[i] = events[i] /\ (SignalAt(i)' <=> SignalAt(i))
    BY <1>0, <2>1, <2>2, OtherMessage
  <2>4. /\ \A i \in 1..Len(events) : SignalAt(i) => events[i].nth <= inputs'
        /\ gate.pending.nth <= inputs' /\ worker.event.nth <= inputs' /\ lastEsc <= inputs'
        /\ \A k \in 1..Len(actions) : actions[k].nth <= inputs'
    BY <2>1, SignalFields, SMTT(30) DEF EscInv, InOrder, NewestEsc
  <2>5. InOrder'
    BY <2>1, <2>3, <2>4 DEF EscInv, InOrder
  <2>6. NewestEsc'
    BY <1>1, <2>1, <2>3, <2>4 DEF NewestEsc
  <2>7. SaveWaits'
    <3>1. \A i \in 1..Len(events) : events[i].kind # "reconfigure"
      BY <1>1, <1>2, <2>1 DEF SaveWaits
    <3>2. \A i \in 1..Len(events') : events'[i].kind = "reconfigure" => i = Len(events')
      BY <1>0, <2>1, <2>2, <3>1, ChannelAppended
    <3>3. QED
      BY <2>1, <3>2 DEF SaveWaits
  <2>8. HolderActs'
    BY <1>2, <2>1 DEF HolderActs
  <2>9. EscAccounted'
    <3>1. CASE EscOnItsWay
      BY <2>1, <2>3, <3>1 DEF EscAccounted, EscOnItsWay, IsEsc
    <3>2. CASE EscActedOn
      BY <2>1, <2>3, <3>2 DEF EscAccounted, EscActedOn, StartsLater
    <3>3. QED
      BY <1>1, <2>1, <3>1, <3>2 DEF EscAccounted
  <2>10. QED
    BY <2>5, <2>6, <2>7, <2>8, <2>9 DEF EscInv
<1>6. CASE SaveEnds
  <2>1. /\ saving = "answered" /\ saving' = "none"
        /\ UNCHANGED <<events, gate, actions, worker, phase, origin, lastEsc, inputs>>
    BY <1>6 DEF SaveEnds, dispatch
  <2>2. InOrder' /\ NewestEsc'
    BY <2>1, OrderKept
  <2>3. holder.who = "settings"
    BY <1>1, <2>1 DEF SaveWaits
  <2>4. HolderActs' /\ SaveWaits'
    BY <1>1, <2>1, <2>3 DEF HolderActs, SaveWaits
  <2>5. EscAccounted'
    BY <1>1, <2>1, AccountKept
  <2>6. QED
    BY <2>2, <2>4, <2>5 DEF EscInv
<1>7. CASE ProcessingEnds \/ SaveMode \/ TimePasses
  <2>1. /\ inputs' \in {inputs, inputs + 1} /\ UNCHANGED <<holder, saving>>
        /\ UNCHANGED <<events, gate, actions, worker, origin, lastEsc>>
        /\ phase' = "recording" => phase = "recording"
    BY <1>7 DEF ProcessingEnds, SaveMode, TimePasses, Input, OutsideDaemon, dispatch, daemon
  <2>2. InOrder' /\ NewestEsc'
    BY <2>1, OrderKept
  <2>3. HolderActs' /\ SaveWaits'
    BY <1>1, <2>1 DEF HolderActs, SaveWaits
  <2>4. EscAccounted'
    BY <1>1, <2>1, AccountKept
  <2>5. QED
    BY <2>2, <2>3, <2>4 DEF EscInv
<1>8. QED
  BY <1>3, <1>4, <1>5, <1>6, <1>7 DEF OtherSteps

(* Every step keeps the last Esc accounted for. *)
LEMMA EscPreserved ==
  ASSUME TypeOK, OneActionInFlight, EscInv, [Next]_vars
  PROVE  EscInv'
<1>1. CASE UNCHANGED vars
  <2>1. UNCHANGED <<events, gate, actions, worker, holder, saving, phase, origin, lastEsc, inputs>>
    BY <1>1 DEF vars
  <2>2. InOrder' /\ NewestEsc'
    BY <2>1, OrderKept
  <2>3. HolderActs' /\ SaveWaits'
    BY <2>1 DEF EscInv, HolderActs, SaveWaits
  <2>4. EscAccounted'
    BY <2>1, AccountKept DEF EscInv
  <2>5. QED
    BY <2>2, <2>3, <2>4 DEF EscInv
<1>2. QED
  BY <1>1, KeysKeepEsc, LoopKeepsEsc, WorkerKeepsEsc, OtherKeepsEsc DEF Next

(* When nothing is on its way, the last Esc has been acted on. *)
LEMMA EscSafety ==
  ASSUME TypeOK, OneActionInFlight, EscInv
  PROVE  EscapeIsNeverLost
<1> SUFFICES ASSUME Quiet, phase = "recording"
             PROVE  lastEsc <= origin.nth
  BY DEF EscapeIsNeverLost
<1>1. events = <<>> /\ actions = <<>> /\ worker = Resting
  BY DEF Quiet
<1>2. Len(events) = 0 /\ Len(actions) = 0 /\ worker.at = "resting" /\ Reports(events) = {}
  BY <1>1 DEF Resting, Reports
<1>3. gate.pending = NoSignal
  BY <1>1, <1>2 DEF OneActionInFlight
<1>4. ~EscOnItsWay
  BY <1>2, <1>3, SignalFields DEF EscOnItsWay, IsEsc
<1>5. CASE lastEsc = 0
  BY <1>5, SignalFields
<1>6. CASE EscActedOn
  BY <1>6 DEF EscActedOn
<1>7. QED
  BY <1>4, <1>5, <1>6 DEF EscInv, EscAccounted

(* For any keys, clients and settings, an Esc pressed after what a recording came
   from has ended that recording once everything has been acted on, unless its
   discard was refused. *)
THEOREM EscapeHolds == Spec => []EscapeIsNeverLost
<1>1. Init => TypeOK /\ OneActionInFlight /\ EscInv
  BY InitType, InitInFlight, EscInvInit
<1>2. TypeOK /\ OneActionInFlight /\ EscInv /\ [Next]_vars
        => TypeOK' /\ OneActionInFlight' /\ EscInv'
  BY Preserved, EscPreserved
<1>3. TypeOK /\ OneActionInFlight /\ EscInv => EscapeIsNeverLost
  BY EscSafety
<1> QED
  BY <1>1, <1>2, <1>3, PTL DEF Spec

--------------------------------------------------------------------------------
(* Hold-to-talk *)

(* The signals that are on their way to the daemon, or that it acts on. *)
OnTheWay ==
  {s \in Signals : \/ \E i \in 1..Len(events) : events[i] = s
                   \/ gate.pending = s
                   \/ \E k \in 1..Len(actions) : actions[k] = s
                   \/ worker.at \in {"taken", "acting"} /\ worker.event = s}

(* A signal that ends a hold recording. *)
IsEnd(signal) == signal.signal \in {"released", "cancelled"}

(* A later end is on its way for every press that is, and one for the recording. *)
HoldEnds ==
  /\ \A press \in OnTheWay :
       press.signal = "pressed" => \E e \in OnTheWay : IsEnd(e) /\ press.nth < e.nth
  /\ phase = "recording" /\ origin.by = "hold" => \E e \in OnTheWay : IsEnd(e)

(* No press waits in the gate. *)
EndsWait == gate.pending.signal # "pressed"

(* Undisturbed, a hold recording is one of hold mode, and an end is on its way for it
   and for every press once the chord is up. *)
HoldComesToAnEnd ==
  /\ saving = "none" /\ ~capturing
  /\ phase = "recording" /\ origin.by = "hold" => mode = "hold"
  /\ mode = "hold" /\ ~tracker.matched => HoldEnds

(* The inductive invariant of UndisturbedHoldIsOver. *)
HoldInv == EndsWait /\ (~disturbed => HoldComesToAnEnd)

(* What is on its way is a numbered signal, and no later than the last input. *)
LEMMA WayFields ==
  ASSUME TypeOK, EscInv, NEW s \in OnTheWay
  PROVE  s \in Signals /\ s.kind = "signal" /\ s.nth \in Nat /\ s.nth <= inputs
<1>1. s \in Signals /\ s.kind = "signal" /\ s.nth \in Nat
  BY BoundsAssumption DEF OnTheWay, Signals
<1>2. s.nth <= inputs
  <2>1. CASE \E i \in 1..Len(events) : events[i] = s
    BY <1>1, <2>1 DEF EscInv, InOrder, SignalAt
  <2>2. CASE gate.pending = s
    BY <2>2 DEF EscInv, InOrder
  <2>3. CASE \E k \in 1..Len(actions) : actions[k] = s
    BY <2>3 DEF EscInv, InOrder
  <2>4. CASE worker.event = s
    BY <2>4 DEF EscInv, InOrder
  <2>5. QED
    BY <2>1, <2>2, <2>3, <2>4 DEF OnTheWay
<1>3. QED
  BY <1>1, <1>2

(* While the channels, the gate and the worker stay, so does what is on its way. *)
LEMMA SameWay ==
  ASSUME UNCHANGED <<events, gate, actions, worker>>
  PROVE  OnTheWay' = OnTheWay
BY DEF OnTheWay

(* Ends that are on their way go on ending what they did, unless the one that is
   taken off was the end of an earlier press. *)
LEMMA EndsKept ==
  ASSUME HoldEnds, OnTheWay' \subseteq OnTheWay,
         NEW gone, OnTheWay \subseteq OnTheWay' \cup {gone},
         \A press \in OnTheWay' : press.signal = "pressed" =>
            \/ ~IsEnd(gone)
            \/ ~(press.nth < gone.nth)
            \/ \E e \in OnTheWay' : IsEnd(e) /\ press.nth < e.nth,
         phase' = "recording" /\ origin'.by = "hold" => \E e \in OnTheWay' : IsEnd(e)
  PROVE  HoldEnds'
<1>1. ASSUME NEW press \in OnTheWay', press.signal = "pressed"
      PROVE  \E e \in OnTheWay' : IsEnd(e) /\ press.nth < e.nth
  <2>1. PICK e \in OnTheWay : IsEnd(e) /\ press.nth < e.nth
    BY <1>1 DEF HoldEnds
  <2>2. CASE e = gone
    BY <1>1, <2>1, <2>2
  <2>3. CASE e # gone
    BY <2>1, <2>3
  <2>4. QED
    BY <2>2, <2>3
<1>2. QED
  BY <1>1 DEF HoldEnds, IsEnd

(* What a transition of the tracker reports is whether the match began or ended. *)
LEMMA TransitionTells ==
  ASSUME NEW t \in Trackers(Keyboards)
  PROVE  /\ TransitionSignal(t) = "none" => Transition(t).matched = t.matched
         /\ TransitionSignal(t) = "pressed" => Transition(t).matched
         /\ ~SwallowUntilRelease(t).matched
         /\ \A k \in Keyboards : /\ ChordCompletes(t, k).matched = t.matched
                                /\ ChordBreaks(t, k).matched = t.matched
BY DEF Trackers, Transition, TransitionSignal, Matches, SwallowUntilRelease, ChordCompletes, ChordBreaks

(* Keys: the chord's coming up sends an end behind everything else. *)
LEMMA KeysKeepHold ==
  ASSUME TypeOK, EscInv, ListenerSteps, HoldComesToAnEnd, ~capturing'
  PROVE  HoldComesToAnEnd'
<1>0. /\ events \in Seq(Messages) /\ Len(events) \in Nat /\ tracker \in Trackers(Keyboards)
      /\ inputs \in Nat /\ inputs \in 0..MaxInputs /\ now \in 0..MaxTicks
  BY SignalFields DEF TypeOK
<1>1. UNCHANGED <<gate, actions, worker, phase, origin, mode, saving>> /\ ~capturing /\ saving = "none"
  BY DEF ListenerSteps, KeyDown, KeyUp, Disconnect, OtherKey, KeyEvent, Esc, ArmCapture, CaptureEnds,
         OutsideListener, daemon, HoldComesToAnEnd
<1>2. ASSUME UNCHANGED events, tracker'.matched = tracker.matched
      PROVE  HoldComesToAnEnd'
  <2>1. OnTheWay' = OnTheWay
    BY <1>1, <1>2, SameWay
  <2>2. QED
    BY <1>1, <1>2, <2>1 DEF HoldComesToAnEnd, HoldEnds, IsEnd
<1>3. ASSUME tracker'.matched
      PROVE  HoldComesToAnEnd'
  BY <1>1, <1>3 DEF HoldComesToAnEnd
<1>4. ASSUME NEW signal \in {"released", "cancelled"}, inputs < MaxInputs,
             events' = Append(events, [kind |-> "signal", signal |-> signal, at |-> now, nth |-> inputs + 1])
      PROVE  HoldComesToAnEnd'
  <2> DEFINE message == [kind |-> "signal", signal |-> signal, at |-> now, nth |-> inputs + 1]
  <2>1. message \in Signals /\ message \in Messages /\ message.nth = inputs + 1 /\ message.signal = signal
    BY <1>0, <1>4, BoundsAssumption DEF Messages, Signals
  <2> HIDE DEF message
  <2>2. /\ Len(events') = Len(events) + 1 /\ events'[Len(events) + 1] = message
        /\ \A i \in 1..Len(events) : events'[i] = events[i]
    BY <1>0, <1>4, <2>1, ChannelAppended DEF message
  <2>3. message \in OnTheWay'
    BY <1>0, <2>1, <2>2 DEF OnTheWay
  <2>4. \A s \in OnTheWay' : s = message \/ s \in OnTheWay
    BY <1>0, <1>1, <2>2 DEF OnTheWay
  <2>5. \A s \in OnTheWay : s.nth < message.nth
    BY <1>0, <2>1, WayFields
  <2>6. IsEnd(message) /\ message.signal # "pressed"
    BY <2>1 DEF IsEnd
  <2>7. HoldEnds'
    BY <2>3, <2>4, <2>5, <2>6 DEF HoldEnds, IsEnd
  <2>8. QED
    BY <1>1, <2>7 DEF HoldComesToAnEnd
<1>5. ASSUME NEW t \in Trackers(Keyboards), t.matched = tracker.matched, tracker' = Transition(t),
             inputs < MaxInputs, Sends(TransitionSignal(t))
      PROVE  HoldComesToAnEnd'
  <2>1. TransitionSignal(t) \in {"none", "pressed", "released"}
    BY TrackerType
  <2>2. CASE TransitionSignal(t) = "none"
    BY <1>2, <1>5, <2>2, TransitionTells DEF Sends
  <2>3. CASE TransitionSignal(t) = "pressed"
    BY <1>3, <1>5, <2>3, TransitionTells
  <2>4. CASE TransitionSignal(t) = "released"
    BY <1>4, <1>5, <2>4 DEF Sends
  <2>5. QED
    BY <2>1, <2>2, <2>3, <2>4
<1>6. ASSUME NEW t \in Trackers(Keyboards), t.matched = tracker.matched, NEW pressed, KeyEvent(t, pressed)
      PROVE  HoldComesToAnEnd'
  BY <1>1, <1>5, <1>6 DEF KeyEvent, Input
<1>7. ASSUME NEW k \in Keyboards, KeyDown(k) \/ KeyUp(k) \/ Disconnect(k)
      PROVE  HoldComesToAnEnd'
  <2>1. /\ ChordCompletes(tracker, k) \in Trackers(Keyboards) /\ ChordBreaks(tracker, k) \in Trackers(Keyboards)
        /\ ChordCompletes(tracker, k).matched = tracker.matched
        /\ ChordBreaks(tracker, k).matched = tracker.matched
    BY <1>0, TrackerType, TransitionTells
  <2>2. CASE KeyDown(k) \/ KeyUp(k)
    BY <1>6, <2>1, <2>2 DEF KeyDown, KeyUp
  <2>3. CASE Disconnect(k)
    BY <1>5, <2>1, <2>3 DEF Disconnect, Input
  <2>4. QED
    BY <1>7, <2>2, <2>3
<1>8. CASE OtherKey
  BY <1>0, <1>6, <1>8 DEF OtherKey
<1>9. CASE Esc
  BY <1>1, <1>4, <1>9 DEF Esc, Input, Sends
<1>10. CASE ArmCapture \/ CaptureEnds
  BY <1>1, <1>10 DEF ArmCapture, CaptureEnds
<1>11. QED
  BY <1>7, <1>8, <1>9, <1>10 DEF ListenerSteps

(* In hold mode the loop drops an end only when there is nothing to end, or when an
   Esc that came later than every press waits already. *)
LEMMA LoopKeepsHold ==
  ASSUME TypeOK, OneActionInFlight, EscInv, EndsWait, LoopSteps
  PROVE  EndsWait' /\ (HoldComesToAnEnd => HoldComesToAnEnd')
<1>0. /\ events \in Seq(Messages) /\ Len(events) \in Nat /\ NoSignal.signal = "none"
      /\ gate.pending.nth \in Nat /\ worker.event.nth \in Nat
  BY SignalFields
<1>1. /\ UNCHANGED <<worker, phase, origin, mode, capturing>> /\ events # <<>> /\ events' = Tail(events)
  BY DEF LoopSteps, DropSignal, DispatchSignal, QueueSignal, CompleteAction, ReconfigureListener, Receive,
         OutsideDispatch, daemon
<1> DEFINE first == events[1]
<1>2. /\ Len(events) >= 1 /\ Len(events') = Len(events) - 1 /\ Head(events) = first /\ 1 \in 1..Len(events)
      /\ \A i \in 1..Len(events') : events'[i] = events[i + 1] /\ i + 1 \in 1..Len(events)
  BY <1>0, <1>1, ChannelTaken
<1>3. \A s : (\E i \in 1..Len(events) : events[i] = s)
              <=> (s = first \/ \E i \in 1..Len(events') : events'[i] = s)
  <2>1. ASSUME NEW i \in 1..Len(events), i # 1
        PROVE  \E j \in 1..Len(events') : events'[j] = events[i]
    <3>1. i - 1 \in 1..Len(events') /\ (i - 1) + 1 = i
      BY <1>0, <1>2, <2>1
    <3>2. QED
      BY <1>2, <3>1
  <2>2. QED
    BY <1>2, <2>1, ZenonT(40)
<1>4. ASSUME first.kind = "signal", NEW i \in 1..Len(events'), SignalAt(i)'
      PROVE  first.nth < events'[i].nth
  BY <1>0, <1>1, <1>4, LaterThanFirst DEF SignalAt
<1>5. ASSUME first.kind = "signal"
      PROVE  /\ first.nth \in Nat /\ first \in Signals
             /\ gate.pending.nth < first.nth /\ worker.event.nth < first.nth
             /\ \A k \in 1..Len(actions) : actions[k].nth < first.nth
  <2>1. first \in Signals /\ first.nth \in Nat
    BY <1>0, <1>2, <1>5, MessageKinds, SignalFields DEF SignalAt
  <2>2. SignalAt(1)
    BY <1>5 DEF SignalAt
  <2>3. QED
    BY <1>2, <2>1, <2>2 DEF EscInv, InOrder
<1>6. CASE DropSignal
  <2>1. /\ first.kind = "signal" /\ UNCHANGED <<gate, actions, tracker, saving>>
        /\ Heeds(first) => ~Accepts(gate, mode, first) /\ ~Queues(gate, mode, first)
    BY <1>2, <1>6 DEF DropSignal, Receive, OutsideDispatch
  <2>2. EndsWait'
    BY <2>1 DEF EndsWait
  <2>3. ASSUME HoldComesToAnEnd, mode = "hold", HoldEnds
        PROVE  HoldEnds'
    <3>1. /\ OnTheWay' \subseteq OnTheWay
          /\ OnTheWay \subseteq OnTheWay' \cup {first}
      BY <1>1, <1>3, <2>1 DEF OnTheWay
    <3>2. CASE ~IsEnd(first)
      <4>1. phase = "recording" /\ origin.by = "hold" => \E e \in OnTheWay' : IsEnd(e)
        BY <2>3, <3>1, <3>2 DEF HoldEnds
      <4>2. QED
        BY <1>1, <2>3, <3>1, <3>2, <4>1, EndsKept
    <3>3. CASE IsEnd(first) /\ ~Heeds(first)
      <4>1. ~IsRecording /\ ~gate.inFlight
        BY <3>3 DEF Heeds, IgnoresCancel
      <4>2. phase # "recording" /\ actions = <<>> /\ worker = Resting /\ gate.pending = NoSignal
        BY <4>1 DEF IsRecording, OneActionInFlight
      <4>3. \A s \in OnTheWay' : s \in Signals /\ \E i \in 1..Len(events') : events'[i] = s
        <5>1. Len(actions) = 0 /\ worker.at = "resting" /\ NoSignal \notin Signals
          BY <4>2 DEF Resting, NoSignal, Signals
        <5>2. QED
          BY <1>1, <2>1, <4>2, <5>1 DEF OnTheWay
      <4>4. \A s \in OnTheWay' : first.nth < s.nth
        BY <1>4, <2>1, <4>3 DEF Signals, SignalAt
      <4>5. \A s \in OnTheWay' : s.nth \in Nat
        BY <3>1, WayFields
      <4>6. \A s \in OnTheWay' : ~(s.nth < first.nth)
        BY <1>5, <2>1, <4>4, <4>5
      <4>7. QED
        BY <1>1, <2>3, <3>1, <4>2, <4>6, EndsKept
    <3>4. CASE IsEnd(first) /\ Heeds(first)
      <4>1. gate.inFlight /\ gate.pending.signal = "cancelled"
        BY <2>1, <2>3, <3>4 DEF Accepts, Queues, Refused, ToggleRelease, ToggleRearming, ShouldQueueTerminal, IsEnd
      <4>2. gate.pending \in OnTheWay' /\ IsEnd(gate.pending) /\ gate.pending # NoSignal
        <5>1. gate.pending # NoSignal
          BY <1>0, <4>1
        <5>2. gate.pending \in Signals
          BY <5>1 DEF TypeOK
        <5>3. QED
          BY <2>1, <4>1, <5>1, <5>2 DEF OnTheWay, IsEnd
      <4>3. ASSUME NEW press \in OnTheWay', press.signal = "pressed"
            PROVE  \/ ~(press.nth < first.nth)
                   \/ press.nth < gate.pending.nth
        <5>1. press \in Signals /\ press.kind = "signal" /\ press.nth \in Nat
          BY <3>1, <4>3, WayFields
        <5>2. CASE \E i \in 1..Len(events') : events'[i] = press
          BY <1>4, <1>5, <2>1, <5>1, <5>2 DEF SignalAt
        <5>3. CASE \E k \in 1..Len(actions) : actions[k] = press
          BY <4>2, <5>3 DEF EscInv, InOrder
        <5>4. CASE worker.event = press
          BY <4>2, <5>4 DEF EscInv, InOrder
        <5>5. gate.pending # press
          BY <4>3 DEF EndsWait
        <5>6. QED
          BY <1>1, <2>1, <4>3, <5>2, <5>3, <5>4, <5>5 DEF OnTheWay
      <4>4. QED
        BY <1>1, <2>3, <3>1, <4>2, <4>3, EndsKept
    <3>5. QED
      BY <3>2, <3>3, <3>4
  <2>4. QED
    BY <1>1, <2>1, <2>2, <2>3 DEF HoldComesToAnEnd
<1>7. CASE DispatchSignal
  <2>1. /\ first.kind = "signal" /\ gate' = [gate EXCEPT !.inFlight = TRUE] /\ actions' = Append(actions, first)
        /\ ~gate.inFlight /\ UNCHANGED <<tracker, saving>>
    BY <1>2, <1>7 DEF DispatchSignal, Receive, Accepts, OutsideDispatch
  <2>2. actions = <<>> /\ gate'.pending = gate.pending
    BY <2>1 DEF OneActionInFlight, TypeOK
  <2>3. Len(actions) = 0 /\ Len(actions') = 1 /\ actions'[1] = first
    BY <2>1, <2>2
  <2>4. OnTheWay' = OnTheWay
    <3>1. \A s : /\ (\E k \in 1..Len(actions') : actions'[k] = s) <=> s = first
                /\ ~\E k \in 1..Len(actions) : actions[k] = s
      BY <2>3
    <3>2. QED
      BY <1>1, <1>3, <2>2, <3>1, ZenonT(40) DEF OnTheWay
  <2>5. QED
    BY <1>1, <2>1, <2>2, <2>4 DEF EndsWait, HoldComesToAnEnd, HoldEnds, IsEnd
<1>8. CASE QueueSignal
  <2>1. /\ first.kind = "signal" /\ gate' = [gate EXCEPT !.pending = first] /\ UNCHANGED <<actions, tracker, saving>>
        /\ ShouldQueueTerminal(gate, mode, first)
    BY <1>2, <1>8 DEF QueueSignal, Receive, Queues, OutsideDispatch
  <2>2. gate'.pending = first /\ IsEnd(first)
    BY <2>1 DEF TypeOK, ShouldQueueTerminal, IsEnd
  <2>3. EndsWait'
    BY <2>2 DEF EndsWait, IsEnd
  <2>4. ASSUME HoldEnds PROVE HoldEnds'
    <3>1. first \in OnTheWay'
      BY <1>5, <2>1, <2>2 DEF OnTheWay
    <3>2. OnTheWay' \subseteq OnTheWay /\ OnTheWay \subseteq OnTheWay' \cup {gate.pending}
      BY <1>1, <1>3, <2>1, <2>2 DEF OnTheWay
    <3>3. ASSUME NEW press \in OnTheWay', press.signal = "pressed"
          PROVE  ~(press.nth < gate.pending.nth) \/ press.nth < first.nth
      <4>1. press \in Signals /\ press.kind = "signal" /\ press.nth \in Nat
        BY <3>2, <3>3, WayFields
      <4>2. CASE \E i \in 1..Len(events') : events'[i] = press
        <5>1. first.nth < press.nth
          BY <1>4, <2>1, <4>1, <4>2 DEF SignalAt
        <5>2. QED
          BY <1>0, <1>5, <2>1, <4>1, <5>1
      <4>3. CASE \E k \in 1..Len(actions) : actions[k] = press
        BY <1>5, <2>1, <4>3
      <4>4. CASE worker.event = press
        BY <1>5, <2>1, <4>4
      <4>5. gate'.pending # press
        BY <2>2, <3>3 DEF IsEnd
      <4>6. QED
        BY <1>1, <2>1, <3>3, <4>2, <4>3, <4>4, <4>5 DEF OnTheWay
    <3>4. QED
      BY <2>2, <2>4, <3>1, <3>2, <3>3, EndsKept
  <2>5. QED
    BY <1>1, <2>1, <2>3, <2>4 DEF HoldComesToAnEnd
<1>9. CASE CompleteAction
  <2>1. /\ first.kind = "finished" /\ gate' = Complete(gate, first.toggled, first.at)
        /\ actions' = IF gate.pending = NoSignal THEN actions ELSE Append(actions, gate.pending)
        /\ UNCHANGED <<tracker, saving>>
    BY <1>2, <1>9 DEF CompleteAction, Receive, OutsideDispatch
  <2>2. actions = <<>> /\ gate'.pending = NoSignal
    <3>1. 1 \in Reports(events)
      BY <2>1, <1>0, <1>2, TakenMessage, <1>1
    <3>2. QED
      BY <3>1, <2>1 DEF OneActionInFlight, Complete
  <2>3. first \notin Signals /\ NoSignal \notin Signals
    BY <2>1 DEF Signals, NoSignal
  <2>4. OnTheWay' = OnTheWay
    <3>1. CASE gate.pending = NoSignal
      BY <1>1, <1>3, <2>1, <2>2, <2>3, <3>1 DEF OnTheWay
    <3>2. CASE gate.pending # NoSignal
      <4>1. Len(actions) = 0 /\ Len(actions') = 1 /\ actions'[1] = gate.pending
        BY <2>1, <2>2, <3>2
      <4>2. QED
        BY <1>1, <1>3, <2>2, <2>3, <4>1 DEF OnTheWay
    <3>3. QED
      BY <3>1, <3>2
  <2>5. QED
    BY <1>0, <1>1, <2>1, <2>2, <2>4 DEF EndsWait, HoldComesToAnEnd, HoldEnds, IsEnd
<1>10. CASE ReconfigureListener
  <2>1. first.kind = "reconfigure" /\ UNCHANGED gate
    BY <1>2, <1>10 DEF ReconfigureListener, Receive
  <2>2. saving = "asked"
    BY <1>2, <2>1 DEF EscInv, SaveWaits
  <2>3. QED
    BY <2>1, <2>2 DEF HoldComesToAnEnd, EndsWait
<1>11. QED
  BY <1>6, <1>7, <1>8, <1>9, <1>10 DEF LoopSteps

(* The worker is done with an end when the recording is over, and with a press when
   its end is on the way. *)
LEMMA WorkerKeepsHold ==
  ASSUME TypeOK, OneActionInFlight, EscInv, EndsWait, WorkerSteps, ~Disturbs
  PROVE  EndsWait' /\ (HoldComesToAnEnd => HoldComesToAnEnd')
<1>0. /\ events \in Seq(Messages) /\ actions \in Seq(Signals) /\ Len(events) \in Nat /\ Len(actions) \in Nat
      /\ worker.event.nth \in Nat
  BY SignalFields
<1>1. UNCHANGED <<gate, tracker, capturing, saving, mode>>
  BY DEF WorkerSteps, TakeAction, TriggerBegins, TriggerIgnored, TriggerEnds, ReportFinished, OutsideDaemon,
         listener, dispatch
<1>2. EndsWait'
  BY <1>1 DEF EndsWait
<1>3. ASSUME OnTheWay' = OnTheWay, phase' = "recording" => phase = "recording" /\ UNCHANGED origin
      PROVE  HoldComesToAnEnd => HoldComesToAnEnd'
  BY <1>1, <1>3 DEF HoldComesToAnEnd, HoldEnds, IsEnd
<1>4. ASSUME worker.at \in {"taken", "acting"}, worker'.at = "done", UNCHANGED <<events, actions>>,
             mode = "hold" /\ IsEnd(worker.event) => phase' # "recording",
             phase' = "recording" /\ origin'.by = "hold" =>
               \/ mode = "hold" /\ phase = "recording" /\ UNCHANGED origin
               \/ mode = "hold" /\ worker.event.signal = "pressed"
      PROVE  HoldComesToAnEnd => HoldComesToAnEnd'
  <2>1. ASSUME HoldEnds, mode = "hold" PROVE HoldEnds'
    <3>1. OnTheWay' \subseteq OnTheWay /\ OnTheWay \subseteq OnTheWay' \cup {worker.event}
      BY <1>1, <1>4 DEF OnTheWay
    <3>2. actions = <<>> /\ Len(actions) = 0
      BY <1>4 DEF OneActionInFlight, Resting
    <3>3. ASSUME NEW press \in OnTheWay', press.signal = "pressed"
          PROVE  ~(press.nth < worker.event.nth)
      <4>1. press \in Signals /\ press.kind = "signal" /\ press.nth \in Nat
        BY <3>1, <3>3, WayFields
      <4>2. PICK i \in 1..Len(events) : events[i] = press
        BY <1>1, <1>4, <3>2, <3>3 DEF OnTheWay, EndsWait
      <4>3. worker.event.nth < press.nth
        BY <4>1, <4>2 DEF EscInv, InOrder, SignalAt
      <4>4. QED
        BY <1>0, <4>1, <4>3
    <3>4. ASSUME phase' = "recording", origin'.by = "hold"
          PROVE  \E e \in OnTheWay' : IsEnd(e)
      <4>1. ~IsEnd(worker.event)
        BY <1>4, <2>1, <3>4
      <4>2. CASE phase = "recording" /\ UNCHANGED origin
        BY <2>1, <3>1, <3>4, <4>1, <4>2 DEF HoldEnds
      <4>3. CASE worker.event.signal = "pressed"
        <5>1. worker.event \in OnTheWay
          <6>1. worker.event \in Signals
            BY <4>3 DEF TypeOK, NoSignal
          <6>2. QED
            BY <1>4, <6>1 DEF OnTheWay
        <5>2. QED
          BY <2>1, <3>1, <4>1, <4>3, <5>1 DEF HoldEnds
      <4>4. QED
        BY <1>4, <3>4, <4>2, <4>3
    <3>5. QED
      BY <2>1, <3>1, <3>3, <3>4, EndsKept
  <2>2. QED
    BY <1>1, <1>4, <2>1 DEF HoldComesToAnEnd
<1>5. CASE TakeAction
  <2>1. /\ worker = Resting /\ actions # <<>> /\ actions' = Tail(actions)
        /\ worker' = [Resting EXCEPT !.at = "taken", !.event = Head(actions)]
        /\ UNCHANGED <<events, phase, origin>>
    BY <1>5 DEF TakeAction, daemon
  <2>2. Len(actions) = 1 /\ Head(actions) = actions[1] /\ Len(actions') = 0
    <3>1. PICK n \in Nat : n = Len(actions)
      BY <1>0
    <3>2. n <= 1 /\ n # 0
      BY <1>0, <2>1, <3>1 DEF OneActionInFlight
    <3>3. QED
      BY <1>0, <2>1, <3>1, <3>2
  <2>3. worker.at = "resting" /\ worker'.at = "taken" /\ worker'.event = actions[1]
    BY <2>1, <2>2 DEF Resting
  <2>4. \A s : (\E k \in 1..Len(actions) : actions[k] = s) <=> s = worker'.event
    BY <2>2, <2>3
  <2>5. ~\E k \in 1..Len(actions') : TRUE
    BY <2>2
  <2>6. OnTheWay' = OnTheWay
    BY <1>1, <2>1, <2>3, <2>4, <2>5 DEF OnTheWay
  <2>7. QED
    BY <1>2, <1>3, <2>1, <2>6
<1>6. CASE TriggerBegins
  <2>1. /\ worker.at = "taken" /\ worker' = [worker EXCEPT !.at = "acting"]
        /\ UNCHANGED <<events, actions, origin>>
        /\ phase' = "recording" => phase = "recording"
    BY <1>6 DEF TriggerBegins, Begin, OutsideDaemon, dispatch
  <2>2. worker'.at = "acting" /\ worker'.event = worker.event
    BY <2>1 DEF TypeOK
  <2>3. OnTheWay' = OnTheWay
    BY <1>1, <2>1, <2>2 DEF OnTheWay
  <2>4. QED
    BY <1>2, <1>3, <2>1, <2>3
<1>7. CASE TriggerIgnored
  <2>1. /\ worker.at = "taken" /\ worker' = [worker EXCEPT !.at = "done"]
        /\ UNCHANGED <<events, actions, phase, origin>>
    BY <1>7 DEF TriggerIgnored, dispatch, daemon
  <2>2. worker'.at = "done"
    BY <2>1 DEF TypeOK
  <2>3. LifecycleAction(worker.event.signal) = "none"
    BY <2>1, <2>2 DEF Disturbs
  <2>4. mode = "hold" /\ IsEnd(worker.event) => phase' # "recording"
    BY <2>1, <2>3 DEF LifecycleAction, IsRecording, IsEnd
  <2>5. ASSUME HoldComesToAnEnd PROVE HoldComesToAnEnd'
    <3>1. phase' = "recording" /\ origin'.by = "hold" => mode = "hold" /\ phase = "recording" /\ UNCHANGED origin
      BY <2>1, <2>5 DEF HoldComesToAnEnd
    <3>2. QED
      BY <1>4, <2>1, <2>2, <2>4, <2>5, <3>1
  <2>6. QED
    BY <1>2, <2>5
<1>8. CASE TriggerEnds
  <2>1. /\ worker.at = "acting"
        /\ phase' \in Ends(holder.action)
        /\ worker' = [worker EXCEPT !.at = "done",
                                    !.toggled = phase' = "recording" /\ mode = "toggle"]
        /\ phase' = "recording" =>
             origin' = [by |-> mode, nth |-> worker.event.nth, rearmAt |-> now + 1]
        /\ UNCHANGED <<events, actions>>
    BY <1>8 DEF TriggerEnds, End, OutsideDaemon, dispatch
  <2>2. worker'.at = "done"
    BY <2>1 DEF TypeOK
  <2>3. phase' = "recording" => worker.event.signal = "pressed" /\ origin'.by = mode
    BY <2>1 DEF Ends, EscInv, HolderActs
  <2>4. mode = "hold" /\ IsEnd(worker.event) => phase' # "recording"
    BY <2>3 DEF IsEnd
  <2>5. QED
    BY <1>2, <1>4, <2>1, <2>2, <2>3, <2>4
<1>9. CASE ReportFinished
  <2> DEFINE message == [kind |-> "finished", toggled |-> worker.toggled, at |-> now]
  <2>1. /\ worker.at = "done" /\ events' = Append(events, message) /\ worker' = Resting
        /\ UNCHANGED <<actions, phase, origin>>
    BY <1>9 DEF ReportFinished, daemon
  <2>2. message \in Messages /\ message.kind = "finished"
    BY DEF Messages, ActionFinished, TypeOK
  <2> HIDE DEF message
  <2>3. /\ \A i \in 1..Len(events') :
             SignalAt(i)' => i \in 1..Len(events) /\ SignalAt(i) /\ events'[i] = events[i]
        /\ \A i \in 1..Len(events) :
             i \in 1..Len(events') /\ events'[i] = events[i] /\ (SignalAt(i)' <=> SignalAt(i))
    BY <1>0, <2>1, <2>2, OtherMessage
  <2>4. worker'.at = "resting"
    BY <2>1 DEF Resting
  <2>5. OnTheWay' = OnTheWay
    <3>1. \A s \in Signals : (\E i \in 1..Len(events') : events'[i] = s)
                              <=> (\E i \in 1..Len(events) : events[i] = s)
      BY <2>3 DEF SignalAt, Signals
    <3>2. QED
      BY <1>1, <2>1, <2>4, <3>1 DEF OnTheWay
  <2>6. QED
    BY <1>2, <1>3, <2>1, <2>5
<1>10. QED
  BY <1>5, <1>6, <1>7, <1>8, <1>9 DEF WorkerSteps

(* Clients begin no hold recording, and an undisturbed behaviour has no save. *)
LEMMA OtherKeepsHold ==
  ASSUME TypeOK, EndsWait, OtherSteps, ~Disturbs
  PROVE  EndsWait' /\ (HoldComesToAnEnd => HoldComesToAnEnd')
<1>1. UNCHANGED <<gate, tracker, capturing, actions, worker>>
  BY DEF OtherSteps, ClientActs, ClientDone, ProcessingEnds, SaveMode, SaveHotkey, SaveEnds, TimePasses,
         OutsideDaemon, listener, dispatch
<1>2. EndsWait'
  BY <1>1 DEF EndsWait
<1>3. UNCHANGED <<mode, saving>>
  BY DEF Disturbs
<1>4. ASSUME HoldComesToAnEnd, UNCHANGED events, phase' = "recording" => origin'.by # "hold" \/ (phase = "recording" /\ UNCHANGED origin)
      PROVE  HoldComesToAnEnd'
  <2>1. OnTheWay' = OnTheWay
    BY <1>1, <1>4, SameWay
  <2>2. QED
    BY <1>1, <1>3, <1>4, <2>1 DEF HoldComesToAnEnd, HoldEnds, IsEnd
<1>5. CASE ClientActs \/ ProcessingEnds \/ SaveMode \/ SaveEnds \/ TimePasses
  BY <1>2, <1>4, <1>5 DEF ClientActs, Begin, ProcessingEnds, SaveMode, SaveEnds, TimePasses, OutsideDaemon, dispatch, daemon
<1>6. CASE ClientDone
  <2>1. UNCHANGED events /\ (phase' = "recording" => origin'.by = "client")
    BY <1>6 DEF ClientDone, OutsideDaemon, dispatch
  <2>2. QED
    BY <1>2, <1>4, <2>1
<1>7. CASE SaveHotkey
  <2>1. saving' = "asked"
    BY <1>7 DEF SaveHotkey
  <2>2. QED
    BY <1>2, <1>3, <2>1 DEF HoldComesToAnEnd
<1>8. QED
  BY <1>5, <1>6, <1>7 DEF OtherSteps

(* For any keys and clients, once everything has been acted on, a recording the
   shortcut started in hold mode runs only while the chord is held, as long as no mode,
   shortcut, capture or refusal comes between. *)
THEOREM HoldIsOver == MCSpec => []UndisturbedHoldIsOver
<1> DEFINE Inv == TypeOK /\ OneActionInFlight /\ EscInv /\ HoldInv
<1>1. MCInit => Inv
  <2> SUFFICES ASSUME MCInit PROVE Inv
    OBVIOUS
  <2>1. TypeOK /\ OneActionInFlight /\ EscInv
    BY InitType, InitInFlight, EscInvInit DEF MCInit
  <2>2. events = <<>> /\ actions = <<>> /\ gate.pending = NoSignal /\ worker.at = "resting"
        /\ phase = "idle" /\ saving = "none" /\ ~capturing /\ NoSignal.signal = "none" /\ NoSignal \notin Signals
    BY DEF MCInit, Init, NewGate, Resting, NoSignal, Signals
  <2>3. Len(events) = 0 /\ Len(actions) = 0
    BY <2>2
  <2>4. OnTheWay = {}
    BY <2>2, <2>3 DEF OnTheWay
  <2>5. QED
    BY <2>1, <2>2, <2>4 DEF HoldInv, EndsWait, HoldComesToAnEnd, HoldEnds
<1>2. Inv /\ [MCNext]_mcVars => Inv'
  <2> SUFFICES ASSUME Inv, [MCNext]_mcVars PROVE Inv'
    OBVIOUS
  <2>1. TypeOK' /\ OneActionInFlight' /\ EscInv'
    BY Preserved, EscPreserved DEF MCNext, mcVars
  <2>2. CASE MCNext
    <3>1. Next /\ disturbed' = (disturbed \/ Disturbs)
      BY <2>2 DEF MCNext
    <3>2. CASE ListenerSteps
      <4>1. UNCHANGED gate
        BY <3>2 DEF ListenerSteps, KeyDown, KeyUp, Disconnect, OtherKey, KeyEvent, Esc, ArmCapture, CaptureEnds,
           OutsideListener
      <4>2. ~disturbed' => ~disturbed /\ ~capturing'
        BY <3>1 DEF Disturbs
      <4>3. HoldInv'
        BY <3>2, <4>1, <4>2, KeysKeepHold DEF HoldInv, EndsWait
      <4>4. QED
        BY <2>1, <4>3
    <3>3. CASE LoopSteps
      BY <2>1, <3>1, <3>3, LoopKeepsHold DEF HoldInv
    <3>4. CASE WorkerSteps
      <4>1. UNCHANGED gate
        BY <3>4 DEF WorkerSteps, TakeAction, TriggerBegins, TriggerIgnored, TriggerEnds, ReportFinished,
           OutsideDaemon, dispatch
      <4>2. EndsWait'
        BY <4>1 DEF HoldInv, EndsWait
      <4>3. QED
        BY <2>1, <3>1, <3>4, <4>2, WorkerKeepsHold DEF HoldInv
    <3>5. CASE OtherSteps
      <4>1. UNCHANGED gate
        BY <3>5 DEF OtherSteps, ClientActs, ClientDone, ProcessingEnds, SaveMode, SaveHotkey, SaveEnds,
           TimePasses, OutsideDaemon, dispatch
      <4>2. EndsWait'
        BY <4>1 DEF HoldInv, EndsWait
      <4>3. QED
        BY <2>1, <3>1, <3>5, <4>2, OtherKeepsHold DEF HoldInv
    <3>6. QED
      BY <3>1, <3>2, <3>3, <3>4, <3>5 DEF Next
  <2>3. CASE UNCHANGED mcVars
    <3>1. UNCHANGED <<events, gate, actions, worker, phase, origin, mode, saving, capturing, tracker, disturbed>>
      BY <2>3 DEF mcVars, vars
    <3>2. OnTheWay' = OnTheWay
      BY <3>1, SameWay
    <3>3. QED
      BY <2>1, <3>1, <3>2 DEF HoldInv, EndsWait, HoldComesToAnEnd, HoldEnds, IsEnd
  <2>4. QED
    BY <2>2, <2>3
<1>3. Inv => UndisturbedHoldIsOver
  <2> SUFFICES ASSUME Inv, ~disturbed, Quiet, phase = "recording", origin.by = "hold", ~tracker.matched
               PROVE  FALSE
    BY DEF UndisturbedHoldIsOver, ReleasedHoldIsOver, TypeOK, Trackers
  <2>1. events = <<>> /\ actions = <<>> /\ worker = Resting
    BY DEF Quiet
  <2>2. Len(events) = 0 /\ Len(actions) = 0 /\ worker.at = "resting" /\ Reports(events) = {}
    BY <2>1 DEF Resting, Reports
  <2>3. gate.pending = NoSignal /\ NoSignal \notin Signals
    BY <2>1, <2>2 DEF OneActionInFlight, NoSignal, Signals
  <2>4. OnTheWay = {}
    BY <2>2, <2>3 DEF OnTheWay
  <2>5. QED
    BY <2>4 DEF HoldInv, HoldComesToAnEnd, HoldEnds
<1> QED
  BY <1>1, <1>2, <1>3, PTL DEF MCSpec

--------------------------------------------------------------------------------
(* Toggle recordings *)

(* Reports and rearm times are in order with the time. *)
TimesInOrder ==
  /\ gate.rearmAt <= now + 1 /\ origin.rearmAt <= now + 1
  /\ \A i \in 1..Len(events) : events[i].kind = "finished" =>
       gate.rearmAt <= events[i].at + 1 /\ events[i].at <= now

(* Only a recording, or one that stops, has an origin. *)
OriginEnds == phase \in {"idle", "starting", "processing"} => origin.by = "nothing"

(* The gate knows when the toggle recording rearms, or will before it accepts a press. *)
RearmTold ==
  \/ origin.rearmAt <= gate.rearmAt
  \/ worker.at = "done" /\ worker.toggled
  \/ \E i \in 1..Len(events) :
       events[i].kind = "finished" /\ events[i].toggled /\ origin.rearmAt <= events[i].at + 1

(* A press the gate has accepted came after that. *)
PressesRearmed ==
  /\ \A k \in 1..Len(actions) : actions[k].signal = "pressed" => origin.rearmAt <= actions[k].at
  /\ worker.at = "taken" /\ worker.event.signal = "pressed" => origin.rearmAt <= worker.event.at

(* A toggle recording in an undisturbed behaviour. *)
ToggleRearms ==
  phase = "recording" /\ origin.by = "toggle" => mode = "toggle" /\ RearmTold /\ PressesRearmed

(* The inductive invariant of UndisturbedPressDoesNotStop. *)
ToggleInv == EndsWait /\ TimesInOrder /\ OriginEnds /\ (~disturbed => ToggleRearms)

(* The times the gate, the recording and the reports know are numbers. *)
LEMMA TimeFields ==
  ASSUME TypeOK
  PROVE  /\ events \in Seq(Messages) /\ actions \in Seq(Signals) /\ Len(events) \in Nat /\ Len(actions) \in Nat
         /\ gate.rearmAt \in Nat /\ origin.rearmAt \in Nat /\ now \in Nat
         /\ \A i \in 1..Len(events) : events[i].kind = "finished" => events[i].at \in Nat
         /\ \A k \in 1..Len(actions) : actions[k].at \in Nat
<1>1. events \in Seq(Messages) /\ actions \in Seq(Signals) /\ Len(events) \in Nat /\ Len(actions) \in Nat
  BY DEF TypeOK
<1>2. gate.rearmAt \in Nat /\ origin.rearmAt \in Nat /\ now \in Nat
  BY BoundsAssumption DEF TypeOK
<1>3. \A i \in 1..Len(events) : events[i].kind = "finished" => events[i].at \in 0..MaxTicks
  BY <1>1, MessageKinds
<1>4. \A s \in Signals : s.at \in Nat
  BY BoundsAssumption DEF Signals
<1>5. QED
  BY <1>1, <1>2, <1>3, <1>4, BoundsAssumption

(* A message that is no report leaves the reports of the channel as they are. *)
LEMMA NoReport ==
  ASSUME events \in Seq(Messages), NEW message \in Messages, message.kind # "finished",
         events' = Append(events, message)
  PROVE  /\ \A i \in 1..Len(events') :
              events'[i].kind = "finished" => i \in 1..Len(events) /\ events'[i] = events[i]
         /\ \A i \in 1..Len(events) : i \in 1..Len(events') /\ events'[i] = events[i]
<1>1. /\ Len(events) \in Nat /\ Len(events') = Len(events) + 1 /\ events'[Len(events) + 1] = message
      /\ \A i \in 1..Len(events) : events'[i] = events[i]
  BY ChannelAppended
<1>2. QED
  BY <1>1

(* The reports that stay say what they said. *)
LEMMA ReportsKept ==
  ASSUME TypeOK, TimesInOrder, UNCHANGED <<gate, origin, actions>>,
         now' \in {now, now + 1},
         \A i \in 1..Len(events') :
           events'[i].kind = "finished" => i \in 1..Len(events) /\ events'[i] = events[i],
         \A i \in 1..Len(events) : i \in 1..Len(events') /\ events'[i] = events[i]
  PROVE  /\ TimesInOrder'
         /\ (UNCHANGED worker \/ (worker.at # "done" /\ worker'.at # "taken")) /\ RearmTold /\ PressesRearmed
              => RearmTold' /\ PressesRearmed'
<1>1. now <= now' /\ gate.rearmAt <= now' + 1 /\ origin.rearmAt <= now' + 1
  BY TimeFields DEF TimesInOrder
<1>2. ASSUME NEW i \in 1..Len(events), events[i].kind = "finished"
      PROVE  events[i].at <= now'
  <2>1. events[i].at <= now /\ events[i].at \in Nat /\ now \in Nat
    BY <1>2, TimeFields DEF TimesInOrder
  <2>2. QED
    BY <2>1
<1>3. TimesInOrder'
  BY <1>1, <1>2 DEF TimesInOrder
<1>4. ASSUME UNCHANGED worker \/ (worker.at # "done" /\ worker'.at # "taken"), RearmTold, PressesRearmed
      PROVE  RearmTold' /\ PressesRearmed'
  <2>1. PressesRearmed'
    BY <1>4 DEF PressesRearmed
  <2>2. ASSUME worker.at = "done", worker.toggled PROVE RearmTold'
    BY <1>4, <2>2 DEF RearmTold
  <2>3. ASSUME origin.rearmAt <= gate.rearmAt PROVE RearmTold'
    BY <2>3 DEF RearmTold
  <2>4. ASSUME NEW i \in 1..Len(events), events[i].kind = "finished", events[i].toggled,
               origin.rearmAt <= events[i].at + 1
        PROVE  RearmTold'
    BY <2>4 DEF RearmTold
  <2>5. QED
    BY <1>4, <2>1, <2>2, <2>3, <2>4 DEF RearmTold
<1>5. QED
  BY <1>3, <1>4

(* The listener sends signals. *)
LEMMA KeysSend ==
  ASSUME TypeOK, ListenerSteps
  PROVE  UNCHANGED events
           \/ \E message \in Messages : message.kind # "finished" /\ events' = Append(events, message)
<1>0. inputs \in 0..MaxInputs /\ now \in 0..MaxTicks /\ tracker \in Trackers(Keyboards)
  BY DEF TypeOK
<1>1. ASSUME NEW signal \in {"none", "pressed", "released", "cancelled"}, inputs < MaxInputs, Sends(signal)
      PROVE  UNCHANGED events
               \/ \E message \in Messages : message.kind # "finished" /\ events' = Append(events, message)
  <2>1. CASE signal = "none"
    BY <1>1, <2>1 DEF Sends
  <2>2. CASE signal # "none"
    <3> DEFINE message == [kind |-> "signal", signal |-> signal, at |-> now, nth |-> inputs + 1]
    <3>1. message \in Messages /\ message.kind = "signal"
      BY <1>0, <1>1, <2>2, BoundsAssumption DEF Messages, Signals
    <3>2. events' = Append(events, message)
      BY <1>1, <2>2 DEF Sends
    <3>3. QED
      BY <3>1, <3>2
  <2>3. QED
    BY <2>1, <2>2
<1>2. ASSUME NEW t \in Trackers(Keyboards), inputs < MaxInputs, Sends(TransitionSignal(t))
      PROVE  UNCHANGED events
               \/ \E message \in Messages : message.kind # "finished" /\ events' = Append(events, message)
  <2>1. TransitionSignal(t) \in {"none", "pressed", "released"}
    BY TrackerType
  <2>2. QED
    BY <1>1, <1>2, <2>1
<1>3. ASSUME NEW t \in Trackers(Keyboards), NEW pressed, KeyEvent(t, pressed)
      PROVE  UNCHANGED events
               \/ \E message \in Messages : message.kind # "finished" /\ events' = Append(events, message)
  BY <1>2, <1>3 DEF KeyEvent, Input
<1>4. ASSUME NEW k \in Keyboards, KeyDown(k) \/ KeyUp(k) \/ Disconnect(k)
      PROVE  UNCHANGED events
               \/ \E message \in Messages : message.kind # "finished" /\ events' = Append(events, message)
  <2>1. ChordCompletes(tracker, k) \in Trackers(Keyboards) /\ ChordBreaks(tracker, k) \in Trackers(Keyboards)
    BY <1>0, TrackerType
  <2>2. CASE KeyDown(k) \/ KeyUp(k)
    BY <1>3, <2>1, <2>2 DEF KeyDown, KeyUp
  <2>3. CASE Disconnect(k)
    BY <1>2, <2>1, <2>3 DEF Disconnect, Input
  <2>4. QED
    BY <1>4, <2>2, <2>3
<1>5. CASE OtherKey
  BY <1>0, <1>3, <1>5 DEF OtherKey
<1>6. CASE Esc
  <2>1. inputs < MaxInputs
    BY <1>6 DEF Esc, Input
  <2>2. CASE capturing
    BY <1>1, <1>6, <2>1, <2>2 DEF Esc
  <2>3. CASE ~capturing
    BY <1>1, <1>6, <2>1, <2>3 DEF Esc
  <2>4. QED
    BY <2>2, <2>3
<1>7. CASE ArmCapture \/ CaptureEnds
  BY <1>7 DEF ArmCapture, CaptureEnds
<1>8. QED
  BY <1>4, <1>5, <1>6, <1>7 DEF ListenerSteps

(* Keys change nothing the gate or the daemon knows of the time. *)
LEMMA KeysKeepToggle ==
  ASSUME TypeOK, TimesInOrder, OriginEnds, ListenerSteps
  PROVE  TimesInOrder' /\ OriginEnds' /\ (ToggleRearms => ToggleRearms')
<1>1. UNCHANGED <<gate, actions, worker, phase, origin, mode, now>>
  BY DEF ListenerSteps, KeyDown, KeyUp, Disconnect, OtherKey, KeyEvent, Esc, ArmCapture, CaptureEnds,
         OutsideListener, daemon
<1>2. /\ \A i \in 1..Len(events') :
           events'[i].kind = "finished" => i \in 1..Len(events) /\ events'[i] = events[i]
      /\ \A i \in 1..Len(events) : i \in 1..Len(events') /\ events'[i] = events[i]
  <2>1. CASE UNCHANGED events
    BY <2>1
  <2>2. CASE \E message \in Messages : message.kind # "finished" /\ events' = Append(events, message)
    BY <2>2, NoReport, TimeFields
  <2>3. QED
    BY <2>1, <2>2, KeysSend
<1>3. TimesInOrder' /\ (RearmTold /\ PressesRearmed => RearmTold' /\ PressesRearmed')
  BY <1>1, <1>2, ReportsKept
<1>4. QED
  BY <1>1, <1>3 DEF OriginEnds, ToggleRearms

(* The loop accepts a press in toggle mode once the last recording has rearmed, which
   it has been told of before it accepts anything. *)
LEMMA LoopKeepsToggle ==
  ASSUME TypeOK, OneActionInFlight, EndsWait, TimesInOrder, OriginEnds, LoopSteps
  PROVE  TimesInOrder' /\ OriginEnds' /\ (ToggleRearms => ToggleRearms')
<1>0. /\ events \in Seq(Messages) /\ actions \in Seq(Signals) /\ Len(events) \in Nat /\ Len(actions) \in Nat
      /\ gate.rearmAt \in Nat /\ origin.rearmAt \in Nat /\ now \in Nat
      /\ \A i \in 1..Len(events) : events[i].kind = "finished" => events[i].at \in Nat
  BY TimeFields
<1>1. /\ UNCHANGED <<worker, phase, origin, mode, now>> /\ events # <<>> /\ events' = Tail(events)
  BY DEF LoopSteps, DropSignal, DispatchSignal, QueueSignal, CompleteAction, ReconfigureListener, Receive,
         OutsideDispatch, daemon
<1> DEFINE first == events[1]
<1>2. /\ Len(events) >= 1 /\ Len(events') = Len(events) - 1 /\ Head(events) = first /\ 1 \in 1..Len(events)
      /\ \A i \in 1..Len(events') : events'[i] = events[i + 1] /\ i + 1 \in 1..Len(events)
  BY <1>0, <1>1, ChannelTaken
<1>3. OriginEnds'
  BY <1>1 DEF OriginEnds
<1>4. ASSUME gate'.rearmAt = gate.rearmAt
      PROVE  TimesInOrder'
  BY <1>1, <1>2, <1>4 DEF TimesInOrder
<1>5. ASSUME first.kind # "finished" \/ ~first.toggled, gate'.rearmAt = gate.rearmAt, RearmTold
      PROVE  RearmTold'
  <2>1. CASE \E i \in 1..Len(events) :
               events[i].kind = "finished" /\ events[i].toggled /\ origin.rearmAt <= events[i].at + 1
    <3>1. PICK i \in 1..Len(events) :
               events[i].kind = "finished" /\ events[i].toggled /\ origin.rearmAt <= events[i].at + 1
      BY <2>1
    <3>2. i # 1
      BY <1>5, <3>1
    <3>3. i - 1 \in 1..Len(events') /\ (i - 1) + 1 = i
      BY <1>0, <1>2, <3>2
    <3>4. events'[i - 1] = events[i]
      BY <1>2, <3>3
    <3>5. QED
      BY <1>1, <3>1, <3>3, <3>4 DEF RearmTold
  <2>2. CASE worker.at = "done" /\ worker.toggled
    BY <1>1, <2>2 DEF RearmTold
  <2>3. CASE origin.rearmAt <= gate.rearmAt
    BY <1>1, <1>5, <2>3 DEF RearmTold
  <2>4. QED
    BY <1>5, <2>1, <2>2, <2>3 DEF RearmTold
<1>6. ASSUME UNCHANGED actions, first.kind # "finished", gate'.rearmAt = gate.rearmAt
      PROVE  TimesInOrder' /\ OriginEnds' /\ (ToggleRearms => ToggleRearms')
  BY <1>1, <1>3, <1>4, <1>5, <1>6 DEF ToggleRearms, PressesRearmed
<1>7. CASE DropSignal
  BY <1>2, <1>6, <1>7 DEF DropSignal, Receive
<1>8. CASE QueueSignal
  <2>1. UNCHANGED actions /\ first.kind = "signal" /\ gate' = [gate EXCEPT !.pending = first]
    BY <1>2, <1>8 DEF QueueSignal, Receive
  <2>2. gate'.rearmAt = gate.rearmAt
    BY <2>1 DEF TypeOK
  <2>3. QED
    BY <1>6, <2>1, <2>2
<1>9. CASE ReconfigureListener
  BY <1>2, <1>6, <1>9 DEF ReconfigureListener, Receive
<1>10. CASE DispatchSignal
  <2>1. /\ first.kind = "signal" /\ gate' = [gate EXCEPT !.inFlight = TRUE] /\ actions' = Append(actions, first)
        /\ ~gate.inFlight /\ ~Refused(gate, mode, first)
    BY <1>2, <1>10 DEF DispatchSignal, Receive, Accepts
  <2>2. gate'.rearmAt = gate.rearmAt
    BY <2>1 DEF TypeOK
  <2>3. actions = <<>> /\ worker = Resting /\ Reports(events) = {}
    BY <2>1 DEF OneActionInFlight
  <2>4. Len(actions') = 1 /\ actions'[1] = first /\ worker.at = "resting"
    BY <2>1, <2>3 DEF Resting
  <2>5. ASSUME phase = "recording", origin.by = "toggle", mode = "toggle", RearmTold
        PROVE  RearmTold' /\ PressesRearmed'
    <3>1. \A i \in 1..Len(events) : events[i].kind # "finished"
      BY <1>0, <2>3 DEF Reports
    <3>2. origin.rearmAt <= gate.rearmAt
      BY <2>4, <2>5, <3>1 DEF RearmTold
    <3>3. RearmTold'
      BY <1>1, <2>2, <3>2 DEF RearmTold
    <3>4. ASSUME first.signal = "pressed" PROVE origin.rearmAt <= first.at
      <4>1. first \in Signals /\ first.at \in Nat
        BY <1>0, <1>2, <2>1, MessageKinds, BoundsAssumption DEF Signals
      <4>2. ~(first.at < gate.rearmAt)
        BY <2>1, <2>5, <3>4 DEF Refused, ToggleRearming
      <4>3. QED
        BY <1>0, <3>2, <4>1, <4>2
    <3>5. PressesRearmed'
      BY <1>1, <2>4, <3>4 DEF PressesRearmed
    <3>6. QED
      BY <3>3, <3>5
  <2>6. QED
    BY <1>1, <1>3, <1>4, <2>2, <2>5 DEF ToggleRearms
<1>11. CASE CompleteAction
  <2>1. /\ first.kind = "finished" /\ gate' = Complete(gate, first.toggled, first.at)
        /\ actions' = IF gate.pending = NoSignal THEN actions ELSE Append(actions, gate.pending)
    BY <1>2, <1>11 DEF CompleteAction, Receive
  <2>2. gate'.rearmAt = IF first.toggled THEN first.at + 1 ELSE gate.rearmAt
    BY <2>1 DEF Complete
  <2>3. /\ gate.rearmAt <= first.at + 1 /\ first.at <= now /\ first.at \in Nat
    BY <1>0, <1>2, <2>1 DEF TimesInOrder
  <2>4. \A i \in 1..Len(events') : events'[i].kind # "finished"
    <3>1. Reports(Tail(events)) = {}
      BY <1>0, <1>1, <1>2, <2>1, TakenReport DEF OneActionInFlight
    <3>2. DOMAIN Tail(events) = 1..Len(events')
      BY <1>0, <1>1, <1>2
    <3>3. QED
      BY <1>1, <3>1, <3>2 DEF Reports
  <2>5. TimesInOrder'
    BY <1>0, <1>1, <2>2, <2>3, <2>4 DEF TimesInOrder
  <2>6. ASSUME RearmTold PROVE RearmTold'
    <3>1. CASE first.toggled
      <4>1. origin.rearmAt <= gate'.rearmAt
        <5>1. CASE origin.rearmAt <= gate.rearmAt
          BY <1>0, <2>2, <2>3, <3>1, <5>1
        <5>2. CASE \E i \in 1..Len(events) :
                     events[i].kind = "finished" /\ origin.rearmAt <= events[i].at + 1
          <6>1. PICK i \in 1..Len(events) :
                     events[i].kind = "finished" /\ origin.rearmAt <= events[i].at + 1
            BY <5>2
          <6>2. i = 1
            BY <1>0, <1>2, <2>1, <6>1, SMTT(30) DEF OneActionInFlight, Reports
          <6>3. QED
            BY <2>2, <3>1, <6>1, <6>2
        <5>3. worker.at # "done"
          BY <1>0, <1>2, <2>1 DEF OneActionInFlight, Reports, Resting
        <5>4. QED
          BY <2>6, <5>1, <5>2, <5>3 DEF RearmTold
      <4>2. QED
        BY <1>1, <4>1 DEF RearmTold
    <3>2. CASE ~first.toggled
      BY <1>5, <2>2, <2>6, <3>2
    <3>3. QED
      BY <3>1, <3>2
  <2>7. ASSUME PressesRearmed PROVE PressesRearmed'
    <3>1. CASE gate.pending = NoSignal
      BY <1>1, <2>1, <2>7, <3>1 DEF PressesRearmed
    <3>2. CASE gate.pending # NoSignal
      <4>1. actions = <<>>
        BY <1>0, <1>2, <2>1 DEF OneActionInFlight, Reports
      <4>2. Len(actions') = 1 /\ actions'[1] = gate.pending
        BY <2>1, <3>2, <4>1
      <4>3. QED
        BY <1>1, <2>7, <4>2 DEF PressesRearmed, EndsWait
    <3>3. QED
      BY <3>1, <3>2
  <2>8. QED
    BY <1>1, <1>3, <2>5, <2>6, <2>7 DEF ToggleRearms
<1>12. QED
  BY <1>7, <1>8, <1>9, <1>10, <1>11 DEF LoopSteps

(* A start reports when it was completed, before the next press is looked at. *)
LEMMA WorkerKeepsToggle ==
  ASSUME TypeOK, OneActionInFlight, TimesInOrder, OriginEnds, WorkerSteps
  PROVE  TimesInOrder' /\ OriginEnds' /\ (ToggleRearms => ToggleRearms')
<1>0. /\ events \in Seq(Messages) /\ actions \in Seq(Signals) /\ Len(events) \in Nat /\ Len(actions) \in Nat
      /\ gate.rearmAt \in Nat /\ origin.rearmAt \in Nat /\ now \in Nat
  BY TimeFields
<1>1. UNCHANGED <<gate, mode, now>>
  BY DEF WorkerSteps, TakeAction, TriggerBegins, TriggerIgnored, TriggerEnds, ReportFinished, OutsideDaemon,
         listener, dispatch
<1>2. CASE TakeAction
  <2>1. /\ worker = Resting /\ actions # <<>> /\ actions' = Tail(actions)
        /\ worker' = [Resting EXCEPT !.at = "taken", !.event = Head(actions)]
        /\ UNCHANGED <<events, phase, origin>>
    BY <1>2 DEF TakeAction, daemon
  <2>2. Len(actions) = 1 /\ Head(actions) = actions[1] /\ Len(actions') = 0
    <3>1. PICK n \in Nat : n = Len(actions)
      BY <1>0
    <3>2. n <= 1 /\ n # 0
      BY <1>0, <2>1, <3>1 DEF OneActionInFlight
    <3>3. QED
      BY <1>0, <2>1, <3>1, <3>2
  <2>3. worker.at = "resting" /\ worker'.at = "taken" /\ worker'.event = actions[1]
    BY <2>1, <2>2 DEF Resting
  <2>4. TimesInOrder' /\ OriginEnds'
    BY <1>1, <2>1 DEF TimesInOrder, OriginEnds
  <2>5. RearmTold => RearmTold'
    BY <1>1, <2>1, <2>3 DEF RearmTold
  <2>6. PressesRearmed => PressesRearmed'
    <3>1. 1 \in 1..Len(actions) /\ ~\E k \in 1..Len(actions') : TRUE
      BY <2>2
    <3>2. PressesRearmed => (worker'.event.signal = "pressed" => origin.rearmAt <= worker'.event.at)
      BY <2>3, <3>1 DEF PressesRearmed
    <3>3. origin' = origin
      BY <2>1
    <3>4. QED
      BY <3>1, <3>2, <3>3 DEF PressesRearmed
  <2>7. QED
    BY <1>1, <2>1, <2>4, <2>5, <2>6 DEF ToggleRearms
<1>3. CASE TriggerBegins
  <2>1. /\ worker.at = "taken" /\ worker' = [worker EXCEPT !.at = "acting"]
        /\ UNCHANGED <<events, actions, origin>>
        /\ phase' = "recording" => phase = "recording"
        /\ phase' = "starting" => phase = "idle" \/ phase = "starting"
        /\ phase' \in {"starting", "stopping", phase}
    BY <1>3 DEF TriggerBegins, Begin, OutsideDaemon, dispatch, LifecycleAction
  <2>2. worker'.at = "acting"
    BY <2>1 DEF TypeOK
  <2>3. OriginEnds'
    BY <2>1 DEF OriginEnds
  <2>4. TimesInOrder' /\ (RearmTold /\ PressesRearmed => RearmTold' /\ PressesRearmed')
    BY <1>1, <2>1, <2>2, ReportsKept
  <2>5. QED
    BY <1>1, <2>1, <2>3, <2>4 DEF ToggleRearms
<1>4. CASE TriggerIgnored
  <2>1. /\ worker.at = "taken" /\ worker' = [worker EXCEPT !.at = "done"]
        /\ UNCHANGED <<events, actions, phase, origin>>
    BY <1>4 DEF TriggerIgnored, dispatch, daemon
  <2>2. worker'.at = "done"
    BY <2>1 DEF TypeOK
  <2>3. TimesInOrder' /\ (RearmTold /\ PressesRearmed => RearmTold' /\ PressesRearmed')
    BY <1>1, <2>1, <2>2, ReportsKept
  <2>4. QED
    BY <1>1, <2>1, <2>3 DEF ToggleRearms, OriginEnds
<1>5. CASE TriggerEnds
  <2>1. /\ worker.at = "acting"
        /\ worker' = [worker EXCEPT !.at = "done",
                                    !.toggled = phase' = "recording" /\ mode = "toggle"]
        /\ origin' = IF phase' = "recording"
                     THEN [by |-> mode, nth |-> worker.event.nth, rearmAt |-> now + 1]
                     ELSE NoOrigin
        /\ UNCHANGED <<events, actions>>
    BY <1>5 DEF TriggerEnds, End, OutsideDaemon, dispatch
  <2>2. worker'.at = "done" /\ worker'.toggled = (phase' = "recording" /\ mode = "toggle")
    BY <2>1 DEF TypeOK
  <2>3. origin'.rearmAt = (IF phase' = "recording" THEN now + 1 ELSE 0)
    BY <2>1 DEF NoOrigin
  <2>4. origin'.by = (IF phase' = "recording" THEN mode ELSE "nothing")
    BY <2>1 DEF NoOrigin
  <2>5. TimesInOrder'
    BY <1>0, <1>1, <2>1, <2>3 DEF TimesInOrder
  <2>6. OriginEnds'
    BY <2>4 DEF OriginEnds
  <2>7. PressesRearmed'
    <3>1. actions = <<>>
      BY <2>1 DEF OneActionInFlight, Resting
    <3>2. Len(actions') = 0
      BY <2>1, <3>1
    <3>3. QED
      BY <2>2, <3>2 DEF PressesRearmed
  <2>8. phase' = "recording" /\ origin'.by = "toggle" => mode = "toggle" /\ RearmTold'
    BY <2>2, <2>4 DEF RearmTold
  <2>9. QED
    BY <1>1, <2>5, <2>6, <2>7, <2>8 DEF ToggleRearms
<1>6. CASE ReportFinished
  <2> DEFINE message == [kind |-> "finished", toggled |-> worker.toggled, at |-> now]
  <2>1. /\ worker.at = "done" /\ events' = Append(events, message) /\ worker' = Resting
        /\ UNCHANGED <<actions, phase, origin>>
    BY <1>6 DEF ReportFinished, daemon
  <2>2. message \in Messages /\ message.kind = "finished" /\ message.at = now /\ message.toggled = worker.toggled
    BY DEF Messages, ActionFinished, TypeOK
  <2> HIDE DEF message
  <2>3. /\ Len(events') = Len(events) + 1 /\ events'[Len(events) + 1] = message
        /\ \A i \in 1..Len(events) : events'[i] = events[i]
    BY <1>0, <2>1, <2>2, ChannelAppended
  <2>4. worker'.at = "resting"
    BY <2>1 DEF Resting
  <2>5. PICK n \in 1..Len(events') : n = Len(events) + 1 /\ events'[n] = message
    BY <1>0, <2>3
  <2>6. \A i \in 1..Len(events') : i = n \/ (i \in 1..Len(events) /\ events'[i] = events[i])
    BY <1>0, <2>3, <2>5
  <2>7. TimesInOrder'
    <3>1. \A i \in 1..Len(events') : events'[i].kind = "finished" =>
            gate.rearmAt <= events'[i].at + 1 /\ events'[i].at <= now
      BY <1>0, <2>2, <2>5, <2>6, SMTT(30) DEF TimesInOrder
    <3>2. QED
      BY <1>1, <2>1, <3>1 DEF TimesInOrder
  <2>8. OriginEnds' /\ (PressesRearmed => PressesRearmed')
    BY <2>1, <2>4 DEF OriginEnds, PressesRearmed
  <2>9. ASSUME RearmTold PROVE RearmTold'
    <3>1. CASE origin.rearmAt <= gate.rearmAt
      BY <1>1, <2>1, <3>1 DEF RearmTold
    <3>2. CASE worker.toggled
      <4>1. origin.rearmAt <= events'[n].at + 1 /\ events'[n].kind = "finished" /\ events'[n].toggled
        BY <2>2, <2>5, <3>2 DEF TimesInOrder
      <4>2. QED
        BY <2>1, <4>1 DEF RearmTold
    <3>3. CASE \E i \in 1..Len(events) :
                 events[i].kind = "finished" /\ events[i].toggled /\ origin.rearmAt <= events[i].at + 1
      <4>1. \A i \in 1..Len(events) : i \in 1..Len(events')
        BY <1>0, <2>3
      <4>2. QED
        BY <2>1, <2>3, <3>3, <4>1 DEF RearmTold
    <3>4. QED
      BY <2>9, <3>1, <3>2, <3>3 DEF RearmTold
  <2>10. QED
    BY <1>1, <2>1, <2>7, <2>8, <2>9 DEF ToggleRearms
<1>7. QED
  BY <1>2, <1>3, <1>4, <1>5, <1>6 DEF WorkerSteps

(* Clients and time. *)
LEMMA OtherKeepsToggle ==
  ASSUME TypeOK, TimesInOrder, OriginEnds, OtherSteps
  PROVE  TimesInOrder' /\ OriginEnds' /\ (~Disturbs /\ ToggleRearms => ToggleRearms')
<1>0. events \in Seq(Messages) /\ now \in Nat
  BY TimeFields
<1>1. UNCHANGED <<gate, actions, worker>>
  BY DEF OtherSteps, ClientActs, ClientDone, ProcessingEnds, SaveMode, SaveHotkey, SaveEnds, TimePasses,
         OutsideDaemon, listener, dispatch
<1>2. ~Disturbs => mode' = mode
  BY DEF Disturbs
<1>3. ASSUME UNCHANGED events, now' \in {now, now + 1}, UNCHANGED origin, phase' = "recording" => phase = "recording",
             phase' \in {"idle", "starting", "processing"} => phase \in {"idle", "starting", "processing"}
      PROVE  TimesInOrder' /\ OriginEnds' /\ (~Disturbs /\ ToggleRearms => ToggleRearms')
  <2>1. TimesInOrder' /\ (RearmTold /\ PressesRearmed => RearmTold' /\ PressesRearmed')
    BY <1>1, <1>3, ReportsKept
  <2>2. QED
    BY <1>2, <1>3, <2>1 DEF OriginEnds, ToggleRearms
<1>4. CASE ClientActs
  <2>1. UNCHANGED <<events, now, origin>>
    BY <1>4 DEF ClientActs, OutsideDaemon, dispatch
  <2>2. (phase' = "starting" /\ phase = "idle") \/ phase' = "stopping" \/ phase' = phase
    BY <1>4 DEF ClientActs, Begin
  <2>3. QED
    BY <1>3, <2>1, <2>2
<1>5. CASE ProcessingEnds \/ SaveMode \/ SaveEnds \/ TimePasses
  <2>1. UNCHANGED <<events, origin>> /\ now' \in {now, now + 1}
    BY <1>5 DEF ProcessingEnds, SaveMode, SaveEnds, TimePasses, OutsideDaemon, dispatch, daemon
  <2>2. phase' = phase \/ (phase = "processing" /\ phase' = "idle")
    BY <1>5 DEF ProcessingEnds, SaveMode, SaveEnds, TimePasses, daemon
  <2>3. QED
    BY <1>3, <2>1, <2>2
<1>6. CASE ClientDone
  <2>1. UNCHANGED <<events, now>> /\ origin'.rearmAt = 0
        /\ origin'.by = IF phase' = "recording" THEN "client" ELSE "nothing"
    BY <1>6 DEF ClientDone, OutsideDaemon, dispatch, NoOrigin
  <2>2. TimesInOrder'
    BY <1>0, <1>1, <2>1 DEF TimesInOrder
  <2>3. QED
    BY <2>1, <2>2 DEF OriginEnds, ToggleRearms
<1>7. CASE SaveHotkey
  <2>1. UNCHANGED <<now, origin, phase>> /\ events' = Append(events, Reconfigure)
    BY <1>7 DEF SaveHotkey
  <2>2. Reconfigure \in Messages /\ Reconfigure.kind # "finished"
    BY DEF Messages, Reconfigure
  <2>3. /\ \A i \in 1..Len(events') :
             events'[i].kind = "finished" => i \in 1..Len(events) /\ events'[i] = events[i]
        /\ \A i \in 1..Len(events) : i \in 1..Len(events') /\ events'[i] = events[i]
    BY <1>0, <2>1, <2>2, NoReport
  <2>4. TimesInOrder' /\ (RearmTold /\ PressesRearmed => RearmTold' /\ PressesRearmed')
    BY <1>1, <2>1, <2>3, ReportsKept
  <2>5. QED
    BY <1>2, <2>1, <2>4 DEF OriginEnds, ToggleRearms
<1>8. QED
  BY <1>4, <1>5, <1>6, <1>7 DEF OtherSteps

(* Only ends are queued in the gate. *)
LEMMA GateEndsWait ==
  ASSUME TypeOK, EndsWait, Next
  PROVE  EndsWait'
<1>1. CASE QueueSignal
  <2>1. gate' = [gate EXCEPT !.pending = Head(events)] /\ ShouldQueueTerminal(gate, mode, Head(events))
    BY <1>1 DEF QueueSignal, Queues
  <2>2. gate'.pending = Head(events)
    BY <2>1 DEF TypeOK
  <2>3. QED
    BY <2>1, <2>2 DEF EndsWait, ShouldQueueTerminal
<1>2. CASE DispatchSignal
  BY <1>2 DEF DispatchSignal, EndsWait, TypeOK
<1>3. CASE CompleteAction
  BY <1>3 DEF CompleteAction, Complete, EndsWait, NoSignal
<1>4. CASE ~(QueueSignal \/ DispatchSignal \/ CompleteAction)
  <2>1. UNCHANGED gate
    BY <1>4 DEF Next, LoopSteps, DropSignal, ReconfigureListener, ListenerSteps, KeyDown, KeyUp, Disconnect,
       OtherKey, KeyEvent, Esc, ArmCapture, CaptureEnds, OutsideListener, WorkerSteps, TakeAction, TriggerBegins,
       TriggerIgnored, TriggerEnds, ReportFinished, OtherSteps, ClientActs, ClientDone, ProcessingEnds,
       SaveMode, SaveHotkey, SaveEnds, TimePasses, OutsideDaemon, dispatch
  <2>2. QED
    BY <2>1 DEF EndsWait
<1>5. QED
  BY <1>1, <1>2, <1>3, <1>4

(* For any keys, clients and times, the press that started a toggle recording cannot
   stop it by bouncing, as long as no mode, shortcut, capture or refusal comes between. *)
THEOREM PressesDoNotBounce == MCSpec => UndisturbedPressDoesNotStop
<1> DEFINE Inv == TypeOK /\ OneActionInFlight /\ ToggleInv
<1>1. MCInit => Inv
  <2> SUFFICES ASSUME MCInit PROVE Inv
    OBVIOUS
  <2>1. TypeOK /\ OneActionInFlight
    BY InitType, InitInFlight DEF MCInit
  <2>2. /\ events = <<>> /\ gate.pending.signal = "none" /\ gate.rearmAt = 0 /\ origin.rearmAt = 0
        /\ origin.by = "nothing" /\ phase = "idle" /\ now = 0
    BY DEF MCInit, Init, NewGate, NoSignal, NoOrigin
  <2>3. Len(events) = 0
    BY <2>2
  <2>4. QED
    BY <2>1, <2>2, <2>3 DEF ToggleInv, EndsWait, TimesInOrder, OriginEnds, ToggleRearms
<1>2. Inv /\ [MCNext]_mcVars => Inv'
  <2> SUFFICES ASSUME Inv, [MCNext]_mcVars PROVE Inv'
    OBVIOUS
  <2>1. TypeOK' /\ OneActionInFlight'
    BY Preserved DEF MCNext, mcVars
  <2>2. CASE MCNext
    <3>1. Next /\ disturbed' = (disturbed \/ Disturbs)
      BY <2>2 DEF MCNext
    <3>2. EndsWait'
      BY <3>1, GateEndsWait DEF ToggleInv
    <3>3. TimesInOrder' /\ OriginEnds' /\ (~Disturbs /\ ToggleRearms => ToggleRearms')
      BY <3>1, KeysKeepToggle, LoopKeepsToggle, WorkerKeepsToggle, OtherKeepsToggle DEF ToggleInv, Next
    <3>4. QED
      BY <2>1, <3>1, <3>2, <3>3 DEF ToggleInv
  <2>3. CASE UNCHANGED mcVars
    <3>1. UNCHANGED <<events, gate, actions, worker, phase, origin, mode, now, disturbed>>
      BY <2>3 DEF mcVars, vars
    <3>2. TimesInOrder' /\ (RearmTold /\ PressesRearmed => RearmTold' /\ PressesRearmed')
      BY <3>1, ReportsKept DEF ToggleInv
    <3>3. QED
      BY <2>1, <3>1, <3>2 DEF ToggleInv, EndsWait, OriginEnds, ToggleRearms
  <2>4. QED
    BY <2>2, <2>3
<1>3. Inv /\ [MCNext]_mcVars => [BouncedPressStops => disturbed']_mcVars
  <2> SUFFICES ASSUME Inv, MCNext, BouncedPressStops, ~disturbed'
               PROVE  FALSE
    OBVIOUS
  <2>1. /\ holder = Free /\ holder' = [who |-> "worker", action |-> "stop"]
        /\ worker.event.signal = "pressed" /\ origin.by = "toggle" /\ worker.event.at < origin.rearmAt
    BY DEF BouncedPressStops
  <2>2. ~disturbed /\ Next
    BY DEF MCNext
  <2>3. TriggerBegins
    <3>1. ~ListenerSteps /\ ~LoopSteps
      <4>1. holder' # holder
        BY <2>1 DEF Free
      <4>2. QED
        BY <4>1 DEF ListenerSteps, KeyDown, KeyUp, Disconnect, OtherKey, KeyEvent, Esc, ArmCapture, CaptureEnds,
           OutsideListener, LoopSteps, DropSignal, DispatchSignal, QueueSignal, CompleteAction,
           ReconfigureListener, OutsideDispatch, daemon
    <3>2. ~OtherSteps
      BY <2>1 DEF OtherSteps, ClientActs, Begin, ClientDone, End, ProcessingEnds, SaveMode, SaveHotkey, SaveEnds,
         TimePasses, Free, daemon
    <3>3. ~TakeAction /\ ~TriggerIgnored /\ ~TriggerEnds /\ ~ReportFinished
      BY <2>1 DEF TakeAction, TriggerIgnored, TriggerEnds, End, ReportFinished, Free, daemon
    <3>4. QED
      BY <2>2, <3>1, <3>2, <3>3 DEF Next, WorkerSteps
  <2>4. worker.at = "taken" /\ LifecycleAction(worker.event.signal) = "stop"
    BY <2>1, <2>3 DEF TriggerBegins, Begin
  <2>5. IsRecording
    BY <2>1, <2>4 DEF LifecycleAction
  <2>6. phase = "recording"
    BY <2>1, <2>5 DEF IsRecording, ToggleInv, OriginEnds
  <2>7. origin.rearmAt <= worker.event.at
    BY <2>1, <2>2, <2>4, <2>6 DEF ToggleInv, ToggleRearms, PressesRearmed
  <2>8. worker.event.at \in Nat /\ origin.rearmAt \in Nat
    BY <2>1, TimeFields, BoundsAssumption DEF TypeOK, Signals, NoSignal
  <2>9. QED
    BY <2>1, <2>7, <2>8
<1> QED
  BY <1>1, <1>2, <1>3, PTL DEF MCSpec, UndisturbedPressDoesNotStop

================================================================================
