------------------------------ MODULE HotkeyGate ------------------------------
(* HotkeyDispatchGate of crates/agentdictate-app/src/hotkey_dispatch.rs: at most
   one accepted signal is in flight, a release or an Esc that comes meanwhile is
   kept for afterwards, and a toggle start rearms only after a delay.

   A signal carries the time `at` it was observed.  Time is counted in rearm
   delays: a start completed in tick t rearms in tick t + 1.                 *)
EXTENDS Naturals

(* No signal waits; no start has completed (no observed time is below 0). *)
NoSignal == [kind |-> "none", signal |-> "none", at |-> 0, nth |-> 0]

NewGate == [inFlight |-> FALSE, pending |-> NoSignal, rearmAt |-> 0]

ToggleRelease(mode, event) == mode = "toggle" /\ event.signal = "released"

(* Mutant of ToggleRearming: the last delay before rearming is let through. *)
ToggleRearmingEarly(gate, mode, event) ==
  mode = "toggle" /\ event.signal = "pressed" /\ event.at + 1 < gate.rearmAt

ToggleRearming(gate, mode, event) ==
  /\ mode = "toggle"
  /\ event.signal = "pressed"
  /\ event.at < gate.rearmAt

Refused(gate, mode, event) ==
  ToggleRelease(mode, event) \/ ToggleRearming(gate, mode, event)

(* Mutant of ShouldQueueTerminal: only an Esc waits. *)
ShouldQueueCancel(gate, mode, event) == event.signal = "cancelled"

(* An Esc always waits for the action in flight; a release does in hold mode,
   unless an Esc waits already. *)
ShouldQueueTerminal(gate, mode, event) ==
  \/ event.signal = "cancelled"
  \/ event.signal = "released" /\ mode = "hold" /\ gate.pending.signal # "cancelled"

(* Mutant of Accepts: an action in flight does not matter. *)
AcceptsInFlight(gate, mode, event) == ~Refused(gate, mode, event)

Accepts(gate, mode, event) == ~Refused(gate, mode, event) /\ ~gate.inFlight

Queues(gate, mode, event) ==
  /\ ~Refused(gate, mode, event)
  /\ gate.inFlight
  /\ ShouldQueueTerminal(gate, mode, event)

(* Mutant of IgnoresCancel: a start in flight is no recording yet. *)
IgnoresCancelOfStart(gate, recording) == ~recording

IgnoresCancel(gate, recording) == ~recording /\ ~gate.inFlight

(* `complete`: a queued signal takes the finished action's place. *)
Complete(gate, toggled, completedAt) ==
  [inFlight |-> gate.pending # NoSignal,
   pending  |-> NoSignal,
   rearmAt  |-> IF toggled THEN completedAt + 1 ELSE gate.rearmAt]

================================================================================
