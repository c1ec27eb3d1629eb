----------------------------- MODULE HotkeyTracker -----------------------------
(* The chord state of the shortcut listener: HotkeyTracker and HotkeySession of
   crates/agentdictate-linux/src/hotkey.rs.  A tracker keeps, per keyboard, the
   keys that are down; all it asks of them is whether one keyboard holds every
   group of the shortcut, so `held` is the set of keyboards that do.          *)
EXTENDS FiniteSets

NewTracker == [held |-> {}, matched |-> FALSE, swallowing |-> FALSE]

Trackers(keyboards) ==
  [held : SUBSET keyboards, matched : BOOLEAN, swallowing : BOOLEAN]

(* The chord is complete on some keyboard. *)
Matches(tracker) == tracker.held # {}

ChordCompletes(tracker, keyboard) == [tracker EXCEPT !.held = @ \cup {keyboard}]

(* A key of the chord comes up, or the keyboard goes away. *)
ChordBreaks(tracker, keyboard) == [tracker EXCEPT !.held = @ \ {keyboard}]

(* Ends the match without a release and waits for the keys to come up. *)
SwallowUntilRelease(tracker) ==
  [tracker EXCEPT !.matched = FALSE, !.swallowing = TRUE]

(* `transition`: what the tracker returns, and what it becomes, once `held`
   has been brought up to date. *)
TransitionSignal(tracker) ==
  IF tracker.swallowing \/ tracker.matched = Matches(tracker) THEN "none"
  ELSE IF Matches(tracker) THEN "pressed" ELSE "released"

Transition(tracker) ==
  IF tracker.swallowing THEN [tracker EXCEPT !.swallowing = Matches(tracker)]
  ELSE [tracker EXCEPT !.matched = Matches(tracker)]

(* The tracker's part of `capture_input`: the signal is withheld, and a press
   is swallowed, so its release will be too. *)
CaptureTransition(tracker) ==
  IF TransitionSignal(tracker) = "pressed"
  THEN SwallowUntilRelease(Transition(tracker))
  ELSE Transition(tracker)

================================================================================
