--------------------------------- MODULE Dictation ---------------------------------
(* What the daemon promises about every dictation, whatever fails, crashes or interleaves:
   the life of its row in the job table and of its entry in the history, one step at a time.
   Store implements it (StoreRefinement).                                                *)
EXTENDS Naturals

CONSTANT Dictations

VARIABLES
  stage,   \* where each dictation is in its life
  paid,    \* those whose transcript was paid for and is kept
  pasted,  \* how often each was pasted without being asked for again
  counted  \* how often each is in the history

promised == <<stage, paid, pasted, counted>>

(* Where a dictation is.  speaking: being recorded; kept: in Recovery; asked: being transcribed; sending: a
   delivery was begun; doubtful: it may have arrived; sent: it did; over: counted in the
   history, deleted, or nothing was heard. *)
Init ==
  /\ stage \in [Dictations -> {"none", "sent", "over"}]
  /\ paid = {d \in Dictations : stage[d] = "sent"}
  /\ pasted = [d \in Dictations |-> 0]
  /\ counted \in [Dictations -> {0, 1}]
  /\ \A d \in Dictations : counted[d] = 1 => stage[d] = "over"

Turns(d, from, to) ==
  /\ stage[d] \in from
  /\ stage' = [stage EXCEPT ![d] = to]
  /\ paid' = IF to = "over" THEN paid \ {d} ELSE paid
Only(d, from, to) == Turns(d, from, to) /\ UNCHANGED <<pasted, counted>>

Speak(d) == Only(d, {"none"}, "speaking")
Keep(d) == Only(d, {"speaking", "asked"}, "kept")

(* What may have been pasted is never transcribed again. *)
Ask(d) == Only(d, {"kept"}, "asked") /\ pasted[d] = 0

Pay(d) ==
  /\ stage[d] = "asked"
  /\ paid' = paid \cup {d}
  /\ UNCHANGED <<stage, pasted, counted>>

(* Only a paid text is delivered; what was not sent can be sent again. *)
Send(d) == Only(d, {"kept"}, "sending") /\ d \in paid
Unsend(d) == Only(d, {"sending"}, "kept")
Submit(d) == Only(d, {"sending"}, "sent")
Doubt(d) == Only(d, {"sending"}, "doubtful")
CopyAgain(d) == Only(d, {"doubtful"}, "kept")

(* One paste chord, while a delivery is under way. *)
Paste(d) ==
  /\ stage[d] = "sending" /\ pasted[d] = 0
  /\ pasted' = [pasted EXCEPT ![d] = 1]
  /\ UNCHANGED <<stage, paid, counted>>

Count(d) ==
  /\ Turns(d, {"sent"}, "over")
  /\ counted[d] = 0
  /\ counted' = [counted EXCEPT ![d] = 1]
  /\ UNCHANGED pasted

(* The user deletes an item, or nothing was heard; or retention does, also one it listed
   before the user went on with it. *)
Delete(d) == Only(d, {"kept", "asked", "sending", "doubtful", "sent"}, "over")

(* A start settles all that the last daemon left in flight. *)
All(from, to) ==
  /\ stage' = [d \in Dictations |-> IF stage[d] \in from THEN to ELSE stage[d]]
  /\ UNCHANGED <<paid, pasted, counted>>

Restart == All({"sending"}, "doubtful") \/ All({"speaking", "asked"}, "kept")

Next == Restart \/ \E d \in Dictations :
  \/ Speak(d) \/ Keep(d) \/ Ask(d) \/ Pay(d) \/ Send(d) \/ Unsend(d) \/ Submit(d)
  \/ Doubt(d) \/ CopyAgain(d) \/ Paste(d) \/ Count(d) \/ Delete(d)

Spec == Init /\ [][Next]_promised

================================================================================
