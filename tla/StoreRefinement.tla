------------------------------ MODULE StoreRefinement ------------------------------
(* Store implements Dictation: the life of a dictation is read off its row, the history
   and the chords, never off what the threads are at.                                  *)
EXTENDS Store

LifeOf(j) ==
  LET row == jobs[j] IN
  CASE recorded[j] > 0 \/ (~IsRow(row) /\ j \in born) -> "over"
    [] recorded[j] = 0 /\ ~IsRow(row) /\ j \notin born -> "none"
    [] recorded[j] = 0 /\ row.stage \in {"starting", "recording"} -> "speaking"
    [] recorded[j] = 0 /\ row.stage = "transcribing" -> "asked"
    [] recorded[j] = 0 /\ row.stage = "delivered" -> "sent"
    [] recorded[j] = 0 /\ row.stage \in {"no_speech", "deleted"} -> "over"
    [] recorded[j] = 0 /\ InRecovery(row) ->
         CASE row.delivery = "attempting" -> "sending"
           [] row.delivery = "ambiguous" -> "doubtful"
           [] OTHER -> "kept"

Promise ==
  INSTANCE Dictation WITH
    Dictations <- Jobs,
    stage <- [j \in Jobs |-> LifeOf(j)],
    paid <- {j \in Jobs : jobs[j].raw /\ LifeOf(j) # "over"},
    pasted <- chords,
    counted <- recorded

(* Every step of the daemon, of its maintenance thread, and every failure and crash is a
   step a dictation may take in its life, or none at all. *)
ImplementsDictation == Promise!Spec

================================================================================
