------------------------------------ MODULE Text ------------------------------------
(* The text a dictation delivers for what the model heard, over every transcript of the
   topics: each topic is a set of words and how many of them a transcript has.  The
   words come one at a time, so every beginning of a transcript is a transcript too. *)
EXTENDS TextPasses

CONSTANT Topics

VARIABLES topic, heard

vars == <<topic, heard>>

Init == topic \in Topics /\ heard = <<>>

(* The first word follows nothing. *)
Hear(word) ==
  /\ Len(heard) < topic.most
  /\ heard' = Append(heard, IF heard = <<>> THEN [word EXCEPT !.gap = ""] ELSE word)
  /\ UNCHANGED topic

Next == \E word \in topic.words : Hear(word)

Spec == Init /\ [][Next]_vars

--------------------------------------------------------------------------------
Pieces(s) == FoldLeft(LAMBDA pieces, stretch : pieces \o stretch.text, <<>>, s)

(* Read aloud, the text delivered is the text heard: the passes write words as symbols
   and digits, and never lose, repeat or reorder one. *)
ReadsBack ==
  SayAll(Pieces(NormalizeTranscript(heard))) = SayAll([i \in DOMAIN heard |-> heard[i].word])

KeptIn(written) ==
  LET Starts(i) ==
        \E k \in DOMAIN written : written[k].from = i /\ written[k].gap = heard[i].gap
      Alone(i) ==
        \E k \in DOMAIN written :
          /\ written[k].from = i /\ written[k].to = i
          /\ written[k].text = <<heard[i].word>>
  IN \A i \in DOMAIN heard :
       /\ heard[i].claim # "free" => Alone(i)
       /\ (i > 1 /\ heard[i].gap = ", " /\ heard[i - 1].claim = "path") => Starts(i)
       /\ heard[i].gap \in {". ", "\n"} => Starts(i)

(* What the passes may not touch stays as heard: a word a Words entry claims, a path the
   model wrote with the comma after it, and the end of a sentence or a line. *)
KeptAsHeard == KeptIn(NormalizeTranscript(heard))

================================================================================
