--------------------------------- MODULE TextPasses ---------------------------------
(* The second and third text passes (crates/agentdictate-core/src/dictation.rs): spoken
   "slash", which needs no Words entry, and spoken numbers as digits.  Both read the
   stretches of text the pass before them left. *)
EXTENDS SpokenSymbols

(* The gap after stretch k, "" after the last. *)
GapAfter(s, k) == IF k + 1 \in DOMAIN s THEN s[k + 1].gap ELSE ""

--------------------------------------------------------------------------------
(* Spoken "slash" *)

IsSlash(s, k) == s[k].word = "slash" /\ s[k].claim = "free"

(* Mutant of CommaIsFree: the protected span is not looked at. *)
AnyCommaIsFree(s, k) == TRUE

(* The comma after a path is part of the literal, so no join may take it. *)
CommaIsFree(s, k) == s[k].gap = ", " => ~s[k - 1].literal

(* `symbol_rewrite_range`: "joins" both words, "starts" a path, or "stays". *)
SlashAt(s, k) ==
  LET next == IF GapAfter(s, k) = " " THEN s[k + 1].outer[1] ELSE ""
      previous == IF s[k].gap \in {" ", ", "} THEN s[k - 1].outer[2] ELSE ""
      small == next \in Stopwords \cup Determiners
  IN IF next = "" \/ next \in SymbolNouns THEN "stays"
     ELSE IF previous = ""
       THEN IF (k = 1 \/ s[k].gap = "\n") /\ ~small THEN "starts" ELSE "stays"
     ELSE IF previous \in SymbolNamers \cup Modals \cup {"dot"} THEN "stays"
     ELSE IF s[k].gap = " " /\ previous \in PathLeaders
       THEN IF small THEN "stays" ELSE "starts"
     ELSE IF (~small \/ next \in {"and", "or"}) /\ CommaIsFree(s, k) THEN "joins"
     ELSE "stays"

(* Left to right: a slash that the one before it reaches into stays. *)
Slashes(s) ==
  LET f[k \in 0..Len(s)] ==
        IF k = 0 THEN "stays"
        ELSE IF ~IsSlash(s, k) THEN "stays"
        ELSE IF SlashAt(s, k) = "joins" /\ f[k - 1] # "stays" THEN "stays"
        ELSE SlashAt(s, k)
  IN f

SpokenSlash(s) ==
  LET slashes == Slashes(s)
  IN [k \in DOMAIN s |->
        [s[k] EXCEPT
           !.text = IF slashes[k] = "stays" THEN @ ELSE <<"/">>,
           !.word = IF slashes[k] = "stays" THEN @ ELSE "",
           !.gap = IF slashes[k] = "joins" \/ slashes[k - 1] # "stays" THEN "" ELSE @]]

--------------------------------------------------------------------------------
(* Spoken numbers *)

Values(words, first) ==
  [w \in ToSet(words) |-> first - 1 + (CHOOSE n \in DOMAIN words : words[n] = w)]

SmallValue == Values(Small, 0)
TensValue == [w \in ToSet(Tens) |-> 10 * Values(Tens, 2)[w]]
RunValue == [w \in DOMAIN SmallValue \cup {"twenty"} |->
               IF w = "twenty" THEN 20 ELSE SmallValue[w]]

(* The word a reader from the left meets at stretch k. *)
Ahead(s, k) == IF k \in DOMAIN s THEN s[k].outer[1] ELSE ""

(* Mutant of Unjoined: a claimed word may be part of a number. *)
UnjoinedOrClaimed(s, first, last) ==
  /\ \A k \in first..last : s[k].word # ""
  /\ first > 1 => s[first].gap \notin {"", "-", "'"}
  /\ last < Len(s) => GapAfter(s, last) \notin {"", "-", "'"}

(* Stretches first..last hold no claimed word, and no sign joins them to a neighbor. *)
Unjoined(s, first, last) ==
  /\ \A k \in first..last : s[k].claim = "free" /\ ~s[k].literal /\ s[k].word # ""
  /\ first > 1 => s[first].gap \notin {"", "-", "'"}
  /\ last < Len(s) => GapAfter(s, last) \notin {"", "-", "'"}

(* The last number word of the run from stretch i, i - 1 where there is none. *)
RunEnd(s, i) ==
  LET unit == i > 1 /\ s[i].gap \in {" ", "-"} /\ s[i - 1].outer[2] \in ToSet(Tens)
      Runs(k) == Ahead(s, k) \in DOMAIN RunValue /\ Unjoined(s, k, k)
      ends == {k \in i..Len(s) :
                 \A j \in i..k : Runs(j) /\ (j = i \/ s[j].gap \in {" ", ", "})}
  IN IF unit \/ ends = {} THEN i - 1 ELSE Max(ends)

(* Mutant of Unit: "twenty twelve" is thirty-two. *)
AnyUnit(word) == word \in DOMAIN SmallValue

(* The word that completes "twenty". *)
Unit(word) == word \in DOMAIN SmallValue /\ SmallValue[word] \in 1..9

(* The number from stretch k: its value and last stretch, or {}. *)
Number(s, k) ==
  LET ten == Ahead(s, k)
  IN IF ten \in DOMAIN SmallValue THEN {[value |-> SmallValue[ten], last |-> k]}
     ELSE IF ten \notin DOMAIN TensValue THEN {}
     ELSE IF GapAfter(s, k) \in {" ", "-"} /\ Unit(Ahead(s, k + 1))
       THEN {[value |-> TensValue[ten] + SmallValue[Ahead(s, k + 1)], last |-> k + 1]}
     ELSE {[value |-> TensValue[ten], last |-> k]}

(* More numbers after a label's number are a pair or a run, and "one by one" a count. *)
Continues(s, last) ==
  \/ GapAfter(s, last) \in {" ", ", "} /\ Ahead(s, last + 1) \in DOMAIN RunValue
  \/ /\ GapAfter(s, last) = " " /\ Ahead(s, last + 1) = "by"
     /\ GapAfter(s, last + 1) = " " /\ Ahead(s, last + 2) \in DOMAIN SmallValue

(* `labeled`: the first and last number stretch after a label, and what they become. *)
Labeled(s, i) ==
  LET k == IF GapAfter(s, i) = " " /\ Ahead(s, i + 1) = "number" THEN i + 2 ELSE i + 1
      pointed(n) == GapAfter(s, n) = " " /\ Ahead(s, n + 1) \in {"dot", "point"}
                    /\ GapAfter(s, n + 1) = " "
      Part(n) ==
        IF Ahead(s, n) \in Digits THEN {[value |-> 5, last |-> n]} ELSE Number(s, n)
      numbers ==
        UNION {IF pointed(n.last)
                 THEN {[last |-> p.last,
                        text |-> <<ToString(n.value), ".", ToString(p.value)>>] :
                         p \in Part(n.last + 2)}
                 ELSE {[last |-> n.last, text |-> <<ToString(n.value)>>]} :
               n \in Number(s, k)}
  IN IF Ahead(s, i) \in NumberLabels /\ GapAfter(s, k - 1) = " "
       THEN {[first |-> k, last |-> n.last, text |-> n.text] :
               n \in {m \in numbers : ~Continues(s, m.last) /\ Unjoined(s, i, m.last)}}
       ELSE {}

Digit(s, k) == [s[k] EXCEPT !.text = <<ToString(RunValue[s[k].word])>>]

(* `normalize_numbers` *)
SpokenNumbers(s) ==
  LET f[i \in 1..(Len(s) + 1)] ==
        IF i > Len(s) THEN <<>>
        ELSE IF RunEnd(s, i) >= i + 2
          THEN [k \in 1..(RunEnd(s, i) - i + 1) |-> Digit(s, i + k - 1)]
               \o f[RunEnd(s, i) + 1]
        ELSE IF Labeled(s, i) # {}
          THEN LET n == CHOOSE n \in Labeled(s, i) : TRUE
               IN SubSeq(s, i, n.first - 1)
                  \o <<[s[n.first] EXCEPT !.text = n.text, !.to = s[n.last].to]>>
                  \o f[n.last + 1]
        ELSE <<s[i]>> \o f[i + 1]
  IN f[1]

(* `normalize_transcript` in Dictate mode *)
NormalizeTranscript(t) == SpokenNumbers(SpokenSlash(SpokenSymbols(t)))

================================================================================
