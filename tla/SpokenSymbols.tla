------------------------------- MODULE SpokenSymbols -------------------------------
(* The first text pass: spoken technical syntax becomes the symbols it names
   (crates/agentdictate-core/src/dictation/symbols.rs).  The rules are tried in the
   order of the source at each word, and what one writes no other rule reads. *)
EXTENDS Transcript, FiniteSetsExt

(* Words first..last become the pieces of text.  A literal is a path or a flag, which
   no later pass touches; outer are the labels at its ends, "" for a symbol. *)
Conversion(first, last, text, literal, outer) ==
  [first |-> first, last |-> last, text |-> text, literal |-> literal, outer |-> outer]

None == Conversion(0, 0, <<>>, FALSE, <<"", "">>)

FirstLabel(w) == Labels(w)[1]
LastLabel(w) == Last(Labels(w))

(* The words that may be part of a name. *)
NameParts(t) == {k \in DOMAIN t : t[k].word \notin Stopwords \cup NotInNames}

Ending(w) ==
  CASE LastLabel(w) \in DomainEndings -> "domain"
    [] LastLabel(w) \in FileExtensions -> "file"
    [] OTHER -> "none"

(* The ends of the dotted names from word i; the longest is the one written. *)
DottedEnds(t, i) ==
  {k \in Chain(t, i, "dot", NameParts(t)) : k > i /\ Ending(Word(t, k)) # "none"}

DottedChain(t, i) == IF DottedEnds(t, i) = {} THEN 0 ELSE Max(DottedEnds(t, i))

DottedName(t, i) ==
  IF i \in NameParts(t) /\ Word(t, i) \notin PathLeaders \cup SymbolNamers
    THEN DottedChain(t, i) ELSE 0

--------------------------------------------------------------------------------
(* "dot slash" and "dot dot slash" from word i on, and the word after them. *)
Prefix(t, i) ==
  LET f[k \in 1..(Len(t) + 1)] ==
        IF Word(t, k) = "dot" /\ Links(t, k, "slash")
          THEN [f[k + 2] EXCEPT !.text = <<".", "/">> \o @]
        ELSE IF Word(t, k) = "dot" /\ Links(t, k, "dot") /\ Links(t, k + 1, "slash")
          THEN [f[k + 3] EXCEPT !.text = <<".", ".", "/">> \o @]
        ELSE [at |-> k, text |-> <<>>]
  IN f[i]

(* The path of the prefix and the words up to base, or to the end of a file's name. *)
PathAfter(t, i, prefix, base) ==
  LET end == DottedChain(t, base)
      path == prefix.text \o Joined(t, prefix.at, base, "/")
  IN IF end # 0 /\ Ending(Word(t, end)) = "file"
       THEN Conversion(i, end, path \o Tail(Joined(t, base, end, ".")), TRUE,
                       <<"", LastLabel(Word(t, end))>>)
     ELSE Conversion(i, base, path, TRUE, <<"", LastLabel(Word(t, base))>>)

RelativePath(t, i) ==
  LET prefix == Prefix(t, i)
  IN IF prefix.text = <<>> \/ prefix.at \notin NameParts(t) \/ Follows(t, i, {"dot"})
       THEN None
       ELSE PathAfter(t, i, prefix, Max(Chain(t, prefix.at, "slash", NameParts(t))))

FlagPart(t, k) == Word(t, k) \notin {"", "dash"} \cup DottedWords \cup Digits

(* A small word may be part of a flag's name, and never ends it. *)
Flag(t, i) ==
  LET name == i + 2
      parts == {j \in DOMAIN t : FlagPart(t, j) /\ t[j].case = "low"}
      ends == {k \in Chain(t, name, "dash", parts) : Word(t, k) \notin Stopwords}
      last == Max(ends)
  IN IF /\ Word(t, i) = "dash" /\ Links(t, i, "dash") /\ FlagPart(t, name)
        /\ ends # {}
        /\ last = name => Word(t, name) \notin Letters
       THEN Conversion(i, last, <<"--">> \o Joined(t, name, last, "-"), TRUE,
                       <<"", Word(t, last)>>)
       ELSE None

Dotfile(t, i) ==
  LET parts == {j \in NameParts(t) : t[j].case = "low" \/ Ending(Word(t, j)) # "none"}
      last == Max(Chain(t, i + 1, "dot", parts))
  IN IF /\ Word(t, i) = "dot"
        /\ t[i].gap \in {"", "\n"} \/ Follows(t, i, PathLeaders \cup {"a", "an", "and", "or"})
        /\ Spaced(t, i) /\ Word(t, i + 1) \in Dotfiles
       THEN Conversion(i, last, <<".">> \o Joined(t, i + 1, last, "."), FALSE,
                       <<"", LastLabel(Word(t, last))>>)
       ELSE None

(* `cued_before`: an email cue at most five words back in the same sentence. *)
CuedBefore(t, i) ==
  \E k \in DOMAIN t :
    /\ k \in (i - 5)..(i - 1) /\ Word(t, k) \in EmailCues
    /\ \A j \in (k + 1)..i : t[j].gap \notin {". ", "\n"}

Email(t, i) ==
  LET start == i + 2
      end == DottedName(t, start)
      written == Word(t, start) \in DottedWords /\ Ending(Word(t, start)) = "domain"
      last == IF end = 0 THEN start ELSE end
      known == Word(t, i) \in AddressNames
      named == Spaced(t, last) /\ Word(t, last + 1) \in AddressNouns
  IN IF /\ Word(t, i) \notin Letters \cup Stopwords \cup NotMailboxes \cup Digits
        /\ ~InContraction(t, i)
        /\ Word(t, i - 1) # "plus"
        /\ Links(t, i, "at")
        /\ IF end = 0 THEN written ELSE Ending(Word(t, end)) = "domain"
        /\ IF Follows(t, i, Determiners) THEN known /\ named
           ELSE known \/ named \/ CuedBefore(t, i)
       THEN Conversion(i, last, <<Word(t, i), "@">> \o Joined(t, start, last, "."), FALSE,
                       <<FirstLabel(Word(t, i)), LastLabel(Word(t, last))>>)
       ELSE None

(* A domain of common English words is prose, and so is "dot com bubble". *)
Prose(t, i, last) ==
  LET words == {Word(t, k) : k \in {j \in i..last : (j - i) % 2 = 0}}
      parts == UNION {ToSet(Labels(w)) : w \in words \ {Word(t, last)}}
               \cup ToSet(Front(Labels(Word(t, last))))
  IN parts \subseteq CommonWords \/ (Spaced(t, last) /\ Word(t, last + 1) \in EraNouns)

Dotted(t, i) ==
  LET last == DottedName(t, i)
  IN IF last = 0 THEN None
     ELSE IF Ending(Word(t, last)) = "domain" /\ Prose(t, i, last) THEN None
     ELSE Conversion(i, last, Joined(t, i, last, "."), FALSE,
                     <<FirstLabel(Word(t, i)), LastLabel(Word(t, last))>>)

Underscored(t, i) ==
  LET parts ==
        {k \in NameParts(t) :
           /\ ~InContraction(t, k)
           /\ Word(t, k) \notin DottedWords \cup SymbolNamers \cup SymbolNouns \cup Modals
                                \cup Determiners}
      last == Max(Chain(t, i, "underscore", parts))
  IN IF i \in parts /\ Word(t, i) \notin PathLeaders /\ last > i
       THEN Conversion(i, last, Joined(t, i, last, "_"), FALSE, <<"name", "name">>)
       ELSE None

ShortFlag(t, i) ==
  LET command == Word(t, i) IN
  IF /\ command \notin Stopwords \cup {"dash"} \cup DottedWords /\ t[i].case = "low"
     /\ command \in Commands \/ command \notin CommonWords
     /\ Word(t, i + 2) \in Letters \ {"a", "i"}
     /\ Links(t, i, "dash")
    THEN Conversion(i + 1, i + 2, <<"-", Word(t, i + 2)>>, FALSE, <<"", Word(t, i + 2)>>)
    ELSE None

(* A final "I" is the pronoun, and a run before "or" and a letter is a list. *)
SpelledLetters(t, i) ==
  LET Letter(k) == Word(t, k) \in Letters /\ t[k].case = "up"
      run == Max({k \in i..Len(t) :
                    \A j \in (i + 1)..k : t[j].gap = " " /\ Letter(j)})
      pronoun == /\ run > i /\ Word(t, run) = "i"
                 /\ \/ run < i + 2
                    \/ Spaced(t, run) /\ t[run + 1].case = "low"
      last == IF pronoun THEN run - 1 ELSE run
      options == /\ Spaced(t, last) /\ Word(t, last + 1) \in {"and", "or"}
                 /\ Spaced(t, last + 1) /\ Letter(last + 2)
  IN IF /\ Letter(i)
        /\ Word(t, i) \in {"a", "i"} => Follows(t, i, RunArticles)
        /\ last >= i + 2 /\ ~options
       THEN Conversion(i, last, [k \in 1..(last - i + 1) |-> Word(t, i + k - 1)], FALSE,
                       <<"name", "name">>)
       ELSE None

--------------------------------------------------------------------------------
Free(t, conversion) ==
  \A k \in conversion.first..conversion.last : t[k].claim = "free"

(* The first rule whose conversion is free, or None. *)
Found(t, i) ==
  FoldLeft(LAMBDA found, c : IF found = None /\ c # None /\ Free(t, c) THEN c ELSE found,
           None,
           <<RelativePath(t, i), Flag(t, i), Dotfile(t, i), Email(t, i), Dotted(t, i),
             Underscored(t, i), ShortFlag(t, i), SpelledLetters(t, i)>>)

(* A stretch of output text: what stands for words from..to of the transcript. *)
AsHeard(t, i) ==
  [text |-> <<Word(t, i)>>, word |-> Word(t, i), gap |-> t[i].gap, claim |-> t[i].claim,
   outer |-> <<FirstLabel(Word(t, i)), LastLabel(Word(t, i))>>,
   literal |-> t[i].claim = "path", from |-> i, to |-> i]

Written(t, c) ==
  [text |-> c.text, word |-> "", gap |-> t[c.first].gap, claim |-> "free",
   outer |-> c.outer, literal |-> c.literal, from |-> c.first, to |-> c.last]

(* What word i, or the conversion found there, becomes; a short flag begins behind it. *)
Stretches(t, i, c) ==
  (IF c.first = i THEN <<>> ELSE <<AsHeard(t, i)>>)
  \o (IF c = None THEN <<>> ELSE <<Written(t, c)>>)

(* `normalize_spoken_symbols` *)
SpokenSymbols(t) ==
  LET f[i \in 1..(Len(t) + 1)] ==
        IF i > Len(t) THEN <<>>
        ELSE LET c == Found(t, i)
             IN Stretches(t, i, c) \o f[(IF c = None THEN i ELSE c.last) + 1]
  IN f[1]

================================================================================
