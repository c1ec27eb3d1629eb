----------------------------------- MODULE MCText -----------------------------------
EXTENDS Text

W(word) == [word |-> word, case |-> "low", gap |-> " ", claim |-> "free"]
Cap(word) == [W(word) EXCEPT !.case = "cap"]
Up(word) == [W(word) EXCEPT !.case = "up"]
After(gap, word) == [W(word) EXCEPT !.gap = gap]
Claimed(word) == [W(word) EXCEPT !.claim = "words"]
Path(word) == [W(word) EXCEPT !.claim = "path"]

Words(words) == {W(word) : word \in words}

MCTopics ==
  {[words |-> Words({"dot", "slash", "install", "sh", "the"})
              \cup {After(". ", "install"), Claimed("install")},
    most |-> 5],
   [words |-> Words({"dash", "no", "verify", "ls", "l", "and"}) \cup {After(", ", "no")},
    most |-> 5],
   [words |-> Words({"hello", "at", "leadlord.ai", "leadlord", "dot", "ai", "account"})
              \cup {After("\n", "at")},
    most |-> 5],
   [words |-> Words({"snake", "underscore", "must", "key"}) \cup {After("'", "snake")},
    most |-> 5],
   [words |-> Words({"plan", "dot", "slash", "md", "env"}) \cup {After("\n", "dot")},
    most |-> 5],
   [words |-> {Up("t"), Up("i"), Up("a"), W("the"), W("or"), W("plan"),
              After(", ", "t")},
    most |-> 5],
   [words |-> Words({"slash", "code", "and", "a", "command"})
              \cup {Path("apps/landing"), After(", ", "slash"), Claimed("code")},
    most |-> 5],
   [words |-> Words({"version", "two", "twenty", "point", "5", "twelve"})
              \cup {After(", ", "two"), After("-", "two"), Claimed("two")},
    most |-> 5]}

================================================================================
