--------------------------------- MODULE MCWindow ---------------------------------
EXTENDS Window

MCDictations == 1..3
MCMatching == {1, 3}
MCSpellings == {"a", "b", "c"}
MCKeys == {"first", "second"}

MCLaunched == {"first", "second", "third"}

================================================================================
