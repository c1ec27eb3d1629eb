------------------------------- MODULE SettingsForm -------------------------------
(* The settings the window edits: the queue of requests and the Settings, Words and
   Setup screens (crates/agentdictate-ui/src/desktop/settings_form.rs,
   settings_actions.rs, words_actions.rs, setup_actions.rs, src/words.rs), and the
   daemon that saves them (crates/agentdictate-app/src/process.rs).

   Every edit shows at once and waits for the daemon behind those before it.  A Words
   edit sends the whole list, an index names a word by its place on the screen, and a
   key is saved only after OpenAI's answer about it, so each depends on what the
   requests before it came to.

   Settings that one value replaces whole behave alike: Keep transcripts stands for
   them.  The shortcut's capture, error texts and "Saved" marks are left out. *)
EXTENDS Integers, Sequences, SequencesExt, FiniteSets

CONSTANTS
  Spellings,   \* the spellings of words
  Keys,        \* API keys
  MaxClicks    \* bound: what the user does

ASSUME ClicksAssumption == MaxClicks \in Nat

VARIABLES
  config,     \* the settings the daemon holds and has written to config.json
  saved,      \* `saved`: those settings as of its last answer
  pending,    \* requests without an answer; the first is in flight
  answer,     \* to the first: "none", "saved", "refused"
  editor,     \* the Words row open for editing, and the word it edits
  shorter,    \* `shorter_retention`, or Unset
  setup,      \* SetupState: the key box and its check
  checks,     \* key checks in flight
  clicks,
  screen,     \* bound: the user stays on Words, or on Settings and Setup
  meant,      \* the words the user made, each edit naming its word
  told,       \* an edit was refused since the words were last settled
  lost,       \* the daemon saved a change and its answer was lost
  confirmed,  \* shorter retentions confirmed since the queue was last empty
  latest      \* the key of the last check, unless Replace or Cancel followed

formVars == <<config, saved, pending, answer, editor, shorter, setup, checks, clicks,
              screen, meant, told, lost, confirmed, latest>>

NoKey == "none"
Unset == -1
Retentions == 0..2                        \* Don't keep, 30 days, Forever
NoEditor == [index |-> 0, was |-> "none", of |-> "none"]

Entry(spelling) == [spelling |-> spelling, aliases |-> 0]

--------------------------------------------------------------------------------
(* Requests.  A change is a record of the one setting it replaces. *)

(* `SettingChange::apply` *)
Change(settings, request) ==
  [field \in DOMAIN settings |->
     IF field \in DOMAIN request THEN request[field] ELSE settings[field]]

(* Mutant of Shown: the screen shows what the daemon last answered. *)
ShownAsSaved == saved

(* The last request on its way that sets `field`, or 0. *)
LastSetter(field) == Max({0} \cup {i \in DOMAIN pending : field \in DOMAIN pending[i]})

(* `shown`: the daemon's settings with the edits on their way. *)
Shown ==
  [field \in {"words", "keep"} |->
     IF LastSetter(field) = 0 THEN saved[field] ELSE pending[LastSetter(field)][field]]

Queue(request) ==
  /\ pending' = Append(pending, request)
  /\ UNCHANGED <<config, saved, answer>>

ClickOn(place) ==
  screen = place /\ clicks < MaxClicks /\ clicks' = clicks + 1

--------------------------------------------------------------------------------
(* The daemon *)

(* `change_setting`, `set_api_key`: nothing changes unless config.json was written. *)
DaemonSaves ==
  /\ pending # <<>> /\ answer = "none"
  /\ config' = Change(config, pending[1])
  /\ \/ answer' = "saved" /\ UNCHANGED lost
     \/ answer' = "refused" /\ lost' = TRUE
  /\ UNCHANGED <<saved, pending, editor, shorter, setup, checks, clicks, screen, meant,
                 told, confirmed, latest>>

DaemonRefuses ==
  /\ pending # <<>> /\ answer = "none"
  /\ answer' = "refused"
  /\ UNCHANGED <<config, saved, pending, editor, shorter, setup, checks, clicks, screen,
                 meant, told, lost, confirmed, latest>>

(* `finish_settings_request`, and what each request does with its answer. *)
Finishes ==
  /\ answer # "none"
  /\ LET request == Head(pending)
         ok == answer = "saved"
     IN /\ saved' = IF ok THEN config ELSE saved
        /\ editor' = IF /\ ok /\ "row" \in DOMAIN request
                        /\ editor.index = request.row
                     THEN NoEditor ELSE editor
        /\ setup' = IF "setup" \notin DOMAIN request THEN setup
                    ELSE IF ok THEN [setup EXCEPT !.box = NoKey, !.replacing = FALSE]
                    ELSE [setup EXCEPT !.key = "problem"]
        /\ LET quiet == Len(pending) = 1
               failed == told \/ ~ok
           IN /\ meant' = IF quiet /\ failed THEN saved'.words ELSE meant
              /\ told' = (failed /\ ~(quiet /\ editor' = NoEditor))
              /\ confirmed' = IF quiet THEN {} ELSE confirmed
  /\ pending' = Tail(pending)
  /\ answer' = "none"
  /\ UNCHANGED <<config, shorter, checks, clicks, screen, lost, latest>>

--------------------------------------------------------------------------------
(* Words *)

(* `validate_vocabulary` *)
Valid(words) ==
  \A i, j \in DOMAIN words : i # j => words[i].spelling # words[j].spelling

Place(words, spelling) == {i \in DOMAIN words : words[i].spelling = spelling}

(* `WordsEdit::FixWord`: one more alias for the word, added when it is new. *)
FixWord(words, spelling) ==
  IF Place(words, spelling) = {} THEN Append(words, [Entry(spelling) EXCEPT !.aliases = 1])
  ELSE [i \in DOMAIN words |-> IF i \in Place(words, spelling)
                               THEN [words[i] EXCEPT !.aliases = 1] ELSE words[i]]

(* `WordsEdit::apply`; an index that is gone changes nothing. *)
Apply(edit, words) ==
  CASE edit.kind = "add" -> Append(words, edit.word)
    [] edit.kind = "fix" -> FixWord(words, edit.word.spelling)
    [] edit.kind = "update" ->
         [i \in DOMAIN words |-> IF i = edit.index THEN edit.word ELSE words[i]]
    [] edit.kind = "delete" ->
         IF edit.index \in DOMAIN words THEN RemoveAt(words, edit.index) ELSE words

(* The same edit of the word it was made on, wherever it stands. *)
Mean(edit, words) ==
  LET place == Place(words, edit.of)
      here == [edit EXCEPT !.index = IF place = {} THEN 0 ELSE CHOOSE i \in place : TRUE]
  IN Apply(IF edit.kind \in {"update", "delete"} THEN here ELSE edit, words)

(* `save_words`: the whole list is sent, unless the edit breaks a rule. *)
SaveWords(edit) ==
  LET words == Apply(edit, Shown.words)
      request == [words |-> words]
  IN IF Valid(words)
       THEN /\ Queue(IF edit.kind = "update" THEN [words |-> words, row |-> edit.index]
                                             ELSE request)
            /\ meant' = Mean(edit, meant)
       ELSE UNCHANGED <<config, saved, pending, answer, meant>>

AddsWord(spelling, kind) ==
  /\ ClickOn("words")
  /\ SaveWords([kind |-> kind, index |-> 0, of |-> "none", word |-> Entry(spelling)])
  /\ UNCHANGED <<editor, shorter, setup, checks, screen, told, lost, confirmed, latest>>

OpensEditor(i) ==
  /\ ClickOn("words")
  /\ i \in DOMAIN Shown.words
  /\ editor' = [index |-> i, was |-> Shown.words[i], of |-> Shown.words[i].spelling]
  /\ UNCHANGED <<config, saved, pending, answer, shorter, setup, checks, screen, meant,
                 told, lost, confirmed, latest>>

ClosesEditor ==
  /\ editor # NoEditor
  /\ ClickOn("words")
  /\ editor' = NoEditor
  /\ told' = (told /\ pending # <<>>)
  /\ UNCHANGED <<config, saved, pending, answer, shorter, setup, checks, screen, meant,
                 lost, confirmed, latest>>

(* `commit_word_editor`: the row stays open until the daemon has saved it. *)
CommitsEditor(spelling) ==
  /\ editor # NoEditor
  /\ ClickOn("words")
  /\ SaveWords([kind |-> "update", index |-> editor.index, of |-> editor.of,
                word |-> [editor.was EXCEPT !.spelling = spelling]])
  /\ editor' = IF pending' # pending THEN [editor EXCEPT !.of = spelling] ELSE editor
  /\ UNCHANGED <<shorter, setup, checks, screen, told, lost, confirmed, latest>>

(* Mutant of Reset: a deletion leaves the row editor open. *)
ResetNothing == editor

(* `WordsUiState::reset` *)
Reset == NoEditor

DeletesWord(i) ==
  /\ ClickOn("words")
  /\ i \in DOMAIN Shown.words
  /\ editor' = Reset
  /\ SaveWords([kind |-> "delete", index |-> i, of |-> Shown.words[i].spelling,
                word |-> Entry("none")])
  /\ UNCHANGED <<shorter, setup, checks, screen, told, lost, confirmed, latest>>

--------------------------------------------------------------------------------
(* Keep transcripts *)

(* `deletes_transcripts` *)
DeletesTranscripts(choice, current) == choice < current

(* `choose_keep_transcripts` *)
Chooses(choice) ==
  /\ ClickOn("settings")
  /\ IF DeletesTranscripts(choice, Shown.keep)
       THEN /\ shorter' = choice
            /\ UNCHANGED <<config, saved, pending, answer>>
       ELSE /\ shorter' = Unset
            /\ IF choice # Shown.keep THEN Queue([keep |-> choice])
               ELSE UNCHANGED <<config, saved, pending, answer>>
  /\ UNCHANGED <<editor, setup, checks, screen, meant, told, lost, confirmed, latest>>

(* `settle_shorter_retention` *)
Settles(yes) ==
  /\ shorter # Unset
  /\ ClickOn("settings")
  /\ shorter' = Unset
  /\ IF yes THEN Queue([keep |-> shorter]) /\ confirmed' = confirmed \cup {shorter}
     ELSE UNCHANGED <<config, saved, pending, answer, confirmed>>
  /\ UNCHANGED <<editor, setup, checks, screen, meant, told, lost, latest>>

--------------------------------------------------------------------------------
(* Setup's API key *)

BoxShows == saved.key = NoKey \/ setup.replacing

TypesKey(key) ==
  /\ BoxShows /\ setup.box # key
  /\ ClickOn("settings")
  /\ setup' = [setup EXCEPT !.box = key]
  /\ UNCHANGED <<config, saved, pending, answer, editor, shorter, checks, screen, meant,
                 told, lost, confirmed, latest>>

(* `check_setup_key`: the pasted key, or the saved one when the box is hidden. *)
ChecksKey ==
  /\ setup.key # "checking"
  /\ ClickOn("settings")
  /\ IF BoxShows /\ setup.box = NoKey
       THEN setup' = [setup EXCEPT !.key = "problem"] /\ UNCHANGED <<checks, latest>>
       ELSE LET pasted == IF BoxShows THEN setup.box ELSE NoKey
            IN /\ setup' = [setup EXCEPT !.key = "checking", !.nth = @ + 1]
               /\ checks' = checks \cup {[nth |-> setup.nth + 1, pasted |-> pasted]}
               /\ latest' = pasted
  /\ UNCHANGED <<config, saved, pending, answer, editor, shorter, screen, meant, told,
                 lost, confirmed>>

(* `finish_key_check`, unless a later check, Replace or Cancel came first. *)
KeyChecked(check, works) ==
  /\ checks' = checks \ {check}
  /\ IF check.nth # setup.nth THEN UNCHANGED <<setup, config, saved, pending, answer>>
     ELSE /\ setup' = [setup EXCEPT !.key = IF works THEN "works" ELSE "problem"]
          /\ IF works /\ check.pasted # NoKey
               THEN Queue([key |-> check.pasted, setup |-> TRUE])
               ELSE UNCHANGED <<config, saved, pending, answer>>
  /\ UNCHANGED <<editor, shorter, clicks, screen, meant, told, lost, confirmed, latest>>

(* Mutant of Replacing: the answer to a check on its way still counts. *)
ReplacingUncounted(replacing) ==
  [setup EXCEPT !.replacing = replacing, !.key = "idle", !.box = NoKey]

Replacing(replacing) ==
  [setup EXCEPT !.replacing = replacing, !.key = "idle", !.box = NoKey, !.nth = @ + 1]

(* `set_replacing_setup_key` *)
Replaces(replacing) ==
  /\ setup.replacing # replacing /\ saved.key # NoKey
  /\ ClickOn("settings")
  /\ setup' = Replacing(replacing)
  /\ latest' = NoKey
  /\ UNCHANGED <<config, saved, pending, answer, editor, shorter, checks, screen, meant,
                 told, lost, confirmed>>

--------------------------------------------------------------------------------
FormInit ==
  /\ config \in [words : {<<>>} \cup {<<Entry(a), Entry(b)>> : a, b \in Spellings},
                 keep : Retentions, key : Keys \cup {NoKey}]
  /\ Valid(config.words)
  /\ screen \in {"words", "settings"}
  /\ IF screen = "words" THEN config.keep = 2 /\ config.key = NoKey
                        ELSE config.words = <<>>
  /\ saved = config
  /\ pending = <<>> /\ answer = "none"
  /\ editor = NoEditor /\ shorter = Unset
  /\ setup = [box |-> NoKey, replacing |-> FALSE, key |-> "idle", nth |-> 0]
  /\ checks = {} /\ clicks = 0
  /\ meant = config.words /\ told = FALSE /\ lost = FALSE
  /\ confirmed = {} /\ latest = NoKey

FormAnswers == DaemonSaves \/ DaemonRefuses \/ Finishes

FormChecks == \E check \in checks, works \in BOOLEAN : KeyChecked(check, works)

FormClicks ==
  \/ \E spelling \in Spellings :
       AddsWord(spelling, "add") \/ AddsWord(spelling, "fix") \/ CommitsEditor(spelling)
  \/ \E i \in 1..3 : OpensEditor(i) \/ DeletesWord(i)
  \/ ClosesEditor
  \/ \E choice \in Retentions : Chooses(choice)
  \/ \E yes \in BOOLEAN : Settles(yes) \/ Replaces(yes)
  \/ \E key \in Keys : TypesKey(key)
  \/ ChecksKey

--------------------------------------------------------------------------------
(* Properties *)

(* Once every request is answered, the daemon's words are those the user made, each
   edit applied to the word it was made on, although an edit sends the whole list as
   the screen showed it and names a word by its index (settings_form.rs `shown`,
   words_actions.rs).  A refused edit, or a lost answer, is excused until the words
   are settled and no row opened before it is still open. *)
WordsAreAsEdited ==
  pending = <<>> /\ ~told /\ ~lost => config.words = meant

(* An open Words row edits the word it was opened on (words_actions.rs: "Deleting
   shifts later words, so an open editor would edit another").  It fails after a
   refusal: the row was opened on a list that never was. *)
EditorKeepsItsWord ==
  editor # NoEditor => editor.of \in
    {Shown.words[i].spelling : i \in DOMAIN Shown.words \cap {editor.index}}

(* The daemon comes to keep transcripts for a shorter time only when that time, or a
   shorter one, was confirmed, however choices and answers overlap, since it deletes
   transcripts (settings_actions.rs `choose_keep_transcripts`). *)
ShorterWasConfirmed ==
  [][config'.keep < config.keep /\ ~lost' =>
       \E choice \in confirmed : choice <= config'.keep]_formVars

(* Setup saves a key only on the answer about the key last checked, and none after
   Replace or Cancel: "an earlier key's answer must not be saved" (setup_actions.rs). *)
SetupSavesTheLatest ==
  [][Len(pending') > Len(pending) /\ "setup" \in DOMAIN Last(pending') =>
       Last(pending').key = latest]_formVars

(* What the window saves is what was meant last: SetupSavesTheLatest, and a shorter keep
   only as confirmed (ShorterWasConfirmed). *)
SavesAreMeant == SetupSavesTheLatest /\ ShorterWasConfirmed

================================================================================
