--------------------------------- MODULE Delivery --------------------------------
(* Delivering a text: SystemDeliverer of crates/agentdictate-app/src/system.rs, with
   PasteDelivery (paste.rs), SelectionOwner and its owner thread (clipboard.rs) and
   PasteInjector (injection.rs) of crates/agentdictate-linux/src.

   The deliverer runs on the daemon's thread, the owner of the X11 selections on a
   thread of its own.  A step is one request to the X server, one key event, or what
   a thread does between two of them.  Other applications take selections and ask
   for the text, the focus moves, the delivery's deadline passes, and the X server's
   connection may be lost.                                                        *)
EXTENDS Integers, Sequences, FiniteSets

CONSTANTS
  MaxDeliveries,  \* bound: deliveries, each with a text of its own, its number
  Modes,          \* the shortcut modes in use
  Windows,        \* X11 windows
  NoWindow,       \* no X11 window: a native Wayland one, or none at all
  MaxMoves,       \* bound: what other applications and the user do
  Failing,        \* the kinds of step that may fail
  MaxFailures     \* bound: failed steps

ASSUME ModesAssumption == Modes \subseteq {"auto", "standard", "terminal"}
ASSUME WindowsAssumption == NoWindow \notin Windows
ASSUME BoundsAssumption == {MaxDeliveries, MaxMoves, MaxFailures} \subseteq Nat
ASSUME FailingAssumption ==
  Failing \subseteq {"connect", "display", "focus", "device", "emit"}

VARIABLES
  owner,     \* owner of each selection, as the X server has it
  events,    \* X events the owner thread has yet to read
  link,      \* the owner thread: "none", "up", or "lost" with its connection
  queue,     \* claims sent to the owner thread
  claim,     \* the claim it runs, or NoClaim
  published, \* Published: the text, the selections serving it, the last request
  waylandSession, \* whether XDG_SESSION_TYPE is wayland
  focused,   \* the window that has the focus
  keyboard,  \* the uinput device: the keys it holds down, or NoDevice
  delivery,  \* the delivery that runs, or Idle
  result,    \* what the last delivery reported
  late,      \* its deadline has passed
  delivered, \* deliveries so far
  sent,      \* history: what its chord did, and the text applications took after it
  taken,     \* history: selections others took since the last claim
  moves, failures

deliveryVars == <<waylandSession, owner, events, link, queue, claim, published, focused,
          keyboard, delivery, result, late, delivered, sent, taken, moves, failures>>
xserver == <<owner, events, taken, waylandSession>>
thread == <<link, queue, claim, published>>
deliverer == <<delivery, result, sent, delivered>>

Primary == "primary"
Clipboard == "clipboard"
SELECTIONS == <<Primary, Clipboard>>
Selection == {Primary, Clipboard}
NoText == 0
NoClaim == [text |-> NoText, on |-> {}, served |-> {}, unread |-> <<>>]
NoDevice == {"none"}
Idle == [at |-> "idle"]
NoResult == [text |-> NoText, kind |-> "none", on |-> {}, copied |-> FALSE,
             consumed |-> FALSE]
NotPressed == [presses |-> 0, after |-> NoText]

May(kind) == kind \in Failing /\ failures < MaxFailures /\ failures' = failures + 1
Fine == UNCHANGED failures

(* Automatic mode's Shift+Insert pastes either selection, by application. *)
PublishedOn(mode) == IF mode = "auto" THEN {Primary, Clipboard} ELSE {Clipboard}
Chord(mode) ==
  CASE mode = "auto" -> <<"shift", "insert">>
    [] mode = "standard" -> <<"ctrl", "v">>
    [] mode = "terminal" -> <<"ctrl", "shift", "v">>

DeliveryInit ==
  /\ owner = [s \in Selection |-> "other"]
  /\ events = <<>> /\ taken = {}
  /\ link = "none" /\ queue = <<>> /\ claim = NoClaim
  /\ published = [text |-> NoText, on |-> {}, asked |-> "never"]
  /\ waylandSession \in BOOLEAN
  /\ focused \in Windows \cup {NoWindow}
  /\ keyboard \in {{}, NoDevice}
  /\ delivery = Idle /\ result = NoResult /\ late = FALSE /\ delivered = 0 /\ sent = NotPressed
  /\ moves = 0 /\ failures = 0

--------------------------------------------------------------------------------
(* The owner thread *)

Running == link = "up"
Reply(text, answer) ==
  delivery' = IF delivery.at = "reply" /\ delivery.text = text
              THEN [delivery EXCEPT !.at = "replied", !.answer = answer] ELSE delivery

(* A claimed text goes on its selections; claims wait for each other. *)
SetOwners ==
  /\ Running /\ claim = NoClaim /\ queue # <<>>
  /\ claim' = [text |-> Head(queue).text, on |-> Head(queue).on, served |-> {},
               unread |-> SELECTIONS]
  /\ queue' = Tail(queue)
  /\ owner' = [s \in Selection |-> IF s \in claim'.on THEN "us" ELSE owner[s]]
  /\ taken' = taken \ claim'.on
  /\ UNCHANGED <<waylandSession, events, link, published, focused, keyboard, delivery,
                 result, late, sent, delivered, moves, failures>>

(* Every owner is read back; what is left out and still ours is to be released. *)
ReadOwner ==
  /\ Running /\ claim.unread # <<>> /\ "release" \notin claim.served
  /\ LET s == Head(claim.unread)
         ours == owner[s] = "us" IN
     claim' = CASE ours /\ s \in claim.on ->
                     [claim EXCEPT !.served = @ \cup {s}, !.unread = Tail(@)]
                [] ours /\ s \notin claim.on -> [claim EXCEPT !.served = @ \cup {"release"}]
                [] OTHER -> [claim EXCEPT !.unread = Tail(@)]
  /\ UNCHANGED <<waylandSession, owner, events, link, queue, published, focused,
                 keyboard, delivery, result, late, sent, taken, delivered, moves,
                 failures>>

(* Another application may have taken the selection since it was read. *)
Release ==
  /\ Running /\ "release" \in claim.served
  /\ owner' = [owner EXCEPT ![Head(claim.unread)] = "none"]
  /\ claim' = [claim EXCEPT !.served = @ \ {"release"}, !.unread = Tail(@)]
  /\ events' = IF owner[Head(claim.unread)] = "us"
               THEN Append(events, [kind |-> "clear", selection |-> Head(claim.unread)])
               ELSE events
  /\ UNCHANGED <<waylandSession, link, queue, published, focused, keyboard, delivery,
                 result, late, sent, taken, delivered, moves, failures>>

PublishOn(text, served) == [text |-> text, on |-> served, asked |-> "never"]
Serves(s) == s \in published.on
Lose(s) ==
  LET on == published.on \ {s} IN
  [published EXCEPT !.on = on, !.text = IF on = {} THEN NoText ELSE @]

(* The text goes on the selections that are ours. *)
Publish ==
  /\ claim # NoClaim /\ claim.unread = <<>>
  /\ published' = PublishOn(claim.text, claim.served)
  /\ Reply(claim.text, IF claim.served = claim.on THEN "ok" ELSE "not owned")
  /\ claim' = NoClaim
  /\ UNCHANGED <<xserver, link, queue, focused, keyboard, result, late, sent, delivered,
                 moves, failures>>

(* An event is read between two claims. *)
Reads(kind) == Running /\ claim = NoClaim /\ events # <<>> /\ Head(events).kind = kind

(* Mutant of Cleared: a clear is taken as it comes. *)
ClearedUnread ==
  /\ Reads("clear")
  /\ published' = Lose(Head(events).selection)
  /\ events' = Tail(events)
  /\ UNCHANGED <<waylandSession, owner, taken, link, queue, claim, focused, keyboard,
                 deliverer, late, moves, failures>>

(* A clear may be older than our last claim: the owner is read again. *)
Cleared ==
  /\ Reads("clear")
  /\ LET s == Head(events).selection IN
     published' = IF owner[s] = "us" THEN published ELSE Lose(s)
  /\ events' = Tail(events)
  /\ UNCHANGED <<waylandSession, owner, taken, link, queue, claim, focused, keyboard,
                 deliverer, late, moves, failures>>

(* The text is handed out for a selection that serves it, and the time noted. *)
Answer ==
  /\ Reads("request")
  /\ IF Serves(Head(events).selection)
     THEN LET pressed == sent.presses > 0 IN
          /\ published' = [published EXCEPT !.asked = IF pressed THEN "since" ELSE "earlier"]
          /\ sent' = [sent EXCEPT !.after = IF pressed THEN published.text ELSE @]
     ELSE UNCHANGED <<published, sent>>
  /\ events' = Tail(events)
  /\ UNCHANGED <<waylandSession, owner, taken, link, queue, claim, focused, keyboard,
                 delivery, result, late, delivered, moves, failures>>

(* The thread ends with its connection.  The claim it runs answers with the error;
   the callers of the others find their channel closed. *)
ThreadEnds ==
  /\ link = "lost" /\ (claim # NoClaim \/ queue # <<>>)
  /\ \/ claim # NoClaim /\ Reply(claim.text, "failed")
     \/ claim = NoClaim /\ Reply(queue[Len(queue)].text, "stopped")
  /\ claim' = NoClaim
  /\ queue' = IF claim = NoClaim THEN <<>> ELSE queue
  /\ UNCHANGED <<xserver, link, published, focused, keyboard, result, late, sent,
                 delivered, moves, failures>>

OwnerThread ==
  SetOwners \/ ReadOwner \/ Release \/ Publish \/ Cleared \/ Answer \/ ThreadEnds

--------------------------------------------------------------------------------
(* The deliverer *)

At(place) == delivery.at = place
Ends(kind, copied, consumed) ==
  /\ result' = [text |-> delivery.text, kind |-> kind, on |-> delivery.on,
                copied |-> copied, consumed |-> consumed]
  /\ delivery' = Idle

(* A paste, or a copy, which publishes at once and on the clipboard alone. *)
Deliver(method, mode) ==
  /\ At("idle") /\ delivered < MaxDeliveries
  /\ delivered' = delivered + 1
  /\ delivery' = [at |-> IF method = "paste" THEN "focus" ELSE "publish", text |-> delivered',
                  method |-> method, mode |-> mode,
                  on |-> IF method = "paste" THEN PublishedOn(mode) ELSE {Clipboard},
                  target |-> NoText, ready |-> FALSE, again |-> FALSE, answer |-> "none",
                  keys |-> <<>>, held |-> <<>>, failed |-> FALSE]
  /\ result' = NoResult
  /\ late' = FALSE
  /\ sent' = NotPressed
  /\ UNCHANGED <<xserver, thread, focused, keyboard, moves, failures>>

(* The X server's active window.  Under XWayland it may be stale while a native
   window has the focus; an X11 session may have none. *)
ActiveWindow ==
  IF focused \in Windows THEN {[id |-> focused, focused |-> TRUE]}
  ELSE {[id |-> window, focused |-> FALSE] : window \in IF waylandSession THEN Windows ELSE {}}

ResolveFocusTarget(seen) ==
  IF ~waylandSession \/ seen.focused THEN seen.id ELSE NoWindow
SameFocus(target) == target = delivery.target

(* "Pastes once the clipboard is ready and two looks in a row saw the same focused
   window; otherwise publishes the text, or looks again." *)
FocusObserved(target) ==
  delivery' = CASE delivery.ready /\ SameFocus(target) -> [delivery EXCEPT !.at = "inject"]
                [] delivery.ready /\ ~SameFocus(target) -> [delivery EXCEPT !.target = target]
                [] OTHER -> [delivery EXCEPT !.target = target, !.at = "publish"]

ObserveFocus ==
  /\ At("focus")
  /\ \/ /\ late \/ ActiveWindow = {}
        /\ Ends("NotSent", delivery.ready, FALSE) /\ Fine
     \/ /\ ~late /\ \E seen \in ActiveWindow : FocusObserved(ResolveFocusTarget(seen))
        /\ UNCHANGED result /\ Fine
     \/ /\ ~late /\ May("focus")
        /\ IF waylandSession THEN FocusObserved(NoWindow) /\ UNCHANGED result
           ELSE Ends("NotSent", delivery.ready, FALSE)
  /\ UNCHANGED <<xserver, thread, focused, keyboard, late, sent, delivered, moves>>

(* SelectionOwner::publish: the first publication, and one that finds the thread
   ended, starts a thread, once. *)
StartOwner ==
  /\ At("publish") /\ link = "none"
  /\ \/ /\ link' = "up" /\ delivery' = [delivery EXCEPT !.again = TRUE]
        /\ UNCHANGED result /\ Fine
     \/ /\ May("connect") \/ (late /\ Fine)
        /\ Ends("NotSent", FALSE, FALSE) /\ UNCHANGED link
  /\ UNCHANGED <<xserver, queue, claim, published, focused, keyboard, late, sent,
                 delivered, moves>>

Claim ==
  /\ At("publish") /\ link # "none"
  /\ queue' = Append(queue, [text |-> delivery.text, on |-> delivery.on])
  /\ delivery' = [delivery EXCEPT !.at = "reply"]
  /\ UNCHANGED <<xserver, link, claim, published, focused, keyboard, result, late, sent,
                 delivered, moves, failures>>

(* Mutant of ClaimTimesOut: a claim that was taken up is waited for. *)
ClaimTimesOutQueued ==
  /\ At("reply") /\ late /\ queue # <<>>
  /\ Ends("NotSent", FALSE, FALSE)
  /\ UNCHANGED <<xserver, thread, focused, keyboard, late, delivered, sent, moves,
                 failures>>

(* A claim whose caller no longer waits is run all the same. *)
ClaimTimesOut ==
  /\ At("reply") /\ late
  /\ Ends("NotSent", FALSE, FALSE)
  /\ UNCHANGED <<xserver, thread, focused, keyboard, late, sent, delivered, moves,
                 failures>>

(* A thread that has stopped is replaced, once. *)
Claimed ==
  /\ At("replied")
  /\ \/ /\ delivery.answer = "ok"
        /\ IF delivery.method = "copy" THEN Ends("Submitted", TRUE, FALSE)
           ELSE /\ delivery' = [delivery EXCEPT !.at = "focus", !.ready = TRUE]
                /\ UNCHANGED result
        /\ UNCHANGED <<link, published>>
     \/ /\ delivery.answer = "stopped" /\ ~delivery.again
        /\ delivery' = [delivery EXCEPT !.at = "publish", !.again = TRUE]
        /\ link' = "none"
        /\ published' = PublishOn(NoText, {})
        /\ UNCHANGED result
     \/ /\ \/ delivery.answer \in {"not owned", "failed"}
           \/ delivery.answer = "stopped" /\ delivery.again
        /\ Ends("NotSent", FALSE, FALSE)
        /\ UNCHANGED <<link, published>>
  /\ UNCHANGED <<xserver, queue, claim, focused, keyboard, late, sent, delivered, moves,
                 failures>>

(* The keyboard was created early, or is now.  The deadline is looked at before the
   first key; an injection that did not start is reported like one that broke off. *)
Inject ==
  /\ At("inject")
  /\ \/ /\ keyboard' = IF keyboard = NoDevice THEN {} ELSE keyboard
        /\ IF late THEN Ends("Ambiguous", delivery.ready, FALSE)
           ELSE /\ delivery' = [delivery EXCEPT !.at = "keys", !.keys = Chord(delivery.mode)]
                /\ UNCHANGED result
        /\ Fine
     \/ /\ keyboard = NoDevice /\ May("device")
        /\ Ends("Ambiguous", delivery.ready, FALSE)
        /\ UNCHANGED keyboard
  /\ UNCHANGED <<xserver, thread, focused, late, sent, delivered, moves>>

(* The last key of a chord is the one that pastes. *)
Press ==
  /\ At("keys") /\ delivery.keys # <<>>
  /\ LET key == Head(delivery.keys) IN
     \/ /\ keyboard' = keyboard \cup {key}
        /\ delivery' = [delivery EXCEPT !.keys = Tail(@), !.held = Append(@, key)]
        /\ IF Len(delivery.keys) = 1
           THEN /\ sent' = [presses |-> sent.presses + 1, after |-> NoText]
                /\ published' = [published EXCEPT !.asked =
                                   IF @ = "never" THEN "never" ELSE "earlier"]
           ELSE UNCHANGED <<sent, published>>
        /\ Fine
     \/ /\ May("emit")
        /\ delivery' = [delivery EXCEPT !.keys = <<>>, !.failed = TRUE]
        /\ UNCHANGED <<keyboard, sent, published>>
  /\ UNCHANGED <<xserver, link, queue, claim, focused, result, late, delivered, moves>>

(* Keys go up in reverse; a key that will not is left, and the others tried. *)
LetGo ==
  /\ At("keys") /\ delivery.keys = <<>> /\ delivery.held # <<>>
  /\ LET key == delivery.held[Len(delivery.held)]
         rest == SubSeq(delivery.held, 1, Len(delivery.held) - 1) IN
     \/ /\ keyboard' = keyboard \ {key}
        /\ delivery' = [delivery EXCEPT !.held = rest] /\ Fine
     \/ /\ May("emit") /\ UNCHANGED keyboard
        /\ delivery' = [delivery EXCEPT !.held = rest, !.failed = TRUE]
  /\ UNCHANGED <<xserver, thread, focused, result, late, sent, delivered, moves>>

(* Mutants of ChordEnds: a broken chord keeps its device; it is sent once more. *)
ChordEndsKeepingIt ==
  /\ At("keys") /\ delivery.keys = <<>> /\ delivery.held = <<>>
  /\ IF delivery.failed THEN Ends("Ambiguous", delivery.ready, FALSE)
     ELSE delivery' = [delivery EXCEPT !.at = "asked"] /\ UNCHANGED result
  /\ UNCHANGED <<xserver, thread, focused, keyboard, late, sent, delivered, moves,
                 failures>>
ChordEndsRetrying ==
  /\ At("keys") /\ delivery.keys = <<>> /\ delivery.held = <<>>
  /\ delivery' = [delivery EXCEPT !.at = IF delivery.failed THEN "inject" ELSE "asked",
                                  !.failed = FALSE]
  /\ keyboard' = IF delivery.failed THEN NoDevice ELSE keyboard
  /\ UNCHANGED <<xserver, thread, focused, result, late, sent, delivered, moves,
                 failures>>

(* After a broken chord the device goes, and with it every key it holds. *)
ChordEnds ==
  /\ At("keys") /\ delivery.keys = <<>> /\ delivery.held = <<>>
  /\ IF delivery.failed
     THEN keyboard' = NoDevice /\ Ends("Ambiguous", delivery.ready, FALSE)
     ELSE /\ delivery' = [delivery EXCEPT !.at = "asked"]
          /\ UNCHANGED <<keyboard, result>>
  /\ UNCHANGED <<xserver, thread, focused, late, sent, delivered, moves, failures>>

(* Mutant of TextRequestedSince: any request counts, as a clipboard manager's. *)
TextRequestedEver ==
  /\ At("asked")
  /\ Ends("Submitted", delivery.ready, published.asked # "never")
  /\ UNCHANGED <<xserver, thread, focused, keyboard, late, sent, delivered, moves,
                 failures>>

(* The window of a request for the text may end with none. *)
TextRequestedSince ==
  /\ At("asked")
  /\ Ends("Submitted", delivery.ready, published.asked = "since")
  /\ UNCHANGED <<xserver, thread, focused, keyboard, late, sent, delivered, moves,
                 failures>>

DelivererSteps ==
  \/ ObserveFocus \/ StartOwner \/ Claim \/ ClaimTimesOut \/ Claimed
  \/ Inject \/ Press \/ LetGo \/ ChordEnds \/ TextRequestedSince

--------------------------------------------------------------------------------
(* The surroundings *)

DeadlinePasses ==
  /\ ~At("idle") /\ ~late
  /\ late' = TRUE
  /\ UNCHANGED <<xserver, thread, focused, keyboard, deliverer, moves, failures>>

Moves == moves < MaxMoves /\ moves' = moves + 1

TakeSelection(s) ==
  /\ Moves /\ owner[s] # "other"
  /\ owner' = [owner EXCEPT ![s] = "other"]
  /\ taken' = taken \cup {s}
  /\ events' = IF owner[s] = "us" THEN Append(events, [kind |-> "clear", selection |-> s])
               ELSE events
  /\ UNCHANGED <<waylandSession, thread, focused, keyboard, deliverer, late, failures>>

(* The target of the chord, a clipboard manager, or any other application. *)
Request(s) ==
  /\ Moves /\ owner[s] = "us"
  /\ events' = Append(events, [kind |-> "request", selection |-> s])
  /\ UNCHANGED <<waylandSession, owner, taken, thread, focused, keyboard, deliverer,
                 late, failures>>

MoveFocus(window) ==
  /\ Moves /\ focused # window
  /\ focused' = window
  /\ UNCHANGED <<xserver, thread, keyboard, deliverer, late, failures>>

LoseDisplay ==
  /\ link = "up" /\ May("display")
  /\ link' = "lost"
  /\ owner' = [s \in Selection |-> IF owner[s] = "us" THEN "none" ELSE owner[s]]
  /\ events' = <<>>
  /\ UNCHANGED <<waylandSession, taken, queue, claim, published, focused, keyboard,
                 deliverer, late, moves>>

Surroundings ==
  \/ LoseDisplay
  \/ \E s \in Selection : TakeSelection(s) \/ Request(s)
  \/ \E window \in Windows \cup {NoWindow} : MoveFocus(window)

DeliveryNext ==
  \/ OwnerThread \/ DelivererSteps \/ DeadlinePasses \/ Surroundings
  \/ \E method \in {"paste", "copy"}, mode \in Modes : Deliver(method, mode)

(* The deliverer's thread goes on and time passes.  The owner thread and the X server
   may hang. *)
DeliveryFairness == WF_deliveryVars(DelivererSteps) /\ WF_deliveryVars(DeadlinePasses)
DeliverySpec == DeliveryInit /\ [][DeliveryNext]_deliveryVars /\ DeliveryFairness

--------------------------------------------------------------------------------
(* Properties *)

DeliveryTypeOK ==
  /\ owner \in [Selection -> {"none", "us", "other"}]
  /\ events \in Seq([kind : {"clear", "request"}, selection : Selection])
  /\ link \in {"none", "up", "lost"}
  /\ queue \in Seq([text : 1..MaxDeliveries, on : SUBSET Selection])
  /\ claim.served \subseteq Selection \cup {"release"}
  /\ published \in [text : 0..MaxDeliveries, on : SUBSET Selection,
                    asked : {"never", "earlier", "since"}]
  /\ focused \in Windows \cup {NoWindow}
  /\ result.kind \in {"none", "NotSent", "Ambiguous", "Submitted"}
  /\ sent \in [presses : Nat, after : 0..MaxDeliveries]

(* No chord leaves a key down: between two chords the keyboard holds none, whichever
   press or release of a chord failed. *)
NoKeyStaysDown == DeliveryTypeOK /\ (~At("keys") => keyboard \in {{}, NoDevice})

(* What was reported as copied can be pasted: every selection the delivery claimed
   and no application has taken since is ours, and its requests are answered with
   this delivery's text, though clears of an earlier loss arrive later and claims of
   abandoned deliveries ran before. *)
CopiedIsServed ==
  At("idle") /\ link = "up" /\ result.copied =>
    \A s \in result.on \ taken :
      owner[s] = "us" /\ s \in published.on /\ published.text = result.text

(* "Every failure before that shortcut is NotSent, so the text can be delivered again
   safely": no paste key was pressed for a delivery reported so, and never two for
   one delivery. *)
NotSentIsSafe ==
  /\ sent.presses <= 1
  /\ At("idle") /\ result.kind = "NotSent" => sent.presses = 0

(* A paste is reported as consumed only when this text was handed out after its key
   went down; what a clipboard manager fetched at the publication is no paste. *)
ConsumedIsThePaste == result.consumed => sent.after = result.text

(* Every delivery ends, also when the X server or the owner thread hangs or ends, or
   the focus keeps moving. *)
DeliveryEnds == ~At("idle") ~> At("idle")

(* Releasing "any other selection this owner still holds" takes none away from
   another application. *)
ReleasesOnlyOurs == [][\A s \in Selection : owner[s] = "other" => owner'[s] # "none"]_deliveryVars

(* "Nothing was pressed": an injection that did not start is no ambiguous one. *)
AmbiguousWasPressed ==
  At("idle") /\ result.kind = "Ambiguous" => keyboard = NoDevice \/ sent.presses = 1

================================================================================
