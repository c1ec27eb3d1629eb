----------------------------- MODULE ControlProofs -----------------------------
(* Theorems about HotkeyControl, for any number of shortcuts, clients, failures, changes of
   the devices and commands: ShortcutIsAsShown.

   "Ready" stands over a listener that works, or something on its way to the loop takes it
   back (ShownInv, SaidInv, ClosedInv).  A shortcut on its way is the save's, which waits
   for its answer, and there is at most one (AskedInv, OrderedInv, SaveInv).  A daemon
   without a listener has a watcher, or its event (RetryInv).                          *)
EXTENDS MCHotkeyControl, SequenceTheorems, TLAPS

--------------------------------------------------------------------------------
(* The inductive invariant *)

Numbers == Nat \ {0}
Message == [kind : {"status"}, generation : Numbers, ready : BOOLEAN]
           \cup [kind : {"discovery_error", "closed", "environment"}, generation : Numbers]
           \cup [kind : {"reconfigure"}, spec : Specs]
           \cup [kind : {"control"}, client : Clients \cup {Nobody}]
Worker == [generation : Numbers, state : {"live", "dead", "closed"}, spec : Specs,
           keyboards : BOOLEAN, seen : Nat, armed : Clients \cup {Nobody}]
Watcher == [waiting : BOOLEAN, generation : Numbers, since : Nat]
Saver == [at : {"idle", "new", "rollback"}, answer : {"none", "ok", "refused"}, spec : Specs]

WorkerType ==
  /\ listener \in Worker
  /\ commands \in Seq(Commands)
  /\ environment \in Nat

LoopType ==
  /\ loop \in {"receive", "waiting", "starting", "failed"}
  /\ generation \in Numbers /\ active \in BOOLEAN /\ current \in Specs
  /\ watcher \in Watcher
  /\ readiness \in {"ready", "starting", "unavailable"}
  /\ failures \in Nat

SaveType ==
  /\ lock \in {"free", "save", "cancel"}
  /\ saver \in Saver
  /\ settings \in Specs
  /\ excused \in BOOLEAN

(* The listener of the loop's generation is there while the loop takes it to be. *)
LoopInv ==
  /\ active => listener.generation = generation
  /\ ~active => listener.state = "closed" /\ loop # "waiting"
  /\ listener.generation <= generation /\ watcher.generation <= generation
  /\ loop = "waiting" => Live
  /\ loop \in {"starting", "failed"} => ~active
  /\ loop = "starting" => watcher.generation < generation

Numbered(e) == e.kind \in {"status", "discovery_error", "closed", "environment"}

(* While the loop starts a listener, nothing on its way is of that one. *)
EventInv(e) ==
  Numbered(e) =>
    /\ e.generation <= generation
    /\ loop = "starting" => e.generation < generation
    /\ e.kind = "closed" /\ IsCurrent(e) => listener.state = "closed"

EventsInv ==
  /\ events \in Seq(Message)
  /\ \A i \in 1..Len(events) : EventInv(events[i])

(* A listener works. *)
Works == active /\ Live /\ listener.keyboards

(* An event that takes "ready" back, and one that says it. *)
TakesBack(e) ==
  /\ e.kind \in {"status", "discovery_error", "closed"} /\ IsCurrent(e)
  /\ e.kind = "status" => ~e.ready
SaysReady(e) == e.kind = "status" /\ IsCurrent(e) /\ e.ready
TakenBackAfter(n) == \E m \in 1..Len(events) : m > n /\ TakesBack(events[m])

(* "Ready", as shown or on its way, is of a listener that works, or is taken back. *)
ShownInv == readiness = "ready" => Works \/ TakenBackAfter(0)
SaidInv ==
  \A n \in 1..Len(events) : SaysReady(events[n]) => Works \/ TakenBackAfter(n)
IsOnItsWay(kind) ==
  \E m \in 1..Len(events) : events[m].kind = kind /\ events[m].generation = generation
ClosedInv == active /\ listener.state = "closed" => IsOnItsWay("closed")
RetryInv ==
  ~excused /\ loop = "receive" /\ ~active =>
    \/ watcher.waiting /\ watcher.generation = generation
    \/ IsOnItsWay("environment")

(* The shortcut that a save asks for, and whether it waits for the answer. *)
Wanted == IF saver.at = "new" THEN saver.spec ELSE settings
Waits == saver.at # "idle" /\ saver.answer = "none"

(* A shortcut on its way is the one the save waits for, and the only one. *)
AskedInv ==
  \A i \in 1..Len(events) : events[i].kind = "reconfigure" =>
    /\ Waits /\ events[i].spec = Wanted /\ loop # "waiting"
    /\ \A k \in 1..Len(events) : events[k].kind = "reconfigure" => k = i
OrderedInv ==
  /\ loop = "waiting" => Waits
  /\ \A i \in 1..Len(commands) : commands[i].kind = "reconfigure" =>
       /\ Waits /\ commands[i].spec = Wanted /\ loop = "waiting"
       /\ \A k \in 1..Len(commands) : commands[k].kind = "reconfigure" => k = i

(* A cancel holds the lock, and its request is on its way at most once. *)
IsCancel(e) == e.kind = "control" /\ e.client = Nobody
CancelInv ==
  /\ canceller.at # "idle" => lock = "cancel"
  /\ \A i \in 1..Len(events) : IsCancel(events[i]) =>
       /\ canceller.at = "asked"
       /\ \A k \in 1..Len(events) : IsCancel(events[k]) => k = i

(* What is listened for is the saved shortcut, but for what a save has reached. *)
SaveInv ==
  /\ Live => listener.spec = current
  /\ saver.at = "idle" <=> lock # "save"
  /\ saver.at = "idle" => saver.answer = "none"
  /\ ~excused => /\ saver.at = "idle" => current = settings
                 /\ saver.at = "new" /\ saver.answer = "ok" => current = saver.spec
                 /\ saver.at = "new" /\ saver.answer # "ok" => current = settings
                 /\ saver.at = "rollback" /\ saver.answer = "ok" => current = settings

ControlInv ==
  /\ WorkerType /\ LoopType /\ SaveType
  /\ LoopInv /\ EventsInv /\ ShownInv /\ SaidInv /\ ClosedInv
  /\ RetryInv /\ AskedInv /\ OrderedInv /\ CancelInv /\ SaveInv

--------------------------------------------------------------------------------
(* What is on its way *)

LEMMA SendMeans ==
  ASSUME events \in Seq(Message), NEW e \in Message, Send(e)
  PROVE  /\ events' \in Seq(Message)
         /\ Len(events) \in Nat /\ Len(events') = Len(events) + 1
         /\ \A i \in 1..Len(events) : events'[i] = events[i] /\ events[i] \in Message
         /\ events'[Len(events) + 1] = e
         /\ \A i \in 1..Len(events') :
              (i \in 1..Len(events) /\ events'[i] = events[i]) \/ i = Len(events) + 1
<1>1. events' = Append(events, e)
  BY DEF Send
<1>3. QED BY <1>1

LEMMA ReceiveMeans ==
  ASSUME events \in Seq(Message), NEW kind, Receive(kind)
  PROVE  /\ loop = "receive"
         /\ events' \in Seq(Message)
         /\ Len(events) \in Nat \ {0} /\ Len(events') = Len(events) - 1
         /\ Head(events) = events[1] /\ events[1] \in Message /\ events[1].kind = kind
         /\ \A i \in 1..Len(events') :
              i + 1 \in 1..Len(events) /\ events'[i] = events[i + 1]
         /\ \A i \in 1..Len(events) : i > 1 =>
              i - 1 \in 1..Len(events') /\ events'[i - 1] = events[i]
<1>1. events # <<>> /\ Head(events).kind = kind /\ events' = Tail(events) /\ loop = "receive"
  BY DEF Receive
<1>6. QED BY <1>1

LEMMA AskMeans ==
  ASSUME commands \in Seq(Commands), NEW c \in Commands, commands' = Append(commands, c)
  PROVE  /\ commands' \in Seq(Commands)
         /\ Len(commands) \in Nat /\ Len(commands') = Len(commands) + 1
         /\ \A i \in 1..Len(commands) : commands'[i] = commands[i]
         /\ commands'[Len(commands) + 1] = c
<1>2. QED OBVIOUS

LEMMA NextCommandMeans ==
  ASSUME commands \in Seq(Commands), NEW kind, NextCommand(kind)
  PROVE  /\ Live
         /\ commands' \in Seq(Commands)
         /\ Len(commands) \in Nat \ {0} /\ Len(commands') = Len(commands) - 1
         /\ Head(commands) = commands[1] /\ commands[1] \in Commands
         /\ commands[1].kind = kind
         /\ \A i \in 1..Len(commands') :
              i + 1 \in 1..Len(commands) /\ commands'[i] = commands[i + 1]
<1>1. /\ commands # <<>> /\ Head(commands).kind = kind /\ commands' = Tail(commands) /\ Live
  BY DEF NextCommand
<1>5. QED BY <1>1

(* Every message of a kind has what the kind says. *)
LEMMA MessageMeans ==
  ASSUME NEW m \in Message
  PROVE  /\ Numbered(m) => m.generation \in Numbers
         /\ m.kind = "status" => m.ready \in BOOLEAN
         /\ m.kind = "reconfigure" => m.spec \in Specs
  BY DEF Message, Numbered

LEMMA CommandMeans ==
  ASSUME NEW c \in Commands
  PROVE  /\ c.kind = "reconfigure" => c.spec \in Specs
         /\ c.kind = "capture" => c.client \in Clients
  BY DEF Commands

LEMMA StatusIsAMessage ==
  ASSUME listener \in Worker, NEW ready \in BOOLEAN
  PROVE  /\ Status(ready) \in Message /\ Status(ready).kind = "status"
         /\ Status(ready).generation = listener.generation /\ Status(ready).ready = ready
  BY DEF Status, Worker, Message

LEMMA AsksAreMessages ==
  /\ \A s \in Specs : [kind |-> "reconfigure", spec |-> s] \in Message
  /\ \A c \in Clients \cup {Nobody} : [kind |-> "control", client |-> c] \in Message
  /\ \A g \in Numbers, k \in {"discovery_error", "closed", "environment"} :
       [kind |-> k, generation |-> g] \in Message
  BY DEF Message

(* What sending an event, or receiving one, does to what is on its way. *)
LEMMA SendKeeps ==
  ASSUME events \in Seq(Message), NEW e \in Message, Send(e), UNCHANGED generation
  PROVE  /\ \A n \in 0..Len(events) : TakenBackAfter(n) => TakenBackAfter(n)'
         /\ TakesBack(e) => \A n \in 0..Len(events) : TakenBackAfter(n)'
         /\ \A kind : IsOnItsWay(kind) => IsOnItsWay(kind)'
         /\ \A kind : e.kind = kind /\ IsCurrent(e) => IsOnItsWay(kind)'
  BY SendMeans DEF TakenBackAfter, TakesBack, IsOnItsWay, IsCurrent

LEMMA ReceiveKeeps ==
  ASSUME events \in Seq(Message), NEW kind, Receive(kind), UNCHANGED generation
  PROVE  /\ \A n \in 1..Len(events) : TakenBackAfter(n) => TakenBackAfter(n - 1)'
         /\ TakenBackAfter(0) => TakesBack(events[1]) \/ TakenBackAfter(0)'
         /\ \A k : IsOnItsWay(k) => (k = kind /\ IsCurrent(events[1])) \/ IsOnItsWay(k)'
<1>1. \A n \in 1..Len(events) : TakenBackAfter(n) => TakenBackAfter(n - 1)'
  BY ReceiveMeans DEF TakenBackAfter, TakesBack, IsCurrent
<1>2. TakenBackAfter(0) => TakesBack(events[1]) \/ TakenBackAfter(0)'
  <2> SUFFICES ASSUME TakenBackAfter(0), ~TakesBack(events[1])
               PROVE  TakenBackAfter(0)'
    OBVIOUS
  <2>a. PICK m \in 1..Len(events) : TakesBack(events[m])
    BY DEF TakenBackAfter
  <2>b. m > 1
    BY <2>a
  <2>1. m - 1 \in 1..Len(events') /\ events'[m - 1] = events[m] /\ m - 1 > 0
    BY <2>b, ReceiveMeans
  <2>2. QED BY <2>a, <2>1 DEF TakenBackAfter, TakesBack, IsCurrent
<1>3. \A k : IsOnItsWay(k) => (k = kind /\ IsCurrent(events[1])) \/ IsOnItsWay(k)'
  <2> SUFFICES ASSUME NEW k, IsOnItsWay(k), ~(k = kind /\ IsCurrent(events[1]))
               PROVE  IsOnItsWay(k)'
    OBVIOUS
  <2>a. PICK m \in 1..Len(events) : events[m].kind = k /\ events[m].generation = generation
    BY DEF IsOnItsWay
  <2>b. m > 1
    BY <2>a, ReceiveMeans DEF IsCurrent
  <2>1. m - 1 \in 1..Len(events') /\ events'[m - 1] = events[m]
    BY <2>b, ReceiveMeans
  <2>2. QED BY <2>a, <2>1 DEF IsOnItsWay
<1>4. QED BY <1>1, <1>2, <1>3

LEMMA SendAsksOnce ==
  ASSUME events \in Seq(Message), NEW e \in Message, Send(e), e.kind # "reconfigure",
         AskedInv, UNCHANGED <<loop, saver, settings>>
  PROVE  AskedInv'
<1>1. \A i \in 1..Len(events') : events'[i].kind = "reconfigure" =>
        i \in 1..Len(events) /\ events'[i] = events[i]
  BY SendMeans
<1>2. QED BY <1>1 DEF AskedInv, Wanted, Waits

LEMMA ReceiveAsksOnce ==
  ASSUME events \in Seq(Message), NEW kind, Receive(kind), AskedInv, loop' # "waiting",
         UNCHANGED <<saver, settings>>
  PROVE  AskedInv'
<1>1. \A i \in 1..Len(events') : i + 1 \in 1..Len(events) /\ events'[i] = events[i + 1]
  BY ReceiveMeans
<1>2. \A i, k \in 1..Len(events') : i + 1 = k + 1 => i = k
  OBVIOUS
<1>3. QED BY <1>1, <1>2 DEF AskedInv, Wanted, Waits

LEMMA ReceiveSaysReady ==
  ASSUME events \in Seq(Message), NEW kind, Receive(kind), UNCHANGED generation,
         SaidInv, Works => Works'
  PROVE  SaidInv'
<1> SUFFICES ASSUME NEW n \in 1..Len(events'), SaysReady(events[n])'
             PROVE  Works' \/ TakenBackAfter(n)'
  BY DEF SaidInv
<1>1. n + 1 \in 1..Len(events) /\ events'[n] = events[n + 1] /\ n = (n + 1) - 1
  BY ReceiveMeans
<1>2. Works \/ TakenBackAfter(n + 1)
  BY <1>1 DEF SaidInv, SaysReady, IsCurrent
<1>3. TakenBackAfter(n + 1) => TakenBackAfter(n)'
  BY <1>1, ReceiveKeeps
<1>4. QED BY <1>2, <1>3

(* A worker that dies, and the one that starts. *)
LEMMA WorkerDies ==
  ASSUME NEW w \in Worker
  PROVE  LET dead == [w EXCEPT !.state = "dead", !.armed = Nobody] IN
         /\ dead \in Worker /\ dead.state = "dead" /\ dead.generation = w.generation
  BY DEF Worker

LEMMA WorkerStarts ==
  ASSUME generation \in Numbers, environment \in Nat, NEW spec \in Specs,
         NEW keyboards \in BOOLEAN
  PROVE  /\ Listener(spec, keyboards) \in Worker
         /\ Listener(spec, keyboards).generation = generation
         /\ Listener(spec, keyboards).state = "live"
         /\ Listener(spec, keyboards).spec = spec
         /\ Listener(spec, keyboards).keyboards = keyboards
  BY DEF Listener, Worker

LEMMA WorkerListensFor ==
  ASSUME NEW w \in Worker, NEW spec \in Specs
  PROVE  LET new == [w EXCEPT !.spec = spec, !.keyboards = TRUE] IN
         /\ new \in Worker /\ new.state = w.state /\ new.generation = w.generation
         /\ new.spec = spec /\ new.keyboards = TRUE
  BY DEF Worker

LEMMA WatcherStarts ==
  ASSUME NEW g \in Numbers, NEW n \in Nat, NEW waiting \in BOOLEAN
  PROVE  LET w == [waiting |-> waiting, generation |-> g, since |-> n] IN
         w \in Watcher /\ w.waiting = waiting /\ w.generation = g
  BY DEF Watcher

(* What an answer does to the save. *)
LEMMA AnswerMeans ==
  ASSUME saver \in Saver, NEW ok \in BOOLEAN, Answer(ok)
  PROVE  /\ saver' \in Saver /\ saver'.at = saver.at /\ saver'.spec = saver.spec
         /\ saver'.answer = IF ok THEN "ok" ELSE "refused"
  BY DEF Saver, Answer

(* Captures, cancels and the devices, which change nothing the loop or a save relies on *)

LEMMA DevicesChangeKeeps ==
  ASSUME ControlInv, DevicesChange, excused' = (excused \/ Excuses)
  PROVE  ControlInv'
<1>1. WorkerType'
  BY DEF ControlInv, DevicesChange, WorkerType
<1>2. LoopType'
  BY DEF ControlInv, DevicesChange, LoopType, supervisor
<1>3. SaveType'
  BY DEF ControlInv, DevicesChange, SaveType, save
<1>4. LoopInv'
  BY DEF ControlInv, DevicesChange, LoopInv, supervisor, Live
<1>5. EventsInv'
  BY DEF ControlInv, DevicesChange, supervisor, EventsInv, EventInv, IsCurrent
<1>6. ShownInv'
  BY DEF ControlInv, DevicesChange, supervisor, ShownInv, Works, TakenBackAfter, TakesBack,
     IsCurrent, Live
<1>7. SaidInv'
  BY DEF ControlInv, DevicesChange, supervisor, SaidInv, Works, TakenBackAfter, TakesBack,
     SaysReady, IsCurrent, Live
<1>8. ClosedInv'
  BY DEF ControlInv, DevicesChange, supervisor, ClosedInv, IsOnItsWay
<1>9. RetryInv'
  BY DEF ControlInv, DevicesChange, supervisor, RetryInv, IsOnItsWay
<1>10. AskedInv'
  BY DEF ControlInv, DevicesChange, save, AskedInv, Wanted, Waits
<1>11. OrderedInv'
  BY DEF ControlInv, DevicesChange, save, OrderedInv, Wanted, Waits
<1>12. CancelInv'
  BY DEF ControlInv, DevicesChange, clients, save, CancelInv
<1>13. SaveInv'
  BY DEF ControlInv, DevicesChange, supervisor, save, SaveInv, Live
<1>14. QED BY <1>1, <1>2, <1>3, <1>4, <1>5, <1>6, <1>7, <1>8, <1>9, <1>10, <1>11, <1>12,
   <1>13 DEF ControlInv

LEMMA WorkerArmsCaptureKeeps ==
  ASSUME ControlInv, WorkerArmsCapture, excused' = (excused \/ Excuses)
  PROVE  ControlInv'
<1>b. commands \in Seq(Commands) /\ NextCommand("capture")
  BY DEF ControlInv, WorkerType, WorkerArmsCapture
<1>a. /\ Live
      /\ commands' \in Seq(Commands)
      /\ Len(commands) \in Nat \ {0} /\ Len(commands') = Len(commands) - 1
      /\ Head(commands) = commands[1] /\ commands[1] \in Commands
      /\ commands[1].kind = "capture"
      /\ \A i \in 1..Len(commands') :
           i + 1 \in 1..Len(commands) /\ commands'[i] = commands[i + 1]
  BY <1>b, NextCommandMeans
<1>1. WorkerType'
  BY <1>a, CommandMeans DEF ControlInv, WorkerArmsCapture, WorkerType, Worker
<1>2. LoopType'
  BY DEF ControlInv, WorkerArmsCapture, LoopType, supervisor
<1>3. SaveType'
  BY DEF ControlInv, WorkerArmsCapture, SaveType, save
<1>4. LoopInv'
  BY DEF ControlInv, WorkerArmsCapture, LoopInv, supervisor, Live
<1>5. EventsInv'
  BY DEF ControlInv, WorkerArmsCapture, supervisor, EventsInv, EventInv, IsCurrent
<1>6. ShownInv'
  BY DEF ControlInv, WorkerArmsCapture, supervisor, ShownInv, Works, TakenBackAfter,
     TakesBack, IsCurrent, Live
<1>7. SaidInv'
  BY DEF ControlInv, WorkerArmsCapture, supervisor, SaidInv, Works, TakenBackAfter,
     TakesBack, SaysReady, IsCurrent, Live
<1>8. ClosedInv'
  BY <1>a DEF WorkerArmsCapture, ClosedInv, Live
<1>9. RetryInv'
  BY DEF ControlInv, WorkerArmsCapture, supervisor, RetryInv, IsOnItsWay
<1>10. AskedInv'
  BY DEF ControlInv, WorkerArmsCapture, save, AskedInv, Wanted, Waits
<1>11. OrderedInv'
  BY <1>a DEF ControlInv, WorkerArmsCapture, LoopType, SaveType, LoopInv, supervisor, save,
     AskedInv, OrderedInv, Wanted, Waits, Live
<1>12. CancelInv'
  BY DEF ControlInv, WorkerArmsCapture, save, CancelInv
<1>13. SaveInv'
  BY <1>a DEF ControlInv, WorkerArmsCapture, SaveType, supervisor, save, SaveInv
<1>14. QED BY <1>1, <1>2, <1>3, <1>4, <1>5, <1>6, <1>7, <1>8, <1>9, <1>10, <1>11, <1>12,
   <1>13 DEF ControlInv

LEMMA WorkerCancelsCaptureKeeps ==
  ASSUME ControlInv, WorkerCancelsCapture, excused' = (excused \/ Excuses)
  PROVE  ControlInv'
<1>b. commands \in Seq(Commands) /\ NextCommand("cancel")
  BY DEF ControlInv, WorkerType, WorkerCancelsCapture
<1>a. /\ Live
      /\ commands' \in Seq(Commands)
      /\ Len(commands) \in Nat \ {0} /\ Len(commands') = Len(commands) - 1
      /\ Head(commands) = commands[1] /\ commands[1] \in Commands
      /\ commands[1].kind = "cancel"
      /\ \A i \in 1..Len(commands') :
           i + 1 \in 1..Len(commands) /\ commands'[i] = commands[i + 1]
  BY <1>b, NextCommandMeans
<1>1. WorkerType'
  BY <1>a DEF ControlInv, WorkerCancelsCapture, WorkerType, Worker
<1>2. LoopType'
  BY DEF ControlInv, WorkerCancelsCapture, LoopType, supervisor
<1>3. SaveType'
  BY DEF ControlInv, WorkerCancelsCapture, SaveType, save
<1>4. LoopInv'
  BY DEF ControlInv, WorkerCancelsCapture, LoopInv, supervisor, Live
<1>5. EventsInv'
  BY DEF ControlInv, WorkerCancelsCapture, supervisor, EventsInv, EventInv, IsCurrent
<1>6. ShownInv'
  BY DEF ControlInv, WorkerCancelsCapture, supervisor, ShownInv, Works, TakenBackAfter,
     TakesBack, IsCurrent, Live
<1>7. SaidInv'
  BY DEF ControlInv, WorkerCancelsCapture, supervisor, SaidInv, Works, TakenBackAfter,
     TakesBack, SaysReady, IsCurrent, Live
<1>8. ClosedInv'
  BY <1>a DEF WorkerCancelsCapture, ClosedInv, Live
<1>9. RetryInv'
  BY DEF ControlInv, WorkerCancelsCapture, supervisor, RetryInv, IsOnItsWay
<1>10. AskedInv'
  BY DEF ControlInv, WorkerCancelsCapture, save, AskedInv, Wanted, Waits
<1>11. OrderedInv'
  BY <1>a DEF ControlInv, WorkerCancelsCapture, save, OrderedInv, Wanted, Waits
<1>12. CancelInv'
  BY DEF ControlInv, WorkerCancelsCapture, save, CancelInv
<1>13. SaveInv'
  BY <1>a DEF ControlInv, WorkerCancelsCapture, SaveType, supervisor, save, SaveInv
<1>14. QED BY <1>1, <1>2, <1>3, <1>4, <1>5, <1>6, <1>7, <1>8, <1>9, <1>10, <1>11, <1>12,
   <1>13 DEF ControlInv

LEMMA WorkerEndsCaptureKeeps ==
  ASSUME ControlInv, WorkerEndsCapture, excused' = (excused \/ Excuses)
  PROVE  ControlInv'
<1>1. WorkerType'
  BY DEF ControlInv, WorkerEndsCapture, WorkerType, Worker
<1>2. LoopType'
  BY DEF ControlInv, WorkerEndsCapture, LoopType, supervisor
<1>3. SaveType'
  BY DEF ControlInv, WorkerEndsCapture, SaveType, save
<1>4. LoopInv'
  BY DEF ControlInv, WorkerEndsCapture, LoopInv, supervisor, Live
<1>5. EventsInv'
  BY DEF ControlInv, WorkerEndsCapture, supervisor, EventsInv, EventInv, IsCurrent
<1>6. ShownInv'
  BY DEF ControlInv, WorkerEndsCapture, supervisor, ShownInv, Works, TakenBackAfter,
     TakesBack, IsCurrent, Live
<1>7. SaidInv'
  BY DEF ControlInv, WorkerEndsCapture, supervisor, SaidInv, Works, TakenBackAfter,
     TakesBack, SaysReady, IsCurrent, Live
<1>8. ClosedInv'
  BY DEF WorkerEndsCapture, ClosedInv, Live
<1>9. RetryInv'
  BY DEF ControlInv, WorkerEndsCapture, supervisor, RetryInv, IsOnItsWay
<1>10. AskedInv'
  BY DEF ControlInv, WorkerEndsCapture, save, AskedInv, Wanted, Waits
<1>11. OrderedInv'
  BY DEF ControlInv, WorkerEndsCapture, save, OrderedInv, Wanted, Waits
<1>12. CancelInv'
  BY DEF ControlInv, WorkerEndsCapture, save, CancelInv
<1>13. SaveInv'
  BY DEF ControlInv, WorkerEndsCapture, SaveType, supervisor, save, SaveInv
<1>14. QED BY <1>1, <1>2, <1>3, <1>4, <1>5, <1>6, <1>7, <1>8, <1>9, <1>10, <1>11, <1>12,
   <1>13 DEF ControlInv

LEMMA CancelSendsKeeps ==
  ASSUME ControlInv, CancelSends, excused' = (excused \/ Excuses)
  PROVE  ControlInv'
<1> DEFINE c0 == [kind |-> "cancel"]
<1>b. c0 \in Commands /\ c0.kind # "reconfigure"
  BY DEF Commands
<1> HIDE DEF c0
<1>c. commands \in Seq(Commands) /\ commands' \in {commands, Append(commands, c0)}
  BY DEF ControlInv, WorkerType, CancelSends, c0
<1>a. /\ commands' \in Seq(Commands)
      /\ \A i \in 1..Len(commands') : commands'[i].kind = "reconfigure" =>
           i \in 1..Len(commands) /\ commands'[i] = commands[i]
      /\ \A i \in 1..Len(commands) : i \in 1..Len(commands')
  <2>1. CASE commands' = commands
    BY <1>c, <2>1
  <2>2. CASE commands' = Append(commands, c0)
    BY <1>b, <1>c
  <2>3. QED BY <1>c, <2>2
<1>1. WorkerType'
  BY <1>a DEF ControlInv, CancelSends, WorkerType
<1>2. LoopType'
  BY DEF ControlInv, CancelSends, LoopType, supervisor
<1>3. SaveType'
  BY DEF ControlInv, CancelSends, SaveType
<1>4. LoopInv'
  BY DEF ControlInv, CancelSends, LoopInv, supervisor, Live
<1>5. EventsInv'
  BY DEF ControlInv, CancelSends, supervisor, EventsInv, EventInv, IsCurrent
<1>6. ShownInv'
  BY DEF ControlInv, CancelSends, supervisor, ShownInv, Works, TakenBackAfter, TakesBack,
     IsCurrent, Live
<1>7. SaidInv'
  BY DEF ControlInv, CancelSends, supervisor, SaidInv, Works, TakenBackAfter, TakesBack,
     SaysReady, IsCurrent, Live
<1>8. ClosedInv'
  BY DEF ControlInv, CancelSends, supervisor, ClosedInv, IsOnItsWay
<1>9. RetryInv'
  BY DEF ControlInv, CancelSends, supervisor, RetryInv, IsOnItsWay
<1>10. AskedInv'
  BY DEF ControlInv, CancelSends, AskedInv, Wanted, Waits
<1>11. OrderedInv'
  BY DEF ControlInv, CancelSends, OrderedInv, Wanted, Waits
<1>12. CancelInv'
  BY DEF ControlInv, CancelSends, CancelInv, NoControl
<1>13. SaveInv'
  BY DEF ControlInv, CancelSends, CancelInv, SaveInv, Live, supervisor
<1>14. QED BY <1>1, <1>2, <1>3, <1>4, <1>5, <1>6, <1>7, <1>8, <1>9, <1>10, <1>11, <1>12,
   <1>13 DEF ControlInv

LEMMA CaptureSendsKeeps ==
  ASSUME ControlInv, NEW c \in Clients, CaptureSends(c), excused' = (excused \/ Excuses)
  PROVE  ControlInv'
<1> DEFINE c0 == [kind |-> "capture", client |-> c]
<1>b. c0 \in Commands /\ c0.kind # "reconfigure"
  BY DEF Commands
<1> HIDE DEF c0
<1>c. commands \in Seq(Commands) /\ commands' \in {commands, Append(commands, c0)}
  BY DEF ControlInv, WorkerType, CaptureSends, c0
<1>a. /\ commands' \in Seq(Commands)
      /\ \A i \in 1..Len(commands') : commands'[i].kind = "reconfigure" =>
           i \in 1..Len(commands) /\ commands'[i] = commands[i]
      /\ \A i \in 1..Len(commands) : i \in 1..Len(commands')
  <2>1. CASE commands' = commands
    BY <1>c, <2>1
  <2>2. CASE commands' = Append(commands, c0)
    BY <1>b, <1>c
  <2>3. QED BY <1>c, <2>2
<1>1. WorkerType'
  BY <1>a DEF ControlInv, CaptureSends, WorkerType
<1>2. LoopType'
  BY DEF ControlInv, CaptureSends, LoopType, supervisor
<1>3. SaveType'
  BY DEF ControlInv, CaptureSends, SaveType, save
<1>4. LoopInv'
  BY DEF ControlInv, CaptureSends, LoopInv, supervisor, Live
<1>5. EventsInv'
  BY DEF ControlInv, CaptureSends, supervisor, EventsInv, EventInv, IsCurrent
<1>6. ShownInv'
  BY DEF ControlInv, CaptureSends, supervisor, ShownInv, Works, TakenBackAfter, TakesBack,
     IsCurrent, Live
<1>7. SaidInv'
  BY DEF ControlInv, CaptureSends, supervisor, SaidInv, Works, TakenBackAfter, TakesBack,
     SaysReady, IsCurrent, Live
<1>8. ClosedInv'
  BY DEF ControlInv, CaptureSends, supervisor, ClosedInv, IsOnItsWay
<1>9. RetryInv'
  BY DEF ControlInv, CaptureSends, supervisor, RetryInv, IsOnItsWay
<1>10. AskedInv'
  BY DEF ControlInv, CaptureSends, save, AskedInv, Wanted, Waits
<1>11. OrderedInv'
  BY <1>a DEF ControlInv, CaptureSends, WorkerType, LoopType, SaveType, supervisor, save,
     OrderedInv, Wanted, Waits
<1>12. CancelInv'
  BY DEF ControlInv, CaptureSends, save, CancelInv
<1>13. SaveInv'
  BY DEF ControlInv, CaptureSends, supervisor, save, SaveInv, Live
<1>14. QED BY <1>1, <1>2, <1>3, <1>4, <1>5, <1>6, <1>7, <1>8, <1>9, <1>10, <1>11, <1>12,
   <1>13 DEF ControlInv

LEMMA CaptureBeginsKeeps ==
  ASSUME ControlInv, NEW c \in Clients, CaptureBegins(c), excused' = (excused \/ Excuses)
  PROVE  ControlInv'
<1> DEFINE e == [kind |-> "control", client |-> c]
<1>b. e \in Message /\ e.kind = "control" /\ e.client = c
  BY AsksAreMessages
<1>c. events \in Seq(Message) /\ Send(e)
  BY DEF ControlInv, EventsInv, CaptureBegins
<1> HIDE DEF e
<1>a. /\ e \in Message /\ e.kind = "control" /\ e.client = c
      /\ events' \in Seq(Message)
      /\ Len(events) \in Nat /\ Len(events') = Len(events) + 1
      /\ \A i \in 1..Len(events) : events'[i] = events[i] /\ events[i] \in Message
      /\ events'[Len(events) + 1] = e
      /\ \A i \in 1..Len(events') :
           (i \in 1..Len(events) /\ events'[i] = events[i]) \/ i = Len(events) + 1
  BY <1>b, <1>c, SendMeans
<1>g. UNCHANGED generation
  BY DEF CaptureBegins, supervisor
<1>k. /\ \A n \in 0..Len(events) : TakenBackAfter(n) => TakenBackAfter(n)'
      /\ TakesBack(e) => \A n \in 0..Len(events) : TakenBackAfter(n)'
      /\ \A kind : IsOnItsWay(kind) => IsOnItsWay(kind)'
      /\ \A kind : e.kind = kind /\ IsCurrent(e) => IsOnItsWay(kind)'
  BY <1>b, <1>c, <1>g, SendKeeps
<1>1. WorkerType'
  BY DEF ControlInv, CaptureBegins, WorkerType
<1>2. LoopType'
  BY DEF ControlInv, CaptureBegins, LoopType, supervisor
<1>3. SaveType'
  BY DEF ControlInv, CaptureBegins, SaveType, save
<1>4. LoopInv'
  BY DEF ControlInv, CaptureBegins, LoopInv, supervisor, Live
<1>5. EventsInv'
  BY <1>a DEF ControlInv, CaptureBegins, supervisor, EventsInv, EventInv, IsCurrent,
     Numbered
<1>6. ShownInv'
  BY <1>k DEF ControlInv, CaptureBegins, LoopType, supervisor, ShownInv, Works, Live
<1>7. SaidInv'
  BY <1>a, <1>k DEF ControlInv, CaptureBegins, supervisor, SaidInv, Works, SaysReady,
     IsCurrent, Live
<1>8. ClosedInv'
  BY <1>k DEF ControlInv, CaptureBegins, supervisor, ClosedInv
<1>9. RetryInv'
  BY <1>k DEF ControlInv, CaptureBegins, supervisor, RetryInv
<1>10. AskedInv'
  BY <1>b, <1>c, SendAsksOnce DEF ControlInv, CaptureBegins, save
<1>11. OrderedInv'
  BY DEF ControlInv, CaptureBegins, save, OrderedInv, Wanted, Waits
<1>12. CancelInv'
  BY <1>a, NobodyAssumption DEF ControlInv, CaptureBegins, CancelInv, IsCancel
<1>13. SaveInv'
  BY DEF ControlInv, CaptureBegins, supervisor, save, SaveInv, Live
<1>14. QED BY <1>1, <1>2, <1>3, <1>4, <1>5, <1>6, <1>7, <1>8, <1>9, <1>10, <1>11, <1>12,
   <1>13 DEF ControlInv

LEMMA CancelBeginsKeeps ==
  ASSUME ControlInv, CancelBegins, excused' = (excused \/ Excuses)
  PROVE  ControlInv'
<1> DEFINE e == [kind |-> "control", client |-> Nobody]
<1>b. e \in Message /\ e.kind = "control" 
  BY AsksAreMessages
<1>c. events \in Seq(Message) /\ Send(e)
  BY DEF ControlInv, EventsInv, CancelBegins
<1> HIDE DEF e
<1>a. /\ e \in Message /\ e.kind = "control" 
      /\ events' \in Seq(Message)
      /\ Len(events) \in Nat /\ Len(events') = Len(events) + 1
      /\ \A i \in 1..Len(events) : events'[i] = events[i] /\ events[i] \in Message
      /\ events'[Len(events) + 1] = e
      /\ \A i \in 1..Len(events') :
           (i \in 1..Len(events) /\ events'[i] = events[i]) \/ i = Len(events) + 1
  BY <1>b, <1>c, SendMeans
<1>g. UNCHANGED generation
  BY DEF CancelBegins, supervisor
<1>k. /\ \A n \in 0..Len(events) : TakenBackAfter(n) => TakenBackAfter(n)'
      /\ TakesBack(e) => \A n \in 0..Len(events) : TakenBackAfter(n)'
      /\ \A kind : IsOnItsWay(kind) => IsOnItsWay(kind)'
      /\ \A kind : e.kind = kind /\ IsCurrent(e) => IsOnItsWay(kind)'
  BY <1>b, <1>c, <1>g, SendKeeps
<1>1. WorkerType'
  BY DEF ControlInv, CancelBegins, WorkerType
<1>2. LoopType'
  BY DEF ControlInv, CancelBegins, LoopType, supervisor
<1>3. SaveType'
  BY DEF ControlInv, CancelBegins, SaveType
<1>4. LoopInv'
  BY DEF ControlInv, CancelBegins, LoopInv, supervisor, Live
<1>5. EventsInv'
  BY <1>a DEF ControlInv, CancelBegins, supervisor, EventsInv, EventInv, IsCurrent, Numbered
<1>6. ShownInv'
  BY <1>k DEF ControlInv, CancelBegins, supervisor, ShownInv, Works, Live
<1>7. SaidInv'
  BY <1>a, <1>k DEF ControlInv, CancelBegins, LoopType, supervisor, SaidInv, Works,
     SaysReady, IsCurrent, Live
<1>8. ClosedInv'
  BY <1>k DEF ControlInv, CancelBegins, supervisor, ClosedInv
<1>9. RetryInv'
  BY <1>k DEF ControlInv, CancelBegins, supervisor, RetryInv
<1>10. AskedInv'
  BY <1>b, <1>c, SendAsksOnce DEF ControlInv, CancelBegins
<1>11. OrderedInv'
  BY DEF ControlInv, CancelBegins, OrderedInv, Wanted, Waits
<1>12. CancelInv'
  BY <1>a DEF ControlInv, CancelBegins, CancelInv
<1>13. SaveInv'
  BY DEF ControlInv, CancelBegins, supervisor, SaveInv, Live
<1>14. QED BY <1>1, <1>2, <1>3, <1>4, <1>5, <1>6, <1>7, <1>8, <1>9, <1>10, <1>11, <1>12,
   <1>13 DEF ControlInv

LEMMA LoopTakesControlKeeps ==
  ASSUME ControlInv, LoopTakesControl, excused' = (excused \/ Excuses)
  PROVE  ControlInv'
<1> DEFINE e == events[1]
<1>b. events \in Seq(Message) /\ Receive("control")
  BY DEF ControlInv, EventsInv, LoopTakesControl
<1>a. /\ loop = "receive"
      /\ events' \in Seq(Message)
      /\ Len(events) \in Nat \ {0} /\ Len(events') = Len(events) - 1
      /\ Head(events) = events[1] /\ events[1] \in Message /\ events[1].kind = "control"
      /\ \A i \in 1..Len(events') : i + 1 \in 1..Len(events) /\ events'[i] = events[i + 1]
      /\ \A i \in 1..Len(events) : i > 1 =>
           i - 1 \in 1..Len(events') /\ events'[i - 1] = events[i]
  BY <1>b, ReceiveMeans
<1>g. UNCHANGED generation
  BY DEF LoopTakesControl, supervisor
<1>k. /\ \A n \in 1..Len(events) : TakenBackAfter(n) => TakenBackAfter(n - 1)'
      /\ TakenBackAfter(0) => TakesBack(events[1]) \/ TakenBackAfter(0)'
      /\ \A k : IsOnItsWay(k) => (k = "control" /\ IsCurrent(events[1])) \/ IsOnItsWay(k)'
  BY <1>b, <1>g, ReceiveKeeps
<1>l. /\ IsCancel(events[1]) \/ UNCHANGED canceller
      /\ UNCHANGED lock
  BY <1>a DEF LoopTakesControl, IsCancel, save
<1>1. WorkerType'
  BY DEF ControlInv, LoopTakesControl, WorkerType
<1>2. LoopType'
  BY DEF ControlInv, LoopTakesControl, LoopType, supervisor
<1>3. SaveType'
  BY DEF ControlInv, LoopTakesControl, SaveType, save
<1>4. LoopInv'
  BY <1>a DEF ControlInv, LoopTakesControl, LoopInv, supervisor
<1>5. EventsInv'
  BY <1>a DEF ControlInv, LoopTakesControl, supervisor, EventsInv, EventInv, IsCurrent
<1>6. ShownInv'
  BY <1>a, <1>k DEF ControlInv, LoopTakesControl, supervisor, ShownInv, Works, TakesBack,
     Live
<1>7. SaidInv'
  BY <1>b, ReceiveSaysReady DEF ControlInv, LoopTakesControl, supervisor, Works, Live
<1>8. ClosedInv'
  BY <1>k DEF ControlInv, LoopTakesControl, supervisor, ClosedInv
<1>9. RetryInv'
  BY <1>k DEF ControlInv, LoopTakesControl, supervisor, RetryInv
<1>10. AskedInv'
  BY <1>b, ReceiveAsksOnce DEF ControlInv, LoopTakesControl, Receive, save
<1>11. OrderedInv'
  BY <1>a DEF ControlInv, LoopTakesControl, OrderedInv
<1>12. CancelInv'
  <2>1. CASE IsCancel(events[1])
    BY <1>a, <1>l DEF ControlInv, CancelInv
  <2>2. CASE ~IsCancel(events[1])
    BY <1>a, <1>l DEF ControlInv, CancelInv
  <2>3. QED BY <2>1, <2>2
<1>13. SaveInv'
  BY DEF ControlInv, LoopTakesControl, supervisor, save, SaveInv, Live
<1>14. QED BY <1>1, <1>2, <1>3, <1>4, <1>5, <1>6, <1>7, <1>8, <1>9, <1>10, <1>11, <1>12,
   <1>13 DEF ControlInv

(* The worker *)

LEMMA WorkerExitsKeeps ==
  ASSUME ControlInv, WorkerExits, excused' = (excused \/ Excuses)
  PROVE  ControlInv'
<1>m. /\ saver' \in Saver /\ saver'.at = saver.at /\ saver'.spec = saver.spec
      /\ loop = "waiting" => loop' = "receive" /\ saver'.answer = "refused"
      /\ loop # "waiting" => loop' = loop /\ saver' = saver
  BY AnswerMeans DEF ControlInv, SaveType, WorkerExits
<1>l. listener' = [listener EXCEPT !.state = "dead", !.armed = Nobody]
  BY DEF WorkerExits
<1>n. /\ listener' \in Worker /\ listener'.state = "dead"
      /\ listener'.generation = listener.generation
      /\ commands' = <<>> /\ failures' \in Nat
  <2>1. listener \in Worker
    BY DEF ControlInv, WorkerType
  <2>2. commands' = <<>> /\ failures' \in Nat
    BY DEF ControlInv, LoopType, WorkerExits, Fault
  <2>3. QED BY <1>l, <2>1, <2>2, WorkerDies
<1>o. /\ Live /\ UNCHANGED <<environment, generation, active, current, watcher, readiness>>
      /\ UNCHANGED <<lock, settings, canceller>>
  BY DEF WorkerExits, supervisor
<1> DEFINE e == [kind |-> "discovery_error", generation |-> listener.generation]
<1>b. e \in Message /\ e.kind = "discovery_error" /\ e.generation = listener.generation
  BY AsksAreMessages DEF ControlInv, WorkerType, Worker
<1>c. events \in Seq(Message) /\ Send(e)
  BY DEF ControlInv, EventsInv, WorkerExits
<1> HIDE DEF e
<1>a. /\ e \in Message /\ e.kind = "discovery_error" /\ e.generation = listener.generation
      /\ events' \in Seq(Message)
      /\ Len(events) \in Nat /\ Len(events') = Len(events) + 1
      /\ \A i \in 1..Len(events) : events'[i] = events[i] /\ events[i] \in Message
      /\ events'[Len(events) + 1] = e
      /\ \A i \in 1..Len(events') :
           (i \in 1..Len(events) /\ events'[i] = events[i]) \/ i = Len(events) + 1
  BY <1>b, <1>c, SendMeans
<1>g. UNCHANGED generation
  BY DEF WorkerExits, supervisor
<1>k. /\ \A n \in 0..Len(events) : TakenBackAfter(n) => TakenBackAfter(n)'
      /\ TakesBack(e) => \A n \in 0..Len(events) : TakenBackAfter(n)'
      /\ \A kind : IsOnItsWay(kind) => IsOnItsWay(kind)'
      /\ \A kind : e.kind = kind /\ IsCurrent(e) => IsOnItsWay(kind)'
  BY <1>b, <1>c, <1>g, SendKeeps
<1>1. WorkerType'
  BY <1>n, <1>o DEF ControlInv, WorkerType
<1>2. LoopType'
  BY <1>m, <1>n, <1>o DEF ControlInv, LoopType
<1>3. SaveType'
  BY <1>m, <1>o DEF ControlInv, SaveType
<1>4. LoopInv'
  BY <1>m, <1>n, <1>o DEF ControlInv, LoopInv, Live
<1>5. EventsInv'
  BY <1>a, <1>m, <1>o DEF ControlInv, LoopInv, EventsInv, EventInv, IsCurrent, Live
<1>6. ShownInv'
  BY <1>a, <1>k DEF ControlInv, WorkerExits, LoopInv, ShownInv, Works, TakesBack, IsCurrent
<1>7. SaidInv'
  BY <1>a, <1>k DEF ControlInv, WorkerExits, LoopInv, SaidInv, TakesBack, SaysReady,
     IsCurrent, Live
<1>8. ClosedInv'
  BY DEF WorkerExits, ClosedInv
<1>9. RetryInv'
  BY <1>k, <1>m, <1>o DEF ControlInv, LoopInv, RetryInv
<1>10. AskedInv'
  BY <1>a, <1>m, <1>o DEF ControlInv, AskedInv, Wanted, Waits
<1>11. OrderedInv'
  BY <1>m, <1>n DEF OrderedInv
<1>12. CancelInv'
  BY <1>a, <1>o DEF ControlInv, CancelInv, IsCancel
<1>13. SaveInv'
  BY <1>m, <1>n, <1>o DEF ControlInv, SaveInv, OrderedInv, Waits, Live
<1>14. QED BY <1>1, <1>2, <1>3, <1>4, <1>5, <1>6, <1>7, <1>8, <1>9, <1>10, <1>11, <1>12,
   <1>13 DEF ControlInv

LEMMA ListenerClosedKeeps ==
  ASSUME ControlInv, ListenerClosed, excused' = (excused \/ Excuses)
  PROVE  ControlInv'
<1> DEFINE e == [kind |-> "closed", generation |-> listener.generation]
<1>b. e \in Message /\ e.kind = "closed" /\ e.generation = listener.generation
  BY AsksAreMessages DEF ControlInv, WorkerType, Worker
<1>c. events \in Seq(Message) /\ Send(e)
  BY DEF ControlInv, EventsInv, ListenerClosed
<1> HIDE DEF e
<1>a. /\ e \in Message /\ e.kind = "closed" /\ e.generation = listener.generation
      /\ events' \in Seq(Message)
      /\ Len(events) \in Nat /\ Len(events') = Len(events) + 1
      /\ \A i \in 1..Len(events) : events'[i] = events[i] /\ events[i] \in Message
      /\ events'[Len(events) + 1] = e
      /\ \A i \in 1..Len(events') :
           (i \in 1..Len(events) /\ events'[i] = events[i]) \/ i = Len(events) + 1
  BY <1>b, <1>c, SendMeans
<1>g. UNCHANGED generation
  BY DEF ListenerClosed, supervisor
<1>k. /\ \A n \in 0..Len(events) : TakenBackAfter(n) => TakenBackAfter(n)'
      /\ TakesBack(e) => \A n \in 0..Len(events) : TakenBackAfter(n)'
      /\ \A kind : IsOnItsWay(kind) => IsOnItsWay(kind)'
      /\ \A kind : e.kind = kind /\ IsCurrent(e) => IsOnItsWay(kind)'
  BY <1>b, <1>c, <1>g, SendKeeps
<1>1. WorkerType'
  BY DEF ControlInv, ListenerClosed, WorkerType, Worker
<1>2. LoopType'
  BY DEF ControlInv, ListenerClosed, LoopType, supervisor
<1>3. SaveType'
  BY DEF ControlInv, ListenerClosed, SaveType, save
<1>4. LoopInv'
  BY DEF ControlInv, ListenerClosed, LoopInv, supervisor, Live
<1>5. EventsInv'
  BY <1>a DEF ControlInv, ListenerClosed, LoopInv, supervisor, EventsInv, EventInv
<1>6. ShownInv'
  BY <1>k DEF ControlInv, ListenerClosed, ShownInv, Works, Live
<1>7. SaidInv'
  BY <1>a, <1>k DEF ControlInv, ListenerClosed, LoopInv, SaidInv, TakesBack, SaysReady,
     IsCurrent
<1>8. ClosedInv'
  BY <1>a, <1>k DEF ControlInv, ListenerClosed, LoopInv, ClosedInv, IsCurrent
<1>9. RetryInv'
  BY <1>k DEF ControlInv, ListenerClosed, supervisor, RetryInv
<1>10. AskedInv'
  BY <1>b, <1>c, SendAsksOnce DEF ControlInv, ListenerClosed, save
<1>11. OrderedInv'
  BY DEF ControlInv, ListenerClosed, save, OrderedInv, Wanted, Waits
<1>12. CancelInv'
  BY <1>a DEF ControlInv, ListenerClosed, clients, save, CancelInv, IsCancel
<1>13. SaveInv'
  BY DEF ControlInv, ListenerClosed, SaveType, supervisor, save, SaveInv, Live
<1>14. QED BY <1>1, <1>2, <1>3, <1>4, <1>5, <1>6, <1>7, <1>8, <1>9, <1>10, <1>11, <1>12,
   <1>13 DEF ControlInv

LEMMA WatcherFiresKeeps ==
  ASSUME ControlInv, WatcherFires, excused' = (excused \/ Excuses)
  PROVE  ControlInv'
<1> DEFINE e == [kind |-> "environment", generation |-> watcher.generation]
<1>b. e \in Message /\ e.kind = "environment" /\ e.generation = watcher.generation
  BY AsksAreMessages DEF ControlInv, LoopType, Watcher
<1>c. events \in Seq(Message) /\ Send(e)
  BY DEF ControlInv, EventsInv, WatcherFires
<1> HIDE DEF e
<1>a. /\ e \in Message /\ e.kind = "environment" /\ e.generation = watcher.generation
      /\ events' \in Seq(Message)
      /\ Len(events) \in Nat /\ Len(events') = Len(events) + 1
      /\ \A i \in 1..Len(events) : events'[i] = events[i] /\ events[i] \in Message
      /\ events'[Len(events) + 1] = e
      /\ \A i \in 1..Len(events') :
           (i \in 1..Len(events) /\ events'[i] = events[i]) \/ i = Len(events) + 1
  BY <1>b, <1>c, SendMeans
<1>g. UNCHANGED generation
  BY DEF WatcherFires
<1>k. /\ \A n \in 0..Len(events) : TakenBackAfter(n) => TakenBackAfter(n)'
      /\ TakesBack(e) => \A n \in 0..Len(events) : TakenBackAfter(n)'
      /\ \A kind : IsOnItsWay(kind) => IsOnItsWay(kind)'
      /\ \A kind : e.kind = kind /\ IsCurrent(e) => IsOnItsWay(kind)'
  BY <1>b, <1>c, <1>g, SendKeeps
<1>1. WorkerType'
  BY DEF ControlInv, WatcherFires, WorkerType
<1>2. LoopType'
  BY DEF ControlInv, WatcherFires, LoopType, Watcher, NoWatcher, Numbers
<1>3. SaveType'
  BY DEF ControlInv, WatcherFires, SaveType, save
<1>4. LoopInv'
  BY DEF ControlInv, WatcherFires, LoopType, LoopInv, Live, Watcher, NoWatcher, Numbers
<1>5. EventsInv'
  BY <1>a DEF ControlInv, WatcherFires, LoopType, LoopInv, EventsInv, EventInv, IsCurrent
<1>6. ShownInv'
  BY <1>k DEF ControlInv, WatcherFires, ShownInv, Works, Live
<1>7. SaidInv'
  BY <1>a, <1>k DEF ControlInv, WatcherFires, SaidInv, Works, SaysReady, IsCurrent, Live
<1>8. ClosedInv'
  BY <1>k DEF ControlInv, WatcherFires, ClosedInv
<1>9. RetryInv'
  BY <1>a, <1>k DEF ControlInv, WatcherFires, RetryInv, IsCurrent
<1>10. AskedInv'
  BY <1>b, <1>c, SendAsksOnce DEF ControlInv, WatcherFires, save
<1>11. OrderedInv'
  BY DEF ControlInv, WatcherFires, save, OrderedInv, Wanted, Waits
<1>12. CancelInv'
  BY <1>a DEF ControlInv, WatcherFires, LoopType, clients, save, CancelInv, IsCancel
<1>13. SaveInv'
  BY DEF ControlInv, WatcherFires, save, SaveInv, Live
<1>14. QED BY <1>1, <1>2, <1>3, <1>4, <1>5, <1>6, <1>7, <1>8, <1>9, <1>10, <1>11, <1>12,
   <1>13 DEF ControlInv

(* The loop *)

LEMMA LoopTakesStatusKeeps ==
  ASSUME ControlInv, LoopTakesStatus, excused' = (excused \/ Excuses)
  PROVE  ControlInv'
<1> DEFINE e == events[1]
<1>b. events \in Seq(Message) /\ Receive("status")
  BY DEF ControlInv, EventsInv, LoopTakesStatus
<1>a. /\ loop = "receive"
      /\ events' \in Seq(Message)
      /\ Len(events) \in Nat \ {0} /\ Len(events') = Len(events) - 1
      /\ Head(events) = events[1] /\ events[1] \in Message /\ events[1].kind = "status"
      /\ \A i \in 1..Len(events') : i + 1 \in 1..Len(events) /\ events'[i] = events[i + 1]
      /\ \A i \in 1..Len(events) : i > 1 =>
           i - 1 \in 1..Len(events') /\ events'[i - 1] = events[i]
  BY <1>b, ReceiveMeans
<1>g. UNCHANGED generation
  BY DEF LoopTakesStatus, supervisor
<1>k. /\ \A n \in 1..Len(events) : TakenBackAfter(n) => TakenBackAfter(n - 1)'
      /\ TakenBackAfter(0) => TakesBack(events[1]) \/ TakenBackAfter(0)'
      /\ \A k : IsOnItsWay(k) => (k = "status" /\ IsCurrent(events[1])) \/ IsOnItsWay(k)'
  BY <1>b, <1>g, ReceiveKeeps
<1>1. WorkerType'
  BY DEF ControlInv, LoopTakesStatus, WorkerType
<1>2. LoopType'
  BY DEF ControlInv, LoopTakesStatus, LoopType, supervisor, Reported
<1>3. SaveType'
  BY DEF ControlInv, LoopTakesStatus, SaveType, save
<1>4. LoopInv'
  BY <1>a DEF ControlInv, LoopTakesStatus, LoopInv, supervisor
<1>5. EventsInv'
  BY <1>a DEF ControlInv, LoopTakesStatus, supervisor, EventsInv, EventInv, IsCurrent
<1>6. ShownInv'
  BY <1>a, <1>k DEF ControlInv, LoopTakesStatus, supervisor, ShownInv, SaidInv, Works,
     TakesBack, SaysReady, Live, Reported
<1>7. SaidInv'
  BY <1>b, ReceiveSaysReady DEF ControlInv, LoopTakesStatus, supervisor, Works, Live
<1>8. ClosedInv'
  BY <1>k DEF ControlInv, LoopTakesStatus, supervisor, ClosedInv
<1>9. RetryInv'
  BY <1>k DEF ControlInv, LoopTakesStatus, supervisor, RetryInv
<1>10. AskedInv'
  BY <1>b, ReceiveAsksOnce DEF ControlInv, LoopTakesStatus, Receive, save
<1>11. OrderedInv'
  BY <1>a DEF ControlInv, LoopTakesStatus, OrderedInv
<1>12. CancelInv'
  BY <1>a DEF ControlInv, LoopTakesStatus, WorkerType, SaveType, LoopInv, supervisor,
     clients, save, CancelInv
<1>13. SaveInv'
  BY DEF ControlInv, LoopTakesStatus, supervisor, save, SaveInv, Live
<1>14. QED BY <1>1, <1>2, <1>3, <1>4, <1>5, <1>6, <1>7, <1>8, <1>9, <1>10, <1>11, <1>12,
   <1>13 DEF ControlInv

LEMMA LoopTakesDiscoveryErrorKeeps ==
  ASSUME ControlInv, LoopTakesDiscoveryError, excused' = (excused \/ Excuses)
  PROVE  ControlInv'
<1> DEFINE e == events[1]
<1>b. events \in Seq(Message) /\ Receive("discovery_error")
  BY DEF ControlInv, EventsInv, LoopTakesDiscoveryError
<1>a. /\ loop = "receive"
      /\ events' \in Seq(Message)
      /\ Len(events) \in Nat \ {0} /\ Len(events') = Len(events) - 1
      /\ Head(events) = events[1] /\ events[1] \in Message /\ events[1].kind = "discovery_error"
      /\ \A i \in 1..Len(events') : i + 1 \in 1..Len(events) /\ events'[i] = events[i + 1]
      /\ \A i \in 1..Len(events) : i > 1 =>
           i - 1 \in 1..Len(events') /\ events'[i - 1] = events[i]
  BY <1>b, ReceiveMeans
<1>g. UNCHANGED generation
  BY DEF LoopTakesDiscoveryError, supervisor
<1>k. /\ \A n \in 1..Len(events) : TakenBackAfter(n) => TakenBackAfter(n - 1)'
      /\ TakenBackAfter(0) => TakesBack(events[1]) \/ TakenBackAfter(0)'
      /\ \A k : IsOnItsWay(k) => (k = "discovery_error" /\ IsCurrent(events[1])) \/ IsOnItsWay(k)'
  BY <1>b, <1>g, ReceiveKeeps
<1>1. WorkerType'
  BY DEF ControlInv, LoopTakesDiscoveryError, WorkerType
<1>2. LoopType'
  BY DEF ControlInv, LoopTakesDiscoveryError, LoopType, supervisor
<1>3. SaveType'
  BY DEF ControlInv, LoopTakesDiscoveryError, SaveType, save
<1>4. LoopInv'
  BY <1>a DEF ControlInv, LoopTakesDiscoveryError, LoopInv, supervisor
<1>5. EventsInv'
  BY <1>a DEF ControlInv, LoopTakesDiscoveryError, supervisor, EventsInv, EventInv,
     IsCurrent
<1>6. ShownInv'
  BY <1>k DEF ControlInv, LoopTakesDiscoveryError, supervisor, ShownInv, Works, TakesBack,
     Live
<1>7. SaidInv'
  BY <1>b, ReceiveSaysReady DEF ControlInv, LoopTakesDiscoveryError, supervisor, Works, Live
<1>8. ClosedInv'
  BY <1>k DEF ControlInv, LoopTakesDiscoveryError, supervisor, ClosedInv
<1>9. RetryInv'
  BY <1>k DEF ControlInv, LoopTakesDiscoveryError, supervisor, RetryInv
<1>10. AskedInv'
  BY <1>b, ReceiveAsksOnce DEF ControlInv, LoopTakesDiscoveryError, Receive, save
<1>11. OrderedInv'
  BY <1>a DEF ControlInv, LoopTakesDiscoveryError, OrderedInv
<1>12. CancelInv'
  BY <1>a DEF ControlInv, LoopTakesDiscoveryError, SaveType, LoopInv, supervisor, clients,
     save, CancelInv
<1>13. SaveInv'
  BY DEF ControlInv, LoopTakesDiscoveryError, supervisor, save, SaveInv, Live
<1>14. QED BY <1>1, <1>2, <1>3, <1>4, <1>5, <1>6, <1>7, <1>8, <1>9, <1>10, <1>11, <1>12,
   <1>13 DEF ControlInv

LEMMA LoopTakesClosedKeeps ==
  ASSUME ControlInv, LoopTakesClosed, excused' = (excused \/ Excuses)
  PROVE  ControlInv'
<1> DEFINE e == events[1]
<1>b. events \in Seq(Message) /\ Receive("closed")
  BY DEF ControlInv, EventsInv, LoopTakesClosed
<1>a. /\ loop = "receive"
      /\ events' \in Seq(Message)
      /\ Len(events) \in Nat \ {0} /\ Len(events') = Len(events) - 1
      /\ Head(events) = events[1] /\ events[1] \in Message /\ events[1].kind = "closed"
      /\ \A i \in 1..Len(events') : i + 1 \in 1..Len(events) /\ events'[i] = events[i + 1]
      /\ \A i \in 1..Len(events) : i > 1 =>
           i - 1 \in 1..Len(events') /\ events'[i - 1] = events[i]
  BY <1>b, ReceiveMeans
<1>g. UNCHANGED generation
  BY DEF LoopTakesClosed
<1>k. /\ \A n \in 1..Len(events) : TakenBackAfter(n) => TakenBackAfter(n - 1)'
      /\ TakenBackAfter(0) => TakesBack(events[1]) \/ TakenBackAfter(0)'
      /\ \A k : IsOnItsWay(k) => (k = "closed" /\ IsCurrent(events[1])) \/ IsOnItsWay(k)'
  BY <1>b, <1>g, ReceiveKeeps
<1>1. WorkerType'
  BY DEF ControlInv, LoopTakesClosed, WorkerType
<1>2. LoopType'
  BY DEF ControlInv, LoopTakesClosed, LoopType
<1>3. SaveType'
  BY DEF ControlInv, LoopTakesClosed, SaveType, save
<1>4. LoopInv'
  BY <1>a DEF ControlInv, LoopTakesClosed, LoopInv, EventsInv, EventInv, Numbered
<1>5. EventsInv'
  BY <1>a DEF ControlInv, LoopTakesClosed, EventsInv, EventInv, IsCurrent
<1>6. ShownInv'
  BY <1>k DEF ControlInv, LoopTakesClosed, ShownInv, Works, TakesBack, Live
<1>7. SaidInv'
  BY <1>a, ReceiveSaysReady DEF ControlInv, EventsInv, EventInv, Numbered, LoopTakesClosed,
     Works, Live
<1>8. ClosedInv'
  BY <1>a, <1>k DEF ControlInv, LoopTakesClosed, ClosedInv
<1>9. RetryInv'
  BY <1>k DEF ControlInv, LoopTakesClosed, RetryInv
<1>10. AskedInv'
  BY <1>b, ReceiveAsksOnce DEF ControlInv, LoopTakesClosed, Receive, save
<1>11. OrderedInv'
  BY <1>a DEF ControlInv, LoopTakesClosed, OrderedInv
<1>12. CancelInv'
  BY <1>a DEF ControlInv, LoopTakesClosed, LoopInv, clients, save, CancelInv, SaveInv
<1>13. SaveInv'
  BY DEF ControlInv, LoopTakesClosed, save, SaveInv, Live
<1>14. QED BY <1>1, <1>2, <1>3, <1>4, <1>5, <1>6, <1>7, <1>8, <1>9, <1>10, <1>11, <1>12,
   <1>13 DEF ControlInv

LEMMA LoopTakesEnvironmentKeeps ==
  ASSUME ControlInv, LoopTakesEnvironment, excused' = (excused \/ Excuses)
  PROVE  ControlInv'
<1> DEFINE e == events[1]
<1>b. events \in Seq(Message) /\ Receive("environment")
  BY DEF ControlInv, EventsInv, LoopTakesEnvironment
<1>a. /\ loop = "receive"
      /\ events' \in Seq(Message)
      /\ Len(events) \in Nat \ {0} /\ Len(events') = Len(events) - 1
      /\ Head(events) = events[1] /\ events[1] \in Message /\ events[1].kind = "environment"
      /\ \A i \in 1..Len(events') : i + 1 \in 1..Len(events) /\ events'[i] = events[i + 1]
      /\ \A i \in 1..Len(events) : i > 1 =>
           i - 1 \in 1..Len(events') /\ events'[i - 1] = events[i]
  BY <1>b, ReceiveMeans
<1> DEFINE Taken == IsCurrent(events[1]) /\ ~active
<1>c. /\ UNCHANGED <<active, listener, current, watcher, saver, settings, lock>>
      /\ generation \in Numbers
      /\ Taken => readiness' = "starting" /\ generation' = generation + 1 /\ loop' = "starting"
      /\ ~Taken => UNCHANGED <<readiness, generation, loop>>
      /\ loop' # "waiting"
  BY <1>a DEF ControlInv, LoopType, LoopTakesEnvironment, save
<1>d. ~Taken =>
        /\ TakenBackAfter(0) => TakesBack(events[1]) \/ TakenBackAfter(0)'
        /\ \A k : IsOnItsWay(k) =>
             (k = "environment" /\ IsCurrent(events[1])) \/ IsOnItsWay(k)'
  BY <1>b, <1>c, ReceiveKeeps
<1>1. WorkerType'
  BY DEF ControlInv, LoopTakesEnvironment, WorkerType
<1>2. LoopType'
  BY DEF ControlInv, LoopType, Numbers, LoopTakesEnvironment
<1>3. SaveType'
  BY DEF ControlInv, LoopTakesEnvironment, SaveType, save
<1>4. LoopInv'
  BY <1>a DEF ControlInv, LoopTakesEnvironment, WorkerType, LoopType, LoopInv, Worker,
     Watcher, Numbers
<1>5. EventsInv'
  <2> SUFFICES ASSUME NEW i \in 1..Len(events')
               PROVE  EventInv(events[i])'
    BY <1>a DEF EventsInv
  <2>1. /\ i + 1 \in 1..Len(events) /\ events'[i] = events[i + 1]
        /\ EventInv(events[i + 1]) /\ events[i + 1] \in Message
    BY <1>a, ElementOfSeq DEF ControlInv, EventsInv
  <2>2. CASE Taken
    BY <1>c, <2>1, <2>2, MessageMeans DEF EventInv, IsCurrent, Numbers
  <2>3. CASE ~Taken
    BY <1>a, <1>c, <2>1, <2>3 DEF EventInv, IsCurrent, Numbered
  <2>4. QED BY <2>2, <2>3
<1>6. ShownInv'
  BY <1>a, <1>c, <1>d DEF ControlInv, ShownInv, Works, Live, TakesBack
<1>7. SaidInv'
  <2>1. CASE Taken
    BY <1>a, <1>c, <2>1 DEF ControlInv, EventsInv, EventInv, SaidInv, SaysReady, IsCurrent,
       Numbered, Numbers
  <2>2. CASE ~Taken
    BY <1>b, <1>c, <2>2, ReceiveSaysReady DEF ControlInv, Works, Live
  <2>3. QED BY <2>1, <2>2
<1>8. ClosedInv'
  BY <1>c, <1>d DEF ControlInv, ClosedInv
<1>9. RetryInv'
  BY <1>c, <1>d DEF ControlInv, RetryInv
<1>10. AskedInv'
  BY <1>b, <1>c, ReceiveAsksOnce DEF ControlInv
<1>11. OrderedInv'
  BY <1>a DEF ControlInv, LoopTakesEnvironment, OrderedInv
<1>12. CancelInv'
  BY <1>a DEF ControlInv, LoopTakesEnvironment, LoopInv, clients, save, CancelInv
<1>13. SaveInv'
  BY DEF ControlInv, LoopTakesEnvironment, save, SaveInv, Live
<1>14. QED BY <1>1, <1>2, <1>3, <1>4, <1>5, <1>6, <1>7, <1>8, <1>9, <1>10, <1>11, <1>12,
   <1>13 DEF ControlInv

LEMMA LoopTakesReconfigureKeeps ==
  ASSUME ControlInv, LoopTakesReconfigure, excused' = (excused \/ Excuses)
  PROVE  ControlInv'
<1> DEFINE e == events[1]
<1>b. events \in Seq(Message) /\ Receive("reconfigure")
  BY DEF ControlInv, EventsInv, LoopTakesReconfigure
<1>a. /\ loop = "receive"
      /\ events' \in Seq(Message)
      /\ Len(events) \in Nat \ {0} /\ Len(events') = Len(events) - 1
      /\ Head(events) = events[1] /\ events[1] \in Message /\ events[1].kind = "reconfigure"
      /\ \A i \in 1..Len(events') : i + 1 \in 1..Len(events) /\ events'[i] = events[i + 1]
      /\ \A i \in 1..Len(events) : i > 1 =>
           i - 1 \in 1..Len(events') /\ events'[i - 1] = events[i]
  BY <1>b, ReceiveMeans
<1>g. UNCHANGED generation
  BY DEF LoopTakesReconfigure, supervisor
<1>k. /\ \A n \in 1..Len(events) : TakenBackAfter(n) => TakenBackAfter(n - 1)'
      /\ TakenBackAfter(0) => TakesBack(events[1]) \/ TakenBackAfter(0)'
      /\ \A k : IsOnItsWay(k) => (k = "reconfigure" /\ IsCurrent(events[1])) \/ IsOnItsWay(k)'
  BY <1>b, <1>g, ReceiveKeeps
<1> DEFINE Asks == active /\ Live
<1>c. /\ commands \in Seq(Commands) /\ saver \in Saver
      /\ Waits /\ events[1].spec = Wanted
      /\ events[1] \in Commands
  BY <1>a DEF ControlInv, WorkerType, SaveType, AskedInv, Message, Commands
<1>d. /\ commands' \in Seq(Commands) /\ saver' \in Saver
      /\ saver'.at = saver.at /\ saver'.spec = saver.spec
      /\ Asks => /\ loop' = "waiting" /\ saver' = saver
                 /\ Len(commands) \in Nat /\ Len(commands') = Len(commands) + 1
                 /\ \A i \in 1..Len(commands) : commands'[i] = commands[i]
                 /\ commands'[Len(commands) + 1] = events[1]
      /\ ~Asks => /\ loop' = "receive" /\ saver'.answer = "refused"
                  /\ commands' = commands
  <2>1. CASE Asks
    BY <1>c, <2>1 DEF LoopTakesReconfigure
  <2>2. CASE ~Asks
    BY <1>a, <1>c, <2>2, AnswerMeans DEF LoopTakesReconfigure
  <2>3. QED BY <2>1, <2>2
<1>e. UNCHANGED <<environment, listener, generation, active, current, watcher, readiness,
                  lock, settings, canceller, failures>>
  BY DEF LoopTakesReconfigure, supervisor, clients
<1>f. \A i \in 1..Len(events') : events'[i].kind # "reconfigure"
  BY <1>a DEF ControlInv, AskedInv
<1>h. \A i \in 1..Len(commands) : commands[i].kind # "reconfigure"
  BY <1>a DEF ControlInv, OrderedInv
<1>1. WorkerType'
  BY <1>d, <1>e DEF ControlInv, WorkerType
<1>2. LoopType'
  BY <1>d, <1>e DEF ControlInv, LoopType
<1>3. SaveType'
  BY <1>d, <1>e DEF ControlInv, SaveType
<1>4. LoopInv'
  BY <1>d, <1>e DEF ControlInv, LoopInv, Live
<1>5. EventsInv'
  <2>1. loop' # "starting"
    BY <1>d
  <2>2. QED BY <1>a, <1>e, <2>1 DEF ControlInv, EventsInv, EventInv, IsCurrent
<1>6. ShownInv'
  BY <1>a, <1>k, <1>e DEF ControlInv, ShownInv, Works, Live, TakesBack
<1>7. SaidInv'
  BY <1>b, <1>e, ReceiveSaysReady DEF ControlInv, Works, Live
<1>8. ClosedInv'
  BY <1>k, <1>e DEF ControlInv, ClosedInv
<1>9. RetryInv'
  BY <1>a, <1>k, <1>e DEF ControlInv, RetryInv
<1>10. AskedInv'
  BY <1>f DEF AskedInv
<1>w. Asks => Waits' /\ Wanted' = events[1].spec
  BY <1>c, <1>d, <1>e DEF Wanted, Waits
<1>11. OrderedInv'
  <2>1. CASE Asks
    <3>1. \A i \in 1..Len(commands') : commands'[i].kind = "reconfigure" =>
            i = Len(commands) + 1 /\ commands'[i] = events[1]
      <4> SUFFICES ASSUME NEW i \in 1..Len(commands'), commands'[i].kind = "reconfigure"
                   PROVE  i = Len(commands) + 1
        BY <1>d
      <4>2. QED BY <1>d, <1>h
    <3>2. QED BY <1>d, <1>w, <3>1 DEF OrderedInv
  <2>2. CASE ~Asks
    BY <1>d, <1>h, <2>2 DEF OrderedInv
  <2>3. QED BY <2>1, <2>2
<1>12. CancelInv'
  BY <1>a, <1>e DEF ControlInv, CancelInv
<1>13. SaveInv'
  BY <1>c, <1>d, <1>e DEF ControlInv, SaveInv, Waits, Live
<1>14. QED BY <1>1, <1>2, <1>3, <1>4, <1>5, <1>6, <1>7, <1>8, <1>9, <1>10, <1>11, <1>12,
   <1>13 DEF ControlInv

LEMMA ScheduleRetryKeeps ==
  ASSUME ControlInv, ScheduleRetry, excused' = (excused \/ Excuses)
  PROVE  ControlInv'
<1>a. \/ /\ watcher' \in Watcher /\ watcher'.waiting /\ watcher'.generation = generation
         /\ failures' = failures
      \/ failures' = failures + 1 /\ watcher' = watcher
  <2>1. generation \in Numbers /\ environment \in Nat
    BY DEF ControlInv, WorkerType, LoopType
  <2>2. \/ /\ watcher' = [waiting |-> TRUE, generation |-> generation, since |-> environment]
           /\ failures' = failures
        \/ failures' = failures + 1 /\ watcher' = watcher
    BY DEF ScheduleRetry, Fault
  <2>3. QED BY <2>1, <2>2, WatcherStarts
<1>b. failures' # failures => excused'
  BY DEF ScheduleRetry, Excuses
<1>1. WorkerType'
  BY DEF ControlInv, ScheduleRetry, WorkerType
<1>2. LoopType'
  BY <1>a DEF ControlInv, LoopType, ScheduleRetry
<1>3. SaveType'
  BY DEF ControlInv, ScheduleRetry, SaveType, save
<1>4. LoopInv'
  BY <1>a DEF ControlInv, ScheduleRetry, LoopInv, Watcher, Numbers
<1>5. EventsInv'
  BY DEF ControlInv, ScheduleRetry, EventsInv, EventInv, IsCurrent
<1>6. ShownInv'
  BY DEF ControlInv, ScheduleRetry, ShownInv, Works, TakenBackAfter, TakesBack, IsCurrent,
     Live
<1>7. SaidInv'
  BY DEF ControlInv, ScheduleRetry, SaidInv, Works, TakenBackAfter, TakesBack, SaysReady,
     IsCurrent, Live
<1>8. ClosedInv'
  BY DEF ControlInv, ScheduleRetry, ClosedInv, IsOnItsWay
<1>9. RetryInv'
  BY <1>a, <1>b DEF ControlInv, LoopType, RetryInv, ScheduleRetry
<1>10. AskedInv'
  BY DEF ControlInv, ScheduleRetry, save, AskedInv, Wanted, Waits
<1>11. OrderedInv'
  BY DEF ControlInv, ScheduleRetry, OrderedInv
<1>12. CancelInv'
  BY DEF ControlInv, ScheduleRetry, clients, save, CancelInv
<1>13. SaveInv'
  BY DEF ControlInv, ScheduleRetry, save, SaveInv, Live
<1>14. QED BY <1>1, <1>2, <1>3, <1>4, <1>5, <1>6, <1>7, <1>8, <1>9, <1>10, <1>11, <1>12,
   <1>13 DEF ControlInv

LEMMA LoopStartsListenerKeeps ==
  ASSUME ControlInv, LoopStartsListener, excused' = (excused \/ Excuses)
  PROVE  ControlInv'
<1>a. \/ /\ listener' \in Worker /\ listener'.state = "live"
         /\ listener'.generation = generation /\ listener'.spec = current
         /\ readiness' = Reported(listener'.keyboards)
         /\ active' = TRUE /\ loop' = "receive" /\ failures' = failures
      \/ /\ readiness' = "unavailable" /\ loop' = "failed" /\ failures' = failures + 1
         /\ UNCHANGED <<listener, active>>
  BY WorkerStarts DEF ControlInv, WorkerType, LoopType, LoopStartsListener, Fault
<1>c. /\ loop = "starting"
      /\ UNCHANGED <<environment, commands, events, generation, current, watcher, lock,
                     saver, settings, canceller>>
  BY DEF LoopStartsListener, save, clients
<1>1. WorkerType'
  BY <1>a, <1>c DEF ControlInv, WorkerType
<1>2. LoopType'
  <2>1. active' \in BOOLEAN
    BY <1>a DEF ControlInv, LoopType
  <2>2. QED BY <1>a, <1>c, <2>1 DEF ControlInv, LoopType, Reported
<1>3. SaveType'
  BY <1>c DEF ControlInv, SaveType
<1>4. LoopInv'
  BY <1>a, <1>c DEF ControlInv, LoopInv, Numbers, Worker
<1>5. EventsInv'
  BY <1>c, MessageMeans DEF ControlInv, EventsInv, EventInv, IsCurrent, Numbers
<1>6. ShownInv'
  BY <1>a DEF ShownInv, Works, Live, Reported
<1>7. SaidInv'
  BY <1>c, MessageMeans DEF ControlInv, EventsInv, EventInv, Numbered, SaidInv, SaysReady,
     IsCurrent, Numbers
<1>8. ClosedInv'
  BY <1>a, <1>c DEF ControlInv, LoopInv, ClosedInv
<1>9. RetryInv'
  BY <1>a DEF RetryInv
<1>10. AskedInv'
  BY <1>a, <1>c DEF ControlInv, AskedInv, Wanted, Waits
<1>11. OrderedInv'
  BY <1>a, <1>c DEF ControlInv, OrderedInv
<1>12. CancelInv'
  BY <1>c DEF ControlInv, CancelInv
<1>13. SaveInv'
  BY <1>a, <1>c DEF ControlInv, SaveInv, Live
<1>14. QED BY <1>1, <1>2, <1>3, <1>4, <1>5, <1>6, <1>7, <1>8, <1>9, <1>10, <1>11, <1>12,
   <1>13 DEF ControlInv

(* A status or an error of the current worker on its way. *)
LEMMA ReportKeeps ==
  ASSUME ControlInv, NEW e \in Message, Send(e), e.kind \in {"status", "discovery_error"},
         e.generation = generation, Live, active, listener'.state = "live",
         listener'.generation = generation, UNCHANGED <<generation, active>>,
         e.kind = "status" => e.ready = listener'.keyboards,
         listener'.keyboards # listener.keyboards => e.kind = "status",
         listener'.keyboards \in BOOLEAN, listener.keyboards \in BOOLEAN,
         loop' \in {loop, "receive"}, readiness' = readiness
  PROVE  EventsInv' /\ ShownInv' /\ SaidInv' /\ ClosedInv'
<1>a. /\ events \in Seq(Message) /\ events' \in Seq(Message)
      /\ Len(events) \in Nat /\ Len(events') = Len(events) + 1
      /\ \A i \in 1..Len(events) : events'[i] = events[i] /\ events[i] \in Message
      /\ events'[Len(events) + 1] = e
      /\ \A i \in 1..Len(events') :
           (i \in 1..Len(events) /\ events'[i] = events[i]) \/ i = Len(events) + 1
  BY SendMeans DEF ControlInv, EventsInv
<1>k. /\ \A n \in 0..Len(events) : TakenBackAfter(n) => TakenBackAfter(n)'
      /\ TakesBack(e) => \A n \in 0..Len(events) : TakenBackAfter(n)'
  BY SendKeeps DEF ControlInv, EventsInv
<1>l. /\ generation \in Numbers /\ loop # "starting" /\ loop' # "starting"
      /\ Live
  BY DEF ControlInv, LoopType, LoopInv
<1>b. \/ Works' /\ Works
      \/ Works' /\ e.kind = "status" /\ e.ready
      \/ ~Works' /\ TakesBack(e)
      \/ ~Works' /\ ~Works /\ ~SaysReady(e)
  BY DEF Works, Live, TakesBack, IsCurrent
<1>1. EventsInv'
  <2> SUFFICES ASSUME NEW i \in 1..Len(events')
               PROVE  EventInv(events[i])'
    BY <1>a DEF EventsInv
  <2>1. CASE i \in 1..Len(events)
    BY <1>a, <2>1 DEF ControlInv, EventsInv, EventInv, IsCurrent, Live
  <2>2. CASE i = Len(events) + 1
    BY <1>a, <1>l, <2>2 DEF EventInv, Numbers
  <2>3. QED BY <1>a, <2>1, <2>2
<1>2. ShownInv'
  BY <1>b, <1>k DEF ControlInv, ShownInv
<1>3. SaidInv'
  <2> SUFFICES ASSUME NEW n \in 1..Len(events'), SaysReady(events[n])'
               PROVE  Works' \/ TakenBackAfter(n)'
    BY DEF SaidInv
  <2>1. CASE n \in 1..Len(events)
    <3>1. Works \/ TakenBackAfter(n)
      BY <1>a, <2>1 DEF ControlInv, SaidInv, SaysReady, IsCurrent
    <3>2. QED BY <1>b, <1>k, <2>1, <3>1
  <2>2. CASE n = Len(events) + 1
    BY <1>a, <1>b, <2>2 DEF SaysReady, TakesBack, IsCurrent
  <2>3. QED BY <1>a, <2>1, <2>2
<1>4. ClosedInv'
  BY DEF ClosedInv
<1>5. QED BY <1>1, <1>2, <1>3, <1>4

(* The worker's reports *)

LEMMA WorkerSees ==
  ASSUME NEW w \in Worker, NEW seen \in Nat
  PROVE  LET new == [w EXCEPT !.seen = seen] IN
         /\ new \in Worker /\ new.state = w.state /\ new.generation = w.generation
         /\ new.spec = w.spec /\ new.keyboards = w.keyboards
  BY DEF Worker

LEMMA WorkerDiscoversKeeps ==
  ASSUME ControlInv, WorkerDiscovers, excused' = (excused \/ Excuses)
  PROVE  ControlInv'
<1>a. /\ listener \in Worker /\ listener' \in Worker /\ Live /\ active
      /\ listener'.generation = listener.generation /\ listener'.state = "live"
      /\ listener'.spec = listener.spec
      /\ listener.generation = generation
  <2>1. listener \in Worker /\ Live /\ environment \in Nat
    BY DEF ControlInv, WorkerType, WorkerDiscovers
  <2>2. \/ \E keyboards \in BOOLEAN :
            listener' = [listener EXCEPT !.seen = environment, !.keyboards = keyboards]
        \/ listener' = [listener EXCEPT !.seen = environment]
    BY DEF WorkerDiscovers
  <2>3. ASSUME NEW keyboards \in BOOLEAN,
               listener' = [listener EXCEPT !.seen = environment, !.keyboards = keyboards]
        PROVE  /\ listener' \in Worker /\ listener'.generation = listener.generation
               /\ listener'.state = listener.state /\ listener'.spec = listener.spec
    BY <2>1, <2>3 DEF Worker
  <2>4. ASSUME listener' = [listener EXCEPT !.seen = environment]
        PROVE  /\ listener' \in Worker /\ listener'.generation = listener.generation
               /\ listener'.state = listener.state /\ listener'.spec = listener.spec
    BY <2>1, <2>4, WorkerSees
  <2>5. active /\ listener.generation = generation
    BY <2>1 DEF ControlInv, LoopInv, Live
  <2>6. QED BY <2>1, <2>2, <2>3, <2>4, <2>5 DEF Live
<1>c. UNCHANGED <<environment, commands, loop, generation, active, current, watcher,
                  readiness, lock, saver, settings, canceller>>
  BY DEF WorkerDiscovers, supervisor, save, clients
<1>d. failures' \in Nat /\ loop # "failed" /\ loop # "starting"
  <2>1. failures' = failures \/ failures' = failures + 1
    BY DEF WorkerDiscovers, Fault
  <2>2. QED BY <1>a, <2>1 DEF ControlInv, LoopType, LoopInv
<1>e. EventsInv' /\ ShownInv' /\ SaidInv' /\ ClosedInv'
  <2>1. ASSUME events' = events, listener'.keyboards = listener.keyboards
        PROVE  EventsInv' /\ ShownInv' /\ SaidInv' /\ ClosedInv'
    BY <1>a, <1>c, <2>1 DEF ControlInv, EventsInv, EventInv, IsCurrent, ShownInv, SaidInv,
       ClosedInv, Works, Live, TakenBackAfter, TakesBack, SaysReady
  <2>2. ASSUME NEW keyboards \in BOOLEAN, Send(Status(keyboards)),
               listener'.keyboards = keyboards
        PROVE  EventsInv' /\ ShownInv' /\ SaidInv' /\ ClosedInv'
    <3>1. listener.keyboards \in BOOLEAN
      BY <1>a DEF Worker
    <3>2. QED BY <1>a, <1>c, <2>2, <3>1, StatusIsAMessage, ReportKeeps
  <2>3. ASSUME Send([kind |-> "discovery_error", generation |-> listener.generation]),
               listener'.keyboards = listener.keyboards
        PROVE  EventsInv' /\ ShownInv' /\ SaidInv' /\ ClosedInv'
    <3> DEFINE e == [kind |-> "discovery_error", generation |-> listener.generation]
    <3>1. e \in Message /\ e.kind = "discovery_error" /\ e.generation = generation
      BY <1>a, AsksAreMessages DEF Worker
    <3>2. Send(e)
      BY <2>3
    <3>3. listener.keyboards \in BOOLEAN
      BY <1>a DEF Worker
    <3> HIDE DEF e
    <3>4. QED BY <1>a, <1>c, <2>3, <3>1, <3>2, <3>3, ReportKeeps
  <2>5. \/ events' = events /\ listener'.keyboards = listener.keyboards
        \/ \E keyboards \in BOOLEAN :
             Send(Status(keyboards)) /\ listener'.keyboards = keyboards
        \/ /\ Send([kind |-> "discovery_error", generation |-> listener.generation])
           /\ listener'.keyboards = listener.keyboards
    <3>1. \/ \E keyboards \in BOOLEAN :
               /\ listener' = [listener EXCEPT !.seen = environment, !.keyboards = keyboards]
               /\ \/ events' = events /\ keyboards = listener.keyboards
                  \/ Send(Status(keyboards))
          \/ /\ listener' = [listener EXCEPT !.seen = environment]
             /\ Send([kind |-> "discovery_error", generation |-> listener.generation])
      BY DEF WorkerDiscovers
    <3>2. ASSUME NEW keyboards \in BOOLEAN,
                 listener' = [listener EXCEPT !.seen = environment, !.keyboards = keyboards]
          PROVE  listener'.keyboards = keyboards
      BY <3>2
    <3>4. QED BY <3>1, <3>2
  <2>6. QED BY <2>1, <2>2, <2>3, <2>5
<1>f. \A i \in 1..Len(events') : events'[i].kind \in {"reconfigure", "control"} =>
        i \in 1..Len(events) /\ events'[i] = events[i]
  <2>1. CASE events' = events
    BY <2>1
  <2>2. ASSUME NEW e \in Message, Send(e), e.kind \notin {"reconfigure", "control"}
        PROVE  \A i \in 1..Len(events') : events'[i].kind \in {"reconfigure", "control"} =>
                 i \in 1..Len(events) /\ events'[i] = events[i]
    BY <2>2, SendMeans DEF ControlInv, EventsInv
  <2>3. \/ events' = events
        \/ \E keyboards \in BOOLEAN : Send(Status(keyboards))
        \/ Send([kind |-> "discovery_error", generation |-> listener.generation])
    BY DEF WorkerDiscovers
  <2>4. CASE \E keyboards \in BOOLEAN : Send(Status(keyboards))
    BY <1>a, <2>2, <2>4, StatusIsAMessage
  <2>5. CASE Send([kind |-> "discovery_error", generation |-> listener.generation])
    <3> DEFINE e == [kind |-> "discovery_error", generation |-> listener.generation]
    <3>1. e \in Message /\ e.kind = "discovery_error" /\ Send(e)
      BY <1>a, <2>5, AsksAreMessages DEF Worker
    <3> HIDE DEF e
    <3>2. QED BY <2>2, <3>1
  <2>6. QED BY <2>3, <2>4, <2>5
<1>1. WorkerType'
  BY <1>a, <1>c DEF ControlInv, WorkerType
<1>2. LoopType'
  BY <1>c, <1>d DEF ControlInv, LoopType
<1>3. SaveType'
  BY <1>c DEF ControlInv, SaveType
<1>4. LoopInv'
  BY <1>a, <1>c DEF ControlInv, LoopInv, Live
<1>5. EventsInv'
  BY <1>e
<1>6. ShownInv'
  BY <1>e
<1>7. SaidInv'
  BY <1>e
<1>8. ClosedInv'
  BY <1>e
<1>9. RetryInv'
  BY <1>a, <1>c DEF RetryInv
<1>10. AskedInv'
  BY <1>c, <1>f DEF ControlInv, AskedInv, Wanted, Waits
<1>11. OrderedInv'
  BY <1>c DEF ControlInv, OrderedInv, Wanted, Waits
<1>12. CancelInv'
  BY <1>c, <1>f DEF ControlInv, CancelInv, IsCancel
<1>13. SaveInv'
  BY <1>a, <1>c DEF ControlInv, SaveInv
<1>14. QED BY <1>1, <1>2, <1>3, <1>4, <1>5, <1>6, <1>7, <1>8, <1>9, <1>10, <1>11, <1>12,
   <1>13 DEF ControlInv

LEMMA WorkerReconfiguresKeeps ==
  ASSUME ControlInv, WorkerReconfigures, excused' = (excused \/ Excuses)
  PROVE  ControlInv'
<1> DEFINE spec == commands[1].spec
<1>l. /\ Live /\ listener \in Worker /\ active /\ listener.generation = generation
      /\ commands' \in Seq(Commands) /\ spec \in Specs /\ saver \in Saver
      /\ Waits /\ spec = Wanted /\ loop = "waiting"
      /\ \A i \in 1..Len(commands') : commands'[i].kind # "reconfigure"
      /\ \A i \in 1..Len(events) : events[i].kind # "reconfigure"
      /\ Head(commands) = commands[1]
  <2>1. commands \in Seq(Commands) /\ NextCommand("reconfigure")
    BY DEF ControlInv, WorkerType, WorkerReconfigures
  <2>2. /\ Live
        /\ commands' \in Seq(Commands)
        /\ Len(commands) \in Nat \ {0}
        /\ Head(commands) = commands[1] /\ commands[1] \in Commands
        /\ commands[1].kind = "reconfigure"
        /\ \A i \in 1..Len(commands') :
             i + 1 \in 1..Len(commands) /\ commands'[i] = commands[i + 1]
    BY <2>1, NextCommandMeans
  <2>4. Waits /\ spec = Wanted /\ loop = "waiting"
    BY <2>2 DEF ControlInv, OrderedInv
  <2>5. \A i \in 1..Len(commands') : commands'[i].kind # "reconfigure"
    BY <2>2 DEF ControlInv, OrderedInv
  <2>6. \A i \in 1..Len(events) : events[i].kind # "reconfigure"
    BY <2>4 DEF ControlInv, AskedInv
  <2>7. listener \in Worker /\ saver \in Saver /\ active /\ listener.generation = generation
    BY <2>2 DEF ControlInv, WorkerType, SaveType, LoopInv, Live
  <2>8. spec \in Specs
    BY <2>2, CommandMeans
  <2>9. QED BY <2>2, <2>4, <2>5, <2>6, <2>7, <2>8
<1> DEFINE Accepts ==
             /\ listener' = [listener EXCEPT !.spec = spec, !.keyboards = TRUE]
             /\ Send(Status(TRUE)) /\ current' = spec /\ Answer(TRUE)
             /\ UNCHANGED failures
           Rejects ==
             /\ Fault("reject") /\ Send(Status(listener.keyboards)) /\ Answer(FALSE)
             /\ UNCHANGED <<listener, current>>
<1>m. Accepts \/ Rejects
  BY <1>l DEF WorkerReconfigures
<1>a. /\ listener' \in Worker /\ listener'.state = "live" /\ active
      /\ listener'.generation = generation /\ listener'.spec = current'
      /\ saver' \in Saver /\ saver'.at = saver.at /\ saver'.spec = saver.spec
      /\ \/ current' = spec /\ saver'.answer = "ok"
         \/ current' = current /\ saver'.answer = "refused"
      /\ current' \in Specs /\ failures' \in Nat
  <2>1. CASE Accepts
    <3>1. /\ listener' \in Worker /\ listener'.state = "live"
          /\ listener'.generation = listener.generation /\ listener'.spec = spec
      BY <1>l, <2>1, WorkerListensFor DEF Live
    <3>2. /\ saver' \in Saver /\ saver'.at = saver.at /\ saver'.spec = saver.spec
          /\ saver'.answer = "ok"
      BY <1>l, <2>1, AnswerMeans
    <3>3. current' = spec /\ failures' \in Nat
      BY <2>1 DEF ControlInv, LoopType
    <3>4. QED BY <1>l, <3>1, <3>2, <3>3
  <2>2. CASE Rejects
    <3>1. /\ saver' \in Saver /\ saver'.at = saver.at /\ saver'.spec = saver.spec
          /\ saver'.answer = "refused"
      BY <1>l, <2>2, AnswerMeans
    <3>2. /\ listener' = listener /\ current' = current /\ failures' \in Nat
          /\ listener.spec = current /\ current \in Specs
      BY <1>l, <2>2 DEF ControlInv, LoopType, SaveInv, Fault
    <3>3. QED BY <1>l, <3>1, <3>2 DEF Live
  <2>3. QED BY <1>m, <2>1, <2>2
<1>c. /\ loop' = "receive"
      /\ UNCHANGED <<environment, generation, active, watcher, readiness, lock, settings,
                     canceller>>
  BY DEF WorkerReconfigures, clients
<1>h. /\ listener.keyboards \in BOOLEAN /\ listener'.keyboards \in BOOLEAN
      /\ \E keyboards \in BOOLEAN :
           Send(Status(keyboards)) /\ listener'.keyboards = keyboards
  <2>1. CASE Accepts
    <3>2. QED BY <1>l, <2>1 DEF Worker
  <2>2. CASE Rejects
    BY <1>l, <2>2 DEF Worker
  <2>3. QED BY <1>m, <2>1, <2>2
<1> HIDE DEF Accepts, Rejects
<1>i. PICK keyboards \in BOOLEAN : Send(Status(keyboards)) /\ listener'.keyboards = keyboards
  BY <1>h
<1>j. /\ Status(keyboards) \in Message /\ Status(keyboards).kind = "status"
      /\ Status(keyboards).generation = generation /\ Status(keyboards).ready = keyboards
  BY <1>l, StatusIsAMessage
<1>e. EventsInv' /\ ShownInv' /\ SaidInv' /\ ClosedInv'
  BY <1>a, <1>c, <1>h, <1>i, <1>j, <1>l, ReportKeeps
<1>f. \A i \in 1..Len(events') : events'[i].kind \in {"reconfigure", "control"} =>
        i \in 1..Len(events) /\ events'[i] = events[i]
  BY <1>i, <1>j, SendMeans DEF ControlInv, EventsInv
<1>1. WorkerType'
  BY <1>a, <1>c, <1>l DEF ControlInv, WorkerType
<1>2. LoopType'
  BY <1>a, <1>c DEF ControlInv, LoopType
<1>3. SaveType'
  BY <1>a, <1>c DEF ControlInv, SaveType
<1>4. LoopInv'
  BY <1>a, <1>c DEF ControlInv, LoopInv
<1>5. EventsInv'
  BY <1>e
<1>6. ShownInv'
  BY <1>e
<1>7. SaidInv'
  BY <1>e
<1>8. ClosedInv'
  BY <1>e
<1>9. RetryInv'
  BY <1>a, <1>c DEF RetryInv
<1>10. AskedInv'
  BY <1>f, <1>l DEF AskedInv
<1>11. OrderedInv'
  BY <1>c, <1>l DEF OrderedInv
<1>12. CancelInv'
  BY <1>c, <1>f DEF ControlInv, CancelInv, IsCancel
<1>13. SaveInv'
  BY <1>a, <1>c, <1>l DEF ControlInv, SaveInv, Waits, Wanted
<1>14. QED BY <1>1, <1>2, <1>3, <1>4, <1>5, <1>6, <1>7, <1>8, <1>9, <1>10, <1>11, <1>12,
   <1>13 DEF ControlInv

(* The save *)

LEMMA SaveBeginsKeeps ==
  ASSUME ControlInv, SaveBegins, excused' = (excused \/ Excuses)
  PROVE  ControlInv'
<1>p. PICK spec \in Specs \ {settings} :
        /\ saver' = [at |-> "new", answer |-> "none", spec |-> spec]
        /\ Send([kind |-> "reconfigure", spec |-> spec])
  BY DEF SaveBegins
<1> DEFINE e == [kind |-> "reconfigure", spec |-> spec]
<1>b. e \in Message /\ e.kind = "reconfigure" /\ e.spec = spec
  BY AsksAreMessages
<1>c. events \in Seq(Message) /\ Send(e)
  BY <1>p DEF ControlInv, EventsInv
<1> HIDE DEF e
<1>a. /\ e \in Message /\ e.kind = "reconfigure" /\ e.spec = spec
      /\ events' \in Seq(Message)
      /\ Len(events) \in Nat /\ Len(events') = Len(events) + 1
      /\ \A i \in 1..Len(events) : events'[i] = events[i] /\ events[i] \in Message
      /\ events'[Len(events) + 1] = e
      /\ \A i \in 1..Len(events') :
           (i \in 1..Len(events) /\ events'[i] = events[i]) \/ i = Len(events) + 1
  BY <1>b, <1>c, SendMeans
<1>g. UNCHANGED generation
  BY DEF SaveBegins, supervisor
<1>k. /\ \A n \in 0..Len(events) : TakenBackAfter(n) => TakenBackAfter(n)'
      /\ TakesBack(e) => \A n \in 0..Len(events) : TakenBackAfter(n)'
      /\ \A kind : IsOnItsWay(kind) => IsOnItsWay(kind)'
      /\ \A kind : e.kind = kind /\ IsCurrent(e) => IsOnItsWay(kind)'
  BY <1>b, <1>c, <1>g, SendKeeps
<1>m. /\ saver' \in Saver /\ saver'.at = "new" /\ saver'.answer = "none" /\ saver'.spec = spec
  BY <1>p DEF Saver
<1>n. /\ lock = "free" /\ saver.at = "idle" /\ ~Waits /\ loop # "waiting" /\ lock' = "save"
      /\ UNCHANGED <<environment, listener, commands, loop, generation, active, current,
                     watcher, readiness, settings, canceller, failures>>
  BY DEF ControlInv, SaveInv, OrderedInv, Waits, SaveBegins, supervisor, clients
<1>o. /\ \A i \in 1..Len(events) : events[i].kind # "reconfigure"
      /\ \A i \in 1..Len(commands) : commands[i].kind # "reconfigure"
  BY <1>n DEF ControlInv, AskedInv, OrderedInv
<1>1. WorkerType'
  BY <1>n DEF ControlInv, WorkerType
<1>2. LoopType'
  BY <1>n DEF ControlInv, LoopType
<1>3. SaveType'
  BY <1>m, <1>n DEF ControlInv, SaveType
<1>4. LoopInv'
  BY <1>n DEF ControlInv, LoopInv
<1>5. EventsInv'
  BY <1>a, <1>n DEF ControlInv, EventsInv, EventInv, Numbered, IsCurrent
<1>6. ShownInv'
  BY <1>k, <1>n DEF ControlInv, ShownInv, Works, Live
<1>7. SaidInv'
  BY <1>a, <1>k, <1>n DEF ControlInv, SaidInv, Works, Live, SaysReady, IsCurrent
<1>8. ClosedInv'
  BY <1>k, <1>n DEF ControlInv, ClosedInv
<1>9. RetryInv'
  BY <1>k, <1>n DEF ControlInv, RetryInv
<1>10. AskedInv'
  BY <1>a, <1>m, <1>n, <1>o DEF AskedInv, Waits, Wanted
<1>11. OrderedInv'
  BY <1>n, <1>o DEF OrderedInv
<1>12. CancelInv'
  BY <1>a, <1>n DEF ControlInv, CancelInv, IsCancel
<1>13. SaveInv'
  BY <1>m, <1>n DEF ControlInv, SaveInv, Live
<1>14. QED BY <1>1, <1>2, <1>3, <1>4, <1>5, <1>6, <1>7, <1>8, <1>9, <1>10, <1>11, <1>12,
   <1>13 DEF ControlInv

(* A failed save asks for the old shortcut again. *)
LEMMA SaverRollsBack ==
  ASSUME NEW s \in Saver
  PROVE  LET back == [s EXCEPT !.at = "rollback", !.answer = "none"] IN
         back \in Saver /\ back.at = "rollback" /\ back.answer = "none" /\ back.spec = s.spec
  BY DEF Saver

LEMMA RollsBackKeeps ==
  ASSUME ControlInv, Replied("new", "ok"), Fault("save"),
         saver' = [saver EXCEPT !.at = "rollback", !.answer = "none"],
         Send([kind |-> "reconfigure", spec |-> settings]),
         UNCHANGED <<environment, listener, commands, loop, supervisor, readiness, lock,
                     settings, clients>>, excused' = (excused \/ Excuses)
  PROVE  ControlInv'
<1> DEFINE e == [kind |-> "reconfigure", spec |-> settings]
<1>b. e \in Message /\ e.kind = "reconfigure" /\ e.spec = settings
  BY AsksAreMessages DEF ControlInv, SaveType
<1>c. events \in Seq(Message) /\ Send(e)
  BY DEF ControlInv, EventsInv
<1> HIDE DEF e
<1>a. /\ e \in Message /\ e.kind = "reconfigure" /\ e.spec = settings
      /\ events' \in Seq(Message)
      /\ Len(events) \in Nat /\ Len(events') = Len(events) + 1
      /\ \A i \in 1..Len(events) : events'[i] = events[i] /\ events[i] \in Message
      /\ events'[Len(events) + 1] = e
      /\ \A i \in 1..Len(events') :
           (i \in 1..Len(events) /\ events'[i] = events[i]) \/ i = Len(events) + 1
  BY <1>b, <1>c, SendMeans
<1>g. UNCHANGED generation
  BY DEF supervisor
<1>k. /\ \A n \in 0..Len(events) : TakenBackAfter(n) => TakenBackAfter(n)'
      /\ TakesBack(e) => \A n \in 0..Len(events) : TakenBackAfter(n)'
      /\ \A kind : IsOnItsWay(kind) => IsOnItsWay(kind)'
      /\ \A kind : e.kind = kind /\ IsCurrent(e) => IsOnItsWay(kind)'
  BY <1>b, <1>c, <1>g, SendKeeps
<1>m. /\ saver' \in Saver /\ saver'.at = "rollback" /\ saver'.answer = "none"
  BY SaverRollsBack DEF ControlInv, SaveType
<1>n. /\ saver.at = "new" /\ saver.answer = "ok" /\ ~Waits /\ loop # "waiting"
      /\ failures' \in Nat
      /\ UNCHANGED <<environment, listener, commands, loop, generation, active, current,
                     watcher, readiness, lock, settings, canceller>>
  BY DEF ControlInv, OrderedInv, LoopType, Waits, Replied, Fault, supervisor, clients
<1>o. /\ \A i \in 1..Len(events) : events[i].kind # "reconfigure"
      /\ \A i \in 1..Len(commands) : commands[i].kind # "reconfigure"
  BY <1>n DEF ControlInv, AskedInv, OrderedInv
<1>1. WorkerType'
  BY DEF ControlInv, WorkerType
<1>2. LoopType'
  BY <1>n DEF ControlInv, LoopType
<1>3. SaveType'
  BY <1>m DEF ControlInv, SaveType
<1>4. LoopInv'
  BY <1>n DEF ControlInv, LoopInv
<1>5. EventsInv'
  BY <1>a, <1>n DEF ControlInv, EventsInv, EventInv, Numbered, IsCurrent
<1>6. ShownInv'
  BY <1>k, <1>n DEF ControlInv, ShownInv, Works, Live
<1>7. SaidInv'
  BY <1>a, <1>k, <1>n DEF ControlInv, SaidInv, Works, Live, SaysReady, IsCurrent
<1>8. ClosedInv'
  BY <1>k, <1>n DEF ControlInv, ClosedInv
<1>9. RetryInv'
  BY <1>k, <1>n DEF ControlInv, RetryInv
<1>10. AskedInv'
  BY <1>a, <1>n, <1>o DEF AskedInv, Waits, Wanted
<1>11. OrderedInv'
  BY <1>n, <1>o DEF OrderedInv
<1>12. CancelInv'
  BY <1>a, <1>n DEF ControlInv, CancelInv, IsCancel
<1>13. SaveInv'
  BY <1>n DEF ControlInv, SaveInv, Live
<1>14. QED BY <1>1, <1>2, <1>3, <1>4, <1>5, <1>6, <1>7, <1>8, <1>9, <1>10, <1>11, <1>12,
   <1>13 DEF ControlInv

LEMMA SavesKeeps ==
  ASSUME ControlInv, Replied("new", "ok"), settings' = saver.spec, SaveReturns,
         UNCHANGED <<environment, listener, commands, events, loop, supervisor, readiness,
                     clients, failures>>, excused' = (excused \/ Excuses)
  PROVE  ControlInv'
<1>1. WorkerType'
  BY DEF ControlInv, WorkerType
<1>2. LoopType'
  BY DEF ControlInv, LoopType, supervisor
<1>3. SaveType'
  BY DEF ControlInv, SaveReturns, SaveType, Saver
<1>4. LoopInv'
  BY DEF ControlInv, LoopInv, supervisor, Live
<1>5. EventsInv'
  BY DEF ControlInv, supervisor, EventsInv, EventInv, IsCurrent
<1>6. ShownInv'
  BY DEF ControlInv, supervisor, ShownInv, Works, TakenBackAfter, TakesBack, IsCurrent, Live
<1>7. SaidInv'
  BY DEF ControlInv, supervisor, SaidInv, Works, TakenBackAfter, TakesBack, SaysReady,
     IsCurrent, Live
<1>8. ClosedInv'
  BY DEF ControlInv, supervisor, ClosedInv, IsOnItsWay
<1>9. RetryInv'
  BY DEF ControlInv, supervisor, RetryInv, IsOnItsWay
<1>10. AskedInv'
  BY DEF ControlInv, Replied, AskedInv, Waits
<1>11. OrderedInv'
  BY DEF ControlInv, Replied, OrderedInv, Waits
<1>12. CancelInv'
  BY DEF ControlInv, Replied, clients, CancelInv, SaveInv
<1>13. SaveInv'
  BY DEF ControlInv, Replied, SaveReturns, supervisor, SaveInv, Live
<1>14. QED BY <1>1, <1>2, <1>3, <1>4, <1>5, <1>6, <1>7, <1>8, <1>9, <1>10, <1>11, <1>12,
   <1>13 DEF ControlInv

LEMMA SaveSettingsKeeps ==
  ASSUME ControlInv, SaveSettings, excused' = (excused \/ Excuses)
  PROVE  ControlInv'
<1>1. CASE settings' = saver.spec /\ SaveReturns /\ UNCHANGED <<events, failures>>
  BY <1>1, SavesKeeps DEF SaveSettings
<1>2. CASE /\ Fault("save")
           /\ saver' = [saver EXCEPT !.at = "rollback", !.answer = "none"]
           /\ Send([kind |-> "reconfigure", spec |-> settings])
           /\ UNCHANGED <<lock, settings>>
  BY <1>2, RollsBackKeeps DEF SaveSettings
<1>3. QED BY <1>1, <1>2 DEF SaveSettings

LEMMA SaveRefusedKeeps ==
  ASSUME ControlInv, SaveRefused, excused' = (excused \/ Excuses)
  PROVE  ControlInv'
<1>1. WorkerType'
  BY DEF ControlInv, SaveRefused, WorkerType
<1>2. LoopType'
  BY DEF ControlInv, SaveRefused, LoopType, supervisor
<1>3. SaveType'
  BY DEF ControlInv, SaveRefused, SaveReturns, SaveType, Saver
<1>4. LoopInv'
  BY DEF ControlInv, SaveRefused, LoopInv, supervisor, Live
<1>5. EventsInv'
  BY DEF ControlInv, SaveRefused, supervisor, EventsInv, EventInv, IsCurrent
<1>6. ShownInv'
  BY DEF ControlInv, SaveRefused, supervisor, ShownInv, Works, TakenBackAfter, TakesBack,
     IsCurrent, Live
<1>7. SaidInv'
  BY DEF ControlInv, SaveRefused, supervisor, SaidInv, Works, TakenBackAfter, TakesBack,
     SaysReady, IsCurrent, Live
<1>8. ClosedInv'
  BY DEF ControlInv, SaveRefused, supervisor, ClosedInv, IsOnItsWay
<1>9. RetryInv'
  BY DEF ControlInv, SaveRefused, supervisor, RetryInv, IsOnItsWay
<1>10. AskedInv'
  BY DEF ControlInv, SaveRefused, Replied, AskedInv, Waits
<1>11. OrderedInv'
  BY DEF ControlInv, SaveRefused, Replied, OrderedInv, Waits
<1>12. CancelInv'
  BY DEF ControlInv, SaveRefused, Replied, clients, CancelInv, SaveInv
<1>13. SaveInv'
  BY DEF ControlInv, SaveRefused, SaveReturns, Replied, supervisor, SaveInv, Live
<1>14. QED BY <1>1, <1>2, <1>3, <1>4, <1>5, <1>6, <1>7, <1>8, <1>9, <1>10, <1>11, <1>12,
   <1>13 DEF ControlInv

LEMMA RollbackFailedKeeps ==
  ASSUME ControlInv, RollbackFailed, excused' = (excused \/ Excuses)
  PROVE  ControlInv'
<1>1. WorkerType'
  BY DEF ControlInv, RollbackFailed, WorkerType
<1>2. LoopType'
  BY DEF ControlInv, RollbackFailed, LoopType, supervisor
<1>3. SaveType'
  BY DEF ControlInv, RollbackFailed, SaveReturns, SaveType, Saver
<1>4. LoopInv'
  BY DEF ControlInv, RollbackFailed, LoopInv, supervisor, Live
<1>5. EventsInv'
  BY DEF ControlInv, RollbackFailed, supervisor, EventsInv, EventInv, IsCurrent
<1>6. ShownInv'
  BY DEF RollbackFailed, ShownInv
<1>7. SaidInv'
  BY DEF ControlInv, RollbackFailed, supervisor, SaidInv, Works, TakenBackAfter, TakesBack,
     SaysReady, IsCurrent, Live
<1>8. ClosedInv'
  BY DEF ControlInv, RollbackFailed, supervisor, ClosedInv, IsOnItsWay
<1>9. RetryInv'
  BY DEF RetryInv, Excuses
<1>10. AskedInv'
  BY DEF ControlInv, RollbackFailed, Replied, AskedInv, Waits
<1>11. OrderedInv'
  BY DEF ControlInv, RollbackFailed, Replied, OrderedInv, Waits
<1>12. CancelInv'
  BY DEF ControlInv, RollbackFailed, Replied, clients, CancelInv, SaveInv
<1>13. SaveInv'
  BY DEF ControlInv, RollbackFailed, SaveReturns, supervisor, SaveInv, Live, Excuses
<1>14. QED BY <1>1, <1>2, <1>3, <1>4, <1>5, <1>6, <1>7, <1>8, <1>9, <1>10, <1>11, <1>12,
   <1>13 DEF ControlInv

--------------------------------------------------------------------------------
(* The theorems *)

LEMMA InitControl ==
  ASSUME MCInit
  PROVE  ControlInv
<1>1. PICK keyboards \in BOOLEAN :
        \/ /\ listener = Listener(settings, keyboards) /\ readiness = Reported(keyboards)
           /\ active = TRUE /\ loop = "receive" /\ failures = 0
        \/ /\ listener = [Listener(settings, FALSE) EXCEPT !.state = "closed"]
           /\ readiness = "unavailable" /\ active = FALSE /\ loop = "failed" /\ failures = 1
  BY DEF MCInit, Init
<1>2. /\ settings \in Specs /\ generation = 1 /\ environment = 0 /\ current = settings
      /\ commands = <<>> /\ events = <<>> /\ watcher = NoWatcher /\ lock = "free"
      /\ saver = [at |-> "idle", answer |-> "none", spec |-> settings]
      /\ canceller = NoControl /\ excused = FALSE
  BY DEF MCInit, Init
<1>3. /\ NoWatcher \in Watcher /\ NoWatcher.generation = 1 /\ saver \in Saver
      /\ saver.at = "idle" /\ saver.answer = "none" /\ canceller.at = "idle"
      /\ excused \in BOOLEAN
  <2>1. NoWatcher \in Watcher /\ NoWatcher.generation = 1
    BY DEF NoWatcher, Watcher, Numbers
  <2>2. /\ saver \in Saver /\ saver.at = "idle" /\ saver.answer = "none"
        /\ canceller.at = "idle"
    BY <1>2 DEF Saver, NoControl
  <2>3. excused \in BOOLEAN
    BY <1>2
  <2>4. QED BY <2>1, <2>2, <2>3
<1>4. /\ listener \in Worker /\ listener.generation = 1 /\ listener.spec = settings
      /\ \/ /\ active = TRUE /\ listener.state = "live" /\ loop = "receive"
            /\ readiness = Reported(listener.keyboards)
         \/ /\ active = FALSE /\ listener.state = "closed" /\ loop = "failed"
            /\ readiness = "unavailable"
      /\ active \in BOOLEAN /\ failures \in Nat
  <2>1. \A k \in BOOLEAN :
          /\ Listener(settings, k) \in Worker /\ Listener(settings, k).generation = 1
          /\ Listener(settings, k).state = "live" /\ Listener(settings, k).spec = settings
          /\ Listener(settings, k).keyboards = k
    BY <1>2, WorkerStarts DEF Numbers
  <2>2. \A w \in Worker : LET shut == [w EXCEPT !.state = "closed"] IN
          /\ shut \in Worker /\ shut.generation = w.generation /\ shut.state = "closed"
          /\ shut.spec = w.spec
    BY DEF Worker
  <2>3. CASE /\ listener = Listener(settings, keyboards)
             /\ readiness = Reported(keyboards)
             /\ active = TRUE /\ loop = "receive" /\ failures = 0
    BY <2>1, <2>3
  <2>4. CASE /\ listener = [Listener(settings, FALSE) EXCEPT !.state = "closed"]
             /\ readiness = "unavailable" /\ active = FALSE /\ loop = "failed"
             /\ failures = 1
    <3>1. /\ Listener(settings, FALSE) \in Worker
          /\ Listener(settings, FALSE).generation = 1
          /\ Listener(settings, FALSE).spec = settings
      BY <2>1
    <3>2. QED BY <2>2, <2>4, <3>1
  <2>5. QED BY <1>1, <2>3, <2>4
<1>5. WorkerType /\ LoopType /\ SaveType
  BY <1>2, <1>3, <1>4 DEF WorkerType, LoopType, SaveType, Numbers, Reported
<1>6. Len(events) = 0 /\ Len(commands) = 0 /\ events \in Seq(Message)
  BY <1>2
<1>7. LoopInv
  BY <1>2, <1>3, <1>4 DEF LoopInv
<1>8. EventsInv /\ SaidInv /\ AskedInv /\ CancelInv /\ OrderedInv
  BY <1>3, <1>4, <1>6 DEF EventsInv, SaidInv, AskedInv, CancelInv, OrderedInv
<1>9. ShownInv /\ ClosedInv /\ RetryInv
  BY <1>4 DEF ShownInv, ClosedInv, RetryInv, Works, Live, Reported
<1>10. SaveInv
  BY <1>2, <1>4 DEF SaveInv
<1>11. QED BY <1>5, <1>7, <1>8, <1>9, <1>10 DEF ControlInv

LEMMA NextKeepsControl ==
  ASSUME ControlInv, [MCNext]_watchedVars
  PROVE  ControlInv'
<1>1. CASE MCNext
  <2>1. excused' = (excused \/ Excuses) /\ Next
    BY <1>1 DEF MCNext
  <2>2. CASE DevicesChange \/ WorkerExits \/ ListenerClosed \/ WatcherFires
    BY <2>1, <2>2, DevicesChangeKeeps, WorkerExitsKeeps, ListenerClosedKeeps,
       WatcherFiresKeeps
  <2>3. CASE WorkerSteps
    BY <2>1, <2>3, WorkerDiscoversKeeps, WorkerReconfiguresKeeps, WorkerArmsCaptureKeeps,
       WorkerCancelsCaptureKeeps, WorkerEndsCaptureKeeps DEF WorkerSteps
  <2>4. CASE LoopSteps
    BY <2>1, <2>4, LoopTakesStatusKeeps, LoopTakesDiscoveryErrorKeeps, LoopTakesClosedKeeps,
       LoopTakesEnvironmentKeeps, LoopStartsListenerKeeps, LoopTakesReconfigureKeeps,
       LoopTakesControlKeeps, ScheduleRetryKeeps DEF LoopSteps
  <2>5. CASE SaveSteps
    BY <2>1, <2>5, SaveRefusedKeeps, SaveSettingsKeeps, RollbackFailedKeeps DEF SaveSteps
  <2>6. CASE ClientSteps
    BY <2>1, <2>6, CancelSendsKeeps, CaptureSendsKeeps DEF ClientSteps
  <2>7. CASE SaveBegins \/ CancelBegins \/ \E c \in Clients : CaptureBegins(c)
    BY <2>1, <2>7, SaveBeginsKeeps, CancelBeginsKeeps, CaptureBeginsKeeps
  <2>8. QED BY <2>1, <2>2, <2>3, <2>4, <2>5, <2>6, <2>7 DEF Next
<1>2. CASE UNCHANGED watchedVars
  BY <1>2 DEF watchedVars, vars, ControlInv, WorkerType, LoopType, SaveType, LoopInv,
     EventsInv, EventInv, IsCurrent, ShownInv, SaidInv, ClosedInv, RetryInv, AskedInv,
     OrderedInv, CancelInv, SaveInv, Works, Live, TakenBackAfter, TakesBack, SaysReady,
     IsOnItsWay, Wanted, Waits
<1>3. QED BY <1>1, <1>2

(* What is shown of the shortcut, what is asked of the listener and what the supervisor
   takes it for agree at every step of the worker, the loop, a save and a capture. *)
THEOREM ControlInvariance == MCSpec => []ControlInv
<1>1. MCInit => ControlInv
  BY InitControl
<1>2. ControlInv /\ [MCNext]_watchedVars => ControlInv'
  BY NextKeepsControl
<1>3. QED BY <1>1, <1>2, PTL DEF MCSpec

LEMMA ShownIsMeant ==
  ASSUME ControlInv
  PROVE  ShortcutIsAsShown
<1>1. ReadyMeansListening
  BY DEF ControlInv, ReadyMeansListening, Settled, ShownInv, TakenBackAfter, Works
<1>2. ~excused => ListensForTheSavedShortcut
  BY DEF ControlInv, ListensForTheSavedShortcut, Settled, SaveInv
<1>3. ~excused => ListenerOrRetry
  <2> SUFFICES ASSUME ~excused, loop = "receive", ~active,
                      ~(watcher.waiting /\ watcher.generation = generation)
               PROVE  [kind |-> "environment", generation |-> generation]
                        \in {events[i] : i \in DOMAIN events}
    BY DEF ListenerOrRetry
  <2>1. PICK m \in 1..Len(events) :
          events[m].kind = "environment" /\ events[m].generation = generation
    BY DEF ControlInv, RetryInv, IsOnItsWay
  <2>2. events \in Seq(Message) /\ events[m] \in Message /\ m \in DOMAIN events
    BY DEF ControlInv, EventsInv
  <2>3. events[m] = [kind |-> "environment", generation |-> generation]
    BY <2>1, <2>2 DEF Message
  <2>4. QED BY <2>3
<1>4. QED BY <1>1, <1>2, <1>3 DEF ShortcutIsAsShown

(* The shortcut that is shown as ready is listened for and the saved one, and one without
   a listener will be retried, but for a watcher that could not start and a rollback that
   was refused (ReadyMeansListening, ListenerOrRetry and ListensForTheSavedShortcut). *)
THEOREM ShortcutShown == MCSpec => []ShortcutIsAsShown
  BY ControlInvariance, ShownIsMeant, PTL

================================================================================
