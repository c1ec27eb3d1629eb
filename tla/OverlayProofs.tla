------------------------------- MODULE OverlayProofs -------------------------------
(* The overlay keeps its promises for every number of updates, pastes and failures.

   HelpersAreKnown is about what the helpers do, but the supervisor only knows what the
   events say, and the daemon what an answer says.  The inductive invariant Inv adds what
   ties them together: Known, that the supervisor and the events in the queue tell the
   truth of the helpers; Budget, that launches and what may still be launched are paid by
   updates; and Dialogue, that an answer to a dismissal can only be given, or wait on the
   channel, or be pasted upon, in a state where nothing is left to take the focus.     *)
EXTENDS Overlay, FiniteSetTheorems, FunctionTheorems, TLAPS

(* What the daemon sends. *)
OfDaemon(e) == e.event \in {"update", "dismiss", "force", "closed"}

(* What a helper or its monitor sends. *)
OfHelper(e) == e.event \in {"created", "frame", "error", "exit"}

(* Of the events behind the n-th, none is the daemon's. *)
SilentAfter(q, n) == \A k \in n + 1..Len(q) : ~OfDaemon(q[k])

(* The next of the daemon's events behind the n-th is the one that kills. *)
ForceFollows(q, n) ==
  \E m \in n + 1..Len(q) :
    q[m].event = "force" /\ \A k \in n + 1..m - 1 : ~OfDaemon(q[k])

(* The dismissal of that number, once it is the n-th event handled, was given up and is
      forced next, or the daemon still waits for it and has sent nothing since. *)
Given(n, call) ==
  ForceFollows(queue, n) \/ (SilentAfter(queue, n) /\ daemon = "waits" /\ calls = call)

(* Helpers are numbered in the order of their launch. *)
NoneBeyond == \A g \in Generations : g > supervisor.generation => helpers[g].at = "none"

(* The supervisor only knows helpers that it launched. *)
KnownGenerations ==
  /\ supervisor.helper.generation <= supervisor.generation
  /\ supervisor.pending.generation <= supervisor.generation

(* A helper that starts has no window. *)
StartsUnseen == \A g \in Generations : helpers[g].at = "starts" => helpers[g].window = "none"

(* Without a running overlay there is no helper. *)
StoppedHasNone == ~supervisor.running => supervisor.helper.generation = 0

(* The supervisor takes the window for override-redirect only if it is. *)
UnmanagedIsTrue ==
  \A g \in Generations :
    supervisor.helper.generation = g /\ supervisor.helper.unmanaged /\ Alive(g) =>
      helpers[g].window = "unmanaged"

(* A status or an exit is of a helper that was launched. *)
Dated(e) == OfHelper(e) => e.generation <= supervisor.generation

(* An exit is of a helper that has exited. *)
ExitIsTrue(e) == e.event = "exit" => helpers[e.generation].at = "reaped"

(* A window is only told to be override-redirect if it is. *)
CreatedIsTrue(e) ==
  e.event = "created" /\ e.unmanaged /\ Alive(e.generation) =>
    helpers[e.generation].window = "unmanaged"

(* What an event says of a helper is true. *)
Sound(e) == Dated(e) /\ ExitIsTrue(e) /\ CreatedIsTrue(e)

(* What waits in the queue is true. *)
EventsAreTrue == \A k \in 1..Len(queue) : Sound(queue[k])

(* What the supervisor and the queue say of the helpers holds of them. *)
Known ==
  /\ NoneBeyond /\ KnownGenerations /\ StartsUnseen /\ StoppedHasNone /\ UnmanagedIsTrue
  /\ EventsAreTrue /\ OpenHelperIsOwned

(* The updates in a queue. *)
Updates(q) == {k \in 1..Len(q) : q[k].event = "update"}

(* The launches so far, the restart that is left and two for each update not handled are
      at most two for each update sent. *)
Budget ==
  supervisor.generation + supervisor.restarts + 2 * Cardinality(Updates(queue)) <= 2 * updates

(* A dismissal in the queue is newer than the one whose exit is waited for and than
      those before it, and is waited for or forced next. *)
CallAt(k) ==
  queue[k].event = "dismiss" =>
    /\ queue[k].call <= calls /\ supervisor.pending.reply < queue[k].call
    /\ \A m \in 1..k - 1 : queue[m].event = "dismiss" => queue[m].call < queue[k].call
    /\ Given(k, queue[k].call)

(* Every dismissal in the queue is. *)
CallsInOrder == \A k \in 1..Len(queue) : CallAt(k)

(* An answer that is owed is owed to a dismissal. *)
ReplyIsOld == supervisor.pending.reply <= calls

(* The end of the commands comes after everything the daemon does. *)
ClosedIsLast ==
  (supervisor.closed \/ \E k \in 1..Len(queue) : queue[k].event = "closed")
     => daemon = "closed"

(* No helper can take the focus of a paste, but those taken off the screen before. *)
AllOff ==
  \A g \in Generations :
    Alive(g) /\ ~helpers[g].left => ~helpers[g].input /\ helpers[g].window = "unmanaged"

(* Nothing of the daemon waits, no helper is the supervisor's, none can take the focus. *)
AtRest == SilentAfter(queue, 0) /\ supervisor.helper.generation = 0 /\ AllOff

(* The answer to a dismissal waits for the exit of this helper. *)
Held(g) ==
  /\ supervisor.pending.generation = g /\ supervisor.pending.reply # 0
  /\ Given(0, supervisor.pending.reply)

(* A helper that is not the supervisor's has a window that cannot be focused, or holds an
      answer back. *)
Off(g) == helpers[g].window = "unmanaged" \/ Held(g)

(* Every helper that was dismissed, and not taken off the screen, is Off. *)
DismissedIsOff ==
  daemon # "closed" =>
    \A g \in Generations :
      Alive(g) /\ ~helpers[g].left /\ supervisor.helper.generation # g => Off(g)

(* While the daemon waits, its dismissal is its last event in the queue, or was handled
      and no helper was launched since. *)
WaitIsServed ==
  daemon = "waits" => calls # 0 /\
    \/ SilentAfter(queue, 0) /\ supervisor.helper.generation = 0
    \/ \E n \in 1..Len(queue) :
         queue[n].event = "dismiss" /\ queue[n].call = calls /\ SilentAfter(queue, n)

(* An answer on the channel is that of the dismissal waited for, and all is at rest. *)
AnswerIsSafe ==
  answer.call # 0 => daemon = "waits" /\ answer.call = calls /\ AtRest

(* All is at rest for as long as the paste goes on. *)
PasteAtRest == daemon = "pastes" => AtRest

(* How the daemon and the presenter stand to each other. *)
Dialogue ==
  /\ CallsInOrder /\ ReplyIsOld /\ ClosedIsLast /\ DismissedIsOff /\ WaitIsServed
  /\ AnswerIsSafe /\ PasteAtRest

(* The inductive invariant. *)
Inv == TypeOK /\ Known /\ Budget /\ Dialogue
--------------------------------------------------------------------------------
(* The fields of the events, and who sends them. *)
LEMMA EventFields ==
  ASSUME NEW e \in Events
  PROVE  /\ OfDaemon(e) \/ OfHelper(e)
         /\ ~(OfDaemon(e) /\ OfHelper(e))
         /\ e.event = "update" => e.state \in States
         /\ e.event = "dismiss" => e.call \in 1..MaxDismissals
         /\ OfHelper(e) => e.generation \in Generations
         /\ e.event = "created" => e.unmanaged \in BOOLEAN
BY DEF Events, OfDaemon, OfHelper

(* A queue with an event at its end. *)
LEMMA Appended ==
  ASSUME NEW q \in Seq(Events), NEW e \in Events
  PROVE  /\ Append(q, e) \in Seq(Events) /\ Len(Append(q, e)) = Len(q) + 1
         /\ \A k \in 1..Len(q) : Append(q, e)[k] = q[k]
         /\ Append(q, e)[Len(q) + 1] = e
OBVIOUS

(* A queue without its first event. *)
LEMMA Tailed ==
  ASSUME NEW q \in Seq(Events), q # <<>>
  PROVE  /\ Head(q) = q[1] /\ Head(q) \in Events /\ 1 \in 1..Len(q)
         /\ Tail(q) \in Seq(Events) /\ Len(Tail(q)) = Len(q) - 1 /\ Len(q) >= 1
         /\ \A k \in 1..Len(q) - 1 : Tail(q)[k] = q[k + 1]
OBVIOUS

(* An event of a helper hides nothing of what the daemon sent. *)
LEMMA AppendsHelpers ==
  ASSUME NEW q \in Seq(Events), NEW e \in Events, OfHelper(e), NEW n \in 0..Len(q)
  PROVE  /\ SilentAfter(q, n) => SilentAfter(Append(q, e), n)
         /\ ForceFollows(q, n) => ForceFollows(Append(q, e), n)
<1>1. ~OfDaemon(e)
  BY EventFields
<1>2. Len(q) \in Nat
  OBVIOUS
<1> DEFINE new == Append(q, e)
<1>3. /\ Len(new) = Len(q) + 1 /\ \A k \in 1..Len(q) : new[k] = q[k]
      /\ new[Len(q) + 1] = e
  BY Appended
<1> HIDE DEF new
<1>4. SilentAfter(q, n) => SilentAfter(new, n)
  BY <1>1, <1>2, <1>3 DEF SilentAfter
<1>5. ForceFollows(q, n) => ForceFollows(new, n)
  BY <1>2, <1>3 DEF ForceFollows
<1> QED
  BY <1>4, <1>5 DEF new

(* Any event behind it leaves the event that kills where it is; a new one of these is
      the next after silence. *)
LEMMA AppendsAny ==
  ASSUME NEW q \in Seq(Events), NEW e \in Events, NEW n \in 0..Len(q)
  PROVE  /\ ForceFollows(q, n) => ForceFollows(Append(q, e), n)
         /\ SilentAfter(q, n) /\ e.event = "force" => ForceFollows(Append(q, e), n)
         /\ SilentAfter(Append(q, e), Len(q) + 1)
<1>1. Len(q) \in Nat
  OBVIOUS
<1> DEFINE new == Append(q, e)
<1>2. /\ Len(new) = Len(q) + 1 /\ \A k \in 1..Len(q) : new[k] = q[k]
      /\ new[Len(q) + 1] = e
  BY Appended
<1> HIDE DEF new
<1>3. ForceFollows(q, n) => ForceFollows(new, n)
  BY <1>1, <1>2 DEF ForceFollows
<1>4. ASSUME SilentAfter(q, n), e.event = "force" PROVE ForceFollows(new, n)
  <2>1. Len(q) + 1 \in n + 1..Len(new) /\ new[Len(q) + 1].event = "force"
    BY <1>1, <1>2, <1>4
  <2>2. \A k \in n + 1..Len(q) + 1 - 1 : ~OfDaemon(new[k])
    BY <1>1, <1>2, <1>4 DEF SilentAfter
  <2> QED
    BY <2>1, <2>2 DEF ForceFollows
<1>5. SilentAfter(new, Len(q) + 1)
  BY <1>1, <1>2 DEF SilentAfter
<1> QED
  BY <1>3, <1>4, <1>5 DEF new

(* Handling an event moves every other one up by one. *)
LEMMA TailShifts ==
  ASSUME NEW q \in Seq(Events), q # <<>>, NEW n \in 0..Len(q) - 1
  PROVE  /\ SilentAfter(q, n + 1) => SilentAfter(Tail(q), n)
         /\ ForceFollows(q, n + 1) => ForceFollows(Tail(q), n)
<1>1. PICK len \in Nat : len = Len(q)
  OBVIOUS
<1> DEFINE new == Tail(q)
<1>2. Len(new) = len - 1 /\ len >= 1 /\ \A k \in 1..len - 1 : new[k] = q[k + 1]
  BY <1>1, Tailed
<1> HIDE DEF new
<1>3. SilentAfter(q, n + 1) => SilentAfter(new, n)
  <2> SUFFICES ASSUME SilentAfter(q, n + 1), NEW k \in n + 1..Len(new)
               PROVE  ~OfDaemon(new[k])
    BY DEF SilentAfter
  <2>1. k + 1 \in n + 1 + 1..Len(q) /\ new[k] = q[k + 1]
    BY <1>1, <1>2
  <2> QED
    BY <2>1 DEF SilentAfter
<1>4. ForceFollows(q, n + 1) => ForceFollows(new, n)
  <2> SUFFICES ASSUME ForceFollows(q, n + 1) PROVE ForceFollows(new, n)
    OBVIOUS
  <2>1. PICK m \in n + 1 + 1..Len(q) :
          q[m].event = "force" /\ \A k \in n + 1 + 1..m - 1 : ~OfDaemon(q[k])
    BY DEF ForceFollows
  <2>2. m - 1 \in n + 1..Len(new) /\ new[m - 1] = q[m]
    <3>1. m - 1 \in 1..len - 1 /\ (m - 1) + 1 = m /\ m - 1 \in n + 1..Len(new)
      BY <1>1, <1>2, <2>1
    <3> QED
      BY <3>1, <1>2
  <2>3. ASSUME NEW k \in n + 1..m - 1 - 1 PROVE ~OfDaemon(new[k])
    <3>1. k + 1 \in n + 1 + 1..m - 1 /\ new[k] = q[k + 1]
      BY <1>1, <1>2, <2>1
    <3> QED
      BY <3>1, <2>1
  <2> QED
    BY <2>1, <2>2, <2>3 DEF ForceFollows
<1> QED
  BY <1>3, <1>4 DEF new

(* Handling an event of a helper changes nothing of what the daemon sent. *)
LEMMA TailSkips ==
  ASSUME NEW q \in Seq(Events), q # <<>>
  PROVE  /\ SilentAfter(q, 0) => SilentAfter(Tail(q), 0) /\ OfHelper(Head(q))
         /\ OfHelper(Head(q)) /\ ForceFollows(q, 0) => ForceFollows(Tail(q), 0)
         /\ OfDaemon(Head(q)) /\ Head(q).event # "force" => ~ForceFollows(q, 0)
<1>1. Head(q) = q[1] /\ Head(q) \in Events /\ 1 \in 1..Len(q) /\ Len(q) \in Nat
  BY Tailed
<1>2. SilentAfter(q, 0) => SilentAfter(q, 0 + 1) /\ ~OfDaemon(q[1])
  BY <1>1 DEF SilentAfter
<1>3. ~OfDaemon(q[1]) /\ ForceFollows(q, 0) => ForceFollows(q, 0 + 1)
  <2> SUFFICES ASSUME ~OfDaemon(q[1]), ForceFollows(q, 0) PROVE ForceFollows(q, 0 + 1)
    OBVIOUS
  <2>1. PICK m \in 0 + 1..Len(q) :
          q[m].event = "force" /\ \A k \in 0 + 1..m - 1 : ~OfDaemon(q[k])
    BY DEF ForceFollows
  <2>2. m # 1
    BY <2>1 DEF OfDaemon
  <2>3. m \in 0 + 1 + 1..Len(q) /\ \A k \in 0 + 1 + 1..m - 1 : ~OfDaemon(q[k])
    BY <1>1, <2>1, <2>2
  <2> QED
    BY <2>1, <2>3 DEF ForceFollows
<1>4. OfDaemon(q[1]) /\ q[1].event # "force" => ~ForceFollows(q, 0)
  <2> SUFFICES ASSUME OfDaemon(q[1]), q[1].event # "force", ForceFollows(q, 0) PROVE FALSE
    OBVIOUS
  <2>1. PICK m \in 0 + 1..Len(q) :
          q[m].event = "force" /\ \A k \in 0 + 1..m - 1 : ~OfDaemon(q[k])
    BY DEF ForceFollows
  <2>2. m # 1
    BY <2>1
  <2>3. 1 \in 0 + 1..m - 1
    BY <1>1, <2>1, <2>2
  <2> QED
    BY <2>1, <2>3
<1>5. 0 \in 0..Len(q) - 1
  BY <1>1
<1>6. OfHelper(Head(q)) <=> ~OfDaemon(q[1])
  BY <1>1, EventFields
<1> QED
  BY <1>1, <1>2, <1>3, <1>4, <1>5, <1>6, TailShifts

(* A queue holds finitely many updates. *)
LEMMA UpdatesCounted ==
  ASSUME NEW q \in Seq(Events)
  PROVE  IsFiniteSet(Updates(q)) /\ Cardinality(Updates(q)) \in Nat
<1>1. PICK len \in Nat : len = Len(q)
  OBVIOUS
<1>2. IsFiniteSet(1..len)
  BY <1>1, FS_Interval
<1>3. Updates(q) \subseteq 1..len
  BY <1>1 DEF Updates
<1>4. IsFiniteSet(Updates(q))
  BY <1>2, <1>3, FS_Subset
<1> QED
  BY <1>4, FS_CardinalityType

(* An event at the end counts as one if it is an update. *)
LEMMA UpdatesAppended ==
  ASSUME NEW q \in Seq(Events), NEW e \in Events
  PROVE  Cardinality(Updates(Append(q, e))) =
           Cardinality(Updates(q)) + (IF e.event = "update" THEN 1 ELSE 0)
<1>1. PICK len \in Nat : len = Len(q)
  OBVIOUS
<1> DEFINE new == Append(q, e)
<1>2. Len(new) = len + 1 /\ (\A k \in 1..len : new[k] = q[k]) /\ new[len + 1] = e
  BY <1>1, Appended
<1> HIDE DEF new
<1>3. Updates(new) = IF e.event = "update" THEN Updates(q) \cup {len + 1} ELSE Updates(q)
  BY <1>1, <1>2 DEF Updates
<1>4. len + 1 \notin Updates(q)
  BY <1>1 DEF Updates
<1>5. IsFiniteSet(Updates(q)) /\ Cardinality(Updates(q)) \in Nat
  BY UpdatesCounted
<1>6. e.event = "update" => Cardinality(Updates(new)) = Cardinality(Updates(q)) + 1
  BY <1>3, <1>4, <1>5, FS_AddElement
<1> QED
  BY <1>3, <1>5, <1>6 DEF new

(* So does the first one, taken away. *)
LEMMA UpdatesTailed ==
  ASSUME NEW q \in Seq(Events), q # <<>>
  PROVE  Cardinality(Updates(Tail(q))) =
           Cardinality(Updates(q)) - (IF Head(q).event = "update" THEN 1 ELSE 0)
<1>1. PICK len \in Nat : len = Len(q)
  OBVIOUS
<1> DEFINE new == Tail(q)  rest == Updates(q) \ {1}
           f == [k \in rest |-> k - 1]
<1>2. /\ Len(new) = len - 1 /\ len >= 1 /\ \A k \in 1..len - 1 : new[k] = q[k + 1]
      /\ Head(q) = q[1]
  BY <1>1, Tailed
<1> HIDE DEF new
<1>3. IsFiniteSet(Updates(q)) /\ Cardinality(Updates(q)) \in Nat
  BY UpdatesCounted
<1>4. 1 \in Updates(q) <=> Head(q).event = "update"
  BY <1>1, <1>2 DEF Updates
<1>5. IsFiniteSet(rest) /\ Cardinality(rest) =
        Cardinality(Updates(q)) - (IF Head(q).event = "update" THEN 1 ELSE 0)
  <2>1. IsFiniteSet(rest) /\ Cardinality(rest) =
          IF 1 \in Updates(q) THEN Cardinality(Updates(q)) - 1 ELSE Cardinality(Updates(q))
    BY <1>3, FS_RemoveElement
  <2> QED
    BY <1>3, <1>4, <2>1
<1>6. ASSUME NEW k \in rest PROVE k \in Int /\ k - 1 \in Updates(new)
  <2>1. k \in 2..len /\ q[k].event = "update"
    BY <1>1 DEF Updates
  <2>2. k - 1 \in 1..len - 1 /\ (k - 1) + 1 = k
    BY <2>1, <1>1
  <2> QED
    BY <2>1, <2>2, <1>2 DEF Updates
<1>7. ASSUME NEW k \in Updates(new) PROVE k \in Int /\ k + 1 \in rest
  <2>1. k \in 1..len - 1 /\ new[k].event = "update"
    BY <1>1, <1>2 DEF Updates
  <2> QED
    BY <2>1, <1>1, <1>2 DEF Updates
<1>8. f \in Bijection(rest, Updates(new))
  <2>1. f \in [rest -> Updates(new)]
    BY <1>6
  <2>2. \A a, b \in rest : f[a] = f[b] => a = b
    BY <1>6
  <2>3. \A k \in Updates(new) : k + 1 \in rest /\ f[k + 1] = k
    BY <1>7
  <2> QED
    BY <2>1, <2>2, <2>3, Fun_IsBij
<1>9. Cardinality(Updates(new)) = Cardinality(rest)
  BY <1>5, <1>8, FS_Bijection DEF ExistsBijection
<1> QED
  BY <1>5, <1>9 DEF new
--------------------------------------------------------------------------------
(* Alive, of a process. *)
Lives(p) == p.at \in {"starts", "created", "shown", "failed"}

(* What no step but a launch does to a helper: bring one to life, open its input again,
      undo that it left, or give up a window that cannot be focused. *)
Evolves(hs, new) ==
  \A g \in Generations :
    /\ hs[g].at \in {"none", "reaped"} => new[g].at = hs[g].at
    /\ new[g].at = "starts" => new[g].window = "none"
    /\ Lives(new[g]) => Lives(hs[g])
    /\ Lives(new[g]) /\ new[g].input => hs[g].input
    /\ Lives(new[g]) /\ hs[g].left => new[g].left
    /\ Lives(new[g]) /\ hs[g].window = "unmanaged" => new[g].window = "unmanaged"

(* The bounds are numbers, and 0 is no helper. *)
LEMMA Bounds ==
  /\ MaxUpdates \in Nat /\ MaxDismissals \in Nat /\ MaxQueue \in Nat /\ MaxFailures \in Nat
  /\ Generations \subseteq Nat \ {0} /\ 0 \notin Generations
BY BoundsAssumption DEF Generations

(* The fields of the supervisor. *)
LEMMA SupervisorFields ==
  ASSUME NEW s \in Supervisors
  PROVE  /\ s.generation \in {0} \cup Generations /\ s.generation \in Nat
         /\ s.helper \in Helpers /\ s.helper.generation \in {0} \cup Generations
         /\ s.helper.generation \in Nat
         /\ s.pending \in Dismissals /\ s.pending.generation \in {0} \cup Generations
         /\ s.pending.generation \in Nat
         /\ s.pending.reply \in 0..MaxDismissals /\ s.pending.reply \in Nat
         /\ s.restarts \in 0..AutomaticRestartLimit /\ s.restarts \in Nat
         /\ s.running \in BOOLEAN /\ s.notice \in BOOLEAN /\ s.closed \in BOOLEAN
<1>1. s.helper \in Helpers /\ s.pending \in Dismissals /\ s.generation \in {0} \cup Generations
      /\ s.restarts \in 0..AutomaticRestartLimit
  BY DEF Supervisors
<1>2. s.running \in BOOLEAN /\ s.notice \in BOOLEAN /\ s.closed \in BOOLEAN
  BY DEF Supervisors
<1>3. s.helper.generation \in {0} \cup Generations
  BY <1>1 DEF Helpers
<1>4. s.pending.generation \in {0} \cup Generations /\ s.pending.reply \in 0..MaxDismissals
  BY <1>1 DEF Dismissals
<1>5. \A n \in {0} \cup Generations : n \in Nat
  BY Bounds
<1>6. /\ s.generation \in Nat /\ s.helper.generation \in Nat
      /\ s.pending.generation \in Nat
  BY <1>1, <1>3, <1>4, <1>5
<1>7. s.pending.reply \in Nat /\ s.restarts \in Nat
  BY <1>1, <1>4, Bounds DEF AutomaticRestartLimit
<1> QED
  BY <1>1, <1>2, <1>3, <1>4, <1>6, <1>7

(* A failed step stays within their bound. *)
LEMMA MayType ==
  ASSUME failures \in 0..MaxFailures, NEW kind, May(kind)
  PROVE  failures' \in 0..MaxFailures
BY Bounds DEF May

(* Finish closes the input of one helper, and changes nothing else. *)
LEMMA Finished ==
  ASSUME TypeOK, StartsUnseen, NEW g \in {0} \cup Generations
  PROVE  /\ Finish(helpers, g) \in [Generations -> Processes]
         /\ Evolves(helpers, Finish(helpers, g))
         /\ g # 0 => /\ ~Finish(helpers, g)[g].input
                     /\ \A h \in Generations :
                          /\ Finish(helpers, g)[h].at = helpers[h].at
                          /\ Finish(helpers, g)[h].window = helpers[h].window
                          /\ Finish(helpers, g)[h].left = helpers[h].left
         /\ \A h \in Generations \ {g} : Finish(helpers, g)[h] = helpers[h]
<1>1. CASE g = 0
  BY <1>1, Bounds DEF Finish, TypeOK, StartsUnseen, Evolves
<1>2. CASE g # 0
  <2>1. g \in Generations /\ helpers[g] \in Processes
    BY <1>2 DEF TypeOK
  <2> DEFINE row == [helpers[g] EXCEPT !.input = FALSE]
  <2>2. Finish(helpers, g) = [helpers EXCEPT ![g] = row]
    BY <1>2 DEF Finish
  <2>3. row \in Processes /\ row.at = helpers[g].at /\ row.window = helpers[g].window
    BY <2>1 DEF Processes
  <2>4. row.left = helpers[g].left /\ ~row.input
    BY <2>1 DEF Processes
  <2> HIDE DEF row
  <2>5. /\ Finish(helpers, g) \in [Generations -> Processes]
        /\ Finish(helpers, g)[g] = row
        /\ \A h \in Generations \ {g} : Finish(helpers, g)[h] = helpers[h]
    BY <2>1, <2>2, <2>3 DEF TypeOK
  <2>6. \A h \in Generations :
          /\ Finish(helpers, g)[h].at = helpers[h].at
          /\ Finish(helpers, g)[h].window = helpers[h].window
          /\ Finish(helpers, g)[h].left = helpers[h].left
    BY <2>3, <2>4, <2>5
  <2>7. Evolves(helpers, Finish(helpers, g))
    BY <2>4, <2>5, <2>6 DEF Evolves, Lives, StartsUnseen
  <2> QED
    BY <2>4, <2>5, <2>6, <2>7
<1> QED
  BY <1>1, <1>2

(* Terminate ends one helper at most. *)
LEMMA Terminated ==
  ASSUME TypeOK, StartsUnseen, NEW g \in {0} \cup Generations
  PROVE  /\ Terminate(helpers, g) \in [Generations -> Processes]
         /\ Evolves(helpers, Terminate(helpers, g))
         /\ g # 0 => ~Lives(Terminate(helpers, g)[g])
         /\ \A h \in Generations \ {g} : Terminate(helpers, g)[h] = helpers[h]
<1>1. CASE g = 0
  BY <1>1, Bounds DEF Terminate, TypeOK, StartsUnseen, Evolves
<1>2. CASE g # 0
  <2>1. g \in Generations /\ helpers[g] \in Processes
    BY <1>2 DEF TypeOK
  <2> DEFINE row == [helpers[g] EXCEPT !.input = FALSE,
                                       !.at = IF Alive(g) THEN "dead" ELSE @]
  <2>2. Terminate(helpers, g) = [helpers EXCEPT ![g] = row]
    BY <1>2, <2>1 DEF Terminate, TypeOK
  <2>3. row \in Processes /\ row.at = (IF Alive(g) THEN "dead" ELSE helpers[g].at)
    BY <2>1 DEF Processes
  <2> HIDE DEF row
  <2>4. /\ Terminate(helpers, g) \in [Generations -> Processes]
        /\ Terminate(helpers, g)[g] = row
        /\ \A h \in Generations \ {g} : Terminate(helpers, g)[h] = helpers[h]
    BY <2>1, <2>2, <2>3 DEF TypeOK
  <2>5. ~Lives(row)
    BY <2>3 DEF Lives, Alive
  <2>6. row.at # "starts" /\ (helpers[g].at \in {"none", "reaped"} => row.at = helpers[g].at)
    BY <2>3 DEF Alive
  <2>7. Evolves(helpers, Terminate(helpers, g))
    BY <2>4, <2>5, <2>6 DEF Evolves, StartsUnseen
  <2> QED
    BY <2>4, <2>5, <2>7
<1> QED
  BY <1>1, <1>2

(* A helper told to go closes and leaves. *)
LEMMA LeftOff ==
  ASSUME TypeOK, StartsUnseen, NEW g \in {0} \cup Generations
  PROVE  /\ Leaves(Finish(helpers, g), g) \in [Generations -> Processes]
         /\ Evolves(helpers, Leaves(Finish(helpers, g), g))
         /\ g # 0 => /\ ~Leaves(Finish(helpers, g), g)[g].input
                     /\ Leaves(Finish(helpers, g), g)[g].left
         /\ \A h \in Generations \ {g} : Leaves(Finish(helpers, g), g)[h] = helpers[h]
<1> DEFINE done == Finish(helpers, g)
<1>1. /\ done \in [Generations -> Processes] /\ Evolves(helpers, done)
      /\ \A h \in Generations \ {g} : done[h] = helpers[h]
      /\ g # 0 => ~done[g].input /\ done[g].at = helpers[g].at
                  /\ done[g].window = helpers[g].window
  BY Finished
<1> HIDE DEF done
<1>2. CASE g = 0
  BY <1>1, <1>2 DEF Leaves, done
<1>3. CASE g # 0
  <2>1. g \in Generations /\ done[g] \in Processes
    BY <1>1, <1>3
  <2> DEFINE row == [done[g] EXCEPT !.left = TRUE]
  <2>2. Leaves(done, g) = [done EXCEPT ![g] = row]
    BY <1>3 DEF Leaves
  <2>3. row \in Processes /\ row.at = done[g].at /\ row.window = done[g].window
    BY <2>1 DEF Processes
  <2>4. row.input = done[g].input /\ row.left
    BY <2>1 DEF Processes
  <2> HIDE DEF row
  <2>5. /\ Leaves(done, g) \in [Generations -> Processes] /\ Leaves(done, g)[g] = row
        /\ \A h \in Generations \ {g} : Leaves(done, g)[h] = helpers[h]
    BY <1>1, <2>1, <2>2, <2>3
  <2>6. Evolves(helpers, Leaves(done, g))
    BY <1>1, <2>1, <2>3, <2>4, <2>5 DEF Evolves, Lives, StartsUnseen
  <2> QED
    BY <1>1, <1>3, <2>4, <2>5, <2>6 DEF done
<1> QED
  BY <1>2, <1>3
--------------------------------------------------------------------------------
(* An event stays true while helpers only go on. *)
LEMMA StaysSound ==
  ASSUME TypeOK, NEW hs \in [Generations -> Processes], NEW e \in Events, Sound(e),
         Evolves(helpers, hs),
         OfHelper(e) => helpers'[e.generation] = hs[e.generation],
         supervisor'.generation \in Nat, supervisor.generation <= supervisor'.generation
  PROVE  Sound(e)'
<1>1. OfHelper(e) => e.generation \in Generations /\ e.generation \in Nat
  BY EventFields, Bounds
<1>2. e.event = "exit" \/ e.event = "created" => OfHelper(e)
  BY DEF OfHelper
<1>3. Dated(e)'
  <2> SUFFICES ASSUME OfHelper(e) PROVE e.generation <= supervisor'.generation
    BY DEF Dated
  <2>1. e.generation <= supervisor.generation /\ supervisor.generation \in Nat
    BY SupervisorFields DEF Sound, Dated, TypeOK
  <2> QED
    BY <1>1, <2>1
<1>4. ExitIsTrue(e)'
  <2> SUFFICES ASSUME e.event = "exit" PROVE helpers'[e.generation].at = "reaped"
    BY DEF ExitIsTrue
  <2>1. helpers[e.generation].at = "reaped" /\ e.generation \in Generations
    BY <1>1, <1>2 DEF Sound, ExitIsTrue
  <2>2. hs[e.generation].at = "reaped"
    BY <2>1 DEF Evolves
  <2> QED
    BY <1>2, <2>2
<1>5. CreatedIsTrue(e)'
  <2> SUFFICES ASSUME e.event = "created", e.unmanaged, Alive(e.generation)'
               PROVE  helpers'[e.generation].window = "unmanaged"
    BY DEF CreatedIsTrue
  <2>1. e.generation \in Generations /\ helpers'[e.generation] = hs[e.generation]
    BY <1>1, <1>2
  <2>2. Lives(hs[e.generation]) /\ Alive(e.generation)
    BY <2>1 DEF Evolves, Lives, Alive
  <2>3. helpers[e.generation].window = "unmanaged"
    BY <2>2 DEF Sound, CreatedIsTrue
  <2> QED
    BY <2>1, <2>2, <2>3 DEF Evolves
<1> QED
  BY <1>3, <1>4, <1>5 DEF Sound

(* So does what is known of all helpers and events. *)
LEMMA EvolvesKnown ==
  ASSUME TypeOK, TypeOK', Known, Evolves(helpers, helpers'),
         supervisor'.generation = supervisor.generation,
         \A k \in 1..Len(queue') :
           (\E m \in 1..Len(queue) : queue'[k] = queue[m]) \/ Sound(queue[k])'
  PROVE  NoneBeyond' /\ StartsUnseen' /\ EventsAreTrue'
<1>1. NoneBeyond'
  BY DEF NoneBeyond, Known, Evolves
<1>2. StartsUnseen'
  BY DEF StartsUnseen, Known, Evolves
<1>3. /\ supervisor.generation \in Nat /\ supervisor'.generation \in Nat
      /\ supervisor.generation <= supervisor'.generation
  BY SupervisorFields DEF TypeOK
<1>4. \A k \in 1..Len(queue) : queue[k] \in Events /\ Sound(queue[k])
  BY DEF Known, EventsAreTrue, TypeOK
<1>5. ASSUME NEW m \in 1..Len(queue), NEW e \in Events, e = queue[m] PROVE Sound(e)'
  <2>1. Sound(e)
    BY <1>4, <1>5
  <2> QED
    BY <1>3, <2>1, StaysSound DEF TypeOK
<1>6. ASSUME NEW k \in 1..Len(queue') PROVE Sound(queue[k])'
  <2> SUFFICES ASSUME NEW m \in 1..Len(queue), queue'[k] = queue[m] PROVE Sound(queue[k])'
    BY <1>6
  <2>1. PICK e \in Events : e = queue[m]
    BY <1>4
  <2>2. Sound(e)'
    BY <1>5, <2>1
  <2> QED
    BY <2>1, <2>2 DEF Sound, Dated, ExitIsTrue, CreatedIsTrue, Alive
<1>7. EventsAreTrue'
  BY <1>6 DEF EventsAreTrue
<1> QED
  BY <1>1, <1>2, <1>7

(* A helper that stays the supervisor's stays the one that gets updates. *)
LEMMA KeepsHelper ==
  ASSUME TypeOK, TypeOK', Known, Evolves(helpers, helpers'),
         supervisor'.helper = supervisor.helper
  PROVE  UnmanagedIsTrue' /\ OpenHelperIsOwned'
<1>1. \A g \in Generations : Alive(g)' => Alive(g)
  BY DEF Evolves, Alive, Lives
<1>2. OpenHelperIsOwned'
  BY <1>1 DEF OpenHelperIsOwned, Known, Evolves, Alive, Lives
<1>3. UnmanagedIsTrue'
  BY <1>1 DEF UnmanagedIsTrue, Known, Evolves, Alive, Lives
<1> QED
  BY <1>2, <1>3

(* One given up with its input closed leaves no helper that waits for updates. *)
LEMMA DropsHelper ==
  ASSUME TypeOK, TypeOK', Known, Evolves(helpers, helpers'),
         supervisor'.helper = NoHelper,
         \A g \in Generations : supervisor.helper.generation = g /\ Alive(g)' => ~helpers'[g].input
  PROVE  /\ UnmanagedIsTrue' /\ OpenHelperIsOwned'
         /\ \A g \in Generations : Alive(g)' => ~helpers'[g].input
<1>1. supervisor'.helper.generation = 0 /\ supervisor'.helper.unmanaged = FALSE
  BY DEF NoHelper
<1>2. ASSUME NEW g \in Generations, Alive(g)', helpers'[g].input PROVE FALSE
  <2>1. Alive(g) /\ helpers[g].input
    BY <1>2 DEF Evolves, Alive, Lives
  <2>2. supervisor.helper.generation = g
    BY <2>1 DEF Known, OpenHelperIsOwned
  <2> QED
    BY <1>2, <2>2
<1>3. OpenHelperIsOwned'
  BY <1>2 DEF OpenHelperIsOwned
<1>4. UnmanagedIsTrue'
  BY <1>1 DEF UnmanagedIsTrue
<1> QED
  BY <1>2, <1>3, <1>4

(* A launch, of whatever the handler made of the supervisor and the helpers. *)
LEMMA LaunchType ==
  ASSUME TypeOK, NEW s \in Supervisors, NEW hs \in [Generations -> Processes],
         s.generation + 1 \in Generations, Launch(s, hs)
  PROVE  /\ supervisor' \in Supervisors /\ helpers' \in [Generations -> Processes]
         /\ unavailable' \in BOOLEAN /\ failures' \in 0..MaxFailures
         /\ supervisor'.generation = s.generation + 1 /\ supervisor'.pending = s.pending
         /\ supervisor'.restarts = s.restarts /\ supervisor'.closed = s.closed
         /\ supervisor'.notice = s.notice
         /\ \/ /\ supervisor'.helper = [NoHelper EXCEPT !.generation = s.generation + 1]
               /\ supervisor'.running
               /\ helpers' = [hs EXCEPT ![s.generation + 1] =
                                [NoProcess EXCEPT !.at = "starts", !.input = TRUE]]
            \/ supervisor'.helper = s.helper /\ helpers' = hs /\ ~supervisor'.running
<1> DEFINE g == s.generation + 1
           next == [s EXCEPT !.generation = g, !.running = TRUE]
           new == [NoHelper EXCEPT !.generation = g]
           row == [NoProcess EXCEPT !.at = "starts", !.input = TRUE]
<1>1. next \in Supervisors /\ new \in Helpers /\ row \in Processes
  BY DEF Supervisors, Helpers, Processes, NoHelper, NoProcess
<1>2. /\ next.generation = g /\ next.pending = s.pending /\ next.restarts = s.restarts
      /\ next.closed = s.closed /\ next.helper = s.helper
  BY DEF Supervisors
<1>3. next.running = TRUE /\ next.notice = s.notice
  BY DEF Supervisors
<1>4. \/ /\ supervisor' = [next EXCEPT !.helper = new]
         /\ helpers' = [hs EXCEPT ![g] = row]
         /\ UNCHANGED <<unavailable, failures>>
      \/ /\ May("spawn") /\ supervisor' = [next EXCEPT !.running = FALSE]
         /\ helpers' = hs /\ unavailable' = TRUE
  BY DEF Launch, Fine
<1> HIDE DEF next, new, row
<1>5. CASE /\ supervisor' = [next EXCEPT !.helper = new]
           /\ helpers' = [hs EXCEPT ![g] = row]
           /\ UNCHANGED <<unavailable, failures>>
  <2>1. supervisor' \in Supervisors /\ supervisor'.helper = new
    BY <1>1, <1>5 DEF Supervisors
  <2>2. /\ supervisor'.generation = g /\ supervisor'.pending = s.pending
        /\ supervisor'.restarts = s.restarts /\ supervisor'.closed = s.closed
        /\ supervisor'.running = TRUE /\ supervisor'.notice = s.notice
    BY <1>1, <1>2, <1>3, <1>5 DEF Supervisors
  <2>3. helpers' \in [Generations -> Processes]
    BY <1>1, <1>5
  <2>4. unavailable' \in BOOLEAN /\ failures' \in 0..MaxFailures
    BY <1>5 DEF TypeOK
  <2> QED
    BY <1>5, <2>1, <2>2, <2>3, <2>4 DEF new, row
<1>6. CASE /\ May("spawn") /\ supervisor' = [next EXCEPT !.running = FALSE]
           /\ helpers' = hs /\ unavailable' = TRUE
  <2>1. supervisor' \in Supervisors /\ supervisor'.running = FALSE
    BY <1>1, <1>6 DEF Supervisors
  <2>2. /\ supervisor'.generation = g /\ supervisor'.pending = s.pending
        /\ supervisor'.restarts = s.restarts /\ supervisor'.closed = s.closed
        /\ supervisor'.helper = s.helper /\ supervisor'.notice = s.notice
    BY <1>1, <1>2, <1>3, <1>6 DEF Supervisors
  <2>3. failures' \in 0..MaxFailures
    BY <1>6, MayType DEF TypeOK
  <2> QED
    BY <1>6, <2>1, <2>2, <2>3
<1> QED
  BY <1>4, <1>5, <1>6

(* A launch, once no helper waits for updates, gives one that the supervisor owns. *)
LEMMA LaunchKnown ==
  ASSUME TypeOK, TypeOK', Known, NEW s \in Supervisors, NEW hs \in [Generations -> Processes],
         s.generation = supervisor.generation, s.generation + 1 \in Generations,
         s.helper.generation = 0, s.pending = supervisor.pending,
         Evolves(helpers, hs), \A g \in Generations : Lives(hs[g]) => ~hs[g].input,
         queue # <<>>, queue' = Tail(queue), Launch(s, hs)
  PROVE  Known'
<1> DEFINE new == s.generation + 1
           row == [NoProcess EXCEPT !.at = "starts", !.input = TRUE]
<1>1. /\ supervisor'.generation = new /\ supervisor'.pending = supervisor.pending
      /\ \/ /\ supervisor'.helper = [NoHelper EXCEPT !.generation = new]
            /\ supervisor'.running
            /\ helpers' = [hs EXCEPT ![new] = row]
         \/ supervisor'.helper = s.helper /\ helpers' = hs /\ ~supervisor'.running
  BY LaunchType
<1>2. row.at = "starts" /\ row.window = "none"
  BY DEF NoProcess
<1>3. new \in Generations /\ new \in Nat /\ supervisor.generation \in Nat
  BY Bounds, SupervisorFields DEF TypeOK
<1>4. NoHelper.generation = 0 /\ ~NoHelper.unmanaged
      /\ [NoHelper EXCEPT !.generation = new].generation = new
      /\ ~[NoHelper EXCEPT !.generation = new].unmanaged
  BY DEF NoHelper
<1> HIDE DEF row, new
<1>5. \A g \in Generations \ {new} : helpers'[g] = hs[g]
  BY <1>1
<1>6. helpers'[new] \in {hs[new], row}
  BY <1>1, <1>3
<1>7. helpers[new].at = "none"
  BY <1>3 DEF Known, NoneBeyond, new
<1>8. NoneBeyond'
  <2> SUFFICES ASSUME NEW g \in Generations, g > new PROVE helpers'[g].at = "none"
    BY <1>1 DEF NoneBeyond
  <2>1. g > supervisor.generation /\ g # new
    BY <1>3, Bounds DEF new
  <2> QED
    BY <1>5, <2>1 DEF Known, NoneBeyond, Evolves
<1>9. KnownGenerations'
  <2>1. /\ supervisor.pending.generation \in Nat
        /\ supervisor.pending.generation <= supervisor.generation
    BY SupervisorFields DEF Known, KnownGenerations, TypeOK
  <2>2. /\ supervisor'.pending.generation <= supervisor'.generation
    BY <1>1, <1>3, <2>1 DEF new
  <2>3. supervisor'.helper.generation <= supervisor'.generation
    <3>1. supervisor'.helper.generation = 0 \/ supervisor'.helper.generation = new
      BY <1>1, <1>4
    <3> QED
      BY <1>1, <1>3, <3>1
  <2> QED
    BY <2>2, <2>3 DEF KnownGenerations
<1>10. StartsUnseen'
  BY <1>2, <1>5, <1>6 DEF StartsUnseen, Evolves
<1>11. StoppedHasNone'
  BY <1>1, <1>4 DEF StoppedHasNone
<1>12. UnmanagedIsTrue'
  <2>1. \A g \in Generations : supervisor'.helper.generation = g => ~supervisor'.helper.unmanaged
    BY <1>1, <1>4, Bounds
  <2> QED
    BY <2>1 DEF UnmanagedIsTrue
<1>13. OpenHelperIsOwned'
  BY <1>1, <1>4, <1>5 DEF OpenHelperIsOwned, Alive, Lives
<1>14. ASSUME NEW k \in 1..Len(queue') PROVE Sound(queue[k])'
  <2>1. PICK e \in Events : queue'[k] = e /\ \E m \in 1..Len(queue) : queue[m] = e
    <3>1. k + 1 \in 1..Len(queue) /\ queue'[k] = queue[k + 1] /\ queue[k + 1] \in Events
      BY Tailed DEF TypeOK
    <3> QED
      BY <3>1
  <2>2. Sound(e)
    BY <2>1 DEF Known, EventsAreTrue
  <2>3. OfHelper(e) => helpers'[e.generation] = hs[e.generation]
    <3> SUFFICES ASSUME OfHelper(e) PROVE helpers'[e.generation] = hs[e.generation]
      OBVIOUS
    <3>1. e.generation <= supervisor.generation /\ e.generation \in Generations
      BY <2>2, EventFields DEF Sound, Dated
    <3>2. e.generation # new
      BY <1>3, <3>1, Bounds DEF new
    <3> QED
      BY <1>5, <3>1, <3>2
  <2>4. supervisor'.generation \in Nat /\ supervisor.generation <= supervisor'.generation
    BY <1>1, <1>3 DEF new
  <2>5. Sound(e)'
    BY <2>2, <2>3, <2>4, StaysSound
  <2> QED
    BY <2>1, <2>5 DEF Sound, Dated, ExitIsTrue, CreatedIsTrue, Alive
<1>15. EventsAreTrue'
  BY <1>14 DEF EventsAreTrue
<1> QED
  BY <1>8, <1>9, <1>10, <1>11, <1>12, <1>13, <1>15 DEF Known
--------------------------------------------------------------------------------
(* A handler that launches nothing keeps what is known. *)
LEMMA SettlesKnown ==
  ASSUME TypeOK, TypeOK', Known, Evolves(helpers, helpers'), StoppedHasNone',
         supervisor'.generation = supervisor.generation,
         supervisor'.pending.generation \in
           {0, supervisor.pending.generation, supervisor.helper.generation},
         \/ supervisor'.helper = supervisor.helper
         \/ /\ supervisor'.helper = NoHelper
            /\ \A g \in Generations :
                 supervisor.helper.generation = g /\ Alive(g)' => ~helpers'[g].input,
         queue' = queue \/ (queue # <<>> /\ queue' = Tail(queue))
  PROVE  Known'
<1>1. \A k \in 1..Len(queue') : \E m \in 1..Len(queue) : queue'[k] = queue[m]
  <2>1. CASE queue' = queue
    BY <2>1
  <2>2. CASE queue # <<>> /\ queue' = Tail(queue)
    <3> SUFFICES ASSUME NEW k \in 1..Len(queue')
                 PROVE  \E m \in 1..Len(queue) : queue'[k] = queue[m]
      OBVIOUS
    <3>1. k + 1 \in 1..Len(queue) /\ queue'[k] = queue[k + 1]
      BY <2>2, Tailed DEF TypeOK
    <3> QED
      BY <3>1
  <2> QED
    BY <2>1, <2>2
<1>2. NoneBeyond' /\ StartsUnseen' /\ EventsAreTrue'
  BY <1>1, EvolvesKnown
<1>3. UnmanagedIsTrue' /\ OpenHelperIsOwned'
  BY KeepsHelper, DropsHelper
<1>4. KnownGenerations'
  <2>1. /\ supervisor.helper.generation <= supervisor.generation
        /\ supervisor.pending.generation <= supervisor.generation
    BY DEF Known, KnownGenerations
  <2>2. /\ supervisor.helper.generation \in Nat /\ supervisor.generation \in Nat
        /\ supervisor.pending.generation \in Nat
    BY SupervisorFields DEF TypeOK
  <2>3. supervisor'.helper.generation \in {0, supervisor.helper.generation}
    BY DEF NoHelper
  <2> QED
    BY <2>1, <2>2, <2>3 DEF KnownGenerations
<1> QED
  BY <1>2, <1>3, <1>4 DEF Known

(* A handler pays for launches and restarts with the update it handles. *)
LEMMA BudgetKept ==
  ASSUME TypeOK, TypeOK', Budget, updates' = updates, queue # <<>>, queue' = Tail(queue),
         supervisor'.generation + supervisor'.restarts <=
           supervisor.generation + supervisor.restarts
             + (IF Head(queue).event = "update" THEN 2 ELSE 0)
  PROVE  Budget'
<1>1. Cardinality(Updates(queue)) \in Nat /\ Cardinality(Updates(queue')) \in Nat
  BY UpdatesCounted DEF TypeOK
<1>2. Cardinality(Updates(queue')) =
        Cardinality(Updates(queue)) - (IF Head(queue).event = "update" THEN 1 ELSE 0)
  BY UpdatesTailed DEF TypeOK
<1>3. /\ supervisor.generation \in Nat /\ supervisor.restarts \in Nat
      /\ supervisor'.generation \in Nat /\ supervisor'.restarts \in Nat /\ updates \in Nat
  BY SupervisorFields, Bounds DEF TypeOK
<1>4. PICK some \in Nat, fewer \in Nat :
        some = Cardinality(Updates(queue)) /\ fewer = Cardinality(Updates(queue'))
  BY <1>1
<1>5. supervisor.generation + supervisor.restarts + 2 * some <= 2 * updates
  BY <1>4 DEF Budget
<1>6. CASE Head(queue).event = "update"
  <2>1. /\ fewer = some - 1
        /\ supervisor'.generation + supervisor'.restarts <=
             supervisor.generation + supervisor.restarts + 2
    BY <1>2, <1>4, <1>6
  <2>2. supervisor'.generation + supervisor'.restarts + 2 * fewer <= 2 * updates
    BY <1>3, <1>5, <2>1, SMTT(30)
  <2> QED
    BY <1>4, <2>2 DEF Budget
<1>7. CASE Head(queue).event # "update"
  <2>1. /\ fewer = some - 0
        /\ supervisor'.generation + supervisor'.restarts <=
             supervisor.generation + supervisor.restarts + 0
    BY <1>2, <1>4, <1>7
  <2>2. supervisor'.generation + supervisor'.restarts + 2 * fewer <= 2 * updates
    BY <1>3, <1>5, <2>1
  <2> QED
    BY <1>4, <2>2 DEF Budget
<1> QED
  BY <1>6, <1>7

(* A restart or an update that is left pays for one more generation. *)
LEMMA LaunchFits ==
  ASSUME TypeOK, Budget,
         \/ supervisor.restarts # 0
         \/ queue # <<>> /\ Head(queue).event = "update"
  PROVE  supervisor.generation + 1 \in Generations
<1>1. /\ supervisor.generation \in Nat /\ supervisor.restarts \in Nat /\ updates \in Nat
      /\ updates <= MaxUpdates
  BY SupervisorFields, Bounds DEF TypeOK
<1>2. Cardinality(Updates(queue)) \in Nat
  BY UpdatesCounted DEF TypeOK
<1>3. queue # <<>> /\ Head(queue).event = "update" => Cardinality(Updates(queue)) >= 1
  <2> SUFFICES ASSUME queue # <<>>, Head(queue).event = "update"
               PROVE  Cardinality(Updates(queue)) >= 1
    OBVIOUS
  <2>1. Cardinality(Updates(Tail(queue))) = Cardinality(Updates(queue)) - 1
    BY UpdatesTailed DEF TypeOK
  <2>2. Cardinality(Updates(Tail(queue))) \in Nat
    BY UpdatesCounted, Tailed DEF TypeOK
  <2> QED
    BY <1>2, <2>1, <2>2
<1>4. supervisor.generation + 1 <= 2 * updates
  BY <1>1, <1>2, <1>3, SMTT(30) DEF Budget
<1> QED
  BY <1>1, <1>4, Bounds DEF Generations

--------------------------------------------------------------------------------
(* Handling an event keeps what is promised of the dismissals behind it. *)
LEMMA GivenTail ==
  ASSUME TypeOK, queue # <<>>, queue' = Tail(queue), UNCHANGED <<daemon, calls>>, NEW c
  PROVE  /\ \A n \in 0..Len(queue) - 1 : Given(n + 1, c) => Given(n, c)'
         /\ OfHelper(Head(queue)) /\ Given(0, c) => Given(0, c)'
         /\ OfDaemon(Head(queue)) /\ Head(queue).event # "force" => ~Given(0, c)
<1>1. queue \in Seq(Events)
  BY DEF TypeOK
<1>2. ASSUME NEW n \in 0..Len(queue) - 1, Given(n + 1, c) PROVE Given(n, c)'
  BY <1>1, <1>2, TailShifts DEF Given
<1>3. ASSUME OfHelper(Head(queue)), Given(0, c) PROVE Given(0, c)'
  BY <1>1, <1>3, TailSkips DEF Given
<1>4. ASSUME OfDaemon(Head(queue)), Head(queue).event # "force" PROVE ~Given(0, c)
  <2>1. ~SilentAfter(queue, 0)
    BY <1>1, <1>4, TailSkips, Tailed, EventFields
  <2>2. ~ForceFollows(queue, 0)
    BY <1>1, <1>4, TailSkips
  <2> QED
    BY <2>1, <2>2 DEF Given
<1> QED
  BY <1>2, <1>3, <1>4

(* Handling an event keeps the dismissals in order. *)
LEMMA CallsTail ==
  ASSUME TypeOK, TypeOK', CallsInOrder, ReplyIsOld, queue # <<>>, queue' = Tail(queue),
         UNCHANGED <<daemon, calls>>,
         \/ supervisor'.pending.reply \in {0, supervisor.pending.reply}
         \/ Head(queue).event = "dismiss" /\ supervisor'.pending.reply = Head(queue).call
  PROVE  CallsInOrder' /\ ReplyIsOld'
<1>1. /\ supervisor.pending.reply \in Nat /\ supervisor'.pending.reply \in Nat
      /\ calls \in Nat
  BY SupervisorFields, Bounds DEF TypeOK
<1>2. /\ Head(queue) = queue[1] /\ 1 \in 1..Len(queue) /\ Len(queue') = Len(queue) - 1
      /\ Len(queue) \in Nat /\ \A k \in 1..Len(queue) - 1 : queue'[k] = queue[k + 1]
  BY Tailed DEF TypeOK
<1>3. \A k \in 1..Len(queue) : queue[k].event = "dismiss" => queue[k].call \in Nat \ {0}
  <2> SUFFICES ASSUME NEW k \in 1..Len(queue), queue[k].event = "dismiss"
               PROVE  queue[k].call \in Nat \ {0}
    OBVIOUS
  <2>1. queue[k] \in Events
    BY DEF TypeOK
  <2> QED
    BY <2>1, EventFields, Bounds
<1>4. ReplyIsOld'
  <2>1. Head(queue).event = "dismiss" => Head(queue).call <= calls
    BY <1>2 DEF CallsInOrder, CallAt
  <2> QED
    BY <1>1, <2>1 DEF ReplyIsOld
<1>5. ASSUME NEW k \in 1..Len(queue'), queue'[k].event = "dismiss"
      PROVE  /\ queue'[k].call <= calls /\ supervisor'.pending.reply < queue'[k].call
             /\ \A m \in 1..k - 1 : queue'[m].event = "dismiss" => queue'[m].call < queue'[k].call
             /\ Given(k, queue[k].call)'
  <2>1. k + 1 \in 1..Len(queue) /\ k \in 0..Len(queue) - 1 /\ queue'[k] = queue[k + 1]
    BY <1>2
  <2>2. /\ queue[k + 1].event = "dismiss"
        /\ queue[k + 1].call <= calls /\ supervisor.pending.reply < queue[k + 1].call
        /\ \A m \in 1..k + 1 - 1 :
             queue[m].event = "dismiss" => queue[m].call < queue[k + 1].call
        /\ Given(k + 1, queue[k + 1].call)
    BY <1>5, <2>1 DEF CallsInOrder, CallAt
  <2>3. queue[k + 1].call \in Nat
    BY <1>3, <2>1, <2>2
  <2>4. supervisor'.pending.reply < queue'[k].call
    <3>1. 1 \in 1..k + 1 - 1
      BY <2>1
    <3>2. Head(queue).event = "dismiss" => Head(queue).call < queue[k + 1].call
      BY <1>2, <2>2, <3>1
    <3> QED
      BY <1>1, <2>1, <2>2, <2>3, <3>2
  <2>5. ASSUME NEW m \in 1..k - 1, queue'[m].event = "dismiss"
        PROVE  queue'[m].call < queue'[k].call
    <3>1. m + 1 \in 1..k + 1 - 1 /\ queue'[m] = queue[m + 1]
      BY <1>2, <2>1
    <3> QED
      BY <2>1, <2>2, <2>5, <3>1
  <2>6. Given(k, queue[k].call)'
    <3>1. PICK c : c = queue[k + 1].call
      OBVIOUS
    <3>2. Given(k, c)'
      BY <2>1, <2>2, <3>1, GivenTail
    <3> QED
      BY <2>1, <3>1, <3>2 DEF Given
  <2> QED
    BY <2>1, <2>2, <2>4, <2>5, <2>6
<1>6. CallsInOrder'
  BY <1>5 DEF CallsInOrder, CallAt
<1> QED
  BY <1>4, <1>6

(* The end of the commands is still behind everything. *)
LEMMA ClosedTail ==
  ASSUME TypeOK, ClosedIsLast, queue # <<>>, queue' = Tail(queue), daemon' = daemon,
         supervisor'.closed = supervisor.closed \/ Head(queue).event = "closed"
  PROVE  ClosedIsLast'
<1>1. Head(queue) = queue[1] /\ 1 \in 1..Len(queue)
  BY Tailed DEF TypeOK
<1>2. \A k \in 1..Len(queue') : k + 1 \in 1..Len(queue) /\ queue'[k] = queue[k + 1]
  BY Tailed DEF TypeOK
<1> QED
  BY <1>1, <1>2 DEF ClosedIsLast

(* A dismissal that is handled leaves no helper, and the events of helpers launch none. *)
LEMMA WaitTail ==
  ASSUME TypeOK, WaitIsServed, queue # <<>>, queue' = Tail(queue),
         UNCHANGED <<daemon, calls>>,
         \/ Head(queue).event = "dismiss"
         \/ OfHelper(Head(queue)) /\ supervisor.helper.generation = 0
         => supervisor'.helper.generation = 0
  PROVE  WaitIsServed'
<1> SUFFICES ASSUME daemon = "waits" PROVE WaitIsServed'
  BY DEF WaitIsServed
<1>1. /\ Head(queue) = queue[1] /\ Len(queue') = Len(queue) - 1 /\ Len(queue) \in Nat
      /\ \A k \in 1..Len(queue) - 1 : queue'[k] = queue[k + 1]
      /\ queue \in Seq(Events)
  BY Tailed DEF TypeOK
<1>2. CASE SilentAfter(queue, 0) /\ supervisor.helper.generation = 0
  <2>1. SilentAfter(queue', 0) /\ OfHelper(Head(queue))
    BY <1>1, <1>2, TailSkips
  <2> QED
    BY <1>2, <2>1 DEF WaitIsServed
<1>3. ASSUME NEW n \in 1..Len(queue),
             queue[n].event = "dismiss" /\ queue[n].call = calls /\ SilentAfter(queue, n)
      PROVE  WaitIsServed'
  <2>1. n - 1 \in 0..Len(queue) - 1 /\ (n - 1) + 1 = n
    BY <1>1
  <2>2. SilentAfter(queue', n - 1)
    BY <1>1, <1>3, <2>1, TailShifts
  <2>3. CASE n = 1
    BY <1>1, <1>3, <2>2, <2>3 DEF WaitIsServed
  <2>4. CASE n # 1
    <3>1. n - 1 \in 1..Len(queue') /\ queue'[n - 1] = queue[n]
      <4>1. n - 1 \in 1..Len(queue) - 1
        BY <1>1, <2>4
      <4> QED
        BY <1>1, <2>1, <4>1
    <3> QED
      BY <1>3, <2>2, <3>1 DEF WaitIsServed
  <2> QED
    BY <2>3, <2>4
<1> QED
  BY <1>2, <1>3 DEF WaitIsServed

(* Helpers that go on stay off. *)
LEMMA AllOffKept ==
  ASSUME TypeOK, TypeOK', AllOff, Evolves(helpers, helpers')
  PROVE  AllOff'
BY DEF AllOff, Evolves, Alive, Lives

(* The events of helpers do not disturb a state at rest. *)
LEMMA RestTail ==
  ASSUME TypeOK, TypeOK', Evolves(helpers, helpers'), queue # <<>>, queue' = Tail(queue),
         OfHelper(Head(queue)) /\ supervisor.helper.generation = 0
           => supervisor'.helper.generation = 0
  PROVE  AtRest => AtRest'
<1> SUFFICES ASSUME AtRest PROVE AtRest'
  OBVIOUS
<1>1. SilentAfter(queue', 0) /\ OfHelper(Head(queue))
  BY TailSkips DEF AtRest, TypeOK
<1>2. AllOff'
  BY AllOffKept DEF AtRest
<1> QED
  BY <1>1, <1>2 DEF AtRest

(* Neither the answer nor the paste is disturbed by a step that keeps the rest. *)
LEMMA AnswerKept ==
  ASSUME UNCHANGED <<answer, daemon, calls>>, AnswerIsSafe, PasteAtRest, AtRest => AtRest'
  PROVE  AnswerIsSafe' /\ PasteAtRest'
BY DEF AnswerIsSafe, PasteAtRest

(* A step keeps dismissed helpers off if it keeps the answers held back and dismisses none
      that may take the focus. *)
LEMMA OffKept ==
  ASSUME TypeOK, TypeOK', DismissedIsOff, Evolves(helpers, helpers'), daemon' = daemon,
         \A g \in Generations :
           /\ Alive(g)' /\ ~helpers'[g].left /\ supervisor'.helper.generation # g
              /\ supervisor.helper.generation = g /\ daemon # "closed" => Off(g)'
           /\ Held(g) /\ Alive(g)' => Held(g)'
  PROVE  DismissedIsOff'
<1> SUFFICES ASSUME daemon # "closed", NEW g \in Generations, Alive(g)', ~helpers'[g].left,
                    supervisor'.helper.generation # g
             PROVE  Off(g)'
  BY DEF DismissedIsOff
<1>1. CASE supervisor.helper.generation = g
  BY <1>1
<1>2. CASE supervisor.helper.generation # g
  <2>1. Alive(g) /\ ~helpers[g].left
    BY DEF Evolves, Alive, Lives
  <2>2. Off(g)
    BY <1>2, <2>1 DEF DismissedIsOff
  <2>3. helpers[g].window = "unmanaged" => helpers'[g].window = "unmanaged"
    BY DEF Evolves, Alive, Lives
  <2> QED
    BY <2>2, <2>3 DEF Off
<1> QED
  BY <1>1, <1>2

(* An answer is held back until the exit, or the daemon's next event. *)
LEMMA HeldTail ==
  ASSUME TypeOK, queue # <<>>, queue' = Tail(queue), UNCHANGED <<daemon, calls>>, NEW g
  PROVE  /\ OfHelper(Head(queue)) /\ supervisor'.pending = supervisor.pending /\ Held(g)
              => Held(g)'
         /\ OfDaemon(Head(queue)) /\ Head(queue).event # "force" => ~Held(g)
<1>1. PICK c : c = supervisor.pending.reply
  OBVIOUS
<1>2. ASSUME OfHelper(Head(queue)), supervisor'.pending = supervisor.pending, Held(g)
      PROVE  Held(g)'
  <2>1. Given(0, c)
    BY <1>1, <1>2 DEF Held
  <2>2. Given(0, c)'
    BY <1>2, <2>1, GivenTail
  <2> QED
    BY <1>1, <1>2, <2>2 DEF Held, Given
<1>3. ASSUME OfDaemon(Head(queue)), Head(queue).event # "force" PROVE ~Held(g)
  BY <1>1, <1>3, GivenTail DEF Held
<1> QED
  BY <1>2, <1>3
--------------------------------------------------------------------------------
(* The presenter takes the next event. *)
Takes == queue # <<>> /\ queue' = Tail(queue) /\ UNCHANGED <<daemon, calls, updates, wanted>>

(* The types after an event was handled. *)
LEMMA TailType ==
  ASSUME TypeOK, Takes, answer' \in [call : 0..MaxDismissals, ok : BOOLEAN],
         supervisor' \in Supervisors, helpers' \in [Generations -> Processes],
         unavailable' \in BOOLEAN, failures' \in 0..MaxFailures
  PROVE  TypeOK'
<1>1. /\ Tail(queue) \in Seq(Events) /\ Len(Tail(queue)) = Len(queue) - 1
      /\ Len(queue) \in Nat /\ Len(queue) <= MaxQueue
  BY Tailed DEF TypeOK, Takes
<1>2. queue' \in Seq(Events) /\ Len(queue') <= MaxQueue
  BY <1>1, Bounds DEF Takes
<1> QED
  BY <1>2 DEF TypeOK, Takes

(* A handler that launches nothing, and leaves the helper or gives it up closed, keeps
      the invariant. *)
LEMMA SettleInv ==
  ASSUME Inv, TypeOK', Takes, Evolves(helpers, helpers'), StoppedHasNone',
         supervisor'.generation = supervisor.generation,
         supervisor'.restarts <= supervisor.restarts \/ Head(queue).event = "update",
         supervisor'.pending.generation \in
           {0, supervisor.pending.generation, supervisor.helper.generation},
         \/ supervisor'.pending.reply \in {0, supervisor.pending.reply}
         \/ Head(queue).event = "dismiss" /\ supervisor'.pending.reply = Head(queue).call,
         supervisor'.closed = supervisor.closed \/ Head(queue).event = "closed",
         \/ supervisor'.helper = supervisor.helper /\ Head(queue).event # "dismiss"
         \/ /\ supervisor'.helper = NoHelper
            /\ \A g \in Generations :
                 supervisor.helper.generation = g /\ Alive(g)' => ~helpers'[g].input,
         \A g \in Generations :
           /\ Alive(g)' /\ ~helpers'[g].left /\ supervisor'.helper.generation # g
              /\ supervisor.helper.generation = g /\ daemon # "closed" => Off(g)'
           /\ Held(g) /\ Alive(g)' => Held(g)',
         AnswerIsSafe' /\ PasteAtRest'
  PROVE  Inv'
<1>1. TypeOK /\ Known /\ Budget /\ queue # <<>> /\ queue' = Tail(queue)
  BY DEF Inv, Takes
<1>2. UNCHANGED <<daemon, calls>> /\ updates' = updates
  BY DEF Takes
<1>3. Known'
  BY <1>1, SettlesKnown
<1>4. Budget'
  <2>1. /\ supervisor.generation \in Nat /\ supervisor.restarts \in Nat
        /\ supervisor'.restarts \in 0..1
    BY <1>1, SupervisorFields DEF TypeOK, AutomaticRestartLimit
  <2>2. supervisor'.generation + supervisor'.restarts <=
           supervisor.generation + supervisor.restarts
             + (IF Head(queue).event = "update" THEN 2 ELSE 0)
    BY <2>1
  <2> QED
    BY <1>1, <1>2, <2>2, BudgetKept
<1>5. CallsInOrder' /\ ReplyIsOld'
  BY <1>1, <1>2, CallsTail DEF Inv, Dialogue
<1>6. ClosedIsLast'
  BY <1>1, <1>2, ClosedTail DEF Inv, Dialogue
<1>7. WaitIsServed'
  <2>1. NoHelper.generation = 0
    BY DEF NoHelper
  <2> QED
    BY <1>1, <1>2, <2>1, WaitTail DEF Inv, Dialogue
<1>8. DismissedIsOff'
  BY <1>1, <1>2, OffKept DEF Inv, Dialogue
<1> QED
  BY <1>3, <1>4, <1>5, <1>6, <1>7, <1>8 DEF Inv, Dialogue

(* A handler that launches keeps the invariant, when it was paid for and no helper was
      left open. *)
LEMMA LaunchInv ==
  ASSUME Inv, Takes, answer' = answer,
         NEW s \in Supervisors, NEW hs \in [Generations -> Processes],
         s.generation = supervisor.generation, s.helper.generation = 0,
         s.pending = supervisor.pending, s.closed = supervisor.closed,
         Evolves(helpers, hs),
         \A g \in Generations : Lives(hs[g]) => ~hs[g].input /\ supervisor.helper.generation # g,
         \/ Head(queue).event = "update"
         \/ /\ OfHelper(Head(queue)) /\ supervisor.helper.generation # 0
            /\ supervisor.restarts # 0 /\ s.restarts = supervisor.restarts - 1,
         Launch(s, hs)
  PROVE  Inv'
<1>1. TypeOK /\ Known /\ Budget /\ queue # <<>> /\ queue' = Tail(queue)
  BY DEF Inv, Takes
<1>2. UNCHANGED <<daemon, calls>> /\ updates' = updates
  BY DEF Takes
<1>3. s.generation + 1 \in Generations
  BY <1>1, LaunchFits
<1>4. /\ supervisor' \in Supervisors /\ helpers' \in [Generations -> Processes]
      /\ unavailable' \in BOOLEAN /\ failures' \in 0..MaxFailures
      /\ supervisor'.generation = s.generation + 1 /\ supervisor'.pending = s.pending
      /\ supervisor'.restarts = s.restarts /\ supervisor'.closed = s.closed
      /\ \/ /\ supervisor'.helper = [NoHelper EXCEPT !.generation = s.generation + 1]
            /\ helpers' = [hs EXCEPT ![s.generation + 1] =
                             [NoProcess EXCEPT !.at = "starts", !.input = TRUE]]
         \/ supervisor'.helper = s.helper /\ helpers' = hs
  BY <1>1, <1>3, LaunchType
<1>5. answer' \in [call : 0..MaxDismissals, ok : BOOLEAN]
  BY <1>1 DEF TypeOK
<1>6. TypeOK'
  BY <1>1, <1>4, <1>5, TailType
<1>7. Known'
  BY <1>1, <1>3, <1>6, LaunchKnown
<1>8. Budget'
  <2>1. /\ supervisor.generation \in Nat /\ supervisor.restarts \in Nat
        /\ supervisor'.restarts \in 0..1
    BY <1>1, <1>4, SupervisorFields DEF TypeOK, AutomaticRestartLimit
  <2>2. Head(queue).event # "update" =>
          supervisor'.generation + supervisor'.restarts <=
            supervisor.generation + supervisor.restarts
    BY <1>4, <2>1
  <2>3. supervisor'.generation + supervisor'.restarts <=
           supervisor.generation + supervisor.restarts
             + (IF Head(queue).event = "update" THEN 2 ELSE 0)
    BY <1>4, <2>1, <2>2
  <2> QED
    BY <1>1, <1>2, <1>6, <2>3, BudgetKept
<1>9. CallsInOrder' /\ ReplyIsOld'
  BY <1>1, <1>2, <1>4, <1>6, CallsTail DEF Inv, Dialogue
<1>10. ClosedIsLast'
  BY <1>1, <1>2, <1>4, ClosedTail DEF Inv, Dialogue
<1>11. Head(queue).event = "update" =>
         Head(queue).event # "dismiss" /\ ~OfHelper(Head(queue)) /\ OfDaemon(Head(queue))
  BY DEF OfHelper, OfDaemon
<1>12. OfHelper(Head(queue)) => Head(queue).event # "dismiss"
  BY DEF OfHelper
<1>13. WaitIsServed'
  BY <1>1, <1>2, <1>11, <1>12, WaitTail DEF Inv, Dialogue
<1>14. ~AtRest
  <2>1. SilentAfter(queue, 0) => OfHelper(Head(queue))
    BY <1>1, TailSkips DEF TypeOK
  <2> QED
    BY <1>11, <2>1 DEF AtRest
<1>15. AnswerIsSafe' /\ PasteAtRest'
  BY <1>2, <1>14, AnswerKept DEF Inv, Dialogue
<1>16. DismissedIsOff'
  <2> SUFFICES ASSUME daemon # "closed", NEW g \in Generations, Alive(g)', ~helpers'[g].left,
                      supervisor'.helper.generation # g
               PROVE  Off(g)'
    BY <1>2 DEF DismissedIsOff
  <2>1. helpers'[g] = hs[g]
    <3>1. [NoHelper EXCEPT !.generation = s.generation + 1].generation = s.generation + 1
      BY DEF NoHelper
    <3> QED
      BY <1>4, <3>1
  <2>2. Lives(hs[g]) /\ ~hs[g].left
    BY <2>1 DEF Alive, Lives
  <2>3. Alive(g) /\ ~helpers[g].left /\ supervisor.helper.generation # g
    BY <2>2 DEF Evolves, Alive, Lives
  <2>4. Off(g)
    BY <2>3 DEF Inv, Dialogue, DismissedIsOff
  <2>5. helpers[g].window = "unmanaged" => helpers'[g].window = "unmanaged"
    BY <2>1, <2>2 DEF Evolves
  <2>6. Head(queue).event = "update" => ~Held(g)
    BY <1>1, <1>2, <1>11, HeldTail
  <2>7. OfHelper(Head(queue)) /\ Held(g) => Held(g)'
    BY <1>1, <1>2, <1>4, HeldTail
  <2> QED
    BY <2>4, <2>5, <2>6, <2>7 DEF Off
<1> QED
  BY <1>6, <1>7, <1>8, <1>9, <1>10, <1>13, <1>15, <1>16 DEF Inv, Dialogue

(* A handler that answers nothing keeps what the daemon relies on. *)
LEMMA QuietRest ==
  ASSUME Inv, TypeOK', Takes, answer' = answer, Evolves(helpers, helpers'),
         OfDaemon(Head(queue)) \/ supervisor'.helper = supervisor.helper
           \/ supervisor'.helper = NoHelper
  PROVE  AnswerIsSafe' /\ PasteAtRest'
<1>1. TypeOK /\ queue # <<>> /\ queue' = Tail(queue) /\ UNCHANGED <<daemon, calls>>
  BY DEF Inv, Takes
<1>2. OfDaemon(Head(queue)) => ~OfHelper(Head(queue))
  BY DEF OfDaemon, OfHelper
<1>3. NoHelper.generation = 0
  BY DEF NoHelper
<1>4. AtRest => AtRest'
  BY <1>1, <1>2, <1>3, RestTail
<1> QED
  BY <1>1, <1>4, AnswerKept DEF Inv, Dialogue

(* An update that launches nothing keeps the invariant. *)
LEMMA UpdateSettles ==
  ASSUME Inv, TypeOK', Takes, answer' = answer, Head(queue).event = "update",
         Evolves(helpers, helpers'), StoppedHasNone',
         supervisor'.generation = supervisor.generation,
         supervisor'.pending = supervisor.pending, supervisor'.closed = supervisor.closed,
         \/ supervisor'.helper = supervisor.helper
         \/ /\ supervisor'.helper = NoHelper
            /\ \A g \in Generations :
                 supervisor.helper.generation = g => ~helpers'[g].input /\ helpers'[g].left
  PROVE  Inv'
<1>1. TypeOK /\ queue # <<>> /\ queue' = Tail(queue) /\ UNCHANGED <<daemon, calls>>
  BY DEF Inv, Takes
<1>2. OfDaemon(Head(queue)) /\ Head(queue).event \notin {"dismiss", "force"}
  BY DEF OfDaemon
<1>3. AnswerIsSafe' /\ PasteAtRest'
  BY <1>2, QuietRest
<1>4. \A g : ~Held(g)
  BY <1>1, <1>2, HeldTail
<1>5. /\ supervisor'.pending.generation = supervisor.pending.generation
      /\ supervisor'.pending.reply = supervisor.pending.reply
  OBVIOUS
<1> QED
  BY <1>2, <1>3, <1>4, <1>5, SettleInv
--------------------------------------------------------------------------------
(* Helpers that do nothing go on. *)
LEMMA EvolvesSame ==
  ASSUME TypeOK, StartsUnseen
  PROVE  Evolves(helpers, helpers)
BY DEF Evolves, StartsUnseen

(* The supervisor after it took note of an update. *)
Updated(state) ==
  [supervisor EXCEPT !.notice = state = "notice",
                     !.last = IF state = "hidden" THEN "none" ELSE state,
                     !.restarts = IF state = "hidden" THEN 0 ELSE AutomaticRestartLimit]

(* What an update comes to: nothing for the helpers, the helper leaves, the first launch,
      or another one in place of a helper that no longer listens. *)
LEMMA UpdateCases ==
  ASSUME NEW state, HandleUpdate(state), NEW s, s = Updated(state),
         NEW g, g = s.helper.generation
  PROVE  \/ /\ supervisor' = supervisor \/ supervisor' = s
            /\ UNCHANGED <<helpers, unavailable, failures>>
         \/ /\ supervisor' = [s EXCEPT !.running = FALSE, !.helper = NoHelper]
            /\ helpers' = Leaves(Finish(helpers, g), g)
            /\ UNCHANGED <<unavailable, failures>>
         \/ ~supervisor.running /\ Launch(s, helpers)
         \/ Launch([s EXCEPT !.helper = NoHelper], Terminate(helpers, g))
<1> DEFINE hidden == state = "hidden"
           sends == g # 0 /\ Alive(g) /\ helpers[g].input
           off == [s EXCEPT !.running = FALSE, !.helper = NoHelper]
           closing == Leaves(Finish(helpers, g), g)
           again == Launch([s EXCEPT !.helper = NoHelper], Terminate(helpers, g))
           first == Launch(s, helpers)
<1>1. \/ /\ hidden /\ (supervisor.notice \/ ~supervisor.running)
         /\ supervisor' = (IF supervisor.notice THEN supervisor ELSE s)
         /\ UNCHANGED <<helpers, unavailable, failures>>
      \/ /\ hidden /\ ~supervisor.notice /\ supervisor.running
         /\ supervisor' = off /\ helpers' = closing
         /\ UNCHANGED <<unavailable, failures>>
      \/ ~hidden /\ ~supervisor.running /\ first
      \/ /\ ~hidden /\ supervisor.running /\ sends
         /\ supervisor' = s /\ UNCHANGED <<helpers, unavailable, failures>>
      \/ ~hidden /\ supervisor.running /\ ~sends /\ again
  BY Zenon DEF HandleUpdate, Updated
<1> HIDE DEF hidden, sends, off, closing, again, first
<1>2. \/ (supervisor' = supervisor \/ supervisor' = s) /\ UNCHANGED <<helpers, unavailable, failures>>
      \/ supervisor' = off /\ helpers' = closing /\ UNCHANGED <<unavailable, failures>>
      \/ ~supervisor.running /\ first
      \/ again
  BY <1>1
<1> QED
  BY Zenon, <1>2 DEF off, closing, again, first

(* An update keeps the invariant. *)
LEMMA UpdateInv ==
  ASSUME Inv, Takes, answer' = answer, NEW state \in States,
         Head(queue).event = "update", HandleUpdate(state)
  PROVE  Inv'
<1> DEFINE s == Updated(state)
           g == supervisor.helper.generation
<1>1. TypeOK /\ Known /\ StartsUnseen /\ Evolves(helpers, helpers)
  BY EvolvesSame DEF Inv, Known
<1>2. /\ supervisor \in Supervisors /\ helpers \in [Generations -> Processes]
      /\ unavailable \in BOOLEAN /\ failures \in 0..MaxFailures
      /\ answer' \in [call : 0..MaxDismissals, ok : BOOLEAN]
  BY <1>1 DEF TypeOK
<1>3. s \in Supervisors
  <2>1. /\ (state = "notice") \in BOOLEAN
        /\ (IF state = "hidden" THEN "none" ELSE state) \in {"none", "busy", "notice"}
        /\ (IF state = "hidden" THEN 0 ELSE AutomaticRestartLimit) \in 0..AutomaticRestartLimit
    BY DEF States, AutomaticRestartLimit
  <2> QED
    BY <1>2, <2>1 DEF Supervisors, Updated
<1>4. /\ s.generation = supervisor.generation /\ s.pending = supervisor.pending
      /\ s.helper = supervisor.helper
  BY <1>2 DEF Supervisors, Updated
<1>5. s.running = supervisor.running /\ s.closed = supervisor.closed
  BY <1>2 DEF Supervisors, Updated
<1>6. s.helper.generation = g /\ g \in {0} \cup Generations
  BY <1>2, <1>4, SupervisorFields
<1>7. g = 0 \/ supervisor.running
  BY <1>1 DEF Known, StoppedHasNone
<1> HIDE DEF s
<1>8. \/ /\ supervisor' = supervisor \/ supervisor' = s
         /\ UNCHANGED <<helpers, unavailable, failures>>
      \/ /\ supervisor' = [s EXCEPT !.running = FALSE, !.helper = NoHelper]
         /\ helpers' = Leaves(Finish(helpers, g), g)
         /\ UNCHANGED <<unavailable, failures>>
      \/ ~supervisor.running /\ Launch(s, helpers)
      \/ Launch([s EXCEPT !.helper = NoHelper], Terminate(helpers, g))
  <2>1. s = Updated(state) /\ g = s.helper.generation
    BY <1>6 DEF s
  <2> HIDE DEF g
  <2> QED
    BY <2>1, UpdateCases
<1>9. StoppedHasNone
  BY <1>1 DEF Known
<1>10. CASE /\ supervisor' = supervisor \/ supervisor' = s
            /\ UNCHANGED <<helpers, unavailable, failures>>
  <2>1. supervisor' \in {supervisor, s}
    BY <1>10
  <2>2. TypeOK'
    BY <1>1, <1>2, <1>3, <1>10, <2>1, TailType
  <2>3. /\ supervisor'.generation = supervisor.generation
        /\ supervisor'.pending = supervisor.pending /\ supervisor'.closed = supervisor.closed
        /\ supervisor'.helper = supervisor.helper /\ supervisor'.running = supervisor.running
    BY <1>4, <1>5, <2>1
  <2>4. StoppedHasNone'
    BY <1>9, <2>3 DEF StoppedHasNone
  <2> QED
    BY <1>1, <1>10, <2>2, <2>3, <2>4, UpdateSettles
<1>11. CASE /\ supervisor' = [s EXCEPT !.running = FALSE, !.helper = NoHelper]
            /\ helpers' = Leaves(Finish(helpers, g), g)
            /\ UNCHANGED <<unavailable, failures>>
  <2>1. NoHelper \in Helpers
    BY DEF NoHelper, Helpers
  <2>2. /\ supervisor' \in Supervisors /\ supervisor'.helper = NoHelper
        /\ supervisor'.generation = supervisor.generation
        /\ supervisor'.pending = supervisor.pending
    BY <1>3, <1>4, <1>11, <2>1 DEF Supervisors
  <2>3. supervisor'.closed = supervisor.closed
    BY <1>3, <1>5, <1>11, <2>1 DEF Supervisors
  <2>4. /\ helpers' \in [Generations -> Processes] /\ Evolves(helpers, helpers')
        /\ g # 0 => ~helpers'[g].input /\ helpers'[g].left
    BY <1>1, <1>6, <1>11, LeftOff
  <2>5. TypeOK'
    BY <1>1, <1>2, <1>11, <2>2, <2>4, TailType
  <2>6. StoppedHasNone'
    BY <2>2 DEF StoppedHasNone, NoHelper
  <2>7. \A h \in Generations : supervisor.helper.generation = h =>
          ~helpers'[h].input /\ helpers'[h].left
    BY <2>4, Bounds
  <2> QED
    BY <2>2, <2>3, <2>4, <2>5, <2>6, <2>7, UpdateSettles
<1>12. CASE ~supervisor.running /\ Launch(s, helpers)
  <2>1. g = 0
    BY <1>5, <1>7, <1>12
  <2>2. \A h \in Generations : Lives(helpers[h]) =>
          ~helpers[h].input /\ supervisor.helper.generation # h
    BY <1>1, <2>1, Bounds DEF Known, OpenHelperIsOwned, Alive, Lives
  <2> QED
    BY <1>1, <1>2, <1>3, <1>4, <1>5, <1>6, <1>12, <2>1, <2>2, LaunchInv
<1>13. CASE Launch([s EXCEPT !.helper = NoHelper], Terminate(helpers, g))
  <2> DEFINE next == [s EXCEPT !.helper = NoHelper]
             hs == Terminate(helpers, g)
  <2>1. NoHelper \in Helpers /\ NoHelper.generation = 0
    BY DEF NoHelper, Helpers
  <2>2. /\ next \in Supervisors /\ next.helper = NoHelper
        /\ next.generation = supervisor.generation /\ next.pending = supervisor.pending
    BY <1>3, <1>4, <2>1 DEF Supervisors
  <2>3. next.closed = supervisor.closed
    BY <1>3, <1>5, <2>1 DEF Supervisors
  <2>4. /\ hs \in [Generations -> Processes] /\ Evolves(helpers, hs)
        /\ g # 0 => ~Lives(hs[g])
    BY <1>1, <1>6, Terminated
  <2>5. Launch(next, hs)
    BY <1>13
  <2> HIDE DEF next, hs
  <2>6. ASSUME NEW h \in Generations, Lives(hs[h])
        PROVE  ~hs[h].input /\ supervisor.helper.generation # h
    <3>1. supervisor.helper.generation # h
      BY <2>4, <2>6, Bounds
    <3>2. hs[h].input => helpers[h].input /\ Lives(helpers[h])
      BY <2>4, <2>6 DEF Evolves
    <3> QED
      BY <1>1, <3>1, <3>2 DEF Known, OpenHelperIsOwned, Alive, Lives
  <2> QED
    BY <2>1, <2>2, <2>3, <2>4, <2>5, <2>6, LaunchInv
<1> QED
  BY <1>8, <1>10, <1>11, <1>12, <1>13

(* What a stopped supervisor keeps. *)
LEMMA StoppedFields ==
  ASSUME NEW s \in Supervisors
  PROVE  /\ Stopped(s) \in Supervisors /\ ~Stopped(s).running
         /\ Stopped(s).generation = s.generation /\ Stopped(s).pending = s.pending
         /\ Stopped(s).helper = s.helper /\ Stopped(s).closed = s.closed
         /\ Stopped(s).restarts = 0
<1>1. PICK off \in BOOLEAN : off = FALSE
  OBVIOUS
<1> DEFINE zero == 0
<1>5. zero \in 0..AutomaticRestartLimit
  BY DEF AutomaticRestartLimit
<1> HIDE DEF zero
<1>2. Stopped(s) = [s EXCEPT !.running = off, !.last = "none", !.restarts = zero, !.notice = off]
  BY <1>1 DEF Stopped, zero
<1>3. /\ Stopped(s) \in Supervisors /\ Stopped(s).running = off
      /\ Stopped(s).generation = s.generation /\ Stopped(s).pending = s.pending
      /\ Stopped(s).helper = s.helper /\ Stopped(s).restarts = zero
  BY <1>2, <1>5 DEF Supervisors
<1>4. Stopped(s).closed = s.closed
  BY <1>2 DEF Supervisors
<1> QED
  BY <1>1, <1>3, <1>4 DEF zero
--------------------------------------------------------------------------------
(* An answer has the number of a dismissal. *)
LEMMA AnswerType ==
  ASSUME TypeOK, NEW call \in 1..MaxDismissals, NEW ok \in BOOLEAN, Answers(call, ok)
  PROVE  answer' \in [call : 0..MaxDismissals, ok : BOOLEAN]
BY Bounds DEF TypeOK, Answers

(* An answer that is only given at rest keeps what the daemon relies on. *)
LEMMA AnswersSafely ==
  ASSUME Inv, TypeOK', Takes, NEW call, NEW ok, Answers(call, ok),
         Evolves(helpers, helpers'),
         OfDaemon(Head(queue)) \/ supervisor'.helper = supervisor.helper,
         daemon = "waits" /\ call = calls => AtRest'
  PROVE  AnswerIsSafe' /\ PasteAtRest'
<1>1. CASE daemon = "waits" /\ call = calls
  <2>1. answer' = [call |-> call, ok |-> ok] /\ AtRest' /\ daemon' = "waits" /\ calls' = calls
    BY <1>1 DEF Answers, Takes
  <2> QED
    BY <1>1, <2>1 DEF AnswerIsSafe, PasteAtRest
<1>2. CASE ~(daemon = "waits" /\ call = calls)
  BY <1>2, QuietRest DEF Answers
<1> QED
  BY <1>1, <1>2

(* A dismissal keeps the invariant: what may take the focus holds its answer back. *)
LEMMA DismissInv ==
  ASSUME Inv, Takes, Head(queue).event = "dismiss", NEW call \in 1..MaxDismissals,
         call = Head(queue).call, Dismiss(call)
  PROVE  Inv'
<1> DEFINE g == supervisor.helper.generation
           s == [Stopped(supervisor) EXCEPT !.helper = NoHelper]
           waits == g # 0 /\ ~supervisor.helper.unmanaged
           left == [generation |-> g, reply |-> IF supervisor.helper.unmanaged THEN 0 ELSE call]
<1>1. TypeOK /\ Known /\ StartsUnseen /\ queue # <<>> /\ queue' = Tail(queue)
      /\ UNCHANGED <<daemon, calls>>
  BY DEF Inv, Known, Takes
<1>2. OfDaemon(Head(queue)) /\ Head(queue).event \notin {"force", "update"}
      /\ ~OfHelper(Head(queue))
  BY DEF OfDaemon, OfHelper
<1>3. supervisor \in Supervisors /\ g \in {0} \cup Generations
      /\ supervisor.helper.unmanaged \in BOOLEAN
  <2>1. supervisor \in Supervisors
    BY <1>1 DEF TypeOK
  <2>2. supervisor.helper \in Helpers /\ g \in {0} \cup Generations
    BY <2>1, SupervisorFields
  <2> QED
    BY <2>1, <2>2 DEF Helpers
<1>4. /\ s \in Supervisors /\ s.helper = NoHelper /\ ~s.running
      /\ s.generation = supervisor.generation /\ s.pending = supervisor.pending
      /\ s.closed = supervisor.closed /\ s.restarts = 0
  <2>1. NoHelper \in Helpers
    BY DEF NoHelper, Helpers
  <2>2. /\ Stopped(supervisor) \in Supervisors /\ ~Stopped(supervisor).running
        /\ Stopped(supervisor).generation = supervisor.generation
        /\ Stopped(supervisor).pending = supervisor.pending
        /\ Stopped(supervisor).closed = supervisor.closed /\ Stopped(supervisor).restarts = 0
    BY <1>3, StoppedFields
  <2>3. /\ s \in Supervisors /\ s.helper = NoHelper
        /\ s.generation = supervisor.generation /\ s.pending = supervisor.pending
        /\ s.restarts = 0
    BY <2>1, <2>2 DEF Supervisors
  <2>4. s.running = Stopped(supervisor).running /\ s.closed = Stopped(supervisor).closed
    BY <2>1, <2>2 DEF Supervisors
  <2> QED
    BY <2>2, <2>3, <2>4
<1>5. /\ IF g = 0 THEN supervisor' = s ELSE supervisor' = [s EXCEPT !.pending = left]
      /\ helpers' = Finish(helpers, g)
      /\ IF g = 0 \/ supervisor.helper.unmanaged THEN Answers(call, TRUE) ELSE answer' = answer
      /\ UNCHANGED <<unavailable, failures>>
  BY Zenon DEF Dismiss
<1>6. g # 0 => left \in Dismissals /\ left.generation = g
      /\ left.reply = (IF supervisor.helper.unmanaged THEN 0 ELSE call)
  BY <1>3, Bounds DEF Dismissals
<1> HIDE DEF s, left
<1>7. /\ supervisor' \in Supervisors /\ supervisor'.helper = NoHelper
      /\ supervisor'.generation = supervisor.generation /\ supervisor'.restarts = 0
      /\ supervisor'.pending = IF g = 0 THEN supervisor.pending ELSE left
  <2>1. CASE g = 0
    BY <1>4, <1>5, <2>1
  <2>2. CASE g # 0
    BY <1>4, <1>5, <1>6, <2>2 DEF Supervisors
  <2> QED
    BY <2>1, <2>2
<1>8. ~supervisor'.running /\ supervisor'.closed = supervisor.closed
  <2>1. CASE g = 0
    BY <1>4, <1>5, <2>1
  <2>2. CASE g # 0
    BY <1>4, <1>5, <1>6, <2>2 DEF Supervisors
  <2> QED
    BY <2>1, <2>2
<1>9. /\ helpers' \in [Generations -> Processes] /\ Evolves(helpers, helpers')
      /\ g # 0 => ~helpers'[g].input
      /\ g # 0 => /\ helpers'[g].at = helpers[g].at /\ helpers'[g].window = helpers[g].window
                  /\ helpers'[g].left = helpers[g].left
  <2>1. g # 0 => g \in Generations
    BY <1>3
  <2> QED
    BY <1>1, <1>3, <1>5, <2>1, Finished
<1>10. answer' \in [call : 0..MaxDismissals, ok : BOOLEAN]
  BY <1>1, <1>5, AnswerType DEF TypeOK
<1>11. TypeOK'
  BY <1>1, <1>5, <1>7, <1>9, <1>10, TailType DEF TypeOK
<1>12. \A h : ~Held(h)
  BY <1>1, <1>2, HeldTail
<1>13. ASSUME NEW h \in Generations, Alive(h)', ~helpers'[h].left, daemon # "closed", ~waits
       PROVE  ~helpers'[h].input /\ helpers'[h].window = "unmanaged"
  <2>1. Alive(h) /\ ~helpers[h].left /\ (helpers'[h].input => helpers[h].input)
        /\ (helpers[h].window = "unmanaged" => helpers'[h].window = "unmanaged")
    BY <1>9, <1>13 DEF Evolves, Alive, Lives
  <2>2. CASE h = g
    <3>1. g # 0 /\ supervisor.helper.unmanaged
      BY <1>13, <2>2, Bounds
    <3>2. helpers[h].window = "unmanaged"
      BY <1>1, <2>1, <2>2, <3>1 DEF Known, UnmanagedIsTrue
    <3> QED
      BY <1>9, <2>1, <2>2, <3>1, <3>2
  <2>3. CASE h # g
    <3>1. Off(h)
      BY <1>13, <2>1, <2>3 DEF Inv, Dialogue, DismissedIsOff
    <3>2. ~helpers[h].input
      BY <1>1, <2>1, <2>3 DEF Known, OpenHelperIsOwned
    <3> QED
      BY <1>12, <2>1, <3>1, <3>2 DEF Off
  <2> QED
    BY <2>2, <2>3
<1>14. ASSUME daemon = "waits", call = calls, ~waits PROVE AtRest'
  <2>1. SilentAfter(queue', 0)
    <3>1. /\ Head(queue) = queue[1] /\ 1 \in 1..Len(queue) /\ Len(queue) \in Nat
          /\ queue \in Seq(Events)
      BY <1>1, Tailed DEF TypeOK
    <3>2. ~SilentAfter(queue, 0)
      BY <1>1, <1>2, TailSkips DEF TypeOK
    <3>3. PICK n \in 1..Len(queue) :
            queue[n].event = "dismiss" /\ queue[n].call = calls /\ SilentAfter(queue, n)
      BY <1>14, <3>2 DEF Inv, Dialogue, WaitIsServed
    <3>4. n = 1
      <4> SUFFICES ASSUME n # 1 PROVE FALSE
        OBVIOUS
      <4>1. 1 \in 1..n - 1
        BY <3>1
      <4>2. queue[1].call < queue[n].call
        BY <3>1, <3>3, <4>1 DEF Inv, Dialogue, CallsInOrder, CallAt
      <4>3. queue[1].call = calls /\ calls \in Nat
        BY <1>1, <1>14, <3>1, Bounds DEF TypeOK
      <4> QED
        BY <3>3, <4>2, <4>3
    <3>5. 0 \in 0..Len(queue) - 1 /\ SilentAfter(queue, 0 + 1)
      BY <3>1, <3>3, <3>4
    <3> QED
      BY <1>1, <3>1, <3>5, TailShifts
  <2>2. AllOff'
    BY <1>13, <1>14 DEF AllOff
  <2>3. supervisor'.helper.generation = 0
    BY <1>7 DEF NoHelper
  <2> QED
    BY <2>1, <2>2, <2>3 DEF AtRest
<1>15. AnswerIsSafe' /\ PasteAtRest'
  <2>1. CASE waits
    <3>1. answer' = answer
      BY <1>5, <2>1
    <3> QED
      BY <1>2, <1>9, <1>11, <3>1, QuietRest
  <2>2. CASE ~waits
    <3>1. Answers(call, TRUE)
      BY <1>5, <2>2
    <3> QED
      BY <1>2, <1>9, <1>11, <1>14, <2>2, <3>1, AnswersSafely
  <2> QED
    BY <2>1, <2>2
<1>16. ASSUME NEW h \in Generations, Alive(h)', ~helpers'[h].left, g = h, daemon # "closed"
       PROVE  Off(h)'
  <2>1. CASE ~waits
    BY <1>13, <1>16, <2>1 DEF Off
  <2>2. CASE waits
    <3>1. supervisor'.pending.generation = h /\ supervisor'.pending.reply = call
      BY <1>6, <1>7, <1>16, <2>2
    <3>2. Given(1, call)
      <4>1. queue[1] = Head(queue) /\ 1 \in 1..Len(queue)
        BY <1>1, Tailed DEF TypeOK
      <4> QED
        BY <4>1 DEF Inv, Dialogue, CallsInOrder, CallAt
    <3>3. Given(0, call)'
      <4>1. 0 \in 0..Len(queue) - 1 /\ 0 + 1 = 1
        BY <1>1, Tailed DEF TypeOK
      <4> QED
        BY <1>1, <3>2, <4>1, GivenTail
    <3> QED
      BY <3>1, <3>3 DEF Off, Held, Given
  <2> QED
    BY <2>1, <2>2
<1>17. StoppedHasNone'
  BY <1>7 DEF StoppedHasNone, NoHelper
<1>18. \A h \in Generations : g = h /\ Alive(h)' => ~helpers'[h].input
  BY <1>9, Bounds
<1>19. supervisor'.pending.generation \in {0, supervisor.pending.generation, g}
  BY <1>6, <1>7
<1>20. supervisor'.pending.reply \in {0, supervisor.pending.reply} \/ supervisor'.pending.reply = call
  BY <1>6, <1>7
<1>21. supervisor'.restarts <= supervisor.restarts
  BY <1>3, <1>7, SupervisorFields
<1> QED
  BY <1>7, <1>8, <1>9, <1>11, <1>12, <1>15, <1>16, <1>17, <1>18, <1>19, <1>20, <1>21, SettleInv

(* Killing a dismissed helper keeps the invariant. *)
LEMMA ForceInv ==
  ASSUME Inv, Takes, Head(queue).event = "force", ForceDismiss
  PROVE  Inv'
<1> DEFINE g == supervisor.pending.generation
<1>1. TypeOK /\ Known /\ StartsUnseen
  BY DEF Inv, Known
<1>2. OfDaemon(Head(queue)) /\ Head(queue).event \notin {"dismiss", "update", "closed"}
  BY DEF OfDaemon
<1>3. g \in {0} \cup Generations /\ supervisor.restarts \in Nat
  BY <1>1, SupervisorFields DEF TypeOK
<1>4. /\ helpers' \in [Generations -> Processes] /\ Evolves(helpers, helpers')
      /\ g # 0 => ~Lives(helpers'[g])
  BY <1>1, <1>3, Terminated DEF ForceDismiss
<1>5. UNCHANGED <<supervisor, unavailable, answer, failures>>
  BY DEF ForceDismiss
<1>6. TypeOK'
  BY <1>1, <1>4, <1>5, TailType DEF TypeOK
<1>7. AnswerIsSafe' /\ PasteAtRest'
  BY <1>2, <1>4, <1>5, <1>6, QuietRest
<1>8. \A h \in Generations : Held(h) => ~Alive(h)'
  BY <1>4, Bounds DEF Held, Alive, Lives
<1>9. StoppedHasNone'
  BY <1>1, <1>5 DEF Known, StoppedHasNone
<1>10. supervisor'.restarts <= supervisor.restarts
  BY <1>3, <1>5
<1> QED
  BY <1>2, <1>4, <1>5, <1>6, <1>7, <1>8, <1>9, <1>10, SettleInv

(* A status or an exit after which no helper is launched keeps the invariant. *)
LEMMA HelperSettles ==
  ASSUME Inv, TypeOK', Takes, OfHelper(Head(queue)), Evolves(helpers, helpers'),
         StoppedHasNone', answer' = answer,
         supervisor'.generation = supervisor.generation,
         supervisor'.restarts <= supervisor.restarts,
         supervisor'.pending = supervisor.pending, supervisor'.closed = supervisor.closed,
         \/ supervisor'.helper = supervisor.helper
         \/ /\ supervisor'.helper = NoHelper
            /\ \A g \in Generations : supervisor.helper.generation = g => ~Alive(g)'
  PROVE  Inv'
<1>1. TypeOK /\ queue # <<>> /\ queue' = Tail(queue) /\ UNCHANGED <<daemon, calls>>
  BY DEF Inv, Takes
<1>2. Head(queue).event \notin {"dismiss", "update", "closed", "force"}
  BY DEF OfHelper
<1>3. AnswerIsSafe' /\ PasteAtRest'
  BY QuietRest
<1>4. \A g : Held(g) => Held(g)'
  BY <1>1, HeldTail
<1>5. /\ supervisor'.pending.generation = supervisor.pending.generation
      /\ supervisor'.pending.reply = supervisor.pending.reply
  OBVIOUS
<1> QED
  BY <1>2, <1>3, <1>4, <1>5, SettleInv

(* A status keeps the invariant, and that of an earlier helper changes nothing. *)
LEMMA StatusInv ==
  ASSUME Inv, Takes, Head(queue).event \in {"created", "frame", "error"},
         HandleStatus(Head(queue))
  PROVE  Inv'
<1> DEFINE e == Head(queue)
           g == e.generation
<1>1. TypeOK /\ Known /\ StartsUnseen /\ queue # <<>> /\ queue' = Tail(queue)
      /\ Evolves(helpers, helpers) /\ UNCHANGED <<daemon, calls>>
  BY EvolvesSame DEF Inv, Known, Takes
<1>2. OfHelper(e) /\ e \in Events /\ g \in Generations
  BY <1>1, Tailed, EventFields DEF OfHelper, TypeOK
<1>3. UNCHANGED <<answer, failures>>
  BY DEF HandleStatus
<1>4. supervisor \in Supervisors /\ supervisor.restarts \in Nat /\ supervisor.helper \in Helpers
  BY <1>1, SupervisorFields DEF TypeOK
<1>5. StoppedHasNone
  BY <1>1 DEF Known
<1>6. CASE ~IsOf(g)
  <2>1. UNCHANGED <<supervisor, helpers, unavailable>>
    BY <1>6 DEF HandleStatus
  <2>2. TypeOK'
    BY <1>1, <1>3, <2>1, TailType DEF TypeOK
  <2>3. StoppedHasNone' /\ supervisor'.restarts <= supervisor.restarts
    BY <1>4, <1>5, <2>1 DEF StoppedHasNone
  <2> QED
    BY <1>1, <1>2, <1>3, <2>1, <2>2, <2>3, HelperSettles
<1>7. CASE IsOf(g) /\ e.event = "frame"
  <2>1. UNCHANGED <<supervisor, helpers>> /\ unavailable' = FALSE
    BY <1>7 DEF HandleStatus
  <2>2. TypeOK'
    BY <1>1, <1>3, <2>1, TailType DEF TypeOK
  <2>3. StoppedHasNone' /\ supervisor'.restarts <= supervisor.restarts
    BY <1>4, <1>5, <2>1 DEF StoppedHasNone
  <2> QED
    BY <1>1, <1>2, <1>3, <2>1, <2>2, <2>3, HelperSettles
<1>8. CASE IsOf(g) /\ e.event = "error"
  <2>1. /\ unavailable' = TRUE /\ UNCHANGED supervisor
        /\ helpers' = Terminate(helpers, g)
    BY <1>8 DEF HandleStatus
  <2>2. helpers' \in [Generations -> Processes] /\ Evolves(helpers, helpers')
    BY <1>1, <1>2, <2>1, Terminated
  <2>3. TypeOK'
    BY <1>1, <1>3, <2>1, <2>2, TailType DEF TypeOK
  <2>4. StoppedHasNone' /\ supervisor'.restarts <= supervisor.restarts
    BY <1>4, <1>5, <2>1 DEF StoppedHasNone
  <2> QED
    BY <1>2, <1>3, <2>1, <2>2, <2>3, <2>4, HelperSettles
<1>9. CASE IsOf(g) /\ e.event = "created"
  <2> DEFINE h == [supervisor.helper EXCEPT !.unmanaged = @ \/ e.unmanaged]
  <2>1. /\ supervisor' = [supervisor EXCEPT !.helper.unmanaged = @ \/ e.unmanaged]
        /\ UNCHANGED <<helpers, unavailable>>
    BY <1>9 DEF HandleStatus
  <2>2. supervisor' = [supervisor EXCEPT !.helper = h]
    BY <1>4, <2>1 DEF Supervisors
  <2>3. h \in Helpers /\ h.generation = supervisor.helper.generation
    BY <1>4 DEF Helpers
  <2>4. h.unmanaged => supervisor.helper.unmanaged \/ e.unmanaged
    BY <1>4 DEF Helpers
  <2> HIDE DEF h
  <2>5. /\ supervisor' \in Supervisors /\ supervisor'.helper = h
        /\ supervisor'.generation = supervisor.generation
        /\ supervisor'.pending = supervisor.pending
        /\ supervisor'.restarts = supervisor.restarts
    BY <1>4, <2>2, <2>3 DEF Supervisors
  <2>6. supervisor'.running = supervisor.running /\ supervisor'.closed = supervisor.closed
    BY <1>4, <2>2, <2>3 DEF Supervisors
  <2>7. TypeOK'
    BY <1>1, <1>3, <2>1, <2>5, TailType DEF TypeOK
  <2>8. StoppedHasNone'
    BY <1>5, <2>3, <2>5, <2>6 DEF StoppedHasNone
  <2>9. Known'
    <3>1. \A k \in 1..Len(queue') : \E m \in 1..Len(queue) : queue'[k] = queue[m]
      <4> SUFFICES ASSUME NEW k \in 1..Len(queue')
                   PROVE  \E m \in 1..Len(queue) : queue'[k] = queue[m]
        OBVIOUS
      <4>1. k + 1 \in 1..Len(queue) /\ queue'[k] = queue[k + 1]
        BY <1>1, Tailed DEF TypeOK
      <4> QED
        BY <4>1
    <3>2. NoneBeyond' /\ StartsUnseen' /\ EventsAreTrue'
      BY <1>1, <2>1, <2>5, <2>7, <3>1, EvolvesKnown
    <3>3. KnownGenerations'
      BY <1>1, <2>3, <2>5 DEF Known, KnownGenerations
    <3>4. UnmanagedIsTrue'
      <4> SUFFICES ASSUME NEW n \in Generations, supervisor'.helper.generation = n,
                          supervisor'.helper.unmanaged, Alive(n)'
                   PROVE  helpers'[n].window = "unmanaged"
        BY DEF UnmanagedIsTrue
      <4>1. supervisor.helper.generation = n /\ n = g /\ Alive(n)
        BY <1>9, <2>1, <2>3, <2>5 DEF IsOf, Alive
      <4>2. CASE supervisor.helper.unmanaged
        BY <1>1, <2>1, <4>1, <4>2 DEF Known, UnmanagedIsTrue
      <4>3. CASE e.unmanaged
        <5>1. Sound(e)
          BY <1>1, Tailed DEF Known, EventsAreTrue, TypeOK
        <5> QED
          BY <1>9, <2>1, <4>1, <4>3, <5>1 DEF Sound, CreatedIsTrue
      <4> QED
        BY <2>4, <2>5, <4>2, <4>3
    <3>5. OpenHelperIsOwned'
      BY <1>1, <2>1, <2>3, <2>5 DEF Known, OpenHelperIsOwned, Alive
    <3> QED
      BY <2>8, <3>2, <3>3, <3>4, <3>5 DEF Known
  <2>10. Budget'
    <3>1. supervisor.generation \in Nat /\ e.event # "update"
      BY <1>4, <1>9, SupervisorFields
    <3>2. supervisor'.generation + supervisor'.restarts <=
            supervisor.generation + supervisor.restarts
              + (IF Head(queue).event = "update" THEN 2 ELSE 0)
      BY <1>4, <2>5, <3>1
    <3> QED
      BY <1>1, <2>7, <3>2, BudgetKept DEF Inv, Takes
  <2>11. CallsInOrder' /\ ReplyIsOld'
    BY <1>1, <2>5, <2>7, CallsTail DEF Inv, Dialogue
  <2>12. ClosedIsLast'
    BY <1>1, <2>6, ClosedTail DEF Inv, Dialogue
  <2>13. WaitIsServed'
    BY <1>1, <1>9, <2>3, <2>5, WaitTail DEF Inv, Dialogue
  <2>14. AtRest => AtRest'
    BY <1>1, <2>1, <2>3, <2>5, <2>7, RestTail
  <2>15. AnswerIsSafe' /\ PasteAtRest'
    BY <1>1, <1>3, <2>14, AnswerKept DEF Inv, Dialogue
  <2>16. DismissedIsOff'
    <3>1. \A n : Held(n) => Held(n)'
      BY <1>1, <1>2, <2>5, HeldTail
    <3> QED
      BY <1>1, <2>1, <2>3, <2>5, <2>7, <3>1, OffKept DEF Inv, Dialogue
  <2> QED
    BY <2>7, <2>9, <2>10, <2>11, <2>12, <2>13, <2>15, <2>16 DEF Inv, Dialogue
<1> QED
  BY <1>6, <1>7, <1>8, <1>9

(* An exit keeps the invariant: the answer it gives finds nothing left on the screen. *)
LEMMA ExitInv ==
  ASSUME Inv, Takes, Head(queue).event = "exit", HandleExit(Head(queue).generation)
  PROVE  Inv'
<1> DEFINE e == Head(queue)
           pending == supervisor.pending
           s == [supervisor EXCEPT !.helper = NoHelper, !.running = FALSE]
<1>1. TypeOK /\ Known /\ StartsUnseen /\ queue # <<>> /\ queue' = Tail(queue)
      /\ Evolves(helpers, helpers) /\ UNCHANGED <<daemon, calls>>
  BY EvolvesSame DEF Inv, Known, Takes
<1>2. OfHelper(e) /\ e \in Events /\ e.generation \in Generations
  BY <1>1, Tailed, EventFields DEF OfHelper, TypeOK
<1>3. helpers[e.generation].at = "reaped" /\ ~Alive(e.generation)
  <2>1. Sound(e)
    BY <1>1, Tailed DEF Known, EventsAreTrue, TypeOK
  <2> QED
    BY <2>1 DEF Sound, ExitIsTrue, Alive
<1>4. /\ supervisor \in Supervisors /\ supervisor.restarts \in Nat
      /\ supervisor.helper \in Helpers /\ pending.generation \in {0} \cup Generations
      /\ pending.reply \in 0..MaxDismissals
  BY <1>1, SupervisorFields DEF TypeOK
<1>5. StoppedHasNone
  BY <1>1 DEF Known
<1>6. e.generation # 0 /\ NoHelper \in Helpers /\ NoHelper.generation = 0
  BY <1>2, Bounds DEF NoHelper, Helpers
<1>7. CASE pending.generation = e.generation
  <2>1. /\ supervisor' = [supervisor EXCEPT !.pending = NoDismissal]
        /\ IF pending.reply # 0 THEN Answers(pending.reply, TRUE) ELSE answer' = answer
        /\ UNCHANGED <<helpers, unavailable, failures>>
    BY <1>7 DEF HandleExit
  <2>2. NoDismissal \in Dismissals /\ NoDismissal.generation = 0 /\ NoDismissal.reply = 0
    BY Bounds DEF NoDismissal, Dismissals
  <2>3. /\ supervisor' \in Supervisors /\ supervisor'.pending = NoDismissal
        /\ supervisor'.generation = supervisor.generation
        /\ supervisor'.helper = supervisor.helper
        /\ supervisor'.restarts = supervisor.restarts
    BY <1>4, <2>1, <2>2 DEF Supervisors
  <2>4. supervisor'.running = supervisor.running /\ supervisor'.closed = supervisor.closed
    BY <1>4, <2>1, <2>2 DEF Supervisors
  <2>5. answer' \in [call : 0..MaxDismissals, ok : BOOLEAN]
    <3>1. pending.reply # 0 => pending.reply \in 1..MaxDismissals
      BY <1>4, Bounds
    <3> QED
      BY <1>1, <2>1, <3>1, AnswerType DEF TypeOK
  <2>6. TypeOK'
    BY <1>1, <2>1, <2>3, <2>5, TailType DEF TypeOK
  <2>7. StoppedHasNone'
    BY <1>5, <2>3, <2>4 DEF StoppedHasNone
  <2>8. ASSUME daemon = "waits", pending.reply = calls PROVE AtRest'
    <3>1. SilentAfter(queue, 0) /\ supervisor.helper.generation = 0
      <4>1. ASSUME NEW n \in 1..Len(queue),
                   queue[n].event = "dismiss" /\ queue[n].call = calls
            PROVE  FALSE
        <5>1. pending.reply < calls /\ calls \in Nat
          BY <1>1, <4>1, Bounds DEF Inv, Dialogue, CallsInOrder, CallAt, TypeOK
        <5> QED
          BY <2>8, <5>1
      <4> QED
        BY <2>8, <4>1 DEF Inv, Dialogue, WaitIsServed
    <3>2. SilentAfter(queue', 0)
      BY <1>1, <3>1, TailSkips DEF TypeOK
    <3>3. ASSUME NEW h \in Generations, Alive(h), ~helpers[h].left
          PROVE  ~helpers[h].input /\ helpers[h].window = "unmanaged"
      <4>1. supervisor.helper.generation # h
        BY <3>1, Bounds
      <4>2. Off(h)
        BY <2>8, <3>3, <4>1 DEF Inv, Dialogue, DismissedIsOff
      <4>3. h # e.generation
        BY <1>3, <3>3
      <4>4. ~Held(h)
        BY <1>7, <4>3 DEF Held
      <4> QED
        BY <1>1, <3>3, <4>1, <4>2, <4>4 DEF Off, Known, OpenHelperIsOwned
    <3>4. AllOff'
      BY <2>1, <3>3 DEF AllOff, Alive
    <3> QED
      BY <2>3, <3>1, <3>2, <3>4 DEF AtRest
  <2>9. AnswerIsSafe' /\ PasteAtRest'
    <3>1. CASE pending.reply = 0
      BY <1>1, <2>1, <2>3, <2>6, <3>1, QuietRest
    <3>2. CASE pending.reply # 0
      BY <1>1, <2>1, <2>3, <2>6, <2>8, <3>2, AnswersSafely
    <3> QED
      BY <3>1, <3>2
  <2>10. \A h \in Generations : ~(Held(h) /\ Alive(h)')
    BY <1>3, <1>7, <2>1 DEF Held, Alive
  <2>11. e.event \notin {"dismiss", "closed", "update"}
    OBVIOUS
  <2>12. supervisor'.restarts <= supervisor.restarts
    BY <1>4, <2>3
  <2> QED
    BY <1>1, <2>1, <2>2, <2>3, <2>4, <2>6, <2>7, <2>9, <2>10, <2>11, <2>12, SettleInv
<1>8. CASE pending.generation # e.generation /\ IsOf(e.generation)
  <2>1. /\ IF s.last = "none" THEN supervisor' = s /\ UNCHANGED <<helpers, failures>>
           ELSE Restarts(s)
        /\ unavailable' = TRUE /\ answer' = answer
    BY <1>8 DEF HandleExit
  <2>2. /\ s \in Supervisors /\ s.helper = NoHelper
        /\ s.generation = supervisor.generation /\ s.pending = supervisor.pending
        /\ s.restarts = supervisor.restarts
    BY <1>4, <1>6 DEF Supervisors
  <2>3. s.closed = supervisor.closed /\ ~s.running
    BY <1>4, <1>6 DEF Supervisors
  <2>4. supervisor.helper.generation = e.generation
    BY <1>8 DEF IsOf
  <2> HIDE DEF s
  <2>5. CASE supervisor' = s /\ UNCHANGED <<helpers, failures>>
    <3>1. TypeOK'
      BY <1>1, <2>1, <2>2, <2>5, TailType DEF TypeOK
    <3>2. StoppedHasNone'
      BY <1>6, <2>2, <2>5 DEF StoppedHasNone
    <3>3. supervisor'.restarts <= supervisor.restarts
      BY <1>4, <2>2, <2>5
    <3>4. \A h \in Generations : supervisor.helper.generation = h => ~Alive(h)'
      BY <1>3, <2>4, <2>5 DEF Alive
    <3> QED
      BY <1>1, <1>2, <2>1, <2>2, <2>3, <2>5, <3>1, <3>2, <3>3, <3>4, HelperSettles
  <2>6. CASE s.restarts # 0 /\ Launch([s EXCEPT !.restarts = @ - 1], helpers)
    <3> DEFINE next == [s EXCEPT !.restarts = @ - 1]
    <3>1. s.restarts - 1 \in 0..AutomaticRestartLimit
      BY <2>2, <2>6, SupervisorFields DEF AutomaticRestartLimit
    <3>2. /\ next \in Supervisors /\ next.helper = NoHelper
          /\ next.generation = supervisor.generation /\ next.pending = supervisor.pending
          /\ next.restarts = supervisor.restarts - 1
      BY <2>2, <3>1 DEF Supervisors
    <3>3. next.closed = supervisor.closed
      BY <2>2, <2>3, <3>1 DEF Supervisors
    <3>4. Launch(next, helpers)
      BY <2>6
    <3> HIDE DEF next
    <3>5. ASSUME NEW h \in Generations, Lives(helpers[h])
          PROVE  ~helpers[h].input /\ supervisor.helper.generation # h
      <4>1. h # e.generation
        BY <1>3, <3>5 DEF Lives
      <4> QED
        BY <1>1, <2>4, <3>5, <4>1 DEF Known, OpenHelperIsOwned, Alive, Lives
    <3>6. helpers \in [Generations -> Processes]
      BY <1>1 DEF TypeOK
    <3> QED
      BY <1>1, <1>2, <1>6, <2>1, <2>2, <2>4, <2>6, <3>2, <3>3, <3>4, <3>5, <3>6, LaunchInv
  <2> QED
    BY <2>1, <2>5, <2>6 DEF Restarts
<1>9. CASE pending.generation # e.generation /\ ~IsOf(e.generation)
  <2>1. UNCHANGED <<supervisor, helpers, unavailable, answer, failures>>
    BY <1>9 DEF HandleExit
  <2>2. TypeOK'
    BY <1>1, <2>1, TailType DEF TypeOK
  <2>3. StoppedHasNone' /\ supervisor'.restarts <= supervisor.restarts
    BY <1>4, <1>5, <2>1 DEF StoppedHasNone
  <2> QED
    BY <1>1, <1>2, <2>1, <2>2, <2>3, HelperSettles
<1> QED
  BY <1>7, <1>8, <1>9

(* The end of the commands keeps the invariant. *)
LEMMA ShutdownInv ==
  ASSUME Inv, Takes, Head(queue).event = "closed", Shutdown
  PROVE  Inv'
<1> DEFINE g == supervisor.helper.generation
           reply == supervisor.pending.reply
           stopped == Stopped(supervisor)
<1>1. TypeOK /\ Known /\ StartsUnseen /\ queue # <<>> /\ queue' = Tail(queue)
      /\ UNCHANGED <<daemon, calls>>
  BY DEF Inv, Known, Takes
<1>2. OfDaemon(Head(queue)) /\ Head(queue).event \notin {"force", "update", "dismiss"}
  BY DEF OfDaemon
<1>3. daemon = "closed"
  BY <1>1, Tailed DEF Inv, Dialogue, ClosedIsLast, TypeOK
<1>4. supervisor \in Supervisors /\ g \in {0} \cup Generations /\ reply \in 0..MaxDismissals
  BY <1>1, SupervisorFields DEF TypeOK
<1>5. /\ stopped \in Supervisors /\ ~stopped.running /\ stopped.restarts = 0
      /\ stopped.generation = supervisor.generation
  BY <1>4, StoppedFields
<1>6. /\ supervisor' = [stopped EXCEPT !.helper = NoHelper, !.pending = NoDismissal,
                                       !.closed = TRUE]
      /\ helpers' = Finish(helpers, g)
      /\ IF reply # 0 THEN Answers(reply, FALSE) ELSE answer' = answer
      /\ UNCHANGED <<unavailable, failures>>
  BY DEF Shutdown
<1> HIDE DEF stopped
<1>7. /\ NoDismissal \in Dismissals /\ NoDismissal.generation = 0 /\ NoDismissal.reply = 0
      /\ NoHelper \in Helpers /\ NoHelper.generation = 0
  BY Bounds DEF NoDismissal, Dismissals, NoHelper, Helpers
<1>8. PICK on \in BOOLEAN : on = TRUE
  OBVIOUS
<1>9. /\ supervisor' \in Supervisors /\ supervisor'.helper = NoHelper
      /\ supervisor'.pending = NoDismissal /\ supervisor'.restarts = 0
      /\ supervisor'.generation = supervisor.generation
  BY <1>5, <1>6, <1>7, <1>8 DEF Supervisors
<1>10. /\ helpers' \in [Generations -> Processes] /\ Evolves(helpers, helpers')
       /\ g # 0 => ~helpers'[g].input
  BY <1>1, <1>4, <1>6, Finished
<1>11. answer' = answer
  BY <1>3, <1>6 DEF Answers
<1>12. TypeOK'
  BY <1>1, <1>6, <1>9, <1>10, <1>11, TailType DEF TypeOK
<1>13. AnswerIsSafe' /\ PasteAtRest'
  BY <1>2, <1>10, <1>11, <1>12, QuietRest
<1>14. \A h : ~Held(h)
  BY <1>1, <1>2, HeldTail
<1>15. StoppedHasNone'
  BY <1>7, <1>9 DEF StoppedHasNone
<1>16. \A h \in Generations : g = h /\ Alive(h)' => ~helpers'[h].input
  BY <1>10, Bounds
<1>17. supervisor'.restarts <= supervisor.restarts
  BY <1>4, <1>9, SupervisorFields
<1> QED
  BY <1>3, <1>7, <1>9, <1>10, <1>12, <1>13, <1>14, <1>15, <1>16, <1>17, SettleInv

(* Handling any event keeps the invariant. *)
LEMMA HandleInv ==
  ASSUME Inv, Handle
  PROVE  Inv'
<1> DEFINE e == Head(queue)
<1>1. queue # <<>> /\ Takes
  BY DEF Handle, Takes
<1>2. e \in Events
  BY <1>1, Tailed DEF Inv, TypeOK
<1>3. \/ e.event = "update" /\ HandleUpdate(e.state) /\ answer' = answer
      \/ e.event = "dismiss" /\ Dismiss(e.call)
      \/ e.event = "force" /\ ForceDismiss
      \/ e.event \in {"created", "frame", "error"} /\ HandleStatus(e)
      \/ e.event = "exit" /\ HandleExit(e.generation)
      \/ e.event = "closed" /\ Shutdown
  BY DEF Handle
<1>4. CASE e.event = "update" /\ HandleUpdate(e.state) /\ answer' = answer
  BY <1>1, <1>2, <1>4, EventFields, UpdateInv
<1>5. CASE e.event = "dismiss" /\ Dismiss(e.call)
  <2>1. e.call \in 1..MaxDismissals
    BY <1>2, <1>5, EventFields
  <2> QED
    BY <1>1, <1>5, <2>1, DismissInv
<1>6. CASE e.event = "force" /\ ForceDismiss
  BY <1>1, <1>6, ForceInv
<1>7. CASE e.event \in {"created", "frame", "error"} /\ HandleStatus(e)
  BY <1>1, <1>7, StatusInv
<1>8. CASE e.event = "exit" /\ HandleExit(e.generation)
  BY <1>1, <1>8, ExitInv
<1>9. CASE e.event = "closed" /\ Shutdown
  BY <1>1, <1>9, ShutdownInv
<1> QED
  BY <1>3, <1>4, <1>5, <1>6, <1>7, <1>8, <1>9

--------------------------------------------------------------------------------
(* A deadline that closes or kills a helper keeps the invariant. *)
LEMMA DeadlineInv ==
  ASSUME Inv, TypeOK', UNCHANGED <<daemon, calls, answer, updates, queue>>,
         Evolves(helpers, helpers'), StoppedHasNone',
         supervisor'.generation = supervisor.generation,
         supervisor'.restarts <= supervisor.restarts,
         supervisor'.pending.generation \in {0, supervisor.pending.generation},
         supervisor'.pending.reply = supervisor.pending.reply,
         \A g \in Generations : Held(g) => supervisor'.pending.generation = g,
         supervisor'.closed = supervisor.closed,
         \/ supervisor'.helper = supervisor.helper
         \/ /\ supervisor'.helper = NoHelper
            /\ \A g \in Generations :
                 supervisor.helper.generation = g => ~helpers'[g].input /\ helpers'[g].left
  PROVE  Inv'
<1>1. TypeOK /\ Known /\ Budget
  BY DEF Inv
<1>2. Known'
  BY <1>1, SettlesKnown
<1>3. Budget'
  <2>1. /\ supervisor.generation \in Nat /\ supervisor.restarts \in Nat /\ updates \in Nat
        /\ supervisor'.restarts \in Nat /\ Cardinality(Updates(queue)) \in Nat
    BY <1>1, SupervisorFields, UpdatesCounted, Bounds DEF TypeOK
  <2> QED
    BY <1>1, <2>1 DEF Budget
<1>4. \A n, c : Given(n, c)' <=> Given(n, c)
  BY DEF Given
<1>5. CallsInOrder' /\ ReplyIsOld'
  <2>1. ASSUME NEW k \in 1..Len(queue), CallAt(k) PROVE CallAt(k)'
    <3>1. PICK c : c = queue[k].call
      OBVIOUS
    <3>2. Given(k, c)' <=> Given(k, c)
      BY <1>4
    <3> QED
      BY <2>1, <3>1, <3>2 DEF CallAt, Given
  <2> QED
    BY <2>1 DEF Inv, Dialogue, CallsInOrder, ReplyIsOld
<1>6. ClosedIsLast'
  BY DEF Inv, Dialogue, ClosedIsLast
<1>7. supervisor'.helper.generation \in {0, supervisor.helper.generation}
  BY DEF NoHelper
<1>8. WaitIsServed'
  BY <1>7 DEF Inv, Dialogue, WaitIsServed
<1>9. AtRest => AtRest'
  BY <1>1, <1>7, AllOffKept DEF AtRest
<1>10. AnswerIsSafe' /\ PasteAtRest'
  BY <1>9, AnswerKept DEF Inv, Dialogue
<1>11. ASSUME NEW g \in Generations, Held(g) PROVE Held(g)'
  BY <1>11 DEF Held, Given
<1>12. DismissedIsOff'
  BY <1>1, <1>11, OffKept DEF Inv, Dialogue
<1> QED
  BY <1>2, <1>3, <1>5, <1>6, <1>8, <1>10, <1>12 DEF Inv, Dialogue

(* The end of a notice keeps the invariant. *)
LEMMA EndNoticeInv ==
  ASSUME Inv, EndNotice
  PROVE  Inv'
<1> DEFINE g == supervisor.helper.generation
           stopped == Stopped(supervisor)
<1>1. TypeOK /\ Known /\ StartsUnseen
  BY DEF Inv, Known
<1>2. supervisor \in Supervisors /\ g \in {0} \cup Generations /\ supervisor.restarts \in Nat
  BY <1>1, SupervisorFields DEF TypeOK
<1>3. /\ stopped \in Supervisors /\ ~stopped.running /\ stopped.restarts = 0
      /\ stopped.generation = supervisor.generation /\ stopped.pending = supervisor.pending
      /\ stopped.closed = supervisor.closed
  BY <1>2, StoppedFields
<1>4. /\ supervisor' = [stopped EXCEPT !.helper = NoHelper]
      /\ helpers' = Leaves(Finish(helpers, g), g)
      /\ UNCHANGED <<daemon, calls, answer, updates, wanted, queue, unavailable, failures>>
  BY DEF EndNotice
<1> HIDE DEF stopped
<1>5. NoHelper \in Helpers /\ NoHelper.generation = 0
  BY DEF NoHelper, Helpers
<1>6. /\ supervisor' \in Supervisors /\ supervisor'.helper = NoHelper
      /\ supervisor'.pending = supervisor.pending /\ supervisor'.restarts = 0
      /\ supervisor'.generation = supervisor.generation
  BY <1>3, <1>4, <1>5 DEF Supervisors
<1>7. supervisor'.closed = supervisor.closed
  BY <1>3, <1>4, <1>5 DEF Supervisors
<1>8. /\ helpers' \in [Generations -> Processes] /\ Evolves(helpers, helpers')
      /\ g # 0 => ~helpers'[g].input /\ helpers'[g].left
  BY <1>1, <1>2, <1>4, LeftOff
<1>9. TypeOK'
  BY <1>1, <1>4, <1>6, <1>8 DEF TypeOK
<1>10. StoppedHasNone'
  BY <1>5, <1>6 DEF StoppedHasNone
<1>11. \A h \in Generations : g = h => ~helpers'[h].input /\ helpers'[h].left
  BY <1>8, Bounds
<1>12. \A h \in Generations : Held(h) => supervisor'.pending.generation = h
  BY <1>6 DEF Held
<1>13. /\ supervisor'.pending.generation = supervisor.pending.generation
       /\ supervisor'.pending.reply = supervisor.pending.reply
       /\ supervisor'.restarts <= supervisor.restarts
  BY <1>2, <1>6
<1> QED
  BY <1>4, <1>6, <1>7, <1>8, <1>9, <1>10, <1>11, <1>12, <1>13, DeadlineInv

(* The deadline of a dismissed helper keeps the invariant. *)
LEMMA TeardownInv ==
  ASSUME Inv, TeardownTimesOut
  PROVE  Inv'
<1> DEFINE g == supervisor.pending.generation
<1>1. TypeOK /\ Known /\ StartsUnseen
  BY DEF Inv, Known
<1>2. supervisor \in Supervisors /\ g \in {0} \cup Generations /\ supervisor.restarts \in Nat
  BY <1>1, SupervisorFields DEF TypeOK
<1>3. /\ supervisor.pending.reply = 0
      /\ supervisor' = [supervisor EXCEPT !.pending = NoDismissal]
      /\ helpers' = Terminate(helpers, g) /\ unavailable' = TRUE
      /\ UNCHANGED <<daemon, calls, answer, updates, wanted, queue, failures>>
  BY DEF TeardownTimesOut
<1>4. NoDismissal \in Dismissals /\ NoDismissal.generation = 0 /\ NoDismissal.reply = 0
  BY Bounds DEF NoDismissal, Dismissals
<1>5. /\ supervisor' \in Supervisors /\ supervisor'.helper = supervisor.helper
      /\ supervisor'.pending = NoDismissal /\ supervisor'.restarts = supervisor.restarts
      /\ supervisor'.generation = supervisor.generation
  BY <1>2, <1>3, <1>4 DEF Supervisors
<1>6. supervisor'.running = supervisor.running /\ supervisor'.closed = supervisor.closed
  BY <1>2, <1>3, <1>4 DEF Supervisors
<1>7. helpers' \in [Generations -> Processes] /\ Evolves(helpers, helpers')
  BY <1>1, <1>2, <1>3, Terminated
<1>8. TypeOK'
  BY <1>1, <1>3, <1>5, <1>7 DEF TypeOK
<1>9. StoppedHasNone'
  BY <1>1, <1>5, <1>6 DEF Known, StoppedHasNone
<1>10. \A h : ~Held(h)
  BY <1>3 DEF Held
<1>11. supervisor'.restarts <= supervisor.restarts
  BY <1>2, <1>5
<1> QED
  BY <1>3, <1>4, <1>5, <1>6, <1>7, <1>8, <1>9, <1>10, <1>11, DeadlineInv
--------------------------------------------------------------------------------
(* What a helper reports comes behind everything the daemon sent. *)
LEMMA HelperQueue ==
  ASSUME TypeOK, \/ queue' = queue
                 \/ \E e \in Events : OfHelper(e) /\ queue' = Append(queue, e)
  PROVE  /\ Len(queue) \in Nat /\ Len(queue') \in Nat /\ Len(queue) <= Len(queue')
         /\ \A k \in 1..Len(queue) : queue'[k] = queue[k]
         /\ \A k \in Len(queue) + 1..Len(queue') :
              queue'[k].event \notin {"update", "dismiss", "force", "closed"}
         /\ \A n \in 0..Len(queue) :
              /\ SilentAfter(queue, n) => SilentAfter(queue', n)
              /\ \A c : UNCHANGED <<daemon, calls>> /\ Given(n, c) => Given(n, c)'
         /\ Cardinality(Updates(queue')) = Cardinality(Updates(queue))
<1>1. queue \in Seq(Events) /\ Len(queue) \in Nat
  BY DEF TypeOK
<1>2. CASE queue' = queue
  BY <1>1, <1>2 DEF Given
<1>3. ASSUME NEW e \in Events, OfHelper(e), queue' = Append(queue, e)
      PROVE  /\ Len(queue') = Len(queue) + 1 /\ queue'[Len(queue) + 1] = e
             /\ \A k \in 1..Len(queue) : queue'[k] = queue[k]
             /\ \A n \in 0..Len(queue) :
                  /\ SilentAfter(queue, n) => SilentAfter(queue', n)
                  /\ ForceFollows(queue, n) => ForceFollows(queue', n)
             /\ Cardinality(Updates(queue')) = Cardinality(Updates(queue))
             /\ e.event \notin {"update", "dismiss", "force", "closed"}
  <2>1. e.event \notin {"update", "dismiss", "force", "closed"}
    BY <1>3 DEF OfHelper
  <2>2. Cardinality(Updates(queue)) \in Nat
    BY <1>1, UpdatesCounted
  <2>3. Cardinality(Updates(queue')) = Cardinality(Updates(queue))
    BY <1>1, <1>3, <2>1, <2>2, UpdatesAppended
  <2> QED
    BY <1>1, <1>3, <2>1, <2>3, Appended, AppendsHelpers
<1>4. CASE \E e \in Events : OfHelper(e) /\ queue' = Append(queue, e)
  <2>1. PICK e \in Events : OfHelper(e) /\ queue' = Append(queue, e)
    BY <1>4
  <2>2. /\ Len(queue') = Len(queue) + 1 /\ queue'[Len(queue) + 1] = e
        /\ \A k \in 1..Len(queue) : queue'[k] = queue[k]
        /\ \A n \in 0..Len(queue) :
             /\ SilentAfter(queue, n) => SilentAfter(queue', n)
             /\ ForceFollows(queue, n) => ForceFollows(queue', n)
        /\ Cardinality(Updates(queue')) = Cardinality(Updates(queue))
        /\ e.event \notin {"update", "dismiss", "force", "closed"}
    BY <1>3, <2>1
  <2>3. \A k \in Len(queue) + 1..Len(queue') : k = Len(queue) + 1
    BY <1>1, <2>2
  <2>4. ASSUME NEW n \in 0..Len(queue), NEW c, UNCHANGED <<daemon, calls>>, Given(n, c)
        PROVE  Given(n, c)'
    BY <2>2, <2>4 DEF Given
  <2> QED
    BY <1>1, <2>2, <2>3, <2>4
<1> QED
  BY <1>2, <1>4

(* A step of a helper that reports the truth keeps the invariant. *)
LEMMA HelperInv ==
  ASSUME Inv, TypeOK', UNCHANGED <<daemon, calls, answer, updates, supervisor>>,
         Evolves(helpers, helpers'),
         \/ queue' = queue
         \/ \E e \in Events : OfHelper(e) /\ queue' = Append(queue, e) /\ Sound(e)'
  PROVE  Inv'
<1>1. TypeOK /\ Known /\ Budget /\ queue \in Seq(Events)
  BY DEF Inv, TypeOK
<1>2. /\ Len(queue) \in Nat /\ Len(queue') \in Nat /\ Len(queue) <= Len(queue')
      /\ \A k \in 1..Len(queue) : queue'[k] = queue[k]
      /\ \A k \in Len(queue) + 1..Len(queue') :
           queue'[k].event \notin {"update", "dismiss", "force", "closed"}
      /\ \A n \in 0..Len(queue) :
           /\ SilentAfter(queue, n) => SilentAfter(queue', n)
           /\ \A c : Given(n, c) => Given(n, c)'
      /\ Cardinality(Updates(queue')) = Cardinality(Updates(queue))
  BY <1>1, HelperQueue
<1>3. \A k \in 1..Len(queue') :
        (\E m \in 1..Len(queue) : queue'[k] = queue[m]) \/ Sound(queue[k])'
  <2>1. CASE queue' = queue
    BY <2>1
  <2>2. ASSUME NEW e \in Events, queue' = Append(queue, e), Sound(e)',
               NEW k \in 1..Len(queue')
        PROVE  (\E m \in 1..Len(queue) : queue'[k] = queue[m]) \/ Sound(queue[k])'
    <3>1. Len(queue') = Len(queue) + 1 /\ queue'[Len(queue) + 1] = e
      BY <1>1, <2>2, Appended
    <3>2. CASE k = Len(queue) + 1
      <4>1. queue'[k] = e
        BY <3>1, <3>2
      <4> QED
        BY <2>2, <4>1 DEF Sound, Dated, ExitIsTrue, CreatedIsTrue, Alive
    <3>3. CASE k # Len(queue) + 1
      BY <1>2, <2>2, <3>1, <3>3
    <3> QED
      BY <3>2, <3>3
  <2> QED
    BY <2>1, <2>2
<1>4. Known'
  <2>1. NoneBeyond' /\ StartsUnseen' /\ EventsAreTrue'
    BY <1>1, <1>3, EvolvesKnown
  <2>2. UnmanagedIsTrue' /\ OpenHelperIsOwned'
    BY <1>1, KeepsHelper
  <2> QED
    BY <1>1, <2>1, <2>2 DEF Known, KnownGenerations, StoppedHasNone
<1>5. Budget'
  BY <1>1, <1>2 DEF Budget
<1>6. CallsInOrder'
  <2> SUFFICES ASSUME NEW k \in 1..Len(queue'), queue'[k].event = "dismiss"
               PROVE  /\ queue'[k].call <= calls
                      /\ supervisor.pending.reply < queue'[k].call
                      /\ \A m \in 1..k - 1 :
                           queue'[m].event = "dismiss" => queue'[m].call < queue'[k].call
                      /\ Given(k, queue[k].call)'
    BY DEF CallsInOrder, CallAt
  <2>1. k \in 1..Len(queue) /\ queue'[k] = queue[k]
    BY <1>2
  <2>2. \A m \in 1..k - 1 : m \in 1..Len(queue) /\ queue'[m] = queue[m]
    BY <1>2, <2>1
  <2>3. PICK c : c = queue[k].call
    OBVIOUS
  <2>4. /\ c <= calls /\ supervisor.pending.reply < c /\ Given(k, c)
        /\ \A m \in 1..k - 1 : queue[m].event = "dismiss" => queue[m].call < c
    BY <2>1, <2>3 DEF Inv, Dialogue, CallsInOrder, CallAt
  <2>5. Given(k, c)'
    BY <1>2, <2>1, <2>4
  <2>6. queue'[k].call = c
    BY <2>1, <2>3
  <2>7. Given(k, queue[k].call)'
    BY <2>5, <2>6 DEF Given
  <2> QED
    BY <2>2, <2>4, <2>6, <2>7
<1>7. ReplyIsOld'
  BY DEF Inv, Dialogue, ReplyIsOld
<1>8. ClosedIsLast'
  <2>1. ASSUME NEW k \in 1..Len(queue'), queue'[k].event = "closed"
        PROVE  k \in 1..Len(queue) /\ queue[k].event = "closed"
    BY <1>2, <2>1
  <2> QED
    BY <2>1 DEF Inv, Dialogue, ClosedIsLast
<1>9. ASSUME NEW g \in Generations, Held(g) PROVE Held(g)'
  <2>1. PICK c : c = supervisor.pending.reply
    OBVIOUS
  <2>2. Given(0, c)'
    BY <1>2, <1>9, <2>1 DEF Held
  <2> QED
    BY <1>9, <2>1, <2>2 DEF Held, Given
<1>10. DismissedIsOff'
  BY <1>1, <1>9, OffKept DEF Inv, Dialogue
<1>11. WaitIsServed'
  <2> SUFFICES ASSUME daemon = "waits" PROVE WaitIsServed'
    BY DEF WaitIsServed
  <2>1. CASE SilentAfter(queue, 0) /\ supervisor.helper.generation = 0
    BY <1>2, <2>1 DEF Inv, Dialogue, WaitIsServed
  <2>2. ASSUME NEW n \in 1..Len(queue), queue[n].event = "dismiss", queue[n].call = calls,
               SilentAfter(queue, n)
        PROVE  WaitIsServed'
    <3>1. n \in 1..Len(queue') /\ queue'[n] = queue[n] /\ SilentAfter(queue', n)
      BY <1>2, <2>2
    <3> QED
      BY <2>2, <3>1 DEF Inv, Dialogue, WaitIsServed
  <2> QED
    BY <2>1, <2>2 DEF Inv, Dialogue, WaitIsServed
<1>12. AtRest => AtRest'
  BY <1>1, <1>2, AllOffKept DEF AtRest
<1>13. AnswerIsSafe' /\ PasteAtRest'
  BY <1>12, AnswerKept DEF Inv, Dialogue
<1> QED
  BY <1>4, <1>5, <1>6, <1>7, <1>8, <1>10, <1>11, <1>13 DEF Inv, Dialogue

(* A step of one helper, given by its new state. *)
LEMMA RowInv ==
  ASSUME Inv, KeepsOthers, failures' \in 0..MaxFailures,
         NEW g \in Generations, NEW row \in Processes,
         helpers' = [helpers EXCEPT ![g] = row],
         helpers[g].at \notin {"none", "reaped"},
         row.at = "starts" => row.window = "none",
         Lives(row) => /\ Lives(helpers[g]) /\ (row.input => helpers[g].input)
                       /\ (helpers[g].left => row.left)
                       /\ (helpers[g].window = "unmanaged" => row.window = "unmanaged"),
         \/ queue' = queue
         \/ \E e \in Events :
              /\ OfHelper(e) /\ e.generation = g /\ Enqueue(e)
              /\ e.event = "exit" => row.at = "reaped"
              /\ e.event = "created" /\ e.unmanaged => row.window = "unmanaged"
  PROVE  Inv'
<1>1. TypeOK /\ Known /\ queue \in Seq(Events) /\ Len(queue) <= MaxQueue
      /\ helpers \in [Generations -> Processes]
  BY DEF Inv, TypeOK
<1>2. /\ helpers' \in [Generations -> Processes] /\ helpers'[g] = row
      /\ \A h \in Generations \ {g} : helpers'[h] = helpers[h]
  BY <1>1
<1>3. Evolves(helpers, helpers')
  <2> SUFFICES ASSUME NEW h \in Generations
               PROVE  /\ helpers[h].at \in {"none", "reaped"} => helpers'[h].at = helpers[h].at
                      /\ helpers'[h].at = "starts" => helpers'[h].window = "none"
                      /\ Lives(helpers'[h]) => Lives(helpers[h])
                      /\ Lives(helpers'[h]) /\ helpers'[h].input => helpers[h].input
                      /\ Lives(helpers'[h]) /\ helpers[h].left => helpers'[h].left
                      /\ Lives(helpers'[h]) /\ helpers[h].window = "unmanaged"
                           => helpers'[h].window = "unmanaged"
    BY DEF Evolves
  <2>1. CASE h = g
    BY <1>2, <2>1
  <2>2. CASE h # g
    BY <1>1, <1>2, <2>2 DEF Known, StartsUnseen
  <2> QED
    BY <2>1, <2>2
<1>4. UNCHANGED <<daemon, calls, answer, updates, wanted, supervisor, unavailable>>
  BY DEF KeepsOthers
<1>5. CASE queue' = queue
  <2>1. TypeOK'
    BY <1>1, <1>2, <1>4, <1>5 DEF TypeOK
  <2> QED
    BY <1>3, <1>4, <1>5, <2>1, HelperInv
<1>6. ASSUME NEW e \in Events, OfHelper(e), e.generation = g, Enqueue(e),
             e.event = "exit" => row.at = "reaped",
             e.event = "created" /\ e.unmanaged => row.window = "unmanaged"
      PROVE  Inv'
  <2>1. queue' = Append(queue, e) /\ queue' \in Seq(Events) /\ Len(queue') <= MaxQueue
    <3>1. Len(queue) < MaxQueue /\ queue' = Append(queue, e) /\ Len(queue) \in Nat
      BY <1>1, <1>6 DEF Enqueue
    <3> QED
      BY <1>1, <3>1, Appended, Bounds
  <2>2. TypeOK'
    BY <1>1, <1>2, <1>4, <2>1 DEF TypeOK
  <2>3. g <= supervisor.generation
    <3>1. supervisor.generation \in Nat /\ g \in Nat
      BY <1>1, SupervisorFields, Bounds DEF TypeOK
    <3> QED
      BY <1>1, <3>1 DEF Known, NoneBeyond
  <2>4. Sound(e)'
    <3>1. Dated(e)'
      BY <1>4, <1>6, <2>3 DEF Dated
    <3>2. ExitIsTrue(e)'
      BY <1>2, <1>6 DEF ExitIsTrue
    <3>3. CreatedIsTrue(e)'
      BY <1>2, <1>6 DEF CreatedIsTrue
    <3> QED
      BY <3>1, <3>2, <3>3 DEF Sound
  <2> QED
    BY <1>3, <1>4, <1>6, <2>1, <2>2, <2>4, HelperInv
<1> QED
  BY <1>5, <1>6

(* Every step of a helper or its monitor keeps the invariant. *)
LEMMA HelperStepsInv ==
  ASSUME Inv, HelperSteps
  PROVE  Inv'
<1>1. PICK g \in Generations :
        WindowCreated(g) \/ FrameSubmitted(g) \/ Errs(g) \/ Exits(g) \/ Reaped(g)
  BY DEF HelperSteps
<1>2. helpers \in [Generations -> Processes] /\ helpers[g] \in Processes
  BY DEF Inv, TypeOK
<1>3. /\ failures \in 0..MaxFailures
      /\ Fine => failures' \in 0..MaxFailures
      /\ \A kind : May(kind) => failures' \in 0..MaxFailures
  BY MayType DEF Inv, TypeOK, Fine
<1>4. CASE WindowCreated(g)
  <2>1. PICK window \in {"managed", "unmanaged"} :
          /\ helpers' = [helpers EXCEPT ![g].at = "created", ![g].window = window]
          /\ Enqueue([event |-> "created", generation |-> g,
                      unmanaged |-> window = "unmanaged"])
    BY <1>4 DEF WindowCreated
  <2>2. helpers[g].at = "starts" /\ KeepsOthers /\ Fine
    BY <1>4 DEF WindowCreated
  <2> DEFINE row == [helpers[g] EXCEPT !.at = "created", !.window = window]
             e == [event |-> "created", generation |-> g, unmanaged |-> window = "unmanaged"]
  <2>3. /\ row \in Processes /\ row.at = "created" /\ row.window = window
        /\ row.input = helpers[g].input /\ row.left = helpers[g].left
    BY <1>2 DEF Processes
  <2>4. helpers' = [helpers EXCEPT ![g] = row]
    BY <1>2, <2>1
  <2>5. helpers[g].window = "none"
    BY <2>2 DEF Inv, Known, StartsUnseen
  <2>6. PICK told \in BOOLEAN : told = (window = "unmanaged")
    OBVIOUS
  <2>7. /\ e \in Events /\ OfHelper(e) /\ e.generation = g /\ e.event = "created"
        /\ e.unmanaged = told
    BY <2>6 DEF Events, OfHelper
  <2>8. Enqueue(e)
    BY <2>1
  <2>9. e.event = "created" /\ e.unmanaged => row.window = "unmanaged"
    BY <2>3, <2>6, <2>7
  <2>10. e.event # "exit"
    BY <2>7
  <2> HIDE DEF row, e
  <2> QED
    BY <1>3, <2>2, <2>3, <2>4, <2>5, <2>7, <2>8, <2>9, <2>10, RowInv DEF Lives
<1>5. CASE FrameSubmitted(g)
  <2>1. /\ helpers[g].at = "created" /\ Becomes(g, "shown") /\ KeepsOthers /\ Fine
        /\ Enqueue([event |-> "frame", generation |-> g])
    BY <1>5 DEF FrameSubmitted
  <2> DEFINE row == [helpers[g] EXCEPT !.at = "shown"]
             e == [event |-> "frame", generation |-> g]
  <2>2. /\ row \in Processes /\ row.at = "shown" /\ row.window = helpers[g].window
        /\ row.input = helpers[g].input /\ row.left = helpers[g].left
    BY <1>2 DEF Processes
  <2>3. helpers' = [helpers EXCEPT ![g] = row]
    BY <1>2, <2>1 DEF Becomes
  <2>4. e \in Events /\ OfHelper(e) /\ e.generation = g /\ e.event = "frame" /\ Enqueue(e)
    BY <2>1 DEF Events, OfHelper
  <2> HIDE DEF row, e
  <2> QED
    BY <1>3, <2>1, <2>2, <2>3, <2>4, RowInv DEF Lives
<1>6. CASE Errs(g)
  <2>1. /\ helpers[g].at \in {"starts", "created", "shown"} /\ May("helper")
        /\ Becomes(g, "failed") /\ KeepsOthers
        /\ Enqueue([event |-> "error", generation |-> g])
    BY <1>6 DEF Errs
  <2> DEFINE row == [helpers[g] EXCEPT !.at = "failed"]
             e == [event |-> "error", generation |-> g]
  <2>2. /\ row \in Processes /\ row.at = "failed" /\ row.window = helpers[g].window
        /\ row.input = helpers[g].input /\ row.left = helpers[g].left
    BY <1>2 DEF Processes
  <2>3. helpers' = [helpers EXCEPT ![g] = row]
    BY <1>2, <2>1 DEF Becomes
  <2>4. e \in Events /\ OfHelper(e) /\ e.generation = g /\ e.event = "error" /\ Enqueue(e)
    BY <2>1 DEF Events, OfHelper
  <2> HIDE DEF row, e
  <2> QED
    BY <1>3, <2>1, <2>2, <2>3, <2>4, RowInv DEF Lives
<1>7. CASE Exits(g)
  <2>1. Alive(g) /\ KeepsOthers /\ queue' = queue /\ failures' \in 0..MaxFailures
    BY <1>3, <1>7 DEF Exits
  <2>2. CASE Becomes(g, "dead")
    <3> DEFINE row == [helpers[g] EXCEPT !.at = "dead"]
    <3>1. row \in Processes /\ row.at = "dead"
      BY <1>2 DEF Processes
    <3>2. helpers' = [helpers EXCEPT ![g] = row]
      BY <1>2, <2>2 DEF Becomes
    <3> HIDE DEF row
    <3> QED
      BY <2>1, <3>1, <3>2, RowInv DEF Lives, Alive
  <2>3. CASE helpers' = [helpers EXCEPT ![g].stuck = TRUE]
    <3>1. PICK on \in BOOLEAN : on = TRUE
      OBVIOUS
    <3> DEFINE row == [helpers[g] EXCEPT !.stuck = on]
    <3>2. row \in Processes /\ row.at = helpers[g].at /\ row.window = helpers[g].window
      BY <1>2 DEF Processes
    <3>3. row.input = helpers[g].input /\ row.left = helpers[g].left
      BY <1>2 DEF Processes
    <3>4. helpers' = [helpers EXCEPT ![g] = row]
      BY <1>2, <2>3, <3>1
    <3>5. helpers[g].at = "starts" => helpers[g].window = "none"
      BY DEF Inv, Known, StartsUnseen
    <3> HIDE DEF row
    <3> QED
      BY <2>1, <3>2, <3>3, <3>4, <3>5, RowInv DEF Lives, Alive
  <2> QED
    BY <1>7, <2>2, <2>3 DEF Exits
<1>8. CASE Reaped(g)
  <2>1. /\ helpers[g].at = "dead" /\ KeepsOthers /\ Fine
        /\ helpers' = [helpers EXCEPT ![g] = [NoProcess EXCEPT !.at = "reaped"]]
        /\ Enqueue([event |-> "exit", generation |-> g])
    BY <1>8 DEF Reaped
  <2> DEFINE row == [NoProcess EXCEPT !.at = "reaped"]
             e == [event |-> "exit", generation |-> g]
  <2>2. PICK off \in BOOLEAN : off = FALSE
    OBVIOUS
  <2>3. NoProcess = [at |-> "none", window |-> "none", input |-> off, stuck |-> off,
                     left |-> off]
    BY <2>2, Zenon DEF NoProcess
  <2>4. row \in Processes /\ row.at = "reaped"
    BY <2>3 DEF Processes
  <2>5. e \in Events /\ OfHelper(e) /\ e.generation = g /\ e.event = "exit" /\ Enqueue(e)
    BY <2>1 DEF Events, OfHelper
  <2>6. helpers' = [helpers EXCEPT ![g] = row]
    BY <2>1
  <2> HIDE DEF row, e
  <2> QED
    BY <1>3, <2>1, <2>4, <2>5, <2>6, RowInv DEF Lives
<1> QED
  BY <1>1, <1>4, <1>5, <1>6, <1>7, <1>8

--------------------------------------------------------------------------------
(* Whatever the daemon sends keeps the invariant. *)
LEMMA DaemonInv ==
  ASSUME Inv, TypeOK', UNCHANGED <<answer, supervisor, helpers>>, answer.call = 0,
         daemon' \in {"free", "waits", "closed"},
         NEW e \in Events, OfDaemon(e), queue' = Append(queue, e),
         daemon = "free" \/ (daemon = "waits" /\ e.event = "force"),
         e.event = "closed" => daemon' = "closed",
         daemon' = "waits" <=> e.event = "dismiss",
         e.event = "dismiss" => e.call = calls',
         calls' = calls + (IF e.event = "dismiss" THEN 1 ELSE 0),
         updates' = updates + (IF e.event = "update" THEN 1 ELSE 0)
  PROVE  Inv'
<1>1. TypeOK /\ Known /\ Budget /\ queue \in Seq(Events) /\ calls \in Nat /\ updates \in Nat
  BY Bounds DEF Inv, TypeOK
<1>2. PICK len \in Nat : len = Len(queue)
  BY <1>1
<1>3. /\ Len(queue') = len + 1 /\ queue'[len + 1] = e
      /\ \A k \in 1..len : queue'[k] = queue[k] /\ queue[k] \in Events
  BY <1>1, <1>2, Appended
<1>4. ASSUME NEW n \in 0..len, NEW c, Given(n, c) PROVE Given(n, c)'
  <2>1. ForceFollows(queue, n) \/ (SilentAfter(queue, n) /\ e.event = "force")
    BY <1>4 DEF Given
  <2>2. ForceFollows(queue', n)
    BY <1>1, <1>2, <2>1, AppendsAny
  <2> QED
    BY <2>2 DEF Given
<1>5. SilentAfter(queue', len + 1)
  BY <1>1, <1>2, AppendsAny
<1>6. Known'
  <2>1. ASSUME NEW k \in 1..Len(queue') PROVE Sound(queue[k])'
    <3>1. CASE k = len + 1
      <4>1. ~OfHelper(queue'[k]) /\ queue'[k].event \notin {"exit", "created"}
        BY <1>3, <3>1 DEF OfDaemon, OfHelper
      <4> QED
        BY <4>1 DEF Sound, Dated, ExitIsTrue, CreatedIsTrue
    <3>2. CASE k # len + 1
      <4>1. k \in 1..Len(queue) /\ queue'[k] = queue[k]
        BY <1>2, <1>3, <3>2
      <4>2. Sound(queue[k])
        BY <1>1, <4>1 DEF Known, EventsAreTrue
      <4> QED
        BY <4>1, <4>2 DEF Sound, Dated, ExitIsTrue, CreatedIsTrue, Alive
    <3> QED
      BY <3>1, <3>2
  <2>2. EventsAreTrue'
    BY <2>1 DEF EventsAreTrue
  <2> QED
    BY <1>1, <2>2 DEF Known, NoneBeyond, KnownGenerations, StartsUnseen, StoppedHasNone,
                      UnmanagedIsTrue, OpenHelperIsOwned, Alive
<1>7. Budget'
  <2>1. /\ supervisor.generation \in Nat /\ supervisor.restarts \in Nat
        /\ Cardinality(Updates(queue)) \in Nat
    BY <1>1, SupervisorFields, UpdatesCounted DEF TypeOK
  <2>2. Cardinality(Updates(queue')) =
          Cardinality(Updates(queue)) + (IF e.event = "update" THEN 1 ELSE 0)
    BY <1>1, UpdatesAppended
  <2> QED
    BY <1>1, <2>1, <2>2 DEF Budget
<1>8. ReplyIsOld'
  BY <1>1, SupervisorFields DEF Inv, Dialogue, ReplyIsOld, TypeOK
<1>9. CallsInOrder'
  <2> SUFFICES ASSUME NEW k \in 1..Len(queue'), queue'[k].event = "dismiss"
               PROVE  /\ queue'[k].call <= calls'
                      /\ supervisor.pending.reply < queue'[k].call
                      /\ \A m \in 1..k - 1 :
                           queue'[m].event = "dismiss" => queue'[m].call < queue'[k].call
                      /\ Given(k, queue[k].call)'
    BY DEF CallsInOrder, CallAt
  <2>1. PICK c : c = queue'[k].call
    OBVIOUS
  <2>2. \A m \in 1..len : queue[m].event = "dismiss" =>
          queue[m].call \in Nat /\ queue[m].call <= calls
    BY <1>2, <1>3, EventFields DEF Inv, Dialogue, CallsInOrder, CallAt
  <2>3. supervisor.pending.reply \in Nat /\ supervisor.pending.reply <= calls
    BY <1>1, SupervisorFields DEF Inv, Dialogue, ReplyIsOld, TypeOK
  <2>4. CASE k = len + 1
    <3>1. e.event = "dismiss" /\ c = calls + 1 /\ calls' = calls + 1 /\ daemon' = "waits"
      BY <1>3, <2>1, <2>4
    <3>2. \A m \in 1..k - 1 : queue'[m].event = "dismiss" => queue'[m].call < c
      BY <1>1, <1>2, <1>3, <2>2, <2>4, <3>1
    <3>3. Given(k, queue[k].call)'
      BY <1>5, <2>1, <2>4, <3>1 DEF Given
    <3>4. c <= calls' /\ supervisor.pending.reply < c
      BY <1>1, <2>3, <3>1
    <3> QED
      BY <2>1, <3>2, <3>3, <3>4
  <2>5. CASE k # len + 1
    <3>1. k \in 1..Len(queue) /\ k \in 0..len /\ queue'[k] = queue[k]
      BY <1>2, <1>3, <2>5
    <3>2. \A m \in 1..k - 1 : queue'[m] = queue[m]
      BY <1>2, <1>3, <3>1
    <3>3. /\ c <= calls /\ supervisor.pending.reply < c /\ Given(k, c)
          /\ \A m \in 1..k - 1 : queue[m].event = "dismiss" => queue[m].call < c
      BY <2>1, <3>1 DEF Inv, Dialogue, CallsInOrder, CallAt
    <3>4. c \in Nat
      BY <1>2, <2>1, <2>2, <3>1
    <3>5. c <= calls'
      BY <1>1, <3>3, <3>4
    <3>6. Given(k, c)'
      BY <1>4, <3>1, <3>3
    <3>7. Given(k, queue[k].call)'
      BY <2>1, <3>6 DEF Given
    <3> QED
      BY <2>1, <3>2, <3>3, <3>5, <3>7
  <2> QED
    BY <2>4, <2>5
<1>10. ClosedIsLast'
  <2>1. ~supervisor.closed /\ \A k \in 1..Len(queue) : queue[k].event # "closed"
    BY DEF Inv, Dialogue, ClosedIsLast
  <2>2. ASSUME NEW k \in 1..Len(queue'), queue'[k].event = "closed" PROVE daemon' = "closed"
    BY <1>2, <1>3, <2>1, <2>2
  <2> QED
    BY <2>1, <2>2 DEF ClosedIsLast
<1>11. ASSUME NEW g \in Generations, Held(g) PROVE Held(g)'
  <2>1. PICK c : c = supervisor.pending.reply
    OBVIOUS
  <2>2. Given(0, c)'
    BY <1>2, <1>4, <1>11, <2>1 DEF Held
  <2> QED
    BY <1>11, <2>1, <2>2 DEF Held, Given
<1>12. DismissedIsOff'
  BY <1>11 DEF Inv, Dialogue, DismissedIsOff, Off, Alive
<1>13. WaitIsServed'
  <2> SUFFICES ASSUME daemon' = "waits" PROVE WaitIsServed'
    BY DEF WaitIsServed
  <2>1. len + 1 \in 1..Len(queue') /\ calls' # 0
    BY <1>1, <1>3
  <2> QED
    BY <1>3, <1>5, <2>1 DEF WaitIsServed
<1>14. AnswerIsSafe' /\ PasteAtRest'
  BY DEF AnswerIsSafe, PasteAtRest
<1> QED
  BY <1>6, <1>7, <1>8, <1>9, <1>10, <1>12, <1>13, <1>14 DEF Inv, Dialogue

(* In a state at rest the daemon may go on to paste, and end it. *)
LEMMA RestInv ==
  ASSUME Inv, TypeOK', AtRest, daemon # "closed", daemon' \in {"free", "pastes"},
         answer'.call = 0, UNCHANGED <<calls, updates, queue, supervisor, helpers>>
  PROVE  Inv'
<1>1. Known' /\ Budget'
  BY DEF Inv, Known, NoneBeyond, KnownGenerations, StartsUnseen, StoppedHasNone,
         UnmanagedIsTrue, EventsAreTrue, Sound, Dated, ExitIsTrue, CreatedIsTrue,
         OpenHelperIsOwned, Alive, Budget
<1>2. AtRest'
  BY DEF AtRest, AllOff, Alive
<1>3. CallsInOrder' /\ ReplyIsOld'
  BY DEF Inv, Dialogue, CallsInOrder, CallAt, ReplyIsOld, AtRest, SilentAfter, OfDaemon
<1>4. ClosedIsLast'
  BY DEF Inv, Dialogue, ClosedIsLast
<1>5. DismissedIsOff'
  BY <1>2 DEF DismissedIsOff, AtRest, AllOff, Off
<1>6. WaitIsServed' /\ AnswerIsSafe' /\ PasteAtRest'
  BY <1>2 DEF WaitIsServed, AnswerIsSafe, PasteAtRest
<1> QED
  BY <1>1, <1>3, <1>4, <1>5, <1>6 DEF Inv, Dialogue

(* A queue stays within its bound. *)
LEMMA EnqueueType ==
  ASSUME TypeOK, NEW e \in Events, Enqueue(e)
  PROVE  queue' = Append(queue, e) /\ queue' \in Seq(Events) /\ Len(queue') <= MaxQueue
<1>1. /\ queue \in Seq(Events) /\ Len(queue) \in Nat /\ Len(queue) < MaxQueue
      /\ queue' = Append(queue, e)
  BY DEF TypeOK, Enqueue
<1> QED
  BY <1>1, Appended, Bounds

(* There is an answer only for a wait. *)
LEMMA FreeHasNoAnswer ==
  ASSUME Inv
  PROVE  /\ daemon # "waits" => answer.call = 0
         /\ answer.call # calls => answer.call = 0
BY DEF Inv, Dialogue, AnswerIsSafe

(* Sending an update keeps the invariant. *)
LEMMA UpdateSentInv ==
  ASSUME Inv, NEW state \in States, Update(state)
  PROVE  Inv'
<1> DEFINE e == [event |-> "update", state |-> state]
<1>1. /\ daemon = "free" /\ updates < MaxUpdates /\ updates' = updates + 1
      /\ wanted' = state /\ Enqueue(e)
      /\ UNCHANGED <<daemon, calls, answer, supervisor, unavailable, helpers, failures>>
  BY DEF Update
<1>2. e \in Events /\ OfDaemon(e) /\ e.event = "update"
  BY DEF Events, OfDaemon
<1> HIDE DEF e
<1>3. TypeOK /\ answer.call = 0 /\ calls \in Nat
  BY <1>1, FreeHasNoAnswer, Bounds DEF Inv, TypeOK
<1>4. queue' = Append(queue, e) /\ queue' \in Seq(Events) /\ Len(queue') <= MaxQueue
  BY <1>1, <1>2, <1>3, EnqueueType
<1>5. updates' \in 0..MaxUpdates
  BY <1>1, <1>3, Bounds DEF TypeOK
<1>6. TypeOK'
  BY <1>1, <1>3, <1>4, <1>5 DEF TypeOK
<1> QED
  BY <1>1, <1>2, <1>3, <1>4, <1>6, DaemonInv

(* Sending a dismissal keeps the invariant. *)
LEMMA DismissSentInv ==
  ASSUME Inv, DismissAndWait
  PROVE  Inv'
<1> DEFINE e == [event |-> "dismiss", call |-> calls']
<1>1. /\ daemon = "free" /\ calls < MaxDismissals /\ daemon' = "waits"
      /\ calls' = calls + 1 /\ wanted' = "hidden" /\ Enqueue(e)
      /\ UNCHANGED <<answer, updates, supervisor, unavailable, helpers, failures>>
  BY DEF DismissAndWait
<1>2. TypeOK /\ answer.call = 0 /\ updates \in Nat
  BY <1>1, FreeHasNoAnswer, Bounds DEF Inv, TypeOK
<1>3. calls' \in 1..MaxDismissals
  BY <1>1, <1>2, Bounds DEF TypeOK
<1>4. e \in Events /\ OfDaemon(e) /\ e.event = "dismiss" /\ e.call = calls'
  BY <1>3 DEF Events, OfDaemon
<1> HIDE DEF e
<1>5. queue' = Append(queue, e) /\ queue' \in Seq(Events) /\ Len(queue') <= MaxQueue
  BY <1>1, <1>2, <1>4, EnqueueType
<1>6. TypeOK'
  BY <1>1, <1>2, <1>3, <1>5 DEF TypeOK, States
<1> QED
  BY <1>1, <1>2, <1>4, <1>5, <1>6, DaemonInv

(* Giving the wait up keeps the invariant. *)
LEMMA TimeoutInv ==
  ASSUME Inv, WaitTimesOut
  PROVE  Inv'
<1> DEFINE e == [event |-> "force"]
<1>1. /\ daemon = "waits" /\ answer.call # calls /\ daemon' = "free" /\ Enqueue(e)
      /\ UNCHANGED <<calls, answer, updates, wanted, supervisor, unavailable, helpers,
                     failures>>
  BY DEF WaitTimesOut
<1>2. TypeOK /\ answer.call = 0 /\ updates \in Nat /\ calls \in Nat
  BY <1>1, FreeHasNoAnswer, Bounds DEF Inv, TypeOK
<1>3. e \in Events /\ OfDaemon(e) /\ e.event = "force"
  BY DEF Events, OfDaemon
<1> HIDE DEF e
<1>4. queue' = Append(queue, e) /\ queue' \in Seq(Events) /\ Len(queue') <= MaxQueue
  BY <1>1, <1>2, <1>3, EnqueueType
<1>5. TypeOK'
  BY <1>1, <1>2, <1>4 DEF TypeOK
<1> QED
  BY <1>1, <1>2, <1>3, <1>4, <1>5, DaemonInv

(* The end of the daemon keeps the invariant. *)
LEMMA CloseInv ==
  ASSUME Inv, Close
  PROVE  Inv'
<1> DEFINE e == [event |-> "closed"]
<1>1. /\ daemon = "free" /\ daemon' = "closed" /\ wanted' = "hidden" /\ Enqueue(e)
      /\ UNCHANGED <<calls, answer, updates, supervisor, unavailable, helpers, failures>>
  BY DEF Close
<1>2. TypeOK /\ answer.call = 0 /\ updates \in Nat /\ calls \in Nat
  BY <1>1, FreeHasNoAnswer, Bounds DEF Inv, TypeOK
<1>3. e \in Events /\ OfDaemon(e) /\ e.event = "closed"
  BY DEF Events, OfDaemon
<1> HIDE DEF e
<1>4. queue' = Append(queue, e) /\ queue' \in Seq(Events) /\ Len(queue') <= MaxQueue
  BY <1>1, <1>2, <1>3, EnqueueType
<1>5. TypeOK'
  BY <1>1, <1>2, <1>4 DEF TypeOK, States
<1> QED
  BY <1>1, <1>2, <1>3, <1>4, <1>5, DaemonInv

(* Taking the answer keeps the invariant: the paste starts at rest. *)
LEMMA AnswerTakenInv ==
  ASSUME Inv, TakesAnswer
  PROVE  Inv'
<1>1. /\ daemon = "waits" /\ answer.call = calls /\ daemon' \in {"pastes", "free"}
      /\ answer' = NoAnswer
      /\ UNCHANGED <<calls, updates, wanted, queue, supervisor, unavailable, helpers,
                     failures>>
  BY DEF TakesAnswer
<1>2. calls # 0 /\ AtRest
  BY <1>1 DEF Inv, Dialogue, WaitIsServed, AnswerIsSafe
<1>3. PICK off \in BOOLEAN : off = FALSE
  OBVIOUS
<1>4. NoAnswer = [call |-> 0, ok |-> off]
  BY <1>3, Zenon DEF NoAnswer
<1>5. NoAnswer \in [call : 0..MaxDismissals, ok : BOOLEAN] /\ NoAnswer.call = 0
  BY <1>4, Bounds
<1>6. TypeOK'
  BY <1>1, <1>5 DEF Inv, TypeOK
<1> QED
  BY <1>1, <1>2, <1>5, <1>6, RestInv

(* The end of the paste keeps the invariant. *)
LEMMA PasteEndsInv ==
  ASSUME Inv, PasteEnds
  PROVE  Inv'
<1>1. /\ daemon = "pastes" /\ daemon' = "free"
      /\ UNCHANGED <<calls, answer, updates, wanted, queue, supervisor, unavailable,
                     helpers, failures>>
  BY DEF PasteEnds
<1>2. AtRest /\ answer.call = 0
  BY <1>1, FreeHasNoAnswer DEF Inv, Dialogue, PasteAtRest
<1>3. TypeOK'
  BY <1>1 DEF Inv, TypeOK
<1> QED
  BY <1>1, <1>2, <1>3, RestInv
--------------------------------------------------------------------------------
(* It holds at the start. *)
LEMMA InitInv == Init => Inv
<1> SUFFICES ASSUME Init PROVE Inv
  OBVIOUS
<1>1. /\ daemon = "free" /\ calls = 0 /\ answer = NoAnswer /\ updates = 0
      /\ wanted = "hidden" /\ queue = <<>>
      /\ helpers = [g \in Generations |-> NoProcess] /\ failures = 0
  BY DEF Init
<1>2. PICK off \in BOOLEAN : off = FALSE
  OBVIOUS
<1>3. supervisor = [running |-> off, helper |-> NoHelper, last |-> "none", restarts |-> 0,
                    generation |-> 0, notice |-> off, closed |-> off,
                    pending |-> NoDismissal]
  BY <1>2, Zenon DEF Init
<1>4. /\ NoDismissal \in Dismissals /\ NoDismissal.generation = 0 /\ NoDismissal.reply = 0
      /\ 0 \in 0..AutomaticRestartLimit /\ 0 \in 0..MaxDismissals /\ 0 \in 0..MaxUpdates
      /\ 0 \in 0..MaxFailures
  BY Bounds DEF NoDismissal, Dismissals, AutomaticRestartLimit
<1>5. NoHelper \in Helpers /\ NoHelper.generation = 0
  BY <1>2 DEF NoHelper, Helpers
<1>6. supervisor \in Supervisors
  BY <1>2, <1>3, <1>4, <1>5 DEF Supervisors
<1>7. /\ supervisor.generation = 0 /\ supervisor.helper.generation = 0
      /\ supervisor.pending.generation = 0 /\ supervisor.pending.reply = 0
      /\ supervisor.restarts = 0
  BY <1>3, <1>4, <1>5
<1>8. supervisor.running = off /\ supervisor.closed = off
  BY <1>3
<1>9. NoProcess = [at |-> "none", window |-> "none", input |-> off, stuck |-> off,
                   left |-> off]
  BY <1>2, Zenon DEF NoProcess
<1>10. NoProcess \in Processes /\ NoProcess.at = "none"
  BY <1>9 DEF Processes
<1>11. helpers \in [Generations -> Processes] /\ \A g \in Generations : ~Alive(g)
  BY <1>1, <1>10 DEF Alive
<1>12. \A g \in Generations : helpers[g].at = "none"
  BY <1>1, <1>10
<1>13. NoAnswer = [call |-> 0, ok |-> off]
  BY <1>2, Zenon DEF NoAnswer
<1>14. answer \in [call : 0..MaxDismissals, ok : BOOLEAN] /\ answer.call = 0
  BY <1>1, <1>4, <1>13
<1>15. queue \in Seq(Events) /\ Len(queue) = 0 /\ Len(queue) <= MaxQueue
  BY <1>1, Bounds
<1>16. unavailable \in BOOLEAN
  BY DEF Init
<1>17. TypeOK
  BY <1>1, <1>4, <1>6, <1>11, <1>14, <1>15, <1>16 DEF TypeOK, States
<1>18. Known
  <2>1. NoneBeyond /\ StartsUnseen /\ KnownGenerations /\ StoppedHasNone
    BY <1>7, <1>12 DEF NoneBeyond, StartsUnseen, KnownGenerations, StoppedHasNone
  <2>2. UnmanagedIsTrue /\ OpenHelperIsOwned
    BY <1>11 DEF UnmanagedIsTrue, OpenHelperIsOwned
  <2>3. EventsAreTrue
    BY <1>15 DEF EventsAreTrue
  <2> QED
    BY <2>1, <2>2, <2>3 DEF Known
<1>19. Budget
  <2>1. Updates(queue) = {}
    BY <1>15 DEF Updates
  <2>2. Cardinality(Updates(queue)) = 0
    BY <2>1, FS_EmptySet
  <2> QED
    BY <1>1, <1>7, <2>2 DEF Budget
<1>20. Dialogue
  <2>1. CallsInOrder /\ ReplyIsOld
    BY <1>1, <1>7, <1>15 DEF CallsInOrder, ReplyIsOld
  <2>2. ClosedIsLast
    BY <1>2, <1>8, <1>15 DEF ClosedIsLast
  <2>3. DismissedIsOff
    BY <1>11 DEF DismissedIsOff
  <2>4. WaitIsServed /\ AnswerIsSafe /\ PasteAtRest
    BY <1>1, <1>14 DEF WaitIsServed, AnswerIsSafe, PasteAtRest
  <2> QED
    BY <2>1, <2>2, <2>3, <2>4 DEF Dialogue
<1> QED
  BY <1>17, <1>18, <1>19, <1>20 DEF Inv

(* A step that changes nothing keeps it. *)
LEMMA StutterInv ==
  ASSUME Inv, UNCHANGED vars
  PROVE  Inv'
<1>1. UNCHANGED <<daemon, calls, answer, updates, wanted, queue, supervisor, unavailable,
                  helpers, failures>>
  BY DEF vars
<1>2. TypeOK' /\ Budget'
  BY <1>1 DEF Inv, TypeOK, Budget
<1>3. Known'
  BY <1>1 DEF Inv, Known, NoneBeyond, KnownGenerations, StartsUnseen, StoppedHasNone,
              UnmanagedIsTrue, EventsAreTrue, Sound, Dated, ExitIsTrue, CreatedIsTrue,
              OpenHelperIsOwned, Alive
<1>4. CallsInOrder' /\ ReplyIsOld' /\ ClosedIsLast' /\ WaitIsServed'
  BY <1>1 DEF Inv, Dialogue, CallsInOrder, CallAt, Given, ReplyIsOld, ClosedIsLast,
              WaitIsServed
<1>5. DismissedIsOff' /\ AnswerIsSafe' /\ PasteAtRest'
  BY <1>1 DEF Inv, Dialogue, DismissedIsOff, Off, Held, Given, AnswerIsSafe, PasteAtRest,
              AtRest, AllOff, Alive
<1> QED
  BY <1>2, <1>3, <1>4, <1>5 DEF Inv, Dialogue

(* Every step keeps it. *)
LEMMA NextInv ==
  ASSUME Inv, [Next]_vars
  PROVE  Inv'
<1>1. ASSUME NEW state \in States, Update(state) PROVE Inv'
  BY <1>1, UpdateSentInv
<1>2. CASE DismissAndWait
  BY <1>2, DismissSentInv
<1>3. CASE TakesAnswer
  BY <1>3, AnswerTakenInv
<1>4. CASE WaitTimesOut
  BY <1>4, TimeoutInv
<1>5. CASE PasteEnds
  BY <1>5, PasteEndsInv
<1>6. CASE Close
  BY <1>6, CloseInv
<1>7. CASE HelperSteps
  BY <1>7, HelperStepsInv
<1>8. CASE Handle
  BY <1>8, HandleInv
<1>9. CASE EndNotice
  BY <1>9, EndNoticeInv
<1>10. CASE TeardownTimesOut
  BY <1>10, TeardownInv
<1>11. CASE UNCHANGED vars
  BY <1>11, StutterInv
<1> QED
  BY <1>1, <1>2, <1>3, <1>4, <1>5, <1>6, <1>7, <1>8, <1>9, <1>10, <1>11
  DEF Next, PresenterSteps

(* It implies the property. *)
LEMMA InvIsEnough == Inv => HelpersAreKnown
<1> SUFFICES ASSUME Inv PROVE HelpersAreKnown
  OBVIOUS
<1>1. TypeOK /\ OpenHelperIsOwned
  BY DEF Inv, Known
<1>2. PasteIsSafe
  BY DEF Inv, Dialogue, PasteAtRest, AtRest, AllOff, PasteIsSafe
<1>3. RestartsAreBounded
  <2>1. /\ supervisor.generation \in Nat /\ supervisor.restarts \in Nat /\ updates \in Nat
        /\ Cardinality(Updates(queue)) \in Nat
    BY <1>1, SupervisorFields, UpdatesCounted, Bounds DEF TypeOK
  <2>2. supervisor.generation <= 2 * updates
    BY <2>1 DEF Inv, Budget
  <2> QED
    BY <2>2 DEF RestartsAreBounded, AutomaticRestartLimit
<1> QED
  BY <1>1, <1>2, <1>3 DEF HelpersAreKnown

(* However many updates and pastes there are, and whichever helpers fail: a paste goes
      on only while no helper can take the focus, every helper that waits for updates is
      the supervisor's, and launches are bounded by the updates (supervisor.rs handlers). *)
THEOREM OverlayInvariance == Spec => []HelpersAreKnown
<1>1. Inv /\ [Next]_vars => Inv'
  BY NextInv
<1> QED
  BY <1>1, InitInv, InvIsEnough, PTL DEF Spec
====================================================================================
