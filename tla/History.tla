---------------------------------- MODULE History ---------------------------------
(* What the settings window shows of the daemon's database: WorkspaceClient and its
   watcher (crates/agentdictate-app/src/workspace.rs), DatabaseObserver and the
   History pages (crates/agentdictate-runtime/src/observer.rs, history.rs), and the
   window's history lane, actions and updates
   (crates/agentdictate-ui/src/desktop/workspace_actions.rs, history_action_lane.rs).

   Searches, actions and the watcher read under the client's lock, each on a thread of
   its own, and the UI thread applies what they read when it gets to it.  Numbered
   reads tell a late answer from the latest.

   A dictation is its place in (ended_at, id), newest last.  Usage, Recovery, the
   wording of the banners and malformed cursors (the window makes none) are left out. *)
EXTENDS Integers, Sequences, FiniteSets, FiniteSetsExt

CONSTANTS
  Dictations,   \* 1..n, in the order of ended_at and id
  Matching,     \* those the search "some" finds; the search "all" finds every one
  FirstPage,    \* DEFAULT_HISTORY_PAGE_SIZE
  NextPage,     \* HISTORY_CONTINUATION_PAGE_SIZE
  MaxTurns      \* bound: clicks, the daemon's own commits, stops and failed reads

ASSUME DictationsAssumption == Dictations = 1..Cardinality(Dictations)
ASSUME MatchingAssumption == Matching \subseteq Dictations
ASSUME PagesAssumption == {FirstPage, NextPage} \subseteq Nat \ {0}
ASSUME TurnsAssumption == MaxTurns \in Nat

VARIABLES
  stored,     \* the dictations in the database
  version,    \* its data_version
  daemon,     \* "up", "down", or "newer": up, from a later AgentDictate
  turns,      \* clicks, commits, stops and failed reads so far
  fileEvents,     \* file events the watcher has not read
  watcher,    \* the watcher thread, and what it has read so far
  client,     \* WorkspaceClientState
  window,     \* model.workspace
  typed,      \* the text of the search box
  lane,       \* HistoryActionLane and its read
  action,     \* the workspace action in flight
  confirming, \* pending_destructive_action
  updates,    \* view models on their way to the window
  excuse      \* a read failed, a late answer replaced a later one, or the daemon
              \* stopped between the window's connection and its watcher

historyVars == <<stored, version, daemon, turns, fileEvents, watcher,
                 client, window, typed, lane, action, confirming, updates, excuse>>

Searches == {"all", "some"}
Fits(search, i) == search = "all" \/ i \in Matching

NoPage == [search |-> "all", rows |-> {}, cursor |-> 0]
NoAction == [kind |-> "none", id |-> 0]
Failed == [failed |-> TRUE]

--------------------------------------------------------------------------------
(* History pages *)

(* Mutant of HistoryPage: the cursor is the extra row that says more follow. *)
HistoryPageFromExtra(search, after, size) ==
  LET matches == {i \in stored : Fits(search, i) /\ (after # 0 => i < after)}
      Rows(n) == {i \in matches : Cardinality({j \in matches : j > i}) < n}
  IN [search |-> search, rows |-> Rows(size),
      cursor |-> IF matches # Rows(size) THEN Min(Rows(size + 1)) ELSE 0]

(* The newest `size` matches below the cursor `after`, and the next cursor. *)
HistoryPage(search, after, size) ==
  LET matches == {i \in stored : Fits(search, i) /\ (after # 0 => i < after)}
      rows == {i \in matches : Cardinality({j \in matches : j > i}) < size}
  IN [search |-> search, rows |-> rows,
      cursor |-> IF matches # rows THEN Min(rows) ELSE 0]

(* `perform`'s LoadMoreHistory: the next page, under the rows shown. *)
MorePage(shown) ==
  IF shown.cursor = 0 THEN shown
  ELSE LET next == HistoryPage(shown.search, shown.cursor, NextPage)
       IN [next EXCEPT !.rows = @ \cup shown.rows]

(* Everything is read again, and History returns to its first page. *)
Reload(c) ==
  IF c.outdated THEN c
  ELSE IF daemon = "newer" THEN [c EXCEPT !.outdated = TRUE, !.nth = @ + 1]
  ELSE [c EXCEPT !.page = HistoryPage(c.page.search, 0, FirstPage), !.read = version,
                 !.nth = @ + 1]

Model(c) ==
  [page |-> c.page, nth |-> c.nth, outdated |-> c.outdated, away |-> c.away]

Turn == turns < MaxTurns /\ turns' = turns + 1

(* Late answers are applied as well. *)
Late(model) == model.nth < window.nth

--------------------------------------------------------------------------------
(* The daemon *)

Commit(rows) ==
  /\ stored' = rows
  /\ version' = version + 1
  /\ fileEvents' = fileEvents \cup {"database"}

(* A dictation is recorded, not always the newest, or expires. *)
Commits ==
  /\ daemon # "down"
  /\ Turn
  /\ \E i \in Dictations :
       Commit(IF i \in stored THEN stored \ {i} ELSE stored \cup {i})
  /\ UNCHANGED <<daemon, watcher, client, window, typed, lane, action, confirming,
                 updates, excuse>>

Stops ==
  /\ daemon = "up"                       \* bound: the later one stays up
  /\ Turn
  /\ daemon' = "down"
  /\ fileEvents' = fileEvents \cup {"status"}
  /\ excuse' = (excuse \/ watcher.at = "off")
  /\ UNCHANGED <<stored, version, watcher, client, window, typed, lane, action,
                 confirming, updates>>

(* A later AgentDictate migrates the database as it starts. *)
Starts ==
  /\ daemon = "down"
  /\ \/ /\ daemon' = "up"
        /\ fileEvents' = fileEvents \cup {"status"}
        /\ UNCHANGED version
     \/ /\ daemon' = "newer"
        /\ fileEvents' = fileEvents \cup {"status", "database"}
        /\ version' = version + 1
  /\ UNCHANGED <<stored, watcher, client, turns, window, typed, lane, action,
                 confirming, updates, excuse>>

--------------------------------------------------------------------------------
(* The watcher thread.  It is registered before the window's first read. *)

Registers ==
  /\ watcher.at = "off"
  /\ watcher' = [watcher EXCEPT !.at = "waits"]
  /\ fileEvents' = {}
  /\ UNCHANGED <<stored, version, daemon, turns, client, window, typed, lane, action,
                 confirming, updates, excuse>>

(* The watch cannot be set up, or its thread cannot wait any longer. *)
WatcherFails ==
  /\ watcher.at \in {"off", "waits"}
  /\ Turn
  /\ watcher' = [watcher EXCEPT !.at = "failed"]
  /\ UNCHANGED <<stored, version, daemon, fileEvents, client, window, typed, lane, action,
                 confirming, updates, excuse>>

Opens ==
  /\ window.nth = 0 /\ watcher.at # "off"
  /\ client' = Reload(client)
  /\ window' = Model(client')
  /\ UNCHANGED <<stored, version, daemon, turns, fileEvents, watcher, typed, lane, action,
                 confirming, updates, excuse>>

WatcherWakes ==
  /\ watcher.at = "waits" /\ fileEvents # {}
  /\ watcher' = [at |-> "asks", changed |-> fileEvents, update |-> Failed]
  /\ fileEvents' = {}
  /\ UNCHANGED <<stored, version, daemon, turns, client, window, typed, lane, action,
                 confirming, updates, excuse>>

(* `refresh_status` *)
WatcherAsks ==
  /\ watcher.at = "asks"
  /\ IF "status" \in watcher.changed
       THEN /\ client' = [client EXCEPT !.nth = @ + 1,
                 !.away = IF daemon = "newer" THEN @ ELSE daemon = "down",
                 !.outdated = @ \/ daemon = "newer"]
            /\ watcher' = [watcher EXCEPT !.at = "reads", !.update = Model(client')]
       ELSE /\ watcher' = [watcher EXCEPT !.at = "reads"]
            /\ UNCHANGED client
  /\ UNCHANGED <<stored, version, daemon, turns, fileEvents, window, typed, lane, action,
                 confirming, updates, excuse>>

(* What the watcher has read goes to the window; an outdated window is told last. *)
Send(model) ==
  /\ updates' = IF model = Failed THEN updates ELSE Append(updates, model)
  /\ watcher' = [at |-> IF model # Failed /\ model.outdated THEN "ended" ELSE "waits",
                 changed |-> {}, update |-> Failed]

(* Mutant of Unread: the window's own commands need no read of the watcher's. *)
UnreadUnlessActing == client.read # version /\ action.at = "none"

(* Something was committed since the client last read everything. *)
Unread == client.read # version

(* `refresh_if_changed` *)
WatcherReads ==
  /\ watcher.at = "reads"
  /\ IF "database" \in watcher.changed /\ (client.outdated \/ Unread)
       THEN /\ client' = Reload(client)
            /\ Send(Model(client'))
       ELSE /\ Send(watcher.update)
            /\ UNCHANGED client
  /\ UNCHANGED <<stored, version, daemon, turns, fileEvents, window, typed, lane, action,
                 confirming, excuse>>

WatcherCannotRead ==
  /\ watcher.at = "reads" /\ "database" \in watcher.changed
  /\ Turn
  /\ excuse' = TRUE
  /\ Send(watcher.update)
  /\ UNCHANGED <<stored, version, daemon, fileEvents, client, window, typed, lane, action,
                 confirming>>

Applies ==
  /\ window.nth # 0 /\ updates # <<>>
  /\ window' = Head(updates)
  /\ updates' = Tail(updates)
  /\ excuse' = (excuse \/ Late(Head(updates)))
  /\ UNCHANGED <<stored, version, daemon, turns, fileEvents, watcher, client, typed, lane,
                 action, confirming>>

--------------------------------------------------------------------------------
(* The history lane: one read at a time, the newest search next *)

IdleLane == [at |-> "idle", more |-> FALSE, search |-> "all", answer |-> Failed,
             pending |-> "none"]

Read(more, search) ==
  [IdleLane EXCEPT !.at = "reads", !.more = more, !.search = search]

(* Mutant of Schedule: the search that waits longest comes next. *)
ScheduleOldest(search) ==
  IF lane.at = "idle" THEN Read(FALSE, search)
  ELSE IF lane.pending = "none" THEN [lane EXCEPT !.pending = search]
  ELSE lane

Schedule(search) ==
  IF lane.at = "idle" THEN Read(FALSE, search) ELSE [lane EXCEPT !.pending = search]

Types(search) ==
  /\ window.nth # 0 /\ search # typed
  /\ Turn
  /\ typed' = search
  /\ lane' = Schedule(search)
  /\ UNCHANGED <<stored, version, daemon, fileEvents, watcher, client, window, action,
                 confirming, updates, excuse>>

(* A second "Show more" during a read is dropped. *)
ShowsMore ==
  /\ window.nth # 0 /\ window.page.cursor # 0 /\ lane.at = "idle"
  /\ Turn
  /\ lane' = Read(TRUE, "all")
  /\ UNCHANGED <<stored, version, daemon, fileEvents, watcher, client, window, typed,
                 action, confirming, updates, excuse>>

(* `read_history`, under the lock *)
LaneReads ==
  /\ lane.at = "reads"
  /\ IF daemon = "newer"
       THEN /\ client' = [client EXCEPT !.outdated = TRUE, !.nth = @ + 1]
            /\ lane' = [lane EXCEPT !.at = "answered"]
       ELSE /\ client' = [client EXCEPT !.nth = @ + 1,
                            !.page = IF lane.more THEN MorePage(@)
                                     ELSE HistoryPage(lane.search, 0, FirstPage)]
            /\ lane' = [lane EXCEPT !.at = "answered", !.answer = Model(client')]
  /\ UNCHANGED <<stored, version, daemon, turns, fileEvents, watcher, window, typed, action,
                 confirming, updates, excuse>>

LaneCannotRead ==
  /\ lane.at = "reads"
  /\ Turn
  /\ lane' = [lane EXCEPT !.at = "answered"]
  /\ UNCHANGED <<stored, version, daemon, fileEvents, watcher, client, window, typed,
                 action, confirming, updates, excuse>>

(* A queued search makes the finished read obsolete. *)
LaneCompletes ==
  /\ lane.at = "answered"
  /\ IF lane.pending # "none"
       THEN lane' = Read(FALSE, lane.pending) /\ UNCHANGED <<window, excuse>>
       ELSE /\ lane' = IdleLane
            /\ IF lane.answer = Failed
                 THEN excuse' = TRUE /\ UNCHANGED window
                 ELSE /\ window' = [window EXCEPT !.page = lane.answer.page,
                                                  !.nth = lane.answer.nth]
                      /\ excuse' = (excuse \/ Late(lane.answer))
  /\ UNCHANGED <<stored, version, daemon, turns, fileEvents, watcher, client, typed, action,
                 confirming, updates>>

--------------------------------------------------------------------------------
(* Workspace actions: one at a time; deletions ask for a second click *)

IdleAction == [at |-> "none", act |-> NoAction, answer |-> Failed]

(* `emit_workspace_action`; while one is in flight the click does nothing. *)
Emit(act) ==
  IF action.at # "none" THEN UNCHANGED <<action, confirming>>
  ELSE action' = [IdleAction EXCEPT !.at = "sends", !.act = act] /\ confirming' = NoAction

ClicksCopy(i) ==
  /\ window.nth # 0 /\ i \in window.page.rows
  /\ Turn
  /\ Emit([kind |-> "copy", id |-> i])
  /\ UNCHANGED <<stored, version, daemon, fileEvents, watcher, client, window, typed, lane,
                 updates, excuse>>

(* `request_destructive_action` *)
ClicksDelete(act) ==
  /\ window.nth # 0
  /\ Turn
  /\ act.kind = "delete" => act.id \in window.page.rows
  /\ IF confirming # act THEN confirming' = act /\ UNCHANGED action
     ELSE IF action.at # "none" THEN confirming' = NoAction /\ UNCHANGED action
     ELSE Emit(act)
  /\ UNCHANGED <<stored, version, daemon, fileEvents, watcher, client, window, typed, lane,
                 updates, excuse>>

(* What is stored once the daemon has carried out `act`. *)
Without(act) ==
  CASE act.kind = "delete" -> stored \ {act.id}
    [] act.kind = "clear" -> {}
    [] OTHER -> stored

CommitIfChanged(rows) ==
  IF rows = stored THEN UNCHANGED <<stored, version, fileEvents>> ELSE Commit(rows)

(* `send`: the daemon carries out the command before it replies. *)
ActionRuns ==
  /\ action.at = "sends" /\ daemon = "up"
  /\ action' = [action EXCEPT !.at = "reads"]
  /\ CommitIfChanged(Without(action.act))
  /\ UNCHANGED <<daemon, turns, watcher, client, window, typed, lane, confirming,
                 updates, excuse>>

(* The daemon refuses, or carries it out and its reply is lost. *)
ActionUnanswered ==
  /\ action.at = "sends" /\ daemon = "up"
  /\ Turn
  /\ action' = [action EXCEPT !.at = "answered"]
  /\ \E rows \in {stored, Without(action.act)} : CommitIfChanged(rows)
  /\ UNCHANGED <<daemon, watcher, client, window, typed, lane, confirming, updates,
                 excuse>>

ActionFindsNoDaemon ==
  /\ action.at = "sends" /\ daemon # "up"
  /\ action' = [action EXCEPT !.at = "answered"]
  /\ client' = IF daemon = "down" THEN client
               ELSE [client EXCEPT !.outdated = TRUE, !.nth = @ + 1]
  /\ UNCHANGED <<stored, version, daemon, turns, fileEvents, watcher, window, typed, lane,
                 confirming, updates, excuse>>

(* With the snapshot that came with the reply, which is Status's. *)
ActionReads ==
  /\ action.at = "reads"
  /\ client' = Reload(client)
  /\ action' = [action EXCEPT !.at = "answered", !.answer = Model(client')]
  /\ UNCHANGED <<stored, version, daemon, turns, fileEvents, watcher, window, typed, lane,
                 confirming, updates, excuse>>

ActionCannotRead ==
  /\ action.at = "reads"
  /\ Turn
  /\ excuse' = TRUE
  /\ action' = [action EXCEPT !.at = "answered"]
  /\ UNCHANGED <<stored, version, daemon, fileEvents, watcher, client, window, typed, lane,
                 confirming, updates>>

(* A successful action replaces everything the window shows. *)
ActionCompletes ==
  /\ action.at = "answered"
  /\ action' = IdleAction
  /\ IF action.answer = Failed THEN UNCHANGED <<window, excuse>>
     ELSE window' = action.answer /\ excuse' = (excuse \/ Late(action.answer))
  /\ UNCHANGED <<stored, version, daemon, turns, fileEvents, watcher, client, typed, lane,
                 confirming, updates>>

--------------------------------------------------------------------------------
HistoryInit ==
  /\ stored \in {{}, {i \in Dictations : i < Cardinality(Dictations)}}
  /\ version = 1 /\ daemon = "up"
  /\ turns = 0
  /\ fileEvents = {}
  /\ watcher = [at |-> "off", changed |-> {}, update |-> Failed]
  /\ client = [page |-> NoPage, nth |-> 0, read |-> 0, outdated |-> FALSE, away |-> FALSE]
  /\ window = Model(client)
  /\ typed = "all"
  /\ lane = IdleLane /\ action = IdleAction /\ confirming = NoAction
  /\ updates = <<>> /\ excuse = FALSE

(* What happens without the user *)
HistoryThreads ==
  \/ Registers \/ Opens \/ WatcherWakes \/ WatcherAsks \/ WatcherReads \/ Applies
  \/ LaneReads \/ LaneCompletes \/ ActionRuns \/ ActionFindsNoDaemon
  \/ ActionReads \/ ActionCompletes

HistoryWorld ==
  Commits \/ Stops \/ Starts \/ WatcherFails \/ WatcherCannotRead \/ LaneCannotRead
  \/ ActionUnanswered \/ ActionCannotRead

HistoryClicks ==
  \/ \E search \in Searches : Types(search)
  \/ ShowsMore
  \/ \E i \in Dictations : ClicksCopy(i) \/ ClicksDelete([kind |-> "delete", id |-> i])
  \/ ClicksDelete([kind |-> "clear", id |-> 0])

--------------------------------------------------------------------------------
(* Properties *)

(* When the lane is idle, what the client holds, and pages from, is the search the box
   shows, however many searches were typed during slow reads
   (history_action_lane.rs), unless a read failed. *)
SearchIsTyped == lane.at = "idle" /\ ~excuse => client.page.search = typed

(* The rows shown are all that match, down to the last of them. *)
Agrees(page) ==
  /\ page.rows \subseteq stored
  /\ \A i \in stored : Fits(page.search, i) =>
       \/ i \in page.rows
       \/ page.rows # {} /\ i < Min(page.rows)

(* However commits fall between the registration of the watcher, its waking, its
   questions and the reads of actions and searches, the window comes to show the
   database as it is and whether the daemon answers (workspace.rs), or asks to be
   reopened.  A read that fails, or an answer applied after a later one, excuses it:
   nothing reads again until the next change.  A window without its watcher follows
   nothing but its own actions. *)
WindowIsCurrent ==
  \/ Agrees(window.page) /\ window.away = (daemon = "down")
  \/ window.outdated
  \/ excuse
  \/ watcher.at = "failed"
WindowCatchesUp == <>[]WindowIsCurrent

================================================================================
