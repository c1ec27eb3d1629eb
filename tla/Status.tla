----------------------------------- MODULE Status -----------------------------------
(* What the daemon shows without its lock: DaemonStatus and its check of the desktop
   (crates/agentdictate-app/src/daemon.rs), the tray's menu and its action worker
   (tray.rs), the `status` file (status_signal.rs), and the snapshot of a session
   (crates/agentdictate-runtime/src/ipc.rs), which the open window reads on its watcher's
   thread, with every action and after a grant (workspace.rs, setup.rs).

   Of a snapshot the window shows the readiness: here the shortcut's and, of the desktop's,
   the device changes it knows of.  Snapshots are numbered as they are made.

   Device changes are numbered; a check finds those there were when it looked.          *)
EXTENDS Integers, Sequences

CONSTANTS
  RecheckInterval,  \* DESKTOP_RECHECK_INTERVAL
  MaxClock,         \* bound: the clock
  MaxChanges,       \* bound: starts, stops and clicks
  MaxDevices,       \* bound: device changes
  MaxPolls          \* bound: sessions of Setup and of actions

ASSUME StatusBoundsAssumption ==
  RecheckInterval \in Nat \ {0} /\ {MaxClock, MaxChanges, MaxDevices, MaxPolls} \subseteq Nat

VARIABLES
  phase,      \* the workflow's
  holder,     \* what the thread that holds the daemon lock does next
  mirror,     \* DaemonStatus::recording
  shortcut,   \* DaemonStatus::hotkey: whether the shortcut is ready
  since,      \* history: the device changes counted when that last changed
  changes,    \* DaemonStatus::changes
  devices,    \* device changes so far
  listened,   \* their events on the way to the hotkey loop
  loop,       \* the hotkey loop
  desktop,    \* DesktopCheck
  clock, turned, polls,
  refresher,  \* the tray's refresher thread
  menu,       \* whether the tray's item says "Stop dictation"
  clicked,    \* the items clicked, as the menu named them
  mistaken,   \* history: an item did the other thing than it said
  signaler,   \* the changes the thread that writes the `status` file has seen
  touched,    \* the file was written since the window's watcher last looked
  unheard,    \* history: of a change since then the watcher was not told
  asking,     \* the sessions of the window
  rendered,   \* snapshots so far
  kept,       \* WorkspaceClientState::status
  posted,     \* what the watcher sends to the window
  shown,      \* what the window shows
  overtaken   \* history: a later check or snapshot was replaced by an earlier one

statusVars == <<phase, holder, mirror, shortcut, since, changes, devices, listened, loop,
                desktop, clock, turned, polls, refresher, menu, clicked, mistaken,
                signaler, touched, unheard, asking, rendered, kept, posted, shown, overtaken>>
daemonSide == <<phase, holder, mirror>>
loopSide == <<shortcut, since, listened, loop>>
traySide == <<refresher, menu, clicked, mistaken>>
signals == <<signaler, touched, unheard>>
clientSide == <<rendered, kept, posted, shown>>
windowSide == <<signals, asking, clientSide>>
bounds == <<clock, turned, polls>>

Askers == {"watcher", "setup", "action"}
IsOn == phase = "recording"
Resting == [at |-> "idle"]
Turns == turned < MaxChanges /\ turned' = turned + 1
Polls == polls < MaxPolls /\ polls' = polls + 1

StatusInit ==
  /\ phase = "ready" /\ holder = "none" /\ mirror = FALSE
  /\ shortcut \in BOOLEAN /\ since = 0 /\ changes = 0
  /\ devices = 0 /\ listened = <<>> /\ loop = Resting
  /\ desktop = [found |-> 0, foundAt |-> 0, checkedAt |-> 0, counted |-> 0, checked |-> 0]
  /\ clock = 0 /\ turned = 0 /\ polls = 0
  /\ refresher = [at |-> "wait", seen |-> 0] /\ menu = FALSE
  /\ clicked = <<>> /\ mistaken = FALSE
  /\ signaler = 0 /\ touched = FALSE /\ unheard = FALSE
  /\ asking = [[a \in Askers |-> Resting] EXCEPT !["watcher"] = [at |-> "off"]]
  /\ rendered = 0 /\ kept = [shortcut |-> shortcut, found |-> 0, nth |-> 0]
  /\ posted = <<>> /\ shown = kept
  /\ overtaken = FALSE

--------------------------------------------------------------------------------
(* The daemon, under its lock *)

Changes(to) ==
  /\ phase' = to
  /\ holder' = "publish"
  /\ UNCHANGED mirror

(* A dictation starts, stops, or ends. *)
Dictates ==
  /\ holder = "none" /\ Turns
  /\ Changes(CASE phase = "ready" -> "recording"
               [] phase = "recording" -> "processing"
               [] phase = "processing" -> "ready")
  /\ UNCHANGED <<loopSide, changes, devices, desktop, clock, polls, traySide, windowSide,
                 overtaken>>

(* Mutant of Publishes: those who wait are woken before the mirror is set. *)
PublishesLate ==
  /\ \/ holder = "publish" /\ mirror # IsOn /\ changes' = changes + 1
        /\ holder' = "notify" /\ UNCHANGED mirror
     \/ holder = "publish" /\ mirror = IsOn
        /\ holder' = "none" /\ UNCHANGED <<mirror, changes>>
     \/ holder = "notify" /\ mirror' = IsOn /\ holder' = "none" /\ UNCHANGED changes
  /\ UNCHANGED <<phase, loopSide, devices, desktop, bounds, traySide, windowSide, overtaken>>

(* `publish`: the mirror, then those who wait for a change of it. *)
Publishes ==
  /\ \/ /\ holder = "publish" /\ mirror' = IsOn
        /\ holder' = IF mirror = IsOn THEN "none" ELSE "notify"
        /\ UNCHANGED changes
     \/ holder = "notify" /\ changes' = changes + 1 /\ holder' = "none" /\ UNCHANGED mirror
  /\ UNCHANGED <<phase, loopSide, devices, desktop, bounds, traySide, windowSide, overtaken>>

--------------------------------------------------------------------------------
(* The hotkey loop, which never waits for that lock *)

(* A device appears, goes, or changes its access; the listener can read one, or none. *)
DeviceChanges ==
  /\ devices < MaxDevices /\ devices' = devices + 1
  /\ \E readable \in BOOLEAN : listened' = Append(listened, readable)
  /\ UNCHANGED <<daemonSide, shortcut, since, loop, changes, desktop, bounds, traySide,
                 windowSide, overtaken>>

(* The change is counted before what the listener says of it is shown. *)
CountsDeviceChange ==
  /\ loop.at = "idle" /\ listened # <<>>
  /\ desktop' = [desktop EXCEPT !.counted = @ + 1]
  /\ loop' = [at |-> "set", ready |-> Head(listened)]
  /\ listened' = Tail(listened)
  /\ UNCHANGED <<daemonSide, shortcut, since, changes, devices, bounds, traySide,
                 windowSide, overtaken>>


(* `set_hotkey_readiness`. *)
SetsReadiness ==
  /\ \/ /\ loop.at = "set" /\ loop.ready # shortcut
        /\ shortcut' = loop.ready /\ since' = desktop.counted
        /\ loop' = [at |-> "notify"] /\ UNCHANGED changes
     \/ /\ loop.at = "set" /\ loop.ready = shortcut
        /\ loop' = Resting /\ UNCHANGED <<shortcut, since, changes>>
     \/ /\ loop.at = "notify" /\ changes' = changes + 1
        /\ loop' = Resting /\ UNCHANGED <<shortcut, since>>
  /\ UNCHANGED <<daemonSide, listened, devices, desktop, bounds, traySide, windowSide,
                 overtaken>>

ClockTicks ==
  /\ clock < MaxClock /\ clock' = clock + 1
  /\ UNCHANGED <<daemonSide, loopSide, changes, devices, desktop, turned, polls, traySide,
                 windowSide, overtaken>>

--------------------------------------------------------------------------------
(* The tray *)

(* `wait_for_change`, and the menu is rebuilt. *)
Refreshes ==
  /\ \/ /\ refresher.at = "wait" /\ refresher.seen # changes
        /\ refresher' = [at |-> "update", seen |-> changes] /\ UNCHANGED menu
     \/ /\ refresher.at = "update" /\ menu' = mirror
        /\ refresher' = [refresher EXCEPT !.at = "wait"]
  /\ UNCHANGED <<daemonSide, loopSide, changes, devices, desktop, bounds, clicked, mistaken,
                 windowSide, overtaken>>

Clicks ==
  /\ Turns
  /\ clicked' = Append(clicked, menu)
  /\ UNCHANGED <<daemonSide, loopSide, changes, devices, desktop, clock, polls, refresher,
                 menu, mistaken, windowSide, overtaken>>

(* `execute_tray_action` acts on the phase it finds; while a dictation is transcribed it
   does nothing. *)
TogglesDictation ==
  /\ clicked # <<>> /\ holder = "none"
  /\ clicked' = Tail(clicked)
  /\ \/ phase = "processing" /\ UNCHANGED <<daemonSide, mistaken>>
     \/ /\ phase # "processing" /\ Changes(IF IsOn THEN "processing" ELSE "recording")
        /\ mistaken' = (mistaken \/ Head(clicked) # IsOn)
  /\ UNCHANGED <<loopSide, changes, devices, desktop, bounds, refresher, menu, windowSide,
                 overtaken>>

--------------------------------------------------------------------------------
(* The window *)

AskerAt(a, place) == asking[a].at = place
Asks(a, session) == asking' = [asking EXCEPT ![a] = session]

Watching == asking["watcher"].at \notin {"off", "ended"}

(* `signal_status_changes` writes the file after each change, or cannot; either way it
   waits for the next. *)
Signals ==
  /\ signaler # changes
  /\ signaler' = changes
  /\ \/ Watching /\ touched' = TRUE /\ UNCHANGED unheard
     \/ unheard' = TRUE /\ UNCHANGED touched
  /\ UNCHANGED <<daemonSide, loopSide, changes, devices, desktop, bounds, traySide, asking,
                 clientSide, overtaken>>

(* `watch`, after the window's first session: what is written from now on is noticed. *)
StartsWatching ==
  /\ AskerAt("watcher", "off")
  /\ Asks("watcher", Resting)
  /\ UNCHANGED <<daemonSide, loopSide, changes, devices, desktop, bounds, traySide, signals,
                 clientSide, overtaken>>

(* The watch cannot be set up, or its thread cannot wait any longer. *)
StopsWatching ==
  /\ asking["watcher"].at \in {"off", "idle"}
  /\ Asks("watcher", [at |-> "ended"])
  /\ touched' = FALSE /\ unheard' = (unheard \/ touched)
  /\ UNCHANGED <<daemonSide, loopSide, changes, devices, desktop, bounds, traySide, signaler,
                 clientSide, overtaken>>

IsDue ==
  desktop.checked # desktop.counted \/ clock - desktop.checkedAt >= RecheckInterval

(* Before each snapshot `refresh_desktop_readiness` takes what was counted and the time;
   the check itself holds no lock. *)
Refreshing(greets) ==
  IF IsDue THEN [at |-> "check", greets |-> greets, now |-> clock, counted |-> desktop.counted]
  ELSE [at |-> "render", greets |-> greets]

(* The watcher asks after the file was written, Setup as often as it polls.  A session
   begins with a snapshot; that of an action makes another one for the command. *)
Connects(a) ==
  /\ \/ a = "watcher" /\ touched /\ touched' = FALSE /\ unheard' = FALSE /\ UNCHANGED polls
     \/ a # "watcher" /\ Polls /\ UNCHANGED <<touched, unheard>>
  /\ asking[a] = Resting \/ (a = "setup" /\ AskerAt(a, "shows"))
  /\ Asks(a, Refreshing(a = "action"))
  /\ UNCHANGED <<daemonSide, loopSide, changes, devices, desktop, clock, turned, traySide,
                 signaler, clientSide, overtaken>>

ChecksDesktop(a) ==
  /\ AskerAt(a, "check")
  /\ Asks(a, [at |-> "store", greets |-> asking[a].greets, now |-> asking[a].now,
              counted |-> asking[a].counted, found |-> devices, foundAt |-> clock])
  /\ UNCHANGED <<daemonSide, loopSide, changes, devices, desktop, bounds, traySide, signals,
                 clientSide, overtaken>>

Stored(a, checkedAt, checked) ==
  /\ AskerAt(a, "store")
  /\ desktop' = [found |-> asking[a].found, foundAt |-> asking[a].foundAt,
                 checkedAt |-> checkedAt, counted |-> desktop.counted, checked |-> checked]
  /\ overtaken' = (overtaken \/ asking[a].found < desktop.found)
  /\ Asks(a, [at |-> "render", greets |-> asking[a].greets])
  /\ UNCHANGED <<daemonSide, loopSide, changes, devices, bounds, traySide, signals, clientSide>>

(* Mutants of StoresCheck: what was counted, or the time, is taken when the check ends. *)
StoresCounted(a) == Stored(a, asking[a].now, desktop.counted)
StoresAsOfNow(a) == Stored(a, clock, asking[a].counted)

(* A slow check replaces a later one, and is due again. *)
StoresCheck(a) == Stored(a, asking[a].now, asking[a].counted)

(* The snapshot is made under the daemon lock.  An action does not look at its first. *)
Renders(a) ==
  /\ AskerAt(a, "render") /\ holder = "none"
  /\ \/ asking[a].greets /\ Asks(a, Refreshing(FALSE)) /\ UNCHANGED rendered
     \/ /\ ~asking[a].greets
        /\ rendered' = rendered + 1
        /\ Asks(a, [at |-> "answer", model |-> [shortcut |-> shortcut, found |-> desktop.found,
                                               nth |-> rendered']])
  /\ UNCHANGED <<daemonSide, loopSide, changes, devices, desktop, bounds, traySide, signals,
                 kept, posted, shown, overtaken>>

(* The asker has its view model: the watcher sends it to the window. *)
Models(a, model) ==
  IF a = "watcher" THEN posted' = Append(posted, model) /\ Asks(a, Resting)
  ELSE Asks(a, [at |-> "shows", model |-> model]) /\ UNCHANGED posted

(* `refresh_status` and `perform` keep the snapshot under the client's lock, taken after
   it came: it may replace a later one. *)
Keeps(a) ==
  /\ AskerAt(a, "answer")
  /\ kept' = asking[a].model
  /\ overtaken' = (overtaken \/ kept'.nth < kept.nth)
  /\ Models(a, kept')
  /\ UNCHANGED <<daemonSide, loopSide, changes, devices, desktop, bounds, traySide, signals,
                 rendered, shown>>

(* The answer is lost, or the command refused: `perform` fails, and `refresh_status` goes
   on with the status it has. *)
BreaksOff(a) ==
  /\ AskerAt(a, "answer")
  /\ IF a = "action" THEN Asks(a, Resting) /\ UNCHANGED posted ELSE Models(a, kept)
  /\ unheard' = (unheard \/ a = "watcher")
  /\ UNCHANGED <<daemonSide, loopSide, changes, devices, desktop, bounds, traySide, signaler,
                 touched, rendered, kept, shown, overtaken>>

(* The watcher reads the database, and sends the status with it. *)
Rereads ==
  /\ asking["watcher"] = Resting
  /\ posted = <<>>                          \* bound: one at a time
  /\ posted' = <<kept>>
  /\ UNCHANGED <<daemonSide, loopSide, changes, devices, desktop, bounds, traySide, signals,
                 asking, rendered, kept, shown, overtaken>>

(* `SelectUsagePeriod`, an action the client carries out itself. *)
SelectsPeriod ==
  /\ asking["action"] = Resting /\ Polls
  /\ Models("action", kept)
  /\ UNCHANGED <<daemonSide, loopSide, changes, devices, desktop, clock, turned, traySide,
                 signals, rendered, kept, shown, overtaken>>

(* The UI thread replaces what the window shows when it gets to it. *)
Shows(model) ==
  /\ shown' = model
  /\ overtaken' = (overtaken \/ model.nth < shown.nth)

AppliesStatus ==
  /\ posted # <<>>
  /\ Shows(Head(posted))
  /\ posted' = Tail(posted)
  /\ UNCHANGED <<daemonSide, loopSide, changes, devices, desktop, bounds, traySide, signals,
                 asking, rendered, kept>>

ShowsAnswer(a) ==
  /\ AskerAt(a, "shows")
  /\ Shows(asking[a].model)
  /\ Asks(a, Resting)
  /\ UNCHANGED <<daemonSide, loopSide, changes, devices, desktop, bounds, traySide, signals,
                 rendered, kept, posted>>

ClientSession(a) ==
  ChecksDesktop(a) \/ StoresCheck(a) \/ Renders(a) \/ Keeps(a) \/ ShowsAnswer(a)

--------------------------------------------------------------------------------
TrayMoves == Dictates \/ Clicks \/ Publishes \/ Refreshes \/ TogglesDictation

DesktopMoves ==
  \/ DeviceChanges \/ ClockTicks \/ CountsDeviceChange \/ SetsReadiness
  \/ Signals \/ StartsWatching \/ StopsWatching \/ AppliesStatus \/ Rereads
  \/ SelectsPeriod
  \/ \E a \in Askers : Connects(a) \/ ClientSession(a) \/ BreaksOff(a)

(* Properties *)

(* A report of the desktop that the next snapshot would not check again is no older than
   the interval and knows of every device change the hotkey loop has heard of, also when
   the checks of two sessions overlap and the slower one ends last. *)
ReportIsFresh ==
  ~IsDue => /\ desktop.found >= desktop.counted
            /\ clock - desktop.foundAt < RecheckInterval

(* The tray's item comes to say whether a recording runs, and the open window whether the
   shortcut is ready; the window never rests on a check of the desktop older than the
   shortcut it shows beside it.  Excepted is a window for which an earlier check or
   snapshot replaced a later one, and one whose watcher was not told of a change: it did
   not watch yet or no more, the file could not be written, or the answer was lost. *)
ShownIsCurrent ==
  /\ menu = IsOn
  /\ overtaken \/ unheard \/ (shown.shortcut = shortcut /\ shown.found >= since)
ShownCatchesUp == <>[]ShownIsCurrent

(* As above, whatever replaces what. *)
WindowRestsOnTheLatest ==
  <>[](unheard \/ (shown.shortcut = shortcut /\ shown.found >= since))

(* "Starts a dictation, or stops the one recording; the menu item says which." *)
MenuItemSaysWhich == ~mistaken

================================================================================
