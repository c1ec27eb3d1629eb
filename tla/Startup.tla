--------------------------------- MODULE Startup ---------------------------------
(* How the daemon starts: `run_daemon` of crates/agentdictate-app/src/bin, IpcServer of
   crates/agentdictate-runtime/src/ipc.rs, the schema migrations of migrations.rs with the
   opening of the database around them, the retirement of the Replacements rules of
   legacy_replacements.rs; and the client that connects to the daemon or has systemd start
   it, `connect_or_start` of crates/agentdictate-app/src/startup.rs.

   A step is one system call that another process can see: the lock, the socket's path, a
   file, a transaction.  A build is installed over another at any time; both are taken to
   start as this one does, each with its own protocol and latest schema.              *)
EXTENDS Integers, Sequences

CONSTANTS
  Latest,      \* of every build, LATEST_VERSION
  LegacyJobs,  \* jobs that an unversioned database may hold
  Failing,     \* the kinds of step that may fail
  MaxFaults,   \* bound: failed steps, deaths, and daemons started by hand
  MaxInstalls  \* bound: builds installed over another

ASSUME LatestAssumption == Latest \in Seq(Nat \ {0}) /\ Latest # <<>>
ASSUME LegacyJobsAssumption ==
  LegacyJobs \subseteq [stage : {"delivering", "cleaning", "canceled"},
                        delivery : {"not_attempted", "attempting"}]
ASSUME FailingAssumption ==
  Failing \subseteq {"bind", "open", "copy", "migrate", "save", "drop", "systemctl", "die",
                     "hand"}
ASSUME BoundsAssumption == MaxFaults \in Nat /\ MaxInstalls \in Nat

VARIABLES
  installed,  \* the build on disk
  installs,   \* builds installed over another so far
  daemon,     \* what each daemon process is at
  lock,       \* the process that holds agentdictate.lock, or Nobody
  path,       \* what agentdictate.sock is: a process that listens, Nobody, Stale
  database,   \* schema version, the retired rules, an unfinished job
  backup,     \* the version the copy beside it holds, NoCopy or HalfACopy
  words,      \* the retired rules in the saved vocabulary
  proven,     \* history: the schema version at the last opening that needed no step
  unit,       \* agentdictated.service
  client,     \* a window, or the login entry of an older version
  faults      \* failed steps, deaths and daemons started by hand so far

startupVars == <<installed, installs, daemon, lock, path, database, backup, words, proven,
                 unit, client, faults>>
storage == <<database, backup, words, proven>>
socket == <<lock, path>>

Builds == DOMAIN Latest
Daemons == {"service", "hand"}
Nobody == "nobody"
Stale == "stale"
NoDatabase == -1
NoCopy == -2
HalfACopy == -3

(* The stages of a daemon's start, and of its end. *)
Starting == {"locks", "probes", "removes", "binds", "opens", "copies", "migrates",
             "reconciles", "retires", "drops"}
Ending == {"ends", "unlinks", "closes", "dying"}
Off == [at |-> "off", build |-> 1, exit |-> "ok"]
Launched == [at |-> "locks", build |-> installed, exit |-> "ok"]

NoJob == [stage |-> "none", delivery |-> "not_attempted"]
Rests == {"closed", "open", "failed", "reset"}
Closed == [at |-> "closed", build |-> 1, to |-> Nobody, again |-> FALSE, disturbed |-> FALSE]

StartupTypeOK ==
  /\ installed \in Builds
  /\ installs \in 0..MaxInstalls
  /\ daemon \in [Daemons -> [at : Starting \cup Ending \cup {"off", "serves"},
                             build : Builds, exit : {"ok", "failed", "newer"}]]
  /\ lock \in Daemons \cup {Nobody}
  /\ path \in Daemons \cup {Nobody, Stale}
  /\ database \in [version : Nat \cup {NoDatabase}, rules : BOOLEAN,
                   job : [stage : {"none", "delivering", "cleaning", "canceled", "failed",
                                   "transcribing", "interrupted"},
                          delivery : {"not_attempted", "attempting", "ambiguous"}]]
  /\ backup \in Nat \cup {NoCopy, HalfACopy}
  /\ words \in {"never", "without", "with", "removed"}
  /\ unit \in {"inactive", "active", "waiting", "replacing"}
  /\ client \in [at : {"connects", "starts", "restarts", "reads"} \cup Rests, build : Builds,
                 to : Daemons \cup {Nobody}, again : BOOLEAN, disturbed : BOOLEAN]
  /\ faults \in 0..MaxFaults

StartupInit ==
  /\ installed \in Builds
  /\ installs = 0
  /\ lock = Nobody
  /\ path \in {Nobody, Stale}
  /\ \/ \E j \in LegacyJobs :
          database = [version |-> 0, rules |-> TRUE, job |-> j]
     \/ \E v \in {NoDatabase, Latest[1]} :
          database = [version |-> v, rules |-> FALSE, job |-> NoJob]
  /\ backup = NoCopy
  /\ words = IF database.rules THEN "without" ELSE "never"
  /\ proven = database.version
  /\ unit \in {"inactive", "active"}
  /\ daemon = [d \in Daemons |-> IF d = "service" /\ unit = "active" THEN Launched ELSE Off]
  /\ client = Closed
  /\ faults = 0

(* A fault may be what keeps the client from a daemon. *)
Disturbs == client' = [client EXCEPT !.disturbed = @ \/ client.at \notin Rests]
May(kind) == kind \in Failing /\ faults < MaxFaults /\ faults' = faults + 1 /\ Disturbs
Fine == UNCHANGED <<faults, client>>

At(d, stage) == daemon[d].at = stage
Goes(d, stage) == daemon' = [daemon EXCEPT ![d].at = stage]
(* The rest of `main` after an error: the server is dropped, then the process exits. *)
Fails(d, status) ==
  daemon' = [daemon EXCEPT ![d].at = "ends",
                           ![d].exit = IF d = "service" THEN status ELSE @]

(* Restart=on-failure, RestartPreventExitStatus=65; a queued restart follows any exit. *)
Supervised(d, status) ==
  unit' = IF d # "service" \/ unit = "replacing" THEN unit
          ELSE IF status = "failed" THEN "waiting" ELSE "inactive"
Exits(d, status) == daemon' = [daemon EXCEPT ![d] = Off] /\ Supervised(d, status)

--------------------------------------------------------------------------------
(* IpcServer::bind *)

(* Mutant of TakeLock: the file is dropped, and the lock with it. *)
TakeLockDroppingIt(d) ==
  /\ At(d, "locks")
  /\ \/ lock = Nobody /\ Goes(d, "probes") /\ UNCHANGED unit
     \/ lock # Nobody /\ Exits(d, "failed")
  /\ Fine /\ UNCHANGED <<installed, installs, lock, path, storage>>

TakeLock(d) ==
  /\ At(d, "locks")
  /\ \/ lock = Nobody /\ lock' = d /\ Goes(d, "probes") /\ UNCHANGED unit
     \/ lock # Nobody /\ Exits(d, "failed") /\ UNCHANGED lock
  /\ Fine /\ UNCHANGED <<installed, installs, path, storage>>

(* What a process that holds the lock finds at the path; one that is dying has let go of
   the lock and may still listen. *)
Probe(d) ==
  /\ At(d, "probes")
  /\ \/ path = Nobody /\ Goes(d, "binds") /\ UNCHANGED <<lock, unit>>
     \/ path = Stale /\ Goes(d, "removes") /\ UNCHANGED <<lock, unit>>
     \/ path \in Daemons /\ Exits(d, "failed") /\ lock' = Nobody
  /\ Fine /\ UNCHANGED <<installed, installs, path, storage>>

RemoveStale(d) ==
  /\ At(d, "removes")
  /\ path' = Nobody
  /\ Goes(d, "binds")
  /\ Fine /\ UNCHANGED <<installed, installs, lock, storage, unit>>

(* An error after bind(2) leaves the path: there is no server yet to remove it. *)
Bind(d) ==
  /\ At(d, "binds")
  /\ \/ path' = d /\ Goes(d, "opens") /\ Fine /\ UNCHANGED <<lock, unit>>
     \/ May("bind") /\ path' \in {path, Stale} /\ lock' = Nobody /\ Exits(d, "failed")
  /\ UNCHANGED <<installed, installs, storage>>

--------------------------------------------------------------------------------
(* AgentProcess::open: the settings, the database and its migrations, the retired rules *)

Opened(d) == Latest[daemon[d].build]

(* `migrate`, up to the first step; the copy of an earlier migration goes here. *)
OpenDatabase(d) ==
  /\ At(d, "opens")
  /\ \/ /\ database.version > Opened(d)
        /\ Fails(d, "newer") /\ Disturbs /\ UNCHANGED <<storage, faults>>
     \/ /\ database.version = Opened(d)
        /\ backup' = NoCopy /\ proven' = database.version
        /\ Goes(d, "reconciles") /\ Fine /\ UNCHANGED <<database, words>>
     \/ /\ database.version \in 0..(Opened(d) - 1)
        /\ backup' = NoCopy
        /\ Goes(d, "copies") /\ Fine /\ UNCHANGED <<database, words, proven>>
     \/ database.version = NoDatabase /\ Goes(d, "migrates") /\ Fine /\ UNCHANGED storage
     \/ May("open") /\ Fails(d, "failed") /\ UNCHANGED storage
  /\ UNCHANGED <<installed, installs, socket, unit>>

BackUp(d) ==
  /\ At(d, "copies")
  /\ \/ backup' = database.version /\ Goes(d, "migrates") /\ Fine
     \/ May("copy") /\ backup' \in {NoCopy, HalfACopy} /\ Fails(d, "failed")
  /\ UNCHANGED <<installed, installs, socket, database, words, proven, unit>>

(* Version 1 renames what older releases wrote; a delivery under way may have pasted. *)
Merged(job) ==
  CASE job.stage = "delivering" /\ job.delivery = "not_attempted" ->
         [stage |-> "failed", delivery |-> "ambiguous"]
    [] job.stage = "delivering" /\ job.delivery # "not_attempted" ->
         [job EXCEPT !.stage = "failed"]
    [] job.stage = "cleaning" -> [job EXCEPT !.stage = "transcribing"]
    [] job.stage = "canceled" -> [job EXCEPT !.stage = "interrupted"]
    [] OTHER -> job

(* One step of MIGRATIONS with its number, in one transaction; the later steps touch
   nothing that is told apart here. *)
MigrateStep(d) ==
  /\ At(d, "migrates")
  /\ LET step == (IF database.version = NoDatabase THEN 0 ELSE database.version) + 1
     IN \/ /\ database' = [database EXCEPT !.version = step,
                             !.job = IF step = 1 THEN Merged(@) ELSE @]
           /\ Goes(d, IF step = Opened(d) THEN "reconciles" ELSE "migrates")
           /\ Fine
        \/ May("migrate") /\ Fails(d, "failed") /\ UNCHANGED database
  /\ UNCHANGED <<installed, installs, socket, backup, words, proven, unit>>

(* Mutant of Reconciled: an attempt under way is taken for one that ended. *)
ReconciledInterrupted(job) ==
  IF job.stage \in {"starting", "recording", "transcribing"}
  THEN [job EXCEPT !.stage = "interrupted"] ELSE job

(* reconcile_ambiguous_deliveries, then reconcile_interrupted_jobs *)
Reconciled(job) ==
  IF job.delivery = "attempting" THEN [stage |-> "failed", delivery |-> "ambiguous"]
  ELSE IF job.stage \in {"starting", "recording", "transcribing"}
  THEN [job EXCEPT !.stage = "interrupted"] ELSE job

Reconcile(d) ==
  /\ At(d, "reconciles")
  /\ \/ /\ database' = [database EXCEPT !.job = Reconciled(@)]
        /\ Goes(d, IF database.rules THEN "retires" ELSE "serves") /\ Fine
     \/ May("open") /\ Fails(d, "failed") /\ UNCHANGED database
  /\ UNCHANGED <<installed, installs, socket, backup, words, proven, unit>>

(* Mutant of SaveRules: the table goes first. *)
SaveRulesLast(d) ==
  /\ At(d, "retires")
  /\ \/ /\ Goes(d, "drops") /\ Fine /\ UNCHANGED words
        /\ database' = [database EXCEPT !.rules = FALSE]
     \/ May("save") /\ Goes(d, "serves") /\ UNCHANGED <<database, words>>
  /\ UNCHANGED <<installed, installs, socket, backup, proven, unit>>

(* The rules become aliases of the saved vocabulary; an alias already there is no change.
   An error is logged, and the rules wait for the next start. *)
SaveRules(d) ==
  /\ At(d, "retires")
  /\ \/ words' = "with" /\ Goes(d, "drops") /\ Fine
     \/ words # "with" /\ May("save") /\ Goes(d, "serves") /\ UNCHANGED words
  /\ UNCHANGED <<installed, installs, socket, database, backup, proven, unit>>

DropRules(d) ==
  /\ At(d, "drops")
  /\ Goes(d, "serves")
  /\ \/ database' = [database EXCEPT !.rules = FALSE] /\ Fine
     \/ May("drop") /\ UNCHANGED database
  /\ UNCHANGED <<installed, installs, socket, backup, words, proven, unit>>

--------------------------------------------------------------------------------
(* A daemon at work, and its end *)

(* The user removes the alias a rule became, or text, and with it any copy. *)
Work(d) ==
  /\ At(d, "serves")
  /\ \/ words = "with" /\ words' = "removed" /\ UNCHANGED <<backup, proven>>
     \/ backup # NoCopy /\ backup' = NoCopy /\ proven' = database.version /\ UNCHANGED words
  /\ Fine /\ UNCHANGED <<installed, installs, daemon, socket, database, unit>>

Quit(d) ==
  /\ At(d, "serves")
  /\ Goes(d, "ends")
  /\ Disturbs
  /\ UNCHANGED <<installed, installs, socket, storage, unit, faults>>

(* IpcServer::drop looks at the inode, *)
OwnsPath(d) ==
  /\ At(d, "ends")
  /\ Goes(d, IF path = d THEN "unlinks" ELSE "closes")
  /\ Fine /\ UNCHANGED <<installed, installs, socket, storage, unit>>

(* removes the path, *)
Unlink(d) ==
  /\ At(d, "unlinks")
  /\ path' = Nobody
  /\ Goes(d, "closes")
  /\ Fine /\ UNCHANGED <<installed, installs, lock, storage, unit>>

(* What becomes of a connection to a process that is no more: not yet accepted, it is
   reset; accepted, it ends before the snapshot, which only the wait tries again. *)
HungUp(d) ==
  IF client.at = "reads" /\ client.to = d
  THEN {[client EXCEPT !.at = "reset", !.to = Nobody],
        [client EXCEPT !.at = IF client.again THEN "connects" ELSE "reset", !.to = Nobody]}
  ELSE {client}

(* and its fields follow: the listener, then the lock. *)
Close(d) ==
  /\ At(d, "closes")
  /\ lock' = IF lock = d THEN Nobody ELSE lock
  /\ Exits(d, daemon[d].exit)
  /\ client' \in HungUp(d)
  /\ UNCHANGED <<installed, installs, path, storage, faults>>

(* Files are closed in the order they were opened: the lock before the listener. *)
Die(d) ==
  /\ daemon[d].at \in Starting \cup {"serves", "ends", "unlinks", "closes"}
  /\ May("die")
  /\ Goes(d, "dying")
  /\ lock' = IF lock = d THEN Nobody ELSE lock
  /\ backup' \in IF At(d, "copies") THEN {NoCopy, HalfACopy} ELSE {backup}
  /\ UNCHANGED <<installed, installs, path, database, words, proven, unit>>

Bury(d) ==
  /\ At(d, "dying")
  /\ path' = IF path = d THEN Stale ELSE path
  /\ Exits(d, "failed")
  /\ client' \in HungUp(d)
  /\ UNCHANGED <<installed, installs, lock, storage, faults>>

--------------------------------------------------------------------------------
(* systemd, the user, and builds *)

LaunchService ==
  /\ unit' = "active"
  /\ daemon' = [daemon EXCEPT !["service"] = Launched]

(* RestartSec=1s after a failure, at once after a stop that a restart asked for. *)
Relaunch ==
  /\ unit \in {"waiting", "replacing"}
  /\ At("service", "off")
  /\ LaunchService
  /\ Fine /\ UNCHANGED <<installed, installs, socket, storage>>

StartByHand ==
  /\ At("hand", "off")
  /\ May("hand")
  /\ daemon' = [daemon EXCEPT !["hand"] = Launched]
  /\ UNCHANGED <<installed, installs, socket, storage, unit>>

Install(b) ==
  /\ b # installed
  /\ installs < MaxInstalls
  /\ installed' = b
  /\ installs' = installs + 1
  /\ Disturbs
  /\ UNCHANGED <<daemon, socket, storage, unit, faults>>

--------------------------------------------------------------------------------
(* connect_or_start *)

(* What no client can help: a daemon that systemd does not supervise, a database newer
   than the build, a service that quits by itself, and one of another build that has not
   bound its socket, which is taken for absent, so started, not restarted. *)
Hopeless ==
  \/ ~At("hand", "off")
  \/ database.version > Latest[installed]
  \/ daemon["service"].at \in Ending /\ unit # "replacing"
  \/ /\ daemon["service"].at \in {"locks", "probes", "removes", "binds"}
     /\ daemon["service"].build # installed

Open ==
  /\ client.at \in Rests
  /\ client' = [Closed EXCEPT !.at = "connects", !.build = installed,
                              !.disturbed = Hopeless]
  /\ UNCHANGED <<installed, installs, daemon, socket, storage, unit, faults>>

ClientGoes(to) == client' = [client EXCEPT !.at = to]
Client == UNCHANGED <<installed, installs, socket, storage>>

(* NotFound or refused: the first time the service is started, then it is awaited. *)
ConnectAbsent ==
  /\ client.at = "connects" /\ ~client.again
  /\ path \notin Daemons
  /\ ClientGoes("starts")
  /\ Client /\ UNCHANGED <<daemon, unit, faults>>

Connect ==
  /\ client.at = "connects"
  /\ path \in Daemons
  /\ client' = [client EXCEPT !.at = "reads", !.to = path]
  /\ Client /\ UNCHANGED <<daemon, unit, faults>>

(* The snapshot, of the client's protocol or another. *)
ReadGreeting ==
  /\ client.at = "reads"
  /\ At(client.to, "serves")
  /\ client' = IF daemon[client.to].build = client.build
               THEN [Closed EXCEPT !.at = "open"]
               ELSE [client EXCEPT !.at = IF client.again THEN "connects" ELSE "restarts",
                                   !.to = Nobody]
  /\ Client /\ UNCHANGED <<daemon, unit, faults>>

Awaits == client' = [client EXCEPT !.at = "connects", !.again = TRUE]

StartService ==
  /\ client.at = "starts"
  /\ \/ unit \in {"inactive", "waiting"} /\ LaunchService /\ Awaits /\ UNCHANGED faults
     \/ unit \in {"active", "replacing"} /\ Awaits /\ UNCHANGED <<daemon, unit, faults>>
  /\ Client

(* Mutant of RestartService: a running service is left as it is. *)
RestartServiceIfStopped ==
  /\ client.at = "restarts"
  /\ \/ unit \in {"inactive", "waiting"} /\ LaunchService
     \/ unit \in {"active", "replacing"} /\ UNCHANGED <<daemon, unit>>
  /\ Awaits
  /\ Client /\ UNCHANGED faults

(* SIGTERM quits a daemon that serves, and kills one that does not listen for it yet. *)
RestartService ==
  /\ client.at = "restarts"
  /\ \/ unit \in {"inactive", "waiting"} /\ LaunchService /\ UNCHANGED lock
     \/ /\ unit = "active"
        /\ unit' = "replacing"
        /\ \/ At("service", "serves") /\ Goes("service", "ends") /\ UNCHANGED lock
           \/ /\ daemon["service"].at \in Starting
              /\ Goes("service", "dying")
              /\ lock' = IF lock = "service" THEN Nobody ELSE lock
           \/ daemon["service"].at \in Ending /\ UNCHANGED <<daemon, lock>>
     \/ unit = "replacing" /\ UNCHANGED <<daemon, unit, lock>>
  /\ Awaits
  /\ UNCHANGED <<installed, installs, path, storage, faults>>

SystemctlFails ==
  /\ client.at \in {"starts", "restarts"}
  /\ "systemctl" \in Failing /\ faults < MaxFaults /\ faults' = faults + 1
  /\ client' = [Closed EXCEPT !.at = "failed", !.disturbed = TRUE]
  /\ Client /\ UNCHANGED <<daemon, unit>>

(* A daemon of the client's build is on its way, which DAEMON_STARTUP_TIMEOUT is long
   enough for. *)
OnItsWay ==
  \/ /\ daemon["service"].at \in Starting \cup {"serves"}
     /\ daemon["service"].build = client.build
  \/ unit \in {"waiting", "replacing"} /\ installed = client.build

Deadline ==
  /\ client.at = "connects" /\ client.again
  /\ client.disturbed \/ ~OnItsWay
  /\ client' = [Closed EXCEPT !.at = "failed", !.disturbed = client.disturbed]
  /\ Client /\ UNCHANGED <<daemon, unit, faults>>

--------------------------------------------------------------------------------
DaemonSteps(d) ==
  \/ TakeLock(d) \/ Probe(d) \/ RemoveStale(d) \/ Bind(d) \/ OpenDatabase(d) \/ BackUp(d)
  \/ MigrateStep(d) \/ Reconcile(d) \/ SaveRules(d) \/ DropRules(d) \/ OwnsPath(d)
  \/ Unlink(d) \/ Close(d) \/ Bury(d)

ClientSteps ==
  \/ ConnectAbsent \/ Connect \/ ReadGreeting \/ StartService \/ RestartService
  \/ SystemctlFails

StartupWorld ==
  \/ \E d \in Daemons : Work(d) \/ Quit(d) \/ Die(d)
  \/ StartByHand \/ Open \/ \E b \in Builds : Install(b)

StartupNext == (\E d \in Daemons : DaemonSteps(d)) \/ Relaunch \/ ClientSteps \/ Deadline
               \/ StartupWorld

StartupFairness ==
  /\ \A d \in Daemons : WF_startupVars(DaemonSteps(d))
  /\ WF_startupVars(Relaunch)
  /\ WF_startupVars(ClientSteps)
  /\ SF_startupVars(Deadline)

StartupSpec == StartupInit /\ [][StartupNext]_startupVars
StartupFairSpec == StartupSpec /\ StartupFairness

--------------------------------------------------------------------------------
(* Properties *)

(* A daemon that serves is the one at the socket's path, though others start beside it,
   probe, remove what a dead one left, and clean up after themselves. *)
ServingIsReachable ==
  StartupTypeOK /\ \A d \in Daemons : At(d, "serves") => path = d

(* "Settings are saved before the table is dropped, ... so a crash in between is
   harmless": a rule is in the table or became an alias.  What an older version was
   transcribing or pasting when it stopped is in Recovery once a daemon serves, and never
   as something that has not been pasted. *)
UpgradeKeepsWork ==
  /\ words = "without" => database.rules
  /\ \A d \in Daemons : At(d, "serves") =>
       /\ database.job.stage \in {"none", "interrupted", "failed"}
       /\ database.job.stage = "failed" => database.job.delivery = "ambiguous"

(* A client gets a daemon of its own build, started or restarted for it, unless a fault,
   another install, a daemon started by hand or a quit came between, or the daemon that
   is replaced resets its connection. *)
UpgradeIsPickedUp ==
  /\ [](client.at = "failed" => client.disturbed)
  /\ client.at = "connects" ~> client.at \in {"open", "failed", "reset"}

(* "Not bound yet, or the replaced daemon is still exiting": the wait for a daemon goes
   on while the one it replaces exits. *)
ReplacedDaemonIsAwaited ==
  client.at = "reset" /\ client.again => client.disturbed

(* "It is the only way back, ... so it lasts until the migrated database opens again at a
   later start": the copy beside a migrated database is of the version before. *)
WayBackIsKept ==
  proven # NoDatabase /\ database.version # proven => backup = proven

(* "drops the replacement_mappings table so this runs once": an alias that the user
   removed stays removed. *)
RemovedAliasStaysRemoved == [][words = "removed" => words' = "removed"]_startupVars

================================================================================
