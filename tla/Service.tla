---------------------------------- MODULE Service ----------------------------------
(* The daemon as a service: how it starts and is found (Startup), how its unit follows the
   setting "Start on login" (Login), how it quits (Shutdown): three parts that share no
   state.                                                                              *)
EXTENDS Startup, Login, Shutdown

VARIABLE part    \* bound: the part that moves; the others stay as they begin

serviceVars == <<startupVars, loginVars, shutdownVars, part>>

(* How a part that stays begins: one state stands for all. *)
StartupRests ==
  installed = 1 /\ unit = "inactive" /\ path = Nobody /\ database.version = NoDatabase

LoginRests == ~start_on_login /\ ~enabled /\ ~legacy

ServiceInit ==
  /\ part \in {"startup", "login", "shutdown"}
  /\ StartupInit /\ (part # "startup" => StartupRests)
  /\ LoginInit /\ (part # "login" => LoginRests)
  /\ ShutdownInit

StartupMoves ==
  part = "startup" /\ StartupNext /\ UNCHANGED <<loginVars, shutdownVars, part>>

LoginMoves ==
  part = "login" /\ LoginNext /\ UNCHANGED <<startupVars, shutdownVars, part>>

ShutdownMoves ==
  part = "shutdown" /\ ShutdownNext /\ UNCHANGED <<startupVars, loginVars, part>>

ServiceNext == StartupMoves \/ LoginMoves \/ ShutdownMoves

ServiceSpec == ServiceInit /\ [][ServiceNext]_serviceVars

(* Processes are the kernel's to run, systemd keeps its promise to restart, and the wait
   for a daemon looks at the clock; nothing makes the user or an install move. *)
ServiceFairSpec == ServiceSpec /\ StartupFairness

(* What a start takes over from an older version survives a death at any point. *)
HandoversSurviveDeath == LoginTypeOK /\ UpgradeKeepsWork /\ LoginStaysArmed

(* A quit is woken for what it waits for, and takes no more of a recording with it than
   the windows that ExitCutsOnlyLateRecordings names. *)
QuitsCleanly ==
  /\ ShutdownTypeOK
  /\ NoLostNotification /\ RefusesOnlyWhileQuitting /\ ExitCutsOnlyLateRecordings

================================================================================
