------------------------------- MODULE Launcher -------------------------------
(***************************************************************************)
(* The server's process (main.go, process_unix.go, process_windows.go): it *)
(* starts the web server in a goroutine, then either waits for a signal or *)
(* starts a game once the server is reachable and stays as long as it      *)
(* runs, and leaves with an exit status after shutting the server down.    *)
(***************************************************************************)
EXTENDS Naturals

CONSTANT GameCodes      \* the statuses a game that fails exits with

ASSUME LauncherAssumption == GameCodes \subseteq 1 .. 255

VARIABLES
  pc,         \* where the main goroutine is
  withGame,   \* a game command is configured
  unix,       \* which of the two process_*.go files is built
  port,       \* "free", "taken" by another program, "bad": nobody can listen on it
  server,     \* the goroutine in ListenAndServe
  serverDone, \* the channel it sends its result on, capacity 1
  shutting,   \* Shutdown was called
  busy,       \* requests are being served
  game, code, \* the game's process and its exit status
  notified,   \* signal.Notify was called
  pending,    \* a signal is in the channel, capacity 1
  exit,       \* the launcher's exit status
  serverErr   \* history: ListenAndServe returned an error

serverVars == <<port, server, serverDone, shutting, busy, serverErr>>
gameVars   == <<game, code>>
signalVars == <<notified, pending>>
modeVars   == <<withGame, unix>>
vars == <<pc, exit, serverVars, gameVars, signalVars, modeVars>>

(* The status of a game that a signal ended, which ExitCode has as -1, and *)
(* on Windows the one that Kill ends it with.                              *)
Killed == IF unix THEN 255 ELSE 1

Over == pc \in {"exited", "dead"}

Init ==
  /\ pc = "startup" /\ exit = 0
  /\ withGame \in BOOLEAN /\ unix \in BOOLEAN
  /\ port \in {"free", "taken", "bad"} /\ server = "none" /\ serverDone = "empty"
  /\ shutting = FALSE /\ busy = FALSE /\ serverErr = FALSE
  /\ game = "none" /\ code = 0
  /\ notified = FALSE /\ pending = FALSE

Exit(status) == pc' = "exited" /\ exit' = status

-----------------------------------------------------------------------------
(* The web server's goroutine                                              *)

ServerReturns(result) ==
  /\ server' = "ended" /\ serverDone' = result
  /\ serverErr' = (result = "error")
  /\ UNCHANGED <<pc, exit, port, shutting, busy, gameVars, signalVars, modeVars>>

(* ListenAndServe refuses once Shutdown was called; ErrServerClosed is nil.*)
Listen ==
  /\ server = "starting"
  /\ \/ shutting /\ ServerReturns("nil")
     \/ ~shutting /\ port # "free" /\ ServerReturns("error")
     \/ /\ ~shutting /\ port = "free" /\ server' = "listening"
        /\ UNCHANGED <<pc, exit, port, serverDone, shutting, busy, serverErr,
                       gameVars, signalVars, modeVars>>

ServeEnds == server = "listening" /\ shutting /\ ServerReturns("nil")

(* Accept fails for good.                                                  *)
ServeFails == server = "listening" /\ ~shutting /\ ServerReturns("error")

Requests ==
  /\ ~busy => server = "listening" /\ ~shutting
  /\ ~Over /\ busy' = ~busy
  /\ UNCHANGED <<pc, exit, port, server, serverDone, shutting, serverErr,
                 gameVars, signalVars, modeVars>>

-----------------------------------------------------------------------------
(* The game's process and its cmd.Wait                                     *)

GameExits ==
  /\ game = "running"
  /\ game' = "zombie" /\ code' \in GameCodes \cup {0, Killed}
  /\ UNCHANGED <<pc, exit, serverVars, signalVars, modeVars>>

(* The goroutine in cmd.Wait, which starts after signal.Notify.            *)
Reap ==
  /\ game = "zombie" /\ notified
  /\ game' = "reaped"
  /\ UNCHANGED <<pc, exit, serverVars, code, signalVars, modeVars>>

Kill == IF game = "running" THEN game' = "zombie" /\ code' = Killed ELSE UNCHANGED gameVars

-----------------------------------------------------------------------------
(* The main goroutine                                                      *)

(* Configuration, dependencies, encoder and NewServer; then runServer.     *)
Startup ==
  /\ pc = "startup"
  /\ \/ \E status \in {1, 2} : Exit(status) /\ UNCHANGED server
     \/ /\ pc' = IF withGame THEN "dial" ELSE "notify"
        /\ server' = "starting" /\ UNCHANGED exit
  /\ UNCHANGED <<port, serverDone, shutting, busy, serverErr, gameVars, signalVars, modeVars>>

(* Whoever listens on the address will do.                                 *)
Reachable == server = "listening" \/ port = "taken"

WaitForServer ==
  /\ pc = "dial"
  /\ \/ Reachable /\ pc' = "spawn" /\ UNCHANGED exit
     \/ pc' = "shutdown" /\ exit' = 1
  /\ UNCHANGED <<serverVars, gameVars, signalVars, modeVars>>

StartGame ==
  /\ pc = "spawn"
  /\ \/ pc' = "notify" /\ game' = "running" /\ UNCHANGED exit
     \/ pc' = "shutdown" /\ exit' = 1 /\ UNCHANGED game
  /\ UNCHANGED <<serverVars, code, signalVars, modeVars>>

Notify ==
  /\ pc = "notify"
  /\ notified' = TRUE /\ pc' = "select"
  /\ UNCHANGED <<exit, serverVars, gameVars, pending, modeVars>>

(* The three cases of the select, any that is ready.                       *)
OnSignal ==
  /\ pc = "select" /\ pending
  /\ pending' = FALSE
  /\ pc' = IF withGame THEN "stop" ELSE "shutdown"
  /\ UNCHANGED <<exit, serverVars, gameVars, notified, modeVars>>

OnGameDone ==
  /\ pc = "select" /\ game = "reaped"
  /\ exit' = code /\ pc' = "shutdown"
  /\ UNCHANGED <<serverVars, gameVars, signalVars, modeVars>>

OnServerDone ==
  /\ pc = "select" /\ serverDone # "empty"
  /\ serverDone' = "empty"
  /\ IF withGame THEN pc' = "stop" /\ exit' = 1
                 ELSE Exit(IF serverDone = "error" THEN 1 ELSE 0)
  /\ UNCHANGED <<port, server, shutting, busy, serverErr, gameVars, signalVars, modeVars>>

(* stopProcess on Unix: SIGTERM to the group, which the game may or may    *)
(* not heed (GameExits).                                                   *)
StopProcess ==
  /\ pc = "stop" /\ unix
  /\ pc' = "grace"
  /\ UNCHANGED <<exit, serverVars, gameVars, signalVars, modeVars>>

(* On Windows no interrupt can be sent, so it is killed at once.           *)
StopOnWindows ==
  /\ pc = "stop" /\ ~unix
  /\ pc' = "reap"
  /\ Kill
  /\ UNCHANGED <<exit, serverVars, signalVars, modeVars>>

BugNoSigkill ==
  /\ pc = "grace"
  /\ pc' = "reap"
  /\ UNCHANGED <<exit, serverVars, gameVars, signalVars, modeVars>>

(* Three seconds later, SIGKILL if it still can be signalled.              *)
GraceOver ==
  /\ pc = "grace"
  /\ pc' = "reap"
  /\ Kill
  /\ UNCHANGED <<exit, serverVars, signalVars, modeVars>>

BugLeaveGame ==
  /\ pc = "reap"
  /\ pc' = IF exit = 1 THEN "exited" ELSE "shutdown"
  /\ UNCHANGED <<exit, serverVars, gameVars, signalVars, modeVars>>

(* The game's status goes before the server's; the server is shut down     *)
(* unless it was its end that stopped the game (exit is 1 then).           *)
AwaitGame ==
  /\ pc = "reap" /\ game = "reaped"
  /\ exit' = IF code # 0 THEN code ELSE exit
  /\ pc' = IF exit = 1 THEN "exited" ELSE "shutdown"
  /\ UNCHANGED <<serverVars, gameVars, signalVars, modeVars>>

(* shutdownServer: Shutdown waits for the requests, Close does not.        *)
Shutdown ==
  /\ pc = "shutdown"
  /\ shutting' = TRUE /\ pc' = "drain"
  /\ UNCHANGED <<exit, port, server, serverDone, busy, serverErr, gameVars, signalVars, modeVars>>

Drained ==
  /\ pc = "drain" /\ ~busy
  /\ pc' = "last"
  /\ UNCHANGED <<exit, serverVars, gameVars, signalVars, modeVars>>

CloseServer ==
  /\ pc = "drain" /\ busy
  /\ busy' = FALSE /\ pc' = "last"
  /\ UNCHANGED <<exit, port, server, serverDone, shutting, serverErr, gameVars, signalVars, modeVars>>

BugIgnoreServerError ==
  /\ pc = "last" /\ serverDone # "empty"
  /\ serverDone' = "empty"
  /\ Exit(exit)
  /\ UNCHANGED <<port, server, shutting, busy, serverErr, gameVars, signalVars, modeVars>>

AwaitServer ==
  /\ pc = "last" /\ serverDone # "empty"
  /\ serverDone' = "empty"
  /\ Exit(IF serverDone = "error" /\ exit = 0 THEN 1 ELSE exit)
  /\ UNCHANGED <<port, server, shutting, busy, serverErr, gameVars, signalVars, modeVars>>

MainStep ==
  \/ Startup \/ WaitForServer \/ StartGame \/ Notify
  \/ OnSignal \/ OnGameDone \/ OnServerDone
  \/ StopProcess \/ StopOnWindows \/ GraceOver \/ AwaitGame
  \/ Shutdown \/ Drained \/ CloseServer \/ AwaitServer

(* SIGINT or SIGTERM: kills the launcher until signal.Notify, then fills   *)
(* the channel; a second one is dropped.                                   *)
Signal ==
  /\ ~Over
  /\ IF notified THEN pending' = TRUE /\ UNCHANGED pc ELSE pc' = "dead" /\ UNCHANGED pending
  /\ UNCHANGED <<exit, serverVars, gameVars, notified, modeVars>>

Gone == Over /\ UNCHANGED vars

ServerStep == ~Over /\ (Listen \/ ServeEnds)

Next ==
  \/ MainStep \/ ServerStep \/ (~Over /\ (ServeFails \/ Reap))
  \/ Requests \/ GameExits \/ Signal \/ Gone

(* Goroutines run, timers fire, a killed process ends.  Nothing makes a    *)
(* game, a request or the web server end of itself.                        *)
Spec == Init /\ [][Next]_vars
             /\ WF_vars(MainStep) /\ WF_vars(ServerStep) /\ WF_vars(~Over /\ Reap)

-----------------------------------------------------------------------------
(* The exit status is the game's if that failed, otherwise it tells of the *)
(* server's failure, whichever of signal, game and server comes first in   *)
(* the select and whatever ends during the shutdown (runWithGameCommand,   *)
(* runStandalone).                                                         *)
ExitTellsAll ==
  pc = "exited" =>
    /\ game = "reaped" /\ code # 0 => exit = code
    /\ game = "reaped" /\ code = 0 => (exit = 0 /\ ~serverErr) \/ (exit = 1 /\ serverErr)
    /\ game # "reaped" /\ exit = 0 => ~withGame /\ ~serverErr

(* A launcher that leaves of itself leaves no game behind and no web       *)
(* server that still accepts (stopProcess, gameDone, serverDone).          *)
LeavesNothing ==
  pc = "exited" => game \in {"none", "reaped"} /\ server \in {"none", "ended"}

(* Once a signal is caught, or the game or the server is over, the         *)
(* launcher ends: neither a game that ignores SIGTERM nor a request that   *)
(* goes on can hold it (stopProcess, shutdownServer).                      *)
LauncherEnds == pending \/ game = "reaped" \/ (notified /\ serverDone # "empty") ~> Over
=============================================================================
