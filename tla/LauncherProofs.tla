---------------------------- MODULE LauncherProofs ----------------------------
(***************************************************************************)
(* Proofs about Launcher, for every set of statuses a game may exit with.  *)
(***************************************************************************)
EXTENDS Launcher, TLAPS

-----------------------------------------------------------------------------
(* The inductive invariant                                                 *)

Stopping == {"stop", "grace", "reap"}
Leaving  == {"shutdown", "drain", "last"}
Before   == {"startup", "dial", "spawn"}

(* The server's end has been read from the channel already.                *)
ServerRead == Over \/ (pc \in Stopping /\ exit = 1)

TypeInv ==
  /\ withGame \in BOOLEAN /\ serverErr \in BOOLEAN /\ shutting \in BOOLEAN
  /\ exit \in 0 .. 255 /\ code \in 0 .. 255

ServerInv ==
  /\ server \in {"none", "starting", "listening", "ended"}
  /\ pc = "startup" => server = "none"
  /\ server = "none" => pc = "startup" \/ Over
  /\ server # "ended" => serverDone = "empty" /\ ~serverErr
  /\ server = "ended" /\ ~ServerRead /\ serverErr => serverDone = "error"
  /\ server = "ended" /\ ~ServerRead /\ ~serverErr => serverDone = "nil"
  /\ pc \in Stopping => exit = 0 \/ (exit = 1 /\ server = "ended")
  /\ shutting => pc \in Leaving \/ Over
  /\ server = "ended" /\ ~shutting => serverErr

GameInv ==
  /\ game \in {"none", "running", "zombie", "reaped"}
  /\ game # "none" => withGame
  /\ pc \in Before => game = "none"
  /\ pc \in {"dial", "spawn"} => withGame
  /\ pc \in {"notify", "select"} /\ withGame => game # "none"
  /\ pc \in Stopping => withGame /\ game # "none"
  /\ pc \in Leaving => game \in {"none", "reaped"}

ExitInv ==
  /\ pc \in Before \cup {"notify", "select"} => exit = 0
  /\ pc \in Leaving /\ game = "reaped" => exit = code
  /\ pc \in Leaving /\ game = "none" /\ withGame => exit = 1
  /\ pc \in Leaving /\ ~withGame => exit = 0

IInv == TypeInv /\ ServerInv /\ GameInv /\ ExitInv /\ ExitTellsAll /\ LeavesNothing
-----------------------------------------------------------------------------
(* It holds at the start: nothing runs yet.                                *)
LEMMA InitIInv ==
 ASSUME Init
 PROVE  IInv
<1> USE DEF IInv, TypeInv, ServerInv, GameInv, ExitInv, ExitTellsAll, LeavesNothing, Stopping, Leaving, Before, ServerRead, Over
<1>1. TypeInv
  <2>1. serverErr \in BOOLEAN /\ shutting \in BOOLEAN /\ withGame \in BOOLEAN
    BY Zenon DEF Init
  <2>2. exit \in 0 .. 255 /\ code \in 0 .. 255
    BY DEF Init
  <2>3. QED
    BY <2>1, <2>2
<1>2. ServerInv
  BY DEF Init
<1>3. GameInv
  BY DEF Init
<1>4. ExitInv
  BY DEF Init
<1>5. ExitTellsAll
  BY DEF Init
<1>6. LeavesNothing
  BY DEF Init
<1>7. QED
  BY <1>1, <1>2, <1>3, <1>4, <1>5, <1>6

(* The main goroutine's steps.                                              *)
LEMMA MainKeepsIInv ==
 ASSUME IInv, MainStep
 PROVE  IInv'
<1> USE DEF IInv, TypeInv, ServerInv, GameInv, ExitInv, ExitTellsAll, LeavesNothing, Stopping, Leaving, Before, ServerRead, Over,
             serverVars, gameVars, signalVars, modeVars
<1>1. ASSUME Startup PROVE IInv'
  BY <1>1 DEF Startup, Exit
<1>2. ASSUME WaitForServer PROVE IInv'
  <2>1. TypeInv'
    BY <1>2 DEF WaitForServer
  <2>2. ServerInv'
    BY <1>2 DEF WaitForServer
  <2>3. GameInv'
    BY <1>2 DEF WaitForServer
  <2>4. ExitInv'
    BY <1>2 DEF WaitForServer
  <2>5. ExitTellsAll'
    BY <1>2 DEF WaitForServer
  <2>6. LeavesNothing'
    BY <1>2 DEF WaitForServer
  <2>7. QED
    BY <2>1, <2>2, <2>3, <2>4, <2>5, <2>6
<1>3. ASSUME StartGame PROVE IInv'
  <2>1. TypeInv'
    BY <1>3 DEF StartGame
  <2>2. ServerInv'
    BY <1>3 DEF StartGame
  <2>3. GameInv'
    BY <1>3 DEF StartGame
  <2>4. ExitInv'
    BY <1>3 DEF StartGame
  <2>5. ExitTellsAll'
    BY <1>3 DEF StartGame
  <2>6. LeavesNothing'
    BY <1>3 DEF StartGame
  <2>7. QED
    BY <2>1, <2>2, <2>3, <2>4, <2>5, <2>6
<1>4. ASSUME Notify PROVE IInv'
  BY <1>4 DEF Notify
<1>5. ASSUME OnSignal PROVE IInv'
  BY <1>5 DEF OnSignal
<1>6. ASSUME OnGameDone PROVE IInv'
  BY <1>6 DEF OnGameDone
<1>7. ASSUME OnServerDone PROVE IInv'
  BY <1>7 DEF OnServerDone, Exit
<1>8. ASSUME StopProcess PROVE IInv'
  BY <1>8 DEF StopProcess
<1>9. ASSUME StopOnWindows PROVE IInv'
  BY <1>9 DEF StopOnWindows, Kill, Killed
<1>10. ASSUME GraceOver PROVE IInv'
  BY <1>10 DEF GraceOver, Kill, Killed
<1>11. ASSUME AwaitGame PROVE IInv'
  <2>1. TypeInv'
    BY <1>11 DEF AwaitGame
  <2>2. ServerInv'
    BY <1>11 DEF AwaitGame
  <2>3. GameInv'
    BY <1>11 DEF AwaitGame
  <2>4. ExitInv'
    BY <1>11 DEF AwaitGame
  <2>5. ExitTellsAll'
    BY <1>11 DEF AwaitGame
  <2>6. LeavesNothing'
    BY <1>11 DEF AwaitGame
  <2>7. QED
    BY <2>1, <2>2, <2>3, <2>4, <2>5, <2>6
<1>12. ASSUME Shutdown PROVE IInv'
  BY <1>12 DEF Shutdown
<1>13. ASSUME Drained PROVE IInv'
  BY <1>13 DEF Drained
<1>14. ASSUME CloseServer PROVE IInv'
  BY <1>14 DEF CloseServer
<1>15. ASSUME AwaitServer PROVE IInv'
  BY <1>15 DEF AwaitServer, Exit
<1>16. QED
  BY <1>1, <1>2, <1>3, <1>4, <1>5, <1>6, <1>7, <1>8, <1>9, <1>10, <1>11, <1>12, <1>13, <1>14, <1>15 DEF MainStep

(* The steps of everyone else: the server, the game, its clients, signals. *)
LEMMA OthersKeepIInv ==
 ASSUME IInv, ServerStep \/ (~Over /\ (ServeFails \/ Reap)) \/ Requests \/ GameExits \/ Signal \/ Gone
 PROVE  IInv'
<1> USE DEF IInv, TypeInv, ServerInv, GameInv, ExitInv, ExitTellsAll, LeavesNothing, Stopping, Leaving, Before, ServerRead, Over,
             serverVars, gameVars, signalVars, modeVars
<1>1. ASSUME ~Over, Listen PROVE IInv'
  <2>1. TypeInv'
    BY <1>1 DEF Listen, ServerReturns
  <2>2. ServerInv'
    <3>1. CASE shutting /\ ServerReturns("nil")
      BY <1>1, <3>1 DEF Listen, ServerReturns
    <3>2. CASE ~shutting /\ ServerReturns("error")
      BY <1>1, <3>2 DEF Listen, ServerReturns
    <3>3. CASE server' = "listening" /\ UNCHANGED <<pc, exit, serverDone, shutting, serverErr>>
      BY <1>1, <3>3 DEF Listen
    <3>4. QED
      BY <1>1, <3>1, <3>2, <3>3 DEF Listen
  <2>3. GameInv'
    BY <1>1 DEF Listen, ServerReturns
  <2>4. ExitInv'
    BY <1>1 DEF Listen, ServerReturns
  <2>5. ExitTellsAll'
    BY <1>1 DEF Listen, ServerReturns
  <2>6. LeavesNothing'
    BY <1>1 DEF Listen, ServerReturns
  <2>7. QED
    BY <2>1, <2>2, <2>3, <2>4, <2>5, <2>6
<1>2. ASSUME ~Over, ServeEnds PROVE IInv'
  BY <1>2 DEF ServeEnds, ServerReturns
<1>3. ASSUME ~Over, ServeFails PROVE IInv'
  BY <1>3 DEF ServeFails, ServerReturns
<1>4. ASSUME ~Over, Reap PROVE IInv'
  BY <1>4 DEF Reap
<1>5. ASSUME Requests PROVE IInv'
  BY <1>5 DEF Requests
<1>6. ASSUME GameExits PROVE IInv'
  BY <1>6, LauncherAssumption DEF GameExits, Killed
<1>7. ASSUME Signal PROVE IInv'
  BY <1>7 DEF Signal
<1>8. ASSUME Gone PROVE IInv'
  BY <1>8 DEF Gone, vars
<1>9. QED
  BY <1>1, <1>2, <1>3, <1>4, <1>5, <1>6, <1>7, <1>8 DEF ServerStep

(* Every step.                                                             *)
LEMMA StepKeepsIInv == IInv /\ [Next]_vars => IInv'
<1> SUFFICES ASSUME IInv, [Next]_vars PROVE IInv'
  OBVIOUS
<1>1. CASE MainStep
  BY <1>1, MainKeepsIInv
<1>2. CASE ServerStep \/ (~Over /\ (ServeFails \/ Reap)) \/ Requests \/ GameExits \/ Signal \/ Gone
  BY <1>2, OthersKeepIInv
<1>3. CASE UNCHANGED vars
  BY <1>3 DEF vars, IInv, TypeInv, ServerInv, GameInv, ExitInv, ExitTellsAll, LeavesNothing, Stopping, Leaving, Before, ServerRead, Over,
             serverVars, gameVars, signalVars, modeVars
<1>4. QED
  BY <1>1, <1>2, <1>3 DEF Next

(* The invariant of every behaviour.                                       *)
LEMMA Invariant == Spec => []IInv
<1>1. QED
  BY InitIInv, StepKeepsIInv, PTL DEF Spec

-----------------------------------------------------------------------------
(* The exit status tells of the game's failure, else of the server's       *)
(* (runWithGameCommand, runStandalone).                                    *)
THEOREM ExitStatus == Spec => []ExitTellsAll
<1>1. IInv => ExitTellsAll
  BY DEF IInv
<1>2. QED
  BY <1>1, Invariant, PTL

(* A launcher that leaves of itself has waited for the game and the server *)
(* (stopProcess, gameDone, serverDone).                                    *)
THEOREM NothingLeft == Spec => []LeavesNothing
<1>1. IInv => LeavesNothing
  BY DEF IInv
<1>2. QED
  BY <1>1, Invariant, PTL
=============================================================================
