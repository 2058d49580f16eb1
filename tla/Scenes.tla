-------------------------------- MODULE Scenes --------------------------------
(***************************************************************************)
(* The window of TetrECS and its scenes (GameWindow.java, the scenes, and   *)
(* the start of an online game in LobbyScene.java).                         *)
(*                                                                         *)
(* Scenes are numbered in the order in which they are loaded, so the last   *)
(* one is the scene shown.  loadScene builds the new scene at once and      *)
(* hands its initialise to runLater; the deferred call asks the window for  *)
(* currentScene only when it runs.  cleanup clears the listeners of the     *)
(* window's own communicator, where nobody listens: a lobby has a connection *)
(* of its own, and its listener is never removed.                           *)
(*                                                                         *)
(* What comes from other threads, a START from the server or a gameLoop     *)
(* that ends the game, waits in the queue of the application thread and is  *)
(* handled whatever scene is shown by then.                                 *)
(***************************************************************************)
EXTENDS Integers, Sequences

CONSTANTS
  MaxLoads   \* bound: scenes loaded

\* What is assumed of the constants.
ScenesAssumption == MaxLoads \in Nat \ {0}

Kinds == {"loading", "menu", "instructions", "challenge", "lobby",
          "multiplayer", "scores"}

VARIABLES
  loaded,    \* the kinds of the scenes loaded so far
  inits,     \* how often each has been initialised
  fxQueue,   \* runnables waiting for the application thread
  settling,  \* a scene was loaded and the queue has not been empty since
  polling,   \* lobbies whose poll Timer is scheduled
  timers,    \* Timers scheduled for the game of each scene
  running,   \* games whose own gameTimer is scheduled
  ended,     \* games whose last life is spent, or about to be
  requests,  \* what each lobby has sent and the server has not handled
  seats,     \* what the server holds of each lobby: out, in a channel, or playing
  starting,  \* lobbies a START is on its way to
  late       \* a runnable of a scene already left has been run

sceneVars  == <<loaded, inits>>
gameVars   == <<timers, running, ended>>
serverVars == <<requests, seats, starting>>
vars == <<sceneVars, fxQueue, settling, polling, gameVars, serverVars, late>>

Numbers == 1 .. MaxLoads
Current == Len(loaded)

Of(kinds) == {n \in 1 .. Len(loaded) : loaded[n] \in kinds}

Initialise  == [do |-> "initialise", of |-> 0]
Start(n)    == [do |-> "start", of |-> n]
GameOver(n) == [do |-> "gameOver", of |-> n]

\* startIntro, the first scene.
Init ==
  /\ loaded = <<"loading">> /\ inits = [n \in Numbers |-> 0]
  /\ fxQueue = <<Initialise>> /\ settling = TRUE
  /\ polling = {}
  /\ timers = [n \in Numbers |-> 0] /\ running = {} /\ ended = {}
  /\ requests = [n \in Numbers |-> <<>>] /\ seats = [n \in Numbers |-> "out"] /\ starting = {}
  /\ late = FALSE

-----------------------------------------------------------------------------
(***************************************************************************)
(* GameWindow                                                               *)
(***************************************************************************)
\* Wrong on purpose: the new scene is never initialised.
LoadSceneUninitialised(kind, queue) ==
  /\ Current < MaxLoads
  /\ loaded' = Append(loaded, kind)
  /\ fxQueue' = queue
  /\ settling' = TRUE

\* loadScene, called while queue is what waits on the application thread.
LoadScene(kind, queue) ==
  /\ Current < MaxLoads
  /\ loaded' = Append(loaded, kind)
  /\ fxQueue' = Append(queue, Initialise)
  /\ settling' = TRUE

-----------------------------------------------------------------------------
(***************************************************************************)
(* Games: how many Timers run for them.                                     *)
(***************************************************************************)
\* initialise starts the game: a new Timer, whether or not there was one.
StartGame(n) ==
  /\ timers' = [timers EXCEPT ![n] = @ + 1]
  /\ running' = running \cup {n}

\* Wrong on purpose: a Timer is cancelled that is no longer there.
CloseGameTwice(n) ==
  /\ timers' = [timers EXCEPT ![n] = @ - 1]
  /\ running' = running \ {n}

\* close cancels gameTimer, the last one scheduled.
CloseGame(n) ==
  /\ timers' = [timers EXCEPT ![n] = IF n \in running THEN @ - 1 ELSE @]
  /\ running' = running \ {n}

\* A Timer hands the gameLoop that takes the last life to the application
\* thread.
SpendLastLife(n) ==
  /\ timers[n] > 0
  /\ n \notin ended
  /\ ended' = ended \cup {n}
  /\ fxQueue' = Append(fxQueue, GameOver(n))
  /\ UNCHANGED <<sceneVars, settling, polling, timers, running, serverVars, late>>

-----------------------------------------------------------------------------
(***************************************************************************)
(* Lobbies                                                                  *)
(***************************************************************************)
\* repeatChannelRequest is static: the Timer of the lobby built last.
LastLobby == {n \in Of({"lobby"}) : \A m \in Of({"lobby"}) : m <= n}

\* Wrong on purpose: leaving does not cancel.
CloseLobbyPolling == UNCHANGED polling

CloseLobby == polling' = polling \ LastLobby

Send(n, request) == requests' = [requests EXCEPT ![n] = Append(@, request)]

-----------------------------------------------------------------------------
(***************************************************************************)
(* The player.  An input may overtake what waits in the queue, or something  *)
(* may be queued while it is handled, but it is an answer to a scene the     *)
(* player sees: once a scene is loaded, what is queued has been worked off   *)
(* before the next input comes.                                             *)
(***************************************************************************)
Shown(kind) == loaded[Current] = kind

\* setOnKeyPressed is set by initialise.
HasKeys == inits[Current] > 0

\* The texts of the menu have their mouse handlers from build on.
ChooseFromMenu ==
  /\ Shown("menu")
  /\ \/ /\ LoadScene("challenge", fxQueue) \/ LoadScene("instructions", fxQueue)
        /\ UNCHANGED polling
     \/ /\ LoadScene("lobby", fxQueue)
        /\ polling' = polling \cup {Current + 1}
  /\ UNCHANGED <<inits, gameVars, serverVars, late>>

LeaveForMenu ==
  /\ Shown("instructions") \/ Shown("scores")
  /\ HasKeys
  /\ LoadScene("menu", fxQueue)
  /\ UNCHANGED <<inits, polling, gameVars, serverVars, late>>

EscapeGame ==
  /\ Shown("challenge") \/ Shown("multiplayer")
  /\ HasKeys
  /\ CloseGame(Current)
  /\ LoadScene("menu", fxQueue)
  /\ UNCHANGED <<inits, polling, ended, serverVars, late>>

EscapeLobby ==
  /\ Shown("lobby")
  /\ HasKeys
  /\ Send(Current, "QUIT")
  /\ CloseLobby
  /\ LoadScene("menu", fxQueue)
  /\ UNCHANGED <<inits, gameVars, seats, starting, late>>

\* A channel is hosted, joined or left by clicks.
JoinOrPart ==
  /\ Shown("lobby")
  /\ requests[Current] = <<>>
  /\ Send(Current, IF seats[Current] = "in" THEN "PART" ELSE "JOIN")
  /\ UNCHANGED <<sceneVars, fxQueue, settling, polling, gameVars, seats, starting, late>>

Player ==
  /\ ~settling
  /\ ChooseFromMenu \/ LeaveForMenu \/ EscapeGame \/ EscapeLobby \/ JoinOrPart

-----------------------------------------------------------------------------
(***************************************************************************)
(* The application thread                                                   *)
(***************************************************************************)
\* The fade of the loading scene ends, four seconds after anything was queued.
FadedIn ==
  /\ Shown("loading")
  /\ fxQueue = <<>>
  /\ LoadScene("menu", fxQueue)
  /\ UNCHANGED <<inits, polling, gameVars, serverVars, late>>

RunInitialise ==
  /\ Head(fxQueue).do = "initialise"
  /\ inits' = [inits EXCEPT ![Current] = @ + 1]
  /\ IF Shown("challenge") \/ Shown("multiplayer")
     THEN StartGame(Current)
     ELSE UNCHANGED <<timers, running>>
  /\ fxQueue' = Tail(fxQueue)
  /\ settling' = (settling /\ fxQueue' # <<>>)
  /\ UNCHANGED <<loaded, polling, ended, serverVars, late>>

\* receiveMessage of a lobby, START.
RunStart ==
  /\ Head(fxQueue).do = "start"
  /\ CloseLobby
  /\ LoadScene("multiplayer", Tail(fxQueue))
  /\ late' = (late \/ Head(fxQueue).of # Current)
  /\ UNCHANGED <<inits, gameVars, serverVars>>

\* gameOver, called by the gameLoop that took the last life.
RunGameOver ==
  /\ Head(fxQueue).do = "gameOver"
  /\ CloseGame(Head(fxQueue).of)
  /\ LoadScene("scores", Tail(fxQueue))
  /\ late' = (late \/ Head(fxQueue).of # Current)
  /\ UNCHANGED <<inits, polling, ended, serverVars>>

RunNext ==
  /\ fxQueue # <<>>
  /\ RunInitialise \/ RunStart \/ RunGameOver

-----------------------------------------------------------------------------
(***************************************************************************)
(* The server and the web socket threads.  A game of a channel starts once  *)
(* for a member; messages are neither lost nor repeated.                    *)
(***************************************************************************)
AfterRequest(request, seat) ==
  CASE request = "QUIT" -> "out"
    [] request = "PART" /\ seat = "in" -> "out"
    [] request = "JOIN" /\ seat = "out" -> "in"
    [] OTHER -> seat

ServerHandles(n) ==
  /\ requests[n] # <<>>
  /\ requests' = [requests EXCEPT ![n] = Tail(@)]
  /\ seats' = [seats EXCEPT ![n] = AfterRequest(Head(requests[n]), @)]
  /\ UNCHANGED <<sceneVars, fxQueue, settling, polling, gameVars, starting, late>>

ServerStarts(n) ==
  /\ seats[n] = "in"
  /\ seats' = [seats EXCEPT ![n] = "playing"]
  /\ starting' = starting \cup {n}
  /\ UNCHANGED <<sceneVars, fxQueue, settling, polling, gameVars, requests, late>>

\* The listener of the lobby hands every message on by runLater.
ReceiveStart(n) ==
  /\ n \in starting
  /\ starting' = starting \ {n}
  /\ fxQueue' = Append(fxQueue, Start(n))
  /\ UNCHANGED <<sceneVars, settling, polling, gameVars, requests, seats, late>>

Server(n) == ServerHandles(n) \/ ServerStarts(n) \/ ReceiveStart(n)

Next ==
  \/ Player
  \/ FadedIn
  \/ RunNext
  \/ \E n \in Numbers : SpendLastLife(n) \/ Server(n)

Spec == Init /\ [][Next]_vars

\* The application thread works off its queue.
Fairness == WF_vars(RunNext)

FairSpec == Spec /\ Fairness

-----------------------------------------------------------------------------
(***************************************************************************)
(* Properties                                                               *)
(***************************************************************************)
Runnable == {Initialise} \cup {Start(n) : n \in Numbers} \cup {GameOver(n) : n \in Numbers}

\* Types; what waits in the queue belongs to a scene that was loaded.
TypeOK ==
  /\ loaded \in Seq(Kinds) /\ Current \in Numbers
  /\ inits \in [Numbers -> Nat]
  /\ \A i \in DOMAIN fxQueue : fxQueue[i] \in Runnable /\ fxQueue[i].of <= Current
  /\ settling \in BOOLEAN /\ late \in BOOLEAN
  /\ polling \subseteq Of({"lobby"})
  /\ timers \in [Numbers -> Nat]
  /\ running \subseteq Of({"challenge", "multiplayer"})
  /\ ended \subseteq Of({"challenge", "multiplayer"})
  /\ requests \in [Numbers -> Seq({"JOIN", "PART", "QUIT"})]
  /\ seats \in [Numbers -> {"out", "in", "playing"}]
  /\ starting \subseteq Of({"lobby"})

\* Runnables that outlive their scene are the only way to disorder: until one
\* is run, no scene is initialised twice, only the lobby that is shown polls
\* the server, and only the game that is shown has a Timer, and only one.
OrderlyScenes ==
  ~late =>
    /\ \A n \in Numbers : inits[n] <= 1
    /\ polling \subseteq {Current}
    /\ \A n \in Numbers : timers[n] > 0 => n = Current /\ timers[n] = 1

\* Whatever is loaded and in whatever order runnables come, time and again the
\* scene on the screen has been initialised: the one that stays has its keys (but
\* for the last one of the bound, which may have a load behind it in the queue).
Alive == inits[Current] > 0 \/ Current = MaxLoads

ScenesComeAlive == []<>Alive

(***************************************************************************)
(* What the scenes say of initialise and the window does not do.            *)
(***************************************************************************)
\* "Initialise this scene. Called after creation", "Initialise the scene and start
\* the game": the game of a scene is started once.
GameStartedOnce == \A n \in Of({"challenge", "multiplayer"}) : inits[n] <= 1
==============================================================================
