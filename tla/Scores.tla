-------------------------------- MODULE Scores --------------------------------
(***************************************************************************)
(* The scores scene of TetrECS (ScoresScene.java): the score file, the      *)
(* prompt for a name, and the online scores.                                *)
(*                                                                         *)
(* scores.txt is read when the scene is built and written line by line, from *)
(* nothing, on every click on Submit.  The online scores are asked for on a  *)
(* connection that all scores scenes share; each asking adds one more        *)
(* listener, after the request is sent, and none is ever removed.  The       *)
(* answer is handled on the web socket thread, listener after listener; what *)
(* it leads to is queued for the application thread.                        *)
(*                                                                         *)
(* A line of the file, name:score, stands for its score and for what colons *)
(* do to its name: getHighScore takes what is between the first two for the *)
(* score, loadScores all that comes after the first.  The server, which is   *)
(* external, keeps scores only.  Errors of the disk, which the code catches *)
(* and goes on, are left out.                                               *)
(***************************************************************************)
EXTENDS Ranks

CONSTANTS
  Points,      \* scores a game may end with
  Names,       \* what kinds of names players give
  Stored,      \* the score file to begin with
  Online,      \* the server's list to begin with
  Top,         \* how many scores earn a prompt (10)
  MaxScenes,   \* bound: scores scenes built
  MaxClicks    \* bound: clicks on Submit in one scene

\* Without a colon, with a first colon followed by a number (a:5), and any other.
NameKinds == {"plain", "number", "colon"}

\* What is assumed of the constants.
ScoresAssumption ==
  /\ Names \subseteq NameKinds
  /\ Points \subseteq Nat /\ IsFiniteSet(Points)
  /\ Stored \in Seq(Points) /\ Online \in Seq(Points) \ {<<>>}
  /\ Top \in Nat \ {0}
  /\ MaxScenes \in Nat /\ MaxClicks \in Nat

\* A name and a score.
Pairs == [points : Points, name : NameKinds]

Plain(score) == [points |-> score, name |-> "plain"]

\* comparatorTo.
Sorted(list) == SortedBy([i \in DOMAIN list |-> list[i].points], list)

VARIABLES
  file,        \* the lines of scores.txt
  submitted,   \* the scores put on file by Submit, oldest first
  cut,         \* the program was killed while it wrote the file
  scene,       \* number of the scores scene built last
  screen,      \* what it shows: away (another scene), prompt, empty or view
  userScores,  \* the score of the game of each scene
  local,       \* localScores
  fx,          \* the application thread: idle, writing, sending or listening
  clicks,      \* clicks on Submit in this scene
  fxQueue,     \* runnables waiting for the application thread
  handlers,    \* listeners of the connection: the scenes that added them
  delivery,    \* the answer being handed to the listeners
  requests,    \* HISCORES on their way to the server
  answers,     \* HISCORES on their way back
  server       \* the server's list

fileVars  == <<file, submitted, cut>>
sceneVars == <<scene, screen, userScores, local, clicks>>
lineVars  == <<requests, answers, server>>
vars == <<fileVars, sceneVars, fx, fxQueue, handlers, delivery, lineVars>>

StoredLines == [i \in DOMAIN Stored |-> Plain(Stored[i])]

NoDelivery == [list |-> <<>>, next |-> 1, stale |-> FALSE]

HighScore(n) == [do |-> "writeHighScore", of |-> n]
View(n)      == [do |-> "loadScoresView", of |-> n]

Init ==
  /\ file = StoredLines /\ submitted = <<>> /\ cut = FALSE
  /\ scene = 0 /\ screen = "away" /\ userScores = <<>> /\ local = <<>> /\ clicks = 0
  /\ fx = "idle" /\ fxQueue = <<>>
  /\ handlers = <<>> /\ delivery = NoDelivery
  /\ requests = 0 /\ answers = <<>> /\ server = Online

-----------------------------------------------------------------------------
(***************************************************************************)
(* The scene                                                                *)
(***************************************************************************)
\* The score is good enough for the list: fewer than ten, or above the last.
Good(score, list) == Len(list) < Top \/ score > list[Len(list)].points

\* Integer.parseInt throws what neither getHighScore nor loadScores catches.
ReadByGame(pair)   == pair.name # "colon"
ReadByScores(pair) == pair.name = "plain"

\* A game starts only if its build could read the first line of the file, though
\* it may take part of a name for the high score.  If loadScores cannot read some
\* line, a single player game is played but its scores scene is not built, and the
\* game's scene stays.
CanBuild(multiplayer) ==
  /\ file # <<>> => ReadByGame(Head(file))
  /\ multiplayer \/ \A i \in DOMAIN file : ReadByScores(file[i])

\* Wrong on purpose: the file is not read.
BuildUnread(score, multiplayer) ==
  /\ screen = "away" /\ scene < MaxScenes
  /\ CanBuild(multiplayer)
  /\ scene' = scene + 1
  /\ userScores' = Append(userScores, score)
  /\ clicks' = 0
  /\ local' = <<>>
  /\ IF ~multiplayer /\ Good(score, file)
     THEN screen' = "prompt" /\ fx' = "idle"
     ELSE screen' = "empty" /\ fx' = "sending"
  /\ UNCHANGED <<fileVars, fxQueue, handlers, delivery, lineVars>>

\* build, with loadScores.  After a multiplayer game the list is the game's and
\* nothing of it is written.
Build(score, multiplayer) ==
  /\ screen = "away" /\ scene < MaxScenes
  /\ CanBuild(multiplayer)
  /\ scene' = scene + 1
  /\ userScores' = Append(userScores, score)
  /\ clicks' = 0
  /\ local' = IF multiplayer THEN <<>> ELSE file
  /\ IF ~multiplayer /\ Good(score, file)
     THEN screen' = "prompt" /\ fx' = "idle"
     ELSE screen' = "empty" /\ fx' = "sending"
  /\ UNCHANGED <<fileVars, fxQueue, handlers, delivery, lineVars>>

\* Wrong on purpose: the list is written as it is.
SubmitUnsorted(name) ==
  /\ screen = "prompt" /\ fx = "idle" /\ clicks < MaxClicks
  /\ clicks' = clicks + 1
  /\ local' = Append(local, [points |-> userScores[scene], name |-> name])
  /\ submitted' = Append(submitted, [points |-> userScores[scene], name |-> name])
  /\ file' = <<>>
  /\ fx' = "writing"
  /\ UNCHANGED <<cut, scene, screen, userScores, fxQueue, handlers, delivery, lineVars>>

\* addUsersScore, and writeScores up to opening the file, which empties it.
Submit(name) ==
  /\ screen = "prompt" /\ fx = "idle" /\ clicks < MaxClicks
  /\ clicks' = clicks + 1
  /\ local' = Sorted(Append(local, [points |-> userScores[scene], name |-> name]))
  /\ submitted' = Append(submitted, [points |-> userScores[scene], name |-> name])
  /\ file' = <<>>
  /\ fx' = "writing"
  /\ UNCHANGED <<cut, scene, screen, userScores, fxQueue, handlers, delivery, lineVars>>

\* Each line is flushed.
WriteLine ==
  /\ fx = "writing"
  /\ file' = Append(file, local[Len(file) + 1])
  /\ fx' = IF Len(file') = Len(local) THEN "sending" ELSE "writing"
  /\ UNCHANGED <<submitted, cut, sceneVars, fxQueue, handlers, delivery, lineVars>>

\* loadOnlineScores sends, and then listens.
SendRequest ==
  /\ fx = "sending"
  /\ requests' = requests + 1
  /\ fx' = "listening"
  /\ UNCHANGED <<fileVars, sceneVars, fxQueue, handlers, delivery, answers, server>>

\* A delivery under way finds its iterator invalid at the next listener.
AddListener ==
  /\ fx = "listening"
  /\ handlers' = Append(handlers, scene)
  /\ delivery' = [delivery EXCEPT !.stale = delivery # NoDelivery]
  /\ fx' = "idle"
  /\ UNCHANGED <<fileVars, sceneVars, fxQueue, lineVars>>

\* ESC
LeaveForMenu ==
  /\ screen # "away" /\ fx = "idle"
  /\ screen' = "away"
  /\ UNCHANGED <<fileVars, scene, userScores, local, clicks, fx, fxQueue, handlers,
                 delivery, lineVars>>

-----------------------------------------------------------------------------
(***************************************************************************)
(* The web socket thread: Communicator.receive goes through the listeners.  *)
(***************************************************************************)
StartDelivery ==
  /\ delivery = NoDelivery /\ answers # <<>>
  /\ answers' = Tail(answers)
  /\ delivery' = IF handlers = <<>> THEN NoDelivery
                 ELSE [NoDelivery EXCEPT !.list = Head(answers)]
  /\ UNCHANGED <<fileVars, sceneVars, fx, fxQueue, handlers, requests, server>>

\* What the listener of scene n queues: its own score is sent to the server if it
\* is above the last online one, and the lists are shown.
Reaction(n, list) ==
  IF list[Len(list)] < userScores[n] THEN <<HighScore(n), View(n)>> ELSE <<View(n)>>

\* Wrong on purpose: the first listener takes the answer for itself.
DeliverToFirst ==
  /\ delivery # NoDelivery
  /\ fxQueue' = fxQueue \o Reaction(handlers[delivery.next], delivery.list)
  /\ delivery' = NoDelivery
  /\ UNCHANGED <<fileVars, sceneVars, fx, handlers, lineVars>>

\* The next listener, or the end: all done, or ConcurrentModificationException.
Deliver ==
  /\ delivery # NoDelivery
  /\ IF delivery.stale
     THEN UNCHANGED fxQueue /\ delivery' = NoDelivery
     ELSE /\ fxQueue' = fxQueue \o Reaction(handlers[delivery.next], delivery.list)
          /\ delivery' = IF delivery.next = Len(handlers) THEN NoDelivery
                         ELSE [delivery EXCEPT !.next = @ + 1]
  /\ UNCHANGED <<fileVars, sceneVars, fx, handlers, lineVars>>

-----------------------------------------------------------------------------
(***************************************************************************)
(* The application thread                                                   *)
(***************************************************************************)
\* The server keeps its list at its length.
WithHighScore(list, score) ==
  LET all == Append(list, score) IN SubSeq(SortedBy(all, all), 1, Len(list))

RunNext ==
  /\ fx = "idle" /\ fxQueue # <<>>
  /\ fxQueue' = Tail(fxQueue)
  /\ LET n == Head(fxQueue).of IN
       \/ /\ Head(fxQueue).do = "writeHighScore"
          /\ server' = WithHighScore(server, userScores[n])
          /\ UNCHANGED screen
       \/ /\ Head(fxQueue).do = "loadScoresView"
          /\ screen' = IF n = scene /\ screen # "away" THEN "view" ELSE screen
          /\ UNCHANGED server
  /\ UNCHANGED <<fileVars, scene, userScores, local, clicks, fx, handlers, delivery,
                 requests, answers>>

-----------------------------------------------------------------------------
(***************************************************************************)
(* The server, and the end of the program.                                  *)
(***************************************************************************)
ServerAnswers ==
  /\ requests > 0
  /\ requests' = requests - 1
  /\ answers' = Append(answers, server)
  /\ UNCHANGED <<fileVars, sceneVars, fx, fxQueue, handlers, delivery, server>>

\* The program is killed and started again; only the file stays.
Kill ==
  /\ scene > 0
  /\ cut' = (cut \/ fx = "writing")
  /\ screen' = "away" /\ local' = <<>> /\ clicks' = 0
  /\ fx' = "idle" /\ fxQueue' = <<>>
  /\ handlers' = <<>> /\ delivery' = NoDelivery
  /\ requests' = 0 /\ answers' = <<>>
  /\ UNCHANGED <<file, submitted, scene, userScores, server>>

Next ==
  \/ \E score \in Points, multiplayer \in BOOLEAN : Build(score, multiplayer)
  \/ \E name \in Names : Submit(name)
  \/ WriteLine \/ SendRequest \/ AddListener \/ LeaveForMenu
  \/ StartDelivery \/ Deliver
  \/ RunNext
  \/ ServerAnswers
  \/ Kill

Spec == Init /\ [][Next]_vars

\* Every thread goes on with what it has begun, and the server answers.
Fairness ==
  /\ WF_vars(WriteLine \/ SendRequest \/ AddListener \/ RunNext)
  /\ WF_vars(StartDelivery \/ Deliver)
  /\ WF_vars(ServerAnswers)

FairSpec == Spec /\ Fairness

-----------------------------------------------------------------------------
(***************************************************************************)
(* Properties                                                               *)
(***************************************************************************)
Runnable == {HighScore(n) : n \in 1 .. scene} \cup {View(n) : n \in 1 .. scene}

\* Types; what waits, and the listeners, are of scenes that were built.
TypeOK ==
  /\ file \in Seq(Pairs) /\ submitted \in Seq(Pairs) /\ local \in Seq(Pairs)
  /\ cut \in BOOLEAN
  /\ scene \in 0 .. MaxScenes /\ clicks \in 0 .. MaxClicks
  /\ screen \in {"away", "prompt", "empty", "view"}
  /\ userScores \in [1 .. scene -> Points]
  /\ fx \in {"idle", "writing", "sending", "listening"}
  /\ fx = "writing" => Len(file) < Len(local)
  /\ \A i \in DOMAIN fxQueue : fxQueue[i] \in Runnable
  /\ \A i \in DOMAIN handlers : handlers[i] \in 1 .. scene
  /\ delivery # NoDelivery => delivery.next \in DOMAIN handlers
  /\ requests \in Nat
  /\ \A i \in DOMAIN answers : answers[i] \in Seq(Points)
  /\ server \in Seq(Points) \ {<<>>}

Times(list, pair) == Cardinality({i \in DOMAIN list : list[i] = pair})

\* A score once on file stays there, with all the others, over any number of
\* games, clicks and restarts, unless the program is killed while writing.
FileKeepsScores ==
  ~cut /\ fx # "writing" =>
    \A pair \in Pairs :
      Times(file, pair) = Times(StoredLines, pair) + Times(submitted, pair)

Descending(list) == \A i, j \in DOMAIN list : i < j => list[i].points >= list[j].points

\* The first line is the one of the best score on file (getHighScore reads no
\* further), even of a file whose writing was cut short.
HighScoreFirst == Descending(StoredLines) => Descending(file)

Listening == \E i \in DOMAIN handlers : handlers[i] = scene

\* A scene that listens while a request has not been answered shows the scores
\* in the end, unless it is left or the player clicks again: an answer that comes
\* before the listener is added is lost, and adding the listener of another click
\* may cut the delivery of an answer short.
AnswerExpected == fx = "idle" /\ screen # "away" /\ Listening /\ requests > 0
AnswerDone == fx # "idle" \/ screen \in {"view", "away"}

AnswerShown == AnswerExpected ~> AnswerDone
==============================================================================
