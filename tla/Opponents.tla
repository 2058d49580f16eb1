------------------------------- MODULE Opponents -------------------------------
(***************************************************************************)
(* What a multiplayer game shows of the other players (MultiplayerGame.java *)
(* and MultiplayerScene.java): the list of scores in the side panel, and    *)
(* the names and boards of the two runners-up.                              *)
(*                                                                         *)
(* SCORES and BOARD are handled on the web socket thread.  SCORES empties   *)
(* multiplayerScores, refills it and sorts it in place; every single change *)
(* tells the scene's listener, which queues a rebuild of the panel for the  *)
(* application thread.  A rebuild walks over the very same list while the   *)
(* socket thread may be changing it: an element added or a list cleared     *)
(* makes its iterator fail, and a failed rebuild leaves the panel empty.    *)
(*                                                                         *)
(* BOARD recomputes the runners-up from the scores and copies the board of  *)
(* the sender to the place the sender has.                                  *)
(*                                                                         *)
(* The game hears messages from its construction on, the scene hears of the *)
(* game's lists only once it has added its two listeners, one in setupGame  *)
(* and one at the end of build: what changes before is not shown.           *)
(***************************************************************************)
EXTENDS Ranks

CONSTANTS
  Me,           \* this player's name (myName)
  Others,       \* the names of the other players
  ScoreLists,   \* the lists a SCORES message may carry
  MaxRebuilds,  \* bound: rebuilds waiting when another SCORES is taken
  MaxVersion    \* bound: how many boards of one player are told apart

Players == {Me} \cup Others

\* A line of a SCORES message; the third part, the lives, only styles the text.
Entries == [name : Players, score : Nat]

Named(list) == {list[i].name : i \in DOMAIN list}

\* What is assumed of the constants.
OpponentsAssumption ==
  /\ Me \notin Others
  /\ IsFiniteSet(Others)
  /\ \A list \in ScoreLists :
       /\ list \in Seq(Entries)
       /\ Me \in Named(list)
       /\ \A i, j \in DOMAIN list : list[i].name = list[j].name => i = j
  /\ MaxRebuilds \in Nat
  /\ MaxVersion \in Nat \ {0}

VARIABLES
  roster,      \* who plays: every SCORES lists all of them
  scene,       \* how far build is: new, setUp (hears of scores), built (and names)
  scores,      \* multiplayerScores
  todo,        \* what SCORES still has to put into the list
  socket,      \* ready, adding or sorting
  rebuilds,    \* rebuilds of the panel waiting on the application thread
  building,    \* a rebuild is under way
  lines,       \* what it has read so far
  modified,    \* the list has grown or shrunk since its iterator was made
  missed,      \* the last change of the list came before the listener
  panel,       \* the score lines the side panel shows
  runnerUps,   \* the names of the runners-up, at most two
  labels,      \* the names above the two boards
  boards,      \* firstPlaceBoardGrid and secondPlaceBoardGrid
  latest       \* the last board each player has sent

listVars  == <<scores, todo, socket>>
panelVars == <<rebuilds, building, lines, modified, missed, panel>>
boardVars == <<runnerUps, labels, boards, latest>>
vars == <<roster, scene, listVars, panelVars, boardVars>>

\* No name, and a board that is still empty.
NoName  == "no name"
NoBoard == [owner |-> NoName, version |-> 0]

Places == 1 .. 2

Rosters == {Named(list) : list \in ScoreLists}

Init ==
  /\ roster \in Rosters
  /\ scores = <<>> /\ todo = <<>> /\ socket = "ready"
  /\ rebuilds = 0 /\ building = FALSE /\ lines = <<>> /\ modified = FALSE
  /\ missed = FALSE /\ panel = <<>>
  /\ scene = "new"
  /\ runnerUps = <<>>
  /\ labels = [k \in Places |-> NoName]
  /\ boards = [k \in Places |-> NoBoard]
  /\ latest = [p \in Others |-> NoBoard]

-----------------------------------------------------------------------------
(***************************************************************************)
(* SCORES.  The list is sorted by List.sort, which sorts a copy and sets    *)
(* the elements one after the other: a set is no structural change, so an   *)
(* iterator does not notice it.                                             *)
(***************************************************************************)
Sorted(list) == SortedBy([i \in DOMAIN list |-> list[i].score], list)

\* A change of the list tells the ListChangeListener of MultiplayerScene, once
\* it is there.
TellScene ==
  /\ missed' = (scene = "new")
  /\ rebuilds' = IF scene = "new" THEN rebuilds ELSE rebuilds + 1

\* clear() of an empty list changes nothing and tells nobody.
ReceiveScores ==
  /\ socket = "ready"
  /\ rebuilds <= MaxRebuilds
  /\ \E list \in ScoreLists :
       /\ Named(list) = roster
       /\ todo' = list
  /\ socket' = "adding"
  /\ scores' = <<>>
  /\ IF scores = <<>>
     THEN UNCHANGED <<rebuilds, missed, modified>>
     ELSE TellScene /\ modified' = TRUE
  /\ UNCHANGED <<roster, scene, building, lines, panel, boardVars>>

AddScore ==
  /\ socket = "adding" /\ todo # <<>>
  /\ scores' = Append(scores, Head(todo))
  /\ todo' = Tail(todo)
  /\ modified' = TRUE
  /\ TellScene
  /\ UNCHANGED <<roster, scene, socket, building, lines, panel, boardVars>>

\* Wrong on purpose: the list is left as it came.
StartSortSkipped ==
  /\ socket = "adding" /\ todo = <<>>
  /\ socket' = "ready"
  /\ UNCHANGED <<roster, scene, scores, todo, panelVars, boardVars>>

StartSort ==
  /\ socket = "adding" /\ todo = <<>>
  /\ todo' = Sorted(scores)
  /\ socket' = "sorting"
  /\ UNCHANGED <<roster, scene, scores, panelVars, boardVars>>

\* Wrong on purpose: the listener is told of elements added but not of those set.
SetScoreUntold ==
  /\ socket = "sorting"
  /\ scores' = [scores EXCEPT ![Len(scores) - Len(todo) + 1] = Head(todo)]
  /\ todo' = Tail(todo)
  /\ socket' = IF Len(todo) = 1 THEN "ready" ELSE "sorting"
  /\ UNCHANGED <<roster, scene, panelVars, boardVars>>

SetScore ==
  /\ socket = "sorting"
  /\ scores' = [scores EXCEPT ![Len(scores) - Len(todo) + 1] = Head(todo)]
  /\ todo' = Tail(todo)
  /\ socket' = IF Len(todo) = 1 THEN "ready" ELSE "sorting"
  /\ TellScene
  /\ UNCHANGED <<roster, scene, building, lines, modified, panel, boardVars>>

-----------------------------------------------------------------------------
(***************************************************************************)
(* buildSideTopVBox, on the application thread.                             *)
(***************************************************************************)
StartRebuild ==
  /\ scene = "built"
  /\ ~building /\ rebuilds > 0
  /\ rebuilds' = rebuilds - 1
  /\ building' = TRUE
  /\ panel' = <<>>
  /\ lines' = <<>>
  /\ modified' = FALSE
  /\ UNCHANGED <<roster, scene, listVars, missed, boardVars>>

\* hasNext() compares the position with the size of the list, next() the counts
\* of structural changes.
HasNext == Len(lines) # Len(scores)

ReadLine ==
  /\ building /\ HasNext /\ ~modified
  /\ lines' = Append(lines, scores[Len(lines) + 1])
  /\ UNCHANGED <<roster, scene, listVars, rebuilds, building, modified, missed, panel,
                 boardVars>>

\* ConcurrentModificationException: the panel has been cleared and stays so.
FailRebuild ==
  /\ building /\ HasNext /\ modified
  /\ building' = FALSE
  /\ lines' = <<>>
  /\ UNCHANGED <<roster, scene, listVars, rebuilds, modified, missed, panel, boardVars>>

ShowPanel ==
  /\ building /\ ~HasNext
  /\ building' = FALSE
  /\ panel' = lines
  /\ lines' = <<>>
  /\ UNCHANGED <<roster, scene, listVars, rebuilds, modified, missed, boardVars>>

-----------------------------------------------------------------------------
(***************************************************************************)
(* BOARD                                                                    *)
(***************************************************************************)
\* Wrong on purpose: this player is not left out.
FirstTwoOthersWithMe(list) ==
  [k \in 1 .. (IF Len(list) < 2 THEN Len(list) ELSE 2) |-> list[k].name]

\* The loop over multiplayerScores: the first two names other than myName.
FirstTwoOthers(list) ==
  LET others == {i \in DOMAIN list : list[i].name # Me}
      found  == Cardinality(others)
  IN  [k \in 1 .. (IF found < 2 THEN found ELSE 2) |-> list[Nth(others, k)].name]

\* updateRunnerUpBoards, the listener on runnerUps: the names that are there are
\* written above the boards, the others stay.
Labelled(names) ==
  [k \in Places |->
     IF scene = "built" /\ k \in DOMAIN names THEN names[k] ELSE labels[k]]

\* lastRunnerUps is the list runnerUps itself, so no comparison of the old names
\* with the new ones ever differs, and the boards never move: only the place of
\* the sender changes.  With a single opponent nobody asks who sent the board,
\* and with none get(0) throws and the message is lost.
BoardsAfter(names, p, board) ==
  CASE Len(names) = 0 -> boards
    [] Len(names) = 1 -> [boards EXCEPT ![1] = board]
    [] OTHER -> [k \in Places |-> IF names[k] = p THEN board ELSE boards[k]]

NextVersion(p) == [owner |-> p, version |-> (latest[p].version + 1) % (MaxVersion + 1)]

ReceiveBoard(p) ==
  LET board == NextVersion(p)
      names == FirstTwoOthers(scores) IN
  /\ socket = "ready"
  /\ p \in roster
  /\ latest' = [latest EXCEPT ![p] = board]
  /\ runnerUps' = names
  /\ labels' = Labelled(names)
  /\ boards' = BoardsAfter(names, p, board)
  /\ UNCHANGED <<roster, scene, listVars, panelVars>>

-----------------------------------------------------------------------------
(***************************************************************************)
(* build of the scene: the game exists when it starts.                      *)
(***************************************************************************)
SetupGame ==
  /\ scene = "new"
  /\ scene' = "setUp"
  /\ UNCHANGED <<roster, listVars, panelVars, boardVars>>

BuildRunnersUpVBox ==
  /\ scene = "setUp"
  /\ scene' = "built"
  /\ UNCHANGED <<roster, listVars, panelVars, boardVars>>

-----------------------------------------------------------------------------
SocketThread == ReceiveScores \/ AddScore \/ StartSort \/ SetScore

Rebuild == StartRebuild \/ ReadLine \/ FailRebuild \/ ShowPanel

Next ==
  \/ SocketThread
  \/ \E p \in Others : ReceiveBoard(p)
  \/ SetupGame \/ BuildRunnersUpVBox
  \/ Rebuild

Spec == Init /\ [][Next]_vars

-----------------------------------------------------------------------------
(***************************************************************************)
(* Properties                                                               *)
(***************************************************************************)
Board == [owner : Others \cup {NoName}, version : 0 .. MaxVersion]

\* Types; an iterator that has not been invalidated is within the list.
TypeOK ==
  /\ roster \subseteq Players
  /\ scores \in Seq(Entries) /\ todo \in Seq(Entries)
  /\ socket \in {"ready", "adding", "sorting"}
  /\ rebuilds \in Nat
  /\ building \in BOOLEAN /\ modified \in BOOLEAN /\ missed \in BOOLEAN
  /\ scene \in {"new", "setUp", "built"}
  /\ lines \in Seq(Entries) /\ panel \in Seq(Entries)
  /\ building /\ ~modified => Len(lines) <= Len(scores)
  /\ socket = "sorting" => Len(todo) \in 1 .. Len(scores)
  /\ runnerUps \in Seq(Others) /\ Len(runnerUps) <= 2
  /\ labels \in [Places -> Others \cup {NoName}]
  /\ boards \in [Places -> Board]
  /\ latest \in [Others -> Board]

\* Once a SCORES message is handled and no rebuild is left, the panel shows the
\* scores as they are, although rebuilds in between may have read a list half
\* refilled or half sorted, or failed and left the panel empty; unless all of it
\* came before the scene's listener.
PanelFollowsScores ==
  socket = "ready" /\ rebuilds = 0 /\ ~building => panel = scores \/ missed

\* With one opponent the first board is the last one that opponent has sent,
\* from the first BOARD that finds scores to rank by.
OnlyOpponentShown ==
  \A p \in Others :
    roster = {Me, p} /\ runnerUps # <<>> => boards[1] = latest[p]

BetterThan(p, q) ==
  \A i, j \in DOMAIN scores :
    scores[i].name = p /\ scores[j].name = q => scores[i].score >= scores[j].score

\* When a BOARD has been handled, no other player is better than those named
\* above the boards, the first is at least as good as the second, and a sender
\* who is named has the new board under the name (names are written once the
\* scene is built).
BoardHandled ==
  \A p \in Others : latest'[p] # latest[p] =>
    \A k \in DOMAIN runnerUps' :
      /\ scene = "built" => labels'[k] = runnerUps'[k]
      /\ \A q \in roster \ {Me} :
           (\A j \in 1 .. k : runnerUps'[j] # q) => BetterThan(runnerUps'[k], q)
      /\ runnerUps'[k] = p => boards'[k] = latest'[p]

RunnersUpShown == [][BoardHandled]_vars

(***************************************************************************)
(* What the comments of receiveMessage say and the code does not do.        *)
(***************************************************************************)
\* "if runner ups have switched places" the board of the one that did not send
\* moves to its new place with it.
BoardsFollow ==
  \A p \in Others :
    /\ latest'[p] # latest[p]
    /\ Len(runnerUps) = 2
    /\ runnerUps' = <<runnerUps[2], runnerUps[1]>>
    => \A k \in Places : runnerUps'[k] # p => boards'[k] = boards[3 - k]

SwitchedPlaces == [][BoardsFollow]_vars
==============================================================================
