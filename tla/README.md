# Verification of 1206-Programming-2

TLA+ models of this repository's programs, their TLC configurations, and proofs
checked by TLAPS. The repository is the work of a programming course:

* `src/CourseWork`: TetrECS, a JavaFX block game with a single player and an online
  multiplayer mode (the largest program, and the core of this project);
* `src/JavaFX/ecschat`: a chat client with a drawing board and a colour game;
* `src/Labs`: exercises, among them a producer/consumer belt, counters behind gates,
  dining philosophers' seats, a cyclic queue, recursion, files;
* `src/C`: a triangular array and a function that splits a number.

Paths below are relative to `src/`; `CW` is
`CourseWork/src/main/java/uk/ac/soton/comp1206`, `EC` is
`JavaFX/ecschat/src/main/java/uk/ac/soton/comp1206`.

## Inventory

| component | source | state | operations | modelled |
|---|---|---|---|---|
| Pieces | `CW/game/GamePiece` | 3x3 block matrix, value | createPiece, rotate | `GamePiece` |
| Grid | `CW/game/Grid`, `GameBoard.fadeOut` | cells | canPlayPiece, playPiece, get/set, fadeOut | `Grid` |
| Single player game | `CW/game/Game`, `CW/scene/ChallengeScene` | score, multiplier, level, lives, pieces, Timer, hovered cell | blockClicked, enterPressed, afterPiece, gameLoop, rotate/swap, hover, close | `ChallengeGame` |
| Multiplayer game | `CW/game/MultiplayerGame`, `CW/scene/MultiplayerScene` | awaited piece, what the server was told | spawnPiece (waits for the server), blockClicked, gameLoop, receiveMessage PIECE, close | `MultiplayerGame` |
| Opponents | `CW/game/MultiplayerGame`, `CW/scene/MultiplayerScene` | scores, runner-ups, their two boards | receiveMessage SCORES and BOARD, rebuilding of the panels | `Opponents` |
| Windows and scenes | `CW/ui/GameWindow`, `BaseScene`, `MenuScene`, ... | current scene, runnables waiting | loadScene, initialise, leaving | `Scenes` |
| Lobby | `CW/scene/LobbyScene`, `CW/network/Communicator` | channel, poll timer | receiveMessage, close | `Scenes` in part |
| Scores | `CW/scene/ScoresScene` | local and remote scores, score file, listeners | loadScores, submit, loadOnlineScores, writeScores | `Scores` |
| Board drawing | `GameBlock`, `GameBoard` | painted blocks | paint | no: layout; the hovered cell is in `ChallengeGame` |
| Audio | `Multimedia` | media player | play, stop | no: no state a property speaks of |
| Chat and login | `EC/ui`, `EC/customComponents` | lines of text | message handlers | no: display only |
| Whiteboard, paint messages | `EC/ui/DrawWindow`, `EC/network/PaintMessage` | graphics context, points, colour | press, drag, release, receiveDraw, encode, decode | `WhiteBoard` |
| Colour game | `EC/ui/GameWindow` | colour, grid, score, rounds | blockClicked, gameLoop | `ColourGame` |
| Belt | `Labs/lab8/.../Belt`, `Producer`, `Consumer` | head, tail, isFull, two locks, one monitor | enqueue, dequeue | `Belt` |
| Cyclic queue | `Labs/lab7`, `Labs/lab8`, `Labs/lab8-2` | array, head, tail, flag | enqueue, dequeue | `CyclicQueue` |
| Zoo | `Labs/lab7`, `Labs/lab8` | count | addOne by three gates | `Zoo` |
| Philosophers' seats | `Labs/lab8/seatType1/2` | two forks | askFork1, askFork2 | `Seats` |
| Words, files, C array | `Labs/lab6/KPalindrome`, `Labs/lab5/JavaFileUtil`, `C/q2.c` | - | single calls | `KPalindrome`, `JavaFileUtil`, `Triangular` |

### How the components interact

In TetrECS everything but timers and the network runs on the JavaFX application
thread. A `Game` owns a `Grid`, and tells its scene what happened through listeners
(next piece, lines cleared, game loop); the scene's handlers call back into the game
and the window. `java.util.Timer` threads hand `gameLoop` to `Platform.runLater`; the
websocket thread calls the listeners of `Communicator` directly, some of which hand on
to the application thread and some of which (`MultiplayerGame.receiveMessage`) do not.

The lab8 belt is shared by producer and consumer threads, with one lock per side and
`wait`/`notifyAll` on the belt's own monitor.

### What is hard, and what makes each component correct

* **Pieces and grid.** Lines that cross share a cell; several lines complete together;
  points are computed by a closed formula. Correct: no full line stays, and the points
  are those of the cells really emptied.
* **Single player game.** A Timer's task may be under way or queued when the Timer is
  cancelled, the level changes or the scene is left. Correct: one Timer, with the delay
  of the level; a life per period and no more; the end when lives are spent; nothing
  after leaving.
* **Multiplayer game.** The application thread waits for the network thread; messages
  arrive between two handlers. Correct: the piece played is the one the server sent,
  boards reach the server as they are, runner-up boards belong to the runner-ups.
* **Windows, lobby, scores.** Deferred `initialise`, listeners added after the request or
  never removed, a START handled twice. Correct: each scene is initialised once, and no
  timer outlives its scene.
* **Belt.** Two locks over shared head, tail and isFull; an `if` around `wait`; a wait
  while holding a lock; interrupts. Correct: indices in bounds, no number overwritten or
  read twice, no thread asleep while it has work.
* **Zoo, queues, seats.** Lost updates; bounds of a cyclic buffer; lock order. Correct:
  every guest counted, numbers first in first out, somebody eats.
* **Colour game, whiteboard.** Clicks against a timer thread; drawings received while one
  is drawn. Correct: the score sent is the last one, others see the stroke that was drawn.
* **Files, words, C array.** An output that is also an input; the empty word; index
  arithmetic in a block of uninitialised size.

`PROJECT.json` lists every hazard at its line with the property that covers it, or why
none does yet.

## Plan

Done, in this order: `GamePiece`, `Grid`, `ChallengeRules` (abstract), `ChallengeGame`,
their proofs; `Belt`, its proofs; `PieceFeed` (abstract), `MultiplayerGame` composed with
`ChallengeGame`, its proofs; `Opponents`, `Scenes` and `Scores`, checked together as
`Screens`; the labs and the two games of ecschat, checked together as `Labs`; the proofs
of `Zoo` and `CyclicQueue`; the game inside `MultiplayerGame`, by reusing the lemmas
about `AfterPiece` from `ChallengeGameProofs`; `AllStored` of the belt; all safety
properties of `Screens`, with lemmas about sorting; all safety properties of `Labs`, with
lemmas about its recursions and folds by induction on the naturals.

Every safety invariant, every property of steps and every refinement that a passing run
checks is also a theorem. What is left to TLC is liveness.

## The modules

### `GamePiece`, `Grid`

A piece is its value and the set of its blocks, offsets from the centre of the 3x3
matrix. `Matrices` is the table of `createPiece`; `Rotate` is the quarter turn of
`rotate`. A grid is a function from cells `<<x, y>>` to colours, 0 for empty. `Grid`
holds the operators that both the game and its proofs use: `CanPlayPiece`, `PlayPiece`,
`CompletedRows`, `CompletedCols`, `ClearedBlocks` (the closed formula),
`Coordinates`, `FadeOut`. `Size` stands for the 5 that the program passes to `Grid` and
has written into `afterPiece`; the formulas assume at least 2.

### `ChallengeRules`

What the game promises, without timers, threads or pieces in hand: a placement covers
empty cells, lines that are then full are emptied, the points are the multiplier times
10 times the lines times the cells emptied **as counted on the board**, and so on. It is
the abstract specification.

### `ChallengeGame`

`Game.java` with the listeners of `ChallengeScene.java` and `GameBoard.fadeOut`. One
handler on the application thread is one action, with every call it makes
(`blockClicked` runs `nextPiece`, `afterPiece`, the listeners, the new Timer, the bar).
The variables are the game's fields, and

* `pieceBoards`, what the two side boards show; `barDelay`, what the bar counts down;
  `scene`, which scene is up;
* `armed`, the Timers scheduled and not cancelled; `firing`, those whose task has
  started; `fxQueue`, the runnables waiting for the application thread, each named by
  the Timer that queued it.

`TimerRunsTask`, `RunLater` and `GameLoop` are the three moments of a timer: its thread
starts the task, the task calls `runLater`, the application thread runs `gameLoop`.
`Escape` is the key that leaves; `gameOver` is the first branch of `GameLoopListener`.
A new Timer is one no thread and no runnable still refers to, so the finite set of
`TimerId` is a pool and not a bound on how many are ever made.

Left out: audio, colours on the screen, the high score display. `score` does not wrap
at 2^31. A queued `gameLoop` runs after the scene is left, as in the code.

### `PieceFeed`, `MultiplayerGame`

`PieceFeed` is the promise: every piece dealt comes into the hand, in order, once.

`MultiplayerGame` takes the operators of `ChallengeGame` by `INSTANCE` (`Game!AfterPiece`,
`Game!PieceKey`, ...) as the Java class takes them by `extends`, and overrides what the
class overrides. `spawnPiece` blocks the application thread, so each handler that needs a
piece (`initialiseGame` needs two, `blockClicked` and `enterPressed`, `gameLoop`) is an
action up to the request and one from the answer on; `spawning` says which one is
waiting, and no other handler runs meanwhile. Timer threads and the web socket thread do:
gameLoops queue up, and the answer is stored first (`ReceivePiece`) and announced second
(`SetUpdated`). `requests` and `answers` are the two directions of the connection; `sent`
is what the server was last told, and whether the board has changed since it was last
sent.

The server is not in the repository. `ServerDeals` answers each PIECE once, in order,
after any delay; a server that did not answer would leave the program standing in
`spawnPiece`. The flag is a plain field that two threads share: the model lets its new
value be seen any time later, in the order in which it is written after the value. `Init`
is the moment `initialise` has sent the first PIECE; `gameTimer` then stands for null, and
no Timer is armed. The chat mode of the keyboard and MSG are left out.

### `Belt`

`Belt.java` of lab8 step by step: each read or write of `head`, `tail` and `isFull` is
an action, as are taking and releasing a lock. `threadWait` and `threadNotify` are one
step each, since they are `synchronized` methods that do nothing else. `unread` is the
set of slots that hold a number written and not yet read; the numbers themselves do not
matter to any property. `Interrupt` is the end of shift of the test library's factory.
Java's spurious wake-ups are not modelled.

### `Opponents`

SCORES on the web socket thread clears `multiplayerScores`, refills it and sorts it in
place (`todo` holds what is still to be put); each change tells the scene's listener,
which queues a rebuild of the side panel on the application thread. `StartRebuild`,
`ReadLine`, `FailRebuild` and `ShowPanel` are the rebuild as it walks over the list the
other thread may be changing: `modified` is what makes the iterator fail. BOARD is one
step, as nothing it writes is read elsewhere in between. `SetupGame` and
`BuildRunnersUpVBox` are the two moments of the scene's build at which listeners are
added; a change before the first is `missed`. Every SCORES lists the same players.

### `Scenes`

Scenes are numbered as they are loaded; `inits[n]` counts how often scene `n` was
initialised, `fxQueue` is what waits on the application thread: the deferred
`initialise`, START messages of lobbies, gameLoops that take a last life. `timers[n]`
and `running` tell the Timers of a game from the one it can still cancel. A player acts
only on a scene that has had time to appear (`settling`); messages and timers do not
wait. `late` is raised when a runnable of a scene already left is run.

### `Scores`

`scores.txt` is a sequence of scores, each with the kind of its name: plain, with a
colon, or with a colon and a number after it (`a:5`). `loadScores` can read only the
first kind, `getHighScore` the last one too, as it takes the number for the high score
(`CanBuild`). `Names` is what kinds players give: the run has plain ones and colons, the
proofs all. An IOException, which the code catches, is left out. `fx` is how far the
application thread is inside Submit or build: writing line after line, sending HISCORES,
adding the listener. `handlers` are the listeners of the one static connection, which
nobody removes; `delivery` is an answer on its way through them, cut short by an
`AddListener` (the list is a plain ArrayList). `Kill` ends the program anywhere and keeps
only the file.

### `Ranks`

What `List.sort` makes of a list with the comparators of `MultiplayerGame` and
`ScoresScene`: `Rank` counts the positions that do not come behind a position, `SortedBy`
puts each element at its rank, so equal scores stay in their order. `Opponents` and
`Scores` use it.

### `Screens`, `Labs`

`Opponents`, `Scenes` and `Scores` share no state that a property relates, so they are
checked as one sum: `part` is chosen in the initial state, only that part takes steps,
and the other two stay as they begin. A behaviour of one part is so checked once, and not
interleaved with the others'. `Labs` does the same, with `exercise`, for small programs
that are never run together: `Zoo` twice (lab7, lab8), `CyclicQueue`, `Seats`,
`ColourGame`, `Triangular`, `JavaFileUtil`, `KPalindrome`, `WhiteBoard`, and `Belt` twice
for its two liveness properties. Each has its own variables, but for the two zoos, which
share theirs, and the two belts. A part that is not chosen begins in one of its initial
states and stays there, so its invariant is true of it as well.

* `ColourGame`: `blockClicked` in five steps, as it shares colour and score with the
  Timer thread; `gameLoop` in one, as it is the only writer of the colour.
* `WhiteBoard`: the path of the canvas is a set of lines, the position and the beginning;
  `Readable` and `ColourRead` are what `PaintMessage` makes of a colour written in 255ths.
  The handlers ask for no mouse button, so `held` counts those that are down: a second
  press begins a stroke of its own, every release sends the message there is.
* `Zoo`: `count++` is `ReadCount` and `WriteCount`; `OneByOne` is lab7's `join`, `Locked`
  is lab8's `synchronized`.
* `CyclicQueue` implements `NumberQueue`, a sequence, through `Held`.
* `Seats`: all seats but the last of type 1, forks as locks.
* `JavaFileUtil`: the directory as a function, one step per byte, any order of `list()`;
  the call throws for an argument that is no directory and at a directory whose name ends
  in `.java`. Other errors of the disk are left out.
* `KPalindrome`: the recursion as it is, against the definition over sets of letters. A
  call is named by the first and the last letter it is about and by how many may still
  be taken out, and the answers of a word's calls are a recursive function on these.
* `Triangular`: memory by index from the block's first cell, `Garbage` for what nobody
  has initialised (the size of `newarray`, the missing result of `store`). For N of 0 or
  less there is no array; a `malloc` that fails crashes the program and has no step.

## What TLC checks

| run | instance | shows |
|---|---|---|
| `play` | 2x2, Dot and Double, 2 Timers, gameLoops waiting and begun, score to 20, fair threads | all invariants of the game; it implements `ChallengeRules`, lives lost between placements included; a player who stops loses |
| `multi` | 2x2, Dot and Plus, 2 Timers, 1 runnable, fair server and threads | pieces as dealt (`PieceFeed`), one answer per wait, waits end, the server knows score and lives, the game is whole after each wait |
| `belt_threads` | 2 producers, 2 consumers, capacity 2, 2 calls each, producers interrupted | types, indices, locks, no number lost before the first dequeue |
| `screens` | one or two opponents, 7 scenes, a score file over 2 games of 2 clicks | the panel shows the scores, runners-up named and shown, scenes initialised and alive, no score on file lost, the answer shown |
| `labs` | see `MCLabs` | counting, FIFO, forks, arrays, files, words, clicks, strokes; dequeue not held up by a producer that stops, sleepers woken by the other side |
| `leaving`, `overdue`, `multi_unsent`, `belt_overfill`, `belt_available`, `switched`, `twice` | small | expected violations, see below |

Bounds. On a 2x2 board a Dot or Double completes one or two lines, crossing ones
included, and every order of placements, rotations and hover moves occurs; boards where
other cells stay are left to the proofs, which hold for every size. `MaxScore` stops
placements once it is passed; the one that passes it is still made, may score several
lines at a multiplier above 1, and crosses a level, as `LevelStep` is 50 (the code's 1000
needs a long game and changes nothing else). `MaxQueue` is how many runnables may wait
when a task that has begun queues one more: a second `gameLoop` can be pending when the
first one ends the game. In `multi` a Plus, which fits nowhere on a 2x2 board, tells
pieces apart at little cost, and a piece is placed only while there is a Timer left to
schedule. `MaxCalls` bounds the calls of a belt worker; two calls let a thread meet its
own earlier notification, and a capacity of two wraps the indices. In `belt_threads` the
threads of a side are symmetric.

In `screens`, SCORES come sorted and unsorted, with this player first, in the middle and
last; `MaxRebuilds` lets several rebuilds of one message wait when the next comes; seven
scenes are a menu, a lobby, a second way out of it and a START or last life that comes
late; the score file has one line and room for two, so that a prompt comes and does not,
and two clicks on Submit give two listeners. In `labs`, guests are two, one and two; the
queue of three wraps; five seats are the code's; words have up to five letters of three,
enough for both sides of `||`; files have up to two bytes and the output is among them or
not, and files without bytes may be directories; strokes of three points can cross, with
two buttons and a drawing at any moment; N of 0 is among the sizes. Deadlock of the
seats is excluded by `SomebodyEats`, and not by the deadlock check, which the other
exercises need off.

Deadlock is not checked: a game that was left, with nothing queued, has nothing more
to do, and a belt run ends when the threads have made their calls (or sleep for ever,
which is what `belt_available` is about).

Fairness. `ChallengeGame!Fairness` says that timer threads and the application thread
keep running; nothing forces the player to act. On the belt, the scheduler runs every
runnable thread (weak fairness), and a lock that is free again and again is obtained in
the end (strong fairness on taking it); for `DequeueNotHeldUp` this is assumed of the
consumers only.
`MultiplayerGame!Fairness` is the server that answers, the socket thread that delivers,
and the 100 ms poll of `spawnPiece`. In `Screens` the application thread works off its
queue, a message taken is handled to its end, and (for `AnswerShown` alone) the server
answers; nobody has to send SCORES, choose from the menu or die. In `Labs` a philosopher
who can go on does, with no fairness between two who want one fork, and the threads of
the belt run as above.

### Where the code does not do what it says

* `leaving`: ESC cancels the Timer but not a `gameLoop` already queued. On the last life
  that one runs in the menu, and opens the scores.
* `overdue`: a piece placed while a `gameLoop` of the old Timer is queued does not save
  the life; the new Timer has only just started.
* `multi_unsent`: a piece played with ENTER is not sent to the server, and the lines a
  placement clears are not either: `blockClicked` sends before it clears.
* `belt_overfill`: the `if` around `wait`, together with a `notifyAll` that also wakes the
  thread's own side, lets a producer overwrite a number. A consumer reads from an empty
  belt in the same way (not a run of its own).
* `belt_available`: a `notifyAll` between the test and the wait is lost.
* `switched`: `lastRunnerUps` is the list `runnerUps` itself, so the branches that move the
  boards are dead code, and after an exchange one place shows the wrong player's board.
* `twice`: two loads before the first deferred `initialise`: the second scene is
  initialised twice, and its game has a Timer that close does not cancel.

Smaller ones the properties state as exceptions: what came before a listener
(`PanelFollowsScores`), a colon in a name and a kill while writing (`FileKeepsScores`),
an answer before its listener or cut short by another (`AnswerShown`), a late click or
one half handled when the score is sent (`SentScoreStands`), a drawing or the release of
one of two buttons inside a stroke (`NothingMixed`, `OthersSeeStroke`), strokes that
cross themselves (`OthersSeeStroke`), the empty word (`NoExactly`), a call that throws,
or never returns as the output is read as input (`Concatenated`), a size that began below
zero (`BlockHoldsTable`). A hazard of which a property covers only a part has a note in
`PROJECT.json` that says which.

## What is proved

All proofs are for every board size of at least 2, every set of pieces, Timers, threads,
players and scores, and every bound; the assumptions are the named ones of the modules.
`Belt` assumes that its producers are finitely many, without which numbers brought could
not be counted. `Zoo`, `CyclicQueue` and the other modules of the sums only define their
assumptions: the theorems of the first two take them as hypotheses, and `Screens` and
`Labs` assume them of their constants. The bytes of `JavaFileUtil` are assumed to be
bytes. The two belts of `Labs` have the sizes written there, for their two liveness
properties; `BeltProofs` is about all.

* `GridProofs`: a created or rotated piece keeps its shape within 3x3;
  `ClearedBlocksCounts`, the closed formula equals the number of cells in the completed
  lines (by cardinalities of products, with the crossings counted once);
  `FadeOutLeavesNoLine`, clearing the completed lines leaves none (a line that was not
  complete has an empty cell, which clearing keeps).
* `ChallengeGameProofs`: `Invariance`, that `Inv` holds always, and from it each
  invariant of the `play` run. `TypeOK` alone is not inductive for the properties of the
  Timer: `Inv` takes them together, since the delay of the running Timer is known only
  with the level, and the lives left only with the scene.
  It also shows `GameImplementsRules`, `Spec => Rules!Spec`. A placement maps to
  `Place` with the cells of the piece, `gameLoop` to `LoseLife`, leaving to `Quit`, the
  rest to stutters. It rests on `ClearedBlocksCounts`, on `NoFullLine` (the lines
  that are full after covering are those `afterPiece` finds) and on `PointsPositive` (a
  placement changes the board or the score, so it is a step of the rules).
* `MultiplayerProofs`: `OneAnswerPerWait`, and that `MultiplayerGame` implements
  `PieceFeed`. The flag is not cleared before the request, so that it cannot be left over
  follows only from counting everything on its way (requests, answers, one half received,
  one ready): the sum is one while a handler waits and zero otherwise. With it, what is
  dealt and not taken is in exactly one place, and each step maps to `Deal`, `Take`, `Use`,
  `Turn` or a stutter. On top of that, `GameInv` is about the game: `ServerIsTold` and
  `GameIsWhole` follow from it. A handler that waits in `spawnPiece` leaves the game half
  changed, so `GameInv` says what each of the waits finds: before the second piece there
  is no Timer, full lines stand while a placement waits, a life lost may be the last.
  What `afterPiece` keeps is cited from `ChallengeGameProofs`.
* `BeltProofs`: types, `IndicesInBounds` and `AloneWhenWoken`. The inductive
  invariant adds who holds the locks: a thread is between the labels of its critical
  section exactly when it holds its lock, at most one thread holds a lock, and an index
  is outside the array only while its holder is about to wrap it. `NothingOverwritten`
  adds `Filled`: before the first dequeue the unread slots are the first of the array, one
  for each number brought whose writer is past its write, and the index is that number,
  or one less between a write and its increment. Numbers are counted as pairs of a
  producer and a call, a finite set from which each call takes one.
* `ZooProofs`: `GatesStayApart`, from which `GuestsAreCounted`: what a gate has read is
  still the count when it writes, since no other gate is inside. In lab8 a gate inside
  holds the monitor, in lab7 the gates before it have left.
* `CyclicQueueProofs`: `QueueImplementsFifo`. `Held` reads the array from head round to
  tail; enqueue appends to it and dequeue takes its first, by cases on whether the indices
  wrap. The flag is what makes its length `Capacity` or 0 when head and tail meet.
* `ScreensProofs`: first the lemmas about `Ranks`. Of two positions one is ahead, and the
  one ahead has the smaller rank; so ranks are different, and as many as there are
  positions. `SortedProperties` (the sorted list has every element, its keys descend) and
  `SortedPlaces` (sorting changes no number of occurrences) follow. Then each part has an
  inductive invariant, and leaves those of the others alone.
  * `OpponentsInv`. A panel that is out of date has a rebuild waiting, or one under way
    that has seen no change so far and whose lines are a prefix of the scores: every
    change queues another (`PanelIsCurrent`). The scores are at all times a mixture of a
    list before and after its sort, but what they will be once it is done is a ranking of
    everybody who plays (`ScoresRanked`); so when no SCORES is being handled, a BOARD
    finds the best others first (`RunnersUpRanked`), and the only opponent's place is the
    first (`BoardIsLatest`).
  * `ScenesInv`. `OrderlyScenes` alone is not inductive. While no runnable has outlived its
    scene: at most one `initialise` waits, and while it waits the scene shown has not been
    initialised and has nothing going on that may load a scene (`InitialisedFirst`: no
    request, no START, no Timer). So what loads the next scene comes from a scene whose
    `initialise` has run, or from a player, for whom the queue has been worked off
    (`Settled`).
  * `ScoresInv`. While the file is written, what counts is the list being written, not
    the file (`Kept`): it has each score as often as it was stored and submitted
    (`ScoresKept`, `ScoresStay`), it is sorted, and the file is its beginning, sorted as
    well (`BestFirst`, `FirstLineBest`).

* `LabsProofs`: again an inductive invariant for each part, all of them together in
  `LabsInv`. A step of `Labs` is one of one part and leaves the others as they are
  (`StepOfEach`), and the parts that are not chosen keep their invariants because they
  stand still. `Zoo`, `CyclicQueue` and `Belt` come with their proof modules, as
  instances; the other invariants are new:
  * `SeatInv`: who holds which fork follows from how far each philosopher has got with
    asking (`Taken`). If nobody could go on, a first seat would hold one fork and wait
    for the first fork of the seat after it, which waits for the next, and so on to the
    last seat of type 1, whose second fork nobody holds unless the seat of type 2 has
    both. So somebody can always go on, however many seats there are
    (`PhilosophersGoOn`): this is the part of `SomebodyEats` that needs no fairness.
  * `ColourInv`: once the score is sent a click under way is a late one, and the colour a
    click will paint is not the one it saw; `SentScoreStands` is not inductive without
    the first.
  * `ArrayInv`: what was written is within the cells the constructor counts, and every
    cell of the table has been written. That the places are different rests on lemmas
    about `Index`: rows 0 to r - 1 take r * (2N - r + 1) / 2 cells, so each begins where
    the one before it ends.
  * `FileInv`: either the file written is being read itself, and its end moves on with
    what is copied, so the call never returns; or it holds what the finished inputs
    give, and the part of the current one that has been read.
  * `WordInv` says the answer is that of the recursion. `AnswerRight` shows by
    induction on the letters a call is about that its answer is no exactly if no choice
    of all but k of them reads the same in both directions: equal ends are in a longest
    choice, of unequal ends one is not. `KPalindromeIs` relates choices of letters, as
    increasing sequences, to the sets taken out of which `IsKPalindrome` speaks.
  * `BoardInv`: the points of the message are those of the stroke, each once and in the
    order of their first coming, and until it is disturbed the path of the context is
    the stroke's. For `StrokeSeenByOthers` it has to be known that a stroke that comes
    back to one of its points without crossing itself has not left it (`BackToLast`).

Induction. No installed prover instantiates the library's induction theorems, which take
an operator. That < on the naturals is well founded is a theorem about sets, though, and
gives `LeastNat` (a set of naturals has a least element) and `Inductive` (one that holds 0
and with n also n + 1 holds all of them). With a set of numbers for which a statement is
true in place of the statement, `LabsProofs` proves that the recursions and folds of
`Triangular`, `JavaFileUtil`, `KPalindrome` and `WhiteBoard` have a solution, and what it
is.

Only model-checked: liveness (`IdleGameEnds`, `DequeueNotHeldUp`, `WakeupFollows`,
`PlayResumes`, `ScenesComeAlive`, `AnswerShown`, `SomebodyEats`), which the proof system
does not reach, as it has neither fairness nor ENABLED; for the two about the belt its
types and invariant are proved in both instances.

## Not modelled

* Layout, painting, fades, audio, and the text of logs and messages: no property here
  speaks of them.
* Chat and login of ecschat, and MSG, NICK and the list of channels in TetrECS: each
  message becomes a line of text and leaves no state behind.
* `lab8-2/Belt`: an earlier version of the modelled belt. `MinInt`, `MinTree`,
  `RandomNumberWriter`, `q1.c`: one obvious loop or formula each. `DAGSort`: a stub.
* The servers, the labs' test library, JavaFX and java.util.Timer: external, modelled as
  far as the code uses them.
* `Labs/lab5/Libairies`: the generated Javadoc of the test library, with jQuery, jQuery
  UI, JSZip and a search index. It is the only JavaScript in the repository, it is not
  part of any of its programs, and none of it is modelled; the mapped lines are all Java
  and C.
