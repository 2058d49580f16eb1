----------------------------- MODULE ScreensProofs -----------------------------
(***************************************************************************)
(* The properties of the windows around the game for any players, scores,   *)
(* score file and number of scenes: what the side panel and the boards show *)
(* (Opponents), which scenes are initialised, poll and play (Scenes), and   *)
(* what is on file (Scores).                                                *)
(*                                                                         *)
(* Each of the three has an inductive invariant of its own, which a step of *)
(* the other two leaves as it is.                                           *)
(***************************************************************************)
EXTENDS Screens, Ranks, FiniteSetTheorems, SequenceTheorems, TLAPS

(***************************************************************************)
(* Sorting by rank.  Every element gets a place of its own, so the sorted   *)
(* list is the list in another order, and its keys descend.                 *)
(***************************************************************************)
Keys(I) == [I -> Int]

\* Positions that are not behind i.
Ahead(keys, i) == {j \in DOMAIN keys : NotBehind(keys, j, i)}

-----------------------------------------------------------------------------
\* Of two positions one is behind the other.
LEMMA BehindIsTotal ==
  ASSUME NEW I \in SUBSET Int, NEW keys \in Keys(I), NEW i \in I, NEW j \in I
  PROVE  /\ NotBehind(keys, i, i)
         /\ i # j => (NotBehind(keys, i, j) <=> ~NotBehind(keys, j, i))
<1>1. keys[i] \in Int /\ keys[j] \in Int /\ i \in Int /\ j \in Int
  BY DEF Keys
<1> QED
  BY <1>1 DEF NotBehind

LEMMA AheadIsSmaller ==
  ASSUME NEW I \in SUBSET Int, NEW keys \in Keys(I), NEW i \in I, NEW j \in I,
         i # j, NotBehind(keys, i, j)
  PROVE  /\ Ahead(keys, i) \subseteq Ahead(keys, j)
         /\ j \in Ahead(keys, j) \ Ahead(keys, i)
<1>1. ASSUME NEW k \in I, NotBehind(keys, k, i)
      PROVE  NotBehind(keys, k, j)
  <2>1. /\ keys[i] \in Int /\ keys[j] \in Int /\ keys[k] \in Int
        /\ i \in Int /\ j \in Int /\ k \in Int
    BY DEF Keys
  <2> QED
    BY <1>1, <2>1 DEF NotBehind
<1>2. DOMAIN keys = I
  BY DEF Keys
<1>3. NotBehind(keys, j, j) /\ ~NotBehind(keys, j, i)
  BY BehindIsTotal
<1> QED
  BY <1>1, <1>2, <1>3 DEF Ahead

LEMMA RankBounds ==
  ASSUME NEW I \in SUBSET Int, IsFiniteSet(I), NEW keys \in Keys(I), NEW i \in I
  PROVE  /\ IsFiniteSet(Ahead(keys, i))
         /\ Rank(keys, i) = Cardinality(Ahead(keys, i))
         /\ Rank(keys, i) \in 1 .. Cardinality(I)
<1>1. DOMAIN keys = I /\ Ahead(keys, i) \in SUBSET I
  BY DEF Keys, Ahead
<1>2. IsFiniteSet(Ahead(keys, i)) /\ Cardinality(Ahead(keys, i)) <= Cardinality(I)
  BY <1>1, FS_Subset
<1>3. i \in Ahead(keys, i)
  BY <1>1, BehindIsTotal DEF Ahead
<1>4. Cardinality(Ahead(keys, i)) # 0
  BY <1>2, <1>3, FS_EmptySet
<1>5. Cardinality(Ahead(keys, i)) \in Nat /\ Cardinality(I) \in Nat
  BY <1>2, FS_CardinalityType
<1>6. Rank(keys, i) = Cardinality(Ahead(keys, i))
  BY DEF Rank, Ahead
<1> QED
  BY <1>2, <1>4, <1>5, <1>6

\* The one that is ahead has the smaller rank.
LEMMA RankOrders ==
  ASSUME NEW I \in SUBSET Int, IsFiniteSet(I), NEW keys \in Keys(I),
         NEW i \in I, NEW j \in I, i # j, NotBehind(keys, i, j)
  PROVE  Rank(keys, i) < Rank(keys, j)
<1>1. /\ IsFiniteSet(Ahead(keys, i)) /\ IsFiniteSet(Ahead(keys, j))
      /\ Rank(keys, i) = Cardinality(Ahead(keys, i))
      /\ Rank(keys, j) = Cardinality(Ahead(keys, j))
  BY RankBounds
<1>2. /\ Ahead(keys, i) \in SUBSET Ahead(keys, j)
      /\ Ahead(keys, i) # Ahead(keys, j)
  BY AheadIsSmaller
<1>3. /\ Cardinality(Ahead(keys, i)) <= Cardinality(Ahead(keys, j))
      /\ Cardinality(Ahead(keys, i)) # Cardinality(Ahead(keys, j))
  BY <1>1, <1>2, FS_Subset
<1>4. Cardinality(Ahead(keys, i)) \in Nat /\ Cardinality(Ahead(keys, j)) \in Nat
  BY <1>1, FS_CardinalityType
<1> QED
  BY <1>1, <1>3, <1>4

\* Every rank is the rank of exactly one position, and ranks follow the keys.
LEMMA RankedPositions ==
  ASSUME NEW I \in SUBSET Int, IsFiniteSet(I), NEW keys \in Keys(I)
  PROVE  /\ \A k \in 1 .. Cardinality(I) :
              Ranked(keys, k) \in I /\ Rank(keys, Ranked(keys, k)) = k
         /\ \A i \in I : Rank(keys, i) \in 1 .. Cardinality(I)
                         /\ Ranked(keys, Rank(keys, i)) = i
         /\ \A k, l \in 1 .. Cardinality(I) : k < l =>
              /\ Ranked(keys, k) # Ranked(keys, l)
              /\ NotBehind(keys, Ranked(keys, k), Ranked(keys, l))
<1> DEFINE N == Cardinality(I)
           rank == [i \in I |-> Rank(keys, i)]
<1>1. N \in Nat /\ DOMAIN keys = I
  BY FS_CardinalityType DEF Keys
<1>2. \A i \in I : Rank(keys, i) \in 1 .. N
  BY RankBounds
<1>3. ASSUME NEW i \in I, NEW j \in I, Rank(keys, i) = Rank(keys, j)
      PROVE  i = j
  <2>1. SUFFICES ASSUME i # j
                 PROVE  FALSE
    OBVIOUS
  <2>2. NotBehind(keys, i, j) \/ NotBehind(keys, j, i)
    BY <2>1, BehindIsTotal
  <2>3. Rank(keys, i) < Rank(keys, j) \/ Rank(keys, j) < Rank(keys, i)
    BY <2>1, <2>2, RankOrders
  <2> QED
    BY <1>1, <1>2, <1>3, <2>3
<1>4. rank \in Injection(I, 1 .. N)
  BY <1>2, <1>3 DEF Injection, IsInjective
<1>5. IsFiniteSet(1 .. N) /\ Cardinality(1 .. N) = N
  BY <1>1, FS_Interval
<1>6. rank \in Surjection(I, 1 .. N)
  <2> HIDE DEF rank
  <2> QED
    BY <1>4, <1>5, FS_Injection
<1>7. ASSUME NEW k \in 1 .. N
      PROVE  \E i \in I : Rank(keys, i) = k
  BY <1>6 DEF Surjection
<1>8. ASSUME NEW k \in 1 .. N
      PROVE  Ranked(keys, k) \in I /\ Rank(keys, Ranked(keys, k)) = k
  BY <1>1, <1>7 DEF Ranked
<1>9. ASSUME NEW i \in I
      PROVE  Ranked(keys, Rank(keys, i)) = i
  BY <1>2, <1>3, <1>8
<1>10. ASSUME NEW k \in 1 .. N, NEW l \in 1 .. N, k < l
       PROVE  /\ Ranked(keys, k) # Ranked(keys, l)
              /\ NotBehind(keys, Ranked(keys, k), Ranked(keys, l))
  <2> DEFINE i == Ranked(keys, k)
             j == Ranked(keys, l)
  <2>1. i \in I /\ j \in I /\ Rank(keys, i) = k /\ Rank(keys, j) = l
    BY <1>8
  <2>2. i # j /\ ~(Rank(keys, j) < Rank(keys, i))
    BY <1>1, <1>10, <2>1
  <2> HIDE DEF i, j
  <2>3. NotBehind(keys, i, j)
    BY <2>1, <2>2, BehindIsTotal, RankOrders
  <2> QED
    BY <2>2, <2>3 DEF i, j
<1> QED
  BY <1>2, <1>8, <1>9, <1>10

-----------------------------------------------------------------------------
\* The positions of a set, from the lowest on.
LEMMA NthProperties ==
  ASSUME NEW I \in SUBSET Int, IsFiniteSet(I)
  PROVE  /\ \A k \in 1 .. Cardinality(I) : Nth(I, k) \in I
         /\ \A k, l \in 1 .. Cardinality(I) : k < l => Nth(I, k) < Nth(I, l)
         /\ \A i \in I : \E k \in 1 .. Cardinality(I) : Nth(I, k) = i
<1> DEFINE keys == [i \in I |-> 0]
<1>1. keys \in Keys(I) /\ \A i \in I : keys[i] = 0
  BY DEF Keys
<1> HIDE DEF keys
<1>2. \A k : Nth(I, k) = Ranked(keys, k)
  BY DEF Nth, keys
<1>3. \A k \in 1 .. Cardinality(I) : Nth(I, k) \in I
  BY <1>1, <1>2, RankedPositions
<1>4. ASSUME NEW k \in 1 .. Cardinality(I), NEW l \in 1 .. Cardinality(I), k < l
      PROVE  Nth(I, k) < Nth(I, l)
  <2>1. Nth(I, k) # Nth(I, l) /\ NotBehind(keys, Nth(I, k), Nth(I, l))
    BY <1>1, <1>2, <1>4, RankedPositions
  <2>2. Nth(I, k) \in I /\ Nth(I, l) \in I
    BY <1>3
  <2>3. Nth(I, k) \in Int /\ Nth(I, l) \in Int
    BY <2>2
  <2>4. keys[Nth(I, k)] = 0 /\ keys[Nth(I, l)] = 0
    BY <1>1, <2>2
  <2>5. Nth(I, k) <= Nth(I, l)
    BY <2>1, <2>4 DEF NotBehind
  <2> QED
    BY <2>1, <2>3, <2>5
<1>5. \A i \in I : \E k \in 1 .. Cardinality(I) : Nth(I, k) = i
  BY <1>1, <1>2, RankedPositions
<1> QED
  BY <1>3, <1>4, <1>5

-----------------------------------------------------------------------------
\* The sorted list has the elements of the list, each once, by descending keys.
THEOREM SortedProperties ==
  ASSUME NEW T, NEW list \in Seq(T), NEW keys \in Keys(1 .. Len(list))
  PROVE  /\ SortedBy(keys, list) \in Seq(T)
         /\ Len(SortedBy(keys, list)) = Len(list)
         /\ \A k \in 1 .. Len(list) :
              /\ Ranked(keys, k) \in 1 .. Len(list)
              /\ Rank(keys, Ranked(keys, k)) = k
              /\ SortedBy(keys, list)[k] = list[Ranked(keys, k)]
         /\ \A i \in 1 .. Len(list) :
              /\ Rank(keys, i) \in 1 .. Len(list)
              /\ Ranked(keys, Rank(keys, i)) = i
              /\ SortedBy(keys, list)[Rank(keys, i)] = list[i]
         /\ \A k, l \in 1 .. Len(list) : k < l =>
              keys[Ranked(keys, k)] >= keys[Ranked(keys, l)]
<1> DEFINE N == Len(list)
<1>1. N \in Nat /\ DOMAIN list = 1 .. N /\ \A k \in 1 .. N : list[k] \in T
  BY LenProperties, ElementOfSeq
<1>2. IsFiniteSet(1 .. N) /\ Cardinality(1 .. N) = N
  <2> HIDE DEF N
  <2>1. N \in Nat
    BY <1>1
  <2> QED
    BY <2>1, FS_Interval
<1>a. 1 .. N \in SUBSET Int /\ keys \in Keys(1 .. N)
  BY <1>1
<1>3. /\ \A k \in 1 .. N : Ranked(keys, k) \in 1 .. N /\ Rank(keys, Ranked(keys, k)) = k
      /\ \A i \in 1 .. N : Rank(keys, i) \in 1 .. N /\ Ranked(keys, Rank(keys, i)) = i
      /\ \A k, l \in 1 .. N : k < l => NotBehind(keys, Ranked(keys, k), Ranked(keys, l))
  <2> HIDE DEF N
  <2> QED
    BY <1>2, <1>a, RankedPositions
<1>4. /\ DOMAIN SortedBy(keys, list) = 1 .. N
      /\ \A k \in 1 .. N : SortedBy(keys, list)[k] = list[Ranked(keys, k)]
  BY <1>1 DEF SortedBy
<1>5. SortedBy(keys, list) \in [1 .. N -> T]
  BY <1>1, <1>3, <1>4 DEF SortedBy
<1>6. SortedBy(keys, list) \in Seq(T) /\ Len(SortedBy(keys, list)) = N
  <2>1. SortedBy(keys, list) \in Seq(T)
    BY <1>1, <1>5, SeqDef
  <2> QED
    BY <1>1, <1>4, <2>1, LenProperties
<1>7. ASSUME NEW k \in 1 .. N, NEW l \in 1 .. N, k < l
      PROVE  keys[Ranked(keys, k)] >= keys[Ranked(keys, l)]
  <2>1. Ranked(keys, k) \in 1 .. N /\ Ranked(keys, l) \in 1 .. N
    BY <1>3
  <2>2. NotBehind(keys, Ranked(keys, k), Ranked(keys, l))
    BY <1>3, <1>7
  <2>3. keys[Ranked(keys, k)] \in Int /\ keys[Ranked(keys, l)] \in Int
    BY <2>1 DEF Keys
  <2> QED
    BY <2>2, <2>3 DEF NotBehind
<1> QED
  BY <1>3, <1>4, <1>6, <1>7

-----------------------------------------------------------------------------
(***************************************************************************)
(* How often an element is in a list.                                       *)
(***************************************************************************)
Places(list, x) == {i \in DOMAIN list : list[i] = x}

LEMMA PlacesFinite ==
  ASSUME NEW T, NEW list \in Seq(T), NEW x
  PROVE  IsFiniteSet(Places(list, x)) /\ Cardinality(Places(list, x)) \in Nat
<1>1. Len(list) \in Nat /\ DOMAIN list = 1 .. Len(list)
  BY LenProperties
<1>2. IsFiniteSet(1 .. Len(list)) /\ Places(list, x) \in SUBSET (1 .. Len(list))
  BY <1>1, FS_Interval DEF Places
<1> QED
  BY <1>2, FS_Subset, FS_CardinalityType

\* Sorting changes no number of occurrences.
THEOREM SortedPlaces ==
  ASSUME NEW T, NEW list \in Seq(T), NEW keys \in Keys(1 .. Len(list)), NEW x
  PROVE  Cardinality(Places(SortedBy(keys, list), x)) = Cardinality(Places(list, x))
<1> DEFINE sorted == SortedBy(keys, list)
           N == Len(list)
           move == [k \in Places(sorted, x) |-> Ranked(keys, k)]
<1>1. /\ sorted \in Seq(T) /\ Len(sorted) = N
      /\ \A k \in 1 .. N : /\ Ranked(keys, k) \in 1 .. N
                           /\ Rank(keys, Ranked(keys, k)) = k
                           /\ sorted[k] = list[Ranked(keys, k)]
      /\ \A i \in 1 .. N : /\ Rank(keys, i) \in 1 .. N
                           /\ Ranked(keys, Rank(keys, i)) = i
                           /\ sorted[Rank(keys, i)] = list[i]
  BY SortedProperties
<1>2. DOMAIN list = 1 .. N /\ DOMAIN sorted = 1 .. N
  <2> HIDE DEF sorted
  <2> QED
    BY <1>1, LenProperties
<1> HIDE DEF sorted, N
<1>3. move \in [Places(sorted, x) -> Places(list, x)]
  BY <1>1, <1>2 DEF Places
<1>4. \A k, l \in Places(sorted, x) : move[k] = move[l] => k = l
  BY <1>1, <1>2 DEF Places
<1>5. \A i \in Places(list, x) : \E k \in Places(sorted, x) : move[k] = i
  <2> SUFFICES ASSUME NEW i \in Places(list, x)
               PROVE  \E k \in Places(sorted, x) : move[k] = i
    OBVIOUS
  <2>1. Rank(keys, i) \in Places(sorted, x) /\ Ranked(keys, Rank(keys, i)) = i
    BY <1>1, <1>2 DEF Places
  <2> QED
    BY <2>1
<1>6. move \in Bijection(Places(sorted, x), Places(list, x))
  BY <1>3, <1>4, <1>5 DEF Bijection, Injection, IsInjective, Surjection
<1>7. ExistsBijection(Places(sorted, x), Places(list, x))
  BY <1>6 DEF ExistsBijection
<1>8. IsFiniteSet(Places(sorted, x))
  BY <1>1, PlacesFinite
<1> QED
  BY <1>7, <1>8, FS_Bijection DEF sorted

\* Appending counts one more of the element appended, and no other.
LEMMA AppendPlaces ==
  ASSUME NEW T, NEW list \in Seq(T), NEW y \in T, NEW x
  PROVE  Cardinality(Places(Append(list, y), x))
           = Cardinality(Places(list, x)) + (IF x = y THEN 1 ELSE 0)
<1> DEFINE N == Len(list) + 1
<1>1. /\ Len(list) \in Nat /\ DOMAIN list = 1 .. Len(list)
      /\ DOMAIN Append(list, y) = 1 .. N
      /\ Append(list, y)[N] = y
      /\ \A i \in 1 .. Len(list) : Append(list, y)[i] = list[i]
  BY LenProperties, AppendProperties
<1>2. N \notin Places(list, x)
  BY <1>1 DEF Places
<1>3. IsFiniteSet(Places(list, x)) /\ Cardinality(Places(list, x)) \in Nat
  BY PlacesFinite
<1>4. CASE x = y
  <2>1. Places(Append(list, y), x) = Places(list, x) \cup {N}
    BY <1>1, <1>4 DEF Places
  <2> QED
    BY <1>2, <1>3, <1>4, <2>1, FS_AddElement
<1>5. CASE x # y
  <2>1. Places(Append(list, y), x) = Places(list, x)
    BY <1>1, <1>5 DEF Places
  <2> QED
    BY <1>3, <1>5, <2>1
<1> QED
  BY <1>4, <1>5

(***************************************************************************)
(* Opponents.  Every change of the list that a rebuild under way could trip *)
(* over also queues a rebuild.  So the last rebuild, the one that leaves     *)
(* none behind, reads a list nobody changes: it cannot fail, and what it has *)
(* read so far is the beginning of the scores.  Before the scene listens a  *)
(* change is noted in missed.                                               *)
(***************************************************************************)
SceneBuilt == building => built = "built"

\* The rebuild under way is the last.
LastReads ==
  building /\ rebuilds = 0 =>
    /\ ~modified
    /\ Len(lines) <= Len(scores)
    /\ \A i \in 1 .. Len(lines) : lines[i] = scores[i]

LastShown == ~building /\ rebuilds = 0 => panel = scores \/ missed

\* A list of everybody who plays, each once.
Complete(list) ==
  /\ O!Named(list) = roster
  /\ \A i, j \in DOMAIN list : list[i].name = list[j].name => i = j

Ranking(list) ==
  /\ Complete(list)
  /\ \A i, j \in DOMAIN list : i < j => list[i].score >= list[j].score

\* The list the sort will have made of the scores when it is done.
Placed == Len(scores) - Len(todo)
Final == [i \in DOMAIN scores |-> IF i <= Placed THEN scores[i] ELSE todo[i - Placed]]

ScoresRanked ==
  /\ socket = "ready" => scores = <<>> \/ Ranking(scores)
  /\ socket = "adding" => Complete(scores \o todo)
  /\ socket = "sorting" => Ranking(Final)

OpponentsInv ==
  /\ roster \in O!Rosters
  /\ O!TypeOK
  /\ SceneBuilt /\ LastReads /\ LastShown
  /\ ScoresRanked
  /\ O!OnlyOpponentShown

(***************************************************************************)
(* Scenes.  While no runnable of a scene already left has been run, whatever *)
(* loads a scene finds no initialise of another scene waiting: the player   *)
(* acts on a queue that was worked off, and a START or the end of a game    *)
(* comes from a scene that has been initialised.                            *)
(***************************************************************************)
Waits(queue, runnable) == \E i \in DOMAIN queue : queue[i] = runnable

\* Only scenes of the kind that has them have listeners, Timers and requests.
OfTheirKind ==
  /\ fxQueue \in Seq(W!Runnable)
  /\ \A n \in W!Numbers :
       /\ n > W!Current => inits[n] = 0
       /\ timers[n] > 0 => n \in W!Of({"challenge", "multiplayer"})
       /\ n \in running => timers[n] > 0
       /\ requests[n] # <<>> \/ seats[n] # "out" => n \in W!Of({"lobby"})
       /\ Waits(fxQueue, W!Start(n)) => n \in W!Of({"lobby"})
       /\ Waits(fxQueue, W!GameOver(n)) => n \in W!Of({"challenge", "multiplayer"})

Settled == ~settling => ~Waits(fxQueue, W!Initialise)

\* Scene n has got something going that may load a scene.
Active(n) ==
  \/ requests[n] # <<>> \/ seats[n] # "out" \/ n \in starting
  \/ timers[n] > 0
  \/ Waits(fxQueue, W!Start(n)) \/ Waits(fxQueue, W!GameOver(n))

OneInitialise(queue) ==
  \A i, j \in DOMAIN queue :
    queue[i] = W!Initialise /\ queue[j] = W!Initialise => i = j

InitialisedFirst ==
  /\ OneInitialise(fxQueue)
  /\ Waits(fxQueue, W!Initialise) => inits[W!Current] = 0 /\ ~Active(W!Current)
  /\ \A n \in W!Numbers : timers[n] > 0 => n \in running

ScenesInv ==
  /\ W!TypeOK /\ OfTheirKind /\ Settled
  /\ ~late => InitialisedFirst
  /\ W!OrderlyScenes

(***************************************************************************)
(* Scores.  While the file is written, the scores are those of the list;    *)
(* what is on file is the beginning of the list.                            *)
(***************************************************************************)
Kept == IF fx = "writing" THEN local ELSE file

WrittenInOrder ==
  fx = "writing" =>
    /\ screen = "prompt"
    /\ \A i \in DOMAIN file : file[i] = local[i]

PromptHasFile == screen = "prompt" /\ fx # "writing" => local = file

ScoresKept ==
  ~cut => \A pair \in S!Pairs :
            S!Times(Kept, pair) = S!Times(S!StoredLines, pair) + S!Times(submitted, pair)

BestFirst ==
  S!Descending(S!StoredLines) => S!Descending(file) /\ S!Descending(Kept)

Delivery == [list : Seq(Points), next : Nat, stale : BOOLEAN]

ScoresInv ==
  /\ S!TypeOK
  /\ userScores \in Seq(Points)
  /\ reactions \in Seq(S!Runnable) /\ handlers \in Seq(1 .. scene)
  /\ answers \in Seq(Seq(Points)) /\ delivery \in Delivery
  /\ screen # "away" \/ fx # "idle" => scene > 0
  /\ WrittenInOrder /\ PromptHasFile /\ ScoresKept /\ BestFirst

Inv == OpponentsInv /\ ScenesInv /\ ScoresInv

-----------------------------------------------------------------------------
(***************************************************************************)
(* The copies of Ranks in the instances are Ranks.                          *)
(***************************************************************************)
LEMMA OpponentsRanks ==
  /\ \A keys, list : O!SortedBy(keys, list) = SortedBy(keys, list)
  /\ \A T : O!Cardinality(T) = Cardinality(T)
  /\ \A T, k : O!Nth(T, k) = Nth(T, k)
<1>1. \A T : O!Cardinality(T) = Cardinality(T)
  BY DEF O!Cardinality, Cardinality
<1>2. \A keys, i : O!Rank(keys, i) = Rank(keys, i)
  BY <1>1 DEF O!Rank, Rank, O!NotBehind, NotBehind
<1>3. \A keys, k : O!Ranked(keys, k) = Ranked(keys, k)
  BY <1>2 DEF O!Ranked, Ranked
<1> QED
  BY <1>1, <1>3 DEF O!SortedBy, SortedBy, O!Nth, Nth

LEMMA ScoresRanks ==
  /\ \A keys, list : S!SortedBy(keys, list) = SortedBy(keys, list)
  /\ \A T : S!Cardinality(T) = Cardinality(T)
<1>1. \A T : S!Cardinality(T) = Cardinality(T)
  BY DEF S!Cardinality, Cardinality
<1>2. \A keys, i : S!Rank(keys, i) = Rank(keys, i)
  BY <1>1 DEF S!Rank, Rank, S!NotBehind, NotBehind
<1>3. \A keys, k : S!Ranked(keys, k) = Ranked(keys, k)
  BY <1>2 DEF S!Ranked, Ranked
<1> QED
  BY <1>1, <1>3 DEF S!SortedBy, SortedBy

-----------------------------------------------------------------------------
(***************************************************************************)
(* Opponents: the lists.                                                    *)
(***************************************************************************)
OpponentsSteps == O!Next \/ UNCHANGED oVars

LEMMA EntryFields ==
  ASSUME NEW list \in Seq(O!Entries)
  PROVE  /\ Len(list) \in Nat /\ DOMAIN list = 1 .. Len(list)
         /\ \A i \in DOMAIN list : /\ list[i] \in O!Entries
                                   /\ list[i].name \in O!Players
                                   /\ list[i].score \in Int
<1>1. Len(list) \in Nat /\ DOMAIN list = 1 .. Len(list)
  BY LenProperties
<1>2. \A i \in DOMAIN list : list[i] \in O!Entries
  BY <1>1, ElementOfSeq
<1> QED
  BY <1>1, <1>2 DEF O!Entries

\* A SCORES message lists everybody who plays.
LEMMA MessageIsComplete ==
  ASSUME NEW list \in ScoreLists
  PROVE  /\ list \in Seq(O!Entries)
         /\ O!Named(list) = roster => Complete(list)
BY ScreensAssumption DEF O!OpponentsAssumption, Complete

LEMMA RosterHasMe ==
  ASSUME roster \in O!Rosters
  PROVE  Me \in roster /\ roster \subseteq O!Players
<1>1. PICK list \in ScoreLists : roster = O!Named(list)
  BY DEF O!Rosters
<1>2. list \in Seq(O!Entries) /\ Me \in O!Named(list)
  BY ScreensAssumption DEF O!OpponentsAssumption
<1> QED
  BY <1>1, <1>2, EntryFields DEF O!Named

\* Sorting keeps who is listed and orders them by score.
LEMMA SortedIsRanking ==
  ASSUME NEW list \in Seq(O!Entries), Complete(list)
  PROVE  /\ O!Sorted(list) \in Seq(O!Entries)
         /\ Len(O!Sorted(list)) = Len(list)
         /\ Ranking(O!Sorted(list))
<1> DEFINE keys == [i \in DOMAIN list |-> list[i].score]
           sorted == SortedBy(keys, list)
           N == Len(list)
<1>1. N \in Nat /\ DOMAIN list = 1 .. N /\ \A i \in 1 .. N : list[i].score \in Int
  BY EntryFields
<1>2. keys \in Keys(1 .. N) /\ \A i \in 1 .. N : keys[i] = list[i].score
  BY <1>1 DEF Keys
<1>3. O!Sorted(list) = sorted
  BY OpponentsRanks DEF O!Sorted
<1> HIDE DEF keys
<1>4. /\ sorted \in Seq(O!Entries)
      /\ Len(sorted) = N
      /\ \A k \in 1 .. N :
              /\ Ranked(keys, k) \in 1 .. N
              /\ Rank(keys, Ranked(keys, k)) = k
              /\ sorted[k] = list[Ranked(keys, k)]
      /\ \A i \in 1 .. N : Rank(keys, i) \in 1 .. N /\ sorted[Rank(keys, i)] = list[i]
      /\ \A k, l \in 1 .. N : k < l => keys[Ranked(keys, k)] >= keys[Ranked(keys, l)]
  BY <1>2, SortedProperties
<1> HIDE DEF sorted, N
<1>5. DOMAIN sorted = 1 .. N
  BY <1>4, LenProperties
<1>6. O!Named(sorted) = O!Named(list)
  <2>1. ASSUME NEW k \in DOMAIN sorted
        PROVE  \E i \in DOMAIN list : list[i].name = sorted[k].name
    BY <1>1, <1>4, <1>5
  <2>2. ASSUME NEW i \in DOMAIN list
        PROVE  \E k \in DOMAIN sorted : sorted[k].name = list[i].name
    BY <1>1, <1>4, <1>5
  <2> QED
    BY <2>1, <2>2 DEF O!Named
<1>7. ASSUME NEW k \in 1 .. N, NEW l \in 1 .. N, sorted[k].name = sorted[l].name
      PROVE  k = l
  <2>1. PICK i \in 1 .. N : i = Ranked(keys, k)
    BY <1>4
  <2>2. PICK j \in 1 .. N : j = Ranked(keys, l)
    BY <1>4
  <2>3. list[i].name = list[j].name
    BY <1>4, <1>7, <2>1, <2>2
  <2>4. i = j
    BY <1>1, <2>3 DEF Complete
  <2> QED
    BY <1>4, <2>1, <2>2, <2>4
<1>8. ASSUME NEW k \in 1 .. N, NEW l \in 1 .. N, k < l
      PROVE  sorted[k].score >= sorted[l].score
  <2>1. Ranked(keys, k) \in 1 .. N /\ Ranked(keys, l) \in 1 .. N
    BY <1>4
  <2>2. keys[Ranked(keys, k)] = sorted[k].score /\ keys[Ranked(keys, l)] = sorted[l].score
    BY <1>2, <1>4, <2>1
  <2> QED
    BY <1>4, <1>8, <2>2
<1>9. Ranking(sorted)
  BY <1>5, <1>6, <1>7, <1>8 DEF Ranking, Complete
<1> QED
  BY <1>3, <1>4, <1>9 DEF N

\* A list of everybody is not empty.
LEMMA CompleteNotEmpty ==
  ASSUME roster \in O!Rosters, NEW list \in Seq(O!Entries), Complete(list)
  PROVE  Len(list) \in Nat \ {0}
<1>1. Me \in O!Named(list)
  BY RosterHasMe DEF Complete
<1> QED
  BY <1>1, EntryFields DEF O!Named

-----------------------------------------------------------------------------
(***************************************************************************)
(* Opponents: types.                                                        *)
(***************************************************************************)
ListTypes ==
  /\ scores \in Seq(O!Entries) /\ todo \in Seq(O!Entries)
  /\ lines \in Seq(O!Entries) /\ panel \in Seq(O!Entries)

FlagTypes ==
  /\ socket \in {"ready", "adding", "sorting"}
  /\ rebuilds \in Nat
  /\ building \in BOOLEAN /\ modified \in BOOLEAN /\ missed \in BOOLEAN
  /\ built \in {"new", "setUp", "built"}

Lengths ==
  /\ building /\ ~modified => Len(lines) <= Len(scores)
  /\ socket = "sorting" => Len(todo) \in 1 .. Len(scores)

BoardTypes ==
  /\ runnerUps \in Seq(Others) /\ Len(runnerUps) <= 2
  /\ labels \in [O!Places -> Others \cup {O!NoName}]
  /\ boards \in [O!Places -> O!Board]
  /\ latest \in [Others -> O!Board]

LEMMA TypesOfOpponents ==
  roster \in O!Rosters =>
    (O!TypeOK <=> ListTypes /\ FlagTypes /\ Lengths /\ BoardTypes)
BY RosterHasMe DEF O!TypeOK, ListTypes, FlagTypes, Lengths, BoardTypes

LEMMA ListTypesNext ==
  ASSUME OpponentsInv, OpponentsSteps
  PROVE  ListTypes'
<1>1. /\ scores \in Seq(O!Entries) /\ todo \in Seq(O!Entries)
      /\ lines \in Seq(O!Entries) /\ panel \in Seq(O!Entries)
      /\ Len(scores) \in Nat /\ Len(todo) \in Nat /\ Len(lines) \in Nat
      /\ DOMAIN scores = 1 .. Len(scores)
  BY LenProperties DEF OpponentsInv, O!TypeOK
<1>2. <<>> \in Seq(O!Entries)
  OBVIOUS
<1>3. ASSUME todo # <<>>
      PROVE  Head(todo) \in O!Entries /\ Tail(todo) \in Seq(O!Entries)
  BY <1>1, <1>3, HeadTailProperties
<1>4. CASE O!ReceiveScores
  BY <1>1, <1>2, <1>4, MessageIsComplete DEF O!ReceiveScores, ListTypes
<1>5. CASE O!AddScore
  BY <1>1, <1>3, <1>5, AppendProperties DEF O!AddScore, ListTypes
<1>6. CASE O!StartSort
  <2>1. Complete(scores)
    BY <1>1, <1>6, ConcatEmptySeq DEF O!StartSort, OpponentsInv, ScoresRanked
  <2>2. O!Sorted(scores) \in Seq(O!Entries)
    BY <1>1, <2>1, SortedIsRanking
  <2> QED
    BY <1>1, <1>6, <2>2 DEF O!StartSort, ListTypes, O!panelVars
<1>7. CASE O!SetScore
  <2>1. todo # <<>>
    BY <1>7 DEF O!SetScore, OpponentsInv, O!TypeOK
  <2>2. Head(todo) \in O!Entries /\ Tail(todo) \in Seq(O!Entries)
    BY <1>3, <2>1
  <2>3. [scores EXCEPT ![Len(scores) - Len(todo) + 1] = Head(todo)] \in Seq(O!Entries)
    <3> DEFINE k == Len(scores) - Len(todo) + 1
    <3>1. k \in 1 .. Len(scores)
      BY <1>1, <1>7 DEF O!SetScore, OpponentsInv, O!TypeOK
    <3> QED
      BY <1>1, <2>2, <3>1, ExceptSeq
  <2> QED
    BY <1>1, <1>7, <2>2, <2>3 DEF O!SetScore, ListTypes
<1>8. CASE O!ReadLine
  <2>1. Len(lines) + 1 \in DOMAIN scores
    BY <1>1, <1>8 DEF O!ReadLine, O!HasNext, OpponentsInv, O!TypeOK
  <2>2. scores[Len(lines) + 1] \in O!Entries
    BY <1>1, <2>1, ElementOfSeq
  <2> QED
    BY <1>1, <1>8, <2>2, AppendProperties DEF O!ReadLine, ListTypes, O!listVars
<1>9. CASE O!StartRebuild \/ O!FailRebuild \/ O!ShowPanel
  BY <1>1, <1>2, <1>9 DEF O!StartRebuild, O!FailRebuild, O!ShowPanel, ListTypes, O!listVars
<1>10. ASSUME NEW p \in Others, O!ReceiveBoard(p)
       PROVE  ListTypes'
  BY <1>1, <1>10 DEF O!ReceiveBoard, ListTypes, O!listVars, O!panelVars
<1>11. CASE O!SetupGame \/ O!BuildRunnersUpVBox \/ UNCHANGED oVars
  BY <1>1, <1>11 DEF O!SetupGame, O!BuildRunnersUpVBox, oVars, ListTypes,
                     O!listVars, O!panelVars
<1> QED
  BY <1>4, <1>5, <1>6, <1>7, <1>8, <1>9, <1>10, <1>11
     DEF OpponentsSteps, O!Next, O!SocketThread, O!Rebuild

LEMMA FlagTypesNext ==
  ASSUME OpponentsInv, OpponentsSteps
  PROVE  FlagTypes'
<1>1. FlagTypes
  BY DEF OpponentsInv, O!TypeOK, FlagTypes
<1>2. ASSUME O!TellScene
      PROVE  rebuilds' \in Nat /\ missed' \in BOOLEAN
  BY <1>1, <1>2 DEF FlagTypes, O!TellScene
<1>3. CASE O!ReceiveScores
  BY <1>1, <1>2, <1>3 DEF O!ReceiveScores, FlagTypes
<1>4. CASE O!AddScore
  BY <1>1, <1>2, <1>4 DEF O!AddScore, FlagTypes
<1>5. CASE O!StartSort
  BY <1>1, <1>5 DEF O!StartSort, FlagTypes, O!panelVars
<1>6. CASE O!SetScore
  BY <1>1, <1>2, <1>6 DEF O!SetScore, FlagTypes
<1>7. CASE O!StartRebuild
  <2>1. rebuilds' \in Nat
    BY <1>1, <1>7 DEF O!StartRebuild, FlagTypes
  <2>2. building' \in BOOLEAN /\ modified' \in BOOLEAN
    BY <1>7 DEF O!StartRebuild
  <2>3. socket' = socket /\ missed' = missed /\ built' = built
    BY <1>7 DEF O!StartRebuild, O!listVars
  <2> QED
    BY <1>1, <2>1, <2>2, <2>3 DEF FlagTypes
<1>a. CASE O!ReadLine \/ O!FailRebuild \/ O!ShowPanel
  BY <1>1, <1>a DEF O!ReadLine, O!FailRebuild, O!ShowPanel, FlagTypes, O!listVars
<1>8. ASSUME NEW p \in Others, O!ReceiveBoard(p)
      PROVE  FlagTypes'
  BY <1>1, <1>8 DEF O!ReceiveBoard, FlagTypes, O!listVars, O!panelVars
<1>9. CASE O!SetupGame \/ O!BuildRunnersUpVBox \/ UNCHANGED oVars
  BY <1>1, <1>9 DEF O!SetupGame, O!BuildRunnersUpVBox, oVars, FlagTypes,
                    O!listVars, O!panelVars
<1> QED
  BY <1>3, <1>4, <1>5, <1>6, <1>7, <1>a, <1>8, <1>9
     DEF OpponentsSteps, O!Next, O!SocketThread, O!Rebuild

\* A sort has something to set as long as it is under way, and an iterator that
\* has not been invalidated is within the list.
LEMMA LengthsNext ==
  ASSUME OpponentsInv, OpponentsSteps
  PROVE  Lengths'
<1>1. /\ scores \in Seq(O!Entries) /\ todo \in Seq(O!Entries) /\ lines \in Seq(O!Entries)
      /\ Len(scores) \in Nat /\ Len(todo) \in Nat /\ Len(lines) \in Nat
      /\ DOMAIN scores = 1 .. Len(scores)
  BY LenProperties DEF OpponentsInv, O!TypeOK
<1>2. Lengths /\ Len(<<>>) = 0 /\ building \in BOOLEAN
  BY DEF OpponentsInv, O!TypeOK, Lengths
<1>3. ASSUME todo # <<>>
      PROVE  Len(Tail(todo)) = Len(todo) - 1
  BY <1>1, <1>3, HeadTailProperties
<1>4. CASE O!ReceiveScores
  <2>1. CASE scores = <<>>
    BY <1>2, <1>4, <2>1 DEF O!ReceiveScores, Lengths
  <2>2. CASE scores # <<>>
    BY <1>4, <2>2 DEF O!ReceiveScores, Lengths
  <2> QED
    BY <2>1, <2>2
<1>5. CASE O!AddScore
  BY <1>5 DEF O!AddScore, Lengths
<1>6. CASE O!StartSort
  <2>1. Complete(scores)
    BY <1>1, <1>6, ConcatEmptySeq DEF O!StartSort, OpponentsInv, ScoresRanked
  <2>2. Len(O!Sorted(scores)) = Len(scores) /\ Len(scores) # 0
    BY <1>1, <2>1, SortedIsRanking, CompleteNotEmpty DEF OpponentsInv
  <2> QED
    BY <1>1, <1>2, <1>6, <2>2 DEF O!StartSort, Lengths, O!panelVars
<1>7. CASE O!SetScore
  <2>1. Len(todo) \in 1 .. Len(scores) /\ todo # <<>>
    BY <1>2, <1>7 DEF O!SetScore, Lengths
  <2>2. Len(scores') = Len(scores) /\ Len(todo') = Len(todo) - 1
    BY <1>1, <1>3, <1>7, <2>1 DEF O!SetScore
  <2>3. lines' = lines /\ building' = building /\ modified' = modified
    BY <1>7 DEF O!SetScore
  <2>4. socket' = "sorting" => Len(todo) # 1
    BY <1>7 DEF O!SetScore
  <2> QED
    BY <1>1, <1>2, <2>1, <2>2, <2>3, <2>4 DEF Lengths
<1>8. CASE O!ReadLine
  BY <1>1, <1>2, <1>8, AppendProperties DEF O!ReadLine, O!HasNext, Lengths, O!listVars
<1>9. CASE O!StartRebuild \/ O!FailRebuild \/ O!ShowPanel
  BY <1>1, <1>2, <1>9 DEF O!StartRebuild, O!FailRebuild, O!ShowPanel, Lengths, O!listVars
<1>10. ASSUME NEW p \in Others, O!ReceiveBoard(p)
       PROVE  Lengths'
  BY <1>2, <1>10 DEF O!ReceiveBoard, Lengths, O!listVars, O!panelVars
<1>11. CASE O!SetupGame \/ O!BuildRunnersUpVBox \/ UNCHANGED oVars
  BY <1>2, <1>11 DEF O!SetupGame, O!BuildRunnersUpVBox, oVars, Lengths,
                     O!listVars, O!panelVars
<1> QED
  BY <1>4, <1>5, <1>6, <1>7, <1>8, <1>9, <1>10, <1>11
     DEF OpponentsSteps, O!Next, O!SocketThread, O!Rebuild

-----------------------------------------------------------------------------
(***************************************************************************)
(* Opponents: the runners-up and their boards.                              *)
(***************************************************************************)
OthersIn(list) == {i \in DOMAIN list : list[i].name # Me}

\* The loop of receiveMessage takes the first two of the others, or all there are.
LEMMA FirstTwo ==
  ASSUME NEW list \in Seq(O!Entries)
  PROVE  /\ OthersIn(list) \in SUBSET (1 .. Len(list))
         /\ IsFiniteSet(OthersIn(list)) /\ Cardinality(OthersIn(list)) \in Nat
         /\ O!FirstTwoOthers(list) \in Seq(Others)
         /\ Len(O!FirstTwoOthers(list)) =
              IF Cardinality(OthersIn(list)) < 2 THEN Cardinality(OthersIn(list)) ELSE 2
         /\ \A k \in 1 .. Len(O!FirstTwoOthers(list)) :
              /\ k \in 1 .. Cardinality(OthersIn(list))
              /\ Nth(OthersIn(list), k) \in OthersIn(list)
              /\ O!FirstTwoOthers(list)[k] = list[Nth(OthersIn(list), k)].name
<1> DEFINE others == OthersIn(list)
           found  == Cardinality(others)
           count  == IF found < 2 THEN found ELSE 2
           names  == O!FirstTwoOthers(list)
<1>1. /\ Len(list) \in Nat /\ DOMAIN list = 1 .. Len(list)
      /\ \A i \in DOMAIN list : list[i].name \in O!Players
  BY EntryFields
<1>2. others \in SUBSET (1 .. Len(list)) /\ IsFiniteSet(1 .. Len(list))
  BY <1>1, FS_Interval DEF OthersIn
<1>3. IsFiniteSet(others) /\ found \in Nat
  <2> HIDE DEF others
  <2> QED
    BY <1>2, FS_Subset, FS_CardinalityType
<1>4. others \in SUBSET Int
  BY <1>2
<1>5. \A k \in 1 .. found : Nth(others, k) \in others
  <2> HIDE DEF others
  <2> QED
    BY <1>3, <1>4, NthProperties
<1>6. names = [k \in 1 .. count |-> list[Nth(others, k)].name]
  BY OpponentsRanks DEF O!FirstTwoOthers, OthersIn
<1>7. count \in Nat /\ count <= found
  <2> HIDE DEF found
  <2> QED
    BY <1>3
<1>8. \A i \in others : list[i].name \in Others
  BY <1>1 DEF OthersIn, O!Players
<1> HIDE DEF others, found
<1>9. \A k \in 1 .. count : k \in 1 .. found
  BY <1>3, <1>7
<1> HIDE DEF count, names
<1>10. names \in [1 .. count -> Others]
  BY <1>5, <1>6, <1>8, <1>9
<1>11. names \in Seq(Others)
  BY <1>7, <1>10, SeqDef
<1>12. Len(names) = count
  BY <1>7, <1>10, <1>11, LenProperties
<1>13. ASSUME NEW k \in 1 .. Len(names)
       PROVE  /\ k \in 1 .. found /\ Nth(others, k) \in others
              /\ names[k] = list[Nth(others, k)].name
  BY <1>5, <1>6, <1>9, <1>12
<1> QED
  BY <1>2, <1>3, <1>11, <1>12, <1>13 DEF others, found, names, count

\* Only BOARD changes what is shown of the runners-up.
LEMMA OthersKeepBoards ==
  O!SocketThread \/ O!Rebuild \/ O!SetupGame \/ O!BuildRunnersUpVBox \/ UNCHANGED oVars
    => UNCHANGED O!boardVars
BY DEF O!SocketThread, O!ReceiveScores, O!AddScore, O!StartSort, O!SetScore,
       O!Rebuild, O!StartRebuild, O!ReadLine, O!FailRebuild, O!ShowPanel,
       O!SetupGame, O!BuildRunnersUpVBox, oVars, O!boardVars

LEMMA BoardTypesNext ==
  ASSUME OpponentsInv, OpponentsSteps
  PROVE  BoardTypes'
<1>1. BoardTypes /\ scores \in Seq(O!Entries)
  BY DEF OpponentsInv, O!TypeOK, BoardTypes
<1>2. ASSUME NEW p \in Others, O!ReceiveBoard(p)
      PROVE  BoardTypes'
  <2> DEFINE names == O!FirstTwoOthers(scores)
             board == O!NextVersion(p)
  <2>1. names \in Seq(Others) /\ Len(names) \in Nat /\ Len(names) <= 2
        /\ DOMAIN names = 1 .. Len(names) /\ \A k \in DOMAIN names : names[k] \in Others
    <3>1. names \in Seq(Others) /\ Len(names) \in Nat /\ Len(names) <= 2
      BY <1>1, FirstTwo
    <3> HIDE DEF names
    <3> QED
      BY <3>1, LenProperties, ElementOfSeq
  <2>2. board \in O!Board
    <3>1. latest[p].version \in 0 .. MaxVersion /\ MaxVersion \in Nat \ {0}
      BY <1>1, ScreensAssumption DEF BoardTypes, O!Board, O!OpponentsAssumption
    <3>2. (latest[p].version + 1) % (MaxVersion + 1) \in 0 .. MaxVersion
      BY <3>1
    <3> QED
      BY <3>2 DEF O!NextVersion, O!Board
  <2>3. O!Labelled(names) \in [O!Places -> Others \cup {O!NoName}]
    <3> HIDE DEF names
    <3> QED
      BY <1>1, <2>1 DEF O!Labelled, BoardTypes
  <2>4. O!BoardsAfter(names, p, board) \in [O!Places -> O!Board]
    <3> HIDE DEF names, board
    <3>1. [boards EXCEPT ![1] = board] \in [O!Places -> O!Board]
      BY <1>1, <2>2 DEF BoardTypes
    <3>2. [k \in O!Places |-> IF names[k] = p THEN board ELSE boards[k]]
            \in [O!Places -> O!Board]
      BY <1>1, <2>2 DEF BoardTypes
    <3> QED
      BY <1>1, <3>1, <3>2 DEF O!BoardsAfter, BoardTypes
  <2>5. /\ runnerUps' = names /\ labels' = O!Labelled(names)
        /\ boards' = O!BoardsAfter(names, p, board)
        /\ latest' = [latest EXCEPT ![p] = board]
    BY <1>2 DEF O!ReceiveBoard
  <2> HIDE DEF names, board
  <2> QED
    BY <1>1, <2>1, <2>2, <2>3, <2>4, <2>5 DEF BoardTypes
<1>3. CASE UNCHANGED O!boardVars
  BY <1>1, <1>3 DEF O!boardVars, BoardTypes
<1> QED
  BY <1>2, <1>3, OthersKeepBoards DEF OpponentsSteps, O!Next

LEMMA RosterKept ==
  ASSUME OpponentsInv, OpponentsSteps
  PROVE  roster' = roster /\ roster' \in O!Rosters
<1>1. O!SocketThread \/ O!Rebuild \/ O!SetupGame \/ O!BuildRunnersUpVBox \/ UNCHANGED oVars
        => roster' = roster
  BY DEF O!SocketThread, O!ReceiveScores, O!AddScore, O!StartSort, O!SetScore,
         O!Rebuild, O!StartRebuild, O!ReadLine, O!FailRebuild, O!ShowPanel,
         O!SetupGame, O!BuildRunnersUpVBox, oVars
<1>2. ASSUME NEW p \in Others, O!ReceiveBoard(p)
      PROVE  roster' = roster
  BY <1>2 DEF O!ReceiveBoard
<1> QED
  BY <1>1, <1>2 DEF OpponentsInv, OpponentsSteps, O!Next, O!Rosters

LEMMA OpponentsTypesNext ==
  ASSUME OpponentsInv, OpponentsSteps
  PROVE  roster' \in O!Rosters /\ O!TypeOK'
<1>1. ListTypes' /\ FlagTypes' /\ Lengths' /\ BoardTypes'
  BY ListTypesNext, FlagTypesNext, LengthsNext, BoardTypesNext
<1>2. roster' \in O!Rosters
  BY RosterKept
<1>3. (roster \in O!Rosters =>
        (O!TypeOK <=> ListTypes /\ FlagTypes /\ Lengths /\ BoardTypes))'
  BY TypesOfOpponents, PTL
<1>4. O!Rosters' = O!Rosters
  BY DEF O!Rosters, O!Named
<1> QED
  BY <1>1, <1>2, <1>3, <1>4

-----------------------------------------------------------------------------
(***************************************************************************)
(* Opponents: the scores are ranked whenever SCORES has been handled.       *)
(***************************************************************************)
LEMMA ScoresRankedNext ==
  ASSUME OpponentsInv, OpponentsSteps
  PROVE  ScoresRanked'
<1>1. /\ scores \in Seq(O!Entries) /\ todo \in Seq(O!Entries)
      /\ Len(scores) \in Nat /\ Len(todo) \in Nat
      /\ DOMAIN scores = 1 .. Len(scores) /\ DOMAIN todo = 1 .. Len(todo)
      /\ ScoresRanked /\ roster' = roster
  BY LenProperties, RosterKept DEF OpponentsInv, O!TypeOK
<1>2. CASE O!ReceiveScores
  <2>1. /\ todo' \in Seq(O!Entries) /\ Complete(todo') /\ scores' = <<>>
        /\ socket' = "adding"
    BY <1>2, MessageIsComplete DEF O!ReceiveScores
  <2>2. scores' \o todo' = todo'
    BY <2>1, ConcatEmptySeq
  <2>3. Complete(scores \o todo)'
    BY <1>1, <2>1, <2>2 DEF Complete
  <2> QED
    BY <2>1, <2>3 DEF ScoresRanked
<1>3. CASE O!AddScore
  <2>1. /\ Head(todo) \in O!Entries /\ Tail(todo) \in Seq(O!Entries)
        /\ todo = <<Head(todo)>> \o Tail(todo)
    BY <1>1, <1>3, HeadTailProperties, ConcatProperties DEF O!AddScore
  <2>2. scores' \o todo' = scores \o todo
    <3>1. scores' = scores \o <<Head(todo)>> /\ todo' = Tail(todo)
      BY <1>1, <1>3, <2>1, AppendIsConcat DEF O!AddScore
    <3>2. <<Head(todo)>> \in Seq(O!Entries)
      BY <2>1
    <3>3. (scores \o <<Head(todo)>>) \o Tail(todo) = scores \o (<<Head(todo)>> \o Tail(todo))
      BY <1>1, <2>1, <3>2, ConcatAssociative
    <3> QED
      BY <2>1, <3>1, <3>3
  <2>3. Complete(scores \o todo)'
    <3>1. Complete(scores \o todo)
      BY <1>1, <1>3 DEF ScoresRanked, O!AddScore
    <3> QED
      BY <1>1, <2>2, <3>1 DEF Complete, O!Named
  <2> QED
    BY <1>3, <2>3 DEF ScoresRanked, O!AddScore
<1>4. CASE O!StartSort
  <2>1. Complete(scores)
    BY <1>1, <1>4, ConcatEmptySeq DEF O!StartSort, ScoresRanked
  <2>2. /\ O!Sorted(scores) \in Seq(O!Entries) /\ Len(O!Sorted(scores)) = Len(scores)
        /\ Ranking(O!Sorted(scores))
    BY <1>1, <2>1, SortedIsRanking
  <2>3. todo' = O!Sorted(scores) /\ scores' = scores /\ socket' = "sorting"
    BY <1>4 DEF O!StartSort
  <2>4. Placed' = 0
    BY <1>1, <2>2, <2>3 DEF Placed
  <2>5. Final' = O!Sorted(scores)
    <3>1. O!Sorted(scores) = [i \in 1 .. Len(scores) |-> O!Sorted(scores)[i]]
      BY <2>2, LenProperties
    <3>2. Final' = [i \in 1 .. Len(scores) |-> O!Sorted(scores)[i]]
      BY <1>1, <2>3, <2>4 DEF Final
    <3> QED
      BY <3>1, <3>2
  <2>6. Ranking(Final)'
    BY <1>1, <2>2, <2>5 DEF Ranking, Complete
  <2> QED
    BY <2>3, <2>6 DEF ScoresRanked
<1>5. CASE O!SetScore
  <2> DEFINE k == Len(scores) - Len(todo) + 1
  <2>1. /\ Len(todo) \in 1 .. Len(scores) /\ todo # <<>> /\ k \in 1 .. Len(scores)
        /\ Head(todo) \in O!Entries
    BY <1>1, <1>5, HeadTailProperties DEF O!SetScore, OpponentsInv, O!TypeOK
  <2>2. /\ scores' = [scores EXCEPT ![k] = Head(todo)] /\ todo' = Tail(todo)
        /\ socket' = IF Len(todo) = 1 THEN "ready" ELSE "sorting"
    BY <1>5 DEF O!SetScore
  <2>3. /\ Len(scores') = Len(scores) /\ DOMAIN scores' = DOMAIN scores
        /\ \A i \in 1 .. Len(scores) : scores'[i] = IF i = k THEN Head(todo) ELSE scores[i]
    BY <1>1, <2>1, <2>2, ExceptSeq
  <2>4. /\ Len(todo') = Len(todo) - 1
        /\ \A i \in 1 .. Len(todo') : todo'[i] = todo[i + 1]
        /\ Head(todo) = todo[1]
    BY <1>1, <2>1, <2>2, HeadTailProperties
  <2>5. Placed = k - 1 /\ Placed' = k
    BY <1>1, <2>1, <2>3, <2>4 DEF Placed
  <2>6. ASSUME NEW i \in 1 .. Len(scores)
        PROVE  (IF i <= k THEN scores'[i] ELSE todo'[i - k])
                 = (IF i <= k - 1 THEN scores[i] ELSE todo[i - (k - 1)])
    <3>1. CASE i < k
      BY <2>1, <2>3, <3>1
    <3>2. CASE i = k
      BY <2>1, <2>3, <2>4, <3>2
    <3>3. CASE i > k
      <4>1. i - k \in 1 .. Len(todo') /\ i - (k - 1) = (i - k) + 1
        BY <1>1, <2>1, <2>4, <3>3
      <4> QED
        BY <2>1, <2>4, <3>3, <4>1
    <3> QED
      BY <2>1, <3>1, <3>2, <3>3
  <2>7. Final' = Final
    <3> HIDE DEF k
    <3> QED
      BY <1>1, <2>3, <2>5, <2>6 DEF Final
  <2>8. Ranking(Final)'
    BY <1>1, <1>5, <2>7 DEF ScoresRanked, O!SetScore, Ranking, Complete
  <2>9. CASE Len(todo) = 1
    <3>1. socket' = "ready" /\ Placed' = Len(scores)
      BY <1>1, <2>2, <2>3, <2>4, <2>9 DEF Placed
    <3>2. scores' = [i \in 1 .. Len(scores) |-> scores'[i]]
      BY <1>1, <2>2, <2>3
    <3>3. Final' = [i \in 1 .. Len(scores) |-> scores'[i]]
      <4> HIDE DEF k
      <4> QED
        BY <1>1, <2>3, <3>1 DEF Final
    <3>4. Ranking(scores)'
      BY <1>1, <2>8, <3>2, <3>3 DEF Ranking, Complete
    <3> QED
      BY <3>1, <3>4 DEF ScoresRanked
  <2>10. CASE Len(todo) # 1
    BY <2>2, <2>8, <2>10 DEF ScoresRanked
  <2> QED
    BY <2>9, <2>10
<1>6. CASE UNCHANGED O!listVars
  BY <1>1, <1>6 DEF O!listVars, ScoresRanked, Final, Placed, Ranking, Complete
<1>7. O!Rebuild \/ (\E p \in Others : O!ReceiveBoard(p))
        \/ O!SetupGame \/ O!BuildRunnersUpVBox \/ UNCHANGED oVars
          => UNCHANGED O!listVars
  BY DEF O!Rebuild, O!StartRebuild, O!ReadLine, O!FailRebuild, O!ShowPanel, O!ReceiveBoard,
         O!SetupGame, O!BuildRunnersUpVBox, oVars, O!listVars
<1> QED
  BY <1>2, <1>3, <1>4, <1>5, <1>6, <1>7 DEF OpponentsSteps, O!Next, O!SocketThread

-----------------------------------------------------------------------------
(***************************************************************************)
(* Opponents: a BOARD.                                                      *)
(***************************************************************************)
\* When BOARD is handled, the scores are empty or a ranking of who plays.
LEMMA RankedWhenReady ==
  ASSUME OpponentsInv, socket = "ready"
  PROVE  /\ scores \in Seq(O!Entries) /\ Len(scores) \in Nat
         /\ DOMAIN scores = 1 .. Len(scores)
         /\ \A i, j \in DOMAIN scores :
              /\ scores[i].name = scores[j].name => i = j
              /\ i < j => scores[i].score >= scores[j].score
         /\ scores = <<>> \/ O!Named(scores) = roster
<1>1. /\ scores \in Seq(O!Entries) /\ Len(scores) \in Nat
      /\ DOMAIN scores = 1 .. Len(scores)
  BY LenProperties DEF OpponentsInv, O!TypeOK
<1>2. scores = <<>> \/ Ranking(scores)
  BY DEF OpponentsInv, ScoresRanked
<1>3. CASE scores = <<>>
  BY <1>1, <1>3
<1>4. CASE Ranking(scores)
  BY <1>1, <1>4 DEF Ranking, Complete
<1> QED
  BY <1>2, <1>3, <1>4

\* Against a single opponent there is one runner-up at most.
LEMMA OneRunnerUp ==
  ASSUME OpponentsInv, socket = "ready", NEW p \in Others, roster = {Me, p}
  PROVE  Len(O!FirstTwoOthers(scores)) \in 0 .. 1
<1> DEFINE others == OthersIn(scores)
<1>1. /\ others \in SUBSET (1 .. Len(scores))
      /\ IsFiniteSet(others) /\ Cardinality(others) \in Nat
      /\ Len(O!FirstTwoOthers(scores)) =
           IF Cardinality(others) < 2 THEN Cardinality(others) ELSE 2
      /\ \A k \in 1 .. Len(O!FirstTwoOthers(scores)) : Nth(others, k) \in others
  BY FirstTwo, RankedWhenReady
<1>2. ASSUME NEW i \in others, NEW j \in others
      PROVE  i = j
  <2>1. /\ i \in DOMAIN scores /\ j \in DOMAIN scores
        /\ scores[i].name # Me /\ scores[j].name # Me
    BY DEF OthersIn
  <2>2. O!Named(scores) = roster
    BY <2>1, RankedWhenReady
  <2>3. scores[i].name = p /\ scores[j].name = p
    BY <2>1, <2>2 DEF O!Named
  <2> QED
    BY <2>1, <2>3, RankedWhenReady
<1> HIDE DEF others
<1>3. CASE others = {}
  BY <1>1, <1>3, FS_EmptySet
<1>4. CASE others # {}
  <2>1. PICK i : others = {i}
    BY <1>2, <1>4
  <2>2. Cardinality(others) = 1
    BY <2>1, FS_Singleton
  <2> QED
    BY <1>1, <2>2
<1> QED
  BY <1>3, <1>4

LEMMA OnlyOpponentNext ==
  ASSUME OpponentsInv, OpponentsSteps
  PROVE  O!OnlyOpponentShown'
<1>1. O!OnlyOpponentShown /\ roster' = roster /\ BoardTypes
  BY RosterKept DEF OpponentsInv, O!TypeOK, BoardTypes
<1>2. ASSUME NEW q \in Others, O!ReceiveBoard(q)
      PROVE  O!OnlyOpponentShown'
  <2> DEFINE names == O!FirstTwoOthers(scores)
             board == O!NextVersion(q)
  <2>1. SUFFICES ASSUME NEW p \in Others, roster = {Me, p}, runnerUps' # <<>>
                 PROVE  boards'[1] = latest'[p]
    BY <1>1 DEF O!OnlyOpponentShown
  <2>2. /\ socket = "ready" /\ q \in roster
        /\ latest' = [latest EXCEPT ![q] = board]
        /\ runnerUps' = names
        /\ boards' = O!BoardsAfter(names, q, board)
    BY <1>2 DEF O!ReceiveBoard
  <2>3. p = q
    BY <2>1, <2>2, ScreensAssumption DEF O!OpponentsAssumption
  <2>4. names \in Seq(Others) /\ Len(names) \in 0 .. 1
    BY <2>1, <2>2, FirstTwo, OneRunnerUp, RankedWhenReady
  <2> HIDE DEF names, board
  <2>5. Len(names) = 1
    BY <2>1, <2>2, <2>4, EmptySeq
  <2>6. boards' = [boards EXCEPT ![1] = board]
    BY <2>2, <2>5 DEF O!BoardsAfter
  <2>7. boards'[1] = board
    BY <1>1, <2>6 DEF BoardTypes, O!Places
  <2>8. latest'[p] = board
    BY <1>1, <2>2, <2>3 DEF BoardTypes
  <2> QED
    BY <2>7, <2>8
<1>3. CASE UNCHANGED O!boardVars
  BY <1>1, <1>3 DEF O!boardVars, O!OnlyOpponentShown
<1> QED
  BY <1>2, <1>3, OthersKeepBoards DEF OpponentsSteps, O!Next

\* What BOARD shows: the best others, in order, and the sender's board.
LEMMA BoardIsHandled ==
  ASSUME OpponentsInv, NEW p \in Others, O!ReceiveBoard(p)
  PROVE  O!BoardHandled
<1> DEFINE names  == O!FirstTwoOthers(scores)
           board  == O!NextVersion(p)
           others == OthersIn(scores)
<1>1. /\ socket = "ready"
      /\ latest' = [latest EXCEPT ![p] = board] /\ runnerUps' = names
      /\ labels' = O!Labelled(names) /\ boards' = O!BoardsAfter(names, p, board)
  BY DEF O!ReceiveBoard
<1>2. /\ BoardTypes
      /\ names \in Seq(Others) /\ DOMAIN names = 1 .. Len(names)
      /\ Len(names) \in Nat /\ Len(names) <= 2
  <2>1. BoardTypes
    BY DEF OpponentsInv, O!TypeOK, BoardTypes
  <2>2. names \in Seq(Others) /\ Len(names) \in Nat /\ Len(names) <= 2
    BY <1>1, FirstTwo, RankedWhenReady
  <2> HIDE DEF names
  <2> QED
    BY <2>1, <2>2, LenProperties
<1>3. latest'[p] = board /\ \A q \in Others : q # p => latest'[q] = latest[q]
  BY <1>1, <1>2 DEF BoardTypes
<1>4. ASSUME NEW k \in DOMAIN names, built = "built"
      PROVE  labels'[k] = names[k]
  <2> HIDE DEF names
  <2> QED
    BY <1>1, <1>2, <1>4 DEF O!Labelled, O!Places
<1>5. ASSUME NEW k \in DOMAIN names, NEW q \in roster \ {Me},
             \A j \in 1 .. k : names[j] # q
      PROVE  O!BetterThan(names[k], q)
  <2>1. SUFFICES ASSUME NEW i \in DOMAIN scores, NEW j \in DOMAIN scores,
                        scores[i].name = names[k], scores[j].name = q
                 PROVE  scores[i].score >= scores[j].score
    BY DEF O!BetterThan
  <2>2. /\ others \in SUBSET Int /\ IsFiniteSet(others) /\ Cardinality(others) \in Nat
        /\ Len(names) = IF Cardinality(others) < 2 THEN Cardinality(others) ELSE 2
        /\ \A l \in 1 .. Len(names) :
             /\ l \in 1 .. Cardinality(others)
             /\ Nth(others, l) \in others
             /\ names[l] = scores[Nth(others, l)].name
    BY <1>1, FirstTwo, RankedWhenReady
  <2>3. j \in others /\ others \subseteq DOMAIN scores
    BY <2>1 DEF OthersIn
  <2> HIDE DEF others, names
  <2>4. i = Nth(others, k)
    BY <1>1, <1>2, <2>1, <2>2, <2>3, RankedWhenReady
  <2>5. PICK l \in 1 .. Cardinality(others) : Nth(others, l) = j
    BY <2>2, <2>3, NthProperties
  <2>6. ~(l <= k)
    BY <1>2, <1>5, <2>1, <2>2, <2>5
  <2>7. i < j
    BY <1>2, <2>2, <2>4, <2>5, <2>6, NthProperties
  <2> QED
    BY <1>1, <2>7, RankedWhenReady
<1>6. ASSUME NEW k \in DOMAIN names, names[k] = p
      PROVE  boards'[k] = latest'[p]
  <2> HIDE DEF names, board
  <2>1. Len(names) = 1 \/ Len(names) = 2
    BY <1>2
  <2>2. CASE Len(names) = 1
    BY <1>1, <1>2, <1>3, <2>2 DEF O!BoardsAfter, BoardTypes, O!Places
  <2>3. CASE Len(names) = 2
    BY <1>1, <1>2, <1>3, <1>6, <2>3 DEF O!BoardsAfter, BoardTypes, O!Places
  <2> QED
    BY <2>1, <2>2, <2>3
<1> HIDE DEF names, board
<1> QED
  BY <1>1, <1>3, <1>4, <1>5, <1>6 DEF O!BoardHandled

-----------------------------------------------------------------------------
(***************************************************************************)
(* Opponents: the panel.                                                    *)
(***************************************************************************)
PanelInv == SceneBuilt /\ LastReads /\ LastShown

\* A step that tells the scene leaves a rebuild waiting, or was missed.
LEMMA ToldPanel ==
  ASSUME PanelInv, rebuilds \in Nat, building \in BOOLEAN, O!TellScene,
         UNCHANGED <<building, built, panel>>
  PROVE  PanelInv'
<1>1. CASE built = "new"
  <2>1. ~building' /\ missed' /\ rebuilds' = rebuilds
    BY <1>1 DEF PanelInv, SceneBuilt, O!TellScene
  <2> QED
    BY <1>1, <2>1 DEF PanelInv, SceneBuilt, LastReads, LastShown
<1>2. CASE built # "new"
  <2>1. rebuilds' \in Nat /\ rebuilds' # 0
    BY <1>2 DEF O!TellScene
  <2> QED
    BY <2>1 DEF PanelInv, SceneBuilt, LastReads, LastShown
<1> QED
  BY <1>1, <1>2

\* A step that touches neither the list nor the panel.
LEMMA OtherPanel ==
  ASSUME PanelInv,
         UNCHANGED <<scores, rebuilds, building, lines, modified, missed, panel>>,
         building => built' = built
  PROVE  PanelInv'
BY DEF PanelInv, SceneBuilt, LastReads, LastShown

LEMMA PanelNext ==
  ASSUME OpponentsInv, OpponentsSteps
  PROVE  PanelInv'
<1>1. /\ PanelInv /\ rebuilds \in Nat /\ building \in BOOLEAN
      /\ scores \in Seq(O!Entries) /\ lines \in Seq(O!Entries)
      /\ Len(scores) \in Nat /\ Len(lines) \in Nat
  BY LenProperties DEF OpponentsInv, O!TypeOK, PanelInv
<1>2. CASE O!ReceiveScores
  <2>1. CASE scores = <<>>
    BY <1>1, <1>2, <2>1, OtherPanel DEF O!ReceiveScores
  <2>2. CASE scores # <<>>
    BY <1>1, <1>2, <2>2, ToldPanel DEF O!ReceiveScores
  <2> QED
    BY <2>1, <2>2
<1>3. CASE O!AddScore
  BY <1>1, <1>3, ToldPanel DEF O!AddScore
<1>4. CASE O!StartSort
  BY <1>1, <1>4, OtherPanel DEF O!StartSort, O!panelVars
<1>5. CASE O!SetScore
  BY <1>1, <1>5, ToldPanel DEF O!SetScore
<1>6. CASE O!StartRebuild
  <2>1. /\ lines' = <<>> /\ Len(<<>>) = 0 /\ scores' = scores
        /\ ~modified' /\ building' /\ built' = "built"
    BY <1>6 DEF O!StartRebuild, O!listVars
  <2> QED
    BY <1>1, <2>1 DEF PanelInv, SceneBuilt, LastReads, LastShown
<1>7. CASE O!ReadLine
  <2>1. PICK line : line = scores[Len(lines) + 1]
    OBVIOUS
  <2>2. /\ lines' = Append(lines, line) /\ building /\ ~modified
        /\ Len(lines) # Len(scores)
        /\ UNCHANGED <<scores, rebuilds, building, modified, missed, panel, built>>
    BY <1>7, <2>1 DEF O!ReadLine, O!HasNext, O!listVars
  <2>3. LastReads'
    <3>1. SUFFICES ASSUME rebuilds = 0
                   PROVE  /\ Len(lines') <= Len(scores)
                          /\ \A i \in 1 .. Len(lines') : lines'[i] = scores[i]
      BY <2>2 DEF LastReads
    <3>2. /\ Len(lines) <= Len(scores)
          /\ \A i \in 1 .. Len(lines) : lines[i] = scores[i]
      BY <1>1, <2>2, <3>1 DEF PanelInv, LastReads
    <3>3. Len(lines) + 1 \in 1 .. Len(scores)
      BY <1>1, <2>2, <3>2
    <3>4. line \in O!Entries
      BY <1>1, <2>1, <3>3, ElementOfSeq
    <3>5. /\ Len(lines') = Len(lines) + 1 /\ lines'[Len(lines) + 1] = line
          /\ \A i \in 1 .. Len(lines) : lines'[i] = lines[i]
      BY <1>1, <2>2, <3>4, AppendProperties
    <3> QED
      BY <1>1, <2>1, <3>2, <3>3, <3>5
  <2> QED
    BY <1>1, <2>2, <2>3 DEF PanelInv, SceneBuilt, LastShown
<1>8. CASE O!FailRebuild
  <2>1. rebuilds # 0 /\ ~building' /\ UNCHANGED rebuilds
    BY <1>1, <1>8 DEF O!FailRebuild, PanelInv, LastReads
  <2> QED
    BY <2>1 DEF PanelInv, SceneBuilt, LastReads, LastShown
<1>9. CASE O!ShowPanel
  <2>1. rebuilds = 0 => lines = scores
    <3>1. SUFFICES ASSUME rebuilds = 0
                   PROVE  lines = scores
      OBVIOUS
    <3>2. Len(lines) = Len(scores) /\ \A i \in 1 .. Len(lines) : lines[i] = scores[i]
      BY <1>1, <1>9, <3>1 DEF PanelInv, LastReads, O!ShowPanel, O!HasNext
    <3> QED
      BY <1>1, <3>2, SeqEqual
  <2>2. panel' = lines /\ scores' = scores /\ rebuilds' = rebuilds /\ ~building'
    BY <1>9 DEF O!ShowPanel, O!listVars
  <2> QED
    BY <2>1, <2>2 DEF PanelInv, SceneBuilt, LastReads, LastShown
<1>10. ASSUME NEW p \in Others, O!ReceiveBoard(p)
       PROVE  PanelInv'
  BY <1>1, <1>10, OtherPanel DEF O!ReceiveBoard, O!listVars, O!panelVars
<1>11. CASE O!SetupGame \/ O!BuildRunnersUpVBox
  BY <1>1, <1>11, OtherPanel DEF O!SetupGame, O!BuildRunnersUpVBox, O!listVars, O!panelVars,
                                 PanelInv, SceneBuilt
<1>12. CASE UNCHANGED oVars
  BY <1>1, <1>12, OtherPanel DEF oVars
<1> QED
  BY <1>2, <1>3, <1>4, <1>5, <1>6, <1>7, <1>8, <1>9, <1>10, <1>11, <1>12
     DEF OpponentsSteps, O!Next, O!SocketThread, O!Rebuild

-----------------------------------------------------------------------------
LEMMA OpponentsInit ==
  ASSUME O!Init
  PROVE  OpponentsInv
<1>1. roster \in O!Rosters
  BY DEF O!Init
<1>2. <<>> \in Seq(O!Entries) /\ <<>> \in Seq(Others) /\ Len(<<>>) = 0
  OBVIOUS
<1>3. ListTypes /\ FlagTypes /\ Lengths
  BY <1>2 DEF O!Init, ListTypes, FlagTypes, Lengths
<1>4. BoardTypes
  <2>1. MaxVersion \in Nat
    BY ScreensAssumption DEF O!OpponentsAssumption
  <2>2. O!NoBoard \in O!Board
    BY <2>1 DEF O!NoBoard, O!Board
  <2> QED
    BY <1>2, <2>2 DEF O!Init, BoardTypes
<1>5. O!TypeOK
  BY <1>1, <1>3, <1>4, TypesOfOpponents
<1>6. SceneBuilt /\ LastReads /\ LastShown /\ ScoresRanked /\ O!OnlyOpponentShown
  BY DEF O!Init, SceneBuilt, LastReads, LastShown, ScoresRanked, O!OnlyOpponentShown
<1> QED
  BY <1>1, <1>5, <1>6 DEF OpponentsInv

LEMMA OpponentsInvNext ==
  ASSUME OpponentsInv, OpponentsSteps
  PROVE  OpponentsInv'
<1>1. roster' \in O!Rosters /\ O!TypeOK'
  BY OpponentsTypesNext
<1>2. SceneBuilt' /\ LastReads' /\ LastShown'
  BY PanelNext DEF PanelInv
<1>3. ScoresRanked' /\ O!OnlyOpponentShown'
  BY ScoresRankedNext, OnlyOpponentNext
<1>4. O!Rosters' = O!Rosters
  BY DEF O!Rosters, O!Named
<1> QED
  BY <1>1, <1>2, <1>3, <1>4 DEF OpponentsInv

\* Only BOARD brings a new board, so every step shows the runners-up as it should.
LEMMA OpponentsBoardHandled ==
  ASSUME OpponentsInv, OpponentsSteps
  PROVE  O!BoardHandled
<1>1. ASSUME NEW p \in Others, O!ReceiveBoard(p)
      PROVE  O!BoardHandled
  BY <1>1, BoardIsHandled
<1>2. CASE UNCHANGED O!boardVars
  BY <1>2 DEF O!boardVars, O!BoardHandled
<1> QED
  BY <1>1, <1>2, OthersKeepBoards DEF OpponentsSteps, O!Next

-----------------------------------------------------------------------------
(***************************************************************************)
(* Scores: types.                                                           *)
(***************************************************************************)
ScoresSteps == S!Next \/ UNCHANGED sVars

FileTypes ==
  /\ file \in Seq(S!Pairs) /\ submitted \in Seq(S!Pairs) /\ local \in Seq(S!Pairs)
  /\ cut \in BOOLEAN
  /\ fx = "writing" => Len(file) < Len(local)

SceneTypes ==
  /\ scene \in 0 .. MaxScenes /\ clicks \in 0 .. MaxClicks
  /\ screen \in {"away", "prompt", "empty", "view"}
  /\ fx \in {"idle", "writing", "sending", "listening"}
  /\ userScores \in Seq(Points) /\ Len(userScores) = scene
  /\ screen # "away" \/ fx # "idle" => scene > 0

QueueTypes ==
  /\ reactions \in Seq(S!Runnable) /\ handlers \in Seq(1 .. scene)
  /\ delivery \in Delivery
  /\ delivery # S!NoDelivery => delivery.next \in 1 .. Len(handlers)

ServerTypes ==
  /\ asked \in Nat
  /\ answers \in Seq(Seq(Points))
  /\ server \in Seq(Points) \ {<<>>}

LEMMA TypesOfScores ==
  ASSUME FileTypes, SceneTypes, QueueTypes, ServerTypes
  PROVE  S!TypeOK
<1>1. /\ DOMAIN reactions = 1 .. Len(reactions)
      /\ \A i \in DOMAIN reactions : reactions[i] \in S!Runnable
  BY LenProperties, ElementOfSeq DEF QueueTypes
<1>2. /\ DOMAIN handlers = 1 .. Len(handlers)
      /\ \A i \in DOMAIN handlers : handlers[i] \in 1 .. scene
  BY LenProperties, ElementOfSeq DEF QueueTypes
<1>3. \A i \in DOMAIN answers : answers[i] \in Seq(Points)
  BY LenProperties, ElementOfSeq DEF ServerTypes
<1>4. userScores \in [1 .. scene -> Points]
  BY LenProperties DEF SceneTypes
<1> QED
  BY <1>1, <1>2, <1>3, <1>4
     DEF S!TypeOK, FileTypes, SceneTypes, QueueTypes, ServerTypes

LEMMA ScoresTypes ==
  ASSUME ScoresInv
  PROVE  FileTypes /\ SceneTypes /\ QueueTypes /\ ServerTypes
<1>1. DOMAIN handlers = 1 .. Len(handlers)
  BY LenProperties DEF ScoresInv
<1>2. Len(userScores) = scene
  <2>1. DOMAIN userScores = 1 .. scene /\ DOMAIN userScores = 1 .. Len(userScores)
        /\ Len(userScores) \in Nat /\ scene \in Nat
    BY LenProperties DEF ScoresInv, S!TypeOK
  <2> QED
    BY <2>1
<1> QED
  BY <1>1, <1>2 DEF ScoresInv, S!TypeOK, FileTypes, SceneTypes, QueueTypes, ServerTypes

\* Of a scene that was built, the score of its game.
LEMMA SceneScore ==
  ASSUME SceneTypes, NEW n \in 1 .. scene
  PROVE  userScores[n] \in Points
BY ElementOfSeq DEF SceneTypes

LEMMA SubmittedPair ==
  ASSUME SceneTypes, screen = "prompt", NEW name \in Names
  PROVE  [points |-> userScores[scene], name |-> name] \in S!Pairs
<1>1. scene \in 1 .. scene
  BY DEF SceneTypes
<1>2. userScores[scene] \in Points
  BY <1>1, SceneScore
<1>3. name \in S!NameKinds
  BY ScreensAssumption DEF S!ScoresAssumption
<1> QED
  BY <1>2, <1>3 DEF S!Pairs

\* The order of comparatorTo keeps the lines and makes their scores descend.
LEMMA SortedScores ==
  ASSUME NEW list \in Seq(S!Pairs)
  PROVE  /\ S!Sorted(list) \in Seq(S!Pairs)
         /\ Len(S!Sorted(list)) = Len(list)
         /\ S!Descending(S!Sorted(list))
         /\ \A pair : S!Times(S!Sorted(list), pair) = S!Times(list, pair)
<1> DEFINE keys == [i \in DOMAIN list |-> list[i].points]
           sorted == SortedBy(keys, list)
           N == Len(list)
<1>1. /\ N \in Nat /\ DOMAIN list = 1 .. N
      /\ \A i \in 1 .. N : list[i] \in S!Pairs
  BY LenProperties, ElementOfSeq
<1>2. \A i \in 1 .. N : list[i].points \in Int
  <2>1. Points \subseteq Int
    BY ScreensAssumption DEF S!ScoresAssumption
  <2>2. \A pair \in S!Pairs : pair.points \in Points
    BY DEF S!Pairs
  <2> HIDE DEF N, keys, sorted
  <2> QED
    BY <1>1, <2>1, <2>2
<1>3. keys \in Keys(1 .. N) /\ \A i \in 1 .. N : keys[i] = list[i].points
  BY <1>1, <1>2 DEF Keys
<1>4. S!Sorted(list) = sorted
  BY ScoresRanks DEF S!Sorted
<1> HIDE DEF keys
<1>5. /\ sorted \in Seq(S!Pairs) /\ Len(sorted) = N
      /\ \A k \in 1 .. N : /\ Ranked(keys, k) \in 1 .. N
                           /\ sorted[k] = list[Ranked(keys, k)]
      /\ \A k, l \in 1 .. N : k < l => keys[Ranked(keys, k)] >= keys[Ranked(keys, l)]
  BY <1>3, SortedProperties
<1>6. \A pair : Cardinality(Places(sorted, pair)) = Cardinality(Places(list, pair))
  BY <1>3, SortedPlaces
<1>7. \A any, pair : S!Times(any, pair) = Cardinality(Places(any, pair))
  BY ScoresRanks DEF S!Times, Places
<1> HIDE DEF sorted, N
<1>8. ASSUME NEW k \in 1 .. N, NEW l \in 1 .. N, k < l
      PROVE  sorted[k].points >= sorted[l].points
  <2>1. Ranked(keys, k) \in 1 .. N /\ Ranked(keys, l) \in 1 .. N
    BY <1>5
  <2>2. keys[Ranked(keys, k)] = sorted[k].points /\ keys[Ranked(keys, l)] = sorted[l].points
    BY <1>3, <1>5, <2>1
  <2> QED
    BY <1>5, <1>8, <2>2
<1>9. S!Descending(sorted)
  <2>1. DOMAIN sorted = 1 .. N
    BY <1>5, LenProperties
  <2> QED
    BY <1>8, <2>1 DEF S!Descending
<1> QED
  BY <1>4, <1>5, <1>6, <1>7, <1>9 DEF N

\* The server's list keeps its length.
LEMMA HighScoreAdded ==
  ASSUME NEW list \in Seq(Points) \ {<<>>}, NEW score \in Points
  PROVE  S!WithHighScore(list, score) \in Seq(Points) \ {<<>>}
<1> DEFINE all == Append(list, score)
           sorted == SortedBy(all, all)
           N == Len(list)
<1>1. list \in Seq(Points) /\ N \in Nat /\ N # 0
  BY LenProperties, EmptySeq
<1>2. all \in Seq(Points) /\ Len(all) = N + 1
  BY <1>1, AppendProperties
<1>3. S!WithHighScore(list, score) = SubSeq(sorted, 1, N)
  BY ScoresRanks DEF S!WithHighScore
<1> HIDE DEF all
<1>4. all \in Keys(1 .. Len(all))
  <2>1. all \in [1 .. Len(all) -> Points]
    BY <1>2, LenProperties
  <2>2. Points \subseteq Int
    BY ScreensAssumption DEF S!ScoresAssumption
  <2> QED
    BY <2>1, <2>2 DEF Keys
<1>5. sorted \in Seq(Points) /\ Len(sorted) = Len(all)
  BY <1>2, <1>4, SortedProperties
<1> HIDE DEF sorted, N
<1>6. \A i \in 1 .. N : sorted[i] \in Points
  <2>1. \A i \in 1 .. N : i \in 1 .. Len(sorted)
    BY <1>1, <1>2, <1>5
  <2> QED
    BY <1>5, <2>1, ElementOfSeq
<1>7. SubSeq(sorted, 1, N) \in Seq(Points) /\ Len(SubSeq(sorted, 1, N)) = N
  BY <1>1, <1>6, SubSeqProperties
<1>8. SubSeq(sorted, 1, N) # <<>>
  BY <1>1, <1>7, EmptySeq
<1> QED
  BY <1>3, <1>7, <1>8

\* Starting a scene makes room for what belongs to it.
LEMMA RunnableGrows ==
  ASSUME SceneTypes, QueueTypes, scene' = scene + 1
  PROVE  reactions \in Seq(S!Runnable') /\ handlers \in Seq(1 .. scene')
<1>1. 1 .. scene \subseteq 1 .. scene'
  BY DEF SceneTypes
<1>2. S!Runnable \subseteq S!Runnable'
  BY <1>1 DEF S!Runnable, S!HighScore, S!View
<1> QED
  BY <1>1, <1>2, SeqMonotonic DEF QueueTypes

LEMMA BuildTypes ==
  ASSUME ScoresInv, NEW score \in Points, NEW multiplayer \in BOOLEAN,
         S!Build(score, multiplayer)
  PROVE  FileTypes' /\ SceneTypes' /\ QueueTypes' /\ ServerTypes'
<1>1. FileTypes /\ SceneTypes /\ QueueTypes /\ ServerTypes
  BY ScoresTypes
<1>2. /\ UNCHANGED <<file, submitted, cut, reactions, handlers, delivery, asked, answers, server>>
      /\ scene' = scene + 1 /\ scene < MaxScenes /\ clicks' = 0
      /\ userScores' = Append(userScores, score)
      /\ local' = (IF multiplayer THEN <<>> ELSE file)
      /\ \/ screen' = "prompt" /\ fx' = "idle"
         \/ screen' = "empty" /\ fx' = "sending"
  BY DEF S!Build, S!fileVars, S!lineVars
<1>3. FileTypes'
  BY <1>1, <1>2 DEF FileTypes
<1>4. SceneTypes'
  <2>1. userScores' \in Seq(Points) /\ Len(userScores') = scene'
    BY <1>1, <1>2, AppendProperties DEF SceneTypes
  <2>2. scene' \in 0 .. MaxScenes /\ clicks' \in 0 .. MaxClicks
    BY <1>1, <1>2, ScreensAssumption DEF SceneTypes, S!ScoresAssumption
  <2>3. scene' > 0
    BY <1>1, <1>2 DEF SceneTypes
  <2> QED
    BY <1>2, <2>1, <2>2, <2>3 DEF SceneTypes
<1>5. QueueTypes'
  BY <1>1, <1>2, RunnableGrows DEF QueueTypes, Delivery, S!NoDelivery
<1>6. ServerTypes'
  BY <1>1, <1>2 DEF ServerTypes
<1> QED
  BY <1>3, <1>4, <1>5, <1>6

LEMMA SubmitTypes ==
  ASSUME ScoresInv, NEW name \in Names, S!Submit(name)
  PROVE  FileTypes' /\ SceneTypes' /\ QueueTypes' /\ ServerTypes'
<1>1. FileTypes /\ SceneTypes /\ QueueTypes /\ ServerTypes
  BY ScoresTypes
<1> DEFINE pair == [points |-> userScores[scene], name |-> name]
<1>2. /\ UNCHANGED <<cut, scene, screen, userScores, reactions, handlers, delivery, asked,
                     answers, server>>
      /\ screen = "prompt" /\ clicks < MaxClicks /\ clicks' = clicks + 1
      /\ local' = S!Sorted(Append(local, pair)) /\ submitted' = Append(submitted, pair)
      /\ file' = <<>> /\ fx' = "writing"
  BY DEF S!Submit, S!lineVars
<1>3. pair \in S!Pairs
  BY <1>1, <1>2, SubmittedPair
<1> HIDE DEF pair
<1>4. FileTypes'
  <2>1. /\ Append(local, pair) \in Seq(S!Pairs) /\ Len(Append(local, pair)) = Len(local) + 1
        /\ submitted' \in Seq(S!Pairs) /\ Len(local) \in Nat
    BY <1>1, <1>2, <1>3, AppendProperties, LenProperties DEF FileTypes
  <2>2. local' \in Seq(S!Pairs) /\ Len(local') = Len(local) + 1
    BY <1>2, <2>1, SortedScores
  <2>3. file' \in Seq(S!Pairs) /\ Len(file') = 0
    BY <1>2
  <2> QED
    BY <1>1, <1>2, <2>1, <2>2, <2>3 DEF FileTypes
<1>5. SceneTypes'
  <2>1. clicks' \in 0 .. MaxClicks
    BY <1>1, <1>2, ScreensAssumption DEF SceneTypes, S!ScoresAssumption
  <2> QED
    BY <1>1, <1>2, <2>1 DEF SceneTypes
<1>6. QueueTypes'
  BY <1>1, <1>2 DEF QueueTypes, S!Runnable, S!HighScore, S!View, Delivery, S!NoDelivery
<1>7. ServerTypes'
  BY <1>1, <1>2 DEF ServerTypes
<1> QED
  BY <1>4, <1>5, <1>6, <1>7

\* The application thread once a score is submitted: file, request, listener.
LEMMA SubmittedTypes ==
  ASSUME ScoresInv, S!WriteLine \/ S!SendRequest \/ S!AddListener \/ S!LeaveForMenu
  PROVE  FileTypes' /\ SceneTypes' /\ QueueTypes' /\ ServerTypes'
<1>1. FileTypes /\ SceneTypes /\ QueueTypes /\ ServerTypes
  BY ScoresTypes
<1>2. UNCHANGED scene
  BY DEF S!WriteLine, S!SendRequest, S!AddListener, S!LeaveForMenu, S!sceneVars
<1>3. FileTypes'
  <2>1. CASE S!WriteLine
    <3>1. /\ fx = "writing" /\ UNCHANGED <<submitted, cut, local>>
          /\ file' = Append(file, local[Len(file) + 1])
          /\ fx' = "writing" => Len(file') # Len(local)
      BY <2>1 DEF S!WriteLine, S!sceneVars
    <3>2. /\ Len(file) \in Nat /\ Len(local) \in Nat /\ Len(file) < Len(local)
      BY <1>1, <3>1, LenProperties DEF FileTypes
    <3>3. local[Len(file) + 1] \in S!Pairs
      BY <1>1, <3>2, ElementOfSeq DEF FileTypes
    <3>4. file' \in Seq(S!Pairs) /\ Len(file') = Len(file) + 1
      BY <1>1, <3>1, <3>3, AppendProperties DEF FileTypes
    <3> QED
      BY <1>1, <3>1, <3>2, <3>4 DEF FileTypes
  <2>2. CASE S!SendRequest \/ S!AddListener \/ S!LeaveForMenu
    BY <1>1, <2>2 DEF S!SendRequest, S!AddListener, S!LeaveForMenu, S!fileVars, S!sceneVars,
                      FileTypes
  <2> QED
    BY <2>1, <2>2
<1>4. SceneTypes'
  BY <1>1 DEF S!WriteLine, S!SendRequest, S!AddListener, S!LeaveForMenu, S!sceneVars, SceneTypes
<1>5. QueueTypes'
  <2>1. CASE S!AddListener
    <3>1. /\ UNCHANGED <<reactions, scene>> /\ fx = "listening"
          /\ handlers' = Append(handlers, scene)
          /\ delivery' = [delivery EXCEPT !.stale = delivery # S!NoDelivery]
      BY <2>1 DEF S!AddListener, S!sceneVars
    <3>2. scene \in 1 .. scene
      BY <1>1, <3>1 DEF SceneTypes
    <3>3. handlers' \in Seq(1 .. scene) /\ Len(handlers') = Len(handlers) + 1
          /\ Len(handlers) \in Nat
      BY <1>1, <3>1, <3>2, AppendProperties, LenProperties DEF QueueTypes
    <3>4. delivery' \in Delivery /\ delivery'.next = delivery.next
      BY <1>1, <3>1 DEF QueueTypes, Delivery
    <3>5. delivery = S!NoDelivery => delivery' = S!NoDelivery
      <4>1. SUFFICES ASSUME delivery = S!NoDelivery
                     PROVE  delivery' = S!NoDelivery
        OBVIOUS
      <4>2. (delivery # S!NoDelivery) = FALSE
        BY <4>1
      <4>3. delivery' = [S!NoDelivery EXCEPT !.stale = FALSE]
        BY <3>1, <4>1, <4>2
      <4> QED
        BY <4>3 DEF S!NoDelivery
    <3> QED
      BY <1>1, <3>1, <3>3, <3>4, <3>5 DEF QueueTypes, S!Runnable, S!HighScore, S!View,
                                          Delivery, S!NoDelivery
  <2>2. CASE S!WriteLine \/ S!SendRequest \/ S!LeaveForMenu
    BY <1>1, <1>2, <2>2 DEF S!WriteLine, S!SendRequest, S!LeaveForMenu, QueueTypes,
                            S!Runnable, S!HighScore, S!View, Delivery, S!NoDelivery
  <2> QED
    BY <2>1, <2>2
<1>6. ServerTypes'
  BY <1>1 DEF S!WriteLine, S!SendRequest, S!AddListener, S!LeaveForMenu, S!lineVars, ServerTypes
<1> QED
  BY <1>3, <1>4, <1>5, <1>6

LEMMA DeliveryTypes ==
  ASSUME ScoresInv, S!StartDelivery \/ S!Deliver
  PROVE  FileTypes' /\ SceneTypes' /\ QueueTypes' /\ ServerTypes'
<1>1. FileTypes /\ SceneTypes /\ QueueTypes /\ ServerTypes
  BY ScoresTypes
<1>2. UNCHANGED <<S!fileVars, S!sceneVars, fx, handlers, asked, server>>
  BY DEF S!StartDelivery, S!Deliver, S!lineVars
<1>3. FileTypes' /\ SceneTypes'
  <2>1. FileTypes'
    BY <1>1, <1>2 DEF S!fileVars, S!sceneVars, FileTypes
  <2>2. SceneTypes'
    BY <1>1, <1>2 DEF S!sceneVars, SceneTypes
  <2> QED
    BY <2>1, <2>2
<1>4. scene' = scene /\ S!Runnable' = S!Runnable
  BY <1>2 DEF S!sceneVars, S!Runnable, S!HighScore, S!View
<1>5. S!NoDelivery \in Delivery /\ S!NoDelivery' = S!NoDelivery
  BY DEF S!NoDelivery, Delivery
<1>6. CASE S!StartDelivery
  <2>1. /\ answers # <<>> /\ answers' = Tail(answers) /\ UNCHANGED reactions
        /\ delivery' = IF handlers = <<>> THEN S!NoDelivery
                       ELSE [S!NoDelivery EXCEPT !.list = Head(answers)]
    BY <1>6 DEF S!StartDelivery
  <2>2. Head(answers) \in Seq(Points) /\ answers' \in Seq(Seq(Points))
    BY <1>1, <2>1, HeadTailProperties DEF ServerTypes
  <2>3. ServerTypes'
    BY <1>1, <1>2, <2>2 DEF ServerTypes
  <2>4. CASE handlers = <<>>
    BY <1>1, <1>2, <1>3, <1>4, <1>5, <2>1, <2>3, <2>4 DEF QueueTypes, Delivery
  <2>5. CASE handlers # <<>>
    <3>1. delivery' \in Delivery /\ delivery'.next = 1
      BY <2>1, <2>2, <2>5 DEF S!NoDelivery, Delivery
    <3>2. 1 \in 1 .. Len(handlers)
      BY <1>1, <2>5, EmptySeq, LenProperties DEF QueueTypes
    <3> QED
      BY <1>1, <1>2, <1>3, <1>4, <2>1, <2>3, <3>1, <3>2 DEF QueueTypes, Delivery
  <2> QED
    BY <1>3, <2>3, <2>4, <2>5
<1>7. CASE S!Deliver
  <2>1. ServerTypes'
    BY <1>1, <1>7 DEF S!Deliver, S!lineVars, ServerTypes
  <2>2. delivery # S!NoDelivery /\ delivery.next \in 1 .. Len(handlers) /\ Len(handlers) \in Nat
    BY <1>1, <1>7, LenProperties DEF S!Deliver, QueueTypes
  <2>3. CASE delivery.stale
    <3>1. UNCHANGED reactions /\ delivery' = S!NoDelivery
      BY <1>7, <2>3 DEF S!Deliver
    <3> QED
      BY <1>1, <1>2, <1>3, <1>4, <1>5, <2>1, <3>1 DEF QueueTypes, Delivery
  <2>4. CASE ~delivery.stale
    <3> DEFINE n == handlers[delivery.next]
    <3>1. /\ reactions' = reactions \o S!Reaction(n, delivery.list)
          /\ delivery' = IF delivery.next = Len(handlers) THEN S!NoDelivery
                         ELSE [delivery EXCEPT !.next = @ + 1]
      BY <1>7, <2>4 DEF S!Deliver
    <3>2. n \in 1 .. scene
      BY <1>1, <2>2, ElementOfSeq DEF QueueTypes
    <3> HIDE DEF n
    <3>3. S!HighScore(n) \in S!Runnable /\ S!View(n) \in S!Runnable
      BY <3>2 DEF S!Runnable
    <3>4. S!Reaction(n, delivery.list) \in Seq(S!Runnable)
      BY <3>3 DEF S!Reaction
    <3>5. reactions' \in Seq(S!Runnable)
      BY <1>1, <3>1, <3>4, ConcatProperties DEF QueueTypes
    <3>6. delivery' \in Delivery
      <4>1. CASE delivery.next = Len(handlers)
        BY <1>5, <3>1, <4>1
      <4>2. CASE delivery.next # Len(handlers)
        <5>1. delivery \in Delivery /\ delivery' = [delivery EXCEPT !.next = @ + 1]
          BY <1>1, <3>1, <4>2 DEF QueueTypes
        <5> QED
          BY <5>1 DEF Delivery
      <4> QED
        BY <4>1, <4>2
    <3>7. delivery' # S!NoDelivery => delivery'.next \in 1 .. Len(handlers)
      <4>1. SUFFICES ASSUME delivery.next # Len(handlers)
                     PROVE  delivery'.next \in 1 .. Len(handlers)
        BY <3>1
      <4>2. delivery'.next = delivery.next + 1
        BY <1>1, <3>1, <4>1 DEF QueueTypes, Delivery
      <4> QED
        BY <2>2, <4>1, <4>2
    <3>8. QueueTypes'
      BY <1>1, <1>2, <1>4, <1>5, <3>5, <3>6, <3>7 DEF QueueTypes, Delivery
    <3> QED
      BY <1>3, <2>1, <3>8
  <2> QED
    BY <2>3, <2>4
<1> QED
  BY <1>6, <1>7

LEMMA RunAndAnswerTypes ==
  ASSUME ScoresInv, S!RunNext \/ S!ServerAnswers
  PROVE  FileTypes' /\ SceneTypes' /\ QueueTypes' /\ ServerTypes'
<1>1. FileTypes /\ SceneTypes /\ QueueTypes /\ ServerTypes
  BY ScoresTypes
<1>2. UNCHANGED <<S!fileVars, scene, userScores, local, clicks, fx, handlers, delivery>>
  BY DEF S!RunNext, S!ServerAnswers, S!sceneVars
<1>3. FileTypes'
  BY <1>1, <1>2 DEF S!fileVars, FileTypes
<1>4. S!Runnable' = S!Runnable
  BY <1>2 DEF S!Runnable, S!HighScore, S!View
<1>5. CASE S!RunNext
  <2> DEFINE n == Head(reactions).of
  <2>1. /\ reactions # <<>> /\ reactions' = Tail(reactions) /\ UNCHANGED <<asked, answers>>
        /\ \/ /\ server' = S!WithHighScore(server, userScores[n])
              /\ UNCHANGED screen
           \/ /\ screen' = IF n = scene /\ screen # "away" THEN "view" ELSE screen
              /\ UNCHANGED server
    BY <1>5 DEF S!RunNext
  <2>2. Head(reactions) \in S!Runnable /\ reactions' \in Seq(S!Runnable)
    BY <1>1, <2>1, HeadTailProperties DEF QueueTypes
  <2>3. n \in 1 .. scene
    BY <2>2 DEF S!Runnable, S!HighScore, S!View
  <2>4. userScores[n] \in Points
    BY <1>1, <2>3, SceneScore
  <2> HIDE DEF n
  <2>5. server' \in Seq(Points) \ {<<>>}
    BY <1>1, <2>1, <2>4, HighScoreAdded DEF ServerTypes
  <2>6. ServerTypes'
    BY <1>1, <2>1, <2>5 DEF ServerTypes
  <2>7. QueueTypes'
    BY <1>1, <1>2, <1>4, <2>2 DEF QueueTypes, Delivery, S!NoDelivery
  <2>8. /\ screen' \in {"away", "prompt", "empty", "view"}
        /\ screen' # "away" => screen # "away"
    BY <1>1, <2>1 DEF SceneTypes
  <2>9. SceneTypes'
    BY <1>1, <1>2, <2>8 DEF SceneTypes
  <2> QED
    BY <1>3, <2>6, <2>7, <2>9
<1>6. CASE S!ServerAnswers
  <2>1. /\ asked > 0 /\ asked' = asked - 1 /\ answers' = Append(answers, server)
        /\ UNCHANGED <<screen, reactions, server>>
    BY <1>6 DEF S!ServerAnswers, S!sceneVars
  <2>2. answers' \in Seq(Seq(Points))
    BY <1>1, <2>1, AppendProperties DEF ServerTypes
  <2>3. ServerTypes'
    BY <1>1, <2>1, <2>2 DEF ServerTypes
  <2>4. SceneTypes'
    BY <1>1, <1>2, <2>1 DEF SceneTypes
  <2>5. QueueTypes'
    BY <1>1, <1>2, <1>4, <2>1 DEF QueueTypes, Delivery, S!NoDelivery
  <2> QED
    BY <1>3, <2>3, <2>4, <2>5
<1> QED
  BY <1>5, <1>6

LEMMA KillTypes ==
  ASSUME ScoresInv, S!Kill \/ UNCHANGED sVars
  PROVE  FileTypes' /\ SceneTypes' /\ QueueTypes' /\ ServerTypes'
<1>1. FileTypes /\ SceneTypes /\ QueueTypes /\ ServerTypes
  BY ScoresTypes
<1>2. CASE S!Kill
  <2>1. /\ screen' = "away" /\ local' = <<>> /\ clicks' = 0
        /\ fx' = "idle" /\ reactions' = <<>> /\ handlers' = <<>> /\ delivery' = S!NoDelivery
        /\ asked' = 0 /\ answers' = <<>>
        /\ UNCHANGED <<file, submitted, scene, userScores, server>>
        /\ cut' = (cut \/ fx = "writing")
    BY <1>2 DEF S!Kill
  <2>2. FileTypes'
    BY <1>1, <2>1 DEF FileTypes
  <2>3. SceneTypes'
    BY <1>1, <2>1, ScreensAssumption DEF SceneTypes, S!ScoresAssumption
  <2>4. QueueTypes'
    <3>1. S!NoDelivery \in Delivery
      BY DEF S!NoDelivery, Delivery
    <3> QED
      BY <2>1, <3>1 DEF QueueTypes, Delivery, S!NoDelivery
  <2>5. ServerTypes'
    BY <1>1, <2>1 DEF ServerTypes
  <2> QED
    BY <2>2, <2>3, <2>4, <2>5
<1>3. CASE UNCHANGED sVars
  <2>1. FileTypes'
    BY <1>1, <1>3 DEF sVars, FileTypes
  <2>2. SceneTypes'
    BY <1>1, <1>3 DEF sVars, SceneTypes
  <2>3. QueueTypes'
    BY <1>1, <1>3 DEF sVars, QueueTypes, S!Runnable, S!HighScore, S!View, Delivery, S!NoDelivery
  <2>4. ServerTypes'
    BY <1>1, <1>3 DEF sVars, ServerTypes
  <2> QED
    BY <2>1, <2>2, <2>3, <2>4
<1> QED
  BY <1>2, <1>3

LEMMA ScoresTypesNext ==
  ASSUME ScoresInv, ScoresSteps
  PROVE  FileTypes' /\ SceneTypes' /\ QueueTypes' /\ ServerTypes'
BY BuildTypes, SubmitTypes, SubmittedTypes, DeliveryTypes, RunAndAnswerTypes, KillTypes
   DEF ScoresSteps, S!Next

-----------------------------------------------------------------------------
(***************************************************************************)
(* Scores: the file.                                                        *)
(***************************************************************************)
FileInv == WrittenInOrder /\ PromptHasFile /\ ScoresKept /\ BestFirst

\* The lines the file has to begin with.
LEMMA StoredPairs ==
  S!StoredLines \in Seq(S!Pairs)
<1>1. Stored \in Seq(Points)
  BY ScreensAssumption DEF S!ScoresAssumption
<1>2. /\ Len(Stored) \in Nat /\ DOMAIN Stored = 1 .. Len(Stored)
      /\ \A i \in 1 .. Len(Stored) : Stored[i] \in Points
  BY <1>1, LenProperties, ElementOfSeq
<1>3. S!StoredLines \in [1 .. Len(Stored) -> S!Pairs]
  BY <1>2 DEF S!StoredLines, S!Plain, S!Pairs, S!NameKinds
<1> QED
  BY <1>2, <1>3, SeqDef

\* Steps that touch nothing of it.
LEMMA SameFile ==
  ASSUME FileInv, UNCHANGED <<file, submitted, cut, screen, local, fx>>
  PROVE  FileInv'
BY DEF FileInv, WrittenInOrder, PromptHasFile, ScoresKept, BestFirst, Kept

\* Steps out of writing, and scenes that come and go.
LEMMA OtherFile ==
  ASSUME FileInv, UNCHANGED <<file, submitted>>,
         fx' # "writing", ~cut' => ~cut /\ fx # "writing",
         screen' = "prompt" => local' = file
  PROVE  FileInv'
<1>1. WrittenInOrder' /\ PromptHasFile'
  BY DEF WrittenInOrder, PromptHasFile
<1>2. Kept' = file
  BY DEF Kept
<1>3. ~cut' => ~cut /\ Kept = file
  BY DEF Kept
<1>4. ScoresKept'
  BY <1>2, <1>3 DEF FileInv, ScoresKept
<1>5. BestFirst'
  BY <1>2 DEF FileInv, BestFirst
<1> QED
  BY <1>1, <1>4, <1>5 DEF FileInv

LEMMA TimesAppended ==
  ASSUME NEW list \in Seq(S!Pairs), NEW pair \in S!Pairs, NEW any
  PROVE  /\ S!Times(Append(list, pair), any)
              = S!Times(list, any) + (IF any = pair THEN 1 ELSE 0)
         /\ S!Times(list, any) \in Nat
<1>1. \A all : S!Times(all, any) = Cardinality(Places(all, any))
  BY ScoresRanks DEF S!Times, Places
<1> QED
  BY <1>1, AppendPlaces, PlacesFinite

\* A click on Submit: the list is the file, the new score, in order.
LEMMA SubmitFile ==
  ASSUME ScoresInv, NEW name \in Names, S!Submit(name)
  PROVE  FileInv'
<1> DEFINE pair == [points |-> userScores[scene], name |-> name]
<1>1. FileTypes /\ SceneTypes
  BY ScoresTypes
<1>2. /\ local' = S!Sorted(Append(local, pair)) /\ submitted' = Append(submitted, pair)
      /\ file' = <<>> /\ fx' = "writing" /\ fx = "idle"
      /\ screen = "prompt" /\ screen' = "prompt" /\ UNCHANGED cut
  BY DEF S!Submit
<1>3. pair \in S!Pairs
  BY <1>1, <1>2, SubmittedPair
<1> HIDE DEF pair
<1>4. local = file /\ Kept = file /\ Kept' = local'
  BY <1>2 DEF ScoresInv, PromptHasFile, Kept
<1>5. Append(file, pair) \in Seq(S!Pairs)
  BY <1>1, <1>3, AppendProperties DEF FileTypes
<1>6. ScoresKept'
  <2>1. SUFFICES ASSUME ~cut, NEW any \in S!Pairs
                 PROVE  S!Times(Kept', any) = S!Times(S!StoredLines, any) + S!Times(submitted', any)
    BY <1>2 DEF ScoresKept
  <2>2. S!Times(Kept', any) = S!Times(Append(file, pair), any)
    BY <1>2, <1>4, <1>5, SortedScores
  <2>3. /\ S!Times(Append(file, pair), any)
             = S!Times(file, any) + (IF any = pair THEN 1 ELSE 0)
        /\ S!Times(submitted', any)
             = S!Times(submitted, any) + (IF any = pair THEN 1 ELSE 0)
        /\ S!Times(file, any) \in Nat /\ S!Times(submitted, any) \in Nat
    BY <1>1, <1>2, <1>3, TimesAppended DEF FileTypes
  <2>4. S!Times(file, any) = S!Times(S!StoredLines, any) + S!Times(submitted, any)
    BY <1>4, <2>1 DEF ScoresInv, ScoresKept
  <2>5. S!Times(S!StoredLines, any) \in Nat
    BY <1>1, StoredPairs, TimesAppended, <1>3
  <2> QED
    BY <2>2, <2>3, <2>4, <2>5
<1>7. BestFirst'
  <2>1. S!Descending(local')
    BY <1>2, <1>4, <1>5, SortedScores
  <2>2. S!Descending(<<>>)
    BY DEF S!Descending
  <2> QED
    BY <1>2, <1>4, <2>1, <2>2 DEF BestFirst, S!Descending
<1>8. WrittenInOrder' /\ PromptHasFile'
  BY <1>2 DEF WrittenInOrder, PromptHasFile
<1> QED
  BY <1>6, <1>7, <1>8 DEF FileInv

\* One line more on file: the beginning of the list is one longer.
LEMMA WriteFile ==
  ASSUME ScoresInv, S!WriteLine
  PROVE  FileInv'
<1>1. FileTypes /\ FileTypes' /\ FileInv
  BY ScoresTypes, SubmittedTypes DEF ScoresInv, FileInv
<1>2. /\ fx = "writing" /\ UNCHANGED <<submitted, cut, screen, local>>
      /\ file' = Append(file, local[Len(file) + 1])
      /\ fx' = IF Len(file') = Len(local) THEN "sending" ELSE "writing"
  BY DEF S!WriteLine, S!sceneVars
<1>3. /\ Len(file) \in Nat /\ Len(local) \in Nat /\ Len(file) < Len(local)
      /\ DOMAIN file = 1 .. Len(file) /\ DOMAIN local = 1 .. Len(local)
      /\ DOMAIN file' = 1 .. Len(file') /\ file' \in Seq(S!Pairs) /\ local \in Seq(S!Pairs)
  BY <1>1, <1>2, LenProperties DEF FileTypes
<1>4. local[Len(file) + 1] \in S!Pairs
  BY <1>1, <1>3, ElementOfSeq DEF FileTypes
<1>5. /\ Len(file') = Len(file) + 1 /\ file'[Len(file) + 1] = local[Len(file) + 1]
      /\ \A i \in 1 .. Len(file) : file'[i] = file[i]
  BY <1>1, <1>2, <1>4, AppendProperties DEF FileTypes
<1>6. screen = "prompt" /\ \A i \in 1 .. Len(file) : file[i] = local[i]
  BY <1>1, <1>2, <1>3 DEF FileInv, WrittenInOrder
<1>7. \A i \in 1 .. Len(file') : i \in 1 .. Len(local) /\ file'[i] = local[i]
  BY <1>3, <1>5, <1>6
<1>8. Len(file') = Len(local) => file' = local
  BY <1>3, <1>7, SeqEqual
<1>9. WrittenInOrder' /\ PromptHasFile'
  BY <1>2, <1>3, <1>6, <1>7, <1>8 DEF WrittenInOrder, PromptHasFile
<1>10. Kept = local /\ Kept' = local
  BY <1>2, <1>8 DEF Kept
<1>11. ScoresKept'
  BY <1>1, <1>2, <1>10
     DEF FileInv, ScoresKept
<1>12. BestFirst'
  <2>1. SUFFICES ASSUME S!Descending(local)
                 PROVE  S!Descending(file')
    BY <1>1, <1>10 DEF FileInv, BestFirst
  <2>2. \A i, j \in 1 .. Len(file') : i < j => local[i].points >= local[j].points
    BY <1>3, <1>7, <2>1 DEF S!Descending
  <2> QED
    BY <1>3, <1>7, <2>2 DEF S!Descending
<1> QED
  BY <1>9, <1>11, <1>12 DEF FileInv

LEMMA FileNext ==
  ASSUME ScoresInv, ScoresSteps
  PROVE  FileInv'
<1>1. FileInv
  BY DEF ScoresInv, FileInv
<1>2. ASSUME NEW score \in Points, NEW multiplayer \in BOOLEAN, S!Build(score, multiplayer)
      PROVE  FileInv'
  <2>1. /\ screen = "away" /\ UNCHANGED <<file, submitted, cut>>
        /\ \/ screen' = "prompt" /\ fx' = "idle" /\ ~multiplayer
           \/ screen' = "empty" /\ fx' = "sending"
        /\ local' = (IF multiplayer THEN <<>> ELSE file)
    BY <1>2 DEF S!Build, S!fileVars
  <2>2. fx # "writing"
    BY <1>1, <2>1 DEF FileInv, WrittenInOrder
  <2> QED
    BY <1>1, <2>1, <2>2, OtherFile
<1>3. ASSUME NEW name \in Names, S!Submit(name)
      PROVE  FileInv'
  BY <1>3, SubmitFile
<1>4. CASE S!WriteLine
  BY <1>4, WriteFile
<1>5. CASE S!SendRequest \/ S!AddListener
  <2>1. fx' # "writing" /\ fx # "writing" /\ UNCHANGED <<file, submitted, cut, screen, local>>
    BY <1>5 DEF S!SendRequest, S!AddListener, S!fileVars, S!sceneVars
  <2>2. screen' = "prompt" => local' = file
    BY <1>1, <2>1 DEF FileInv, PromptHasFile
  <2> QED
    BY <1>1, <2>1, <2>2, OtherFile
<1>6. CASE S!LeaveForMenu
  BY <1>1, <1>6, OtherFile DEF S!LeaveForMenu, S!fileVars
<1>7. CASE S!RunNext
  <2>1. /\ fx = "idle" /\ UNCHANGED <<file, submitted, cut, local, fx>>
        /\ screen' = "prompt" => screen = "prompt"
    BY <1>7 DEF S!RunNext, S!fileVars
  <2>2. screen' = "prompt" => local' = file
    BY <1>1, <2>1 DEF FileInv, PromptHasFile
  <2> QED
    BY <1>1, <2>1, <2>2, OtherFile
<1>8. CASE S!Kill
  BY <1>1, <1>8, OtherFile DEF S!Kill
<1>9. CASE S!StartDelivery \/ S!Deliver \/ S!ServerAnswers \/ UNCHANGED sVars
  BY <1>1, <1>9, SameFile
     DEF S!StartDelivery, S!Deliver, S!ServerAnswers, sVars, S!fileVars, S!sceneVars
<1> QED
  BY <1>2, <1>3, <1>4, <1>5, <1>6, <1>7, <1>8, <1>9 DEF ScoresSteps, S!Next

-----------------------------------------------------------------------------
LEMMA ScoresInit ==
  ASSUME S!Init
  PROVE  ScoresInv
<1>1. S!StoredLines \in Seq(S!Pairs)
  BY StoredPairs
<1>2. FileTypes
  <2>1. <<>> \in Seq(S!Pairs) /\ FALSE \in BOOLEAN
    OBVIOUS
  <2> QED
    BY <1>1, <2>1 DEF S!Init, FileTypes
<1>3. SceneTypes
  BY ScreensAssumption DEF S!Init, SceneTypes, S!ScoresAssumption
<1>4. S!NoDelivery \in Delivery
  BY DEF S!NoDelivery, Delivery
<1>5. QueueTypes
  BY <1>4 DEF S!Init, QueueTypes
<1>6. ServerTypes
  BY ScreensAssumption DEF S!Init, ServerTypes, S!ScoresAssumption
<1>7. WrittenInOrder /\ PromptHasFile
  BY DEF S!Init, WrittenInOrder, PromptHasFile
<1>8. ScoresKept
  <2>1. Kept = S!StoredLines /\ submitted = <<>>
    BY DEF S!Init, Kept
  <2>2. ASSUME NEW pair
        PROVE  S!Times(<<>>, pair) = 0
    <3>1. Places(<<>>, pair) = {}
      BY DEF Places
    <3>2. S!Times(<<>>, pair) = Cardinality(Places(<<>>, pair))
      BY ScoresRanks DEF S!Times, Places
    <3> QED
      BY <3>1, <3>2, FS_EmptySet
  <2>3. ASSUME NEW pair \in S!Pairs
        PROVE  S!Times(S!StoredLines, pair) \in Nat
    BY <1>1, <2>3, TimesAppended
  <2> QED
    BY <2>1, <2>2, <2>3 DEF ScoresKept
<1>9. BestFirst
  BY DEF S!Init, BestFirst, Kept
<1> QED
  BY <1>2, <1>3, <1>4, <1>5, <1>6, <1>7, <1>8, <1>9, TypesOfScores
     DEF ScoresInv, FileTypes, SceneTypes, QueueTypes, ServerTypes

LEMMA ScoresInvNext ==
  ASSUME ScoresInv, ScoresSteps
  PROVE  ScoresInv'
<1>1. FileTypes' /\ SceneTypes' /\ QueueTypes' /\ ServerTypes'
  BY ScoresTypesNext
<1>2. (FileTypes /\ SceneTypes /\ QueueTypes /\ ServerTypes => S!TypeOK)'
  BY TypesOfScores, PTL
<1>3. FileInv'
  BY FileNext
<1>4. S!TypeOK'
  BY <1>1, <1>2
<1> HIDE DEF S!TypeOK
<1> QED
  BY <1>1, <1>3, <1>4
     DEF ScoresInv, FileInv, SceneTypes, QueueTypes, ServerTypes

-----------------------------------------------------------------------------
(***************************************************************************)
(* Scenes: the queue of the application thread.                             *)
(***************************************************************************)
ScenesSteps == W!Next \/ UNCHANGED wVars

LEMMA Runnables ==
  /\ W!Initialise \in W!Runnable
  /\ \A n : W!Start(n) # W!Initialise /\ W!GameOver(n) # W!Initialise
  /\ \A m, n : /\ W!Start(m) # W!GameOver(n)
               /\ W!Start(m) = W!Start(n) => m = n
               /\ W!GameOver(m) = W!GameOver(n) => m = n
  /\ \A n \in W!Numbers : W!Start(n) \in W!Runnable /\ W!GameOver(n) \in W!Runnable
  /\ \A r \in W!Runnable :
       /\ r.do = "initialise" => r = W!Initialise
       /\ r.do = "start" => r.of \in W!Numbers /\ r = W!Start(r.of)
       /\ r.do = "gameOver" => r.of \in W!Numbers /\ r = W!GameOver(r.of)
       /\ r.do \in {"initialise", "start", "gameOver"}
       /\ r # W!Initialise => r = W!Start(r.of) \/ r = W!GameOver(r.of)
<1>1. W!Initialise \in W!Runnable
  BY DEF W!Runnable
<1>2. \A n : W!Start(n) # W!Initialise /\ W!GameOver(n) # W!Initialise
  <2>1. \A n : W!Start(n).do = "start" /\ W!GameOver(n).do = "gameOver"
    BY DEF W!Start, W!GameOver
  <2>2. W!Initialise.do = "initialise"
    BY DEF W!Initialise
  <2> QED
    BY <2>1, <2>2
<1>3. \A m, n : /\ W!Start(m) # W!GameOver(n)
                /\ W!Start(m) = W!Start(n) => m = n
                /\ W!GameOver(m) = W!GameOver(n) => m = n
  <2>1. \A n : /\ W!Start(n).do = "start" /\ W!GameOver(n).do = "gameOver"
               /\ W!Start(n).of = n /\ W!GameOver(n).of = n
    BY DEF W!Start, W!GameOver
  <2> QED
    BY <2>1
<1>4. \A n \in W!Numbers : W!Start(n) \in W!Runnable /\ W!GameOver(n) \in W!Runnable
  BY DEF W!Runnable
<1>5. ASSUME NEW r \in W!Runnable
      PROVE  /\ r.do = "initialise" => r = W!Initialise
             /\ r.do = "start" => r.of \in W!Numbers /\ r = W!Start(r.of)
             /\ r.do = "gameOver" => r.of \in W!Numbers /\ r = W!GameOver(r.of)
             /\ r.do \in {"initialise", "start", "gameOver"}
             /\ r # W!Initialise => r = W!Start(r.of) \/ r = W!GameOver(r.of)
  <2>1. CASE r = W!Initialise
    BY <2>1 DEF W!Initialise
  <2>2. CASE \E n \in W!Numbers : r = W!Start(n)
    BY <2>2 DEF W!Start
  <2>3. CASE \E n \in W!Numbers : r = W!GameOver(n)
    BY <2>3 DEF W!GameOver
  <2> QED
    BY <2>1, <2>2, <2>3 DEF W!Runnable
<1> QED
  BY <1>1, <1>2, <1>3, <1>4, <1>5

LEMMA WaitsAppended ==
  ASSUME NEW T, NEW queue \in Seq(T), NEW r \in T
  PROVE  /\ \A x : Waits(Append(queue, r), x) <=> Waits(queue, x) \/ x = r
         /\ ~Waits(queue, W!Initialise) \/ (r # W!Initialise /\ OneInitialise(queue))
              => OneInitialise(Append(queue, r))
<1>1. /\ Len(queue) \in Nat /\ DOMAIN queue = 1 .. Len(queue)
      /\ DOMAIN Append(queue, r) = 1 .. Len(queue) + 1
      /\ Append(queue, r)[Len(queue) + 1] = r
      /\ \A i \in 1 .. Len(queue) : Append(queue, r)[i] = queue[i]
  BY LenProperties, AppendProperties
<1>2. ASSUME NEW x
      PROVE  Waits(Append(queue, r), x) <=> Waits(queue, x) \/ x = r
  BY <1>1 DEF Waits
<1>3. ASSUME ~Waits(queue, W!Initialise) \/ (r # W!Initialise /\ OneInitialise(queue))
      PROVE  OneInitialise(Append(queue, r))
  BY <1>1, <1>3 DEF Waits, OneInitialise
<1> QED
  BY <1>2, <1>3

LEMMA WaitsBehind ==
  ASSUME NEW T, NEW queue \in Seq(T), queue # <<>>
  PROVE  /\ \A x : Waits(Tail(queue), x) => Waits(queue, x)
         /\ Waits(queue, Head(queue))
         /\ OneInitialise(queue) => OneInitialise(Tail(queue))
         /\ OneInitialise(queue) /\ Head(queue) = W!Initialise
              => ~Waits(Tail(queue), W!Initialise)
<1>1. /\ Tail(queue) \in Seq(T) /\ Len(queue) \in Nat /\ Len(queue) # 0
      /\ DOMAIN queue = 1 .. Len(queue)
      /\ Len(Tail(queue)) = Len(queue) - 1
      /\ \A i \in 1 .. Len(Tail(queue)) : Tail(queue)[i] = queue[i + 1]
      /\ Head(queue) = queue[1]
  BY LenProperties, HeadTailProperties, EmptySeq
<1>2. DOMAIN Tail(queue) = 1 .. Len(queue) - 1
  BY <1>1, LenProperties
<1>3. \A i \in DOMAIN Tail(queue) : i + 1 \in DOMAIN queue /\ Tail(queue)[i] = queue[i + 1]
  BY <1>1, <1>2
<1>4. \A x : Waits(Tail(queue), x) => Waits(queue, x)
  BY <1>3 DEF Waits
<1>5. Waits(queue, Head(queue))
  BY <1>1 DEF Waits
<1>6. OneInitialise(queue) => OneInitialise(Tail(queue))
  BY <1>2, <1>3 DEF OneInitialise
<1>7. OneInitialise(queue) /\ Head(queue) = W!Initialise => ~Waits(Tail(queue), W!Initialise)
  BY <1>1, <1>2, <1>3 DEF OneInitialise, Waits
<1> QED
  BY <1>4, <1>5, <1>6, <1>7

\* What the invariant says of the types, in the form the proofs use.
LEMMA ScenesTypes ==
  ASSUME ScenesInv
  PROVE  /\ MaxLoads \in Nat \ {0} /\ W!Numbers = 1 .. MaxLoads
         /\ loaded \in Seq(W!Kinds) /\ W!Current \in W!Numbers /\ W!Current = Len(loaded)
         /\ DOMAIN loaded = 1 .. W!Current
         /\ inits \in [W!Numbers -> Nat] /\ timers \in [W!Numbers -> Nat]
         /\ settling \in BOOLEAN /\ late \in BOOLEAN
         /\ requests \in [W!Numbers -> Seq({"JOIN", "PART", "QUIT"})]
         /\ seats \in [W!Numbers -> {"out", "in", "playing"}]
         /\ fxQueue \in Seq(W!Runnable)
         /\ \A kinds : W!Of(kinds) = {n \in 1 .. W!Current : loaded[n] \in kinds}
BY ScreensAssumption, LenProperties
   DEF ScenesInv, W!TypeOK, OfTheirKind, W!Numbers, W!Current, W!Of, W!ScenesAssumption

\* What waits belongs to a scene that was loaded.
LEMMA OwnersLoaded ==
  OfTheirKind /\ W!Current \in W!Numbers =>
    \A i \in DOMAIN fxQueue : fxQueue[i] \in W!Runnable /\ fxQueue[i].of <= W!Current
<1> SUFFICES ASSUME OfTheirKind, W!Current \in W!Numbers, NEW i \in DOMAIN fxQueue
             PROVE  fxQueue[i] \in W!Runnable /\ fxQueue[i].of <= W!Current
  OBVIOUS
<1> DEFINE r == fxQueue[i]
<1>1. r \in W!Runnable /\ Waits(fxQueue, r)
  BY LenProperties, ElementOfSeq DEF OfTheirKind, Waits
<1>2. W!Current \in Nat /\ \A kinds : W!Of(kinds) \subseteq 1 .. W!Current
  BY DEF W!Numbers, W!Of, W!Current
<1> HIDE DEF r
<1>3. r.of <= W!Current
  <2>1. CASE r.do = "initialise"
    <3>1. r = W!Initialise
      BY <1>1, <2>1, Runnables
    <3>2. r.of = 0
      BY <3>1 DEF W!Initialise
    <3> QED
      BY <1>2, <3>2
  <2>2. CASE r.do = "start"
    <3>1. r.of \in W!Numbers /\ r = W!Start(r.of)
      BY <1>1, <2>2, Runnables
    <3>2. r.of \in W!Of({"lobby"})
      BY <1>1, <3>1 DEF OfTheirKind
    <3> QED
      BY <1>2, <3>2
  <2>3. CASE r.do = "gameOver"
    <3>1. r.of \in W!Numbers /\ r = W!GameOver(r.of)
      BY <1>1, <2>3, Runnables
    <3>2. r.of \in W!Of({"challenge", "multiplayer"})
      BY <1>1, <3>1 DEF OfTheirKind
    <3> QED
      BY <1>2, <3>2
  <2> QED
    BY <1>1, <2>1, <2>2, <2>3, Runnables
<1> QED
  BY <1>1, <1>3 DEF r

-----------------------------------------------------------------------------
(***************************************************************************)
(* Scenes: the steps that load a scene.                                     *)
(***************************************************************************)
\* A scene is loaded while queue waits; games may be closed, polling may stop, and
\* a lobby that is left may send.
Loads(kind, queue) ==
  /\ kind \in W!Kinds
  /\ queue \in Seq(W!Runnable) /\ \A r : Waits(queue, r) => Waits(fxQueue, r)
  /\ W!LoadScene(kind, queue)
  /\ UNCHANGED <<inits, ended, seats, starting>>
  /\ polling' \subseteq polling \cup (IF kind = "lobby" THEN {W!Current + 1} ELSE {})
  /\ timers' \in [W!Numbers -> Nat] /\ \A n \in W!Numbers : timers'[n] <= timers[n]
  /\ running' \subseteq running /\ \A n \in running' : timers'[n] = timers[n]
  /\ requests' \in [W!Numbers -> Seq({"JOIN", "PART", "QUIT"})]
  /\ \A n \in W!Numbers : requests'[n] # <<>> => n \in W!Of({"lobby"})
  /\ late' \in BOOLEAN

LEMMA OfGrows ==
  ASSUME ScenesInv, NEW kind \in W!Kinds, NEW queue, W!LoadScene(kind, queue)
  PROVE  /\ loaded' \in Seq(W!Kinds)
         /\ W!Current' = W!Current + 1 /\ W!Current' \in W!Numbers
         /\ \A kinds : W!Of(kinds)' = W!Of(kinds) \cup
                                        (IF kind \in kinds THEN {W!Current + 1} ELSE {})
<1>1. /\ loaded \in Seq(W!Kinds) /\ W!Current \in W!Numbers /\ W!Current = Len(loaded)
      /\ W!Numbers = 1 .. MaxLoads /\ MaxLoads \in Nat
      /\ \A kinds : W!Of(kinds) = {n \in 1 .. W!Current : loaded[n] \in kinds}
  BY ScenesTypes
<1>2. W!Current < MaxLoads /\ loaded' = Append(loaded, kind)
  BY DEF W!LoadScene
<1>3. /\ loaded' \in Seq(W!Kinds) /\ Len(loaded') = Len(loaded) + 1
      /\ loaded'[Len(loaded) + 1] = kind
      /\ \A n \in 1 .. Len(loaded) : loaded'[n] = loaded[n]
  BY <1>1, <1>2, AppendProperties
<1>4. W!Current' = W!Current + 1 /\ W!Current' \in W!Numbers
  BY <1>1, <1>2, <1>3 DEF W!Current
<1>5. ASSUME NEW kinds
      PROVE  W!Of(kinds)' = W!Of(kinds) \cup
                              (IF kind \in kinds THEN {W!Current + 1} ELSE {})
  <2>1. W!Of(kinds)' = {n \in 1 .. Len(loaded) + 1 : loaded'[n] \in kinds}
    BY <1>3 DEF W!Of
  <2>2. W!Of(kinds) = {n \in 1 .. Len(loaded) : loaded[n] \in kinds}
    BY DEF W!Of
  <2> QED
    BY <1>1, <1>3, <2>1, <2>2
<1> QED
  BY <1>3, <1>4, <1>5

LEMMA LoadsTypes ==
  ASSUME ScenesInv, NEW kind, NEW queue, Loads(kind, queue)
  PROVE  W!TypeOK' /\ OfTheirKind' /\ Settled'
<1>1. /\ loaded' \in Seq(W!Kinds)
      /\ W!Current' = W!Current + 1 /\ W!Current' \in W!Numbers
      /\ \A kinds : W!Of(kinds)' = W!Of(kinds) \cup
                                     (IF kind \in kinds THEN {W!Current + 1} ELSE {})
  BY OfGrows DEF Loads
<1>2. /\ W!Numbers = 1 .. MaxLoads /\ MaxLoads \in Nat /\ W!Current \in W!Numbers
      /\ \A kinds : W!Of(kinds) \subseteq 1 .. W!Current
  BY ScenesTypes
<1>3. /\ fxQueue' = Append(queue, W!Initialise) /\ settling'
  BY DEF Loads, W!LoadScene
<1>4. fxQueue' \in Seq(W!Runnable)
  BY <1>3, Runnables, AppendProperties DEF Loads
<1>5. \A r : Waits(fxQueue', r) => Waits(fxQueue, r) \/ r = W!Initialise
  BY <1>3, Runnables, WaitsAppended DEF Loads
<1>6. OfTheirKind'
  <2>1. ASSUME NEW n \in W!Numbers
        PROVE  /\ n > W!Current' => inits'[n] = 0
               /\ timers'[n] > 0 => n \in W!Of({"challenge", "multiplayer"})
               /\ n \in running' => timers'[n] > 0
               /\ requests'[n] # <<>> \/ seats'[n] # "out" => n \in W!Of({"lobby"})
               /\ Waits(fxQueue', W!Start(n)) => n \in W!Of({"lobby"})
               /\ Waits(fxQueue', W!GameOver(n)) => n \in W!Of({"challenge", "multiplayer"})
    <3>1. OfTheirKind /\ timers[n] \in Nat /\ timers'[n] \in Nat
      BY ScenesTypes DEF Loads, ScenesInv
    <3>2. n > W!Current' => inits'[n] = 0
      BY <1>1, <1>2, <3>1 DEF Loads, OfTheirKind
    <3>3. timers'[n] > 0 => n \in W!Of({"challenge", "multiplayer"})
      BY <3>1 DEF Loads, OfTheirKind
    <3>4. n \in running' => timers'[n] > 0
      BY <3>1 DEF Loads, OfTheirKind
    <3>5. requests'[n] # <<>> \/ seats'[n] # "out" => n \in W!Of({"lobby"})
      BY <3>1 DEF Loads, OfTheirKind
    <3>6. /\ Waits(fxQueue', W!Start(n)) => n \in W!Of({"lobby"})
          /\ Waits(fxQueue', W!GameOver(n)) => n \in W!Of({"challenge", "multiplayer"})
      BY <1>5, <3>1, Runnables DEF OfTheirKind
    <3> QED
      BY <3>2, <3>3, <3>4, <3>5, <3>6
  <2>2. \A kinds : W!Of(kinds) \subseteq W!Of(kinds)'
    BY <1>1
  <2> QED
    BY <1>4, <2>1, <2>2 DEF OfTheirKind
<1>7. W!TypeOK'
  <2>1. W!TypeOK
    BY DEF ScenesInv
  <2>2. \A i \in DOMAIN fxQueue' : fxQueue'[i] \in W!Runnable /\ fxQueue'[i].of <= W!Current'
    <3>1. (OfTheirKind /\ W!Current \in W!Numbers =>
             \A i \in DOMAIN fxQueue :
               fxQueue[i] \in W!Runnable /\ fxQueue[i].of <= W!Current)'
      BY OwnersLoaded, PTL
    <3> QED
      BY <1>1, <1>6, <3>1
  <2>3. /\ polling' \subseteq W!Of({"lobby"})'
        /\ starting' \subseteq W!Of({"lobby"})'
    BY <1>1, <2>1 DEF Loads, W!TypeOK
  <2>4. /\ running' \subseteq W!Of({"challenge", "multiplayer"})'
        /\ ended' \subseteq W!Of({"challenge", "multiplayer"})'
    BY <1>1, <2>1 DEF Loads, W!TypeOK
  <2>5. /\ inits' \in [W!Numbers -> Nat] /\ timers' \in [W!Numbers -> Nat]
        /\ seats' \in [W!Numbers -> {"out", "in", "playing"}]
        /\ requests' \in [W!Numbers -> Seq({"JOIN", "PART", "QUIT"})]
    BY <2>1 DEF Loads, W!TypeOK
  <2>6. settling' \in BOOLEAN /\ late' \in BOOLEAN
    BY DEF Loads, W!LoadScene
  <2> QED
    BY <1>1, <2>2, <2>3, <2>4, <2>5, <2>6 DEF W!TypeOK
<1>8. Settled'
  BY <1>3 DEF Settled
<1> QED
  BY <1>6, <1>7, <1>8

\* While nothing came late, the scene loaded finds no initialise waiting, no
\* polling and no Timer.
LEMMA LoadsOrderly ==
  ASSUME ScenesInv, NEW kind, NEW queue, Loads(kind, queue),
         ~late, ~Waits(queue, W!Initialise),
         polling' \subseteq {W!Current + 1},
         \A n \in W!Numbers : timers'[n] = 0
  PROVE  InitialisedFirst' /\ W!OrderlyScenes'
<1>1. W!Current' = W!Current + 1 /\ W!Current' \in W!Numbers
  BY OfGrows DEF Loads
<1>2. /\ W!Numbers = 1 .. MaxLoads /\ MaxLoads \in Nat /\ W!Current \in W!Numbers
      /\ \A kinds : W!Of(kinds) \subseteq 1 .. W!Current
  BY ScenesTypes
<1>3. fxQueue' = Append(queue, W!Initialise)
  BY DEF Loads, W!LoadScene
<1>4. OneInitialise(fxQueue')
  BY <1>3, Runnables, WaitsAppended DEF Loads
<1>5. \A r : Waits(fxQueue', r) => Waits(fxQueue, r) \/ r = W!Initialise
  BY <1>3, Runnables, WaitsAppended DEF Loads
<1>6. OfTheirKind /\ W!TypeOK /\ W!OrderlyScenes
  BY DEF ScenesInv
<1>0. PICK new \in W!Numbers : new = W!Current + 1
  BY <1>1
<1>7. new > W!Current /\ \A kinds : new \notin W!Of(kinds)
  BY <1>0, <1>1, <1>2
<1>8. inits'[new] = 0
  BY <1>6, <1>7 DEF Loads, OfTheirKind
<1>9. /\ requests'[new] = <<>> /\ seats'[new] = "out" /\ new \notin starting'
      /\ ~(timers'[new] > 0)
  <2>1. requests'[new] = <<>> /\ seats'[new] = "out"
    BY <1>6, <1>7 DEF Loads, OfTheirKind
  <2>2. new \notin starting'
    BY <1>6, <1>7 DEF Loads, W!TypeOK
  <2>3. timers'[new] = 0
    OBVIOUS
  <2> QED
    BY <2>1, <2>2, <2>3
<1>10. ~Waits(fxQueue', W!Start(new)) /\ ~Waits(fxQueue', W!GameOver(new))
  BY <1>5, <1>6, <1>7, Runnables DEF OfTheirKind
<1>11. ~Active(new)'
  BY <1>9, <1>10 DEF Active
<1>12. InitialisedFirst'
  <2>1. \A n \in W!Numbers : ~(timers'[n] > 0)
    OBVIOUS
  <2> QED
    BY <1>0, <1>1, <1>4, <1>8, <1>11, <2>1 DEF InitialisedFirst
<1>13. W!OrderlyScenes'
  <2>1. \A n \in W!Numbers : inits'[n] <= 1
    BY <1>6 DEF Loads, W!OrderlyScenes
  <2>2. \A n \in W!Numbers : ~(timers'[n] > 0)
    OBVIOUS
  <2> QED
    BY <1>1, <2>1, <2>2 DEF W!OrderlyScenes
<1> QED
  BY <1>12, <1>13

LEMMA LoadsInv ==
  ASSUME ScenesInv, NEW kind, NEW queue, Loads(kind, queue),
         ~late' => /\ ~late /\ ~Waits(queue, W!Initialise)
                   /\ polling' \subseteq {W!Current + 1}
                   /\ \A n \in W!Numbers : timers'[n] = 0
  PROVE  ScenesInv'
<1>1. W!TypeOK' /\ OfTheirKind' /\ Settled'
  BY LoadsTypes
<1>2. CASE late'
  BY <1>1, <1>2 DEF ScenesInv, W!OrderlyScenes
<1>3. CASE ~late'
  BY <1>1, <1>3, LoadsOrderly DEF ScenesInv
<1> QED
  BY <1>2, <1>3

\* Which scene is shown says what may be going on.
LEMMA ShownOnly ==
  ASSUME ScenesInv, ~late
  PROVE  /\ InitialisedFirst
         /\ polling \subseteq {W!Current}
         /\ loaded[W!Current] # "lobby" => polling = {}
         /\ \A n \in W!Numbers : timers[n] > 0 => n = W!Current /\ timers[n] = 1
         /\ loaded[W!Current] \notin {"challenge", "multiplayer"}
              => \A n \in W!Numbers : timers[n] = 0
<1>1. /\ W!TypeOK /\ OfTheirKind /\ InitialisedFirst
      /\ polling \subseteq {W!Current}
      /\ \A n \in W!Numbers : timers[n] > 0 => n = W!Current /\ timers[n] = 1
  BY DEF ScenesInv, W!OrderlyScenes
<1>2. polling \subseteq W!Of({"lobby"})
  BY <1>1 DEF W!TypeOK
<1>3. loaded[W!Current] # "lobby" => polling = {}
  BY <1>1, <1>2, ScenesTypes
<1>4. ASSUME NEW n \in W!Numbers, timers[n] # 0
      PROVE  loaded[W!Current] \in {"challenge", "multiplayer"}
  <2>1. timers[n] > 0
    BY <1>4, ScenesTypes
  <2>2. n \in W!Of({"challenge", "multiplayer"}) /\ n = W!Current
    BY <1>1, <2>1 DEF OfTheirKind
  <2> QED
    BY <2>2, ScenesTypes
<1> QED
  BY <1>1, <1>3, <1>4

\* close cancels the Timer of a game that has one.
LEMMA GameCloses ==
  ASSUME ScenesInv, NEW n \in W!Numbers, W!CloseGame(n)
  PROVE  /\ timers' \in [W!Numbers -> Nat] /\ \A m \in W!Numbers : timers'[m] <= timers[m]
         /\ running' \subseteq running /\ \A m \in running' : timers'[m] = timers[m]
         /\ ~late /\ n = W!Current => \A m \in W!Numbers : timers'[m] = 0
<1>1. /\ timers' = [timers EXCEPT ![n] = IF n \in running THEN @ - 1 ELSE @]
      /\ running' = running \ {n}
  BY DEF W!CloseGame
<1>2. /\ timers \in [W!Numbers -> Nat] /\ \A m \in W!Numbers : timers[m] \in Nat
      /\ running \subseteq W!Numbers
      /\ \A m \in W!Numbers : m \in running => timers[m] > 0
  <2>1. running \subseteq W!Numbers
    BY ScenesTypes DEF ScenesInv, W!TypeOK
  <2> QED
    BY <2>1, ScenesTypes DEF ScenesInv, OfTheirKind
<1>3. \A m \in W!Numbers : timers'[m] =
        IF m = n /\ n \in running THEN timers[m] - 1 ELSE timers[m]
  BY <1>1, <1>2
<1>4. timers' \in [W!Numbers -> Nat]
  <2>1. \A m \in W!Numbers : timers'[m] \in Nat
    BY <1>2, <1>3
  <2> QED
    BY <1>1, <1>2, <2>1
<1>5. \A m \in W!Numbers : timers'[m] <= timers[m]
  BY <1>2, <1>3
<1>6. running' \subseteq running /\ \A m \in running' : timers'[m] = timers[m]
  BY <1>1, <1>2, <1>3
<1>7. ASSUME ~late, n = W!Current, NEW m \in W!Numbers
      PROVE  timers'[m] = 0
  <2>1. /\ timers[m] > 0 => m = n /\ timers[m] = 1
        /\ timers[m] > 0 => m \in running
    BY <1>7, ShownOnly DEF InitialisedFirst
  <2> QED
    BY <1>2, <1>3, <2>1
<1> QED
  BY <1>4, <1>5, <1>6, <1>7

\* Closing a lobby stops the polling of the lobby shown.
LEMMA LobbyCloses ==
  ASSUME ScenesInv, W!CloseLobby
  PROVE  /\ polling' \subseteq polling
         /\ ~late /\ loaded[W!Current] = "lobby" => polling' = {}
<1>1. polling' = polling \ W!LastLobby
  BY DEF W!CloseLobby
<1>2. ASSUME ~late, loaded[W!Current] = "lobby"
      PROVE  polling' = {}
  <2>1. W!Of({"lobby"}) \subseteq 1 .. W!Current /\ W!Current \in W!Of({"lobby"})
    BY <1>2, ScenesTypes
  <2>2. W!Current \in Nat
    BY ScenesTypes
  <2>3. W!Current \in W!LastLobby
    BY <2>1, <2>2 DEF W!LastLobby
  <2> QED
    BY <1>1, <1>2, <2>3, ShownOnly
<1> QED
  BY <1>1, <1>2

\* Only lobbies send.
LEMMA Sends ==
  ASSUME ScenesInv, loaded[W!Current] = "lobby",
         NEW request \in {"JOIN", "PART", "QUIT"}, W!Send(W!Current, request)
  PROVE  /\ requests' \in [W!Numbers -> Seq({"JOIN", "PART", "QUIT"})]
         /\ \A n \in W!Numbers : requests'[n] # <<>> => n \in W!Of({"lobby"})
<1>1. /\ requests \in [W!Numbers -> Seq({"JOIN", "PART", "QUIT"})]
      /\ W!Current \in W!Numbers /\ W!Current \in W!Of({"lobby"})
      /\ \A n \in W!Numbers : requests[n] # <<>> => n \in W!Of({"lobby"})
  <2>1. W!Current \in Nat /\ W!Current > 0
    BY ScenesTypes
  <2>2. W!Of({"lobby"}) = {n \in 1 .. W!Current : loaded[n] \in {"lobby"}}
    BY ScenesTypes
  <2>3. W!Current \in W!Of({"lobby"})
    BY <2>1, <2>2
  <2>4. \A n \in W!Numbers : requests[n] # <<>> => n \in W!Of({"lobby"})
    BY DEF ScenesInv, OfTheirKind
  <2> QED
    BY <2>3, <2>4, ScenesTypes
<1>2. requests' = [requests EXCEPT ![W!Current] = Append(@, request)]
  BY DEF W!Send
<1>3. Append(requests[W!Current], request) \in Seq({"JOIN", "PART", "QUIT"})
  BY <1>1, AppendProperties
<1> QED
  BY <1>1, <1>2, <1>3

\* What no step that loads a scene needs to care about.
LEMMA KeptLoads ==
  ASSUME ScenesInv
  PROVE  /\ UNCHANGED timers =>
              timers' \in [W!Numbers -> Nat] /\ \A n \in W!Numbers : timers'[n] <= timers[n]
         /\ UNCHANGED <<timers, running>> =>
              running' \subseteq running /\ \A n \in running' : timers'[n] = timers[n]
         /\ UNCHANGED requests =>
              /\ requests' \in [W!Numbers -> Seq({"JOIN", "PART", "QUIT"})]
              /\ \A n \in W!Numbers : requests'[n] # <<>> => n \in W!Of({"lobby"})
         /\ UNCHANGED late => late' \in BOOLEAN
<1>1. \A n \in W!Numbers : timers[n] \in Nat
  BY ScenesTypes
<1>2. UNCHANGED timers =>
        timers' \in [W!Numbers -> Nat] /\ \A n \in W!Numbers : timers'[n] <= timers[n]
  BY <1>1, ScenesTypes
<1>3. UNCHANGED requests =>
        /\ requests' \in [W!Numbers -> Seq({"JOIN", "PART", "QUIT"})]
        /\ \A n \in W!Numbers : requests'[n] # <<>> => n \in W!Of({"lobby"})
  BY ScenesTypes DEF ScenesInv, OfTheirKind
<1> QED
  BY <1>2, <1>3, ScenesTypes

-----------------------------------------------------------------------------
LEMMA ChooseFromMenuInv ==
  ASSUME ScenesInv, ~settling, W!ChooseFromMenu
  PROVE  ScenesInv'
<1>1. /\ loaded[W!Current] = "menu"
      /\ UNCHANGED <<inits, timers, running, ended, requests, seats, starting, late>>
  BY DEF W!ChooseFromMenu, W!Shown, W!gameVars, W!serverVars
<1>2. PICK kind \in W!Kinds :
        /\ W!LoadScene(kind, fxQueue)
        /\ polling' = polling \cup (IF kind = "lobby" THEN {W!Current + 1} ELSE {})
  <2>1. CASE W!LoadScene("challenge", fxQueue) /\ UNCHANGED polling
    BY <2>1 DEF W!Kinds
  <2>2. CASE W!LoadScene("instructions", fxQueue) /\ UNCHANGED polling
    BY <2>2 DEF W!Kinds
  <2>3. CASE W!LoadScene("lobby", fxQueue) /\ polling' = polling \cup {W!Current + 1}
    BY <2>3 DEF W!Kinds
  <2> QED
    BY <2>1, <2>2, <2>3 DEF W!ChooseFromMenu
<1>3. Loads(kind, fxQueue)
  BY <1>1, <1>2, KeptLoads, ScenesTypes DEF Loads
<1>4. ~Waits(fxQueue, W!Initialise)
  BY DEF ScenesInv, Settled
<1>5. ASSUME ~late
      PROVE  polling' \subseteq {W!Current + 1} /\ \A n \in W!Numbers : timers'[n] = 0
  BY <1>1, <1>2, <1>5, ShownOnly
<1> QED
  BY <1>1, <1>3, <1>4, <1>5, LoadsInv

LEMMA LeaveForMenuInv ==
  ASSUME ScenesInv, ~settling, W!LeaveForMenu
  PROVE  ScenesInv'
<1>1. /\ loaded[W!Current] \in {"instructions", "scores"}
      /\ W!LoadScene("menu", fxQueue) /\ "menu" \in W!Kinds
      /\ UNCHANGED <<inits, polling, timers, running, ended, requests, seats, starting, late>>
  BY DEF W!LeaveForMenu, W!Shown, W!gameVars, W!serverVars, W!Kinds
<1>2. Loads("menu", fxQueue)
  BY <1>1, KeptLoads, ScenesTypes DEF Loads
<1>3. ~Waits(fxQueue, W!Initialise)
  BY DEF ScenesInv, Settled
<1>4. ASSUME ~late
      PROVE  polling' \subseteq {W!Current + 1} /\ \A n \in W!Numbers : timers'[n] = 0
  BY <1>1, <1>4, ShownOnly
<1> QED
  BY <1>1, <1>2, <1>3, <1>4, LoadsInv

\* The loading scene fades out while nothing waits.
LEMMA FadedInInv ==
  ASSUME ScenesInv, W!FadedIn
  PROVE  ScenesInv'
<1>1. /\ loaded[W!Current] = "loading" /\ fxQueue = <<>>
      /\ W!LoadScene("menu", fxQueue) /\ "menu" \in W!Kinds
      /\ UNCHANGED <<inits, polling, timers, running, ended, requests, seats, starting, late>>
  BY DEF W!FadedIn, W!Shown, W!gameVars, W!serverVars, W!Kinds
<1>2. Loads("menu", fxQueue)
  BY <1>1, KeptLoads, ScenesTypes DEF Loads
<1>3. ~Waits(fxQueue, W!Initialise)
  BY <1>1 DEF Waits
<1>4. ASSUME ~late
      PROVE  polling' \subseteq {W!Current + 1} /\ \A n \in W!Numbers : timers'[n] = 0
  BY <1>1, <1>4, ShownOnly
<1> QED
  BY <1>1, <1>2, <1>3, <1>4, LoadsInv

LEMMA EscapeGameInv ==
  ASSUME ScenesInv, ~settling, W!EscapeGame
  PROVE  ScenesInv'
<1>1. /\ loaded[W!Current] \in {"challenge", "multiplayer"}
      /\ W!CloseGame(W!Current) /\ W!LoadScene("menu", fxQueue) /\ "menu" \in W!Kinds
      /\ UNCHANGED <<inits, polling, ended, requests, seats, starting, late>>
  BY DEF W!EscapeGame, W!Shown, W!serverVars, W!Kinds
<1>2. W!Current \in W!Numbers
  BY ScenesTypes
<1>3. /\ timers' \in [W!Numbers -> Nat] /\ \A m \in W!Numbers : timers'[m] <= timers[m]
      /\ running' \subseteq running /\ \A m \in running' : timers'[m] = timers[m]
      /\ ~late => \A m \in W!Numbers : timers'[m] = 0
  BY <1>1, <1>2, GameCloses
<1>4. Loads("menu", fxQueue)
  BY <1>1, <1>3, KeptLoads, ScenesTypes DEF Loads
<1>5. ~Waits(fxQueue, W!Initialise)
  BY DEF ScenesInv, Settled
<1>6. ~late => polling' \subseteq {W!Current + 1}
  BY <1>1, ShownOnly
<1> QED
  BY <1>1, <1>3, <1>4, <1>5, <1>6, LoadsInv

LEMMA EscapeLobbyInv ==
  ASSUME ScenesInv, ~settling, W!EscapeLobby
  PROVE  ScenesInv'
<1>1. /\ loaded[W!Current] = "lobby"
      /\ W!Send(W!Current, "QUIT")
      /\ W!CloseLobby /\ W!LoadScene("menu", fxQueue) /\ "menu" \in W!Kinds
      /\ UNCHANGED <<inits, timers, running, ended, seats, starting, late>>
  BY DEF W!EscapeLobby, W!Shown, W!gameVars, W!Kinds
<1>2. /\ requests' \in [W!Numbers -> Seq({"JOIN", "PART", "QUIT"})]
      /\ \A n \in W!Numbers : requests'[n] # <<>> => n \in W!Of({"lobby"})
  BY <1>1, Sends
<1>3. Loads("menu", fxQueue)
  BY <1>1, <1>2, KeptLoads, LobbyCloses, ScenesTypes DEF Loads
<1>4. ~Waits(fxQueue, W!Initialise)
  BY DEF ScenesInv, Settled
<1>5. ASSUME ~late
      PROVE  polling' \subseteq {W!Current + 1} /\ \A n \in W!Numbers : timers'[n] = 0
  BY <1>1, <1>5, ShownOnly, LobbyCloses
<1> QED
  BY <1>1, <1>3, <1>4, <1>5, LoadsInv

LEMMA RunStartInv ==
  ASSUME ScenesInv, fxQueue # <<>>, W!RunStart
  PROVE  ScenesInv'
<1> DEFINE r == Head(fxQueue)
<1>1. /\ r.do = "start" /\ W!CloseLobby /\ W!LoadScene("multiplayer", Tail(fxQueue))
      /\ "multiplayer" \in W!Kinds
      /\ late' = (late \/ r.of # W!Current)
      /\ UNCHANGED <<inits, timers, running, ended, requests, seats, starting>>
  BY DEF W!RunStart, W!gameVars, W!serverVars, W!Kinds
<1>2. /\ r \in W!Runnable /\ Tail(fxQueue) \in Seq(W!Runnable)
      /\ \A x : Waits(Tail(fxQueue), x) => Waits(fxQueue, x)
      /\ Waits(fxQueue, r)
  BY ScenesTypes, HeadTailProperties, WaitsBehind
<1> HIDE DEF r
<1>3. r.of \in W!Numbers /\ r = W!Start(r.of)
  BY <1>1, <1>2, Runnables
<1>4. r.of \in W!Of({"lobby"})
  BY <1>2, <1>3 DEF ScenesInv, OfTheirKind
<1>5. late' \in BOOLEAN
  BY <1>1
<1>6. Loads("multiplayer", Tail(fxQueue))
  BY <1>1, <1>2, <1>5, KeptLoads, LobbyCloses DEF Loads
<1>7. ASSUME ~late'
      PROVE  /\ ~late /\ ~Waits(Tail(fxQueue), W!Initialise)
             /\ polling' \subseteq {W!Current + 1}
             /\ \A n \in W!Numbers : timers'[n] = 0
  <2>1. ~late /\ r.of = W!Current
    BY <1>1, <1>7
  <2>2. loaded[W!Current] = "lobby"
    BY <1>4, <2>1, ScenesTypes
  <2>3. Active(W!Current)
    BY <1>2, <1>3, <2>1 DEF Active
  <2>4. ~Waits(Tail(fxQueue), W!Initialise)
    BY <1>2, <2>1, <2>3, ShownOnly DEF InitialisedFirst
  <2> QED
    BY <1>1, <2>1, <2>2, <2>4, ShownOnly, LobbyCloses
<1> QED
  BY <1>6, <1>7, LoadsInv

LEMMA RunGameOverInv ==
  ASSUME ScenesInv, fxQueue # <<>>, W!RunGameOver
  PROVE  ScenesInv'
<1> DEFINE r == Head(fxQueue)
<1>1. /\ r.do = "gameOver" /\ W!CloseGame(r.of) /\ W!LoadScene("scores", Tail(fxQueue))
      /\ "scores" \in W!Kinds
      /\ late' = (late \/ r.of # W!Current)
      /\ UNCHANGED <<inits, polling, ended, requests, seats, starting>>
  BY DEF W!RunGameOver, W!serverVars, W!Kinds
<1>2. /\ r \in W!Runnable /\ Tail(fxQueue) \in Seq(W!Runnable)
      /\ \A x : Waits(Tail(fxQueue), x) => Waits(fxQueue, x)
      /\ Waits(fxQueue, r)
  BY ScenesTypes, HeadTailProperties, WaitsBehind
<1> HIDE DEF r
<1>3. r.of \in W!Numbers /\ r = W!GameOver(r.of)
  BY <1>1, <1>2, Runnables
<1>4. r.of \in W!Of({"challenge", "multiplayer"})
  BY <1>2, <1>3 DEF ScenesInv, OfTheirKind
<1>5. late' \in BOOLEAN
  BY <1>1
<1>6. /\ timers' \in [W!Numbers -> Nat] /\ \A m \in W!Numbers : timers'[m] <= timers[m]
      /\ running' \subseteq running /\ \A m \in running' : timers'[m] = timers[m]
      /\ ~late /\ r.of = W!Current => \A m \in W!Numbers : timers'[m] = 0
  BY <1>1, <1>3, GameCloses
<1>7. Loads("scores", Tail(fxQueue))
  BY <1>1, <1>2, <1>5, <1>6, KeptLoads DEF Loads
<1>8. ASSUME ~late'
      PROVE  /\ ~late /\ ~Waits(Tail(fxQueue), W!Initialise)
             /\ polling' \subseteq {W!Current + 1}
             /\ \A n \in W!Numbers : timers'[n] = 0
  <2>1. ~late /\ r.of = W!Current
    BY <1>1, <1>8
  <2>2. loaded[W!Current] # "lobby"
    BY <1>4, <2>1, ScenesTypes
  <2>3. Active(W!Current)
    BY <1>2, <1>3, <2>1 DEF Active
  <2>4. ~Waits(Tail(fxQueue), W!Initialise)
    BY <1>2, <2>1, <2>3, ShownOnly DEF InitialisedFirst
  <2> QED
    BY <1>1, <1>6, <2>1, <2>2, <2>4, ShownOnly
<1> QED
  BY <1>7, <1>8, LoadsInv

-----------------------------------------------------------------------------
(***************************************************************************)
(* Scenes: the steps that leave the scene shown as it is.                   *)
(***************************************************************************)
LEMMA StaysTypes ==
  ASSUME ScenesInv, UNCHANGED <<loaded, polling, late>>,
         inits' \in [W!Numbers -> Nat], timers' \in [W!Numbers -> Nat],
         settling' \in BOOLEAN, fxQueue' \in Seq(W!Runnable),
         requests' \in [W!Numbers -> Seq({"JOIN", "PART", "QUIT"})],
         seats' \in [W!Numbers -> {"out", "in", "playing"}],
         running' \subseteq W!Of({"challenge", "multiplayer"}),
         ended' \subseteq W!Of({"challenge", "multiplayer"}),
         starting' \subseteq W!Of({"lobby"}),
         \A n \in W!Numbers :
           /\ n > W!Current => inits'[n] = 0
           /\ timers'[n] > 0 => n \in W!Of({"challenge", "multiplayer"})
           /\ n \in running' => timers'[n] > 0
           /\ requests'[n] # <<>> \/ seats'[n] # "out" => n \in W!Of({"lobby"})
           /\ Waits(fxQueue', W!Start(n)) => n \in W!Of({"lobby"})
           /\ Waits(fxQueue', W!GameOver(n)) => n \in W!Of({"challenge", "multiplayer"})
  PROVE  W!TypeOK' /\ OfTheirKind' /\ W!Current' = W!Current
<1>1. W!Current' = W!Current /\ \A kinds : W!Of(kinds)' = W!Of(kinds)
  BY DEF W!Current, W!Of
<1>2. OfTheirKind'
  BY <1>1 DEF OfTheirKind
<1>3. W!TypeOK /\ W!Current \in W!Numbers
  BY DEF ScenesInv, W!TypeOK
<1>4. \A i \in DOMAIN fxQueue' : fxQueue'[i] \in W!Runnable /\ fxQueue'[i].of <= W!Current'
  <2>1. (OfTheirKind /\ W!Current \in W!Numbers =>
           \A i \in DOMAIN fxQueue :
             fxQueue[i] \in W!Runnable /\ fxQueue[i].of <= W!Current)'
    BY OwnersLoaded, PTL
  <2> QED
    BY <1>1, <1>2, <1>3, <2>1
<1>5. loaded' \in Seq(W!Kinds) /\ late' \in BOOLEAN /\ polling' \subseteq W!Of({"lobby"})
  BY <1>3 DEF W!TypeOK
<1> QED
  BY <1>1, <1>2, <1>3, <1>4, <1>5 DEF W!TypeOK

\* What OfTheirKind says of one scene.
LEMMA KindOf ==
  ASSUME ScenesInv, NEW n \in W!Numbers
  PROVE  /\ n > W!Current => inits[n] = 0
         /\ timers[n] > 0 => n \in W!Of({"challenge", "multiplayer"})
         /\ n \in running => timers[n] > 0
         /\ requests[n] # <<>> \/ seats[n] # "out" => n \in W!Of({"lobby"})
         /\ Waits(fxQueue, W!Start(n)) => n \in W!Of({"lobby"})
         /\ Waits(fxQueue, W!GameOver(n)) => n \in W!Of({"challenge", "multiplayer"})
         /\ timers[n] \in Nat /\ inits[n] \in Nat
<1>1. timers[n] \in Nat /\ inits[n] \in Nat
  BY ScenesTypes
<1>2. OfTheirKind
  BY DEF ScenesInv
<1> QED
  BY <1>1, <1>2 DEF OfTheirKind

\* What the type invariant says of the sets of scenes.
LEMMA SetsOfScenes ==
  ASSUME ScenesInv
  PROVE  /\ running \subseteq W!Of({"challenge", "multiplayer"})
         /\ ended \subseteq W!Of({"challenge", "multiplayer"})
         /\ starting \subseteq W!Of({"lobby"})
         /\ polling \subseteq W!Of({"lobby"})
BY DEF ScenesInv, W!TypeOK

\* Messages come and go.
LEMMA MessagesInv ==
  ASSUME ScenesInv,
         UNCHANGED <<loaded, inits, fxQueue, settling, polling, timers, running, ended, late>>,
         requests' \in [W!Numbers -> Seq({"JOIN", "PART", "QUIT"})],
         seats' \in [W!Numbers -> {"out", "in", "playing"}],
         starting' \subseteq W!Of({"lobby"}),
         \A n \in W!Numbers :
           requests'[n] # <<>> \/ seats'[n] # "out" => n \in W!Of({"lobby"}),
         Waits(fxQueue, W!Initialise) /\ Active(W!Current)' => Active(W!Current)
  PROVE  ScenesInv'
<1>1. \A n \in W!Numbers :
        /\ n > W!Current => inits'[n] = 0
        /\ timers'[n] > 0 => n \in W!Of({"challenge", "multiplayer"})
        /\ n \in running' => timers'[n] > 0
        /\ requests'[n] # <<>> \/ seats'[n] # "out" => n \in W!Of({"lobby"})
        /\ Waits(fxQueue', W!Start(n)) => n \in W!Of({"lobby"})
        /\ Waits(fxQueue', W!GameOver(n)) => n \in W!Of({"challenge", "multiplayer"})
  BY KindOf
<1>2. W!TypeOK' /\ OfTheirKind' /\ W!Current' = W!Current
  BY <1>1, ScenesTypes, SetsOfScenes, StaysTypes
<1>3. Settled'
  BY DEF ScenesInv, Settled
<1>4. ~late' => InitialisedFirst'
  BY <1>2 DEF ScenesInv, InitialisedFirst
<1>5. W!OrderlyScenes'
  BY <1>2 DEF ScenesInv, W!OrderlyScenes
<1> QED
  BY <1>2, <1>3, <1>4, <1>5 DEF ScenesInv

LEMMA JoinOrPartInv ==
  ASSUME ScenesInv, ~settling, W!JoinOrPart
  PROVE  ScenesInv'
<1>1. /\ loaded[W!Current] = "lobby"
      /\ UNCHANGED <<loaded, inits, fxQueue, settling, polling, timers, running, ended,
                     late, seats, starting>>
  BY DEF W!JoinOrPart, W!Shown, W!sceneVars, W!gameVars
<1>2. PICK request \in {"JOIN", "PART", "QUIT"} : W!Send(W!Current, request)
  <2>1. CASE seats[W!Current] = "in"
    BY <2>1 DEF W!JoinOrPart
  <2>2. CASE seats[W!Current] # "in"
    BY <2>2 DEF W!JoinOrPart
  <2> QED
    BY <2>1, <2>2
<1>3. /\ requests' \in [W!Numbers -> Seq({"JOIN", "PART", "QUIT"})]
      /\ \A n \in W!Numbers : requests'[n] # <<>> => n \in W!Of({"lobby"})
  BY <1>1, <1>2, Sends
<1>4. \A n \in W!Numbers :
        requests'[n] # <<>> \/ seats'[n] # "out" => n \in W!Of({"lobby"})
  BY <1>1, <1>3, KindOf
<1>5. ~Waits(fxQueue, W!Initialise)
  BY DEF ScenesInv, Settled
<1> QED
  BY <1>1, <1>3, <1>4, <1>5, MessagesInv, ScenesTypes, SetsOfScenes

LEMMA ServerHandlesInv ==
  ASSUME ScenesInv, NEW n \in W!Numbers, W!ServerHandles(n)
  PROVE  ScenesInv'
<1>1. /\ requests[n] # <<>>
      /\ requests' = [requests EXCEPT ![n] = Tail(@)]
      /\ seats' = [seats EXCEPT ![n] = W!AfterRequest(Head(requests[n]), @)]
      /\ UNCHANGED <<loaded, inits, fxQueue, settling, polling, timers, running, ended,
                     late, starting>>
  BY DEF W!ServerHandles, W!sceneVars, W!gameVars
<1>2. requests' \in [W!Numbers -> Seq({"JOIN", "PART", "QUIT"})]
  <2>1. requests[n] \in Seq({"JOIN", "PART", "QUIT"})
    BY ScenesTypes
  <2>2. Tail(requests[n]) \in Seq({"JOIN", "PART", "QUIT"})
    BY <1>1, <2>1, HeadTailProperties
  <2> QED
    BY <1>1, <2>2, ScenesTypes
<1>3. seats' \in [W!Numbers -> {"out", "in", "playing"}]
  <2>1. seats[n] \in {"out", "in", "playing"}
    BY ScenesTypes
  <2>2. W!AfterRequest(Head(requests[n]), seats[n]) \in {"out", "in", "playing"}
    BY <2>1 DEF W!AfterRequest
  <2> QED
    BY <1>1, <2>2, ScenesTypes
<1>4. n \in W!Of({"lobby"})
  BY <1>1, KindOf
<1>5. \A m \in W!Numbers \ {n} : requests'[m] = requests[m] /\ seats'[m] = seats[m]
  BY <1>1, ScenesTypes
<1>6. \A m \in W!Numbers :
        requests'[m] # <<>> \/ seats'[m] # "out" => m \in W!Of({"lobby"})
  BY <1>4, <1>5, KindOf
<1>7. Active(W!Current)' => Active(W!Current)
  <2>1. CASE n = W!Current
    BY <1>1, <2>1 DEF Active
  <2>2. CASE n # W!Current
    <3>1. W!Current' = W!Current /\ W!Current \in W!Numbers
      BY <1>1, ScenesTypes DEF W!Current
    <3> QED
      BY <1>1, <1>5, <2>2, <3>1 DEF Active
  <2> QED
    BY <2>1, <2>2
<1> QED
  BY <1>1, <1>2, <1>3, <1>6, <1>7, MessagesInv, SetsOfScenes

LEMMA ServerStartsInv ==
  ASSUME ScenesInv, NEW n \in W!Numbers, W!ServerStarts(n)
  PROVE  ScenesInv'
<1>1. /\ seats[n] = "in"
      /\ seats' = [seats EXCEPT ![n] = "playing"]
      /\ starting' = starting \cup {n}
      /\ UNCHANGED <<loaded, inits, fxQueue, settling, polling, timers, running, ended,
                     late, requests>>
  BY DEF W!ServerStarts, W!sceneVars, W!gameVars
<1>2. seats' \in [W!Numbers -> {"out", "in", "playing"}]
  BY <1>1, ScenesTypes
<1>3. n \in W!Of({"lobby"})
  BY <1>1, KindOf
<1>4. starting' \subseteq W!Of({"lobby"})
  BY <1>1, <1>3, SetsOfScenes
<1>5. \A m \in W!Numbers \ {n} : seats'[m] = seats[m]
  BY <1>1, ScenesTypes
<1>6. \A m \in W!Numbers :
        requests'[m] # <<>> \/ seats'[m] # "out" => m \in W!Of({"lobby"})
  BY <1>1, <1>3, <1>5, KindOf
<1>7. Active(W!Current)' => Active(W!Current)
  <2>1. CASE n = W!Current
    BY <1>1, <2>1 DEF Active
  <2>2. CASE n # W!Current
    <3>1. W!Current' = W!Current /\ W!Current \in W!Numbers
      BY <1>1, ScenesTypes DEF W!Current
    <3> QED
      BY <1>1, <1>5, <2>2, <3>1 DEF Active
  <2> QED
    BY <2>1, <2>2
<1> QED
  BY <1>1, <1>2, <1>4, <1>6, <1>7, MessagesInv, ScenesTypes

\* What is queued for the scene of something that is going on.
LEMMA QueuedInv ==
  ASSUME ScenesInv, NEW n \in W!Numbers, NEW r \in W!Runnable,
         Active(n), r \in {W!Start(n), W!GameOver(n)},
         r = W!Start(n) => n \in W!Of({"lobby"}),
         r = W!GameOver(n) => n \in W!Of({"challenge", "multiplayer"}),
         fxQueue' = Append(fxQueue, r),
         ended' \subseteq W!Of({"challenge", "multiplayer"}),
         starting' \subseteq starting,
         UNCHANGED <<loaded, inits, settling, polling, timers, running, requests, seats, late>>
  PROVE  ScenesInv'
<1>1. fxQueue \in Seq(W!Runnable) /\ fxQueue' \in Seq(W!Runnable)
  BY ScenesTypes, AppendProperties
<1>2. /\ \A x : Waits(fxQueue', x) <=> Waits(fxQueue, x) \/ x = r
      /\ r # W!Initialise /\ OneInitialise(fxQueue) => OneInitialise(fxQueue')
  BY <1>1, WaitsAppended
<1>3. r # W!Initialise
  BY Runnables
<1>4. \A m \in W!Numbers \ {n} :
        /\ Waits(fxQueue', W!Start(m)) <=> Waits(fxQueue, W!Start(m))
        /\ Waits(fxQueue', W!GameOver(m)) <=> Waits(fxQueue, W!GameOver(m))
  BY <1>2, Runnables
<1>5. /\ Waits(fxQueue', W!Start(n)) => Waits(fxQueue, W!Start(n)) \/ r = W!Start(n)
      /\ Waits(fxQueue', W!GameOver(n)) => Waits(fxQueue, W!GameOver(n)) \/ r = W!GameOver(n)
  BY <1>2
<1>6. \A m \in W!Numbers :
        /\ m > W!Current => inits'[m] = 0
        /\ timers'[m] > 0 => m \in W!Of({"challenge", "multiplayer"})
        /\ m \in running' => timers'[m] > 0
        /\ requests'[m] # <<>> \/ seats'[m] # "out" => m \in W!Of({"lobby"})
        /\ Waits(fxQueue', W!Start(m)) => m \in W!Of({"lobby"})
        /\ Waits(fxQueue', W!GameOver(m)) => m \in W!Of({"challenge", "multiplayer"})
  BY <1>4, <1>5, KindOf
<1>7. W!TypeOK' /\ OfTheirKind' /\ W!Current' = W!Current
  BY <1>1, <1>6, ScenesTypes, SetsOfScenes, StaysTypes
<1>8. Settled'
  BY <1>2, <1>3 DEF ScenesInv, Settled
<1>9. ASSUME ~late
      PROVE  InitialisedFirst'
  <2>1. InitialisedFirst
    BY <1>9 DEF ScenesInv
  <2>2. ASSUME Waits(fxQueue, W!Initialise)
        PROVE  inits'[W!Current'] = 0 /\ ~Active(W!Current)'
    <3>1. inits[W!Current] = 0 /\ ~Active(W!Current)
      BY <2>1, <2>2 DEF InitialisedFirst
    <3>2. W!Current \in W!Numbers \ {n}
      BY <3>1, ScenesTypes
    <3> QED
      BY <1>4, <1>7, <3>1, <3>2 DEF Active
  <2> QED
    BY <1>2, <1>3, <2>1, <2>2 DEF InitialisedFirst
<1>10. W!OrderlyScenes'
  BY <1>7 DEF ScenesInv, W!OrderlyScenes
<1> QED
  BY <1>7, <1>8, <1>9, <1>10 DEF ScenesInv

LEMMA SpendLastLifeInv ==
  ASSUME ScenesInv, NEW n \in W!Numbers, W!SpendLastLife(n)
  PROVE  ScenesInv'
<1>1. /\ timers[n] > 0
      /\ ended' = ended \cup {n} /\ fxQueue' = Append(fxQueue, W!GameOver(n))
      /\ UNCHANGED <<loaded, inits, settling, polling, timers, running, requests, seats,
                     starting, late>>
  BY DEF W!SpendLastLife, W!sceneVars, W!serverVars
<1>2. n \in W!Of({"challenge", "multiplayer"}) /\ Active(n)
  BY <1>1, KindOf DEF Active
<1>3. W!GameOver(n) \in W!Runnable /\ W!GameOver(n) # W!Start(n)
  BY Runnables
<1>4. ended' \subseteq W!Of({"challenge", "multiplayer"})
  BY <1>1, <1>2, SetsOfScenes
<1> QED
  BY <1>1, <1>2, <1>3, <1>4, QueuedInv

LEMMA ReceiveStartInv ==
  ASSUME ScenesInv, NEW n \in W!Numbers, W!ReceiveStart(n)
  PROVE  ScenesInv'
<1>1. /\ n \in starting /\ starting' = starting \ {n}
      /\ fxQueue' = Append(fxQueue, W!Start(n))
      /\ UNCHANGED <<loaded, inits, settling, polling, timers, running, ended, requests,
                     seats, late>>
  BY DEF W!ReceiveStart, W!sceneVars, W!gameVars
<1>2. n \in W!Of({"lobby"}) /\ Active(n)
  BY <1>1, SetsOfScenes DEF Active
<1>3. W!Start(n) \in W!Runnable /\ W!GameOver(n) # W!Start(n)
  BY Runnables
<1> QED
  BY <1>1, <1>2, <1>3, QueuedInv, SetsOfScenes

-----------------------------------------------------------------------------
\* The first initialise of the scene shown starts the first Timer of its game.
LEMMA RunInitialiseInv ==
  ASSUME ScenesInv, fxQueue # <<>>, W!RunInitialise
  PROVE  ScenesInv'
<1> DEFINE game == loaded[W!Current] \in {"challenge", "multiplayer"}
<1>1. /\ Head(fxQueue).do = "initialise"
      /\ inits' = [inits EXCEPT ![W!Current] = @ + 1]
      /\ game => timers' = [timers EXCEPT ![W!Current] = @ + 1]
                 /\ running' = running \cup {W!Current}
      /\ ~game => UNCHANGED <<timers, running>>
      /\ fxQueue' = Tail(fxQueue)
      /\ settling' = (settling /\ fxQueue' # <<>>)
      /\ UNCHANGED <<loaded, polling, ended, requests, seats, starting, late>>
  BY DEF W!RunInitialise, W!Shown, W!StartGame, W!serverVars
<1>2. /\ Head(fxQueue) \in W!Runnable /\ fxQueue' \in Seq(W!Runnable)
      /\ \A x : Waits(fxQueue', x) => Waits(fxQueue, x)
      /\ Waits(fxQueue, Head(fxQueue))
      /\ OneInitialise(fxQueue) => OneInitialise(fxQueue')
      /\ OneInitialise(fxQueue) /\ Head(fxQueue) = W!Initialise
           => ~Waits(fxQueue', W!Initialise)
  BY <1>1, ScenesTypes, HeadTailProperties, WaitsBehind
<1>3. Head(fxQueue) = W!Initialise /\ Waits(fxQueue, W!Initialise)
  BY <1>1, <1>2, Runnables
<1>4. W!Current \in W!Numbers /\ W!Current \in Nat /\ \A n \in W!Numbers : n \in Nat
  BY ScenesTypes
<1>5. game => W!Current \in W!Of({"challenge", "multiplayer"})
  <2>1. W!Of({"challenge", "multiplayer"}) =
          {n \in 1 .. W!Current : loaded[n] \in {"challenge", "multiplayer"}}
    BY ScenesTypes
  <2>2. W!Current \in 1 .. W!Current
    BY ScenesTypes
  <2> QED
    BY <2>1, <2>2
<1> HIDE DEF game
<1>6. \A n \in W!Numbers :
        /\ timers[n] \in Nat /\ inits[n] \in Nat
        /\ n # W!Current \/ ~game => timers'[n] = timers[n]
        /\ n = W!Current /\ game => timers'[n] = timers[n] + 1
        /\ inits'[n] = IF n = W!Current THEN inits[n] + 1 ELSE inits[n]
  BY <1>1, <1>4, ScenesTypes
<1>7. inits' \in [W!Numbers -> Nat] /\ timers' \in [W!Numbers -> Nat]
  <2>1. inits[W!Current] + 1 \in Nat /\ timers[W!Current] + 1 \in Nat
    BY <1>4, <1>6
  <2> QED
    BY <1>1, <2>1, ScenesTypes
<1>8. /\ running \subseteq running' /\ running' \subseteq running \cup {W!Current}
      /\ ~game => running' = running
  BY <1>1
<1>9. running' \subseteq W!Of({"challenge", "multiplayer"})
  BY <1>5, <1>8, SetsOfScenes
<1>10. ASSUME NEW n \in W!Numbers
       PROVE  /\ n > W!Current => inits'[n] = 0
              /\ timers'[n] > 0 => n \in W!Of({"challenge", "multiplayer"})
              /\ n \in running' => timers'[n] > 0
              /\ requests'[n] # <<>> \/ seats'[n] # "out" => n \in W!Of({"lobby"})
              /\ Waits(fxQueue', W!Start(n)) => n \in W!Of({"lobby"})
              /\ Waits(fxQueue', W!GameOver(n)) => n \in W!Of({"challenge", "multiplayer"})
  <2>1. n > W!Current => inits'[n] = 0
    BY <1>4, <1>6, KindOf
  <2>2. timers'[n] > 0 => n \in W!Of({"challenge", "multiplayer"})
    BY <1>5, <1>6, KindOf
  <2>3. n \in running' => timers'[n] > 0
    <3>1. CASE n = W!Current /\ game
      <4>1. timers'[n] = timers[n] + 1 /\ timers[n] \in Nat
        BY <1>6, <3>1
      <4> QED
        BY <4>1
    <3>2. CASE n # W!Current \/ ~game
      <4>1. timers'[n] = timers[n] /\ (n \in running' => n \in running)
        BY <1>6, <1>8, <3>2
      <4> QED
        BY <4>1, KindOf
    <3> QED
      BY <3>1, <3>2
  <2>4. requests'[n] # <<>> \/ seats'[n] # "out" => n \in W!Of({"lobby"})
    BY <1>1, KindOf
  <2>5. /\ Waits(fxQueue', W!Start(n)) => n \in W!Of({"lobby"})
        /\ Waits(fxQueue', W!GameOver(n)) => n \in W!Of({"challenge", "multiplayer"})
    BY <1>2, KindOf
  <2> QED
    BY <2>1, <2>2, <2>3, <2>4, <2>5
<1>11. settling' \in BOOLEAN
  BY <1>1, ScenesTypes
<1>12. W!TypeOK' /\ OfTheirKind' /\ W!Current' = W!Current
  BY <1>1, <1>2, <1>7, <1>9, <1>10, <1>11, ScenesTypes, SetsOfScenes, StaysTypes
<1>13. Settled'
  <2>1. settling
    BY <1>3 DEF ScenesInv, Settled
  <2>2. fxQueue' = <<>> => ~Waits(fxQueue', W!Initialise)
    BY DEF Waits
  <2> QED
    BY <1>1, <2>1, <2>2 DEF Settled
<1>14. ASSUME ~late
       PROVE  InitialisedFirst' /\ W!OrderlyScenes'
  <2>1. InitialisedFirst /\ W!OrderlyScenes
    BY <1>14 DEF ScenesInv
  <2>2. inits[W!Current] = 0 /\ ~(timers[W!Current] > 0)
    BY <1>3, <2>1 DEF InitialisedFirst, Active
  <2>3. \A n \in W!Numbers : timers[n] = 0
    BY <1>4, <1>6, <2>1, <2>2, <1>14 DEF W!OrderlyScenes
  <2>4. \A n \in W!Numbers : timers'[n] > 0 =>
          n = W!Current /\ timers'[n] = 1 /\ n \in running'
    <3>1. game => W!Current \in running'
      BY <1>1
    <3> QED
      BY <1>4, <1>6, <2>3, <3>1
  <2>5. InitialisedFirst'
    BY <1>2, <1>3, <2>1, <2>4 DEF InitialisedFirst
  <2>6. \A n \in W!Numbers : inits'[n] <= 1
    BY <1>4, <1>6, <2>1, <2>2, <1>14 DEF W!OrderlyScenes
  <2>7. W!OrderlyScenes'
    BY <1>1, <1>12, <1>14, <2>1, <2>4, <2>6 DEF W!OrderlyScenes
  <2> QED
    BY <2>5, <2>7
<1> QED
  BY <1>1, <1>12, <1>13, <1>14 DEF ScenesInv, W!OrderlyScenes

-----------------------------------------------------------------------------
LEMMA ScenesInit == W!Init => ScenesInv
<1> SUFFICES ASSUME W!Init
             PROVE  ScenesInv
  OBVIOUS
<1>1. /\ MaxLoads \in Nat \ {0} /\ W!Numbers = 1 .. MaxLoads
      /\ loaded = <<"loading">> /\ inits = [n \in W!Numbers |-> 0]
      /\ fxQueue = <<W!Initialise>> /\ settling = TRUE /\ polling = {}
      /\ timers = [n \in W!Numbers |-> 0] /\ running = {} /\ ended = {}
      /\ requests = [n \in W!Numbers |-> <<>>] /\ seats = [n \in W!Numbers |-> "out"]
      /\ starting = {} /\ late = FALSE
  BY ScreensAssumption DEF W!Init, W!Numbers, W!ScenesAssumption
<1>2. loaded \in Seq(W!Kinds) /\ W!Current = 1 /\ W!Current \in W!Numbers
  BY <1>1 DEF W!Kinds, W!Current
<1>3. W!Initialise \in W!Runnable /\ fxQueue \in Seq(W!Runnable)
  BY <1>1, Runnables
<1>4. \A x : Waits(fxQueue, x) => x = W!Initialise
  BY <1>1 DEF Waits
<1>5. OfTheirKind
  BY <1>1, <1>3, <1>4, Runnables DEF OfTheirKind
<1>6. \A i \in DOMAIN fxQueue : fxQueue[i] \in W!Runnable /\ fxQueue[i].of <= W!Current
  BY <1>2, <1>5, OwnersLoaded
<1>7. /\ inits \in [W!Numbers -> Nat] /\ timers \in [W!Numbers -> Nat]
      /\ seats \in [W!Numbers -> {"out", "in", "playing"}]
      /\ requests \in [W!Numbers -> Seq({"JOIN", "PART", "QUIT"})]
  BY <1>1
<1>8. W!TypeOK
  BY <1>1, <1>2, <1>6, <1>7 DEF W!TypeOK
<1>9. Settled
  BY <1>1 DEF Settled
<1>10. InitialisedFirst
  <2>1. OneInitialise(fxQueue)
    BY <1>1 DEF OneInitialise
  <2>2. inits[W!Current] = 0 /\ \A n \in W!Numbers : timers[n] = 0
    BY <1>1, <1>2
  <2>3. requests[W!Current] = <<>> /\ seats[W!Current] = "out" /\ starting = {}
    BY <1>1, <1>2
  <2>4. ~Active(W!Current)
    BY <1>2, <1>4, <2>2, <2>3, Runnables DEF Active
  <2> QED
    BY <2>1, <2>2, <2>4 DEF InitialisedFirst
<1>11. W!OrderlyScenes
  BY <1>1 DEF W!OrderlyScenes
<1> QED
  BY <1>5, <1>8, <1>9, <1>10, <1>11 DEF ScenesInv

LEMMA ScenesInvNext ==
  ASSUME ScenesInv, ScenesSteps
  PROVE  ScenesInv'
<1>1. CASE UNCHANGED wVars
  <2>1. /\ UNCHANGED <<loaded, inits, fxQueue, settling, polling, timers, running, ended,
                       requests, seats, starting, late>>
        /\ W!Current' = W!Current
    BY <1>1 DEF wVars, W!Current
  <2>2. Active(W!Current)' => Active(W!Current)
    BY <2>1 DEF Active
  <2> QED
    BY <2>1, <2>2, KindOf, ScenesTypes, SetsOfScenes, MessagesInv
<1>2. CASE W!Player
  BY <1>2, ChooseFromMenuInv, LeaveForMenuInv, EscapeGameInv, EscapeLobbyInv, JoinOrPartInv
     DEF W!Player
<1>3. CASE W!FadedIn
  BY <1>3, FadedInInv
<1>4. CASE W!RunNext
  BY <1>4, RunInitialiseInv, RunStartInv, RunGameOverInv DEF W!RunNext
<1>5. ASSUME NEW n \in W!Numbers, W!SpendLastLife(n) \/ W!Server(n)
      PROVE  ScenesInv'
  BY <1>5, SpendLastLifeInv, ServerHandlesInv, ServerStartsInv, ReceiveStartInv DEF W!Server
<1> QED
  BY <1>1, <1>2, <1>3, <1>4, <1>5 DEF ScenesSteps, W!Next

-----------------------------------------------------------------------------
(***************************************************************************)
(* The three together.                                                      *)
(***************************************************************************)
\* A step is one of each part, or leaves it as it is.
LEMMA StepOfEach ==
  ASSUME [Next]_vars
  PROVE  OpponentsSteps /\ ScenesSteps /\ ScoresSteps
<1>1. CASE InOpponents(O!Next)
  BY <1>1 DEF InOpponents, OpponentsSteps, ScenesSteps, ScoresSteps
<1>2. CASE InScenes(W!Next)
  BY <1>2 DEF InScenes, OpponentsSteps, ScenesSteps, ScoresSteps
<1>3. CASE InScores(S!Next)
  BY <1>3 DEF InScores, OpponentsSteps, ScenesSteps, ScoresSteps
<1>4. CASE UNCHANGED vars
  BY <1>4 DEF vars, OpponentsSteps, ScenesSteps, ScoresSteps
<1> QED
  BY <1>1, <1>2, <1>3, <1>4 DEF Next

LEMMA InitInv ==
  ASSUME Init
  PROVE  Inv
BY OpponentsInit, ScenesInit, ScoresInit DEF Init, Inv

LEMMA NextInv ==
  ASSUME Inv, [Next]_vars
  PROVE  Inv'
<1>1. OpponentsSteps /\ ScenesSteps /\ ScoresSteps
  BY StepOfEach
<1>2. OpponentsInv'
  BY <1>1, OpponentsInvNext DEF Inv
<1>3. ScenesInv'
  BY <1>1, ScenesInvNext DEF Inv
<1>4. ScoresInv'
  BY <1>1, ScoresInvNext DEF Inv
<1> QED
  BY <1>2, <1>3, <1>4 DEF Inv

\* The inductive invariants of the three parts.
THEOREM Invariance == Spec => []Inv
<1>1. Init => Inv
  BY InitInv
<1>2. Inv /\ [Next]_vars => Inv'
  BY NextInv
<1> QED
  BY <1>1, <1>2, PTL DEF Spec

\* Every variable keeps its type, and what waits for the application thread belongs
\* to a scene that was loaded.
THEOREM TypeCorrect == Spec => []TypeOK
<1>1. Inv => TypeOK
  BY DEF Inv, OpponentsInv, ScenesInv, ScoresInv, TypeOK
<1> QED
  BY <1>1, Invariance, PTL

\* Whatever the interleaving of the socket thread and the application thread, the
\* panel shows the scores once no rebuild is left, unless they came before the
\* scene's listener (receiveMessage, SCORES, and buildSideTopVBox).
THEOREM PanelIsCurrent == Spec => []PanelFollowsScores
<1>1. Inv => PanelFollowsScores
  BY DEF Inv, OpponentsInv, LastShown, PanelFollowsScores, O!PanelFollowsScores
<1> QED
  BY <1>1, Invariance, PTL

\* With one opponent, whatever the scores and their order, the first board is the
\* last that opponent sent (receiveMessage, BOARD).
THEOREM BoardIsLatest == Spec => []OnlyOpponentShown
<1>1. Inv => OnlyOpponentShown
  BY DEF Inv, OpponentsInv, OnlyOpponentShown
<1> QED
  BY <1>1, Invariance, PTL

\* For any number of opponents, a BOARD leaves above the boards the names of the best
\* others, best first, and the board it brought under the name of a sender who is
\* among them (receiveMessage, BOARD, and updateRunnerUpBoards).
THEOREM RunnersUpRanked == Spec => RunnersUpShown
<1>1. Inv /\ [Next]_vars => [O!BoardHandled]_vars
  <2> SUFFICES ASSUME Inv, [Next]_vars
               PROVE  O!BoardHandled
    OBVIOUS
  <2> QED
    BY StepOfEach, OpponentsBoardHandled DEF Inv
<1> QED
  BY <1>1, Invariance, PTL DEF Spec, RunnersUpShown

\* However many scenes are loaded: until a runnable of a scene already left is run, no
\* scene is initialised twice, only the lobby shown polls, and only the game shown has
\* a Timer, and only one (loadScene, LobbyScene, ChallengeScene).
THEOREM ScenesInOrder == Spec => []OrderlyScenes
<1>1. Inv => OrderlyScenes
  BY DEF Inv, ScenesInv, OrderlyScenes
<1> QED
  BY <1>1, Invariance, PTL

\* Over any number of games, clicks and restarts each score is on file as often as it
\* was there and was submitted, unless the program was killed while writing
\* (loadScores, writeScores).
THEOREM ScoresStay == Spec => []FileKeepsScores
<1>1. Inv => FileKeepsScores
  BY DEF Inv, ScoresInv, ScoresKept, Kept, FileKeepsScores, S!FileKeepsScores
<1> QED
  BY <1>1, Invariance, PTL

\* The first line of a file that was sorted is the best score on it, even of a file
\* whose writing was cut short (getHighScore, writeScores).
THEOREM FirstLineBest == Spec => []HighScoreFirst
<1>1. Inv => HighScoreFirst
  BY DEF Inv, ScoresInv, BestFirst, HighScoreFirst, S!HighScoreFirst
<1> QED
  BY <1>1, Invariance, PTL
===============================================================================
