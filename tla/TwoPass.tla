------------------------------- MODULE TwoPass -------------------------------
(* The two offline passes of module/TwoPassMngr.cpp: the first one logs the     *)
(* size of every picture and the share of it that was intra coded, the second   *)
(* one reads the log in sequences, marks the scene changes and plans the        *)
(* buffer level; and what LookAheadMngr says of the same pictures from its       *)
(* window.  The five crops and the complexity of a window of ten pictures or     *)
(* more are left out.                                                            *)
EXTENDS Integers, Sequences, SequencesExt, FiniteSets, FiniteSetsExt

CONSTANTS
  Pictures,          \* what the first pass may say of a picture: [size, intra]
  Channels,          \* the rate controls: [gop, cpb, ird, rate]
  SEQUENCE_SIZE_MAX, \* pictures kept before they are logged, and read at once
  NoControl,         \* no rate control yet
  LookAheadSizes,    \* sizes of the look-ahead
  MaxPictures,       \* bound: pictures of a pass
  MaxRestarts        \* bound: restarts of the module

PicturesAssumption == Pictures \subseteq [size : Nat \ {0}, intra : 0 .. 100]
ChannelsAssumption ==
  Channels \subseteq {c \in [gop : Nat, cpb : Nat, ird : Nat, rate : Nat \ {0}] : c.ird <= c.cpb}
SizesAssumption == SEQUENCE_SIZE_MAX \in Nat \ {0} /\ LookAheadSizes \subseteq Nat

ASSUME PassAssumption == PicturesAssumption /\ ChannelsAssumption /\ SizesAssumption

VARIABLES
  channel,       \* the rate control, of the second pass; the first has no use for it
  iPass,         \* 1 or 2
  log,           \* the lines of the file; <<>> before it is opened
  opened,        \* the log is open, outputFile or inputFile by the pass
  unread,        \* how many of its lines EmptyLog has not read
  tFrames, iCurrentFrame,
  eos,           \* the end of the stream went into the encoder; nothing follows it
  seen,          \* ghost: the pictures of the first pass
  restarts,      \* ghost: restarts in either pass
  told           \* ghost: how many pictures the second pass got, and the last

passVars == <<channel, iPass, log, opened, unread, tFrames, iCurrentFrame, eos, seen, restarts, told>>

-----------------------------------------------------------------------------
(* Both managers. *)
SceneChangeDetected(prev, current) ==
  LET percent == 100 * current.intra
      ratio == IF prev.intra # 0 THEN percent \div prev.intra ELSE percent
  IN \/ current.intra >= 95 /\ ratio > 135
     \/ current.intra >= 80 /\ ratio > 200

GetIPRatio(current, next) ==
  IF next.size = 0 THEN 1000 ELSE Max({100, (1000 * current.size) \div next.size})

\* A picture that is almost all intra coded at least every other time.
HasPatternTwoFrames(frames) ==
  LET n == Len(frames)
      zeros == {i \in 2 .. n : frames[i].intra = 0}
      \* coded pictures between a zero, or the first picture, and the next zero
      gaps == {i - 1 - Max({1} \cup {j \in zeros : j < i}) : i \in zeros}
  IN n >= 5 /\ Cardinality(zeros) >= (n - 1) \div 2 /\ Max({0} \cup gaps) = 1

-----------------------------------------------------------------------------
(* LookAheadMngr: what it says of the first picture of its FIFO. *)
GetNextSceneChange(fifo) ==
  LET changes == {i \in 1 .. Len(fifo) - 1 : SceneChangeDetected(fifo[i], fifo[i + 1])}
  IN IF changes = {} THEN Len(fifo) ELSE Min(changes)

ProcessLookAheadParams(fifo) ==
  IF Len(fifo) < 2 THEN [change |-> FALSE, ratio |-> 1000]
  ELSE [change |-> SceneChangeDetected(fifo[1], fifo[2]),
        ratio |-> Min({GetIPRatio(fifo[1], fifo[2])}
                      \cup {GetIPRatio(fifo[1], fifo[i + 1]) : i \in 2 .. Min({GetNextSceneChange(fifo), 4}) - 1})]

-----------------------------------------------------------------------------
(* TwoPassMngr: the plan of a sequence.  A division truncates towards zero.    *)
Quotient(a, b) == IF a < 0 THEN -((-a) \div b) ELSE a \div b

\* Where the group of each picture begins: after a scene change, or when the
\* group of pictures is full.
GroupStart(change, gop) ==
  LET start[i \in DOMAIN change] ==
        IF i = 1 \/ change[i - 1] \/ i - start[i - 1] = gop THEN i ELSE start[i - 1]
  IN start

\* The level of the buffer after each picture, rounded picture by picture.
BufferLevels(complexity, rate) ==
  LET level[i \in 0 .. Len(complexity)] ==
        IF i = 0 THEN 0 ELSE level[i - 1] - Quotient(complexity[i], rate)
  IN level

\* slip: the highest level is held against the whole buffer.
CoefficientFromEmpty(highest, lowest, c) ==
  Min({1000} \cup (IF highest > 0 THEN {(c.cpb * 1000) \div highest} ELSE {})
             \cup (IF lowest < 0 THEN {(c.ird * 900) \div (-lowest)} ELSE {}))

\* How much the complexities are damped so that the highest level fits above the
\* initial one and the lowest below it.
Coefficient(highest, lowest, c) ==
  Min({1000} \cup (IF highest > 0 THEN {((c.cpb - c.ird) * 1000) \div highest} ELSE {})
             \cup (IF lowest < 0 THEN {(c.ird * 900) \div (-lowest)} ELSE {}))

\* Complexities relative to the mean of the groups; a target for each group, as
\* if it were a full one.
ComputeComplexity(frames, change, c) ==
  LET n == Len(frames)
      start == GroupStart(change, c.gop)
      Group(i) == {j \in 1 .. n : start[j] = start[i]}
      size == [i \in 1 .. n |-> MapThenSumSet(LAMBDA j : frames[j].size, Group(i)) \div Cardinality(Group(i))]
      starts == {i \in 1 .. n : start[i] = i}
      mean == MapThenSumSet(LAMBDA i : size[i], starts) \div Cardinality(starts)
      relative == [i \in 1 .. n |-> (size[i] * 1000) \div mean - 1000]
      levels == LET level == BufferLevels(relative, c.rate) IN {level[i] : i \in 0 .. n}
      coefficient == Coefficient(Max(levels), Min(levels), c)
      complexity == [i \in 1 .. n |-> Quotient(relative[i] * coefficient, 1000)]
      reached[i \in 1 .. n] == \* iLevel when the group of i begins
        IF i = 1 THEN c.ird
        ELSE IF start[i] # i THEN reached[i - 1]
        ELSE reached[i - 1] - Quotient(Cardinality(Group(i - 1)) * complexity[i - 1], c.rate)
  IN [i \in 1 .. n |->
        [complexity |-> complexity[i] + 1000,
         target |-> reached[i] - Quotient(c.gop * complexity[i], c.rate)]]

\* The target of such a picture is whatever the memory held.
Unplanned == [complexity |-> 0, target |-> 0]
ComputeTwoPass(frames, c) ==
  LET n == Len(frames)
      change == [i \in 1 .. n |-> i < n /\ SceneChangeDetected(frames[i], frames[i + 1])]
      \* the next pictures up to the third or to a scene change behind the next one
      Compared(i) == {k \in i + 1 .. Min({n, i + 3}) : \A j \in i + 2 .. k : ~change[j - 1]}
      ratio == [i \in 1 .. n |-> IF i = n THEN 1000
                                 ELSE Min({GetIPRatio(frames[i], frames[k]) : k \in Compared(i)})]
      plan == IF c.gop = 0 THEN [i \in 1 .. n |-> Unplanned] ELSE ComputeComplexity(frames, change, c)
      Frame(i, size, ch, r, p) == [size |-> size, intra |-> frames[i].intra, change |-> ch, ratio |-> r, plan |-> p]
  IN IF HasPatternTwoFrames(frames)
     THEN [i \in 1 .. n |-> Frame(i, IF i < n THEN 0 ELSE frames[i].size, FALSE, 1000, Unplanned)]
     ELSE [i \in 1 .. n |-> Frame(i, frames[i].size, change[i], ratio[i], plan[i])]

-----------------------------------------------------------------------------
Nobody == [n |-> 0, frame |-> Unplanned]
PassInit ==
  /\ channel = NoControl
  /\ iPass = 1 /\ log = <<>> /\ opened = FALSE /\ unread = 0
  /\ tFrames = <<>> /\ iCurrentFrame = 0 /\ eos = FALSE
  /\ seen = <<>> /\ restarts = 0 /\ told = Nobody

\* slip: what is logged is not cleared.
FillLogAgain(frames) ==
  /\ log' = (IF opened THEN log ELSE <<>>) \o frames
  /\ opened' = TRUE
  /\ tFrames' = frames

\* Opening the log empties it.
FillLog(frames) ==
  /\ log' = (IF opened THEN log ELSE <<>>) \o frames
  /\ opened' = TRUE
  /\ tFrames' = <<>>

\* EndEncoding of a picture.
AddFrame ==
  /\ iPass = 1 /\ ~eos /\ Len(seen) < MaxPictures
  /\ \E picture \in Pictures :
       /\ seen' = Append(seen, picture)
       /\ LET frames == Append(tFrames, picture)
          IN IF Len(frames) >= SEQUENCE_SIZE_MAX THEN FillLog(frames)
             ELSE tFrames' = frames /\ UNCHANGED <<log, opened>>
  /\ UNCHANGED <<channel, iPass, unread, iCurrentFrame, eos, restarts, told>>

\* EndEncoding of the end of the stream.
Flush ==
  /\ iPass = 1 /\ ~eos /\ eos' = TRUE
  /\ FillLog(tFrames)
  /\ UNCHANGED <<channel, iPass, unread, iCurrentFrame, seen, restarts, told>>

\* CreateEncoder makes a new manager; what the old one had not logged is gone,
\* and what it had not read is read again with the rest.
Restart ==
  /\ restarts < MaxRestarts /\ restarts' = restarts + 1
  /\ seen # <<>>
  /\ tFrames' = <<>> /\ iCurrentFrame' = 0 /\ opened' = FALSE
  /\ unread' = IF iPass = 2 THEN Len(log) ELSE unread
  /\ eos' = (iPass = 2 /\ eos)
  /\ UNCHANGED <<channel, iPass, log, seen, told>>

\* The second pass, in another run of the program.
SecondPass ==
  /\ iPass = 1 /\ iPass' = 2 /\ channel' \in Channels
  /\ unread' = Len(log)
  /\ tFrames' = <<>> /\ opened' = FALSE
  /\ UNCHANGED <<log, iCurrentFrame, eos, seen, restarts, told>>

\* Empty of a picture.  Without a log, or with an empty one, std::runtime_error
\* leaves the worker; nothing is modelled after it.
GetFrame ==
  /\ iPass = 2
  /\ LET empty == iCurrentFrame >= Len(tFrames)
         count == Min({unread, SEQUENCE_SIZE_MAX})
         from == Len(log) - unread
         frames == IF empty THEN ComputeTwoPass(SubSeq(log, from + 1, from + count), channel) ELSE tFrames
         current == IF empty THEN 0 ELSE iCurrentFrame
     IN /\ frames # <<>>
        /\ opened' = TRUE
        /\ unread' = IF empty THEN unread - count ELSE unread
        /\ tFrames' = frames
        /\ iCurrentFrame' = current + 1
        /\ told' = [n |-> told.n + 1, frame |-> frames[current + 1]]
  /\ UNCHANGED <<channel, iPass, log, eos, seen, restarts>>

PassNext == AddFrame \/ Flush \/ Restart \/ SecondPass \/ GetFrame
PassSpec == PassInit /\ [][PassNext]_passVars

-----------------------------------------------------------------------------
Planned == iPass = 2 /\ tFrames # <<>> /\ ~HasPatternTwoFrames(tFrames)

\* The nth picture of the second pass is told what the first pass saw of the nth
\* picture, and its size unless a pattern hides it; a restart breaks the count.
InStep ==
  iPass = 2 /\ restarts = 0 /\ told.n > 0 =>
    /\ told.n <= Len(seen)
    /\ told.frame.intra = seen[told.n].intra
    /\ told.frame.size \in {0, seen[told.n].size}

\* If every picture is as complex as planned, the buffer neither runs dry nor
\* overflows, but for a unit a picture that the divisions lose.
LevelFits ==
  Planned /\ channel.gop > 0 =>
    \A k \in 1 .. Len(tFrames) :
      LET spent == MapThenSumSet(LAMBDA i : tFrames[i].plan.complexity - 1000, 1 .. k)
      IN /\ spent <= (channel.ird + k) * channel.rate
         /\ -spent <= (channel.cpb - channel.ird + k) * channel.rate

\* A look-ahead of four pictures or more says of a picture what the log says,
\* except for one before a scene change, where the log's ratio looks beyond it,
\* and a shorter one still finds every scene change.
LookAheadAgrees ==
  Planned =>
    \A i \in 1 .. Len(tFrames), w \in LookAheadSizes :
      LET said == ProcessLookAheadParams(SubSeq(tFrames, i, Min({Len(tFrames), i + w - 1})))
      IN /\ w > 1 => said.change = tFrames[i].change
         /\ w >= 4 /\ ~said.change => said.ratio = tFrames[i].ratio

(* The second pass is guided by what the first pass saw of the same pictures,   *)
(* within the buffer it has, and as a look-ahead would guide it                 *)
(* (TwoPassMngr.cpp:183-268, 271-389, 468-523).                                 *)
GuidedByFirstPass == InStep /\ LevelFits /\ LookAheadAgrees
=============================================================================
