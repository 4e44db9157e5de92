----------------------------- MODULE EncCommands -----------------------------
(***************************************************************************)
(* The command file of the encoder application: CEncCmdMngr reads it some  *)
(* frames ahead, CommandsSender turns each command into a SetConfig of the *)
(* component, one by one, before the frame itself is submitted.            *)
(*                                                                         *)
(* A line is a frame with its commands, a function from their names to     *)
(* their values.  The file is ordered by frames; one frame may have        *)
(* several lines.                                                          *)
(***************************************************************************)
EXTENDS DynamicConfig, FiniteSets, TLC

CONSTANTS
  Files,     \* the command files
  Blank,     \* a line of nothing but separators
  LookAhead, \* m_iLookAhead
  FreqLT,    \* m_uFreqLT
  InFlight,  \* frames the application submits before one is back
  MaxFrames  \* frames of the video

VARIABLES
  created, \* the settings the encoder was created with
  file,    \* the whole command file
  lines,   \* what is left of it, m_sBufferedLine in front
  cmds,    \* m_Cmds
  hasLT,   \* m_bHasLT
  frame,   \* frameCount of Read
  sending, \* calls of the CommandsSender that Process still makes
  phase    \* "read", "send", "aborted"

commandVars == <<created, file, lines, cmds, hasLT, frame, sending, phase>>
vars == <<configVars, commandVars>>

LinesAssumption ==
  \A f \in Files : \A i, j \in DOMAIN f :
    i < j /\ f[i] # Blank /\ f[j] # Blank => f[i].frame <= f[j].frame

(***************************************************************************)
(* CEncCmdMngr.                                                            *)
(***************************************************************************)
\* one command per flag of TFrmCmd, in the order Process sends them
Order ==
  <<"UseLT", "LT", "Skip", "SAO", "KF", "RP", "GopLen", "NumB", "FreqIDR", "Fps", "BR", "BR.MaxBR",
    "QPBounds", "QPBounds.I", "QPBounds.P", "QPBounds.B", "IPDelta", "PBDelta", "QP", "QPOffset", "Input",
    "LF.BetaOffset", "LF.TcOffset", "CostMode", "MaxPictureSize", "MaxPictureSize.I", "MaxPictureSize.P",
    "MaxPictureSize.B", "QPChromaOffsets", "AutoQP", "AutoQPValues", "HDRIndex">>

\* A rate of thousandths of frames: the whole rate above it, and how much
\* longer a thousand of its pictures are.
Fps(value) ==
  LET whole == value \div 1000
      frac == value % 1000
  IN IF frac = 0 THEN [rate |-> whole, ratio |-> 1000]
     ELSE [rate |-> whole + 1, ratio |-> 1000 + (1000 - frac) \div (whole + 1)]

ParseCmd(line, what) ==
  IF line = Blank THEN what
  ELSE [c \in DOMAIN line.what |-> IF c = "Fps" THEN Fps(line.what[c])
                                   ELSE IF c = "BR" THEN 1000 * line.what[c] ELSE line.what[c]] @@ what

\* Lines of one frame are one command, later values replacing earlier ones.
\* The line that ends it is kept for the next time; a blank line at the
\* beginning ends it too, and is kept, every time.
ReadNextCmd(ls) ==
  LET same == {n \in 0 .. Len(ls) :
                 \A i \in 1 .. n : IF ls[i] = Blank THEN i > 1 ELSE ls[i].frame = ls[1].frame}
      n == CHOOSE m \in same : \A k \in same : k <= m
  IN [found |-> n > 0, rest |-> SubSeq(ls, n + 1, Len(ls)),
      cmd |-> [frame |-> IF n > 0 THEN ls[1].frame ELSE 0,
               what |-> FoldLeft(LAMBDA what, line : ParseCmd(line, what), <<>>, SubSeq(ls, 1, n))]]

\* ParseCmd throws; nothing catches it
NullBitrate(cmd) == "BR" \in DOMAIN cmd.what /\ cmd.what["BR"] = 0

\* slip: the commands of frame f are forgotten too
KeptBeyond(f, now) == SelectSeq(now, LAMBDA c : c.frame > f)

Kept(f, now) == SelectSeq(now, LAMBDA c : c.frame >= f)

\* Forget the commands of the frames before f, read ahead: at most LookAhead
\* commands, up to the first one LookAhead frames away.
Refill(f, now, ls) ==
  LET read[n \in 0 .. LookAhead] ==
        IF n = 0 THEN [cmds |-> Kept(f, now), lines |-> ls]
        ELSE LET so == read[n - 1]
                 next == ReadNextCmd(so.lines)
                 wanted == /\ Len(so.cmds) < LookAhead
                           /\ so.cmds = <<>> \/ Last(so.cmds).frame < f + LookAhead
             IN IF wanted /\ next.found THEN [cmds |-> Append(so.cmds, next.cmd), lines |-> next.rest] ELSE so
  IN read[LookAhead]

Init ==
  /\ InitConfig
  /\ created = media /\ file \in Files /\ hasLT = FALSE /\ frame = 0 /\ sending = <<>>
  /\ LET first == Refill(0, <<>>, file)
     IN cmds = first.cmds /\ lines = first.lines
  /\ phase = IF \E c \in Range(cmds) : NullBitrate(c) THEN "aborted" ELSE "read"

Command(c, value) == [name |-> c, value |-> value]

\* the commands of a frame, in the order Process tests their flags
OnTime(what) ==
  LET sent == SelectSeq(Order, LAMBDA c : /\ c \in DOMAIN what
                                          /\ c = "UseLT" => FreqLT # 0 \/ hasLT)
  IN [i \in DOMAIN sent |-> Command(sent[i], what[sent[i]])]

\* Process, for the frame just read: the scene change LookAhead frames away,
\* the commands of this frame, and the refill that follows either.
Process ==
  LET ahead == cmds # <<>> /\ frame + LookAhead = Last(cmds).frame
      now   == cmds # <<>> /\ frame = Head(cmds).frame
      next  == IF ahead \/ now THEN Refill(frame + 1, cmds, lines) ELSE [cmds |-> cmds, lines |-> lines]
  IN /\ phase = "read" /\ frame < MaxFrames
     /\ Cardinality({i \in DOMAIN fifo : IsPicture(fifo[i])}) < InFlight
     /\ sending' = (IF ahead /\ "SC" \in DOMAIN Last(cmds).what THEN <<Command("SC", LookAhead)>> ELSE <<>>)
                   \o (IF now THEN OnTime(Head(cmds).what) ELSE <<>>)
     /\ hasLT' = (hasLT \/ (now /\ "LT" \in DOMAIN Head(cmds).what))
     /\ cmds' = next.cmds /\ lines' = next.lines
     /\ phase' = "send"
     /\ UNCHANGED <<configVars, created, file, frame>>

(***************************************************************************)
(* CommandsSender.  What it does not support it asserts never to be asked  *)
(* for.  A group of pictures is read, changed and written back whole.      *)
(***************************************************************************)
OneShot == [SC |-> "NOTIFY_SCENE_CHANGE", LT |-> "IS_LONG_TERM", UseLT |-> "USE_LONG_TERM", KF |-> "INSERT_IDR"]

GopOf(length, numB) ==
  [nB |-> (numB * length) \div (1 + numB), nP |-> IF length > numB THEN (length - 1 - numB) \div (numB + 1) ELSE 0]

NumB == LET gop == GetConfig("GOP") IN gop.nB \div (gop.nP + 1)
Length == LET gop == GetConfig("GOP") IN gop.nP + gop.nB + 1

Call(index, value) == [index |-> index, value |-> value]

\* the call of SetConfig a command makes, none of what is not supported
Sends(c) ==
  CASE c.name \in DOMAIN OneShot -> Call(OneShot[c.name], c.value)
    [] c.name = "GopLen" /\ c.value > NumB -> Call("GOP", GopOf(c.value, NumB))
    [] c.name = "NumB" -> Call("GOP", GopOf(Length, c.value))
    [] c.name = "Fps"  -> Call("CLOCK", CeilDiv(c.value.rate * 1000 * Q16, c.value.ratio))
    [] c.name = "BR"   -> Call("BITRATE", c.value \div 1000)
    [] OTHER -> None

Send ==
  /\ phase = "send" /\ sending # <<>>
  /\ Sends(Head(sending)) # None /\ SetConfig(Sends(Head(sending)).index, Sends(Head(sending)).value)
  /\ sending' = Tail(sending)
  /\ UNCHANGED <<media, library, notified, encoded, created, file, lines, cmds, hasLT, frame, phase>>

\* a command that is not supported or a group shorter than its B frames fails
\* an assertion; a command read ahead that makes no sense throws
Abort ==
  /\ phase = "send"
  /\ IF sending # <<>> THEN Sends(Head(sending)) = None ELSE \E c \in Range(cmds) : NullBitrate(c)
  /\ phase' = "aborted"
  /\ UNCHANGED <<configVars, created, file, lines, cmds, hasLT, frame, sending>>

\* the frame follows its commands into the FIFO
SubmitFrame ==
  /\ phase = "send" /\ sending = <<>> /\ ~\E c \in Range(cmds) : NullBitrate(c)
  /\ EmptyThisBuffer(frame)
  /\ frame' = frame + 1 /\ phase' = "read"
  /\ UNCHANGED <<media, library, notified, encoded, created, file, lines, cmds, hasLT, sending>>

Treat == (TreatCommand \/ TreatPicture) /\ phase # "aborted" /\ UNCHANGED commandVars

Next == Process \/ Send \/ Abort \/ SubmitFrame \/ Treat
Spec == Init /\ [][Next]_vars

(***************************************************************************)
(* What a picture should be encoded with.                                  *)
(***************************************************************************)
\* what the file asks for in frame f
AskedAt(f) ==
  FoldLeft(LAMBDA what, line : IF line # Blank /\ line.frame = f THEN line.what @@ what ELSE what, <<>>, file)

\* the last value asked for up to frame f, or the one the encoder began with
LastAsked(c, f, first) ==
  LET asked == {g \in 0 .. f : c \in DOMAIN AskedAt(g)}
  IN IF asked = {} THEN first ELSE AskedAt(CHOOSE g \in asked : \A h \in asked : h <= g)[c]

\* A command on the group of pictures reads the group as it is, before those
\* still queued are treated: one of the same frame, or of a frame that may wait
\* in the FIFO, is undone.
AsksGroup(f) == {"GopLen", "NumB"} \cap DOMAIN AskedAt(f)
GroupsApart ==
  \A f, g \in 0 .. MaxFrames - 1 :
    AsksGroup(f) # {} /\ AsksGroup(g) # {} =>
      IF f = g THEN Cardinality(AsksGroup(f)) = 1 ELSE f - g \notin 1 - InFlight .. InFlight - 1

\* Each picture is encoded with exactly the commands the file has for its
\* frame and with the last values asked for before: nothing comes late, is
\* lost, or is sent twice, however slowly the worker follows.  A scene change
\* is announced LookAhead frames early or not at all (the commands in between
\* may leave no room for it).  The group of pictures is as asked if the commands
\* on it are so far apart that none is read over another; one whose length is not
\* a multiple of its B frames and one comes out a picture shorter (GopOf), and the
\* files ask for none.  Files that begin with a blank line are not read.
AppliedWhereAsked ==
  file # <<>> /\ file[1] # Blank =>
    \A i \in DOMAIN encoded :
      LET f == i - 1
          p == encoded[i]
          first == created
          told == {p.notified[k] : k \in DOMAIN p.notified}
      IN /\ Len(p.notified) = Cardinality(told)
         /\ {c \in {"LT", "UseLT", "KF"} : \E n \in told : n[1] = OneShot[c]}
              = {"LT", "UseLT", "KF"} \cap DOMAIN AskedAt(f)
         /\ (\E n \in told : n[1] = OneShot["SC"]) => "SC" \in DOMAIN AskedAt(f + LookAhead)
         /\ p.settings.BITRATE = 1000 * LastAsked("BR", f, first.BITRATE.target)
         /\ p.settings.CLOCK = LET fps == LastAsked("Fps", f, None)
                               IN IF fps = None THEN first.CLOCK
                                  ELSE [framerate |-> Fps(fps).rate, clockratio |-> Fps(fps).ratio]
         /\ GroupsApart =>
              p.settings.GOP = [b |-> LastAsked("NumB", f, first.GOP.b),
                                length |-> LastAsked("GopLen", f, first.GOP.length)]
=============================================================================
