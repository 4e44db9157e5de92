----------------------------- MODULE DecComponent -----------------------------
(***************************************************************************)
(* How the decoder component gives a picture the time stamp of the buffers    *)
(* it was decoded from, in base/omx_component/omx_component_dec.cpp, when the  *)
(* module parses the input itself: the worker of the input FIFO pushes what    *)
(* it takes for the first buffer of a frame on `transmit', and each decoded    *)
(* picture takes the front.  A frame comes in one buffer or in two, of one     *)
(* time stamp, the last with OMX_BUFFERFLAG_ENDOFFRAME.                        *)
(***************************************************************************)
EXTENDS Integers, Sequences

CONSTANTS Stamps,     \* time stamps the client uses
          MaxFrames,  \* bound: frames sent
          MaxResets   \* bound: flushes, stops and streams that end

ASSUME StampsAssumption == Stamps \subseteq Nat
ASSUME FramesAssumption == MaxFrames \in Nat /\ MaxResets \in Nat

VARIABLES
  transmit,             \* [frame, eos] of each frame whose data is to be given
  oldTimeStamp, dataHasBeenPropagated,
  half,                 \* the frame whose first buffer has come, 0 for none
  lastStamp,            \* history: of the frame sent last
  toDecode,             \* frames complete in the module, oldest first
  ended,                \* the client has sent its end of stream
  flushing,             \* FlushComponent is done, the restart is to come
  picture,              \* history: the last picture: [frame, data, flushing]
  clean,                \* history: see OwnTimeStamp
  frames, resets

stampControl == <<oldTimeStamp, dataHasBeenPropagated>>
stampVars == <<transmit, stampControl, half, lastStamp, toDecode, ended, flushing, picture, clean, frames, resets>>

StampsInit ==
  /\ transmit = <<>> /\ oldTimeStamp = -1 /\ dataHasBeenPropagated = FALSE
  /\ half = 0 /\ lastStamp = -1 /\ toDecode = <<>>
  /\ ended = FALSE /\ flushing = FALSE
  /\ picture = [frame |-> 0, data |-> 0, flushing |-> FALSE]
  /\ clean = TRUE /\ frames = 0 /\ resets = 0

-----------------------------------------------------------------------------
\* what TreatEmptyBufferCommand() does with the time stamp of a buffer: a new
\* one is pushed, and so is an old one that ends a frame nothing was pushed for
Transmit(n, stamp, endOfFrame, eos) ==
  LET push == transmit' = Append(transmit, [frame |-> n, eos |-> eos])
  IN \/ /\ oldTimeStamp # stamp
        /\ push
        /\ oldTimeStamp' = stamp /\ dataHasBeenPropagated' = TRUE
     \/ /\ oldTimeStamp = stamp /\ endOfFrame
        /\ IF dataHasBeenPropagated THEN UNCHANGED transmit ELSE push
        /\ dataHasBeenPropagated' = FALSE
        /\ UNCHANGED oldTimeStamp
     \/ /\ oldTimeStamp = stamp /\ ~endOfFrame
        /\ UNCHANGED <<transmit, stampControl>>

\* the worker treats a frame that came in one buffer
WholeFrame(stamp, eos) ==
  /\ ~ended /\ half = 0 /\ frames < MaxFrames
  /\ frames' = frames + 1
  /\ Transmit(frames + 1, stamp, TRUE, eos)
  /\ toDecode' = Append(toDecode, frames + 1)
  /\ ended' = eos
  /\ lastStamp' = stamp /\ clean' = (clean /\ stamp # lastStamp)
  /\ UNCHANGED <<half, flushing, picture, resets>>

\* it treats the first buffer of a frame
FirstHalf(stamp) ==
  /\ ~ended /\ half = 0 /\ frames < MaxFrames
  /\ frames' = frames + 1
  /\ Transmit(frames + 1, stamp, FALSE, FALSE)
  /\ half' = frames + 1
  /\ lastStamp' = stamp /\ clean' = (clean /\ stamp # lastStamp)
  /\ UNCHANGED <<toDecode, ended, flushing, picture, resets>>

\* and the last
LastHalf(eos) ==
  /\ half # 0
  /\ Transmit(half, lastStamp, TRUE, eos)
  /\ toDecode' = Append(toDecode, half)
  /\ half' = 0
  /\ ended' = eos
  /\ UNCHANGED <<lastStamp, flushing, picture, clean, frames, resets>>

\* an empty buffer with the end of the stream: transmit is left alone
EmptyEndOfStream ==
  /\ ~ended /\ half = 0
  /\ ended' = TRUE
  /\ UNCHANGED <<transmit, stampControl, half, lastStamp, toDecode, flushing, picture, clean, frames, resets>>

\* everything is shown, the client begins another stream
NextStream ==
  /\ ended /\ toDecode = <<>>
  /\ ended' = FALSE
  /\ UNCHANGED <<transmit, stampControl, half, lastStamp, toDecode, flushing, picture, clean, frames, resets>>

-----------------------------------------------------------------------------
\* AssociateCallBack(nullptr, fill), called for each decoded picture
AssociateCallBack ==
  /\ toDecode # <<>>
  /\ toDecode' = Tail(toDecode)
  /\ IF transmit = <<>>
     THEN /\ picture' = [frame |-> Head(toDecode), data |-> 0, flushing |-> flushing]
          /\ UNCHANGED <<transmit, stampControl>>
     ELSE /\ picture' = [frame |-> Head(toDecode), data |-> Head(transmit).frame, flushing |-> flushing]
          /\ IF Head(transmit).eos
             THEN transmit' = <<>> /\ oldTimeStamp' = -1 /\ dataHasBeenPropagated' = FALSE
             ELSE transmit' = Tail(transmit) /\ UNCHANGED stampControl
  /\ UNCHANGED <<half, lastStamp, ended, flushing, clean, frames, resets>>

\* the decoder shows nothing of a frame it cannot decode
Lose ==
  /\ toDecode # <<>>
  /\ toDecode' = Tail(toDecode)
  /\ clean' = FALSE
  /\ UNCHANGED <<transmit, stampControl, half, lastStamp, ended, flushing, picture, frames, resets>>

\* slip: the time stamps stay
FlushComponentKeeping ==
  /\ ~flushing /\ resets < MaxResets
  /\ oldTimeStamp' = -1 /\ dataHasBeenPropagated' = FALSE
  /\ half' = 0 /\ lastStamp' = -1
  /\ flushing' = TRUE
  /\ UNCHANGED <<transmit, toDecode, ended, picture, clean, frames, resets>>

\* FlushComponent(), the FIFOs flushed
FlushComponent ==
  /\ ~flushing /\ resets < MaxResets
  /\ transmit' = <<>> /\ oldTimeStamp' = -1 /\ dataHasBeenPropagated' = FALSE
  /\ half' = 0 /\ lastStamp' = -1
  /\ flushing' = TRUE
  /\ UNCHANGED <<toDecode, ended, picture, clean, frames, resets>>

\* TreatFlushCommand(): the module is restarted
TreatFlushCommand ==
  /\ flushing
  /\ flushing' = FALSE /\ resets' = resets + 1
  /\ toDecode' = <<>> /\ ended' = FALSE
  /\ clean' = TRUE /\ picture' = [frame |-> 0, data |-> 0, flushing |-> FALSE]
  /\ UNCHANGED <<transmit, stampControl, half, lastStamp, frames>>

\* the way to Idle, and the DisablePort that restarts the module, do not call
\* FlushComponent: what the module had not shown stays in transmit
StopWithoutFlush ==
  /\ ~flushing /\ resets < MaxResets
  /\ resets' = resets + 1
  /\ toDecode' = <<>> /\ half' = 0 /\ ended' = FALSE
  /\ clean' = (clean /\ transmit = <<>>)
  /\ UNCHANGED <<transmit, stampControl, lastStamp, flushing, picture, frames>>

StampsNext ==
  \/ /\ ~flushing
     /\ \/ \E stamp \in Stamps : FirstHalf(stamp) \/ \E eos \in BOOLEAN : WholeFrame(stamp, eos)
        \/ \E eos \in BOOLEAN : LastHalf(eos)
        \/ EmptyEndOfStream \/ NextStream
  \/ AssociateCallBack \/ Lose
  \/ FlushComponent \/ TreatFlushCommand \/ StopWithoutFlush

StampsSpec == StampsInit /\ [][StampsNext]_stampVars

-----------------------------------------------------------------------------
StampsTypeOK ==
  /\ \A i \in DOMAIN transmit : transmit[i].frame \in 1..MaxFrames
  /\ oldTimeStamp \in Stamps \cup {-1} /\ dataHasBeenPropagated \in BOOLEAN
  /\ half \in 0..MaxFrames /\ toDecode \in Seq(1..MaxFrames)

(* A picture gets the time stamp and the tick count of its own frame, or none *)
(* while a flush is under way; as long as neighbouring frames have different   *)
(* time stamps, the decoder shows a picture for each frame, and the module is   *)
(* stopped, other than by a flush, only with nothing on its way                *)
(* (omx_component_dec.cpp:39-47, 53-79, 318-341).                              *)
OwnTimeStamp ==
  clean => \/ picture.data = picture.frame
           \/ picture.flushing /\ picture.data = 0
=============================================================================
