----------------------------- MODULE EncoderApp -----------------------------
(***************************************************************************)
(* The encoder application: its main thread, and the callbacks on the      *)
(* threads of the component, which go on reading the video and writing the *)
(* stream.                                                                 *)
(***************************************************************************)
EXTENDS ServedComponent

CONSTANTS
  Videos \* [frames, max]: what the file has, and --max-frames or 0

VARIABLES
  video, framesRead,
  main,       \* where safeMain is
  encoderEventState, encoderEventSem, eof, \* the semaphores
  isEOS, isFlushing, \* of the ports
  refilling   \* onOutputBufferAvailable is about to call FillThisBuffer

appVars == <<video, framesRead, main, encoderEventState, encoderEventSem, eof, isEOS, isFlushing, refilling>>
vars == <<componentVars, appVars>>

(***************************************************************************)
(* Callbacks.                                                              *)
(***************************************************************************)
\* onComponentEvent, for the command that ends
Event(c) ==
  /\ encoderEventState' = encoderEventState + (IF c.cmd = "StateSet" THEN 1 ELSE 0)
  /\ encoderEventSem' = encoderEventSem + (IF c.cmd = "StateSet" THEN 0 ELSE 1)

Complete ==
  /\ treating # None /\ End(treating) /\ Event(treating)
  /\ UNCHANGED <<video, framesRead, main, eof, isEOS, isFlushing, refilling>>

\* Read: the next frame.  The end of the stream is a buffer without a frame
\* or, with --max-frames, the flag on the last frame.
Read ==
  LET found == framesRead < video.frames
      count == framesRead + (IF found THEN 1 ELSE 0)
      last == ~found \/ count = video.max
  IN /\ framesRead' = count
     /\ isEOS' = IF last THEN isEOS \cup {"input"} ELSE isEOS

Frame == (IF framesRead < video.frames THEN <<"frame">> ELSE <<>>)
         \o (IF "input" \in isEOS' THEN <<"eos">> ELSE <<>>)

onInputBufferAvailable ==
  /\ returning["input"] # <<>>
  /\ IF "input" \in isEOS \cup isFlushing THEN UNCHANGED <<framesRead, isEOS, commands>>
     ELSE Read /\ Submit("input", <<Buffer(Head(returning["input"]).buffer, Frame)>>)
  /\ Returned("input")
  /\ UNCHANGED <<state, treating, enabled, allocated, inside, coding, video, main, encoderEventState,
                 encoderEventSem, eof, isFlushing, refilling>>

\* the stream is written; its end wakes the main thread before the buffer is
\* given to the component again
onOutputBufferAvailable ==
  /\ returning["output"] # <<>> /\ ~refilling
  /\ LET b == Head(returning["output"])
         skipped == "output" \in isEOS \cup isFlushing
         ends == ~skipped /\ b.what = "eos"
     IN /\ eof' = eof + (IF ends THEN 1 ELSE 0)
        /\ isEOS' = IF ends THEN isEOS \cup {"output"} ELSE isEOS
        /\ refilling' = ~skipped
        /\ IF skipped THEN Returned("output") ELSE UNCHANGED returning
  /\ UNCHANGED <<state, commands, treating, enabled, allocated, inside, coding, video, framesRead, main,
                 encoderEventState, encoderEventSem, isFlushing>>

\* slip: a buffer that was written is not given back
RefillNothing ==
  /\ refilling /\ refilling' = FALSE /\ Returned("output")
  /\ UNCHANGED <<state, commands, treating, enabled, allocated, inside, coding, video, framesRead, main,
                 encoderEventState, encoderEventSem, eof, isEOS, isFlushing>>

Refill ==
  /\ refilling /\ refilling' = FALSE
  /\ Submit("output", <<Buffer(Head(returning["output"]).buffer, <<>>)>>)
  /\ Returned("output")
  /\ UNCHANGED <<state, treating, enabled, allocated, inside, coding, video, framesRead, main,
                 encoderEventState, encoderEventSem, eof, isEOS, isFlushing>>

(***************************************************************************)
(* safeMain.                                                               *)
(***************************************************************************)
Goto(from, to) == main = from /\ main' = to

Send(from, c, to) ==
  /\ Goto(from, to) /\ SendCommand(c)
  /\ isFlushing' = IF c.cmd = "Flush" THEN isFlushing \cup {c.arg} ELSE isFlushing
  /\ UNCHANGED <<state, treating, enabled, allocated, inside, returning, coding, video, framesRead,
                 encoderEventState, encoderEventSem, eof, isEOS, refilling>>

WaitState(from, to) ==
  /\ Goto(from, to) /\ encoderEventState > 0 /\ encoderEventState' = encoderEventState - 1
  /\ UNCHANGED <<componentVars, video, framesRead, encoderEventSem, eof, isEOS, isFlushing, refilling>>

WaitFlush(from, p, to) ==
  /\ Goto(from, to) /\ encoderEventSem > 0 /\ encoderEventSem' = encoderEventSem - 1
  /\ isFlushing' = isFlushing \ {p}
  /\ UNCHANGED <<componentVars, video, framesRead, encoderEventState, eof, isEOS, refilling>>

UseBuffersOf(from, p, to) ==
  /\ Goto(from, to) /\ UseBuffers(p)
  /\ UNCHANGED <<state, commands, treating, enabled, inside, returning, coding, video, framesRead,
                 encoderEventState, encoderEventSem, eof, isEOS, isFlushing, refilling>>

FreeBuffersOf(from, p, to) ==
  /\ Goto(from, to) /\ FreeBuffers(p, Buffers[p])
  /\ UNCHANGED <<state, commands, treating, enabled, inside, returning, coding, video, framesRead,
                 encoderEventState, encoderEventSem, eof, isEOS, isFlushing, refilling>>

\* FillThisBuffer for every output buffer
FillAll(from, to) ==
  /\ Goto(from, to)
  /\ Submit("output", SetToSeq({Buffer(b, <<>>) : b \in Buffers["output"]}))
  /\ UNCHANGED <<state, treating, enabled, allocated, inside, returning, coding, video, framesRead,
                 encoderEventState, encoderEventSem, eof, isEOS, isFlushing, refilling>>

\* one input buffer is enough: its callback reads the next frame into it
ReadFirst(from, to) ==
  /\ Goto(from, to) /\ Read
  /\ \E b \in Buffers["input"] : Submit("input", <<Buffer(b, Frame)>>)
  /\ UNCHANGED <<state, treating, enabled, allocated, inside, returning, coding, video,
                 encoderEventState, encoderEventSem, eof, isFlushing, refilling>>

WaitEof(from, to) ==
  /\ Goto(from, to) /\ eof > 0 /\ eof' = eof - 1
  /\ UNCHANGED <<componentVars, video, framesRead, encoderEventState, encoderEventSem, isEOS, isFlushing, refilling>>

safeMain ==
  \/ Send("start", State("Idle"), "use input") \/ UseBuffersOf("use input", "input", "use output")
  \/ UseBuffersOf("use output", "output", "wait idle") \/ WaitState("wait idle", "execute")
  \/ Send("execute", State("Executing"), "wait executing") \/ WaitState("wait executing", "fill")
  \/ FillAll("fill", "read") \/ ReadFirst("read", "eof") \/ WaitEof("eof", "flush input")
  \/ Send("flush input", Flush("input"), "wait input") \/ WaitFlush("wait input", "input", "flush output")
  \/ Send("flush output", Flush("output"), "wait output") \/ WaitFlush("wait output", "output", "stop")
  \/ Send("stop", State("Idle"), "wait stop") \/ WaitState("wait stop", "unload")
  \/ Send("unload", State("Loaded"), "free input") \/ FreeBuffersOf("free input", "input", "free output")
  \/ FreeBuffersOf("free output", "output", "wait loaded") \/ WaitState("wait loaded", "end")

\* the threads of the component
Scheduler    == (TakeBuffers \/ Begin) /\ UNCHANGED appVars
InputWorker  == Consume /\ UNCHANGED appVars
OutputWorker == Produce /\ UNCHANGED appVars

Init ==
  /\ InitComponent
  /\ video \in Videos /\ framesRead = 0 /\ main = "start"
  /\ encoderEventState = 0 /\ encoderEventSem = 0 /\ eof = 0
  /\ isEOS = {} /\ isFlushing = {} /\ refilling = FALSE

Next ==
  \/ Scheduler \/ InputWorker \/ OutputWorker \/ Complete
  \/ onInputBufferAvailable \/ onOutputBufferAvailable \/ Refill
  \/ safeMain

\* the threads, each for itself
Fairness ==
  /\ WF_vars(Scheduler) /\ WF_vars(InputWorker) /\ WF_vars(OutputWorker) /\ WF_vars(Complete)
  /\ WF_vars(onInputBufferAvailable) /\ WF_vars(onOutputBufferAvailable) /\ WF_vars(Refill)
  /\ WF_vars(safeMain)
Spec == Init /\ [][Next]_vars /\ Fairness

Ended == main = "end" /\ state = "Loaded" /\ \A p \in Ports : allocated[p] = {}
=============================================================================
