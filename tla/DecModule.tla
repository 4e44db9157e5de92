------------------------------ MODULE DecModule ------------------------------
(***************************************************************************)
(* module/module_dec.cpp: what stands between the decoder component and the *)
(* control software's decoder.  `handles' maps a library buffer to the      *)
(* component's handle, `dpb' the address of a client's picture buffer to     *)
(* the library buffer made for it, which outlives the time the client has    *)
(* it.  The parser, the decoding and the display callbacks run on threads of *)
(* the library.  A library buffer is named by its handle.                    *)
(***************************************************************************)
EXTENDS Integers, Sequences, FiniteSets, SequencesExt

CONSTANTS Inputs,       \* the input handles
          Frames,       \* the output handles, each at its address
          None, Eos,
          Settings,     \* what the media may hold: [parsed, early]
          MaxFailures,  \* bound: calls the library refuses
          MaxStops,     \* bound: calls of Stop and Restart
          MaxUses       \* bound: times a frame is filled

HandlesAssumption == Inputs \cap Frames = {} /\ {None, Eos} \cap (Inputs \cup Frames) = {}
SettingsAssumption == Settings \subseteq [parsed : BOOLEAN, early : BOOLEAN]
BoundsAssumption == MaxFailures \in Nat /\ MaxStops \in Nat /\ MaxUses \in Nat
ASSUME ConstantsAssumption == HandlesAssumption /\ SettingsAssumption /\ BoundsAssumption

VARIABLES
  media,          \* inputParsed and llp2EarlyCb
  decoder,        \* the library's decoder exists
  resolutionFoundHasBeenCalled,
  handles, dpb,
  allocated,      \* frames whose memory the module has allocated
  shouldBeCopied, \* frames whose picture is copied to the client's memory
  stream,         \* inputs pushed, oldest first, Eos behind the last
  display,        \* frames put in the library and not taken by a picture
  pictures,       \* pictures begun: [frame, use, slices, todo, shown]
  parser,         \* EndParsing in progress
  dropped,        \* inputs the library has no use for any more
  displaySeis,    \* SEI messages kept for each frame, by the use they belong to
  main,           \* the main thread: [pc, again]
  use,            \* how often each frame was filled
  shown,          \* history: the last picture displayed, with its SEI messages
  announced,      \* history: RESOLUTION_DETECTED sent by this decoder
  restarted,      \* history: this decoder is Restart's
  stale,          \* history: a frame was released that still had SEI messages
  failures, stops

buffers == <<handles, dpb, allocated, shouldBeCopied>>
library == <<stream, display, pictures, dropped>>
counters == <<failures, stops>>
history == <<shown, announced, restarted, stale>>
vars == <<media, decoder, resolutionFoundHasBeenCalled, buffers, library, parser, displaySeis,
          main, use, history, counters>>

Idle == [pc |-> "out", frame |-> None, use |-> 0, input |-> None]
Working == main.pc = "out" /\ decoder

Init ==
  /\ media \in Settings
  /\ decoder = FALSE /\ resolutionFoundHasBeenCalled = FALSE
  /\ handles = {} /\ dpb = {} /\ allocated \in SUBSET Frames /\ shouldBeCopied = {}
  /\ stream = <<>> /\ display = {} /\ pictures = <<>> /\ dropped = {}
  /\ parser = Idle /\ displaySeis = [f \in Frames |-> {}]
  /\ main = [pc |-> "out", again |-> FALSE]
  /\ use = [f \in Frames |-> 0]
  /\ shown = [frame |-> None, use |-> 0, seis |-> {}]
  /\ announced = 0 /\ restarted = FALSE /\ stale = FALSE
  /\ failures = 0 /\ stops = 0

-----------------------------------------------------------------------------
(* The workers of the component.                                            *)

\* Empty(): a library buffer of one use, which gives itself back when its last
\* reference goes; so does one that the library refuses
Empty(h) ==
  /\ Working /\ h \notin handles /\ Eos \notin ToSet(stream)
  /\ \/ /\ handles' = handles \cup {h}
        /\ stream' = Append(stream, h)
        /\ UNCHANGED failures
     \/ failures < MaxFailures /\ failures' = failures + 1 /\ UNCHANGED <<handles, stream>>
  /\ UNCHANGED <<media, decoder, resolutionFoundHasBeenCalled, dpb, allocated, shouldBeCopied, display,
                 pictures, dropped, parser, displaySeis, main, use, history, stops>>

\* Empty() of a null handle or of one without payload: AL_Decoder_Flush
EmptyEos ==
  /\ Working /\ Eos \notin ToSet(stream)
  /\ stream' = Append(stream, Eos)
  /\ UNCHANGED <<media, decoder, resolutionFoundHasBeenCalled, buffers, display, pictures, dropped,
                 parser, displaySeis, main, use, history, counters>>

\* slip: no copy is kept of memory the module has not allocated
CreateOutputBufferNoCopy(f) ==
  /\ dpb' = dpb \cup {f}
  /\ UNCHANGED <<shouldBeCopied, displaySeis>>

\* CreateOutputBuffer(): the memory is the module's own, or a copy is kept.  The
\* new library buffer may be where a released one was, and inherit its messages
CreateOutputBuffer(f) ==
  /\ dpb' = dpb \cup {f}
  /\ \E kept \in {displaySeis[f], {}} : displaySeis' = [displaySeis EXCEPT ![f] = kept]
  /\ shouldBeCopied' = IF f \in allocated THEN shouldBeCopied ELSE shouldBeCopied \cup {f}

\* Fill(): the library buffer of the address, made if there is none
Fill(f) ==
  /\ Working /\ f \notin handles /\ use[f] < MaxUses
  /\ IF f \in dpb THEN UNCHANGED <<dpb, shouldBeCopied, displaySeis>> ELSE CreateOutputBuffer(f)
  /\ handles' = handles \cup {f}
  /\ display' = display \cup {f}
  /\ use' = [use EXCEPT ![f] = @ + 1]
  /\ UNCHANGED <<media, decoder, resolutionFoundHasBeenCalled, allocated, stream, pictures, dropped,
                 parser, main, history, counters>>

\* Free() and FreeDMA(), for a buffer the client has, and Use or Allocate of
\* another at the same address
Free(f) ==
  /\ main.pc = "out" /\ f \notin handles /\ f \in dpb
  /\ dpb' = dpb \ {f} /\ shouldBeCopied' = shouldBeCopied \ {f}
  /\ \E own \in BOOLEAN : allocated' = IF own THEN allocated \cup {f} ELSE allocated \ {f}
  /\ UNCHANGED <<media, decoder, resolutionFoundHasBeenCalled, handles, library, parser, displaySeis,
                 main, use, history, counters>>

-----------------------------------------------------------------------------
(* The callbacks.                                                           *)

\* slip: each call is announced
ResolutionFoundAgain ==
  /\ decoder /\ stream # <<>>
  /\ resolutionFoundHasBeenCalled' = TRUE
  /\ announced' = IF announced < 2 THEN announced + 1 ELSE announced
  /\ UNCHANGED <<media, decoder, buffers, library, parser, displaySeis, main, use, shown, restarted,
                 stale, counters>>

\* ResolutionFound(): the first of a decoder is announced, the others are not
ResolutionFound ==
  /\ decoder /\ stream # <<>>
  /\ ~resolutionFoundHasBeenCalled
  /\ resolutionFoundHasBeenCalled' = TRUE
  /\ announced' = announced + 1
  /\ UNCHANGED <<media, decoder, buffers, library, parser, displaySeis, main, use, shown, restarted,
                 stale, counters>>

\* the library begins a picture with its first slice or slices, once it has
\* called ResolutionFound; unparsed input is read and dropped
Begin(f, n) ==
  /\ decoder /\ main.pc = "out" /\ resolutionFoundHasBeenCalled
  /\ f \in display /\ n <= Len(stream) /\ Eos \notin ToSet(SubSeq(stream, 1, n))
  /\ media.early \/ n = 1
  /\ display' = display \ {f}
  /\ stream' = SubSeq(stream, n + 1, Len(stream))
  /\ pictures' = Append(pictures, [frame |-> f, use |-> use[f], shown |-> FALSE, slices |-> n,
                                   todo |-> IF media.parsed THEN SubSeq(stream, 1, n) ELSE <<>>])
  /\ dropped' = IF media.parsed THEN dropped ELSE dropped \cup ToSet(SubSeq(stream, 1, n))
  /\ UNCHANGED <<media, decoder, resolutionFoundHasBeenCalled, buffers, parser, displaySeis, main, use,
                 history, counters>>

\* EndParsing(): with the early callback the picture may have been displayed
\* already; a slice of a picture that is gone is left alone
EndParsing(i) ==
  /\ parser.pc = "out" /\ pictures[i].todo # <<>>
  /\ LET p == pictures[i]
     IN /\ IF media.early /\ p.frame \notin handles
           THEN dropped' = dropped \cup {Head(p.todo)} /\ UNCHANGED parser
           ELSE /\ parser' = [pc |-> "associate", frame |-> p.frame, use |-> p.use, input |-> Head(p.todo)]
                /\ UNCHANGED dropped
        /\ pictures' = IF p.shown /\ Len(p.todo) = 1
                       THEN RemoveAt(pictures, i)
                       ELSE [pictures EXCEPT ![i].todo = Tail(@)]
  /\ UNCHANGED <<media, decoder, resolutionFoundHasBeenCalled, buffers, stream, display, displaySeis,
                 main, use, history, counters>>

\* the second half: the SEI messages of the slice are kept for the picture and
\* its header data goes to the picture's handle, null if Display has popped it
Associate(hasSei) ==
  /\ parser.pc = "associate"
  /\ displaySeis' = IF hasSei THEN [displaySeis EXCEPT ![parser.frame] = @ \cup {parser.use}]
                    ELSE displaySeis
  /\ dropped' = dropped \cup {parser.input}
  /\ parser' = IF parser.frame \in handles THEN Idle ELSE [parser EXCEPT !.pc = "null"]
  /\ UNCHANGED <<media, decoder, resolutionFoundHasBeenCalled, buffers, stream, display, pictures, main,
                 use, history, counters>>

\* InputBufferDestroy(): the last reference of an input is gone: emptied
InputBufferDestroy(h) ==
  /\ h \in dropped
  /\ dropped' = dropped \ {h}
  /\ handles' = handles \ {h}
  /\ UNCHANGED <<media, decoder, resolutionFoundHasBeenCalled, dpb, allocated, shouldBeCopied, stream,
                 display, pictures, parser, displaySeis, main, use, history, counters>>

\* the first picture not yet displayed; all its slices are parsed, or with the
\* early callback the first one (EndDecoding, which associates the header data
\* of unparsed input, comes before)
Displayable(i) ==
  /\ ~pictures[i].shown /\ \A j \in 1..(i - 1) : pictures[j].shown
  /\ IF media.early
     THEN LET left == Len(pictures[i].todo)
          IN left < pictures[i].slices /\ (left = pictures[i].slices - 1 => parser.frame # pictures[i].frame)
     ELSE pictures[i].todo = <<>> /\ parser.frame # pictures[i].frame

\* slip: the SEI messages stay with the frame
DisplayKeepingSeis(i) ==
  /\ decoder /\ Displayable(i)
  /\ LET p == pictures[i]
     IN /\ handles' = handles \ {p.frame}
        /\ shown' = [frame |-> p.frame, use |-> p.use, seis |-> displaySeis[p.frame]]
        /\ pictures' = IF p.todo = <<>>
                       THEN RemoveAt(pictures, i)
                       ELSE [pictures EXCEPT ![i].shown = TRUE]
  /\ UNCHANGED <<media, decoder, resolutionFoundHasBeenCalled, dpb, allocated, shouldBeCopied, stream,
                 display, dropped, parser, displaySeis, main, use, announced, restarted, stale, counters>>

\* Display(): the SEI messages and the picture, copied if it must be
Display(i) ==
  /\ decoder /\ Displayable(i)
  /\ LET p == pictures[i]
     IN /\ handles' = handles \ {p.frame}
        /\ shown' = [frame |-> p.frame, use |-> p.use, seis |-> displaySeis[p.frame]]
        /\ displaySeis' = [displaySeis EXCEPT ![p.frame] = {}]
        /\ pictures' = IF p.todo = <<>>
                       THEN RemoveAt(pictures, i)
                       ELSE [pictures EXCEPT ![i].shown = TRUE]
  /\ UNCHANGED <<media, decoder, resolutionFoundHasBeenCalled, dpb, allocated, shouldBeCopied, stream,
                 display, dropped, parser, main, use, announced, restarted, stale, counters>>

\* Display(nullptr, nullptr): everything before the flush has been displayed
DisplayEos ==
  /\ decoder /\ pictures = <<>> /\ stream # <<>> /\ Head(stream) = Eos
  /\ stream' = Tail(stream)
  /\ UNCHANGED <<media, decoder, resolutionFoundHasBeenCalled, buffers, display, pictures, dropped,
                 parser, displaySeis, main, use, history, counters>>

Callbacks ==
  \/ ResolutionFound \/ DisplayEos
  \/ \E f \in Frames, n \in 1..2 : Begin(f, n)
  \/ \E i \in DOMAIN pictures : EndParsing(i) \/ Display(i)
  \/ \E hasSei \in BOOLEAN : Associate(hasSei)
  \/ \E h \in Inputs : InputBufferDestroy(h)

-----------------------------------------------------------------------------
(* The main thread.                                                         *)

\* CreateDecoder(): it may fail, and when it is the preallocation that does the
\* decoder is destroyed again
CreateDecoder(again) ==
  /\ announced' = 0 /\ restarted' = (restarted \/ again)
  /\ \/ decoder' = TRUE /\ UNCHANGED <<failures, resolutionFoundHasBeenCalled>>
     \/ /\ failures < MaxFailures /\ failures' = failures + 1
        /\ decoder' = FALSE
        /\ resolutionFoundHasBeenCalled' \in {resolutionFoundHasBeenCalled, FALSE}
  /\ UNCHANGED <<media, buffers, library, parser, displaySeis, use, shown, stale, stops>>

Start ==
  /\ main.pc = "out" /\ ~decoder
  /\ CreateDecoder(FALSE)
  /\ UNCHANGED main

\* Stop() and Restart()
Stop(again) ==
  /\ Working /\ stops < MaxStops
  /\ stops' = stops + 1
  /\ main' = [pc |-> "destroy", again |-> again]
  /\ UNCHANGED <<media, decoder, resolutionFoundHasBeenCalled, buffers, library, parser, displaySeis,
                 use, history, failures>>

\* AL_Decoder_Destroy releases every frame it still has: ReleaseBufs.  The SEI
\* messages kept for the frame stay behind
ReleaseBufs(f) ==
  /\ main.pc = "destroy" /\ parser.pc = "out"
  /\ \/ f \in display /\ display' = display \ {f} /\ UNCHANGED <<pictures, dropped>>
     \/ \E i \in DOMAIN pictures :
          /\ pictures[i].frame = f /\ ~pictures[i].shown
          /\ pictures' = RemoveAt(pictures, i)
          /\ dropped' = dropped \cup ToSet(pictures[i].todo)
          /\ UNCHANGED display
  /\ handles' = handles \ {f} /\ dpb' = dpb \ {f} /\ shouldBeCopied' = shouldBeCopied \ {f}
  /\ stale' = (stale \/ displaySeis[f] # {})
  /\ UNCHANGED <<media, decoder, resolutionFoundHasBeenCalled, allocated, stream, parser, displaySeis,
                 main, use, shown, announced, restarted, counters>>

\* the inputs it still has are dropped, those of the pictures displayed too
DropInputs ==
  /\ main.pc = "destroy" /\ parser.pc = "out"
  /\ \/ /\ stream # <<>>
        /\ dropped' = dropped \cup (ToSet(stream) \ {Eos})
        /\ stream' = <<>> /\ UNCHANGED pictures
     \/ \E i \in DOMAIN pictures :
          /\ pictures[i].shown
          /\ dropped' = dropped \cup ToSet(pictures[i].todo)
          /\ pictures' = RemoveAt(pictures, i) /\ UNCHANGED stream
  /\ UNCHANGED <<media, decoder, resolutionFoundHasBeenCalled, buffers, display, parser, displaySeis,
                 main, use, history, counters>>

\* AL_Decoder_Destroy returns: DestroyDecoder forgets that the resolution was
\* found, Restart does not and creates the next decoder
Destroyed ==
  /\ main.pc = "destroy" /\ parser.pc = "out"
  /\ stream = <<>> /\ display = {} /\ pictures = <<>> /\ dropped = {}
  /\ main' = [pc |-> "out", again |-> FALSE]
  /\ IF main.again
     THEN CreateDecoder(TRUE)
     ELSE /\ decoder' = FALSE /\ resolutionFoundHasBeenCalled' = FALSE /\ restarted' = FALSE
          /\ UNCHANGED <<media, buffers, library, parser, displaySeis, use, shown, announced, stale,
                         counters>>

Main ==
  \/ Start \/ DropInputs \/ Destroyed
  \/ \E again \in BOOLEAN : Stop(again)
  \/ \E f \in Frames : ReleaseBufs(f)

Workers ==
  \/ EmptyEos
  \/ \E h \in Inputs : Empty(h)
  \/ \E f \in Frames : Fill(f) \/ Free(f)

Next == parser.pc # "null" /\ (Workers \/ Callbacks \/ Main)

Spec == Init /\ [][Next]_vars

-----------------------------------------------------------------------------
Pictures == [frame : Frames, use : 1..MaxUses, shown : BOOLEAN, slices : 1..2, todo : Seq(Inputs)]

TypeOK ==
  /\ media \in Settings /\ decoder \in BOOLEAN /\ resolutionFoundHasBeenCalled \in BOOLEAN
  /\ handles \subseteq Inputs \cup Frames /\ dpb \subseteq Frames
  /\ allocated \subseteq Frames /\ shouldBeCopied \subseteq Frames
  /\ stream \in Seq(Inputs \cup {Eos}) /\ display \subseteq Frames /\ dropped \subseteq Inputs
  /\ pictures \in Seq(Pictures)
  /\ \/ parser = Idle
     \/ parser \in [pc : {"associate", "null"}, frame : Frames, use : 1..MaxUses, input : Inputs]
  /\ main \in [pc : {"out", "destroy"}, again : BOOLEAN]
  /\ displaySeis \in [Frames -> SUBSET (1..MaxUses)] /\ use \in [Frames -> 0..MaxUses]

\* where the inputs the module knows can be
InStream == ToSet(stream) \ {Eos}
InPicture(i) == ToSet(pictures[i].todo)
InPictures == UNION {InPicture(i) : i \in DOMAIN pictures}
InParser == IF parser.pc = "associate" THEN {parser.input} ELSE {}

InputsOnce ==
  /\ IsInjective(stream) /\ \A i \in DOMAIN pictures : IsInjective(pictures[i].todo)
  /\ \A i, j \in DOMAIN pictures : i # j => InPicture(i) \cap InPicture(j) = {}
  /\ InStream \cap (InPictures \cup InParser \cup dropped) = {}
  /\ InPictures \cap (InParser \cup dropped) = {} /\ InParser \cap dropped = {}
  /\ handles \cap Inputs = InStream \cup InPictures \cup InParser \cup dropped

\* the frames: of those the library has, one picture at most is not displayed
Begun == {i \in DOMAIN pictures : ~pictures[i].shown}

FramesOnce ==
  /\ \A i, j \in Begun : pictures[i].frame = pictures[j].frame => i = j
  /\ display \cap {pictures[i].frame : i \in Begun} = {}
  /\ handles \cap Frames = display \cup {pictures[i].frame : i \in Begun}

FramesKnown ==
  /\ handles \cap Frames \subseteq dpb
  /\ \A f \in dpb : f \in allocated \/ f \in shouldBeCopied

(* Every handle the map knows is with the library, in one place; a frame      *)
(* there is in the dpb, and the picture decoded into it reaches the memory    *)
(* the client gave, which the module has allocated or copies to               *)
(* (module_dec.cpp:169-185, 244-247, 402-470, 573-620, 700-797).              *)
Ownership == InputsOnce /\ FramesOnce /\ FramesKnown /\ (~decoder => handles = {})

(* The SEI messages reported with a picture are those parsed for it, unless   *)
(* a frame was released that still had some (module_dec.cpp:169-176, 125-131, *)
(* 213-226); the early callback, which displays before all is parsed, is      *)
(* excepted.                                                                  *)
SeisWithTheirPicture ==
  ~media.early /\ ~stale => shown.seis \subseteq {shown.use}

(* The client learns the resolution of a stream once, and before a picture   *)
(* of it is shown, except from a decoder that Restart has created             *)
(* (module_dec.cpp:277-298, 390-420).                                         *)
ResolutionAnnounced ==
  decoder /\ ~restarted => announced <= 1 /\ (pictures # <<>> => announced = 1)
=============================================================================
