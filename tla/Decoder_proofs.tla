---------------------------- MODULE Decoder_proofs ----------------------------
(***************************************************************************)
(* The decoder: the invariants of DecModule, for any buffers, media and       *)
(* bounds, and those of DecComponent, for any time stamps, frames and bounds. *)
(***************************************************************************)
EXTENDS DecModule, DecComponent, SequenceLemmas

(***************************************************************************)
(* The module.                                                              *)
(***************************************************************************)
(* The module has a decoder while it has anything to decode.                  *)
DecoderThere ==
  main.pc = "destroy" \/ stream # <<>> \/ pictures # <<>> \/ display # {} => decoder

(* resolutionFoundHasBeenCalled stands for the announcement, but for the      *)
(* decoder of a Restart, and a picture is begun only behind it.               *)
Announced ==
  /\ announced \in Nat
  /\ ~restarted /\ decoder => announced = IF resolutionFoundHasBeenCalled THEN 1 ELSE 0
  /\ ~restarted /\ ~decoder => ~resolutionFoundHasBeenCalled
  /\ pictures # <<>> => resolutionFoundHasBeenCalled

(* Without the early callback a picture leaves the library when it is          *)
(* displayed, so what the parser holds and the messages that are kept belong    *)
(* to a picture which the library still has.                                  *)
HasPicture(f, u) == \E i \in DOMAIN pictures : pictures[i].frame = f /\ pictures[i].use = u

SeisKnown ==
  ~media.early =>
    /\ \A i \in DOMAIN pictures : ~pictures[i].shown
    /\ parser.pc # "out" => parser.pc = "associate" /\ HasPicture(parser.frame, parser.use)
    /\ ~stale => \A f \in Frames : \A u \in displaySeis[f] : HasPicture(f, u)

\* a frame in the library has been filled
Filled == \A f \in display : use[f] > 0

IInv == TypeOK /\ Filled /\ DecoderThere /\ Announced /\ Ownership /\ SeisKnown /\ SeisWithTheirPicture

-----------------------------------------------------------------------------
(* Types                                                                    *)

LEMMA PictureFacts ==
  ASSUME TypeOK, NEW i \in DOMAIN pictures
  PROVE  /\ pictures[i] \in Pictures /\ pictures \in Seq(Pictures)
         /\ pictures[i].frame \in Frames /\ pictures[i].use \in 1..MaxUses
         /\ pictures[i].shown \in BOOLEAN /\ pictures[i].slices \in 1..2
         /\ pictures[i].todo \in Seq(Inputs)
         /\ InPicture(i) \subseteq Inputs
<1>1. pictures[i] \in Pictures /\ pictures \in Seq(Pictures)
  BY DEF TypeOK
<1>2. pictures[i].todo \in Seq(Inputs)
  BY <1>1 DEF Pictures
<1>3. InPicture(i) \subseteq Inputs
  BY <1>2 DEF InPicture, ToSet
<1>4. QED
  BY <1>1, <1>2, <1>3 DEF Pictures

\* the inputs a picture begins with
LEMMA BeginFacts ==
  ASSUME TypeOK, NEW n \in 1..2, n <= Len(stream), Eos \notin ToSet(SubSeq(stream, 1, n))
  PROVE  /\ n \in 1..Len(stream)
         /\ SubSeq(stream, 1, n) \in Seq(Inputs)
         /\ ToSet(SubSeq(stream, 1, n)) \subseteq Inputs
         /\ SubSeq(stream, n + 1, Len(stream)) \in Seq(Inputs \cup {Eos})
<1>1. stream \in Seq(Inputs \cup {Eos}) /\ n \in 1..Len(stream)
  BY DEF TypeOK
<1>2. /\ SubSeq(stream, 1, n) \in Seq(Inputs \cup {Eos})
      /\ SubSeq(stream, n + 1, Len(stream)) \in Seq(Inputs \cup {Eos})
  BY <1>1, SplitFacts
<1>3. \A i \in 1..Len(SubSeq(stream, 1, n)) : SubSeq(stream, 1, n)[i] \in Inputs
  <2>1. SUFFICES ASSUME NEW i \in 1..Len(SubSeq(stream, 1, n))
                 PROVE  SubSeq(stream, 1, n)[i] \in Inputs
    OBVIOUS
  <2>2. i \in DOMAIN SubSeq(stream, 1, n) /\ SubSeq(stream, 1, n)[i] \in Inputs \cup {Eos}
    BY <1>2
  <2>3. SubSeq(stream, 1, n)[i] \in ToSet(SubSeq(stream, 1, n))
    BY <2>2 DEF ToSet
  <2>4. QED
    BY <2>2, <2>3
<1>4. SubSeq(stream, 1, n) \in Seq(Inputs)
  BY <1>2, <1>3
<1>5. QED
  BY <1>1, <1>2, <1>3, <1>4 DEF ToSet

LEMMA CreateDecoderType ==
  ASSUME TypeOK, Filled, BoundsAssumption, NEW again \in BOOLEAN, CreateDecoder(again)
  PROVE  /\ UNCHANGED <<media, handles, dpb, allocated, shouldBeCopied, stream, display, pictures,
                        dropped, parser, displaySeis, use, shown, stale>>
         /\ decoder' \in BOOLEAN /\ resolutionFoundHasBeenCalled' \in BOOLEAN
BY DEF CreateDecoder, TypeOK, buffers, library

LEMMA WorkersType ==
  ASSUME TypeOK, Filled, BoundsAssumption, Workers
  PROVE  TypeOK' /\ Filled'
<1>1. ASSUME NEW h \in Inputs, Empty(h) PROVE TypeOK' /\ Filled'
  <2>1. Append(stream, h) \in Seq(Inputs \cup {Eos})
    BY AppendFacts DEF TypeOK
  <2>2. QED
    BY <1>1, <2>1 DEF Empty, TypeOK, Filled, Idle, Pictures, history
<1>2. ASSUME EmptyEos PROVE TypeOK' /\ Filled'
  <2>1. Append(stream, Eos) \in Seq(Inputs \cup {Eos})
    BY AppendFacts DEF TypeOK
  <2>2. QED
    BY <1>2, <2>1 DEF EmptyEos, TypeOK, Filled, Idle, Pictures, buffers, history, counters
<1>3. ASSUME NEW f \in Frames, Fill(f) PROVE TypeOK' /\ Filled'
  <2>1. /\ displaySeis' \in [Frames -> SUBSET (1..MaxUses)]
        /\ dpb' \subseteq Frames /\ shouldBeCopied' \subseteq Frames
    <3>1. CASE f \in dpb
      BY <1>3, <3>1 DEF Fill, TypeOK
    <3>2. CASE f \notin dpb
      <4>1. CreateOutputBuffer(f)
        BY <1>3, <3>2 DEF Fill
      <4>2. dpb' \subseteq Frames /\ shouldBeCopied' \subseteq Frames
        BY <4>1 DEF CreateOutputBuffer, TypeOK
      <4>3. PICK kept \in {displaySeis[f], {}} : displaySeis' = [displaySeis EXCEPT ![f] = kept]
        BY <4>1 DEF CreateOutputBuffer
      <4>4. kept \in SUBSET (1..MaxUses)
        BY DEF TypeOK
      <4>5. QED
        BY <4>2, <4>3, <4>4 DEF TypeOK
    <3>3. QED
      BY <3>1, <3>2
  <2>2. /\ use' \in [Frames -> 0..MaxUses]
        /\ \A g \in display \cup {f} : use'[g] > 0
    BY <1>3 DEF Fill, TypeOK, Filled, BoundsAssumption
  <2>3. QED
    BY <1>3, <2>1, <2>2 DEF Fill, TypeOK, Filled, Idle, Pictures, history, counters
<1>4. ASSUME NEW f \in Frames, Free(f) PROVE TypeOK' /\ Filled'
  BY <1>4 DEF Free, TypeOK, Filled, Idle, Pictures, library, history, counters
<1>5. QED
  BY <1>1, <1>2, <1>3, <1>4 DEF Workers

LEMMA CallbacksType ==
  ASSUME TypeOK, Filled, HandlesAssumption, BoundsAssumption, Callbacks
  PROVE  TypeOK' /\ Filled'
<1>1. ASSUME ResolutionFound PROVE TypeOK' /\ Filled'
  BY <1>1 DEF ResolutionFound, TypeOK, Filled, Idle, Pictures, buffers, library, counters
<1>2. ASSUME DisplayEos PROVE TypeOK' /\ Filled'
  <2>1. Tail(stream) \in Seq(Inputs \cup {Eos})
    BY <1>2, TailFacts DEF DisplayEos, TypeOK
  <2>2. QED
    BY <1>2, <2>1 DEF DisplayEos, TypeOK, Filled, Idle, Pictures, buffers, history, counters
<1>3. ASSUME NEW f \in Frames, NEW n \in 1..2, Begin(f, n) PROVE TypeOK' /\ Filled'
  <2> DEFINE p == [frame |-> f, use |-> use[f], shown |-> FALSE, slices |-> n,
                   todo |-> IF media.parsed THEN SubSeq(stream, 1, n) ELSE <<>>]
  <2>1. /\ SubSeq(stream, 1, n) \in Seq(Inputs)
        /\ ToSet(SubSeq(stream, 1, n)) \subseteq Inputs
        /\ SubSeq(stream, n + 1, Len(stream)) \in Seq(Inputs \cup {Eos})
    BY <1>3, BeginFacts DEF Begin
  <2>2. use[f] \in 1..MaxUses
    BY <1>3 DEF Begin, TypeOK, Filled
  <2>3. p \in Pictures
    BY <2>1, <2>2 DEF Pictures
  <2>4. pictures' = Append(pictures, p) /\ pictures \in Seq(Pictures)
    BY <1>3 DEF Begin, TypeOK
  <2> HIDE DEF p
  <2>5. pictures' \in Seq(Pictures)
    BY <2>3, <2>4
  <2>6. dropped' \subseteq Inputs
    BY <1>3, <2>1 DEF Begin, TypeOK
  <2>7. QED
    BY <1>3, <2>1, <2>5, <2>6 DEF Begin, TypeOK, Filled, Idle, buffers, history, counters
<1>4. ASSUME NEW i \in DOMAIN pictures, EndParsing(i) PROVE TypeOK' /\ Filled'
  <2>1. pictures[i].todo \in Seq(Inputs) /\ pictures[i].todo # <<>>
    BY <1>4, PictureFacts DEF EndParsing
  <2>2. Head(pictures[i].todo) \in Inputs /\ Tail(pictures[i].todo) \in Seq(Inputs)
    BY <2>1, TailFacts
  <2>3. RemoveAt(pictures, i) \in Seq(Pictures)
    BY RemoveAtFacts, PictureFacts
  <2>4. [pictures EXCEPT ![i].todo = Tail(@)] \in Seq(Pictures)
    <3>1. [pictures[i] EXCEPT !.todo = Tail(@)] \in Pictures
      BY <2>2, PictureFacts DEF Pictures
    <3>2. QED
      BY <3>1, PictureFacts, ExceptSeq
  <2>5. pictures' \in Seq(Pictures)
    BY <1>4, <2>3, <2>4 DEF EndParsing
  <2>6. /\ dropped' \subseteq Inputs
        /\ parser' = parser \/ parser' \in
             [pc : {"associate", "null"}, frame : Frames, use : 1..MaxUses, input : Inputs]
    BY <1>4, <2>2, PictureFacts DEF EndParsing, TypeOK
  <2>7. QED
    BY <1>4, <2>5, <2>6 DEF EndParsing, TypeOK, Filled, Idle, buffers, history, counters
<1>5. ASSUME NEW i \in DOMAIN pictures, Display(i) PROVE TypeOK' /\ Filled'
  <2>1. RemoveAt(pictures, i) \in Seq(Pictures)
    BY RemoveAtFacts, PictureFacts
  <2>2. [pictures EXCEPT ![i].shown = TRUE] \in Seq(Pictures)
    <3>1. [pictures[i] EXCEPT !.shown = TRUE] \in Pictures
      BY PictureFacts DEF Pictures
    <3>2. QED
      BY <3>1, PictureFacts, ExceptSeq
  <2>3. pictures' \in Seq(Pictures)
    BY <1>5, <2>1, <2>2 DEF Display
  <2>4. QED
    BY <1>5, <2>3, PictureFacts DEF Display, TypeOK, Filled, Idle, counters
<1>6. ASSUME NEW hasSei \in BOOLEAN, Associate(hasSei) PROVE TypeOK' /\ Filled'
  <2>1. parser \in [pc : {"associate", "null"}, frame : Frames, use : 1..MaxUses, input : Inputs]
    BY <1>6 DEF Associate, TypeOK, Idle
  <2>2. /\ displaySeis' \in [Frames -> SUBSET (1..MaxUses)]
        /\ dropped' \subseteq Inputs
    BY <1>6, <2>1 DEF Associate, TypeOK
  <2>3. \/ parser' = Idle
        \/ parser' \in [pc : {"associate", "null"}, frame : Frames, use : 1..MaxUses, input : Inputs]
    BY <1>6, <2>1 DEF Associate
  <2>4. QED
    BY <1>6, <2>2, <2>3 DEF Associate, TypeOK, Filled, Idle, Pictures, buffers, history, counters
<1>7. ASSUME NEW h \in Inputs, InputBufferDestroy(h) PROVE TypeOK' /\ Filled'
  BY <1>7 DEF InputBufferDestroy, TypeOK, Filled, Idle, Pictures, history, counters
<1>8. QED
  BY <1>1, <1>2, <1>3, <1>4, <1>5, <1>6, <1>7 DEF Callbacks

LEMMA MainType ==
  ASSUME TypeOK, Filled, HandlesAssumption, BoundsAssumption, Main
  PROVE  TypeOK' /\ Filled'
<1>1. ASSUME Start PROVE TypeOK' /\ Filled'
  BY <1>1, CreateDecoderType DEF Start, TypeOK, Filled, Idle, Pictures
<1>2. ASSUME NEW again \in BOOLEAN, Stop(again) PROVE TypeOK' /\ Filled'
  BY <1>2 DEF Stop, TypeOK, Filled, Idle, Pictures, buffers, library, history
<1>3. ASSUME NEW f \in Frames, ReleaseBufs(f) PROVE TypeOK' /\ Filled'
  <2>1. /\ pictures' \in Seq(Pictures)
        /\ dropped' \subseteq Inputs /\ display' \subseteq display
    <3>1. CASE UNCHANGED <<pictures, dropped>> /\ display' = display \ {f}
      BY <3>1 DEF TypeOK
    <3>2. CASE \E i \in DOMAIN pictures :
                 /\ pictures' = RemoveAt(pictures, i)
                 /\ dropped' = dropped \cup ToSet(pictures[i].todo)
                 /\ UNCHANGED display
      BY <3>2, RemoveAtFacts, PictureFacts DEF TypeOK, InPicture
    <3>3. QED
      BY <1>3, <3>1, <3>2 DEF ReleaseBufs
  <2>2. QED
    BY <1>3, <2>1 DEF ReleaseBufs, TypeOK, Filled, Idle, counters
<1>4. ASSUME DropInputs PROVE TypeOK' /\ Filled'
  <2>1. /\ pictures' \in Seq(Pictures) /\ dropped' \subseteq Inputs
        /\ stream' \in Seq(Inputs \cup {Eos})
    <3>1. CASE /\ stream' = <<>> /\ UNCHANGED pictures
               /\ dropped' = dropped \cup (ToSet(stream) \ {Eos})
      BY <3>1 DEF TypeOK, ToSet
    <3>2. CASE \E i \in DOMAIN pictures :
                 /\ pictures' = RemoveAt(pictures, i)
                 /\ dropped' = dropped \cup ToSet(pictures[i].todo)
                 /\ UNCHANGED stream
      BY <3>2, RemoveAtFacts, PictureFacts DEF TypeOK, InPicture
    <3>3. QED
      BY <1>4, <3>1, <3>2 DEF DropInputs
  <2>2. QED
    BY <1>4, <2>1 DEF DropInputs, TypeOK, Filled, Idle, buffers, history, counters
<1>5. ASSUME Destroyed PROVE TypeOK' /\ Filled'
  <2>1. CASE main.again
    BY <1>5, <2>1, CreateDecoderType DEF Destroyed, TypeOK, Filled, Idle, Pictures
  <2>2. CASE ~main.again
    BY <1>5, <2>2 DEF Destroyed, TypeOK, Filled, Idle, Pictures, buffers, library, counters
  <2>3. QED
    BY <2>1, <2>2
<1>6. QED
  BY <1>1, <1>2, <1>3, <1>4, <1>5 DEF Main

-----------------------------------------------------------------------------
(* The announcement                                                         *)

LEMMA InitIInv == ASSUME HandlesAssumption, BoundsAssumption, Init PROVE IInv
<1>1. TypeOK /\ Filled
  <2>1. displaySeis \in [Frames -> SUBSET (1..MaxUses)] /\ use \in [Frames -> 0..MaxUses]
    BY DEF Init, BoundsAssumption
  <2>2. stream \in Seq(Inputs \cup {Eos}) /\ pictures \in Seq(Pictures) /\ parser = Idle
    BY DEF Init
  <2>3. main \in [pc : {"out", "destroy"}, again : BOOLEAN]
    BY DEF Init
  <2>4. QED
    BY <2>1, <2>2, <2>3 DEF Init, TypeOK, Filled
<1>2. DecoderThere /\ Announced
  BY DEF Init, DecoderThere, Announced
<1>3. Ownership
  BY DEF Init, Ownership, InputsOnce, FramesOnce, FramesKnown, InStream, InPicture, InPictures,
         InParser, Begun, ToSet, IsInjective, Idle
<1>4. SeisKnown /\ SeisWithTheirPicture
  BY DEF Init, SeisKnown, SeisWithTheirPicture, Idle
<1>5. QED
  BY <1>1, <1>2, <1>3, <1>4 DEF IInv

\* a new decoder has announced nothing; a refused one leaves no sign but of a
\* Restart
LEMMA CreateDecoderFacts ==
  ASSUME NEW again \in BOOLEAN, CreateDecoder(again)
  PROVE  /\ announced' = 0 /\ UNCHANGED <<stream, display, pictures>>
         /\ ~restarted' => ~restarted /\ ~again
         /\ resolutionFoundHasBeenCalled' = resolutionFoundHasBeenCalled
            \/ resolutionFoundHasBeenCalled' = FALSE
BY DEF CreateDecoder, library

LEMMA AnnouncedNext ==
  ASSUME TypeOK, DecoderThere, Announced, Workers \/ Callbacks \/ Main
  PROVE  DecoderThere' /\ Announced'
<1> USE DEF DecoderThere, Announced
<1>1. ASSUME NEW h \in Inputs, Empty(h) PROVE DecoderThere' /\ Announced'
  BY <1>1 DEF Empty, Working, history
<1>2. ASSUME EmptyEos PROVE DecoderThere' /\ Announced'
  BY <1>2 DEF EmptyEos, Working, buffers, history, counters
<1>3. ASSUME NEW f \in Frames, Fill(f) PROVE DecoderThere' /\ Announced'
  BY <1>3 DEF Fill, Working, history, counters
<1>4. ASSUME NEW f \in Frames, Free(f) PROVE DecoderThere' /\ Announced'
  BY <1>4 DEF Free, library, history, counters
<1>5. ASSUME ResolutionFound PROVE DecoderThere' /\ Announced'
  BY <1>5 DEF ResolutionFound, TypeOK, buffers, library, counters
<1>6. ASSUME DisplayEos PROVE DecoderThere' /\ Announced'
  BY <1>6 DEF DisplayEos, buffers, history, counters
<1>7. ASSUME NEW f \in Frames, NEW n \in 1..2, Begin(f, n) PROVE DecoderThere' /\ Announced'
  BY <1>7 DEF Begin, buffers, history, counters
<1>8. ASSUME NEW i \in DOMAIN pictures, EndParsing(i) PROVE DecoderThere' /\ Announced'
  <2>1. pictures # <<>>
    BY DEF TypeOK
  <2>2. QED
    BY <1>8, <2>1 DEF EndParsing, buffers, history, counters
<1>9. ASSUME NEW i \in DOMAIN pictures, Display(i) PROVE DecoderThere' /\ Announced'
  <2>1. pictures # <<>>
    BY DEF TypeOK
  <2>2. QED
    BY <1>9, <2>1 DEF Display, counters
<1>10. ASSUME NEW hasSei \in BOOLEAN, Associate(hasSei) PROVE DecoderThere' /\ Announced'
  BY <1>10 DEF Associate, buffers, history, counters
<1>11. ASSUME NEW h \in Inputs, InputBufferDestroy(h) PROVE DecoderThere' /\ Announced'
  BY <1>11 DEF InputBufferDestroy, history, counters
<1>12. ASSUME Start PROVE DecoderThere' /\ Announced'
  <2>1. CreateDecoder(FALSE) /\ ~decoder /\ UNCHANGED main
    BY <1>12 DEF Start
  <2>2. /\ announced' = 0 /\ UNCHANGED <<stream, display, pictures>>
        /\ ~restarted' => ~restarted
        /\ ~restarted => ~resolutionFoundHasBeenCalled'
    BY <2>1, CreateDecoderFacts
  <2>3. QED
    BY <2>1, <2>2
<1>13. ASSUME NEW again \in BOOLEAN, Stop(again) PROVE DecoderThere' /\ Announced'
  BY <1>13 DEF Stop, Working, buffers, library, history
<1>14. ASSUME NEW f \in Frames, ReleaseBufs(f) PROVE DecoderThere' /\ Announced'
  <2>1. pictures' # <<>> => pictures # <<>>
    BY <1>14 DEF ReleaseBufs, TypeOK
  <2>2. QED
    BY <1>14, <2>1 DEF ReleaseBufs, counters
<1>15. ASSUME DropInputs PROVE DecoderThere' /\ Announced'
  <2>1. pictures' # <<>> => pictures # <<>>
    BY <1>15 DEF DropInputs, TypeOK
  <2>2. QED
    BY <1>15, <2>1 DEF DropInputs, buffers, history, counters
<1>16. ASSUME Destroyed PROVE DecoderThere' /\ Announced'
  <2>1. /\ stream = <<>> /\ display = {} /\ pictures = <<>> /\ main'.pc = "out"
    BY <1>16 DEF Destroyed
  <2>2. CASE main.again
    <3>1. CreateDecoder(TRUE)
      BY <1>16, <2>2 DEF Destroyed
    <3>2. announced' = 0 /\ UNCHANGED <<stream, display, pictures>> /\ restarted'
      BY <3>1, CreateDecoderFacts
    <3>3. QED
      BY <2>1, <3>2
  <2>3. CASE ~main.again
    BY <1>16, <2>1, <2>3 DEF Destroyed, buffers, library, counters
  <2>4. QED
    BY <2>2, <2>3
<1>17. QED
  BY <1>1, <1>2, <1>3, <1>4, <1>5, <1>6, <1>7, <1>8, <1>9, <1>10, <1>11, <1>12, <1>13, <1>14, <1>15,
     <1>16 DEF Workers, Callbacks, Main

-----------------------------------------------------------------------------
(* Where the handles are                                                    *)

(* What the list of pictures is to InputsOnce and FramesOnce.                 *)
BegunFrames == {pictures[i].frame : i \in Begun}

PicturesOnce ==
  /\ \A i \in DOMAIN pictures : IsInjective(pictures[i].todo)
  /\ \A i, j \in DOMAIN pictures : i # j => InPicture(i) \cap InPicture(j) = {}
  /\ \A i, j \in Begun : pictures[i].frame = pictures[j].frame => i = j

LEMMA OwnershipParts ==
  Ownership <=>
    /\ PicturesOnce /\ IsInjective(stream)
    /\ InStream \cap (InPictures \cup InParser \cup dropped) = {}
    /\ InPictures \cap (InParser \cup dropped) = {} /\ InParser \cap dropped = {}
    /\ handles \cap Inputs = InStream \cup InPictures \cup InParser \cup dropped
    /\ display \cap BegunFrames = {}
    /\ handles \cap Frames = display \cup BegunFrames
    /\ FramesKnown /\ (~decoder => handles = {})
BY DEF Ownership, InputsOnce, FramesOnce, PicturesOnce, BegunFrames

LEMMA PicturesSame ==
  ASSUME UNCHANGED pictures
  PROVE  /\ PicturesOnce => PicturesOnce'
         /\ InPictures' = InPictures /\ BegunFrames' = BegunFrames
BY DEF PicturesOnce, InPictures, InPicture, BegunFrames, Begun

LEMMA PictureRemoved ==
  ASSUME TypeOK, PicturesOnce, NEW i \in DOMAIN pictures, pictures' = RemoveAt(pictures, i)
  PROVE  /\ PicturesOnce'
         /\ InPictures' = InPictures \ InPicture(i)
         /\ BegunFrames' = BegunFrames \ (IF pictures[i].shown THEN {} ELSE {pictures[i].frame})
<1>1. PICK was \in [DOMAIN pictures' -> DOMAIN pictures \ {i}] :
           /\ \A j \in DOMAIN pictures' : pictures'[j] = pictures[was[j]]
           /\ \A j, k \in DOMAIN pictures' : was[j] = was[k] => j = k
           /\ \A k \in DOMAIN pictures \ {i} : \E j \in DOMAIN pictures' : was[j] = k
  BY RemoveAtOrigin, PictureFacts
<1>2. \A j \in DOMAIN pictures' : was[j] \in DOMAIN pictures /\ was[j] # i
  OBVIOUS
<1>3. \A j \in DOMAIN pictures' : InPicture(j)' = InPicture(was[j])
  BY <1>1 DEF InPicture
<1>4. PicturesOnce'
  <2>1. ASSUME NEW j \in DOMAIN pictures' PROVE IsInjective(pictures'[j].todo)
    BY <1>1, <1>2 DEF PicturesOnce
  <2>2. ASSUME NEW j \in DOMAIN pictures', NEW k \in DOMAIN pictures', j # k
        PROVE  InPicture(j)' \cap InPicture(k)' = {}
    BY <1>1, <1>2, <1>3, <2>2 DEF PicturesOnce
  <2>3. ASSUME NEW j \in Begun', NEW k \in Begun', pictures'[j].frame = pictures'[k].frame
        PROVE  j = k
    BY <1>1, <1>2, <2>3 DEF PicturesOnce, Begun
  <2>4. QED
    BY <2>1, <2>2, <2>3 DEF PicturesOnce
<1>5. InPictures' = InPictures \ InPicture(i)
  <2>1. ASSUME NEW x \in InPictures' PROVE x \in InPictures \ InPicture(i)
    <3>1. PICK j \in DOMAIN pictures' : x \in InPicture(j)'
      BY <2>1 DEF InPictures
    <3>2. x \in InPicture(was[j]) /\ was[j] \in DOMAIN pictures /\ was[j] # i
      BY <1>2, <1>3, <3>1
    <3>3. QED
      BY <3>2 DEF InPictures, PicturesOnce
  <2>2. ASSUME NEW x \in InPictures, x \notin InPicture(i) PROVE x \in InPictures'
    <3>1. PICK k \in DOMAIN pictures : x \in InPicture(k)
      BY <2>2 DEF InPictures
    <3>2. PICK j \in DOMAIN pictures' : was[j] = k
      BY <1>1, <2>2, <3>1
    <3>3. x \in InPicture(j)'
      BY <1>3, <3>1, <3>2
    <3>4. QED
      BY <3>3 DEF InPictures
  <2>3. QED
    BY <2>1, <2>2
<1>6. BegunFrames' = BegunFrames \ (IF pictures[i].shown THEN {} ELSE {pictures[i].frame})
  <2>1. ASSUME NEW j \in Begun'
        PROVE  /\ pictures'[j].frame \in BegunFrames
               /\ ~pictures[i].shown => pictures'[j].frame # pictures[i].frame
    <3>1. j \in DOMAIN pictures' /\ was[j] \in Begun /\ was[j] # i
          /\ pictures'[j].frame = pictures[was[j]].frame
      BY <1>1, <1>2, <2>1 DEF Begun
    <3>2. ~pictures[i].shown => i \in Begun
      BY DEF Begun
    <3>3. QED
      BY <3>1, <3>2 DEF BegunFrames, PicturesOnce
  <2>2. ASSUME NEW k \in Begun, pictures[i].shown \/ pictures[k].frame # pictures[i].frame
        PROVE  pictures[k].frame \in BegunFrames'
    <3>1. k \in DOMAIN pictures \ {i}
      BY <2>2 DEF Begun
    <3>2. PICK j \in DOMAIN pictures' : was[j] = k
      BY <1>1, <3>1
    <3>3. j \in Begun' /\ pictures'[j].frame = pictures[k].frame
      BY <1>1, <2>2, <3>2 DEF Begun
    <3>4. QED
      BY <3>3 DEF BegunFrames
  <2>3. QED
    BY <2>1, <2>2 DEF BegunFrames
<1>7. QED
  BY <1>4, <1>5, <1>6

LEMMA PictureShortened ==
  ASSUME TypeOK, PicturesOnce, NEW i \in DOMAIN pictures, pictures[i].todo # <<>>,
         pictures' = [pictures EXCEPT ![i].todo = Tail(@)]
  PROVE  /\ PicturesOnce'
         /\ Head(pictures[i].todo) \in InPictures
         /\ InPictures' = InPictures \ {Head(pictures[i].todo)}
         /\ BegunFrames' = BegunFrames
<1> DEFINE x == Head(pictures[i].todo)
<1>1. /\ DOMAIN pictures' = DOMAIN pictures
      /\ \A j \in DOMAIN pictures : /\ pictures'[j].frame = pictures[j].frame
                                    /\ pictures'[j].shown = pictures[j].shown
                                    /\ j # i => pictures'[j].todo = pictures[j].todo
      /\ pictures'[i].todo = Tail(pictures[i].todo)
  BY PictureFacts DEF Pictures
<1>2. /\ x \in InPicture(i) /\ InPicture(i)' = InPicture(i) \ {x}
      /\ IsInjective(pictures'[i].todo)
  <2>1. pictures[i].todo \in Seq(Inputs) /\ IsInjective(pictures[i].todo)
    BY PictureFacts DEF PicturesOnce
  <2>2. QED
    BY <1>1, <2>1, ElementsTail DEF InPicture
<1>3. \A j \in DOMAIN pictures : j # i => InPicture(j)' = InPicture(j)
  BY <1>1 DEF InPicture
<1> HIDE DEF x
<1>4. PicturesOnce'
  <2>1. \A j \in DOMAIN pictures' : IsInjective(pictures'[j].todo)
    BY <1>1, <1>2 DEF PicturesOnce
  <2>2. \A j, k \in DOMAIN pictures' : j # k => InPicture(j)' \cap InPicture(k)' = {}
    BY <1>1, <1>2, <1>3 DEF PicturesOnce
  <2>3. \A j, k \in Begun' : pictures'[j].frame = pictures'[k].frame => j = k
    BY <1>1 DEF PicturesOnce, Begun
  <2>4. QED
    BY <2>1, <2>2, <2>3 DEF PicturesOnce
<1>5. x \in InPictures /\ InPictures' = InPictures \ {x}
  <2>1. ASSUME NEW y \in InPictures' PROVE y \in InPictures \ {x}
    <3>1. PICK j \in DOMAIN pictures : y \in InPicture(j)'
      BY <1>1, <2>1 DEF InPictures
    <3>2. y \in InPicture(j) /\ y # x
      BY <1>2, <1>3, <3>1 DEF PicturesOnce
    <3>3. QED
      BY <3>2 DEF InPictures
  <2>2. ASSUME NEW y \in InPictures, y # x PROVE y \in InPictures'
    <3>1. PICK j \in DOMAIN pictures : y \in InPicture(j)
      BY <2>2 DEF InPictures
    <3>2. y \in InPicture(j)'
      BY <1>2, <1>3, <2>2, <3>1
    <3>3. QED
      BY <1>1, <3>2 DEF InPictures
  <2>3. QED
    BY <1>2, <2>1, <2>2 DEF InPictures
<1>6. BegunFrames' = BegunFrames
  <2>1. Begun' = Begun
    BY <1>1 DEF Begun
  <2>2. \A j \in Begun : pictures'[j].frame = pictures[j].frame
    BY <1>1 DEF Begun
  <2>3. QED
    BY <2>1, <2>2 DEF BegunFrames
<1>7. QED
  BY <1>4, <1>5, <1>6 DEF x

LEMMA PictureShown ==
  ASSUME TypeOK, PicturesOnce, NEW i \in Begun,
         pictures' = [pictures EXCEPT ![i].shown = TRUE]
  PROVE  /\ PicturesOnce' /\ InPictures' = InPictures
         /\ BegunFrames' = BegunFrames \ {pictures[i].frame}
<1>1. /\ i \in DOMAIN pictures /\ DOMAIN pictures' = DOMAIN pictures
      /\ \A j \in DOMAIN pictures : /\ pictures'[j].frame = pictures[j].frame
                                    /\ pictures'[j].todo = pictures[j].todo
                                    /\ j # i => pictures'[j].shown = pictures[j].shown
      /\ pictures'[i].shown
  BY PictureFacts DEF Pictures, Begun
<1>2. \A j \in DOMAIN pictures : InPicture(j)' = InPicture(j)
  BY <1>1 DEF InPicture
<1>3. Begun' = Begun \ {i}
  BY <1>1 DEF Begun
<1>4. \A j \in Begun : j \in DOMAIN pictures
  BY DEF Begun
<1>5. PicturesOnce'
  <2>1. \A j \in DOMAIN pictures' : IsInjective(pictures'[j].todo)
    BY <1>1 DEF PicturesOnce
  <2>2. \A j, k \in DOMAIN pictures' : j # k => InPicture(j)' \cap InPicture(k)' = {}
    BY <1>1, <1>2 DEF PicturesOnce
  <2>3. \A j, k \in Begun' : pictures'[j].frame = pictures'[k].frame => j = k
    BY <1>1, <1>3, <1>4 DEF PicturesOnce
  <2>4. QED
    BY <2>1, <2>2, <2>3 DEF PicturesOnce
<1>6. InPictures' = InPictures
  BY <1>1, <1>2 DEF InPictures
<1>7. BegunFrames' = BegunFrames \ {pictures[i].frame}
  <2>1. BegunFrames' = {pictures'[j].frame : j \in Begun \ {i}}
    BY <1>3 DEF BegunFrames
  <2>2. \A j \in Begun \ {i} : pictures'[j].frame = pictures[j].frame /\ pictures[j].frame # pictures[i].frame
    BY <1>1, <1>4 DEF PicturesOnce
  <2>3. QED
    BY <2>1, <2>2 DEF BegunFrames
<1>8. QED
  BY <1>5, <1>6, <1>7

LEMMA PictureBegun ==
  ASSUME TypeOK, PicturesOnce, NEW p \in Pictures, pictures' = Append(pictures, p), ~p.shown,
         IsInjective(p.todo), ToSet(p.todo) \cap InPictures = {}, p.frame \notin BegunFrames
  PROVE  /\ PicturesOnce'
         /\ InPictures' = InPictures \cup ToSet(p.todo)
         /\ BegunFrames' = BegunFrames \cup {p.frame}
<1>1. PICK new \in Nat :
        /\ new \notin DOMAIN pictures /\ DOMAIN pictures' = DOMAIN pictures \cup {new}
        /\ \A j \in DOMAIN pictures : pictures'[j] = pictures[j]
        /\ pictures'[new] = p
  <2>1. /\ Len(pictures) + 1 \notin DOMAIN pictures
        /\ DOMAIN pictures' = DOMAIN pictures \cup {Len(pictures) + 1}
        /\ \A j \in DOMAIN pictures : pictures'[j] = pictures[j]
        /\ pictures'[Len(pictures) + 1] = p
    BY AppendFacts DEF TypeOK
  <2>2. Len(pictures) + 1 \in Nat
    BY DEF TypeOK
  <2>3. QED
    BY <2>1, <2>2
<1>2. /\ \A j \in DOMAIN pictures : InPicture(j)' = InPicture(j)
      /\ InPicture(new)' = ToSet(p.todo)
  BY <1>1 DEF InPicture
<1>3. \A j \in DOMAIN pictures : InPicture(j) \cap ToSet(p.todo) = {}
  BY DEF InPictures
<1>4. Begun' = Begun \cup {new} /\ Begun \subseteq DOMAIN pictures
  BY <1>1 DEF Begun
<1>5. \A j \in Begun : pictures[j].frame # p.frame
  BY DEF BegunFrames
<1>6. PicturesOnce'
  <2>1. \A j \in DOMAIN pictures' : IsInjective(pictures'[j].todo)
    BY <1>1 DEF PicturesOnce
  <2>2. \A j, k \in DOMAIN pictures' : j # k => InPicture(j)' \cap InPicture(k)' = {}
    BY <1>1, <1>2, <1>3 DEF PicturesOnce
  <2>3. \A j, k \in Begun' : pictures'[j].frame = pictures'[k].frame => j = k
    BY <1>1, <1>4, <1>5 DEF PicturesOnce
  <2>4. QED
    BY <2>1, <2>2, <2>3 DEF PicturesOnce
<1>7. InPictures' = InPictures \cup ToSet(p.todo)
  BY <1>1, <1>2 DEF InPictures
<1>8. BegunFrames' = BegunFrames \cup {p.frame}
  BY <1>1, <1>4 DEF BegunFrames
<1>9. QED
  BY <1>6, <1>7, <1>8

LEMMA OwnershipAfter ==
  ASSUME PicturesOnce', IsInjective(stream'),
         InStream' \cap (InPictures' \cup InParser' \cup dropped') = {},
         InPictures' \cap (InParser' \cup dropped') = {}, InParser' \cap dropped' = {},
         handles' \cap Inputs = InStream' \cup InPictures' \cup InParser' \cup dropped',
         display' \cap BegunFrames' = {},
         handles' \cap Frames = display' \cup BegunFrames',
         FramesKnown', ~decoder' => handles' = {}
  PROVE  Ownership'
BY DEF Ownership, InputsOnce, FramesOnce, PicturesOnce, BegunFrames

LEMMA SetsFacts ==
  ASSUME TypeOK, HandlesAssumption
  PROVE  /\ InPictures \subseteq Inputs /\ BegunFrames \subseteq Frames
         /\ InParser \subseteq Inputs /\ InStream \subseteq Inputs
         /\ Inputs \cap Frames = {}
<1>1. InPictures \subseteq Inputs
  BY PictureFacts DEF InPictures
<1>2. BegunFrames \subseteq Frames
  BY PictureFacts DEF BegunFrames, Begun
<1>3. InParser \subseteq Inputs
  BY DEF InParser, TypeOK, Idle
<1>4. InStream \subseteq Inputs
  BY DEF InStream, ToSet, TypeOK
<1>5. QED
  BY <1>1, <1>2, <1>3, <1>4 DEF HandlesAssumption

LEMMA WorkersOwnership ==
  ASSUME TypeOK, DecoderThere, Ownership, HandlesAssumption, Workers
  PROVE  Ownership'
<1> USE OwnershipParts, SetsFacts
<1>1. ASSUME NEW h \in Inputs, Empty(h) PROVE Ownership'
  <2>1. /\ PicturesOnce' /\ InPictures' = InPictures /\ BegunFrames' = BegunFrames
        /\ InParser' = InParser /\ dropped' = dropped /\ display' = display
        /\ FramesKnown' /\ decoder'
    <3>1. handles' \cap Frames = handles \cap Frames
      BY <1>1 DEF Empty
    <3>2. QED
      BY <1>1, <3>1, PicturesSame DEF Empty, InParser, FramesKnown, Working
  <2>2. \/ stream' = stream /\ handles' = handles
        \/ stream' = Append(stream, h) /\ handles' = handles \cup {h}
    BY <1>1 DEF Empty
  <2>3. CASE stream' = stream /\ handles' = handles
    BY <2>1, <2>3, OwnershipAfter DEF InStream, Working
  <2>4. CASE stream' = Append(stream, h) /\ handles' = handles \cup {h}
    <3>1. h \notin handles /\ h \notin ToSet(stream) /\ h # Eos
      BY <1>1 DEF Empty, InStream, HandlesAssumption
    <3>2. ToSet(stream') = ToSet(stream) \cup {h} /\ IsInjective(stream')
      BY <2>4, <3>1, ElementsAppend DEF TypeOK
    <3>3. InStream' = InStream \cup {h}
      BY <3>1, <3>2 DEF InStream
    <3>4. QED
      BY <2>1, <2>4, <3>1, <3>2, <3>3, OwnershipAfter
  <2>5. QED
    BY <2>2, <2>3, <2>4
<1>2. ASSUME EmptyEos PROVE Ownership'
  <2>1. ToSet(stream') = ToSet(stream) \cup {Eos} /\ IsInjective(stream')
    BY <1>2, ElementsAppend DEF EmptyEos, TypeOK
  <2>2. InStream' = InStream
    BY <2>1 DEF InStream
  <2>3. /\ PicturesOnce' /\ InPictures' = InPictures /\ BegunFrames' = BegunFrames
        /\ InParser' = InParser /\ dropped' = dropped /\ display' = display /\ handles' = handles
        /\ FramesKnown' /\ decoder' = decoder
    BY <1>2, PicturesSame DEF EmptyEos, InParser, FramesKnown, buffers
  <2>4. QED
    BY <2>1, <2>2, <2>3, OwnershipAfter
<1>3. ASSUME NEW f \in Frames, Fill(f) PROVE Ownership'
  <2>1. /\ PicturesOnce' /\ InPictures' = InPictures /\ BegunFrames' = BegunFrames
        /\ InParser' = InParser /\ dropped' = dropped /\ InStream' = InStream
        /\ stream' = stream /\ decoder'
        /\ handles' = handles \cup {f} /\ display' = display \cup {f} /\ f \notin handles
    BY <1>3, PicturesSame DEF Fill, InParser, InStream, Working
  <2>2. FramesKnown'
    <3>1. CASE f \in dpb
      BY <1>3, <2>1, <3>1 DEF Fill, FramesKnown
    <3>2. CASE f \notin dpb
      BY <1>3, <2>1, <3>2 DEF Fill, CreateOutputBuffer, FramesKnown
    <3>3. QED
      BY <3>1, <3>2
  <2>3. QED
    BY <2>1, <2>2, OwnershipAfter
<1>4. ASSUME NEW f \in Frames, Free(f) PROVE Ownership'
  <2>1. /\ PicturesOnce' /\ InPictures' = InPictures /\ BegunFrames' = BegunFrames
        /\ InParser' = InParser /\ dropped' = dropped /\ InStream' = InStream
        /\ stream' = stream /\ display' = display /\ handles' = handles /\ decoder' = decoder
    BY <1>4, PicturesSame DEF Free, InParser, InStream, library
  <2>2. FramesKnown'
    BY <1>4, <2>1 DEF Free, FramesKnown
  <2>3. QED
    BY <2>1, <2>2, OwnershipAfter
<1>5. QED
  BY <1>1, <1>2, <1>3, <1>4 DEF Workers

LEMMA CallbacksOwnership ==
  ASSUME TypeOK, DecoderThere, Ownership, HandlesAssumption, BoundsAssumption, Filled, Callbacks
  PROVE  Ownership'
<1> USE OwnershipParts, SetsFacts
<1>1. ASSUME ResolutionFound PROVE Ownership'
  <2>1. /\ PicturesOnce' /\ InPictures' = InPictures /\ BegunFrames' = BegunFrames
        /\ InParser' = InParser /\ InStream' = InStream /\ FramesKnown'
        /\ UNCHANGED <<stream, dropped, display, handles, decoder>>
    BY <1>1, PicturesSame DEF ResolutionFound, InParser, InStream, FramesKnown, buffers, library
  <2>2. QED
    BY <2>1, OwnershipAfter
<1>2. ASSUME DisplayEos PROVE Ownership'
  <2>1. ToSet(stream') = ToSet(stream) \ {Eos} /\ IsInjective(stream')
    BY <1>2, ElementsTail DEF DisplayEos, TypeOK
  <2>2. InStream' = InStream
    BY <2>1 DEF InStream
  <2>3. /\ PicturesOnce' /\ InPictures' = InPictures /\ BegunFrames' = BegunFrames
        /\ InParser' = InParser /\ FramesKnown'
        /\ UNCHANGED <<dropped, display, handles, decoder>>
    BY <1>2, PicturesSame DEF DisplayEos, InParser, FramesKnown, buffers
  <2>4. QED
    BY <2>1, <2>2, <2>3, OwnershipAfter
<1>3. ASSUME NEW f \in Frames, NEW n \in 1..2, Begin(f, n) PROVE Ownership'
  <2> DEFINE read == SubSeq(stream, 1, n)
             p == [frame |-> f, use |-> use[f], shown |-> FALSE, slices |-> n,
                   todo |-> IF media.parsed THEN read ELSE <<>>]
  <2>1. /\ n \in 1..Len(stream) /\ read \in Seq(Inputs) /\ ToSet(read) \subseteq Inputs
    BY <1>3, BeginFacts DEF Begin
  <2>2. /\ ToSet(stream) = ToSet(read) \cup ToSet(stream')
        /\ ToSet(read) \cap ToSet(stream') = {}
        /\ IsInjective(read) /\ IsInjective(stream')
    BY <1>3, <2>1, ElementsSplit DEF Begin, TypeOK
  <2>3. p \in Pictures /\ ~p.shown /\ p.frame = f
    BY <1>3, <2>1 DEF Begin, TypeOK, Filled, Pictures
  <2>4. /\ ToSet(p.todo) = IF media.parsed THEN ToSet(read) ELSE {}
        /\ IsInjective(p.todo)
    BY <2>2 DEF ToSet, IsInjective
  <2>5. /\ pictures' = Append(pictures, p)
        /\ f \in display /\ display' = display \ {f}
        /\ dropped' = IF media.parsed THEN dropped ELSE dropped \cup ToSet(read)
        /\ UNCHANGED <<handles, decoder, parser, dpb, allocated, shouldBeCopied>>
    BY <1>3 DEF Begin, buffers
  <2> HIDE DEF read, p
  <2>6. ToSet(read) \subseteq InStream /\ InStream' = InStream \ ToSet(read)
    BY <2>1, <2>2 DEF InStream, HandlesAssumption
  <2>7. ToSet(p.todo) \cap InPictures = {} /\ p.frame \notin BegunFrames
    BY <2>3, <2>4, <2>5, <2>6
  <2>8. /\ PicturesOnce'
        /\ InPictures' = InPictures \cup ToSet(p.todo)
        /\ BegunFrames' = BegunFrames \cup {f}
    BY <2>3, <2>4, <2>5, <2>7, PictureBegun
  <2>9. FramesKnown' /\ InParser' = InParser
    BY <2>5 DEF FramesKnown, InParser
  <2>10. QED
    BY <2>2, <2>4, <2>5, <2>6, <2>8, <2>9, OwnershipAfter
<1>4. ASSUME NEW i \in DOMAIN pictures, EndParsing(i) PROVE Ownership'
  <2> DEFINE x == Head(pictures[i].todo)
  <2>1. /\ pictures[i].todo # <<>> /\ pictures[i].todo \in Seq(Inputs) /\ parser.pc = "out"
        /\ UNCHANGED <<stream, display, handles, decoder, dpb, allocated, shouldBeCopied>>
    BY <1>4, PictureFacts DEF EndParsing, buffers
  <2>2. /\ PicturesOnce' /\ x \in InPictures
        /\ InPictures' = InPictures \ {x} /\ BegunFrames' = BegunFrames
    <3>1. CASE pictures' = RemoveAt(pictures, i) /\ pictures[i].shown /\ Len(pictures[i].todo) = 1
      <4>1. ToSet(pictures[i].todo) = {x}
        BY <2>1, <3>1 DEF ToSet
      <4>2. InPicture(i) = {x}
        BY <4>1 DEF InPicture
      <4>3. /\ PicturesOnce'
            /\ InPictures' = InPictures \ InPicture(i)
            /\ BegunFrames' = BegunFrames \ {}
        BY <3>1, PictureRemoved
      <4>4. x \in InPictures
        BY <4>2 DEF InPictures
      <4>5. QED
        BY <4>2, <4>3, <4>4
    <3>2. CASE pictures' = [pictures EXCEPT ![i].todo = Tail(@)]
      BY <2>1, <3>2, PictureShortened
    <3>3. QED
      BY <1>4, <3>1, <3>2 DEF EndParsing
  <2>3. \/ dropped' = dropped \cup {x} /\ parser' = parser
        \/ dropped' = dropped /\ parser'.pc = "associate" /\ parser'.input = x
    BY <1>4 DEF EndParsing
  <2> HIDE DEF x
  <2>4. InParser = {} /\ InStream' = InStream /\ FramesKnown'
    BY <2>1 DEF InParser, InStream, FramesKnown
  <2>5. InParser' \cup dropped' = dropped \cup {x} /\ InParser' \cap dropped' = {}
    BY <2>1, <2>2, <2>3, <2>4 DEF InParser
  <2>6. QED
    BY <2>1, <2>2, <2>4, <2>5, OwnershipAfter
<1>5. ASSUME NEW i \in DOMAIN pictures, Display(i) PROVE Ownership'
  <2>1. /\ i \in Begun /\ decoder' /\ handles' = handles \ {pictures[i].frame}
        /\ UNCHANGED <<stream, display, dropped, parser, dpb, allocated, shouldBeCopied>>
        /\ pictures[i].frame \in Frames
    BY <1>5, PictureFacts DEF Display, Displayable, Begun
  <2>2. /\ PicturesOnce' /\ InPictures' = InPictures
        /\ BegunFrames' = BegunFrames \ {pictures[i].frame}
    <3>1. CASE pictures' = RemoveAt(pictures, i) /\ pictures[i].todo = <<>>
      <4>1. InPicture(i) = {}
        BY <3>1 DEF InPicture, ToSet
      <4>2. QED
        BY <2>1, <3>1, <4>1, PictureRemoved DEF Begun
    <3>2. CASE pictures' = [pictures EXCEPT ![i].shown = TRUE]
      BY <2>1, <3>2, PictureShown
    <3>3. QED
      BY <1>5, <3>1, <3>2 DEF Display
  <2>3. pictures[i].frame \in BegunFrames
    BY <2>1 DEF BegunFrames
  <2>4. InStream' = InStream /\ InParser' = InParser /\ FramesKnown'
    BY <2>1 DEF InStream, InParser, FramesKnown
  <2>5. QED
    BY <2>1, <2>2, <2>3, <2>4, OwnershipAfter
<1>6. ASSUME NEW hasSei \in BOOLEAN, Associate(hasSei) PROVE Ownership'
  <2>1. InParser' = {} /\ InParser = {parser.input} /\ dropped' = dropped \cup {parser.input}
    BY <1>6 DEF Associate, InParser, Idle
  <2>2. /\ PicturesOnce' /\ InPictures' = InPictures /\ BegunFrames' = BegunFrames
        /\ InStream' = InStream /\ FramesKnown'
        /\ UNCHANGED <<stream, display, handles, decoder>>
    BY <1>6, PicturesSame DEF Associate, InStream, FramesKnown, buffers
  <2>3. QED
    BY <2>1, <2>2, OwnershipAfter
<1>7. ASSUME NEW h \in Inputs, InputBufferDestroy(h) PROVE Ownership'
  <2>1. /\ h \in dropped /\ dropped' = dropped \ {h} /\ handles' = handles \ {h}
        /\ PicturesOnce' /\ InPictures' = InPictures /\ BegunFrames' = BegunFrames
        /\ InStream' = InStream /\ InParser' = InParser
        /\ UNCHANGED <<stream, display, decoder, dpb, allocated, shouldBeCopied>>
    BY <1>7, PicturesSame DEF InputBufferDestroy, InStream, InParser
  <2>2. FramesKnown'
    BY <2>1 DEF FramesKnown
  <2>3. QED
    BY <2>1, <2>2, OwnershipAfter
<1>8. QED
  BY <1>1, <1>2, <1>3, <1>4, <1>5, <1>6, <1>7 DEF Callbacks

LEMMA MainOwnership ==
  ASSUME TypeOK, DecoderThere, Ownership, HandlesAssumption, Main
  PROVE  Ownership'
<1> USE OwnershipParts, SetsFacts
<1>1. ASSUME Start PROVE Ownership'
  <2>1. /\ PicturesOnce' /\ InPictures' = InPictures /\ BegunFrames' = BegunFrames
        /\ InParser' = InParser /\ InStream' = InStream /\ FramesKnown'
        /\ UNCHANGED <<stream, dropped, display, handles>> /\ handles = {}
    BY <1>1, PicturesSame DEF Start, CreateDecoder, InParser, InStream, FramesKnown, buffers, library
  <2>2. QED
    BY <2>1, OwnershipAfter
<1>2. ASSUME NEW again \in BOOLEAN, Stop(again) PROVE Ownership'
  <2>1. /\ PicturesOnce' /\ InPictures' = InPictures /\ BegunFrames' = BegunFrames
        /\ InParser' = InParser /\ InStream' = InStream /\ FramesKnown'
        /\ UNCHANGED <<stream, dropped, display, handles, decoder>>
    BY <1>2, PicturesSame DEF Stop, InParser, InStream, FramesKnown, buffers, library
  <2>2. QED
    BY <2>1, OwnershipAfter
<1>3. ASSUME NEW f \in Frames, ReleaseBufs(f) PROVE Ownership'
  <2>1. /\ main.pc = "destroy" /\ parser.pc = "out" /\ decoder
        /\ handles' = handles \ {f} /\ dpb' = dpb \ {f} /\ shouldBeCopied' = shouldBeCopied \ {f}
        /\ UNCHANGED <<stream, parser, decoder, allocated>>
    BY <1>3 DEF ReleaseBufs, DecoderThere
  <2>2. FramesKnown' /\ InStream' = InStream /\ InParser' = InParser
    BY <2>1 DEF FramesKnown, InStream, InParser
  <2>3. CASE f \in display /\ display' = display \ {f} /\ UNCHANGED <<pictures, dropped>>
    BY <2>1, <2>2, <2>3, PicturesSame, OwnershipAfter
  <2>4. ASSUME NEW i \in DOMAIN pictures, pictures[i].frame = f, ~pictures[i].shown,
               pictures' = RemoveAt(pictures, i),
               dropped' = dropped \cup ToSet(pictures[i].todo), UNCHANGED display
        PROVE  Ownership'
    <3>1. /\ PicturesOnce' /\ InPictures' = InPictures \ InPicture(i)
          /\ BegunFrames' = BegunFrames \ {f}
      BY <2>4, PictureRemoved
    <3>2. InPicture(i) \subseteq InPictures /\ f \in BegunFrames
          /\ dropped' = dropped \cup InPicture(i)
      BY <2>4 DEF InPictures, InPicture, BegunFrames, Begun
    <3>3. InParser = {}
      BY <2>1 DEF InParser
    <3>4. QED
      BY <2>1, <2>2, <2>4, <3>1, <3>2, <3>3, OwnershipAfter
  <2>5. QED
    BY <1>3, <2>3, <2>4 DEF ReleaseBufs
<1>4. ASSUME DropInputs PROVE Ownership'
  <2>1. /\ main.pc = "destroy" /\ parser.pc = "out" /\ decoder
        /\ UNCHANGED <<handles, dpb, shouldBeCopied, allocated, parser, decoder, display>>
    BY <1>4 DEF DropInputs, DecoderThere, buffers
  <2>2. FramesKnown' /\ InParser' = {} /\ InParser = {}
    BY <2>1 DEF FramesKnown, InParser
  <2>3. CASE stream' = <<>> /\ dropped' = dropped \cup InStream /\ UNCHANGED pictures
    <3>1. InStream' = {} /\ IsInjective(stream')
      BY <2>3 DEF InStream, ToSet, IsInjective
    <3>2. QED
      BY <2>1, <2>2, <2>3, <3>1, PicturesSame, OwnershipAfter
  <2>4. ASSUME NEW i \in DOMAIN pictures, pictures[i].shown, pictures' = RemoveAt(pictures, i),
               dropped' = dropped \cup InPicture(i), UNCHANGED stream
        PROVE  Ownership'
    <3>1. /\ PicturesOnce' /\ InPictures' = InPictures \ InPicture(i)
          /\ BegunFrames' = BegunFrames \ {}
      BY <2>4, PictureRemoved
    <3>2. InPicture(i) \subseteq InPictures /\ InStream' = InStream
      BY <2>4 DEF InPictures, InStream
    <3>3. QED
      BY <2>1, <2>2, <2>4, <3>1, <3>2, OwnershipAfter
  <2>5. QED
    BY <1>4, <2>3, <2>4 DEF DropInputs, InStream, InPicture
<1>5. ASSUME Destroyed PROVE Ownership'
  <2>1. /\ parser.pc = "out" /\ stream = <<>> /\ display = {} /\ pictures = <<>> /\ dropped = {}
        /\ UNCHANGED <<stream, display, pictures, dropped, parser, handles, dpb, allocated, shouldBeCopied>>
    BY <1>5 DEF Destroyed, CreateDecoder, buffers, library
  <2>2. InStream = {} /\ InPictures = {} /\ InParser = {} /\ BegunFrames = {}
    BY <2>1 DEF InStream, InPictures, InParser, BegunFrames, Begun, ToSet
  <2>3. handles = {}
    BY <2>1, <2>2 DEF TypeOK
  <2>4. /\ PicturesOnce' /\ InPictures' = InPictures /\ BegunFrames' = BegunFrames
        /\ InParser' = InParser /\ InStream' = InStream /\ FramesKnown'
    BY <2>1, PicturesSame DEF InParser, InStream, FramesKnown
  <2>5. QED
    BY <2>1, <2>3, <2>4, OwnershipAfter
<1>6. QED
  BY <1>1, <1>2, <1>3, <1>4, <1>5 DEF Main

-----------------------------------------------------------------------------
(* The SEI messages                                                         *)

LEMMA SeisFrame ==
  ASSUME SeisKnown, UNCHANGED <<media, pictures, parser, displaySeis, stale>>
  PROVE  SeisKnown'
BY DEF SeisKnown, HasPicture

LEMMA OnePicture ==
  ASSUME TypeOK, Ownership, SeisKnown, ~media.early, NEW f, NEW u, NEW v,
         HasPicture(f, u), HasPicture(f, v)
  PROVE  u = v
<1>1. PICK i \in DOMAIN pictures : pictures[i].frame = f /\ pictures[i].use = u
  BY DEF HasPicture
<1>2. PICK j \in DOMAIN pictures : pictures[j].frame = f /\ pictures[j].use = v
  BY DEF HasPicture
<1>3. i \in Begun /\ j \in Begun
  BY DEF SeisKnown, Begun
<1>4. QED
  BY <1>1, <1>2, <1>3 DEF Ownership, FramesOnce

LEMMA HasPictureFacts ==
  ASSUME TypeOK, Ownership, SeisKnown, ~media.early, NEW f, NEW u, HasPicture(f, u)
  PROVE  f \in handles
<1>1. PICK i \in DOMAIN pictures : pictures[i].frame = f
  BY DEF HasPicture
<1>2. i \in Begun
  BY <1>1 DEF SeisKnown, Begun
<1>3. QED
  BY <1>1, <1>2 DEF Ownership, FramesOnce

LEMMA PictureRemains ==
  ASSUME TypeOK, NEW i \in DOMAIN pictures, pictures' = RemoveAt(pictures, i)
  PROVE  /\ \A j \in DOMAIN pictures' : \E k \in DOMAIN pictures : pictures'[j] = pictures[k]
         /\ \A f, u : HasPicture(f, u) /\ f # pictures[i].frame => HasPicture(f, u)'
<1>1. PICK was \in [DOMAIN pictures' -> DOMAIN pictures \ {i}] :
           /\ \A j \in DOMAIN pictures' : pictures'[j] = pictures[was[j]]
           /\ \A k \in DOMAIN pictures \ {i} : \E j \in DOMAIN pictures' : was[j] = k
  BY RemoveAtOrigin, PictureFacts
<1>2. ASSUME NEW f, NEW u, HasPicture(f, u), f # pictures[i].frame PROVE HasPicture(f, u)'
  <2>1. PICK k \in DOMAIN pictures : pictures[k].frame = f /\ pictures[k].use = u
    BY <1>2 DEF HasPicture
  <2>2. k # i
    BY <1>2, <2>1
  <2>3. PICK j \in DOMAIN pictures' : was[j] = k
    BY <1>1, <2>2
  <2>4. pictures'[j] = pictures[k]
    BY <1>1, <2>3
  <2>5. QED
    BY <2>1, <2>4 DEF HasPicture
<1>3. QED
  BY <1>1, <1>2

LEMMA SeisNext ==
  ASSUME IInv, HandlesAssumption, Workers \/ Callbacks \/ Main
  PROVE  SeisKnown' /\ SeisWithTheirPicture'
<1> SUFFICES ASSUME ~media.early PROVE (~media'.early => SeisKnown') /\ SeisWithTheirPicture'
  <2>1. media' = media
    BY DEF Workers, Callbacks, Main, Empty, EmptyEos, Fill, Free, ResolutionFound, DisplayEos, Begin,
           EndParsing, Display, Associate, InputBufferDestroy, Start, CreateDecoder, Stop, ReleaseBufs,
           DropInputs, Destroyed
  <2>2. QED
    BY <2>1 DEF SeisKnown, SeisWithTheirPicture
<1>0. /\ TypeOK /\ Ownership /\ SeisKnown /\ SeisWithTheirPicture
      /\ \A i \in DOMAIN pictures : ~pictures[i].shown
      /\ parser.pc # "out" => parser.pc = "associate" /\ HasPicture(parser.frame, parser.use)
      /\ ~stale => \A f \in Frames : \A u \in displaySeis[f] : HasPicture(f, u)
  BY DEF IInv, SeisKnown
<1> USE <1>0
<1>a. ASSUME UNCHANGED <<media, pictures, parser, displaySeis, stale, shown>>
      PROVE  SeisKnown' /\ SeisWithTheirPicture'
  BY <1>a, SeisFrame DEF SeisWithTheirPicture
<1>1. ASSUME Workers PROVE SeisKnown' /\ SeisWithTheirPicture'
  <2>1. ASSUME NEW f \in Frames, Fill(f) PROVE SeisKnown' /\ SeisWithTheirPicture'
    <3>1. UNCHANGED <<media, pictures, parser, stale, shown>>
      BY <2>1 DEF Fill, history
    <3>2. \A g \in Frames : displaySeis'[g] \subseteq displaySeis[g]
      <4>1. CASE f \in dpb
        BY <2>1, <4>1 DEF Fill
      <4>2. CASE f \notin dpb
        <5>1. PICK kept \in {displaySeis[f], {}} : displaySeis' = [displaySeis EXCEPT ![f] = kept]
          BY <2>1, <4>2 DEF Fill, CreateOutputBuffer
        <5>2. \A g \in Frames : displaySeis'[g] = IF g = f THEN kept ELSE displaySeis[g]
          BY <5>1 DEF TypeOK
        <5>3. QED
          BY <5>2
      <4>3. QED
        BY <4>1, <4>2
    <3>3. QED
      BY <3>1, <3>2 DEF SeisKnown, SeisWithTheirPicture, HasPicture
  <2>2. ASSUME NEW h \in Inputs, Empty(h) PROVE SeisKnown' /\ SeisWithTheirPicture'
    BY <2>2, <1>a DEF Empty, history
  <2>3. ASSUME EmptyEos PROVE SeisKnown' /\ SeisWithTheirPicture'
    BY <2>3, <1>a DEF EmptyEos, history
  <2>4. ASSUME NEW f \in Frames, Free(f) PROVE SeisKnown' /\ SeisWithTheirPicture'
    BY <2>4, <1>a DEF Free, history, library
  <2>5. QED
    BY <1>1, <2>1, <2>2, <2>3, <2>4 DEF Workers
<1>2. ASSUME Callbacks PROVE SeisKnown' /\ SeisWithTheirPicture'
  <2>1. ASSUME ResolutionFound \/ DisplayEos \/ \E h \in Inputs : InputBufferDestroy(h)
        PROVE  SeisKnown' /\ SeisWithTheirPicture'
    BY <2>1, <1>a DEF ResolutionFound, DisplayEos, InputBufferDestroy, library, history
  <2>2. ASSUME NEW f \in Frames, NEW n \in 1..2, Begin(f, n)
        PROVE  SeisKnown' /\ SeisWithTheirPicture'
    <3>1. UNCHANGED <<media, parser, displaySeis, stale, shown>>
      BY <2>2 DEF Begin, history
    <3>2. PICK p : pictures' = Append(pictures, p) /\ p.shown = FALSE
      BY <2>2 DEF Begin
    <3>3. /\ DOMAIN pictures' = DOMAIN pictures \cup {Len(pictures) + 1}
          /\ \A i \in DOMAIN pictures : pictures'[i] = pictures[i]
          /\ pictures'[Len(pictures) + 1] = p
      BY <3>2 DEF TypeOK
    <3>4. \A g, u : HasPicture(g, u) => HasPicture(g, u)'
      BY <3>3 DEF HasPicture
    <3>5. \A i \in DOMAIN pictures' : ~pictures'[i].shown
      BY <3>2, <3>3
    <3>6. QED
      BY <3>1, <3>4, <3>5 DEF SeisKnown, SeisWithTheirPicture
  <2>3. ASSUME NEW i \in DOMAIN pictures, EndParsing(i)
        PROVE  SeisKnown' /\ SeisWithTheirPicture'
    <3>1. /\ UNCHANGED <<media, displaySeis, stale, shown>>
          /\ pictures' = [pictures EXCEPT ![i].todo = Tail(@)]
          /\ parser' = [pc |-> "associate", frame |-> pictures[i].frame, use |-> pictures[i].use,
                        input |-> Head(pictures[i].todo)]
      BY <2>3 DEF EndParsing, history
    <3>2. /\ DOMAIN pictures' = DOMAIN pictures
          /\ \A j \in DOMAIN pictures : /\ pictures'[j].frame = pictures[j].frame
                                        /\ pictures'[j].use = pictures[j].use
                                        /\ pictures'[j].shown = pictures[j].shown
      BY <3>1, PictureFacts DEF Pictures
    <3>3. ASSUME NEW g, NEW u, HasPicture(g, u) PROVE HasPicture(g, u)'
      BY <3>2, <3>3 DEF HasPicture
    <3>4. HasPicture(parser.frame, parser.use)' /\ parser'.pc = "associate"
      <4>1. /\ i \in DOMAIN pictures' /\ parser'.frame = pictures'[i].frame
            /\ parser'.use = pictures'[i].use
        BY <3>1, <3>2
      <4>2. QED
        BY <3>1, <4>1 DEF HasPicture
    <3>5. \A j \in DOMAIN pictures' : ~pictures'[j].shown
      BY <3>2
    <3>6. QED
      BY <3>1, <3>3, <3>4, <3>5 DEF SeisKnown, SeisWithTheirPicture
  <2>4. ASSUME NEW i \in DOMAIN pictures, Display(i)
        PROVE  SeisKnown' /\ SeisWithTheirPicture'
    <3> DEFINE p == pictures[i]
    <3>1. /\ p.todo = <<>> /\ parser.frame # p.frame
          /\ UNCHANGED <<media, parser, stale>>
          /\ pictures' = RemoveAt(pictures, i)
          /\ displaySeis' = [displaySeis EXCEPT ![p.frame] = {}]
          /\ shown' = [frame |-> p.frame, use |-> p.use, seis |-> displaySeis[p.frame]]
      BY <2>4 DEF Display, Displayable
    <3>2. /\ \A j \in DOMAIN pictures' : \E k \in DOMAIN pictures : pictures'[j] = pictures[k]
          /\ \A f, u : HasPicture(f, u) /\ f # p.frame => HasPicture(f, u)'
      BY <3>1, PictureRemains
    <3>3. HasPicture(p.frame, p.use) /\ p.frame \in Frames
      BY PictureFacts DEF HasPicture
    <3> HIDE DEF p
    <3>4. \A j \in DOMAIN pictures' : ~pictures'[j].shown
      BY <3>2
    <3>5. ~stale => \A f \in Frames : \A u \in displaySeis'[f] : HasPicture(f, u)'
      BY <3>1, <3>2 DEF TypeOK
    <3>6. SeisWithTheirPicture'
      <4>1. ~stale => \A u \in displaySeis[p.frame] : u = p.use
        BY <3>3, OnePicture
      <4>2. QED
        BY <3>1, <4>1 DEF SeisWithTheirPicture
    <3>7. QED
      BY <3>1, <3>2, <3>4, <3>5, <3>6 DEF SeisKnown
  <2>5. ASSUME NEW hasSei \in BOOLEAN, Associate(hasSei)
        PROVE  SeisKnown' /\ SeisWithTheirPicture'
    <3>1. /\ UNCHANGED <<media, pictures, stale, shown>> /\ parser.pc = "associate"
          /\ \/ displaySeis' = displaySeis
             \/ displaySeis' = [displaySeis EXCEPT ![parser.frame] = @ \cup {parser.use}]
      BY <2>5 DEF Associate, history
    <3>2. parser.frame \in Frames /\ HasPicture(parser.frame, parser.use) /\ parser.frame \in handles
      BY <3>1, HasPictureFacts DEF TypeOK, Idle
    <3>3. parser'.pc = "out"
      BY <2>5, <3>2 DEF Associate, Idle
    <3>4. \A f \in Frames : \A u \in displaySeis'[f] :
            u \in displaySeis[f] \/ (f = parser.frame /\ u = parser.use)
      <4>1. CASE displaySeis' = displaySeis
        BY <4>1
      <4>2. CASE displaySeis' = [displaySeis EXCEPT ![parser.frame] = @ \cup {parser.use}]
        <5>1. \A f \in Frames : displaySeis'[f] = IF f = parser.frame THEN displaySeis[f] \cup {parser.use}
                                                 ELSE displaySeis[f]
          BY <3>2, <4>2 DEF TypeOK
        <5>2. QED
          BY <5>1
      <4>3. QED
        BY <3>1, <4>1, <4>2
    <3>5. \A f, u : HasPicture(f, u)' <=> HasPicture(f, u)
      BY <3>1 DEF HasPicture
    <3>6. QED
      BY <3>1, <3>2, <3>3, <3>4, <3>5 DEF SeisKnown, SeisWithTheirPicture
  <2>6. QED
    BY <1>2, <2>1, <2>2, <2>3, <2>4, <2>5 DEF Callbacks
<1>3. ASSUME Main PROVE SeisKnown' /\ SeisWithTheirPicture'
  <2>1. ASSUME Start \/ Destroyed \/ \E again \in BOOLEAN : Stop(again)
        PROVE  SeisKnown' /\ SeisWithTheirPicture'
    BY <2>1, <1>a DEF Start, Destroyed, CreateDecoder, Stop, library, history
  <2>2. ASSUME NEW f \in Frames, ReleaseBufs(f) PROVE SeisKnown' /\ SeisWithTheirPicture'
    <3>1. /\ UNCHANGED <<media, parser, displaySeis, shown>> /\ parser.pc = "out"
          /\ stale' = (stale \/ displaySeis[f] # {})
          /\ \/ pictures' = pictures
             \/ \E i \in DOMAIN pictures : pictures[i].frame = f /\ pictures' = RemoveAt(pictures, i)
      BY <2>2 DEF ReleaseBufs
    <3>2. /\ \A j \in DOMAIN pictures' : \E k \in DOMAIN pictures : pictures'[j] = pictures[k]
          /\ \A g, u : HasPicture(g, u) /\ g # f => HasPicture(g, u)'
      <4>1. CASE pictures' = pictures
        BY <4>1 DEF HasPicture
      <4>2. CASE \E i \in DOMAIN pictures : pictures[i].frame = f /\ pictures' = RemoveAt(pictures, i)
        BY <4>2, PictureRemains
      <4>3. QED
        BY <3>1, <4>1, <4>2
    <3>3. \A j \in DOMAIN pictures' : ~pictures'[j].shown
      BY <3>2
    <3>4. ~stale' => \A g \in Frames : \A u \in displaySeis[g] : HasPicture(g, u)'
      BY <3>1, <3>2
    <3>5. QED
      BY <3>1, <3>3, <3>4 DEF SeisKnown, SeisWithTheirPicture
  <2>3. ASSUME DropInputs PROVE SeisKnown' /\ SeisWithTheirPicture'
    BY <2>3, <1>a DEF DropInputs, history
  <2>4. QED
    BY <1>3, <2>1, <2>2, <2>3 DEF Main
<1>4. QED
  BY <1>1, <1>2, <1>3

-----------------------------------------------------------------------------
LEMMA NextIInv ==
  ASSUME HandlesAssumption, BoundsAssumption, IInv, [Next]_vars
  PROVE  IInv'
<1>1. CASE Next
  <2>1. Workers \/ Callbacks \/ Main
    BY <1>1 DEF Next
  <2>2. TypeOK' /\ Filled'
    BY <2>1, WorkersType, CallbacksType, MainType DEF IInv
  <2>3. DecoderThere' /\ Announced'
    BY <2>1, AnnouncedNext DEF IInv
  <2>4. Ownership'
    BY <2>1, WorkersOwnership, CallbacksOwnership, MainOwnership DEF IInv
  <2>5. SeisKnown' /\ SeisWithTheirPicture'
    BY <2>1, SeisNext
  <2>6. QED
    BY <2>2, <2>3, <2>4, <2>5 DEF IInv
<1>2. CASE UNCHANGED vars
  <2>1. UNCHANGED <<media, decoder, resolutionFoundHasBeenCalled, handles, dpb, allocated,
                    shouldBeCopied, stream, display, pictures, dropped, parser, displaySeis, main, use,
                    shown, announced, restarted, stale>>
    BY <1>2 DEF vars, buffers, library, history
  <2>2. TypeOK' /\ Filled' /\ DecoderThere' /\ Announced'
    BY <2>1 DEF IInv, TypeOK, Filled, DecoderThere, Announced, Pictures, Idle
  <2>3. Ownership'
    BY <2>1 DEF IInv, Ownership, InputsOnce, FramesOnce, FramesKnown, InStream, InPicture,
                InPictures, InParser, Begun
  <2>4. SeisKnown' /\ SeisWithTheirPicture'
    BY <2>1, SeisFrame DEF IInv, SeisWithTheirPicture
  <2>5. QED
    BY <2>2, <2>3, <2>4 DEF IInv
<1>3. QED
  BY <1>1, <1>2

(* IInv is an invariant.                                                      *)
THEOREM Inductive == Spec => []IInv
<1>1. Init => IInv
  BY ConstantsAssumption, InitIInv
<1>2. IInv /\ [Next]_vars => IInv'
  BY ConstantsAssumption, NextIInv
<1>3. QED
  BY <1>1, <1>2, PTL DEF Spec

(* Every handle the module's map knows is with the library, in one place; its  *)
(* frames are in the dpb and reach the client's memory; without a decoder the  *)
(* map is empty (module_dec.cpp:169-185, 244-247, 402-470, 573-620, 700-797). *)
THEOREM OwnershipHolds == Spec => [](TypeOK /\ Ownership)
<1>1. IInv => TypeOK /\ Ownership
  BY DEF IInv
<1>2. QED
  BY <1>1, Inductive, PTL

(* SEI messages are reported with the picture they were parsed for, unless a  *)
(* frame was released that still had some (module_dec.cpp:125-131, 169-176,   *)
(* 213-226).                                                                  *)
THEOREM SeisWithTheirPictureHolds == Spec => []SeisWithTheirPicture
<1>1. IInv => SeisWithTheirPicture
  BY DEF IInv
<1>2. QED
  BY <1>1, Inductive, PTL

(* The client learns the resolution once, before a picture is decoded, except *)
(* from a decoder that Restart has created (module_dec.cpp:264-271, 380-410). *)
THEOREM ResolutionAnnouncedHolds == Spec => []ResolutionAnnounced
<1>1. IInv => ResolutionAnnounced
  BY DEF IInv, Announced, ResolutionAnnounced
<1>2. QED
  BY <1>1, Inductive, PTL

(* Without the early callback the header data of a picture never goes to a     *)
(* null handle: its frame is not given back under the parser                  *)
(* (module_dec.cpp:82-131).                                                   *)
THEOREM NeverNull == Spec => [](~media.early => parser.pc # "null")
<1>1. IInv => (~media.early => parser.pc # "null")
  BY DEF IInv, SeisKnown
<1>2. QED
  BY <1>1, Inductive, PTL

(***************************************************************************)
(* The time stamps of the component.                                        *)
(***************************************************************************)
Entries == [frame : 1..MaxFrames, eos : BOOLEAN]

Types ==
  /\ transmit \in Seq(Entries) /\ toDecode \in Seq(1..MaxFrames)
  /\ oldTimeStamp \in Stamps \cup {-1} /\ lastStamp \in Stamps \cup {-1}
  /\ dataHasBeenPropagated \in BOOLEAN
  /\ half \in 0..MaxFrames /\ frames \in 0..MaxFrames /\ resets \in Nat
  /\ ended \in BOOLEAN /\ flushing \in BOOLEAN /\ clean \in BOOLEAN

(* Between FlushComponent and the restart nothing is remembered.              *)
Forgotten == transmit = <<>> /\ half = 0 /\ oldTimeStamp = -1 /\ lastStamp = -1
WhileFlushing == flushing => Forgotten

\* the time stamp of a frame is pushed with its first buffer
Remembered ==
  /\ oldTimeStamp \in {-1, lastStamp}
  /\ half # 0 => oldTimeStamp = lastStamp /\ dataHasBeenPropagated

\* transmit has an entry for each frame in the module, and for the one half given
OneEach ==
  /\ Len(transmit) = Len(toDecode) + (IF half = 0 THEN 0 ELSE 1)
  /\ \A i \in 1..Len(toDecode) : transmit[i].frame = toDecode[i]
  /\ half # 0 => transmit[Len(transmit)].frame = half

\* the entry that ends the stream is the last
EosIsLast ==
  /\ \A i \in 1..Len(transmit) : transmit[i].eos => i = Len(transmit) /\ ended
  /\ ended => half = 0

InStep == clean /\ ~flushing => Remembered /\ OneEach /\ EosIsLast

StampsInv == Types /\ WhileFlushing /\ InStep /\ OwnTimeStamp

-----------------------------------------------------------------------------
LEMMA Bounds == MaxFrames \in Nat /\ Stamps \subseteq Nat /\ -1 \notin Stamps
BY StampsAssumption, FramesAssumption

LEMMA AppendStampFacts ==
  ASSUME NEW S, NEW s \in Seq(S), NEW e \in S
  PROVE  /\ Append(s, e) \in Seq(S) /\ Len(Append(s, e)) = Len(s) + 1
         /\ \A i \in 1..Len(s) : Append(s, e)[i] = s[i]
         /\ Append(s, e)[Len(s) + 1] = e
  OBVIOUS

LEMMA TailStampFacts ==
  ASSUME NEW S, NEW s \in Seq(S), s # <<>>
  PROVE  /\ Head(s) = s[1] /\ Head(s) \in S
         /\ Tail(s) \in Seq(S) /\ Len(Tail(s)) = Len(s) - 1 /\ Len(s) \in Nat \ {0}
         /\ \A i \in 1..Len(Tail(s)) : Tail(s)[i] = s[i + 1] /\ i + 1 \in 1..Len(s)
  OBVIOUS

LEMMA EmptyFacts ==
  ASSUME NEW S, NEW s \in Seq(S)
  PROVE  Len(s) \in Nat /\ (s = <<>> <=> Len(s) = 0)
  OBVIOUS

LEMMA Nothing == <<>> \in Seq(Entries) /\ <<>> \in Seq(1..MaxFrames) /\ 0 \in 0..MaxFrames /\ 0 \in Nat
BY Bounds

LEMMA InitStampsInv == StampsInit => StampsInv
<1> SUFFICES ASSUME StampsInit PROVE StampsInv
  OBVIOUS
<1>1. Types
  BY Nothing DEF StampsInit, Types
<1>2. WhileFlushing /\ OwnTimeStamp
  BY DEF StampsInit, WhileFlushing, OwnTimeStamp
<1>3. InStep
  BY DEF StampsInit, InStep, Remembered, OneEach, EosIsLast
<1>4. QED
  BY <1>1, <1>2, <1>3 DEF StampsInv

\* a frame is begun with a time stamp that is not the one of the frame before it
LEMMA NewStampPushes ==
  ASSUME NEW n, NEW stamp \in Stamps, NEW endOfFrame \in BOOLEAN, NEW eos \in BOOLEAN,
         Remembered, stamp # lastStamp, Transmit(n, stamp, endOfFrame, eos)
  PROVE  /\ transmit' = Append(transmit, [frame |-> n, eos |-> eos])
         /\ oldTimeStamp' = stamp /\ dataHasBeenPropagated'
BY Bounds DEF Remembered, Transmit

LEMMA TransmitTypes ==
  ASSUME Types, NEW n \in 1..MaxFrames, NEW stamp \in Stamps \cup {-1}, NEW endOfFrame \in BOOLEAN,
         NEW eos \in BOOLEAN, Transmit(n, stamp, endOfFrame, eos)
  PROVE  /\ transmit' \in Seq(Entries) /\ oldTimeStamp' \in Stamps \cup {-1}
         /\ dataHasBeenPropagated' \in BOOLEAN
<1> DEFINE e == [frame |-> n, eos |-> eos]
<1>1. e \in Entries
  BY DEF Entries
<1>2. Append(transmit, e) \in Seq(Entries)
  BY <1>1 DEF Types
<1>3. transmit' \in {transmit, Append(transmit, e)}
  BY DEF Transmit
<1>4. oldTimeStamp' \in Stamps \cup {-1} /\ dataHasBeenPropagated' \in BOOLEAN
  BY DEF Transmit, Types, stampControl
<1>5. QED
  BY <1>2, <1>3, <1>4 DEF Types

LEMMA WholeFrameStep ==
  ASSUME StampsInv, ~flushing, NEW stamp \in Stamps, NEW eos \in BOOLEAN, WholeFrame(stamp, eos)
  PROVE  StampsInv'
<1> DEFINE n == frames + 1
<1>0. Types /\ ~ended /\ half = 0 /\ n \in 1..MaxFrames
  BY Bounds DEF StampsInv, Types, WholeFrame
<1>1. toDecode' = Append(toDecode, n)
  BY DEF WholeFrame
<1>2. Types'
  <2>1. Append(toDecode, n) \in Seq(1..MaxFrames)
    BY <1>0 DEF Types
  <2>2. /\ transmit' \in Seq(Entries) /\ oldTimeStamp' \in Stamps \cup {-1}
        /\ dataHasBeenPropagated' \in BOOLEAN
    BY <1>0, TransmitTypes DEF WholeFrame
  <2>3. QED
    BY <1>0, <1>1, <2>1, <2>2 DEF Types, WholeFrame
<1>3. WhileFlushing' /\ OwnTimeStamp'
  BY DEF StampsInv, WhileFlushing, OwnTimeStamp, WholeFrame
<1>4. ASSUME clean' PROVE Remembered' /\ OneEach' /\ EosIsLast'
  <2>1. clean /\ stamp # lastStamp /\ Transmit(n, stamp, TRUE, eos)
    BY <1>4 DEF WholeFrame
  <2>2. Remembered /\ OneEach /\ EosIsLast
    BY <2>1 DEF StampsInv, InStep
  <2> DEFINE e == [frame |-> n, eos |-> eos]
  <2>3. transmit' = Append(transmit, e) /\ oldTimeStamp' = stamp
    BY <2>1, <2>2, NewStampPushes
  <2>4. e \in Entries /\ transmit \in Seq(Entries) /\ toDecode \in Seq(1..MaxFrames)
    BY <1>0 DEF Entries, Types
  <2>5. /\ Len(transmit') = Len(transmit) + 1 /\ transmit'[Len(transmit) + 1] = e
        /\ \A i \in 1..Len(transmit) : transmit'[i] = transmit[i]
    BY <2>3, <2>4, AppendStampFacts
  <2>6. /\ Len(toDecode') = Len(toDecode) + 1 /\ toDecode'[Len(toDecode) + 1] = n
        /\ \A i \in 1..Len(toDecode) : toDecode'[i] = toDecode[i]
    BY <1>0, <1>1, <2>4, AppendStampFacts
  <2>7. Len(transmit) \in Nat /\ Len(toDecode) = Len(transmit)
    BY <1>0, <2>2, <2>4, EmptyFacts DEF OneEach
  <2>8. lastStamp' = stamp /\ half' = 0 /\ ended' = eos
    BY <1>0 DEF WholeFrame
  <2>9. Remembered'
    BY <2>3, <2>8 DEF Remembered
  <2>10. OneEach'
    BY <2>2, <2>5, <2>6, <2>7, <2>8 DEF OneEach
  <2>11. EosIsLast'
    <3>1. \A i \in 1..Len(transmit) : ~transmit[i].eos
      BY <1>0, <2>2 DEF EosIsLast
    <3>2. QED
      BY <2>5, <2>7, <2>8, <3>1 DEF EosIsLast
  <2>12. QED
    BY <2>9, <2>10, <2>11
<1>5. QED
  BY <1>2, <1>3, <1>4 DEF StampsInv, InStep

LEMMA FirstHalfStep ==
  ASSUME StampsInv, ~flushing, NEW stamp \in Stamps, FirstHalf(stamp)
  PROVE  StampsInv'
<1> DEFINE n == frames + 1
<1>0. Types /\ ~ended /\ half = 0 /\ n \in 1..MaxFrames
  BY Bounds DEF StampsInv, Types, FirstHalf
<1>2. Types'
  <2>1. /\ transmit' \in Seq(Entries) /\ oldTimeStamp' \in Stamps \cup {-1}
        /\ dataHasBeenPropagated' \in BOOLEAN
    BY <1>0, TransmitTypes DEF FirstHalf
  <2>2. QED
    BY <1>0, <2>1 DEF Types, FirstHalf
<1>3. WhileFlushing' /\ OwnTimeStamp'
  BY DEF StampsInv, WhileFlushing, OwnTimeStamp, FirstHalf
<1>4. ASSUME clean' PROVE Remembered' /\ OneEach' /\ EosIsLast'
  <2>1. clean /\ stamp # lastStamp /\ Transmit(n, stamp, FALSE, FALSE)
    BY <1>4 DEF FirstHalf
  <2>2. Remembered /\ OneEach /\ EosIsLast
    BY <2>1 DEF StampsInv, InStep
  <2> DEFINE e == [frame |-> n, eos |-> FALSE]
  <2>3. transmit' = Append(transmit, e) /\ oldTimeStamp' = stamp /\ dataHasBeenPropagated'
    BY <2>1, <2>2, NewStampPushes
  <2>4. e \in Entries /\ transmit \in Seq(Entries) /\ toDecode \in Seq(1..MaxFrames)
    BY <1>0 DEF Entries, Types
  <2>5. /\ Len(transmit') = Len(transmit) + 1 /\ transmit'[Len(transmit) + 1] = e
        /\ \A i \in 1..Len(transmit) : transmit'[i] = transmit[i]
    BY <2>3, <2>4, AppendStampFacts
  <2>7. Len(transmit) \in Nat /\ Len(toDecode) = Len(transmit)
    BY <1>0, <2>2, <2>4, EmptyFacts DEF OneEach
  <2>8. lastStamp' = stamp /\ half' = n /\ half' # 0 /\ ended' = FALSE /\ toDecode' = toDecode
    BY <1>0 DEF FirstHalf
  <2>9. Remembered'
    BY <2>3, <2>8 DEF Remembered
  <2>10. OneEach'
    BY <2>2, <2>5, <2>7, <2>8 DEF OneEach
  <2>11. EosIsLast'
    <3>1. \A i \in 1..Len(transmit) : ~transmit[i].eos
      BY <1>0, <2>2 DEF EosIsLast
    <3>2. QED
      BY <2>5, <2>7, <2>8, <3>1 DEF EosIsLast
  <2>12. QED
    BY <2>9, <2>10, <2>11
<1>5. QED
  BY <1>2, <1>3, <1>4 DEF StampsInv, InStep

LEMMA LastHalfStep ==
  ASSUME StampsInv, ~flushing, NEW eos \in BOOLEAN, LastHalf(eos)
  PROVE  StampsInv'
<1>0. Types /\ half \in 1..MaxFrames
  BY Bounds DEF StampsInv, Types, LastHalf
<1>1. toDecode' = Append(toDecode, half) /\ half' = 0 /\ ended' = eos
  BY DEF LastHalf
<1>2. Types'
  <2>1. Append(toDecode, half) \in Seq(1..MaxFrames)
    BY <1>0 DEF Types
  <2>2. /\ transmit' \in Seq(Entries) /\ oldTimeStamp' \in Stamps \cup {-1}
        /\ dataHasBeenPropagated' \in BOOLEAN
    BY <1>0, TransmitTypes DEF LastHalf, Types
  <2>3. QED
    BY <1>0, <1>1, <2>1, <2>2, Nothing DEF Types, LastHalf
<1>3. WhileFlushing' /\ OwnTimeStamp'
  BY DEF StampsInv, WhileFlushing, OwnTimeStamp, LastHalf
<1>4. ASSUME clean' PROVE Remembered' /\ OneEach' /\ EosIsLast'
  <2>1. clean /\ Transmit(half, lastStamp, TRUE, eos)
    BY <1>4 DEF LastHalf
  <2>2. Remembered /\ OneEach /\ EosIsLast
    BY <2>1 DEF StampsInv, InStep
  <2>3. transmit' = transmit /\ oldTimeStamp' = oldTimeStamp
    BY <1>0, <2>1, <2>2 DEF Remembered, Transmit
  <2>4. transmit \in Seq(Entries) /\ toDecode \in Seq(1..MaxFrames)
    BY <1>0 DEF Types
  <2>5. /\ Len(toDecode') = Len(toDecode) + 1 /\ toDecode'[Len(toDecode) + 1] = half
        /\ \A i \in 1..Len(toDecode) : toDecode'[i] = toDecode[i]
    BY <1>0, <1>1, <2>4, AppendStampFacts
  <2>6. Len(toDecode) \in Nat /\ Len(transmit) = Len(toDecode) + 1
    BY <1>0, <2>2, <2>4, EmptyFacts DEF OneEach
  <2>7. Remembered'
    BY <1>1, <2>2, <2>3 DEF Remembered, LastHalf
  <2>8. OneEach'
    BY <1>0, <1>1, <2>2, <2>3, <2>5, <2>6 DEF OneEach
  <2>9. EosIsLast'
    BY <1>0, <1>1, <2>2, <2>3 DEF EosIsLast
  <2>10. QED
    BY <2>7, <2>8, <2>9
<1>5. QED
  BY <1>2, <1>3, <1>4 DEF StampsInv, InStep

LEMMA StreamEndStep ==
  ASSUME StampsInv, ~flushing, EmptyEndOfStream \/ NextStream
  PROVE  StampsInv'
<1>1. UNCHANGED <<transmit, oldTimeStamp, dataHasBeenPropagated, half, lastStamp, toDecode, flushing,
                  picture, clean, frames, resets>> /\ ended' \in BOOLEAN
  BY DEF EmptyEndOfStream, NextStream, stampControl
<1>2. Types' /\ WhileFlushing' /\ OwnTimeStamp'
  BY <1>1 DEF StampsInv, Types, WhileFlushing, Forgotten, OwnTimeStamp
<1>3. ASSUME clean PROVE Remembered' /\ OneEach' /\ EosIsLast'
  <2>1. Remembered /\ OneEach /\ EosIsLast
    BY <1>3 DEF StampsInv, InStep
  <2>2. Remembered' /\ OneEach'
    BY <1>1, <2>1 DEF Remembered, OneEach
  <2>3. CASE EmptyEndOfStream
    BY <1>1, <2>1, <2>2, <2>3 DEF EosIsLast, EmptyEndOfStream
  <2>4. CASE NextStream
    <3>1. half = 0 /\ toDecode = <<>> /\ ended' = FALSE
      BY <2>1, <2>4 DEF EosIsLast, NextStream
    <3>2. Len(transmit) = 0
      BY <2>1, <3>1 DEF OneEach
    <3>3. QED
      BY <1>1, <2>2, <3>1, <3>2 DEF EosIsLast
  <2>5. QED
    BY <2>3, <2>4
<1>4. QED
  BY <1>1, <1>2, <1>3 DEF StampsInv, InStep

LEMMA AssociateStep ==
  ASSUME StampsInv, AssociateCallBack
  PROVE  StampsInv'
<1>0. /\ Types /\ WhileFlushing /\ toDecode # <<>> /\ toDecode' = Tail(toDecode)
      /\ transmit \in Seq(Entries) /\ toDecode \in Seq(1..MaxFrames)
  BY DEF StampsInv, Types, AssociateCallBack
<1>1. UNCHANGED <<half, lastStamp, ended, flushing, clean, frames, resets>>
  BY DEF AssociateCallBack
<1>2. /\ Head(toDecode) = toDecode[1] /\ Tail(toDecode) \in Seq(1..MaxFrames)
      /\ Len(Tail(toDecode)) = Len(toDecode) - 1 /\ Len(toDecode) \in Nat \ {0}
      /\ \A i \in 1..Len(Tail(toDecode)) : Tail(toDecode)[i] = toDecode[i + 1] /\ i + 1 \in 1..Len(toDecode)
  BY <1>0, TailStampFacts
<1>3. CASE transmit = <<>>
  <2>1. /\ UNCHANGED <<transmit, oldTimeStamp, dataHasBeenPropagated>>
        /\ picture' = [frame |-> Head(toDecode), data |-> 0, flushing |-> flushing]
    BY <1>3 DEF AssociateCallBack, stampControl
  <2>2. Types' /\ WhileFlushing'
    BY <1>0, <1>1, <1>2, <2>1 DEF Types, WhileFlushing, Forgotten
  <2>3. ~(clean /\ ~flushing)
    BY <1>2, <1>3 DEF StampsInv, InStep, OneEach
  <2>4. QED
    BY <1>1, <2>1, <2>2, <2>3 DEF StampsInv, InStep, OwnTimeStamp
<1>4. CASE transmit # <<>>
  <2>1. /\ Head(transmit) = transmit[1] /\ Head(transmit) \in Entries /\ Tail(transmit) \in Seq(Entries)
        /\ Len(Tail(transmit)) = Len(transmit) - 1 /\ Len(transmit) \in Nat \ {0}
        /\ \A i \in 1..Len(Tail(transmit)) : Tail(transmit)[i] = transmit[i + 1] /\ i + 1 \in 1..Len(transmit)
    BY <1>0, <1>4, TailStampFacts
  <2>2. /\ picture' = [frame |-> Head(toDecode), data |-> Head(transmit).frame, flushing |-> flushing]
        /\ IF Head(transmit).eos
           THEN transmit' = <<>> /\ oldTimeStamp' = -1 /\ dataHasBeenPropagated' = FALSE
           ELSE transmit' = Tail(transmit) /\ UNCHANGED <<oldTimeStamp, dataHasBeenPropagated>>
    BY <1>4 DEF AssociateCallBack, stampControl
  <2>3. ~flushing
    BY <1>0, <1>4 DEF WhileFlushing, Forgotten
  <2>4. Types'
    <3>1. transmit' \in Seq(Entries) /\ toDecode' \in Seq(1..MaxFrames)
      BY <1>0, <1>2, <2>1, <2>2, Nothing
    <3>2. oldTimeStamp' \in Stamps \cup {-1} /\ dataHasBeenPropagated' \in BOOLEAN
      BY <1>0, <2>2 DEF Types
    <3>3. QED
      BY <1>0, <1>1, <3>1, <3>2 DEF Types
  <2>5. ASSUME clean
        PROVE  OwnTimeStamp' /\ Remembered' /\ OneEach' /\ EosIsLast'
    <3>1. Remembered /\ OneEach /\ EosIsLast
      BY <2>3, <2>5 DEF StampsInv, InStep
    <3>2. transmit[1].frame = toDecode[1]
      BY <1>2, <3>1 DEF OneEach
    <3>3. OwnTimeStamp'
      BY <1>2, <2>1, <2>2, <3>2 DEF OwnTimeStamp
    <3>4. CASE transmit[1].eos
      <4>1. Len(transmit) = 1 /\ ended /\ half = 0
        <5>1. 1 \in 1..Len(transmit)
          BY <2>1
        <5>2. QED
          BY <3>1, <3>4, <5>1 DEF EosIsLast
      <4>2. Len(toDecode) = 1
        <5>1. Len(transmit) = Len(toDecode)
          BY <1>2, <3>1, <4>1 DEF OneEach
        <5>2. QED
          BY <4>1, <5>1
      <4>3. transmit' = <<>> /\ oldTimeStamp' = -1 /\ Len(toDecode') = 0 /\ half' = 0
        BY <1>0, <1>1, <1>2, <2>1, <2>2, <3>4, <4>1, <4>2
      <4>4. QED
        BY <3>3, <4>3 DEF Remembered, OneEach, EosIsLast
    <3>5. CASE ~transmit[1].eos
      <4>1. transmit' = Tail(transmit) /\ UNCHANGED <<oldTimeStamp, dataHasBeenPropagated>>
        BY <2>1, <2>2, <3>5
      <4>2. Remembered'
        BY <1>1, <3>1, <4>1 DEF Remembered
      <4>3. OneEach'
        BY <1>0, <1>1, <1>2, <2>1, <3>1, <4>1 DEF OneEach
      <4>4. EosIsLast'
        <5>1. ASSUME NEW i \in 1..Len(Tail(transmit)), Tail(transmit)[i].eos
              PROVE  i = Len(Tail(transmit)) /\ ended
          <6>1. /\ Tail(transmit)[i] = transmit[i + 1] /\ i + 1 \in 1..Len(transmit)
                /\ Len(Tail(transmit)) = Len(transmit) - 1 /\ i \in Nat /\ Len(transmit) \in Nat
            BY <1>0, <2>1, TailStampFacts DEF Types
          <6>2. i + 1 = Len(transmit) /\ ended
            BY <3>1, <5>1, <6>1 DEF EosIsLast
          <6>3. QED
            BY <6>1, <6>2
        <5>2. QED
          BY <1>1, <3>1, <4>1, <5>1 DEF EosIsLast
      <4>5. QED
        BY <3>3, <4>2, <4>3, <4>4
    <3>6. QED
      BY <3>4, <3>5
  <2>6. QED
    BY <1>1, <2>3, <2>4, <2>5 DEF StampsInv, InStep, WhileFlushing, OwnTimeStamp
<1>5. QED
  BY <1>3, <1>4

LEMMA ResetsStep ==
  ASSUME StampsInv, Lose \/ FlushComponent \/ TreatFlushCommand \/ StopWithoutFlush
  PROVE  StampsInv'
<1>0. Types /\ WhileFlushing /\ InStep /\ OwnTimeStamp
  BY DEF StampsInv
<1>1. CASE Lose
  <2>1. Tail(toDecode) \in Seq(1..MaxFrames)
    BY <1>0, <1>1, TailStampFacts DEF Types, Lose
  <2>2. QED
    BY <1>0, <1>1, <2>1 DEF StampsInv, Types, WhileFlushing, Forgotten, InStep, OwnTimeStamp, Lose, stampControl
<1>2. CASE FlushComponent
  <2>1. transmit' = <<>> /\ oldTimeStamp' = -1 /\ dataHasBeenPropagated' = FALSE
        /\ half' = 0 /\ lastStamp' = -1 /\ flushing' = TRUE
        /\ UNCHANGED <<toDecode, ended, picture, clean, frames, resets>>
    BY <1>2 DEF FlushComponent
  <2>2. Types'
    BY <1>0, <2>1, Nothing DEF Types
  <2>3. QED
    BY <1>0, <2>1, <2>2 DEF StampsInv, WhileFlushing, Forgotten, InStep, OwnTimeStamp
<1>3. CASE TreatFlushCommand
  <2>1. /\ flushing' = FALSE /\ resets' = resets + 1 /\ toDecode' = <<>> /\ ended' = FALSE
        /\ clean' = TRUE /\ picture'.data = 0 /\ picture'.frame = 0
        /\ UNCHANGED <<transmit, oldTimeStamp, dataHasBeenPropagated, half, lastStamp, frames>>
    BY <1>3 DEF TreatFlushCommand, stampControl
  <2>2. Forgotten
    BY <1>0, <1>3 DEF WhileFlushing, TreatFlushCommand
  <2>3. Types'
    <3>1. resets' \in Nat
      BY <1>0, <2>1 DEF Types
    <3>2. QED
      BY <1>0, <2>1, <3>1, Nothing, Zenon DEF Types
  <2>4. Remembered' /\ OneEach' /\ EosIsLast'
    BY <2>1, <2>2 DEF Forgotten, Remembered, OneEach, EosIsLast
  <2>5. QED
    BY <2>1, <2>3, <2>4 DEF StampsInv, WhileFlushing, InStep, OwnTimeStamp
<1>4. CASE StopWithoutFlush
  <2>1. /\ ~flushing /\ flushing' = FALSE /\ resets' = resets + 1
        /\ toDecode' = <<>> /\ half' = 0 /\ ended' = FALSE
        /\ clean' = (clean /\ transmit = <<>>)
        /\ UNCHANGED <<transmit, oldTimeStamp, dataHasBeenPropagated, lastStamp, picture, frames>>
    BY <1>0, <1>4 DEF StopWithoutFlush, stampControl, Types
  <2>2. Types'
    <3>1. resets' \in Nat
      BY <1>0, <2>1 DEF Types
    <3>2. clean' \in BOOLEAN
      BY <2>1
    <3>3. QED
      BY <1>0, <2>1, <3>1, <3>2, Nothing, Zenon DEF Types
  <2>3. ASSUME clean' PROVE Remembered' /\ OneEach' /\ EosIsLast'
    <3>1. clean /\ transmit = <<>>
      BY <2>1, <2>3
    <3>2. Remembered
      BY <1>0, <2>1, <3>1 DEF InStep
    <3>3. QED
      BY <2>1, <3>1, <3>2 DEF Remembered, OneEach, EosIsLast
  <2>4. QED
    BY <1>0, <2>1, <2>2, <2>3 DEF StampsInv, WhileFlushing, InStep, OwnTimeStamp
<1>5. QED
  BY <1>1, <1>2, <1>3, <1>4

LEMMA NextStampsInv == StampsInv /\ [StampsNext]_stampVars => StampsInv'
<1> SUFFICES ASSUME StampsInv, [StampsNext]_stampVars PROVE StampsInv'
  OBVIOUS
<1>1. CASE UNCHANGED stampVars
  BY <1>1 DEF stampVars, stampControl, StampsInv, Types, WhileFlushing, Forgotten, InStep, Remembered, OneEach,
              EosIsLast, OwnTimeStamp
<1>2. CASE StampsNext
  BY <1>2, WholeFrameStep, FirstHalfStep, LastHalfStep, StreamEndStep, AssociateStep, ResetsStep DEF StampsNext
<1>3. QED
  BY <1>1, <1>2

(* StampsInv is an invariant, and StampsTypeOK with it.                            *)
THEOREM StampsInductive == StampsSpec => [](StampsInv /\ StampsTypeOK)
<1>1. StampsInv => StampsTypeOK
  <2>1. ASSUME Types PROVE StampsTypeOK
    <3>1. \A i \in DOMAIN transmit : transmit[i].frame \in 1..MaxFrames
      <4>1. \A i \in DOMAIN transmit : transmit[i] \in Entries
        BY <2>1 DEF Types
      <4>2. QED
        BY <4>1 DEF Entries
    <3>2. QED
      BY <2>1, <3>1 DEF Types, StampsTypeOK
  <2>2. QED
    BY <2>1 DEF StampsInv
<1>2. QED
  BY <1>1, InitStampsInv, NextStampsInv, PTL DEF StampsSpec

(* The time stamps that transmit keeps are, in order, those of the frames the  *)
(* module still has, so that a picture gets the one of its own frame, whenever   *)
(* no two neighbouring frames have the same and no picture is lost              *)
(* (omx_component_dec.cpp:49-79, 318-346).                                     *)
THEOREM OwnTimeStampHolds == StampsSpec => []OwnTimeStamp
<1>1. StampsInv => OwnTimeStamp
  BY DEF StampsInv
<1>2. QED
  BY <1>1, StampsInductive, PTL
=============================================================================
