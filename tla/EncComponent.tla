----------------------------- MODULE EncComponent -----------------------------
(***************************************************************************)
(* What the encoder component keeps for a picture besides its buffer, in     *)
(* base/omx_component/omx_component_enc.cpp and omx_component.cpp: the SEI    *)
(* messages and regions of interest that SetConfig queues with the buffers,   *)
(* and the buffers its region-of-interest maps are written to.               *)
(* Each input buffer brings one map buffer into the pool roiFreeBuffers.      *)
(* The tasks go through two FIFOs in a row, processorMain and processorEmpty: *)
(* `fifo' is both, and a flush drops what has reached the second.             *)
(***************************************************************************)
EXTENDS Integers, Sequences, FiniteSets

CONSTANTS Headers,     \* the input headers, one for each place of a buffer
          Handles,     \* addresses OMXBufferHandles are allocated at
          RoiBuffers,  \* addresses the map buffers are allocated at
          Seis, Rois,  \* what SetConfig is called with, each once
          Null,
          MaxPictures, \* bound: pictures sent
          MaxFlushes   \* bound: flushes and freed headers

ASSUME NullAssumption == Null \notin Headers \cup Handles \cup RoiBuffers \cup Seis \cup Rois
ASSUME PicturesAssumption == MaxPictures \in Nat /\ MaxFlushes \in Nat

VARIABLES
  fifo,             \* the tasks, oldest first
  client,           \* headers the client may submit
  used,             \* headers that exist
  roiFreeBuffers,   \* the pool
  roiMap,           \* header to the map buffer its picture was given with
  roiDestroyMap,    \* header to the map buffer made for it
  shouldPushROI, shouldClearROI,
  regions,          \* the regions the module has now
  tmpSeis,          \* SEI messages for the next picture
  seisMap,          \* handle to the SEI messages of its picture
  encoding,         \* pictures in the module, oldest first
  asked,            \* history: what SetConfig was called with since a picture
  told,             \* Seis and Rois SetConfig was called with
  got,              \* history: the picture whose first stream came last
  dry,              \* history: the header whose picture waits for a map buffer
  sent, flushes, freed

roiMaps == <<roiFreeBuffers, roiMap, roiDestroyMap>>
roiState == <<shouldPushROI, shouldClearROI, regions>>
pictureBounds == <<sent, flushes, freed>>
pictureVars == <<fifo, client, used, roiMaps, roiState, tmpSeis, seisMap, encoding, asked, told, got, dry,
                 pictureBounds>>

Live == {roiDestroyMap[h] : h \in used}
NoPicture == [header |-> Null, handle |-> Null, seis |-> {}, rois |-> {}, given |-> {}, last |-> FALSE]
Nothing == [seis |-> {}, rois |-> {}, fresh |-> TRUE]

PicturesInit ==
  /\ fifo = <<>> /\ client = {} /\ used = {}
  /\ roiFreeBuffers = <<>>
  /\ roiMap = [h \in Headers |-> Null] /\ roiDestroyMap = [h \in Headers |-> Null]
  /\ shouldPushROI = FALSE /\ shouldClearROI = FALSE /\ regions = {}
  /\ tmpSeis = {} /\ seisMap = [h \in {} |-> {}]
  /\ encoding = <<>> /\ asked = Nothing /\ told = {}
  /\ got = NoPicture /\ dry = Null
  /\ sent = 0 /\ flushes = 0 /\ freed = FALSE

-----------------------------------------------------------------------------
(* The client's calls.                                                      *)

\* UseBuffer() and AllocateBuffer() of the input port
UseBuffer(h) ==
  /\ h \notin used /\ client = used
  /\ \E b \in RoiBuffers \ Live :
       /\ roiFreeBuffers' = Append(roiFreeBuffers, b)
       /\ roiDestroyMap' = [roiDestroyMap EXCEPT ![h] = b]
  /\ used' = used \cup {h} /\ client' = client \cup {h}
  /\ UNCHANGED <<fifo, roiMap, roiState, tmpSeis, seisMap, encoding, asked, told, got, dry, pictureBounds>>

\* FreeBuffer(), once the client has its headers back: the map buffer made with
\* the header goes, wherever it is
FreeBuffer(h) ==
  /\ h \in used /\ client = used /\ flushes < MaxFlushes
  /\ roiDestroyMap' = [roiDestroyMap EXCEPT ![h] = Null]
  /\ used' = used \ {h} /\ client' = client \ {h}
  /\ freed' = TRUE /\ flushes' = flushes + 1
  /\ UNCHANGED <<fifo, roiFreeBuffers, roiMap, roiState, tmpSeis, seisMap, encoding, asked, told, got, dry, sent>>

\* SetConfig() of an SEI message or of a region
SetConfig(c) ==
  /\ c \notin told /\ used = Headers
  /\ told' = told \cup {c}
  /\ fifo' = Append(fifo, [cmd |-> "SetDynamic", data |-> c])
  /\ asked' = IF c \in Seis THEN [asked EXCEPT !.seis = @ \cup {c}]
              ELSE [asked EXCEPT !.rois = IF asked.fresh THEN {c} ELSE @ \cup {c}, !.fresh = FALSE]
  /\ UNCHANGED <<client, used, roiMaps, roiState, tmpSeis, seisMap, encoding, got, dry, pictureBounds>>

\* EmptyThisBuffer(), of a picture that may be the last
EmptyThisBuffer(h, eos) ==
  /\ h \in client /\ used = Headers /\ sent < MaxPictures
  /\ sent' = sent + 1
  /\ client' = client \ {h}
  /\ fifo' = Append(fifo, [cmd |-> "EmptyBuffer", data |-> h, eos |-> eos, seis |-> asked.seis, rois |-> asked.rois])
  /\ asked' = [seis |-> {}, rois |-> asked.rois, fresh |-> IF eos THEN asked.fresh ELSE TRUE]
  /\ UNCHANGED <<used, roiMaps, roiState, tmpSeis, seisMap, encoding, told, got, dry, flushes, freed>>

-----------------------------------------------------------------------------
(* The worker of the input FIFO.                                            *)

Next_(cmd) == fifo # <<>> /\ Head(fifo).cmd = cmd

\* the first region after a picture replaces those of the picture
AddRegion(c) ==
  /\ regions' = IF shouldClearROI THEN {c} ELSE regions \cup {c}
  /\ shouldPushROI' = TRUE /\ shouldClearROI' = FALSE

\* TreatDynamicCommand()
TreatDynamicCommand ==
  /\ Next_("SetDynamic") /\ dry = Null
  /\ fifo' = Tail(fifo)
  /\ IF Head(fifo).data \in Seis
     THEN tmpSeis' = tmpSeis \cup {Head(fifo).data} /\ UNCHANGED roiState
     ELSE AddRegion(Head(fifo).data) /\ UNCHANGED tmpSeis
  /\ UNCHANGED <<client, used, roiMaps, seisMap, encoding, asked, told, got, dry, pictureBounds>>

\* roiMap.Add(): a map inserts nothing where there is something
Insert(map, h, b) == IF map[h] = Null THEN [map EXCEPT ![h] = b] ELSE map

\* slip: the messages are copied, not moved
KeepSeis(handle) ==
  /\ seisMap' = [h \in DOMAIN seisMap \cup {handle} |-> IF h \in DOMAIN seisMap THEN seisMap[h] ELSE tmpSeis]
  /\ UNCHANGED tmpSeis

\* seisMap.Add(handle, move(tmpSeis))
MoveSeis(handle) ==
  /\ seisMap' = [h \in DOMAIN seisMap \cup {handle} |-> IF h \in DOMAIN seisMap THEN seisMap[h] ELSE tmpSeis]
  /\ tmpSeis' = {}

\* TreatEmptyBufferCommand(): with regions the worker waits for a map buffer,
\* has the module write and take it, and remembers it for the header
TreatEmptyBufferCommand ==
  /\ Next_("EmptyBuffer")
  /\ LET task == Head(fifo)
     IN IF shouldPushROI /\ roiFreeBuffers = <<>>
        THEN /\ dry = Null /\ dry' = task.data
             /\ UNCHANGED <<fifo, roiMaps, roiState, tmpSeis, seisMap, encoding>>
        ELSE /\ fifo' = Tail(fifo) /\ dry' = Null
             /\ IF shouldPushROI
                THEN /\ roiMap' = Insert(roiMap, task.data, Head(roiFreeBuffers))
                     /\ roiFreeBuffers' = Tail(roiFreeBuffers)
                ELSE UNCHANGED <<roiMap, roiFreeBuffers>>
             /\ \E handle \in Handles \ {encoding[i].handle : i \in DOMAIN encoding} :
                  /\ MoveSeis(handle)
                  /\ encoding' = Append(encoding,
                       [header |-> task.data, handle |-> handle, seis |-> task.seis, rois |-> task.rois,
                        given |-> IF shouldPushROI THEN regions ELSE {}, last |-> task.eos])
             /\ shouldClearROI' = (shouldClearROI \/ ~task.eos)
             /\ UNCHANGED <<shouldPushROI, regions, roiDestroyMap>>
  /\ UNCHANGED <<client, used, asked, told, got, pictureBounds>>

-----------------------------------------------------------------------------
(* The callbacks of the module.                                             *)

\* AssociateCallBack(): the messages go out with the first stream of the
\* picture; `given' is from then on what they were
AssociateCallBack ==
  /\ encoding # <<>>
  /\ LET p == Head(encoding)
     IN /\ p.handle \in DOMAIN seisMap
        /\ got' = [p EXCEPT !.given = seisMap[p.handle] \cup p.given]
        /\ seisMap' = [h \in DOMAIN seisMap \ {p.handle} |-> seisMap[h]]
  /\ UNCHANGED <<fifo, client, used, roiMaps, roiState, tmpSeis, encoding, asked, told, dry, pictureBounds>>

\* slip: the map buffer is only forgotten
EmptyForgettingRoi(h) ==
  /\ roiMap' = [roiMap EXCEPT ![h] = Null]
  /\ UNCHANGED roiFreeBuffers

\* the map buffer of the picture goes back to the pool
EmptyRoi(h) ==
  IF roiMap[h] = Null THEN UNCHANGED <<roiMap, roiFreeBuffers>>
  ELSE /\ roiFreeBuffers' = Append(roiFreeBuffers, roiMap[h])
       /\ roiMap' = [roiMap EXCEPT ![h] = Null]

\* EmptyThisBufferCallBack()
EmptyThisBufferCallBack ==
  /\ encoding # <<>> /\ Head(encoding).handle \notin DOMAIN seisMap
  /\ encoding' = Tail(encoding)
  /\ EmptyRoi(Head(encoding).header)
  /\ client' = client \cup {Head(encoding).header}
  /\ UNCHANGED <<fifo, used, roiDestroyMap, roiState, tmpSeis, seisMap, asked, told, got, dry, pictureBounds>>

\* a flush, a restart or a stop: the second FIFO gives its buffers back and
\* drops its configurations, the module releases its pictures (ReleaseCallBack)
\* and the maps keep what they know of them.  The FIFO's worker is joined
\* first: while it waits for a map buffer none of this happens
Flush(n) ==
  /\ flushes < MaxFlushes /\ dry = Null
  /\ flushes' = flushes + 1
  /\ client' = client \cup {encoding[i].header : i \in DOMAIN encoding}
               \cup {fifo[i].data : i \in {j \in 1..n : fifo[j].cmd = "EmptyBuffer"}}
  /\ fifo' = SubSeq(fifo, n + 1, Len(fifo))
  /\ encoding' = <<>>
  /\ UNCHANGED <<used, roiMaps, roiState, tmpSeis, seisMap, asked, told, got, dry, sent, freed>>

PicturesNext ==
  \/ \E h \in Headers : UseBuffer(h) \/ FreeBuffer(h) \/ \E eos \in BOOLEAN : EmptyThisBuffer(h, eos)
  \/ \E c \in Seis \cup Rois : SetConfig(c)
  \/ TreatDynamicCommand \/ TreatEmptyBufferCommand
  \/ AssociateCallBack \/ EmptyThisBufferCallBack
  \/ \E n \in 0..Len(fifo) : Flush(n)

PicturesSpec == PicturesInit /\ [][PicturesNext]_pictureVars

-----------------------------------------------------------------------------
PicturesTypeOK ==
  /\ client \subseteq used /\ used \subseteq Headers
  /\ roiFreeBuffers \in Seq(RoiBuffers)
  /\ roiMap \in [Headers -> RoiBuffers \cup {Null}] /\ roiDestroyMap \in [Headers -> RoiBuffers \cup {Null}]
  /\ shouldPushROI \in BOOLEAN /\ shouldClearROI \in BOOLEAN /\ regions \subseteq Rois
  /\ tmpSeis \subseteq Seis /\ DOMAIN seisMap \subseteq Handles
  /\ dry \in Headers \cup {Null}

Flushed == flushes > 0

(* As long as nothing is flushed and no buffer freed, each map buffer is in   *)
(* the pool or with the one picture that was given it, no picture has to wait  *)
(* for one, and what a picture is given with is written where no other         *)
(* picture's regions are (omx_component_enc.cpp:36-49, 218-223, 332-338).     *)
RoiAccounted ==
  ~Flushed =>
    LET out == {roiMap[h] : h \in {x \in Headers : roiMap[x] # Null}}
        pool == {roiFreeBuffers[i] : i \in DOMAIN roiFreeBuffers}
    IN /\ out \cup pool = Live /\ out \cap pool = {}
       /\ Cardinality(Live) = Len(roiFreeBuffers) + Cardinality({h \in Headers : roiMap[h] # Null})
       /\ dry = Null

(* The SEI messages of a picture are those SetConfig was called with between  *)
(* the picture before it and this one, and its regions are the last group of   *)
(* them, which a picture closes unless it ends the stream; unless a flush has   *)
(* dropped some                                                                *)
(* (omx_component.cpp:2194-2255, omx_component_enc.cpp:99-113, 330-353).      *)
ConfigWithItsPicture ==
  ~Flushed => got.given = got.seis \cup got.rois
=============================================================================
