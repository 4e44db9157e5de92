------------------------------- MODULE RoiMap -------------------------------
(***************************************************************************)
(* ROIMngr: from regions given in pixels the table that tells the encoder  *)
(* the quality of each coding unit (LCU) of a picture, and where it must   *)
(* code intra or without motion.  Around a region the quality changes      *)
(* gradually.                                                              *)
(*                                                                         *)
(* An entry of the table is a difference of quantization parameters with   *)
(* two flags (the library keeps them in the upper bits of a byte).         *)
(***************************************************************************)
EXTENDS Integers, Sequences, SequencesExt, FiniteSets, FiniteSetsExt

CONSTANTS
  PicWidth, PicHeight, \* in pixels
  LcuSize,             \* 1 << uLog2MaxCuSize
  MinQP, MaxQP,        \* -32 and 31 for AVC and HEVC
  Background,          \* eBkgQuality
  ByQuality,           \* eOrder is AL_ROI_QUALITY_ORDER, not AL_ROI_INCOMING_ORDER
  Rectangles,          \* in pixels: [x, y, width, height]
  Static, Intra,       \* AL_ROI_QUALITY_STATIC and AL_ROI_QUALITY_INTRA
  RoiQualities,           \* these or differences
  MaxRegions

VARIABLE nodes \* the list from pFirstNode

ASSUME RoiAssumption ==
  /\ PicWidth \in Nat \ {0} /\ PicHeight \in Nat \ {0} /\ LcuSize \in Nat \ {0}
  /\ \A r \in Rectangles : r.x \in Nat /\ r.y \in Nat /\ r.width \in Nat \ {0} /\ r.height \in Nat \ {0}
  /\ MinQP \in Int /\ MaxQP \in Int /\ 0 \in MinQP .. MaxQP
  /\ (RoiQualities \cup {Background}) \ {Static, Intra} \subseteq MinQP .. MaxQP
  /\ Intra \notin {Static, Background}

InLcus(pixels) == (pixels + LcuSize - 1) \div LcuSize
Width  == InLcus(PicWidth)
Height == InLcus(PicHeight)
Lcus   == (0 .. Width - 1) \X (0 .. Height - 1)

Clip3(v, low, high) == IF v < low THEN low ELSE IF v > high THEN high ELSE v

\* The flags and the difference of a quality.
DeltaQP(quality) ==
  [qp |-> IF quality \in {Static, Intra} THEN 0 ELSE quality,
   intra |-> quality = Intra, static |-> quality = Static]
Forces(entry) == entry.intra \/ entry.static

\* AddROI: the region in coding units, cut at the borders of the picture
Node(r, quality) ==
  LET x == r.x \div LcuSize
      y == r.y \div LcuSize
  IN [x |-> x, y |-> y,
      width |-> IF x + InLcus(r.width) > Width THEN Width - x ELSE InLcus(r.width),
      height |-> IF y + InLcus(r.height) > Height THEN Height - y ELSE InLcus(r.height),
      dqp |-> DeltaQP(quality)]

\* In order of quality the better ones come later, the intra ones last.
ShouldInsertAfter(current, new) == new.intra \/ current.qp > new.qp

Insert(list, node) ==
  LET passed == {n \in 0 .. Len(list) : \A i \in 1 .. n : ShouldInsertAfter(list[i].dqp, node.dqp)}
  IN InsertAt(list, Max(passed) + 1, node)

AL_RoiMngr_AddROI(r, quality) ==
  /\ Len(nodes) < MaxRegions
  /\ r.x < PicWidth /\ r.y < PicHeight
  /\ nodes' = IF ByQuality THEN Insert(nodes, Node(r, quality)) ELSE Append(nodes, Node(r, quality))

AL_RoiMngr_Clear == nodes # <<>> /\ nodes' = <<>>

Covers(node, p) ==
  /\ p[1] \in node.x .. node.x + node.width - 1
  /\ p[2] \in node.y .. node.y + node.height - 1

\* The coding units around a region, corners included.
Around(node, p) ==
  /\ p[1] \in node.x - 1 .. node.x + node.width
  /\ p[2] \in node.y - 1 .. node.y + node.height
  /\ ~Covers(node, p)

\* slip: an intra region takes the quality of what it covers away
SetLCUQualityWhole(entry, dqp) ==
  IF entry.intra /\ ~dqp.static THEN [dqp EXCEPT !.intra = TRUE] ELSE dqp

\* An intra region leaves the quality alone; another one leaves the
\* coding intra unless it forbids motion.
SetLCUQuality(entry, dqp) ==
  IF dqp.intra THEN [entry EXCEPT !.intra = TRUE, !.static = FALSE]
  ELSE IF entry.intra /\ ~dqp.static THEN [dqp EXCEPT !.intra = TRUE]
  ELSE dqp

\* halves of negative numbers go towards zero
Half(n) == IF n < 0 THEN -((-n) \div 2) ELSE n \div 2
MeanQuality(target, qp1, qp2) == [target EXCEPT !.qp = Clip3(Half(qp1 + qp2), MinQP, MaxQP)]

\* Whose quality is mixed with the region's around it: the coding unit one
\* further away, or the same one at the border.  The strips on the right and
\* below stop one short of the border, the right corners do not.
Further(node, p) ==
  LET right == node.x + node.width
      below == node.y + node.height
      isCorner == p[2] \in {node.y - 1, below}
  IN <<IF p[1] = node.x - 1 THEN (IF node.x > 1 THEN node.x - 2 ELSE p[1])
       ELSE IF p[1] = right THEN (IF right + (IF isCorner THEN 1 ELSE 2) < Width THEN right + 1 ELSE right)
       ELSE p[1],
       IF p[2] = node.y - 1 THEN (IF node.y > 1 THEN node.y - 2 ELSE p[2])
       ELSE IF p[2] = below THEN (IF below + 2 < Height THEN below + 1 ELSE below)
       ELSE p[2]>>

ComputeROI(table, node) ==
  [p \in Lcus |->
     IF Covers(node, p) THEN SetLCUQuality(table[p], node.dqp)
     ELSE IF Around(node, p) /\ ~Forces(node.dqp)
       THEN MeanQuality(table[p], table[Further(node, p)].qp, node.dqp.qp)
     ELSE table[p]]

\* The regions one after the other, over the background.
Filled(list) ==
  LET filled[n \in 0 .. Len(list)] ==
        IF n = 0 THEN [p \in Lcus |-> DeltaQP(Background)]
        ELSE ComputeROI(filled[n - 1], list[n])
  IN filled[Len(list)]
AL_RoiMngr_FillBuff == Filled(nodes)

RoiInit == nodes = <<>>
RoiNext ==
  \/ \E r \in Rectangles, q \in RoiQualities : AL_RoiMngr_AddROI(r, q)
  \/ AL_RoiMngr_Clear
RoiSpec == RoiInit /\ [][RoiNext]_nodes

\* In the table each coding unit is intra exactly where an intra region covers
\* it that no static one came after; where no transition of a later region
\* reaches it, its quality is that of the last region that has one for it, or
\* the background's; and no transition is better or worse than all of them
\* (ROIMngr.cpp:212-313, 364-458).
RegionsHonoured ==
  LET table == AL_RoiMngr_FillBuff
      qps == {n.dqp.qp : n \in Range(nodes)} \cup {DeltaQP(Background).qp}
  IN \A p \in Lcus :
       LET covering == {i \in DOMAIN nodes : Covers(nodes[i], p)}
           giving == {i \in covering : ~nodes[i].dqp.intra}
           mixing == {i \in DOMAIN nodes : Around(nodes[i], p) /\ ~Forces(nodes[i].dqp)}
           intra == {i \in covering : nodes[i].dqp.intra}
           static == {i \in covering : nodes[i].dqp.static}
       IN /\ table[p].intra <=> (intra # {} /\ \A i \in static : \E j \in intra : i < j)
          /\ \A i \in giving : (\A j \in giving \cup mixing : j <= i) => table[p].qp = nodes[i].dqp.qp
          /\ giving \cup mixing = {} => table[p].qp = DeltaQP(Background).qp
          /\ table[p].qp \in Min(qps) .. Max(qps)
=============================================================================
