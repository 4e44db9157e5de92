---------------------------- MODULE RatesAndGops ----------------------------
(* How the component translates frame rates and groups of pictures between    *)
(* the numbers of OpenMAX IL and those of the settings.  A frame rate is a     *)
(* fixed-point number there, here a clock: ceiling and ratio in thousandths.   *)
EXTENDS Integers

CONSTANT Q16 \* one frame a second, in the fixed-point unit of xFramerate
ASSUME Q16Assumption == Q16 \in Nat \ {0}

CeilDiv(a, b) == (a + b - 1) \div b
RoundDiv(a, b) == a \div b + (IF 2 * (a % b) >= b THEN 1 ELSE 0)

ConvertMediaToOMXFramerate(clock) == CeilDiv(clock.framerate * 1000 * Q16, clock.clockratio)
ConvertOMXToMediaClock(xFramerate) ==
  LET rate == CeilDiv(xFramerate, Q16)
  IN [framerate |-> rate,
      clockratio |-> IF rate = 0 THEN 1000 ELSE RoundDiv(rate * 1000 * Q16, xFramerate)]

\* A group of pictures: P and B frames after the first, b of them between two P.
ConvertOMXToMediaBFrames(nB, nP) == IF nP = 0 THEN 0 ELSE (nB + nP) \div (nP + 1)
ConvertOMXToMediaGopLength(nB, nP) == nP + nB + 1
ConvertMediaToOMXPFrames(gop) == (gop.length - 1) \div (gop.b + 1)
ConvertMediaToOMXBFrames(gop) == gop.length - ConvertMediaToOMXPFrames(gop) - 1
=============================================================================
