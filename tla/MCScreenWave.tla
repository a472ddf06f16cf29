---------------------------- MODULE MCScreenWave ----------------------------
(* A part of the PS and one of the PL, each by itself: the commands of the *)
(* screen and the triangle.  Two commands are sent; with the last byte of  *)
(* one left over, the flag of one meets the datum of the other, and those  *)
(* are commands as well.                                                   *)
EXTENDS TjcScreen, Triangle

MCPackage == {<<1, 3>>, <<2, 1>>}

VARIABLE running    \* the one that runs

allVars == <<running, screenVars, triangleVars>>

Init ==
  /\ running \in {"screen", "triangle"}
  /\ ScreenInit /\ TriangleInit

On(p) == running = p /\ UNCHANGED running

Next ==
  \/ On("screen") /\ ScreenNext /\ UNCHANGED triangleVars
  \/ On("triangle") /\ NextOnce /\ UNCHANGED screenVars

\* The fairness of ScreenFairSpec, if it is the screen that runs.
FairSpec ==
  /\ Init /\ [][Next]_allVars
  /\ WF_screenVars(On("screen") /\ Uart)
  /\ WF_screenVars(On("screen") /\ Handler)
  /\ WF_screenVars(On("screen") /\ Main)
=============================================================================
