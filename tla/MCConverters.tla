---------------------------- MODULE MCConverters ----------------------------
(* The three ways to and from a converter, each by itself: the DAC         *)
(* configuration, the AD7606 and the sample stream of the AD9238.          *)
(* DacConfig's bus is every value of the GPIO registers.  PORTA asks for   *)
(* two sines and a triangle, so that form changes and changes of the words *)
(* within a form both happen; PORTB for one sine, which changes its form   *)
(* once, from the triangle it is reset to.                                 *)
EXTENDS DacConfig, Ad7606Axis, AdcStream

CONSTANTS w0, w1, w2

MCBus == Config
MCZero == ResetConfig

Sin(w) == [form |-> "SIN", word |-> w]
Tri(w) == [form |-> "TRI", word |-> w]

MCRequests == [p \in Port |-> IF p = "PORTA" THEN {Sin(w1), Sin(w2), Tri(w1)}
                              ELSE {Sin(w2)}]

VARIABLE path    \* the one that runs

allVars == <<path, dacVars, axisVars, streamVars>>

PathsInit ==
  /\ path \in {"dac", "ad7606", "stream"}
  /\ SystemInit /\ AxisInit /\ StreamInit

On(p) == path = p /\ UNCHANGED path

PathsNext ==
  \/ On("dac") /\ SystemNext /\ UNCHANGED <<axisVars, streamVars>>
  \/ On("ad7606") /\ AxisNext /\ UNCHANGED <<dacVars, streamVars>>
  \/ On("stream") /\ StreamNext /\ UNCHANGED <<dacVars, axisVars>>

\* The fairness of FairSystemSpec and StreamFairSpec, for the path that runs.
PathsSpec ==
  /\ PathsInit /\ [][PathsNext]_allVars
  /\ WF_dacVars(On("dac") /\ StoreNext)
  /\ WF_dacVars(On("dac") /\ PostSnapshot)
  /\ WF_dacVars(On("dac") /\ DeliverSnapshot)
  /\ WF_streamVars(On("stream") /\ Accepting1)
  /\ WF_streamVars(On("stream") /\ Accepting2)
  /\ WF_streamVars(On("stream") /\ StreamWord)
=============================================================================
