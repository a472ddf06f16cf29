------------------------------ MODULE Triangle ------------------------------
(***************************************************************************)
(* The triangle generator triangle.v: a counter that runs up and down by   *)
(* step_reg.  The three always-blocks read the values of before the clock  *)
(* edge, so the direction bit flag turns one edge after the counter has    *)
(* come within two steps of an end.                                        *)
(*                                                                         *)
(* The step comes from the PS through config_bus_cdc, which may change it  *)
(* at any dac_clk edge.  The counter has 32 bits in the code and is modulo *)
(* Modulus here.                                                           *)
(***************************************************************************)
EXTENDS Integers

CONSTANTS
  Modulus,   \* 2 ^ WIDTH
  Steps      \* the steps the PS may ask for, 0 among them (the reset value)

ASSUME TriangleAssumption ==
  /\ Modulus \in Nat \ {0}
  /\ Steps \subseteq 0 .. Modulus - 1 /\ 0 \in Steps

VARIABLES
  step,       \* input: the step the configuration bus carries
  step_reg, cnt, flag

triangleVars == <<step, step_reg, cnt, flag>>

CNT_MAX == Modulus - 1

TriangleInit == step = 0 /\ step_reg = 0 /\ cnt = 0 /\ flag = 0

\* Mutant of Twice: the turn begins one step from the end.
TwiceOnce(s) == s

\* step_reg << 1, in the width of the counter.
Twice(s) == (2 * s) % Modulus

NearTop == cnt > (CNT_MAX - Twice(step_reg)) % Modulus
NearBottom == cnt < Twice(step_reg)

\* One dac_clk edge, after which the bus carries step s.
ClkEdge(s) ==
  /\ step_reg' = step
  /\ cnt' = IF flag = 0 THEN (cnt + step_reg) % Modulus
                        ELSE (cnt - step_reg) % Modulus
  /\ flag' = IF NearTop THEN 1 ELSE IF NearBottom THEN 0 ELSE flag
  /\ step' = s

\* The PS sets the step once: the wave of one call of set_dac_freq.  A change
\* of step between two turns may run the counter over an end.
NextOnce == \E s \in Steps : ClkEdge(s) /\ (step # 0 => s = step)
OnceSpec == TriangleInit /\ [][NextOnce]_triangleVars

-----------------------------------------------------------------------------
(* Properties *)

\* The wave has no jump: the counter never runs over either end, although it
\* turns an edge late and the distance of two steps is all the room it keeps.
NoJump == [][cnt' - cnt \in {-step_reg, step_reg}]_triangleVars
=============================================================================
