----------------------------- MODULE MCRtKernel -----------------------------
EXTENDS RtKernel
CONSTANTS t1, t2, t3, h1, s1, s2
MCPrio == (t1 :> 1) @@ (t2 :> 2) @@ (t3 :> 2) @@ (Idle :> 3)
MCWants == {[set |-> {1, 2}, all |-> TRUE, clear |-> TRUE],
            [set |-> {1, 2}, all |-> FALSE, clear |-> TRUE],
            [set |-> {1}, all |-> FALSE, clear |-> FALSE]}
MCNMax == [c \in Classes |-> 3]
MCChunkSize == [c \in Classes |-> IF c = 1 THEN 2 ELSE 3]
MCTimerSets == {{h1, s1}, {s1, s2}}
MCSymmetry == Permutations({t2, t3}) \cup Permutations(Msgs)
=============================================================================
