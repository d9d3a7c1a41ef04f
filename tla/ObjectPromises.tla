-------------------------- MODULE ObjectPromises --------------------------
(* What the repository says of things and the code does not keep.          *)
EXTENDS MCObjects

\* handler.cpp:2098, 2127: "glow dziala na swiatlo": what glows lights the
\* room it lies in.
GlowLights ==
    \A r \in Rooms :
        light[r] >= SumFunction([o \in {o \in In(World, r) : obj[o].kind \in Glowing} |-> obj[o].count])
=============================================================================
