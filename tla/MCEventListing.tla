--------------------------- MODULE MCEventListing ---------------------------
(* Model-checking instances of EventListing.                               *)
EXTENDS EventListing

Stamp(s, m, o) == [sec |-> s, micro |-> m, offset |-> o]

\* Two instants at offset zero, the same two at another offset, and two within a
\* third second, both with a fraction.
OneFormPerSecond == {Stamp(1, 0, 0), Stamp(2, 0, 0), Stamp(4, 0, 3), Stamp(5, 0, 3),
                     Stamp(3, 250000, 0), Stamp(6, 750000, 3)}

\* The same second with and without a fraction.
Fractions == {Stamp(1, 0, 0), Stamp(1, 500000, 0), Stamp(2, 0, 0)}
=============================================================================
