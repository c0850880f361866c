---------------------------- MODULE MCInterrupts ----------------------------
\* A frame of four lines, two of them visible; timer 0 counts lines, timer 1 its matches,
\* timer 3 the clock.
EXTENDS Interrupts

Limits(a, b, d) == [i \in Timer |-> <<a, b, 1, d>>[i + 1]]
Clocks == [i \in Timer |-> <<"line", "cascade", "tap", "tap">>[i + 1]]
MCPrograms == {[on |-> {0}, from |-> Clocks, limit |-> Limits(1, 1, 1)],
               [on |-> {0, 3}, from |-> Clocks, limit |-> Limits(1, 1, 1)]}

Give(f) == [s \in Source |-> IF s \in DOMAIN f THEN f[s] ELSE 0]
MCLevelMaps == {Give([vblank |-> 2, int5 |-> 3, t0 |-> 3, tc0 |-> 3])}
=============================================================================
