-------------------------------- MODULE Match --------------------------------
(***************************************************************************)
(* What mirror netplay promises its two players (the head comment of       *)
(* core/netplay.py): there is ONE match, a pair of pad bytes per frame that*)
(* is decided once and never revised, and each screen shows it from the    *)
(* first frame on, in order, skipping nothing and inventing nothing.  How  *)
(* far each screen has got is its own business.                            *)
(***************************************************************************)
EXTENDS Integers

CONSTANT PC

VARIABLES
  match,   \* frame -> the pair of pad bytes decided for it
  screen   \* PC -> (frame -> the pair that PC has fed its two consoles)

Init == screen = [p \in PC |-> <<>>]

\* Decided pairs stay; new frames may be decided.
Decide == \A f \in DOMAIN match : f \in DOMAIN match' /\ match'[f] = match[f]

\* One screen shows its next frame.
Show(p) ==
  \E f \in DOMAIN match' :
    /\ DOMAIN screen[p] = 0 .. f-1
    /\ screen' = [screen EXCEPT ![p] =
                    [g \in 0 .. f |-> IF g = f THEN match'[f] ELSE screen[p][g]]]

Next == Decide /\ (UNCHANGED screen \/ \E p \in PC : Show(p))

Spec == Init /\ [][Next]_<<match, screen>>
=============================================================================
