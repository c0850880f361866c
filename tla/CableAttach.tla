----------------------------- MODULE CableAttach -----------------------------
(***************************************************************************)
(* The cable of one page's console over an evening: ngpc_shell.py plugs it *)
(* for the two-player window or a network cable (attach_link,              *)
(* attach_net_link), for a mirror match (_start_mirror), and takes it away *)
(* again, while the game plays on.  The channel is that of SerialChannel; a*)
(* byte is the number of the session it was sent in.                       *)
(***************************************************************************)
EXTENDS SerialChannel

CONSTANTS
  Modes,         \* the sessions tried: a subset of {"cable", "mirror"}
  MaxSessions,   \* bound of the model: sessions
  MaxQueue       \* bound of the model: bytes in each FIFO

ASSUME AttachAssumption ==
  Modes \subseteq {"cable", "mirror"} /\ MaxSessions \in Nat /\ MaxQueue \in Nat

VARIABLES
  port,      \* the console's serial channel
  mode,      \* "cable", "mirror", or "alone"
  session,   \* how many sessions have begun
  played,    \* PlayPage._frame # 0
  got        \* the sessions of the bytes that either game has received in this one

pageVars == <<port, mode, session, played, got>>

PageInit ==
  /\ \E ctse \in BOOLEAN : port = Fresh(TRUE, ctse)
  /\ mode = "alone" /\ session = 0 /\ played = FALSE /\ got = {}

\* Mutant of PowerCycled: the cable is not pulled before the reset.
PowerCycledPlugged(c) == SetEnabled(Reset(c), TRUE)

\* _power_cycle_for_link: out, reset, in.
PowerCycled(c) == SetEnabled(Reset(SetEnabled(c, FALSE)), TRUE)

AttachCable ==
  /\ "cable" \in Modes /\ mode = "alone" /\ session < MaxSessions
  /\ port' = IF played THEN PowerCycled(port) ELSE SetEnabled(port, TRUE)
  /\ mode' = "cable" /\ session' = session + 1 /\ played' = FALSE /\ got' = {}

DetachCable ==
  /\ mode = "cable"
  /\ port' = SetEnabled(port, FALSE) /\ mode' = "alone"
  /\ UNCHANGED <<session, played, got>>

AttachMirror ==
  /\ "mirror" \in Modes /\ mode = "alone" /\ session < MaxSessions
  /\ port' = Reset(SetEnabled(port, TRUE))
  /\ mode' = "mirror" /\ session' = session + 1 /\ played' = FALSE /\ got' = {}

\* detach_mirror leaves the channel as it is; the page's next tick runs a frame alone.
DetachMirror ==
  /\ mode = "mirror"
  /\ mode' = "alone" /\ played' = TRUE
  /\ UNCHANGED <<port, session, got>>

\* What the game and the channel do in an instruction, whoever is at the other end.
GameWrites ==
  /\ port.txIrq /\ port.buf = NoByte /\ Len(port.tx) < MaxQueue
  /\ port' = IF port.enabled THEN WriteBuf(port, <<session>>) ELSE port
  /\ played' = TRUE
  /\ UNCHANGED <<mode, session, got>>

GameReads ==
  /\ port.enabled /\ port.rxIrq
  /\ port' = ReadBuf(port) /\ got' = got \cup {port.slot[1]} /\ played' = TRUE
  /\ UNCHANGED <<mode, session>>

SetRts ==
  /\ \E level \in {High, Low} : port' = [port EXCEPT !.rts = level]
  /\ played' = TRUE
  /\ UNCHANGED <<mode, session, got>>

Run ==
  /\ port' = Tick(port, ByteTicks) /\ played' = TRUE
  /\ Len(port'.tx) <= MaxQueue
  /\ UNCHANGED <<mode, session, got>>

\* The relay of a session: its peer's RTS and bytes come in, this console's bytes go out.
Relay ==
  /\ mode # "alone"
  /\ \E level \in {High, Low}, came \in {<<>>, <<<<session>>>>} :
       /\ Len(port.rx \o came) <= MaxQueue
       /\ port' = [SetCts(port, level) EXCEPT !.rx = @ \o came, !.tx = <<>>]
  /\ got' = got \cup {port.tx[n][1] : n \in DOMAIN port.tx}
  /\ UNCHANGED <<mode, session, played>>

PageNext ==
  \/ AttachCable \/ DetachCable \/ AttachMirror \/ DetachMirror
  \/ GameWrites \/ GameReads \/ SetRts \/ Run \/ Relay

PageSpec == PageInit /\ [][PageNext]_pageVars

(***************************************************************************)
(* Properties                                                              *)
(***************************************************************************)
FromThisSession == got \subseteq {session}

\* A cable session starts from a clean wire whatever was played before it: no byte that
\* either game receives was sent before the plug went in ("drop whatever the FIFOs
\* held", ngpc_shell.py).
CableStartsClean == mode = "cable" => FromThisSession

\* A mirror match starts from the same consoles on both PCs, hence from a clean wire
\* ("the two consoles are built the same way on both PCs", ngpc_shell.py).
MirrorStartsClean == mode = "mirror" => FromThisSession

\* A game that plays alone reads "no peer" from its cable-detect pin ("UNPLUGGING
\* mid-session is now visible to the game", machine.hpp).
UnpluggingSeen == mode = "alone" => ~PeerDetected(port)

=============================================================================
