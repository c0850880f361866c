------------------------------ MODULE TcpCable ------------------------------
(***************************************************************************)
(* The link cable over TCP: TcpLink of the desktop (core/link.py and its   *)
(* owner, ngpc_shell.py) and CableLink of the libretro core                *)
(* (cable_link.hpp, libretro.cpp), in any pairing of the two.  The wire    *)
(* carries the cable's own bytes and nothing else.                         *)
(*                                                                         *)
(* An end is a program: a shell, a libretro core, or a shell whose player  *)
(* chose the mirror mode by mistake.  net is the two kernels: a socket per *)
(* end, the bytes sent and not read yet, and what an end will hear of a    *)
(* peer that closed.  The console's channel is the record of SerialChannel;*)
(* its ticks are LinkCable's matter, here the game puts bytes in one FIFO  *)
(* and takes them from the other.  A byte is its number and what it may be *)
(* taken for; taken and got are history: what a connection took out of one *)
(* console, and what it put in the other.                                  *)
(*                                                                         *)
(* Left out: the monitor of the debugger, states a front end loads, and how*)
(* a shell's attempt becomes a connection, which is LinkAttempts.          *)
(***************************************************************************)
EXTENDS SerialChannel, FiniteSets

CONSTANTS
  A, B,
  Kinds,        \* the programs tried: a set of functions from End
  Kernel,       \* bytes the kernels hold for a connection, per direction
  SniffPumps,   \* pumps a first byte that looks like a hello is held (30)
  MaxBytes,     \* bound of the model: bytes of each game
  MaxStarts,    \* bound of the model: times each player acts on his program
  Unplugs       \* does a libretro player switch the cable off while it is up

End == {A, B}
Peer(e) == IF e = A THEN B ELSE A

ASSUME TwoEnds == A # B
ASSUME CableAssumption ==
  /\ Kinds \subseteq [End -> {"shell", "retro", "mirror"}]
  /\ Kernel \in Nat \ {0, 1} /\ {SniffPumps, MaxStarts} \subseteq Nat /\ MaxBytes \in [End -> Nat]
  /\ Unplugs \in BOOLEAN

VARIABLES
  kind,      \* what program an end is
  odd,       \* does its game begin with the first byte of a hello
  option,    \* libretro: what the core option says
  told,      \* libretro: it has changed, or the game has just been loaded
  state,     \* "idle", "waiting", "connected" or "lost"
  declared,  \* peer_declared_: somebody has spoken for the peer
  net,       \* the two kernels
  out,       \* drained from the console, not accepted by the kernel
  held,      \* shell: read from the socket, not given to the console
  pumps,     \* shell: pumps that looked at held; SniffPumps + 1 once decided
  why,       \* what the player was told last
  chan,      \* the console's channel
  wrote,     \* bytes the game has written
  starts,    \* times the player has acted on his program
  taken, got

programs == <<kind, odd>>
player == <<option, told, starts>>
link == <<state, declared, out, held, pumps, why>>
console == <<chan, wrote>>
history == <<taken, got>>
vars == <<programs, player, link, net, console, history>>

Head1 == <<1, "head">>
Hello == <<Head1, <<2, "tail">>>>
Byte(e, k) == <<k, IF k = 1 /\ odd[e] THEN "head" ELSE "game">>
Least(a, b) == IF a < b THEN a ELSE b
Armed(e) == state[e] \in {"waiting", "connected"}
Plain == Fresh(TRUE, FALSE)

Init ==
  /\ kind \in Kinds /\ odd \in [End -> BOOLEAN]
  /\ \A e \in End : odd[e] => kind[Peer(e)] = "shell" /\ MaxBytes[e] > 0  \* nobody else asks
  /\ option = [e \in End |-> "off"] /\ told = [e \in End |-> FALSE]
  /\ starts = [e \in End |-> 0]
  /\ state = [e \in End |-> "idle"] /\ declared = [e \in End |-> FALSE]
  /\ net = [sock |-> [e \in End |-> "none"], wire |-> [e \in End |-> <<>>],
            hears |-> [e \in End |-> "nothing"]]
  /\ out = [e \in End |-> <<>>] /\ held = [e \in End |-> <<>>]
  /\ pumps = [e \in End |-> 0] /\ why = [e \in End |-> "nothing"]
  /\ chan = [e \in End |-> Plain]
  /\ wrote = [e \in End |-> 0]
  /\ taken = [e \in End |-> <<>>] /\ got = [e \in End |-> <<>>]

(***************************************************************************)
(* The kernels                                                             *)
(***************************************************************************)
Up(n, e) == n.sock[e] \in {"ready", "open"}

\* What may be left of the bytes a connection still had for an end when it was reset.
Flushed(w) == {w, <<>>}

\* close(): unread bytes make it a reset, and so may a connection nobody has accepted; the
\* reset may take what was still to be read.
Hung(n, e) ==
  LET p == Peer(e)
      gone == [n EXCEPT !.sock[e] = "none", !.wire[p] = <<>>, !.hears[e] = "nothing"]
      fin == IF n.wire[p] = <<>> THEN {[gone EXCEPT !.hears[p] = "fin"]} ELSE {}
      reset == {[gone EXCEPT !.hears[p] = "reset", !.wire[e] = w] : w \in Flushed(n.wire[e])}
  IN  IF ~Up(n, e) \/ ~Up(n, p) THEN {[gone EXCEPT !.wire[e] = <<>>]}
      ELSE IF n.sock[e] = "open" /\ fin # {} THEN fin
      ELSE fin \cup reset

\* A connection request meets a listener.
Establish(e) ==
  /\ net.sock[e] = "connecting" /\ net.sock[Peer(e)] = "listening"
  /\ net' = [sock |-> [x \in End |-> "ready"], wire |-> [x \in End |-> <<>>],
             hears |-> [x \in End |-> "nothing"]]
  /\ taken' = [x \in End |-> <<>>] /\ got' = [x \in End |-> <<>>]
  /\ UNCHANGED <<programs, player, link, console>>

\* It meets none: connect() fails.  A shell tries again (LinkAttempts), as if still asking.
Refuse(e) ==
  /\ net.sock[e] = "connecting" /\ net.sock[Peer(e)] # "listening" /\ kind[e] = "retro"
  /\ net' = [net EXCEPT !.sock[e] = "refused"]
  /\ UNCHANGED <<programs, player, link, console, history>>

\* Bytes reach a socket that is closed: it answers with a reset.
Resets(e) ==
  /\ Up(net, e) /\ ~Up(net, Peer(e)) /\ net.wire[e] # <<>> /\ net.hears[e] # "reset"
  /\ \E w \in Flushed(net.wire[Peer(e)]) :
       net' = [net EXCEPT !.hears[e] = "reset", !.wire[e] = <<>>, !.wire[Peer(e)] = w]
  /\ UNCHANGED <<programs, player, link, console, history>>

(***************************************************************************)
(* The console's game                                                      *)
(***************************************************************************)
Transmit(e) ==
  /\ chan[e].enabled /\ ~Held(chan[e]) /\ wrote[e] < MaxBytes[e] /\ kind[e] # "mirror"
  /\ wrote' = [wrote EXCEPT ![e] = @ + 1]
  /\ chan' = [chan EXCEPT ![e].tx = Append(@, Byte(e, wrote[e] + 1))]
  /\ UNCHANGED <<programs, player, link, net, history>>

Receive(e) ==
  /\ chan[e].enabled /\ chan[e].rx # <<>>
  /\ chan' = [chan EXCEPT ![e].rx = Tail(@)]
  /\ UNCHANGED <<programs, player, link, net, wrote, history>>

(***************************************************************************)
(* The players                                                             *)
(***************************************************************************)
\* The core option changes, or another option does; retro_run asks once per frame.
Choose(e, o) ==
  /\ kind[e] = "retro" /\ starts[e] < MaxStarts
  /\ Unplugs \/ ~(o = "off" /\ state[e] = "connected")
  /\ option' = [option EXCEPT ![e] = o] /\ told' = [told EXCEPT ![e] = TRUE]
  /\ starts' = [starts EXCEPT ![e] = @ + 1]
  /\ UNCHANGED <<programs, link, net, console, history>>

Asks(n, e, o) == [n EXCEPT !.sock[e] = IF o = "host" THEN "listening" ELSE "connecting"]

\* A shell's player hosts or joins, or its attempt ends without a connection.
Attempt(e, o) ==
  /\ kind[e] # "retro" /\ state[e] = "idle" /\ starts[e] < MaxStarts
  /\ starts' = [starts EXCEPT ![e] = @ + 1]
  /\ state' = [state EXCEPT ![e] = "waiting"] /\ net' = Asks(net, e, o)
  /\ UNCHANGED <<programs, option, told, declared, out, held, pumps, why, console, history>>

GiveUp(e) ==
  /\ kind[e] # "retro" /\ state[e] = "waiting"
  /\ state' = [state EXCEPT ![e] = "idle"] /\ net' \in Hung(net, e)
  /\ UNCHANGED <<programs, player, declared, out, held, pumps, why, console, history>>

(***************************************************************************)
(* The libretro core: one retro_run is the option, then the connection,    *)
(* then the frame, relayed in slices                                       *)
(***************************************************************************)
\* shutdown() without a machine: the declaration is forgotten, the line stays as it is.
Shut(e) == declared' = [declared EXCEPT ![e] = FALSE] /\ out' = [out EXCEPT ![e] = <<>>]

Plug(e, on) == chan' = [chan EXCEPT ![e] = SetEnabled(@, on)]

Unplugged(e) == Shut(e) /\ state' = [state EXCEPT ![e] = "idle"] /\ Plug(e, FALSE)

\* apply_link_option, with the frame's look at a start() that failed.
ApplyOption(e) ==
  /\ told[e] /\ told' = [told EXCEPT ![e] = FALSE]
  /\ \/ option[e] = "off" /\ net' \in Hung(net, e) /\ why' = why
        /\ IF Armed(e) THEN Unplugged(e)
           ELSE Shut(e) /\ state' = [state EXCEPT ![e] = "idle"] /\ UNCHANGED chan
     \/ option[e] # "off" /\ Armed(e) /\ UNCHANGED <<state, declared, out, why, chan, net>>
     \/ /\ option[e] # "off" /\ ~Armed(e)
        /\ Shut(e) /\ Plug(e, TRUE) /\ why' = [why EXCEPT ![e] = "nothing"]
        /\ state' = [state EXCEPT ![e] = "waiting"] /\ net' = Asks(net, e, option[e])
     \/ option[e] # "off" /\ ~Armed(e) /\ Unplugged(e) /\ UNCHANGED <<why, net>>
  /\ UNCHANGED <<programs, option, starts, held, pumps, wrote, history>>

\* poll_connection.
Poll(e) ==
  /\ kind[e] = "retro" /\ ~told[e] /\ state[e] = "waiting" /\ net.sock[e] = "ready"
  /\ state' = [state EXCEPT ![e] = "connected"]
  /\ net' = [net EXCEPT !.sock[e] = "open"]
  /\ UNCHANGED <<programs, player, declared, out, held, pumps, why, console, history>>

\* The connection was refused, or it was lost in the last frame: the cable comes out.
Tidy(e) ==
  /\ kind[e] = "retro" /\ ~told[e]
  /\ state[e] = "lost" \/ (state[e] = "waiting" /\ net.sock[e] = "refused")
  /\ Unplugged(e) /\ net' \in Hung(net, e)
  /\ UNCHANGED <<programs, player, held, pumps, why, wrote, history>>

\* retro_unload_game and retro_load_game: another machine, the same option.
Reload(e) ==
  /\ kind[e] = "retro" /\ starts[e] < MaxStarts
  /\ starts' = [starts EXCEPT ![e] = @ + 1]
  /\ Shut(e) /\ state' = [state EXCEPT ![e] = "idle"] /\ net' \in Hung(net, e)
  /\ chan' = [chan EXCEPT ![e] = Plain] /\ told' = [told EXCEPT ![e] = TRUE]
  /\ UNCHANGED <<programs, option, held, pumps, why, wrote, history>>

(***************************************************************************)
(* The shells                                                              *)
(***************************************************************************)
\* TcpLink, then attach_net_link: the peer is spoken for and the console starts again.
Plugged(c) == SetEnabled(Reset(SetEnabled(SetCts(SetEnabled(c, TRUE), Low), FALSE)), TRUE)

Attach(e) ==
  /\ kind[e] # "retro" /\ state[e] = "waiting" /\ net.sock[e] = "ready"
  /\ state' = [state EXCEPT ![e] = "connected"]
  /\ out' = [out EXCEPT ![e] = <<>>] /\ held' = [held EXCEPT ![e] = <<>>]
  /\ pumps' = [pumps EXCEPT ![e] = 0] /\ why' = [why EXCEPT ![e] = "nothing"]
  /\ IF kind[e] = "mirror"
       THEN /\ net' = [net EXCEPT !.sock[e] = "open", !.wire[e] = Hello]
            /\ taken' = [taken EXCEPT ![e] = Hello] /\ UNCHANGED chan
       ELSE /\ net' = [net EXCEPT !.sock[e] = "open"]
            /\ chan' = [chan EXCEPT ![e] = Plugged(@)] /\ UNCHANGED taken
  /\ UNCHANGED <<programs, player, declared, wrote, got>>

\* detach_net_link, or the end of the mirror session; the player leaves, or the window closes.
Leave(e) ==
  /\ kind[e] # "retro" /\ state[e] = "connected"
  /\ state' = [state EXCEPT ![e] = "idle"] /\ net' \in Hung(net, e)
  /\ Plug(e, FALSE)
  /\ UNCHANGED <<programs, player, declared, out, held, pumps, why, wrote, history>>

(***************************************************************************)
(* One pump                                                                *)
(***************************************************************************)
From(s, n) == SubSeq(s, n + 1, Len(s))
Upto(s, n) == SubSeq(s, 1, n)

\* Drained from the console with what the kernel has not taken yet.
Outgoing(e) == out[e] \o chan[e].tx
Drained(c) == [c EXCEPT !.tx = <<>>]

\* send() takes what there is room for; with no room it would block.
Room(e) == Kernel - Len(net.wire[e])
Accepts(e) == {n \in 0 .. Least(Len(Outgoing(e)), Room(e)) : n > 0 \/ Room(e) = 0 \/ Outgoing(e) = <<>>}

\* Mutant of Rest: "send it all", and forget what did not fit.
RestDropped(s, n) == IF n = 0 THEN s ELSE <<>>

Rest(s, n) == From(s, n)

Moved(e, n, m) ==
  [net EXCEPT !.wire[e] = @ \o Upto(Outgoing(e), n), !.wire[Peer(e)] = From(@, m)]

\* Mutant of Ends: a hang-up ends the reading there and then.
EndsOnHangUp(e, m) ==
  CASE net.hears[e] = "reset" -> {TRUE}
    [] net.hears[e] = "fin" -> BOOLEAN
    [] OTHER -> {FALSE}

\* Mutant of Ends: an empty read looks like a peer with nothing to say.
EndsOnReset(e, m) == {net.hears[e] = "reset"}

\* Having read m bytes the end hears of the end, may hear of it, or does not.
Ends(e, m) ==
  CASE net.hears[e] = "reset" -> {TRUE}
    [] net.hears[e] = "fin" /\ m = Len(net.wire[Peer(e)]) -> BOOLEAN
    [] OTHER -> {FALSE}

Given(c, bytes) == [c EXCEPT !.rx = @ \o bytes]

\* drop_peer, declare_peer(False): the game sees the cut.
DropPeer(e, c) == SetCts(c, High)

\* _lose: the shell's page detaches the link at once, the core at its next frame.
Lose(e, c, n, reason) ==
  /\ net' \in Hung(n, e) /\ why' = [why EXCEPT ![e] = reason]
  /\ IF kind[e] = "retro"
       THEN /\ state' = [state EXCEPT ![e] = "lost"] /\ declared' = [declared EXCEPT ![e] = FALSE]
            /\ chan' = [chan EXCEPT ![e] = DropPeer(e, c)]
       ELSE /\ state' = [state EXCEPT ![e] = "idle"] /\ declared' = declared
            /\ chan' = [chan EXCEPT ![e] = SetEnabled(DropPeer(e, c), FALSE)]

Drains(e) == taken' = [taken EXCEPT ![e] = @ \o chan[e].tx]
Gives(e, bytes) == got' = [got EXCEPT ![e] = @ \o bytes]
Pumps(e) == state[e] = "connected" /\ kind[e] # "mirror"

\* The send fails: nothing is read.
PumpFails(e) ==
  /\ Pumps(e) /\ Outgoing(e) # <<>> /\ net.hears[e] = "reset"
  /\ Drains(e) /\ out' = [out EXCEPT ![e] = Outgoing(e)]
  /\ Lose(e, Drained(chan[e]), net, "sending")
  /\ UNCHANGED <<programs, player, held, pumps, wrote, got>>

Sends(e, n) ==
  /\ Pumps(e) /\ ~(Outgoing(e) # <<>> /\ net.hears[e] = "reset")
  /\ n \in Accepts(e) /\ Drains(e) /\ out' = [out EXCEPT ![e] = Rest(Outgoing(e), n)]
  /\ UNCHANGED <<programs, player, wrote>>

\* CableLink speaks for the peer in its first pump.
Declared(e, c) == IF declared[e] THEN c ELSE SetCts(c, Low)

RetroPump(e) ==
  /\ kind[e] = "retro"
  /\ \E n \in 0 .. Len(Outgoing(e)), m \in 0 .. Len(net.wire[Peer(e)]) : \E end \in Ends(e, m) :
       LET read == Upto(net.wire[Peer(e)], m)
           c == Given(Drained(Declared(e, chan[e])), read)
       IN  /\ Sends(e, n) /\ Gives(e, read)
           /\ IF end THEN Lose(e, c, Moved(e, n, m), net.hears[e])
              ELSE /\ net' = Moved(e, n, m) /\ chan' = [chan EXCEPT ![e] = c]
                   /\ declared' = [declared EXCEPT ![e] = TRUE] /\ UNCHANGED <<state, why>>
  /\ UNCHANGED <<held, pumps>>

\* The first bytes: too short to tell, a mirror's hello, or a game's.
Decided(e) == pumps[e] > SniffPumps

\* Mutant of Undecided: no bound on the wait for the rest of a hello.
UndecidedForEver(e, bytes) == ~Decided(e) /\ Len(bytes) = 1 /\ bytes[1] = Head1

Undecided(e, bytes) ==
  /\ ~Decided(e) /\ Len(bytes) = 1 /\ bytes[1] = Head1 /\ pumps[e] + 1 < SniffPumps

IsHello(e, bytes) == ~Decided(e) /\ Len(bytes) > 1 /\ Upto(bytes, 2) = Hello

ShellPump(e) ==
  /\ kind[e] = "shell"
  /\ \E n \in 0 .. Len(Outgoing(e)), m \in 0 .. Len(net.wire[Peer(e)]) : \E end \in Ends(e, m) :
       LET all == held[e] \o Upto(net.wire[Peer(e)], m)
           fed == IF Undecided(e, all) \/ IsHello(e, all) THEN <<>> ELSE all
           c == Given(Drained(chan[e]), fed)
       IN  /\ Sends(e, n) /\ Gives(e, fed)
           /\ held' = [held EXCEPT ![e] = IF Undecided(e, all) THEN all ELSE <<>>]
           /\ pumps' = [pumps EXCEPT ![e] =
                          IF all = <<>> \/ Decided(e) THEN @
                          ELSE IF Undecided(e, all) THEN Least(@ + 1, SniffPumps) ELSE SniffPumps + 1]
           /\ IF end THEN Lose(e, c, Moved(e, n, m), net.hears[e])
              ELSE IF IsHello(e, all) THEN Lose(e, c, Moved(e, n, m), "mirror")
              ELSE net' = Moved(e, n, m) /\ chan' = [chan EXCEPT ![e] = c]
                   /\ UNCHANGED <<state, why, declared>>

\* A mirror session reads whatever comes.
MirrorReads(e) ==
  /\ kind[e] = "mirror" /\ state[e] = "connected" /\ net.wire[Peer(e)] # <<>>
  /\ Gives(e, net.wire[Peer(e)]) /\ net' = [net EXCEPT !.wire[Peer(e)] = <<>>]
  /\ UNCHANGED <<programs, player, link, console, taken>>

Pump(e) == PumpFails(e) \/ RetroPump(e) \/ ShellPump(e)

Frame(e) == ApplyOption(e) \/ Poll(e) \/ Tidy(e) \/ Attach(e)

Next ==
  \E e \in End :
    \/ Establish(e) \/ Refuse(e) \/ Resets(e)
    \/ Transmit(e) \/ Receive(e)
    \/ \E o \in {"off", "host", "join"} : Choose(e, o)
    \/ \E o \in {"host", "join"} : Attempt(e, o)
    \/ GiveUp(e) \/ Reload(e) \/ Leave(e)
    \/ Frame(e) \/ Pump(e) \/ MirrorReads(e)

\* Both programs run their frames, and pump in each of them.
Spec == Init /\ [][Next]_vars
FairSpec == Spec /\ \A e \in End : WF_vars(Frame(e)) /\ WF_vars(Pump(e))

(***************************************************************************)
(* Properties                                                              *)
(***************************************************************************)
Linked == \A e \in End : net.sock[e] = "open" /\ net.hears[e] = "nothing"

\* Types.
TypeOK ==
  /\ kind \in Kinds /\ odd \in [End -> BOOLEAN]
  /\ option \in [End -> {"off", "host", "join"}] /\ told \in [End -> BOOLEAN]
  /\ starts \in [End -> 0 .. MaxStarts]
  /\ state \in [End -> {"idle", "waiting", "connected", "lost"}]
  /\ declared \in [End -> BOOLEAN] /\ pumps \in [End -> 0 .. SniffPumps + 1]
  /\ why \in [End -> {"nothing", "sending", "fin", "reset", "mirror"}]
  /\ DOMAIN net = {"sock", "wire", "hears"}
  /\ net.sock \in [End -> {"none", "listening", "connecting", "refused", "ready", "open"}]
  /\ net.hears \in [End -> {"nothing", "fin", "reset"}]
  /\ \A e \in End : Len(net.wire[e]) <= Kernel /\ wrote[e] <= MaxBytes[e]
  /\ \A e \in End : state[e] = "connected" <=> net.sock[e] = "open"

\* The cable loses, repeats and reorders no byte of a connection, however the kernels fill
\* up and whatever the first bytes look like (TcpLink.pump, CableLink::pump).
NothingLost ==
  \A e \in End :
    Linked => taken[e] = got[Peer(e)] \o held[Peer(e)] \o net.wire[e] \o out[e]

\* A peer's last words count: an end that hears of a tidy departure has given the game all
\* that was on the way, unless it still wonders whether it reads a hello
\* (test_bytes_already_received_are_still_delivered).
LastWords ==
  [][\A e \in End :
       state[e] = "connected" /\ why'[e] = "fin" /\ (kind[e] = "retro" \/ Decided(e))
         => Len(got'[e]) = Len(got[e]) + Len(net.wire[Peer(e)])]_vars

\* Without a connection the game reads that there is no peer: losing the peer takes the line
\* down, and a cable with nobody at the far end never raised it
\* (test_losing_the_peer_takes_the_detect_line_down, machine.hpp read8).
NobodyNoPeer == \A e \in End : state[e] # "connected" => ~PeerDetected(chan[e])

\* A game sees a peer only while there is a connection, and in the end whenever there is
\* one: both ends answer the same question the same way (cable_link.hpp, "declare the
\* peer"), and a cut is heard by a program that has nothing to send ("a clean FIN").
DetectFollowsPeer ==
  /\ []NobodyNoPeer
  /\ \A e \in End :
       /\ <>[](Linked /\ kind[e] # "mirror") => <>[]PeerDetected(chan[e])
       /\ <>[]~Up(net, Peer(e)) => <>[]~PeerDetected(chan[e])

\* What a game says on a connection that stays is given to the other game in the end: no
\* byte waits for ever in a full kernel or for the rest of a hello.
Delivered ==
  \A e \in End :
    <>[](Linked /\ \A x \in End : kind[x] # "mirror")
      => <>[](out[e] = <<>> /\ net.wire[e] = <<>> /\ held[e] = <<>>)

\* A joiner whose host has not opened the port yet keeps waiting (cable_link.hpp, start).
JoinerWaits ==
  [][\A e \in End :
       state[e] = "waiting" /\ option[e] = "join" /\ ~told[e] /\ starts'[e] = starts[e]
         => state'[e] # "idle"]_vars

=============================================================================
