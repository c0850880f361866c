---------------------------- MODULE CartExchange ----------------------------
(***************************************************************************)
(* The cartridge trade that precedes a mirror match (core/netplay.py,      *)
(* classes CartExchange and SocketPipe, driven by ngpc_shell.py): each PC  *)
(* sends its handshake, its cartridge in chunks, and reads the other's.    *)
(* A PC whose trade is done starts its session on the same pipe, where the *)
(* other one may still be trading.                                         *)
(*                                                                         *)
(* out[p] is what the socket of p keeps back because the kernel was full,  *)
(* wire[p] what the kernel took and the other PC has not read.  One pump() *)
(* is a Pump followed by the Read* actions its recv() gave records for.    *)
(* A PC may also have been set to cable mode (core/link.py, TcpLink), which*)
(* speaks another protocol on the same socket.                             *)
(***************************************************************************)
EXTENDS Integers, Sequences, Functions

CONSTANTS
  Host, Joiner,
  Builds,        \* everything the handshake compares (BIOS, core, timing)
  HostDelay, JoinerDelay,   \* the input delay each player asks for
  Sizes,         \* chunks a cartridge makes
  Modes,         \* "mirror", "cable": what each player may have chosen
  InFlight,      \* IN_FLIGHT, in chunks
  Kernel,        \* records the kernel and the network hold in one direction
  MaxSaves,      \* bound of the model: saves a game makes while the trade runs
  Faults         \* what may go wrong: "leave", "corrupt", "slow"

PC == {Host, Joiner}
Other(p) == IF p = Host THEN Joiner ELSE Host

ASSUME TradersAssumption == Host # Joiner
ASSUME TradeAssumption ==
  /\ HostDelay \in Nat /\ JoinerDelay \in Nat /\ Sizes \subseteq Nat \ {0}
  /\ InFlight \in Nat \ {0} /\ Kernel \in Nat \ {0} /\ MaxSaves \in Nat
  /\ Modes \subseteq {"mirror", "cable"}

VARIABLES
  settings,   \* what p was set up with: [build, delay, size, mode]
  faults,     \* what may go wrong in this trade: nothing, or any of Faults
  delay,      \* the handshake's delay: the joiner adopts the host's
  phase,      \* "trade", "session", "cable", or "over": the pipe is closed
  why,        \* why it is over, or "none"
  greeted,    \* the other's hello of the current phase has been read
  sent,       \* chunks handed to the pipe
  want,       \* chunks the other announced, or NoLength
  got,        \* chunks received
  bad,        \* one of them was damaged
  image,      \* the other's cartridge, once complete, or NoImage
  leftover,   \* records read past the end of the trade
  flash,      \* version of the cartridge in p's console
  snapshot,   \* version read when the trade began, and sent
  out, wire, shut

settled == <<settings, snapshot, faults>>
tradeVars == <<delay, sent, want, got, bad, image>>
vars == <<settled, tradeVars, phase, why, greeted, leftover, flash, out, wire, shut>>

NoLength == -1
NoImage == -1

(***************************************************************************)
(* Records                                                                 *)
(***************************************************************************)
\* The trade and the session send the same kind of hello; "by" only tells them apart
\* in the properties.
Hello(p, d, by) == [kind |-> "HELLO", build |-> settings[p].build, delay |-> d, by |-> by]
Cart(p) == [kind |-> "CART", size |-> settings[p].size]
Chunk(p, ok) == [kind |-> "CHUNK", of |-> snapshot[p], ok |-> ok]
Bye == [kind |-> "BYE"]
Serial == [kind |-> "SERIAL"]

(***************************************************************************)
(* SocketPipe: the kernel takes what it has room for, the rest is kept     *)
(***************************************************************************)
Post(kept, taken) ==
  LET room == IF Len(taken) < Kernel THEN Kernel - Len(taken) ELSE 0
      n == IF Len(kept) < room THEN Len(kept) ELSE room
  IN  [out |-> SubSeq(kept, n + 1, Len(kept)), wire |-> taken \o SubSeq(kept, 1, n)]

\* close(): everything still kept goes out, then a FIN; w is the state of the wires.
HangUp(p, w, last) ==
  /\ shut' = [shut EXCEPT ![p] = TRUE]
  /\ out' = [out EXCEPT ![p] = <<>>]
  /\ wire' = [w EXCEPT ![p] = @ \o out[p] \o last]

Over(p, reason, w, last) ==
  /\ phase' = [phase EXCEPT ![p] = "over"]
  /\ why' = [why EXCEPT ![p] = reason]
  /\ HangUp(p, w, last)
  /\ UNCHANGED <<settled, tradeVars, greeted, leftover, flash>>

(***************************************************************************)
Delays == {HostDelay, JoinerDelay}
Settings == [build : Builds, delay : Delays, size : Sizes, mode : Modes]

Init ==
  /\ settings \in [PC -> Settings]
  /\ settings[Host].build = CHOOSE b \in Builds : TRUE     \* which build is which is the same
  /\ settings[Host].delay = HostDelay /\ settings[Joiner].delay = JoinerDelay
  /\ settings[Host].mode = "mirror" \/ settings[Joiner].mode = "mirror"
  /\ faults \in {{}, Faults}
  /\ delay = [p \in PC |-> settings[p].delay]
  /\ phase = [p \in PC |-> IF settings[p].mode = "mirror" THEN "trade" ELSE "cable"]
  /\ why = [p \in PC |-> "none"]
  /\ greeted = [p \in PC |-> FALSE]
  /\ sent = [p \in PC |-> 0]
  /\ want = [p \in PC |-> NoLength]
  /\ got = [p \in PC |-> 0]
  /\ bad = [p \in PC |-> FALSE]
  /\ image = [p \in PC |-> NoImage]
  /\ leftover = [p \in PC |-> <<>>]
  /\ flash = [p \in PC |-> 0]
  /\ snapshot = [p \in PC |-> 0]
  /\ shut = [p \in PC |-> FALSE]
  /\ \E opening \in {[p \in PC |-> IF settings[p].mode = "mirror"
                        THEN Post(<<Hello(p, delay[p], "trade"), Cart(p)>>, <<>>)
                        ELSE [out |-> <<>>, wire |-> <<>>]]} :
       /\ out = [p \in PC |-> opening[p].out]
       /\ wire = [p \in PC |-> opening[p].wire]

(***************************************************************************)
(* pump, the sending half                                                  *)
(***************************************************************************)
\* Mutant of Flushed: what is kept back only moves when a new chunk is sent.
FlushedNot(p) == [out |-> out[p], wire |-> wire[p]]

Flushed(p) == Post(out[p], wire[p])

MayCut(p, kept) ==
  phase[p] = "trade" /\ sent[p] < settings[p].size /\ Len(kept) < InFlight

\* Flush what is kept; during the trade cut the next chunk if the transport keeps up.
Pump(p) ==
  LET flushed == Flushed(p)
      cut == MayCut(p, flushed.out)
  IN  /\ phase[p] \in {"trade", "session"}
      /\ sent' = [sent EXCEPT ![p] = IF cut THEN @ + 1 ELSE @]
      /\ \E ok \in IF "corrupt" \in faults THEN BOOLEAN ELSE {TRUE} :
           LET next == IF cut THEN Post(Append(flushed.out, Chunk(p, ok)), flushed.wire)
                              ELSE flushed
           IN  /\ out' = [out EXCEPT ![p] = next.out]
               /\ wire' = [wire EXCEPT ![p] = next.wire]
      /\ UNCHANGED <<settled, delay, want, got, bad, image, phase, why, greeted,
                     leftover, flash, shut>>

(***************************************************************************)
(* pump, the records read                                                  *)
(***************************************************************************)
Record(p) == Head(wire[Other(p)])
Consumed(p) == [wire EXCEPT ![Other(p)] = Tail(@)]
Reads(p, kinds) ==
  /\ phase[p] = "trade" /\ image[p] = NoImage
  /\ wire[Other(p)] # <<>> /\ Record(p).kind \in kinds

\* Handshake.check; once a session holds the handshake the delay is only compared.
Verdict(p, hello) ==
  CASE hello.build # settings[p].build -> "core_version"
    [] hello.build = settings[p].build /\ phase[p] = "session"
         /\ hello.delay # delay[p] -> "input_delay"
    [] OTHER -> "none"

\* Mutant of Adopted: both ends keep the number their player typed.
AdoptedNot(p, hello) == delay[p]

Adopted(p, hello) == IF p = Host THEN delay[p] ELSE hello.delay

ReadHello(p) ==
  /\ Reads(p, {"HELLO"})
  /\ \/ /\ Verdict(p, Record(p)) # "none"
        /\ Over(p, Verdict(p, Record(p)), Consumed(p), <<Bye>>)
     \/ /\ Verdict(p, Record(p)) = "none"
        /\ greeted' = [greeted EXCEPT ![p] = TRUE]
        /\ delay' = [delay EXCEPT ![p] = Adopted(p, Record(p))]
        /\ wire' = Consumed(p)
        /\ UNCHANGED <<settled, sent, want, got, bad, image, phase, why, leftover,
                       flash, out, shut>>

ReadBye(p) == Reads(p, {"BYE"}) /\ Over(p, "peer_refused", Consumed(p), <<>>)

ReadCart(p) ==
  /\ Reads(p, {"CART"})
  /\ want' = [want EXCEPT ![p] = Record(p).size]
  /\ wire' = Consumed(p)
  /\ UNCHANGED <<settled, delay, sent, got, bad, image, phase, why, greeted, leftover,
                 flash, out, shut>>

\* The chunk about to be read is the last one.
Whole(p) == want[p] # NoLength /\ got[p] + 1 >= want[p]

\* A chunk; _finish checks the image against the fingerprint announced in the hello.
ReadChunk(p) ==
  /\ Reads(p, {"CHUNK"})
  /\ \/ /\ Whole(p) /\ (bad[p] \/ ~Record(p).ok)
        /\ Over(p, "cartridge_transfer", Consumed(p), <<Bye>>)
     \/ /\ ~Whole(p) \/ (~bad[p] /\ Record(p).ok)
        /\ got' = [got EXCEPT ![p] = @ + 1]
        /\ bad' = [bad EXCEPT ![p] = @ \/ ~Record(p).ok]
        /\ image' = [image EXCEPT ![p] = IF Whole(p) THEN Record(p).of ELSE @]
        /\ wire' = Consumed(p)
        /\ UNCHANGED <<settled, delay, sent, want, phase, why, greeted, leftover, flash,
                       out, shut>>

\* Anything else is another protocol: said to the other end if it has not greeted.
ReadStranger(p) ==
  /\ Reads(p, {"SERIAL"})
  /\ Over(p, IF greeted[p] THEN "unexpected_record" ELSE "not_mirror", Consumed(p),
          IF greeted[p] THEN <<>> ELSE <<Bye>>)

\* Mutant of KeepRest: what follows the cartridge is dropped.
KeepRestNot(p) ==
  /\ phase[p] = "trade" /\ image[p] # NoImage /\ wire[Other(p)] # <<>>
  /\ wire' = Consumed(p)
  /\ UNCHANGED <<settled, tradeVars, phase, why, greeted, leftover, flash, out, shut>>

\* The image is complete: what follows is the session's.
KeepRest(p) ==
  /\ phase[p] = "trade" /\ image[p] # NoImage /\ wire[Other(p)] # <<>>
  /\ leftover' = [leftover EXCEPT ![p] = Append(@, Record(p))]
  /\ wire' = Consumed(p)
  /\ UNCHANGED <<settled, tradeVars, phase, why, greeted, flash, out, shut>>

(***************************************************************************)
(* The shell: the trade is over, one way or the other                      *)
(***************************************************************************)

Done(p) ==
  /\ phase[p] = "trade" /\ greeted[p] /\ image[p] # NoImage
  /\ sent[p] >= settings[p].size /\ out[p] = <<>>

\* Mutant of OwnCart: the console keeps what the game saved while the trade ran.
OwnCartLive(p) == flash[p]

\* What is laid on our own console after its reset: the image that was sent.
OwnCart(p) == snapshot[p]

\* _start_mirror: both consoles are reset, the session says hello in its turn.
StartSession(p) ==
  LET next == Post(<<Hello(p, delay[p], "session")>>, wire[p])
  IN  /\ Done(p)
      /\ phase' = [phase EXCEPT ![p] = "session"]
      /\ greeted' = [greeted EXCEPT ![p] = FALSE]
      /\ flash' = [flash EXCEPT ![p] = OwnCart(p)]
      /\ out' = [out EXCEPT ![p] = next.out]
      /\ wire' = [wire EXCEPT ![p] = next.wire]
      /\ UNCHANGED <<settled, tradeVars, why, leftover, shut>>

\* The game on the page still runs while the cartridges are traded, and may save.
GameSaves(p) ==
  /\ phase[p] = "trade" /\ flash[p] < MaxSaves
  /\ flash' = [flash EXCEPT ![p] = @ + 1]
  /\ UNCHANGED <<settled, tradeVars, phase, why, greeted, leftover, out, wire, shut>>

\* The session reads its prime first, then the pipe.
ReadSession(p) ==
  LET primed == leftover[p] # <<>>
      r == IF primed THEN Head(leftover[p]) ELSE Record(p)
      rest == IF primed THEN wire ELSE Consumed(p)
      refusal == IF r.kind = "BYE" THEN "peer_refused" ELSE Verdict(p, r)
  IN  /\ phase[p] = "session" /\ (primed \/ wire[Other(p)] # <<>>)
      /\ \/ /\ refusal # "none"
            /\ Over(p, refusal, rest, IF r.kind = "BYE" THEN <<>> ELSE <<Bye>>)
         \/ /\ refusal = "none"
            /\ greeted' = [greeted EXCEPT ![p] = TRUE]
            /\ leftover' = [leftover EXCEPT ![p] = IF primed THEN Tail(@) ELSE @]
            /\ wire' = rest
            /\ UNCHANGED <<settled, tradeVars, phase, why, flash, out, shut>>

\* Everything that came has been read and the other end is gone.  A finished trade is
\* not looked at again; a session looks before it reads its prime.
NoticeLost(p) ==
  /\ phase[p] \in {"trade", "session", "cable"} /\ ~Done(p)
  /\ shut[Other(p)] /\ wire[Other(p)] = <<>>
  /\ Over(p, "lost", wire, <<>>)

\* HELLO_TIMEOUT: nobody has greeted.
NoHello(p) ==
  /\ phase[p] = "trade" /\ ~greeted[p]
  /\ settings[Other(p)].mode = "cable" \/ "slow" \in faults
  /\ Over(p, "no_hello", wire, <<>>)

Leave(p) ==
  /\ "leave" \in faults /\ phase[p] # "over"
  /\ Over(p, "left", wire, <<>>)

(***************************************************************************)
(* The closed end: _linger_then_close reads and drops until the other end  *)
(* hangs up too.  An end that lingers no longer resets the connection, and *)
(* the reset discards what the other one had not read.                     *)
(***************************************************************************)
Linger(p) ==
  /\ shut[p] /\ wire[Other(p)] # <<>>
  /\ wire' = [wire EXCEPT ![Other(p)] = <<>>]
  /\ UNCHANGED <<settled, tradeVars, phase, why, greeted, leftover, flash, out, shut>>

Reset(p) ==
  /\ "slow" \in faults /\ shut[p] /\ wire[p] # <<>>
  /\ wire' = [wire EXCEPT ![p] = <<>>]
  /\ UNCHANGED <<settled, tradeVars, phase, why, greeted, leftover, flash, out, shut>>

(***************************************************************************)
(* A PC in cable mode: its game may send serial bytes; a mirror hello among*)
(* the first bytes it receives ends the connection.                        *)
(***************************************************************************)
CableTalk(p) ==
  /\ phase[p] = "cable" /\ wire[p] = <<>>
  /\ wire' = [wire EXCEPT ![p] = <<Serial>>]
  /\ UNCHANGED <<settled, tradeVars, phase, why, greeted, leftover, flash, out, shut>>

CableSniff(p) ==
  /\ phase[p] = "cable" /\ wire[Other(p)] # <<>> /\ Record(p).kind = "HELLO"
  /\ \/ Over(p, "peer_mirror_mode", Consumed(p), <<>>)
     \/ Over(p, "peer_mirror_mode", [Consumed(p) EXCEPT ![p] = <<>>], <<>>)

(***************************************************************************)
Read(p) == ReadHello(p) \/ ReadBye(p) \/ ReadCart(p) \/ ReadChunk(p)
             \/ ReadStranger(p) \/ KeepRest(p) \/ ReadSession(p) \/ CableSniff(p)

Next ==
  \E p \in PC : \/ Pump(p) \/ Read(p) \/ StartSession(p) \/ NoticeLost(p) \/ NoHello(p)
               \/ GameSaves(p) \/ Leave(p) \/ Linger(p) \/ Reset(p) \/ CableTalk(p)

\* The shell's timer pumps every 16 ms for as long as the trade lives, the timeout fires,
\* and what is in the wire is delivered.
Fairness == \A p \in PC :
  /\ WF_vars(Pump(p)) /\ WF_vars(Read(p)) /\ WF_vars(StartSession(p))
  /\ WF_vars(NoticeLost(p)) /\ WF_vars(NoHello(p)) /\ WF_vars(Linger(p))

Spec == Init /\ [][Next]_vars
FairSpec == Spec /\ Fairness

(***************************************************************************)
(* Properties                                                              *)
(***************************************************************************)
Versions == 0 .. MaxSaves
Records == [kind : {"HELLO"}, build : Builds, delay : Delays, by : {"trade", "session"}]
             \cup [kind : {"CART"}, size : Sizes]
             \cup [kind : {"CHUNK"}, of : Versions, ok : BOOLEAN]
             \cup [kind : {"BYE", "SERIAL"}]
Reasons == {"none", "core_version", "input_delay", "peer_refused", "cartridge_transfer",
            "unexpected_record", "not_mirror", "lost", "no_hello", "left",
            "peer_mirror_mode"}

\* Every variable has its type, and a session has the other player's cartridge.
TypeOK ==
  /\ settings \in [PC -> Settings] /\ faults \in {{}, Faults}
  /\ delay \in [PC -> Delays]
  /\ phase \in [PC -> {"trade", "session", "cable", "over"}]
  /\ why \in [PC -> Reasons]
  /\ greeted \in [PC -> BOOLEAN] /\ bad \in [PC -> BOOLEAN] /\ shut \in [PC -> BOOLEAN]
  /\ sent \in [PC -> Nat] /\ got \in [PC -> Nat]
  /\ want \in [PC -> Sizes \cup {NoLength}]
  /\ image \in [PC -> Versions \cup {NoImage}]
  /\ \A p \in PC : phase[p] = "session" => image[p] # NoImage
  /\ flash \in [PC -> Versions] /\ snapshot \in [PC -> Versions]
  /\ out \in [PC -> Seq(Records)] /\ wire \in [PC -> Seq(Records)]
  /\ leftover \in [PC -> Seq(Records)]

\* Two PCs in a session hold the same two cartridges, whatever the games saved while the
\* images travelled: the console each player plays is the one the other PC mirrors.
SameCartridges ==
  (\A p \in PC : phase[p] = "session") => \A p \in PC : image[p] = flash[Other(p)]

\* Two players who asked for different delays play all the same: no session is refused
\* for its delay, and two sessions that have greeted use one delay.
DelaySettled ==
  /\ \A p \in PC : why[p] # "input_delay"
  /\ (\A p \in PC : phase[p] = "session" /\ greeted[p]) => delay[Host] = delay[Joiner]

\* Nobody stays at "trading": each player is in a session that has greeted, or is told
\* why not; also when the other leaves, refuses, or is in cable mode.
EveryoneSettles ==
  \A p \in PC : <>(phase[p] = "over" \/ (phase[p] = "session" /\ greeted[p]))

\* Two players who may play together do: with nothing going wrong and the same build,
\* both sessions start and greet.
GoodTradeStarts ==
  (faults = {} /\ settings[Host].build = settings[Joiner].build
     /\ \A p \in PC : settings[p].mode = "mirror")
    => <>[](\A p \in PC : phase[p] = "session" /\ greeted[p])

\* "make sure the OTHER player is told which no it was": no player is told the connection
\* was lost when the refusal has reached that PC.
RefusalShown ==
  \A p \in PC : why[p] = "lost" => \A i \in 1 .. Len(leftover[p]) : leftover[p][i] # Bye

=============================================================================
