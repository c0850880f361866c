---------------------------- MODULE SerialChannel ----------------------------
(***************************************************************************)
(* Serial channel 0 of one console, which is its link cable (cpp/src:      *)
(* memory.cpp serial_tick, z80.cpp io_action_write, machine.hpp read8,     *)
(* core.cpp ngpc_serial_* and ngpc_link_state).  The state of the channel  *)
(* is a record and every operation a function from records to records.     *)
(* A byte is any value but NoByte.                                         *)
(*                                                                         *)
(* c.silicon is the timing model the shell arms (ngpc_set_timing_silicon): *)
(* a transmitter of two stages, and a receiver that does not charge the    *)
(* byte time of a byte that was already waiting.  The experimental switches*)
(* that this model clears are not represented.                             *)
(***************************************************************************)
EXTENDS Integers, Sequences

CONSTANTS
  ByteTicks     \* serial_byte_cycles()

ASSUME ByteTicksAssumption == ByteTicks \in Nat \ {0}

NoByte == <<>>
High == "high"         \* a line that says "not ready"
Low == "low"
Never == "never"       \* serial_rts_last before the first tick

Fresh(silicon, ctse) ==
  [silicon |-> silicon, ctse |-> ctse, enabled |-> FALSE,
   buf |-> NoByte,                       \* SC0BUF, the first stage
   shift |-> NoByte, shifting |-> FALSE, txLeft |-> 0,
   tx |-> <<>>,                          \* bytes on the wire
   rx |-> <<>>,                          \* bytes the bridge has delivered
   slot |-> NoByte, pending |-> FALSE, had |-> FALSE, rxLeft |-> 0,
   rts |-> Low, rtsLast |-> Never,
   cts |-> Low, seen |-> FALSE,
   txIrq |-> TRUE, rxIrq |-> FALSE,      \* what the interrupt handlers have been told
   event |-> FALSE]

(***************************************************************************)
(* The CPU's side                                                          *)
(***************************************************************************)
\* Writing SC0BUF with the cable in.
WriteBuf(c, byte) ==
  IF c.silicon
    THEN [c EXCEPT !.buf = byte, !.txIrq = FALSE]
    ELSE [c EXCEPT !.shift = byte, !.shifting = FALSE, !.txLeft = ByteTicks,
                   !.txIrq = FALSE]

\* read8 of SC0BUF acknowledges the byte; the buffer keeps holding it.
Acknowledged(c) == [c EXCEPT !.pending = FALSE]

\* The game's handler of INTRX0 reads it.
ReadBuf(c) == [Acknowledged(c) EXCEPT !.rxIrq = FALSE]

\* Mutant of HostRead: a debugger's or a capture's read is the CPU's read.
HostReadConsumes(c) == Acknowledged(c)

\* ngpc_read_mem reads all memory, and puts the flag back.
HostRead(c) == [Acknowledged(c) EXCEPT !.pending = c.pending]

(***************************************************************************)
(* serial_tick                                                             *)
(***************************************************************************)
Held(c) == c.ctse /\ c.cts = High

\* CTS gates the start of a byte, never a byte already going out.
MayShift(c) == c.shifting \/ ~Held(c)

ShiftOut(c, n) ==
  IF c.shift = NoByte \/ ~MayShift(c) THEN c
  ELSE IF c.txLeft > n THEN [c EXCEPT !.shifting = TRUE, !.txLeft = @ - n]
  ELSE [c EXCEPT !.tx = Append(@, c.shift), !.shift = NoByte, !.shifting = FALSE,
                 !.txLeft = 0, !.event = TRUE, !.txIrq = @ \/ ~c.silicon]

MayLoad(c) == c.silicon /\ c.buf # NoByte /\ c.shift = NoByte /\ ~Held(c)

LoadShift(c) ==
  IF MayLoad(c)
    THEN [c EXCEPT !.shift = c.buf, !.buf = NoByte, !.shifting = TRUE,
                   !.txLeft = ByteTicks, !.txIrq = TRUE]
    ELSE c

\* Mutant of MayPresent: the next byte does not wait for the CPU to read this one.
MayPresentOver(c) == c.rx # <<>> /\ c.rts = Low

MayPresent(c) == ~c.pending /\ c.rx # <<>> /\ c.rts = Low

Present(c, n) ==
  LET left == IF c.silicon /\ c.had THEN 0 ELSE c.rxLeft - n
  IN  IF ~MayPresent(c) THEN c
      ELSE IF left > 0 THEN [c EXCEPT !.rxLeft = left]
      ELSE [c EXCEPT !.slot = Head(c.rx), !.rx = Tail(@), !.pending = TRUE,
                     !.had = TRUE, !.rxLeft = ByteTicks, !.rxIrq = TRUE]

SampleRts(c) ==
  IF c.rts = c.rtsLast THEN c ELSE [c EXCEPT !.rtsLast = c.rts, !.event = TRUE]

\* Without the cable the channel does nothing.
Tick(c, n) ==
  IF c.enabled THEN SampleRts(Present(LoadShift(ShiftOut(c, n)), n)) ELSE c

(***************************************************************************)
(* The host's side                                                         *)
(***************************************************************************)
\* ngpc_serial_set_enabled: pulling the cable empties the FIFOs and both halves of the
\* shift registers, but neither the first transmit stage nor the handshake pins.
SetEnabled(c, on) ==
  IF on THEN [c EXCEPT !.enabled = TRUE]
  ELSE [c EXCEPT !.enabled = FALSE, !.tx = <<>>, !.rx = <<>>, !.shift = NoByte,
                 !.shifting = FALSE, !.pending = FALSE, !.txLeft = 0, !.rxLeft = 0]

\* ngpc_reset: the program, the interrupts and the I/O page (RTS among them) start again;
\* of the channel itself only the buffer stages do.
Reset(c) ==
  [c EXCEPT !.buf = NoByte, !.had = FALSE, !.rts = Low, !.txIrq = TRUE, !.rxIrq = FALSE]

\* ngpc_serial_set_cts
SetCts(c, level) == [c EXCEPT !.cts = level, !.seen = TRUE]

\* Mutant of Saved: the block of the first version, before the second transmit stage.
SavedWithoutBuf(c) == [c EXCEPT !.event = FALSE, !.rtsLast = Never, !.buf = NoByte]

\* ngpc_get_link_state and the memory image: everything but the wake-up of the host.
Saved(c) == [c EXCEPT !.event = FALSE, !.rtsLast = Never]

\* ngpc_set_link_state leaves the wake-up of the host as it is.
Restored(c, saved) == [saved EXCEPT !.event = c.event, !.rtsLast = c.rtsLast]

\* 0xB1 bit 2 as the game reads it: a peer is there.
PeerDetected(c) == c.enabled /\ c.seen /\ c.cts = Low

(***************************************************************************)
(* What a channel is made of                                               *)
(***************************************************************************)
\* The type of a channel whose bytes are those of a set.
ChannelOver(bytes) ==
  [silicon : BOOLEAN, ctse : BOOLEAN, enabled : BOOLEAN,
   buf : bytes \cup {NoByte}, shift : bytes \cup {NoByte}, shifting : BOOLEAN,
   txLeft : 0 .. ByteTicks, tx : Seq(bytes), rx : Seq(bytes),
   slot : bytes \cup {NoByte}, pending : BOOLEAN, had : BOOLEAN, rxLeft : 0 .. ByteTicks,
   rts : {High, Low}, rtsLast : {High, Low, Never}, cts : {High, Low}, seen : BOOLEAN,
   txIrq : BOOLEAN, rxIrq : BOOLEAN, event : BOOLEAN]

One(byte) == IF byte = NoByte THEN <<>> ELSE <<byte>>

\* The bytes a channel holds for its peer, and those it holds for its own game, in order.
Leaving(c) == c.tx \o One(c.shift) \o One(c.buf)
Arriving(c) == (IF c.pending THEN <<c.slot>> ELSE <<>>) \o c.rx

=============================================================================
