---------------------------- MODULE LinkCableProof ----------------------------
(***************************************************************************)
(* Proofs about the cable: about LinkCable, for any timing models, costs,  *)
(* frames, programs, numbers of bytes and RTS edges, with and without a    *)
(* host that saves and restores the pair; and about CableAttach, the page  *)
(* that plugs it in, for any number of sessions.                           *)
(***************************************************************************)
EXTENDS LinkCable, CableAttach, SequenceTheorems, FiniteSetTheorems, TLAPS

----------------------------------------------------------------------------
(* One channel: what its operations keep of its type, of the bytes it       *)
(* holds in their order, and of the truth of what its interrupts announced. *)

\* What an interrupt handler has been told is so: the transmitter takes another byte, a
\* received byte is there to be read.
Honest(c) ==
  /\ c.txIrq => c.buf = NoByte /\ (c.silicon \/ c.shift = NoByte)
  /\ c.silicon \/ c.buf = NoByte
  /\ c.rxIrq => c.pending
  /\ c.pending => c.slot # NoByte

LEMMA OneIsSeq ==
  ASSUME NEW Values, NEW byte \in Values \cup {NoByte}
  PROVE  One(byte) \in Seq(Values)
BY DEF One

LEMMA ZeroTicks == 0 \in 0 .. ByteTicks /\ ByteTicks \in 0 .. ByteTicks
BY ByteTicksAssumption

\* ShiftOut moves a byte from the shift register to the end of the wire, or nothing.
LEMMA ShiftOutKeeps ==
  ASSUME NEW Values, NEW c \in ChannelOver(Values), NEW n \in Nat
  PROVE  /\ ShiftOut(c, n) \in ChannelOver(Values)
         /\ Leaving(ShiftOut(c, n)) = Leaving(c)
         /\ Arriving(ShiftOut(c, n)) = Arriving(c)
         /\ Honest(c) => Honest(ShiftOut(c, n))
<1> DEFINE d == ShiftOut(c, n)
<1>1. CASE d = c
  BY <1>1
<1>2. CASE d = [c EXCEPT !.shifting = TRUE, !.txLeft = @ - n] /\ c.txLeft > n
  <2>1. d \in ChannelOver(Values)
    <3>1. c.txLeft - n \in 0 .. ByteTicks
      BY <1>2, ByteTicksAssumption DEF ChannelOver
    <3>. QED
      BY <1>2, <3>1, ZenonT(30) DEF ChannelOver
  <2>. QED
    BY <2>1, <1>2 DEF ChannelOver, Leaving, Arriving, Honest
<1>3. CASE /\ c.shift # NoByte
           /\ d = [c EXCEPT !.tx = Append(@, c.shift), !.shift = NoByte, !.shifting = FALSE,
                            !.txLeft = 0, !.event = TRUE, !.txIrq = @ \/ ~c.silicon]
  <2>1. d \in ChannelOver(Values)
    <3>1. Append(c.tx, c.shift) \in Seq(Values)
      <4>1. c.tx \in Seq(Values) /\ c.shift \in Values
        BY <1>3 DEF ChannelOver
      <4>. QED
        BY <4>1, AppendProperties, Zenon
    <3>. QED
      BY <1>3, <3>1, ZeroTicks, ZenonT(30) DEF ChannelOver
  <2>2. Leaving(d) = Leaving(c)
    <3>1. /\ d.tx = Append(c.tx, c.shift) /\ d.shift = NoByte /\ d.buf = c.buf
          /\ c.tx \in Seq(Values) /\ c.shift \in Values /\ c.buf \in Values \cup {NoByte}
      BY <1>3 DEF ChannelOver
    <3>2. d.tx \o One(d.shift) = c.tx \o One(c.shift)
      <4>1. One(d.shift) = <<>> /\ One(c.shift) = <<c.shift>> /\ d.tx \in Seq(Values)
        BY <1>3, <3>1, AppendProperties DEF One
      <4>2. d.tx \o <<>> = d.tx /\ d.tx = c.tx \o <<c.shift>>
        BY <4>1, <3>1, ConcatEmptySeq, AppendIsConcat
      <4>. QED
        BY <4>1, <4>2
    <3>. QED
      BY <3>1, <3>2 DEF Leaving
  <2>3. Arriving(d) = Arriving(c)
    BY <1>3 DEF ChannelOver, Arriving
  <2>4. Honest(c) => Honest(d)
    BY <1>3 DEF ChannelOver, Honest
  <2>. QED
    BY <2>1, <2>2, <2>3, <2>4
<1>. QED
  BY <1>1, <1>2, <1>3, SMT DEF ShiftOut, ChannelOver

\* LoadShift moves the byte of the first stage to the second, or nothing.
LEMMA LoadShiftKeeps ==
  ASSUME NEW Values, NEW c \in ChannelOver(Values)
  PROVE  /\ LoadShift(c) \in ChannelOver(Values)
         /\ Leaving(LoadShift(c)) = Leaving(c)
         /\ Arriving(LoadShift(c)) = Arriving(c)
         /\ Honest(c) => Honest(LoadShift(c))
<1> DEFINE d == LoadShift(c)
<1>1. CASE ~MayLoad(c)
  BY <1>1 DEF LoadShift
<1>2. CASE MayLoad(c)
  <2>1. d = [c EXCEPT !.shift = c.buf, !.buf = NoByte, !.shifting = TRUE,
                      !.txLeft = ByteTicks, !.txIrq = TRUE]
    BY <1>2 DEF LoadShift
  <2>2. d \in ChannelOver(Values)
    BY <2>1, ZeroTicks, ZenonT(30) DEF ChannelOver
  <2>3. Leaving(d) = Leaving(c)
    <3>1. /\ d.tx = c.tx /\ d.shift = c.buf /\ d.buf = NoByte /\ c.shift = NoByte
          /\ c.tx \in Seq(Values) /\ c.buf \in Values \cup {NoByte}
      BY <2>1, <1>2 DEF ChannelOver, MayLoad
    <3>. QED
      BY <3>1, OneIsSeq, ConcatEmptySeq, ConcatProperties DEF Leaving, One
  <2>4. Arriving(d) = Arriving(c)
    BY <2>1 DEF ChannelOver, Arriving
  <2>5. Honest(c) => Honest(d)
    BY <2>1, <1>2 DEF ChannelOver, Honest, MayLoad
  <2>. QED
    BY <2>2, <2>3, <2>4, <2>5
<1>. QED
  BY <1>1, <1>2

\* Present announces the first delivered byte, or nothing.
LEMMA PresentKeeps ==
  ASSUME NEW Values, NoByte \notin Values, NEW c \in ChannelOver(Values), NEW n \in Nat
  PROVE  /\ Present(c, n) \in ChannelOver(Values)
         /\ Leaving(Present(c, n)) = Leaving(c)
         /\ Arriving(Present(c, n)) = Arriving(c)
         /\ Honest(c) => Honest(Present(c, n))
<1> DEFINE d == Present(c, n)
           left == IF c.silicon /\ c.had THEN 0 ELSE c.rxLeft - n
<1>1. CASE d = c
  BY <1>1
<1>2. CASE left > 0 /\ d = [c EXCEPT !.rxLeft = left]
  <2>1. d \in ChannelOver(Values)
    <3>1. left \in 0 .. ByteTicks
      BY <1>2, ByteTicksAssumption DEF ChannelOver
    <3> HIDE DEF left
    <3>. QED
      BY <1>2, <3>1, ZenonT(30) DEF ChannelOver
  <2>. QED
    BY <2>1, <1>2 DEF ChannelOver, Leaving, Arriving, Honest
<1>3. CASE /\ MayPresent(c)
           /\ d = [c EXCEPT !.slot = Head(c.rx), !.rx = Tail(@), !.pending = TRUE,
                            !.had = TRUE, !.rxLeft = ByteTicks, !.rxIrq = TRUE]
  <2>0. c.rx \in Seq(Values) /\ c.rx # <<>> /\ ~c.pending
    BY <1>3 DEF ChannelOver, MayPresent
  <2>1. d \in ChannelOver(Values)
    <3>1. Head(c.rx) \in Values /\ Tail(c.rx) \in Seq(Values)
      BY <2>0
    <3>. QED
      BY <1>3, <3>1, ZeroTicks, ZenonT(30) DEF ChannelOver
  <2>2. Arriving(d) = Arriving(c)
    <3>1. d.slot = Head(c.rx) /\ d.rx = Tail(c.rx) /\ d.pending
      BY <1>3 DEF ChannelOver
    <3>2. <<Head(c.rx)>> \o Tail(c.rx) = c.rx
      BY <2>0
    <3>. QED
      BY <2>0, <3>1, <3>2, ConcatEmptySeq DEF Arriving
  <2>3. Leaving(d) = Leaving(c)
    BY <1>3 DEF ChannelOver, Leaving
  <2>4. Honest(c) => Honest(d)
    <3>1. d.slot = Head(c.rx) /\ Head(c.rx) # NoByte
      BY <1>3, <2>0 DEF ChannelOver
    <3>. QED
      BY <1>3, <3>1 DEF ChannelOver, Honest
  <2>. QED
    BY <2>1, <2>2, <2>3, <2>4
<1>. QED
  BY <1>1, <1>2, <1>3, SMT DEF Present, ChannelOver

LEMMA SampleRtsKeeps ==
  ASSUME NEW Values, NEW c \in ChannelOver(Values)
  PROVE  /\ SampleRts(c) \in ChannelOver(Values)
         /\ Leaving(SampleRts(c)) = Leaving(c)
         /\ Arriving(SampleRts(c)) = Arriving(c)
         /\ Honest(c) => Honest(SampleRts(c))
<1>1. CASE SampleRts(c) = c
  BY <1>1
<1>2. CASE SampleRts(c) = [c EXCEPT !.rtsLast = c.rts, !.event = TRUE]
  <2>1. SampleRts(c) \in ChannelOver(Values)
    BY <1>2, ZenonT(30) DEF ChannelOver
  <2>. QED
    BY <2>1, <1>2 DEF ChannelOver, Leaving, Arriving, Honest
<1>. QED
  BY <1>1, <1>2 DEF SampleRts

\* However many cycles pass, a channel keeps its bytes in their order, and what it told
\* the handlers stays so (serial_tick).
LEMMA TickKeeps ==
  ASSUME NEW Values, NoByte \notin Values, NEW c \in ChannelOver(Values), NEW n \in Nat
  PROVE  /\ Tick(c, n) \in ChannelOver(Values)
         /\ Leaving(Tick(c, n)) = Leaving(c)
         /\ Arriving(Tick(c, n)) = Arriving(c)
         /\ Honest(c) => Honest(Tick(c, n))
BY ShiftOutKeeps, LoadShiftKeeps, PresentKeeps, SampleRtsKeeps DEF Tick

\* A byte written when INTTX0 allowed it goes behind all the others.
LEMMA WriteBufAppends ==
  ASSUME NEW Values, NoByte \notin Values, NEW c \in ChannelOver(Values), NEW byte \in Values, c.txIrq, Honest(c)
  PROVE  /\ WriteBuf(c, byte) \in ChannelOver(Values)
         /\ Leaving(WriteBuf(c, byte)) = Append(Leaving(c), byte)
         /\ Arriving(WriteBuf(c, byte)) = Arriving(c)
         /\ Honest(WriteBuf(c, byte))
<1> DEFINE d == WriteBuf(c, byte)
<1>1. c.tx \in Seq(Values) /\ c.shift \in Values \cup {NoByte} /\ c.buf = NoByte
  BY DEF ChannelOver, Honest
<1>2. One(c.shift) \in Seq(Values) /\ One(byte) = <<byte>> /\ <<byte>> \in Seq(Values)
  BY <1>1, OneIsSeq DEF One
<1> DEFINE before == c.tx \o One(c.shift)
<1>3. /\ before \in Seq(Values) /\ Leaving(c) = before
      /\ before \o <<byte>> = Append(Leaving(c), byte)
  <2>1. before \in Seq(Values)
    BY <1>1, <1>2, ConcatProperties
  <2>2. Leaving(c) = before
    BY <1>1, <2>1, ConcatEmptySeq DEF Leaving, One
  <2> HIDE DEF before
  <2>. QED
    BY <2>1, <2>2, AppendIsConcat
<1>4. CASE c.silicon
  <2>1. d = [c EXCEPT !.buf = byte, !.txIrq = FALSE]
    BY <1>4 DEF WriteBuf
  <2>2. d \in ChannelOver(Values)
    BY <2>1, ZenonT(30) DEF ChannelOver
  <2>3. d.tx = c.tx /\ d.shift = c.shift /\ d.buf = byte
    BY <2>1 DEF ChannelOver
  <2>4. Leaving(d) = Append(Leaving(c), byte)
    BY <1>2, <1>3, <2>3 DEF Leaving
  <2>. QED
    BY <2>1, <2>2, <2>4, <1>4 DEF ChannelOver, Arriving, Honest
<1>5. CASE ~c.silicon
  <2>1. d = [c EXCEPT !.shift = byte, !.shifting = FALSE, !.txLeft = ByteTicks,
                      !.txIrq = FALSE]
    BY <1>5 DEF WriteBuf
  <2>2. d \in ChannelOver(Values)
    BY <2>1, ZeroTicks, ZenonT(30) DEF ChannelOver
  <2>3. d.tx = c.tx /\ d.shift = byte /\ d.buf = c.buf /\ c.shift = NoByte
    BY <2>1, <1>5 DEF ChannelOver, Honest
  <2>4. Leaving(d) = Append(Leaving(c), byte)
    <3>1. One(NoByte) = <<>> /\ c.tx \o <<>> = c.tx /\ (c.tx \o <<byte>>) \o <<>> = c.tx \o <<byte>>
      BY <1>1, <1>2, ConcatEmptySeq, ConcatProperties DEF One
    <3>. QED
      BY <1>1, <1>2, <1>3, <2>3, <3>1 DEF Leaving
  <2>. QED
    BY <2>1, <2>2, <2>4, <1>1, <1>5 DEF ChannelOver, Arriving, Honest
<1>. QED
  BY <1>4, <1>5

\* A byte read when INTRX0 announced it is the first of those that arrived.
LEMMA ReadBufTakes ==
  ASSUME NEW Values, NoByte \notin Values, NEW c \in ChannelOver(Values), c.pending
  PROVE  /\ ReadBuf(c) \in ChannelOver(Values)
         /\ Leaving(ReadBuf(c)) = Leaving(c)
         /\ Arriving(c) = <<c.slot>> \o Arriving(ReadBuf(c))
         /\ Honest(c) => Honest(ReadBuf(c))
<1> DEFINE d == ReadBuf(c)
<1>1. d = [[c EXCEPT !.pending = FALSE] EXCEPT !.rxIrq = FALSE]
  BY DEF ReadBuf, Acknowledged
<1>2. d \in ChannelOver(Values)
  BY <1>1, ZenonT(30) DEF ChannelOver
<1>3. ~d.pending /\ d.rx = c.rx /\ c.rx \in Seq(Values)
  BY <1>1 DEF ChannelOver
<1>4. Arriving(c) = <<c.slot>> \o Arriving(d)
  BY <1>3, ConcatEmptySeq DEF Arriving
<1>. QED
  BY <1>1, <1>2, <1>4 DEF ChannelOver, Leaving, Honest

\* None of these pulls the cable, and the peer's RTS line is left to the relay.
LEMMA TickKeepsPlug ==
  ASSUME NEW Values, NoByte \notin Values, NEW c \in ChannelOver(Values), NEW n \in Nat
  PROVE  /\ Tick(c, n).enabled = c.enabled /\ Tick(c, n).cts = c.cts
         /\ Tick(c, n).rts = c.rts
<1> DEFINE d1 == ShiftOut(c, n)
           d2 == LoadShift(d1)
           d3 == Present(d2, n)
<1>1. d1 \in ChannelOver(Values) /\ d1.enabled = c.enabled /\ d1.cts = c.cts /\ d1.rts = c.rts
  <2>1. d1.enabled = c.enabled /\ d1.cts = c.cts /\ d1.rts = c.rts
    BY DEF ShiftOut, ChannelOver
  <2>. QED
    BY <2>1, ShiftOutKeeps
<1> HIDE DEF d1
<1>2. d2 \in ChannelOver(Values) /\ d2.enabled = d1.enabled /\ d2.cts = d1.cts /\ d2.rts = d1.rts
  <2>1. d2 \in ChannelOver(Values)
    BY <1>1, LoadShiftKeeps
  <2>2. d2.enabled = d1.enabled
    BY <1>1 DEF LoadShift, ChannelOver
  <2>3. d2.cts = d1.cts
    BY <1>1 DEF LoadShift, ChannelOver
  <2>4. d2.rts = d1.rts
    BY <1>1 DEF LoadShift, ChannelOver
  <2>. QED
    BY <2>1, <2>2, <2>3, <2>4
<1> HIDE DEF d2
<1>3. d3 \in ChannelOver(Values) /\ d3.enabled = d2.enabled /\ d3.cts = d2.cts /\ d3.rts = d2.rts
  <2>1. d3 \in ChannelOver(Values)
    BY <1>2, PresentKeeps
  <2>2. d3.enabled = d2.enabled
    BY <1>2 DEF Present, ChannelOver
  <2>3. d3.cts = d2.cts
    BY <1>2 DEF Present, ChannelOver
  <2>4. d3.rts = d2.rts
    BY <1>2 DEF Present, ChannelOver
  <2>. QED
    BY <2>1, <2>2, <2>3, <2>4
<1> HIDE DEF d3
<1>4. LET d4 == SampleRts(d3)
      IN  d4.enabled = d3.enabled /\ d4.cts = d3.cts /\ d4.rts = d3.rts
  BY <1>3 DEF SampleRts, ChannelOver
<1>. QED
  BY <1>1, <1>2, <1>3, <1>4 DEF Tick, d1, d2, d3

LEMMA WriteBufPlug ==
  ASSUME NEW Values, NEW c \in ChannelOver(Values), NEW byte
  PROVE  WriteBuf(c, byte).enabled = c.enabled
BY DEF WriteBuf, ChannelOver

LEMMA ReadBufPlug ==
  ASSUME NEW Values, NEW c \in ChannelOver(Values)
  PROVE  ReadBuf(c).enabled = c.enabled
BY DEF ReadBuf, Acknowledged, ChannelOver

\* The wake-up of the host, which a save leaves out and a restore leaves alone, holds no byte.
LEMMA EventKeeps ==
  ASSUME NEW Values, NEW c \in ChannelOver(Values)
  PROVE  LET d == [c EXCEPT !.event = FALSE]
         IN  /\ d \in ChannelOver(Values) /\ d.enabled = c.enabled
             /\ Leaving(d) = Leaving(c) /\ Arriving(d) = Arriving(c)
             /\ Honest(c) => Honest(d)
<1> DEFINE d == [c EXCEPT !.event = FALSE]
<1>1. d \in ChannelOver(Values)
  BY ZenonT(30) DEF ChannelOver
<1>. QED
  BY <1>1 DEF ChannelOver, Leaving, Arriving, Honest

LEMMA SavedKeeps ==
  ASSUME NEW Values, NEW c \in ChannelOver(Values)
  PROVE  /\ Saved(c) \in ChannelOver(Values) /\ Saved(c).enabled = c.enabled
         /\ Leaving(Saved(c)) = Leaving(c) /\ Arriving(Saved(c)) = Arriving(c)
         /\ Honest(c) => Honest(Saved(c))
<1>1. Saved(c) \in ChannelOver(Values)
  BY ZenonT(30) DEF ChannelOver, Saved
<1>. QED
  BY <1>1 DEF ChannelOver, Saved, Leaving, Arriving, Honest

LEMMA RestoredKeeps ==
  ASSUME NEW Values, NEW c \in ChannelOver(Values), NEW s \in ChannelOver(Values)
  PROVE  /\ Restored(c, s) \in ChannelOver(Values) /\ Restored(c, s).enabled = s.enabled
         /\ Leaving(Restored(c, s)) = Leaving(s) /\ Arriving(Restored(c, s)) = Arriving(s)
         /\ Honest(s) => Honest(Restored(c, s))
<1>1. Restored(c, s) \in ChannelOver(Values)
  BY ZenonT(30) DEF ChannelOver, Restored
<1>. QED
  BY <1>1 DEF ChannelOver, Restored, Leaving, Arriving, Honest

\* A tick that does not wake the host put nothing on the wire and saw no RTS edge, and
\* after any tick the level last seen is the level as it is.
LEMMA TickQuiet ==
  ASSUME NEW Values, NoByte \notin Values, NEW c \in ChannelOver(Values), NEW n \in Nat, c.enabled
  PROVE  /\ Tick(c, n).rtsLast = c.rts
         /\ ~Tick(c, n).event => ~c.event /\ Tick(c, n).tx = c.tx /\ c.rtsLast = c.rts
<1> DEFINE d1 == ShiftOut(c, n)
           d2 == LoadShift(d1)
           d3 == Present(d2, n)
           d4 == SampleRts(d3)
<1>1. /\ d1 \in ChannelOver(Values) /\ d1.rts = c.rts /\ d1.rtsLast = c.rtsLast
      /\ ~d1.event => ~c.event /\ d1.tx = c.tx
  <2>1. d1.rts = c.rts /\ d1.rtsLast = c.rtsLast /\ (~d1.event => ~c.event /\ d1.tx = c.tx)
    BY DEF ShiftOut, ChannelOver
  <2>. QED
    BY <2>1, ShiftOutKeeps
<1> HIDE DEF d1
<1>2. /\ d2 \in ChannelOver(Values) /\ d2.rts = d1.rts /\ d2.rtsLast = d1.rtsLast
      /\ d2.event = d1.event /\ d2.tx = d1.tx
  BY <1>1, LoadShiftKeeps DEF LoadShift, ChannelOver
<1> HIDE DEF d2
<1>3. /\ d3 \in ChannelOver(Values) /\ d3.rts = d2.rts /\ d3.rtsLast = d2.rtsLast
      /\ d3.event = d2.event /\ d3.tx = d2.tx
  <2>1. d3.rts = d2.rts /\ d3.rtsLast = d2.rtsLast /\ d3.event = d2.event /\ d3.tx = d2.tx
    BY <1>2 DEF Present, ChannelOver
  <2>. QED
    BY <2>1, <1>2, PresentKeeps
<1> HIDE DEF d3
<1>4. d4.rtsLast = d3.rts /\ (~d4.event => ~d3.event /\ d4.tx = d3.tx /\ d3.rtsLast = d3.rts)
  BY <1>3 DEF SampleRts, ChannelOver
<1>5. Tick(c, n) = d4
  BY DEF Tick, d1, d2, d3
<1> HIDE DEF d4
<1>. QED
  BY <1>1, <1>2, <1>3, <1>4, <1>5

\* The processor's side of the buffer touches neither the wire nor the wake-up.
LEMMA WriteBufQuiet ==
  ASSUME NEW Values, NEW c \in ChannelOver(Values), NEW byte
  PROVE  LET d == WriteBuf(c, byte)
         IN  d.tx = c.tx /\ d.event = c.event /\ d.rts = c.rts /\ d.rtsLast = c.rtsLast
BY DEF WriteBuf, ChannelOver

LEMMA ReadBufQuiet ==
  ASSUME NEW Values, NEW c \in ChannelOver(Values)
  PROVE  LET d == ReadBuf(c)
         IN  d.tx = c.tx /\ d.event = c.event /\ d.rts = c.rts /\ d.rtsLast = c.rtsLast
BY DEF ReadBuf, Acknowledged, ChannelOver

\* A capture of all memory disturbs nothing.
LEMMA HostReadIdentity ==
  ASSUME NEW Values, NEW c \in ChannelOver(Values)
  PROVE  HostRead(c) = c
BY ZenonT(30) DEF ChannelOver, HostRead, Acknowledged

----------------------------------------------------------------------------
(* The two consoles.                                                        *)

(***************************************************************************)
(* The cable as a whole                                                    *)
(***************************************************************************)
SentUpTo(c, k) == [n \in 1 .. k |-> <<c, n>>]
Joined(s, t, u) == s \o (t \o u)

\* Both channels typed, plugged in and truthful, and no byte lost or out of order.
GoodPair(ch, w, r) ==
  /\ ch \in [Console -> ChannelOver(Bytes)]
  /\ w \in [Console -> Nat] /\ \A c \in Console : w[c] <= MaxBytes[c]
  /\ r \in [Console -> Seq(Bytes)]
  /\ \A c \in Console :
       /\ Honest(ch[c]) /\ ch[c].enabled
       /\ SentUpTo(c, w[c]) = Joined(r[Peer(c)], Arriving(ch[Peer(c)]), Leaving(ch[c]))

\* A byte written is the last of the three parts; one read moves from the second to the first.
LEMMA WrittenLast ==
  ASSUME NEW S, NEW s \in Seq(S), NEW t \in Seq(S), NEW u \in Seq(S), NEW b \in S
  PROVE  Append(Joined(s, t, u), b) = Joined(s, t, Append(u, b))
<1> DEFINE x == t \o u
           v == <<b>>
<1>1. x \in Seq(S) /\ v \in Seq(S) /\ s \o x \in Seq(S)
  BY ConcatProperties
<1>2. Append(u, b) = u \o v /\ Append(s \o x, b) = (s \o x) \o v
  BY <1>1, AppendIsConcat
<1> HIDE DEF x, v
<1>3. (s \o x) \o v = s \o (x \o v)
  BY <1>1, ConcatAssociative
<1>4. x \o v = t \o (u \o v)
  BY <1>1, ConcatAssociative DEF x
<1>5. Append(s \o x, b) = s \o (t \o Append(u, b))
  BY <1>2, <1>3, <1>4, Zenon
<1>. QED
  BY <1>5 DEF x, Joined

LEMMA ReadFirst ==
  ASSUME NEW S, NEW s \in Seq(S), NEW t \in Seq(S), NEW u \in Seq(S), NEW b \in S
  PROVE  Joined(Append(s, b), t, u) = Joined(s, <<b>> \o t, u)
<1> DEFINE x == t \o u
           v == <<b>>
<1>1. x \in Seq(S) /\ v \in Seq(S)
  BY ConcatProperties
<1>2. Append(s, b) = s \o v
  BY AppendIsConcat
<1> HIDE DEF x, v
<1>3. (s \o v) \o x = s \o (v \o x)
  BY <1>1, ConcatAssociative
<1>4. v \o x = (v \o t) \o u
  BY <1>1, ConcatAssociative DEF x
<1>5. Append(s, b) \o x = s \o ((v \o t) \o u)
  BY <1>2, <1>3, <1>4, Zenon
<1>. QED
  BY <1>5 DEF x, v, Joined

LEMMA PeerConsole ==
  ASSUME NEW c \in Console
  PROVE  Peer(c) \in Console /\ Peer(c) # c /\ Peer(Peer(c)) = c /\ Console = {c, Peer(c)}
BY TwoConsoles DEF Console, Peer

LEMMA ByteType ==
  /\ NoByte \notin Bytes
  /\ \A c \in Console, n \in Nat : n > 0 /\ n <= MaxBytes[c] => <<c, n>> \in Bytes
BY LinkAssumption DEF Bytes, NoByte, Console

LEMMA HeldIsSeq ==
  ASSUME NEW c \in ChannelOver(Bytes), Honest(c)
  PROVE  Leaving(c) \in Seq(Bytes) /\ Arriving(c) \in Seq(Bytes)
<1>1. /\ c.tx \in Seq(Bytes) /\ c.rx \in Seq(Bytes) /\ (c.pending => c.slot \in Bytes)
      /\ One(c.shift) \in Seq(Bytes) /\ One(c.buf) \in Seq(Bytes)
  BY OneIsSeq DEF ChannelOver, Honest
<1>2. (IF c.pending THEN <<c.slot>> ELSE <<>>) \in Seq(Bytes)
  BY <1>1
<1>. QED
  BY <1>1, <1>2, ConcatProperties DEF Leaving, Arriving

\* A change that moves bytes only inside each channel keeps the pair good.
LEMMA SameBytes ==
  ASSUME NEW ch, NEW w, NEW r, GoodPair(ch, w, r),
         NEW d \in [Console -> ChannelOver(Bytes)],
         \A c \in Console : /\ Honest(d[c]) /\ d[c].enabled
                            /\ Leaving(d[c]) = Leaving(ch[c]) /\ Arriving(d[c]) = Arriving(ch[c])
  PROVE  GoodPair(d, w, r)
BY PeerConsole DEF GoodPair

LEMMA SameBytesOfOne ==
  ASSUME NEW ch, NEW w, NEW r, GoodPair(ch, w, r), NEW c \in Console,
         NEW d \in ChannelOver(Bytes), Honest(d), d.enabled,
         Leaving(d) = Leaving(ch[c]), Arriving(d) = Arriving(ch[c])
  PROVE  GoodPair([ch EXCEPT ![c] = d], w, r)
<1> DEFINE e == [ch EXCEPT ![c] = d]
<1>1. e \in [Console -> ChannelOver(Bytes)]
  BY DEF GoodPair
<1>2. ASSUME NEW k \in Console
      PROVE  /\ Honest(e[k]) /\ e[k].enabled
             /\ Leaving(e[k]) = Leaving(ch[k]) /\ Arriving(e[k]) = Arriving(ch[k])
  BY DEF GoodPair
<1> HIDE DEF e
<1>3. GoodPair(e, w, r)
  BY <1>1, <1>2, SameBytes
<1>. QED
  BY <1>3 DEF e

\* A byte written goes to the end of what is on the way.
LEMMA ByteWritten ==
  ASSUME NEW ch, NEW w, NEW r, GoodPair(ch, w, r), NEW c \in Console, w[c] < MaxBytes[c],
         NEW d \in ChannelOver(Bytes), Honest(d), d.enabled,
         Leaving(d) = Append(Leaving(ch[c]), <<c, w[c] + 1>>), Arriving(d) = Arriving(ch[c])
  PROVE  GoodPair([ch EXCEPT ![c] = d], [w EXCEPT ![c] = @ + 1], r)
<1> DEFINE p == Peer(c)
           byte == <<c, w[c] + 1>>
<1>0. w[c] \in Nat /\ MaxBytes[c] \in Nat /\ w[c] + 1 \in Nat /\ w[c] + 1 > 0
      /\ w[c] + 1 <= MaxBytes[c]
  BY LinkAssumption DEF GoodPair, Console
<1>1. /\ p \in Console /\ p # c /\ Peer(p) = c /\ Console = {c, p}
      /\ w[c] \in Nat /\ byte \in Bytes /\ MaxBytes[c] \in Nat
  BY <1>0, PeerConsole, ByteType
<1>2. SentUpTo(c, w[c] + 1) = Append(SentUpTo(c, w[c]), byte)
  BY <1>1 DEF SentUpTo
<1>3. /\ r[p] \in Seq(Bytes) /\ Leaving(ch[c]) \in Seq(Bytes) /\ Arriving(ch[p]) \in Seq(Bytes)
      /\ SentUpTo(c, w[c]) = Joined(r[p], Arriving(ch[p]), Leaving(ch[c]))
      /\ SentUpTo(p, w[p]) = Joined(r[c], Arriving(ch[c]), Leaving(ch[p]))
  BY <1>1, HeldIsSeq DEF GoodPair
<1>4. Leaving(d) = Append(Leaving(ch[c]), byte)
  OBVIOUS
<1> HIDE DEF byte, p
<1>5. SentUpTo(c, w[c] + 1) = Joined(r[p], Arriving(ch[p]), Append(Leaving(ch[c]), byte))
  <2>1. Append(Joined(r[p], Arriving(ch[p]), Leaving(ch[c])), byte)
          = Joined(r[p], Arriving(ch[p]), Append(Leaving(ch[c]), byte))
    <3> DEFINE s == r[p]
               t == Arriving(ch[p])
               u == Leaving(ch[c])
    <3>1. s \in Seq(Bytes) /\ t \in Seq(Bytes) /\ u \in Seq(Bytes) /\ byte \in Bytes
      BY <1>1, <1>3
    <3> HIDE DEF s, t, u
    <3>2. Append(Joined(s, t, u), byte) = Joined(s, t, Append(u, byte))
      BY <3>1, WrittenLast
    <3>. QED
      BY <3>2 DEF s, t, u
  <2>. QED
    BY <1>2, <1>3, <2>1, Zenon
<1> DEFINE e == [ch EXCEPT ![c] = d]
           v == [w EXCEPT ![c] = @ + 1]
<1>6. /\ e[c] = d /\ e[p] = ch[p] /\ v[c] = w[c] + 1 /\ v[p] = w[p]
      /\ e \in [Console -> ChannelOver(Bytes)] /\ v \in [Console -> Nat]
  BY <1>1 DEF GoodPair
<1> HIDE DEF e, v
<1>7. ASSUME NEW k \in Console
      PROVE  /\ v[k] <= MaxBytes[k] /\ Honest(e[k]) /\ e[k].enabled
             /\ SentUpTo(k, v[k]) = Joined(r[Peer(k)], Arriving(e[Peer(k)]), Leaving(e[k]))
  <2>1. CASE k = c
    <3>1. Peer(k) = p /\ v[k] = w[c] + 1 /\ e[k] = d /\ e[p] = ch[p]
      BY <2>1, <1>6 DEF p
    <3>2. SentUpTo(k, v[k]) = Joined(r[p], Arriving(ch[p]), Leaving(d))
      BY <2>1, <3>1, <1>4, <1>5, Zenon
    <3>3. v[k] <= MaxBytes[k]
      BY <2>1, <3>1, <1>1
    <3>. QED
      BY <3>1, <3>2, <3>3
  <2>2. CASE k = p
    BY <2>2, <1>1, <1>3, <1>6 DEF GoodPair
  <2>. QED
    BY <2>1, <2>2, <1>1
<1>8. GoodPair(e, v, r)
  BY <1>6, <1>7 DEF GoodPair
<1>. QED
  BY <1>8 DEF e, v

\* A byte read is the first of those that had arrived.
LEMMA ByteRead ==
  ASSUME NEW ch, NEW w, NEW r, GoodPair(ch, w, r), NEW c \in Console, NEW byte \in Bytes,
         NEW d \in ChannelOver(Bytes), Honest(d), d.enabled,
         Leaving(d) = Leaving(ch[c]), Arriving(ch[c]) = <<byte>> \o Arriving(d)
  PROVE  GoodPair([ch EXCEPT ![c] = d], w, [r EXCEPT ![c] = Append(@, byte)])
<1> DEFINE p == Peer(c)
<1>1. p \in Console /\ p # c /\ Peer(p) = c /\ Console = {c, p}
  BY PeerConsole
<1>2. /\ r[c] \in Seq(Bytes) /\ Leaving(ch[p]) \in Seq(Bytes) /\ Arriving(d) \in Seq(Bytes)
      /\ SentUpTo(p, w[p]) = Joined(r[c], <<byte>> \o Arriving(d), Leaving(ch[p]))
  BY <1>1, HeldIsSeq DEF GoodPair
<1>3. SentUpTo(p, w[p]) = Joined(Append(r[c], byte), Arriving(d), Leaving(ch[p]))
  <2>1. Joined(Append(r[c], byte), Arriving(d), Leaving(ch[p]))
          = Joined(r[c], <<byte>> \o Arriving(d), Leaving(ch[p]))
    <3> DEFINE s == r[c]
               t == Arriving(d)
               u == Leaving(ch[p])
    <3>1. s \in Seq(Bytes) /\ t \in Seq(Bytes) /\ u \in Seq(Bytes)
      BY <1>2
    <3> HIDE DEF s, t, u
    <3>2. Joined(Append(s, byte), t, u) = Joined(s, <<byte>> \o t, u)
      BY <3>1, ReadFirst
    <3>. QED
      BY <3>2 DEF s, t, u
  <2>. QED
    BY <1>2, <2>1, Zenon
<1>4. Append(r[c], byte) \in Seq(Bytes)
  BY <1>2, AppendProperties
<1>. QED
  BY <1>1, <1>3, <1>4 DEF GoodPair

\* The relay carries what is on each wire to the other end's receiver (relay_pair).
LEMMA RelayGood ==
  ASSUME NEW ch, NEW w, NEW r, GoodPair(ch, w, r)
  PROVE  GoodPair(Relayed(ch), w, r)
<1>1. ASSUME NEW c \in Console
      PROVE  /\ Relayed(ch)[c] \in ChannelOver(Bytes)
             /\ Honest(Relayed(ch)[c]) /\ Relayed(ch)[c].enabled
             /\ Arriving(Relayed(ch)[c]) = Arriving(ch[c]) \o ch[Peer(c)].tx
             /\ Leaving(Relayed(ch)[c]) = One(ch[c].shift) \o One(ch[c].buf)
  <2> DEFINE k == ch[c]
             q == ch[Peer(c)]
             d == [[k EXCEPT !.cts = q.rts, !.seen = TRUE] EXCEPT !.rx = @ \o q.tx, !.tx = <<>>]
  <2>1. k \in ChannelOver(Bytes) /\ q \in ChannelOver(Bytes) /\ Honest(k) /\ k.enabled
    BY PeerConsole DEF GoodPair
  <2>2. Relayed(ch)[c] = d
    BY DEF Relayed, Crossed, SetCts
  <2>3. /\ k.rx \in Seq(Bytes) /\ q.tx \in Seq(Bytes) /\ q.rts \in {High, Low}
        /\ k.rx \o q.tx \in Seq(Bytes) /\ <<>> \in Seq(Bytes)
        /\ One(k.shift) \in Seq(Bytes) /\ One(k.buf) \in Seq(Bytes)
        /\ (k.pending => k.slot \in Bytes)
    BY <2>1, OneIsSeq, ConcatProperties DEF ChannelOver, Honest
  <2> HIDE DEF k, q
  <2>4. d \in ChannelOver(Bytes)
    BY <2>1, <2>3, ZenonT(30) DEF ChannelOver
  <2>5. /\ d.rx = k.rx \o q.tx /\ d.tx = <<>> /\ d.pending = k.pending /\ d.slot = k.slot
        /\ d.shift = k.shift /\ d.buf = k.buf /\ d.enabled = k.enabled
        /\ d.txIrq = k.txIrq /\ d.rxIrq = k.rxIrq /\ d.silicon = k.silicon
    BY <2>1 DEF ChannelOver
  <2> HIDE DEF d
  <2>6. Arriving(d) = Arriving(k) \o q.tx
    <3>1. (IF k.pending THEN <<k.slot>> ELSE <<>>) \in Seq(Bytes)
      BY <2>3
    <3> DEFINE s == IF k.pending THEN <<k.slot>> ELSE <<>>
               t == k.rx
               u == q.tx
    <3>2. Arriving(d) = s \o (t \o u) /\ Arriving(k) = s \o t
      BY <2>5 DEF Arriving
    <3>3. s \in Seq(Bytes) /\ t \in Seq(Bytes) /\ u \in Seq(Bytes)
      BY <3>1, <2>3
    <3> HIDE DEF s, t, u
    <3>4. (s \o t) \o u = s \o (t \o u)
      BY <3>3, ConcatAssociative
    <3>. QED
      BY <3>2, <3>4 DEF u
  <2>7. Leaving(d) = One(k.shift) \o One(k.buf)
    BY <2>3, <2>5, ConcatEmptySeq DEF Leaving
  <2>8. Honest(d) /\ d.enabled
    BY <2>1, <2>5 DEF Honest
  <2>. QED
    BY <2>2, <2>4, <2>6, <2>7, <2>8 DEF k, q
<1>2. ASSUME NEW c \in Console
      PROVE  Arriving(Relayed(ch)[Peer(c)]) \o Leaving(Relayed(ch)[c])
               = Arriving(ch[Peer(c)]) \o Leaving(ch[c])
  <2> DEFINE k == ch[c]
             q == ch[Peer(c)]
  <2>1. /\ Arriving(Relayed(ch)[Peer(c)]) = Arriving(q) \o k.tx
        /\ Leaving(Relayed(ch)[c]) = One(k.shift) \o One(k.buf)
    BY <1>1, PeerConsole
  <2>2. /\ Arriving(q) \in Seq(Bytes) /\ k.tx \in Seq(Bytes)
        /\ One(k.shift) \in Seq(Bytes) /\ One(k.buf) \in Seq(Bytes)
    BY PeerConsole, HeldIsSeq, OneIsSeq DEF GoodPair, ChannelOver
  <2> HIDE DEF k, q
  <2>3. (Arriving(q) \o k.tx) \o (One(k.shift) \o One(k.buf))
          = Arriving(q) \o ((k.tx \o One(k.shift)) \o One(k.buf))
    <3> DEFINE s == Arriving(q)
               t == k.tx
               u == One(k.shift)
               v == One(k.buf)
    <3>1. s \in Seq(Bytes) /\ t \in Seq(Bytes) /\ u \in Seq(Bytes) /\ v \in Seq(Bytes)
      BY <2>2
    <3> HIDE DEF s, t, u, v
    <3> DEFINE x == u \o v
    <3>2. x \in Seq(Bytes)
      BY <3>1, ConcatProperties
    <3> HIDE DEF x
    <3>3. (s \o t) \o x = s \o (t \o x)
      BY <3>1, <3>2, ConcatAssociative
    <3>4. t \o x = (t \o u) \o v
      BY <3>1, ConcatAssociative DEF x
    <3>5. (s \o t) \o x = s \o ((t \o u) \o v)
      BY <3>3, <3>4, Zenon
    <3>. QED
      BY <3>5 DEF s, t, u, v, x
  <2>. QED
    BY <2>1, <2>3 DEF Leaving, k, q
<1>3. Relayed(ch) \in [Console -> ChannelOver(Bytes)]
  BY <1>1 DEF Relayed
<1>. QED
  BY <1>1, <1>2, <1>3 DEF GoodPair, Joined

(***************************************************************************)
(* Constants                                                               *)
(***************************************************************************)
\* A finite set of naturals has a bound, so the longest instruction exists.
LEMMA FiniteBounded ==
  ASSUME NEW S \in SUBSET Nat, IsFiniteSet(S)
  PROVE  \E b \in Nat : \A x \in S : x <= b
<1> DEFINE k == Cardinality(S)
<1>1. k \in Nat /\ ExistsBijection(1 .. k, S)
  BY FS_CardinalityType
<1>2. PICK f \in [1 .. k -> S] : \A x \in S : \E i \in 1 .. k : f[i] = x
  BY <1>1 DEF ExistsBijection, Bijection, Surjection
<1> HIDE DEF k
<1> DEFINE Bounds(i, b) == \A j \in 1 .. i : f[j] <= b
           T == {i \in 0 .. k : \A b \in Nat : ~Bounds(i, b)}
<1>3. SUFFICES T = {}
  <2>1. k \in 0 .. k /\ k \notin T
    <3>1. k \in 0 .. k
      BY <1>1
    <3> HIDE DEF T
    <3>. QED
      BY <3>1, <1>3
  <2>2. PICK b \in Nat : Bounds(k, b)
    BY <2>1
  <2>. QED
    BY <2>2, <1>2
<1>4. SUFFICES ASSUME T # {} PROVE FALSE
  OBVIOUS
<1>5. PICK i \in T : \A j \in T : ~(<<j, i>> \in OpToRel(<, Nat))
  <2>1. T \subseteq Nat
    OBVIOUS
  <2> HIDE DEF T
  <2>. QED
    BY <2>1, <1>4, WFMin, NatLessThanWellFounded
<1>6. \A j \in T : ~(j < i)
  <2>1. T \subseteq Nat
    OBVIOUS
  <2> HIDE DEF T
  <2>. QED
    BY <1>5, <2>1 DEF OpToRel
<1>7. i # 0
  <2>1. Bounds(0, 0)
    OBVIOUS
  <2>. QED
    BY <2>1
<1>8. i - 1 \in 0 .. k /\ i - 1 \notin T /\ i \in 1 .. k
  <2>1. i \in 0 .. k
    OBVIOUS
  <2> HIDE DEF T
  <2>. QED
    BY <2>1, <1>1, <1>6, <1>7
<1>9. PICK b \in Nat : Bounds(i - 1, b)
  BY <1>8
<1>10. f[i] \in Nat
  BY <1>1, <1>2, <1>8
<1>11. PICK m \in Nat : b <= m /\ f[i] <= m
  <2> HIDE DEF Bounds
  <2>1. b <= b + f[i] /\ f[i] <= b + f[i] /\ b + f[i] \in Nat
    BY <1>9, <1>10
  <2>. QED
    BY <2>1
<1>12. i \in 1 .. k /\ k \in Nat
  <2> HIDE DEF T
  <2>. QED
    BY <1>1, <1>8
<1>13. Bounds(i, m)
  <2>1. ASSUME NEW j \in 1 .. i PROVE f[j] <= m
    <3>1. f[j] \in Nat
      <4>1. j \in 1 .. k
        BY <1>12
      <4>. QED
        BY <4>1, <1>2
    <3>2. CASE j = i
      BY <3>2, <1>11
    <3>3. CASE j # i
      <4>1. j \in 1 .. i - 1
        BY <3>3, <1>12
      <4>2. f[j] <= b
        BY <4>1, <1>9
      <4> HIDE DEF Bounds
      <4>. QED
        BY <4>2, <3>1, <1>11
    <3>. QED
      BY <3>2, <3>3
  <2>. QED
    BY <2>1
<1>. QED
  BY <1>13, <1>11

LEMMA FatType == Fat \in Costs /\ Fat \in Nat /\ Fat > 0 /\ \A n \in Costs : n <= Fat
<1> DEFINE U == {b \in Nat : \A n \in Costs : n <= b}
<1>1. Costs \in SUBSET Nat /\ IsFiniteSet(Costs) /\ Costs # {} /\ \A n \in Costs : n \in Nat /\ n > 0
  BY LinkAssumption
<1>2. U # {}
  BY <1>1, FiniteBounded
<1>3. PICK b \in U : \A j \in U : ~(<<j, b>> \in OpToRel(<, Nat))
  <2>1. U \subseteq Nat
    OBVIOUS
  <2> HIDE DEF U
  <2>. QED
    BY <2>1, <1>2, WFMin, NatLessThanWellFounded
<1>4. b \in Nat /\ \A j \in U : ~(j < b)
  BY <1>3 DEF OpToRel
<1>5. b \in Nat /\ \A m \in Costs : m <= b
  BY <1>3
<1>6. b \in Costs
  <2>1. SUFFICES ASSUME b \notin Costs PROVE FALSE
    OBVIOUS
  <2>2. b > 0
    <3>1. PICK n \in Costs : n \in Nat /\ n > 0
      BY <1>1
    <3>. QED
      BY <3>1, <1>5
  <2>3. ASSUME NEW n \in Costs PROVE n <= b - 1
    BY <2>1, <1>1, <1>4, <1>5
  <2>4. b - 1 \in U
    BY <2>2, <2>3, <1>4
  <2>. QED
    BY <2>4, <1>4
<1>7. Fat \in Costs /\ \A m \in Costs : m <= Fat
  BY <1>5, <1>6 DEF Fat
<1>. QED
  BY <1>1, <1>7

LEMMA FrameType == FrameTicks \in Nat /\ FrameTicks > 0 /\ Quantum \in Nat /\ Quantum > 0
                   /\ LineTicks \in Nat /\ Scanlines \in Nat
<1>1. LineTicks \in Nat /\ LineTicks > 0 /\ Scanlines \in Nat /\ Scanlines > 0
      /\ Quantum \in Nat /\ Quantum > 0
  BY LinkAssumption
<1>. QED
  BY <1>1 DEF FrameTicks

\* A slice has at least one instruction, and no more than its quantum or frame holds.
LEMMA ChunkType ==
  ASSUME NEW c \in Console, pos[c] \in 0 .. FrameTicks - 1
  PROVE  Chunk(c) \in Nat /\ Chunk(c) > 0
<1> DEFINE x == Least(FrameTicks - pos[c], Quantum)
<1>1. x \in Nat /\ Fat \in Nat /\ Fat > 0
  BY FatType, FrameType DEF Least
<1> HIDE DEF x
<1>2. x \div Fat \in Nat
  BY <1>1
<1>. QED
  BY <1>2 DEF Chunk, Most, x

(***************************************************************************)
(* The invariant: the scheduler's variables are typed, a slice under way   *)
(* has instructions left, and the pair and any snapshot of it are good     *)
(***************************************************************************)
PlaceType == [Console -> Places \cup {"handler", "reported"}]
PosType == [Console -> 0 .. FrameTicks - 1]

Toggles == toggles \in [Console -> Nat] /\ \A c \in Console : toggles[c] <= MaxToggles[c]

Scheduled ==
  /\ place \in PlaceType
  /\ lines \in 0 .. Scanlines
  /\ turn \in Console \cup {Nobody} /\ quota \in Nat /\ ran \in BOOLEAN
  /\ turn # Nobody => quota > 0
  /\ used \in [Console -> Nat] /\ pos \in PosType
  /\ done \in [Console -> BOOLEAN] /\ stopped \in [Console -> BOOLEAN]
  /\ over \in BOOLEAN

GoodSnapshot(s) ==
  s.state = "saved" =>
    GoodPair(s.chan, s.wrote, s.read) /\ s.pos \in PosType /\ s.place \in PlaceType

IInv == Scheduled /\ Toggles /\ GoodPair(chan, wrote, read) /\ GoodSnapshot(saved)

LEMMA InitIInv == Init => IInv
<1> SUFFICES ASSUME Init PROVE IInv
  OBVIOUS
<1>1. Scheduled /\ Toggles
  <2>1. 0 \in 0 .. FrameTicks - 1 /\ 0 \in 0 .. Scanlines /\ "code" \in Places
    BY FrameType, LinkAssumption
  <2>2. \A c \in Console : 0 <= MaxToggles[c]
    BY LinkAssumption DEF Console
  <2>. QED
    BY <2>1, <2>2 DEF Init, Scheduled, Toggles, PlaceType, PosType
<1>2. GoodSnapshot(saved)
  BY DEF Init, GoodSnapshot, NoState
<1>3. GoodPair(chan, wrote, read)
  <2>1. PICK silicon \in Silicon, ctse \in [Console -> BOOLEAN] :
          chan = [c \in Console |-> SetEnabled(Fresh(silicon, ctse[c]), TRUE)]
    BY DEF Init
  <2>2. ASSUME NEW c \in Console
        PROVE  /\ chan[c] \in ChannelOver(Bytes) /\ Honest(chan[c]) /\ chan[c].enabled
               /\ Arriving(chan[c]) = <<>> /\ Leaving(chan[c]) = <<>>
    <3> DEFINE d == SetEnabled(Fresh(silicon, ctse[c]), TRUE)
    <3>1. silicon \in BOOLEAN /\ ctse[c] \in BOOLEAN /\ 0 \in 0 .. ByteTicks
      BY LinkAssumption, ByteTicksAssumption
    <3>2. d \in ChannelOver(Bytes)
      <4>1. Fresh(silicon, ctse[c]) \in ChannelOver(Bytes)
        BY <3>1 DEF Fresh, ChannelOver
      <4>. QED
        BY <4>1, ZenonT(30) DEF ChannelOver, SetEnabled
    <3>3. /\ d.enabled /\ d.tx = <<>> /\ d.rx = <<>> /\ d.shift = NoByte /\ d.buf = NoByte
          /\ ~d.pending /\ ~d.rxIrq
      BY DEF Fresh, SetEnabled
    <3> HIDE DEF d
    <3>4. Arriving(d) = <<>> /\ Leaving(d) = <<>>
      BY <3>3 DEF Arriving, Leaving, One
    <3>5. Honest(d)
      BY <3>3 DEF Honest
    <3>. QED
      BY <2>1, <3>2, <3>3, <3>4, <3>5 DEF d
  <2>3. chan \in [Console -> ChannelOver(Bytes)]
    BY <2>1, <2>2
  <2>4. ASSUME NEW c \in Console
        PROVE  SentUpTo(c, wrote[c]) = Joined(read[Peer(c)], Arriving(chan[Peer(c)]), Leaving(chan[c]))
    <3>1. wrote[c] = 0 /\ read[Peer(c)] = <<>>
      BY PeerConsole DEF Init
    <3>2. SentUpTo(c, 0) = <<>>
      BY DEF SentUpTo
    <3>. QED
      <4>1. <<>> \o (<<>> \o <<>>) = <<>>
        OBVIOUS
      <4>. QED
        BY <4>1, <3>1, <3>2, <2>2, PeerConsole DEF Joined
  <2>5. /\ wrote \in [Console -> Nat] /\ \A c \in Console : wrote[c] <= MaxBytes[c]
        /\ read \in [Console -> Seq(Bytes)]
    BY LinkAssumption DEF Init, Console
  <2>. QED
    BY <2>2, <2>3, <2>4, <2>5 DEF GoodPair
<1>. QED
  BY <1>1, <1>2, <1>3 DEF IInv

\* n cycles of a console leave the clocks typed, and give the other its channel as it was.
LEMMA ElapseClocks ==
  ASSUME Scheduled, NEW c \in Console, NEW n \in Nat, NEW d, Elapse(c, d, n)
  PROVE  /\ used' = [used EXCEPT ![c] = @ + n]
         /\ used' \in [Console -> Nat] /\ pos' \in PosType /\ done' \in [Console -> BOOLEAN]
         /\ chan' = [chan EXCEPT ![c] = Tick(d, n)]
<1>1. (pos[c] + n) % FrameTicks \in 0 .. FrameTicks - 1
  BY FrameType DEF Scheduled, PosType
<1>. QED
  BY <1>1 DEF Elapse, Scheduled, PosType

\* One instruction, whatever it did to the channel before its cycles passed.
LEMMA RetireScheduled ==
  ASSUME Scheduled, NEW c \in Console, turn = c, NEW d, Retire(c, d)
  PROVE  /\ Scheduled'
         /\ \E n \in Costs : n \in Nat /\ chan' = [chan EXCEPT ![c] = Tick(d, n)]
<1>1. PICK n \in Costs : Elapse(c, d, n)
  BY DEF Retire
<1>2. n \in Nat
  BY <1>1, LinkAssumption
<1>3. /\ used' \in [Console -> Nat] /\ pos' \in PosType /\ done' \in [Console -> BOOLEAN]
      /\ chan' = [chan EXCEPT ![c] = Tick(d, n)]
  BY <1>1, <1>2, ElapseClocks
<1>4. place' \in PlaceType
  BY DEF Retire, Scheduled, PlaceType
<1>5. turn' \in Console \cup {Nobody} /\ quota' \in Nat /\ (turn' # Nobody => quota' > 0) /\ ran' \in BOOLEAN
  BY TwoConsoles DEF Retire, Retired, Scheduled, Console
<1>6. UNCHANGED <<lines, stopped, over>>
  BY DEF Retire
<1>. QED
  BY <1>2, <1>3, <1>4, <1>5, <1>6 DEF Scheduled

\* An instruction that leaves the channel's bytes where they are, before its ticks.
LEMMA QuietInstr ==
  ASSUME IInv, NEW c \in Console, NEW d \in ChannelOver(Bytes), NEW n \in Nat,
         Honest(d), d.enabled, Leaving(d) = Leaving(chan[c]), Arriving(d) = Arriving(chan[c]),
         chan' = [chan EXCEPT ![c] = Tick(d, n)], UNCHANGED <<wrote, read>>
  PROVE  GoodPair(chan', wrote', read')
<1>1. /\ Tick(d, n) \in ChannelOver(Bytes) /\ Honest(Tick(d, n)) /\ Tick(d, n).enabled
      /\ Leaving(Tick(d, n)) = Leaving(chan[c]) /\ Arriving(Tick(d, n)) = Arriving(chan[c])
  BY TickKeeps, TickKeepsPlug, ByteType
<1>. QED
  BY <1>1, SameBytesOfOne DEF IInv

LEMMA SetRtsKeeps ==
  ASSUME NEW B0, NEW c \in ChannelOver(B0), NEW level \in {High, Low}
  PROVE  LET d == [c EXCEPT !.rts = level]
         IN  /\ d \in ChannelOver(B0) /\ d.enabled = c.enabled
             /\ Leaving(d) = Leaving(c) /\ Arriving(d) = Arriving(c)
             /\ Honest(c) => Honest(d)
<1> DEFINE d == [c EXCEPT !.rts = level]
<1>1. d \in ChannelOver(B0)
  BY ZenonT(30) DEF ChannelOver
<1>. QED
  BY <1>1 DEF ChannelOver, Leaving, Arriving, Honest

\* What the processor's instruction does to the pair.
LEMMA InstrGood ==
  ASSUME IInv, NEW c \in Console, Instr(c)
  PROVE  Scheduled' /\ Toggles' /\ GoodPair(chan', wrote', read') /\ saved' = saved
<1> USE ByteType
<1>0. /\ chan[c] \in ChannelOver(Bytes) /\ Honest(chan[c]) /\ chan[c].enabled
      /\ wrote[c] \in Nat /\ Scheduled
  BY DEF IInv, GoodPair
<1>1. CASE Compute(c)
  <2>1. turn = c /\ Retire(c, chan[c]) /\ UNCHANGED gameVars
    BY <1>1 DEF Compute, Runs
  <2>2. GoodPair(chan', wrote', read')
    BY <1>0, <2>1, RetireScheduled, QuietInstr DEF gameVars
  <2>. QED
    BY <1>0, <2>1, <2>2, RetireScheduled DEF IInv, Toggles, gameVars, Retire
<1>2. CASE Write(c)
  <2> DEFINE byte == <<c, wrote[c] + 1>>
             d == WriteBuf(chan[c], byte)
  <2>1. /\ turn = c /\ Retire(c, d) /\ UNCHANGED <<read, toggles>>
        /\ chan[c].txIrq /\ wrote[c] < MaxBytes[c] /\ wrote' = [wrote EXCEPT ![c] = @ + 1]
    BY <1>2 DEF Write, Runs
  <2>2. byte \in Bytes
    BY <1>0, <2>1, LinkAssumption DEF Console
  <2> HIDE DEF byte
  <2>3. /\ d \in ChannelOver(Bytes) /\ Honest(d) /\ d.enabled
        /\ Leaving(d) = Append(Leaving(chan[c]), byte) /\ Arriving(d) = Arriving(chan[c])
    BY <1>0, <2>1, <2>2, WriteBufAppends, WriteBufPlug
  <2> HIDE DEF d
  <2>4. PICK n \in Nat : chan' = [chan EXCEPT ![c] = Tick(d, n)]
    BY <1>0, <2>1, RetireScheduled
  <2> DEFINE e == Tick(d, n)
  <2>5. /\ e \in ChannelOver(Bytes) /\ Honest(e) /\ e.enabled
        /\ Leaving(e) = Append(Leaving(chan[c]), byte) /\ Arriving(e) = Arriving(chan[c])
    BY <2>3, TickKeeps, TickKeepsPlug
  <2> HIDE DEF e
  <2>6. GoodPair([chan EXCEPT ![c] = e], [wrote EXCEPT ![c] = @ + 1], read)
    BY <2>1, <2>5, ByteWritten DEF IInv, byte
  <2>. QED
    BY <1>0, <2>1, <2>4, <2>6, RetireScheduled DEF IInv, Toggles, Retire, e
<1>3. CASE Read(c)
  <2> DEFINE byte == chan[c].slot
             d == ReadBuf(chan[c])
  <2>1. /\ turn = c /\ Retire(c, d) /\ UNCHANGED <<wrote, toggles>>
        /\ chan[c].rxIrq /\ read' = [read EXCEPT ![c] = Append(@, byte)]
    BY <1>3 DEF Read, Runs
  <2>2. chan[c].pending /\ byte \in Bytes
    BY <1>0, <2>1 DEF Honest, ChannelOver
  <2>3. /\ d \in ChannelOver(Bytes) /\ Honest(d) /\ d.enabled
        /\ Leaving(d) = Leaving(chan[c]) /\ Arriving(chan[c]) = <<byte>> \o Arriving(d)
    BY <1>0, <2>2, ReadBufTakes, ReadBufPlug
  <2> HIDE DEF byte, d
  <2>4. PICK n \in Nat : chan' = [chan EXCEPT ![c] = Tick(d, n)]
    BY <1>0, <2>1, RetireScheduled
  <2> DEFINE e == Tick(d, n)
  <2>5. /\ e \in ChannelOver(Bytes) /\ Honest(e) /\ e.enabled
        /\ Leaving(e) = Leaving(chan[c]) /\ Arriving(chan[c]) = <<byte>> \o Arriving(e)
    BY <2>3, TickKeeps, TickKeepsPlug
  <2> HIDE DEF e
  <2>6. GoodPair([chan EXCEPT ![c] = e], wrote, [read EXCEPT ![c] = Append(@, byte)])
    BY <2>2, <2>5, ByteRead DEF IInv
  <2>. QED
    BY <1>0, <2>1, <2>4, <2>6, RetireScheduled DEF IInv, Toggles, Retire, e
<1>4. CASE LowerRts(c)
  <2> DEFINE d == [chan[c] EXCEPT !.rts = Low]
  <2>1. turn = c /\ Retire(c, d) /\ UNCHANGED gameVars
    BY <1>4 DEF LowerRts, Runs
  <2>2. /\ d \in ChannelOver(Bytes) /\ Honest(d) /\ d.enabled
        /\ Leaving(d) = Leaving(chan[c]) /\ Arriving(d) = Arriving(chan[c])
    BY <1>0, SetRtsKeeps
  <2> HIDE DEF d
  <2>3. GoodPair(chan', wrote', read')
    BY <1>0, <2>1, <2>2, RetireScheduled, QuietInstr DEF gameVars
  <2>. QED
    BY <1>0, <2>1, <2>3, RetireScheduled DEF IInv, Toggles, gameVars, Retire
<1>5. CASE RaiseRts(c)
  <2> DEFINE d == [chan[c] EXCEPT !.rts = High]
  <2>1. /\ turn = c /\ Retire(c, d) /\ UNCHANGED <<wrote, read>>
        /\ toggles[c] < MaxToggles[c] /\ toggles' = [toggles EXCEPT ![c] = @ + 1]
    BY <1>5 DEF RaiseRts, Runs
  <2>2. /\ d \in ChannelOver(Bytes) /\ Honest(d) /\ d.enabled
        /\ Leaving(d) = Leaving(chan[c]) /\ Arriving(d) = Arriving(chan[c])
    BY <1>0, SetRtsKeeps
  <2> HIDE DEF d
  <2>3. GoodPair(chan', wrote', read')
    BY <1>0, <2>1, <2>2, RetireScheduled, QuietInstr
  <2>4. Toggles'
    BY <2>1, LinkAssumption DEF IInv, Toggles, Console
  <2>. QED
    BY <1>0, <2>1, <2>3, <2>4, RetireScheduled DEF Retire
<1>. QED
  BY <1>1, <1>2, <1>3, <1>4, <1>5 DEF Instr

\* A scanline of a HALT, or nothing at all, moves no byte between the two channels.
LEMMA IdleGood ==
  ASSUME IInv, NEW c \in Console, Elapse(c, chan[c], LineTicks), UNCHANGED <<wrote, read>>
  PROVE  GoodPair(chan', wrote', read')
<1>1. LineTicks \in Nat /\ chan[c] \in ChannelOver(Bytes) /\ Honest(chan[c]) /\ chan[c].enabled
  BY FrameType DEF IInv, GoodPair
<1>2. chan' = [chan EXCEPT ![c] = Tick(chan[c], LineTicks)]
  BY DEF Elapse
<1>. QED
  BY <1>1, <1>2, QuietInstr

LEMMA NextIInv == IInv /\ [Next]_vars => IInv'
<1> SUFFICES ASSUME IInv, [Next]_vars PROVE IInv'
  OBVIOUS
<1> USE DEF IInv
<1>a. ASSUME Scheduled', Toggles', GoodPair(chan', wrote', read'), GoodSnapshot(saved')
      PROVE  IInv'
  BY <1>a
<1>b. ASSUME NEW c \in Console
      PROVE  c # Nobody /\ (turn = c => quota > 0)
  BY TwoConsoles DEF Console, Scheduled
<1>1. ASSUME NEW c \in Console, Turn(c) PROVE IInv'
  <2>1. GoodPair(Relayed(chan), wrote, read)
    BY RelayGood
  <2> DEFINE d == [Relayed(chan)[c] EXCEPT !.event = FALSE]
  <2>2. Relayed(chan)[c] \in ChannelOver(Bytes) /\ Honest(Relayed(chan)[c]) /\ Relayed(chan)[c].enabled
    BY <2>1 DEF GoodPair
  <2>3. /\ d \in ChannelOver(Bytes) /\ Honest(d) /\ d.enabled
        /\ Leaving(d) = Leaving(Relayed(chan)[c]) /\ Arriving(d) = Arriving(Relayed(chan)[c])
    BY <2>2, EventKeeps
  <2>4. chan' = [Relayed(chan) EXCEPT ![c] = d]
    BY <1>1 DEF Turn
  <2> HIDE DEF d
  <2>5. GoodPair(chan', wrote', read')
    <3>1. GoodPair([Relayed(chan) EXCEPT ![c] = d], wrote, read)
      BY <2>1, <2>3, SameBytesOfOne
    <3>. QED
      BY <1>1, <3>1, <2>4 DEF Turn, gameVars
  <2>6. Chunk(c) \in Nat /\ Chunk(c) > 0
    BY ChunkType DEF Scheduled, PosType
  <2>7. Scheduled'
    BY <1>1, <2>6 DEF Turn, Scheduled, clockVars
  <2>. QED
    BY <1>1, <1>a, <2>5, <2>7 DEF Turn, Toggles, gameVars
<1>2. ASSUME NEW c \in Console, Instr(c) PROVE IInv'
  BY <1>a, <1>2, InstrGood
<1>3. ASSUME NEW c \in Console, Wake(c) PROVE IInv'
  <2>1. turn = c /\ Elapse(c, chan[c], LineTicks) /\ Retired /\ UNCHANGED <<gameVars, stopped, over, saved>>
    BY <1>3 DEF Wake
  <2>2. GoodPair(chan', wrote', read')
    BY <2>1, IdleGood DEF gameVars
  <2>3. used' \in [Console -> Nat] /\ pos' \in PosType /\ done' \in [Console -> BOOLEAN]
    BY <2>1, ElapseClocks, FrameType
  <2>4. place' \in PlaceType /\ lines' \in 0 .. Scanlines
    BY <1>3, FrameType DEF Wake, Scheduled, PlaceType
  <2>5. turn' \in Console \cup {Nobody} /\ quota' \in Nat /\ (turn' # Nobody => quota' > 0) /\ ran' \in BOOLEAN
    BY <1>3, <1>b DEF Wake, Retired, Scheduled
  <2>6. Scheduled'
    BY <2>1, <2>3, <2>4, <2>5 DEF Scheduled
  <2>. QED
    BY <1>a, <2>1, <2>2, <2>6 DEF Toggles, gameVars
<1>4. ASSUME NEW c \in Console, Idle(c) PROVE IInv'
  <2>1. turn = c /\ Elapse(c, chan[c], LineTicks) /\ UNCHANGED <<gameVars, place, quota, ran, saved>>
    BY <1>4 DEF Idle
  <2>2. GoodPair(chan', wrote', read')
    BY <2>1, IdleGood DEF gameVars
  <2>3. used' \in [Console -> Nat] /\ pos' \in PosType /\ done' \in [Console -> BOOLEAN]
    BY <2>1, ElapseClocks, FrameType
  <2>4. /\ lines' \in 0 .. Scanlines /\ turn' \in {c, Nobody}
        /\ stopped' \in [Console -> BOOLEAN] /\ over' \in BOOLEAN
    <3>1. lines' \in 0 .. Scanlines
      BY <1>4, FrameType DEF Idle, Scheduled
    <3>2. turn' \in {c, Nobody}
      BY <1>4 DEF Idle
    <3>3. stopped' \in [Console -> BOOLEAN]
      <4>1. stopped' = stopped \/ stopped' = [stopped EXCEPT ![c] = TRUE]
        BY <1>4 DEF Idle
      <4>. QED
        BY <4>1 DEF Scheduled
    <3>4. over' \in BOOLEAN
      BY <1>4 DEF Idle, Scheduled
    <3>. QED
      BY <3>1, <3>2, <3>3, <3>4
  <2>5. Scheduled'
    BY <1>b, <2>1, <2>3, <2>4 DEF Scheduled
  <2>. QED
    BY <1>a, <2>1, <2>2, <2>5 DEF Toggles, gameVars
<1>5. ASSUME NEW c \in Console, Break(c) PROVE IInv'
  <2>1. Scheduled'
    BY <1>5 DEF Break, Scheduled, clockVars, PlaceType
  <2>. QED
    BY <1>a, <1>5, <2>1 DEF Break, Toggles, gameVars
<1>6. ASSUME NEW c \in Console, Trap(c) PROVE IInv'
  <2>1. Scheduled'
    BY <1>6 DEF Trap, Scheduled, clockVars
  <2>. QED
    BY <1>a, <1>6, <2>1 DEF Trap, Toggles, gameVars
<1>7. ASSUME NEW c \in Console, Capture(c) PROVE IInv'
  <2>1. chan[c] \in ChannelOver(Bytes) /\ chan \in [Console -> ChannelOver(Bytes)]
    BY DEF GoodPair
  <2>2. chan' = chan
    BY <1>7, <2>1, HostReadIdentity DEF Capture
  <2>3. Scheduled'
    BY <1>7 DEF Capture, Scheduled, callVars, sliceVars, clockVars
  <2>. QED
    BY <1>a, <1>7, <2>2, <2>3 DEF Capture, Toggles, gameVars
<1>8. ASSUME NextCall PROVE IInv'
  <2>1. GoodPair(chan', wrote', read')
    BY <1>8, RelayGood DEF NextCall, gameVars
  <2>2. Scheduled'
    BY <1>8 DEF NextCall, Scheduled, sliceVars
  <2>. QED
    BY <1>a, <1>8, <2>1, <2>2 DEF NextCall, Toggles, gameVars
<1>9. ASSUME Save PROVE IInv'
  <2>1. GoodSnapshot(saved')
    <3> DEFINE d == [c \in Console |-> Saved(chan[c])]
    <3>1. ASSUME NEW c \in Console
          PROVE  /\ d[c] \in ChannelOver(Bytes) /\ Honest(d[c]) /\ d[c].enabled
                 /\ Leaving(d[c]) = Leaving(chan[c]) /\ Arriving(d[c]) = Arriving(chan[c])
      BY SavedKeeps DEF GoodPair
    <3>2. d \in [Console -> ChannelOver(Bytes)]
      BY <3>1
    <3>3. saved'.chan = d /\ saved'.wrote = wrote /\ saved'.read = read /\ saved'.pos = pos /\ saved'.place = place
      BY <1>9 DEF Save
    <3> HIDE DEF d
    <3>4. GoodPair(d, wrote, read)
      BY <3>1, <3>2, SameBytes
    <3>. QED
      BY <3>3, <3>4 DEF GoodSnapshot, Scheduled
  <2>2. Scheduled'
    BY <1>9 DEF Save, Scheduled, callVars, sliceVars, clockVars
  <2>. QED
    BY <1>a, <1>9, <2>1, <2>2 DEF Save, Toggles, gameVars
<1>10. ASSUME Restore PROVE IInv'
  <2>1. /\ GoodPair(saved.chan, saved.wrote, saved.read)
        /\ saved.pos \in PosType /\ saved.place \in PlaceType
    BY <1>10 DEF Restore, GoodSnapshot
  <2>2. GoodPair(chan', wrote', read')
    <3> DEFINE d == [c \in Console |-> Restored(chan[c], saved.chan[c])]
    <3>1. ASSUME NEW c \in Console
          PROVE  /\ d[c] \in ChannelOver(Bytes) /\ Honest(d[c]) /\ d[c].enabled
                 /\ Leaving(d[c]) = Leaving(saved.chan[c]) /\ Arriving(d[c]) = Arriving(saved.chan[c])
      <4>1. chan[c] \in ChannelOver(Bytes)
        BY DEF GoodPair
      <4>2. saved.chan[c] \in ChannelOver(Bytes) /\ Honest(saved.chan[c]) /\ saved.chan[c].enabled
        BY <2>1 DEF GoodPair
      <4>. QED
        BY <4>1, <4>2, RestoredKeeps
    <3>2. d \in [Console -> ChannelOver(Bytes)]
      BY <3>1
    <3>3. chan' = d /\ wrote' = saved.wrote /\ read' = saved.read
      BY <1>10 DEF Restore
    <3> HIDE DEF d
    <3>4. GoodPair(d, saved.wrote, saved.read)
      BY <2>1, <3>1, <3>2, SameBytes
    <3>. QED
      BY <3>3, <3>4
  <2>3. Scheduled'
    BY <1>10, <2>1 DEF Restore, Scheduled, sliceVars
  <2>4. GoodSnapshot(saved')
    BY <1>10 DEF Restore, Loaded, GoodSnapshot
  <2>. QED
    BY <1>a, <1>10, <2>2, <2>3, <2>4 DEF Restore, Toggles
<1>11. CASE UNCHANGED vars
  BY <1>11, <1>a DEF vars, Scheduled, Toggles, callVars, sliceVars, clockVars, gameVars
<1>. QED
  BY <1>1, <1>2, <1>3, <1>4, <1>5, <1>6, <1>7, <1>8, <1>9, <1>10, <1>11 DEF Next

LEMMA Invariance == Spec => []IInv
BY InitIInv, NextIInv, PTL DEF Spec

\* Types: every variable of the two cabled consoles has its type in every reachable state,
\* and what INTRX0 announced is there to be read (serial_tick, ngpc_run_linked).
THEOREM TypeCorrect == Spec => []TypeOK
<1>1. IInv => TypeOK
  <2> SUFFICES ASSUME IInv PROVE TypeOK
    OBVIOUS
  <2>1. \A c \in Console : MaxBytes[c] \in Nat /\ MaxToggles[c] \in Nat
    BY LinkAssumption DEF Console
  <2>2. /\ DOMAIN chan = Console /\ read \in [Console -> Seq(Bytes)]
        /\ \A c \in Console : chan[c] \in ChannelOver(Bytes) /\ (chan[c].rxIrq => chan[c].pending)
    BY DEF IInv, GoodPair, Honest
  <2>3. \A c \in Console : wrote[c] \in 0 .. MaxBytes[c] /\ toggles[c] \in 0 .. MaxToggles[c]
    BY <2>1 DEF IInv, GoodPair, Toggles
  <2>. QED
    BY <2>2, <2>3 DEF IInv, TypeOK, Scheduled, PlaceType, PosType
<1>. QED
  BY <1>1, Invariance, PTL

\* NothingLost: the other game has read, in order and once each, the first of the bytes a
\* game wrote, and all the rest are on the way (relay_pair, serial_tick, ngpc_set_link_state).
THEOREM NothingIsLost == Spec => []NothingLost
<1>1. IInv => NothingLost
  BY DEF IInv, GoodPair, NothingLost, OnTheWay, Sent, SentUpTo, Joined
<1>. QED
  BY <1>1, Invariance, PTL

(***************************************************************************)
(* Nothing waits on the cable while its console runs                       *)
(***************************************************************************)
\* The level last seen on RTS is the level as it is; a running console that has not woken
\* the host has nothing on the wire, and only a handler runs with the host already woken.
EdgesSeen ==
  \A c \in Console :
    /\ chan[c].rtsLast \in {chan[c].rts, Never}
    /\ turn = c /\ ~chan[c].event => chan[c].tx = <<>> /\ chan[Peer(c)].cts = chan[c].rts
    /\ turn = c /\ place[c] # "handler" => ~chan[c].event

FreshInv == saved # Loaded => EdgesSeen

\* What an instruction or a scanline of c does to the cable, if it did nothing to the wire
\* before its cycles passed: with c still running and the host asleep, all is as it was.
LEMMA TickedEdges ==
  ASSUME IInv, EdgesSeen, NEW c \in Console, turn = c, NEW d \in ChannelOver(Bytes), d.enabled,
         d.tx = chan[c].tx, d.event = chan[c].event,
         d.rts \in {High, Low}, d.rtsLast = chan[c].rtsLast, NEW n \in Nat,
         chan' = [chan EXCEPT ![c] = Tick(d, n)], turn' \in {c, Nobody},
         turn' = c => place'[c] = "handler" \/ ~chan'[c].event
  PROVE  EdgesSeen'
<1> DEFINE p == Peer(c)
           e == Tick(d, n)
<1>1. p \in Console /\ p # c /\ Peer(p) = c /\ Console = {c, p} /\ c # Nobody /\ p # Nobody
  BY PeerConsole, TwoConsoles DEF Console
<1>2. e.rtsLast = d.rts /\ (~e.event => ~d.event /\ e.tx = d.tx /\ d.rtsLast = d.rts)
  BY TickQuiet, ByteType
<1>3. e.rts = d.rts
  BY TickKeepsPlug, ByteType
<1>4. chan'[c] = e /\ chan'[p] = chan[p]
  BY <1>1 DEF IInv, GoodPair
<1> HIDE DEF e, p
<1>5. turn' = c /\ ~e.event => e.tx = <<>> /\ chan[p].cts = e.rts
  <2> SUFFICES ASSUME ~e.event PROVE e.tx = <<>> /\ chan[p].cts = e.rts
    OBVIOUS
  <2>1. ~chan[c].event /\ e.tx = chan[c].tx /\ d.rts = chan[c].rtsLast
    BY <1>2
  <2>2. chan[c].tx = <<>> /\ chan[p].cts = chan[c].rts
    BY <2>1 DEF EdgesSeen, p
  <2>3. chan[c].rts = d.rts
    BY <2>1 DEF EdgesSeen, High, Low, Never
  <2>. QED
    BY <2>1, <2>2, <2>3, <1>3
<1>6. ASSUME NEW k \in Console
      PROVE  /\ chan'[k].rtsLast \in {chan'[k].rts, Never}
             /\ turn' = k /\ ~chan'[k].event => chan'[k].tx = <<>> /\ chan'[Peer(k)].cts = chan'[k].rts
             /\ turn' = k /\ place'[k] # "handler" => ~chan'[k].event
  <2>1. CASE k = c
    BY <2>1, <1>2, <1>3, <1>4, <1>5 DEF p
  <2>2. CASE k = p
    BY <2>2, <1>1, <1>4 DEF EdgesSeen
  <2>. QED
    BY <2>1, <2>2, <1>1
<1>. QED
  BY <1>6 DEF EdgesSeen

LEMMA InstrEdges ==
  ASSUME IInv, EdgesSeen, NEW c \in Console, Instr(c)
  PROVE  EdgesSeen'
<1>0. /\ chan[c] \in ChannelOver(Bytes) /\ chan[c].enabled /\ Honest(chan[c])
      /\ wrote[c] \in Nat /\ Scheduled
  BY DEF IInv, GoodPair
<1>a. ASSUME NEW d \in ChannelOver(Bytes), d.enabled, d.tx = chan[c].tx, d.event = chan[c].event,
             d.rtsLast = chan[c].rtsLast, turn = c, Retire(c, d)
      PROVE  EdgesSeen'
  <2>1. PICK n \in Nat : chan' = [chan EXCEPT ![c] = Tick(d, n)]
    BY <1>0, <1>a, RetireScheduled
  <2>2. turn' = IF chan'[c].event \/ quota = 1 THEN Nobody ELSE c
    BY <1>a DEF Retire, Moved
  <2>3. d.rts \in {High, Low}
    BY DEF ChannelOver
  <2>. QED
    BY <1>a, <2>1, <2>2, <2>3, TickedEdges, TwoConsoles DEF Console
<1>1. CASE Compute(c)
  BY <1>0, <1>1, <1>a DEF Compute, Runs
<1>2. CASE Write(c)
  <2> DEFINE byte == <<c, wrote[c] + 1>>
  <2>1. /\ turn = c /\ Retire(c, WriteBuf(chan[c], byte)) /\ chan[c].txIrq /\ wrote[c] < MaxBytes[c]
    BY <1>2 DEF Write, Runs
  <2>2. byte \in Bytes
    BY <1>0, <2>1, ByteType, LinkAssumption DEF Console
  <2> HIDE DEF byte
  <2>3. WriteBuf(chan[c], byte) \in ChannelOver(Bytes)
    BY <1>0, <2>1, <2>2, WriteBufAppends, ByteType
  <2>. QED
    BY <1>0, <1>a, <2>1, <2>3, WriteBufQuiet, WriteBufPlug
<1>3. CASE Read(c)
  <2>1. turn = c /\ Retire(c, ReadBuf(chan[c])) /\ chan[c].rxIrq
    BY <1>3 DEF Read, Runs
  <2>2. ReadBuf(chan[c]) \in ChannelOver(Bytes)
    BY <1>0, <2>1, ReadBufTakes, ByteType DEF Honest
  <2>. QED
    BY <1>0, <1>a, <2>1, <2>2, ReadBufQuiet, ReadBufPlug
<1>b. ASSUME NEW level \in {High, Low}, turn = c, Retire(c, [chan[c] EXCEPT !.rts = level])
      PROVE  EdgesSeen'
  <2> DEFINE d == [chan[c] EXCEPT !.rts = level]
  <2>1. /\ d \in ChannelOver(Bytes) /\ d.enabled
        /\ d.tx = chan[c].tx /\ d.event = chan[c].event /\ d.rtsLast = chan[c].rtsLast
    <3>1. d.tx = chan[c].tx /\ d.event = chan[c].event /\ d.rtsLast = chan[c].rtsLast
      BY <1>0 DEF ChannelOver
    <3>. QED
      BY <1>0, <3>1, SetRtsKeeps
  <2> HIDE DEF d
  <2>. QED
    BY <1>a, <1>b, <2>1 DEF d
<1>4. CASE LowerRts(c)
  BY <1>4, <1>b DEF LowerRts, Runs
<1>5. CASE RaiseRts(c)
  BY <1>5, <1>b DEF RaiseRts, Runs
<1>. QED
  BY <1>1, <1>2, <1>3, <1>4, <1>5 DEF Instr

LEMMA IdleEdges ==
  ASSUME IInv, EdgesSeen, NEW c \in Console, turn = c, Elapse(c, chan[c], LineTicks),
         turn' \in {c, Nobody}, turn' = c => place'[c] = "handler" \/ ~chan'[c].event
  PROVE  EdgesSeen'
<1>1. /\ chan[c] \in ChannelOver(Bytes) /\ chan[c].enabled /\ LineTicks \in Nat
      /\ chan' = [chan EXCEPT ![c] = Tick(chan[c], LineTicks)]
  BY FrameType DEF IInv, GoodPair, Elapse
<1>2. chan[c].rts \in {High, Low}
  BY <1>1 DEF ChannelOver
<1>. QED
  BY <1>1, <1>2, TickedEdges

\* CableFresh: while a console runs, no byte of its own waits to be relayed and the other
\* one's CTS pin is its RTS line as it is (ngpc_run's look at the wake-up, relay_pair).
THEOREM NothingWaits == Spec => []CableFresh
<1>1. Init => FreshInv
  BY TwoConsoles DEF Init, FreshInv, EdgesSeen, Fresh, SetEnabled, Nobody, Console
<1>2. IInv /\ FreshInv /\ [Next]_vars => FreshInv'
  <2> SUFFICES ASSUME IInv, FreshInv, [Next]_vars, saved' # Loaded PROVE EdgesSeen'
    BY DEF FreshInv
  <2>0. saved # Loaded => EdgesSeen
    BY DEF FreshInv
  <2>a. ASSUME NEW c \in Console PROVE c # Nobody
    BY TwoConsoles DEF Console
  <2>b. ASSUME NEW c \in Console
        PROVE  /\ Relayed(chan)[c].tx = <<>> /\ Relayed(chan)[c].cts = chan[Peer(c)].rts
               /\ Relayed(chan)[c].rts = chan[c].rts /\ Relayed(chan)[c].rtsLast = chan[c].rtsLast
               /\ Relayed(chan)[c] \in ChannelOver(Bytes)
    <3>1. chan[c] \in ChannelOver(Bytes)
      BY DEF IInv, GoodPair
    <3>0. GoodPair(Relayed(chan), wrote, read)
      BY RelayGood DEF IInv
    <3>2. Relayed(chan)[c] \in ChannelOver(Bytes)
      BY <3>0 DEF GoodPair
    <3>. QED
      BY <3>1, <3>2 DEF Relayed, Crossed, SetCts, ChannelOver
  <2>1. ASSUME NEW c \in Console, Turn(c) PROVE EdgesSeen'
    <3>0. saved # Loaded /\ turn' = c /\ chan' = [Relayed(chan) EXCEPT ![c].event = FALSE]
      BY <2>1 DEF Turn
    <3>1. EdgesSeen
      BY <2>0, <3>0
    <3>2. /\ chan'[c].tx = <<>> /\ ~chan'[c].event /\ chan'[c].rts = chan[c].rts
          /\ chan'[c].rtsLast = chan[c].rtsLast
          /\ chan'[Peer(c)] = Relayed(chan)[Peer(c)]
      <4> DEFINE r == Relayed(chan)
      <4>1. DOMAIN r = Console /\ Peer(c) # c /\ Peer(c) \in Console
        BY PeerConsole DEF Relayed
      <4>2. /\ r[c] \in ChannelOver(Bytes)
            /\ r[c].tx = <<>> /\ r[c].rts = chan[c].rts /\ r[c].rtsLast = chan[c].rtsLast
        BY <2>b
      <4>3. chan' = [r EXCEPT ![c].event = FALSE]
        BY <3>0
      <4> HIDE DEF r
      <4>4. chan'[c] = [r[c] EXCEPT !.event = FALSE] /\ chan'[Peer(c)] = r[Peer(c)]
        BY <4>1, <4>3
      <4>5. /\ chan'[c].tx = r[c].tx /\ ~chan'[c].event /\ chan'[c].rts = r[c].rts
            /\ chan'[c].rtsLast = r[c].rtsLast
        BY <4>2, <4>4 DEF ChannelOver
      <4>. QED
        BY <4>2, <4>4, <4>5 DEF r
    <3>3. ASSUME NEW k \in Console
          PROVE  /\ chan'[k].rtsLast \in {chan'[k].rts, Never}
                 /\ turn' = k => /\ chan'[k].tx = <<>> /\ chan'[Peer(k)].cts = chan'[k].rts
                                 /\ ~chan'[k].event
      <4>1. CASE k = c
        BY <4>1, <3>1, <3>2, <2>b, PeerConsole DEF EdgesSeen
      <4>2. CASE k = Peer(c)
        BY <4>2, <3>0, <3>1, <3>2, <2>b, PeerConsole DEF EdgesSeen
      <4>. QED
        BY <4>1, <4>2, PeerConsole
    <3>. QED
      BY <3>3 DEF EdgesSeen
  <2>2. ASSUME NEW c \in Console, Instr(c) PROVE EdgesSeen'
    BY <2>0, <2>2, InstrGood, InstrEdges
  <2>3. ASSUME NEW c \in Console, Wake(c) PROVE EdgesSeen'
    <3>1. /\ saved # Loaded /\ turn = c /\ Elapse(c, chan[c], LineTicks) /\ turn' \in {c, Nobody}
          /\ place' = [place EXCEPT ![c] = "handler"]
      BY <2>3 DEF Wake
    <3>2. place'[c] = "handler"
      BY <3>1 DEF IInv, Scheduled, PlaceType
    <3>. QED
      BY <2>0, <3>1, <3>2, IdleEdges
  <2>4. ASSUME NEW c \in Console, Idle(c) PROVE EdgesSeen'
    <3>1. /\ saved # Loaded /\ turn = c /\ Elapse(c, chan[c], LineTicks) /\ turn' \in {c, Nobody}
          /\ turn' = c => ~chan'[c].event
      BY <2>4, <2>a DEF Idle, Moved
    <3>. QED
      BY <2>0, <3>1, IdleEdges
  <2>5. ASSUME NEW c \in Console, Break(c) \/ Trap(c) PROVE EdgesSeen'
    <3>1. saved # Loaded /\ turn' = Nobody /\ chan' = chan
      BY <2>5 DEF Break, Trap
    <3>. QED
      BY <2>0, <2>a, <3>1 DEF EdgesSeen
  <2>6. ASSUME NEW c \in Console, Capture(c) PROVE EdgesSeen'
    <3>1. chan' = chan /\ turn' = Nobody /\ saved # Loaded
      BY <2>6, HostReadIdentity DEF Capture, Between, IInv, GoodPair, callVars, sliceVars
    <3>. QED
      BY <2>0, <2>a, <3>1 DEF EdgesSeen
  <2>7. ASSUME NextCall PROVE EdgesSeen'
    <3>1. chan' = Relayed(chan) /\ turn' = Nobody /\ saved # Loaded
      BY <2>7 DEF NextCall, sliceVars
    <3>. QED
      BY <2>0, <2>a, <2>b, <3>1 DEF EdgesSeen
  <2>8. ASSUME Save PROVE EdgesSeen'
    <3>1. chan' = chan /\ turn' = Nobody /\ saved # Loaded
      BY <2>8 DEF Save, Between, callVars, sliceVars, NoState, Loaded
    <3>. QED
      BY <2>0, <2>a, <3>1 DEF EdgesSeen
  <2>9. ASSUME Restore PROVE EdgesSeen'
    BY <2>9 DEF Restore
  <2>10. CASE UNCHANGED vars
    BY <2>0, <2>10 DEF vars, callVars, sliceVars, EdgesSeen
  <2>. QED
    BY <2>1, <2>2, <2>3, <2>4, <2>5, <2>6, <2>7, <2>8, <2>9, <2>10 DEF Next
<1>3. FreshInv => CableFresh
  BY DEF FreshInv, EdgesSeen, CableFresh
<1>. QED
  BY <1>1, <1>2, <1>3, Invariance, PTL DEF Spec

(***************************************************************************)
(* The gap.  What a console is ahead of the other, and what the rest of its*)
(* slice may still add to that, stay within the bound                      *)
(***************************************************************************)
Slice(c) == IF turn = c THEN quota * Fat ELSE 0

GapWithSlice ==
  \A c \in Console :
    ~Out(Peer(c)) => used[c] - used[Peer(c)] + Slice(c) <= Most(Quantum, Fat)

\* The slowest a slice's instructions can be, the slice is no longer than the quantum.
LEMMA ChunkFits ==
  ASSUME NEW c \in Console, pos[c] \in 0 .. FrameTicks - 1
  PROVE  Chunk(c) * Fat <= Most(Quantum, Fat)
<1> DEFINE x == Least(FrameTicks - pos[c], Quantum)
<1>1. x \in Nat /\ x <= Quantum /\ Fat \in Nat /\ Fat > 0 /\ Quantum \in Nat
  BY FatType, FrameType DEF Least
<1>2. Chunk(c) = Most(1, x \div Fat)
  BY DEF Chunk
<1> HIDE DEF x
<1>3. PICK d \in Nat : d = x \div Fat /\ d * Fat <= x
  BY <1>1
<1>4. CASE 1 < d
  BY <1>1, <1>2, <1>3, <1>4 DEF Most
<1>5. CASE ~(1 < d)
  <2>1. Chunk(c) = 1
    BY <1>2, <1>3, <1>5 DEF Most
  <2>. QED
    BY <1>1, <2>1 DEF Most
<1>. QED
  BY <1>4, <1>5

\* Retiring an instruction spends as much of the slice as it can at most have cost.
LEMMA SliceSpent ==
  ASSUME NEW q \in Nat, q > 0, NEW n \in Nat, NEW f \in Nat, n <= f
  PROVE  n + (q - 1) * f <= q * f /\ n <= q * f
<1>1. (q - 1) * f = q * f - f /\ (q - 1) * f \in Nat
  OBVIOUS
<1>. QED
  BY <1>1

\* An instruction of c: its clock gains what the slice loses, or more is lost.
LEMMA InstrGap ==
  ASSUME Scheduled, GapWithSlice, NEW c \in Console, turn = c, NEW d, Retire(c, d)
  PROVE  GapWithSlice'
<1>1. PICK n \in Costs : Elapse(c, d, n)
  BY DEF Retire
<1>2. /\ n \in Nat /\ n <= Fat /\ Fat \in Nat
      /\ quota \in Nat /\ quota > 0 /\ turn' \in {c, Nobody} /\ quota' = quota - 1
      /\ stopped' = stopped
  BY <1>1, LinkAssumption, FatType, TwoConsoles DEF Retire, Retired, Scheduled, Console
<1>3. /\ used \in [Console -> Nat] /\ used' = [used EXCEPT ![c] = @ + n]
      /\ done' = [done EXCEPT ![c] = @ \/ pos[c] + n >= FrameTicks] /\ done \in [Console -> BOOLEAN]
  BY <1>1 DEF Elapse, Scheduled
<1> DEFINE p == Peer(c)
<1>4. /\ p \in Console /\ p # c /\ Peer(p) = c /\ Console = {c, p} /\ p # Nobody /\ c # Nobody
  BY PeerConsole, TwoConsoles DEF Console
<1>5. Out(p)' = Out(p) /\ (~Out(c)' => ~Out(c))
  BY <1>2, <1>3, <1>4 DEF Out
<1>6. used'[c] = used[c] + n /\ used'[p] = used[p] /\ used[c] \in Nat /\ used[p] \in Nat
  BY <1>3, <1>4
<1>7. n + (quota - 1) * Fat <= quota * Fat /\ n <= quota * Fat
  BY <1>2, SliceSpent
<1>8. Most(Quantum, Fat) \in Nat /\ quota * Fat \in Nat /\ (quota - 1) * Fat \in Nat
  BY <1>2, FrameType DEF Most
<1>9. Slice(c) = quota * Fat /\ Slice(p) = 0 /\ Slice(p)' = 0
      /\ Slice(c)' \in {(quota - 1) * Fat, 0}
  BY <1>2, <1>4 DEF Slice
<1>10. ASSUME ~Out(p)' PROVE used'[c] - used'[p] + Slice(c)' <= Most(Quantum, Fat)
  <2>1. used[c] - used[p] + quota * Fat <= Most(Quantum, Fat)
    BY <1>4, <1>5, <1>9, <1>10 DEF GapWithSlice
  <2> HIDE DEF p
  <2>. QED
    BY <1>2, <1>6, <1>7, <1>8, <1>9, <2>1
<1>11. ASSUME ~Out(c)' PROVE used'[p] - used'[c] + Slice(p)' <= Most(Quantum, Fat)
  <2>1. used[p] - used[c] + Slice(p) <= Most(Quantum, Fat)
    BY <1>4, <1>5, <1>11 DEF GapWithSlice
  <2> HIDE DEF p
  <2>. QED
    BY <1>2, <1>6, <1>8, <1>9, <2>1
<1>12. ASSUME NEW k \in Console, ~Out(Peer(k))'
       PROVE  used'[k] - used'[Peer(k)] + Slice(k)' <= Most(Quantum, Fat)
  <2>1. CASE k = c
    BY <2>1, <1>10, <1>12
  <2>2. CASE k = p
    BY <2>2, <1>4, <1>11, <1>12
  <2>. QED
    BY <2>1, <2>2, <1>4
<1>. QED
  BY <1>12 DEF GapWithSlice

\* GapBounded: while both take part in the frame neither gets further ahead of the other
\* than one quantum or one instruction, whatever the costs, the frame and the edges on the
\* cable, as long as no program executes a HALT: one "instruction" of a HALT idles whole
\* scanlines (ngpc_run_linked; ngpc_run's chunk of quantum / 48 instructions).
THEOREM GapStaysBounded ==
  ASSUME "halt" \notin Places
  PROVE  Spec => []GapBounded
<1> DEFINE Bound == Most(Quantum, Fat)
<1>0. Bound \in Nat /\ Fat \in Nat
  BY FatType, FrameType DEF Most
<1>1. Init => GapWithSlice
  <2> SUFFICES ASSUME Init, NEW c \in Console
               PROVE  used[c] - used[Peer(c)] + Slice(c) <= Bound
    BY DEF GapWithSlice
  <2>1. used[c] = 0 /\ used[Peer(c)] = 0 /\ Slice(c) = 0
    BY PeerConsole, TwoConsoles DEF Init, Slice, Console
  <2>. QED
    BY <1>0, <2>1
<1>2. IInv /\ GapWithSlice /\ [Next]_vars => GapWithSlice'
  <2> SUFFICES ASSUME IInv, GapWithSlice, [Next]_vars PROVE GapWithSlice'
    OBVIOUS
  <2>0. Scheduled
    BY DEF IInv
  <2>a. \A c \in Console : place[c] # "halt"
    BY <2>0 DEF Scheduled, PlaceType
  <2>b. \A c \in Console : c # Nobody /\ Peer(c) \in Console /\ Peer(c) # c
    BY PeerConsole, TwoConsoles DEF Console
  <2>c. used \in [Console -> Nat] /\ quota \in Nat
    BY <2>0 DEF Scheduled
  <2>d. \A c \in Console : Slice(c) \in Nat /\ (turn # c => Slice(c) = 0)
    BY <1>0, <2>c DEF Slice
  \* The slice is over, and who takes part is as before, or less.
  <2>e. ASSUME used' = used, (turn' = turn /\ quota' = quota) \/ turn' = Nobody,
               \A c \in Console : ~Out(c)' => ~Out(c)
        PROVE  GapWithSlice'
    <3> SUFFICES ASSUME NEW c \in Console, ~Out(Peer(c))'
                 PROVE  used'[c] - used'[Peer(c)] + Slice(c)' <= Bound
      BY DEF GapWithSlice
    <3>1. used[c] - used[Peer(c)] + Slice(c) <= Bound
      BY <2>b, <2>e DEF GapWithSlice
    <3>2. Slice(c)' \in {Slice(c), 0}
      BY <2>b, <2>e DEF Slice
    <3> HIDE DEF Bound
    <3>. QED
      BY <1>0, <2>b, <2>c, <2>d, <2>e, <3>1, <3>2
  <2>1. ASSUME NEW c \in Console, Turn(c) PROVE GapWithSlice'
    <3>1. /\ turn = Nobody /\ Lags(c) /\ turn' = c /\ quota' = Chunk(c) /\ used' = used
          /\ \A k \in Console : Out(k)' = Out(k)
      BY <2>1 DEF Turn, clockVars, Out
    <3>2. Chunk(c) * Fat <= Bound /\ Chunk(c) * Fat \in Nat
      BY <1>0, <2>0, ChunkFits, ChunkType DEF Scheduled, PosType
    <3> SUFFICES ASSUME NEW k \in Console, ~Out(Peer(k))'
                 PROVE  used'[k] - used'[Peer(k)] + Slice(k)' <= Bound
      BY DEF GapWithSlice
    <3> HIDE DEF Bound
    <3>3. CASE k = c
      <4>1. used[c] <= used[Peer(c)]
        BY <3>1, <3>3, <2>b, <2>c DEF Lags
      <4>2. Slice(c)' = Chunk(c) * Fat
        BY <3>1 DEF Slice
      <4>. QED
        BY <1>0, <2>b, <2>c, <3>1, <3>2, <3>3, <4>1, <4>2
    <3>4. CASE k # c
      <4>1. Slice(k)' = 0
        BY <3>1, <3>4 DEF Slice
      <4>2. used[k] - used[Peer(k)] + Slice(k) <= Bound
        BY <3>1, <2>b DEF GapWithSlice, Bound
      <4>. QED
        BY <1>0, <2>b, <2>c, <2>d, <3>1, <4>1, <4>2
    <3>. QED
      BY <3>3, <3>4
  <2>2. ASSUME NEW c \in Console, Instr(c) PROVE GapWithSlice'
    <3>1. turn = c /\ \E d : Retire(c, d)
      BY <2>2 DEF Instr, Compute, Write, Read, LowerRts, RaiseRts, Runs
    <3>. QED
      BY <2>0, <3>1, InstrGap
  <2>3. ASSUME NEW c \in Console, Wake(c) \/ Idle(c) PROVE FALSE
    BY <2>3, <2>a DEF Wake, Idle
  <2>4. ASSUME NEW c \in Console, Break(c) \/ Trap(c) PROVE GapWithSlice'
    <3>1. turn' = Nobody /\ used' = used /\ done' = done /\ stopped' = [stopped EXCEPT ![c] = TRUE]
      BY <2>4 DEF Break, Trap, clockVars
    <3>. QED
      BY <2>0, <2>e, <3>1 DEF Out, Scheduled
  <2>5. ASSUME NEW c \in Console, Capture(c) PROVE GapWithSlice'
    BY <2>5, <2>e DEF Capture, callVars, sliceVars, clockVars, Out
  <2>6. ASSUME NextCall PROVE GapWithSlice'
    <3> SUFFICES ASSUME NEW c \in Console PROVE used'[c] - used'[Peer(c)] + Slice(c)' <= Bound
      BY DEF GapWithSlice
    <3>1. used'[c] = 0 /\ used'[Peer(c)] = 0 /\ Slice(c)' = 0
      BY <2>6, <2>b DEF NextCall, sliceVars, Slice
    <3>. QED
      BY <1>0, <3>1
  <2>7. ASSUME Save PROVE GapWithSlice'
    BY <2>7, <2>e DEF Save, callVars, sliceVars, clockVars, Out
  <2>8. ASSUME Restore PROVE GapWithSlice'
    BY <2>8, <2>e DEF Restore, sliceVars, Out
  <2>9. CASE UNCHANGED vars
    BY <2>9, <2>e DEF vars, callVars, sliceVars, clockVars, Out
  <2>. QED
    BY <2>1, <2>2, <2>3, <2>4, <2>5, <2>6, <2>7, <2>8, <2>9 DEF Next
<1>3. IInv /\ GapWithSlice => GapBounded
  <2> SUFFICES ASSUME IInv, GapWithSlice, NEW c \in Console, ~Out(Peer(c))
               PROVE  used[c] - used[Peer(c)] <= Bound
    BY DEF GapBounded
  <2>1. used[c] - used[Peer(c)] + Slice(c) <= Bound
    BY DEF GapWithSlice
  <2>2. used[c] \in Nat /\ used[Peer(c)] \in Nat /\ Slice(c) \in Nat
    BY <1>0, PeerConsole DEF Slice, IInv, Scheduled
  <2> HIDE DEF Bound
  <2>. QED
    BY <1>0, <2>1, <2>2
<1>. QED
  BY <1>1, <1>2, <1>3, Invariance, PTL DEF Spec
----------------------------------------------------------------------------
(* The page that plugs the cable in and takes it out (CableAttach): a cable *)
(* session starts from a clean wire, however many sessions of either kind   *)
(* the page has had and whatever was played in between.                     *)
\* The bytes of any session.
Byte == {<<n>> : n \in Nat}

\* A channel in which every byte that can still reach a game is one of a set: the buffer
\* keeps holding a byte that was read, and one whose interrupt a reset has withdrawn.
Carrying(bytes) ==
  [silicon : BOOLEAN, ctse : BOOLEAN, enabled : BOOLEAN,
   buf : bytes \cup {NoByte}, shift : bytes \cup {NoByte}, shifting : BOOLEAN,
   txLeft : Int, tx : Seq(bytes), rx : Seq(bytes),
   slot : Byte \cup {NoByte}, pending : BOOLEAN, had : BOOLEAN, rxLeft : Int,
   rts : {High, Low}, rtsLast : {High, Low, Never}, cts : {High, Low}, seen : BOOLEAN,
   txIrq : BOOLEAN, rxIrq : BOOLEAN, event : BOOLEAN]
Carries(c, bytes) == c \in Carrying(bytes) /\ (c.rxIrq => c.slot \in bytes)

\* What a power cycle relies on when it is left out: no instruction played, so no byte was
\* written and none was announced.
Unplayed(c) == c.buf = NoByte /\ ~c.rxIrq

Empty(c) == Unplayed(c) /\ c.shift = NoByte /\ c.tx = <<>> /\ c.rx = <<>>

PageInv ==
  /\ mode \in {"alone", "cable", "mirror"} /\ session \in Nat /\ played \in BOOLEAN
  /\ Carries(port, Byte)
  /\ mode = "cable" => Carries(port, {<<session>>}) /\ got \subseteq {session}
  /\ mode = "cable" /\ ~played => Unplayed(port)
  /\ mode = "alone" /\ ~played => Empty(port)

LEMMA OnlyBytes == \A n \in Nat : <<n>> \in Byte /\ {<<n>>} \subseteq Byte /\ <<n>> # NoByte
BY DEF Byte, NoByte

\* An empty channel carries the bytes of any set, so that of the session about to begin.
LEMMA EmptyCarries ==
  ASSUME NEW Values, NEW c, Carries(c, Byte), Empty(c)
  PROVE  Carries(c, Values)
<1>1. <<>> \in Seq(Values)
  OBVIOUS
<1>2. c.tx \in Seq(Values) /\ c.rx \in Seq(Values) /\ c.buf \in Values \cup {NoByte} /\ c.shift \in Values \cup {NoByte}
  BY <1>1 DEF Empty, Unplayed
<1>. QED
  BY <1>2, ZenonT(30) DEF Carries, Carrying, Empty, Unplayed

LEMMA ShiftOutCarries ==
  ASSUME NEW Values, NEW c, Carries(c, Values), NEW n \in Nat
  PROVE  Carries(ShiftOut(c, n), Values)
<1> DEFINE d == ShiftOut(c, n)
<1>1. CASE d = c
  BY <1>1
<1>2. CASE d = [c EXCEPT !.shifting = TRUE, !.txLeft = @ - n]
  <2>1. c.txLeft - n \in Int
    BY DEF Carries, Carrying
  <2>. QED
    BY <1>2, <2>1, ZenonT(30) DEF Carries, Carrying
<1>3. CASE /\ c.shift # NoByte
           /\ d = [c EXCEPT !.tx = Append(@, c.shift), !.shift = NoByte, !.shifting = FALSE,
                            !.txLeft = 0, !.event = TRUE, !.txIrq = @ \/ ~c.silicon]
  <2>1. c.tx \in Seq(Values) /\ c.shift \in Values
    BY <1>3 DEF Carries, Carrying
  <2>2. Append(c.tx, c.shift) \in Seq(Values) /\ 0 \in Int
    BY <2>1, AppendProperties
  <2>. QED
    BY <1>3, <2>2, ZenonT(30) DEF Carries, Carrying
<1>. QED
  BY <1>1, <1>2, <1>3, SMT DEF ShiftOut, Carries, Carrying

LEMMA LoadShiftCarries ==
  ASSUME NEW Values, NEW c, Carries(c, Values)
  PROVE  Carries(LoadShift(c), Values)
<1>1. ByteTicks \in Int
  BY ByteTicksAssumption
<1>2. CASE MayLoad(c)
  <2>1. c.buf \in Values \cup {NoByte}
    BY DEF Carries, Carrying
  <2>. QED
    BY <1>1, <1>2, <2>1, ZenonT(30) DEF LoadShift, Carries, Carrying
<1>. QED
  BY <1>2 DEF LoadShift

LEMMA PresentCarries ==
  ASSUME NEW Values, Values \subseteq Byte, NEW c, Carries(c, Values), NEW n \in Nat
  PROVE  Carries(Present(c, n), Values)
<1> DEFINE d == Present(c, n)
           left == IF c.silicon /\ c.had THEN 0 ELSE c.rxLeft - n
<1>1. CASE d = c
  BY <1>1
<1>2. CASE d = [c EXCEPT !.rxLeft = left]
  <2>1. left \in Int
    BY DEF Carries, Carrying
  <2> HIDE DEF left
  <2>. QED
    BY <1>2, <2>1, ZenonT(30) DEF Carries, Carrying
<1>3. CASE /\ c.rx # <<>>
           /\ d = [c EXCEPT !.slot = Head(c.rx), !.rx = Tail(@), !.pending = TRUE,
                            !.had = TRUE, !.rxLeft = ByteTicks, !.rxIrq = TRUE]
  <2>1. c.rx \in Seq(Values)
    BY DEF Carries, Carrying
  <2>2. Head(c.rx) \in Values /\ Tail(c.rx) \in Seq(Values) /\ ByteTicks \in Int
    BY <1>3, <2>1, ByteTicksAssumption
  <2>3. d \in Carrying(Values)
    BY <1>3, <2>2, ZenonT(30) DEF Carries, Carrying
  <2>4. d.slot = Head(c.rx)
    BY <1>3 DEF Carries, Carrying
  <2>. QED
    BY <2>2, <2>3, <2>4 DEF Carries
<1>. QED
  BY <1>1, <1>2, <1>3, SMT DEF Present, MayPresent

\* However many cycles pass, no byte comes from anywhere but the wire (serial_tick).
LEMMA TickCarries ==
  ASSUME NEW Values, Values \subseteq Byte, NEW c, Carries(c, Values), NEW n \in Nat
  PROVE  Carries(Tick(c, n), Values)
<1>1. ASSUME NEW d, Carries(d, Values)
      PROVE  Carries(SampleRts(d), Values)
  <2>1. d.rts \in {High, Low, Never}
    BY <1>1 DEF Carries, Carrying
  <2>2. CASE d.rts # d.rtsLast
    BY <1>1, <2>1, <2>2, ZenonT(30) DEF SampleRts, Carries, Carrying
  <2>. QED
    BY <1>1, <2>2 DEF SampleRts
<1>. QED
  BY <1>1, ShiftOutCarries, LoadShiftCarries, PresentCarries DEF Tick

\* What the plug, a reset and the processor do to the bytes of a channel.
LEMMA PlugCarries ==
  ASSUME NEW Values, NEW c, Carries(c, Values), NEW on \in BOOLEAN
  PROVE  Carries(SetEnabled(c, on), Values)
<1>1. <<>> \in Seq(Values) /\ 0 \in Int
  OBVIOUS
<1>. QED
  BY <1>1, ZenonT(30) DEF SetEnabled, Carries, Carrying

LEMMA ResetCarries ==
  ASSUME NEW Values, NEW c, Carries(c, Values)
  PROVE  Carries(Reset(c), Values)
BY ZenonT(30) DEF Reset, Carries, Carrying

LEMMA WriteBufCarries ==
  ASSUME NEW Values, NEW c, Carries(c, Values), NEW byte \in Values
  PROVE  Carries(WriteBuf(c, byte), Values)
<1>1. ByteTicks \in Int
  BY ByteTicksAssumption
<1>. QED
  BY <1>1, ZenonT(30) DEF WriteBuf, Carries, Carrying

LEMMA ReadBufCarries ==
  ASSUME NEW Values, NEW c, Carries(c, Values)
  PROVE  Carries(ReadBuf(c), Values)
BY ZenonT(30) DEF ReadBuf, Acknowledged, Carries, Carrying

LEMMA RelayCarries ==
  ASSUME NEW Values, NEW c, Carries(c, Values), NEW level \in {High, Low}, NEW came \in Seq(Values)
  PROVE  Carries([SetCts(c, level) EXCEPT !.rx = @ \o came, !.tx = <<>>], Values)
<1>1. c.rx \o came \in Seq(Values) /\ <<>> \in Seq(Values)
  <2>1. c.rx \in Seq(Values)
    BY DEF Carries, Carrying
  <2>. QED
    BY <2>1
<1>. QED
  BY <1>1, ZenonT(30) DEF SetCts, Carries, Carrying

\* What an empty channel keeps: nothing but an instruction or the relay fills it.
LEMMA PlugEmpties ==
  ASSUME NEW c, Carries(c, Byte)
  PROVE  /\ Unplayed(c) => Empty(SetEnabled(c, FALSE))
         /\ Empty(c) => Empty(SetEnabled(c, TRUE))
         /\ Unplayed(Reset(c))
BY DEF Carries, Carrying, Unplayed, Empty, SetEnabled, Reset

\* _power_cycle_for_link leaves nothing of the past.
LEMMA PowerCycledClean ==
  ASSUME NEW c, Carries(c, Byte)
  PROVE  Carries(PowerCycled(c), Byte) /\ Empty(PowerCycled(c))
<1> DEFINE out == SetEnabled(c, FALSE)
           off == Reset(out)
<1>1. Carries(out, Byte) /\ Carries(off, Byte) /\ Carries(PowerCycled(c), Byte)
  BY PlugCarries, ResetCarries DEF PowerCycled
<1>2. out.tx = <<>> /\ out.rx = <<>> /\ out.shift = NoByte
  BY DEF Carries, Carrying, SetEnabled
<1>3. off.tx = out.tx /\ off.rx = out.rx /\ off.shift = out.shift /\ Unplayed(off)
  BY <1>1 DEF Carries, Carrying, Reset, Unplayed
<1> HIDE DEF off
<1>4. Empty(off)
  BY <1>2, <1>3 DEF Empty
<1>. QED
  BY <1>1, <1>4, PlugEmpties DEF PowerCycled, off

LEMMA InitPageInv == PageInit => PageInv
<1> SUFFICES ASSUME PageInit PROVE PageInv
  OBVIOUS
<1>1. PICK ctse \in BOOLEAN : port = Fresh(TRUE, ctse)
  BY DEF PageInit
<1>2. <<>> \in Seq(Byte) /\ 0 \in Int
  OBVIOUS
<1>3. port \in Carrying(Byte)
  BY <1>1, <1>2, ZenonT(30) DEF Fresh, Carrying
<1>4. Empty(port)
  BY <1>1 DEF Fresh, Empty, Unplayed
<1>. QED
  BY <1>3, <1>4 DEF PageInit, PageInv, Carries, Empty, Unplayed

LEMMA NextPageInv == PageInv /\ [PageNext]_pageVars => PageInv'
<1> SUFFICES ASSUME PageInv, [PageNext]_pageVars PROVE PageInv'
  OBVIOUS
<1>0. /\ mode \in {"alone", "cable", "mirror"} /\ session \in Nat /\ played \in BOOLEAN
      /\ Carries(port, Byte)
      /\ mode = "cable" => Carries(port, {<<session>>}) /\ got \subseteq {session}
      /\ {<<session>>} \subseteq Byte
  BY OnlyBytes DEF PageInv
<1>1. CASE AttachCable
  <2>1. session + 1 \in Nat /\ mode = "alone"
    BY <1>0, <1>1 DEF AttachCable
  <2>2. Carries(port', Byte) /\ Empty(port')
    <3>1. CASE played
      BY <1>0, <1>1, <3>1, PowerCycledClean DEF AttachCable
    <3>2. CASE ~played
      BY <1>0, <1>1, <2>1, <3>2, PlugCarries, PlugEmpties DEF AttachCable, PageInv
    <3>. QED
      BY <3>1, <3>2
  <2>3. Carries(port', {<<session + 1>>})
    BY <2>2, EmptyCarries
  <2>. QED
    BY <1>1, <2>1, <2>2, <2>3 DEF AttachCable, PageInv, Empty
<1>2. CASE DetachCable
  <2>1. Carries(port', Byte) /\ (~played => Empty(port'))
    BY <1>0, <1>2, PlugCarries, PlugEmpties DEF DetachCable, PageInv
  <2>. QED
    BY <1>0, <1>2, <2>1 DEF DetachCable, PageInv
<1>3. CASE AttachMirror
  <2>1. Carries(port', Byte)
    BY <1>0, <1>3, PlugCarries, ResetCarries DEF AttachMirror
  <2>2. mode' = "mirror" /\ session' = session + 1 /\ played' = FALSE
    BY <1>3, Zenon DEF AttachMirror
  <2>3. session' \in Nat
    BY <1>0, <2>2
  <2>4. played' \in BOOLEAN
    BY <2>2, Zenon
  <2>. QED
    BY <2>1, <2>2, <2>3, <2>4, Zenon DEF PageInv
<1>4. CASE DetachMirror
  BY <1>0, <1>4 DEF DetachMirror, PageInv
<1>5. CASE GameWrites
  <2>1. ASSUME NEW Values, Carries(port, Values), <<session>> \in Values
        PROVE  Carries(port', Values)
    BY <1>5, <2>1, WriteBufCarries DEF GameWrites
  <2>2. Carries(port', Byte) /\ (mode = "cable" => Carries(port', {<<session>>}))
    BY <1>0, <2>1
  <2>. QED
    BY <1>0, <1>5, <2>2 DEF GameWrites, PageInv
<1>6. CASE GameReads
  <2>1. Carries(port', Byte) /\ (mode = "cable" => Carries(port', {<<session>>}))
    BY <1>0, <1>6, ReadBufCarries DEF GameReads
  <2>2. mode = "cable" => got' \subseteq {session}
    <3>1. mode = "cable" => port.slot = <<session>>
      BY <1>0, <1>6 DEF GameReads, Carries
    <3>. QED
      BY <1>0, <1>6, <3>1 DEF GameReads
  <2>. QED
    BY <1>0, <1>6, <2>1, <2>2 DEF GameReads, PageInv
<1>7. CASE SetRts
  <2>1. ASSUME NEW Values, Carries(port, Values)
        PROVE  Carries(port', Values)
    <3>1. PICK level \in {High, Low} : port' = [port EXCEPT !.rts = level]
      BY <1>7 DEF SetRts
    <3>. QED
      BY <2>1, <3>1, ZenonT(30) DEF Carries, Carrying
  <2>. QED
    BY <1>0, <1>7, <2>1 DEF SetRts, PageInv
<1>8. CASE Run
  <2>1. ByteTicks \in Nat
    BY ByteTicksAssumption
  <2>2. Carries(port', Byte) /\ (mode = "cable" => Carries(port', {<<session>>}))
    BY <1>0, <1>8, <2>1, TickCarries DEF Run
  <2>. QED
    BY <1>0, <1>8, <2>2 DEF Run, PageInv
<1>9. CASE Relay
  <2>1. PICK level \in {High, Low}, came \in {<<>>, <<<<session>>>>} :
          port' = [SetCts(port, level) EXCEPT !.rx = @ \o came, !.tx = <<>>]
    BY <1>9 DEF Relay
  <2>2. ASSUME NEW Values, <<session>> \in Values
        PROVE  came \in Seq(Values)
    <3> DEFINE byte == <<session>>
    <3>1. byte \in Values
      BY <2>2
    <3> HIDE DEF byte
    <3>2. <<>> \in Seq(Values) /\ <<byte>> \in Seq(Values)
      BY <3>1
    <3>. QED
      BY <2>1, <3>2 DEF byte
  <2>3. Carries(port', Byte) /\ (mode = "cable" => Carries(port', {<<session>>}))
    BY <1>0, <2>1, <2>2, RelayCarries
  <2>4. mode = "cable" => got' \subseteq {session}
    <3>1. mode = "cable" => \A n \in DOMAIN port.tx : port.tx[n] = <<session>>
      BY <1>0 DEF Carries, Carrying
    <3>. QED
      BY <1>0, <1>9, <3>1 DEF Relay
  <2>5. Unplayed(port) => Unplayed(port')
    BY <1>0, <2>1 DEF Carries, Carrying, Unplayed, SetCts
  <2>. QED
    BY <1>0, <1>9, <2>3, <2>4, <2>5 DEF Relay, PageInv
<1>10. CASE UNCHANGED pageVars
  BY <1>10 DEF pageVars, PageInv
<1>. QED
  BY <1>1, <1>2, <1>3, <1>4, <1>5, <1>6, <1>7, <1>8, <1>9, <1>10 DEF PageNext

\* No byte that either game receives in a cable session was sent before the plug went in,
\* whatever the page played before it (_power_cycle_for_link).
THEOREM CableClean == PageSpec => []CableStartsClean
<1>1. PageInv => CableStartsClean
  BY DEF PageInv, CableStartsClean, FromThisSession
<1>. QED
  BY <1>1, InitPageInv, NextPageInv, PTL DEF PageSpec
=============================================================================
