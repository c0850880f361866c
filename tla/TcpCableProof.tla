---------------------------- MODULE TcpCableProof ----------------------------
(***************************************************************************)
(* Proofs about TcpCable, for any pairing of programs, any kernels, any    *)
(* wait for the rest of a hello and any number of bytes and of acts of the *)
(* players.                                                                *)
(***************************************************************************)
EXTENDS TcpCable, SequenceTheorems, TLAPS

Bytes == Nat \X {"head", "tail", "game"}
Chan == ChannelOver(Bytes)

(***************************************************************************)
(* Bytes that are moved on                                                 *)
(***************************************************************************)
LEMMA SplitAt ==
  ASSUME NEW S, NEW s \in Seq(S), NEW n \in 0 .. Len(s)
  PROVE  /\ Upto(s, n) \in Seq(S) /\ Len(Upto(s, n)) = n
         /\ From(s, n) \in Seq(S) /\ Len(From(s, n)) = Len(s) - n
         /\ Upto(s, n) \o From(s, n) = s
<1>1. Len(s) \in Nat /\ \A i \in 1 .. Len(s) : s[i] \in S
  BY LenProperties, ElementOfSeq
<1>2. Upto(s, n) \in Seq(S) /\ Len(Upto(s, n)) = n
  BY <1>1, SubSeqProperties DEF Upto
<1>3. From(s, n) \in Seq(S) /\ Len(From(s, n)) = Len(s) - n
  BY <1>1, SubSeqProperties DEF From
<1>4. Upto(s, n) \o From(s, n) = s
  <2>1. /\ 1 \in 1 .. Len(s) + 1 /\ n \in 1 - 1 .. Len(s) /\ Len(s) \in n .. Len(s)
    BY <1>1
  <2>2. SubSeq(s, 1, n) \o SubSeq(s, n + 1, Len(s)) = SubSeq(s, 1, Len(s))
    BY <2>1, ConcatAdjacentSubSeq
  <2>. QED
    BY <2>2, SubSeqFull DEF Upto, From
<1>. QED
  BY <1>2, <1>3, <1>4

LEMMA Assoc == \A s, t, u \in Seq(Bytes) : (s \o t) \o u = s \o (t \o u)
BY ConcatAssociative

LEMMA JoinedType == \A s, t \in Seq(Bytes) : s \o t \in Seq(Bytes)
BY ConcatProperties

\* The first n bytes that were waiting join those on the way.
LEMMA SentOn ==
  ASSUME NEW x \in Seq(Bytes), NEW w \in Seq(Bytes), NEW y \in Seq(Bytes), NEW n \in 0 .. Len(y)
  PROVE  (x \o w) \o y = (x \o (w \o Upto(y, n))) \o Rest(y, n)
<1> DEFINE a == Upto(y, n)
           b == Rest(y, n)
           xw == x \o w
<1>0. xw \in Seq(Bytes)
  BY JoinedType, Zenon
<1> HIDE DEF xw
<1>1. a \in Seq(Bytes) /\ b \in Seq(Bytes)
  BY SplitAt DEF Rest
<1>2. a \o b = y
  BY SplitAt DEF Rest
<1> HIDE DEF a, b
<1>3. (xw \o a) \o b = xw \o (a \o b)
  BY <1>0, <1>1, Assoc, Zenon
<1>4. xw \o a = x \o (w \o a)
  BY <1>1, Assoc, Zenon DEF xw
<1>5. xw \o y = (x \o (w \o a)) \o b
  BY <1>2, <1>3, <1>4, Zenon
<1>. QED
  BY <1>5 DEF a, b, xw

\* What is read joins what is held, and is given to the console or held on to.
LEMMA ReadOn ==
  ASSUME NEW g \in Seq(Bytes), NEW h \in Seq(Bytes), NEW w \in Seq(Bytes), NEW m \in 0 .. Len(w)
  PROVE  /\ h \o Upto(w, m) \in Seq(Bytes) /\ From(w, m) \in Seq(Bytes)
         /\ Len(From(w, m)) <= Len(w)
         /\ g \o (h \o Upto(w, m)) \in Seq(Bytes)
         /\ (g \o h) \o w = (g \o (h \o Upto(w, m))) \o From(w, m)
<1> DEFINE a == Upto(w, m)
           b == From(w, m)
           gh == g \o h
<1>0. gh \in Seq(Bytes)
  BY JoinedType, Zenon
<1>1. a \in Seq(Bytes) /\ b \in Seq(Bytes)
  BY SplitAt
<1>2. a \o b = w
  BY SplitAt
<1>3. Len(b) <= Len(w)
  <2>1. Len(b) = Len(w) - m /\ Len(w) \in Nat
    BY SplitAt, LenProperties
  <2> HIDE DEF b
  <2>. QED
    BY <2>1
<1> HIDE DEF a, b
<1>4. gh \o a = g \o (h \o a)
  BY <1>1, Assoc, Zenon
<1> HIDE DEF gh
<1>8. (gh \o a) \o b = gh \o (a \o b)
  BY <1>0, <1>1, Assoc, Zenon
<1>5. gh \o w = (g \o (h \o a)) \o b
  BY <1>2, <1>4, <1>8, Zenon
<1>6. h \o a \in Seq(Bytes)
  BY <1>1, JoinedType, Zenon
<1>7. g \o (h \o a) \in Seq(Bytes)
  BY <1>6, JoinedType, Zenon
<1>. QED
  BY <1>1, <1>3, <1>5, <1>6, <1>7 DEF a, b, gh

(***************************************************************************)
(* The console's channel                                                   *)
(***************************************************************************)
LEMMA TicksType == 0 \in 0 .. ByteTicks
BY ByteTicksAssumption

LEMMA PlainChan == Plain \in Chan /\ ~Plain.enabled /\ ~Plain.seen
<1>1. <<>> \in Seq(Bytes) /\ NoByte \in Bytes \cup {NoByte}
  BY EmptySeq
<1>. QED
  BY <1>1, TicksType DEF Plain, Fresh, Chan, ChannelOver, High, Low

LEMMA SetEnabledKeeps ==
  ASSUME NEW c \in Chan, NEW on \in BOOLEAN
  PROVE  /\ SetEnabled(c, on) \in Chan
         /\ SetEnabled(c, on).enabled = on
         /\ SetEnabled(c, on).seen = c.seen /\ SetEnabled(c, on).cts = c.cts
<1>0. <<>> \in Seq(Bytes) /\ NoByte \in Bytes \cup {NoByte}
  BY EmptySeq
<1>1. CASE on
  <2>1. [c EXCEPT !.enabled = TRUE] \in Chan
    BY ZenonT(30) DEF Chan, ChannelOver
  <2>2. SetEnabled(c, on) = [c EXCEPT !.enabled = TRUE]
    BY <1>1 DEF SetEnabled
  <2>3. /\ [c EXCEPT !.enabled = TRUE].enabled = TRUE
        /\ [c EXCEPT !.enabled = TRUE].seen = c.seen /\ [c EXCEPT !.enabled = TRUE].cts = c.cts
    BY DEF Chan, ChannelOver
  <2>. QED
    BY <1>1, <2>1, <2>2, <2>3
<1>2. CASE ~on
  <2> DEFINE d == [c EXCEPT !.enabled = FALSE, !.tx = <<>>, !.rx = <<>>, !.shift = NoByte,
                            !.shifting = FALSE, !.pending = FALSE, !.txLeft = 0, !.rxLeft = 0]
  <2>1. d \in Chan
    BY <1>0, TicksType, ZenonT(30) DEF Chan, ChannelOver
  <2>2. d.enabled = FALSE /\ d.seen = c.seen /\ d.cts = c.cts
    BY DEF Chan, ChannelOver
  <2>3. SetEnabled(c, on) = d
    BY <1>2 DEF SetEnabled
  <2> HIDE DEF d
  <2>. QED
    BY <1>2, <2>1, <2>2, <2>3
<1>. QED
  BY <1>1, <1>2

LEMMA SetCtsKeeps ==
  ASSUME NEW c \in Chan, NEW level \in {High, Low}
  PROVE  /\ SetCts(c, level) \in Chan
         /\ SetCts(c, level).cts = level /\ SetCts(c, level).enabled = c.enabled
         /\ SetCts(c, level).tx = c.tx
<1>1. SetCts(c, level) \in Chan
  BY ZenonT(30) DEF SetCts, Chan, ChannelOver
<1>. QED
  BY <1>1 DEF SetCts, Chan, ChannelOver

LEMMA ResetKeeps ==
  ASSUME NEW c \in Chan
  PROVE  Reset(c) \in Chan
<1>1. NoByte \in Bytes \cup {NoByte} /\ Low \in {High, Low}
  OBVIOUS
<1>. QED
  BY <1>1, ZenonT(30) DEF Reset, Chan, ChannelOver

LEMMA PluggedChan ==
  ASSUME NEW c \in Chan
  PROVE  Plugged(c) \in Chan
<1> DEFINE c1 == SetEnabled(c, TRUE)
           c2 == SetCts(c1, Low)
           c3 == SetEnabled(c2, FALSE)
           c4 == Reset(c3)
<1>1. c1 \in Chan
  BY SetEnabledKeeps
<1> HIDE DEF c1
<1>2. c2 \in Chan
  BY <1>1, SetCtsKeeps
<1> HIDE DEF c2
<1>3. c3 \in Chan
  BY <1>2, SetEnabledKeeps
<1> HIDE DEF c3
<1>4. c4 \in Chan
  BY <1>3, ResetKeeps
<1> HIDE DEF c4
<1>5. SetEnabled(c4, TRUE) \in Chan
  BY <1>4, SetEnabledKeeps
<1>. QED
  BY <1>5 DEF Plugged, c1, c2, c3, c4

\* The FIFOs: filled, emptied and given to.
LEMMA FifoKeeps ==
  ASSUME NEW c \in Chan, NEW s \in Seq(Bytes)
  PROVE  /\ [c EXCEPT !.tx = s] \in Chan /\ [c EXCEPT !.rx = s] \in Chan
         /\ [c EXCEPT !.rx = s].enabled = c.enabled /\ [c EXCEPT !.tx = s].enabled = c.enabled
         /\ [c EXCEPT !.rx = s].seen = c.seen /\ [c EXCEPT !.tx = s].seen = c.seen
         /\ [c EXCEPT !.rx = s].cts = c.cts /\ [c EXCEPT !.tx = s].cts = c.cts
<1>1. [c EXCEPT !.tx = s] \in Chan /\ [c EXCEPT !.rx = s] \in Chan
  BY ZenonT(30) DEF Chan, ChannelOver
<1>. QED
  BY <1>1 DEF Chan, ChannelOver

\* A channel after a pump: drained, and given what was read.
LEMMA PumpedChan ==
  ASSUME NEW c \in Chan, NEW bytes \in Seq(Bytes)
  PROVE  /\ Drained(c) \in Chan /\ Given(Drained(c), bytes) \in Chan
         /\ c.tx \in Seq(Bytes) /\ c.rx \in Seq(Bytes)
<1>1. <<>> \in Seq(Bytes) /\ c.tx \in Seq(Bytes) /\ c.rx \in Seq(Bytes)
  BY EmptySeq DEF Chan, ChannelOver
<1>2. Drained(c) \in Chan
  BY <1>1, FifoKeeps DEF Drained
<1>3. Drained(c).rx \in Seq(Bytes)
  BY <1>2 DEF Chan, ChannelOver
<1> DEFINE d == Drained(c)
<1>4. d \in Chan /\ d.rx \in Seq(Bytes)
  BY <1>2, <1>3
<1> HIDE DEF d
<1>5. d.rx \o bytes \in Seq(Bytes)
  BY <1>4, ConcatProperties
<1>6. Given(d, bytes) \in Chan
  BY <1>4, <1>5, FifoKeeps DEF Given
<1>. QED
  BY <1>1, <1>2, <1>6 DEF d

(***************************************************************************)
(* The kernels                                                             *)
(***************************************************************************)
Sockets == {"none", "listening", "connecting", "refused", "ready", "open"}

NetType ==
  [sock : [End -> Sockets], wire : [End -> Seq(Bytes)],
   hears : [End -> {"nothing", "fin", "reset"}]]

\* Nothing is heard of a peer that is there, and only by an end that is.
GoodNet(n) ==
  /\ n \in NetType
  /\ \A e \in End : Len(n.wire[e]) <= Kernel
  /\ \A e \in End : n.hears[e] # "nothing" => Up(n, e) /\ ~Up(n, Peer(e))

LEMMA PeerEnd ==
  ASSUME NEW e \in End
  PROVE  Peer(e) \in End /\ Peer(e) # e /\ Peer(Peer(e)) = e /\ End = {e, Peer(e)}
BY TwoEnds DEF End, Peer

LEMMA KernelType == Kernel \in Nat /\ Kernel > 1
<1>1. Kernel \in Nat \ {0, 1}
  BY CableAssumption
<1>. QED
  BY <1>1

\* The record that a hang-up makes of the kernels.
LEMMA GoneNet ==
  ASSUME NEW n \in NetType, NEW e, NEW p
  PROVE  [n EXCEPT !.sock[e] = "none", !.wire[p] = <<>>, !.hears[e] = "nothing"] =
         [sock |-> [n.sock EXCEPT ![e] = "none"], wire |-> [n.wire EXCEPT ![p] = <<>>],
          hears |-> [n.hears EXCEPT ![e] = "nothing"]]
<1> DEFINE s == n.sock
           w == n.wire
           h == n.hears
           gone == [n EXCEPT !.sock[e] = "none", !.wire[p] = <<>>, !.hears[e] = "nothing"]
<1>1. n = [sock |-> s, wire |-> w, hears |-> h]
  BY Zenon DEF NetType
<1>a. gone = [n EXCEPT !.sock[e] = "none", !.wire[p] = <<>>, !.hears[e] = "nothing"]
  OBVIOUS
<1> HIDE DEF s, w, h, gone
<1>2. gone = [sock |-> [s EXCEPT ![e] = "none"], wire |-> [w EXCEPT ![p] = <<>>],
              hears |-> [h EXCEPT ![e] = "nothing"]]
  BY <1>1, <1>a
<1>. QED
  BY <1>2 DEF s, w, h, gone

LEMMA HungKeeps ==
  ASSUME NEW n, GoodNet(n), NEW e \in End, NEW m \in Hung(n, e)
  PROVE  GoodNet(m) /\ m.sock = [n.sock EXCEPT ![e] = "none"]
<1> DEFINE p == Peer(e)
           s == [n.sock EXCEPT ![e] = "none"]
           w == [n.wire EXCEPT ![p] = <<>>]
           h == [n.hears EXCEPT ![e] = "nothing"]
<1>1. /\ p \in End /\ p # e /\ Peer(p) = e /\ End = {e, p}
      /\ n.sock \in [End -> Sockets] /\ n.wire \in [End -> Seq(Bytes)]
      /\ n.hears \in [End -> {"nothing", "fin", "reset"}]
      /\ <<>> \in Seq(Bytes) /\ Len(<<>>) = 0 /\ Kernel \in Nat
  BY PeerEnd, EmptySeq, KernelType DEF GoodNet, NetType
<1>2. \E x \in {n.wire[e], <<>>}, k \in {"nothing", "fin", "reset"} :
         /\ m = [sock |-> s, wire |-> [w EXCEPT ![e] = x], hears |-> [h EXCEPT ![p] = k]]
         /\ k = n.hears[p] \/ (Up(n, e) /\ Up(n, p))
  <2> DEFINE gone == [n EXCEPT !.sock[e] = "none", !.wire[p] = <<>>, !.hears[e] = "nothing"]
  <2>1. gone = [sock |-> s, wire |-> w, hears |-> h]
    BY GoneNet DEF GoodNet
  <2>2. \/ m = [gone EXCEPT !.wire[e] = <<>>]
        \/ m = [gone EXCEPT !.hears[p] = "fin"] /\ Up(n, e) /\ Up(n, p)
        \/ /\ \E x \in {n.wire[e], <<>>} : m = [gone EXCEPT !.hears[p] = "reset", !.wire[e] = x]
           /\ Up(n, e) /\ Up(n, p)
    <3>1. CASE ~Up(n, e) \/ ~Up(n, p)
      <4>1. Hung(n, e) = {[gone EXCEPT !.wire[e] = <<>>]}
        BY <3>1, Zenon DEF Hung
      <4>. QED
        BY <4>1
    <3>2. CASE Up(n, e) /\ Up(n, p)
      <4> DEFINE fin == IF n.wire[p] = <<>> THEN {[gone EXCEPT !.hears[p] = "fin"]} ELSE {}
                 reset == {[gone EXCEPT !.hears[p] = "reset", !.wire[e] = x] : x \in Flushed(n.wire[e])}
      <4>1. m \in fin \cup reset
        BY <3>2, Zenon DEF Hung
      <4>2. m \in fin => m = [gone EXCEPT !.hears[p] = "fin"]
        OBVIOUS
      <4>3. m \in reset => \E x \in {n.wire[e], <<>>} : m = [gone EXCEPT !.hears[p] = "reset", !.wire[e] = x]
        BY DEF Flushed
      <4>. QED
        BY <3>2, <4>1, <4>2, <4>3
    <3>. QED
      BY <3>1, <3>2
  <2>3. w[e] = n.wire[e] /\ [w EXCEPT ![e] = w[e]] = w /\ h[p] = n.hears[p] /\ [h EXCEPT ![p] = h[p]] = h
    BY <1>1
  <2> HIDE DEF gone, w, h, s
  <2>4. CASE m = [gone EXCEPT !.wire[e] = <<>>]
    <3>1. m = [sock |-> s, wire |-> [w EXCEPT ![e] = <<>>], hears |-> [h EXCEPT ![p] = h[p]]]
      BY <2>1, <2>3, <2>4
    <3>. QED
      BY <1>1, <2>3, <3>1
  <2>5. CASE m = [gone EXCEPT !.hears[p] = "fin"] /\ Up(n, e) /\ Up(n, p)
    <3>1. m = [sock |-> s, wire |-> [w EXCEPT ![e] = w[e]], hears |-> [h EXCEPT ![p] = "fin"]]
      BY <2>1, <2>3, <2>5
    <3>. QED
      BY <1>1, <2>3, <2>5, <3>1
  <2>6. CASE /\ \E x \in {n.wire[e], <<>>} : m = [gone EXCEPT !.hears[p] = "reset", !.wire[e] = x]
             /\ Up(n, e) /\ Up(n, p)
    <3>1. PICK x \in {n.wire[e], <<>>} : m = [gone EXCEPT !.hears[p] = "reset", !.wire[e] = x]
      BY <2>6
    <3>2. m = [sock |-> s, wire |-> [w EXCEPT ![e] = x], hears |-> [h EXCEPT ![p] = "reset"]]
      BY <2>1, <3>1
    <3>. QED
      BY <2>6, <3>2
  <2>. QED
    BY <2>2, <2>4, <2>5, <2>6
<1>3. PICK x \in {n.wire[e], <<>>}, k \in {"nothing", "fin", "reset"} :
         /\ m = [sock |-> s, wire |-> [w EXCEPT ![e] = x], hears |-> [h EXCEPT ![p] = k]]
         /\ k = n.hears[p] \/ (Up(n, e) /\ Up(n, p))
  BY <1>2
<1>4. m \in NetType
  BY <1>1, <1>3 DEF NetType, Sockets
<1>5. ASSUME NEW y \in End PROVE Len(m.wire[y]) <= Kernel
  BY <1>1, <1>3 DEF GoodNet
<1>6. ASSUME NEW y \in End, m.hears[y] # "nothing" PROVE Up(m, y) /\ ~Up(m, Peer(y))
  <2>1. y = p
    BY <1>1, <1>3, <1>6
  <2>2. m.sock[e] = "none" /\ m.sock[p] = n.sock[p] /\ m.hears[p] = k
    BY <1>1, <1>3
  <2>3. ~Up(m, e)
    BY <2>2 DEF Up
  <2>4. Up(n, p)
    BY <1>1, <1>3, <1>6, <2>1, <2>2 DEF GoodNet
  <2>. QED
    BY <1>1, <2>1, <2>2, <2>3, <2>4 DEF Up
<1>. QED
  BY <1>3, <1>4, <1>5, <1>6 DEF GoodNet

\* What an end sends and reads in one pump.
LEMMA MovedKeeps ==
  ASSUME GoodNet(net), NEW e \in End, NEW n, NEW m,
         net.wire[e] \o Upto(Outgoing(e), n) \in Seq(Bytes),
         Len(net.wire[e] \o Upto(Outgoing(e), n)) <= Kernel,
         From(net.wire[Peer(e)], m) \in Seq(Bytes), Len(From(net.wire[Peer(e)], m)) <= Kernel
  PROVE  /\ GoodNet(Moved(e, n, m))
         /\ Moved(e, n, m).sock = net.sock /\ Moved(e, n, m).hears = net.hears
         /\ Moved(e, n, m).wire[e] = net.wire[e] \o Upto(Outgoing(e), n)
         /\ Moved(e, n, m).wire[Peer(e)] = From(net.wire[Peer(e)], m)
<1> DEFINE p == Peer(e)
           w == net.wire
           k == net.sock
           h == net.hears
           u == Upto(Outgoing(e), n)
           s == w[e] \o u
           t == From(w[p], m)
           f == [w EXCEPT ![e] = s, ![p] = t]
           d == Moved(e, n, m)
<1>1. /\ net = [sock |-> k, wire |-> w, hears |-> h]
      /\ w \in [End -> Seq(Bytes)] /\ k \in [End -> Sockets]
      /\ h \in [End -> {"nothing", "fin", "reset"}]
  BY Zenon DEF GoodNet, NetType
<1>2. p \in End /\ p # e /\ End = {e, p}
  BY PeerEnd
<1>3. s \in Seq(Bytes) /\ t \in Seq(Bytes) /\ Len(s) <= Kernel /\ Len(t) <= Kernel
  OBVIOUS
<1>s. s = w[e] \o u /\ t = From(w[p], m)
  OBVIOUS
<1>4. d = [net EXCEPT !.wire[e] = @ \o u, !.wire[p] = From(@, m)]
  BY DEF Moved
<1> HIDE DEF p, w, k, h, u, d, s, t
<1>5. d = [sock |-> k, wire |-> f, hears |-> h]
  BY <1>1, <1>2, <1>s, <1>4
<1>6. f \in [End -> Seq(Bytes)] /\ f[e] = s /\ f[p] = t
  BY <1>1, <1>2, <1>3
<1> HIDE DEF f
<1>7. d \in NetType
  BY <1>1, <1>5, <1>6 DEF NetType
<1>8. \A y \in End : Len(d.wire[y]) <= Kernel
  BY <1>2, <1>3, <1>5, <1>6
<1>9. \A y \in End : d.hears[y] # "nothing" => Up(d, y) /\ ~Up(d, Peer(y))
  BY <1>5 DEF GoodNet, Up, k, h
<1>. QED
  BY <1>5, <1>6, <1>7, <1>8, <1>9 DEF GoodNet, p, k, h, d, s, t, w, u

\* Another socket, the same bytes.
LEMMA SockKeeps ==
  ASSUME GoodNet(net), NEW e \in End, NEW s \in Sockets, Up(net, e) <=> s \in {"ready", "open"}
  PROVE  /\ GoodNet([net EXCEPT !.sock[e] = s])
         /\ [net EXCEPT !.sock[e] = s].sock = [net.sock EXCEPT ![e] = s]
         /\ [net EXCEPT !.sock[e] = s].wire = net.wire
         /\ [net EXCEPT !.sock[e] = s].hears = net.hears
<1> DEFINE m == [net EXCEPT !.sock[e] = s]
<1>1. m.sock = [net.sock EXCEPT ![e] = s] /\ m.wire = net.wire /\ m.hears = net.hears
  BY DEF GoodNet, NetType
<1>2. m \in NetType
  <2> DEFINE w == [net.sock EXCEPT ![e] = s]
  <2>1. w \in [End -> Sockets] /\ m = [net EXCEPT !.sock = w] /\ net \in NetType
    BY DEF GoodNet, NetType
  <2> HIDE DEF w, m
  <2>. QED
    BY <2>1, ZenonT(30) DEF NetType
<1> HIDE DEF m
<1>3. ASSUME NEW y \in End PROVE Up(m, y) <=> Up(net, y)
  <2>1. CASE y = e
    BY <1>1, <2>1 DEF Up, GoodNet, NetType
  <2>2. CASE y # e
    BY <1>1, <2>2 DEF Up, GoodNet, NetType
  <2>. QED
    BY <2>1, <2>2
<1>4. GoodNet(m)
  BY <1>1, <1>2, <1>3, PeerEnd DEF GoodNet
<1>. QED
  BY <1>1, <1>4 DEF m

\* The line does not say that there is a peer.
Quiet(c) == ~c.seen \/ c.cts = High

(***************************************************************************)
(* Types                                                                   *)
(***************************************************************************)
SocksOf(s) ==
  CASE s = "waiting" -> {"listening", "connecting", "refused", "ready"}
    [] s = "connected" -> {"open"}
    [] OTHER -> {"none"}

PlayerTyped ==
  /\ kind \in Kinds /\ odd \in [End -> BOOLEAN]
  /\ option \in [End -> {"off", "host", "join"}] /\ told \in [End -> BOOLEAN]
  /\ starts \in [End -> 0 .. MaxStarts]

LinkTyped ==
  /\ state \in [End -> {"idle", "waiting", "connected", "lost"}]
  /\ declared \in [End -> BOOLEAN] /\ pumps \in [End -> 0 .. SniffPumps + 1]
  /\ why \in [End -> {"nothing", "sending", "fin", "reset", "mirror"}]
  /\ out \in [End -> Seq(Bytes)] /\ held \in [End -> Seq(Bytes)]

ConsoleTyped ==
  /\ chan \in [End -> Chan]
  /\ wrote \in [End -> Nat] /\ \A e \in End : wrote[e] <= MaxBytes[e]

HistoryTyped == taken \in [End -> Seq(Bytes)] /\ got \in [End -> Seq(Bytes)]

NetTyped == GoodNet(net) /\ \A e \in End : net.sock[e] \in SocksOf(state[e])

Typed == PlayerTyped /\ LinkTyped /\ ConsoleTyped /\ HistoryTyped /\ NetTyped

LEMMA BoundsType ==
  /\ MaxStarts \in Nat /\ SniffPumps \in Nat
  /\ \A e \in End : MaxBytes[e] \in Nat
  /\ \A k \in Kinds : k \in [End -> {"shell", "retro", "mirror"}]
<1>1. MaxStarts \in {SniffPumps, MaxStarts} /\ SniffPumps \in {SniffPumps, MaxStarts}
  OBVIOUS
<1>. QED
  BY <1>1, CableAssumption

LEMMA InitTyped == Init => Typed
<1> SUFFICES ASSUME Init PROVE Typed
  OBVIOUS
<1>0. <<>> \in Seq(Bytes) /\ Len(<<>>) = 0 /\ 0 \in 0 .. MaxStarts /\ 0 \in 0 .. SniffPumps + 1
  BY EmptySeq, BoundsType
<1>1. PlayerTyped
  BY <1>0 DEF Init, PlayerTyped
<1>2. LinkTyped
  BY <1>0 DEF Init, LinkTyped
<1>3. ConsoleTyped
  BY BoundsType, PlainChan DEF Init, ConsoleTyped
<1>4. HistoryTyped
  BY <1>0 DEF Init, HistoryTyped
<1>5. NetTyped
  <2>1. /\ net.sock = [e \in End |-> "none"] /\ net.wire = [e \in End |-> <<>>]
        /\ net.hears = [e \in End |-> "nothing"]
    BY DEF Init
  <2>2. net \in NetType
    BY <1>0 DEF Init, NetType, Sockets
  <2>3. \A e \in End : state[e] = "idle"
    BY DEF Init
  <2>. QED
    BY <1>0, <2>1, <2>2, <2>3, KernelType DEF NetTyped, GoodNet, SocksOf
<1>. QED
  BY <1>1, <1>2, <1>3, <1>4, <1>5 DEF Typed

\* An end that hangs up, and is idle or lost then.
LEMMA HungTyped ==
  ASSUME Typed, NEW e \in End, NEW n, GoodNet(n), n.sock = net.sock, net' \in Hung(n, e),
         NEW s \in {"idle", "lost"}, state' = [state EXCEPT ![e] = s]
  PROVE  /\ NetTyped' /\ state' \in [End -> {"idle", "waiting", "connected", "lost"}]
         /\ net'.sock[e] = "none"
<1>1. GoodNet(net') /\ net'.sock = [net.sock EXCEPT ![e] = "none"]
  BY HungKeeps
<1>2. net.sock \in [End -> Sockets]
  BY DEF Typed, NetTyped, GoodNet, NetType
<1>3. ASSUME NEW y \in End PROVE net'.sock[y] \in SocksOf(state'[y])
  <2>1. CASE y = e
    BY <1>1, <1>2, <2>1 DEF SocksOf, Typed, LinkTyped
  <2>2. CASE y # e
    BY <1>1, <1>2, <2>2 DEF Typed, LinkTyped, NetTyped
  <2>. QED
    BY <2>1, <2>2
<1>. QED
  BY <1>1, <1>2, <1>3 DEF NetTyped, Typed, LinkTyped

\* An end whose socket and state change together.
LEMMA SockTyped ==
  ASSUME Typed, NEW e \in End, NEW s \in Sockets, NEW t \in {"idle", "waiting", "connected", "lost"},
         net' = [net EXCEPT !.sock[e] = s], state' = [state EXCEPT ![e] = t],
         Up(net, e) <=> s \in {"ready", "open"}, s \in SocksOf(t)
  PROVE  /\ NetTyped' /\ state' \in [End -> {"idle", "waiting", "connected", "lost"}]
         /\ net'.sock = [net.sock EXCEPT ![e] = s]
         /\ net'.wire = net.wire /\ net'.hears = net.hears
<1>1. /\ GoodNet(net') /\ net'.sock = [net.sock EXCEPT ![e] = s]
      /\ net'.wire = net.wire /\ net'.hears = net.hears
  <2>1. GoodNet(net)
    BY DEF Typed, NetTyped
  <2>. QED
    BY <2>1, SockKeeps, Zenon
<1>2. net.sock \in [End -> Sockets]
  BY DEF Typed, NetTyped, GoodNet, NetType
<1>3. ASSUME NEW y \in End PROVE net'.sock[y] \in SocksOf(state'[y])
  <2>1. CASE y = e
    BY <1>1, <1>2, <2>1 DEF Typed, LinkTyped
  <2>2. CASE y # e
    BY <1>1, <1>2, <2>2 DEF Typed, LinkTyped, NetTyped
  <2>. QED
    BY <2>1, <2>2
<1>. QED
  BY <1>1, <1>3 DEF NetTyped, Typed, LinkTyped

LEMMA LoseTyped ==
  ASSUME Typed, NEW e \in End, NEW c \in Chan, NEW n, GoodNet(n), n.sock = net.sock,
         NEW r \in {"sending", "fin", "reset", "mirror"}, Lose(e, c, n, r)
  PROVE  /\ NetTyped' /\ state' \in [End -> {"idle", "waiting", "connected", "lost"}]
         /\ declared' \in [End -> BOOLEAN] /\ chan' \in [End -> Chan]
         /\ why' \in [End -> {"nothing", "sending", "fin", "reset", "mirror"}]
         /\ why' = [why EXCEPT ![e] = r]
         /\ net'.sock[e] = "none" /\ state'[e] # "connected"
         /\ (kind[e] = "retro") = (state'[e] = "lost")
         /\ \A y \in End : y # e => state'[y] = state[y] /\ chan'[y] = chan[y]
         /\ kind[e] = "retro" => Quiet(chan'[e])
         /\ kind[e] # "retro" => ~chan'[e].enabled
<1> DEFINE d == DropPeer(e, c)
<1>1. d \in Chan /\ d.cts = High
  BY SetCtsKeeps DEF DropPeer
<1> HIDE DEF d
<1>2. SetEnabled(d, FALSE) \in Chan /\ SetEnabled(d, FALSE).enabled = FALSE
  BY <1>1, SetEnabledKeeps
<1>3. chan \in [End -> Chan] /\ state \in [End -> {"idle", "waiting", "connected", "lost"}]
      /\ declared \in [End -> BOOLEAN] /\ why \in [End -> {"nothing", "sending", "fin", "reset", "mirror"}]
  BY DEF Typed, ConsoleTyped, LinkTyped
<1>4. net' \in Hung(n, e) /\ why' = [why EXCEPT ![e] = r]
  BY DEF Lose
<1>5. CASE kind[e] = "retro"
  <2>1. /\ state' = [state EXCEPT ![e] = "lost"] /\ declared' = [declared EXCEPT ![e] = FALSE]
        /\ chan' = [chan EXCEPT ![e] = d]
    BY <1>5 DEF Lose, d
  <2>2. NetTyped' /\ net'.sock[e] = "none"
    BY <1>4, <2>1, HungTyped
  <2>. QED
    BY <1>1, <1>3, <1>4, <1>5, <2>1, <2>2 DEF Quiet
<1>6. CASE kind[e] # "retro"
  <2>1. /\ state' = [state EXCEPT ![e] = "idle"] /\ declared' = declared
        /\ chan' = [chan EXCEPT ![e] = SetEnabled(d, FALSE)]
    BY <1>6 DEF Lose, d
  <2>2. NetTyped' /\ net'.sock[e] = "none"
    BY <1>4, <2>1, HungTyped
  <2>. QED
    BY <1>2, <1>3, <1>4, <1>6, <2>1, <2>2
<1>. QED
  BY <1>5, <1>6

LEMMA OutgoingType ==
  ASSUME Typed, NEW e \in End
  PROVE  /\ out[e] \in Seq(Bytes) /\ chan[e] \in Chan /\ chan[e].tx \in Seq(Bytes)
         /\ Outgoing(e) = out[e] \o chan[e].tx /\ Outgoing(e) \in Seq(Bytes)
         /\ Len(Outgoing(e)) \in Nat
         /\ net.wire[e] \in Seq(Bytes) /\ Len(net.wire[e]) \in Nat /\ Len(net.wire[e]) <= Kernel
<1>1. /\ out[e] \in Seq(Bytes) /\ chan[e] \in Chan /\ net.wire[e] \in Seq(Bytes)
      /\ Len(net.wire[e]) <= Kernel
  BY DEF Typed, LinkTyped, ConsoleTyped, NetTyped, GoodNet, NetType
<1>2. chan[e].tx \in Seq(Bytes)
  BY <1>1 DEF Chan, ChannelOver
<1>3. out[e] \o chan[e].tx \in Seq(Bytes)
  BY <1>1, <1>2, JoinedType, Zenon
<1>4. Outgoing(e) = out[e] \o chan[e].tx
  BY DEF Outgoing
<1>. QED
  BY <1>1, <1>2, <1>3, <1>4, LenProperties

\* The sending half and the reading half of a pump: the kernels, the book of what was taken.
LEMMA SendsTyped ==
  ASSUME Typed, NEW e \in End, NEW n \in 0 .. Len(Outgoing(e)), NEW m \in 0 .. Len(net.wire[Peer(e)]),
         Sends(e, n)
  PROVE  /\ GoodNet(Moved(e, n, m)) /\ Moved(e, n, m).sock = net.sock
         /\ Moved(e, n, m).hears = net.hears
         /\ Moved(e, n, m).wire[e] = net.wire[e] \o Upto(Outgoing(e), n)
         /\ Moved(e, n, m).wire[Peer(e)] = From(net.wire[Peer(e)], m)
         /\ PlayerTyped' /\ wrote' = wrote
         /\ out' = [out EXCEPT ![e] = Rest(Outgoing(e), n)] /\ out' \in [End -> Seq(Bytes)]
         /\ taken' = [taken EXCEPT ![e] = @ \o chan[e].tx] /\ taken' \in [End -> Seq(Bytes)]
         /\ Upto(net.wire[Peer(e)], m) \in Seq(Bytes)
<1> DEFINE s == net.wire[e] \o Upto(Outgoing(e), n)
           t == From(net.wire[Peer(e)], m)
<1>0. Peer(e) \in End
  BY PeerEnd
<1>1. /\ Upto(Outgoing(e), n) \in Seq(Bytes) /\ Len(Upto(Outgoing(e), n)) = n
      /\ Rest(Outgoing(e), n) \in Seq(Bytes)
  BY OutgoingType, SplitAt DEF Rest
<1>2. /\ Upto(net.wire[Peer(e)], m) \in Seq(Bytes) /\ t \in Seq(Bytes)
      /\ Len(t) = Len(net.wire[Peer(e)]) - m
  BY <1>0, OutgoingType, SplitAt
<1>3. Len(t) <= Kernel
  <2>1. Len(net.wire[Peer(e)]) \in Nat /\ Len(net.wire[Peer(e)]) <= Kernel
    BY <1>0, OutgoingType
  <2> HIDE DEF t
  <2>. QED
    BY <1>2, <2>1, KernelType
<1>4. n \in Accepts(e) /\ UNCHANGED <<programs, player, wrote>>
      /\ out' = [out EXCEPT ![e] = Rest(Outgoing(e), n)] /\ taken' = [taken EXCEPT ![e] = @ \o chan[e].tx]
  BY DEF Sends, Drains
<1>5. n <= Kernel - Len(net.wire[e])
  BY <1>4, OutgoingType, KernelType DEF Accepts, Least, Room
<1>6. s \in Seq(Bytes) /\ Len(s) <= Kernel
  <2>0. net.wire[e] \in Seq(Bytes)
    BY OutgoingType
  <2> DEFINE u == Upto(Outgoing(e), n)
             w == net.wire[e]
  <2>u. u \in Seq(Bytes) /\ Len(u) = n /\ w \in Seq(Bytes)
    BY <1>1, <2>0
  <2> HIDE DEF u, w
  <2>c. w \o u \in Seq(Bytes) /\ Len(w \o u) = Len(w) + n
    BY <2>u, ConcatProperties
  <2>1. s \in Seq(Bytes) /\ Len(s) = Len(net.wire[e]) + n
    BY <2>c DEF u, w
  <2> HIDE DEF s
  <2>. QED
    BY <1>5, <2>1, OutgoingType, KernelType
<1>8. /\ GoodNet(Moved(e, n, m)) /\ Moved(e, n, m).sock = net.sock
      /\ Moved(e, n, m).hears = net.hears
      /\ Moved(e, n, m).wire[e] = s /\ Moved(e, n, m).wire[Peer(e)] = t
  <2>1. GoodNet(net)
    BY DEF Typed, NetTyped
  <2>2. GoodNet(Moved(e, n, m))
    BY <1>2, <1>3, <1>6, <2>1, MovedKeeps
  <2>5. /\ Moved(e, n, m).sock = net.sock /\ Moved(e, n, m).hears = net.hears
        /\ Moved(e, n, m).wire = [net.wire EXCEPT ![e] = s, ![Peer(e)] = t]
    <3>1. Peer(e) # e /\ net \in NetType /\ Peer(e) \in End
      BY <2>1, PeerEnd DEF GoodNet
    <3>. QED
      BY <3>1 DEF Moved, NetType
  <2>6. Peer(e) \in End /\ Peer(e) # e /\ DOMAIN net.wire = End
    BY <2>1, PeerEnd DEF GoodNet, NetType
  <2> HIDE DEF s, t
  <2>. QED
    BY <2>2, <2>5, <2>6
<1>9. out' \in [End -> Seq(Bytes)]
  BY <1>1, <1>4 DEF Typed, LinkTyped
<1>10. taken' \in [End -> Seq(Bytes)]
  <2>1. taken[e] \o chan[e].tx \in Seq(Bytes)
    BY OutgoingType, JoinedType, Zenon DEF Typed, HistoryTyped
  <2>. QED
    BY <1>4, <2>1 DEF Typed, HistoryTyped
<1>11. PlayerTyped'
  BY <1>4 DEF Typed, PlayerTyped, programs, player
<1>. QED
  BY <1>2, <1>4, <1>8, <1>9, <1>10, <1>11 DEF s, t

LEMMA EndsMeans ==
  ASSUME NEW e, NEW m, NEW end \in Ends(e, m)
  PROVE  /\ end \in BOOLEAN
         /\ end => net.hears[e] \in {"fin", "reset"}
         /\ end /\ net.hears[e] = "fin" => m = Len(net.wire[Peer(e)])
<1>1. CASE net.hears[e] = "reset"
  BY <1>1 DEF Ends
<1>2. CASE net.hears[e] = "fin" /\ m = Len(net.wire[Peer(e)])
  BY <1>2 DEF Ends
<1>3. CASE net.hears[e] # "reset" /\ ~(net.hears[e] = "fin" /\ m = Len(net.wire[Peer(e)]))
  <2>1. Ends(e, m) = {FALSE}
    BY <1>3 DEF Ends
  <2>. QED
    BY <2>1
<1>. QED
  BY <1>1, <1>2, <1>3

\* What the ends of a pump are called below: the peer is gone, for a reason, or it stays.
Cut(e, r) ==
  /\ net'.sock[e] = "none" /\ state'[e] # "connected" /\ why' = [why EXCEPT ![e] = r]
  /\ kind[e] = "retro" => state'[e] = "lost" /\ Quiet(chan'[e])
  /\ kind[e] # "retro" => state'[e] = "idle" /\ ~chan'[e].enabled

Kept(e, n, m) ==
  net' = Moved(e, n, m) /\ state' = state /\ why' = why

OthersKept(e) == \A y \in End : y # e => state'[y] = state[y] /\ chan'[y] = chan[y]

LEMMA RetroPumped ==
  ASSUME Typed, NEW e \in End, RetroPump(e)
  PROVE  /\ Typed' /\ OthersKept(e)
         /\ kind[e] = "retro" /\ state[e] = "connected" /\ kind' = kind
         /\ held' = held /\ pumps' = pumps /\ UNCHANGED player
         /\ \E n \in 0 .. Len(Outgoing(e)), m \in 0 .. Len(net.wire[Peer(e)]) :
              /\ Sends(e, n)
              /\ got' = [got EXCEPT ![e] = @ \o Upto(net.wire[Peer(e)], m)]
              /\ \/ Kept(e, n, m)
                 \/ /\ Cut(e, net.hears[e])
                    /\ net.hears[e] = "fin" => m = Len(net.wire[Peer(e)])
<1> DEFINE p == Peer(e)
<1>0. PICK n \in 0 .. Len(Outgoing(e)), m \in 0 .. Len(net.wire[p]) : \E end \in Ends(e, m) :
        LET read == Upto(net.wire[p], m)
            c == Given(Drained(Declared(e, chan[e])), read)
        IN  /\ Sends(e, n) /\ Gives(e, read)
            /\ IF end THEN Lose(e, c, Moved(e, n, m), net.hears[e])
               ELSE /\ net' = Moved(e, n, m) /\ chan' = [chan EXCEPT ![e] = c]
                    /\ declared' = [declared EXCEPT ![e] = TRUE] /\ UNCHANGED <<state, why>>
  BY DEF RetroPump
<1>1. PICK end \in Ends(e, m) :
        LET read == Upto(net.wire[p], m)
            c == Given(Drained(Declared(e, chan[e])), read)
        IN  /\ Sends(e, n) /\ Gives(e, read)
            /\ IF end THEN Lose(e, c, Moved(e, n, m), net.hears[e])
               ELSE /\ net' = Moved(e, n, m) /\ chan' = [chan EXCEPT ![e] = c]
                    /\ declared' = [declared EXCEPT ![e] = TRUE] /\ UNCHANGED <<state, why>>
  BY <1>0
<1> DEFINE read == Upto(net.wire[p], m)
           c == Given(Drained(Declared(e, chan[e])), read)
<1>2. /\ Sends(e, n) /\ got' = [got EXCEPT ![e] = @ \o read]
      /\ end => Lose(e, c, Moved(e, n, m), net.hears[e])
      /\ ~end => /\ net' = Moved(e, n, m) /\ chan' = [chan EXCEPT ![e] = c]
                 /\ declared' = [declared EXCEPT ![e] = TRUE] /\ state' = state /\ why' = why
  BY <1>1 DEF Gives
<1>3. kind[e] = "retro" /\ held' = held /\ pumps' = pumps
  BY DEF RetroPump
<1>4. state[e] = "connected" /\ kind' = kind /\ UNCHANGED player
  BY <1>2 DEF Sends, Pumps, programs
<1>5. /\ GoodNet(Moved(e, n, m)) /\ Moved(e, n, m).sock = net.sock
      /\ PlayerTyped' /\ wrote' = wrote
      /\ out' \in [End -> Seq(Bytes)] /\ taken' \in [End -> Seq(Bytes)]
      /\ read \in Seq(Bytes)
  <2>0. Sends(e, n)
    BY <1>2
  <2>1. GoodNet(Moved(e, n, m)) /\ Moved(e, n, m).sock = net.sock
    <3>1. GoodNet(Moved(e, n, m))
      BY <2>0, SendsTyped
    <3>2. Moved(e, n, m).sock = net.sock
      BY DEF Moved, Typed, NetTyped, GoodNet, NetType
    <3>. QED
      BY <3>1, <3>2
  <2>2. PlayerTyped' /\ wrote' = wrote
    BY <1>2, SendsTyped
  <2>3. out' \in [End -> Seq(Bytes)] /\ taken' \in [End -> Seq(Bytes)]
    BY <1>2, SendsTyped
  <2>4. Upto(net.wire[Peer(e)], m) \in Seq(Bytes)
    BY <1>2, SendsTyped
  <2>. QED
    BY <2>1, <2>2, <2>3, <2>4
<1> HIDE DEF read
<1>6. c \in Chan
  <2>1. Declared(e, chan[e]) \in Chan
    BY SetCtsKeeps DEF Declared, Typed, ConsoleTyped
  <2>. QED
    BY <1>5, <2>1, PumpedChan
<1> HIDE DEF c
<1>7. HistoryTyped'
  <2>1. got[e] \in Seq(Bytes)
    BY DEF Typed, HistoryTyped
  <2>2. got[e] \o read \in Seq(Bytes)
    BY <1>5, <2>1, JoinedType, Zenon
  <2>. QED
    BY <1>2, <1>5, <2>2 DEF Typed, HistoryTyped
<1>8. end \in BOOLEAN /\ (end => net.hears[e] \in {"fin", "reset"})
      /\ (end /\ net.hears[e] = "fin" => m = Len(net.wire[p]))
  BY EndsMeans
<1>9. CASE end
  <2>1. Lose(e, c, Moved(e, n, m), net.hears[e]) /\ net.hears[e] \in {"sending", "fin", "reset", "mirror"}
    BY <1>2, <1>8, <1>9
  <2>2. /\ NetTyped' /\ state' \in [End -> {"idle", "waiting", "connected", "lost"}]
        /\ declared' \in [End -> BOOLEAN] /\ chan' \in [End -> Chan]
        /\ why' \in [End -> {"nothing", "sending", "fin", "reset", "mirror"}]
    BY <1>5, <1>6, <2>1, LoseTyped
  <2>3. /\ why' = [why EXCEPT ![e] = net.hears[e]]
        /\ net'.sock[e] = "none" /\ state'[e] # "connected"
        /\ (kind[e] = "retro") = (state'[e] = "lost")
        /\ \A y \in End : y # e => state'[y] = state[y] /\ chan'[y] = chan[y]
        /\ kind[e] = "retro" => Quiet(chan'[e])
    BY <1>5, <1>6, <2>1, LoseTyped
  <2>4. Typed'
    BY <1>3, <1>5, <1>7, <2>2 DEF Typed, LinkTyped, ConsoleTyped
  <2>. QED
    BY <1>2, <1>3, <1>4, <1>8, <1>9, <2>3, <2>4 DEF Cut, OthersKept, read
<1>10. CASE ~end
  <2>1. /\ net' = Moved(e, n, m) /\ chan' = [chan EXCEPT ![e] = c]
        /\ declared' = [declared EXCEPT ![e] = TRUE] /\ state' = state /\ why' = why
    BY <1>2, <1>10
  <2>2. NetTyped'
    BY <1>5, <2>1 DEF Typed, NetTyped
  <2>3. Typed'
    BY <1>3, <1>5, <1>6, <1>7, <2>1, <2>2 DEF Typed, LinkTyped, ConsoleTyped
  <2>4. OthersKept(e)
    BY <2>1 DEF OthersKept, Typed, ConsoleTyped
  <2>. QED
    BY <1>2, <1>3, <1>4, <2>1, <2>3, <2>4 DEF Kept, read
<1>. QED
  BY <1>8, <1>9, <1>10

\* What a shell has to look at after reading m bytes, and what of it the console is given.
Seen(e, m) == held[e] \o Upto(net.wire[Peer(e)], m)
Fed(e, all) == IF Undecided(e, all) \/ IsHello(e, all) THEN <<>> ELSE all

LEMMA ShellPumped ==
  ASSUME Typed, NEW e \in End, ShellPump(e)
  PROVE  /\ Typed' /\ OthersKept(e)
         /\ kind[e] = "shell" /\ state[e] = "connected" /\ kind' = kind /\ UNCHANGED player
         /\ \A y \in End : y # e => held'[y] = held[y] /\ pumps'[y] = pumps[y]
         /\ Decided(e)' => held'[e] = <<>>
         /\ \E n \in 0 .. Len(Outgoing(e)), m \in 0 .. Len(net.wire[Peer(e)]) :
              /\ Sends(e, n)
              /\ got' = [got EXCEPT ![e] = @ \o Fed(e, Seen(e, m))]
              /\ held'[e] = IF Undecided(e, Seen(e, m)) THEN Seen(e, m) ELSE <<>>
              /\ \/ Kept(e, n, m) /\ ~IsHello(e, Seen(e, m))
                 \/ /\ Cut(e, net.hears[e])
                    /\ net.hears[e] = "fin" => m = Len(net.wire[Peer(e)])
                 \/ Cut(e, "mirror")
<1> DEFINE p == Peer(e)
<1>0. PICK n \in 0 .. Len(Outgoing(e)), m \in 0 .. Len(net.wire[p]) : \E end \in Ends(e, m) :
       LET all == held[e] \o Upto(net.wire[p], m)
           fed == IF Undecided(e, all) \/ IsHello(e, all) THEN <<>> ELSE all
           c == Given(Drained(chan[e]), fed)
       IN  /\ Sends(e, n) /\ Gives(e, fed)
           /\ held' = [held EXCEPT ![e] = IF Undecided(e, all) THEN all ELSE <<>>]
           /\ pumps' = [pumps EXCEPT ![e] =
                          IF all = <<>> \/ Decided(e) THEN @
                          ELSE IF Undecided(e, all) THEN Least(@ + 1, SniffPumps) ELSE SniffPumps + 1]
           /\ IF end THEN Lose(e, c, Moved(e, n, m), net.hears[e])
              ELSE IF IsHello(e, all) THEN Lose(e, c, Moved(e, n, m), "mirror")
              ELSE net' = Moved(e, n, m) /\ chan' = [chan EXCEPT ![e] = c]
                   /\ UNCHANGED <<state, why, declared>>
  BY DEF ShellPump
<1> DEFINE all == Seen(e, m)
           fed == Fed(e, all)
           c == Given(Drained(chan[e]), fed)
<1>1. PICK end \in Ends(e, m) :
       /\ Sends(e, n) /\ Gives(e, fed)
       /\ held' = [held EXCEPT ![e] = IF Undecided(e, all) THEN all ELSE <<>>]
       /\ pumps' = [pumps EXCEPT ![e] =
                      IF all = <<>> \/ Decided(e) THEN @
                      ELSE IF Undecided(e, all) THEN Least(@ + 1, SniffPumps) ELSE SniffPumps + 1]
       /\ IF end THEN Lose(e, c, Moved(e, n, m), net.hears[e])
          ELSE IF IsHello(e, all) THEN Lose(e, c, Moved(e, n, m), "mirror")
          ELSE net' = Moved(e, n, m) /\ chan' = [chan EXCEPT ![e] = c]
               /\ UNCHANGED <<state, why, declared>>
  BY <1>0 DEF Seen, Fed
<1>2. /\ Sends(e, n) /\ got' = [got EXCEPT ![e] = @ \o fed]
      /\ held' = [held EXCEPT ![e] = IF Undecided(e, all) THEN all ELSE <<>>]
      /\ pumps' = [pumps EXCEPT ![e] =
                      IF all = <<>> \/ Decided(e) THEN @
                      ELSE IF Undecided(e, all) THEN Least(@ + 1, SniffPumps) ELSE SniffPumps + 1]
  BY <1>1 DEF Gives
<1>3. /\ end => Lose(e, c, Moved(e, n, m), net.hears[e])
      /\ ~end /\ IsHello(e, all) => Lose(e, c, Moved(e, n, m), "mirror")
      /\ ~end /\ ~IsHello(e, all) =>
           /\ net' = Moved(e, n, m) /\ chan' = [chan EXCEPT ![e] = c]
           /\ declared' = declared /\ state' = state /\ why' = why
  BY <1>1
<1>4. kind[e] = "shell" /\ state[e] = "connected" /\ kind' = kind /\ UNCHANGED player
  BY <1>2 DEF ShellPump, Sends, Pumps, programs
<1>5. /\ GoodNet(Moved(e, n, m)) /\ Moved(e, n, m).sock = net.sock
      /\ PlayerTyped' /\ wrote' = wrote
      /\ out' \in [End -> Seq(Bytes)] /\ taken' \in [End -> Seq(Bytes)]
      /\ Upto(net.wire[p], m) \in Seq(Bytes)
  <2>0. Sends(e, n)
    BY <1>2
  <2>1. GoodNet(Moved(e, n, m))
    BY <2>0, SendsTyped
  <2>2. Moved(e, n, m).sock = net.sock
    BY DEF Moved, Typed, NetTyped, GoodNet, NetType
  <2>3. PlayerTyped' /\ wrote' = wrote
    BY <2>0, SendsTyped
  <2>4. out' \in [End -> Seq(Bytes)] /\ taken' \in [End -> Seq(Bytes)]
    BY <2>0, SendsTyped
  <2>5. Upto(net.wire[Peer(e)], m) \in Seq(Bytes)
    BY <2>0, SendsTyped
  <2>. QED
    BY <2>1, <2>2, <2>3, <2>4, <2>5
<1>6. all \in Seq(Bytes) /\ fed \in Seq(Bytes) /\ <<>> \in Seq(Bytes)
  <2>1. held[e] \in Seq(Bytes)
    BY DEF Typed, LinkTyped
  <2>2. all \in Seq(Bytes)
    BY <1>5, <2>1, JoinedType, Zenon DEF Seen
  <2>. QED
    BY <2>2, EmptySeq DEF Fed
<1> HIDE DEF all, fed
<1>7. c \in Chan
  BY <1>6, PumpedChan DEF Typed, ConsoleTyped
<1> HIDE DEF c
<1>8. HistoryTyped'
  <2>1. got[e] \o fed \in Seq(Bytes)
    BY <1>6, JoinedType, Zenon DEF Typed, HistoryTyped
  <2>. QED
    BY <1>2, <1>5, <2>1 DEF Typed, HistoryTyped
<1>9. held' \in [End -> Seq(Bytes)] /\ pumps' \in [End -> 0 .. SniffPumps + 1]
      /\ held'[e] = IF Undecided(e, all) THEN all ELSE <<>>
  BY <1>2, <1>6, BoundsType DEF Typed, LinkTyped, Least, Decided
<1>10. Decided(e)' => held'[e] = <<>>
  <2>1. ASSUME Undecided(e, all) PROVE ~Decided(e)'
    BY <1>2, <2>1, BoundsType DEF Undecided, Decided, Typed, LinkTyped, Least
  <2>. QED
    BY <1>9, <2>1
<1>11. \A y \in End : y # e => held'[y] = held[y] /\ pumps'[y] = pumps[y]
  BY <1>2 DEF Typed, LinkTyped
<1>12. end \in BOOLEAN /\ (end => net.hears[e] \in {"fin", "reset"})
       /\ (end /\ net.hears[e] = "fin" => m = Len(net.wire[p]))
  BY EndsMeans
<1>13. ASSUME NEW r \in {"fin", "reset", "mirror"}, Lose(e, c, Moved(e, n, m), r)
       PROVE  Typed' /\ OthersKept(e) /\ Cut(e, r)
  <2>1. /\ NetTyped' /\ state' \in [End -> {"idle", "waiting", "connected", "lost"}]
        /\ declared' \in [End -> BOOLEAN] /\ chan' \in [End -> Chan]
        /\ why' \in [End -> {"nothing", "sending", "fin", "reset", "mirror"}]
    BY <1>5, <1>7, <1>13, LoseTyped
  <2>2. /\ why' = [why EXCEPT ![e] = r]
        /\ net'.sock[e] = "none" /\ state'[e] # "connected"
        /\ kind[e] # "retro" => ~chan'[e].enabled
    BY <1>5, <1>7, <1>13, LoseTyped
  <2>3. \A y \in End : y # e => state'[y] = state[y] /\ chan'[y] = chan[y]
    BY <1>5, <1>7, <1>13, LoseTyped
  <2>4. state'[e] = "idle"
    BY <1>4, <1>13 DEF Lose, Typed, LinkTyped
  <2>5. Typed'
    BY <1>5, <1>8, <1>9, <2>1 DEF Typed, LinkTyped, ConsoleTyped
  <2>. QED
    BY <1>4, <2>2, <2>3, <2>4, <2>5 DEF Cut, OthersKept
<1>14. ASSUME net' = Moved(e, n, m), chan' = [chan EXCEPT ![e] = c],
              declared' = declared, state' = state, why' = why
       PROVE  Typed' /\ OthersKept(e) /\ Kept(e, n, m)
  <2>1. NetTyped'
    BY <1>5, <1>14 DEF Typed, NetTyped
  <2>2. Typed'
    BY <1>5, <1>7, <1>8, <1>9, <1>14, <2>1 DEF Typed, LinkTyped, ConsoleTyped
  <2>. QED
    BY <1>14, <2>2 DEF Kept, OthersKept, Typed, ConsoleTyped
<1>15. /\ Typed' /\ OthersKept(e)
       /\ \/ Kept(e, n, m) /\ ~IsHello(e, all)
          \/ /\ Cut(e, net.hears[e])
             /\ net.hears[e] = "fin" => m = Len(net.wire[p])
          \/ Cut(e, "mirror")
  <2>1. CASE end
    BY <1>3, <1>12, <1>13, <2>1
  <2>2. CASE ~end /\ IsHello(e, all)
    BY <1>3, <1>13, <2>2
  <2>3. CASE ~end /\ ~IsHello(e, all)
    BY <1>3, <1>14, <2>3
  <2>. QED
    BY <1>12, <2>1, <2>2, <2>3
<1>. QED
  BY <1>2, <1>4, <1>9, <1>10, <1>11, <1>15 DEF all, fed

LEMMA EstablishTyped ==
  ASSUME Typed, NEW e \in End, Establish(e)
  PROVE  Typed'
<1>1. /\ net'.sock = [x \in End |-> "ready"] /\ net'.wire = [x \in End |-> <<>>]
      /\ net'.hears = [x \in End |-> "nothing"]
      /\ net' = [sock |-> [x \in End |-> "ready"], wire |-> [x \in End |-> <<>>],
                 hears |-> [x \in End |-> "nothing"]]
  BY DEF Establish
<1>2. <<>> \in Seq(Bytes) /\ Len(<<>>) = 0
  BY EmptySeq
<1>3. \A y \in End : state[y] = "waiting"
  <2>1. net.sock[e] = "connecting" /\ net.sock[Peer(e)] = "listening" /\ End = {e, Peer(e)}
    BY PeerEnd DEF Establish
  <2>2. \A y \in End : net.sock[y] \in SocksOf(state[y])
    BY DEF Typed, NetTyped
  <2>. QED
    BY <2>1, <2>2 DEF SocksOf
<1>4. net' \in NetType
  BY <1>1, <1>2 DEF NetType, Sockets
<1>5. NetTyped'
  BY <1>1, <1>2, <1>3, <1>4, KernelType DEF NetTyped, GoodNet, SocksOf, Establish, link
<1>6. HistoryTyped'
  BY <1>2 DEF Establish, HistoryTyped
<1>7. PlayerTyped' /\ LinkTyped' /\ ConsoleTyped'
  BY DEF Establish, Typed, PlayerTyped, LinkTyped, ConsoleTyped, programs, player, link, console
<1>. QED
  BY <1>5, <1>6, <1>7 DEF Typed

LEMMA ResetsTyped ==
  ASSUME Typed, NEW e \in End, Resets(e)
  PROVE  Typed' /\ net'.sock = net.sock
<1> DEFINE p == Peer(e)
           w == net.wire
           k == net.sock
           h == [net.hears EXCEPT ![e] = "reset"]
<1>1. PICK x \in Flushed(w[p]) :
        net' = [net EXCEPT !.hears[e] = "reset", !.wire[e] = <<>>, !.wire[p] = x]
  BY DEF Resets
<1> DEFINE v == [w EXCEPT ![e] = <<>>, ![p] = x]
<1>2. /\ p \in End /\ p # e /\ Peer(p) = e /\ End = {e, p}
      /\ GoodNet(net) /\ net \in NetType /\ w \in [End -> Seq(Bytes)]
      /\ k \in [End -> Sockets] /\ h \in [End -> {"nothing", "fin", "reset"}]
      /\ <<>> \in Seq(Bytes) /\ Len(<<>>) = 0 /\ Kernel \in Nat
  BY PeerEnd, EmptySeq, KernelType DEF Typed, NetTyped, GoodNet, NetType
<1>3. net' = [sock |-> k, wire |-> v, hears |-> h]
  <2> DEFINE g == net.hears
  <2>1. net = [sock |-> k, wire |-> w, hears |-> g]
    BY <1>2, Zenon DEF NetType
  <2>2. h = [g EXCEPT ![e] = "reset"]
    OBVIOUS
  <2> HIDE DEF k, w, p, g, h
  <2>. QED
    BY <1>1, <2>1, <2>2
<1>4. x \in Seq(Bytes) /\ Len(x) <= Kernel
  <2>1. w[p] \in Seq(Bytes) /\ Len(w[p]) <= Kernel
    BY <1>2 DEF GoodNet
  <2>2. x = w[p] \/ x = <<>>
    BY DEF Flushed
  <2>3. <<>> \in Seq(Bytes) /\ Len(<<>>) <= Kernel
    BY <1>2
  <2>. QED
    BY <2>1, <2>2, <2>3, Zenon
<1>5. v \in [End -> Seq(Bytes)] /\ v[e] = <<>> /\ v[p] = x
  BY <1>2, <1>4
<1>6. h[e] = "reset" /\ h[p] = net.hears[p]
  BY <1>2 DEF NetType
<1> HIDE DEF v, h, k, w
<1>7. net' \in NetType
  BY <1>2, <1>3, <1>5 DEF NetType
<1>8. net'.sock = k /\ net'.wire = v /\ net'.hears = h
  BY <1>3
<1>9. Up(net, e) /\ ~Up(net, p) /\ (net.hears[p] # "nothing" => Up(net, p))
  BY <1>2 DEF Resets, GoodNet
<1>10. Up(net', e) /\ ~Up(net', p)
  BY <1>8, <1>9 DEF Up, k
<1>11. GoodNet(net')
  <2>1. \A y \in End : Len(net'.wire[y]) <= Kernel
    BY <1>2, <1>4, <1>5, <1>8
  <2>2. ASSUME NEW y \in End, net'.hears[y] # "nothing" PROVE Up(net', y) /\ ~Up(net', Peer(y))
    BY <1>2, <1>6, <1>8, <1>9, <1>10, <2>2
  <2>. QED
    BY <1>7, <2>1, <2>2 DEF GoodNet
<1>12. state' = state /\ net'.sock = net.sock
  BY <1>8 DEF Resets, link, k
<1>13. NetTyped'
  BY <1>11, <1>12 DEF NetTyped, Typed
<1>14. PlayerTyped' /\ LinkTyped' /\ ConsoleTyped' /\ HistoryTyped'
  BY DEF Resets, Typed, PlayerTyped, LinkTyped, ConsoleTyped, HistoryTyped, programs, player,
         link, console, history
<1>. QED
  BY <1>12, <1>13, <1>14 DEF Typed

\* The game's bytes leave the link alone.
LEMMA GameTyped ==
  ASSUME Typed, NEW e \in End, Transmit(e) \/ Receive(e)
  PROVE  Typed' /\ UNCHANGED <<programs, player, link, net, history>>
<1>1. /\ UNCHANGED <<programs, player, link, net, history>>
      /\ PlayerTyped' /\ LinkTyped' /\ HistoryTyped' /\ NetTyped'
  BY DEF Transmit, Receive, Typed, PlayerTyped, LinkTyped, HistoryTyped, NetTyped, programs,
         player, link, history
<1>2. chan[e] \in Chan /\ chan[e].tx \in Seq(Bytes) /\ chan[e].rx \in Seq(Bytes)
      /\ chan \in [End -> Chan] /\ wrote \in [End -> Nat] /\ MaxBytes[e] \in Nat
      /\ \A y \in End : wrote[y] <= MaxBytes[y]
  BY PumpedChan, EmptySeq, BoundsType DEF Typed, ConsoleTyped
<1>3. CASE Transmit(e)
  <2> DEFINE b == Byte(e, wrote[e] + 1)
  <2>1. b \in Bytes
    BY <1>2 DEF Byte, Bytes
  <2> HIDE DEF b
  <2>2. Append(chan[e].tx, b) \in Seq(Bytes)
    BY <1>2, <2>1, AppendProperties
  <2>3. [chan[e] EXCEPT !.tx = Append(chan[e].tx, b)] \in Chan
    BY <1>2, <2>2, FifoKeeps
  <2>4. chan' = [chan EXCEPT ![e] = [chan[e] EXCEPT !.tx = Append(chan[e].tx, b)]]
    BY <1>2, <1>3 DEF Transmit, b
  <2> DEFINE d == [chan[e] EXCEPT !.tx = Append(chan[e].tx, b)]
  <2>5. d \in Chan /\ chan' = [chan EXCEPT ![e] = d]
    BY <2>3, <2>4
  <2> HIDE DEF d
  <2>6. wrote' = [wrote EXCEPT ![e] = @ + 1] /\ wrote[e] < MaxBytes[e]
    BY <1>3 DEF Transmit
  <2>7. ConsoleTyped'
    BY <1>2, <2>5, <2>6 DEF ConsoleTyped
  <2>. QED
    BY <1>1, <2>7 DEF Typed
<1>4. CASE Receive(e)
  <2>1. Tail(chan[e].rx) \in Seq(Bytes)
    BY <1>2, <1>4, HeadTailProperties DEF Receive
  <2> DEFINE d == [chan[e] EXCEPT !.rx = Tail(chan[e].rx)]
  <2>2. d \in Chan
    BY <1>2, <2>1, FifoKeeps
  <2>3. chan' = [chan EXCEPT ![e] = d] /\ wrote' = wrote
    BY <1>2, <1>4 DEF Receive
  <2> HIDE DEF d
  <2>4. ConsoleTyped'
    BY <1>2, <2>2, <2>3 DEF ConsoleTyped
  <2>. QED
    BY <1>1, <2>4 DEF Typed
<1>. QED
  BY <1>3, <1>4

\* The players' acts.
LEMMA PlayersTyped ==
  ASSUME Typed, NEW e \in End,
         \/ \E o \in {"off", "host", "join"} : Choose(e, o)
         \/ \E o \in {"host", "join"} : Attempt(e, o)
         \/ GiveUp(e) \/ Reload(e) \/ Leave(e)
  PROVE  Typed'
<1>0. /\ chan \in [End -> Chan] /\ chan[e] \in Chan /\ <<>> \in Seq(Bytes) /\ MaxStarts \in Nat
      /\ GoodNet(net) /\ net.sock[e] \in SocksOf(state[e])
  BY EmptySeq, BoundsType DEF Typed, ConsoleTyped, NetTyped
<1>1. ASSUME NEW o \in {"off", "host", "join"}, Choose(e, o)
      PROVE  Typed'
  <2>1. LinkTyped' /\ ConsoleTyped' /\ HistoryTyped' /\ NetTyped'
    BY <1>1 DEF Choose, Typed, LinkTyped, ConsoleTyped, HistoryTyped, NetTyped, link, console, history
  <2>2. PlayerTyped'
    BY <1>0, <1>1 DEF Choose, Typed, PlayerTyped, programs
  <2>. QED
    BY <2>1, <2>2 DEF Typed
<1>2. ASSUME NEW o \in {"host", "join"}, Attempt(e, o)
      PROVE  Typed'
  <2> DEFINE s == IF o = "host" THEN "listening" ELSE "connecting"
  <2>1. net' = [net EXCEPT !.sock[e] = s] /\ s \in Sockets /\ state' = [state EXCEPT ![e] = "waiting"]
    BY <1>2 DEF Attempt, Asks, Sockets
  <2>2. ~Up(net, e) /\ s \notin {"ready", "open"} /\ s \in SocksOf("waiting")
    BY <1>0, <1>2 DEF Attempt, SocksOf, Up
  <2> HIDE DEF s
  <2>3. NetTyped' /\ state' \in [End -> {"idle", "waiting", "connected", "lost"}]
    BY <2>1, <2>2, SockTyped
  <2>4. PlayerTyped'
    BY <1>0, <1>2 DEF Attempt, Typed, PlayerTyped, programs
  <2>5. LinkTyped' /\ ConsoleTyped' /\ HistoryTyped'
    BY <1>2, <2>3 DEF Attempt, Typed, LinkTyped, ConsoleTyped, HistoryTyped, console, history
  <2>. QED
    BY <2>3, <2>4, <2>5 DEF Typed
<1>3. CASE GiveUp(e)
  <2>1. net' \in Hung(net, e) /\ state' = [state EXCEPT ![e] = "idle"]
    BY <1>3 DEF GiveUp
  <2>2. NetTyped' /\ state' \in [End -> {"idle", "waiting", "connected", "lost"}]
    BY <1>0, <2>1, HungTyped
  <2>. QED
    BY <1>3, <2>2 DEF GiveUp, Typed, PlayerTyped, LinkTyped, ConsoleTyped, HistoryTyped, programs,
       player, console, history
<1>4. CASE Reload(e)
  <2>1. net' \in Hung(net, e) /\ state' = [state EXCEPT ![e] = "idle"]
    BY <1>4 DEF Reload
  <2>2. NetTyped' /\ state' \in [End -> {"idle", "waiting", "connected", "lost"}]
    BY <1>0, <2>1, HungTyped
  <2>3. PlayerTyped'
    BY <1>0, <1>4 DEF Reload, Typed, PlayerTyped, programs
  <2>4. LinkTyped' /\ ConsoleTyped' /\ HistoryTyped'
    BY <1>0, <1>4, <2>2, PlainChan DEF Reload, Shut, Typed, LinkTyped, ConsoleTyped, HistoryTyped, history
  <2>. QED
    BY <2>2, <2>3, <2>4 DEF Typed
<1>5. CASE Leave(e)
  <2>1. net' \in Hung(net, e) /\ state' = [state EXCEPT ![e] = "idle"]
    BY <1>5 DEF Leave
  <2>2. NetTyped' /\ state' \in [End -> {"idle", "waiting", "connected", "lost"}]
    BY <1>0, <2>1, HungTyped
  <2> DEFINE d == SetEnabled(chan[e], FALSE)
  <2>3. d \in Chan
    BY <1>0, SetEnabledKeeps
  <2>4. chan' = [chan EXCEPT ![e] = d]
    BY <1>5 DEF Leave, Plug
  <2> HIDE DEF d
  <2>5. ConsoleTyped'
    BY <1>0, <1>5, <2>3, <2>4 DEF Leave, Typed, ConsoleTyped
  <2>. QED
    BY <1>5, <2>2, <2>5 DEF Leave, Typed, PlayerTyped, LinkTyped, HistoryTyped, programs, player, history
<1>. QED
  BY <1>1, <1>2, <1>3, <1>4, <1>5

LEMMA RefuseTyped ==
  ASSUME Typed, NEW e \in End, Refuse(e)
  PROVE  Typed' /\ net'.sock = [net.sock EXCEPT ![e] = "refused"] /\ net'.wire = net.wire
<1>1. net' = [net EXCEPT !.sock[e] = "refused"] /\ ~Up(net, e) /\ state' = state
  BY DEF Refuse, Up, link
<1>2. state[e] = "waiting" /\ state' = [state EXCEPT ![e] = "waiting"]
  <2>1. net.sock[e] = "connecting" /\ net.sock[e] \in SocksOf(state[e])
    BY DEF Refuse, Typed, NetTyped
  <2>. QED
    BY <1>1, <2>1 DEF SocksOf, Typed, LinkTyped
<1>3. "refused" \in Sockets /\ "refused" \in SocksOf("waiting")
  BY DEF Sockets, SocksOf
<1>4. NetTyped' /\ net'.sock = [net.sock EXCEPT ![e] = "refused"] /\ net'.wire = net.wire
  BY <1>1, <1>2, <1>3, SockTyped
<1>. QED
  BY <1>4 DEF Refuse, Typed, PlayerTyped, LinkTyped, ConsoleTyped, HistoryTyped, programs, player,
     link, console, history

LEMMA ApplyOptionTyped ==
  ASSUME Typed, NEW e \in End, ApplyOption(e)
  PROVE  Typed'
<1>0. /\ chan \in [End -> Chan] /\ chan[e] \in Chan /\ <<>> \in Seq(Bytes)
      /\ GoodNet(net) /\ net.sock[e] \in SocksOf(state[e])
      /\ SetEnabled(chan[e], TRUE) \in Chan /\ SetEnabled(chan[e], FALSE) \in Chan
  BY EmptySeq, SetEnabledKeeps DEF Typed, ConsoleTyped, NetTyped
<1>1. PlayerTyped' /\ HistoryTyped' /\ wrote' = wrote /\ held' = held /\ pumps' = pumps
  BY DEF ApplyOption, Typed, PlayerTyped, HistoryTyped, programs, history
<1>2. CASE option[e] = "off" /\ net' \in Hung(net, e) /\ why' = why /\ Shut(e)
           /\ state' = [state EXCEPT ![e] = "idle"] /\ (chan' = chan \/ Plug(e, FALSE))
  <2>1. NetTyped' /\ state' \in [End -> {"idle", "waiting", "connected", "lost"}]
    BY <1>0, <1>2, HungTyped
  <2>2. chan' \in [End -> Chan]
    BY <1>0, <1>2 DEF Plug
  <2>. QED
    BY <1>0, <1>1, <1>2, <2>1, <2>2 DEF Shut, Typed, LinkTyped, ConsoleTyped
<1>3. CASE UNCHANGED <<state, declared, out, why, chan, net>>
  BY <1>1, <1>3 DEF Typed, LinkTyped, ConsoleTyped, NetTyped
<1>4. CASE /\ option[e] # "off" /\ ~Armed(e)
           /\ Shut(e) /\ Plug(e, TRUE) /\ why' = [why EXCEPT ![e] = "nothing"]
           /\ state' = [state EXCEPT ![e] = "waiting"] /\ net' = Asks(net, e, option[e])
  <2> DEFINE s == IF option[e] = "host" THEN "listening" ELSE "connecting"
  <2>1. net' = [net EXCEPT !.sock[e] = s] /\ s \in Sockets /\ state' = [state EXCEPT ![e] = "waiting"]
    BY <1>4 DEF Asks, Sockets
  <2>2. ~Up(net, e) /\ s \notin {"ready", "open"} /\ s \in SocksOf("waiting")
    BY <1>0, <1>4 DEF Armed, SocksOf, Up
  <2> HIDE DEF s
  <2>3. NetTyped' /\ state' \in [End -> {"idle", "waiting", "connected", "lost"}]
    BY <2>1, <2>2, SockTyped
  <2>4. ConsoleTyped'
    BY <1>0, <1>1, <1>4 DEF Plug, Typed, ConsoleTyped
  <2>5. LinkTyped'
    BY <1>0, <1>1, <1>4, <2>3 DEF Shut, Typed, LinkTyped
  <2>. QED
    BY <1>1, <2>3, <2>4, <2>5 DEF Typed
<1>5. CASE option[e] # "off" /\ ~Armed(e) /\ Unplugged(e) /\ UNCHANGED <<why, net>>
  <2>1. net.sock[e] = "none" /\ state' = [state EXCEPT ![e] = "idle"] /\ net' = net
    BY <1>0, <1>5 DEF Armed, SocksOf, Unplugged
  <2>2. NetTyped' /\ state' \in [End -> {"idle", "waiting", "connected", "lost"}]
    BY <2>1 DEF Typed, NetTyped, LinkTyped, SocksOf
  <2>3. ConsoleTyped'
    BY <1>0, <1>1, <1>5 DEF Unplugged, Plug, Typed, ConsoleTyped
  <2>4. LinkTyped'
    BY <1>0, <1>1, <1>5, <2>2 DEF Unplugged, Shut, Typed, LinkTyped
  <2>. QED
    BY <1>1, <2>2, <2>3, <2>4 DEF Typed
<1>. QED
  BY <1>2, <1>3, <1>4, <1>5 DEF ApplyOption, Unplugged

LEMMA PollTyped ==
  ASSUME Typed, NEW e \in End, Poll(e)
  PROVE  Typed' /\ net'.sock = [net.sock EXCEPT ![e] = "open"] /\ net'.wire = net.wire
<1>1. /\ net' = [net EXCEPT !.sock[e] = "open"] /\ state' = [state EXCEPT ![e] = "connected"]
      /\ Up(net, e) /\ "open" \in Sockets /\ "open" \in SocksOf("connected")
  BY DEF Poll, Up, Sockets, SocksOf
<1>2. /\ NetTyped' /\ state' \in [End -> {"idle", "waiting", "connected", "lost"}]
      /\ net'.sock = [net.sock EXCEPT ![e] = "open"] /\ net'.wire = net.wire
  BY <1>1, SockTyped
<1>. QED
  BY <1>2 DEF Poll, Typed, PlayerTyped, LinkTyped, ConsoleTyped, HistoryTyped, programs, player,
     console, history

LEMMA TidyTyped ==
  ASSUME Typed, NEW e \in End, Tidy(e)
  PROVE  Typed'
<1>0. /\ chan \in [End -> Chan] /\ <<>> \in Seq(Bytes)
      /\ GoodNet(net) /\ SetEnabled(chan[e], FALSE) \in Chan
  BY EmptySeq, SetEnabledKeeps DEF Typed, ConsoleTyped, NetTyped
<1>1. net' \in Hung(net, e) /\ state' = [state EXCEPT ![e] = "idle"]
  BY DEF Tidy, Unplugged
<1>2. NetTyped' /\ state' \in [End -> {"idle", "waiting", "connected", "lost"}]
  BY <1>0, <1>1, HungTyped
<1>3. ConsoleTyped' /\ LinkTyped'
  BY <1>0, <1>2 DEF Tidy, Unplugged, Plug, Shut, Typed, ConsoleTyped, LinkTyped
<1>. QED
  BY <1>2, <1>3 DEF Tidy, Typed, PlayerTyped, HistoryTyped, programs, player, history

LEMMA HelloType == Hello \in Seq(Bytes) /\ Len(Hello) = 2
BY DEF Hello, Head1, Bytes

\* The mirror's hello is the first thing on a connection; the wire was empty before it.
LEMMA AttachTyped ==
  ASSUME Typed, NEW e \in End, Attach(e)
  PROVE  Typed' /\ net'.sock = [net.sock EXCEPT ![e] = "open"]
<1>0. /\ chan \in [End -> Chan] /\ <<>> \in Seq(Bytes) /\ GoodNet(net) /\ Plugged(chan[e]) \in Chan
      /\ 0 \in 0 .. SniffPumps + 1
  BY EmptySeq, PluggedChan, BoundsType DEF Typed, ConsoleTyped, NetTyped
<1>1. PlayerTyped' /\ wrote' = wrote /\ got' = got
  BY DEF Attach, Typed, PlayerTyped, programs, player
<1>2. /\ state' = [state EXCEPT ![e] = "connected"] /\ Up(net, e)
      /\ "open" \in Sockets /\ "open" \in SocksOf("connected")
  BY DEF Attach, Up, Sockets, SocksOf
<1>3. out' \in [End -> Seq(Bytes)] /\ held' \in [End -> Seq(Bytes)] /\ declared' \in [End -> BOOLEAN]
      /\ pumps' \in [End -> 0 .. SniffPumps + 1]
      /\ why' \in [End -> {"nothing", "sending", "fin", "reset", "mirror"}]
  BY <1>0 DEF Attach, Typed, LinkTyped
<1>4. CASE kind[e] # "mirror"
  <2>1. /\ net' = [net EXCEPT !.sock[e] = "open"] /\ taken' = taken
        /\ chan' = [chan EXCEPT ![e] = Plugged(chan[e])]
    BY <1>0, <1>4 DEF Attach
  <2>2. /\ NetTyped' /\ state' \in [End -> {"idle", "waiting", "connected", "lost"}]
        /\ net'.sock = [net.sock EXCEPT ![e] = "open"]
    BY <1>2, <2>1, SockTyped
  <2>3. ConsoleTyped' /\ HistoryTyped'
    BY <1>0, <1>1, <2>1 DEF Typed, ConsoleTyped, HistoryTyped
  <2>. QED
    BY <1>1, <1>3, <2>2, <2>3 DEF Typed, LinkTyped
<1>5. CASE kind[e] = "mirror"
  <2>1. /\ net' = [net EXCEPT !.sock[e] = "open", !.wire[e] = Hello]
        /\ taken' = [taken EXCEPT ![e] = Hello] /\ chan' = chan
    BY <1>5 DEF Attach
  <2> DEFINE k == net.sock
             w == net.wire
             h == net.hears
             ks == [k EXCEPT ![e] = "open"]
             ws == [w EXCEPT ![e] = Hello]
  <2>2. net' = [sock |-> ks, wire |-> ws, hears |-> h]
    <3>1. net = [sock |-> k, wire |-> w, hears |-> h]
      BY <1>0, Zenon DEF GoodNet, NetType
    <3> HIDE DEF k, w, h
    <3>. QED
      BY <2>1, <3>1
  <2>3. /\ k \in [End -> Sockets] /\ w \in [End -> Seq(Bytes)]
        /\ h \in [End -> {"nothing", "fin", "reset"}] /\ \A y \in End : Len(w[y]) <= Kernel
    BY <1>0 DEF GoodNet, NetType
  <2>4. Len(Hello) <= Kernel /\ Hello \in Seq(Bytes)
    BY HelloType, KernelType
  <2>5. ks \in [End -> Sockets] /\ ws \in [End -> Seq(Bytes)] /\ \A y \in End : Len(ws[y]) <= Kernel
    <3> HIDE DEF k, w
    <3>. QED
      BY <1>2, <2>3, <2>4
  <2>6. \A y \in End : ks[y] \in {"ready", "open"} <=> k[y] \in {"ready", "open"}
    BY <1>2, <2>3 DEF Up
  <2>7. \A y \in End : h[y] # "nothing" => k[y] \in {"ready", "open"} /\ ~(k[Peer(y)] \in {"ready", "open"})
    BY <1>0 DEF GoodNet, Up
  <2>8. \A y \in End : ks[y] \in SocksOf(state'[y])
    BY <1>2, <2>3 DEF Typed, NetTyped, LinkTyped
  <2>14. Peer(e) \in End /\ \A y \in End : Peer(y) \in End
    BY PeerEnd
  <2> HIDE DEF k, w, ks, ws, h
  <2>9. net' \in NetType /\ net'.sock = ks /\ net'.wire = ws /\ net'.hears = h
    BY <2>2, <2>3, <2>5 DEF NetType
  <2>10. \A y \in End : net'.hears[y] # "nothing" => Up(net', y) /\ ~Up(net', Peer(y))
    BY <2>6, <2>7, <2>9, <2>14 DEF Up
  <2>11. NetTyped'
    BY <2>5, <2>8, <2>9, <2>10 DEF NetTyped, GoodNet
  <2>12. HistoryTyped' /\ ConsoleTyped'
    BY <1>1, <2>1, <2>4 DEF Typed, ConsoleTyped, HistoryTyped
  <2>13. LinkTyped'
    BY <1>2, <1>3 DEF Typed, LinkTyped
  <2>. QED
    BY <1>1, <2>9, <2>11, <2>12, <2>13 DEF Typed, ks, k
<1>. QED
  BY <1>4, <1>5

LEMMA PumpFailsTyped ==
  ASSUME Typed, NEW e \in End, PumpFails(e)
  PROVE  /\ Typed' /\ OthersKept(e) /\ Cut(e, "sending")
         /\ UNCHANGED <<kind, held, pumps, got, player>>
         /\ taken' = [taken EXCEPT ![e] = @ \o chan[e].tx] /\ out' = [out EXCEPT ![e] = Outgoing(e)]
<1> DEFINE c == Drained(chan[e])
<1>1. /\ c \in Chan /\ GoodNet(net) /\ Lose(e, c, net, "sending")
      /\ chan[e].tx \in Seq(Bytes) /\ Outgoing(e) \in Seq(Bytes)
  BY PumpedChan, OutgoingType, EmptySeq DEF PumpFails, Typed, ConsoleTyped, NetTyped
<1>2. /\ UNCHANGED <<programs, player, held, pumps, wrote, got>>
      /\ taken' = [taken EXCEPT ![e] = @ \o chan[e].tx] /\ out' = [out EXCEPT ![e] = Outgoing(e)]
  BY DEF PumpFails, Drains
<1> HIDE DEF c
<1>3. /\ NetTyped' /\ state' \in [End -> {"idle", "waiting", "connected", "lost"}]
      /\ declared' \in [End -> BOOLEAN] /\ chan' \in [End -> Chan]
      /\ why' \in [End -> {"nothing", "sending", "fin", "reset", "mirror"}]
  BY <1>1, LoseTyped
<1>4. /\ why' = [why EXCEPT ![e] = "sending"]
      /\ net'.sock[e] = "none" /\ state'[e] # "connected"
      /\ (kind[e] = "retro") = (state'[e] = "lost")
      /\ \A y \in End : y # e => state'[y] = state[y] /\ chan'[y] = chan[y]
  BY <1>1, LoseTyped
<1>5. /\ kind[e] = "retro" => Quiet(chan'[e])
      /\ kind[e] # "retro" => ~chan'[e].enabled
  BY <1>1, LoseTyped
<1>6. kind[e] # "retro" => state'[e] = "idle"
  BY <1>1 DEF Lose, Typed, LinkTyped
<1>7. taken[e] \o chan[e].tx \in Seq(Bytes)
  BY <1>1, JoinedType, Zenon DEF Typed, HistoryTyped
<1>8. HistoryTyped' /\ LinkTyped' /\ ConsoleTyped' /\ PlayerTyped'
  BY <1>1, <1>2, <1>3, <1>7 DEF Typed, HistoryTyped, LinkTyped, ConsoleTyped, PlayerTyped,
     programs, player
<1>. QED
  BY <1>2, <1>3, <1>4, <1>5, <1>6, <1>8 DEF Typed, Cut, OthersKept, programs

LEMMA MirrorReadsTyped ==
  ASSUME Typed, NEW e \in End, MirrorReads(e)
  PROVE  /\ Typed' /\ net'.sock = net.sock
         /\ net'.wire = [net.wire EXCEPT ![Peer(e)] = <<>>]
         /\ got' = [got EXCEPT ![e] = @ \o net.wire[Peer(e)]]
         /\ UNCHANGED <<programs, player, link, console, taken>>
<1> DEFINE p == Peer(e)
           k == net.sock
           w == net.wire
           h == net.hears
           ws == [w EXCEPT ![p] = <<>>]
<1>1. /\ net' = [net EXCEPT !.wire[p] = <<>>] /\ got' = [got EXCEPT ![e] = @ \o w[p]]
      /\ UNCHANGED <<programs, player, link, console, taken>>
  BY DEF MirrorReads, Gives
<1>2. p \in End /\ net \in NetType /\ GoodNet(net)
      /\ k \in [End -> Sockets] /\ w \in [End -> Seq(Bytes)]
      /\ h \in [End -> {"nothing", "fin", "reset"}] /\ \A y \in End : Len(w[y]) <= Kernel
      /\ <<>> \in Seq(Bytes) /\ Len(<<>>) <= Kernel
  BY PeerEnd, EmptySeq, KernelType DEF Typed, NetTyped, GoodNet, NetType
<1>3. w[p] \in Seq(Bytes) /\ got[e] \o w[p] \in Seq(Bytes)
  BY <1>2, JoinedType DEF Typed, HistoryTyped
<1>4. net' = [sock |-> k, wire |-> ws, hears |-> h]
  <2>1. net = [sock |-> k, wire |-> w, hears |-> h]
    BY <1>2, Zenon DEF NetType
  <2> HIDE DEF k, w, h, p
  <2>. QED
    BY <1>1, <2>1
<1>5. ws \in [End -> Seq(Bytes)] /\ \A y \in End : Len(ws[y]) <= Kernel
  <2> HIDE DEF w, p
  <2>. QED
    BY <1>2
<1> HIDE DEF ws
<1>6. net' \in NetType /\ net'.sock = k /\ net'.wire = ws /\ net'.hears = h
  BY <1>2, <1>4, <1>5 DEF NetType
<1>7. GoodNet(net')
  BY <1>2, <1>5, <1>6 DEF GoodNet, Up
<1>8. NetTyped' /\ PlayerTyped' /\ LinkTyped' /\ ConsoleTyped'
  BY <1>1, <1>6, <1>7 DEF Typed, NetTyped, PlayerTyped, LinkTyped, ConsoleTyped, programs, player,
     link, console
<1>9. HistoryTyped'
  BY <1>1, <1>3 DEF Typed, HistoryTyped
<1>. QED
  BY <1>1, <1>6, <1>8, <1>9 DEF Typed, ws

\* Every action of Next is one of the lemmas' above.
LEMMA NextTyped == Typed /\ [Next]_vars => Typed'
<1> SUFFICES ASSUME Typed, [Next]_vars PROVE Typed'
  OBVIOUS
<1>1. CASE UNCHANGED vars
  BY <1>1 DEF vars, programs, player, link, console, history, Typed, PlayerTyped, LinkTyped,
     ConsoleTyped, HistoryTyped, NetTyped
<1>2. ASSUME NEW e \in End, Establish(e) \/ Refuse(e) \/ Resets(e) PROVE Typed'
  BY <1>2, EstablishTyped, RefuseTyped, ResetsTyped
<1>3. ASSUME NEW e \in End, Transmit(e) \/ Receive(e) PROVE Typed'
  BY <1>3, GameTyped
<1>4. ASSUME NEW e \in End,
             \/ \E o \in {"off", "host", "join"} : Choose(e, o)
             \/ \E o \in {"host", "join"} : Attempt(e, o)
             \/ GiveUp(e) \/ Reload(e) \/ Leave(e)
      PROVE  Typed'
  BY <1>4, PlayersTyped
<1>5. ASSUME NEW e \in End, Frame(e) PROVE Typed'
  BY <1>5, ApplyOptionTyped, PollTyped, TidyTyped, AttachTyped DEF Frame
<1>6. ASSUME NEW e \in End, Pump(e) PROVE Typed'
  BY <1>6, PumpFailsTyped, RetroPumped, ShellPumped DEF Pump
<1>7. ASSUME NEW e \in End, MirrorReads(e) PROVE Typed'
  BY <1>7, MirrorReadsTyped
<1>. QED
  BY <1>1, <1>2, <1>3, <1>4, <1>5, <1>6, <1>7 DEF Next

LEMMA AlwaysTyped == Spec => []Typed
BY InitTyped, NextTyped, PTL DEF Spec

\* Whatever the two programs do, a socket is open exactly while its end is connected, no
\* kernel holds more than its size, and every variable keeps its range (TcpLink, CableLink).
THEOREM TypeCorrect == Spec => []TypeOK
<1>1. Typed => TypeOK
  <2> SUFFICES ASSUME Typed PROVE TypeOK
    OBVIOUS
  <2>1. net \in NetType /\ \A e \in End : Len(net.wire[e]) <= Kernel
    BY DEF Typed, NetTyped, GoodNet
  <2>2. DOMAIN net = {"sock", "wire", "hears"}
    BY <2>1 DEF NetType
  <2>3. \A e \in End : state[e] = "connected" <=> net.sock[e] = "open"
    <3>1. \A e \in End : net.sock[e] \in SocksOf(state[e])
      BY DEF Typed, NetTyped
    <3>. QED
      BY <3>1 DEF SocksOf
  <2>. QED
    BY <2>1, <2>2, <2>3 DEF TypeOK, Typed, PlayerTyped, LinkTyped, ConsoleTyped, NetType, Sockets
<1>. QED
  BY <1>1, AlwaysTyped, PTL

(***************************************************************************)
(* What a program holds, and what it has told its player                   *)
(***************************************************************************)
ProgramsOf(e) ==
  /\ kind[e] # "shell" => held[e] = <<>>
  /\ kind[e] = "retro" /\ state[e] = "waiting" => out[e] = <<>> /\ why[e] = "nothing"
  /\ state[e] = "connected" => why[e] = "nothing"
  /\ Decided(e) => held[e] = <<>>

Programs == \A e \in End : ProgramsOf(e)

LEMMA NextPrograms == Typed /\ Programs /\ [Next]_vars => Programs'
<1> SUFFICES ASSUME Typed, Programs, [Next]_vars PROVE Programs'
  OBVIOUS
<1>0. /\ out \in [End -> Seq(Bytes)] /\ held \in [End -> Seq(Bytes)]
      /\ state \in [End -> {"idle", "waiting", "connected", "lost"}]
      /\ why \in [End -> {"nothing", "sending", "fin", "reset", "mirror"}]
      /\ pumps \in [End -> 0 .. SniffPumps + 1] /\ SniffPumps \in Nat
  BY BoundsType DEF Typed, LinkTyped
<1>1. CASE UNCHANGED vars
  BY <1>1 DEF vars, programs, link, Programs, ProgramsOf, Decided
<1>2. ASSUME NEW e \in End,
             \/ Establish(e) \/ Refuse(e) \/ Resets(e) \/ Transmit(e) \/ Receive(e) \/ MirrorReads(e)
             \/ \E o \in {"off", "host", "join"} : Choose(e, o)
      PROVE  Programs'
  <2>1. UNCHANGED <<kind, held, state, out, why, pumps>>
    BY <1>2 DEF Establish, Refuse, Resets, Transmit, Receive, MirrorReads, Choose, programs, link
  <2>. QED
    BY <2>1 DEF Programs, ProgramsOf, Decided
<1>3. ASSUME NEW e \in End,
             \/ \E o \in {"host", "join"} : Attempt(e, o)
             \/ GiveUp(e) \/ Leave(e)
      PROVE  Programs'
  <2>1. /\ UNCHANGED <<kind, held, out, why, pumps>> /\ kind[e] # "retro"
        /\ \E s \in {"waiting", "idle"} : state' = [state EXCEPT ![e] = s]
    BY <1>3 DEF Attempt, GiveUp, Leave, programs
  <2>. QED
    BY <1>0, <2>1 DEF Programs, ProgramsOf, Decided
<1>4. ASSUME NEW e \in End, Reload(e) \/ Tidy(e)
      PROVE  Programs'
  <2>1. /\ UNCHANGED <<kind, held, why, pumps>>
        /\ state' = [state EXCEPT ![e] = "idle"] /\ out' = [out EXCEPT ![e] = <<>>]
    BY <1>4 DEF Reload, Tidy, Unplugged, Shut, programs
  <2>. QED
    BY <1>0, <2>1 DEF Programs, ProgramsOf, Decided
<1>5. ASSUME NEW e \in End, ApplyOption(e)
      PROVE  Programs'
  <2>1. UNCHANGED <<kind, held, pumps>>
    BY <1>5 DEF ApplyOption, programs
  <2>2. \/ UNCHANGED <<out, why, state>>
        \/ /\ out' = [out EXCEPT ![e] = <<>>]
           /\ \/ why' = why /\ state' = [state EXCEPT ![e] = "idle"]
              \/ why' = [why EXCEPT ![e] = "nothing"] /\ state' = [state EXCEPT ![e] = "waiting"]
    BY <1>5 DEF ApplyOption, Shut, Unplugged
  <2>3. ASSUME NEW y \in End PROVE ProgramsOf(y)'
    <3>1. ProgramsOf(y)
      BY DEF Programs
    <3>2. CASE y = e
      BY <1>0, <2>1, <2>2, <3>1, <3>2 DEF ProgramsOf, Decided
    <3>3. CASE y # e
      BY <1>0, <2>1, <2>2, <3>1, <3>3 DEF ProgramsOf, Decided
    <3>. QED
      BY <3>2, <3>3
  <2>. QED
    BY <2>3 DEF Programs
<1>6. ASSUME NEW e \in End, Poll(e)
      PROVE  Programs'
  <2>1. /\ UNCHANGED <<kind, held, out, why, pumps>>
        /\ kind[e] = "retro" /\ state[e] = "waiting" /\ state' = [state EXCEPT ![e] = "connected"]
    BY <1>6 DEF Poll, programs
  <2>. QED
    BY <1>0, <2>1 DEF Programs, ProgramsOf, Decided
<1>7. ASSUME NEW e \in End, Attach(e)
      PROVE  Programs'
  <2>1. /\ UNCHANGED kind /\ kind[e] # "retro"
        /\ held' = [held EXCEPT ![e] = <<>>] /\ out' = [out EXCEPT ![e] = <<>>]
        /\ pumps' = [pumps EXCEPT ![e] = 0] /\ why' = [why EXCEPT ![e] = "nothing"]
        /\ state' = [state EXCEPT ![e] = "connected"]
    BY <1>7 DEF Attach, programs
  <2>2. ASSUME NEW y \in End PROVE ProgramsOf(y)'
    <3>1. ProgramsOf(y)
      BY DEF Programs
    <3>2. CASE y = e
      BY <1>0, <2>1, <3>1, <3>2 DEF ProgramsOf, Decided
    <3>3. CASE y # e
      BY <1>0, <2>1, <3>1, <3>3 DEF ProgramsOf, Decided
    <3>. QED
      BY <3>2, <3>3
  <2>. QED
    BY <2>2 DEF Programs
<1>8. ASSUME NEW e \in End, PumpFails(e) \/ RetroPump(e)
      PROVE  Programs'
  <2>1. /\ UNCHANGED <<kind, held, pumps>>
        /\ \/ state' = state /\ why' = why
           \/ state'[e] \in {"idle", "lost"} /\ \E r : why' = [why EXCEPT ![e] = r]
        /\ state[e] = "connected" /\ OthersKept(e)
        /\ \E s : out' = [out EXCEPT ![e] = s]
    <3>1. CASE PumpFails(e)
      BY <1>0, <3>1, PumpFailsTyped DEF Cut, PumpFails, Pumps
    <3>2. CASE RetroPump(e)
      <4>1. /\ UNCHANGED <<kind, held, pumps>> /\ state[e] = "connected" /\ OthersKept(e) /\ kind[e] = "retro"
        BY <3>2, RetroPumped
      <4>2. PICK n \in 0 .. Len(Outgoing(e)), m \in 0 .. Len(net.wire[Peer(e)]) :
              /\ Sends(e, n)
              /\ \/ Kept(e, n, m)
                 \/ Cut(e, net.hears[e])
        BY <3>2, RetroPumped
      <4>3. \E s : out' = [out EXCEPT ![e] = s]
        BY <4>2 DEF Sends
      <4>. QED
        BY <4>1, <4>2, <4>3 DEF Kept, Cut
    <3>. QED
      BY <1>8, <3>1, <3>2
  <2>2. ASSUME NEW y \in End PROVE ProgramsOf(y)'
    <3>1. ProgramsOf(y)
      BY DEF Programs
    <3>2. CASE y = e
      BY <1>0, <2>1, <3>1, <3>2 DEF ProgramsOf, Decided
    <3>3. CASE y # e
      BY <1>0, <2>1, <3>1, <3>3 DEF ProgramsOf, Decided, OthersKept
    <3>. QED
      BY <3>2, <3>3
  <2>. QED
    BY <2>2 DEF Programs
<1>9. ASSUME NEW e \in End, ShellPump(e)
      PROVE  Programs'
  <2>1. /\ kind[e] = "shell" /\ state[e] = "connected" /\ kind' = kind /\ OthersKept(e)
        /\ \A y \in End : y # e => held'[y] = held[y] /\ pumps'[y] = pumps[y]
        /\ Decided(e)' => held'[e] = <<>>
    BY <1>9, ShellPumped
  <2>2. \/ state' = state /\ why' = why
        \/ state'[e] = "idle" /\ \E r : why' = [why EXCEPT ![e] = r]
    <3>1. PICK n \in 0 .. Len(Outgoing(e)), m \in 0 .. Len(net.wire[Peer(e)]) :
              \/ Kept(e, n, m)
              \/ Cut(e, net.hears[e])
              \/ Cut(e, "mirror")
      BY <1>9, ShellPumped
    <3>. QED
      BY <2>1, <3>1 DEF Kept, Cut
  <2>3. \E s : out' = [out EXCEPT ![e] = s]
    BY <1>9 DEF ShellPump, Sends
  <2>4. ASSUME NEW y \in End PROVE ProgramsOf(y)'
    <3>1. ProgramsOf(y)
      BY DEF Programs
    <3>2. CASE y = e
      BY <1>0, <2>1, <2>2, <2>3, <3>1, <3>2 DEF ProgramsOf
    <3>3. CASE y # e
      BY <1>0, <2>1, <2>2, <2>3, <3>1, <3>3 DEF ProgramsOf, Decided, OthersKept
    <3>. QED
      BY <3>2, <3>3
  <2>. QED
    BY <2>4 DEF Programs
<1>. QED
  BY <1>1, <1>2, <1>3, <1>4, <1>5, <1>6, <1>7, <1>8, <1>9 DEF Next, Frame, Pump

LEMMA AlwaysPrograms == Spec => [](Typed /\ Programs)
<1>1. Init => Programs
  <2>1. \A e \in End : 0 <= SniffPumps
    BY BoundsType
  <2>. QED
    BY <2>1, BoundsType DEF Init, Programs, ProgramsOf, Decided
<1>2. (Typed /\ Programs) /\ [Next]_vars => (Typed /\ Programs)'
  BY NextTyped, NextPrograms
<1>. QED
  BY <1>1, <1>2, InitTyped, PTL DEF Spec

(***************************************************************************)
(* Where the bytes of a connection are                                     *)
(***************************************************************************)
\* A program that has not taken its connection up yet has nothing of it.
Mine(e, s) == IF net.sock[e] = "open" THEN s ELSE <<>>

\* Got by the peer's game, held by its program, in the kernels, kept for the next pump.
LedgerOf(e) ==
  Up(net, e) /\ Up(net, Peer(e)) =>
    /\ net.sock[e] = "ready" => taken[e] = <<>> /\ net.wire[e] = <<>>
    /\ net.sock[Peer(e)] = "ready" => got[Peer(e)] = <<>>
    /\ taken[e] = ((got[Peer(e)] \o Mine(Peer(e), held[Peer(e)])) \o net.wire[e]) \o Mine(e, out[e])

Ledger == \A e \in End : LedgerOf(e)

\* A socket that is closed or asks has no connection to account for.
LEMMA NoConnection ==
  ASSUME NEW f \in End, net'.sock[f] \notin {"ready", "open"}
  PROVE  Ledger'
<1>1. ASSUME NEW e \in End PROVE LedgerOf(e)'
  <2>1. e = f \/ Peer(e) = f
    BY PeerEnd
  <2>. QED
    BY <2>1 DEF LedgerOf, Up
<1>. QED
  BY <1>1 DEF Ledger

LEMMA LedgerStays ==
  ASSUME NEW e \in End, LedgerOf(e), net' = net, taken' = taken, got' = got, held' = held, out' = out
  PROVE  LedgerOf(e)'
BY DEF LedgerOf, Mine, Up

LEMMA EmptyJoin ==
  /\ <<>> \in Seq(Bytes) /\ Len(<<>>) = 0
  /\ \A s \in Seq(Bytes) : s \o <<>> = s /\ <<>> \o s = s
BY EmptySeq, ConcatEmptySeq

\* The sending half of a pump.
Sent(f, n) ==
  /\ net'.sock = net.sock /\ net'.wire[f] = net.wire[f] \o Upto(Outgoing(f), n)
  /\ out'[f] = Rest(Outgoing(f), n) /\ taken'[f] = taken[f] \o chan[f].tx
  /\ got'[Peer(f)] = got[Peer(f)] /\ held'[Peer(f)] = held[Peer(f)]

LEMMA SentLedger ==
  ASSUME Typed, NEW f \in End, LedgerOf(f), net.sock[f] = "open",
         NEW n \in 0 .. Len(Outgoing(f)), Sent(f, n)
  PROVE  LedgerOf(f)'
<1> DEFINE p == Peer(f)
           x == got[p] \o Mine(p, held[p])
           w == net.wire[f]
           o == out[f]
           tx == chan[f].tx
<1>1. p \in End /\ got[p] \in Seq(Bytes) /\ held[p] \in Seq(Bytes) /\ <<>> \in Seq(Bytes)
  BY PeerEnd, EmptySeq DEF Typed, HistoryTyped, LinkTyped
<1>2. Mine(p, held[p]) \in Seq(Bytes)
  BY <1>1 DEF Mine
<1>3. x \in Seq(Bytes)
  BY <1>1, <1>2, JoinedType, Zenon
<1>4. w \in Seq(Bytes) /\ o \in Seq(Bytes) /\ tx \in Seq(Bytes) /\ Outgoing(f) = o \o tx
  BY OutgoingType
<1>5. CASE Up(net, f) /\ Up(net, p)
  <2>1. taken[f] = (x \o w) \o o /\ (net.sock[p] = "ready" => got[p] = <<>>)
    BY <1>5 DEF LedgerOf, Mine
  <2>2. Mine(p, held[p])' = Mine(p, held[p]) /\ Mine(f, out[f])' = out'[f]
    BY DEF Mine, Sent
  <2>5. net'.sock[f] = "open" /\ net'.sock[p] = net.sock[p]
    BY DEF Sent
  <2> DEFINE y == Outgoing(f)
             xw == x \o w
  <2>6. x = got'[p] \o Mine(p, held[p])'
    BY <2>2 DEF x, Sent
  <2>7. y \in Seq(Bytes) /\ n \in 0 .. Len(y)
    BY OutgoingType
  <2>11. y = o \o tx
    BY OutgoingType
  <2>12. w \in Seq(Bytes)
    BY OutgoingType
  <2>8. xw \in Seq(Bytes)
    BY <1>3, <1>4, JoinedType, Zenon
  <2>9. /\ taken'[f] = taken[f] \o tx /\ net'.wire[f] = w \o Upto(y, n) /\ out'[f] = Rest(y, n)
    BY DEF Sent
  <2> HIDE DEF x, w, o, tx, y
  <2>3. (x \o w) \o y = (x \o (w \o Upto(y, n))) \o Rest(y, n)
    BY <1>3, <1>4, <2>7, SentOn
  <2>10. (xw \o o) \o tx = xw \o (o \o tx)
    <3> HIDE DEF xw
    <3>. QED
      BY <1>4, <2>8, Assoc, Zenon
  <2>4. taken'[f] = (x \o net'.wire[f]) \o out'[f]
    BY <2>1, <2>3, <2>9, <2>10, <2>11, Zenon DEF xw
  <2>13. net.sock[p] = "ready" => got'[p] = <<>>
    BY <2>1 DEF Sent
  <2>14. taken'[f] = ((got'[p] \o Mine(p, held[p])') \o net'.wire[f]) \o Mine(f, out[f])'
    BY <2>2, <2>4, <2>6, Zenon
  <2>. QED
    BY <2>5, <2>13, <2>14 DEF LedgerOf
<1>6. CASE ~(Up(net, f) /\ Up(net, p))
  BY <1>6 DEF LedgerOf, Up, Sent
<1>. QED
  BY <1>5, <1>6

\* The reading half.
LEMMA ReadLedger ==
  ASSUME Typed, NEW f \in End, LedgerOf(Peer(f)), net.sock[f] = "open",
         NEW m \in 0 .. Len(net.wire[Peer(f)]),
         net'.sock = net.sock, net'.wire[Peer(f)] = From(net.wire[Peer(f)], m),
         out'[Peer(f)] = out[Peer(f)], taken'[Peer(f)] = taken[Peer(f)],
         got'[f] \o held'[f] = got[f] \o (held[f] \o Upto(net.wire[Peer(f)], m))
  PROVE  LedgerOf(Peer(f))'
<1> DEFINE p == Peer(f)
           g == got[f]
           h == held[f]
           w == net.wire[p]
<1>1. p \in End /\ Peer(p) = f /\ g \in Seq(Bytes) /\ h \in Seq(Bytes)
  BY PeerEnd DEF Typed, HistoryTyped, LinkTyped
<1>2. w \in Seq(Bytes)
  BY <1>1, OutgoingType
<1>3. CASE Up(net, p) /\ Up(net, f)
  <2>1. /\ taken[p] = ((g \o h) \o w) \o Mine(p, out[p])
        /\ net.sock[p] = "ready" => taken[p] = <<>> /\ w = <<>>
    BY <1>1, <1>3 DEF LedgerOf, Mine
  <2>2. Mine(p, out[p])' = Mine(p, out[p]) /\ Mine(f, held[f])' = held'[f]
    BY DEF Mine
  <2>5. net'.sock[f] = "open" /\ net'.sock[p] = net.sock[p]
    OBVIOUS
  <2>6. net.sock[p] = "ready" => net'.wire[p] = <<>>
    BY <2>1 DEF From
  <2> HIDE DEF g, h, w
  <2>3. (g \o h) \o w = (g \o (h \o Upto(w, m))) \o From(w, m)
    BY <1>1, <1>2, ReadOn DEF w
  <2>4. taken'[p] = ((got'[f] \o held'[f]) \o net'.wire[p]) \o Mine(p, out[p])
    BY <2>1, <2>3, Zenon DEF g, h, w
  <2>. QED
    BY <1>1, <2>1, <2>2, <2>4, <2>5, <2>6 DEF LedgerOf
<1>4. CASE ~(Up(net, p) /\ Up(net, f))
  BY <1>1, <1>4 DEF LedgerOf, Up
<1>. QED
  BY <1>3, <1>4

LEMMA EmptyParts ==
  ASSUME NEW s \in Seq(Bytes), NEW t \in Seq(Bytes), s \o t = <<>>
  PROVE  s = <<>> /\ t = <<>>
<1>1. Len(s \o t) = Len(s) + Len(t) /\ Len(s) \in Nat /\ Len(t) \in Nat /\ Len(<<>>) = 0
  BY ConcatProperties, LenProperties, EmptySeq
<1>2. Len(s) = 0 /\ Len(t) = 0
  BY <1>1
<1>. QED
  BY <1>2, EmptySeq

\* A connection is taken up: whoever does it holds nothing of it yet.
LEMMA TakenUp ==
  ASSUME Typed, Ledger, NEW f \in End, net.sock[f] = "ready",
         net'.sock = [net.sock EXCEPT ![f] = "open"], out'[f] = <<>>, held'[f] = <<>>,
         out'[Peer(f)] = out[Peer(f)], held'[Peer(f)] = held[Peer(f)], got' = got,
         taken'[Peer(f)] = taken[Peer(f)], net'.wire[Peer(f)] = net.wire[Peer(f)],
         \E s \in Seq(Bytes) : /\ taken'[f] = s /\ net'.wire[f] = s
  PROVE  Ledger'
<1> DEFINE p == Peer(f)
<1>1. p \in End /\ Peer(p) = f /\ p # f /\ End = {f, p} /\ net.sock \in [End -> Sockets]
  BY PeerEnd DEF Typed, NetTyped, GoodNet, NetType
<1>2. net'.sock[f] = "open" /\ net'.sock[p] = net.sock[p]
  BY <1>1
<1>3. CASE ~Up(net, p)
  BY <1>2, <1>3, NoConnection, <1>1 DEF Up
<1>4. CASE Up(net, p)
  <2>0. got[f] \in Seq(Bytes) /\ got[p] \in Seq(Bytes) /\ Mine(p, held[p]) \in Seq(Bytes)
        /\ net.wire[p] \in Seq(Bytes) /\ <<>> \in Seq(Bytes)
    BY <1>1, OutgoingType, EmptySeq DEF Typed, HistoryTyped, LinkTyped, Mine
  <2>1. Mine(p, held[p])' = Mine(p, held[p]) /\ Mine(p, out[p])' = Mine(p, out[p])
        /\ Mine(f, held[f])' = <<>> /\ Mine(f, out[f])' = <<>>
        /\ Mine(f, held[f]) = <<>> /\ Mine(f, out[f]) = <<>>
    BY <1>2 DEF Mine
  <2>2. LedgerOf(p)'
    <3>1. /\ net.sock[p] = "ready" => taken[p] = <<>> /\ net.wire[p] = <<>>
          /\ taken[p] = ((got[f] \o Mine(f, held[f])) \o net.wire[p]) \o Mine(p, out[p])
      BY <1>1, <1>4 DEF Ledger, LedgerOf, Up
    <3>2. taken'[p] = ((got'[f] \o Mine(f, held[f])') \o net'.wire[p]) \o Mine(p, out[p])'
      BY <2>1, <3>1, Zenon
    <3>3. net.sock[p] = "ready" => taken'[p] = <<>> /\ net'.wire[p] = <<>>
      BY <3>1
    <3>. QED
      BY <1>1, <1>2, <3>2, <3>3 DEF LedgerOf
  <2>3. LedgerOf(f)'
    <3>1. /\ taken[f] = <<>> /\ net.wire[f] = <<>>
          /\ net.sock[p] = "ready" => got[p] = <<>>
          /\ taken[f] = ((got[p] \o Mine(p, held[p])) \o net.wire[f]) \o Mine(f, out[f])
      BY <1>4 DEF Ledger, LedgerOf, Up
    <3> DEFINE x == got[p] \o Mine(p, held[p])
    <3>2. x \in Seq(Bytes)
      BY <2>0, JoinedType, Zenon
    <3>3. <<>> = (x \o <<>>) \o <<>>
      BY <2>1, <3>1, Zenon
    <3> HIDE DEF x
    <3>4. x = <<>>
      BY <3>2, <3>3, EmptyJoin
    <3>5. PICK s \in Seq(Bytes) : taken'[f] = s /\ net'.wire[f] = s
      OBVIOUS
    <3>6. s = (<<>> \o s) \o <<>>
      BY EmptyJoin
    <3>7. x = got'[p] \o Mine(p, held[p])'
      BY <2>1, Zenon DEF x
    <3>8. taken'[f] = ((got'[p] \o Mine(p, held[p])') \o net'.wire[f]) \o Mine(f, out[f])'
      BY <2>1, <3>4, <3>5, <3>6, <3>7, Zenon
    <3>9. net.sock[p] = "ready" => got'[p] = <<>>
      BY <3>1
    <3>. QED
      BY <1>2, <3>8, <3>9 DEF LedgerOf
  <2>. QED
    BY <1>1, <2>2, <2>3 DEF Ledger
<1>. QED
  BY <1>3, <1>4

LEMMA PumpedLedger ==
  ASSUME Typed, Ledger, NEW f \in End, net.sock[f] = "open",
         NEW n \in 0 .. Len(Outgoing(f)), NEW m \in 0 .. Len(net.wire[Peer(f)]),
         Sends(f, n), net' = Moved(f, n, m),
         NEW s \in Seq(Bytes), got' = [got EXCEPT ![f] = @ \o s],
         held'[Peer(f)] = held[Peer(f)], held'[f] \in Seq(Bytes),
         s \o held'[f] = held[f] \o Upto(net.wire[Peer(f)], m)
  PROVE  Ledger'
<1> DEFINE p == Peer(f)
<1>1. p \in End /\ Peer(p) = f /\ p # f /\ End = {f, p}
  BY PeerEnd
<1>0. net \in NetType
  BY DEF Typed, NetTyped, GoodNet
<1>2. net'.sock = net.sock
  BY <1>0 DEF Moved, NetType
<1>3. net'.wire[f] = net.wire[f] \o Upto(Outgoing(f), n)
  BY <1>0, <1>1 DEF Moved, NetType
<1>4. net'.wire[p] = From(net.wire[p], m)
  BY <1>0, <1>1 DEF Moved, NetType
<1>5. out' = [out EXCEPT ![f] = Rest(Outgoing(f), n)] /\ taken' = [taken EXCEPT ![f] = @ \o chan[f].tx]
  BY DEF Sends, Drains
<1>6. out \in [End -> Seq(Bytes)] /\ taken \in [End -> Seq(Bytes)] /\ got \in [End -> Seq(Bytes)]
  BY DEF Typed, LinkTyped, HistoryTyped
<1>7. Sent(f, n)
  <2>1. out'[f] = Rest(Outgoing(f), n) /\ taken'[f] = taken[f] \o chan[f].tx /\ got'[p] = got[p]
    BY <1>1, <1>5, <1>6
  <2>. QED
    BY <1>2, <1>3, <2>1, Zenon DEF Sent
<1>8. LedgerOf(f)'
  BY <1>7, SentLedger DEF Ledger
<1>9. got'[f] \o held'[f] = got[f] \o (held[f] \o Upto(net.wire[p], m))
  <2>1. got'[f] = got[f] \o s /\ got[f] \in Seq(Bytes)
    BY <1>6
  <2>2. (got[f] \o s) \o held'[f] = got[f] \o (s \o held'[f])
    BY <2>1, Assoc, Zenon
  <2>. QED
    BY <2>1, <2>2, Zenon
<1>10. out'[p] = out[p] /\ taken'[p] = taken[p]
  BY <1>1, <1>5, <1>6
<1>11. LedgerOf(p)'
  BY <1>1, <1>2, <1>4, <1>9, <1>10, ReadLedger, Zenon DEF Ledger
<1>. QED
  BY <1>1, <1>8, <1>11 DEF Ledger

LEMMA NextLedger == Typed /\ Programs /\ Ledger /\ [Next]_vars => Ledger'
<1> SUFFICES ASSUME Typed, Programs, Ledger, [Next]_vars PROVE Ledger'
  OBVIOUS
<1>0. /\ out \in [End -> Seq(Bytes)] /\ held \in [End -> Seq(Bytes)]
      /\ taken \in [End -> Seq(Bytes)] /\ got \in [End -> Seq(Bytes)]
      /\ GoodNet(net) /\ net \in NetType /\ net.sock \in [End -> Sockets]
      /\ <<>> \in Seq(Bytes)
  BY EmptySeq DEF Typed, LinkTyped, HistoryTyped, NetTyped, GoodNet, NetType
<1>s. \A e \in End : net.sock[e] \in SocksOf(state[e])
  BY DEF Typed, NetTyped
<1>u. ASSUME net' = net, taken' = taken, got' = got, held' = held, out' = out PROVE Ledger'
  BY <1>u, LedgerStays DEF Ledger
<1>1. CASE UNCHANGED vars
  BY <1>1, <1>u DEF vars, link, history
<1>2. ASSUME NEW e \in End, Establish(e) PROVE Ledger'
  <2>1. /\ net'.sock = [x \in End |-> "ready"] /\ net'.wire = [x \in End |-> <<>>]
        /\ taken' = [x \in End |-> <<>>] /\ got' = [x \in End |-> <<>>]
    BY <1>2 DEF Establish
  <2>2. ASSUME NEW y \in End PROVE LedgerOf(y)'
    <3>1. Peer(y) \in End
      BY PeerEnd
    <3>2. Mine(y, out[y])' = <<>> /\ Mine(Peer(y), held[Peer(y)])' = <<>>
      BY <2>1, <3>1 DEF Mine
    <3>3. taken'[y] = <<>> /\ net'.wire[y] = <<>> /\ got'[Peer(y)] = <<>>
      BY <2>1, <3>1
    <3>4. <<>> \o <<>> = <<>>
      BY <1>0, EmptyJoin
    <3>5. taken'[y] = ((got'[Peer(y)] \o Mine(Peer(y), held[Peer(y)])') \o net'.wire[y]) \o Mine(y, out[y])'
      BY <3>2, <3>3, <3>4, Zenon
    <3>. QED
      BY <3>3, <3>5 DEF LedgerOf
  <2>. QED
    BY <2>2 DEF Ledger
<1>3. ASSUME NEW e \in End, Refuse(e) PROVE Ledger'
  <2>1. net'.sock[e] = "refused"
    BY <1>0, <1>3, RefuseTyped
  <2>. QED
    BY <2>1, NoConnection
<1>4. ASSUME NEW e \in End, Resets(e) PROVE Ledger'
  <2>1. net'.sock[Peer(e)] \notin {"ready", "open"} /\ Peer(e) \in End
    BY <1>4, ResetsTyped, PeerEnd DEF Resets, Up
  <2>. QED
    BY <2>1, NoConnection
<1>5. ASSUME NEW e \in End,
             \/ Transmit(e) \/ Receive(e)
             \/ \E o \in {"off", "host", "join"} : Choose(e, o)
      PROVE  Ledger'
  <2>1. net' = net /\ taken' = taken /\ got' = got /\ held' = held /\ out' = out
    BY <1>5 DEF Transmit, Receive, Choose, link, history
  <2>. QED
    BY <1>u, <2>1
<1>6. ASSUME NEW e \in End, NEW o \in {"host", "join"}, Attempt(e, o) PROVE Ledger'
  <2>1. net'.sock[e] \in {"listening", "connecting"}
    BY <1>0, <1>6 DEF Attempt, Asks, NetType
  <2>. QED
    BY <2>1, NoConnection
<1>7. ASSUME NEW e \in End, net' \in Hung(net, e) PROVE Ledger'
  <2>1. net'.sock = [net.sock EXCEPT ![e] = "none"]
    BY <1>0, <1>7, HungKeeps
  <2>2. net'.sock[e] = "none"
    BY <1>0, <2>1
  <2>. QED
    BY <2>2, NoConnection
<1>8. ASSUME NEW e \in End, GiveUp(e) \/ Reload(e) \/ Leave(e) \/ Tidy(e) PROVE Ledger'
  BY <1>7, <1>8 DEF GiveUp, Reload, Leave, Tidy
<1>9. ASSUME NEW e \in End, ApplyOption(e) PROVE Ledger'
  <2>1. held' = held /\ taken' = taken /\ got' = got
    BY <1>9 DEF ApplyOption, history
  <2>2. \/ net' \in Hung(net, e)
        \/ out' = out /\ net' = net
        \/ net' = Asks(net, e, option[e])
        \/ ~Armed(e) /\ net' = net
    BY <1>9 DEF ApplyOption
  <2>3. CASE net' = Asks(net, e, option[e])
    <3>1. net'.sock[e] \in {"listening", "connecting"}
      BY <1>0, <2>3 DEF Asks, NetType
    <3>. QED
      BY <3>1, NoConnection
  <2>4. CASE ~Armed(e) /\ net' = net
    <3>1. net'.sock[e] = "none"
      BY <1>s, <2>4 DEF Armed, SocksOf
    <3>. QED
      BY <3>1, NoConnection
  <2>. QED
    BY <1>7, <1>u, <2>1, <2>2, <2>3, <2>4
<1>10. ASSUME NEW e \in End, Poll(e) PROVE Ledger'
  <2>1. /\ net.sock[e] = "ready" /\ net'.sock = [net.sock EXCEPT ![e] = "open"] /\ net'.wire = net.wire
        /\ out' = out /\ held' = held /\ got' = got /\ taken' = taken /\ Peer(e) \in End
    BY <1>10, PollTyped, PeerEnd DEF Poll, history
  <2>2. out'[e] = <<>> /\ held'[e] = <<>>
    BY <1>10, <2>1 DEF Poll, Programs, ProgramsOf
  <2>3. CASE Up(net, Peer(e))
    <3>1. taken[e] = <<>> /\ net.wire[e] = <<>>
      BY <2>1, <2>3 DEF Ledger, LedgerOf, Up
    <3>2. \E s \in Seq(Bytes) : taken'[e] = s /\ net'.wire[e] = s
      BY <1>0, <2>1, <3>1
    <3>. QED
      BY <2>1, <2>2, <3>2, TakenUp
  <2>4. CASE ~Up(net, Peer(e))
    <3>1. net'.sock[Peer(e)] \notin {"ready", "open"}
      BY <1>0, <2>1, <2>4, PeerEnd DEF Up
    <3>. QED
      BY <2>1, <3>1, NoConnection
  <2>. QED
    BY <2>3, <2>4
<1>11. ASSUME NEW e \in End, Attach(e) PROVE Ledger'
  <2>1. /\ net.sock[e] = "ready" /\ net'.sock = [net.sock EXCEPT ![e] = "open"] /\ got' = got
        /\ Peer(e) \in End /\ Peer(e) # e
    BY <1>11, AttachTyped, PeerEnd DEF Attach
  <2>2. out' = [out EXCEPT ![e] = <<>>] /\ held' = [held EXCEPT ![e] = <<>>]
    BY <1>11 DEF Attach
  <2>3. /\ out'[e] = <<>> /\ held'[e] = <<>>
        /\ out'[Peer(e)] = out[Peer(e)] /\ held'[Peer(e)] = held[Peer(e)]
    BY <1>0, <2>1, <2>2
  <2>4. CASE Up(net, Peer(e))
    <3>1. taken[e] = <<>> /\ net.wire[e] = <<>>
      BY <2>1, <2>4 DEF Ledger, LedgerOf, Up
    <3>2. /\ taken'[Peer(e)] = taken[Peer(e)] /\ net'.wire[Peer(e)] = net.wire[Peer(e)]
          /\ \E s \in Seq(Bytes) : taken'[e] = s /\ net'.wire[e] = s
      <4>1. CASE kind[e] = "mirror"
        <5>1. /\ net' = [net EXCEPT !.sock[e] = "open", !.wire[e] = Hello]
              /\ taken' = [taken EXCEPT ![e] = Hello]
          BY <1>11, <4>1 DEF Attach
        <5>2. net'.wire = [net.wire EXCEPT ![e] = Hello] /\ net.wire \in [End -> Seq(Bytes)]
          BY <1>0, <5>1 DEF NetType
        <5>. QED
          BY <1>0, <2>1, <5>1, <5>2, HelloType
      <4>2. CASE kind[e] # "mirror"
        <5>1. net'.wire = net.wire /\ taken' = taken
          BY <1>0, <1>11, <4>2 DEF Attach, NetType
        <5>. QED
          BY <1>0, <3>1, <5>1
      <4>. QED
        BY <4>1, <4>2
    <3>. QED
      BY <2>1, <2>3, <3>2, TakenUp
  <2>5. CASE ~Up(net, Peer(e))
    <3>1. net'.sock[Peer(e)] \notin {"ready", "open"}
      BY <1>0, <2>1, <2>5 DEF Up
    <3>. QED
      BY <2>1, <3>1, NoConnection
  <2>. QED
    BY <2>4, <2>5
<1>12. ASSUME NEW e \in End, net'.sock[e] = "none" PROVE Ledger'
  BY <1>12, NoConnection
<1>13. ASSUME NEW e \in End, PumpFails(e) PROVE Ledger'
  BY <1>12, <1>13, PumpFailsTyped DEF Cut
<1>14. ASSUME NEW e \in End, RetroPump(e) PROVE Ledger'
  <2>1. kind[e] = "retro" /\ state[e] = "connected" /\ held' = held
    BY <1>14, RetroPumped
  <2>2. PICK n \in 0 .. Len(Outgoing(e)), m \in 0 .. Len(net.wire[Peer(e)]) :
          /\ Sends(e, n)
          /\ got' = [got EXCEPT ![e] = @ \o Upto(net.wire[Peer(e)], m)]
          /\ Kept(e, n, m) \/ Cut(e, net.hears[e])
    BY <1>14, RetroPumped
  <2>3. CASE Cut(e, net.hears[e])
    BY <1>12, <2>3 DEF Cut
  <2>4. CASE Kept(e, n, m)
    <3> DEFINE s == Upto(net.wire[Peer(e)], m)
    <3>1. net.sock[e] = "open" /\ held[e] = <<>> /\ Peer(e) \in End
      BY <1>s, <2>1, PeerEnd DEF SocksOf, Programs, ProgramsOf
    <3>2. s \in Seq(Bytes)
      BY <3>1, OutgoingType, SplitAt
    <3>3. net' = Moved(e, n, m) /\ got' = [got EXCEPT ![e] = @ \o s]
      BY <2>2, <2>4 DEF Kept
    <3>6. s = Upto(net.wire[Peer(e)], m)
      OBVIOUS
    <3> HIDE DEF s
    <3>5. held'[e] = <<>> /\ held'[e] \in Seq(Bytes) /\ held'[Peer(e)] = held[Peer(e)]
      BY <1>0, <2>1, <3>1
    <3>4. s \o held'[e] = held[e] \o s
      BY <3>1, <3>2, <3>5, EmptyJoin
    <3>7. s \o held'[e] = held[e] \o Upto(net.wire[Peer(e)], m)
      BY <3>4, <3>6, Zenon
    <3>8. Sends(e, n)
      BY <2>2
    <3>. QED
      BY <3>1, <3>2, <3>3, <3>5, <3>7, <3>8, PumpedLedger, Zenon
  <2>. QED
    BY <2>2, <2>3, <2>4
<1>15. ASSUME NEW e \in End, ShellPump(e) PROVE Ledger'
  <2>1. /\ kind[e] = "shell" /\ state[e] = "connected"
        /\ \A y \in End : y # e => held'[y] = held[y]
    BY <1>15, ShellPumped
  <2>2. PICK n \in 0 .. Len(Outgoing(e)), m \in 0 .. Len(net.wire[Peer(e)]) :
          /\ Sends(e, n)
          /\ got' = [got EXCEPT ![e] = @ \o Fed(e, Seen(e, m))]
          /\ held'[e] = IF Undecided(e, Seen(e, m)) THEN Seen(e, m) ELSE <<>>
          /\ \/ Kept(e, n, m) /\ ~IsHello(e, Seen(e, m))
             \/ Cut(e, net.hears[e]) \/ Cut(e, "mirror")
    BY <1>15, ShellPumped
  <2>3. CASE Cut(e, net.hears[e]) \/ Cut(e, "mirror")
    BY <1>12, <2>3 DEF Cut
  <2>4. CASE Kept(e, n, m) /\ ~IsHello(e, Seen(e, m))
    <3> DEFINE all == Seen(e, m)
               s == Fed(e, all)
    <3>1. net.sock[e] = "open" /\ Peer(e) \in End /\ Peer(e) # e
      BY <1>s, <2>1, PeerEnd DEF SocksOf
    <3>2. all \in Seq(Bytes)
      <4>1. Upto(net.wire[Peer(e)], m) \in Seq(Bytes)
        BY <3>1, OutgoingType, SplitAt
      <4>. QED
        BY <1>0, <4>1, JoinedType, Zenon DEF Seen
    <3>3. net' = Moved(e, n, m) /\ got' = [got EXCEPT ![e] = @ \o s]
      BY <2>2, <2>4 DEF Kept
    <3>4. \/ s = <<>> /\ held'[e] = all
          \/ s = all /\ held'[e] = <<>>
      BY <2>2, <2>4 DEF Fed
    <3>7. all = held[e] \o Upto(net.wire[Peer(e)], m)
      BY DEF Seen
    <3> HIDE DEF s, all
    <3>5. s \in Seq(Bytes) /\ held'[e] \in Seq(Bytes)
      BY <1>0, <3>2, <3>4
    <3>6. s \o held'[e] = all
      BY <3>2, <3>4, EmptyJoin
    <3>8. held'[Peer(e)] = held[Peer(e)] /\ Sends(e, n)
      BY <2>1, <2>2, <3>1
    <3>9. s \o held'[e] = held[e] \o Upto(net.wire[Peer(e)], m)
      BY <3>6, <3>7
    <3>. QED
      BY <3>1, <3>3, <3>5, <3>8, <3>9, PumpedLedger, Zenon
  <2>. QED
    BY <2>2, <2>3, <2>4
<1>16. ASSUME NEW e \in End, MirrorReads(e) PROVE Ledger'
  <2> DEFINE p == Peer(e)
  <2>1. /\ net'.sock = net.sock /\ net'.wire = [net.wire EXCEPT ![p] = <<>>]
        /\ got' = [got EXCEPT ![e] = @ \o net.wire[p]]
        /\ out' = out /\ held' = held /\ taken' = taken
    BY <1>16, MirrorReadsTyped DEF link
  <2>2. /\ p \in End /\ p # e /\ Peer(p) = e /\ End = {e, p}
        /\ net.wire \in [End -> Seq(Bytes)] /\ net.sock[e] = "open" /\ held[e] = <<>>
    BY <1>0, <1>s, <1>16, PeerEnd DEF MirrorReads, SocksOf, Programs, ProgramsOf, NetType
  <2>3. LedgerOf(e)'
    <3>1. got'[p] = got[p] /\ net'.wire[e] = net.wire[e]
      BY <1>0, <2>1, <2>2
    <3>. QED
      BY <2>1, <3>1 DEF Ledger, LedgerOf, Mine, Up
  <2>4. LedgerOf(p)'
    <3> DEFINE g == got[e]
               w == net.wire[p]
    <3>1. g \in Seq(Bytes) /\ w \in Seq(Bytes) /\ got'[e] = g \o w /\ net'.wire[p] = <<>>
      BY <1>0, <2>1, <2>2
    <3>2. Mine(e, held[e]) = <<>> /\ Mine(e, held[e])' = <<>> /\ Mine(p, out[p])' = Mine(p, out[p])
      BY <2>1, <2>2 DEF Mine
    <3>3. CASE Up(net, p)
      <4>1. taken[p] = ((g \o <<>>) \o w) \o Mine(p, out[p])
        BY <2>2, <3>2, <3>3 DEF Ledger, LedgerOf, Up
      <4>2. net.sock[p] = "ready" => taken[p] = <<>>
        BY <2>2, <3>3 DEF Ledger, LedgerOf, Up
      <4> HIDE DEF g, w
      <4>3. g \o w \in Seq(Bytes)
        BY <3>1, JoinedType, Zenon
      <4>4. (g \o <<>>) \o w = ((g \o w) \o <<>>) \o <<>>
        BY <3>1, <4>3, EmptyJoin, Zenon
      <4>5. taken'[p] = ((got'[e] \o Mine(e, held[e])') \o net'.wire[p]) \o Mine(p, out[p])'
        BY <2>1, <3>1, <3>2, <4>1, <4>4, Zenon
      <4>6. net'.sock[p] = "ready" => taken'[p] = <<>> /\ net'.wire[p] = <<>>
        BY <2>1, <3>1, <4>2
      <4>7. net'.sock[e] = "open"
        BY <2>1, <2>2
      <4>. QED
        BY <2>2, <4>5, <4>6, <4>7 DEF LedgerOf
    <3>4. CASE ~Up(net, p)
      BY <2>1, <3>4 DEF LedgerOf, Up
    <3>. QED
      BY <3>3, <3>4
  <2>. QED
    BY <2>2, <2>3, <2>4 DEF Ledger
<1>. QED
  BY <1>1, <1>2, <1>3, <1>4, <1>5, <1>6, <1>8, <1>9, <1>10, <1>11, <1>13, <1>14, <1>15, <1>16
     DEF Next, Frame, Pump

LEMMA AlwaysLedger == Spec => []Ledger
<1>1. Init => Ledger
  <2>1. Init => \A e \in End : net.sock[e] = "none"
    BY DEF Init
  <2>. QED
    BY <2>1 DEF Ledger, LedgerOf, Up
<1>. QED
  BY <1>1, NextLedger, AlwaysPrograms, PTL DEF Spec

\* The cable loses, repeats and reorders no byte of a connection: what one console gave is
\* what the other was given, what its program holds, what the kernels hold and what waits
\* for room in them, in this order (TcpLink.pump, CableLink::pump).
THEOREM NothingIsLost == Spec => []NothingLost
<1>1. Ledger => NothingLost
  <2> SUFFICES ASSUME Ledger, NEW e \in End, Linked
               PROVE  taken[e] = got[Peer(e)] \o held[Peer(e)] \o net.wire[e] \o out[e]
    BY DEF NothingLost
  <2>1. net.sock[e] = "open" /\ net.sock[Peer(e)] = "open"
    BY PeerEnd DEF Linked
  <2>2. Mine(Peer(e), held[Peer(e)]) = held[Peer(e)] /\ Mine(e, out[e]) = out[e]
    BY <2>1 DEF Mine
  <2>3. taken[e] = ((got[Peer(e)] \o Mine(Peer(e), held[Peer(e)])) \o net.wire[e]) \o Mine(e, out[e])
    BY <2>1 DEF Ledger, LedgerOf, Up
  <2>. QED
    BY <2>2, <2>3, Zenon
<1>. QED
  BY <1>1, AlwaysLedger, PTL

\* A peer's last words count: the pump that hears of a tidy departure has given the game
\* every byte that was on the way, whether it is the desktop's, once it knows what it reads,
\* or the core's (TcpLink.pump, CableLink::pump).
THEOREM LastWordsCount == Spec => LastWords
<1> DEFINE Words == \A e \in End :
              state[e] = "connected" /\ why'[e] = "fin" /\ (kind[e] = "retro" \/ Decided(e))
                => Len(got'[e]) = Len(got[e]) + Len(net.wire[Peer(e)])
<1>1. ASSUME Typed, Programs, [Next]_vars PROVE [Words]_vars
  <2> SUFFICES ASSUME Next, NEW e \in End, state[e] = "connected", why'[e] = "fin",
                      kind[e] = "retro" \/ Decided(e)
               PROVE  Len(got'[e]) = Len(got[e]) + Len(net.wire[Peer(e)])
    BY <1>1
  <2>0. /\ why[e] = "nothing" /\ (Decided(e) => held[e] = <<>>) /\ (kind[e] = "retro" => held[e] = <<>>)
        /\ why \in [End -> {"nothing", "sending", "fin", "reset", "mirror"}]
        /\ got \in [End -> Seq(Bytes)] /\ Peer(e) \in End /\ net.wire[Peer(e)] \in Seq(Bytes)
    <3>1. Peer(e) \in End
      BY PeerEnd
    <3>2. ProgramsOf(e)
      BY <1>1 DEF Programs
    <3>. QED
      BY <1>1, <3>1, <3>2, OutgoingType DEF ProgramsOf, Typed, LinkTyped, HistoryTyped
  <2>m. ASSUME NEW m \in 0 .. Len(net.wire[Peer(e)]), m = Len(net.wire[Peer(e)]),
               got' = [got EXCEPT ![e] = @ \o Upto(net.wire[Peer(e)], m)]
        PROVE  Len(got'[e]) = Len(got[e]) + Len(net.wire[Peer(e)])
    <3> DEFINE u == Upto(net.wire[Peer(e)], m)
    <3>1. u \in Seq(Bytes) /\ Len(u) = m
      BY <2>0, SplitAt
    <3>2. got'[e] = got[e] \o u /\ got[e] \in Seq(Bytes)
      BY <2>0, <2>m
    <3> HIDE DEF u
    <3>3. Len(got[e] \o u) = Len(got[e]) + Len(u)
      BY <3>1, <3>2, ConcatProperties
    <3>. QED
      BY <2>m, <3>1, <3>2, <3>3
  <2>1. ASSUME NEW f \in End,
               \/ Establish(f) \/ Refuse(f) \/ Resets(f) \/ Transmit(f) \/ Receive(f) \/ MirrorReads(f)
               \/ \E o \in {"off", "host", "join"} : Choose(f, o)
               \/ \E o \in {"host", "join"} : Attempt(f, o)
               \/ GiveUp(f) \/ Leave(f) \/ Reload(f) \/ Poll(f) \/ Tidy(f)
        PROVE  FALSE
    <3>1. why' = why
      BY <2>1 DEF Establish, Refuse, Resets, Transmit, Receive, MirrorReads, Choose, Attempt,
         GiveUp, Leave, Reload, Poll, Tidy, link
    <3>. QED
      BY <2>0, <3>1
  <2>2. ASSUME NEW f \in End, ApplyOption(f) \/ Attach(f) PROVE FALSE
    <3>1. why' = why \/ why' = [why EXCEPT ![f] = "nothing"]
      BY <2>2 DEF ApplyOption, Attach
    <3>. QED
      BY <2>0, <3>1
  <2>3. ASSUME NEW f \in End, PumpFails(f) PROVE FALSE
    <3>1. why' = [why EXCEPT ![f] = "sending"]
      BY <2>3 DEF PumpFails, Lose
    <3>. QED
      BY <2>0, <3>1
  <2>4. ASSUME NEW f \in End, RetroPump(f)
        PROVE  Len(got'[e]) = Len(got[e]) + Len(net.wire[Peer(e)])
    <3>1. PICK n \in 0 .. Len(Outgoing(f)), m \in 0 .. Len(net.wire[Peer(f)]) :
            /\ got' = [got EXCEPT ![f] = @ \o Upto(net.wire[Peer(f)], m)]
            /\ \/ Kept(f, n, m)
               \/ /\ Cut(f, net.hears[f])
                  /\ net.hears[f] = "fin" => m = Len(net.wire[Peer(f)])
      BY <1>1, <2>4, RetroPumped
    <3>2. why' = why \/ why' = [why EXCEPT ![f] = net.hears[f]]
      BY <3>1 DEF Kept, Cut
    <3>3. f = e /\ net.hears[e] = "fin" /\ ~Kept(f, n, m)
      BY <2>0, <3>2 DEF Kept
    <3>. QED
      BY <2>m, <3>1, <3>3
  <2>5. ASSUME NEW f \in End, ShellPump(f)
        PROVE  Len(got'[e]) = Len(got[e]) + Len(net.wire[Peer(e)])
    <3>1. PICK n \in 0 .. Len(Outgoing(f)), m \in 0 .. Len(net.wire[Peer(f)]) :
            /\ got' = [got EXCEPT ![f] = @ \o Fed(f, Seen(f, m))]
            /\ \/ Kept(f, n, m)
               \/ /\ Cut(f, net.hears[f])
                  /\ net.hears[f] = "fin" => m = Len(net.wire[Peer(f)])
               \/ Cut(f, "mirror")
      BY <1>1, <2>5, ShellPumped
    <3>2. \/ why' = why \/ why' = [why EXCEPT ![f] = "mirror"]
          \/ why' = [why EXCEPT ![f] = net.hears[f]] /\ (net.hears[f] = "fin" => m = Len(net.wire[Peer(f)]))
      BY <3>1 DEF Kept, Cut
    <3>3. f = e /\ m = Len(net.wire[Peer(f)])
      BY <2>0, <3>2
    <3>4. held[e] = <<>> /\ Decided(e)
      <4>1. kind[f] = "shell"
        BY <2>5 DEF ShellPump
      <4>. QED
        BY <2>0, <3>3, <4>1
    <3>5. Upto(net.wire[Peer(e)], m) \in Seq(Bytes)
      BY <2>0, <3>3, SplitAt
    <3>6. Seen(e, m) = Upto(net.wire[Peer(e)], m)
      BY <3>4, <3>5, EmptyJoin DEF Seen
    <3>7. Fed(e, Seen(e, m)) = Upto(net.wire[Peer(e)], m)
      BY <3>4, <3>6 DEF Fed, Undecided, IsHello
    <3>. QED
      BY <2>m, <3>1, <3>3, <3>7
  <2>. QED
    BY <2>1, <2>2, <2>3, <2>4, <2>5 DEF Next, Frame, Pump
<1>2. Spec => [][Words]_vars
  BY <1>1, AlwaysPrograms, PTL DEF Spec
<1>. QED
  BY <1>2 DEF LastWords

(***************************************************************************)
(* The peer's line                                                         *)
(***************************************************************************)
\* A shell without a connection has its cable out; a core's is in, and says nothing.  An
\* option that switches it off is applied before the connection is, unless a player
\* switches it off while it is up.
LinesOf(e) ==
  /\ kind[e] # "retro" /\ state[e] # "connected" => ~chan[e].enabled
  /\ kind[e] = "retro" /\ state[e] # "connected" => Quiet(chan[e])
  /\ told[e] => kind[e] = "retro"
  /\ told[e] /\ state[e] = "connected" => option[e] # "off"

Lines == \A e \in End : LinesOf(e)

LEMMA FifosAside ==
  ASSUME NEW c \in Chan, NEW s \in Seq(Bytes)
  PROVE  /\ [c EXCEPT !.tx = s].enabled = c.enabled /\ [c EXCEPT !.rx = s].enabled = c.enabled
         /\ Quiet([c EXCEPT !.tx = s]) <=> Quiet(c)
         /\ Quiet([c EXCEPT !.rx = s]) <=> Quiet(c)
BY FifoKeeps DEF Quiet

LEMMA NextLines == Unplugs = FALSE /\ Typed /\ Lines /\ [Next]_vars => Lines'
<1> SUFFICES ASSUME Unplugs = FALSE, Typed, Lines, [Next]_vars PROVE Lines'
  OBVIOUS
<1>0. /\ chan \in [End -> Chan] /\ \A e \in End : chan[e] \in Chan
      /\ state \in [End -> {"idle", "waiting", "connected", "lost"}]
      /\ told \in [End -> BOOLEAN] /\ option \in [End -> {"off", "host", "join"}]
  BY DEF Typed, ConsoleTyped, LinkTyped, PlayerTyped
<1>1. CASE UNCHANGED vars
  BY <1>1 DEF vars, programs, player, link, console, Lines, LinesOf
<1>2. ASSUME NEW e \in End,
             Establish(e) \/ Refuse(e) \/ Resets(e) \/ MirrorReads(e)
      PROVE  Lines'
  <2>1. UNCHANGED <<kind, state, chan, told, option>>
    BY <1>2 DEF Establish, Refuse, Resets, MirrorReads, programs, player, link, console
  <2>. QED
    BY <2>1 DEF Lines, LinesOf
<1>3. ASSUME NEW e \in End, Transmit(e) \/ Receive(e) PROVE Lines'
  <2>1. chan[e].tx \in Seq(Bytes) /\ chan[e].rx \in Seq(Bytes)
    <3>1. chan[e] \in Chan
      BY <1>0
    <3>. QED
      BY <3>1 DEF Chan, ChannelOver
  <2>2. UNCHANGED <<kind, state, told, option>>
    BY <1>3 DEF Transmit, Receive, programs, player, link
  <2>3. \E c : /\ chan' = [chan EXCEPT ![e] = c]
               /\ c.enabled = chan[e].enabled /\ (Quiet(c) <=> Quiet(chan[e]))
    <3>1. CASE Transmit(e)
      <4> DEFINE b == Byte(e, wrote[e] + 1)
                 s == Append(chan[e].tx, b)
      <4>1. wrote[e] \in Nat
        BY DEF Typed, ConsoleTyped
      <4>2. b \in Bytes
        BY <4>1 DEF Byte, Bytes
      <4>3. chan' = [chan EXCEPT ![e] = [chan[e] EXCEPT !.tx = s]]
        BY <1>0, <3>1 DEF Transmit
      <4> HIDE DEF b
      <4>4. s \in Seq(Bytes)
        BY <2>1, <4>2, AppendProperties
      <4> HIDE DEF s
      <4>5. /\ [chan[e] EXCEPT !.tx = s].enabled = chan[e].enabled
            /\ (Quiet([chan[e] EXCEPT !.tx = s]) <=> Quiet(chan[e]))
        BY <1>0, <4>4, FifosAside
      <4> DEFINE c == [chan[e] EXCEPT !.tx = s]
      <4>6. chan' = [chan EXCEPT ![e] = c] /\ c.enabled = chan[e].enabled /\ (Quiet(c) <=> Quiet(chan[e]))
        BY <4>3, <4>5
      <4> HIDE DEF c
      <4>. QED
        BY <4>6
    <3>2. CASE Receive(e)
      <4> DEFINE s == Tail(chan[e].rx)
      <4>3. chan' = [chan EXCEPT ![e] = [chan[e] EXCEPT !.rx = s]]
        BY <1>0, <3>2 DEF Receive
      <4>4. s \in Seq(Bytes)
        BY <2>1, <3>2, HeadTailProperties DEF Receive
      <4> HIDE DEF s
      <4>5. /\ [chan[e] EXCEPT !.rx = s].enabled = chan[e].enabled
            /\ (Quiet([chan[e] EXCEPT !.rx = s]) <=> Quiet(chan[e]))
        BY <1>0, <4>4, FifosAside
      <4> DEFINE c == [chan[e] EXCEPT !.rx = s]
      <4>6. chan' = [chan EXCEPT ![e] = c] /\ c.enabled = chan[e].enabled /\ (Quiet(c) <=> Quiet(chan[e]))
        BY <4>3, <4>5
      <4> HIDE DEF c
      <4>. QED
        BY <4>6
    <3>. QED
      BY <1>3, <3>1, <3>2
  <2>4. PICK c : /\ chan' = [chan EXCEPT ![e] = c]
                 /\ c.enabled = chan[e].enabled /\ (Quiet(c) <=> Quiet(chan[e]))
    BY <2>3
  <2>5. ASSUME NEW y \in End PROVE LinesOf(y)'
    <3>1. chan'[y].enabled = chan[y].enabled /\ (Quiet(chan'[y]) <=> Quiet(chan[y]))
      BY <1>0, <2>4
    <3>. QED
      BY <2>2, <3>1 DEF Lines, LinesOf
  <2>. QED
    BY <2>5 DEF Lines
<1>4. ASSUME NEW e \in End, NEW o \in {"off", "host", "join"}, Choose(e, o) PROVE Lines'
  <2>1. /\ UNCHANGED <<kind, state, chan>> /\ kind[e] = "retro"
        /\ ~(o = "off" /\ state[e] = "connected")
        /\ option' = [option EXCEPT ![e] = o] /\ told' = [told EXCEPT ![e] = TRUE]
    BY <1>4 DEF Choose, programs, link, console
  <2>. QED
    BY <1>0, <2>1 DEF Lines, LinesOf
<1>5. ASSUME NEW e \in End,
             \/ \E o \in {"host", "join"} : Attempt(e, o)
             \/ GiveUp(e)
      PROVE  Lines'
  <2>1. /\ UNCHANGED <<kind, chan, option, told>> /\ kind[e] # "retro" /\ state[e] # "connected"
        /\ \E s \in {"waiting", "idle"} : state' = [state EXCEPT ![e] = s]
    BY <1>5 DEF Attempt, GiveUp, programs, player, console
  <2>. QED
    BY <1>0, <2>1 DEF Lines, LinesOf
<1>6. ASSUME NEW e \in End, Reload(e) PROVE Lines'
  <2>1. /\ UNCHANGED <<kind, option>> /\ kind[e] = "retro"
        /\ state' = [state EXCEPT ![e] = "idle"] /\ told' = [told EXCEPT ![e] = TRUE]
        /\ chan' = [chan EXCEPT ![e] = Plain]
    BY <1>6 DEF Reload, programs
  <2>2. Quiet(Plain)
    BY PlainChan DEF Quiet
  <2>. QED
    BY <1>0, <2>1, <2>2 DEF Lines, LinesOf
<1>7. ASSUME NEW e \in End, NEW on \in BOOLEAN
      PROVE  /\ SetEnabled(chan[e], on).enabled = on
             /\ Quiet(SetEnabled(chan[e], on)) <=> Quiet(chan[e])
  BY <1>0, SetEnabledKeeps DEF Quiet
<1>8. ASSUME NEW e \in End, Leave(e) PROVE Lines'
  <2>1. /\ UNCHANGED <<kind, option, told>> /\ kind[e] # "retro"
        /\ state' = [state EXCEPT ![e] = "idle"]
        /\ chan' = [chan EXCEPT ![e] = SetEnabled(chan[e], FALSE)]
    BY <1>0, <1>8 DEF Leave, Plug, programs, player
  <2>2. SetEnabled(chan[e], FALSE).enabled = FALSE
    BY <1>7
  <2>. QED
    BY <1>0, <2>1, <2>2 DEF Lines, LinesOf
<1>9. ASSUME NEW e \in End, kind[e] = "retro", kind' = kind, option' = option,
             ~told'[e], \A y \in End : y # e => told'[y] = told[y],
             state[e] # "connected", state'[e] # "connected",
             \A y \in End : y # e => state'[y] = state[y],
             Quiet(chan[e]) => Quiet(chan'[e]), \A y \in End : y # e => chan'[y] = chan[y]
      PROVE  Lines'
  <2>1. ASSUME NEW y \in End PROVE LinesOf(y)'
    <3>1. CASE y = e
      <4>1. Quiet(chan'[e])
        BY <1>9 DEF Lines, LinesOf
      <4>2. kind'[e] = "retro" /\ ~told'[e] /\ state'[e] # "connected"
        BY <1>9
      <4>. QED
        BY <3>1, <4>1, <4>2 DEF LinesOf
    <3>2. CASE y # e
      <4>1. kind'[y] = kind[y] /\ option'[y] = option[y] /\ told'[y] = told[y] /\ chan'[y] = chan[y]
            /\ state'[y] = state[y]
        BY <1>9, <3>2
      <4>. QED
        BY <4>1 DEF Lines, LinesOf
    <3>. QED
      BY <3>1, <3>2
  <2>. QED
    BY <2>1 DEF Lines
<1>10. ASSUME NEW e \in End, ApplyOption(e) PROVE Lines'
  <2>1. /\ kind' = kind /\ option' = option /\ told[e] /\ told' = [told EXCEPT ![e] = FALSE]
        /\ kind[e] = "retro" /\ (state[e] = "connected" => option[e] # "off")
    BY <1>10 DEF ApplyOption, Lines, LinesOf, programs
  <2>2. \/ state' = state /\ chan' = chan
        \/ /\ state[e] # "connected"
           /\ \/ chan' = chan
              \/ \E on \in BOOLEAN : chan' = [chan EXCEPT ![e] = SetEnabled(chan[e], on)]
           /\ \E s \in {"idle", "waiting"} : state' = [state EXCEPT ![e] = s]
    <3>1. \A on \in BOOLEAN : Plug(e, on) => chan' = [chan EXCEPT ![e] = SetEnabled(chan[e], on)]
      BY <1>0 DEF Plug
    <3>2. CASE option[e] = "off"
      BY <1>10, <2>1, <3>1, <3>2 DEF ApplyOption, Unplugged
    <3>3. CASE option[e] # "off"
      BY <1>10, <2>1, <3>1, <3>3 DEF ApplyOption, Unplugged, Armed
    <3>. QED
      BY <3>2, <3>3
  <2>3. CASE state' = state /\ chan' = chan
    BY <1>0, <2>1, <2>3 DEF Lines, LinesOf
  <2>4. CASE /\ state[e] # "connected"
             /\ \/ chan' = chan
                \/ \E on \in BOOLEAN : chan' = [chan EXCEPT ![e] = SetEnabled(chan[e], on)]
             /\ \E s \in {"idle", "waiting"} : state' = [state EXCEPT ![e] = s]
    <3>1. PICK s \in {"idle", "waiting"} : state' = [state EXCEPT ![e] = s]
      BY <2>4
    <3>2. state'[e] # "connected" /\ \A y \in End : y # e => state'[y] = state[y]
      BY <1>0, <3>1
    <3>3. ~told'[e] /\ \A y \in End : y # e => told'[y] = told[y]
      BY <1>0, <2>1
    <3>4. (Quiet(chan[e]) => Quiet(chan'[e])) /\ \A y \in End : y # e => chan'[y] = chan[y]
      BY <1>0, <1>7, <2>4
    <3>. QED
      BY <1>9, <2>1, <2>4, <3>2, <3>3, <3>4
  <2>. QED
    BY <2>2, <2>3, <2>4
<1>11. ASSUME NEW e \in End, Tidy(e) PROVE Lines'
  <2>1. /\ kind' = kind /\ option' = option /\ told' = told /\ ~told[e]
        /\ kind[e] = "retro" /\ state[e] # "connected" /\ state' = [state EXCEPT ![e] = "idle"]
        /\ chan' = [chan EXCEPT ![e] = SetEnabled(chan[e], FALSE)]
    BY <1>0, <1>11 DEF Tidy, Unplugged, Plug, programs, player
  <2>2. /\ state'[e] # "connected" /\ \A y \in End : y # e => state'[y] = state[y]
        /\ (Quiet(chan[e]) => Quiet(chan'[e])) /\ \A y \in End : y # e => chan'[y] = chan[y]
    BY <1>0, <1>7, <2>1
  <2>. QED
    BY <1>9, <2>1, <2>2
<1>12. ASSUME NEW e \in End, Poll(e) \/ Attach(e) PROVE Lines'
  <2>1. /\ UNCHANGED <<kind, option, told>> /\ state' = [state EXCEPT ![e] = "connected"]
        /\ \A y \in End : y # e => chan'[y] = chan[y]
        /\ ~told[e]
    <3>1. CASE Poll(e)
      BY <3>1 DEF Poll, programs, player, console
    <3>2. CASE Attach(e)
      BY <1>0, <3>2 DEF Attach, programs, player, Lines, LinesOf
    <3>. QED
      BY <1>12, <3>1, <3>2
  <2>. QED
    BY <1>0, <2>1 DEF Lines, LinesOf
<1>13. ASSUME NEW e \in End, state[e] = "connected", kind' = kind, UNCHANGED player, OthersKept(e),
              \/ state'[e] = state[e]
              \/ \E r : Cut(e, r)
       PROVE  Lines'
  <2>1. ASSUME NEW y \in End PROVE LinesOf(y)'
    <3>1. LinesOf(y) /\ kind' = kind /\ option' = option /\ told' = told
      BY <1>13 DEF Lines, player
    <3>2. CASE y # e
      BY <1>13, <3>1, <3>2 DEF OthersKept, LinesOf
    <3>3. CASE y = e /\ state'[e] = state[e]
      BY <1>13, <3>1, <3>3 DEF LinesOf
    <3>4. CASE y = e /\ \E r : Cut(e, r)
      BY <3>1, <3>4 DEF Cut, LinesOf
    <3>. QED
      BY <1>13, <3>2, <3>3, <3>4
  <2>. QED
    BY <2>1 DEF Lines
<1>14. ASSUME NEW e \in End, Pump(e) PROVE Lines'
  <2>1. CASE PumpFails(e)
    <3>1. state[e] = "connected" /\ kind' = kind /\ UNCHANGED player /\ OthersKept(e) /\ Cut(e, "sending")
      BY <2>1, PumpFailsTyped DEF PumpFails, Pumps, player
    <3>. QED
      BY <1>13, <3>1
  <2>2. CASE RetroPump(e)
    <3>1. state[e] = "connected" /\ kind' = kind /\ UNCHANGED player /\ OthersKept(e)
      BY <2>2, RetroPumped
    <3>2. state' = state \/ Cut(e, net.hears[e])
      BY <2>2, RetroPumped DEF Kept
    <3>. QED
      BY <1>13, <3>1, <3>2
  <2>3. CASE ShellPump(e)
    <3>1. state[e] = "connected" /\ kind' = kind /\ UNCHANGED player /\ OthersKept(e)
      BY <2>3, ShellPumped
    <3>2. state' = state \/ Cut(e, net.hears[e]) \/ Cut(e, "mirror")
      BY <2>3, ShellPumped DEF Kept
    <3>. QED
      BY <1>13, <3>1, <3>2
  <2>. QED
    BY <1>14, <2>1, <2>2, <2>3 DEF Pump
<1>. QED
  BY <1>1, <1>2, <1>3, <1>4, <1>5, <1>6, <1>8, <1>10, <1>11, <1>12, <1>14 DEF Next, Frame

\* Without a connection a game reads that there is no peer, as long as no core's player
\* switches the cable off while it is up: losing the peer takes the line down, and a cable
\* with nobody at the far end never raised it (TcpLink.declare_peer, CableLink::drop_peer).
THEOREM LineNeedsPeer ==
  ASSUME Unplugs = FALSE
  PROVE  Spec => []NobodyNoPeer
<1>1. Init => Lines
  <2>1. ~Plain.enabled /\ Quiet(Plain)
    BY PlainChan DEF Quiet
  <2>. QED
    BY <2>1 DEF Init, Lines, LinesOf
<1>2. Typed /\ Lines /\ [Next]_vars => Lines'
  BY NextLines
<1>3. Lines => NobodyNoPeer
  BY DEF Lines, LinesOf, NobodyNoPeer, PeerDetected, Quiet, High, Low
<1>. QED
  BY <1>1, <1>2, <1>3, AlwaysTyped, PTL DEF Spec
=============================================================================
