----------------------------- MODULE MirrorProof -----------------------------
(***************************************************************************)
(* Proofs about MirrorSession, for any pads, delays, windows and match     *)
(* length.                                                                 *)
(*                                                                         *)
(* The types first.  Then why both players see one match: every copy of an *)
(* input that exists anywhere, in a pipe, a datagram, a book or the        *)
(* history, is the one its player's PC scheduled for that frame.           *)
(*                                                                         *)
(* From it: how far one PC may run ahead of the other; that a desync is    *)
(* only reported after a simulation has drifted, every checksum in flight  *)
(* or in a book being the true one; and that without UDP a drift is told   *)
(* within the input delay, a checksum coming down the pipe before the      *)
(* inputs that would let the reader pass it.                               *)
(***************************************************************************)
EXTENDS MirrorSession, TLAPS, SequenceTheorems, FiniteSetTheorems

USE PeersAssumption, PadsAssumption, NumbersAssumption DEF PC

(***************************************************************************)
(* The operators the model is built from                                   *)
(***************************************************************************)
\* LastN keeps a suffix: what deque(maxlen=n) holds after an append.
LEMMA LastNSuffix ==
  ASSUME NEW S, NEW s \in Seq(S), NEW n \in Nat \ {0}
  PROVE  /\ LastN(s, n) \in Seq(S)
         /\ Len(LastN(s, n)) <= Len(s)
         /\ \A i \in 1 .. Len(LastN(s, n)) :
              LastN(s, n)[i] = s[Len(s) - Len(LastN(s, n)) + i]
<1>1. CASE Len(s) <= n
  BY <1>1 DEF LastN
<1>2. CASE ~(Len(s) <= n)
  <2>1. LastN(s, n) = SubSeq(s, Len(s) - n + 1, Len(s))
    BY <1>2 DEF LastN
  <2>2. Len(s) - n + 1 \in 1 .. Len(s) + 1 /\ Len(s) \in Nat
    BY <1>2
  <2> QED
    BY <1>2, <2>1, <2>2, SubSeqProperties
<1> QED
  BY <1>1, <1>2

\* The input records of one call: one per frame due, in frame order.
LEMMA NewInputsProperties ==
  ASSUME NEW p \in PC, NEW pad \in Pads, schedTo[p] \in Nat \cup {-1},
         frame[p] \in Nat, delay[p] \in Nat
  PROVE  /\ NewInputs(p, pad) \in Seq(Inputs)
         /\ Len(NewInputs(p, pad)) = MaxOf(At(p) - schedTo[p], 0)
         /\ \A i \in 1 .. Len(NewInputs(p, pad)) :
              NewInputs(p, pad)[i] = Input(schedTo[p] + i, pad)
<1> DEFINE n == MaxOf(At(p) - schedTo[p], 0)
<1>1. n \in Nat
  BY DEF MaxOf, At
<1>2. \A i \in 1 .. n : Input(schedTo[p] + i, pad) \in Inputs
  BY <1>1 DEF Input, Inputs
<1>3. NewInputs(p, pad) = [i \in 1 .. n |-> Input(schedTo[p] + i, pad)]
  BY DEF NewInputs
<1> HIDE DEF n
<1>4. NewInputs(p, pad) \in [1 .. n -> Inputs]
  BY <1>1, <1>2, <1>3
<1>5. NewInputs(p, pad) \in Seq(Inputs) /\ Len(NewInputs(p, pad)) = n
  BY <1>1, <1>4, SeqDef, LenProperties
<1> QED
  BY <1>3, <1>5 DEF n

(***************************************************************************)
(* Types, and the own inputs always at hand                                *)
(***************************************************************************)
\* A PC never plays past what it has scheduled of its own pad.
ScheduleLeads == \A p \in PC : frame[p] <= schedTo[p] + 1

TypeInv == TypeOK /\ OwnInputReady /\ ScheduleLeads

LEMMA TypeInit == Init => TypeInv
<1> SUFFICES ASSUME Init PROVE TypeInv
  OBVIOUS
<1> USE DEF Init, Settings
<1>1. settings \in [PC -> Settings] /\ \A p \in PC : settings[p].delay \in Nat
  OBVIOUS
<1>a. DelayTypeOK
  <2>1. <<>> \in Seq(Samples)
    OBVIOUS
  <2> QED
    BY <1>1, <2>1 DEF DelayTypeOK
<1>2. BookTypeOK
  BY DEF BookTypeOK, Dict, NoFrame
<1>3. InputTypeOK /\ OwnInputReady /\ ScheduleLeads
  <2>1. <<>> \in Seq(Inputs) /\ 0 \in 0 .. MaxFrame
    OBVIOUS
  <2>2. \A p \in PC : settings[p].delay - 1 \in Nat \cup {-1}
    BY <1>1
  <2>3. \A p \in PC : Prefilled(settings[p].delay) \in [0 .. settings[p].delay - 1 -> Pads]
    BY DEF Prefilled
  <2>4. \A p \in PC : Dict(Prefilled(settings[p].delay), Pads)
    BY <1>1 DEF Prefilled, Dict
  <2>5. <<>> \in [0 .. 0-1 -> Pads \X Pads]
    OBVIOUS
  <2>6. OwnInputReady /\ ScheduleLeads
    BY <1>1, <2>3 DEF OwnInputReady, ScheduleLeads
  <2> QED
    BY <2>1, <2>2, <2>3, <2>4, <2>5, <2>6 DEF InputTypeOK
<1>4. StatusTypeOK
  BY DEF StatusTypeOK
<1>5. WireTypeOK
  <2>1. \A p \in PC : <<Hello(p)>> \in Seq(Records)
    BY <1>1 DEF Hello, Records
  <2> QED
    BY <2>1 DEF WireTypeOK
<1> QED
  BY <1>1, <1>a, <1>2, <1>3, <1>4, <1>5 DEF TypeInv, TypeOK

\* The record at the head of a pipe is a record, and the rest of the pipe is a pipe.
LEMMA Reading ==
  ASSUME WireTypeOK, NEW p \in PC, net[Other(p)] # <<>>
  PROVE  /\ Record(p) \in Records
         /\ Consumed(p) \in [PC -> Seq(Records)]
         /\ \A q \in PC : /\ q # Other(p) => Consumed(p)[q] = net[q]
                          /\ q = Other(p) => Consumed(p)[q] = Tail(net[q])
<1>1. Other(p) \in PC
  BY DEF Other
<1>2. Tail(net[Other(p)]) \in Seq(Records) /\ Head(net[Other(p)]) \in Records
  BY <1>1, HeadTailProperties DEF WireTypeOK
<1> QED
  BY <1>1, <1>2 DEF Consumed, Record, WireTypeOK

LEMMA RecordKinds ==
  ASSUME NEW r \in Records
  PROVE  /\ r.kind = "INPUT" => r.frame \in Nat /\ r.pad \in Pads
         /\ r.kind = "CHECK" => r.frame \in Nat /\ r.sum \in Sums
BY DEF Records, Inputs

LEMMA DictPut ==
  ASSUME NEW S, NEW d, Dict(d, S), NEW k \in Nat, NEW v \in S
  PROVE  Dict(Put(d, k, v), S)
BY DEF Dict, Put

LEMMA DictRestrict ==
  ASSUME NEW S, NEW d, Dict(d, S), NEW K, K \subseteq DOMAIN d
  PROVE  Dict(Restrict(d, K), S)
BY DEF Dict, Restrict

LEMMA TypeReceive ==
  ASSUME TypeInv, NEW p \in PC, Receive(p)
  PROVE  TypeInv'
<1> USE DEF TypeInv, TypeOK
<1>1. CASE ReceiveHello(p)
  <2> USE <1>1 DEF ReceiveHello, Reads
  <2>1. DelayTypeOK' /\ BookTypeOK' /\ InputTypeOK' /\ OwnInputReady' /\ ScheduleLeads' /\ (settings \in [PC -> Settings])'
    BY DEF DelayTypeOK, BookTypeOK, InputTypeOK, OwnInputReady, ScheduleLeads, delayVars, bookVars, inputVars
  <2>2. StatusTypeOK'
    BY DEF StatusTypeOK, HelloVerdict
  <2>3. WireTypeOK'
    <3>1. Consumed(p) \in [PC -> Seq(Records)]
      BY Reading
    <3>2. Bye \in Records
      BY DEF Bye, Records
    <3>3. Append(Consumed(p)[p], Bye) \in Seq(Records)
      BY <3>1, <3>2, AppendProperties
    <3>4. net' \in [PC -> Seq(Records)]
      BY <3>1, <3>3
    <3> QED
      BY <3>4 DEF WireTypeOK
  <2> QED
    BY <2>1, <2>2, <2>3
<1>2. CASE ReceiveBye(p)
  <2> USE <1>2 DEF ReceiveBye, Reads
  <2>1. DelayTypeOK' /\ BookTypeOK' /\ InputTypeOK' /\ OwnInputReady' /\ ScheduleLeads' /\ (settings \in [PC -> Settings])'
    BY DEF DelayTypeOK, BookTypeOK, InputTypeOK, OwnInputReady, ScheduleLeads, delayVars, bookVars, inputVars
  <2>2. StatusTypeOK'
    BY DEF StatusTypeOK
  <2>3. WireTypeOK'
    BY Reading DEF WireTypeOK
  <2> QED
    BY <2>1, <2>2, <2>3
<1>3. CASE ReceiveInput(p)
  <2> USE <1>3 DEF ReceiveInput, Reads
  <2>1. DelayTypeOK' /\ BookTypeOK' /\ StatusTypeOK' /\ (settings \in [PC -> Settings])'
    BY DEF DelayTypeOK, BookTypeOK, StatusTypeOK, delayVars, bookVars, statusVars
  <2>2. OwnInputReady' /\ ScheduleLeads'
    BY DEF OwnInputReady, ScheduleLeads
  <2>3. WireTypeOK'
    BY Reading DEF WireTypeOK
  <2>4. InputTypeOK'
    <3>1. Record(p).frame \in Nat /\ Record(p).pad \in Pads
      BY Reading, RecordKinds
    <3>2. Dict(Put(peerInputs[p], Record(p).frame, Record(p).pad), Pads)
      BY <3>1, DictPut DEF InputTypeOK
    <3>3. DOMAIN peerInputs' = PC /\ \A q \in PC : Dict(peerInputs'[q], Pads)
      BY <3>2 DEF InputTypeOK
    <3> QED
      BY <3>3 DEF InputTypeOK
  <2> QED
    BY <2>1, <2>2, <2>3, <2>4
<1>4. CASE ReceiveCheck(p)
  <2> USE <1>4 DEF ReceiveCheck, Reads
  <2>1. InputTypeOK' /\ StatusTypeOK' /\ OwnInputReady' /\ ScheduleLeads' /\ (settings \in [PC -> Settings])'
    BY DEF InputTypeOK, StatusTypeOK, OwnInputReady, ScheduleLeads, inputVars, statusVars
  <2>2. WireTypeOK'
    BY Reading DEF WireTypeOK
  <2>3. BookTypeOK'
    <3>1. Record(p).frame \in Nat /\ Record(p).sum \in Sums
      BY Reading, RecordKinds
    <3>2. Dict(Put(checks[p], Record(p).frame, Record(p).sum), Sums)
      BY <3>1, DictPut DEF BookTypeOK
    <3> QED
      BY <3>2 DEF BookTypeOK
  <2>4. DelayTypeOK'
    <3>1. CASE UNCHANGED delayVars
      BY <3>1 DEF DelayTypeOK, delayVars
    <3>2. ASSUME NEW s \in Samples, FollowRtt(p, LastN(Append(rttRecent[p], s), RttWindow))
          PROVE  DelayTypeOK'
      <4> DEFINE recent == LastN(Append(rttRecent[p], s), RttWindow)
      <4>1. recent \in Seq(Samples)
        <5>1. Append(rttRecent[p], s) \in Seq(Samples)
          BY AppendProperties DEF DelayTypeOK
        <5> QED
          BY <5>1, LastNSuffix
      <4>2. Range(recent) \subseteq Nat
        BY <4>1, RangeOfSeq
      <4> HIDE DEF recent
      <4>3. PICK worst \in Range(recent) :
              /\ rttRecent' = [rttRecent EXCEPT ![p] = recent]
              /\ IF worst > delay[p]
                   THEN /\ delay' = [delay EXCEPT ![p] = IF worst < MaxDelay THEN worst ELSE MaxDelay]
                        /\ hold' = [hold EXCEPT ![p] = frame[p] + Cooldown]
                   ELSE UNCHANGED <<delay, hold>>
        BY <3>2 DEF FollowRtt, recent
      <4>4. rttRecent' \in [PC -> Seq(Samples)]
        BY <4>1, <4>3 DEF DelayTypeOK
      <4>5. worst \in Nat /\ frame[p] + Cooldown \in Nat
        BY <4>2 DEF InputTypeOK
      <4>6. delay' \in [PC -> Nat] /\ hold' \in [PC -> Nat]
        BY <4>3, <4>5 DEF DelayTypeOK
      <4> QED
        BY <4>4, <4>6 DEF DelayTypeOK
    <3> QED
      BY <3>1, <3>2
  <2> QED
    BY <2>1, <2>2, <2>3, <2>4
<1> QED
  BY <1>1, <1>2, <1>3, <1>4 DEF Receive

LEMMA TypeDatagram ==
  ASSUME TypeInv, NEW p \in PC, NEW d \in dgrams, ReceiveDatagram(p, d)
  PROVE  TypeInv'
<1> USE DEF TypeInv, TypeOK, ReceiveDatagram
<1>1. DelayTypeOK' /\ BookTypeOK' /\ StatusTypeOK' /\ WireTypeOK' /\ OwnInputReady' /\ ScheduleLeads'
       /\ (settings \in [PC -> Settings])'
  BY DEF DelayTypeOK, BookTypeOK, StatusTypeOK, WireTypeOK, OwnInputReady, ScheduleLeads,
         delayVars, bookVars, statusVars
<1>2. \A q \in PC : Dict(peerInputs'[q], Pads)
  BY DEF InputTypeOK, WireTypeOK, Dict
<1>3. InputTypeOK'
  BY <1>2 DEF InputTypeOK
<1> QED
  BY <1>1, <1>3

LEMMA TypeEnd ==
  ASSUME TypeInv, NEW p \in PC, NEW why \in {"refused", "desync", "lost", "left"}, End(p, why)
  PROVE  TypeInv'
<1> USE DEF TypeInv, TypeOK, End
<1>1. DelayTypeOK' /\ BookTypeOK' /\ InputTypeOK' /\ WireTypeOK' /\ OwnInputReady' /\ ScheduleLeads'
       /\ (settings \in [PC -> Settings])'
  BY DEF DelayTypeOK, BookTypeOK, InputTypeOK, WireTypeOK, OwnInputReady, ScheduleLeads,
         delayVars, bookVars, inputVars
<1>2. StatusTypeOK'
  BY DEF StatusTypeOK
<1> QED
  BY <1>1, <1>2

LEMMA TypeFaults ==
  ASSUME TypeInv, Cut \/ (\E p \in PC : Drift(p)) \/ UNCHANGED vars
  PROVE  TypeInv'
<1> USE DEF TypeInv, TypeOK
<1>1. CASE Cut
  <2>1. DelayTypeOK' /\ BookTypeOK' /\ InputTypeOK' /\ WireTypeOK' /\ OwnInputReady' /\ ScheduleLeads'
         /\ (settings \in [PC -> Settings])'
    BY <1>1 DEF Cut, DelayTypeOK, BookTypeOK, InputTypeOK, WireTypeOK, OwnInputReady, ScheduleLeads,
           delayVars, bookVars, inputVars
  <2>2. StatusTypeOK'
    BY <1>1 DEF Cut, StatusTypeOK
  <2> QED
    BY <2>1, <2>2
<1>2. ASSUME NEW p \in PC, Drift(p)
      PROVE  TypeInv'
  <2>1. DelayTypeOK' /\ InputTypeOK' /\ StatusTypeOK' /\ WireTypeOK' /\ OwnInputReady' /\ ScheduleLeads'
         /\ (settings \in [PC -> Settings])'
    BY <1>2 DEF Drift, DelayTypeOK, InputTypeOK, StatusTypeOK, WireTypeOK, OwnInputReady, ScheduleLeads,
           delayVars, inputVars, statusVars
  <2>2. BookTypeOK'
    BY <1>2 DEF Drift, BookTypeOK, InputTypeOK
  <2> QED
    BY <2>1, <2>2
<1>3. CASE UNCHANGED vars
  BY <1>3 DEF vars, DelayTypeOK, BookTypeOK, InputTypeOK, StatusTypeOK, WireTypeOK,
         OwnInputReady, ScheduleLeads, delayVars, bookVars, inputVars, statusVars
<1> QED
  BY <1>1, <1>2, <1>3

\* What scheduling leaves behind, whether the frame is then played or not.
LEMMA Scheduling ==
  ASSUME TypeInv, NEW p \in PC, NEW pad \in Pads,
         Schedule(p, pad, LastN(sentHist[p] \o NewInputs(p, pad), UdpWindow))
  PROVE  /\ sentHist' \in [PC -> Seq(Inputs)]
         /\ schedTo' \in [PC -> Nat \cup {-1}]
         /\ schedTo'[p] \in Nat /\ schedTo[p] <= schedTo'[p] /\ frame[p] <= schedTo'[p]
         /\ \A q \in PC \ {p} : schedTo'[q] = schedTo[q] /\ stream'[q] = stream[q]
         /\ DOMAIN stream' = PC /\ \A q \in PC : stream'[q] \in [0 .. schedTo'[q] -> Pads]
         /\ \A d \in dgrams' : d.from \in PC /\ Dict(d.inputs, Pads)
         /\ Scheduled(localInputs[p], p, pad) \in [frame[p] .. schedTo'[p] -> Pads]
<1> DEFINE hist == LastN(sentHist[p] \o NewInputs(p, pad), UdpWindow)
<1>1. /\ schedTo[p] \in Nat \cup {-1} /\ frame[p] \in Nat /\ delay[p] \in Nat
      /\ sentHist[p] \in Seq(Inputs)
  BY DEF TypeInv, TypeOK, InputTypeOK, DelayTypeOK
<1>2. hist \in Seq(Inputs)
  <2>1. NewInputs(p, pad) \in Seq(Inputs)
    BY <1>1, NewInputsProperties
  <2>2. sentHist[p] \o NewInputs(p, pad) \in Seq(Inputs)
    BY <1>1, <2>1, ConcatProperties
  <2> QED
    BY <2>2, LastNSuffix
<1> HIDE DEF hist
<1>3. /\ sentHist' = [sentHist EXCEPT ![p] = hist]
      /\ schedTo' = [schedTo EXCEPT ![p] = MaxOf(@, At(p))]
      /\ stream' = [stream EXCEPT ![p] = Scheduled(@, p, pad)]
      /\ dgrams' = dgrams \cup IF Udp /\ hist # <<>> THEN {Datagram(p, hist)} ELSE {}
  BY DEF Schedule, hist
<1>4. sentHist' \in [PC -> Seq(Inputs)]
  BY <1>2, <1>3 DEF TypeInv, TypeOK, InputTypeOK
<1>a. /\ MaxOf(schedTo[p], At(p)) \in Nat
      /\ schedTo[p] <= MaxOf(schedTo[p], At(p)) /\ frame[p] <= MaxOf(schedTo[p], At(p))
  BY <1>1 DEF MaxOf, At
<1>5. /\ schedTo' \in [PC -> Nat \cup {-1}]
      /\ schedTo'[p] = MaxOf(schedTo[p], At(p)) /\ schedTo'[p] \in Nat /\ schedTo[p] <= schedTo'[p] /\ frame[p] <= schedTo'[p]
      /\ \A q \in PC \ {p} : schedTo'[q] = schedTo[q] /\ stream'[q] = stream[q]
  BY <1>3, <1>a DEF TypeInv, TypeOK, InputTypeOK
<1>6. DOMAIN stream' = PC /\ \A q \in PC : stream'[q] \in [0 .. schedTo'[q] -> Pads]
  <2> DEFINE top == MaxOf(schedTo[p], At(p))
  <2>1. stream[p] \in [0 .. schedTo[p] -> Pads]
    BY DEF TypeInv, TypeOK, InputTypeOK
  <2>2. 0 .. top = 0 .. schedTo[p] \cup Due(p)
    BY <1>1 DEF Due, MaxOf, At
  <2>3. Scheduled(stream[p], p, pad) \in [0 .. top -> Pads]
    BY <2>1, <2>2 DEF Scheduled
  <2> QED
    BY <1>3, <1>5, <2>3 DEF TypeInv, TypeOK, InputTypeOK
<1>7. \A d \in dgrams' : d.from \in PC /\ Dict(d.inputs, Pads)
  <2>1. hist # <<>> => Datagram(p, hist).from \in PC /\ Dict(Datagram(p, hist).inputs, Pads)
    <3> SUFFICES ASSUME hist # <<>> PROVE Dict(Datagram(p, hist).inputs, Pads)
      BY DEF Datagram
    <3>1. Len(hist) \in Nat \ {0} /\ \A i \in 1 .. Len(hist) : hist[i] \in Inputs
      BY <1>2
    <3>2. hist[1].frame \in Nat /\ \A i \in 1 .. Len(hist) : hist[i].pad \in Pads
      BY <3>1 DEF Inputs
    <3> DEFINE F == hist[1].frame .. hist[1].frame + Len(hist) - 1
    <3>3. F \subseteq Nat /\ \A f \in F : f - hist[1].frame + 1 \in 1 .. Len(hist)
      BY <3>1, <3>2
    <3> QED
      BY <3>2, <3>3 DEF Dict, Datagram
  <2> QED
    BY <1>3, <2>1 DEF TypeInv, TypeOK, WireTypeOK
<1>8. Scheduled(localInputs[p], p, pad) \in [frame[p] .. schedTo'[p] -> Pads]
  <2> DEFINE top == MaxOf(schedTo[p], At(p))
  <2>1. DOMAIN localInputs[p] = frame[p] .. schedTo[p]
         /\ \A f \in DOMAIN localInputs[p] : localInputs[p][f] \in Pads
    BY DEF TypeInv, TypeOK, OwnInputReady, InputTypeOK, Dict
  <2>2. frame[p] .. top = frame[p] .. schedTo[p] \cup Due(p)
    <3>1. frame[p] <= schedTo[p] + 1
      BY DEF TypeInv, ScheduleLeads
    <3> QED
      BY <1>1, <3>1 DEF Due, MaxOf, At
  <2>3. Scheduled(localInputs[p], p, pad) \in [frame[p] .. top -> Pads]
    BY <2>1, <2>2 DEF Scheduled
  <2> QED
    BY <1>5, <2>3
<1> QED
  BY <1>4, <1>5, <1>6, <1>7, <1>8

LEMMA TypeWait ==
  ASSUME TypeInv, NEW p \in PC, NEW pad \in Pads, Wait(p, pad)
  PROVE  TypeInv'
<1> DEFINE hist == LastN(sentHist[p] \o NewInputs(p, pad), UdpWindow)
<1>0. Schedule(p, pad, LastN(sentHist[p] \o NewInputs(p, pad), UdpWindow))
  BY DEF Wait
<1>1. /\ sentHist' \in [PC -> Seq(Inputs)]
      /\ schedTo' \in [PC -> Nat \cup {-1}]
      /\ schedTo'[p] \in Nat /\ schedTo[p] <= schedTo'[p] /\ frame[p] <= schedTo'[p]
      /\ \A q \in PC \ {p} : schedTo'[q] = schedTo[q] /\ stream'[q] = stream[q]
      /\ DOMAIN stream' = PC /\ \A q \in PC : stream'[q] \in [0 .. schedTo'[q] -> Pads]
      /\ \A d \in dgrams' : d.from \in PC /\ Dict(d.inputs, Pads)
      /\ Scheduled(localInputs[p], p, pad) \in [frame[p] .. schedTo'[p] -> Pads]
  BY <1>0, Scheduling
<1>2. frame' = frame /\ peerInputs' = peerInputs /\ played' = played /\ settings' = settings
      /\ localInputs' = [localInputs EXCEPT ![p] = Scheduled(@, p, pad)]
      /\ net' = [net EXCEPT ![p] = @ \o NewInputs(p, pad)]
  BY DEF Wait
<1>3. settings' \in [PC -> Settings] /\ DelayTypeOK' /\ BookTypeOK' /\ StatusTypeOK'
  BY DEF TypeInv, TypeOK, Wait, DelayTypeOK, BookTypeOK, StatusTypeOK,
         delayVars, bookVars, statusVars
<1>4. \A q \in PC : localInputs'[q] = IF q = p THEN Scheduled(localInputs[p], p, pad) ELSE localInputs[q]
  BY <1>2 DEF TypeInv, TypeOK, InputTypeOK
<1>5. OwnInputReady'
  BY <1>1, <1>2, <1>4 DEF TypeInv, OwnInputReady
<1>6. ScheduleLeads'
  <2>1. frame[p] <= schedTo'[p] + 1
    BY <1>1 DEF TypeInv, TypeOK, InputTypeOK
  <2> QED
    BY <1>1, <1>2, <2>1 DEF TypeInv, ScheduleLeads
<1>7. InputTypeOK'
  <2>1. frame[p] .. schedTo'[p] \subseteq Nat
    BY <1>1 DEF TypeInv, TypeOK, InputTypeOK
  <2>2. DOMAIN localInputs' = PC /\ \A q \in PC : Dict(localInputs'[q], Pads)
    BY <1>1, <1>2, <1>4, <2>1 DEF TypeInv, TypeOK, InputTypeOK, Dict
  <2> QED
    BY <1>1, <1>2, <2>2 DEF TypeInv, TypeOK, InputTypeOK
<1>8. WireTypeOK'
  <2>1. NewInputs(p, pad) \in Seq(Records)
    <3>1. NewInputs(p, pad) \in Seq(Inputs)
      BY NewInputsProperties DEF TypeInv, TypeOK, InputTypeOK, DelayTypeOK
    <3> QED
      BY <3>1 DEF Records
  <2>2. net[p] \o NewInputs(p, pad) \in Seq(Records)
    BY <2>1, ConcatProperties DEF TypeInv, TypeOK, WireTypeOK
  <2> QED
    BY <1>1, <1>2, <2>2 DEF TypeInv, TypeOK, WireTypeOK
<1> QED
  BY <1>3, <1>5, <1>6, <1>7, <1>8 DEF TypeInv, TypeOK

\* Comparing the books leaves two books and a frame number.
LEMMA TypeCompare ==
  ASSUME BookTypeOK, NEW p \in PC, NEW own, Dict(own, Sums), CompareChecks(p, own),
         UNCHANGED <<peerTs, driftAt>>
  PROVE  BookTypeOK'
<1>1. \A d : Dict(d, Sums) => Dict(Newest(d), Sums)
  BY DictRestrict DEF Newest
<1>2. \A d, K : Dict(d, Sums) => Dict(Without(d, K), Sums)
  BY DictRestrict DEF Without
<1> DEFINE both == DOMAIN own \cap DOMAIN checks[p]
<1>3. Dict(Newest(Without(own, both)), Sums) /\ Dict(Newest(Without(checks[p], both)), Sums)
  BY <1>1, <1>2 DEF BookTypeOK
<1>4. /\ DOMAIN mine' = PC /\ \A q \in PC : Dict(mine'[q], Sums)
      /\ DOMAIN checks' = PC /\ \A q \in PC : Dict(checks'[q], Sums)
  BY <1>3 DEF CompareChecks, BookTypeOK
<1>5. desyncAt' \in [PC -> Nat \cup {NoFrame}]
  BY DEF CompareChecks, BookTypeOK, Dict
<1> QED
  BY <1>4, <1>5 DEF BookTypeOK

LEMMA TypeRun ==
  ASSUME TypeInv, NEW p \in PC, NEW pad \in Pads, Run(p, pad)
  PROVE  TypeInv'
<1> DEFINE f == frame[p]
           local == Scheduled(localInputs[p], p, pad)
           now == Put(played[p], f, Fed(p, local[f], peerInputs[p][f]))
           due == f % CheckEvery = 0
<1>0. Schedule(p, pad, LastN(sentHist[p] \o NewInputs(p, pad), UdpWindow))
  BY DEF Run
<1>1. /\ sentHist' \in [PC -> Seq(Inputs)]
      /\ schedTo' \in [PC -> Nat \cup {-1}]
      /\ schedTo'[p] \in Nat /\ schedTo[p] <= schedTo'[p] /\ frame[p] <= schedTo'[p]
      /\ \A q \in PC \ {p} : schedTo'[q] = schedTo[q] /\ stream'[q] = stream[q]
      /\ DOMAIN stream' = PC /\ \A q \in PC : stream'[q] \in [0 .. schedTo'[q] -> Pads]
      /\ \A d \in dgrams' : d.from \in PC /\ Dict(d.inputs, Pads)
      /\ local \in [frame[p] .. schedTo'[p] -> Pads]
  BY <1>0, Scheduling
<1>2. /\ f \in DOMAIN peerInputs[p] /\ f < MaxFrame
      /\ frame' = [frame EXCEPT ![p] = f + 1]
      /\ localInputs' = [localInputs EXCEPT ![p] = Without(local, {f})]
      /\ peerInputs' = [peerInputs EXCEPT ![p] = Without(peerInputs[p], {f})]
      /\ played' = [played EXCEPT ![p] = now]
  BY DEF Run, MayStep, TypeInv, TypeOK, InputTypeOK
<1>w. /\ net' = [net EXCEPT ![p] = @ \o NewInputs(p, pad) \o
                   IF due THEN <<Check(f, Sum(p, now), peerTs[p])>> ELSE <<>>]
      /\ CompareChecks(p, IF due THEN Put(mine[p], f, Sum(p, now)) ELSE mine[p])
      /\ MaybeShrink(p, f + 1)
      /\ UNCHANGED <<settings, rttRecent, peerTs, driftAt, statusVars>>
  BY DEF Run
<1>3. /\ f \in 0 .. MaxFrame /\ f + 1 \in 0 .. MaxFrame
      /\ local[f] \in Pads /\ peerInputs[p][f] \in Pads
      /\ played[p] \in [0 .. f - 1 -> Pads \X Pads]
      /\ Dict(local, Pads) /\ Dict(peerInputs[p], Pads)
  <2>1. f \in 0 .. MaxFrame /\ f + 1 \in 0 .. MaxFrame
    BY <1>2 DEF TypeInv, TypeOK, InputTypeOK
  <2>2. Dict(peerInputs[p], Pads) /\ played[p] \in [0 .. f - 1 -> Pads \X Pads]
    BY DEF TypeInv, TypeOK, InputTypeOK
  <2>3. frame[p] .. schedTo'[p] \subseteq Nat /\ f \in frame[p] .. schedTo'[p]
    BY <1>1, <2>1
  <2>4. Dict(local, Pads) /\ local[f] \in Pads
    BY <1>1, <2>3 DEF Dict
  <2> QED
    BY <1>2, <2>1, <2>2, <2>4 DEF Dict
<1>4. now \in [0 .. f -> Pads \X Pads]
  BY <1>3 DEF Put, Fed
<1> HIDE DEF local, now, due
<1>5. Sum(p, now) \in Sums
  BY <1>3, <1>4 DEF Sum, Sums
<1>6. settings' \in [PC -> Settings] /\ StatusTypeOK'
  BY <1>w DEF TypeInv, TypeOK, StatusTypeOK, statusVars
<1>7. DelayTypeOK'
  <2>1. delay \in [PC -> Nat] /\ hold \in [PC -> Nat] /\ delay[p] \in Nat
    BY DEF TypeInv, TypeOK, DelayTypeOK
  <2>a. settings[p].delay \in Nat
    <3>1. settings[p] \in Settings
      BY DEF TypeInv, TypeOK
    <3> QED
      BY <3>1 DEF Settings
  <2>b. f + 1 + Calm \in Nat
    BY <1>3
  <2>2. delay' \in [PC -> Nat] /\ hold' \in [PC -> Nat]
    <3>1. CASE delay' = delay /\ hold' = hold
      BY <2>1, <3>1
    <3>2. CASE /\ delay[p] > settings[p].delay
               /\ delay' = [delay EXCEPT ![p] = @ - 1] /\ hold' = [hold EXCEPT ![p] = f + 1 + Calm]
      BY <2>1, <2>a, <2>b, <3>2
    <3> QED
      BY <1>w, <3>1, <3>2 DEF MaybeShrink
  <2> QED
    BY <1>w, <2>2 DEF TypeInv, TypeOK, DelayTypeOK
<1>8. BookTypeOK'
  <2>1. Dict(IF due THEN Put(mine[p], f, Sum(p, now)) ELSE mine[p], Sums)
    BY <1>3, <1>5, DictPut DEF TypeInv, TypeOK, BookTypeOK
  <2> QED
    BY <1>w, <2>1, TypeCompare DEF TypeInv, TypeOK
<1>9. /\ DOMAIN localInputs = PC /\ DOMAIN frame = PC
      /\ DOMAIN played = PC /\ DOMAIN peerInputs = PC
  BY DEF TypeInv, TypeOK, InputTypeOK
<1>l. \A q \in PC : localInputs'[q] = IF q = p THEN Without(local, {f}) ELSE localInputs[q]
  BY <1>2, <1>9
<1>f. \A q \in PC : frame'[q] = IF q = p THEN f + 1 ELSE frame[q]
  BY <1>2, <1>9
<1>p. \A q \in PC : played'[q] = IF q = p THEN now ELSE played[q]
  BY <1>2, <1>9
<1>i. \A q \in PC : peerInputs'[q] = IF q = p THEN Without(peerInputs[p], {f}) ELSE peerInputs[q]
  BY <1>2, <1>9
<1>10. OwnInputReady'
  <2>1. DOMAIN Without(local, {f}) = f + 1 .. schedTo'[p]
    <3>1. DOMAIN local = f .. schedTo'[p] /\ f \in Nat /\ schedTo'[p] \in Nat
      BY <1>1, <1>3
    <3> QED
      BY <3>1 DEF Without, Restrict
  <2>2. DOMAIN localInputs'[p] = frame'[p] .. schedTo'[p]
    BY <1>l, <1>f, <2>1
  <2>3. ASSUME NEW q \in PC, q # p PROVE DOMAIN localInputs'[q] = frame'[q] .. schedTo'[q]
    BY <1>1, <1>l, <1>f, <2>3 DEF TypeInv, OwnInputReady
  <2> QED
    BY <2>2, <2>3 DEF OwnInputReady
<1>11. ScheduleLeads'
  <2>1. frame'[p] <= schedTo'[p] + 1
    BY <1>1, <1>3, <1>f
  <2>2. ASSUME NEW q \in PC, q # p PROVE frame'[q] <= schedTo'[q] + 1
    BY <1>1, <1>f, <2>2 DEF TypeInv, ScheduleLeads
  <2> QED
    BY <2>1, <2>2 DEF ScheduleLeads
<1>12. InputTypeOK'
  <2>1. Dict(Without(local, {f}), Pads) /\ Dict(Without(peerInputs[p], {f}), Pads)
    BY <1>3, DictRestrict DEF Without
  <2>2. frame' \in [PC -> 0 .. MaxFrame]
    BY <1>2, <1>3 DEF TypeInv, TypeOK, InputTypeOK
  <2>3. \A q \in PC : played'[q] \in [0 .. frame'[q] - 1 -> Pads \X Pads]
    <3>1. played'[p] \in [0 .. frame'[p] - 1 -> Pads \X Pads]
      <4>1. frame'[p] - 1 = f
        BY <1>3, <1>f
      <4> QED
        BY <1>4, <1>p, <4>1
    <3>2. ASSUME NEW q \in PC, q # p PROVE played'[q] \in [0 .. frame'[q] - 1 -> Pads \X Pads]
      BY <1>p, <1>f, <3>2 DEF TypeInv, TypeOK, InputTypeOK
    <3> QED
      BY <3>1, <3>2
  <2>4. DOMAIN localInputs' = PC /\ DOMAIN peerInputs' = PC /\ DOMAIN played' = PC
    BY <1>2 DEF TypeInv, TypeOK, InputTypeOK
  <2>5. \A q \in PC : Dict(localInputs'[q], Pads) /\ Dict(peerInputs'[q], Pads)
    BY <1>l, <1>i, <2>1 DEF TypeInv, TypeOK, InputTypeOK
  <2> QED
    BY <1>1, <2>2, <2>3, <2>4, <2>5 DEF InputTypeOK
<1>13. WireTypeOK'
  <2>1. NewInputs(p, pad) \in Seq(Records)
    <3>1. NewInputs(p, pad) \in Seq(Inputs)
      BY NewInputsProperties DEF TypeInv, TypeOK, InputTypeOK, DelayTypeOK
    <3> QED
      BY <3>1 DEF Records
  <2>2. (IF due THEN <<Check(f, Sum(p, now), peerTs[p])>> ELSE <<>>) \in Seq(Records)
    <3>1. Check(f, Sum(p, now), peerTs[p]) \in Records
      BY <1>3, <1>5 DEF Check, Records, TypeInv, TypeOK, BookTypeOK
    <3> QED
      BY <3>1
  <2>3. net[p] \in Seq(Records)
    BY DEF TypeInv, TypeOK, WireTypeOK
  <2>4. net[p] \o NewInputs(p, pad) \o
          (IF due THEN <<Check(f, Sum(p, now), peerTs[p])>> ELSE <<>>) \in Seq(Records)
    BY <2>1, <2>2, <2>3, ConcatProperties
  <2> QED
    BY <1>1, <1>w, <2>4 DEF TypeInv, TypeOK, WireTypeOK
<1> QED
  BY <1>6, <1>7, <1>8, <1>10, <1>11, <1>12, <1>13 DEF TypeInv, TypeOK

LEMMA TypeStep == TypeInv /\ [Next]_vars => TypeInv'
<1> SUFFICES ASSUME TypeInv, [Next]_vars PROVE TypeInv'
  OBVIOUS
<1>1. ASSUME NEW p \in PC, Receive(p) PROVE TypeInv'
  BY <1>1, TypeReceive
<1>2. ASSUME NEW p \in PC, Step(p) PROVE TypeInv'
  BY <1>2, TypeWait, TypeRun DEF Step
<1>3. ASSUME NEW p \in PC, NoticeEnd(p) \/ Leave(p) PROVE TypeInv'
  BY <1>3, TypeEnd DEF NoticeEnd, EndRefused, EndDesync, EndLost, Leave
<1>4. ASSUME NEW p \in PC, NEW d \in dgrams, ReceiveDatagram(p, d) PROVE TypeInv'
  BY <1>4, TypeDatagram
<1>5. CASE Cut \/ (\E p \in PC : Drift(p)) \/ UNCHANGED vars
  BY <1>5, TypeFaults
<1> QED
  BY <1>1, <1>2, <1>3, <1>4, <1>5 DEF Next

\* In every reachable state the variables have their types; in particular neither
\* player's stream ever has a gap.
THEOREM TypeCorrect == Spec => []TypeOK
<1>1. Spec => []TypeInv
  BY TypeInit, TypeStep, PTL DEF Spec
<1>2. TypeInv => TypeOK
  BY DEF TypeInv
<1> QED
  BY <1>1, <1>2, PTL

\* step() always finds its own pad for the frame it is about to play, however the
\* delay has moved: the inputs held are exactly those from the next frame to the last
\* one scheduled.
THEOREM OwnInputAlwaysReady == Spec => []OwnInputReady
<1>1. Spec => []TypeInv
  BY TypeInit, TypeStep, PTL DEF Spec
<1>2. TypeInv => OwnInputReady
  BY DEF TypeInv
<1> QED
  BY <1>1, <1>2, PTL

(***************************************************************************)
(* The inductive invariant                                                 *)
(***************************************************************************)
Agrees(d, s) == \A f \in DOMAIN d : f \in DOMAIN s /\ d[f] = s[f]

\* A record in flight tells the truth about the PC that sent it.
Truthful(p, r) ==
  /\ r.kind = "HELLO" => r.settings = settings[p]
  /\ r.kind = "INPUT" => r.frame \in DOMAIN stream[p] /\ r.pad = stream[p][r.frame]

PipeTruth == \A p \in PC : \A i \in 1 .. Len(net[p]) : Truthful(p, net[p][i])
DatagramTruth == \A d \in dgrams : Agrees(d.inputs, stream[d.from])
\* The UDP history ends with the last frame scheduled and has no hole.
HistoryTruth ==
  \A p \in PC : \A i \in 1 .. Len(sentHist[p]) :
    /\ sentHist[p][i].frame = schedTo[p] - Len(sentHist[p]) + i
    /\ sentHist[p][i].frame \in DOMAIN stream[p]
    /\ sentHist[p][i].pad = stream[p][sentHist[p][i].frame]
OwnTruth == \A p \in PC : Agrees(localInputs[p], stream[p])
\* The pre-filled frames are the peer's only when the peer pre-filled as many.
PeerTruth == Compatible => \A p \in PC : Agrees(peerInputs[p], stream[Other(p)])
MismatchStops ==
  ~Compatible => \A p \in PC : frame[p] = 0 /\ (greeted[p] => rejected[p] # "none")

AgreeInv ==
  /\ PipeTruth /\ DatagramTruth /\ HistoryTruth /\ OwnTruth /\ PeerTruth
  /\ NothingGuessed /\ MismatchStops

\* Nothing scheduled is ever revised: what every other fact is carried over by.
StreamGrows == \A p \in PC : Agrees(stream[p], stream'[p])

LEMMA AgreeInit == Init => AgreeInv
<1> SUFFICES ASSUME Init PROVE AgreeInv
  OBVIOUS
<1> USE DEF Init
<1>1. PipeTruth
  BY DEF PipeTruth, Truthful, Hello
<1>2. DatagramTruth /\ HistoryTruth
  BY DEF DatagramTruth, HistoryTruth
<1>3. OwnTruth
  BY DEF OwnTruth, Agrees, Prefilled
<1>4. PeerTruth
  <2> SUFFICES ASSUME Compatible, NEW p \in PC
               PROVE  Agrees(peerInputs[p], stream[Other(p)])
    BY DEF PeerTruth
  <2>1. Other(p) \in PC /\ settings[Other(p)].delay = settings[p].delay
    BY DEF Other, Compatible
  <2> QED
    BY <2>1 DEF Agrees, Prefilled
<1>5. NothingGuessed /\ MismatchStops
  BY DEF NothingGuessed, MismatchStops
<1> QED
  BY <1>1, <1>2, <1>3, <1>4, <1>5 DEF AgreeInv

\* Agreement survives the growth of the streams.
LEMMA AgreesGrows ==
  ASSUME NEW d, NEW s, NEW t, Agrees(d, s), Agrees(s, t)
  PROVE  Agrees(d, t)
BY DEF Agrees

\* What scheduling does to the streams: the frames due are new, the others stay.
LEMMA SchedulingGrows ==
  ASSUME TypeInv, NEW p \in PC, NEW pad \in Pads, NEW hist, Schedule(p, pad, hist)
  PROVE  /\ StreamGrows
         /\ \A f \in Due(p) : f \in DOMAIN stream'[p] /\ stream'[p][f] = pad
         /\ \A q \in PC \ {p} : stream'[q] = stream[q] /\ schedTo'[q] = schedTo[q]
         /\ schedTo'[p] = MaxOf(schedTo[p], At(p))
<1>1. /\ stream' = [stream EXCEPT ![p] = Scheduled(stream[p], p, pad)]
      /\ schedTo' = [schedTo EXCEPT ![p] = MaxOf(schedTo[p], At(p))]
      /\ DOMAIN stream = PC /\ DOMAIN schedTo = PC
  BY DEF Schedule, TypeInv, TypeOK, InputTypeOK
<1>2. /\ schedTo[p] \in Nat \cup {-1} /\ At(p) \in Nat
      /\ stream[p] \in [0 .. schedTo[p] -> Pads]
  <2>1. frame[p] \in Nat /\ delay[p] \in Nat
    BY DEF TypeInv, TypeOK, InputTypeOK, DelayTypeOK
  <2>2. schedTo[p] \in Nat \cup {-1} /\ stream[p] \in [0 .. schedTo[p] -> Pads]
    BY DEF TypeInv, TypeOK, InputTypeOK
  <2> QED
    BY <2>1, <2>2 DEF At
<1>3. Due(p) \cap DOMAIN stream[p] = {}
  BY <1>2 DEF Due
<1>4. Agrees(stream[p], stream'[p])
  BY <1>1, <1>3 DEF Agrees, Scheduled
<1>5. \A f \in Due(p) : f \in DOMAIN stream'[p] /\ stream'[p][f] = pad
  BY <1>1 DEF Scheduled
<1>6. \A q \in PC \ {p} : stream'[q] = stream[q] /\ schedTo'[q] = schedTo[q]
  BY <1>1
<1>7. \A q \in PC : Agrees(stream[q], stream'[q])
  BY <1>4, <1>6 DEF Agrees
<1> QED
  BY <1>1, <1>5, <1>6, <1>7 DEF StreamGrows

\* The records and the datagram of one call say what was scheduled.
LEMMA SchedulingTruth ==
  ASSUME TypeInv, AgreeInv, NEW p \in PC, NEW pad \in Pads,
         Schedule(p, pad, LastN(sentHist[p] \o NewInputs(p, pad), UdpWindow))
  PROVE  /\ HistoryTruth' /\ DatagramTruth'
         /\ Agrees(Scheduled(localInputs[p], p, pad), stream'[p])
         /\ \A i \in 1 .. Len(NewInputs(p, pad)) :
              /\ NewInputs(p, pad)[i].kind = "INPUT"
              /\ NewInputs(p, pad)[i].frame \in DOMAIN stream'[p]
              /\ NewInputs(p, pad)[i].pad = stream'[p][NewInputs(p, pad)[i].frame]
<1> DEFINE new == NewInputs(p, pad)
           all == sentHist[p] \o new
           hist == LastN(all, UdpWindow)
<1>1. /\ schedTo[p] \in Nat \cup {-1} /\ frame[p] \in Nat /\ delay[p] \in Nat /\ At(p) \in Nat
      /\ sentHist[p] \in Seq(Inputs) /\ DOMAIN sentHist = PC
  <2>1. frame[p] \in Nat /\ delay[p] \in Nat
    BY DEF TypeInv, TypeOK, InputTypeOK, DelayTypeOK
  <2>2. schedTo[p] \in Nat \cup {-1} /\ sentHist[p] \in Seq(Inputs) /\ DOMAIN sentHist = PC
    BY DEF TypeInv, TypeOK, InputTypeOK
  <2> QED
    BY <2>1, <2>2 DEF At
<1>2. /\ new \in Seq(Inputs) /\ Len(new) = MaxOf(At(p) - schedTo[p], 0)
      /\ \A i \in 1 .. Len(new) : new[i] = Input(schedTo[p] + i, pad)
  BY <1>1, NewInputsProperties
<1>3. /\ StreamGrows
      /\ \A f \in Due(p) : f \in DOMAIN stream'[p] /\ stream'[p][f] = pad
      /\ \A q \in PC \ {p} : stream'[q] = stream[q] /\ schedTo'[q] = schedTo[q]
      /\ schedTo'[p] = MaxOf(schedTo[p], At(p))
  BY SchedulingGrows
<1>4. /\ sentHist' = [sentHist EXCEPT ![p] = hist]
      /\ dgrams' = dgrams \cup IF Udp /\ hist # <<>> THEN {Datagram(p, hist)} ELSE {}
  BY DEF Schedule
<1> HIDE DEF new, all, hist
<1>5. \A i \in 1 .. Len(new) :
        /\ new[i].frame = schedTo[p] + i /\ new[i].frame \in DOMAIN stream'[p]
        /\ new[i].pad = stream'[p][new[i].frame]
  <2> SUFFICES ASSUME NEW i \in 1 .. Len(new)
               PROVE  /\ new[i].frame = schedTo[p] + i /\ new[i].frame \in DOMAIN stream'[p]
                      /\ new[i].pad = stream'[p][new[i].frame]
    OBVIOUS
  <2>1. schedTo[p] + i \in Due(p)
    BY <1>1, <1>2 DEF MaxOf, Due
  <2> QED
    BY <1>2, <1>3, <2>1 DEF Input
<1>6. \A i \in 1 .. Len(new) : new[i].kind = "INPUT"
  BY <1>2 DEF Input
<1>7. /\ all \in Seq(Inputs) /\ Len(all) = Len(sentHist[p]) + Len(new)
      /\ \A i \in 1 .. Len(all) :
           all[i] = IF i <= Len(sentHist[p]) THEN sentHist[p][i] ELSE new[i - Len(sentHist[p])]
  <2>1. /\ all \in Seq(Inputs) /\ Len(all) = Len(sentHist[p]) + Len(new)
        /\ \A i \in 1 .. Len(sentHist[p]) + Len(new) :
             all[i] = IF i <= Len(sentHist[p]) THEN sentHist[p][i] ELSE new[i - Len(sentHist[p])]
    <3>1. sentHist[p] \in Seq(Inputs) /\ new \in Seq(Inputs)
      BY <1>1, <1>2
    <3> QED
      BY ONLY <3>1, ConcatProperties, Zenon DEF all
  <2> QED
    BY <2>1
<1>8. \A i \in 1 .. Len(all) :
        /\ all[i].frame = schedTo'[p] - Len(all) + i /\ all[i].frame \in DOMAIN stream'[p]
        /\ all[i].pad = stream'[p][all[i].frame]
  <2>1. Len(new) \in Nat /\ Len(sentHist[p]) \in Nat /\ schedTo'[p] = schedTo[p] + Len(new)
    BY <1>1, <1>2, <1>3 DEF MaxOf
  <2>2. ASSUME NEW i \in 1 .. Len(all), i <= Len(sentHist[p])
        PROVE  /\ all[i].frame = schedTo'[p] - Len(all) + i /\ all[i].frame \in DOMAIN stream'[p]
               /\ all[i].pad = stream'[p][all[i].frame]
    <3>1. all[i] = sentHist[p][i] /\ i \in 1 .. Len(sentHist[p])
      BY <1>7, <2>1, <2>2
    <3>2. /\ all[i].frame = schedTo[p] - Len(sentHist[p]) + i /\ all[i].frame \in DOMAIN stream[p]
          /\ all[i].pad = stream[p][all[i].frame]
      BY <3>1 DEF AgreeInv, HistoryTruth
    <3> QED
      BY <1>1, <1>3, <1>7, <2>1, <3>2 DEF StreamGrows, Agrees
  <2>3. ASSUME NEW i \in 1 .. Len(all), ~(i <= Len(sentHist[p]))
        PROVE  /\ all[i].frame = schedTo'[p] - Len(all) + i /\ all[i].frame \in DOMAIN stream'[p]
               /\ all[i].pad = stream'[p][all[i].frame]
    <3>1. all[i] = new[i - Len(sentHist[p])] /\ i - Len(sentHist[p]) \in 1 .. Len(new)
      BY <1>7, <2>1, <2>3
    <3>2. all[i].frame = schedTo[p] + (i - Len(sentHist[p]))
      BY <1>5, <3>1
    <3>3. schedTo[p] + (i - Len(sentHist[p])) = schedTo'[p] - Len(all) + i
      BY <1>1, <1>7, <2>1
    <3> QED
      BY <1>5, <3>1, <3>2, <3>3
  <2> QED
    BY <2>2, <2>3
<1>9. /\ hist \in Seq(Inputs)
      /\ \A i \in 1 .. Len(hist) :
           /\ hist[i].frame = schedTo'[p] - Len(hist) + i /\ hist[i].frame \in DOMAIN stream'[p]
           /\ hist[i].pad = stream'[p][hist[i].frame]
  <2>1. /\ hist \in Seq(Inputs) /\ Len(hist) <= Len(all)
        /\ \A i \in 1 .. Len(hist) : hist[i] = all[Len(all) - Len(hist) + i]
    BY <1>7, LastNSuffix DEF hist
  <2>2. Len(hist) \in Nat /\ Len(all) \in Nat /\ schedTo'[p] \in Int
    BY <1>1, <1>3, <1>7, <2>1 DEF MaxOf
  <2>3. ASSUME NEW i \in 1 .. Len(hist)
        PROVE  /\ hist[i].frame = schedTo'[p] - Len(hist) + i /\ hist[i].frame \in DOMAIN stream'[p]
               /\ hist[i].pad = stream'[p][hist[i].frame]
    <3>1. Len(all) - Len(hist) + i \in 1 .. Len(all)
      BY <2>1, <2>2
    <3>2. schedTo'[p] - Len(all) + (Len(all) - Len(hist) + i) = schedTo'[p] - Len(hist) + i
      BY <2>2
    <3> QED
      BY <1>8, <2>1, <3>1, <3>2
  <2> QED
    BY <2>1, <2>3
<1>10. HistoryTruth'
  <2>1. ASSUME NEW q \in PC, q # p, NEW i \in 1 .. Len(sentHist'[q])
        PROVE  /\ sentHist'[q][i].frame = schedTo'[q] - Len(sentHist'[q]) + i
               /\ sentHist'[q][i].frame \in DOMAIN stream'[q]
               /\ sentHist'[q][i].pad = stream'[q][sentHist'[q][i].frame]
    BY <1>1, <1>3, <1>4, <2>1 DEF AgreeInv, HistoryTruth
  <2>2. sentHist'[p] = hist
    BY <1>1, <1>4
  <2> QED
    BY <1>9, <2>1, <2>2 DEF HistoryTruth
<1>11. DatagramTruth'
  <2>1. ASSUME NEW d \in dgrams PROVE Agrees(d.inputs, stream'[d.from])
    BY <1>3, AgreesGrows DEF AgreeInv, DatagramTruth, StreamGrows, TypeInv, TypeOK, WireTypeOK
  <2>2. ASSUME hist # <<>> PROVE Agrees(Datagram(p, hist).inputs, stream'[p])
    <3>1. Len(hist) \in Nat \ {0} /\ hist[1].frame = schedTo'[p] - Len(hist) + 1 /\ schedTo'[p] \in Int
      BY <1>1, <1>3, <1>9, <2>2 DEF MaxOf
    <3> DEFINE first == hist[1].frame
    <3>2. ASSUME NEW f \in first .. first + Len(hist) - 1
          PROVE  f \in DOMAIN stream'[p] /\ hist[f - first + 1].pad = stream'[p][f]
      <4>1. f - first + 1 \in 1 .. Len(hist) /\ hist[f - first + 1].frame = f
        <5>1. f - first + 1 \in 1 .. Len(hist)
          BY <3>1, <3>2
        <5>2. hist[f - first + 1].frame = schedTo'[p] - Len(hist) + (f - first + 1)
          BY <1>9, <5>1
        <5>3. schedTo'[p] - Len(hist) + (f - first + 1) = f
          BY <3>1, <3>2
        <5> QED
          BY <5>1, <5>2, <5>3
      <4> QED
        BY <1>9, <4>1
    <3> QED
      BY <3>2 DEF Agrees, Datagram
  <2>3. ASSUME NEW d \in dgrams' PROVE Agrees(d.inputs, stream'[d.from])
    <3>1. CASE d \in dgrams
      BY <2>1, <3>1
    <3>2. CASE hist # <<>> /\ d = Datagram(p, hist)
      <4>1. d.from = p
        BY <3>2 DEF Datagram
      <4> QED
        BY <2>2, <3>2, <4>1
    <3> QED
      BY <1>4, <3>1, <3>2
  <2> QED
    BY <2>3 DEF DatagramTruth
<1>12. Agrees(Scheduled(localInputs[p], p, pad), stream'[p])
  <2>1. Agrees(localInputs[p], stream'[p])
    BY <1>3, AgreesGrows DEF AgreeInv, OwnTruth, StreamGrows
  <2> QED
    BY <1>3, <2>1 DEF Agrees, Scheduled
<1> QED
  BY <1>5, <1>6, <1>10, <1>11, <1>12 DEF new

\* Reading a record leaves the rest of the pipe truthful.
LEMMA ConsumedTruth ==
  ASSUME TypeInv, AgreeInv, NEW p \in PC, net[Other(p)] # <<>>
  PROVE  /\ Truthful(Other(p), Record(p))
         /\ \A q \in PC : \A i \in 1 .. Len(Consumed(p)[q]) : Truthful(q, Consumed(p)[q][i])
<1>1. Other(p) \in PC /\ net[Other(p)] \in Seq(Records)
  BY DEF Other, TypeInv, TypeOK, WireTypeOK
<1>2. Truthful(Other(p), Record(p))
  BY <1>1 DEF Record, AgreeInv, PipeTruth
<1>3. \A i \in 1 .. Len(Tail(net[Other(p)])) :
        Truthful(Other(p), Tail(net[Other(p)])[i])
  BY <1>1 DEF AgreeInv, PipeTruth
<1>4. \A q \in PC : /\ q # Other(p) => Consumed(p)[q] = net[q]
                    /\ q = Other(p) => Consumed(p)[q] = Tail(net[q])
  BY Reading DEF TypeInv, TypeOK
<1>5. ASSUME NEW q \in PC, NEW i \in 1 .. Len(Consumed(p)[q])
      PROVE  Truthful(q, Consumed(p)[q][i])
  <2>1. CASE q = Other(p)
    BY <1>3, <1>4, <2>1
  <2>2. CASE q # Other(p)
    BY <1>4, <2>2 DEF AgreeInv, PipeTruth
  <2> QED
    BY <2>1, <2>2
<1> QED
  BY <1>2, <1>5

LEMMA AgreeReceive ==
  ASSUME TypeInv, AgreeInv, NEW p \in PC, Receive(p)
  PROVE  AgreeInv'
<1>0. Other(p) \in PC /\ Other(p) # p
  BY DEF Other
<1>1. CASE ReceiveHello(p)
  <2>1. /\ net[Other(p)] # <<>> /\ Record(p).kind = "HELLO"
        /\ UNCHANGED <<settings, frame, schedTo, localInputs, peerInputs, sentHist, stream,
                       played, dgrams>>
    BY <1>1 DEF ReceiveHello, Reads, inputVars
  <2>2. /\ Truthful(Other(p), Record(p))
        /\ \A q \in PC : \A i \in 1 .. Len(Consumed(p)[q]) : Truthful(q, Consumed(p)[q][i])
    BY <2>1, ConsumedTruth
  <2>3. Record(p).settings = settings[Other(p)]
    BY <2>1, <2>2 DEF Truthful
  <2>4. PipeTruth'
    <3>1. CASE net' = Consumed(p)
      BY <2>1, <2>2, <3>1 DEF PipeTruth, Truthful
    <3>2. CASE net' = [Consumed(p) EXCEPT ![p] = Append(@, Bye)]
      <4>1. Consumed(p) \in [PC -> Seq(Records)]
        BY <2>1, Reading DEF TypeInv, TypeOK
      <4>2. Bye.kind = "BYE"
        BY DEF Bye
      <4>3. \A i \in 1 .. Len(Append(Consumed(p)[p], Bye)) :
              Truthful(p, Append(Consumed(p)[p], Bye)[i])
        <5>1. ASSUME NEW i \in 1 .. Len(Append(Consumed(p)[p], Bye))
              PROVE  Truthful(p, Append(Consumed(p)[p], Bye)[i])
          <6>1. CASE i \in 1 .. Len(Consumed(p)[p])
            BY <2>2, <4>1, <6>1
          <6>2. CASE i = Len(Consumed(p)[p]) + 1
            BY <4>1, <4>2, <6>2 DEF Truthful
          <6> QED
            BY <4>1, <6>1, <6>2
        <5> QED
          BY <5>1
      <4>4. \A q \in PC : net'[q] = IF q = p THEN Append(Consumed(p)[p], Bye) ELSE Consumed(p)[q]
        BY <3>2, <4>1
      <4>5. \A q \in PC : \A i \in 1 .. Len(net'[q]) : Truthful(q, net'[q][i])
        BY <2>2, <4>3, <4>4
      <4> QED
        BY <2>1, <4>5 DEF PipeTruth, Truthful
    <3> QED
      BY <1>1, <3>1, <3>2 DEF ReceiveHello
  <2>5. MismatchStops'
    <3>1. CASE Compatible
      BY <2>1, <3>1 DEF MismatchStops, Compatible
    <3>2. CASE ~Compatible
      <4>1. HelloVerdict(p, settings[Other(p)]) # "none"
        BY <1>0, <3>2 DEF HelloVerdict, Compatible, Other, TypeInv, TypeOK, Settings
      <4>2. rejected'[p] # "none"
        BY <1>1, <2>3, <4>1 DEF ReceiveHello, TypeInv, TypeOK, StatusTypeOK
      <4>3. \A q \in PC : q # p => greeted'[q] = greeted[q] /\ rejected'[q] = rejected[q]
        BY <1>1 DEF ReceiveHello, TypeInv, TypeOK, StatusTypeOK
      <4> QED
        BY <2>1, <3>2, <4>2, <4>3 DEF AgreeInv, MismatchStops
    <3> QED
      BY <3>1, <3>2
  <2> QED
    BY <2>1, <2>4, <2>5 DEF AgreeInv, DatagramTruth, HistoryTruth, OwnTruth, PeerTruth,
                            NothingGuessed, Compatible
<1>2. CASE ReceiveBye(p)
  <2>1. /\ net[Other(p)] # <<>> /\ net' = Consumed(p)
        /\ UNCHANGED <<settings, greeted, frame, schedTo, localInputs, peerInputs, sentHist,
                       stream, played, dgrams>>
    BY <1>2 DEF ReceiveBye, Reads, inputVars
  <2>2. PipeTruth'
    BY <2>1, ConsumedTruth DEF PipeTruth, Truthful
  <2>3. \A q \in PC : rejected[q] # "none" => rejected'[q] # "none"
    BY <1>2 DEF ReceiveBye, TypeInv, TypeOK, StatusTypeOK
  <2>4. MismatchStops'
    BY <2>1, <2>3 DEF AgreeInv, MismatchStops, Compatible
  <2> QED
    BY <2>1, <2>2, <2>4 DEF AgreeInv, DatagramTruth, HistoryTruth, OwnTruth, PeerTruth,
                            NothingGuessed, Compatible
<1>3. CASE ReceiveInput(p)
  <2>1. /\ net[Other(p)] # <<>> /\ net' = Consumed(p) /\ Record(p).kind = "INPUT"
        /\ UNCHANGED <<settings, greeted, rejected, frame, schedTo, localInputs, sentHist,
                       stream, played, dgrams>>
        /\ peerInputs' = [peerInputs EXCEPT ![p] =
             IF Record(p).frame >= frame[p]
               THEN Put(peerInputs[p], Record(p).frame, Record(p).pad) ELSE peerInputs[p]]
    BY <1>3 DEF ReceiveInput, Reads, statusVars
  <2>2. PipeTruth'
    BY <2>1, ConsumedTruth DEF PipeTruth, Truthful
  <2>3. /\ Record(p).frame \in DOMAIN stream[Other(p)]
        /\ Record(p).pad = stream[Other(p)][Record(p).frame]
    BY <2>1, ConsumedTruth DEF Truthful
  <2>4. PeerTruth'
    <3> SUFFICES ASSUME Compatible, NEW q \in PC PROVE Agrees(peerInputs'[q], stream[Other(q)])
      BY <2>1 DEF PeerTruth, Compatible
    <3>1. Agrees(peerInputs[q], stream[Other(q)]) /\ Agrees(peerInputs[p], stream[Other(p)])
      BY DEF AgreeInv, PeerTruth
    <3>2. Agrees(Put(peerInputs[p], Record(p).frame, Record(p).pad), stream[Other(p)])
      BY <2>3, <3>1 DEF Agrees, Put
    <3>3. DOMAIN peerInputs = PC
      BY DEF TypeInv, TypeOK, InputTypeOK
    <3> QED
      BY <2>1, <3>1, <3>2, <3>3
  <2> QED
    BY <2>1, <2>2, <2>4 DEF AgreeInv, DatagramTruth, HistoryTruth, OwnTruth,
                            NothingGuessed, MismatchStops, Compatible
<1>4. CASE ReceiveCheck(p)
  <2>1. /\ net[Other(p)] # <<>> /\ net' = Consumed(p)
        /\ UNCHANGED <<settings, greeted, rejected, frame, schedTo, localInputs, peerInputs,
                       sentHist, stream, played, dgrams>>
    BY <1>4 DEF ReceiveCheck, Reads, inputVars, statusVars
  <2>2. PipeTruth'
    BY <2>1, ConsumedTruth DEF PipeTruth, Truthful
  <2> QED
    BY <2>1, <2>2 DEF AgreeInv, DatagramTruth, HistoryTruth, OwnTruth, PeerTruth,
                      NothingGuessed, MismatchStops, Compatible
<1> QED
  BY <1>1, <1>2, <1>3, <1>4 DEF Receive

LEMMA AgreeDatagram ==
  ASSUME TypeInv, AgreeInv, NEW p \in PC, NEW d \in dgrams, ReceiveDatagram(p, d)
  PROVE  AgreeInv'
<1>1. /\ d.from = Other(p)
      /\ UNCHANGED <<settings, greeted, rejected, frame, schedTo, localInputs, sentHist,
                     stream, played, net, dgrams>>
  BY DEF ReceiveDatagram, statusVars
<1>2. PeerTruth'
  <2> SUFFICES ASSUME Compatible, NEW q \in PC PROVE Agrees(peerInputs'[q], stream[Other(q)])
    BY <1>1 DEF PeerTruth, Compatible
  <2>1. Agrees(peerInputs[q], stream[Other(q)]) /\ Agrees(peerInputs[p], stream[Other(p)])
    BY DEF AgreeInv, PeerTruth
  <2>2. Agrees(d.inputs, stream[Other(p)])
    BY <1>1 DEF AgreeInv, DatagramTruth
  <2>3. CASE q # p
    BY <2>1, <2>3 DEF ReceiveDatagram, TypeInv, TypeOK, InputTypeOK
  <2>4. CASE q = p
    BY <2>1, <2>2, <2>4 DEF ReceiveDatagram, TypeInv, TypeOK, InputTypeOK, Agrees
  <2> QED
    BY <2>3, <2>4
<1> QED
  BY <1>1, <1>2 DEF AgreeInv, PipeTruth, Truthful, DatagramTruth, HistoryTruth, OwnTruth,
                    NothingGuessed, MismatchStops, Compatible

\* Every step that neither reads nor schedules.
LEMMA AgreeIdle ==
  ASSUME AgreeInv,
         UNCHANGED <<settings, greeted, rejected, frame, schedTo, localInputs, peerInputs,
                     sentHist, stream, played, net, dgrams>>
  PROVE  AgreeInv'
BY DEF AgreeInv, PipeTruth, Truthful, DatagramTruth, HistoryTruth, OwnTruth, PeerTruth,
       NothingGuessed, MismatchStops, Compatible

\* A sequence whose elements are all in S is a sequence of S.
LEMMA SeqOfElements ==
  ASSUME NEW R, NEW S, NEW s \in Seq(R), \A i \in 1 .. Len(s) : s[i] \in S
  PROVE  s \in Seq(S)
<1>1. s \in [1 .. Len(s) -> S] /\ Len(s) \in Nat
  BY LenProperties
<1> QED
  BY <1>1, SeqDef

\* The pipes after a call: the new inputs, then at most one record that is no input.
LEMMA PipeGrows ==
  ASSUME TypeInv, AgreeInv, StreamGrows, settings' = settings,
         NEW p \in PC, NEW new \in Seq(Records), NEW last \in Seq(Records),
         net' = [net EXCEPT ![p] = @ \o new \o last],
         \A i \in 1 .. Len(new) :
           /\ new[i].kind = "INPUT" /\ new[i].frame \in DOMAIN stream'[p]
           /\ new[i].pad = stream'[p][new[i].frame],
         \A i \in 1 .. Len(last) : last[i].kind \notin {"HELLO", "INPUT"}
  PROVE  PipeTruth'
<1> DEFINE T(q) ==
             {r \in Records :
                /\ r.kind = "HELLO" => r.settings = settings[q]
                /\ r.kind = "INPUT" => r.frame \in DOMAIN stream'[q] /\ r.pad = stream'[q][r.frame]}
<1>1. DOMAIN net = PC /\ \A q \in PC : net[q] \in Seq(Records)
  BY DEF TypeInv, TypeOK, WireTypeOK
<1>2. \A q \in PC : net[q] \in Seq(T(q))
  <2>1. ASSUME NEW q \in PC, NEW i \in 1 .. Len(net[q]) PROVE net[q][i] \in T(q)
    <3>1. net[q][i] \in Records /\ Truthful(q, net[q][i])
      BY <1>1, ElementOfSeq DEF AgreeInv, PipeTruth
    <3> QED
      BY <3>1 DEF Truthful, StreamGrows, Agrees
  <2> HIDE DEF T
  <2> QED
    BY <1>1, <2>1, SeqOfElements
<1>3. new \in Seq(T(p)) /\ last \in Seq(T(p))
  <2>1. \A i \in 1 .. Len(new) : new[i] \in T(p)
    BY ElementOfSeq
  <2>2. \A i \in 1 .. Len(last) : last[i] \in T(p)
    BY ElementOfSeq
  <2> HIDE DEF T
  <2> QED
    BY <2>1, <2>2, SeqOfElements
<1> HIDE DEF T
<1>4. net[p] \o new \o last \in Seq(T(p))
  BY <1>2, <1>3, ConcatProperties
<1>5. \A q \in PC : net'[q] \in Seq(T(q))
  BY <1>1, <1>2, <1>4
<1>6. \A q \in PC : \A i \in 1 .. Len(net'[q]) : net'[q][i] \in T(q)
  BY <1>5, ElementOfSeq
<1> USE DEF T
<1>7. ASSUME NEW q \in PC, NEW i \in 1 .. Len(net'[q])
      PROVE  /\ net'[q][i].kind = "HELLO" => net'[q][i].settings = settings'[q]
             /\ net'[q][i].kind = "INPUT" => /\ net'[q][i].frame \in DOMAIN stream'[q]
                                             /\ net'[q][i].pad = stream'[q][net'[q][i].frame]
  <2>1. net'[q][i] \in T(q)
    BY <1>6
  <2> QED
    BY <2>1
<1> QED
  BY <1>7 DEF PipeTruth, Truthful

LEMMA AgreeWait ==
  ASSUME TypeInv, AgreeInv, NEW p \in PC, NEW pad \in Pads, Wait(p, pad)
  PROVE  AgreeInv'
<1> DEFINE new == NewInputs(p, pad)
<1>1. /\ Schedule(p, pad, LastN(sentHist[p] \o NewInputs(p, pad), UdpWindow))
      /\ localInputs' = [localInputs EXCEPT ![p] = Scheduled(localInputs[p], p, pad)]
      /\ net' = [net EXCEPT ![p] = @ \o new]
      /\ UNCHANGED <<settings, greeted, rejected, frame, peerInputs, played>>
  BY DEF Wait, statusVars
<1>2. StreamGrows
  BY <1>1, SchedulingGrows
<1>3. /\ HistoryTruth' /\ DatagramTruth'
      /\ Agrees(Scheduled(localInputs[p], p, pad), stream'[p])
      /\ \A i \in 1 .. Len(new) :
           /\ new[i].kind = "INPUT" /\ new[i].frame \in DOMAIN stream'[p]
           /\ new[i].pad = stream'[p][new[i].frame]
  BY <1>1, SchedulingTruth
<1>4. new \in Seq(Inputs)
  BY NewInputsProperties DEF TypeInv, TypeOK, InputTypeOK, DelayTypeOK
<1> HIDE DEF new
<1>5. PipeTruth'
  <2>1. new \in Seq(Records) /\ net[p] \in Seq(Records) /\ DOMAIN net = PC
    BY <1>4 DEF Records, TypeInv, TypeOK, WireTypeOK
  <2>2. net' = [net EXCEPT ![p] = @ \o new \o <<>>]
    <3>1. net[p] \o new \in Seq(Records)
      BY <2>1, ConcatProperties
    <3>2. (net[p] \o new) \o <<>> = net[p] \o new
      BY <3>1, ConcatEmptySeq
    <3> QED
      BY <1>1, <3>2
  <2>3. <<>> \in Seq(Records) /\ \A i \in 1 .. Len(<<>>) : <<>>[i].kind \notin {"HELLO", "INPUT"}
    OBVIOUS
  <2>4. settings' = settings
    BY <1>1
  <2> QED
    BY <1>2, <1>3, <2>1, <2>2, <2>3, <2>4, PipeGrows
<1>6. OwnTruth'
  <2>1. ASSUME NEW q \in PC, q # p PROVE Agrees(localInputs'[q], stream'[q])
    <3>1. localInputs'[q] = localInputs[q]
      BY <1>1, <2>1 DEF TypeInv, TypeOK, InputTypeOK
    <3> QED
      BY <1>2, <3>1, AgreesGrows DEF AgreeInv, OwnTruth, StreamGrows
  <2>2. localInputs'[p] = Scheduled(localInputs[p], p, pad)
    BY <1>1 DEF TypeInv, TypeOK, InputTypeOK
  <2> QED
    BY <1>3, <2>1, <2>2 DEF OwnTruth
<1>7. PeerTruth'
  <2> SUFFICES ASSUME Compatible, NEW q \in PC PROVE Agrees(peerInputs[q], stream'[Other(q)])
    BY <1>1 DEF PeerTruth, Compatible
  <2>1. Other(q) \in PC
    BY DEF Other
  <2> QED
    BY <1>2, <2>1, AgreesGrows DEF AgreeInv, PeerTruth, StreamGrows
<1>8. NothingGuessed' /\ MismatchStops'
  BY <1>1, <1>2 DEF AgreeInv, NothingGuessed, MismatchStops, Compatible, StreamGrows, Agrees
<1> QED
  BY <1>3, <1>5, <1>6, <1>7, <1>8 DEF AgreeInv

\* A frame is played with both players' bytes for it.
LEMMA AgreeRun ==
  ASSUME TypeInv, AgreeInv, NEW p \in PC, NEW pad \in Pads, Run(p, pad)
  PROVE  /\ AgreeInv'
         /\ played' = [played EXCEPT ![p] =
              Put(@, frame[p], <<stream'[Host][frame[p]], stream'[Joiner][frame[p]]>>)]
         /\ frame[p] \in DOMAIN stream'[Host] /\ frame[p] \in DOMAIN stream'[Joiner]
<1> DEFINE f == frame[p]
           new == NewInputs(p, pad)
           local == Scheduled(localInputs[p], p, pad)
           now == Put(played[p], f, Fed(p, local[f], peerInputs[p][f]))
           last == IF f % CheckEvery = 0 THEN <<Check(f, Sum(p, now), peerTs[p])>> ELSE <<>>
<1>1. /\ Schedule(p, pad, LastN(sentHist[p] \o NewInputs(p, pad), UdpWindow))
      /\ f \in DOMAIN peerInputs[p] /\ MayStep(p)
      /\ localInputs' = [localInputs EXCEPT ![p] = Without(local, {f})]
      /\ peerInputs' = [peerInputs EXCEPT ![p] = Without(peerInputs[p], {f})]
      /\ played' = [played EXCEPT ![p] = now]
      /\ net' = [net EXCEPT ![p] = @ \o new \o last]
      /\ frame' = [frame EXCEPT ![p] = f + 1]
      /\ UNCHANGED <<settings, greeted, rejected>>
  BY DEF Run, statusVars
<1>2. StreamGrows
  BY <1>1, SchedulingGrows
<1>3. /\ HistoryTruth' /\ DatagramTruth'
      /\ Agrees(local, stream'[p])
      /\ \A i \in 1 .. Len(new) :
           /\ new[i].kind = "INPUT" /\ new[i].frame \in DOMAIN stream'[p]
           /\ new[i].pad = stream'[p][new[i].frame]
  BY <1>1, SchedulingTruth
<1>4. new \in Seq(Inputs)
  BY NewInputsProperties DEF TypeInv, TypeOK, InputTypeOK, DelayTypeOK
<1>5. Other(p) \in PC /\ Other(p) # p /\ f \in Nat
  BY DEF Other, TypeInv, TypeOK, InputTypeOK
<1>6. f \in DOMAIN local
  <2>1. local \in [f .. schedTo'[p] -> Pads] /\ schedTo'[p] \in Nat /\ f <= schedTo'[p]
    BY <1>1, Scheduling
  <2> QED
    BY <1>5, <2>1
<1>7. Compatible
  BY <1>1 DEF MayStep, AgreeInv, MismatchStops
<1>8. Sum(p, now) \in Sums
  <2>1. TypeInv'
    BY TypeRun
  <2>2. played'[p] = now /\ frame'[p] = f + 1 /\ f < MaxFrame
    BY <1>1 DEF MayStep, TypeInv, TypeOK, InputTypeOK
  <2>3. now \in [0 .. frame'[p] - 1 -> Pads \X Pads]
    BY <2>1, <2>2 DEF TypeInv, TypeOK, InputTypeOK
  <2>4. frame'[p] - 1 = f /\ f \in 0 .. MaxFrame
    BY <1>5, <2>2
  <2> HIDE DEF now
  <2>5. now \in UNION {[0 .. g -> Pads \X Pads] : g \in 0 .. MaxFrame}
    BY <2>3, <2>4
  <2> QED
    BY <2>5 DEF Sum, Sums
<1> HIDE DEF new, local, now
<1>9. now = Put(played[p], f, <<stream'[Host][f], stream'[Joiner][f]>>)
      /\ f \in DOMAIN stream'[Host] /\ f \in DOMAIN stream'[Joiner]
  <2>1. f \in DOMAIN stream'[p] /\ local[f] = stream'[p][f]
    BY <1>3, <1>6 DEF Agrees
  <2>2. f \in DOMAIN stream'[Other(p)] /\ peerInputs[p][f] = stream'[Other(p)][f]
    BY <1>1, <1>2, <1>5, <1>7 DEF AgreeInv, PeerTruth, StreamGrows, Agrees
  <2>3. Fed(p, local[f], peerInputs[p][f]) = <<stream'[Host][f], stream'[Joiner][f]>>
    BY <2>1, <2>2 DEF Fed, Other
  <2> QED
    BY <2>1, <2>2, <2>3 DEF Other, now
<1>10. PipeTruth'
  <2>1. new \in Seq(Records)
    BY <1>4 DEF Records
  <2>2. Check(f, Sum(p, now), peerTs[p]) \in Records /\ Check(f, Sum(p, now), peerTs[p]).kind = "CHECK"
    BY <1>5, <1>8 DEF Check, Records, TypeInv, TypeOK, BookTypeOK
  <2>3. last \in Seq(Records) /\ \A i \in 1 .. Len(last) : last[i].kind \notin {"HELLO", "INPUT"}
    BY <2>2
  <2>4. settings' = settings
    BY <1>1
  <2> HIDE DEF last
  <2> QED
    BY <1>1, <1>2, <1>3, <2>1, <2>3, <2>4, PipeGrows
<1> HIDE DEF last
<1>11. /\ DOMAIN localInputs = PC /\ DOMAIN peerInputs = PC /\ DOMAIN played = PC /\ DOMAIN frame = PC
  BY DEF TypeInv, TypeOK, InputTypeOK
<1>12. OwnTruth'
  <2>1. ASSUME NEW q \in PC, q # p PROVE Agrees(localInputs'[q], stream'[q])
    <3>1. localInputs'[q] = localInputs[q]
      BY <1>1, <1>11, <2>1
    <3> QED
      BY <1>2, <3>1, AgreesGrows DEF AgreeInv, OwnTruth, StreamGrows
  <2>2. localInputs'[p] = Without(local, {f})
    BY <1>1, <1>11
  <2>3. Agrees(Without(local, {f}), stream'[p])
    BY <1>3 DEF Agrees, Without, Restrict
  <2> QED
    BY <2>1, <2>2, <2>3 DEF OwnTruth
<1>13. PeerTruth'
  <2> SUFFICES ASSUME NEW q \in PC PROVE Agrees(peerInputs'[q], stream'[Other(q)])
    BY DEF PeerTruth
  <2>1. Other(q) \in PC
    BY DEF Other
  <2>2. Agrees(peerInputs[q], stream'[Other(q)])
    BY <1>2, <1>7, <2>1, AgreesGrows DEF AgreeInv, PeerTruth, StreamGrows
  <2>3. peerInputs'[q] = peerInputs[q] \/ peerInputs'[q] = Without(peerInputs[q], {f})
    BY <1>1, <1>11
  <2> QED
    BY <2>2, <2>3 DEF Agrees, Without, Restrict
<1>14. NothingGuessed'
  <2>1. ASSUME NEW q \in PC, NEW g \in DOMAIN played'[q]
        PROVE  /\ \A r \in PC : g \in DOMAIN stream'[r]
               /\ played'[q][g] = <<stream'[Host][g], stream'[Joiner][g]>>
    <3>1. CASE q = p /\ g = f
      BY <1>1, <1>9, <1>11, <3>1 DEF Put
    <3>2. CASE ~(q = p /\ g = f)
      <4>1. g \in DOMAIN played[q] /\ played'[q][g] = played[q][g]
        BY <1>1, <1>9, <1>11, <3>2 DEF Put
      <4>2. /\ \A r \in PC : g \in DOMAIN stream[r]
            /\ played[q][g] = <<stream[Host][g], stream[Joiner][g]>>
        BY <4>1 DEF AgreeInv, NothingGuessed
      <4> QED
        BY <1>2, <4>1, <4>2 DEF StreamGrows, Agrees
    <3> QED
      BY <3>1, <3>2
  <2> QED
    BY <2>1 DEF NothingGuessed
<1>15. MismatchStops'
  BY <1>1, <1>7 DEF MismatchStops, Compatible
<1>16. AgreeInv'
  BY <1>3, <1>10, <1>12, <1>13, <1>14, <1>15 DEF AgreeInv
<1> QED
  BY <1>1, <1>9, <1>16

LEMMA AgreeStep == TypeInv /\ AgreeInv /\ [Next]_vars => AgreeInv'
<1> SUFFICES ASSUME TypeInv, AgreeInv, [Next]_vars PROVE AgreeInv'
  OBVIOUS
<1>1. ASSUME NEW p \in PC, Receive(p) PROVE AgreeInv'
  BY <1>1, AgreeReceive
<1>2. ASSUME NEW p \in PC, Step(p) PROVE AgreeInv'
  BY <1>2, AgreeWait, AgreeRun DEF Step
<1>3. ASSUME NEW p \in PC, NEW d \in dgrams, ReceiveDatagram(p, d) PROVE AgreeInv'
  BY <1>3, AgreeDatagram
<1>4. ASSUME NEW p \in PC, NoticeEnd(p) \/ Leave(p) \/ Drift(p) PROVE AgreeInv'
  BY <1>4, AgreeIdle DEF NoticeEnd, EndRefused, EndDesync, EndLost, Leave, End, Drift,
                         inputVars, statusVars
<1>5. CASE Cut \/ UNCHANGED vars
  BY <1>5, AgreeIdle DEF Cut, vars, inputVars, statusVars
<1> QED
  BY <1>1, <1>2, <1>3, <1>4, <1>5 DEF Next

LEMMA Agreement == Spec => [](TypeInv /\ AgreeInv)
<1>1. Init => TypeInv /\ AgreeInv
  BY TypeInit, AgreeInit
<1>2. TypeInv /\ AgreeInv /\ [Next]_vars => (TypeInv /\ AgreeInv)'
  BY TypeStep, AgreeStep
<1> QED
  BY <1>1, <1>2, PTL DEF Spec

(***************************************************************************)
(* What the players see                                                    *)
(***************************************************************************)
\* step() never guesses: every frame either PC plays is played with the byte each
\* player's own PC scheduled for that frame, whatever UDP lost, repeated or reordered
\* and wherever the delay went.
THEOREM NothingIsGuessed == Spec => []NothingGuessed
<1>1. TypeInv /\ AgreeInv => NothingGuessed
  BY DEF AgreeInv
<1> QED
  BY <1>1, Agreement, PTL

\* The two PCs feed the two consoles the same bytes in the same order on every frame
\* both have played: the match is one match.
THEOREM BothPlayTheSameMatch == Spec => []SameMatch
<1>1. NothingGuessed => SameMatch
  BY DEF NothingGuessed, SameMatch
<1> QED
  BY <1>1, NothingIsGuessed, PTL

\* Two PCs whose hellos differ never play a frame, pre-filled inputs or not.
THEOREM MismatchPlaysNothing == Spec => []NothingPlayedOnMismatch
<1>1. TypeInv /\ AgreeInv => NothingPlayedOnMismatch
  BY DEF AgreeInv, MismatchStops, NothingPlayedOnMismatch
<1> QED
  BY <1>1, Agreement, PTL

\* A stream only ever grows at its end, and only playing a frame changes a screen.
LEMMA StepGrows ==
  ASSUME TypeInv, [Next]_vars
  PROVE  StreamGrows /\ (played' = played \/ \E p \in PC, pad \in Pads : Run(p, pad))
<1>1. CASE stream' = stream /\ played' = played
  BY <1>1 DEF StreamGrows, Agrees
<1>2. ASSUME NEW p \in PC, NEW pad \in Pads, Wait(p, pad) \/ Run(p, pad)
      PROVE  StreamGrows /\ (played' = played \/ Run(p, pad))
  <2>1. Schedule(p, pad, LastN(sentHist[p] \o NewInputs(p, pad), UdpWindow))
    BY <1>2 DEF Wait, Run
  <2> QED
    BY <1>2, <2>1, SchedulingGrows DEF Wait
<1>3. ASSUME NEW p \in PC, Step(p)
      PROVE  StreamGrows /\ (played' = played \/ \E pad \in Pads : Run(p, pad))
  BY <1>2, <1>3 DEF Step
<1>4. ASSUME NEW p \in PC, Receive(p) PROVE stream' = stream /\ played' = played
  BY <1>4 DEF Receive, ReceiveHello, ReceiveBye, ReceiveInput, ReceiveCheck, inputVars
<1>5. ASSUME NEW p \in PC, NEW d \in dgrams, ReceiveDatagram(p, d)
      PROVE  stream' = stream /\ played' = played
  BY <1>5 DEF ReceiveDatagram
<1>6. ASSUME NEW p \in PC, NoticeEnd(p) \/ Leave(p) \/ Drift(p)
      PROVE  stream' = stream /\ played' = played
  BY <1>6 DEF NoticeEnd, EndRefused, EndDesync, EndLost, Leave, End, Drift, inputVars
<1>7. Cut \/ UNCHANGED vars => stream' = stream /\ played' = played
  BY DEF Cut, vars, inputVars
<1> QED
  BY <1>1, <1>3, <1>4, <1>5, <1>6, <1>7 DEF Next

\* What was scheduled, and therefore sent, for a frame is never revised.
THEOREM NothingIsRevised == Spec => ScheduleNeverRevised
<1>1. TypeInv /\ [Next]_vars =>
        [\A p \in PC : \A f \in DOMAIN stream[p] :
           f \in DOMAIN stream'[p] /\ stream'[p][f] = stream[p][f]]_vars
  BY StepGrows DEF StreamGrows, Agrees
<1> QED
  BY <1>1, Agreement, PTL DEF Spec, ScheduleNeverRevised

\* Mirror netplay keeps its promise: what both screens show is one match, decided once,
\* shown in order from the first frame, nothing skipped and nothing invented.
THEOREM ImplementsOneMatch == Spec => ImplementsMatch
<1>1. Init => OneMatch!Init
  BY DEF Init, OneMatch!Init
<1>2. ASSUME TypeInv, AgreeInv, [Next]_vars
      PROVE  [OneMatch!Next]_<<Decided, played>>
  <2>1. OneMatch!Decide
    <3>1. StreamGrows
      BY <1>2, StepGrows
    <3> QED
      BY <3>1 DEF OneMatch!Decide, Decided, StreamGrows, Agrees
  <2>2. ASSUME NEW p \in PC, NEW pad \in Pads, Run(p, pad) PROVE OneMatch!Show(p)
    <3> DEFINE f == frame[p]
    <3>1. /\ played' = [played EXCEPT ![p] = Put(played[p], f, Decided'[f])]
          /\ f \in DOMAIN Decided'
      <4>1. /\ played' = [played EXCEPT ![p] =
                 Put(played[p], f, <<stream'[Host][f], stream'[Joiner][f]>>)]
            /\ f \in DOMAIN stream'[Host] /\ f \in DOMAIN stream'[Joiner]
        BY <1>2, <2>2, AgreeRun
      <4> QED
        BY <4>1 DEF Decided
    <3>2. DOMAIN played[p] = 0 .. f - 1 /\ f \in Nat
      BY <1>2 DEF TypeInv, TypeOK, InputTypeOK
    <3>3. Put(played[p], f, Decided'[f])
            = [g \in 0 .. f |-> IF g = f THEN Decided'[f] ELSE played[p][g]]
      <4>1. DOMAIN played[p] \cup {f} = 0 .. f
        BY <3>2
      <4> QED
        BY <4>1 DEF Put
    <3> HIDE DEF f
    <3> QED
      BY <3>1, <3>2, <3>3 DEF OneMatch!Show
  <2> QED
    BY <1>2, <2>1, <2>2, StepGrows DEF OneMatch!Next
<1> QED
  BY <1>1, <1>2, Agreement, PTL DEF Spec, ImplementsMatch, OneMatch!Spec

(***************************************************************************)
(* How far ahead one PC may be                                             *)
(***************************************************************************)
\* The delay never passes what a session may use, and no pad is scheduled further ahead.
SkewInv == \A p \in PC : delay[p] <= Ahead(p) /\ schedTo[p] <= frame[p] + Ahead(p)

\* What a session may use is a number of frames, no less than the delay agreed.
LEMMA AheadNat ==
  ASSUME TypeInv, NEW p \in PC
  PROVE  Ahead(p) \in Nat /\ settings[p].delay \in Nat /\ settings[p].delay <= Ahead(p) /\ MaxDelay <= Ahead(p)
<1>1. settings[p] \in Settings
  BY DEF TypeInv, TypeOK
<1>2. settings[p].delay \in Nat
  BY <1>1 DEF Settings
<1> QED
  BY <1>2 DEF Ahead, MaxOf

LEMMA SkewInit == Init => SkewInv
<1> SUFFICES ASSUME Init, NEW p \in PC PROVE delay[p] <= Ahead(p) /\ schedTo[p] <= frame[p] + Ahead(p)
  BY DEF SkewInv
<1>1. TypeInv
  BY TypeInit
<1>2. Ahead(p) \in Nat /\ settings[p].delay \in Nat /\ settings[p].delay <= Ahead(p)
  BY <1>1, AheadNat
<1> QED
  BY <1>2 DEF Init

\* A round trip raises the delay to MaxDelay at most.
LEMMA FollowBounded ==
  ASSUME TypeInv, SkewInv, NEW p \in PC, ReceiveCheck(p)
  PROVE  \A q \in PC : delay'[q] <= Ahead(q)
<1>0. delay \in [PC -> Nat] /\ rttRecent[p] \in Seq(Samples)
  BY DEF TypeInv, TypeOK, DelayTypeOK
<1>1. CASE UNCHANGED delayVars
  BY <1>1 DEF delayVars, SkewInv
<1>2. ASSUME NEW s \in Samples, FollowRtt(p, LastN(Append(rttRecent[p], s), RttWindow))
      PROVE  \A q \in PC : delay'[q] <= Ahead(q)
  <2> DEFINE recent == LastN(Append(rttRecent[p], s), RttWindow)
  <2>1. recent \in Seq(Samples)
    <3>1. Append(rttRecent[p], s) \in Seq(Samples)
      BY <1>0, AppendProperties
    <3> QED
      BY <3>1, LastNSuffix
  <2>2. Range(recent) \subseteq Nat
    BY <2>1, RangeOfSeq
  <2> HIDE DEF recent
  <2>3. PICK worst \in Range(recent) :
          delay' = IF worst > delay[p]
                     THEN [delay EXCEPT ![p] = IF worst < MaxDelay THEN worst ELSE MaxDelay] ELSE delay
    BY <1>2 DEF FollowRtt, recent
  <2>4. MaxDelay <= Ahead(p) /\ Ahead(p) \in Nat
    BY AheadNat
  <2>5. delay'[p] <= Ahead(p) /\ \A q \in PC \ {p} : delay'[q] = delay[q]
    BY <1>0, <2>2, <2>3, <2>4 DEF SkewInv
  <2> QED
    BY <2>5 DEF SkewInv
<1> QED
  BY <1>1, <1>2 DEF ReceiveCheck

\* A call schedules up to the delay, and moves the delay down only.
LEMMA SkewScheduling ==
  ASSUME TypeInv, SkewInv, NEW p \in PC, NEW pad \in Pads, Wait(p, pad) \/ Run(p, pad)
  PROVE  SkewInv'
<1>1. Schedule(p, pad, LastN(sentHist[p] \o NewInputs(p, pad), UdpWindow)) /\ settings' = settings
  BY DEF Wait, Run
<1>2. /\ \A q \in PC \ {p} : schedTo'[q] = schedTo[q]
      /\ schedTo'[p] = MaxOf(schedTo[p], At(p))
  BY <1>1, SchedulingGrows
<1>3. /\ delay \in [PC -> Nat] /\ frame \in [PC -> 0 .. MaxFrame] /\ schedTo[p] \in Int
      /\ Ahead(p) \in Nat
  <2>1. Ahead(p) \in Nat
    BY AheadNat
  <2>2. delay \in [PC -> Nat] /\ frame \in [PC -> 0 .. MaxFrame] /\ schedTo[p] \in Int
    BY DEF TypeInv, TypeOK, DelayTypeOK, InputTypeOK
  <2> QED
    BY <2>1, <2>2
<1>4. schedTo'[p] <= frame[p] + Ahead(p)
  BY <1>2, <1>3 DEF SkewInv, MaxOf, At
<1>5. /\ frame'[p] \in {frame[p], frame[p] + 1} /\ \A q \in PC \ {p} : frame'[q] = frame[q]
      /\ delay'[p] \in {delay[p], delay[p] - 1} /\ \A q \in PC \ {p} : delay'[q] = delay[q]
  <2>1. CASE Wait(p, pad)
    BY <1>3, <2>1 DEF Wait, delayVars
  <2>2. CASE Run(p, pad)
    <3>1. frame' = [frame EXCEPT ![p] = frame[p] + 1] /\ MaybeShrink(p, frame[p] + 1)
      BY <2>2 DEF Run
    <3>2. delay' = delay \/ delay' = [delay EXCEPT ![p] = delay[p] - 1]
      BY <3>1 DEF MaybeShrink
    <3> QED
      BY <1>3, <3>1, <3>2
  <2> QED
    BY <2>1, <2>2
<1>6. Ahead(p)' = Ahead(p) /\ \A q \in PC : Ahead(q)' = Ahead(q)
  BY <1>1 DEF Ahead
<1>7. delay'[p] <= Ahead(p) /\ schedTo'[p] <= frame'[p] + Ahead(p)
  <2>1. delay[p] <= Ahead(p) /\ delay[p] \in Nat /\ delay'[p] \in Int /\ schedTo'[p] \in Int /\ frame[p] \in Int
    <3>1. schedTo'[p] \in Int
      BY <1>2, <1>3 DEF MaxOf, At
    <3> QED
      BY <1>3, <1>5, <3>1 DEF SkewInv
  <2> QED
    BY <1>3, <1>4, <1>5, <2>1
<1> QED
  BY <1>2, <1>5, <1>6, <1>7 DEF SkewInv

LEMMA SkewStep == TypeInv /\ SkewInv /\ [Next]_vars => SkewInv'
<1> SUFFICES ASSUME TypeInv, SkewInv, [Next]_vars PROVE SkewInv'
  OBVIOUS
<1>1. ASSUME UNCHANGED <<settings, frame, schedTo>>, \A q \in PC : delay'[q] <= Ahead(q) PROVE SkewInv'
  BY <1>1 DEF SkewInv, Ahead
<1>2. ASSUME NEW p \in PC, ReceiveHello(p) \/ ReceiveBye(p) \/ ReceiveInput(p) PROVE SkewInv'
  BY <1>1, <1>2 DEF ReceiveHello, ReceiveBye, ReceiveInput, delayVars, inputVars, SkewInv
<1>3. ASSUME NEW p \in PC, ReceiveCheck(p) PROVE SkewInv'
  BY <1>1, <1>3, FollowBounded DEF ReceiveCheck, inputVars
<1>4. ASSUME NEW p \in PC, NEW d \in dgrams, ReceiveDatagram(p, d) PROVE SkewInv'
  BY <1>1, <1>4 DEF ReceiveDatagram, delayVars, SkewInv
<1>5. ASSUME NEW p \in PC, NoticeEnd(p) \/ Leave(p) \/ Drift(p) PROVE SkewInv'
  BY <1>1, <1>5 DEF NoticeEnd, EndRefused, EndDesync, EndLost, Leave, End, Drift, delayVars, inputVars, SkewInv
<1>6. ASSUME Cut \/ UNCHANGED vars PROVE SkewInv'
  BY <1>1, <1>6 DEF Cut, vars, delayVars, inputVars, SkewInv
<1> QED
  BY <1>2, <1>3, <1>4, <1>5, <1>6, SkewScheduling DEF Next, Receive, Step

\* A PC only plays what the other has scheduled, and the other schedules no further than
\* its delay.
LEMMA SkewFollows ==
  ASSUME TypeInv, AgreeInv, SkewInv
  PROVE  SkewBounded
<1> SUFFICES ASSUME NEW p \in PC PROVE frame[p] <= frame[Other(p)] + Ahead(Other(p)) + 1
  BY DEF SkewBounded
<1> DEFINE q == Other(p)
<1>1. q \in PC
  BY DEF Other
<1> HIDE DEF q
<1>2. Ahead(q) \in Nat
  BY <1>1, AheadNat
<1>3. /\ frame[p] \in Nat /\ frame[q] \in Nat /\ schedTo[q] \in Int
      /\ DOMAIN played[p] = 0 .. frame[p] - 1 /\ DOMAIN stream[q] = 0 .. schedTo[q]
  BY <1>1 DEF TypeInv, TypeOK, InputTypeOK
<1>4. schedTo[q] <= frame[q] + Ahead(q)
  BY <1>1 DEF SkewInv
<1>5. CASE frame[p] = 0
  BY <1>2, <1>3, <1>5 DEF q
<1>6. CASE frame[p] # 0
  <2>1. frame[p] - 1 \in DOMAIN played[p]
    BY <1>3, <1>6
  <2>2. frame[p] - 1 \in DOMAIN stream[q]
    BY <1>1, <2>1 DEF AgreeInv, NothingGuessed
  <2>3. frame[p] - 1 <= schedTo[q]
    BY <1>3, <2>2
  <2>4. frame[p] <= frame[q] + Ahead(q) + 1
    BY <1>2, <1>3, <1>4, <2>3
  <2> QED
    BY <2>4 DEF q
<1> QED
  BY <1>5, <1>6

\* No PC runs further ahead of the other than the input delay lets it, whatever the two
\* adaptive delays do.
THEOREM NobodyRunsAhead == Spec => []SkewBounded
<1>1. Init => SkewInv
  BY SkewInit
<1>2. TypeInv /\ SkewInv /\ [Next]_vars => SkewInv'
  BY SkewStep
<1>3. TypeInv /\ AgreeInv /\ SkewInv => SkewBounded
  BY SkewFollows
<1> QED
  BY <1>1, <1>2, <1>3, Agreement, PTL DEF Spec

(***************************************************************************)
(* Checksums: what a record in flight or in a book says                    *)
(***************************************************************************)
\* The frames after which a checksum is sent.
DueCheck(f) == f % CheckEvery = 0

\* The checksum of PC p after frame f, told from what it has played and when it drifted.
SumAt(p, f) ==
  [fed |-> Restrict(played[p], 0 .. f), drift |-> IF driftAt[p] \in 0 .. f THEN {p} ELSE {}]

\* A checksum of PC q: of a frame it has played, and the one of that frame.
SumOf(q, f, s) == f < frame[q] /\ DueCheck(f) /\ s = SumAt(q, f)

IsCheck(r, f) == r.kind = "CHECK" /\ r.frame = f

\* Every checksum in a pipe or a book is the true one of the PC it is about.
SumInv ==
  /\ \A p \in PC : \A i \in 1 .. Len(net[p]) :
       net[p][i].kind = "CHECK" => SumOf(p, net[p][i].frame, net[p][i].sum)
  /\ \A p \in PC : \A f \in DOMAIN mine[p] : SumOf(p, f, mine[p][f])
  /\ \A p \in PC : \A f \in DOMAIN checks[p] : SumOf(Other(p), f, checks[p][f])
  /\ \A p \in PC : driftAt[p] <= frame[p]

LEMMA SumInit == Init => SumInv
BY DEF Init, SumInv, Hello, NoFrame

\* The past is not rewritten: frames stay played, and a drift is of the frame to come.
HistoryGrows ==
  \A p \in PC :
    /\ frame'[p] \in Nat /\ frame[p] <= frame'[p] /\ Agrees(played[p], played'[p])
    /\ driftAt'[p] = driftAt[p] \/ (driftAt[p] = NoFrame /\ driftAt'[p] = frame[p])

\* What one played frame does to the history.
LEMMA RunHistory ==
  ASSUME TypeInv, NEW p \in PC, NEW pad \in Pads, Run(p, pad)
  PROVE  /\ frame[p] \in Nat
         /\ \A q \in PC : frame'[q] = IF q = p THEN frame[p] + 1 ELSE frame[q]
         /\ \A q \in PC : Agrees(played[q], played'[q])
         /\ driftAt' = driftAt
<1> DEFINE now == Put(played[p], frame[p], Fed(p, Scheduled(localInputs[p], p, pad)[frame[p]], peerInputs[p][frame[p]]))
<1>1. /\ frame' = [frame EXCEPT ![p] = frame[p] + 1] /\ played' = [played EXCEPT ![p] = now]
      /\ driftAt' = driftAt
  BY DEF Run
<1>2. /\ frame \in [PC -> 0 .. MaxFrame] /\ DOMAIN played = PC
      /\ played[p] \in [0 .. frame[p] - 1 -> Pads \X Pads] /\ frame[p] \in Nat
  BY DEF TypeInv, TypeOK, InputTypeOK
<1>3. frame[p] \notin DOMAIN played[p]
  BY <1>2
<1>4. Agrees(played[p], now)
  BY <1>3 DEF Agrees, Put
<1> HIDE DEF now
<1>5. \A q \in PC : played'[q] = IF q = p THEN now ELSE played[q]
  BY <1>1, <1>2
<1>6. \A q \in PC : Agrees(played[q], played'[q])
  BY <1>4, <1>5 DEF Agrees
<1> QED
  BY <1>1, <1>2, <1>6

LEMMA StepHistory ==
  ASSUME TypeInv, [Next]_vars
  PROVE  HistoryGrows
<1>0. frame \in [PC -> 0 .. MaxFrame] /\ driftAt \in [PC -> Nat \cup {NoFrame}]
  BY DEF TypeInv, TypeOK, InputTypeOK, BookTypeOK
<1>1. ASSUME UNCHANGED <<frame, played, driftAt>> PROVE HistoryGrows
  BY <1>0, <1>1 DEF HistoryGrows, Agrees
<1>2. ASSUME NEW p \in PC, Receive(p) PROVE HistoryGrows
  BY <1>1, <1>2 DEF Receive, ReceiveHello, ReceiveBye, ReceiveInput, ReceiveCheck, bookVars, inputVars
<1>3. ASSUME NEW p \in PC, NEW pad \in Pads, Wait(p, pad) PROVE HistoryGrows
  BY <1>1, <1>3 DEF Wait, bookVars
<1>4. ASSUME NEW p \in PC, NEW pad \in Pads, Run(p, pad) PROVE HistoryGrows
  BY <1>4, <1>0, RunHistory DEF HistoryGrows
<1>5. ASSUME NEW p \in PC, NEW d \in dgrams, ReceiveDatagram(p, d) PROVE HistoryGrows
  BY <1>1, <1>5 DEF ReceiveDatagram, bookVars
<1>6. ASSUME NEW p \in PC, NoticeEnd(p) \/ Leave(p) PROVE HistoryGrows
  BY <1>1, <1>6 DEF NoticeEnd, EndRefused, EndDesync, EndLost, Leave, End, bookVars, inputVars
<1>7. ASSUME NEW p \in PC, Drift(p) PROVE HistoryGrows
  <2>1. /\ UNCHANGED <<frame, played>> /\ driftAt[p] = NoFrame
        /\ driftAt' = [driftAt EXCEPT ![p] = frame[p]]
    BY <1>7 DEF Drift, inputVars
  <2> QED
    BY <1>0, <2>1 DEF HistoryGrows, Agrees
<1>8. CASE Cut \/ UNCHANGED vars
  BY <1>1, <1>8 DEF Cut, vars, bookVars, inputVars
<1> QED
  BY <1>2, <1>3, <1>4, <1>5, <1>6, <1>7, <1>8 DEF Next, Step

\* A checksum that was true stays true.
LEMMA SumStays ==
  ASSUME TypeInv, HistoryGrows, NEW q \in PC, NEW f \in Nat, NEW s, SumOf(q, f, s)
  PROVE  SumOf(q, f, s)'
<1>1. /\ frame[q] \in Nat /\ frame'[q] \in Nat /\ frame[q] <= frame'[q] /\ DOMAIN played[q] = 0 .. frame[q] - 1
      /\ Agrees(played[q], played'[q])
      /\ driftAt'[q] = driftAt[q] \/ (driftAt[q] = NoFrame /\ driftAt'[q] = frame[q])
  BY DEF HistoryGrows, TypeInv, TypeOK, InputTypeOK
<1>2. f < frame[q] /\ DueCheck(f) /\ s = SumAt(q, f)
  BY DEF SumOf
<1>3. 0 .. f \subseteq DOMAIN played[q]
  BY <1>1, <1>2
<1>4. Restrict(played'[q], 0 .. f) = Restrict(played[q], 0 .. f)
  BY <1>1, <1>3 DEF Restrict, Agrees
<1>5. driftAt'[q] \in 0 .. f <=> driftAt[q] \in 0 .. f
  BY <1>1, <1>2 DEF NoFrame
<1>6. SumAt(q, f)' = SumAt(q, f)
  BY <1>4, <1>5 DEF SumAt
<1>7. f < frame'[q]
  BY <1>1, <1>2
<1> QED
  BY <1>2, <1>6, <1>7 DEF SumOf, DueCheck

\* Comparing the books: what both hold leaves both, and the first difference is noted.
LEMMA CompareEffect ==
  ASSUME BookTypeOK, NEW p \in PC, NEW own, Dict(own, Sums), CompareChecks(p, own)
  PROVE  /\ \A q \in PC \ {p} : mine'[q] = mine[q] /\ checks'[q] = checks[q] /\ desyncAt'[q] = desyncAt[q]
         /\ \A f \in DOMAIN mine'[p] :
              f \in DOMAIN own /\ f \notin DOMAIN checks[p] /\ mine'[p][f] = own[f]
         /\ \A f \in DOMAIN checks'[p] :
              f \in DOMAIN checks[p] /\ f \notin DOMAIN own /\ checks'[p][f] = checks[p][f]
         /\ desyncAt'[p] = desyncAt[p]
              \/ \E f \in DOMAIN own \cap DOMAIN checks[p] : own[f] # checks[p][f] /\ desyncAt'[p] = f
         /\ \A f \in DOMAIN own \cap DOMAIN checks[p] :
              own[f] # checks[p][f] => desyncAt'[p] # NoFrame
<1> DEFINE both == DOMAIN own \cap DOMAIN checks[p]
           differ == {f \in both : own[f] # checks[p][f]}
<1>1. /\ mine' = [mine EXCEPT ![p] = Newest(Without(own, both))]
      /\ checks' = [checks EXCEPT ![p] = Newest(Without(checks[p], both))]
      /\ \/ (desyncAt[p] # NoFrame \/ differ = {}) /\ UNCHANGED desyncAt
         \/ /\ desyncAt[p] = NoFrame
            /\ \E f \in differ : desyncAt' = [desyncAt EXCEPT ![p] = f]
  BY DEF CompareChecks
<1>2. DOMAIN mine = PC /\ DOMAIN checks = PC /\ desyncAt \in [PC -> Nat \cup {NoFrame}]
  BY DEF BookTypeOK
<1>3. both \subseteq Nat
  BY DEF Dict
<1>4. \A d : \A f \in DOMAIN Newest(Without(d, both)) :
        f \in DOMAIN d /\ f \notin both /\ Newest(Without(d, both))[f] = d[f]
  BY DEF Newest, Without, Restrict
<1>5. \A q \in PC \ {p} : mine'[q] = mine[q] /\ checks'[q] = checks[q] /\ desyncAt'[q] = desyncAt[q]
  BY <1>1, <1>2
<1>6. mine'[p] = Newest(Without(own, both)) /\ checks'[p] = Newest(Without(checks[p], both))
  BY <1>1, <1>2
<1>7. \A f \in DOMAIN mine'[p] :
        f \in DOMAIN own /\ f \notin DOMAIN checks[p] /\ mine'[p][f] = own[f]
  <2>1. \A f \in DOMAIN Newest(Without(own, both)) :
          f \in DOMAIN own /\ f \notin both /\ Newest(Without(own, both))[f] = own[f]
    BY <1>4
  <2> QED
    BY <1>6, <2>1
<1>8. \A f \in DOMAIN checks'[p] :
        f \in DOMAIN checks[p] /\ f \notin DOMAIN own /\ checks'[p][f] = checks[p][f]
  <2>1. \A f \in DOMAIN Newest(Without(checks[p], both)) :
          f \in DOMAIN checks[p] /\ f \notin both /\ Newest(Without(checks[p], both))[f] = checks[p][f]
    BY <1>4
  <2> QED
    BY <1>6, <2>1
<1>9. desyncAt'[p] = desyncAt[p]
        \/ \E f \in both : own[f] # checks[p][f] /\ desyncAt'[p] = f
  BY <1>1, <1>2
<1>10. ASSUME NEW f \in both, own[f] # checks[p][f] PROVE desyncAt'[p] # NoFrame
  <2>1. f \in differ
    BY <1>10
  <2> QED
    BY <1>1, <1>2, <1>3, <2>1 DEF NoFrame
<1> QED
  BY <1>5, <1>7, <1>8, <1>9, <1>10

\* The records one played frame sends, and the book it then compares.
LEMMA RunChecks ==
  ASSUME TypeInv, SumInv, NEW p \in PC, NEW pad \in Pads, Run(p, pad), NEW f \in Nat, frame[p] = f
  PROVE  /\ \E last \in Seq(Records) :
              /\ net' = [net EXCEPT ![p] = @ \o NewInputs(p, pad) \o last]
              /\ DueCheck(f) => Len(last) = 1 /\ IsCheck(last[1], f) /\ SumOf(p, f, last[1].sum)'
              /\ ~DueCheck(f) => Len(last) = 0
         /\ \E own :
              /\ Dict(own, Sums) /\ CompareChecks(p, own)
              /\ DOMAIN own = DOMAIN mine[p] \cup (IF DueCheck(f) THEN {f} ELSE {})
              /\ \A g \in DOMAIN own : SumOf(p, g, own[g])'
<1> DEFINE now == Put(played[p], f, Fed(p, Scheduled(localInputs[p], p, pad)[f], peerInputs[p][f]))
<1> PICK sum : sum = Sum(p, now)
  OBVIOUS
<1> PICK last : last = IF DueCheck(f) THEN <<Check(f, sum, peerTs[p])>> ELSE <<>>
  OBVIOUS
<1> PICK own : own = IF DueCheck(f) THEN Put(mine[p], f, sum) ELSE mine[p]
  OBVIOUS
<1>1. /\ net' = [net EXCEPT ![p] = @ \o NewInputs(p, pad) \o last]
      /\ CompareChecks(p, own)
      /\ frame' = [frame EXCEPT ![p] = f + 1] /\ played' = [played EXCEPT ![p] = now]
      /\ driftAt' = driftAt /\ f < MaxFrame
  BY DEF Run, DueCheck, MayStep
<1>2. TypeInv' /\ HistoryGrows
  BY TypeRun, StepHistory DEF Next, Step
<1>3. /\ f \in 0 .. MaxFrame /\ frame'[p] = f + 1 /\ played'[p] = now
      /\ driftAt[p] \in Nat \cup {NoFrame} /\ driftAt[p] <= f
  BY <1>1 DEF TypeInv, TypeOK, InputTypeOK, BookTypeOK, SumInv
<1>4. now \in [0 .. f -> Pads \X Pads]
  <2>1. now \in [0 .. frame'[p] - 1 -> Pads \X Pads]
    BY <1>2, <1>3 DEF TypeInv, TypeOK, InputTypeOK
  <2>2. frame'[p] - 1 = f
    BY <1>3
  <2> QED
    BY <2>1, <2>2
<1> HIDE DEF now
<1>5. sum \in Sums
  <2>1. now \in UNION {[0 .. g -> Pads \X Pads] : g \in 0 .. MaxFrame}
    BY <1>3, <1>4
  <2> QED
    BY <2>1 DEF Sum, Sums
<1>6. sum = SumAt(p, f)'
  <2>1. Restrict(now, 0 .. f) = now
    BY <1>4 DEF Restrict
  <2>2. driftAt[p] = NoFrame <=> driftAt[p] \notin 0 .. f
    BY <1>3 DEF NoFrame
  <2> QED
    BY <1>1, <1>3, <2>1, <2>2 DEF Sum, SumAt
<1>7. DueCheck(f) => SumOf(p, f, sum)'
  BY <1>3, <1>6 DEF SumOf, DueCheck
<1>8. \E x \in Seq(Records) :
        /\ net' = [net EXCEPT ![p] = @ \o NewInputs(p, pad) \o x]
        /\ DueCheck(f) => Len(x) = 1 /\ IsCheck(x[1], f) /\ SumOf(p, f, x[1].sum)'
        /\ ~DueCheck(f) => Len(x) = 0
  <2>1. Check(f, sum, peerTs[p]) \in Records
    BY <1>5 DEF Check, Records, TypeInv, TypeOK, BookTypeOK
  <2>2. last \in Seq(Records)
    BY <2>1
  <2>3. DueCheck(f) => Len(last) = 1 /\ last[1] = Check(f, sum, peerTs[p])
    OBVIOUS
  <2>4. DueCheck(f) => IsCheck(last[1], f) /\ last[1].sum = sum
    BY <2>3 DEF Check, IsCheck
  <2>5. ~DueCheck(f) => Len(last) = 0
    OBVIOUS
  <2> QED
    BY <1>1, <1>7, <2>2, <2>3, <2>4, <2>5
<1>9. /\ Dict(own, Sums)
      /\ DOMAIN own = DOMAIN mine[p] \cup (IF DueCheck(f) THEN {f} ELSE {})
  <2>1. Dict(mine[p], Sums)
    BY DEF TypeInv, TypeOK, BookTypeOK
  <2>2. Dict(own, Sums)
    BY <1>5, <2>1, DictPut
  <2> QED
    BY <2>2 DEF Put
<1>10. ASSUME NEW g \in DOMAIN own PROVE SumOf(p, g, own[g])'
  <2>1. CASE g = f /\ DueCheck(f)
    BY <1>7, <2>1 DEF Put
  <2>2. CASE ~(g = f /\ DueCheck(f))
    <3>1. g \in DOMAIN mine[p] /\ own[g] = mine[p][g]
      BY <2>2 DEF Put
    <3>2. g \in Nat /\ SumOf(p, g, own[g])
      BY <3>1 DEF SumInv, TypeInv, TypeOK, BookTypeOK, Dict
    <3> QED
      BY <1>2, <3>2, SumStays
  <2> QED
    BY <2>1, <2>2
<1> QED
  BY <1>1, <1>8, <1>9, <1>10
\* Reading a record moves the others of its pipe up by one.
LEMMA PipeRead ==
  ASSUME TypeInv, NEW p \in PC, NEW q \in PC, q = Other(p), net[q] # << >>
  PROVE  /\ net[q] \in Seq(Records) /\ Len(net[q]) \in Nat /\ Len(net[q]) >= 1 /\ Record(p) = net[q][1]
         /\ Consumed(p)[q] \in Seq(Records) /\ Len(Consumed(p)[q]) = Len(net[q]) - 1
         /\ \A i \in 1 .. Len(net[q]) - 1 : Consumed(p)[q][i] = net[q][i + 1]
         /\ \A r \in PC \ {q} : Consumed(p)[r] = net[r]
<1>1. net[q] \in Seq(Records) /\ DOMAIN net = PC
  BY DEF TypeInv, TypeOK, WireTypeOK
<1>2. /\ Consumed(p)[q] = Tail(net[q]) /\ \A r \in PC \ {q} : Consumed(p)[r] = net[r]
      /\ Record(p) = Head(net[q])
  BY <1>1 DEF Consumed, Record
<1>3. /\ Tail(net[q]) \in Seq(Records) /\ Len(Tail(net[q])) = Len(net[q]) - 1
      /\ \A i \in 1 .. Len(Tail(net[q])) : Tail(net[q])[i] = net[q][i + 1]
  BY <1>1, HeadTailProperties
<1>4. Head(net[q]) = net[q][1] /\ Len(net[q]) \in Nat /\ Len(net[q]) >= 1
  BY <1>1
<1> QED
  BY <1>1, <1>2, <1>3, <1>4

\* Three sequences in a row.
InARow(all, a, b, c) ==
  /\ Len(all) = Len(a) + Len(b) + Len(c)
  /\ \A i \in 1 .. Len(a) : all[i] = a[i]
  /\ \A i \in 1 .. Len(b) : all[Len(a) + i] = b[i]
  /\ \A i \in 1 .. Len(c) : all[Len(a) + Len(b) + i] = c[i]

\* Sending puts records behind the others.
LEMMA PipeSend ==
  ASSUME NEW a \in Seq(Records), NEW b \in Seq(Records), NEW c \in Seq(Records)
  PROVE  InARow(a \o b \o c, a, b, c)
<1> DEFINE ab == a \o b
           abc == ab \o c
<1>0. Len(a) \in Nat /\ Len(b) \in Nat /\ Len(c) \in Nat
  OBVIOUS
<1>1. /\ ab \in Seq(Records) /\ Len(ab) = Len(a) + Len(b)
      /\ \A i \in 1 .. Len(a) + Len(b) : ab[i] = IF i <= Len(a) THEN a[i] ELSE b[i - Len(a)]
  BY ConcatProperties, Zenon
<1> HIDE DEF ab
<1>2. /\ abc \in Seq(Records) /\ Len(abc) = Len(ab) + Len(c)
      /\ \A i \in 1 .. Len(ab) + Len(c) : abc[i] = IF i <= Len(ab) THEN ab[i] ELSE c[i - Len(ab)]
  BY <1>1, ConcatProperties, Zenon
<1> HIDE DEF abc
<1>3. /\ abc \in Seq(Records) /\ Len(abc) = Len(a) + Len(b) + Len(c)
  BY <1>1, <1>2
<1>4. \A i \in 1 .. Len(a) : abc[i] = a[i]
  BY <1>0, <1>1, <1>2
<1>5. \A i \in 1 .. Len(b) : abc[Len(a) + i] = b[i]
  <2> SUFFICES ASSUME NEW i \in 1 .. Len(b) PROVE abc[Len(a) + i] = b[i]
    OBVIOUS
  <2>1. /\ Len(a) + i \in 1 .. Len(ab) + Len(c) /\ Len(a) + i <= Len(ab)
        /\ Len(a) + i \in 1 .. Len(a) + Len(b) /\ ~(Len(a) + i <= Len(a)) /\ Len(a) + i - Len(a) = i
    BY <1>0, <1>1
  <2> QED
    BY <1>1, <1>2, <2>1
<1>6. \A i \in 1 .. Len(c) : abc[Len(a) + Len(b) + i] = c[i]
  <2> SUFFICES ASSUME NEW i \in 1 .. Len(c) PROVE abc[Len(a) + Len(b) + i] = c[i]
    OBVIOUS
  <2>1. /\ Len(a) + Len(b) + i \in 1 .. Len(ab) + Len(c) /\ ~(Len(a) + Len(b) + i <= Len(ab))
        /\ Len(a) + Len(b) + i - Len(ab) = i
    BY <1>0, <1>1
  <2> QED
    BY <1>2, <2>1
<1>7. a \o b \o c = abc
  BY DEF abc, ab
<1> QED
  BY <1>3, <1>4, <1>5, <1>6, <1>7, Zenon DEF InARow

\* What every step does to the pipes: a record read moves the others up, and what is sent
\* goes behind them.  No step but a played frame sends a checksum.
LEMMA PipeSteps ==
  ASSUME TypeInv, NEW p \in PC, Receive(p)
  PROVE  /\ \A q \in PC : \A i \in 1 .. Len(net'[q]) :
              net'[q][i].kind # "CHECK" \/ \E j \in 1 .. Len(net[q]) : net'[q][i] = net[q][j]
         /\ net[Other(p)] # << >> /\ Record(p) = net[Other(p)][1]
<1> DEFINE q == Other(p)
<1>0. q \in PC /\ q # p
  BY DEF Other
<1>1. net[q] # << >>
  BY DEF Receive, ReceiveHello, ReceiveBye, ReceiveInput, ReceiveCheck, Reads
<1> HIDE DEF q
<1>2. /\ net[q] \in Seq(Records) /\ Len(net[q]) \in Nat /\ Len(net[q]) >= 1 /\ Record(p) = net[q][1]
      /\ Consumed(p)[q] \in Seq(Records) /\ Len(Consumed(p)[q]) = Len(net[q]) - 1
      /\ \A i \in 1 .. Len(net[q]) - 1 : Consumed(p)[q][i] = net[q][i + 1]
      /\ \A r \in PC \ {q} : Consumed(p)[r] = net[r]
  BY <1>0, <1>1, PipeRead DEF q
<1>3. net' = Consumed(p) \/ net' = [Consumed(p) EXCEPT ![p] = Append(Consumed(p)[p], Bye)]
  BY DEF Receive, ReceiveHello, ReceiveBye, ReceiveInput, ReceiveCheck
<1>4. net[p] \in Seq(Records) /\ DOMAIN Consumed(p) = PC
  BY DEF TypeInv, TypeOK, WireTypeOK, Consumed
<1>5. /\ net'[q] = Consumed(p)[q] /\ (net'[p] = net[p] \/ net'[p] = Append(net[p], Bye))
      /\ PC = {p, q}
  BY <1>0, <1>2, <1>3, <1>4
<1>6. ASSUME NEW i \in 1 .. Len(net'[q])
      PROVE  \E j \in 1 .. Len(net[q]) : net'[q][i] = net[q][j]
  <2>1. i + 1 \in 1 .. Len(net[q]) /\ net'[q][i] = net[q][i + 1]
    BY <1>2, <1>5, <1>6
  <2> QED
    BY <2>1
<1>7. ASSUME NEW i \in 1 .. Len(net'[p])
      PROVE  net'[p][i].kind # "CHECK" \/ \E j \in 1 .. Len(net[p]) : net'[p][i] = net[p][j]
  <2>1. CASE net'[p] = net[p]
    BY <1>7, <2>1
  <2>2. CASE net'[p] = Append(net[p], Bye)
    <3>1. /\ Len(net'[p]) = Len(net[p]) + 1 /\ net'[p][Len(net[p]) + 1] = Bye /\ Len(net[p]) \in Nat
          /\ \A k \in 1 .. Len(net[p]) : net'[p][k] = net[p][k]
      BY <1>4, <2>2, AppendProperties
    <3>2. CASE i = Len(net[p]) + 1
      BY <3>1, <3>2 DEF Bye
    <3>3. CASE i # Len(net[p]) + 1
      BY <1>7, <3>1, <3>3
    <3> QED
      BY <3>2, <3>3
  <2> QED
    BY <1>5, <2>1, <2>2
<1>8. ASSUME NEW r \in PC, NEW i \in 1 .. Len(net'[r])
      PROVE  net'[r][i].kind # "CHECK" \/ \E j \in 1 .. Len(net[r]) : net'[r][i] = net[r][j]
  <2>1. CASE r = q
    BY <1>6, <1>8, <2>1
  <2>2. CASE r = p
    BY <1>7, <1>8, <2>2
  <2> QED
    BY <1>5, <2>1, <2>2
<1> QED
  BY <1>1, <1>2, <1>8 DEF q

\* A call sends the inputs it schedules, then the rest, and touches no other pipe.
LEMMA PipeCall ==
  ASSUME TypeInv, NEW p \in PC, NEW pad \in Pads, NEW last \in Seq(Records),
         net' = [net EXCEPT ![p] = @ \o NewInputs(p, pad) \o last]
  PROVE  /\ net[p] \in Seq(Records) /\ NewInputs(p, pad) \in Seq(Records)
         /\ net'[p] = net[p] \o NewInputs(p, pad) \o last
         /\ \A r \in PC \ {p} : net'[r] = net[r]
<1>1. net[p] \in Seq(Records) /\ DOMAIN net = PC
  BY DEF TypeInv, TypeOK, WireTypeOK
<1>2. NewInputs(p, pad) \in Seq(Inputs)
  BY NewInputsProperties DEF TypeInv, TypeOK, InputTypeOK, DelayTypeOK
<1>3. NewInputs(p, pad) \in Seq(Records)
  BY <1>2 DEF Records
<1> QED
  BY <1>1, <1>3

\* Where the record at place i of p's pipe comes from after a call: it was there, it is an
\* input the call scheduled, or what the call sent behind them.
CallSent(p, pad, last, i) ==
  \/ i \in 1 .. Len(net[p]) /\ net'[p][i] = net[p][i]
  \/ \E k \in 1 .. MaxOf(At(p) - schedTo[p], 0) :
       i = Len(net[p]) + k /\ net'[p][i] = Input(schedTo[p] + k, pad)
  \/ \E k \in 1 .. Len(last) :
       i = Len(net[p]) + MaxOf(At(p) - schedTo[p], 0) + k /\ net'[p][i] = last[k]

LEMMA PipeParts ==
  ASSUME TypeInv, NEW p \in PC, NEW pad \in Pads, NEW last \in Seq(Records),
         net' = [net EXCEPT ![p] = @ \o NewInputs(p, pad) \o last],
         NEW n \in 1 .. Len(net'[p])
  PROVE  CallSent(p, pad, last, n)
<1> DEFINE pipe == net[p]
           ins == NewInputs(p, pad)
           new == net'[p]
<1>0. pipe \in Seq(Records) /\ ins \in Seq(Records) /\ new = pipe \o ins \o last
  BY PipeCall
<1>3. Len(ins) = MaxOf(At(p) - schedTo[p], 0) /\ \A j \in 1 .. Len(ins) : ins[j] = Input(schedTo[p] + j, pad)
  <2>1. schedTo[p] \in Nat \cup {-1} /\ frame[p] \in Nat /\ delay[p] \in Nat
    BY DEF TypeInv, TypeOK, InputTypeOK, DelayTypeOK
  <2> QED
    BY <2>1, NewInputsProperties
<1> HIDE DEF pipe, ins, new
<1>1. /\ Len(new) = Len(pipe) + Len(ins) + Len(last)
      /\ \A i \in 1 .. Len(pipe) : new[i] = pipe[i]
      /\ \A i \in 1 .. Len(ins) : new[Len(pipe) + i] = ins[i]
      /\ \A i \in 1 .. Len(last) : new[Len(pipe) + Len(ins) + i] = last[i]
  <2>1. InARow(pipe \o ins \o last, pipe, ins, last)
    BY <1>0, PipeSend
  <2> QED
    BY <1>0, <2>1, Zenon DEF InARow
<1>2. Len(pipe) \in Nat /\ Len(ins) \in Nat /\ Len(last) \in Nat
  BY <1>0
<1>5. n \in Nat /\ 1 <= n /\ n <= Len(pipe) + Len(ins) + Len(last)
  BY <1>1, <1>2 DEF new
<1>6. CASE n <= Len(pipe)
  BY <1>1, <1>2, <1>5, <1>6 DEF CallSent, pipe, ins, new
<1>7. CASE n > Len(pipe) /\ n <= Len(pipe) + Len(ins)
  <2>1. PICK k \in 1 .. Len(ins) : n = Len(pipe) + k
    <3>1. n - Len(pipe) \in 1 .. Len(ins) /\ n = Len(pipe) + (n - Len(pipe))
      BY <1>2, <1>5, <1>7
    <3> QED
      BY <3>1
  <2>2. new[n] = Input(schedTo[p] + k, pad)
    <3>1. new[Len(pipe) + k] = ins[k] /\ ins[k] = Input(schedTo[p] + k, pad)
      BY <1>1, <1>3
    <3> QED
      BY <2>1, <3>1
  <2>3. \E j \in 1 .. MaxOf(At(p) - schedTo[p], 0) : n = Len(net[p]) + j /\ net'[p][n] = Input(schedTo[p] + j, pad)
    BY <1>3, <2>1, <2>2 DEF pipe, ins, new
  <2> QED
    BY <2>3 DEF CallSent, pipe, ins, new
<1>8. CASE n > Len(pipe) + Len(ins)
  <2>1. PICK k \in 1 .. Len(last) : n = Len(pipe) + Len(ins) + k
    <3>1. PICK m \in Nat : m = Len(pipe) + Len(ins)
      BY <1>2
    <3>2. n > m /\ n <= m + Len(last)
      BY <1>5, <1>8, <3>1
    <3>3. n - m \in 1 .. Len(last) /\ n = m + (n - m)
      BY <1>2, <1>5, <3>2
    <3> QED
      BY <3>1, <3>3
  <2>2. new[n] = last[k]
    <3>1. new[Len(pipe) + Len(ins) + k] = last[k]
      BY <1>1
    <3> QED
      BY <2>1, <3>1
  <2>3. \E j \in 1 .. Len(last) : n = Len(net[p]) + MaxOf(At(p) - schedTo[p], 0) + j /\ net'[p][n] = last[j]
    BY <1>3, <2>1, <2>2 DEF pipe, ins, new
  <2> QED
    BY <2>3 DEF CallSent, pipe, ins, new
<1> QED
  BY <1>2, <1>5, <1>6, <1>7, <1>8

\* A call that waits sends its inputs.
LEMMA PipeWait ==
  ASSUME TypeInv, NEW p \in PC, NEW pad \in Pads, Wait(p, pad)
  PROVE  net' = [net EXCEPT ![p] = @ \o NewInputs(p, pad) \o << >>]
<1>1. net' = [net EXCEPT ![p] = @ \o NewInputs(p, pad)]
  BY DEF Wait
<1>2. NewInputs(p, pad) \in Seq(Inputs)
  BY NewInputsProperties DEF TypeInv, TypeOK, InputTypeOK, DelayTypeOK
<1>3. net[p] \o NewInputs(p, pad) \in Seq(Records)
  <2>1. NewInputs(p, pad) \in Seq(Records) /\ net[p] \in Seq(Records)
    BY <1>2 DEF Records, TypeInv, TypeOK, WireTypeOK
  <2> QED
    BY <2>1, ConcatProperties
<1>4. (net[p] \o NewInputs(p, pad)) \o << >> = net[p] \o NewInputs(p, pad)
  BY <1>3, ConcatEmptySeq
<1> QED
  BY <1>1, <1>4

\* A step that plays nothing carries every checksum over.
LEMMA SumCarried ==
  ASSUME TypeInv, SumInv, HistoryGrows, mine' = mine,
         \A p \in PC : \A i \in 1 .. Len(net'[p]) :
           net'[p][i].kind # "CHECK" \/ \E j \in 1 .. Len(net[p]) : net'[p][i] = net[p][j],
         \A p \in PC : \A f \in DOMAIN checks'[p] :
           \/ f \in DOMAIN checks[p] /\ checks'[p][f] = checks[p][f]
           \/ \E q \in PC : /\ q = Other(p) /\ net[q] # << >> /\ IsCheck(net[q][1], f)
                           /\ checks'[p][f] = net[q][1].sum
  PROVE  SumInv'
<1>0. /\ \A p \in PC : net[p] \in Seq(Records)
      /\ \A p \in PC : Dict(mine[p], Sums) /\ Dict(checks[p], Sums)
      /\ \A p \in PC : Other(p) \in PC
  BY DEF TypeInv, TypeOK, WireTypeOK, BookTypeOK, Other
<1>1. \A q \in PC : \A f \in Nat : \A s : SumOf(q, f, s) => SumOf(q, f, s)'
  BY SumStays
<1>2. ASSUME NEW p \in PC, NEW i \in 1 .. Len(net'[p]), NEW r, r = net'[p][i], r.kind = "CHECK"
      PROVE  SumOf(p, r.frame, r.sum)'
  <2>1. PICK j \in 1 .. Len(net[p]) : r = net[p][j]
    BY <1>2
  <2>2. r \in Records /\ SumOf(p, r.frame, r.sum)
    BY <1>0, <1>2, <2>1, ElementOfSeq DEF SumInv
  <2>3. r.frame \in Nat
    BY <1>2, <2>2, RecordKinds
  <2> QED
    BY <1>1, <2>2, <2>3
<1>3. ASSUME NEW p \in PC, NEW f \in DOMAIN mine'[p], NEW s, s = mine'[p][f]
      PROVE  SumOf(p, f, s)'
  <2>1. f \in Nat /\ SumOf(p, f, s)
    BY <1>0, <1>3 DEF SumInv, Dict
  <2> QED
    BY <1>1, <2>1
<1>4. ASSUME NEW p \in PC, NEW f \in DOMAIN checks'[p], NEW s, s = checks'[p][f], NEW q \in PC, q = Other(p)
      PROVE  SumOf(q, f, s)'
  <2>1. CASE f \in DOMAIN checks[p] /\ checks'[p][f] = checks[p][f]
    <3>1. f \in Nat /\ SumOf(q, f, s)
      BY <1>0, <1>4, <2>1 DEF SumInv, Dict
    <3> QED
      BY <1>1, <3>1
  <2>2. CASE net[q] # << >> /\ IsCheck(net[q][1], f) /\ checks'[p][f] = net[q][1].sum
    <3>1. 1 \in 1 .. Len(net[q]) /\ net[q][1] \in Records
      BY <1>0, <2>2
    <3>2. f \in Nat
      BY <2>2, <3>1, RecordKinds DEF IsCheck
    <3>3. SumOf(q, f, s)
      BY <1>4, <2>2, <3>1 DEF SumInv, IsCheck
    <3> QED
      BY <1>1, <3>2, <3>3
  <2> QED
    BY <1>4, <2>1, <2>2
<1>5. \A p \in PC : driftAt'[p] <= frame'[p]
  BY DEF SumInv, HistoryGrows, TypeInv, TypeOK, InputTypeOK, BookTypeOK, NoFrame
<1>6. \A p \in PC : \A i \in 1 .. Len(net'[p]) :
        net'[p][i].kind = "CHECK" => SumOf(p, net[p][i].frame, net[p][i].sum)'
  BY <1>2 DEF SumOf, SumAt, DueCheck
<1>7. \A p \in PC : \A f \in DOMAIN mine'[p] : SumOf(p, f, mine[p][f])'
  <2> SUFFICES ASSUME NEW p \in PC, NEW f \in DOMAIN mine'[p] PROVE SumOf(p, f, mine[p][f])'
    OBVIOUS
  <2>1. PICK s : s = mine'[p][f]
    OBVIOUS
  <2>2. SumOf(p, f, s)'
    BY <1>3, <2>1
  <2> QED
    BY <2>1, <2>2 DEF SumOf
<1>8. \A p \in PC : \A f \in DOMAIN checks'[p] : SumOf(Other(p), f, checks[p][f])'
  <2> SUFFICES ASSUME NEW p \in PC, NEW f \in DOMAIN checks'[p] PROVE SumOf(Other(p), f, checks[p][f])'
    OBVIOUS
  <2>1. PICK s : s = checks'[p][f]
    OBVIOUS
  <2>2. PICK q \in PC : q = Other(p)
    BY <1>0
  <2>3. SumOf(q, f, s)'
    BY <1>4, <2>1, <2>2
  <2> QED
    BY <2>1, <2>2, <2>3 DEF SumOf
<1> QED
  BY <1>5, <1>6, <1>7, <1>8 DEF SumInv

\* A played frame puts a true checksum in the pipe and in the book.
LEMMA SumRun ==
  ASSUME TypeInv, SumInv, NEW p \in PC, NEW pad \in Pads, Run(p, pad)
  PROVE  SumInv'
<1> PICK f \in Nat : frame[p] = f
  BY DEF TypeInv, TypeOK, InputTypeOK
<1>0. /\ HistoryGrows
      /\ \A q \in PC : net[q] \in Seq(Records)
      /\ \A q \in PC : Dict(mine[q], Sums) /\ Dict(checks[q], Sums)
      /\ BookTypeOK
  BY StepHistory DEF Next, Step, TypeInv, TypeOK, WireTypeOK, BookTypeOK
<1>1. \A q \in PC : \A g \in Nat : \A s : SumOf(q, g, s) => SumOf(q, g, s)'
  BY <1>0, SumStays
<1>2. PICK last \in Seq(Records) :
        /\ net' = [net EXCEPT ![p] = @ \o NewInputs(p, pad) \o last]
        /\ DueCheck(f) => Len(last) = 1 /\ IsCheck(last[1], f) /\ SumOf(p, f, last[1].sum)'
        /\ ~DueCheck(f) => Len(last) = 0
  BY RunChecks
<1>3. PICK own :
        /\ Dict(own, Sums) /\ CompareChecks(p, own)
        /\ DOMAIN own = DOMAIN mine[p] \cup (IF DueCheck(f) THEN {f} ELSE {})
        /\ \A g \in DOMAIN own : SumOf(p, g, own[g])'
  BY RunChecks
<1>4. \A r \in PC \ {p} : net'[r] = net[r]
  BY <1>2, PipeCall
<1>5. ASSUME NEW q \in PC, NEW i \in 1 .. Len(net[q]), NEW r, r = net[q][i], r.kind = "CHECK"
      PROVE  SumOf(q, r.frame, r.sum)'
  <2>1. r \in Records /\ SumOf(q, r.frame, r.sum)
    BY <1>0, <1>5, ElementOfSeq DEF SumInv
  <2>2. r.frame \in Nat
    BY <1>5, <2>1, RecordKinds
  <2> QED
    BY <1>1, <2>1, <2>2
<1>6. ASSUME NEW q \in PC, NEW i \in 1 .. Len(net'[q]), NEW r, r = net'[q][i], r.kind = "CHECK"
      PROVE  SumOf(q, r.frame, r.sum)'
  <2>1. CASE q # p
    BY <1>4, <1>5, <1>6, <2>1
  <2>2. CASE q = p
    <3>1. i \in 1 .. Len(net'[p]) /\ net'[p][i] = r
      BY <1>6, <2>2
    <3>2. CASE i \in 1 .. Len(net[p]) /\ net'[p][i] = net[p][i]
      BY <1>5, <1>6, <2>2, <3>1, <3>2
    <3>3. ASSUME NEW k \in 1 .. MaxOf(At(p) - schedTo[p], 0), net'[p][i] = Input(schedTo[p] + k, pad)
          PROVE  FALSE
      BY <1>6, <3>1, <3>3 DEF Input
    <3>4. ASSUME NEW k \in 1 .. Len(last), net'[p][i] = last[k]
          PROVE  SumOf(q, r.frame, r.sum)'
      <4>1. DueCheck(f)
        BY <1>2, <3>4
      <4>6. Len(last) = 1 /\ k \in 1 .. Len(last)
        BY <1>2, <3>4, <4>1
      <4>2. k = 1
        BY <4>6
      <4>3. r = last[1] /\ IsCheck(last[1], f) /\ SumOf(p, f, last[1].sum)'
        BY <1>2, <3>1, <3>4, <4>1, <4>2, Zenon
      <4>4. PICK s : s = last[1].sum
        OBVIOUS
      <4>5. r.frame = f /\ r.sum = s /\ SumOf(p, f, s)'
        BY <4>3, <4>4 DEF IsCheck
      <4> QED
        BY <2>2, <4>5
    <3>5. \/ i \in 1 .. Len(net[p]) /\ net'[p][i] = net[p][i]
          \/ \E k \in 1 .. MaxOf(At(p) - schedTo[p], 0) : net'[p][i] = Input(schedTo[p] + k, pad)
          \/ \E k \in 1 .. Len(last) : net'[p][i] = last[k]
      <4>1. net' = [net EXCEPT ![p] = @ \o NewInputs(p, pad) \o last]
        BY <1>2
      <4>2. CallSent(p, pad, last, i)
        BY <3>1, <4>1, PipeParts
      <4> QED
        BY <4>2 DEF CallSent
    <3> QED
      BY <3>2, <3>3, <3>4, <3>5
  <2> QED
    BY <2>1, <2>2
<1>7. \A q \in PC : \A i \in 1 .. Len(net'[q]) :
        net'[q][i].kind = "CHECK" => SumOf(q, net[q][i].frame, net[q][i].sum)'
  BY <1>6 DEF SumOf, SumAt, DueCheck
<1>8. /\ \A q \in PC \ {p} : mine'[q] = mine[q] /\ checks'[q] = checks[q]
      /\ \A g \in DOMAIN mine'[p] : g \in DOMAIN own /\ mine'[p][g] = own[g]
      /\ \A g \in DOMAIN checks'[p] : g \in DOMAIN checks[p] /\ checks'[p][g] = checks[p][g]
  BY <1>0, <1>3, CompareEffect
<1>9. \A q \in PC : \A g \in DOMAIN mine'[q] : SumOf(q, g, mine[q][g])'
  <2> SUFFICES ASSUME NEW q \in PC, NEW g \in DOMAIN mine'[q] PROVE SumOf(q, g, mine[q][g])'
    OBVIOUS
  <2>1. PICK s : s = mine'[q][g]
    OBVIOUS
  <2>2. SumOf(q, g, s)'
    <3>1. CASE q = p
      <4>1. g \in DOMAIN own /\ own[g] = s
        BY <1>8, <2>1, <3>1
      <4>2. SumOf(p, g, own[g])'
        BY <1>3, <4>1
      <4> QED
        BY <3>1, <4>1, <4>2
    <3>2. CASE q # p
      <4>1. g \in Nat /\ SumOf(q, g, s)
        BY <1>0, <1>8, <2>1, <3>2 DEF SumInv, Dict
      <4> QED
        BY <1>1, <4>1
    <3> QED
      BY <3>1, <3>2
  <2> QED
    BY <2>1, <2>2 DEF SumOf
<1>10. \A q \in PC : \A g \in DOMAIN checks'[q] : SumOf(Other(q), g, checks[q][g])'
  <2> SUFFICES ASSUME NEW q \in PC, NEW g \in DOMAIN checks'[q] PROVE SumOf(Other(q), g, checks[q][g])'
    OBVIOUS
  <2>1. PICK s : s = checks'[q][g]
    OBVIOUS
  <2>2. PICK o \in PC : o = Other(q)
    BY DEF Other
  <2>3. g \in DOMAIN checks[q] /\ checks[q][g] = s
    BY <1>8, <2>1
  <2>4. g \in Nat /\ SumOf(o, g, s)
    BY <1>0, <2>2, <2>3 DEF SumInv, Dict
  <2>5. SumOf(o, g, s)'
    BY <1>1, <2>4
  <2> QED
    BY <2>1, <2>2, <2>5 DEF SumOf
<1>11. \A q \in PC : driftAt'[q] <= frame'[q]
  <2> SUFFICES ASSUME NEW q \in PC PROVE driftAt'[q] <= frame'[q]
    OBVIOUS
  <2>1. /\ frame'[q] \in Nat /\ frame[q] <= frame'[q]
        /\ driftAt'[q] = driftAt[q] \/ driftAt'[q] = frame[q]
    BY <1>0 DEF HistoryGrows
  <2>2. driftAt[q] \in Int /\ frame[q] \in Int
    BY DEF TypeInv, TypeOK, InputTypeOK, BookTypeOK, NoFrame
  <2>3. driftAt[q] <= frame[q]
    BY DEF SumInv
  <2> QED
    BY <2>1, <2>2, <2>3
<1> QED
  BY <1>7, <1>9, <1>10, <1>11 DEF SumInv

\* A record that is read is the truth about its sender.
LEMMA SumReceive ==
  ASSUME TypeInv, SumInv, NEW p \in PC, Receive(p)
  PROVE  SumInv'
<1>1. HistoryGrows
  BY StepHistory DEF Next
<1>2. \A q \in PC : \A i \in 1 .. Len(net'[q]) :
        net'[q][i].kind # "CHECK" \/ \E j \in 1 .. Len(net[q]) : net'[q][i] = net[q][j]
  BY PipeSteps
<1>3. mine' = mine
  BY DEF Receive, ReceiveHello, ReceiveBye, ReceiveInput, ReceiveCheck, bookVars
<1>4. ASSUME NEW q \in PC, NEW f \in DOMAIN checks'[q]
      PROVE  \/ f \in DOMAIN checks[q] /\ checks'[q][f] = checks[q][f]
             \/ \E o \in PC : /\ o = Other(q) /\ net[o] # << >> /\ IsCheck(net[o][1], f)
                             /\ checks'[q][f] = net[o][1].sum
  <2>1. CASE checks' = checks
    BY <1>4, <2>1
  <2>2. CASE ReceiveCheck(p)
    <3>1. PICK r : r = Record(p)
      OBVIOUS
    <3>2. r.kind = "CHECK" /\ checks' = [checks EXCEPT ![p] = Put(@, r.frame, r.sum)]
      BY <2>2, <3>1 DEF ReceiveCheck, Reads
    <3>3. PICK o \in PC : o = Other(p)
      BY DEF Other
    <3>4. net[o] # << >> /\ r = net[o][1]
      BY <3>1, <3>3, PipeSteps
    <3>5. DOMAIN checks = PC
      BY DEF TypeInv, TypeOK, BookTypeOK
    <3>6. CASE q # p
      BY <1>4, <3>2, <3>5, <3>6
    <3>7. CASE q = p /\ f # r.frame
      BY <1>4, <3>2, <3>5, <3>7 DEF Put
    <3>8. CASE q = p /\ f = r.frame
      BY <3>2, <3>3, <3>4, <3>5, <3>8 DEF Put, IsCheck
    <3> QED
      BY <3>6, <3>7, <3>8
  <2> QED
    BY <2>1, <2>2 DEF Receive, ReceiveHello, ReceiveBye, ReceiveInput, bookVars
<1> QED
  BY <1>1, <1>2, <1>3, <1>4, SumCarried

LEMMA SumStep == TypeInv /\ SumInv /\ [Next]_vars => SumInv'
<1> SUFFICES ASSUME TypeInv, SumInv, [Next]_vars PROVE SumInv'
  OBVIOUS
<1>0. HistoryGrows
  BY StepHistory
<1>1. ASSUME UNCHANGED <<net, mine, checks>> PROVE SumInv'
  BY <1>0, <1>1, SumCarried
<1>2. ASSUME NEW p \in PC, NEW pad \in Pads, Wait(p, pad) PROVE SumInv'
  <2>1. << >> \in Seq(Records) /\ Len(<< >>) = 0
    OBVIOUS
  <2>2. net' = [net EXCEPT ![p] = @ \o NewInputs(p, pad) \o << >>]
    BY <1>2, PipeWait
  <2>3. \A r \in PC \ {p} : net'[r] = net[r]
    BY <2>1, <2>2, PipeCall
  <2>4. ASSUME NEW q \in PC, NEW i \in 1 .. Len(net'[q])
        PROVE  net'[q][i].kind # "CHECK" \/ \E j \in 1 .. Len(net[q]) : net'[q][i] = net[q][j]
    <3>1. CASE q # p
      BY <2>3, <2>4, <3>1
    <3>2. CASE q = p
      <4> PICK last \in Seq(Records) : last = << >>
        BY <2>1
      <4>1. i \in 1 .. Len(net'[p]) /\ net' = [net EXCEPT ![p] = @ \o NewInputs(p, pad) \o last]
        BY <2>2, <2>4, <3>2
      <4>2. CallSent(p, pad, last, i)
        BY <4>1, PipeParts
      <4>3. CASE i \in 1 .. Len(net[p]) /\ net'[p][i] = net[p][i]
        BY <3>2, <4>3
      <4>4. ASSUME NEW k \in 1 .. MaxOf(At(p) - schedTo[p], 0), net'[p][i] = Input(schedTo[p] + k, pad)
            PROVE  net'[q][i].kind # "CHECK"
        BY <3>2, <4>4 DEF Input
      <4>5. ~(\E k \in 1 .. Len(last) : TRUE)
        BY <2>1
      <4> QED
        BY <4>2, <4>3, <4>4, <4>5 DEF CallSent
    <3> QED
      BY <3>1, <3>2
  <2>5. mine' = mine /\ checks' = checks
    BY <1>2 DEF Wait, bookVars
  <2> QED
    BY <1>0, <2>4, <2>5, SumCarried
<1>3. ASSUME NEW p \in PC, NEW d \in dgrams, ReceiveDatagram(p, d) PROVE SumInv'
  BY <1>1, <1>3 DEF ReceiveDatagram, bookVars
<1>4. ASSUME NEW p \in PC, NoticeEnd(p) \/ Leave(p) \/ Drift(p) PROVE SumInv'
  BY <1>1, <1>4 DEF NoticeEnd, EndRefused, EndDesync, EndLost, Leave, End, Drift, bookVars
<1>5. ASSUME Cut \/ UNCHANGED vars PROVE SumInv'
  BY <1>1, <1>5 DEF Cut, vars, bookVars
<1> QED
  BY <1>2, <1>3, <1>4, <1>5, SumRun, SumReceive DEF Next, Step

\* Two true checksums of the same frame of one match differ only after a drift.
LEMMA DriftFirst ==
  ASSUME TypeInv', NothingGuessed', NEW p \in PC, NEW q \in PC, NEW f \in Nat, NEW s, NEW t,
         SumOf(p, f, s)', SumOf(q, f, t)', s # t
  PROVE  \E r \in PC : driftAt'[r] \in 0 .. f
<1>1. /\ frame'[p] \in Nat /\ frame'[q] \in Nat /\ f < frame'[p] /\ f < frame'[q]
      /\ DOMAIN played'[p] = 0 .. frame'[p] - 1 /\ DOMAIN played'[q] = 0 .. frame'[q] - 1
  BY DEF SumOf, TypeInv, TypeOK, InputTypeOK
<1>2. \A g \in 0 .. f : g \in DOMAIN played'[p] /\ g \in DOMAIN played'[q] /\ played'[p][g] = played'[q][g]
  <2> SUFFICES ASSUME NEW g \in 0 .. f
               PROVE  g \in DOMAIN played'[p] /\ g \in DOMAIN played'[q] /\ played'[p][g] = played'[q][g]
    OBVIOUS
  <2>1. g \in DOMAIN played'[p] /\ g \in DOMAIN played'[q]
    BY <1>1
  <2>2. /\ played'[p][g] = <<stream'[Host][g], stream'[Joiner][g]>>
        /\ played'[q][g] = <<stream'[Host][g], stream'[Joiner][g]>>
    BY <2>1 DEF NothingGuessed
  <2> QED
    BY <2>1, <2>2
<1>3. Restrict(played'[p], 0 .. f) = Restrict(played'[q], 0 .. f)
  BY <1>2 DEF Restrict
<1> QED
  BY <1>3 DEF SumOf, SumAt

\* A PC reports the first frame whose two checksums differ, and both are true.
LEMMA AlarmStep == TypeInv /\ AgreeInv /\ SumInv /\ NoFalseAlarm /\ [Next]_vars => NoFalseAlarm'
<1> SUFFICES ASSUME TypeInv, AgreeInv, SumInv, NoFalseAlarm, [Next]_vars PROVE NoFalseAlarm'
  OBVIOUS
<1>0. HistoryGrows
  BY StepHistory
<1>1. ASSUME NEW g \in Nat, NEW r \in PC, driftAt[r] \in 0 .. g PROVE driftAt'[r] \in 0 .. g
  BY <1>0, <1>1 DEF HistoryGrows, NoFrame
<1>2. ASSUME NEW p \in PC, desyncAt'[p] = desyncAt[p], desyncAt'[p] # NoFrame
      PROVE  \E q \in PC : driftAt'[q] \in 0 .. desyncAt'[p]
  <2>1. desyncAt[p] \in Nat
    BY <1>2 DEF TypeInv, TypeOK, BookTypeOK
  <2>2. PICK r \in PC : driftAt[r] \in 0 .. desyncAt[p]
    BY <1>2 DEF NoFalseAlarm
  <2> QED
    BY <1>1, <1>2, <2>1, <2>2
<1>3. ASSUME desyncAt' = desyncAt PROVE NoFalseAlarm'
  BY <1>2, <1>3 DEF NoFalseAlarm
<1>4. ASSUME NEW p \in PC, NEW pad \in Pads, Run(p, pad) PROVE NoFalseAlarm'
  <2> PICK f \in Nat : frame[p] = f
    BY DEF TypeInv, TypeOK, InputTypeOK
  <2>1. TypeInv' /\ AgreeInv' /\ SumInv' /\ BookTypeOK
    BY TypeStep, AgreeStep, SumStep DEF TypeInv, TypeOK
  <2>2. PICK own :
          /\ Dict(own, Sums) /\ CompareChecks(p, own)
          /\ \A g \in DOMAIN own : SumOf(p, g, own[g])'
    BY <1>4, RunChecks
  <2>3. /\ \A q \in PC \ {p} : desyncAt'[q] = desyncAt[q]
        /\ desyncAt'[p] = desyncAt[p]
             \/ \E g \in DOMAIN own \cap DOMAIN checks[p] : own[g] # checks[p][g] /\ desyncAt'[p] = g
    BY <2>1, <2>2, CompareEffect
  <2>4. ASSUME NEW g \in DOMAIN own \cap DOMAIN checks[p], own[g] # checks[p][g]
        PROVE  \E r \in PC : driftAt'[r] \in 0 .. g
    <3>1. PICK s : s = own[g]
      OBVIOUS
    <3>2. PICK t : t = checks[p][g]
      OBVIOUS
    <3>3. PICK q \in PC : q = Other(p)
      BY DEF Other
    <3>4. g \in Nat
      BY <2>2, <2>4 DEF Dict
    <3>5. SumOf(p, g, s)'
      <4>1. SumOf(p, g, own[g])'
        BY <2>2, <2>4
      <4> QED
        BY <3>1, <4>1
    <3>6. SumOf(q, g, t)'
      <4>1. SumOf(q, g, t)
        BY <2>4, <3>2, <3>3 DEF SumInv
      <4> QED
        BY <1>0, <3>4, <4>1, SumStays
    <3>7. NothingGuessed'
      BY <2>1 DEF AgreeInv
    <3>8. s # t
      BY <2>4, <3>1, <3>2
    <3> QED
      BY <2>1, <3>4, <3>5, <3>6, <3>7, <3>8, DriftFirst
  <2> QED
    BY <1>2, <2>3, <2>4 DEF NoFalseAlarm
<1>5. ASSUME NEW p \in PC, Receive(p) PROVE NoFalseAlarm'
  BY <1>3, <1>5 DEF Receive, ReceiveHello, ReceiveBye, ReceiveInput, ReceiveCheck, bookVars
<1>6. ASSUME NEW p \in PC, NEW pad \in Pads, Wait(p, pad) PROVE NoFalseAlarm'
  BY <1>3, <1>6 DEF Wait, bookVars
<1>7. ASSUME NEW p \in PC, NEW d \in dgrams, ReceiveDatagram(p, d) PROVE NoFalseAlarm'
  BY <1>3, <1>7 DEF ReceiveDatagram, bookVars
<1>8. ASSUME NEW p \in PC, NoticeEnd(p) \/ Leave(p) \/ Drift(p) PROVE NoFalseAlarm'
  BY <1>3, <1>8 DEF NoticeEnd, EndRefused, EndDesync, EndLost, Leave, End, Drift, bookVars
<1>9. ASSUME Cut \/ UNCHANGED vars PROVE NoFalseAlarm'
  BY <1>3, <1>9 DEF Cut, vars, bookVars
<1> QED
  BY <1>4, <1>5, <1>6, <1>7, <1>8, <1>9 DEF Next, Step

\* A desync is only reported when a simulation really drifted, and not for a frame before
\* it did: neither lost or overtaking inputs nor the changing delays end a good match.
THEOREM DesyncIsReal == Spec => []NoFalseAlarm
<1>1. Init => SumInv /\ NoFalseAlarm
  BY SumInit DEF Init, NoFalseAlarm
<1>2. TypeInv /\ AgreeInv /\ SumInv /\ NoFalseAlarm /\ [Next]_vars => SumInv' /\ NoFalseAlarm'
  BY SumStep, AlarmStep
<1> QED
  BY <1>1, <1>2, Agreement, PTL DEF Spec

(***************************************************************************)
(* A drift is caught in time                                               *)
(***************************************************************************)
DueFrames == {c \in Nat : DueCheck(c)}

\* The books are long enough for every checksum that can wait for its partner (8 checksums
\* of 60 frames each, for delays of 30 frames at most).
BooksReach == \A d \in Delays \cup {MaxDelay} : d < BookSize * CheckEvery

\* p has compared its checksum of frame c with q's, and has told a drift before it.
Compared(p, q, c) ==
  /\ c < frame[p] /\ c < frame[q] /\ c \notin DOMAIN mine[p]
  /\ (\E r \in PC : driftAt[r] \in 0 .. c) => desyncAt[p] # NoFrame

\* p holds q's checksum of frame c, or has compared it.
Heard(p, q, c) == c \in DOMAIN checks[p] \/ Compared(p, q, c)

\* An input that lets p pass q's checksum of c comes behind that checksum.
Ordered(p, q) ==
  \A i \in 1 .. Len(net[q]) : \A c \in DueFrames :
    net[q][i].kind = "INPUT" /\ c + Ahead(q) < net[q][i].frame =>
      Heard(p, q, c) \/ \E j \in 1 .. i - 1 : IsCheck(net[q][j], c)
\* So p has heard of c before it knows such an input ...
Known(p, q) ==
  \A g \in DOMAIN peerInputs[p] : \A c \in DueFrames : c + Ahead(q) < g => Heard(p, q, c)
\* ... and has compared it once it has played one.
Settled(p, q) ==
  \A c \in DueFrames : c + Ahead(q) + 1 < frame[p] => Compared(p, q, c)
\* A checksum of a frame played waits in the own book until it is compared.
Kept(p, q) ==
  \A c \in DueFrames : c < frame[p] => c \in DOMAIN mine[p] \/ Compared(p, q, c)
\* A checksum sent is in the pipe until it is heard.
OnItsWay(p, q) ==
  \A c \in DueFrames : c < frame[q] =>
    Heard(p, q, c) \/ \E i \in 1 .. Len(net[q]) : IsCheck(net[q][i], c)
\* It comes once, before it was heard, and finds its partner in the book.
Once(p, q) ==
  \A i \in 1 .. Len(net[q]) : \A c \in Nat : IsCheck(net[q][i], c) =>
    /\ c \notin DOMAIN checks[p] /\ (c < frame[p] => c \in DOMAIN mine[p])
    /\ \A j \in 1 .. Len(net[q]) : IsCheck(net[q][j], c) => j = i
Paired(p) == \A c \in DOMAIN checks[p] : c < frame[p] => c \in DOMAIN mine[p]

OrderOf(p, q) ==
  /\ Ordered(p, q) /\ Known(p, q) /\ Settled(p, q) /\ Kept(p, q)
  /\ OnItsWay(p, q) /\ Once(p, q) /\ Paired(p)
\* PCs that do not agree play nothing, and may have pre-filled different numbers of frames.
OrderInv == Compatible => \A p \in PC : \A q \in PC \ {p} : OrderOf(p, q)

LEMMA OrderInit == Init => OrderInv
<1> SUFFICES ASSUME Init, Compatible, NEW p \in PC, NEW q \in PC \ {p} PROVE OrderOf(p, q)
  BY DEF OrderInv
<1>0. TypeInv
  BY TypeInit
<1>1. net[q] = <<Hello(q)>> /\ frame[p] = 0 /\ frame[q] = 0 /\ checks[p] = << >>
  BY DEF Init
<1>2. Len(net[q]) = 1 /\ net[q][1].kind = "HELLO"
  BY <1>1 DEF Hello
<1>3. Ordered(p, q) /\ Once(p, q)
  BY <1>2 DEF Ordered, Once, IsCheck
<1>4. Ahead(p) \in Nat /\ Ahead(q) \in Nat /\ settings[p].delay \in Nat
  BY <1>0, AheadNat
<1>5. Known(p, q)
  <2> SUFFICES ASSUME NEW g \in DOMAIN peerInputs[p], NEW c \in DueFrames, c + Ahead(q) < g PROVE FALSE
    BY DEF Known
  <2>1. g \in 0 .. settings[p].delay - 1
    BY DEF Init, Prefilled
  <2>2. settings[p] = settings[q]
    BY DEF Compatible
  <2>3. settings[p].delay <= Ahead(q) /\ c \in Nat
    BY <1>0, <2>2, AheadNat DEF DueFrames
  <2> QED
    BY <1>4, <2>1, <2>3
<1>6. Settled(p, q) /\ Kept(p, q) /\ OnItsWay(p, q)
  BY <1>1, <1>4 DEF Settled, Kept, OnItsWay, DueFrames
<1>7. Paired(p)
  BY <1>1 DEF Paired
<1> QED
  BY <1>3, <1>5, <1>6, <1>7 DEF OrderOf

\* What a step may do to a book of one's own and to an alarm.
LEMMA StepBooks ==
  ASSUME TypeInv, SumInv, [Next]_vars, NEW p \in PC
  PROVE  /\ DOMAIN mine'[p] \subseteq DOMAIN mine[p] \cup {frame[p]}
         /\ desyncAt[p] # NoFrame => desyncAt'[p] # NoFrame
<1>1. ASSUME UNCHANGED <<mine, desyncAt>> PROVE DOMAIN mine'[p] \subseteq DOMAIN mine[p] /\ desyncAt'[p] = desyncAt[p]
  BY <1>1
<1>2. ASSUME NEW r \in PC, Receive(r) PROVE UNCHANGED <<mine, desyncAt>>
  BY <1>2 DEF Receive, ReceiveHello, ReceiveBye, ReceiveInput, ReceiveCheck, bookVars
<1>3. ASSUME NEW r \in PC, NEW pad \in Pads, Wait(r, pad) PROVE UNCHANGED <<mine, desyncAt>>
  BY <1>3 DEF Wait, bookVars
<1>4. ASSUME NEW r \in PC, NEW d \in dgrams, ReceiveDatagram(r, d) PROVE UNCHANGED <<mine, desyncAt>>
  BY <1>4 DEF ReceiveDatagram, bookVars
<1>5. ASSUME NEW r \in PC, NoticeEnd(r) \/ Leave(r) \/ Drift(r) PROVE UNCHANGED <<mine, desyncAt>>
  BY <1>5 DEF NoticeEnd, EndRefused, EndDesync, EndLost, Leave, End, Drift, bookVars
<1>6. ASSUME Cut \/ UNCHANGED vars PROVE UNCHANGED <<mine, desyncAt>>
  BY <1>6 DEF Cut, vars, bookVars
<1>7. ASSUME NEW r \in PC, NEW pad \in Pads, Run(r, pad)
      PROVE  /\ DOMAIN mine'[p] \subseteq DOMAIN mine[p] \cup {frame[p]}
             /\ desyncAt[p] # NoFrame => desyncAt'[p] # NoFrame
  <2>1. PICK f \in Nat : frame[r] = f
    BY DEF TypeInv, TypeOK, InputTypeOK
  <2>2. PICK own :
          /\ Dict(own, Sums) /\ CompareChecks(r, own)
          /\ DOMAIN own = DOMAIN mine[r] \cup (IF DueCheck(f) THEN {f} ELSE {})
    BY <1>7, <2>1, RunChecks
  <2>3. BookTypeOK
    BY DEF TypeInv, TypeOK
  <2>4. /\ \A q \in PC \ {r} : mine'[q] = mine[q] /\ desyncAt'[q] = desyncAt[q]
        /\ \A g \in DOMAIN mine'[r] : g \in DOMAIN own
        /\ desyncAt'[r] = desyncAt[r] \/ \E g \in DOMAIN own : desyncAt'[r] = g
    BY <2>2, <2>3, CompareEffect
  <2>5. DOMAIN own \subseteq Nat
    BY <2>2 DEF Dict
  <2>6. CASE p = r
    BY <2>1, <2>2, <2>4, <2>5, <2>6 DEF NoFrame
  <2>7. CASE p # r
    BY <2>4, <2>7
  <2> QED
    BY <2>6, <2>7
<1> QED
  BY <1>1, <1>2, <1>3, <1>4, <1>5, <1>6, <1>7 DEF Next, Step

\* What has been compared stays compared: a later drift is of a later frame.
LEMMA ComparedStays ==
  ASSUME TypeInv, SumInv, [Next]_vars, NEW p \in PC, NEW q \in PC \ {p}, NEW c \in Nat, Compared(p, q, c)
  PROVE  Compared(p, q, c)'
<1>1. HistoryGrows
  BY StepHistory
<1>2. /\ DOMAIN mine'[p] \subseteq DOMAIN mine[p] \cup {frame[p]}
      /\ desyncAt[p] # NoFrame => desyncAt'[p] # NoFrame
  BY StepBooks
<1>3. /\ c < frame[p] /\ c < frame[q] /\ c \notin DOMAIN mine[p]
      /\ (\E r \in PC : driftAt[r] \in 0 .. c) => desyncAt[p] # NoFrame
  BY DEF Compared
<1>4. \A r \in PC : frame[r] \in Nat /\ frame'[r] \in Nat /\ frame[r] <= frame'[r]
  BY <1>1 DEF HistoryGrows, TypeInv, TypeOK, InputTypeOK
<1>5. c < frame'[p] /\ c < frame'[q] /\ c \notin DOMAIN mine'[p]
  BY <1>2, <1>3, <1>4
<1>6. PC = {p, q}
  OBVIOUS
<1>7. ASSUME NEW r \in PC, driftAt'[r] \in 0 .. c PROVE desyncAt'[p] # NoFrame
  <2>1. driftAt'[r] = driftAt[r] \/ driftAt'[r] = frame[r]
    BY <1>1 DEF HistoryGrows
  <2>2. CASE driftAt'[r] = driftAt[r]
    BY <1>2, <1>3, <1>7, <2>2
  <2>3. CASE driftAt'[r] = frame[r]
    BY <1>3, <1>4, <1>6, <1>7, <2>3
  <2> QED
    BY <2>1, <2>2, <2>3
<1> QED
  BY <1>5, <1>7 DEF Compared

LEMMA HeardStays ==
  ASSUME TypeInv, SumInv, [Next]_vars, NEW p \in PC, NEW q \in PC \ {p}, NEW c \in Nat, Heard(p, q, c),
         DOMAIN checks[p] \subseteq DOMAIN checks'[p]
  PROVE  Heard(p, q, c)'
BY ComparedStays DEF Heard

\* Reading takes the first record of a pipe, and may answer with a BYE.
LEMMA ReadPipes ==
  ASSUME TypeInv, NEW p \in PC, NEW q \in PC \ {p}, Receive(p)
  PROVE  /\ net[q] \in Seq(Records) /\ net[q] # << >> /\ Record(p) = net[q][1]
         /\ Len(net'[q]) = Len(net[q]) - 1 /\ \A i \in 1 .. Len(net'[q]) : net'[q][i] = net[q][i + 1]
         /\ net'[p] = net[p] \/ net'[p] = Append(net[p], Bye)
<1>0. q = Other(p) /\ p # q
  BY DEF Other
<1>1. net[q] # << >> /\ Record(p) = net[q][1]
  BY <1>0, PipeSteps
<1>3. /\ net[q] \in Seq(Records) /\ Len(net[q]) \in Nat /\ Len(net[q]) >= 1
      /\ Consumed(p)[q] \in Seq(Records) /\ Len(Consumed(p)[q]) = Len(net[q]) - 1
      /\ \A i \in 1 .. Len(net[q]) - 1 : Consumed(p)[q][i] = net[q][i + 1]
      /\ \A s \in PC \ {q} : Consumed(p)[s] = net[s]
  BY <1>0, <1>1, PipeRead
<1>4. net' = Consumed(p) \/ net' = [Consumed(p) EXCEPT ![p] = Append(Consumed(p)[p], Bye)]
  BY DEF Receive, ReceiveHello, ReceiveBye, ReceiveInput, ReceiveCheck
<1>5. DOMAIN Consumed(p) = PC
  BY DEF TypeInv, TypeOK, WireTypeOK, Consumed
<1>6. net'[q] = Consumed(p)[q] /\ (net'[p] = net[p] \/ net'[p] = Append(net[p], Bye))
  BY <1>0, <1>3, <1>4, <1>5
<1> QED
  BY <1>1, <1>3, <1>6

\* What one record teaches its reader: a checksum, or an input.
Taught(p, r) ==
  /\ DOMAIN checks[p] \subseteq DOMAIN checks'[p]
  /\ \A c : IsCheck(r, c) => c \in DOMAIN checks'[p]
  /\ \A c \in DOMAIN checks'[p] : c \in DOMAIN checks[p] \/ IsCheck(r, c)
  /\ \A g \in DOMAIN peerInputs'[p] :
       g \in DOMAIN peerInputs[p] \/ (r.kind = "INPUT" /\ r.frame = g)

LEMMA ReadEffect ==
  ASSUME TypeInv, NEW p \in PC, NEW q \in PC \ {p}, Receive(p), NEW r, r = Record(p)
  PROVE  /\ UNCHANGED <<settings, frame, mine, desyncAt, driftAt>>
         /\ Taught(p, r)
         /\ checks'[q] = checks[q] /\ peerInputs'[q] = peerInputs[q]
<1>0. p # q
  OBVIOUS
<1>7. UNCHANGED <<settings, frame, mine, desyncAt, driftAt>>
  BY DEF Receive, ReceiveHello, ReceiveBye, ReceiveInput, ReceiveCheck, bookVars, inputVars
<1>8. DOMAIN checks = PC /\ DOMAIN peerInputs = PC
  BY DEF TypeInv, TypeOK, BookTypeOK, InputTypeOK
<1>9. /\ DOMAIN checks[p] \subseteq DOMAIN checks'[p] /\ checks'[q] = checks[q]
      /\ \A c : IsCheck(r, c) => c \in DOMAIN checks'[p]
      /\ \A c \in DOMAIN checks'[p] : c \in DOMAIN checks[p] \/ IsCheck(r, c)
  <2>1. CASE checks' = checks /\ r.kind # "CHECK"
    BY <2>1 DEF IsCheck
  <2>2. CASE ReceiveCheck(p)
    <3>1. r.kind = "CHECK" /\ checks' = [checks EXCEPT ![p] = Put(@, r.frame, r.sum)]
      BY <2>2 DEF ReceiveCheck, Reads
    <3>2. checks'[q] = checks[q] /\ DOMAIN checks'[p] = DOMAIN checks[p] \cup {r.frame}
      BY <1>0, <1>8, <3>1 DEF Put
    <3> QED
      BY <3>1, <3>2 DEF IsCheck
  <2> QED
    BY <2>1, <2>2 DEF Receive, ReceiveHello, ReceiveBye, ReceiveInput, bookVars, Reads
<1>10. /\ \A g \in DOMAIN peerInputs'[p] : (g \in DOMAIN peerInputs[p] \/ (r.kind = "INPUT" /\ r.frame = g))
       /\ peerInputs'[q] = peerInputs[q]
  <2>1. CASE peerInputs' = peerInputs
    BY <2>1
  <2>2. CASE ReceiveInput(p)
    <3>1. /\ r.kind = "INPUT"
          /\ peerInputs' = [peerInputs EXCEPT ![p] = IF r.frame >= frame[p] THEN Put(@, r.frame, r.pad) ELSE @]
      BY <2>2 DEF ReceiveInput, Reads
    <3>2. peerInputs'[q] = peerInputs[q]
      BY <1>0, <1>8, <3>1
    <3>3. ASSUME NEW g \in DOMAIN peerInputs'[p] PROVE g \in DOMAIN peerInputs[p] \/ r.frame = g
      <4>1. CASE r.frame >= frame[p]
        BY <1>8, <3>1, <3>3, <4>1 DEF Put
      <4>2. CASE ~(r.frame >= frame[p])
        BY <1>8, <3>1, <3>3, <4>2
      <4> QED
        BY <4>1, <4>2
    <3> QED
      BY <3>1, <3>2, <3>3
  <2> QED
    BY <2>1, <2>2 DEF Receive, ReceiveHello, ReceiveBye, ReceiveCheck, inputVars
<1> QED
  BY <1>7, <1>9, <1>10 DEF Taught

\* The reader of a record.
LEMMA OrderRead ==
  ASSUME TypeInv, SumInv, [Next]_vars, NEW p \in PC, NEW q \in PC \ {p}, OrderOf(p, q), Receive(p)
  PROVE  OrderOf(p, q)'
<1>0. net[q] \in Seq(Records) /\ net[q] # << >> /\ Record(p) = net[q][1]
  BY ReadPipes
<1> PICK pipe \in Seq(Records) : pipe = net[q] /\ pipe # << >>
  BY <1>0
<1> PICK rest : rest = net'[q]
  OBVIOUS
<1>1. /\ Len(rest) = Len(pipe) - 1 /\ Len(pipe) \in Nat /\ Len(pipe) >= 1
      /\ \A i \in 1 .. Len(rest) : rest[i] = pipe[i + 1]
  BY ReadPipes
<1>2. UNCHANGED <<settings, frame, mine, desyncAt, driftAt>>
  BY ReadEffect
<1>3. /\ DOMAIN checks[p] \subseteq DOMAIN checks'[p]
      /\ \A c : IsCheck(pipe[1], c) => c \in DOMAIN checks'[p]
      /\ \A c \in DOMAIN checks'[p] : c \in DOMAIN checks[p] \/ IsCheck(pipe[1], c)
      /\ \A g \in DOMAIN peerInputs'[p] :
           g \in DOMAIN peerInputs[p] \/ (pipe[1].kind = "INPUT" /\ pipe[1].frame = g)
  <2>1. Taught(p, pipe[1])
    BY <1>0, ReadEffect
  <2> QED
    BY <2>1 DEF Taught
<1>4. \A c \in DueFrames : Heard(p, q, c) => Heard(p, q, c)'
  BY <1>3, HeardStays DEF DueFrames
<1>5. \A c \in DueFrames : Compared(p, q, c) => Compared(p, q, c)'
  BY ComparedStays DEF DueFrames
<1>6. \A c \in DueFrames : IsCheck(pipe[1], c) => Heard(p, q, c)'
  BY <1>3 DEF Heard
<1>7. Ahead(q)' = Ahead(q)
  BY <1>2 DEF Ahead
<1>8. ASSUME NEW i \in 1 .. Len(rest), NEW c \in DueFrames, rest[i].kind = "INPUT", c + Ahead(q) < rest[i].frame
      PROVE  Heard(p, q, c)' \/ \E j \in 1 .. i - 1 : IsCheck(rest[j], c)
  <2>1. i + 1 \in 1 .. Len(pipe) /\ rest[i] = pipe[i + 1]
    BY <1>1
  <2>2. Heard(p, q, c) \/ \E j \in 1 .. i : IsCheck(pipe[j], c)
    <3>1. Heard(p, q, c) \/ \E j \in 1 .. (i + 1) - 1 : IsCheck(pipe[j], c)
      BY <1>8, <2>1 DEF OrderOf, Ordered
    <3>2. (i + 1) - 1 = i
      BY <1>1
    <3> QED
      BY <3>1, <3>2
  <2>3. ASSUME NEW j \in 1 .. i, IsCheck(pipe[j], c), j # 1 PROVE \E k \in 1 .. i - 1 : IsCheck(rest[k], c)
    <3>1. j - 1 \in 1 .. i - 1 /\ j - 1 \in 1 .. Len(rest) /\ (j - 1) + 1 = j
      BY <1>1, <2>3
    <3>2. IsCheck(rest[j - 1], c)
      BY <1>1, <2>3, <3>1
    <3> QED
      BY <3>1, <3>2
  <2> QED
    BY <1>4, <1>6, <2>2, <2>3
<1>9. Ordered(p, q)'
  BY <1>7, <1>8 DEF Ordered, IsCheck, DueFrames
<1>10. Known(p, q)'
  <2>1. ASSUME NEW g \in DOMAIN peerInputs'[p], NEW c \in DueFrames, c + Ahead(q) < g PROVE Heard(p, q, c)'
    <3>1. CASE g \in DOMAIN peerInputs[p]
      BY <1>4, <2>1, <3>1 DEF OrderOf, Known
    <3>2. CASE pipe[1].kind = "INPUT" /\ pipe[1].frame = g
      <4>1. Heard(p, q, c) \/ \E j \in 1 .. 1 - 1 : IsCheck(pipe[j], c)
        BY <1>1, <2>1, <3>2 DEF OrderOf, Ordered
      <4> QED
        BY <1>4, <4>1
    <3> QED
      BY <1>3, <2>1, <3>1, <3>2
  <2> QED
    BY <1>7, <2>1 DEF Known, DueFrames
<1>11. Settled(p, q)'
  BY <1>2, <1>5, <1>7 DEF OrderOf, Settled, DueFrames
<1>12. Kept(p, q)'
  BY <1>2, <1>5 DEF OrderOf, Kept, DueFrames
<1>13. OnItsWay(p, q)'
  <2>1. ASSUME NEW c \in DueFrames, c < frame[q] PROVE Heard(p, q, c)' \/ \E i \in 1 .. Len(rest) : IsCheck(rest[i], c)
    <3>1. Heard(p, q, c) \/ \E i \in 1 .. Len(pipe) : IsCheck(pipe[i], c)
      BY <2>1 DEF OrderOf, OnItsWay
    <3>2. ASSUME NEW i \in 1 .. Len(pipe), IsCheck(pipe[i], c), i # 1 PROVE \E k \in 1 .. Len(rest) : IsCheck(rest[k], c)
      <4>1. i - 1 \in 1 .. Len(rest) /\ (i - 1) + 1 = i
        BY <1>1, <3>2
      <4>2. IsCheck(rest[i - 1], c)
        BY <1>1, <3>2, <4>1
      <4> QED
        BY <4>1, <4>2
    <3> QED
      BY <1>4, <1>6, <3>1, <3>2
  <2> QED
    BY <1>2, <2>1 DEF OnItsWay, DueFrames, IsCheck
<1>14. Once(p, q)'
  <2>1. ASSUME NEW i \in 1 .. Len(rest), NEW c \in Nat, IsCheck(rest[i], c)
        PROVE  /\ c \notin DOMAIN checks'[p] /\ (c < frame[p] => c \in DOMAIN mine[p])
               /\ \A j \in 1 .. Len(rest) : IsCheck(rest[j], c) => j = i
    <3>1. i + 1 \in 1 .. Len(pipe) /\ IsCheck(pipe[i + 1], c) /\ 1 \in 1 .. Len(pipe) /\ i + 1 # 1
      BY <1>1, <2>1
    <3>2. /\ c \notin DOMAIN checks[p] /\ (c < frame[p] => c \in DOMAIN mine[p])
          /\ \A j \in 1 .. Len(pipe) : IsCheck(pipe[j], c) => j = i + 1
      BY <3>1 DEF OrderOf, Once
    <3>3. c \notin DOMAIN checks'[p]
      BY <1>3, <3>1, <3>2
    <3>4. ASSUME NEW j \in 1 .. Len(rest), IsCheck(rest[j], c) PROVE j = i
      <4>1. j + 1 \in 1 .. Len(pipe) /\ IsCheck(pipe[j + 1], c)
        BY <1>1, <3>4
      <4>2. j + 1 = i + 1
        BY <3>2, <4>1
      <4> QED
        BY <1>1, <4>2
    <3> QED
      BY <3>2, <3>3, <3>4
  <2> QED
    BY <1>2, <2>1 DEF Once, IsCheck
<1>15. Paired(p)'
  <2>1. ASSUME NEW c \in DOMAIN checks'[p], c < frame[p] PROVE c \in DOMAIN mine[p]
    <3>1. CASE c \in DOMAIN checks[p]
      BY <2>1, <3>1 DEF OrderOf, Paired
    <3>2. CASE IsCheck(pipe[1], c)
      <4>1. pipe[1] \in Records
        BY <1>1, ElementOfSeq
      <4>2. c \in Nat
        BY <3>2, <4>1, RecordKinds DEF IsCheck
      <4> QED
        BY <1>1, <2>1, <3>2, <4>2 DEF OrderOf, Once
    <3> QED
      BY <1>3, <2>1, <3>1, <3>2
  <2> QED
    BY <1>2, <2>1 DEF Paired
<1> QED
  BY <1>9, <1>10, <1>11, <1>12, <1>13, <1>14, <1>15 DEF OrderOf

\* What q sends in one step: inputs no further ahead than its delay, and behind them, when
\* it plays a frame that is due one, the checksum of that frame.
SendsInOrder(q) ==
  /\ Len(net[q]) \in Nat /\ Len(net'[q]) \in Nat /\ Len(net[q]) <= Len(net'[q])
  /\ \A i \in 1 .. Len(net[q]) : net'[q][i] = net[q][i]
  /\ \A i \in Len(net[q]) + 1 .. Len(net'[q]) :
       /\ net'[q][i].kind = "INPUT" => net'[q][i].frame <= frame[q] + Ahead(q)
       /\ \A c : IsCheck(net'[q][i], c) => c = frame[q] /\ i = Len(net'[q])
  /\ \/ frame'[q] = frame[q]
     \/ /\ frame'[q] = frame[q] + 1
        /\ DueCheck(frame[q]) =>
             Len(net[q]) < Len(net'[q]) /\ IsCheck(net'[q][Len(net'[q])], frame[q])

LEMMA SendsNothing ==
  ASSUME TypeInv, NEW q \in PC, net'[q] = net[q], frame'[q] = frame[q]
  PROVE  SendsInOrder(q)
<1>1. Len(net[q]) \in Nat
  BY DEF TypeInv, TypeOK, WireTypeOK
<1> QED
  BY <1>1 DEF SendsInOrder

LEMMA SendsBye ==
  ASSUME TypeInv, NEW q \in PC, net'[q] = Append(net[q], Bye), frame'[q] = frame[q]
  PROVE  SendsInOrder(q)
<1>1. net[q] \in Seq(Records) /\ Bye \in Records
  BY DEF TypeInv, TypeOK, WireTypeOK, Bye, Records
<1>2. /\ Len(net[q]) \in Nat /\ Len(net'[q]) = Len(net[q]) + 1
      /\ \A i \in 1 .. Len(net[q]) : net'[q][i] = net[q][i]
      /\ net'[q][Len(net[q]) + 1] = Bye
  BY <1>1, AppendProperties
<1>3. ASSUME NEW i \in Len(net[q]) + 1 .. Len(net'[q]) PROVE net'[q][i].kind = "BYE"
  <2>1. i = Len(net[q]) + 1
    BY <1>2, <1>3
  <2> QED
    BY <1>2, <2>1 DEF Bye
<1> QED
  BY <1>2, <1>3 DEF SendsInOrder, IsCheck

\* One call of step().
LEMMA SendsCall ==
  ASSUME TypeInv, SkewInv, NEW q \in PC, NEW pad \in Pads, NEW last \in Seq(Records),
         net' = [net EXCEPT ![q] = @ \o NewInputs(q, pad) \o last],
         \/ frame'[q] = frame[q] /\ Len(last) = 0
         \/ /\ frame'[q] = frame[q] + 1
            /\ DueCheck(frame[q]) => Len(last) = 1 /\ IsCheck(last[1], frame[q])
            /\ ~DueCheck(frame[q]) => Len(last) = 0
  PROVE  SendsInOrder(q)
<1> DEFINE m == MaxOf(At(q) - schedTo[q], 0)
<1>1. /\ schedTo[q] \in Nat \cup {-1} /\ frame[q] \in Nat /\ delay[q] \in Nat /\ Ahead(q) \in Nat
      /\ delay[q] <= Ahead(q) /\ m \in Nat
  <2>1. schedTo[q] \in Nat \cup {-1} /\ frame[q] \in Nat /\ delay[q] \in Nat
    <3>1. schedTo \in [PC -> Nat \cup {-1}] /\ frame \in [PC -> 0 .. MaxFrame]
      BY DEF TypeInv, TypeOK, InputTypeOK
    <3>2. delay \in [PC -> Nat]
      BY DEF TypeInv, TypeOK, DelayTypeOK
    <3>3. frame[q] \in 0 .. MaxFrame
      BY <3>1
    <3> QED
      BY <3>1, <3>2, <3>3
  <2>2. Ahead(q) \in Nat /\ delay[q] <= Ahead(q)
    BY AheadNat DEF SkewInv
  <2> QED
    BY <2>1, <2>2 DEF MaxOf, At
<1>2. \A k \in 1 .. m : schedTo[q] + k <= frame[q] + Ahead(q)
  BY <1>1 DEF MaxOf, At
<1>3. /\ net[q] \in Seq(Records) /\ NewInputs(q, pad) \in Seq(Records)
      /\ net'[q] = net[q] \o NewInputs(q, pad) \o last
  BY PipeCall
<1>4. InARow(net[q] \o NewInputs(q, pad) \o last, net[q], NewInputs(q, pad), last)
  BY <1>3, PipeSend
<1>5. Len(NewInputs(q, pad)) = m
  BY <1>1, NewInputsProperties
<1>6. /\ Len(net'[q]) = Len(net[q]) + m + Len(last)
      /\ Len(net[q]) \in Nat /\ Len(last) \in {0, 1}
      /\ \A i \in 1 .. Len(net[q]) : net'[q][i] = net[q][i]
      /\ \A i \in 1 .. Len(last) : net'[q][Len(net[q]) + m + i] = last[i]
  BY <1>3, <1>4, <1>5 DEF InARow
<1> HIDE DEF m
<1>7. ASSUME NEW i \in Len(net[q]) + 1 .. Len(net'[q])
      PROVE  /\ net'[q][i].kind = "INPUT" => net'[q][i].frame <= frame[q] + Ahead(q)
             /\ \A c : IsCheck(net'[q][i], c) => c = frame[q] /\ i = Len(net'[q])
  <2>1. i \in 1 .. Len(net'[q]) /\ i \notin 1 .. Len(net[q])
    BY <1>1, <1>6
  <2>2. CallSent(q, pad, last, i)
    BY <2>1, PipeParts
  <2>3. ASSUME NEW k \in 1 .. m, net'[q][i] = Input(schedTo[q] + k, pad)
        PROVE  /\ net'[q][i].kind = "INPUT" /\ net'[q][i].frame = schedTo[q] + k
    BY <2>3 DEF Input
  <2>4. ASSUME NEW k \in 1 .. Len(last), i = Len(net[q]) + m + k, net'[q][i] = last[k]
        PROVE  IsCheck(net'[q][i], frame[q]) /\ i = Len(net'[q])
    <3>1. Len(last) = 1 /\ k = 1
      BY <1>6, <2>4
    <3>2. IsCheck(last[1], frame[q])
      BY <3>1
    <3> QED
      BY <1>1, <1>6, <2>4, <3>1, <3>2
  <2>5. (\E k \in 1 .. m : net'[q][i] = Input(schedTo[q] + k, pad))
          \/ (\E k \in 1 .. Len(last) : i = Len(net[q]) + m + k /\ net'[q][i] = last[k])
    BY <2>1, <2>2 DEF CallSent, m
  <2> QED
    BY <1>2, <2>3, <2>4, <2>5 DEF IsCheck
<1>8. DueCheck(frame[q]) /\ frame'[q] = frame[q] + 1 =>
        Len(net[q]) < Len(net'[q]) /\ IsCheck(net'[q][Len(net'[q])], frame[q])
  <2> SUFFICES ASSUME DueCheck(frame[q]), frame'[q] = frame[q] + 1
               PROVE  Len(net[q]) < Len(net'[q]) /\ IsCheck(net'[q][Len(net'[q])], frame[q])
    OBVIOUS
  <2>1. Len(last) = 1 /\ IsCheck(last[1], frame[q])
    BY <1>1
  <2>2. PICK n \in Nat : n = Len(net[q]) + m
    BY <1>1, <1>6
  <2>3. 1 \in 1 .. Len(last) /\ Len(net'[q]) = n + 1
    BY <1>6, <2>1, <2>2
  <2>4. net'[q][n + 1] = last[1]
    BY <1>6, <2>2, <2>3
  <2>5. Len(net[q]) < n + 1
    BY <1>1, <1>6, <2>2
  <2> QED
    BY <2>1, <2>3, <2>4, <2>5
<1>9. \/ frame'[q] = frame[q]
      \/ /\ frame'[q] = frame[q] + 1
         /\ DueCheck(frame[q]) =>
              Len(net[q]) < Len(net'[q]) /\ IsCheck(net'[q][Len(net'[q])], frame[q])
  BY <1>8
<1>10. Len(net'[q]) \in Nat /\ Len(net[q]) <= Len(net'[q])
  BY <1>1, <1>6
<1> QED
  BY <1>6, <1>7, <1>9, <1>10 DEF SendsInOrder

\* The reader that only has more to read.
LEMMA OrderSend ==
  ASSUME TypeInv, SumInv, [Next]_vars, NEW p \in PC, NEW q \in PC \ {p}, OrderOf(p, q), SendsInOrder(q),
         settings' = settings, frame'[p] = frame[p], mine'[p] = mine[p], checks'[p] = checks[p],
         peerInputs'[p] = peerInputs[p]
  PROVE  OrderOf(p, q)'
<1> PICK f \in Nat : f = frame[q]
  BY DEF TypeInv, TypeOK, InputTypeOK
<1> PICK pipe \in Seq(Records) : pipe = net[q]
  BY DEF TypeInv, TypeOK, WireTypeOK
<1> PICK more : more = net'[q]
  OBVIOUS
<1> PICK A \in Nat : A = Ahead(q)
  BY AheadNat
<1>1. /\ Len(pipe) \in Nat /\ Len(more) \in Nat /\ Len(pipe) <= Len(more)
      /\ \A i \in 1 .. Len(pipe) : more[i] = pipe[i]
      /\ \A i \in Len(pipe) + 1 .. Len(more) :
           /\ more[i].kind = "INPUT" => more[i].frame <= f + A
           /\ \A c : IsCheck(more[i], c) => c = f /\ i = Len(more)
      /\ \/ frame'[q] = f
         \/ /\ frame'[q] = f + 1
            /\ DueCheck(f) => Len(pipe) < Len(more) /\ IsCheck(more[Len(more)], f)
  BY DEF SendsInOrder
<1>2. Ahead(q)' = A
  BY DEF Ahead
<1>3. \A c \in DueFrames : Heard(p, q, c) => Heard(p, q, c)'
  BY HeardStays DEF DueFrames
<1>4. \A c \in DueFrames : Compared(p, q, c) => Compared(p, q, c)'
  BY ComparedStays DEF DueFrames
<1>5. ASSUME NEW c \in DueFrames, c < f
      PROVE  Heard(p, q, c)' \/ \E i \in 1 .. Len(pipe) : IsCheck(more[i], c)
  BY <1>1, <1>3, <1>5 DEF OrderOf, OnItsWay
<1>6. ASSUME NEW i \in 1 .. Len(more), NEW c \in DueFrames, more[i].kind = "INPUT", c + A < more[i].frame
      PROVE  Heard(p, q, c)' \/ \E j \in 1 .. i - 1 : IsCheck(more[j], c)
  <2>1. CASE i \in 1 .. Len(pipe)
    <3>1. Heard(p, q, c) \/ \E j \in 1 .. i - 1 : IsCheck(pipe[j], c)
      BY <1>1, <1>6, <2>1 DEF OrderOf, Ordered
    <3>2. \A j \in 1 .. i - 1 : more[j] = pipe[j]
      BY <1>1, <2>1
    <3> QED
      BY <1>3, <3>1, <3>2
  <2>2. CASE i \notin 1 .. Len(pipe)
    <3>1. i \in Len(pipe) + 1 .. Len(more)
      BY <1>1, <2>2
    <3>2. more[i].frame <= f + A
      BY <1>1, <1>6, <3>1
    <3>3. more[i].frame \in Int => c < f
      BY <1>6, <3>2 DEF DueFrames
    <3>4. more[i].frame \in Nat
      <4>1. more \in Seq(Records)
        BY TypeStep DEF TypeInv, TypeOK, WireTypeOK
      <4>2. more[i] \in Records
        BY <4>1, ElementOfSeq
      <4> QED
        BY <1>6, <4>2, RecordKinds
    <3>5. Heard(p, q, c)' \/ \E j \in 1 .. Len(pipe) : IsCheck(more[j], c)
      BY <1>5, <3>3, <3>4
    <3>6. 1 .. Len(pipe) \subseteq 1 .. i - 1
      BY <1>1, <3>1
    <3> QED
      BY <3>5, <3>6
  <2> QED
    BY <2>1, <2>2
<1>7. Ordered(p, q)'
  BY <1>2, <1>6 DEF Ordered, IsCheck, DueFrames
<1>8. Known(p, q)'
  BY <1>2, <1>3 DEF OrderOf, Known, DueFrames
<1>9. Settled(p, q)'
  BY <1>2, <1>4 DEF OrderOf, Settled, DueFrames
<1>10. Kept(p, q)'
  BY <1>4 DEF OrderOf, Kept, DueFrames
<1>11. OnItsWay(p, q)'
  <2>1. ASSUME NEW c \in DueFrames, c < frame'[q]
        PROVE  Heard(p, q, c)' \/ \E i \in 1 .. Len(more) : IsCheck(more[i], c)
    <3>1. CASE c < f
      <4>1. 1 .. Len(pipe) \subseteq 1 .. Len(more)
        BY <1>1
      <4> QED
        BY <1>5, <3>1, <4>1
    <3>2. CASE ~(c < f)
      <4>1. c = f /\ frame'[q] = f + 1 /\ DueCheck(f)
        BY <1>1, <2>1, <3>2 DEF DueFrames
      <4>2. Len(more) \in 1 .. Len(more) /\ IsCheck(more[Len(more)], f)
        BY <1>1, <4>1
      <4> QED
        BY <4>1, <4>2
    <3> QED
      BY <3>1, <3>2
  <2> QED
    BY <2>1 DEF OnItsWay, DueFrames, IsCheck
<1>12. \A i \in 1 .. Len(pipe) : \A c \in Nat : IsCheck(pipe[i], c) => c < f
  BY DEF SumInv, SumOf, IsCheck
<1>13. Once(p, q)'
  <2>1. ASSUME NEW i \in 1 .. Len(more), NEW c \in Nat, IsCheck(more[i], c)
        PROVE  /\ c \notin DOMAIN checks[p] /\ (c < frame[p] => c \in DOMAIN mine[p])
               /\ \A j \in 1 .. Len(more) : IsCheck(more[j], c) => j = i
    <3>1. CASE i \in 1 .. Len(pipe)
      <4>1. IsCheck(pipe[i], c) /\ c < f
        BY <1>1, <1>12, <2>1, <3>1
      <4>2. /\ c \notin DOMAIN checks[p] /\ (c < frame[p] => c \in DOMAIN mine[p])
            /\ \A j \in 1 .. Len(pipe) : IsCheck(pipe[j], c) => j = i
        BY <3>1, <4>1 DEF OrderOf, Once
      <4>3. ASSUME NEW j \in 1 .. Len(more), IsCheck(more[j], c) PROVE j \in 1 .. Len(pipe) /\ IsCheck(pipe[j], c)
        <5>1. j \in 1 .. Len(pipe)
          <6>1. j \in Len(pipe) + 1 .. Len(more) => c = f
            BY <1>1, <4>3
          <6> QED
            BY <1>1, <4>1, <4>3, <6>1
        <5> QED
          BY <1>1, <4>3, <5>1
      <4> QED
        BY <4>2, <4>3
    <3>2. CASE i \notin 1 .. Len(pipe)
      <4>1. i \in Len(pipe) + 1 .. Len(more)
        BY <1>1, <3>2
      <4>2. c = f /\ i = Len(more)
        BY <1>1, <2>1, <4>1
      <4>3. c \notin DOMAIN checks[p]
        <5>1. q = Other(p)
          BY DEF Other
        <5> QED
          BY <4>2, <5>1 DEF SumInv, SumOf
      <4>4. c < frame[p] => c \in DOMAIN mine[p]
        <5>1. c \in DueFrames
          <6>1. SumInv'
            BY SumStep
          <6>2. IsCheck(net'[q][i], c) /\ i \in 1 .. Len(net'[q])
            BY <2>1
          <6> QED
            BY <6>1, <6>2 DEF SumInv, SumOf, IsCheck, DueFrames, DueCheck
        <5>2. ~Compared(p, q, c)
          BY <4>2 DEF Compared
        <5> QED
          BY <5>1, <5>2 DEF OrderOf, Kept
      <4>5. ASSUME NEW j \in 1 .. Len(more), IsCheck(more[j], c) PROVE j = i
        <5>1. CASE j \in 1 .. Len(pipe)
          <6>1. IsCheck(pipe[j], c)
            BY <1>1, <4>5, <5>1
          <6> QED
            BY <1>12, <4>2, <5>1, <6>1
        <5>2. CASE j \notin 1 .. Len(pipe)
          <6>1. j \in Len(pipe) + 1 .. Len(more)
            BY <1>1, <4>5, <5>2
          <6>2. j = Len(more)
            BY <1>1, <4>5, <6>1
          <6> QED
            BY <4>2, <6>2
        <5> QED
          BY <5>1, <5>2
      <4> QED
        BY <4>3, <4>4, <4>5
    <3> QED
      BY <3>1, <3>2
  <2> QED
    BY <2>1 DEF Once, IsCheck
<1>14. Paired(p)'
  BY DEF OrderOf, Paired
<1> QED
  BY <1>7, <1>8, <1>9, <1>10, <1>11, <1>13, <1>14 DEF OrderOf

\* Of two multiples of C less than n of them apart, the quotients are less than n apart.
LEMMA QuotientGap ==
  ASSUME NEW C \in Nat \ {0}, NEW f \in Nat, NEW g \in Nat, NEW n \in Nat,
         f % C = 0, g % C = 0, f < g, g - f < n * C
  PROVE  (g \div C) - (f \div C) \in 1 .. n - 1 /\ g = C * (g \div C)
<1>1. f = C * (f \div C) /\ f \div C \in Nat /\ g = C * (g \div C) /\ g \div C \in Nat
  OBVIOUS
<1> PICK a \in Nat : a = f \div C
  BY <1>1
<1> PICK b \in Nat : b = g \div C
  BY <1>1
<1>2. \A x, y \in Int : C * x < C * y => x < y
  OBVIOUS
<1>3. C * a < C * b /\ C * (b - a) < C * n
  BY <1>1
<1>4. a < b /\ b - a < n
  BY <1>2, <1>3
<1> QED
  BY <1>1, <1>4

\* A book whose frames lie close enough together forgets nothing.
LEMMA NewestAll ==
  ASSUME NEW book, NEW lo \in Int, NEW A \in Nat, A < BookSize * CheckEvery, DOMAIN book \subseteq Nat,
         \A f \in DOMAIN book : DueCheck(f) /\ lo <= f /\ f <= lo + A
  PROVE  DOMAIN Newest(book) = DOMAIN book
<1> SUFFICES ASSUME NEW f \in DOMAIN book
             PROVE  Cardinality({g \in DOMAIN book : g > f}) < BookSize
  BY DEF Newest, Restrict
<1> DEFINE newer == {g \in DOMAIN book : g > f}
           h == [g \in newer |-> (g \div CheckEvery) - (f \div CheckEvery)]
<1>1. ASSUME NEW g \in newer
      PROVE  /\ (g \div CheckEvery) - (f \div CheckEvery) \in 1 .. BookSize - 1
             /\ g = CheckEvery * (g \div CheckEvery)
  <2>1. f \in Nat /\ g \in Nat /\ f % CheckEvery = 0 /\ g % CheckEvery = 0 /\ f < g
    BY DEF DueCheck
  <2>2. lo <= f /\ g <= lo + A
    OBVIOUS
  <2>3. BookSize * CheckEvery \in Nat
    OBVIOUS
  <2>4. g - f < BookSize * CheckEvery
    <3>1. \A n \in Nat : A < n => g - f < n
      BY <2>1, <2>2
    <3> QED
      BY <2>3, <3>1
  <2> QED
    BY <2>1, <2>4, QuotientGap
<1>2. h \in [newer -> 1 .. BookSize - 1]
  BY <1>1
<1>3. ASSUME NEW g \in newer, NEW k \in newer, h[g] = h[k] PROVE g = k
  <2>1. (g \div CheckEvery) - (f \div CheckEvery) = (k \div CheckEvery) - (f \div CheckEvery)
    BY <1>3
  <2>2. \A x, y, z \in Int : x - z = y - z => x = y
    OBVIOUS
  <2>3. f \div CheckEvery \in Int /\ g \div CheckEvery \in Int /\ k \div CheckEvery \in Int
    OBVIOUS
  <2>4. g \div CheckEvery = k \div CheckEvery
    BY <2>1, <2>2, <2>3
  <2> QED
    BY <1>1, <2>4
<1> HIDE DEF h, newer
<1>4. h \in Injection(newer, 1 .. BookSize - 1)
  BY <1>2, <1>3 DEF Injection, IsInjective
<1>5. IsFiniteSet(1 .. BookSize - 1) /\ Cardinality(1 .. BookSize - 1) = BookSize - 1
  <2>1. PICK n \in Nat : n = BookSize - 1
    OBVIOUS
  <2>2. 1 \in Int /\ n \in Int
    OBVIOUS
  <2>3. IsFiniteSet(1 .. n) /\ Cardinality(1 .. n) = IF 1 > n THEN 0 ELSE n - 1 + 1
    BY <2>2, FS_Interval
  <2>4. (IF 1 > n THEN 0 ELSE n - 1 + 1) = n
    OBVIOUS
  <2> QED
    BY <2>1, <2>3, <2>4
<1>6. IsFiniteSet(newer) /\ Cardinality(newer) <= BookSize - 1
  BY <1>4, <1>5, FS_Injection
<1>7. Cardinality(newer) \in Nat
  BY <1>6, FS_CardinalityType
<1> QED
  BY <1>6, <1>7 DEF newer

\* The books are long enough for either PC's delay.
LEMMA BooksReachAhead ==
  ASSUME BooksReach, TypeInv, NEW p \in PC
  PROVE  Ahead(p) < BookSize * CheckEvery
<1>1. settings[p].delay \in Delays
  BY DEF TypeInv, TypeOK, Settings
<1> QED
  BY <1>1 DEF BooksReach, Ahead, MaxOf

\* The frames of the checksums PC p holds when it compares, at frame f.
InWindow(p, q, f, own) ==
  /\ \A c \in DOMAIN own \ DOMAIN checks[p] : DueCheck(c) /\ f - Ahead(q) <= c /\ c <= f
  /\ \A c \in DOMAIN checks[p] \ DOMAIN own : DueCheck(c) /\ f <= c /\ c <= f + Ahead(p)

\* Comparing forgets exactly what both books hold.
LEMMA CompareAll ==
  ASSUME BooksReach, TypeInv, NEW p \in PC, NEW q \in PC, NEW own, Dict(own, Sums), CompareChecks(p, own),
         NEW f \in Nat, InWindow(p, q, f, own)
  PROVE  /\ DOMAIN mine'[p] = DOMAIN own \ DOMAIN checks[p]
         /\ DOMAIN checks'[p] = DOMAIN checks[p] \ DOMAIN own
<1>1. Ahead(p) \in Nat /\ Ahead(q) \in Nat
  BY AheadNat
<1>2. Ahead(p) < BookSize * CheckEvery /\ Ahead(q) < BookSize * CheckEvery
  BY BooksReachAhead
<1> DEFINE both == DOMAIN own \cap DOMAIN checks[p]
<1>3. mine'[p] = Newest(Without(own, both)) /\ checks'[p] = Newest(Without(checks[p], both))
  BY DEF CompareChecks, TypeInv, TypeOK, BookTypeOK
<1>4. /\ DOMAIN Without(own, both) = DOMAIN own \ DOMAIN checks[p]
      /\ DOMAIN Without(checks[p], both) = DOMAIN checks[p] \ DOMAIN own
  BY DEF Without, Restrict
<1>5. DOMAIN own \subseteq Nat /\ DOMAIN checks[p] \subseteq Nat
  BY DEF Dict, TypeInv, TypeOK, BookTypeOK
<1> HIDE DEF both
<1>6. DOMAIN Newest(Without(own, both)) = DOMAIN Without(own, both)
  <2> PICK A \in Nat : A = Ahead(q)
    BY <1>1
  <2> PICK book : book = Without(own, both)
    OBVIOUS
  <2>1. \A c \in DOMAIN book : DueCheck(c) /\ f - A <= c /\ c <= f
    BY <1>4 DEF InWindow
  <2> PICK lo \in Int : lo = f - A
    OBVIOUS
  <2>2. \A c \in DOMAIN book : DueCheck(c) /\ lo <= c /\ c <= lo + A
    BY <1>4, <1>5, <2>1
  <2>3. DOMAIN book \subseteq Nat /\ A < BookSize * CheckEvery
    BY <1>2, <1>4, <1>5
  <2> QED
    BY <2>2, <2>3, NewestAll
<1>7. DOMAIN Newest(Without(checks[p], both)) = DOMAIN Without(checks[p], both)
  <2> PICK A \in Nat : A = Ahead(p)
    BY <1>1
  <2> PICK book : book = Without(checks[p], both)
    OBVIOUS
  <2>1. \A c \in DOMAIN book : DueCheck(c) /\ f <= c /\ c <= f + A
    BY <1>4 DEF InWindow
  <2>2. DOMAIN book \subseteq Nat /\ A < BookSize * CheckEvery /\ f \in Int
    BY <1>2, <1>4, <1>5
  <2> QED
    BY <2>1, <2>2, NewestAll
<1> QED
  BY <1>3, <1>4, <1>6, <1>7

\* A checksum of both books is compared now, and a drift before it told.
LEMMA CompareTells ==
  ASSUME TypeInv, SumInv, NEW p \in PC, NEW q \in PC \ {p}, NEW pad \in Pads, Run(p, pad),
         NEW f \in Nat, frame[p] = f,
         NEW own, Dict(own, Sums), CompareChecks(p, own),
         \A g \in DOMAIN own : SumOf(p, g, own[g])',
         NEW c \in DOMAIN own \cap DOMAIN checks[p]
  PROVE  Compared(p, q, c)'
<1>0. HistoryGrows /\ BookTypeOK /\ driftAt' = driftAt /\ q = Other(p) /\ PC = {p, q}
  <2>1. HistoryGrows
    BY StepHistory DEF Next, Step
  <2>2. BookTypeOK /\ driftAt' = driftAt
    BY DEF TypeInv, TypeOK, Run
  <2> QED
    BY <2>1, <2>2 DEF Other
<1>1. PICK s : s = own[c]
  OBVIOUS
<1>2. PICK t : t = checks[p][c]
  OBVIOUS
<1>3. c \in Nat
  BY DEF Dict
<1>4. SumOf(p, c, s)'
  <2>1. SumOf(p, c, own[c])'
    OBVIOUS
  <2> QED
    BY <1>1, <2>1
<1>5. SumOf(q, c, t)'
  <2>1. SumOf(q, c, t)
    BY <1>0, <1>2 DEF SumInv
  <2> QED
    BY <1>0, <1>3, <2>1, SumStays
<1>6. c < frame'[p] /\ c < frame'[q]
  BY <1>4, <1>5 DEF SumOf
<1>7. /\ \A g \in DOMAIN mine'[p] : g \in DOMAIN own /\ g \notin DOMAIN checks[p]
      /\ \A g \in DOMAIN own \cap DOMAIN checks[p] : own[g] # checks[p][g] => desyncAt'[p] # NoFrame
  BY <1>0, CompareEffect
<1>8. ASSUME NEW r \in PC, driftAt'[r] \in 0 .. c PROVE s # t
  <2>1. s.drift = IF driftAt'[p] \in 0 .. c THEN {p} ELSE {}
    BY <1>4 DEF SumOf, SumAt
  <2>2. t.drift = IF driftAt'[q] \in 0 .. c THEN {q} ELSE {}
    BY <1>5 DEF SumOf, SumAt
  <2>3. s.drift # t.drift
    <3>1. CASE r = p
      BY <1>8, <2>1, <2>2, <3>1
    <3>2. CASE r = q
      BY <1>8, <2>1, <2>2, <3>2
    <3> QED
      BY <1>0, <3>1, <3>2
  <2> QED
    BY <2>3
<1>9. c \notin DOMAIN mine'[p]
  BY <1>7
<1>10. ASSUME NEW r \in PC, driftAt'[r] \in 0 .. c PROVE desyncAt'[p] # NoFrame
  BY <1>1, <1>2, <1>7, <1>8, <1>10
<1> QED
  BY <1>6, <1>9, <1>10 DEF Compared

\* The reader plays a frame.
LEMMA OrderRun ==
  ASSUME BooksReach, TypeInv, SumInv, SkewBounded, [Next]_vars, NEW p \in PC, NEW q \in PC \ {p}, OrderOf(p, q),
         NEW pad \in Pads, Run(p, pad)
  PROVE  OrderOf(p, q)'
<1> PICK f \in Nat : frame[p] = f
  BY DEF TypeInv, TypeOK, InputTypeOK
<1> PICK A \in Nat : A = Ahead(q)
  BY AheadNat
<1>0. q = Other(p) /\ p = Other(q)
  BY DEF Other
<1>1. PICK own :
        /\ Dict(own, Sums) /\ CompareChecks(p, own)
        /\ DOMAIN own = DOMAIN mine[p] \cup (IF DueCheck(f) THEN {f} ELSE {})
        /\ \A g \in DOMAIN own : SumOf(p, g, own[g])'
  BY RunChecks
<1>2. /\ DOMAIN own \subseteq Nat /\ DOMAIN checks[p] \subseteq Nat
      /\ \A c \in DOMAIN mine[p] : c < f /\ DueCheck(c)
      /\ \A c \in DOMAIN checks[p] : c < frame[q] /\ DueCheck(c)
  <2>1. DOMAIN own \subseteq Nat
    BY <1>1 DEF Dict
  <2>2. DOMAIN checks[p] \subseteq Nat
    BY DEF Dict, TypeInv, TypeOK, BookTypeOK
  <2> QED
    BY <1>0, <2>1, <2>2 DEF SumInv, SumOf
<1>3. /\ f \in DOMAIN peerInputs[p] /\ DOMAIN peerInputs = PC /\ DOMAIN frame = PC
      /\ frame' = [frame EXCEPT ![p] = f + 1] /\ settings' = settings
      /\ peerInputs' = [peerInputs EXCEPT ![p] = Without(peerInputs[p], {f})]
  BY DEF Run, TypeInv, TypeOK, InputTypeOK
<1>4. /\ frame'[p] = f + 1 /\ frame'[q] = frame[q] /\ Ahead(q)' = A
      /\ DOMAIN peerInputs'[p] \subseteq DOMAIN peerInputs[p]
  BY <1>3 DEF Ahead, Without, Restrict
<1>5. net'[q] = net[q]
  <2>1. PICK last \in Seq(Records) : net' = [net EXCEPT ![p] = @ \o NewInputs(p, pad) \o last]
    BY RunChecks
  <2> QED
    BY <2>1, PipeCall
<1>6. \A c \in DueFrames : c + A < f => Heard(p, q, c)
  BY <1>3 DEF OrderOf, Known
<1>7. InWindow(p, q, f, own)
  <2>1. ASSUME NEW c \in DOMAIN own \ DOMAIN checks[p] PROVE DueCheck(c) /\ f - A <= c /\ c <= f
    <3>1. CASE c \in DOMAIN mine[p]
      <4>1. c \in Nat /\ c < f /\ DueCheck(c) /\ c \in DueFrames
        BY <1>2, <2>1, <3>1 DEF DueFrames
      <4>2. ~Heard(p, q, c)
        BY <2>1, <3>1 DEF Heard, Compared
      <4>3. ~(c + A < f)
        BY <1>6, <4>1, <4>2
      <4> QED
        BY <4>1, <4>3
    <3>2. CASE c \notin DOMAIN mine[p]
      BY <1>1, <2>1, <3>2
    <3> QED
      BY <3>1, <3>2
  <2>2. ASSUME NEW c \in DOMAIN checks[p] \ DOMAIN own PROVE DueCheck(c) /\ f <= c /\ c <= f + Ahead(p)
    <3>1. c \in Nat /\ c < frame[q] /\ DueCheck(c)
      BY <1>2, <2>2
    <3>2. ~(c < f)
      BY <1>1, <2>2 DEF OrderOf, Paired
    <3>3. frame[q] <= f + Ahead(p) + 1
      BY <1>0 DEF SkewBounded
    <3>4. frame[q] \in Nat /\ Ahead(p) \in Nat
      BY AheadNat DEF TypeInv, TypeOK, InputTypeOK
    <3> QED
      BY <3>1, <3>2, <3>3, <3>4
  <2> QED
    BY <2>1, <2>2 DEF InWindow
<1>8. /\ DOMAIN mine'[p] = DOMAIN own \ DOMAIN checks[p]
      /\ DOMAIN checks'[p] = DOMAIN checks[p] \ DOMAIN own
  BY <1>1, <1>7, CompareAll
<1>9. \A c \in DOMAIN own \cap DOMAIN checks[p] : Compared(p, q, c)'
  BY <1>1, CompareTells
<1>10. \A c \in DueFrames : Compared(p, q, c) => Compared(p, q, c)'
  BY ComparedStays DEF DueFrames
<1>11. \A c \in DueFrames : Heard(p, q, c) => Heard(p, q, c)'
  <2> SUFFICES ASSUME NEW c \in DueFrames, Heard(p, q, c) PROVE Heard(p, q, c)'
    OBVIOUS
  <2>1. CASE Compared(p, q, c)
    <3>1. Compared(p, q, c)'
      BY <1>10, <2>1
    <3> QED
      BY <3>1 DEF Heard
  <2>2. CASE c \in DOMAIN checks[p] /\ c \in DOMAIN own
    <3>1. Compared(p, q, c)'
      BY <1>9, <2>2
    <3> QED
      BY <3>1 DEF Heard
  <2>3. CASE c \in DOMAIN checks[p] /\ c \notin DOMAIN own
    <3>1. c \in DOMAIN checks'[p]
      BY <1>8, <2>3
    <3> QED
      BY <3>1 DEF Heard
  <2> QED
    BY <2>1, <2>2, <2>3 DEF Heard
<1>12. Ordered(p, q)'
  <2>1. ASSUME NEW i \in 1 .. Len(net[q]), NEW c \in DueFrames, net[q][i].kind = "INPUT", c + A < net[q][i].frame
        PROVE  Heard(p, q, c)' \/ \E j \in 1 .. i - 1 : IsCheck(net[q][j], c)
    BY <1>11, <2>1 DEF OrderOf, Ordered
  <2> QED
    BY <1>4, <1>5, <2>1 DEF Ordered, IsCheck, DueFrames
<1>13. Known(p, q)'
  <2>1. ASSUME NEW g \in DOMAIN peerInputs'[p], NEW c \in DueFrames, c + A < g PROVE Heard(p, q, c)'
    BY <1>4, <1>11, <2>1 DEF OrderOf, Known
  <2> QED
    BY <1>4, <2>1 DEF Known, DueFrames
<1>14. Settled(p, q)'
  <2>1. ASSUME NEW c \in DueFrames, c + A + 1 < f + 1 PROVE Compared(p, q, c)'
    <3>1. c \in Nat /\ c + A < f /\ c < f
      BY <2>1 DEF DueFrames
    <3>2. Heard(p, q, c)
      BY <1>6, <3>1
    <3>3. CASE Compared(p, q, c)
      BY <1>10, <3>3
    <3>4. CASE c \in DOMAIN checks[p]
      <4>1. c \in DOMAIN own
        BY <1>1, <3>1, <3>4 DEF OrderOf, Paired
      <4> QED
        BY <1>9, <3>4, <4>1
    <3> QED
      BY <3>2, <3>3, <3>4 DEF Heard
  <2> QED
    BY <1>4, <2>1 DEF Settled, DueFrames
<1>15. Kept(p, q)'
  <2>1. ASSUME NEW c \in DueFrames, c < f + 1 PROVE c \in DOMAIN mine'[p] \/ Compared(p, q, c)'
    <3>1. CASE c \in DOMAIN own
      BY <1>8, <1>9, <3>1
    <3>2. CASE c \notin DOMAIN own
      <4>1. c < f /\ c \notin DOMAIN mine[p]
        BY <1>1, <2>1, <3>2 DEF DueFrames
      <4>2. Compared(p, q, c)
        BY <4>1 DEF OrderOf, Kept
      <4> QED
        BY <1>10, <4>2
    <3> QED
      BY <3>1, <3>2
  <2> QED
    BY <1>4, <2>1 DEF Kept, DueFrames
<1>16. OnItsWay(p, q)'
  <2>1. ASSUME NEW c \in DueFrames, c < frame[q] PROVE Heard(p, q, c)' \/ \E i \in 1 .. Len(net[q]) : IsCheck(net[q][i], c)
    BY <1>11, <2>1 DEF OrderOf, OnItsWay
  <2> QED
    BY <1>4, <1>5, <2>1 DEF OnItsWay, DueFrames, IsCheck
<1>17. Once(p, q)'
  <2>1. ASSUME NEW i \in 1 .. Len(net[q]), NEW c \in Nat, IsCheck(net[q][i], c)
        PROVE  /\ c \notin DOMAIN checks'[p] /\ (c < f + 1 => c \in DOMAIN mine'[p])
               /\ \A j \in 1 .. Len(net[q]) : IsCheck(net[q][j], c) => j = i
    <3>1. /\ c \notin DOMAIN checks[p] /\ (c < f => c \in DOMAIN mine[p])
          /\ \A j \in 1 .. Len(net[q]) : IsCheck(net[q][j], c) => j = i
      BY <2>1 DEF OrderOf, Once
    <3>2. DueCheck(c)
      BY <2>1 DEF SumInv, SumOf, IsCheck
    <3>3. c < f + 1 => c \in DOMAIN own
      BY <1>1, <3>1, <3>2
    <3> QED
      BY <1>8, <3>1, <3>3
  <2> QED
    BY <1>4, <1>5, <2>1 DEF Once, IsCheck
<1>18. Paired(p)'
  <2>1. ASSUME NEW c \in DOMAIN checks'[p], c < f + 1 PROVE FALSE
    <3>1. c \in DOMAIN checks[p] /\ c \notin DOMAIN own /\ c \in Nat /\ DueCheck(c)
      BY <1>2, <1>8, <2>1
    <3>2. CASE c = f
      BY <1>1, <3>1, <3>2
    <3>3. CASE c < f
      BY <1>1, <3>1, <3>3 DEF OrderOf, Paired
    <3> QED
      BY <2>1, <3>1, <3>2, <3>3
  <2> QED
    BY <1>4, <2>1 DEF Paired
<1> QED
  BY <1>12, <1>13, <1>14, <1>15, <1>16, <1>17, <1>18 DEF OrderOf

\* Without UDP there are no datagrams.
NoDatagrams == dgrams = {}

\* No step changes what was agreed or, without UDP, sends a datagram.
LEMMA StepKeeps ==
  ASSUME Udp = FALSE, [Next]_vars
  PROVE  settings' = settings /\ dgrams' = dgrams
<1>1. ASSUME NEW p \in PC, Receive(p) PROVE UNCHANGED <<settings, dgrams>>
  BY <1>1 DEF Receive, ReceiveHello, ReceiveBye, ReceiveInput, ReceiveCheck
<1>2. ASSUME NEW p \in PC, NEW pad \in Pads, Wait(p, pad) \/ Run(p, pad) PROVE UNCHANGED <<settings, dgrams>>
  <2>1. settings' = settings /\ \E hist : Schedule(p, pad, hist)
    BY <1>2 DEF Wait, Run
  <2>2. dgrams' = dgrams \cup {}
    BY <2>1 DEF Schedule
  <2> QED
    BY <2>1, <2>2
<1>3. ASSUME NEW p \in PC, NEW d \in dgrams, ReceiveDatagram(p, d) PROVE UNCHANGED <<settings, dgrams>>
  BY <1>3 DEF ReceiveDatagram
<1>4. ASSUME NEW p \in PC, NoticeEnd(p) \/ Leave(p) \/ Drift(p) PROVE UNCHANGED <<settings, dgrams>>
  BY <1>4 DEF NoticeEnd, EndRefused, EndDesync, EndLost, Leave, End, Drift
<1>5. CASE Cut \/ UNCHANGED vars
  BY <1>5 DEF Cut, vars
<1> QED
  BY <1>1, <1>2, <1>3, <1>4, <1>5 DEF Next, Step

\* Every step, seen by the reader p and the sender q.
LEMMA OrderStep ==
  ASSUME BooksReach, Udp = FALSE, TypeInv, SumInv, SkewInv, SkewBounded, NoDatagrams, OrderInv, [Next]_vars
  PROVE  OrderInv' /\ NoDatagrams'
<1>0. settings' = settings /\ dgrams' = dgrams
  BY StepKeeps
<1>1. NoDatagrams'
  BY <1>0 DEF NoDatagrams
<1>2. SUFFICES ASSUME Compatible, NEW p \in PC, NEW q \in PC \ {p} PROVE OrderOf(p, q)'
  BY <1>0, <1>1 DEF OrderInv, Compatible
<1>3. OrderOf(p, q) /\ PC = {p, q}
  BY <1>2 DEF OrderInv
<1>4. ASSUME SendsInOrder(q), frame'[p] = frame[p], mine'[p] = mine[p], checks'[p] = checks[p],
             peerInputs'[p] = peerInputs[p]
      PROVE  OrderOf(p, q)'
  BY <1>0, <1>3, <1>4, OrderSend
<1>5. ASSUME UNCHANGED <<frame, mine, checks, peerInputs, net>> PROVE OrderOf(p, q)'
  BY <1>4, <1>5, SendsNothing
<1>6. CASE Receive(p)
  BY <1>3, <1>6, OrderRead
<1>7. CASE Receive(q)
  <2> PICK r : r = Record(q)
    OBVIOUS
  <2>1. /\ UNCHANGED <<settings, frame, mine, desyncAt, driftAt>>
        /\ checks'[p] = checks[p] /\ peerInputs'[p] = peerInputs[p]
    BY <1>7, ReadEffect
  <2>2. net'[q] = net[q] \/ net'[q] = Append(net[q], Bye)
    BY <1>7, ReadPipes
  <2>3. SendsInOrder(q)
    BY <2>1, <2>2, SendsNothing, SendsBye
  <2> QED
    BY <1>4, <2>1, <2>3
<1>8. ASSUME NEW pad \in Pads, Wait(p, pad) PROVE OrderOf(p, q)'
  <2>1. UNCHANGED <<frame, mine, checks, peerInputs>> /\ net'[q] = net[q]
    BY <1>8 DEF Wait, bookVars, TypeInv, TypeOK, WireTypeOK
  <2> QED
    BY <1>4, <2>1, SendsNothing
<1>9. ASSUME NEW pad \in Pads, Wait(q, pad) PROVE OrderOf(p, q)'
  <2>1. UNCHANGED <<frame, mine, checks, peerInputs>>
    BY <1>9 DEF Wait, bookVars
  <2>4. << >> \in Seq(Records) /\ Len(<< >>) = 0
    OBVIOUS
  <2> PICK last \in Seq(Records) : last = << >> /\ Len(last) = 0
    BY <2>4
  <2>2. net' = [net EXCEPT ![q] = @ \o NewInputs(q, pad) \o last]
    BY <1>9, PipeWait
  <2>3. SendsInOrder(q)
    BY <2>1, <2>2, SendsCall
  <2> QED
    BY <1>4, <2>1, <2>3
<1>10. ASSUME NEW pad \in Pads, Run(p, pad) PROVE OrderOf(p, q)'
  BY <1>3, <1>10, OrderRun
<1>11. ASSUME NEW pad \in Pads, Run(q, pad) PROVE OrderOf(p, q)'
  <2> PICK f \in Nat : frame[q] = f
    BY DEF TypeInv, TypeOK, InputTypeOK
  <2>1. PICK last \in Seq(Records) :
          /\ net' = [net EXCEPT ![q] = @ \o NewInputs(q, pad) \o last]
          /\ DueCheck(f) => Len(last) = 1 /\ IsCheck(last[1], f)
          /\ ~DueCheck(f) => Len(last) = 0
    BY <1>11, RunChecks
  <2>2. PICK own : Dict(own, Sums) /\ CompareChecks(q, own)
    BY <1>11, RunChecks
  <2>3. frame' = [frame EXCEPT ![q] = f + 1] /\ peerInputs' = [peerInputs EXCEPT ![q] = Without(peerInputs[q], {f})]
    BY <1>11 DEF Run
  <2>4. frame'[q] = frame[q] + 1 /\ frame'[p] = frame[p] /\ peerInputs'[p] = peerInputs[p]
    BY <2>3 DEF TypeInv, TypeOK, InputTypeOK
  <2>5. mine'[p] = mine[p] /\ checks'[p] = checks[p]
    BY <2>2, CompareEffect DEF TypeInv, TypeOK
  <2>6. SendsInOrder(q)
    BY <2>1, <2>4, SendsCall
  <2> QED
    BY <1>4, <2>4, <2>5, <2>6
<1>12. ASSUME NEW r \in PC, NoticeEnd(r) \/ Leave(r) \/ Drift(r) PROVE OrderOf(p, q)'
  BY <1>5, <1>12 DEF NoticeEnd, EndRefused, EndDesync, EndLost, Leave, End, Drift, bookVars, inputVars
<1>13. CASE Cut \/ UNCHANGED vars
  BY <1>5, <1>13 DEF Cut, vars, bookVars, inputVars
<1>14. ~(\E r \in PC : \E d \in dgrams : ReceiveDatagram(r, d))
  BY DEF NoDatagrams
<1> QED
  BY <1>3, <1>6, <1>7, <1>8, <1>9, <1>10, <1>11, <1>12, <1>13, <1>14 DEF Next, Step

\* What has been compared was told.
LEMMA DriftTold ==
  ASSUME TypeInv, AgreeInv, OrderInv
  PROVE  DriftCaughtInTime
<1> SUFFICES ASSUME NEW p \in PC, NEW r \in PC, driftAt[r] # NoFrame,
                    NEW c \in driftAt[r] .. frame[p] - Ahead(Other(p)) - 2, DueCheck(c)
             PROVE  desyncAt[p] # NoFrame
  BY DEF DriftCaughtInTime, DueCheck
<1> PICK q \in PC \ {p} : q = Other(p)
  BY DEF Other
<1>1. driftAt[r] \in Nat /\ frame[p] \in Nat
  BY DEF TypeInv, TypeOK, InputTypeOK, BookTypeOK
<1>2. Ahead(q) \in Nat
  BY AheadNat
<1>3. c \in DueFrames /\ driftAt[r] \in 0 .. c /\ c + Ahead(q) + 1 < frame[p]
  BY <1>1, <1>2 DEF DueFrames
<1>4. frame[p] # 0
  BY <1>1, <1>2, <1>3 DEF DueFrames
<1>5. Compatible
  BY <1>4 DEF AgreeInv, MismatchStops
<1>6. Compared(p, q, c)
  BY <1>3, <1>5 DEF OrderInv, OrderOf, Settled
<1> QED
  BY <1>3, <1>6 DEF Compared

\* Over TCP alone a drift is caught in bounded time: no PC gets further past a checksum
\* frame played after it than the other's delay, without noticing.  The books must be able
\* to hold what can wait for its partner, as 8 checksums of 60 frames do for delays of 30.
THEOREM DriftIsCaughtInTime ==
  ASSUME BooksReach, Udp = FALSE
  PROVE  Spec => []DriftCaughtInTime
<1>1. Init => SumInv /\ SkewInv /\ OrderInv /\ NoDatagrams
  BY SumInit, SkewInit, OrderInit DEF Init, NoDatagrams
<1>2. TypeInv /\ AgreeInv /\ SumInv /\ SkewInv /\ OrderInv /\ NoDatagrams /\ [Next]_vars
        => SumInv' /\ SkewInv' /\ OrderInv' /\ NoDatagrams'
  BY SumStep, SkewStep, SkewFollows, OrderStep
<1>3. TypeInv /\ AgreeInv /\ OrderInv => DriftCaughtInTime
  BY DriftTold
<1> QED
  BY <1>1, <1>2, <1>3, Agreement, PTL DEF Spec

=============================================================================
