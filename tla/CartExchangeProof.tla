-------------------------- MODULE CartExchangeProof --------------------------
(***************************************************************************)
(* Proofs about CartExchange, for any builds, delays, sizes of cartridges, *)
(* windows, kernels and saves, and whatever goes wrong.                    *)
(***************************************************************************)
EXTENDS CartExchange, TLAPS, SequenceTheorems

(***************************************************************************)
(* The two PCs, the records and the pipe                                   *)
(***************************************************************************)
LEMMA Both ==
  ASSUME NEW p \in PC
  PROVE  Other(p) \in PC /\ Other(p) # p /\ Other(Other(p)) = p /\ PC = {p, Other(p)}
BY TradersAssumption DEF PC, Other

\* What p has sent and the other has not read.
InTransit(p) == wire[p] \o out[p]

\* The fields of a record that has been read.
LEMMA Fields ==
  ASSUME NEW r \in Records
  PROVE  /\ r.kind \in {"HELLO", "CART", "CHUNK", "BYE", "SERIAL"}
         /\ r.kind = "HELLO" => r.build \in Builds /\ r.delay \in Delays
         /\ r.kind = "CART" => r.size \in Sizes
         /\ r.kind = "CHUNK" => r.of \in Versions /\ r.ok \in BOOLEAN
<1>1. ASSUME NEW x \in [kind : {"HELLO"}, build : Builds, delay : Delays, by : {"trade", "session"}], x = r
      PROVE  r.kind = "HELLO" /\ r.build \in Builds /\ r.delay \in Delays
  BY <1>1
<1>2. ASSUME NEW x \in [kind : {"CART"}, size : Sizes], x = r
      PROVE  r.kind = "CART" /\ r.size \in Sizes
  BY <1>2
<1>3. ASSUME NEW x \in [kind : {"CHUNK"}, of : Versions, ok : BOOLEAN], x = r
      PROVE  r.kind = "CHUNK" /\ r.of \in Versions /\ r.ok \in BOOLEAN
  BY <1>3
<1>4. ASSUME NEW x \in [kind : {"BYE", "SERIAL"}], x = r
      PROVE  r.kind \in {"BYE", "SERIAL"}
  BY <1>4
<1> QED
  BY <1>1, <1>2, <1>3, <1>4 DEF Records

\* The records that are sent.
LEMMA Written ==
  ASSUME TypeOK, NEW p \in PC
  PROVE  /\ \A d \in Delays : \A by \in {"trade", "session"} : Hello(p, d, by) \in Records
         /\ Cart(p) \in Records /\ \A ok \in BOOLEAN : Chunk(p, ok) \in Records
         /\ Bye \in Records /\ Serial \in Records
<1>1. settings[p].build \in Builds /\ settings[p].size \in Sizes /\ snapshot[p] \in Versions
  BY DEF TypeOK, Settings
<1>2. ASSUME NEW d \in Delays, NEW by \in {"trade", "session"} PROVE Hello(p, d, by) \in Records
  <2>1. Hello(p, d, by) \in [kind : {"HELLO"}, build : Builds, delay : Delays, by : {"trade", "session"}]
    BY <1>1, ZenonT(30) DEF Hello
  <2> QED
    BY <2>1 DEF Records
<1>3. Cart(p) \in [kind : {"CART"}, size : Sizes]
  BY <1>1, ZenonT(30) DEF Cart
<1>4. ASSUME NEW ok \in BOOLEAN PROVE Chunk(p, ok) \in Records
  <2>1. Chunk(p, ok) \in [kind : {"CHUNK"}, of : Versions, ok : BOOLEAN]
    BY <1>1, ZenonT(30) DEF Chunk
  <2> QED
    BY <2>1 DEF Records
<1>5. Bye \in [kind : {"BYE", "SERIAL"}] /\ Serial \in [kind : {"BYE", "SERIAL"}]
  BY ZenonT(30) DEF Bye, Serial
<1> QED
  BY <1>2, <1>3, <1>4, <1>5 DEF Records

\* The kernel takes a part of what is kept; nothing is lost or overtaken.
LEMMA Posted ==
  ASSUME NEW kept \in Seq(Records), NEW taken \in Seq(Records)
  PROVE  /\ Post(kept, taken).out \in Seq(Records) /\ Post(kept, taken).wire \in Seq(Records)
         /\ Post(kept, taken).wire \o Post(kept, taken).out = taken \o kept
<1> DEFINE room == IF Len(taken) < Kernel THEN Kernel - Len(taken) ELSE 0
           n == IF Len(kept) < room THEN Len(kept) ELSE room
           a == SubSeq(kept, 1, n)
           b == SubSeq(kept, n + 1, Len(kept))
<1>1. Post(kept, taken) = [out |-> b, wire |-> taken \o a]
  BY DEF Post
<1>2. n \in 0 .. Len(kept) /\ Len(kept) \in Nat
  BY TradeAssumption
<1> HIDE DEF n
<1>3. a \in Seq(Records) /\ b \in Seq(Records)
  <2>1. \A i \in 1 .. n : kept[i] \in Records
    BY <1>2
  <2>2. \A i \in n + 1 .. Len(kept) : kept[i] \in Records
    BY <1>2
  <2> QED
    BY <1>2, <2>1, <2>2, SubSeqProperties
<1>4. a \o b = kept
  <2>1. SubSeq(kept, 1, n) \o SubSeq(kept, n + 1, Len(kept)) = SubSeq(kept, 1, Len(kept))
    <3>1. 1 \in 1 .. Len(kept) + 1 /\ n \in 1 - 1 .. Len(kept) /\ Len(kept) \in n .. Len(kept)
      BY <1>2
    <3> QED
      BY <3>1, ConcatAdjacentSubSeq
  <2> QED
    BY <2>1, SubSeqFull
<1> HIDE DEF a, b
<1>5. taken \o a \in Seq(Records) /\ (taken \o a) \o b = taken \o (a \o b)
  BY <1>3, ConcatProperties, ConcatAssociative
<1> QED
  BY <1>1, <1>3, <1>4, <1>5

\* One more record behind what is kept.
LEMMA OneMore ==
  ASSUME NEW kept \in Seq(Records), NEW taken \in Seq(Records), NEW r \in Records
  PROVE  taken \o Append(kept, r) = Append(taken \o kept, r) /\ Append(kept, r) \in Seq(Records)
<1>1. Append(kept, r) = kept \o <<r>> /\ <<r>> \in Seq(Records) /\ taken \o kept \in Seq(Records)
  BY AppendIsConcat, ConcatProperties
<1>2. taken \o (kept \o <<r>>) = (taken \o kept) \o <<r>>
  BY <1>1, ConcatAssociative
<1> QED
  BY <1>1, <1>2, AppendIsConcat, AppendProperties

(***************************************************************************)
(* Types                                                                   *)
(***************************************************************************)
PipesTyped == out \in [PC -> Seq(Records)] /\ wire \in [PC -> Seq(Records)]

\* A record is read off the pipe.
LEMMA ReadTypes ==
  ASSUME TypeOK, NEW p \in PC, wire[Other(p)] # <<>>
  PROVE  Record(p) \in Records /\ Consumed(p) \in [PC -> Seq(Records)]
<1>1. Other(p) \in PC /\ wire \in [PC -> Seq(Records)] /\ wire[Other(p)] \in Seq(Records)
  BY Both DEF TypeOK
<1>2. Head(wire[Other(p)]) \in Records /\ Tail(wire[Other(p)]) \in Seq(Records)
  BY <1>1, HeadTailProperties
<1> QED
  BY <1>1, <1>2 DEF Record, Consumed

\* A closed end.
LEMMA HangUpTypes ==
  ASSUME TypeOK, NEW p \in PC, NEW w \in [PC -> Seq(Records)], NEW last \in Seq(Records), HangUp(p, w, last)
  PROVE  PipesTyped' /\ shut' \in [PC -> BOOLEAN]
<1>1. w[p] \in Seq(Records) /\ out[p] \in Seq(Records) /\ out \in [PC -> Seq(Records)] /\ shut \in [PC -> BOOLEAN]
  BY DEF TypeOK
<1>2. w[p] \o out[p] \o last \in Seq(Records) /\ <<>> \in Seq(Records)
  BY <1>1, ConcatProperties
<1>3. out' \in [PC -> Seq(Records)]
  BY <1>1, <1>2 DEF HangUp
<1>4. wire' \in [PC -> Seq(Records)]
  BY <1>2 DEF HangUp
<1>5. shut' \in [PC -> BOOLEAN]
  BY <1>1 DEF HangUp
<1> QED
  BY <1>3, <1>4, <1>5 DEF PipesTyped

LEMMA OverTypes ==
  ASSUME TypeOK, NEW p \in PC, NEW reason \in Reasons, NEW w \in [PC -> Seq(Records)],
         NEW last \in {<<>>, <<Bye>>}, Over(p, reason, w, last)
  PROVE  TypeOK'
<1>1. last \in Seq(Records)
  <2>1. Bye \in Records
    BY Written
  <2>2. <<Bye>> \in Seq(Records) /\ <<>> \in Seq(Records)
    BY <2>1
  <2> QED
    BY <2>2
<1>2. PipesTyped' /\ shut' \in [PC -> BOOLEAN]
  BY <1>1, HangUpTypes DEF Over
<1>3. phase' \in [PC -> {"trade", "session", "cable", "over"}] /\ why' \in [PC -> Reasons]
  BY DEF Over, TypeOK
<1>4. \A q \in PC : phase'[q] = "session" => image'[q] # NoImage
  BY DEF Over, TypeOK, tradeVars
<1>5. UNCHANGED <<settled, tradeVars, greeted, leftover, flash>>
  BY DEF Over
<1> QED
  BY <1>2, <1>3, <1>4, <1>5 DEF TypeOK, PipesTyped, settled, tradeVars

\* What is said of a refusal is one of the reasons.
LEMMA VerdictTypes ==
  ASSUME NEW p, NEW r
  PROVE  Verdict(p, r) \in {"none", "core_version", "input_delay"}
BY DEF Verdict

LEMMA PumpTypes ==
  ASSUME TypeOK, NEW p \in PC, Pump(p)
  PROVE  TypeOK'
<1>1. out[p] \in Seq(Records) /\ wire[p] \in Seq(Records) /\ out \in [PC -> Seq(Records)]
      /\ wire \in [PC -> Seq(Records)] /\ sent \in [PC -> Nat]
  BY DEF TypeOK
<1>2. Flushed(p).out \in Seq(Records) /\ Flushed(p).wire \in Seq(Records)
  BY <1>1, Posted DEF Flushed
<1>3. PICK ok \in BOOLEAN :
        \E next \in {Post(Append(Flushed(p).out, Chunk(p, ok)), Flushed(p).wire), Flushed(p)} :
          out' = [out EXCEPT ![p] = next.out] /\ wire' = [wire EXCEPT ![p] = next.wire]
  BY DEF Pump
<1>4. Append(Flushed(p).out, Chunk(p, ok)) \in Seq(Records)
  BY <1>2, Written, AppendProperties
<1>5. PICK next \in {Post(Append(Flushed(p).out, Chunk(p, ok)), Flushed(p).wire), Flushed(p)} :
        out' = [out EXCEPT ![p] = next.out] /\ wire' = [wire EXCEPT ![p] = next.wire]
  BY <1>3
<1>6. next.out \in Seq(Records) /\ next.wire \in Seq(Records)
  BY <1>2, <1>4, <1>5, Posted
<1>7. out' \in [PC -> Seq(Records)] /\ wire' \in [PC -> Seq(Records)]
  BY <1>1, <1>5, <1>6
<1>8. sent' \in [PC -> Nat]
  BY <1>1 DEF Pump
<1>9. UNCHANGED <<settled, delay, want, got, bad, image, phase, why, greeted, leftover, flash, shut>>
  BY DEF Pump
<1> QED
  BY <1>7, <1>8, <1>9 DEF TypeOK, settled

LEMMA ReadingTypes ==
  ASSUME TypeOK, NEW p \in PC,
         ReadHello(p) \/ ReadBye(p) \/ ReadCart(p) \/ ReadChunk(p) \/ ReadStranger(p) \/ KeepRest(p)
  PROVE  TypeOK'
<1>1. Record(p) \in Records /\ Consumed(p) \in [PC -> Seq(Records)]
  BY ReadTypes DEF ReadHello, ReadBye, ReadCart, ReadChunk, ReadStranger, KeepRest, Reads
<1>2. ASSUME NEW reason \in Reasons, NEW last \in {<<>>, <<Bye>>}, Over(p, reason, Consumed(p), last)
      PROVE  TypeOK'
  BY <1>1, <1>2, OverTypes
<1>3. CASE ReadHello(p)
  <2>1. CASE Over(p, Verdict(p, Record(p)), Consumed(p), <<Bye>>)
    <3>1. Verdict(p, Record(p)) \in Reasons
      BY VerdictTypes DEF Reasons
    <3> QED
      BY <1>2, <2>1, <3>1
  <2>2. CASE ~Over(p, Verdict(p, Record(p)), Consumed(p), <<Bye>>)
    <3>1. /\ greeted' = [greeted EXCEPT ![p] = TRUE]
          /\ delay' = [delay EXCEPT ![p] = Adopted(p, Record(p))]
          /\ wire' = Consumed(p)
          /\ UNCHANGED <<settled, sent, want, got, bad, image, phase, why, leftover, flash, out, shut>>
      BY <1>3, <2>2 DEF ReadHello
    <3>2. Record(p).delay \in Delays
      BY <1>1, <1>3, Fields DEF ReadHello, Reads
    <3>3. Adopted(p, Record(p)) \in Delays
      BY <3>2 DEF Adopted, TypeOK
    <3>4. greeted' \in [PC -> BOOLEAN] /\ delay' \in [PC -> Delays]
      BY <3>1, <3>3 DEF TypeOK
    <3> QED
      BY <1>1, <3>1, <3>4 DEF TypeOK, settled
  <2> QED
    BY <2>1, <2>2
<1>4. CASE ReadBye(p)
  BY <1>2, <1>4 DEF ReadBye, Reasons
<1>5. CASE ReadCart(p)
  <2>1. Record(p).size \in Sizes
    BY <1>1, <1>5, Fields DEF ReadCart, Reads
  <2>2. want' \in [PC -> Sizes \cup {NoLength}]
    BY <1>5, <2>1 DEF ReadCart, TypeOK
  <2>3. wire' = Consumed(p) /\ UNCHANGED <<settled, delay, sent, got, bad, image, phase, why, greeted, leftover, flash, out, shut>>
    BY <1>5 DEF ReadCart
  <2> QED
    BY <1>1, <2>2, <2>3 DEF TypeOK, settled
<1>6. CASE ReadChunk(p)
  <2>1. CASE Over(p, "cartridge_transfer", Consumed(p), <<Bye>>)
    BY <1>2, <2>1 DEF Reasons
  <2>2. CASE ~Over(p, "cartridge_transfer", Consumed(p), <<Bye>>)
    <3>1. /\ got' = [got EXCEPT ![p] = @ + 1]
          /\ bad' = [bad EXCEPT ![p] = @ \/ ~Record(p).ok]
          /\ image' = [image EXCEPT ![p] = IF Whole(p) THEN Record(p).of ELSE @]
          /\ wire' = Consumed(p)
          /\ UNCHANGED <<settled, delay, sent, want, phase, why, greeted, leftover, flash, out, shut>>
      BY <1>6, <2>2 DEF ReadChunk
    <3>2. Record(p).of \in Versions /\ Record(p).ok \in BOOLEAN
      BY <1>1, <1>6, Fields DEF ReadChunk, Reads
    <3>3. got' \in [PC -> Nat]
      BY <3>1 DEF TypeOK
    <3>4. bad' \in [PC -> BOOLEAN]
      BY <3>1, <3>2 DEF TypeOK
    <3>5. image' \in [PC -> Versions \cup {NoImage}]
      BY <3>1, <3>2 DEF TypeOK
    <3>6. \A q \in PC : phase'[q] = "session" => image'[q] # NoImage
      BY <1>6, <3>1 DEF ReadChunk, Reads, TypeOK
    <3> QED
      BY <1>1, <3>1, <3>3, <3>4, <3>5, <3>6 DEF TypeOK, settled
  <2> QED
    BY <2>1, <2>2
<1>7. CASE ReadStranger(p)
  <2>1. Over(p, "unexpected_record", Consumed(p), <<>>) \/ Over(p, "not_mirror", Consumed(p), <<Bye>>)
    BY <1>7 DEF ReadStranger
  <2> QED
    BY <1>2, <2>1 DEF Reasons
<1>8. CASE KeepRest(p)
  <2>1. Append(leftover[p], Record(p)) \in Seq(Records)
    BY <1>1, AppendProperties DEF TypeOK
  <2>2. leftover' \in [PC -> Seq(Records)]
    BY <1>8, <2>1 DEF KeepRest, TypeOK
  <2>3. wire' = Consumed(p) /\ UNCHANGED <<settled, tradeVars, phase, why, greeted, flash, out, shut>>
    BY <1>8 DEF KeepRest
  <2> QED
    BY <1>1, <2>2, <2>3 DEF TypeOK, settled, tradeVars
<1> QED
  BY <1>3, <1>4, <1>5, <1>6, <1>7, <1>8

LEMMA SessionTypes ==
  ASSUME TypeOK, NEW p \in PC, StartSession(p) \/ ReadSession(p)
  PROVE  TypeOK'
<1>1. CASE StartSession(p)
  <2> DEFINE next == Post(<<Hello(p, delay[p], "session")>>, wire[p])
  <2>1. <<Hello(p, delay[p], "session")>> \in Seq(Records) /\ wire[p] \in Seq(Records)
    BY Written DEF TypeOK
  <2>2. next.out \in Seq(Records) /\ next.wire \in Seq(Records)
    BY <2>1, Posted
  <2>3. /\ phase' = [phase EXCEPT ![p] = "session"] /\ greeted' = [greeted EXCEPT ![p] = FALSE]
        /\ flash' = [flash EXCEPT ![p] = snapshot[p]]
        /\ out' = [out EXCEPT ![p] = next.out] /\ wire' = [wire EXCEPT ![p] = next.wire]
        /\ UNCHANGED <<settled, tradeVars, why, leftover, shut>> /\ image[p] # NoImage
    BY <1>1 DEF StartSession, OwnCart, Done
  <2> HIDE DEF next
  <2>4. out' \in [PC -> Seq(Records)] /\ wire' \in [PC -> Seq(Records)]
    BY <2>2, <2>3 DEF TypeOK
  <2>5. /\ phase' \in [PC -> {"trade", "session", "cable", "over"}] /\ greeted' \in [PC -> BOOLEAN]
        /\ flash' \in [PC -> Versions] /\ \A q \in PC : phase'[q] = "session" => image'[q] # NoImage
    BY <2>3 DEF TypeOK, tradeVars
  <2> QED
    BY <2>3, <2>4, <2>5 DEF TypeOK, settled, tradeVars
<1>2. CASE ReadSession(p)
  <2> DEFINE primed == leftover[p] # <<>>
             r == IF primed THEN Head(leftover[p]) ELSE Record(p)
             rest == IF primed THEN wire ELSE Consumed(p)
             refusal == IF r.kind = "BYE" THEN "peer_refused" ELSE Verdict(p, r)
             last == IF r.kind = "BYE" THEN <<>> ELSE <<Bye>>
  <2>1. rest \in [PC -> Seq(Records)]
    BY <1>2, ReadTypes DEF ReadSession, TypeOK
  <2>2. refusal \in Reasons /\ last \in {<<>>, <<Bye>>}
    BY VerdictTypes DEF Reasons
  <2>3. \/ Over(p, refusal, rest, last)
        \/ /\ greeted' = [greeted EXCEPT ![p] = TRUE]
           /\ leftover' = [leftover EXCEPT ![p] = IF primed THEN Tail(@) ELSE @]
           /\ wire' = rest
           /\ UNCHANGED <<settled, tradeVars, phase, why, flash, out, shut>>
    BY <1>2 DEF ReadSession
  <2> HIDE DEF r, rest, refusal, last
  <2>4. CASE Over(p, refusal, rest, last)
    BY <2>1, <2>2, <2>4, OverTypes
  <2>5. CASE ~Over(p, refusal, rest, last)
    <3>1. leftover[p] \in Seq(Records)
      BY DEF TypeOK
    <3>2. primed => Tail(leftover[p]) \in Seq(Records)
      BY <3>1, HeadTailProperties
    <3>3. leftover' \in [PC -> Seq(Records)]
      <4>1. (IF primed THEN Tail(leftover[p]) ELSE leftover[p]) \in Seq(Records)
        BY <3>1, <3>2
      <4>2. leftover' = [leftover EXCEPT ![p] = IF primed THEN Tail(leftover[p]) ELSE leftover[p]]
        BY <2>3, <2>5
      <4> QED
        BY <4>1, <4>2 DEF TypeOK
    <3>4. greeted' \in [PC -> BOOLEAN]
      BY <2>3, <2>5 DEF TypeOK
    <3> QED
      BY <2>1, <2>3, <2>5, <3>3, <3>4 DEF TypeOK, settled, tradeVars
  <2> QED
    BY <2>4, <2>5
<1> QED
  BY <1>1, <1>2

LEMMA EndingTypes ==
  ASSUME TypeOK, NEW p \in PC,
         NoticeLost(p) \/ NoHello(p) \/ Leave(p) \/ CableSniff(p) \/ GameSaves(p)
           \/ Linger(p) \/ Reset(p) \/ CableTalk(p)
  PROVE  TypeOK'
<1>1. ASSUME NEW reason \in Reasons, NEW w \in [PC -> Seq(Records)], Over(p, reason, w, <<>>)
      PROVE  TypeOK'
  BY <1>1, OverTypes
<1>2. wire \in [PC -> Seq(Records)] /\ <<>> \in Seq(Records) /\ <<Serial>> \in Seq(Records) /\ Other(p) \in PC
  BY Both, Written DEF TypeOK
<1>3. CASE NoticeLost(p) \/ NoHello(p) \/ Leave(p)
  BY <1>1, <1>2, <1>3 DEF NoticeLost, NoHello, Leave, Reasons
<1>4. CASE CableSniff(p)
  <2>1. Consumed(p) \in [PC -> Seq(Records)]
    BY <1>4, ReadTypes DEF CableSniff
  <2>2. [Consumed(p) EXCEPT ![p] = <<>>] \in [PC -> Seq(Records)]
    BY <1>2, <2>1
  <2> QED
    BY <1>1, <1>4, <2>1, <2>2 DEF CableSniff, Reasons
<1>5. CASE GameSaves(p)
  <2>1. flash' \in [PC -> Versions]
    BY <1>5, TradeAssumption DEF GameSaves, TypeOK, Versions
  <2> QED
    BY <1>5, <2>1 DEF GameSaves, TypeOK, settled, tradeVars
<1>6. CASE Linger(p) \/ Reset(p) \/ CableTalk(p)
  <2>1. wire' \in [PC -> Seq(Records)]
    BY <1>2, <1>6 DEF Linger, Reset, CableTalk
  <2>2. UNCHANGED <<settled, tradeVars, phase, why, greeted, leftover, flash, out, shut>>
    BY <1>6 DEF Linger, Reset, CableTalk
  <2> QED
    BY <2>1, <2>2 DEF TypeOK, settled, tradeVars
<1> QED
  BY <1>3, <1>4, <1>5, <1>6

LEMMA NextTypes == TypeOK /\ [Next]_vars => TypeOK'
<1>1. ASSUME TypeOK, NEW p \in PC,
             \/ Pump(p) \/ Read(p) \/ StartSession(p) \/ NoticeLost(p) \/ NoHello(p)
             \/ GameSaves(p) \/ Leave(p) \/ Linger(p) \/ Reset(p) \/ CableTalk(p)
      PROVE  TypeOK'
  BY <1>1, PumpTypes, ReadingTypes, SessionTypes, EndingTypes DEF Read
<1>2. ASSUME TypeOK, UNCHANGED vars PROVE TypeOK'
  BY <1>2 DEF TypeOK, vars, settled, tradeVars
<1> QED
  BY <1>1, <1>2 DEF Next

\* What is sent before anything is read.
Opening(p) == <<Hello(p, delay[p], "trade"), Cart(p)>>

LEMMA InitPipes ==
  ASSUME Init, NEW p \in PC
  PROVE  /\ settings[p].mode = "mirror" => InTransit(p) = Opening(p)
         /\ settings[p].mode # "mirror" => InTransit(p) = <<>>
         /\ out[p] \in Seq(Records) /\ wire[p] \in Seq(Records) /\ Opening(p) \in Seq(Records)
<1>1. settings[p] \in Settings /\ delay[p] = settings[p].delay /\ snapshot[p] = 0
  BY DEF Init
<1>2. Hello(p, delay[p], "trade") \in [kind : {"HELLO"}, build : Builds, delay : Delays, by : {"trade", "session"}]
  BY <1>1, ZenonT(30) DEF Settings, Hello
<1>3. Cart(p) \in [kind : {"CART"}, size : Sizes]
  BY <1>1, ZenonT(30) DEF Settings, Cart
<1>4. Opening(p) \in Seq(Records) /\ <<>> \in Seq(Records)
  <2>1. Hello(p, delay[p], "trade") \in Records /\ Cart(p) \in Records
    BY <1>2, <1>3 DEF Records
  <2> QED
    BY <2>1 DEF Opening
<1> DEFINE first == IF settings[p].mode = "mirror" THEN Post(Opening(p), <<>>) ELSE [out |-> <<>>, wire |-> <<>>]
<1>5. out[p] = first.out /\ wire[p] = first.wire
  BY DEF Init, Opening
<1>6. first.wire \o first.out = (IF settings[p].mode = "mirror" THEN Opening(p) ELSE <<>>)
      /\ first.out \in Seq(Records) /\ first.wire \in Seq(Records)
  <2>1. <<>> \o Opening(p) = Opening(p) /\ <<>> \o <<>> = <<>>
    BY <1>4, ConcatEmptySeq
  <2> QED
    BY <1>4, <2>1, Posted
<1> QED
  BY <1>4, <1>5, <1>6 DEF InTransit

LEMMA InitTypes == Init => TypeOK
<1> SUFFICES ASSUME Init PROVE TypeOK
  OBVIOUS
<1>1. settings \in [PC -> Settings] /\ faults \in {{}, Faults} /\ 0 \in Versions
  BY TradeAssumption DEF Init, Versions
<1>2. delay \in [PC -> Delays]
  BY <1>1 DEF Init, Settings
<1>3. out \in [PC -> Seq(Records)] /\ wire \in [PC -> Seq(Records)]
  <2>1. out = [p \in PC |-> out[p]] /\ wire = [p \in PC |-> wire[p]]
    BY DEF Init
  <2> QED
    BY <2>1, InitPipes
<1>4. /\ phase \in [PC -> {"trade", "session", "cable", "over"}] /\ \A p \in PC : phase[p] # "session"
      /\ why \in [PC -> Reasons] /\ leftover \in [PC -> Seq(Records)]
  BY DEF Init, Reasons
<1>5. /\ greeted \in [PC -> BOOLEAN] /\ bad \in [PC -> BOOLEAN] /\ shut \in [PC -> BOOLEAN]
      /\ sent \in [PC -> Nat] /\ got \in [PC -> Nat] /\ want \in [PC -> Sizes \cup {NoLength}]
      /\ image \in [PC -> Versions \cup {NoImage}]
  BY DEF Init
<1>6. flash \in [PC -> Versions] /\ snapshot \in [PC -> Versions]
  BY <1>1 DEF Init
<1> QED
  BY <1>1, <1>2, <1>3, <1>4, <1>5, <1>6 DEF TypeOK

\* Every variable keeps its type, whatever is read from the other end, and a session has
\* the other player's cartridge (_start_mirror is given the image that was received).
THEOREM TypeCorrect == Spec => []TypeOK
BY InitTypes, NextTypes, PTL DEF Spec

(***************************************************************************)
(* The inductive invariant.  p sends, Other(p) reads                       *)
(***************************************************************************)
\* What p sends after its last chunk: a session's hello, with the host's delay, a refusal.
After(p, r) ==
  \/ r.kind = "BYE"
  \/ r.kind = "HELLO" /\ r.delay = HostDelay /\ sent[p] = settings[p].size

\* The k-th record of what p sends: its hello, its cartridge's size, its chunks, the rest.
Fits(p, r, k) ==
  \/ k = 1 /\ r.kind = "HELLO" /\ r.delay = settings[p].delay
  \/ k = 2 /\ r.kind = "CART" /\ r.size = settings[p].size
  \/ k \in 3 .. 2 + sent[p] /\ r.kind = "CHUNK" /\ r.of = snapshot[p]
  \/ k > 2 + sent[p] /\ After(p, r)

\* How many records q, still trading, has read.
Place(q) ==
  IF want[q] # NoLength THEN 2 + got[q] ELSE IF greeted[q] THEN 1 ELSE 0

\* What is on its way to a trade that is not complete.
StreamOf(p) ==
  LET q == Other(p) IN
  settings[p].mode = "mirror" /\ phase[q] = "trade" /\ image[q] = NoImage =>
    /\ \A i \in 1 .. Len(InTransit(p)) : Fits(p, InTransit(p)[i], Place(q) + i)
    /\ phase[p] = "trade" => Place(q) + Len(InTransit(p)) = 2 + sent[p]
    /\ phase[p] = "session" => Place(q) + Len(InTransit(p)) > 2 + sent[p]
    /\ Place(q) <= 2 + sent[p] /\ leftover[q] = <<>>
    /\ IF want[q] = NoLength THEN got[q] = 0
       ELSE want[q] = settings[p].size /\ got[q] < want[q] /\ greeted[q]

\* What is on its way to a trade that is complete, and to a session.
RestOf(p) ==
  LET q == Other(p) IN
  phase[q] \in {"trade", "session"} /\ image[q] # NoImage =>
    /\ settings[p].mode = "mirror" /\ sent[p] = settings[p].size /\ image[q] = snapshot[p]
    /\ \A i \in 1 .. Len(InTransit(p)) : After(p, InTransit(p)[i])
    /\ \A i \in 1 .. Len(leftover[q]) : After(p, leftover[q][i])

\* A PC in cable mode announces no cartridge.
CableOf(p) ==
  LET q == Other(p) IN
  settings[p].mode = "cable" =>
    /\ phase[p] \in {"cable", "over"} /\ want[q] = NoLength /\ image[q] = NoImage
    /\ \A i \in 1 .. Len(InTransit(p)) : InTransit(p)[i].kind = "SERIAL"

\* The host keeps its delay; a joiner that has been greeted has the host's.
DelayOf(p) ==
  /\ phase[p] = "session" \/ (phase[p] = "trade" /\ greeted[p]) => delay[p] = HostDelay
  /\ p = Host => delay[p] = HostDelay /\ settings[p].delay = HostDelay

OwnOf(p) ==
  /\ sent[p] <= settings[p].size
  /\ phase[p] \in {"trade", "session"} => settings[p].mode = "mirror"
  /\ phase[p] = "cable" => settings[p].mode = "cable" /\ out[p] = <<>>
  /\ phase[p] = "session" => sent[p] = settings[p].size /\ flash[p] = snapshot[p]
  /\ phase[p] = "over" => out[p] = <<>>
  /\ shut[p] <=> phase[p] = "over"
  /\ why[p] # "input_delay"

TradeOf(p) == StreamOf(p) /\ RestOf(p) /\ CableOf(p) /\ DelayOf(p) /\ OwnOf(p)

TradeInv == \A p \in PC : TradeOf(p)

\* What is in transit is a sequence of records.
LEMMA Transit ==
  ASSUME TypeOK, NEW p \in PC
  PROVE  /\ InTransit(p) \in Seq(Records) /\ Len(InTransit(p)) \in Nat
         /\ out[p] \in Seq(Records) /\ wire[p] \in Seq(Records)
         /\ \A i \in 1 .. Len(InTransit(p)) : InTransit(p)[i] \in Records
<1>1. out[p] \in Seq(Records) /\ wire[p] \in Seq(Records)
  BY DEF TypeOK
<1>2. InTransit(p) \in Seq(Records)
  BY <1>1, ConcatProperties DEF InTransit
<1> QED
  BY <1>1, <1>2, ElementOfSeq, LenProperties

\* Reading takes the first of what is in transit.
LEMMA TakenOff ==
  ASSUME TypeOK, NEW q \in PC, wire[q] # <<>>, wire'[q] = Tail(wire[q]), out'[q] = out[q]
  PROVE  /\ InTransit(q)' = Tail(InTransit(q)) /\ Head(wire[q]) = InTransit(q)[1]
         /\ Len(InTransit(q)) \in Nat \ {0} /\ Len(InTransit(q)') = Len(InTransit(q)) - 1
         /\ \A i \in 1 .. Len(InTransit(q)') :
              i + 1 \in 1 .. Len(InTransit(q)) /\ InTransit(q)'[i] = InTransit(q)[i + 1]
<1> DEFINE w == wire[q]
           o == out[q]
           s == w \o o
           t == Tail(w) \o o
<1>1. w \in Seq(Records) /\ o \in Seq(Records) /\ w # <<>>
  BY Transit
<1>2. s = InTransit(q) /\ t = InTransit(q)'
  BY DEF InTransit
<1> HIDE DEF w, o
<1>3. /\ Tail(w) \in Seq(Records) /\ Len(Tail(w)) = Len(w) - 1 /\ Len(w) \in Nat \ {0} /\ Head(w) = w[1]
      /\ \A i \in 1 .. Len(Tail(w)) : Tail(w)[i] = w[i + 1]
  BY <1>1, HeadTailProperties
<1>4. /\ s \in Seq(Records) /\ Len(s) = Len(w) + Len(o) /\ Len(o) \in Nat
      /\ \A i \in 1 .. Len(w) + Len(o) : s[i] = IF i <= Len(w) THEN w[i] ELSE o[i - Len(w)]
  BY <1>1, ConcatProperties
<1>5. /\ t \in Seq(Records) /\ Len(t) = Len(w) - 1 + Len(o)
      /\ \A i \in 1 .. Len(w) - 1 + Len(o) : t[i] = IF i <= Len(w) - 1 THEN Tail(w)[i] ELSE o[i - (Len(w) - 1)]
  BY <1>1, <1>3, ConcatProperties
<1> HIDE DEF s, t
<1>6. \A i \in 1 .. Len(t) : i + 1 \in 1 .. Len(s) /\ t[i] = s[i + 1]
  BY <1>3, <1>4, <1>5
<1>7. s # <<>> /\ Len(s) \in Nat \ {0} /\ w[1] = s[1]
  BY <1>3, <1>4
<1>8. Tail(s) \in Seq(Records) /\ Len(Tail(s)) = Len(s) - 1 /\ \A i \in 1 .. Len(Tail(s)) : Tail(s)[i] = s[i + 1]
  BY <1>4, <1>7, HeadTailProperties
<1>9. t = Tail(s)
  <2>1. Len(t) = Len(Tail(s)) /\ \A i \in 1 .. Len(t) : t[i] = Tail(s)[i]
    BY <1>4, <1>5, <1>6, <1>8
  <2> QED
    BY <1>5, <1>8, <2>1, SeqEqual
<1>10. Head(w) = s[1] /\ Len(t) = Len(s) - 1
  BY <1>3, <1>4, <1>5, <1>7
<1> QED
  BY <1>2, <1>6, <1>7, <1>9, <1>10 DEF w

(***************************************************************************)
(* What a step does to one direction                                       *)
(***************************************************************************)
\* The reader of a direction does nothing.
Still(q) ==
  /\ phase'[q] = phase[q] /\ image'[q] = image[q] /\ want'[q] = want[q] /\ got'[q] = got[q]
  /\ greeted'[q] = greeted[q] /\ leftover'[q] = leftover[q]

Sender(p) == StreamOf(p) /\ RestOf(p) /\ CableOf(p)

\* Nothing is sent, or the sender has hung up without a word.
LEMMA SenderStays ==
  ASSUME TypeOK, NEW p \in PC, TradeOf(p), UNCHANGED settled, sent'[p] = sent[p], Still(Other(p)),
         InTransit(p)' = InTransit(p), phase'[p] \in {phase[p], "over"}
  PROVE  Sender(p)'
<1> DEFINE q == Other(p)
<1>1. /\ settings' = settings /\ snapshot' = snapshot
      /\ phase'[q] = phase[q] /\ image'[q] = image[q] /\ want'[q] = want[q] /\ got'[q] = got[q]
      /\ greeted'[q] = greeted[q] /\ leftover'[q] = leftover[q]
  BY DEF settled, Still
<1>2. Place(q)' = Place(q) /\ \A r, k : (Fits(p, r, k)' <=> Fits(p, r, k)) /\ (After(p, r)' <=> After(p, r))
  BY <1>1 DEF Place, Fits, After
<1>3. StreamOf(p)'
  BY <1>1, <1>2 DEF StreamOf, TradeOf
<1>4. RestOf(p)'
  BY <1>1, <1>2 DEF RestOf, TradeOf
<1>5. CableOf(p)'
  BY <1>1 DEF CableOf, TradeOf
<1> QED
  BY <1>3, <1>4, <1>5 DEF Sender

\* A session says hello, a trade or a session says goodbye.
LEMMA SenderAdds ==
  ASSUME TypeOK, NEW p \in PC, TradeOf(p), UNCHANGED settled, sent'[p] = sent[p], Still(Other(p)),
         NEW r \in Records, InTransit(p)' = Append(InTransit(p), r), After(p, r),
         phase[p] \in {"trade", "session"}, phase'[p] \in {"session", "over"}
  PROVE  Sender(p)'
<1> DEFINE q == Other(p)
           s == InTransit(p)
<1>1. /\ settings' = settings /\ snapshot' = snapshot
      /\ phase'[q] = phase[q] /\ image'[q] = image[q] /\ want'[q] = want[q] /\ got'[q] = got[q]
      /\ greeted'[q] = greeted[q] /\ leftover'[q] = leftover[q]
  BY DEF settled, Still
<1>2. Place(q)' = Place(q) /\ \A e, k : (Fits(p, e, k)' <=> Fits(p, e, k)) /\ (After(p, e)' <=> After(p, e))
  BY <1>1 DEF Place, Fits, After
<1>3. s \in Seq(Records) /\ Len(s) \in Nat
  BY Transit
<1>4. /\ Len(InTransit(p)') = Len(s) + 1 /\ InTransit(p)'[Len(s) + 1] = r
      /\ \A i \in 1 .. Len(s) : InTransit(p)'[i] = s[i]
  BY <1>3, AppendProperties
<1>5. sent[p] \in Nat /\ q \in PC /\ got[q] \in Nat /\ settings[p].mode = "mirror"
  BY Both DEF TypeOK, TradeOf, OwnOf
<1>6. Place(q) \in Nat
  BY <1>5 DEF Place
<1>7. StreamOf(p)'
  <2> SUFFICES ASSUME phase[q] = "trade", image[q] = NoImage PROVE StreamOf(p)'
    BY <1>1 DEF StreamOf
  <2>1. /\ \A i \in 1 .. Len(s) : Fits(p, s[i], Place(q) + i)
        /\ Place(q) + Len(s) >= 2 + sent[p]
        /\ Place(q) <= 2 + sent[p] /\ leftover[q] = <<>>
        /\ IF want[q] = NoLength THEN got[q] = 0
           ELSE want[q] = settings[p].size /\ got[q] < want[q] /\ greeted[q]
    BY <1>3, <1>5, <1>6 DEF TradeOf, StreamOf
  <2>2. Fits(p, r, Place(q) + (Len(s) + 1))
    BY <1>3, <1>5, <1>6, <2>1 DEF Fits
  <2>3. \A i \in 1 .. Len(s) + 1 : Fits(p, InTransit(p)'[i], Place(q) + i)
    <3> SUFFICES ASSUME NEW i \in 1 .. Len(s) + 1 PROVE Fits(p, InTransit(p)'[i], Place(q) + i)
      OBVIOUS
    <3>1. CASE i = Len(s) + 1
      BY <1>4, <2>2, <3>1
    <3>2. CASE i \in 1 .. Len(s)
      BY <1>4, <2>1, <3>2
    <3> QED
      BY <1>3, <3>1, <3>2
  <2>4. Place(q) + Len(InTransit(p)') > 2 + sent[p]
    BY <1>3, <1>4, <1>5, <1>6, <2>1
  <2> QED
    BY <1>1, <1>2, <1>4, <2>1, <2>3, <2>4 DEF StreamOf
<1>8. RestOf(p)'
  <2> SUFFICES ASSUME phase[q] \in {"trade", "session"}, image[q] # NoImage PROVE RestOf(p)'
    BY <1>1 DEF RestOf
  <2>1. /\ settings[p].mode = "mirror" /\ sent[p] = settings[p].size /\ image[q] = snapshot[p]
        /\ \A i \in 1 .. Len(s) : After(p, s[i])
        /\ \A i \in 1 .. Len(leftover[q]) : After(p, leftover[q][i])
    BY DEF TradeOf, RestOf
  <2>2. \A i \in 1 .. Len(s) + 1 : After(p, InTransit(p)'[i])
    <3> SUFFICES ASSUME NEW i \in 1 .. Len(s) + 1 PROVE After(p, InTransit(p)'[i])
      OBVIOUS
    <3>1. CASE i = Len(s) + 1
      BY <1>4, <3>1
    <3>2. CASE i \in 1 .. Len(s)
      BY <1>4, <2>1, <3>2
    <3> QED
      BY <1>3, <3>1, <3>2
  <2> QED
    BY <1>1, <1>2, <1>4, <2>1, <2>2 DEF RestOf
<1>9. CableOf(p)'
  BY <1>1, <1>5 DEF CableOf
<1> QED
  BY <1>7, <1>8, <1>9 DEF Sender

\* One more chunk is sent.
LEMMA SenderCuts ==
  ASSUME TypeOK, NEW p \in PC, TradeOf(p), UNCHANGED settled, Still(Other(p)),
         phase[p] = "trade", phase'[p] = "trade", sent[p] < settings[p].size, sent'[p] = sent[p] + 1,
         NEW ok \in BOOLEAN, InTransit(p)' = Append(InTransit(p), Chunk(p, ok))
  PROVE  Sender(p)'
<1> DEFINE q == Other(p)
           s == InTransit(p)
           r == Chunk(p, ok)
<1>1. /\ settings' = settings /\ snapshot' = snapshot
      /\ phase'[q] = phase[q] /\ image'[q] = image[q] /\ want'[q] = want[q] /\ got'[q] = got[q]
      /\ greeted'[q] = greeted[q] /\ leftover'[q] = leftover[q]
  BY DEF settled, Still
<1>2. Place(q)' = Place(q)
  BY <1>1 DEF Place
<1>3. s \in Seq(Records) /\ Len(s) \in Nat /\ r \in Records /\ r.kind = "CHUNK" /\ r.of = snapshot[p]
  BY Transit, Written DEF Chunk
<1> HIDE DEF r
<1>4. /\ Len(InTransit(p)') = Len(s) + 1 /\ InTransit(p)'[Len(s) + 1] = r
      /\ \A i \in 1 .. Len(s) : InTransit(p)'[i] = s[i]
  BY <1>3, AppendProperties DEF r
<1>5. sent[p] \in Nat /\ q \in PC /\ got[q] \in Nat /\ settings[p].mode = "mirror" /\ settings[p].size \in Nat
  BY Both, TradeAssumption DEF TypeOK, TradeOf, OwnOf, Settings
<1>6. Place(q) \in Nat
  BY <1>5 DEF Place
<1>7. StreamOf(p)'
  <2> SUFFICES ASSUME phase[q] = "trade", image[q] = NoImage PROVE StreamOf(p)'
    BY <1>1 DEF StreamOf
  <2>1. /\ \A i \in 1 .. Len(s) : Fits(p, s[i], Place(q) + i)
        /\ Place(q) + Len(s) = 2 + sent[p]
        /\ Place(q) <= 2 + sent[p] /\ leftover[q] = <<>>
        /\ IF want[q] = NoLength THEN got[q] = 0
           ELSE want[q] = settings[p].size /\ got[q] < want[q] /\ greeted[q]
    BY <1>5 DEF TradeOf, StreamOf
  <2>a. PICK t : t = InTransit(p)'
    OBVIOUS
  <2>2. ASSUME NEW i \in 1 .. Len(s) + 1, NEW k, k = Place(q) + i
        PROVE  Fits(p, t[i], k)'
    <3>1. CASE i = Len(s) + 1
      <4>1. k \in 3 .. 2 + sent'[p]
        BY <1>3, <1>5, <1>6, <2>1, <2>2, <3>1
      <4>2. t[i].kind = "CHUNK" /\ t[i].of = snapshot'[p]
        BY <1>1, <1>3, <1>4, <2>a, <3>1
      <4> QED
        BY <4>1, <4>2 DEF Fits
    <3>2. CASE i \in 1 .. Len(s)
      <4>1. Fits(p, s[i], k) /\ k <= 2 + sent[p] /\ t[i] = s[i] /\ k \in Nat
        BY <1>3, <1>4, <1>5, <1>6, <2>1, <2>2, <2>a, <3>2
      <4> QED
        BY <1>1, <1>5, <4>1 DEF Fits
    <3> QED
      BY <1>3, <3>1, <3>2
  <2>3. Place(q) + Len(InTransit(p)') = 2 + sent'[p] /\ Place(q) <= 2 + sent'[p]
    BY <1>3, <1>4, <1>5, <1>6, <2>1
  <2> QED
    BY <1>1, <1>2, <1>4, <2>a, <2>1, <2>2, <2>3 DEF StreamOf
<1>8. RestOf(p)'
  BY <1>1, <1>5 DEF RestOf, TradeOf
<1>9. CableOf(p)'
  BY <1>1, <1>5 DEF CableOf
<1> QED
  BY <1>7, <1>8, <1>9 DEF Sender

\* Where the records of two sequences are when one follows the other.
LEMMA InFirst ==
  ASSUME NEW m \in Nat \ {0}, NEW n \in Nat
  PROVE  1 \in 1 .. m + n /\ 1 <= m /\ m + n \in Nat \ {0}
OBVIOUS

LEMMA InSecond ==
  ASSUME NEW m \in Nat, NEW n \in Nat, NEW i \in 1 .. n
  PROVE  m + i \in 1 .. m + n /\ ~(m + i <= m) /\ (m + i) - m = i
OBVIOUS

\* What is read by a trade that is not complete, and what the reader's next place is.
LEMMA NextRead ==
  ASSUME TypeOK, NEW p \in PC, TradeOf(Other(p)), NEW kinds, Reads(p, kinds), OwnOf(p)
  PROVE  LET q == Other(p)
             r == Record(p)
             k == Place(p) + 1
         IN /\ r = InTransit(q)[1] /\ 1 \in 1 .. Len(InTransit(q)) /\ r \in Records
            /\ settings[q].mode = "cable" => r.kind = "SERIAL"
            /\ settings[q].mode = "mirror" => Fits(q, r, k)
            /\ settings[q].mode \in {"mirror", "cable"}
            /\ Place(p) \in Nat
<1> DEFINE q == Other(p)
<1>1. q \in PC /\ Other(q) = p
  BY Both
<1>2. phase[p] = "trade" /\ image[p] = NoImage /\ wire[q] # <<>>
  BY DEF Reads
<1>3. Len(InTransit(q)) \in Nat \ {0} /\ Record(p) = InTransit(q)[1] /\ InTransit(q)[1] \in Records
  <2>1. wire[q] \in Seq(Records) /\ out[q] \in Seq(Records)
    BY <1>1, Transit
  <2>2. Len(wire[q]) \in Nat \ {0} /\ Head(wire[q]) = wire[q][1] /\ Len(out[q]) \in Nat
    BY <1>2, <2>1
  <2>3. InTransit(q)[1] = wire[q][1] /\ Len(InTransit(q)) = Len(wire[q]) + Len(out[q])
    <3>1. 1 \in 1 .. Len(wire[q]) + Len(out[q]) /\ 1 <= Len(wire[q])
      BY <2>2, InFirst
    <3>2. (wire[q] \o out[q])[1] = wire[q][1] /\ Len(wire[q] \o out[q]) = Len(wire[q]) + Len(out[q])
      BY <2>1, <3>1, ConcatProperties
    <3> QED
      BY <3>2 DEF InTransit
  <2>4. Len(InTransit(q)) \in Nat \ {0}
    BY <2>2, <2>3, InFirst
  <2>5. InTransit(q)[1] \in Records
    BY <1>1, <2>4, Transit
  <2> QED
    BY <2>2, <2>3, <2>4, <2>5 DEF Record
<1>4. got[p] \in Nat /\ settings[q] \in Settings
  BY <1>1 DEF TypeOK
<1>5. Place(p) \in Nat
  BY <1>4 DEF Place
<1>6. settings[q].mode \in {"mirror", "cable"}
  BY <1>4, TradeAssumption DEF Settings
<1>7. settings[q].mode = "mirror" => Fits(q, InTransit(q)[1], Place(p) + 1)
  BY <1>1, <1>2, <1>3 DEF TradeOf, StreamOf
<1>8. settings[q].mode = "cable" => InTransit(q)[1].kind = "SERIAL"
  BY <1>1, <1>3 DEF TradeOf, CableOf
<1> QED
  BY <1>3, <1>5, <1>6, <1>7, <1>8

\* Nothing changes at a PC.
Idle(q) ==
  /\ sent'[q] = sent[q] /\ phase'[q] = phase[q] /\ flash'[q] = flash[q] /\ out'[q] = out[q]
  /\ shut'[q] = shut[q] /\ why'[q] = why[q] /\ delay'[q] = delay[q] /\ greeted'[q] = greeted[q]

LEMMA IdleKeeps ==
  ASSUME NEW q \in PC, DelayOf(q), OwnOf(q), Idle(q), UNCHANGED settled
  PROVE  DelayOf(q)' /\ OwnOf(q)'
BY DEF DelayOf, OwnOf, Idle, settled

\* A trade reads a record and goes on with the next.
LEMMA ReaderGoesOn ==
  ASSUME TypeOK, NEW p \in PC, TradeOf(Other(p)), NEW kinds, Reads(p, kinds), OwnOf(p),
         settings[Other(p)].mode = "mirror",
         UNCHANGED settled, wire' = Consumed(p), out' = out, phase' = phase, sent' = sent,
         leftover' = leftover, image'[p] = NoImage,
         NEW k, k = Place(p), Place(p)' = k + 1, k + 1 <= 2 + sent[Other(p)],
         IF want'[p] = NoLength THEN got'[p] = 0
         ELSE want'[p] = settings[Other(p)].size /\ got'[p] < want'[p] /\ greeted'[p]
  PROVE  Sender(Other(p))'
<1> DEFINE q == Other(p)
<1>1. q \in PC /\ Other(q) = p /\ settings' = settings /\ snapshot' = snapshot
  BY Both DEF settled
<1>2. phase[p] = "trade" /\ image[p] = NoImage /\ wire[q] # <<>>
  BY DEF Reads
<1>3. wire'[q] = Tail(wire[q]) /\ out'[q] = out[q]
  BY <1>1 DEF Consumed, TypeOK
<1>4. /\ Len(InTransit(q)) \in Nat \ {0} /\ Len(InTransit(q)') = Len(InTransit(q)) - 1
      /\ \A i \in 1 .. Len(InTransit(q)') :
           i + 1 \in 1 .. Len(InTransit(q)) /\ InTransit(q)'[i] = InTransit(q)[i + 1]
  BY <1>1, <1>2, <1>3, TakenOff
<1>5. k \in Nat /\ sent[q] \in Nat
  BY <1>1, NextRead DEF TypeOK
<1>6. /\ \A i \in 1 .. Len(InTransit(q)) : Fits(q, InTransit(q)[i], k + i)
      /\ phase[q] = "trade" => k + Len(InTransit(q)) = 2 + sent[q]
      /\ phase[q] = "session" => k + Len(InTransit(q)) > 2 + sent[q]
      /\ leftover[p] = <<>>
  BY <1>1, <1>2 DEF TradeOf, StreamOf
<1>7. \A r, j : Fits(q, r, j)' <=> Fits(q, r, j)
  BY <1>1 DEF Fits, After
<1>8. PICK t : t = InTransit(q)'
  OBVIOUS
<1>9. ASSUME NEW i \in 1 .. Len(t), NEW j, j = (k + 1) + i PROVE Fits(q, t[i], j)'
  <2>1. Fits(q, t[i], k + (i + 1)) /\ k + (i + 1) = j
    BY <1>4, <1>5, <1>6, <1>8, <1>9
  <2> QED
    BY <1>7, <2>1
<1>10. /\ phase'[q] = "trade" => (k + 1) + Len(t) = 2 + sent'[q]
       /\ phase'[q] = "session" => (k + 1) + Len(t) > 2 + sent'[q]
  BY <1>4, <1>5, <1>6, <1>8
<1>11. StreamOf(q)'
  BY <1>1, <1>6, <1>8, <1>9, <1>10 DEF StreamOf
<1>12. RestOf(q)'
  BY <1>1 DEF RestOf
<1>13. CableOf(q)'
  BY <1>1 DEF CableOf
<1> QED
  BY <1>11, <1>12, <1>13 DEF Sender

\* A PC closes the connection: it reads no more and has said its last word.
LEMMA OverTrade ==
  ASSUME TypeOK, TradeInv, NEW p \in PC, NEW reason, reason # "input_delay",
         NEW w, w[p] = wire[p] \/ (phase[p] = "cable" /\ w[p] = <<>>),
         w[Other(p)] = wire[Other(p)] \/ (wire[Other(p)] # <<>> /\ w[Other(p)] = Tail(wire[Other(p)])),
         w \in [PC -> Seq(Records)],
         NEW last, last = <<>> \/ (last = <<Bye>> /\ phase[p] \in {"trade", "session"}),
         phase[p] # "over", Over(p, reason, w, last)
  PROVE  TradeInv'
<1> DEFINE q == Other(p)
<1>1. q \in PC /\ q # p /\ Other(q) = p /\ PC = {p, q} /\ TradeOf(p) /\ TradeOf(q)
  BY Both DEF TradeInv
<1>2. /\ phase' = [phase EXCEPT ![p] = "over"] /\ why' = [why EXCEPT ![p] = reason]
      /\ shut' = [shut EXCEPT ![p] = TRUE] /\ out' = [out EXCEPT ![p] = <<>>]
      /\ wire' = [w EXCEPT ![p] = @ \o out[p] \o last]
      /\ settings' = settings /\ snapshot' = snapshot /\ delay' = delay /\ sent' = sent /\ want' = want
      /\ got' = got /\ image' = image /\ greeted' = greeted /\ leftover' = leftover /\ flash' = flash
      /\ UNCHANGED settled
  BY DEF Over, HangUp, settled, tradeVars
<1>3. /\ phase'[p] = "over" /\ why'[p] = reason /\ shut'[p] /\ out'[p] = <<>>
      /\ wire'[p] = w[p] \o out[p] \o last
      /\ phase'[q] = phase[q] /\ why'[q] = why[q] /\ shut'[q] = shut[q] /\ out'[q] = out[q] /\ wire'[q] = w[q]
  BY <1>1, <1>2 DEF TypeOK
<1>4. DelayOf(q)' /\ OwnOf(q)'
  BY <1>1, <1>2, <1>3, IdleKeeps DEF Idle, TradeOf
<1>5. DelayOf(p)' /\ OwnOf(p)'
  BY <1>1, <1>2, <1>3 DEF DelayOf, OwnOf, TradeOf
<1>6. Sender(q)'
  <2>1. StreamOf(q)' /\ RestOf(q)'
    BY <1>1, <1>3 DEF StreamOf, RestOf
  <2>2. settings[q].mode = "cable" => \A i \in 1 .. Len(InTransit(q)') : InTransit(q)'[i].kind = "SERIAL"
    <3>1. CASE w[q] = wire[q]
      <4>1. InTransit(q)' = InTransit(q)
        BY <1>3, <3>1 DEF InTransit
      <4> QED
        BY <1>1, <4>1 DEF TradeOf, CableOf
    <3>2. CASE wire[q] # <<>> /\ w[q] = Tail(wire[q])
      <4>1. \A i \in 1 .. Len(InTransit(q)') :
              i + 1 \in 1 .. Len(InTransit(q)) /\ InTransit(q)'[i] = InTransit(q)[i + 1]
        BY <1>1, <1>3, <3>2, TakenOff
      <4> QED
        BY <1>1, <4>1 DEF TradeOf, CableOf
    <3> QED
      BY <3>1, <3>2
  <2>3. CableOf(q)'
    BY <1>1, <1>2, <1>3, <2>2 DEF TradeOf, CableOf
  <2> QED
    BY <2>1, <2>3 DEF Sender
<1>7. Sender(p)'
  <2>0. /\ wire[p] \in Seq(Records) /\ out[p] \in Seq(Records) /\ Bye \in Records /\ <<Bye>> \in Seq(Records)
        /\ InTransit(p) \in Seq(Records) /\ <<>> \in Seq(Records)
    BY Transit, Written
  <2>1. Still(q)
    BY <1>1, <1>2, <1>3 DEF Still
  <2>2. CASE w[p] = wire[p] /\ last = <<>>
    <3>1. InTransit(p)' = InTransit(p)
      <4>1. InTransit(p)' = ((wire[p] \o out[p]) \o <<>>) \o <<>>
        BY <1>3, <2>2 DEF InTransit
      <4> QED
        BY <2>0, <4>1, ConcatEmptySeq DEF InTransit
    <3> QED
      BY <1>1, <1>2, <1>3, <2>1, <3>1, SenderStays
  <2>3. CASE w[p] = wire[p] /\ last = <<Bye>>
    <3>1. InTransit(p)' = Append(InTransit(p), Bye)
      <4>1. InTransit(p)' = (InTransit(p) \o <<Bye>>) \o <<>>
        BY <1>3, <2>3 DEF InTransit
      <4>2. InTransit(p) \o <<Bye>> \in Seq(Records)
        BY <2>0, ConcatProperties
      <4> QED
        BY <2>0, <4>1, <4>2, ConcatEmptySeq, AppendIsConcat
    <3>2. After(p, Bye)
      BY DEF After, Bye
    <3> QED
      BY <1>1, <1>2, <1>3, <2>0, <2>1, <2>3, <3>1, <3>2, SenderAdds
  <2>4. CASE phase[p] = "cable" /\ w[p] = <<>>
    <3>1. settings[p].mode = "cable" /\ last = <<>>
      BY <1>1, <2>4 DEF TradeOf, OwnOf
    <3>2. InTransit(p)' = <<>>
      <4>1. InTransit(p)' = ((<<>> \o <<>>) \o <<>>) \o <<>>
        BY <1>1, <1>3, <2>4, <3>1 DEF InTransit, TradeOf, OwnOf
      <4> QED
        BY <2>0, <4>1, ConcatEmptySeq
    <3>3. \A i \in 1 .. Len(InTransit(p)') : InTransit(p)'[i].kind = "SERIAL"
      BY <3>2
    <3>4. CableOf(p)'
      BY <1>1, <1>2, <1>3, <3>1, <3>2, <3>3 DEF TradeOf, CableOf
    <3>5. StreamOf(p)'
      BY <1>2, <3>1 DEF StreamOf
    <3>6. RestOf(p)'
      BY <1>1, <1>2, <3>1 DEF RestOf, TradeOf, CableOf
    <3> QED
      BY <3>4, <3>5, <3>6 DEF Sender
  <2> QED
    BY <2>2, <2>3, <2>4
<1>8. TradeOf(p)' /\ TradeOf(q)'
  BY <1>4, <1>5, <1>6, <1>7 DEF Sender, TradeOf
<1> QED
  BY <1>1, <1>8 DEF TradeInv

(***************************************************************************)
(* The actions                                                             *)
(***************************************************************************)
LEMMA PumpTrade ==
  ASSUME TypeOK, TradeInv, NEW p \in PC, Pump(p)
  PROVE  TradeInv'
<1> DEFINE q == Other(p)
           cut == MayCut(p, Flushed(p).out)
<1>1. q \in PC /\ q # p /\ Other(q) = p /\ PC = {p, q} /\ TradeOf(p) /\ TradeOf(q)
  BY Both DEF TradeInv
<1>2. /\ phase[p] \in {"trade", "session"} /\ UNCHANGED settled /\ settings' = settings /\ snapshot' = snapshot
      /\ UNCHANGED <<delay, want, got, bad, image, phase, why, greeted, leftover, flash, shut>>
      /\ sent' = [sent EXCEPT ![p] = IF cut THEN @ + 1 ELSE @]
  BY DEF Pump, settled
<1>3. PICK ok \in BOOLEAN :
        LET next == IF cut THEN Post(Append(Flushed(p).out, Chunk(p, ok)), Flushed(p).wire) ELSE Flushed(p)
        IN  out' = [out EXCEPT ![p] = next.out] /\ wire' = [wire EXCEPT ![p] = next.wire]
  BY DEF Pump
<1>4. out[p] \in Seq(Records) /\ wire[p] \in Seq(Records) /\ Chunk(p, ok) \in Records
  BY Transit, Written
<1>5. /\ Flushed(p).out \in Seq(Records) /\ Flushed(p).wire \in Seq(Records)
      /\ Flushed(p).wire \o Flushed(p).out = InTransit(p)
  BY <1>4, Posted DEF Flushed, InTransit
<1>6. /\ out'[q] = out[q] /\ wire'[q] = wire[q] /\ sent'[q] = sent[q]
      /\ sent'[p] = IF cut THEN sent[p] + 1 ELSE sent[p]
  BY <1>1, <1>2, <1>3 DEF TypeOK
<1>7. DelayOf(q)' /\ OwnOf(q)'
  BY <1>1, <1>2, <1>6, IdleKeeps DEF Idle, TradeOf
<1>8. Sender(q)'
  <2>1. InTransit(q)' = InTransit(q) /\ Still(p)
    BY <1>2, <1>6 DEF InTransit, Still
  <2> QED
    BY <1>1, <1>2, <1>6, <2>1, SenderStays
<1>9. DelayOf(p)' /\ OwnOf(p)'
  <2>1. phase'[p] # "over" /\ phase'[p] = phase[p]
    BY <1>2
  <2>2. cut => phase[p] = "trade" /\ sent[p] < settings[p].size
    BY DEF MayCut
  <2>3. sent[p] \in Nat /\ settings[p].size \in Nat
    BY TradeAssumption DEF TypeOK, Settings
  <2>4. sent'[p] <= settings[p].size /\ (phase[p] = "session" => sent'[p] = sent[p])
    BY <1>1, <1>6, <2>2, <2>3 DEF TradeOf, OwnOf
  <2> QED
    BY <1>1, <1>2, <2>1, <2>4 DEF DelayOf, OwnOf, TradeOf
<1>10. Still(q)
  BY <1>2 DEF Still
<1>11. Sender(p)'
  <2>1. CASE cut
    <3>1. out' = [out EXCEPT ![p] = Post(Append(Flushed(p).out, Chunk(p, ok)), Flushed(p).wire).out]
          /\ wire' = [wire EXCEPT ![p] = Post(Append(Flushed(p).out, Chunk(p, ok)), Flushed(p).wire).wire]
      BY <1>3, <2>1
    <3>2. out'[p] = Post(Append(Flushed(p).out, Chunk(p, ok)), Flushed(p).wire).out
          /\ wire'[p] = Post(Append(Flushed(p).out, Chunk(p, ok)), Flushed(p).wire).wire
      BY <3>1 DEF TypeOK
    <3> DEFINE kept == Flushed(p).out
               taken == Flushed(p).wire
               r == Chunk(p, ok)
    <3>3. kept \in Seq(Records) /\ taken \in Seq(Records) /\ r \in Records
          /\ taken \o kept = InTransit(p)
          /\ out'[p] = Post(Append(kept, r), taken).out /\ wire'[p] = Post(Append(kept, r), taken).wire
      BY <1>4, <1>5, <3>2
    <3> HIDE DEF kept, taken, r
    <3>a. Append(kept, r) \in Seq(Records) /\ taken \o Append(kept, r) = Append(taken \o kept, r)
      <4>1. kept \in Seq(Records) /\ taken \in Seq(Records) /\ r \in Records
        BY <3>3
      <4> QED
        BY <4>1, OneMore
    <3>b. Post(Append(kept, r), taken).wire \o Post(Append(kept, r), taken).out = taken \o Append(kept, r)
      BY <3>3, <3>a, Posted
    <3>4. InTransit(p)' = Append(InTransit(p), Chunk(p, ok))
      BY <3>3, <3>a, <3>b, Zenon DEF InTransit, r
    <3>5. phase[p] = "trade" /\ phase'[p] = "trade" /\ sent[p] < settings[p].size
      BY <1>2, <2>1 DEF MayCut
    <3> QED
      BY <1>1, <1>2, <1>6, <1>10, <2>1, <3>4, <3>5, SenderCuts
  <2>2. CASE ~cut
    <3>1. out'[p] = Flushed(p).out /\ wire'[p] = Flushed(p).wire
      BY <1>3, <2>2 DEF TypeOK
    <3>2. InTransit(p)' = InTransit(p)
      BY <1>5, <3>1 DEF InTransit
    <3> QED
      BY <1>1, <1>2, <1>6, <1>10, <2>2, <3>2, SenderStays
  <2> QED
    BY <2>1, <2>2
<1>12. TradeOf(p)' /\ TradeOf(q)'
  BY <1>7, <1>8, <1>9, <1>11 DEF Sender, TradeOf
<1> QED
  BY <1>1, <1>12 DEF TradeInv

\* A trade that is not complete reads a record that does not end it.
LEMMA HelloTrade ==
  ASSUME TypeOK, TradeInv, NEW p \in PC, Reads(p, {"HELLO"}),
         greeted' = [greeted EXCEPT ![p] = TRUE], delay' = [delay EXCEPT ![p] = Adopted(p, Record(p))],
         wire' = Consumed(p),
         UNCHANGED <<settled, sent, want, got, bad, image, phase, why, leftover, flash, out, shut>>
  PROVE  TradeInv'
<1> DEFINE q == Other(p)
           r == Record(p)
<1>1. q \in PC /\ q # p /\ Other(q) = p /\ PC = {p, q} /\ TradeOf(p) /\ TradeOf(q)
  BY Both DEF TradeInv
<1>2. /\ phase[p] = "trade" /\ image[p] = NoImage /\ wire[q] # <<>> /\ r.kind = "HELLO"
      /\ settings' = settings /\ snapshot' = snapshot /\ UNCHANGED settled
  BY DEF Reads, settled
<1>3. /\ settings[q].mode = "cable" => r.kind = "SERIAL"
      /\ settings[q].mode = "mirror" => Fits(q, r, Place(p) + 1)
      /\ settings[q].mode \in {"mirror", "cable"} /\ Place(p) \in Nat
  BY <1>1, NextRead DEF TradeOf
<1>4. settings[q].mode = "mirror"
  BY <1>2, <1>3
<1>5. /\ sent[q] \in Nat /\ got[p] \in Nat /\ settings[q].size \in Nat /\ sent[q] <= settings[q].size
      /\ Place(p) <= 2 + sent[q]
      /\ IF want[p] = NoLength THEN got[p] = 0 ELSE want[p] = settings[q].size /\ got[p] < want[p] /\ greeted[p]
  BY <1>1, <1>2, <1>4, TradeAssumption DEF TypeOK, Settings, TradeOf, OwnOf, StreamOf
<1>6. Place(p) = 0 /\ r.delay = settings[q].delay /\ want[p] = NoLength
  <2>1. CASE Place(p) + 1 = 1
    BY <1>2, <1>3, <1>4, <1>5, <2>1 DEF Place, Fits
  <2>2. CASE Place(p) + 1 # 1
    <3>1. Place(p) + 1 > 2 + sent[q] /\ sent[q] = settings[q].size
      BY <1>2, <1>3, <1>4, <2>2 DEF Fits, After
    <3>2. CASE want[p] = NoLength
      BY <1>5, <3>1, <3>2 DEF Place
    <3>3. CASE want[p] # NoLength
      BY <1>5, <3>1, <3>3 DEF Place
    <3> QED
      BY <3>2, <3>3
  <2> QED
    BY <2>1, <2>2
<1>7. greeted'[p] = TRUE /\ greeted'[q] = greeted[q] /\ delay'[q] = delay[q] /\ delay'[p] = Adopted(p, r)
  BY <1>1 DEF TypeOK
<1>8. delay'[p] = HostDelay
  <2>1. CASE p = Host
    BY <1>1, <1>7, <2>1 DEF Adopted, TradeOf, DelayOf
  <2>2. CASE p # Host
    <3>1. q = Host
      BY <2>2 DEF Other, PC
    <3> QED
      BY <1>1, <1>6, <1>7, <2>2, <3>1 DEF Adopted, TradeOf, DelayOf
  <2> QED
    BY <2>1, <2>2
<1>9. DelayOf(p)' /\ OwnOf(p)'
  BY <1>1, <1>2, <1>8 DEF DelayOf, OwnOf, TradeOf
<1>10. DelayOf(q)' /\ OwnOf(q)'
  BY <1>1, <1>7, IdleKeeps DEF Idle, TradeOf
<1>11. Sender(p)'
  <2>1. wire'[p] = wire[p]
    BY <1>1 DEF Consumed, TypeOK
  <2>2. InTransit(p)' = InTransit(p) /\ Still(q)
    BY <1>7, <2>1 DEF InTransit, Still
  <2> QED
    BY <1>1, <1>2, <2>2, SenderStays
<1>12. Sender(q)'
  <2>1. Place(p)' = 0 + 1
    BY <1>6, <1>7 DEF Place
  <2>2. 0 + 1 <= 2 + sent[q]
    BY <1>5
  <2> QED
    BY <1>1, <1>2, <1>4, <1>5, <1>6, <2>1, <2>2, ReaderGoesOn DEF TradeOf
<1>13. TradeOf(p)' /\ TradeOf(q)'
  BY <1>9, <1>10, <1>11, <1>12 DEF Sender, TradeOf
<1> QED
  BY <1>1, <1>13 DEF TradeInv

LEMMA CartTrade ==
  ASSUME TypeOK, TradeInv, NEW p \in PC, ReadCart(p)
  PROVE  TradeInv'
<1> DEFINE q == Other(p)
           r == Record(p)
<1>1. q \in PC /\ q # p /\ Other(q) = p /\ PC = {p, q} /\ TradeOf(p) /\ TradeOf(q)
  BY Both DEF TradeInv
<1>2. /\ phase[p] = "trade" /\ image[p] = NoImage /\ wire[q] # <<>> /\ r.kind = "CART" /\ Reads(p, {"CART"})
      /\ settings' = settings /\ snapshot' = snapshot /\ UNCHANGED settled
      /\ want' = [want EXCEPT ![p] = r.size] /\ wire' = Consumed(p)
      /\ UNCHANGED <<settled, delay, sent, got, bad, image, phase, why, greeted, leftover, flash, out, shut>>
  BY DEF ReadCart, Reads, settled
<1>3. /\ settings[q].mode = "cable" => r.kind = "SERIAL"
      /\ settings[q].mode = "mirror" => Fits(q, r, Place(p) + 1)
      /\ settings[q].mode \in {"mirror", "cable"} /\ Place(p) \in Nat
  BY <1>1, <1>2, NextRead DEF TradeOf
<1>4. settings[q].mode = "mirror"
  BY <1>2, <1>3
<1>5. /\ sent[q] \in Nat /\ got[p] \in Nat /\ settings[q].size \in Nat \ {0}
      /\ IF want[p] = NoLength THEN got[p] = 0 ELSE want[p] = settings[q].size /\ got[p] < want[p] /\ greeted[p]
  BY <1>1, <1>2, <1>4, TradeAssumption DEF TypeOK, Settings, TradeOf, StreamOf
<1>6. Place(p) = 1 /\ r.size = settings[q].size
  BY <1>2, <1>3, <1>4, <1>5 DEF Fits, After
<1>7. want[p] = NoLength /\ greeted[p] /\ got[p] = 0
  BY <1>5, <1>6 DEF Place
<1>8. want'[p] = settings[q].size /\ want'[q] = want[q] /\ want'[p] # NoLength
  BY <1>1, <1>2, <1>5, <1>6 DEF TypeOK, NoLength
<1>9. DelayOf(p)' /\ OwnOf(p)'
  BY <1>1, <1>2, IdleKeeps DEF Idle, TradeOf
<1>10. DelayOf(q)' /\ OwnOf(q)'
  BY <1>1, <1>2, IdleKeeps DEF Idle, TradeOf
<1>11. Sender(p)'
  <2>1. wire'[p] = wire[p]
    BY <1>1, <1>2 DEF Consumed, TypeOK
  <2>2. InTransit(p)' = InTransit(p) /\ Still(q)
    BY <1>2, <1>8, <2>1 DEF InTransit, Still
  <2> QED
    BY <1>1, <1>2, <2>2, SenderStays
<1>12. Sender(q)'
  <2>1. Place(p)' = 1 + 1
    BY <1>2, <1>7, <1>8 DEF Place
  <2>2. 1 + 1 <= 2 + sent[q]
    BY <1>5
  <2>3. want'[p] = settings[q].size /\ got'[p] < want'[p] /\ greeted'[p]
    BY <1>2, <1>5, <1>7, <1>8
  <2> QED
    BY <1>1, <1>2, <1>4, <1>6, <1>8, <2>1, <2>2, <2>3, ReaderGoesOn DEF TradeOf
<1>13. TradeOf(p)' /\ TradeOf(q)'
  BY <1>9, <1>10, <1>11, <1>12 DEF Sender, TradeOf
<1> QED
  BY <1>1, <1>13 DEF TradeInv

LEMMA ChunkTrade ==
  ASSUME TypeOK, TradeInv, NEW p \in PC, Reads(p, {"CHUNK"}),
         got' = [got EXCEPT ![p] = @ + 1],
         image' = [image EXCEPT ![p] = IF Whole(p) THEN Record(p).of ELSE @],
         wire' = Consumed(p),
         UNCHANGED <<settled, delay, sent, want, phase, why, greeted, leftover, flash, out, shut>>
  PROVE  TradeInv'
<1> DEFINE q == Other(p)
           r == Record(p)
<1>1. q \in PC /\ q # p /\ Other(q) = p /\ PC = {p, q} /\ TradeOf(p) /\ TradeOf(q)
  BY Both DEF TradeInv
<1>2. /\ phase[p] = "trade" /\ image[p] = NoImage /\ wire[q] # <<>> /\ r.kind = "CHUNK"
      /\ settings' = settings /\ snapshot' = snapshot /\ UNCHANGED settled
  BY DEF Reads, settled
<1>3. /\ settings[q].mode = "cable" => r.kind = "SERIAL"
      /\ settings[q].mode = "mirror" => Fits(q, r, Place(p) + 1)
      /\ settings[q].mode \in {"mirror", "cable"} /\ Place(p) \in Nat
  BY <1>1, NextRead DEF TradeOf
<1>4. settings[q].mode = "mirror"
  BY <1>2, <1>3
<1>5. /\ sent[q] \in Nat /\ got[p] \in Nat /\ settings[q].size \in Nat /\ sent[q] <= settings[q].size
      /\ IF want[p] = NoLength THEN got[p] = 0 ELSE want[p] = settings[q].size /\ got[p] < want[p] /\ greeted[p]
      /\ leftover[p] = <<>>
  BY <1>1, <1>2, <1>4, TradeAssumption DEF TypeOK, Settings, TradeOf, OwnOf, StreamOf
<1>6. Place(p) + 1 \in 3 .. 2 + sent[q] /\ r.of = snapshot[q]
  BY <1>2, <1>3, <1>4, <1>5 DEF Fits, After
<1>7. want[p] # NoLength /\ Place(p) = 2 + got[p] /\ got[p] + 1 <= sent[q]
  BY <1>5, <1>6 DEF Place
<1>8. got'[p] = got[p] + 1 /\ got'[q] = got[q] /\ image'[q] = image[q]
      /\ image'[p] = IF Whole(p) THEN r.of ELSE NoImage
  BY <1>1, <1>2 DEF TypeOK
<1>9. DelayOf(p)' /\ OwnOf(p)'
  BY <1>1, <1>2, IdleKeeps DEF Idle, TradeOf
<1>10. DelayOf(q)' /\ OwnOf(q)'
  BY <1>1, <1>2, IdleKeeps DEF Idle, TradeOf
<1>11. Sender(p)'
  <2>1. wire'[p] = wire[p]
    BY <1>1, <1>2 DEF Consumed, TypeOK
  <2>2. InTransit(p)' = InTransit(p) /\ Still(q)
    BY <1>8, <2>1 DEF InTransit, Still
  <2> QED
    BY <1>1, <1>2, <2>2, SenderStays
<1>12. Place(p)' = Place(p) + 1
  BY <1>5, <1>7, <1>8 DEF Place
<1>13. CASE ~Whole(p)
  <2>1. got'[p] < want'[p] /\ greeted'[p] /\ want'[p] = settings[q].size
    BY <1>5, <1>7, <1>8, <1>13 DEF Whole
  <2>2. PICK k \in Nat : k = Place(p) /\ Place(p)' = k + 1 /\ k + 1 <= 2 + sent[q]
    BY <1>3, <1>5, <1>6, <1>12
  <2>3. image'[p] = NoImage /\ want'[p] # NoLength
    BY <1>7, <1>8, <1>13
  <2>4. Sender(q)'
    BY <1>1, <1>2, <1>4, <2>1, <2>2, <2>3, ReaderGoesOn DEF TradeOf
  <2>5. TradeOf(p)' /\ TradeOf(q)'
    BY <1>9, <1>10, <1>11, <2>4 DEF Sender, TradeOf
  <2> QED
    BY <1>1, <2>5 DEF TradeInv
<1>14. CASE Whole(p)
  <2>1. sent[q] = settings[q].size /\ got[p] + 1 = sent[q]
    BY <1>5, <1>7, <1>14 DEF Whole
  <2>2. image'[p] = snapshot[q] /\ image'[p] # NoImage
    <3>1. snapshot[q] \in Versions
      BY <1>1 DEF TypeOK
    <3> QED
      BY <1>6, <1>8, <1>14, <3>1, TradeAssumption DEF Versions, NoImage
  <2>3. wire'[q] = Tail(wire[q]) /\ out'[q] = out[q]
    BY <1>1, <1>2 DEF Consumed, TypeOK
  <2>4. /\ Len(InTransit(q)) \in Nat \ {0} /\ Len(InTransit(q)') = Len(InTransit(q)) - 1
        /\ \A i \in 1 .. Len(InTransit(q)') :
             i + 1 \in 1 .. Len(InTransit(q)) /\ InTransit(q)'[i] = InTransit(q)[i + 1]
    BY <1>1, <1>2, <2>3, TakenOff
  <2>5. \A i \in 1 .. Len(InTransit(q)) : Fits(q, InTransit(q)[i], Place(p) + i)
    BY <1>1, <1>2, <1>4 DEF TradeOf, StreamOf
  <2>6. \A i \in 1 .. Len(InTransit(q)') : After(q, InTransit(q)'[i])
    <3> SUFFICES ASSUME NEW i \in 1 .. Len(InTransit(q)') PROVE After(q, InTransit(q)'[i])
      OBVIOUS
    <3>1. Fits(q, InTransit(q)'[i], Place(p) + (i + 1)) /\ i \in Nat \ {0}
      BY <2>4, <2>5
    <3>2. Place(p) + (i + 1) > 2 + sent[q]
      BY <1>3, <1>5, <1>7, <2>1, <3>1
    <3> QED
      BY <1>3, <1>5, <3>1, <3>2 DEF Fits
  <2>7. \A e : After(q, e)' <=> After(q, e)
    BY <1>2 DEF After
  <2>8. RestOf(q)'
    BY <1>1, <1>2, <1>4, <1>5, <2>1, <2>2, <2>6, <2>7 DEF RestOf
  <2>9. StreamOf(q)' /\ CableOf(q)'
    BY <1>1, <1>2, <1>4, <2>2 DEF StreamOf, CableOf
  <2>10. TradeOf(p)' /\ TradeOf(q)'
    BY <1>9, <1>10, <1>11, <2>8, <2>9 DEF Sender, TradeOf
  <2> QED
    BY <1>1, <2>10 DEF TradeInv
<1> QED
  BY <1>13, <1>14

\* The first record of what was sent is read, and it is one of those that follow the trade.
LEMMA FirstRest ==
  ASSUME TypeOK, NEW p \in PC, TradeOf(Other(p)), phase[p] \in {"trade", "session"},
         image[p] # NoImage, wire[Other(p)] # <<>>
  PROVE  After(Other(p), Record(p)) /\ Record(p) \in Records
<1> DEFINE q == Other(p)
<1>1. q \in PC /\ Other(q) = p
  BY Both
<1>2. wire[q] \in Seq(Records) /\ out[q] \in Seq(Records)
  BY <1>1, Transit
<1>3. Len(wire[q]) \in Nat \ {0} /\ Head(wire[q]) = wire[q][1] /\ Len(out[q]) \in Nat
      /\ Head(wire[q]) \in Records
  BY <1>2
<1>4. 1 \in 1 .. Len(wire[q]) + Len(out[q]) /\ 1 <= Len(wire[q])
  BY <1>3, InFirst
<1>5. (wire[q] \o out[q])[1] = wire[q][1] /\ Len(wire[q] \o out[q]) = Len(wire[q]) + Len(out[q])
  BY <1>2, <1>4, ConcatProperties
<1>6. InTransit(q)[1] = wire[q][1] /\ 1 \in 1 .. Len(InTransit(q))
  BY <1>4, <1>5 DEF InTransit
<1>7. \A i \in 1 .. Len(InTransit(q)) : After(q, InTransit(q)[i])
  BY <1>1 DEF TradeOf, RestOf
<1> QED
  BY <1>3, <1>6, <1>7 DEF Record

\* The reader of what follows a trade goes on.
LEMMA RestGoesOn ==
  ASSUME NEW q \in PC, TradeOf(q), Other(q) \in PC,
         phase[Other(q)] \in {"trade", "session"}, image[Other(q)] # NoImage,
         UNCHANGED settled, UNCHANGED <<sent, image>>,
         phase'[Other(q)] \in {"trade", "session"},
         \A i \in 1 .. Len(InTransit(q)') : After(q, InTransit(q)'[i]),
         \A i \in 1 .. Len(leftover'[Other(q)]) : After(q, leftover'[Other(q)][i])
  PROVE  Sender(q)'
<1>1. settings' = settings /\ snapshot' = snapshot /\ sent' = sent /\ image' = image
  BY DEF settled
<1>2. \A e : After(q, e)' <=> After(q, e)
  BY <1>1 DEF After
<1>3. /\ settings[q].mode = "mirror" /\ sent[q] = settings[q].size
      /\ image[Other(q)] = snapshot[q]
  BY DEF TradeOf, RestOf
<1>4. StreamOf(q)'
  BY <1>1 DEF StreamOf
<1>5. RestOf(q)'
  BY <1>1, <1>2, <1>3 DEF RestOf
<1>6. CableOf(q)'
  BY <1>1, <1>3 DEF CableOf
<1> QED
  BY <1>4, <1>5, <1>6 DEF Sender

\* A trade whose image is complete reads on, a session reads the pipe.
LEMMA RestRead ==
  ASSUME TypeOK, TradeInv, NEW p \in PC, phase[p] \in {"trade", "session"}, image[p] # NoImage,
         wire[Other(p)] # <<>>, wire' = Consumed(p),
         UNCHANGED settled, UNCHANGED <<delay, sent, want, image, phase, why, flash, out, shut>>,
         greeted'[Other(p)] = greeted[Other(p)], leftover'[Other(p)] = leftover[Other(p)], got' = got,
         leftover'[p] \in {leftover[p], Append(leftover[p], Record(p))},
         phase[p] = "trade" => greeted'[p] = greeted[p]
  PROVE  TradeInv'
<1> DEFINE q == Other(p)
<1>1. q \in PC /\ q # p /\ Other(q) = p /\ PC = {p, q} /\ TradeOf(p) /\ TradeOf(q)
  BY Both DEF TradeInv
<1>2. wire'[q] = Tail(wire[q]) /\ out'[q] = out[q] /\ wire'[p] = wire[p] /\ settings' = settings /\ snapshot' = snapshot
  BY <1>1 DEF Consumed, TypeOK, settled
<1>3. \A i \in 1 .. Len(InTransit(q)') :
        i + 1 \in 1 .. Len(InTransit(q)) /\ InTransit(q)'[i] = InTransit(q)[i + 1]
  BY <1>1, <1>2, TakenOff
<1>4. /\ \A i \in 1 .. Len(InTransit(q)) : After(q, InTransit(q)[i])
      /\ \A i \in 1 .. Len(leftover[p]) : After(q, leftover[p][i])
  BY <1>1 DEF TradeOf, RestOf
<1>5. \A i \in 1 .. Len(leftover'[p]) : After(q, leftover'[p][i])
  <2>1. CASE leftover'[p] = leftover[p]
    BY <1>4, <2>1
  <2>2. CASE leftover'[p] = Append(leftover[p], Record(p))
    <3>1. After(q, Record(p)) /\ Record(p) \in Records
      BY <1>1, FirstRest
    <3>2. leftover[p] \in Seq(Records)
      BY DEF TypeOK
    <3> DEFINE s == leftover[p]
               r == Record(p)
    <3>3. s \in Seq(Records) /\ r \in Records /\ After(q, r) /\ \A i \in 1 .. Len(s) : After(q, s[i])
      BY <1>4, <3>1, <3>2
    <3> HIDE DEF s, r
    <3>4. \A i \in 1 .. Len(Append(s, r)) : After(q, Append(s, r)[i])
      BY <3>3
    <3> QED
      BY <2>2, <3>4 DEF s, r
  <2> QED
    BY <2>1, <2>2
<1>6. Sender(q)'
  BY <1>1, <1>3, <1>4, <1>5, RestGoesOn
<1>7. Sender(p)'
  <2>1. InTransit(p)' = InTransit(p) /\ Still(q)
    BY <1>2 DEF InTransit, Still
  <2> QED
    BY <1>1, <2>1, SenderStays
<1>8. DelayOf(q)' /\ OwnOf(q)'
  BY <1>1, IdleKeeps DEF Idle, TradeOf
<1>9. DelayOf(p)' /\ OwnOf(p)'
  BY <1>1, <1>2 DEF DelayOf, OwnOf, TradeOf
<1>10. TradeOf(p)' /\ TradeOf(q)'
  BY <1>6, <1>7, <1>8, <1>9 DEF Sender, TradeOf
<1> QED
  BY <1>1, <1>10 DEF TradeInv

LEMMA KeepRestTrade ==
  ASSUME TypeOK, TradeInv, NEW p \in PC, KeepRest(p)
  PROVE  TradeInv'
<1>1. Other(p) # p /\ leftover \in [PC -> Seq(Records)] /\ Other(p) \in PC
  BY Both DEF TypeOK
<1>2. leftover'[p] = Append(leftover[p], Record(p)) /\ leftover'[Other(p)] = leftover[Other(p)]
  BY <1>1 DEF KeepRest
<1> QED
  BY <1>2, RestRead DEF KeepRest, tradeVars

\* A record that ends the trade.
LEMMA RefusedTrade ==
  ASSUME TypeOK, TradeInv, NEW p \in PC, phase[p] \in {"trade", "session"}, wire[Other(p)] # <<>>,
         NEW reason, reason # "input_delay", NEW last \in {<<>>, <<Bye>>},
         Over(p, reason, Consumed(p), last)
  PROVE  TradeInv'
<1>1. Other(p) # p /\ Other(p) \in PC /\ wire \in [PC -> Seq(Records)]
  BY Both DEF TypeOK
<1>2. Consumed(p) \in [PC -> Seq(Records)]
  BY ReadTypes
<1>3. Consumed(p)[p] = wire[p] /\ Consumed(p)[Other(p)] = Tail(wire[Other(p)])
  BY <1>1 DEF Consumed
<1> DEFINE w == Consumed(p)
<1> HIDE DEF w
<1>4. w \in [PC -> Seq(Records)] /\ w[p] = wire[p] /\ w[Other(p)] = Tail(wire[Other(p)]) /\ Over(p, reason, w, last)
  BY <1>2, <1>3 DEF w
<1> QED
  BY <1>4, OverTrade

LEMMA ReadingTrade ==
  ASSUME TypeOK, TradeInv, NEW p \in PC
  PROVE  ReadHello(p) \/ ReadBye(p) \/ ReadChunk(p) \/ ReadStranger(p) => TradeInv'
<1>1. ASSUME ReadHello(p) PROVE TradeInv'
  <2>1. Reads(p, {"HELLO"}) /\ phase[p] = "trade" /\ wire[Other(p)] # <<>>
    BY <1>1 DEF ReadHello, Reads
  <2>2. Verdict(p, Record(p)) # "input_delay"
    BY <2>1 DEF Verdict
  <2>3. CASE Over(p, Verdict(p, Record(p)), Consumed(p), <<Bye>>)
    BY <2>1, <2>2, <2>3, RefusedTrade
  <2>4. CASE /\ greeted' = [greeted EXCEPT ![p] = TRUE]
             /\ delay' = [delay EXCEPT ![p] = Adopted(p, Record(p))]
             /\ wire' = Consumed(p)
             /\ UNCHANGED <<settled, sent, want, got, bad, image, phase, why, leftover, flash, out, shut>>
    BY <2>1, <2>4, HelloTrade
  <2> QED
    BY <1>1, <2>3, <2>4 DEF ReadHello
<1>2. ASSUME ReadBye(p) PROVE TradeInv'
  BY <1>2, RefusedTrade DEF ReadBye, Reads
<1>3. ASSUME ReadChunk(p) PROVE TradeInv'
  <2>1. Reads(p, {"CHUNK"}) /\ phase[p] = "trade" /\ wire[Other(p)] # <<>>
    BY <1>3 DEF ReadChunk, Reads
  <2>2. CASE Over(p, "cartridge_transfer", Consumed(p), <<Bye>>)
    BY <2>1, <2>2, RefusedTrade
  <2>3. CASE /\ got' = [got EXCEPT ![p] = @ + 1]
             /\ image' = [image EXCEPT ![p] = IF Whole(p) THEN Record(p).of ELSE @]
             /\ wire' = Consumed(p)
             /\ UNCHANGED <<settled, delay, sent, want, phase, why, greeted, leftover, flash, out, shut>>
    BY <2>1, <2>3, ChunkTrade
  <2> QED
    BY <1>3, <2>2, <2>3 DEF ReadChunk
<1>4. ASSUME ReadStranger(p) PROVE TradeInv'
  BY <1>4, RefusedTrade DEF ReadStranger, Reads
<1> QED
  BY <1>1, <1>2, <1>3, <1>4

\* The session says hello with the delay that was settled.
LEMMA StartTrade ==
  ASSUME TypeOK, TradeInv, NEW p \in PC, StartSession(p)
  PROVE  TradeInv'
<1> DEFINE q == Other(p)
           r == Hello(p, delay[p], "session")
           next == Post(<<r>>, wire[p])
<1>1. q \in PC /\ q # p /\ Other(q) = p /\ PC = {p, q} /\ TradeOf(p) /\ TradeOf(q)
  BY Both DEF TradeInv
<1>2. /\ phase[p] = "trade" /\ greeted[p] /\ image[p] # NoImage /\ sent[p] >= settings[p].size /\ out[p] = <<>>
      /\ phase' = [phase EXCEPT ![p] = "session"] /\ greeted' = [greeted EXCEPT ![p] = FALSE]
      /\ flash' = [flash EXCEPT ![p] = OwnCart(p)]
      /\ out' = [out EXCEPT ![p] = next.out] /\ wire' = [wire EXCEPT ![p] = next.wire]
      /\ settings' = settings /\ snapshot' = snapshot /\ UNCHANGED settled
      /\ delay' = delay /\ sent' = sent /\ want' = want /\ got' = got /\ image' = image /\ why' = why
      /\ leftover' = leftover /\ shut' = shut
  BY DEF StartSession, Done, settled, tradeVars
<1>3. /\ phase'[p] = "session" /\ flash'[p] = snapshot[p] /\ out'[p] = next.out /\ wire'[p] = next.wire
      /\ phase'[q] = phase[q] /\ flash'[q] = flash[q] /\ out'[q] = out[q] /\ wire'[q] = wire[q]
      /\ greeted'[q] = greeted[q]
  BY <1>1, <1>2 DEF TypeOK, OwnCart
<1>4. sent[p] \in Nat /\ settings[p].size \in Nat /\ sent[p] <= settings[p].size /\ delay[p] = HostDelay
      /\ delay[p] \in Delays
  BY <1>1, <1>2, TradeAssumption DEF TypeOK, Settings, TradeOf, OwnOf, DelayOf
<1>5. sent[p] = settings[p].size
  BY <1>2, <1>4
<1>6. r \in Records /\ After(p, r)
  BY <1>4, <1>5, Written DEF After, Hello
<1>7. InTransit(p)' = Append(InTransit(p), r)
  <2> DEFINE w == wire[p]
             v == <<r>>
  <2>1. w \in Seq(Records) /\ v \in Seq(Records) /\ InTransit(p) = w /\ r \in Records
    <3>1. wire[p] \in Seq(Records) /\ InTransit(p) = wire[p] \o <<>>
      BY <1>2, Transit DEF InTransit
    <3>2. wire[p] \o <<>> = wire[p]
      BY <3>1, ConcatEmptySeq
    <3>3. <<r>> \in Seq(Records)
      BY <1>6
    <3> QED
      BY <1>6, <3>1, <3>2, <3>3
  <2>2. InTransit(p)' = Post(v, w).wire \o Post(v, w).out
    BY <1>3 DEF InTransit
  <2> HIDE DEF w, r
  <2>3. v \in Seq(Records) /\ Append(w, r) = w \o v
    BY <2>1, AppendIsConcat
  <2> HIDE DEF v
  <2>4. Post(v, w).wire \o Post(v, w).out = w \o v
    BY <2>1, <2>3, Posted
  <2> QED
    BY <2>1, <2>2, <2>3, <2>4, Zenon
<1> HIDE DEF r
<1>8. Sender(p)'
  <2>1. Still(q)
    BY <1>2, <1>3 DEF Still
  <2> QED
    BY <1>1, <1>2, <1>3, <1>6, <1>7, <2>1, SenderAdds
<1>9. Sender(q)'
  <2>1. InTransit(q)' = InTransit(q)
    BY <1>3 DEF InTransit
  <2>2. /\ \A i \in 1 .. Len(InTransit(q)) : After(q, InTransit(q)[i])
        /\ \A i \in 1 .. Len(leftover[p]) : After(q, leftover[p][i])
    BY <1>1, <1>2 DEF TradeOf, RestOf
  <2>3. /\ \A i \in 1 .. Len(InTransit(q)') : After(q, InTransit(q)'[i])
        /\ \A i \in 1 .. Len(leftover'[p]) : After(q, leftover'[p][i])
    BY <1>2, <2>1, <2>2
  <2> QED
    BY <1>1, <1>2, <1>3, <2>3, RestGoesOn
<1>10. DelayOf(q)' /\ OwnOf(q)'
  BY <1>1, <1>2, <1>3, IdleKeeps DEF Idle, TradeOf
<1>11. DelayOf(p)' /\ OwnOf(p)'
  BY <1>1, <1>2, <1>3, <1>4, <1>5 DEF DelayOf, OwnOf, TradeOf
<1>12. TradeOf(p)' /\ TradeOf(q)'
  BY <1>8, <1>9, <1>10, <1>11 DEF Sender, TradeOf
<1> QED
  BY <1>1, <1>12 DEF TradeInv

\* The session reads what the trade kept for it.
LEMMA PrimeTrade ==
  ASSUME TypeOK, TradeInv, NEW p \in PC, phase[p] = "session", leftover[p] # <<>>,
         greeted' = [greeted EXCEPT ![p] = TRUE], leftover' = [leftover EXCEPT ![p] = Tail(@)],
         wire' = wire, UNCHANGED <<settled, tradeVars, phase, why, flash, out, shut>>
  PROVE  TradeInv'
<1> DEFINE q == Other(p)
<1>1. q \in PC /\ q # p /\ Other(q) = p /\ PC = {p, q} /\ TradeOf(p) /\ TradeOf(q)
  BY Both DEF TradeInv
<1>2. /\ image[p] # NoImage /\ UNCHANGED settled /\ settings' = settings /\ snapshot' = snapshot
      /\ delay' = delay /\ sent' = sent /\ want' = want /\ got' = got /\ image' = image
      /\ leftover'[p] = Tail(leftover[p]) /\ leftover'[q] = leftover[q] /\ greeted'[q] = greeted[q]
  BY <1>1 DEF TypeOK, tradeVars, settled
<1>3. InTransit(q)' = InTransit(q) /\ InTransit(p)' = InTransit(p)
  BY DEF InTransit
<1>4. /\ \A i \in 1 .. Len(InTransit(q)) : After(q, InTransit(q)[i])
      /\ \A i \in 1 .. Len(leftover[p]) : After(q, leftover[p][i])
  BY <1>1, <1>2 DEF TradeOf, RestOf
<1>5. \A i \in 1 .. Len(Tail(leftover[p])) : After(q, Tail(leftover[p])[i])
  <2> DEFINE s == leftover[p]
  <2>1. s \in Seq(Records) /\ s # <<>> /\ \A i \in 1 .. Len(s) : After(q, s[i])
    BY <1>4 DEF TypeOK
  <2> HIDE DEF s
  <2>2. Len(s) \in Nat \ {0} /\ Len(Tail(s)) = Len(s) - 1 /\ \A i \in 1 .. Len(Tail(s)) : Tail(s)[i] = s[i + 1]
    BY <2>1, HeadTailProperties
  <2>3. \A i \in 1 .. Len(Tail(s)) : After(q, Tail(s)[i])
    BY <2>1, <2>2
  <2> QED
    BY <2>3 DEF s
<1>6. Sender(q)'
  <2>1. /\ \A i \in 1 .. Len(InTransit(q)') : After(q, InTransit(q)'[i])
        /\ \A i \in 1 .. Len(leftover'[p]) : After(q, leftover'[p][i])
    BY <1>2, <1>3, <1>4, <1>5
  <2> QED
    BY <1>1, <1>2, <2>1, RestGoesOn
<1>7. Sender(p)'
  <2>1. Still(q)
    BY <1>2 DEF Still
  <2> QED
    BY <1>1, <1>2, <1>3, <2>1, SenderStays
<1>8. DelayOf(q)' /\ OwnOf(q)'
  BY <1>1, <1>2, IdleKeeps DEF Idle, TradeOf
<1>9. DelayOf(p)' /\ OwnOf(p)'
  BY <1>1, <1>2 DEF DelayOf, OwnOf, TradeOf
<1>10. TradeOf(p)' /\ TradeOf(q)'
  BY <1>6, <1>7, <1>8, <1>9 DEF Sender, TradeOf
<1> QED
  BY <1>1, <1>10 DEF TradeInv

\* A session is never refused for its delay.
LEMMA NoDelayRefusal ==
  ASSUME NEW p \in PC, TradeOf(p), phase[p] = "session", NEW q, NEW r, After(q, r), r.kind # "BYE"
  PROVE  Verdict(p, r) # "input_delay"
BY DEF Verdict, After, TradeOf, DelayOf

LEMMA ReadSessionTrade ==
  ASSUME TypeOK, TradeInv, NEW p \in PC, ReadSession(p)
  PROVE  TradeInv'
<1> DEFINE q == Other(p)
           primed == leftover[p] # <<>>
           r == IF primed THEN Head(leftover[p]) ELSE Record(p)
           rest == IF primed THEN wire ELSE Consumed(p)
           refusal == IF r.kind = "BYE" THEN "peer_refused" ELSE Verdict(p, r)
           last == IF r.kind = "BYE" THEN <<>> ELSE <<Bye>>
<1>1. q \in PC /\ q # p /\ Other(q) = p /\ PC = {p, q} /\ TradeOf(p) /\ TradeOf(q)
  BY Both DEF TradeInv
<1>2. phase[p] = "session" /\ (primed \/ wire[q] # <<>>) /\ image[p] # NoImage
  BY DEF ReadSession, TypeOK
<1>3. After(q, r)
  <2>1. CASE ~primed
    BY <1>1, <1>2, <2>1, FirstRest
  <2>2. CASE primed
    <3>1. leftover[p] \in Seq(Records) /\ leftover[p] # <<>>
      BY <2>2 DEF TypeOK
    <3>2. Head(leftover[p]) = leftover[p][1] /\ 1 \in 1 .. Len(leftover[p])
      BY <3>1
    <3> QED
      BY <1>1, <1>2, <2>2, <3>2 DEF TradeOf, RestOf
  <2> QED
    BY <2>1, <2>2
<1>4. refusal # "input_delay"
  BY <1>1, <1>2, <1>3, NoDelayRefusal
<1>5. CASE Over(p, refusal, rest, last)
  <2>1. CASE ~primed
    <3>1. Over(p, refusal, Consumed(p), last) /\ last \in {<<>>, <<Bye>>}
      BY <1>5, <2>1
    <3> QED
      BY <1>2, <1>4, <2>1, <3>1, RefusedTrade
  <2>2. CASE primed
    <3>1. Over(p, refusal, wire, last) /\ (last = <<>> \/ last = <<Bye>>)
      BY <1>5, <2>2
    <3>2. wire \in [PC -> Seq(Records)]
      BY DEF TypeOK
    <3> QED
      BY <1>2, <1>4, <3>1, <3>2, OverTrade
  <2> QED
    BY <2>1, <2>2
<1>6. CASE /\ greeted' = [greeted EXCEPT ![p] = TRUE]
           /\ leftover' = [leftover EXCEPT ![p] = IF primed THEN Tail(@) ELSE @]
           /\ wire' = rest
           /\ UNCHANGED <<settled, tradeVars, phase, why, flash, out, shut>>
  <2>1. CASE primed
    BY <1>2, <1>6, <2>1, PrimeTrade
  <2>2. CASE ~primed
    <3>1. /\ wire' = Consumed(p) /\ leftover'[p] = leftover[p] /\ leftover'[q] = leftover[q]
          /\ greeted'[q] = greeted[q]
      BY <1>1, <1>6, <2>2 DEF TypeOK
    <3> QED
      BY <1>2, <1>6, <2>2, <3>1, RestRead DEF tradeVars
  <2> QED
    BY <2>1, <2>2
<1> QED
  BY <1>5, <1>6 DEF ReadSession

\* The other end is gone, has not greeted, or the player leaves.
LEMMA EndTrade ==
  ASSUME TypeOK, TradeInv, NEW p \in PC, NoticeLost(p) \/ NoHello(p) \/ Leave(p)
  PROVE  TradeInv'
<1>1. PICK reason \in {"lost", "no_hello", "left"} : Over(p, reason, wire, <<>>)
  BY DEF NoticeLost, NoHello, Leave
<1>2. phase[p] # "over" /\ wire \in [PC -> Seq(Records)]
  BY DEF NoticeLost, NoHello, Leave, TypeOK
<1> QED
  BY <1>1, <1>2, OverTrade

LEMMA SniffTrade ==
  ASSUME TypeOK, TradeInv, NEW p \in PC, CableSniff(p)
  PROVE  TradeInv'
<1>1. /\ phase[p] = "cable" /\ wire[Other(p)] # <<>> /\ Other(p) # p /\ Other(p) \in PC
      /\ wire \in [PC -> Seq(Records)]
  BY Both DEF CableSniff, TypeOK
<1>2. PICK w \in {Consumed(p), [Consumed(p) EXCEPT ![p] = <<>>]} : Over(p, "peer_mirror_mode", w, <<>>)
  BY DEF CableSniff
<1>3. Consumed(p) \in [PC -> Seq(Records)] /\ w \in [PC -> Seq(Records)]
  <2>1. Consumed(p) \in [PC -> Seq(Records)]
    BY <1>1, ReadTypes
  <2> DEFINE c == Consumed(p)
  <2> HIDE DEF c
  <2>2. c \in [PC -> Seq(Records)] /\ <<>> \in Seq(Records)
    BY <2>1 DEF c
  <2>3. [c EXCEPT ![p] = <<>>] \in [PC -> Seq(Records)]
    BY <2>2
  <2> QED
    BY <1>2, <2>1, <2>3 DEF c
<1>4. w[Other(p)] = Tail(wire[Other(p)]) /\ (w[p] = wire[p] \/ w[p] = <<>>)
  BY <1>1 DEF Consumed
<1> QED
  BY <1>1, <1>2, <1>3, <1>4, OverTrade

\* The game on the page saves.
LEMMA SaveTrade ==
  ASSUME TypeOK, TradeInv, NEW p \in PC, GameSaves(p)
  PROVE  TradeInv'
<1> DEFINE q == Other(p)
<1>1. q \in PC /\ q # p /\ Other(q) = p /\ PC = {p, q} /\ TradeOf(p) /\ TradeOf(q)
  BY Both DEF TradeInv
<1>2. /\ phase[p] = "trade" /\ UNCHANGED settled /\ settings' = settings /\ snapshot' = snapshot
      /\ UNCHANGED <<delay, sent, want, got, image, phase, why, greeted, leftover, out, wire, shut>>
      /\ flash'[q] = flash[q]
  BY <1>1 DEF GameSaves, settled, tradeVars, TypeOK
<1>3. InTransit(q)' = InTransit(q) /\ InTransit(p)' = InTransit(p) /\ Still(q) /\ Still(p)
  BY <1>2 DEF InTransit, Still
<1>4. Sender(p)' /\ Sender(q)'
  BY <1>1, <1>2, <1>3, SenderStays
<1>5. DelayOf(p)' /\ OwnOf(p)'
  BY <1>1, <1>2 DEF DelayOf, OwnOf, TradeOf
<1>6. DelayOf(q)' /\ OwnOf(q)'
  BY <1>1, <1>2, IdleKeeps DEF Idle, TradeOf
<1>7. TradeOf(p)' /\ TradeOf(q)'
  BY <1>4, <1>5, <1>6 DEF Sender, TradeOf
<1> QED
  BY <1>1, <1>7 DEF TradeInv

\* Every PC as it was, what is on the wires apart.
LEMMA WiresTrade ==
  ASSUME TypeOK, TradeInv, NEW p \in PC, UNCHANGED <<settled, tradeVars, phase, why, greeted, leftover, flash, out, shut>>,
         Sender(p)', InTransit(Other(p))' = InTransit(Other(p))
  PROVE  TradeInv'
<1> DEFINE q == Other(p)
<1>1. q \in PC /\ q # p /\ Other(q) = p /\ PC = {p, q} /\ TradeOf(p) /\ TradeOf(q)
  BY Both DEF TradeInv
<1>2. /\ UNCHANGED settled /\ UNCHANGED <<delay, sent, want, got, image, phase, why, greeted, leftover, flash, out, shut>>
  BY DEF tradeVars
<1>3. Sender(q)'
  <2>1. Still(p)
    BY <1>2 DEF Still
  <2> QED
    BY <1>1, <1>2, <2>1, SenderStays
<1>4. DelayOf(p)' /\ OwnOf(p)' /\ DelayOf(q)' /\ OwnOf(q)'
  BY <1>1, <1>2, IdleKeeps DEF Idle, TradeOf
<1>5. TradeOf(p)' /\ TradeOf(q)'
  BY <1>3, <1>4 DEF Sender, TradeOf
<1> QED
  BY <1>1, <1>5 DEF TradeInv

\* What is sent to a PC that has closed is dropped, and its reset discards what it had sent.
LEMMA LingerTrade ==
  ASSUME TypeOK, TradeInv, NEW p \in PC, Linger(p)
  PROVE  TradeInv'
<1> DEFINE q == Other(p)
<1>1. q \in PC /\ q # p /\ Other(q) = p /\ PC = {p, q} /\ TradeOf(p) /\ TradeOf(q)
  BY Both DEF TradeInv
<1>2. /\ phase[p] = "over" /\ settings' = settings /\ phase' = phase /\ want' = want /\ image' = image /\ out' = out
      /\ UNCHANGED <<settled, tradeVars, phase, why, greeted, leftover, flash, out, shut>>
      /\ wire'[q] = <<>> /\ wire'[p] = wire[p]
  BY <1>1 DEF Linger, TypeOK, TradeOf, OwnOf, settled, tradeVars
<1>3. StreamOf(q)' /\ RestOf(q)'
  BY <1>1, <1>2 DEF StreamOf, RestOf
<1>4. CableOf(q)'
  <2> SUFFICES ASSUME settings[q].mode = "cable" PROVE CableOf(q)'
    BY <1>2 DEF CableOf
  <2>1. phase[q] \in {"cable", "over"} /\ want[p] = NoLength /\ image[p] = NoImage /\ out[q] = <<>>
    BY <1>1 DEF TradeOf, CableOf, OwnOf
  <2>2. InTransit(q)' = <<>>
    BY <1>2, <2>1 DEF InTransit
  <2> QED
    BY <1>1, <1>2, <2>1, <2>2 DEF CableOf
<1>5. Sender(q)' /\ InTransit(p)' = InTransit(p)
  BY <1>2, <1>3, <1>4 DEF Sender, InTransit
<1> QED
  BY <1>1, <1>2, <1>5, WiresTrade

LEMMA ResetTrade ==
  ASSUME TypeOK, TradeInv, NEW p \in PC, Reset(p)
  PROVE  TradeInv'
<1> DEFINE q == Other(p)
<1>1. q \in PC /\ q # p /\ Other(q) = p /\ PC = {p, q} /\ TradeOf(p) /\ TradeOf(q)
  BY Both DEF TradeInv
<1>2. /\ phase[p] = "over" /\ out[p] = <<>> /\ settings' = settings /\ snapshot' = snapshot /\ phase' = phase
      /\ want' = want /\ image' = image /\ out' = out /\ sent' = sent /\ got' = got /\ greeted' = greeted
      /\ leftover' = leftover
      /\ UNCHANGED <<settled, tradeVars, phase, why, greeted, leftover, flash, out, shut>>
      /\ wire'[p] = <<>> /\ wire'[q] = wire[q]
  BY <1>1 DEF Reset, TypeOK, TradeOf, OwnOf, settled, tradeVars
<1>3. InTransit(p)' = <<>> /\ Len(InTransit(p)') = 0 /\ InTransit(q)' = InTransit(q)
  BY <1>2 DEF InTransit
<1>4. Place(q)' = Place(q) /\ \A e : After(p, e)' <=> After(p, e)
  BY <1>2 DEF Place, After
<1>5. StreamOf(p)'
  BY <1>1, <1>2, <1>3, <1>4 DEF StreamOf, TradeOf
<1>6. RestOf(p)'
  BY <1>1, <1>2, <1>3, <1>4 DEF RestOf, TradeOf
<1>7. CableOf(p)'
  BY <1>1, <1>2, <1>3 DEF CableOf, TradeOf
<1> QED
  BY <1>2, <1>3, <1>5, <1>6, <1>7, WiresTrade DEF Sender

\* A PC in cable mode sends serial bytes, which are no part of a trade.
LEMMA TalkTrade ==
  ASSUME TypeOK, TradeInv, NEW p \in PC, CableTalk(p)
  PROVE  TradeInv'
<1> DEFINE q == Other(p)
<1>1. q \in PC /\ q # p /\ Other(q) = p /\ PC = {p, q} /\ TradeOf(p) /\ TradeOf(q)
  BY Both DEF TradeInv
<1>2. /\ phase[p] = "cable" /\ out[p] = <<>> /\ settings[p].mode = "cable"
      /\ settings' = settings /\ phase' = phase /\ want' = want /\ image' = image /\ out' = out
      /\ UNCHANGED <<settled, tradeVars, phase, why, greeted, leftover, flash, out, shut>>
      /\ wire'[p] = <<Serial>> /\ wire'[q] = wire[q]
  BY <1>1 DEF CableTalk, TypeOK, TradeOf, OwnOf, settled, tradeVars
<1>3. InTransit(p)' = <<Serial>> /\ InTransit(q)' = InTransit(q)
  <2>1. InTransit(p)' = <<Serial>> \o <<>> /\ InTransit(q)' = InTransit(q)
    BY <1>2 DEF InTransit
  <2>2. <<Serial>> \in Seq(Records)
    BY Written
  <2> QED
    BY <2>1, <2>2, ConcatEmptySeq
<1>4. \A i \in 1 .. Len(InTransit(p)') : InTransit(p)'[i].kind = "SERIAL"
  BY <1>3 DEF Serial
<1>5. CableOf(p)'
  BY <1>1, <1>2, <1>4 DEF CableOf, TradeOf
<1>6. StreamOf(p)' /\ RestOf(p)'
  BY <1>1, <1>2 DEF StreamOf, RestOf, CableOf, TradeOf
<1> QED
  BY <1>2, <1>3, <1>5, <1>6, WiresTrade DEF Sender

LEMMA InitTrade == Init => TradeInv
<1> SUFFICES ASSUME Init, NEW p \in PC PROVE TradeOf(p)
  BY DEF TradeInv
<1> DEFINE q == Other(p)
<1>1. TypeOK /\ q \in PC /\ q # p
  BY InitTypes, Both
<1>2. /\ settings[p] \in Settings /\ settings[p].mode \in {"mirror", "cable"} /\ settings[p].size \in Nat
      /\ delay[p] = settings[p].delay
      /\ p = Host => delay[p] = HostDelay /\ settings[p].delay = HostDelay
  BY TradeAssumption DEF Init, Settings
<1>3. /\ want[q] = NoLength /\ got[q] = 0 /\ greeted[q] = FALSE /\ greeted[p] = FALSE /\ image[q] = NoImage
      /\ leftover[q] = <<>> /\ sent[p] = 0 /\ shut[p] = FALSE /\ why[p] = "none"
      /\ phase[p] = (IF settings[p].mode = "mirror" THEN "trade" ELSE "cable")
  BY <1>1 DEF Init
<1>4. Place(q) = 0
  BY <1>3 DEF Place
<1>5. /\ settings[p].mode = "mirror" => InTransit(p) = Opening(p)
      /\ settings[p].mode # "mirror" => InTransit(p) = <<>> /\ out[p] = <<>>
  <2> DEFINE first == IF settings[p].mode = "mirror" THEN Post(Opening(p), <<>>) ELSE [out |-> <<>>, wire |-> <<>>]
  <2>a. out[p] = first.out
    BY DEF Init, Opening
  <2>1. settings[p].mode # "mirror" => out[p] = <<>>
    BY <2>a
  <2> QED
    BY <2>1, InitPipes
<1>6. StreamOf(p)
  <2> SUFFICES ASSUME settings[p].mode = "mirror" PROVE StreamOf(p)
    BY DEF StreamOf
  <2>1. Len(InTransit(p)) = 2 /\ InTransit(p)[1] = Hello(p, delay[p], "trade") /\ InTransit(p)[2] = Cart(p)
    BY <1>5 DEF Opening
  <2>2. Fits(p, Hello(p, delay[p], "trade"), 1) /\ Fits(p, Cart(p), 2)
    <3> DEFINE h == Hello(p, delay[p], "trade")
    <3>1. h.kind = "HELLO" /\ h.delay = settings[p].delay
      BY <1>2 DEF Hello
    <3>2. Cart(p).kind = "CART" /\ Cart(p).size = settings[p].size
      BY DEF Cart
    <3> HIDE DEF h
    <3>3. Fits(p, h, 1)
      BY <3>1 DEF Fits
    <3>4. Fits(p, Cart(p), 2)
      BY <3>2 DEF Fits
    <3> QED
      BY <3>3, <3>4 DEF h
  <2>3. \A i \in 1 .. Len(InTransit(p)) : Fits(p, InTransit(p)[i], Place(q) + i)
    BY <1>4, <2>1, <2>2
  <2> QED
    BY <1>3, <1>4, <2>1, <2>3 DEF StreamOf
<1>7. RestOf(p)
  BY <1>3 DEF RestOf
<1>8. CableOf(p)
  BY <1>3, <1>5 DEF CableOf
<1>9. DelayOf(p) /\ OwnOf(p)
  BY <1>2, <1>3, <1>5 DEF DelayOf, OwnOf
<1> QED
  BY <1>6, <1>7, <1>8, <1>9 DEF TradeOf

LEMMA NextTrade == TypeOK /\ TradeInv /\ [Next]_vars => TradeInv'
<1>1. ASSUME TypeOK, TradeInv, NEW p \in PC,
             \/ Pump(p) \/ Read(p) \/ StartSession(p) \/ NoticeLost(p) \/ NoHello(p)
             \/ GameSaves(p) \/ Leave(p) \/ Linger(p) \/ Reset(p) \/ CableTalk(p)
      PROVE  TradeInv'
  BY <1>1, PumpTrade, ReadingTrade, CartTrade, KeepRestTrade, ReadSessionTrade, SniffTrade, StartTrade,
     EndTrade, SaveTrade, LingerTrade, ResetTrade, TalkTrade DEF Read
<1>2. ASSUME TypeOK, TradeInv, UNCHANGED vars PROVE TradeInv'
  <2> SUFFICES ASSUME NEW p \in PC PROVE TradeOf(p)'
    BY DEF TradeInv
  <2>1. TradeOf(p) /\ Other(p) \in PC
    BY <1>2, Both DEF TradeInv
  <2>2. Still(Other(p)) /\ InTransit(p)' = InTransit(p) /\ Idle(p) /\ UNCHANGED settled /\ sent'[p] = sent[p]
        /\ phase'[p] = phase[p]
    BY <1>2 DEF vars, tradeVars, Still, InTransit, Idle
  <2>3. Sender(p)'
    BY <1>2, <2>1, <2>2, SenderStays
  <2>4. DelayOf(p)' /\ OwnOf(p)'
    BY <2>1, <2>2, IdleKeeps DEF TradeOf
  <2> QED
    BY <2>3, <2>4 DEF Sender, TradeOf
<1> QED
  BY <1>1, <1>2 DEF Next

(***************************************************************************)
(* The theorems                                                            *)
(***************************************************************************)
THEOREM TradeInvariant == Spec => [](TypeOK /\ TradeInv)
<1>1. Init => TypeOK /\ TradeInv
  BY InitTypes, InitTrade
<1>2. (TypeOK /\ TradeInv) /\ [Next]_vars => (TypeOK /\ TradeInv)'
  BY NextTypes, NextTrade
<1> QED
  BY <1>1, <1>2, PTL DEF Spec

\* The console each player plays is the one the other PC mirrors: the image that is laid
\* on it after its reset is the one that was sent (CartExchange.pump, _start_mirror), for
\* any cartridge, whatever the games saved while the images travelled.
THEOREM CartridgesAgree == Spec => []SameCartridges
<1>1. TypeOK /\ TradeInv => SameCartridges
  <2> SUFFICES ASSUME TypeOK, TradeInv, \A p \in PC : phase[p] = "session", NEW p \in PC
               PROVE  image[p] = flash[Other(p)]
    BY DEF SameCartridges
  <2>1. Other(p) \in PC /\ Other(Other(p)) = p /\ image[p] # NoImage
    BY Both DEF TypeOK
  <2> QED
    BY <2>1 DEF TradeInv, TradeOf, RestOf, OwnOf
<1> QED
  BY <1>1, TradeInvariant, PTL

\* The joiner adopts the host's delay (Handshake.check), so that no session is refused for
\* its delay and the two sessions use the same one, for any two delays asked for.
THEOREM OneDelay == Spec => []DelaySettled
<1>1. TypeOK /\ TradeInv => DelaySettled
  BY DEF DelaySettled, TradeInv, TradeOf, OwnOf, DelayOf, PC
<1> QED
  BY <1>1, TradeInvariant, PTL
=============================================================================
