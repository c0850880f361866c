-------------------------- MODULE InterruptsProof --------------------------
(***************************************************************************)
(* Micro-DMA tables keep up with their timers and handlers nest, for every *)
(* program of the timers, every level, any number of channels and any      *)
(* length of a line, of a tick and of an instruction.                      *)
(*                                                                         *)
(* An instruction is a composition of repetitions: lines, timers, matches  *)
(* of a timer, sources of a pass.  What each of them keeps is Follows, a   *)
(* relation between the console before and after which is reflexive and    *)
(* transitive; what a console is between two actions is Sound.             *)
(***************************************************************************)
EXTENDS Interrupts, SequenceTheorems, WellFoundedInduction, TLAPS

(***************************************************************************)
(* What is repeated: a set of naturals that is not empty has a least       *)
(* element, hence what holds at the start and passes from each step to the *)
(* next holds at the end.  Every repetition of the model is one of these.  *)
(***************************************************************************)
\* A set of naturals that is not empty has a least element.
LEMMA Least ==
  ASSUME NEW T \in SUBSET Nat, T # {}
  PROVE  \E x \in T : \A y \in T : ~(y < x)
<1>1. \E x \in T : \A y \in T : ~(<<y, x>> \in OpToRel(<, Nat))
  BY NatLessThanWellFounded, WFMin, Zenon
<1> QED
  BY <1>1 DEF OpToRel

\* What holds at the start of a sequence and passes from each to the next holds at its end.
LEMMA Induct ==
  ASSUME NEW n \in Nat, NEW S, NEW at, at[0] \in S,
         \A i \in 1 .. n : at[i - 1] \in S => at[i] \in S
  PROVE  at[n] \in S
<1> SUFFICES ASSUME at[n] \notin S PROVE FALSE
  OBVIOUS
<1>1. PICK T : T = {i \in 0 .. n : at[i] \notin S}
  OBVIOUS
<1>2. T \in SUBSET Nat /\ n \in T
  BY <1>1
<1>3. PICK x \in T : \A y \in T : ~(y < x)
  BY <1>2, Least
<1>4. x # 0 /\ x \in 1 .. n /\ x - 1 \in 0 .. n
  BY <1>1, <1>3
<1>5. at[x - 1] \in S
  BY <1>1, <1>3, <1>4
<1> QED
  BY <1>1, <1>3, <1>4, <1>5

\* The steps that are repeated: a line, an offer, a timer of a tick, a source of a pass.
Step(kind, p, x, e) ==
  CASE kind = "line" -> NewLine(x)
    [] kind = "offer" -> Offer(x, p)
    [] kind = "tick" -> Tick(e, p, x)
    [] OTHER -> Pass(x, e)

\* at[i] is what i steps have made of k.
Repeats(kind, p, k, seq, n, at) ==
  at = [i \in 0 .. n |-> IF i = 0 THEN k ELSE Step(kind, p, at[i - 1], seq[i])]

\* A repetition goes on as long as its sequence.
LEMMA Goes ==
  ASSUME NEW kind, NEW p, NEW k, NEW seq, NEW n \in Nat
  PROVE  \E at : Repeats(kind, p, k, seq, n, at)
<1> DEFINE Reach == {i \in Nat : \E at : Repeats(kind, p, k, seq, i, at)}
<1>1. 0 \in Reach
  <2>1. Repeats(kind, p, k, seq, 0, [i \in 0 .. 0 |-> k])
    BY DEF Repeats
  <2> QED
    BY <2>1
<1>2. ASSUME NEW i \in Nat, i \in Reach PROVE i + 1 \in Reach
  <2>1. PICK at : Repeats(kind, p, k, seq, i, at)
    BY <1>2
  <2>2. PICK more : more = [j \in 0 .. i + 1 |->
                              IF j = i + 1 THEN Step(kind, p, at[i], seq[j]) ELSE at[j]]
    OBVIOUS
  <2>3. \A j \in 0 .. i + 1 :
           more[j] = IF j = 0 THEN k ELSE Step(kind, p, more[j - 1], seq[j])
    BY <2>1, <2>2 DEF Repeats
  <2>4. Repeats(kind, p, k, seq, i + 1, more)
    BY <2>2, <2>3 DEF Repeats
  <2> QED
    BY <2>4
<1> HIDE DEF Reach
<1>3. PICK at : at = [i \in Nat |-> i]
  OBVIOUS
<1>4. at[n] \in Reach
  <2>1. at[0] \in Reach /\ \A i \in 1 .. n : at[i - 1] \in Reach => at[i] \in Reach
    BY <1>1, <1>2, <1>3
  <2> QED
    BY <2>1, Induct
<1> QED
  BY <1>3, <1>4 DEF Reach

\* Repetitions, by a name.
Lined(k, n) == Times(n, NewLine, k)
Offered(k, s, n) == Times(n, LAMBDA x : Offer(x, s), k)

\* Lines of the raster, one after the other (advance_raster).
LEMMA ThroughLines ==
  ASSUME NEW k, NEW n \in Nat
  PROVE  \E at : /\ at[0] = k /\ Lined(k, n) = at[n]
                 /\ \A i \in 1 .. n : at[i] = NewLine(at[i - 1])
<1>0. PICK seq : seq = [i \in 1 .. n |-> i]
  OBVIOUS
<1>1. Len(seq) = n
  BY <1>0
<1>2. PICK at : at = CHOOSE f : f = [i \in 0 .. n |-> IF i = 0 THEN k ELSE NewLine(f[i - 1])]
  OBVIOUS
<1>3. Lined(k, n) = at[n]
  <2>1. Lined(k, n) = Through(LAMBDA x, i : NewLine(x), k, seq)
    BY <1>0 DEF Times, Lined, Offered
  <2> QED
    BY <1>1, <1>2, <2>1 DEF Through
<1>4. PICK f : Repeats("line", 0, k, <<>>, n, f)
  BY Goes
<1>5. f = [i \in 0 .. n |-> IF i = 0 THEN k ELSE NewLine(f[i - 1])]
  BY <1>4 DEF Repeats, Step
<1>6. at = [i \in 0 .. n |-> IF i = 0 THEN k ELSE NewLine(at[i - 1])]
  BY <1>2, <1>5
<1>7. at[0] = k /\ \A i \in 1 .. n : at[i] = NewLine(at[i - 1])
  BY <1>6
<1> QED
  BY <1>3, <1>7, Zenon

\* Matches of one timer, one after the other (timer_tick).
LEMMA ThroughOffers ==
  ASSUME NEW k, NEW s, NEW n \in Nat
  PROVE  \E at : /\ at[0] = k /\ Offered(k, s, n) = at[n]
                 /\ \A i \in 1 .. n : at[i] = Offer(at[i - 1], s)
<1>0. PICK seq : seq = [i \in 1 .. n |-> i]
  OBVIOUS
<1>1. Len(seq) = n
  BY <1>0
<1>2. PICK at : at = CHOOSE f : f = [i \in 0 .. n |-> IF i = 0 THEN k ELSE Offer(f[i - 1], s)]
  OBVIOUS
<1>3. Offered(k, s, n) = at[n]
  <2>1. Offered(k, s, n) = Through(LAMBDA x, i : Offer(x, s), k, seq)
    BY <1>0 DEF Times, Lined, Offered
  <2> QED
    BY <1>1, <1>2, <2>1 DEF Through
<1>4. PICK f : Repeats("offer", s, k, <<>>, n, f)
  BY Goes
<1>5. f = [i \in 0 .. n |-> IF i = 0 THEN k ELSE Offer(f[i - 1], s)]
  BY <1>4 DEF Repeats, Step
<1>6. at = [i \in 0 .. n |-> IF i = 0 THEN k ELSE Offer(at[i - 1], s)]
  BY <1>2, <1>5
<1>7. at[0] = k /\ \A i \in 1 .. n : at[i] = Offer(at[i - 1], s)
  BY <1>6
<1> QED
  BY <1>3, <1>7, Zenon

\* The micro-DMA looks at the sources one after the other (micro_dma_service).
LEMMA ThroughSources ==
  ASSUME NEW k
  PROVE  \E at : /\ at[0] = k /\ Through(Pass, k, Sources) = at[15]
                 /\ \A i \in 1 .. 15 : at[i] = Pass(at[i - 1], Sources[i])
<1>1. Len(Sources) = 15
  BY DEF Sources
<1> HIDE DEF Sources
<1>2. PICK at :
        at = CHOOSE f : f = [i \in 0 .. 15 |-> IF i = 0 THEN k ELSE Pass(f[i - 1], Sources[i])]
  OBVIOUS
<1>3. Through(Pass, k, Sources) = at[15]
  BY <1>1, <1>2 DEF Through
<1>4. PICK f : Repeats("pass", 0, k, Sources, 15, f)
  BY Goes
<1>5. f = [i \in 0 .. 15 |-> IF i = 0 THEN k ELSE Pass(f[i - 1], Sources[i])]
  BY <1>4, SMTT(30) DEF Repeats, Step
<1>6. at = [i \in 0 .. 15 |-> IF i = 0 THEN k ELSE Pass(at[i - 1], Sources[i])]
  BY <1>2, <1>5, ZenonT(30)
<1> QED
  BY <1>3, <1>6

\* The four timers, one after the other (timer_tick).
LEMMA ThroughTimers ==
  ASSUME NEW k, NEW u
  PROVE  \E at : /\ at[0] = [k |-> [k EXCEPT !.pulses = 0], pulses |-> k.pulses, carry |-> 0]
                 /\ TimerTick(k, u) = at[4].k
                 /\ \A i \in 1 .. 4 : at[i] = Tick(i - 1, u, at[i - 1])
<1>1. PICK start : start = [k |-> [k EXCEPT !.pulses = 0], pulses |-> k.pulses, carry |-> 0]
  OBVIOUS
<1>2. PICK seq : seq = <<0, 1, 2, 3>>
  OBVIOUS
<1>3. PICK at :
        at = CHOOSE f : f = [i \in 0 .. 4 |-> IF i = 0 THEN start ELSE Tick(seq[i], u, f[i - 1])]
  OBVIOUS
<1>4. Len(seq) = 4 /\ \A i \in 1 .. 4 : seq[i] = i - 1
  BY <1>2
<1>5. TimerTick(k, u) = at[4].k
  <2>1. TimerTick(k, u) = Through(LAMBDA a, i : Tick(i, u, a), start, seq).k
    BY <1>1, <1>2 DEF TimerTick
  <2> QED
    BY <1>3, <1>4, <2>1 DEF Through
<1>6. PICK f : Repeats("tick", u, start, seq, 4, f)
  BY Goes
<1>7. f = [i \in 0 .. 4 |-> IF i = 0 THEN start ELSE Tick(seq[i], u, f[i - 1])]
  BY <1>6 DEF Repeats, Step
<1>8. at = [i \in 0 .. 4 |-> IF i = 0 THEN start ELSE Tick(seq[i], u, at[i - 1])]
  BY <1>3, <1>7
<1> QED
  BY <1>1, <1>4, <1>5, <1>8
----------------------------------------------------------------------------
(***************************************************************************)
(* The console, and the channels: a table keeps pace with its matches.     *)
(***************************************************************************)
\* The console, and what a handler that was interrupted left on the stack.
Frame == [iff : 0 .. 7, level : 1 .. 6, by : Source]
Console ==
  [residue : 0 .. LineUnits - 1, line : 0 .. LastLine, pulses : Nat, pending : SUBSET Source,
   cost : Nat, program : Program, level : [Source -> 0 .. 7],
   count : [Timer -> Nat], clock : [Timer -> 0 .. TapUnits - 1],
   half : 0 .. 1, soundInt : BOOLEAN,
   start : [Channel -> Source \cup {Nothing}], left : [Channel -> 0 .. Wrap - 1],
   iff : 0 .. 7, stack : Seq(Frame), halted : BOOLEAN, due : [Channel -> 0 .. Wrap - 1]]

\* One entry less.
Less(n) == (n + Wrap - 1) % Wrap

\* A table keeps pace: what is left of it is what the matches leave, but for one match
\* that waits for the channel to be looked at, which is the only one armed on it.
Even(k) ==
  \A c \in Channel : k.start[c] \in Matched =>
    IF k.start[c] \in k.pending THEN Armed(k, k.start[c]) = {c} /\ k.due[c] = Less(k.left[c])
    ELSE k.left[c] = k.due[c]

\* No channel is armed on a match, unless it does not wait.
Clear(k, s) == s \in k.pending => Armed(k, s) = {}

\* What a piece of an instruction does to the console: what software wrote stands,
\* channels can only run out, no match waits that a channel is armed on, unless it did.
Follows(k, x) ==
  /\ x \in Console
  /\ x.program = k.program /\ x.level = k.level
  /\ x.iff = k.iff /\ x.stack = k.stack /\ x.halted = k.halted
  /\ \A c \in Channel : x.start[c] \in {k.start[c], Nothing}
  /\ \A s \in Matched : s \in x.pending => s \in k.pending \/ Armed(x, s) = {}
  /\ Even(k) => Even(x)

\* The matches are requests like others; the vertical blank is none of them.
LEMMA Matches ==
  /\ Matched \subseteq Source /\ Nothing \notin Source
  /\ "vblank" \notin Matched /\ "vblank" \in Source
<1>1. Matched = {"t0", "t1", "t2", "t3"}
  <2>1. /\ Timer = {0, 1, 2, 3} /\ INTT(0) = "t0" /\ INTT(1) = "t1" /\ INTT(2) = "t2" /\ INTT(3) = "t3"
    BY DEF INTT, Timer
  <2> QED
    BY <2>1 DEF Matched
<1>2. Source = {"int0", "alarm", "int5", "vblank", "t0", "t1", "t2", "t3", "ad", "rx", "tx",
               "tc0", "tc1", "tc2", "tc3"}
  <2>1. DOMAIN Sources = {1, 2, 3, 4, 5, 6, 7, 8, 9, 10, 11, 12, 13, 14, 15}
    BY DEF Sources
  <2>2. /\ Sources[1] = "int0" /\ Sources[2] = "alarm" /\ Sources[3] = "int5" /\ Sources[4] = "vblank"
        /\ Sources[5] = "t0" /\ Sources[6] = "t1" /\ Sources[7] = "t2" /\ Sources[8] = "t3"
        /\ Sources[9] = "ad" /\ Sources[10] = "rx" /\ Sources[11] = "tx" /\ Sources[12] = "tc0"
        /\ Sources[13] = "tc1" /\ Sources[14] = "tc2" /\ Sources[15] = "tc3"
    BY DEF Sources
  <2> QED
    BY <2>1, <2>2 DEF Source, Range
<1> QED
  BY <1>1, <1>2 DEF Nothing

\* The interrupt at the end of a table is no match.
LEMMA EndOfTable ==
  ASSUME NEW c \in Channel
  PROVE  INTTC(c) \in Source /\ INTTC(c) \notin Matched
<1>1. c \in {0, 1, 2, 3}
  BY ChannelAssumption
<1>2. INTTC(c) \in {"tc0", "tc1", "tc2", "tc3"}
  BY <1>1 DEF INTTC
<1>3. Matched = {"t0", "t1", "t2", "t3"}
  <2>1. /\ Timer = {0, 1, 2, 3} /\ INTT(0) = "t0" /\ INTT(1) = "t1" /\ INTT(2) = "t2" /\ INTT(3) = "t3"
    BY DEF INTT, Timer
  <2> QED
    BY <2>1 DEF Matched
<1>4. {"tc0", "tc1", "tc2", "tc3"} \subseteq Source
  <2>1. {12, 13, 14, 15} \subseteq DOMAIN Sources
    BY DEF Sources
  <2>2. Sources[12] = "tc0" /\ Sources[13] = "tc1" /\ Sources[14] = "tc2" /\ Sources[15] = "tc3"
    BY DEF Sources
  <2> QED
    BY <2>1, <2>2 DEF Source, Range
<1> QED
  BY <1>2, <1>3, <1>4

\* DMAC stays within its width.
LEMMA LessTyped == \A n \in 0 .. Wrap - 1 : Less(n) \in 0 .. Wrap - 1
BY UnitAssumption DEF Less

\* What Min stands for, where the set has a least element.
LEMMA LowestIs ==
  ASSUME NEW S, S \subseteq Nat, S # {}
  PROVE  Min(S) \in S /\ \A y \in S : Min(S) =< y
<1>1. PICK x \in S : \A y \in S : ~(y < x)
  BY Least
<1>2. \A y \in S : x =< y
  BY <1>1
<1> QED
  BY <1>2 DEF Min

\* The channel that answers is armed on what it answers.
LEMMA ArmedIs ==
  ASSUME NEW k, NEW s, Armed(k, s) # {}
  PROVE  Min(Armed(k, s)) \in Channel /\ k.start[Min(Armed(k, s))] = s
<1>1. ASSUME NEW c \in Armed(k, s) PROVE c \in Nat
  <2>1. c \in Channel
    BY DEF Armed
  <2>2. Channel \subseteq 0 .. 3
    BY ChannelAssumption, Zenon
  <2> QED
    BY <2>1, <2>2
<1>2. Min(Armed(k, s)) \in Armed(k, s)
  <2>1. PICK S : S = Armed(k, s)
    OBVIOUS
  <2>2. S # {} /\ S \subseteq Nat
    BY <1>1, <2>1
  <2>3. Min(S) \in S
    BY <2>2, LowestIs
  <2> QED
    BY <2>1, <2>3
<1> QED
  BY <1>2 DEF Armed

\* Follows is reflexive ...
LEMMA FollowsItself == ASSUME NEW k \in Console PROVE Follows(k, k)
<1>1. \A c \in Channel : k.start[c] \in {k.start[c], Nothing}
  OBVIOUS
<1> QED
  BY <1>1 DEF Follows

\* ... and transitive, so that pieces of an instruction compose.
LEMMA FollowsOn ==
  ASSUME NEW k, NEW x, NEW y, Follows(k, x), Follows(x, y)
  PROVE  Follows(k, y)
<1>1. \A c \in Channel : y.start[c] \in {k.start[c], Nothing}
  BY DEF Follows
<1>2. ASSUME NEW s \in Matched, s \in y.pending PROVE s \in k.pending \/ Armed(y, s) = {}
  <2>1. s # Nothing
    BY Matches
  <2>2. s \in x.pending \/ Armed(y, s) = {}
    BY <1>2 DEF Follows
  <2>3. s \in x.pending => s \in k.pending \/ Armed(x, s) = {}
    BY DEF Follows
  <2>4. Armed(x, s) = {} => Armed(y, s) = {}
    BY <2>1 DEF Follows, Armed
  <2> QED
    BY <2>2, <2>3, <2>4
<1> QED
  BY <1>1, <1>2 DEF Follows

\* A channel that moves an entry.
LEMMA TransferDoes ==
  ASSUME NEW k \in Console, NEW c \in Channel, NEW x, x = Transfer(k, c)
  PROVE  /\ x \in Console
         /\ x.program = k.program /\ x.level = k.level
         /\ x.iff = k.iff /\ x.stack = k.stack /\ x.halted = k.halted
         /\ x.pulses = k.pulses /\ x.due = k.due
         /\ \A d \in Channel \ {c} : x.start[d] = k.start[d] /\ x.left[d] = k.left[d]
         /\ x.start[c] \in {k.start[c], Nothing} /\ x.left[c] = Less(k.left[c])
         /\ \A s \in Matched : s \in x.pending <=> s \in k.pending
<1>0. /\ k.left \in [Channel -> 0 .. Wrap - 1] /\ k.start \in [Channel -> Source \cup {Nothing}]
      /\ k.pending \subseteq Source /\ k.cost \in Nat
  BY DEF Console
<1>1. PICK l : l = Less(k.left[c])
  OBVIOUS
<1>2. PICK y : y = [k EXCEPT !.left[c] = l, !.cost = @ + 1]
  OBVIOUS
<1>3. l \in 0 .. Wrap - 1 /\ [k.left EXCEPT ![c] = l] \in [Channel -> 0 .. Wrap - 1] /\ k.cost + 1 \in Nat
  BY <1>0, <1>1, LessTyped
<1>4. y \in Console
  BY <1>2, <1>3, ZenonT(30) DEF Console
<1>5. /\ y.program = k.program /\ y.level = k.level
      /\ y.iff = k.iff /\ y.stack = k.stack /\ y.halted = k.halted
      /\ y.pulses = k.pulses /\ y.due = k.due /\ y.start = k.start /\ y.pending = k.pending
      /\ y.left = [k.left EXCEPT ![c] = l]
  BY <1>2 DEF Console
<1>6. x = IF l = 0 THEN [Disarmed(y, c) EXCEPT !.pending = @ \cup {INTTC(c)}] ELSE y
  BY <1>1, <1>2, Zenon DEF Transfer, Less
<1>7. CASE l # 0
  BY <1>0, <1>1, <1>4, <1>5, <1>6, <1>7
<1>8. CASE l = 0
  <2>1. PICK z : z = [y EXCEPT !.start[c] = Nothing, !.pending = @ \cup {INTTC(c)}]
    OBVIOUS
  <2>2. x = z
    BY <1>6, <1>8, <2>1, <1>4 DEF Disarmed, Console
  <2>3. [y.start EXCEPT ![c] = Nothing] \in [Channel -> Source \cup {Nothing}]
    BY <1>0, <1>5
  <2>4. y.pending \cup {INTTC(c)} \in SUBSET Source
    BY <1>0, <1>5, EndOfTable
  <2>5. z \in Console
    BY <1>4, <2>1, <2>3, <2>4, ZenonT(30) DEF Console
  <2>6. /\ z.program = y.program /\ z.level = y.level
        /\ z.iff = y.iff /\ z.stack = y.stack /\ z.halted = y.halted
        /\ z.pulses = y.pulses /\ z.due = y.due /\ z.start = [y.start EXCEPT ![c] = Nothing]
        /\ z.pending = y.pending \cup {INTTC(c)} /\ z.left = y.left
    BY <1>4, <2>1 DEF Console
  <2> QED
    BY <1>0, <1>1, <1>5, <2>2, <2>5, <2>6, EndOfTable
<1> QED
  BY <1>7, <1>8
----------------------------------------------------------------------------
(***************************************************************************)
(* One step of each repetition.                                            *)
(***************************************************************************)
\* A match, offered to the channels.
LEMMA OfferDoes ==
  ASSUME NEW k \in Console, NEW s \in Matched, NEW x, x = Offer(k, s)
  PROVE  Follows(k, x) /\ x.pulses = k.pulses
<1>0. /\ k.left \in [Channel -> 0 .. Wrap - 1] /\ k.start \in [Channel -> Source \cup {Nothing}]
      /\ k.due \in [Channel -> 0 .. Wrap - 1] /\ k.pending \subseteq Source
      /\ s \in Source /\ s # Nothing /\ Nothing \notin Matched
  BY Matches DEF Console
<1>1. CASE Armed(k, s) = {}
  <2>1. x = [k EXCEPT !.pending = @ \cup {s}] /\ k.pending \cup {s} \in SUBSET Source
    BY <1>0, <1>1 DEF Offer
  <2>2. x \in Console
    BY <2>1, ZenonT(30) DEF Console
  <2>3. /\ x.program = k.program /\ x.level = k.level /\ x.iff = k.iff /\ x.stack = k.stack
        /\ x.halted = k.halted /\ x.pulses = k.pulses /\ x.due = k.due /\ x.start = k.start
        /\ x.left = k.left /\ x.pending = k.pending \cup {s}
    BY <2>1 DEF Console
  <2>4. \A t : Armed(x, t) = Armed(k, t)
    BY <2>3 DEF Armed
  <2>5. \A c \in Channel : k.start[c] # s
    BY <1>1 DEF Armed
  <2>6. Even(k) => Even(x)
    BY <2>3, <2>4, <2>5 DEF Even
  <2> QED
    BY <1>1, <2>2, <2>3, <2>4, <2>6 DEF Follows
<1>2. CASE Armed(k, s) # {}
  <2>1. PICK c \in Channel : c = Min(Armed(k, s)) /\ k.start[c] = s
    BY <1>2, ArmedIs
  <2>2. PICK y : y = [k EXCEPT !.due[c] = Less(@)]
    OBVIOUS
  <2>3. y = Asked(k, s)
    BY <1>2, <2>1, <2>2, Zenon DEF Asked, Less
  <2>4. x = Transfer(y, c)
    BY <1>2, <2>1, <2>3, Zenon DEF Offer
  <2>5. y \in Console
    <3>1. [k.due EXCEPT ![c] = Less(k.due[c])] \in [Channel -> 0 .. Wrap - 1]
      BY <1>0, LessTyped
    <3> QED
      BY <2>2, <3>1, ZenonT(30) DEF Console
  <2>6. /\ y.program = k.program /\ y.level = k.level /\ y.iff = k.iff /\ y.stack = k.stack
        /\ y.halted = k.halted /\ y.pulses = k.pulses /\ y.start = k.start
        /\ y.left = k.left /\ y.pending = k.pending
        /\ y.due[c] = Less(k.due[c]) /\ \A d \in Channel \ {c} : y.due[d] = k.due[d]
    BY <1>0, <2>2 DEF Console
  <2>7. /\ x \in Console
        /\ x.program = y.program /\ x.level = y.level
        /\ x.iff = y.iff /\ x.stack = y.stack /\ x.halted = y.halted
        /\ x.pulses = y.pulses /\ x.due = y.due
        /\ \A d \in Channel \ {c} : x.start[d] = y.start[d] /\ x.left[d] = y.left[d]
        /\ x.start[c] \in {y.start[c], Nothing} /\ x.left[c] = Less(y.left[c])
        /\ \A t \in Matched : t \in x.pending <=> t \in y.pending
    BY <2>4, <2>5, TransferDoes
  <2>8. ASSUME Even(k), NEW d \in Channel, x.start[d] \in Matched
        PROVE  IF x.start[d] \in x.pending
               THEN Armed(x, x.start[d]) = {d} /\ x.due[d] = Less(x.left[d])
               ELSE x.left[d] = x.due[d]
    <3>1. x.start[d] = k.start[d]
      BY <1>0, <2>6, <2>7, <2>8
    <3>2. IF k.start[d] \in k.pending THEN Armed(k, k.start[d]) = {d} /\ k.due[d] = Less(k.left[d])
          ELSE k.left[d] = k.due[d]
      BY <2>8, <3>1 DEF Even
    <3>3. Armed(k, k.start[d]) = {d} => Armed(x, x.start[d]) = {d}
      BY <1>0, <2>6, <2>7, <2>8, <3>1 DEF Armed
    <3>4. CASE d = c
      BY <2>6, <2>7, <2>8, <3>1, <3>2, <3>3, <3>4
    <3>5. CASE d # c
      BY <2>6, <2>7, <2>8, <3>1, <3>2, <3>3, <3>5
    <3> QED
      BY <3>4, <3>5
  <2>9. Even(k) => Even(x)
    BY <2>8 DEF Even
  <2>10. \A d \in Channel : x.start[d] \in {k.start[d], Nothing}
    BY <2>6, <2>7
  <2> QED
    BY <2>6, <2>7, <2>9, <2>10 DEF Follows
<1> QED
  BY <1>1, <1>2

\* A source of a pass.
LEMMA PassDoes ==
  ASSUME NEW k \in Console, NEW s \in Source, NEW x, x = Pass(k, s)
  PROVE  Follows(k, x) /\ x.pulses = k.pulses /\ (s \in Matched => Clear(x, s))
<1>0. /\ k.left \in [Channel -> 0 .. Wrap - 1] /\ k.start \in [Channel -> Source \cup {Nothing}]
      /\ k.due \in [Channel -> 0 .. Wrap - 1] /\ k.pending \subseteq Source
      /\ s # Nothing /\ Nothing \notin Matched
  BY Matches DEF Console
<1>1. CASE ~(s \in k.pending /\ Armed(k, s) # {})
  <2>1. x = k
    BY <1>1 DEF Pass
  <2> QED
    BY <1>1, <2>1, FollowsItself DEF Clear
<1>2. CASE s \in k.pending /\ Armed(k, s) # {}
  <2>1. PICK c \in Channel : c = Min(Armed(k, s)) /\ k.start[c] = s
    BY <1>2, ArmedIs
  <2>2. PICK y : y = [k EXCEPT !.pending = @ \ {s}]
    OBVIOUS
  <2>4. x = Transfer(y, c)
    BY <1>2, <2>1, <2>2, Zenon DEF Pass
  <2>5. y \in Console
    <3>1. k.pending \ {s} \in SUBSET Source
      BY <1>0
    <3> QED
      BY <2>2, <3>1, ZenonT(30) DEF Console
  <2>6. /\ y.program = k.program /\ y.level = k.level /\ y.iff = k.iff /\ y.stack = k.stack
        /\ y.halted = k.halted /\ y.pulses = k.pulses /\ y.start = k.start
        /\ y.left = k.left /\ y.pending = k.pending \ {s} /\ y.due = k.due
    BY <1>0, <2>2 DEF Console
  <2>7. /\ x \in Console
        /\ x.program = y.program /\ x.level = y.level
        /\ x.iff = y.iff /\ x.stack = y.stack /\ x.halted = y.halted
        /\ x.pulses = y.pulses /\ x.due = y.due
        /\ \A d \in Channel \ {c} : x.start[d] = y.start[d] /\ x.left[d] = y.left[d]
        /\ x.start[c] \in {y.start[c], Nothing} /\ x.left[c] = Less(y.left[c])
        /\ \A t \in Matched : t \in x.pending <=> t \in y.pending
    BY <2>4, <2>5, TransferDoes
  <2>8. ASSUME Even(k), NEW d \in Channel, x.start[d] \in Matched
        PROVE  IF x.start[d] \in x.pending
               THEN Armed(x, x.start[d]) = {d} /\ x.due[d] = Less(x.left[d])
               ELSE x.left[d] = x.due[d]
    <3>1. x.start[d] = k.start[d]
      BY <1>0, <2>6, <2>7, <2>8
    <3>2. IF k.start[d] \in k.pending THEN Armed(k, k.start[d]) = {d} /\ k.due[d] = Less(k.left[d])
          ELSE k.left[d] = k.due[d]
      BY <2>8, <3>1 DEF Even
    <3>3. Armed(k, k.start[d]) = {d} => Armed(x, x.start[d]) = {d}
      BY <1>0, <2>6, <2>7, <2>8, <3>1 DEF Armed
    <3>4. CASE d = c
      BY <1>2, <2>1, <2>6, <2>7, <2>8, <3>1, <3>2, <3>4
    <3>5. CASE d # c
      <4>1. k.start[d] # s
        <5>1. c \in Armed(k, s)
          BY <2>1 DEF Armed
        <5> QED
          BY <1>2, <3>2, <3>5, <5>1
      <4> QED
        BY <2>6, <2>7, <2>8, <3>1, <3>2, <3>3, <3>5, <4>1
    <3> QED
      BY <3>4, <3>5
  <2>9. Even(k) => Even(x)
    BY <2>8 DEF Even
  <2>10. \A d \in Channel : x.start[d] \in {k.start[d], Nothing}
    BY <2>6, <2>7
  <2> QED
    BY <2>6, <2>7, <2>9, <2>10 DEF Follows, Clear
<1> QED
  BY <1>1, <1>2

\* A change that touches neither requests nor channels.
LEMMA Aside ==
  ASSUME NEW k \in Console, NEW x \in Console,
         x.program = k.program, x.level = k.level, x.iff = k.iff, x.stack = k.stack,
         x.halted = k.halted, x.due = k.due, x.start = k.start, x.left = k.left,
         \A t \in Matched : t \in x.pending <=> t \in k.pending
  PROVE  Follows(k, x)
<1>1. \A t : Armed(x, t) = Armed(k, t)
  BY DEF Armed
<1>2. Even(k) => Even(x)
  BY <1>1 DEF Even
<1> QED
  BY <1>1, <1>2 DEF Follows

\* A line of the raster may ask for the vertical blank, never for a match.
LEMMA NewLineDoes ==
  ASSUME NEW k \in Console, NEW x, x = NewLine(k)
  PROVE  Follows(k, x)
<1>1. PICK line, pulses, edge :
         /\ line = (k.line + 1) % (LastLine + 1)
         /\ pulses = k.pulses + (IF line = LastLine \/ line <= Visible - 2 THEN 1 ELSE 0)
         /\ edge = k.pending \cup (IF k.line < Visible /\ line >= Visible THEN {"vblank"} ELSE {})
  OBVIOUS
<1>2. x = [k EXCEPT !.line = line, !.pulses = pulses, !.pending = edge]
  BY <1>1 DEF NewLine
<1>3. line \in 0 .. LastLine /\ pulses \in Nat /\ edge \in SUBSET Source
  <2>1. k.line \in 0 .. LastLine /\ k.pulses \in Nat /\ k.pending \subseteq Source
    BY DEF Console
  <2>2. line \in 0 .. LastLine
    BY <1>1, <2>1, UnitAssumption
  <2>3. pulses \in Nat
    BY <1>1, <2>1
  <2> QED
    BY <1>1, <2>1, <2>2, <2>3, Matches
<1>4. x \in Console
  <2>1. PICK y : y = [k EXCEPT !.line = line, !.pulses = pulses]
    OBVIOUS
  <2>2. y \in Console
    BY <1>3, <2>1, ZenonT(30) DEF Console
  <2>3. x = [y EXCEPT !.pending = edge]
    BY <1>2, <2>1 DEF Console
  <2> QED
    BY <1>3, <2>2, <2>3, ZenonT(30) DEF Console
<1>5. /\ x.program = k.program /\ x.level = k.level /\ x.iff = k.iff /\ x.stack = k.stack
      /\ x.halted = k.halted /\ x.due = k.due /\ x.start = k.start /\ x.left = k.left
      /\ x.pending = edge
  BY <1>2 DEF Console
<1>6. \A t \in Matched : t \in x.pending <=> t \in k.pending
  BY <1>1, <1>5, Matches
<1> QED
  BY <1>4, <1>5, <1>6, Aside
----------------------------------------------------------------------------
(***************************************************************************)
(* The timers.                                                             *)
(***************************************************************************)
\* All the matches of one timer in one instruction.
LEMMA OffersDo ==
  ASSUME NEW k \in Console, NEW s \in Matched, NEW n \in Nat, NEW x,
         x = Offered(k, s, n)
  PROVE  Follows(k, x) /\ x.pulses = k.pulses
<1>1. PICK S : S = {y \in Console : Follows(k, y) /\ y.pulses = k.pulses}
  OBVIOUS
<1>2. PICK at : /\ at[0] = k /\ Offered(k, s, n) = at[n]
                /\ \A i \in 1 .. n : at[i] = Offer(at[i - 1], s)
  BY ThroughOffers
<1>3. x = at[n]
  BY <1>2, Zenon
<1>4. at[0] = k /\ \A i \in 1 .. n : at[i] = Offer(at[i - 1], s)
  BY <1>2, Zenon
<1>5. at[0] \in S
  BY <1>1, <1>4, FollowsItself
<1>6. ASSUME NEW i \in 1 .. n, at[i - 1] \in S PROVE at[i] \in S
  <2>1. PICK y : y = at[i - 1]
    OBVIOUS
  <2>2. PICK z : z = Offer(y, s)
    OBVIOUS
  <2>3. y \in Console /\ Follows(k, y) /\ y.pulses = k.pulses
    BY <1>1, <1>6, <2>1
  <2>4. Follows(y, z) /\ z.pulses = y.pulses
    BY <2>2, <2>3, OfferDoes
  <2>5. Follows(k, z) /\ z \in Console
    BY <2>3, <2>4, FollowsOn DEF Follows
  <2> QED
    BY <1>1, <1>4, <2>1, <2>2, <2>3, <2>4, <2>5
<1>7. at[n] \in S
  BY <1>5, <1>6, Induct
<1> QED
  BY <1>1, <1>3, <1>7

\* What a division leaves.
LEMMA Divided ==
  ASSUME NEW a \in Nat, NEW b \in Nat \ {0}
  PROVE  a \div b \in Nat /\ a % b \in 0 .. b - 1
OBVIOUS

\* The parts of a tick, by name.
TicksOf(i, u, at) ==
  IF at.k.program.from[i] = "line" THEN at.pulses
  ELSE IF at.k.program.from[i] = "cascade" THEN at.carry
  ELSE (at.k.clock[i] + u) \div TapUnits
MatchesOf(i, u, at) == (at.k.count[i] + TicksOf(i, u, at)) \div at.k.program.limit[i]
CountedOf(i, u, at) ==
  [at.k EXCEPT !.count[i] = (@ + TicksOf(i, u, at)) % at.k.program.limit[i],
               !.clock[i] = IF at.k.program.from[i] = "tap" THEN (@ + u) % TapUnits ELSE @]

\* A tick, in those parts.
LEMMA TickIs ==
  ASSUME NEW i, NEW u, NEW at
  PROVE  Tick(i, u, at) =
           IF i \notin at.k.program.on
           THEN [at EXCEPT !.k = [at.k EXCEPT !.count[i] = 0, !.clock[i] = 0], !.carry = 0]
           ELSE [at EXCEPT !.k = IF i = 3
                                 THEN Toggle(Offered(CountedOf(i, u, at), INTT(i), MatchesOf(i, u, at)),
                                             MatchesOf(i, u, at))
                                 ELSE Offered(CountedOf(i, u, at), INTT(i), MatchesOf(i, u, at)),
                           !.carry = MatchesOf(i, u, at)]
BY ZenonT(30) DEF Tick, TicksOf, MatchesOf, CountedOf, Offered

\* A timer ticks: its matches are offered, and its number handed on.
LEMMA TickDoes ==
  ASSUME NEW i \in Timer, NEW u \in Nat, NEW at, at \in [k : Console, pulses : Nat, carry : Nat],
         NEW b, b = Tick(i, u, at)
  PROVE  /\ b \in [k : Console, pulses : Nat, carry : Nat]
         /\ Follows(at.k, b.k) /\ b.k.pulses = at.k.pulses
<1>0. PICK k : k = at.k
  OBVIOUS
<1>1. /\ k \in Console /\ at.pulses \in Nat /\ at.carry \in Nat
      /\ k.program \in Program /\ k.count \in [Timer -> Nat] /\ k.clock \in [Timer -> 0 .. TapUnits - 1]
      /\ k.half \in 0 .. 1 /\ k.soundInt \in BOOLEAN
  BY <1>0 DEF Console
<1>2. PICK ticks : ticks = IF k.program.from[i] = "line" THEN at.pulses
                           ELSE IF k.program.from[i] = "cascade" THEN at.carry
                           ELSE (k.clock[i] + u) \div TapUnits
  OBVIOUS
<1>3. ticks \in Nat
  <2>1. k.clock[i] + u \in Nat /\ TapUnits \in Nat \ {0}
    BY <1>1, UnitAssumption
  <2>2. (k.clock[i] + u) \div TapUnits \in Nat
    BY <2>1, Divided
  <2> QED
    BY <1>1, <1>2, <2>2
<1>4. PICK limit : limit = k.program.limit[i]
  OBVIOUS
<1>5. limit \in Nat \ {0}
  BY <1>1, <1>4 DEF Program
<1>6. PICK matches, count, clock :
         /\ matches = (k.count[i] + ticks) \div limit
         /\ count = (k.count[i] + ticks) % limit
         /\ clock = IF k.program.from[i] = "tap" THEN (k.clock[i] + u) % TapUnits ELSE k.clock[i]
  OBVIOUS
<1>7. matches \in Nat /\ count \in Nat /\ clock \in 0 .. TapUnits - 1
  <2>1. k.clock[i] + u \in Nat /\ TapUnits \in Nat \ {0} /\ k.count[i] + ticks \in Nat
    BY <1>1, <1>3, UnitAssumption
  <2>2. (k.clock[i] + u) % TapUnits \in 0 .. TapUnits - 1
    BY <2>1, Divided
  <2>3. (k.count[i] + ticks) \div limit \in Nat /\ (k.count[i] + ticks) % limit \in 0 .. limit - 1
    BY <1>5, <2>1, Divided
  <2>4. count \in Nat
    BY <1>5, <1>6, <2>3
  <2> QED
    BY <1>1, <1>6, <2>2, <2>3, <2>4
<1>8. PICK counted : counted = [k EXCEPT !.count[i] = count, !.clock[i] = clock]
  OBVIOUS
<1>9. counted \in Console /\ Follows(k, counted) /\ counted.pulses = k.pulses
  <2>1. [k.count EXCEPT ![i] = count] \in [Timer -> Nat]
    BY <1>1, <1>7
  <2>2. [k.clock EXCEPT ![i] = clock] \in [Timer -> 0 .. TapUnits - 1]
    BY <1>1, <1>7
  <2>3. counted \in Console
    BY <1>1, <1>8, <2>1, <2>2, ZenonT(30) DEF Console
  <2>4. /\ counted.program = k.program /\ counted.level = k.level /\ counted.iff = k.iff
        /\ counted.stack = k.stack /\ counted.halted = k.halted /\ counted.due = k.due
        /\ counted.start = k.start /\ counted.left = k.left /\ counted.pending = k.pending
        /\ counted.pulses = k.pulses
    BY <1>1, <1>8 DEF Console
  <2> QED
    BY <1>1, <2>3, <2>4, Aside
<1>10. PICK offered : offered = Offered(counted, INTT(i), matches)
  OBVIOUS
<1>11. INTT(i) \in Matched
  BY DEF Matched
<1>12. Follows(counted, offered) /\ offered.pulses = counted.pulses
  BY <1>7, <1>9, <1>10, <1>11, OffersDo
<1>13. Follows(k, offered) /\ offered.pulses = k.pulses /\ offered \in Console
  BY <1>9, <1>12, FollowsOn DEF Follows
<1>14. PICK off : off = [k EXCEPT !.count[i] = 0, !.clock[i] = 0]
  OBVIOUS
<1>15. Follows(k, off) /\ off \in Console /\ off.pulses = k.pulses
  <2>1. [k.count EXCEPT ![i] = 0] \in [Timer -> Nat]
    BY <1>1
  <2>2. [k.clock EXCEPT ![i] = 0] \in [Timer -> 0 .. TapUnits - 1]
    BY <1>1, UnitAssumption
  <2>3. off \in Console
    BY <1>1, <1>14, <2>1, <2>2, ZenonT(30) DEF Console
  <2>4. /\ off.program = k.program /\ off.level = k.level /\ off.iff = k.iff
        /\ off.stack = k.stack /\ off.halted = k.halted /\ off.due = k.due
        /\ off.start = k.start /\ off.left = k.left /\ off.pending = k.pending
        /\ off.pulses = k.pulses
    BY <1>1, <1>14 DEF Console
  <2> QED
    BY <1>1, <2>3, <2>4, Aside
<1>16. PICK toggled : toggled = Toggle(offered, matches)
  OBVIOUS
<1>17. Follows(k, toggled) /\ toggled \in Console /\ toggled.pulses = k.pulses
  <2>1. PICK half, sound : half = (offered.half + matches) % 2
                           /\ sound = (offered.soundInt \/ offered.half + matches >= 2)
    OBVIOUS
  <2>2. half \in 0 .. 1 /\ sound \in BOOLEAN
    <3>1. offered.half \in 0 .. 1 /\ offered.soundInt \in BOOLEAN
      BY <1>13 DEF Console
    <3> QED
      BY <1>7, <2>1, <3>1
  <2>3. toggled = [offered EXCEPT !.half = half, !.soundInt = sound]
    BY <1>16, <2>1 DEF Toggle
  <2>4. toggled \in Console
    BY <1>13, <2>2, <2>3, ZenonT(30) DEF Console
  <2>5. /\ toggled.program = offered.program /\ toggled.level = offered.level /\ toggled.iff = offered.iff
        /\ toggled.stack = offered.stack /\ toggled.halted = offered.halted /\ toggled.due = offered.due
        /\ toggled.start = offered.start /\ toggled.left = offered.left
        /\ toggled.pending = offered.pending /\ toggled.pulses = offered.pulses
    BY <1>13, <2>3 DEF Console
  <2>6. Follows(offered, toggled)
    BY <1>13, <2>4, <2>5, Aside
  <2> QED
    BY <1>13, <2>4, <2>5, <2>6, FollowsOn
<1>18. ASSUME NEW y \in Console, NEW n \in Nat, b = [at EXCEPT !.k = y, !.carry = n],
              Follows(k, y), y.pulses = k.pulses
       PROVE  /\ b \in [k : Console, pulses : Nat, carry : Nat]
              /\ Follows(at.k, b.k) /\ b.k.pulses = at.k.pulses
  <2>1. b \in [k : Console, pulses : Nat, carry : Nat]
    BY <1>18, Zenon
  <2>2. b.k = y
    BY <1>18
  <2> QED
    BY <1>0, <1>18, <2>1, <2>2
<1>19. CASE i \notin k.program.on
  <2>1. b = [at EXCEPT !.k = off, !.carry = 0]
    BY <1>0, <1>14, <1>19, TickIs, ZenonT(30)
  <2> QED
    BY <1>15, <1>18, <2>1, ZenonT(30)
<1>20. CASE i \in k.program.on
  <2>1. PICK y : y = IF i = 3 THEN toggled ELSE offered
    BY ZenonT(30)
  <2>2. b = [at EXCEPT !.k = y, !.carry = matches]
    <3>1. ticks = TicksOf(i, u, at)
      BY <1>0, <1>2 DEF TicksOf
    <3>2. matches = MatchesOf(i, u, at)
      BY <1>0, <1>4, <1>6, <3>1 DEF MatchesOf
    <3>3. counted = CountedOf(i, u, at)
      BY <1>0, <1>1, <1>4, <1>6, <1>8, <3>1 DEF CountedOf
    <3>4. y = IF i = 3 THEN Toggle(offered, matches) ELSE offered
      BY <1>16, <2>1
    <3>5. offered = Offered(CountedOf(i, u, at), INTT(i), MatchesOf(i, u, at))
      BY <1>10, <3>2, <3>3
    <3> QED
      BY <1>0, <1>20, <3>2, <3>4, <3>5, TickIs
  <2>3. y \in Console /\ Follows(k, y) /\ y.pulses = k.pulses
    BY <1>13, <1>17, <2>1
  <2> QED
    BY <1>7, <1>18, <2>2, <2>3, ZenonT(30)
<1> QED
  BY <1>19, <1>20
----------------------------------------------------------------------------
(***************************************************************************)
(* Time, and the micro-DMA.                                                *)
(***************************************************************************)
\* All four timers (timer_tick).
LEMMA TimersDo ==
  ASSUME NEW k \in Console, NEW u \in Nat, NEW x, x = TimerTick(k, u)
  PROVE  Follows(k, x) /\ x.pulses = 0
<1>1. PICK k0 : k0 = [k EXCEPT !.pulses = 0]
  OBVIOUS
<1>2. k0 \in Console /\ Follows(k, k0) /\ k0.pulses = 0
  <2>1. k0 \in Console
    BY <1>1, ZenonT(30) DEF Console
  <2>2. /\ k0.program = k.program /\ k0.level = k.level /\ k0.iff = k.iff /\ k0.stack = k.stack
        /\ k0.halted = k.halted /\ k0.due = k.due /\ k0.start = k.start /\ k0.left = k.left
        /\ k0.pending = k.pending /\ k0.pulses = 0
    BY <1>1 DEF Console
  <2> QED
    BY <2>1, <2>2, Aside
<1>3. PICK S : S = {y \in [k : Console, pulses : Nat, carry : Nat] :
                      Follows(k, y.k) /\ y.k.pulses = 0}
  OBVIOUS
<1>4. PICK at : /\ at[0] = [k |-> [k EXCEPT !.pulses = 0], pulses |-> k.pulses, carry |-> 0]
                /\ TimerTick(k, u) = at[4].k
                /\ \A i \in 1 .. 4 : at[i] = Tick(i - 1, u, at[i - 1])
  BY ThroughTimers
<1>5. at[0] \in S
  <2>1. at[0] = [k |-> k0, pulses |-> k.pulses, carry |-> 0]
    BY <1>1, <1>4
  <2>2. k.pulses \in Nat
    BY DEF Console
  <2> QED
    BY <1>2, <1>3, <2>1, <2>2
<1>6. ASSUME NEW i \in 1 .. 4, at[i - 1] \in S PROVE at[i] \in S
  <2>1. PICK a, b, t : a = at[i - 1] /\ t = i - 1 /\ b = Tick(t, u, a)
    OBVIOUS
  <2>2. t \in Timer
    BY <2>1 DEF Timer
  <2>3. a \in [k : Console, pulses : Nat, carry : Nat] /\ Follows(k, a.k) /\ a.k.pulses = 0
    BY <1>3, <1>6, <2>1
  <2>4. /\ b \in [k : Console, pulses : Nat, carry : Nat]
        /\ Follows(a.k, b.k) /\ b.k.pulses = a.k.pulses
    BY <2>1, <2>2, <2>3, TickDoes
  <2>5. Follows(k, b.k)
    BY <2>3, <2>4, FollowsOn
  <2> QED
    BY <1>3, <1>4, <2>1, <2>3, <2>4, <2>5
<1>7. at[4] \in S
  BY <1>5, <1>6, Induct
<1> QED
  BY <1>3, <1>4, <1>7

\* The raster (advance_raster).
LEMMA RasterDoes ==
  ASSUME NEW k \in Console, NEW u \in Nat, NEW x, x = AdvanceRaster(k, u)
  PROVE  Follows(k, x)
<1>1. PICK n, rest : n = (k.residue + u) \div LineUnits /\ rest = (k.residue + u) % LineUnits
  OBVIOUS
<1>2. n \in Nat /\ rest \in 0 .. LineUnits - 1
  <2>1. k.residue + u \in Nat /\ LineUnits \in Nat \ {0}
    <3>1. k.residue \in 0 .. LineUnits - 1
      BY DEF Console
    <3> QED
      BY <3>1, UnitAssumption
  <2> QED
    BY <1>1, <2>1, Divided
<1>3. PICK k0 : k0 = [k EXCEPT !.residue = rest]
  OBVIOUS
<1>4. k0 \in Console /\ Follows(k, k0)
  <2>1. k0 \in Console
    BY <1>2, <1>3, ZenonT(30) DEF Console
  <2>2. /\ k0.program = k.program /\ k0.level = k.level /\ k0.iff = k.iff /\ k0.stack = k.stack
        /\ k0.halted = k.halted /\ k0.due = k.due /\ k0.start = k.start /\ k0.left = k.left
        /\ k0.pending = k.pending
    BY <1>3 DEF Console
  <2> QED
    BY <2>1, <2>2, Aside
<1>5. x = Lined(k0, n)
  BY <1>1, <1>3, Zenon DEF AdvanceRaster, Lined
<1>6. PICK S : S = {y \in Console : Follows(k, y)}
  OBVIOUS
<1>7. PICK at : /\ at[0] = k0 /\ Lined(k0, n) = at[n]
                /\ \A i \in 1 .. n : at[i] = NewLine(at[i - 1])
  BY <1>2, ThroughLines
<1>8. at[0] \in S
  BY <1>4, <1>6, <1>7
<1>9. ASSUME NEW i \in 1 .. n, at[i - 1] \in S PROVE at[i] \in S
  <2>1. PICK a, b : a = at[i - 1] /\ b = NewLine(a)
    OBVIOUS
  <2>2. a \in Console /\ Follows(k, a)
    BY <1>6, <1>9, <2>1
  <2>3. Follows(a, b)
    BY <2>1, <2>2, NewLineDoes
  <2>4. Follows(k, b) /\ b \in Console
    BY <2>2, <2>3, FollowsOn DEF Follows
  <2> QED
    BY <1>6, <1>7, <2>1, <2>4
<1>10. at[n] \in S
  BY <1>2, <1>8, <1>9, Induct
<1> QED
  BY <1>5, <1>6, <1>7, <1>10

\* Time that passes.
LEMMA ElapseDoes ==
  ASSUME NEW k \in Console, NEW u \in Nat, NEW x, x = Elapse(k, u)
  PROVE  Follows(k, x) /\ x \in Console /\ x.pulses = 0
<1>1. PICK y : y = AdvanceRaster(k, u)
  OBVIOUS
<1>2. x = TimerTick(y, u)
  BY <1>1 DEF Elapse
<1>3. Follows(k, y) /\ y \in Console
  BY <1>1, RasterDoes DEF Follows
<1>4. Follows(y, x) /\ x.pulses = 0
  BY <1>2, <1>3, TimersDo
<1> QED
  BY <1>3, <1>4, FollowsOn DEF Follows

\* No match waits that a channel is armed on.
Tidy(k) == \A s \in Matched : Clear(k, s)

\* A source that is clear stays so while channels only run out.
LEMMA TidyStays ==
  ASSUME NEW k, NEW x, Follows(k, x), NEW s \in Matched, Clear(k, s)
  PROVE  Clear(x, s)
<1>1. s # Nothing
  BY Matches
<1>2. Armed(k, s) = {} => Armed(x, s) = {}
  BY <1>1 DEF Follows, Armed
<1> QED
  BY <1>2 DEF Follows, Clear

\* A pass over all sources leaves no match waiting that a channel is armed on.
LEMMA PassesDo ==
  ASSUME NEW k \in Console, NEW x, x = Through(Pass, k, Sources)
  PROVE  Follows(k, x) /\ x \in Console /\ x.pulses = k.pulses /\ Tidy(x)
<1>1. PICK S : S = {y \in Console : Follows(k, y) /\ y.pulses = k.pulses}
  OBVIOUS
<1>2. PICK at : /\ at[0] = k /\ Through(Pass, k, Sources) = at[15]
                /\ \A i \in 1 .. 15 : at[i] = Pass(at[i - 1], Sources[i])
  BY ThroughSources, ZenonT(30)
<1>3. x = at[15]
  BY <1>2, Zenon
<1>4. at[0] = k /\ \A i \in 1 .. 15 : at[i] = Pass(at[i - 1], Sources[i])
  BY <1>2, Zenon
<1>5. \A i \in 1 .. 15 : Sources[i] \in Source
  <2>1. DOMAIN Sources = 1 .. 15
    BY DEF Sources
  <2> QED
    BY <2>1 DEF Source, Range
<1>6. PICK T : T = {i \in 0 .. 15 :
                      /\ at[i] \in S
                      /\ \A j \in 1 .. i : Sources[j] \in Matched => Clear(at[i], Sources[j])}
  OBVIOUS
<1>7. PICK id : id = [i \in 0 .. 15 |-> i]
  OBVIOUS
<1>8. id[0] \in T
  <2>1. at[0] \in S
    BY <1>1, <1>4, FollowsItself
  <2> QED
    BY <1>6, <1>7, <2>1
<1>9. ASSUME NEW i \in 1 .. 15, id[i - 1] \in T PROVE id[i] \in T
  <2>1. PICK a, b, s : a = at[i - 1] /\ b = at[i] /\ s = Sources[i]
    OBVIOUS
  <2>2. a \in Console /\ Follows(k, a) /\ a.pulses = k.pulses
    BY <1>1, <1>6, <1>7, <1>9, <2>1
  <2>3. b = Pass(a, s) /\ s \in Source
    BY <1>4, <1>5, <2>1
  <2>4. Follows(a, b) /\ b.pulses = a.pulses /\ (s \in Matched => Clear(b, s))
    BY <2>2, <2>3, PassDoes
  <2>5. Follows(k, b) /\ b \in Console
    BY <2>2, <2>4, FollowsOn DEF Follows
  <2>6. ASSUME NEW j \in 1 .. i, Sources[j] \in Matched PROVE Clear(b, Sources[j])
    <3>1. CASE j = i
      BY <2>1, <2>4, <2>6, <3>1
    <3>2. CASE j # i
      <4>1. j \in 1 .. i - 1
        BY <3>2
      <4>2. Clear(a, Sources[j])
        BY <1>6, <1>7, <1>9, <2>1, <2>6, <4>1
      <4> QED
        BY <2>4, <2>6, <4>2, TidyStays
    <3> QED
      BY <3>1, <3>2
  <2> QED
    BY <1>1, <1>6, <1>7, <2>1, <2>2, <2>4, <2>5, <2>6
<1>10. id[15] \in T
  BY <1>8, <1>9, Induct
<1>11. 15 \in T
  BY <1>7, <1>10
<1>12. ASSUME NEW s \in Matched PROVE Clear(x, s)
  <2>1. PICK j \in 1 .. 15 : s = Sources[j]
    <3>1. DOMAIN Sources = 1 .. 15
      BY DEF Sources
    <3> QED
      BY <3>1, Matches DEF Source, Range
  <2> QED
    BY <1>3, <1>6, <1>11, <1>12, <2>1
<1> QED
  BY <1>1, <1>3, <1>6, <1>11, <1>12 DEF Tidy

\* The micro-DMA, and the time it takes.
LEMMA ServedDoes ==
  ASSUME NEW k \in Console, k.pulses = 0, NEW x, x = Served(k)
  PROVE  Follows(k, x) /\ x \in Console /\ x.pulses = 0 /\ Tidy(x)
<1>1. PICK d : d = Through(Pass, k, Sources)
  BY Zenon
<1>2. Follows(k, d) /\ d \in Console /\ d.pulses = 0 /\ Tidy(d)
  BY <1>1, PassesDo
<1>3. PICK e : e = [d EXCEPT !.cost = 0]
  OBVIOUS
<1>4. x = IF d.cost = 0 THEN d ELSE Elapse(e, d.cost)
  BY <1>1, <1>3 DEF Served
<1>5. CASE d.cost = 0
  BY <1>2, <1>4, <1>5
<1>6. CASE d.cost # 0
  <2>1. d.cost \in Nat
    BY <1>2 DEF Console
  <2>2. e \in Console
    BY <1>2, <1>3, ZenonT(30) DEF Console
  <2>3. /\ e.program = d.program /\ e.level = d.level /\ e.iff = d.iff /\ e.stack = d.stack
        /\ e.halted = d.halted /\ e.due = d.due /\ e.start = d.start /\ e.left = d.left
        /\ e.pending = d.pending
    BY <1>2, <1>3 DEF Console
  <2>4. Follows(d, e)
    BY <1>2, <2>2, <2>3, Aside
  <2>5. Follows(e, x) /\ x \in Console /\ x.pulses = 0
    BY <1>4, <1>6, <2>1, <2>2, ElapseDoes
  <2>6. Follows(d, x)
    BY <2>4, <2>5, FollowsOn
  <2>7. Tidy(x)
    BY <1>2, <2>6, TidyStays DEF Tidy
  <2> QED
    BY <1>2, <2>5, <2>6, <2>7, FollowsOn
<1> QED
  BY <1>5, <1>6
----------------------------------------------------------------------------
(***************************************************************************)
(* The processor takes a request.                                          *)
(***************************************************************************)
\* The handlers under way: each of a level above the one it interrupted, which cannot come
\* back below it; the mask is above the last.
Nested(k) ==
  /\ \A i, j \in 1 .. Len(k.stack) : i < j => k.stack[i].level < k.stack[j].level
  /\ \A i, j \in 1 .. Len(k.stack) : j = i + 1 => k.stack[i].level < k.stack[j].iff
  /\ \A j \in 1 .. Len(k.stack) : j = Len(k.stack) => k.stack[j].level < k.iff

\* What a console is between two actions.
Sound(k) == k \in Console /\ k.pulses = 0 /\ Nested(k) /\ Even(k) /\ Tidy(k)

\* At most one handler is entered, and none for a match that a channel is armed on.
Enters(k, x) ==
  \/ x.stack = k.stack
  \/ \E f \in Frame : x.stack = Append(k.stack, f) /\ (f.by \in Matched => Armed(x, f.by) = {})

\* What Max stands for, for a set of levels.
LEMMA HighestIs ==
  ASSUME NEW S, S \subseteq 0 .. 7, S # {}
  PROVE  Max(S) \in S
<1>1. PICK T : T = {7 - y : y \in S}
  OBVIOUS
<1>2. T \in SUBSET Nat /\ T # {}
  <2>1. ASSUME NEW t \in T PROVE t \in Nat
    <3>1. PICK y \in S : t = 7 - y
      BY <1>1
    <3>2. y \in 0 .. 7
      OBVIOUS
    <3> QED
      BY <3>1, <3>2
  <2> QED
    BY <1>1, <2>1
<1>3. PICK x \in T : \A y \in T : ~(y < x)
  BY <1>2, Least
<1>4. PICK z \in S : x = 7 - z
  BY <1>1, <1>3
<1>5. \A y \in S : z >= y
  <2> TAKE y \in S
  <2>1. ~(7 - y < 7 - z) /\ y \in 0 .. 7 /\ z \in 0 .. 7
    BY <1>1, <1>3, <1>4
  <2> QED
    BY <2>1
<1> QED
  BY <1>4, <1>5 DEF Max

\* The list of sources.
LEMMA SourcesAre == DOMAIN Sources = 1 .. 15 /\ \A i \in 1 .. 15 : Sources[i] \in Source
<1>1. DOMAIN Sources = 1 .. 15
  BY DEF Sources
<1> QED
  BY <1>1 DEF Source, Range

\* The request that is vectored waits, and is let in.
LEMMA BestDoes ==
  ASSUME NEW k \in Console, Accepted(k) # {}
  PROVE  /\ Best(k) \in Source /\ Best(k) \in k.pending
         /\ k.level[Best(k)] \in 1 .. 6 /\ k.level[Best(k)] >= k.iff
<1>1. \A i \in Accepted(k) :
        /\ i \in 1 .. 15 /\ Sources[i] \in k.pending /\ Sources[i] \in Source
        /\ k.level[Sources[i]] \notin {0, 7} /\ k.level[Sources[i]] >= k.iff
  BY SourcesAre DEF Accepted
<1>2. \A s \in Source : k.level[s] \in 0 .. 7
  BY DEF Console
<1>3. PICK L : L = {k.level[Sources[i]] : i \in Accepted(k)}
  OBVIOUS
<1>4. Max(L) \in L
  <2>1. L \subseteq 0 .. 7
    BY <1>1, <1>2, <1>3
  <2>2. L # {}
    BY <1>3
  <2> QED
    BY <2>1, <2>2, HighestIs
<1>5. PICK J : J = {i \in Accepted(k) : k.level[Sources[i]] = Max(L)}
  OBVIOUS
<1>6. Min(J) \in J
  <2>1. J \subseteq Nat
    BY <1>1, <1>5
  <2>2. J # {}
    BY <1>3, <1>4, <1>5
  <2> QED
    BY <2>1, <2>2, LowestIs
<1>7. Best(k) = Sources[Min(J)]
  BY <1>3, <1>5 DEF Best
<1>8. PICK b : b = Min(J)
  OBVIOUS
<1>9. b \in Accepted(k)
  BY <1>5, <1>6, <1>8
<1>10. Best(k) = Sources[b]
  BY <1>7, <1>8
<1>11. k.level[Best(k)] \in 0 .. 7
  BY <1>1, <1>2, <1>9, <1>10
<1> QED
  BY <1>1, <1>9, <1>10, <1>11

\* Entering a handler: above everything it interrupts, and for no match that a channel
\* is armed on (deliver_irq).
LEMMA VectorDoes ==
  ASSUME NEW k \in Console, Sound(k), Accepted(k) # {}, NEW x, x = Vector(k)
  PROVE  Sound(x) /\ Enters(k, x)
<1>1. PICK s : s = Best(k)
  OBVIOUS
<1>2. s \in Source /\ s \in k.pending /\ k.level[s] \in 1 .. 6 /\ k.level[s] >= k.iff
  BY <1>1, BestDoes
<1>3. /\ k.iff \in 0 .. 7 /\ k.stack \in Seq(Frame) /\ k.pending \subseteq Source
      /\ k.start \in [Channel -> Source \cup {Nothing}]
  BY DEF Console
<1>4. PICK f, iff, stack, pending :
         /\ f = [iff |-> k.iff, level |-> k.level[s], by |-> s]
         /\ iff = Mask(k.level[s]) /\ stack = Append(k.stack, f) /\ pending = k.pending \ {s}
  OBVIOUS
<1>5. f \in Frame
  BY <1>2, <1>3, <1>4 DEF Frame
<1>6. iff \in 0 .. 7 /\ iff > k.level[s]
  BY <1>2, <1>4 DEF Mask
<1>7. /\ stack \in Seq(Frame) /\ pending \in SUBSET Source
      /\ Len(k.stack) \in Nat /\ Len(stack) = Len(k.stack) + 1 /\ stack[Len(k.stack) + 1] = f
      /\ \A i \in 1 .. Len(k.stack) : stack[i] = k.stack[i] /\ k.stack[i] \in Frame
  BY <1>3, <1>4, <1>5
<1>8. x = [k EXCEPT !.stack = stack, !.iff = iff, !.pending = pending, !.halted = FALSE]
  BY <1>1, <1>4 DEF Vector
<1>9. x \in Console
  <2>1. PICK y : y = [k EXCEPT !.stack = stack, !.iff = iff]
    OBVIOUS
  <2>2. y \in Console
    BY <1>6, <1>7, <2>1, ZenonT(30) DEF Console
  <2>3. x = [y EXCEPT !.pending = pending, !.halted = FALSE]
    BY <1>8, <2>1 DEF Console
  <2> QED
    BY <1>7, <2>2, <2>3, ZenonT(30) DEF Console
<1>10. /\ x.stack = stack /\ x.iff = iff /\ x.pending = pending /\ x.pulses = k.pulses
       /\ x.start = k.start /\ x.left = k.left /\ x.due = k.due
  BY <1>8 DEF Console
<1>11. \A t : Armed(x, t) = Armed(k, t)
  BY <1>10 DEF Armed
<1>12. s \in Matched => Armed(k, s) = {}
  BY <1>2 DEF Sound, Tidy, Clear
<1>13. Even(x)
  <2>1. \A c \in Channel : k.start[c] \in Matched => k.start[c] # s
    BY <1>12 DEF Armed
  <2>2. \A c \in Channel : k.start[c] \in Matched => (k.start[c] \in x.pending <=> k.start[c] \in k.pending)
    BY <1>4, <1>10, <2>1
  <2>3. Even(k)
    BY DEF Sound
  <2> QED
    BY <1>10, <1>11, <2>2, <2>3 DEF Even
<1>14. Tidy(x)
  BY <1>4, <1>10, <1>11 DEF Sound, Tidy, Clear
<1>15. Nested(x)
  <2>1. \A i \in 1 .. Len(k.stack) : k.stack[i].level < f.level
    <3> TAKE i \in 1 .. Len(k.stack)
    <3>1. PICK j : j = Len(k.stack)
      OBVIOUS
    <3>2. /\ j \in 1 .. Len(k.stack) /\ k.stack[j].level < k.iff
          /\ i < j => k.stack[i].level < k.stack[j].level
      BY <1>7, <3>1 DEF Sound, Nested
    <3>3. k.stack[i] \in Frame /\ k.stack[j] \in Frame
      BY <1>7, <3>2
    <3>4. k.stack[i].level \in 1 .. 6 /\ k.stack[j].level \in 1 .. 6
      BY <3>3 DEF Frame
    <3>5. k.stack[i].level <= k.stack[j].level
      <4>1. PICK low, high : low = k.stack[i].level /\ high = k.stack[j].level
        OBVIOUS
      <4>2. low \in Int /\ high \in Int /\ (i = j => low = high)
        BY <3>4, <4>1
      <4>3. i < j => low < high
        BY <3>2, <4>1
      <4>4. i < j \/ i = j
        BY <1>7, <3>1
      <4>5. low <= high
        BY <4>2, <4>3, <4>4
      <4> QED
        BY <4>1, <4>5
    <3>6. f.level = k.level[s]
      BY <1>4
    <3>7. PICK low, high, mask, new :
            /\ low = k.stack[i].level /\ high = k.stack[j].level /\ mask = k.iff /\ new = k.level[s]
      OBVIOUS
    <3>8. low \in Int /\ high \in Int /\ mask \in Int /\ new \in Int
      <4>1. low \in Int /\ high \in Int
        BY <3>4, <3>7
      <4>2. mask \in Int /\ new \in Int
        BY <1>2, <1>3, <3>7
      <4> QED
        BY <4>1, <4>2
    <3>9. low <= high /\ high < mask /\ mask <= new
      BY <1>2, <3>2, <3>5, <3>7
    <3>10. low < new
      BY <3>8, <3>9
    <3> QED
      BY <3>6, <3>7, <3>10
  <2>2. \A i \in 1 .. Len(k.stack) : i = Len(k.stack) => k.stack[i].level < f.iff
    BY <1>4 DEF Sound, Nested
  <2>3. f.level < iff
    BY <1>2, <1>4, <1>6
  <2>4. \A i \in 1 .. Len(stack) : i \in 1 .. Len(k.stack) \/ i = Len(k.stack) + 1
    BY <1>7
  <2>5. ASSUME NEW i \in 1 .. Len(stack), NEW j \in 1 .. Len(stack), i < j
        PROVE  stack[i].level < stack[j].level
    <3>1. i \in 1 .. Len(k.stack)
      BY <1>7, <2>5
    <3>2. CASE j \in 1 .. Len(k.stack)
      BY <1>7, <2>5, <3>1, <3>2 DEF Sound, Nested
    <3>3. CASE j = Len(k.stack) + 1
      BY <1>7, <2>1, <3>1, <3>3
    <3> QED
      BY <2>4, <3>2, <3>3
  <2>6. ASSUME NEW i \in 1 .. Len(stack), NEW j \in 1 .. Len(stack), j = i + 1
        PROVE  stack[i].level < stack[j].iff
    <3>1. i \in 1 .. Len(k.stack)
      BY <1>7, <2>6
    <3>2. CASE j \in 1 .. Len(k.stack)
      BY <1>7, <2>6, <3>1, <3>2 DEF Sound, Nested
    <3>3. CASE j = Len(k.stack) + 1
      <4>1. i = Len(k.stack)
        BY <1>7, <2>6, <3>1, <3>3
      <4>2. stack[i] = k.stack[i] /\ stack[j] = f
        BY <1>7, <3>1, <3>3
      <4> QED
        BY <2>2, <3>1, <4>1, <4>2
    <3> QED
      BY <2>4, <3>2, <3>3
  <2>7. \A j \in 1 .. Len(stack) : j = Len(stack) => stack[j].level < iff
    BY <1>7, <2>3
  <2> QED
    BY <1>10, <2>5, <2>6, <2>7 DEF Nested
<1>16. Enters(k, x)
  BY <1>4, <1>5, <1>10, <1>11, <1>12 DEF Enters
<1> QED
  BY <1>9, <1>10, <1>13, <1>14, <1>15, <1>16 DEF Sound
----------------------------------------------------------------------------
(***************************************************************************)
(* An instruction, a line of a HALT.                                       *)
(***************************************************************************)
\* A piece of an instruction keeps the console sound, up to the matches that wait.
LEMMA FollowsSound ==
  ASSUME NEW k, NEW x, Nested(k), Even(k), Follows(k, x)
  PROVE  x \in Console /\ Nested(x) /\ Even(x) /\ x.stack = k.stack
<1>1. x \in Console /\ Even(x) /\ x.stack = k.stack /\ x.iff = k.iff
  BY DEF Follows
<1> QED
  BY <1>1 DEF Nested

\* What is delivered, if anything is.
LEMMA DeliverDoes ==
  ASSUME NEW e \in Console, e.pulses = 0, Nested(e), Even(e), NEW d, d = Served(e)
  PROVE  /\ Sound(d) /\ d.stack = e.stack
         /\ Accepted(d) # {} => Sound(Vector(d)) /\ Enters(e, Vector(d))
<1>1. Follows(e, d) /\ d \in Console /\ d.pulses = 0 /\ Tidy(d)
  BY ServedDoes
<1>2. Nested(d) /\ Even(d) /\ d.stack = e.stack
  BY <1>1, FollowsSound
<1>3. Sound(d)
  BY <1>1, <1>2 DEF Sound
<1>4. ASSUME Accepted(d) # {} PROVE Sound(Vector(d)) /\ Enters(e, Vector(d))
  <2>1. PICK v : v = Vector(d)
    OBVIOUS
  <2>2. Sound(v) /\ Enters(d, v)
    BY <1>1, <1>3, <1>4, <2>1, VectorDoes
  <2> QED
    BY <1>2, <2>1, <2>2 DEF Enters
<1> QED
  BY <1>2, <1>3, <1>4

\* Nothing waits, so nothing untidy does.
LEMMA NothingWaits ==
  ASSUME NEW e, e \in Console, e.pulses = 0, Nested(e), Even(e), e.pending = {}
  PROVE  Sound(e)
BY DEF Sound, Tidy, Clear

\* The end of an instruction.
LEMMA InstructionDoes ==
  ASSUME NEW k \in Console, Nested(k), Even(k), NEW u \in Nat, NEW x, x = Instruction(k, u)
  PROVE  Sound(x) /\ Enters(k, x)
<1>1. PICK e : e = Elapse(k, u)
  OBVIOUS
<1>2. Follows(k, e) /\ e \in Console /\ e.pulses = 0
  BY <1>1, ElapseDoes
<1>3. Nested(e) /\ Even(e) /\ e.stack = k.stack
  BY <1>2, FollowsSound
<1>4. PICK d : d = Served(e)
  OBVIOUS
<1>5. /\ Sound(d) /\ d.stack = e.stack
      /\ Accepted(d) # {} => Sound(Vector(d)) /\ Enters(e, Vector(d))
  BY <1>2, <1>3, <1>4, DeliverDoes
<1>6. x = IF e.pending = {} THEN e
          ELSE IF e.pending # {} /\ Accepted(d) # {} THEN Elapse(Vector(d), EntryUnits) ELSE d
  BY <1>1, <1>4 DEF Instruction, Takes
<1>7. CASE e.pending = {}
  BY <1>2, <1>3, <1>6, <1>7, NothingWaits DEF Enters
<1>8. CASE e.pending # {} /\ Accepted(d) = {}
  BY <1>3, <1>5, <1>6, <1>8 DEF Enters
<1>9. CASE e.pending # {} /\ Accepted(d) # {}
  <2>1. PICK v : v = Vector(d)
    OBVIOUS
  <2>2. Sound(v) /\ Enters(e, v)
    BY <1>5, <1>9, <2>1
  <2>3. x = Elapse(v, EntryUnits)
    BY <1>6, <1>9, <2>1
  <2>4. EntryUnits \in Nat
    BY UnitAssumption
  <2>5. Follows(v, x) /\ x \in Console /\ x.pulses = 0
    BY <2>2, <2>3, <2>4, ElapseDoes DEF Sound
  <2>6. Nested(x) /\ Even(x) /\ x.stack = v.stack
    BY <2>2, <2>5, FollowsSound DEF Sound
  <2>7. Tidy(x)
    BY <2>2, <2>5, TidyStays DEF Sound, Tidy
  <2>8. Enters(k, x)
    <3>1. ASSUME NEW t \in Matched, Armed(v, t) = {} PROVE Armed(x, t) = {}
      <4>1. t # Nothing
        BY Matches
      <4> QED
        BY <2>5, <3>1, <4>1 DEF Follows, Armed
    <3> QED
      BY <1>3, <2>2, <2>6, <3>1 DEF Enters
  <2> QED
    BY <2>5, <2>6, <2>7, <2>8 DEF Sound
<1> QED
  BY <1>7, <1>8, <1>9

\* A line of a HALT.
LEMMA HaltLineDoes ==
  ASSUME Sound(m), HaltLine
  PROVE  Sound(m)' /\ Enters(m, m')
<1>0. PICK k, x : k = m /\ x = m'
  OBVIOUS
<1>1. PICK e : e = Elapse(k, LineUnits)
  OBVIOUS
<1>2. Follows(k, e) /\ e \in Console /\ e.pulses = 0
  <2>1. LineUnits \in Nat
    BY UnitAssumption
  <2>2. k \in Console
    BY <1>0 DEF Sound
  <2> QED
    BY <1>1, <2>1, <2>2, ElapseDoes
<1>3. Nested(e) /\ Even(e) /\ e.stack = k.stack
  BY <1>0, <1>2, FollowsSound DEF Sound
<1>4. PICK d : d = Served(e)
  OBVIOUS
<1>5. /\ Sound(d) /\ d.stack = e.stack
      /\ Accepted(d) # {} => Sound(Vector(d)) /\ Enters(e, Vector(d))
  BY <1>2, <1>3, <1>4, DeliverDoes
<1>6. x = IF e.pending = {} THEN e
          ELSE IF e.pending # {} /\ Accepted(d) # {} THEN Vector(d) ELSE d
  BY <1>0, <1>1, <1>4 DEF HaltLine, Takes
<1>7. Sound(x) /\ Enters(k, x)
  <2>1. CASE e.pending = {}
    BY <1>2, <1>3, <1>6, <2>1, NothingWaits DEF Enters
  <2>2. CASE e.pending # {}
    <3>1. PICK v : v = Vector(d)
      OBVIOUS
    <3> QED
      BY <1>3, <1>5, <1>6, <2>2, <3>1 DEF Enters
  <2> QED
    BY <2>1, <2>2
<1> QED
  BY <1>0, <1>7

\* What an action leaves.
LEMMA RunDoes == ASSUME Sound(m), Run PROVE Sound(m)' /\ Enters(m, m')
<1>1. PICK u \in 1 .. MaxInstr, asks \in SUBSET Outside :
        m' = Instruction([m EXCEPT !.pending = @ \cup asks], u)
  BY DEF Run
<1>2. PICK k, y, x : k = m /\ y = [m EXCEPT !.pending = @ \cup asks] /\ x = m'
  OBVIOUS
<1>3. k \in Console /\ Nested(k) /\ Even(k)
  BY <1>2 DEF Sound
<1>4. PICK p : p = k.pending \cup asks
  OBVIOUS
<1>5. p \in SUBSET Source /\ \A t \in Matched : t \in p <=> t \in k.pending
  <2>1. k.pending \subseteq Source
    BY <1>3 DEF Console
  <2>2. Outside \subseteq Source \ Matched
    BY SoftwareAssumption
  <2> QED
    BY <1>4, <2>1, <2>2
<1>6. y = [k EXCEPT !.pending = p]
  BY <1>2, <1>4
<1>7. y \in Console
  BY <1>3, <1>5, <1>6, ZenonT(30) DEF Console
<1>8. /\ y.program = k.program /\ y.level = k.level /\ y.iff = k.iff /\ y.stack = k.stack
      /\ y.halted = k.halted /\ y.due = k.due /\ y.start = k.start /\ y.left = k.left
      /\ y.pending = p
  BY <1>3, <1>6 DEF Console
<1>9. Follows(k, y)
  BY <1>3, <1>5, <1>7, <1>8, Aside
<1>10. Nested(y) /\ Even(y)
  BY <1>3, <1>9, FollowsSound
<1>11. u \in Nat
  OBVIOUS
<1>12. x = Instruction(y, u)
  BY <1>1, <1>2
<1>13. Sound(x) /\ Enters(y, x)
  BY <1>7, <1>10, <1>11, <1>12, InstructionDoes
<1> QED
  BY <1>2, <1>8, <1>13 DEF Enters

\* A channel is armed on a request that may be waiting: then no other channel is armed on
\* it, and the entry is one that the pass will move.
LEMMA ArmDoes == ASSUME Sound(m), Arm PROVE Sound(m)' /\ Enters(m, m')
<1>1. PICK c \in Channel, s \in Starts, n \in Counts :
        /\ m.start[c] = Nothing
        /\ Does([m EXCEPT !.start[c] = s, !.left[c] = n,
                          !.due[c] = IF s \in m.pending THEN (n + Wrap - 1) % Wrap ELSE n])
  BY DEF Arm
<1>2. PICK due : due = IF s \in m.pending THEN Less(n) ELSE n
  OBVIOUS
<1>3. PICK k, y, x : /\ k = m /\ x = m'
                     /\ y = [m EXCEPT !.start[c] = s, !.left[c] = n, !.due[c] = due]
  OBVIOUS
<1>4. k \in Console /\ Nested(k) /\ Even(k) /\ Tidy(k)
  BY <1>3 DEF Sound
<1>5. s \in Source /\ s # Nothing /\ n \in 0 .. Wrap - 1 /\ due \in 0 .. Wrap - 1
  <2>1. s \in Source
    BY SoftwareAssumption
  <2>2. n \in 0 .. Wrap - 1
    <3>1. Counts \subseteq 0 .. Wrap - 1
      BY ChannelAssumption
    <3> QED
      BY <3>1
  <2> QED
    BY <1>2, <2>1, <2>2, LessTyped, Matches
<1>6. /\ k.left \in [Channel -> 0 .. Wrap - 1] /\ k.start \in [Channel -> Source \cup {Nothing}]
      /\ k.due \in [Channel -> 0 .. Wrap - 1]
  BY <1>4 DEF Console
<1>7. PICK start, left, dues :
         /\ start = [k.start EXCEPT ![c] = s] /\ left = [k.left EXCEPT ![c] = n]
         /\ dues = [k.due EXCEPT ![c] = due]
  OBVIOUS
<1>8. /\ start \in [Channel -> Source \cup {Nothing}] /\ left \in [Channel -> 0 .. Wrap - 1]
      /\ dues \in [Channel -> 0 .. Wrap - 1]
  BY <1>5, <1>6, <1>7
<1>9. y = [k EXCEPT !.start = start, !.left = left, !.due = dues]
  BY <1>3, <1>4, <1>7 DEF Console
<1>10. y \in Console
  <2>1. PICK z : z = [k EXCEPT !.start = start, !.left = left]
    OBVIOUS
  <2>2. z \in Console
    BY <1>4, <1>8, <2>1, ZenonT(30) DEF Console
  <2>3. y = [z EXCEPT !.due = dues]
    BY <1>4, <1>9, <2>1 DEF Console
  <2> QED
    BY <1>8, <2>2, <2>3, ZenonT(30) DEF Console
<1>11. /\ y.iff = k.iff /\ y.stack = k.stack /\ y.pending = k.pending
       /\ y.start = start /\ y.left = left /\ y.due = dues
  BY <1>4, <1>9 DEF Console
<1>12. Nested(y)
  BY <1>4, <1>11 DEF Nested
<1>13. Even(y)
  <2>1. k.start[c] = Nothing /\ Nothing \notin Matched
    BY <1>1, <1>3, Matches
  <2>2. ASSUME NEW d \in Channel, y.start[d] \in Matched
        PROVE  IF y.start[d] \in y.pending
               THEN Armed(y, y.start[d]) = {d} /\ y.due[d] = Less(y.left[d])
               ELSE y.left[d] = y.due[d]
    <3>1. CASE d = c
      <4>1. y.start[c] = s /\ y.left[c] = n /\ y.due[c] = due
        BY <1>6, <1>7, <1>11
      <4>2. s \in y.pending => Armed(k, s) = {}
        BY <1>4, <1>11, <2>2, <3>1, <4>1 DEF Tidy, Clear
      <4>3. Armed(k, s) = {} => Armed(y, s) = {c}
        BY <1>6, <1>7, <1>11 DEF Armed
      <4> QED
        BY <1>2, <1>3, <1>11, <3>1, <4>1, <4>2, <4>3
    <3>2. CASE d # c
      <4>1. y.start[d] = k.start[d] /\ y.left[d] = k.left[d] /\ y.due[d] = k.due[d]
        BY <1>6, <1>7, <1>11, <3>2
      <4>2. k.start[d] \notin k.pending
        <5>1. d \in Armed(k, k.start[d])
          BY DEF Armed
        <5> QED
          BY <1>4, <2>2, <4>1, <5>1 DEF Tidy, Clear
      <4> QED
        BY <1>4, <1>11, <2>2, <4>1, <4>2 DEF Even
    <3> QED
      BY <3>1, <3>2
  <2> QED
    BY <2>2 DEF Even
<1>14. x = Instruction(y, 1)
  BY <1>1, <1>2, <1>3 DEF Does, Less
<1>15. Sound(x) /\ Enters(y, x)
  BY <1>10, <1>12, <1>13, <1>14, InstructionDoes
<1> QED
  BY <1>3, <1>11, <1>15 DEF Enters
----------------------------------------------------------------------------
(***************************************************************************)
(* The actions, and the theorems.                                          *)
(***************************************************************************)
\* An instruction that writes what neither requests nor channels depend on.
LEMMA WritesDo ==
  ASSUME NEW k, NEW y, NEW x, x = Instruction(y, 1), Sound(k), y \in Console,
         y.pending = k.pending, y.start = k.start, y.left = k.left, y.due = k.due, y.stack = k.stack,
         \A j \in 1 .. Len(k.stack) : j = Len(k.stack) => k.stack[j].level < y.iff
  PROVE  Sound(x) /\ Enters(k, x)
<1>1. Nested(y)
  BY DEF Sound, Nested
<1>2. \A t : Armed(y, t) = Armed(k, t)
  BY DEF Armed
<1>3. Even(y)
  BY <1>2 DEF Sound, Even
<1>4. Sound(x) /\ Enters(y, x)
  BY <1>1, <1>3, InstructionDoes
<1> QED
  BY <1>4 DEF Enters

\* The timers may be programmed anew at any time.
LEMMA SetTimersDoes == ASSUME Sound(m), SetTimers PROVE Sound(m)' /\ Enters(m, m')
<1>1. PICK p \in Programs : Does([m EXCEPT !.program = p])
  BY DEF SetTimers
<1>2. PICK k, y, x : k = m /\ y = [m EXCEPT !.program = p] /\ x = m'
  OBVIOUS
<1>3. k \in Console /\ y = [k EXCEPT !.program = p] /\ p \in Program /\ Sound(k)
  BY <1>2, SoftwareAssumption DEF Sound
<1>4. y \in Console
  BY <1>3, ZenonT(30) DEF Console
<1>5. /\ y.pending = k.pending /\ y.start = k.start /\ y.left = k.left /\ y.due = k.due
      /\ y.stack = k.stack /\ y.iff = k.iff
  BY <1>3 DEF Console
<1>6. \A j \in 1 .. Len(k.stack) : j = Len(k.stack) => k.stack[j].level < y.iff
  BY <1>3, <1>5 DEF Sound, Nested
<1>7. x = Instruction(y, 1)
  BY <1>1, <1>2 DEF Does
<1>8. Sound(x) /\ Enters(k, x)
  BY <1>3, <1>4, <1>5, <1>6, <1>7, WritesDo
<1> QED
  BY <1>2, <1>8

\* Levels may change while requests wait and handlers run.
LEMMA SetLevelsDoes == ASSUME Sound(m), SetLevels PROVE Sound(m)' /\ Enters(m, m')
<1>1. PICK l \in LevelMaps : Does([m EXCEPT !.level = l])
  BY DEF SetLevels
<1>2. PICK k, y, x : k = m /\ y = [m EXCEPT !.level = l] /\ x = m'
  OBVIOUS
<1>3. k \in Console /\ y = [k EXCEPT !.level = l] /\ l \in [Source -> 0 .. 7] /\ Sound(k)
  BY <1>2, SoftwareAssumption DEF Sound
<1>4. y \in Console
  BY <1>3, ZenonT(30) DEF Console
<1>5. /\ y.pending = k.pending /\ y.start = k.start /\ y.left = k.left /\ y.due = k.due
      /\ y.stack = k.stack /\ y.iff = k.iff
  BY <1>3 DEF Console
<1>6. \A j \in 1 .. Len(k.stack) : j = Len(k.stack) => k.stack[j].level < y.iff
  BY <1>3, <1>5 DEF Sound, Nested
<1>7. x = Instruction(y, 1)
  BY <1>1, <1>2 DEF Does
<1>8. Sound(x) /\ Enters(k, x)
  BY <1>3, <1>4, <1>5, <1>6, <1>7, WritesDo
<1> QED
  BY <1>2, <1>8

\* EI n in a handler stays above its level.
LEMMA EnableDoes == ASSUME Sound(m), Enable PROVE Sound(m)' /\ Enters(m, m')
<1>1. PICK n \in Masks :
        (m.stack # <<>> => n > Last(m.stack).level) /\ Does([m EXCEPT !.iff = n])
  BY DEF Enable
<1>2. PICK k, y, x : k = m /\ y = [m EXCEPT !.iff = n] /\ x = m'
  OBVIOUS
<1>3. k \in Console /\ y = [k EXCEPT !.iff = n] /\ n \in 0 .. 7 /\ Sound(k)
  BY <1>2, SoftwareAssumption DEF Sound
<1>4. y \in Console
  BY <1>3, ZenonT(30) DEF Console
<1>5. /\ y.pending = k.pending /\ y.start = k.start /\ y.left = k.left /\ y.due = k.due
      /\ y.stack = k.stack /\ y.iff = n /\ k.stack \in Seq(Frame)
  BY <1>3 DEF Console
<1>6. ASSUME NEW j \in 1 .. Len(k.stack), j = Len(k.stack) PROVE k.stack[j].level < y.iff
  <2>1. k.stack # <<>> /\ k.stack[j] \in Frame
    BY <1>5, <1>6
  <2>2. n > k.stack[j].level
    BY <1>1, <1>2, <1>6, <2>1 DEF Last
  <2>3. k.stack[j].level \in 1 .. 6
    BY <2>1 DEF Frame
  <2> QED
    BY <1>3, <1>5, <2>2, <2>3
<1>7. x = Instruction(y, 1)
  BY <1>1, <1>2 DEF Does
<1>8. Sound(x) /\ Enters(k, x)
  BY <1>3, <1>4, <1>5, <1>6, <1>7, WritesDo
<1> QED
  BY <1>2, <1>8

\* RETI goes back to a handler that is below what interrupted it.
LEMMA RetiDoes == ASSUME Sound(m), Reti PROVE Sound(m)' /\ Len(m'.stack) <= Len(m.stack)
<1>1. m.stack # <<>> /\ Does([m EXCEPT !.iff = Last(m.stack).iff, !.stack = Front(@)])
  BY DEF Reti
<1>2. PICK k, y, x, iff, stack :
         /\ k = m /\ x = m' /\ iff = Last(m.stack).iff /\ stack = Front(m.stack)
         /\ y = [m EXCEPT !.iff = iff, !.stack = stack]
  OBVIOUS
<1>3. k \in Console /\ Sound(k) /\ k.stack \in Seq(Frame) /\ k.stack # <<>>
  BY <1>1, <1>2 DEF Sound, Console
<1>4. PICK n : n = Len(k.stack)
  OBVIOUS
<1>5. /\ n \in Nat \ {0} /\ k.stack[n] \in Frame /\ iff = k.stack[n].iff /\ iff \in 0 .. 7
      /\ stack = SubSeq(k.stack, 1, n - 1)
  <2>1. n \in Nat \ {0} /\ k.stack[n] \in Frame
    BY <1>3, <1>4
  <2> QED
    BY <1>2, <1>4, <2>1 DEF Last, Front, Frame
<1>6. /\ stack \in Seq(Frame) /\ Len(stack) = n - 1
      /\ \A i \in 1 .. n - 1 : stack[i] = k.stack[i]
  BY <1>3, <1>4, <1>5
<1>7. y = [k EXCEPT !.iff = iff, !.stack = stack]
  BY <1>2
<1>8. y \in Console
  BY <1>3, <1>5, <1>6, <1>7, ZenonT(30) DEF Console
<1>9. /\ y.pending = k.pending /\ y.start = k.start /\ y.left = k.left /\ y.due = k.due
      /\ y.stack = stack /\ y.iff = iff
  BY <1>3, <1>7 DEF Console
<1>10. Nested(y)
  <2>1. ASSUME NEW i \in 1 .. n - 1, NEW j \in 1 .. n - 1, i < j PROVE stack[i].level < stack[j].level
    BY <1>3, <1>4, <1>5, <1>6, <2>1, SMTT(30) DEF Sound, Nested
  <2>2. ASSUME NEW i \in 1 .. n - 1, NEW j \in 1 .. n - 1, j = i + 1 PROVE stack[i].level < stack[j].iff
    BY <1>3, <1>4, <1>5, <1>6, <2>2, SMTT(30) DEF Sound, Nested
  <2>3. ASSUME NEW j \in 1 .. n - 1, j = n - 1 PROVE stack[j].level < iff
    <3>1. j \in 1 .. n /\ n \in 1 .. n /\ n = j + 1
      BY <1>5, <2>3
    <3>2. k.stack[j].level < k.stack[n].iff
      BY <1>3, <1>4, <3>1 DEF Sound, Nested
    <3> QED
      BY <1>5, <1>6, <3>2
  <2> QED
    BY <1>6, <1>9, <2>1, <2>2, <2>3 DEF Nested
<1>11. \A t : Armed(y, t) = Armed(k, t)
  BY <1>9 DEF Armed
<1>12. Even(y)
  BY <1>3, <1>9, <1>11 DEF Sound, Even
<1>13. x = Instruction(y, 1)
  BY <1>1, <1>2 DEF Does
<1>14. Sound(x) /\ Enters(y, x)
  BY <1>8, <1>10, <1>12, <1>13, InstructionDoes
<1>15. Len(x.stack) <= n
  BY <1>5, <1>6, <1>9, <1>14 DEF Enters
<1> QED
  BY <1>2, <1>4, <1>14, <1>15

\* HALT, and the sound CPU's answer.
LEMMA HaltDoes == ASSUME Sound(m), Halt \/ SoundAck PROVE Sound(m)' /\ Enters(m, m')
<1>1. PICK k, x : k = m /\ x = m'
  OBVIOUS
<1>2. k \in Console /\ Sound(k)
  BY <1>1 DEF Sound
<1>3. x = [k EXCEPT !.halted = TRUE] \/ x = [k EXCEPT !.soundInt = FALSE]
  BY <1>1 DEF Halt, SoundAck
<1>4. x \in Console
  <2>1. CASE x = [k EXCEPT !.halted = TRUE]
    BY <1>2, <2>1, ZenonT(30) DEF Console
  <2>2. CASE x = [k EXCEPT !.soundInt = FALSE]
    BY <1>2, <2>2, ZenonT(30) DEF Console
  <2> QED
    BY <1>3, <2>1, <2>2
<1>5. /\ x.pending = k.pending /\ x.start = k.start /\ x.left = k.left /\ x.due = k.due
      /\ x.stack = k.stack /\ x.iff = k.iff /\ x.pulses = k.pulses
  BY <1>2, <1>3 DEF Console
<1>6. \A t : Armed(x, t) = Armed(k, t)
  BY <1>5 DEF Armed
<1>7. Sound(x)
  BY <1>2, <1>4, <1>5, <1>6 DEF Sound, Nested, Even, Tidy, Clear
<1> QED
  BY <1>1, <1>5, <1>7 DEF Enters

\* The console as it is switched on.
LEMMA BootsSound ==
  ASSUME NEW k \in Boots, NEW n \in Nat
  PROVE  LET x == [k EXCEPT !.cost = n] IN Sound(x) /\ Sound(k) /\ x.stack = <<>>
<1>1. \A s \in Source : Fresh[s] \in 0 .. 7
  BY DEF Fresh
<1>2. Fresh \in [Source -> 0 .. 7] /\ HandedOver \in [Source -> 0 .. 7]
  <2>1. Fresh \in [Source -> 0 .. 7]
    BY <1>1 DEF Fresh
  <2>2. PICK f \in [Source -> 0 .. 7] : f = Fresh
    BY <2>1
  <2>3. 4 \in 0 .. 7 /\ 5 \in 0 .. 7
    OBVIOUS
  <2>4. PICK g : g = [f EXCEPT !["vblank"] = 4]
    OBVIOUS
  <2>5. g \in [Source -> 0 .. 7]
    BY <2>3, <2>4, Zenon
  <2>6. HandedOver = [g EXCEPT !["int5"] = 5]
    BY <2>2, <2>4, Zenon DEF HandedOver
  <2>7. [g EXCEPT !["int5"] = 5] \in [Source -> 0 .. 7]
    BY <2>3, <2>5, Zenon
  <2> QED
    BY <2>1, <2>6, <2>7, Zenon
<1>3. PICK iff \in 0 .. 7, levels \in [Source -> 0 .. 7] : k = PowerOn(iff, levels)
  BY <1>2 DEF Boots
<1>4. /\ 0 \in 0 .. LineUnits - 1 /\ 0 \in 0 .. LastLine /\ 0 \in 0 .. TapUnits - 1
      /\ 0 \in 0 .. Wrap - 1 /\ 0 \in 0 .. 1 /\ 0 \in Nat
  BY UnitAssumption
<1>5. Off \in Program
  BY DEF Off, Program
<1>6. /\ {} \in SUBSET Source /\ [i \in Timer |-> 0] \in [Timer -> Nat]
      /\ [i \in Timer |-> 0] \in [Timer -> 0 .. TapUnits - 1]
      /\ [c \in Channel |-> Nothing] \in [Channel -> Source \cup {Nothing}]
      /\ [c \in Channel |-> 0] \in [Channel -> 0 .. Wrap - 1]
      /\ <<>> \in Seq(Frame)
  BY <1>4
<1>7. k \in Console
  BY <1>3, <1>4, <1>5, <1>6, ZenonT(30) DEF Console, PowerOn
<1>8. k.pulses = 0 /\ k.pending = {} /\ k.stack = <<>> /\ \A c \in Channel : k.start[c] = Nothing
  BY <1>3 DEF PowerOn
<1>9. Sound(k)
  BY <1>7, <1>8, Matches DEF Sound, Nested, Even, Tidy, Clear
<1>10. PICK x : x = [k EXCEPT !.cost = n]
  OBVIOUS
<1>11. x \in Console
  BY <1>7, <1>10, ZenonT(30) DEF Console
<1>12. x.pulses = 0 /\ x.pending = {} /\ x.stack = <<>> /\ \A c \in Channel : x.start[c] = Nothing
  BY <1>7, <1>8, <1>10 DEF Console
<1>13. Sound(x)
  BY <1>11, <1>12, Matches DEF Sound, Nested, Even, Tidy, Clear
<1> QED
  BY <1>9, <1>10, <1>12, <1>13

\* A reset in the middle of anything.
LEMMA ResetDoes == ASSUME Sound(m), Reset PROVE Sound(m)' /\ m'.stack = <<>>
<1>1. PICK k \in Boots : m' = [k EXCEPT !.cost = m.cost]
  BY DEF Reset
<1>2. PICK x, n : x = m' /\ n = m.cost
  OBVIOUS
<1>3. n \in Nat
  BY <1>2 DEF Sound, Console
<1>4. Sound(x) /\ x.stack = <<>>
  BY <1>1, <1>2, <1>3, BootsSound
<1> QED
  BY <1>2, <1>4

\* A match that a channel waits for never vectors the processor, step by step.
Deaf(k, x) ==
  Len(x.stack) > Len(k.stack) /\ Last(x.stack).by \in Matched => Armed(x, Last(x.stack).by) = {}

\* A handler entered is the last on the stack.
LEMMA EntersDeaf ==
  ASSUME NEW k, NEW x, k \in Console, Enters(k, x)
  PROVE  Deaf(k, x)
<1>1. k.stack \in Seq(Frame)
  BY DEF Console
<1>2. CASE x.stack = k.stack
  BY <1>1, <1>2 DEF Deaf
<1>3. ASSUME NEW f \in Frame, x.stack = Append(k.stack, f), f.by \in Matched => Armed(x, f.by) = {}
      PROVE  Deaf(k, x)
  <2>1. Last(x.stack) = f
    BY <1>1, <1>3 DEF Last
  <2> QED
    BY <1>3, <2>1 DEF Deaf
<1> QED
  BY <1>2, <1>3 DEF Enters

\* Every action keeps the console sound.
LEMMA NextSound == ASSUME Sound(m), [Next]_m PROVE Sound(m)' /\ Deaf(m, m')
<1>0. m \in Console /\ m.stack \in Seq(Frame)
  BY DEF Sound, Console
<1>1. CASE Run \/ Arm \/ SetTimers \/ SetLevels \/ Enable \/ Halt \/ HaltLine \/ SoundAck
  <2>1. Sound(m)' /\ Enters(m, m')
    BY <1>1, RunDoes, ArmDoes, SetTimersDoes, SetLevelsDoes, EnableDoes, HaltDoes, HaltLineDoes
  <2> QED
    BY <1>0, <2>1, EntersDeaf
<1>2. CASE Reti
  <2>1. Sound(m)' /\ Len(m'.stack) <= Len(m.stack)
    BY <1>2, RetiDoes
  <2>2. m'.stack \in Seq(Frame)
    BY <2>1 DEF Sound, Console
  <2>3. ~(Len(m'.stack) > Len(m.stack))
    BY <1>0, <2>1, <2>2
  <2> QED
    BY <2>1, <2>3 DEF Deaf
<1>3. CASE Reset
  <2>1. Sound(m)' /\ m'.stack = <<>>
    BY <1>3, ResetDoes
  <2>2. ~(Len(m'.stack) > Len(m.stack))
    BY <1>0, <2>1
  <2> QED
    BY <2>1, <2>2 DEF Deaf
<1>4. CASE UNCHANGED m
  <2>1. ~(Len(m'.stack) > Len(m.stack))
    BY <1>0, <1>4
  <2> QED
    BY <1>4, <2>1 DEF Deaf
<1> QED
  BY <1>1, <1>2, <1>3, <1>4 DEF Next

\* The console is sound when it is switched on.
LEMMA InitSound == Init => Sound(m)
BY BootsSound DEF Init

\* Every field of the console keeps its type, whatever software writes and whichever
\* devices ask (timer_tick, micro_dma_service, deliver_irq).
THEOREM TypeCorrect == Spec => []TypeOK
<1>1. Sound(m) => TypeOK
  BY DEF Sound, Console, TypeOK
<1> QED
  BY <1>1, InitSound, NextSound, PTL DEF Spec

\* The entries of a micro-DMA table keep up with the matches of the timer it is armed on,
\* however many fall into one instruction and whatever else happens in between (the service
\* point of timer_tick).
THEOREM EntriesAlwaysKeepUp == Spec => []EntriesKeepUp
<1>1. ASSUME Sound(m), NEW c \in Channel, m.start[c] \in Matched PROVE m.left[c] = m.due[c]
  <2>1. c \in Armed(m, m.start[c])
    BY DEF Armed
  <2> QED
    BY <1>1, <2>1 DEF Sound, Even, Tidy, Clear
<1>2. Sound(m) => EntriesKeepUp
  BY <1>1 DEF EntriesKeepUp
<1> QED
  BY <1>2, InitSound, NextSound, PTL DEF Spec

\* A handler is only interrupted by what outranks it, to any depth (deliver_irq raises the
\* mask above the level it takes).
THEOREM HandlersAlwaysNest == Spec => []HandlersNest
<1>1. Sound(m) => HandlersNest
  <2>1. Sound(m) => DOMAIN m.stack = 1 .. Len(m.stack)
    BY DEF Sound, Console
  <2>2. Sound(m) => \A i, j \in 1 .. Len(m.stack) : i < j => m.stack[i].level < m.stack[j].level
    BY DEF Sound, Nested
  <2> QED
    BY <2>1, <2>2 DEF HandlersNest
<1> QED
  BY <1>1, InitSound, NextSound, PTL DEF Spec

\* The processor never takes a match that a channel waits for: the micro-DMA comes first in
\* deliver_irq and in each tick.
THEOREM ArmedMatchesNeverInterrupt == Spec => ArmedNeverInterrupts
<1>1. ASSUME Sound(m), [Next]_m
      PROVE  [Len(m'.stack) > Len(m.stack) /\ Last(m'.stack).by \in Matched
                => Armed(m', Last(m'.stack).by) = {}]_m
  BY <1>1, NextSound DEF Deaf
<1> QED
  BY <1>1, InitSound, NextSound, PTL DEF Spec, ArmedNeverInterrupts
============================================================================
