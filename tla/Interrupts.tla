----------------------------- MODULE Interrupts -----------------------------
(***************************************************************************)
(* Who asks for an interrupt and who gets it (cpp/src/core.cpp and         *)
(* memory.cpp): the raster and the 8-bit timers raise requests, the micro- *)
(* DMA takes the ones a channel is armed on, the processor the rest, by    *)
(* level.                                                                  *)
(*                                                                         *)
(* Time is counted in units: a line, an instruction, an interrupt entry and*)
(* a DMA transfer take whole units.  The console is one record, and every  *)
(* action is one iteration of ngpc_run's loop, one line of its HALT loop,  *)
(* or a call of the host.  Left out: channel modes the chip does not       *)
(* define, a stopped prescaler, the power NMI, the display's switch for its*)
(* own request, the host's limit on a HALT that nothing ends.              *)
(***************************************************************************)
EXTENDS Integers, SequencesExt

CONSTANTS
  LineUnits,    \* kCyclesPerScanline
  Visible,      \* kVisibleScanlines
  LastLine,     \* kScanlinesPerFrame - 1
  TapUnits,     \* the timers' internal tap
  EntryUnits,   \* an interrupt entry
  MaxInstr,     \* bound: the longest instruction
  Channel,      \* the micro-DMA channels tried: subset of 0 .. 3
  Starts,       \* the sources tried to arm them on
  Counts, Wrap, \* the counts written, and the width of DMAC
  Programs,     \* what software makes of TRUN, TxxMOD and TREG
  LevelMaps,    \* what it makes of the INTxx registers
  Masks,        \* the levels it lets in
  Outside       \* requests of other devices

ASSUME UnitAssumption ==
  /\ {LineUnits, TapUnits, MaxInstr, Wrap} \subseteq Nat \ {0}
  /\ {EntryUnits, Visible, LastLine} \subseteq Nat

ASSUME ChannelAssumption == Channel \subseteq 0 .. 3 /\ Counts \subseteq 0 .. Wrap - 1

\* FoldLeft, naming each step: TLC would evaluate FoldLeft's once for every use.
Through(Op(_, _), k, seq) ==
  LET at[i \in 0 .. Len(seq)] ==
        IF i = 0 THEN k ELSE LET before == at[i - 1] IN Op(before, seq[i])
  IN at[Len(seq)]

Timer == 0 .. 3
INTT(i) == <<"t0", "t1", "t2", "t3">>[i + 1]
INTTC(c) == <<"tc0", "tc1", "tc2", "tc3">>[c + 1]

\* kIrqSourceIndices, in its order.
Sources ==
  <<"int0", "alarm", "int5", "vblank", "t0", "t1", "t2", "t3", "ad", "rx", "tx",
    "tc0", "tc1", "tc2", "tc3">>
Source == Range(Sources)
Nothing == "none"

Matched == {INTT(i) : i \in Timer}

\* What software may have written: a program of the timers, a level for each request.
Program ==
  [on : SUBSET Timer, from : [Timer -> {"tap", "line", "cascade"}], limit : [Timer -> Nat \ {0}]]

ASSUME SoftwareAssumption ==
  /\ Programs \subseteq Program /\ LevelMaps \subseteq [Source -> 0 .. 7] /\ Masks \subseteq 0 .. 7
  /\ Starts \subseteq Source /\ Outside \subseteq Source \ Matched

VARIABLE m      \* the console

\* The timers as reset_memory leaves them.
Off == [on |-> {}, from |-> [i \in Timer |-> "tap"], limit |-> [i \in Timer |-> 1]]

PowerOn(iff, levels) ==
  [residue |-> 0, line |-> 0, pulses |-> 0, pending |-> {}, cost |-> 0,
   program |-> Off, level |-> levels,
   count |-> [i \in Timer |-> 0], clock |-> [i \in Timer |-> 0],
   half |-> 0, soundInt |-> FALSE,
   start |-> [c \in Channel |-> Nothing], left |-> [c \in Channel |-> 0],
   iff |-> iff, stack |-> <<>>, halted |-> FALSE,
   due |-> [c \in Channel |-> 0]]  \* history: what the requests since arming leave of DMAC

\* The INTxx registers as kIoPageReset leaves them.
Fresh == [s \in Source |-> IF s \in {"int0", "alarm", "vblank"} THEN 2 ELSE IF s = "int5" THEN 3 ELSE 0]

\* ngpc_reset, for the BIOS to boot, and as the BIOS hands the console to a cartridge.
HandedOver == [Fresh EXCEPT !["vblank"] = 4, !["int5"] = 5]
Boots == {PowerOn(0, Fresh), PowerOn(7, HandedOver)}

Init == m \in Boots

----------------------------------------------------------------------------
(* micro_dma_service.                                                      *)

Armed(k, s) == {c \in Channel : k.start[c] = s}

\* mutant of Disarmed: a channel that has run out keeps its vector
DisarmedKept(k, c) == k

Disarmed(k, c) == [k EXCEPT !.start[c] = Nothing]

Transfer(k, c) ==
  LET left == (k.left[c] + Wrap - 1) % Wrap
      moved == [k EXCEPT !.left[c] = left, !.cost = @ + 1]
  IN IF left = 0 THEN [Disarmed(moved, c) EXCEPT !.pending = @ \cup {INTTC(c)}] ELSE moved

\* The history of a request: one entry less to come.
Asked(k, s) ==
  IF Armed(k, s) = {} THEN k ELSE [k EXCEPT !.due[Min(Armed(k, s))] = (@ + Wrap - 1) % Wrap]

\* mutant of Offer: the request waits for the end of the instruction
OfferLater(k, s) == [Asked(k, s) EXCEPT !.pending = @ \cup {s}]

\* A match is answered by the first channel armed on it, or left to the processor.
Offer(k, s) ==
  IF Armed(k, s) = {} THEN [k EXCEPT !.pending = @ \cup {s}]
  ELSE Transfer(Asked(k, s), Min(Armed(k, s)))

Times(n, Op(_), k) == Through(LAMBDA x, i : Op(x), k, [i \in 1 .. n |-> i])

----------------------------------------------------------------------------
(* advance_raster and timer_tick.                                          *)

NewLine(k) ==
  LET line == (k.line + 1) % (LastLine + 1)
      edge == k.line < Visible /\ line >= Visible
  IN [k EXCEPT !.line = line,
               !.pulses = @ + (IF line = LastLine \/ line <= Visible - 2 THEN 1 ELSE 0),
               !.pending = @ \cup (IF edge THEN {"vblank"} ELSE {})]

AdvanceRaster(k, u) ==
  Times((k.residue + u) \div LineUnits, NewLine,
        [k EXCEPT !.residue = (@ + u) % LineUnits])

\* T03 toggles at each match, and interrupts the sound CPU once per full period.
Toggle(k, n) ==
  [k EXCEPT !.half = (@ + n) % 2, !.soundInt = @ \/ k.half + n >= 2]

\* One timer, and what it hands on to the odd timer after it.
Tick(i, u, at) ==
  LET k == at.k
      from == k.program.from[i]
      ticks == IF from = "line" THEN at.pulses
               ELSE IF from = "cascade" THEN at.carry
               ELSE (k.clock[i] + u) \div TapUnits
      matches == (k.count[i] + ticks) \div k.program.limit[i]
      counted == [k EXCEPT !.count[i] = (@ + ticks) % k.program.limit[i],
                           !.clock[i] = IF from = "tap" THEN (@ + u) % TapUnits ELSE @]
      offered == Times(matches, LAMBDA x : Offer(x, INTT(i)), counted)
  IN IF i \notin k.program.on
     THEN [at EXCEPT !.k = [k EXCEPT !.count[i] = 0, !.clock[i] = 0], !.carry = 0]
     ELSE [at EXCEPT !.k = IF i = 3 THEN Toggle(offered, matches) ELSE offered,
                     !.carry = matches]

TimerTick(k, u) ==
  Through(LAMBDA at, i : Tick(i, u, at),
           [k |-> [k EXCEPT !.pulses = 0], pulses |-> k.pulses, carry |-> 0],
           <<0, 1, 2, 3>>).k

Elapse(k, u) == TimerTick(AdvanceRaster(k, u), u)

----------------------------------------------------------------------------
(* deliver_irq.                                                            *)

Pass(k, s) ==
  IF s \in k.pending /\ Armed(k, s) # {}
  THEN Transfer([k EXCEPT !.pending = @ \ {s}], Min(Armed(k, s)))
  ELSE k

\* The micro-DMA first, and the time its transfers took.
Served(k) ==
  LET d == Through(Pass, k, Sources)
  IN IF d.cost = 0 THEN d ELSE Elapse([d EXCEPT !.cost = 0], d.cost)

\* mutant of Mask: the handler runs at the level of its own request
MaskSame(level) == level

Mask(level) == IF level + 1 > 7 THEN 7 ELSE level + 1

Accepted(k) ==
  {i \in DOMAIN Sources :
     LET s == Sources[i] IN s \in k.pending /\ k.level[s] \notin {0, 7} /\ k.level[s] >= k.iff}

\* The highest level, and of those the first in the list.
Best(k) ==
  LET top == Max({k.level[Sources[i]] : i \in Accepted(k)})
  IN Sources[Min({i \in Accepted(k) : k.level[Sources[i]] = top})]

Vector(k) ==
  LET s == Best(k) IN
  [k EXCEPT !.stack = Append(@, [iff |-> k.iff, level |-> k.level[s], by |-> s]),
            !.iff = Mask(k.level[s]), !.pending = @ \ {s}, !.halted = FALSE]

Takes(k) == k.pending # {} /\ Accepted(Served(k)) # {}

\* The end of an instruction of u units that has left the console as k.
Instruction(k, u) ==
  LET e == Elapse(k, u) IN
  IF e.pending = {} THEN e
  ELSE IF Takes(e) THEN Elapse(Vector(Served(e)), EntryUnits) ELSE Served(e)

----------------------------------------------------------------------------
(* The actions.                                                            *)

Runs == ~m.halted
Does(k) == m' = Instruction(k, 1)

\* An instruction that touches none of this, while other devices may ask.
Run ==
  /\ Runs
  /\ \E u \in 1 .. MaxInstr, asks \in SUBSET Outside :
       m' = Instruction([m EXCEPT !.pending = @ \cup asks], u)

\* A request that waited is the first one the channel answers.
Arm ==
  /\ Runs
  /\ \E c \in Channel, s \in Starts, n \in Counts :
       /\ m.start[c] = Nothing
       /\ Does([m EXCEPT !.start[c] = s, !.left[c] = n,
                         !.due[c] = IF s \in m.pending THEN (n + Wrap - 1) % Wrap ELSE n])

SetTimers == Runs /\ \E p \in Programs : m.program # p /\ Does([m EXCEPT !.program = p])
SetLevels == Runs /\ \E l \in LevelMaps : m.level # l /\ Does([m EXCEPT !.level = l])

\* EI n: a handler lets in only what outranks it.
Enable ==
  /\ Runs
  /\ \E n \in Masks :
       /\ n # m.iff /\ (m.stack # <<>> => n > Last(m.stack).level)
       /\ Does([m EXCEPT !.iff = n])

Reti ==
  /\ Runs /\ m.stack # <<>>
  /\ Does([m EXCEPT !.iff = Last(m.stack).iff, !.stack = Front(@)])

Halt == Runs /\ m' = [m EXCEPT !.halted = TRUE]

\* A parked console: a line at a time, until something is delivered.
HaltLine ==
  /\ m.halted
  /\ LET e == Elapse(m, LineUnits) IN
       m' = IF e.pending = {} THEN e
            ELSE IF Takes(e) THEN Vector(Served(e)) ELSE Served(e)

\* z80_out: the sound CPU acknowledges.
SoundAck == m.soundInt /\ m' = [m EXCEPT !.soundInt = FALSE]

\* ngpc_reset: what the transfers still owe is not in its list.
Reset == \E boot \in Boots : m' = [boot EXCEPT !.cost = m.cost]

Next ==
  \/ Run \/ Arm \/ SetTimers \/ SetLevels \/ Enable \/ Reti \/ Halt \/ HaltLine
  \/ SoundAck \/ Reset

\* The host keeps running frames: WF_m(HaltLine), with its ENABLED spelt out.
Spec == Init /\ [][Next]_m /\ (<>[]m.halted => []<><<HaltLine>>_m)
----------------------------------------------------------------------------
(* Properties.                                                             *)

\* Type invariant of the console.
TypeOK ==
  /\ m.residue \in 0 .. LineUnits - 1 /\ m.line \in 0 .. LastLine /\ m.pulses = 0
  /\ m.pending \subseteq Source /\ m.iff \in 0 .. 7 /\ m.half \in 0 .. 1
  /\ \A c \in Channel : m.left[c] \in 0 .. Wrap - 1 /\ m.start[c] \in Source \cup {Nothing}
  /\ \A i \in Timer : m.count[i] >= 0 /\ m.clock[i] \in 0 .. TapUnits - 1

\* The Nth entry of a table lands on the Nth match: a channel armed on a timer has moved
\* one entry for each match since, however many fell into one instruction.
EntriesKeepUp ==
  \A c \in Channel :
    m.start[c] \in Matched /\ c = Min(Armed(m, m.start[c])) => m.left[c] = m.due[c]

\* A match that a channel waits for never vectors the processor: the handler may not exist.
ArmedNeverInterrupts ==
  [][Len(m'.stack) > Len(m.stack) /\ Last(m'.stack).by \in Matched
       => Armed(m', Last(m'.stack).by) = {}]_m

\* A handler is only ever interrupted by what outranks it.
HandlersNest == \A i, j \in DOMAIN m.stack : i < j => m.stack[i].level < m.stack[j].level

\* A console parked on HALT that lets the vertical blank in wakes up, even when a channel
\* takes the request: it runs out.
HaltWakes ==
  m.halted /\ m.level["vblank"] \in (m.iff .. 6) \ {0} ~> ~m.halted
=============================================================================
