------------------------------ MODULE LinkCable ------------------------------
(***************************************************************************)
(* Two cabled consoles in one process, advanced by ngpc_run_linked         *)
(* (cpp/src/core.cpp): the console that is behind in emulated time runs    *)
(* next, for a slice of a fraction of the cable's byte time, and control   *)
(* comes back to relay the cable as soon as a byte is on the wire or an RTS*)
(* line moved.  A slice is one ngpc_run; one step of Instr is one          *)
(* instruction: what the game does with its serial channel, then           *)
(* serial_tick.  A call lasts one frame, which is what its callers ask for.*)
(*                                                                         *)
(* The games are the environment: they write a byte when the last          *)
(* INTTX0 allows it, read one when INTRX0 announced it, and raise and lower*)
(* RTS.  Byte number n of console c is <<c, n>>; wrote and read are history*)
(* variables.  The instruction budget of a call and its limit of 512 slices*)
(* that retire nothing are left out: a frame stays well within both.       *)
(***************************************************************************)
EXTENDS SerialChannel, FiniteSets

CONSTANTS
  A, B,
  Silicon,       \* timing models tried: a set of BOOLEANs
  Quantum,       \* cable_quantum_cycles
  LineTicks,     \* cycles of a scanline
  Scanlines,     \* scanlines of a frame
  Costs,         \* cycles of one instruction
  Places,        \* what a program may come to: "code", "halt", "breakpoint", "trap"
  MaxBytes,      \* bound of the model: bytes each game sends, of each console
  MaxToggles,    \* bound of the model: times it raises its RTS
  Snapshots      \* does the host capture, save and restore between two calls

Console == {A, B}
Peer(c) == IF c = A THEN B ELSE A

Nobody == "nobody"

ASSUME TwoConsoles == A # B /\ Nobody \notin {A, B}
ASSUME LinkAssumption ==
  /\ Silicon \subseteq BOOLEAN /\ Snapshots \in BOOLEAN
  /\ {Quantum, LineTicks, Scanlines} \subseteq Nat \ {0}
  /\ Costs \subseteq Nat \ {0} /\ IsFiniteSet(Costs) /\ Costs # {}
  /\ "code" \in Places /\ Places \subseteq {"code", "halt", "breakpoint", "trap"}
  /\ MaxBytes \in [{A, B} -> Nat] /\ MaxToggles \in [{A, B} -> Nat]

VARIABLES
  chan,     \* the serial channel of each console
  wrote,    \* bytes the game of c has written
  read,     \* bytes the game of c has read, in order
  toggles,  \* times the game of c has raised RTS
  place,    \* what the next instruction of c is
  lines,    \* scanlines idled in the HALT being executed
  turn,     \* the console inside ngpc_run, or Nobody
  quota,    \* instructions left in its slice
  ran,      \* an instruction of this slice has retired
  used,     \* cycles run in this call
  pos,      \* cycles into the frame
  done,     \* the frame of c is complete
  stopped,  \* c stopped in this call
  over,     \* the call gave up on a console that retires nothing
  saved     \* a snapshot of the pair, NoState, or Loaded once it has been loaded

gameVars == <<wrote, read, toggles>>
clockVars == <<used, pos, done>>
sliceVars == <<turn, quota, ran>>
callVars == <<lines, sliceVars, clockVars, stopped, over>>
vars == <<chan, gameVars, place, callVars, saved>>

NoState == [state |-> "none"]
Loaded == [state |-> "loaded"]
Fat == CHOOSE n \in Costs : \A m \in Costs : m <= n
FrameTicks == LineTicks * Scanlines

Init ==
  /\ \E silicon \in Silicon, ctse \in [Console -> BOOLEAN] :
       chan = [c \in Console |-> SetEnabled(Fresh(silicon, ctse[c]), TRUE)]
  /\ wrote = [c \in Console |-> 0] /\ read = [c \in Console |-> <<>>]
  /\ toggles = [c \in Console |-> 0]
  /\ place = [c \in Console |-> "code"] /\ lines = 0
  /\ turn = Nobody /\ quota = 0 /\ ran = FALSE
  /\ used = [c \in Console |-> 0] /\ pos = [c \in Console |-> 0]
  /\ done = [c \in Console |-> FALSE] /\ stopped = [c \in Console |-> FALSE]
  /\ over = FALSE
  /\ saved = NoState

(***************************************************************************)
(* relay_pair: cross the handshake lines, then move the bytes              *)
(***************************************************************************)
\* Mutant of Crossed: the handshake lines are looked at only when a byte crosses.
CrossedWithBytes(ch, c) ==
  IF \A p \in Console : ch[p].tx = <<>> THEN ch[c] ELSE SetCts(ch[c], ch[Peer(c)].rts)

Crossed(ch, c) == SetCts(ch[c], ch[Peer(c)].rts)

Relayed(ch) ==
  [c \in Console |->
    [Crossed(ch, c) EXCEPT !.rx = @ \o ch[Peer(c)].tx, !.tx = <<>>]]

(***************************************************************************)
(* ngpc_run_linked: whose turn it is                                       *)
(***************************************************************************)
Out(c) == done[c] \/ stopped[c]

\* Mutant of Lags: player 1 runs first as long as its frame lasts.
LagsFirst(c) == ~Out(c) /\ (c = A \/ Out(A))

\* The console that runs next; ties to A.
Lags(c) ==
  /\ ~Out(c)
  /\ Out(Peer(c)) \/ used[c] < used[Peer(c)] \/ (used[c] = used[Peer(c)] /\ c = A)

Least(a, b) == IF a < b THEN a ELSE b
Most(a, b) == IF a < b THEN b ELSE a
Chunk(c) == Most(1, Least(FrameTicks - pos[c], Quantum) \div Fat)

Turn(c) ==
  /\ turn = Nobody /\ ~over /\ Lags(c)
  /\ turn' = c /\ quota' = Chunk(c) /\ ran' = FALSE
  /\ chan' = [Relayed(chan) EXCEPT ![c].event = FALSE]
  /\ UNCHANGED <<gameVars, place, lines, clockVars, stopped, over, saved>>

\* The call ends with a last relay; the host calls again.
NextCall ==
  /\ turn = Nobody /\ (over \/ \A c \in Console : Out(c))
  /\ chan' = Relayed(chan)
  /\ used' = [c \in Console |-> 0]
  /\ done' = [c \in Console |-> FALSE] /\ stopped' = [c \in Console |-> FALSE]
  /\ over' = FALSE
  /\ UNCHANGED <<gameVars, place, lines, sliceVars, pos, saved>>

(***************************************************************************)
(* ngpc_run: one instruction, or one scanline of a HALT                    *)
(***************************************************************************)
\* n cycles of console c, whose channel is ch before they pass.
Elapse(c, ch, n) ==
  /\ chan' = [chan EXCEPT ![c] = Tick(ch, n)]
  /\ used' = [used EXCEPT ![c] = @ + n]
  /\ pos' = [pos EXCEPT ![c] = (@ + n) % FrameTicks]
  /\ done' = [done EXCEPT ![c] = @ \/ pos[c] + n >= FrameTicks]

\* Mutant of Moved: nobody is woken when the cable moves.
MovedUnseen(c) == FALSE

Moved(c) == c.event

Retired == ran' = TRUE /\ quota' = quota - 1

\* A breakpoint on the first instruction of a slice is not looked at.
Runs(c) ==
  /\ turn = c
  /\ place[c] \in {"code", "handler", "reported"} \/ (place[c] = "breakpoint" /\ ~ran)

\* The instruction retires; the slice ends if the cable moved or it was its last.
Retire(c, ch) ==
  /\ \E n \in Costs : Elapse(c, ch, n)
  /\ Retired
  /\ turn' = IF Moved(chan'[c]) \/ quota = 1 THEN Nobody ELSE c
  /\ place' \in {[place EXCEPT ![c] = next] : next \in Places}
  /\ UNCHANGED <<lines, stopped, over, saved>>

Compute(c) == Runs(c) /\ Retire(c, chan[c]) /\ UNCHANGED gameVars

Write(c) ==
  /\ Runs(c) /\ chan[c].txIrq /\ wrote[c] < MaxBytes[c]
  /\ wrote' = [wrote EXCEPT ![c] = @ + 1]
  /\ Retire(c, WriteBuf(chan[c], <<c, wrote[c] + 1>>))
  /\ UNCHANGED <<read, toggles>>

Read(c) ==
  /\ Runs(c) /\ chan[c].rxIrq
  /\ read' = [read EXCEPT ![c] = Append(@, chan[c].slot)]
  /\ Retire(c, ReadBuf(chan[c]))
  /\ UNCHANGED <<wrote, toggles>>

LowerRts(c) ==
  /\ Runs(c) /\ chan[c].rts = High
  /\ Retire(c, [chan[c] EXCEPT !.rts = Low])
  /\ UNCHANGED gameVars

RaiseRts(c) ==
  /\ Runs(c) /\ chan[c].rts = Low /\ toggles[c] < MaxToggles[c]
  /\ toggles' = [toggles EXCEPT ![c] = @ + 1]
  /\ Retire(c, [chan[c] EXCEPT !.rts = High])
  /\ UNCHANGED <<wrote, read>>

Instr(c) == Compute(c) \/ Write(c) \/ Read(c) \/ LowerRts(c) \/ RaiseRts(c)

\* The HALT idles a scanline and an interrupt ends it: its handler runs next, and the
\* cable is not looked at before the instruction after it.
Wake(c) ==
  /\ turn = c /\ place[c] = "halt"
  /\ Elapse(c, chan[c], LineTicks) /\ Retired
  /\ place' = [place EXCEPT ![c] = "handler"] /\ lines' = 0
  /\ turn' = IF quota = 1 THEN Nobody ELSE c
  /\ UNCHANGED <<gameVars, stopped, over, saved>>

\* No interrupt comes: hand back if the cable moved, and after a whole frame give up on
\* the console.
Idle(c) ==
  /\ turn = c /\ place[c] = "halt"
  /\ Elapse(c, chan[c], LineTicks)
  /\ IF Moved(chan'[c])
       THEN turn' = Nobody /\ lines' = 0 /\ UNCHANGED <<stopped, over>>
       ELSE IF lines < Scanlines
         THEN lines' = lines + 1 /\ UNCHANGED <<turn, stopped, over>>
         ELSE /\ turn' = Nobody /\ lines' = 0
              /\ stopped' = [stopped EXCEPT ![c] = TRUE] /\ over' = ~ran
  /\ UNCHANGED <<gameVars, place, quota, ran, saved>>

\* A breakpoint met after the first instruction of the slice.
Break(c) ==
  /\ turn = c /\ place[c] = "breakpoint" /\ ran
  /\ stopped' = [stopped EXCEPT ![c] = TRUE] /\ turn' = Nobody
  /\ place' = [place EXCEPT ![c] = "reported"]
  /\ UNCHANGED <<chan, gameVars, lines, quota, ran, clockVars, over, saved>>

\* An instruction that cannot be executed stops the console where it is; if it is the
\* first of its slice nothing was retired and the call ends.
Trap(c) ==
  /\ turn = c /\ place[c] = "trap"
  /\ stopped' = [stopped EXCEPT ![c] = TRUE] /\ turn' = Nobody /\ over' = ~ran
  /\ UNCHANGED <<chan, gameVars, place, lines, quota, ran, clockVars, saved>>

(***************************************************************************)
(* Between two calls the host captures the memory of a console (a rewind   *)
(* history, a debugger), or saves the pair and comes back to it once.      *)
(***************************************************************************)
Between == Snapshots /\ turn = Nobody /\ \A c \in Console : used[c] = 0 /\ ~Out(c)

Capture(c) ==
  /\ Between
  /\ chan' = [chan EXCEPT ![c] = HostRead(@)]
  /\ UNCHANGED <<gameVars, place, callVars, saved>>

Save ==
  /\ Between /\ saved = NoState
  /\ saved' = [state |-> "saved", chan |-> [c \in Console |-> Saved(chan[c])], pos |-> pos,
               place |-> place, wrote |-> wrote, read |-> read]
  /\ UNCHANGED <<chan, gameVars, place, callVars>>

Restore ==
  /\ Between /\ saved.state = "saved"
  /\ chan' = [c \in Console |-> Restored(chan[c], saved.chan[c])]
  /\ pos' = saved.pos /\ place' = saved.place
  /\ wrote' = saved.wrote /\ read' = saved.read
  /\ saved' = Loaded
  /\ UNCHANGED <<toggles, lines, sliceVars, used, done, stopped, over>>

Next ==
  \/ \E c \in Console :
       Turn(c) \/ Instr(c) \/ Wake(c) \/ Idle(c) \/ Break(c) \/ Trap(c) \/ Capture(c)
  \/ NextCall \/ Save \/ Restore

\* The host calls again and again, and a game that may write, has a byte to read, or holds
\* the other one off does something about it in the end (it is not always its turn, so
\* strong fairness: said here of the flags, which nothing else clears).
Fairness ==
  /\ \A c \in Console :
       /\ WF_vars(Turn(c)) /\ WF_vars(Instr(c))
       /\ []<>(chan[c].txIrq => wrote[c] = MaxBytes[c])
       /\ []<>~chan[c].rxIrq
       /\ []<>(chan[c].rts = Low)
  /\ WF_vars(NextCall)

Spec == Init /\ [][Next]_vars
FairSpec == Spec /\ Fairness

(***************************************************************************)
(* Properties                                                              *)
(***************************************************************************)
Bytes == UNION {{c} \X (1 .. MaxBytes[c]) : c \in Console}

\* Every variable has its type, and what is announced to the CPU is there to be read.
TypeOK ==
  /\ DOMAIN chan = Console
  /\ \A c \in Console : chan[c] \in ChannelOver(Bytes) /\ (chan[c].rxIrq => chan[c].pending)
  /\ (\A c \in Console : wrote[c] \in 0 .. MaxBytes[c] /\ toggles[c] \in 0 .. MaxToggles[c])
  /\ read \in [Console -> Seq(Bytes)]
  /\ place \in [Console -> Places \cup {"handler", "reported"}]
  /\ lines \in 0 .. Scanlines
  /\ turn \in Console \cup {Nobody} /\ quota \in Nat /\ ran \in BOOLEAN
  /\ used \in [Console -> Nat] /\ pos \in [Console -> 0 .. FrameTicks - 1]
  /\ done \in [Console -> BOOLEAN] /\ stopped \in [Console -> BOOLEAN]
  /\ over \in BOOLEAN

Sent(c) == [n \in 1 .. wrote[c] |-> <<c, n>>]
OnTheWay(c) == Arriving(chan[Peer(c)]) \o Leaving(chan[c])

\* A link cable loses nothing, doubles nothing and keeps the order: what a game wrote is
\* what the other one has read followed by what is on the way, whatever the handshake
\* lines do, wherever a console stops, and after a restore too.
NothingLost == \A c \in Console : Sent(c) = read[Peer(c)] \o OnTheWay(c)

\* While a console runs, nothing it put on the cable waits: no byte of its own is still
\* to be relayed and the other one's CTS pin is its RTS line as it is.  There are two
\* exceptions: the first instruction after a HALT, and the first slice after a state has
\* been loaded, where an edge may go unseen (the level last seen is not in the state).
CableFresh ==
  \A c \in Console : turn = c /\ place[c] # "handler" /\ saved # Loaded =>
    chan[c].tx = <<>> /\ chan[Peer(c)].cts = chan[c].rts

\* As long as both take part in the frame neither gets further ahead of the other than
\* one quantum or one instruction ("The two consoles can therefore never be more than
\* one quantum of emulated time apart", core.cpp).
GapBounded ==
  \A c \in Console : ~Out(Peer(c)) => used[c] - used[Peer(c)] <= Most(Quantum, Fat)

\* A console that stops does not take its peer down in the middle of its frame: the call
\* ends when each of the two has finished its frame or stopped.
PeerRunsOn == over => \A c \in Console : Out(c)

\* A breakpoint is reported before the instruction it is on runs.
BreakpointSeen ==
  [][\A c \in Console : place[c] = "breakpoint" => ~(used'[c] > used[c])]_vars

\* The cable is said to have moved only when a byte or an RTS line did: the first tick
\* does not invent an edge.
NoInventedEdge ==
  [][\A c \in Console : chan'[c].event /\ ~chan[c].event =>
       chan'[c].tx # chan[c].tx \/ chan'[c].rts # chan[c].rts]_vars

\* Both games' bytes all arrive: the two never hold each other off for ever.
AllArrive == <>(\A c \in Console : Len(read[c]) = MaxBytes[Peer(c)])

=============================================================================
