---------------------------- MODULE MirrorSession ----------------------------
(***************************************************************************)
(* Mirror netplay (core/netplay.py, class MirrorSession).  Two PCs each    *)
(* simulate BOTH consoles of a linked pair and exchange only the controller*)
(* bytes.  Every byte is tagged with the frame it is for, and a PC that has*)
(* not received the other player's byte for the next frame waits.          *)
(*                                                                         *)
(* net[p] is the reliable ordered pipe out of PC p (TCP or the lobby relay)*)
(* and dgrams the set of UDP datagrams ever sent: a datagram may arrive any*)
(* number of times, in any order, or never.                                *)
(*                                                                         *)
(* One call of step() is a run of Receive* actions (the loop of _drain)    *)
(* ended by Wait or Run.  Reading stops wherever the bytes received so far *)
(* stop.  stream and played are history variables: what each player's pad  *)
(* was scheduled to be, and what each PC fed its two consoles.             *)
(***************************************************************************)
EXTENDS Integers, Sequences, FiniteSets, Functions

CONSTANTS
  Host, Joiner,  \* the two PCs; player 1 is the host
  Pads, Idle,    \* pad bytes, and the byte the opening frames are pre-filled with
  Delays,        \* input delays a session may be created with
  Builds,        \* everything else the handshake compares (BIOS, core, timing)
  MaxDelay,      \* MAX_DELAY
  CheckEvery,    \* CHECK_EVERY
  Cooldown,      \* ADAPT_COOLDOWN
  Calm,          \* ADAPT_CALM
  Samples,       \* frames of delay one measured round trip may call for
  RttWindow,     \* round trips remembered (8)
  UdpWindow,     \* UDP_REDUNDANCY
  BookSize,      \* checksums kept waiting for their partner (8)
  Udp,           \* the pipe has a UDP companion (a direct connection, not the lobby)
  Faults,        \* what may go wrong outside the protocol: "leave", "cut", "drift"
  MaxFrame       \* bound of the model: frames a match lasts

PC == {Host, Joiner}
Other(p) == IF p = Host THEN Joiner ELSE Host

ASSUME PeersAssumption == Host # Joiner
ASSUME PadsAssumption == Idle \in Pads
ASSUME NumbersAssumption ==
  /\ Delays \subseteq Nat /\ Samples \subseteq Nat
  /\ MaxDelay \in Nat /\ Cooldown \in Nat /\ Calm \in Nat /\ MaxFrame \in Nat
  /\ CheckEvery \in Nat \ {0} /\ RttWindow \in Nat \ {0}
  /\ UdpWindow \in Nat \ {0} /\ BookSize \in Nat \ {0}
  /\ Udp \in BOOLEAN

VARIABLES
  settings,     \* what p's hello says: [build, delay]
  frame,        \* next frame to play
  delay,        \* current input delay
  schedTo,      \* _sched_to: last frame our own input is scheduled for
  localInputs,  \* frame -> our pad, frames not played yet
  peerInputs,   \* frame -> the peer's pad, as received
  hold,         \* _adapt_hold: no shrink before this frame
  rttRecent,    \* the last RttWindow samples
  greeted,      \* the peer's session hello has been read
  rejected,     \* why the session was refused, or "none"
  mine,         \* frame -> our checksum, until the peer's lands
  checks,       \* frame -> the peer's checksum
  peerTs,       \* a timestamp of the peer has been received (to be echoed)
  sentHist,     \* the last UdpWindow inputs scheduled, for UDP
  driftAt,      \* first frame from which p's two consoles are not the ones their
                \* inputs make (a simulation that is not the same on both PCs)
  desyncAt,     \* first frame whose checksums differed, or NoFrame
  ended,        \* "no", or why this PC left the session and closed its pipe
  cut,          \* the connection has died
  net,          \* net[p]: records p sent and Other(p) has not read
  dgrams,       \* every datagram ever sent
  stream,       \* history: frame -> pad p scheduled for it
  played        \* history: frame -> <<player 1's pad, player 2's pad>> fed by p

delayVars == <<delay, hold, rttRecent>>
bookVars == <<mine, checks, peerTs, desyncAt, driftAt>>
inputVars == <<frame, schedTo, localInputs, peerInputs, sentHist, stream, played>>
statusVars == <<greeted, rejected, ended, cut>>
vars == <<settings, delayVars, bookVars, inputVars, statusVars, net, dgrams>>

NoFrame == -1

(***************************************************************************)
(* Records                                                                 *)
(***************************************************************************)
Hello(p) == [kind |-> "HELLO", settings |-> settings[p]]
Input(f, pad) == [kind |-> "INPUT", frame |-> f, pad |-> pad]
Check(f, sum, echo) == [kind |-> "CHECK", frame |-> f, sum |-> sum, echo |-> echo]
Bye == [kind |-> "BYE"]

(***************************************************************************)
(* Dictionaries                                                            *)
(***************************************************************************)
Put(d, k, v) == [x \in DOMAIN d \cup {k} |-> IF x = k THEN v ELSE d[x]]
Without(d, K) == Restrict(d, DOMAIN d \ K)

Newest(book) ==
  LET newer(f) == {g \in DOMAIN book : g > f}
  IN  Restrict(book, {f \in DOMAIN book : Cardinality(newer(f)) < BookSize})

LastN(s, n) == IF Len(s) <= n THEN s ELSE SubSeq(s, Len(s) - n + 1, Len(s))

(***************************************************************************)
(* A session is created on each PC once the cartridges have been traded    *)
(***************************************************************************)
Prefilled(d) == [f \in 0 .. d-1 |-> Idle]

Init ==
  /\ settings \in [PC -> [build : Builds, delay : Delays]]
  /\ delay = [p \in PC |-> settings[p].delay]
  /\ hold = [p \in PC |-> 0]
  /\ rttRecent = [p \in PC |-> <<>>]
  /\ mine = [p \in PC |-> <<>>]
  /\ checks = [p \in PC |-> <<>>]
  /\ peerTs = [p \in PC |-> FALSE]
  /\ desyncAt = [p \in PC |-> NoFrame]
  /\ driftAt = [p \in PC |-> NoFrame]
  /\ frame = [p \in PC |-> 0]
  /\ schedTo = [p \in PC |-> settings[p].delay - 1]
  /\ localInputs = [p \in PC |-> Prefilled(settings[p].delay)]
  /\ peerInputs = [p \in PC |-> Prefilled(settings[p].delay)]
  /\ sentHist = [p \in PC |-> <<>>]
  /\ stream = [p \in PC |-> Prefilled(settings[p].delay)]
  /\ played = [p \in PC |-> <<>>]
  /\ greeted = [p \in PC |-> FALSE]
  /\ rejected = [p \in PC |-> "none"]
  /\ ended = [p \in PC |-> "no"]
  /\ cut = FALSE
  /\ net = [p \in PC |-> <<Hello(p)>>]
  /\ dgrams = {}

(***************************************************************************)
(* _drain: the records read, one at a time                                 *)
(***************************************************************************)
Live(p) == ended[p] = "no"

\* The next record p reads, and whether it is one of this kind.
Record(p) == Head(net[Other(p)])
Reads(p, kind) == Live(p) /\ net[Other(p)] # <<>> /\ Record(p).kind = kind

Consumed(p) == [net EXCEPT ![Other(p)] = Tail(@)]

\* Handshake.check of a session hello (the handshake is locked): why it is refused.
HelloVerdict(p, theirs) ==
  CASE theirs.build # settings[p].build -> "core_version"
    [] theirs.build = settings[p].build /\ theirs.delay # settings[p].delay -> "input_delay"
    [] OTHER -> "none"

\* Mutant of ReceiveHello: only the host checks, and it just hangs up on a mismatch.
ReceiveHelloHostOnly(p) ==
  /\ Reads(p, "HELLO")
  /\ greeted' = [greeted EXCEPT ![p] = TRUE]
  /\ rejected' = [rejected EXCEPT ![p] =
                    IF p = Host /\ @ = "none" THEN HelloVerdict(p, Record(p).settings) ELSE @]
  /\ net' = Consumed(p)
  /\ UNCHANGED <<settings, delayVars, bookVars, inputVars, ended, cut, dgrams>>

ReceiveHello(p) ==
  LET r == Record(p) IN
    /\ Reads(p, "HELLO")
    /\ greeted' = [greeted EXCEPT ![p] = TRUE]
    /\ LET why == HelloVerdict(p, r.settings)
       IN  IF why # "none" /\ rejected[p] = "none"
             THEN /\ rejected' = [rejected EXCEPT ![p] = why]
                  /\ net' = [Consumed(p) EXCEPT ![p] = Append(@, Bye)]
             ELSE /\ UNCHANGED rejected
                  /\ net' = Consumed(p)
    /\ UNCHANGED <<settings, delayVars, bookVars, inputVars, ended, cut, dgrams>>

ReceiveBye(p) ==
  /\ Reads(p, "BYE")
  /\ rejected' = [rejected EXCEPT ![p] = IF @ = "none" THEN "peer_refused" ELSE @]
  /\ net' = Consumed(p)
  /\ UNCHANGED <<settings, delayVars, bookVars, inputVars, greeted, ended, cut, dgrams>>

\* A byte for a frame already played is dropped: stored, it would never be popped.
ReceiveInput(p) ==
  LET r == Record(p) IN
    /\ Reads(p, "INPUT")
    /\ peerInputs' = [peerInputs EXCEPT ![p] =
                        IF r.frame >= frame[p] THEN Put(@, r.frame, r.pad) ELSE @]
    /\ net' = Consumed(p)
    /\ UNCHANGED <<settings, delayVars, bookVars, statusVars, dgrams>>
    /\ UNCHANGED <<frame, schedTo, localInputs, sentHist, stream, played>>

\* _follow_rtt: the delay rises at once to what the worst recent round trip needs.
FollowRtt(p, recent) ==
  \E worst \in Range(recent) :
    /\ \A s \in Range(recent) : s <= worst
    /\ rttRecent' = [rttRecent EXCEPT ![p] = recent]
    /\ IF worst > delay[p]
         THEN /\ delay' = [delay EXCEPT ![p] = IF worst < MaxDelay THEN worst ELSE MaxDelay]
              /\ hold' = [hold EXCEPT ![p] = frame[p] + Cooldown]
         ELSE UNCHANGED <<delay, hold>>

\* Mutant of ReceiveCheck: the checksum of a frame not played here yet is dropped.
ReceiveCheckPlayed(p) ==
  LET r == Record(p) IN
    /\ Reads(p, "CHECK")
    /\ checks' = IF r.frame \in DOMAIN mine[p]
                    THEN [checks EXCEPT ![p] = Put(@, r.frame, r.sum)] ELSE checks
    /\ peerTs' = [peerTs EXCEPT ![p] = TRUE]
    /\ net' = Consumed(p)
    /\ UNCHANGED <<delayVars, settings, mine, desyncAt, driftAt, inputVars, statusVars, dgrams>>

\* A checksum.  When it echoes a timestamp of ours it is a round-trip sample, unless
\* the clock has wrapped (the sample is then dropped).
ReceiveCheck(p) ==
  LET r == Record(p) IN
    /\ Reads(p, "CHECK")
    /\ checks' = [checks EXCEPT ![p] = Put(@, r.frame, r.sum)]
    /\ peerTs' = [peerTs EXCEPT ![p] = TRUE]
    /\ net' = Consumed(p)
    /\ \/ UNCHANGED delayVars
       \/ r.echo /\ \E s \in Samples : FollowRtt(p, LastN(Append(rttRecent[p], s), RttWindow))
    /\ UNCHANGED <<settings, mine, desyncAt, driftAt, inputVars, statusVars, dgrams>>

\* UDP: every frame the datagram carries that is still to be played and not yet known.
ReceiveDatagram(p, d) ==
  LET news == {f \in DOMAIN d.inputs : f >= frame[p] /\ f \notin DOMAIN peerInputs[p]}
  IN  /\ Live(p) /\ d.from = Other(p)
      /\ news # {}
      /\ peerInputs' = [peerInputs EXCEPT ![p] =
                          [f \in DOMAIN @ \cup news |->
                             IF f \in DOMAIN @ THEN @[f] ELSE d.inputs[f]]]
      /\ UNCHANGED <<settings, delayVars, bookVars, statusVars, net, dgrams>>
      /\ UNCHANGED <<frame, schedTo, localInputs, sentHist, stream, played>>

(***************************************************************************)
(* step: schedule our own input, then play one frame if the peer's is here *)
(***************************************************************************)
MaxOf(a, b) == IF a < b THEN b ELSE a

\* Mutant of At: one more frame on every call, waiting or not.
AtNext(p) == schedTo[p] + 1

\* The frame this call's pad is for.
At(p) == frame[p] + delay[p]

\* Mutant of Due: the pad is scheduled for frame + delay only, on every call.
DueOnlyAt(p) == {At(p)}

\* The frames this call schedules: one normally, several after the delay rose, none
\* after it shrank.
Due(p) == schedTo[p] + 1 .. At(p)
Scheduled(d, p, pad) ==
  [f \in DOMAIN d \cup Due(p) |-> IF f \in Due(p) THEN pad ELSE d[f]]
\* Mutant of NewInputs: the frames of a gap are filled here but not sent.
NewInputsNoGap(p, pad) ==
  IF At(p) > schedTo[p] THEN <<Input(At(p), pad)>> ELSE <<>>

NewInputs(p, pad) ==
  [i \in 1 .. MaxOf(At(p) - schedTo[p], 0) |-> Input(schedTo[p] + i, pad)]

\* Mutant of Datagram: stamped with the frame about to be played.
DatagramFromFrame(p, hist) ==
  [from |-> p,
   inputs |-> [f \in frame[p] .. frame[p] + Len(hist) - 1 |-> hist[f - frame[p] + 1].pad]]

\* A datagram says its first frame and the bytes from there on.
Datagram(p, hist) ==
  [from |-> p,
   inputs |-> [f \in hist[1].frame .. hist[1].frame + Len(hist) - 1 |->
                 hist[f - hist[1].frame + 1].pad]]

Schedule(p, pad, hist) ==
  /\ sentHist' = [sentHist EXCEPT ![p] = hist]
  /\ schedTo' = [schedTo EXCEPT ![p] = MaxOf(@, At(p))]
  /\ stream' = [stream EXCEPT ![p] = Scheduled(@, p, pad)]
  /\ dgrams' = dgrams \cup IF Udp /\ hist # <<>> THEN {Datagram(p, hist)} ELSE {}

\* Mutant of MayStep: the pre-filled frames are played without waiting for the hello.
MayStepUngreeted(p) == Live(p) /\ rejected[p] = "none" /\ frame[p] < MaxFrame

MayStep(p) == Live(p) /\ rejected[p] = "none" /\ greeted[p] /\ frame[p] < MaxFrame

\* Mutant of Wait: a PC that waits sends nothing.
WaitSilent(p, pad) ==
  /\ MayStep(p) /\ frame[p] \notin DOMAIN peerInputs[p]
  /\ UNCHANGED vars

\* The peer's input is not here: nothing is played.
Wait(p, pad) ==
  /\ MayStep(p)
  /\ frame[p] \notin DOMAIN peerInputs[p]
  /\ Schedule(p, pad, LastN(sentHist[p] \o NewInputs(p, pad), UdpWindow))
  /\ localInputs' = [localInputs EXCEPT ![p] = Scheduled(@, p, pad)]
  /\ net' = [net EXCEPT ![p] = @ \o NewInputs(p, pad)]
  /\ UNCHANGED <<settings, delayVars, bookVars, statusVars, frame, peerInputs, played>>

\* Mutant of Fed: each PC runs its own console first.
FedOwnFirst(p, own, theirs) == <<own, theirs>>

\* What the two consoles are fed for one frame, player 1's console first on both PCs.
Fed(p, own, theirs) == IF p = Host THEN <<own, theirs>> ELSE <<theirs, own>>

\* Mutant of Sum: each PC reads its own console first.
SumOwnFirst(p, now) == [fed |-> <<p, now>>, drift |-> IF driftAt[p] = NoFrame THEN {} ELSE {p}]

\* checksum(): both consoles' RAM, a function of the inputs fed so far unless this PC's
\* simulation has drifted.
Sum(p, now) == [fed |-> now, drift |-> IF driftAt[p] = NoFrame THEN {} ELSE {p}]

\* The checksums both sides now hold are compared and forgotten; the others are kept,
\* the newest BookSize of them.
CompareChecks(p, own) ==
  LET both == DOMAIN own \cap DOMAIN checks[p]
      differ == {f \in both : own[f] # checks[p][f]}
  IN  /\ mine' = [mine EXCEPT ![p] = Newest(Without(own, both))]
      /\ checks' = [checks EXCEPT ![p] = Newest(Without(@, both))]
      /\ \/ (desyncAt[p] # NoFrame \/ differ = {}) /\ UNCHANGED desyncAt
         \/ /\ desyncAt[p] = NoFrame
            /\ \E f \in differ : /\ \A g \in differ : f <= g
                                /\ desyncAt' = [desyncAt EXCEPT ![p] = f]

\* _maybe_shrink, called with the frame number already advanced.
MaybeShrink(p, f) ==
  IF /\ delay[p] > settings[p].delay /\ f >= hold[p]
     /\ rttRecent[p] # <<>> /\ \A s \in Range(rttRecent[p]) : s <= delay[p] - 1
    THEN /\ delay' = [delay EXCEPT ![p] = @ - 1]
         /\ hold' = [hold EXCEPT ![p] = f + Calm]
    ELSE UNCHANGED <<delay, hold>>

Run(p, pad) ==
  LET f == frame[p]
      local == Scheduled(localInputs[p], p, pad)
      now == Put(played[p], f, Fed(p, local[f], peerInputs[p][f]))
      due == f % CheckEvery = 0
  IN  /\ MayStep(p)
      /\ f \in DOMAIN peerInputs[p]
      /\ Schedule(p, pad, LastN(sentHist[p] \o NewInputs(p, pad), UdpWindow))
      /\ localInputs' = [localInputs EXCEPT ![p] = Without(local, {f})]
      /\ peerInputs' = [peerInputs EXCEPT ![p] = Without(@, {f})]
      /\ played' = [played EXCEPT ![p] = now]
      /\ net' = [net EXCEPT ![p] = @ \o NewInputs(p, pad) \o
                   IF due THEN <<Check(f, Sum(p, now), peerTs[p])>> ELSE <<>>]
      /\ CompareChecks(p, IF due THEN Put(mine[p], f, Sum(p, now)) ELSE mine[p])
      /\ frame' = [frame EXCEPT ![p] = f + 1]
      /\ MaybeShrink(p, f + 1)
      /\ UNCHANGED <<settings, rttRecent, peerTs, driftAt, statusVars>>

(***************************************************************************)
(* The shell ends the session (_step_mirror, _on_mirror_ended); the pipe is*)
(* closed behind what was already sent                                     *)
(***************************************************************************)
End(p, why) ==
  /\ Live(p)
  /\ ended' = [ended EXCEPT ![p] = why]
  /\ UNCHANGED <<settings, delayVars, bookVars, inputVars, greeted, rejected, cut,
                 net, dgrams>>

EndRefused(p) == rejected[p] # "none" /\ End(p, "refused")
EndDesync(p) == desyncAt[p] # NoFrame /\ End(p, "desync")
EndLost(p) ==
  /\ cut \/ (~Live(Other(p)) /\ net[Other(p)] = <<>>)
  /\ End(p, "lost")
Leave(p) == "leave" \in Faults /\ End(p, "left")

\* The connection dies under both PCs.
Cut ==
  /\ "cut" \in Faults /\ ~cut /\ cut' = TRUE
  /\ UNCHANGED <<settings, delayVars, bookVars, inputVars, greeted, rejected, ended,
                 net, dgrams>>

\* The same inputs no longer make the same consoles on this PC.
Drift(p) ==
  /\ "drift" \in Faults /\ Live(p) /\ driftAt[p] = NoFrame
  /\ driftAt' = [driftAt EXCEPT ![p] = frame[p]]
  /\ UNCHANGED <<settings, delayVars, mine, checks, peerTs, desyncAt, inputVars,
                 statusVars, net, dgrams>>

(***************************************************************************)
Receive(p) == ReceiveHello(p) \/ ReceiveBye(p) \/ ReceiveInput(p) \/ ReceiveCheck(p)
Step(p) == \E pad \in Pads : Wait(p, pad) \/ Run(p, pad)
NoticeEnd(p) == EndRefused(p) \/ EndDesync(p) \/ EndLost(p)

Next ==
  \/ \E p \in PC :
       \/ Receive(p) \/ Step(p) \/ NoticeEnd(p) \/ Leave(p) \/ Drift(p)
       \/ \E d \in dgrams : ReceiveDatagram(p, d)
  \/ Cut

\* The shell's timer calls step for as long as the session lives, TCP delivers what was
\* sent, and a closed or dead connection is noticed.  UDP promises nothing.
Fairness == \A p \in PC :
  WF_vars(Receive(p)) /\ WF_vars(Step(p)) /\ WF_vars(NoticeEnd(p))

Spec == Init /\ [][Next]_vars
FairSpec == Spec /\ Fairness

(***************************************************************************)
(* Properties                                                              *)
(***************************************************************************)
Dict(d, S) == DOMAIN d \subseteq Nat /\ \A k \in DOMAIN d : d[k] \in S

Ahead(p) == MaxOf(settings[p].delay, MaxDelay)
Compatible == settings[Host] = settings[Joiner]

Settings == [build : Builds, delay : Delays]
Sums == [fed : UNION {[0 .. f -> Pads \X Pads] : f \in 0 .. MaxFrame}, drift : SUBSET PC]
Inputs == [kind : {"INPUT"}, frame : Nat, pad : Pads]
Records == [kind : {"HELLO"}, settings : Settings]
             \cup [kind : {"BYE"}]
             \cup Inputs
             \cup [kind : {"CHECK"}, frame : Nat, sum : Sums, echo : BOOLEAN]

DelayTypeOK ==
  /\ delay \in [PC -> Nat] /\ hold \in [PC -> Nat]
  /\ rttRecent \in [PC -> Seq(Samples)]
BookTypeOK ==
  /\ DOMAIN mine = PC /\ \A p \in PC : Dict(mine[p], Sums)
  /\ DOMAIN checks = PC /\ \A p \in PC : Dict(checks[p], Sums)
  /\ peerTs \in [PC -> BOOLEAN]
  /\ desyncAt \in [PC -> Nat \cup {NoFrame}] /\ driftAt \in [PC -> Nat \cup {NoFrame}]
InputTypeOK ==
  /\ frame \in [PC -> 0 .. MaxFrame] /\ schedTo \in [PC -> Nat \cup {-1}]
  /\ DOMAIN localInputs = PC /\ \A p \in PC : Dict(localInputs[p], Pads)
  /\ DOMAIN peerInputs = PC /\ \A p \in PC : Dict(peerInputs[p], Pads)
  /\ sentHist \in [PC -> Seq(Inputs)]
  /\ DOMAIN stream = PC /\ \A p \in PC : stream[p] \in [0 .. schedTo[p] -> Pads]
  /\ DOMAIN played = PC /\ \A p \in PC : played[p] \in [0 .. frame[p]-1 -> Pads \X Pads]
StatusTypeOK ==
  /\ greeted \in [PC -> BOOLEAN] /\ cut \in BOOLEAN
  /\ rejected \in [PC -> {"none", "core_version", "input_delay", "peer_refused"}]
  /\ ended \in [PC -> {"no", "refused", "desync", "lost", "left"}]
WireTypeOK ==
  /\ net \in [PC -> Seq(Records)]
  /\ \A d \in dgrams : d.from \in PC /\ Dict(d.inputs, Pads)

\* Every variable has its type: the dictionaries map frames to pads or checksums, the
\* pipes carry records of the four kinds, the histories have no gap.
TypeOK ==
  /\ settings \in [PC -> Settings]
  /\ DelayTypeOK /\ BookTypeOK /\ InputTypeOK /\ StatusTypeOK /\ WireTypeOK

\* Both PCs feed the two consoles the same pair of bytes, in the same order, on every
\* frame both have played: the match each player sees is one match.
SameMatch ==
  \A f \in DOMAIN played[Host] \cap DOMAIN played[Joiner] :
    played[Host][f] = played[Joiner][f]

\* A frame is only ever played with the byte each player's own PC scheduled for that
\* very frame: never a guess, a default, a late or a re-tagged one.
NothingGuessed ==
  \A p \in PC : \A f \in DOMAIN played[p] :
    /\ \A q \in PC : f \in DOMAIN stream[q]
    /\ played[p][f] = <<stream[Host][f], stream[Joiner][f]>>

\* The own inputs held are exactly those of the frames from the next one to the last
\* one scheduled, whatever the delay did: no gap to fall into, nothing left behind.
OwnInputReady == \A p \in PC : DOMAIN localInputs[p] = frame[p] .. schedTo[p]

\* Two PCs whose settings differ never play a frame, although both start with enough
\* pre-filled inputs to play some.
NothingPlayedOnMismatch == ~Compatible => \A p \in PC : frame[p] = 0

\* No PC runs further ahead of the other than the input delay lets it.
SkewBounded == \A p \in PC : frame[p] <= frame[Other(p)] + Ahead(Other(p)) + 1

\* A desync is only reported when a simulation really drifted, and not for a frame
\* before it did: neither the network nor the changing delays can end a good match.
NoFalseAlarm ==
  \A p \in PC : desyncAt[p] # NoFrame =>
    \E q \in PC : driftAt[q] \in 0 .. desyncAt[p]

\* Without UDP a drift is caught in bounded time: once a checksum frame c has been
\* played after the drift, no PC gets further than the peer's input delay past it
\* without noticing, since the inputs that would take it there follow the peer's
\* checksum of c down the same pipe.  (With UDP they may overtake it.)
DriftCaughtInTime ==
  \A p, q \in PC : driftAt[q] # NoFrame =>
    \A c \in driftAt[q] .. frame[p] - Ahead(Other(p)) - 2 :
      c % CheckEvery = 0 => desyncAt[p] # NoFrame

\* "the floor: never below what both agreed" (base_delay), whatever was agreed.
DelayNeverBelowAgreed == \A p \in PC : delay[p] >= settings[p].delay

\* The frames whose bytes both players' PCs have scheduled, and those bytes.
Decided == [f \in DOMAIN stream[Host] \cap DOMAIN stream[Joiner] |->
              <<stream[Host][f], stream[Joiner][f]>>]

\* The protocol implements the promise: one match, shown in order on both screens.
OneMatch == INSTANCE Match WITH match <- Decided, screen <- played
ImplementsMatch == OneMatch!Spec

\* What was scheduled (and sent) for a frame is never revised.
ScheduleNeverRevised ==
  [][\A p \in PC : \A f \in DOMAIN stream[p] :
       f \in DOMAIN stream'[p] /\ stream'[p][f] = stream[p][f]]_vars

\* Nobody waits for ever: each PC plays the match to its end or leaves the session, even
\* when the other leaves, refuses or disappears, and whatever UDP loses.
NobodyWaitsForever == \A p \in PC : <>(frame[p] = MaxFrame \/ ~Live(p))

\* A refusal is known to both players: the other one hears of it, unless it has gone
\* away by itself or the connection has died.
RefusalReachesBoth ==
  \A p \in PC : rejected[p] # "none" ~>
    (rejected[Other(p)] # "none" \/ ended[Other(p)] = "left" \/ cut)

=============================================================================
