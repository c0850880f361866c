------------------------- MODULE LinkAttemptsProof -------------------------
(***************************************************************************)
(* Proofs about LinkAttempts, for any number of attempts, any ports, and   *)
(* every kind of player and router.                                        *)
(***************************************************************************)
EXTENDS LinkAttempts, TLAPS, SequenceTheorems

USE AttemptsAssumption

(***************************************************************************)
(* Types, and where a worker may be                                        *)
(***************************************************************************)
\* A worker that stops for a cancel was cancelled; only a host opens a port; an attempt
\* that was never started has no worker.
WorkersInv ==
  \A n \in Attempt :
    /\ pc[n] = "cancelling" => n \in cancel
    /\ pc[n] = "opening" => asked[n].role = "host"
    /\ n \notin Started => pc[n] = "off"

\* The inductive form of the types.
TypeInv == TypeOK /\ WorkersInv /\ Len(asked) <= MaxAttempts

\* The places of a worker, and the signals it may emit.
PcType == {"off", "opening", "waiting", "in", "cancelling", "failing", "done"}
Signal == [of : Started, what : {"connected", "failed", "finished"}]

\* Before the first attempt.
LEMMA InitTypes == Init => TypeInv
<1> SUFFICES ASSUME Init PROVE TypeInv
  OBVIOUS
<1>1. asked = << >> /\ signals = << >> /\ Len(asked) = 0
  BY DEF Init
<1>2. << >> \in Seq(Requests) /\ << >> \in Seq(Signal)
  OBVIOUS
<1>3. TypeOK
  BY <1>1, <1>2 DEF Init, TypeOK, Started, None, Signal, NoDialog
<1> QED
  BY <1>1, <1>3 DEF TypeInv, WorkersInv, Init, Attempt, Started

\* A signal on the queue is about an attempt that was started.
LEMMA SignalsTyped ==
  ASSUME TypeInv
  PROVE  /\ signals \in Seq(Signal) /\ Len(signals) \in Nat
         /\ \A i \in 1 .. Len(signals) : signals[i].of \in Started /\ signals[i].of \in Attempt
<1>1. signals \in Seq(Signal) /\ Started \subseteq Attempt
  BY DEF TypeInv, TypeOK, Signal, Started, Attempt
<1>2. \A i \in 1 .. Len(signals) : signals[i] \in Signal
  BY <1>1
<1> QED
  BY <1>1, <1>2 DEF Signal

\* What a worker emits comes behind what is queued.
LEMMA Emitted ==
  ASSUME TypeInv, NEW n \in Started,
         NEW whats \in {<<"finished">>, <<"failed", "finished">>, <<"connected", "finished">>}
  PROVE  /\ Emits(n, whats) \in Seq(Signal)
         /\ Len(Emits(n, whats)) = Len(signals) + Len(whats)
         /\ \A i \in 1 .. Len(signals) : Emits(n, whats)[i] = signals[i]
         /\ \A k \in 1 .. Len(whats) :
              Emits(n, whats)[Len(signals) + k] = [of |-> n, what |-> whats[k]]
<1> DEFINE new == [i \in 1 .. Len(whats) |-> [of |-> n, what |-> whats[i]]]
<1>1. Len(whats) \in {1, 2} /\ \A i \in 1 .. Len(whats) : whats[i] \in {"connected", "failed", "finished"}
  OBVIOUS
<1>2. new \in Seq(Signal) /\ Len(new) = Len(whats)
  <2>1. new \in [1 .. Len(whats) -> Signal] /\ Len(whats) \in Nat
    BY <1>1 DEF Signal
  <2> HIDE DEF new
  <2> QED
    BY <2>1, SeqDef, LenProperties
<1>3. signals \in Seq(Signal)
  BY DEF TypeInv, TypeOK, Signal
<1>4. Emits(n, whats) = signals \o new
  BY DEF Emits
<1> HIDE DEF new
<1>5. /\ signals \o new \in Seq(Signal) /\ Len(signals \o new) = Len(signals) + Len(new)
      /\ \A i \in 1 .. Len(signals) + Len(new) :
           (signals \o new)[i] = IF i <= Len(signals) THEN signals[i] ELSE new[i - Len(signals)]
  BY ONLY <1>2, <1>3, ConcatProperties, Zenon
<1>6. Len(signals) \in Nat /\ Len(new) \in Nat
  BY <1>2, <1>3
<1>7. \A i \in 1 .. Len(signals) : (signals \o new)[i] = signals[i]
  BY <1>5, <1>6
<1>8. \A k \in 1 .. Len(new) : (signals \o new)[Len(signals) + k] = new[k]
  <2> SUFFICES ASSUME NEW k \in 1 .. Len(new)
               PROVE  (signals \o new)[Len(signals) + k] = new[k]
    OBVIOUS
  <2>1. /\ Len(signals) + k \in 1 .. Len(signals) + Len(new) /\ ~(Len(signals) + k <= Len(signals))
        /\ Len(signals) + k - Len(signals) = k
    BY <1>6
  <2> QED
    BY <1>5, <2>1
<1>9. \A k \in 1 .. Len(whats) : new[k] = [of |-> n, what |-> whats[k]]
  BY DEF new
<1> QED
  BY <1>2, <1>4, <1>5, <1>7, <1>8, <1>9
\* What a slot of the Qt thread must keep: it starts no worker and moves none.
LEMMA QtTypes ==
  ASSUME TypeInv, UNCHANGED <<world, asked, pc, box>>, machine' \in BOOLEAN,
         dialog' \in Requests \cup {NoDialog, Busy}, flag' \in {"none", "host", "join"},
         {current', trade', mirror', net', rule'} \subseteq Started \cup {None},
         UNION {retiring', cancel', opened', deletes'} \subseteq Started,
         cancel \subseteq cancel', current' \notin cancel',
         signals' \in Seq(Signal)
  PROVE  TypeInv'
<1>1. Started' = Started
  BY DEF Started
<1>2. signals' \in Seq([of : Started', what : {"connected", "failed", "finished"}])
  BY <1>1 DEF Signal
<1>3. TypeOK'
  BY <1>1, <1>2 DEF TypeInv, TypeOK, world
<1>4. WorkersInv'
  BY <1>1 DEF TypeInv, WorkersInv
<1> QED
  BY <1>3, <1>4 DEF TypeInv

\* Closing a rule later moves it from the ones held to the ones being closed.
LEMMA CloseLaterTypes ==
  ASSUME TypeInv, NEW n, CloseLater(n)
  PROVE  opened' \subseteq Started /\ deletes' \subseteq Started
BY DEF CloseLater, TypeInv, TypeOK, Some

\* A connection that is adopted leaves the rules of the router well formed.
LEMMA AdoptTypes ==
  ASSUME TypeInv, NEW n \in Started, AdoptRule(n)
  PROVE  /\ opened' \subseteq Started /\ deletes' \subseteq Started
         /\ rule' \in Started \cup {None} /\ box' = box
<1>1. CASE n \notin opened
  BY <1>1 DEF AdoptRule, rules, TypeInv, TypeOK
<1>2. CASE n \in opened
  <2>1. opened' \subseteq Started /\ deletes' \subseteq Started
    BY <1>2, CloseLaterTypes DEF AdoptRule, TypeInv, TypeOK
  <2> QED
    BY <1>2, <2>1 DEF AdoptRule
<1> QED
  BY <1>1, <1>2

\* What the player and the shell's menus do.
LEMMA PlayerTypes ==
  ASSUME TypeInv,
         \/ \E request \in Requests : Ask(request)
         \/ Dismiss \/ Cancel \/ LoadGame \/ TradeDone
  PROVE  TypeInv'
<1>0. UNION {opened, deletes, retiring, cancel} \subseteq Started /\ signals \in Seq(Signal)
  BY DEF TypeInv, TypeOK, Signal
<1>1. CASE \E request \in Requests : Ask(request)
  BY <1>0, <1>1, QtTypes DEF Ask, world, workers, links, rules, TypeInv, TypeOK
<1>2. CASE Dismiss
  BY <1>0, <1>2, QtTypes DEF Dismiss, world, workers, links, rules, TypeInv, TypeOK
<1>3. CASE Cancel
  <2>1. retiring' \subseteq Started /\ cancel' \subseteq Started /\ current' \notin cancel'
    BY <1>0, <1>3 DEF Cancel, Retired, Some, TypeInv, TypeOK, None, Started
  <2> QED
    BY <1>0, <1>3, <2>1, QtTypes DEF Cancel, Disarmed, world, workers, links, rules, TypeInv, TypeOK
<1>4. CASE LoadGame
  BY <1>0, <1>4, QtTypes DEF LoadGame, world, workers, links, rules, TypeInv, TypeOK
<1>5. CASE TradeDone
  BY <1>0, <1>5, QtTypes DEF TradeDone, world, workers, links, rules, TypeInv, TypeOK
<1> QED
  BY <1>1, <1>2, <1>3, <1>4, <1>5

\* The ways a link that is up comes to its end.
LEMMA EndingTypes ==
  ASSUME TypeInv, LeaveGame \/ CableLost \/ MirrorEnds \/ TradeFails
  PROVE  TypeInv'
<1>0. UNION {opened, deletes, retiring, cancel} \subseteq Started /\ signals \in Seq(Signal)
  BY DEF TypeInv, TypeOK, Signal
<1>1. ReleaseRule
  BY DEF LeaveGame, CableLost, MirrorEnds, TradeFails, EndNetLink, GivenBack
<1>2. opened' \subseteq Started /\ deletes' \subseteq Started /\ rule' = None /\ box' = box
  BY <1>1, CloseLaterTypes DEF ReleaseRule
<1>3. CASE LeaveGame \/ CableLost
  <2>1. EndNetLink
    BY <1>3 DEF LeaveGame, CableLost
  <2>2. retiring' \subseteq Started /\ cancel' \subseteq Started /\ current' \notin cancel'
        /\ cancel \subseteq cancel' /\ current' = None /\ net' = None
    BY <1>0, <2>1 DEF EndNetLink, Retired, Some, TypeInv, TypeOK, None, Started
  <2>3. /\ UNCHANGED <<world, asked, dialog, flag, pc, signals, trade>>
        /\ machine' \in BOOLEAN /\ mirror' \in {mirror, None}
    BY <1>3 DEF LeaveGame, CableLost, workers, TypeInv, TypeOK
  <2> QED
    BY <1>0, <1>2, <2>2, <2>3, QtTypes DEF TypeInv, TypeOK
<1>4. CASE MirrorEnds \/ TradeFails
  BY <1>0, <1>2, <1>4, QtTypes DEF MirrorEnds, TradeFails, workers, TypeInv, TypeOK
<1> QED
  BY <1>3, <1>4

\* An attempt begins: a new worker, known to nobody yet.
LEMMA AnswerTypes ==
  ASSUME TypeInv, Answer
  PROVE  TypeInv'
<1>0. UNION {opened, deletes, retiring, cancel} \subseteq Started /\ signals \in Seq(Signal)
  BY DEF TypeInv, TypeOK, Signal
<1>1. CASE current # None /\ dialog' = Busy
           /\ UNCHANGED <<world, asked, current, retiring, flag, cancel, workers, links, rules>>
  BY <1>0, <1>1, QtTypes DEF world, workers, links, rules, TypeInv, TypeOK
<1>2. CASE current = None /\ StartAttempt(dialog)
  <2> DEFINE n == Len(asked) + 1
  <2>1. asked \in Seq(Requests) /\ dialog \in Requests /\ Len(asked) \in Nat
    BY DEF TypeInv, TypeOK, Answer
  <2>2. n \in Attempt /\ asked' = Append(asked, dialog) /\ n \notin Started
    BY <1>2, <2>1 DEF StartAttempt, Attempt, Started
  <2>3. /\ asked' \in Seq(Requests) /\ Len(asked') = n /\ asked'[n] = dialog
        /\ \A k \in 1 .. Len(asked) : asked'[k] = asked[k]
    BY <2>1, <2>2, AppendProperties
  <2>4. Started' = Started \cup {n}
    BY <2>1, <2>3 DEF Started
  <2>5. /\ UNCHANGED <<world, retiring, cancel, signals, links, rules>>
        /\ current' = n /\ dialog' = NoDialog
        /\ pc' = [pc EXCEPT ![n] = IF dialog.role = "host" THEN "opening" ELSE "waiting"]
        /\ flag' = IF dialog.kind = "mirror" THEN dialog.role ELSE flag
    BY <1>2 DEF StartAttempt
  <2> HIDE DEF n
  <2>6. signals' \in Seq([of : Started', what : {"connected", "failed", "finished"}])
    <3> DEFINE S == [of : Started', what : {"connected", "failed", "finished"}]
    <3>1. signals' = signals /\ signals \in Seq(Signal)
      BY <1>0, <2>5
    <3>2. Signal \subseteq S
      BY <2>4 DEF Signal
    <3> HIDE DEF S
    <3>3. signals \in [1 .. Len(signals) -> S] /\ Len(signals) \in Nat
      BY <3>1, <3>2
    <3>4. signals \in Seq(S)
      BY <3>3, SeqDef
    <3> QED
      BY <3>1, <3>4 DEF S
  <2>7. dialog.role \in {"host", "join"}
    BY <2>1 DEF Requests
  <2>8. TypeOK'
    BY <1>0, <2>2, <2>3, <2>4, <2>5, <2>6, <2>7 DEF TypeInv, TypeOK, world, links, rules
  <2>9. WorkersInv'
    <3> SUFFICES ASSUME NEW k \in Attempt
                 PROVE  /\ pc'[k] = "cancelling" => k \in cancel'
                        /\ pc'[k] = "opening" => asked'[k].role = "host"
                        /\ k \notin Started' => pc'[k] = "off"
      BY DEF WorkersInv
    <3>1. CASE k = n
      BY <2>2, <2>3, <2>4, <2>5, <3>1 DEF TypeInv, TypeOK
    <3>2. CASE k # n
      <4>1. pc'[k] = pc[k] /\ (k \in Started' <=> k \in Started) /\ cancel' = cancel
        BY <2>4, <2>5, <3>2 DEF TypeInv, TypeOK
      <4>2. pc[k] = "opening" => k \in 1 .. Len(asked)
        BY DEF TypeInv, WorkersInv, Started
      <4> QED
        BY <2>3, <4>1, <4>2 DEF TypeInv, WorkersInv
    <3> QED
      BY <3>1, <3>2
  <2>10. Len(asked') <= MaxAttempts
    BY <2>2, <2>3 DEF Attempt
  <2> QED
    BY <2>8, <2>9, <2>10 DEF TypeInv
<1> QED
  BY <1>1, <1>2 DEF Answer

\* A worker moves itself, its queue and the router, and nothing of the Qt thread's.
LEMMA WorkerTypes ==
  ASSUME TypeInv, NEW n \in Started, Worker(n) \/ BoxDeletes(n)
  PROVE  TypeInv'
<1>0. /\ UNION {opened, deletes, retiring, cancel} \subseteq Started /\ signals \in Seq(Signal)
      /\ n \in Attempt /\ pc \in [Attempt -> PcType]
  BY DEF TypeInv, TypeOK, Signal, Started, Attempt, PcType
<1>1. UNCHANGED <<world, asked, dialog, current, retiring, flag, cancel, links>>
  BY DEF Worker, BoxDeletes, OpenPort, PeerIn, GiveUp, CloseUp, HandOver, ShellUnchanged
<1>2. Started' = Started
  BY <1>1 DEF Started
<1>3. signals' \in Seq(Signal)
  <2>1. CASE CloseUp(n)
    BY <2>1, Emitted DEF CloseUp
  <2>2. CASE HandOver(n)
    BY <2>2, Emitted DEF HandOver
  <2>3. CASE OpenPort(n) \/ PeerIn(n) \/ GiveUp(n) \/ BoxDeletes(n)
    BY <1>0, <2>3 DEF OpenPort, PeerIn, GiveUp, BoxDeletes, workers
  <2> QED
    BY <2>1, <2>2, <2>3 DEF Worker
<1>4. /\ opened' \subseteq Started /\ deletes' \subseteq Started /\ rule' = rule
      /\ box' \subseteq box \cup (IF pc[n] = "opening" THEN {asked[n].port} ELSE {})
  BY <1>0 DEF Worker, BoxDeletes, OpenPort, PeerIn, GiveUp, CloseUp, HandOver, ShellUnchanged, rules
<1>5. box' \subseteq Ports
  <2>1. pc[n] = "opening" => asked[n].port \in Ports
    BY <1>0 DEF TypeInv, TypeOK, WorkersInv, Requests, Started
  <2> QED
    BY <1>4, <2>1 DEF TypeInv, TypeOK
<1>6. /\ pc' \in [Attempt -> PcType] /\ \A k \in Attempt \ {n} : pc'[k] = pc[k]
      /\ pc'[n] # "opening" \/ pc' = pc
      /\ pc'[n] = "cancelling" => pc' = pc \/ n \in cancel
  BY <1>0 DEF Worker, BoxDeletes, OpenPort, PeerIn, GiveUp, CloseUp, HandOver, Goes, PcType, workers
<1>7. TypeOK'
  <2>1. signals' \in Seq([of : Started', what : {"connected", "failed", "finished"}])
    BY <1>2, <1>3 DEF Signal
  <2> QED
    BY <1>1, <1>2, <1>4, <1>5, <1>6, <2>1 DEF TypeInv, TypeOK, world, links, PcType
<1>8. WorkersInv'
  BY <1>0, <1>1, <1>2, <1>6 DEF TypeInv, WorkersInv
<1> QED
  BY <1>1, <1>7, <1>8 DEF TypeInv

\* A signal is delivered: the queue is one shorter.
LEMMA DeliveredHead ==
  ASSUME TypeInv, NEW what, Delivered(what)
  PROVE  /\ signals # << >> /\ Len(signals) >= 1
         /\ Head(signals) = signals[1] /\ signals[1].what = what /\ signals[1].of \in Started
         /\ signals' \in Seq(Signal) /\ Len(signals') = Len(signals) - 1
         /\ \A i \in 1 .. Len(signals') : signals'[i] = signals[i + 1]
<1>1. signals \in Seq(Signal) /\ signals # << >> /\ signals' = Tail(signals)
  BY DEF Delivered, TypeInv, TypeOK, Signal
<1>2. /\ Head(signals) \in Signal /\ signals' \in Seq(Signal) /\ Len(signals') = Len(signals) - 1
      /\ \A i \in 1 .. Len(signals') : signals'[i] = signals[i + 1]
  BY <1>1, HeadTailProperties
<1>3. Head(signals) = signals[1] /\ Len(signals) >= 1
  BY <1>1
<1> QED
  BY <1>1, <1>2, <1>3 DEF Delivered, Signal

\* The Qt thread hears the next signal.
LEMMA DeliverTypes ==
  ASSUME TypeInv, Deliver
  PROVE  TypeInv'
<1>0. UNION {opened, deletes, retiring, cancel} \subseteq Started
  BY DEF TypeInv, TypeOK
<1>1. PICK what : Delivered(what)
  BY DEF Deliver, ConnectedLate, ConnectedMirror, ConnectedCable, Failed, Finished
<1> DEFINE n == Head(signals).of
<1>2. signals' \in Seq(Signal) /\ n \in Started
  BY <1>1, DeliveredHead
<1> HIDE DEF n
<1>3. CASE ConnectedLate
  BY <1>0, <1>2, <1>3, QtTypes DEF ConnectedLate, world, links, rules, TypeInv, TypeOK
<1>4. CASE ConnectedMirror
  <2>1. AdoptRule(n) /\ trade' = n
    BY <1>4 DEF ConnectedMirror, n
  <2> QED
    BY <1>0, <1>2, <1>4, <2>1, AdoptTypes, QtTypes DEF ConnectedMirror, world, TypeInv, TypeOK
<1>5. CASE ConnectedCable
  <2>1. AdoptRule(n) /\ net' = n
    BY <1>5 DEF ConnectedCable, n
  <2> QED
    BY <1>0, <1>2, <1>5, <2>1, AdoptTypes, QtTypes DEF ConnectedCable, world, TypeInv, TypeOK
<1>6. CASE Failed
  <2>1. flag' \in {"none", flag}
    BY <1>6 DEF Failed, Disarmed
  <2> QED
    BY <1>0, <1>2, <1>6, <2>1, QtTypes DEF Failed, world, links, rules, TypeInv, TypeOK
<1>7. CASE Finished
  <2>1. current' \in {current, None} /\ retiring' \subseteq retiring /\ None \notin cancel
    BY <1>0, <1>7 DEF Finished, Forgotten, None, Started
  <2> QED
    BY <1>0, <1>2, <1>7, <2>1, QtTypes DEF Finished, world, links, rules, TypeInv, TypeOK
<1> QED
  BY <1>3, <1>4, <1>5, <1>6, <1>7 DEF Deliver

\* Types, step by step.
LEMMA NextTypes == TypeInv /\ [Next]_vars => TypeInv'
<1> SUFFICES ASSUME TypeInv, [Next]_vars PROVE TypeInv'
  OBVIOUS
<1>1. CASE UNCHANGED vars
  <2>1. Started' = Started
    BY <1>1 DEF vars, Started
  <2> QED
    BY <1>1, <2>1 DEF vars, world, workers, links, rules, TypeInv, TypeOK, WorkersInv
<1> QED
  BY <1>1, PlayerTypes, EndingTypes, AnswerTypes, WorkerTypes, DeliverTypes DEF Next

\* Types and workers, in every reachable state.
LEMMA AlwaysTypes == Spec => []TypeInv
<1> QED
  BY InitTypes, NextTypes, PTL DEF Spec

\* Every variable has its type, and the attempt pending is never one that was cancelled.
THEOREM TypeCorrect == Spec => []TypeOK
<1>1. TypeInv => TypeOK
  BY DEF TypeInv
<1> QED
  BY <1>1, AlwaysTypes, PTL

\* What comes up is the attempt that is pending, and that one was not taken back.
THEOREM CancelledNeverAttached == Spec => CancelledStaysOut
<1>1. TypeInv /\ [Next]_vars => [\A n \in Attached' \ Attached : n \notin cancel]_vars
  <2> SUFFICES ASSUME TypeInv, Next, NEW n \in Attached' \ Attached
               PROVE  n \notin cancel
    OBVIOUS
  <2>0. n # None
    BY DEF Attached
  <2>1. CASE ConnectedMirror
    <3>1. Attached' \subseteq Attached \cup {current}
      BY <2>1 DEF ConnectedMirror, FromCurrent, Attached
    <3> QED
      BY <3>1 DEF TypeInv, TypeOK
  <2>2. CASE ConnectedCable
    <3>1. Attached' \subseteq Attached \cup {current}
      BY <2>2 DEF ConnectedCable, FromCurrent, Attached
    <3> QED
      BY <3>1 DEF TypeInv, TypeOK
  <2>3. CASE TradeDone
    BY <2>3 DEF TradeDone, Attached
  <2>4. CASE LeaveGame \/ CableLost \/ MirrorEnds \/ TradeFails
    BY <2>4 DEF LeaveGame, CableLost, MirrorEnds, TradeFails, EndNetLink, Attached
  <2>5. CASE ConnectedLate \/ Failed \/ Finished
    BY <2>5 DEF ConnectedLate, Failed, Finished, links, Attached
  <2>6. CASE (\E request \in Requests : Ask(request)) \/ Dismiss \/ Answer \/ Cancel \/ LoadGame
    BY <2>6 DEF Ask, Dismiss, Answer, StartAttempt, Cancel, LoadGame, links, Attached
  <2>7. CASE \E k \in Started : Worker(k) \/ BoxDeletes(k)
    BY <2>7 DEF Worker, BoxDeletes, OpenPort, PeerIn, GiveUp, CloseUp, HandOver, ShellUnchanged, links, Attached
  <2> QED
    BY <2>1, <2>2, <2>3, <2>4, <2>5, <2>6, <2>7 DEF Next, Deliver
<1> QED
  BY <1>1, AlwaysTypes, PTL DEF Spec, CancelledStaysOut

(***************************************************************************)
(* The queue, and the objects of the threads                               *)
(***************************************************************************)
Queued(n, what) == \E i \in 1 .. Len(signals) : signals[i].of = n /\ signals[i].what = what

\* A thread that has said something is over, and "finished" is its last word: at most one
\* other came before it.
QueueInv ==
  /\ \A i \in 1 .. Len(signals) : pc[signals[i].of] = "done"
  /\ \A i, j \in 1 .. Len(signals) :
       i < j /\ signals[i].of = signals[j].of =>
         signals[i].what # "finished" /\ signals[j].what = "finished"

\* Types, the queue and the threads, which hold one another up.
HeldInv == TypeInv /\ QueueInv /\ ThreadsHeld

\* The last words of a worker.
LEMMA QueueEmits ==
  ASSUME TypeInv, QueueInv, NEW n \in Started, pc[n] # "done", Goes(n, "done"),
         NEW whats \in {<<"finished">>, <<"failed", "finished">>, <<"connected", "finished">>},
         signals' = Emits(n, whats)
  PROVE  /\ QueueInv'
         /\ \A k, what : Queued(k, what)' <=>
              Queued(k, what) \/ (k = n /\ \E i \in 1 .. Len(whats) : whats[i] = what)
<1> DEFINE l == Len(signals)
           d == Len(whats)
<1>1. /\ l \in Nat /\ d \in {1, 2} /\ Len(signals') = l + d
      /\ \A i \in 1 .. l : signals'[i] = signals[i]
      /\ \A k \in 1 .. d : signals'[l + k] = [of |-> n, what |-> whats[k]]
  <2>1. /\ Len(signals') = l + d
        /\ \A i \in 1 .. l : signals'[i] = signals[i]
        /\ \A k \in 1 .. d : signals'[l + k] = [of |-> n, what |-> whats[k]]
    BY Emitted
  <2>2. l \in Nat
    BY SignalsTyped
  <2>3. d \in {1, 2}
    OBVIOUS
  <2> QED
    BY <2>1, <2>2, <2>3
<1>2. /\ d = 2 => whats[1] # "finished" /\ whats[2] = "finished"
  OBVIOUS
<1>3. n \in Attempt /\ pc'[n] = "done" /\ \A k \in Attempt \ {n} : pc'[k] = pc[k]
  BY DEF Goes, TypeInv, TypeOK, Started, Attempt
<1>4. \A i \in 1 .. l : signals[i].of \in Attempt /\ signals[i].of # n
  BY SignalsTyped DEF QueueInv
<1> HIDE DEF l, d
<1>5. \A i \in 1 .. l + d : i \in 1 .. l \/ (i - l \in 1 .. d /\ i = l + (i - l))
  BY <1>1
<1>6. \A i \in 1 .. l + d : i \in 1 .. l \/ (signals'[i].of = n /\ signals'[i].what = whats[i - l])
  <2> SUFFICES ASSUME NEW i \in 1 .. l + d, i \notin 1 .. l
               PROVE  signals'[i].of = n /\ signals'[i].what = whats[i - l]
    OBVIOUS
  <2> DEFINE k == i - l
  <2>1. k \in 1 .. d /\ i = l + k
    BY <1>5
  <2> HIDE DEF k
  <2>2. signals'[i] = [of |-> n, what |-> whats[k]]
    BY <1>1, <2>1
  <2> QED
    BY <2>2 DEF k
<1>7. \A i \in 1 .. Len(signals') : pc'[signals'[i].of] = "done"
  <2> SUFFICES ASSUME NEW i \in 1 .. l + d PROVE pc'[signals'[i].of] = "done"
    BY <1>1
  <2>1. CASE i \in 1 .. l
    BY <1>1, <1>3, <1>4, <2>1 DEF QueueInv, l
  <2>2. CASE i \notin 1 .. l
    BY <1>3, <1>6, <2>2
  <2> QED
    BY <2>1, <2>2
<1>8. ASSUME NEW i \in 1 .. Len(signals'), NEW j \in 1 .. Len(signals'), i < j,
             signals'[i].of = signals'[j].of
      PROVE  signals'[i].what # "finished" /\ signals'[j].what = "finished"
  <2>1. CASE j \in 1 .. l
    <3>1. i \in 1 .. l /\ signals'[i] = signals[i] /\ signals'[j] = signals[j]
      BY <1>1, <1>8, <2>1
    <3> QED
      BY <1>8, <2>1, <3>1 DEF QueueInv, l
  <2>2. CASE j \notin 1 .. l /\ i \in 1 .. l
    <3>1. signals'[j].of = n /\ signals'[i].of # n
      BY <1>1, <1>4, <1>6, <2>2
    <3> QED
      BY <1>8, <3>1
  <2>3. CASE j \notin 1 .. l /\ i \notin 1 .. l
    <3>1. i - l = 1 /\ j - l = 2 /\ d = 2
      BY <1>1, <1>5, <1>8, <2>3
    <3>2. signals'[i].what = whats[1] /\ signals'[j].what = whats[2]
      BY <1>1, <1>6, <2>3, <3>1
    <3> QED
      BY <1>2, <3>1, <3>2
  <2> QED
    BY <2>1, <2>2, <2>3
<1>9. ASSUME NEW k, NEW what
      PROVE  Queued(k, what)' <=> Queued(k, what) \/ (k = n /\ \E i \in 1 .. d : whats[i] = what)
  <2>1. ASSUME Queued(k, what)
        PROVE  Queued(k, what)'
    <3>1. PICK i \in 1 .. l : signals[i].of = k /\ signals[i].what = what
      BY <2>1 DEF Queued, l
    <3>2. i \in 1 .. l + d /\ signals'[i] = signals[i]
      BY <1>1, <3>1
    <3> QED
      BY <1>1, <3>1, <3>2 DEF Queued
  <2>2. ASSUME k = n, NEW i \in 1 .. d, whats[i] = what
        PROVE  Queued(k, what)'
    <3>1. l + i \in 1 .. l + d /\ signals'[l + i] = [of |-> n, what |-> whats[i]]
      BY <1>1
    <3>2. signals'[l + i].of = k /\ signals'[l + i].what = what
      BY <2>2, <3>1
    <3> QED
      BY <1>1, <3>1, <3>2 DEF Queued
  <2>3. ASSUME Queued(k, what)'
        PROVE  Queued(k, what) \/ (k = n /\ \E i \in 1 .. d : whats[i] = what)
    <3>1. PICK i \in 1 .. l + d : signals'[i].of = k /\ signals'[i].what = what
      BY <1>1, <2>3 DEF Queued
    <3>2. CASE i \in 1 .. l
      BY <1>1, <3>1, <3>2 DEF Queued, l
    <3>3. CASE i \notin 1 .. l
      BY <1>5, <1>6, <3>1, <3>3
    <3> QED
      BY <3>2, <3>3
  <2> QED
    BY <2>1, <2>2, <2>3
<1> QED
  BY <1>7, <1>8, <1>9 DEF QueueInv, d

\* A delivery leaves the rest of the queue, and nothing of the thread that has finished.
LEMMA QueueDelivers ==
  ASSUME TypeInv, QueueInv, NEW what, Delivered(what), UNCHANGED pc
  PROVE  /\ QueueInv'
         /\ LET n == Head(signals).of IN
            /\ n \in Started /\ pc[n] = "done" /\ Queued(n, what)
            /\ \A k, w : Queued(k, w)' => Queued(k, w)
            /\ \A k, w : Queued(k, w) /\ ~(k = n /\ w = what) => Queued(k, w)'
            /\ \A k, w : k = n /\ Queued(k, w)' => w = "finished" /\ what # "finished"
<1> DEFINE n == Head(signals).of
<1>1. /\ Len(signals) \in Nat /\ Len(signals) >= 1
      /\ Head(signals) = signals[1] /\ signals[1].what = what /\ signals[1].of \in Started
      /\ Len(signals') = Len(signals) - 1
      /\ \A i \in 1 .. Len(signals') : signals'[i] = signals[i + 1]
  BY DeliveredHead DEF TypeInv, TypeOK
<1>2. \A i \in 1 .. Len(signals') : i + 1 \in 1 .. Len(signals)
  BY <1>1
<1>3. QueueInv'
  <2>1. \A i \in 1 .. Len(signals') : pc[signals'[i].of] = "done"
    BY <1>1, <1>2 DEF QueueInv
  <2>2. ASSUME NEW i \in 1 .. Len(signals'), NEW j \in 1 .. Len(signals'), i < j,
               signals'[i].of = signals'[j].of
        PROVE  signals'[i].what # "finished" /\ signals'[j].what = "finished"
    <3>1. /\ i + 1 \in 1 .. Len(signals) /\ j + 1 \in 1 .. Len(signals) /\ i + 1 < j + 1
          /\ signals'[i] = signals[i + 1] /\ signals'[j] = signals[j + 1]
      BY <1>1, <1>2, <2>2
    <3> QED
      BY <2>2, <3>1 DEF QueueInv
  <2> QED
    BY <2>1, <2>2 DEF QueueInv
<1>4. 1 \in 1 .. Len(signals) /\ n = signals[1].of
  BY <1>1
<1>5. n \in Started /\ pc[n] = "done" /\ Queued(n, what)
  BY <1>1, <1>4 DEF QueueInv, Queued
<1>6. ASSUME NEW k, NEW w, Queued(k, w)' PROVE Queued(k, w)
  BY <1>1, <1>2, <1>6 DEF Queued
<1>7. ASSUME NEW k, NEW w, Queued(k, w), ~(k = n /\ w = what) PROVE Queued(k, w)'
  <2>1. PICK i \in 1 .. Len(signals) : signals[i].of = k /\ signals[i].what = w
    BY <1>7 DEF Queued
  <2>2. i # 1
    BY <1>1, <1>7, <2>1
  <2>3. i - 1 \in 1 .. Len(signals') /\ (i - 1) + 1 = i
    BY <1>1, <2>1, <2>2
  <2>4. signals'[i - 1] = signals[i]
    BY <1>1, <2>3
  <2> QED
    BY <2>1, <2>3, <2>4 DEF Queued
<1>8. ASSUME NEW k, NEW w, k = n, Queued(k, w)' PROVE w = "finished" /\ what # "finished"
  <2>1. PICK i \in 1 .. Len(signals') : signals'[i].of = k /\ signals'[i].what = w
    BY <1>8 DEF Queued
  <2>2. /\ i + 1 \in 1 .. Len(signals) /\ 1 < i + 1
        /\ signals[i + 1].of = n /\ signals[i + 1].what = w
    BY <1>1, <1>2, <1>8, <2>1
  <2> QED
    BY <1>1, <1>4, <2>2 DEF QueueInv
<1> QED
  BY <1>3, <1>5, <1>6, <1>7, <1>8

\* The queue is left alone, and no thread that has spoken runs again.
LEMMA QueueRests ==
  ASSUME TypeInv, QueueInv, UNCHANGED signals, \A k \in Started : pc[k] = "done" => pc'[k] = "done"
  PROVE  QueueInv' /\ \A k, w : Queued(k, w)' <=> Queued(k, w)
<1>1. \A i \in 1 .. Len(signals) : signals[i].of \in Started
  BY SignalsTyped
<1> QED
  BY <1>1 DEF QueueInv, Queued

\* A player's step, and an end, leave the threads and the queue alone.
LEMMA QtHeld ==
  ASSUME HeldInv, UNCHANGED <<asked, pc, signals>>,
         \A k \in Started : k = current => k = current' \/ k \in retiring' \cap cancel',
         retiring \subseteq retiring', cancel \subseteq cancel'
  PROVE  QueueInv' /\ ThreadsHeld' /\ \A k, w : Queued(k, w)' <=> Queued(k, w)
<1>1. Started' = Started
  BY DEF Started
<1>2. QueueInv' /\ \A k, w : Queued(k, w)' <=> Queued(k, w)
  BY QueueRests DEF HeldInv
<1>3. ThreadsHeld'
  BY <1>1 DEF HeldInv, ThreadsHeld
<1> QED
  BY <1>2, <1>3

\* The end of a link tells a thread that runs to stop, and keeps it.
LEMMA EndHeld ==
  ASSUME HeldInv, EndNetLink
  PROVE  /\ \A k \in Started : k = current => k \in retiring' \cap cancel'
         /\ retiring \subseteq retiring' /\ cancel \subseteq cancel'
BY DEF EndNetLink, Retired, Some, Started, None

\* A thread that has said its last word, or that was told to stop and is kept.
LEMMA WorkerHeld ==
  ASSUME HeldInv, NEW n \in Started, Worker(n) \/ BoxDeletes(n)
  PROVE  /\ QueueInv' /\ ThreadsHeld'
         /\ \A k \in Started : pc[k] = "done" => pc'[k] = "done"
         /\ n = current /\ pc'[n] = "done" =>
              pc[n] = "done" \/ Queued(n, "connected")' \/ Queued(n, "failed")'
         /\ \A k, w : Queued(k, w) => Queued(k, w)'
         /\ \A k, w : Queued(k, w)' => Queued(k, w) \/ (k = n /\ pc[n] # "done")
<1> USE DEF HeldInv
<1>0. /\ UNCHANGED <<asked, current, retiring, cancel>> /\ Started' = Started
      /\ n \in Attempt /\ Started \subseteq Attempt /\ pc \in [Attempt -> PcType]
  BY DEF Worker, BoxDeletes, OpenPort, PeerIn, GiveUp, CloseUp, HandOver, ShellUnchanged,
         Started, Attempt, TypeInv, TypeOK, PcType
<1>1. CASE CloseUp(n) \/ HandOver(n)
  <2>1. pc[n] \in {"cancelling", "failing", "in"} /\ Goes(n, "done") /\ pc[n] # "done"
    BY <1>1 DEF CloseUp, HandOver
  <2>2. n = current => n \notin cancel /\ pc[n] # "cancelling"
    BY <1>0 DEF TypeInv, TypeOK, WorkersInv
  <2>a. PICK whats \in {<<"finished">>, <<"failed", "finished">>, <<"connected", "finished">>} :
          /\ signals' = Emits(n, whats)
          /\ n = current => whats # <<"finished">>
    <3>1. CASE CloseUp(n) /\ pc[n] = "failing"
      <4>1. signals' = Emits(n, <<"failed", "finished">>) /\ <<"failed", "finished">> # <<"finished">>
        BY <3>1 DEF CloseUp
      <4> QED
        BY <4>1
    <3>2. CASE CloseUp(n) /\ pc[n] = "cancelling"
      BY <2>2, <3>2 DEF CloseUp
    <3>3. CASE HandOver(n) /\ n \in cancel
      BY <2>2, <3>3 DEF HandOver
    <3>4. CASE HandOver(n) /\ n \notin cancel
      <4>1. signals' = Emits(n, <<"connected", "finished">>) /\ <<"connected", "finished">> # <<"finished">>
        BY <3>4 DEF HandOver
      <4> QED
        BY <4>1
    <3> QED
      BY <1>1, <3>1, <3>2, <3>3, <3>4 DEF CloseUp
  <2>3. n = current => \E i \in 1 .. Len(whats) : whats[i] \in {"connected", "failed"}
    <3>1. ASSUME n = current
          PROVE  1 \in 1 .. Len(whats) /\ whats[1] \in {"connected", "failed"}
      BY <2>a, <3>1
    <3> QED
      BY <3>1
  <2>4. /\ QueueInv'
        /\ \A k, w : Queued(k, w)' <=>
             Queued(k, w) \/ (k = n /\ \E i \in 1 .. Len(whats) : whats[i] = w)
    BY <2>1, <2>a, QueueEmits
  <2>5. pc'[n] = "done" /\ \A k \in Started \ {n} : pc'[k] = pc[k]
    BY <1>0, <2>1 DEF Goes
  <2>6. ThreadsHeld'
    BY <1>0, <2>5 DEF ThreadsHeld
  <2> QED
    BY <2>1, <2>3, <2>4, <2>5, <2>6
<1>2. CASE OpenPort(n) \/ PeerIn(n) \/ GiveUp(n) \/ BoxDeletes(n)
  <2>1. signals' = signals
    BY <1>2 DEF OpenPort, PeerIn, GiveUp, BoxDeletes, workers
  <2>2. /\ \A k \in Started \ {n} : pc'[k] = pc[k]
        /\ pc' = pc \/ (pc[n] # "done" /\ pc'[n] # "done")
    BY <1>0, <1>2 DEF OpenPort, PeerIn, GiveUp, BoxDeletes, Goes, workers
  <2>3. QueueInv' /\ \A k, w : Queued(k, w)' <=> Queued(k, w)
    BY <2>1, <2>2, QueueRests
  <2>4. ThreadsHeld'
    BY <1>0, <2>2 DEF ThreadsHeld
  <2> QED
    BY <2>2, <2>3, <2>4
<1> QED
  BY <1>1, <1>2 DEF Worker

\* Threads stay held, step by step.
LEMMA NextHeld == HeldInv /\ [Next]_vars => HeldInv'
<1> SUFFICES ASSUME HeldInv, [Next]_vars PROVE HeldInv'
  OBVIOUS
<1>0. TypeInv'
  BY NextTypes DEF HeldInv
<1> SUFFICES QueueInv' /\ ThreadsHeld'
  BY <1>0 DEF HeldInv
<1>1. CASE UNCHANGED vars \/ (\E request \in Requests : Ask(request)) \/ Dismiss \/ LoadGame \/ TradeDone
           \/ MirrorEnds \/ TradeFails
  <2>1. UNCHANGED <<asked, pc, signals, current, retiring, cancel>>
    BY <1>1 DEF vars, Ask, Dismiss, LoadGame, TradeDone, MirrorEnds, TradeFails, workers
  <2> QED
    BY <2>1, QtHeld
<1>2. CASE Cancel
  <2>1. /\ UNCHANGED <<asked, pc, signals>> /\ current \in retiring' \cap cancel'
        /\ retiring \subseteq retiring' /\ cancel \subseteq cancel'
    BY <1>2 DEF Cancel, Retired, Some, workers
  <2> QED
    BY <2>1, QtHeld
<1>3. CASE LeaveGame \/ CableLost
  <2>1. UNCHANGED <<asked, pc, signals>> /\ EndNetLink
    BY <1>3 DEF LeaveGame, CableLost, workers
  <2> QED
    BY <2>1, EndHeld, QtHeld
<1>4. CASE Answer
  <2>1. CASE current # None /\ UNCHANGED <<asked, current, retiring, cancel, workers>>
    BY <2>1, QtHeld DEF workers
  <2>2. CASE current = None /\ StartAttempt(dialog)
    <3> DEFINE n == Len(asked) + 1
    <3>1. /\ n \in Attempt /\ n \notin Started /\ Started' = Started \cup {n} /\ current' = n
          /\ UNCHANGED <<retiring, cancel, signals>>
      <4>1. asked \in Seq(Requests) /\ dialog \in Requests /\ Len(asked) \in Nat
        BY <1>4 DEF HeldInv, TypeInv, TypeOK, Answer
      <4>2. asked' = Append(asked, dialog)
        BY <2>2 DEF StartAttempt
      <4>3. Len(asked') = n
        BY <4>1, <4>2, AppendProperties
      <4> QED
        BY <2>2, <4>1, <4>3 DEF StartAttempt, Started
    <3>2. \A k \in Started : pc'[k] = pc[k]
      BY <2>2, <3>1 DEF StartAttempt, HeldInv, TypeInv, TypeOK, Started, Attempt
    <3> HIDE DEF n
    <3>3. QueueInv'
      BY <3>1, <3>2, QueueRests DEF HeldInv
    <3>4. None \notin Started
      BY DEF None, Started
    <3>5. ThreadsHeld'
      BY <2>2, <3>1, <3>2, <3>4 DEF HeldInv, ThreadsHeld
    <3> QED
      BY <3>3, <3>5
  <2> QED
    BY <1>4, <2>1, <2>2 DEF Answer
<1>5. CASE \E n \in Started : Worker(n) \/ BoxDeletes(n)
  BY <1>5, WorkerHeld
<1>6. CASE Deliver
  <2>1. PICK what : Delivered(what)
    BY <1>6 DEF Deliver, ConnectedLate, ConnectedMirror, ConnectedCable, Failed, Finished
  <2>2. UNCHANGED <<asked, pc, cancel>> /\ Started' = Started
    BY <1>6 DEF Deliver, ConnectedLate, ConnectedMirror, ConnectedCable, Failed, Finished, Started
  <2> DEFINE n == Head(signals).of
  <2>3. QueueInv' /\ n \in Started /\ pc[n] = "done"
    BY <2>1, <2>2, QueueDelivers DEF HeldInv
  <2> HIDE DEF n
  <2>4. \A k \in Started : k # n => (k = current => k = current') /\ (k \in retiring => k \in retiring')
    BY <1>6 DEF Deliver, ConnectedLate, ConnectedMirror, ConnectedCable, Failed, Finished, Forgotten, n
  <2>5. ThreadsHeld'
    BY <2>2, <2>3, <2>4 DEF HeldInv, ThreadsHeld
  <2> QED
    BY <2>3, <2>5
<1> QED
  BY <1>1, <1>2, <1>3, <1>4, <1>5, <1>6 DEF Next

\* No thread runs before the first attempt.
LEMMA InitHeld == Init => HeldInv
<1> SUFFICES ASSUME Init PROVE HeldInv
  OBVIOUS
<1>1. Len(signals) = 0 /\ Len(asked) = 0
  BY DEF Init
<1> QED
  BY <1>1, InitTypes DEF HeldInv, QueueInv, ThreadsHeld, Started

\* The invariant of the threads and of the queue.
LEMMA AlwaysHeld == Spec => []HeldInv
<1> QED
  BY InitHeld, NextHeld, PTL DEF Spec

\* No worker object is dropped while its thread runs, however often the player starts,
\* cancels, leaves the game or loses a link.
THEOREM ThreadsAlwaysHeld == Spec => []ThreadsHeld
<1>1. HeldInv => ThreadsHeld
  BY DEF HeldInv
<1> QED
  BY <1>1, AlwaysHeld, PTL

(***************************************************************************)
(* The flag that turns a connection into a match                           *)
(***************************************************************************)
Linked == net # None \/ trade # None \/ mirror # None

\* The attempt pending may still come up.
Awaited == pc[current] # "done" \/ Queued(current, "connected")

\* With a careful player nothing is asked for while a link is up, and the flag is raised
\* exactly while a mirror attempt may still come up, or its failure is on its way.
FlagInv ==
  /\ dialog \in Requests => current = None /\ ~Linked
  /\ Linked => flag = "none"
  /\ flag # "none" =>
       /\ current # None /\ asked[current].kind = "mirror"
       /\ Awaited \/ Queued(current, "failed")
  /\ current # None /\ asked[current].kind = "mirror" /\ Awaited => flag # "none"

\* A trade or a match comes of a mirror attempt, a cable of a cable attempt.
KindInv ==
  /\ \A n \in {trade, mirror} \ {None} : asked[n].kind = "mirror"
  /\ net # None => asked[net].kind = "cable"

\* Both, for a player who is careful.
CarefulInv == careful => FlagInv /\ KindInv

\* A step of the Qt thread that starts nothing.
LEMMA QtCareful ==
  ASSUME HeldInv, FlagInv, KindInv, UNCHANGED <<asked, pc>>,
         \A k, w : Queued(k, w)' <=> Queued(k, w),
         net' \in {net, None}, trade' \in {trade, None}, mirror' \in {mirror, trade, None},
         flag' \in {flag, "none"}, current' \in {current, None},
         current' = current => flag' = flag, current' # current => flag' = "none",
         dialog' \in Requests => current' = None /\ ~Linked'
  PROVE  FlagInv' /\ KindInv'
<1>1. KindInv'
  BY DEF KindInv
<1>2. Linked' => Linked
  BY DEF Linked
<1>3. Awaited' <=> pc[current'] # "done" \/ Queued(current', "connected")
  BY DEF Awaited
<1>4. current' = current => (Awaited' <=> Awaited)
  BY <1>3 DEF Awaited
<1> QED
  BY <1>1, <1>2, <1>4 DEF FlagInv

\* What a careful player and the menus do, apart from answering the dialog.
LEMMA PlayerCareful ==
  ASSUME HeldInv, CarefulInv,
         \/ \E request \in Requests : Ask(request)
         \/ Dismiss \/ Cancel \/ LoadGame \/ TradeDone \/ LeaveGame \/ CableLost \/ MirrorEnds
         \/ TradeFails \/ UNCHANGED vars
  PROVE  CarefulInv'
<1> SUFFICES ASSUME careful' PROVE FlagInv' /\ KindInv'
  BY DEF CarefulInv
<1>1. careful /\ FlagInv /\ KindInv
  BY DEF Ask, Dismiss, Cancel, LoadGame, TradeDone, LeaveGame, CableLost, MirrorEnds, TradeFails,
         vars, world, CarefulInv
<1>2. UNCHANGED <<asked, pc, signals>>
  BY DEF Ask, Dismiss, Cancel, LoadGame, TradeDone, LeaveGame, CableLost, MirrorEnds, TradeFails,
         vars, workers
<1>3. \A k, w : Queued(k, w)' <=> Queued(k, w)
  BY <1>2 DEF Queued
<1>n. NoDialog \notin Requests
  BY DEF NoDialog, Requests
<1>4. CASE \E request \in Requests : Ask(request)
  BY <1>1, <1>2, <1>3, <1>4, QtCareful DEF Ask, links, Linked
<1>5. CASE Dismiss \/ Cancel
  BY <1>1, <1>2, <1>3, <1>5, <1>n, QtCareful DEF Dismiss, Cancel, Disarmed, links
<1>6. CASE LoadGame \/ UNCHANGED vars
  BY <1>1, <1>2, <1>3, <1>6, QtCareful DEF LoadGame, vars, links, FlagInv, Linked
<1>7. CASE TradeDone \/ MirrorEnds \/ TradeFails
  BY <1>1, <1>2, <1>3, <1>7, QtCareful DEF TradeDone, MirrorEnds, TradeFails, FlagInv, Linked
<1>8. CASE LeaveGame
  <2>1. current = None /\ flag = "none" /\ current' = None
    BY <1>1, <1>8 DEF LeaveGame, EndNetLink, FlagInv
  <2> QED
    BY <1>1, <1>2, <1>3, <1>8, <1>n, <2>1, QtCareful DEF LeaveGame, EndNetLink
<1>9. CASE CableLost
  <2>1. flag = "none" /\ net # None /\ dialog \notin Requests
    BY <1>1, <1>9 DEF CableLost, FlagInv, Linked
  <2> QED
    BY <1>1, <1>2, <1>3, <1>9, <2>1, QtCareful DEF CableLost, EndNetLink
<1> QED
  BY <1>4, <1>5, <1>6, <1>7, <1>8, <1>9

\* The first attempt of a careful player, or the next one after the last has ended.
LEMMA AnswerCareful ==
  ASSUME HeldInv, CarefulInv, Answer
  PROVE  CarefulInv'
<1> SUFFICES ASSUME careful' PROVE FlagInv' /\ KindInv'
  BY DEF CarefulInv
<1>1. careful /\ FlagInv /\ KindInv /\ dialog \in Requests /\ current = None /\ ~Linked
  BY DEF Answer, StartAttempt, world, CarefulInv, FlagInv
<1>2. flag = "none" /\ StartAttempt(dialog)
  BY <1>1 DEF FlagInv, Answer
<1> DEFINE n == Len(asked) + 1
<1>3. asked \in Seq(Requests) /\ Len(asked) \in Nat /\ asked' = Append(asked, dialog)
  BY <1>2 DEF HeldInv, TypeInv, TypeOK, StartAttempt
<1>4. asked'[n] = dialog
  BY <1>1, <1>3, AppendProperties
<1>5. /\ current' = n /\ n # None /\ dialog' = NoDialog /\ ~Linked'
      /\ pc'[n] \in {"opening", "waiting"}
      /\ flag' = IF dialog.kind = "mirror" THEN dialog.role ELSE "none"
  BY <1>1, <1>2, <1>3 DEF StartAttempt, links, Linked, HeldInv, TypeInv, TypeOK, None
<1>6. dialog.role \in {"host", "join"}
  BY <1>1 DEF Requests
<1>n. NoDialog \notin Requests
  BY DEF NoDialog, Requests
<1> HIDE DEF n
<1>7. Awaited'
  BY <1>5 DEF Awaited
<1>8. FlagInv'
  BY <1>4, <1>5, <1>6, <1>7, <1>n DEF FlagInv
<1>9. KindInv'
  BY <1>5 DEF KindInv, Linked
<1> QED
  BY <1>8, <1>9

\* A worker can end in one way only, and says so: the flag it was started with still waits
\* for its word.
LEMMA WorkerCareful ==
  ASSUME HeldInv, CarefulInv, NEW n \in Started, Worker(n) \/ BoxDeletes(n)
  PROVE  CarefulInv'
<1> SUFFICES ASSUME careful' PROVE FlagInv' /\ KindInv'
  BY DEF CarefulInv
<1>1. UNCHANGED <<careful, asked, dialog, current, flag, trade, mirror, net>>
  BY DEF Worker, BoxDeletes, OpenPort, PeerIn, GiveUp, CloseUp, HandOver, ShellUnchanged, world, links
<1>2. FlagInv /\ KindInv
  BY <1>1 DEF CarefulInv
<1>3. KindInv'
  BY <1>1, <1>2 DEF KindInv
<1>4. /\ \A k \in Started : pc[k] = "done" => pc'[k] = "done"
      /\ \A k \in Started \ {n} : pc'[k] = pc[k]
      /\ n = current /\ pc'[n] = "done" =>
           pc[n] = "done" \/ Queued(n, "connected")' \/ Queued(n, "failed")'
      /\ \A k, w : Queued(k, w) => Queued(k, w)'
      /\ \A k, w : Queued(k, w)' => Queued(k, w) \/ (k = n /\ pc[n] # "done")
  <2>1. \A k \in Started \ {n} : pc'[k] = pc[k]
    BY DEF Worker, BoxDeletes, OpenPort, PeerIn, GiveUp, CloseUp, HandOver, Goes, workers,
           HeldInv, TypeInv, TypeOK, Started, Attempt
  <2> QED
    BY <2>1, WorkerHeld
<1>5. current \in Started \cup {None}
  BY DEF HeldInv, TypeInv, TypeOK
<1>6. current # None /\ Awaited' => Awaited
  <2> SUFFICES ASSUME NEW c \in Started, c = current, Awaited' PROVE Awaited
    BY <1>5
  <2>1. pc'[c] # "done" \/ Queued(c, "connected")'
    BY <1>1 DEF Awaited, Queued
  <2>2. pc[c] # "done" \/ Queued(c, "connected")
    BY <1>4, <2>1
  <2> QED
    BY <2>2 DEF Awaited
<1>7. current # None /\ (Awaited \/ Queued(current, "failed"))
        => Awaited' \/ Queued(current, "failed")'
  <2> SUFFICES ASSUME NEW c \in Started, c = current, Awaited \/ Queued(current, "failed")
               PROVE  Awaited' \/ Queued(current, "failed")'
    BY <1>5
  <2>1. pc[c] # "done" \/ Queued(c, "connected") \/ Queued(c, "failed")
    BY DEF Awaited
  <2>2. pc'[c] # "done" \/ Queued(c, "connected")' \/ Queued(c, "failed")'
    <3>1. CASE c = n
      BY <1>4, <2>1, <3>1
    <3>2. CASE c # n
      BY <1>4, <2>1, <3>2
    <3> QED
      BY <3>1, <3>2
  <2> QED
    BY <1>1, <2>2 DEF Awaited, Queued
<1>8. FlagInv'
  BY <1>1, <1>2, <1>6, <1>7 DEF FlagInv, Linked
<1> QED
  BY <1>3, <1>8

\* The word of the current attempt lowers the flag; the word of an earlier one moves nothing.
LEMMA DeliverCareful ==
  ASSUME HeldInv, CarefulInv, Deliver
  PROVE  CarefulInv'
<1> SUFFICES ASSUME careful' PROVE FlagInv' /\ KindInv'
  BY DEF CarefulInv
<1>1. UNCHANGED <<careful, asked, dialog, pc>>
  BY DEF Deliver, ConnectedLate, ConnectedMirror, ConnectedCable, Failed, Finished, world
<1>2. FlagInv /\ KindInv
  BY <1>1 DEF CarefulInv
<1>3. PICK what : /\ Delivered(what)
                  /\ ConnectedLate \/ ConnectedMirror \/ ConnectedCable => what = "connected"
                  /\ Failed => what = "failed"
                  /\ Finished => what = "finished"
  BY DEF Deliver, ConnectedLate, ConnectedMirror, ConnectedCable, Failed, Finished, Delivered
<1>4. PICK n \in Started :
        /\ n = Head(signals).of /\ pc[n] = "done" /\ Queued(n, what) /\ n # None
        /\ \A k, w : Queued(k, w)' => Queued(k, w)
        /\ \A k, w : Queued(k, w) /\ ~(k = n /\ w = what) => Queued(k, w)'
        /\ \A w : Queued(n, w)' => w = "finished" /\ what # "finished"
  BY <1>1, <1>3, QueueDelivers DEF HeldInv, Started, None
<1>5. ~Queued(n, "connected")' /\ ~Queued(n, "failed")'
  BY <1>4
<1>6. \A k : k # n => /\ Queued(k, "connected")' <=> Queued(k, "connected")
                      /\ Queued(k, "failed")' <=> Queued(k, "failed")
  BY <1>4
<1>7. CASE ConnectedLate \/ (Failed /\ n # current)
  <2>1. UNCHANGED <<current, flag, net, trade, mirror>>
    BY <1>4, <1>7 DEF ConnectedLate, Failed, FromCurrent, links
  <2>2. n # current \/ flag = "none"
    BY <1>2, <1>4, <1>7 DEF ConnectedLate, FromCurrent, FlagInv, Linked
  <2>3. Awaited' => Awaited
    <3> SUFFICES ASSUME NEW c, c = current, Awaited' PROVE Awaited
      OBVIOUS
    <3>1. pc[c] # "done" \/ Queued(c, "connected")'
      BY <1>1, <2>1 DEF Awaited, Queued
    <3> QED
      BY <1>4, <3>1 DEF Awaited
  <2>4. n # current /\ Awaited => Awaited'
    <3> SUFFICES ASSUME NEW c, c = current, n # c, Awaited
                 PROVE  Awaited'
      OBVIOUS
    <3>1. pc[c] # "done" \/ Queued(c, "connected")'
      BY <1>6 DEF Awaited
    <3> QED
      BY <1>1, <2>1, <3>1 DEF Awaited, Queued
  <2>5. n # current /\ Queued(current, "failed") => Queued(current, "failed")'
    <3> SUFFICES ASSUME NEW c, c = current, n # c, Queued(c, "failed")
                 PROVE  Queued(current, "failed")'
      OBVIOUS
    <3>1. Queued(c, "failed")'
      BY <1>6
    <3> QED
      BY <2>1, <3>1 DEF Queued
  <2>6. FlagInv'
    BY <1>1, <1>2, <2>1, <2>2, <2>3, <2>4, <2>5 DEF FlagInv, Linked
  <2>7. KindInv'
    BY <1>1, <1>2, <2>1 DEF KindInv
  <2> QED
    BY <2>6, <2>7
<1>8. CASE ConnectedMirror \/ ConnectedCable \/ (Failed /\ n = current)
  <2>1. n = current /\ current' = current /\ flag' = "none"
    BY <1>4, <1>8 DEF ConnectedMirror, ConnectedCable, Failed, FromCurrent, Disarmed
  <2>2. ~Awaited'
    BY <1>1, <1>4, <1>5, <2>1 DEF Awaited
  <2>3. dialog' \notin Requests
    BY <1>1, <1>2, <1>4, <2>1 DEF FlagInv
  <2>4. FlagInv'
    BY <2>1, <2>2, <2>3 DEF FlagInv
  <2>5. CASE Failed
    BY <1>1, <1>2, <2>4, <2>5 DEF KindInv, Failed, links
  <2>6. CASE ConnectedMirror
    <3>1. asked[n].kind = "mirror"
      BY <1>2, <2>1, <2>6 DEF FlagInv, ConnectedMirror
    <3>2. trade' = n /\ UNCHANGED <<mirror, net>>
      BY <1>4, <2>6 DEF ConnectedMirror
    <3> QED
      BY <1>1, <1>2, <2>4, <3>1, <3>2 DEF KindInv
  <2>7. CASE ConnectedCable
    <3>1. Awaited /\ flag = "none"
      BY <1>3, <1>4, <2>1, <2>7 DEF Awaited, ConnectedCable
    <3>2. asked[n].kind # "mirror"
      BY <1>2, <1>4, <2>1, <3>1 DEF FlagInv
    <3>3. asked[n].kind \in {"cable", "mirror"}
      BY DEF HeldInv, TypeInv, TypeOK, Started, Requests
    <3>4. net' = n /\ UNCHANGED <<mirror, trade>>
      BY <1>4, <2>7 DEF ConnectedCable
    <3> QED
      BY <1>1, <1>2, <2>4, <3>2, <3>3, <3>4 DEF KindInv
  <2> QED
    BY <1>8, <2>4, <2>5, <2>6, <2>7
<1>9. CASE Finished
  <2>1. UNCHANGED <<flag, net, trade, mirror>> /\ current' = IF n = current THEN None ELSE current
    BY <1>4, <1>9 DEF Finished, Forgotten, links
  <2>2. KindInv'
    BY <1>1, <1>2, <2>1 DEF KindInv
  <2>3. CASE n = current
    <3>1. ~Queued(n, "connected") /\ ~Queued(n, "failed")
      BY <1>3, <1>4, <1>5, <1>9
    <3>2. flag = "none" /\ dialog \notin Requests
      BY <1>2, <1>4, <2>3, <3>1 DEF FlagInv, Awaited
    <3> QED
      BY <1>1, <1>2, <2>1, <2>2, <2>3, <3>2 DEF FlagInv
  <2>4. CASE n # current
    <3> PICK c : c = current /\ current' = c /\ n # c
      BY <2>1, <2>4
    <3>0. /\ Queued(c, "connected")' <=> Queued(c, "connected")
          /\ Queued(c, "failed")' <=> Queued(c, "failed")
      BY <1>6
    <3>1. Awaited' <=> Awaited
      BY <1>1, <3>0 DEF Awaited, Queued
    <3>2. Queued(current, "failed") => Queued(current, "failed")'
      BY <3>0 DEF Queued
    <3> QED
      BY <1>1, <1>2, <2>1, <2>2, <2>4, <3>1, <3>2 DEF FlagInv, Linked
  <2> QED
    BY <2>3, <2>4
<1> QED
  BY <1>7, <1>8, <1>9 DEF Deliver

\* No flag and no link before the first attempt.
LEMMA InitCareful == Init => CarefulInv
<1> SUFFICES ASSUME Init PROVE FlagInv /\ KindInv
  BY DEF CarefulInv
<1>1. NoDialog \notin Requests
  BY DEF NoDialog, Requests
<1> QED
  BY <1>1 DEF Init, FlagInv, KindInv, Linked, None

\* The flag, step by step.
LEMMA NextCareful == HeldInv /\ CarefulInv /\ [Next]_vars => CarefulInv'
BY PlayerCareful, AnswerCareful, WorkerCareful, DeliverCareful DEF Next

\* With a careful player every connection becomes what it was asked for: the flag of an
\* attempt that failed or was cancelled never outlives it.
THEOREM EveryConnectionAsAsked == Spec => []ModeAsAsked
<1>1. Init => HeldInv /\ CarefulInv
  BY InitHeld, InitCareful
<1>2. HeldInv /\ CarefulInv /\ [Next]_vars => (HeldInv /\ CarefulInv)'
  BY NextHeld, NextCareful
<1>3. CarefulInv => ModeAsAsked
  BY DEF CarefulInv, KindInv, ModeAsAsked
<1> QED
  BY <1>1, <1>2, <1>3, PTL DEF Spec

(***************************************************************************)
(* The rule of a link that is up, and the rules when all is over           *)
(***************************************************************************)
\* An attempt may still come up.
Pending(n) == pc[n] # "done" \/ Queued(n, "connected")

\* The attempts whose rule matters: those attached, and the one that may still come up.
Live(n) == n \in Attached \/ (n = current /\ Pending(n))

\* The router forwards only what some Mapping object still stands for, and only a worker
\* that has ended is attached.
BoxInv ==
  /\ \A p \in box : \E n \in opened \cup deletes : asked[n].port = p
  /\ \A n \in Attached : pc[n] = "done"

\* With a careful player there is one link at a time, and the shell's rule is that link's.
LinkInv ==
  /\ rule # None => Linked
  /\ current # None /\ Pending(current) => ~Linked
  /\ net # None => trade = None /\ mirror = None
  /\ trade # None => mirror = None
  /\ \A n \in Attached \cap opened : rule = n

\* While nothing was taken back, every rule is the shell's or its attempt may come up.
KeptInv == cancel = {} => \A n \in opened : n = rule \/ (n = current /\ Pending(n))

\* With a prompt router, an attempt that matters and has its rule is alone: nothing is left
\* of an earlier one, neither a worker nor a deletion on its way.
AloneInv ==
  prompt => \A n \in opened : Live(n) =>
    asked[n].port \in box /\ deletes = {} /\ \A m \in Started \ {n} : pc[m] \in {"off", "done"}

RuleInv == careful => LinkInv /\ KeptInv /\ AloneInv

\* Nothing is forwarded before the first attempt.
LEMMA InitRule == Init => BoxInv /\ RuleInv
BY DEF Init, BoxInv, RuleInv, LinkInv, KeptInv, AloneInv, Attached, Linked, None

\* A step of the Qt thread that attaches nothing and leaves the router's rules alone.
LEMMA QtRule ==
  ASSUME HeldInv, BoxInv, RuleInv, UNCHANGED <<world, asked, pc, rules>>,
         Attached' \subseteq Attached, cancel \subseteq cancel',
         net' = net, trade' \in {trade, None}, mirror' \in {mirror, trade},
         careful => Linked' = Linked,
         trade' # None => mirror' = mirror,
         \A k : Queued(k, "connected")' => Queued(k, "connected"),
         \A k : Queued(k, "connected") /\ ~Queued(k, "connected")' /\ careful => k # current,
         current' = current \/ (current' = None /\ (cancel' # {} \/ ~Pending(current)))
  PROVE  BoxInv' /\ RuleInv'
<1>0. Started' = Started /\ current \in Started \cup {None} /\ opened \subseteq Started
  BY DEF Started, HeldInv, TypeInv, TypeOK
<1>1. BoxInv'
  BY DEF BoxInv, rules
<1> SUFFICES ASSUME careful' PROVE LinkInv' /\ KeptInv' /\ AloneInv'
  BY <1>1 DEF RuleInv
<1>2. careful /\ LinkInv /\ KeptInv /\ AloneInv
  BY DEF RuleInv, world
<1>3. \A k : Pending(k)' => Pending(k)
  BY DEF Pending
<1>4. \A k : k = current /\ Pending(k) => Pending(k)'
  BY <1>2 DEF Pending
<1>5. \A k \in Started : Live(k)' => Live(k)
  BY <1>3 DEF Live, None, Started
<1>6. LinkInv'
  BY <1>2, <1>3 DEF LinkInv, rules, Linked
<1>7. KeptInv'
  <2> SUFFICES ASSUME cancel' = {}, NEW k \in opened', k # rule'
               PROVE  k = current' /\ Pending(k)'
    BY DEF KeptInv
  <2>1. k = current /\ Pending(k) /\ k # None
    BY <1>0, <1>2 DEF KeptInv, rules, None, Started
  <2> QED
    BY <1>4, <2>1
<1>8. AloneInv'
  BY <1>0, <1>2, <1>5 DEF AloneInv, rules, world
<1> QED
  BY <1>6, <1>7, <1>8

\* The player asks, leaves a box, takes an attempt back or loads a game; a trade becomes a
\* match.
LEMMA PlayerRule ==
  ASSUME HeldInv, BoxInv, RuleInv,
         \/ \E request \in Requests : Ask(request)
         \/ Dismiss \/ Cancel \/ LoadGame \/ TradeDone \/ UNCHANGED vars
  PROVE  BoxInv' /\ RuleInv'
<1>1. UNCHANGED <<world, asked, pc, signals, rules>>
  BY DEF Ask, Dismiss, Cancel, LoadGame, TradeDone, vars, workers
<1>2. \A k : Queued(k, "connected")' <=> Queued(k, "connected")
  BY <1>1 DEF Queued
<1>3. CASE (\E request \in Requests : Ask(request)) \/ Dismiss \/ LoadGame \/ UNCHANGED vars
  <2>1. UNCHANGED <<net, trade, mirror, current, cancel>>
    BY <1>3 DEF Ask, Dismiss, LoadGame, vars, links
  <2> QED
    BY <1>1, <1>2, <2>1, QtRule DEF Attached, Linked
<1>4. CASE Cancel
  <2>1. UNCHANGED <<net, trade, mirror>> /\ current' = None /\ current \in cancel' /\ cancel \subseteq cancel'
    BY <1>4 DEF Cancel, links
  <2> QED
    BY <1>1, <1>2, <2>1, QtRule DEF Attached, Linked
<1>5. CASE TradeDone
  <2>1. UNCHANGED <<net, current, cancel>> /\ trade # None /\ trade' = None /\ mirror' = trade
    BY <1>5 DEF TradeDone
  <2> QED
    BY <1>1, <1>2, <2>1, QtRule DEF Attached, Linked
<1> QED
  BY <1>3, <1>4, <1>5

\* The end of a link closes the shell's rule, which is the link's.
LEMMA EndingRule ==
  ASSUME HeldInv, BoxInv, CarefulInv, RuleInv,
         LeaveGame \/ CableLost \/ MirrorEnds \/ TradeFails
  PROVE  BoxInv' /\ RuleInv'
<1>1. /\ UNCHANGED <<world, asked, pc, signals>> /\ rule' = None /\ box' = box
      /\ opened' = opened \ {rule} /\ deletes' = deletes \cup (Some(rule) \cap opened)
      /\ Attached' \subseteq Attached
  BY DEF LeaveGame, CableLost, MirrorEnds, TradeFails, EndNetLink, GivenBack, ReleaseRule, CloseLater,
         Attached, workers
<1>2. Started' = Started /\ current \in Started \cup {None} /\ opened \subseteq Started /\ None \notin Started
  BY <1>1 DEF Started, HeldInv, TypeInv, TypeOK, None
<1>3. opened' \cup deletes' = opened \cup deletes
  BY <1>1, <1>2 DEF Some
<1>4. BoxInv'
  BY <1>1, <1>3 DEF BoxInv
<1> SUFFICES ASSUME careful' PROVE LinkInv' /\ KeptInv' /\ AloneInv'
  BY <1>4 DEF RuleInv
<1>5. careful /\ LinkInv /\ KeptInv /\ AloneInv
  BY <1>1 DEF RuleInv, world
<1>6. \A k : (Pending(k)' <=> Pending(k))
  BY <1>1 DEF Pending, Queued
<1>7. Attached' \cap opened' = {}
  BY <1>1, <1>5 DEF LinkInv
<1>8. /\ net' \in {net, None} /\ trade' \in {trade, None} /\ mirror' \in {mirror, None}
      /\ current' = current \/ (current' = None /\ (cancel' # {} \/ current = None))
      /\ cancel \subseteq cancel'
  BY <1>2 DEF LeaveGame, CableLost, MirrorEnds, TradeFails, EndNetLink, Some
<1>9. LinkInv'
  BY <1>1, <1>5, <1>6, <1>7, <1>8 DEF LinkInv, Linked
<1>10. KeptInv'
  BY <1>1, <1>2, <1>5, <1>6, <1>8 DEF KeptInv
<1>11. ASSUME NEW k \in opened', Live(k)', prompt'
       PROVE  asked'[k].port \in box' /\ deletes' = {} /\ \A m \in Started' \ {k} : pc'[m] \in {"off", "done"}
  <2>1. k = current /\ Pending(current) /\ current # None /\ k \in opened
    BY <1>1, <1>2, <1>6, <1>7, <1>8, <1>11 DEF Live
  <2>2. ~Linked /\ rule = None /\ Live(k)
    BY <1>5, <2>1 DEF LinkInv, Live
  <2> QED
    BY <1>1, <1>2, <1>5, <1>11, <2>1, <2>2 DEF AloneInv, Some, world
<1> QED
  BY <1>9, <1>10, <1>11 DEF AloneInv

\* A new attempt finds nothing of the last one but deletions on their way.
LEMMA AnswerRule ==
  ASSUME HeldInv, BoxInv, CarefulInv, RuleInv, Answer
  PROVE  BoxInv' /\ RuleInv'
<1>1. CASE current # None /\ dialog' = Busy
           /\ UNCHANGED <<world, asked, current, retiring, flag, cancel, workers, links, rules>>
  <2>1. \A k : Queued(k, "connected")' <=> Queued(k, "connected")
    BY <1>1 DEF Queued, workers
  <2> QED
    BY <1>1, <2>1, QtRule DEF Attached, Linked, workers, links
<1>2. CASE current = None /\ StartAttempt(dialog)
  <2> DEFINE n == Len(asked) + 1
  <2>1. asked \in Seq(Requests) /\ dialog \in Requests /\ Len(asked) \in Nat
    BY DEF HeldInv, TypeInv, TypeOK, Answer
  <2>2. n \in Attempt /\ asked' = Append(asked, dialog) /\ n \notin Started
    BY <1>2, <2>1 DEF StartAttempt, Attempt, Started
  <2>3. \A k \in Started : asked'[k] = asked[k] /\ k # n
    BY <2>1, <2>2, AppendProperties DEF Started
  <2>4. /\ UNCHANGED <<world, cancel, signals, links, rules>> /\ current' = n
        /\ pc' = [pc EXCEPT ![n] = IF dialog.role = "host" THEN "opening" ELSE "waiting"]
    BY <1>2 DEF StartAttempt
  <2> HIDE DEF n
  <2>5. opened \cup deletes \subseteq Started /\ Attached \subseteq Started /\ Started \subseteq Attempt
    BY DEF HeldInv, TypeInv, TypeOK, Attached, Started, Attempt
  <2>6. UNCHANGED <<Attached, opened, rule, box, deletes, net, trade, mirror>>
    BY <2>4 DEF Attached, links, rules
  <2>7. \A k \in Started : pc'[k] = pc[k]
    BY <2>3, <2>4 DEF HeldInv, TypeInv, TypeOK, Started, Attempt
  <2>8. BoxInv'
    <3>1. \A p \in box' : \E k \in opened' \cup deletes' : asked'[k].port = p
      BY <2>3, <2>5, <2>6 DEF BoxInv
    <3>2. \A k \in Attached' : pc'[k] = "done"
      BY <2>5, <2>6, <2>7 DEF BoxInv
    <3> QED
      BY <3>1, <3>2 DEF BoxInv
  <2> SUFFICES ASSUME careful' PROVE LinkInv' /\ KeptInv' /\ AloneInv'
    BY <2>8 DEF RuleInv
  <2>9. careful /\ FlagInv /\ LinkInv /\ KeptInv
    BY <2>4 DEF RuleInv, CarefulInv, world
  <2>10. ~Linked /\ Attached = {} /\ rule = None
    BY <2>1, <2>9 DEF FlagInv, LinkInv, Linked, Attached
  <2>11. LinkInv'
    BY <2>6, <2>10 DEF LinkInv, Linked
  <2>12. KeptInv'
    BY <1>2, <2>4, <2>5, <2>6, <2>9, <2>10 DEF KeptInv, Started, None
  <2>13. AloneInv'
    BY <2>2, <2>4, <2>5, <2>6, <2>10 DEF AloneInv, Live
  <2> QED
    BY <2>11, <2>12, <2>13
<1> QED
  BY <1>1, <1>2 DEF Answer

\* A worker opens the port of its own attempt, and closes it unless it hands over.
LEMMA WorkerRule ==
  ASSUME HeldInv, BoxInv, RuleInv, NEW n \in Started, Worker(n) \/ BoxDeletes(n)
  PROVE  BoxInv' /\ RuleInv'
<1>1. /\ UNCHANGED <<world, asked, current, cancel, trade, mirror, net, rule>> /\ Started' = Started
      /\ n \in Attempt /\ Started \subseteq Attempt /\ pc \in [Attempt -> PcType]
      /\ opened \cup deletes \subseteq Started
  BY DEF Worker, BoxDeletes, OpenPort, PeerIn, GiveUp, CloseUp, HandOver, ShellUnchanged, links, rules,
         Started, Attempt, HeldInv, TypeInv, TypeOK, PcType
<1>2. Attached' = Attached /\ Linked' = Linked
  BY <1>1 DEF Attached, Linked
<1>3. \A k \in Started \ {n} : pc'[k] = pc[k]
  BY <1>1 DEF Worker, BoxDeletes, OpenPort, PeerIn, GiveUp, CloseUp, HandOver, Goes, workers
<1>4. \A k \in Attached : pc[k] = "done" /\ k \in Started
  BY DEF BoxInv, Attached, HeldInv, TypeInv, TypeOK
<1>5. Worker(n) => pc[n] \notin {"off", "done"} /\ n \notin Attached
  <2>1. Worker(n) => pc[n] \notin {"off", "done"}
    BY DEF Worker, OpenPort, PeerIn, GiveUp, CloseUp, HandOver
  <2> QED
    BY <1>4, <2>1
<1>6. \A k \in Attached' : pc'[k] = "done"
  <2>1. CASE Worker(n)
    BY <1>2, <1>3, <1>4, <1>5, <2>1
  <2>2. CASE BoxDeletes(n)
    BY <1>2, <1>4, <2>2 DEF BoxDeletes, workers
  <2> QED
    BY <2>1, <2>2
<1>7. BoxInv'
  <2>1. ASSUME NEW p \in box'
        PROVE  \E k \in opened' \cup deletes' : asked'[k].port = p
    <3>1. CASE OpenPort(n) /\ p \notin box
      BY <1>1, <2>1, <3>1 DEF OpenPort
    <3>2. CASE p \in box
      <4>1. PICK k \in opened \cup deletes : asked[k].port = p
        BY <3>2 DEF BoxInv
      <4>2. k \in opened' \cup deletes'
        BY <1>1, <2>1, <4>1 DEF Worker, BoxDeletes, OpenPort, PeerIn, GiveUp, CloseUp, HandOver, rules
      <4> QED
        BY <1>1, <4>1, <4>2
    <3>3. CASE ~OpenPort(n)
      <4>1. box' \subseteq box
        BY <3>3 DEF Worker, BoxDeletes, PeerIn, GiveUp, CloseUp, HandOver, rules
      <4> QED
        BY <2>1, <3>2, <4>1
    <3> QED
      BY <3>1, <3>2, <3>3
  <2> QED
    BY <1>6, <2>1 DEF BoxInv
<1> SUFFICES ASSUME careful' PROVE LinkInv' /\ KeptInv' /\ AloneInv'
  BY <1>7 DEF RuleInv
<1>8. careful /\ LinkInv /\ KeptInv /\ AloneInv
  BY <1>1 DEF RuleInv, world
<1>9. /\ \A k \in Started : Pending(k)' => Pending(k)
      /\ \A k \in Started : pc[k] = "done" => pc'[k] = "done"
      /\ \A k \in Started : k # n => (Pending(k) => Pending(k)')
  BY <1>3, WorkerHeld DEF Pending
<1>10. current \in Started \cup {None} /\ None \notin Started
  BY DEF HeldInv, TypeInv, TypeOK, None, Started
<1>11. opened' \subseteq opened \cup {n} /\ (n \in opened' => n \in opened \/ pc[n] = "opening")
  BY <1>1 DEF Worker, BoxDeletes, OpenPort, PeerIn, GiveUp, CloseUp, HandOver, rules
<1>12. LinkInv'
  <2>1. \A k : k = current' /\ k # None /\ Pending(k)' => ~Linked'
    BY <1>1, <1>2, <1>8, <1>9, <1>10 DEF LinkInv
  <2>2. \A k \in Attached' \cap opened' : rule' = k
    BY <1>1, <1>2, <1>4, <1>8, <1>11 DEF LinkInv
  <2> QED
    BY <1>1, <1>2, <1>8, <2>1, <2>2 DEF LinkInv
<1>13. KeptInv'
  <2> SUFFICES ASSUME cancel' = {}, NEW k \in opened', k # rule'
               PROVE  k = current' /\ Pending(k)'
    BY DEF KeptInv
  <2>1. CASE k = n /\ Worker(n)
    <3>1. n = current
      BY <1>1, <1>5, <2>1 DEF HeldInv, ThreadsHeld
    <3>2. CASE pc'[n] # "done"
      BY <1>1, <2>1, <3>1, <3>2 DEF Pending
    <3>3. CASE CloseUp(n)
      BY <2>1, <3>3 DEF CloseUp
    <3>4. CASE HandOver(n)
      <4>1. signals' = Emits(n, <<"connected", "finished">>)
        BY <1>1, <3>4 DEF HandOver
      <4>2. Queued(n, "connected")'
        <5> DEFINE whats == <<"connected", "finished">>
        <5>1. /\ whats \in {<<"finished">>, <<"failed", "finished">>, <<"connected", "finished">>}
              /\ 1 \in 1 .. Len(whats) /\ whats[1] = "connected"
          OBVIOUS
        <5> HIDE DEF whats
        <5>2. pc[n] # "done" /\ Goes(n, "done") /\ signals' = Emits(n, whats)
          BY <3>4, <4>1 DEF HandOver, whats
        <5> QED
          BY <5>1, <5>2, QueueEmits DEF HeldInv
      <4> QED
        BY <1>1, <2>1, <3>1, <4>2 DEF Pending
    <3>5. CASE OpenPort(n) \/ PeerIn(n) \/ GiveUp(n)
      BY <1>1, <3>2, <3>5 DEF OpenPort, PeerIn, GiveUp, Goes
    <3> QED
      BY <2>1, <3>3, <3>4, <3>5 DEF Worker
  <2>2. CASE k # n
    <3>1. k \in opened /\ k \in Started /\ k = current /\ Pending(k)
      BY <1>1, <1>8, <1>11, <2>2 DEF KeptInv
    <3> QED
      BY <1>1, <1>9, <2>2, <3>1
  <2>3. CASE BoxDeletes(n)
    <3>1. k \in opened /\ k = current /\ Pending(k) /\ UNCHANGED <<pc, signals>>
      BY <1>1, <1>8, <2>3 DEF KeptInv, BoxDeletes, workers
    <3>2. Pending(k)'
      BY <3>1 DEF Pending, Queued
    <3> QED
      BY <1>1, <3>1, <3>2
  <2> QED
    BY <2>1, <2>2, <2>3
<1>14. AloneInv'
  <2> SUFFICES ASSUME prompt', NEW k \in opened', Live(k)'
               PROVE  /\ asked'[k].port \in box' /\ deletes' = {}
                      /\ \A m \in Started' \ {k} : pc'[m] \in {"off", "done"}
    BY DEF AloneInv
  <2>0. prompt /\ k \in Started
    BY <1>1, <1>11 DEF world
  <2>1. Live(k)
    BY <1>1, <1>2, <1>9, <2>0 DEF Live
  <2>2. CASE k \in opened
    <3>1. /\ asked[k].port \in box /\ deletes = {}
          /\ \A m \in Started \ {k} : pc[m] \in {"off", "done"}
      BY <1>8, <2>0, <2>1, <2>2 DEF AloneInv
    <3>2. Worker(n) /\ n = k
      BY <1>5, <3>1 DEF BoxDeletes
    <3>3. ~CloseUp(n)
      BY <3>2 DEF CloseUp
    <3>4. box \subseteq box' /\ deletes' = deletes
      BY <3>2, <3>3 DEF Worker, OpenPort, PeerIn, GiveUp, HandOver, rules
    <3> QED
      BY <1>1, <1>3, <3>1, <3>2, <3>4
  <2>3. CASE k \notin opened
    <3>1. OpenPort(n) /\ k = n
      BY <1>11, <2>3 DEF Worker, BoxDeletes, OpenPort, PeerIn, GiveUp, CloseUp, HandOver, rules
    <3> QED
      BY <1>1, <1>3, <2>0, <2>3, <3>1 DEF OpenPort
  <2> QED
    BY <2>2, <2>3
<1> QED
  BY <1>12, <1>13, <1>14

\* The connection of the attempt pending is the only one that attaches, and its rule
\* becomes the shell's; the other signals move no rule.
LEMMA DeliverRule ==
  ASSUME HeldInv, BoxInv, RuleInv, Deliver
  PROVE  BoxInv' /\ RuleInv'
<1>1. PICK what : /\ Delivered(what)
                  /\ ConnectedLate \/ ConnectedMirror \/ ConnectedCable => what = "connected"
                  /\ Failed => what = "failed"
                  /\ Finished => what = "finished"
  BY DEF Deliver, ConnectedLate, ConnectedMirror, ConnectedCable, Failed, Finished, Delivered
<1>2. UNCHANGED <<world, asked, pc, cancel>> /\ Started' = Started
  BY DEF Deliver, ConnectedLate, ConnectedMirror, ConnectedCable, Failed, Finished, Started
<1>3. PICK n \in Started :
        /\ n = Head(signals).of /\ pc[n] = "done" /\ Queued(n, what) /\ n # None
        /\ \A k, w : Queued(k, w)' => Queued(k, w)
        /\ \A k, w : Queued(k, w) /\ ~(k = n /\ w = what) => Queued(k, w)'
        /\ \A w : Queued(n, w)' => w = "finished" /\ what # "finished"
  BY <1>1, <1>2, QueueDelivers DEF HeldInv, Started, None
<1>4. CASE Failed
  <2>1. UNCHANGED <<current, net, trade, mirror, rules>>
    BY <1>4 DEF Failed, links
  <2>2. \A k : Queued(k, "connected") => Queued(k, "connected")'
    BY <1>1, <1>3, <1>4
  <2> QED
    BY <1>2, <1>3, <2>1, <2>2, QtRule DEF Attached, Linked
<1>5. CASE Finished
  <2>1. UNCHANGED <<net, trade, mirror, rules>> /\ current' = IF n = current THEN None ELSE current
    BY <1>3, <1>5 DEF Finished, Forgotten, links
  <2>2. \A k : Queued(k, "connected") => Queued(k, "connected")'
    BY <1>1, <1>3, <1>5
  <2>3. ~Queued(n, "connected")
    BY <1>1, <1>3, <1>5, <2>2
  <2>4. n = current => ~Pending(current)
    BY <1>3, <2>3 DEF Pending
  <2> QED
    BY <1>2, <1>3, <2>1, <2>2, <2>4, QtRule DEF Attached, Linked
<1>6. CASE ConnectedLate
  <2>1. UNCHANGED <<current, net, trade, mirror, rules>> /\ (n # current \/ mirror # None)
    BY <1>3, <1>6 DEF ConnectedLate, FromCurrent, links
  <2>2. \A k : k # n /\ Queued(k, "connected") => Queued(k, "connected")'
    BY <1>3
  <2>3. careful => n # current
    BY <1>1, <1>3, <1>6, <2>1 DEF RuleInv, LinkInv, Pending, Linked
  <2>4. \A k : Queued(k, "connected") /\ ~Queued(k, "connected")' /\ careful => k # current
    BY <2>2, <2>3
  <2> QED
    BY <1>2, <1>3, <2>1, <2>4, QtRule DEF Attached, Linked
<1>7. CASE ConnectedMirror \/ ConnectedCable
  <2>1. /\ n = current /\ current' = current /\ AdoptRule(n)
        /\ \/ trade' = n /\ UNCHANGED <<mirror, net>>
           \/ net' = n /\ UNCHANGED <<mirror, trade>>
    BY <1>3, <1>7 DEF ConnectedMirror, ConnectedCable, FromCurrent
  <2>2. Attached' \subseteq Attached \cup {n} /\ ~Pending(n)'
    BY <1>1, <1>2, <1>3, <1>7, <2>1 DEF Attached, Pending
  <2>3. opened' \cup deletes' = opened \cup deletes /\ box' = box
    BY <2>1, <1>2 DEF AdoptRule, CloseLater, Some, rules, HeldInv, TypeInv, TypeOK, Started, None
  <2>4. BoxInv'
    BY <1>2, <1>3, <2>2, <2>3 DEF BoxInv
  <2> SUFFICES ASSUME careful' PROVE LinkInv' /\ KeptInv' /\ AloneInv'
    BY <2>4 DEF RuleInv
  <2>5. careful /\ LinkInv /\ KeptInv /\ AloneInv
    BY <1>2 DEF RuleInv, world
  <2>6. Pending(current) /\ current # None
    BY <1>1, <1>3, <1>7, <2>1 DEF Pending
  <2>7. ~Linked /\ rule = None
    BY <2>5, <2>6 DEF LinkInv
  <2>8. UNCHANGED <<opened, box, deletes>> /\ rule' = IF n \in opened THEN n ELSE None
    BY <2>1, <2>7 DEF AdoptRule, rules
  <2>9. Attached' = {n} /\ Linked'
    BY <1>3, <2>1, <2>7 DEF Attached, Linked
  <2>10. LinkInv'
    BY <1>3, <2>1, <2>2, <2>7, <2>8, <2>9 DEF LinkInv, Linked
  <2>11. KeptInv'
    BY <1>2, <1>3, <2>1, <2>5, <2>7, <2>8 DEF KeptInv, HeldInv, TypeInv, TypeOK, Started, None
  <2>12. \A k : Live(k)' => k = n
    BY <2>1, <2>9 DEF Live
  <2>13. Live(n)
    BY <2>1, <2>6 DEF Live
  <2>14. AloneInv'
    BY <1>2, <2>5, <2>8, <2>12, <2>13 DEF AloneInv, world
  <2> QED
    BY <2>10, <2>11, <2>14
<1> QED
  BY <1>4, <1>5, <1>6, <1>7 DEF Deliver

\* The rules, step by step.
LEMMA NextRule ==
  HeldInv /\ BoxInv /\ CarefulInv /\ RuleInv /\ [Next]_vars => BoxInv' /\ RuleInv'
BY PlayerRule, EndingRule, AnswerRule, WorkerRule, DeliverRule DEF Next

\* The rules, in every reachable state.
LEMMA AlwaysRule == Spec => [](HeldInv /\ BoxInv /\ RuleInv)
<1>1. Init => HeldInv /\ BoxInv /\ CarefulInv /\ RuleInv
  BY InitHeld, InitCareful, InitRule
<1>2. HeldInv /\ BoxInv /\ CarefulInv /\ RuleInv /\ [Next]_vars
        => (HeldInv /\ BoxInv /\ CarefulInv /\ RuleInv)'
  BY NextHeld, NextCareful, NextRule
<1> QED
  BY <1>1, <1>2, PTL DEF Spec

\* With a careful player and a prompt router the port of a hosted link is forwarded for as
\* long as the link lasts: no attempt before it or after it takes its rule away.
THEOREM LiveLinkKeepsItsPort == Spec => []LiveRuleKept
<1>1. RuleInv => LiveRuleKept
  BY DEF RuleInv, AloneInv, LiveRuleKept, Live
<1> QED
  BY <1>1, AlwaysRule, PTL

\* With a careful player who takes nothing back the router forwards nothing once all is over.
THEOREM NothingStaysForwarded == Spec => []RulesGivenBack
<1>1. HeldInv /\ BoxInv /\ RuleInv => RulesGivenBack
  <2> SUFFICES ASSUME HeldInv, BoxInv, RuleInv, careful, cancel = {}, Quiet
               PROVE  box = {}
    BY DEF RulesGivenBack
  <2>1. current = None /\ deletes = {} /\ ~Linked
    BY DEF Quiet, Attached, Linked
  <2>2. rule = None
    BY <2>1 DEF RuleInv, LinkInv
  <2>3. \A n \in opened : n \in Started /\ n # None
    BY DEF HeldInv, TypeInv, TypeOK, Started, None
  <2>4. opened = {}
    BY <2>1, <2>2, <2>3 DEF RuleInv, KeptInv
  <2> QED
    BY <2>1, <2>4 DEF BoxInv
<1> QED
  BY <1>1, AlwaysRule, PTL
=============================================================================
