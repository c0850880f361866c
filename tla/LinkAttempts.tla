---------------------------- MODULE LinkAttempts ----------------------------
(***************************************************************************)
(* Hosting and joining from the shell (ngpc_shell.py: _NetConnect, Shell,  *)
(* PlayPage; core/upnp.py): one worker thread per attempt, the Qt thread   *)
(* that starts, cancels and attaches, and the rule the home router keeps   *)
(* for the port of a hosted link.                                          *)
(*                                                                         *)
(* An action of the Qt thread is one slot or one menu command.  Workers    *)
(* speak to it through queued signals, delivered in order at any moment,   *)
(* also while a question or an input box runs its own event loop.  A rule  *)
(* is named by the attempt whose Mapping object it is; only its TCP half is*)
(* represented (the UDP half has the same life, and is given back at once  *)
(* when a cable comes up).                                                 *)
(*                                                                         *)
(* The world is chosen at the start.  A careful player neither asks for a  *)
(* second link while a first one is searched for, traded or up, nor leaves *)
(* the game in the middle of a search.  A prompt router has done all that  *)
(* was asked of it before it opens a port for the next attempt.            *)
(***************************************************************************)
EXTENDS Integers, Sequences

CONSTANTS
  MaxAttempts,   \* bound of the model: attempts of one session
  Ports,         \* ports a host may choose
  Careful,       \* kinds of players tried: a set of BOOLEANs
  Prompt         \* kinds of routers tried: a set of BOOLEANs

ASSUME AttemptsAssumption ==
  MaxAttempts \in Nat \ {0} /\ Careful \subseteq BOOLEAN /\ Prompt \subseteq BOOLEAN

VARIABLES
  careful, prompt,
  asked,      \* what each attempt was started for: [role, kind, port], in order
  dialog,     \* the box on screen: a request being typed in, Busy, or NoDialog
  current,    \* _net_thread
  retiring,   \* _net_retiring
  flag,       \* _mirror_pending: "host", "join" or "none"
  pc,         \* where each worker is
  cancel,     \* workers whose cancel() was called
  signals,    \* emitted and not delivered: [of, what]
  trade,      \* the attempt whose cartridge trade runs
  mirror,     \* the attempt whose match is attached
  net,        \* the attempt whose cable is attached
  machine,    \* a game is loaded
  opened,     \* attempts whose Mapping object still holds its rule
  rule,       \* _udp_rule, the shell's: the attempt whose Mapping it is
  box,        \* ports the router forwards
  deletes     \* Mapping objects being closed in a background thread

world == <<careful, prompt>>
workers == <<pc, signals>>
links == <<trade, mirror, net, machine>>
rules == <<opened, rule, box, deletes>>
vars == <<world, asked, dialog, current, retiring, flag, cancel, workers, links, rules>>

Attempt == 1 .. MaxAttempts
None == 0
Started == 1 .. Len(asked)
NoDialog == [role |-> "none"]
Busy == [role |-> "busy"]
Requests == [role : {"host"}, kind : {"cable", "mirror"}, port : Ports]
              \cup [role : {"join"}, kind : {"cable", "mirror"}]

Init ==
  /\ careful \in Careful /\ prompt \in Prompt
  /\ asked = <<>> /\ dialog = NoDialog
  /\ current = None /\ retiring = {} /\ flag = "none" /\ cancel = {}
  /\ pc = [n \in Attempt |-> "off"] /\ signals = <<>>
  /\ trade = None /\ mirror = None /\ net = None /\ machine = TRUE
  /\ opened = {} /\ rule = None /\ box = {} /\ deletes = {}

Some(n) == {n} \ {None}

(***************************************************************************)
(* The rule kept by the shell                                              *)
(***************************************************************************)
\* A background thread closes the Mapping of n; closing twice is harmless.
CloseLater(n) ==
  /\ deletes' = deletes \cup (Some(n) \cap opened)
  /\ opened' = opened \ {n}

ReleaseRule == rule' = None /\ CloseLater(rule) /\ UNCHANGED box

SamePort(n, m) == asked[n].port = asked[m].port

\* _adopt_rule for the attempt n, which may have opened no port.
AdoptRule(n) ==
  IF n \notin opened
    THEN UNCHANGED rules
    ELSE /\ rule' = n
         /\ IF rule = None \/ SamePort(rule, n)
              THEN UNCHANGED <<opened, deletes>>
              ELSE CloseLater(rule)
         /\ UNCHANGED box

\* The SOAP call of one of these threads goes through.
BoxDeletes(n) ==
  /\ n \in deletes
  /\ deletes' = deletes \ {n} /\ box' = box \ {asked[n].port}
  /\ UNCHANGED <<world, asked, dialog, current, retiring, flag, cancel, workers, links,
                 opened, rule>>

(***************************************************************************)
(* The Qt thread: what the player does                                     *)
(***************************************************************************)
\* _one_link_at_a_time
Refused(kind) == IF kind = "mirror" THEN net # None ELSE mirror # None

Ask(request) ==
  /\ dialog = NoDialog /\ machine /\ ~Refused(request.kind)
  /\ careful => current = None /\ trade = None /\ mirror = None /\ net = None
  /\ dialog' = request
  /\ UNCHANGED <<world, asked, current, retiring, flag, cancel, workers, links, rules>>

Dismiss ==
  /\ dialog # NoDialog /\ dialog' = NoDialog
  /\ UNCHANGED <<world, asked, current, retiring, flag, cancel, workers, links, rules>>

\* _start_net: the attempt begins, and the mirror's flag is armed once it is ours...
StartAttempt(request) ==
  LET n == Len(asked) + 1
  IN  /\ n \in Attempt
      /\ asked' = Append(asked, request)
      /\ current' = n
      /\ pc' = [pc EXCEPT ![n] = IF request.role = "host" THEN "opening" ELSE "waiting"]
      /\ flag' = IF request.kind = "mirror" THEN request.role ELSE flag
      /\ dialog' = NoDialog
      /\ UNCHANGED <<world, retiring, cancel, signals, links, rules>>

\* ... or one is pending already, and the player is asked whether to cancel that.
Answer ==
  /\ dialog \in Requests
  /\ \/ current = None /\ StartAttempt(dialog)
     \/ /\ current # None /\ dialog' = Busy
        /\ UNCHANGED <<world, asked, current, retiring, flag, cancel, workers, links, rules>>

\* Mutant of Retired: a cancelled worker is dropped at once.
RetiredDropped(n) == retiring

\* _retire_net_thread keeps the object until the thread has stopped.
Retired(n) == retiring \cup Some(n)

\* Mutant of Disarmed: the next connection is still told to become a mirror.
DisarmedNot == flag

Disarmed == "none"

\* _cancel_net_attempt, from the menu or from the question.
Cancel ==
  /\ current # None /\ dialog \in {NoDialog, Busy}
  /\ current' = None /\ retiring' = Retired(current) /\ cancel' = cancel \cup {current}
  /\ flag' = Disarmed /\ dialog' = NoDialog
  /\ UNCHANGED <<world, asked, workers, links, rules>>

\* _end_net_link: whatever is searched for ends with the link.
EndNetLink ==
  /\ current' = None /\ retiring' = Retired(current) /\ cancel' = cancel \cup Some(current)
  /\ net' = None /\ ReleaseRule

\* _to_library: stop() detaches the mirror and unloads the game.
LeaveGame ==
  /\ machine /\ dialog = NoDialog /\ (careful => current = None)
  /\ EndNetLink /\ mirror' = None /\ machine' = FALSE
  /\ UNCHANGED <<world, asked, dialog, flag, workers, trade>>

LoadGame ==
  /\ ~machine /\ machine' = TRUE
  /\ UNCHANGED <<world, asked, dialog, current, retiring, flag, cancel, workers,
                 trade, mirror, net, rules>>

(***************************************************************************)
(* The Qt thread: how a link ends                                          *)
(***************************************************************************)
CableLost ==
  /\ net # None /\ EndNetLink
  /\ UNCHANGED <<world, asked, dialog, flag, workers, trade, mirror, machine>>

MirrorEnds ==
  /\ mirror # None /\ mirror' = None /\ trade' = None /\ ReleaseRule
  /\ UNCHANGED <<world, asked, dialog, current, retiring, flag, cancel, workers, net,
                 machine>>

TradeDone ==
  /\ trade # None /\ machine /\ mirror' = trade /\ trade' = None
  /\ UNCHANGED <<world, asked, dialog, current, retiring, flag, cancel, workers, net,
                 machine, rules>>

\* Mutant of GivenBack: a refused trade keeps its rule.
GivenBackNot == UNCHANGED rules

GivenBack == ReleaseRule

\* The trade is refused, or its game was closed.
TradeFails ==
  /\ trade # None /\ trade' = None /\ GivenBack
  /\ UNCHANGED <<world, asked, dialog, current, retiring, flag, cancel, workers, mirror,
                 net, machine>>

(***************************************************************************)
(* A worker                                                                *)
(***************************************************************************)
Emits(n, whats) == signals \o [i \in 1 .. Len(whats) |-> [of |-> n, what |-> whats[i]]]
Goes(n, where) == pc' = [pc EXCEPT ![n] = where]
ShellUnchanged == UNCHANGED <<world, asked, dialog, current, retiring, flag, cancel, links>>

\* The host listens; the router is asked for the port, and may not answer.
OpenPort(n) ==
  /\ pc[n] = "opening" /\ Goes(n, "waiting")
  /\ prompt => deletes = {} /\ \A m \in Attempt \ {n} : pc[m] \in {"off", "done"}
  /\ \/ opened' = opened \cup {n} /\ box' = box \cup {asked[n].port}
     \/ UNCHANGED <<opened, box>>
  /\ UNCHANGED <<signals, rule, deletes>> /\ ShellUnchanged

\* The host looks at the cancel before accept(); a dial in progress does not.
MayAccept(n) == asked[n].role = "join" \/ n \notin cancel

\* Mutant of PeerIn: the router's rule is closed as soon as somebody is in.
PeerInAlone(n) ==
  /\ pc[n] = "waiting" /\ MayAccept(n) /\ Goes(n, "in")
  /\ box' = IF n \in opened THEN box \ {asked[n].port} ELSE box
  /\ UNCHANGED <<signals, opened, rule, deletes>> /\ ShellUnchanged

PeerIn(n) ==
  /\ pc[n] = "waiting" /\ MayAccept(n) /\ Goes(n, "in")
  /\ UNCHANGED <<signals, rules>> /\ ShellUnchanged

\* Mutant of GiveUp: accept() without a deadline.
GiveUpCancelled(n) ==
  /\ pc[n] = "waiting" /\ n \in cancel /\ Goes(n, "cancelling")
  /\ UNCHANGED <<signals, rules>> /\ ShellUnchanged

\* The cancel is seen, or the attempt fails: bind(), the deadline, a wrong name...
GiveUp(n) ==
  /\ \/ pc[n] = "waiting" /\ n \in cancel /\ Goes(n, "cancelling")
     \/ pc[n] \in {"opening", "waiting"} /\ Goes(n, "failing")
  /\ UNCHANGED <<signals, rules>> /\ ShellUnchanged

\* The worker closes what it opened, then says that it failed.
CloseUp(n) ==
  /\ pc[n] \in {"cancelling", "failing"} /\ Goes(n, "done")
  /\ signals' = Emits(n, IF pc[n] = "failing" THEN <<"failed", "finished">>
                                               ELSE <<"finished">>)
  /\ box' = IF n \in opened THEN box \ {asked[n].port} ELSE box
  /\ opened' = opened \ {n}
  /\ UNCHANGED <<rule, deletes>> /\ ShellUnchanged

\* A cancel that crossed the connection drops the socket; otherwise it is handed over.
HandOver(n) ==
  /\ pc[n] = "in" /\ Goes(n, "done")
  /\ signals' = Emits(n, IF n \in cancel THEN <<"finished">>
                                         ELSE <<"connected", "finished">>)
  /\ UNCHANGED rules /\ ShellUnchanged

Worker(n) == OpenPort(n) \/ PeerIn(n) \/ GiveUp(n) \/ CloseUp(n) \/ HandOver(n)

(***************************************************************************)
(* The Qt thread: the workers' signals                                     *)
(***************************************************************************)
Delivered(what) ==
  signals # <<>> /\ Head(signals).what = what /\ signals' = Tail(signals)

\* Mutant of FromCurrent: any worker may attach.
FromCurrentAny(n) == TRUE

\* _from_current_worker
FromCurrent(n) == n = current

\* Too late, or superseded: the socket is closed and nothing else.
ConnectedLate ==
  LET n == Head(signals).of
  IN  /\ Delivered("connected") /\ (~FromCurrent(n) \/ mirror # None)
      /\ UNCHANGED <<world, asked, dialog, current, retiring, flag, cancel, pc, links,
                     rules>>

\* _begin_mirror: an earlier trade is abandoned.
ConnectedMirror ==
  LET n == Head(signals).of
  IN  /\ Delivered("connected") /\ FromCurrent(n) /\ mirror = None /\ flag # "none"
      /\ flag' = "none"
      /\ trade' = n
      /\ AdoptRule(n)
      /\ UNCHANGED <<world, asked, dialog, current, retiring, cancel, pc, mirror, net,
                     machine>>

ConnectedCable ==
  LET n == Head(signals).of
  IN  /\ Delivered("connected") /\ FromCurrent(n) /\ mirror = None /\ flag = "none"
      /\ net' = n
      /\ AdoptRule(n)
      /\ UNCHANGED <<world, asked, dialog, current, retiring, flag, cancel, pc, trade,
                     mirror, machine>>

Failed ==
  /\ Delivered("failed")
  /\ flag' = IF FromCurrent(Head(signals).of) THEN Disarmed ELSE flag
  /\ UNCHANGED <<world, asked, dialog, current, retiring, cancel, pc, links, rules>>

Forgotten(n) == IF n = current THEN None ELSE current

Finished ==
  LET n == Head(signals).of
  IN  /\ Delivered("finished")
      /\ retiring' = retiring \ {n} /\ current' = Forgotten(n)
      /\ UNCHANGED <<world, asked, dialog, flag, cancel, pc, links, rules>>

Deliver == ConnectedLate \/ ConnectedMirror \/ ConnectedCable \/ Failed \/ Finished

(***************************************************************************)
Next ==
  \/ \E request \in Requests : Ask(request)
  \/ Dismiss \/ Answer \/ Cancel \/ LeaveGame \/ LoadGame
  \/ CableLost \/ MirrorEnds \/ TradeDone \/ TradeFails
  \/ \E n \in Started : Worker(n) \/ BoxDeletes(n)
  \/ Deliver

\* The threads run, both waits have a deadline, the router answers or its call times out,
\* and the Qt thread delivers what is queued.
Fairness ==
  /\ \A n \in Attempt : WF_vars(n \in Started /\ Worker(n))
  /\ \A n \in Attempt : WF_vars(n \in Started /\ BoxDeletes(n))
  /\ WF_vars(Deliver)

Spec == Init /\ [][Next]_vars /\ Fairness

(***************************************************************************)
(* Properties                                                              *)
(***************************************************************************)
Attached == {trade, mirror, net} \ {None}
Quiet == current = None /\ retiring = {} /\ signals = <<>> /\ Attached = {} /\ deletes = {}

\* Every variable has its type, and the attempt pending is not one that was cancelled.
TypeOK ==
  /\ careful \in BOOLEAN /\ prompt \in BOOLEAN /\ machine \in BOOLEAN
  /\ asked \in Seq(Requests) /\ dialog \in Requests \cup {NoDialog, Busy}
  /\ {current, trade, mirror, net, rule} \subseteq Started \cup {None}
  /\ UNION {retiring, cancel, opened, deletes} \subseteq Started
  /\ flag \in {"none", "host", "join"} /\ box \subseteq Ports
  /\ pc \in [Attempt -> {"off", "opening", "waiting", "in", "cancelling", "failing", "done"}]
  /\ signals \in Seq([of : Started, what : {"connected", "failed", "finished"}])
  /\ current \notin cancel

\* A link the player took back never comes up, however late its connection is delivered
\* ("the emulator attaches the very attempt that was taken back").
CancelledStaysOut == [][\A n \in Attached' \ Attached : n \notin cancel]_vars

\* No worker is dropped while its thread runs, which would kill the process
\* ("Destroyed while thread is still running"), and one that is not pending any more
\* has been told to stop.
ThreadsHeld ==
  \A n \in Started : pc[n] # "done" => n = current \/ n \in retiring \cap cancel

\* With a careful player every connection becomes what it was asked for: a mirror attempt
\* that failed or was cancelled does not turn the next cable into a match.
ModeAsAsked ==
  careful => /\ \A n \in {trade, mirror} \ {None} : asked[n].kind = "mirror"
             /\ net # None => asked[net].kind = "cable"

\* The same whatever the player does ("the next Host would start a mirror").
MirrorOnlyIfAsked == \A n \in {trade, mirror} \ {None} : asked[n].kind = "mirror"

\* The router forwards the port of a hosted link for as long as the link lasts: no attempt
\* before it or after it takes its rule away (careful player, prompt router).
LiveRuleKept ==
  careful /\ prompt => \A n \in Attached \cap opened : asked[n].port \in box

\* When all is over the router forwards nothing any more, unless an attempt was taken back
\* (careful player).
RulesGivenBack == careful /\ cancel = {} /\ Quiet => box = {}

\* One attempt at a time is no dead end: every attempt ends, and another may begin.
GuardReopens == \A n \in Attempt : current = n ~> current # n

=============================================================================
