------------------------------- MODULE Lobby -------------------------------
(***************************************************************************)
(* The link lobby: rooms, pairing and relay (server/lobby_server.py), and  *)
(* the clients that use it (core/lobby.py, ngpc_lobby.py, ngpc_shell.py).  *)
(*                                                                         *)
(* The server is one asyncio event loop, one coroutine per connection. A   *)
(* coroutine runs alone (running) from one await that blocks to the next.  *)
(* Session.send blocks only on the writer's lock, on the drain of a writer *)
(* that is full, or for one turn of the loop when the transport is         *)
(* closing; otherwise it goes on without yielding, which is why the steps  *)
(* of a running coroutine come first. todo is what a coroutine has still   *)
(* to send, next what it does then.                                        *)
(*                                                                         *)
(* up and down are the two directions of a client's connection, from one   *)
(* program's write to the other's read: an element is a frame.  A client   *)
(* that closes is gone; the server hears it as the end of the stream, or   *)
(* as a connection lost before the rest is read.  A room is <<its host,    *)
(* count of its host's rooms>>: codes are random and never the same twice. *)
(* Left out: passwords, names and the list of rooms itself; a player may   *)
(* ask for any room that was ever opened, as an old list would let him.    *)
(***************************************************************************)
EXTENDS Naturals, Sequences, FiniteSets

CONSTANTS
  Client, Nobody,
  Hosts,       \* players who open rooms
  Joiners,     \* players who ask for one
  MaxRooms,    \* bound of the model: rooms a player opens in one visit
  MaxJoins,    \* bound of the model: rooms a player asks for in one visit
  MaxBytes,    \* bound of the model: relay frames a player sends
  HighWater,   \* frames, relayed ones among them, a writer holds before drain() waits
  Patient      \* players wait for what they have asked before they ask for more

ASSUME LobbyAssumption ==
  /\ Nobody \notin Client /\ Hosts \subseteq Client /\ Joiners \subseteq Client
  /\ {MaxRooms, MaxJoins, MaxBytes, HighWater} \subseteq Nat /\ Patient \in BOOLEAN

VARIABLES
  games,      \* the open rooms
  room,       \* session.room: the room this client hosts, 0 or its number
  peer,       \* session.peer
  running,    \* whose coroutine the event loop is in
  todo,       \* frames each coroutine has still to send: [to, f, sent]
  next,       \* "read", "unpair" (end of drop_pairing) or "close" (and of the task)
  line,       \* coroutines at each writer's lock, the holder first
  ended,      \* sessions whose task is over
  lost,       \* connections the event loop knows to be lost
  up, down,   \* frames on their way to the server, to the client
  gone,       \* clients that have closed
  screen,     \* "menu", "asked", "hosting", "linked", "lost" or "closed"
  with,       \* the player a link was opened with
  missed,     \* clients told of an end while only a dialog was there to hear it
  taken,      \* bytes received and not cleared, as <<sender, number>>
  opened, asked, said   \* counters: rooms opened, rooms asked for, bytes sent

tables == <<games, room, peer>>
loop == <<running, todo, next, line>>
wires == <<up, down>>
ends == <<ended, lost>>
player == <<gone, screen, with, missed, taken, opened, asked, said>>
vars == <<tables, loop, wires, ends, player>>

Room == Client \X (1 .. MaxRooms)
Host(r) == r[1]

Init ==
  /\ games = {} /\ room = [c \in Client |-> 0] /\ peer = [c \in Client |-> Nobody]
  /\ running = Nobody /\ todo = [c \in Client |-> <<>>]
  /\ next = [c \in Client |-> "read"] /\ line = [c \in Client |-> <<>>]
  /\ ended = {} /\ lost = {}
  /\ up = [c \in Client |-> <<>>] /\ down = [c \in Client |-> <<>>]
  /\ gone = {} /\ missed = {} /\ screen = [c \in Client |-> "menu"] /\ with = [c \in Client |-> Nobody]
  /\ taken = [c \in Client |-> <<>>] /\ opened = [c \in Client |-> 0]
  /\ asked = [c \in Client |-> 0] /\ said = [c \in Client |-> 0]

----------------------------------------------------------------------------
(* Session.send, one frame of todo[c] at a time.                           *)

Frame(k, who) == [k |-> k, who |-> who, n |-> 0]
Send(to, f) == [to |-> to, f |-> f, sent |-> FALSE]

Sending(c) == todo[c] # <<>>
Dest(c) == todo[c][1].to
Dead(d) == d \in lost \/ d \in ended

\* A frame written to a dead or closed connection reaches nobody.
Written(c) == [down EXCEPT ![Dest(c)] =
                 IF Dead(Dest(c)) \/ Dest(c) \in gone THEN @ ELSE Append(@, todo[c][1].f)]

SentOne(c) == [todo EXCEPT ![c] = Tail(@)]

\* A writer is full: control frames alone, of some tens of bytes, never fill 64 KB.
Full(d, at) ==
  d \notin gone /\ Len(at[d]) > HighWater /\ \E i \in DOMAIN at[d] : at[d][i].k = "byte"

\* The lock is ours: write, then go on, or hold it while drain() waits.
Put(c, queue) ==
  /\ down' = Written(c)
  /\ IF Dead(Dest(c)) \/ Full(Dest(c), Written(c))
       THEN /\ todo' = [todo EXCEPT ![c][1].sent = TRUE]
            /\ line' = [line EXCEPT ![Dest(c)] = queue] /\ running' = Nobody
       ELSE /\ todo' = SentOne(c) /\ line' = [line EXCEPT ![Dest(c)] = Tail(queue)] /\ running' = c
  /\ UNCHANGED <<tables, next, up, ends, player>>

Write(c) == running = c /\ Sending(c) /\ line[Dest(c)] = <<>> /\ Put(c, <<c>>)

\* Another coroutine holds the lock: wait behind it, then write.
Queue(c) ==
  /\ running = c /\ Sending(c) /\ line[Dest(c)] # <<>>
  /\ line' = [line EXCEPT ![Dest(c)] = Append(@, c)] /\ running' = Nobody
  /\ UNCHANGED <<tables, todo, next, wires, ends, player>>

Holds(c) == running = Nobody /\ Sending(c) /\ line[Dest(c)] # <<>> /\ Head(line[Dest(c)]) = c
Handed(c) == Holds(c) /\ ~todo[c][1].sent /\ Put(c, line[Dest(c)])

Release(c) == [line EXCEPT ![Dest(c)] = Tail(@)]

\* drain() returns; a transport being closed may still take a frame for nobody.
Drained(c) ==
  /\ Holds(c) /\ todo[c][1].sent
  /\ Dest(c) \notin lost /\ ~Full(Dest(c), down)
  /\ todo' = SentOne(c) /\ line' = Release(c) /\ running' = c
  /\ UNCHANGED <<tables, next, wires, ends, player>>

\* drop_pairing, up to its await: the peer's half of the pairing goes first.
\* mutant of LastWord: the peer is not notified
LastWordNone(c) == <<>>
LastWord(c) == IF peer[c] = Nobody THEN <<>> ELSE <<Send(peer[c], Frame("peer_left", c))>>
DropPeer(c) ==
  /\ peer' = IF peer[c] = Nobody THEN peer ELSE [peer EXCEPT ![peer[c]] = Nobody]
  /\ todo' = [todo EXCEPT ![c] = LastWord(c)]

\* drain() raises.  A relayed byte and a peer_left swallow it; anywhere else it
\* ends the task of the coroutine that was writing, through drop_pairing.
Swallowed(c) == next[c] # "read" \/ todo[c][1].f.k = "byte"

Raised(c) ==
  /\ Holds(c) /\ todo[c][1].sent /\ Dead(Dest(c))
  /\ line' = Release(c) /\ running' = c
  /\ IF Swallowed(c)
       THEN todo' = SentOne(c) /\ UNCHANGED <<peer, next>>
       ELSE DropPeer(c) /\ next' = [next EXCEPT ![c] = "close"]
  /\ UNCHANGED <<games, room, wires, ends, player>>

----------------------------------------------------------------------------
(* client_task and handle_control: one frame of a client.                  *)

Reads(c) ==
  /\ running = Nobody /\ c \notin ended /\ ~Sending(c) /\ next[c] = "read" /\ c \notin lost

Takes(c, kind) ==
  /\ Reads(c) /\ up[c] # <<>> /\ Head(up[c]).k = kind
  /\ up' = [up EXCEPT ![c] = Tail(@)] /\ running' = c

Create(c) ==
  /\ Takes(c, "create")
  /\ games' = games \cup {<<c, Head(up[c]).n>>}
  /\ room' = [room EXCEPT ![c] = Head(up[c]).n]
  /\ todo' = [todo EXCEPT ![c] = <<Send(c, Frame("created", c))>>]
  /\ UNCHANGED <<peer, next, line, down, ends, player>>

\* mutant of Offered: a room stays joinable when it is full
OfferedFull(r) == r \in games
Offered(r) == r \in games /\ peer[Host(r)] = Nobody
Tidings(c, h) == <<Send(h, Frame("joined", c)), Send(c, Frame("joined", h))>>

Join(c) ==
  /\ Takes(c, "join")
  /\ LET r == <<Head(up[c]).who, Head(up[c]).n>> IN
     IF Offered(r)
       THEN /\ peer' = [peer EXCEPT ![Host(r)] = c, ![c] = Host(r)]
            /\ todo' = [todo EXCEPT ![c] = Tidings(c, Host(r))]
       ELSE /\ todo' = [todo EXCEPT ![c] = <<Send(c, Frame("error", c))>>]
            /\ UNCHANGED peer
  /\ UNCHANGED <<games, room, next, line, down, ends, player>>

Relay(c) ==
  /\ Takes(c, "byte")
  /\ todo' = [todo EXCEPT ![c] = IF peer[c] = Nobody THEN <<>> ELSE <<Send(peer[c], Head(up[c]))>>]
  /\ UNCHANGED <<tables, next, line, down, ends, player>>

Leave(c) ==
  /\ Takes(c, "leave")
  /\ DropPeer(c) /\ next' = [next EXCEPT ![c] = "unpair"]
  /\ UNCHANGED <<games, room, line, down, ends, player>>

\* The stream ends or the connection is lost: out of the loop, into drop_pairing.
EndOfStream(c) ==
  /\ running = Nobody /\ c \notin ended /\ ~Sending(c) /\ next[c] = "read"
  /\ c \in lost \/ (c \in gone /\ up[c] = <<>>)
  /\ running' = c
  /\ DropPeer(c) /\ next' = [next EXCEPT ![c] = "close"]
  /\ UNCHANGED <<games, room, line, wires, ends, player>>

\* drop_pairing, after its await.
Unpaired(c) == [peer EXCEPT ![c] = Nobody]
\* mutant of ClosedRoom: a room is closed only by a host who was alone
ClosedRoomPaired(c) == IF peer[c] = Nobody THEN games \ {<<c, room[c]>>} ELSE games
ClosedRoom(c) == games \ {<<c, room[c]>>}

\* Everything is sent: back to the next frame, or out.
Done(c) ==
  /\ running = c /\ ~Sending(c) /\ running' = Nobody
  /\ IF next[c] = "read" THEN UNCHANGED <<tables, next, ended>>
     ELSE /\ peer' = Unpaired(c) /\ games' = ClosedRoom(c)
          /\ room' = [room EXCEPT ![c] = 0]
          /\ next' = [next EXCEPT ![c] = "read"]
          /\ ended' = IF next[c] = "close" THEN ended \cup {c} ELSE ended
  /\ UNCHANGED <<todo, line, wires, lost, player>>

\* The operating system reports a connection whose client is gone.
LostConnection(c) ==
  /\ running = Nobody /\ c \in gone /\ c \notin lost /\ c \notin ended
  /\ lost' = lost \cup {c}
  /\ UNCHANGED <<tables, loop, wires, ended, player>>

----------------------------------------------------------------------------
(* LobbyClient, its dialog and its link.                                   *)

\* A client acts between two turns of the loop: what it does during one commutes with it.
Alive(c) == running = Nobody /\ c \notin gone
Says(c, f) == up' = [up EXCEPT ![c] = Append(@, f)]

\* The dialog's buttons work until a room is joined; nothing stops a second room.
MayOpen(c) == c \in Hosts /\ screen[c] \in {"menu", "hosting"} /\ opened[c] < MaxRooms
MayAsk(c) ==
  /\ c \in Joiners /\ asked[c] < MaxJoins
  /\ screen[c] \in (IF Patient THEN {"menu"} ELSE {"menu", "hosting", "asked"})

OpenRoom(c) ==
  /\ Alive(c) /\ MayOpen(c)
  /\ Says(c, [k |-> "create", who |-> c, n |-> opened[c] + 1])
  /\ opened' = [opened EXCEPT ![c] = @ + 1] /\ screen' = [screen EXCEPT ![c] = "hosting"]
  /\ UNCHANGED <<tables, loop, down, ends, gone, with, missed, taken, asked, said>>

AskRoom(c, h) ==
  /\ Alive(c) /\ MayAsk(c) /\ opened[h] > 0
  /\ \E n \in 1 .. opened[h] : Says(c, [k |-> "join", who |-> h, n |-> n])
  /\ asked' = [asked EXCEPT ![c] = @ + 1] /\ screen' = [screen EXCEPT ![c] = "asked"]
  /\ UNCHANGED <<tables, loop, down, ends, gone, with, missed, taken, opened, said>>

SendByte(c) ==
  /\ Alive(c) /\ screen[c] = "linked" /\ said[c] < MaxBytes
  /\ Says(c, [k |-> "byte", who |-> c, n |-> said[c] + 1])
  /\ said' = [said EXCEPT ![c] = @ + 1]
  /\ UNCHANGED <<tables, loop, down, ends, gone, screen, with, missed, taken, opened, asked>>

\* LobbyLink.disconnect and LobbyPipe.close: leave, then close, which may come
\* before the leave has been sent; the dialog closes without a word.
CloseClient(c) ==
  /\ Alive(c) /\ gone' = gone \cup {c} /\ screen' = [screen EXCEPT ![c] = "closed"]
  /\ \/ screen[c] \in {"linked", "lost"} /\ Says(c, Frame("leave", c))
     \/ UNCHANGED up
  /\ down' = [down EXCEPT ![c] = <<>>]
  /\ UNCHANGED <<tables, loop, ends, with, missed, taken, opened, asked, said>>

Receives(c, kind) ==
  /\ Alive(c) /\ down[c] # <<>> /\ Head(down[c]).k = kind
  /\ down' = [down EXCEPT ![c] = Tail(@)]
  /\ UNCHANGED <<tables, loop, up, ends, gone, opened, asked, said>>

GetAnswer(c) ==
  /\ \/ Receives(c, "created") /\ UNCHANGED screen
     \/ Receives(c, "error") /\ screen' = [screen EXCEPT ![c] = IF @ = "asked" THEN "menu" ELSE @]
  /\ UNCHANGED <<with, missed, taken>>

\* What has come in before the pairing belongs to nobody.
Cleared(c) == [taken EXCEPT ![c] = <<>>]

\* The dialog hands the client over once; a second pairing has no client to hand.
GetJoined(c) ==
  /\ Receives(c, "joined")
  /\ taken' = Cleared(c) /\ UNCHANGED missed
  /\ IF screen[c] \in {"linked", "lost"} THEN UNCHANGED <<screen, with>>
     ELSE /\ screen' = [screen EXCEPT ![c] = "linked"]
          /\ with' = [with EXCEPT ![c] = Head(down[c]).who]

GetByte(c) ==
  /\ Receives(c, "byte")
  /\ taken' = [taken EXCEPT ![c] = Append(@, <<Head(down[c]).who, Head(down[c]).n>>)]
  /\ UNCHANGED <<screen, with, missed>>

\* The link hears of it; a dialog is not listening.
GetPeerLeft(c) ==
  /\ Receives(c, "peer_left")
  /\ taken' = Cleared(c)
  /\ screen' = [screen EXCEPT ![c] = IF @ = "linked" THEN "lost" ELSE @]
  /\ missed' = IF screen[c] \in {"linked", "lost"} THEN missed ELSE missed \cup {c}
  /\ UNCHANGED with

\* The server has hung up: disconnected, in the dialog or in the link.
GetHangUp(c) ==
  /\ Alive(c) /\ c \in ended /\ down[c] = <<>>
  /\ gone' = gone \cup {c} /\ screen' = [screen EXCEPT ![c] = "closed"]
  /\ UNCHANGED <<tables, loop, wires, ends, with, missed, taken, opened, asked, said>>

----------------------------------------------------------------------------

LoopStep(c) ==
  \/ Write(c) \/ Queue(c) \/ Handed(c) \/ Drained(c) \/ Raised(c)
  \/ Create(c) \/ Join(c) \/ Relay(c) \/ Leave(c) \/ EndOfStream(c) \/ Done(c)

ClientReads(c) == GetAnswer(c) \/ GetJoined(c) \/ GetByte(c) \/ GetPeerLeft(c) \/ GetHangUp(c)

PlayerActs(c) ==
  OpenRoom(c) \/ (\E h \in Client : AskRoom(c, h)) \/ SendByte(c) \/ CloseClient(c)

Next == \E c \in Client : LoopStep(c) \/ LostConnection(c) \/ ClientReads(c) \/ PlayerActs(c)

LoopRuns == \E c \in Client : LoopStep(c)
ThreadReads == \E c \in Client : ClientReads(c)
Told(c) == screen[c] = "lost" /\ CloseClient(c)

\* The event loop runs whatever is ready, a client's thread reads, a link that hears of
\* its end closes, and a connection to nobody is noticed.
Fairness ==
  /\ WF_vars(LoopRuns) /\ WF_vars(ThreadReads)
  /\ WF_vars(\E c \in Client : Told(c)) /\ WF_vars(\E c \in Client : LostConnection(c))

Spec == Init /\ [][Next]_vars /\ Fairness

----------------------------------------------------------------------------
(* Properties.                                                             *)

FrameOf == [k : {"create", "join", "byte", "leave", "created", "joined", "peer_left", "error"},
            who : Client, n : Nat]

\* Type invariant of the server's tables, of its coroutines and of the clients.
TypeOK ==
  /\ games \subseteq Room /\ room \in [Client -> 0 .. MaxRooms]
  /\ peer \in [Client -> Client \cup {Nobody}] /\ running \in Client \cup {Nobody}
  /\ todo \in [Client -> Seq([to : Client, f : FrameOf, sent : BOOLEAN])]
  /\ next \in [Client -> {"read", "unpair", "close"}] /\ line \in [Client -> Seq(Client)]
  /\ ended \subseteq Client /\ lost \subseteq Client /\ gone \subseteq Client
  /\ up \in [Client -> Seq(FrameOf)] /\ down \in [Client -> Seq(FrameOf)]
  /\ screen \in [Client -> {"menu", "asked", "hosting", "linked", "lost", "closed"}]
  /\ with \in [Client -> Client \cup {Nobody}] /\ missed \subseteq Client
  /\ taken \in [Client -> Seq(Client \X Nat)]
  /\ opened \in [Client -> Nat] /\ asked \in [Client -> Nat] /\ said \in [Client -> Nat]

\* A player whose coroutine has still to finish what dissolves his pairing.
Leaving(c) == next[c] # "read"

\* A pairing is mutual, except while the player who dissolves it has still to finish:
\* nobody's bytes go to a player who believes he is linked to somebody else.
PairingMutual ==
  \A c \in Client : peer[c] # Nobody => peer[peer[c]] = c \/ Leaving(c)

\* What a link has received was sent by the player it was opened with and, when that
\* player's link was opened with this one, it is all he has sent so far, in order: none
\* of it came in before there was a link, to be thrown away.
RelayInOrder ==
  \A c \in Client : \A i \in DOMAIN taken[c] :
    LET from == taken[c][i][1] IN
    /\ screen[c] = "linked" => from = with[c]
    /\ with[from] = c => screen[c] \in {"linked", "lost", "closed"}
    /\ screen[c] = "linked" /\ with[from] = c => taken[c][i][2] = i

\* A room in the list is one whose host is still connected to the server.
RoomsHaveHosts == \A r \in games : Host(r) \notin ended

\* No client is told of a second pairing after it has been handed to a link.
JoinedOnce == [][\A c \in Client : screen[c] \in {"linked", "lost"} => ~GetJoined(c)]_vars

\* A room is offered to others as long as its host waits for a player.
OfferedHostWaits ==
  \A r \in Room : Offered(r) => Host(r) \in gone \/ screen[Host(r)] \notin {"linked", "lost"}

\* Whoever is linked to a player that has closed hears of it in the end, unless the end
\* overtook the pairing and found a dialog.
EndTold ==
  []<>(\A c \in Client : screen[c] = "linked" /\ with[c] \in gone => c \in missed)

\* The end never overtakes the pairing.
EndAlwaysTold == []<>(\A c \in Client : screen[c] = "linked" => with[c] \notin gone)

============================================================================
