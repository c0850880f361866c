----------------------------- MODULE LobbyProof -----------------------------
(***************************************************************************)
(* Proofs about Lobby, for any players, any number of rooms, joins and     *)
(* bytes, and any high water.                                              *)
(***************************************************************************)
EXTENDS Lobby, TLAPS, SequenceTheorems

USE LobbyAssumption

(***************************************************************************)
(* Types                                                                   *)
(***************************************************************************)
\* What a coroutine has still to send.
SendOf == [to : Client, f : FrameOf, sent : BOOLEAN]

\* A room on its way to the server is one its host may open.
NumberedInv ==
  \A c \in Client :
    /\ opened[c] <= MaxRooms
    /\ \A i \in 1 .. Len(up[c]) : up[c][i].k = "create" => up[c][i].n \in 1 .. MaxRooms

\* The inductive form of the types.
TypeInv == TypeOK /\ NumberedInv

\* The head and the rest of a sequence that is not empty.
LEMMA HeadTail ==
  ASSUME NEW S, NEW s \in Seq(S), s # << >>
  PROVE  /\ Len(s) \in Nat \ {0} /\ Head(s) = s[1] /\ s[1] \in S /\ Tail(s) \in Seq(S)
         /\ Len(Tail(s)) = Len(s) - 1
         /\ \A i \in 1 .. Len(Tail(s)) : i + 1 \in 1 .. Len(s) /\ Tail(s)[i] = s[i + 1]
OBVIOUS

\* A sequence with one more element.
LEMMA Longer ==
  ASSUME NEW S, NEW s \in Seq(S), NEW e \in S
  PROVE  /\ Append(s, e) \in Seq(S) /\ Len(Append(s, e)) = Len(s) + 1 /\ Len(s) \in Nat
         /\ Append(s, e)[Len(s) + 1] = e
         /\ \A i \in 1 .. Len(s) : Append(s, e)[i] = s[i]
         /\ \A i \in 1 .. Len(s) + 1 : (Append(s, e)[i] = s[i] /\ i \in 1 .. Len(s)) \/ Append(s, e)[i] = e
OBVIOUS

\* The frames of the lobby.
LEMMA FrameTypes ==
  ASSUME NEW who \in Client,
         NEW k \in {"create", "join", "byte", "leave", "created", "joined", "peer_left", "error"}
  PROVE  Frame(k, who) \in FrameOf
BY DEF Frame, FrameOf

\* A frame that is to be sent.
LEMMA SendTypes ==
  ASSUME NEW to \in Client, NEW f \in FrameOf
  PROVE  Send(to, f) \in SendOf /\ ~Send(to, f).sent /\ Send(to, f).f = f /\ Send(to, f).to = to
BY DEF Send, SendOf

\* A coroutine that is sending has a first frame, for a client.
LEMMA FirstTypes ==
  ASSUME TypeOK, NEW c \in Client, Sending(c)
  PROVE  /\ todo[c] \in Seq(SendOf) /\ todo[c][1] \in SendOf /\ Dest(c) \in Client
         /\ Len(todo[c]) \in Nat \ {0} /\ todo[c][1].f \in FrameOf
         /\ Tail(todo[c]) \in Seq(SendOf)
<1>1. todo[c] \in Seq(SendOf) /\ todo[c] # << >>
  BY DEF TypeOK, SendOf, Sending
<1>2. todo[c][1] \in SendOf /\ Len(todo[c]) \in Nat \ {0} /\ Tail(todo[c]) \in Seq(SendOf)
  BY <1>1, HeadTail
<1> QED
  BY <1>1, <1>2 DEF SendOf, Dest

\* A frame is done with.
LEMMA SentOneTypes ==
  ASSUME TypeOK, NEW c \in Client, Sending(c)
  PROVE  SentOne(c) \in [Client -> Seq(SendOf)]
<1>1. todo \in [Client -> Seq(SendOf)] /\ Tail(todo[c]) \in Seq(SendOf)
  BY FirstTypes DEF TypeOK, SendOf
<1> QED
  BY <1>1 DEF SentOne

\* A frame that has been written and is waited for.
LEMMA MarkedTypes ==
  ASSUME TypeOK, NEW c \in Client, Sending(c)
  PROVE  [todo EXCEPT ![c][1].sent = TRUE] \in [Client -> Seq(SendOf)]
<1> DEFINE e == [todo[c][1] EXCEPT !.sent = TRUE]
           s == [todo[c] EXCEPT ![1] = e]
<1>0. todo \in [Client -> Seq(SendOf)]
  BY DEF TypeOK, SendOf
<1>1. todo[c] \in Seq(SendOf) /\ 1 \in 1 .. Len(todo[c])
  BY FirstTypes
<1>2. e \in SendOf
  BY FirstTypes DEF SendOf
<1> HIDE DEF e
<1>3. s \in Seq(SendOf)
  BY <1>1, <1>2, ExceptSeq
<1>4. [todo EXCEPT ![c][1].sent = TRUE] = [todo EXCEPT ![c] = s]
  BY <1>0, <1>1 DEF e
<1> HIDE DEF s
<1> QED
  BY <1>0, <1>3, <1>4

\* A frame is written.
LEMMA WrittenTypes ==
  ASSUME TypeOK, NEW c \in Client, Sending(c)
  PROVE  Written(c) \in [Client -> Seq(FrameOf)]
<1>1. Dest(c) \in Client /\ todo[c][1].f \in FrameOf /\ down \in [Client -> Seq(FrameOf)]
  BY FirstTypes DEF TypeOK
<1>2. down[Dest(c)] \in Seq(FrameOf)
  BY <1>1
<1>3. Append(down[Dest(c)], todo[c][1].f) \in Seq(FrameOf)
  BY <1>1, <1>2, Longer
<1> QED
  BY <1>1, <1>2, <1>3 DEF Written

\* The lock is held: write, then go on or wait.
LEMMA PutTypes ==
  ASSUME TypeOK, NEW c \in Client, Sending(c), NEW queue \in Seq(Client), queue # << >>,
         Put(c, queue)
  PROVE  TypeOK'
<1>1. /\ todo' \in [Client -> Seq(SendOf)] /\ down' \in [Client -> Seq(FrameOf)]
      /\ running' \in Client \cup {Nobody}
  BY SentOneTypes, MarkedTypes, WrittenTypes DEF Put
<1>2. line' \in [Client -> Seq(Client)]
  <2>1. Tail(queue) \in Seq(Client)
    BY HeadTail
  <2>2. Dest(c) \in Client /\ line \in [Client -> Seq(Client)]
    BY FirstTypes DEF TypeOK
  <2> QED
    BY <2>1, <2>2 DEF Put
<1>3. UNCHANGED <<games, room, peer, next, up, ended, lost, player>>
  BY DEF Put, tables, ends
<1> QED
  BY <1>1, <1>2, <1>3 DEF TypeOK, SendOf, player

\* What drop_pairing does up to its await.
LEMMA DropTypes ==
  ASSUME TypeOK, NEW c \in Client, DropPeer(c)
  PROVE  /\ peer' \in [Client -> Client \cup {Nobody}] /\ todo' \in [Client -> Seq(SendOf)]
         /\ LastWord(c) \in Seq(SendOf)
<1>1. peer \in [Client -> Client \cup {Nobody}] /\ todo \in [Client -> Seq(SendOf)]
  BY DEF TypeOK, SendOf
<1>2. LastWord(c) \in Seq(SendOf)
  <2>1. CASE peer[c] = Nobody
    BY <2>1 DEF LastWord
  <2>2. CASE peer[c] # Nobody
    <3>1. Send(peer[c], Frame("peer_left", c)) \in SendOf
      BY <1>1, <2>2, FrameTypes, SendTypes
    <3> QED
      BY <2>2, <3>1 DEF LastWord
  <2> QED
    BY <2>1, <2>2
<1> QED
  BY <1>1, <1>2 DEF DropPeer

\* The steps of Session.send: the lock, the write, the drain and its exception.
LEMMA SendingTypes ==
  ASSUME TypeOK, NEW c \in Client, Write(c) \/ Queue(c) \/ Handed(c) \/ Drained(c) \/ Raised(c)
  PROVE  TypeOK'
<1>0. Sending(c) /\ Dest(c) \in Client /\ line[Dest(c)] \in Seq(Client)
  <2>1. Sending(c)
    BY DEF Write, Queue, Handed, Drained, Raised, Holds
  <2> QED
    BY <2>1, FirstTypes DEF TypeOK
<1>1. CASE Write(c)
  <2>1. <<c>> \in Seq(Client) /\ <<c>> # << >>
    OBVIOUS
  <2>2. Put(c, <<c>>)
    BY <1>1 DEF Write
  <2> QED
    BY ONLY <1>0, <2>1, <2>2, TypeOK, c \in Client, PutTypes
<1>2. CASE Handed(c)
  BY <1>0, <1>2, PutTypes DEF Handed, Holds
<1>3. Append(line[Dest(c)], c) \in Seq(Client)
  BY <1>0, Longer
<1>4. line \in [Client -> Seq(Client)]
  BY DEF TypeOK
<1>5. CASE Queue(c)
  <2>1. line' \in [Client -> Seq(Client)] /\ running' \in Client \cup {Nobody}
    BY <1>0, <1>3, <1>4, <1>5 DEF Queue
  <2> QED
    BY <1>5, <2>1 DEF Queue, TypeOK, tables, wires, ends, player
<1>6. Holds(c) => Release(c) \in [Client -> Seq(Client)]
  <2>1. line[Dest(c)] # << >> => Tail(line[Dest(c)]) \in Seq(Client)
    BY <1>0, HeadTail
  <2> QED
    BY <1>0, <1>4, <2>1 DEF Holds, Release
<1>7. CASE Drained(c)
  <2>1. /\ line' \in [Client -> Seq(Client)] /\ running' \in Client \cup {Nobody}
        /\ todo' \in [Client -> Seq(SendOf)]
    BY <1>0, <1>6, <1>7, SentOneTypes DEF Drained
  <2> QED
    BY <1>7, <2>1 DEF Drained, TypeOK, SendOf, tables, wires, ends, player
<1>8. CASE Raised(c)
  <2>1. line' \in [Client -> Seq(Client)] /\ running' \in Client \cup {Nobody}
    BY <1>6, <1>8 DEF Raised
  <2>2. /\ todo' \in [Client -> Seq(SendOf)] /\ peer' \in [Client -> Client \cup {Nobody}]
        /\ next' \in [Client -> {"read", "unpair", "close"}]
    <3>1. CASE Swallowed(c)
      <4>1. todo' = SentOne(c) /\ UNCHANGED <<peer, next>>
        BY <1>8, <3>1 DEF Raised
      <4>2. todo' \in [Client -> Seq(SendOf)]
        BY <1>0, <4>1, SentOneTypes
      <4> QED
        BY <4>1, <4>2 DEF TypeOK
    <3>2. CASE ~Swallowed(c)
      <4>1. DropPeer(c) /\ next' = [next EXCEPT ![c] = "close"]
        BY <1>8, <3>2 DEF Raised
      <4> QED
        BY <4>1, DropTypes DEF TypeOK
    <3> QED
      BY <3>1, <3>2
  <2> QED
    BY <1>8, <2>1, <2>2 DEF Raised, TypeOK, SendOf, wires, ends, player
<1> QED
  BY <1>1, <1>2, <1>5, <1>7, <1>8

\* A frame taken from a client.
LEMMA TakesTypes ==
  ASSUME TypeInv, NEW c \in Client, NEW kind, Takes(c, kind)
  PROVE  /\ Head(up[c]) \in FrameOf /\ Head(up[c]).k = kind
         /\ kind = "create" => Head(up[c]).n \in 1 .. MaxRooms
         /\ up' \in [Client -> Seq(FrameOf)] /\ running' \in Client \cup {Nobody}
         /\ opened' = opened => NumberedInv'
<1>1. up \in [Client -> Seq(FrameOf)] /\ up[c] \in Seq(FrameOf) /\ up[c] # << >>
  BY DEF TypeInv, TypeOK, Takes
<1>2. /\ Head(up[c]) = up[c][1] /\ up[c][1] \in FrameOf /\ Tail(up[c]) \in Seq(FrameOf)
      /\ Len(up[c]) \in Nat \ {0} /\ Len(Tail(up[c])) = Len(up[c]) - 1
      /\ \A i \in 1 .. Len(Tail(up[c])) : i + 1 \in 1 .. Len(up[c]) /\ Tail(up[c])[i] = up[c][i + 1]
  BY <1>1, HeadTail
<1>3. kind = "create" => Head(up[c]).n \in 1 .. MaxRooms
  BY <1>2 DEF Takes, TypeInv, NumberedInv
<1>4. up' \in [Client -> Seq(FrameOf)]
  BY <1>1, <1>2 DEF Takes
<1>5. opened' = opened => NumberedInv'
  <2> SUFFICES ASSUME opened' = opened, NEW d \in Client, NEW i \in 1 .. Len(up'[d]), up'[d][i].k = "create"
               PROVE  up'[d][i].n \in 1 .. MaxRooms
    BY DEF NumberedInv, TypeInv
  <2>1. CASE d # c
    BY <1>1, <2>1 DEF Takes, TypeInv, NumberedInv
  <2>2. CASE d = c
    <3>1. up'[d] = Tail(up[c])
      BY <1>1, <2>2 DEF Takes
    <3> QED
      BY <1>2, <2>2, <3>1 DEF TypeInv, NumberedInv
  <2> QED
    BY <2>1, <2>2
<1> QED
  BY <1>2, <1>3, <1>4, <1>5 DEF Takes

\* One frame of a client, handled by the server.
LEMMA ReadingTypes ==
  ASSUME TypeInv, NEW c \in Client, Create(c) \/ Join(c) \/ Relay(c) \/ Leave(c)
  PROVE  TypeInv'
<1>0. /\ games \subseteq Room /\ peer \in [Client -> Client \cup {Nobody}]
      /\ todo \in [Client -> Seq(SendOf)]
  BY DEF TypeInv, TypeOK, SendOf
<1>1. CASE Create(c)
  <2>1. Takes(c, "create") /\ UNCHANGED <<peer, next, line, down, ends, player>>
    BY <1>1 DEF Create
  <2>2. /\ Head(up[c]).n \in 1 .. MaxRooms
        /\ up' \in [Client -> Seq(FrameOf)] /\ running' \in Client \cup {Nobody} /\ NumberedInv'
    BY <2>1, TakesTypes DEF player
  <2>3. Send(c, Frame("created", c)) \in SendOf
    BY FrameTypes, SendTypes
  <2>4. todo' \in [Client -> Seq(SendOf)]
    BY <1>0, <1>1, <2>3 DEF Create
  <2>5. games' \subseteq Room
    BY <1>0, <1>1, <2>2 DEF Create, Room
  <2>6. room' \in [Client -> 0 .. MaxRooms]
    <3>1. room \in [Client -> 0 .. MaxRooms] /\ room' = [room EXCEPT ![c] = Head(up[c]).n]
      BY <1>1 DEF Create, TypeInv, TypeOK
    <3> QED
      BY <2>2, <3>1
  <2> QED
    BY <2>1, <2>2, <2>4, <2>5, <2>6 DEF TypeInv, TypeOK, SendOf, ends, player
<1>2. CASE Join(c)
  <2>1. Takes(c, "join") /\ UNCHANGED <<games, room, next, line, down, ends, player>>
    BY <1>2 DEF Join
  <2>2. /\ Head(up[c]) \in FrameOf
        /\ up' \in [Client -> Seq(FrameOf)] /\ running' \in Client \cup {Nobody} /\ NumberedInv'
    BY <2>1, TakesTypes DEF player
  <2>3. peer' \in [Client -> Client \cup {Nobody}] /\ todo' \in [Client -> Seq(SendOf)]
    <3> DEFINE r == <<Head(up[c]).who, Head(up[c]).n>>
    <3>1. Host(r) \in Client
      BY <2>2 DEF Host, FrameOf
    <3>2. CASE Offered(r)
      <4>1. Tidings(c, Host(r)) \in Seq(SendOf)
        <5>1. /\ Send(Host(r), Frame("joined", c)) \in SendOf
              /\ Send(c, Frame("joined", Host(r))) \in SendOf
          BY <3>1, FrameTypes, SendTypes
        <5> QED
          BY <5>1 DEF Tidings
      <4>2. /\ peer' = [peer EXCEPT ![Host(r)] = c, ![c] = Host(r)]
            /\ todo' = [todo EXCEPT ![c] = Tidings(c, Host(r))]
        BY <1>2, <3>2 DEF Join
      <4> QED
        BY <1>0, <3>1, <4>1, <4>2
    <3>3. CASE ~Offered(r)
      <4>1. Send(c, Frame("error", c)) \in SendOf
        BY FrameTypes, SendTypes
      <4>2. todo' = [todo EXCEPT ![c] = <<Send(c, Frame("error", c))>>] /\ UNCHANGED peer
        BY <1>2, <3>3 DEF Join
      <4> QED
        BY <1>0, <4>1, <4>2
    <3> QED
      BY <3>2, <3>3
  <2> QED
    BY <2>1, <2>2, <2>3 DEF TypeInv, TypeOK, SendOf, ends, player
<1>3. CASE Relay(c)
  <2>1. Takes(c, "byte") /\ UNCHANGED <<tables, next, line, down, ends, player>>
    BY <1>3 DEF Relay
  <2>2. /\ Head(up[c]) \in FrameOf
        /\ up' \in [Client -> Seq(FrameOf)] /\ running' \in Client \cup {Nobody} /\ NumberedInv'
    BY <2>1, TakesTypes DEF player
  <2>3. peer[c] # Nobody => Send(peer[c], Head(up[c])) \in SendOf
    BY <1>0, <2>2, SendTypes
  <2>4. todo' \in [Client -> Seq(SendOf)]
    BY <1>0, <1>3, <2>3 DEF Relay
  <2> QED
    BY <2>1, <2>2, <2>4 DEF TypeInv, TypeOK, SendOf, tables, ends, player
<1>4. CASE Leave(c)
  <2>1. /\ Takes(c, "leave") /\ UNCHANGED <<games, room, line, down, ends, player>>
        /\ DropPeer(c) /\ next' = [next EXCEPT ![c] = "unpair"]
    BY <1>4 DEF Leave
  <2>2. up' \in [Client -> Seq(FrameOf)] /\ running' \in Client \cup {Nobody} /\ NumberedInv'
    BY <2>1, TakesTypes DEF player
  <2>3. peer' \in [Client -> Client \cup {Nobody}] /\ todo' \in [Client -> Seq(SendOf)]
    BY <2>1, DropTypes DEF TypeInv
  <2> QED
    BY <2>1, <2>2, <2>3 DEF TypeInv, TypeOK, SendOf, ends, player
<1> QED
  BY <1>1, <1>2, <1>3, <1>4

\* The ends of a session, and of a frame.
LEMMA EndingTypes ==
  ASSUME TypeOK, NEW c \in Client, EndOfStream(c) \/ Done(c) \/ LostConnection(c)
  PROVE  TypeOK'
<1>0. /\ games \subseteq Room /\ peer \in [Client -> Client \cup {Nobody}]
      /\ todo \in [Client -> Seq(SendOf)]
  BY DEF TypeOK, SendOf
<1>1. CASE EndOfStream(c)
  <2>1. /\ DropPeer(c) /\ next' = [next EXCEPT ![c] = "close"] /\ running' = c
        /\ UNCHANGED <<games, room, line, wires, ends, player>>
    BY <1>1 DEF EndOfStream
  <2>2. peer' \in [Client -> Client \cup {Nobody}] /\ todo' \in [Client -> Seq(SendOf)]
    BY <2>1, DropTypes
  <2> QED
    BY <2>1, <2>2 DEF TypeOK, SendOf, wires, ends, player
<1>2. CASE Done(c)
  <2>1. running' = Nobody /\ UNCHANGED <<todo, line, wires, lost, player>>
    BY <1>2 DEF Done
  <2>2. CASE next[c] = "read"
    BY <1>2, <2>1, <2>2 DEF Done, TypeOK, tables, wires, player
  <2>3. CASE next[c] # "read"
    <3>1. /\ peer' \in [Client -> Client \cup {Nobody}] /\ games' \subseteq Room
          /\ room' \in [Client -> 0 .. MaxRooms] /\ ended' \subseteq Client
          /\ next' \in [Client -> {"read", "unpair", "close"}]
      <4>1. /\ peer' = Unpaired(c) /\ games' = ClosedRoom(c) /\ room' = [room EXCEPT ![c] = 0]
            /\ next' = [next EXCEPT ![c] = "read"]
            /\ ended' = IF next[c] = "close" THEN ended \cup {c} ELSE ended
        BY <1>2, <2>3 DEF Done
      <4>2. room' \in [Client -> 0 .. MaxRooms]
        BY <4>1 DEF TypeOK
      <4>3. next' \in [Client -> {"read", "unpair", "close"}] /\ ended' \subseteq Client
        BY <4>1 DEF TypeOK
      <4> QED
        BY <1>0, <4>1, <4>2, <4>3 DEF Unpaired, ClosedRoom
    <3> QED
      BY <2>1, <3>1 DEF TypeOK, wires, player
  <2> QED
    BY <2>2, <2>3
<1>3. CASE LostConnection(c)
  BY <1>3 DEF LostConnection, TypeOK, tables, loop, wires, player
<1> QED
  BY <1>1, <1>2, <1>3

\* What a client reads.
LEMMA ClientTypes ==
  ASSUME TypeOK, NEW c \in Client, ClientReads(c)
  PROVE  TypeOK' /\ UNCHANGED <<up, opened>>
<1>0. down \in [Client -> Seq(FrameOf)] /\ down[c] \in Seq(FrameOf)
  BY DEF TypeOK
<1>1. down[c] # << >> => Head(down[c]) \in FrameOf /\ Tail(down[c]) \in Seq(FrameOf)
  BY <1>0, HeadTail
<1>2. ASSUME NEW kind, Receives(c, kind)
      PROVE  /\ down' \in [Client -> Seq(FrameOf)] /\ Head(down[c]) \in FrameOf
             /\ UNCHANGED <<tables, loop, up, ends, gone, opened, asked, said>>
  BY <1>0, <1>1, <1>2 DEF Receives
<1>3. CASE GetHangUp(c)
  BY <1>3 DEF GetHangUp, TypeOK, tables, loop, wires, ends
<1>4. CASE GetAnswer(c)
  <2>1. /\ down' \in [Client -> Seq(FrameOf)]
        /\ UNCHANGED <<tables, loop, up, ends, gone, opened, asked, said>>
    BY <1>2, <1>4 DEF GetAnswer
  <2>2. screen' \in [Client -> {"menu", "asked", "hosting", "linked", "lost", "closed"}]
    BY <1>4 DEF GetAnswer, TypeOK
  <2> QED
    BY <1>4, <2>1, <2>2 DEF GetAnswer, TypeOK, tables, loop, ends
<1>5. taken \in [Client -> Seq(Client \X Nat)]
  BY DEF TypeOK
<1>6. CASE GetJoined(c)
  <2>1. /\ down' \in [Client -> Seq(FrameOf)] /\ Head(down[c]).who \in Client
        /\ UNCHANGED <<tables, loop, up, ends, gone, opened, asked, said>>
    BY <1>2, <1>6 DEF GetJoined, FrameOf
  <2>2. taken' \in [Client -> Seq(Client \X Nat)] /\ missed' = missed
    BY <1>5, <1>6 DEF GetJoined, Cleared
  <2>3. /\ screen' \in [Client -> {"menu", "asked", "hosting", "linked", "lost", "closed"}]
        /\ with' \in [Client -> Client \cup {Nobody}]
    BY <1>6, <2>1 DEF GetJoined, TypeOK
  <2> QED
    BY <2>1, <2>2, <2>3 DEF TypeOK, tables, loop, ends
<1>7. CASE GetByte(c)
  <2>1. /\ down' \in [Client -> Seq(FrameOf)]
        /\ <<Head(down[c]).who, Head(down[c]).n>> \in Client \X Nat
        /\ UNCHANGED <<tables, loop, up, ends, gone, opened, asked, said>>
    BY <1>2, <1>7 DEF GetByte, FrameOf
  <2>2. taken[c] \in Seq(Client \X Nat)
    BY <1>5
  <2>3. Append(taken[c], <<Head(down[c]).who, Head(down[c]).n>>) \in Seq(Client \X Nat)
    BY <2>1, <2>2, Longer
  <2>4. taken' \in [Client -> Seq(Client \X Nat)] /\ UNCHANGED <<screen, with, missed>>
    BY <1>5, <1>7, <2>3 DEF GetByte
  <2> QED
    BY <2>1, <2>4 DEF TypeOK, tables, loop, ends
<1>8. CASE GetPeerLeft(c)
  <2>1. /\ down' \in [Client -> Seq(FrameOf)]
        /\ UNCHANGED <<tables, loop, up, ends, gone, opened, asked, said>>
    BY <1>2, <1>8 DEF GetPeerLeft
  <2>2. taken' \in [Client -> Seq(Client \X Nat)] /\ with' = with
    BY <1>5, <1>8 DEF GetPeerLeft, Cleared
  <2>3. /\ screen' \in [Client -> {"menu", "asked", "hosting", "linked", "lost", "closed"}]
        /\ missed' \subseteq Client
    BY <1>8 DEF GetPeerLeft, TypeOK
  <2> QED
    BY <2>1, <2>2, <2>3 DEF TypeOK, tables, loop, ends
<1> QED
  BY <1>3, <1>4, <1>6, <1>7, <1>8 DEF ClientReads, GetHangUp, GetAnswer, GetJoined, GetByte,
     GetPeerLeft, Receives, wires

\* What a client sends, a frame of its own behind those before it.
LEMMA SaysTypes ==
  ASSUME TypeInv, NEW c \in Client, NEW f \in FrameOf, Says(c, f),
         opened' \in [Client -> Nat], \A d \in Client : opened'[d] <= MaxRooms,
         f.k = "create" => f.n \in 1 .. MaxRooms
  PROVE  up' \in [Client -> Seq(FrameOf)] /\ NumberedInv'
<1>1. up \in [Client -> Seq(FrameOf)] /\ up[c] \in Seq(FrameOf)
  BY DEF TypeInv, TypeOK
<1>2. /\ Append(up[c], f) \in Seq(FrameOf)
      /\ \A i \in 1 .. Len(Append(up[c], f)) :
           (Append(up[c], f)[i] = up[c][i] /\ i \in 1 .. Len(up[c])) \/ Append(up[c], f)[i] = f
  BY <1>1, Longer
<1>3. up' = [up EXCEPT ![c] = Append(up[c], f)]
  BY DEF Says
<1>4. ASSUME NEW d \in Client, NEW i \in 1 .. Len(up'[d]), up'[d][i].k = "create"
      PROVE  up'[d][i].n \in 1 .. MaxRooms
  <2>1. CASE d # c
    BY <1>1, <1>3, <1>4, <2>1 DEF TypeInv, NumberedInv
  <2>2. CASE d = c
    <3>1. up'[d] = Append(up[c], f)
      BY <1>1, <1>3, <2>2
    <3>2. (up'[d][i] = up[c][i] /\ i \in 1 .. Len(up[c])) \/ up'[d][i] = f
      BY <1>2, <3>1
    <3> QED
      BY <1>4, <3>2 DEF TypeInv, NumberedInv
  <2> QED
    BY <2>1, <2>2
<1> QED
  BY <1>1, <1>2, <1>3, <1>4 DEF NumberedInv

\* What a player does.
LEMMA PlayerTypes ==
  ASSUME TypeInv, NEW c \in Client, PlayerActs(c)
  PROVE  TypeInv'
<1>0. opened \in [Client -> Nat] /\ \A d \in Client : opened[d] <= MaxRooms /\ MaxRooms \in Nat
  BY DEF TypeInv, TypeOK, NumberedInv
<1>1. CASE OpenRoom(c)
  <2> DEFINE f == [k |-> "create", who |-> c, n |-> opened[c] + 1]
  <2>1. /\ Says(c, f) /\ opened' = [opened EXCEPT ![c] = @ + 1] /\ opened[c] < MaxRooms
        /\ screen' = [screen EXCEPT ![c] = "hosting"]
        /\ UNCHANGED <<tables, loop, down, ends, gone, with, missed, taken, asked, said>>
    BY <1>1 DEF OpenRoom, MayOpen
  <2>2. f \in FrameOf /\ f.n \in 1 .. MaxRooms
    BY <1>0, <2>1 DEF FrameOf
  <2>3. opened' \in [Client -> Nat] /\ \A d \in Client : opened'[d] <= MaxRooms
    BY <1>0, <2>1
  <2> HIDE DEF f
  <2>4. up' \in [Client -> Seq(FrameOf)] /\ NumberedInv'
    BY <2>1, <2>2, <2>3, SaysTypes
  <2> QED
    BY <2>1, <2>3, <2>4 DEF TypeInv, TypeOK, tables, loop, ends
<1>2. ASSUME NEW h \in Client, AskRoom(c, h)
      PROVE  TypeInv'
  <2>1. PICK n \in 1 .. opened[h] : Says(c, [k |-> "join", who |-> h, n |-> n])
    BY <1>2 DEF AskRoom
  <2> DEFINE f == [k |-> "join", who |-> h, n |-> n]
  <2>2. f \in FrameOf /\ f.k # "create" /\ Says(c, f)
    BY <1>0, <2>1 DEF FrameOf
  <2>3. /\ asked' = [asked EXCEPT ![c] = @ + 1] /\ screen' = [screen EXCEPT ![c] = "asked"]
        /\ UNCHANGED <<tables, loop, down, ends, gone, with, missed, taken, opened, said>>
    BY <1>2 DEF AskRoom
  <2> HIDE DEF f
  <2>4. up' \in [Client -> Seq(FrameOf)] /\ NumberedInv'
    <3>1. opened' \in [Client -> Nat] /\ \A d \in Client : opened'[d] <= MaxRooms
      BY <1>0, <2>3
    <3> QED
      BY <2>2, <3>1, SaysTypes
  <2>5. asked' \in [Client -> Nat]
    <3>1. asked \in [Client -> Nat] /\ asked' = [asked EXCEPT ![c] = @ + 1]
      BY <2>3 DEF TypeInv, TypeOK
    <3> QED
      BY <3>1
  <2> QED
    BY <2>3, <2>4, <2>5 DEF TypeInv, TypeOK, tables, loop, ends
<1>3. CASE SendByte(c)
  <2> DEFINE f == [k |-> "byte", who |-> c, n |-> said[c] + 1]
  <2>1. /\ Says(c, f) /\ said' = [said EXCEPT ![c] = @ + 1]
        /\ UNCHANGED <<tables, loop, down, ends, gone, screen, with, missed, taken, opened, asked>>
    BY <1>3 DEF SendByte
  <2>2. said[c] + 1 \in Nat /\ said' \in [Client -> Nat]
    BY <2>1 DEF TypeInv, TypeOK
  <2>3. f \in FrameOf /\ f.k # "create"
    BY <2>2 DEF FrameOf
  <2> HIDE DEF f
  <2>4. up' \in [Client -> Seq(FrameOf)] /\ NumberedInv'
    BY <1>0, <2>1, <2>3, SaysTypes
  <2> QED
    BY <2>1, <2>2, <2>4 DEF TypeInv, TypeOK, tables, loop, ends
<1>4. CASE CloseClient(c)
  <2>1. /\ gone' = gone \cup {c} /\ screen' = [screen EXCEPT ![c] = "closed"]
        /\ down' = [down EXCEPT ![c] = <<>>]
        /\ Says(c, Frame("leave", c)) \/ UNCHANGED up
        /\ UNCHANGED <<tables, loop, ends, with, missed, taken, opened, asked, said>>
    BY <1>4 DEF CloseClient
  <2>2. Frame("leave", c) \in FrameOf /\ Frame("leave", c).k # "create"
    BY FrameTypes DEF Frame
  <2>5. /\ down' \in [Client -> Seq(FrameOf)] /\ gone' \subseteq Client
        /\ screen' \in [Client -> {"menu", "asked", "hosting", "linked", "lost", "closed"}]
    <3>1. << >> \in Seq(FrameOf)
      OBVIOUS
    <3> QED
      BY <2>1, <3>1 DEF TypeInv, TypeOK
  <2>3. CASE Says(c, Frame("leave", c))
    <3>1. up' \in [Client -> Seq(FrameOf)] /\ NumberedInv'
      BY <1>0, <2>1, <2>2, <2>3, SaysTypes
    <3> QED
      BY <2>1, <2>5, <3>1 DEF TypeInv, TypeOK, tables, loop, ends
  <2>4. CASE UNCHANGED up
    BY <2>1, <2>4, <2>5 DEF TypeInv, TypeOK, NumberedInv, tables, loop, ends
  <2> QED
    BY <2>1, <2>3, <2>4
<1> QED
  BY <1>1, <1>2, <1>3, <1>4 DEF PlayerActs

\* Types, step by step.
LEMMA NextTypes == TypeInv /\ [Next]_vars => TypeInv'
<1> SUFFICES ASSUME TypeInv, [Next]_vars PROVE TypeInv'
  OBVIOUS
<1>1. UNCHANGED <<up, opened>> => NumberedInv'
  BY DEF TypeInv, NumberedInv
<1>2. CASE UNCHANGED vars
  BY <1>1, <1>2 DEF vars, tables, loop, wires, ends, player, TypeInv, TypeOK
<1>3. ASSUME NEW c \in Client, LoopStep(c) \/ LostConnection(c) \/ ClientReads(c) \/ PlayerActs(c)
      PROVE  TypeInv'
  <2>1. CASE Write(c) \/ Queue(c) \/ Handed(c) \/ Drained(c) \/ Raised(c)
    <3>1. UNCHANGED <<up, opened>>
      BY <2>1 DEF Write, Queue, Handed, Drained, Raised, Put, wires, player
    <3> QED
      BY <1>1, <2>1, <3>1, SendingTypes DEF TypeInv
  <2>2. CASE Create(c) \/ Join(c) \/ Relay(c) \/ Leave(c)
    BY <2>2, ReadingTypes
  <2>3. CASE EndOfStream(c) \/ Done(c) \/ LostConnection(c)
    <3>1. UNCHANGED <<up, opened>>
      BY <2>3 DEF EndOfStream, Done, LostConnection, wires, player
    <3> QED
      BY <1>1, <2>3, <3>1, EndingTypes DEF TypeInv
  <2>4. CASE ClientReads(c)
    BY <1>1, <2>4, ClientTypes DEF TypeInv
  <2>5. CASE PlayerActs(c)
    BY <2>5, PlayerTypes
  <2> QED
    BY <1>3, <2>1, <2>2, <2>3, <2>4, <2>5 DEF LoopStep
<1> QED
  BY <1>2, <1>3 DEF Next

\* An empty lobby is well typed.
LEMMA InitTypes == Init => TypeInv
<1> SUFFICES ASSUME Init PROVE TypeInv
  OBVIOUS
<1>1. << >> \in Seq(SendOf) /\ << >> \in Seq(Client) /\ << >> \in Seq(FrameOf) /\ << >> \in Seq(Client \X Nat)
  OBVIOUS
<1>2. TypeOK
  BY <1>1 DEF Init, TypeOK, SendOf
<1>3. NumberedInv
  BY DEF Init, NumberedInv
<1> QED
  BY <1>2, <1>3 DEF TypeInv

\* The inductive form of the types.
LEMMA AlwaysTypes == Spec => []TypeInv
BY InitTypes, NextTypes, PTL DEF Spec

\* Every reachable state of the lobby is well typed.
THEOREM TypeCorrect == Spec => []TypeOK
<1>1. TypeInv => TypeOK
  BY DEF TypeInv
<1> QED
  BY <1>1, AlwaysTypes, PTL

(***************************************************************************)
(* What the coroutines have still to send                                  *)
(***************************************************************************)
\* Only the first frame may have been written already, and a refusal goes alone, to the
\* client whose frame is refused.
Orderly(s, c) ==
  \A i \in 1 .. Len(s) :
    /\ s[i].sent => i = 1
    /\ s[i].f.k = "error" => Len(s) = 1 /\ s[i].to = c

\* Nothing of it has been written.
Unwritten(s) == \A i \in 1 .. Len(s) : ~s[i].sent

\* A coroutine that is running waits for no write.
SentInv == \A c \in Client : Orderly(todo[c], c) /\ (running = c => Unwritten(todo[c]))

\* Types, and the order within what is to be sent.
LoopInv == TypeInv /\ SentInv

\* What is left when the first frame is done with.
LEMMA RestOrderly ==
  ASSUME NEW c, NEW s \in Seq(SendOf), s # << >>, Orderly(s, c)
  PROVE  /\ Orderly(Tail(s), c) /\ Unwritten(Tail(s))
         /\ \A i \in 1 .. Len(Tail(s)) : Tail(s)[i].f.k # "error"
<1>1. /\ Len(s) \in Nat \ {0} /\ Len(Tail(s)) = Len(s) - 1
      /\ \A i \in 1 .. Len(Tail(s)) : i + 1 \in 1 .. Len(s) /\ Tail(s)[i] = s[i + 1]
  BY HeadTail
<1>2. ASSUME NEW i \in 1 .. Len(Tail(s))
      PROVE  ~Tail(s)[i].sent /\ Tail(s)[i].f.k # "error"
  <2>1. i + 1 \in 1 .. Len(s) /\ Tail(s)[i] = s[i + 1] /\ i + 1 # 1 /\ Len(s) # 1
    BY <1>1
  <2> QED
    BY <2>1 DEF Orderly
<1> QED
  BY <1>2 DEF Orderly, Unwritten

\* The first frame, written and waited for.
LEMMA MarkedOrderly ==
  ASSUME TypeOK, NEW c \in Client, Sending(c), Orderly(todo[c], c)
  PROVE  /\ Orderly([todo EXCEPT ![c][1].sent = TRUE][c], c)
         /\ [todo EXCEPT ![c][1].sent = TRUE][c][1].sent
         /\ [todo EXCEPT ![c][1].sent = TRUE][c] # << >>
<1> DEFINE e == [todo[c][1] EXCEPT !.sent = TRUE]
           s == [todo[c] EXCEPT ![1] = e]
<1>0. todo \in [Client -> Seq(SendOf)]
  BY DEF TypeOK, SendOf
<1>1. todo[c] \in Seq(SendOf) /\ 1 \in 1 .. Len(todo[c]) /\ todo[c][1] \in SendOf
  BY FirstTypes
<1>2. e \in SendOf /\ e.sent /\ e.f = todo[c][1].f /\ e.to = todo[c][1].to
  BY <1>1 DEF SendOf
<1>3. [todo EXCEPT ![c][1].sent = TRUE][c] = s
  BY <1>0, <1>1 DEF e
<1> HIDE DEF e
<1>4. /\ s \in Seq(SendOf) /\ Len(s) = Len(todo[c]) /\ s[1] = e
      /\ \A i \in 1 .. Len(s) : i # 1 => s[i] = todo[c][i]
  BY <1>1, <1>2, ExceptSeq
<1> HIDE DEF s
<1>5. Orderly(s, c) /\ s[1].sent /\ s # << >>
  BY <1>1, <1>2, <1>4 DEF Orderly
<1> QED
  BY <1>3, <1>5

\* A coroutine's turn changes what it has to send, and hands the loop to it or to nobody.
LEMMA TurnOrderly ==
  ASSUME LoopInv, NEW c \in Client, NEW s, todo' = [todo EXCEPT ![c] = s],
         running' \in {c, Nobody}, Orderly(s, c), running' = c => Unwritten(s)
  PROVE  SentInv'
<1>1. todo'[c] = s /\ \A d \in Client \ {c} : todo'[d] = todo[d] /\ running' # d
  BY DEF LoopInv, TypeInv, TypeOK
<1> QED
  BY <1>1 DEF LoopInv, SentInv

\* One frame, two, or none, none of them a refusal to somebody else.
LEMMA FewOrderly ==
  ASSUME NEW c \in Client, NEW a \in SendOf, NEW b \in SendOf, ~a.sent, ~b.sent,
         a.f.k # "error", b.f.k # "error"
  PROVE  /\ Orderly(<<a>>, c) /\ Unwritten(<<a>>)
         /\ Orderly(<<a, b>>, c) /\ Unwritten(<<a, b>>)
         /\ Orderly(<< >>, c) /\ Unwritten(<< >>)
BY DEF Orderly, Unwritten

\* A refusal goes alone.
LEMMA RefusalOrderly ==
  ASSUME NEW c \in Client
  PROVE  /\ Orderly(<<Send(c, Frame("error", c))>>, c)
         /\ Unwritten(<<Send(c, Frame("error", c))>>)
BY DEF Orderly, Unwritten, Send, Frame

\* A departure has at most one thing to say.
LEMMA LastWordOrderly ==
  ASSUME TypeOK, NEW c \in Client
  PROVE  /\ Orderly(LastWord(c), c) /\ Unwritten(LastWord(c))
         /\ \A i \in 1 .. Len(LastWord(c)) : LastWord(c)[i].f.k # "error"
         /\ peer[c] = Nobody <=> LastWord(c) = << >>
BY DEF Orderly, Unwritten, LastWord, Send, Frame

\* A frame is put on the wire: what was first is done with, or is waited for.
LEMMA PutOrderly ==
  ASSUME LoopInv, NEW c \in Client, Sending(c), ~todo[c][1].sent, NEW queue, Put(c, queue)
  PROVE  SentInv'
<1>1. TypeOK /\ Orderly(todo[c], c) /\ todo[c] \in Seq(SendOf) /\ todo \in [Client -> Seq(SendOf)]
  BY DEF LoopInv, TypeInv, SentInv, TypeOK, SendOf
<1>2. todo[c] # << >>
  BY DEF Sending
<1>3. CASE todo' = SentOne(c) /\ running' = c
  BY <1>1, <1>2, <1>3, RestOrderly, TurnOrderly DEF SentOne
<1>4. CASE todo' = [todo EXCEPT ![c][1].sent = TRUE] /\ running' = Nobody
  <2> DEFINE s == [todo EXCEPT ![c][1].sent = TRUE][c]
  <2>1. Orderly(s, c) /\ todo' = [todo EXCEPT ![c] = s]
    BY <1>1, <1>4, MarkedOrderly
  <2> HIDE DEF s
  <2> QED
    BY <1>4, <2>1, TurnOrderly
<1> QED
  BY <1>3, <1>4 DEF Put

\* The steps of Session.send.
LEMMA SendingOrderly ==
  ASSUME LoopInv, NEW c \in Client, Write(c) \/ Queue(c) \/ Handed(c) \/ Drained(c) \/ Raised(c)
  PROVE  SentInv'
<1>1. /\ TypeOK /\ Orderly(todo[c], c) /\ todo[c] \in Seq(SendOf) /\ Sending(c) /\ todo[c] # << >>
      /\ Len(todo[c]) \in Nat \ {0}
  <2>1. Sending(c)
    BY DEF Write, Queue, Handed, Drained, Raised, Holds
  <2> QED
    BY <2>1, FirstTypes DEF LoopInv, TypeInv, SentInv, Sending
<1>2. CASE Write(c)
  <2>1. ~todo[c][1].sent
    BY <1>1, <1>2 DEF Write, LoopInv, SentInv, Unwritten
  <2> QED
    BY <1>1, <1>2, <2>1, PutOrderly DEF Write
<1>3. CASE Handed(c)
  BY <1>1, <1>3, PutOrderly DEF Handed
<1>4. CASE Queue(c)
  BY <1>4 DEF Queue, LoopInv, SentInv
<1>5. CASE todo' = SentOne(c) /\ running' = c
  BY <1>1, <1>5, RestOrderly, TurnOrderly DEF SentOne
<1>6. CASE DropPeer(c) /\ running' = c
  BY <1>1, <1>6, LastWordOrderly, TurnOrderly DEF DropPeer
<1> QED
  BY <1>2, <1>3, <1>4, <1>5, <1>6 DEF Drained, Raised

\* A frame of a client is answered from an empty list.
LEMMA ReadingOrderly ==
  ASSUME LoopInv, NEW c \in Client,
         Create(c) \/ Join(c) \/ Relay(c) \/ Leave(c) \/ EndOfStream(c)
  PROVE  SentInv'
<1>1. TypeOK /\ TypeInv /\ running' = c /\ peer \in [Client -> Client \cup {Nobody}]
  BY DEF LoopInv, TypeInv, TypeOK, Create, Join, Relay, Leave, EndOfStream, Takes
<1>2. CASE Create(c)
  <2>1. /\ Send(c, Frame("created", c)) \in SendOf /\ ~Send(c, Frame("created", c)).sent
        /\ Send(c, Frame("created", c)).f.k # "error"
    BY FrameTypes, SendTypes DEF Send, Frame
  <2> QED
    BY <1>1, <1>2, <2>1, FewOrderly, TurnOrderly DEF Create
<1>3. CASE Join(c)
  <2> DEFINE r == <<Head(up[c]).who, Head(up[c]).n>>
  <2>1. Host(r) \in Client
    BY <1>1, <1>3, TakesTypes DEF Join, Host, FrameOf
  <2>2. CASE Offered(r)
    <3>1. /\ Send(Host(r), Frame("joined", c)) \in SendOf /\ ~Send(Host(r), Frame("joined", c)).sent
          /\ Send(Host(r), Frame("joined", c)).f.k # "error"
          /\ Send(c, Frame("joined", Host(r))) \in SendOf /\ ~Send(c, Frame("joined", Host(r))).sent
          /\ Send(c, Frame("joined", Host(r))).f.k # "error"
      BY <2>1, FrameTypes, SendTypes DEF Send, Frame
    <3>2. Orderly(Tidings(c, Host(r)), c) /\ Unwritten(Tidings(c, Host(r)))
      BY <3>1, FewOrderly DEF Tidings
    <3>3. todo' = [todo EXCEPT ![c] = Tidings(c, Host(r))]
      BY <1>3, <2>2 DEF Join
    <3> QED
      BY <1>1, <3>2, <3>3, TurnOrderly
  <2>3. CASE ~Offered(r)
    <3>1. todo' = [todo EXCEPT ![c] = <<Send(c, Frame("error", c))>>]
      BY <1>3, <2>3 DEF Join
    <3> QED
      BY <1>1, <3>1, RefusalOrderly, TurnOrderly
  <2> QED
    BY <2>2, <2>3
<1>4. CASE Relay(c)
  <2>1. Head(up[c]) \in FrameOf /\ Head(up[c]).k = "byte"
    BY <1>1, <1>4, TakesTypes DEF Relay
  <2>2. CASE peer[c] = Nobody
    <3>1. todo' = [todo EXCEPT ![c] = << >>]
      BY <1>4, <2>2 DEF Relay
    <3>2. Orderly(<< >>, c) /\ Unwritten(<< >>)
      BY DEF Orderly, Unwritten
    <3> QED
      BY <1>1, <3>1, <3>2, TurnOrderly
  <2>3. CASE peer[c] # Nobody
    <3>1. todo' = [todo EXCEPT ![c] = <<Send(peer[c], Head(up[c]))>>]
      BY <1>4, <2>3 DEF Relay
    <3>2. /\ Send(peer[c], Head(up[c])) \in SendOf /\ ~Send(peer[c], Head(up[c])).sent
          /\ Send(peer[c], Head(up[c])).f.k # "error"
      BY <1>1, <2>1, <2>3, SendTypes
    <3> QED
      BY <1>1, <3>1, <3>2, FewOrderly, TurnOrderly
  <2> QED
    BY <2>2, <2>3
<1>5. CASE DropPeer(c)
  BY <1>1, <1>5, LastWordOrderly, TurnOrderly DEF DropPeer
<1> QED
  BY <1>2, <1>3, <1>4, <1>5 DEF Leave, EndOfStream

\* What is to be sent stays in order, step by step.
LEMMA NextLoop == LoopInv /\ [Next]_vars => LoopInv'
<1> SUFFICES ASSUME LoopInv, [Next]_vars PROVE SentInv'
  BY NextTypes DEF LoopInv
<1>1. CASE UNCHANGED vars
  BY <1>1 DEF vars, loop, LoopInv, SentInv
<1>2. ASSUME NEW c \in Client, LoopStep(c) \/ LostConnection(c) \/ ClientReads(c) \/ PlayerActs(c)
      PROVE  SentInv'
  <2>1. CASE Write(c) \/ Queue(c) \/ Handed(c) \/ Drained(c) \/ Raised(c)
    BY <2>1, SendingOrderly
  <2>2. CASE Create(c) \/ Join(c) \/ Relay(c) \/ Leave(c) \/ EndOfStream(c)
    BY <2>2, ReadingOrderly
  <2>3. CASE Done(c)
    <3>1. todo' = todo /\ running' = Nobody
      BY <2>3 DEF Done
    <3> QED
      BY <3>1 DEF LoopInv, SentInv
  <2>4. CASE LostConnection(c) \/ ClientReads(c) \/ PlayerActs(c)
    <3>1. todo' = todo /\ running' = running
      BY <2>4 DEF LostConnection, ClientReads, GetAnswer, GetJoined, GetByte, GetPeerLeft, GetHangUp,
         Receives, PlayerActs, OpenRoom, AskRoom, SendByte, CloseClient, loop
    <3> QED
      BY <3>1 DEF LoopInv, SentInv
  <2> QED
    BY <1>2, <2>1, <2>2, <2>3, <2>4 DEF LoopStep
<1> QED
  BY <1>1, <1>2 DEF Next

\* Nothing is to be sent in an empty lobby.
LEMMA InitLoop == Init => LoopInv
<1> SUFFICES ASSUME Init PROVE SentInv
  BY InitTypes DEF LoopInv
<1> QED
  BY DEF Init, SentInv, Orderly, Unwritten

(***************************************************************************)
(* Rooms                                                                   *)
(***************************************************************************)
\* A host who opens one room in a visit has no other room in the list than the one his
\* session remembers, and none once the session is over.
RoomInv ==
  MaxRooms = 1 => \A r \in games : r[2] = room[Host(r)] /\ Host(r) \notin ended

\* Rooms, step by step.
LEMMA NextRooms == TypeInv /\ RoomInv /\ [Next]_vars => RoomInv'
<1> SUFFICES ASSUME TypeInv, RoomInv, [Next]_vars, MaxRooms = 1, NEW r \in games'
             PROVE  r[2] = room'[Host(r)] /\ Host(r) \notin ended'
  BY DEF RoomInv
<1>0. games \subseteq Room /\ room \in [Client -> 0 .. MaxRooms]
  BY DEF TypeInv, TypeOK
<1>1. CASE UNCHANGED <<games, room, ended>>
  BY <1>1 DEF RoomInv
<1>2. ASSUME NEW c \in Client, Create(c)
      PROVE  r[2] = room'[Host(r)] /\ Host(r) \notin ended'
  <2>1. Takes(c, "create") /\ ended' = ended /\ c \notin ended
    BY <1>2 DEF Create, Takes, Reads, ends
  <2> DEFINE n == Head(up[c]).n
  <2>2. n \in 1 .. MaxRooms
    BY <2>1, TakesTypes
  <2>3. games' = games \cup {<<c, n>>} /\ room' = [room EXCEPT ![c] = n]
    BY <1>2 DEF Create
  <2> HIDE DEF n
  <2>4. CASE r \in games
    <3>1. r[1] \in Client /\ r[2] \in 1 .. MaxRooms
      BY <1>0, <2>4 DEF Room
    <3> QED
      BY <1>0, <2>1, <2>2, <2>3, <2>4, <3>1 DEF RoomInv, Host
  <2>5. CASE r = <<c, n>>
    BY <1>0, <2>1, <2>3, <2>5 DEF Host
  <2> QED
    BY <2>3, <2>4, <2>5
<1>3. ASSUME NEW c \in Client, Done(c), next[c] # "read"
      PROVE  r[2] = room'[Host(r)] /\ Host(r) \notin ended'
  <2>1. /\ games' = games \ {<<c, room[c]>>} /\ room' = [room EXCEPT ![c] = 0]
        /\ ended' \subseteq ended \cup {c}
    BY <1>3 DEF Done, ClosedRoom
  <2>2. r \in games /\ r # <<c, room[c]>> /\ r \in Client \X (1 .. MaxRooms)
    BY <1>0, <2>1 DEF Room
  <2>3. Host(r) # c
    BY <2>2 DEF RoomInv, Host
  <2> QED
    BY <1>0, <2>1, <2>2, <2>3 DEF RoomInv, Host
<1>4. ASSUME NEW c \in Client, LoopStep(c) \/ LostConnection(c) \/ ClientReads(c) \/ PlayerActs(c)
      PROVE  r[2] = room'[Host(r)] /\ Host(r) \notin ended'
  <2>1. Create(c) \/ (Done(c) /\ next[c] # "read") \/ UNCHANGED <<games, room, ended>>
    <3>1. CASE Write(c) \/ Queue(c) \/ Handed(c) \/ Drained(c) \/ Raised(c)
      BY <3>1 DEF Write, Queue, Handed, Drained, Raised, Put, tables, ends
    <3>2. CASE Join(c) \/ Relay(c) \/ Leave(c) \/ EndOfStream(c) \/ Done(c) \/ LostConnection(c)
      BY <3>2 DEF Join, Relay, Leave, EndOfStream, Done, LostConnection, tables, ends
    <3>3. CASE ClientReads(c) \/ PlayerActs(c)
      BY <3>3 DEF ClientReads, GetAnswer, GetJoined, GetByte, GetPeerLeft, GetHangUp, Receives,
         PlayerActs, OpenRoom, AskRoom, SendByte, CloseClient, tables, ends
    <3> QED
      BY <1>4, <3>1, <3>2, <3>3 DEF LoopStep
  <2> QED
    BY <1>1, <1>2, <1>3, <2>1
<1> QED
  BY <1>1, <1>4 DEF Next, vars, tables, ends

\* While nobody opens a second room, a room in the list is one whose host is connected: a
\* session's end takes its room with it (drop_pairing, client_task).
THEOREM RoomsAlwaysHaveHosts == MaxRooms = 1 => (Spec => []RoomsHaveHosts)
<1> SUFFICES ASSUME MaxRooms = 1 PROVE Spec => []RoomsHaveHosts
  OBVIOUS
<1>1. Init => TypeInv /\ RoomInv
  BY InitTypes DEF Init, RoomInv
<1>2. TypeInv /\ RoomInv /\ [Next]_vars => (TypeInv /\ RoomInv)'
  BY NextTypes, NextRooms
<1>3. RoomInv => RoomsHaveHosts
  BY DEF RoomInv, RoomsHaveHosts
<1> QED
  BY <1>1, <1>2, <1>3, PTL DEF Spec

(***************************************************************************)
(* Pairings                                                                *)
(***************************************************************************)
\* Nobody is paired with himself; nobody but another leaver believes in a leaver; and a
\* leaver who has nobody to tell is not interrupted.
PairInv ==
  /\ \A c \in Client : peer[c] # c
  /\ PairingMutual
  /\ \A c \in Client : Leaving(c) => \A x \in Client : peer[x] = c => Leaving(x)
  /\ \A c \in Client : Leaving(c) /\ peer[c] = Nobody => running = c /\ todo[c] = << >>

\* The loop is free, or a coroutine is sending: no pairing changes.
LEMMA PairStays ==
  ASSUME PairInv, UNCHANGED <<peer, next>>,
         running = Nobody \/ \E c \in Client : running = c /\ Sending(c)
  PROVE  PairInv'
BY DEF PairInv, PairingMutual, Leaving, Sending

\* A player dissolves his pairing, up to the await: he still believes in his peer, his peer
\* in nobody.
LEMMA PairDrops ==
  ASSUME TypeOK, PairInv, NEW c \in Client, NEW w \in {"unpair", "close"}, DropPeer(c),
         next[c] = "read", next' = [next EXCEPT ![c] = w], running' = c, running = Nobody
  PROVE  PairInv'
<1> DEFINE d == peer[c]
<1>1. /\ peer \in [Client -> Client \cup {Nobody}]
      /\ next \in [Client -> {"read", "unpair", "close"}]
      /\ todo \in [Client -> Seq(SendOf)]
  BY DEF TypeOK, SendOf
<1>2. /\ \A x \in Client : Leaving(x)' <=> Leaving(x) \/ x = c
      /\ ~Leaving(c)
  BY <1>1 DEF Leaving
<1>3. /\ d # c /\ (d # Nobody => d \in Client /\ peer[d] = c /\ ~Leaving(d))
      /\ \A x \in Client : peer[x] = c => x = d \/ Leaving(x)
  BY <1>1, <1>2 DEF PairInv, PairingMutual
<1>4. /\ \A x \in Client : x # d => peer'[x] = peer[x]
      /\ d # Nobody => peer'[d] = Nobody
      /\ todo'[c] = LastWord(c)
  BY <1>1 DEF DropPeer
<1>5. \A x \in Client : peer[x] = Nobody => ~Leaving(x)
  BY DEF PairInv
<1>6. peer'[c] = d
  BY <1>3, <1>4
<1> HIDE DEF d
<1>7. \A x \in Client : peer'[x] # x
  BY <1>3, <1>4 DEF PairInv
<1>8. ASSUME NEW x \in Client, peer'[x] # Nobody, ~Leaving(x)'
      PROVE  peer'[peer'[x]] = x
  <2>1. x # d /\ x # c /\ ~Leaving(x) /\ peer'[x] = peer[x] /\ peer[x] \in Client
    BY <1>1, <1>2, <1>3, <1>4, <1>8
  <2>2. peer[peer[x]] = x
    BY <1>8, <2>1 DEF PairInv, PairingMutual
  <2>3. peer[x] # d
    BY <1>3, <2>1, <2>2
  <2> QED
    BY <1>4, <2>1, <2>2, <2>3
<1>9. ASSUME NEW y \in Client, Leaving(y)', NEW x \in Client, peer'[x] = y
      PROVE  Leaving(x)'
  <2>1. x # d /\ peer[x] = y
    BY <1>3, <1>4, <1>9
  <2>2. CASE y = c
    BY <1>2, <1>3, <2>1, <2>2
  <2>3. CASE y # c
    BY <1>2, <1>9, <2>1, <2>3 DEF PairInv
  <2> QED
    BY <2>2, <2>3
<1>10. ASSUME NEW x \in Client, Leaving(x)', peer'[x] = Nobody
       PROVE  running' = x /\ todo'[x] = << >>
  <2>1. x # d
    BY <1>2, <1>3, <1>10
  <2>2. x = c
    BY <1>2, <1>4, <1>5, <1>10, <2>1
  <2>3. peer[c] = Nobody
    BY <1>6, <1>10, <2>2 DEF d
  <2> QED
    BY <1>4, <2>2, <2>3 DEF LastWord
<1> QED
  BY <1>7, <1>8, <1>9, <1>10 DEF PairInv, PairingMutual

\* Two players who are alone, neither of them leaving, are paired.
LEMMA PairJoins ==
  ASSUME TypeOK, PairInv, NEW c \in Client, NEW h \in Client, h # c, running = Nobody,
         peer[c] = Nobody, peer[h] = Nobody, next' = next,
         peer' = [peer EXCEPT ![h] = c, ![c] = h]
  PROVE  PairInv'
<1>1. peer \in [Client -> Client \cup {Nobody}]
  BY DEF TypeOK
<1>2. \A x \in Client : Leaving(x)' <=> Leaving(x)
  BY DEF Leaving
<1>3. /\ peer'[c] = h /\ peer'[h] = c
      /\ \A x \in Client \ {c, h} : peer'[x] = peer[x]
  BY <1>1
<1>4. \A x \in Client : peer[x] = Nobody => ~Leaving(x)
  BY DEF PairInv
<1>5. \A x \in Client : peer[x] \in {c, h} => Leaving(x)
  BY DEF PairInv, PairingMutual
<1>6. \A x \in Client : peer'[x] # x
  BY <1>3 DEF PairInv
<1>7. ASSUME NEW x \in Client, peer'[x] # Nobody, ~Leaving(x)'
      PROVE  peer'[peer'[x]] = x
  <2>1. CASE x \in {c, h}
    BY <1>3, <2>1
  <2>2. CASE x \notin {c, h}
    BY <1>1, <1>2, <1>3, <1>5, <1>7, <2>2 DEF PairInv, PairingMutual
  <2> QED
    BY <2>1, <2>2
<1>8. ASSUME NEW y \in Client, Leaving(y)', NEW x \in Client, peer'[x] = y
      PROVE  Leaving(x)'
  <2>1. y \notin {c, h}
    BY <1>2, <1>4, <1>8
  <2> QED
    BY <1>2, <1>3, <1>8, <2>1 DEF PairInv
<1>9. ASSUME NEW x \in Client, Leaving(x)', peer'[x] = Nobody
      PROVE  FALSE
  BY <1>1, <1>2, <1>3, <1>4, <1>9
<1> QED
  BY <1>6, <1>7, <1>8, <1>9 DEF PairInv, PairingMutual

\* The leaver forgets too.
LEMMA PairEnds ==
  ASSUME TypeOK, PairInv, NEW c \in Client, Done(c)
  PROVE  PairInv'
<1>1. CASE next[c] = "read"
  BY <1>1 DEF Done, tables, PairInv, PairingMutual, Leaving
<1>2. CASE next[c] # "read"
  <2>1. /\ peer \in [Client -> Client \cup {Nobody}]
        /\ next \in [Client -> {"read", "unpair", "close"}]
    BY DEF TypeOK
  <2>2. /\ peer' = [peer EXCEPT ![c] = Nobody] /\ next' = [next EXCEPT ![c] = "read"]
        /\ running = c
    BY <1>2 DEF Done, Unpaired
  <2>3. /\ \A x \in Client : Leaving(x)' <=> Leaving(x) /\ x # c
        /\ \A x \in Client \ {c} : peer'[x] = peer[x]
        /\ peer'[c] = Nobody /\ Leaving(c)
    BY <1>2, <2>1, <2>2 DEF Leaving
  <2>4. \A x \in Client : peer[x] = c => Leaving(x)
    BY <2>3 DEF PairInv
  <2>5. ASSUME NEW x \in Client, peer'[x] # Nobody, ~Leaving(x)'
        PROVE  peer'[peer'[x]] = x
    <3>1. x # c /\ peer'[x] = peer[x] /\ ~Leaving(x) /\ peer[x] # c
      BY <2>3, <2>4, <2>5
    <3> QED
      BY <2>1, <2>3, <2>5, <3>1 DEF PairInv, PairingMutual
  <2>6. \A x \in Client : Leaving(x)' => peer'[x] # Nobody
    BY <2>2, <2>3 DEF PairInv
  <2> QED
    BY <2>3, <2>5, <2>6 DEF PairInv, PairingMutual
<1> QED
  BY <1>1, <1>2

(***************************************************************************)
(* Questions and refusals of patient players                               *)
(***************************************************************************)
\* A frame of this kind is on its way; and at most one is.
Has(s, kind) == \E i \in 1 .. Len(s) : s[i].k = kind
Once(s, kind) == \A i, j \in 1 .. Len(s) : s[i].k = kind /\ s[j].k = kind => i = j

\* A refusal the coroutine has still to write.
Unsent(c) == Sending(c) /\ ~todo[c][1].sent /\ todo[c][1].f.k = "error"

\* A patient player who is free to ask, has asked, or is being refused.
Asking(c) == screen[c] = "menu" \/ Has(up[c], "join") \/ Has(down[c], "error") \/ Unsent(c)

\* He is one of these at a time and one question at a time, and until he is answered he
\* has neither a player nor a room.
AskInv ==
  \A c \in Client :
    /\ screen[c] \in {"menu", "hosting"} =>
         ~Has(up[c], "join") /\ ~Has(down[c], "error") /\ ~Unsent(c)
    /\ Has(up[c], "join") => ~Has(down[c], "error") /\ ~Unsent(c)
    /\ Has(down[c], "error") => ~Unsent(c)
    /\ Once(up[c], "join") /\ Once(down[c], "error")
    /\ Asking(c) =>
         peer[c] = Nobody /\ (\A r \in games : Host(r) # c) /\ ~Has(up[c], "create")

\* Taking the first frame.
LEMMA RestHas ==
  ASSUME NEW s \in Seq(FrameOf), s # << >>, NEW kind
  PROVE  /\ Has(Tail(s), kind) => Has(s, kind)
         /\ Once(s, kind) => Once(Tail(s), kind)
         /\ Head(s).k = kind => Has(s, kind)
         /\ Head(s).k = kind /\ Once(s, kind) => ~Has(Tail(s), kind)
<1>1. /\ Len(s) \in Nat \ {0} /\ Head(s) = s[1] /\ Len(Tail(s)) = Len(s) - 1
      /\ \A i \in 1 .. Len(Tail(s)) : i + 1 \in 1 .. Len(s) /\ Tail(s)[i] = s[i + 1]
  BY HeadTail
<1>2. Has(Tail(s), kind) => Has(s, kind)
  BY <1>1 DEF Has
<1>3. Once(s, kind) => Once(Tail(s), kind)
  <2> SUFFICES ASSUME Once(s, kind), NEW i \in 1 .. Len(Tail(s)), NEW j \in 1 .. Len(Tail(s)),
                      Tail(s)[i].k = kind, Tail(s)[j].k = kind
               PROVE  i = j
    BY DEF Once
  <2>1. i + 1 \in 1 .. Len(s) /\ j + 1 \in 1 .. Len(s) /\ s[i + 1].k = kind /\ s[j + 1].k = kind
    BY <1>1
  <2>2. i + 1 = j + 1
    BY <2>1 DEF Once
  <2> QED
    BY <2>2
<1>4. Head(s).k = kind => Has(s, kind)
  BY <1>1 DEF Has
<1>5. Head(s).k = kind /\ Once(s, kind) => ~Has(Tail(s), kind)
  <2> SUFFICES ASSUME s[1].k = kind, Once(s, kind), NEW i \in 1 .. Len(Tail(s)),
                      Tail(s)[i].k = kind
               PROVE  FALSE
    BY <1>1 DEF Has
  <2>1. i + 1 \in 1 .. Len(s) /\ s[i + 1].k = kind /\ 1 \in 1 .. Len(s)
    BY <1>1
  <2>2. i + 1 = 1
    BY <2>1 DEF Once
  <2> QED
    BY <2>2
<1> QED
  BY <1>2, <1>3, <1>4, <1>5

\* Adding a frame behind the others.
LEMMA MoreHas ==
  ASSUME NEW s \in Seq(FrameOf), NEW e \in FrameOf, NEW kind
  PROVE  /\ Has(Append(s, e), kind) <=> Has(s, kind) \/ e.k = kind
         /\ e.k # kind /\ Once(s, kind) => Once(Append(s, e), kind)
         /\ ~Has(s, kind) => Once(Append(s, e), kind)
<1> DEFINE t == Append(s, e)
<1>1. /\ Len(t) = Len(s) + 1 /\ Len(s) \in Nat /\ t[Len(s) + 1] = e
      /\ \A i \in 1 .. Len(s) : t[i] = s[i]
      /\ \A i \in 1 .. Len(t) : i \in 1 .. Len(s) \/ i = Len(s) + 1
  BY Longer
<1> HIDE DEF t
<1>2. Has(t, kind) <=> Has(s, kind) \/ e.k = kind
  BY <1>1 DEF Has
<1>3. e.k # kind /\ Once(s, kind) => Once(t, kind)
  BY <1>1 DEF Once
<1>4. ~Has(s, kind) => Once(t, kind)
  BY <1>1 DEF Once, Has
<1> QED
  BY <1>2, <1>3, <1>4 DEF t

\* A step that asks nothing, refuses nothing new and gives nobody a player or a room.
LEMMA AskQuieter ==
  ASSUME AskInv, games' \subseteq games,
         \A c \in Client :
           /\ screen'[c] \in {"menu", "hosting"} => screen'[c] = screen[c]
           /\ \A k \in {"join", "create"} : Has(up'[c], k) => Has(up[c], k)
           /\ Once(up'[c], "join") /\ Once(down'[c], "error")
           /\ Has(down'[c], "error") => Has(down[c], "error") \/ Unsent(c)
           /\ Has(down'[c], "error") => ~Unsent(c)'
           /\ Unsent(c)' => Unsent(c)
           /\ peer[c] = Nobody => peer'[c] = Nobody
  PROVE  AskInv'
<1> SUFFICES ASSUME NEW c \in Client
    PROVE  /\ screen'[c] \in {"menu", "hosting"} =>
                ~Has(up'[c], "join") /\ ~Has(down'[c], "error") /\ ~Unsent(c)'
           /\ Has(up'[c], "join") => ~Has(down'[c], "error") /\ ~Unsent(c)'
           /\ Has(down'[c], "error") => ~Unsent(c)'
           /\ Once(up'[c], "join") /\ Once(down'[c], "error")
           /\ Asking(c)' =>
                peer'[c] = Nobody /\ (\A r \in games' : Host(r) # c) /\ ~Has(up'[c], "create")
  BY DEF AskInv, Has, Once
<1>1. Asking(c)' => Asking(c)
  BY DEF Asking, Has
<1> QED
  BY <1>1 DEF AskInv

\* A frame is put on the wire.
LEMMA PutAsk ==
  ASSUME LoopInv, AskInv, NEW c \in Client, Sending(c), ~todo[c][1].sent, NEW queue, Put(c, queue)
  PROVE  AskInv'
<1> DEFINE e == todo[c][1].f
           d == Dest(c)
<1>1. /\ todo[c] \in Seq(SendOf) /\ todo[c] # << >> /\ d \in Client /\ e \in FrameOf
      /\ Orderly(todo[c], c) /\ TypeOK /\ 1 \in 1 .. Len(todo[c])
  BY FirstTypes DEF LoopInv, TypeInv, SentInv, Sending
<1>2. /\ UNCHANGED <<games, peer, up, screen>> /\ down' = Written(c)
      /\ todo' = SentOne(c) \/ todo' = [todo EXCEPT ![c][1].sent = TRUE]
  BY DEF Put, tables, player
<1>3. todo \in [Client -> Seq(SendOf)] /\ down \in [Client -> Seq(FrameOf)]
  BY <1>1 DEF TypeOK, SendOf
<1>4. \A x \in Client \ {c} : todo'[x] = todo[x]
  BY <1>2, <1>3 DEF SentOne
<1>5. ~Unsent(c)'
  <2>1. CASE todo' = SentOne(c)
    <3>1. todo'[c] = Tail(todo[c]) /\ Tail(todo[c]) \in Seq(SendOf)
      BY <1>1, <1>3, <2>1, HeadTail DEF SentOne
    <3>2. \A i \in 1 .. Len(Tail(todo[c])) : Tail(todo[c])[i].f.k # "error"
      BY <1>1, RestOrderly
    <3>3. todo'[c] # << >> => 1 \in 1 .. Len(todo'[c])
      BY <3>1
    <3> QED
      BY <3>1, <3>2, <3>3 DEF Unsent, Sending
  <2>2. CASE todo' = [todo EXCEPT ![c][1].sent = TRUE]
    <3>1. todo'[c][1].sent
      BY <1>1, <2>2, MarkedOrderly
    <3> QED
      BY <3>1 DEF Unsent
  <2> QED
    BY <1>2, <2>1, <2>2
<1>6. \A x \in Client : Unsent(x)' => Unsent(x)
  BY <1>4, <1>5 DEF Unsent, Sending
<1>7. e.k = "error" => d = c /\ Unsent(c)
  BY <1>1 DEF Orderly, Dest, Unsent
<1>8. /\ \A x \in Client \ {d} : down'[x] = down[x]
      /\ down'[d] = down[d] \/ down'[d] = Append(down[d], e)
  BY <1>1, <1>2, <1>3 DEF Written
<1> HIDE DEF e, d
<1>9. \A x \in Client : /\ Once(down'[x], "error")
                        /\ Has(down'[x], "error") => Has(down[x], "error") \/ Unsent(x)
                        /\ Has(down'[x], "error") => ~Unsent(x)'
  <2> SUFFICES ASSUME NEW x \in Client
               PROVE  /\ Once(down'[x], "error")
                      /\ Has(down'[x], "error") => Has(down[x], "error") \/ Unsent(x)
                      /\ Has(down'[x], "error") => ~Unsent(x)'
    OBVIOUS
  <2>1. CASE down'[x] = down[x]
    BY <1>6, <2>1 DEF AskInv
  <2>2. CASE x = d /\ down'[d] = Append(down[d], e)
    <3>1. down[d] \in Seq(FrameOf)
      BY <1>1, <1>3
    <3>2. /\ Has(down'[d], "error") <=> Has(down[d], "error") \/ e.k = "error"
          /\ e.k # "error" /\ Once(down[d], "error") => Once(down'[d], "error")
          /\ ~Has(down[d], "error") => Once(down'[d], "error")
      BY <1>1, <2>2, <3>1, MoreHas
    <3>3. CASE e.k = "error"
      BY <1>5, <1>7, <2>2, <3>2, <3>3 DEF AskInv
    <3>4. CASE e.k # "error"
      BY <1>6, <2>2, <3>2, <3>4 DEF AskInv
    <3> QED
      BY <3>3, <3>4
  <2> QED
    BY <1>8, <2>1, <2>2
<1>10. \A x \in Client : Once(up'[x], "join")
  BY <1>2 DEF AskInv
<1> QED
  BY <1>2, <1>6, <1>9, <1>10, AskQuieter

\* A coroutine's turn that leaves no refusal to write, and the clients' frames alone.
LEMMA TurnAsk ==
  ASSUME LoopInv, AskInv, NEW c \in Client, NEW s, todo' = [todo EXCEPT ![c] = s],
         s # << >> => s[1].f.k # "error",
         UNCHANGED <<down, screen>>, games' \subseteq games,
         \A x \in Client : /\ \A k \in {"join", "create"} : Has(up'[x], k) => Has(up[x], k)
                           /\ Once(up'[x], "join")
                           /\ peer[x] = Nobody => peer'[x] = Nobody
  PROVE  AskInv'
<1>1. \A x \in Client : Unsent(x)' => Unsent(x)
  BY DEF Unsent, Sending, LoopInv, TypeInv, TypeOK
<1>2. \A x \in Client : Has(down'[x], "error") => Has(down[x], "error") /\ ~Unsent(x)'
  BY <1>1 DEF AskInv
<1>3. \A x \in Client : Once(down'[x], "error")
  BY DEF AskInv
<1> QED
  BY <1>1, <1>2, <1>3, AskQuieter

\* The steps of Session.send.
LEMMA SendingAsk ==
  ASSUME LoopInv, AskInv, NEW c \in Client,
         Write(c) \/ Queue(c) \/ Handed(c) \/ Drained(c) \/ Raised(c)
  PROVE  AskInv'
<1>1. /\ TypeOK /\ Orderly(todo[c], c) /\ todo[c] \in Seq(SendOf) /\ Sending(c) /\ todo[c] # << >>
      /\ Len(todo[c]) \in Nat \ {0}
  <2>1. Sending(c)
    BY DEF Write, Queue, Handed, Drained, Raised, Holds
  <2> QED
    BY <2>1, FirstTypes DEF LoopInv, TypeInv, SentInv, Sending
<1>2. CASE Write(c)
  <2>1. ~todo[c][1].sent
    BY <1>1, <1>2 DEF Write, LoopInv, SentInv, Unwritten
  <2> QED
    BY <1>1, <1>2, <2>1, PutAsk DEF Write
<1>3. CASE Handed(c)
  BY <1>1, <1>3, PutAsk DEF Handed
<1>4. CASE Queue(c)
  BY <1>4 DEF Queue, AskInv, Asking, Unsent, Sending, tables, wires, player
<1>5. CASE (Drained(c) \/ Raised(c)) /\ todo' = SentOne(c) /\ peer' = peer
  <2>1. \A i \in 1 .. Len(Tail(todo[c])) : Tail(todo[c])[i].f.k # "error"
    BY <1>1, RestOrderly
  <2>2. Tail(todo[c]) # << >> => 1 \in 1 .. Len(Tail(todo[c]))
    BY <1>1, HeadTail
  <2>3. UNCHANGED <<down, screen, games, up>>
    BY <1>5 DEF Drained, Raised, tables, wires, player
  <2>4. \A x \in Client : Once(up'[x], "join")
    BY <2>3 DEF AskInv
  <2> QED
    BY <1>5, <2>1, <2>2, <2>3, <2>4, TurnAsk DEF SentOne
<1>6. CASE Raised(c) /\ DropPeer(c)
  <2>1. UNCHANGED <<down, screen, games, up>> /\ \A x \in Client : Once(up'[x], "join")
    BY <1>6 DEF Raised, wires, player, AskInv
  <2>2. LastWord(c) # << >> => LastWord(c)[1].f.k # "error"
    BY DEF LastWord, Send, Frame
  <2>3. \A x \in Client : peer[x] = Nobody => peer'[x] = Nobody
    BY <1>1, <1>6 DEF DropPeer, TypeOK
  <2> QED
    BY <1>6, <2>1, <2>2, <2>3, TurnAsk DEF DropPeer
<1> QED
  BY <1>2, <1>3, <1>4, <1>5, <1>6 DEF Drained, Raised, tables

\* A frame leaves a client's way to the server.
LEMMA TakesAsk ==
  ASSUME LoopInv, AskInv, NEW c \in Client, NEW kind, Takes(c, kind)
  PROVE  /\ \A x \in Client : /\ \A k \in {"join", "create"} : Has(up'[x], k) => Has(up[x], k)
                              /\ Once(up'[x], "join")
         /\ Has(up[c], kind)
         /\ kind = "join" => ~Has(up'[c], "join")
         /\ \A x \in Client \ {c} : up'[x] = up[x]
         /\ running = Nobody /\ next[c] = "read" /\ running' = c /\ Head(up[c]) \in FrameOf
         /\ Head(up[c]).k = kind /\ up'[c] = Tail(up[c]) /\ up[c] \in Seq(FrameOf) /\ up[c] # << >>
<1>1. /\ up \in [Client -> Seq(FrameOf)] /\ up[c] \in Seq(FrameOf) /\ up[c] # << >>
      /\ up' = [up EXCEPT ![c] = Tail(up[c])] /\ Head(up[c]).k = kind
      /\ running = Nobody /\ next[c] = "read" /\ running' = c
  BY DEF Takes, Reads, LoopInv, TypeInv, TypeOK
<1>2. up'[c] = Tail(up[c]) /\ \A x \in Client \ {c} : up'[x] = up[x]
  BY <1>1
<1>3. Once(up[c], "join")
  BY DEF AskInv
<1>4. /\ \A k \in {"join", "create"} : Has(Tail(up[c]), k) => Has(up[c], k)
      /\ Once(Tail(up[c]), "join") /\ Has(up[c], kind)
      /\ kind = "join" => ~Has(Tail(up[c]), "join")
  BY <1>1, <1>3, RestHas
<1>5. Head(up[c]) \in FrameOf
  BY <1>1, HeadTail
<1>6. \A x \in Client : /\ \A k \in {"join", "create"} : Has(up'[x], k) => Has(up[x], k)
                        /\ Once(up'[x], "join")
  <2> SUFFICES ASSUME NEW x \in Client
               PROVE  /\ \A k \in {"join", "create"} : Has(up'[x], k) => Has(up[x], k)
                      /\ Once(up'[x], "join")
    OBVIOUS
  <2>1. CASE x = c
    BY <1>2, <1>4, <2>1
  <2>2. CASE x # c
    <3>1. up'[x] = up[x] /\ Once(up[x], "join")
      BY <1>2, <2>2 DEF AskInv
    <3> QED
      BY <3>1
  <2> QED
    BY <2>1, <2>2
<1> QED
  BY <1>1, <1>2, <1>4, <1>5, <1>6

\* A player's room opens: he is nobody who asks.
LEMMA CreateAsk ==
  ASSUME LoopInv, AskInv, NEW c \in Client, Create(c)
  PROVE  AskInv'
<1>1. Takes(c, "create") /\ UNCHANGED <<peer, down, screen>>
  BY DEF Create, player
<1>2. /\ \A x \in Client : /\ \A k \in {"join", "create"} : Has(up'[x], k) => Has(up[x], k)
                           /\ Once(up'[x], "join")
      /\ Has(up[c], "create")
  BY <1>1, TakesAsk
<1>3. ~Asking(c)
  BY <1>2 DEF AskInv
<1>4. /\ todo' = [todo EXCEPT ![c] = <<Send(c, Frame("created", c))>>]
      /\ games' = games \cup {<<c, Head(up[c]).n>>}
  BY DEF Create
<1>5. Send(c, Frame("created", c)).f.k # "error"
  BY DEF Send, Frame
<1>6. \A x \in Client : Unsent(x)' => Unsent(x)
  BY <1>4, <1>5 DEF Unsent, Sending, LoopInv, TypeInv, TypeOK
<1>7. \A x \in Client : Asking(x)' => Asking(x)
  BY <1>1, <1>2, <1>6 DEF Asking
<1>8. \A x \in Client : Asking(x)' => \A r \in games' : Host(r) # x
  BY <1>3, <1>4, <1>7 DEF AskInv, Host
<1>9. \A x \in Client : Asking(x)' => peer'[x] = Nobody /\ ~Has(up'[x], "create")
  BY <1>1, <1>2, <1>7 DEF AskInv
<1>10. \A x \in Client :
         /\ screen'[x] \in {"menu", "hosting"} =>
              ~Has(up'[x], "join") /\ ~Has(down'[x], "error") /\ ~Unsent(x)'
         /\ Has(up'[x], "join") => ~Has(down'[x], "error") /\ ~Unsent(x)'
         /\ Has(down'[x], "error") => ~Unsent(x)'
         /\ Once(up'[x], "join") /\ Once(down'[x], "error")
  BY <1>1, <1>2, <1>6 DEF AskInv
<1> QED
  BY <1>8, <1>9, <1>10 DEF AskInv, Has, Once

\* A player joins or is refused: he was alone, and so is the host of a room that is offered.
LEMMA JoinKeeps ==
  ASSUME LoopInv, PairInv, AskInv, NEW c \in Client, Join(c)
  PROVE  PairInv' /\ AskInv'
<1>1. Takes(c, "join") /\ UNCHANGED <<games, next, down, screen>>
  BY DEF Join, player
<1>2. /\ \A x \in Client : /\ \A k \in {"join", "create"} : Has(up'[x], k) => Has(up[x], k)
                           /\ Once(up'[x], "join")
      /\ Has(up[c], "join") /\ ~Has(up'[c], "join")
      /\ running = Nobody /\ Head(up[c]) \in FrameOf
  BY <1>1, TakesAsk
<1>3. /\ Asking(c) /\ peer[c] = Nobody /\ (\A r \in games : Host(r) # c)
      /\ screen[c] \notin {"menu", "hosting"} /\ ~Has(down[c], "error") /\ ~Unsent(c)
      /\ ~Has(up[c], "create")
  BY <1>2 DEF AskInv, Asking
<1>4. TypeOK /\ peer \in [Client -> Client \cup {Nobody}] /\ todo \in [Client -> Seq(SendOf)]
  BY DEF LoopInv, TypeInv, TypeOK, SendOf
<1> DEFINE r == <<Head(up[c]).who, Head(up[c]).n>>
           h == Host(r)
<1>5. h \in Client
  BY <1>2 DEF Host, FrameOf
<1>6. CASE Offered(r)
  <2>1. /\ peer' = [peer EXCEPT ![h] = c, ![c] = h]
        /\ todo' = [todo EXCEPT ![c] = Tidings(c, h)]
        /\ r \in games /\ peer[h] = Nobody
    BY <1>6 DEF Join, Offered
  <2>2. h # c /\ ~Asking(h)
    BY <1>3, <1>5, <2>1 DEF AskInv
  <2> HIDE DEF r, h
  <2>3. PairInv'
    BY <1>1, <1>2, <1>3, <1>4, <1>5, <2>1, <2>2, PairJoins
  <2>4. \A x \in Client : Unsent(x)' => Unsent(x) /\ x # c
    <3>1. Tidings(c, h)[1].f.k # "error"
      BY DEF Tidings, Send, Frame
    <3> QED
      BY <1>4, <2>1, <3>1 DEF Unsent, Sending
  <2>5. \A x \in Client : Asking(x)' => Asking(x) /\ x # c
    BY <1>1, <1>2, <1>3, <2>4 DEF Asking
  <2>6. \A x \in Client : Asking(x)' => peer'[x] = Nobody
    BY <1>4, <2>1, <2>2, <2>5 DEF AskInv
  <2>7. \A x \in Client : Asking(x)' => (\A q \in games' : Host(q) # x) /\ ~Has(up'[x], "create")
    BY <1>1, <1>2, <2>5 DEF AskInv
  <2>8. \A x \in Client :
          /\ screen'[x] \in {"menu", "hosting"} =>
               ~Has(up'[x], "join") /\ ~Has(down'[x], "error") /\ ~Unsent(x)'
          /\ Has(up'[x], "join") => ~Has(down'[x], "error") /\ ~Unsent(x)'
          /\ Has(down'[x], "error") => ~Unsent(x)'
          /\ Once(up'[x], "join") /\ Once(down'[x], "error")
    BY <1>1, <1>2, <2>4 DEF AskInv
  <2>9. AskInv'
    BY <2>6, <2>7, <2>8 DEF AskInv, Has, Once
  <2> QED
    BY <2>3, <2>9
<1>7. CASE ~Offered(r)
  <2>1. todo' = [todo EXCEPT ![c] = <<Send(c, Frame("error", c))>>] /\ peer' = peer
    BY <1>7 DEF Join
  <2> HIDE DEF r, h
  <2>2. PairInv'
    BY <1>1, <1>2, <2>1, PairStays
  <2>3. \A x \in Client : x # c => (Unsent(x)' <=> Unsent(x))
    BY <1>4, <2>1 DEF Unsent, Sending
  <2>4. \A x \in Client : Asking(x)' => Asking(x)
    BY <1>1, <1>2, <1>3, <2>3 DEF Asking
  <2>5. \A x \in Client : Asking(x)' =>
          peer'[x] = Nobody /\ (\A q \in games' : Host(q) # x) /\ ~Has(up'[x], "create")
    BY <1>1, <1>2, <2>1, <2>4 DEF AskInv
  <2>6. \A x \in Client :
          /\ screen'[x] \in {"menu", "hosting"} =>
               ~Has(up'[x], "join") /\ ~Has(down'[x], "error") /\ ~Unsent(x)'
          /\ Has(up'[x], "join") => ~Has(down'[x], "error") /\ ~Unsent(x)'
          /\ Has(down'[x], "error") => ~Unsent(x)'
          /\ Once(up'[x], "join") /\ Once(down'[x], "error")
    BY <1>1, <1>2, <1>3, <2>3 DEF AskInv
  <2>7. AskInv'
    BY <2>5, <2>6 DEF AskInv, Has, Once
  <2> QED
    BY <2>2, <2>7
<1> QED
  BY <1>6, <1>7

\* A relayed byte, a departure, the end of a frame or of a session.
LEMMA OtherReadsKeep ==
  ASSUME LoopInv, PairInv, AskInv, NEW c \in Client,
         Relay(c) \/ Leave(c) \/ EndOfStream(c) \/ Done(c) \/ LostConnection(c)
  PROVE  PairInv' /\ AskInv'
<1>0. TypeOK /\ peer \in [Client -> Client \cup {Nobody}] /\ \A x \in Client : Once(up[x], "join")
  BY DEF LoopInv, TypeInv, TypeOK, AskInv
<1>1. CASE Relay(c)
  <2>1. Takes(c, "byte") /\ UNCHANGED <<tables, next, down, screen>>
    BY <1>1 DEF Relay, player
  <2>2. /\ \A x \in Client : /\ \A k \in {"join", "create"} : Has(up'[x], k) => Has(up[x], k)
                             /\ Once(up'[x], "join")
        /\ running = Nobody /\ Head(up[c]).k = "byte"
    BY <2>1, TakesAsk
  <2> DEFINE s == IF peer[c] = Nobody THEN << >> ELSE <<Send(peer[c], Head(up[c]))>>
  <2>3. todo' = [todo EXCEPT ![c] = s]
    BY <1>1 DEF Relay
  <2>4. s # << >> => s[1].f.k # "error"
    BY <2>2 DEF Send
  <2> HIDE DEF s
  <2>5. AskInv'
    BY <2>1, <2>2, <2>3, <2>4, TurnAsk DEF tables
  <2> QED
    BY <2>1, <2>2, <2>5, PairStays DEF tables
<1>2. CASE Leave(c) \/ EndOfStream(c)
  <2>1. /\ \E w \in {"unpair", "close"} : next' = [next EXCEPT ![c] = w]
        /\ DropPeer(c) /\ next[c] = "read" /\ running' = c /\ running = Nobody
        /\ UNCHANGED <<games, down, screen>>
    BY <1>2 DEF Leave, EndOfStream, Takes, Reads, wires, player
  <2>2. \A x \in Client : /\ \A k \in {"join", "create"} : Has(up'[x], k) => Has(up[x], k)
                          /\ Once(up'[x], "join")
    <3>1. CASE Leave(c)
      BY <3>1, TakesAsk DEF Leave
    <3>2. CASE EndOfStream(c)
      BY <1>0, <3>2 DEF EndOfStream, wires
    <3> QED
      BY <1>2, <3>1, <3>2
  <2>3. LastWord(c) # << >> => LastWord(c)[1].f.k # "error"
    BY DEF LastWord, Send, Frame
  <2>4. \A x \in Client : peer[x] = Nobody => peer'[x] = Nobody
    BY <1>0, <2>1 DEF DropPeer
  <2>5. todo' = [todo EXCEPT ![c] = LastWord(c)]
    BY <2>1 DEF DropPeer
  <2>6. AskInv'
    BY <2>1, <2>2, <2>3, <2>4, <2>5, TurnAsk
  <2>7. PairInv'
    BY <1>0, <2>1, PairDrops
  <2> QED
    BY <2>6, <2>7
<1>3. CASE Done(c)
  <2>1. UNCHANGED <<up, down, screen, todo>> /\ games' \subseteq games
    BY <1>3 DEF Done, tables, wires, player, ClosedRoom
  <2>2. \A x \in Client : peer[x] = Nobody => peer'[x] = Nobody
    BY <1>0, <1>3 DEF Done, tables, Unpaired
  <2>3. \A x \in Client : Unsent(x)' <=> Unsent(x)
    BY <2>1 DEF Unsent, Sending
  <2>4. AskInv'
    BY <2>1, <2>2, <2>3, AskQuieter DEF AskInv
  <2> QED
    BY <1>0, <1>3, <2>4, PairEnds
<1>4. CASE LostConnection(c)
  BY <1>4, PairStays DEF LostConnection, tables, loop, wires, player, AskInv, Asking, Unsent, Sending
<1> QED
  BY <1>1, <1>2, <1>3, <1>4

\* What a client reads: a refusal sends the player who asked back to the menu.
LEMMA ClientKeeps ==
  ASSUME LoopInv, PairInv, AskInv, NEW c \in Client, ClientReads(c)
  PROVE  PairInv' /\ AskInv'
<1>0. /\ running = Nobody /\ UNCHANGED <<tables, loop, up>>
      /\ (GetHangUp(c) /\ down' = down) \/ (down[c] # << >> /\ down' = [down EXCEPT ![c] = Tail(@)])
  BY DEF ClientReads, GetAnswer, GetJoined, GetByte, GetPeerLeft, GetHangUp, Receives, Alive, wires
<1>1. PairInv'
  BY <1>0, PairStays DEF tables, loop
<1>2. /\ down \in [Client -> Seq(FrameOf)] /\ down[c] \in Seq(FrameOf)
      /\ screen \in [Client -> {"menu", "asked", "hosting", "linked", "lost", "closed"}]
  BY DEF LoopInv, TypeInv, TypeOK
<1>3. \A x \in Client : x # c => down'[x] = down[x] /\ screen'[x] = screen[x]
  BY <1>0, <1>2 DEF ClientReads, GetAnswer, GetJoined, GetByte, GetPeerLeft, GetHangUp
<1>4. \A x \in Client : Unsent(x)' <=> Unsent(x)
  BY <1>0 DEF Unsent, Sending, loop
<1>5. Once(down'[c], "error") /\ (Has(down'[c], "error") => Has(down[c], "error"))
  <2>1. CASE down' = down
    BY <2>1 DEF AskInv
  <2>2. CASE down[c] # << >> /\ down'[c] = Tail(down[c])
    BY <1>2, <2>2, RestHas DEF AskInv
  <2> QED
    BY <1>0, <1>2, <2>1, <2>2
<1>6. \A x \in Client : Once(down'[x], "error") /\ (Has(down'[x], "error") => Has(down[x], "error"))
  <2> SUFFICES ASSUME NEW x \in Client
               PROVE  Once(down'[x], "error") /\ (Has(down'[x], "error") => Has(down[x], "error"))
    OBVIOUS
  <2>1. CASE x = c
    BY <1>5, <2>1
  <2>2. CASE x # c
    <3>1. down'[x] = down[x] /\ Once(down[x], "error")
      BY <1>3, <2>2 DEF AskInv
    <3> QED
      BY <3>1
  <2> QED
    BY <2>1, <2>2
<1>7. \A x \in Client : /\ Once(up'[x], "join") /\ peer'[x] = peer[x]
                        /\ \A k \in {"join", "create"} : Has(up'[x], k) => Has(up[x], k)
  BY <1>0 DEF AskInv, tables
<1>8. CASE \A x \in Client : screen'[x] \in {"menu", "hosting"} => screen'[x] = screen[x]
  <2>1. \A x \in Client : Has(down'[x], "error") => ~Unsent(x)'
    BY <1>4, <1>6 DEF AskInv
  <2>2. games' = games
    BY <1>0 DEF tables
  <2>3. AskInv'
    BY <1>4, <1>6, <1>7, <1>8, <2>1, <2>2, AskQuieter
  <2> QED
    BY <1>1, <2>3
<1>9. CASE Receives(c, "error") /\ screen[c] = "asked" /\ screen' = [screen EXCEPT ![c] = "menu"]
  <2>1. /\ down[c] # << >> /\ Head(down[c]).k = "error" /\ down'[c] = Tail(down[c])
    BY <1>2, <1>9 DEF Receives
  <2>2. Has(down[c], "error") /\ ~Has(down'[c], "error")
    BY <1>2, <2>1, RestHas DEF AskInv
  <2>3. /\ ~Has(up[c], "join") /\ ~Unsent(c)
        /\ peer[c] = Nobody /\ (\A r \in games : Host(r) # c) /\ ~Has(up[c], "create")
    BY <2>2 DEF AskInv, Asking
  <2>4. \A x \in Client : Asking(x)' => Asking(x)
    BY <1>0, <1>3, <1>4, <1>6, <2>2 DEF Asking
  <2>5. \A x \in Client : Asking(x)' =>
          peer'[x] = Nobody /\ (\A r \in games' : Host(r) # x) /\ ~Has(up'[x], "create")
    BY <1>0, <2>4 DEF AskInv, tables
  <2>6. \A x \in Client :
          /\ screen'[x] \in {"menu", "hosting"} =>
               ~Has(up'[x], "join") /\ ~Has(down'[x], "error") /\ ~Unsent(x)'
          /\ Has(up'[x], "join") => ~Has(down'[x], "error") /\ ~Unsent(x)'
          /\ Has(down'[x], "error") => ~Unsent(x)'
          /\ Once(up'[x], "join") /\ Once(down'[x], "error")
    BY <1>0, <1>3, <1>4, <1>6, <1>7, <2>2, <2>3 DEF AskInv
  <2>7. AskInv'
    BY <2>5, <2>6 DEF AskInv, Has, Once
  <2> QED
    BY <1>1, <2>7
<1>10. \/ \A x \in Client : screen'[x] \in {"menu", "hosting"} => screen'[x] = screen[x]
       \/ Receives(c, "error") /\ screen[c] = "asked" /\ screen' = [screen EXCEPT ![c] = "menu"]
  BY <1>2 DEF ClientReads, GetAnswer, GetJoined, GetByte, GetPeerLeft, GetHangUp
<1> QED
  BY <1>1, <1>8, <1>9, <1>10

\* A frame a client sends is on its way behind the others.
LEMMA SaysHas ==
  ASSUME TypeOK, NEW c \in Client, NEW f \in FrameOf, Says(c, f)
  PROVE  /\ \A x \in Client \ {c} : up'[x] = up[x]
         /\ \A k : Has(up'[c], k) <=> Has(up[c], k) \/ f.k = k
         /\ f.k # "join" /\ Once(up[c], "join") => Once(up'[c], "join")
         /\ ~Has(up[c], "join") => Once(up'[c], "join")
<1>1. up \in [Client -> Seq(FrameOf)] /\ up[c] \in Seq(FrameOf)
  BY DEF TypeOK
<1>2. up'[c] = Append(up[c], f) /\ \A x \in Client \ {c} : up'[x] = up[x]
  BY <1>1 DEF Says
<1> QED
  BY <1>1, <1>2, MoreHas

\* What a patient player does.
LEMMA PlayerKeeps ==
  ASSUME LoopInv, PairInv, AskInv, Patient, NEW c \in Client, PlayerActs(c)
  PROVE  PairInv' /\ AskInv'
<1>0. running = Nobody /\ UNCHANGED <<tables, loop>>
  BY DEF PlayerActs, OpenRoom, AskRoom, SendByte, CloseClient, Alive
<1>1. PairInv'
  BY <1>0, PairStays DEF tables, loop
<1>2. /\ TypeOK /\ down \in [Client -> Seq(FrameOf)] /\ said[c] + 1 \in Nat /\ opened[c] + 1 \in Nat
      /\ screen \in [Client -> {"menu", "asked", "hosting", "linked", "lost", "closed"}]
      /\ \A h \in Client : opened[h] \in Nat
  <2>1. /\ TypeOK /\ said \in [Client -> Nat] /\ opened \in [Client -> Nat]
        /\ down \in [Client -> Seq(FrameOf)]
        /\ screen \in [Client -> {"menu", "asked", "hosting", "linked", "lost", "closed"}]
    BY DEF LoopInv, TypeInv, TypeOK
  <2> QED
    BY <2>1
<1>3. \A x \in Client : Unsent(x)' <=> Unsent(x)
  BY <1>0 DEF Unsent, Sending, loop
<1>4. CASE OpenRoom(c)
  <2> DEFINE f == [k |-> "create", who |-> c, n |-> opened[c] + 1]
  <2>1. /\ Says(c, f) /\ screen[c] \in {"menu", "hosting"} /\ UNCHANGED down
        /\ screen' = [screen EXCEPT ![c] = "hosting"]
    BY <1>4 DEF OpenRoom, MayOpen
  <2>2. f \in FrameOf /\ f.k = "create"
    BY <1>2 DEF FrameOf
  <2> HIDE DEF f
  <2>3. ~Has(up[c], "join") /\ ~Has(down[c], "error") /\ ~Unsent(c)
    BY <2>1 DEF AskInv
  <2>4. /\ ~Has(up'[c], "join") /\ Once(up'[c], "join")
        /\ \A x \in Client \ {c} : up'[x] = up[x]
    BY <1>2, <2>1, <2>2, <2>3, SaysHas
  <2>5. \A x \in Client : Asking(x)' => x # c /\ Asking(x)
    BY <1>2, <1>3, <2>1, <2>3, <2>4 DEF Asking
  <2>6. \A x \in Client : Asking(x)' =>
          peer'[x] = Nobody /\ (\A r \in games' : Host(r) # x) /\ ~Has(up'[x], "create")
    BY <1>0, <2>4, <2>5 DEF AskInv, tables
  <2>7. \A x \in Client :
          /\ screen'[x] \in {"menu", "hosting"} =>
               ~Has(up'[x], "join") /\ ~Has(down'[x], "error") /\ ~Unsent(x)'
          /\ Has(up'[x], "join") => ~Has(down'[x], "error") /\ ~Unsent(x)'
          /\ Has(down'[x], "error") => ~Unsent(x)'
          /\ Once(up'[x], "join") /\ Once(down'[x], "error")
    <3> SUFFICES ASSUME NEW x \in Client
        PROVE  /\ screen'[x] \in {"menu", "hosting"} =>
                    ~Has(up'[x], "join") /\ ~Has(down'[x], "error") /\ ~Unsent(x)'
               /\ Has(up'[x], "join") => ~Has(down'[x], "error") /\ ~Unsent(x)'
               /\ Has(down'[x], "error") => ~Unsent(x)'
               /\ Once(up'[x], "join") /\ Once(down'[x], "error")
      OBVIOUS
    <3>1. CASE x = c
      BY <1>3, <2>1, <2>3, <2>4, <3>1 DEF AskInv
    <3>2. CASE x # c
      <4>1. up'[x] = up[x] /\ down'[x] = down[x] /\ screen'[x] = screen[x]
        BY <1>2, <2>1, <2>4, <3>2
      <4> QED
        BY <1>3, <4>1 DEF AskInv
    <3> QED
      BY <3>1, <3>2
  <2> QED
    BY <1>1, <2>6, <2>7 DEF AskInv, Has, Once
<1>5. ASSUME NEW h \in Client, AskRoom(c, h)
      PROVE  PairInv' /\ AskInv'
  <2>1. PICK n \in 1 .. opened[h] : Says(c, [k |-> "join", who |-> h, n |-> n])
    BY <1>5 DEF AskRoom
  <2> DEFINE f == [k |-> "join", who |-> h, n |-> n]
  <2>2. f \in FrameOf /\ f.k = "join" /\ Says(c, f)
    BY <1>2, <2>1 DEF FrameOf
  <2>3. /\ screen[c] = "menu" /\ screen' = [screen EXCEPT ![c] = "asked"] /\ UNCHANGED down
    BY <1>5 DEF AskRoom, MayAsk
  <2> HIDE DEF f
  <2>4. /\ Asking(c) /\ ~Has(up[c], "join") /\ ~Has(down[c], "error") /\ ~Unsent(c)
        /\ ~Has(up[c], "create")
    BY <2>3 DEF AskInv, Asking
  <2>5. /\ Once(up'[c], "join") /\ ~Has(up'[c], "create")
        /\ \A x \in Client \ {c} : up'[x] = up[x]
    BY <1>2, <2>2, <2>4, SaysHas
  <2>6. \A x \in Client : Asking(x)' => Asking(x)
    BY <1>2, <1>3, <2>3, <2>4, <2>5 DEF Asking
  <2>7. \A x \in Client : Asking(x)' =>
          peer'[x] = Nobody /\ (\A r \in games' : Host(r) # x) /\ ~Has(up'[x], "create")
    BY <1>0, <2>5, <2>6 DEF AskInv, tables
  <2>8. \A x \in Client :
          /\ screen'[x] \in {"menu", "hosting"} =>
               ~Has(up'[x], "join") /\ ~Has(down'[x], "error") /\ ~Unsent(x)'
          /\ Has(up'[x], "join") => ~Has(down'[x], "error") /\ ~Unsent(x)'
          /\ Has(down'[x], "error") => ~Unsent(x)'
          /\ Once(up'[x], "join") /\ Once(down'[x], "error")
    <3> SUFFICES ASSUME NEW x \in Client
        PROVE  /\ screen'[x] \in {"menu", "hosting"} =>
                    ~Has(up'[x], "join") /\ ~Has(down'[x], "error") /\ ~Unsent(x)'
               /\ Has(up'[x], "join") => ~Has(down'[x], "error") /\ ~Unsent(x)'
               /\ Has(down'[x], "error") => ~Unsent(x)'
               /\ Once(up'[x], "join") /\ Once(down'[x], "error")
      OBVIOUS
    <3>1. CASE x = c
      <4>1. screen'[c] = "asked" /\ down'[c] = down[c]
        BY <1>2, <2>3
      <4> QED
        BY <1>3, <2>4, <2>5, <3>1, <4>1 DEF AskInv
    <3>2. CASE x # c
      <4>1. up'[x] = up[x] /\ down'[x] = down[x] /\ screen'[x] = screen[x]
        BY <1>2, <2>3, <2>5, <3>2
      <4> QED
        BY <1>3, <4>1 DEF AskInv
    <3> QED
      BY <3>1, <3>2
  <2> QED
    BY <1>1, <2>7, <2>8 DEF AskInv, Has, Once
<1>6. CASE SendByte(c) \/ CloseClient(c)
  <2>1. \/ \E f \in FrameOf : Says(c, f) /\ f.k \notin {"join", "create"}
        \/ UNCHANGED up
    <3>1. CASE SendByte(c)
      <4>1. [k |-> "byte", who |-> c, n |-> said[c] + 1] \in FrameOf
        BY <1>2 DEF FrameOf
      <4> QED
        BY <3>1, <4>1 DEF SendByte
    <3>2. CASE CloseClient(c)
      <4>1. Frame("leave", c) \in FrameOf /\ Frame("leave", c).k = "leave"
        BY FrameTypes DEF Frame
      <4> QED
        BY <3>2, <4>1 DEF CloseClient
    <3> QED
      BY <1>6, <3>1, <3>2
  <2>2. \A x \in Client : /\ Once(up'[x], "join")
                          /\ \A k \in {"join", "create"} : Has(up'[x], k) => Has(up[x], k)
    <3>1. CASE UNCHANGED up
      BY <3>1 DEF AskInv
    <3>2. ASSUME NEW f \in FrameOf, Says(c, f), f.k \notin {"join", "create"}
          PROVE  \A x \in Client : /\ Once(up'[x], "join")
                                   /\ \A k \in {"join", "create"} : Has(up'[x], k) => Has(up[x], k)
      <4>1. /\ \A x \in Client \ {c} : up'[x] = up[x]
            /\ \A k : Has(up'[c], k) <=> Has(up[c], k) \/ f.k = k
            /\ Once(up[c], "join") => Once(up'[c], "join")
        BY <1>2, <3>2, SaysHas
      <4>2. \A x \in Client : Once(up[x], "join")
        BY DEF AskInv
      <4> SUFFICES ASSUME NEW x \in Client
                   PROVE  /\ Once(up'[x], "join")
                          /\ \A k \in {"join", "create"} : Has(up'[x], k) => Has(up[x], k)
        OBVIOUS
      <4>3. CASE x = c
        BY <3>2, <4>1, <4>2, <4>3
      <4>4. CASE x # c
        <5>1. up'[x] = up[x]
          BY <4>1, <4>4
        <5> QED
          BY <4>2, <5>1
      <4> QED
        BY <4>3, <4>4
    <3> QED
      BY <2>1, <3>1, <3>2
  <2>3. \A x \in Client : down'[x] = down[x] \/ down'[x] = << >>
    BY <1>2, <1>6 DEF SendByte, CloseClient
  <2>4. \A x \in Client : Once(down'[x], "error") /\ (Has(down'[x], "error") => Has(down[x], "error"))
    <3> SUFFICES ASSUME NEW x \in Client
                 PROVE  Once(down'[x], "error") /\ (Has(down'[x], "error") => Has(down[x], "error"))
      OBVIOUS
    <3>1. CASE down'[x] = down[x]
      BY <3>1 DEF AskInv
    <3>2. CASE down'[x] = << >>
      BY <3>2 DEF Once, Has
    <3> QED
      BY <2>3, <3>1, <3>2
  <2>5. \A x \in Client : screen'[x] \in {"menu", "hosting"} => screen'[x] = screen[x]
    BY <1>2, <1>6 DEF SendByte, CloseClient
  <2>6. \A x \in Client : Has(down'[x], "error") => ~Unsent(x)'
    BY <1>3, <2>4 DEF AskInv
  <2>7. AskInv'
    BY <1>0, <1>3, <2>2, <2>4, <2>5, <2>6, AskQuieter DEF tables
  <2> QED
    BY <1>1, <2>7
<1> QED
  BY <1>4, <1>5, <1>6 DEF PlayerActs

\* Pairings and questions of patient players, step by step.
LEMMA NextPairs ==
  ASSUME LoopInv, PairInv, AskInv, Patient, [Next]_vars
  PROVE  PairInv' /\ AskInv'
<1>1. CASE UNCHANGED vars
  BY <1>1, Zenon DEF vars, tables, loop, wires, ends, player, PairInv, PairingMutual, Leaving,
     AskInv, Asking, Unsent, Sending, Has, Once
<1>2. ASSUME NEW c \in Client, LoopStep(c) \/ LostConnection(c) \/ ClientReads(c) \/ PlayerActs(c)
      PROVE  PairInv' /\ AskInv'
  <2>1. CASE Write(c) \/ Queue(c) \/ Handed(c) \/ Drained(c) \/ Raised(c)
    <3>1. AskInv'
      BY <2>1, SendingAsk
    <3>2. running = Nobody \/ (running = c /\ Sending(c))
      BY <2>1 DEF Write, Queue, Handed, Drained, Raised, Holds
    <3>3. CASE UNCHANGED <<peer, next>>
      BY <3>1, <3>2, <3>3, PairStays
    <3>4. CASE Raised(c) /\ ~Swallowed(c)
      <4>1. /\ DropPeer(c) /\ next' = [next EXCEPT ![c] = "close"] /\ next[c] = "read"
            /\ running' = c /\ running = Nobody
        BY <3>4 DEF Raised, Swallowed, Holds
      <4>2. TypeOK
        BY DEF LoopInv, TypeInv
      <4> QED
        BY <3>1, <4>1, <4>2, PairDrops
    <3> QED
      BY <2>1, <3>3, <3>4 DEF Write, Queue, Handed, Drained, Raised, Put, tables
  <2>2. CASE Create(c)
    <3>1. UNCHANGED <<peer, next>> /\ running = Nobody
      BY <2>2 DEF Create, Takes, Reads
    <3> QED
      BY <2>2, <3>1, CreateAsk, PairStays
  <2>3. CASE Join(c)
    BY <2>3, JoinKeeps
  <2>4. CASE Relay(c) \/ Leave(c) \/ EndOfStream(c) \/ Done(c) \/ LostConnection(c)
    BY <2>4, OtherReadsKeep
  <2>5. CASE ClientReads(c)
    BY <2>5, ClientKeeps
  <2>6. CASE PlayerActs(c)
    BY <2>6, PlayerKeeps
  <2> QED
    BY <1>2, <2>1, <2>2, <2>3, <2>4, <2>5, <2>6 DEF LoopStep
<1> QED
  BY <1>1, <1>2 DEF Next

\* Nobody is paired and nobody has asked in an empty lobby.
LEMMA InitPairs == Init => PairInv /\ AskInv
<1> SUFFICES ASSUME Init PROVE PairInv /\ AskInv
  OBVIOUS
<1>1. PairInv
  BY DEF Init, PairInv, PairingMutual, Leaving
<1>2. AskInv
  BY DEF Init, AskInv, Asking, Unsent, Sending, Has, Once
<1> QED
  BY <1>1, <1>2

\* With players who wait for what they have asked, a pairing is mutual until one of the two
\* dissolves it: nobody's bytes go to a player who believes he is linked to somebody else,
\* whatever the order of the coroutines, however full the writers (handle_control,
\* drop_pairing).
THEOREM PairingAlwaysMutual == Patient => (Spec => []PairingMutual)
<1> SUFFICES ASSUME Patient PROVE Spec => []PairingMutual
  OBVIOUS
<1> DEFINE I == LoopInv /\ PairInv /\ AskInv
<1>1. Init => I
  BY InitLoop, InitPairs
<1>2. I /\ [Next]_vars => I'
  BY NextLoop, NextPairs
<1>3. I => PairingMutual
  BY DEF PairInv
<1> QED
  BY <1>1, <1>2, <1>3, PTL DEF Spec

----------------------------------------------------------------------------
(***************************************************************************)
(* What each step does to the coroutines and the wires                     *)
(***************************************************************************)
\* A frame is written; a frame that had been written is done with; a player departs.
Writes(c) == Write(c) \/ Handed(c)
Skips(c) == Drained(c) \/ (Raised(c) /\ Swallowed(c))
Drops(c) == (Raised(c) /\ ~Swallowed(c)) \/ Leave(c) \/ EndOfStream(c)

\* The state of one player.
LEMMA Typed ==
  ASSUME TypeOK, NEW c \in Client
  PROVE  /\ up[c] \in Seq(FrameOf) /\ down[c] \in Seq(FrameOf) /\ todo[c] \in Seq(SendOf)
         /\ line[c] \in Seq(Client) /\ taken[c] \in Seq(Client \X Nat)
         /\ peer[c] \in Client \cup {Nobody} /\ with[c] \in Client \cup {Nobody}
         /\ next[c] \in {"read", "unpair", "close"}
         /\ screen[c] \in {"menu", "asked", "hosting", "linked", "lost", "closed"}
         /\ opened[c] \in Nat /\ said[c] \in Nat /\ Nobody \notin Client
<1>1. /\ up \in [Client -> Seq(FrameOf)] /\ down \in [Client -> Seq(FrameOf)]
      /\ todo \in [Client -> Seq(SendOf)] /\ line \in [Client -> Seq(Client)]
      /\ taken \in [Client -> Seq(Client \X Nat)]
  BY DEF TypeOK, SendOf
<1>2. /\ peer[c] \in Client \cup {Nobody} /\ with[c] \in Client \cup {Nobody}
      /\ next[c] \in {"read", "unpair", "close"}
      /\ screen[c] \in {"menu", "asked", "hosting", "linked", "lost", "closed"}
      /\ opened[c] \in Nat /\ said[c] \in Nat /\ Nobody \notin Client
  BY DEF TypeOK
<1> QED
  BY <1>1, <1>2

\* The lengths of a player's sequences.
LEMMA Lengths ==
  ASSUME TypeOK, NEW c \in Client
  PROVE  /\ Len(up[c]) \in Nat /\ Len(down[c]) \in Nat /\ Len(todo[c]) \in Nat
         /\ Len(line[c]) \in Nat /\ Len(taken[c]) \in Nat
         /\ \A i \in 1 .. Len(up[c]) : up[c][i] \in FrameOf
         /\ \A i \in 1 .. Len(down[c]) : down[c][i] \in FrameOf
         /\ \A i \in 1 .. Len(todo[c]) : todo[c][i] \in SendOf
         /\ \A i \in 1 .. Len(line[c]) : line[c][i] \in Client
         /\ todo[c] # << >> <=> Len(todo[c]) > 0
<1>1. /\ up[c] \in Seq(FrameOf) /\ down[c] \in Seq(FrameOf) /\ todo[c] \in Seq(SendOf)
      /\ line[c] \in Seq(Client) /\ taken[c] \in Seq(Client \X Nat)
  BY Typed
<1>2. Len(up[c]) \in Nat /\ \A i \in 1 .. Len(up[c]) : up[c][i] \in FrameOf
  BY <1>1
<1>3. Len(down[c]) \in Nat /\ \A i \in 1 .. Len(down[c]) : down[c][i] \in FrameOf
  BY <1>1
<1>4. /\ Len(todo[c]) \in Nat /\ (todo[c] # << >> <=> Len(todo[c]) > 0)
      /\ \A i \in 1 .. Len(todo[c]) : todo[c][i] \in SendOf
  BY <1>1
<1>5. /\ Len(line[c]) \in Nat /\ Len(taken[c]) \in Nat
      /\ \A i \in 1 .. Len(line[c]) : line[c][i] \in Client
  BY <1>1
<1> QED
  BY <1>2, <1>3, <1>4, <1>5

\* The first frame is done with: what is left.
LEMMA SentOneDoes ==
  ASSUME TypeOK, NEW c \in Client, Sending(c), todo' = SentOne(c)
  PROVE  /\ \A y \in Client \ {c} : todo'[y] = todo[y]
         /\ Len(todo'[c]) = Len(todo[c]) - 1
         /\ \A i \in 1 .. Len(todo'[c]) : i + 1 \in 1 .. Len(todo[c]) /\ todo'[c][i] = todo[c][i + 1]
<1>1. todo \in [Client -> Seq(SendOf)] /\ todo[c] \in Seq(SendOf) /\ todo[c] # << >>
  BY DEF TypeOK, SendOf, Sending
<1>2. todo'[c] = Tail(todo[c]) /\ \A y \in Client \ {c} : todo'[y] = todo[y]
  BY <1>1 DEF SentOne
<1> QED
  BY <1>1, <1>2, HeadTail

\* The first frame is marked as written.
LEMMA MarkedDoes ==
  ASSUME TypeOK, NEW c \in Client, Sending(c), todo' = [todo EXCEPT ![c][1].sent = TRUE]
  PROVE  /\ \A y \in Client \ {c} : todo'[y] = todo[y]
         /\ Len(todo'[c]) = Len(todo[c])
         /\ \A i \in 1 .. Len(todo'[c]) :
              /\ todo'[c][i].f = todo[c][i].f /\ todo'[c][i].to = todo[c][i].to
              /\ i = 1 => todo'[c][i].sent
              /\ i # 1 => todo'[c][i] = todo[c][i]
<1> DEFINE e == [todo[c][1] EXCEPT !.sent = TRUE]
           s == [todo[c] EXCEPT ![1] = e]
<1>0. todo \in [Client -> Seq(SendOf)]
  BY DEF TypeOK, SendOf
<1>1. todo[c] \in Seq(SendOf) /\ 1 \in 1 .. Len(todo[c]) /\ todo[c][1] \in SendOf
  BY FirstTypes
<1>2. e \in SendOf /\ e.sent /\ e.f = todo[c][1].f /\ e.to = todo[c][1].to
  BY <1>1 DEF SendOf
<1>3. todo'[c] = s /\ \A y \in Client \ {c} : todo'[y] = todo[y]
  BY <1>0, <1>1 DEF e
<1> HIDE DEF e
<1>4. /\ s \in Seq(SendOf) /\ Len(s) = Len(todo[c]) /\ s[1] = e
      /\ \A i \in 1 .. Len(s) : i # 1 => s[i] = todo[c][i]
  BY <1>1, <1>2, ExceptSeq
<1> HIDE DEF s
<1> QED
  BY <1>2, <1>3, <1>4

\* What a write does.
LEMMA WritesDo ==
  ASSUME LoopInv, NEW c \in Client, Writes(c)
  PROVE  /\ TypeOK /\ Sending(c) /\ Dest(c) \in Client /\ ~todo[c][1].sent /\ running \in {c, Nobody}
         /\ UNCHANGED <<tables, next, up, ends, player>>
         /\ \A y \in Client \ {c} : todo'[y] = todo[y]
         /\ \A y \in Client \ {Dest(c)} : down'[y] = down[y] /\ line'[y] = line[y]
         /\ IF Dead(Dest(c)) \/ Dest(c) \in gone THEN down'[Dest(c)] = down[Dest(c)]
            ELSE down'[Dest(c)] = Append(down[Dest(c)], todo[c][1].f)
         /\ \E queue \in Seq(Client) :
              /\ queue # << >> /\ queue[1] = c
              /\ (running = c /\ line[Dest(c)] = << >> /\ queue = <<c>>)
                   \/ (running = Nobody /\ line[Dest(c)] # << >> /\ queue = line[Dest(c)])
              /\ \/ /\ Dead(Dest(c)) \/ (Dest(c) \notin gone /\ Has(down'[Dest(c)], "byte"))
                    /\ todo' = [todo EXCEPT ![c][1].sent = TRUE] /\ running' = Nobody
                    /\ line'[Dest(c)] = queue
                 \/ /\ ~Dead(Dest(c))
                    /\ todo' = SentOne(c) /\ running' = c /\ line'[Dest(c)] = Tail(queue)
<1>1. TypeOK /\ Sending(c) /\ running \in {c, Nobody} /\ TypeInv
  BY DEF Writes, Write, Handed, Holds, LoopInv, TypeInv
<1>2. /\ Dest(c) \in Client /\ todo[c] \in Seq(SendOf) /\ todo[c][1] \in SendOf
      /\ todo[c][1].f \in FrameOf /\ Len(todo[c]) \in Nat \ {0}
  BY <1>1, FirstTypes
<1>3. ~todo[c][1].sent
  BY <1>2 DEF Writes, Write, Handed, LoopInv, SentInv, Unwritten
<1>4. PICK queue \in Seq(Client) :
        /\ queue # << >> /\ queue[1] = c /\ Put(c, queue)
        /\ (running = c /\ line[Dest(c)] = << >> /\ queue = <<c>>)
              \/ (running = Nobody /\ line[Dest(c)] # << >> /\ queue = line[Dest(c)])
  <2>1. CASE Write(c)
    <3>1. <<c>> \in Seq(Client) /\ <<c>> # << >> /\ <<c>>[1] = c
      OBVIOUS
    <3> QED
      BY <2>1, <3>1 DEF Write
  <2>2. CASE Handed(c)
    <3>1. line[Dest(c)] \in Seq(Client) /\ line[Dest(c)] # << >> /\ Head(line[Dest(c)]) = c
      BY <1>1, <1>2, <2>2 DEF Handed, Holds, TypeOK
    <3>2. line[Dest(c)][1] = c
      BY <3>1, HeadTail
    <3> QED
      BY <2>2, <3>1, <3>2 DEF Handed, Holds
  <2> QED
    BY <2>1, <2>2 DEF Writes
<1>5. /\ down \in [Client -> Seq(FrameOf)] /\ line \in [Client -> Seq(Client)]
      /\ todo \in [Client -> Seq(SendOf)]
  BY <1>1 DEF TypeOK, SendOf
<1>6. /\ UNCHANGED <<tables, next, up, ends, player>> /\ down' = Written(c)
      /\ \/ /\ Dead(Dest(c)) \/ Full(Dest(c), down')
            /\ todo' = [todo EXCEPT ![c][1].sent = TRUE] /\ running' = Nobody
            /\ line' = [line EXCEPT ![Dest(c)] = queue]
         \/ /\ ~Dead(Dest(c))
            /\ todo' = SentOne(c) /\ running' = c /\ line' = [line EXCEPT ![Dest(c)] = Tail(queue)]
  BY <1>4 DEF Put
<1>7. /\ \A y \in Client \ {Dest(c)} : down'[y] = down[y] /\ line'[y] = line[y]
      /\ IF Dead(Dest(c)) \/ Dest(c) \in gone THEN down'[Dest(c)] = down[Dest(c)]
            ELSE down'[Dest(c)] = Append(down[Dest(c)], todo[c][1].f)
  BY <1>2, <1>5, <1>6 DEF Written
<1>8. \A y \in Client \ {c} : todo'[y] = todo[y]
  BY <1>1, <1>6, SentOneDoes, MarkedDoes
<1>9. Full(Dest(c), down') => Dest(c) \notin gone /\ Has(down'[Dest(c)], "byte")
  <2>1. down'[Dest(c)] \in Seq(FrameOf)
    BY <1>1, <1>6, <1>2, WrittenTypes
  <2> QED
    BY <2>1 DEF Full, Has
<1>10. \/ line'[Dest(c)] = queue /\ running' = Nobody /\ todo' = [todo EXCEPT ![c][1].sent = TRUE]
             /\ (Dead(Dest(c)) \/ (Dest(c) \notin gone /\ Has(down'[Dest(c)], "byte")))
       \/ line'[Dest(c)] = Tail(queue) /\ ~Dead(Dest(c)) /\ todo' = SentOne(c) /\ running' = c
  BY <1>2, <1>5, <1>6, <1>9
<1> QED
  BY <1>1, <1>2, <1>3, <1>4, <1>6, <1>7, <1>8, <1>10

\* What waiting behind another coroutine does.
LEMMA QueueDoes ==
  ASSUME LoopInv, NEW c \in Client, Queue(c)
  PROVE  /\ TypeOK /\ Sending(c) /\ Dest(c) \in Client /\ running = c /\ running' = Nobody
         /\ UNCHANGED <<tables, todo, next, wires, ends, player>>
         /\ line[Dest(c)] # << >> /\ line'[Dest(c)] = Append(line[Dest(c)], c)
         /\ \A y \in Client \ {Dest(c)} : line'[y] = line[y]
<1>1. TypeOK /\ Sending(c)
  BY DEF Queue, LoopInv, TypeInv
<1>2. Dest(c) \in Client /\ line \in [Client -> Seq(Client)]
  BY <1>1, FirstTypes DEF TypeOK
<1> QED
  BY <1>1, <1>2 DEF Queue

\* What it does that a drain returns, or raises in a relay or a departure.
LEMMA SkipsDo ==
  ASSUME LoopInv, NEW c \in Client, Skips(c)
  PROVE  /\ TypeOK /\ Sending(c) /\ Dest(c) \in Client /\ running = Nobody /\ running' = c
         /\ todo[c][1].sent /\ todo' = SentOne(c)
         /\ UNCHANGED <<tables, next, wires, ends, player>>
         /\ line[Dest(c)] \in Seq(Client) /\ line[Dest(c)] # << >> /\ line[Dest(c)][1] = c
         /\ line'[Dest(c)] = Tail(line[Dest(c)])
         /\ \A y \in Client \ {Dest(c)} : line'[y] = line[y]
<1>1. TypeOK /\ Sending(c) /\ Holds(c) /\ todo[c][1].sent
  BY DEF Skips, Drained, Raised, Holds, LoopInv, TypeInv
<1>2. Dest(c) \in Client /\ line \in [Client -> Seq(Client)]
  BY <1>1, FirstTypes DEF TypeOK
<1>3. line[Dest(c)] \in Seq(Client) /\ line[Dest(c)] # << >> /\ Head(line[Dest(c)]) = c
  BY <1>1, <1>2 DEF Holds
<1>4. line[Dest(c)][1] = c
  BY <1>3, HeadTail
<1> QED
  BY <1>1, <1>2, <1>3, <1>4 DEF Skips, Drained, Raised, Release, Holds, tables

\* What a departure does, up to its await.
LEMMA DropsDo ==
  ASSUME LoopInv, PairInv, NEW c \in Client, Drops(c)
  PROVE  /\ TypeOK /\ running = Nobody /\ running' = c
         /\ next[c] = "read" /\ next'[c] # "read" /\ \A y \in Client \ {c} : next'[y] = next[y]
         /\ peer'[c] = peer[c] /\ peer[c] # c
         /\ \A y \in Client \ {c} : peer'[y] = IF y = peer[c] THEN Nobody ELSE peer[y]
         /\ todo' = [todo EXCEPT ![c] = LastWord(c)] /\ todo'[c] = LastWord(c)
         /\ \A y \in Client \ {c} : todo'[y] = todo[y]
         /\ UNCHANGED <<games, room, down, ends, player>>
         /\ \/ /\ Sending(c) /\ Dest(c) \in Client /\ todo[c][1].sent /\ Dead(Dest(c))
               /\ todo[c][1].f.k # "byte" /\ up' = up /\ next'[c] = "close"
               /\ line[Dest(c)] \in Seq(Client) /\ line[Dest(c)] # << >> /\ line[Dest(c)][1] = c
               /\ line'[Dest(c)] = Tail(line[Dest(c)])
               /\ \A y \in Client \ {Dest(c)} : line'[y] = line[y]
            \/ /\ todo[c] = << >> /\ line' = line /\ c \notin ended
               /\ \/ /\ Takes(c, "leave") /\ next'[c] = "unpair"
                  \/ /\ up' = up /\ next'[c] = "close" /\ (c \in lost \/ (c \in gone /\ up[c] = << >>))
<1>0. TypeOK /\ peer \in [Client -> Client \cup {Nobody}] /\ todo \in [Client -> Seq(SendOf)]
      /\ next \in [Client -> {"read", "unpair", "close"}] /\ line \in [Client -> Seq(Client)]
  BY DEF LoopInv, TypeInv, TypeOK, SendOf
<1>1. /\ DropPeer(c) /\ running = Nobody /\ running' = c /\ next[c] = "read"
      /\ \E w \in {"unpair", "close"} : next' = [next EXCEPT ![c] = w]
      /\ UNCHANGED <<games, room, down, ends, player>>
  BY DEF Drops, Raised, Leave, EndOfStream, Takes, Reads, Holds, Swallowed, wires
<1>2. next'[c] # "read" /\ \A y \in Client \ {c} : next'[y] = next[y]
  BY <1>0, <1>1
<1>3. peer[c] # c
  BY DEF PairInv
<1>4. /\ peer'[c] = peer[c]
      /\ \A y \in Client \ {c} : peer'[y] = IF y = peer[c] THEN Nobody ELSE peer[y]
  <2>1. CASE peer[c] = Nobody
    BY <1>0, <1>1, <2>1 DEF DropPeer
  <2>2. CASE peer[c] # Nobody
    BY <1>0, <1>1, <1>3, <2>2 DEF DropPeer
  <2> QED
    BY <2>1, <2>2
<1>5. /\ todo' = [todo EXCEPT ![c] = LastWord(c)] /\ todo'[c] = LastWord(c)
      /\ \A y \in Client \ {c} : todo'[y] = todo[y]
  BY <1>0, <1>1 DEF DropPeer
<1>6. CASE Raised(c) /\ ~Swallowed(c)
  <2>1. /\ Sending(c) /\ Holds(c) /\ todo[c][1].sent /\ Dead(Dest(c)) /\ up' = up
        /\ todo[c][1].f.k # "byte" /\ line' = Release(c) /\ next' = [next EXCEPT ![c] = "close"]
    BY <1>6 DEF Raised, Swallowed, Holds, wires
  <2>2. Dest(c) \in Client
    BY <1>0, <2>1, FirstTypes
  <2>3. line[Dest(c)] \in Seq(Client) /\ line[Dest(c)] # << >> /\ Head(line[Dest(c)]) = c
    BY <1>0, <2>1, <2>2 DEF Holds
  <2>4. line[Dest(c)][1] = c
    BY <2>3, HeadTail
  <2>5. /\ line'[Dest(c)] = Tail(line[Dest(c)]) /\ \A y \in Client \ {Dest(c)} : line'[y] = line[y]
        /\ next'[c] = "close"
    BY <1>0, <2>1, <2>2 DEF Release
  <2> QED
    BY <1>0, <1>1, <1>2, <1>3, <1>4, <1>5, <2>1, <2>2, <2>3, <2>4, <2>5
<1>7. CASE Leave(c) \/ EndOfStream(c)
  <2>1. /\ todo[c] = << >> /\ line' = line /\ c \notin ended
        /\ \/ Takes(c, "leave") /\ next' = [next EXCEPT ![c] = "unpair"]
           \/ /\ up' = up /\ next' = [next EXCEPT ![c] = "close"]
              /\ (c \in lost \/ (c \in gone /\ up[c] = << >>))
    BY <1>7 DEF Leave, EndOfStream, Takes, Reads, Sending, wires
  <2>2. next' = [next EXCEPT ![c] = "unpair"] => next'[c] = "unpair"
    BY <1>0
  <2>3. next' = [next EXCEPT ![c] = "close"] => next'[c] = "close"
    BY <1>0
  <2> QED
    BY <1>0, <1>1, <1>2, <1>3, <1>4, <1>5, <2>1, <2>2, <2>3
<1> QED
  BY <1>6, <1>7 DEF Drops

\* What taking a frame from a client's wire does.
LEMMA TakesDo ==
  ASSUME LoopInv, NEW c \in Client, NEW kind, Takes(c, kind)
  PROVE  /\ TypeOK /\ running = Nobody /\ running' = c /\ todo[c] = << >> /\ next[c] = "read"
         /\ c \notin ended /\ c \notin lost /\ up[c] # << >>
         /\ Head(up[c]) = up[c][1] /\ up[c][1] \in FrameOf /\ up[c][1].k = kind /\ 1 \in 1 .. Len(up[c])
         /\ Len(up'[c]) = Len(up[c]) - 1 /\ Len(up[c]) \in Nat
         /\ \A i \in 1 .. Len(up'[c]) : i + 1 \in 1 .. Len(up[c]) /\ up'[c][i] = up[c][i + 1]
         /\ \A y \in Client \ {c} : up'[y] = up[y]
<1>1. /\ TypeOK /\ up \in [Client -> Seq(FrameOf)] /\ up[c] \in Seq(FrameOf) /\ up[c] # << >>
      /\ up' = [up EXCEPT ![c] = Tail(up[c])] /\ Head(up[c]).k = kind
      /\ running = Nobody /\ running' = c /\ todo[c] = << >> /\ next[c] = "read"
      /\ c \notin ended /\ c \notin lost
  BY DEF Takes, Reads, Sending, LoopInv, TypeInv, TypeOK
<1>2. up'[c] = Tail(up[c]) /\ \A y \in Client \ {c} : up'[y] = up[y]
  BY <1>1
<1>3. /\ Head(up[c]) = up[c][1] /\ up[c][1] \in FrameOf /\ Len(up[c]) \in Nat \ {0}
      /\ Len(Tail(up[c])) = Len(up[c]) - 1
      /\ \A i \in 1 .. Len(Tail(up[c])) : i + 1 \in 1 .. Len(up[c]) /\ Tail(up[c])[i] = up[c][i + 1]
  BY <1>1, HeadTail
<1> QED
  BY <1>1, <1>2, <1>3

\* What relaying a byte does.
LEMMA RelayDoes ==
  ASSUME LoopInv, NEW c \in Client, Relay(c)
  PROVE  /\ Takes(c, "byte") /\ UNCHANGED <<tables, next, line, down, ends, player>>
         /\ todo'[c] = IF peer[c] = Nobody THEN << >> ELSE <<Send(peer[c], up[c][1])>>
         /\ \A y \in Client \ {c} : todo'[y] = todo[y]
<1>1. Takes(c, "byte")
  BY DEF Relay
<1>2. Head(up[c]) = up[c][1]
  BY <1>1, TakesDo
<1>3. todo \in [Client -> Seq(SendOf)]
  BY DEF LoopInv, TypeInv, TypeOK, SendOf
<1> QED
  BY <1>1, <1>2, <1>3 DEF Relay

\* A player is let into a room.
Joins(c, h) ==
  /\ Takes(c, "join") /\ h \in Client \ {c} /\ (\E r \in games : Host(r) = h) /\ peer[h] = Nobody
  /\ UNCHANGED <<games, room, next, line, down, ends, player>>
  /\ peer'[h] = c /\ peer'[c] = h /\ (\A y \in Client \ {c, h} : peer'[y] = peer[y])
  /\ todo'[c] = Tidings(c, h) /\ \A y \in Client \ {c} : todo'[y] = todo[y]

\* A player is answered with one frame: his room is open, or the room he asked for is not.
Answers(c, kind) ==
  /\ \/ Takes(c, "create") /\ kind = "created" /\ \E n : games' = games \cup {<<c, n>>}
     \/ Takes(c, "join") /\ kind = "error" /\ games' = games
  /\ UNCHANGED <<peer, next, line, down, ends, player>>
  /\ todo'[c] = <<Send(c, Frame(kind, c))>> /\ \A y \in Client \ {c} : todo'[y] = todo[y]

\* What asking for a room does.
LEMMA JoinDoes ==
  ASSUME LoopInv, AskInv, NEW c \in Client, Join(c)
  PROVE  Answers(c, "error") \/ \E h \in Client : Joins(c, h)
<1>1. /\ Takes(c, "join") /\ UNCHANGED <<games, room, next, line, down, ends, player>>
  BY DEF Join
<1>2. Head(up[c]) \in FrameOf /\ Has(up[c], "join")
  BY <1>1, TakesAsk
<1>3. \A r \in games : Host(r) # c
  BY <1>2 DEF AskInv, Asking
<1>4. todo \in [Client -> Seq(SendOf)] /\ peer \in [Client -> Client \cup {Nobody}]
  BY DEF LoopInv, TypeInv, TypeOK, SendOf
<1> DEFINE r == <<Head(up[c]).who, Head(up[c]).n>>
           h == Host(r)
<1>5. h \in Client
  BY <1>2 DEF Host, FrameOf
<1>6. CASE Offered(r)
  <2>1. /\ peer' = [peer EXCEPT ![h] = c, ![c] = h] /\ todo' = [todo EXCEPT ![c] = Tidings(c, h)]
        /\ r \in games /\ peer[h] = Nobody
    BY <1>6 DEF Join, Offered
  <2>2. h # c /\ \E q \in games : Host(q) = h
    BY <1>3, <2>1
  <2> HIDE DEF r, h
  <2>3. /\ peer'[h] = c /\ peer'[c] = h /\ (\A y \in Client \ {c, h} : peer'[y] = peer[y])
        /\ todo'[c] = Tidings(c, h) /\ \A y \in Client \ {c} : todo'[y] = todo[y]
    BY <1>4, <1>5, <2>1, <2>2
  <2> QED
    BY <1>1, <1>5, <2>1, <2>2, <2>3 DEF Joins
<1>7. CASE ~Offered(r)
  <2>1. todo' = [todo EXCEPT ![c] = <<Send(c, Frame("error", c))>>] /\ peer' = peer
    BY <1>7 DEF Join
  <2> QED
    BY <1>1, <1>4, <2>1 DEF Answers
<1> QED
  BY <1>6, <1>7

\* What opening a room does.
LEMMA CreateDoes ==
  ASSUME LoopInv, NEW c \in Client, Create(c)
  PROVE  Answers(c, "created")
<1>1. todo \in [Client -> Seq(SendOf)]
  BY DEF LoopInv, TypeInv, TypeOK, SendOf
<1> QED
  BY <1>1 DEF Create, Answers

\* What the end of a frame or of a session does.
LEMMA DoneDoes ==
  ASSUME LoopInv, NEW c \in Client, Done(c)
  PROVE  /\ TypeOK /\ running = c /\ todo[c] = << >> /\ running' = Nobody
         /\ UNCHANGED <<todo, line, wires, lost, player>>
         /\ \A y \in Client \ {c} : peer'[y] = peer[y] /\ next'[y] = next[y] /\ (y \in ended' <=> y \in ended)
         /\ games' \subseteq games
         /\ \/ next[c] = "read" /\ UNCHANGED <<tables, next, ended>>
            \/ /\ next[c] # "read" /\ peer'[c] = Nobody /\ next'[c] = "read"
               /\ next[c] = "close" => c \in ended'
               /\ next[c] # "close" => ended' = ended
<1>0. /\ TypeOK /\ peer \in [Client -> Client \cup {Nobody}]
      /\ next \in [Client -> {"read", "unpair", "close"}]
  BY DEF LoopInv, TypeInv, TypeOK
<1>1. /\ running = c /\ todo[c] = << >> /\ running' = Nobody
      /\ UNCHANGED <<todo, line, wires, lost, player>>
  BY DEF Done, Sending
<1>2. CASE next[c] = "read"
  BY <1>0, <1>1, <1>2 DEF Done, tables
<1>3. CASE next[c] # "read"
  <2>1. /\ peer' = Unpaired(c) /\ games' = ClosedRoom(c) /\ next' = [next EXCEPT ![c] = "read"]
        /\ ended' = IF next[c] = "close" THEN ended \cup {c} ELSE ended
    BY <1>3 DEF Done
  <2>2. /\ peer'[c] = Nobody /\ next'[c] = "read"
        /\ \A y \in Client \ {c} : peer'[y] = peer[y] /\ next'[y] = next[y]
    BY <1>0, <2>1 DEF Unpaired
  <2>3. games' \subseteq games
    BY <2>1 DEF ClosedRoom
  <2> QED
    BY <1>0, <1>1, <1>3, <2>1, <2>2, <2>3
<1> QED
  BY <1>2, <1>3

\* What a frame read by a client does to its wire.
LEMMA ReceivesDo ==
  ASSUME LoopInv, NEW c \in Client, NEW kind, Receives(c, kind)
  PROVE  /\ TypeOK /\ running = Nobody /\ c \notin gone
         /\ Head(down[c]) = down[c][1] /\ down[c][1] \in FrameOf /\ down[c][1].k = kind
         /\ 1 \in 1 .. Len(down[c]) /\ Len(down[c]) \in Nat /\ Len(down'[c]) = Len(down[c]) - 1
         /\ \A i \in 1 .. Len(down'[c]) : i + 1 \in 1 .. Len(down[c]) /\ down'[c][i] = down[c][i + 1]
         /\ down'[c] = Tail(down[c]) /\ down[c] # << >>
         /\ \A y \in Client \ {c} : down'[y] = down[y]
         /\ UNCHANGED <<tables, loop, up, ends, gone, opened, asked, said>>
<1>1. /\ TypeOK /\ down \in [Client -> Seq(FrameOf)] /\ down[c] \in Seq(FrameOf) /\ down[c] # << >>
      /\ down' = [down EXCEPT ![c] = Tail(down[c])] /\ Head(down[c]).k = kind
      /\ running = Nobody /\ c \notin gone
      /\ UNCHANGED <<tables, loop, up, ends, gone, opened, asked, said>>
  BY DEF Receives, Alive, LoopInv, TypeInv, TypeOK
<1>2. down'[c] = Tail(down[c]) /\ \A y \in Client \ {c} : down'[y] = down[y]
  BY <1>1
<1>3. /\ Head(down[c]) = down[c][1] /\ down[c][1] \in FrameOf /\ Len(down[c]) \in Nat \ {0}
      /\ Len(Tail(down[c])) = Len(down[c]) - 1
      /\ \A i \in 1 .. Len(Tail(down[c])) : i + 1 \in 1 .. Len(down[c]) /\ Tail(down[c])[i] = down[c][i + 1]
  BY <1>1, HeadTail
<1> QED
  BY <1>1, <1>2, <1>3

\* What a client reads changes: an answer to what it asked.
GetsAnswer(c) ==
  /\ down[c][1].k \in {"created", "error"} /\ UNCHANGED <<with, missed, taken>>
  /\ \A y \in Client \ {c} : screen'[y] = screen[y]
  /\ \/ screen'[c] = screen[c]
     \/ down[c][1].k = "error" /\ screen[c] = "asked" /\ screen'[c] = "menu"
\* He hears of his pairing: his window links, or he is linked already.
GetsJoined(c) ==
  /\ down[c][1].k = "joined" /\ taken'[c] = << >>
  /\ \A y \in Client \ {c} : taken'[y] = taken[y] /\ screen'[y] = screen[y] /\ with'[y] = with[y]
  /\ \/ screen[c] \in {"linked", "lost"} /\ UNCHANGED <<screen, with>>
     \/ screen[c] \notin {"linked", "lost"} /\ screen'[c] = "linked" /\ with'[c] = down[c][1].who
\* He takes a byte.
GetsByte(c) ==
  /\ down[c][1].k = "byte" /\ UNCHANGED <<screen, with>>
  /\ \A y \in Client \ {c} : taken'[y] = taken[y]
  /\ taken'[c] = Append(taken[c], <<down[c][1].who, down[c][1].n>>)
\* He hears of the end.
GetsEnd(c) ==
  /\ down[c][1].k = "peer_left" /\ with' = with /\ taken'[c] = << >>
  /\ \A y \in Client \ {c} : taken'[y] = taken[y] /\ screen'[y] = screen[y]
  /\ screen'[c] = IF screen[c] = "linked" THEN "lost" ELSE screen[c]

\* What a client's reading does.
LEMMA GetsDo ==
  ASSUME LoopInv, NEW c \in Client, ClientReads(c), ~GetHangUp(c)
  PROVE  /\ \E kind : Receives(c, kind)
         /\ GetsAnswer(c) \/ GetsJoined(c) \/ GetsByte(c) \/ GetsEnd(c)
<1>0. /\ TypeOK /\ taken \in [Client -> Seq(Client \X Nat)]
      /\ screen \in [Client -> {"menu", "asked", "hosting", "linked", "lost", "closed"}]
      /\ with \in [Client -> Client \cup {Nobody}]
  BY DEF LoopInv, TypeInv, TypeOK
<1>1. CASE GetAnswer(c)
  <2>1. PICK kind \in {"created", "error"} : Receives(c, kind) /\ GetAnswer(c)
    BY <1>1 DEF GetAnswer
  <2>2. down[c][1].k = kind
    BY <2>1, ReceivesDo
  <2>3. screen'[c] = screen[c] \/ (kind = "error" /\ screen[c] = "asked" /\ screen'[c] = "menu")
    BY <1>0, <2>1, <2>2 DEF GetAnswer, Receives
  <2>4. \A y \in Client \ {c} : screen'[y] = screen[y]
    BY <1>0, <1>1 DEF GetAnswer
  <2>5. GetsAnswer(c)
    BY <1>1, <2>2, <2>3, <2>4 DEF GetAnswer, GetsAnswer
  <2> QED
    BY <2>1, <2>5
<1>2. CASE GetJoined(c)
  <2>1. Receives(c, "joined") /\ down[c][1].k = "joined" /\ Head(down[c]) = down[c][1]
    BY <1>2, ReceivesDo DEF GetJoined
  <2>2. taken'[c] = << >> /\ \A y \in Client \ {c} : taken'[y] = taken[y]
    BY <1>0, <1>2 DEF GetJoined, Cleared
  <2>3. CASE screen[c] \in {"linked", "lost"}
    BY <1>2, <2>1, <2>2, <2>3 DEF GetJoined, GetsJoined
  <2>4. CASE screen[c] \notin {"linked", "lost"}
    <3>1. screen' = [screen EXCEPT ![c] = "linked"] /\ with' = [with EXCEPT ![c] = down[c][1].who]
      BY <1>2, <2>1, <2>4 DEF GetJoined
    <3>2. /\ screen'[c] = "linked" /\ with'[c] = down[c][1].who
          /\ \A y \in Client \ {c} : screen'[y] = screen[y] /\ with'[y] = with[y]
      BY <1>0, <3>1
    <3> QED
      BY <2>1, <2>2, <2>4, <3>2 DEF GetsJoined
  <2> QED
    BY <2>1, <2>3, <2>4
<1>3. CASE GetByte(c)
  <2>1. Receives(c, "byte") /\ down[c][1].k = "byte" /\ Head(down[c]) = down[c][1]
    BY <1>3, ReceivesDo DEF GetByte
  <2>2. /\ taken'[c] = Append(taken[c], <<down[c][1].who, down[c][1].n>>)
        /\ \A y \in Client \ {c} : taken'[y] = taken[y]
    BY <1>0, <1>3, <2>1 DEF GetByte
  <2> QED
    BY <1>3, <2>1, <2>2 DEF GetByte, GetsByte
<1>4. CASE GetPeerLeft(c)
  <2>1. Receives(c, "peer_left") /\ down[c][1].k = "peer_left"
    BY <1>4, ReceivesDo DEF GetPeerLeft
  <2>2. taken'[c] = << >> /\ \A y \in Client \ {c} : taken'[y] = taken[y]
    BY <1>0, <1>4 DEF GetPeerLeft, Cleared
  <2>3. /\ screen'[c] = IF screen[c] = "linked" THEN "lost" ELSE screen[c]
        /\ \A y \in Client \ {c} : screen'[y] = screen[y]
    BY <1>0, <1>4 DEF GetPeerLeft
  <2> QED
    BY <1>4, <2>1, <2>2, <2>3 DEF GetPeerLeft, GetsEnd
<1> QED
  BY <1>1, <1>2, <1>3, <1>4 DEF ClientReads

\* A client puts a frame on its wire.
Puts(c, f) ==
  /\ f \in FrameOf /\ Len(up[c]) \in Nat /\ Len(up'[c]) = Len(up[c]) + 1 /\ up'[c][Len(up[c]) + 1] = f
  /\ \A i \in 1 .. Len(up[c]) : up'[c][i] = up[c][i]
  /\ \A y \in Client \ {c} : up'[y] = up[y]

\* What a player does changes: he opens a room.
ActsOpen(c) ==
  /\ (\E n : Puts(c, [k |-> "create", who |-> c, n |-> n]))
  /\ screen[c] \in {"menu", "hosting"} /\ screen'[c] = "hosting" /\ opened'[c] = opened[c] + 1
  /\ (\A y \in Client \ {c} : screen'[y] = screen[y] /\ opened'[y] = opened[y])
  /\ UNCHANGED <<gone, with, taken, said, down>>
\* He asks to join a room.
ActsAsk(c) ==
  /\ (\E h, n : Puts(c, [k |-> "join", who |-> h, n |-> n]))
  /\ screen[c] = "menu" /\ screen'[c] = "asked" /\ (\A y \in Client \ {c} : screen'[y] = screen[y])
  /\ UNCHANGED <<gone, with, taken, opened, said, down>>
\* He sends a byte.
ActsByte(c) ==
  /\ Puts(c, [k |-> "byte", who |-> c, n |-> said[c] + 1])
  /\ screen[c] = "linked" /\ said'[c] = said[c] + 1 /\ (\A y \in Client \ {c} : said'[y] = said[y])
  /\ UNCHANGED <<gone, screen, with, taken, opened, down>>
\* He closes his window.
ActsClose(c) ==
  /\ up' = up \/ Puts(c, Frame("leave", c))
  /\ gone' = gone \cup {c} /\ screen'[c] = "closed" /\ down'[c] = << >>
  /\ (\A y \in Client \ {c} : screen'[y] = screen[y] /\ down'[y] = down[y])
  /\ UNCHANGED <<with, taken, opened, said>>

\* A frame a client sends goes behind the others.
LEMMA SaysDo ==
  ASSUME TypeOK, NEW c \in Client, NEW f \in FrameOf, Says(c, f)
  PROVE  Puts(c, f)
<1>1. up \in [Client -> Seq(FrameOf)] /\ up[c] \in Seq(FrameOf)
  BY DEF TypeOK
<1>2. up'[c] = Append(up[c], f) /\ \A x \in Client \ {c} : up'[x] = up[x]
  BY <1>1 DEF Says
<1> QED
  BY <1>1, <1>2, Longer DEF Puts

\* What a player's act does.
LEMMA ActsDo ==
  ASSUME LoopInv, Patient, NEW c \in Client, PlayerActs(c)
  PROVE  /\ TypeOK /\ running = Nobody /\ c \notin gone /\ UNCHANGED <<tables, loop, ends>>
         /\ ActsOpen(c) \/ ActsAsk(c) \/ ActsByte(c) \/ ActsClose(c)
<1>0. /\ TypeOK /\ opened \in [Client -> Nat] /\ said \in [Client -> Nat]
      /\ screen \in [Client -> {"menu", "asked", "hosting", "linked", "lost", "closed"}]
      /\ down \in [Client -> Seq(FrameOf)]
  BY DEF LoopInv, TypeInv, TypeOK
<1>1. running = Nobody /\ c \notin gone /\ UNCHANGED <<tables, loop, ends>>
  BY DEF PlayerActs, OpenRoom, AskRoom, SendByte, CloseClient, Alive
<1>2. CASE OpenRoom(c)
  <2> DEFINE f == [k |-> "create", who |-> c, n |-> opened[c] + 1]
  <2>1. f \in FrameOf /\ Says(c, f)
    BY <1>0, <1>2 DEF FrameOf, OpenRoom
  <2>2. Puts(c, f)
    BY <1>0, <2>1, SaysDo
  <2>3. ActsOpen(c)
    BY <1>0, <1>2, <2>2 DEF OpenRoom, MayOpen, ActsOpen
  <2> QED
    BY <1>0, <1>1, <2>3
<1>3. ASSUME NEW h \in Client, AskRoom(c, h)
      PROVE  ActsAsk(c)
  <2>1. PICK n \in 1 .. opened[h] : Says(c, [k |-> "join", who |-> h, n |-> n])
    BY <1>3 DEF AskRoom
  <2>2. opened[h] \in Nat /\ [k |-> "join", who |-> h, n |-> n] \in FrameOf
    BY <1>0, <2>1 DEF FrameOf
  <2>3. Puts(c, [k |-> "join", who |-> h, n |-> n])
    BY <1>0, <2>1, <2>2, SaysDo
  <2>4. screen[c] = "menu"
    BY <1>3 DEF AskRoom, MayAsk
  <2>5. screen' = [screen EXCEPT ![c] = "asked"] /\ UNCHANGED <<gone, with, taken, opened, said, down>>
    BY <1>3 DEF AskRoom
  <2> QED
    BY <1>0, <2>3, <2>4, <2>5 DEF ActsAsk
<1>4. CASE SendByte(c)
  <2> DEFINE f == [k |-> "byte", who |-> c, n |-> said[c] + 1]
  <2>1. f \in FrameOf /\ Says(c, f)
    BY <1>0, <1>4 DEF FrameOf, SendByte
  <2>2. Puts(c, f)
    BY <1>0, <2>1, SaysDo
  <2>3. ActsByte(c)
    BY <1>0, <1>4, <2>2 DEF SendByte, ActsByte
  <2> QED
    BY <1>0, <1>1, <2>3
<1>5. CASE CloseClient(c)
  <2>1. Frame("leave", c) \in FrameOf
    BY FrameTypes
  <2>2. up' = up \/ Puts(c, Frame("leave", c))
    BY <1>0, <1>5, <2>1, SaysDo DEF CloseClient
  <2>3. ActsClose(c)
    BY <1>0, <1>5, <2>2 DEF CloseClient, ActsClose
  <2> QED
    BY <1>0, <1>1, <2>3
<1> QED
  BY <1>0, <1>1, <1>2, <1>3, <1>4, <1>5 DEF PlayerActs

\* What a client's hearing of the server's hang-up does.
LEMMA HangUpDoes ==
  ASSUME LoopInv, NEW c \in Client, GetHangUp(c)
  PROVE  /\ TypeOK /\ running = Nobody /\ c \notin gone /\ c \in ended
         /\ gone' = gone \cup {c} /\ screen'[c] = "closed"
         /\ \A y \in Client \ {c} : screen'[y] = screen[y]
         /\ UNCHANGED <<tables, loop, wires, ends, with, taken, opened, said>>
<1>1. TypeOK /\ screen \in [Client -> {"menu", "asked", "hosting", "linked", "lost", "closed"}]
  BY DEF LoopInv, TypeInv, TypeOK
<1> QED
  BY <1>1 DEF GetHangUp, Alive

(***************************************************************************)
(* The order of what a link receives: the invariant                        *)
(***************************************************************************)
\* A player who has opened a room; a frame that matters to a pairing.
Opener(c) == opened[c] > 0
News == {"joined", "byte", "peer_left"}

\* What a player's window, his counters and his session say of one another.
Ends(c) ==
  /\ c \in lost => c \in gone
  /\ c \in gone <=> screen[c] = "closed"
  /\ screen[c] \in {"menu", "asked", "hosting"} => with[c] = Nobody
  /\ screen[c] \in {"linked", "lost"} => with[c] # Nobody
  /\ with[c] = Nobody => said[c] = 0
  /\ screen[c] \in {"menu", "asked"} => ~Opener(c)
  /\ screen[c] = "hosting" => Opener(c)
  /\ next[c] = "unpair" => c \in gone /\ up[c] = << >>
  /\ Opener(c) /\ c \notin gone => c \notin ended /\ next[c] = "read"
  /\ c \in ended => todo[c] = << >>

\* What a player has on his wire to the server.
Speaks(c) ==
  \A i \in 1 .. Len(up[c]) :
    /\ up[c][i].k = "create" => Opener(c)
    /\ up[c][i].k = "join" => ~Opener(c)
    /\ up[c][i].k = "leave" => c \in gone /\ i = Len(up[c])
    /\ up[c][i].k = "byte" => up[c][i].who = c /\ with[c] # Nobody

\* What a coroutine has still to send: to its own player an answer or the news of his
\* pairing, to another only news, of its own player and first.
Owing(c) ==
  \A i \in 1 .. Len(todo[c]) :
    /\ todo[c][i].to = c => todo[c][i].f.k \in {"created", "error", "joined"}
    /\ todo[c][i].to # c => i = 1 /\ todo[c][i].f.who = c /\ todo[c][i].f.k \in News
    /\ todo[c][i].f.k = "joined" => ~Opener(c)
    /\ todo[c][i].f.k = "byte" => with[c] # Nobody
    /\ todo[c][i].f.k = "peer_left" => next[c] # "read"

\* A coroutine that is sending to this player; and one that stands in a line.
SendsTo(c, d) == Sending(c) /\ Dest(c) = d
In(q, c) == \E i \in 1 .. Len(q) : q[i] = c

\* The line at a player's writer: of coroutines that send to him and do not run, each once;
\* and whoever has something to send and does not run stands in one.
Lined(d) ==
  /\ \A i \in 1 .. Len(line[d]) : SendsTo(line[d][i], d) /\ running # line[d][i]
  /\ \A i, j \in 1 .. Len(line[d]) : line[d][i] = line[d][j] => i = j
Stands(c) == Sending(c) /\ running # c => In(line[Dest(c)], c)

\* What holds of every player whatever he is paired with.
BaseInv ==
  /\ \A c \in Client : Ends(c) /\ Speaks(c) /\ Owing(c) /\ Lined(c) /\ Stands(c)
  /\ \A r \in games : Opener(Host(r))

\* What is on its way to a player: frames on his wire, and frames still to be sent to him.
Owed(y, d) == {todo[y][i].f : i \in {j \in 1 .. Len(todo[y]) : todo[y][j].to = d}}
Flight(d) == {down[d][i] : i \in 1 .. Len(down[d])} \cup UNION {Owed(y, d) : y \in Client}

\* All that a player hears, or may hear, is from one player.
Hears(d, h) ==
  /\ with[d] \in {Nobody, h}
  /\ \A i \in 1 .. Len(taken[d]) : taken[d][i][1] = h
  /\ \A y \in Client : peer[y] = d => y = h
  /\ \A f \in Flight(d) : f.k \in News => f.who = h

\* Nobody hears, or will hear, of a player.
Unknown(d) ==
  /\ peer[d] = Nobody
  /\ \A y \in Client : with[y] # d /\ \A f \in Flight(y) : f.k \in News => f.who # d

\* The server is reading his next message and nobody waits at his writer.
Idle(d) == d \notin gone => line[d] = << >> /\ d \notin ended /\ next[d] = "read"

\* A player who has been paired with nobody.
Untouched(d) == Hears(d, Nobody) /\ Unknown(d) /\ Idle(d)

\* Who has asked for nothing yet, or waits to be answered, is untouched: a room is opened
\* once, and joined before anything else.
FreshInv == \A c \in Client : Asking(c) => Untouched(c)
\* Who has opened no room hears of one player, who has.
GuestInv ==
  \A c \in Client : ~Opener(c) =>
    \E h \in Client \cup {Nobody} : Hears(c, h) /\ (h # Nobody => Opener(h))

\* A player who relays nothing any more.
Departed(c) == next[c] # "read" \/ c \in ended \/ (c \in gone /\ ~Has(up[c], "byte"))

\* Nobody else is paired with r or is sending to him.
Strangers(t, r) == \A y \in Client \ {t, r} : peer[y] # r /\ ~SendsTo(y, r)

\* The frames ahead of the m-th of a wire: news of t alone, first the news of the pairing,
\* at j, unless it has been read (j is 0), then bytes.
Front(q, t, j, m) ==
  /\ j \in 0 .. m - 1
  /\ j # 0 => q[j].k = "joined" /\ q[j].who = t
  /\ \A i \in 1 .. m - 1 : i # j /\ q[i].k \in News => i > j /\ q[i].k = "byte" /\ q[i].who = t
\* The news of the pairing is ahead exactly when it has not been read; and the whole wire.
Greeted(r, j) == (with[r] = Nobody) <=> (j # 0)
WholeFront(t, r) ==
  \E j \in 0 .. Len(down[r]) : Greeted(r, j) /\ Front(down[r], t, j, Len(down[r]) + 1)

\* Player r is paired with t, and hears of nobody else.
Together(t, r) == peer[r] = t /\ Strangers(t, r) /\ WholeFront(t, r)

\* Player t departs: the end of his is still to be written, ahead of whoever comes later.
Parting(t, r) == SendsTo(t, r) /\ todo[t][1].f.k = "peer_left" /\ ~todo[t][1].sent
\* He stands in the line at r's writer ahead of every other.
Queued(t, r) ==
  \A i, j \in 1 .. Len(line[r]) : line[r][i] = t /\ line[r][j] \notin {t, r} => i < j
\* What r still hears is from t, whose last word comes next.
Leaves(t, r) ==
  /\ Parting(t, r) /\ WholeFront(t, r) /\ Queued(t, r)
  /\ running = t => peer[r] = Nobody /\ Strangers(t, r)

\* Player t has departed: the end is on r's wire, behind what t has said.
Left(t, r) ==
  /\ Departed(t)
  /\ \E m \in 1 .. Len(down[r]) : \E j \in 0 .. Len(down[r]) :
       /\ down[r][m].k = "peer_left" /\ down[r][m].who = t
       /\ Greeted(r, j) /\ Front(down[r], t, j, m)

\* The numbers of t's bytes on a wire, in the coroutine's hands, and their order.
IsByte(f, t) == f.k = "byte" /\ f.who = t
Num(q, t) == {q[i].n : i \in {j \in 1 .. Len(q) : IsByte(q[j], t)}}
Carries(t) == Sending(t) /\ todo[t][1].f.k = "byte"
\* The number of a byte the server has read and not written.
Held(t) == IF Carries(t) /\ ~todo[t][1].sent THEN {todo[t][1].f.n} ELSE {}
\* One set of numbers is below another; the bytes of t rise along a wire.
Below(S, T) == \A a \in S, b \in T : a < b
Rising(q, t) ==
  \A i, j \in 1 .. Len(q) : i < j /\ IsByte(q[i], t) /\ IsByte(q[j], t) => q[i].n < q[j].n

\* What t has said to r is what r has received, then what is on its way, each byte in its
\* place and once.
Got(r) == 1 .. Len(taken[r])
\* Received, on r's wire, in the server's hands, on t's wire: in this order.
InOrder(t, r) ==
  /\ Rising(down[r], t) /\ Rising(up[t], t)
  /\ Below(Got(r), Num(down[r], t)) /\ Below(Got(r), Held(t)) /\ Below(Got(r), Num(up[t], t))
  /\ Below(Num(down[r], t), Held(t)) /\ Below(Num(down[r], t), Num(up[t], t))
  /\ Below(Held(t), Num(up[t], t))
\* No byte is missing, and none is invented.
Whole(t, r) == Got(r) \cup Num(down[r], t) \cup Held(t) \cup Num(up[t], t) = 1 .. said[t]
\* All r has received is from t, the n-th of it the n-th that t has said.
Chain(t, r) ==
  /\ \A i \in 1 .. Len(taken[r]) : taken[r][i] = <<t, i>>
  /\ Carries(t) => Dest(t) = r
  /\ InOrder(t, r) /\ Whole(t, r)

\* Player r's side of the pairing with t.
Ready(t, r) ==
  /\ r \notin ended /\ next[r] = "read"
  /\ \A i \in 1 .. Len(todo[r]) : todo[r][i].f.k # "joined"
  /\ SendsTo(t, r) => todo[t][1].f.k # "joined"
  /\ with[r] \in {Nobody, t} /\ (with[r] = Nobody => taken[r] = << >>)
\* The stream from t to r is in one of its phases.
Open(t, r) == Ready(t, r) /\ Chain(t, r) /\ (Together(t, r) \/ Leaves(t, r) \/ Left(t, r))
\* The stream from t to r: closed, lost, or open.
Stream(t, r) == r \in gone \/ screen[r] = "lost" \/ Open(t, r)

\* The server has just paired x with d, and is telling them so.
Expects(t, r) ==
  /\ r \notin ended /\ next[r] = "read" /\ line[r] = << >>
  /\ with[r] = Nobody /\ taken[r] = << >> /\ peer[r] = t /\ Strangers(t, r)
  /\ \A i \in 1 .. Len(down[r]) : down[r][i].k \notin News
\* The guest x has just been paired with the host d, and his coroutine runs: it tells the
\* host first, then the guest.
Meeting(d, x) ==
  /\ running = x /\ d \notin gone /\ with[d] = Nobody /\ with[x] = Nobody
  /\ x \notin gone => Expects(d, x)
  /\ \/ todo[x] = Tidings(x, d) /\ Expects(x, d)
     \/ todo[x] = <<Send(x, Frame("joined", d))>> /\ Stream(x, d)

\* A host who has closed before he was told of a pairing; and one with his first guest.
Void(d) == d \in gone /\ with[d] = Nobody
\* The host is gone, or he has met his one guest.
Matched(d, x) ==
  \/ Void(d)
  \/ /\ ~Opener(x) /\ with[d] \in {Nobody, x}
     /\ Meeting(d, x) \/ (Stream(x, d) /\ Stream(d, x))
\* A host has met nobody, or one guest.
MatchInv == \A d \in Client : Opener(d) => Untouched(d) \/ \E x \in Client \ {d} : Matched(d, x)

\* The invariant.
RelayInv == LoopInv /\ PairInv /\ AskInv /\ BaseInv /\ FreshInv /\ GuestInv /\ MatchInv

\* A frame is on its way to a player on his wire or in a coroutine's hands.
LEMMA Flying ==
  ASSUME NEW d, NEW f
  PROVE  f \in Flight(d) <=>
           \/ \E i \in 1 .. Len(down[d]) : down[d][i] = f
           \/ \E y \in Client : \E i \in 1 .. Len(todo[y]) : todo[y][i].to = d /\ todo[y][i].f = f
BY DEF Flight, Owed

\* A step of the server, by what it does.
Turns(c) ==
  \/ Writes(c) \/ Queue(c) \/ Skips(c) \/ Drops(c) \/ (\E kind : Answers(c, kind))
  \/ (\E h \in Client : Joins(c, h)) \/ Relay(c) \/ Done(c) \/ LostConnection(c)

\* The steps of the lobby, by what they do.
LEMMA StepKinds ==
  ASSUME LoopInv, AskInv, [Next]_vars
  PROVE  UNCHANGED vars \/ \E c \in Client :
           Turns(c) \/ GetHangUp(c) \/ (ClientReads(c) /\ ~GetHangUp(c)) \/ PlayerActs(c)
<1>1. ASSUME NEW c \in Client, LoopStep(c)
      PROVE  Turns(c)
  BY <1>1, CreateDoes, JoinDoes DEF LoopStep, Writes, Skips, Drops, Turns
<1>2. CASE Next
  BY <1>1, <1>2 DEF Next, ClientReads, Turns
<1> QED
  BY <1>2

\* What a departing player's last word is.
LEMMA LastWordDoes ==
  ASSUME TypeOK, NEW c \in Client, todo'[c] = LastWord(c), peer[c] # c
  PROVE  /\ \A i \in 1 .. Len(todo'[c]) :
              /\ i = 1 /\ peer[c] # Nobody /\ peer[c] \in Client /\ todo'[c][i].to = peer[c]
              /\ todo'[c][i].f = Frame("peer_left", c) /\ ~todo'[c][i].sent
         /\ peer[c] = Nobody => todo'[c] = << >>
         /\ peer[c] # Nobody => Len(todo'[c]) = 1 /\ todo'[c] # << >>
<1>1. peer[c] \in Client \cup {Nobody}
  BY Typed
<1>2. CASE peer[c] = Nobody
  BY <1>2 DEF LastWord
<1>3. CASE peer[c] # Nobody
  <2>1. todo'[c] = <<Send(peer[c], Frame("peer_left", c))>>
    BY <1>3 DEF LastWord
  <2> QED
    BY <1>1, <1>3, <2>1 DEF Send
<1> QED
  BY <1>2, <1>3

\* The news of a pairing, to both.
LEMMA TidingsAre ==
  ASSUME NEW c, NEW h
  PROVE  /\ Len(Tidings(c, h)) = 2 /\ Tidings(c, h) # << >>
         /\ Tidings(c, h)[1].to = h /\ Tidings(c, h)[1].f = Frame("joined", c) /\ ~Tidings(c, h)[1].sent
         /\ Tidings(c, h)[2].to = c /\ Tidings(c, h)[2].f = Frame("joined", h) /\ ~Tidings(c, h)[2].sent
         /\ Tidings(c, h)[2] = Send(c, Frame("joined", h))
BY DEF Tidings, Send

\* What a frame of the server's is.
LEMMA FrameIs ==
  ASSUME NEW k, NEW who
  PROVE  Frame(k, who).k = k /\ Frame(k, who).who = who
BY DEF Frame

\* What is left to be sent keeps its form, when the first frame is marked or done with.
LEMMA OwingLess ==
  ASSUME TypeOK, NEW c \in Client, Sending(c), Owing(c),
         todo' = SentOne(c) \/ todo' = [todo EXCEPT ![c][1].sent = TRUE],
         UNCHANGED <<with, opened, next>>
  PROVE  \A y \in Client : Owing(y) => Owing(y)'
<1>1. \A y \in Client \ {c} : todo'[y] = todo[y]
  BY SentOneDoes, MarkedDoes
<1>2. ASSUME NEW y \in Client \ {c}, Owing(y)
      PROVE  Owing(y)'
  BY <1>1, <1>2 DEF Owing, Opener
<1>3. CASE todo' = SentOne(c)
  <2>1. /\ Len(todo[c]) \in Nat /\ Len(todo'[c]) = Len(todo[c]) - 1
        /\ \A i \in 1 .. Len(todo'[c]) : i + 1 \in 1 .. Len(todo[c]) /\ todo'[c][i] = todo[c][i + 1]
    BY <1>3, SentOneDoes, Lengths
  <2> SUFFICES ASSUME NEW i \in 1 .. Len(todo'[c])
               PROVE  /\ todo'[c][i].to = c => todo'[c][i].f.k \in {"created", "error", "joined"}
                      /\ todo'[c][i].to # c => i = 1 /\ todo'[c][i].f.who = c /\ todo'[c][i].f.k \in News
                      /\ todo'[c][i].f.k = "joined" => ~Opener(c)'
                      /\ todo'[c][i].f.k = "byte" => with'[c] # Nobody
                      /\ todo'[c][i].f.k = "peer_left" => next'[c] # "read"
    BY <1>2 DEF Owing
  <2>2. i + 1 \in 1 .. Len(todo[c]) /\ todo'[c][i] = todo[c][i + 1] /\ i + 1 # 1
    BY <2>1
  <2> QED
    BY <2>2 DEF Owing, Opener
<1>4. CASE todo' = [todo EXCEPT ![c][1].sent = TRUE]
  BY <1>2, <1>4, MarkedDoes DEF Owing, Opener
<1> QED
  BY <1>3, <1>4

\* A session of a host who has not closed does not end.
LEMMA DropperGone ==
  ASSUME RelayInv, NEW c \in Client, Drops(c), c \notin gone
  PROVE  /\ ~Opener(c) /\ Sending(c) /\ todo[c][1].f.k = "joined"
         /\ Dest(c) \in Client /\ Dead(Dest(c)) /\ todo[c][1].sent
         /\ Dest(c) # c
<1>1. TypeOK /\ Ends(c) /\ Speaks(c) /\ Owing(c) /\ PairInv /\ LoopInv
  BY DEF RelayInv, BaseInv, LoopInv, TypeInv
<1>2. ~Takes(c, "leave")
  <2> SUFFICES ASSUME Takes(c, "leave") PROVE FALSE
    OBVIOUS
  <2>1. 1 \in 1 .. Len(up[c]) /\ up[c][1].k = "leave"
    BY <1>1, TakesDo
  <2> QED
    BY <1>1, <2>1 DEF Speaks
<1>3. /\ Sending(c) /\ Dest(c) \in Client /\ todo[c][1].sent /\ Dead(Dest(c)) /\ todo[c][1].f.k # "byte"
      /\ next[c] = "read"
  BY <1>1, <1>2, DropsDo DEF Ends
<1>4. 1 \in 1 .. Len(todo[c])
  BY <1>1, <1>3, FirstTypes
<1>5. todo[c][1].f.k \in {"created", "error", "joined"}
  BY <1>1, <1>3, <1>4 DEF Owing, News
<1>6. Dest(c) # c
  BY <1>1, <1>3 DEF Dead, Ends, Sending
<1>7. CASE todo[c][1].f.k = "joined"
  BY <1>1, <1>3, <1>4, <1>6, <1>7 DEF Owing
<1>8. CASE todo[c][1].f.k \in {"created", "error"}
  <2>1. Dest(c) = c
    BY <1>1, <1>4, <1>8 DEF Owing, Dest, News
  <2> QED
    BY <1>6, <2>1
<1> QED
  BY <1>5, <1>7, <1>8

\* A step of the sends leaves windows, counters and wires to the server as they are.
LEMMA EndsStay ==
  ASSUME UNCHANGED <<lost, gone, screen, with, said, opened, up, next, ended>>,
         NEW c \in Client, Ends(c), Speaks(c), c \in ended => todo'[c] = << >>
  PROVE  Ends(c)' /\ Speaks(c)'
BY DEF Ends, Speaks, Opener

\* A frame taken from a wire leaves the rest as it was.
LEMMA SpeaksLess ==
  ASSUME LoopInv, NEW c \in Client, NEW kind, Takes(c, kind), UNCHANGED <<opened, gone, with>>,
         NEW y \in Client, Speaks(y)
  PROVE  Speaks(y)'
<1>1. CASE y # c
  BY <1>1, TakesDo DEF Speaks, Opener
<1>2. CASE y = c
  <2>1. /\ Len(up[c]) \in Nat /\ Len(up'[c]) = Len(up[c]) - 1
        /\ \A i \in 1 .. Len(up'[c]) : i + 1 \in 1 .. Len(up[c]) /\ up'[c][i] = up[c][i + 1]
    BY TakesDo
  <2> SUFFICES ASSUME NEW i \in 1 .. Len(up'[c])
      PROVE  /\ up'[c][i].k = "create" => Opener(c)'
             /\ up'[c][i].k = "join" => ~Opener(c)'
             /\ up'[c][i].k = "leave" => c \in gone' /\ i = Len(up'[c])
             /\ up'[c][i].k = "byte" => up'[c][i].who = c /\ with'[c] # Nobody
    BY <1>2 DEF Speaks
  <2>2. i + 1 \in 1 .. Len(up[c]) /\ up'[c][i] = up[c][i + 1] /\ (i + 1 = Len(up[c]) => i = Len(up'[c]))
    BY <2>1
  <2> QED
    BY <1>2, <2>2 DEF Speaks, Opener
<1> QED
  BY <1>1, <1>2

\* The sends, a departure and what follows keep windows, counters and wires.
LEMMA TurnsEnds ==
  ASSUME RelayInv, NEW c \in Client, Turns(c),
         NEW y \in Client
  PROVE  Ends(y)' /\ Speaks(y)'
<1>0. TypeOK /\ LoopInv /\ PairInv /\ Ends(y) /\ Speaks(y) /\ Ends(c) /\ Speaks(c)
  BY DEF RelayInv, BaseInv, LoopInv, TypeInv
<1>1. CASE Writes(c)
  <2>1. UNCHANGED <<lost, gone, screen, with, said, opened, up, next, ended>> /\ Sending(c)
    BY <1>0, <1>1, WritesDo DEF ends, player
  <2>2. y \in ended => todo'[y] = << >>
    BY <1>0, <1>1, <2>1, WritesDo DEF Ends, Sending
  <2> QED
    BY <1>0, <2>1, <2>2, EndsStay
<1>2. CASE Queue(c)
  BY <1>0, <1>2, QueueDoes, EndsStay DEF ends, player, wires, Ends
<1>3. CASE Skips(c)
  <2>1. /\ UNCHANGED <<lost, gone, screen, with, said, opened, up, next, ended>>
        /\ Sending(c) /\ todo' = SentOne(c)
    BY <1>0, <1>3, SkipsDo DEF ends, player, wires
  <2>2. y \in ended => todo'[y] = << >>
    BY <1>0, <2>1, SentOneDoes DEF Ends, Sending
  <2> QED
    BY <1>0, <2>1, <2>2, EndsStay
<1>4. CASE Drops(c)
  <2>1. UNCHANGED <<lost, gone, screen, with, said, opened, ended>> /\ c \notin ended
    BY <1>0, <1>4, DropsDo DEF ends, player, Ends, Sending
  <2>2. CASE y # c
    <3>1. next'[y] = next[y] /\ todo'[y] = todo[y] /\ up'[y] = up[y]
      BY <1>0, <1>4, <2>2, DropsDo, TakesDo
    <3> QED
      BY <1>0, <2>1, <3>1 DEF Ends, Speaks, Opener
  <2>3. CASE y = c
    <3>1. Opener(c) => c \in gone
      BY <1>4, DropperGone
    <3>2. CASE Takes(c, "leave") /\ next'[c] = "unpair"
      <4>1. /\ 1 \in 1 .. Len(up[c]) /\ up[c][1].k = "leave" /\ Len(up'[c]) = Len(up[c]) - 1
            /\ Len(up[c]) \in Nat
        BY <1>0, <3>2, TakesDo
      <4>2. c \in gone /\ 1 = Len(up[c]) /\ Len(up'[c]) = 0
        <5>1. c \in gone /\ 1 = Len(up[c])
          BY <1>0, <4>1 DEF Speaks
        <5> QED
          BY <4>1, <5>1
      <4>3. up'[c] = << >>
        <5>1. /\ up[c] \in Seq(FrameOf) /\ up[c] # << >> /\ up \in [Client -> Seq(FrameOf)]
              /\ up' = [up EXCEPT ![c] = Tail(up[c])]
          BY <1>0, <3>2 DEF Takes, TypeOK
        <5>2. up'[c] \in Seq(FrameOf)
          BY <5>1, HeadTail
        <5> QED
          BY <4>2, <5>2
      <4>4. Ends(c)'
        BY <1>0, <2>1, <3>2, <4>2, <4>3 DEF Ends, Opener
      <4>5. Speaks(c)'
        BY <1>0, <2>1, <3>2, SpeaksLess
      <4> QED
        BY <2>3, <4>4, <4>5
    <3>3. CASE up' = up /\ next'[c] = "close"
      BY <1>0, <2>1, <2>3, <3>1, <3>3 DEF Ends, Speaks, Opener
    <3> QED
      BY <1>0, <1>4, <3>2, <3>3, DropsDo
  <2> QED
    BY <2>2, <2>3
<1>5. ASSUME NEW kind, Takes(c, kind), UNCHANGED <<next, ends, player>>,
             \A z \in Client \ {c} : todo'[z] = todo[z]
      PROVE  Ends(y)' /\ Speaks(y)'
  <2>1. Speaks(y)'
    BY <1>0, <1>5, SpeaksLess DEF player
  <2>2. c \notin ended /\ (y # c => up'[y] = up[y]) /\ next[c] = "read"
    BY <1>0, <1>5, TakesDo
  <2>3. Ends(y)'
    BY <1>0, <1>5, <2>2 DEF Ends, Opener, ends, player
  <2> QED
    BY <2>1, <2>3
<1>6. CASE (\E kind : Answers(c, kind)) \/ (\E h \in Client : Joins(c, h)) \/ Relay(c)
  BY <1>0, <1>5, <1>6, RelayDoes DEF Answers, Joins
<1>7. CASE Done(c)
  <2>1. Speaks(y)'
    BY <1>0, <1>7, DoneDoes DEF Speaks, Opener, wires, player
  <2>2. Ends(y)'
    BY <1>0, <1>7, DoneDoes DEF Ends, Opener, wires, player
  <2> QED
    BY <2>1, <2>2
<1>8. CASE LostConnection(c)
  BY <1>0, <1>8 DEF LostConnection, Ends, Speaks, Opener, tables, loop, wires, player
<1> QED
  BY <1>1, <1>2, <1>3, <1>4, <1>6, <1>7, <1>8 DEF Turns

\* What a client reads, and the hang-up it hears of.
LEMMA ClientEnds ==
  ASSUME RelayInv, NEW c \in Client, ClientReads(c), NEW y \in Client
  PROVE  Ends(y)' /\ Speaks(y)' /\ (with[y] # Nobody => with'[y] # Nobody)
<1>0. TypeOK /\ LoopInv /\ AskInv /\ FreshInv /\ Ends(y) /\ Speaks(y) /\ Ends(c)
  BY DEF RelayInv, BaseInv, LoopInv, TypeInv
<1>1. CASE GetHangUp(c)
  BY <1>0, <1>1, HangUpDoes DEF Ends, Speaks, Opener, tables, loop, wires, ends
<1>2. CASE ~GetHangUp(c)
  <2>1. PICK kind : Receives(c, kind)
    BY <1>0, <1>2, GetsDo
  <2>2. /\ c \notin gone /\ down[c][1] \in FrameOf /\ Nobody \notin Client
        /\ UNCHANGED <<next, todo, up, ended, lost, gone, opened, said>>
    BY <1>0, <2>1, ReceivesDo DEF loop, ends
  <2>3. screen[c] \in {"menu", "asked", "hosting", "linked", "lost", "closed"}
    BY <1>0, Typed
  <2>4. CASE GetsAnswer(c)
    BY <1>0, <2>2, <2>4 DEF Ends, Speaks, Opener, GetsAnswer
  <2>5. CASE GetsJoined(c)
    <3>1. down[c][1].who \in Client
      BY <2>2 DEF FrameOf
    <3> QED
      BY <1>0, <2>2, <2>3, <2>5, <3>1 DEF Ends, Speaks, Opener, GetsJoined
  <2>6. CASE GetsByte(c)
    BY <1>0, <2>2, <2>6 DEF Ends, Speaks, Opener, GetsByte
  <2>7. CASE GetsEnd(c)
    BY <1>0, <2>2, <2>3, <2>7 DEF Ends, Speaks, Opener, GetsEnd
  <2> QED
    BY <1>0, <1>2, <2>4, <2>5, <2>6, <2>7, GetsDo
<1> QED
  BY <1>1, <1>2

\* A player who may ask for a room has nothing to tell anybody of a pairing.
LEMMA FreshSilent ==
  ASSUME TypeOK, NEW c \in Client, Untouched(c), Owing(c), NEW i \in 1 .. Len(todo[c])
  PROVE  todo[c][i].f.k \notin News /\ todo[c][i].to = c
<1>1. todo[c][i] \in SendOf
  BY Lengths
<1>2. todo[c][i].to \in Client /\ todo[c][i].f.who \in Client /\ Nobody \notin Client
  BY <1>1 DEF SendOf, FrameOf
<1>3. todo[c][i].f \in Flight(todo[c][i].to)
  BY <1>2, Flying
<1>4. CASE todo[c][i].to = c
  BY <1>2, <1>3, <1>4 DEF Untouched, Hears
<1>5. CASE todo[c][i].to # c
  BY <1>2, <1>3, <1>5 DEF Untouched, Unknown, Owing
<1> QED
  BY <1>4, <1>5

\* What a player does.
LEMMA PlayerEnds ==
  ASSUME RelayInv, Patient, NEW c \in Client, PlayerActs(c), NEW y \in Client
  PROVE  Ends(y)' /\ Speaks(y)' /\ with' = with /\ (Opener(y) => Opener(y)')
         /\ (\A i \in 1 .. Len(todo[y]) : todo[y][i].f.k = "joined" => ~Opener(y)')
<1>0. /\ TypeOK /\ LoopInv /\ AskInv /\ FreshInv /\ Ends(y) /\ Speaks(y) /\ Ends(c) /\ Owing(y) /\ Owing(c)
      /\ opened[c] \in Nat /\ said[c] \in Nat /\ opened[y] \in Nat
  <2>1. TypeOK /\ LoopInv /\ AskInv /\ FreshInv /\ Ends(y) /\ Speaks(y) /\ Ends(c) /\ Owing(y) /\ Owing(c)
    BY DEF RelayInv, BaseInv, LoopInv, TypeInv
  <2> QED
    BY <2>1, Typed
<1>1. c \notin gone /\ UNCHANGED <<next, todo, ended, lost>>
  BY <1>0, ActsDo DEF loop, ends
<1>2. CASE y # c
  <2>1. /\ up'[y] = up[y] /\ screen'[y] = screen[y] /\ with'[y] = with[y] /\ said'[y] = said[y]
        /\ opened'[y] = opened[y] /\ (y \in gone' <=> y \in gone) /\ with' = with
    <3>1. ActsOpen(c) \/ ActsAsk(c) \/ ActsByte(c) \/ ActsClose(c)
      BY <1>0, ActsDo
    <3> QED
      BY <1>2, <3>1 DEF ActsOpen, ActsAsk, ActsByte, ActsClose, Puts
  <2>2. Ends(y)' /\ Speaks(y)'
    BY <1>0, <1>1, <2>1 DEF Ends, Speaks, Opener
  <2> QED
    BY <1>0, <2>1, <2>2 DEF Owing, Opener
<1>3. CASE y = c
  <2>1. CASE ActsOpen(c)
    <3>1. PICK n : Puts(c, [k |-> "create", who |-> c, n |-> n])
      BY <2>1 DEF ActsOpen
    <3>2. Opener(c)' /\ with' = with
      BY <1>0, <2>1 DEF ActsOpen, Opener
    <3>3. ~Has(up[c], "join")
      BY <1>0, <2>1 DEF ActsOpen, AskInv
    <3>4. Ends(c)'
      <4>1. screen[c] = "menu" => c \notin ended /\ next[c] = "read"
        BY <1>0, <1>1 DEF FreshInv, Asking, Untouched, Idle
      <4>2. c \notin ended /\ next[c] = "read"
        BY <1>0, <1>1, <2>1, <4>1 DEF ActsOpen, Ends
      <4> QED
        BY <1>0, <1>1, <2>1, <3>2, <4>2 DEF ActsOpen, Ends, Opener
    <3>5. Speaks(c)'
      <4> SUFFICES ASSUME NEW i \in 1 .. Len(up'[c])
          PROVE  /\ up'[c][i].k = "create" => Opener(c)'
                 /\ up'[c][i].k = "join" => ~Opener(c)'
                 /\ up'[c][i].k = "leave" => c \in gone' /\ i = Len(up'[c])
                 /\ up'[c][i].k = "byte" => up'[c][i].who = c /\ with'[c] # Nobody
        BY DEF Speaks
      <4>1. CASE i \in 1 .. Len(up[c])
        BY <1>0, <1>1, <1>3, <3>1, <3>2, <3>3, <4>1 DEF Speaks, Has, Puts
      <4>2. CASE i \notin 1 .. Len(up[c])
        <5>1. up'[c][i] = [k |-> "create", who |-> c, n |-> n]
          BY <3>1, <4>2 DEF Puts
        <5> QED
          BY <3>2, <5>1
      <4> QED
        BY <4>1, <4>2
    <3>6. \A i \in 1 .. Len(todo[c]) : todo[c][i].f.k # "joined"
      <4>1. CASE screen[c] = "menu"
        <5>1. Untouched(c)
          BY <1>0, <4>1 DEF FreshInv, Asking
        <5> QED
          BY <1>0, <5>1, FreshSilent DEF News
      <4>2. CASE screen[c] = "hosting"
        BY <1>0, <4>2 DEF Ends, Owing
      <4> QED
        BY <2>1, <4>1, <4>2 DEF ActsOpen
    <3> QED
      BY <1>3, <3>2, <3>4, <3>5, <3>6
  <2>2. CASE ActsAsk(c)
    <3>1. PICK h, n : Puts(c, [k |-> "join", who |-> h, n |-> n])
      BY <2>2 DEF ActsAsk
    <3>2. ~Opener(c) /\ ~Opener(c)' /\ with' = with
      BY <1>0, <2>2 DEF ActsAsk, Ends, Opener
    <3>4. Ends(c)'
      BY <1>0, <1>1, <2>2, <3>2 DEF ActsAsk, Ends
    <3>5. Speaks(c)'
      <4> SUFFICES ASSUME NEW i \in 1 .. Len(up'[c])
          PROVE  /\ up'[c][i].k = "create" => Opener(c)'
                 /\ up'[c][i].k = "join" => ~Opener(c)'
                 /\ up'[c][i].k = "leave" => c \in gone' /\ i = Len(up'[c])
                 /\ up'[c][i].k = "byte" => up'[c][i].who = c /\ with'[c] # Nobody
        BY DEF Speaks
      <4>1. CASE i \in 1 .. Len(up[c])
        BY <1>0, <1>1, <1>3, <3>1, <3>2, <4>1 DEF Speaks, Puts
      <4>2. CASE i \notin 1 .. Len(up[c])
        <5>1. up'[c][i] = [k |-> "join", who |-> h, n |-> n]
          BY <3>1, <4>2 DEF Puts
        <5> QED
          BY <3>2, <5>1
      <4> QED
        BY <4>1, <4>2
    <3> QED
      BY <1>0, <1>3, <3>2, <3>4, <3>5
  <2>3. CASE ActsByte(c)
    <3>1. Puts(c, [k |-> "byte", who |-> c, n |-> said[c] + 1])
      BY <2>3 DEF ActsByte
    <3>2. with' = with /\ with[c] # Nobody /\ (Opener(c) <=> Opener(c)')
      BY <1>0, <2>3 DEF ActsByte, Ends, Opener
    <3>4. Ends(c)'
      BY <1>0, <1>1, <2>3, <3>2 DEF ActsByte, Ends
    <3>5. Speaks(c)'
      <4> SUFFICES ASSUME NEW i \in 1 .. Len(up'[c])
          PROVE  /\ up'[c][i].k = "create" => Opener(c)'
                 /\ up'[c][i].k = "join" => ~Opener(c)'
                 /\ up'[c][i].k = "leave" => c \in gone' /\ i = Len(up'[c])
                 /\ up'[c][i].k = "byte" => up'[c][i].who = c /\ with'[c] # Nobody
        BY DEF Speaks
      <4>1. CASE i \in 1 .. Len(up[c])
        BY <1>0, <1>1, <1>3, <3>1, <3>2, <4>1 DEF Speaks, Puts
      <4>2. CASE i \notin 1 .. Len(up[c])
        <5>1. up'[c][i] = [k |-> "byte", who |-> c, n |-> said[c] + 1]
          BY <3>1, <4>2 DEF Puts
        <5> QED
          BY <3>2, <5>1
      <4> QED
        BY <4>1, <4>2
    <3> QED
      BY <1>0, <1>3, <3>2, <3>4, <3>5 DEF Owing
  <2>4. CASE ActsClose(c)
    <3>2. with' = with /\ (Opener(c) <=> Opener(c)') /\ c \in gone'
      BY <2>4 DEF ActsClose, Opener
    <3>4. Ends(c)'
      BY <1>0, <1>1, <2>4, <3>2 DEF ActsClose, Ends, Puts
    <3>5. Speaks(c)'
      <4>0. CASE up' = up
        BY <1>0, <1>3, <3>2, <4>0 DEF Speaks
      <4>4. CASE Puts(c, Frame("leave", c))
        <5> SUFFICES ASSUME NEW i \in 1 .. Len(up'[c])
            PROVE  /\ up'[c][i].k = "create" => Opener(c)'
                   /\ up'[c][i].k = "join" => ~Opener(c)'
                   /\ up'[c][i].k = "leave" => c \in gone' /\ i = Len(up'[c])
                   /\ up'[c][i].k = "byte" => up'[c][i].who = c /\ with'[c] # Nobody
          BY DEF Speaks
        <5>1. CASE i \in 1 .. Len(up[c])
          BY <1>0, <1>1, <1>3, <3>2, <4>4, <5>1 DEF Speaks, Puts
        <5>2. CASE i \notin 1 .. Len(up[c])
          <6>1. up'[c][i] = Frame("leave", c) /\ i = Len(up'[c])
            BY <4>4, <5>2 DEF Puts
          <6> QED
            BY <3>2, <6>1 DEF Frame
        <5> QED
          BY <5>1, <5>2
      <4> QED
        BY <2>4, <4>0, <4>4 DEF ActsClose
    <3> QED
      BY <1>0, <1>3, <3>2, <3>4, <3>5 DEF Owing
  <2> QED
    BY <1>0, <2>1, <2>2, <2>3, <2>4, ActsDo
<1> QED
  BY <1>2, <1>3

\* What the coroutines have still to send keeps its form.
LEMMA TurnsOwing ==
  ASSUME RelayInv, NEW c \in Client, Turns(c),
         NEW y \in Client
  PROVE  Owing(y)'
<1>0. TypeOK /\ LoopInv /\ PairInv /\ Owing(y) /\ Owing(c) /\ Speaks(c)
  BY DEF RelayInv, BaseInv, LoopInv, TypeInv
<1>1. CASE Writes(c)
  BY <1>0, <1>1, WritesDo, OwingLess DEF player
<1>2. CASE Queue(c)
  BY <1>0, <1>2, QueueDoes DEF player, Owing, Opener
<1>3. CASE Skips(c)
  BY <1>0, <1>3, SkipsDo, OwingLess DEF player
<1>4. CASE Drops(c)
  <2>1. todo'[c] = LastWord(c) /\ next'[c] # "read" /\ peer[c] # c /\ with' = with /\ opened' = opened
    BY <1>0, <1>4, DropsDo DEF player
  <2>2. CASE y = c
    BY <1>0, <2>1, <2>2, LastWordDoes, FrameIs DEF Owing, News
  <2>3. CASE y # c
    <3>1. todo'[y] = todo[y] /\ next'[y] = next[y]
      BY <1>0, <1>4, <2>3, DropsDo
    <3> QED
      BY <1>0, <2>1, <3>1 DEF Owing, Opener
  <2> QED
    BY <2>2, <2>3
<1>5. ASSUME y # c, todo'[y] = todo[y], UNCHANGED <<next, player>>
      PROVE  Owing(y)'
  BY <1>0, <1>5 DEF Owing, Opener, player
<1>6. ASSUME NEW kind, Answers(c, kind)
      PROVE  Owing(y)'
  <2>1. CASE y = c
    BY <1>6, <2>1, FrameIs DEF Answers, Owing, Send, News
  <2> QED
    BY <1>5, <1>6, <2>1 DEF Answers
<1>7. ASSUME NEW h \in Client, Joins(c, h)
      PROVE  Owing(y)'
  <2>1. CASE y = c
    <3>1. Takes(c, "join") /\ todo'[c] = Tidings(c, h) /\ opened' = opened
      BY <1>7 DEF Joins, player
    <3>2. 1 \in 1 .. Len(up[c]) /\ up[c][1].k = "join"
      BY <1>0, <3>1, TakesDo
    <3>3. ~Opener(c)'
      BY <1>0, <3>1, <3>2 DEF Speaks, Opener
    <3>4. Len(todo'[c]) = 2
      BY <3>1, TidingsAre
    <3>5. \A i \in 1 .. Len(todo'[c]) : i \in {1, 2}
      BY <3>4
    <3> QED
      BY <2>1, <3>1, <3>3, <3>5, TidingsAre, FrameIs DEF Owing, News
  <2> QED
    BY <1>5, <1>7, <2>1 DEF Joins
<1>8. CASE Relay(c)
  <2>1. CASE y = c
    <3>1. Takes(c, "byte") /\ with' = with /\ peer[c] # c
      BY <1>0, <1>8, RelayDoes DEF player, PairInv
    <3>2. 1 \in 1 .. Len(up[c]) /\ up[c][1].k = "byte"
      BY <1>0, <3>1, TakesDo
    <3>3. up[c][1].who = c /\ with[c] # Nobody
      BY <1>0, <3>2 DEF Speaks
    <3>4. todo'[c] = << >> \/ todo'[c] = <<Send(peer[c], up[c][1])>>
      BY <1>0, <1>8, RelayDoes
    <3> QED
      BY <2>1, <3>1, <3>2, <3>3, <3>4 DEF Owing, News, Send
  <2> QED
    BY <1>0, <1>5, <1>8, <2>1, RelayDoes
<1>9. CASE Done(c)
  <2>1. CASE y = c
    BY <1>0, <1>9, <2>1, DoneDoes DEF Owing
  <2>2. CASE y # c
    BY <1>0, <1>9, <2>2, DoneDoes DEF Owing, Opener, player
  <2> QED
    BY <2>1, <2>2
<1>10. CASE LostConnection(c)
  BY <1>0, <1>10 DEF LostConnection, Owing, Opener, loop, player
<1> QED
  BY <1>1, <1>2, <1>3, <1>4, <1>6, <1>7, <1>8, <1>9, <1>10 DEF Turns

\* A sequence of players whose first leaves it.
LEMMA InTail ==
  ASSUME NEW q \in Seq(Client), q # << >>, \A i, j \in 1 .. Len(q) : q[i] = q[j] => i = j
  PROVE  /\ \A i \in 1 .. Len(Tail(q)) : i + 1 \in 1 .. Len(q) /\ Tail(q)[i] = q[i + 1] /\ Tail(q)[i] # q[1]
         /\ \A i, j \in 1 .. Len(Tail(q)) : Tail(q)[i] = Tail(q)[j] => i = j
         /\ \A y : In(q, y) /\ y # q[1] => In(Tail(q), y)
<1>1. /\ Len(q) \in Nat \ {0} /\ Len(Tail(q)) = Len(q) - 1
      /\ \A i \in 1 .. Len(Tail(q)) : i + 1 \in 1 .. Len(q) /\ Tail(q)[i] = q[i + 1]
  BY HeadTail
<1>2. \A i \in 1 .. Len(Tail(q)) : Tail(q)[i] # q[1]
  <2> SUFFICES ASSUME NEW i \in 1 .. Len(Tail(q)), Tail(q)[i] = q[1] PROVE FALSE
    OBVIOUS
  <2>1. i + 1 \in 1 .. Len(q) /\ 1 \in 1 .. Len(q) /\ q[i + 1] = q[1]
    BY <1>1
  <2>2. i + 1 = 1
    BY <2>1
  <2> QED
    BY <2>2
<1>3. ASSUME NEW i \in 1 .. Len(Tail(q)), NEW j \in 1 .. Len(Tail(q)), Tail(q)[i] = Tail(q)[j]
      PROVE  i = j
  <2>1. i + 1 \in 1 .. Len(q) /\ j + 1 \in 1 .. Len(q) /\ q[i + 1] = q[j + 1]
    BY <1>1, <1>3
  <2>2. i + 1 = j + 1
    BY <2>1
  <2> QED
    BY <2>2
<1>4. ASSUME NEW y, In(q, y), y # q[1]
      PROVE  In(Tail(q), y)
  <2>1. PICK i \in 1 .. Len(q) : q[i] = y
    BY <1>4 DEF In
  <2>2. i # 1 /\ i - 1 \in 1 .. Len(Tail(q)) /\ (i - 1) + 1 = i
    BY <1>1, <1>4, <2>1
  <2>3. Tail(q)[i - 1] = q[i]
    BY <1>1, <2>2
  <2> QED
    BY <2>1, <2>2, <2>3 DEF In
<1> QED
  BY <1>1, <1>2, <1>3, <1>4

\* The lines at all the writers.
Lines == \A d \in Client : Lined(d) /\ Stands(d)

\* The first at a writer is done, and runs.
LEMMA HeadLeaves ==
  ASSUME TypeOK, Lines, NEW c \in Client, Sending(c), Dest(c) \in Client, NEW q \in Seq(Client),
         q # << >>, q[1] = c,
         (running = c /\ line[Dest(c)] = << >> /\ q = <<c>>) \/ (running = Nobody /\ q = line[Dest(c)]),
         line'[Dest(c)] = Tail(q), \A y \in Client \ {Dest(c)} : line'[y] = line[y],
         \A y \in Client \ {c} : todo'[y] = todo[y], running' = c
  PROVE  Lines'
<1>0. PICK d \in Client : d = Dest(c)
  OBVIOUS
<1>1. \A i, j \in 1 .. Len(q) : q[i] = q[j] => i = j
  BY DEF Lines, Lined
<1>2. /\ \A i \in 1 .. Len(Tail(q)) : i + 1 \in 1 .. Len(q) /\ Tail(q)[i] = q[i + 1] /\ Tail(q)[i] # c
      /\ \A i, j \in 1 .. Len(Tail(q)) : Tail(q)[i] = Tail(q)[j] => i = j
      /\ \A y : In(q, y) /\ y # c => In(Tail(q), y)
  BY <1>1, InTail
<1>3. \A y \in Client \ {c} :
        /\ \A e : SendsTo(y, e)' <=> SendsTo(y, e)
        /\ Dest(y)' = Dest(y) /\ (Sending(y)' <=> Sending(y))
  BY DEF SendsTo, Sending, Dest
<1>4. ASSUME NEW y \in Client PROVE Lined(y)'
  <2>1. \A i \in 1 .. Len(line[y]) : line[y][i] \in Client
    BY Lengths
  <2>2. CASE y # d
    <3>1. \A i \in 1 .. Len(line[y]) : line[y][i] # c
      BY <1>0, <2>2 DEF Lines, Lined, SendsTo
    <3>2. Lined(y)
      BY <1>0 DEF Lines
    <3>3. line'[y] = line[y]
      BY <1>0, <2>2
    <3> QED
      BY <1>0, <1>3, <2>1, <2>2, <3>1, <3>2, <3>3 DEF Lined
  <2>3. CASE y = d
    <3>1. line'[d] = Tail(q)
      BY <1>0
    <3>2. ASSUME NEW i \in 1 .. Len(Tail(q))
          PROVE  /\ todo'[Tail(q)[i]] # << >> /\ todo'[Tail(q)[i]][1].to = d
                 /\ Tail(q)[i] # running'
      <4>1. i + 1 \in 1 .. Len(q) /\ Tail(q)[i] = q[i + 1] /\ Tail(q)[i] # c
        BY <1>2, Zenon
      <4>5. i \in Nat \ {0}
        OBVIOUS
      <4>2. q = line[d]
        BY <1>0, <4>1, <4>5
      <4>3. SendsTo(q[i + 1], d) /\ q[i + 1] \in Client
        BY <2>1, <2>3, <4>1, <4>2 DEF Lines, Lined
      <4> QED
        BY <4>1, <4>3 DEF SendsTo, Sending, Dest
    <3>3. \A i \in 1 .. Len(line'[d]) :
            /\ todo'[line'[d][i]] # << >> /\ todo'[line'[d][i]][1].to = d
            /\ running' # line'[d][i]
      BY <3>1, <3>2
    <3>4. \A i, j \in 1 .. Len(line'[d]) : line'[d][i] = line'[d][j] => i = j
      BY <1>2, <3>1
    <3> QED
      BY <2>3, <3>3, <3>4 DEF Lined, SendsTo, Sending, Dest
  <2> QED
    BY <2>2, <2>3
<1>5. ASSUME NEW y \in Client PROVE Stands(y)'
  <2> SUFFICES ASSUME Sending(y)', y # c PROVE In(line[Dest(y)], y)'
    BY DEF Stands
  <2>1. Sending(y) /\ Dest(y)' = Dest(y) /\ running # y
    BY <1>3
  <2>2. In(line[Dest(y)], y) /\ Dest(y) \in Client
    BY <2>1, FirstTypes DEF Lines, Stands
  <2>3. CASE Dest(y) = d
    <3>1. q = line[d]
      BY <1>0, <2>2, <2>3 DEF In
    <3>2. In(Tail(q), y)
      BY <1>2, <2>2, <2>3, <3>1
    <3>3. line'[Dest(y)'] = Tail(q)
      BY <1>0, <2>1, <2>3
    <3> QED
      BY <3>2, <3>3, Zenon
  <2>4. CASE Dest(y) # d
    BY <1>0, <2>1, <2>2, <2>4
  <2> QED
    BY <2>3, <2>4
<1> QED
  BY <1>4, <1>5 DEF Lines

\* The first at a writer has written, and waits.
LEMMA HeadStays ==
  ASSUME TypeOK, Lines, NEW c \in Client, Sending(c), Dest(c) \in Client, NEW q \in Seq(Client),
         q # << >>, q[1] = c,
         (running = c /\ line[Dest(c)] = << >> /\ q = <<c>>) \/ (running = Nobody /\ q = line[Dest(c)]),
         line'[Dest(c)] = q, \A y \in Client \ {Dest(c)} : line'[y] = line[y],
         \A y \in Client \ {c} : todo'[y] = todo[y], Sending(c)', Dest(c)' = Dest(c), running' = Nobody
  PROVE  Lines'
<1>0. PICK d \in Client : d = Dest(c)
  OBVIOUS
<1>3. \A y \in Client :
        /\ \A e : SendsTo(y, e)' <=> SendsTo(y, e)
        /\ Dest(y)' = Dest(y) /\ (Sending(y)' <=> Sending(y))
  BY DEF SendsTo, Sending, Dest
<1>6. Nobody \notin Client /\ Len(q) \in Nat \ {0}
  BY HeadTail
<1>4. ASSUME NEW y \in Client PROVE Lined(y)'
  <2>1. \A i \in 1 .. Len(line[y]) : line[y][i] \in Client
    BY Lengths
  <2>2. CASE line'[y] = line[y]
    BY <1>3, <1>6, <2>1, <2>2 DEF Lines, Lined
  <2>3. CASE y = d /\ line'[y] = <<c>>
    <3>1. SendsTo(c, d)
      BY <1>0 DEF SendsTo
    <3> QED
      BY <1>3, <1>6, <2>3, <3>1 DEF Lined
  <2> QED
    BY <1>0, <2>2, <2>3
<1>5. ASSUME NEW y \in Client PROVE Stands(y)'
  <2> SUFFICES ASSUME Sending(y)' PROVE In(line[Dest(y)], y)'
    BY DEF Stands
  <2>1. CASE y = c
    <3>1. 1 \in 1 .. Len(q) /\ Dest(y)' = d
      BY <1>0, <1>6, <2>1
    <3> QED
      BY <1>0, <2>1, <3>1 DEF In
  <2>2. CASE y # c
    <3>1. Sending(y) /\ Dest(y)' = Dest(y) /\ running # y
      BY <1>3, <1>6, <2>2
    <3>2. In(line[Dest(y)], y) /\ Dest(y) \in Client
      BY <3>1, FirstTypes DEF Lines, Stands
    <3>3. Dest(y) = d => q = line[d]
      BY <1>0, <3>2 DEF In
    <3> QED
      BY <1>0, <3>1, <3>2, <3>3
  <2> QED
    BY <2>1, <2>2
<1> QED
  BY <1>4, <1>5 DEF Lines

\* Lines stay, and a coroutine that had nothing to send runs, or none does.
LEMMA LinesStay ==
  ASSUME TypeOK, Lines, NEW c \in Client, running \in {c, Nobody}, line' = line, todo[c] = << >>,
         \A y \in Client \ {c} : todo'[y] = todo[y],
         running' = c \/ (running' = Nobody /\ todo'[c] = << >>)
  PROVE  Lines'
<1>1. \A y \in Client \ {c} :
        /\ \A e : SendsTo(y, e)' <=> SendsTo(y, e)
        /\ Dest(y)' = Dest(y) /\ (Sending(y)' <=> Sending(y))
  BY DEF SendsTo, Sending, Dest
<1>2. ~Sending(c) /\ Nobody \notin Client
  BY DEF Sending
<1>3. ASSUME NEW y \in Client PROVE Lined(y)'
  <2>1. \A i \in 1 .. Len(line[y]) : line[y][i] \in Client \ {c}
    BY <1>2, Lengths DEF Lines, Lined, SendsTo
  <2> QED
    BY <1>1, <1>2, <2>1 DEF Lines, Lined
<1>4. ASSUME NEW y \in Client PROVE Stands(y)'
  <2>1. CASE y = c
    BY <2>1 DEF Stands, Sending
  <2>2. CASE y # c
    BY <1>1, <1>2, <2>2 DEF Lines, Stands
  <2> QED
    BY <2>1, <2>2
<1> QED
  BY <1>3, <1>4 DEF Lines

\* Nobody's coroutine has gone to the back of a line.
LEMMA LineGrows ==
  ASSUME LoopInv, Lines, NEW c \in Client, Queue(c)
  PROVE  Lines'
<1>0. /\ TypeOK /\ Sending(c) /\ Dest(c) \in Client /\ running = c /\ running' = Nobody /\ todo' = todo
      /\ line[Dest(c)] # << >> /\ line'[Dest(c)] = Append(line[Dest(c)], c)
      /\ \A y \in Client \ {Dest(c)} : line'[y] = line[y]
  BY QueueDoes
<1>1. PICK d \in Client : d = Dest(c)
  BY <1>0
<1>2. /\ Len(line[d]) \in Nat /\ Len(line'[d]) = Len(line[d]) + 1 /\ line'[d][Len(line[d]) + 1] = c
      /\ \A i \in 1 .. Len(line[d]) : line'[d][i] = line[d][i] /\ line[d][i] \in Client /\ line[d][i] # c
  <2>1. line[d] \in Seq(Client) /\ line'[d] = Append(line[d], c)
    BY <1>0, <1>1, Typed
  <2>2. \A i \in 1 .. Len(line[d]) : line[d][i] # c
    BY <1>0, <1>1 DEF Lines, Lined
  <2> QED
    BY <2>1, <2>2, Longer, Lengths
<1>3. Nobody \notin Client /\ SendsTo(c, d)
  BY <1>0, <1>1 DEF SendsTo
<1>4. \A y \in Client :
        /\ \A e : SendsTo(y, e)' <=> SendsTo(y, e)
        /\ Dest(y)' = Dest(y) /\ (Sending(y)' <=> Sending(y))
  BY <1>0 DEF SendsTo, Sending, Dest
<1>5. ASSUME NEW y \in Client PROVE Lined(y)'
  <2>1. CASE y # d
    <3>1. line'[y] = line[y] /\ \A i \in 1 .. Len(line[y]) : line[y][i] \in Client
      BY <1>0, <1>1, <2>1, Lengths
    <3> QED
      BY <1>0, <1>3, <1>4, <3>1 DEF Lines, Lined
  <2>2. CASE y = d
    <3>1. ASSUME NEW i \in 1 .. Len(line'[d])
          PROVE  SendsTo(line[d][i], d)' /\ running' # line'[d][i]
      <4>1. CASE i \in 1 .. Len(line[d])
        <5>1. line'[d][i] = line[d][i] /\ line[d][i] \in Client
          BY <1>2, <4>1
        <5>2. SendsTo(line[d][i], d)
          BY <4>1 DEF Lines, Lined
        <5> QED
          BY <1>0, <1>3, <1>4, <5>1, <5>2
      <4>2. CASE i = Len(line[d]) + 1
        BY <1>0, <1>2, <1>3, <1>4, <4>2
      <4> QED
        BY <1>2, <4>1, <4>2
    <3>2. ASSUME NEW i \in 1 .. Len(line'[d]), NEW j \in 1 .. Len(line'[d]), line'[d][i] = line'[d][j]
          PROVE  i = j
      <4>1. CASE i \in 1 .. Len(line[d]) /\ j \in 1 .. Len(line[d])
        BY <1>2, <3>2, <4>1 DEF Lines, Lined
      <4>2. CASE ~(i \in 1 .. Len(line[d]) /\ j \in 1 .. Len(line[d]))
        <5>0. i \in 1 .. Len(line[d]) + 1 /\ j \in 1 .. Len(line[d]) + 1
          BY <1>2
        <5>1. CASE i = Len(line[d]) + 1
          <6>1. line'[d][j] = c
            BY <1>2, <3>2, <5>1
          <6>2. j \notin 1 .. Len(line[d])
            BY <1>2, <6>1
          <6> QED
            BY <1>2, <5>0, <5>1, <6>2
        <5>2. CASE j = Len(line[d]) + 1
          <6>1. line'[d][i] = c
            BY <1>2, <3>2, <5>2
          <6>2. i \notin 1 .. Len(line[d])
            BY <1>2, <6>1
          <6> QED
            BY <1>2, <5>0, <5>2, <6>2
        <5> QED
          BY <1>2, <4>2, <5>0, <5>1, <5>2
      <4> QED
        BY <4>1, <4>2
    <3> QED
      BY <2>2, <3>1, <3>2 DEF Lined
  <2> QED
    BY <2>1, <2>2
<1>6. ASSUME NEW y \in Client PROVE Stands(y)'
  <2> SUFFICES ASSUME Sending(y)' PROVE In(line[Dest(y)], y)'
    BY DEF Stands
  <2>1. CASE y = c
    <3>1. Len(line[d]) + 1 \in 1 .. Len(line'[d])
      BY <1>2
    <3> QED
      BY <1>1, <1>2, <1>4, <2>1, <3>1 DEF In
  <2>2. CASE y # c
    <3>1. Sending(y) /\ Dest(y)' = Dest(y) /\ running # y
      BY <1>0, <1>4, <2>2
    <3>2. In(line[Dest(y)], y) /\ Dest(y) \in Client
      BY <1>0, <3>1, FirstTypes DEF Lines, Stands
    <3>3. CASE Dest(y) = d
      <4>1. PICK i \in 1 .. Len(line[d]) : line[d][i] = y
        BY <3>2, <3>3 DEF In
      <4>2. i \in 1 .. Len(line'[d]) /\ line'[d][i] = y
        BY <1>2, <4>1
      <4> QED
        BY <3>1, <3>3, <4>2 DEF In
    <3>4. CASE Dest(y) # d
      BY <1>0, <1>1, <3>1, <3>2, <3>4
    <3> QED
      BY <3>3, <3>4
  <2> QED
    BY <2>1, <2>2
<1> QED
  BY <1>5, <1>6 DEF Lines

\* What every step of the server leaves of the lines.
LEMMA TurnsLines ==
  ASSUME RelayInv, NEW c \in Client, Turns(c)
  PROVE  Lines'
<1>0. TypeOK /\ LoopInv /\ PairInv /\ Lines /\ Nobody \notin Client
  BY DEF RelayInv, BaseInv, LoopInv, TypeInv, Lines
<1>1. CASE Writes(c)
  <2>1. /\ Sending(c) /\ Dest(c) \in Client
        /\ \A y \in Client \ {c} : todo'[y] = todo[y]
        /\ \A y \in Client \ {Dest(c)} : line'[y] = line[y]
    BY <1>0, <1>1, WritesDo
  <2>2. PICK queue \in Seq(Client) :
              /\ queue # << >> /\ queue[1] = c
              /\ (running = c /\ line[Dest(c)] = << >> /\ queue = <<c>>)
                   \/ (running = Nobody /\ line[Dest(c)] # << >> /\ queue = line[Dest(c)])
              /\ \/ /\ todo' = [todo EXCEPT ![c][1].sent = TRUE] /\ running' = Nobody
                    /\ line'[Dest(c)] = queue
                 \/ /\ todo' = SentOne(c) /\ running' = c /\ line'[Dest(c)] = Tail(queue)
    BY <1>0, <1>1, WritesDo
  <2>3. CASE todo' = SentOne(c) /\ running' = c /\ line'[Dest(c)] = Tail(queue)
    BY <1>0, <2>1, <2>2, <2>3, HeadLeaves
  <2>4. CASE todo' = [todo EXCEPT ![c][1].sent = TRUE] /\ running' = Nobody /\ line'[Dest(c)] = queue
    <3>1. Sending(c)' /\ Dest(c)' = Dest(c)
      <4>1. 1 \in 1 .. Len(todo[c]) /\ Len(todo'[c]) = Len(todo[c]) /\ todo'[c][1].to = todo[c][1].to
        BY <1>0, <2>1, <2>4, FirstTypes, MarkedDoes
      <4> QED
        BY <4>1 DEF Sending, Dest
    <3> QED
      BY <1>0, <2>1, <2>2, <2>4, <3>1, HeadStays
  <2> QED
    BY <2>2, <2>3, <2>4
<1>2. CASE Queue(c)
  BY <1>0, <1>2, LineGrows
<1>3. CASE Skips(c)
  <2>1. /\ Sending(c) /\ Dest(c) \in Client /\ running = Nobody /\ running' = c
        /\ \A y \in Client \ {c} : todo'[y] = todo[y]
        /\ line[Dest(c)] \in Seq(Client) /\ line[Dest(c)] # << >> /\ line[Dest(c)][1] = c
        /\ line'[Dest(c)] = Tail(line[Dest(c)])
        /\ \A y \in Client \ {Dest(c)} : line'[y] = line[y]
    BY <1>0, <1>3, SkipsDo, SentOneDoes
  <2> QED
    BY <1>0, <2>1, HeadLeaves
<1>4. CASE Drops(c)
  <2>1. /\ running = Nobody /\ running' = c /\ \A y \in Client \ {c} : todo'[y] = todo[y]
    BY <1>0, <1>4, DropsDo
  <2>2. CASE todo[c] = << >> /\ line' = line
    BY <1>0, <2>1, <2>2, LinesStay
  <2>3. CASE ~(todo[c] = << >> /\ line' = line)
    <3>1. /\ Sending(c) /\ Dest(c) \in Client
          /\ line[Dest(c)] \in Seq(Client) /\ line[Dest(c)] # << >> /\ line[Dest(c)][1] = c
          /\ line'[Dest(c)] = Tail(line[Dest(c)])
          /\ \A y \in Client \ {Dest(c)} : line'[y] = line[y]
      BY <1>0, <1>4, <2>3, DropsDo
    <3> QED
      BY <1>0, <2>1, <3>1, HeadLeaves
  <2> QED
    BY <2>2, <2>3
<1>5. ASSUME NEW kind, Answers(c, kind)
      PROVE  Lines'
  <2>1. running = Nobody /\ running' = c /\ todo[c] = << >>
    BY <1>0, <1>5, TakesDo DEF Answers
  <2>2. line' = line /\ \A y \in Client \ {c} : todo'[y] = todo[y]
    BY <1>5 DEF Answers
  <2> QED
    BY <1>0, <2>1, <2>2, LinesStay
<1>6. ASSUME NEW h \in Client, Joins(c, h)
      PROVE  Lines'
  <2>1. running = Nobody /\ running' = c /\ todo[c] = << >>
    BY <1>0, <1>6, TakesDo DEF Joins
  <2>2. line' = line /\ \A y \in Client \ {c} : todo'[y] = todo[y]
    BY <1>6 DEF Joins
  <2> QED
    BY <1>0, <2>1, <2>2, LinesStay
<1>7. CASE Relay(c)
  <2>1. Takes(c, "byte") /\ line' = line /\ \A y \in Client \ {c} : todo'[y] = todo[y]
    BY <1>0, <1>7, RelayDoes
  <2>2. running = Nobody /\ running' = c /\ todo[c] = << >>
    BY <1>0, <2>1, TakesDo
  <2> QED
    BY <1>0, <2>1, <2>2, LinesStay
<1>8. CASE Done(c)
  <2>1. running = c /\ todo[c] = << >> /\ running' = Nobody /\ todo' = todo /\ line' = line
    BY <1>0, <1>8, DoneDoes
  <2> QED
    BY <1>0, <2>1, LinesStay
<1>9. CASE LostConnection(c)
  BY <1>0, <1>9 DEF LostConnection, Lines, Lined, Stands, SendsTo, Sending, Dest, In, loop
<1> QED
  BY <1>1, <1>2, <1>3, <1>4, <1>5, <1>6, <1>7, <1>8, <1>9 DEF Turns

\* A step of the server leaves the players alone.
LEMMA TurnsPlayer ==
  ASSUME RelayInv, NEW c \in Client, Turns(c)
  PROVE  UNCHANGED player /\ TypeOK
<1>0. LoopInv /\ PairInv /\ TypeOK
  BY DEF RelayInv, LoopInv, TypeInv
<1> QED
  BY <1>0, WritesDo, QueueDoes, SkipsDo, DropsDo, RelayDoes, DoneDoes
  DEF Turns, Answers, Joins, LostConnection

\* The rooms in the list are of players who have opened one.
LEMMA TurnsRooms ==
  ASSUME RelayInv, NEW c \in Client, Turns(c)
  PROVE  \A r \in games' : Opener(Host(r))'
<1>0. LoopInv /\ PairInv /\ TypeOK /\ (\A r \in games : Opener(Host(r))) /\ Speaks(c)
  BY DEF RelayInv, LoopInv, TypeInv, BaseInv
<1>1. \A d : Opener(d)' <=> Opener(d)
  BY TurnsPlayer DEF player, Opener
<1>2. CASE \E n : games' = games \cup {<<c, n>>} /\ Takes(c, "create")
  <2>1. Opener(c)
    BY <1>0, <1>2, TakesDo DEF Speaks
  <2> QED
    BY <1>0, <1>1, <1>2, <2>1 DEF Host
<1>3. CASE games' \subseteq games
  BY <1>0, <1>1, <1>3
<1>4. games' \subseteq games \/ \E n : games' = games \cup {<<c, n>>} /\ Takes(c, "create")
  <2>1. Writes(c) \/ Queue(c) \/ Skips(c) \/ Drops(c) \/ Relay(c) \/ Done(c) => games' \subseteq games
    BY <1>0, WritesDo, QueueDoes, SkipsDo, DropsDo, RelayDoes, DoneDoes DEF tables
  <2> QED
    BY <2>1 DEF Turns, Answers, Joins, LostConnection, tables
<1> QED
  BY <1>2, <1>3, <1>4

\* What a client's step leaves of the server.
LEMMA ClientBase ==
  ASSUME RelayInv, Patient, NEW c \in Client, ClientReads(c) \/ PlayerActs(c)
  PROVE  /\ UNCHANGED <<tables, loop, ends>> /\ running = Nobody
         /\ \A y \in Client : /\ Ends(y)' /\ Speaks(y)' /\ (with[y] # Nobody => with'[y] # Nobody)
                              /\ Opener(y) => Opener(y)'
                              /\ \A i \in 1 .. Len(todo[y]) : todo[y][i].f.k = "joined" => ~Opener(y)'
<1>0. LoopInv /\ PairInv /\ TypeOK /\ \A y \in Client : Owing(y)
  BY DEF RelayInv, LoopInv, TypeInv, BaseInv
<1>1. CASE ClientReads(c)
  <2>1. UNCHANGED <<tables, loop, ends, opened>> /\ running = Nobody
    BY <1>0, <1>1, HangUpDoes, GetsDo, ReceivesDo
  <2> QED
    BY <1>0, <1>1, <2>1, ClientEnds DEF Owing, Opener
<1>2. CASE PlayerActs(c)
  <2>1. UNCHANGED <<tables, loop, ends>> /\ running = Nobody
    BY <1>0, <1>2, ActsDo
  <2> QED
    BY <1>0, <1>2, <2>1, PlayerEnds
<1> QED
  BY <1>1, <1>2

\* The players' windows, the wires to the server and the coroutines keep their form.
LEMMA NextBase ==
  ASSUME RelayInv, Patient, [Next]_vars
  PROVE  BaseInv'
<1>0. LoopInv /\ AskInv /\ BaseInv
  BY DEF RelayInv
<1>1. ASSUME NEW c \in Client, Turns(c)
      PROVE  BaseInv'
  <2>1. Lines'
    BY <1>1, TurnsLines
  <2>2. \A y \in Client : Ends(y)' /\ Speaks(y)' /\ Owing(y)'
    BY <1>1, TurnsEnds, TurnsOwing
  <2>3. \A r \in games' : Opener(Host(r))'
    BY <1>1, TurnsRooms
  <2> QED
    BY <2>1, <2>2, <2>3 DEF BaseInv, Lines
<1>2. ASSUME NEW c \in Client, ClientReads(c) \/ PlayerActs(c)
      PROVE  BaseInv'
  <2>1. /\ UNCHANGED <<games, todo, next, line, running>>
        /\ \A y \in Client : /\ Ends(y)' /\ Speaks(y)' /\ (with[y] # Nobody => with'[y] # Nobody)
                             /\ Opener(y) => Opener(y)'
                             /\ \A i \in 1 .. Len(todo[y]) : todo[y][i].f.k = "joined" => ~Opener(y)'
    BY <1>2, ClientBase DEF tables, loop
  <2>2. \A y \in Client : Owing(y)'
    BY <1>0, <2>1 DEF BaseInv, Owing
  <2>3. \A y \in Client : Lined(y)' /\ Stands(y)'
    BY <1>0, <2>1 DEF BaseInv, Lined, Stands, SendsTo, Sending, Dest, In
  <2>4. \A r \in games : Host(r) \in Client
    BY <1>0 DEF LoopInv, TypeInv, TypeOK, Room, Host
  <2>5. \A r \in games' : Opener(Host(r))'
    BY <1>0, <2>1, <2>4 DEF BaseInv, Host, Opener
  <2> QED
    BY <2>1, <2>2, <2>3, <2>5 DEF BaseInv
<1>3. CASE UNCHANGED vars
  BY <1>0, <1>3 DEF BaseInv, Ends, Speaks, Owing, Lined, Stands, SendsTo, Sending, Dest, In, Opener, Host,
     vars, tables, loop, wires, ends, player
<1> QED
  BY <1>0, <1>1, <1>2, <1>3, StepKinds DEF ClientReads

\* What is on its way to a player after a step that takes, writes or forgets frames.
LEMMA FlightLess ==
  ASSUME \A y \in Client : \A i \in 1 .. Len(down'[y]) : down'[y][i] \in Flight(y),
         \A y \in Client : \A i \in 1 .. Len(todo'[y]) :
           \E j \in 1 .. Len(todo[y]) : todo[y][j].to = todo'[y][i].to /\ todo[y][j].f = todo'[y][i].f,
         NEW d \in Client, NEW f \in Flight(d)'
  PROVE  f \in Flight(d)
<1>1. CASE \E i \in 1 .. Len(down'[d]) : down'[d][i] = f
  BY <1>1
<1>2. CASE \E y \in Client : \E i \in 1 .. Len(todo'[y]) : todo'[y][i].to = d /\ todo'[y][i].f = f
  <2>1. PICK y \in Client : \E i \in 1 .. Len(todo'[y]) : todo'[y][i].to = d /\ todo'[y][i].f = f
    BY <1>2
  <2>2. PICK i \in 1 .. Len(todo'[y]) : todo'[y][i].to = d /\ todo'[y][i].f = f
    BY <2>1
  <2>3. PICK j \in 1 .. Len(todo[y]) : todo[y][j].to = d /\ todo[y][j].f = f
    BY <2>2
  <2> QED
    BY <2>3, Flying
<1> QED
  BY <1>1, <1>2 DEF Flight, Owed

\* What a coroutine takes on is on its way; the rest was.
LEMMA FlightMore ==
  ASSUME NEW c \in Client, down' = down, \A y \in Client \ {c} : todo'[y] = todo[y],
         NEW d \in Client, NEW f \in Flight(d)'
  PROVE  f \in Flight(d) \/ \E i \in 1 .. Len(todo'[c]) : todo'[c][i].to = d /\ todo'[c][i].f = f
<1>1. CASE \E i \in 1 .. Len(down'[d]) : down'[d][i] = f
  BY <1>1, Flying
<1>2. CASE \E y \in Client : \E i \in 1 .. Len(todo'[y]) : todo'[y][i].to = d /\ todo'[y][i].f = f
  BY <1>2, Flying
<1> QED
  BY <1>1, <1>2 DEF Flight, Owed

\* The news on its way after a step.
LEMMA TurnsFlight ==
  ASSUME RelayInv, NEW c \in Client, Turns(c), NEW d \in Client, NEW f \in Flight(d)', f.k \in News
  PROVE  \/ f \in Flight(d)
         \/ d = peer[c] /\ f.who = c /\ f.k # "joined"
         \/ \E h \in Client : /\ Joins(c, h)
                              /\ (d = h /\ f = Frame("joined", c)) \/ (d = c /\ f = Frame("joined", h))
<1>0. TypeOK /\ LoopInv /\ PairInv /\ Owing(c) /\ Speaks(c)
  BY DEF RelayInv, BaseInv, LoopInv, TypeInv
<1>1. CASE Writes(c)
  <2>1. /\ Sending(c) /\ Dest(c) \in Client
        /\ \A y \in Client \ {c} : todo'[y] = todo[y]
        /\ \A y \in Client \ {Dest(c)} : down'[y] = down[y]
        /\ down'[Dest(c)] = down[Dest(c)] \/ down'[Dest(c)] = Append(down[Dest(c)], todo[c][1].f)
        /\ todo' = [todo EXCEPT ![c][1].sent = TRUE] \/ todo' = SentOne(c)
    BY <1>0, <1>1, WritesDo
  <2>2. 1 \in 1 .. Len(todo[c]) /\ todo[c][1].f \in FrameOf /\ todo[c][1].to = Dest(c)
    BY <1>0, <2>1, FirstTypes DEF Dest
  <2>3. \A y \in Client : \A i \in 1 .. Len(down'[y]) : down'[y][i] \in Flight(y)
    <3> SUFFICES ASSUME NEW y \in Client, NEW i \in 1 .. Len(down'[y])
                 PROVE  down'[y][i] \in Flight(y)
      OBVIOUS
    <3>1. CASE down'[y] = down[y]
      BY <3>1, Flying
    <3>2. CASE y = Dest(c) /\ down'[y] = Append(down[y], todo[c][1].f)
      <4>1. down[y] \in Seq(FrameOf)
        BY <1>0, Typed
      <4>2. i \in 1 .. Len(down[y]) \/ i = Len(down[y]) + 1
        BY <2>2, <3>2, <4>1, Longer
      <4>3. CASE i \in 1 .. Len(down[y])
        BY <2>2, <3>2, <4>1, <4>3, Longer, Flying
      <4>4. CASE i = Len(down[y]) + 1
        <5>1. down'[y][i] = todo[c][1].f
          BY <2>2, <3>2, <4>1, <4>4, Longer
        <5> QED
          BY <2>2, <3>2, <5>1, Flying
      <4> QED
        BY <4>2, <4>3, <4>4
    <3> QED
      BY <2>1, <3>1, <3>2
  <2>4. \A y \in Client : \A i \in 1 .. Len(todo'[y]) :
           \E j \in 1 .. Len(todo[y]) : todo[y][j].to = todo'[y][i].to /\ todo[y][j].f = todo'[y][i].f
    <3> SUFFICES ASSUME NEW y \in Client, NEW i \in 1 .. Len(todo'[y])
        PROVE  \E j \in 1 .. Len(todo[y]) : todo[y][j].to = todo'[y][i].to /\ todo[y][j].f = todo'[y][i].f
      OBVIOUS
    <3>1. CASE y # c
      BY <2>1, <3>1
    <3>2. CASE todo' = SentOne(c)
      BY <1>0, <2>1, <3>1, <3>2, SentOneDoes
    <3>3. CASE y = c /\ todo' = [todo EXCEPT ![c][1].sent = TRUE]
      <4>1. i \in 1 .. Len(todo[c]) /\ todo'[c][i].f = todo[c][i].f /\ todo'[c][i].to = todo[c][i].to
        BY <1>0, <2>1, <3>3, MarkedDoes
      <4> QED
        BY <3>3, <4>1
    <3> QED
      BY <2>1, <3>1, <3>2, <3>3
  <2> QED
    BY <2>3, <2>4, FlightLess
<1>2. CASE Skips(c)
  <2>1. Sending(c) /\ todo' = SentOne(c) /\ down' = down
    BY <1>0, <1>2, SkipsDo DEF wires
  <2>2. \A y \in Client : \A i \in 1 .. Len(down'[y]) : down'[y][i] \in Flight(y)
    BY <2>1, Flying
  <2>3. \A y \in Client : \A i \in 1 .. Len(todo'[y]) :
           \E j \in 1 .. Len(todo[y]) : todo[y][j].to = todo'[y][i].to /\ todo[y][j].f = todo'[y][i].f
    BY <1>0, <2>1, SentOneDoes
  <2> QED
    BY <2>2, <2>3, FlightLess
<1>3. CASE UNCHANGED <<todo, down>>
  BY <1>3, FlightMore, Flying
<1>4. CASE Drops(c)
  <2>1. down' = down /\ (\A y \in Client \ {c} : todo'[y] = todo[y]) /\ todo'[c] = LastWord(c) /\ peer[c] # c
    BY <1>0, <1>4, DropsDo
  <2>2. CASE \E i \in 1 .. Len(todo'[c]) : todo'[c][i].to = d /\ todo'[c][i].f = f
    BY <1>0, <2>1, <2>2, LastWordDoes, FrameIs
  <2> QED
    BY <2>1, <2>2, FlightMore
<1>5. ASSUME NEW kind, Answers(c, kind) PROVE f \in Flight(d)
  <2>1. /\ down' = down /\ (\A y \in Client \ {c} : todo'[y] = todo[y])
        /\ todo'[c] = <<Send(c, Frame(kind, c))>> /\ kind \in {"created", "error"}
    BY <1>5 DEF Answers
  <2>2. ASSUME NEW i \in 1 .. Len(todo'[c]) PROVE todo'[c][i].f # f
    BY <2>1, FrameIs DEF Send, News
  <2> QED
    BY <2>1, <2>2, FlightMore
<1>6. ASSUME NEW h \in Client, Joins(c, h)
      PROVE  f \in Flight(d) \/ (d = h /\ f = Frame("joined", c)) \/ (d = c /\ f = Frame("joined", h))
  <2>1. down' = down /\ (\A y \in Client \ {c} : todo'[y] = todo[y]) /\ todo'[c] = Tidings(c, h)
    BY <1>6 DEF Joins
  <2>2. CASE \E i \in 1 .. Len(todo'[c]) : todo'[c][i].to = d /\ todo'[c][i].f = f
    <3>1. PICK i \in 1 .. Len(todo'[c]) : todo'[c][i].to = d /\ todo'[c][i].f = f
      BY <2>2
    <3>2. i = 1 \/ i = 2
      <4>1. Len(todo'[c]) = 2
        BY <2>1, TidingsAre
      <4> QED
        BY <4>1
    <3> QED
      BY <2>1, <3>1, <3>2, TidingsAre
  <2> QED
    BY <2>1, <2>2, FlightMore
<1>7. CASE Relay(c)
  <2>1. /\ down' = down /\ (\A y \in Client \ {c} : todo'[y] = todo[y]) /\ Takes(c, "byte")
        /\ todo'[c] = IF peer[c] = Nobody THEN << >> ELSE <<Send(peer[c], up[c][1])>>
    BY <1>0, <1>7, RelayDoes
  <2>2. up[c][1].k = "byte" /\ up[c][1].who = c
    BY <1>0, <2>1, TakesDo DEF Speaks
  <2>3. CASE \E i \in 1 .. Len(todo'[c]) : todo'[c][i].to = d /\ todo'[c][i].f = f
    BY <2>1, <2>2, <2>3 DEF Send
  <2> QED
    BY <2>1, <2>3, FlightMore
<1>8. Queue(c) \/ Done(c) \/ LostConnection(c) => UNCHANGED <<todo, down>>
  BY <1>0, QueueDoes, DoneDoes DEF LostConnection, loop, wires
<1> QED
  BY <1>1, <1>2, <1>3, <1>4, <1>5, <1>6, <1>7, <1>8 DEF Turns

\* A client takes frames, or forgets them.
LEMMA ClientFlight ==
  ASSUME RelayInv, Patient, NEW c \in Client, ClientReads(c) \/ PlayerActs(c),
         NEW d \in Client, NEW f \in Flight(d)'
  PROVE  f \in Flight(d)
<1>0. TypeOK /\ LoopInv
  BY DEF RelayInv, LoopInv, TypeInv
<1>1. todo' = todo
  BY ClientBase DEF loop
<1>2. \A y \in Client : \A i \in 1 .. Len(down'[y]) : down'[y][i] \in Flight(y)
  <2> SUFFICES ASSUME NEW y \in Client, NEW i \in 1 .. Len(down'[y])
               PROVE  down'[y][i] \in Flight(y)
    OBVIOUS
  <2>1. CASE down'[y] = down[y]
    BY <2>1, Flying
  <2>2. CASE \A j \in 1 .. Len(down'[y]) : \E k \in 1 .. Len(down[y]) : down'[y][j] = down[y][k]
    <3>1. PICK k \in 1 .. Len(down[y]) : down'[y][i] = down[y][k]
      BY <2>2
    <3> QED
      BY <3>1, Flying
  <2>3. CASE PlayerActs(c)
    <3>1. ActsOpen(c) \/ ActsAsk(c) \/ ActsByte(c) \/ ActsClose(c)
      BY <1>0, <2>3, ActsDo
    <3>2. down'[y] = down[y] \/ down'[y] = << >>
      BY <3>1 DEF ActsOpen, ActsAsk, ActsByte, ActsClose
    <3>3. CASE down'[y] = << >>
      BY <3>3
    <3> QED
      BY <2>1, <3>2, <3>3
  <2>4. CASE GetHangUp(c)
    BY <1>0, <2>1, <2>4, HangUpDoes DEF wires
  <2>5. CASE ClientReads(c) /\ ~GetHangUp(c)
    <3>1. PICK kind : Receives(c, kind)
      BY <1>0, <2>5, GetsDo
    <3> QED
      BY <1>0, <2>1, <2>2, <3>1, ReceivesDo
  <2> QED
    BY <2>3, <2>4, <2>5
<1> QED
  BY <1>1, <1>2, FlightLess

\* What a player believes and has received comes from what was on its way to him.
LEMMA HeardFrom ==
  ASSUME RelayInv, Patient, NEW c \in Client, ClientReads(c) \/ PlayerActs(c), NEW y \in Client
  PROVE  /\ with'[y] = with[y] \/ \E f \in Flight(y) : f.k = "joined" /\ with'[y] = f.who
         /\ \A i \in 1 .. Len(taken'[y]) :
              \/ i \in 1 .. Len(taken[y]) /\ taken'[y][i] = taken[y][i]
              \/ \E f \in Flight(y) : f.k = "byte" /\ taken'[y][i][1] = f.who
<1>0. TypeOK /\ LoopInv
  BY DEF RelayInv, LoopInv, TypeInv
<1>1. CASE PlayerActs(c)
  BY <1>0, <1>1, ActsDo DEF ActsOpen, ActsAsk, ActsByte, ActsClose
<1>2. CASE GetHangUp(c)
  BY <1>0, <1>2, HangUpDoes
<1>3. CASE ClientReads(c) /\ ~GetHangUp(c)
  <2>1. PICK kind : Receives(c, kind)
    BY <1>0, <1>3, GetsDo
  <2>2. down[c][1] \in Flight(c) /\ 1 \in 1 .. Len(down[c])
    BY <1>0, <2>1, ReceivesDo, Flying
  <2>3. CASE GetsAnswer(c) \/ GetsEnd(c)
    <3>1. with' = with /\ (taken'[y] = taken[y] \/ taken'[y] = << >>)
      BY <2>3 DEF GetsAnswer, GetsEnd
    <3> QED
      BY <3>1
  <2>4. CASE GetsJoined(c)
    <3>1. taken'[y] = taken[y] \/ taken'[y] = << >>
      BY <2>4 DEF GetsJoined
    <3>2. with'[y] = with[y] \/ (y = c /\ down[c][1].k = "joined" /\ with'[y] = down[c][1].who)
      BY <2>4 DEF GetsJoined
    <3> QED
      BY <2>2, <3>1, <3>2
  <2>5. CASE GetsByte(c)
    <3>1. CASE y # c
      BY <2>5, <3>1 DEF GetsByte
    <3>2. CASE y = c
      <4>1. /\ taken[c] \in Seq(Client \X Nat) /\ down[c][1] \in FrameOf /\ down[c][1].k = "byte"
            /\ with' = with
            /\ taken'[c] = Append(taken[c], <<down[c][1].who, down[c][1].n>>)
        BY <1>0, <2>1, <2>5, ReceivesDo, Typed DEF GetsByte
      <4>2. <<down[c][1].who, down[c][1].n>> \in Client \X Nat
        BY <4>1 DEF FrameOf
      <4>3. /\ Len(taken'[c]) = Len(taken[c]) + 1 /\ Len(taken[c]) \in Nat
            /\ taken'[c][Len(taken[c]) + 1] = <<down[c][1].who, down[c][1].n>>
            /\ \A i \in 1 .. Len(taken[c]) : taken'[c][i] = taken[c][i]
        BY <4>1, <4>2, Longer
      <4>4. taken'[c][Len(taken[c]) + 1][1] = down[c][1].who
        BY <4>3
      <4>5. \A i \in 1 .. Len(taken'[c]) : i \in 1 .. Len(taken[c]) \/ i = Len(taken[c]) + 1
        BY <4>3
      <4> QED
        BY <2>2, <3>2, <4>1, <4>3, <4>4, <4>5
    <3> QED
      BY <3>1, <3>2
  <2> QED
    BY <1>0, <1>3, <2>3, <2>4, <2>5, GetsDo
<1> QED
  BY <1>1, <1>2, <1>3

\* No pairing begins but when a room is joined.
LEMMA PeersLess ==
  ASSUME RelayInv, NEW c \in Client, Turns(c), NEW y \in Client
  PROVE  \/ peer'[y] \in {peer[y], Nobody}
         \/ \E h \in Client : Joins(c, h) /\ ((y = c /\ peer'[y] = h) \/ (y = h /\ peer'[y] = c))
<1>0. LoopInv /\ PairInv
  BY DEF RelayInv
<1>1. Writes(c) \/ Queue(c) \/ Skips(c) \/ Relay(c) => peer' = peer
  BY <1>0, WritesDo, QueueDoes, SkipsDo, RelayDoes DEF tables
<1>2. Drops(c) \/ Done(c) => peer'[y] \in {peer[y], Nobody}
  BY <1>0, DropsDo, DoneDoes DEF tables
<1>3. ASSUME NEW h \in Client, Joins(c, h)
      PROVE  peer'[y] = peer[y] \/ (y = c /\ peer'[y] = h) \/ (y = h /\ peer'[y] = c)
  BY <1>3 DEF Joins
<1> QED
  BY <1>1, <1>2, <1>3 DEF Turns, Answers, LostConnection, tables

\* Player d is let into a room, or into his.
Meets(d) == \E c \in Client : \E h \in Client : Joins(c, h) /\ d \in {c, h}

\* Who is paired with somebody hears of him alone, until he meets another.
LEMMA HearsStays ==
  ASSUME RelayInv, Patient, [Next]_vars, NEW d \in Client, NEW h, Hears(d, h), ~Meets(d)
  PROVE  Hears(d, h)'
<1>0. TypeOK /\ LoopInv /\ AskInv /\ Nobody \notin Client
  BY DEF RelayInv, LoopInv, TypeInv
<1>1. CASE UNCHANGED vars
  BY <1>1 DEF Hears, Flight, Owed, vars, tables, loop, wires, ends, player
<1>2. ASSUME NEW c \in Client, Turns(c)
      PROVE  Hears(d, h)'
  <2>1. UNCHANGED <<with, taken>>
    BY <1>2, TurnsPlayer DEF player
  <2>2. ASSUME NEW y \in Client, peer'[y] = d PROVE y = h
    <3>1. peer[y] = d
      BY <1>0, <1>2, <2>2, PeersLess DEF Meets
    <3> QED
      BY <3>1 DEF Hears
  <2>3. ASSUME NEW f \in Flight(d)', f.k \in News PROVE f.who = h
    <3>1. f \in Flight(d) \/ (d = peer[c] /\ f.who = c)
      BY <1>2, <2>3, TurnsFlight DEF Meets
    <3> QED
      BY <2>3, <3>1 DEF Hears
  <2> QED
    BY <2>1, <2>2, <2>3 DEF Hears
<1>3. ASSUME NEW c \in Client, ClientReads(c) \/ PlayerActs(c)
      PROVE  Hears(d, h)'
  <2>1. \A f \in Flight(d)' : f \in Flight(d)
    BY <1>3, ClientFlight
  <2>2. peer' = peer
    BY <1>3, ClientBase DEF tables
  <2>5. \A f \in Flight(d) : f.k = "joined" \/ f.k = "byte" => f.who = h
    BY DEF Hears, News
  <2>3. with'[d] \in {Nobody, h}
    <3>1. with'[d] = with[d] \/ \E f \in Flight(d) : f.k = "joined" /\ with'[d] = f.who
      BY <1>3, HeardFrom
    <3> QED
      BY <2>5, <3>1 DEF Hears
  <2>4. \A i \in 1 .. Len(taken'[d]) : taken'[d][i][1] = h
    <3>1. \A i \in 1 .. Len(taken'[d]) :
             \/ i \in 1 .. Len(taken[d]) /\ taken'[d][i] = taken[d][i]
             \/ \E f \in Flight(d) : f.k = "byte" /\ taken'[d][i][1] = f.who
      BY <1>3, HeardFrom
    <3> QED
      BY <2>5, <3>1 DEF Hears
  <2> QED
    BY <2>1, <2>2, <2>3, <2>4 DEF Hears
<1> QED
  BY <1>0, <1>1, <1>2, <1>3, StepKinds DEF ClientReads

\* Nobody hears of who has met nobody.
LEMMA UnknownStays ==
  ASSUME RelayInv, Patient, [Next]_vars, NEW d \in Client, Unknown(d), ~Meets(d)
  PROVE  Unknown(d)'
<1>0. TypeOK /\ LoopInv /\ AskInv /\ Nobody \notin Client
  BY DEF RelayInv, LoopInv, TypeInv
<1>1. CASE UNCHANGED vars
  BY <1>1 DEF Unknown, Flight, Owed, vars, tables, loop, wires, ends, player
<1>2. ASSUME NEW c \in Client, Turns(c)
      PROVE  Unknown(d)'
  <2>1. with' = with
    BY <1>2, TurnsPlayer DEF player
  <2>2. peer'[d] = Nobody
    BY <1>2, PeersLess DEF Unknown, Meets
  <2>3. ASSUME NEW y \in Client, NEW f \in Flight(y)', f.k \in News PROVE f.who # d
    <3>1. \/ f \in Flight(y) \/ (y = peer[c] /\ f.who = c)
          \/ \E h \in Client : /\ Joins(c, h)
                               /\ (y = h /\ f = Frame("joined", c)) \/ (y = c /\ f = Frame("joined", h))
      BY <1>2, <2>3, TurnsFlight
    <3>2. CASE \E h \in Client : /\ Joins(c, h)
                                 /\ (y = h /\ f = Frame("joined", c)) \/ (y = c /\ f = Frame("joined", h))
      BY <3>2, FrameIs DEF Meets
    <3> QED
      BY <1>0, <2>3, <3>1, <3>2 DEF Unknown
  <2> QED
    BY <2>1, <2>2, <2>3 DEF Unknown
<1>3. ASSUME NEW c \in Client, ClientReads(c) \/ PlayerActs(c)
      PROVE  Unknown(d)'
  <2>1. \A y \in Client : \A f \in Flight(y)' : f \in Flight(y)
    BY <1>3, ClientFlight
  <2>2. peer' = peer
    BY <1>3, ClientBase DEF tables
  <2>3. \A y \in Client : with'[y] # d
    BY <1>3, HeardFrom DEF Unknown, News
  <2> QED
    BY <2>1, <2>2, <2>3 DEF Unknown
<1> QED
  BY <1>0, <1>1, <1>2, <1>3, StepKinds DEF ClientReads

\* The writer of a player who hears of nobody holds nobody up.
LEMMA IdleStays ==
  ASSUME RelayInv, Patient, [Next]_vars, NEW d \in Client, Untouched(d), Hears(d, Nobody)'
  PROVE  Idle(d)'
<1>0. /\ TypeOK /\ LoopInv /\ AskInv /\ PairInv /\ TypeOK' /\ Nobody \notin Client /\ Owing(d) /\ Ends(d)
      /\ Idle(d)
  <2>1. LoopInv'
    BY NextLoop DEF RelayInv
  <2> QED
    BY <2>1 DEF RelayInv, LoopInv, TypeInv, BaseInv, Untouched
<1>1. CASE UNCHANGED vars
  BY <1>0, <1>1 DEF Idle, vars, loop, ends, player
<1>2. ASSUME NEW c \in Client, Turns(c)
      PROVE  Idle(d)'
  <2> SUFFICES ASSUME d \notin gone
               PROVE  line'[d] = << >> /\ d \notin ended' /\ next'[d] = "read"
    BY <1>2, TurnsPlayer DEF Idle, player
  <2>1. line[d] = << >> /\ d \notin ended /\ next[d] = "read"
    BY <1>0 DEF Idle
  <2>2. d \notin ended'
    <3>1. Done(c) => d \notin ended'
      BY <1>0, <2>1, DoneDoes
    <3> QED
      BY <1>0, <1>2, <2>1, <3>1, WritesDo, QueueDoes, SkipsDo, DropsDo, RelayDoes
      DEF Turns, Answers, Joins, LostConnection, ends
  <2>3. next'[d] = "read"
    <3>1. ~(Drops(c) /\ c = d)
      <4> SUFFICES ASSUME Drops(d) PROVE FALSE
        OBVIOUS
      <4>1. Sending(d) /\ todo[d][1].f.k = "joined"
        BY DropperGone
      <4>2. 1 \in 1 .. Len(todo[d])
        BY <1>0, <4>1, FirstTypes
      <4> QED
        BY <1>0, <4>1, <4>2, FreshSilent DEF News
    <3>2. Drops(c) => next'[d] = "read"
      BY <1>0, <2>1, <3>1, DropsDo
    <3>3. Done(c) => next'[d] = "read"
      BY <1>0, <2>1, DoneDoes
    <3> QED
      BY <1>0, <1>2, <2>1, <3>2, <3>3, WritesDo, QueueDoes, SkipsDo, RelayDoes
      DEF Turns, Answers, Joins, LostConnection, loop
  <2>4. line'[d] = << >>
    <3>1. CASE Writes(c)
      <4> SUFFICES ASSUME Dest(c) = d PROVE line'[d] = << >>
        BY <1>0, <2>1, <3>1, WritesDo
      <4>1. ~Has(down'[d], "byte")
        <5> SUFFICES ASSUME NEW i \in 1 .. Len(down'[d]), down'[d][i].k = "byte" PROVE FALSE
          BY DEF Has
        <5>1. down'[d][i] \in Flight(d)'
          BY DEF Flight
        <5>2. down'[d][i].who = Nobody
          BY <5>1 DEF Hears, News
        <5>3. down'[d] \in Seq(FrameOf)
          BY <1>0 DEF TypeOK
        <5>4. down'[d][i] \in FrameOf
          BY <5>3
        <5> QED
          BY <1>0, <5>2, <5>4 DEF FrameOf
      <4>2. ~Dead(d)
        BY <1>0, <2>1 DEF Dead, Ends
      <4>3. PICK queue \in Seq(Client) :
              /\ line'[Dest(c)] = Tail(queue)
              /\ (running = c /\ line[Dest(c)] = << >> /\ queue = <<c>>)
                   \/ (running = Nobody /\ line[Dest(c)] # << >> /\ queue = line[Dest(c)])
        BY <1>0, <3>1, <4>1, <4>2, WritesDo
      <4>4. queue = <<c>>
        BY <2>1, <4>3
      <4> QED
        BY <4>3, <4>4
    <3>2. Queue(c) => line'[d] = << >>
      BY <1>0, <2>1, QueueDoes
    <3>3. Skips(c) => line'[d] = << >>
      BY <1>0, <2>1, SkipsDo
    <3>4. Drops(c) => line'[d] = << >>
      BY <1>0, <2>1, DropsDo
    <3> QED
      BY <1>0, <1>2, <2>1, <3>1, <3>2, <3>3, <3>4, RelayDoes, DoneDoes
      DEF Turns, Answers, Joins, LostConnection, loop
  <2> QED
    BY <2>2, <2>3, <2>4
<1>3. ASSUME NEW c \in Client, ClientReads(c) \/ PlayerActs(c)
      PROVE  Idle(d)'
  <2>1. UNCHANGED <<loop, ends>>
    BY <1>3, ClientBase
  <2>2. gone \subseteq gone'
    <3>1. CASE PlayerActs(c)
      BY <1>0, <3>1, ActsDo DEF ActsOpen, ActsAsk, ActsByte, ActsClose
    <3>2. CASE GetHangUp(c)
      BY <1>0, <3>2, HangUpDoes
    <3>3. CASE ClientReads(c) /\ ~GetHangUp(c)
      BY <1>0, <3>3, GetsDo, ReceivesDo
    <3> QED
      BY <1>3, <3>1, <3>2, <3>3
  <2> QED
    BY <1>0, <2>1, <2>2 DEF Idle, loop, ends
<1> QED
  BY <1>0, <1>1, <1>2, <1>3, StepKinds DEF ClientReads

\* Who has met nobody stays so until he meets somebody.
LEMMA UntouchedStays ==
  ASSUME RelayInv, Patient, [Next]_vars, NEW d \in Client, Untouched(d), ~Meets(d)
  PROVE  Untouched(d)'
<1>1. Hears(d, Nobody)'
  BY HearsStays DEF Untouched
<1>2. Unknown(d)'
  BY UnknownStays DEF Untouched
<1> QED
  BY <1>1, <1>2, IdleStays DEF Untouched

\* Who is asking for a room was before: a question begins in the menu.
LEMMA AskingBefore ==
  ASSUME RelayInv, Patient, [Next]_vars, NEW x \in Client, Asking(x)'
  PROVE  Asking(x)
<1>0. TypeOK /\ LoopInv /\ AskInv /\ PairInv
  BY DEF RelayInv, LoopInv, TypeInv
<1>5. \A y \in Client : todo'[y] \in Seq(SendOf)
  <2>1. LoopInv'
    BY NextLoop DEF RelayInv
  <2> QED
    BY <2>1 DEF LoopInv, TypeInv, TypeOK, SendOf
<1>1. CASE UNCHANGED vars
  BY <1>1 DEF Asking, Unsent, Sending, Has, vars, loop, wires, player
<1>2. ASSUME NEW c \in Client, Turns(c)
      PROVE  Asking(x)
  <2>1. screen' = screen
    BY <1>2, TurnsPlayer DEF player
  <2>2. Has(up'[x], "join") => Has(up[x], "join")
    <3>1. CASE up'[x] = up[x]
      BY <3>1
    <3>2. ASSUME NEW kind, Takes(c, kind) PROVE Has(up'[x], "join") => Has(up[x], "join")
      <4> SUFFICES ASSUME NEW i \in 1 .. Len(up'[x]), up'[x][i].k = "join" PROVE Has(up[x], "join")
        BY DEF Has
      <4>1. CASE x # c
        BY <1>0, <3>2, <4>1, TakesDo DEF Has
      <4>2. CASE x = c
        <5>1. i + 1 \in 1 .. Len(up[c]) /\ up'[c][i] = up[c][i + 1]
          BY <1>0, <3>2, <4>2, TakesDo
        <5> QED
          BY <4>2, <5>1 DEF Has
      <4> QED
        BY <4>1, <4>2
    <3>3. up' = up \/ \E kind : Takes(c, kind)
      <4>1. Writes(c) \/ Queue(c) \/ Skips(c) \/ Done(c) \/ LostConnection(c) => up' = up
        BY <1>0, WritesDo, QueueDoes, SkipsDo, DoneDoes DEF LostConnection, wires
      <4>2. Drops(c) => up' = up \/ \E kind : Takes(c, kind)
        BY <1>0, DropsDo
      <4> QED
        BY <1>2, <4>1, <4>2 DEF Turns, Answers, Joins, Relay
    <3> QED
      BY <3>1, <3>2, <3>3
  <2>3. CASE Writes(c)
    <3>1. /\ Sending(c) /\ Dest(c) \in Client /\ ~todo[c][1].sent
          /\ \A y \in Client \ {c} : todo'[y] = todo[y]
          /\ \A y \in Client \ {Dest(c)} : down'[y] = down[y]
          /\ down'[Dest(c)] = down[Dest(c)] \/ down'[Dest(c)] = Append(down[Dest(c)], todo[c][1].f)
          /\ todo' = [todo EXCEPT ![c][1].sent = TRUE] \/ todo' = SentOne(c)
      BY <1>0, <2>3, WritesDo
    <3>2. /\ 1 \in 1 .. Len(todo[c]) /\ todo[c][1].f \in FrameOf /\ todo[c][1].to = Dest(c)
          /\ Len(todo[c]) \in Nat
      BY <1>0, <3>1, FirstTypes, Lengths DEF Dest
    <3>3. ~Unsent(c)'
      <4>1. CASE todo' = [todo EXCEPT ![c][1].sent = TRUE]
        BY <1>0, <3>1, <3>2, <4>1, MarkedDoes DEF Unsent
      <4>2. CASE todo' = SentOne(c)
        <5> SUFFICES ASSUME Unsent(c)' PROVE FALSE
          OBVIOUS
        <5>0. todo'[c] \in Seq(SendOf)
          BY <1>5
        <5>1. 1 \in 1 .. Len(todo'[c]) /\ todo'[c][1].f.k = "error"
          BY <5>0 DEF Unsent, Sending
        <5>2. 2 \in 1 .. Len(todo[c]) /\ todo[c][2].f.k = "error"
          BY <1>0, <3>1, <4>2, <5>1, SentOneDoes
        <5>3. Len(todo[c]) = 1
          BY <1>0, <5>2 DEF LoopInv, SentInv, Orderly
        <5> QED
          BY <5>2, <5>3
      <4> QED
        BY <3>1, <4>1, <4>2
    <3>4. Unsent(x)' => Unsent(x)
      BY <3>1, <3>3 DEF Unsent, Sending
    <3>5. Has(down'[x], "error") => Has(down[x], "error") \/ Unsent(x)
      <4>1. CASE down'[x] = down[x]
        BY <4>1
      <4>2. CASE x = Dest(c) /\ down'[x] = Append(down[x], todo[c][1].f)
        <5>1. Has(down'[x], "error") => Has(down[x], "error") \/ todo[c][1].f.k = "error"
          BY <1>0, <3>2, <4>2, MoreHas, Typed
        <5>2. todo[c][1].f.k = "error" => x = c /\ Unsent(c)
          BY <1>0, <3>1, <3>2, <4>2 DEF LoopInv, SentInv, Orderly, Unsent
        <5> QED
          BY <5>1, <5>2
      <4> QED
        BY <3>1, <4>1, <4>2
    <3> QED
      BY <2>1, <2>2, <3>4, <3>5 DEF Asking
  <2>4. CASE down' = down /\ ~Writes(c)
    <3>1. Unsent(x)' => Unsent(x) \/ Has(up[x], "join")
      <4>1. CASE todo'[x] = todo[x]
        BY <4>1 DEF Unsent, Sending
      <4>2. CASE Skips(c)
        <5>1. Sending(c) /\ todo' = SentOne(c)
          BY <1>0, <4>2, SkipsDo
        <5> SUFFICES ASSUME x = c, Unsent(c)' PROVE FALSE
          BY <1>0, <4>1, <5>1, SentOneDoes
        <5>0. todo'[c] \in Seq(SendOf)
          BY <1>5
        <5>2. 1 \in 1 .. Len(todo'[c]) /\ todo'[c][1].f.k = "error"
          BY <5>0 DEF Unsent, Sending
        <5>3. 2 \in 1 .. Len(todo[c]) /\ todo[c][2].f.k = "error"
          <6>1. \A i \in 1 .. Len(todo'[c]) : i + 1 \in 1 .. Len(todo[c]) /\ todo'[c][i] = todo[c][i + 1]
            BY <1>0, <5>1, SentOneDoes
          <6>2. 1 + 1 \in 1 .. Len(todo[c]) /\ todo'[c][1] = todo[c][1 + 1]
            BY <5>2, <6>1
          <6> QED
            BY <5>2, <6>2
        <5>4. Len(todo[c]) = 1
          BY <1>0, <5>3 DEF LoopInv, SentInv, Orderly
        <5> QED
          BY <5>3, <5>4
      <4>3. CASE Drops(c) /\ x = c
        <5>1. todo'[c] = LastWord(c) /\ peer[c] # c
          BY <1>0, <4>3, DropsDo
        <5>2. Sending(c)' => todo'[c][1].f = Frame("peer_left", c)
          BY <5>1 DEF LastWord, Sending, Send
        <5> QED
          BY <4>3, <5>2, FrameIs DEF Unsent
      <4>4. ASSUME NEW kind, Answers(c, kind), x = c PROVE Unsent(x)' => Has(up[x], "join")
        <5>1. Takes(c, "join") => Has(up[c], "join")
          BY <1>0, TakesDo DEF Has
        <5>2. todo'[c][1].f.k = kind
          BY <4>4, FrameIs DEF Answers, Send
        <5> QED
          BY <4>4, <5>1, <5>2 DEF Answers, Unsent
      <4>5. CASE (\E h \in Client : Joins(c, h)) /\ x = c
        BY <4>5, TidingsAre, FrameIs DEF Joins, Unsent
      <4>6. CASE Relay(c) /\ x = c
        <5>1. Takes(c, "byte") /\ todo'[c] = IF peer[c] = Nobody THEN << >> ELSE <<Send(peer[c], up[c][1])>>
          BY <1>0, <4>6, RelayDoes
        <5>2. up[c][1].k = "byte"
          BY <1>0, <5>1, TakesDo
        <5> QED
          BY <4>6, <5>1, <5>2 DEF Unsent, Sending, Send
      <4>7. Queue(c) \/ Done(c) \/ LostConnection(c) => todo' = todo
        BY <1>0, QueueDoes, DoneDoes DEF LostConnection, loop
      <4>8. Drops(c) \/ (\E kind : Answers(c, kind)) \/ (\E h \in Client : Joins(c, h)) \/ Relay(c)
              => \A y \in Client \ {c} : todo'[y] = todo[y]
        BY <1>0, DropsDo, RelayDoes DEF Answers, Joins
      <4> QED
        BY <1>2, <4>1, <4>2, <4>3, <4>4, <4>5, <4>6, <4>7, <4>8, <2>4 DEF Turns
    <3> QED
      BY <2>1, <2>2, <2>4, <3>1 DEF Asking
  <2>5. Writes(c) \/ down' = down
    <3>1. Queue(c) \/ Skips(c) \/ Drops(c) \/ Done(c) \/ Relay(c) => down' = down
      BY <1>0, QueueDoes, SkipsDo, DropsDo, DoneDoes, RelayDoes DEF wires
    <3> QED
      BY <1>2, <3>1 DEF Turns, Answers, Joins, LostConnection, wires
  <2> QED
    BY <2>3, <2>4, <2>5
<1>3. ASSUME NEW c \in Client, ClientReads(c)
      PROVE  Asking(x)
  <2>1. CASE GetHangUp(c)
    <3>1. /\ UNCHANGED <<up, down, todo>> /\ screen'[c] = "closed"
          /\ \A y \in Client \ {c} : screen'[y] = screen[y]
      BY <1>0, <2>1, HangUpDoes DEF loop, wires
    <3> QED
      BY <3>1 DEF Asking, Unsent, Sending
  <2>2. CASE ~GetHangUp(c)
    <3>1. PICK kind : Receives(c, kind)
      BY <1>0, <1>3, <2>2, GetsDo
    <3>2. UNCHANGED <<up, todo>> /\ down[c][1].k = kind /\ 1 \in 1 .. Len(down[c])
      BY <1>0, <3>1, ReceivesDo DEF loop
    <3>3. Has(down'[x], "error") => Has(down[x], "error")
      <4> SUFFICES ASSUME NEW i \in 1 .. Len(down'[x]), down'[x][i].k = "error" PROVE Has(down[x], "error")
        BY DEF Has
      <4>1. CASE x # c
        BY <1>0, <3>1, <4>1, ReceivesDo DEF Has
      <4>2. CASE x = c
        <5>1. i + 1 \in 1 .. Len(down[c]) /\ down'[c][i] = down[c][i + 1]
          BY <1>0, <3>1, <4>2, ReceivesDo
        <5> QED
          BY <4>2, <5>1 DEF Has
      <4> QED
        BY <4>1, <4>2
    <3>4. screen'[x] = "menu" => screen[x] = "menu" \/ Has(down[x], "error")
      <4>1. GetsAnswer(c) \/ GetsJoined(c) \/ GetsByte(c) \/ GetsEnd(c)
        BY <1>0, <1>3, <2>2, GetsDo
      <4> QED
        BY <3>2, <4>1 DEF GetsAnswer, GetsJoined, GetsByte, GetsEnd, Has
    <3> QED
      BY <3>2, <3>3, <3>4 DEF Asking, Unsent, Sending
  <2> QED
    BY <2>1, <2>2
<1>4. ASSUME NEW c \in Client, PlayerActs(c)
      PROVE  Asking(x)
  <2>1. todo' = todo
    BY <1>0, <1>4, ActsDo DEF loop
  <2>2. ActsOpen(c) \/ ActsAsk(c) \/ ActsByte(c) \/ ActsClose(c)
    BY <1>0, <1>4, ActsDo
  <2>3. (screen'[x] = "menu" => screen[x] = "menu") /\ (Has(down'[x], "error") => Has(down[x], "error"))
    <3>1. screen'[x] = "menu" => screen[x] = "menu"
      BY <2>2 DEF ActsOpen, ActsAsk, ActsByte, ActsClose
    <3>2. down'[x] = down[x] \/ down'[x] = << >>
      BY <2>2 DEF ActsOpen, ActsAsk, ActsByte, ActsClose
    <3> QED
      BY <3>1, <3>2 DEF Has
  <2>4. Has(up'[x], "join") => Has(up[x], "join") \/ screen[x] = "menu"
    <3>1. up'[x] = up[x] \/ screen[x] = "menu" \/ (\E f : f.k # "join" /\ Puts(c, f) /\ x = c)
      <4>1. CASE ActsOpen(c)
        <5>1. PICK n : Puts(c, [k |-> "create", who |-> c, n |-> n])
          BY <4>1 DEF ActsOpen
        <5>2. [k |-> "create", who |-> c, n |-> n].k # "join"
          OBVIOUS
        <5> QED
          BY <5>1, <5>2 DEF Puts
      <4>2. CASE ActsAsk(c)
        BY <4>2 DEF ActsAsk, Puts
      <4>3. CASE ActsByte(c)
        <5>1. Puts(c, [k |-> "byte", who |-> c, n |-> said[c] + 1])
          BY <4>3 DEF ActsByte
        <5>2. [k |-> "byte", who |-> c, n |-> said[c] + 1].k # "join"
          OBVIOUS
        <5> QED
          BY <5>1, <5>2 DEF Puts
      <4>4. CASE ActsClose(c)
        <5>1. Frame("leave", c).k # "join"
          BY FrameIs
        <5> QED
          BY <4>4, <5>1 DEF ActsClose, Puts
      <4> QED
        BY <2>2, <4>1, <4>2, <4>3, <4>4
    <3>2. CASE \E f : f.k # "join" /\ Puts(c, f) /\ x = c
      <4>1. PICK f : f.k # "join" /\ Puts(c, f) /\ x = c
        BY <3>2
      <4>2. \A i \in 1 .. Len(up'[c]) : i \in 1 .. Len(up[c]) \/ i = Len(up[c]) + 1
        BY <4>1 DEF Puts
      <4> QED
        BY <4>1, <4>2 DEF Puts, Has
    <3> QED
      BY <3>1, <3>2
  <2> QED
    BY <2>1, <2>3, <2>4 DEF Asking, Unsent, Sending
<1> QED
  BY <1>0, <1>1, <1>2, <1>3, <1>4, StepKinds DEF ClientReads

\* The two who meet: who asked had met nobody and asks no more, nor did or does the host ask.
LEMMA MeetingAsks ==
  ASSUME RelayInv, NEW c \in Client, NEW h \in Client, Joins(c, h)
  PROVE  /\ c # h /\ Asking(c) /\ Untouched(c) /\ ~Asking(c)' /\ Opener(h) /\ ~Opener(c) /\ ~Asking(h)
         /\ running = Nobody /\ running' = c /\ todo[c] = << >> /\ c \notin ended /\ next[c] = "read"
<1>0. /\ TypeOK /\ LoopInv /\ AskInv /\ (\A r \in games : Opener(Host(r))) /\ Takes(c, "join")
      /\ Speaks(c) /\ FreshInv
  BY DEF RelayInv, LoopInv, TypeInv, BaseInv, Joins
<1>1. /\ Has(up[c], "join") /\ 1 \in 1 .. Len(up[c]) /\ up[c][1].k = "join"
      /\ todo[c] = << >> /\ c \notin ended /\ next[c] = "read" /\ running = Nobody /\ running' = c
  BY <1>0, TakesDo DEF Has
<1>2. Asking(c) /\ Untouched(c)
  BY <1>0, <1>1 DEF Asking, FreshInv
<1>3. ~Has(up'[c], "join")
  <2> SUFFICES ASSUME NEW i \in 1 .. Len(up'[c]), up'[c][i].k = "join" PROVE FALSE
    BY DEF Has
  <2>1. i + 1 \in 1 .. Len(up[c]) /\ up'[c][i] = up[c][i + 1] /\ i \in Nat \ {0}
    BY <1>0, TakesDo
  <2>2. i + 1 = 1
    BY <1>0, <1>1, <2>1 DEF AskInv, Once
  <2> QED
    BY <2>1, <2>2
<1>4. screen[c] # "menu" /\ ~Has(down[c], "error")
  BY <1>0, <1>1 DEF AskInv
<1>5. screen' = screen /\ down' = down /\ todo'[c] = Tidings(c, h)
  BY DEF Joins, player
<1>6. ~Unsent(c)'
  BY <1>5, TidingsAre, FrameIs DEF Unsent
<1>7. ~Asking(c)'
  BY <1>3, <1>4, <1>5, <1>6 DEF Asking
<1>8. c # h /\ Opener(h) /\ ~Asking(h)
  BY <1>0 DEF Joins, AskInv
<1> QED
  BY <1>0, <1>1, <1>2, <1>7, <1>8 DEF Speaks

\* Who may ask for a room has met nobody.
LEMMA NextFresh ==
  ASSUME RelayInv, Patient, [Next]_vars
  PROVE  FreshInv'
<1> SUFFICES ASSUME NEW x \in Client, Asking(x)' PROVE Untouched(x)'
  BY DEF FreshInv
<1>1. Asking(x) /\ Untouched(x)
  BY AskingBefore DEF RelayInv, FreshInv
<1>2. ~Meets(x)
  BY <1>1, MeetingAsks DEF Meets
<1> QED
  BY <1>1, <1>2, UntouchedStays

\* A player who has met a host hears of him alone.
LEMMA MeetingHears ==
  ASSUME RelayInv, NEW c \in Client, NEW h \in Client, Joins(c, h)
  PROVE  Hears(c, h)'
<1>0. /\ TypeOK /\ LoopInv /\ Hears(c, Nobody) /\ Unknown(c) /\ UNCHANGED <<with, taken>> /\ c # h
      /\ peer'[c] = h /\ peer'[h] = c /\ Nobody \notin Client
      /\ \A y \in Client \ {c, h} : peer'[y] = peer[y]
  BY MeetingAsks DEF RelayInv, LoopInv, TypeInv, Untouched, Joins, player
<1>1. taken[c] = << >>
  <2>1. taken[c] \in Seq(Client \X Nat) /\ \A i \in 1 .. Len(taken[c]) : taken[c][i][1] = Nobody
    BY <1>0, Typed DEF Hears
  <2>2. \A i \in 1 .. Len(taken[c]) : taken[c][i] \in Client \X Nat
    BY <2>1
  <2>3. \A i \in 1 .. Len(taken[c]) : taken[c][i][1] \in Client
    BY <2>2
  <2>4. Len(taken[c]) = 0
    <3>1. Len(taken[c]) \in Nat
      BY <2>1
    <3>2. 1 \notin 1 .. Len(taken[c])
      BY <1>0, <2>1, <2>3
    <3> QED
      BY <3>1, <3>2
  <2> QED
    BY <2>1, <2>4
<1>2. ASSUME NEW y \in Client, peer'[y] = c PROVE y = h
  BY <1>0, <1>2 DEF Hears
<1>3. ASSUME NEW f \in Flight(c)', f.k \in News PROVE f.who = h
  <2>1. \A g \in Client : Joins(c, g) => g = h
    BY <1>0 DEF Joins
  <2>2. f \in Flight(c) \/ f = Frame("joined", h)
    BY <1>0, <1>3, <2>1, TurnsFlight DEF Turns, Unknown
  <2>3. f \notin Flight(c)
    <3> SUFFICES ASSUME f \in Flight(c) PROVE FALSE
      OBVIOUS
    <3>1. f.who = Nobody
      BY <1>0, <1>3 DEF Hears
    <3>2. f \in FrameOf
      BY <1>0, Lengths, Flying DEF SendOf
    <3> QED
      BY <1>0, <3>1, <3>2 DEF FrameOf
  <2> QED
    BY <2>2, <2>3, FrameIs
<1> QED
  BY <1>0, <1>1, <1>2, <1>3 DEF Hears

\* Who has opened a room has.
LEMMA OpenersStay ==
  ASSUME RelayInv, Patient, [Next]_vars, NEW y \in Client, Opener(y)
  PROVE  Opener(y)'
<1>0. LoopInv /\ AskInv
  BY DEF RelayInv
<1>1. ASSUME NEW c \in Client, Turns(c) PROVE opened' = opened
  BY <1>1, TurnsPlayer DEF player
<1> QED
  BY <1>0, <1>1, StepKinds, ClientBase DEF ClientReads, Opener, vars, player

\* A player who has opened no room hears of one player at most.
LEMMA NextGuest ==
  ASSUME RelayInv, Patient, [Next]_vars
  PROVE  GuestInv'
<1> SUFFICES ASSUME NEW x \in Client, ~Opener(x)'
             PROVE  \E h \in Client \cup {Nobody} : Hears(x, h)' /\ (h # Nobody => Opener(h)')
  BY DEF GuestInv
<1>0. LoopInv /\ AskInv
  BY DEF RelayInv
<1>1. \A y \in Client : Opener(y) => Opener(y)'
  BY OpenersStay
<1>2. PICK h \in Client \cup {Nobody} : Hears(x, h) /\ (h # Nobody => Opener(h))
  BY <1>1 DEF RelayInv, GuestInv
<1>3. CASE ~Meets(x)
  <2>1. Hears(x, h)'
    BY <1>2, <1>3, HearsStays
  <2> QED
    BY <1>1, <1>2, <2>1
<1>4. CASE Meets(x)
  <2>1. PICK c \in Client : \E g \in Client : Joins(c, g) /\ x \in {c, g}
    BY <1>4 DEF Meets
  <2>2. PICK g \in Client : Joins(c, g) /\ x \in {c, g}
    BY <2>1
  <2>3. x = c
    BY <1>1, <2>2, MeetingAsks
  <2>4. Hears(x, g)' /\ Opener(g)
    BY <2>2, <2>3, MeetingHears, MeetingAsks
  <2> QED
    BY <1>1, <2>4
<1> QED
  BY <1>3, <1>4

\* The numbers of a player's bytes on a wire when its first frame is taken.
LEMMA NumTail ==
  ASSUME NEW q \in Seq(FrameOf), q # << >>, NEW t, Rising(q, t)
  PROVE  /\ Rising(Tail(q), t)
         /\ ~IsByte(q[1], t) => Num(Tail(q), t) = Num(q, t)
         /\ IsByte(q[1], t) => Num(q, t) = {q[1].n} \cup Num(Tail(q), t) /\ Below({q[1].n}, Num(Tail(q), t))
<1>1. /\ Len(q) \in Nat \ {0} /\ Len(Tail(q)) = Len(q) - 1
      /\ \A i \in 1 .. Len(Tail(q)) : i + 1 \in 1 .. Len(q) /\ Tail(q)[i] = q[i + 1]
  BY HeadTail
<1> DEFINE s == Tail(q)
<1>2. \A i \in 1 .. Len(s) : i + 1 \in 1 .. Len(q) /\ s[i] = q[i + 1]
  BY <1>1
<1>3. \A i \in 1 .. Len(q) : i # 1 => i - 1 \in 1 .. Len(s) /\ s[i - 1] = q[i]
  <2> SUFFICES ASSUME NEW i \in 1 .. Len(q), i # 1 PROVE i - 1 \in 1 .. Len(s) /\ s[i - 1] = q[i]
    OBVIOUS
  <2>1. i - 1 \in 1 .. Len(s) /\ (i - 1) + 1 = i
    BY <1>1
  <2> QED
    BY <1>2, <2>1
<1>4. Rising(s, t)
  <2> SUFFICES ASSUME NEW i \in 1 .. Len(s), NEW j \in 1 .. Len(s), i < j, IsByte(s[i], t), IsByte(s[j], t)
               PROVE  s[i].n < s[j].n
    BY DEF Rising
  <2>1. i + 1 \in 1 .. Len(q) /\ j + 1 \in 1 .. Len(q) /\ i + 1 < j + 1 /\ s[i] = q[i + 1] /\ s[j] = q[j + 1]
    BY <1>1, <1>2
  <2> QED
    BY <2>1 DEF Rising
<1>5. \A n \in Num(s, t) : n \in Num(q, t) /\ (IsByte(q[1], t) => q[1].n < n)
  <2> SUFFICES ASSUME NEW i \in 1 .. Len(s), IsByte(s[i], t)
               PROVE  s[i].n \in Num(q, t) /\ (IsByte(q[1], t) => q[1].n < s[i].n)
    BY DEF Num
  <2>1. i + 1 \in 1 .. Len(q) /\ s[i] = q[i + 1] /\ 1 \in 1 .. Len(q) /\ 1 < i + 1
    BY <1>1, <1>2
  <2> QED
    BY <2>1 DEF Num, Rising
<1>6. \A n \in Num(q, t) : n \in Num(s, t) \/ (IsByte(q[1], t) /\ n = q[1].n)
  <2> SUFFICES ASSUME NEW i \in 1 .. Len(q), IsByte(q[i], t)
               PROVE  q[i].n \in Num(s, t) \/ (IsByte(q[1], t) /\ q[i].n = q[1].n)
    BY DEF Num
  <2>1. CASE i = 1
    BY <2>1
  <2>2. CASE i # 1
    BY <1>3, <2>2 DEF Num
  <2> QED
    BY <2>1, <2>2
<1>7. IsByte(q[1], t) => q[1].n \in Num(q, t)
  BY <1>1 DEF Num
<1> QED
  BY <1>4, <1>5, <1>6, <1>7 DEF Below

\* The numbers of a player's bytes on a wire when a frame goes behind the others.
LEMMA NumMore ==
  ASSUME NEW q \in Seq(FrameOf), NEW f \in FrameOf, NEW t, Rising(q, t),
         NEW s, Len(s) = Len(q) + 1, s[Len(q) + 1] = f, \A i \in 1 .. Len(q) : s[i] = q[i]
  PROVE  /\ ~IsByte(f, t) => Num(s, t) = Num(q, t) /\ Rising(s, t)
         /\ IsByte(f, t) => Num(s, t) = Num(q, t) \cup {f.n}
         /\ IsByte(f, t) /\ (\A a \in Num(q, t) : a < f.n) => Rising(s, t)
<1>1. /\ Len(q) \in Nat /\ \A i \in 1 .. Len(s) : i \in 1 .. Len(q) \/ i = Len(q) + 1
      /\ \A i \in 1 .. Len(q) : i \in 1 .. Len(s)
      /\ Len(q) + 1 \in 1 .. Len(s)
  OBVIOUS
<1>2. \A n \in Num(s, t) : n \in Num(q, t) \/ (IsByte(f, t) /\ n = f.n)
  <2> SUFFICES ASSUME NEW i \in 1 .. Len(s), IsByte(s[i], t)
               PROVE  s[i].n \in Num(q, t) \/ (IsByte(f, t) /\ s[i].n = f.n)
    BY DEF Num
  <2> QED
    BY <1>1 DEF Num
<1>3. \A n \in Num(q, t) : n \in Num(s, t)
  BY <1>1 DEF Num
<1>4. IsByte(f, t) => f.n \in Num(s, t)
  BY <1>1 DEF Num
<1>5. (IsByte(f, t) => \A a \in Num(q, t) : a < f.n) => Rising(s, t)
  <2> SUFFICES ASSUME IsByte(f, t) => \A a \in Num(q, t) : a < f.n,
                      NEW i \in 1 .. Len(s), NEW j \in 1 .. Len(s), i < j, IsByte(s[i], t), IsByte(s[j], t)
               PROVE  s[i].n < s[j].n
    BY DEF Rising
  <2>1. i \in 1 .. Len(q) /\ s[i] = q[i]
    BY <1>1
  <2>2. CASE j \in 1 .. Len(q)
    BY <2>1, <2>2 DEF Rising
  <2>3. CASE j = Len(q) + 1
    <3>1. s[i].n \in Num(q, t)
      BY <2>1 DEF Num
    <3> QED
      BY <2>3, <3>1
  <2> QED
    BY <1>1, <2>2, <2>3
<1> QED
  BY <1>2, <1>3, <1>4, <1>5

\* When the frame is a byte of his, later than the others.
LEMMA NumByte ==
  ASSUME NEW q \in Seq(FrameOf), NEW f \in FrameOf, NEW t, Rising(q, t),
         NEW s, Len(s) = Len(q) + 1, s[Len(q) + 1] = f, \A i \in 1 .. Len(q) : s[i] = q[i],
         IsByte(f, t), \A a \in Num(q, t) : a < f.n
  PROVE  (\A a : a \in Num(s, t) <=> a \in Num(q, t) \/ a = f.n) /\ Rising(s, t)
<1>1. IsByte(f, t) => Num(s, t) = Num(q, t) \cup {f.n}
  BY NumMore
<1>2. Rising(s, t)
  BY NumMore
<1> QED
  BY <1>1, <1>2

\* The front of a wire when its first frame is taken.
LEMMA FrontTail ==
  ASSUME NEW q \in Seq(FrameOf), q # << >>, NEW t, NEW m \in 2 .. Len(q) + 1, NEW j, Front(q, t, j, m)
  PROVE  Front(Tail(q), t, IF j = 0 THEN 0 ELSE j - 1, m - 1)
<1> DEFINE s == Tail(q)
           k == IF j = 0 THEN 0 ELSE j - 1
<1>1. /\ Len(q) \in Nat \ {0} /\ Len(s) = Len(q) - 1
      /\ \A i \in 1 .. Len(s) : i + 1 \in 1 .. Len(q) /\ s[i] = q[i + 1]
  BY HeadTail
<1>2. j \in 0 .. m - 1 /\ m \in Nat /\ m - 1 <= Len(q)
  BY <1>1 DEF Front
<1>3. k \in 0 .. (m - 1) - 1 /\ (k # 0 => k \in 1 .. Len(s) /\ k + 1 = j)
  BY <1>1, <1>2
<1>4. k # 0 => s[k].k = "joined" /\ s[k].who = t
  BY <1>1, <1>2, <1>3 DEF Front
<1>5. ASSUME NEW i \in 1 .. (m - 1) - 1, i # k, s[i].k \in News
      PROVE  i > k /\ s[i].k = "byte" /\ s[i].who = t
  <2>1. i + 1 \in 1 .. m - 1 /\ i \in 1 .. Len(s) /\ i + 1 # j
    BY <1>1, <1>2, <1>5
  <2>2. i + 1 > j /\ s[i].k = "byte" /\ s[i].who = t
    BY <1>1, <1>5, <2>1 DEF Front
  <2> QED
    BY <1>2, <2>2
<1> HIDE DEF s, k
<1>6. Front(s, t, k, m - 1)
  BY <1>3, <1>4, <1>5 DEF Front
<1> QED
  BY <1>6 DEF s, k

\* The front of a wire is the same when frames go behind it.
LEMMA FrontMore ==
  ASSUME NEW q, Len(q) \in Nat, NEW s, NEW t, NEW m \in 1 .. Len(q) + 1, NEW j, Front(q, t, j, m),
         \A i \in 1 .. Len(q) : s[i] = q[i]
  PROVE  /\ Front(s, t, j, m)
         /\ s[m].k \notin News \/ (s[m].k = "byte" /\ s[m].who = t) => Front(s, t, j, m + 1)
<1>1. j \in 0 .. m - 1 /\ m \in Nat /\ \A i \in 1 .. m - 1 : i \in 1 .. Len(q)
  BY DEF Front
<1>2. Front(s, t, j, m)
  <2>1. j # 0 => j \in 1 .. Len(q)
    BY <1>1
  <2>2. j # 0 => s[j].k = "joined" /\ s[j].who = t
    BY <2>1 DEF Front
  <2>3. \A i \in 1 .. m - 1 : i # j /\ s[i].k \in News => i > j /\ s[i].k = "byte" /\ s[i].who = t
    BY <1>1 DEF Front
  <2> QED
    BY <1>1, <2>2, <2>3 DEF Front
<1>3. ASSUME s[m].k \notin News \/ (s[m].k = "byte" /\ s[m].who = t)
      PROVE  Front(s, t, j, m + 1)
  <2>1. j \in 0 .. (m + 1) - 1 /\ \A i \in 1 .. (m + 1) - 1 : i \in 1 .. m - 1 \/ (i = m /\ i > j)
    BY <1>1
  <2>2. ASSUME NEW i \in 1 .. (m + 1) - 1, i # j, s[i].k \in News
        PROVE  i > j /\ s[i].k = "byte" /\ s[i].who = t
    <3>1. CASE i \in 1 .. m - 1
      BY <1>2, <2>2, <3>1 DEF Front
    <3>2. CASE i = m /\ i > j
      BY <1>3, <2>2, <3>2
    <3> QED
      BY <2>1, <3>1, <3>2
  <2>3. j # 0 => s[j].k = "joined" /\ s[j].who = t
    BY <1>2 DEF Front
  <2> QED
    BY <2>1, <2>2, <2>3 DEF Front
<1> QED
  BY <1>2, <1>3

\* A step of one coroutine leaves what the others have still to send.
LEMMA TurnsOthers ==
  ASSUME RelayInv, NEW c \in Client, Turns(c)
  PROVE  \A y \in Client \ {c} : todo'[y] = todo[y]
<1>0. LoopInv /\ PairInv
  BY DEF RelayInv
<1>1. Writes(c) => \A y \in Client \ {c} : todo'[y] = todo[y]
  BY <1>0, WritesDo
<1>2. Skips(c) => \A y \in Client \ {c} : todo'[y] = todo[y]
  BY <1>0, SkipsDo, SentOneDoes
<1>3. Drops(c) \/ Relay(c) => \A y \in Client \ {c} : todo'[y] = todo[y]
  BY <1>0, DropsDo, RelayDoes
<1>4. Queue(c) \/ Done(c) => todo' = todo
  BY <1>0, QueueDoes, DoneDoes
<1> QED
  BY <1>1, <1>2, <1>3, <1>4 DEF Turns, Answers, Joins, LostConnection, loop

\* A pairing is told only when it begins.
LEMMA TurnsSends ==
  ASSUME RelayInv, NEW c \in Client, Turns(c), NEW i \in 1 .. Len(todo'[c])
  PROVE  \/ \E j \in 1 .. Len(todo[c]) : todo[c][j].f = todo'[c][i].f /\ todo[c][j].to = todo'[c][i].to
         \/ todo'[c][i].f.k # "joined" \/ \E h \in Client : Joins(c, h)
<1>0. TypeOK /\ LoopInv /\ PairInv
  BY DEF RelayInv, LoopInv, TypeInv
<1>1. CASE Sending(c) /\ todo' = SentOne(c)
  <2>1. i + 1 \in 1 .. Len(todo[c]) /\ todo'[c][i] = todo[c][i + 1]
    BY <1>0, <1>1, SentOneDoes
  <2> QED
    BY <2>1
<1>2. CASE Sending(c) /\ todo' = [todo EXCEPT ![c][1].sent = TRUE]
  <2>1. i \in 1 .. Len(todo[c]) /\ todo'[c][i].f = todo[c][i].f /\ todo'[c][i].to = todo[c][i].to
    BY <1>0, <1>2, MarkedDoes
  <2> QED
    BY <2>1
<1>3. CASE todo' = todo
  BY <1>3
<1>4. CASE Drops(c)
  BY <1>0, <1>4, DropsDo, LastWordDoes, FrameIs
<1>5. ASSUME NEW kind, Answers(c, kind)
      PROVE  todo'[c][i].f.k # "joined"
  <2>1. todo'[c] = <<Send(c, Frame(kind, c))>> /\ kind # "joined"
    BY <1>5 DEF Answers
  <2>2. todo'[c][i].f.k = kind
    BY <2>1, FrameIs DEF Send
  <2> QED
    BY <2>1, <2>2
<1>6. CASE Relay(c)
  <2>1. Takes(c, "byte") /\ todo'[c] = IF peer[c] = Nobody THEN << >> ELSE <<Send(peer[c], up[c][1])>>
    BY <1>0, <1>6, RelayDoes
  <2>2. up[c][1].k = "byte"
    BY <1>0, <2>1, TakesDo
  <2> QED
    BY <2>1, <2>2 DEF Send
<1>7. Writes(c) => Sending(c) /\ (todo' = SentOne(c) \/ todo' = [todo EXCEPT ![c][1].sent = TRUE])
  BY <1>0, WritesDo
<1>8. Skips(c) => Sending(c) /\ todo' = SentOne(c)
  BY <1>0, SkipsDo
<1>9. Queue(c) \/ Done(c) \/ LostConnection(c) => todo' = todo
  BY <1>0, QueueDoes, DoneDoes DEF LostConnection, loop
<1> QED
  BY <1>1, <1>2, <1>3, <1>4, <1>5, <1>6, <1>7, <1>8, <1>9 DEF Turns

\* A coroutine that has read one frame and departs not, before it has all sent.
LEMMA TurnsNext ==
  ASSUME RelayInv, NEW c \in Client, Turns(c), NEW y \in Client, next[y] = "read", ~(Drops(c) /\ y = c)
  PROVE  next'[y] = "read" /\ (y \in ended' <=> y \in ended)
<1>0. LoopInv /\ PairInv
  BY DEF RelayInv
<1>1. Done(c) => next'[y] = "read" /\ (y \in ended' <=> y \in ended)
  BY <1>0, DoneDoes
<1>2. Drops(c) => next'[y] = "read" /\ ended' = ended
  BY <1>0, DropsDo DEF ends
<1> QED
  BY <1>0, <1>1, <1>2, WritesDo, QueueDoes, SkipsDo, RelayDoes
  DEF Turns, Answers, Joins, LostConnection, ends, loop

\* Neither of two who are paired is let into a room.
LEMMA OpenMeets ==
  ASSUME RelayInv, NEW t \in Client, NEW r \in Client, t # r, Open(t, r),
         NEW c \in Client, NEW h \in Client, Joins(c, h)
  PROVE  c # t /\ c # r /\ (Together(t, r) => h # t /\ h # r)
<1>0. /\ TypeOK /\ Untouched(c) /\ Owing(c) /\ Owing(t) /\ PairInv /\ peer[h] = Nobody /\ Nobody \notin Client
      /\ next[r] = "read"
  BY MeetingAsks DEF RelayInv, BaseInv, LoopInv, TypeInv, Joins, Open, Ready
<1>1. ASSUME Leaves(t, r) \/ Left(t, r)
      PROVE  \E f \in Flight(r) : f.who = t /\ f.k \in News /\ f \in FrameOf
  <2>1. CASE Leaves(t, r)
    <3>1. Sending(t) /\ Dest(t) = r /\ todo[t][1].f.k = "peer_left"
      BY <2>1 DEF Leaves, Parting, SendsTo
    <3>2. 1 \in 1 .. Len(todo[t]) /\ todo[t][1].to = r /\ todo[t][1].f \in FrameOf
      BY <1>0, <3>1, FirstTypes DEF Dest
    <3> QED
      BY <1>0, <3>1, <3>2, Flying DEF Owing, News
  <2>2. CASE Left(t, r)
    <3>1. PICK m \in 1 .. Len(down[r]) : down[r][m].k = "peer_left" /\ down[r][m].who = t
      BY <2>2 DEF Left
    <3> QED
      BY <1>0, <3>1, Flying, Lengths DEF News
  <2> QED
    BY <1>1, <2>1, <2>2
<1>2. c # t
  BY <1>0, <1>1 DEF Open, Together, Untouched, Unknown, Hears
<1>3. c # r
  BY <1>0, <1>1 DEF Open, Together, Untouched, Unknown, Hears
<1>4. Together(t, r) => h # t /\ h # r
  BY <1>0 DEF Together, PairInv, PairingMutual, Leaving
<1> QED
  BY <1>2, <1>3, <1>4

\* What is required of a link's end at the server, step by step.
LEMMA ReadyTurns ==
  ASSUME RelayInv, [Next]_vars, NEW c \in Client, Turns(c), NEW t \in Client, NEW r \in Client, t # r,
         Open(t, r), r \notin gone
  PROVE  Ready(t, r)' /\ ~(Drops(c) /\ c = r)
<1>0. TypeOK /\ LoopInv /\ Ready(t, r) /\ Owing(t) /\ UNCHANGED <<with, taken>>
  BY TurnsPlayer DEF RelayInv, BaseInv, LoopInv, TypeInv, Open, player
<1>1. ~(Drops(c) /\ c = r)
  <2> SUFFICES ASSUME Drops(r) PROVE FALSE
    OBVIOUS
  <2>1. Sending(r) /\ todo[r][1].f.k = "joined"
    BY DropperGone
  <2>2. 1 \in 1 .. Len(todo[r])
    BY <1>0, <2>1, FirstTypes
  <2> QED
    BY <1>0, <2>1, <2>2 DEF Ready
<1>2. ~(\E h \in Client : Joins(c, h)) \/ (c # t /\ c # r)
  BY OpenMeets
<1>3. r \notin ended' /\ next'[r] = "read"
  BY <1>0, <1>1, TurnsNext DEF Ready
<1>4. ASSUME NEW i \in 1 .. Len(todo'[r]) PROVE todo'[r][i].f.k # "joined"
  BY <1>0, <1>2, <1>4, TurnsOthers, TurnsSends DEF Ready
<1>5. ASSUME SendsTo(t, r)' PROVE todo'[t][1].f.k # "joined"
  <2>1. CASE t # c
    <3>1. todo'[t] = todo[t]
      BY <2>1, TurnsOthers
    <3> QED
      BY <1>0, <1>5, <3>1 DEF Ready, SendsTo, Sending, Dest
  <2>2. CASE t = c
    <3>1. TypeOK'
      BY NextLoop DEF RelayInv, LoopInv, TypeInv
    <3>2. 1 \in 1 .. Len(todo'[t]) /\ todo'[t][1].to = r
      <4>1. todo'[t] \in Seq(SendOf) /\ todo'[t] # << >> /\ todo'[t][1].to = r
        BY <1>5, <3>1 DEF TypeOK, SendOf, SendsTo, Sending, Dest
      <4> QED
        BY <4>1
    <3> SUFFICES ASSUME todo'[t][1].f.k = "joined" PROVE FALSE
      OBVIOUS
    <3>3. PICK j \in 1 .. Len(todo[t]) : todo[t][j].f = todo'[t][1].f /\ todo[t][j].to = r
      BY <1>2, <2>2, <3>2, TurnsSends
    <3>4. j = 1
      BY <1>0, <3>3 DEF Owing
    <3>5. SendsTo(t, r) /\ todo[t][1].f.k = "joined"
      BY <1>0, <3>3, <3>4, Lengths DEF SendsTo, Sending, Dest
    <3> QED
      BY <1>0, <3>5 DEF Ready
  <2> QED
    BY <2>1, <2>2
<1> QED
  BY <1>0, <1>1, <1>3, <1>4, <1>5 DEF Ready

\* A step that leaves the bytes of a player where they are.
LEMMA ChainFrame ==
  ASSUME NEW t, NEW r, Chain(t, r), taken'[r] = taken[r], said'[t] = said[t],
         Num(down'[r], t) = Num(down[r], t), Rising(down'[r], t), Held(t)' = Held(t),
         Num(up'[t], t) = Num(up[t], t), Rising(up'[t], t), Carries(t)' => Dest(t)' = r
  PROVE  Chain(t, r)'
BY DEF Chain, InOrder, Whole, Got

\* A byte is relayed, or written.
LEMMA ChainMoves ==
  ASSUME NEW t, NEW r, Chain(t, r), taken'[r] = taken[r], said'[t] = said[t], NEW n,
         Rising(down'[r], t), Rising(up'[t], t), Carries(t)' => Dest(t)' = r,
         \/ /\ Num(down'[r], t) = Num(down[r], t) /\ Held(t) = {} /\ Held(t)' = {n}
            /\ Num(up[t], t) = {n} \cup Num(up'[t], t) /\ Below({n}, Num(up'[t], t))
         \/ /\ Num(down'[r], t) = Num(down[r], t) \cup {n} /\ Held(t) = {n} /\ Held(t)' = {}
            /\ Num(up'[t], t) = Num(up[t], t)
  PROVE  Chain(t, r)'
<1>1. Whole(t, r)'
  BY DEF Chain, Whole, Got
<1>2. InOrder(t, r)'
  BY DEF Chain, InOrder, Below, Got
<1> QED
  BY <1>1, <1>2 DEF Chain

\* What a coroutine sends next: after its first frame, or with none.
LEMMA NextSend ==
  ASSUME TypeOK, NEW t \in Client, Owing(t), Sending(t), todo' = SentOne(t)
  PROVE  ~Carries(t)' /\ (Sending(t)' => Dest(t)' = t)
<1> SUFFICES ASSUME Sending(t)' PROVE todo'[t][1].f.k # "byte" /\ todo'[t][1].to = t
  BY DEF Carries, Dest
<1>1. todo'[t] = Tail(todo[t]) /\ todo[t] \in Seq(SendOf) /\ todo[t] # << >>
  BY DEF SentOne, TypeOK, SendOf, Sending
<1>2. /\ \A i \in 1 .. Len(todo'[t]) : i + 1 \in 1 .. Len(todo[t]) /\ todo'[t][i] = todo[t][i + 1]
      /\ todo'[t] \in Seq(SendOf) /\ todo'[t] # << >>
  BY <1>1, HeadTail DEF Sending
<1>3. 1 + 1 \in 1 .. Len(todo[t]) /\ todo'[t][1] = todo[t][1 + 1]
  <2>1. 1 \in 1 .. Len(todo'[t])
    BY <1>2
  <2> QED
    BY <1>2, <2>1
<1> QED
  BY <1>3 DEF Owing

\* A step of another coroutine leaves a player's bytes alone.
LEMMA ChainOthers ==
  ASSUME RelayInv, [Next]_vars, NEW c \in Client, Turns(c), NEW t \in Client, NEW r \in Client, t # r,
         Chain(t, r), c # t
  PROVE  Chain(t, r)'
<1>0. TypeOK /\ LoopInv /\ PairInv /\ Owing(c) /\ UNCHANGED <<said, taken>> /\ todo'[t] = todo[t]
  BY TurnsPlayer, TurnsOthers DEF RelayInv, BaseInv, LoopInv, TypeInv, player
<1>1. up'[t] = up[t]
  <2>1. \A kind : Takes(c, kind) => up'[t] = up[t]
    BY <1>0, TakesDo
  <2>2. Drops(c) => up'[t] = up[t]
    BY <1>0, <2>1, DropsDo
  <2> QED
    BY <1>0, <2>1, <2>2, WritesDo, QueueDoes, SkipsDo, RelayDoes, DoneDoes
    DEF Turns, Answers, Joins, LostConnection, wires
<1>2. Held(t)' = Held(t) /\ (Carries(t)' <=> Carries(t)) /\ (Carries(t)' => Dest(t)' = Dest(t))
  BY <1>0 DEF Held, Carries, Sending, Dest
<1>3. Num(down'[r], t) = Num(down[r], t) /\ Rising(down'[r], t)
  <2>1. CASE down'[r] = down[r]
    BY <2>1 DEF Chain, InOrder
  <2>2. CASE Writes(c) /\ down'[r] # down[r]
    <3>1. Sending(c) /\ Dest(c) = r /\ down'[r] = Append(down[r], todo[c][1].f)
      BY <1>0, <2>2, WritesDo
    <3>2. todo[c][1].f \in FrameOf /\ 1 \in 1 .. Len(todo[c]) /\ down[r] \in Seq(FrameOf)
      BY <1>0, <3>1, FirstTypes, Typed
    <3>3. ~IsByte(todo[c][1].f, t)
      BY <1>0, <3>1, <3>2 DEF Owing, IsByte, Dest
    <3>4. /\ Len(down'[r]) = Len(down[r]) + 1 /\ down'[r][Len(down[r]) + 1] = todo[c][1].f
          /\ \A i \in 1 .. Len(down[r]) : down'[r][i] = down[r][i]
      BY <3>1, <3>2, Longer
    <3> QED
      BY <3>2, <3>3, <3>4, NumMore DEF Chain, InOrder
  <2>3. Writes(c) \/ down' = down
    BY <1>0, QueueDoes, SkipsDo, DropsDo, RelayDoes, DoneDoes DEF Turns, Answers, Joins, LostConnection, wires
  <2> QED
    BY <2>1, <2>2, <2>3
<1> QED
  BY <1>0, <1>1, <1>2, <1>3, ChainFrame DEF Chain, InOrder

\* Whose bytes are relayed is together with the player they go to.
LEMMA RelayTogether ==
  ASSUME RelayInv, NEW t \in Client, NEW r \in Client, t # r, Open(t, r), Relay(t)
  PROVE  Together(t, r) /\ peer[t] = r
<1>0. TypeOK /\ LoopInv /\ PairInv /\ Takes(t, "byte") /\ next[r] = "read"
  BY RelayDoes DEF RelayInv, LoopInv, TypeInv, Open, Ready
<1>1. /\ todo[t] = << >> /\ next[t] = "read" /\ t \notin ended /\ Has(up[t], "byte")
  BY <1>0, TakesDo DEF Has
<1>2. Together(t, r)
  BY <1>1 DEF Open, Leaves, Parting, SendsTo, Sending, Left, Departed
<1>3. peer[t] = r
  <2>1. peer[r] = t /\ peer[r] # Nobody
    BY <1>0, <1>2 DEF Together
  <2> QED
    BY <1>0, <2>1 DEF PairInv, PairingMutual, Leaving
<1> QED
  BY <1>2, <1>3

\* A frame taken from a player's wire that is no byte.
LEMMA ChainTakes ==
  ASSUME LoopInv, NEW t \in Client, NEW kind, kind # "byte", Takes(t, kind), Rising(up[t], t)
  PROVE  Num(up'[t], t) = Num(up[t], t) /\ Rising(up'[t], t)
<1>1. up[t] \in Seq(FrameOf) /\ up[t] # << >> /\ up'[t] = Tail(up[t]) /\ ~IsByte(up[t][1], t)
  <2>1. TypeOK /\ up[t][1].k = kind /\ up[t] # << >>
    BY TakesDo
  <2>2. up'[t] = Tail(up[t])
    BY <2>1 DEF Takes, TypeOK
  <2> QED
    BY <2>1, <2>2, Typed DEF IsByte
<1> QED
  BY <1>1, NumTail

\* A step of a player's own coroutine moves his bytes on, or leaves them alone.
LEMMA ChainOwn ==
  ASSUME RelayInv, [Next]_vars, NEW t \in Client, Turns(t), NEW r \in Client, t # r,
         Open(t, r), r \notin gone
  PROVE  Chain(t, r)'
<1>0. /\ TypeOK /\ LoopInv /\ PairInv /\ Owing(t) /\ Speaks(t) /\ UNCHANGED <<said, taken>> /\ Chain(t, r)
      /\ Ready(t, r) /\ Ends(r)
  BY TurnsPlayer DEF RelayInv, BaseInv, LoopInv, TypeInv, player, Open
<1>1. CASE Writes(t)
  <2>1. /\ Sending(t) /\ Dest(t) \in Client /\ ~todo[t][1].sent /\ up' = up
        /\ \A y \in Client \ {Dest(t)} : down'[y] = down[y]
        /\ IF Dead(Dest(t)) \/ Dest(t) \in gone THEN down'[Dest(t)] = down[Dest(t)]
            ELSE down'[Dest(t)] = Append(down[Dest(t)], todo[t][1].f)
        /\ todo' = [todo EXCEPT ![t][1].sent = TRUE] \/ todo' = SentOne(t)
    BY <1>0, <1>1, WritesDo
  <2>2. 1 \in 1 .. Len(todo[t]) /\ todo[t][1].f \in FrameOf /\ down[r] \in Seq(FrameOf)
    BY <1>0, <2>1, FirstTypes, Typed
  <2>3. /\ Held(t)' = {} /\ (Carries(t)' => Dest(t)' = r)
        /\ Held(t) = IF Carries(t) THEN {todo[t][1].f.n} ELSE {}
    <3>1. CASE todo' = [todo EXCEPT ![t][1].sent = TRUE]
      <4>1. todo'[t][1].sent /\ todo'[t][1].f = todo[t][1].f /\ todo'[t][1].to = todo[t][1].to
        <5>1. 1 \in 1 .. Len(todo'[t])
          BY <1>0, <2>1, <2>2, <3>1, MarkedDoes
        <5>2. \A i \in 1 .. Len(todo'[t]) :
              /\ todo'[t][i].f = todo[t][i].f /\ todo'[t][i].to = todo[t][i].to
              /\ i = 1 => todo'[t][i].sent
          <6>1. TypeOK /\ Sending(t) /\ todo' = [todo EXCEPT ![t][1].sent = TRUE]
            BY <1>0, <2>1, <3>1
          <6> QED
            BY <6>1, MarkedDoes
        <5> QED
          BY <5>1, <5>2
      <4> QED
        BY <1>0, <2>1, <4>1 DEF Held, Carries, Dest, Chain
    <3>2. CASE todo' = SentOne(t)
      BY <1>0, <2>1, <3>2, NextSend DEF Held
    <3> QED
      BY <2>1, <3>1, <3>2
  <2>4. CASE Carries(t)
    <3>1. Dest(t) = r /\ IsByte(todo[t][1].f, t)
      BY <1>0, <2>2, <2>4 DEF Chain, Carries, Owing, IsByte, Dest
    <3>2. down'[r] = Append(down[r], todo[t][1].f)
      BY <1>0, <2>1, <3>1 DEF Ready, Dead, Ends
    <3>3. /\ Len(down'[r]) = Len(down[r]) + 1 /\ down'[r][Len(down[r]) + 1] = todo[t][1].f
          /\ \A i \in 1 .. Len(down[r]) : down'[r][i] = down[r][i]
      BY <2>2, <3>2, Longer
    <3>5. Held(t) = {todo[t][1].f.n}
      BY <2>3, <2>4
    <3>4. Num(down'[r], t) = Num(down[r], t) \cup {todo[t][1].f.n} /\ Rising(down'[r], t)
      <4>1. Rising(down[r], t) /\ Below(Num(down[r], t), {todo[t][1].f.n})
        BY <1>0, <3>5 DEF Chain, InOrder
      <4> QED
        <5>1. PICK s, q, f : s = down'[r] /\ q = down[r] /\ f = todo[t][1].f
          OBVIOUS
        <5>2. /\ q \in Seq(FrameOf) /\ f \in FrameOf /\ Rising(q, t) /\ IsByte(f, t)
              /\ Len(s) = Len(q) + 1 /\ s[Len(q) + 1] = f /\ \A i \in 1 .. Len(q) : s[i] = q[i]
              /\ \A a \in Num(q, t) : a < f.n
          BY <2>2, <3>1, <3>3, <4>1, <5>1 DEF Below
        <5>3. (\A a : a \in Num(s, t) <=> a \in Num(q, t) \/ a = f.n) /\ Rising(s, t)
          BY <5>2, NumByte
        <5> QED
          BY <5>1, <5>3
    <3> QED
      BY <1>0, <2>1, <2>3, <3>4, <3>5, ChainMoves DEF Chain, InOrder
  <2>5. CASE ~Carries(t)
    <3>1. Num(down'[r], t) = Num(down[r], t) /\ Rising(down'[r], t)
      <4>1. CASE down'[r] = down[r]
        BY <1>0, <4>1 DEF Chain, InOrder
      <4>2. CASE down'[r] = Append(down[r], todo[t][1].f)
        <5>1. /\ Len(down'[r]) = Len(down[r]) + 1 /\ down'[r][Len(down[r]) + 1] = todo[t][1].f
              /\ \A i \in 1 .. Len(down[r]) : down'[r][i] = down[r][i]
          BY <2>2, <4>2, Longer
        <5>2. ~IsByte(todo[t][1].f, t)
          BY <2>1, <2>5 DEF Carries, IsByte
        <5> QED
          BY <1>0, <2>2, <5>1, <5>2, NumMore DEF Chain, InOrder
      <4> QED
        BY <2>1, <4>1, <4>2
    <3>2. Held(t)' = Held(t)
      BY <2>3, <2>5
    <3> QED
      BY <1>0, <2>1, <2>3, <3>1, <3>2, ChainFrame DEF Chain, InOrder
  <2> QED
    BY <2>4, <2>5
<1>2. ASSUME down' = down, Held(t) = {}, ~Carries(t)', Num(up'[t], t) = Num(up[t], t), Rising(up'[t], t)
      PROVE  Chain(t, r)'
  <2>1. Held(t)' = {}
    BY <1>2 DEF Held
  <2> QED
    BY <1>0, <1>2, <2>1, ChainFrame DEF Chain, InOrder
<1>3. CASE UNCHANGED <<todo, down, up>>
  BY <1>0, <1>3, ChainFrame DEF Chain, InOrder, Held, Carries, Sending, Dest
<1>4. CASE Skips(t)
  <2>1. Sending(t) /\ todo[t][1].sent /\ todo' = SentOne(t) /\ down' = down /\ up' = up
    BY <1>0, <1>4, SkipsDo DEF wires
  <2>2. Held(t) = {} /\ ~Carries(t)'
    BY <1>0, <2>1, NextSend DEF Held
  <2> QED
    BY <1>0, <1>2, <2>1, <2>2 DEF Chain, InOrder
<1>5. CASE Drops(t)
  <2>1. /\ down' = down /\ todo'[t] = LastWord(t) /\ peer[t] # t
        /\ \/ Sending(t) /\ todo[t][1].f.k # "byte" /\ up' = up
           \/ todo[t] = << >> /\ (Takes(t, "leave") \/ up' = up)
    BY <1>0, <1>5, DropsDo
  <2>2. Held(t) = {}
    BY <2>1 DEF Held, Carries, Sending
  <2>3. ~Carries(t)'
    <3> SUFFICES ASSUME Sending(t)' PROVE todo'[t][1].f.k # "byte"
      BY DEF Carries
    <3>1. todo'[t] = <<Send(peer[t], Frame("peer_left", t))>>
      BY <2>1 DEF LastWord, Sending
    <3> QED
      BY <3>1, FrameIs DEF Send
  <2>4. Num(up'[t], t) = Num(up[t], t) /\ Rising(up'[t], t)
    BY <1>0, <2>1, ChainTakes DEF Chain, InOrder
  <2> QED
    BY <1>2, <2>1, <2>2, <2>3, <2>4
<1>6. ASSUME NEW kind, Answers(t, kind)
      PROVE  Chain(t, r)'
  <2>1. /\ down' = down /\ todo'[t] = <<Send(t, Frame(kind, t))>> /\ kind # "byte"
        /\ \E k : k # "byte" /\ Takes(t, k)
    BY <1>6 DEF Answers
  <2>2. todo[t] = << >>
    BY <1>0, <2>1, TakesDo
  <2>3. Held(t) = {} /\ ~Carries(t)'
    <3>1. todo'[t][1].f.k = kind
      BY <2>1, FrameIs DEF Send
    <3> QED
      BY <2>1, <2>2, <3>1 DEF Held, Carries, Sending
  <2>4. Num(up'[t], t) = Num(up[t], t) /\ Rising(up'[t], t)
    BY <1>0, <2>1, ChainTakes DEF Chain, InOrder
  <2> QED
    BY <1>2, <2>1, <2>3, <2>4
<1>7. CASE Relay(t)
  <2>1. /\ Takes(t, "byte") /\ down' = down /\ todo'[t] = <<Send(r, up[t][1])>>
    BY <1>0, <1>7, RelayDoes, RelayTogether
  <2>2. /\ todo[t] = << >> /\ up[t][1].k = "byte" /\ up[t][1].who = t /\ up[t] # << >>
        /\ up[t] \in Seq(FrameOf) /\ up'[t] = Tail(up[t])
    <3>1. todo[t] = << >> /\ up[t][1].k = "byte" /\ up[t] # << >> /\ 1 \in 1 .. Len(up[t])
      BY <1>0, <2>1, TakesDo
    <3>2. up'[t] = Tail(up[t])
      BY <1>0, <2>1 DEF Takes, TypeOK
    <3> QED
      BY <1>0, <3>1, <3>2, Typed DEF Speaks
  <2>3. /\ Num(up[t], t) = {up[t][1].n} \cup Num(up'[t], t) /\ Below({up[t][1].n}, Num(up'[t], t))
        /\ Rising(up'[t], t)
    BY <1>0, <2>2, NumTail DEF IsByte, Chain, InOrder
  <2>4. /\ Held(t) = {} /\ Held(t)' = {up[t][1].n} /\ Dest(t)' = r
    <3>1. todo'[t] # << >> /\ todo'[t][1] = Send(r, up[t][1])
      BY <2>1
    <3> QED
      BY <2>2, <3>1 DEF Held, Carries, Sending, Dest, Send
  <2> QED
    BY <1>0, <2>1, <2>3, <2>4, ChainMoves DEF Chain, InOrder
<1>8. ~(\E h \in Client : Joins(t, h))
  BY OpenMeets
<1>9. Queue(t) \/ Done(t) \/ LostConnection(t) => UNCHANGED <<todo, down, up>>
  BY <1>0, QueueDoes, DoneDoes DEF LostConnection, loop, wires
<1> QED
  BY <1>1, <1>3, <1>4, <1>5, <1>6, <1>7, <1>8, <1>9 DEF Turns

\* After a step of a coroutine it runs, or none does.
LEMMA TurnsRun ==
  ASSUME RelayInv, NEW c \in Client, Turns(c)
  PROVE  running \in {c, Nobody} /\ running' \in {c, Nobody}
<1>0. LoopInv /\ PairInv /\ AskInv
  BY DEF RelayInv
<1>1. \A kind : Takes(c, kind) => running = Nobody /\ running' = c
  BY <1>0, TakesDo
<1>2. Writes(c) => running \in {c, Nobody} /\ running' \in {c, Nobody}
  BY <1>0, WritesDo
<1>3. Queue(c) \/ Skips(c) \/ Drops(c) \/ Done(c) => running \in {c, Nobody} /\ running' \in {c, Nobody}
  BY <1>0, QueueDoes, SkipsDo, DropsDo, DoneDoes
<1> QED
  BY <1>1, <1>2, <1>3 DEF Turns, Answers, Joins, Relay, LostConnection, loop

\* Who relays nothing any more does not begin again.
LEMMA DepartedTurns ==
  ASSUME RelayInv, NEW c \in Client, Turns(c), NEW t \in Client, Departed(t)
  PROVE  Departed(t)'
<1>0. LoopInv /\ PairInv /\ TypeOK /\ Ends(t) /\ gone' = gone
  BY TurnsPlayer DEF RelayInv, LoopInv, TypeInv, BaseInv, player
<1>1. ended \subseteq ended'
  <2>1. Done(c) => ended \subseteq ended'
    <3> SUFFICES ASSUME Done(c), NEW y \in ended PROVE y \in ended'
      OBVIOUS
    <3>1. y \in Client /\ (y # c => y \in ended')
      BY <1>0, DoneDoes DEF TypeOK
    <3>2. y = c => y \in ended'
      BY <1>0, DoneDoes
    <3> QED
      BY <3>1, <3>2
  <2>2. Drops(c) => ended' = ended
    BY <1>0, DropsDo DEF ends
  <2> QED
    BY <1>0, <2>1, <2>2, WritesDo, QueueDoes, SkipsDo, RelayDoes
    DEF Turns, Answers, Joins, LostConnection, ends
<1>2. CASE t \in ended
  BY <1>1, <1>2 DEF Departed
<1>3. CASE t \in gone /\ ~Has(up[t], "byte")
  <2>1. CASE up'[t] = up[t]
    BY <1>0, <1>3, <2>1 DEF Departed
  <2>2. ASSUME NEW kind, Takes(c, kind), c = t PROVE ~Has(up'[t], "byte")
    <3> SUFFICES ASSUME NEW i \in 1 .. Len(up'[t]), up'[t][i].k = "byte" PROVE FALSE
      BY DEF Has
    <3>1. i + 1 \in 1 .. Len(up[t]) /\ up'[t][i] = up[t][i + 1]
      BY <1>0, <2>2, TakesDo
    <3> QED
      BY <1>3, <3>1 DEF Has
  <2>3. up'[t] = up[t] \/ \E kind : Takes(c, kind) /\ c = t
    <3>1. \A kind : Takes(c, kind) => up'[t] = up[t] \/ c = t
      BY <1>0, TakesDo
    <3>2. Drops(c) => up' = up \/ \E kind : Takes(c, kind)
      BY <1>0, DropsDo
    <3> QED
      BY <1>0, <3>1, <3>2, WritesDo, QueueDoes, SkipsDo, RelayDoes, DoneDoes
      DEF Turns, Answers, Joins, LostConnection, wires
  <2> QED
    BY <1>0, <1>3, <2>1, <2>2, <2>3 DEF Departed
<1>4. CASE next[t] # "read"
  <2>1. CASE next'[t] # "read"
    BY <2>1 DEF Departed
  <2>2. CASE Done(c) /\ c = t
    <3>1. CASE next[t] = "close"
      BY <1>0, <2>2, <3>1, DoneDoes DEF Departed
    <3>2. CASE next[t] = "unpair"
      <4>1. t \in gone /\ up'[t] = << >>
        BY <1>0, <2>2, <3>2, DoneDoes DEF Ends, wires
      <4> QED
        BY <1>0, <4>1 DEF Departed, Has
    <3> QED
      BY <1>0, <1>4, <3>1, <3>2, Typed
  <2>3. next'[t] # "read" \/ (Done(c) /\ c = t)
    <3>1. Drops(c) => next'[t] # "read"
      BY <1>0, <1>4, DropsDo
    <3>2. Done(c) => next'[t] = next[t] \/ c = t
      BY <1>0, DoneDoes
    <3> QED
      BY <1>0, <1>4, <3>1, <3>2, WritesDo, QueueDoes, SkipsDo, RelayDoes
      DEF Turns, Answers, Joins, LostConnection, loop
  <2> QED
    BY <2>1, <2>2, <2>3
<1> QED
  BY <1>2, <1>3, <1>4 DEF Departed

\* A frame goes behind the front of a wire.
LEMMA FrontWrites ==
  ASSUME TypeOK, NEW t, NEW r \in Client, WholeFront(t, r), with' = with, NEW f \in FrameOf,
         down'[r] = Append(down[r], f), f.k \notin News \/ (f.k = "byte" /\ f.who = t)
  PROVE  WholeFront(t, r)'
<1>1. PICK j \in 0 .. Len(down[r]) : Greeted(r, j) /\ Front(down[r], t, j, Len(down[r]) + 1)
  BY DEF WholeFront
<1>2. /\ Len(down[r]) \in Nat /\ Len(down'[r]) = Len(down[r]) + 1 /\ down'[r][Len(down[r]) + 1] = f
      /\ \A i \in 1 .. Len(down[r]) : down'[r][i] = down[r][i]
  BY Typed, Longer
<1>3. Front(down'[r], t, j, Len(down'[r]) + 1)
  <2>1. PICK s, q : s = down'[r] /\ q = down[r]
    OBVIOUS
  <2>2. PICK m : m = Len(q) + 1
    OBVIOUS
  <2>3. /\ Len(q) \in Nat /\ m \in 1 .. Len(q) + 1 /\ Front(q, t, j, m) /\ Len(s) = m
        /\ \A i \in 1 .. Len(q) : s[i] = q[i]
    BY <1>1, <1>2, <2>1, <2>2
  <2>4. s[m].k \notin News \/ (s[m].k = "byte" /\ s[m].who = t)
    BY <1>2, <2>1, <2>2
  <2>5. Front(s, t, j, m + 1)
    BY <2>3, <2>4, FrontMore
  <2> QED
    BY <2>1, <2>3, <2>5
<1>4. Greeted(r, j)' /\ j \in 0 .. Len(down'[r])
  BY <1>1, <1>2 DEF Greeted
<1> QED
  BY <1>3, <1>4 DEF WholeFront

\* A player's end is on the wire, behind what he has said: so it stays.
LEMMA LeftTurns ==
  ASSUME RelayInv, NEW c \in Client, Turns(c), NEW t \in Client, NEW r \in Client, Left(t, r)
  PROVE  Left(t, r)'
<1>0. TypeOK /\ LoopInv /\ PairInv /\ with' = with /\ Departed(t)'
  BY TurnsPlayer, DepartedTurns DEF RelayInv, LoopInv, TypeInv, player, Left
<1>1. PICK m \in 1 .. Len(down[r]) : \E j \in 0 .. Len(down[r]) :
       /\ down[r][m].k = "peer_left" /\ down[r][m].who = t
       /\ Greeted(r, j) /\ Front(down[r], t, j, m)
  BY DEF Left
<1>2. PICK j \in 0 .. Len(down[r]) :
       /\ down[r][m].k = "peer_left" /\ down[r][m].who = t
       /\ Greeted(r, j) /\ Front(down[r], t, j, m)
  BY <1>1
<1>3. /\ Len(down[r]) \in Nat /\ Len(down'[r]) \in {Len(down[r]), Len(down[r]) + 1}
      /\ \A i \in 1 .. Len(down[r]) : down'[r][i] = down[r][i]
  <2>1. CASE down'[r] = down[r]
    BY <1>0, <2>1, Lengths
  <2>2. CASE Writes(c) /\ down'[r] # down[r]
    <3>1. Sending(c) /\ down'[r] = Append(down[r], todo[c][1].f)
      BY <1>0, <2>2, WritesDo
    <3>2. todo[c][1].f \in FrameOf /\ down[r] \in Seq(FrameOf)
      BY <1>0, <3>1, FirstTypes, Typed
    <3> QED
      BY <3>1, <3>2, Longer
  <2>3. Writes(c) \/ down' = down
    BY <1>0, QueueDoes, SkipsDo, DropsDo, RelayDoes, DoneDoes DEF Turns, Answers, Joins, LostConnection, wires
  <2> QED
    BY <2>1, <2>2, <2>3
<1>4. Front(down'[r], t, j, m)
  <2>1. PICK s, q : s = down'[r] /\ q = down[r]
    OBVIOUS
  <2>2. /\ Len(q) \in Nat /\ m \in 1 .. Len(q) + 1 /\ Front(q, t, j, m)
        /\ \A i \in 1 .. Len(q) : s[i] = q[i]
    BY <1>2, <1>3, <2>1
  <2>3. Front(s, t, j, m)
    BY <2>2, FrontMore
  <2> QED
    BY <2>1, <2>3
<1>5. m \in 1 .. Len(down'[r]) /\ j \in 0 .. Len(down'[r]) /\ Greeted(r, j)'
  BY <1>0, <1>2, <1>3 DEF Greeted
<1> QED
  BY <1>0, <1>2, <1>3, <1>4, <1>5 DEF Left

\* Nobody else is paired with a player or sends to him, unless somebody meets him.
LEMMA StrangersTurns ==
  ASSUME RelayInv, NEW c \in Client, Turns(c), NEW t, NEW r \in Client, Strangers(t, r), ~Meets(r)
  PROVE  Strangers(t, r)'
<1>0. TypeOK /\ LoopInv /\ PairInv /\ Owing(c) /\ Nobody \notin Client
  BY DEF RelayInv, LoopInv, TypeInv, BaseInv
<1> SUFFICES ASSUME NEW y \in Client \ {t, r} PROVE peer'[y] # r /\ ~SendsTo(y, r)'
  BY DEF Strangers
<1>1. peer[y] # r /\ ~SendsTo(y, r)
  BY DEF Strangers
<1>2. peer'[y] # r
  BY <1>0, <1>1, PeersLess DEF Meets
<1>3. CASE y # c
  <2>1. todo'[y] = todo[y]
    BY <1>3, TurnsOthers
  <2> QED
    BY <1>1, <1>2, <2>1 DEF SendsTo, Sending, Dest
<1>4. CASE y = c
  <2> SUFFICES ASSUME Sending(c)' PROVE Dest(c)' # r
    BY <1>2, <1>4 DEF SendsTo
  <2>1. CASE todo'[c] = todo[c]
    BY <1>1, <1>4, <2>1 DEF SendsTo, Sending, Dest
  <2>2. CASE Sending(c) /\ todo' = SentOne(c)
    BY <1>0, <1>4, <2>2, NextSend
  <2>3. CASE Sending(c) /\ todo' = [todo EXCEPT ![c][1].sent = TRUE]
    <3>1. 1 \in 1 .. Len(todo[c]) /\ Len(todo'[c]) = Len(todo[c]) /\ todo'[c][1].to = todo[c][1].to
      BY <1>0, <2>3, FirstTypes, MarkedDoes
    <3> QED
      BY <1>1, <1>4, <2>3, <3>1 DEF SendsTo, Dest
  <2>4. CASE Drops(c)
    <3>1. todo'[c] = LastWord(c)
      BY <1>0, <2>4, DropsDo
    <3>2. todo'[c] = <<Send(peer[c], Frame("peer_left", c))>>
      BY <3>1 DEF LastWord, Sending
    <3> QED
      BY <1>1, <1>4, <3>2 DEF Dest, Send
  <2>5. ASSUME NEW kind, Answers(c, kind) PROVE Dest(c)' # r
    BY <1>4, <2>5 DEF Answers, Dest, Send
  <2>6. ASSUME NEW h \in Client, Joins(c, h) PROVE Dest(c)' # r
    BY <2>6, TidingsAre DEF Joins, Dest, Meets
  <2>7. CASE Relay(c)
    <3>1. todo'[c] = IF peer[c] = Nobody THEN << >> ELSE <<Send(peer[c], up[c][1])>>
      BY <1>0, <2>7, RelayDoes
    <3>2. todo'[c] = <<Send(peer[c], up[c][1])>>
      BY <3>1 DEF Sending
    <3> QED
      BY <1>1, <1>4, <3>2 DEF Dest, Send
  <2>8. Writes(c) => Sending(c) /\ (todo' = SentOne(c) \/ todo' = [todo EXCEPT ![c][1].sent = TRUE])
    BY <1>0, WritesDo
  <2>9. Skips(c) => Sending(c) /\ todo' = SentOne(c)
    BY <1>0, SkipsDo
  <2>10. Queue(c) \/ Done(c) \/ LostConnection(c) => todo' = todo
    BY <1>0, QueueDoes, DoneDoes DEF LostConnection, loop
  <2> QED
    BY <2>1, <2>2, <2>3, <2>4, <2>5, <2>6, <2>7, <2>8, <2>9, <2>10 DEF Turns
<1> QED
  BY <1>3, <1>4

\* What is written to a player who hears of t alone is a byte of t's, or no news.
LEMMA WholeTurns ==
  ASSUME RelayInv, NEW c \in Client, Turns(c), NEW t \in Client, NEW r \in Client, t # r,
         Ready(t, r), WholeFront(t, r),
         Writes(c) /\ Dest(c) = r => c = r \/ (c = t /\ todo[t][1].f.k = "byte")
  PROVE  WholeFront(t, r)'
<1>0. TypeOK /\ LoopInv /\ PairInv /\ with' = with /\ Owing(c)
  BY TurnsPlayer DEF RelayInv, BaseInv, LoopInv, TypeInv, player
<1>1. CASE down'[r] = down[r]
  BY <1>0, <1>1 DEF WholeFront, Greeted
<1>2. CASE Writes(c) /\ down'[r] # down[r]
  <2>1. Sending(c) /\ Dest(c) = r /\ down'[r] = Append(down[r], todo[c][1].f)
    BY <1>0, <1>2, WritesDo
  <2>2. 1 \in 1 .. Len(todo[c]) /\ todo[c][1].f \in FrameOf /\ todo[c][1].to = r
    BY <1>0, <2>1, FirstTypes DEF Dest
  <2>3. todo[c][1].f.k \notin News \/ (todo[c][1].f.k = "byte" /\ todo[c][1].f.who = t)
    <3>1. CASE c = r
      BY <1>0, <2>2, <3>1 DEF Owing, Ready, News
    <3>2. CASE c = t
      BY <1>0, <1>2, <2>1, <2>2, <3>2 DEF Owing
    <3> QED
      BY <1>2, <2>1, <3>1, <3>2
  <2> QED
    BY <1>0, <2>1, <2>2, <2>3, FrontWrites
<1>3. Writes(c) \/ down' = down
  BY <1>0, QueueDoes, SkipsDo, DropsDo, RelayDoes, DoneDoes DEF Turns, Answers, Joins, LostConnection, wires
<1> QED
  BY <1>1, <1>2, <1>3

\* Two who are paired stay so, until t departs.
LEMMA TogetherTurns ==
  ASSUME RelayInv, Patient, [Next]_vars, NEW c \in Client, Turns(c), NEW t \in Client, NEW r \in Client,
         t # r, Open(t, r), Together(t, r), r \notin gone
  PROVE  Together(t, r)' \/ Leaves(t, r)'
<1>0. /\ TypeOK /\ LoopInv /\ PairInv /\ Owing(t) /\ Ready(t, r) /\ BaseInv' /\ Nobody \notin Client
      /\ ~(Drops(c) /\ c = r) /\ UNCHANGED player
  BY NextBase, ReadyTurns, TurnsPlayer DEF RelayInv, BaseInv, LoopInv, TypeInv, Open
<1>1. ~Meets(r) /\ Strangers(t, r)'
  <2>1. ~Meets(r)
    BY OpenMeets DEF Meets
  <2> QED
    BY <2>1, StrangersTurns DEF Together
<1>2. next[t] = "read" /\ peer[t] = r
  BY <1>0 DEF PairInv, PairingMutual, Leaving, Together, Ready
<1>3. WholeFront(t, r)'
  <2>1. ASSUME Writes(c), Dest(c) = r PROVE c = r \/ (c = t /\ todo[t][1].f.k = "byte")
    <3>1. Sending(c)
      BY <1>0, <2>1, WritesDo
    <3>2. c \in {t, r}
      BY <2>1, <3>1 DEF Together, Strangers, SendsTo
    <3>3. c = t => todo[t][1].f.k = "byte"
      <4> SUFFICES ASSUME c = t PROVE todo[t][1].f.k = "byte"
        OBVIOUS
      <4>1. 1 \in 1 .. Len(todo[t]) /\ todo[t][1].to = r /\ SendsTo(t, r)
        BY <1>0, <2>1, <3>1, FirstTypes DEF Dest, SendsTo
      <4>2. todo[t][1].f.k \in News /\ todo[t][1].f.k # "joined"
        BY <1>0, <4>1 DEF Owing, Ready
      <4> QED
        BY <1>0, <1>2, <4>1, <4>2 DEF Owing, News
    <3> QED
      BY <3>2, <3>3
  <2> QED
    BY <1>0, <2>1, WholeTurns DEF Together
<1>4. CASE Drops(c) /\ c = t
  <2>1. peer'[r] = Nobody /\ todo'[t] = LastWord(t) /\ running' = t
    BY <1>0, <1>2, <1>4, DropsDo
  <2>2. todo'[t] = <<Send(r, Frame("peer_left", t))>>
    BY <1>0, <1>2, <2>1 DEF LastWord
  <2>3. Parting(t, r)'
    BY <2>2 DEF Parting, SendsTo, Sending, Dest, Send, Frame
  <2>4. Queued(t, r)'
    BY <1>0, <2>1 DEF Queued, BaseInv, Lined
  <2> QED
    BY <1>1, <1>3, <2>1, <2>3, <2>4 DEF Leaves
<1>5. CASE ~(Drops(c) /\ c = t)
  <2>1. peer'[r] = t
    <3>1. peer[r] = t
      BY DEF Together
    <3>2. Drops(c) => peer'[r] = peer[r]
      <4>1. Drops(c) => c \notin {t, r}
        BY <1>0, <1>5
      <4>2. Drops(c) => peer[c] # r
        BY <4>1 DEF Together, Strangers
      <4> QED
        BY <1>0, <4>1, <4>2, DropsDo
    <3>3. Done(c) => peer'[r] = peer[r]
      <4>1. CASE c = r
        BY <1>0, <4>1, DoneDoes DEF Ready, tables
      <4>2. CASE c # r
        BY <1>0, <4>2, DoneDoes
      <4> QED
        BY <4>1, <4>2
    <3>4. ASSUME NEW h \in Client, Joins(c, h) PROVE peer'[r] = peer[r]
      BY <1>0, <1>1, <3>4 DEF Meets, Joins
    <3> QED
      BY <1>0, <3>1, <3>2, <3>3, <3>4, WritesDo, QueueDoes, SkipsDo, RelayDoes
      DEF Turns, Answers, LostConnection, tables
  <2> QED
    BY <1>1, <1>3, <2>1 DEF Together
<1> QED
  BY <1>4, <1>5

\* In a line t stands ahead of everyone but r.
Ahead(q, t, r) == \A i, j \in 1 .. Len(q) : q[i] = t /\ q[j] \notin {t, r} => i < j

\* A player stays ahead of the others in a line when its first leaves it, or another comes.
LEMMA AheadStays ==
  ASSUME NEW q \in Seq(Client), NEW t, NEW r, NEW c \in Client, c # t, NEW s,
         s = q \/ (s = Tail(q) /\ q # << >>) \/ s = Append(q, c),
         Ahead(q, t, r)
  PROVE  Ahead(s, t, r)
<1> USE DEF Ahead
<1>1. CASE s = q
  BY <1>1
<1>2. CASE s = Tail(q) /\ q # << >>
  <2>1. \A i \in 1 .. Len(s) : i + 1 \in 1 .. Len(q) /\ s[i] = q[i + 1]
    BY <1>2, HeadTail
  <2> SUFFICES ASSUME NEW i \in 1 .. Len(s), NEW j \in 1 .. Len(s), s[i] = t, s[j] \notin {t, r}
               PROVE  i < j
    OBVIOUS
  <2>2. /\ i + 1 \in 1 .. Len(q) /\ j + 1 \in 1 .. Len(q)
        /\ q[i + 1] = t /\ q[j + 1] \notin {t, r}
    BY <2>1
  <2>3. i + 1 < j + 1
    BY <2>2
  <2> QED
    BY <2>3
<1>3. CASE s = Append(q, c)
  <2>1. /\ Len(q) \in Nat /\ Len(s) = Len(q) + 1 /\ s[Len(q) + 1] = c
        /\ \A i \in 1 .. Len(q) : s[i] = q[i]
    BY <1>3, Longer
  <2> SUFFICES ASSUME NEW i \in 1 .. Len(s), NEW j \in 1 .. Len(s), s[i] = t, s[j] \notin {t, r}
               PROVE  i < j
    OBVIOUS
  <2>2. i # Len(q) + 1
    BY <2>1
  <2>3. i \in 1 .. Len(q) /\ q[i] = t
    BY <2>1, <2>2
  <2>4. j = Len(q) + 1 \/ (j \in 1 .. Len(q) /\ q[j] \notin {t, r})
    BY <2>1
  <2> QED
    BY <2>3, <2>4
<1> QED
  BY <1>1, <1>2, <1>3

\* A player who departs: another coroutine's step leaves his last word ahead of the rest.
LEMMA LeavesOthers ==
  ASSUME RelayInv, Patient, [Next]_vars, NEW c \in Client, Turns(c), NEW t \in Client, NEW r \in Client,
         t # r, Open(t, r), Leaves(t, r), r \notin gone, c # t
  PROVE  Leaves(t, r)'
<1>0. /\ TypeOK /\ LoopInv /\ PairInv /\ Ready(t, r) /\ Stands(t) /\ SendsTo(t, r) /\ Nobody \notin Client
      /\ ~(Drops(c) /\ c = r) /\ running \in {c, Nobody} /\ running' \in {c, Nobody}
  BY ReadyTurns, TurnsRun DEF RelayInv, BaseInv, LoopInv, TypeInv, Open, Leaves, Parting
<1>1. running # t /\ running' # t /\ In(line[r], t)
  BY <1>0 DEF Stands, SendsTo
<1>2. line[r] \in Seq(Client) /\ line[r] # << >> /\ Len(line[r]) \in Nat
  <2>1. line[r] \in Seq(Client)
    BY <1>0, Typed
  <2> QED
    BY <1>1, <2>1 DEF In
<1>3. ASSUME Writes(c), Dest(c) = r PROVE c = r /\ line'[r] \in {line[r], Tail(line[r])}
  <2>1. PICK queue \in Seq(Client) :
              /\ queue # << >> /\ queue[1] = c
              /\ (running = c /\ line[r] = << >> /\ queue = <<c>>)
                   \/ (running = Nobody /\ line[r] # << >> /\ queue = line[r])
              /\ line'[r] = queue \/ line'[r] = Tail(queue)
    BY <1>0, <1>3, WritesDo
  <2>2. queue = line[r] /\ line[r][1] = c
    BY <1>2, <2>1
  <2>3. PICK i \in 1 .. Len(line[r]) : line[r][i] = t
    BY <1>1 DEF In
  <2>4. c = r
    <3> SUFFICES ASSUME c # r PROVE FALSE
      OBVIOUS
    <3>1. 1 \in 1 .. Len(line[r]) /\ line[r][1] \notin {t, r}
      BY <1>2, <2>2, <2>3
    <3>2. i < 1
      BY <2>3, <3>1 DEF Leaves, Queued
    <3> QED
      BY <2>3, <3>2
  <2> QED
    BY <2>1, <2>2, <2>4
<1>4. WholeFront(t, r)'
  BY <1>0, <1>3, WholeTurns DEF Leaves
<1>5. Parting(t, r)'
  <2>1. todo'[t] = todo[t]
    BY TurnsOthers
  <2> QED
    BY <2>1 DEF Leaves, Parting, SendsTo, Sending, Dest
<1>6. Queued(t, r)'
  <2>1. line'[r] = line[r] \/ line'[r] = Tail(line[r]) \/ line'[r] = Append(line[r], c)
    <3>1. Writes(c) => line'[r] = line[r] \/ Dest(c) = r
      BY <1>0, WritesDo
    <3>2. Queue(c) => line'[r] = line[r] \/ line'[r] = Append(line[r], c)
      BY <1>0, QueueDoes
    <3>3. Skips(c) => line'[r] = line[r] \/ line'[r] = Tail(line[r])
      BY <1>0, SkipsDo
    <3>4. Drops(c) => line'[r] = line[r] \/ line'[r] = Tail(line[r])
      BY <1>0, DropsDo
    <3>5. Relay(c) \/ Done(c) => line'[r] = line[r]
      BY <1>0, RelayDoes, DoneDoes
    <3> QED
      BY <1>3, <3>1, <3>2, <3>3, <3>4, <3>5 DEF Turns, Answers, Joins, LostConnection, loop
  <2>2. PICK q, s : q = line[r] /\ s = line'[r]
    OBVIOUS
  <2>3. /\ q \in Seq(Client) /\ c # t /\ (s = q \/ (s = Tail(q) /\ q # << >>) \/ s = Append(q, c))
        /\ Ahead(q, t, r)
    BY <1>2, <2>1, <2>2 DEF Leaves, Queued, Ahead
  <2>4. Ahead(s, t, r)
    BY <2>3, AheadStays
  <2> QED
    BY <2>2, <2>4 DEF Queued, Ahead
<1> QED
  BY <1>1, <1>4, <1>5, <1>6 DEF Leaves

\* A player who departs writes his last word, or waits to.
LEMMA LeavesOwn ==
  ASSUME RelayInv, Patient, [Next]_vars, NEW t \in Client, Turns(t), NEW r \in Client,
         t # r, Open(t, r), Leaves(t, r), r \notin gone
  PROVE  Leaves(t, r)' \/ Left(t, r)'
<1>0. /\ TypeOK /\ LoopInv /\ PairInv /\ Ready(t, r) /\ Owing(t) /\ Ends(r) /\ Lined(r) /\ Nobody \notin Client
      /\ SendsTo(t, r) /\ todo[t][1].f.k = "peer_left" /\ ~todo[t][1].sent /\ with' = with
  BY TurnsPlayer DEF RelayInv, BaseInv, LoopInv, TypeInv, Open, Leaves, Parting, player
<1>1. 1 \in 1 .. Len(todo[t]) /\ todo[t][1].f \in FrameOf /\ todo[t][1].f.who = t /\ next[t] # "read"
      /\ Dest(t) = r /\ todo[t] # << >>
  BY <1>0, FirstTypes DEF Owing, SendsTo, Dest, Sending
<1>2. CASE Writes(t)
  <2>1. down'[r] = Append(down[r], todo[t][1].f)
    BY <1>0, <1>1, <1>2, WritesDo DEF Dead, Ready, Ends
  <2>2. /\ Len(down[r]) \in Nat /\ Len(down'[r]) = Len(down[r]) + 1
        /\ down'[r][Len(down[r]) + 1] = todo[t][1].f
        /\ \A i \in 1 .. Len(down[r]) : down'[r][i] = down[r][i]
    BY <1>0, <1>1, <2>1, Typed, Longer
  <2>3. PICK j \in 0 .. Len(down[r]) : Greeted(r, j) /\ Front(down[r], t, j, Len(down[r]) + 1)
    BY DEF Leaves, WholeFront
  <2>4. Front(down'[r], t, j, Len(down[r]) + 1)
    <3>1. PICK s, q : s = down'[r] /\ q = down[r]
      OBVIOUS
    <3>2. PICK m : m = Len(q) + 1
      OBVIOUS
    <3>3. /\ Len(q) \in Nat /\ m \in 1 .. Len(q) + 1 /\ Front(q, t, j, m)
          /\ \A i \in 1 .. Len(q) : s[i] = q[i]
      BY <2>2, <2>3, <3>1, <3>2
    <3>4. Front(s, t, j, m)
      BY <3>3, FrontMore
    <3> QED
      BY <3>1, <3>2, <3>4
  <2>5. PICK m : m = Len(down[r]) + 1
    OBVIOUS
  <2>6. /\ m \in 1 .. Len(down'[r]) /\ j \in 0 .. Len(down'[r]) /\ Greeted(r, j)'
        /\ down'[r][m].k = "peer_left" /\ down'[r][m].who = t /\ Front(down'[r], t, j, m)
    <3>1. m \in 1 .. Len(down'[r]) /\ j \in 0 .. Len(down'[r])
      BY <2>2, <2>3, <2>5
    <3>2. Greeted(r, j)'
      BY <1>0, <2>3 DEF Greeted
    <3>3. down'[r][m].k = "peer_left" /\ down'[r][m].who = t
      BY <1>0, <1>1, <2>2, <2>5
    <3> QED
      BY <2>4, <2>5, <3>1, <3>2, <3>3
  <2>7. Departed(t)'
    BY <1>1, DepartedTurns DEF Departed
  <2> QED
    BY <2>6, <2>7 DEF Left
<1>3. CASE Queue(t)
  <2>1. /\ running = t /\ running' = Nobody /\ line'[r] = Append(line[r], t)
        /\ UNCHANGED <<todo, down>> /\ line[r] \in Seq(Client)
    BY <1>0, <1>1, <1>3, QueueDoes, Typed DEF wires
  <2>2. \A i \in 1 .. Len(line[r]) : line[r][i] \in {t, r}
    <3>1. Strangers(t, r)
      BY <2>1 DEF Leaves
    <3> QED
      BY <1>0, <3>1, Lengths DEF Lined, Strangers
  <2>3. /\ Len(line[r]) \in Nat /\ Len(line'[r]) = Len(line[r]) + 1 /\ line'[r][Len(line[r]) + 1] = t
        /\ \A i \in 1 .. Len(line[r]) : line'[r][i] = line[r][i]
    BY <2>1, Longer
  <2>4. \A i \in 1 .. Len(line'[r]) : line'[r][i] \in {t, r}
    <3> SUFFICES ASSUME NEW i \in 1 .. Len(line'[r]) PROVE line'[r][i] \in {t, r}
      OBVIOUS
    <3>1. i \in 1 .. Len(line[r]) \/ i = Len(line[r]) + 1
      BY <2>3
    <3> QED
      BY <2>2, <2>3, <3>1
  <2>5. Queued(t, r)'
    BY <2>4 DEF Queued
  <2>6. Parting(t, r)' /\ WholeFront(t, r)' /\ running' # t
    BY <1>0, <2>1 DEF Leaves, Parting, SendsTo, Sending, Dest, WholeFront, Greeted
  <2> QED
    BY <2>5, <2>6 DEF Leaves
<1>4. CASE LostConnection(t)
  <2>1. UNCHANGED <<peer, running, todo, line, down, with>>
    BY <1>4 DEF LostConnection, tables, loop, wires, player
  <2> QED
    BY <2>1 DEF Leaves, Parting, SendsTo, Sending, Dest, WholeFront, Greeted, Queued, Strangers
<1>5. ~Skips(t) /\ ~Drops(t) /\ ~Done(t)
  BY <1>0, <1>1, SkipsDo, DropsDo, DoneDoes
<1>6. \A kind : ~Takes(t, kind)
  BY <1>0, <1>1, TakesDo
<1> QED
  BY <1>2, <1>3, <1>4, <1>5, <1>6 DEF Turns, Answers, Joins, Relay

\* A link that is open at the server stays so in every step of the server's.
LEMMA OpenTurns ==
  ASSUME RelayInv, Patient, [Next]_vars, NEW c \in Client, Turns(c), NEW t \in Client, NEW r \in Client,
         t # r, Stream(t, r)
  PROVE  Stream(t, r)'
<1>0. UNCHANGED <<gone, screen>>
  BY TurnsPlayer DEF player
<1>1. CASE r \in gone \/ screen[r] = "lost"
  BY <1>0, <1>1 DEF Stream
<1>2. CASE r \notin gone /\ Open(t, r)
  <2>1. Ready(t, r)'
    BY <1>2, ReadyTurns
  <2>2. Chain(t, r)'
    BY <1>2, ChainOwn, ChainOthers DEF Open
  <2>3. Together(t, r)' \/ Leaves(t, r)' \/ Left(t, r)'
    BY <1>2, TogetherTurns, LeavesOwn, LeavesOthers, LeftTurns DEF Open
  <2> QED
    BY <2>1, <2>2, <2>3 DEF Stream, Open
<1> QED
  BY <1>1, <1>2 DEF Stream

\* What a client reads of a wire whose front is of t alone: no end; the news of the pairing
\* before he has heard it; a byte of t's after.
LEMMA ReadsFront ==
  ASSUME RelayInv, NEW r \in Client, ClientReads(r), ~GetHangUp(r), NEW t \in Client, Ready(t, r),
         NEW m \in 2 .. Len(down[r]) + 1, NEW j, Front(down[r], t, j, m), Greeted(r, j)
  PROVE  /\ \E i \in 0 .. Len(down'[r]) : Front(down'[r], t, i, m - 1) /\ Greeted(r, i)'
         /\ with'[r] \in {Nobody, t}
         /\ down[r][1].k # "peer_left"
         /\ down[r][1].k = "byte" => down[r][1].who = t
         /\ down[r][1].k # "byte" => taken'[r] = taken[r]
<1>0. /\ TypeOK /\ LoopInv /\ Ends(r) /\ Nobody \notin Client
      /\ GetsAnswer(r) \/ GetsJoined(r) \/ GetsByte(r) \/ GetsEnd(r)
  BY GetsDo DEF RelayInv, BaseInv, LoopInv, TypeInv
<1>1. /\ down[r] \in Seq(FrameOf) /\ down[r] # << >> /\ down'[r] = Tail(down[r])
      /\ Len(down[r]) \in Nat /\ Len(down'[r]) = Len(down[r]) - 1
  BY <1>0, GetsDo, ReceivesDo, Typed
<1>2. /\ j \in 0 .. m - 1 /\ (j # 0 => down[r][j].k = "joined" /\ down[r][j].who = t)
      /\ 1 # j /\ down[r][1].k \in News => 1 > j /\ down[r][1].k = "byte" /\ down[r][1].who = t
  <2>1. 1 \in 1 .. m - 1
    OBVIOUS
  <2> QED
    BY <2>1 DEF Front
<1>3. PICK i : i = IF j = 0 THEN 0 ELSE j - 1
  OBVIOUS
<1>4. Front(down'[r], t, i, m - 1) /\ i \in 0 .. Len(down'[r])
  <2>1. Front(Tail(down[r]), t, IF j = 0 THEN 0 ELSE j - 1, m - 1)
    BY <1>1, FrontTail
  <2> QED
    BY <1>1, <1>2, <1>3, <2>1
<1>5. CASE down[r][1].k = "joined"
  <2>1. j = 1 /\ i = 0 /\ down[r][1].who = t
    BY <1>2, <1>3, <1>5 DEF News
  <2>2. with[r] = Nobody /\ taken[r] = << >> /\ screen[r] \notin {"linked", "lost"}
    BY <1>0, <2>1 DEF Greeted, Ready, Ends
  <2>3. GetsJoined(r)
    BY <1>0, <1>5 DEF GetsAnswer, GetsByte, GetsEnd
  <2>4. with'[r] = t /\ taken'[r] = taken[r]
    BY <2>1, <2>2, <2>3 DEF GetsJoined
  <2> QED
    BY <1>0, <1>4, <1>5, <2>1, <2>4 DEF Greeted
<1>6. CASE down[r][1].k # "joined"
  <2>1. j # 1 /\ (i # 0 <=> j # 0)
    BY <1>2, <1>3, <1>6
  <2>2. with'[r] = with[r] /\ (down[r][1].k # "byte" => down[r][1].k \in {"created", "error", "peer_left"})
    BY <1>0, <1>6 DEF GetsAnswer, GetsJoined, GetsByte, GetsEnd
  <2>3. down[r][1].k # "peer_left" /\ (down[r][1].k = "byte" => down[r][1].who = t)
    BY <1>2, <2>1 DEF News
  <2>4. down[r][1].k # "byte" => taken'[r] = taken[r]
    BY <1>0, <1>6, <2>3 DEF GetsAnswer, GetsJoined, GetsByte, GetsEnd
  <2>5. Greeted(r, i)' /\ with'[r] \in {Nobody, t}
    BY <2>1, <2>2 DEF Greeted, Ready
  <2> QED
    BY <1>4, <2>3, <2>4, <2>5
<1> QED
  BY <1>5, <1>6

\* The next of the numbers is the least of those on the wire.
LEMMA NextNumber ==
  ASSUME NEW k \in Nat, NEW s \in Nat, NEW n, NEW D, NEW H, NEW U,
         (1 .. k) \cup ({n} \cup D) \cup H \cup U = 1 .. s,
         Below(1 .. k, {n}), Below({n}, D), Below({n}, H), Below({n}, U)
  PROVE  n = k + 1
<1>1. n \in 1 .. s
  OBVIOUS
<1>2. k < n
  <2>1. CASE k = 0
    BY <1>1, <2>1
  <2>2. CASE k # 0
    BY <2>2 DEF Below
  <2> QED
    BY <2>1, <2>2
<1>3. k + 1 \in 1 .. s /\ k + 1 \notin 1 .. k
  BY <1>1, <1>2
<1>4. k + 1 = n \/ k + 1 \in D \/ k + 1 \in H \/ k + 1 \in U
  BY <1>3
<1>5. ASSUME NEW S, k + 1 \in S, Below({n}, S) PROVE FALSE
  <2>1. n < k + 1
    BY <1>5 DEF Below
  <2> QED
    BY <1>1, <1>2, <2>1
<1> QED
  BY <1>4, <1>5

\* What is received is what the other player has said next.
LEMMA ChainReads ==
  ASSUME RelayInv, Patient, NEW r \in Client, ClientReads(r), ~GetHangUp(r), NEW t \in Client, t # r,
         Chain(t, r), down[r][1].k = "byte" => down[r][1].who = t,
         down[r][1].k # "byte" => taken'[r] = taken[r]
  PROVE  Chain(t, r)'
<1>0. /\ TypeOK /\ LoopInv /\ UNCHANGED <<said, up, todo>>
      /\ GetsAnswer(r) \/ GetsJoined(r) \/ GetsByte(r) \/ GetsEnd(r)
  BY GetsDo, ReceivesDo DEF RelayInv, BaseInv, LoopInv, TypeInv, loop
<1>1. /\ down[r] \in Seq(FrameOf) /\ down[r] # << >> /\ down'[r] = Tail(down[r])
      /\ down[r][1] \in FrameOf /\ Len(taken[r]) \in Nat /\ taken[r] \in Seq(Client \X Nat) /\ said[t] \in Nat
  BY <1>0, GetsDo, ReceivesDo, Typed
<1>2. Rising(down'[r], t)
  BY <1>1, NumTail DEF Chain, InOrder
<1>3. Held(t)' = Held(t) /\ (Carries(t)' <=> Carries(t)) /\ (Carries(t)' => Dest(t)' = r)
  BY <1>0 DEF Held, Carries, Sending, Dest, Chain
<1>4. CASE down[r][1].k # "byte"
  <2>1. Num(down'[r], t) = Num(down[r], t)
    BY <1>1, <1>4, NumTail DEF IsByte, Chain, InOrder
  <2> QED
    BY <1>0, <1>2, <1>3, <1>4, <2>1, ChainFrame DEF Chain, InOrder
<1>5. CASE down[r][1].k = "byte"
  <2> DEFINE n == down[r][1].n
             k == Len(taken[r])
             D == Num(down'[r], t)
             H == Held(t)
             U == Num(up[t], t)
             s == said[t]
  <2>1. taken'[r] = Append(taken[r], <<t, n>>)
    BY <1>0, <1>5 DEF GetsAnswer, GetsJoined, GetsByte, GetsEnd
  <2>2. Num(down[r], t) = {n} \cup D /\ Below({n}, D)
    BY <1>1, <1>5, NumTail DEF IsByte, Chain, InOrder
  <2>3. /\ (1 .. k) \cup ({n} \cup D) \cup H \cup U = 1 .. s
        /\ Below(1 .. k, {n} \cup D) /\ Below({n} \cup D, H) /\ Below({n} \cup D, U)
        /\ Below(1 .. k, H) /\ Below(1 .. k, U) /\ Below(H, U) /\ k \in Nat /\ s \in Nat
    BY <1>1, <2>2 DEF Chain, InOrder, Whole, Got
  <2>7. \A i \in 1 .. k : taken[r][i] = <<t, i>>
    BY DEF Chain
  <2>8. Rising(up'[t], t) /\ Num(up'[t], t) = U /\ Held(t)' = H /\ said'[t] = s
    BY <1>0, <1>3 DEF Chain, InOrder
  <2>9. n \in Nat
    BY <1>1 DEF FrameOf
  <2>10. /\ Len(taken'[r]) = k + 1 /\ taken'[r][k + 1] = <<t, n>>
         /\ \A i \in 1 .. k : taken'[r][i] = taken[r][i]
    BY <1>1, <2>1, <2>9, Longer
  <2> HIDE DEF n, k, D, H, U, s
  <2>4. n = k + 1
    <3>1. Below(1 .. k, {n}) /\ Below({n}, H) /\ Below({n}, U)
      BY <2>3 DEF Below
    <3> QED
      BY <2>2, <2>3, <3>1, NextNumber
  <2>5. 1 .. (k + 1) = (1 .. k) \cup {n}
    BY <2>3, <2>4
  <2>6. /\ (1 .. (k + 1)) \cup D \cup H \cup U = 1 .. s
        /\ Below(1 .. (k + 1), D) /\ Below(1 .. (k + 1), H) /\ Below(1 .. (k + 1), U)
        /\ Below(D, H) /\ Below(D, U)
    <3>1. (1 .. (k + 1)) \cup D \cup H \cup U = 1 .. s
      BY <2>3, <2>5
    <3>2. Below(1 .. (k + 1), D)
      BY <2>2, <2>3, <2>5 DEF Below
    <3>3. Below(1 .. (k + 1), H) /\ Below(1 .. (k + 1), U) /\ Below(D, H) /\ Below(D, U)
      BY <2>3, <2>5 DEF Below
    <3> QED
      BY <3>1, <3>2, <3>3
  <2>11. Got(r)' = 1 .. (k + 1)
    BY <2>10 DEF Got
  <2>12. \A i \in 1 .. Len(taken'[r]) : taken'[r][i] = <<t, i>>
    <3> SUFFICES ASSUME NEW i \in 1 .. (k + 1) PROVE taken'[r][i] = <<t, i>>
      BY <2>10
    <3>1. i \in 1 .. k \/ i = k + 1
      BY <2>3
    <3> QED
      BY <2>4, <2>7, <2>10, <3>1
  <2>13. InOrder(t, r)'
    BY <1>2, <2>3, <2>6, <2>8, <2>11 DEF InOrder, D
  <2>14. Whole(t, r)'
    BY <2>6, <2>8, <2>11 DEF Whole, D
  <2> QED
    BY <1>3, <2>12, <2>13, <2>14 DEF Chain
<1> QED
  BY <1>4, <1>5

\* A step of a client that leaves a link's wire and its end alone leaves its side of the pairing.
LEMMA OpenFrame ==
  ASSUME UNCHANGED <<tables, loop, ends>>, NEW t, NEW r, Open(t, r), Chain(t, r)',
         down'[r] = down[r], taken'[r] = taken[r], with'[r] = with[r],
         Departed(t) => Departed(t)'
  PROVE  Open(t, r)'
<1>1. Ready(t, r)'
  BY DEF Open, Ready, SendsTo, Sending, Dest, loop, ends
<1>2. WholeFront(t, r) => WholeFront(t, r)'
  BY DEF WholeFront, Greeted
<1>3. Together(t, r) => Together(t, r)'
  BY <1>2 DEF Together, Strangers, SendsTo, Sending, Dest, loop, tables
<1>4. Leaves(t, r) => Leaves(t, r)'
  BY <1>2 DEF Leaves, Parting, Queued, Strangers, SendsTo, Sending, Dest, loop, tables
<1>5. Left(t, r) => Left(t, r)'
  BY DEF Left, Greeted
<1> QED
  BY <1>1, <1>3, <1>4, <1>5 DEF Open

\* Who relays nothing any more does not begin again.
LEMMA DepartedClients ==
  ASSUME RelayInv, Patient, NEW c \in Client, ClientReads(c) \/ PlayerActs(c), NEW t \in Client, Departed(t)
  PROVE  Departed(t)'
<1>0. LoopInv /\ TypeOK /\ UNCHANGED <<loop, ends>>
  BY ClientBase DEF RelayInv, LoopInv, TypeInv
<1>1. CASE next[t] # "read" \/ t \in ended
  BY <1>0, <1>1 DEF Departed, loop, ends
<1>2. CASE t \in gone
  <2>1. CASE ClientReads(c)
    <3>1. up' = up /\ gone \subseteq gone'
      BY <1>0, <2>1, HangUpDoes, GetsDo, ReceivesDo DEF wires
    <3> QED
      BY <1>0, <3>1 DEF Departed, loop, ends
  <2>2. CASE PlayerActs(c)
    <3>1. c \notin gone /\ (ActsOpen(c) \/ ActsAsk(c) \/ ActsByte(c) \/ ActsClose(c))
      BY <1>0, <2>2, ActsDo
    <3>2. c # t /\ gone \subseteq gone' /\ up'[t] = up[t]
      BY <1>2, <3>1 DEF ActsOpen, ActsAsk, ActsByte, ActsClose, Puts
    <3> QED
      BY <1>0, <3>2 DEF Departed, loop, ends
  <2> QED
    BY <2>1, <2>2
<1> QED
  BY <1>1, <1>2 DEF Departed

\* A player puts his next byte on his wire.
LEMMA ChainSays ==
  ASSUME TypeOK, NEW t \in Client, NEW r \in Client, t # r, Chain(t, r), ActsByte(t), UNCHANGED loop
  PROVE  Chain(t, r)'
<1> DEFINE b == [k |-> "byte", who |-> t, n |-> said[t] + 1]
           G == Got(r)
           D == Num(down[r], t)
           H == Held(t)
           U == Num(up[t], t)
           s == said[t]
<1>1. /\ Puts(t, b) /\ said'[t] = s + 1 /\ down' = down /\ taken' = taken
      /\ b.k = "byte" /\ b.who = t /\ b.n = s + 1 /\ s \in Nat
  BY Typed DEF ActsByte
<1>2. /\ Held(t)' = H /\ (Carries(t)' => Dest(t)' = r) /\ Got(r)' = G
      /\ Num(down'[r], t) = D /\ Rising(down'[r], t)
  BY <1>1 DEF Held, Carries, Sending, Dest, Chain, loop, Got, InOrder
<1>3. /\ G \cup D \cup H \cup U = 1 .. s
      /\ Below(G, D) /\ Below(G, H) /\ Below(G, U) /\ Below(D, H) /\ Below(D, U) /\ Below(H, U)
      /\ Rising(up[t], t)
  BY DEF Chain, InOrder, Whole
<1>4. \A a \in G \cup D \cup H \cup U : a < s + 1
  <2>1. \A a \in 1 .. s : a < s + 1
    BY <1>1
  <2> QED
    BY <1>3, <2>1
<1>5. (\A a : a \in Num(up'[t], t) <=> a \in U \/ a = s + 1) /\ Rising(up'[t], t)
  <2>1. PICK q, p, f : q = up'[t] /\ p = up[t] /\ f = b
    OBVIOUS
  <2>2. up[t] \in Seq(FrameOf)
    BY Typed
  <2>3. /\ p \in Seq(FrameOf) /\ f \in FrameOf /\ Rising(p, t) /\ IsByte(f, t)
        /\ Len(q) = Len(p) + 1 /\ q[Len(p) + 1] = f /\ \A i \in 1 .. Len(p) : q[i] = p[i]
    BY <1>1, <1>3, <2>1, <2>2 DEF Puts, IsByte
  <2>4. \A a \in Num(p, t) : a < f.n
    BY <1>1, <1>4, <2>1
  <2>5. (\A a : a \in Num(q, t) <=> a \in Num(p, t) \/ a = f.n) /\ Rising(q, t)
    BY <2>3, <2>4, NumByte
  <2> QED
    BY <1>1, <2>1, <2>5
<1> HIDE DEF G, D, H, U, s, b
<1>6. PICK V : V = Num(up'[t], t)
  OBVIOUS
<1>7. \A a : a \in V <=> a \in U \/ a = s + 1
  BY <1>5, <1>6
<1>8. G \cup D \cup H \cup V = 1 .. (s + 1)
  <2>1. 1 .. (s + 1) = (1 .. s) \cup {s + 1}
    BY <1>1
  <2>2. V = U \cup {s + 1}
    BY <1>7
  <2> QED
    BY <1>3, <2>1, <2>2
<1>9. Below(G, V) /\ Below(D, V) /\ Below(H, V)
  BY <1>3, <1>4, <1>7 DEF Below
<1>10. InOrder(t, r)'
  BY <1>2, <1>3, <1>5, <1>6, <1>9 DEF InOrder
<1>11. Whole(t, r)'
  BY <1>1, <1>2, <1>6, <1>8 DEF Whole
<1>12. \A i \in 1 .. Len(taken'[r]) : taken'[r][i] = <<t, i>>
  BY <1>1 DEF Chain
<1> QED
  BY <1>2, <1>10, <1>11, <1>12 DEF Chain

\* Nothing another player reads or does loses or disorders a player's bytes.
LEMMA ChainActs ==
  ASSUME RelayInv, Patient, NEW c \in Client, NEW t \in Client, NEW r \in Client, t # r, Chain(t, r),
         (ClientReads(c) /\ c # r) \/ (PlayerActs(c) /\ ~(ActsClose(c) /\ c = r)) \/ (GetHangUp(c) /\ c # r)
  PROVE  Chain(t, r)' /\ down'[r] = down[r] /\ taken'[r] = taken[r] /\ with'[r] = with[r]
<1>0. /\ TypeOK /\ LoopInv /\ UNCHANGED loop
  BY ClientBase DEF RelayInv, LoopInv, TypeInv, ClientReads
<1>1. Held(t)' = Held(t) /\ (Carries(t)' => Dest(t)' = r)
  BY <1>0 DEF Held, Carries, Sending, Dest, Chain, loop
<1>2. CASE ClientReads(c) /\ c # r
  <2>1. /\ UNCHANGED <<said, up>> /\ down'[r] = down[r] /\ taken'[r] = taken[r] /\ with'[r] = with[r]
    <3>1. CASE GetHangUp(c)
      BY <1>0, <3>1, HangUpDoes DEF wires
    <3>2. CASE ~GetHangUp(c)
      BY <1>0, <1>2, <3>2, GetsDo, ReceivesDo DEF GetsAnswer, GetsJoined, GetsByte, GetsEnd
    <3> QED
      BY <3>1, <3>2
  <2> QED
    BY <1>1, <2>1, ChainFrame DEF Chain, InOrder
<1>3. CASE PlayerActs(c) /\ ~(ActsClose(c) /\ c = r)
  <2>0. ActsOpen(c) \/ ActsAsk(c) \/ ActsByte(c) \/ ActsClose(c)
    BY <1>0, <1>3, ActsDo
  <2>1. down'[r] = down[r] /\ taken' = taken /\ with' = with
    BY <1>3, <2>0 DEF ActsOpen, ActsAsk, ActsByte, ActsClose
  <2>2. CASE ActsByte(c) /\ c = t
    BY <1>0, <2>1, <2>2, ChainSays
  <2>3. CASE ~(ActsByte(c) /\ c = t)
    <3>1. said'[t] = said[t]
      BY <2>0, <2>3 DEF ActsOpen, ActsAsk, ActsByte, ActsClose
    <3>2. Num(up'[t], t) = Num(up[t], t) /\ Rising(up'[t], t)
      <4>1. CASE up'[t] = up[t]
        BY <4>1 DEF Chain, InOrder
      <4>2. ASSUME NEW f, Puts(t, f), f.k # "byte" PROVE Num(up'[t], t) = Num(up[t], t) /\ Rising(up'[t], t)
        <5>1. PICK q, p : q = up'[t] /\ p = up[t]
          OBVIOUS
        <5>2. up[t] \in Seq(FrameOf)
          BY <1>0, Typed
        <5>3. /\ p \in Seq(FrameOf) /\ f \in FrameOf /\ Rising(p, t) /\ ~IsByte(f, t)
              /\ Len(q) = Len(p) + 1 /\ q[Len(p) + 1] = f /\ \A i \in 1 .. Len(p) : q[i] = p[i]
          BY <4>2, <5>1, <5>2 DEF Puts, IsByte, Chain, InOrder
        <5>4. Num(q, t) = Num(p, t) /\ Rising(q, t)
          BY <5>3, NumMore
        <5> QED
          BY <5>1, <5>4
      <4>3. CASE c # t
        <5>1. up'[t] = up[t]
          BY <2>0, <4>3 DEF ActsOpen, ActsAsk, ActsByte, ActsClose, Puts
        <5> QED
          BY <4>1, <5>1
      <4>4. CASE c = t
        <5>1. up' = up \/ \E f : Puts(t, f) /\ f.k # "byte"
          <6>1. CASE ActsOpen(t)
            <7>1. PICK n : Puts(t, [k |-> "create", who |-> t, n |-> n])
              BY <6>1 DEF ActsOpen
            <7> QED
              BY <7>1
          <6>2. CASE ActsAsk(t)
            <7>1. PICK h, n : Puts(t, [k |-> "join", who |-> h, n |-> n])
              BY <6>2 DEF ActsAsk
            <7> QED
              BY <7>1
          <6>3. CASE ActsClose(t)
            <7>1. Frame("leave", t).k # "byte"
              BY FrameIs
            <7> QED
              BY <6>3, <7>1 DEF ActsClose
          <6> QED
            BY <2>0, <2>3, <4>4, <6>1, <6>2, <6>3
        <5> QED
          BY <4>1, <4>2, <5>1
      <4> QED
        BY <4>3, <4>4
    <3> QED
      BY <1>1, <2>1, <3>1, <3>2, ChainFrame DEF Chain, InOrder
  <2> QED
    BY <2>1, <2>2, <2>3
<1> QED
  BY <1>2, <1>3 DEF ClientReads

\* A player reads his own wire: his link stays open, or he hears of its end.
LEMMA OpenReads ==
  ASSUME RelayInv, Patient, NEW r \in Client, ClientReads(r), ~GetHangUp(r), NEW t \in Client, t # r,
         Open(t, r), r \notin gone
  PROVE  Stream(t, r)' /\ with'[r] \in {Nobody, t}
<1>0. /\ TypeOK /\ LoopInv /\ Ends(r) /\ Ready(t, r) /\ Chain(t, r) /\ UNCHANGED <<tables, loop, ends, gone>>
      /\ GetsAnswer(r) \/ GetsJoined(r) \/ GetsByte(r) \/ GetsEnd(r)
  BY GetsDo, ReceivesDo DEF RelayInv, BaseInv, LoopInv, TypeInv, Open
<1>1. /\ down[r] \in Seq(FrameOf) /\ down[r] # << >> /\ down'[r] = Tail(down[r])
      /\ Len(down[r]) \in Nat \ {0} /\ Len(down'[r]) = Len(down[r]) - 1
      /\ \A i \in 1 .. Len(down'[r]) : down'[r][i] = down[r][i + 1]
  BY <1>0, GetsDo, ReceivesDo, Typed
<1>2. ASSUME NEW m \in 2 .. Len(down[r]) + 1, NEW j, Front(down[r], t, j, m), Greeted(r, j)
      PROVE  /\ Chain(t, r)' /\ Ready(t, r)'
             /\ \E i \in 0 .. Len(down'[r]) : Front(down'[r], t, i, m - 1) /\ Greeted(r, i)'
  <2>1. /\ \E i \in 0 .. Len(down'[r]) : Front(down'[r], t, i, m - 1) /\ Greeted(r, i)'
        /\ with'[r] \in {Nobody, t}
        /\ down[r][1].k = "byte" => down[r][1].who = t
        /\ down[r][1].k # "byte" => taken'[r] = taken[r]
        /\ down[r][1].k # "peer_left"
    BY <1>0, <1>2, ReadsFront
  <2>2. Chain(t, r)'
    BY <1>0, <2>1, ChainReads
  <2>3. with'[r] = Nobody => taken'[r] = << >>
    <3> SUFFICES ASSUME with'[r] = Nobody PROVE taken'[r] = << >>
      OBVIOUS
    <3>1. PICK i \in 0 .. Len(down'[r]) : Front(down'[r], t, i, m - 1) /\ Greeted(r, i)'
      BY <2>1
    <3>2. with[r] = Nobody
      <4>1. with[r] # Nobody => with'[r] # Nobody
        BY ClientBase
      <4> QED
        BY <4>1
    <3>3. down[r][1].k # "byte"
      <4> SUFFICES ASSUME down[r][1].k = "byte" PROVE FALSE
        OBVIOUS
      <4>1. j # 0 /\ j \in 0 .. m - 1 /\ down[r][j].k = "joined" /\ 1 \in 1 .. m - 1
        BY <1>2, <3>2 DEF Front, Greeted
      <4>2. 1 > j
        BY <1>2, <4>1 DEF Front, News
      <4> QED
        BY <4>1, <4>2
    <3> QED
      BY <1>0, <2>1, <3>2, <3>3 DEF Ready
  <2>4. Ready(t, r)'
    BY <1>0, <2>1, <2>3 DEF Ready, SendsTo, Sending, Dest, loop, ends
  <2> QED
    BY <2>1, <2>2, <2>4
<1>3. CASE WholeFront(t, r) /\ (Together(t, r) \/ Leaves(t, r))
  <2>1. PICK j \in 0 .. Len(down[r]) : Greeted(r, j) /\ Front(down[r], t, j, Len(down[r]) + 1)
    BY <1>3 DEF WholeFront
  <2>2. PICK m : m = Len(down[r]) + 1
    OBVIOUS
  <2>3. m \in 2 .. Len(down[r]) + 1 /\ m - 1 = Len(down'[r]) + 1 /\ Front(down[r], t, j, m)
    BY <1>1, <2>1, <2>2
  <2>4. /\ Chain(t, r)' /\ Ready(t, r)'
        /\ \E i \in 0 .. Len(down'[r]) : Front(down'[r], t, i, m - 1) /\ Greeted(r, i)'
    BY <1>2, <2>1, <2>3
  <2>5. WholeFront(t, r)'
    BY <2>3, <2>4 DEF WholeFront
  <2>6. Together(t, r) => Together(t, r)'
    BY <1>0, <2>5 DEF Together, Strangers, SendsTo, Sending, Dest, loop, tables
  <2>7. Leaves(t, r) => Leaves(t, r)'
    BY <1>0, <2>5 DEF Leaves, Parting, Queued, Strangers, SendsTo, Sending, Dest, loop, tables
  <2>8. with'[r] \in {Nobody, t}
    BY <2>4 DEF Ready
  <2> QED
    BY <1>3, <2>4, <2>6, <2>7, <2>8 DEF Stream, Open
<1>4. CASE Left(t, r)
  <2>1. PICK m \in 1 .. Len(down[r]) : \E j \in 0 .. Len(down[r]) :
         /\ down[r][m].k = "peer_left" /\ down[r][m].who = t
         /\ Greeted(r, j) /\ Front(down[r], t, j, m)
    BY <1>4 DEF Left
  <2>2. PICK j \in 0 .. Len(down[r]) :
         /\ down[r][m].k = "peer_left" /\ down[r][m].who = t
         /\ Greeted(r, j) /\ Front(down[r], t, j, m)
    BY <2>1
  <2>3. CASE m = 1
    <3>1. j = 0 /\ GetsEnd(r)
      BY <1>0, <2>2, <2>3 DEF Front, GetsAnswer, GetsJoined, GetsByte
    <3>2. with[r] # Nobody /\ screen[r] \in {"linked", "lost"}
      BY <1>0, <2>2, <3>1, Typed DEF Greeted, Ends
    <3>3. screen'[r] = "lost" /\ with' = with
      BY <3>1, <3>2 DEF GetsEnd
    <3> QED
      BY <1>0, <3>3 DEF Stream, Ready
  <2>4. CASE m # 1
    <3>1. m \in 2 .. Len(down[r]) + 1 /\ m - 1 \in 1 .. Len(down'[r])
      BY <1>1, <2>4
    <3>2. /\ Chain(t, r)' /\ Ready(t, r)'
          /\ \E i \in 0 .. Len(down'[r]) : Front(down'[r], t, i, m - 1) /\ Greeted(r, i)'
      BY <1>2, <2>2, <3>1
    <3>3. down'[r][m - 1] = down[r][m]
      BY <1>1, <3>1
    <3>4. Departed(t)'
      BY <1>4, DepartedClients DEF Left
    <3>5. Left(t, r)'
      <4>1. PICK n : n = m - 1
        OBVIOUS
      <4>2. /\ n \in 1 .. Len(down'[r]) /\ down'[r][n].k = "peer_left" /\ down'[r][n].who = t
            /\ \E i \in 0 .. Len(down'[r]) : Front(down'[r], t, i, n) /\ Greeted(r, i)'
        BY <2>2, <3>1, <3>2, <3>3, <4>1
      <4> QED
        BY <3>4, <4>2 DEF Left
    <3>6. with'[r] \in {Nobody, t}
      BY <3>2 DEF Ready
    <3> QED
      BY <3>2, <3>5, <3>6 DEF Stream, Open
  <2> QED
    BY <2>3, <2>4
<1>5. (WholeFront(t, r) /\ (Together(t, r) \/ Leaves(t, r))) \/ Left(t, r)
  BY DEF Open, Together, Leaves
<1> QED
  BY <1>3, <1>4, <1>5

\* What the link of two players has to carry is carried on by every step, until it is closed
\* or its end is heard of.
LEMMA StreamStays ==
  ASSUME RelayInv, Patient, [Next]_vars, NEW t \in Client, NEW r \in Client, t # r,
         Stream(t, r)
  PROVE  Stream(t, r)' /\ (with[r] \in {Nobody, t} => with'[r] \in {Nobody, t})
<1>0. LoopInv /\ AskInv /\ Ends(r)
  BY DEF RelayInv, BaseInv
<1>1. ASSUME NEW c \in Client, Turns(c)
      PROVE  Stream(t, r)' /\ (with[r] \in {Nobody, t} => with'[r] \in {Nobody, t})
  <2>1. with' = with
    BY <1>1, TurnsPlayer DEF player
  <2> QED
    BY <1>1, <2>1, OpenTurns
<1>2. ASSUME NEW c \in Client, ClientReads(c) \/ PlayerActs(c)
      PROVE  Stream(t, r)' /\ (with[r] \in {Nobody, t} => with'[r] \in {Nobody, t})
  <2>0. UNCHANGED <<tables, loop, ends>>
    BY <1>2, ClientBase
  <2>1. CASE GetHangUp(c)
    <3>1. gone' = gone \cup {c} /\ with' = with /\ \A y \in Client \ {c} : screen'[y] = screen[y]
      BY <1>0, <2>1, HangUpDoes
    <3>2. CASE c = r
      BY <3>1, <3>2 DEF Stream
    <3>3. CASE c # r
      <4>1. Open(t, r) => Open(t, r)'
        BY <2>0, <2>1, <3>3, ChainActs, OpenFrame, DepartedClients DEF Open, ClientReads
      <4> QED
        BY <3>1, <3>3, <4>1 DEF Stream
    <3> QED
      BY <3>2, <3>3
  <2>2. CASE PlayerActs(c)
    <3>0. ActsOpen(c) \/ ActsAsk(c) \/ ActsByte(c) \/ ActsClose(c)
      BY <1>0, <2>2, ActsDo
    <3>1. with' = with /\ gone \subseteq gone' /\ (screen[r] = "lost" => screen'[r] = "lost" \/ r \in gone')
      BY <3>0 DEF ActsOpen, ActsAsk, ActsByte, ActsClose
    <3>2. CASE ActsClose(c) /\ c = r
      BY <3>1, <3>2 DEF Stream, ActsClose
    <3>3. CASE ~(ActsClose(c) /\ c = r)
      <4>1. Open(t, r) => Open(t, r)'
        BY <2>0, <2>2, <3>3, ChainActs, OpenFrame, DepartedClients DEF Open
      <4> QED
        BY <3>1, <4>1 DEF Stream
    <3> QED
      BY <3>2, <3>3
  <2>3. CASE ClientReads(c) /\ ~GetHangUp(c)
    <3>0. /\ GetsAnswer(c) \/ GetsJoined(c) \/ GetsByte(c) \/ GetsEnd(c)
          /\ c \notin gone /\ gone' = gone
      BY <1>0, <2>3, GetsDo, ReceivesDo
    <3>1. CASE c # r
      <4>1. screen'[r] = screen[r] /\ with'[r] = with[r]
        BY <3>0, <3>1 DEF GetsAnswer, GetsJoined, GetsByte, GetsEnd
      <4>2. Open(t, r) => Open(t, r)'
        BY <2>0, <2>3, <3>1, ChainActs, OpenFrame, DepartedClients DEF Open
      <4> QED
        BY <3>0, <4>1, <4>2 DEF Stream
    <3>2. CASE c = r /\ screen[r] = "lost"
      <4>1. screen'[r] = "lost" /\ with'[r] = with[r]
        BY <3>0, <3>2 DEF GetsAnswer, GetsJoined, GetsByte, GetsEnd
      <4> QED
        BY <4>1 DEF Stream
    <3>3. CASE c = r /\ screen[r] # "lost"
      BY <2>3, <3>0, <3>3, OpenReads DEF Stream
    <3> QED
      BY <3>1, <3>2, <3>3
  <2> QED
    BY <1>2, <2>1, <2>2, <2>3 DEF ClientReads
<1>3. CASE UNCHANGED vars
  <2>1. UNCHANGED <<tables, loop, ends, up, down, gone, screen, with, taken, said>>
    BY <1>3 DEF vars, wires, player
  <2>2. Chain(t, r) => Chain(t, r)'
    BY <2>1, ChainFrame DEF Chain, InOrder, Held, Carries, Sending, Dest, loop
  <2>3. Departed(t) => Departed(t)'
    BY <2>1 DEF Departed, loop, ends
  <2>4. Open(t, r) => Open(t, r)'
    BY <2>1, <2>2, <2>3, OpenFrame DEF Open
  <2> QED
    BY <2>1, <2>4 DEF Stream
<1> QED
  BY <1>0, <1>1, <1>2, <1>3, StepKinds DEF ClientReads

\* The server has paired two, and one of them has heard of nobody before.
LEMMA Expected ==
  ASSUME RelayInv, NEW c \in Client, NEW h \in Client, Joins(c, h), NEW t \in Client, NEW r \in Client,
         {t, r} = {c, h}, t # r, Untouched(r), r \notin gone
  PROVE  Expects(t, r)'
<1>0. /\ TypeOK /\ UNCHANGED <<ended, next, line, with, taken, down>> /\ running = Nobody
      /\ \A y \in Client : Stands(y)
  BY MeetingAsks DEF RelayInv, BaseInv, LoopInv, TypeInv, Joins, ends, player
<1>1. /\ Nobody \notin Client /\ taken[r] \in Seq(Client \X Nat) /\ Len(taken[r]) \in Nat
      /\ \A i \in 1 .. Len(down[r]) : down[r][i] \in FrameOf
  BY <1>0, Typed, Lengths
<1>2. line[r] = << >> /\ r \notin ended /\ next[r] = "read" /\ with[r] = Nobody
  BY DEF Untouched, Idle, Hears
<1>3. taken[r] = << >>
  <2> SUFFICES ASSUME taken[r] # << >> PROVE FALSE
    OBVIOUS
  <2>1. 1 \in 1 .. Len(taken[r]) /\ taken[r][1] \in Client \X Nat
    BY <1>1
  <2>2. taken[r][1][1] = Nobody
    BY <2>1 DEF Untouched, Hears
  <2> QED
    BY <1>1, <2>1, <2>2
<1>4. ASSUME NEW i \in 1 .. Len(down[r]) PROVE down[r][i].k \notin News
  <2>1. down[r][i] \in Flight(r) /\ down[r][i].who \in Client
    BY <1>1, Flying DEF FrameOf
  <2> QED
    BY <1>1, <2>1 DEF Untouched, Hears
<1>5. peer'[r] = t
  BY DEF Joins
<1>6. Strangers(t, r)'
  <2> SUFFICES ASSUME NEW y \in Client \ {t, r} PROVE peer'[y] # r /\ ~SendsTo(y, r)'
    BY DEF Strangers
  <2>1. y \notin {c, h} /\ peer'[y] = peer[y] /\ todo'[y] = todo[y]
    BY DEF Joins
  <2>2. peer[y] # r
    BY <1>1 DEF Untouched, Hears
  <2>3. ~SendsTo(y, r)
    BY <1>0, <1>1, <1>2 DEF Stands, SendsTo, In
  <2> QED
    BY <2>1, <2>2, <2>3 DEF SendsTo, Sending, Dest
<1> QED
  BY <1>0, <1>2, <1>3, <1>4, <1>5, <1>6 DEF Expects

\* Who is told of his pairing by the frame just written has an open link.
LEMMA ToldOpens ==
  ASSUME RelayInv, Patient, [Next]_vars, NEW t \in Client, NEW r \in Client, t # r, Expects(t, r),
         with[t] = Nobody, down'[r] = Append(down[r], Frame("joined", t)),
         UNCHANGED <<tables, next, up, ends, player>>, Strangers(t, r)',
         \A i \in 1 .. Len(todo'[r]) : todo'[r][i].f.k # "joined",
         SendsTo(t, r)' => todo'[t][1].f.k # "joined"
  PROVE  Stream(t, r)'
<1>0. /\ TypeOK /\ TypeOK' /\ Ends(t) /\ Speaks(t) /\ Owing(t)' /\ UNCHANGED <<with, taken, said, peer, ended>>
      /\ with[r] = Nobody /\ taken[r] = << >>
  BY NextLoop, NextBase DEF RelayInv, BaseInv, LoopInv, TypeInv, player, tables, ends, Expects
<1>1. /\ down[r] \in Seq(FrameOf) /\ Len(down[r]) \in Nat /\ Frame("joined", t) \in FrameOf
      /\ Frame("joined", t).k = "joined" /\ Frame("joined", t).who = t
      /\ Len(down'[r]) = Len(down[r]) + 1 /\ down'[r][Len(down[r]) + 1] = Frame("joined", t)
      /\ \A i \in 1 .. Len(down[r]) : down'[r][i] = down[r][i]
  BY <1>0, Typed, Longer, FrameTypes, FrameIs
<1>2. \A i \in 1 .. Len(down'[r]) :
        \/ i = Len(down[r]) + 1 /\ down'[r][i].k = "joined" /\ down'[r][i].who = t
        \/ i < Len(down[r]) + 1 /\ down'[r][i].k \notin News
  <2> SUFFICES ASSUME NEW i \in 1 .. Len(down'[r]), i # Len(down[r]) + 1
               PROVE  i < Len(down[r]) + 1 /\ down'[r][i].k \notin News
    BY <1>1
  <2>1. i \in 1 .. Len(down[r])
    BY <1>1
  <2> QED
    BY <1>1, <2>1 DEF Expects
<1>3. WholeFront(t, r)'
  <2>1. PICK j : j = Len(down[r]) + 1
    OBVIOUS
  <2>2. j \in 0 .. Len(down'[r]) /\ Greeted(r, j)'
    BY <1>0, <1>1, <2>1 DEF Greeted
  <2>3. Front(down'[r], t, j, Len(down'[r]) + 1)
    BY <1>1, <1>2, <2>1 DEF Front
  <2> QED
    BY <2>2, <2>3 DEF WholeFront
<1>4. Together(t, r)'
  BY <1>0, <1>3 DEF Together, Expects
<1>5. Ready(t, r)'
  BY <1>0 DEF Ready, Expects
<1>6. said'[t] = 0
  BY <1>0 DEF Ends
<1>7. ~Carries(t)' /\ Held(t)' = {}
  <2>1. ~Carries(t)'
    <3> SUFFICES ASSUME todo'[t] # << >> PROVE todo'[t][1].f.k # "byte"
      BY DEF Carries, Sending
    <3>1. 1 \in 1 .. Len(todo'[t])
      <4>1. todo'[t] \in Seq(SendOf)
        BY <1>0 DEF TypeOK, SendOf
      <4> QED
        BY <4>1
    <3> QED
      BY <1>0, <3>1 DEF Owing
  <2> QED
    BY <2>1 DEF Held
<1>8. Num(down'[r], t) = {} /\ Rising(down'[r], t)
  BY <1>2 DEF Num, Rising, IsByte, News
<1>9. Num(up'[t], t) = {} /\ Rising(up'[t], t)
  <2>1. \A i \in 1 .. Len(up'[t]) : ~IsByte(up'[t][i], t)
    BY <1>0 DEF Speaks, IsByte
  <2> QED
    BY <2>1 DEF Num, Rising
<1>10. Got(r)' = {} /\ taken'[r] = << >>
  BY <1>0 DEF Got
<1>11. Chain(t, r)'
  <2>1. InOrder(t, r)'
    BY <1>7, <1>8, <1>9, <1>10 DEF InOrder, Below
  <2>2. Whole(t, r)'
    BY <1>6, <1>7, <1>8, <1>9, <1>10 DEF Whole
  <2> QED
    BY <1>7, <1>10, <2>1, <2>2 DEF Chain
<1> QED
  BY <1>4, <1>5, <1>11 DEF Stream, Open

\* What is still expected, when nothing of it is touched.
LEMMA ExpectsFrame ==
  ASSUME NEW t, NEW r, Expects(t, r), UNCHANGED <<peer, ended, next, with, taken>>, line'[r] = line[r],
         down'[r] = down[r], \A y \in Client \ {t, r} : todo'[y] = todo[y]
  PROVE  Expects(t, r)'
BY DEF Expects, Strangers, SendsTo, Sending, Dest

\* A coroutine that runs with something to send writes it, or waits behind another.
LEMMA RunnerWrites ==
  ASSUME RelayInv, NEW c \in Client, Turns(c), NEW x \in Client, running = x, Sending(x)
  PROVE  c = x /\ (Writes(x) \/ Queue(x))
<1>0. LoopInv /\ PairInv /\ Nobody \notin Client
  BY DEF RelayInv
<1>1. c = x
  BY <1>0, TurnsRun
<1>2. ~Skips(x) /\ ~Drops(x) /\ ~Done(x) /\ ~LostConnection(x) /\ \A kind : ~Takes(x, kind)
  BY <1>0, SkipsDo, DropsDo, DoneDoes, TakesDo DEF LostConnection, Sending
<1> QED
  BY <1>1, <1>2 DEF Turns, Answers, Joins, Relay

\* A write that nobody is in front of, to a player who is there and has no bytes before him.
LEMMA WritesFree ==
  ASSUME RelayInv, NEW x \in Client, Writes(x), running = x, NEW d \in Client, Dest(x) = d,
         d \notin gone, d \notin ended, todo[x][1].f.k # "byte",
         \A i \in 1 .. Len(down[d]) : down[d][i].k \notin News
  PROVE  /\ down'[d] = Append(down[d], todo[x][1].f) /\ todo' = SentOne(x) /\ running' = x
         /\ line[d] = << >> /\ line'[d] = << >>
<1>0. TypeOK /\ LoopInv /\ Ends(d) /\ Nobody \notin Client /\ Sending(x) /\ todo[x][1].f \in FrameOf
  BY WritesDo, FirstTypes DEF RelayInv, BaseInv, LoopInv, TypeInv
<1>1. ~Dead(d)
  BY <1>0 DEF Dead, Ends
<1>2. down'[d] = Append(down[d], todo[x][1].f)
  BY <1>0, <1>1, WritesDo
<1>3. ~Has(down'[d], "byte")
  <2>1. down[d] \in Seq(FrameOf)
    BY <1>0, Typed
  <2>2. /\ Len(down[d]) \in Nat /\ Len(down'[d]) = Len(down[d]) + 1
        /\ down'[d][Len(down[d]) + 1] = todo[x][1].f
        /\ \A i \in 1 .. Len(down[d]) : down'[d][i] = down[d][i]
    BY <1>0, <1>2, <2>1, Longer
  <2> SUFFICES ASSUME NEW i \in 1 .. Len(down'[d]), down'[d][i].k = "byte" PROVE FALSE
    BY DEF Has
  <2>3. i \in 1 .. Len(down[d]) \/ i = Len(down[d]) + 1
    BY <2>2
  <2> QED
    BY <2>2, <2>3 DEF News
<1>4. PICK queue \in Seq(Client) :
        /\ line[d] = << >> /\ queue = <<x>>
        /\ todo' = SentOne(x) /\ running' = x /\ line'[d] = Tail(queue)
  <2>1. PICK queue \in Seq(Client) :
              /\ queue # << >> /\ queue[1] = x
              /\ (running = x /\ line[d] = << >> /\ queue = <<x>>)
                   \/ (running = Nobody /\ line[d] # << >> /\ queue = line[d])
              /\ \/ /\ Dead(d) \/ (d \notin gone /\ Has(down'[d], "byte"))
                    /\ todo' = [todo EXCEPT ![x][1].sent = TRUE] /\ running' = Nobody
                    /\ line'[d] = queue
                 \/ /\ ~Dead(d)
                    /\ todo' = SentOne(x) /\ running' = x /\ line'[d] = Tail(queue)
    BY <1>0, WritesDo
  <2> QED
    BY <1>0, <1>1, <1>3, <2>1
<1> QED
  BY <1>2, <1>4

\* The server tells two of their pairing: first the host, then his guest.
LEMMA MeetingTurns ==
  ASSUME RelayInv, Patient, [Next]_vars, NEW d \in Client, NEW x \in Client, d # x, Opener(d), ~Opener(x),
         Meeting(d, x), with[d] \in {Nobody, x}, NEW c \in Client, Turns(c)
  PROVE  Matched(d, x)'
<1>0. /\ TypeOK /\ LoopInv /\ Ends(d) /\ Owing(d) /\ running = x /\ d \notin gone /\ Nobody \notin Client
      /\ with[d] = Nobody /\ with[x] = Nobody /\ UNCHANGED player
  BY TurnsPlayer DEF RelayInv, BaseInv, LoopInv, TypeInv, Meeting
<1>1. /\ ~Opener(x)' /\ with'[d] = Nobody /\ with'[x] = Nobody
      /\ d \notin gone' /\ (x \notin gone' <=> x \notin gone)
  BY <1>0 DEF Opener, player
<1>2. Sending(x)
  <2>1. todo[x] = Tidings(x, d) \/ todo[x] = <<Send(x, Frame("joined", d))>>
    BY DEF Meeting
  <2>2. Tidings(x, d) # << >>
    BY TidingsAre
  <2>3. <<Send(x, Frame("joined", d))>> # << >>
    OBVIOUS
  <2> QED
    BY <2>1, <2>2, <2>3 DEF Sending
<1>3. Writes(x) \/ Queue(x)
  BY <1>0, <1>2, RunnerWrites
<1>4. \A y \in Client \ {x} : todo'[y] = todo[y]
  BY <1>0, <1>3, WritesDo, QueueDoes
<1>5. CASE todo[x] = Tidings(x, d) /\ Expects(x, d)
  <2>1. Dest(x) = d /\ todo[x][1].f = Frame("joined", x) /\ todo[x][1].f.k # "byte" /\ line[d] = << >>
    BY <1>5, TidingsAre, FrameIs DEF Dest, Expects
  <2>2. Writes(x)
    BY <1>0, <1>3, <2>1, QueueDoes
  <2>3. /\ down'[d] = Append(down[d], Frame("joined", x)) /\ todo' = SentOne(x) /\ running' = x
        /\ line'[d] = << >>
    BY <1>0, <1>5, <2>1, <2>2, WritesFree DEF Expects
  <2>4. /\ UNCHANGED <<tables, next, up, ends, player>>
        /\ \A y \in Client \ {d} : down'[y] = down[y] /\ line'[y] = line[y]
    BY <1>0, <2>1, <2>2, WritesDo
  <2>5. todo'[x] = <<Send(x, Frame("joined", d))>>
    <3>1. todo'[x] = Tail(Tidings(x, d))
      BY <1>0, <1>5, <2>3 DEF SentOne, TypeOK
    <3> QED
      BY <3>1 DEF Tidings
  <2>6. Strangers(x, d)'
    BY <1>4, <1>5, <2>4 DEF Expects, Strangers, SendsTo, Sending, Dest, tables
  <2>7. ~SendsTo(x, d)'
    BY <2>5 DEF SendsTo, Dest, Send
  <2>8. \A i \in 1 .. Len(todo'[d]) : todo'[d][i].f.k # "joined"
    BY <1>0, <1>4 DEF Owing
  <2>9. Stream(x, d)'
    BY <1>0, <1>5, <2>3, <2>4, <2>6, <2>7, <2>8, ToldOpens
  <2>10. x \notin gone => Expects(d, x)'
    <3> SUFFICES ASSUME x \notin gone PROVE Expects(d, x)'
      OBVIOUS
    <3>1. Expects(d, x)
      BY DEF Meeting
    <3> QED
      BY <1>4, <2>4, <3>1, ExpectsFrame DEF tables, ends, player
  <2>11. Meeting(d, x)'
    BY <1>1, <2>3, <2>5, <2>9, <2>10 DEF Meeting
  <2> QED
    BY <1>1, <2>11 DEF Matched
<1>6. CASE todo[x] = <<Send(x, Frame("joined", d))>> /\ Stream(x, d)
  <2>1. Stream(x, d)'
    BY <1>6, StreamStays
  <2>2. Stream(d, x)'
    <3>1. CASE x \in gone
      BY <1>1, <3>1 DEF Stream
    <3>2. CASE x \notin gone
      <4>1. Expects(d, x)
        BY <3>2 DEF Meeting
      <4>2. Dest(x) = x /\ todo[x][1].f = Frame("joined", d) /\ todo[x][1].f.k # "byte"
        BY <1>6, FrameIs DEF Dest, Send
      <4>3. Writes(x)
        BY <1>0, <1>3, <4>1, <4>2, QueueDoes DEF Expects
      <4>4. down'[x] = Append(down[x], Frame("joined", d)) /\ todo' = SentOne(x)
        BY <1>0, <3>2, <4>1, <4>2, <4>3, WritesFree DEF Expects
      <4>5. UNCHANGED <<tables, next, up, ends, player>>
        BY <1>0, <4>3, WritesDo
      <4>6. todo'[x] = << >>
        BY <1>0, <1>6, <4>4 DEF SentOne, TypeOK
      <4>7. Strangers(d, x)'
        BY <1>4, <4>1, <4>5 DEF Expects, Strangers, SendsTo, Sending, Dest, tables
      <4>8. SendsTo(d, x)' => todo'[d][1].f.k # "joined"
        <5> SUFFICES ASSUME Sending(d) PROVE todo[d][1].f.k # "joined"
          BY <1>4 DEF SendsTo, Sending
        <5>1. 1 \in 1 .. Len(todo[d])
          BY <1>0, FirstTypes
        <5> QED
          BY <1>0, <5>1 DEF Owing
      <4> QED
        BY <1>0, <4>1, <4>4, <4>5, <4>6, <4>7, <4>8, ToldOpens
    <3> QED
      BY <3>1, <3>2
  <2> QED
    BY <1>1, <2>1, <2>2 DEF Matched
<1> QED
  BY <1>5, <1>6 DEF Meeting

\* Who has closed reads no more.
LEMMA ClosedStay ==
  ASSUME RelayInv, Patient, [Next]_vars, NEW d \in Client, d \in gone
  PROVE  d \in gone' /\ with'[d] = with[d]
<1>0. LoopInv /\ AskInv
  BY DEF RelayInv
<1>1. ASSUME NEW c \in Client, Turns(c) PROVE d \in gone' /\ with'[d] = with[d]
  BY <1>1, TurnsPlayer DEF player
<1>2. ASSUME NEW c \in Client, PlayerActs(c) PROVE d \in gone' /\ with'[d] = with[d]
  BY <1>0, <1>2, ActsDo DEF ActsOpen, ActsAsk, ActsByte, ActsClose
<1>3. ASSUME NEW c \in Client, ClientReads(c), ~GetHangUp(c) PROVE d \in gone' /\ with'[d] = with[d]
  BY <1>0, <1>3, GetsDo, ReceivesDo DEF GetsAnswer, GetsJoined, GetsByte, GetsEnd
<1>4. ASSUME NEW c \in Client, GetHangUp(c) PROVE d \in gone' /\ with'[d] = with[d]
  BY <1>0, <1>4, HangUpDoes
<1>5. CASE UNCHANGED vars
  BY <1>5 DEF vars, player
<1> QED
  BY <1>0, <1>1, <1>2, <1>3, <1>4, <1>5, StepKinds

\* Who opens his first room has met nobody.
LEMMA OpensFresh ==
  ASSUME RelayInv, Patient, [Next]_vars, NEW d \in Client, Opener(d)', ~Opener(d)
  PROVE  screen[d] = "menu" /\ Untouched(d) /\ running = Nobody
<1>0. LoopInv /\ AskInv /\ FreshInv /\ Ends(d)
  BY DEF RelayInv, BaseInv
<1>1. opened'[d] # opened[d]
  BY DEF Opener
<1>2. \A c \in Client : Turns(c) => FALSE
  BY <1>1, TurnsPlayer DEF player
<1>3. \A c \in Client : ClientReads(c) => FALSE
  BY <1>0, <1>1, HangUpDoes, GetsDo, ReceivesDo
<1>4. PICK c \in Client : PlayerActs(c)
  <2>1. ~(UNCHANGED vars)
    BY <1>1 DEF vars, player
  <2> QED
    BY <1>0, <1>2, <1>3, <2>1, StepKinds DEF ClientReads
<1>5. running = Nobody /\ (ActsOpen(c) \/ ActsAsk(c) \/ ActsByte(c) \/ ActsClose(c))
  BY <1>0, <1>4, ActsDo
<1>6. ActsOpen(c) /\ c = d
  BY <1>1, <1>5 DEF ActsOpen, ActsAsk, ActsByte, ActsClose
<1>7. screen[d] = "menu"
  BY <1>0, <1>6 DEF ActsOpen, Ends
<1> QED
  BY <1>0, <1>5, <1>7 DEF FreshInv, Asking

\* While the server tells two of their pairing nothing else happens.
LEMMA MeetingStays ==
  ASSUME RelayInv, Patient, [Next]_vars, NEW d \in Client, NEW x \in Client, d # x, Opener(d), ~Opener(x),
         Meeting(d, x), with[d] \in {Nobody, x}
  PROVE  Matched(d, x)'
<1>0. LoopInv /\ AskInv /\ Nobody \notin Client /\ running = x
  BY DEF RelayInv, Meeting
<1>1. ASSUME NEW c \in Client, Turns(c) PROVE Matched(d, x)'
  BY <1>1, MeetingTurns
<1>2. \A c \in Client : ~(ClientReads(c) \/ PlayerActs(c))
  BY <1>0, ClientBase
<1>3. CASE UNCHANGED vars
  <2>1. UNCHANGED <<running, todo, line, peer, ended, next, down, gone, with, taken, opened>>
    BY <1>3 DEF vars, tables, loop, wires, ends, player
  <2>2. \A t, r : Expects(t, r) => Expects(t, r)'
    BY <2>1, ExpectsFrame
  <2>3. Stream(x, d) => Stream(x, d)'
    BY StreamStays
  <2>4. Meeting(d, x)'
    BY <2>1, <2>2, <2>3 DEF Meeting
  <2> QED
    BY <2>1, <2>4 DEF Matched, Opener
<1> QED
  BY <1>0, <1>1, <1>2, <1>3, StepKinds DEF ClientReads

\* A player with an open link of which he is the guest opens no room.
LEMMA GuestStays ==
  ASSUME RelayInv, Patient, [Next]_vars, NEW d \in Client, NEW x \in Client, d # x,
         ~Opener(x), Stream(d, x)
  PROVE  ~Opener(x)'
<1> SUFFICES ASSUME Opener(x)' PROVE FALSE
  OBVIOUS
<1>0. TypeOK /\ Ends(x) /\ Nobody \notin Client
  BY DEF RelayInv, BaseInv, LoopInv, TypeInv
<1>1. screen[x] = "menu" /\ Untouched(x)
  BY OpensFresh
<1>2. Open(d, x)
  BY <1>0, <1>1 DEF Stream, Ends
<1>3. ~Together(d, x)
  BY <1>0, <1>1 DEF Together, Untouched, Unknown
<1>4. \A f \in Flight(x) : f.k \in News => f.who = Nobody
  BY <1>1 DEF Untouched, Hears
<1>5. ~Leaves(d, x)
  <2> SUFFICES ASSUME Sending(d), Dest(d) = x, todo[d][1].f.k = "peer_left" PROVE FALSE
    BY DEF Leaves, Parting, SendsTo
  <2>1. 1 \in 1 .. Len(todo[d]) /\ todo[d][1].f \in FrameOf
    BY <1>0, FirstTypes
  <2>2. todo[d][1].f \in Flight(x) /\ todo[d][1].f.who \in Client
    BY <2>1, Flying DEF Dest, FrameOf
  <2> QED
    BY <1>0, <1>4, <2>2 DEF News
<1>6. ~Left(d, x)
  <2> SUFFICES ASSUME NEW m \in 1 .. Len(down[x]), down[x][m].k = "peer_left" PROVE FALSE
    BY DEF Left
  <2>1. down[x][m] \in FrameOf
    BY <1>0, Lengths
  <2>2. down[x][m] \in Flight(x) /\ down[x][m].who \in Client
    BY <2>1, Flying DEF FrameOf
  <2> QED
    BY <1>0, <1>4, <2>2 DEF News
<1> QED
  BY <1>2, <1>3, <1>5, <1>6 DEF Open

\* Whoever has opened a room has met nobody, or his link with his guest carries all in order.
LEMMA NextMatch ==
  ASSUME RelayInv, Patient, [Next]_vars
  PROVE  MatchInv'
<1>0. TypeOK /\ LoopInv /\ MatchInv /\ Nobody \notin Client
  BY DEF RelayInv, LoopInv, TypeInv
<1> SUFFICES ASSUME NEW d \in Client, Opener(d)'
             PROVE  Untouched(d)' \/ \E x \in Client \ {d} : Matched(d, x)'
  BY DEF MatchInv
<1>1. CASE ~Opener(d)
  <2>1. screen[d] = "menu" /\ Untouched(d)
    BY <1>1, OpensFresh
  <2>2. ~Meets(d)
    <3> SUFFICES ASSUME NEW c \in Client, NEW h \in Client, Joins(c, h), d \in {c, h} PROVE FALSE
      BY DEF Meets
    <3>1. Opener(d) <=> Opener(d)'
      BY DEF Joins, player, Opener
    <3> QED
      BY <1>1, <3>1
  <2> QED
    BY <2>1, <2>2, UntouchedStays
<1>2. CASE Opener(d) /\ Untouched(d) /\ ~Meets(d)
  BY <1>2, UntouchedStays
<1>3. CASE Opener(d) /\ Untouched(d) /\ Meets(d)
  <2>1. PICK c \in Client, h \in Client : Joins(c, h) /\ d \in {c, h}
    BY <1>3 DEF Meets
  <2>2. d = h /\ c # d /\ Untouched(c) /\ ~Opener(c) /\ running' = c
    BY <1>3, <2>1, MeetingAsks
  <2>3. UNCHANGED player /\ todo'[c] = Tidings(c, d) /\ with[d] = Nobody /\ with[c] = Nobody
    BY <1>3, <2>1, <2>2 DEF Joins, Untouched, Hears
  <2>4. CASE d \in gone
    BY <2>2, <2>3, <2>4 DEF Matched, Void, player
  <2>5. CASE d \notin gone
    <3>1. Expects(c, d)'
      BY <1>3, <2>1, <2>2, <2>5, Expected
    <3>2. c \notin gone => Expects(d, c)'
      BY <2>1, <2>2, Expected
    <3>3. Meeting(d, c)'
      BY <2>2, <2>3, <2>5, <3>1, <3>2 DEF Meeting, player
    <3> QED
      BY <2>2, <2>3, <3>3 DEF Matched, Opener, player
  <2> QED
    BY <2>4, <2>5
<1>4. ASSUME Opener(d), NEW x \in Client \ {d}, Matched(d, x) PROVE Matched(d, x)'
  <2>1. CASE Void(d)
    BY <2>1, ClosedStay DEF Void, Matched
  <2>2. CASE ~Opener(x) /\ with[d] \in {Nobody, x} /\ Meeting(d, x)
    BY <1>4, <2>2, MeetingStays
  <2>3. CASE ~Opener(x) /\ with[d] \in {Nobody, x} /\ Stream(x, d) /\ Stream(d, x)
    BY <2>3, StreamStays, GuestStays DEF Matched
  <2> QED
    BY <1>4, <2>1, <2>2, <2>3 DEF Matched
<1> QED
  BY <1>0, <1>1, <1>2, <1>3, <1>4 DEF MatchInv

\* Nobody has met anybody at first.
LEMMA InitRelay == Init => RelayInv
<1> SUFFICES ASSUME Init PROVE RelayInv
  OBVIOUS
<1>1. LoopInv /\ PairInv /\ AskInv
  BY InitLoop, InitPairs
<1>2. TypeOK /\ Nobody \notin Client
  BY <1>1 DEF LoopInv, TypeInv
<1>3. /\ \A c \in Client : /\ up[c] = << >> /\ down[c] = << >> /\ todo[c] = << >> /\ line[c] = << >>
                           /\ taken[c] = << >> /\ peer[c] = Nobody /\ with[c] = Nobody /\ screen[c] = "menu"
                           /\ opened[c] = 0 /\ said[c] = 0 /\ next[c] = "read"
      /\ gone = {} /\ lost = {} /\ ended = {} /\ games = {} /\ running = Nobody
  BY DEF Init
<1>4. \A c \in Client : ~Opener(c)
  BY <1>3 DEF Opener
<1>5. BaseInv
  <2> SUFFICES ASSUME NEW c \in Client PROVE Ends(c) /\ Speaks(c) /\ Owing(c) /\ Lined(c) /\ Stands(c)
    BY <1>3 DEF BaseInv
  <2>1. Ends(c)
    BY <1>3, <1>4 DEF Ends
  <2>2. Speaks(c) /\ Owing(c) /\ Lined(c) /\ Stands(c)
    BY <1>3 DEF Speaks, Owing, Lined, Stands, Sending
  <2> QED
    BY <2>1, <2>2
<1>6. \A c \in Client : Flight(c) = {}
  BY <1>3 DEF Flight, Owed
<1>7. \A c \in Client : Hears(c, Nobody)
  BY <1>2, <1>3, <1>6 DEF Hears
<1>8. \A c \in Client : Untouched(c)
  BY <1>2, <1>3, <1>6, <1>7 DEF Untouched, Unknown, Idle
<1>9. FreshInv /\ GuestInv /\ MatchInv
  BY <1>4, <1>7, <1>8 DEF FreshInv, GuestInv, MatchInv
<1> QED
  BY <1>1, <1>5, <1>9 DEF RelayInv

\* What a link has received is in order.
LEMMA RelayOrders == RelayInv => RelayInOrder
<1> SUFFICES ASSUME RelayInv, NEW c \in Client, NEW i \in DOMAIN taken[c]
             PROVE  LET from == taken[c][i][1] IN
                    /\ screen[c] = "linked" => from = with[c]
                    /\ with[from] = c => screen[c] \in {"linked", "lost", "closed"}
                    /\ screen[c] = "linked" /\ with[from] = c => taken[c][i][2] = i
  BY DEF RelayInOrder
<1>0. TypeOK /\ GuestInv /\ MatchInv /\ Nobody \notin Client /\ \A y \in Client : Ends(y)
  BY DEF RelayInv, BaseInv, LoopInv, TypeInv
<1>1. i \in 1 .. Len(taken[c]) /\ taken[c] # << >> /\ taken[c][i] \in Client \X Nat
  <2>1. taken[c] \in Seq(Client \X Nat)
    BY <1>0, Typed
  <2> QED
    BY <2>1
<1>2. /\ screen[c] \in {"menu", "asked", "hosting", "linked", "lost", "closed"}
      /\ c \in gone <=> screen[c] = "closed"
      /\ screen[c] \in {"linked", "lost"} => with[c] # Nobody
      /\ screen[c] \in {"menu", "asked", "hosting"} => with[c] = Nobody
  BY <1>0, Typed DEF Ends
<1>3. ASSUME NEW t \in Client, Open(t, c), c \notin gone PROVE
        /\ taken[c][i] = <<t, i>> /\ with[c] = t /\ screen[c] \in {"linked", "lost"}
  <2>1. taken[c][i] = <<t, i>>
    BY <1>1, <1>3 DEF Open, Chain
  <2>2. with[c] = t
    BY <1>1, <1>3 DEF Open, Ready
  <2> QED
    BY <1>0, <1>2, <1>3, <2>1, <2>2
<1>4. CASE ~Opener(c)
  <2>1. PICK h \in Client \cup {Nobody} : Hears(c, h) /\ (h # Nobody => Opener(h))
    BY <1>0, <1>4 DEF GuestInv
  <2>2. taken[c][i][1] = h /\ h \in Client /\ Opener(h)
    BY <1>0, <1>1, <2>1 DEF Hears
  <2>3. screen[c] = "linked" => with[c] = h
    BY <1>2, <2>1 DEF Hears
  <2>4. with[h] = c => Stream(h, c)
    <3> SUFFICES ASSUME with[h] = c PROVE Stream(h, c)
      OBVIOUS
    <3>1. ~Untouched(h)
      BY <1>0 DEF Untouched, Hears
    <3>2. PICK x \in Client \ {h} : Matched(h, x)
      BY <1>0, <2>2, <3>1 DEF MatchInv
    <3> QED
      BY <1>0, <3>2 DEF Matched, Void, Meeting
  <2>5. CASE with[h] # c
    BY <2>2, <2>3, <2>5
  <2>6. CASE Stream(h, c)
    <3>1. c \in gone \/ screen[c] = "lost" \/ Open(h, c)
      BY <2>6 DEF Stream
    <3>2. CASE c \in gone \/ screen[c] = "lost"
      BY <1>2, <3>2
    <3>3. CASE Open(h, c) /\ c \notin gone
      BY <1>3, <2>2, <3>3
    <3> QED
      BY <3>1, <3>2, <3>3
  <2> QED
    BY <2>4, <2>5, <2>6
<1>5. CASE Opener(c)
  <2>1. ~Untouched(c)
    BY <1>0, <1>1 DEF Untouched, Hears
  <2>2. PICK x \in Client \ {c} : Matched(c, x)
    BY <1>0, <1>5, <2>1 DEF MatchInv
  <2>3. c \in gone \/ screen[c] = "lost" \/ Open(x, c)
    BY <1>1, <2>2 DEF Matched, Void, Meeting, Stream, Expects
  <2>4. CASE c \in gone \/ screen[c] = "lost"
    BY <1>2, <2>4
  <2>5. CASE Open(x, c) /\ c \notin gone
    BY <1>3, <2>5
  <2> QED
    BY <2>3, <2>4, <2>5
<1> QED
  BY <1>4, <1>5

\* What a link has received was sent by the player it was opened with, all of it and in
\* order (RelayInOrder: the relay of handle_relay, drop_pairing and LobbyClient), however
\* many players, rooms and bytes there are.
THEOREM RelayAlwaysInOrder == Patient => (Spec => []RelayInOrder)
<1> SUFFICES ASSUME Patient PROVE Spec => []RelayInOrder
  OBVIOUS
<1>1. RelayInv /\ [Next]_vars => RelayInv'
  <2> SUFFICES ASSUME RelayInv, [Next]_vars PROVE RelayInv'
    OBVIOUS
  <2>1. LoopInv' /\ PairInv' /\ AskInv'
    BY NextLoop, NextPairs DEF RelayInv
  <2>2. BaseInv' /\ FreshInv' /\ GuestInv' /\ MatchInv'
    BY NextBase, NextFresh, NextGuest, NextMatch
  <2> QED
    BY <2>1, <2>2 DEF RelayInv
<1> QED
  BY <1>1, InitRelay, RelayOrders, PTL DEF Spec
=============================================================================
