------------------------------ MODULE GameServer ------------------------------
(***************************************************************************)
(* example/gameserver: the adhoc game server, an EpollServer with one      *)
(* handle thread (main: Init(port, 2, 10, 1)).  The network threads accept *)
(* clients and Parse their packets, the handle thread handles the packets  *)
(* of all clients in one queue, and a detached thread checks the session   *)
(* of each login.  They meet in playerList (base/constant_ptr_list.h).     *)
(*                                                                         *)
(* A client stands for its connection and for the Player made for it, so   *)
(* playerList and the playerMap of a room map ids to clients, and alive    *)
(* holds the players that are not deleted.  A packet is a whole packet,    *)
(* which Parse meets when all of it is there.  What is sent to a client is *)
(* kept as what the client then knows: view are the peers that CONNECT and *)
(* DISCONNECT announced, heard the senders of chats and game data.         *)
(***************************************************************************)
EXTENDS Naturals, Sequences, FiniteSets, TLC, FiniteSetsExt, SequencesExt, Functions

CONSTANTS Clients,    \* the connections of a run, numbered in the order of their accepts
          Total,      \* ConstantPtrList::total
          Products,   \* product codes
          Crosslink,  \* game_product_override: the game of a product
          Scenarios,  \* what the clients send: a set of functions to packets
          QMax,       \* ThreadQueue::_maxSize of recvlist
          NoOne       \* NULL, and the empty string

\* What a client can send.  The code of a room has ADHOCCTL_GROUPNAME_LEN bytes and is
\* never the empty string.
Packet == [op : {"LOGIN"}, product : Products, valid : BOOLEAN]
          \cup [op : {"CONNECT"}, room : STRING, valid : BOOLEAN]
          \cup [op : {"GAME_DATA"}, to : Clients]
          \cup [op : {"PING", "DISCONNECT", "SCAN", "CHAT", "BAD_OP", "BAD_LEN"}]

ASSUME GameAssumption == /\ Total \in Nat \ {0} /\ QMax \in Nat \ {0}
                         /\ Clients \subseteq Nat /\ NoOne \notin Clients \cup STRING
                         /\ Products \subseteq DOMAIN Crosslink
                         /\ Scenarios \subseteq [Clients -> Seq(Packet)]

Ids   == 1..Total
Games == {Crosslink[p] : p \in Products}

\* Player::userState, and the result of GetPlayerState for an unknown player.
WAITING == "waiting"
LOGGED_IN == "logged_in"
CONNECTED_ROOM == "connected_room"
DIC_CONN == "dic_conn"

VARIABLES stream,     \* what each client sends, less what was parsed
          link,       \* the connection: "none", "open" or "closed"
          pid,        \* Connector::data.u32
          queue,      \* recvlist
          free,       \* ConstantPtrList::free
          playerList, \* ConstantPtrList::vList
          player,     \* the fields of each Player
          alive,      \* players that are not deleted
          gameWorldMap, \* the games that have a GameWorld
          roomMap,    \* the playerMap of each room: <<game, room>> to ids to players
          checks,     \* session checks that are running
          kills,      \* checks that failed and hold the pointer to a player
          closing,    \* connections that CloseConnector was called for
          lost,       \* clients whose LOGOUT recvlist refused (history)
          walk,       \* GetPlayerSession on its way through the rooms
          view, heard

net   == <<stream, link, pid, lost>>
ids   == <<free, playerList, alive>>
known == <<view, heard>>
vars  == <<net, queue, ids, player, gameWorldMap, roomMap, checks, kills, closing, walk, known>>

\* No walk: left are the rooms it has yet to visit, seen those it visited, got the sessions it
\* has; stayed, who is in a room ever since it began, and been, who was in one, are history.
NoWalk == [on |-> FALSE, left |-> {}, seen |-> {}, got |-> {}, stayed |-> {}, been |-> {}]

\* Player::Player
NewPlayer == [state |-> WAITING, game |-> NoOne, room |-> NoOne, mac |-> NoOne, age |-> 0]

Init == /\ stream \in Scenarios
        /\ link = [c \in Clients |-> "none"]
        /\ pid = [c \in Clients |-> 0]
        /\ queue = <<>>
        /\ free = [i \in Ids |-> i]
        /\ playerList = [i \in Ids |-> NoOne]
        /\ player = [c \in Clients |-> NewPlayer]
        /\ alive = {} /\ gameWorldMap = {} /\ roomMap = <<>> /\ checks = {} /\ closing = {}
        /\ kills = {} /\ lost = {} /\ walk = NoWalk
        /\ view = [c \in Clients |-> {}] /\ heard = [c \in Clients |-> {}]

GetPlayer(i) == IF i \in Ids THEN playerList[i] ELSE NoOne
GetPlayerState(i) == IF GetPlayer(i) = NoOne THEN DIC_CONN ELSE player[GetPlayer(i)].state
\* One step where the player cannot be deleted between get and its use: in the handle
\* thread, which alone deletes players, and in Parse, for the player of an open connection.
KillOff(i) == closing \cup ({GetPlayer(i)} \ {NoOne})

\* InsertRecvData: push_back tests the size before it locks, and of two network threads the
\* other may push in between.  Refused, the packet is deleted.
Insert(m) == Len(queue) <= QMax /\ queue' = Append(queue, m)
Refused   == Len(queue) >= QMax /\ queue' = queue
-----------------------------------------------------------------------------
(* Network threads                                                         *)

\* Variant: the id stays at the front of the list.
CreateKeepsId(c) ==
  /\ link[c] = "none" /\ free # <<>> /\ \A d \in Clients : d < c => link[d] # "none"
  /\ link' = [link EXCEPT ![c] = "open"]
  /\ pid' = [pid EXCEPT ![c] = Head(free)]
  /\ playerList' = [playerList EXCEPT ![Head(free)] = c]
  /\ alive' = alive \cup {c}
  /\ UNCHANGED <<stream, lost, free, queue, player, gameWorldMap, roomMap, checks, kills, closing, walk, known>>

\* With no free id getUniqId reads the front of an empty list: not modelled.
CreateConnectorCB(c) ==
  /\ link[c] = "none" /\ free # <<>> /\ \A d \in Clients : d < c => link[d] # "none"
  /\ link' = [link EXCEPT ![c] = "open"]
  /\ pid' = [pid EXCEPT ![c] = Head(free)]
  /\ free' = Tail(free)
  /\ playerList' = [playerList EXCEPT ![Head(free)] = c]
  /\ alive' = alive \cup {c}
  /\ UNCHANGED <<stream, lost, queue, player, gameWorldMap, roomMap, checks, kills, closing, walk, known>>

Queued(c, p) == [pkt |-> p, uid |-> pid[c], from |-> c]
Plain == {"PING", "CONNECT", "DISCONNECT", "SCAN", "CHAT", "GAME_DATA"}

\* Variant: game data of a bad length is not dropped.
ParseKeepsBad(c) ==
  /\ link[c] = "open" /\ stream[c] # <<>>
  /\ LET p == Head(stream[c]) IN
     \/ /\ (p.op \in Plain \/ (p.op = "LOGIN" /\ GetPlayerState(pid[c]) = WAITING))
        /\ stream' = [stream EXCEPT ![c] = Tail(@)]
        /\ Insert(Queued(c, p)) \/ Refused
        /\ UNCHANGED closing
     \/ /\ p.op = "BAD_OP"
        /\ stream' = [stream EXCEPT ![c] = <<>>]
        /\ closing' = KillOff(pid[c])
        /\ UNCHANGED queue
  /\ UNCHANGED <<link, pid, lost, ids, player, gameWorldMap, roomMap, checks, kills, walk, known>>

\* Opcodes beyond PACKET_MAX and unknown ones, and game data of a bad length,
\* drop everything received so far; the former also kill the client off.  A LOGIN
\* that comes when the player is not waiting is neither dropped nor returned.
Parse(c) ==
  /\ link[c] = "open" /\ stream[c] # <<>>
  /\ LET p == Head(stream[c]) IN
     \/ /\ \/ p.op \in Plain
           \/ p.op = "LOGIN" /\ GetPlayerState(pid[c]) = WAITING
        /\ stream' = [stream EXCEPT ![c] = Tail(@)]
        /\ Insert(Queued(c, p)) \/ Refused
        /\ UNCHANGED closing
     \/ /\ p.op \in {"BAD_LEN", "BAD_OP"}
        /\ \E n \in 1..Len(stream[c]) : stream' = [stream EXCEPT ![c] = SubSeq(@, n + 1, Len(@))]
        /\ closing' = IF p.op = "BAD_OP" THEN KillOff(pid[c]) ELSE closing
        /\ UNCHANGED queue
  /\ UNCHANGED <<link, pid, lost, ids, player, gameWorldMap, roomMap, checks, kills, walk, known>>

\* Variant: the player is deleted where the connection ends, as logout_user does.
CloseDeletes(c) ==
  /\ link[c] = "open"
  /\ link' = [link EXCEPT ![c] = "closed"]
  /\ playerList' = [playerList EXCEPT ![pid[c]] = NoOne]
  /\ free' = Append(free, pid[c])
  /\ alive' = alive \ {c}
  /\ UNCHANGED <<stream, lost, pid, queue, player, gameWorldMap, roomMap, checks, kills, closing,
                 walk, known>>

\* The connection ends, by the client or by CloseConnector: ClosedConnectCB, which does not
\* look whether the LOGOUT was taken.
Close(c) ==
  /\ link[c] = "open"
  /\ link' = [link EXCEPT ![c] = "closed"]
  /\ \/ Insert(Queued(c, [op |-> "LOGOUT"])) /\ UNCHANGED lost
     \/ Refused /\ lost' = lost \cup {c}
  /\ UNCHANGED <<stream, pid, ids, player, gameWorldMap, roomMap, checks, kills, closing, walk, known>>
-----------------------------------------------------------------------------
(* The session check of a login, in a thread of its own: player_session_check *)

\* Variant: without the test of NULL.
SessionCheckAny(k) ==
  /\ checks' = checks \ {k}
  /\ UNCHANGED kills \/ kills' = kills \cup {<<k[1], k[2], GetPlayer(k[1])>>}
  /\ UNCHANGED <<net, queue, ids, player, gameWorldMap, roomMap, closing, walk, known>>

\* The answer comes: the session is good, or its id, by now perhaps that of another client, is
\* looked up in KillOffPlayer.
SessionCheck(k) ==
  /\ checks' = checks \ {k}
  /\ \/ UNCHANGED kills
     \/ GetPlayer(k[1]) # NoOne /\ kills' = kills \cup {<<k[1], k[2], GetPlayer(k[1])>>}
  /\ UNCHANGED <<net, queue, ids, player, gameWorldMap, roomMap, closing, walk, known>>

\* The rest of KillOffPlayer reads the player without a lock.  When LOGOUT was handled in
\* between it reads freed memory, which may name any connection or none.
SessionKill(x) ==
  /\ kills' = kills \ {x}
  /\ \E who \in IF x[3] \in alive THEN {{x[3]}} ELSE {{}} \cup {{c} : c \in {d \in Clients : link[d] = "open"}} :
        closing' = closing \cup who
  /\ UNCHANGED <<net, queue, ids, player, gameWorldMap, roomMap, checks, walk, known>>
-----------------------------------------------------------------------------
(* The handle thread: Server::handle                                       *)

Msg == Head(queue)
Me  == GetPlayer(Msg.uid)
Members(r) == {roomMap[r][i] : i \in DOMAIN roomMap[r]}

Handling(op) == /\ queue # <<>> /\ Msg.pkt.op = op
                /\ queue' = Tail(queue)
                /\ UNCHANGED <<net, kills>>

\* What the walk of GetPlayerSession has met so far, after a move of the players.
Seated == UNION {Members(r) : r \in DOMAIN roomMap}
Track  == walk' = IF walk.on THEN [walk EXCEPT !.stayed = @ \cap Seated', !.been = @ \cup Seated'] ELSE walk

\* Variant: the mac of the player is not kept.
LoginWithoutMac ==
  /\ Handling("LOGIN")
  /\ LET g == Crosslink[Msg.pkt.product] IN
     /\ gameWorldMap' = gameWorldMap \cup {g}
     /\ player' = [player EXCEPT ![Me].state = LOGGED_IN, ![Me].game = g]
  /\ UNCHANGED <<ids, roomMap, walk, known, checks, closing>>

\* login_user_data: valid stands for the product code, mac, name and session.
HandleLogin ==
  /\ Handling("LOGIN")
  /\ \/ /\ Msg.pkt.valid
        /\ LET g == Crosslink[Msg.pkt.product] IN
           /\ gameWorldMap' = gameWorldMap \cup {g}
           /\ player' = [player EXCEPT ![Me].state = LOGGED_IN, ![Me].game = g, ![Me].mac = Me]
        /\ checks' = checks \cup {<<Msg.uid, Msg.from>>}
        /\ UNCHANGED closing
     \/ /\ ~Msg.pkt.valid
        /\ closing' = KillOff(Msg.uid)
        /\ UNCHANGED <<gameWorldMap, player, checks>>
  /\ UNCHANGED <<ids, roomMap, walk, known>>

\* Variants: the newcomer is told of nobody; only those there before grow older.
EnterUntold(r, i, p) ==
  LET there == IF r \in DOMAIN roomMap THEN roomMap[r] ELSE <<>> IN
  /\ roomMap' = (r :> (there @@ (i :> p))) @@ roomMap
  /\ player' = [player EXCEPT ![p].age = @ + 1, ![p].room = r[2], ![p].state = CONNECTED_ROOM]
  /\ view' = [c \in Clients |-> view[c] \cup (IF c \in Range(there) THEN {p} ELSE {})]
EnterYoung(r, i, p) ==
  LET there == IF r \in DOMAIN roomMap THEN roomMap[r] ELSE <<>> IN
  /\ roomMap' = (r :> (there @@ (i :> p))) @@ roomMap
  /\ player' = [player EXCEPT ![p].room = r[2], ![p].state = CONNECTED_ROOM]
  /\ view' = [c \in Clients |-> IF c = p THEN view[c] \cup Range(there)
                                 ELSE IF c \in Range(there) THEN view[c] \cup {p} ELSE view[c]]

\* GameRoom::connectPlayer: everybody here learns of p and p of everybody, p is
\* listed (map::insert keeps an entry that is there), and all grow older.
Enter(r, i, p) ==
  LET there == IF r \in DOMAIN roomMap THEN roomMap[r] ELSE <<>>
      now   == [j \in {i} \cup DOMAIN there |-> IF j \in DOMAIN there THEN there[j] ELSE p]
      peers == Range(there)
      all   == Range(now)
  IN /\ roomMap' = [q \in {r} \cup DOMAIN roomMap |-> IF q = r THEN now ELSE roomMap[q]]
     /\ player' = [c \in Clients |->
                     [player[c] EXCEPT !.age = IF c \in all THEN @ + 1 ELSE @,
                                       !.room = IF c = p THEN r[2] ELSE @,
                                       !.state = IF c = p THEN CONNECTED_ROOM ELSE @]]
     /\ view' = [c \in Clients |-> view[c] \cup (IF c = p THEN peers
                                                 ELSE IF c \in peers THEN {p} ELSE {})]

\* connect_user; a CONNECT in another state is dropped.
HandleConnect ==
  /\ Handling("CONNECT")
  /\ LET ready == GetPlayerState(Msg.uid) = LOGGED_IN
         good  == ready /\ Msg.pkt.valid /\ player[Me].game \in gameWorldMap
     IN \/ /\ good
           /\ Enter(<<player[Me].game, Msg.pkt.room>>, Msg.uid, Me)
           /\ UNCHANGED closing
        \/ /\ ready /\ ~good
           /\ closing' = KillOff(Msg.uid)
           /\ UNCHANGED <<roomMap, player, view>>
        \/ /\ ~ready
           /\ UNCHANGED <<roomMap, player, view, closing>>
  /\ Track
  /\ UNCHANGED <<ids, gameWorldMap, checks, heard>>

\* disconnect_user, GameWorld and GameRoom::disConnectPlayer: STATE_SUCCESS or an
\* error that changes nothing.
CanLeave(i, from) ==
  LET p == GetPlayer(i)
      r == <<player[p].game, player[p].room>>
  IN /\ GetPlayerState(i) = CONNECTED_ROOM
     /\ player[p].game \in gameWorldMap /\ player[p].room # NoOne /\ p = from
     /\ r \in DOMAIN roomMap /\ i \in DOMAIN roomMap[r]

\* Variant: the state of the player stays as it was.
LeaveInState(i, p) ==
  LET r    == <<player[p].game, player[p].room>>
      rest == Restrict(roomMap[r], DOMAIN roomMap[r] \ {i})
  IN /\ roomMap' = [roomMap EXCEPT ![r] = rest]
     /\ player' = [player EXCEPT ![p].room = NoOne]
     /\ view' = [c \in Clients |-> IF c = p THEN {} ELSE view[c] \ {p}]

\* The player leaves the room; those who stay are told.  The client forgets its peers.
Leave(i, p) ==
  LET r    == <<player[p].game, player[p].room>>
      rest == Restrict(roomMap[r], DOMAIN roomMap[r] \ {i})
  IN /\ roomMap' = [roomMap EXCEPT ![r] = rest]
     /\ player' = [player EXCEPT ![p].room = NoOne, ![p].state = LOGGED_IN]
     /\ view' = [c \in Clients |-> IF c = p THEN {} ELSE IF c \in Range(rest) THEN view[c] \ {p}
                                   ELSE view[c]]

HandleDisconnect ==
  /\ Handling("DISCONNECT")
  /\ IF CanLeave(Msg.uid, Msg.from) THEN Leave(Msg.uid, Me) ELSE UNCHANGED <<roomMap, player, view>>
  /\ Track
  /\ UNCHANGED <<ids, gameWorldMap, checks, closing, heard>>

\* Variants: the player does not leave its room; one that is in no room is not deleted.
LogoutInRoom ==
  /\ Handling("LOGOUT")
  /\ playerList' = [playerList EXCEPT ![Msg.uid] = NoOne]
  /\ free' = Append(free, Msg.uid)
  /\ alive' = alive \ {Me}
  /\ UNCHANGED <<roomMap, walk, player, view, gameWorldMap, checks, closing, heard>>
LogoutOfRoom ==
  /\ Handling("LOGOUT")
  /\ IF CanLeave(Msg.uid, Msg.from)
     THEN /\ Leave(Msg.uid, Me)
          /\ playerList' = [playerList EXCEPT ![Msg.uid] = NoOne]
          /\ free' = Append(free, Msg.uid)
          /\ alive' = alive \ {Me}
     ELSE UNCHANGED <<roomMap, player, view, ids>>
  /\ Track
  /\ UNCHANGED <<gameWorldMap, checks, closing, heard>>

\* LOGOUT comes from ClosedConnectCB only; ConstantPtrList::del frees the id.
HandleLogout ==
  /\ Handling("LOGOUT")
  /\ IF CanLeave(Msg.uid, Msg.from) THEN Leave(Msg.uid, Me) ELSE UNCHANGED <<roomMap, player, view>>
  /\ IF Me = NoOne THEN UNCHANGED ids
     ELSE /\ playerList' = [playerList EXCEPT ![Msg.uid] = NoOne]
          /\ free' = Append(free, Msg.uid)
          /\ alive' = alive \ {Me}
  /\ Track
  /\ UNCHANGED <<gameWorldMap, checks, closing, heard>>

Hear(who, what) == heard' = [c \in Clients |-> heard[c] \cup (IF c \in who THEN {what} ELSE {})]

\* Variant: to the rooms of all games.
SpreadToAll(p) == UNION {Members(r) : r \in DOMAIN roomMap}
\* spread_message: a chat is handled for players outside rooms only, whose roomCode
\* is empty, so it goes to every room of the game.
SpreadTo(p) == UNION {Members(r) : r \in {q \in DOMAIN roomMap : q[1] = player[p].game}}
HandleChat ==
  /\ Handling("CHAT")
  /\ IF GetPlayerState(Msg.uid) = LOGGED_IN THEN Hear(SpreadTo(Me), <<"chat", Me>>) ELSE UNCHANGED heard
  /\ UNCHANGED <<ids, player, gameWorldMap, roomMap, walk, checks, closing, view>>

\* transfer_message: to the players of the own room with the address of the packet.
TransferTo(p, to) == {c \in Members(<<player[p].game, player[p].room>>) : c = to /\ player[c].mac = to}
HandleGameData ==
  /\ Handling("GAME_DATA")
  /\ IF GetPlayerState(Msg.uid) = CONNECTED_ROOM
     THEN Hear(TransferTo(Me, Msg.pkt.to), <<"data", Me>>) ELSE UNCHANGED heard
  /\ UNCHANGED <<ids, player, gameWorldMap, roomMap, walk, checks, closing, view>>

\* PING does nothing; send_scan_results only sends: the rooms and who hosts them.
HandleOther ==
  /\ Handling("PING") \/ Handling("SCAN")
  /\ UNCHANGED <<ids, player, gameWorldMap, roomMap, walk, checks, closing, known>>

\* GameRoom::getRoomHostMac: the last in the order of the map with an age above zero,
\* as maxAge is never raised.
RoomHostMac(m) == LET old == {i \in DOMAIN m : player[m[i]].age > 0}
                  IN IF old = {} THEN NoOne ELSE player[m[Max(old)]].mac
ScanResults(g) == {<<r, RoomHostMac(roomMap[r])>> : r \in {q \in DOMAIN roomMap : q[1] = g}}
-----------------------------------------------------------------------------
(* Server::GetPlayerSession, which main calls every 30 seconds to refresh the sessions.  It   *)
(* walks through the rooms of all games and locks one room at a time, while the players move. *)
(* The session of a player is its own, as its mac.                                            *)

still == <<net, queue, ids, player, gameWorldMap, roomMap, checks, kills, closing, known>>

WalkBegin ==
  /\ ~walk.on
  /\ walk' = [NoWalk EXCEPT !.on = TRUE, !.left = DOMAIN roomMap, !.stayed = Seated, !.been = Seated]
  /\ UNCHANGED still

\* The next room in the order of the maps, a new one perhaps.
PlayerSession(r) ==
  /\ walk.on /\ r \notin walk.seen
  /\ walk' = [walk EXCEPT !.left = @ \ {r}, !.seen = @ \cup {r},
                          !.got = @ \cup {player[c].mac : c \in Members(r)}]
  /\ UNCHANGED still

WalkEnd == walk.on /\ walk.left = {} /\ walk' = NoWalk /\ UNCHANGED still
-----------------------------------------------------------------------------
Handle == \/ HandleLogin \/ HandleConnect \/ HandleDisconnect \/ HandleLogout
          \/ HandleChat \/ HandleGameData \/ HandleOther

Next == \/ \E c \in Clients : CreateConnectorCB(c) \/ Parse(c) \/ Close(c)
        \/ \E k \in checks : SessionCheck(k)
        \/ \E x \in kills : SessionKill(x)
        \/ WalkBegin \/ WalkEnd \/ \E r \in DOMAIN roomMap : PlayerSession(r)
        \/ Handle

\* The epoll threads serve every connection that has data or is to be closed, and the
\* handle thread and the session threads run; nobody has to connect or to send.
Fairness == /\ \A c \in Clients : WF_vars(Parse(c)) /\ WF_vars(c \in closing /\ Close(c))
            /\ WF_vars(Handle)

Spec == Init /\ [][Next]_vars /\ Fairness
-----------------------------------------------------------------------------
InRoom(c) == {r \in DOMAIN roomMap : c \in Members(r)}

TypeOK ==
  /\ link \in [Clients -> {"none", "open", "closed"}]
  /\ pid \in [Clients -> 0..Total]
  /\ playerList \in [Ids -> Clients \cup {NoOne}]
  /\ player \in [Clients -> [state : {WAITING, LOGGED_IN, CONNECTED_ROOM}, game : Games \cup {NoOne},
                             room : STRING \cup {NoOne}, mac : Clients \cup {NoOne}, age : Nat]]
  /\ alive \subseteq Clients /\ closing \subseteq Clients /\ gameWorldMap \subseteq Games
  /\ checks \subseteq Ids \X Clients /\ kills \subseteq Ids \X Clients \X Clients
  /\ lost \subseteq {c \in Clients : link[c] = "closed"}
  /\ \A r \in DOMAIN roomMap : r[1] \in gameWorldMap /\ DOMAIN roomMap[r] \subseteq Ids
  /\ \A i \in 1..Len(free) : free[i] \in Ids

\* Ids are recycled when LOGOUT is handled, long after the connection is gone: each id
\* is free once or belongs to one live player, and no other.
IdsRecycled ==
  /\ IsInjective(free)
  /\ Range(free) = {i \in Ids : playerList[i] = NoOne}
  /\ alive = Range(playerList) \ {NoOne}
  /\ \A i, j \in Ids : playerList[i] = playerList[j] /\ i # j => playerList[i] = NoOne

\* A packet waits in the queue while its connection may close and its id may be given
\* to another client: it still meets the player of the client that sent it.
PacketMeetsItsPlayer == \A m \in Range(queue) : GetPlayer(m.uid) = m.from

\* game_room.h:32: a player is deleted after it left its room only, so the pointers of a
\* room are good.
RoomPlayersAlive ==
  \A r \in DOMAIN roomMap : \A i \in DOMAIN roomMap[r] :
     roomMap[r][i] \in alive /\ playerList[i] = roomMap[r][i]

\* userState, roomCode and the maps of the rooms say the same of every live player.
StateMatchesRoom ==
  \A c \in alive :
     InRoom(c) = IF player[c].state = CONNECTED_ROOM THEN {<<player[c].game, player[c].room>>} ELSE {}

\* The members of a room were told of each other, and of nobody who is not there.
ViewsAgree == \A c \in alive : view[c] = UNION {Members(r) \ {c} : r \in InRoom(c)}

\* A scan names a member as the host of a room that has members, and nobody else.
ScanShowsMember ==
  \A r \in DOMAIN roomMap : Members(r) # {} => RoomHostMac(roomMap[r]) \in Members(r)

\* While players come, go and change rooms, the sessions that main refreshes are those of
\* players who were in a room during the walk, and none who stayed in its room is missed.
SessionsOfPlayers == walk.got \subseteq walk.been /\ (walk.left = {} => walk.stayed \subseteq walk.got)

\* What a client hears comes from its own game.
HeardWithinGame == \A c \in Clients : \A m \in heard[c] : player[m[2]].game = player[c].game

\* The player of a connection that ended is deleted, so that its id can be used again, unless
\* recvlist was full when it ended: that player then stays for ever.
Released(c) == link[c] = "closed" => c \notin alive \/ c \in lost

\* What a client sent is parsed as long as it is connected: no packet blocks those behind it.
\* (Of clients that log in once: a second LOGIN stays in front for ever.)
Served(c) == link[c] = "open" => stream[c] = <<>>

\* The players' table and the free list agree, and main's list of sessions is right, whatever the
\* order of closes, new connections, packets still queued and moves during the walk
\* (constant_ptr_list.h:154-187, server.cc:346-366 and 257-270, game_world.cc:143-156).
PlayersSound == IdsRecycled /\ SessionsOfPlayers

\* No handler and no room holds the player of another client or a deleted one
\* (server.cc:69-87 and 310-315, game_room.h:32-33).
NoDeletedPlayer == PacketMeetsItsPlayer /\ RoomPlayersAlive

\* Players, rooms and what the members were told agree after every packet, a join, a
\* leave and a lost connection included (game_room.cc:29-172, server.cc:465-545).
RoomsAgree == StateMatchesRoom /\ ViewsAgree /\ ScanShowsMember

\* The id of a closed connection comes back and nobody's packets wait for ever: again and again
\* nobody waits for either.  Each client waits once for each, so none of them waits for ever
\* (server.cc:55-87 and 142-254).
ServedAndReleased == []<>(\A c \in Clients : Released(c) /\ Served(c))
=============================================================================
