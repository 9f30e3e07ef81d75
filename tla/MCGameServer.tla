----------------------------- MODULE MCGameServer -----------------------------
\* Three clients with ids for two: the third waits for the id of a player that left.
EXTENDS GameServer

MCProducts == {"p1", "p2", "p3"}
MCCrosslink == ("p1" :> "g1") @@ ("p2" :> "g1") @@ ("p3" :> "g2")

Login(p)   == [op |-> "LOGIN", product |-> p, valid |-> TRUE]
BadLogin   == [op |-> "LOGIN", product |-> "p1", valid |-> FALSE]
Connect(r) == [op |-> "CONNECT", room |-> r, valid |-> TRUE]
BadConnect == [op |-> "CONNECT", room |-> "r1", valid |-> FALSE]
Do(op)     == [op |-> op]
Data(c)    == [op |-> "GAME_DATA", to |-> c]

Scenario(a, b, c) == <<a, b, c>>
Play(p, r) == <<Login(p), Connect(r)>>

MCScenarios == {
  Scenario(Play("p1", "r1") \o <<Data(2)>>, Play("p2", "r1"), <<>>),
  Scenario(Play("p1", "r1") \o <<Do("DISCONNECT"), Connect("r2")>>, Play("p2", "r2"), <<>>),
  Scenario(Play("p1", "r1"), <<Login("p3"), Do("CHAT")>>, <<>>),
  Scenario(Play("p1", "r1"), <<Login("p2"), Do("CHAT")>>, <<BadLogin>>),
  Scenario(<<Login("p1"), Do("BAD_OP"), BadConnect>>, <<Connect("r1"), Do("DISCONNECT")>>,
           <<Do("BAD_LEN"), Do("PING"), Do("SCAN")>>)}

\* A client that logs in again before its first packets are handled.
LoginAgain == {Scenario(<<Login("p1"), Connect("r1"), Login("p1")>>, Play("p1", "r1"), <<>>)}
=============================================================================
