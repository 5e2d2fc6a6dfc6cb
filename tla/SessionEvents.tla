---------------------------- MODULE SessionEvents ----------------------------
(***************************************************************************)
(* What the network layer promises to the packet processor: the packets it *)
(* hands over one at a time are, for every session index, a sequence of    *)
(* connections, each of them one CONNECT, any number of client packets and *)
(* one CLOSE; and connections are announced in the order they were         *)
(* accepted, none twice.  TCPNetWork implements this specification although*)
(* it reuses an index before the logic has heard that it was closed.       *)
(***************************************************************************)
EXTENDS Naturals

CONSTANT PoolSize

VARIABLES
    announced,      \* the open connection at each index, 0 for none
    latest,         \* the connection announced last
    packetInfo      \* the packet handed over last

Index == 0 .. PoolSize - 1
Packet(i, id, s) == [SessionIndex |-> i, PacketId |-> id, seq |-> s]

Init ==
    /\ announced = [i \in Index |-> 0]
    /\ latest = 0
    /\ packetInfo = Packet(0, "NONE", 0)

\* A connection later than all before it opens at a free index.
Connect(i) ==
    /\ announced[i] = 0
    /\ latest' > latest
    /\ announced' = [announced EXCEPT ![i] = latest']
    /\ packetInfo' = Packet(i, "CONNECT", latest')

\* A packet of the connection that is open at its index.
Data(i) ==
    /\ announced[i] # 0
    /\ packetInfo' = Packet(i, "DATA", announced[i])
    /\ UNCHANGED <<announced, latest>>

\* The end of that connection: nothing of it follows.
Close(i) ==
    /\ announced[i] # 0
    /\ packetInfo' = Packet(i, "CLOSE", announced[i])
    /\ announced' = [announced EXCEPT ![i] = 0]
    /\ UNCHANGED latest

Next == \E i \in Index : Connect(i) \/ Data(i) \/ Close(i)

Spec == Init /\ [][Next]_<<announced, latest, packetInfo>>
=============================================================================
