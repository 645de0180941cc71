----------------------------- MODULE ServerGrp ------------------------------
(***************************************************************************)
(* The connections among the servers of a group: tester1/group.go and      *)
(* srv.go.  Server i has an end for each server j, which the tester        *)
(* enables and disables.  Tests call the operations below one at a time    *)
(* and in any order, except that a server is started only after it was     *)
(* shut down; raft1/test.go:56-58 connects servers that are down, too.     *)
(***************************************************************************)
EXTENDS Naturals, Sequences, Functions

CONSTANT N   \* the servers of the group

ASSUME ServerGrpAssumption == N \in Nat \ {0}

Srv == 0 .. N - 1

VARIABLES enabled,     \* enabled[i][j]: the network has enabled the end of i to j
          connected,   \* sg.connected
          running,     \* the servers that have been started and not shut down
          fresh,       \* history: the servers started and not connected since
          apart        \* history: the pairs that a Partition has cut since they were joined

vars == <<enabled, connected, running, fresh, apart>>

\* sg.all()
All == [j \in 1 .. N |-> j - 1]

\* The ends and the flags as one value, which connect and disconnect transform.
Links == [enabled : [Srv -> [Srv -> BOOLEAN]], connected : [Srv -> BOOLEAN]]
Current == [enabled |-> enabled, connected |-> connected]

\* makeSrvGrp
MakeSrvGrp == [enabled   |-> [i \in Srv |-> [j \in Srv |-> FALSE]],
               connected |-> [i \in Srv |-> FALSE]]

\* Server.connect: the ends of i to the servers in s are enabled.
EnableFrom(ends, i, s) == [ends EXCEPT ![i] = [j \in Srv |-> @[j] \/ j \in Range(s)]]

\* Server.disconnect: they are disabled.
DisableFrom(ends, i, s) == [ends EXCEPT ![i] = [j \in Srv |-> @[j] /\ j \notin Range(s)]]

\* Mutant: the ends of i are left alone.
ConnectIncomingOnly(l, i, s) ==
    LET on == [l.connected EXCEPT ![i] = TRUE]
        incoming == {s[n] : n \in {m \in DOMAIN s : on[m - 1]}}
    IN [connected |-> on,
        enabled |-> [a \in Srv |-> [b \in Srv |->
                        l.enabled[a][b] \/ (b = i /\ a \in incoming)]]]

\* connect: the ends of i to the servers in s, and the ends to i of those servers s[j]
\* whose index j is the number of a connected server.
Connect(l, i, s) ==
    LET on == [l.connected EXCEPT ![i] = TRUE]
        incoming == {s[n] : n \in {m \in DOMAIN s : on[m - 1]}}
    IN [connected |-> on,
        enabled |-> [a \in Srv |-> [b \in Srv |->
                        \/ EnableFrom(l.enabled, i, s)[a][b]
                        \/ b = i /\ a \in incoming]]]

\* Mutant: the ends of i itself stay enabled.
DisconnectIncomingOnly(l, i, s) ==
    [connected |-> [l.connected EXCEPT ![i] = FALSE],
     enabled |-> [a \in Srv |-> [b \in Srv |->
                    l.enabled[a][b] /\ ~(b = i /\ a \in Range(s))]]]

\* disconnect: the ends of i to the servers in s, and theirs to i.
Disconnect(l, i, s) ==
    [connected |-> [l.connected EXCEPT ![i] = FALSE],
     enabled |-> [a \in Srv |-> [b \in Srv |->
                    /\ DisableFrom(l.enabled, i, s)[a][b]
                    /\ ~(b = i /\ a \in Range(s))]]]

\* The loop of ConnectAll.
ConnectEach(l) ==
    LET after[n \in 0 .. N] == IF n = 0 THEN l ELSE Connect(after[n - 1], All[n], All)
    IN after[N]

\* StartServers: every server is started, then ConnectAll.
Init ==
    /\ enabled = ConnectEach(MakeSrvGrp).enabled
    /\ connected = ConnectEach(MakeSrvGrp).connected
    /\ running = Srv
    /\ fresh = {} /\ apart = {}

Becomes(l) == enabled' = l.enabled /\ connected' = l.connected

With(i) == {p \in Srv \X Srv : p[1] = i \/ p[2] = i}

\* ConnectOne; ConnectAll calls it for every server.
ConnectOne(i) ==
    /\ Becomes(Connect(Current, i, All))
    /\ fresh' = fresh \ {i} /\ apart' = apart \ With(i)
    /\ UNCHANGED running

ConnectAll ==
    /\ Becomes(ConnectEach(Current))
    /\ fresh' = {} /\ apart' = {}
    /\ UNCHANGED running

DisconnectAll(i) ==
    /\ Becomes(Disconnect(Current, i, All))
    /\ UNCHANGED <<running, fresh, apart>>

\* What ShutdownServer does to the connections.  See Network for the rest of it.
ShutdownServer(i) ==
    /\ i \in running
    /\ Becomes(Disconnect(Current, i, All))
    /\ running' = running \ {i} /\ fresh' = fresh \ {i}
    /\ UNCHANGED apart

\* StartServer: makeServer gives the server a new set of ends, all disabled.
StartServer(i) ==
    /\ i \notin running
    /\ running' = running \cup {i}
    /\ fresh' = fresh \cup {i}
    /\ enabled' = [enabled EXCEPT ![i] = [j \in Srv |-> FALSE]]
    /\ UNCHANGED <<connected, apart>>

\* Mutant: Partition connects each server to all.
CutOffConnectsAll(l, p, q) ==
    LET after[n \in 0 .. Len(p)] ==
            IF n = 0 THEN l ELSE Connect(Disconnect(after[n - 1], p[n], q), p[n], All)
    IN after[Len(p)]

\* The first or the second loop of Partition.
CutOff(l, p, q) ==
    LET after[n \in 0 .. Len(p)] ==
            IF n = 0 THEN l ELSE Connect(Disconnect(after[n - 1], p[n], q), p[n], p)
    IN after[Len(p)]

Partition(p, q) ==
    /\ Becomes(CutOff(CutOff(Current, p, q), q, p))
    /\ fresh' = {}
    /\ apart' = (Range(p) \X Range(q)) \cup (Range(q) \X Range(p))
    /\ UNCHANGED running

\* MakePartition: the first servers other than l, and the rest with l as the last.
\* Elements of the two slices that are not assigned are 0.
MakePartition(l) ==
    LET half == N \div 2
        Other(n) == IF n >= N THEN 0 ELSE IF n <= l THEN n - 1 ELSE n
    IN <<[n \in 1 .. half + 1 |-> Other(n)],
         [n \in 1 .. half |-> IF n = half THEN l ELSE Other(half + 1 + n)]>>

\* The groups that MakePartition is called for.  (With one server it panics; with an even
\* number a place stays 0, and server 0 may be on both sides.)
Splittable == N > 1 /\ N % 2 = 1

\* The slices with the servers P.
Slices(P) == UNION {Bijection(1 .. n, P) : n \in 0 .. N}

Next ==
    \/ \E i \in Srv : ConnectOne(i) \/ DisconnectAll(i) \/ ShutdownServer(i) \/ StartServer(i)
    \/ ConnectAll
    \/ Splittable /\ \E l \in Srv : Partition(MakePartition(l)[1], MakePartition(l)[2])
    \/ \E P \in SUBSET Srv : \E p \in Slices(P), q \in Slices(Srv \ P) : Partition(p, q)

Spec == Init /\ [][Next]_vars

-----------------------------------------------------------------------------

\* Servers that are connected and that no partition separates can call each other, both
\* ways, whatever was disconnected, shut down or cut before: a server started anew once
\* it has been connected itself (group.go:75, 149-166).
ConnectedCanTalk ==
    \A i, j \in Srv :
        connected[i] /\ connected[j] /\ i \notin fresh /\ <<i, j>> \notin apart => enabled[i][j]

\* Servers on different sides of a partition cannot call each other until one of them is
\* connected to all again (group.go:268, 288-298).
PartitionHolds == \A p \in apart : ~enabled[p[1]][p[2]]

\* A server that is off the net sends nothing, even when others join it meanwhile
\* (group.go:75, 168-176).
DisconnectedIsSilent == \A i, j \in Srv : ~connected[i] => ~enabled[i][j]

=============================================================================
