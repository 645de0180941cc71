------------------------------ MODULE Network -------------------------------
(***************************************************************************)
(* The simulated network of labrpc/labrpc.go under the tester of tester1:  *)
(* clients call servers by name, the tester shuts servers down and starts  *)
(* new instances on the persisted state of the old, and connects and       *)
(* disconnects clients.                                                    *)
(*                                                                         *)
(* A call goes through ClientEnd.Call, a goroutine for Network.processReq  *)
(* and one for the handler; each step below is a stretch of one of them    *)
(* between two uses of a lock or a channel.  The service behind the        *)
(* handlers is not part of the repository's harness: it is one that adds   *)
(* the call to its state, saves its state in its Persister and returns, at *)
(* any time or never.                                                      *)
(***************************************************************************)
EXTENDS Naturals, FiniteSets

CONSTANTS Client, Server, Call,
          Unreliable,   \* Network.reliable is false
          MaxInst       \* bound: instances of a server

ASSUME NetworkAssumption == Unreliable \in BOOLEAN /\ MaxInst \in Nat \ {0}

Inst == 1 .. MaxInst
Pers == 1 .. 2 * MaxInst   \* a server's Persisters, numbered as they are made

VARIABLES servers,   \* rn.servers: the instance behind each name, 0 if none
          phase,     \* how far ShutdownServer or StartServer of a server is
          inst,      \* the number of the instance last started
          saved,     \* Server.saved, the Persister the tester keeps
          store,     \* the content of each Persister
          pers,      \* the Persister each instance was given
          mem,       \* the state of each instance
          ends,      \* Clnt.ends, and which of them are enabled
          enabled,
          srvs,      \* Clnt.srvs, the servers a client may connect to
          done,      \* rn.done is closed
          loop,      \* the goroutine that receives requests runs
          pc, from, to, at, handler   \* a call, see below

testerVars == <<phase, inst, saved, pers>>
clntVars == <<ends, enabled, srvs>>
callVars == <<pc, from, to, at, handler>>
vars == <<servers, testerVars, store, mem, clntVars, done, loop, callVars>>

(***************************************************************************)
(* pc[c]: "idle"; "sent", the request is on its way; "read", processReq    *)
(* has read what it needs of the end; "running", it waits for the handler; *)
(* "handled", the handler returned; "passed", the server was alive after   *)
(* that; "true" or "false", Call returned.  at[c] is the instance that     *)
(* processReq found, 0 if none.                                            *)
(***************************************************************************)
PC == {"idle", "sent", "read", "running", "handled", "passed", "true", "false"}

\* MakeNetwork: no end yet, and the goroutine that receives requests runs.
MakeNetwork ==
    /\ ends = [k \in Client |-> {}] /\ enabled = [k \in Client |-> {}]
    /\ done = FALSE /\ loop = TRUE

\* MakeConfig has started the servers, MakeClientTo made the clients.
Init ==
    /\ MakeNetwork
    /\ servers = [s \in Server |-> 1] /\ inst = [s \in Server |-> 1]
    /\ phase = [s \in Server |-> "up"]
    /\ saved = [s \in Server |-> 1]
    /\ store = [s \in Server |-> [p \in Pers |-> {}]]
    /\ pers = [s \in Server |-> [i \in Inst |-> 1]]
    /\ mem = [s \in Server |-> [i \in Inst |-> {}]]
    /\ srvs \in [Client -> SUBSET Server]
    /\ pc = [c \in Call |-> "idle"]
    /\ from \in [Call -> Client] /\ to \in [Call -> Server]
    /\ at = [c \in Call |-> 0] /\ handler = [c \in Call |-> "none"]

Goto(c, l) == pc' = [pc EXCEPT ![c] = l]
Only(c, l) == /\ Goto(c, l)
              /\ UNCHANGED <<servers, testerVars, store, mem, clntVars, done, loop,
                             from, to, at, handler>>

-----------------------------------------------------------------------------

\* Network.MakeEnd: the new end is disabled.
NewEnd(k, s) == ends' = [ends EXCEPT ![k] = @ \cup {s}]

\* Mutant: a new end is enabled whatever the client may connect to.
MakeEndEnabled(k, s) ==
    IF s \in ends[k] THEN UNCHANGED clntVars
    ELSE /\ NewEnd(k, s)
         /\ enabled' = [enabled EXCEPT ![k] = @ \cup {s}]
         /\ UNCHANGED srvs

\* Clnt.makeEnd: the end is made at the first call to the server.
MakeEnd(k, s) ==
    IF s \in ends[k] THEN UNCHANGED clntVars
    ELSE /\ NewEnd(k, s)
         /\ enabled' = [enabled EXCEPT ![k] = @ \cup ({s} \cap srvs[k])]
         /\ UNCHANGED srvs

\* Clnt.Call up to the select of ClientEnd.Call, which takes either ready branch.
Start(c) ==
    /\ pc[c] = "idle"
    /\ MakeEnd(from[c], to[c])
    /\ \/ loop /\ Goto(c, "sent")
       \/ done /\ Goto(c, "false")
    /\ UNCHANGED <<servers, testerVars, store, mem, done, loop, from, to, at, handler>>

\* processReq: readEndnameInfo.
Read(c) ==
    /\ pc[c] = "sent"
    /\ at' = [at EXCEPT ![c] = IF to[c] \in enabled[from[c]] THEN servers[to[c]] ELSE 0]
    /\ Goto(c, "read")
    /\ UNCHANGED <<servers, testerVars, store, mem, clntVars, done, loop, from, to, handler>>

\* processReq: no server at the end, or the end is disabled.
NoServer(c) == pc[c] = "read" /\ at[c] = 0 /\ Only(c, "false")

DropRequest(c) == pc[c] = "read" /\ at[c] # 0 /\ Unreliable /\ Only(c, "false")

\* processReq starts the handler's goroutine.
Dispatch(c) ==
    /\ pc[c] = "read" /\ at[c] # 0
    /\ Goto(c, "running")
    /\ handler' = [handler EXCEPT ![c] = "busy"]
    /\ UNCHANGED <<servers, testerVars, store, mem, clntVars, done, loop, from, to, at>>

\* Service.dispatch calls the method, which makes a new state of the instance's.
Called(s, i, c) == mem[s][i] \cup {c}

\* Persister.Save
Save(s, p, state) == store' = [store EXCEPT ![s][p] = state]

\* The handler updates the instance's state, saves it and returns: Server.dispatch.
Handle(c) ==
    LET s == to[c]
        i == at[c]
    IN
    /\ handler[c] = "busy"
    /\ handler' = [handler EXCEPT ![c] = "done"]
    /\ mem' = [mem EXCEPT ![s][i] = Called(s, i, c)]
    /\ Save(s, pers[s][i], Called(s, i, c))
    /\ UNCHANGED <<servers, testerVars, clntVars, done, loop, pc, from, to, at>>

\* Mutant: isServerDead looks at the end only.
IsServerDeadEndOnly(c) == to[c] \notin enabled[from[c]]

\* isServerDead
IsServerDead(c) == to[c] \notin enabled[from[c]] \/ servers[to[c]] # at[c]

\* Mutant: the wait for the handler ends with the first poll.
ReceiveEarly(c) == pc[c] = "running" /\ Only(c, "handled")

\* processReq receives the handler's reply.
Receive(c) == pc[c] = "running" /\ handler[c] = "done" /\ Only(c, "handled")

\* processReq stops waiting, and Call returns false; the handler goes on.
GiveUp(c) == pc[c] = "running" /\ IsServerDead(c) /\ Only(c, "false")

\* processReq looks again at the server before it replies.
Check(c) ==
    \/ pc[c] = "handled" /\ IsServerDead(c) /\ Only(c, "false")
    \/ pc[c] = "handled" /\ ~IsServerDead(c) /\ Only(c, "passed")

DropReply(c) == pc[c] = "passed" /\ Unreliable /\ Only(c, "false")

\* The reply arrives, after a long delay if longReordering says so.
Reply(c) == pc[c] = "passed" /\ Only(c, "true")

-----------------------------------------------------------------------------

\* Mutant: Copy returns the Persister itself.
CopyAlias(s) == UNCHANGED <<saved, store>>

\* Server.saved becomes a copy of itself: Persister.Copy.
Copy(s) ==
    /\ saved' = [saved EXCEPT ![s] = @ + 1]
    /\ store' = [store EXCEPT ![s][saved[s] + 1] = store[s][saved[s]]]

\* Network.AddServer and Network.DeleteServer.
Serve(s, i) == servers' = [servers EXCEPT ![s] = i]

\* ShutdownServer, up to DeleteServer.
DeleteServer(s) ==
    /\ phase[s] = "up" /\ inst[s] < MaxInst
    /\ phase' = [phase EXCEPT ![s] = "deleted"]
    /\ Serve(s, 0)
    /\ UNCHANGED <<inst, saved, pers, store, mem, clntVars, done, loop, callVars>>

\* ShutdownServer, its last call: shutdownServer.
ShutdownServer(s) ==
    /\ phase[s] = "deleted"
    /\ phase' = [phase EXCEPT ![s] = "down"]
    /\ Copy(s)
    /\ UNCHANGED <<servers, inst, pers, mem, clntVars, done, loop, callVars>>

\* StartServer: startServer, and mks with the new Persister.
StartServer(s) ==
    LET i == inst[s] + 1 IN
    /\ phase[s] = "down"
    /\ phase' = [phase EXCEPT ![s] = "starting"]
    /\ Copy(s)
    /\ inst' = [inst EXCEPT ![s] = i]
    /\ pers' = [pers EXCEPT ![s][i] = saved'[s]]
    /\ mem' = [mem EXCEPT ![s][i] = store'[s][saved'[s]]]
    /\ UNCHANGED <<servers, clntVars, done, loop, callVars>>

\* StartServer: AddServer.
AddServer(s) ==
    /\ phase[s] = "starting"
    /\ phase' = [phase EXCEPT ![s] = "up"]
    /\ Serve(s, inst[s])
    /\ UNCHANGED <<inst, saved, pers, store, mem, clntVars, done, loop, callVars>>

\* Clnt.ConnectAll
ConnectAll(k) ==
    /\ enabled' = [enabled EXCEPT ![k] = ends[k]]
    /\ srvs' = [srvs EXCEPT ![k] = Server]
    /\ UNCHANGED <<servers, testerVars, store, mem, ends, done, loop, callVars>>

\* Clnt.DisconnectAll
DisconnectAll(k) ==
    /\ enabled' = [enabled EXCEPT ![k] = {}]
    /\ srvs' = [srvs EXCEPT ![k] = {}]
    /\ UNCHANGED <<servers, testerVars, store, mem, ends, done, loop, callVars>>

\* Network.Cleanup
Cleanup ==
    /\ ~done
    /\ done' = TRUE
    /\ UNCHANGED <<servers, testerVars, store, mem, clntVars, loop, callVars>>

\* The receiving goroutine sees that done is closed.
LoopReturns ==
    /\ done /\ loop
    /\ loop' = FALSE
    /\ UNCHANGED <<servers, testerVars, store, mem, clntVars, done, callVars>>

-----------------------------------------------------------------------------

ProcessReq(c) ==
    \/ Read(c) \/ NoServer(c) \/ DropRequest(c) \/ Dispatch(c)
    \/ Receive(c) \/ GiveUp(c) \/ Check(c) \/ DropReply(c) \/ Reply(c)

Tester ==
    \/ \E s \in Server : DeleteServer(s) \/ ShutdownServer(s) \/ StartServer(s) \/ AddServer(s)
    \/ \E k \in Client : ConnectAll(k) \/ DisconnectAll(k)
    \/ Cleanup

Next ==
    \/ \E c \in Call : Start(c) \/ ProcessReq(c) \/ Handle(c)
    \/ LoopReturns
    \/ Tester

Spec == Init /\ [][Next]_vars

\* The goroutines of the network run.  Handlers and the tester promise nothing.
FairSpec == Spec /\ \A c \in Call : WF_vars(ProcessReq(c))

-----------------------------------------------------------------------------

\* Types; which instance and which handler belong to each stage of a call.
TypeOK ==
    /\ servers \in [Server -> Inst \cup {0}] /\ inst \in [Server -> Inst]
    /\ phase \in [Server -> {"up", "deleted", "down", "starting"}]
    /\ saved \in [Server -> Pers]
    /\ store \in [Server -> [Pers -> SUBSET Call]]
    /\ pers \in [Server -> [Inst -> Pers]]
    /\ mem \in [Server -> [Inst -> SUBSET Call]]
    /\ ends \in [Client -> SUBSET Server]
    /\ enabled \in [Client -> SUBSET Server] /\ srvs \in [Client -> SUBSET Server]
    /\ done \in BOOLEAN /\ loop \in BOOLEAN
    /\ pc \in [Call -> PC]
    /\ from \in [Call -> Client] /\ to \in [Call -> Server]
    /\ at \in [Call -> Inst \cup {0}]
    /\ handler \in [Call -> {"none", "busy", "done"}]
    /\ \A c \in Call : /\ handler[c] # "none" => at[c] # 0
                       /\ pc[c] \in {"handled", "passed", "true"} => handler[c] = "done"
                       /\ pc[c] \in {"idle", "sent", "read"} => handler[c] = "none"

\* A client never gets a positive reply to an update that the server persisted into a
\* superseded Persister (labrpc.go:277-282, group.go:245-250): what was acknowledged is
\* in the state the next instance will be given.
AckedIsPersisted ==
    \A c \in Call : pc[c] = "true" => c \in store[to[c]][saved[to[c]]]

\* An old instance, which may go on updating its Persister, does not overwrite the state
\* of the new one (srv.go:36-40, 75-78).
OldInstanceHarmless ==
    \A s \in Server : phase[s] \in {"up", "starting"} => store[s][saved[s]] = mem[s][inst[s]]

\* A disconnected client stays disconnected: the ends it makes later follow Clnt.srvs too
\* (clnts.go:24-26).
EndsFollowSrvs == \A k \in Client : enabled[k] = ends[k] \cap srvs[k]

\* A handler that never returns does not hold up its caller once the server has been
\* deleted (labrpc.go:257-259).
CallToDeletedReturns ==
    \A c \in Call : (pc[c] = "running" /\ at[c] # servers[to[c]]) ~> (pc[c] \in {"true", "false"})

=============================================================================
