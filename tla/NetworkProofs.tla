--------------------------- MODULE NetworkProofs ----------------------------
(***************************************************************************)
(* Proofs about Network, for any clients, servers, calls and number of     *)
(* restarts: what was acknowledged survives, and old instances do no harm. *)
(***************************************************************************)
EXTENDS Network, TLAPS

\* Zenon proves the steps that name no other prover.
USE ZenonT(30)

(***************************************************************************)
(* The instance behind a name is the last one, and only while the server   *)
(* is up.  Each restart makes two Persisters: one that no instance has,    *)
(* while the server is down, and the one of the new instance.              *)
(***************************************************************************)
NumberedAt(s) ==
    /\ servers[s] = IF phase[s] = "up" THEN inst[s] ELSE 0
    /\ saved[s] = IF phase[s] = "down" THEN 2 * inst[s] ELSE 2 * inst[s] - 1
    /\ phase[s] \in {"deleted", "down"} => inst[s] < MaxInst
    /\ \A i \in 1 .. inst[s] : pers[s][i] = 2 * i - 1

Numbered == \A s \in Server : NumberedAt(s)

\* A call is at an instance that has been started.
Placed == \A c \in Call : at[c] <= inst[to[c]]

\* OldInstanceHarmless, also for a server that has just been deleted.
InStep == \A s \in Server : phase[s] # "down" => store[s][saved[s]] = mem[s][inst[s]]

\* The instance that handled a call has it in its state, and a call that will be
\* acknowledged is in the state that survives.
Handled ==
    \A c \in Call :
        /\ handler[c] = "done" => c \in mem[to[c]][at[c]]
        /\ pc[c] \in {"passed", "true"} => c \in store[to[c]][saved[to[c]]]

Inv == TypeOK /\ Numbered /\ Placed /\ InStep /\ Handled

-----------------------------------------------------------------------------

\* What MakeNetwork and the group start with satisfies the invariant (labrpc.go:146-171).
LEMMA InvInit == Init => Inv
  <1> SUFFICES ASSUME Init PROVE Inv
    OBVIOUS
  <1>1. 1 \in Inst /\ 1 \in Pers
    BY NetworkAssumption, SMTT(60) DEF Inst, Pers
  <1>2. TypeOK
    BY <1>1 DEF Init, MakeNetwork, TypeOK, PC
  <1>3. Numbered
    BY NetworkAssumption, SMTT(60) DEF Init, Numbered, NumberedAt, Inst
  <1>4. Placed /\ InStep /\ Handled
    BY <1>1, SMTT(60) DEF Init, Placed, InStep, Handled
  <1>5. QED
    BY <1>2, <1>3, <1>4 DEF Inv

(***************************************************************************)
(* The steps of a call other than Handle leave the servers alone.          *)
(***************************************************************************)
CallStep(c) == Start(c) \/ ProcessReq(c)

\* A step of a call keeps the invariant (labrpc.go:231-322).
LEMMA CallStepInv ==
    ASSUME Inv, NEW c \in Call, CallStep(c)
    PROVE  Inv'
  <1>0. TypeOK /\ Numbered /\ Placed /\ InStep /\ Handled
    BY DEF Inv
  <1>1. UNCHANGED <<servers, testerVars, store, mem, done, loop, from, to>>
    BY DEF CallStep, Start, ProcessReq, Read, NoServer, DropRequest, Dispatch, Receive, GiveUp,
           Check, DropReply, Reply, Only
  <1>2. /\ ends' \in [Client -> SUBSET Server]
        /\ enabled' \in [Client -> SUBSET Server] /\ srvs' \in [Client -> SUBSET Server]
    <2>1. CASE Start(c)
      <3>1. /\ from[c] \in Client /\ to[c] \in Server /\ ends \in [Client -> SUBSET Server]
            /\ enabled \in [Client -> SUBSET Server] /\ srvs \in [Client -> SUBSET Server]
        BY <1>0 DEF TypeOK
      <3>2. MakeEnd(from[c], to[c])
        BY <2>1 DEF Start
      <3>3. QED
        BY <3>1, <3>2, SMTT(60) DEF MakeEnd, NewEnd, clntVars
    <2>2. CASE ProcessReq(c)
      BY <1>0, <2>2 DEF ProcessReq, Read, NoServer, DropRequest, Dispatch, Receive, GiveUp,
                        Check, DropReply, Reply, Only, clntVars, TypeOK
    <2>3. QED
      BY <2>1, <2>2 DEF CallStep
  <1>3. /\ at' \in [Call -> Inst \cup {0}] /\ at'[c] <= inst[to[c]]
        /\ \A d \in Call : d # c => at'[d] = at[d]
        /\ pc[c] # "sent" => at' = at
    <2>1. CASE Read(c)
      <3>1. servers[to[c]] \in Inst \cup {0} /\ servers[to[c]] <= inst[to[c]] /\ 0 <= inst[to[c]]
        BY <1>0, NetworkAssumption, SMTT(60) DEF TypeOK, Numbered, NumberedAt, Inst
      <3>2. QED
        BY <1>0, <2>1, <3>1 DEF Read, TypeOK
    <2>2. CASE ~Read(c)
      <3>1. UNCHANGED at
        BY <2>2 DEF CallStep, Start, ProcessReq, Read, NoServer, DropRequest, Dispatch, Receive,
                    GiveUp, Check, DropReply, Reply, Only
      <3>2. QED
        BY <1>0, <3>1 DEF TypeOK, Placed
    <2>3. QED
      BY <2>1, <2>2
  <1>4. /\ handler' \in [Call -> {"none", "busy", "done"}]
        /\ \A d \in Call : d # c => handler'[d] = handler[d]
        /\ handler'[c] = "done" => handler[c] = "done" /\ at' = at
    BY <1>0, <1>3 DEF CallStep, Start, ProcessReq, Read, NoServer, DropRequest, Dispatch, Receive,
                GiveUp, Check, DropReply, Reply, Only, TypeOK
  <1>5. pc' \in [Call -> PC] /\ \A d \in Call : d # c => pc'[d] = pc[d]
    BY <1>0 DEF CallStep, Start, ProcessReq, Read, NoServer, DropRequest, Dispatch, Receive,
                GiveUp, Check, DropReply, Reply, Only, Goto, TypeOK, PC
  <1>6. /\ handler'[c] # "none" => at'[c] # 0
        /\ pc'[c] \in {"handled", "passed", "true"} => handler'[c] = "done"
        /\ pc'[c] \in {"idle", "sent", "read"} => handler'[c] = "none"
    BY <1>0, SMTT(60) DEF CallStep, Start, ProcessReq, Read, NoServer, DropRequest, Dispatch, Receive,
                GiveUp, Check, DropReply, Reply, Only, Goto, TypeOK
  <1>7. pc'[c] \in {"passed", "true"} => c \in store[to[c]][saved[to[c]]]
    <2>1. CASE pc[c] = "passed"
      BY <1>0, <2>1 DEF Handled
    <2>2. CASE pc[c] # "passed" /\ pc'[c] \in {"passed", "true"}
      <3>1. pc[c] = "handled" /\ ~IsServerDead(c)
        BY <1>0, <2>2 DEF CallStep, Start, ProcessReq, Read, NoServer, DropRequest, Dispatch,
                          Receive, GiveUp, Check, DropReply, Reply, Only, Goto, TypeOK
      <3>2. handler[c] = "done" /\ servers[to[c]] = at[c] /\ at[c] # 0
        BY <1>0, <3>1 DEF TypeOK, IsServerDead
      <3>3. to[c] \in Server /\ phase[to[c]] = "up" /\ at[c] = inst[to[c]]
        BY <1>0, <3>2 DEF TypeOK, Numbered, NumberedAt
      <3>4. QED
        BY <1>0, <3>2, <3>3 DEF Handled, InStep
    <2>3. QED
      BY <2>1, <2>2
  <1>8. TypeOK'
    BY <1>0, <1>1, <1>2, <1>3, <1>4, <1>5, <1>6 DEF TypeOK, testerVars
  <1>9. Numbered' /\ Placed' /\ InStep'
    BY <1>0, <1>1, <1>3 DEF Numbered, NumberedAt, Placed, InStep, testerVars
  <1>10. Handled'
    BY <1>0, <1>1, <1>3, <1>4, <1>5, <1>7, SMTT(60) DEF Handled, testerVars
  <1>11. QED
    BY <1>8, <1>9, <1>10 DEF Inv

\* A handler that returns adds its call to the state of its instance; if that is the last
\* one, to the state that survives.
LEMMA HandleInv ==
    ASSUME Inv, NEW c \in Call, Handle(c)
    PROVE  Inv'
  <1>0. TypeOK /\ Numbered /\ Placed /\ InStep /\ Handled
    BY DEF Inv
  <1> DEFINE s == to[c]
             i == at[c]
  <1>1. /\ handler[c] = "busy" /\ handler' = [handler EXCEPT ![c] = "done"]
        /\ mem' = [mem EXCEPT ![s][i] = mem[s][i] \cup {c}]
        /\ store' = [store EXCEPT ![s][pers[s][i]] = mem[s][i] \cup {c}]
        /\ UNCHANGED <<servers, testerVars, clntVars, done, loop, pc, from, to, at>>
    BY DEF Handle, Called, Save
  <1>2. /\ s \in Server /\ i \in 1 .. inst[s] /\ i \in Inst
        /\ pers[s][i] = 2 * i - 1 /\ pers[s][i] \in Pers
    <2>1. s \in Server /\ i \in Inst /\ i <= inst[s] /\ inst[s] \in Inst
      BY <1>0, <1>1 DEF TypeOK, Placed
    <2>2. i \in 1 .. inst[s] /\ pers[s][i] \in Pers
      <3>1. i \in 1 .. inst[s]
        BY <2>1, SMTT(60) DEF Inst
      <3>2. QED
        BY <1>0, <2>1, <3>1, SMTT(60) DEF TypeOK
    <2>3. QED
      BY <1>0, <2>1, <2>2 DEF Numbered, NumberedAt
  <1>3. TypeOK'
    <2>1. /\ mem' \in [Server -> [Inst -> SUBSET Call]]
          /\ store' \in [Server -> [Pers -> SUBSET Call]]
          /\ handler' \in [Call -> {"none", "busy", "done"}]
      BY <1>0, <1>1, <1>2, SMTT(60) DEF TypeOK
    <2>2. pc[c] \notin {"idle", "sent", "read"}
      BY <1>0, <1>1 DEF TypeOK
    <2>3. QED
      BY <1>0, <1>1, <2>1, <2>2 DEF TypeOK, testerVars, clntVars
  <1>4. Numbered' /\ Placed'
    BY <1>0, <1>1 DEF Numbered, NumberedAt, Placed, testerVars
  <1>5. /\ \A r \in Server, j \in Inst :
              mem'[r][j] = IF r = s /\ j = i THEN mem[s][i] \cup {c} ELSE mem[r][j]
        /\ \A r \in Server, p \in Pers :
              store'[r][p] = IF r = s /\ p = pers[s][i] THEN mem[s][i] \cup {c} ELSE store[r][p]
    BY <1>0, <1>1, <1>2 DEF TypeOK
  <1>6. \A r \in Server : /\ inst[r] \in Inst /\ saved[r] \in Pers
                          /\ inst[r] \in Nat /\ i \in Nat
    BY <1>0, <1>2, SMTT(60) DEF TypeOK, Inst
  <1>7. pers[s][i] = saved[s] <=> (i = inst[s] /\ phase[s] # "down")
    <2>1. saved[s] = IF phase[s] = "down" THEN 2 * inst[s] ELSE 2 * inst[s] - 1
      BY <1>0, <1>2 DEF Numbered, NumberedAt
    <2>2. QED
      BY <1>2, <1>6, <2>1, SMTT(60)
  <1>8. InStep'
    <2>1. ASSUME NEW r \in Server, phase[r] # "down"
          PROVE  store'[r][saved[r]] = mem'[r][inst[r]]
      <3>1. store[r][saved[r]] = mem[r][inst[r]] /\ inst[r] \in Inst /\ saved[r] \in Pers
        BY <1>0, <1>6, <2>1 DEF InStep
      <3>2. CASE r = s /\ i = inst[s]
        BY <1>5, <1>7, <2>1, <3>1, <3>2
      <3>3. CASE r = s /\ i # inst[s]
        BY <1>5, <1>7, <2>1, <3>1, <3>3
      <3>4. CASE r # s
        BY <1>5, <3>1, <3>4
      <3>5. QED
        BY <3>2, <3>3, <3>4
    <2>2. QED
      BY <1>1, <2>1 DEF InStep, testerVars
  <1>9. Handled'
    <2>1. ASSUME NEW d \in Call
          PROVE  /\ handler'[d] = "done" => d \in mem'[to[d]][at[d]]
                 /\ pc[d] \in {"passed", "true"} => d \in store'[to[d]][saved[to[d]]]
      <3>1. to[d] \in Server /\ at[d] \in Inst \cup {0} /\ (handler[d] # "none" => at[d] # 0)
        BY <1>0 DEF TypeOK
      <3>2. handler'[d] = IF d = c THEN "done" ELSE handler[d]
        BY <1>0, <1>1 DEF TypeOK
      <3>3. handler'[d] = "done" => d \in mem'[to[d]][at[d]]
        BY <1>0, <1>2, <1>5, <3>1, <3>2, SMTT(60) DEF Handled
      <3>4. to[d] = s /\ pers[s][i] = saved[s] => mem[s][i] = store[s][saved[s]]
        BY <1>0, <1>2, <1>7 DEF InStep
      <3>5. pc[d] \in {"passed", "true"} => d \in store'[to[d]][saved[to[d]]]
        BY <1>0, <1>5, <1>6, <3>1, <3>4, SMTT(60) DEF Handled
      <3>6. QED
        BY <3>3, <3>5
    <2>2. QED
      BY <1>1, <2>1 DEF Handled, testerVars
  <1>10. QED
    BY <1>3, <1>4, <1>8, <1>9 DEF Inv

\* Persister.Copy: the new Persister has the content of the old, and no instance has it.
LEMMA CopyKeeps ==
    ASSUME TypeOK, Numbered, NEW s \in Server, phase[s] \in {"deleted", "down"}, Copy(s)
    PROVE  /\ saved' \in [Server -> Pers] /\ store' \in [Server -> [Pers -> SUBSET Call]]
           /\ saved'[s] = saved[s] + 1 /\ \A r \in Server : r # s => saved'[r] = saved[r]
           /\ \A r \in Server : store'[r][saved'[r]] = store[r][saved[r]]
  <1>1. /\ saved' = [saved EXCEPT ![s] = saved[s] + 1]
        /\ store' = [store EXCEPT ![s][saved[s] + 1] = store[s][saved[s]]]
    BY DEF Copy
  <1>2. saved[s] + 1 \in Pers /\ saved[s] \in Pers
    <2>1. inst[s] \in Inst /\ inst[s] < MaxInst /\ saved[s] \in Pers
          /\ saved[s] = IF phase[s] = "down" THEN 2 * inst[s] ELSE 2 * inst[s] - 1
      BY DEF TypeOK, Numbered, NumberedAt
    <2>2. QED
      BY <2>1, NetworkAssumption, SMTT(60) DEF Inst, Pers
  <1>3. saved \in [Server -> Pers] /\ store \in [Server -> [Pers -> SUBSET Call]]
    BY DEF TypeOK
  <1>4. QED
    BY <1>1, <1>2, <1>3

\* The tester's steps.
LEMMA DeleteServerInv ==
    ASSUME Inv, NEW s \in Server, DeleteServer(s)
    PROVE  Inv'
  <1>0. TypeOK /\ Numbered /\ Placed /\ InStep /\ Handled
    BY DEF Inv
  <1>1. /\ phase[s] = "up" /\ inst[s] < MaxInst
        /\ phase' = [phase EXCEPT ![s] = "deleted"] /\ servers' = [servers EXCEPT ![s] = 0]
        /\ UNCHANGED <<inst, saved, pers, store, mem, clntVars, done, loop, callVars>>
    BY DEF DeleteServer, Serve
  <1>2. TypeOK'
    BY <1>0, <1>1 DEF TypeOK, clntVars, callVars
  <1>3. Numbered'
    BY <1>0, <1>1 DEF TypeOK, Numbered, NumberedAt
  <1>4. Placed' /\ Handled'
    BY <1>0, <1>1 DEF Placed, Handled, callVars
  <1>5. InStep'
    BY <1>0, <1>1 DEF TypeOK, InStep
  <1>6. QED
    BY <1>2, <1>3, <1>4, <1>5 DEF Inv

\* ShutdownServer keeps the invariant (group.go:242-254, srv.go:71-87).
LEMMA ShutdownServerInv ==
    ASSUME Inv, NEW s \in Server, ShutdownServer(s)
    PROVE  Inv'
  <1>0. TypeOK /\ Numbered /\ Placed /\ InStep /\ Handled
    BY DEF Inv
  <1>1. /\ phase[s] = "deleted" /\ phase' = [phase EXCEPT ![s] = "down"] /\ Copy(s)
        /\ UNCHANGED <<servers, inst, pers, mem, clntVars, done, loop, callVars>>
    BY DEF ShutdownServer
  <1>2. /\ saved' \in [Server -> Pers] /\ store' \in [Server -> [Pers -> SUBSET Call]]
        /\ saved'[s] = saved[s] + 1 /\ \A r \in Server : r # s => saved'[r] = saved[r]
        /\ \A r \in Server : store'[r][saved'[r]] = store[r][saved[r]]
    BY <1>0, <1>1, CopyKeeps
  <1>3. TypeOK'
    BY <1>0, <1>1, <1>2 DEF TypeOK, clntVars, callVars
  <1>4. \A r \in Server : inst[r] \in Nat /\ phase'[r] = IF r = s THEN "down" ELSE phase[r]
    BY <1>0, <1>1, SMTT(60) DEF TypeOK, Inst
  <1>5. Numbered'
    <2>1. SUFFICES ASSUME NEW r \in Server PROVE NumberedAt(r)'
      BY DEF Numbered
    <2>2. NumberedAt(r) /\ NumberedAt(s) /\ servers' = servers /\ inst' = inst /\ pers' = pers
      BY <1>0, <1>1 DEF Numbered, NumberedAt
    <2>3. saved'[r] = IF r = s THEN saved[s] + 1 ELSE saved[r]
      BY <1>2
    <2>4. QED
      BY <1>1, <1>4, <2>2, <2>3, SMTT(60) DEF NumberedAt
  <1>6. Placed' /\ Handled'
    BY <1>0, <1>1, <1>2 DEF TypeOK, Placed, Handled, callVars
  <1>7. InStep'
    BY <1>0, <1>1, <1>2, <1>4, SMTT(60) DEF InStep
  <1>8. QED
    BY <1>3, <1>5, <1>6, <1>7 DEF Inv

\* StartServer keeps the invariant up to AddServer (group.go:222-233).
LEMMA StartServerInv ==
    ASSUME Inv, NEW s \in Server, StartServer(s)
    PROVE  Inv'
  <1>0. TypeOK /\ Numbered /\ Placed /\ InStep /\ Handled
    BY DEF Inv
  <1> DEFINE i == inst[s] + 1
  <1>1. /\ phase[s] = "down" /\ phase' = [phase EXCEPT ![s] = "starting"] /\ Copy(s)
        /\ inst' = [inst EXCEPT ![s] = i]
        /\ pers' = [pers EXCEPT ![s][i] = saved'[s]]
        /\ mem' = [mem EXCEPT ![s][i] = store'[s][saved'[s]]]
        /\ UNCHANGED <<servers, clntVars, done, loop, callVars>>
    BY DEF StartServer
  <1>2. /\ saved' \in [Server -> Pers] /\ store' \in [Server -> [Pers -> SUBSET Call]]
        /\ saved'[s] = saved[s] + 1 /\ \A r \in Server : r # s => saved'[r] = saved[r]
        /\ \A r \in Server : store'[r][saved'[r]] = store[r][saved[r]]
    BY <1>0, <1>1, CopyKeeps
  <1>3. /\ i \in Inst /\ inst[s] \in Nat /\ saved[s] = 2 * inst[s]
        /\ \A r \in Server : inst[r] \in Inst
    <2>1. inst[s] \in Inst /\ inst[s] < MaxInst /\ saved[s] = 2 * inst[s]
      BY <1>0, <1>1 DEF TypeOK, Numbered, NumberedAt
    <2>2. QED
      BY <1>0, <2>1, NetworkAssumption, SMTT(60) DEF TypeOK, Inst
  <1>4. /\ \A r \in Server : /\ inst'[r] = IF r = s THEN i ELSE inst[r]
                             /\ phase'[r] = IF r = s THEN "starting" ELSE phase[r]
        /\ \A r \in Server, j \in Inst :
              /\ pers'[r][j] = IF r = s /\ j = i THEN saved'[s] ELSE pers[r][j]
              /\ mem'[r][j] = IF r = s /\ j = i THEN store'[s][saved'[s]] ELSE mem[r][j]
    BY <1>0, <1>1, <1>3 DEF TypeOK
  <1>5. TypeOK'
    <2>1. /\ inst' \in [Server -> Inst]
          /\ phase' \in [Server -> {"up", "deleted", "down", "starting"}]
      BY <1>0, <1>1, <1>3 DEF TypeOK
    <2>2. saved'[s] \in Pers /\ store'[s][saved'[s]] \in SUBSET Call
      BY <1>2
    <2>3. /\ pers' \in [Server -> [Inst -> Pers]]
          /\ mem' \in [Server -> [Inst -> SUBSET Call]]
      BY <1>0, <1>1, <1>3, <2>2 DEF TypeOK
    <2>4. QED
      BY <1>0, <1>1, <1>2, <2>1, <2>3 DEF TypeOK, clntVars, callVars
  <1>6. Numbered'
    <2>1. ASSUME NEW r \in Server, NEW j \in 1 .. inst'[r]
          PROVE  pers'[r][j] = 2 * j - 1
      <3>1. j \in Inst
        <4>1. inst'[r] \in Inst
          BY <1>3, <1>4
        <4>2. QED
          BY <4>1, NetworkAssumption, SMTT(60) DEF Inst
      <3>2. CASE r = s /\ j = i
        BY <1>2, <1>3, <1>4, <3>1, <3>2, SMTT(60)
      <3>3. CASE ~(r = s /\ j = i)
        <4>1. j \in 1 .. inst[r]
          BY <1>3, <1>4, <3>3, SMTT(60) DEF Inst
        <4>2. QED
          BY <1>0, <1>4, <3>1, <3>3, <4>1, SMTT(60) DEF Numbered, NumberedAt
      <3>4. QED
        BY <3>2, <3>3
    <2>2. QED
      BY <1>0, <1>1, <1>2, <1>3, <1>4, <2>1, SMTT(60) DEF Numbered, NumberedAt
  <1>7. Placed'
    <2>1. ASSUME NEW c \in Call PROVE at[c] <= inst'[to[c]]
      <3>1. to[c] \in Server /\ at[c] \in Nat /\ inst[to[c]] \in Nat
        BY <1>0, SMTT(60) DEF TypeOK, Inst
      <3>2. at[c] <= inst[to[c]]
        BY <1>0 DEF Placed
      <3>3. inst'[to[c]] = IF to[c] = s THEN inst[s] + 1 ELSE inst[to[c]]
        BY <1>4, <3>1
      <3>4. QED
        BY <1>3, <3>1, <3>2, <3>3, SMTT(60)
    <2>2. QED
      BY <1>1, <2>1 DEF Placed, callVars
  <1>8. InStep'
    <2>1. ASSUME NEW r \in Server, phase'[r] # "down"
          PROVE  store'[r][saved'[r]] = mem'[r][inst'[r]]
      BY <1>0, <1>2, <1>3, <1>4, <2>1, SMTT(60) DEF InStep
    <2>2. QED
      BY <2>1 DEF InStep
  <1>9. Handled'
    <2>1. ASSUME NEW c \in Call
          PROVE  /\ handler[c] = "done" => c \in mem'[to[c]][at[c]]
                 /\ pc[c] \in {"passed", "true"} => c \in store'[to[c]][saved'[to[c]]]
      <3>1. /\ to[c] \in Server /\ at[c] \in Inst \cup {0} /\ at[c] <= inst[to[c]]
            /\ handler[c] = "done" => at[c] # 0
        BY <1>0 DEF TypeOK, Placed
      <3>2. ~(to[c] = s /\ at[c] = i)
        BY <1>3, <3>1, SMTT(60)
      <3>3. QED
        BY <1>0, <1>2, <1>4, <3>1, <3>2, SMTT(60) DEF Handled
    <2>2. QED
      BY <1>1, <2>1 DEF Handled, callVars
  <1>10. QED
    BY <1>5, <1>6, <1>7, <1>8, <1>9 DEF Inv

\* The new instance gets its name (labrpc.go:357-362).
LEMMA AddServerInv ==
    ASSUME Inv, NEW s \in Server, AddServer(s)
    PROVE  Inv'
  <1>0. TypeOK /\ Numbered /\ Placed /\ InStep /\ Handled
    BY DEF Inv
  <1>1. /\ phase[s] = "starting"
        /\ phase' = [phase EXCEPT ![s] = "up"] /\ servers' = [servers EXCEPT ![s] = inst[s]]
        /\ UNCHANGED <<inst, saved, pers, store, mem, clntVars, done, loop, callVars>>
    BY DEF AddServer, Serve
  <1>2. TypeOK'
    BY <1>0, <1>1 DEF TypeOK, clntVars, callVars
  <1>3. Numbered'
    BY <1>0, <1>1 DEF TypeOK, Numbered, NumberedAt
  <1>4. Placed' /\ Handled'
    BY <1>0, <1>1 DEF Placed, Handled, callVars
  <1>5. InStep'
    BY <1>0, <1>1 DEF TypeOK, InStep
  <1>6. QED
    BY <1>2, <1>3, <1>4, <1>5 DEF Inv

\* Steps that touch the clients' ends and the network's own goroutine.
LEMMA OtherInv ==
    ASSUME Inv,
           \/ \E k \in Client : ConnectAll(k) \/ DisconnectAll(k)
           \/ Cleanup \/ LoopReturns \/ UNCHANGED vars
    PROVE  Inv'
  <1>0. TypeOK /\ Numbered /\ Placed /\ InStep /\ Handled
    BY DEF Inv
  <1>1. UNCHANGED <<servers, testerVars, store, mem, ends, callVars>>
    BY DEF ConnectAll, DisconnectAll, Cleanup, LoopReturns, vars, clntVars
  <1>2. /\ enabled' \in [Client -> SUBSET Server] /\ srvs' \in [Client -> SUBSET Server]
        /\ done' \in BOOLEAN /\ loop' \in BOOLEAN
    <2>0. /\ ends \in [Client -> SUBSET Server] /\ enabled \in [Client -> SUBSET Server]
          /\ srvs \in [Client -> SUBSET Server] /\ done \in BOOLEAN /\ loop \in BOOLEAN
      BY <1>0 DEF TypeOK
    <2>1. CASE \E k \in Client : ConnectAll(k) \/ DisconnectAll(k)
      BY <2>0, <2>1, SMTT(60) DEF ConnectAll, DisconnectAll
    <2>2. CASE Cleanup \/ LoopReturns
      BY <2>0, <2>2 DEF Cleanup, LoopReturns, clntVars
    <2>3. CASE UNCHANGED vars
      BY <2>0, <2>3 DEF vars, clntVars
    <2>4. QED
      BY <2>1, <2>2, <2>3
  <1>3. TypeOK'
    BY <1>0, <1>1, <1>2 DEF TypeOK, testerVars, callVars
  <1>4. Numbered' /\ Placed' /\ InStep' /\ Handled'
    BY <1>0, <1>1 DEF Numbered, NumberedAt, Placed, InStep, Handled, testerVars, callVars
  <1>5. QED
    BY <1>3, <1>4 DEF Inv

\* Every reachable state satisfies the invariant.
LEMMA InvAlways == Spec => []Inv
  <1>1. Inv /\ [Next]_vars => Inv'
    BY CallStepInv, HandleInv, DeleteServerInv, ShutdownServerInv, StartServerInv,
       AddServerInv, OtherInv DEF Next, Tester, CallStep
  <1>2. QED
    BY <1>1, InvInit, PTL DEF Spec

-----------------------------------------------------------------------------

\* Types, and which instance and handler belong to each stage of a call of processReq
\* (labrpc.go:231-322).
THEOREM TypeCorrect == Spec => []TypeOK
  <1>1. Inv => TypeOK
    BY DEF Inv
  <1>2. QED
    BY <1>1, InvAlways, PTL

\* What was acknowledged is in the state that the next instance will be given, for any number
\* of clients, calls and restarts (labrpc.go:277-282, group.go:245-250).
THEOREM AckedPersisted == Spec => []AckedIsPersisted
  <1>1. Inv => AckedIsPersisted
    BY DEF Inv, Handled, AckedIsPersisted
  <1>2. QED
    BY <1>1, InvAlways, PTL

\* An old instance, whose handlers go on, does not overwrite the state of the new one
\* (srv.go:36-40, 75-78).
THEOREM OldHarmless == Spec => []OldInstanceHarmless
  <1>1. Inv => OldInstanceHarmless
    BY DEF Inv, InStep, OldInstanceHarmless
  <1>2. QED
    BY <1>1, InvAlways, PTL

\* The ends of a client that are enabled are those to the servers it may connect to, however
\* ConnectAll, DisconnectAll and first calls alternate (clnts.go:24-26).
THEOREM EndsFollow == Spec => []EndsFollowSrvs
  <1>1. Init => EndsFollowSrvs
    BY DEF Init, MakeNetwork, EndsFollowSrvs
  <1>2. TypeOK /\ EndsFollowSrvs /\ [Next]_vars => EndsFollowSrvs'
    <2> SUFFICES ASSUME TypeOK, EndsFollowSrvs, [Next]_vars PROVE EndsFollowSrvs'
      OBVIOUS
    <2>0. /\ ends \in [Client -> SUBSET Server] /\ enabled \in [Client -> SUBSET Server]
          /\ srvs \in [Client -> SUBSET Server] /\ from \in [Call -> Client]
          /\ to \in [Call -> Server]
      BY DEF TypeOK
    <2>1. CASE \E c \in Call : Start(c)
      <3>1. PICK k \in Client : \E s \in Server : MakeEnd(k, s)
        BY <2>0, <2>1 DEF Start
      <3>2. QED
        BY <2>0, <3>1, SMTT(60) DEF MakeEnd, NewEnd, clntVars, EndsFollowSrvs
    <2>2. CASE \E k \in Client : ConnectAll(k) \/ DisconnectAll(k)
      BY <2>0, <2>2, SMTT(60) DEF ConnectAll, DisconnectAll, EndsFollowSrvs
    <2>3. CASE UNCHANGED clntVars
      BY <2>3 DEF clntVars, EndsFollowSrvs
    <2>4. QED
      BY <2>1, <2>2, <2>3 DEF Next, Tester, ProcessReq, Handle, LoopReturns, DeleteServer,
         ShutdownServer, StartServer, AddServer, Cleanup, Read, NoServer, DropRequest, Dispatch,
         Receive, GiveUp, Check, DropReply, Reply, Only, vars
  <1>3. QED
    BY <1>1, <1>2, TypeCorrect, PTL DEF Spec

=============================================================================
