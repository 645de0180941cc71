----------------------------- MODULE LockProofs -----------------------------
(***************************************************************************)
(* Proofs about Lock for every set of clients and any number of rounds.    *)
(***************************************************************************)
EXTENDS Lock, TLAPS

\* Zenon proves the steps that name no other prover.
USE ZenonT(30)

Ver == st[lockKey].version
Val == st[lockKey].value

\* The answers of the store that KVModel's actions give are replies.
LEMMA AnswerType ==
    /\ \A e \in {KV!OK, KV!ErrNoKey, KV!ErrVersion, KV!ErrMaybe} :
          KV!PutAnswer(e) \in KV!Reply /\ KV!PutAnswer(e) # KV!NoReply
                                        /\ KV!PutAnswer(e).err = e
  BY DEF KV!PutAnswer, KV!Reply, KV!NoReply, KV!OK, KV!ErrNoKey, KV!ErrVersion, KV!ErrMaybe

\* Where the client is fixes the request.
LEMMA RequestType ==
    ASSUME TypeOK, NEW c \in Client, pc[c] \notin {"free", "held"}
    PROVE  /\ Request(c) \in KV!Args
           /\ Request(c).key = lockKey
           /\ pc[c] \in {"make_get", "try_get"} => Request(c).op = "get"
           /\ pc[c] \notin {"make_get", "try_get"} =>
                /\ Request(c).op = "put"
                /\ Request(c).version = version[c]
                /\ Request(c).value = IF pc[c] = "try_put" THEN "1" ELSE "0"
  BY DEF Request, TypeOK, PC, KV!Args, KV!GetArgs, KV!PutArgs, lockKey

\* What a call may return, given what it saw.
LEMMA OutputType ==
    ASSUME TypeOK, NEW c \in Client, NEW out, KV!Respond(c, out)
    PROVE  /\ out \in KV!Reply
           /\ input[c].op = "get" => out = seen[c]
           /\ out.err = KV!OK => seen[c].err = KV!OK
  BY AnswerType DEF KV!Respond, KV!Outputs, TypeOK, KV!OK, KV!ErrMaybe

-----------------------------------------------------------------------------

\* The initial state has the types.
LEMMA TypeInit == Init => TypeOK
  <1> SUFFICES ASSUME Init PROVE TypeOK
    OBVIOUS
  <1>1. st \in [{lockKey} -> [value : {"", "0", "1"}, version : Nat]]
    BY DEF Init, KV!Init
  <1>2. \A c \in Client : phase[c] = "idle"
    BY DEF Init, KV!Init
  <1>3. /\ phase \in [Client -> {"idle", "pending"}]
        /\ input \in [Client -> KV!Args \cup {KV!NoArgs}]
        /\ seen \in [Client -> KV!Reply \cup {KV!NoReply}]
        /\ ret \in [Client -> KV!Reply \cup {KV!NoReply}]
    BY DEF Init, KV!Init
  <1>4. /\ pc \in [Client -> PC]
        /\ version \in [Client -> Nat]
        /\ rounds \in [Client -> 0 .. MaxRounds]
    BY LockAssumption, SMTT(60) DEF Init, PC
  <1>5. lost \in BOOLEAN
    BY DEF Init
  <1>6. QED
    BY <1>1, <1>2, <1>3, <1>4, <1>5 DEF TypeOK

\* A call returns and pc moves on: the types are kept.
LEMMA TypeReturn ==
    ASSUME TypeOK, NEW c \in Client, NEW out, KV!Respond(c, out),
           pc' \in [Client -> PC], version' \in [Client -> Nat], UNCHANGED rounds,
           lost' \in BOOLEAN,
           \A d \in Client : d # c => pc'[d] = pc[d] /\ version'[d] = version[d]
    PROVE  TypeOK'
  <1>1. out \in KV!Reply
    BY OutputType
  <1>2. phase'[c] = "idle" /\ \A d \in Client : d # c => phase'[d] = phase[d]
    BY DEF KV!Respond, TypeOK
  <1>3. \A d \in Client : d # c => Request(d)' = Request(d)
    BY DEF Request
  <1>4. QED
    BY <1>1, <1>2, <1>3 DEF TypeOK, KV!Respond

\* Every step keeps the types.
LEMMA TypeStep == TypeOK /\ [Next]_vars => TypeOK'
  <1> SUFFICES ASSUME TypeOK, [Next]_vars PROVE TypeOK'
    OBVIOUS
  <1>0. /\ pc \in [Client -> PC] /\ version \in [Client -> Nat]
        /\ rounds \in [Client -> 0 .. MaxRounds] /\ lost \in BOOLEAN
    BY DEF TypeOK
  <1>1. ASSUME NEW c \in Client, Call(c) PROVE TypeOK'
    <2>1. Request(c) \in KV!Args
      BY <1>1, RequestType DEF Call
    <2>2. \A d \in Client : Request(d)' = Request(d)
      BY <1>1 DEF Call, Request
    <2>3. QED
      BY <1>1, <2>1, <2>2 DEF Call, KV!Invoke, TypeOK
  <1>2. ASSUME NEW c \in Client, Effect(c) PROVE TypeOK'
    <2>1. \A d \in Client : Request(d)' = Request(d)
      BY <1>2 DEF Effect, Request
    <2>2. CASE KV!Read(c)
      <3>1. input[c].key = lockKey
        BY <2>2, RequestType DEF KV!Read, TypeOK
      <3>2. seen' \in [Client -> KV!Reply \cup {KV!NoReply}]
        BY <2>2, <3>1 DEF KV!Read, TypeOK, KV!Reply, KV!OK, KV!ErrNoKey
      <3>3. QED
        BY <1>2, <2>1, <2>2, <3>2 DEF Effect, KV!Read, TypeOK
    <2>3. CASE KV!Write(c)
      <3>1. /\ input[c].key = lockKey /\ input[c].value \in {"0", "1"}
            /\ input[c].version \in Nat
        BY <2>3, RequestType DEF KV!Write, TypeOK
      <3>2. st' \in [{lockKey} -> [value : {"", "0", "1"}, version : Nat]]
        <4>1. st \in [{lockKey} -> [value : {"", "0", "1"}, version : Nat]]
          BY DEF TypeOK
        <4>2. st' = [st EXCEPT ![lockKey] = [value   |-> input[c].value,
                                             version |-> input[c].version + 1]]
          BY <2>3, <3>1 DEF KV!Write
        <4>3. [value |-> input[c].value, version |-> input[c].version + 1]
                 \in [value : {"", "0", "1"}, version : Nat]
          <5>1. input[c].value \in {"", "0", "1"}
            BY <3>1
          <5>2. input[c].version \in Nat
            BY <3>1
          <5>3. input[c].version + 1 \in Nat
            BY <5>2, SMTT(60)
          <5>4. QED
            BY <5>1, <5>3
        <4>4. QED
          BY <4>1, <4>2, <4>3
      <3>3. QED
        BY <1>2, <2>1, <2>3, <3>2, AnswerType DEF Effect, KV!Write, TypeOK
    <2>4. CASE KV!Refuse(c)
      BY <1>2, <2>1, <2>4, AnswerType DEF Effect, KV!Refuse, TypeOK
    <2>5. QED
      BY <1>2, <2>2, <2>3, <2>4 DEF Effect
  <1>3. ASSUME NEW c \in Client, NEW out, MakeLockGot(c, out) PROVE TypeOK'
    <2>1. KV!Respond(c, out)
      BY <1>3 DEF MakeLockGot, Returns
    <2>2. /\ pc' \in [Client -> PC] /\ version' \in [Client -> Nat] /\ UNCHANGED rounds
          /\ lost' \in BOOLEAN
          /\ \A d \in Client : d # c => pc'[d] = pc[d] /\ version'[d] = version[d]
      BY <1>3, <1>0 DEF MakeLockGot, Returns, Goto, PC
    <2>3. QED
      BY <2>1, <2>2, TypeReturn
  <1>4. ASSUME NEW c \in Client, NEW out, MakeLockPut(c, out) PROVE TypeOK'
    <2>1. KV!Respond(c, out)
      BY <1>4 DEF MakeLockPut, Returns
    <2>2. /\ pc' \in [Client -> PC] /\ version' \in [Client -> Nat] /\ UNCHANGED rounds
          /\ lost' \in BOOLEAN
          /\ \A d \in Client : d # c => pc'[d] = pc[d] /\ version'[d] = version[d]
      BY <1>4, <1>0, SMTT(60) DEF MakeLockPut, Returns, Goto, PC
    <2>3. QED
      BY <2>1, <2>2, TypeReturn
  <1>5. ASSUME NEW c \in Client, NEW out, TryAcquireGot(c, out) PROVE TypeOK'
    <2>1. KV!Respond(c, out)
      BY <1>5 DEF TryAcquireGot, Returns
    <2>2. out.version \in Nat
      <3>1. out \in KV!Reply
        BY <2>1, OutputType
      <3>2. QED
        BY <3>1 DEF KV!Reply
    <2>3. /\ pc' \in [Client -> PC] /\ version' \in [Client -> Nat] /\ UNCHANGED rounds
          /\ lost' \in BOOLEAN
          /\ \A d \in Client : d # c => pc'[d] = pc[d] /\ version'[d] = version[d]
      <3>1. CASE UNCHANGED version /\ Goto(c, "try_get")
        BY <1>5, <1>0, <3>1 DEF TryAcquireGot, Returns, Goto, PC
      <3>2. CASE version' = [version EXCEPT ![c] = out.version] /\ Goto(c, "try_put")
        BY <1>5, <1>0, <2>2, <3>2 DEF TryAcquireGot, Returns, Goto, PC
      <3>3. QED
        BY <1>5, <3>1, <3>2 DEF TryAcquireGot
    <2>4. QED
      BY <2>1, <2>3, TypeReturn
  <1>6. ASSUME NEW c \in Client, NEW out, TryAcquirePut(c, out) PROVE TypeOK'
    <2>1. KV!Respond(c, out)
      BY <1>6 DEF TryAcquirePut, Returns
    <2>2. /\ pc' \in [Client -> PC] /\ version' \in [Client -> Nat] /\ UNCHANGED rounds
          /\ lost' \in BOOLEAN
          /\ \A d \in Client : d # c => pc'[d] = pc[d] /\ version'[d] = version[d]
      BY <1>6, <1>0, SMTT(60) DEF TryAcquirePut, Returns, Goto, PC
    <2>3. QED
      BY <2>1, <2>2, TypeReturn
  <1>7. ASSUME NEW c \in Client, NEW out, ReleasePut(c, out) PROVE TypeOK'
    <2>1. KV!Respond(c, out)
      BY <1>7 DEF ReleasePut, Returns
    <2>2. /\ pc' \in [Client -> PC] /\ version' \in [Client -> Nat] /\ UNCHANGED rounds
          /\ lost' \in BOOLEAN
          /\ \A d \in Client : d # c => pc'[d] = pc[d] /\ version'[d] = version[d]
      BY <1>7, <1>0, SMTT(60) DEF ReleasePut, Returns, Goto, PC
    <2>3. QED
      BY <2>1, <2>2, TypeReturn
  <1>8. ASSUME NEW c \in Client, Acquire(c) PROVE TypeOK'
    <2>1. phase[c] # "pending" /\ phase' = phase
      BY <1>8 DEF Acquire, TypeOK
    <2>2. \A d \in Client : d # c => pc'[d] = pc[d] /\ Request(d)' = Request(d)
      BY <1>8 DEF Acquire, Goto, Request, TypeOK
    <2>3. pc' \in [Client -> PC] /\ rounds' \in [Client -> 0 .. MaxRounds]
      BY <1>8, <1>0, LockAssumption, SMTT(60) DEF Acquire, Goto, PC
    <2>4. QED
      BY <1>8, <2>1, <2>2, <2>3 DEF Acquire, TypeOK
  <1>9. ASSUME NEW c \in Client, Release(c) PROVE TypeOK'
    <2>1. phase[c] # "pending" /\ phase' = phase
      BY <1>9 DEF Release, TypeOK
    <2>2. \A d \in Client : d # c => pc'[d] = pc[d] /\ Request(d)' = Request(d)
      BY <1>9 DEF Release, Goto, Request, TypeOK
    <2>3. pc' \in [Client -> PC] /\ rounds' \in [Client -> 0 .. MaxRounds]
      BY <1>9, <1>0 DEF Release, Goto, PC
    <2>4. QED
      BY <1>9, <2>1, <2>2, <2>3 DEF Release, TypeOK
  <1>10. CASE UNCHANGED vars
    BY <1>10 DEF vars, TypeOK, Request
  <1>11. QED
    BY <1>1, <1>2, <1>3, <1>4, <1>5, <1>6, <1>7, <1>8, <1>9, <1>10
       DEF Next, Step, CallReturns

\* Type correctness of the lock and of the calls it makes.
THEOREM TypeCorrect == Spec => []TypeOK
  BY TypeInit, TypeStep, PTL DEF Spec

-----------------------------------------------------------------------------

(***************************************************************************)
(* Mutual exclusion.  Two facts carry it: the owner knows the version of   *)
(* the key, so nobody else can write while it waits to write "0"; and a    *)
(* client about to write "1" read another value at the version it will     *)
(* write at, so if the key still has that version, nobody owns the lock.   *)
(***************************************************************************)
ClientInv(c) ==
    /\ pc[c] \in {"make_get", "make_put"} => version[c] = 0
    /\ Owns(c) => /\ Val = "1"
                  /\ Ver = IF pc[c] = "try_put" THEN version[c] + 1 ELSE version[c]
    /\ pc[c] = "try_put" /\ ~Applied(c) =>
          version[c] <= Ver /\ (version[c] = Ver => Val # "1")
    /\ pc[c] = "try_get" /\ Applied(c) =>
          seen[c].version <= Ver /\ (seen[c].version = Ver => seen[c].value = Val)
    /\ pc[c] = "release" /\ phase[c] = "pending" /\ seen[c] # KV!NoReply => Applied(c)

LockInv ==
    /\ Ver = 0 => Val = ""
    /\ \A c \in Client : ClientInv(c)
    /\ MutualExclusion

\* Nothing of client d changes.
Same(d) == /\ pc'[d] = pc[d] /\ version'[d] = version[d]
           /\ phase'[d] = phase[d] /\ seen'[d] = seen[d]

\* A request without an answer is not applied.
LEMMA NoReplyNotOK == KV!NoReply.err # KV!OK
  BY DEF KV!NoReply, KV!OK

\* A step of one client that leaves the key alone keeps the invariant if it does so
\* for that client and does not make it an owner.
LEMMA QuietStep ==
    ASSUME TypeOK, LockInv, UNCHANGED st, NEW c \in Client,
           \A d \in Client : d # c => Same(d),
           ClientInv(c)', Owns(c)' => Owns(c)
    PROVE  LockInv'
  <1>1. Ver' = Ver /\ Val' = Val
    BY DEF Ver, Val
  <1>2. \A d \in Client : d # c => (Applied(d)' <=> Applied(d)) /\ (Owns(d)' <=> Owns(d))
    BY DEF Same, Applied, Owns
  <1>3. \A d \in Client : d # c => ClientInv(d)'
    <2>1. SUFFICES ASSUME NEW d \in Client, d # c PROVE ClientInv(d)'
      OBVIOUS
    <2>2. ClientInv(d) /\ Same(d)
      BY <2>1 DEF LockInv
    <2>3. (Applied(d)' <=> Applied(d)) /\ (Owns(d)' <=> Owns(d))
      BY <1>2, <2>1
    <2>4. QED
      BY <1>1, <2>2, <2>3 DEF ClientInv, Same
  <1>4. MutualExclusion'
    BY <1>2 DEF LockInv, MutualExclusion
  <1>5. QED
    BY <1>1, <1>3, <1>4 DEF LockInv

\* The initial state satisfies the invariant.
LEMMA LockInit == Init => LockInv
  <1> SUFFICES ASSUME Init PROVE LockInv
    OBVIOUS
  <1>1. Val = "" /\ Ver = 0
    BY DEF Init, KV!Init, Val, Ver
  <1>2. \A c \in Client : pc[c] = "make_get" /\ version[c] = 0
    BY DEF Init
  <1>3. \A c \in Client : ~Owns(c)
    BY <1>2 DEF Owns
  <1>4. \A c \in Client : ClientInv(c)
    BY <1>2, <1>3 DEF ClientInv
  <1>5. QED
    BY <1>1, <1>3, <1>4 DEF LockInv, MutualExclusion

\* A call that begins.
LEMMA LockCall ==
    ASSUME TypeOK, LockInv, NEW c \in Client, Call(c) PROVE LockInv'
  <1>1. /\ UNCHANGED <<st, pc, version>>
        /\ phase[c] = "idle" /\ seen'[c] = KV!NoReply
        /\ \A d \in Client : d # c => Same(d)
    BY DEF Call, KV!Invoke, TypeOK, Same
  <1>2. ~Applied(c) /\ ~Applied(c)'
    BY <1>1, NoReplyNotOK DEF Applied
  <1>3. Owns(c)' <=> Owns(c)
    BY <1>1, <1>2 DEF Owns
  <1>4. ClientInv(c)'
    BY <1>1, <1>2, <1>3 DEF LockInv, ClientInv, Ver, Val
  <1>5. QED
    BY <1>1, <1>3, <1>4, QuietStep

\* A Get that reads the key.
LEMMA LockRead ==
    ASSUME TypeOK, LockInv, NEW c \in Client, Effect(c), KV!Read(c) PROVE LockInv'
  <1>1. pc[c] \in {"make_get", "try_get"}
    BY RequestType DEF KV!Read, TypeOK
  <1>2. /\ UNCHANGED <<st, pc, version, phase>>
        /\ \A d \in Client : d # c => Same(d)
    BY DEF Effect, KV!Read, TypeOK, Same
  <1>3. input[c].key = lockKey
    BY RequestType DEF KV!Read, TypeOK
  <1>4. seen'[c].version = Ver /\ seen'[c].value = Val
    BY <1>3 DEF KV!Read, TypeOK, Ver, Val
  <1>5. ~Owns(c) /\ ~Owns(c)'
    BY <1>1, <1>2 DEF Owns
  <1>6. Ver \in Nat /\ Ver' = Ver /\ Val' = Val
    BY <1>2 DEF TypeOK, Ver, Val
  <1>7. ClientInv(c)'
    <2>1. pc[c] \in {"make_get", "make_put"} => version[c] = 0
      BY DEF LockInv, ClientInv
    <2>2. seen'[c].version <= Ver' /\ seen'[c].value = Val'
      BY <1>4, <1>6, SMTT(60)
    <2>3. pc'[c] = pc[c] /\ version'[c] = version[c]
      BY <1>2
    <2>4. QED
      BY <1>1, <1>5, <2>1, <2>2, <2>3 DEF ClientInv
  <1>8. QED
    BY <1>2, <1>5, <1>7, QuietStep

\* A Put that meets another version: not that of a Release.
LEMMA LockRefuse ==
    ASSUME TypeOK, LockInv, NEW c \in Client, Effect(c), KV!Refuse(c) PROVE LockInv'
  <1>1. /\ pc[c] \in {"make_put", "try_put", "release"}
        /\ input[c].key = lockKey /\ input[c].version = version[c]
    BY RequestType DEF KV!Refuse, TypeOK, PC
  <1>2. /\ UNCHANGED <<st, pc, version, phase>>
        /\ \A d \in Client : d # c => Same(d)
    BY DEF Effect, KV!Refuse, TypeOK, Same
  <1>3. ~Applied(c)
    BY DEF KV!Refuse, Applied
  <1>4. seen'[c].err # KV!OK
    BY AnswerType DEF KV!Refuse, TypeOK, KV!OK, KV!ErrNoKey, KV!ErrVersion
  <1>5. ~Applied(c)'
    BY <1>4 DEF Applied
  <1>6. Ver # version[c]
    BY <1>1 DEF KV!Refuse, Ver
  <1>7. pc[c] # "release"
    BY <1>3, <1>6 DEF LockInv, ClientInv, Owns
  <1>8. Ver' = Ver /\ Val' = Val
    BY <1>2 DEF Ver, Val
  <1>9. ~Owns(c) /\ ~Owns(c)'
    BY <1>1, <1>2, <1>3, <1>5, <1>7 DEF Owns
  <1>10. ClientInv(c)'
    BY <1>1, <1>2, <1>3, <1>5, <1>7, <1>8, <1>9 DEF LockInv, ClientInv
  <1>11. QED
    BY <1>2, <1>9, <1>10, QuietStep

\* A Put that is accepted: no other client owns the lock.
LEMMA LockWrite ==
    ASSUME TypeOK, LockInv, NEW c \in Client, Effect(c), KV!Write(c) PROVE LockInv'
  <1>1. /\ pc[c] \in {"make_put", "try_put", "release"}
        /\ input[c].key = lockKey /\ input[c].version = version[c]
        /\ input[c].value = IF pc[c] = "try_put" THEN "1" ELSE "0"
    BY RequestType DEF KV!Write, TypeOK, PC
  <1>2. /\ UNCHANGED <<pc, version, phase>>
        /\ phase[c] = "pending"
        /\ \A d \in Client : d # c => Same(d)
    BY DEF Effect, KV!Write, TypeOK, Same
  <1>3. ~Applied(c) /\ Ver = version[c]
    BY <1>1 DEF KV!Write, Applied, Ver
  <1>4. seen'[c] = KV!PutAnswer(KV!OK)
    BY DEF KV!Write, TypeOK
  <1>5. Applied(c)'
    BY <1>2, <1>4, AnswerType DEF Applied
  <1>6. Ver \in Nat /\ \A d \in Client : version[d] \in Nat
    BY DEF TypeOK, Ver
  <1>7. Ver' = Ver + 1 /\ Val' = input[c].value
    BY <1>1, <1>3 DEF KV!Write, TypeOK, Ver, Val
  <1>8. \A d \in Client : d # c => ~Owns(d)
    <2>1. CASE pc[c] = "release"
      BY <2>1, <1>3 DEF LockInv, MutualExclusion, Owns
    <2>2. CASE pc[c] = "try_put"
      BY <2>2, <1>3 DEF LockInv, ClientInv
    <2>3. CASE pc[c] = "make_put"
      <3>1. Val = ""
        BY <2>3, <1>3 DEF LockInv, ClientInv
      <3>2. QED
        BY <3>1 DEF LockInv, ClientInv
    <2>4. QED
      BY <1>1, <2>1, <2>2, <2>3
  <1>9. \A d \in Client : d # c => (Applied(d)' <=> Applied(d)) /\ ~Owns(d)'
    BY <1>2, <1>8 DEF Same, Applied, Owns
  <1>10. ASSUME NEW d \in Client, d # c PROVE ClientInv(d)'
    <2>1. pc[d] = "try_get" /\ Applied(d) => seen[d].version \in Nat
      <3>1. seen[d].err = KV!OK => seen[d] \in KV!Reply
        BY NoReplyNotOK DEF TypeOK
      <3>2. seen[d] \in KV!Reply => seen[d].version \in Nat
        BY DEF KV!Reply
      <3>3. QED
        BY <3>1, <3>2 DEF Applied
    <2>2. Same(d) /\ ~Owns(d)' /\ (Applied(d)' <=> Applied(d)) /\ ClientInv(d)
      BY <1>2, <1>9, <1>10 DEF LockInv
    <2>3. pc[d] = "try_put" /\ ~Applied(d) => version[d] <= Ver' /\ version[d] # Ver'
      BY <2>2, <1>6, <1>7, SMTT(60) DEF ClientInv
    <2>4. pc[d] = "try_get" /\ Applied(d) => seen[d].version <= Ver' /\ seen[d].version # Ver'
      BY <2>1, <2>2, <1>6, <1>7, SMTT(60) DEF ClientInv
    <2>5. QED
      BY <2>2, <2>3, <2>4 DEF ClientInv, Same
  <1>11. ClientInv(c)'
    <2>1. Owns(c)' <=> pc[c] = "try_put"
      BY <1>1, <1>2, <1>5 DEF Owns
    <2>2. pc[c] = "make_put" => version[c] = 0
      BY DEF LockInv, ClientInv
    <2>3. QED
      BY <1>1, <1>2, <1>3, <1>5, <1>7, <2>1, <2>2 DEF ClientInv
  <1>12. MutualExclusion'
    BY <1>9 DEF MutualExclusion
  <1>13. Ver' # 0
    BY <1>6, <1>7, SMTT(60)
  <1>14. QED
    BY <1>10, <1>11, <1>12, <1>13 DEF LockInv

\* A call that returns.
LEMMA LockReturn ==
    ASSUME TypeOK, LockInv, NEW c \in Client, CallReturns(c) PROVE LockInv'
  <1> PICK out \in KV!Outputs(input[c], seen[c]) :
          \/ MakeLockGot(c, out) \/ MakeLockPut(c, out)
          \/ TryAcquireGot(c, out) \/ TryAcquirePut(c, out) \/ ReleasePut(c, out)
    BY DEF CallReturns
  <1>1. KV!Respond(c, out)
    BY DEF MakeLockGot, MakeLockPut, TryAcquireGot, TryAcquirePut, ReleasePut, Returns
  <1>2. /\ UNCHANGED <<st, seen>>
        /\ phase[c] = "pending" /\ phase'[c] = "idle" /\ seen[c] # KV!NoReply
        /\ \A d \in Client : d # c => phase'[d] = phase[d]
    BY <1>1 DEF KV!Respond, TypeOK
  <1>3. Ver' = Ver /\ Val' = Val /\ Ver \in Nat /\ version[c] \in Nat
    BY <1>2 DEF Ver, Val, TypeOK
  <1>4. ~Applied(c)'
    BY <1>2 DEF Applied
  <1>5. \A d \in Client : d # c => Same(d)
    BY <1>2 DEF MakeLockGot, MakeLockPut, TryAcquireGot, TryAcquirePut, ReleasePut, Goto,
                TypeOK, Same
  <1>6. pc'[c] \in {"free", "try_get"} => Owns(c)' = FALSE /\ ClientInv(c)'
    BY <1>4 DEF Owns, ClientInv
  <1>7. CASE MakeLockGot(c, out)
    <2>1. pc[c] = "make_get" /\ version'[c] = version[c] /\ pc'[c] \in {"make_put", "free"}
      BY <1>7 DEF MakeLockGot, Returns, Goto, TypeOK
    <2>2. ~Owns(c)' /\ version[c] = 0
      BY <2>1 DEF Owns, LockInv, ClientInv
    <2>3. ClientInv(c)'
      BY <2>1, <2>2 DEF ClientInv
    <2>4. QED
      BY <1>2, <1>5, <2>2, <2>3, QuietStep
  <1>8. CASE MakeLockPut(c, out)
    <2>1. pc'[c] = "free"
      BY <1>8 DEF MakeLockPut, Goto, TypeOK
    <2>2. QED
      BY <1>2, <1>5, <1>6, <2>1, QuietStep
  <1>9. CASE TryAcquireGot(c, out)
    <2>1. CASE pc'[c] = "try_get"
      BY <1>2, <1>5, <1>6, <2>1, QuietStep
    <2>2. CASE pc'[c] # "try_get"
      <3>1. /\ out.err = KV!OK /\ out.value # "1"
            /\ pc'[c] = "try_put" /\ version'[c] = out.version
        BY <1>9, <2>2 DEF TryAcquireGot, Goto, TypeOK
      <3>2. pc[c] = "try_get" /\ out = seen[c]
        <4>1. pc[c] = "try_get"
          BY <1>9 DEF TryAcquireGot, Returns
        <4>2. input[c].op = "get"
          BY <1>2, <4>1, RequestType DEF TypeOK
        <4>3. QED
          BY <1>1, <4>1, <4>2, OutputType
      <3>3. Applied(c)
        BY <1>2, <3>1, <3>2 DEF Applied
      <3>4. out.version <= Ver /\ (out.version = Ver => out.value = Val)
        BY <3>2, <3>3 DEF LockInv, ClientInv
      <3>5. ~Owns(c)'
        BY <1>4, <3>1 DEF Owns
      <3>6. ClientInv(c)'
        BY <1>3, <1>4, <3>1, <3>4, <3>5 DEF ClientInv
      <3>7. QED
        BY <1>2, <1>5, <3>5, <3>6, QuietStep
    <2>3. QED
      BY <2>1, <2>2
  <1>10. CASE TryAcquirePut(c, out)
    <2>1. CASE pc'[c] = "try_get"
      BY <1>2, <1>5, <1>6, <2>1, QuietStep
    <2>2. CASE pc'[c] # "try_get"
      <3>1. /\ out.err = KV!OK /\ pc[c] = "try_put"
            /\ pc'[c] = "held" /\ version'[c] = version[c] + 1
        BY <1>10, <2>2 DEF TryAcquirePut, Returns, Goto, TypeOK
      <3>2. Applied(c)
        BY <1>1, <1>2, <3>1, OutputType DEF Applied
      <3>3. Owns(c)
        BY <3>1, <3>2 DEF Owns
      <3>4. Val = "1" /\ Ver = version[c] + 1
        BY <3>1, <3>3 DEF LockInv, ClientInv
      <3>5. ClientInv(c)'
        BY <1>3, <3>1, <3>4 DEF ClientInv
      <3>6. QED
        BY <1>2, <1>5, <3>3, <3>5, QuietStep
    <2>3. QED
      BY <2>1, <2>2
  <1>11. CASE ReleasePut(c, out)
    <2>1. pc'[c] = "free"
      BY <1>11 DEF ReleasePut, Goto, TypeOK
    <2>2. QED
      BY <1>2, <1>5, <1>6, <2>1, QuietStep
  <1>12. QED
    BY <1>7, <1>8, <1>9, <1>10, <1>11

\* The user of the lock calls Acquire or Release.
LEMMA LockUser ==
    ASSUME TypeOK, LockInv, NEW c \in Client, Acquire(c) \/ Release(c) PROVE LockInv'
  <1>1. /\ UNCHANGED <<st, phase, seen, version>>
        /\ phase[c] # "pending"
        /\ \A d \in Client : d # c => Same(d)
    BY DEF Acquire, Release, Goto, TypeOK, Same
  <1>2. ~Applied(c) /\ ~Applied(c)' /\ Ver' = Ver /\ Val' = Val
    BY <1>1 DEF Applied, Ver, Val
  <1>3. CASE Acquire(c)
    <2>1. pc'[c] = "try_get"
      BY <1>3 DEF Acquire, Goto, TypeOK
    <2>2. ~Owns(c)' /\ ClientInv(c)'
      BY <1>2, <2>1 DEF Owns, ClientInv
    <2>3. QED
      BY <1>1, <2>2, QuietStep
  <1>4. CASE Release(c)
    <2>1. pc[c] = "held" /\ pc'[c] = "release" /\ phase'[c] # "pending"
      BY <1>1, <1>4 DEF Release, Goto, TypeOK
    <2>2. Owns(c) /\ ClientInv(c)
      BY <2>1 DEF Owns, LockInv
    <2>3. ClientInv(c)'
      BY <1>1, <1>2, <2>1, <2>2 DEF ClientInv
    <2>4. QED
      BY <1>1, <2>2, <2>3, QuietStep
  <1>5. QED
    BY <1>3, <1>4

\* Every step keeps the invariant.
LEMMA LockStep == TypeOK /\ LockInv /\ [Next]_vars => LockInv'
  <1> SUFFICES ASSUME TypeOK, LockInv, [Next]_vars PROVE LockInv'
    OBVIOUS
  <1>1. ASSUME NEW c \in Client, Step(c) PROVE LockInv'
    <2>1. CASE Call(c)
      BY <2>1, LockCall
    <2>2. CASE Effect(c)
      <3>1. KV!Read(c) \/ KV!Write(c) \/ KV!Refuse(c)
        BY <2>2 DEF Effect
      <3>2. QED
        BY <2>2, <3>1, LockRead, LockWrite, LockRefuse
    <2>3. CASE CallReturns(c)
      BY <2>3, LockReturn
    <2>4. CASE Acquire(c) \/ Release(c)
      BY <2>4, LockUser
    <2>5. QED
      BY <1>1, <2>1, <2>2, <2>3, <2>4 DEF Step
  <1>2. CASE UNCHANGED vars
    <2>1. \A c \in Client : ClientInv(c)' <=> ClientInv(c)
      BY <1>2, SMTT(60) DEF vars, ClientInv, Owns, Applied, Ver, Val
    <2>2. MutualExclusion'
      BY <1>2 DEF vars, LockInv, MutualExclusion, Owns, Applied
    <2>3. Ver' = Ver /\ Val' = Val
      BY <1>2 DEF vars, Ver, Val
    <2>4. QED
      BY <2>1, <2>2, <2>3 DEF LockInv
  <1>3. QED
    BY <1>1, <1>2 DEF Next

\* The invariant, in every state.
THEOREM LockInvariant == Spec => []LockInv
  BY LockInit, LockStep, TypeInit, TypeStep, PTL DEF Spec

\* Mutual exclusion of lock.go, for every number of clients and of rounds, whatever
\* answers the network loses.
THEOREM MutuallyExclusive == Spec => []MutualExclusion
  <1>1. LockInv => MutualExclusion
    BY DEF LockInv
  <1>2. QED
    BY <1>1, LockInvariant, PTL

\* The Put of Release takes effect in every run.
THEOREM ReleaseEffective == Spec => ReleaseTakesEffect
  <1> DEFINE Released == \A c \in Client : pc[c] = "release" /\ pc'[c] # "release" => Applied(c)
  <1>1. TypeOK /\ LockInv /\ [Next]_vars => [Released]_vars
    <2> SUFFICES ASSUME TypeOK, LockInv, [Next]_vars, NEW c \in Client,
                        pc[c] = "release", pc'[c] # "release"
                 PROVE  Applied(c)
      BY DEF Released
    <2>1. PICK d \in Client : Step(d)
      BY DEF Next, vars
    <2>2. CallReturns(d) /\ d = c
      BY <2>1 DEF Step, Call, Effect, CallReturns, MakeLockGot, MakeLockPut, TryAcquireGot,
                  TryAcquirePut, ReleasePut, Acquire, Release, Returns, Goto, TypeOK
    <2>3. phase[c] = "pending" /\ seen[c] # KV!NoReply
      BY <2>2 DEF CallReturns, MakeLockGot, MakeLockPut, TryAcquireGot, TryAcquirePut,
                  ReleasePut, Returns, KV!Respond
    <2>4. QED
      BY <2>3 DEF LockInv, ClientInv
  <1>2. QED
    BY <1>1, LockInvariant, TypeCorrect, PTL DEF Spec, ReleaseTakesEffect

-----------------------------------------------------------------------------

\* Without lost answers an owner stays one until it has written "0".
LEMMA OwnerStays ==
    ASSUME TypeOK, LockInv, ~lost', UNCHANGED st,
           NEW c \in Client, Step(c), NEW o \in Client, Owns(o)
    PROVE  Owns(o)'
  <1>1. CASE o # c
    <2>1. Same(o)
      BY <1>1 DEF Step, Call, Effect, CallReturns, MakeLockGot, MakeLockPut, TryAcquireGot,
                  TryAcquirePut, ReleasePut, Acquire, Release, Returns, Goto, TypeOK, Same,
                  KV!Invoke, KV!Read, KV!Write, KV!Refuse, KV!Respond
    <2>2. QED
      BY <2>1 DEF Same, Owns, Applied
  <1>2. CASE o = c
    <2>1. CASE Call(c)
      <3>1. UNCHANGED pc /\ phase[c] = "idle" /\ seen'[c] = KV!NoReply
        BY <2>1 DEF Call, KV!Invoke, TypeOK
      <3>2. QED
        BY <1>2, <3>1, NoReplyNotOK DEF Owns, Applied
    <2>2. CASE Effect(c) /\ KV!Read(c)
      <3>1. pc[c] \in {"make_get", "try_get"}
        BY <2>2, RequestType DEF KV!Read, TypeOK
      <3>2. QED
        BY <1>2, <3>1 DEF Owns
    <2>3. CASE Effect(c) /\ KV!Write(c)
      <3>1. input[c].key = lockKey /\ input[c].version = version[c] /\ version[c] \in Nat
        BY <2>3, RequestType DEF KV!Write, TypeOK, PC
      <3>2. Ver = version[c]
        BY <2>3, <3>1 DEF KV!Write, Ver
      <3>3. Ver' = Ver + 1
        <4>1. st' = [st EXCEPT ![lockKey] = [value   |-> input[c].value,
                                             version |-> version[c] + 1]]
          BY <2>3, <3>1 DEF KV!Write
        <4>2. DOMAIN st = {lockKey}
          BY DEF TypeOK
        <4>3. QED
          BY <3>2, <4>1, <4>2, SMTT(60) DEF Ver
      <3>4. QED
        BY <3>1, <3>2, <3>3, SMTT(60) DEF Ver
    <2>4. CASE Effect(c) /\ KV!Refuse(c)
      <3>1. /\ input[c].key = lockKey /\ input[c].version = version[c]
            /\ pc[c] \in {"make_put", "try_put", "release"}
        BY <2>4, RequestType DEF KV!Refuse, TypeOK, PC
      <3>2. Ver # version[c] /\ ~Applied(c)
        BY <2>4, <3>1 DEF KV!Refuse, Ver, Applied
      <3>3. QED
        BY <1>2, <3>1, <3>2 DEF LockInv, ClientInv, Owns
    <2>5. CASE CallReturns(c)
      <3> PICK out \in KV!Outputs(input[c], seen[c]) :
              \/ MakeLockGot(c, out) \/ MakeLockPut(c, out)
              \/ TryAcquireGot(c, out) \/ TryAcquirePut(c, out) \/ ReleasePut(c, out)
        BY <2>5 DEF CallReturns
      <3>1. phase[c] = "pending" /\ seen[c] # KV!NoReply
        BY DEF MakeLockGot, MakeLockPut, TryAcquireGot, TryAcquirePut, ReleasePut, Returns,
               KV!Respond
      <3>2. pc[c] = "try_put" /\ Applied(c)
        <4>1. pc[c] \notin {"held", "free"}
          BY <3>1 DEF TypeOK
        <4>2. pc[c] = "release" => Applied(c)
          BY <3>1 DEF LockInv, ClientInv
        <4>3. QED
          BY <1>2, <4>1, <4>2 DEF Owns
      <3>3. TryAcquirePut(c, out)
        BY <3>2 DEF MakeLockGot, MakeLockPut, TryAcquireGot, ReleasePut, Returns
      <3>4. out.err # KV!ErrMaybe
        BY <3>3 DEF TryAcquirePut, Returns
      <3>5. out = seen[c]
        BY <3>4, AnswerType DEF KV!Outputs
      <3>6. out.err = KV!OK
        BY <3>2, <3>5 DEF Applied
      <3>7. pc'[c] = "held"
        BY <3>3, <3>6 DEF TryAcquirePut, Goto, TypeOK
      <3>8. QED
        BY <1>2, <3>7 DEF Owns
    <2>6. CASE Acquire(c) \/ Release(c)
      <3>1. pc[c] \in {"free", "held"} /\ phase[c] # "pending" /\ UNCHANGED phase
        BY <2>6 DEF Acquire, Release, TypeOK
      <3>2. pc[c] = "held"
        BY <1>2, <3>1 DEF Owns
      <3>3. pc'[c] = "release"
        BY <2>6, <3>2 DEF Acquire, Release, Goto, TypeOK
      <3>4. QED
        BY <1>2, <3>1, <3>3 DEF Owns, Applied
    <2>7. QED
      BY <2>1, <2>2, <2>3, <2>4, <2>5, <2>6 DEF Step, Effect
  <1>3. QED
    BY <1>1, <1>2

\* Every step keeps NoOrphan.
LEMMA OrphanStep == TypeOK /\ LockInv /\ NoOrphan /\ [Next]_vars => NoOrphan'
  <1> SUFFICES ASSUME TypeOK, LockInv, NoOrphan, [Next]_vars, ~lost', Val' = "1"
               PROVE  \E c \in Client : Owns(c)'
    BY DEF NoOrphan, Val
  <1>1. CASE UNCHANGED vars
    BY <1>1 DEF vars, NoOrphan, Val, Owns, Applied
  <1>2. CASE Next
    <2> PICK c \in Client : Step(c)
      BY <1>2 DEF Next
    <2>1. CASE UNCHANGED st
      <3>1. ~lost
        BY DEF Step, Call, Effect, CallReturns, MakeLockGot, MakeLockPut, TryAcquireGot,
               TryAcquirePut, ReleasePut, Acquire, Release, Returns
      <3>2. PICK o \in Client : Owns(o)
        BY <2>1, <3>1 DEF NoOrphan, Val
      <3>3. QED
        BY <2>1, <3>2, OwnerStays
    <2>2. CASE ~UNCHANGED st
      <3>1. Effect(c) /\ KV!Write(c)
        BY <2>2 DEF Step, Call, Effect, CallReturns, MakeLockGot, MakeLockPut, TryAcquireGot,
                    TryAcquirePut, ReleasePut, Acquire, Release, Returns,
                    KV!Invoke, KV!Read, KV!Refuse, KV!Respond
      <3>2. /\ input[c].key = lockKey
            /\ input[c].value = IF pc[c] = "try_put" THEN "1" ELSE "0"
        BY <3>1, RequestType DEF KV!Write, TypeOK, PC
      <3>3. Val' = input[c].value
        BY <3>1, <3>2 DEF KV!Write, TypeOK, Val
      <3>4. pc'[c] = "try_put" /\ phase'[c] = "pending"
        BY <3>1, <3>2, <3>3 DEF Effect, KV!Write
      <3>5. seen'[c].err = KV!OK
        BY <3>1, AnswerType DEF KV!Write, TypeOK
      <3>6. Owns(c)'
        BY <3>4, <3>5 DEF Owns, Applied
      <3>7. QED
        BY <3>6
    <2>3. QED
      BY <2>1, <2>2
  <1>3. QED
    BY <1>1, <1>2

\* While no answer is lost, the key never says "1" without an owner, so the lock is
\* always held by someone who will release it or free.
THEOREM NoOrphans == Spec => []NoOrphan
  <1>1. Init => NoOrphan
    <2> SUFFICES ASSUME Init PROVE st[lockKey].value # "1"
      BY DEF NoOrphan
    <2>1. st[lockKey].value = ""
      BY DEF Init, KV!Init
    <2>2. QED
      BY <2>1
  <1>2. QED
    BY <1>1, OrphanStep, LockInvariant, TypeCorrect, PTL DEF Spec

=============================================================================
