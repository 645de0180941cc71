---------------------------- MODULE KVTestProofs ----------------------------
(***************************************************************************)
(* Proofs about KVTest, for any number of clients, of iterations and of    *)
(* lost answers: no workload calls Put with a version that the key has     *)
(* not reached, an append that was answered OK stays in the list, no check *)
(* of the workloads calls Fatalf, and the done signals reach all clients.  *)
(***************************************************************************)
EXTENDS KVTest, FiniteSetTheorems, TLAPS

\* Zenon proves the steps that name no other prover.
USE ZenonT(30)

\* The functions of the clients, and the one key of the store.
Types ==
    /\ st = [x \in {k} |-> st[x]] /\ st[k].version \in Nat
    /\ phase \in [Client -> {"idle", "pending"}]
    /\ input = [c \in Client |-> input[c]] /\ seen = [c \in Client |-> seen[c]]
    /\ pc \in [Client -> {"top", "put", "get", "returned"}]
    /\ ver \in [Client -> Nat]

\* The call in progress is the one at pc, with the version the client has.
CallAtPc(c) ==
    /\ input[c].key = k
    /\ \/ input[c].op = "get" /\ pc[c] = "get"
       \/ input[c].op = "put" /\ pc[c] = "put" /\ input[c].version = ver[c]

\* What the store answered bounds the version of the key from below: a Get by what it
\* read, a Put, accepted or refused, by the version after its own.
Bounded(c) ==
    IF input[c].op = "get"
    THEN seen[c].version \in Nat /\ seen[c].version <= st[k].version
    ELSE ver[c] < st[k].version

Pending ==
    \A c \in Client : phase[c] = "pending" =>
        CallAtPc(c) /\ (seen[c] # KV!NoReply => Bounded(c))

Inv == Types /\ NeverAhead /\ Pending

-----------------------------------------------------------------------------

\* The invariant holds before the first call.
LEMMA InvInit == Init => Inv
  <1> SUFFICES ASSUME Init PROVE Inv
    OBVIOUS
  <1>1. st[k].version \in Nat /\ 0 <= st[k].version /\ st = [x \in {k} |-> st[x]]
    <2>1. \E n \in {0, 1} : st = [x \in {k} |-> [value |-> <<>>, version |-> n]]
      BY DEF Init
    <2>2. PICK n \in {0, 1} : st = [x \in {k} |-> [value |-> <<>>, version |-> n]]
      BY <2>1
    <2>3. st[k].version = n /\ st = [x \in {k} |-> st[x]]
      BY <2>2
    <2>4. QED
      BY <2>3, SMTT(60)
  <1>2. Types
    BY <1>1 DEF Init, Types
  <1>3. NeverAhead
    BY <1>1 DEF Init, NeverAhead
  <1>4. Pending
    BY DEF Init, Pending
  <1>5. QED
    BY <1>2, <1>3, <1>4 DEF Inv

\* A client leaves the top of its loop: it has no call in progress.
LEMMA TopInv ==
    ASSUME Inv, NEW c \in Client, ReceiveDone(c) \/ Default(c)
    PROVE  Inv'
  <1>1. /\ pc[c] = "top" /\ UNCHANGED <<kvVars, ver>>
        /\ \E l \in {"put", "get", "returned"} : pc' = [pc EXCEPT ![c] = l]
    BY DEF ReceiveDone, Default, mainVars
  <1>2. phase[c] # "pending"
    BY <1>1 DEF Inv, Pending, CallAtPc
  <1>3. Types' /\ NeverAhead'
    BY <1>1, SMTT(60) DEF Inv, Types, NeverAhead, kvVars
  <1>4. Pending'
    BY <1>1, <1>2 DEF Inv, Types, Pending, CallAtPc, Bounded, kvVars
  <1>5. QED
    BY <1>3, <1>4 DEF Inv

\* Sending a call changes nothing that the invariant is about.
LEMMA CallInv ==
    ASSUME Inv, NEW c \in Client, Call(c)
    PROVE  Inv'
  <1>1. /\ pc[c] \in {"put", "get"} /\ UNCHANGED <<st, pc, ver>>
        /\ phase' = [phase EXCEPT ![c] = "pending"]
        /\ input' = [input EXCEPT ![c] = Request(c)]
        /\ seen' = [seen EXCEPT ![c] = KV!NoReply]
    BY DEF Call, KV!Invoke, clientVars
  <1>2. /\ Request(c).key = k
        /\ \/ Request(c).op = "get" /\ pc[c] = "get"
           \/ Request(c).op = "put" /\ pc[c] = "put" /\ Request(c).version = ver[c]
    BY <1>1 DEF Request
  <1>3. Types' /\ NeverAhead'
    BY <1>1 DEF Inv, Types, NeverAhead
  <1>4. Pending'
    <2>1. ASSUME NEW d \in Client, phase'[d] = "pending"
          PROVE  CallAtPc(d)' /\ (seen'[d] # KV!NoReply => Bounded(d)')
      <3>1. CASE d = c
        BY <1>1, <1>2, <3>1 DEF Inv, Types, CallAtPc
      <3>2. CASE d # c
        BY <1>1, <2>1, <3>2 DEF Inv, Types, Pending, CallAtPc, Bounded
      <3>3. QED
        BY <3>1, <3>2
    <2>2. QED
      BY <2>1 DEF Pending
  <1>5. QED
    BY <1>3, <1>4 DEF Inv

\* The store takes its part: the version never falls.
LEMMA EffectInv ==
    ASSUME Inv, NEW c \in Client, Effect(c)
    PROVE  Inv'
  <1>0. Types /\ NeverAhead /\ CallAtPc(c) /\ phase[c] = "pending" /\ Pending
    BY DEF Inv, Effect, KV!Read, KV!Write, KV!Refuse, Pending
  <1>1. UNCHANGED <<phase, input, pc, ver>>
    BY DEF Effect, KV!Read, KV!Write, KV!Refuse, clientVars
  <1>2. /\ seen' = [d \in Client |-> seen'[d]]
        /\ \A d \in Client : d # c => seen'[d] = seen[d]
    BY <1>0 DEF Effect, KV!Read, KV!Write, KV!Refuse, Types
  <1>3. /\ st' = [x \in {k} |-> st'[x]] /\ st'[k].version \in Nat
        /\ st[k].version <= st'[k].version /\ Bounded(c)'
    <2>0. /\ st[k].version \in Nat /\ ver[c] \in Nat /\ ver[c] <= st[k].version
          /\ st = [x \in {k} |-> st[x]] /\ input[c].key = k
      BY <1>0 DEF Types, NeverAhead, CallAtPc
    <2>1. CASE KV!Read(c)
      <3>1. /\ UNCHANGED st /\ input[c].op = "get" /\ seen'[c].version = st[k].version
        BY <1>0, <2>0, <2>1 DEF KV!Read, Types
      <3>2. QED
        BY <1>1, <2>0, <3>1, SMTT(60) DEF Bounded
    <2>2. CASE KV!Write(c)
      <3>1. /\ input[c].op = "put" /\ input[c].version = ver[c] /\ st[k].version = ver[c]
            /\ st' = [st EXCEPT ![k] = [value |-> input[c].value, version |-> ver[c] + 1]]
        BY <1>0, <2>0, <2>2 DEF KV!Write, CallAtPc
      <3>2. st' = [x \in {k} |-> st'[x]] /\ st'[k].version = ver[c] + 1
        BY <2>0, <3>1
      <3>3. QED
        BY <1>1, <2>0, <3>1, <3>2, SMTT(60) DEF Bounded
    <2>3. CASE KV!Refuse(c)
      <3>1. UNCHANGED st /\ input[c].op = "put" /\ st[k].version # ver[c]
        BY <1>0, <2>0, <2>3 DEF KV!Refuse, CallAtPc
      <3>2. QED
        BY <1>1, <2>0, <3>1, SMTT(60) DEF Bounded
    <2>4. QED
      BY <2>1, <2>2, <2>3 DEF Effect
  <1>4. Types'
    BY <1>0, <1>1, <1>2, <1>3 DEF Types
  <1>5. \A d \in Client : ver[d] \in Nat /\ st[k].version \in Nat
    BY <1>0 DEF Types
  <1>6. NeverAhead'
    BY <1>0, <1>1, <1>3, <1>5, SMTT(60) DEF NeverAhead
  <1>7. Pending'
    <2>1. ASSUME NEW d \in Client, phase[d] = "pending", seen'[d] # KV!NoReply
          PROVE  Bounded(d)'
      <3>1. CASE d = c
        BY <1>3, <3>1
      <3>2. CASE d # c
        <4>1. Bounded(d) /\ seen'[d] = seen[d]
          BY <1>0, <1>2, <2>1, <3>2 DEF Pending
        <4>2. QED
          BY <1>1, <1>3, <1>5, <4>1, SMTT(60) DEF Bounded
      <3>3. QED
        BY <3>1, <3>2
    <2>2. \A d \in Client : CallAtPc(d) => CallAtPc(d)'
      BY <1>1 DEF CallAtPc
    <2>3. QED
      BY <1>0, <1>1, <2>1, <2>2 DEF Pending
  <1>8. QED
    BY <1>4, <1>6, <1>7 DEF Inv

\* A call returns: a Get with what the store answered, a Put with any of its errors.
LEMMA ReturnInv ==
    ASSUME Inv, NEW c \in Client, CallReturns(c)
    PROVE  Inv'
  <1>0. Types /\ NeverAhead /\ Pending
    BY DEF Inv
  <1>1. PICK out : \/ OnePutDone(c, out) \/ OnePutGot(c, out)
                   \/ AppendGot(c, out) \/ AppendPut(c, out) \/ AtLeastPut(c, out)
    BY DEF CallReturns
  <1>2. KV!Respond(c, out)
    BY <1>1 DEF OnePutDone, OnePutGot, AppendGot, AppendPut, AtLeastPut, Returns
  <1>3. /\ phase[c] = "pending" /\ phase' = [phase EXCEPT ![c] = "idle"]
        /\ seen[c] # KV!NoReply /\ out \in KV!Outputs(input[c], seen[c])
        /\ UNCHANGED <<st, input, seen>>
    BY <1>2 DEF KV!Respond
  <1>4. CallAtPc(c) /\ Bounded(c)
    BY <1>0, <1>3 DEF Pending
  <1>5. ver' \in [Client -> Nat] /\ ver'[c] <= st[k].version
        /\ \A d \in Client : d # c => ver'[d] = ver[d]
    <2>0. ver \in [Client -> Nat] /\ st[k].version \in Nat /\ ver[c] <= st[k].version
      BY <1>0 DEF Types, NeverAhead
    <2>1. CASE UNCHANGED ver
      BY <2>0, <2>1
    <2>2. CASE pc[c] = "get" /\ ver' = [ver EXCEPT ![c] = out.version]
      <3>1. input[c].op = "get" /\ out = seen[c]
        BY <1>3, <1>4, <2>2 DEF CallAtPc, KV!Outputs
      <3>2. out.version \in Nat /\ out.version <= st[k].version
        BY <1>4, <3>1 DEF Bounded
      <3>3. QED
        BY <2>0, <2>2, <3>2
    <2>3. CASE pc[c] = "put" /\ ver' = [ver EXCEPT ![c] = @ + 1]
      <3>1. ver[c] < st[k].version
        BY <1>4, <2>3 DEF CallAtPc, Bounded
      <3>2. QED
        BY <2>0, <2>3, <3>1, SMTT(60)
    <2>4. QED
      BY <1>1, <2>1, <2>2, <2>3 DEF OnePutDone, OnePutGot, AppendGot, AppendPut, AtLeastPut,
                                    Returns
  <1>6. \/ UNCHANGED pc
        \/ \E l \in {"top", "put", "get"} : pc' = [pc EXCEPT ![c] = l]
    BY <1>1 DEF OnePutDone, OnePutGot, AppendGot, AppendPut, AtLeastPut, Count, Goto
  <1>7. /\ pc' \in [Client -> {"top", "put", "get", "returned"}]
        /\ \A d \in Client : d # c => pc'[d] = pc[d]
    BY <1>0, <1>6 DEF Types
  <1>8. Types'
    BY <1>0, <1>3, <1>5, <1>7 DEF Types
  <1>9. NeverAhead'
    BY <1>0, <1>3, <1>5 DEF NeverAhead
  <1>10. Pending'
    <2>1. ASSUME NEW d \in Client, phase'[d] = "pending"
          PROVE  d # c /\ phase[d] = "pending"
      BY <1>0, <1>3, <2>1 DEF Types
    <2>2. ASSUME NEW d \in Client, d # c
          PROVE  (CallAtPc(d) => CallAtPc(d)') /\ (Bounded(d) => Bounded(d)')
      BY <1>3, <1>5, <1>7, <2>2 DEF CallAtPc, Bounded
    <2>3. QED
      BY <1>0, <1>3, <2>1, <2>2 DEF Pending
  <1>11. QED
    BY <1>8, <1>9, <1>10 DEF Inv

\* The test's own goroutine leaves the clients and the store alone.
LEMMA MainInv ==
    ASSUME Inv, UNCHANGED <<kvVars, clientVars>>
    PROVE  Inv'
  BY DEF kvVars, clientVars, Inv, Types, NeverAhead, Pending, CallAtPc, Bounded

-----------------------------------------------------------------------------

\* Every reachable state satisfies the invariant.
LEMMA InvAlways == Spec => []Inv
  <1>1. Inv /\ [Next]_vars => Inv'
    <2> SUFFICES ASSUME Inv, [Next]_vars PROVE Inv'
      OBVIOUS
    <2>1. \/ \E c \in Client : Step(c)
          \/ SleepOver \/ NextDone \/ Check \/ UNCHANGED vars
      BY DEF Next
    <2>2. CASE \E c \in Client : Step(c)
      BY <2>2, TopInv, CallInv, EffectInv, ReturnInv DEF Step
    <2>3. CASE SleepOver \/ NextDone \/ Check \/ UNCHANGED vars
      <3>1. UNCHANGED <<kvVars, clientVars>>
        BY <2>3 DEF SleepOver, NextDone, Check, vars
      <3>2. QED
        BY <3>1, MainInv
    <2>4. QED
      BY <2>1, <2>2, <2>3
  <1>2. QED
    BY <1>1, InvInit, PTL DEF Spec

\* Put is never called with a version that the key has not reached, whichever answers are
\* lost: PutAtLeastOnce, which only raises its version, cannot overtake the key
\* (kvtest.go:78-86).
THEOREM NeverAheadAlways == Spec => []NeverAhead
  <1>1. Inv => NeverAhead
    BY DEF Inv
  <1>2. QED
    BY <1>1, InvAlways, PTL

-----------------------------------------------------------------------------

(***************************************************************************)
(* What the store answers: as no client is ahead, a Put is accepted or     *)
(* meets another version, and the key is there when a client reads it.     *)
(***************************************************************************)
Results == [Nok : Nat, Nmaybe : Nat]

Typed ==
    /\ workload \in {"put", "append", "atleast"}
    /\ res \in [Client -> Results] /\ iter \in [Client -> Nat]
    /\ DOMAIN err = Client /\ DOMAIN es = Client

\* The answers that may be under way to a client at l.
Answers(l) == IF l = "get" THEN {KV!OK} ELSE {KV!OK, KV!ErrVersion}

Answered(c) ==
    /\ pc[c] = "get" => st[k].version > 0 /\ workload # "atleast"
    /\ phase[c] = "pending" /\ seen[c] # KV!NoReply => seen[c].err \in Answers(pc[c])

Base ==
    /\ Typed
    /\ workload = "append" => st[k].version > 0
    /\ \A c \in Client : Answered(c)

\* No call has been made.
LEMMA BaseInit == Init => Base
  <1> SUFFICES ASSUME Init PROVE Base
    OBVIOUS
  <1>1. [Nok |-> 0, Nmaybe |-> 0] \in Results
    BY SMTT(60) DEF Results
  <1>2. Typed
    <2>1. 0 \in Nat
      BY SMTT(60)
    <2>2. QED
      BY <1>1, <2>1 DEF Init, Typed
  <1>3. workload = "append" => st[k].version > 0
    <2>1. SUFFICES ASSUME workload = "append" PROVE st[k].version > 0
      OBVIOUS
    <2>2. st = [x \in {k} |-> [value |-> <<>>, version |-> 1]]
      BY <2>1 DEF Init
    <2>3. st[k].version = 1
      BY <2>2, SMTT(60)
    <2>4. QED
      BY <2>3, SMTT(60)
  <1>4. \A c \in Client : Answered(c)
    BY DEF Init, Answered
  <1>5. QED
    BY <1>2, <1>3, <1>4 DEF Base

\* What an iteration's end does to the results of c.
LEMMA CountIs ==
    ASSUME Typed, NEW c \in Client, NEW e, Count(c, e)
    PROVE  /\ res' \in [Client -> Results] /\ iter' \in [Client -> Nat]
           /\ \A d \in Client : d # c => res'[d] = res[d] /\ iter'[d] = iter[d]
           /\ iter'[c] = iter[c] + 1 /\ pc' = [pc EXCEPT ![c] = "top"]
           /\ e = KV!OK => res'[c].Nok = res[c].Nok + 1 /\ res'[c].Nmaybe = res[c].Nmaybe
           /\ e # KV!OK => res'[c].Nok = res[c].Nok /\ res'[c].Nmaybe = res[c].Nmaybe + 1
  <1> DEFINE r == IF e = KV!OK THEN [res[c] EXCEPT !.Nok = @ + 1]
                               ELSE [res[c] EXCEPT !.Nmaybe = @ + 1]
  <1>0. res \in [Client -> Results] /\ iter \in [Client -> Nat] /\ res[c] \in Results
    BY DEF Typed
  <1>1. res' = [res EXCEPT ![c] = r] /\ iter' = [iter EXCEPT ![c] = iter[c] + 1]
    <2>1. CASE e = KV!OK
      BY <2>1 DEF Count
    <2>2. CASE e # KV!OK
      BY <2>2 DEF Count
    <2>3. QED
      BY <2>1, <2>2
  <1>2. /\ r \in Results
        /\ e = KV!OK => r.Nok = res[c].Nok + 1 /\ r.Nmaybe = res[c].Nmaybe
        /\ e # KV!OK => r.Nok = res[c].Nok /\ r.Nmaybe = res[c].Nmaybe + 1
    BY <1>0, SMTT(60) DEF Results
  <1> HIDE DEF r
  <1>3. iter[c] + 1 \in Nat
    BY <1>0, SMTT(60)
  <1>4. QED
    BY <1>0, <1>1, <1>2, <1>3 DEF Count, Goto

\* The store's part of the call of c: what it reads, writes or refuses.
Reads(c) ==
    /\ pc[c] = "get" /\ UNCHANGED st
    /\ seen'[c].err = KV!OK
    /\ seen'[c].value = st[k].value /\ seen'[c].version = st[k].version

Writes(c) ==
    /\ pc[c] = "put" /\ st[k].version = ver[c] /\ seen[c].err # KV!OK
    /\ st'[k].value = input[c].value /\ st'[k].version = ver[c] + 1
    /\ seen'[c].err = KV!OK

Refuses(c) ==
    /\ pc[c] = "put" /\ UNCHANGED st /\ seen[c].err # KV!OK
    /\ seen'[c].err = KV!ErrVersion

\* Effect, given what the store may answer (kvsrv1/server.go:38-75).
LEMMA EffectIs ==
    ASSUME Inv, Base, NEW c \in Client, Effect(c)
    PROVE  /\ UNCHANGED <<phase, input, mainVars, clientVars, fatal>>
           /\ phase[c] = "pending" /\ \A d \in Client : d # c => seen'[d] = seen[d]
           /\ Reads(c) \/ Writes(c) \/ Refuses(c)
  <1>0. /\ phase[c] = "pending" /\ CallAtPc(c) /\ st = [x \in {k} |-> st[x]]
        /\ seen = [d \in Client |-> seen[d]] /\ Answered(c)
        /\ st[k].version \in Nat /\ ver[c] \in Nat /\ ver[c] <= st[k].version
    BY DEF Inv, Base, Effect, KV!Read, KV!Write, KV!Refuse, Pending, Types, NeverAhead
  <1>1. UNCHANGED <<phase, input, mainVars, clientVars, fatal>>
    BY DEF Effect, KV!Read, KV!Write, KV!Refuse
  <1>2. \A d \in Client : d # c => seen'[d] = seen[d]
    BY <1>0 DEF Effect, KV!Read, KV!Write, KV!Refuse
  <1>3. CASE KV!Read(c)
    <2>1. input[c].op = "get" /\ pc[c] = "get" /\ input[c].key = k
      BY <1>0, <1>3 DEF KV!Read, CallAtPc
    <2>2. st[k].version # 0
      BY <1>0, <2>1, SMTT(60) DEF Answered
    <2>3. Reads(c)
      BY <1>0, <1>3, <2>1, <2>2 DEF KV!Read, Reads
    <2>4. QED
      BY <1>0, <1>1, <1>2, <2>3
  <1>4. CASE KV!Write(c)
    <2>1. /\ input[c].op = "put" /\ pc[c] = "put" /\ input[c].key = k
          /\ input[c].version = ver[c]
      BY <1>0, <1>4 DEF KV!Write, CallAtPc
    <2>2. Writes(c)
      BY <1>0, <1>4, <2>1 DEF KV!Write, Writes, KV!PutAnswer
    <2>3. QED
      BY <1>0, <1>1, <1>2, <2>2
  <1>5. CASE KV!Refuse(c)
    <2>1. /\ input[c].op = "put" /\ pc[c] = "put" /\ input[c].key = k
          /\ input[c].version = ver[c]
      BY <1>0, <1>5 DEF KV!Refuse, CallAtPc
    <2>2. st[k].version # ver[c] /\ st[k].version # 0
      BY <1>0, <1>5, <2>1, SMTT(60) DEF KV!Refuse
    <2>3. Refuses(c)
      BY <1>0, <1>5, <2>1, <2>2 DEF KV!Refuse, Refuses, KV!PutAnswer
    <2>4. QED
      BY <1>0, <1>1, <1>2, <2>3
  <1>6. QED
    BY <1>3, <1>4, <1>5 DEF Effect

\* The call of c returns out: a Get with what the store answered, a Put with that or,
\* where answers are lost, ErrMaybe.
Returned(c, out) ==
    /\ phase[c] = "pending" /\ CallAtPc(c) /\ Bounded(c) /\ seen[c].err \in Answers(pc[c])
    /\ phase' = [phase EXCEPT ![c] = "idle"] /\ UNCHANGED <<st, input, seen, mainVars>>
    /\ \/ /\ pc[c] = "get" /\ out = seen[c] /\ out.err = KV!OK
          /\ OnePutGot(c, out) \/ AppendGot(c, out)
       \/ /\ pc[c] = "put" /\ out.err \in {seen[c].err, KV!ErrMaybe}
          /\ reliable => out.err = seen[c].err
          /\ OnePutDone(c, out) \/ AppendPut(c, out) \/ AtLeastPut(c, out)

\* CallReturns, given what the store may have answered.
LEMMA ReturnIs ==
    ASSUME Inv, Base, NEW c \in Client, CallReturns(c)
    PROVE  \E out : Returned(c, out)
  <1>1. PICK out : \/ OnePutDone(c, out) \/ OnePutGot(c, out)
                   \/ AppendGot(c, out) \/ AppendPut(c, out) \/ AtLeastPut(c, out)
    BY DEF CallReturns
  <1>2. /\ KV!Respond(c, out) /\ UNCHANGED mainVars /\ (reliable => out.err # KV!ErrMaybe)
        /\ OnePutGot(c, out) \/ AppendGot(c, out) => pc[c] = "get"
        /\ OnePutDone(c, out) \/ AppendPut(c, out) \/ AtLeastPut(c, out) => pc[c] = "put"
    BY <1>1 DEF OnePutDone, OnePutGot, AppendGot, AppendPut, AtLeastPut, Returns
  <1>3. /\ phase[c] = "pending" /\ seen[c] # KV!NoReply /\ out \in KV!Outputs(input[c], seen[c])
        /\ phase' = [phase EXCEPT ![c] = "idle"] /\ UNCHANGED <<st, input, seen>>
    BY <1>2 DEF KV!Respond
  <1>4. CallAtPc(c) /\ Bounded(c) /\ seen[c].err \in Answers(pc[c])
    BY <1>3 DEF Inv, Base, Pending, Answered
  <1>5. CASE pc[c] = "get"
    <2>1. input[c].op = "get"
      BY <1>4, <1>5 DEF CallAtPc
    <2>2. out = seen[c] /\ out.err = KV!OK
      BY <1>3, <1>4, <1>5, <2>1 DEF KV!Outputs, Answers
    <2>3. OnePutGot(c, out) \/ AppendGot(c, out)
      BY <1>1, <1>2, <1>5
    <2>4. Returned(c, out)
      BY <1>2, <1>3, <1>4, <1>5, <2>2, <2>3 DEF Returned
    <2>5. QED
      BY <2>4
  <1>6. CASE pc[c] = "put"
    <2>1. out = seen[c] \/ out = KV!PutAnswer(KV!ErrMaybe)
      BY <1>3 DEF KV!Outputs
    <2>2. KV!PutAnswer(KV!ErrMaybe).err = KV!ErrMaybe
      BY DEF KV!PutAnswer
    <2>3. out.err \in {seen[c].err, KV!ErrMaybe} /\ (reliable => out.err = seen[c].err)
      BY <1>2, <2>1, <2>2
    <2>4. OnePutDone(c, out) \/ AppendPut(c, out) \/ AtLeastPut(c, out)
      BY <1>1, <1>2, <1>6
    <2>5. Returned(c, out)
      BY <1>2, <1>3, <1>4, <1>6, <2>3, <2>4 DEF Returned
    <2>6. QED
      BY <2>5
  <1>7. QED
    BY <1>1, <1>2, <1>5, <1>6

\* The clients other than the one that steps.
LEMMA AnsweredKept ==
    ASSUME NEW d, Answered(d), pc'[d] = pc[d], phase'[d] = phase[d], seen'[d] = seen[d],
           workload' = workload, st[k].version \in Nat, st'[k].version \in Nat,
           st[k].version <= st'[k].version
    PROVE  Answered(d)'
  <1>1. st[k].version > 0 => st'[k].version > 0
    BY SMTT(60)
  <1>2. QED
    BY <1>1 DEF Answered

\* A client leaves the top of its loop.
LEMMA BaseTop ==
    ASSUME Inv, Base, NEW c \in Client, ReceiveDone(c) \/ Default(c)
    PROVE  Base'
  <1>1. /\ UNCHANGED <<kvVars, workload, ver, es, err, iter, res>>
        /\ \E l \in {"put", "get", "returned"} :
               pc' = [pc EXCEPT ![c] = l] /\ (l = "get" => workload = "append")
    BY DEF ReceiveDone, Default, mainVars
  <1>2. pc[c] = "top" /\ phase[c] # "pending"
    BY DEF Inv, Pending, CallAtPc, ReceiveDone, Default
  <1>3. \A d \in Client : Answered(d)'
    BY <1>1, <1>2 DEF Inv, Types, Base, Answered, kvVars
  <1>4. QED
    BY <1>1, <1>3 DEF Base, Typed, kvVars

\* A call is sent: there is no answer yet.
LEMMA BaseCall ==
    ASSUME Inv, Base, NEW c \in Client, Call(c)
    PROVE  Base'
  <1>1. /\ UNCHANGED <<st, mainVars, clientVars>>
        /\ phase' = [phase EXCEPT ![c] = "pending"]
        /\ seen' = [seen EXCEPT ![c] = KV!NoReply]
    BY DEF Call, KV!Invoke
  <1>2. \A d \in Client : Answered(d)'
    BY <1>1 DEF Inv, Types, Base, Answered, mainVars, clientVars
  <1>3. QED
    BY <1>1, <1>2 DEF Base, Typed, mainVars, clientVars

\* The store answers.
LEMMA BaseEffect ==
    ASSUME Inv, Inv', Base, NEW c \in Client, Effect(c)
    PROVE  Base'
  <1>0. /\ UNCHANGED <<phase, input, mainVars, clientVars, fatal>>
        /\ \A d \in Client : d # c => seen'[d] = seen[d]
        /\ Reads(c) \/ Writes(c) \/ Refuses(c)
    BY EffectIs
  <1>1. /\ st[k].version \in Nat /\ st'[k].version \in Nat
        /\ st[k].version <= st'[k].version
        /\ Writes(c) => st'[k].version > 0
    <2>0. st[k].version \in Nat /\ ver[c] \in Nat
      BY DEF Inv, Types
    <2>1. UNCHANGED st \/ (st[k].version = ver[c] /\ st'[k].version = ver[c] + 1)
      BY <1>0 DEF Reads, Writes, Refuses
    <2>2. Writes(c) => st'[k].version = ver[c] + 1
      BY DEF Writes
    <2>3. QED
      BY <2>0, <2>1, <2>2, SMTT(60)
  <1>2. pc' = pc /\ phase' = phase /\ workload' = workload /\ Typed'
    BY <1>0 DEF mainVars, clientVars, Base, Typed
  <1>3. ASSUME NEW d \in Client PROVE Answered(d)'
    <2>1. CASE d # c
      BY <1>0, <1>1, <1>2, <2>1, AnsweredKept DEF Base
    <2>2. CASE d = c
      <3>1. seen'[c].err \in Answers(pc[c])
        BY <1>0 DEF Reads, Writes, Refuses, Answers
      <3>2. pc[c] = "get" => st'[k].version > 0 /\ workload # "atleast"
        BY <1>0 DEF Base, Answered, Reads, Writes, Refuses
      <3>3. QED
        BY <1>2, <2>2, <3>1, <3>2 DEF Answered
    <2>3. QED
      BY <2>1, <2>2
  <1>4. workload = "append" => st'[k].version > 0
    BY <1>1, SMTT(60) DEF Base
  <1>5. QED
    BY <1>2, <1>3, <1>4 DEF Base

\* A call returns: the client goes on with the version the key has reached.
LEMMA BaseReturn ==
    ASSUME Inv, Base, NEW c \in Client, CallReturns(c)
    PROVE  Base'
  <1>1. PICK out : Returned(c, out)
    BY ReturnIs
  <1>2. /\ phase' = [phase EXCEPT ![c] = "idle"] /\ UNCHANGED <<st, seen, workload>>
        /\ phase[c] = "pending" /\ CallAtPc(c) /\ Bounded(c)
    BY <1>1 DEF Returned, mainVars
  <1>3. Typed'
    <2>1. \/ UNCHANGED <<res, iter>> \/ \E e : Count(c, e)
      BY <1>1 DEF Returned, OnePutDone, OnePutGot, AppendGot, AppendPut, AtLeastPut
    <2>2. res' \in [Client -> Results] /\ iter' \in [Client -> Nat]
      BY <2>1, CountIs DEF Base, Typed
    <2>3. DOMAIN err' = Client /\ DOMAIN es' = Client
      BY <1>1 DEF Returned, OnePutDone, OnePutGot, AppendGot, AppendPut, AtLeastPut, Base, Typed
    <2>4. QED
      BY <1>2, <2>2, <2>3 DEF Base, Typed
  <1>4. /\ \A d \in Client : d # c => pc'[d] = pc[d]
        /\ pc'[c] = "get" => workload # "atleast" /\ (workload = "append" \/ pc[c] = "put")
    BY <1>1 DEF Returned, Inv, Types, OnePutDone, OnePutGot, AppendGot, AppendPut, AtLeastPut,
                Returns, Count, Goto
  <1>5. pc[c] = "put" => st[k].version > 0
    <2>1. SUFFICES ASSUME pc[c] = "put" PROVE st[k].version > 0
      OBVIOUS
    <2>2. ver[c] \in Nat /\ st[k].version \in Nat /\ ver[c] < st[k].version
      BY <1>2, <2>1 DEF CallAtPc, Bounded, Inv, Types
    <2>3. QED
      BY <2>2, SMTT(60)
  <1>6. \A d \in Client : Answered(d)'
    BY <1>2, <1>4, <1>5 DEF Base, Answered, Inv, Types
  <1>7. QED
    BY <1>2, <1>3, <1>6 DEF Base

\* Every reachable state satisfies both.
LEMMA BaseAlways == Spec => [](Inv /\ Base)
  <1>1. Inv /\ Inv' /\ Base /\ [Next]_vars => Base'
    <2> SUFFICES ASSUME Inv, Inv', Base, [Next]_vars PROVE Base'
      OBVIOUS
    <2>1. \/ \E c \in Client : Step(c)
          \/ SleepOver \/ NextDone \/ Check \/ UNCHANGED vars
      BY DEF Next
    <2>2. CASE \E c \in Client : Step(c)
      BY <2>2, BaseTop, BaseCall, BaseEffect, BaseReturn DEF Step
    <2>3. CASE SleepOver \/ NextDone \/ Check \/ UNCHANGED vars
      <3>1. UNCHANGED <<kvVars, clientVars, workload>>
        BY <2>3 DEF SleepOver, NextDone, Check, vars, mainVars
      <3>2. QED
        BY <3>1 DEF kvVars, clientVars, Base, Typed, Answered
    <2>4. QED
      BY <2>1, <2>2, <2>3
  <1>2. QED
    BY <1>1, BaseInit, InvAlways, PTL DEF Spec

-----------------------------------------------------------------------------

\* Induction.
LEMMA Ind ==
    ASSUME NEW P, 0 \in P, \A n \in Nat : n \in P => n + 1 \in P
    PROVE  Nat \subseteq P
  <1> SUFFICES ASSUME NEW m \in Nat, m \notin P PROVE FALSE
    OBVIOUS
  <1> DEFINE B == {n \in Nat : n \notin P}
  <1>1. PICK n \in B : \A y \in B : <<y, n>> \notin OpToRel(<, Nat)
    <2>1. B \subseteq Nat /\ B # {}
      OBVIOUS
    <2>2. IsWellFoundedOn(OpToRel(<, Nat), Nat)
      BY NatLessThanWellFounded
    <2> HIDE DEF B
    <2>3. QED
      BY <2>1, <2>2, WFMin
  <1>2. \A y \in Nat : y < n => y \in P
    BY <1>1 DEF OpToRel
  <1>3. n # 0
    OBVIOUS
  <1>4. n - 1 \in P /\ n - 1 \in Nat /\ n = (n - 1) + 1
    BY <1>2, <1>3, SMTT(60)
  <1>5. QED
    BY <1>4

\* What holds before a loop and is kept by each turn holds after any number of turns.
LEMMA Turns ==
    ASSUME NEW M \in Nat, NEW P, 0 \in P, \A n \in 1 .. M : n - 1 \in P => n \in P
    PROVE  \A n \in 0 .. M : n \in P
  <1> DEFINE Q == {n \in Nat : n <= M => n \in P}
  <1>1. 0 \in Q
    OBVIOUS
  <1>2. ASSUME NEW n \in Nat, n \in Q PROVE n + 1 \in Q
    BY <1>2, SMTT(60)
  <1> HIDE DEF Q
  <1>3. Nat \subseteq Q
    BY <1>1, <1>2, Ind
  <1>4. QED
    BY <1>3, SMTT(60) DEF Q

\* The values of a loop: its body is F, and it starts with x.
Runs(M, S, x, F) ==
    \E h \in [0 .. M -> S] : h[0] = x /\ \A n \in 1 .. M : h[n] = F[n][h[n - 1]]

\* A loop has values: one for each of its turns.
LEMMA Loop ==
    ASSUME NEW M \in Nat, NEW S, NEW x \in S, NEW F \in [1 .. M -> [S -> S]]
    PROVE  Runs(M, S, x, F)
  <1> DEFINE Ok(j, h) == h[0] = x /\ \A n \in 1 .. j : h[n] = F[n][h[n - 1]]
             P == {j \in 0 .. M : \E h \in [0 .. j -> S] : Ok(j, h)}
  <1>1. 0 \in P
    <2> DEFINE h == [n \in 0 .. 0 |-> x]
    <2>1. h \in [0 .. 0 -> S] /\ Ok(0, h)
      BY SMTT(60)
    <2>2. 0 \in 0 .. M
      BY SMTT(60)
    <2> HIDE DEF h, Ok
    <2>3. QED
      BY <2>1, <2>2
  <1>2. ASSUME NEW j \in 1 .. M, j - 1 \in P PROVE j \in P
    <2>1. PICK h \in [0 .. j - 1 -> S] : Ok(j - 1, h)
      BY <1>2
    <2> DEFINE g == [n \in 0 .. j |-> IF n = j THEN F[j][h[j - 1]] ELSE h[n]]
    <2>2. g \in [0 .. j -> S] /\ j \in 0 .. M
      BY SMTT(60)
    <2>3. Ok(j, g)
      BY <2>1, SMTT(60)
    <2> HIDE DEF g, Ok
    <2>4. QED
      BY <2>2, <2>3
  <1> HIDE DEF P
  <1>3. \A j \in 0 .. M : j \in P
    BY <1>1, <1>2, Turns
  <1>4. M \in P
    BY <1>3, SMTT(60)
  <1>5. QED
    BY <1>4 DEF P, Runs

-----------------------------------------------------------------------------

\* The loop of CheckPutConcurrent.
SumRuns(f) ==
    \E h \in [0 .. nclnt -> Nat] :
        /\ h[0] = 0 /\ \A n \in 1 .. nclnt : h[n] = h[n - 1] + f[n - 1]
        /\ Sum(f) = h[nclnt]

\* The values of the loop.
LEMMA SumTurns ==
    ASSUME NEW f \in [Client -> Nat]
    PROVE  SumRuns(f)
  <1> DEFINE F == [n \in 1 .. nclnt |-> [m \in Nat |-> m + f[n - 1]]]
             Is(s) == s = [n \in 0 .. nclnt |-> IF n = 0 THEN 0 ELSE s[n - 1] + f[n - 1]]
  <1>0. nclnt \in Nat
    BY KVTestAssumption
  <1>1. F \in [1 .. nclnt -> [Nat -> Nat]]
    <2>1. ASSUME NEW n \in 1 .. nclnt, NEW m \in Nat PROVE m + f[n - 1] \in Nat
      BY <1>0, SMTT(60) DEF Client
    <2>2. QED
      BY <2>1
  <1>2. PICK h \in [0 .. nclnt -> Nat] : h[0] = 0 /\ \A n \in 1 .. nclnt : h[n] = F[n][h[n - 1]]
    <2>1. 0 \in Nat
      BY SMTT(60)
    <2> HIDE DEF F
    <2>2. Runs(nclnt, Nat, 0, F)
      BY <1>0, <1>1, <2>1, Loop
    <2>3. QED
      BY <2>2 DEF Runs
  <1>3. \A n \in 1 .. nclnt : h[n] = h[n - 1] + f[n - 1]
    <2>1. \A n \in 1 .. nclnt : n - 1 \in 0 .. nclnt
      BY <1>0, SMTT(60)
    <2>2. QED
      BY <1>2, <2>1
  <1>4. Is(h)
    BY <1>0, <1>2, <1>3, SMTT(60)
  <1> HIDE DEF F
  <1>5. DEFINE g == CHOOSE s : Is(s)
  <1>6. Is(g)
    BY <1>4
  <1>7. Sum(f) = g[nclnt]
    BY DEF Sum
  <1> HIDE DEF g
  <1>8. \A n \in 0 .. nclnt : g[n] = h[n]
    <2> DEFINE P == {n \in 0 .. nclnt : g[n] = h[n]}
    <2>1. 0 \in P
      BY <1>0, <1>2, <1>6, SMTT(60)
    <2>2. ASSUME NEW n \in 1 .. nclnt, n - 1 \in P PROVE n \in P
      BY <1>0, <1>3, <1>6, <2>2, SMTT(60)
    <2> HIDE DEF P
    <2>3. \A n \in 0 .. nclnt : n \in P
      BY <1>0, <2>1, <2>2, Turns
    <2>4. QED
      BY <2>3 DEF P
  <1>9. Sum(f) = h[nclnt]
    BY <1>0, <1>7, <1>8, SMTT(60)
  <1>10. QED
    BY <1>2, <1>3, <1>9 DEF SumRuns

\* A sum is a number.
LEMMA SumType ==
    ASSUME NEW f \in [Client -> Nat]
    PROVE  Sum(f) \in Nat
  <1>1. PICK h \in [0 .. nclnt -> Nat] :
            /\ h[0] = 0 /\ \A n \in 1 .. nclnt : h[n] = h[n - 1] + f[n - 1]
            /\ Sum(f) = h[nclnt]
    BY SumTurns DEF SumRuns
  <1>2. nclnt \in 0 .. nclnt
    BY KVTestAssumption, SMTT(60)
  <1>3. QED
    BY <1>1, <1>2

\* One client's number goes up by one, and so does the sum.
LEMMA SumUp ==
    ASSUME NEW f \in [Client -> Nat], NEW g \in [Client -> Nat], NEW c \in Client,
           g[c] = f[c] + 1, \A d \in Client : d # c => g[d] = f[d]
    PROVE  Sum(g) = Sum(f) + 1
  <1>0. nclnt \in Nat
    BY KVTestAssumption
  <1>1. PICK h \in [0 .. nclnt -> Nat] :
            /\ h[0] = 0 /\ \A n \in 1 .. nclnt : h[n] = h[n - 1] + f[n - 1]
            /\ Sum(f) = h[nclnt]
    BY SumTurns DEF SumRuns
  <1>2. PICK e \in [0 .. nclnt -> Nat] :
            /\ e[0] = 0 /\ \A n \in 1 .. nclnt : e[n] = e[n - 1] + g[n - 1]
            /\ Sum(g) = e[nclnt]
    BY SumTurns DEF SumRuns
  <1> DEFINE P == {n \in 0 .. nclnt : e[n] = h[n] + (IF c < n THEN 1 ELSE 0)}
  <1>3. c \in Nat /\ c < nclnt
    BY <1>0, SMTT(60) DEF Client
  <1>4. 0 \in P
    BY <1>0, <1>1, <1>2, <1>3, SMTT(60)
  <1>5. ASSUME NEW n \in 1 .. nclnt, n - 1 \in P PROVE n \in P
    <2>1. n - 1 \in Client /\ n \in 0 .. nclnt /\ n - 1 \in 0 .. nclnt
      BY <1>0, SMTT(60) DEF Client
    <2>2. /\ h[n] = h[n - 1] + f[n - 1] /\ e[n] = e[n - 1] + g[n - 1]
          /\ e[n - 1] = h[n - 1] + (IF c < n - 1 THEN 1 ELSE 0)
      BY <1>1, <1>2, <1>5
    <2>3. g[n - 1] = IF c = n - 1 THEN f[n - 1] + 1 ELSE f[n - 1]
      BY <2>1
    <2>4. h[n - 1] \in Nat /\ f[n - 1] \in Nat
      BY <2>1
    <2>5. e[n] = h[n] + (IF c < n THEN 1 ELSE 0)
      <3>1. CASE c = n - 1
        BY ONLY <1>3, <2>2, <2>3, <2>4, <3>1, n \in 1 .. nclnt, SMTT(60)
      <3>2. CASE c < n - 1
        BY ONLY <1>3, <2>2, <2>3, <2>4, <3>2, n \in 1 .. nclnt, SMTT(60)
      <3>3. CASE c > n - 1
        BY ONLY <1>3, <2>2, <2>3, <2>4, <3>3, n \in 1 .. nclnt, SMTT(60)
      <3>4. QED
        BY ONLY <1>0, <1>3, <3>1, <3>2, <3>3, n \in 1 .. nclnt, SMTT(60)
    <2>6. QED
      BY <2>1, <2>5
  <1> HIDE DEF P
  <1>6. \A n \in 0 .. nclnt : n \in P
    BY <1>0, <1>4, <1>5, Turns
  <1>7. nclnt \in 0 .. nclnt
    BY <1>0, SMTT(60)
  <1>8. e[nclnt] = h[nclnt] + (IF c < nclnt THEN 1 ELSE 0)
    BY <1>6, <1>7 DEF P
  <1>9. QED
    BY <1>1, <1>2, <1>3, <1>8

\* Sums are added by client.
LEMMA SumPlus ==
    ASSUME NEW f \in [Client -> Nat], NEW a \in [Client -> Nat], NEW b \in [Client -> Nat],
           \A c \in Client : f[c] = a[c] + b[c]
    PROVE  Sum(f) = Sum(a) + Sum(b)
  <1>0. nclnt \in Nat
    BY KVTestAssumption
  <1>1. PICK h \in [0 .. nclnt -> Nat] :
            /\ h[0] = 0 /\ \A n \in 1 .. nclnt : h[n] = h[n - 1] + f[n - 1]
            /\ Sum(f) = h[nclnt]
    BY SumTurns DEF SumRuns
  <1>2. PICK p \in [0 .. nclnt -> Nat] :
            /\ p[0] = 0 /\ \A n \in 1 .. nclnt : p[n] = p[n - 1] + a[n - 1]
            /\ Sum(a) = p[nclnt]
    BY SumTurns DEF SumRuns
  <1>3. PICK q \in [0 .. nclnt -> Nat] :
            /\ q[0] = 0 /\ \A n \in 1 .. nclnt : q[n] = q[n - 1] + b[n - 1]
            /\ Sum(b) = q[nclnt]
    BY SumTurns DEF SumRuns
  <1> DEFINE P == {n \in 0 .. nclnt : h[n] = p[n] + q[n]}
  <1>4. 0 \in P
    BY <1>0, <1>1, <1>2, <1>3, SMTT(60)
  <1>5. ASSUME NEW n \in 1 .. nclnt, n - 1 \in P PROVE n \in P
    <2>1. n - 1 \in Client /\ n \in 0 .. nclnt /\ n - 1 \in 0 .. nclnt
      BY <1>0, SMTT(60) DEF Client
    <2>2. /\ h[n] = h[n - 1] + f[n - 1] /\ p[n] = p[n - 1] + a[n - 1]
          /\ q[n] = q[n - 1] + b[n - 1] /\ h[n - 1] = p[n - 1] + q[n - 1]
      BY <1>1, <1>2, <1>3, <1>5
    <2>3. /\ f[n - 1] = a[n - 1] + b[n - 1] /\ a[n - 1] \in Nat /\ b[n - 1] \in Nat
          /\ p[n - 1] \in Nat /\ q[n - 1] \in Nat
      BY <2>1
    <2>4. h[n] = p[n] + q[n]
      BY <2>2, <2>3, SMTT(60)
    <2>5. QED
      BY <2>1, <2>4
  <1> HIDE DEF P
  <1>6. \A n \in 0 .. nclnt : n \in P
    BY <1>0, <1>4, <1>5, Turns
  <1>7. nclnt \in 0 .. nclnt
    BY <1>0, SMTT(60)
  <1>8. QED
    BY <1>1, <1>2, <1>3, <1>6, <1>7 DEF P

-----------------------------------------------------------------------------

(***************************************************************************)
(* OneClientPut.  A Put that the store accepted is counted by its client   *)
(* in the end, as OK or as ErrMaybe; until then it is decided.  So the     *)
(* version of the key is the number of Puts counted and decided, or less   *)
(* where an ErrMaybe stood for a Put that was refused.                     *)
(***************************************************************************)
Landed(c) == pc[c] = "put" /\ phase[c] = "pending" /\ seen[c].err = KV!OK

Decided(c) == Landed(c) \/ (pc[c] = "get" /\ err[c] \in {KV!OK, KV!ErrMaybe})

Weight(c) == res[c].Nok + res[c].Nmaybe + (IF Decided(c) THEN 1 ELSE 0)

Weights == [c \in Client |-> Weight(c)]

Counted ==
    /\ st[k].version <= Sum(Weights)
    /\ reliable => st[k].version = Sum(Weights)

\* The value that came with a version is that of the Put at the version before.
Matches(s) == s.version > 0 => s.value[1].V = s.version - 1

PutOf(c) ==
    /\ pc[c] = "get" => err[c] \in {KV!OK, KV!ErrVersion, KV!ErrMaybe}
    /\ iter[c] > 0 => st[k].version > 0
    /\ phase[c] = "pending" /\ pc[c] = "put" => input[c].value[1].V = ver[c]
    /\ phase[c] = "pending" /\ pc[c] = "get" /\ seen[c] # KV!NoReply => Matches(seen[c])
    /\ reliable => res[c].Nmaybe = 0 /\ ~(pc[c] = "get" /\ err[c] = KV!ErrMaybe)

Puts ==
    workload = "put" => Counted /\ Matches(st[k]) /\ \A c \in Client : PutOf(c)

\* A step of c that counts for as much as the version grows by, or for one more.
Weighs(c) ==
    /\ \A d \in Client : d # c => Weight(d)' = Weight(d)
    /\ \/ UNCHANGED <<st[k].version, Weight(c)>>
       \/ st'[k].version = st[k].version + 1 /\ Weight(c)' = Weight(c) + 1
       \/ ~reliable /\ st'[k].version = st[k].version /\ Weight(c)' = Weight(c) + 1

\* Weights are numbers.
LEMMA WeightType == Typed => Weights \in [Client -> Nat]
  <1> SUFFICES ASSUME Typed, NEW c \in Client PROVE Weight(c) \in Nat
    BY DEF Weights
  <1>1. res[c] \in Results
    BY DEF Typed
  <1>2. QED
    BY <1>1, SMTT(60) DEF Results, Weight

\* The counts and the version move together.
LEMMA CountedKept ==
    ASSUME Typed, Typed', st[k].version \in Nat, Counted, reliable' = reliable,
           NEW c \in Client, Weighs(c)
    PROVE  Counted'
  <1> DEFINE f == Weights
             g == Weights'
  <1>0. (Typed => Weights \in [Client -> Nat])'
    BY WeightType, PTL
  <1>1. f \in [Client -> Nat] /\ g \in [Client -> Nat]
    BY <1>0, WeightType
  <1>2. \A d \in Client : f[d] = Weight(d) /\ g[d] = Weight(d)'
    BY DEF Weights
  <1>3. Sum(f) \in Nat
    <2> HIDE DEF f
    <2>1. QED
      BY <1>1, SumType
  <1>4. CASE UNCHANGED <<st[k].version, Weight(c)>>
    <2>1. \A d \in Client : g[d] = f[d]
      BY <1>2, <1>4 DEF Weighs
    <2>2. g = f
      BY <2>1 DEF Weights
    <2>3. Sum(Weights)' = Sum(Weights)
      BY <2>2 DEF Sum
    <2>4. QED
      BY <1>4, <2>3 DEF Counted
  <1>5. CASE Weight(c)' = Weight(c) + 1
    <2>1. g[c] = f[c] + 1 /\ \A d \in Client : d # c => g[d] = f[d]
      BY <1>2, <1>5 DEF Weighs
    <2>2. Sum(g) = Sum(f) + 1
      <3> HIDE DEF f, g
      <3>1. QED
        BY <1>1, <2>1, SumUp
    <2>3. Sum(Weights)' = Sum(Weights) + 1
      BY <2>2 DEF Sum
    <2>4. \/ UNCHANGED <<st[k].version, Weight(c)>>
          \/ st'[k].version = st[k].version + 1
          \/ ~reliable /\ st'[k].version = st[k].version
      BY DEF Weighs
    <2> HIDE DEF f, g
    <2>5. CASE st'[k].version = st[k].version + 1
      <3>1. st[k].version <= Sum(Weights) => st'[k].version <= Sum(Weights)'
        BY <1>3, <2>3, <2>5, SMTT(60) DEF f
      <3>2. st[k].version = Sum(Weights) => st'[k].version = Sum(Weights)'
        BY <2>3, <2>5
      <3>3. QED
        BY <3>1, <3>2 DEF Counted
    <2>6. CASE ~reliable /\ st'[k].version = st[k].version
      <3>1. st[k].version <= Sum(Weights) => st'[k].version <= Sum(Weights)'
        BY <1>3, <2>3, <2>6, SMTT(60) DEF f
      <3>2. QED
        BY <2>6, <3>1 DEF Counted
    <2>7. QED
      BY <1>4, <2>4, <2>5, <2>6
  <1>6. QED
    BY <1>4, <1>5 DEF Weighs

\* What counts for d is in its results and in whether its Put is decided.
LEMMA WeightSame ==
    ASSUME NEW d, res'[d] = res[d], Decided(d)' <=> Decided(d)
    PROVE  Weight(d)' = Weight(d)
  BY DEF Weight

\* What c does leaves the state of d as it is.
Apart(d) ==
    /\ pc'[d] = pc[d] /\ phase'[d] = phase[d] /\ seen'[d] = seen[d] /\ input'[d] = input[d]
    /\ ver'[d] = ver[d] /\ err'[d] = err[d] /\ iter'[d] = iter[d] /\ res'[d] = res[d]
    /\ es'[d] = es[d]

\* A client that does not step keeps what holds of it.
LEMMA PutOfKept ==
    ASSUME NEW d, Apart(d), PutOf(d), reliable' = reliable, st[k].version \in Nat,
           st'[k].version \in Nat, st[k].version <= st'[k].version
    PROVE  PutOf(d)' /\ Weight(d)' = Weight(d)
  <1>1. st[k].version > 0 => st'[k].version > 0
    BY SMTT(60)
  <1>2. PutOf(d)'
    BY <1>1 DEF Apart, PutOf, Matches
  <1>3. Decided(d)' <=> Decided(d)
    BY DEF Apart, Decided, Landed
  <1>4. QED
    BY <1>2, <1>3, WeightSame DEF Apart

\* The pieces of Puts', when c has stepped.
LEMMA PutsFrom ==
    ASSUME Inv, Inv', Base, Base', Puts, workload = "put", UNCHANGED <<workload, reliable>>,
           NEW c \in Client, \A d \in Client : d # c => Apart(d),
           st[k].version <= st'[k].version, Matches(st'[k]), PutOf(c)',
           \/ UNCHANGED <<st[k].version, Weight(c)>>
           \/ st'[k].version = st[k].version + 1 /\ Weight(c)' = Weight(c) + 1
           \/ ~reliable /\ st'[k].version = st[k].version /\ Weight(c)' = Weight(c) + 1
    PROVE  Puts'
  <1>0. st[k].version \in Nat /\ st'[k].version \in Nat /\ Typed /\ Typed' /\ Counted
    BY DEF Inv, Types, Base, Puts
  <1>1. \A d \in Client : d # c => PutOf(d)' /\ Weight(d)' = Weight(d)
    BY <1>0, PutOfKept DEF Puts
  <1>2. Weighs(c)
    BY <1>1 DEF Weighs
  <1>3. Counted'
    BY <1>0, <1>2, CountedKept
  <1>4. \A d \in Client : PutOf(d)'
    BY <1>1
  <1>5. QED
    BY <1>3, <1>4 DEF Puts, Matches

\* A client leaves the top of its loop: nothing is decided.
LEMMA PutTop ==
    ASSUME Inv, Inv', Base, Base', Puts, workload = "put", NEW c \in Client,
           ReceiveDone(c) \/ Default(c)
    PROVE  Puts'
  <1>1. /\ UNCHANGED <<kvVars, workload, reliable, ver, es, err, iter, res>>
        /\ pc[c] = "top" /\ phase[c] # "pending"
        /\ \E l \in {"put", "returned"} : pc' = [pc EXCEPT ![c] = l]
    BY DEF ReceiveDone, Default, mainVars, Inv, Pending, CallAtPc
  <1>2. pc'[c] \in {"put", "returned"} /\ \A d \in Client : d # c => Apart(d)
    BY <1>1 DEF Inv, Types, Apart, kvVars
  <1>3. PutOf(c)'
    BY <1>1, <1>2 DEF Puts, PutOf, kvVars
  <1>4. Weight(c)' = Weight(c)
    <2>1. Decided(c)' <=> Decided(c)
      BY <1>1, <1>2 DEF Decided, Landed, kvVars
    <2>2. QED
      BY <1>1, <2>1, WeightSame
  <1>5. st' = st /\ Matches(st'[k]) /\ st[k].version <= st'[k].version
    <2>1. st' = st /\ st[k].version \in Nat
      BY <1>1 DEF kvVars, Inv, Types
    <2>2. QED
      BY <2>1, SMTT(60) DEF Puts, Matches
  <1>6. QED
    BY <1>1, <1>2, <1>3, <1>4, <1>5, PutsFrom

\* A call is sent: a Put carries the version that it is made with (OnePut).
LEMMA PutCall ==
    ASSUME Inv, Inv', Base, Base', Puts, workload = "put", NEW c \in Client, Call(c)
    PROVE  Puts'
  <1>1. /\ UNCHANGED <<st, mainVars, clientVars>> /\ phase[c] = "idle"
        /\ phase' = [phase EXCEPT ![c] = "pending"]
        /\ input' = [input EXCEPT ![c] = Request(c)]
        /\ seen' = [seen EXCEPT ![c] = KV!NoReply]
    BY DEF Call, KV!Invoke
  <1>2. \A d \in Client : d # c => Apart(d)
    BY <1>1 DEF Inv, Types, Apart, clientVars
  <1>3. phase'[c] = "pending" /\ seen'[c] = KV!NoReply /\ input'[c] = Request(c)
    BY <1>1 DEF Inv, Types
  <1>4. pc[c] = "put" => input'[c].value[1].V = ver[c]
    <2>0. pc[c] = "put" => Request(c).value = <<[Id |-> c, V |-> ver[c]]>>
      BY DEF Request
    <2>1. pc[c] = "put" => input'[c].value = <<[Id |-> c, V |-> ver[c]]>>
      BY <1>3, <2>0
    <2>2. <<[Id |-> c, V |-> ver[c]]>>[1].V = ver[c]
      BY SMTT(60)
    <2>3. QED
      BY <2>1, <2>2, SMTT(60)
  <1>5. PutOf(c)'
    BY <1>1, <1>3, <1>4 DEF Puts, PutOf, clientVars, mainVars
  <1>6. Weight(c)' = Weight(c)
    <2>0. KV!NoReply.err # KV!OK
      BY DEF KV!NoReply, KV!OK
    <2>1. seen'[c].err # KV!OK
      BY <1>3, <2>0
    <2>2. Decided(c)' <=> Decided(c)
      BY <1>1, <2>1 DEF Decided, Landed, clientVars
    <2>3. QED
      BY <1>1, <2>2, WeightSame DEF clientVars
  <1>7. st' = st /\ Matches(st'[k]) /\ st[k].version <= st'[k].version
    <2>1. st' = st /\ st[k].version \in Nat
      BY <1>1 DEF Inv, Types
    <2>2. QED
      BY <2>1, SMTT(60) DEF Puts, Matches
  <1>8. QED
    BY <1>1, <1>2, <1>5, <1>6, <1>7, PutsFrom DEF mainVars

\* The store's part: a Put that is accepted is decided.
LEMMA PutEffect ==
    ASSUME Inv, Inv', Base, Base', Puts, workload = "put", NEW c \in Client, Effect(c)
    PROVE  Puts'
  <1>0. /\ UNCHANGED <<phase, input, mainVars, clientVars, fatal>> /\ phase[c] = "pending"
        /\ \A d \in Client : d # c => seen'[d] = seen[d]
        /\ Reads(c) \/ Writes(c) \/ Refuses(c)
    BY EffectIs
  <1>1. UNCHANGED <<workload, reliable>> /\ \A d \in Client : d # c => Apart(d)
    BY <1>0 DEF Apart, mainVars, clientVars
  <1>2. st[k].version \in Nat /\ ver[c] \in Nat /\ PutOf(c) /\ Matches(st[k])
    BY DEF Inv, Types, Puts
  <1>3. CASE UNCHANGED st
    <2>1. Matches(st'[k]) /\ st[k].version <= st'[k].version
      BY <1>2, <1>3, SMTT(60) DEF Matches
    <2>2. PutOf(c)'
      <3>1. Reads(c) => Matches(seen'[c])
        BY <1>2 DEF Reads, Matches
      <3>2. pc[c] = "get" => Matches(seen'[c])
        BY <1>0, <3>1 DEF Writes, Refuses
      <3>3. QED
        BY <1>0, <1>1, <1>2, <1>3, <3>2 DEF PutOf, clientVars, Matches
    <2>3. Weight(c)' = Weight(c)
      <3>1. ~Writes(c)
        BY <1>2, <1>3, SMTT(60) DEF Writes
      <3>2. pc[c] = "get" \/ (seen[c].err # KV!OK /\ seen'[c].err # KV!OK)
        BY <1>0, <3>1 DEF Reads, Refuses, KV!OK, KV!ErrVersion
      <3>3. Decided(c)' <=> Decided(c)
        BY <1>0, <3>2 DEF Decided, Landed, clientVars
      <3>4. QED
        BY <1>0, <3>3, WeightSame DEF clientVars
    <2>4. QED
      BY <1>1, <1>3, <2>1, <2>2, <2>3, PutsFrom
  <1>4. CASE Writes(c)
    <2>1. /\ pc[c] = "put" /\ st[k].version = ver[c] /\ st'[k].version = ver[c] + 1
          /\ st'[k].value = input[c].value /\ input[c].value[1].V = ver[c]
      BY <1>0, <1>2, <1>4 DEF Writes, PutOf
    <2>2. /\ st'[k].version = st[k].version + 1 /\ st[k].version <= st'[k].version
          /\ st'[k].version > 0 /\ st'[k].version - 1 = ver[c]
      BY <1>2, <2>1, SMTT(60)
    <2>3. Matches(st'[k])
      BY <2>1, <2>2 DEF Matches
    <2>4. PutOf(c)'
      BY <1>0, <1>1, <1>2, <2>1, <2>2 DEF PutOf, clientVars, Matches
    <2>5. Weight(c)' = Weight(c) + 1
      <3>1. ~Decided(c) /\ Decided(c)' /\ res'[c] = res[c]
        BY <1>0, <1>4 DEF Decided, Landed, Writes, clientVars
      <3>2. res[c] \in Results
        BY DEF Base, Typed
      <3>3. QED
        BY <3>1, <3>2, SMTT(60) DEF Weight, Results
    <2>6. QED
      BY <1>1, <2>2, <2>3, <2>4, <2>5, PutsFrom
  <1>5. QED
    BY <1>0, <1>3, <1>4 DEF Reads, Refuses

\* OnePut's Put returns: no error is a wrong one, and what was decided stays so
\* (kvtest.go:186-189).
LEMMA PutDone ==
    ASSUME Inv, Inv', Base, Base', Puts, workload = "put", NEW c \in Client, NEW out,
           Returned(c, out), OnePutDone(c, out)
    PROVE  Puts' /\ fatal' = ""
  <1>1. /\ phase[c] = "pending" /\ pc[c] = "put" /\ seen[c].err \in {KV!OK, KV!ErrVersion}
        /\ out.err \in {seen[c].err, KV!ErrMaybe} /\ (reliable => out.err = seen[c].err)
        /\ phase' = [phase EXCEPT ![c] = "idle"] /\ UNCHANGED <<st, input, seen, mainVars>>
    BY DEF Returned, OnePutDone, Returns, Answers
  <1>2. /\ err' = [err EXCEPT ![c] = out.err] /\ pc' = [pc EXCEPT ![c] = "get"]
        /\ UNCHANGED <<ver, es, iter, res>>
        /\ fatal' = IF out.err \in {KV!OK, KV!ErrVersion, KV!ErrMaybe} THEN "" ELSE "wrong error"
    BY DEF OnePutDone, Goto
  <1>3. out.err \in {KV!OK, KV!ErrVersion, KV!ErrMaybe}
    BY <1>1
  <1>4. pc'[c] = "get" /\ err'[c] = out.err /\ phase'[c] = "idle"
    BY <1>1, <1>2 DEF Inv, Types, Base, Typed
  <1>5. \A d \in Client : d # c => Apart(d)
    BY <1>1, <1>2 DEF Apart, Inv, Types, Base, Typed
  <1>6. UNCHANGED <<workload, reliable>> /\ Matches(st'[k]) /\ st[k].version <= st'[k].version
    <2>1. st' = st /\ st[k].version \in Nat /\ UNCHANGED <<workload, reliable>>
      BY <1>1 DEF mainVars, Inv, Types
    <2>2. QED
      BY <2>1, SMTT(60) DEF Puts, Matches
  <1>7. PutOf(c)'
    <2>1. reliable => out.err # KV!ErrMaybe
      BY <1>1 DEF KV!OK, KV!ErrVersion, KV!ErrMaybe
    <2>2. QED
      BY <1>1, <1>2, <1>3, <1>4, <1>6, <2>1 DEF Puts, PutOf
  <1>8. Weight(c)' = Weight(c) \/ (~reliable /\ Weight(c)' = Weight(c) + 1)
    <2>1. Decided(c) <=> seen[c].err = KV!OK
      BY <1>1 DEF Decided, Landed
    <2>2. Decided(c)' <=> out.err \in {KV!OK, KV!ErrMaybe}
      BY <1>4 DEF Decided, Landed
    <2>3. CASE Decided(c)' <=> Decided(c)
      BY <1>2, <2>3, WeightSame
    <2>4. CASE ~Decided(c) /\ Decided(c)'
      <3>1. ~reliable
        BY <1>1, <2>1, <2>2, <2>4 DEF KV!ErrVersion, KV!ErrMaybe, KV!OK
      <3>2. res[c] \in Results
        BY DEF Base, Typed
      <3>3. /\ Weight(c) = res[c].Nok + res[c].Nmaybe + 0
            /\ Weight(c)' = res[c].Nok + res[c].Nmaybe + 1
        BY <1>2, <2>4 DEF Weight
      <3>4. res[c].Nok \in Nat /\ res[c].Nmaybe \in Nat
        BY <3>2, SMTT(60) DEF Results
      <3>5. Weight(c)' = Weight(c) + 1
        BY <3>3, <3>4, SMTT(60)
      <3>6. QED
        BY <3>1, <3>5
    <2>5. Decided(c) => Decided(c)'
      BY <1>1, <2>1, <2>2
    <2>6. QED
      BY <2>3, <2>4, <2>5
  <1>9. QED
    BY <1>1, <1>2, <1>3, <1>5, <1>6, <1>7, <1>8, PutsFrom

\* OnePut's Get returns: the value is that of the Put at the version before, and what was
\* decided is counted (kvtest.go:190-203).
LEMMA PutGot ==
    ASSUME Inv, Inv', Base, Base', Puts, workload = "put", NEW c \in Client, NEW out,
           Returned(c, out), OnePutGot(c, out)
    PROVE  Puts' /\ fatal' = ""
  <1>1. /\ phase[c] = "pending" /\ pc[c] = "get" /\ out = seen[c] /\ out.err = KV!OK
        /\ phase' = [phase EXCEPT ![c] = "idle"] /\ UNCHANGED <<st, input, seen, mainVars>>
    BY DEF Returned, OnePutGot, Returns
  <1>2. /\ ver' = [ver EXCEPT ![c] = out.version] /\ UNCHANGED <<es, err>>
        /\ \/ err[c] \in {KV!OK, KV!ErrMaybe} /\ Count(c, err[c])
           \/ err[c] = KV!ErrVersion /\ pc' = [pc EXCEPT ![c] = "put"] /\ UNCHANGED <<iter, res>>
    BY DEF OnePutGot, Goto
  <1>3. PutOf(c) /\ st[k].version > 0 /\ seen[c] # KV!NoReply /\ Typed /\ res[c] \in Results
    BY <1>1 DEF Puts, Base, Answered, Returned, OnePutGot, Returns, KV!Respond, Typed
  <1>4. fatal' = ""
    <2>1. Matches(out) /\ out.version \in Nat /\ ver[c] \in Nat
      BY <1>1, <1>3 DEF PutOf, Returned, CallAtPc, Bounded, Inv, Types
    <2>2. ASSUME out.version = ver[c] + 1 PROVE out.value[1].V = ver[c]
      <3>1. out.version > 0 /\ out.version - 1 = ver[c]
        BY <2>1, <2>2, SMTT(60)
      <3>2. QED
        BY <2>1, <3>1 DEF Matches
    <2>3. QED
      BY <1>1, <2>2 DEF OnePutGot
  <1>5. /\ phase'[c] = "idle" /\ pc'[c] \in {"top", "put"}
        /\ \A d \in Client : d # c => Apart(d)
    <2>1. \A d \in Client : d # c => iter'[d] = iter[d] /\ res'[d] = res[d]
      BY <1>2, <1>3, CountIs
    <2>2. \E l \in {"top", "put"} : pc' = [pc EXCEPT ![c] = l]
      BY <1>2 DEF Count, Goto
    <2>3. /\ phase'[c] = "idle" /\ pc'[c] \in {"top", "put"}
          /\ \A d \in Client : d # c => pc'[d] = pc[d] /\ phase'[d] = phase[d]
      BY <1>1, <2>2 DEF Inv, Types
    <2>4. \A d \in Client : d # c => ver'[d] = ver[d]
      BY <1>2 DEF Inv, Types
    <2>5. QED
      BY <1>1, <1>2, <2>1, <2>3, <2>4 DEF Apart
  <1>6. UNCHANGED <<workload, reliable>> /\ Matches(st'[k]) /\ st[k].version <= st'[k].version
    <2>1. st' = st /\ st[k].version \in Nat /\ UNCHANGED <<workload, reliable>>
      BY <1>1 DEF mainVars, Inv, Types
    <2>2. QED
      BY <2>1, SMTT(60) DEF Puts, Matches
  <1>7. ~Decided(c)' /\ (Decided(c) <=> err[c] \in {KV!OK, KV!ErrMaybe})
    BY <1>1, <1>5 DEF Decided, Landed
  <1>8. CASE err[c] \in {KV!OK, KV!ErrMaybe} /\ Count(c, err[c])
    <2>1. /\ err[c] = KV!OK => res'[c].Nok = res[c].Nok + 1 /\ res'[c].Nmaybe = res[c].Nmaybe
          /\ err[c] # KV!OK => res'[c].Nok = res[c].Nok /\ res'[c].Nmaybe = res[c].Nmaybe + 1
      BY <1>3, <1>8, CountIs
    <2>2. Weight(c)' = Weight(c)
      <3>1. res'[c].Nok + res'[c].Nmaybe = res[c].Nok + res[c].Nmaybe + 1
        BY <1>3, <2>1, SMTT(60) DEF Results
      <3>2. Weight(c) = res[c].Nok + res[c].Nmaybe + 1
        BY <1>7, <1>8 DEF Weight
      <3>3. Weight(c)' = res'[c].Nok + res'[c].Nmaybe + 0
        BY <1>7 DEF Weight
      <3>4. res[c].Nok \in Nat /\ res[c].Nmaybe \in Nat
        BY <1>3, SMTT(60) DEF Results
      <3>5. QED
        BY <3>1, <3>2, <3>3, <3>4, SMTT(60)
    <2>3. PutOf(c)'
      BY <1>1, <1>3, <1>5, <1>6, <1>8, <2>1 DEF PutOf
    <2>4. QED
      BY <1>1, <1>4, <1>5, <1>6, <2>2, <2>3, PutsFrom
  <1>9. CASE err[c] = KV!ErrVersion /\ UNCHANGED <<iter, res>>
    <2>1. ~Decided(c)
      BY <1>7, <1>9 DEF KV!OK, KV!ErrVersion, KV!ErrMaybe
    <2>2. Weight(c)' = Weight(c)
      BY <1>7, <1>9, <2>1, WeightSame
    <2>3. PutOf(c)'
      BY <1>1, <1>3, <1>5, <1>6, <1>9 DEF PutOf
    <2>4. QED
      BY <1>1, <1>4, <1>5, <1>6, <2>2, <2>3, PutsFrom
  <1>10. QED
    BY <1>2, <1>8, <1>9

\* The Sleep was long enough for an iteration (SleepOver), and iterations stay counted.
Started == main # "sleep" => \E c \in Client : iter[c] > 0

\* Every reachable state satisfies it.
LEMMA StartedAlways == Spec => []Started
  <1>1. Init => Started
    BY DEF Init, Started
  <1>2. Base /\ Started /\ [Next]_vars => Started'
    <2> SUFFICES ASSUME Base, Started, [Next]_vars PROVE Started'
      OBVIOUS
    <2>1. CASE UNCHANGED iter /\ (main = "sleep" => UNCHANGED main)
      BY <2>1 DEF Started
    <2>2. ASSUME NEW c \in Client, NEW e, Count(c, e) PROVE Started'
      <3>1. iter[c] \in Nat /\ iter'[c] = iter[c] + 1
        BY <2>2, CountIs DEF Base, Typed
      <3>2. iter'[c] > 0
        BY <3>1, SMTT(60)
      <3>3. QED
        BY <3>2 DEF Started
    <2>3. CASE SleepOver
      BY <2>3 DEF SleepOver, Started, clientVars
    <2>4. ASSUME NEW c \in Client, CallReturns(c)
          PROVE  (UNCHANGED iter /\ UNCHANGED main) \/ \E e : Count(c, e)
      BY <2>4 DEF CallReturns, OnePutDone, OnePutGot, AppendGot, AppendPut, AtLeastPut, Returns,
                  mainVars
    <2>5. ASSUME NEW c \in Client, ReceiveDone(c) \/ Default(c) \/ Call(c) \/ Effect(c)
          PROVE  UNCHANGED iter /\ (main = "sleep" => UNCHANGED main)
      BY <2>5 DEF ReceiveDone, Default, Call, Effect, mainVars, clientVars
    <2>6. CASE NextDone \/ Check \/ UNCHANGED vars
      BY <2>1, <2>6 DEF NextDone, Check, vars, mainVars, clientVars
    <2>7. QED
      BY <2>1, <2>2, <2>3, <2>4, <2>5, <2>6 DEF Next, Step
  <1>3. QED
    BY <1>1, <1>2, BaseAlways, PTL DEF Spec

\* CheckPutConcurrent finds as many puts as were counted, or no more than may have been
\* (kvtest.go:103-116).
LEMMA PutsAddUp ==
    ASSUME Inv, Base, Started, Puts, workload = "put", main # "sleep",
           \A c \in Client : pc[c] = "returned"
    PROVE  CheckPutConcurrent = ""
  <1> DEFINE f == Weights
             a == [c \in Client |-> res[c].Nok]
             b == [c \in Client |-> res[c].Nmaybe]
  <1>0. Counted /\ Typed /\ st[k].version \in Nat /\ \A c \in Client : PutOf(c)
    BY DEF Puts, Base, Inv, Types
  <1>1. \A c \in Client : res[c].Nok \in Nat /\ res[c].Nmaybe \in Nat
    BY <1>0, SMTT(60) DEF Typed, Results
  <1>2. \A c \in Client : f[c] = res[c].Nok + res[c].Nmaybe + 0
    BY DEF Weights, Weight, Decided, Landed
  <1>3. /\ f \in [Client -> Nat] /\ a \in [Client -> Nat] /\ b \in [Client -> Nat]
        /\ \A c \in Client : f[c] = a[c] + b[c]
    <2>1. f \in [Client -> Nat]
      BY <1>0, WeightType
    <2>2. a \in [Client -> Nat] /\ b \in [Client -> Nat]
      BY <1>1
    <2> HIDE DEF f
    <2>3. \A c \in Client : f[c] = res[c].Nok + res[c].Nmaybe
      BY <1>1, <1>2, SMTT(60)
    <2>4. QED
      BY <2>1, <2>2, <2>3
  <1>4. Sum(f) = Sum(a) + Sum(b) /\ Sum(a) \in Nat /\ Sum(b) \in Nat
    <2> HIDE DEF f, a, b
    <2>1. QED
      BY <1>3, SumPlus, SumType
  <1>5. reliable => Sum(f) = Sum(a)
    <2>1. ASSUME reliable PROVE \A c \in Client : f[c] = a[c]
      <3>1. \A c \in Client : res[c].Nmaybe = 0
        BY <1>0, <2>1 DEF PutOf
      <3> HIDE DEF f
      <3>2. \A c \in Client : f[c] = res[c].Nok
        BY <1>1, <1>2, <3>1, SMTT(60)
      <3>3. QED
        BY <3>2
    <2> HIDE DEF f, a
    <2>2. reliable => f = a
      BY <1>3, <2>1, SMTT(60)
    <2>3. QED
      BY <2>2
  <1>6. st[k].version > 0
    BY <1>0 DEF Started, PutOf
  <1> DEFINE ok == Sum(a)
             maybe == Sum(b)
             ver0 == st[k].version
  <1>7. ver0 # 0 /\ (~reliable => ~(ver0 > ok + maybe)) /\ (reliable => ver0 = ok)
    <2>1. ver0 <= Sum(f) /\ (reliable => ver0 = Sum(f))
      BY <1>0 DEF Counted
    <2> HIDE DEF f, a, b
    <2>2. QED
      BY <1>0, <1>4, <1>5, <1>6, <2>1, SMTT(60)
  <1>8. CheckPutConcurrent = CASE ver0 = 0 -> "get"
                               [] ver0 > 0 /\ ~reliable /\ ver0 > ok + maybe -> "puts"
                               [] ver0 > 0 /\ reliable /\ ver0 # ok -> "puts"
                               [] OTHER -> ""
    BY DEF CheckPutConcurrent
  <1> HIDE DEF ok, maybe, ver0, f, a, b
  <1>9. QED
    BY <1>7, <1>8

\* The key is absent and nothing is counted.
LEMMA PutsInit == Init => Puts
  <1> SUFFICES ASSUME Init, workload = "put" PROVE Counted /\ Matches(st[k]) /\ \A c \in Client : PutOf(c)
    BY DEF Puts
  <1>0. Typed
    BY BaseInit DEF Base
  <1>1. st[k].version = 0
    <2>1. st = [x \in {k} |-> [value |-> <<>>, version |-> 0]]
      BY DEF Init
    <2>2. QED
      BY <2>1, SMTT(60)
  <1>2. \A c \in Client : res[c].Nok = 0 /\ res[c].Nmaybe = 0 /\ iter[c] = 0 /\ pc[c] = "top"
    BY DEF Init
  <1>3. ~(0 > 0)
    BY SMTT(60)
  <1>4. Matches(st[k]) /\ \A c \in Client : PutOf(c)
    BY <1>1, <1>2, <1>3 DEF Matches, PutOf
  <1>5. Counted
    <2> DEFINE f == Weights
    <2>1. \A c \in Client : f[c] = res[c].Nok + res[c].Nmaybe + 0
      BY <1>2 DEF Weights, Weight, Decided, Landed
    <2>2. f \in [Client -> Nat]
      BY <1>0, WeightType
    <2> HIDE DEF f
    <2>3. \A c \in Client : f[c] = f[c] + f[c]
      BY <1>2, <2>1, SMTT(60)
    <2>4. Sum(f) = Sum(f) + Sum(f) /\ Sum(f) \in Nat
      BY <2>2, <2>3, SumPlus, SumType
    <2>5. Sum(f) = 0
      BY ONLY <2>4, SMTT(60)
    <2>6. Sum(Weights) = 0
      BY <2>5 DEF f
    <2>7. 0 <= 0
      BY SMTT(60)
    <2>8. QED
      BY <1>1, <2>6, <2>7 DEF Counted
  <1>6. QED
    BY <1>4, <1>5

\* The clients run the same function to the end.
LEMMA SameWorkload == Inv /\ Base /\ [Next]_vars => workload' = workload
  <1> SUFFICES ASSUME Inv, Base, [Next]_vars PROVE workload' = workload
    OBVIOUS
  <1>1. ASSUME NEW c \in Client, CallReturns(c) PROVE UNCHANGED workload
    <2>1. PICK out : Returned(c, out)
      BY <1>1, ReturnIs
    <2>2. QED
      BY <2>1 DEF Returned, mainVars
  <1>2. ASSUME NEW c \in Client, ReceiveDone(c) \/ Default(c) \/ Call(c) \/ Effect(c)
        PROVE  UNCHANGED workload
    BY <1>2 DEF ReceiveDone, Default, Call, Effect, mainVars
  <1>3. CASE SleepOver \/ NextDone \/ Check \/ UNCHANGED vars
    BY <1>3 DEF SleepOver, NextDone, Check, mainVars, vars
  <1>4. QED
    BY <1>1, <1>2, <1>3 DEF Next, Step

\* Every step keeps it.
LEMMA PutsStep == Inv /\ Inv' /\ Base /\ Base' /\ Puts /\ [Next]_vars => Puts'
  <1> SUFFICES ASSUME Inv, Inv', Base, Base', Puts, [Next]_vars PROVE Puts'
    OBVIOUS
  <1>1. workload' = workload
    BY SameWorkload
  <1>2. SUFFICES ASSUME workload = "put" PROVE Puts'
    BY <1>1 DEF Puts
  <1>3. ASSUME NEW c \in Client, CallReturns(c) PROVE Puts'
    <2>1. PICK out : Returned(c, out)
      BY <1>3, ReturnIs
    <2>2. OnePutDone(c, out) \/ OnePutGot(c, out)
      BY <1>2, <2>1 DEF Returned, AppendGot, AppendPut, AtLeastPut, Returns
    <2>3. QED
      BY <1>2, <2>1, <2>2, PutDone, PutGot
  <1>4. CASE SleepOver \/ NextDone \/ Check \/ UNCHANGED vars
    <2>1. UNCHANGED <<kvVars, clientVars, workload, reliable>>
      BY <1>4 DEF SleepOver, NextDone, Check, vars, mainVars
    <2>2. Counted'
      <3>1. \A c \in Client : Weight(c)' = Weight(c)
        BY <2>1 DEF Weight, Decided, Landed, kvVars, clientVars
      <3>2. Weights' = Weights
        BY <3>1 DEF Weights
      <3>3. Sum(Weights)' = Sum(Weights)
        BY <3>2 DEF Sum
      <3>4. QED
        BY <1>2, <2>1, <3>3 DEF Puts, Counted, kvVars
    <2>3. Matches(st'[k]) /\ \A c \in Client : PutOf(c)'
      BY <1>2, <2>1 DEF Puts, Matches, PutOf, kvVars, clientVars
    <2>4. QED
      BY <2>2, <2>3 DEF Puts, Matches
  <1>5. QED
    BY <1>2, <1>3, <1>4, PutTop, PutCall, PutEffect DEF Next, Step

-----------------------------------------------------------------------------

(***************************************************************************)
(* OneClientAppend.  A Put is accepted only if the list is still the one   *)
(* that its client read, so a list is the one before with an entry added.  *)
(* The entries of a client have the numbers of its iterations.             *)
(***************************************************************************)
In(list, c) == {n \in DOMAIN list : list[n].Id = c}

\* At least low entries of c, with numbers that rise and are below high.
Keeps(list, c, low, high) ==
    /\ Cardinality(In(list, c)) >= low
    /\ \A n \in In(list, c) : list[n].N < high
    /\ \A m, n \in In(list, c) : m < n => list[m].N < list[n].N

Low(c) == res[c].Nok + (IF Landed(c) THEN 1 ELSE 0)
High(c) == iter[c] + (IF Landed(c) THEN 1 ELSE 0)

\* What c has read, is about to write, or will be told is the list as long as the version
\* is the one that came with it.
Current(c) ==
    /\ pc[c] = "put" /\ ver[c] = st[k].version => es[c] = st[k].value
    /\ phase[c] = "pending" /\ pc[c] = "put" =>
           input[c].value = Append(es[c], [Id |-> c, N |-> iter[c]])
    /\ phase[c] = "pending" /\ pc[c] = "get" /\ seen[c] # KV!NoReply =>
           (seen[c].version = st[k].version => seen[c].value = st[k].value)

IsList == st[k].value \in Seq(EntryN) /\ st[k].version = Len(st[k].value) + 1

AppendOf(c) ==
    /\ iter[c] = res[c].Nok + res[c].Nmaybe
    /\ Current(c) /\ Keeps(st[k].value, c, Low(c), High(c))

Appends == workload = "append" => IsList /\ \A c \in Client : AppendOf(c)

\* The entries of a list are finitely many, those of one client at most as many.
LEMMA InFinite ==
    ASSUME NEW list \in Seq(EntryN), NEW c
    PROVE  /\ IsFiniteSet(In(list, c)) /\ Cardinality(In(list, c)) \in Nat
           /\ In(list, c) \subseteq 1 .. Len(list) /\ Len(list) \in Nat /\ DOMAIN list = 1 .. Len(list)
  <1>1. Len(list) \in Nat /\ DOMAIN list = 1 .. Len(list)
    BY SMTT(60)
  <1>2. IsFiniteSet(1 .. Len(list))
    <2>1. 1 \in Int /\ Len(list) \in Int
      BY <1>1, SMTT(60)
    <2>2. QED
      BY <2>1, FS_Interval
  <1>3. In(list, c) \subseteq 1 .. Len(list)
    BY <1>1 DEF In
  <1>4. IsFiniteSet(In(list, c))
    BY <1>2, <1>3, FS_Subset
  <1>5. Cardinality(In(list, c)) \in Nat
    BY <1>4, FS_CardinalityType
  <1>6. QED
    BY <1>1, <1>3, <1>4, <1>5

\* An entry of c is added to the list.
IsAppended(new, list, c, i) ==
    /\ new \in Seq(EntryN) /\ Len(new) = Len(list) + 1
    /\ In(new, c) = In(list, c) \cup {Len(list) + 1}
    /\ Cardinality(In(new, c)) = Cardinality(In(list, c)) + 1
    /\ \A d : d # c => In(new, d) = In(list, d)
    /\ \A n \in 1 .. Len(list) : new[n] = list[n]
    /\ new[Len(list) + 1].N = i

\* What append does to the list (kvtest.go:309).
LEMMA AppendIs ==
    ASSUME NEW list \in Seq(EntryN), NEW c \in Client, NEW i \in Nat
    PROVE  IsAppended(Append(list, [Id |-> c, N |-> i]), list, c, i)
  <1> DEFINE e == [Id |-> c, N |-> i]
             new == Append(list, e)
             m == Len(list) + 1
  <1>1. e \in EntryN /\ e.Id = c /\ e.N = i
    BY SMTT(60) DEF EntryN
  <1> HIDE DEF e
  <1>2. /\ new \in Seq(EntryN) /\ Len(new) = m /\ DOMAIN new = 1 .. m /\ m \in Nat
        /\ new[m] = e /\ \A n \in 1 .. Len(list) : new[n] = list[n]
    BY <1>1, SMTT(60)
  <1>3. /\ 1 .. m = (1 .. Len(list)) \cup {m} /\ m \notin 1 .. Len(list)
        /\ DOMAIN list = 1 .. Len(list)
    BY SMTT(60)
  <1> HIDE DEF new, m
  <1>4. In(new, c) = In(list, c) \cup {m}
    BY <1>1, <1>2, <1>3 DEF In
  <1>5. \A d : d # c => In(new, d) = In(list, d)
    BY <1>1, <1>2, <1>3 DEF In
  <1>6. Cardinality(In(new, c)) = Cardinality(In(list, c)) + 1
    <2>1. IsFiniteSet(In(list, c)) /\ m \notin In(list, c)
      BY <1>3, InFinite
    <2>2. QED
      BY <1>4, <2>1, FS_AddElement
  <1>7. QED
    BY <1>1, <1>2, <1>4, <1>5, <1>6 DEF IsAppended, new, m, e

\* Fewer entries may be asked for, and higher numbers allowed.
LEMMA KeepsLess ==
    ASSUME NEW list \in Seq(EntryN), NEW c, NEW low \in Nat, NEW high \in Nat,
           NEW lo \in Nat, NEW hi \in Nat, Keeps(list, c, low, high), lo <= low, high <= hi
    PROVE  Keeps(list, c, lo, hi)
  <1>1. Cardinality(In(list, c)) \in Nat
    BY InFinite
  <1>2. \A n \in In(list, c) : list[n].N \in Nat
    <2>1. \A n \in DOMAIN list : list[n] \in EntryN
      BY SMTT(60)
    <2>2. QED
      BY <2>1, SMTT(60) DEF In, EntryN
  <1>3. Cardinality(In(list, c)) >= lo
    <2>1. Cardinality(In(list, c)) >= low
      BY DEF Keeps
    <2>2. QED
      BY <1>1, <2>1, SMTT(60)
  <1>4. ASSUME NEW n \in In(list, c) PROVE list[n].N < hi
    <2>1. list[n].N < high /\ list[n].N \in Nat
      BY <1>2 DEF Keeps
    <2>2. QED
      BY <2>1, SMTT(60)
  <1>5. QED
    BY <1>3, <1>4 DEF Keeps

\* The entry of the iteration is added after those of the iterations before.
LEMMA KeepsUp ==
    ASSUME NEW list \in Seq(EntryN), NEW c \in Client, NEW low \in Nat, NEW i \in Nat,
           Keeps(list, c, low, i), NEW new, IsAppended(new, list, c, i)
    PROVE  Keeps(new, c, low + 1, i + 1)
  <1> DEFINE m == Len(list) + 1
  <1>0. /\ In(list, c) \subseteq 1 .. Len(list) /\ Len(list) \in Nat
        /\ Cardinality(In(list, c)) \in Nat
    BY InFinite
  <1>1. \A n \in In(list, c) : new[n] = list[n] /\ list[n].N < i /\ n \in Nat /\ n < m /\ ~(m < n)
    <2>1. \A n \in In(list, c) : new[n] = list[n] /\ list[n].N < i /\ n \in 1 .. Len(list)
      BY <1>0 DEF IsAppended, Keeps
    <2>2. \A n \in 1 .. Len(list) : n \in Nat /\ n < m /\ ~(m < n)
      BY <1>0, SMTT(60)
    <2>3. QED
      BY <2>1, <2>2
  <1>2. In(new, c) = In(list, c) \cup {m} /\ new[m].N = i /\ ~(m < m)
    <2>1. ~(m < m)
      BY <1>0, SMTT(60)
    <2>2. QED
      BY <2>1 DEF IsAppended
  <1> HIDE DEF m
  <1>3. Cardinality(In(new, c)) >= low + 1
    <2>1. Cardinality(In(list, c)) >= low /\ Cardinality(In(new, c)) = Cardinality(In(list, c)) + 1
      BY DEF Keeps, IsAppended
    <2>2. QED
      BY <1>0, <2>1, SMTT(60)
  <1>4. ASSUME NEW n \in In(new, c) PROVE new[n].N < i + 1
    <2>1. i < i + 1
      BY SMTT(60)
    <2>2. CASE n = m
      BY <1>2, <2>1, <2>2
    <2>3. CASE n \in In(list, c)
      <3>1. list[n].N \in Nat
        <4>1. n \in DOMAIN list
          BY <2>3 DEF In
        <4>2. list[n] \in EntryN
          BY <4>1, SMTT(60)
        <4>3. QED
          BY <4>2, SMTT(60) DEF EntryN
      <3>2. new[n].N = list[n].N /\ list[n].N < i
        BY <1>1, <2>3
      <3>3. QED
        BY <3>1, <3>2, SMTT(60)
    <2>4. QED
      BY <1>2, <2>2, <2>3
  <1>5. ASSUME NEW a \in In(new, c), NEW b \in In(new, c), a < b PROVE new[a].N < new[b].N
    <2>1. CASE a \in In(list, c) /\ b \in In(list, c)
      BY <1>1, <1>5, <2>1 DEF Keeps
    <2>2. CASE a \in In(list, c) /\ b = m
      BY <1>1, <1>2, <2>2
    <2>3. QED
      BY <1>1, <1>2, <1>5, <2>1, <2>2
  <1>6. QED
    BY <1>3, <1>4, <1>5 DEF Keeps

\* The entries of the others stay.
LEMMA KeepsOther ==
    ASSUME NEW list \in Seq(EntryN), NEW c, NEW d, d # c, NEW i, NEW low, NEW high,
           Keeps(list, d, low, high), NEW new, IsAppended(new, list, c, i)
    PROVE  Keeps(new, d, low, high)
  <1>1. In(new, d) = In(list, d) /\ In(list, d) \subseteq 1 .. Len(list)
    BY InFinite DEF IsAppended
  <1>2. \A n \in In(list, d) : new[n] = list[n]
    BY <1>1 DEF IsAppended
  <1>3. Cardinality(In(new, d)) >= low /\ \A n \in In(new, d) : new[n].N < high
    BY <1>1, <1>2 DEF Keeps
  <1>4. ASSUME NEW a \in In(new, d), NEW b \in In(new, d), a < b PROVE new[a].N < new[b].N
    <2>1. a \in In(list, d) /\ b \in In(list, d) /\ new[a] = list[a] /\ new[b] = list[b]
      BY <1>1, <1>2
    <2>2. list[a].N < list[b].N
      BY <1>4, <2>1 DEF Keeps
    <2>3. QED
      BY <2>1, <2>2
  <1>5. QED
    BY <1>3, <1>4 DEF Keeps

-----------------------------------------------------------------------------

\* The counts of a client are numbers.
CountType(c) ==
    /\ Low(c) \in Nat /\ High(c) \in Nat
    /\ iter[c] \in Nat /\ res[c].Nok \in Nat /\ res[c].Nmaybe \in Nat

\* They have the type they are declared with (ClntRes, kvtest.go).
LEMMA CountTypes == Typed => \A d \in Client : CountType(d)
  <1> SUFFICES ASSUME Typed, NEW c \in Client PROVE CountType(c)
    OBVIOUS
  <1>1. res[c] \in Results /\ iter[c] \in Nat
    BY DEF Typed
  <1>2. QED
    BY <1>1, SMTT(60) DEF CountType, Low, High, Results

\* The pieces of Appends', when c has stepped and the store is as it was.
LEMMA AppendsFrom ==
    ASSUME Base, Base', Appends, workload = "append", UNCHANGED <<workload, st>>,
           NEW c \in Client, \A d \in Client : d # c => Apart(d),
           iter'[c] = res'[c].Nok + res'[c].Nmaybe, Current(c)',
           Low(c)' <= Low(c), High(c) <= High(c)'
    PROVE  Appends'
  <1>0. IsList /\ AppendOf(c) /\ Typed /\ Typed'
    BY DEF Appends, Base
  <1>1. IsList'
    BY <1>0 DEF IsList
  <1>2. ASSUME NEW d \in Client, d # c PROVE AppendOf(d)'
    <2>1. AppendOf(d) /\ Apart(d)
      BY <1>2 DEF Appends
    <2>2. Low(d)' = Low(d) /\ High(d)' = High(d)
      BY <2>1 DEF Apart, Low, High, Landed
    <2>3. Current(d)'
      BY <2>1 DEF AppendOf, Current, Apart
    <2>4. QED
      BY <2>1, <2>2, <2>3 DEF AppendOf, Apart
  <1>3. AppendOf(c)'
    <2>1. Keeps(st[k].value, c, Low(c), High(c)) /\ st[k].value \in Seq(EntryN)
      BY <1>0 DEF AppendOf, IsList
    <2>2. (Typed => \A d \in Client : CountType(d))'
      BY CountTypes, PTL
    <2>3. Low(c) \in Nat /\ High(c) \in Nat /\ Low(c)' \in Nat /\ High(c)' \in Nat
      BY <1>0, <2>2, CountTypes DEF CountType
    <2>4. Keeps(st[k].value, c, Low(c)', High(c)')
      BY <2>1, <2>3, KeepsLess
    <2>5. QED
      BY <2>4 DEF AppendOf
  <1>4. QED
    BY <1>1, <1>2, <1>3 DEF Appends

\* A client leaves the top of its loop: it has nothing under way.
LEMMA AppendTop ==
    ASSUME Inv, Base, Base', Appends, workload = "append", NEW c \in Client,
           ReceiveDone(c) \/ Default(c)
    PROVE  Appends'
  <1>1. /\ UNCHANGED <<kvVars, workload, ver, es, err, iter, res>>
        /\ pc[c] = "top" /\ phase[c] # "pending"
        /\ \E l \in {"get", "returned"} : pc' = [pc EXCEPT ![c] = l]
    BY DEF ReceiveDone, Default, mainVars, Inv, Pending, CallAtPc
  <1>2. pc'[c] \in {"get", "returned"} /\ \A d \in Client : d # c => Apart(d)
    BY <1>1 DEF Inv, Types, Apart, kvVars
  <1>3. Current(c)' /\ iter'[c] = res'[c].Nok + res'[c].Nmaybe /\ UNCHANGED <<workload, st>>
    BY <1>1, <1>2 DEF Appends, AppendOf, Current, kvVars
  <1>4. Low(c)' = Low(c) /\ High(c)' = High(c)
    BY <1>1 DEF Low, High, Landed, kvVars
  <1>5. Low(c)' <= Low(c) /\ High(c) <= High(c)'
    <2>1. CountType(c)
      BY CountTypes DEF Base
    <2>2. QED
      BY <1>4, <2>1, SMTT(60) DEF CountType
  <1>6. QED
    BY <1>2, <1>3, <1>5, AppendsFrom

\* A call is sent: a Put carries the list that was read with one entry more.
LEMMA AppendCall ==
    ASSUME Inv, Base, Base', Appends, workload = "append", NEW c \in Client, Call(c)
    PROVE  Appends'
  <1>1. /\ UNCHANGED <<st, mainVars, clientVars>> /\ phase[c] = "idle"
        /\ phase' = [phase EXCEPT ![c] = "pending"]
        /\ input' = [input EXCEPT ![c] = Request(c)]
        /\ seen' = [seen EXCEPT ![c] = KV!NoReply]
    BY DEF Call, KV!Invoke
  <1>2. \A d \in Client : d # c => Apart(d)
    BY <1>1 DEF Inv, Types, Apart, clientVars
  <1>3. phase'[c] = "pending" /\ seen'[c] = KV!NoReply /\ input'[c] = Request(c)
    BY <1>1 DEF Inv, Types
  <1>4. pc[c] = "put" => Request(c).value = Append(es[c], [Id |-> c, N |-> iter[c]])
    BY DEF Request
  <1>5. Current(c)' /\ iter'[c] = res'[c].Nok + res'[c].Nmaybe /\ UNCHANGED workload
    BY <1>1, <1>3, <1>4 DEF Appends, AppendOf, Current, clientVars, mainVars
  <1>6. Low(c)' = Low(c) /\ High(c)' = High(c)
    <2>0. KV!NoReply.err # KV!OK
      BY DEF KV!NoReply, KV!OK
    <2>1. seen'[c].err # KV!OK
      BY <1>3, <2>0
    <2>2. QED
      BY <1>1, <2>1 DEF Low, High, Landed, clientVars
  <1>7. Low(c)' <= Low(c) /\ High(c) <= High(c)'
    <2>1. CountType(c)
      BY CountTypes DEF Base
    <2>2. QED
      BY <1>6, <2>1, SMTT(60) DEF CountType
  <1>8. QED
    BY <1>1, <1>2, <1>5, <1>7, AppendsFrom

\* The store's part: a Put that is accepted adds its entry to the list of now.
LEMMA AppendEffect ==
    ASSUME Inv, Base, Base', Appends, workload = "append", NEW c \in Client, Effect(c)
    PROVE  Appends'
  <1>0. /\ UNCHANGED <<phase, input, mainVars, clientVars, fatal>> /\ phase[c] = "pending"
        /\ \A d \in Client : d # c => seen'[d] = seen[d]
        /\ Reads(c) \/ Writes(c) \/ Refuses(c)
    BY EffectIs
  <1>1. UNCHANGED <<workload, reliable>> /\ \A d \in Client : d # c => Apart(d)
    BY <1>0 DEF Apart, mainVars, clientVars
  <1>2. /\ st[k].version \in Nat /\ ver[c] \in Nat /\ AppendOf(c) /\ IsList /\ CountType(c)
        /\ UNCHANGED <<iter, res, es, pc, ver>>
    BY <1>0, CountTypes DEF Inv, Types, Appends, Base, clientVars
  <1>3. CASE UNCHANGED st
    <2>1. Current(c)' /\ iter'[c] = res'[c].Nok + res'[c].Nmaybe
      <3>1. pc[c] = "get" => seen'[c].value = st[k].value
        BY <1>0 DEF Reads, Writes, Refuses
      <3>2. QED
        BY <1>0, <1>2, <1>3, <3>1 DEF AppendOf, Current
    <2>2. Low(c)' = Low(c) /\ High(c)' = High(c)
      <3>1. ~Writes(c)
        BY <1>2, <1>3, SMTT(60) DEF Writes
      <3>2. pc[c] = "get" \/ (seen[c].err # KV!OK /\ seen'[c].err # KV!OK)
        BY <1>0, <3>1 DEF Reads, Refuses, KV!OK, KV!ErrVersion
      <3>3. QED
        BY <1>0, <1>2, <3>2 DEF Low, High, Landed
    <2>3. Low(c)' <= Low(c) /\ High(c) <= High(c)'
      BY <1>2, <2>2, SMTT(60) DEF CountType
    <2>4. QED
      BY <1>1, <1>3, <2>1, <2>3, AppendsFrom
  <1>4. CASE Writes(c)
    <2> DEFINE list == st[k].value
               new == st'[k].value
    <2>1. /\ pc[c] = "put" /\ st[k].version = ver[c] /\ st'[k].version = ver[c] + 1
          /\ new = input[c].value /\ seen[c].err # KV!OK /\ seen'[c].err = KV!OK
      BY <1>4 DEF Writes
    <2>2. new = Append(list, [Id |-> c, N |-> iter[c]]) /\ list \in Seq(EntryN)
      BY <1>0, <1>2, <2>1 DEF AppendOf, Current, IsList
    <2>3. IsAppended(new, list, c, iter[c])
      <3>1. iter[c] \in Nat
        BY <1>2 DEF CountType
      <3> HIDE DEF list, new
      <3>2. QED
        BY <2>2, <3>1, AppendIs
    <2>4. IsList'
      <3>1. new \in Seq(EntryN) /\ Len(new) = Len(list) + 1 /\ st[k].version = Len(list) + 1
        BY <1>2, <2>3 DEF IsAppended, IsList
      <3>2. QED
        BY <2>1, <3>1 DEF IsList
    <2>5. ASSUME NEW d \in Client, d # c PROVE AppendOf(d)'
      <3>1. AppendOf(d) /\ Apart(d) /\ ver[d] \in Nat /\ ver[d] <= st[k].version
        BY <1>1, <2>5 DEF Appends, Inv, Types, NeverAhead
      <3>2. Low(d)' = Low(d) /\ High(d)' = High(d)
        BY <3>1 DEF Apart, Low, High, Landed
      <3>3. Keeps(new, d, Low(d), High(d))
        <4>1. Keeps(list, d, Low(d), High(d))
          BY <3>1 DEF AppendOf
        <4> HIDE DEF list, new
        <4>2. QED
          BY <2>2, <2>3, <2>5, <4>1, KeepsOther
      <3>4. ver[d] # st'[k].version
        BY <1>2, <2>1, <3>1, SMTT(60)
      <3>5. phase[d] = "pending" /\ pc[d] = "get" /\ seen[d] # KV!NoReply =>
                seen[d].version # st'[k].version
        <4>1. SUFFICES ASSUME phase[d] = "pending", pc[d] = "get", seen[d] # KV!NoReply
                       PROVE  seen[d].version # st'[k].version
          OBVIOUS
        <4>2. seen[d].version \in Nat /\ seen[d].version <= st[k].version
          BY <4>1 DEF Inv, Pending, CallAtPc, Bounded
        <4>3. QED
          BY <1>2, <2>1, <4>2, SMTT(60)
      <3>6. Current(d)'
        BY <3>1, <3>4, <3>5 DEF AppendOf, Current, Apart
      <3>7. QED
        BY <3>1, <3>2, <3>3, <3>6 DEF AppendOf, Apart
    <2>6. AppendOf(c)'
      <3>1. ver[c] # st'[k].version
        BY <1>2, <2>1, SMTT(60)
      <3>2. Current(c)'
        BY <1>0, <1>2, <2>1, <3>1 DEF AppendOf, Current
      <3>3. /\ Low(c) = res[c].Nok + 0 /\ High(c) = iter[c] + 0
            /\ Low(c)' = res[c].Nok + 1 /\ High(c)' = iter[c] + 1
        BY <1>0, <1>2, <2>1 DEF Low, High, Landed
      <3>4. /\ Low(c)' = Low(c) + 1 /\ High(c) = iter[c] /\ Low(c) \in Nat /\ iter[c] \in Nat
        BY <1>2, <3>3, SMTT(60) DEF CountType
      <3>5. Keeps(new, c, Low(c) + 1, iter[c] + 1)
        <4>1. Keeps(list, c, Low(c), iter[c])
          BY <1>2, <3>4 DEF AppendOf
        <4> HIDE DEF list, new
        <4>2. QED
          BY <2>2, <2>3, <3>4, <4>1, KeepsUp
      <3>6. Keeps(new, c, Low(c)', High(c)')
        BY <3>3, <3>4, <3>5
      <3>7. QED
        BY <1>2, <3>2, <3>6 DEF AppendOf
    <2>7. QED
      BY <2>4, <2>5, <2>6 DEF Appends
  <1>5. QED
    BY <1>0, <1>3, <1>4 DEF Reads, Refuses

\* GetJson returns: the client goes on with the list and the version it was answered
\* (kvtest.go:307-309).
LEMMA AppendGotKeeps ==
    ASSUME Inv, Base, Base', Appends, workload = "append", NEW c \in Client, NEW out,
           Returned(c, out), AppendGot(c, out)
    PROVE  Appends' /\ fatal' = ""
  <1>1. /\ phase[c] = "pending" /\ pc[c] = "get" /\ out = seen[c] /\ out.err = KV!OK
        /\ phase' = [phase EXCEPT ![c] = "idle"] /\ UNCHANGED <<st, input, seen, mainVars>>
        /\ seen[c] # KV!NoReply
    BY DEF Returned, AppendGot, Returns, KV!Respond
  <1>2. /\ ver' = [ver EXCEPT ![c] = out.version] /\ es' = [es EXCEPT ![c] = out.value]
        /\ pc' = [pc EXCEPT ![c] = "put"] /\ UNCHANGED <<err, iter, res>>
        /\ fatal' = IF out.err # KV!OK THEN "get" ELSE ""
    BY DEF AppendGot, Goto
  <1>3. /\ phase'[c] = "idle" /\ pc'[c] = "put" /\ ver'[c] = seen[c].version
        /\ es'[c] = seen[c].value
    BY <1>1, <1>2 DEF Inv, Types, Base, Typed
  <1>4. \A d \in Client : d # c => Apart(d)
    BY <1>1, <1>2 DEF Apart, Inv, Types, Base, Typed
  <1>5. Current(c)' /\ iter'[c] = res'[c].Nok + res'[c].Nmaybe /\ UNCHANGED workload
    BY <1>1, <1>2, <1>3 DEF Appends, AppendOf, Current, mainVars
  <1>6. Low(c)' <= Low(c) /\ High(c) <= High(c)'
    <2>1. Low(c)' = Low(c) /\ High(c)' = High(c)
      BY <1>1, <1>2, <1>3 DEF Low, High, Landed
    <2>2. CountType(c)
      BY CountTypes DEF Base
    <2>3. QED
      BY <2>1, <2>2, SMTT(60) DEF CountType
  <1>7. Appends'
    BY <1>1, <1>4, <1>5, <1>6, AppendsFrom
  <1>8. QED
    BY <1>1, <1>2, <1>7

\* PutJson returns: what landed is counted as OK or as ErrMaybe, and the number of the
\* iteration is not used again (kvtest.go:310-317).
LEMMA AppendPutKeeps ==
    ASSUME Inv, Base, Base', Appends, workload = "append", NEW c \in Client, NEW out,
           Returned(c, out), AppendPut(c, out)
    PROVE  Appends' /\ fatal' = fatal
  <1>1. /\ phase[c] = "pending" /\ pc[c] = "put" /\ seen[c].err \in {KV!OK, KV!ErrVersion}
        /\ out.err \in {seen[c].err, KV!ErrMaybe}
        /\ phase' = [phase EXCEPT ![c] = "idle"] /\ UNCHANGED <<st, input, seen, mainVars>>
    BY DEF Returned, AppendPut, Returns, Answers
  <1>2. /\ UNCHANGED <<ver, es, err, fatal>>
        /\ \/ out.err \in {KV!OK, KV!ErrMaybe} /\ Count(c, out.err)
           \/ /\ out.err \notin {KV!OK, KV!ErrMaybe} /\ pc' = [pc EXCEPT ![c] = "get"]
              /\ UNCHANGED <<iter, res>>
    BY DEF AppendPut, Goto
  <1>3. Typed /\ CountType(c) /\ iter[c] = res[c].Nok + res[c].Nmaybe
    BY CountTypes DEF Base, Appends, AppendOf
  <1>4. /\ phase'[c] = "idle" /\ pc'[c] \in {"top", "get"}
        /\ \A d \in Client : d # c => Apart(d)
    <2>1. \A d \in Client : d # c => iter'[d] = iter[d] /\ res'[d] = res[d]
      BY <1>2, <1>3, CountIs
    <2>2. \E l \in {"top", "get"} : pc' = [pc EXCEPT ![c] = l]
      BY <1>2 DEF Count, Goto
    <2>3. /\ phase'[c] = "idle" /\ pc'[c] \in {"top", "get"}
          /\ \A d \in Client : d # c => pc'[d] = pc[d] /\ phase'[d] = phase[d]
      BY <1>1, <2>2 DEF Inv, Types
    <2>4. QED
      BY <1>1, <1>2, <2>1, <2>3 DEF Apart
  <1>5. Current(c)' /\ UNCHANGED workload
    BY <1>1, <1>4 DEF Current, mainVars
  <1>6. Landed(c) <=> seen[c].err = KV!OK
    BY <1>1 DEF Landed
  <1>7. Low(c)' = res'[c].Nok + 0 /\ High(c)' = iter'[c] + 0
    BY <1>4 DEF Low, High, Landed
  <1>8. CASE out.err \in {KV!OK, KV!ErrMaybe} /\ Count(c, out.err)
    <2>1. /\ iter'[c] = iter[c] + 1
          /\ out.err = KV!OK => res'[c].Nok = res[c].Nok + 1 /\ res'[c].Nmaybe = res[c].Nmaybe
          /\ out.err # KV!OK => res'[c].Nok = res[c].Nok /\ res'[c].Nmaybe = res[c].Nmaybe + 1
      BY <1>3, <1>8, CountIs
    <2>2. iter'[c] = res'[c].Nok + res'[c].Nmaybe
      BY <1>3, <2>1, SMTT(60) DEF CountType
    <2>3. out.err = KV!OK => Landed(c)
      BY <1>1, <1>6 DEF KV!OK, KV!ErrMaybe
    <2>4. Low(c)' <= Low(c) /\ High(c) <= High(c)'
      <3>1. CASE Landed(c)
        <4>1. Low(c) = res[c].Nok + 1 /\ High(c) = iter[c] + 1
          BY <3>1 DEF Low, High
        <4>2. QED
          BY <1>3, <1>7, <2>1, <4>1, SMTT(60) DEF CountType
      <3>2. CASE ~Landed(c)
        <4>1. Low(c) = res[c].Nok + 0 /\ High(c) = iter[c] + 0 /\ res'[c].Nok = res[c].Nok
          BY <2>1, <2>3, <3>2 DEF Low, High
        <4>2. QED
          BY <1>3, <1>7, <2>1, <4>1, SMTT(60) DEF CountType
      <3>3. QED
        BY <3>1, <3>2
    <2>5. QED
      BY <1>1, <1>2, <1>4, <1>5, <2>2, <2>4, AppendsFrom
  <1>9. CASE out.err \notin {KV!OK, KV!ErrMaybe} /\ UNCHANGED <<iter, res>>
    <2>1. ~Landed(c)
      BY <1>1, <1>6, <1>9
    <2>2. Low(c) = res[c].Nok + 0 /\ High(c) = iter[c] + 0
      BY <2>1 DEF Low, High
    <2>3. Low(c)' = Low(c) /\ High(c)' = High(c)
      BY <1>7, <1>9, <2>2
    <2>4. Low(c)' <= Low(c) /\ High(c) <= High(c)'
      BY <1>3, <2>3, SMTT(60) DEF CountType
    <2>5. QED
      BY <1>1, <1>2, <1>3, <1>4, <1>5, <1>9, <2>4, AppendsFrom
  <1>10. QED
    BY <1>2, <1>8, <1>9

-----------------------------------------------------------------------------

(***************************************************************************)
(* The loop of CheckAppends.  On a list in which the numbers of each       *)
(* client rise it meets no old put, and for each client the numbers that   *)
(* were skipped and those that were found make up the number it expects.   *)
(***************************************************************************)
Scans == [expect : [Client -> Int], skipped : [Client -> Int], old : BOOLEAN]

Start ==
    LET zero == [c \in Client |-> 0] IN [expect |-> zero, skipped |-> zero, old |-> FALSE]

ScanRuns(list) ==
    \E h \in [0 .. Len(list) -> Scans] :
        /\ h[0] = Start /\ \A n \in 1 .. Len(list) : h[n] = Meet(h[n - 1], list[n])
        /\ Scan(list) = h[Len(list)]

\* A turn of the loop, client by client.
Met(b, a, e) ==
    /\ b \in Scans
    /\ b.expect[e.Id] = e.N + 1
    /\ b.skipped[e.Id] = a.skipped[e.Id] + (e.N - a.expect[e.Id])
    /\ \A c \in Client : c # e.Id => b.expect[c] = a.expect[c] /\ b.skipped[c] = a.skipped[c]
    /\ b.old <=> a.old \/ a.expect[e.Id] > e.N

\* What Meet does.
LEMMA MeetIs ==
    ASSUME NEW a \in Scans, NEW e \in EntryN
    PROVE  Met(Meet(a, e), a, e)
  <1> DEFINE x == [a.expect EXCEPT ![e.Id] = e.N + 1]
             s == [a.skipped EXCEPT ![e.Id] = a.skipped[e.Id] + (e.N - a.expect[e.Id])]
             o == a.old \/ a.expect[e.Id] > e.N
             b == Meet(a, e)
  <1>1. /\ a.expect \in [Client -> Int] /\ a.skipped \in [Client -> Int] /\ a.old \in BOOLEAN
        /\ e.Id \in Client /\ e.N \in Nat
    BY SMTT(60) DEF Scans, EntryN
  <1>2. b = [expect |-> x, skipped |-> s, old |-> o]
    BY DEF Meet
  <1>3. /\ e.N + 1 \in Int /\ a.skipped[e.Id] + (e.N - a.expect[e.Id]) \in Int
    <2>1. a.expect[e.Id] \in Int /\ a.skipped[e.Id] \in Int
      BY <1>1
    <2>2. QED
      BY <1>1, <2>1, SMTT(60)
  <1>4. /\ x \in [Client -> Int] /\ s \in [Client -> Int]
        /\ x[e.Id] = e.N + 1 /\ s[e.Id] = a.skipped[e.Id] + (e.N - a.expect[e.Id])
        /\ \A c \in Client : c # e.Id => x[c] = a.expect[c] /\ s[c] = a.skipped[c]
    BY <1>1, <1>3
  <1>5. o \in BOOLEAN
    OBVIOUS
  <1> HIDE DEF x, s, o, b
  <1>6. b.expect = x /\ b.skipped = s /\ b.old = o
    BY <1>2
  <1>7. b \in Scans
    BY <1>2, <1>4, <1>5, SMTT(60) DEF Scans
  <1>8. b.old <=> a.old \/ a.expect[e.Id] > e.N
    BY <1>6 DEF o
  <1>9. Met(b, a, e)
    BY <1>4, <1>6, <1>7, <1>8 DEF Met
  <1>10. QED
    BY <1>9 DEF b

\* The values of the loop.
LEMMA ScanTurns ==
    ASSUME NEW list \in Seq(EntryN)
    PROVE  ScanRuns(list)
  <1> DEFINE M == Len(list)
             F == [n \in 1 .. M |-> [a \in Scans |-> Meet(a, list[n])]]
             Is(s) == s = [n \in 0 .. M |-> IF n = 0 THEN Start ELSE Meet(s[n - 1], list[n])]
  <1>0. M \in Nat /\ \A n \in 1 .. M : list[n] \in EntryN /\ n - 1 \in 0 .. M
    BY SMTT(60)
  <1>1. F \in [1 .. M -> [Scans -> Scans]]
    <2>1. ASSUME NEW n \in 1 .. M, NEW a \in Scans PROVE Meet(a, list[n]) \in Scans
      BY <1>0, MeetIs DEF Met
    <2> HIDE DEF M
    <2>2. QED
      BY <2>1
  <1>2. Start \in Scans
    <2>1. [c \in Client |-> 0] \in [Client -> Int]
      BY SMTT(60)
    <2>2. QED
      BY <2>1 DEF Start, Scans
  <1> HIDE DEF M
  <1>3. PICK h \in [0 .. M -> Scans] : h[0] = Start /\ \A n \in 1 .. M : h[n] = F[n][h[n - 1]]
    <2> HIDE DEF F
    <2>1. Runs(M, Scans, Start, F)
      BY <1>0, <1>1, <1>2, Loop
    <2>2. QED
      BY <2>1 DEF Runs
  <1>4. \A n \in 1 .. M : h[n] = Meet(h[n - 1], list[n])
    BY <1>0, <1>3
  <1>5. Is(h)
    <2>1. \A n \in 0 .. M : n # 0 => n \in 1 .. M
      BY <1>0, SMTT(60)
    <2>2. \A n \in 0 .. M : h[n] = IF n = 0 THEN Start ELSE Meet(h[n - 1], list[n])
      BY <1>3, <1>4, <2>1
    <2>3. QED
      BY <2>2
  <1> HIDE DEF F
  <1>6. DEFINE g == CHOOSE s : Is(s)
  <1>7. Is(g)
    BY <1>5
  <1>8. Scan(list) = g[M]
    BY DEF Scan, Start, M
  <1> HIDE DEF g
  <1>9. \A n \in 0 .. M : g[n] = h[n]
    <2> DEFINE P == {n \in 0 .. M : g[n] = h[n]}
    <2>0. 0 \in 0 .. M /\ \A n \in 1 .. M : n \in 0 .. M /\ n # 0
      BY <1>0, SMTT(60)
    <2>1. 0 \in P
      BY <1>3, <1>7, <2>0
    <2>2. ASSUME NEW n \in 1 .. M, n - 1 \in P PROVE n \in P
      <3>1. g[n] = Meet(g[n - 1], list[n])
        BY <1>7, <2>0
      <3>2. QED
        BY <1>4, <2>0, <2>2, <3>1
    <2> HIDE DEF P
    <2>3. \A n \in 0 .. M : n \in P
      BY <1>0, <2>1, <2>2, Turns
    <2>4. QED
      BY <2>3 DEF P
  <1>10. Scan(list) = h[M]
    <2>1. M \in 0 .. M
      BY <1>0, SMTT(60)
    <2>2. QED
      BY <1>8, <1>9, <2>1
  <1>11. QED
    BY <1>3, <1>4, <1>10 DEF ScanRuns, M

\* The entries of c among the first n.
Upto(list, n, c) == {m \in In(list, c) : m <= n}

Rising(list) ==
    \A c \in Client : \A m, n \in In(list, c) : m < n => list[m].N < list[n].N

\* What the loop knows of c after n turns.
Found(list, n, a, c) ==
    /\ a.expect[c] = 0 \/ \E m \in Upto(list, n, c) : a.expect[c] = list[m].N + 1
    /\ a.skipped[c] + Cardinality(Upto(list, n, c)) = a.expect[c]

\* One turn counts one entry of one client.
LEMMA UptoIs ==
    ASSUME NEW list \in Seq(EntryN), NEW n \in 1 .. Len(list), NEW c \in Client
    PROVE  /\ c = list[n].Id => /\ Upto(list, n, c) = Upto(list, n - 1, c) \cup {n}
                                /\ Cardinality(Upto(list, n, c)) = Cardinality(Upto(list, n - 1, c)) + 1
           /\ c # list[n].Id => Upto(list, n, c) = Upto(list, n - 1, c)
           /\ Cardinality(Upto(list, n - 1, c)) \in Nat
  <1>0. /\ IsFiniteSet(In(list, c)) /\ In(list, c) \subseteq 1 .. Len(list)
        /\ Len(list) \in Nat /\ DOMAIN list = 1 .. Len(list)
    BY InFinite
  <1>1. IsFiniteSet(Upto(list, n - 1, c))
    <2>1. Upto(list, n - 1, c) \subseteq In(list, c)
      BY DEF Upto
    <2>2. QED
      BY <1>0, <2>1, FS_Subset
  <1>2. n \notin Upto(list, n - 1, c)
    <2>1. ~(n <= n - 1)
      BY <1>0, SMTT(60)
    <2>2. QED
      BY <2>1 DEF Upto
  <1>3. \A m \in 1 .. Len(list) : m <= n <=> m <= n - 1 \/ m = n
    BY <1>0, SMTT(60)
  <1>4. n \in In(list, c) <=> list[n].Id = c
    BY <1>0 DEF In
  <1>5. c = list[n].Id => Upto(list, n, c) = Upto(list, n - 1, c) \cup {n}
    BY <1>0, <1>3, <1>4 DEF Upto
  <1>6. c # list[n].Id => Upto(list, n, c) = Upto(list, n - 1, c)
    BY <1>0, <1>3, <1>4 DEF Upto
  <1>7. /\ Cardinality(Upto(list, n - 1, c) \cup {n}) = Cardinality(Upto(list, n - 1, c)) + 1
        /\ Cardinality(Upto(list, n - 1, c)) \in Nat
    BY <1>1, <1>2, FS_AddElement, FS_CardinalityType
  <1>8. QED
    BY <1>5, <1>6, <1>7

\* A turn keeps what the loop knows, and meets no old put.
LEMMA FoundTurn ==
    ASSUME NEW list \in Seq(EntryN), Rising(list), NEW n \in 1 .. Len(list), NEW a \in Scans,
           ~a.old, \A c \in Client : Found(list, n - 1, a, c), NEW b, Met(b, a, list[n])
    PROVE  ~b.old /\ \A c \in Client : Found(list, n, b, c)
  <1> DEFINE e == list[n]
  <1>0. /\ e \in EntryN /\ e.Id \in Client /\ e.N \in Nat /\ Len(list) \in Nat
        /\ DOMAIN list = 1 .. Len(list) /\ n \in Nat
    <2>1. e \in EntryN /\ Len(list) \in Nat /\ DOMAIN list = 1 .. Len(list) /\ n \in Nat
      BY SMTT(60)
    <2>2. QED
      BY <2>1, SMTT(60) DEF EntryN
  <1>1. /\ b.expect[e.Id] = e.N + 1
        /\ b.skipped[e.Id] = a.skipped[e.Id] + (e.N - a.expect[e.Id])
        /\ \A c \in Client : c # e.Id => b.expect[c] = a.expect[c] /\ b.skipped[c] = a.skipped[c]
        /\ b.old <=> a.old \/ a.expect[e.Id] > e.N
    BY DEF Met
  <1>2. a.expect[e.Id] <= e.N /\ a.expect[e.Id] \in Int /\ a.skipped[e.Id] \in Int
    <2>1. a.expect \in [Client -> Int] /\ a.skipped \in [Client -> Int]
      BY SMTT(60) DEF Scans
    <2>2. a.expect[e.Id] \in Int /\ a.skipped[e.Id] \in Int
      BY <1>0, <2>1
    <2>3. CASE a.expect[e.Id] = 0
      BY <1>0, <2>2, <2>3, SMTT(60)
    <2>4. CASE \E m \in Upto(list, n - 1, e.Id) : a.expect[e.Id] = list[m].N + 1
      <3>1. PICK m \in Upto(list, n - 1, e.Id) : a.expect[e.Id] = list[m].N + 1
        BY <2>4
      <3>2. m \in In(list, e.Id) /\ m <= n - 1 /\ n \in In(list, e.Id) /\ m \in DOMAIN list
        BY <1>0 DEF Upto, In
      <3>3. m < n /\ list[m].N \in Nat
        <4>1. m \in Nat /\ list[m] \in EntryN
          BY <1>0, <3>2, SMTT(60)
        <4>2. QED
          BY <1>0, <3>2, <4>1, SMTT(60) DEF EntryN
      <3>4. list[m].N < e.N
        BY <1>0, <3>2, <3>3 DEF Rising
      <3>5. QED
        BY <1>0, <2>2, <3>1, <3>3, <3>4, SMTT(60)
    <2>5. QED
      BY <1>0, <2>2, <2>3, <2>4 DEF Found
  <1>3. ~b.old
    <2>1. ~(a.expect[e.Id] > e.N)
      BY <1>0, <1>2, SMTT(60)
    <2>2. QED
      BY <1>1, <2>1
  <1>4. ASSUME NEW c \in Client, c # e.Id PROVE Found(list, n, b, c)
    <2>1. Upto(list, n, c) = Upto(list, n - 1, c)
      BY <1>4, UptoIs
    <2>2. b.expect[c] = a.expect[c] /\ b.skipped[c] = a.skipped[c]
      BY <1>1, <1>4
    <2>3. QED
      BY <2>1, <2>2 DEF Found
  <1>5. Found(list, n, b, e.Id)
    <2> DEFINE u == Cardinality(Upto(list, n - 1, e.Id))
    <2>1. /\ Upto(list, n, e.Id) = Upto(list, n - 1, e.Id) \cup {n} /\ u \in Nat
          /\ Cardinality(Upto(list, n, e.Id)) = u + 1
      BY <1>0, UptoIs
    <2>2. a.skipped[e.Id] + u = a.expect[e.Id]
      BY <1>0 DEF Found
    <2> HIDE DEF u
    <2>3. b.skipped[e.Id] + (u + 1) = b.expect[e.Id]
      BY <1>0, <1>1, <1>2, <2>1, <2>2, SMTT(60)
    <2>4. QED
      BY <1>1, <2>1, <2>3 DEF Found
  <1>6. QED
    BY <1>3, <1>4, <1>5

\* CheckAppends' loop over a list in which the numbers of each client rise
\* (kvtest.go:338-349).
LEMMA ScanFinds ==
    ASSUME NEW list \in Seq(EntryN), Rising(list)
    PROVE  /\ Scan(list) \in Scans /\ ~Scan(list).old
           /\ \A c \in Client : Found(list, Len(list), Scan(list), c)
  <1> DEFINE M == Len(list)
  <1>1. PICK h \in [0 .. M -> Scans] :
            /\ h[0] = Start /\ \A n \in 1 .. M : h[n] = Meet(h[n - 1], list[n])
            /\ Scan(list) = h[M]
    BY ScanTurns DEF ScanRuns
  <1>0. /\ M \in Nat /\ 0 \in 0 .. M /\ M \in 0 .. M
        /\ \A n \in 1 .. M : n \in 0 .. M /\ n - 1 \in 0 .. M /\ list[n] \in EntryN
    BY SMTT(60)
  <1> DEFINE P == {n \in 0 .. M : ~h[n].old /\ \A c \in Client : Found(list, n, h[n], c)}
  <1>2. 0 \in P
    <2>1. ASSUME NEW c \in Client PROVE Found(list, 0, Start, c)
      <3>1. Upto(list, 0, c) = {}
        <4>1. \A m \in 1 .. M : ~(m <= 0)
          BY <1>0, SMTT(60)
        <4>2. In(list, c) \subseteq 1 .. M
          BY InFinite
        <4>3. QED
          BY <4>1, <4>2 DEF Upto
      <3>2. Cardinality(Upto(list, 0, c)) = 0
        BY <3>1, FS_EmptySet
      <3>3. Start.expect[c] = 0 /\ Start.skipped[c] = 0
        BY DEF Start
      <3>4. 0 + 0 = 0
        BY SMTT(60)
      <3>5. QED
        BY <3>2, <3>3, <3>4 DEF Found
    <2>2. ~Start.old
      BY DEF Start
    <2>3. QED
      BY <1>0, <1>1, <2>1, <2>2
  <1>3. ASSUME NEW n \in 1 .. M, n - 1 \in P PROVE n \in P
    <2>1. h[n - 1] \in Scans /\ h[n] = Meet(h[n - 1], list[n])
      BY <1>0, <1>1
    <2>2. Met(h[n], h[n - 1], list[n])
      BY <1>0, <2>1, MeetIs
    <2>3. ~h[n].old /\ \A c \in Client : Found(list, n, h[n], c)
      BY <1>3, <2>1, <2>2, FoundTurn
    <2>4. QED
      BY <1>0, <2>3
  <1>4. \A n \in 0 .. M : n \in P
    <2> HIDE DEF P, M
    <2>1. QED
      BY <1>0, <1>2, <1>3, Turns
  <1>5. M \in P
    BY <1>0, <1>4
  <1>6. QED
    BY <1>0, <1>1, <1>5

\* CheckAppends accepts the list when the clients have returned: a number is skipped only for
\* a Put that may have failed (kvtest.go:331-360).
LEMMA AppendsAddUp ==
    ASSUME Base, Appends, workload = "append", \A c \in Client : pc[c] = "returned"
    PROVE  CheckAppends = ""
  <1> DEFINE list == st[k].value
             a == Scan(list)
  <1>0. /\ list \in Seq(EntryN) /\ st[k].version = Len(list) + 1
        /\ \A c \in Client : AppendOf(c) /\ CountType(c)
    BY CountTypes DEF Appends, IsList, Base
  <1>1. \A c \in Client : Keeps(list, c, res[c].Nok, iter[c])
    <2>1. ASSUME NEW c \in Client PROVE Keeps(list, c, res[c].Nok, iter[c])
      <3>1. Low(c) = res[c].Nok + 0 /\ High(c) = iter[c] + 0
        BY DEF Low, High, Landed
      <3>2. Low(c) = res[c].Nok /\ High(c) = iter[c]
        BY <1>0, <3>1, SMTT(60) DEF CountType
      <3>3. QED
        BY <1>0, <3>2 DEF AppendOf
    <2>2. QED
      BY <2>1
  <1>2. Rising(list)
    BY <1>1 DEF Keeps, Rising
  <1> HIDE DEF list
  <1>3. /\ a \in Scans /\ ~a.old /\ Len(list) \in Nat
        /\ \A c \in Client : Found(list, Len(list), a, c)
    BY <1>0, <1>2, ScanFinds, InFinite
  <1> HIDE DEF a
  <1>4. ASSUME NEW c \in Client
        PROVE  /\ ~(a.skipped[c] > res[c].Nmaybe)
               /\ ~(a.expect[c] > res[c].Nok + res[c].Nmaybe)
    <2> DEFINE u == Cardinality(In(list, c))
    <2>1. Upto(list, Len(list), c) = In(list, c) /\ u \in Nat
      <3>1. In(list, c) \subseteq 1 .. Len(list) /\ u \in Nat
        BY <1>0, InFinite
      <3>2. \A m \in 1 .. Len(list) : m <= Len(list)
        BY <1>3, SMTT(60)
      <3>3. QED
        BY <3>1, <3>2 DEF Upto
    <2>2. /\ a.skipped[c] + u = a.expect[c]
          /\ a.expect[c] = 0 \/ \E m \in In(list, c) : a.expect[c] = list[m].N + 1
      BY <1>3, <2>1 DEF Found
    <2>3. u >= res[c].Nok /\ \A m \in In(list, c) : list[m].N < iter[c]
      BY <1>1 DEF Keeps
    <2>4. a.expect[c] \in Int /\ a.skipped[c] \in Int
      <3>1. a.expect \in [Client -> Int] /\ a.skipped \in [Client -> Int]
        BY <1>3, SMTT(60) DEF Scans
      <3>2. QED
        BY <3>1
    <2>5. /\ iter[c] = res[c].Nok + res[c].Nmaybe /\ iter[c] \in Nat
          /\ res[c].Nok \in Nat /\ res[c].Nmaybe \in Nat
      BY <1>0 DEF AppendOf, CountType
    <2> HIDE DEF u
    <2>6. a.expect[c] <= iter[c]
      <3>1. CASE a.expect[c] = 0
        BY <2>5, <3>1, SMTT(60)
      <3>2. CASE \E m \in In(list, c) : a.expect[c] = list[m].N + 1
        <4>1. PICK m \in In(list, c) : a.expect[c] = list[m].N + 1
          BY <3>2
        <4>2. list[m] \in EntryN /\ list[m].N < iter[c]
          <5>1. m \in DOMAIN list
            BY DEF In
          <5>2. list[m] \in EntryN
            BY <1>0, <5>1, SMTT(60)
          <5>3. QED
            BY <2>3, <5>2
        <4>3. list[m].N \in Nat
          BY <4>2, SMTT(60) DEF EntryN
        <4>4. QED
          BY <2>5, <4>1, <4>2, <4>3, SMTT(60)
      <3>3. QED
        BY <2>2, <3>1, <3>2
    <2>7. QED
      BY <2>1, <2>2, <2>3, <2>4, <2>5, <2>6, SMTT(60)
  <1>5. Len(list) + 1 = st[k].version
    BY <1>0
  <1>6. CheckAppends =
            CASE a.old -> "old put"
              [] ~a.old /\ Len(list) + 1 # st[k].version -> "appends"
              [] ~a.old /\ \E c \in Client : \/ a.skipped[c] > res[c].Nmaybe
                                             \/ a.expect[c] > res[c].Nok + res[c].Nmaybe -> "counts"
              [] OTHER -> ""
    BY DEF CheckAppends, a, list
  <1>7. QED
    BY <1>3, <1>4, <1>5, <1>6

\* The list is empty before the first Put of a client.
LEMMA AppendsInit == Init => Appends
  <1> SUFFICES ASSUME Init, workload = "append"
               PROVE  IsList /\ \A c \in Client : AppendOf(c)
    BY DEF Appends
  <1>1. st[k].value = <<>> /\ st[k].version = 1
    <2>1. st = [x \in {k} |-> [value |-> <<>>, version |-> 1]]
      BY DEF Init
    <2>2. QED
      BY <2>1, SMTT(60)
  <1>2. IsList
    <2>1. <<>> \in Seq(EntryN) /\ Len(<<>>) + 1 = 1
      BY SMTT(60)
    <2>2. QED
      BY <1>1, <2>1 DEF IsList
  <1>3. ASSUME NEW c \in Client PROVE AppendOf(c)
    <2>1. res[c].Nok = 0 /\ res[c].Nmaybe = 0 /\ iter[c] = 0 /\ pc[c] = "top" /\ phase[c] = "idle"
      BY DEF Init
    <2>2. Low(c) = 0 + 0 /\ High(c) = 0 + 0 /\ 0 + 0 = 0
      <3>1. 0 + 0 = 0
        BY SMTT(60)
      <3>2. QED
        BY <2>1, <3>1 DEF Low, High, Landed
    <2>3. In(<<>>, c) = {}
      <3>1. DOMAIN <<>> = {}
        BY SMTT(60)
      <3>2. QED
        BY <3>1 DEF In
    <2>4. Cardinality(In(<<>>, c)) >= 0
      <3>1. Cardinality(In(<<>>, c)) = 0
        BY <2>3, FS_EmptySet
      <3>2. QED
        BY <3>1, SMTT(60)
    <2>5. Keeps(<<>>, c, 0, 0)
      BY <2>3, <2>4 DEF Keeps
    <2>6. Current(c)
      BY <2>1 DEF Current
    <2>7. QED
      BY <1>1, <2>1, <2>2, <2>5, <2>6 DEF AppendOf
  <1>4. QED
    BY <1>2, <1>3

\* Every step keeps it.
LEMMA AppendsStep == Inv /\ Base /\ Base' /\ Appends /\ [Next]_vars => Appends'
  <1> SUFFICES ASSUME Inv, Base, Base', Appends, [Next]_vars PROVE Appends'
    OBVIOUS
  <1>1. workload' = workload
    BY SameWorkload
  <1>2. SUFFICES ASSUME workload = "append" PROVE Appends'
    BY <1>1 DEF Appends
  <1>3. ASSUME NEW c \in Client, CallReturns(c) PROVE Appends'
    <2>1. PICK out : Returned(c, out)
      BY <1>3, ReturnIs
    <2>2. AppendGot(c, out) \/ AppendPut(c, out)
      BY <1>2, <2>1 DEF Returned, OnePutDone, OnePutGot, AtLeastPut, Returns
    <2>3. QED
      BY <1>2, <2>1, <2>2, AppendGotKeeps, AppendPutKeeps
  <1>4. CASE SleepOver \/ NextDone \/ Check \/ UNCHANGED vars
    <2>1. UNCHANGED <<kvVars, clientVars>>
      BY <1>4 DEF SleepOver, NextDone, Check, vars
    <2>2. IsList'
      BY <1>2, <2>1 DEF Appends, IsList, kvVars
    <2>3. ASSUME NEW c \in Client PROVE AppendOf(c)'
      <3>1. AppendOf(c)
        BY <1>2 DEF Appends
      <3>2. Low(c)' = Low(c) /\ High(c)' = High(c) /\ Current(c)'
        BY <2>1, <3>1 DEF Low, High, Landed, AppendOf, Current, kvVars, clientVars
      <3>3. QED
        BY <2>1, <3>1, <3>2 DEF AppendOf, kvVars, clientVars
    <2>4. QED
      BY <2>2, <2>3 DEF Appends
  <1>5. QED
    BY <1>2, <1>3, <1>4, AppendTop, AppendCall, AppendEffect DEF Next, Step

-----------------------------------------------------------------------------

\* What the workloads rely on.
Sound == Inv /\ Base /\ Started /\ Puts /\ Appends

\* Every reachable state satisfies it.
LEMMA SoundAlways == Spec => []Sound
  <1>1. Inv /\ Base /\ Puts /\ Appends /\ (Inv /\ Base)' /\ [Next]_vars => (Puts /\ Appends)'
    BY PutsStep, AppendsStep
  <1>2. Init => Puts /\ Appends
    BY PutsInit, AppendsInit
  <1>3. Spec => [](Puts /\ Appends)
    BY <1>1, <1>2, BaseAlways, PTL DEF Spec
  <1>4. Inv /\ Base /\ Started /\ Puts /\ Appends => Sound
    BY DEF Sound
  <1>5. QED
    BY <1>3, <1>4, BaseAlways, StartedAlways, PTL

\* No append that was answered OK is lost, whoever else appends and whichever answers are
\* lost, and the entries of a client are in the order of its iterations: a Put is accepted
\* only while the list is the one its client read (kvtest.go:306-318).
THEOREM AppendsAreKept == Spec => []AppendsKept
  <1>1. Base /\ Appends => AppendsKept
    <2> SUFFICES ASSUME Base, Appends, workload = "append", NEW c \in Client
                 PROVE  /\ Cardinality(EntriesOf(c)) >= res[c].Nok
                        /\ \A m, n \in EntriesOf(c) : m < n => st[k].value[m].N < st[k].value[n].N
      BY DEF AppendsKept
    <2>1. EntriesOf(c) = In(st[k].value, c)
      BY DEF EntriesOf, In
    <2>2. Keeps(st[k].value, c, Low(c), High(c)) /\ st[k].value \in Seq(EntryN) /\ CountType(c)
      BY CountTypes DEF Base, Appends, AppendOf, IsList
    <2>3. Cardinality(In(st[k].value, c)) >= res[c].Nok
      <3>1. Cardinality(In(st[k].value, c)) \in Nat
        BY <2>2, InFinite
      <3>2. Cardinality(In(st[k].value, c)) >= Low(c)
        BY <2>2 DEF Keeps
      <3>3. res[c].Nok \in Nat /\ (Low(c) = res[c].Nok + 1 \/ Low(c) = res[c].Nok + 0)
        BY <2>2 DEF Low, CountType
      <3>4. QED
        BY <3>1, <3>2, <3>3, SMTT(60)
    <2>4. QED
      BY <2>1, <2>2, <2>3 DEF Keeps
  <1>2. QED
    BY <1>1, SoundAlways, PTL DEF Sound

\* A store that implements KVModel makes no workload call Fatalf, for any number of clients
\* and of iterations, on a reliable network and on one that loses answers
\* (kvtest.go:103-116, 184-203, 331-360).
THEOREM AllChecksPass == Spec => []ChecksPass
  <1>1. Sound /\ Sound' /\ ChecksPass /\ [Next]_vars => ChecksPass'
    <2> SUFFICES ASSUME Sound, Sound', ChecksPass, [Next]_vars PROVE ChecksPass'
      OBVIOUS
    <2>0. Inv /\ Inv' /\ Base /\ Base' /\ Started /\ Puts /\ Appends /\ fatal = ""
      BY DEF Sound, ChecksPass
    <2>1. ASSUME NEW c \in Client, CallReturns(c) PROVE fatal' = ""
      <3>1. PICK out : Returned(c, out)
        BY <2>0, <2>1, ReturnIs
      <3>2. CASE OnePutDone(c, out) \/ OnePutGot(c, out)
        <4>1. workload = "put"
          BY <3>2 DEF OnePutDone, OnePutGot, Returns
        <4>2. QED
          BY <2>0, <3>1, <3>2, <4>1, PutDone, PutGot
      <3>3. CASE AppendGot(c, out)
        <4>1. workload = "append"
          BY <3>3 DEF AppendGot, Returns
        <4>2. QED
          BY <2>0, <3>1, <3>3, <4>1, AppendGotKeeps
      <3>4. CASE AppendPut(c, out) \/ AtLeastPut(c, out)
        BY <2>0, <3>4 DEF AppendPut, AtLeastPut
      <3>5. QED
        BY <3>1, <3>2, <3>3, <3>4 DEF Returned
    <2>2. CASE Check
      <3>1. /\ main # "sleep" /\ \A c \in Client : pc[c] = "returned"
            /\ workload \in {"put", "append", "atleast"}
            /\ fatal' = CASE workload = "put" -> CheckPutConcurrent
                          [] workload = "append" -> CheckAppends
                          [] workload = "atleast" -> ""
        BY <2>0, <2>2 DEF Check, Base, Typed
      <3>2. CASE workload = "put"
        BY <2>0, <3>1, <3>2, PutsAddUp DEF ChecksPass
      <3>3. CASE workload = "append"
        BY <2>0, <3>1, <3>3, AppendsAddUp DEF ChecksPass
      <3>4. CASE workload = "atleast"
        BY <3>1, <3>4 DEF ChecksPass
      <3>5. QED
        BY <3>1, <3>2, <3>3, <3>4
    <2>3. ASSUME NEW c \in Client, ReceiveDone(c) \/ Default(c) \/ Call(c) \/ Effect(c)
          PROVE  UNCHANGED fatal
      BY <2>3 DEF ReceiveDone, Default, Call, Effect
    <2>4. CASE SleepOver \/ NextDone \/ UNCHANGED vars
      BY <2>0, <2>4 DEF SleepOver, NextDone, vars, ChecksPass
    <2>5. QED
      BY <2>0, <2>1, <2>2, <2>3, <2>4 DEF Next, Step, ChecksPass
  <1>2. Init => ChecksPass
    BY DEF Init, ChecksPass
  <1>3. QED
    BY <1>1, <1>2, SoundAlways, PTL DEF Spec

-----------------------------------------------------------------------------

(***************************************************************************)
(* The done signals.  As many clients have returned as signals were        *)
(* received, whichever clients took them.                                  *)
(***************************************************************************)
Gone == {c \in Client : pc[c] = "returned"}

Signals ==
    /\ told = Cardinality(Gone)
    /\ main \in {"sleep", "sending", "sent", "collect", "over"}
    /\ main = "sending" => told # nclnt
    /\ main \in {"collect", "over"} => told = nclnt
    /\ main = "sleep" => told = 0

\* There are nclnt clients, of which no more can have returned.
LEMMA GoneType ==
    ASSUME NEW S \in SUBSET Client
    PROVE  /\ IsFiniteSet(S) /\ Cardinality(S) \in Nat /\ Cardinality(S) <= nclnt
           /\ Cardinality(S) = nclnt => S = Client
  <1>1. IsFiniteSet(Client) /\ Cardinality(Client) = nclnt
    <2>1. 0 \in Int /\ nclnt - 1 \in Int /\ nclnt \in Nat
      BY KVTestAssumption, SMTT(60)
    <2>2. IsFiniteSet(0 .. nclnt - 1) /\ Cardinality(0 .. nclnt - 1) = nclnt
      BY <2>1, FS_Interval, SMTT(60)
    <2>3. QED
      BY <2>2 DEF Client
  <1>2. /\ IsFiniteSet(S) /\ Cardinality(S) <= Cardinality(Client)
        /\ Cardinality(S) = Cardinality(Client) => S = Client
    BY <1>1, FS_Subset
  <1>3. QED
    BY <1>1, <1>2, FS_CardinalityType

\* A step that is not the end of a client leaves the clients that have returned.
LEMMA GoneSame ==
    ASSUME Inv, Base, [Next]_vars, \A c \in Client : ~ReceiveDone(c)
    PROVE  Gone' = Gone /\ told' = told
  <1>1. ASSUME NEW c \in Client, CallReturns(c) PROVE Gone' = Gone /\ told' = told
    <2>1. PICK out : Returned(c, out)
      BY <1>1, ReturnIs
    <2>2. pc[c] \in {"put", "get"} /\ told' = told
      BY <2>1 DEF Returned, CallAtPc, mainVars
    <2>3. UNCHANGED pc \/ \E l \in {"top", "put", "get"} : pc' = [pc EXCEPT ![c] = l]
      BY <2>1 DEF Returned, OnePutDone, OnePutGot, AppendGot, AppendPut, AtLeastPut, Count, Goto
    <2>4. QED
      BY <2>2, <2>3 DEF Gone, Inv, Types
  <1>2. ASSUME NEW c \in Client, Default(c) PROVE Gone' = Gone /\ told' = told
    <2>1. /\ pc[c] = "top" /\ told' = told
          /\ \E l \in {"get", "put"} : pc' = [pc EXCEPT ![c] = l]
      BY <1>2 DEF Default, mainVars
    <2>2. QED
      BY <2>1 DEF Gone, Inv, Types
  <1>3. ASSUME NEW c \in Client, Call(c) \/ Effect(c) PROVE Gone' = Gone /\ told' = told
    BY <1>3 DEF Call, Effect, mainVars, clientVars, Gone
  <1>4. CASE SleepOver \/ NextDone \/ Check \/ UNCHANGED vars
    BY <1>4 DEF SleepOver, NextDone, Check, vars, mainVars, clientVars, Gone
  <1>5. QED
    BY <1>1, <1>2, <1>3, <1>4 DEF Next, Step

\* Every reachable state satisfies it.
LEMMA SignalsAlways == Spec => []Signals
  <1>1. Init => Signals
    <2> SUFFICES ASSUME Init PROVE Signals
      OBVIOUS
    <2>1. Gone = {}
      BY DEF Init, Gone
    <2>2. Cardinality(Gone) = 0
      BY <2>1, FS_EmptySet
    <2>3. QED
      BY <2>2 DEF Init, Signals
  <1>2. Inv /\ Base /\ Signals /\ [Next]_vars => Signals'
    <2> SUFFICES ASSUME Inv, Base, Signals, [Next]_vars PROVE Signals'
      OBVIOUS
    <2>1. ASSUME NEW c \in Client, ReceiveDone(c) PROVE Signals'
      <3>1. /\ pc[c] = "top" /\ pc' = [pc EXCEPT ![c] = "returned"]
            /\ main' = "sent" /\ told' = told + 1
        BY <2>1 DEF ReceiveDone
      <3>2. Gone' = Gone \cup {c} /\ c \notin Gone
        BY <3>1 DEF Gone, Inv, Types
      <3>3. IsFiniteSet(Gone)
        <4>1. Gone \in SUBSET Client
          BY DEF Gone
        <4>2. QED
          BY <4>1, GoneType
      <3>4. Cardinality(Gone') = Cardinality(Gone) + 1
        BY <3>2, <3>3, FS_AddElement
      <3>5. QED
        BY <3>1, <3>4 DEF Signals
    <2>2. ASSUME \A c \in Client : ~ReceiveDone(c) PROVE Signals'
      <3>1. Gone' = Gone /\ told' = told
        BY <2>2, GoneSame
      <3>2. ASSUME NEW c \in Client, Step(c) PROVE main' = main
        <4>1. CASE CallReturns(c)
          <5>1. PICK out : Returned(c, out)
            BY <4>1, ReturnIs
          <5>2. QED
            BY <5>1 DEF Returned, mainVars
        <4>2. CASE Default(c) \/ Call(c) \/ Effect(c)
          BY <4>2 DEF Default, Call, Effect, mainVars
        <4>3. QED
          BY <2>2, <3>2, <4>1, <4>2 DEF Step
      <3>3. CASE main' = main
        BY <3>1, <3>3 DEF Signals
      <3>4. CASE SleepOver
        <4>1. nclnt # 0
          <5>1. Client # {} /\ nclnt \in Nat
            BY <3>4, KVTestAssumption DEF SleepOver
          <5>2. QED
            BY <5>1, SMTT(60) DEF Client
        <4>2. main = "sleep" /\ main' = "sending"
          BY <3>4 DEF SleepOver
        <4>3. told = 0 /\ told = Cardinality(Gone)
          BY <4>2 DEF Signals
        <4>4. QED
          BY <3>1, <4>1, <4>2, <4>3, SMTT(60) DEF Signals
      <3>5. CASE NextDone \/ Check
        BY <3>1, <3>5 DEF NextDone, Check, Signals
      <3>6. QED
        BY <3>2, <3>3, <3>4, <3>5 DEF Next, vars, mainVars
    <2>3. QED
      BY <2>1, <2>2
  <1>3. QED
    BY <1>1, <1>2, BaseAlways, PTL DEF Spec

\* SpawnClientsAndWait and the clients do not wait for each other in vain: a done signal is
\* sent only while some client is left to receive it, and the results are collected when
\* every client has received one (kvtest.go:137-143).
THEOREM EveryClientTold ==
    Spec => []/\ main = "sending" => \E c \in Client : pc[c] # "returned"
              /\ main \in {"collect", "over"} => \A c \in Client : pc[c] = "returned"
  <1>1. Signals => /\ main = "sending" => \E c \in Client : pc[c] # "returned"
                   /\ main \in {"collect", "over"} => \A c \in Client : pc[c] = "returned"
    <2> SUFFICES ASSUME Signals
                 PROVE  /\ main = "sending" => \E c \in Client : pc[c] # "returned"
                        /\ main \in {"collect", "over"} => \A c \in Client : pc[c] = "returned"
      OBVIOUS
    <2>1. Gone \in SUBSET Client /\ Client \in SUBSET Client
      BY DEF Gone
    <2>2. Cardinality(Gone) = nclnt => Gone = Client
      BY <2>1, GoneType
    <2>3. Cardinality(Client) = nclnt
      <3>1. 0 \in Int /\ nclnt - 1 \in Int /\ nclnt \in Nat
        BY KVTestAssumption, SMTT(60)
      <3>2. Cardinality(0 .. nclnt - 1) = nclnt
        BY <3>1, FS_Interval, SMTT(60)
      <3>3. QED
        BY <3>2 DEF Client
    <2>4. (\A c \in Client : pc[c] = "returned") <=> Gone = Client
      BY DEF Gone
    <2>5. QED
      BY <2>2, <2>3, <2>4 DEF Signals
  <1>2. QED
    BY <1>1, SignalsAlways, PTL

=============================================================================
