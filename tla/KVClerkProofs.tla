---------------------------- MODULE KVClerkProofs ---------------------------
(***************************************************************************)
(* Proofs about KVClerk for every set of invocations, keys and values.     *)
(***************************************************************************)
EXTENDS KVClerk, TLAPS

\* Zenon proves the steps that name no other prover.
USE ZenonT(30)

(***************************************************************************)
(* Facts about the server's handlers.                                      *)
(***************************************************************************)

\* What an answer to a Put says.
LEMMA AnswerErr == \A e : PutAnswer(e).err = e
  BY DEF PutAnswer

\* What the op field of a request says.
LEMMA ArgsOp ==
    ASSUME NEW a \in Args
    PROVE  /\ a.key \in Key
           /\ a.op \in {"get", "put"}
           /\ a.op = "get" => a \in GetArgs
           /\ a.op = "put" => a \in PutArgs
           /\ a # NoArgs
  <1>1. NoArgs.op = "none"
    BY DEF NoArgs
  <1>2. QED
    BY <1>1 DEF Args, GetArgs, PutArgs

\* A handler leaves a map, and answers with a reply.
LEMMA HandlerType ==
    ASSUME NEW mm, IsMap(mm), NEW a \in Args
    PROVE  /\ IsMap(HandlerMap(mm, a))
           /\ HandlerReply(mm, a) \in Reply
           /\ HandlerReply(mm, a) # NoReply
  <1>1. a.op \in {"get", "put"} /\ a.key \in Key
    BY ArgsOp
  <1>2. CASE a.op = "get"
    BY <1>1, <1>2 DEF HandlerMap, HandlerReply, GetReply, IsMap, Entry, Reply, NoReply,
        OK, ErrNoKey, ErrVersion, ErrMaybe
  <1>3. CASE a.op = "put"
    <2>1. a \in PutArgs
      BY <1>3, ArgsOp
    <2>2. PutEntry(mm, a) \in Entry
      BY <2>1, SMTT(60) DEF PutEntry, Entry, IsMap, PutArgs
    <2>3. IsMap(PutMap(mm, a))
      BY <1>1, <2>2 DEF PutMap, IsMap
    <2>4. PutReply(mm, a) \in Reply /\ PutReply(mm, a) # NoReply
      BY DEF PutReply, PutAnswer, PutErr, Reply, NoReply, OK, ErrNoKey, ErrVersion, ErrMaybe
    <2>5. QED
      BY <1>3, <2>3, <2>4 DEF HandlerMap, HandlerReply
  <1>4. QED
    BY <1>1, <1>2, <1>3

\* The version a key has, 0 while it is absent.
VersionOf(mm, k) == IF k \in DOMAIN mm THEN mm[k].version ELSE 0

\* No handler takes a version back, and an accepted Put moves it past its own.
LEMMA HandlerVersion ==
    ASSUME NEW mm, IsMap(mm), NEW a \in Args, NEW k \in Key
    PROVE  /\ VersionOf(mm, k) \in Nat
           /\ VersionOf(HandlerMap(mm, a), k) \in Nat
           /\ VersionOf(HandlerMap(mm, a), k) >= VersionOf(mm, k)
           /\ k \in DOMAIN mm => k \in DOMAIN HandlerMap(mm, a)
  <1>1. VersionOf(mm, k) \in Nat
    BY DEF VersionOf, IsMap, Entry
  <1>2. CASE a.op = "get"
    BY <1>1, <1>2, SMTT(60) DEF HandlerMap
  <1>3. CASE a.op # "get"
    BY <1>1, <1>3, SMTT(60) DEF HandlerMap, PutMap, PutEntry, VersionOf, IsMap, Entry
  <1>4. QED
    BY <1>1, <1>2, <1>3

\* A Put is accepted exactly at its own version, which it then increments.
LEMMA PutAccepts ==
    ASSUME NEW mm, IsMap(mm), NEW a \in PutArgs, PutErr(mm, a) = OK
    PROVE  /\ VersionOf(mm, a.key) = a.version
           /\ VersionOf(PutMap(mm, a), a.key) = a.version + 1
           /\ a.key \in DOMAIN PutMap(mm, a)
  BY VersionAssumption, SMTT(60)
     DEF PutErr, PutMap, PutEntry, VersionOf, IsMap, Entry, PutArgs, OK, ErrVersion, ErrNoKey

-----------------------------------------------------------------------------

(***************************************************************************)
(* Type correctness.                                                       *)
(***************************************************************************)

\* The initial state has the types.
LEMMA TypeInit == Init => TypeOK
  <1> SUFFICES ASSUME Init PROVE TypeOK
    OBVIOUS
  <1>1. IsMap(m)
    BY DEF Init, IsMap, MakeKVServer
  <1>2. abandoned \in BOOLEAN
    BY DEF Init
  <1>3. QED
    BY <1>1, <1>2, SettingAssumption, SMTT(60) DEF Init, TypeOK, PC

\* Every step keeps the types.
LEMMA TypeStep == TypeOK /\ [Next]_vars => TypeOK'
  <1> SUFFICES ASSUME TypeOK, [Next]_vars PROVE TypeOK'
    OBVIOUS
  <1>1. ASSUME NEW o \in Op, NEW a \in Args, Invoke(o, a) PROVE TypeOK'
    <2>1. a # NoArgs
      BY ArgsOp
    <2>2. QED
      BY <1>1, <2>1 DEF TypeOK, Invoke, PC, IsMap
  <1>2. ASSUME NEW o \in Op, LoseRequest(o) PROVE TypeOK'
    BY <1>2 DEF TypeOK, LoseRequest, Retry, PC, IsMap
  <1>3. ASSUME NEW o \in Op, Dispatch(o) PROVE TypeOK'
    BY <1>3 DEF TypeOK, Dispatch, PC, IsMap
  <1>4. ASSUME NEW o \in Op, Handle(o) PROVE TypeOK'
    <2>1. args[o] \in Args
      BY <1>4 DEF TypeOK, Handle
    <2>2. /\ IsMap(HandlerMap(m, args[o]))
          /\ HandlerReply(m, args[o]) \in Reply
          /\ HandlerReply(m, args[o]) # NoReply
      BY <2>1, HandlerType DEF TypeOK
    <2>3. QED
      BY <1>4, <2>2, SMTT(60) DEF TypeOK, Handle, Execute, PC, IsMap
  <1>5. ASSUME NEW o \in Op, HandleLate(o) PROVE TypeOK'
    <2>1. args[o] \in Args
      BY <1>5, SMTT(60) DEF TypeOK, HandleLate
    <2>2. /\ IsMap(HandlerMap(m, args[o]))
          /\ HandlerReply(m, args[o]) \in Reply
      BY <2>1, HandlerType DEF TypeOK
    <2>3. QED
      BY <1>5, <2>2, SettingAssumption, SMTT(60) DEF TypeOK, HandleLate, Execute, PC, IsMap
  <1>6. ASSUME NEW o \in Op, Abandon(o) PROVE TypeOK'
    BY <1>6, SettingAssumption, SMTT(60) DEF TypeOK, Abandon, Retry, PC, IsMap
  <1>7. ASSUME NEW o \in Op, LoseReply(o) PROVE TypeOK'
    BY <1>7 DEF TypeOK, LoseReply, Retry, PC, IsMap
  <1>8. ASSUME NEW o \in Op, Return(o) PROVE TypeOK'
    <2>1. reply[o] \in Reply /\ reply[o] # NoReply
      BY <1>8 DEF TypeOK, Return
    <2>2. ClerkResult(args[o], reply[o], retried[o]) \in Reply \ {NoReply}
      BY <2>1 DEF ClerkResult, PutAnswer, Reply, NoReply, OK, ErrNoKey, ErrVersion, ErrMaybe
    <2>3. QED
      BY <1>8, <2>2 DEF TypeOK, Return, PC, IsMap
  <1>9. CASE UNCHANGED vars
    BY <1>9 DEF TypeOK, vars, IsMap
  <1>10. QED
    BY <1>1, <1>2, <1>3, <1>4, <1>5, <1>6, <1>7, <1>8, <1>9 DEF Next, Step

\* Every variable keeps its type, and locals are live exactly where the clerk
\* uses them (client.go:24-80, labrpc.go:231-322).
THEOREM TypeCorrect == Spec => []TypeOK
  BY TypeInit, TypeStep, PTL DEF Spec

-----------------------------------------------------------------------------

(***************************************************************************)
(* The inductive invariant.  Its heart is the first two conjuncts: once    *)
(* the server has accepted a Put, the key's version is past the Put's, so  *)
(* every other RPC of the same invocation, resent or late, is refused.     *)
(***************************************************************************)

\* Every key the server has holds a version of at least 1.
StoredVersions == \A k \in DOMAIN m : m[k].version > 0

\* An accepted Put has moved the version past its own, once.
AppliedInv(o) ==
    /\ applied[o] <= 1
    /\ applied[o] = 1 => IsPut(o) /\ VersionOf(m, args[o].key) > args[o].version

\* Before the first resend nothing of this invocation has run unseen.
FreshInv(o) ==
    /\ pc[o] = "idle" => ~retried[o]
    /\ ~retried[o] => late[o] = 0
    /\ ~retried[o] /\ pc[o] \in {"idle", "call", "handling"} => applied[o] = 0
    /\ ~abandoned => late[o] = 0

\* What answers and results say about the effect of a Put.
AnswerInv(o) ==
    /\ pc[o] = "replying" /\ IsPut(o) =>
         /\ reply[o].err = OK => applied[o] = 1
         /\ reply[o].err = ErrVersion /\ ~retried[o] => applied[o] = 0
         /\ reply[o].err = ErrNoKey => applied[o] = 0 \/ abandoned
         /\ reply[o].err # ErrMaybe
    /\ Done(o) /\ IsPut(o) =>
         /\ result[o].err = OK => applied[o] = 1
         /\ result[o].err = ErrVersion => applied[o] = 0 /\ late[o] = 0
         /\ result[o].err = ErrNoKey => applied[o] = 0 \/ abandoned

CallInv ==
    /\ StoredVersions
    /\ \A o \in Op : AppliedInv(o) /\ FreshInv(o) /\ AnswerInv(o)

\* CallInv holds initially.
LEMMA CallInit == Init => CallInv
  <1> SUFFICES ASSUME Init PROVE CallInv
    OBVIOUS
  <1>1. DOMAIN m = {}
    BY DEF Init, MakeKVServer
  <1>2. \A o \in Op : /\ pc[o] = "idle" /\ ~retried[o] /\ applied[o] = 0 /\ late[o] = 0
    BY DEF Init
  <1>3. QED
    BY <1>1, <1>2, SMTT(60) DEF CallInv, StoredVersions, AppliedInv, FreshInv, AnswerInv, Done

\* What running a handler does to the invariant's first part: a Put that was accepted
\* before is refused with ErrVersion, one that was not is counted when accepted.
LEMMA ExecuteStep ==
    ASSUME TypeOK, CallInv, NEW o \in Op, args[o] \in Args, Execute(o),
           UNCHANGED args
    PROVE  /\ StoredVersions'
           /\ \A p \in Op : AppliedInv(p)'
           /\ \A p \in Op : p # o => applied'[p] = applied[p]
           /\ applied'[o] = applied[o] \/ (applied[o] = 0 /\ applied'[o] = 1)
           /\ IsPut(o) =>
                /\ HandlerReply(m, args[o]).err = OK => applied'[o] = 1
                /\ HandlerReply(m, args[o]).err # OK => applied'[o] = applied[o]
                /\ HandlerReply(m, args[o]).err = ErrNoKey => applied[o] = 0
                /\ HandlerReply(m, args[o]).err \in {OK, ErrVersion, ErrNoKey}
  <1> DEFINE a == args[o]
             r == HandlerReply(m, a)
             n == HandlerMap(m, a)
             accepted == a.op = "put" /\ r.err = OK
  <1>1. m' = n /\ IsMap(m) /\ applied \in [Op -> Nat]
        /\ applied' = [applied EXCEPT ![o] = IF accepted THEN @ + 1 ELSE @]
    BY DEF Execute, TypeOK
  <1>2. \A p \in Op : AppliedInv(p)
    BY DEF CallInv
  <1>3. ASSUME NEW p \in Op, IsPut(p)
        PROVE  /\ args[p] \in PutArgs /\ args[p].key \in Key
               /\ args[p].version \in Nat
               /\ VersionOf(m, args[p].key) \in Nat
               /\ VersionOf(n, args[p].key) \in Nat
               /\ VersionOf(n, args[p].key) >= VersionOf(m, args[p].key)
    <2>1. args[p] \in Args
      <3>1. NoArgs.op # "put"
        BY DEF NoArgs
      <3>2. QED
        BY <1>3, <3>1 DEF TypeOK, IsPut
    <2>2. args[p] \in PutArgs /\ args[p].key \in Key
      BY <1>3, <2>1, ArgsOp DEF IsPut
    <2>3. QED
      BY <1>1, <2>2, HandlerVersion, VersionAssumption DEF PutArgs
  <1>4. CASE accepted
    <2>1. IsPut(o) /\ a \in PutArgs /\ PutErr(m, a) = OK /\ n = PutMap(m, a)
      BY <1>3, <1>4 DEF IsPut, HandlerReply, HandlerMap, PutReply, PutAnswer
    <2>2. /\ VersionOf(m, a.key) = a.version
          /\ VersionOf(n, a.key) = a.version + 1
      BY <1>1, <2>1, PutAccepts
    <2>3. applied[o] = 0
      BY <1>1, <1>2, <1>3, <2>1, <2>2, SMTT(60) DEF AppliedInv
    <2>4. applied' = [applied EXCEPT ![o] = 1]
      BY <1>1, <1>4, <2>3, SMTT(60)
    <2>5. StoredVersions'
      BY <1>1, <2>1, SMTT(60) DEF StoredVersions, CallInv, PutMap, PutEntry, IsMap, Entry
    <2>6. \A p \in Op : AppliedInv(p)'
      BY <1>1, <1>2, <1>3, <2>1, <2>2, <2>4, SMTT(60) DEF AppliedInv, IsPut
    <2>7. QED
      BY <1>1, <1>4, <2>3, <2>4, <2>5, <2>6
         DEF HandlerReply, PutReply, PutAnswer, OK, ErrVersion, ErrNoKey
  <1>5. CASE ~accepted
    <2>1. n = m /\ applied' = applied
      BY <1>1, <1>5, ArgsOp DEF HandlerMap, HandlerReply, PutMap, PutReply, PutAnswer
    <2>2. StoredVersions' /\ \A p \in Op : AppliedInv(p)'
      BY <1>1, <1>2, <2>1 DEF StoredVersions, CallInv, AppliedInv, IsPut
    <2>3. ASSUME IsPut(o)
          PROVE  /\ r.err # OK
                 /\ r.err = ErrNoKey => applied[o] = 0
                 /\ r.err \in {OK, ErrVersion, ErrNoKey}
      <3>1. r.err = PutErr(m, a) /\ r.err # OK
        BY <1>5, <2>3 DEF IsPut, HandlerReply, PutReply, PutAnswer
      <3>2. r.err = ErrNoKey => VersionOf(m, a.key) = 0
        BY <3>1 DEF PutErr, VersionOf, OK, ErrVersion, ErrNoKey
      <3>3. r.err = ErrNoKey => applied[o] = 0
        BY <1>1, <1>2, <1>3, <2>3, <3>2, SMTT(60) DEF AppliedInv
      <3>4. QED
        BY <3>1, <3>3 DEF PutErr, OK, ErrVersion, ErrNoKey
    <2>4. QED
      BY <2>1, <2>2, <2>3
  <1>6. QED
    BY <1>4, <1>5

\* Every step keeps CallInv.
LEMMA CallStep == TypeOK /\ CallInv /\ [Next]_vars => CallInv'
  <1> SUFFICES ASSUME TypeOK, CallInv, [Next]_vars PROVE CallInv'
    OBVIOUS
  <1> USE DEF IsPut, Done
  <1>1. ASSUME NEW o \in Op, NEW a \in Args, Invoke(o, a) PROVE CallInv'
    BY <1>1, SMTT(60) DEF TypeOK, Invoke, CallInv, StoredVersions, AppliedInv, FreshInv, AnswerInv
  <1>2. ASSUME NEW o \in Op, LoseRequest(o) PROVE CallInv'
    BY <1>2, SMTT(60) DEF TypeOK, LoseRequest, Retry,
                CallInv, StoredVersions, AppliedInv, FreshInv, AnswerInv
  <1>3. ASSUME NEW o \in Op, Dispatch(o) PROVE CallInv'
    BY <1>3, SMTT(60) DEF TypeOK, Dispatch, CallInv, StoredVersions, AppliedInv, FreshInv, AnswerInv
  <1>4. ASSUME NEW o \in Op, Handle(o) PROVE CallInv'
    <2>1. args[o] \in Args /\ Execute(o) /\ UNCHANGED args
      BY <1>4 DEF TypeOK, Handle
    <2>2. /\ StoredVersions'
          /\ \A p \in Op : AppliedInv(p)'
          /\ \A p \in Op : p # o => applied'[p] = applied[p]
          /\ IsPut(o) =>
               /\ HandlerReply(m, args[o]).err = OK => applied'[o] = 1
               /\ HandlerReply(m, args[o]).err # OK => applied'[o] = applied[o]
               /\ HandlerReply(m, args[o]).err = ErrNoKey => applied[o] = 0
               /\ HandlerReply(m, args[o]).err \in {OK, ErrVersion, ErrNoKey}
      BY <2>1, ExecuteStep
    <2>3. \A p \in Op : FreshInv(p)' 
      BY <1>4, <2>2 DEF Handle, TypeOK, CallInv, FreshInv
    <2>4. \A p \in Op : AnswerInv(p)'
      BY <1>4, <2>2, SMTT(60) DEF Handle, TypeOK, CallInv, FreshInv, AnswerInv,
                        OK, ErrVersion, ErrNoKey, ErrMaybe
    <2>5. QED
      BY <2>2, <2>3, <2>4 DEF CallInv
  <1>5. ASSUME NEW o \in Op, HandleLate(o) PROVE CallInv'
    <2>1. args[o] \in Args /\ Execute(o) /\ UNCHANGED args
      BY <1>5, SMTT(60) DEF TypeOK, HandleLate
    <2>2. /\ StoredVersions'
          /\ \A p \in Op : AppliedInv(p)'
          /\ \A p \in Op : p # o => applied'[p] = applied[p]
          /\ applied'[o] = applied[o] \/ (applied[o] = 0 /\ applied'[o] = 1)
      BY <2>1, ExecuteStep
    <2>3. retried[o] /\ abandoned /\ late[o] # 0
      BY <1>5, SettingAssumption, SMTT(60) DEF HandleLate, TypeOK, CallInv, FreshInv
    <2>4. \A p \in Op : FreshInv(p)'
      BY <1>5, <2>2, <2>3 DEF HandleLate, TypeOK, CallInv, FreshInv
    <2>5. \A p \in Op : AnswerInv(p)'
      BY <1>5, <2>2, <2>3, SMTT(60) DEF HandleLate, TypeOK, CallInv, FreshInv, AnswerInv,
                              OK, ErrVersion, ErrNoKey, ErrMaybe
    <2>6. QED
      BY <2>2, <2>4, <2>5 DEF CallInv
  <1>6. ASSUME NEW o \in Op, Abandon(o) PROVE CallInv'
    BY <1>6, SMTT(60) DEF TypeOK, Abandon, Retry,
                CallInv, StoredVersions, AppliedInv, FreshInv, AnswerInv
  <1>7. ASSUME NEW o \in Op, LoseReply(o) PROVE CallInv'
    BY <1>7, SMTT(60) DEF TypeOK, LoseReply, Retry,
                CallInv, StoredVersions, AppliedInv, FreshInv, AnswerInv
  <1>8. ASSUME NEW o \in Op, Return(o) PROVE CallInv'
    <2>1. LET r == ClerkResult(args[o], reply[o], retried[o]) IN
            /\ r.err # ErrMaybe => r.err = reply[o].err
            /\ r.err = ErrVersion /\ IsPut(o) => ~retried[o]
      BY <1>8, AnswerErr DEF Return, TypeOK, ClerkResult, Reply, NoReply,
                  OK, ErrVersion, ErrNoKey, ErrMaybe
    <2>2. QED
      BY <1>8, <2>1, SMTT(60) DEF TypeOK, Return, CallInv, StoredVersions, AppliedInv, FreshInv,
                  AnswerInv, OK, ErrVersion, ErrNoKey, ErrMaybe
  <1>9. CASE UNCHANGED vars
    BY <1>9 DEF vars, CallInv, StoredVersions, AppliedInv, FreshInv, AnswerInv
  <1>10. QED
    BY <1>1, <1>2, <1>3, <1>4, <1>5, <1>6, <1>7, <1>8, <1>9 DEF Next, Step

\* The inductive invariant holds always.
LEMMA CallCorrect == Spec => [](TypeOK /\ CallInv)
  BY TypeInit, TypeStep, CallInit, CallStep, PTL DEF Spec

\* A Put takes effect at most once, for any number of resends, lost messages and
\* abandoned handlers (client.go:67-73, server.go:59-84).
THEOREM PutAtMostOnce == Spec => []AtMostOnce
  <1>1. CallInv => AtMostOnce
    BY DEF CallInv, AppliedInv, AtMostOnce
  <1>2. QED
    BY <1>1, CallCorrect, PTL

\* OK says that the Put was performed, ErrVersion that it was not and will not be
\* (the contract in client.go:46-55).
THEOREM ResultsTrue == Spec => []ResultIsTrue
  <1>1. CallInv => ResultIsTrue
    BY DEF CallInv, AnswerInv, ResultIsTrue
  <1>2. QED
    BY <1>1, CallCorrect, PTL

-----------------------------------------------------------------------------

(***************************************************************************)
(* No write is lost: VersionsCountWrites is inductive beside CallInv.  It  *)
(* is stated here for one key and its current version n.                   *)
(***************************************************************************)

Writes(k) == {o \in Op : IsPut(o) /\ args[o].key = k /\ applied[o] > 0}

Counted(k, n) ==
    /\ \A v \in 0 .. n - 1 :
          \E o \in Writes(k) : /\ args[o].version = v
                               /\ \A p \in Writes(k) : args[p].version = v => p = o
    /\ \A o \in Writes(k) : /\ args[o].version < n
                            /\ args[o].version = n - 1 => m[k].value = args[o].value

\* VersionsCountWrites in these terms.
LEMMA CountedDef == VersionsCountWrites <=> \A k \in Key : Counted(k, VersionOf(m, k))
  BY DEF VersionsCountWrites, Counted, Writes, VersionOf

\* Initially nothing is written.
LEMMA CountInit == Init => VersionsCountWrites
  <1> SUFFICES ASSUME Init, NEW k \in Key PROVE Counted(k, VersionOf(m, k))
    BY CountedDef
  <1>1. VersionOf(m, k) = 0 /\ Writes(k) = {}
    BY SMTT(60) DEF Init, MakeKVServer, VersionOf, Writes
  <1>2. QED
    BY <1>1, SMTT(60) DEF Counted

\* A handler that accepts adds one write, with the version that was current; the
\* others, and the other keys, stay as they were.
LEMMA CountExecute ==
    ASSUME TypeOK, CallInv, VersionsCountWrites, NEW o \in Op, args[o] \in Args,
           Execute(o), UNCHANGED args
    PROVE  VersionsCountWrites'
  <1> DEFINE a == args[o]
             accepted == a.op = "put" /\ HandlerReply(m, a).err = OK
  <1>1. /\ m' = HandlerMap(m, a) /\ IsMap(m) /\ applied \in [Op -> Nat]
        /\ applied' = [applied EXCEPT ![o] = IF accepted THEN @ + 1 ELSE @]
    BY DEF Execute, TypeOK
  <1> SUFFICES ASSUME NEW k \in Key PROVE Counted(k, VersionOf(m, k))'
    BY DEF VersionsCountWrites, Counted, Writes, VersionOf
  <1>2. Counted(k, VersionOf(m, k))
    BY CountedDef
  <1>3. \A p \in Writes(k) : args[p].version \in Nat
    <2>1. ASSUME NEW p \in Writes(k) PROVE args[p] \in PutArgs
      <3>1. NoArgs.op # "put"
        BY DEF NoArgs
      <3>2. QED
        BY <3>1, ArgsOp DEF Writes, IsPut, TypeOK
    <2>2. QED
      BY <2>1, VersionAssumption DEF PutArgs
  <1>4. CASE ~accepted
    <2>1. m' = m /\ applied' = applied
      BY <1>1, <1>4, ArgsOp DEF HandlerMap, HandlerReply, PutMap, PutReply, PutAnswer
    <2>2. QED
      BY <1>2, <2>1, SMTT(60) DEF Counted, Writes, IsPut, VersionOf
  <1>5. CASE accepted
    <2>1. IsPut(o) /\ a \in PutArgs /\ a.key \in Key /\ PutErr(m, a) = OK /\ m' = PutMap(m, a)
      BY <1>1, <1>5, ArgsOp DEF IsPut, HandlerReply, HandlerMap, PutReply, PutAnswer
    <2>2. CASE a.key # k
      <3>1. VersionOf(m, k)' = VersionOf(m, k) /\ (k \in DOMAIN m => m'[k] = m[k])
        BY <1>1, <2>1, <2>2, SMTT(60) DEF PutMap, VersionOf, IsMap
      <3>2. Writes(k)' = Writes(k)
        BY <1>1, <2>2 DEF Writes, IsPut
      <3>3. \A p \in Writes(k) : k \in DOMAIN m
        BY <1>2, <1>3, SMTT(60) DEF Counted, VersionOf
      <3>4. QED
        BY <1>2, <3>1, <3>2, <3>3, SMTT(60) DEF Counted
    <2>3. CASE a.key = k
      <3> DEFINE n == VersionOf(m, k)
      <3>1. n = a.version /\ n \in Nat /\ VersionOf(m, k)' = n + 1
        BY <1>1, <2>1, <2>3, PutAccepts, HandlerVersion, VersionAssumption DEF PutArgs
      <3>2. m'[k].value = a.value
        BY <1>1, <2>1, <2>3, SMTT(60) DEF PutMap, PutEntry
      <3>3. Writes(k)' = Writes(k) \cup {o}
        BY <1>1, <1>5, <2>1, <2>3, SMTT(60) DEF Writes, IsPut
      <3>4. \A p \in Writes(k) : args[p].version < n /\ args[p].version \in Nat
        BY <1>2, <1>3 DEF Counted
      <3>5. ASSUME NEW v \in 0 .. n
            PROVE  \E q \in Writes(k) \cup {o} :
                      /\ args[q].version = v
                      /\ \A p \in Writes(k) \cup {o} : args[p].version = v => p = q
        <4>1. CASE v = n
          BY <3>1, <3>4, <4>1, <2>3, SMTT(60)
        <4>2. CASE v # n
          <5>1. v \in 0 .. n - 1
            BY <3>1, <4>2, SMTT(60)
          <5>2. PICK q \in Writes(k) : /\ args[q].version = v
                                       /\ \A p \in Writes(k) : args[p].version = v => p = q
            BY <1>2, <5>1 DEF Counted
          <5>3. QED
            BY <3>1, <4>2, <5>2, <2>3
        <4>3. QED
          BY <4>1, <4>2
      <3>6. ASSUME NEW p \in Writes(k) \cup {o}
            PROVE  /\ args[p].version < n + 1
                   /\ args[p].version = n => m'[k].value = args[p].value
        BY <3>1, <3>2, <3>4, <2>3, SMTT(60)
      <3>7. n + 1 - 1 = n
        BY <3>1, SMTT(60)
      <3>8. QED
        BY <1>1, <3>1, <3>3, <3>5, <3>6, <3>7, SMTT(60) DEF Counted
    <2>4. QED
      BY <2>2, <2>3
  <1>6. QED
    BY <1>4, <1>5

\* Every step keeps VersionsCountWrites: only handlers touch the map, and an
\* invocation starts with no accepted Put.
LEMMA CountStep ==
    TypeOK /\ CallInv /\ VersionsCountWrites /\ [Next]_vars => VersionsCountWrites'
  <1> SUFFICES ASSUME TypeOK, CallInv, VersionsCountWrites, [Next]_vars
               PROVE  VersionsCountWrites'
    OBVIOUS
  <1>0. ASSUME UNCHANGED <<m, applied, args>> PROVE VersionsCountWrites'
    BY <1>0, SMTT(60) DEF VersionsCountWrites, IsPut
  <1>1. ASSUME NEW o \in Op, NEW a \in Args, Invoke(o, a) PROVE VersionsCountWrites'
    <2>1. applied[o] = 0 /\ m' = m /\ applied' = applied
      BY <1>1 DEF Invoke, CallInv, FreshInv
    <2>2. \A p \in Op : p # o => args'[p] = args[p]
      BY <1>1 DEF Invoke, TypeOK
    <2>3. ASSUME NEW k \in Key PROVE Writes(k)' = Writes(k) /\ o \notin Writes(k)
      BY <2>1, <2>2, SMTT(60) DEF Writes, IsPut
    <2>4. ASSUME NEW k \in Key PROVE Counted(k, VersionOf(m, k))'
      <3>1. Counted(k, VersionOf(m, k)) /\ VersionOf(m, k)' = VersionOf(m, k)
        BY <2>1, CountedDef DEF VersionOf
      <3>2. \A p \in Writes(k) : args'[p] = args[p]
        BY <2>2, <2>3 DEF Writes
      <3>3. QED
        BY <2>1, <2>3, <3>1, <3>2, SMTT(60) DEF Counted
    <2>5. QED
      BY <2>4 DEF VersionsCountWrites, Counted, Writes, VersionOf
  <1>2. ASSUME NEW o \in Op, Handle(o) \/ HandleLate(o) PROVE VersionsCountWrites'
    <2>1. args[o] \in Args /\ Execute(o) /\ UNCHANGED args
      BY <1>2, SMTT(60) DEF Handle, HandleLate, TypeOK
    <2>2. QED
      BY <2>1, CountExecute
  <1>3. ASSUME NEW o \in Op,
               LoseRequest(o) \/ Dispatch(o) \/ Abandon(o) \/ LoseReply(o) \/ Return(o)
        PROVE  VersionsCountWrites'
    <2>1. UNCHANGED <<m, applied, args>>
      BY <1>3 DEF LoseRequest, Dispatch, Abandon, LoseReply, Return
    <2>2. QED
      BY <1>0, <2>1
  <1>4. CASE UNCHANGED vars
    <2>1. UNCHANGED <<m, applied, args>>
      BY <1>4 DEF vars
    <2>2. QED
      BY <1>0, <2>1
  <1>5. QED
    BY <1>1, <1>2, <1>3, <1>4 DEF Next, Step

\* The accepted Puts of a key have exactly the versions below its current one, each
\* once, and its value is the last one's (server.go:59-84).
THEOREM WritesCounted == Spec => []VersionsCountWrites
  BY TypeInit, TypeStep, CallInit, CallStep, CountInit, CountStep, PTL DEF Spec

-----------------------------------------------------------------------------

(***************************************************************************)
(* Linearizability: KVClerk implements KVModel until a handler is          *)
(* abandoned.                                                              *)
(* LinInv ties lin, the instant of the effect, to what the server has done *)
(* and to what the clerk is about to return.                               *)
(***************************************************************************)

\* What the clerk may return for a request whose effect was answered by s.
Answers(a, s) ==
    IF a.op = "put" /\ s.err # ErrNoKey THEN {s, PutAnswer(ErrMaybe)} ELSE {s}

LinInv ==
    \A o \in Op :
        /\ pc[o] = "idle" => lin[o] = NoReply
        /\ IsPut(o) /\ applied[o] = 1 => lin[o] = PutAnswer(OK)
        /\ IsPut(o) /\ applied[o] # 1 => lin[o].err # OK
        /\ pc[o] = "replying" =>
             /\ lin[o] # NoReply
             /\ ClerkResult(args[o], reply[o], retried[o])
                    \in Answers(args[o], lin[o])

\* KVModel's own copy of the server's definitions is the same.
LEMMA OutputsDef ==
    \A a, s : KV!Outputs(a, s) = Answers(a, s)
  BY DEF KV!Outputs, Answers, KV!PutAnswer, KV!ErrMaybe, KV!ErrNoKey, PutAnswer, ErrMaybe, ErrNoKey

\* LinInv holds initially.
LEMMA LinInit == Init => LinInv
  <1> SUFFICES ASSUME Init PROVE LinInv
    OBVIOUS
  <1>1. \A o \in Op : pc[o] = "idle" /\ lin[o] = NoReply /\ args[o].op = "none"
    BY DEF Init, NoArgs
  <1>2. QED
    BY <1>1 DEF LinInv, IsPut

\* The handler of an invocation keeps LinInv: a Put accepted earlier is refused and
\* was resent, so the clerk answers ErrMaybe; otherwise lin is the reply itself.
LEMMA LinHandle ==
    ASSUME TypeOK, CallInv, LinInv, NEW o \in Op, Handle(o)
    PROVE  LinInv'
  <1> DEFINE a == args[o]
             r == HandlerReply(m, a)
  <1>1. /\ a \in Args /\ Execute(o) /\ UNCHANGED args
        /\ pc' = [pc EXCEPT ![o] = "replying"] /\ pc[o] = "handling"
        /\ reply' = [reply EXCEPT ![o] = r] /\ UNCHANGED retried
        /\ reply \in [Op -> Reply \cup {NoReply}]
        /\ lin \in [Op -> Reply \cup {NoReply}]
        /\ pc \in [Op -> PC]
    BY DEF TypeOK, Handle
  <1>2. r \in Reply /\ r # NoReply /\ a.op \in {"get", "put"}
    BY <1>1, HandlerType, ArgsOp DEF TypeOK
  <1>3. \A p \in Op : p # o => applied'[p] = applied[p]
    BY <1>1, ExecuteStep
  <1>4. \A p \in Op : p # o => lin'[p] = lin[p] /\ pc'[p] = pc[p] /\ reply'[p] = reply[p]
    BY <1>1 DEF Execute
  <1>5. reply'[o] = r /\ pc'[o] = "replying"
    BY <1>1
  <1>6. CASE a.op = "get"
    <2>1. lin'[o] = r
      BY <1>1, <1>6 DEF Execute
    <2>2. ClerkResult(a, r, retried[o]) \in Answers(a, r)
      BY <1>6 DEF Answers, ClerkResult
    <2>3. QED
      BY <1>1, <1>2, <1>3, <1>4, <1>5, <1>6, <2>1, <2>2, SMTT(60) DEF LinInv, IsPut
  <1>7. CASE a.op = "put" /\ applied[o] = 1
    <2>1. lin[o] = PutAnswer(OK) /\ lin'[o] = PutAnswer(OK)
      BY <1>1, <1>7, AnswerErr DEF LinInv, IsPut, Execute
    <2>2. retried[o]
      BY <1>1, <1>7, SMTT(60) DEF CallInv, FreshInv
    <2>3. r = PutAnswer(ErrVersion)
      <3>1. a \in PutArgs /\ a.key \in Key /\ a.version \in Nat
        BY <1>1, <1>7, ArgsOp, VersionAssumption DEF PutArgs
      <3>2. VersionOf(m, a.key) > a.version /\ VersionOf(m, a.key) \in Nat
        BY <1>1, <1>7, <3>1, HandlerVersion DEF CallInv, AppliedInv, TypeOK
      <3>3. a.key \in DOMAIN m /\ m[a.key].version # a.version
        BY <3>1, <3>2, SMTT(60) DEF VersionOf
      <3>4. QED
        BY <1>7, <3>3 DEF HandlerReply, PutReply, PutErr
    <2>4. ClerkResult(a, r, retried[o]) = PutAnswer(ErrMaybe)
      BY <1>7, <2>2, <2>3, AnswerErr DEF ClerkResult
    <2>5. Answers(a, PutAnswer(OK)) =
             {PutAnswer(OK), PutAnswer(ErrMaybe)}
      BY <1>7, AnswerErr DEF Answers, OK, ErrNoKey
    <2>6. applied'[o] = 1
      BY <1>1, <1>7, ExecuteStep
    <2>7. PutAnswer(OK) # NoReply
      BY DEF PutAnswer, NoReply, OK
    <2>8. QED
      BY <1>1, <1>2, <1>3, <1>4, <1>5, <1>7, <2>1, <2>4, <2>5, <2>6, <2>7, SMTT(60)
         DEF LinInv, IsPut
  <1>8. CASE a.op = "put" /\ applied[o] # 1
    <2>1. lin'[o] = r
      BY <1>1, <1>8 DEF LinInv, IsPut, Execute
    <2>2. r = PutAnswer(PutErr(m, a))
      BY <1>8 DEF HandlerReply, PutReply
    <2>3. ClerkResult(a, r, retried[o]) \in Answers(a, r)
      BY <1>8, <2>2, AnswerErr DEF Answers, ClerkResult, ErrNoKey, ErrVersion
    <2>4. /\ applied'[o] = 1 => r = PutAnswer(OK)
          /\ applied'[o] # 1 => r.err # OK
      <3>1. /\ r.err = OK => applied'[o] = 1
            /\ r.err # OK => applied'[o] = applied[o]
        BY <1>1, <1>8, ExecuteStep DEF IsPut
      <3>2. QED
        BY <1>8, <2>2, <3>1, AnswerErr
    <2>5. QED
      BY <1>1, <1>2, <1>3, <1>4, <1>5, <1>8, <2>1, <2>3, <2>4, SMTT(60) DEF LinInv, IsPut
  <1>9. QED
    BY <1>2, <1>6, <1>7, <1>8

\* Every step keeps LinInv, until one abandons a handler.
LEMMA LinStep ==
    TypeOK /\ CallInv /\ (abandoned \/ LinInv) /\ [Next]_vars => (abandoned \/ LinInv)'
  <1> SUFFICES ASSUME TypeOK, CallInv, LinInv, [Next]_vars, ~abandoned, ~abandoned'
               PROVE  LinInv'
    <2>1. abandoned /\ [Next]_vars => abandoned'
      BY DEF Next, Step, vars, Invoke, LoseRequest, Dispatch, Handle, HandleLate, Abandon,
             LoseReply, Return
    <2>2. QED
      BY <2>1
  <1>1. ASSUME NEW o \in Op, NEW a \in Args, Invoke(o, a) PROVE LinInv'
    <2>1. applied[o] = 0 /\ lin[o].err # OK
      <3>1. NoReply.err # OK
        BY DEF NoReply, OK
      <3>2. QED
        BY <1>1, <3>1 DEF Invoke, CallInv, FreshInv, LinInv
    <2>2. QED
      BY <1>1, <2>1, SMTT(60) DEF TypeOK, Invoke, LinInv, IsPut
  <1>2. ASSUME NEW o \in Op, LoseRequest(o) PROVE LinInv'
    BY <1>2 DEF TypeOK, LoseRequest, Retry, LinInv, IsPut
  <1>3. ASSUME NEW o \in Op, Dispatch(o) PROVE LinInv'
    BY <1>3 DEF TypeOK, Dispatch, LinInv, IsPut
  <1>4. ASSUME NEW o \in Op, Handle(o) PROVE LinInv'
    BY <1>4, LinHandle
  <1>5. ASSUME NEW o \in Op, HandleLate(o) PROVE LinInv'
    BY <1>5, SMTT(60) DEF HandleLate, CallInv, FreshInv
  <1>6. ASSUME NEW o \in Op, Abandon(o) PROVE LinInv'
    BY <1>6 DEF Abandon
  <1>7. ASSUME NEW o \in Op, LoseReply(o) PROVE LinInv'
    BY <1>7 DEF TypeOK, LoseReply, Retry, LinInv, IsPut
  <1>8. ASSUME NEW o \in Op, Return(o) PROVE LinInv'
    BY <1>8 DEF TypeOK, Return, LinInv, IsPut
  <1>9. CASE UNCHANGED vars
    BY <1>9 DEF vars, LinInv, IsPut
  <1>10. QED
    BY <1>1, <1>2, <1>3, <1>4, <1>5, <1>6, <1>7, <1>8, <1>9 DEF Next, Step

(***************************************************************************)
(* The refinement mapping.                                                 *)
(***************************************************************************)
AbsSt == [k \in Key |-> IF k \in DOMAIN m THEN m[k] ELSE [value |-> Empty, version |-> 0]]
AbsPhase == [o \in Op |-> IF pc[o] \in {"idle", "done"} THEN "idle" ELSE "pending"]

\* Initial states map to initial states.
LEMMA RefineInit == Init => KV!Init
  BY DEF Init, KV!Init, KV!NoArgs, KV!NoReply, NoArgs, NoReply, MakeKVServer

\* A handler is a Read, a Write, a Refuse or, for a Put accepted before, a stutter.
LEMMA RefineHandle ==
    ASSUME TypeOK, CallInv, LinInv, NEW o \in Op, Handle(o)
    PROVE  [KV!Next]_(KV!vars)
  <1> DEFINE a == args[o]
             r == HandlerReply(m, a)
  <1>1. /\ a \in Args /\ Execute(o) /\ UNCHANGED args /\ UNCHANGED result
        /\ pc' = [pc EXCEPT ![o] = "replying"] /\ pc[o] = "handling"
        /\ IsMap(m) /\ lin \in [Op -> Reply \cup {NoReply}] /\ pc \in [Op -> PC]
    BY DEF TypeOK, Handle
  <1>2. a.op \in {"get", "put"} /\ a.key \in Key
    BY <1>1, ArgsOp
  <1>3. AbsPhase' = AbsPhase /\ AbsPhase[o] = "pending"
    BY <1>1 DEF AbsPhase, PC
  <1>4. CASE a.op = "get"
    <2>1. m' = m /\ lin' = [lin EXCEPT ![o] = GetReply(m, a)]
      BY <1>1, <1>4 DEF Execute, HandlerMap, HandlerReply
    <2>2. GetReply(m, a) = [err     |-> IF AbsSt[a.key].version = 0 THEN ErrNoKey ELSE OK,
                            value   |-> AbsSt[a.key].value,
                            version |-> AbsSt[a.key].version]
      <3>1. CASE a.key \in DOMAIN m
        <4>1. AbsSt[a.key] = m[a.key]
          BY <1>2, <3>1 DEF AbsSt
        <4>2. m[a.key].version \in Nat /\ m[a.key].version > 0
          BY <1>1, <3>1 DEF CallInv, StoredVersions, IsMap, Entry
        <4>3. QED
          BY <3>1, <4>1, <4>2, SMTT(60) DEF GetReply
      <3>2. CASE a.key \notin DOMAIN m
        <4>1. AbsSt[a.key].version = 0 /\ AbsSt[a.key].value = Empty
          BY <1>2, <3>2 DEF AbsSt
        <4>2. QED
          BY <3>2, <4>1 DEF GetReply
      <3>3. QED
        BY <3>1, <3>2
    <2>3. KV!Read(o)
      BY <1>1, <1>3, <1>4, <2>1, <2>2
         DEF KV!Read, AbsSt, AbsPhase, KV!ErrNoKey, KV!OK, ErrNoKey, OK
    <2>4. QED
      BY <2>3 DEF KV!Next
  <1>5. CASE a.op = "put"
    <2>1. a \in PutArgs /\ a.version \in Nat /\ AbsSt[a.key].version = VersionOf(m, a.key)
      BY <1>1, <1>2, <1>5, ArgsOp, VersionAssumption DEF PutArgs, AbsSt, VersionOf
    <2>2. /\ m' = PutMap(m, a)
          /\ r = PutAnswer(PutErr(m, a))
      BY <1>1, <1>5 DEF Execute, HandlerMap, HandlerReply, PutReply
    <2>3. CASE applied[o] = 1
      <3>1. VersionOf(m, a.key) > a.version /\ VersionOf(m, a.key) \in Nat
        BY <1>1, <1>2, <2>3, HandlerVersion DEF CallInv, AppliedInv
      <3>2. PutErr(m, a) # OK
        BY <2>1, <3>1, SMTT(60) DEF PutErr, VersionOf, OK, ErrVersion, ErrNoKey
      <3>3. m' = m /\ lin' = lin
        <4>1. lin[o].err = OK
          BY <1>5, <2>3, AnswerErr DEF LinInv, IsPut
        <4>2. QED
          BY <1>1, <1>5, <2>2, <3>2, <4>1 DEF PutMap, Execute
      <3>4. QED
        BY <1>1, <1>3, <3>3 DEF KV!vars, AbsSt, AbsPhase
    <2>4. CASE applied[o] # 1 /\ PutErr(m, a) = OK
      <3>1. lin[o].err # OK /\ lin' = [lin EXCEPT ![o] = PutAnswer(OK)]
        BY <1>1, <1>5, <2>2, <2>4 DEF LinInv, IsPut, Execute
      <3>2. AbsSt[a.key].version = a.version
        BY <1>1, <2>1, <2>4, PutAccepts
      <3>3. AbsSt' = [AbsSt EXCEPT ![a.key] = [value |-> a.value, version |-> a.version + 1]]
        <4>1. PutEntry(m, a) = [value |-> a.value, version |-> a.version + 1]
          BY <2>1, <3>2, SMTT(60) DEF PutEntry, VersionOf
        <4>2. m' = [k \in DOMAIN m \cup {a.key} |->
                      IF k = a.key THEN [value |-> a.value, version |-> a.version + 1] ELSE m[k]]
          BY <2>2, <2>4, <4>1 DEF PutMap
        <4>3. QED
          BY <1>2, <4>2 DEF AbsSt
      <3>4. KV!Write(o)
        BY <1>1, <1>3, <1>5, <3>1, <3>2, <3>3
           DEF KV!Write, AbsSt, AbsPhase, KV!OK, OK, KV!PutAnswer, PutAnswer
      <3>5. QED
        BY <3>4 DEF KV!Next
    <2>5. CASE applied[o] # 1 /\ PutErr(m, a) # OK
      <3>1. lin[o].err # OK /\ lin' = [lin EXCEPT ![o] = PutAnswer(PutErr(m, a))]
        BY <1>1, <1>5, <2>2, <2>5 DEF LinInv, IsPut, Execute
      <3>2. m' = m
        BY <2>2, <2>5 DEF PutMap
      <3>3. /\ AbsSt[a.key].version # a.version
            /\ PutErr(m, a) = IF AbsSt[a.key].version = 0 THEN ErrNoKey ELSE ErrVersion
        BY <1>1, <2>1, <2>5, SMTT(60) DEF PutErr, VersionOf, CallInv, StoredVersions, IsMap, Entry
      <3>4. KV!Refuse(o)
        BY <1>1, <1>3, <1>5, <3>1, <3>2, <3>3
           DEF KV!Refuse, AbsSt, AbsPhase, KV!OK, OK, KV!ErrNoKey, ErrNoKey,
               KV!ErrVersion, ErrVersion, KV!PutAnswer, PutAnswer
      <3>5. QED
        BY <3>4 DEF KV!Next
    <2>6. QED
      BY <2>3, <2>4, <2>5
  <1>6. QED
    BY <1>2, <1>4, <1>5

\* Every step of KVClerk is a step of KVModel or a stutter, until a handler is abandoned.
LEMMA RefineStep ==
    TypeOK /\ CallInv /\ (abandoned \/ LinInv) /\ [Next]_vars
        => [abandoned' \/ KV!Next]_(KV!vars)
  <1> SUFFICES ASSUME TypeOK, CallInv, LinInv, [Next]_vars, ~abandoned, ~abandoned'
               PROVE  [KV!Next]_(KV!vars)
    <2>1. abandoned /\ [Next]_vars => abandoned'
      BY DEF Next, Step, vars, Invoke, LoseRequest, Dispatch, Handle, HandleLate, Abandon,
             LoseReply, Return
    <2>2. QED
      BY <2>1
  <1>1. ASSUME NEW o \in Op, NEW a \in Args, Invoke(o, a) PROVE [KV!Next]_(KV!vars)
    <2>1. lin = [lin EXCEPT ![o] = NoReply]
      BY <1>1 DEF Invoke, LinInv, TypeOK
    <2>2. KV!Invoke(o, a)
      BY <1>1, <2>1 DEF Invoke, KV!Invoke, KV!NoReply, NoReply, TypeOK
    <2>3. a \in KV!Args
      BY <1>1 DEF Args, GetArgs, PutArgs, KV!Args, KV!GetArgs, KV!PutArgs
    <2>4. QED
      BY <2>2, <2>3 DEF KV!Next
  <1>2. ASSUME NEW o \in Op, LoseRequest(o) PROVE [KV!Next]_(KV!vars)
    BY <1>2 DEF LoseRequest, Retry, KV!vars, TypeOK, PC
  <1>3. ASSUME NEW o \in Op, Dispatch(o) PROVE [KV!Next]_(KV!vars)
    BY <1>3 DEF Dispatch, KV!vars, TypeOK, PC
  <1>4. ASSUME NEW o \in Op, Handle(o) PROVE [KV!Next]_(KV!vars)
    BY <1>4, RefineHandle
  <1>5. ASSUME NEW o \in Op, HandleLate(o) PROVE [KV!Next]_(KV!vars)
    BY <1>5, SMTT(60) DEF HandleLate, CallInv, FreshInv
  <1>6. ASSUME NEW o \in Op, Abandon(o) PROVE [KV!Next]_(KV!vars)
    BY <1>6 DEF Abandon
  <1>7. ASSUME NEW o \in Op, LoseReply(o) PROVE [KV!Next]_(KV!vars)
    BY <1>7 DEF LoseReply, Retry, KV!vars, TypeOK, PC
  <1>8. ASSUME NEW o \in Op, Return(o) PROVE [KV!Next]_(KV!vars)
    <2>1. ClerkResult(args[o], reply[o], retried[o]) \in KV!Outputs(args[o], lin[o])
      BY <1>8, OutputsDef DEF LinInv, Return
    <2>2. PICK out \in KV!Outputs(args[o], lin[o]) : result' = [result EXCEPT ![o] = out]
      BY <1>8, <2>1 DEF Return
    <2>3. KV!Respond(o, out)
      BY <1>8, <2>2 DEF Return, LinInv, KV!Respond, KV!NoReply, NoReply, TypeOK, PC
    <2>4. QED
      BY <2>2, <2>3 DEF KV!Next
  <1>9. CASE UNCHANGED vars
    BY <1>9 DEF vars, KV!vars
  <1>10. QED
    BY <1>1, <1>2, <1>3, <1>4, <1>5, <1>6, <1>7, <1>8, <1>9 DEF Next, Step

\* The clerk is linearizable with respect to KVModel, whatever the network drops, until
\* Call returns before its handler has (client.go:24-80, models1/kv.go:49-67).
THEOREM ClerkImplementsKVModel == Spec => Linearizable
  <1>1. Spec => [](TypeOK /\ CallInv /\ (abandoned \/ LinInv))
    BY TypeInit, TypeStep, CallInit, CallStep, LinInit, LinStep, PTL DEF Spec
  <1>2. QED
    BY <1>1, RefineInit, RefineStep, PTL DEF Spec, Linearizable

=============================================================================
