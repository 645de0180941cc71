-------------------------------- MODULE Lock --------------------------------
(***************************************************************************)
(* The spin lock of kvsrv1/lock/lock.go, used by several clients.  Each    *)
(* has its own Lock struct and its own clerk; all name the same key.  The  *)
(* clerk is the interface kvtest.IKVClerk, so its calls are those of       *)
(* KVModel, which the clerk of kvsrv1 implements (see KVClerk).            *)
(*                                                                         *)
(* A call is three steps of KVModel: Invoke, the effect, Respond.  pc says *)
(* which call of lock.go a client is at; phase says whether it has been    *)
(* invoked.                                                                *)
(***************************************************************************)
EXTENDS Naturals

CONSTANTS Client,
          MaxRounds     \* bound: Acquires per client

ASSUME LockAssumption == MaxRounds \in Nat

VARIABLES st, phase, input, seen, ret,   \* the store and the calls, see KVModel
          pc,        \* the call of lock.go the client is at, or "free" or "held"
          version,   \* Lock.version
          rounds,    \* Acquires begun
          lost       \* history: a call returned ErrMaybe, so that some answer was lost

kvVars == <<st, phase, input, seen, ret>>
vars == <<st, phase, input, seen, ret, pc, version, rounds, lost>>

lockKey == "l"

KV == INSTANCE KVModel WITH
        Proc <- Client, Key <- {lockKey}, Value <- {"0", "1"}, Empty <- "", Version <- Nat

PC == {"make_get", "make_put", "free", "try_get", "try_put", "held", "release"}

Init ==
    /\ KV!Init
    /\ pc = [c \in Client |-> "make_get"]
    /\ version = [c \in Client |-> 0]
    /\ rounds = [c \in Client |-> 0]
    /\ lost = FALSE

\* Mutant: Release writes the locked value.
RequestKeepsLocked(c) ==
    CASE pc[c] \in {"make_get", "try_get"} ->
           [op |-> "get", key |-> lockKey, value |-> "", version |-> 0]
      [] pc[c] \in {"try_put", "release"} ->
           [op |-> "put", key |-> lockKey, value |-> "1", version |-> version[c]]
      [] pc[c] = "make_put" ->
           [op |-> "put", key |-> lockKey, value |-> "0", version |-> version[c]]

\* The arguments of the call at pc.
Request(c) ==
    CASE pc[c] \in {"make_get", "try_get"} ->
           [op |-> "get", key |-> lockKey, value |-> "", version |-> 0]
      [] pc[c] = "try_put" ->
           [op |-> "put", key |-> lockKey, value |-> "1", version |-> version[c]]
      [] pc[c] \in {"make_put", "release"} ->
           [op |-> "put", key |-> lockKey, value |-> "0", version |-> version[c]]

\* Mutant: Release does not wait for its Put.
CallAsync(c) ==
    /\ pc[c] \notin {"free", "held"}
    /\ KV!Invoke(c, Request(c))
    /\ pc' = [pc EXCEPT ![c] = IF @ = "release" THEN "free" ELSE @]
    /\ UNCHANGED <<version, rounds, lost>>

\* lk.ck.Get or lk.ck.Put is called.
Call(c) ==
    /\ pc[c] \notin {"free", "held"}
    /\ KV!Invoke(c, Request(c))
    /\ UNCHANGED <<pc, version, rounds, lost>>

\* The store's part of a call.
Effect(c) ==
    /\ KV!Read(c) \/ KV!Write(c) \/ KV!Refuse(c)
    /\ UNCHANGED <<pc, version, rounds, lost>>

\* The call at label l returns out.
Returns(c, l, out) ==
    /\ pc[c] = l
    /\ KV!Respond(c, out)
    /\ lost' = (lost \/ out.err = KV!ErrMaybe)

Goto(c, l) == pc' = [pc EXCEPT ![c] = l]

\* MakeLock, after its Get.
MakeLockGot(c, out) ==
    /\ Returns(c, "make_get", out)
    /\ Goto(c, IF out.err = KV!ErrNoKey THEN "make_put" ELSE "free")
    /\ UNCHANGED <<version, rounds>>

\* MakeLock, after its Put.
MakeLockPut(c, out) ==
    /\ Returns(c, "make_put", out)
    /\ Goto(c, "free")
    /\ version' = [version EXCEPT ![c] = IF out.err = KV!OK THEN @ + 1 ELSE @]
    /\ UNCHANGED rounds

\* The user of the lock calls Acquire.
Acquire(c) ==
    /\ pc[c] = "free"
    /\ rounds[c] < MaxRounds
    /\ rounds' = [rounds EXCEPT ![c] = @ + 1]
    /\ Goto(c, "try_get")
    /\ UNCHANGED <<st, phase, input, seen, ret, version, lost>>

\* Mutant: tryAcquire does not look at the value it got.
TryAcquireGotAnyValue(c, out) ==
    /\ Returns(c, "try_get", out)
    /\ \/ /\ out.err # KV!OK
          /\ Goto(c, "try_get")
          /\ UNCHANGED version
       \/ /\ out.err = KV!OK
          /\ Goto(c, "try_put")
          /\ version' = [version EXCEPT ![c] = out.version]
    /\ UNCHANGED rounds

\* tryAcquire, after its Get: false sends Acquire round its loop.
TryAcquireGot(c, out) ==
    /\ Returns(c, "try_get", out)
    /\ \/ /\ out.err # KV!OK \/ out.value = "1"
          /\ Goto(c, "try_get")
          /\ UNCHANGED version
       \/ /\ out.err = KV!OK /\ out.value # "1"
          /\ Goto(c, "try_put")
          /\ version' = [version EXCEPT ![c] = out.version]
    /\ UNCHANGED rounds

\* Mutant: a successful tryAcquire leaves lk.version at the version it read.
TryAcquirePutOldVersion(c, out) ==
    /\ Returns(c, "try_put", out)
    /\ Goto(c, IF out.err = KV!OK THEN "held" ELSE "try_get")
    /\ UNCHANGED <<version, rounds>>

\* tryAcquire, after its Put: every answer other than OK is a failure.
TryAcquirePut(c, out) ==
    /\ Returns(c, "try_put", out)
    /\ \/ /\ out.err = KV!OK
          /\ Goto(c, "held")
          /\ version' = [version EXCEPT ![c] = @ + 1]
       \/ /\ out.err # KV!OK
          /\ Goto(c, "try_get")
          /\ UNCHANGED version
    /\ UNCHANGED rounds

\* The user of the lock calls Release.
Release(c) ==
    /\ pc[c] = "held"
    /\ Goto(c, "release")
    /\ UNCHANGED <<st, phase, input, seen, ret, version, rounds, lost>>

\* Release, after its Put: the answer is ignored.
ReleasePut(c, out) ==
    /\ Returns(c, "release", out)
    /\ Goto(c, "free")
    /\ version' = [version EXCEPT ![c] = @ + 1]
    /\ UNCHANGED rounds

CallReturns(c) ==
    \E out \in KV!Outputs(input[c], seen[c]) :
        \/ MakeLockGot(c, out)
        \/ MakeLockPut(c, out)
        \/ TryAcquireGot(c, out)
        \/ TryAcquirePut(c, out)
        \/ ReleasePut(c, out)

Step(c) == Call(c) \/ Effect(c) \/ CallReturns(c) \/ Acquire(c) \/ Release(c)

Next == \E c \in Client : Step(c)

Spec == Init /\ [][Next]_vars

(***************************************************************************)
(* A client's goroutine runs whenever it can, calls return (KVClerk,       *)
(* EveryCallReturns), and a user that holds the lock releases it.          *)
(***************************************************************************)
Fairness ==
    \A c \in Client : /\ WF_vars(Call(c))
                      /\ WF_vars(Effect(c))
                      /\ WF_vars(CallReturns(c))
                      /\ WF_vars(Release(c))

FairSpec == Spec /\ Fairness

-----------------------------------------------------------------------------

\* The types; a client without a call in progress is between calls.
TypeOK ==
    /\ st \in [{lockKey} -> [value : {"", "0", "1"}, version : Nat]]
    /\ phase \in [Client -> {"idle", "pending"}]
    /\ input \in [Client -> KV!Args \cup {KV!NoArgs}]
    /\ seen \in [Client -> KV!Reply \cup {KV!NoReply}]
    /\ ret \in [Client -> KV!Reply \cup {KV!NoReply}]
    /\ pc \in [Client -> PC]
    /\ version \in [Client -> Nat]
    /\ rounds \in [Client -> 0 .. MaxRounds]
    /\ lost \in BOOLEAN
    /\ \A c \in Client : phase[c] = "pending" =>
                            /\ pc[c] \notin {"free", "held"}
                            /\ input[c] = Request(c)

\* The Put the client is in has taken effect.
Applied(c) == phase[c] = "pending" /\ seen[c].err = KV!OK

\* The client owns the lock as far as the store is concerned: it has written "1" and
\* knows or will be told, or it has not yet written "0" again.
Owns(c) ==
    \/ pc[c] = "held"
    \/ pc[c] = "try_put" /\ Applied(c)
    \/ pc[c] = "release" /\ ~Applied(c)

\* Two clients never hold the lock at once (lock_test.go:37 "two clients acquired
\* lock"), nor does one acquire it before the other's Release took effect.
MutualExclusion == \A c, d \in Client : Owns(c) /\ Owns(d) => c = d

\* The Put of Release always takes effect, so that ignoring its answer is safe
\* (lock.go:74-77), ErrMaybe included.
ReleaseTakesEffect ==
    [][\A c \in Client : pc[c] = "release" /\ pc'[c] # "release" => Applied(c)]_vars

\* Until a call returns ErrMaybe, the key says "1" only if some client owns the lock.
NoOrphan ==
    ~lost => (st[lockKey].value = "1" => \E c \in Client : Owns(c))

\* Acquire returns unless an answer is lost, if the others acquire the lock a bounded number
\* of times: nobody waits for a lock that is not released (lock_test.go:29).
AcquireReturnsUnlessLost == \A c \in Client : pc[c] = "try_get" ~> (pc[c] = "held" \/ lost)

\* Acquire returns on a network that loses messages, too (lock_test.go:87-93).
AcquireReturns == \A c \in Client : pc[c] = "try_get" ~> pc[c] = "held"

=============================================================================
