------------------------------- MODULE KVClerk ------------------------------
(***************************************************************************)
(* Clerk.Get and Clerk.Put of kvsrv1/client.go, calling one KVServer over  *)
(* the labrpc network.                                                     *)
(*                                                                         *)
(* Each element of Op is one invocation of Clerk.Get or Clerk.Put.  The    *)
(* methods keep no state in the Clerk, so invocations interact through the *)
(* server only, whichever client makes them.  An invocation resends its    *)
(* RPC until Call returns true; each resend goes through                   *)
(* Network.processReq, which may                                           *)
(*   - drop the request, or refuse it because the end is disabled,         *)
(*   - run the handler and drop the reply,                                 *)
(*   - stop waiting for a handler whose end has been disabled: Call        *)
(*     returns false and the handler still runs, later.                    *)
(* The tester disables and enables ends at moments of its own choosing, so *)
(* with Disconnects the last two may happen to any RPC.                    *)
(***************************************************************************)
EXTENDS KVServer

CONSTANTS Op,           \* the invocations
          Unreliable,   \* Network.reliable is false
          Disconnects,  \* the tester disables and enables the clients' ends
          MaxLate       \* bound: abandoned handlers per invocation

ASSUME SettingAssumption ==
    /\ Unreliable \in BOOLEAN
    /\ Disconnects \in BOOLEAN
    /\ MaxLate \in Nat

VARIABLES m,         \* KVServer.m
          pc,        \* where the invocation is
          args,      \* args of the invocation
          retried,   \* the local of Clerk.Put
          reply,     \* the reply of the RPC in progress, once handled
          result,    \* what the invocation returned
          late,      \* handlers that still run though their Call has returned
          abandoned, \* history: some Call has returned before its handler
          applied,   \* history: how often the server accepted this Put
          lin        \* history: the answer that counts, see Execute

vars == <<m, pc, args, retried, reply, result, late, abandoned, applied, lin>>

(***************************************************************************)
(* "call": about to call, or calling again.  "handling": the network has   *)
(* started a goroutine for the handler.  "replying": the handler returned  *)
(* and the network has not handed the reply over yet.                      *)
(***************************************************************************)
PC == {"idle", "call", "handling", "replying", "done"}

Init ==
    /\ m = MakeKVServer
    /\ pc = [o \in Op |-> "idle"]
    /\ args = [o \in Op |-> NoArgs]
    /\ retried = [o \in Op |-> FALSE]
    /\ reply = [o \in Op |-> NoReply]
    /\ result = [o \in Op |-> NoReply]
    /\ late = [o \in Op |-> 0]
    /\ abandoned = FALSE
    /\ applied = [o \in Op |-> 0]
    /\ lin = [o \in Op |-> NoReply]

Invoke(o, a) ==
    /\ pc[o] = "idle"
    /\ pc' = [pc EXCEPT ![o] = "call"]
    /\ args' = [args EXCEPT ![o] = a]
    /\ UNCHANGED <<m, retried, reply, result, late, abandoned, applied, lin>>

\* Call returned false: sleep, and go round the loop.
Retry(o) ==
    /\ pc' = [pc EXCEPT ![o] = "call"]
    /\ retried' = [retried EXCEPT ![o] = TRUE]

\* processReq drops the request (241-245), or the end is disabled (305-319).
LoseRequest(o) ==
    /\ pc[o] = "call"
    /\ Unreliable \/ Disconnects
    /\ Retry(o)
    /\ UNCHANGED <<m, args, reply, result, late, abandoned, applied, lin>>

\* processReq starts the handler's goroutine.
Dispatch(o) ==
    /\ pc[o] = "call"
    /\ pc' = [pc EXCEPT ![o] = "handling"]
    /\ UNCHANGED <<m, args, retried, reply, result, late, abandoned, applied, lin>>

(***************************************************************************)
(* The server runs the handler of o, under kv.mu.  lin remembers the last  *)
(* answer, and an accepting one for good: it is the instant at which the   *)
(* invocation takes effect.                                                *)
(***************************************************************************)
Execute(o) ==
    LET r == HandlerReply(m, args[o])
        accepted == args[o].op = "put" /\ r.err = OK
        settled == args[o].op = "put" /\ lin[o].err = OK
    IN /\ m' = HandlerMap(m, args[o])
       /\ applied' = [applied EXCEPT ![o] = IF accepted THEN @ + 1 ELSE @]
       /\ lin' = [lin EXCEPT ![o] = IF settled THEN @ ELSE r]

Handle(o) ==
    /\ pc[o] = "handling"
    /\ Execute(o)
    /\ reply' = [reply EXCEPT ![o] = HandlerReply(m, args[o])]
    /\ pc' = [pc EXCEPT ![o] = "replying"]
    /\ UNCHANGED <<args, retried, result, late, abandoned>>

\* A handler whose Call has returned false already.  Nobody reads its reply.
HandleLate(o) ==
    /\ late[o] > 0
    /\ Execute(o)
    /\ late' = [late EXCEPT ![o] = @ - 1]
    /\ UNCHANGED <<pc, args, retried, reply, result, abandoned>>

\* isServerDead became true while processReq waited for the handler.
Abandon(o) ==
    /\ pc[o] = "handling"
    /\ Disconnects
    /\ late[o] < MaxLate
    /\ late' = [late EXCEPT ![o] = @ + 1]
    /\ abandoned' = TRUE
    /\ Retry(o)
    /\ UNCHANGED <<m, args, reply, result, applied, lin>>

\* Mutant: the reply that was lost stays around.
LoseReplyKeepsReply(o) ==
    /\ pc[o] = "replying"
    /\ Unreliable \/ Disconnects
    /\ Retry(o)
    /\ UNCHANGED <<m, args, reply, result, late, abandoned, applied, lin>>

\* processReq drops the reply (288-290), or finds the end disabled (283-287).
LoseReply(o) ==
    /\ pc[o] = "replying"
    /\ Unreliable \/ Disconnects
    /\ Retry(o)
    /\ reply' = [reply EXCEPT ![o] = NoReply]
    /\ UNCHANGED <<m, args, result, late, abandoned, applied, lin>>

\* Mutant: Clerk.Put forgets whether it resent.
ClerkResultNeverMaybe(a, r, again) == r

\* What Clerk.Get and Clerk.Put make of the reply.
ClerkResult(a, r, again) ==
    IF a.op = "put" /\ r.err = ErrVersion /\ again
    THEN PutAnswer(ErrMaybe)
    ELSE r

\* Mutant: the loop goes round once more after a successful Call.
ReturnLoops(o) ==
    /\ pc[o] = "replying"
    /\ Retry(o)
    /\ reply' = [reply EXCEPT ![o] = NoReply]
    /\ UNCHANGED <<m, args, result, late, abandoned, applied, lin>>

\* Call returned true.
Return(o) ==
    /\ pc[o] = "replying"
    /\ pc' = [pc EXCEPT ![o] = "done"]
    /\ result' = [result EXCEPT ![o] = ClerkResult(args[o], reply[o], retried[o])]
    /\ reply' = [reply EXCEPT ![o] = NoReply]
    /\ UNCHANGED <<m, args, retried, late, abandoned, applied, lin>>

Step(o) ==
    \/ \E a \in Args : Invoke(o, a)
    \/ LoseRequest(o)
    \/ Dispatch(o)
    \/ Handle(o)
    \/ HandleLate(o)
    \/ Abandon(o)
    \/ LoseReply(o)
    \/ Return(o)

Next == \E o \in Op : Step(o)

Spec == Init /\ [][Next]_vars

(***************************************************************************)
(* Goroutines that can run do run.  Each RPC is dropped with probability   *)
(* 1/10 at most each way, independently, and the tester enables ends       *)
(* again: a request that is sent over and over is dispatched, and a reply  *)
(* that is sent over and over arrives.                                     *)
(***************************************************************************)
Fairness ==
    \A o \in Op : /\ SF_vars(Dispatch(o))
                  /\ SF_vars(Handle(o))
                  /\ WF_vars(HandleLate(o))
                  /\ SF_vars(Return(o))

FairSpec == Spec /\ Fairness

-----------------------------------------------------------------------------

\* The types, and which locals are live where: a reply while the network holds it,
\* a result once the invocation has returned.
TypeOK ==
    /\ IsMap(m)
    /\ pc \in [Op -> PC]
    /\ args \in [Op -> Args \cup {NoArgs}]
    /\ retried \in [Op -> BOOLEAN]
    /\ reply \in [Op -> Reply \cup {NoReply}]
    /\ result \in [Op -> Reply \cup {NoReply}]
    /\ late \in [Op -> 0 .. MaxLate]
    /\ abandoned \in BOOLEAN
    /\ applied \in [Op -> Nat]
    /\ lin \in [Op -> Reply \cup {NoReply}]
    /\ \A o \in Op : /\ args[o] = NoArgs <=> pc[o] = "idle"
                     /\ reply[o] = NoReply <=> pc[o] # "replying"
                     /\ result[o] = NoReply <=> pc[o] # "done"
                     /\ pc[o] = "idle" => late[o] = 0

IsPut(o) == args[o].op = "put"
Done(o) == pc[o] = "done"

\* A Put takes effect at most once, however often Clerk.Put resends it and
\* however late an abandoned handler runs (client.go:67-73, server.go:59-84).
AtMostOnce == \A o \in Op : applied[o] <= 1

\* OK means that the Put was performed; ErrVersion, which Clerk.Put returns for
\* its first RPC only, that it was not and never will be (client.go:49-51).  Until
\* a handler is abandoned ErrNoKey too means that the Put was not performed,
\* although it may answer a resend (client.go:75 turns ErrVersion only).
ResultIsTrue ==
    \A o \in Op : IsPut(o) /\ Done(o) =>
        /\ result[o].err = OK => applied[o] = 1
        /\ result[o].err = ErrVersion => applied[o] = 0 /\ late[o] = 0
        /\ result[o].err = ErrNoKey => applied[o] = 0 \/ abandoned

\* The accepted Puts of a key have versions 0, 1, .., n-1 for a current version n,
\* and the value is the one the last of them wrote: no write is lost or doubled.
VersionsCountWrites ==
    \A k \in Key :
        LET W == {o \in Op : IsPut(o) /\ args[o].key = k /\ applied[o] > 0}
            n == IF k \in DOMAIN m THEN m[k].version ELSE 0
        IN /\ \A v \in 0 .. n - 1 :
                 \E o \in W : /\ args[o].version = v
                              /\ \A p \in W : args[p].version = v => p = o
           /\ \A o \in W : /\ args[o].version < n
                           /\ args[o].version = n - 1 => m[k].value = args[o].value

\* The clerk is linearizable until a handler is abandoned: the invocations are
\* calls of KVModel, which take effect when the server's answer that counts is given.
KV == INSTANCE KVModel WITH
        Proc <- Op,
        st <- [k \in Key |-> IF k \in DOMAIN m THEN m[k] ELSE [value |-> Empty, version |-> 0]],
        phase <- [o \in Op |-> IF pc[o] \in {"idle", "done"} THEN "idle" ELSE "pending"],
        input <- args,
        seen <- lin,
        ret <- result

Linearizable == KV!Init /\ [][abandoned' \/ KV!Next]_(KV!vars)

\* Clerk.Get and Clerk.Put return: their resend loop ends (client.go:34, 69).
EveryCallReturns == \A o \in Op : pc[o] = "call" ~> pc[o] = "done"

=============================================================================
