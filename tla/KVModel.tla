------------------------------ MODULE KVModel -------------------------------
(***************************************************************************)
(* What a key/value clerk promises its callers: the sequential store that  *)
(* models1/kv.go gives to the linearizability checker, wrapped in calls.   *)
(* A call is invoked, takes effect at one instant, and returns.            *)
(*                                                                         *)
(* An absent key is version 0, as KvModel's initial state.  Two things are *)
(* finer than KvModel.Step: a Get also reports the version (Step compares  *)
(* the value only), and a Put on an absent key with a version other than 0 *)
(* may report ErrNoKey, as kvsrv1/server.go and its tests do.              *)
(*                                                                         *)
(* A Put that meets another version has no effect, so the instant at which *)
(* it does so may be revised until the call returns (a clerk that resends  *)
(* may succeed later); an effect is final.                                 *)
(***************************************************************************)
EXTENDS KVServer

CONSTANTS Proc       \* the callers

VARIABLES st,        \* KvState of each key
          phase,     \* "idle" or "pending"
          input,     \* KvInput of the call in progress, or of the last one
          seen,      \* what the store answered at the instant of the effect
          ret        \* KvOutput of the last call

vars == <<st, phase, input, seen, ret>>

KvState == [value : Value \cup {Empty}, version : Nat]

Init ==
    /\ st = [k \in Key |-> [value |-> Empty, version |-> 0]]
    /\ phase = [p \in Proc |-> "idle"]
    /\ input = [p \in Proc |-> NoArgs]
    /\ seen = [p \in Proc |-> NoReply]
    /\ ret = [p \in Proc |-> NoReply]

Invoke(p, a) ==
    /\ phase[p] = "idle"
    /\ phase' = [phase EXCEPT ![p] = "pending"]
    /\ input' = [input EXCEPT ![p] = a]
    /\ seen' = [seen EXCEPT ![p] = NoReply]
    /\ UNCHANGED <<st, ret>>

\* Step, case 0.
Read(p) ==
    LET s == st[input[p].key] IN
    /\ phase[p] = "pending"
    /\ input[p].op = "get"
    /\ seen' = [seen EXCEPT ![p] =
                  [err     |-> IF s.version = 0 THEN ErrNoKey ELSE OK,
                   value   |-> s.value,
                   version |-> s.version]]
    /\ UNCHANGED <<st, phase, input, ret>>

\* Step, case 1, st.Version == inp.Version.
Write(p) ==
    LET a == input[p] IN
    /\ phase[p] = "pending"
    /\ a.op = "put"
    /\ seen[p].err # OK
    /\ st[a.key].version = a.version
    /\ st' = [st EXCEPT ![a.key] = [value |-> a.value, version |-> a.version + 1]]
    /\ seen' = [seen EXCEPT ![p] = PutAnswer(OK)]
    /\ UNCHANGED <<phase, input, ret>>

\* Step, case 1, the other branch.
Refuse(p) ==
    LET a == input[p] IN
    /\ phase[p] = "pending"
    /\ a.op = "put"
    /\ seen[p].err # OK
    /\ st[a.key].version # a.version
    /\ seen' = [seen EXCEPT ![p] =
                  PutAnswer(IF st[a.key].version = 0 THEN ErrNoKey ELSE ErrVersion)]
    /\ UNCHANGED <<st, phase, input, ret>>

\* What a call may return, given what the store answered.
Outputs(a, s) ==
    IF a.op = "put" /\ s.err # ErrNoKey
    THEN {s, PutAnswer(ErrMaybe)}
    ELSE {s}

Respond(p, out) ==
    /\ phase[p] = "pending"
    /\ seen[p] # NoReply
    /\ out \in Outputs(input[p], seen[p])
    /\ phase' = [phase EXCEPT ![p] = "idle"]
    /\ ret' = [ret EXCEPT ![p] = out]
    /\ UNCHANGED <<st, input, seen>>

Next ==
    \E p \in Proc :
        \/ \E a \in Args : Invoke(p, a)
        \/ Read(p)
        \/ Write(p)
        \/ Refuse(p)
        \/ \E out \in Outputs(input[p], seen[p]) : Respond(p, out)

Spec == Init /\ [][Next]_vars

=============================================================================
