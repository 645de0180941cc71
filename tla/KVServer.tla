------------------------------ MODULE KVServer ------------------------------
(***************************************************************************)
(* The key/value server of kvsrv1: the RPC types of kvsrv1/rpc/rpc.go and  *)
(* the two handlers of kvsrv1/server.go as functions of the server's map.  *)
(* Both handlers hold kv.mu from entry to return, so a handler is one      *)
(* atomic step; the modules that use these operators decide when it runs.  *)
(*                                                                         *)
(* The Go map is a function whose domain is the set of keys present.       *)
(* Tversion is a uint64 that starts at 1 and grows by one per write; the   *)
(* models stay far from 2^64, so versions are natural numbers here.        *)
(***************************************************************************)
EXTENDS Naturals

CONSTANTS Key,      \* the keys clients use
          Value,    \* the strings clients write
          Empty,    \* "", the zero value of a string
          Version   \* the versions clients put in a PutArgs

ASSUME VersionAssumption == Version \subseteq Nat

\* rpc.Err
OK == "OK"
ErrNoKey == "ErrNoKey"
ErrVersion == "ErrVersion"
ErrMaybe == "ErrMaybe"

\* type value struct
Entry == [value : Value, version : Nat]

\* GetReply; a PutReply is the same record with the zero value and version.
Reply == [err : {OK, ErrNoKey, ErrVersion, ErrMaybe},
          value : Value \cup {Empty},
          version : Nat]

\* The zero reply the clerk passes to Call.
NoReply == [err |-> "", value |-> Empty, version |-> 0]

\* The answer to a Put.
PutAnswer(err) == [err |-> err, value |-> Empty, version |-> 0]

\* GetArgs and PutArgs, told apart by op.
GetArgs == [op : {"get"}, key : Key, value : {Empty}, version : {0}]
PutArgs == [op : {"put"}, key : Key, value : Value, version : Version]
Args == GetArgs \cup PutArgs

NoArgs == [op |-> "none", key |-> "", value |-> Empty, version |-> 0]

-----------------------------------------------------------------------------

\* m can be the contents of kv.m.
IsMap(m) == DOMAIN m \subseteq Key /\ m \in [DOMAIN m -> Entry]

MakeKVServer == [k \in {} |-> NoReply]

\* KVServer.Get: the reply; the map does not change.
GetReply(m, a) ==
    IF a.key \in DOMAIN m
    THEN [err |-> OK, value |-> m[a.key].value, version |-> m[a.key].version]
    ELSE [err |-> ErrNoKey, value |-> Empty, version |-> 0]

\* Mutant: an old version passes the check.
PutErrAcceptsOld(m, a) ==
    IF a.key \in DOMAIN m
    THEN IF a.version > m[a.key].version THEN ErrVersion ELSE OK
    ELSE IF a.version # 0 THEN ErrNoKey ELSE OK

\* Mutant: a version that does not match is reported as ErrNoKey.
PutErrAlwaysNoKey(m, a) ==
    IF a.key \in DOMAIN m
    THEN IF a.version # m[a.key].version THEN ErrNoKey ELSE OK
    ELSE IF a.version # 0 THEN ErrNoKey ELSE OK

\* KVServer.Put: reply.Err.  An absent key accepts version 0 only.
PutErr(m, a) ==
    IF a.key \in DOMAIN m
    THEN IF a.version # m[a.key].version THEN ErrVersion ELSE OK
    ELSE IF a.version # 0 THEN ErrNoKey ELSE OK

PutReply(m, a) == PutAnswer(PutErr(m, a))

\* Mutant: an update does not count the version up.
PutEntrySameVersion(m, a) ==
    [value   |-> a.value,
     version |-> IF a.key \in DOMAIN m THEN m[a.key].version ELSE 1]

\* KVServer.Put: the entry it stores when it accepts.
PutEntry(m, a) ==
    [value   |-> a.value,
     version |-> IF a.key \in DOMAIN m THEN m[a.key].version + 1 ELSE 1]

\* KVServer.Put: the map it leaves.
PutMap(m, a) ==
    IF PutErr(m, a) = OK
    THEN [k \in DOMAIN m \cup {a.key} |-> IF k = a.key THEN PutEntry(m, a) ELSE m[k]]
    ELSE m

\* The handler a request is dispatched to.
HandlerReply(m, a) == IF a.op = "get" THEN GetReply(m, a) ELSE PutReply(m, a)
HandlerMap(m, a) == IF a.op = "get" THEN m ELSE PutMap(m, a)

=============================================================================
