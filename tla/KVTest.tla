------------------------------- MODULE KVTest -------------------------------
(***************************************************************************)
(* The workloads of kvtest1/kvtest.go: SpawnClientsAndWait runs            *)
(* OneClientPut or OneClientAppend in every client and stops them after a  *)
(* while; CheckPutConcurrent or CheckAppends then judges what the store    *)
(* holds.  A third workload calls PutAtLeastOnce again and again, each     *)
(* time with the version after the one it returned, as the callers in      *)
(* kvraft1/kvraft_test.go do.  The clerks are those of an IKVClerk, so     *)
(* their calls are those of KVModel.  All clients use the key "k"          *)
(* (randomkeys is false).                                                  *)
(*                                                                         *)
(* A value is the JSON text of an EntryV or of a list of entries; it is    *)
(* represented by the sequence of the entries that json.Unmarshal finds in *)
(* it: one for an EntryV, none for an absent key.                          *)
(***************************************************************************)
EXTENDS Integers, Sequences, FiniteSets

CONSTANTS nclnt,       \* the number of clients
          MaxOps,      \* bound: iterations of a client's loop
          MaxLost      \* bound: the version from which PutAtLeastOnce loses no answer

ASSUME KVTestAssumption == nclnt \in Nat /\ MaxOps \in Nat /\ MaxLost \in Nat

Client == 0 .. nclnt - 1

VARIABLES st, phase, input, seen, ret,   \* the store and the calls, see KVModel
          workload,   \* "put", "append" or "atleast": the function the clients run
          reliable,   \* ts.IsReliable()
          main,       \* SpawnClientsAndWait: "sleep", "sending", "sent", then "collect", "over"
          told,       \* done signals received
          pc,         \* a client: "top" of its loop, "put" or "get", "returned"
          ver,        \* ver of OnePut, verm[k] between its calls; ver of OneClientAppend
                      \* and PutAtLeastOnce
          es,         \* es of OneClientAppend
          err,        \* err of OnePut
          iter,       \* i of OneClientAppend; for OneClientPut only the bound uses it
          res,        \* the ClntRes of each client
          fatal       \* the check that called Fatalf, or ""

kvVars == <<st, phase, input, seen, ret>>
mainVars == <<workload, reliable, main, told>>
clientVars == <<pc, ver, es, err, iter, res>>
vars == <<kvVars, mainVars, clientVars, fatal>>

k == "k"

EntryV == [Id : Client, V : Nat]
EntryN == [Id : Client, N : Nat]

KV == INSTANCE KVModel WITH
        Proc <- Client, Key <- {k}, Value <- Seq(EntryV \cup EntryN),
        Empty <- <<>>, Version <- Nat

\* The key is an empty list for OneClientAppend, which CheckAppends counts as one Put, and
\* absent otherwise.
Init ==
    /\ workload \in {"put", "append", "atleast"} /\ reliable \in BOOLEAN
    /\ st = [x \in {k} |-> [value |-> <<>>, version |-> IF workload = "append" THEN 1 ELSE 0]]
    /\ phase = [c \in Client |-> "idle"] /\ input = [c \in Client |-> KV!NoArgs]
    /\ seen = [c \in Client |-> KV!NoReply] /\ ret = [c \in Client |-> KV!NoReply]
    /\ main = "sleep" /\ told = 0
    /\ pc = [c \in Client |-> "top"]
    /\ ver = [c \in Client |-> 0] /\ es = [c \in Client |-> <<>>]
    /\ err = [c \in Client |-> ""] /\ iter = [c \in Client |-> 0]
    /\ res = [c \in Client |-> [Nok |-> 0, Nmaybe |-> 0]]
    /\ fatal = ""

-----------------------------------------------------------------------------

\* select at the top of the loop: done is chosen if SpawnClientsAndWait is sending.
ReceiveDone(c) ==
    /\ pc[c] = "top" /\ main = "sending"
    /\ pc' = [pc EXCEPT ![c] = "returned"]
    /\ main' = "sent" /\ told' = told + 1
    /\ UNCHANGED <<kvVars, workload, reliable, ver, es, err, iter, res, fatal>>

\* select, default.
Default(c) ==
    /\ pc[c] = "top" /\ main # "sending" /\ iter[c] < MaxOps
    /\ pc' = [pc EXCEPT ![c] = IF workload = "append" THEN "get" ELSE "put"]
    /\ UNCHANGED <<kvVars, mainVars, ver, es, err, iter, res, fatal>>

\* The arguments of the call at pc: PutJson, GetJson or, in PutAtLeastOnce, Put.
Request(c) ==
    IF pc[c] = "get"
    THEN [op |-> "get", key |-> k, value |-> <<>>, version |-> 0]
    ELSE [op      |-> "put", key |-> k, version |-> ver[c],
          value   |-> IF workload = "append" THEN Append(es[c], [Id |-> c, N |-> iter[c]])
                      ELSE <<[Id |-> c, V |-> ver[c]]>>]

Call(c) ==
    /\ pc[c] \in {"put", "get"}
    /\ KV!Invoke(c, Request(c))
    /\ UNCHANGED <<mainVars, clientVars, fatal>>

\* The store's part of a call.
Effect(c) ==
    /\ KV!Read(c) \/ KV!Write(c) \/ KV!Refuse(c)
    /\ UNCHANGED <<mainVars, clientVars, fatal>>

\* The call at label l of workload w returns out; a reliable network loses no answer.
Returns(c, w, l, out) ==
    /\ workload = w /\ pc[c] = l
    /\ KV!Respond(c, out)
    /\ reliable => out.err # KV!ErrMaybe
    /\ UNCHANGED mainVars

Goto(c, l) == pc' = [pc EXCEPT ![c] = l]

\* Mutant: Puts that may have happened are not counted.
CountOnlyOK(c, e) ==
    /\ res' = IF e = KV!OK THEN [res EXCEPT ![c].Nok = @ + 1] ELSE res
    /\ iter' = [iter EXCEPT ![c] = @ + 1]
    /\ Goto(c, "top")

\* An iteration ends with the answer e of its Put.
Count(c, e) ==
    /\ res' = IF e = KV!OK THEN [res EXCEPT ![c].Nok = @ + 1]
                            ELSE [res EXCEPT ![c].Nmaybe = @ + 1]
    /\ iter' = [iter EXCEPT ![c] = @ + 1]
    /\ Goto(c, "top")

\* OnePut, after PutJson.
OnePutDone(c, out) ==
    /\ Returns(c, "put", "put", out)
    /\ err' = [err EXCEPT ![c] = out.err]
    /\ fatal' = IF out.err \in {KV!OK, KV!ErrVersion, KV!ErrMaybe} THEN "" ELSE "wrong error"
    /\ Goto(c, "get")
    /\ UNCHANGED <<ver, es, iter, res>>

\* OnePut, after GetJson: the Put is tried again unless it succeeded or may have.
OnePutGot(c, out) ==
    LET mine == err[c] = KV!OK /\ out.version = ver[c] + 1 IN
    /\ Returns(c, "put", "get", out)
    /\ fatal' = IF out.err # KV!OK THEN "get"
                ELSE IF mine /\ out.value[1].Id # c /\ out.value[1].V # ver[c]
                     THEN "wrong value" ELSE ""
    /\ ver' = [ver EXCEPT ![c] = out.version]
    /\ \/ err[c] \in {KV!OK, KV!ErrMaybe} /\ Count(c, err[c])
       \/ err[c] = KV!ErrVersion /\ Goto(c, "put") /\ UNCHANGED <<iter, res>>
    /\ UNCHANGED <<es, err>>

\* OneClientAppend, after GetJson.
AppendGot(c, out) ==
    /\ Returns(c, "append", "get", out)
    /\ fatal' = IF out.err # KV!OK THEN "get" ELSE ""
    /\ ver' = [ver EXCEPT ![c] = out.version]
    /\ es' = [es EXCEPT ![c] = out.value]
    /\ Goto(c, "put")
    /\ UNCHANGED <<err, iter, res>>

\* Mutant: after ErrVersion the same list is put with the next version.
AppendPutBlind(c, out) ==
    /\ Returns(c, "append", "put", out)
    /\ \/ /\ out.err \in {KV!OK, KV!ErrMaybe}
          /\ Count(c, out.err)
          /\ UNCHANGED ver
       \/ /\ out.err \notin {KV!OK, KV!ErrMaybe}
          /\ ver' = [ver EXCEPT ![c] = @ + 1]
          /\ UNCHANGED <<pc, iter, res>>
    /\ UNCHANGED <<es, err, fatal>>

\* OneClientAppend, after PutJson: any other answer starts again with GetJson.
AppendPut(c, out) ==
    /\ Returns(c, "append", "put", out)
    /\ \/ out.err \in {KV!OK, KV!ErrMaybe} /\ Count(c, out.err)
       \/ out.err \notin {KV!OK, KV!ErrMaybe} /\ Goto(c, "get") /\ UNCHANGED <<iter, res>>
    /\ UNCHANGED <<ver, es, err, fatal>>

\* Mutant: the version is raised once more when the Put succeeds.
AtLeastPutTwice(c, out) ==
    /\ Returns(c, "atleast", "put", out)
    /\ out.err = KV!ErrMaybe => ver[c] < MaxLost
    /\ \/ out.err = KV!OK /\ Count(c, KV!OK) /\ ver' = [ver EXCEPT ![c] = @ + 2]
       \/ out.err # KV!OK /\ UNCHANGED <<pc, iter, res>> /\ ver' = [ver EXCEPT ![c] = @ + 1]
    /\ UNCHANGED <<es, err, fatal>>

\* PutAtLeastOnce, after Put: whatever the error, it is tried with the next version.  When
\* it returns ver the caller goes on with ver + 1.
AtLeastPut(c, out) ==
    /\ Returns(c, "atleast", "put", out)
    /\ out.err = KV!ErrMaybe => ver[c] < MaxLost
    /\ \/ out.err = KV!OK /\ Count(c, KV!OK)
       \/ out.err # KV!OK /\ UNCHANGED <<pc, iter, res>>
    /\ ver' = [ver EXCEPT ![c] = @ + 1]
    /\ UNCHANGED <<es, err, fatal>>

CallReturns(c) ==
    \E out \in KV!Outputs(input[c], seen[c]) :
        \/ OnePutDone(c, out) \/ OnePutGot(c, out)
        \/ AppendGot(c, out) \/ AppendPut(c, out)
        \/ AtLeastPut(c, out)

-----------------------------------------------------------------------------

\* The Sleep of SpawnClientsAndWait is long enough for one iteration of some client.
SleepOver ==
    /\ main = "sleep" /\ \E c \in Client : iter[c] > 0
    /\ main' = "sending"
    /\ UNCHANGED <<kvVars, workload, reliable, told, clientVars, fatal>>

\* Mutant: one signal too few is sent.
NextDoneOneShort ==
    /\ main = "sent"
    /\ main' = IF told + 1 = nclnt THEN "collect" ELSE "sending"
    /\ UNCHANGED <<kvVars, workload, reliable, told, clientVars, fatal>>

\* One done signal has been received: the next is sent, or the results are collected.
NextDone ==
    /\ main = "sent"
    /\ main' = IF told = nclnt THEN "collect" ELSE "sending"
    /\ UNCHANGED <<kvVars, workload, reliable, told, clientVars, fatal>>

\* The sum that CheckPutConcurrent makes of the numbers f of the clients.
Sum(f) ==
    LET sum[n \in 0 .. nclnt] == IF n = 0 THEN 0 ELSE sum[n - 1] + f[n - 1]
    IN sum[nclnt]

\* CheckPutConcurrent; no call is in progress when it reads the key.
CheckPutConcurrent ==
    LET ok == Sum([c \in Client |-> res[c].Nok])
        maybe == Sum([c \in Client |-> res[c].Nmaybe])
        ver0 == st[k].version
    IN CASE ver0 = 0 -> "get"
         [] ver0 > 0 /\ ~reliable /\ ver0 > ok + maybe -> "puts"
         [] ver0 > 0 /\ reliable /\ ver0 # ok -> "puts"
         [] OTHER -> ""

\* A turn of the loop of CheckAppends over the entries: expect, skipped, and whether the
\* loop met an old put.
Meet(a, e) ==
    [expect  |-> [a.expect EXCEPT ![e.Id] = e.N + 1],
     skipped |-> [a.skipped EXCEPT ![e.Id] = @ + (e.N - a.expect[e.Id])],
     old     |-> a.old \/ a.expect[e.Id] > e.N]

Scan(list) ==
    LET zero == [c \in Client |-> 0]
        after[n \in 0 .. Len(list)] ==
            IF n = 0 THEN [expect |-> zero, skipped |-> zero, old |-> FALSE]
                     ELSE Meet(after[n - 1], list[n])
    IN after[Len(list)]

\* CheckAppends of the list read from the key.
CheckAppends ==
    LET a == Scan(st[k].value) IN
    CASE a.old -> "old put"
      [] ~a.old /\ Len(st[k].value) + 1 # st[k].version -> "appends"
      [] ~a.old /\ \E c \in Client : \/ a.skipped[c] > res[c].Nmaybe
                                     \/ a.expect[c] > res[c].Nok + res[c].Nmaybe -> "counts"
      [] OTHER -> ""

\* The clients have sent their results and the test checks them.
Check ==
    /\ main = "collect" /\ \A c \in Client : pc[c] = "returned"
    /\ main' = "over"
    /\ fatal' = CASE workload = "put" -> CheckPutConcurrent
                  [] workload = "append" -> CheckAppends
                  [] workload = "atleast" -> ""
    /\ UNCHANGED <<kvVars, workload, reliable, told, clientVars>>

Step(c) == ReceiveDone(c) \/ Default(c) \/ Call(c) \/ Effect(c) \/ CallReturns(c)

Next ==
    /\ fatal = ""
    /\ \/ \E c \in Client : Step(c)
       \/ SleepOver
       \/ NextDone
       \/ Check

Spec == Init /\ [][Next]_vars

\* Goroutines run, calls return and the Sleep ends.
Fairness ==
    /\ \A c \in Client : WF_vars(fatal = "" /\ Step(c))
    /\ WF_vars(fatal = "" /\ (SleepOver \/ NextDone \/ Check))

FairSpec == Spec /\ Fairness

-----------------------------------------------------------------------------

\* No client calls Put with a version the key has not reached, whichever answers are lost
\* and whoever else writes: otherwise PutAtLeastOnce, which only ever raises its version,
\* would be refused for ever (kvtest.go:79-84).
NeverAhead == \A c \in Client : ver[c] <= st[k].version

\* A store that implements KVModel passes every check of the workloads, on a reliable network
\* and on one that loses answers: OnePut reads its own or a newer value, and the counts of
\* OK and ErrMaybe bound what the store holds (kvtest.go:110-115, 184-203, 331-360).
ChecksPass == fatal = ""

\* The entries of c in the list.
EntriesOf(c) == {n \in DOMAIN st[k].value : st[k].value[n].Id = c}

\* Appends by Get and Put lose no entry of another client: an append that was answered OK
\* stays in the list, and an entry is there at most once per attempt (kvtest.go:306-318).
AppendsKept ==
    workload = "append" =>
        \A c \in Client :
            /\ Cardinality(EntriesOf(c)) >= res[c].Nok
            /\ \A m, n \in EntriesOf(c) : m < n => st[k].value[m].N < st[k].value[n].N

\* SpawnClientsAndWait returns: no client misses its done signal, and the clients do not keep
\* each other from finishing an iteration, nor PutAtLeastOnce from catching up with the
\* version of the key (kvtest.go:79-84, 136-144).
SpawnReturns == main = "sending" ~> main = "over"

=============================================================================
