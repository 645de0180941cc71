------------------------------ MODULE RaftTest ------------------------------
(***************************************************************************)
(* The harness that tests Raft: raft1/server.go (rfsrv, which reads the    *)
(* apply channel of one Raft) and raft1/test.go (Test, which compares what *)
(* the servers apply and runs agreements).                                 *)
(*                                                                         *)
(* Raft itself is a skeleton in this repository (raft1/raft.go), so it is  *)
(* external here, in two kinds: a correct one, which agrees on one log and *)
(* delivers it in order at every server, and a wrong one, which delivers   *)
(* any command at any index.  The first must not be blamed, the second     *)
(* must be caught.                                                         *)
(*                                                                         *)
(* One goroutine per instance of a server reads its apply channel, the     *)
(* test goroutine calls one and wait, and crashes and restarts servers     *)
(* between those calls.  ts.srvs[i] is the last instance made for server i *)
(* and stays there when it is killed; logs[i] and lastApplied[i] are its   *)
(* fields.  mksrv registers an instance before the tester puts it on the   *)
(* network (group.go:193-206), so its Raft has nothing to deliver earlier. *)
(***************************************************************************)
EXTENDS Naturals, Sequences, FiniteSets

CONSTANTS Server,            \* the servers of the group
          Cmd,               \* the commands submitted
          Nil,               \* the zero value of a command
          Expected,          \* the numbers of servers that tests wait for
          SnapShotInterval,  \* applierSnap snapshots every so many commands
          MaxIndex,          \* bound: the last index of the log
          MaxKills           \* bound: how often servers are killed

ASSUME HarnessAssumption ==
    /\ SnapShotInterval \in Nat \ {0}
    /\ MaxIndex \in Nat
    /\ MaxKills \in Nat
    /\ Nil \notin Cmd
    /\ Expected \subseteq Nat \ {0}

VARIABLES snapshot,     \* Test.snapshot: applierSnap reads the channels, not applier
          correct,      \* the Raft under test is a correct one
          committed,    \* the log a correct Raft has agreed on
          submitted,    \* the commands given to Start
          running,      \* rfsrv.raft is not nil
          next,         \* the index the server's Raft delivers next
          saved,        \* the snapshot in the server's Persister, or <<>>
          flight,       \* the index a killed Raft is still about to deliver, or 0
          logs,         \* rfsrv.logs
          lastApplied,  \* rfsrv.lastApplied, kept by applierSnap only
          snapping,     \* applierSnap is about to call Snapshot
          test,         \* where the test goroutine is, and its locals
          ret,          \* what one or wait returned last, and for which index
          fatal,        \* why the test has failed, or "no"
          kills,        \* how often a server was killed
          stale         \* history: a killed Raft delivered into the next instance

raftVars == <<committed, submitted, next, saved>>
srvVars == <<running, logs, lastApplied, snapping, flight, kills, stale>>
testVars == <<test, ret>>
vars == <<snapshot, correct, raftVars, srvVars, testVars, fatal>>

Index == 1 .. MaxIndex
NoTest == [pc |-> "idle", cmd |-> Nil, n |-> 0, index |-> 0]
NoRet == [cmd |-> Nil, index |-> 0]

Init ==
    /\ snapshot \in BOOLEAN
    /\ correct \in BOOLEAN
    /\ committed = <<>>
    /\ submitted = {}
    /\ running = [i \in Server |-> TRUE]
    /\ next = [i \in Server |-> 1]
    /\ saved = [i \in Server |-> <<>>]
    /\ flight = [i \in Server |-> 0]
    /\ logs = [i \in Server |-> <<>>]
    /\ lastApplied = [i \in Server |-> 0]
    /\ snapping = [i \in Server |-> FALSE]
    /\ test = NoTest
    /\ ret = NoRet
    /\ fatal = "no"
    /\ kills = 0
    /\ stale = FALSE

-----------------------------------------------------------------------------

(***************************************************************************)
(* What Raft may deliver, and its agreement on the next command.           *)
(***************************************************************************)
Delivers(i, n, c) ==
    IF correct
    THEN n = next[i] /\ n <= Len(committed) /\ c = committed[n]
    ELSE TRUE

Commit(c) ==
    /\ fatal = "no"
    /\ correct
    /\ c \in submitted
    /\ Len(committed) < MaxIndex
    /\ committed' = Append(committed, c)
    /\ UNCHANGED <<snapshot, correct, submitted, next, saved, srvVars, testVars, fatal>>

(***************************************************************************)
(* Test.checkLogs, under ts.mu: compare with every server, record in the   *)
(* registered instance.  Both appliers also refuse an entry whose          *)
(* predecessor is missing.                                                 *)
(***************************************************************************)

\* Mutant: an entry is compared with the server's own log only.
DisagreesWithItself(i, n, c) == n \in DOMAIN logs[i] /\ logs[i][n] # c

Disagrees(i, n, c) == \E j \in Server : n \in DOMAIN logs[j] /\ logs[j][n] # c

Recorded(i, n, c) ==
    [k \in DOMAIN logs[i] \cup {n} |-> IF k = n THEN c ELSE logs[i][k]]

CheckLogs(i, n, c) ==
    /\ logs' = [logs EXCEPT ![i] = Recorded(i, n, c)]
    /\ fatal' = IF Disagrees(i, n, c) \/ (n > 1 /\ n - 1 \notin DOMAIN logs[i])
                THEN "apply error" ELSE "no"

(***************************************************************************)
(* applier and applierSnap receive a command.  Once err_msg is set         *)
(* log.Fatalf ends the process, so the model stops there.                  *)
(***************************************************************************)
ApplyCommand(i, n, c) ==
    /\ fatal = "no"
    /\ running[i] /\ ~snapping[i]
    /\ Delivers(i, n, c)
    /\ next' = [next EXCEPT ![i] = n + 1]
    /\ IF snapshot /\ n # lastApplied[i] + 1
       THEN fatal' = "apply error" /\ UNCHANGED logs
       ELSE CheckLogs(i, n, c)
    /\ lastApplied' = [lastApplied EXCEPT ![i] = IF snapshot THEN n ELSE @]
    /\ snapping' = [snapping EXCEPT ![i] = snapshot /\ (n + 1) % SnapShotInterval = 0]
    /\ UNCHANGED <<snapshot, correct, committed, submitted, saved, running, flight, kills,
                   stale, testVars>>

\* Mutant: one entry too many goes into the snapshot.
XlogOneMore(l, n) == [k \in 1 .. n + 1 |-> IF k \in DOMAIN l THEN l[k] ELSE Nil]

\* The slice of applierSnap's snapshot; a missing entry reads as nil.
Xlog(l, n) == [k \in 1 .. n |-> IF k \in DOMAIN l THEN l[k] ELSE Nil]

\* applierSnap calls Snapshot, which saves; if Kill has set raft to nil meanwhile
\* there is nothing to call.
Snapshot(i) ==
    /\ fatal = "no"
    /\ snapping[i]
    /\ snapping' = [snapping EXCEPT ![i] = FALSE]
    /\ saved' = [saved EXCEPT ![i] =
                   IF running[i] THEN Xlog(logs[i], lastApplied[i]) ELSE @]
    /\ UNCHANGED <<snapshot, correct, committed, submitted, next, running, logs, lastApplied,
                   flight, kills, stale, testVars, fatal>>

(***************************************************************************)
(* ingestSnap replaces the log, without comparing it with the other        *)
(* servers', and refuses a snapshot of another index.  Raft hands server i *)
(* the snapshot that server j saved, and has saved it first.               *)
(***************************************************************************)

\* Mutant: the snapshot's entries are not put back.
IngestedNothing(s) == <<>>

\* rfsrv.logs after ingestSnap.
Ingested(s) == [k \in 1 .. Len(s) |-> s[k]]

IngestSnap(i, j, n) ==
    LET s == saved[j] IN
    /\ fatal = "no"
    /\ snapshot /\ running[i] /\ ~snapping[i]
    /\ s # <<>>
    /\ correct => Len(s) >= next[i] /\ n = Len(s)
    /\ saved' = [saved EXCEPT ![i] = s]
    /\ next' = [next EXCEPT ![i] = n + 1]
    /\ IF n # Len(s)
       THEN fatal' = "apply error" /\ UNCHANGED <<logs, lastApplied>>
       ELSE /\ logs' = [logs EXCEPT ![i] = Ingested(s)]
            /\ lastApplied' = [lastApplied EXCEPT ![i] = Len(s)]
            /\ UNCHANGED fatal
    /\ UNCHANGED <<snapshot, correct, committed, submitted, running, snapping, flight, kills,
                   stale, testVars>>

(***************************************************************************)
(* The tester shuts a server down and starts it again, between agreements. *)
(* Kill may find Raft about to deliver a message.  What Kill saves goes to *)
(* the old instance's Persister: the tester has made its copy before       *)
(* (srv.go:48-61).                                                         *)
(***************************************************************************)
Kill(i, f) ==
    /\ fatal = "no"
    /\ test.pc = "idle"
    /\ running[i]
    /\ kills < MaxKills
    /\ f = 0 \/ (f = next[i] /\ (correct => f <= Len(committed)))
    /\ running' = [running EXCEPT ![i] = FALSE]
    /\ flight' = [flight EXCEPT ![i] = f]
    /\ kills' = kills + 1
    /\ UNCHANGED <<snapshot, correct, raftVars, logs, lastApplied, snapping, stale, testVars,
                   fatal>>

\* newRfsrv and mksrv: a new instance takes the place of the old one.
StartServer(i) ==
    /\ fatal = "no"
    /\ test.pc = "idle"
    /\ ~running[i]
    /\ running' = [running EXCEPT ![i] = TRUE]
    /\ logs' = [logs EXCEPT ![i] = Ingested(saved[i])]
    /\ lastApplied' = [lastApplied EXCEPT ![i] = Len(saved[i])]
    /\ next' = [next EXCEPT ![i] = Len(saved[i]) + 1]
    /\ snapping' = [snapping EXCEPT ![i] = FALSE]
    /\ UNCHANGED <<snapshot, correct, committed, submitted, saved, flight, kills, stale,
                   testVars, fatal>>

(***************************************************************************)
(* The goroutine of a killed instance receives the message its Raft was    *)
(* about to deliver.  checkLogs records it in ts.srvs[i], which may be the *)
(* next instance by now; lastApplied is the old instance's own.            *)
(***************************************************************************)
ApplyLate(i, c) ==
    LET n == flight[i] IN
    /\ fatal = "no"
    /\ n # 0
    /\ running[i] \/ ~snapping[i]
    /\ correct => c = committed[n]
    /\ CheckLogs(i, n, c)
    /\ flight' = [flight EXCEPT ![i] = 0]
    /\ lastApplied' = [lastApplied EXCEPT ![i] = IF snapshot /\ ~running[i] THEN n ELSE @]
    /\ stale' = (stale \/ running[i])
    /\ UNCHANGED <<snapshot, correct, raftVars, running, snapping, kills, testVars>>

-----------------------------------------------------------------------------

(***************************************************************************)
(* nCommitted, under ts.mu: how many servers' logs hold the index.         *)
(***************************************************************************)
Holders(n) == {i \in Server : n \in DOMAIN logs[i]}
Values(n) == {logs[i][n] : i \in Holders(n)}
NCommitted(n) == Cardinality(Holders(n))
Mismatch(n) == Cardinality(Values(n)) > 1

(***************************************************************************)
(* The test goroutine.  one(cmd, expectedServers, retry) calls Start at    *)
(* some connected server that says it is the leader, polls the index that  *)
(* Start returned, and gives up in the end.  The index of a leader that    *)
(* has been deposed may go to another command, or to none.                 *)
(***************************************************************************)
TestStep(t, r, f) ==
    /\ fatal = "no"
    /\ test' = t
    /\ ret' = r
    /\ fatal' = f
    /\ UNCHANGED <<snapshot, correct, committed, next, saved, srvVars>>

OneCall(c, n) ==
    /\ test.pc = "idle"
    /\ TestStep([NoTest EXCEPT !.pc = "start", !.cmd = c, !.n = n], NoRet, "no")
    /\ UNCHANGED submitted

Start(i, k) ==
    /\ test.pc = "start"
    /\ running[i]
    /\ submitted' = submitted \cup {test.cmd}
    /\ TestStep([test EXCEPT !.pc = "poll", !.index = k], ret, "no")

\* Mutant: any command at the index will do.
AgreedOnAnything == NCommitted(test.index) >= test.n

\* Enough servers hold the index, and it is our command.
Agreed == NCommitted(test.index) >= test.n /\ Values(test.index) = {test.cmd}

OnePoll ==
    /\ test.pc = "poll"
    /\ Mismatch(test.index) \/ Agreed
    /\ IF Mismatch(test.index)
       THEN TestStep(test, ret, "values do not match")
       ELSE TestStep(NoTest, [cmd |-> test.cmd, index |-> test.index], "no")
    /\ UNCHANGED submitted

\* Two seconds have passed: with retry, try the servers again.
OneRetry ==
    /\ test.pc = "poll"
    /\ TestStep([test EXCEPT !.pc = "start", !.index = 0], ret, "no")
    /\ UNCHANGED submitted

\* Without retry, or after ten seconds.
OneFails ==
    /\ test.pc \in {"start", "poll"}
    /\ TestStep(test, ret, "no agreement")
    /\ UNCHANGED submitted

\* A test calls Start itself.
Submit(c) ==
    /\ test.pc = "idle"
    /\ submitted' = submitted \cup {c}
    /\ TestStep(NoTest, NoRet, "no")

(***************************************************************************)
(* wait(index, n, startTerm) polls until n servers hold the index, someone *)
(* has moved on to another term, or it has polled 30 times, and counts     *)
(* once more.                                                              *)
(***************************************************************************)
WaitCall(k, n) ==
    /\ test.pc = "idle"
    /\ TestStep([NoTest EXCEPT !.pc = "wait", !.n = n, !.index = k], NoRet, "no")
    /\ UNCHANGED submitted

WaitEnds ==
    /\ test.pc = "wait"
    /\ \/ TestStep([test EXCEPT !.pc = "waited"], ret, "no")
       \/ TestStep(NoTest, NoRet, "no")
    /\ UNCHANGED submitted

WaitReturns ==
    /\ test.pc = "waited"
    /\ IF Mismatch(test.index)
       THEN TestStep(test, ret, "values do not match")
       ELSE IF NCommitted(test.index) < test.n
       THEN TestStep(test, ret, "no agreement")
       ELSE \E v \in Values(test.index) :
               TestStep(NoTest, [cmd |-> v, index |-> test.index], "no")
    /\ UNCHANGED submitted

-----------------------------------------------------------------------------

Next ==
    \/ \E c \in Cmd : Commit(c) \/ Submit(c)
    \/ \E i \in Server, n \in Index, c \in Cmd : ApplyCommand(i, n, c)
    \/ \E i, j \in Server, n \in Index : IngestSnap(i, j, n)
    \/ \E i \in Server : Snapshot(i) \/ StartServer(i)
    \/ \E i \in Server, f \in 0 .. MaxIndex : Kill(i, f)
    \/ \E i \in Server, c \in Cmd : ApplyLate(i, c)
    \/ \E n \in Expected, c \in Cmd : OneCall(c, n)
    \/ \E n \in Expected, k \in Index : WaitCall(k, n)
    \/ \E i \in Server, k \in Index : Start(i, k)
    \/ OnePoll \/ OneRetry \/ OneFails \/ WaitEnds \/ WaitReturns

Spec == Init /\ [][Next]_vars

-----------------------------------------------------------------------------

Agree(l1, l2) == \A k \in DOMAIN l1 \cap DOMAIN l2 : l1[k] = l2[k]

\* A wrong Raft is caught: as long as no alarm was raised, no two servers' logs, and no
\* log and snapshot, hold different commands at an index, although ingestSnap compares
\* nothing and a restart empties a log (test.go:108-129, server.go:158-185).
DisagreementCaught ==
    fatal = "no" => \A i, j \in Server : /\ Agree(logs[i], logs[j])
                                       /\ Agree(logs[i], saved[j])

\* A correct Raft is not blamed, across crashes, restarts and snapshots, unless one that
\* was killed delivers into the instance that replaced it (test.go:114).
NoFalseAlarm ==
    correct /\ ~stale => fatal \notin {"apply error", "values do not match"}

\* What one and wait return has been agreed on at that index, however many leaders were
\* tried and whoever has crashed since (test.go:182-230, 239-266).
ReturnsAreCommitted ==
    correct /\ ret # NoRet =>
        ret.index <= Len(committed) /\ committed[ret.index] = ret.cmd

\* A snapshot is a prefix of the agreed log, without gaps, whether it was taken by
\* applierSnap or installed, and whenever Kill came in between (server.go:134-144).
SnapshotsArePrefixes ==
    correct => \A i \in Server :
        /\ Len(saved[i]) <= Len(committed)
        /\ \A k \in 1 .. Len(saved[i]) : saved[i][k] = committed[k]

=============================================================================
