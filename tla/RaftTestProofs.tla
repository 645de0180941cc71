--------------------------- MODULE RaftTestProofs ---------------------------
(***************************************************************************)
(* Proofs about RaftTest for any number of servers and commands, any       *)
(* interval between snapshots and any log length.                          *)
(***************************************************************************)
EXTENDS RaftTest, FiniteSetTheorems, TLAPS

\* Zenon proves the steps that name no other prover.
USE ZenonT(30)

(***************************************************************************)
(* The steps of the test goroutine leave everything else alone.            *)
(***************************************************************************)
TestNext ==
    \/ \E c \in Cmd : Submit(c)
    \/ \E n \in Expected, c \in Cmd : OneCall(c, n)
    \/ \E n \in Expected, k \in Index : WaitCall(k, n)
    \/ \E i \in Server, k \in Index : Start(i, k)
    \/ OnePoll \/ OneRetry \/ OneFails \/ WaitEnds \/ WaitReturns

\* What a step of the test goroutine leaves unchanged.
LEMMA TestFrame ==
    ASSUME TestNext
    PROVE  /\ fatal = "no"
           /\ UNCHANGED <<snapshot, correct, committed, next, saved, srvVars>>
  BY DEF TestNext, Submit, OneCall, WaitCall, Start, OnePoll, OneRetry, OneFails, WaitEnds,
         WaitReturns, TestStep

\* The next-state relation, with the test goroutine's steps together.
LEMMA NextCases ==
    Next => \/ \E c \in Cmd : Commit(c)
            \/ \E i \in Server, n \in Index, c \in Cmd : ApplyCommand(i, n, c)
            \/ \E i, j \in Server, n \in Index : IngestSnap(i, j, n)
            \/ \E i \in Server : Snapshot(i) \/ StartServer(i)
            \/ \E i \in Server, f \in 0 .. MaxIndex : Kill(i, f)
            \/ \E i \in Server, c \in Cmd : ApplyLate(i, c)
            \/ TestNext
  BY DEF Next, TestNext

-----------------------------------------------------------------------------

(***************************************************************************)
(* Types, of the variables the invariants are about, and: without          *)
(* snapshots nobody takes one.                                             *)
(***************************************************************************)
Types ==
    /\ committed \in Seq(Cmd)
    /\ DOMAIN running = Server /\ DOMAIN snapping = Server
    /\ next \in [Server -> Nat \ {0}]
    /\ flight \in [Server -> Nat]
    /\ lastApplied \in [Server -> Nat]
    /\ saved \in [Server -> Seq(Cmd \cup {Nil})]
    /\ DOMAIN logs = Server
    /\ \A i \in Server : \A k \in DOMAIN logs[i] : logs[i][k] \in Cmd \cup {Nil}

NoSnapshots == ~snapshot => \A i \in Server : saved[i] = <<>> /\ ~snapping[i]

\* A snapshot is a sequence of commands and gaps.
LEMMA XlogType ==
    ASSUME NEW l, NEW n \in Nat, \A k \in DOMAIN l : l[k] \in Cmd \cup {Nil}
    PROVE  Xlog(l, n) \in Seq(Cmd \cup {Nil}) /\ DOMAIN Xlog(l, n) = 1 .. n
           /\ Len(Xlog(l, n)) = n
  BY SMTT(60) DEF Xlog

\* What ingestSnap makes of a snapshot is the snapshot.
LEMMA IngestedType ==
    ASSUME NEW s \in Seq(Cmd \cup {Nil})
    PROVE  Ingested(s) = s /\ DOMAIN s = 1 .. Len(s) /\ Len(s) \in Nat
           /\ \A k \in DOMAIN s : s[k] \in Cmd \cup {Nil}
  BY SMTT(60) DEF Ingested

\* Recording an entry keeps the types.
LEMMA RecordedType ==
    ASSUME Types, NEW i \in Server, NEW n, NEW c \in Cmd, CheckLogs(i, n, c)
    PROVE  /\ DOMAIN logs' = Server
           /\ \A j \in Server : \A k \in DOMAIN logs'[j] : logs'[j][k] \in Cmd \cup {Nil}
           /\ \A j \in Server : j # i => logs'[j] = logs[j]
           /\ DOMAIN logs'[i] = DOMAIN logs[i] \cup {n}
           /\ logs'[i][n] = c
           /\ \A k \in DOMAIN logs[i] : k # n => logs'[i][k] = logs[i][k]
  BY DEF Types, CheckLogs, Recorded

\* The initial state has the types.
LEMMA TypesInit == Init => Types /\ NoSnapshots
  BY SMTT(60) DEF Init, Types, NoSnapshots

\* Every step keeps the types.
LEMMA TypesStep == Types /\ [Next]_vars => Types'
  <1> SUFFICES ASSUME Types, [Next]_vars PROVE Types'
    OBVIOUS
  <1>1. ASSUME NEW c \in Cmd, Commit(c) PROVE Types'
    BY <1>1, SMTT(60) DEF Commit, Types, srvVars
  <1>2. ASSUME NEW i \in Server, NEW n \in Index, NEW c \in Cmd, ApplyCommand(i, n, c)
        PROVE  Types'
    <2>1. /\ DOMAIN logs' = Server
          /\ \A j \in Server : \A k \in DOMAIN logs'[j] : logs'[j][k] \in Cmd \cup {Nil}
      BY <1>2, RecordedType DEF ApplyCommand, Types
    <2>2. n \in Nat \ {0}
      BY HarnessAssumption, SMTT(60) DEF Index
    <2>3. /\ next' = [next EXCEPT ![i] = n + 1]
          /\ lastApplied' = [lastApplied EXCEPT ![i] = IF snapshot THEN n ELSE @]
          /\ UNCHANGED <<committed, saved, running, flight>>
      BY <1>2 DEF ApplyCommand
    <2>4. DOMAIN snapping' = Server
      BY <1>2 DEF ApplyCommand, Types
    <2>5. QED
      BY <2>1, <2>2, <2>3, <2>4, SMTT(60) DEF Types
  <1>3. ASSUME NEW i \in Server, NEW j \in Server, NEW n \in Index, IngestSnap(i, j, n)
        PROVE  Types'
    <2>1. /\ saved[j] \in Seq(Cmd \cup {Nil}) /\ Ingested(saved[j]) = saved[j]
          /\ Len(saved[j]) \in Nat
          /\ \A k \in DOMAIN saved[j] : saved[j][k] \in Cmd \cup {Nil}
      BY IngestedType DEF Types
    <2>2. n \in Nat \ {0}
      BY HarnessAssumption, SMTT(60) DEF Index
    <2>3. /\ logs' = [logs EXCEPT ![i] = saved[j]] \/ logs' = logs
          /\ lastApplied' = [lastApplied EXCEPT ![i] = Len(saved[j])] \/ lastApplied' = lastApplied
          /\ next' = [next EXCEPT ![i] = n + 1]
          /\ saved' = [saved EXCEPT ![i] = saved[j]]
          /\ UNCHANGED <<committed, running, snapping, flight>>
      BY <1>3, <2>1 DEF IngestSnap
    <2>4. /\ DOMAIN logs' = Server
          /\ \A l \in Server : \A k \in DOMAIN logs'[l] : logs'[l][k] \in Cmd \cup {Nil}
      BY <2>1, <2>3 DEF Types
    <2>5. next' \in [Server -> Nat \ {0}] /\ lastApplied' \in [Server -> Nat]
      <3>1. next \in [Server -> Nat \ {0}] /\ lastApplied \in [Server -> Nat]
        BY DEF Types
      <3>2. n + 1 \in Nat \ {0}
        BY <2>2, SMTT(60)
      <3>3. next' \in [Server -> Nat \ {0}]
        BY <2>3, <3>1, <3>2
      <3>4. lastApplied' \in [Server -> Nat]
        BY <2>1, <2>3, <3>1
      <3>5. QED
        BY <3>3, <3>4
    <2>6. saved' \in [Server -> Seq(Cmd \cup {Nil})]
      BY <2>1, <2>3 DEF Types
    <2>7. QED
      BY <2>3, <2>4, <2>5, <2>6 DEF Types
  <1>4. ASSUME NEW i \in Server, Snapshot(i) PROVE Types'
    <2>1. Xlog(logs[i], lastApplied[i]) \in Seq(Cmd \cup {Nil})
      BY XlogType DEF Types
    <2>2. QED
      BY <1>4, <2>1 DEF Snapshot, Types
  <1>5. ASSUME NEW i \in Server, StartServer(i) PROVE Types'
    <2>1. /\ Ingested(saved[i]) = saved[i] /\ Len(saved[i]) \in Nat
          /\ \A k \in DOMAIN saved[i] : saved[i][k] \in Cmd \cup {Nil}
      BY IngestedType DEF Types
    <2>2. QED
      BY <1>5, <2>1, SMTT(60) DEF StartServer, Types
  <1>6. ASSUME NEW i \in Server, NEW f \in 0 .. MaxIndex, Kill(i, f) PROVE Types'
    BY <1>6, HarnessAssumption, SMTT(60) DEF Kill, Types, raftVars
  <1>7. ASSUME NEW i \in Server, NEW c \in Cmd, ApplyLate(i, c) PROVE Types'
    <2>1. /\ DOMAIN logs' = Server
          /\ \A j \in Server : \A k \in DOMAIN logs'[j] : logs'[j][k] \in Cmd \cup {Nil}
      BY <1>7, RecordedType DEF ApplyLate
    <2>2. QED
      BY <1>7, <2>1 DEF ApplyLate, Types, raftVars
  <1>8. CASE TestNext \/ UNCHANGED vars
    BY <1>8, TestFrame DEF vars, raftVars, srvVars, Types
  <1>9. QED
    BY <1>1, <1>2, <1>3, <1>4, <1>5, <1>6, <1>7, <1>8, NextCases

\* Every step keeps NoSnapshots.
LEMMA NoSnapshotsStep == Types /\ NoSnapshots /\ [Next]_vars => NoSnapshots'
  <1> SUFFICES ASSUME Types, NoSnapshots, [Next]_vars, ~snapshot, ~snapshot', NEW l \in Server
               PROVE  saved'[l] = <<>> /\ ~snapping'[l]
    <2>1. [Next]_vars => snapshot' = snapshot
      BY DEF Next, vars, Commit, ApplyCommand, IngestSnap, Snapshot, StartServer, Kill,
             ApplyLate, Submit, OneCall, WaitCall, Start, OnePoll, OneRetry, OneFails,
             WaitEnds, WaitReturns, TestStep
    <2>2. QED
      BY <2>1 DEF NoSnapshots
  <1>1. saved[l] = <<>> /\ \A i \in Server : ~snapping[i]
    BY DEF NoSnapshots
  <1>2. ASSUME NEW i \in Server, NEW n \in Index, NEW c \in Cmd, ApplyCommand(i, n, c)
        PROVE  saved'[l] = <<>> /\ ~snapping'[l]
    BY <1>1, <1>2 DEF ApplyCommand, Types
  <1>3. ASSUME NEW i \in Server, StartServer(i) PROVE saved'[l] = <<>> /\ ~snapping'[l]
    BY <1>1, <1>3 DEF StartServer, Types
  <1>4. ASSUME NEW i \in Server, Snapshot(i) \/ \E j \in Server, n \in Index : IngestSnap(i, j, n)
        PROVE  FALSE
    BY <1>1, <1>4 DEF IngestSnap, Snapshot
  <1>5. ASSUME saved' = saved, snapping' = snapping
        PROVE  saved'[l] = <<>> /\ ~snapping'[l]
    BY <1>1, <1>5
  <1>6. ASSUME NEW c \in Cmd, Commit(c) PROVE saved' = saved /\ snapping' = snapping
    BY <1>6 DEF Commit, srvVars
  <1>7. ASSUME NEW i \in Server, NEW f \in 0 .. MaxIndex, Kill(i, f)
        PROVE  saved' = saved /\ snapping' = snapping
    BY <1>7 DEF Kill, raftVars
  <1>8. ASSUME NEW i \in Server, NEW c \in Cmd, ApplyLate(i, c)
        PROVE  saved' = saved /\ snapping' = snapping
    BY <1>8 DEF ApplyLate, raftVars
  <1>9. ASSUME TestNext \/ UNCHANGED vars PROVE saved' = saved /\ snapping' = snapping
    BY <1>9, TestFrame DEF vars, raftVars, srvVars
  <1>10. QED
    BY <1>2, <1>3, <1>4, <1>5, <1>6, <1>7, <1>8, <1>9, NextCases

-----------------------------------------------------------------------------

(***************************************************************************)
(* Where each server stands while no alarm has been raised: the position   *)
(* of its Raft, the entries its log holds at least, and, the point of it   *)
(* all, that logs and snapshots agree.  checkLogs compares logs only; a    *)
(* snapshot is covered because its server's own log holds all of it.       *)
(***************************************************************************)
Position ==
    \A i \in Server :
        /\ snapshot /\ (running[i] \/ flight[i] # 0) => next[i] = lastApplied[i] + 1
        /\ ~running[i] /\ flight[i] # 0 => flight[i] = next[i]

Held ==
    \A i \in Server : /\ DOMAIN saved[i] \subseteq DOMAIN logs[i]
                      /\ snapshot => 1 .. lastApplied[i] \subseteq DOMAIN logs[i]

Agreement ==
    \A i, j \in Server : /\ Agree(logs[i], logs[j])
                         /\ Agree(logs[i], saved[j])
                         /\ Agree(saved[i], saved[j])

AgreeInv == fatal = "no" => Position /\ Held /\ Agreement

\* AgreeInv holds initially.
LEMMA AgreeInit == Init => AgreeInv
  BY SMTT(60) DEF Init, AgreeInv, Position, Held, Agreement, Agree

\* Recording an entry that checkLogs found nothing against keeps the logs in agreement.
LEMMA CheckLogsAgree ==
    ASSUME Types, Held, Agreement, NEW i \in Server, NEW n, NEW c \in Cmd,
           CheckLogs(i, n, c), fatal' = "no", saved' = saved
    PROVE  Agreement'
  <1>1. \A j \in Server : n \in DOMAIN logs[j] => logs[j][n] = c
    BY DEF CheckLogs, Disagrees
  <1>2. \A j \in Server : n \in DOMAIN saved[j] => saved[j][n] = c
    BY <1>1, SMTT(60) DEF Held, Agreement, Agree
  <1>3. ASSUME NEW j \in Server, NEW k \in DOMAIN logs'[j]
        PROVE  (k = n /\ logs'[j][k] = c) \/ (k \in DOMAIN logs[j] /\ logs'[j][k] = logs[j][k])
    BY <1>3, RecordedType, SMTT(60)
  <1>4. ASSUME NEW j \in Server, NEW l \in Server PROVE Agree(logs'[j], logs'[l])
    <2>1. SUFFICES ASSUME NEW k \in DOMAIN logs'[j] \cap DOMAIN logs'[l]
                   PROVE  logs'[j][k] = logs'[l][k]
      BY DEF Agree
    <2>2. CASE k = n
      BY <1>1, <1>3, <2>2, SMTT(60)
    <2>3. CASE k # n
      BY <1>3, <2>3, SMTT(60) DEF Agreement, Agree
    <2>4. QED
      BY <2>2, <2>3
  <1>5. ASSUME NEW j \in Server, NEW l \in Server PROVE Agree(logs'[j], saved[l])
    <2>1. SUFFICES ASSUME NEW k \in DOMAIN logs'[j] \cap DOMAIN saved[l]
                   PROVE  logs'[j][k] = saved[l][k]
      BY DEF Agree
    <2>2. CASE k = n
      BY <1>1, <1>2, <1>3, <2>2
    <2>3. CASE k # n
      BY <1>3, <2>3, SMTT(60) DEF Agreement, Agree
    <2>4. QED
      BY <2>2, <2>3
  <1>6. QED
    BY <1>4, <1>5 DEF Agreement

\* Replacing a server's log, its snapshot or both by parts of what was there keeps the
\* agreement.
LEMMA ReplaceAgree ==
    ASSUME Types, Agreement, NEW i \in Server, NEW new,
           \/ logs' = logs
           \/ logs' = [logs EXCEPT ![i] = new],
           \/ saved' = saved
           \/ saved' = [saved EXCEPT ![i] = new],
           \/ \E j \in Server : new = saved[j]
           \/ DOMAIN new \subseteq DOMAIN logs[i] /\ \A k \in DOMAIN new : new[k] = logs[i][k]
    PROVE  Agreement'
  <1>1. \A l \in Server : Agree(new, logs[l]) /\ Agree(new, saved[l])
    BY SMTT(60) DEF Agreement, Agree
  <1>2. ASSUME NEW l \in Server
        PROVE  logs'[l] \in {logs[l], new} /\ saved'[l] \in {saved[l], new}
    BY DEF Types
  <1>3. ASSUME NEW j \in Server, NEW l \in Server
        PROVE  /\ Agree(logs'[j], logs'[l]) /\ Agree(logs'[j], saved'[l])
               /\ Agree(saved'[j], saved'[l])
    <2>1. /\ Agree(logs[j], logs[l]) /\ Agree(logs[j], saved[l]) /\ Agree(saved[j], logs[l])
          /\ Agree(saved[j], saved[l])
      BY SMTT(60) DEF Agreement, Agree
    <2>2. /\ Agree(logs[j], new) /\ Agree(saved[j], new) /\ Agree(new, new)
          /\ Agree(new, logs[l]) /\ Agree(new, saved[l])
      BY <1>1 DEF Agree
    <2>3. QED
      BY <1>2, <2>1, <2>2
  <1>4. QED
    BY <1>3 DEF Agreement

\* Every step keeps AgreeInv.
LEMMA AgreeStep == Types /\ NoSnapshots /\ AgreeInv /\ [Next]_vars => AgreeInv'
  <1> SUFFICES ASSUME Types, NoSnapshots, AgreeInv, [Next]_vars, fatal' = "no"
               PROVE  Position' /\ Held' /\ Agreement'
    BY DEF AgreeInv
  <1> DEFINE Goal == Position' /\ Held' /\ Agreement'
  <1>0. fatal = "no" => Position /\ Held /\ Agreement
    BY DEF AgreeInv
  <1>1. ASSUME NEW i \in Server, NEW n \in Index, NEW c \in Cmd, ApplyCommand(i, n, c)
        PROVE  Goal
    <2>1. /\ Position /\ Held /\ Agreement /\ n \in Nat \ {0}
          /\ CheckLogs(i, n, c) /\ (snapshot => n = lastApplied[i] + 1)
          /\ running[i] /\ running' = running /\ flight' = flight /\ snapshot' = snapshot
          /\ saved' = saved /\ next' = [next EXCEPT ![i] = n + 1]
          /\ lastApplied' = [lastApplied EXCEPT ![i] = IF snapshot THEN n ELSE @]
      BY <1>0, <1>1, HarnessAssumption, SMTT(60) DEF ApplyCommand, Index
    <2>2. Agreement'
      BY <2>1, CheckLogsAgree
    <2>3. Position'
      BY <2>1 DEF Position, Types
    <2>4. /\ DOMAIN logs'[i] = DOMAIN logs[i] \cup {n}
          /\ \A j \in Server : j # i => logs'[j] = logs[j]
      BY <2>1, RecordedType
    <2>5. ASSUME NEW j \in Server, snapshot PROVE 1 .. lastApplied'[j] \subseteq DOMAIN logs'[j]
      <3>1. CASE j = i
        <4>1. lastApplied'[j] = n /\ n = lastApplied[i] + 1
          BY <2>1, <2>5, <3>1 DEF Types
        <4>2. 1 .. lastApplied[i] \subseteq DOMAIN logs[i]
          BY <2>1, <2>5 DEF Held
        <4>3. QED
          BY <2>4, <3>1, <4>1, <4>2, SMTT(60) DEF Types
      <3>2. CASE j # i
        BY <2>1, <2>4, <2>5, <3>2 DEF Types, Held
      <3>3. QED
        BY <3>1, <3>2
    <2>6. ASSUME NEW j \in Server PROVE DOMAIN saved'[j] \subseteq DOMAIN logs'[j]
      BY <2>1, <2>4 DEF Held
    <2>7. QED
      BY <2>1, <2>2, <2>3, <2>5, <2>6 DEF Held
  <1>2. ASSUME NEW i \in Server, NEW j \in Server, NEW n \in Index, IngestSnap(i, j, n)
        PROVE  Goal
    <2>1. saved[j] \in Seq(Cmd \cup {Nil}) /\ Ingested(saved[j]) = saved[j]
          /\ Len(saved[j]) \in Nat /\ DOMAIN saved[j] = 1 .. Len(saved[j])
      BY IngestedType DEF Types
    <2>2. /\ Position /\ Held /\ Agreement /\ n = Len(saved[j])
          /\ running[i] /\ running' = running /\ flight' = flight /\ snapshot' = snapshot
          /\ saved' = [saved EXCEPT ![i] = saved[j]]
          /\ logs' = [logs EXCEPT ![i] = saved[j]]
          /\ next' = [next EXCEPT ![i] = n + 1]
          /\ lastApplied' = [lastApplied EXCEPT ![i] = n]
      BY <1>0, <1>2, <2>1 DEF IngestSnap
    <2>3. Agreement'
      BY <2>2, ReplaceAgree
    <2>4. Position'
      BY <2>1, <2>2 DEF Position, Types
    <2>5. Held'
      BY <2>1, <2>2 DEF Held, Types
    <2>6. QED
      BY <2>3, <2>4, <2>5
  <1>3. ASSUME NEW i \in Server, Snapshot(i) PROVE Goal
    <2> DEFINE x == Xlog(logs[i], lastApplied[i])
    <2>1. /\ Position /\ Held /\ Agreement /\ snapshot /\ snapshot' = snapshot
          /\ saved' = [saved EXCEPT ![i] = x] \/ saved' = saved
          /\ UNCHANGED <<running, flight, next, lastApplied, logs>>
      BY <1>0, <1>3 DEF Snapshot, NoSnapshots, Types
    <2>2. DOMAIN x = 1 .. lastApplied[i] /\ 1 .. lastApplied[i] \subseteq DOMAIN logs[i]
      BY <2>1, XlogType DEF Types, Held
    <2>3. \A k \in DOMAIN x : x[k] = logs[i][k]
      BY <2>2 DEF Xlog
    <2>4. Agreement'
      BY <2>1, <2>2, <2>3, ReplaceAgree
    <2>5. Position'
      BY <2>1 DEF Position
    <2>6. Held'
      BY <2>1, <2>2 DEF Held, Types
    <2>7. QED
      BY <2>4, <2>5, <2>6
  <1>4. ASSUME NEW i \in Server, StartServer(i) PROVE Goal
    <2>1. saved[i] \in Seq(Cmd \cup {Nil}) /\ Ingested(saved[i]) = saved[i]
          /\ Len(saved[i]) \in Nat /\ DOMAIN saved[i] = 1 .. Len(saved[i])
      BY IngestedType DEF Types
    <2>2. /\ Position /\ Held /\ Agreement
          /\ running' = [running EXCEPT ![i] = TRUE] /\ flight' = flight
          /\ snapshot' = snapshot /\ saved' = saved
          /\ logs' = [logs EXCEPT ![i] = saved[i]]
          /\ next' = [next EXCEPT ![i] = Len(saved[i]) + 1]
          /\ lastApplied' = [lastApplied EXCEPT ![i] = Len(saved[i])]
      BY <1>0, <1>4, <2>1 DEF StartServer
    <2>3. Agreement'
      BY <2>2, ReplaceAgree
    <2>4. Position'
      BY <2>1, <2>2 DEF Position, Types
    <2>5. Held'
      BY <2>1, <2>2 DEF Held, Types
    <2>6. QED
      BY <2>3, <2>4, <2>5
  <1>5. ASSUME NEW i \in Server, NEW f \in 0 .. MaxIndex, Kill(i, f) PROVE Goal
    <2>1. /\ Position /\ Held /\ Agreement /\ running[i]
          /\ f = 0 \/ f = next[i]
          /\ running' = [running EXCEPT ![i] = FALSE]
          /\ flight' = [flight EXCEPT ![i] = f]
          /\ snapshot' = snapshot
          /\ UNCHANGED <<saved, next, logs, lastApplied>>
      BY <1>0, <1>5 DEF Kill, raftVars
    <2>2. Position'
      BY <2>1 DEF Position, Types
    <2>3. QED
      BY <2>1, <2>2 DEF Held, Agreement
  <1>6. ASSUME NEW i \in Server, NEW c \in Cmd, ApplyLate(i, c) PROVE Goal
    <2> DEFINE n == flight[i]
    <2>1. /\ Position /\ Held /\ Agreement /\ n # 0 /\ n \in Nat
          /\ CheckLogs(i, n, c)
          /\ flight' = [flight EXCEPT ![i] = 0]
          /\ lastApplied' = [lastApplied EXCEPT ![i] = IF snapshot /\ ~running[i] THEN n ELSE @]
          /\ snapshot' = snapshot /\ running' = running
          /\ UNCHANGED <<saved, next>>
      BY <1>0, <1>6 DEF ApplyLate, raftVars, Types
    <2>2. Agreement'
      BY <2>1, CheckLogsAgree
    <2>3. Position'
      BY <2>1 DEF Position, Types
    <2>4. /\ DOMAIN logs'[i] = DOMAIN logs[i] \cup {n}
          /\ \A j \in Server : j # i => logs'[j] = logs[j]
      BY <2>1, RecordedType
    <2>5. ASSUME NEW j \in Server, snapshot PROVE 1 .. lastApplied'[j] \subseteq DOMAIN logs'[j]
      <3>1. CASE j = i /\ ~running[i]
        <4>1. lastApplied'[j] = n /\ n = lastApplied[i] + 1
          BY <2>1, <2>5, <3>1 DEF Types, Position
        <4>2. 1 .. lastApplied[i] \subseteq DOMAIN logs[i]
          BY <2>1, <2>5 DEF Held
        <4>3. QED
          BY <2>4, <3>1, <4>1, <4>2, SMTT(60) DEF Types
      <3>2. CASE j # i \/ running[i]
        BY <2>1, <2>4, <2>5, <3>2 DEF Types, Held
      <3>3. QED
        BY <3>1, <3>2
    <2>6. ASSUME NEW j \in Server PROVE DOMAIN saved'[j] \subseteq DOMAIN logs'[j]
      BY <2>1, <2>4 DEF Held
    <2>7. QED
      BY <2>1, <2>2, <2>3, <2>5, <2>6 DEF Held
  <1>7. ASSUME fatal = "no", UNCHANGED <<snapshot, running, next, saved, flight, logs, lastApplied>>
        PROVE  Goal
    BY <1>0, <1>7 DEF Position, Held, Agreement
  <1>8. ASSUME NEW c \in Cmd, Commit(c)
        PROVE  /\ fatal = "no"
               /\ UNCHANGED <<snapshot, running, next, saved, flight, logs, lastApplied>>
    BY <1>8 DEF Commit, srvVars
  <1>9. ASSUME TestNext \/ UNCHANGED vars
        PROVE  /\ fatal = "no"
               /\ UNCHANGED <<snapshot, running, next, saved, flight, logs, lastApplied>>
    BY <1>9, TestFrame DEF vars, raftVars, srvVars
  <1>10. QED
    BY <1>1, <1>2, <1>3, <1>4, <1>5, <1>6, <1>7, <1>8, <1>9, NextCases

\* The invariant holds always.
LEMMA AgreeAlways == Spec => [](Types /\ NoSnapshots /\ AgreeInv)
  BY TypesInit, TypesStep, NoSnapshotsStep, AgreeInit, AgreeStep, PTL DEF Spec

\* Whatever Raft delivers, two servers' logs, or a log and a snapshot, that differ at an
\* index have raised the alarm (test.go:108-129, server.go:90-185).
THEOREM DisagreementIsCaught == Spec => []DisagreementCaught
  <1>1. AgreeInv => DisagreementCaught
    BY DEF AgreeInv, Agreement, DisagreementCaught
  <1>2. QED
    BY <1>1, AgreeAlways, PTL

-----------------------------------------------------------------------------

(***************************************************************************)
(* A correct Raft: every log and every snapshot holds what was agreed on,  *)
(* a log holds everything its Raft has delivered, and so nothing that is   *)
(* delivered next can be found wrong.                                      *)
(***************************************************************************)
TrueTo(l, log) == \A k \in DOMAIN l : k \in DOMAIN log /\ l[k] = log[k]

LogsTrue ==
    \A i \in Server : /\ TrueTo(logs[i], committed)
                      /\ TrueTo(saved[i], committed)
                      /\ flight[i] # 0 => flight[i] \in DOMAIN committed
                      /\ 1 .. next[i] - 1 \subseteq DOMAIN logs[i]

RetTrue ==
    ret # NoRet => ret.index \in DOMAIN committed /\ committed[ret.index] = ret.cmd

TrueInv == correct => LogsTrue /\ RetTrue

\* TrueInv and NoFalseAlarm hold initially.
LEMMA TrueInit == Init => TrueInv /\ NoFalseAlarm
  BY SMTT(60) DEF Init, TrueInv, LogsTrue, RetTrue, TrueTo, NoFalseAlarm

\* Recording an entry that was agreed on keeps a log true; there is nothing to find
\* against it if its predecessor is there.
LEMMA CheckLogsTrue ==
    ASSUME Types, LogsTrue, NEW i \in Server, NEW n \in DOMAIN committed, NEW c \in Cmd,
           c = committed[n], CheckLogs(i, n, c)
    PROVE  /\ \A j \in Server : TrueTo(logs'[j], committed)
           /\ \A j \in Server : DOMAIN logs[j] \subseteq DOMAIN logs'[j]
           /\ n \in DOMAIN logs'[i]
           /\ (n > 1 => n - 1 \in DOMAIN logs[i]) => fatal' = "no"
  <1>1. ~Disagrees(i, n, c)
    BY DEF Disagrees, LogsTrue, TrueTo
  <1>2. (n > 1 => n - 1 \in DOMAIN logs[i]) => fatal' = "no"
    BY <1>1 DEF CheckLogs
  <1>3. /\ \A j \in Server : j # i => logs'[j] = logs[j]
        /\ DOMAIN logs'[i] = DOMAIN logs[i] \cup {n}
        /\ logs'[i][n] = c
        /\ \A k \in DOMAIN logs[i] : k # n => logs'[i][k] = logs[i][k]
    BY RecordedType, SMTT(60)
  <1>4. QED
    BY <1>2, <1>3, SMTT(60) DEF LogsTrue, TrueTo

\* Values that were agreed on never differ at an index.
LEMMA NoMismatch ==
    ASSUME LogsTrue, NEW n
    PROVE  /\ ~Mismatch(n)
           /\ \A v \in Values(n) : n \in DOMAIN committed /\ committed[n] = v
  <1>1. \A v \in Values(n) : n \in DOMAIN committed /\ committed[n] = v
    BY DEF Values, Holders, LogsTrue, TrueTo
  <1>2. Values(n) = {} \/ Values(n) = {committed[n]}
    BY <1>1
  <1>3. Cardinality(Values(n)) = 0 \/ Cardinality(Values(n)) = 1
    BY <1>2, FS_EmptySet, FS_Singleton
  <1>4. QED
    BY <1>1, <1>3, SMTT(60) DEF Mismatch

\* The steps of the test goroutine keep TrueInv and raise no false alarm.
LEMMA TrueTest ==
    ASSUME Types, LogsTrue, RetTrue, TestNext
    PROVE  RetTrue' /\ fatal' \in {"no", "no agreement"}
  <1>1. committed' = committed /\ fatal = "no"
    BY TestFrame
  <1>2. ~Mismatch(test.index)
        /\ \A v \in Values(test.index) :
             test.index \in DOMAIN committed /\ committed[test.index] = v
    BY NoMismatch
  <1>3. ASSUME \/ \E c \in Cmd : Submit(c)
               \/ \E n \in Expected, c \in Cmd : OneCall(c, n)
               \/ \E n \in Expected, k \in Index : WaitCall(k, n)
        PROVE  ret' = NoRet /\ fatal' = "no"
    BY <1>3 DEF Submit, OneCall, WaitCall, TestStep
  <1>4. ASSUME \E i \in Server, k \in Index : Start(i, k) PROVE ret' = ret /\ fatal' = "no"
    BY <1>4 DEF Start, TestStep
  <1>5. ASSUME OneRetry \/ OneFails PROVE ret' = ret /\ fatal' \in {"no", "no agreement"}
    BY <1>5 DEF OneRetry, OneFails, TestStep
  <1>6. ASSUME WaitEnds PROVE (ret' = ret \/ ret' = NoRet) /\ fatal' = "no"
    BY <1>6 DEF WaitEnds, TestStep
  <1>7. ASSUME OnePoll PROVE RetTrue' /\ fatal' = "no"
    <2>1. /\ Values(test.index) = {test.cmd}
          /\ ret' = [cmd |-> test.cmd, index |-> test.index]
          /\ fatal' = "no"
      BY <1>2, <1>7 DEF OnePoll, TestStep, Agreed
    <2>2. QED
      BY <1>1, <1>2, <2>1 DEF RetTrue
  <1>8. ASSUME WaitReturns PROVE RetTrue' /\ fatal' \in {"no", "no agreement"}
    <2>1. CASE NCommitted(test.index) < test.n
      BY <1>1, <1>2, <1>8, <2>1 DEF WaitReturns, TestStep, RetTrue
    <2>2. CASE ~(NCommitted(test.index) < test.n)
      <3>1. PICK v \in Values(test.index) :
              ret' = [cmd |-> v, index |-> test.index] /\ fatal' = "no"
        BY <1>2, <1>8, <2>2 DEF WaitReturns, TestStep
      <3>2. QED
        BY <1>1, <1>2, <3>1 DEF RetTrue
    <2>3. QED
      BY <2>1, <2>2
  <1>9. (ret' = ret \/ ret' = NoRet) => RetTrue'
    BY <1>1 DEF RetTrue, NoRet
  <1>10. QED
    BY <1>3, <1>4, <1>5, <1>6, <1>7, <1>8, <1>9 DEF TestNext

\* Every step keeps TrueInv and NoFalseAlarm.
LEMMA TrueStep ==
    Types /\ NoSnapshots /\ AgreeInv /\ TrueInv /\ NoFalseAlarm /\ [Next]_vars
        => TrueInv' /\ NoFalseAlarm'
  <1> DEFINE NoAlarm == fatal \notin {"apply error", "values do not match"}
             Goal == LogsTrue' /\ RetTrue' /\ (~stale' => NoAlarm')
  <1> SUFFICES ASSUME Types, NoSnapshots, AgreeInv, TrueInv, NoFalseAlarm, [Next]_vars,
                      correct, correct'
               PROVE  Goal
    <2>1. [Next]_vars => correct' = correct
      BY DEF Next, vars, Commit, ApplyCommand, IngestSnap, Snapshot, StartServer, Kill,
             ApplyLate, Submit, OneCall, WaitCall, Start, OnePoll, OneRetry, OneFails,
             WaitEnds, WaitReturns, TestStep
    <2>2. QED
      BY <2>1 DEF TrueInv, NoFalseAlarm
  <1>0. /\ LogsTrue /\ RetTrue /\ (~stale => NoAlarm)
        /\ fatal = "no" => Position /\ Held
        /\ DOMAIN committed = 1 .. Len(committed) /\ Len(committed) \in Nat
    <2>1. LogsTrue /\ RetTrue
      BY DEF TrueInv
    <2>2. ~stale => NoAlarm
      BY DEF NoFalseAlarm
    <2>3. fatal = "no" => Position /\ Held
      BY DEF AgreeInv
    <2>4. DOMAIN committed = 1 .. Len(committed) /\ Len(committed) \in Nat
      BY SMTT(60) DEF Types
    <2>5. QED
      BY <2>1, <2>2, <2>3, <2>4
  <1>1. ASSUME NEW c \in Cmd, Commit(c) PROVE Goal
    <2>1. /\ UNCHANGED <<logs, saved, flight, next, ret, fatal>>
          /\ committed' = Append(committed, c) /\ stale' = stale
      BY <1>1 DEF Commit, srvVars, testVars
    <2>2. \A k \in DOMAIN committed : k \in DOMAIN committed' /\ committed'[k] = committed[k]
      <3>1. committed \in Seq(Cmd)
        BY DEF Types
      <3>2. QED
        BY <2>1, <3>1, SMTT(60)
    <2>3. QED
      BY <1>0, <2>1, <2>2 DEF LogsTrue, RetTrue, TrueTo
  <1>2. ASSUME NEW i \in Server, NEW n \in Index, NEW c \in Cmd, ApplyCommand(i, n, c)
        PROVE  Goal
    <2>1. /\ fatal = "no" /\ running[i] /\ Position
          /\ n = next[i] /\ n <= Len(committed) /\ c = committed[n]
      BY <1>0, <1>2 DEF ApplyCommand, Delivers
    <2>2. snapshot => n = lastApplied[i] + 1
      BY <2>1 DEF Position
    <2>3. n \in DOMAIN committed /\ n \in Nat \ {0}
      BY <1>0, <2>1, SMTT(60) DEF Types
    <2>4. /\ CheckLogs(i, n, c) /\ next' = [next EXCEPT ![i] = n + 1]
          /\ UNCHANGED <<committed, saved, flight, ret>>
      BY <1>2, <2>2 DEF ApplyCommand, testVars
    <2>5. /\ \A j \in Server : TrueTo(logs'[j], committed)
          /\ \A j \in Server : DOMAIN logs[j] \subseteq DOMAIN logs'[j]
          /\ n \in DOMAIN logs'[i]
          /\ (n > 1 => n - 1 \in DOMAIN logs[i]) => fatal' = "no"
      BY <1>0, <2>1, <2>3, <2>4, CheckLogsTrue
    <2>6. 1 .. n - 1 \subseteq DOMAIN logs[i]
      BY <1>0, <2>1 DEF LogsTrue
    <2>7. fatal' = "no"
      BY <2>3, <2>5, <2>6, SMTT(60)
    <2>8. ASSUME NEW j \in Server PROVE 1 .. next'[j] - 1 \subseteq DOMAIN logs'[j]
      <3>1. CASE j = i
        <4>1. next'[j] - 1 = n
          BY <2>3, <2>4, <3>1, SMTT(60) DEF Types
        <4>2. QED
          BY <2>3, <2>5, <2>6, <3>1, <4>1, SMTT(60)
      <3>2. CASE j # i
        BY <1>0, <2>4, <2>5, <3>2 DEF LogsTrue, Types
      <3>3. QED
        BY <3>1, <3>2
    <2>9. QED
      BY <1>0, <2>4, <2>5, <2>7, <2>8 DEF LogsTrue, RetTrue
  <1>3. ASSUME NEW i \in Server, NEW j \in Server, NEW n \in Index, IngestSnap(i, j, n)
        PROVE  Goal
    <2>1. Ingested(saved[j]) = saved[j] /\ DOMAIN saved[j] = 1 .. Len(saved[j])
          /\ Len(saved[j]) \in Nat
      BY IngestedType DEF Types
    <2>2. /\ n = Len(saved[j]) /\ fatal' = fatal /\ stale' = stale
          /\ saved' = [saved EXCEPT ![i] = saved[j]]
          /\ logs' = [logs EXCEPT ![i] = saved[j]]
          /\ next' = [next EXCEPT ![i] = n + 1]
          /\ UNCHANGED <<committed, flight, ret>>
      BY <1>3, <2>1 DEF IngestSnap, testVars
    <2>3. ASSUME NEW k \in Server
          PROVE  /\ TrueTo(logs'[k], committed) /\ TrueTo(saved'[k], committed)
                 /\ 1 .. next'[k] - 1 \subseteq DOMAIN logs'[k]
      <3>1. CASE k = i
        <4>1. next'[k] - 1 = Len(saved[j]) /\ logs'[k] = saved[j]
          BY <2>1, <2>2, <3>1, SMTT(60) DEF Types
        <4>2. saved'[k] = saved[j]
          BY <2>2, <3>1 DEF Types
        <4>3. TrueTo(saved[j], committed)
          BY <1>0 DEF LogsTrue
        <4>4. QED
          BY <2>1, <4>1, <4>2, <4>3
      <3>2. CASE k # i
        BY <1>0, <2>2, <3>2 DEF LogsTrue, Types
      <3>3. QED
        BY <3>1, <3>2
    <2>4. QED
      BY <1>0, <2>2, <2>3 DEF LogsTrue, RetTrue
  <1>4. ASSUME NEW i \in Server, Snapshot(i) PROVE Goal
    <2> DEFINE x == Xlog(logs[i], lastApplied[i])
    <2>1. /\ fatal = "no" /\ Held /\ snapshot
          /\ saved' = [saved EXCEPT ![i] = x] \/ saved' = saved
          /\ UNCHANGED <<committed, logs, next, flight, ret, fatal>> /\ stale' = stale
      <3>1. fatal = "no" /\ snapping[i]
        BY <1>4 DEF Snapshot
      <3>2. Held /\ snapshot
        BY <1>0, <3>1 DEF NoSnapshots
      <3>3. UNCHANGED <<committed, logs, next, flight, ret, fatal>> /\ stale' = stale
        BY <1>4 DEF Snapshot, testVars
      <3>4. saved \in [Server -> Seq(Cmd \cup {Nil})]
        BY DEF Types
      <3>5. saved' = [saved EXCEPT ![i] = x] \/ saved' = saved
        BY <1>4, <3>4 DEF Snapshot
      <3>6. QED
        BY <3>1, <3>2, <3>3, <3>5
    <2>2. DOMAIN x = 1 .. lastApplied[i] /\ 1 .. lastApplied[i] \subseteq DOMAIN logs[i]
      BY <2>1, XlogType DEF Types, Held
    <2>3. TrueTo(x, committed)
      BY <1>0, <2>2 DEF Xlog, LogsTrue, TrueTo
    <2>4. LogsTrue'
      BY <1>0, <2>1, <2>3 DEF LogsTrue, Types
    <2>5. QED
      BY <1>0, <2>1, <2>4 DEF RetTrue
  <1>5. ASSUME NEW i \in Server, StartServer(i) PROVE Goal
    <2>1. Ingested(saved[i]) = saved[i] /\ DOMAIN saved[i] = 1 .. Len(saved[i])
          /\ Len(saved[i]) \in Nat
      BY IngestedType DEF Types
    <2>2. /\ logs' = [logs EXCEPT ![i] = saved[i]]
          /\ next' = [next EXCEPT ![i] = Len(saved[i]) + 1]
          /\ UNCHANGED <<committed, saved, flight, ret, fatal>> /\ stale' = stale
      BY <1>5, <2>1 DEF StartServer, testVars
    <2>3. ASSUME NEW k \in Server
          PROVE  /\ TrueTo(logs'[k], committed) /\ TrueTo(saved'[k], committed)
                 /\ 1 .. next'[k] - 1 \subseteq DOMAIN logs'[k]
      <3>1. CASE k = i
        <4>1. next'[k] - 1 = Len(saved[i]) /\ logs'[k] = saved[i]
          BY <2>1, <2>2, <3>1, SMTT(60) DEF Types
        <4>2. QED
          BY <1>0, <2>1, <2>2, <3>1, <4>1 DEF LogsTrue, Types
      <3>2. CASE k # i
        BY <1>0, <2>2, <3>2 DEF LogsTrue, Types
      <3>3. QED
        BY <3>1, <3>2
    <2>4. QED
      BY <1>0, <2>2, <2>3 DEF LogsTrue, RetTrue
  <1>6. ASSUME NEW i \in Server, NEW f \in 0 .. MaxIndex, Kill(i, f) PROVE Goal
    <2>1. /\ f = 0 \/ (f = next[i] /\ f <= Len(committed))
          /\ flight' = [flight EXCEPT ![i] = f]
          /\ UNCHANGED <<committed, saved, next, logs, ret, fatal>> /\ stale' = stale
      BY <1>6 DEF Kill, raftVars, testVars
    <2>2. f # 0 => f \in DOMAIN committed
      <3>1. f \in Nat
        BY HarnessAssumption, SMTT(60)
      <3>2. f = 0 \/ f <= Len(committed)
        BY <2>1
      <3>3. DOMAIN committed = 1 .. Len(committed) /\ Len(committed) \in Nat
        BY <1>0
      <3>4. QED
        BY <3>1, <3>2, <3>3, SMTT(60)
    <2>3. LogsTrue'
      BY <1>0, <2>1, <2>2 DEF LogsTrue, Types
    <2>4. QED
      BY <1>0, <2>1, <2>3 DEF RetTrue
  <1>7. ASSUME NEW i \in Server, NEW c \in Cmd, ApplyLate(i, c) PROVE Goal
    <2> DEFINE n == flight[i]
    <2>1. /\ fatal = "no" /\ Position /\ n # 0 /\ n \in DOMAIN committed /\ c = committed[n]
          /\ CheckLogs(i, n, c) /\ flight' = [flight EXCEPT ![i] = 0]
          /\ UNCHANGED <<committed, next, saved, ret>>
      BY <1>0, <1>7 DEF ApplyLate, raftVars, testVars, LogsTrue
    <2>2. /\ \A j \in Server : TrueTo(logs'[j], committed)
          /\ \A j \in Server : DOMAIN logs[j] \subseteq DOMAIN logs'[j]
          /\ (n > 1 => n - 1 \in DOMAIN logs[i]) => fatal' = "no"
      BY <1>0, <2>1, CheckLogsTrue
    <2>3. LogsTrue'
      BY <1>0, <2>1, <2>2 DEF LogsTrue, Types
    <2>4. ASSUME ~running[i] PROVE fatal' = "no"
      <3>1. n = next[i] /\ n \in Nat /\ 1 .. n - 1 \subseteq DOMAIN logs[i]
        BY <1>0, <2>1, <2>4 DEF Position, LogsTrue, Types
      <3>2. QED
        BY <2>2, <3>1, SMTT(60)
    <2>5. ~stale' => ~running[i]
      BY <1>7 DEF ApplyLate
    <2>6. QED
      BY <1>0, <2>1, <2>3, <2>4, <2>5 DEF RetTrue
  <1>8. CASE TestNext
    <2>1. UNCHANGED <<committed, logs, saved, flight, next>>
      BY <1>8, TestFrame DEF srvVars
    <2>2. RetTrue' /\ NoAlarm'
      BY <1>0, <1>8, TrueTest
    <2>3. QED
      BY <1>0, <2>1, <2>2 DEF LogsTrue
  <1>9. CASE UNCHANGED vars
    BY <1>0, <1>9 DEF vars, raftVars, srvVars, testVars, LogsTrue, RetTrue
  <1>10. QED
    BY <1>1, <1>2, <1>3, <1>4, <1>5, <1>6, <1>7, <1>8, <1>9, NextCases

\* All of it holds always.
LEMMA TrueAlways == Spec => [](Types /\ TrueInv /\ NoFalseAlarm)
  BY TypesInit, TypesStep, NoSnapshotsStep, AgreeInit, AgreeStep, TrueInit, TrueStep, PTL
     DEF Spec

\* The harness never blames a correct Raft, for any number of servers, crashes, restarts
\* and snapshots, as long as no killed Raft delivers into the instance that replaced it
\* (server.go:90-155, test.go:108-129, 145-168).
THEOREM NeverFalseAlarm == Spec => []NoFalseAlarm
  BY TrueAlways, PTL

\* What one and wait return has been agreed on at the index (test.go:182-266).
THEOREM ReturnsCommitted == Spec => []ReturnsAreCommitted
  <1>1. Types /\ TrueInv => ReturnsAreCommitted
    BY SMTT(60) DEF Types, TrueInv, RetTrue, ReturnsAreCommitted
  <1>2. QED
    BY <1>1, TrueAlways, PTL

\* Snapshots are gapless prefixes of the agreed log (server.go:134-144, 158-185).
THEOREM SnapshotsPrefixes == Spec => []SnapshotsArePrefixes
  <1>1. ASSUME Types, TrueInv PROVE SnapshotsArePrefixes
    <2>1. SUFFICES ASSUME correct, NEW i \in Server
                   PROVE  /\ Len(saved[i]) <= Len(committed)
                          /\ \A k \in 1 .. Len(saved[i]) : saved[i][k] = committed[k]
      BY DEF SnapshotsArePrefixes
    <2>2. \A k \in 1 .. Len(saved[i]) : k \in 1 .. Len(committed) /\ saved[i][k] = committed[k]
      BY <1>1, <2>1, SMTT(60) DEF Types, TrueInv, LogsTrue, TrueTo
    <2>3. Len(saved[i]) \in Nat /\ Len(committed) \in Nat
      BY <1>1, SMTT(60) DEF Types
    <2>4. QED
      BY <2>2, <2>3, SMTT(60)
  <1>2. QED
    BY <1>1, TrueAlways, PTL

=============================================================================
