-------------------------- MODULE MapReduceProofs ---------------------------
(***************************************************************************)
(* Proofs about MapReduce, for any inputs, keys and workers and for any    *)
(* number of crashes and time-outs: every piece of work has one live       *)
(* attempt, the reduce tasks see every map output exactly once, the job    *)
(* ends with its output in place, the output then stays as it is, and it   *)
(* is the one of a sequential run unless a reduce task was retried.        *)
(***************************************************************************)
EXTENDS MapReduce, TLAPS

\* Zenon proves the steps that name no other prover.
USE ZenonT(30)

(***************************************************************************)
(* The inductive invariant: what the table of tasks, the counters, the     *)
(* workers and the files are at every moment.                              *)
(***************************************************************************)
Status == {"idle", "in_progress", "completed", "timed_out"}
Task == [taskType : {"map", "reduce"}, files : SUBSET (Input \cup (Nat \X Reducer))]

Types ==
    /\ tasks \in Seq(Task) /\ status \in Seq(Status) /\ Len(status) = Len(tasks)
    /\ DOMAIN pc = Worker /\ task \in [Worker -> Nat] /\ todo \in [Worker -> SUBSET Key]
    /\ mtemp \subseteq Nat \X Key /\ mout \subseteq Nat \X Key
    /\ DOMAIN rtemp = Reducer /\ DOMAIN rout = Reducer
    /\ phase \in {"map", "reduce", "shutdown"} /\ main \in {"polling", "done", "exited"}

\* The two columns of the table of tasks.
LEMMA Table ==
    Types => /\ tasks \in Seq(Task) /\ Len(tasks) \in Nat /\ DOMAIN tasks = 1 .. Len(tasks)
             /\ status \in Seq(Status) /\ DOMAIN status = DOMAIN tasks
             /\ Len(status) = Len(tasks)
             /\ \A t \in DOMAIN tasks : tasks[t] \in Task /\ status[t] \in Status /\ t # 0
  BY SMTT(60) DEF Types

-----------------------------------------------------------------------------

(***************************************************************************)
(* What the operations on sequences give.                                  *)
(***************************************************************************)
LEMMA Concat ==
    ASSUME NEW T, NEW a \in Seq(T), NEW b \in Seq(T)
    PROVE  /\ a \o b \in Seq(T)
           /\ DOMAIN (a \o b) = 1 .. Len(a) + Len(b)
           /\ Len(a \o b) = Len(a) + Len(b)
           /\ \A n \in DOMAIN a : (a \o b)[n] = a[n]
           /\ \A n \in Len(a) + 1 .. Len(a) + Len(b) : (a \o b)[n] = b[n - Len(a)]
  BY SMTT(60)

\* A function on an initial segment of the numbers is a sequence.
LEMMA SeqFunction ==
    ASSUME NEW T, NEW m \in Nat, NEW f \in [1 .. m -> T]
    PROVE  f \in Seq(T) /\ Len(f) = m /\ DOMAIN f = 1 .. m
  BY SMTT(60)

\* Orderings are permutations.
LEMMA Orders ==
    ASSUME NEW S, Cardinality(S) \in Nat, NEW s \in Orderings(S)
    PROVE  /\ s \in [1 .. Cardinality(S) -> S]
           /\ \A m, n \in 1 .. Cardinality(S) : s[m] = s[n] => m = n
           /\ \A x \in S : \E n \in 1 .. Cardinality(S) : s[n] = x
  BY DEF Orderings, Bijection, Injection, IsInjective, Surjection

(***************************************************************************)
(* What the lemmas use of finite sets.  FiniteFactsHold, in MapReduceProofs, has   *)
(* them from the library: its theorems are kept out of the way of the      *)
(* provers until then.                                                     *)
(***************************************************************************)
FiniteFacts ==
    /\ IsFiniteSet(Input) /\ Cardinality(Input) = Len(Files) /\ Len(Files) \in Nat \ {0}
    /\ IsFiniteSet(Reducer)
    /\ \A n \in Nat : IsFiniteSet(1 .. n)
    /\ \A S : IsFiniteSet(S) =>
          /\ Cardinality(S) \in Nat /\ (Cardinality(S) = 0 <=> S = {})
          /\ \A T \in SUBSET S : IsFiniteSet(T) /\ Cardinality(T) <= Cardinality(S)
          /\ \A x \in S : Cardinality(S \ {x}) = Cardinality(S) - 1
    /\ \A x : Cardinality({x}) = 1

-----------------------------------------------------------------------------

(***************************************************************************)
(* How the table of tasks grows.                                           *)
(***************************************************************************)
Grown == DOMAIN tasks' \ DOMAIN tasks

\* The table before and after a step that appends new tasks and marks old ones.
LEMMA Appended ==
    ASSUME Types, NEW m \in Nat, NEW ts \in [1 .. m -> Task], NEW st \in Seq(Status),
           Len(st) = Len(tasks), tasks' = tasks \o ts,
           status' = st \o [n \in 1 .. m |-> "idle"]
    PROVE  /\ tasks' \in Seq(Task) /\ status' \in Seq(Status) /\ Len(status') = Len(tasks')
           /\ DOMAIN tasks \subseteq DOMAIN tasks'
           /\ Grown = Len(tasks) + 1 .. Len(tasks) + m
           /\ \A t \in DOMAIN tasks : tasks'[t] = tasks[t] /\ status'[t] = st[t]
           /\ \A t \in Grown : t - Len(tasks) \in 1 .. m
           /\ \A t \in Grown : tasks'[t] = ts[t - Len(tasks)] /\ status'[t] = "idle"
  <1> DEFINE idle == [n \in 1 .. m |-> "idle"]
  <1>1. ts \in Seq(Task) /\ Len(ts) = m
    BY SeqFunction
  <1>0. /\ idle \in [1 .. m -> Status] /\ status' = st \o idle
        /\ \A n \in 1 .. m : idle[n] = "idle"
    BY DEF Status
  <1> HIDE DEF idle
  <1>2. idle \in Seq(Status) /\ Len(idle) = m
    BY <1>0, SeqFunction
  <1>3. /\ tasks \in Seq(Task) /\ Len(tasks) \in Nat /\ DOMAIN tasks = 1 .. Len(tasks)
        /\ DOMAIN st = 1 .. Len(tasks)
    BY SMTT(60) DEF Types
  <1>4. /\ tasks' \in Seq(Task) /\ Len(tasks') = Len(tasks) + m
        /\ DOMAIN tasks' = 1 .. Len(tasks) + m
        /\ \A t \in DOMAIN tasks : tasks'[t] = tasks[t]
        /\ \A t \in Len(tasks) + 1 .. Len(tasks) + m : tasks'[t] = ts[t - Len(tasks)]
    <2>1. /\ tasks \o ts \in Seq(Task) /\ Len(tasks \o ts) = Len(tasks) + Len(ts)
          /\ DOMAIN (tasks \o ts) = 1 .. Len(tasks) + Len(ts)
          /\ \A n \in DOMAIN tasks : (tasks \o ts)[n] = tasks[n]
          /\ \A n \in Len(tasks) + 1 .. Len(tasks) + Len(ts) : (tasks \o ts)[n] = ts[n - Len(tasks)]
      BY ONLY <1>1, <1>3, Concat, ZenonT(60)
    <2>2. QED
      BY <1>1, <2>1
  <1>5. /\ status' \in Seq(Status) /\ Len(status') = Len(tasks) + m
        /\ \A t \in DOMAIN tasks : status'[t] = st[t]
        /\ \A t \in Len(tasks) + 1 .. Len(tasks) + m : status'[t] = idle[t - Len(tasks)]
    <2>1. /\ st \o idle \in Seq(Status) /\ Len(st \o idle) = Len(st) + Len(idle)
          /\ \A n \in DOMAIN st : (st \o idle)[n] = st[n]
          /\ \A n \in Len(st) + 1 .. Len(st) + Len(idle) : (st \o idle)[n] = idle[n - Len(st)]
      BY <1>2, Concat
    <2>2. QED
      BY <1>0, <1>2, <1>3, <2>1
  <1>6. Grown = Len(tasks) + 1 .. Len(tasks) + m
    BY <1>3, <1>4, SMTT(60) DEF Grown
  <1>7. \A t \in Grown : t - Len(tasks) \in 1 .. m
    BY <1>3, <1>6, SMTT(60)
  <1>8. DOMAIN tasks \subseteq DOMAIN tasks'
    BY <1>3, <1>4, SMTT(60)
  <1>9. QED
    BY <1>0, <1>4, <1>5, <1>6, <1>7, <1>8

\* timeoutTasks gives every overdue attempt exactly one successor.
LEMMA DoneGrows ==
    ASSUME Types, NEW S \in SUBSET DOMAIN tasks, Cardinality(S) \in Nat, TimeoutTasks(S)
    PROVE  /\ tasks' \in Seq(Task) /\ status' \in Seq(Status) /\ Len(status') = Len(tasks')
           /\ DOMAIN tasks \subseteq DOMAIN tasks'
           /\ \A t \in DOMAIN tasks :
                 tasks'[t] = tasks[t] /\ status'[t] = IF t \in S THEN "timed_out" ELSE status[t]
           /\ \E src \in [Grown -> S] :
                 /\ \A t, u \in Grown : src[t] = src[u] => t = u
                 /\ \A s \in S : \E t \in Grown : src[t] = s
                 /\ \A t \in Grown : tasks'[t] = tasks[src[t]] /\ status'[t] = "idle"
  <1>1. PICK again \in InOrder(S) :
              /\ tasks' = tasks \o [n \in DOMAIN again |-> tasks[again[n]]]
              /\ status' = [t \in DOMAIN tasks |-> IF t \in S THEN "timed_out" ELSE status[t]]
                               \o [n \in DOMAIN again |-> "idle"]
    BY DEF TimeoutTasks
  <1> DEFINE m == Cardinality(S)
             ts == [n \in 1 .. m |-> tasks[again[n]]]
             st == [t \in DOMAIN tasks |-> IF t \in S THEN "timed_out" ELSE status[t]]
             src == [t \in Grown |-> again[t - Len(tasks)]]
  <1>3. /\ m \in Nat /\ again \in [1 .. m -> S]
        /\ \A k, n \in 1 .. m : again[k] = again[n] => k = n
        /\ \A x \in S : \E n \in 1 .. m : again[n] = x
    BY <1>1, Orders DEF InOrder
  <1>4. /\ tasks \in Seq(Task) /\ Len(tasks) \in Nat /\ DOMAIN tasks = 1 .. Len(tasks)
        /\ status \in Seq(Status) /\ DOMAIN status = DOMAIN tasks
    BY Table
  <1>5. ts \in [1 .. m -> Task]
    BY <1>3, <1>4, SMTT(60)
  <1>6. st \in Seq(Status) /\ Len(st) = Len(tasks)
    <2>1. st \in [1 .. Len(tasks) -> Status]
      BY <1>4, SMTT(60) DEF Status
    <2>2. QED
      BY <1>4, <2>1, SeqFunction
  <1>7. tasks' = tasks \o ts /\ status' = st \o [n \in 1 .. m |-> "idle"]
    BY <1>1, <1>3
  <1> HIDE DEF m, ts, st
  <1>8. /\ tasks' \in Seq(Task) /\ status' \in Seq(Status) /\ Len(status') = Len(tasks')
        /\ DOMAIN tasks \subseteq DOMAIN tasks'
        /\ Grown = Len(tasks) + 1 .. Len(tasks) + m
        /\ \A t \in DOMAIN tasks : tasks'[t] = tasks[t] /\ status'[t] = st[t]
        /\ \A t \in Grown : t - Len(tasks) \in 1 .. m
        /\ \A t \in Grown : tasks'[t] = ts[t - Len(tasks)] /\ status'[t] = "idle"
    BY <1>3, <1>5, <1>6, <1>7, Appended
  <1>9. src \in [Grown -> S]
    BY <1>3, <1>8
  <1>10. \A t, u \in Grown : src[t] = src[u] => t = u
    <2>1. SUFFICES ASSUME NEW t \in Grown, NEW u \in Grown, again[t - Len(tasks)] = again[u - Len(tasks)]
                   PROVE  t = u
      OBVIOUS
    <2>2. t - Len(tasks) = u - Len(tasks)
      BY <1>3, <1>8, <2>1
    <2>3. t \in Int /\ u \in Int
      BY <1>4, <1>8, SMTT(60)
    <2>4. QED
      BY <1>4, <2>2, <2>3, SMTT(60)
  <1>11. \A s \in S : \E t \in Grown : src[t] = s
    <2>1. SUFFICES ASSUME NEW s \in S PROVE \E t \in Grown : src[t] = s
      OBVIOUS
    <2>2. PICK n \in 1 .. m : again[n] = s
      BY <1>3
    <2>3. Len(tasks) + n \in Grown /\ (Len(tasks) + n) - Len(tasks) = n
      BY <1>3, <1>4, <1>8, SMTT(60)
    <2>4. QED
      BY <2>2, <2>3
  <1>12. \A t \in Grown : tasks'[t] = tasks[src[t]] /\ status'[t] = "idle"
    BY <1>8 DEF ts
  <1>13. \A t \in DOMAIN tasks : status'[t] = IF t \in S THEN "timed_out" ELSE status[t]
    BY <1>8 DEF st
  <1>14. QED
    BY <1>8, <1>9, <1>10, <1>11, <1>12, <1>13

\* The files with the lines L, their parts, and the reduce task for one of them.
NamesOf(L) == {<<l[1], Part[l[2]]>> : l \in L}
PartsOf(L) == {f[2] : f \in NamesOf(L)}
ReduceTask(L, r) == [taskType |-> "reduce", files |-> {f \in NamesOf(L) : f[2] = r}]

\* The reduce tasks of a set of pairs are tasks.
LEMMA PartsType ==
    ASSUME NEW L \in SUBSET (Nat \X Key)
    PROVE  /\ NamesOf(L) \subseteq Nat \X Reducer
           /\ PartsOf(L) \subseteq Reducer
           /\ \A r : ReduceTask(L, r) \in Task
  <1>1. NamesOf(L) \subseteq Nat \X Reducer
    BY SMTT(60) DEF NamesOf, Reducer
  <1>2. PartsOf(L) \subseteq Reducer
    BY <1>1 DEF PartsOf
  <1>4. \A r : ReduceTask(L, r) \in Task
    BY <1>1 DEF ReduceTask, Task
  <1>5. QED
    BY <1>1, <1>2, <1>4

\* Task t0 is completed, and every part that has a file of L has exactly one new task.
Created(L, t0) ==
    /\ tasks' \in Seq(Task) /\ status' \in Seq(Status) /\ Len(status') = Len(tasks')
    /\ DOMAIN tasks \subseteq DOMAIN tasks'
    /\ \A t \in DOMAIN tasks :
          tasks'[t] = tasks[t] /\ status'[t] = IF t = t0 THEN "completed" ELSE status[t]
    /\ \E red \in [Grown -> PartsOf(L)] :
          /\ \A t, u \in Grown : red[t] = red[u] => t = u
          /\ \A r \in PartsOf(L) : \E t \in Grown : red[t] = r
          /\ \A t \in Grown : tasks'[t] = ReduceTask(L, red[t]) /\ status'[t] = "idle"

\* What createReduceTasks appends when t0 was the last map attempt.
LEMMA CreateGrows ==
    ASSUME Types, NEW L \in SUBSET (Nat \X Key), Cardinality(PartsOf(L)) \in Nat, NEW new \in CreateReduceTasks(L),
           NEW t0 \in DOMAIN tasks, tasks' = tasks \o new,
           status' = [status EXCEPT ![t0] = "completed"] \o [n \in DOMAIN new |-> "idle"]
    PROVE  Created(L, t0) /\ Len(new) = Cardinality(PartsOf(L))
  <1>1. PICK s \in Orderings(PartsOf(L)) : new = [n \in DOMAIN s |-> ReduceTask(L, s[n])]
    BY DEF CreateReduceTasks, PartsOf, NamesOf, ReduceTask
  <1> DEFINE m == Cardinality(PartsOf(L))
             st == [status EXCEPT ![t0] = "completed"]
             red == [t \in Grown |-> s[t - Len(tasks)]]
  <1>2. /\ m \in Nat /\ s \in [1 .. m -> PartsOf(L)]
        /\ \A k, n \in 1 .. m : s[k] = s[n] => k = n
        /\ \A x \in PartsOf(L) : \E n \in 1 .. m : s[n] = x
    BY <1>1, PartsType, Orders
  <1> HIDE DEF m
  <1>3. /\ tasks \in Seq(Task) /\ Len(tasks) \in Nat /\ DOMAIN tasks = 1 .. Len(tasks)
        /\ status \in Seq(Status) /\ DOMAIN status = DOMAIN tasks
    BY Table
  <1>4. new \in [1 .. m -> Task] /\ Len(new) = m /\ DOMAIN new = 1 .. m
    <2>1. new \in [1 .. m -> Task]
      BY <1>1, <1>2, PartsType
    <2>2. QED
      BY <1>2, <2>1, SeqFunction
  <1>5. /\ st \in Seq(Status) /\ Len(st) = Len(tasks)
        /\ \A t \in DOMAIN tasks : st[t] = IF t = t0 THEN "completed" ELSE status[t]
    <2>1. status \in [1 .. Len(tasks) -> Status] /\ "completed" \in Status
      BY <1>3, SMTT(60) DEF Status
    <2>2. st \in [1 .. Len(tasks) -> Status]
      BY <1>3, <2>1
    <2>3. st \in Seq(Status) /\ Len(st) = Len(tasks)
      BY <1>3, <2>2, SeqFunction
    <2>4. QED
      BY <1>3, <2>1, <2>3
  <1>6. status' = st \o [n \in 1 .. m |-> "idle"]
    BY <1>4
  <1> HIDE DEF st
  <1>7. /\ tasks' \in Seq(Task) /\ status' \in Seq(Status) /\ Len(status') = Len(tasks')
        /\ DOMAIN tasks \subseteq DOMAIN tasks'
        /\ Grown = Len(tasks) + 1 .. Len(tasks) + m
        /\ \A t \in DOMAIN tasks : tasks'[t] = tasks[t] /\ status'[t] = st[t]
        /\ \A t \in Grown : t - Len(tasks) \in 1 .. m
        /\ \A t \in Grown : tasks'[t] = new[t - Len(tasks)] /\ status'[t] = "idle"
    <2>1. /\ m \in Nat /\ new \in [1 .. m -> Task] /\ st \in Seq(Status)
          /\ Len(st) = Len(tasks) /\ tasks' = tasks \o new
          /\ status' = st \o [n \in 1 .. m |-> "idle"]
      BY <1>2, <1>4, <1>5, <1>6
    <2>2. QED
      BY <2>1, Appended
  <1>8. red \in [Grown -> PartsOf(L)]
    BY <1>2, <1>7
  <1>9. \A t, u \in Grown : red[t] = red[u] => t = u
    <2>1. SUFFICES ASSUME NEW t \in Grown, NEW u \in Grown, s[t - Len(tasks)] = s[u - Len(tasks)]
                   PROVE  t = u
      OBVIOUS
    <2>2. t - Len(tasks) = u - Len(tasks)
      BY <1>2, <1>7, <2>1
    <2>3. t \in Int /\ u \in Int
      BY <1>3, <1>7, SMTT(60)
    <2>4. QED
      BY <1>3, <2>2, <2>3, SMTT(60)
  <1>10. \A r \in PartsOf(L) : \E t \in Grown : red[t] = r
    <2>1. SUFFICES ASSUME NEW r \in PartsOf(L) PROVE \E t \in Grown : red[t] = r
      OBVIOUS
    <2>2. PICK n \in 1 .. m : s[n] = r
      BY <1>2
    <2>3. Len(tasks) + n \in Grown /\ (Len(tasks) + n) - Len(tasks) = n
      BY <1>2, <1>3, <1>7, SMTT(60)
    <2>4. QED
      BY <2>2, <2>3
  <1>11. \A t \in Grown : tasks'[t] = ReduceTask(L, red[t]) /\ status'[t] = "idle"
    BY <1>1, <1>2, <1>7
  <1>12. Len(new) = Cardinality(PartsOf(L))
    BY <1>4 DEF m
  <1>13. \A t \in DOMAIN tasks :
             tasks'[t] = tasks[t] /\ status'[t] = IF t = t0 THEN "completed" ELSE status[t]
    BY <1>5, <1>7
  <1> HIDE DEF red
  <1>14. QED
    BY <1>7, <1>8, <1>9, <1>10, <1>11, <1>12, <1>13 DEF Created

-----------------------------------------------------------------------------

(***************************************************************************)
(* The inductive invariant.                                                *)
(***************************************************************************)

\* A worker's attempt was given to no one else and is in progress or overdue.
Held ==
    /\ \A w \in Worker : task[w] # 0 => task[w] \in DOMAIN tasks /\ status[task[w]] # "idle"
    /\ \A w \in Worker : Working(w) => task[w] # 0 /\ status[task[w]] # "completed"
    /\ \A w \in Worker : pc[w] = "read" => tasks[task[w]].taskType = "reduce"
    /\ \A v, w \in Worker : task[v] = task[w] /\ task[v] # 0 => v = w

\* OneAttempt, without counting.
OneLive ==
    /\ \A t \in DOMAIN tasks :
          \E u \in DOMAIN tasks : tasks[u] = tasks[t] /\ status[u] # "timed_out"
    /\ \A t, u \in DOMAIN tasks :
          tasks[t] = tasks[u] /\ status[t] # "timed_out" /\ status[u] # "timed_out" => t = u

\* The lines the completed map attempts have written.
Mapped ==
    {l \in (DOMAIN tasks) \X Key :
        /\ status[l[1]] = "completed"
        /\ \E i \in Input : tasks[l[1]] = MapTask(i) /\ l[2] \in Emits[i]}

\* The tasks are one per input and, after the map phase, one per part that has lines.
Work ==
    /\ \A i \in Input : \E t \in DOMAIN tasks : tasks[t] = MapTask(i)
    /\ \A t \in DOMAIN tasks : tasks[t].taskType = "map" =>
          \E i \in Input : tasks[t] = MapTask(i)
    /\ \A t \in DOMAIN tasks : tasks[t].taskType = "reduce" =>
          phase # "map" /\ \E r \in PartsOf(Mapped) : tasks[t] = ReduceTask(Mapped, r)
    /\ phase # "map" => \A r \in PartsOf(Mapped) :
          \E t \in DOMAIN tasks : tasks[t] = ReduceTask(Mapped, r)

Unmapped == {i \in Input : \A t \in WithStatus("completed") : tasks[t] # MapTask(i)}

\* The map phase lasts as long as an input is unmapped.
Counted ==
    /\ numMapTasks = Cardinality(Unmapped)
    /\ phase = "map" <=> Unmapped # {}

\* m-out-* has what the completed attempts wrote, tempm-out-* what the others have
\* written so far.
Lines ==
    /\ main = "polling" => mout = Mapped
    /\ \A l \in mtemp : l[1] \in DOMAIN tasks /\ status[l[1]] # "idle"
    /\ \A w \in Worker, i \in Input : pc[w] = "emit" /\ tasks[task[w]] = MapTask(i) =>
          /\ todo[w] \subseteq Emits[i]
          /\ \A k \in Key : <<task[w], k>> \in mtemp <=> k \in Emits[i] \ todo[w]

Unreduced == {r \in PartsOf(Mapped) : rout[r] = <<>>}

\* numReduceTasks counts the parts without an output.
Reduced ==
    /\ phase = "map" => numReduceTasks = 0 /\ \A r \in Reducer : rout[r] = <<>>
    /\ phase # "map" => numReduceTasks = Cardinality(Unreduced)
    /\ phase = "shutdown" => Unreduced = {}
    /\ \A r \in PartsOf(Mapped) : rout[r] # <<>> =>
          \E t \in DOMAIN tasks : tasks[t] = ReduceTask(Mapped, r) /\ status[t] = "completed"

\* Done returns true only when no attempt is idle or in progress.
Settled ==
    main # "polling" =>
        phase # "map" /\ \A t \in DOMAIN tasks : status[t] \in {"completed", "timed_out"}

Inv == Types /\ Held /\ OneLive /\ Work /\ Counted /\ Lines /\ Reduced /\ Settled

\* MapTask is injective, and InputOf its inverse.
LEMMA MapTaskInput ==
    /\ \A i, j \in Input : MapTask(i) = MapTask(j) => i = j
    /\ \A i \in Input : MapTask(i) \in Task /\ MapTask(i).taskType = "map"
    /\ \A t : \A i \in Input : tasks[t] = MapTask(i) => InputOf(t) = i
  <1>1. \A i, j \in Input : {i} = {j} => i = j
    OBVIOUS
  <1>2. \A i \in Input : MapTask(i) \in Task /\ MapTask(i).taskType = "map"
    BY DEF MapTask, Task
  <1>3. \A i \in Input : MapTask(i).files = {i}
    BY DEF MapTask
  <1>4. QED
    BY <1>1, <1>2, <1>3, SMTT(60) DEF InputOf

\* What has been mapped is a set of pairs.
LEMMA MappedType == Types => Mapped \in SUBSET (Nat \X Key)
  BY SMTT(60) DEF Types, Mapped

\* The invariant holds initially.
LEMMA InvInit == FiniteFacts /\ Init => Inv
  <1> SUFFICES ASSUME FiniteFacts, Init PROVE Inv
    OBVIOUS
  <1>0. /\ DOMAIN Files = 1 .. Len(Files) /\ Len(Files) \in Nat \ {0}
        /\ \A n \in 1 .. Len(Files) : Files[n] \in Input
        /\ \A i \in Input : \E n \in 1 .. Len(Files) : Files[n] = i
        /\ \A m, n \in 1 .. Len(Files) : Files[m] = Files[n] => m = n
    <2>1. Files \in Seq(Input) /\ IsInjective(Files) /\ Len(Files) \in Nat \ {0}
      BY MapReduceAssumption DEF FiniteFacts
    <2>2. DOMAIN Files = 1 .. Len(Files) /\ \A n \in 1 .. Len(Files) : Files[n] \in Input
      BY <2>1, SMTT(60)
    <2>3. \A i \in Input : \E n \in 1 .. Len(Files) : Files[n] = i
      BY <2>2 DEF Input, Range
    <2>4. QED
      BY <2>1, <2>2, <2>3 DEF IsInjective
  <1>1. /\ DOMAIN tasks = 1 .. Len(Files) /\ \A n \in DOMAIN tasks : tasks[n] = MapTask(Files[n])
        /\ \A n \in DOMAIN tasks : status[n] = "idle"
    BY <1>0 DEF Init
  <1>2. tasks \in Seq(Task) /\ Len(tasks) = Len(Files)
    <2>1. tasks \in [1 .. Len(Files) -> Task]
      BY <1>0, MapTaskInput DEF Init
    <2>2. QED
      BY <1>0, <2>1, SeqFunction
  <1>3. status \in Seq(Status) /\ Len(status) = Len(Files)
    <2>1. status \in [1 .. Len(Files) -> Status]
      BY <1>0 DEF Init, Status
    <2>2. QED
      BY <1>0, <2>1, SeqFunction
  <1>4. Types
    <2>1. /\ DOMAIN pc = Worker /\ task \in [Worker -> Nat] /\ todo \in [Worker -> SUBSET Key]
          /\ mtemp \subseteq Nat \X Key /\ mout \subseteq Nat \X Key
          /\ DOMAIN rtemp = Reducer /\ DOMAIN rout = Reducer
          /\ phase = "map" /\ main = "polling"
      BY DEF Init
    <2>2. QED
      BY <1>2, <1>3, <2>1 DEF Types
  <1>5. Held
    BY DEF Init, Held, Working
  <1>6. OneLive
    <2>1. \A t, u \in DOMAIN tasks : tasks[t] = tasks[u] => t = u
      BY <1>0, <1>1, MapTaskInput, SMTT(60)
    <2>2. \A t \in DOMAIN tasks : status[t] # "timed_out"
      BY <1>1
    <2>3. QED
      BY <2>1, <2>2 DEF OneLive
  <1>7. Mapped = {}
    BY <1>1 DEF Mapped
  <1>8. Work
    <2>1. phase = "map"
      BY DEF Init
    <2>2. \A t \in DOMAIN tasks : tasks[t].taskType = "map" /\ \E i \in Input : tasks[t] = MapTask(i)
      BY <1>0, <1>1, MapTaskInput, SMTT(60)
    <2>3. \A i \in Input : \E t \in DOMAIN tasks : tasks[t] = MapTask(i)
      BY <1>0, <1>1, SMTT(60)
    <2>4. QED
      BY <2>1, <2>2, <2>3 DEF Work
  <1>9. Counted
    <2>1. Unmapped = Input
      BY <1>1 DEF Unmapped, WithStatus
    <2>2. Input # {}
      BY <1>0, SMTT(60)
    <2>3. numMapTasks = Len(Files) /\ phase = "map"
      BY DEF Init
    <2>4. QED
      BY <2>1, <2>2, <2>3 DEF Counted, FiniteFacts
  <1>10. Lines
    BY <1>7 DEF Init, Lines
  <1>11. Reduced
    <2>1. PartsOf(Mapped) = {}
      BY <1>7 DEF PartsOf, NamesOf
    <2>2. phase = "map" /\ numReduceTasks = 0 /\ \A r \in Reducer : rout[r] = <<>>
      BY DEF Init
    <2>3. QED
      BY <2>1, <2>2 DEF Reduced
  <1>12. Settled
    BY DEF Init, Settled
  <1>13. QED
    BY <1>4, <1>5, <1>6, <1>8, <1>9, <1>10, <1>11, <1>12 DEF Inv

-----------------------------------------------------------------------------

(***************************************************************************)
(* The steps that leave the table of tasks alone.                          *)
(***************************************************************************)
QuietNext ==
    \/ \E w \in Worker : \/ RegisterWorker(w) \/ ReadFiles(w) \/ TaskDoneTimedOut(w)
                         \/ Heartbeat(w) \/ NoCoordinator(w) \/ Crash(w)
    \/ \E w \in Worker, k \in Key : EmitMap(w, k) \/ EmitReduce(w, k)
    \/ CoordinatorExit
    \/ UNCHANGED vars

\* What such a step may change.
LEMMA QuietFrame ==
    ASSUME Types, Held, QuietNext
    PROVE  /\ UNCHANGED <<tasks, status, numMapTasks, numReduceTasks, phase, rout, task, mout>>
           /\ main' = main \/ (main = "done" /\ main' = "exited")
           /\ DOMAIN pc' = Worker /\ todo' \in [Worker -> SUBSET Key]
           /\ mtemp' \subseteq Nat \X Key /\ DOMAIN rtemp' = Reducer
           /\ \A w \in Worker : pc'[w] = "read" => pc[w] = "read"
           /\ \A w \in Worker : pc'[w] = "emit" => pc[w] \in {"read", "emit"}
  <1> DEFINE Frame ==
               /\ UNCHANGED <<tasks, status, numMapTasks, numReduceTasks, phase, rout, task, mout>>
               /\ main' = main \/ (main = "done" /\ main' = "exited")
             Moves ==
               /\ DOMAIN pc' = Worker /\ todo' \in [Worker -> SUBSET Key]
               /\ mtemp' \subseteq Nat \X Key /\ DOMAIN rtemp' = Reducer
               /\ \A w \in Worker : pc'[w] = "read" => pc[w] = "read"
               /\ \A w \in Worker : pc'[w] = "emit" => pc[w] \in {"read", "emit"}
  <1>1. ASSUME NEW w \in Worker, RegisterWorker(w) \/ Heartbeat(w) \/ NoCoordinator(w) \/ Crash(w)
        PROVE  Frame /\ Moves
    BY <1>1 DEF RegisterWorker, Heartbeat, HeartbeatLoad, HeartbeatStore, NoCoordinator, Crash,
                coordVars, fileVars, Types
  <1>2. ASSUME NEW w \in Worker, ReadFiles(w) PROVE Frame /\ Moves
    <2> DEFINE lines == {l \in mout : <<l[1], Part[l[2]]>> \in tasks[task[w]].files}
    <2>1. /\ pc[w] = "read"
          /\ \/ /\ todo' = [todo EXCEPT ![w] = {l[2] : l \in lines}]
                /\ pc' = [pc EXCEPT ![w] = "emit"]
             \/ pc' = [pc EXCEPT ![w] = "dead"] /\ todo' = todo
          /\ UNCHANGED <<coordVars, fileVars, task>>
      BY <1>2 DEF ReadFiles
    <2>2. {l[2] : l \in lines} \in SUBSET Key
      BY DEF Types
    <2> HIDE DEF lines
    <2>3. QED
      BY <2>1, <2>2 DEF coordVars, fileVars, Types
  <1>3. ASSUME NEW w \in Worker, TaskDoneTimedOut(w) PROVE Frame /\ Moves
    BY <1>3 DEF TaskDoneTimedOut, coordVars, Types
  <1>4. ASSUME NEW w \in Worker, NEW k \in Key, EmitMap(w, k) PROVE Frame /\ Moves
    BY <1>4, SMTT(60) DEF EmitMap, coordVars, Types
  <1>5. ASSUME NEW w \in Worker, NEW k \in Key, EmitReduce(w, k) PROVE Frame /\ Moves
    BY <1>5 DEF EmitReduce, coordVars, Types
  <1>6. CASE CoordinatorExit
    BY <1>6 DEF CoordinatorExit, fileVars, workerVars, Types
  <1>7. CASE UNCHANGED vars
    BY <1>7 DEF vars, coordVars, fileVars, workerVars, Types
  <1>8. QED
    BY <1>1, <1>2, <1>3, <1>4, <1>5, <1>6, <1>7 DEF QuietNext

\* The map lines after such a step: a worker touches the files of its own attempt only.
LEMMA QuietLines ==
    ASSUME Types, Held, Lines, QuietNext
    PROVE  Lines'
  <1> DEFINE Emitted(v, i) ==
               /\ todo[v] \subseteq Emits[i]
               /\ \A k \in Key : <<task[v], k>> \in mtemp <=> k \in Emits[i] \ todo[v]
  <1>1. /\ UNCHANGED <<tasks, status, task, mout>> /\ (main' = "polling" => main = "polling")
        /\ \A v \in Worker : pc'[v] = "read" => pc[v] = "read"
        /\ \A v \in Worker : pc'[v] = "emit" => pc[v] \in {"read", "emit"}
    BY QuietFrame
  <1>2. main' = "polling" => mout' = Mapped'
    BY <1>1 DEF Lines, Mapped
  <1>3. \A l \in mtemp : l[1] \in DOMAIN tasks /\ status[l[1]] # "idle"
    BY DEF Lines
  <1>4. \A v \in Worker, i \in Input : pc[v] = "emit" /\ tasks[task[v]] = MapTask(i) => Emitted(v, i)
    BY DEF Lines
  <1>5. \A v \in Worker, i \in Input : tasks[task[v]] = MapTask(i) => tasks[task[v]].taskType = "map"
    BY MapTaskInput
  <1> DEFINE Goal ==
               /\ \A l \in mtemp' : l[1] \in DOMAIN tasks /\ status[l[1]] # "idle"
               /\ \A v \in Worker, i \in Input :
                     pc'[v] = "emit" /\ tasks[task[v]] = MapTask(i) =>
                        /\ todo'[v] \subseteq Emits[i]
                        /\ \A k \in Key : <<task[v], k>> \in mtemp' <=> k \in Emits[i] \ todo'[v]
  <1>6. SUFFICES Goal
    BY <1>1, <1>2 DEF Lines
  <1>7. ASSUME UNCHANGED <<mtemp, todo>>, \A v \in Worker : pc'[v] = "emit" => pc[v] = "emit"
        PROVE  Goal
    BY <1>3, <1>4, <1>7
  <1>8. ASSUME NEW w \in Worker, RegisterWorker(w) \/ Heartbeat(w) \/ NoCoordinator(w) \/ Crash(w)
        PROVE  Goal
    <2>1. UNCHANGED <<mtemp, todo>> /\ \A v \in Worker : pc'[v] = "emit" => pc[v] = "emit"
      BY <1>8 DEF RegisterWorker, Heartbeat, HeartbeatLoad, HeartbeatStore, NoCoordinator, Crash,
                  fileVars, Types
    <2>2. QED
      BY <1>7, <2>1
  <1>9. ASSUME NEW w \in Worker, ReadFiles(w) PROVE Goal
    <2>1. /\ pc[w] = "read" /\ mtemp' = mtemp
          /\ \A v \in Worker : v # w => todo'[v] = todo[v] /\ pc'[v] = pc[v]
      BY <1>9 DEF ReadFiles, fileVars, Types
    <2>2. tasks[task[w]].taskType = "reduce"
      BY <2>1 DEF Held
    <2>3. QED
      BY <1>3, <1>4, <1>5, <2>1, <2>2, SMTT(60)
  <1>10. ASSUME NEW w \in Worker, TaskDoneTimedOut(w) PROVE Goal
    <2>1. /\ pc[w] = "emit" /\ todo' = todo
          /\ mtemp' = {l \in mtemp : l[1] # task[w]} \/ mtemp' = mtemp
          /\ pc'[w] # "emit" /\ \A v \in Worker : v # w => pc'[v] = pc[v]
      BY <1>10 DEF TaskDoneTimedOut, Types
    <2>2. \A v \in Worker : pc'[v] = "emit" => v # w /\ pc[v] = "emit" /\ task[v] # task[w]
      BY <2>1 DEF Held, Working
    <2>3. \A v \in Worker, k \in Key : pc'[v] = "emit" =>
              (<<task[v], k>> \in mtemp' <=> <<task[v], k>> \in mtemp)
      BY <2>1, <2>2
    <2>4. mtemp' \subseteq mtemp
      BY <2>1
    <2>5. QED
      BY <1>3, <1>4, <2>1, <2>2, <2>3, <2>4
  <1>11. ASSUME NEW w \in Worker, NEW k \in Key, EmitMap(w, k) PROVE Goal
    <2>1. /\ pc[w] = "emit" /\ k \in todo[w] /\ pc' = pc
          /\ mtemp' = mtemp \cup {<<task[w], k>>}
          /\ todo'[w] = todo[w] \ {k} /\ \A v \in Worker : v # w => todo'[v] = todo[v]
      BY <1>11 DEF EmitMap, Types
    <2>2. task[w] \in DOMAIN tasks /\ status[task[w]] # "idle"
      BY <2>1 DEF Held, Working
    <2>3. \A v \in Worker : pc[v] = "emit" /\ v # w => task[v] # task[w]
      BY DEF Held, Working
    <2>4. \A l \in mtemp' : l[1] \in DOMAIN tasks /\ status[l[1]] # "idle"
      BY <1>3, <2>1, <2>2, SMTT(60)
    <2>5. ASSUME NEW v \in Worker, NEW i \in Input, pc[v] = "emit", tasks[task[v]] = MapTask(i)
          PROVE  /\ todo'[v] \subseteq Emits[i]
                 /\ \A x \in Key : <<task[v], x>> \in mtemp' <=> x \in Emits[i] \ todo'[v]
      <3>1. todo[v] \subseteq Emits[i] /\ \A x \in Key : <<task[v], x>> \in mtemp <=> x \in Emits[i] \ todo[v]
        BY <1>4, <2>5
      <3>2. CASE v = w
        BY <2>1, <3>1, <3>2
      <3>3. CASE v # w
        BY <2>1, <2>3, <2>5, <3>1, <3>3
      <3>4. QED
        BY <3>2, <3>3
    <2>6. QED
      BY <2>1, <2>4, <2>5
  <1>12. ASSUME NEW w \in Worker, NEW k \in Key, EmitReduce(w, k) PROVE Goal
    <2>1. /\ tasks[task[w]].taskType = "reduce" /\ mtemp' = mtemp /\ pc' = pc
          /\ \A v \in Worker : v # w => todo'[v] = todo[v]
      BY <1>12 DEF EmitReduce, Types
    <2>2. QED
      BY <1>3, <1>4, <1>5, <2>1, SMTT(60)
  <1>13. CASE CoordinatorExit \/ UNCHANGED vars
    <2>1. UNCHANGED <<mtemp, todo, pc>>
      BY <1>13 DEF CoordinatorExit, vars, fileVars, workerVars
    <2>2. QED
      BY <1>7, <2>1
  <1>14. QED
    BY <1>8, <1>9, <1>10, <1>11, <1>12, <1>13 DEF QuietNext

\* Such a step keeps the invariant.
LEMMA QuietStep == Inv /\ QuietNext => Inv'
  <1> SUFFICES ASSUME Inv, QuietNext PROVE Inv'
    OBVIOUS
  <1>0. Types /\ Held /\ OneLive /\ Work /\ Counted /\ Lines /\ Reduced /\ Settled
    BY DEF Inv
  <1>1. /\ UNCHANGED <<tasks, status, numMapTasks, numReduceTasks, phase, rout, task, mout>>
        /\ main' = main \/ (main = "done" /\ main' = "exited")
        /\ DOMAIN pc' = Worker /\ todo' \in [Worker -> SUBSET Key]
        /\ mtemp' \subseteq Nat \X Key /\ DOMAIN rtemp' = Reducer
        /\ \A w \in Worker : pc'[w] = "read" => pc[w] = "read"
        /\ \A w \in Worker : pc'[w] = "emit" => pc[w] \in {"read", "emit"}
    BY <1>0, QuietFrame
  <1>2. Types'
    BY <1>0, <1>1 DEF Types
  <1>3. Held'
    BY <1>0, <1>1, SMTT(60) DEF Held, Working
  <1>4. OneLive'
    BY <1>0, <1>1, SMTT(60) DEF OneLive
  <1>5. Mapped' = Mapped /\ Unmapped' = Unmapped
    BY <1>1 DEF Mapped, Unmapped, WithStatus
  <1>6. Work'
    BY <1>0, <1>1, <1>5 DEF Work
  <1>7. Counted'
    BY <1>0, <1>1, <1>5 DEF Counted
  <1>8. Lines'
    BY <1>0, QuietLines
  <1>9. Reduced'
    <2>1. Unreduced' = Unreduced
      BY <1>1, <1>5 DEF Unreduced
    <2>2. QED
      BY <1>0, <1>1, <1>5, <2>1 DEF Reduced
  <1>10. Settled'
    BY <1>0, <1>1 DEF Settled
  <1>11. QED
    BY <1>2, <1>3, <1>4, <1>6, <1>7, <1>8, <1>9, <1>10 DEF Inv

-----------------------------------------------------------------------------

(***************************************************************************)
(* The steps that change the table of tasks.                               *)
(***************************************************************************)

\* The map output stays as it is when no map attempt is completed.
LEMMA MappedKept ==
    ASSUME DOMAIN tasks \subseteq DOMAIN tasks',
           \A t \in DOMAIN tasks : tasks'[t] = tasks[t],
           \A t \in DOMAIN tasks : tasks[t].taskType = "map" =>
               (status'[t] = "completed" <=> status[t] = "completed"),
           \A t \in Grown : status'[t] # "completed"
    PROVE  Mapped' = Mapped /\ Unmapped' = Unmapped
  <1>1. \A t \in DOMAIN tasks' : \A i \in Input :
            (status'[t] = "completed" /\ tasks'[t] = MapTask(i)) <=>
            (t \in DOMAIN tasks /\ status[t] = "completed" /\ tasks[t] = MapTask(i))
    BY MapTaskInput DEF Grown
  <1>2. Mapped' = Mapped
    BY <1>1, SMTT(60) DEF Mapped
  <1>3. Unmapped' = Unmapped
    BY <1>1, SMTT(60) DEF Unmapped, WithStatus
  <1>4. QED
    BY <1>2, <1>3

\* GetTask keeps the invariant.
LEMMA GetTaskStep ==
    ASSUME Inv, NEW w \in Worker, GetTask(w)
    PROVE  Inv'
  <1>0. Types /\ Held /\ OneLive /\ Work /\ Counted /\ Lines /\ Reduced /\ Settled
    BY DEF Inv
  <1>1. PICK t \in DOMAIN tasks :
              /\ IdleTask(t)
              /\ status' = [status EXCEPT ![t] = "in_progress"]
              /\ task' = [task EXCEPT ![w] = t]
              /\ \/ /\ tasks[t].taskType = "map"
                    /\ pc' = [pc EXCEPT ![w] = "emit"]
                    /\ todo' = [todo EXCEPT ![w] = Emits[InputOf(t)]]
                 \/ /\ tasks[t].taskType = "reduce"
                    /\ pc' = [pc EXCEPT ![w] = "read"]
                    /\ UNCHANGED todo
    BY DEF GetTask
  <1>2. UNCHANGED <<tasks, numMapTasks, numReduceTasks, phase, main, mtemp, mout, rtemp, rout>>
    BY DEF GetTask, fileVars
  <1>3. status[t] = "idle"
    BY <1>1 DEF IdleTask, WithStatus
  <1>4. /\ tasks \in Seq(Task) /\ Len(tasks) \in Nat /\ DOMAIN tasks = 1 .. Len(tasks)
        /\ status \in Seq(Status) /\ DOMAIN status = DOMAIN tasks /\ Len(status) = Len(tasks)
    BY <1>0, Table
  <1>5. /\ status' \in Seq(Status) /\ Len(status') = Len(tasks)
        /\ status'[t] = "in_progress" /\ \A u \in DOMAIN tasks : u # t => status'[u] = status[u]
    <2>1. "in_progress" \in Status
      BY DEF Status
    <2>2. QED
      BY <1>1, <1>4, <2>1, SMTT(60)
  <1>6. /\ task'[w] = t /\ \A v \in Worker : v # w => task'[v] = task[v] /\ pc'[v] = pc[v]
        /\ \A v \in Worker : v # w => todo'[v] = todo[v]
        /\ DOMAIN pc' = Worker /\ task' \in [Worker -> Nat]
    BY <1>0, <1>1, <1>4, SMTT(60) DEF Types
  <1>7. \/ /\ pc'[w] = "emit"
           /\ \E i \in Input : tasks[t] = MapTask(i) /\ todo' = [todo EXCEPT ![w] = Emits[i]]
        \/ pc'[w] = "read" /\ tasks[t].taskType = "reduce" /\ todo' = todo
    <2>1. DOMAIN pc = Worker
      BY <1>0 DEF Types
    <2>2. CASE tasks[t].taskType = "map"
      <3>1. PICK i \in Input : tasks[t] = MapTask(i)
        BY <1>0, <2>2 DEF Work
      <3>2. InputOf(t) = i
        BY <3>1, MapTaskInput
      <3>3. pc'[w] = "emit" /\ todo' = [todo EXCEPT ![w] = Emits[i]]
        BY <1>1, <2>1, <2>2, <3>2
      <3>4. QED
        BY <3>1, <3>3
    <2>3. CASE tasks[t].taskType = "reduce"
      BY <1>1, <2>1, <2>3
    <2>4. QED
      BY <1>1, <2>2, <2>3
  <1>8. todo' \in [Worker -> SUBSET Key]
    <2>1. todo \in [Worker -> SUBSET Key] /\ \A i \in Input : Emits[i] \in SUBSET Key
      BY <1>0, MapReduceAssumption DEF Types
    <2>2. CASE \E i \in Input : todo' = [todo EXCEPT ![w] = Emits[i]]
      BY <2>1, <2>2
    <2>3. QED
      BY <1>7, <2>1, <2>2
  <1>9. Types'
    BY <1>0, <1>2, <1>5, <1>6, <1>8 DEF Types
  <1>10. \A v \in Worker : task[v] # 0 => task[v] # t
    BY <1>0, <1>3 DEF Held
  <1>11. t # 0
    BY <1>4, SMTT(60)
  <1>12. Held'
    <2>1. \A v \in Worker : task'[v] # 0 => task'[v] \in DOMAIN tasks' /\ status'[task'[v]] # "idle"
      BY <1>0, <1>2, <1>5, <1>6, <1>10, SMTT(60) DEF Held
    <2>2. \A v \in Worker : pc'[v] \in {"read", "emit"} =>
              task'[v] # 0 /\ status'[task'[v]] # "completed"
      BY <1>0, <1>2, <1>5, <1>6, <1>10, <1>11, SMTT(60) DEF Held, Working
    <2>3. \A v \in Worker : pc'[v] = "read" => tasks'[task'[v]].taskType = "reduce"
      BY <1>0, <1>2, <1>6, <1>7, SMTT(60) DEF Held
    <2>4. \A u, v \in Worker : task'[u] = task'[v] /\ task'[u] # 0 => u = v
      BY <1>0, <1>6, <1>10, SMTT(60) DEF Held
    <2>5. QED
      BY <2>1, <2>2, <2>3, <2>4 DEF Held, Working
  <1>13. OneLive'
    <2>1. \A u \in DOMAIN tasks : status'[u] = "timed_out" <=> status[u] = "timed_out"
      BY <1>3, <1>5
    <2>2. QED
      BY <1>0, <1>2, <2>1, SMTT(60) DEF OneLive
  <1>14. \A u \in DOMAIN tasks : status'[u] = "completed" <=> status[u] = "completed"
    BY <1>3, <1>5
  <1>15. Mapped' = Mapped /\ Unmapped' = Unmapped
    BY <1>2, <1>14, MappedKept DEF Grown
  <1>16. Work'
    BY <1>0, <1>2, <1>15 DEF Work
  <1>17. Counted'
    BY <1>0, <1>2, <1>15 DEF Counted
  <1>18. Lines'
    <2>1. main' = "polling" => mout' = Mapped'
      BY <1>0, <1>2, <1>15 DEF Lines
    <2>2. \A l \in mtemp : l[1] \in DOMAIN tasks /\ l[1] # t /\ status'[l[1]] # "idle"
      BY <1>0, <1>3, <1>5 DEF Lines
    <2>3. ASSUME NEW v \in Worker, NEW i \in Input, pc'[v] = "emit", tasks[task'[v]] = MapTask(i)
          PROVE  /\ todo'[v] \subseteq Emits[i]
                 /\ \A k \in Key : <<task'[v], k>> \in mtemp <=> k \in Emits[i] \ todo'[v]
      <3>1. CASE v = w
        <4>1. tasks[t] = MapTask(i) /\ tasks[t].taskType = "map"
          BY <1>6, <2>3, <3>1, MapTaskInput
        <4>2. todo' = [todo EXCEPT ![w] = Emits[i]]
          BY <1>7, <2>3, <3>1, <4>1, MapTaskInput, SMTT(60)
        <4>3. todo'[v] = Emits[i]
          BY <1>0, <3>1, <4>2 DEF Types
        <4>4. \A k \in Key : <<task'[v], k>> \notin mtemp
          BY <1>6, <2>2, <3>1
        <4>5. QED
          BY <4>3, <4>4
      <3>2. CASE v # w
        BY <1>0, <1>6, <2>3, <3>2, SMTT(60) DEF Lines
      <3>3. QED
        BY <3>1, <3>2
    <2>4. QED
      BY <1>2, <2>1, <2>2, <2>3 DEF Lines
  <1>19. Reduced'
    <2>1. Unreduced' = Unreduced
      BY <1>2, <1>15 DEF Unreduced
    <2>2. QED
      BY <1>0, <1>2, <1>14, <1>15, <2>1 DEF Reduced
  <1>20. Settled'
    BY <1>0, <1>2, <1>3 DEF Settled
  <1>21. QED
    BY <1>9, <1>12, <1>13, <1>16, <1>17, <1>18, <1>19, <1>20 DEF Inv

\* In phaseShutdown no attempt is idle or in progress.
LEMMA ShutdownSettled ==
    ASSUME Inv, phase = "shutdown", NEW t \in DOMAIN tasks
    PROVE  status[t] \in {"completed", "timed_out"}
  <1>0. Types /\ OneLive /\ Work /\ Counted /\ Reduced
    BY DEF Inv
  <1>1. status[t] \in Status /\ tasks[t].taskType \in {"map", "reduce"}
    <2>1. tasks[t] \in Task /\ status[t] \in Status
      BY <1>0, Table
    <2>2. QED
      BY <2>1 DEF Task
  <1>2. \E u \in DOMAIN tasks : tasks[u] = tasks[t] /\ status[u] = "completed"
    <2>1. CASE tasks[t].taskType = "map"
      <3>1. PICK i \in Input : tasks[t] = MapTask(i)
        BY <1>0, <2>1 DEF Work
      <3>2. i \notin Unmapped
        BY <1>0 DEF Counted
      <3>3. QED
        BY <3>1, <3>2 DEF Unmapped, WithStatus
    <2>2. CASE tasks[t].taskType = "reduce"
      <3>1. PICK r \in PartsOf(Mapped) : tasks[t] = ReduceTask(Mapped, r)
        BY <1>0, <2>2 DEF Work
      <3>2. rout[r] # <<>>
        BY <1>0 DEF Reduced, Unreduced
      <3>3. QED
        BY <1>0, <3>1, <3>2 DEF Reduced
    <2>3. QED
      BY <1>1, <2>1, <2>2
  <1>3. QED
    BY <1>0, <1>1, <1>2 DEF OneLive, Status

\* Done, with the time-outs it finds, keeps the invariant.
LEMMA DoneStep ==
    ASSUME FiniteFacts, Inv, NEW S \in SUBSET DOMAIN tasks, Done(S)
    PROVE  Inv'
  <1>0. Types /\ Held /\ OneLive /\ Work /\ Counted /\ Lines /\ Reduced /\ Settled
    BY DEF Inv
  <1>1. /\ main = "polling" /\ \A t \in S : status[t] = "in_progress"
        /\ TimeoutTasks(S)
        /\ (Finished /\ main' = "done" /\ mout' = {}) \/ UNCHANGED <<main, mout>>
    BY DEF Done, WithStatus
  <1>2. UNCHANGED <<numMapTasks, numReduceTasks, phase, mtemp, rtemp, rout, pc, task, todo>>
    BY DEF Done, workerVars
  <1>17. Cardinality(S) \in Nat
    <2>1. DOMAIN tasks = 1 .. Len(tasks) /\ Len(tasks) \in Nat
      BY <1>0, Table
    <2>2. IsFiniteSet(DOMAIN tasks)
      BY <2>1 DEF FiniteFacts
    <2>3. QED
      BY <2>2 DEF FiniteFacts
  <1>3. /\ tasks' \in Seq(Task) /\ status' \in Seq(Status) /\ Len(status') = Len(tasks')
        /\ DOMAIN tasks \subseteq DOMAIN tasks'
        /\ \A t \in DOMAIN tasks :
              tasks'[t] = tasks[t] /\ status'[t] = IF t \in S THEN "timed_out" ELSE status[t]
    BY <1>0, <1>1, <1>17, DoneGrows
  <1>4. PICK src \in [Grown -> S] :
              /\ \A t, u \in Grown : src[t] = src[u] => t = u
              /\ \A s \in S : \E t \in Grown : src[t] = s
              /\ \A t \in Grown : tasks'[t] = tasks[src[t]] /\ status'[t] = "idle"
    BY <1>0, <1>1, <1>17, DoneGrows
  <1>5. DOMAIN tasks' = DOMAIN tasks \cup Grown /\ \A t \in Grown : src[t] \in DOMAIN tasks
    BY <1>3, <1>4 DEF Grown
  <1>6. Types'
    <2>1. mout' \subseteq Nat \X Key /\ main' \in {"polling", "done", "exited"}
      BY <1>0, <1>1 DEF Types
    <2>2. QED
      BY <1>0, <1>2, <1>3, <2>1 DEF Types
  <1>7. Held'
    BY <1>0, <1>2, <1>3, SMTT(60) DEF Held, Working
  <1>8. OneLive'
    <2>1. ASSUME NEW t \in DOMAIN tasks'
          PROVE  \E u \in DOMAIN tasks' : tasks'[u] = tasks'[t] /\ status'[u] # "timed_out"
      <3>1. PICK v \in DOMAIN tasks : tasks[v] = tasks'[t]
        BY <1>3, <1>4, <1>5
      <3>2. PICK u \in DOMAIN tasks : tasks[u] = tasks'[t] /\ status[u] # "timed_out"
        BY <1>0, <3>1 DEF OneLive
      <3>3. CASE u \in S
        BY <1>4, <1>5, <3>2, <3>3, SMTT(60)
      <3>4. CASE u \notin S
        BY <1>3, <3>2, <3>4
      <3>5. QED
        BY <3>3, <3>4
    <2>2. ASSUME NEW t \in DOMAIN tasks', NEW u \in DOMAIN tasks', tasks'[t] = tasks'[u],
                 status'[t] # "timed_out", status'[u] # "timed_out"
          PROVE  t = u
      <3> DEFINE orig(x) == IF x \in Grown THEN src[x] ELSE x
      <3>1. \A x \in DOMAIN tasks' : status'[x] # "timed_out" =>
                /\ orig(x) \in DOMAIN tasks /\ tasks'[x] = tasks[orig(x)]
                /\ status[orig(x)] # "timed_out"
                /\ x \in Grown <=> orig(x) \in S
        BY <1>1, <1>3, <1>4, <1>5 DEF Grown
      <3>2. orig(t) = orig(u)
        BY <1>0, <2>2, <3>1, SMTT(60) DEF OneLive
      <3>3. QED
        BY <1>4, <2>2, <3>1, <3>2
    <2>3. QED
      BY <2>1, <2>2 DEF OneLive
  <1>9. \A t \in DOMAIN tasks : status'[t] = "completed" <=> status[t] = "completed"
    BY <1>1, <1>3
  <1>10. Mapped' = Mapped /\ Unmapped' = Unmapped
    BY <1>3, <1>4, <1>9, MappedKept
  <1>11. Work'
    <2>1. \A t \in DOMAIN tasks' : \E u \in DOMAIN tasks : tasks[u] = tasks'[t]
      BY <1>3, <1>4, <1>5
    <2>2. QED
      BY <1>0, <1>2, <1>3, <1>10, <2>1, SMTT(60) DEF Work
  <1>12. Counted'
    BY <1>0, <1>2, <1>10 DEF Counted
  <1>13. Lines'
    <2>1. main' = "polling" => mout' = Mapped'
      BY <1>0, <1>1, <1>10, ZenonT(40) DEF Lines
    <2>2. \A l \in mtemp : l[1] \in DOMAIN tasks' /\ status'[l[1]] # "idle"
      BY <1>0, <1>3, ZenonT(40) DEF Lines
    <2>3. \A w \in Worker : pc[w] = "emit" => task[w] \in DOMAIN tasks /\ tasks'[task[w]] = tasks[task[w]]
      BY <1>0, <1>3, ZenonT(40) DEF Held, Working
    <2>4. QED
      BY <1>0, <1>2, <2>1, <2>2, <2>3 DEF Lines
  <1>14. Reduced'
    <2>1. Unreduced' = Unreduced
      BY <1>2, <1>10 DEF Unreduced
    <2>2. QED
      BY <1>0, <1>2, <1>3, <1>9, <1>10, <2>1, SMTT(60) DEF Reduced
  <1>15. Settled'
    <2>1. SUFFICES ASSUME Finished
                   PROVE  phase # "map" /\ \A t \in DOMAIN tasks' : status'[t] \in {"completed", "timed_out"}
      BY <1>1, <1>2 DEF Settled
    <2>2. DOMAIN status' = DOMAIN tasks' /\ \A t \in DOMAIN tasks' : status'[t] \in Status
      BY <1>3, SMTT(60)
    <2>3. CASE phase = "map"
      BY <2>1, <2>3 DEF Finished
    <2>4. CASE phase = "reduce"
      BY <2>1, <2>2, <2>4 DEF Finished, Status
    <2>5. CASE phase = "shutdown"
      <3>1. \A t \in DOMAIN tasks : status[t] \in {"completed", "timed_out"}
        BY <2>5, ShutdownSettled
      <3>2. S = {}
        BY <1>1, <3>1
      <3>3. QED
        BY <1>3, <1>4, <1>5, <2>5, <3>1, <3>2
    <2>6. QED
      BY <1>0, <2>3, <2>4, <2>5 DEF Types
  <1>16. QED
    BY <1>6, <1>7, <1>8, <1>11, <1>12, <1>13, <1>14, <1>15 DEF Inv

\* A part's reduce task is a reduce task, is no other part's, and ReduceId gives the part.
LEMMA ReduceTaskPart ==
    ASSUME NEW L \in SUBSET (Nat \X Key), NEW r \in PartsOf(L)
    PROVE  /\ ReduceTask(L, r).taskType = "reduce"
           /\ \A q \in PartsOf(L) : ReduceTask(L, r) = ReduceTask(L, q) => r = q
           /\ \A t \in DOMAIN tasks :
                 /\ tasks[t] = ReduceTask(L, r)
                 /\ \A l \in L : l[1] \in DOMAIN tasks
                 => ReduceId(t) = r
  <1> DEFINE F(q) == {f \in NamesOf(L) : f[2] = q}
  <1>1. ReduceTask(L, r).taskType = "reduce" /\ \A q : ReduceTask(L, q).files = F(q)
    BY DEF ReduceTask
  <1>2. PICK l \in L : Part[l[2]] = r
    BY SMTT(60) DEF PartsOf, NamesOf
  <1>3. <<l[1], r>> \in F(r)
    BY <1>2 DEF NamesOf
  <1>4. \A q : F(r) = F(q) => r = q
    BY <1>3
  <1>5. ASSUME NEW t \in DOMAIN tasks, tasks[t] = ReduceTask(L, r), \A x \in L : x[1] \in DOMAIN tasks
        PROVE  ReduceId(t) = r
    <2>1. tasks[t].files = F(r) /\ l[1] \in DOMAIN tasks
      BY <1>1, <1>5
    <2>2. r \in Reducer
      BY PartsType
    <2>3. \A q \in Reducer : (\E m \in DOMAIN tasks : <<m, q>> \in tasks[t].files) <=> q = r
      BY <1>3, <2>1, <2>2
    <2>4. QED
      BY <2>2, <2>3 DEF ReduceId
  <1> HIDE DEF F
  <1>6. \A q \in PartsOf(L) : ReduceTask(L, r) = ReduceTask(L, q) => r = q
    BY <1>1, <1>4
  <1>7. QED
    BY <1>1, <1>5, <1>6

\* The attempt whose map result TaskDone takes: the phase is still phaseMap, its lines are
\* all there, and they are the only ones for this input.
LEMMA MapResult ==
    ASSUME Inv, NEW w \in Worker, TakesResult(w, "map")
    PROVE  \E i \in Input :
              LET t == task[w] IN
              /\ t \in DOMAIN tasks /\ status[t] = "in_progress" /\ tasks[t] = MapTask(i)
              /\ i \in Unmapped /\ phase = "map" /\ main = "polling"
              /\ \A k \in Key : <<t, k>> \in mtemp <=> k \in Emits[i]
  <1>0. Types /\ Held /\ OneLive /\ Work /\ Counted /\ Lines /\ Settled
    BY DEF Inv
  <1> DEFINE t == task[w]
  <1>1. /\ pc[w] = "emit" /\ todo[w] = {} /\ status[t] # "timed_out"
        /\ tasks[t].taskType = "map"
    BY DEF TakesResult
  <1>2. t \in DOMAIN tasks /\ status[t] # "idle" /\ status[t] # "completed"
    BY <1>0, <1>1 DEF Held, Working
  <1>3. status[t] = "in_progress"
    <2>1. status[t] \in Status
      BY <1>0, <1>2, Table
    <2>2. QED
      BY <1>1, <1>2, <2>1 DEF Status
  <1>4. PICK i \in Input : tasks[t] = MapTask(i)
    BY <1>0, <1>1, <1>2 DEF Work
  <1>5. i \in Unmapped
    <2>1. \A u \in DOMAIN tasks : status[u] = "completed" => tasks[u] # MapTask(i)
      BY <1>0, <1>2, <1>3, <1>4 DEF OneLive
    <2>2. QED
      BY <2>1 DEF Unmapped, WithStatus
  <1>6. phase = "map"
    BY <1>0, <1>5 DEF Counted
  <1>7. main = "polling"
    BY <1>0, <1>6 DEF Settled
  <1>8. \A k \in Key : <<t, k>> \in mtemp <=> k \in Emits[i]
    BY <1>0, <1>1, <1>4 DEF Lines
  <1>9. QED
    BY <1>2, <1>3, <1>4, <1>5, <1>6, <1>7, <1>8

\* The table before and after TaskDone has taken a map result.
LEMMA MapDoneTable ==
    ASSUME FiniteFacts, Inv, NEW w \in Worker, TaskDoneMap(w), NEW i \in Input, NEW t, t = task[w],
           t \in DOMAIN tasks, status[t] = "in_progress", tasks[t] = MapTask(i),
           i \in Unmapped, phase = "map", main = "polling",
           \A k \in Key : <<t, k>> \in mtemp <=> k \in Emits[i],
           tasks' \in Seq(Task), DOMAIN tasks \subseteq DOMAIN tasks',
           \A u \in DOMAIN tasks :
               tasks'[u] = tasks[u] /\ status'[u] = IF u = t THEN "completed" ELSE status[u],
           \A u \in Grown : tasks'[u].taskType = "reduce" /\ status'[u] = "idle"
    PROVE  /\ Mapped' = Mapped \cup {l \in mtemp : l[1] = t} /\ mout' = Mapped'
           /\ Unmapped' = Unmapped \ {i} /\ numMapTasks' = Cardinality(Unmapped')
           /\ Held' /\ Lines' /\ Settled'
           /\ \A u \in DOMAIN tasks : tasks[u].taskType = "map"
           /\ \A u \in DOMAIN tasks : \E j \in Input : tasks[u] = MapTask(j)
  <1>0. Types /\ Held /\ OneLive /\ Work /\ Counted /\ Lines /\ Settled
    BY DEF Inv
  <1>1. /\ mtemp' = mtemp \ {l \in mtemp : l[1] = t}
        /\ mout' = mout \cup {l \in mtemp : l[1] = t}
        /\ numMapTasks' = numMapTasks - 1
        /\ pc' = [pc EXCEPT ![w] = "free"]
        /\ UNCHANGED <<main, task, todo>>
    BY DEF TaskDoneMap
  <1>2. DOMAIN tasks' = DOMAIN tasks \cup Grown
    BY DEF Grown
  <1>3. \A u \in DOMAIN tasks' : \A j \in Input :
            (status'[u] = "completed" /\ tasks'[u] = MapTask(j)) <=>
            (u \in DOMAIN tasks /\ tasks[u] = MapTask(j) /\ (u = t \/ status[u] = "completed"))
    BY <1>2, MapTaskInput
  <1>4. mtemp \subseteq Nat \X Key /\ Emits[i] \subseteq Key
    BY <1>0, MapReduceAssumption DEF Types
  <1>5. Mapped' = Mapped \cup {l \in mtemp : l[1] = t}
    <2>1. \A l \in Mapped' : l \in Mapped \/ (l \in mtemp /\ l[1] = t)
      BY <1>3, MapTaskInput, SMTT(60) DEF Mapped
    <2>2. Mapped \subseteq Mapped'
      BY <1>2, <1>3, SMTT(60) DEF Mapped
    <2>3. \A l \in mtemp : l[1] = t => l \in Mapped'
      <3>1. SUFFICES ASSUME NEW l \in mtemp, l[1] = t PROVE l \in Mapped'
        OBVIOUS
      <3>2. l = <<t, l[2]>> /\ l[2] \in Key
        BY <1>4, <3>1, SMTT(60)
      <3>3. l[2] \in Emits[i]
        BY <3>1, <3>2
      <3>4. status'[t] = "completed" /\ tasks'[t] = MapTask(i) /\ t \in DOMAIN tasks'
        BY <1>2
      <3>5. l \in (DOMAIN tasks') \X Key
        BY <3>2, <3>4, SMTT(60)
      <3>6. QED
        BY <3>1, <3>3, <3>4, <3>5 DEF Mapped
    <2>4. QED
      BY <2>1, <2>2, <2>3
  <1>6. mout' = Mapped'
    BY <1>0, <1>1, <1>5 DEF Lines
  <1>7. Unmapped' = Unmapped \ {i}
    <2>1. \A j \in Input : j \in Unmapped' <=> j \in Unmapped /\ j # i
      BY <1>2, <1>3, MapTaskInput, SMTT(60) DEF Unmapped, WithStatus
    <2>2. Unmapped \subseteq Input /\ Unmapped' \subseteq Input
      BY DEF Unmapped
    <2>3. QED
      BY <2>1, <2>2
  <1>8. numMapTasks' = Cardinality(Unmapped')
    <2>1. IsFiniteSet(Unmapped)
      BY DEF Unmapped, FiniteFacts
    <2>2. Cardinality(Unmapped \ {i}) = Cardinality(Unmapped) - 1
      BY <2>1 DEF FiniteFacts
    <2>3. QED
      BY <1>0, <1>1, <1>7, <2>2 DEF Counted
  <1>9. /\ pc'[w] = "free" /\ \A v \in Worker : v # w => pc'[v] = pc[v]
        /\ \A v \in Worker : v # w /\ task[v] # 0 => task[v] # t
    BY <1>0, <1>1 DEF Types, Held
  <1>10. Held'
    BY <1>0, <1>1, <1>2, <1>9, SMTT(60) DEF Held, Working
  <1>11. Lines'
    <2>1. \A l \in mtemp' : l[1] \in DOMAIN tasks' /\ status'[l[1]] # "idle"
      BY <1>0, <1>1, <1>2 DEF Lines
    <2>2. \A v \in Worker : pc'[v] = "emit" =>
              pc[v] = "emit" /\ task[v] # t /\ task[v] \in DOMAIN tasks /\ tasks'[task[v]] = tasks[task[v]]
      <3>1. SUFFICES ASSUME NEW v \in Worker, pc'[v] = "emit"
                     PROVE  /\ pc[v] = "emit" /\ task[v] # t /\ task[v] \in DOMAIN tasks
                            /\ tasks'[task[v]] = tasks[task[v]]
        OBVIOUS
      <3>2. v # w /\ pc[v] = "emit"
        BY <1>9, <3>1
      <3>3. task[v] # 0
        BY <1>0, <3>2 DEF Held, Working
      <3>4. task[v] \in DOMAIN tasks
        BY <1>0, <3>3 DEF Held
      <3>5. QED
        BY <1>2, <1>9, <3>2, <3>3, <3>4
    <2>3. \A v \in Worker, k \in Key : task[v] # t =>
              (<<task[v], k>> \in mtemp' <=> <<task[v], k>> \in mtemp)
      BY <1>1
    <2>4. QED
      BY <1>0, <1>1, <1>6, <2>1, <2>2, <2>3, SMTT(60) DEF Lines
  <1>12. Settled'
    BY <1>1 DEF Settled
  <1>13. \A u \in DOMAIN tasks : tasks[u].taskType = "map" /\ \E j \in Input : tasks[u] = MapTask(j)
    <2>1. \A u \in DOMAIN tasks : tasks[u] \in Task
      BY <1>0, Table
    <2>2. \A u \in DOMAIN tasks : tasks[u].taskType \in {"map", "reduce"}
      BY <2>1 DEF Task
    <2>3. QED
      BY <1>0, <2>2 DEF Work
  <1>14. QED
    BY <1>5, <1>6, <1>7, <1>8, <1>10, <1>11, <1>12, <1>13

\* TaskDone of a map attempt keeps the invariant.
LEMMA MapDoneStep ==
    ASSUME FiniteFacts, Inv, NEW w \in Worker, TaskDoneMap(w)
    PROVE  Inv'
  <1>0. Types /\ Held /\ OneLive /\ Work /\ Counted /\ Lines /\ Reduced /\ Settled
    BY DEF Inv
  <1> DEFINE t == task[w]
  <1>1. PICK i \in Input :
              /\ t \in DOMAIN tasks /\ status[t] = "in_progress" /\ tasks[t] = MapTask(i)
              /\ i \in Unmapped /\ phase = "map" /\ main = "polling"
              /\ \A k \in Key : <<t, k>> \in mtemp <=> k \in Emits[i]
    BY MapResult DEF TaskDoneMap
  <1>2. /\ mtemp' \subseteq mtemp /\ mout' = mout \cup {l \in mtemp : l[1] = t}
        /\ DOMAIN pc' = Worker
        /\ UNCHANGED <<main, rtemp, rout, task, todo>>
    BY <1>0 DEF TaskDoneMap, Types
  <1>3. /\ tasks \in Seq(Task) /\ Len(tasks) \in Nat /\ DOMAIN tasks = 1 .. Len(tasks)
        /\ status \in Seq(Status) /\ DOMAIN status = DOMAIN tasks /\ Len(status) = Len(tasks)
    BY <1>0, Table
  <1>4. mout' \in SUBSET (Nat \X Key)
    BY <1>0, <1>2 DEF Types
  <1>5. CASE ~AllMapped(numMapTasks')
    <2>1. /\ status' = [status EXCEPT ![t] = "completed"]
          /\ UNCHANGED <<tasks, numReduceTasks, phase>>
      BY <1>5 DEF TaskDoneMap
    <2>2. /\ status' \in Seq(Status) /\ Len(status') = Len(tasks)
          /\ \A u \in DOMAIN tasks : status'[u] = IF u = t THEN "completed" ELSE status[u]
      <3>1. "completed" \in Status
        BY DEF Status
      <3>2. QED
        BY <1>1, <1>3, <2>1, <3>1, SMTT(60)
    <2>3. Grown = {} /\ tasks' = tasks
      BY <2>1 DEF Grown
    <2>4. /\ Mapped' = Mapped \cup {l \in mtemp : l[1] = t}
          /\ Unmapped' = Unmapped \ {i} /\ numMapTasks' = Cardinality(Unmapped')
          /\ Held' /\ Lines' /\ Settled'
          /\ \A u \in DOMAIN tasks : tasks[u].taskType = "map"
          /\ \A u \in DOMAIN tasks : \E j \in Input : tasks[u] = MapTask(j)
      BY <1>1, <1>3, <2>2, <2>3, MapDoneTable, SMTT(60)
    <2>5. Types'
      BY <1>0, <1>2, <1>4, <2>1, <2>2 DEF Types
    <2>6. OneLive'
      BY <1>0, <1>1, <2>1, <2>2, SMTT(60) DEF OneLive
    <2>7. Work'
      <3>1. phase' = "map"
        BY <1>1, <2>1
      <3>2. QED
        BY <1>0, <2>1, <2>4, <3>1 DEF Work
    <2>8. Counted'
      <3>0. IsFiniteSet(Unmapped')
        BY DEF Unmapped, FiniteFacts
      <3>1. Unmapped' # {}
        BY <1>5, <2>4, <3>0 DEF AllMapped, FiniteFacts
      <3>2. QED
        BY <1>1, <2>1, <2>4, <3>1 DEF Counted
    <2>9. Reduced'
      <3>1. PartsOf(Mapped') \subseteq Reducer
        <4>1. Mapped' \in SUBSET (Nat \X Key)
          BY <2>5, SMTT(60) DEF Types, Mapped
        <4>2. QED
          BY <4>1, PartsType
      <3>2. phase' = "map" /\ numReduceTasks' = 0 /\ \A r \in Reducer : rout'[r] = <<>>
        BY <1>0, <1>1, <1>2, <2>1 DEF Reduced
      <3>3. QED
        BY <3>1, <3>2 DEF Reduced
    <2>10. QED
      BY <2>4, <2>5, <2>6, <2>7, <2>8, <2>9 DEF Inv
  <1>6. CASE AllMapped(numMapTasks')
    <2>1. PICK new \in CreateReduceTasks(mout') :
                /\ tasks' = tasks \o new
                /\ status' = [status EXCEPT ![t] = "completed"] \o [n \in DOMAIN new |-> "idle"]
                /\ numReduceTasks' = numReduceTasks + Len(new)
      BY <1>6 DEF TaskDoneMap
    <2>2. phase' = "reduce"
      BY <1>6 DEF TaskDoneMap
    <2>15. PartsOf(mout') \subseteq Reducer /\ Cardinality(PartsOf(mout')) \in Nat
      BY <1>4, PartsType DEF FiniteFacts
    <2>14. Created(mout', t) /\ Len(new) = Cardinality(PartsOf(mout'))
      BY <1>0, <1>1, <1>4, <2>1, <2>15, CreateGrows
    <2>3. /\ tasks' \in Seq(Task) /\ status' \in Seq(Status) /\ Len(status') = Len(tasks')
          /\ DOMAIN tasks \subseteq DOMAIN tasks'
          /\ \A u \in DOMAIN tasks :
                tasks'[u] = tasks[u] /\ status'[u] = IF u = t THEN "completed" ELSE status[u]
      BY <2>14 DEF Created
    <2>4. PICK red \in [Grown -> PartsOf(mout')] :
                /\ \A u, v \in Grown : red[u] = red[v] => u = v
                /\ \A r \in PartsOf(mout') : \E u \in Grown : red[u] = r
                /\ \A u \in Grown : tasks'[u] = ReduceTask(mout', red[u]) /\ status'[u] = "idle"
      BY <2>14 DEF Created
    <2>5. DOMAIN tasks' = DOMAIN tasks \cup Grown
      BY <2>3 DEF Grown
    <2>6. \A u \in Grown : tasks'[u].taskType = "reduce"
      BY <1>4, <2>4, ReduceTaskPart, SMTT(60)
    <2>7. /\ mout' = Mapped'
          /\ Unmapped' = Unmapped \ {i} /\ numMapTasks' = Cardinality(Unmapped')
          /\ Held' /\ Lines' /\ Settled'
          /\ \A u \in DOMAIN tasks : tasks[u].taskType = "map"
          /\ \A u \in DOMAIN tasks : \E j \in Input : tasks[u] = MapTask(j)
      BY <1>1, <2>3, <2>4, <2>6, MapDoneTable
    <2>8. Types'
      BY <1>0, <1>2, <1>4, <2>2, <2>3 DEF Types
    <2>9. OneLive'
      <3>1. ASSUME NEW u \in DOMAIN tasks'
            PROVE  \E v \in DOMAIN tasks' : tasks'[v] = tasks'[u] /\ status'[v] # "timed_out"
        <4>1. CASE u \in DOMAIN tasks
          <5>1. PICK v \in DOMAIN tasks : tasks[v] = tasks[u] /\ status[v] # "timed_out"
            BY <1>0, <4>1 DEF OneLive
          <5>2. status'[v] # "timed_out"
            BY <2>3, <5>1
          <5>3. QED
            BY <2>3, <4>1, <5>1, <5>2
        <4>2. CASE u \in Grown
          <5>1. status'[u] # "timed_out"
            BY <2>4, <4>2
          <5>2. QED
            BY <5>1
        <4>3. QED
          BY <2>5, <3>1, <4>1, <4>2
      <3>2. ASSUME NEW u \in DOMAIN tasks', NEW v \in DOMAIN tasks', tasks'[u] = tasks'[v],
                   status'[u] # "timed_out", status'[v] # "timed_out"
            PROVE  u = v
        <4>1. CASE u \in Grown /\ v \in Grown
          <5>1. red[u] = red[v]
            BY <1>4, <2>4, <3>2, <4>1, ReduceTaskPart, SMTT(60)
          <5>2. QED
            BY <2>4, <4>1, <5>1
        <4>2. CASE u \in DOMAIN tasks /\ v \in DOMAIN tasks
          BY <1>0, <1>1, <2>3, <3>2, <4>2 DEF OneLive
        <4>3. CASE (u \in Grown /\ v \in DOMAIN tasks) \/ (u \in DOMAIN tasks /\ v \in Grown)
          BY <2>3, <2>6, <2>7, <3>2, <4>3, SMTT(60)
        <4>4. QED
          BY <2>5, <4>1, <4>2, <4>3
      <3>3. QED
        BY <3>1, <3>2 DEF OneLive
    <2>10. Work'
      <3>1. \A j \in Input : \E u \in DOMAIN tasks' : tasks'[u] = MapTask(j)
        BY <1>0, <2>3 DEF Work
      <3>2. \A u \in DOMAIN tasks' : tasks'[u].taskType = "map" =>
                \E j \in Input : tasks'[u] = MapTask(j)
        BY <2>3, <2>5, <2>6, <2>7, SMTT(60)
      <3>3. \A u \in DOMAIN tasks' : tasks'[u].taskType = "reduce" =>
                \E r \in PartsOf(mout') : tasks'[u] = ReduceTask(mout', r)
        BY <2>3, <2>4, <2>5, <2>7, SMTT(60)
      <3>4. \A r \in PartsOf(mout') : \E u \in DOMAIN tasks' : tasks'[u] = ReduceTask(mout', r)
        BY <2>4, <2>5, SMTT(60)
      <3>5. QED
        BY <2>2, <2>7, <3>1, <3>2, <3>3, <3>4 DEF Work
    <2>11. Counted'
      <3>1. Unmapped' = {}
        <4>1. IsFiniteSet(Unmapped')
          BY DEF Unmapped, FiniteFacts
        <4>2. Cardinality(Unmapped') = 0 <=> Unmapped' = {}
          BY <4>1 DEF FiniteFacts
        <4>3. QED
          BY <1>6, <2>7, <4>2 DEF AllMapped
      <3>2. QED
        BY <2>2, <2>7, <3>1 DEF Counted
    <2>12. Reduced'
      <3>2. numReduceTasks = 0 /\ \A r \in Reducer : rout'[r] = <<>>
        BY <1>0, <1>1, <1>2 DEF Reduced
      <3>3. Unreduced' = PartsOf(mout')
        BY <2>7, <2>15, <3>2 DEF Unreduced
      <3>4. numReduceTasks' = Cardinality(PartsOf(mout'))
        BY <2>1, <2>14, <2>15, <3>2, SMTT(60)
      <3>5. QED
        BY <2>2, <2>7, <2>15, <3>2, <3>3, <3>4 DEF Reduced
    <2>13. QED
      BY <2>7, <2>8, <2>9, <2>10, <2>11, <2>12 DEF Inv
  <1>7. QED
    BY <1>5, <1>6

\* A reduce attempt whose result TaskDone takes is the only one at its part, which has no
\* output yet, and the job is not over.
LEMMA ReduceResult ==
    ASSUME Inv, NEW w \in Worker, TakesResult(w, "reduce")
    PROVE  \E r \in PartsOf(Mapped) :
              LET t == task[w] IN
              /\ t \in DOMAIN tasks /\ status[t] = "in_progress"
              /\ tasks[t] = ReduceTask(Mapped, r) /\ ReduceId(t) = r
              /\ rout[r] = <<>> /\ phase = "reduce" /\ main = "polling"
  <1>0. Types /\ Held /\ OneLive /\ Work /\ Counted /\ Lines /\ Reduced /\ Settled
    BY DEF Inv
  <1> DEFINE t == task[w]
  <1>1. pc[w] = "emit" /\ status[t] # "timed_out" /\ tasks[t].taskType = "reduce"
    BY DEF TakesResult
  <1>2. t \in DOMAIN tasks /\ status[t] = "in_progress"
    <2>1. t \in DOMAIN tasks /\ status[t] # "idle" /\ status[t] # "completed"
      BY <1>0, <1>1 DEF Held, Working
    <2>2. status[t] \in Status
      BY <1>0, <2>1, Table
    <2>3. QED
      BY <1>1, <2>1, <2>2 DEF Status
  <1>3. PICK r \in PartsOf(Mapped) : tasks[t] = ReduceTask(Mapped, r)
    BY <1>0, <1>1, <1>2 DEF Work
  <1>4. Mapped \in SUBSET (Nat \X Key) /\ PartsOf(Mapped) \subseteq Reducer
    BY <1>0, MappedType, PartsType
  <1>5. ReduceId(t) = r
    <2>1. \A l \in Mapped : l[1] \in DOMAIN tasks
      BY DEF Mapped
    <2>2. QED
      BY <1>2, <1>3, <1>4, <2>1, ReduceTaskPart
  <1>6. rout[r] = <<>>
    BY <1>0, <1>2, <1>3 DEF Reduced, OneLive
  <1>7. phase = "reduce" /\ main = "polling"
    <2>1. phase # "map"
      BY <1>0, <1>1, <1>2 DEF Work
    <2>2. phase # "shutdown"
      BY <1>0, <1>6 DEF Reduced, Unreduced
    <2>3. main = "polling"
      BY <1>0, <1>2 DEF Settled
    <2>4. QED
      BY <1>0, <2>1, <2>2, <2>3 DEF Types
  <1>8. QED
    BY <1>2, <1>3, <1>5, <1>6, <1>7

\* TaskDone of a reduce attempt keeps the invariant.
LEMMA ReduceDoneStep ==
    ASSUME FiniteFacts, Inv, NEW w \in Worker, TaskDoneReduce(w)
    PROVE  Inv'
  <1>0. Types /\ Held /\ OneLive /\ Work /\ Counted /\ Lines /\ Reduced /\ Settled
    BY DEF Inv
  <1> DEFINE t == task[w]
  <1>1. /\ pc[w] = "emit" /\ status[t] # "timed_out" /\ tasks[t].taskType = "reduce"
        /\ status' = [status EXCEPT ![t] = "completed"]
        /\ UNCHANGED <<tasks, numMapTasks, main, mtemp, mout, task, todo>>
    BY DEF TaskDoneReduce, TakesResult
  <1>2. PICK r \in PartsOf(Mapped) :
              /\ t \in DOMAIN tasks /\ status[t] = "in_progress"
              /\ tasks[t] = ReduceTask(Mapped, r) /\ ReduceId(t) = r
              /\ rout[r] = <<>> /\ phase = "reduce" /\ main = "polling"
    <2>1. TakesResult(w, "reduce")
      BY DEF TaskDoneReduce
    <2>2. QED
      BY <2>1, ReduceResult
  <1>4. Mapped \in SUBSET (Nat \X Key) /\ PartsOf(Mapped) \subseteq Reducer
    BY <1>0, MappedType, PartsType
  <1>8. /\ tasks \in Seq(Task) /\ DOMAIN tasks = 1 .. Len(tasks)
        /\ status \in Seq(Status) /\ DOMAIN status = DOMAIN tasks /\ Len(status) = Len(tasks)
    BY <1>0, Table
  <1>9. /\ status' \in Seq(Status) /\ Len(status') = Len(tasks)
        /\ \A u \in DOMAIN tasks : status'[u] = IF u = t THEN "completed" ELSE status[u]
    <2>1. "completed" \in Status
      BY DEF Status
    <2>2. QED
      BY <1>1, <1>2, <1>8, <2>1, SMTT(60)
  <1>10. /\ DOMAIN pc' = Worker /\ pc'[w] \notin {"read", "emit"}
         /\ \A v \in Worker : v # w => pc'[v] = pc[v]
         /\ DOMAIN rtemp' = Reducer /\ DOMAIN rout' = Reducer
    BY <1>0 DEF TaskDoneReduce, Types
  <1>11. \/ /\ rtemp[r] # <<>> /\ rout' = [rout EXCEPT ![r] = rtemp[r]]
            /\ numReduceTasks' = numReduceTasks - 1
            /\ phase' = IF numReduceTasks' = 0 THEN "shutdown" ELSE phase
         \/ UNCHANGED <<rout, numReduceTasks, phase>>
    BY <1>2 DEF TaskDoneReduce
  <1>12. phase' \in {"reduce", "shutdown"}
    BY <1>2, <1>11
  <1>13. Types'
    BY <1>0, <1>1, <1>9, <1>10, <1>12 DEF Types
  <1>14. Held'
    <2>1. \A v \in Worker : v # w /\ task[v] # 0 => task[v] # t
      BY <1>0, <1>2 DEF Held
    <2>2. \A v \in Worker : pc'[v] \in {"read", "emit"} =>
              /\ v # w /\ pc[v] \in {"read", "emit"} /\ task[v] \in DOMAIN tasks
              /\ status'[task[v]] = status[task[v]]
      BY <1>0, <1>9, <1>10, <2>1 DEF Held, Working
    <2>3. \A v \in Worker : pc'[v] = "read" => pc[v] = "read" /\ task[v] \in DOMAIN tasks
      BY <1>0, <1>10, <2>2
    <2>4. \A u \in DOMAIN tasks : status[u] # "idle" => status'[u] # "idle"
      BY <1>9
    <2>5. QED
      BY <1>0, <1>1, <2>2, <2>3, <2>4, SMTT(60) DEF Held, Working
  <1>15. OneLive'
    <2>1. \A u \in DOMAIN tasks : status'[u] = "timed_out" <=> status[u] = "timed_out"
      BY <1>2, <1>9
    <2>2. QED
      BY <1>0, <1>1, <2>1 DEF OneLive
  <1>16. Mapped' = Mapped /\ Unmapped' = Unmapped
    <2>1. \A u \in DOMAIN tasks : tasks[u].taskType = "map" =>
              (status'[u] = "completed" <=> status[u] = "completed")
      BY <1>1, <1>9, ZenonT(40)
    <2>2. Grown = {}
      BY <1>1, ZenonT(40) DEF Grown
    <2>3. QED
      BY <1>1, <2>1, <2>2, MappedKept
  <1>17. Work'
    BY <1>0, <1>1, <1>2, <1>12, <1>16 DEF Work
  <1>18. Counted'
    BY <1>0, <1>1, <1>2, <1>12, <1>16 DEF Counted
  <1>19. Lines'
    <2>1. \A l \in mtemp : l[1] \in DOMAIN tasks /\ status'[l[1]] # "idle"
      BY <1>0, <1>9 DEF Lines
    <2>2. \A v \in Worker : pc'[v] = "emit" => pc[v] = "emit"
      BY <1>10
    <2>3. QED
      BY <1>0, <1>1, <1>16, <2>1, <2>2 DEF Lines
  <1>20. \A q \in PartsOf(Mapped) : rout[q] # <<>> \/ q = r =>
             \E u \in DOMAIN tasks : tasks[u] = ReduceTask(Mapped, q) /\ status'[u] = "completed"
    <2>1. ASSUME NEW q \in PartsOf(Mapped), rout[q] # <<>>
          PROVE  \E u \in DOMAIN tasks : tasks[u] = ReduceTask(Mapped, q) /\ status'[u] = "completed"
      BY <1>0, <1>9, <2>1 DEF Reduced
    <2>2. tasks[t] = ReduceTask(Mapped, r) /\ status'[t] = "completed"
      BY <1>2, <1>9
    <2>3. QED
      BY <1>2, <2>1, <2>2
  <1>21. numReduceTasks = Cardinality(Unreduced) /\ IsFiniteSet(Unreduced) /\ r \in Unreduced
    <2>1. IsFiniteSet(Unreduced)
      BY <1>4 DEF Unreduced, FiniteFacts
    <2>2. QED
      BY <1>0, <1>2, <2>1 DEF Reduced, Unreduced
  <1>22. Reduced'
    <2>1. CASE /\ rtemp[r] # <<>> /\ rout' = [rout EXCEPT ![r] = rtemp[r]]
               /\ numReduceTasks' = numReduceTasks - 1
               /\ phase' = IF numReduceTasks' = 0 THEN "shutdown" ELSE phase
      <3>1. rout'[r] # <<>> /\ \A q \in Reducer : q # r => rout'[q] = rout[q]
        BY <1>0, <1>4, <2>1 DEF Types
      <3>2. Unreduced' = Unreduced \ {r}
        BY <1>4, <1>16, <3>1 DEF Unreduced
      <3>3. IsFiniteSet(Unreduced') /\ numReduceTasks' = Cardinality(Unreduced')
        BY <1>21, <2>1, <3>2 DEF FiniteFacts
      <3>4. phase' = "shutdown" => Unreduced' = {}
        BY <1>2, <2>1, <3>3 DEF FiniteFacts
      <3>5. \A q \in PartsOf(Mapped) : rout'[q] # <<>> => rout[q] # <<>> \/ q = r
        BY <1>4, <3>1
      <3>6. QED
        BY <1>1, <1>12, <1>16, <1>20, <3>3, <3>4, <3>5 DEF Reduced
    <2>2. CASE UNCHANGED <<rout, numReduceTasks, phase>>
      <3>1. Unreduced' = Unreduced
        BY <1>16, <2>2 DEF Unreduced
      <3>2. QED
        BY <1>1, <1>2, <1>16, <1>20, <1>21, <2>2, <3>1 DEF Reduced
    <2>3. QED
      BY <1>11, <2>1, <2>2
  <1>23. Settled'
    BY <1>1, <1>2 DEF Settled
  <1>24. QED
    BY <1>13, <1>14, <1>15, <1>17, <1>18, <1>19, <1>22, <1>23 DEF Inv

\* Every step keeps the invariant.
LEMMA InvStep == FiniteFacts /\ Inv /\ [Next]_vars => Inv'
  <1> SUFFICES ASSUME FiniteFacts, Inv, [Next]_vars PROVE Inv'
    OBVIOUS
  <1>1. CASE QuietNext
    BY <1>1, QuietStep
  <1>2. CASE \E w \in Worker : GetTask(w)
    BY <1>2, GetTaskStep
  <1>3. CASE \E w \in Worker : TaskDoneMap(w)
    BY <1>3, MapDoneStep
  <1>4. CASE \E w \in Worker : TaskDoneReduce(w)
    BY <1>4, ReduceDoneStep
  <1>5. CASE \E S \in SUBSET DOMAIN tasks : Done(S)
    BY <1>5, DoneStep
  <1>6. QED
    BY <1>1, <1>2, <1>3, <1>4, <1>5 DEF Next, Run, TaskDone, QuietNext

-----------------------------------------------------------------------------

(***************************************************************************)
(* The content of the output, as long as no reduce attempt times out: the  *)
(* one attempt at a part starts on an empty tempr-out-*, appends one line  *)
(* per key, and TaskDone renames the complete file.                        *)
(***************************************************************************)
KeysOf(r) == {k \in Key : Part[k] = r /\ \E i \in Input : k \in Emits[i]}

\* The map attempts whose lines L have the key k.
Makers(L, k) == {l[1] : l \in {m \in L : m[2] = k}}

\* The file has one line for each key of K, made from the lines L of the map attempts.
LinesFor(L, file, K) ==
    /\ file \in Seq(Key \X SUBSET Nat)
    /\ \A n \in DOMAIN file : file[n][1] \in K /\ file[n][2] = Makers(L, file[n][1])
    /\ \A k \in K : \E n \in DOMAIN file : file[n][1] = k
    /\ \A m, n \in DOMAIN file : file[m][1] = file[n][1] => m = n

\* Task t is the reduce task of part r.
ReducesPart(t, r) == t \in DOMAIN tasks /\ tasks[t] = ReduceTask(Mapped, r)

\* The lines of L for part r.
LinesOf(L, r) == {l \in L : Part[l[2]] = r}
KeysIn(L) == {l[2] : l \in L}

\* An attempt at part r that is about to read its files, or has read vals, has the keys
\* left to write and has written the file so far.
IsWriting(at, vals, left, file, L, r) ==
    /\ at = "read" => file = <<>>
    /\ at = "emit" => /\ vals = LinesOf(L, r) /\ left \subseteq KeysOf(r)
                      /\ LinesFor(L, file, KeysOf(r) \ left)

Writing(w, r) == IsWriting(pc[w], values[w], todo[w], rtemp[r], Mapped, r)

\* Nothing is written before the reduce phase.
NoFiles ==
    /\ DOMAIN values = Worker
    /\ phase = "map" => \A r \in Reducer : rtemp[r] = <<>>

\* A file that has its final name is complete.
OutFiles ==
    \A r \in Reducer : rout[r] # <<>> =>
        r \in PartsOf(Mapped) /\ LinesFor(Mapped, rout[r], KeysOf(r))

\* The file of a task that is idle is absent, the file of one that is completed is there.
TaskFiles ==
    \A t \in DOMAIN tasks, r \in PartsOf(Mapped) : ReducesPart(t, r) =>
        /\ status[t] = "idle" => rtemp[r] = <<>>
        /\ status[t] = "completed" => rout[r] # <<>>

AttemptFiles ==
    \A w \in Worker, r \in PartsOf(Mapped) : ReducesPart(task[w], r) => Writing(w, r)

Written == NoFiles /\ OutFiles /\ TaskFiles /\ AttemptFiles

WrittenUnlessRetried == ~ReduceRetried => Written

\* Makers and lines in a step that leaves the map output alone; r's own lines.
LEMMA OutputKeys ==
    ASSUME Types, Counted, Work, phase # "map"
    PROVE  /\ \A r \in Reducer : KeysIn(LinesOf(Mapped, r)) = KeysOf(r)
           /\ \A r \in Reducer : r \in PartsOf(Mapped) <=> KeysOf(r) # {}
  <1>1. \A l \in Mapped : l[2] \in KeysOf(Part[l[2]])
    BY DEF Mapped, KeysOf
  <1>2. ASSUME NEW r \in Reducer, NEW k \in KeysOf(r)
        PROVE  \E l \in Mapped : Part[l[2]] = r /\ l[2] = k
    <2>1. PICK i \in Input : k \in Emits[i] /\ k \in Key /\ Part[k] = r
      BY DEF KeysOf
    <2>2. PICK t \in DOMAIN tasks : status[t] = "completed" /\ tasks[t] = MapTask(i)
      BY DEF Counted, Unmapped, WithStatus
    <2>3. <<t, k>> \in Mapped
      BY <2>1, <2>2 DEF Mapped
    <2>4. QED
      BY <2>1, <2>3
  <1>3. ASSUME NEW r \in Reducer
        PROVE  KeysIn(LinesOf(Mapped, r)) = KeysOf(r)
    BY <1>1, <1>2 DEF LinesOf, KeysIn
  <1>4. ASSUME NEW r \in Reducer PROVE r \in PartsOf(Mapped) <=> KeysOf(r) # {}
    <2>1. r \in PartsOf(Mapped) <=> \E l \in Mapped : Part[l[2]] = r
      <3>1. \A l \in Mapped : <<l[1], Part[l[2]]>> \in NamesOf(Mapped)
        BY DEF NamesOf
      <3>2. \A f \in NamesOf(Mapped) : \E l \in Mapped : f[2] = Part[l[2]]
        BY SMTT(60) DEF NamesOf
      <3>3. ASSUME NEW l \in Mapped, Part[l[2]] = r PROVE r \in PartsOf(Mapped)
        <4>1. <<l[1], r>> \in NamesOf(Mapped)
          BY <3>1, <3>3
        <4>2. PICK f \in NamesOf(Mapped) : f[2] = r
          BY <4>1
        <4>3. QED
          BY <4>2 DEF PartsOf
      <3>4. ASSUME r \in PartsOf(Mapped) PROVE \E l \in Mapped : Part[l[2]] = r
        <4>1. PICK f \in NamesOf(Mapped) : r = f[2]
          BY <3>4 DEF PartsOf
        <4>2. QED
          BY <3>2, <4>1
      <3>5. QED
        BY <3>3, <3>4
    <2>2. QED
      BY <1>1, <1>2, <2>1, SMTT(60)
  <1>5. QED
    BY <1>3, <1>4

\* Without a retry a part has one reduce task, and a worker at it one part.
LEMMA OneWriter ==
    ASSUME Inv, ~ReduceRetried,
           NEW r \in PartsOf(Mapped), NEW t, ReducesPart(t, r)
    PROVE  /\ t \in DOMAIN tasks /\ tasks[t].taskType = "reduce" /\ status[t] # "timed_out"
           /\ \A u : ReducesPart(u, r) => u = t
           /\ \A q \in PartsOf(Mapped) : ReducesPart(t, q) => q = r
           /\ r \in Reducer /\ phase # "map"
  <1>0. Types /\ OneLive /\ Work /\ Mapped \in SUBSET (Nat \X Key)
    BY MappedType DEF Inv
  <1>1. t \in DOMAIN tasks /\ tasks[t] = ReduceTask(Mapped, r) /\ tasks[t].taskType = "reduce"
    BY <1>0, ReduceTaskPart DEF ReducesPart
  <1>2. \A u \in DOMAIN tasks : tasks[u] = tasks[t] => status[u] # "timed_out"
    BY <1>1 DEF ReduceRetried, WithStatus
  <1>3. \A u : ReducesPart(u, r) => u = t
    BY <1>0, <1>1, <1>2 DEF OneLive, ReducesPart
  <1>4. \A q \in PartsOf(Mapped) : ReducesPart(t, q) => q = r
    <2>1. \A q \in PartsOf(Mapped) : ReduceTask(Mapped, r) = ReduceTask(Mapped, q) => r = q
      BY <1>0, ReduceTaskPart
    <2>2. QED
      BY <1>1, <2>1 DEF ReducesPart
  <1>5. r \in Reducer /\ phase # "map"
    BY <1>0, <1>1, PartsType DEF Work
  <1>6. QED
    BY <1>1, <1>2, <1>3, <1>4, <1>5

\* A file that gets the line of a new key.
LEMMA LineAdded ==
    ASSUME NEW L \in SUBSET (Nat \X Key), NEW K \in SUBSET Key, NEW file, LinesFor(L, file, K),
           NEW k \in Key, k \notin K
    PROVE  LinesFor(L, Append(file, <<k, Makers(L, k)>>), K \cup {k})
  <1> DEFINE line == <<k, Makers(L, k)>>
             more == Append(file, line)
  <1>1. line \in Key \X SUBSET Nat /\ line[1] = k /\ line[2] = Makers(L, k)
    BY DEF Makers
  <1>2. file \in Seq(Key \X SUBSET Nat)
    BY DEF LinesFor
  <1> HIDE DEF line
  <1>3. /\ more \in Seq(Key \X SUBSET Nat) /\ DOMAIN file = 1 .. Len(file) /\ Len(file) \in Nat
        /\ DOMAIN more = 1 .. Len(file) + 1 /\ more[Len(file) + 1] = line
        /\ \A n \in DOMAIN file : more[n] = file[n]
    BY <1>1, <1>2, SMTT(60) DEF LinesOf, KeysIn
  <1> HIDE DEF more
  <1>4. \A n \in DOMAIN more : n \in DOMAIN file \/ n = Len(file) + 1
    BY <1>3, SMTT(60)
  <1>5. \A n \in DOMAIN more : more[n][1] \in K \cup {k} /\ more[n][2] = Makers(L, more[n][1])
    BY <1>1, <1>3, <1>4 DEF LinesFor
  <1>6. \A x \in K \cup {k} : \E n \in DOMAIN more : more[n][1] = x
    <2>1. \A n \in DOMAIN file : n \in DOMAIN more
      BY <1>3, SMTT(60)
    <2>2. Len(file) + 1 \in DOMAIN more
      BY <1>3, SMTT(60)
    <2>3. QED
      BY <1>1, <1>3, <2>1, <2>2, SMTT(60) DEF LinesFor
  <1>7. \A m, n \in DOMAIN more : more[m][1] = more[n][1] => m = n
    BY <1>1, <1>3, <1>4, SMTT(60) DEF LinesFor
  <1>8. LinesFor(L, more, K \cup {k})
    BY <1>3, <1>5, <1>6, <1>7 DEF LinesFor
  <1>9. QED
    BY <1>8 DEF more, line

\* A step that leaves the table, the files and the reduce attempts as they are.
LEMMA WrittenKept ==
    ASSUME Types, Held, Written, UNCHANGED <<tasks, status, phase, rtemp, rout, task, values>>,
           \A w \in Worker : pc'[w] \in {"read", "emit"} => pc'[w] = pc[w],
           \A w \in Worker : pc'[w] = "emit" =>
               todo'[w] = todo[w] \/ tasks[task[w]].taskType = "map"
    PROVE  Written'
  <1>w. NoFiles /\ OutFiles /\ TaskFiles /\ AttemptFiles
    BY DEF Written
  <1>1. Mapped' = Mapped
    BY DEF Mapped
  <1>2. ASSUME NEW w \in Worker, NEW r \in PartsOf(Mapped), ReducesPart(task[w], r),
               pc'[w] \in {"read", "emit"}
        PROVE  Writing(w, r)'
    <2>1. tasks[task[w]].taskType = "reduce"
      BY <1>2, MappedType, ReduceTaskPart, SMTT(60) DEF ReducesPart
    <2>2. pc'[w] = pc[w] /\ (pc'[w] = "emit" => todo'[w] = todo[w])
      BY <1>2, <2>1
    <2>3. Writing(w, r)
      BY <1>2, <1>w DEF AttemptFiles
    <2>4. CASE pc[w] = "read"
      BY <2>2, <2>3, <2>4 DEF Writing, IsWriting
    <2>5. CASE pc[w] = "emit"
      BY <1>1, <2>2, <2>3, <2>5 DEF Writing
    <2>6. QED
      BY <1>2, <2>2, <2>4, <2>5
  <1>3. \A w \in Worker, r \in PartsOf(Mapped) : ReducesPart(task[w], r) => Writing(w, r)'
    <2>1. ASSUME NEW w \in Worker, NEW r, pc'[w] \notin {"read", "emit"} PROVE Writing(w, r)'
      BY <2>1 DEF Writing, IsWriting
    <2>2. QED
      BY <1>2, <2>1
  <1>4. \A t, r : ReducesPart(t, r)' <=> ReducesPart(t, r)
    BY <1>1 DEF ReducesPart
  <1>5. NoFiles' /\ OutFiles'
    BY <1>1, <1>w DEF NoFiles, OutFiles
  <1>6. TaskFiles'
    BY <1>1, <1>4, <1>w DEF TaskFiles
  <1>7. AttemptFiles'
    BY <1>1, <1>3, <1>4 DEF AttemptFiles
  <1>8. QED
    BY <1>5, <1>6, <1>7 DEF Written

\* GetTask gives out a reduce task whose temporary file is absent.
LEMMA GetTaskWrites ==
    ASSUME Inv, Written, NEW w \in Worker, GetTask(w)
    PROVE  Written'
  <1>0. Types /\ Held /\ Work /\ Mapped \in SUBSET (Nat \X Key)
    BY MappedType DEF Inv
  <1>w. NoFiles /\ OutFiles /\ TaskFiles /\ AttemptFiles
    BY DEF Written
  <1>1. PICK t \in DOMAIN tasks :
              /\ IdleTask(t)
              /\ status' = [status EXCEPT ![t] = "in_progress"]
              /\ task' = [task EXCEPT ![w] = t]
              /\ \/ /\ tasks[t].taskType = "map"
                    /\ pc' = [pc EXCEPT ![w] = "emit"]
                    /\ todo' = [todo EXCEPT ![w] = Emits[InputOf(t)]]
                 \/ /\ tasks[t].taskType = "reduce"
                    /\ pc' = [pc EXCEPT ![w] = "read"]
                    /\ UNCHANGED todo
    BY DEF GetTask
  <1>2. UNCHANGED <<tasks, phase, rtemp, rout, values>>
    BY DEF GetTask, fileVars
  <1>3. status[t] = "idle"
    BY <1>1 DEF IdleTask, WithStatus
  <1>4. DOMAIN status = DOMAIN tasks
    BY <1>0, Table
  <1>5. /\ status'[t] = "in_progress"
        /\ \A u \in DOMAIN tasks : u # t => status'[u] = status[u]
    BY <1>1, <1>4
  <1>6. /\ task'[w] = t /\ pc'[w] = IF tasks[t].taskType = "map" THEN "emit" ELSE "read"
        /\ \A v \in Worker : v # w => task'[v] = task[v] /\ pc'[v] = pc[v] /\ todo'[v] = todo[v]
    BY <1>0, <1>1 DEF Types
  <1>7. Mapped' = Mapped
    <2>1. \A u \in DOMAIN tasks : status'[u] = "completed" <=> status[u] = "completed"
      BY <1>3, <1>5
    <2>2. QED
      BY <1>2, <2>1, MappedKept DEF Grown
  <1>8. \A u, r : ReducesPart(u, r)' <=> ReducesPart(u, r)
    BY <1>2, <1>7 DEF ReducesPart
  <1>9. ASSUME NEW r \in PartsOf(Mapped), ReducesPart(t, r) PROVE Writing(w, r)'
    <2>1. tasks[t].taskType = "reduce"
      BY <1>0, <1>9, ReduceTaskPart DEF ReducesPart
    <2>2. rtemp[r] = <<>>
      BY <1>3, <1>9, <1>w DEF TaskFiles
    <2>3. QED
      BY <1>2, <1>6, <2>1, <2>2 DEF Writing, IsWriting
  <1>10. ASSUME NEW v \in Worker, v # w, NEW r \in PartsOf(Mapped), ReducesPart(task[v], r)
         PROVE  Writing(v, r)'
    <2>1. Writing(v, r)
      BY <1>10, <1>w DEF AttemptFiles
    <2>2. QED
      BY <1>2, <1>6, <1>7, <1>10, <2>1 DEF Writing
  <1>11. \A v \in Worker, r \in PartsOf(Mapped) : ReducesPart(task'[v], r) => Writing(v, r)'
    BY <1>6, <1>9, <1>10
  <1>12. \A u \in DOMAIN tasks, r \in PartsOf(Mapped) : ReducesPart(u, r) =>
             /\ status'[u] = "idle" => rtemp[r] = <<>>
             /\ status'[u] = "completed" => rout[r] # <<>>
    BY <1>5, <1>w DEF TaskFiles
  <1>13. \A v \in Worker : \A r : ReducesPart(task[v], r)' <=> ReducesPart(task'[v], r)
    BY <1>2, <1>7 DEF ReducesPart
  <1>14. NoFiles' /\ OutFiles'
    BY <1>2, <1>7, <1>w DEF NoFiles, OutFiles
  <1>15. TaskFiles'
    BY <1>2, <1>7, <1>8, <1>12 DEF TaskFiles
  <1>16. AttemptFiles'
    BY <1>7, <1>11, <1>13 DEF AttemptFiles
  <1>17. QED
    BY <1>14, <1>15, <1>16 DEF Written

\* The attempt of a worker that reads or writes the files of part r.
LEMMA ReduceAttempt ==
    ASSUME Inv, ~ReduceRetried, NEW w \in Worker, pc[w] \in {"read", "emit"},
           tasks[task[w]].taskType = "reduce"
    PROVE  /\ task[w] \in DOMAIN tasks /\ task[w] # 0 /\ status[task[w]] = "in_progress"
           /\ main = "polling" /\ mout = Mapped /\ phase # "map"
           /\ \E r \in PartsOf(Mapped) : ReducesPart(task[w], r)
  <1>0. Types /\ Held /\ Work /\ Lines /\ Settled
    BY DEF Inv
  <1>1. /\ task[w] \in DOMAIN tasks /\ task[w] # 0
        /\ status[task[w]] # "idle" /\ status[task[w]] # "completed"
    BY <1>0 DEF Held, Working
  <1>2. status[task[w]] # "timed_out"
    BY <1>1 DEF ReduceRetried, WithStatus
  <1>3. status[task[w]] = "in_progress"
    <2>1. status[task[w]] \in Status
      BY <1>0, <1>1, Table
    <2>2. QED
      BY <1>1, <1>2, <2>1 DEF Status
  <1>4. main = "polling" /\ mout = Mapped
    BY <1>0, <1>1, <1>3 DEF Settled, Lines
  <1>5. phase # "map" /\ \E r \in PartsOf(Mapped) : ReducesPart(task[w], r)
    BY <1>0, <1>1 DEF Work, ReducesPart
  <1>6. QED
    BY <1>1, <1>3, <1>4, <1>5

\* A reduce attempt reads all the lines of its part.
LEMMA ReadFilesWrites ==
    ASSUME Inv, ~ReduceRetried, Written, NEW w \in Worker, ReadFiles(w)
    PROVE  Written'
  <1>0. Types /\ Held /\ Work /\ Counted /\ Mapped \in SUBSET (Nat \X Key)
    BY MappedType DEF Inv
  <1>w. NoFiles /\ OutFiles /\ TaskFiles /\ AttemptFiles
    BY DEF Written
  <1> DEFINE files == tasks[task[w]].files
             lines == {l \in mout : <<l[1], Part[l[2]]>> \in files}
  <1>1. /\ pc[w] = "read" /\ UNCHANGED <<tasks, status, phase, rtemp, rout, task>>
        /\ \/ /\ values' = [values EXCEPT ![w] = lines]
              /\ todo' = [todo EXCEPT ![w] = KeysIn(lines)]
              /\ pc' = [pc EXCEPT ![w] = "emit"]
           \/ pc' = [pc EXCEPT ![w] = "dead"] /\ values' = values /\ todo' = todo
    BY DEF ReadFiles, KeysIn, coordVars, fileVars
  <1>2. Mapped' = Mapped
    BY <1>1 DEF Mapped
  <1>3. tasks[task[w]].taskType = "reduce"
    BY <1>0, <1>1 DEF Held
  <1>4. mout = Mapped /\ phase # "map"
    BY <1>1, <1>3, ReduceAttempt
  <1>5. ASSUME NEW r \in PartsOf(Mapped), ReducesPart(task[w], r)
        PROVE  /\ lines = LinesOf(Mapped, r) /\ KeysIn(lines) = KeysOf(r)
               /\ rtemp[r] = <<>>
    <2>1. files = {f \in NamesOf(Mapped) : f[2] = r}
      BY <1>5, SMTT(60) DEF ReducesPart, ReduceTask
    <2>2. \A l \in Mapped : <<l[1], Part[l[2]]>> \in files <=> Part[l[2]] = r
      BY <2>1 DEF NamesOf
    <2>3. lines = LinesOf(Mapped, r)
      BY <1>4, <2>2 DEF LinesOf
    <2> HIDE DEF lines
    <2>4. r \in Reducer
      BY <1>0, PartsType
    <2>5. KeysIn(LinesOf(Mapped, r)) = KeysOf(r)
      BY <1>0, <1>4, <2>4, OutputKeys
    <2>6. rtemp[r] = <<>>
      <3>1. Writing(w, r)
        BY <1>5, <1>w DEF AttemptFiles
      <3>2. QED
        BY <1>1, <3>1 DEF Writing, IsWriting
    <2>7. QED
      BY <2>3, <2>5, <2>6
  <1> HIDE DEF lines
  <1>6. \A L, r : LinesFor(L, <<>>, KeysOf(r) \ KeysOf(r))
    BY SMTT(60) DEF LinesFor
  <1>7. ASSUME NEW r \in PartsOf(Mapped), ReducesPart(task[w], r) PROVE Writing(w, r)'
    <2>1. CASE pc'[w] = "emit"
      <3>1. values'[w] = LinesOf(Mapped, r) /\ todo'[w] = KeysOf(r)
        BY <1>0, <1>1, <1>5, <1>7, <1>w, <2>1 DEF Types, NoFiles
      <3>2. QED
        BY <1>1, <1>2, <1>5, <1>6, <1>7, <2>1, <3>1 DEF Writing, IsWriting
    <2>2. CASE pc'[w] = "dead"
      BY <2>2 DEF Writing, IsWriting
    <2>3. QED
      BY <1>0, <1>1, <2>1, <2>2 DEF Types
  <1>8. ASSUME NEW v \in Worker, v # w, NEW r \in PartsOf(Mapped), ReducesPart(task[v], r)
        PROVE  Writing(v, r)'
    <2>1. Writing(v, r)
      BY <1>8, <1>w DEF AttemptFiles
    <2>2. pc'[v] = pc[v] /\ values'[v] = values[v] /\ todo'[v] = todo[v]
      BY <1>0, <1>1, <1>8, <1>w DEF Types, NoFiles
    <2>3. QED
      BY <1>1, <1>2, <2>1, <2>2 DEF Writing
  <1>9. \A v \in Worker, r \in PartsOf(Mapped) : ReducesPart(task[v], r) => Writing(v, r)'
    BY <1>7, <1>8
  <1>10. \A t, r : ReducesPart(t, r)' <=> ReducesPart(t, r)
    BY <1>1, <1>2 DEF ReducesPart
  <1>11. NoFiles' /\ OutFiles'
    BY <1>1, <1>2, <1>w DEF NoFiles, OutFiles
  <1>12. TaskFiles'
    BY <1>1, <1>2, <1>10, <1>w DEF TaskFiles
  <1>13. AttemptFiles'
    BY <1>1, <1>2, <1>9, <1>10 DEF AttemptFiles
  <1>14. QED
    BY <1>11, <1>12, <1>13 DEF Written

\* A reduce attempt writes the line of one more key.
LEMMA EmitReduceWrites ==
    ASSUME Inv, ~ReduceRetried, Written, NEW w \in Worker, NEW k \in Key, EmitReduce(w, k)
    PROVE  Written'
  <1>0. Types /\ Held /\ Work /\ Counted /\ Mapped \in SUBSET (Nat \X Key)
    BY MappedType DEF Inv
  <1>w. NoFiles /\ OutFiles /\ TaskFiles /\ AttemptFiles
    BY DEF Written
  <1> DEFINE makers == {l[1] : l \in {m \in values[w] : m[2] = k}}
  <1>1. /\ pc[w] = "emit" /\ tasks[task[w]].taskType = "reduce" /\ k \in todo[w]
        /\ UNCHANGED <<tasks, status, phase, rout, task, values, pc>>
    BY DEF EmitReduce, coordVars
  <1>u. /\ rtemp' = [rtemp EXCEPT ![Part[k]] = Append(@, <<k, makers>>)]
        /\ todo' = [todo EXCEPT ![w] = @ \ {k}]
    BY DEF EmitReduce
  <1>2. Mapped' = Mapped
    BY <1>1 DEF Mapped
  <1>3. PICK r \in PartsOf(Mapped) : ReducesPart(task[w], r)
    BY <1>1, ReduceAttempt
  <1>4. /\ task[w] \in DOMAIN tasks /\ task[w] # 0 /\ status[task[w]] = "in_progress"
        /\ phase # "map" /\ r \in Reducer
    BY <1>0, <1>1, ReduceAttempt, PartsType
  <1>5. /\ values[w] = LinesOf(Mapped, r) /\ todo[w] \subseteq KeysOf(r)
        /\ LinesFor(Mapped, rtemp[r], KeysOf(r) \ todo[w])
    <2>1. Writing(w, r)
      BY <1>3, <1>w DEF AttemptFiles
    <2>2. QED
      BY <1>1, <2>1 DEF Writing, IsWriting
  <1>6. Part[k] = r /\ KeysOf(r) \subseteq Key
    BY <1>1, <1>5 DEF KeysOf
  <1>7. makers = Makers(Mapped, k)
    <2>1. {m \in values[w] : m[2] = k} = {m \in Mapped : m[2] = k}
      BY <1>5, <1>6 DEF LinesOf
    <2>2. QED
      BY <2>1 DEF Makers
  <1> HIDE DEF makers
  <1>8. /\ rtemp'[r] = Append(rtemp[r], <<k, Makers(Mapped, k)>>)
        /\ \A q \in Reducer : q # r => rtemp'[q] = rtemp[q]
        /\ todo'[w] = todo[w] \ {k} /\ \A v \in Worker : v # w => todo'[v] = todo[v]
    BY <1>0, <1>4, <1>6, <1>7, <1>u DEF Types
  <1>9. LinesFor(Mapped, rtemp'[r], KeysOf(r) \ todo'[w]) /\ todo'[w] \subseteq KeysOf(r)
    <2>1. k \notin KeysOf(r) \ todo[w] /\ KeysOf(r) \ todo[w] \in SUBSET Key
      BY <1>1, <1>6
    <2>2. LinesFor(Mapped, rtemp'[r], (KeysOf(r) \ todo[w]) \cup {k})
      BY <1>0, <1>5, <1>8, <2>1, LineAdded, SMTT(60)
    <2>3. (KeysOf(r) \ todo[w]) \cup {k} = KeysOf(r) \ todo'[w] /\ todo'[w] \subseteq KeysOf(r)
      BY <1>1, <1>5, <1>8
    <2>4. QED
      BY <2>2, <2>3
  <1>10. /\ \A u : ReducesPart(u, r) => u = task[w]
         /\ \A q \in PartsOf(Mapped) : ReducesPart(task[w], q) => q = r
    BY <1>3, OneWriter
  <1>11. PartsOf(Mapped) \subseteq Reducer
    BY <1>0, PartsType
  <1>12. ASSUME NEW v \in Worker, NEW q \in PartsOf(Mapped), ReducesPart(task[v], q)
         PROVE  Writing(v, q)'
    <2>1. CASE q = r
      <3>1. v = w
        BY <1>0, <1>4, <1>10, <1>12, <2>1 DEF Held
      <3>2. QED
        BY <1>1, <1>2, <1>5, <1>9, <2>1, <3>1 DEF Writing, IsWriting
    <2>2. CASE q # r
      <3>1. v # w
        BY <1>10, <1>12, <2>2
      <3>2. Writing(v, q)
        BY <1>12, <1>w DEF AttemptFiles
      <3>3. rtemp'[q] = rtemp[q] /\ todo'[v] = todo[v]
        BY <1>8, <1>11, <2>2, <3>1
      <3>4. QED
        BY <1>1, <1>2, <3>2, <3>3 DEF Writing
    <2>3. QED
      BY <2>1, <2>2
  <1>13. ASSUME NEW u \in DOMAIN tasks, NEW q \in PartsOf(Mapped), ReducesPart(u, q)
         PROVE  /\ status[u] = "idle" => rtemp'[q] = <<>>
                /\ status[u] = "completed" => rout[q] # <<>>
    <2>1. CASE q = r
      BY <1>4, <1>10, <1>13, <2>1
    <2>2. CASE q # r
      BY <1>8, <1>11, <1>13, <1>w, <2>2 DEF TaskFiles
    <2>3. QED
      BY <2>1, <2>2
  <1>14. \A u, q : ReducesPart(u, q)' <=> ReducesPart(u, q)
    BY <1>1, <1>2 DEF ReducesPart
  <1>15. NoFiles' /\ OutFiles'
    BY <1>1, <1>2, <1>4, <1>w DEF NoFiles, OutFiles
  <1>16. TaskFiles'
    BY <1>1, <1>2, <1>13, <1>14 DEF TaskFiles
  <1>17. AttemptFiles'
    BY <1>1, <1>2, <1>12, <1>14 DEF AttemptFiles
  <1>18. QED
    BY <1>15, <1>16, <1>17 DEF Written

\* TaskDone of a map attempt comes before any reduce file.
LEMMA MapDoneWrites ==
    ASSUME FiniteFacts, Inv, Inv', Written, NEW w \in Worker, TaskDoneMap(w)
    PROVE  Written'
  <1>0. Types /\ Held /\ Work /\ Reduced /\ Types'
    BY DEF Inv
  <1>w. NoFiles /\ OutFiles /\ TaskFiles /\ AttemptFiles
    BY DEF Written
  <1>1. /\ task[w] \in DOMAIN tasks /\ phase = "map"
    <2>1. TakesResult(w, "map")
      BY DEF TaskDoneMap
    <2>2. QED
      BY <2>1, MapResult
  <1>2. UNCHANGED <<rtemp, rout, task, values>>
    BY DEF TaskDoneMap
  <1>3. /\ \A r \in Reducer : rtemp'[r] = <<>> /\ rout'[r] = <<>>
        /\ DOMAIN values' = Worker
    BY <1>0, <1>1, <1>2, <1>w DEF NoFiles, Reduced
  <1>4. \A t \in DOMAIN tasks : tasks[t].taskType = "map"
    <2>1. \A t \in DOMAIN tasks : tasks[t] \in Task
      BY <1>0, Table
    <2>2. \A t \in DOMAIN tasks : tasks[t].taskType \in {"map", "reduce"}
      BY <2>1 DEF Task
    <2>3. QED
      BY <1>0, <1>1, <2>2 DEF Work
  <1>5. /\ \A t \in DOMAIN tasks : tasks'[t] = tasks[t]
        /\ \A t \in DOMAIN tasks' : t \in DOMAIN tasks \/ status'[t] = "idle"
    <2>1. CASE ~AllMapped(numMapTasks')
      BY <2>1 DEF TaskDoneMap
    <2>2. CASE AllMapped(numMapTasks')
      <3>1. PICK new \in CreateReduceTasks(mout') :
                /\ tasks' = tasks \o new
                /\ status' = [status EXCEPT ![task[w]] = "completed"] \o [n \in DOMAIN new |-> "idle"]
        BY <2>2 DEF TaskDoneMap
      <3>2. mout' \in SUBSET (Nat \X Key)
        BY <1>0 DEF Types
      <3>3. PartsOf(mout') \subseteq Reducer /\ Cardinality(PartsOf(mout')) \in Nat
        <4>1. PartsOf(mout') \subseteq Reducer
          BY <3>2, PartsType
        <4>2. QED
          BY <4>1 DEF FiniteFacts
      <3>4. Created(mout', task[w])
        BY <1>0, <1>1, <3>1, <3>2, <3>3, CreateGrows
      <3>5. QED
        BY <3>4 DEF Created, Grown
    <2>3. QED
      BY <2>1, <2>2
  <1>6. Mapped' \in SUBSET (Nat \X Key)
    BY <1>0, SMTT(60) DEF Types, Mapped
  <1>7. ASSUME NEW t \in DOMAIN tasks, NEW r \in PartsOf(Mapped') PROVE ~ReducesPart(t, r)'
    BY <1>4, <1>5, <1>6, ReduceTaskPart, SMTT(60) DEF ReducesPart
  <1>8. \A v \in Worker, r \in PartsOf(Mapped') : ~ReducesPart(task[v], r)'
    <2>1. \A v \in Worker : task[v] \in DOMAIN tasks \/ task[v] = 0
      BY <1>0 DEF Held
    <2>2. 0 \notin DOMAIN tasks'
      BY <1>0, SMTT(60) DEF Types
    <2>3. QED
      BY <1>2, <1>7, <2>1, <2>2 DEF ReducesPart
  <1>9. PartsOf(Mapped') \subseteq Reducer
    BY <1>6, PartsType
  <1>10. NoFiles' /\ OutFiles'
    BY <1>3 DEF NoFiles, OutFiles
  <1>11. TaskFiles'
    BY <1>3, <1>5, <1>7, <1>9 DEF TaskFiles
  <1>12. AttemptFiles'
    BY <1>8 DEF AttemptFiles
  <1>13. QED
    BY <1>10, <1>11, <1>12 DEF Written

\* TaskDone of a reduce attempt renames a complete file.
LEMMA ReduceDoneWrites ==
    ASSUME Inv, ~ReduceRetried, Written, NEW w \in Worker, TaskDoneReduce(w)
    PROVE  Written'
  <1>0. Types /\ Held /\ Work /\ Counted /\ Mapped \in SUBSET (Nat \X Key)
    BY MappedType DEF Inv
  <1>w. NoFiles /\ OutFiles /\ TaskFiles /\ AttemptFiles
    BY DEF Written
  <1>1. TakesResult(w, "reduce") /\ status' = [status EXCEPT ![task[w]] = "completed"]
    BY DEF TaskDoneReduce
  <1>2. PICK r \in PartsOf(Mapped) :
              /\ task[w] \in DOMAIN tasks /\ status[task[w]] = "in_progress"
              /\ tasks[task[w]] = ReduceTask(Mapped, r) /\ ReduceId(task[w]) = r
              /\ phase = "reduce"
    BY <1>1, ReduceResult
  <1>3. ReducesPart(task[w], r) /\ pc[w] = "emit" /\ todo[w] = {} /\ tasks[task[w]].taskType = "reduce"
    BY <1>1, <1>2 DEF ReducesPart, TakesResult
  <1>4. r \in Reducer /\ PartsOf(Mapped) \subseteq Reducer
    BY <1>0, PartsType
  <1>5. LinesFor(Mapped, rtemp[r], KeysOf(r)) /\ rtemp[r] # <<>>
    <2>1. Writing(w, r)
      BY <1>3, <1>w DEF AttemptFiles
    <2>2. KeysOf(r) \ todo[w] = KeysOf(r)
      BY <1>3
    <2>3. LinesFor(Mapped, rtemp[r], KeysOf(r))
      BY <1>3, <2>1, <2>2 DEF Writing, IsWriting
    <2>4. KeysOf(r) # {}
      BY <1>0, <1>2, <1>4, OutputKeys
    <2>5. rtemp[r] # <<>>
      BY <2>3, <2>4, SMTT(60) DEF LinesFor
    <2>6. QED
      BY <2>3, <2>5
  <1>6. /\ rout' = [rout EXCEPT ![r] = rtemp[r]] /\ rtemp' = [rtemp EXCEPT ![r] = <<>>]
        /\ pc' = [pc EXCEPT ![w] = "free"]
    BY <1>2, <1>5 DEF TaskDoneReduce
  <1>u. phase' \in {"reduce", "shutdown"} /\ UNCHANGED <<tasks, task, values, todo>>
    BY <1>2 DEF TaskDoneReduce
  <1>7. /\ rout'[r] = rtemp[r] /\ \A q \in Reducer : q # r => rout'[q] = rout[q] /\ rtemp'[q] = rtemp[q]
        /\ pc'[w] = "free" /\ \A v \in Worker : v # w => pc'[v] = pc[v]
    BY <1>0, <1>4, <1>6 DEF Types
  <1>8. status'[task[w]] = "completed" /\ \A u \in DOMAIN tasks : u # task[w] => status'[u] = status[u]
    <2>1. DOMAIN status = DOMAIN tasks
      BY <1>0, Table
    <2>2. QED
      BY <1>1, <1>2, <2>1
  <1>9. Mapped' = Mapped
    <2>1. \A u \in DOMAIN tasks : tasks[u].taskType = "map" => status'[u] = status[u]
      BY <1>3, <1>8
    <2>2. QED
      BY <1>u, <2>1, MappedKept DEF Grown
  <1>10. /\ \A u : ReducesPart(u, r) => u = task[w]
         /\ \A q \in PartsOf(Mapped) : ReducesPart(task[w], q) => q = r
    BY <1>3, OneWriter
  <1>11. ASSUME NEW v \in Worker, NEW q \in PartsOf(Mapped), ReducesPart(task[v], q)
         PROVE  Writing(v, q)'
    <2>1. CASE v = w
      BY <1>7, <2>1 DEF Writing, IsWriting
    <2>2. CASE v # w
      <3>1. q # r
        <4>1. task[w] # 0
          BY <1>0, <1>2, Table
        <4>2. QED
          BY <1>0, <1>10, <1>11, <2>2, <4>1 DEF Held
      <3>2. Writing(v, q)
        BY <1>11, <1>w DEF AttemptFiles
      <3>3. rtemp'[q] = rtemp[q] /\ pc'[v] = pc[v]
        BY <1>4, <1>7, <2>2, <3>1
      <3>4. QED
        BY <1>u, <1>9, <3>2, <3>3 DEF Writing
    <2>3. QED
      BY <2>1, <2>2
  <1>12. ASSUME NEW u \in DOMAIN tasks, NEW q \in PartsOf(Mapped), ReducesPart(u, q)
         PROVE  /\ status'[u] = "idle" => rtemp'[q] = <<>>
                /\ status'[u] = "completed" => rout'[q] # <<>>
    <2>1. CASE q = r
      BY <1>5, <1>7, <1>8, <1>10, <1>12, <2>1
    <2>2. CASE q # r
      <3>1. u # task[w]
        BY <1>10, <1>12, <2>2
      <3>2. QED
        BY <1>4, <1>7, <1>8, <1>12, <1>w, <2>2, <3>1, SMTT(60) DEF TaskFiles
    <2>3. QED
      BY <2>1, <2>2
  <1>13. ASSUME NEW q \in Reducer, rout'[q] # <<>>
         PROVE  q \in PartsOf(Mapped) /\ LinesFor(Mapped, rout'[q], KeysOf(q))
    <2>1. CASE q = r
      BY <1>5, <1>7, <2>1
    <2>2. CASE q # r
      BY <1>7, <1>13, <1>w, <2>2 DEF OutFiles
    <2>3. QED
      BY <2>1, <2>2
  <1>14. \A u, q : ReducesPart(u, q)' <=> ReducesPart(u, q)
    BY <1>u, <1>9 DEF ReducesPart
  <1>15. NoFiles'
    BY <1>u, <1>w DEF NoFiles
  <1>16. OutFiles'
    BY <1>9, <1>13 DEF OutFiles
  <1>17. TaskFiles'
    BY <1>u, <1>9, <1>12, <1>14 DEF TaskFiles
  <1>18. AttemptFiles'
    BY <1>u, <1>9, <1>11, <1>14 DEF AttemptFiles
  <1>19. QED
    BY <1>15, <1>16, <1>17, <1>18 DEF Written

\* Done that times out no reduce attempt gives out map tasks only.
LEMMA DoneWrites ==
    ASSUME FiniteFacts, Inv, Written, ~ReduceRetried', NEW S \in SUBSET DOMAIN tasks, Done(S)
    PROVE  Written'
  <1>0. Types /\ Held /\ Work /\ Mapped \in SUBSET (Nat \X Key)
    BY MappedType DEF Inv
  <1>w. NoFiles /\ OutFiles /\ TaskFiles /\ AttemptFiles
    BY DEF Written
  <1>1. (\A t \in S : status[t] = "in_progress") /\ TimeoutTasks(S)
    BY DEF Done, WithStatus
  <1>2. UNCHANGED <<phase, rtemp, rout, pc, task, values, todo>>
    BY DEF Done, workerVars
  <1>3. Cardinality(S) \in Nat
    <2>1. DOMAIN tasks = 1 .. Len(tasks) /\ Len(tasks) \in Nat
      BY <1>0, Table
    <2>2. IsFiniteSet(DOMAIN tasks)
      BY <2>1 DEF FiniteFacts
    <2>3. QED
      BY <2>2 DEF FiniteFacts
  <1>4. /\ DOMAIN tasks \subseteq DOMAIN tasks'
        /\ \A t \in DOMAIN tasks :
              tasks'[t] = tasks[t] /\ status'[t] = IF t \in S THEN "timed_out" ELSE status[t]
        /\ \E src \in [Grown -> S] :
              \A t \in Grown : tasks'[t] = tasks[src[t]] /\ status'[t] = "idle"
    BY <1>0, <1>1, <1>3, DoneGrows, SMTT(60)
  <1>5. \A t \in S : tasks[t].taskType # "reduce"
    BY <1>4 DEF ReduceRetried, WithStatus
  <1>6. \A t \in Grown : tasks'[t].taskType # "reduce" /\ status'[t] = "idle"
    BY <1>4, <1>5, SMTT(60)
  <1>7. Mapped' = Mapped
    <2>1. \A t \in DOMAIN tasks : status'[t] = "completed" <=> status[t] = "completed"
      BY <1>1, <1>4
    <2>2. \A t \in Grown : status'[t] # "completed"
      BY <1>6
    <2>3. QED
      BY <1>4, <2>1, <2>2, MappedKept
  <1>8. \A r \in PartsOf(Mapped) : ReduceTask(Mapped, r).taskType = "reduce"
    BY <1>0, ReduceTaskPart
  <1>9. \A u : \A r \in PartsOf(Mapped) : ReducesPart(u, r)' <=> ReducesPart(u, r)
    <2>1. SUFFICES ASSUME NEW u, NEW r \in PartsOf(Mapped), u \in Grown
                   PROVE  tasks'[u] # ReduceTask(Mapped, r)
      BY <1>4, <1>7, SMTT(60) DEF ReducesPart, Grown
    <2>2. QED
      BY <1>6, <1>8, <2>1
  <1>10. \A v \in Worker : \A r : Writing(v, r)' <=> Writing(v, r)
    BY <1>2, <1>7 DEF Writing
  <1>11. ASSUME NEW u \in DOMAIN tasks, NEW r \in PartsOf(Mapped), ReducesPart(u, r)
         PROVE  status'[u] = status[u]
    <2>1. tasks[u].taskType = "reduce"
      BY <1>8, <1>11 DEF ReducesPart
    <2>2. QED
      BY <1>4, <1>5, <2>1
  <1>12. \A u \in DOMAIN tasks', r \in PartsOf(Mapped) : ReducesPart(u, r)' =>
             u \in DOMAIN tasks /\ ReducesPart(u, r) /\ status'[u] = status[u]
    BY <1>9, <1>11 DEF ReducesPart
  <1>13. \A v \in Worker, r \in PartsOf(Mapped) : ReducesPart(task[v], r)' => Writing(v, r)'
    <2>1. \A v \in Worker, r \in PartsOf(Mapped) : ReducesPart(task[v], r)' => ReducesPart(task[v], r)
      <3>1. SUFFICES ASSUME NEW v \in Worker, NEW r \in PartsOf(Mapped), ReducesPart(task[v], r)'
                     PROVE  ReducesPart(task[v], r)
        OBVIOUS
      <3>2. task'[v] = task[v]
        BY <1>2
      <3>3. task[v] \in DOMAIN tasks' /\ tasks'[task[v]] = ReduceTask(Mapped, r)
        BY <1>7, <3>1, <3>2 DEF ReducesPart
      <3>4. task[v] \notin Grown
        BY <1>6, <1>8, <3>3
      <3>5. QED
        BY <1>4, <3>3, <3>4 DEF ReducesPart, Grown
    <2>2. QED
      BY <1>10, <1>w, <2>1 DEF AttemptFiles
  <1>14. NoFiles' /\ OutFiles'
    BY <1>2, <1>7, <1>w DEF NoFiles, OutFiles
  <1>15. TaskFiles'
    BY <1>2, <1>7, <1>12, <1>w DEF TaskFiles
  <1>16. AttemptFiles'
    BY <1>7, <1>13 DEF AttemptFiles
  <1>17. QED
    BY <1>14, <1>15, <1>16 DEF Written

\* A reduce attempt that timed out stays so.
LEMMA RetriedStays ==
    ASSUME FiniteFacts, Inv, [Next]_vars, ReduceRetried
    PROVE  ReduceRetried'
  <1>0. Types
    BY DEF Inv
  <1>1. PICK t \in DOMAIN tasks : status[t] = "timed_out" /\ tasks[t].taskType = "reduce"
    BY DEF ReduceRetried, WithStatus
  <1>2. DOMAIN status = DOMAIN tasks
    BY <1>0, Table
  <1>3. SUFFICES t \in DOMAIN tasks' /\ tasks'[t] = tasks[t] /\ status'[t] = status[t]
    BY <1>1 DEF ReduceRetried, WithStatus
  <1>4. CASE QuietNext
    <2>1. Held
      BY DEF Inv
    <2>2. QED
      BY <1>0, <1>4, <2>1, QuietFrame
  <1>5. ASSUME NEW w \in Worker, GetTask(w)
        PROVE  t \in DOMAIN tasks' /\ tasks'[t] = tasks[t] /\ status'[t] = status[t]
    <2>1. PICK u \in DOMAIN tasks : IdleTask(u) /\ status' = [status EXCEPT ![u] = "in_progress"]
      BY <1>5 DEF GetTask
    <2>2. t # u
      BY <1>1, <2>1 DEF IdleTask, WithStatus
    <2>3. QED
      BY <1>2, <1>5, <2>1, <2>2 DEF GetTask
  <1>6. ASSUME NEW w \in Worker, TaskDoneMap(w)
        PROVE  t \in DOMAIN tasks' /\ tasks'[t] = tasks[t] /\ status'[t] = status[t]
    <2>1. phase = "map"
      BY <1>6, MapResult DEF TaskDoneMap
    <2>2. Work
      BY DEF Inv
    <2>3. QED
      BY <1>1, <2>1, <2>2 DEF Work
  <1>7. ASSUME NEW w \in Worker, TaskDoneReduce(w)
        PROVE  t \in DOMAIN tasks' /\ tasks'[t] = tasks[t] /\ status'[t] = status[t]
    <2>1. /\ status[task[w]] # "timed_out" /\ status' = [status EXCEPT ![task[w]] = "completed"]
          /\ tasks' = tasks
      BY <1>7 DEF TaskDoneReduce, TakesResult
    <2>2. QED
      BY <1>1, <1>2, <2>1
  <1>8. ASSUME NEW S \in SUBSET DOMAIN tasks, Done(S)
        PROVE  t \in DOMAIN tasks' /\ tasks'[t] = tasks[t] /\ status'[t] = status[t]
    <2>1. TimeoutTasks(S)
      BY <1>8 DEF Done
    <2>2. Cardinality(S) \in Nat
      <3>1. DOMAIN tasks = 1 .. Len(tasks) /\ Len(tasks) \in Nat
        BY <1>0, Table
      <3>2. IsFiniteSet(DOMAIN tasks)
        BY <3>1 DEF FiniteFacts
      <3>3. QED
        BY <3>2 DEF FiniteFacts
    <2>3. QED
      BY <1>0, <1>1, <2>1, <2>2, DoneGrows
  <1>9. QED
    BY <1>4, <1>5, <1>6, <1>7, <1>8 DEF Next, Run, TaskDone, QuietNext

\* Every step keeps what the files hold.
LEMMA WrittenStep ==
    FiniteFacts /\ Inv /\ Inv' /\ WrittenUnlessRetried /\ [Next]_vars => WrittenUnlessRetried'
  <1> SUFFICES ASSUME FiniteFacts, Inv, Inv', WrittenUnlessRetried, [Next]_vars, ~ReduceRetried'
               PROVE  Written'
    BY DEF WrittenUnlessRetried
  <1>0. Types /\ Held /\ ~ReduceRetried /\ Written
    BY RetriedStays DEF Inv, WrittenUnlessRetried
  <1>1. ASSUME NEW w \in Worker, RegisterWorker(w) \/ Heartbeat(w) \/ NoCoordinator(w) \/ Crash(w)
        PROVE  Written'
    <2>1. UNCHANGED <<tasks, status, phase, rtemp, rout, task, values, todo>>
      BY <1>1 DEF RegisterWorker, Heartbeat, HeartbeatLoad, HeartbeatStore, NoCoordinator,
                  Crash, coordVars, fileVars
    <2>2. pc' = pc \/ pc' = [pc EXCEPT ![w] = "free"] \/ pc' = [pc EXCEPT ![w] = "dead"]
      BY <1>1 DEF RegisterWorker, Heartbeat, HeartbeatLoad, HeartbeatStore, NoCoordinator, Crash
    <2>3. \A v \in Worker : pc'[v] \in {"read", "emit"} => pc'[v] = pc[v]
      BY <1>0, <2>2 DEF Types
    <2>4. QED
      BY <1>0, <2>1, <2>3, WrittenKept
  <1>2. ASSUME NEW w \in Worker, NEW k \in Key, EmitMap(w, k) PROVE Written'
    <2>1. /\ UNCHANGED <<tasks, status, phase, rtemp, rout, task, values, pc>>
          /\ tasks[task[w]].taskType = "map" /\ todo' = [todo EXCEPT ![w] = @ \ {k}]
      BY <1>2 DEF EmitMap, coordVars
    <2>2. \A v \in Worker : v # w => todo'[v] = todo[v]
      BY <1>0, <2>1 DEF Types
    <2>3. QED
      BY <1>0, <2>1, <2>2, WrittenKept
  <1>3. ASSUME NEW w \in Worker, TaskDoneTimedOut(w) PROVE Written'
    <2>1. pc[w] = "emit" /\ status[task[w]] = "timed_out"
      BY <1>3 DEF TaskDoneTimedOut
    <2>2. tasks[task[w]].taskType # "reduce"
      <3>1. task[w] \in DOMAIN tasks
        BY <1>0, <2>1 DEF Held, Working
      <3>2. QED
        BY <1>0, <2>1, <3>1 DEF ReduceRetried, WithStatus
    <2>3. /\ UNCHANGED <<tasks, status, phase, rtemp, rout, task, values, todo>>
          /\ pc' = [pc EXCEPT ![w] = "free"]
      BY <1>3, <2>2 DEF TaskDoneTimedOut, coordVars
    <2>4. \A v \in Worker : pc'[v] \in {"read", "emit"} => pc'[v] = pc[v]
      BY <1>0, <2>3 DEF Types
    <2>5. QED
      BY <1>0, <2>3, <2>4, WrittenKept
  <1>4. CASE CoordinatorExit \/ UNCHANGED vars
    <2>1. UNCHANGED <<tasks, status, phase, rtemp, rout, task, values, todo, pc>>
      BY <1>4 DEF CoordinatorExit, vars, coordVars, fileVars, workerVars
    <2>2. QED
      BY <1>0, <2>1, WrittenKept
  <1>5. ASSUME NEW w \in Worker, Run(w) PROVE Written'
    <2>1. CASE \E k \in Key : EmitMap(w, k) \/ EmitReduce(w, k)
      BY <1>0, <1>2, <2>1, EmitReduceWrites
    <2>2. CASE GetTask(w) \/ ReadFiles(w)
      BY <1>0, <2>2, GetTaskWrites, ReadFilesWrites
    <2>3. CASE TaskDone(w)
      BY <1>0, <1>3, <2>3, MapDoneWrites, ReduceDoneWrites DEF TaskDone
    <2>4. QED
      BY <1>1, <1>5, <2>1, <2>2, <2>3 DEF Run
  <1>6. ASSUME NEW S \in SUBSET DOMAIN tasks, Done(S) PROVE Written'
    BY <1>0, <1>6, DoneWrites
  <1>7. QED
    BY <1>1, <1>4, <1>5, <1>6 DEF Next

\* Nothing is written when the coordinator starts.
LEMMA WrittenInit == FiniteFacts /\ Init => WrittenUnlessRetried
  <1> SUFFICES ASSUME FiniteFacts, Init PROVE Written
    BY DEF WrittenUnlessRetried
  <1>1. Types /\ Work /\ Mapped \in SUBSET (Nat \X Key)
    BY InvInit, MappedType DEF Inv
  <1>2. phase = "map" /\ DOMAIN values = Worker /\ \A r \in Reducer : rtemp[r] = <<>> /\ rout[r] = <<>>
    BY DEF Init
  <1>3. \A t : \A r \in PartsOf(Mapped) : ~ReducesPart(t, r)
    <2>1. \A r \in PartsOf(Mapped) : ReduceTask(Mapped, r).taskType = "reduce"
      BY <1>1, ReduceTaskPart
    <2>2. QED
      BY <1>1, <1>2, <2>1 DEF ReducesPart, Work
  <1>4. QED
    BY <1>2, <1>3 DEF Written, NoFiles, OutFiles, TaskFiles, AttemptFiles

\* When the job is over every part has all its lines in mr-out-*.
LEMMA OutputComplete ==
    ASSUME Inv, Written, ~ReduceRetried, JobOver, NEW r \in Reducer
    PROVE  LinesFor(Mapped, rout[r], KeysOf(r))
  <1>w. NoFiles /\ OutFiles /\ TaskFiles /\ AttemptFiles
    BY DEF Written
  <1>0. Types /\ Work /\ Counted /\ Reduced /\ Settled
    BY DEF Inv
  <1>1. phase # "map"
    BY <1>0 DEF JobOver, Settled
  <1>2. ASSUME r \in PartsOf(Mapped) PROVE rout[r] # <<>>
    <2>1. CASE phase = "shutdown"
      BY <1>0, <1>2, <2>1 DEF Reduced, Unreduced
    <2>2. CASE main # "polling"
      <3>1. PICK t \in DOMAIN tasks : tasks[t] = ReduceTask(Mapped, r)
        BY <1>0, <1>1, <1>2 DEF Work
      <3>2. status[t] # "timed_out"
        BY <1>2, <3>1, OneWriter DEF ReducesPart
      <3>3. status[t] = "completed"
        BY <1>0, <2>2, <3>1, <3>2 DEF Settled
      <3>4. QED
        BY <1>2, <1>w, <3>1, <3>3 DEF TaskFiles, ReducesPart
    <2>3. QED
      BY <2>1, <2>2 DEF JobOver
  <1>3. CASE r \in PartsOf(Mapped)
    BY <1>2, <1>3, <1>w DEF OutFiles
  <1>4. CASE r \notin PartsOf(Mapped)
    <2>1. rout[r] = <<>> /\ KeysOf(r) = {}
      BY <1>0, <1>1, <1>4, <1>w, OutputKeys DEF OutFiles
    <2>2. LinesFor(Mapped, <<>>, {})
      BY SMTT(60) DEF LinesFor
    <2>3. QED
      BY <2>1, <2>2
  <1>5. QED
    BY <1>3, <1>4

\* The line of a key is made from one completed attempt at every input that emits it.
LEMMA MakersOnce ==
    ASSUME Inv, phase # "map", NEW k \in Key
    PROVE  /\ {InputOf(t) : t \in Makers(Mapped, k)} = {i \in Input : k \in Emits[i]}
           /\ \A t, u \in Makers(Mapped, k) : InputOf(t) = InputOf(u) => t = u
  <1>0. Types /\ OneLive /\ Counted
    BY DEF Inv
  <1>1. ASSUME NEW t \in Makers(Mapped, k)
        PROVE  /\ t \in DOMAIN tasks /\ status[t] = "completed"
               /\ InputOf(t) \in Input /\ tasks[t] = MapTask(InputOf(t)) /\ k \in Emits[InputOf(t)]
    <2>1. PICK l \in Mapped : l[2] = k /\ l[1] = t
      BY DEF Makers
    <2>2. PICK i \in Input : tasks[t] = MapTask(i) /\ k \in Emits[i]
      BY <2>1 DEF Mapped
    <2>3. InputOf(t) = i
      BY <2>2, MapTaskInput
    <2>4. QED
      BY <2>1, <2>2, <2>3 DEF Mapped
  <1>2. ASSUME NEW i \in Input, k \in Emits[i]
        PROVE  \E t \in Makers(Mapped, k) : InputOf(t) = i
    <2>1. PICK t \in DOMAIN tasks : status[t] = "completed" /\ tasks[t] = MapTask(i)
      BY <1>0 DEF Counted, Unmapped, WithStatus
    <2>2. <<t, k>> \in Mapped
      BY <1>2, <2>1 DEF Mapped
    <2>3. PICK l \in Mapped : l[2] = k /\ l[1] = t
      BY <2>2
    <2>4. t \in Makers(Mapped, k)
      BY <2>3 DEF Makers
    <2>5. QED
      BY <2>1, <2>4, MapTaskInput
  <1>3. \A t, u \in Makers(Mapped, k) : InputOf(t) = InputOf(u) => t = u
    BY <1>0, <1>1 DEF OneLive
  <1>4. {InputOf(t) : t \in Makers(Mapped, k)} = {i \in Input : k \in Emits[i]}
    BY <1>1, <1>2
  <1>5. QED
    BY <1>3, <1>4

\* The output of a finished job without a reduce retry is the one of a sequential run.
LEMMA OutputIsExact ==
    ASSUME Inv, WrittenUnlessRetried
    PROVE  OutputExactUnlessRetried
  <1> SUFFICES ASSUME JobOver, ~ReduceRetried, NEW r \in Reducer PROVE IsOutput(r, rout[r])
    BY DEF OutputExactUnlessRetried
  <1> DEFINE file == rout[r]
  <1>1. LinesFor(Mapped, file, KeysOf(r))
    BY OutputComplete DEF WrittenUnlessRetried
  <1>2. phase # "map"
    BY DEF JobOver, Inv, Settled
  <1> HIDE DEF file
  <1>3. {file[n][1] : n \in DOMAIN file} = KeysOf(r)
    BY <1>1, SMTT(60) DEF LinesFor
  <1>4. \A m, n \in DOMAIN file : file[m][1] = file[n][1] => m = n
    BY <1>1 DEF LinesFor
  <1>5. ASSUME NEW n \in DOMAIN file
        PROVE  /\ {InputOf(t) : t \in file[n][2]} = {i \in Input : file[n][1] \in Emits[i]}
               /\ \A t, u \in file[n][2] : InputOf(t) = InputOf(u) => t = u
    <2>1. file[n][1] \in Key /\ file[n][2] = Makers(Mapped, file[n][1])
      BY <1>1 DEF LinesFor, KeysOf
    <2> DEFINE k == file[n][1]
               ts == file[n][2]
    <2> HIDE DEF k, ts
    <2>2. k \in Key /\ ts = Makers(Mapped, k)
      BY <2>1 DEF k, ts
    <2>3. /\ {InputOf(t) : t \in ts} = {i \in Input : k \in Emits[i]}
          /\ \A t, u \in ts : InputOf(t) = InputOf(u) => t = u
      BY <1>2, <2>2, MakersOnce
    <2>4. QED
      BY <2>3 DEF k, ts
  <1>6. QED
    BY <1>3, <1>4, <1>5 DEF IsOutput, KeysOf, file

-----------------------------------------------------------------------------

\* A worker is at one of its five steps.
AtStep == \A w \in Worker : pc[w] \in {"off", "free", "read", "emit", "dead"}

\* A worker does only what belongs to the kind of task it has.
LEMMA AtStepStep == Types /\ AtStep /\ [Next]_vars => AtStep'
  <1> SUFFICES ASSUME Types, AtStep, [Next]_vars PROVE AtStep'
    OBVIOUS
  <1>1. ASSUME NEW w \in Worker, NEW p \in {"off", "free", "read", "emit", "dead"},
               pc' = [pc EXCEPT ![w] = p]
        PROVE  AtStep'
    BY <1>1 DEF AtStep, Types
  <1>2. ASSUME NEW w \in Worker, Run(w) \/ Heartbeat(w) \/ NoCoordinator(w) \/ Crash(w)
        PROVE  pc' = pc \/ \E p \in {"free", "read", "emit", "dead"} : pc' = [pc EXCEPT ![w] = p]
    BY <1>2 DEF Run, RegisterWorker, GetTask, ReadFiles, EmitMap, EmitReduce, TaskDone,
                TaskDoneTimedOut, TaskDoneMap, TaskDoneReduce, Heartbeat, HeartbeatLoad,
                HeartbeatStore, NoCoordinator, Crash
  <1>3. CASE pc' = pc
    BY <1>3 DEF AtStep
  <1>4. ASSUME NEW S, Done(S) PROVE pc' = pc
    BY <1>4 DEF Done, workerVars
  <1>5. CASE CoordinatorExit \/ UNCHANGED vars
    BY <1>3, <1>5 DEF CoordinatorExit, vars, workerVars
  <1>6. QED
    BY <1>1, <1>2, <1>3, <1>4, <1>5 DEF Next

\* The types follow from the invariant.
LEMMA TypesHold ==
    ASSUME FiniteFacts, Inv, AtStep
    PROVE  TypeOK
  <1>0. Types /\ Held /\ Counted /\ Reduced
    BY DEF Inv
  <1>1. numMapTasks \in 0 .. Len(Files)
    <2>1. numMapTasks = Cardinality(Unmapped) /\ Unmapped \subseteq Input
      BY <1>0 DEF Counted, Unmapped
    <2>2. Cardinality(Unmapped) \in Nat /\ Cardinality(Unmapped) <= Len(Files) /\ Len(Files) \in Nat
      BY <2>1 DEF FiniteFacts
    <2>3. QED
      BY <2>1, <2>2, SMTT(60)
  <1>2. numReduceTasks \in 0 .. Cardinality(Reducer)
    <2>1. PartsOf(Mapped) \subseteq Reducer
      BY <1>0, MappedType, PartsType
    <2>2. numReduceTasks = 0 \/ (numReduceTasks = Cardinality(Unreduced) /\ Unreduced \subseteq Reducer)
      BY <1>0, <2>1 DEF Reduced, Unreduced
    <2>3. Cardinality(Reducer) \in Nat
      BY DEF FiniteFacts
    <2>4. ASSUME Unreduced \subseteq Reducer
          PROVE  Cardinality(Unreduced) \in Nat /\ Cardinality(Unreduced) <= Cardinality(Reducer)
      BY <2>4 DEF FiniteFacts
    <2>5. QED
      BY <2>2, <2>3, <2>4, SMTT(60)
  <1>3. ASSUME NEW t \in DOMAIN tasks
        PROVE  /\ tasks[t].taskType \in {"map", "reduce"}
               /\ status[t] \in {"idle", "in_progress", "completed", "timed_out"}
    <2>1. tasks[t] \in Task /\ status[t] \in Status
      BY <1>0, Table
    <2>2. QED
      BY <2>1 DEF Task, Status
  <1>4. ASSUME NEW w \in Worker
        PROVE  /\ pc[w] \in {"off", "free", "read", "emit", "dead"}
               /\ task[w] \in 0 .. Len(tasks) /\ todo[w] \subseteq Key
               /\ Working(w) => status[task[w]] \in {"in_progress", "timed_out"}
    <2>1. /\ DOMAIN tasks = 1 .. Len(tasks) /\ Len(tasks) \in Nat /\ todo[w] \subseteq Key
          /\ task[w] = 0 \/ task[w] \in DOMAIN tasks
      BY <1>0, SMTT(60) DEF Types, Held
    <2>2. Working(w) => status[task[w]] \in {"in_progress", "timed_out"}
      BY <1>0, <1>3 DEF Held
    <2>3. QED
      BY <2>1, <2>2, SMTT(60) DEF AtStep
  <1>5. \A v, w \in Worker : Working(v) /\ task[v] = task[w] => v = w
    BY <1>0 DEF Held
  <1>6. QED
    BY <1>0, <1>1, <1>2, <1>3, <1>4, <1>5 DEF TypeOK, Types
-----------------------------------------------------------------------------

\* One attempt at every piece of work has not timed out.
LEMMA OneAttemptHolds ==
    ASSUME FiniteFacts, Inv
    PROVE  OneAttempt
  <1>1. OneLive
    BY DEF Inv
  <1>2. ASSUME NEW t \in DOMAIN tasks
        PROVE  Cardinality({u \in Attempts(t) : status[u] # "timed_out"}) = 1
    <2>1. PICK u \in DOMAIN tasks : tasks[u] = tasks[t] /\ status[u] # "timed_out"
      BY <1>1 DEF OneLive
    <2>2. {v \in Attempts(t) : status[v] # "timed_out"} = {u}
      BY <1>1, <2>1 DEF OneLive, Attempts, SameWork
    <2>3. QED
      BY <2>2 DEF FiniteFacts
  <1>3. QED
    BY <1>2 DEF OneAttempt

\* The reduce tasks see the line of one attempt for every input and key.
LEMMA MapsSeenOnce ==
    ASSUME FiniteFacts, Inv
    PROVE  ReducesSeeEveryMapOnce
  <1>0. Types /\ OneLive /\ Work /\ Counted /\ Lines
    BY DEF Inv
  <1>1. ASSUME main = "polling", NEW t \in DOMAIN tasks, tasks[t].taskType = "reduce",
               NEW i \in Input, NEW k \in Emits[i], Part[k] = ReduceId(t)
        PROVE  Cardinality({l \in mout : /\ l[2] = k
                                         /\ <<l[1], Part[k]>> \in tasks[t].files
                                         /\ tasks[l[1]] = MapTask(i)}) = 1
    <2>1. mout = Mapped /\ phase # "map"
      BY <1>0, <1>1 DEF Lines, Work
    <2>2. PICK r \in PartsOf(Mapped) : tasks[t] = ReduceTask(Mapped, r)
      BY <1>0, <1>1 DEF Work
    <2>3. Part[k] = r
      <3>1. \A l \in Mapped : l[1] \in DOMAIN tasks
        BY DEF Mapped
      <3>2. ReduceId(t) = r
        BY <1>0, <2>2, <3>1, MappedType, ReduceTaskPart
      <3>3. QED
        BY <1>1, <3>2
    <2>4. PICK u \in DOMAIN tasks : status[u] = "completed" /\ tasks[u] = MapTask(i)
      BY <1>0, <2>1 DEF Counted, Unmapped, WithStatus
    <2>5. k \in Key
      BY MapReduceAssumption
    <2>6. <<u, k>> \in Mapped
      BY <2>4, <2>5 DEF Mapped
    <2>7. <<u, Part[k]>> \in tasks[t].files
      <3>1. <<u, Part[k]>> \in NamesOf(Mapped)
        BY <2>6, SMTT(60) DEF NamesOf
      <3>2. QED
        BY <2>2, <2>3, <3>1, SMTT(60) DEF ReduceTask
    <2>8. ASSUME NEW l \in Mapped, l[2] = k, tasks[l[1]] = MapTask(i)
          PROVE  l = <<u, k>>
      <3>1. l[1] \in DOMAIN tasks /\ status[l[1]] = "completed" /\ l = <<l[1], l[2]>>
        BY SMTT(60) DEF Mapped
      <3>2. l[1] = u
        BY <1>0, <2>4, <2>8, <3>1, SMTT(60) DEF OneLive
      <3>3. QED
        BY <2>8, <3>1, <3>2
    <2>9. {l \in mout : /\ l[2] = k
                        /\ <<l[1], Part[k]>> \in tasks[t].files
                        /\ tasks[l[1]] = MapTask(i)} = {<<u, k>>}
      BY <2>1, <2>4, <2>6, <2>7, <2>8, SMTT(60)
    <2>10. QED
      BY <2>9 DEF FiniteFacts
  <1>2. QED
    BY <1>1 DEF ReducesSeeEveryMapOnce

-----------------------------------------------------------------------------

\* Files has every input once.
LEMMA FilesOnce ==
    /\ Files \in [1 .. Len(Files) -> Input] /\ Len(Files) \in Nat \ {0}
    /\ \A m, n \in 1 .. Len(Files) : Files[m] = Files[n] => m = n
    /\ \A i \in Input : \E n \in 1 .. Len(Files) : Files[n] = i
  <1>1. /\ Files \in Seq(Input) /\ Files # <<>> /\ Len(Files) \in Nat
        /\ DOMAIN Files = 1 .. Len(Files)
    BY MapReduceAssumption, SMTT(60)
  <1>2. Len(Files) # 0
    BY <1>1, SMTT(60)
  <1>3. \A m, n \in 1 .. Len(Files) : Files[m] = Files[n] => m = n
    BY <1>1, MapReduceAssumption DEF IsInjective
  <1>4. \A i \in Input : \E n \in 1 .. Len(Files) : Files[n] = i
    BY <1>1 DEF Input, Range
  <1>5. Files \in [1 .. Len(Files) -> Input]
    BY <1>1, SMTT(60)
  <1>6. QED
    BY <1>1, <1>2, <1>3, <1>4, <1>5

(***************************************************************************)
(* The definitions of IsFiniteSet and Cardinality, to carry over to the    *)
(* operators used above what the library says of its own copies of them.   *)
(***************************************************************************)
FiniteDef(S) == \E seq \in Seq(S) : \A s \in S : \E n \in 1 .. Len(seq) : seq[n] = s

SizeDef(S) ==
    LET CS[T \in SUBSET S] == IF T = {} THEN 0 ELSE 1 + CS[T \ {CHOOSE x : x \in T}]
    IN  CS[S]

\* Finiteness and size are what their definitions say.
LEMMA Sizes ==
    ASSUME NEW S
    PROVE  (IsFiniteSet(S) <=> FiniteDef(S)) /\ Cardinality(S) = SizeDef(S)
  BY DEF IsFiniteSet, Cardinality, FiniteDef, SizeDef

\* The facts in terms of those definitions give the facts in terms of the operators.
LEMMA FactsCarried ==
    ASSUME FiniteDef(Input) /\ SizeDef(Input) = Len(Files) /\ Len(Files) \in Nat \ {0},
           FiniteDef(Reducer),
           \A n \in Nat : FiniteDef(1 .. n),
           \A x : SizeDef({x}) = 1,
           \A S : FiniteDef(S) =>
               /\ SizeDef(S) \in Nat /\ (SizeDef(S) = 0 <=> S = {})
               /\ \A T \in SUBSET S : FiniteDef(T) /\ SizeDef(T) <= SizeDef(S)
               /\ \A x \in S : SizeDef(S \ {x}) = SizeDef(S) - 1
    PROVE  FiniteFacts
  <1>1. /\ IsFiniteSet(Input) /\ Cardinality(Input) = Len(Files) /\ Len(Files) \in Nat \ {0}
        /\ IsFiniteSet(Reducer)
    BY Sizes
  <1>2. (\A n \in Nat : IsFiniteSet(1 .. n)) /\ \A x : Cardinality({x}) = 1
    BY Sizes
  <1>3. ASSUME NEW S, IsFiniteSet(S)
        PROVE  /\ Cardinality(S) \in Nat /\ (Cardinality(S) = 0 <=> S = {})
               /\ \A T \in SUBSET S : IsFiniteSet(T) /\ Cardinality(T) <= Cardinality(S)
               /\ \A x \in S : Cardinality(S \ {x}) = Cardinality(S) - 1
    BY <1>3, Sizes, SMTT(60)
  <1>4. QED
    BY <1>1, <1>2, <1>3 DEF FiniteFacts

LOCAL INSTANCE FiniteSetTheorems

\* The same definitions, for the operators of FiniteSetTheorems.
LEMMA LibrarySizes ==
    ASSUME NEW S
    PROVE  (IsFiniteSet(S) <=> FiniteDef(S)) /\ Cardinality(S) = SizeDef(S)
  BY DEF IsFiniteSet, Cardinality, FiniteDef, SizeDef

\* What the lemmas use of finite sets is true.
LEMMA FiniteFactsHold == FiniteFacts
  <1>1. IsFiniteSet(Input) /\ Cardinality(Input) = Len(Files) /\ Len(Files) \in Nat \ {0}
    <2>1. Files \in Bijection(1 .. Len(Files), Input)
      BY FilesOnce DEF Bijection, Injection, Surjection, IsInjective
    <2>2. QED
      BY <2>1, FilesOnce, FS_CountingElements, FS_NatBijection DEF ExistsBijection
  <1>2. IsFiniteSet(Reducer)
    <2>1. Part \in Surjection(Key, Reducer)
      <3>1. Part = [k \in Key |-> Part[k]]
        BY MapReduceAssumption
      <3>2. QED
        BY <3>1 DEF Surjection, Reducer
    <2>2. IsFiniteSet(Key)
      BY Sizes, LibrarySizes, MapReduceAssumption
    <2>3. QED
      BY <2>1, <2>2, FS_Surjection
  <1>3. ASSUME NEW S, IsFiniteSet(S)
        PROVE  /\ Cardinality(S) \in Nat /\ (Cardinality(S) = 0 <=> S = {})
               /\ \A T \in SUBSET S : IsFiniteSet(T) /\ Cardinality(T) <= Cardinality(S)
               /\ \A x \in S : Cardinality(S \ {x}) = Cardinality(S) - 1
    <2>1. Cardinality(S) \in Nat /\ (Cardinality(S) = 0 <=> S = {})
      BY <1>3, FS_CardinalityType, FS_EmptySet
    <2>2. \A T \in SUBSET S : IsFiniteSet(T) /\ Cardinality(T) <= Cardinality(S)
      BY <1>3, FS_Subset
    <2>3. \A x \in S : Cardinality(S \ {x}) = Cardinality(S) - 1
      BY <1>3, FS_RemoveElement
    <2>4. QED
      BY <2>1, <2>2, <2>3
  <1>4. \A n \in Nat : IsFiniteSet(1 .. n)
    BY FS_Interval, SMTT(60)
  <1>5. \A x : Cardinality({x}) = 1
    BY FS_Singleton
  <1>6. /\ FiniteDef(Input) /\ SizeDef(Input) = Len(Files) /\ Len(Files) \in Nat \ {0}
        /\ FiniteDef(Reducer)
    BY <1>1, <1>2, LibrarySizes
  <1>7. (\A n \in Nat : FiniteDef(1 .. n)) /\ \A x : SizeDef({x}) = 1
    BY <1>4, <1>5, LibrarySizes
  <1>8. ASSUME NEW S, FiniteDef(S)
        PROVE  /\ SizeDef(S) \in Nat /\ (SizeDef(S) = 0 <=> S = {})
               /\ \A T \in SUBSET S : FiniteDef(T) /\ SizeDef(T) <= SizeDef(S)
               /\ \A x \in S : SizeDef(S \ {x}) = SizeDef(S) - 1
    BY <1>3, <1>8, LibrarySizes
  <1>9. QED
    BY <1>6, <1>7, <1>8, FactsCarried

-----------------------------------------------------------------------------

\* Every reachable state satisfies the invariant.
LEMMA InvAlways == Spec => []Inv
  BY InvInit, InvStep, FiniteFactsHold, PTL DEF Spec

\* Every piece of work has exactly one attempt that has not timed out.
THEOREM AlwaysOneAttempt == Spec => []OneAttempt
  BY OneAttemptHolds, FiniteFactsHold, InvAlways, PTL

\* numMapTasks counts the inputs no attempt has completed.
THEOREM AlwaysMapsCounted == Spec => []MapsCounted
  <1>1. Inv => MapsCounted
    BY DEF Inv, Counted, MapsCounted, Unmapped
  <1>2. QED
    BY <1>1, InvAlways, PTL

\* The files of a reduce task have, for every input and key, the line of one attempt.
THEOREM MapExactlyOnce == Spec => []ReducesSeeEveryMapOnce
  BY MapsSeenOnce, FiniteFactsHold, InvAlways, PTL

\* The job ends with an output file for every part that has data.
THEOREM OutputAtShutdown == Spec => []ShutdownHasOutput
  <1>1. ASSUME Inv PROVE ShutdownHasOutput
    <2>0. Types /\ Counted /\ Reduced
      BY <1>1 DEF Inv
    <2>1. ASSUME phase = "shutdown", NEW i \in Input, NEW k \in Emits[i]
          PROVE  rout[Part[k]] # <<>>
      <3>1. Unmapped = {} /\ Unreduced = {}
        BY <2>0, <2>1 DEF Counted, Reduced
      <3>2. PICK u \in DOMAIN tasks : status[u] = "completed" /\ tasks[u] = MapTask(i)
        BY <3>1 DEF Unmapped, WithStatus
      <3>3. k \in Key
        BY MapReduceAssumption
      <3>4. <<u, k>> \in Mapped
        BY <3>2, <3>3 DEF Mapped
      <3>5. <<u, Part[k]>> \in NamesOf(Mapped)
        BY <3>4, SMTT(60) DEF NamesOf
      <3>6. Part[k] \in PartsOf(Mapped)
        BY <3>5, SMTT(60) DEF PartsOf
      <3>7. QED
        BY <3>1, <3>6 DEF Unreduced
    <2>2. QED
      BY <2>1 DEF ShutdownHasOutput
  <1>2. QED
    BY <1>1, InvAlways, PTL

\* Once the job is over no step changes its output.
THEOREM OutputStays == Spec => OutputStable
  <1>1. ASSUME Inv, [Next]_vars, JobOver PROVE UNCHANGED rout
    <2>1. CASE \E w \in Worker : TaskDoneReduce(w)
      <3>1. PICK w \in Worker : TakesResult(w, "reduce")
        BY <2>1 DEF TaskDoneReduce
      <3>2. phase = "reduce" /\ main = "polling"
        BY <1>1, <3>1, ReduceResult
      <3>3. QED
        BY <1>1, <3>2 DEF JobOver
    <2>2. CASE QuietNext
      <3>1. Types /\ Held
        BY <1>1 DEF Inv
      <3>2. QED
        BY <2>2, <3>1, QuietFrame
    <2>3. CASE \E w \in Worker : GetTask(w)
      BY <2>3 DEF GetTask, fileVars
    <2>4. CASE \E w \in Worker : TaskDoneMap(w)
      BY <2>4 DEF TaskDoneMap
    <2>5. CASE \E S \in SUBSET DOMAIN tasks : Done(S)
      BY <2>5 DEF Done
    <2>6. QED
      BY <1>1, <2>1, <2>2, <2>3, <2>4, <2>5 DEF Next, Run, TaskDone, QuietNext
  <1>2. Inv /\ [Next]_vars => [JobOver => UNCHANGED rout]_vars
    BY <1>1
  <1>3. QED
    BY <1>2, InvAlways, PTL DEF Spec, OutputStable

\* The output of a finished job is the one of a sequential run as long as no reduce
\* attempt timed out, whatever becomes of the map attempts: a retried map task leaves no
\* line behind that a reduce task reads, and EmitReduce writes each key once.
THEOREM ExactUnlessRetried == Spec => []OutputExactUnlessRetried
  <1>1. Spec => []WrittenUnlessRetried
    BY WrittenInit, WrittenStep, FiniteFactsHold, InvAlways, PTL DEF Spec
  <1>2. QED
    BY <1>1, OutputIsExact, InvAlways, PTL

\* The counters, the tables of the coordinator and the state of every worker stay in
\* their ranges, no two workers have the same task, and a task that a worker works on is
\* in progress or timed out.
THEOREM TypeCorrect == Spec => []TypeOK
  <1>1. Init => AtStep
    BY DEF Init, AtStep
  <1>2. Inv => Types
    BY DEF Inv
  <1>3. Spec => []AtStep
    BY <1>1, <1>2, AtStepStep, InvAlways, PTL DEF Spec
  <1>4. QED
    BY <1>3, TypesHold, FiniteFactsHold, InvAlways, PTL

=============================================================================
