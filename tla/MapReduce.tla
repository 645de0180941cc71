----------------------------- MODULE MapReduce ------------------------------
(***************************************************************************)
(* The MapReduce coordinator (mr/coordinator.go), its workers              *)
(* (mr/worker.go) and the files they share.                                *)
(*                                                                         *)
(* Every handler of the coordinator holds c.mutex from entry to return,    *)
(* except Heartbeat.  Time is abstracted: an attempt in progress may or    *)
(* may not be overdue when Done looks.                                     *)
(*                                                                         *)
(* Files.  A map attempt t that emits key k writes a line to               *)
(* tempm-out-<t>-<Part[k]>, which TaskDone renames to m-out-<t>-<Part[k]>; *)
(* mtemp and mout are the lines <<t, k>> of those files, and a file exists *)
(* iff it has a line.  A reduce attempt appends one line per key to        *)
(* tempmr-out-<r>, which TaskDone renames to mr-out-<r>; rtemp and rout    *)
(* are the lines <<k, T>> of those files, T the map attempts whose values  *)
(* were reduced, and <<>> an absent file.                                  *)
(***************************************************************************)
EXTENDS Naturals, Sequences, FiniteSets, Functions

CONSTANTS Files,        \* the input files, os.Args[1:]
          Key,          \* the intermediate keys
          Emits,        \* the keys mapf emits for each input
          Part,         \* ihash(key) % nReduce
          MaxWorkers,   \* bound: worker processes started
          Faulty,       \* "map", "reduce": attempts whose worker may crash or be slow
          MaxCrashes,   \* bound: crashes
          MaxSlow,      \* bound: attempts that time out though their worker lives
          LateRegister  \* workers may register when the job is over

Input == Range(Files)
Reducer == {Part[k] : k \in Key}
Worker == 1 .. MaxWorkers

ASSUME MapReduceAssumption ==
    /\ Files \in Seq(Input) /\ Files # <<>> /\ IsInjective(Files) /\ IsFiniteSet(Key)
    /\ Emits \in [Input -> SUBSET Key]
    /\ Part \in [Key -> Nat]
    /\ MaxWorkers \in Nat /\ MaxCrashes \in Nat /\ MaxSlow \in Nat
    /\ Faulty \subseteq {"map", "reduce"} /\ LateRegister \in BOOLEAN

VARIABLES tasks,           \* c.tasks: taskType and files
          status,          \* c.tasks: status
          isRunning,       \* c.workers
          numMapTasks, numReduceTasks, phase,
          main,            \* mrcoordinator: "polling", "done" once Done is true, "exited"
          mtemp, mout, rtemp, rout,
          pc,              \* a worker: "off", "free", "read", "emit" or "dead"
          task,            \* res.TaskId of its attempt
          values,          \* the lines a reduce attempt read
          todo,            \* the keys its attempt has yet to write
          hb,              \* its Heartbeat in progress: the array c.workers it uses, or 0
          crashes, slow

coordVars == <<tasks, status, isRunning, numMapTasks, numReduceTasks, phase, main>>
fileVars == <<mtemp, mout, rtemp, rout>>
workerVars == <<pc, task, values, todo, hb>>
vars == <<coordVars, fileVars, workerVars, crashes, slow>>

MapTask(i) == [taskType |-> "map", files |-> {i}]
InputOf(t) == CHOOSE i \in Input : tasks[t].files = {i}

\* The reducer of a reduce task: the last part of its files' names.
ReduceId(t) == CHOOSE r \in Reducer : \E m \in DOMAIN tasks : <<m, r>> \in tasks[t].files

\* createMapTasks, MakeCoordinator.
Init ==
    /\ tasks = [n \in DOMAIN Files |-> MapTask(Files[n])]
    /\ status = [n \in DOMAIN tasks |-> "idle"]
    /\ isRunning = <<>>
    /\ numMapTasks = Len(Files) /\ numReduceTasks = 0
    /\ phase = "map" /\ main = "polling"
    /\ mtemp = {} /\ mout = {}
    /\ rtemp = [r \in Reducer |-> <<>>] /\ rout = [r \in Reducer |-> <<>>]
    /\ pc = [w \in Worker |-> "off"] /\ task = [w \in Worker |-> 0]
    /\ values = [w \in Worker |-> {}] /\ todo = [w \in Worker |-> {}]
    /\ hb = [w \in Worker |-> 0]
    /\ crashes = 0 /\ slow = 0

\* The RPCs of a worker succeed: call reaches the coordinator.
Up == main # "exited"
Alive(w) == pc[w] \notin {"off", "dead"}
Working(w) == pc[w] \in {"read", "emit"}
WithStatus(s) == {t \in DOMAIN tasks : status[t] = s}

-----------------------------------------------------------------------------

\* RegisterWorker.  (The field worker.taskId is written and never read.)
RegisterWorker(w) ==
    /\ Up
    /\ phase = "shutdown" => LateRegister
    /\ pc[w] = "off" /\ w = Len(isRunning) + 1
    /\ isRunning' = Append(isRunning, TRUE)
    /\ pc' = [pc EXCEPT ![w] = "free"]
    /\ UNCHANGED <<tasks, status, numMapTasks, numReduceTasks, phase, main, fileVars,
                   task, values, todo, hb, crashes, slow>>

\* findIdleTask
IdleTask(t) == t \in WithStatus("idle") /\ \A u \in WithStatus("idle") : t <= u

\* GetTask and the start of runMapTask or runReduceTask; without an idle task the
\* worker sleeps and asks again.
GetTask(w) ==
    /\ Up /\ pc[w] = "free"
    /\ \E t \in DOMAIN tasks :
          /\ IdleTask(t)
          /\ status' = [status EXCEPT ![t] = "in_progress"]
          /\ task' = [task EXCEPT ![w] = t]
          /\ \/ /\ tasks[t].taskType = "map"
                /\ pc' = [pc EXCEPT ![w] = "emit"]
                /\ todo' = [todo EXCEPT ![w] = Emits[InputOf(t)]]
             \/ /\ tasks[t].taskType = "reduce"
                /\ pc' = [pc EXCEPT ![w] = "read"]
                /\ UNCHANGED todo
    /\ UNCHANGED <<tasks, isRunning, numMapTasks, numReduceTasks, phase, main, fileVars,
                   values, hb, crashes, slow>>

\* runReduceTask reads its files; a file that is gone ends the worker (log.Fatal).
ReadFiles(w) ==
    LET files == tasks[task[w]].files
        lines == {l \in mout : <<l[1], Part[l[2]]>> \in files}
    IN
    /\ pc[w] = "read"
    /\ \/ /\ \A f \in files : \E l \in lines : <<l[1], Part[l[2]]>> = f
          /\ values' = [values EXCEPT ![w] = lines]
          /\ todo' = [todo EXCEPT ![w] = {l[2] : l \in lines}]
          /\ pc' = [pc EXCEPT ![w] = "emit"]
       \/ /\ \E f \in files : \A l \in lines : <<l[1], Part[l[2]]>> # f
          /\ pc' = [pc EXCEPT ![w] = "dead"]
          /\ UNCHANGED <<values, todo>>
    /\ UNCHANGED <<coordVars, fileVars, task, hb, crashes, slow>>

\* One turn of the writing loop of runMapTask.
EmitMap(w, k) ==
    /\ pc[w] = "emit" /\ tasks[task[w]].taskType = "map" /\ k \in todo[w]
    /\ mtemp' = mtemp \cup {<<task[w], k>>}
    /\ todo' = [todo EXCEPT ![w] = @ \ {k}]
    /\ UNCHANGED <<coordVars, mout, rtemp, rout, pc, task, values, hb, crashes, slow>>

\* One turn of the writing loop of runReduceTask.
EmitReduce(w, k) ==
    LET line == <<k, {l[1] : l \in {m \in values[w] : m[2] = k}}>> IN
    /\ pc[w] = "emit" /\ tasks[task[w]].taskType = "reduce" /\ k \in todo[w]
    /\ rtemp' = [rtemp EXCEPT ![Part[k]] = Append(@, line)]
    /\ todo' = [todo EXCEPT ![w] = @ \ {k}]
    /\ UNCHANGED <<coordVars, mtemp, mout, rout, pc, task, values, hb, crashes, slow>>

-----------------------------------------------------------------------------

\* TaskDone of an attempt that timed out: os.Remove of FilesCreated.  An error is
\* returned to the worker, which exits (log.Fatal).
TaskDoneTimedOut(w) ==
    LET t == task[w] IN
    /\ Up /\ pc[w] = "emit" /\ todo[w] = {}
    /\ status[t] = "timed_out"
    /\ \/ /\ tasks[t].taskType = "map"
          /\ mtemp' = {l \in mtemp : l[1] # t}
          /\ pc' = [pc EXCEPT ![w] = "free"]
          /\ UNCHANGED rtemp
       \/ /\ tasks[t].taskType = "reduce" /\ rtemp[ReduceId(t)] # <<>>
          /\ rtemp' = [rtemp EXCEPT ![ReduceId(t)] = <<>>]
          /\ pc' = [pc EXCEPT ![w] = "free"]
          /\ UNCHANGED mtemp
       \/ /\ tasks[t].taskType = "reduce" /\ rtemp[ReduceId(t)] = <<>>
          /\ pc' = [pc EXCEPT ![w] = "dead"]
          /\ UNCHANGED <<mtemp, rtemp>>
    /\ UNCHANGED <<coordVars, mout, rout, task, values, todo, hb, crashes, slow>>

\* The orders in which a range over a Go map may visit the keys S.
Orderings(S) == Bijection(1 .. Cardinality(S), S)

\* createReduceTasks: one task for each reducer with a file m-out-*-<r>, in the
\* order of a Go map.
CreateReduceTasks(lines) ==
    LET names == {<<l[1], Part[l[2]]>> : l \in lines} IN
    {[n \in DOMAIN s |-> [taskType |-> "reduce", files |-> {f \in names : f[2] = s[n]}]]
        : s \in Orderings({f[2] : f \in names})}

\* Mutant: TaskDone does not look at taskStatusTimedOut.
TakesResultEvenLate(w, type) ==
    /\ Up /\ pc[w] = "emit" /\ todo[w] = {}
    /\ tasks[task[w]].taskType = type

\* TaskDone takes the result of an attempt at a task of this type.
TakesResult(w, type) ==
    /\ Up /\ pc[w] = "emit" /\ todo[w] = {}
    /\ status[task[w]] # "timed_out"
    /\ tasks[task[w]].taskType = type

\* Mutant: the reduce phase starts one map task early.
AllMappedEarly(n) == n <= 1

\* TaskDone starts the reduce phase when n map tasks are left.
AllMapped(n) == n = 0

\* TaskDone of a map attempt.
TaskDoneMap(w) ==
    LET t == task[w]
        lines == {l \in mtemp : l[1] = t}
    IN
    /\ TakesResult(w, "map")
    /\ mtemp' = mtemp \ lines
    /\ mout' = mout \cup lines
    /\ numMapTasks' = numMapTasks - 1
    /\ \/ /\ ~AllMapped(numMapTasks')
          /\ status' = [status EXCEPT ![t] = "completed"]
          /\ UNCHANGED <<tasks, numReduceTasks, phase>>
       \/ /\ AllMapped(numMapTasks')
          /\ \E new \in CreateReduceTasks(mout') :
                /\ tasks' = tasks \o new
                /\ status' = [status EXCEPT ![t] = "completed"]
                                 \o [n \in DOMAIN new |-> "idle"]
                /\ numReduceTasks' = numReduceTasks + Len(new)
          /\ phase' = "reduce"
    /\ pc' = [pc EXCEPT ![w] = "free"]
    /\ UNCHANGED <<isRunning, main, rtemp, rout, task, values, todo, hb, crashes, slow>>

\* TaskDone of a reduce attempt.  The task is completed before the file is renamed; a
\* file that is gone is an error, which skips the count and ends the worker.
TaskDoneReduce(w) ==
    LET t == task[w]
        r == ReduceId(t)
    IN
    /\ TakesResult(w, "reduce")
    /\ status' = [status EXCEPT ![t] = "completed"]
    /\ \/ /\ rtemp[r] # <<>>
          /\ rout' = [rout EXCEPT ![r] = rtemp[r]]
          /\ rtemp' = [rtemp EXCEPT ![r] = <<>>]
          /\ numReduceTasks' = numReduceTasks - 1
          /\ phase' = IF numReduceTasks' = 0 THEN "shutdown" ELSE phase
          /\ pc' = [pc EXCEPT ![w] = "free"]
       \/ /\ rtemp[r] = <<>>
          /\ pc' = [pc EXCEPT ![w] = "dead"]
          /\ UNCHANGED <<rout, rtemp, numReduceTasks, phase>>
    /\ UNCHANGED <<tasks, isRunning, numMapTasks, main, mtemp, mout, task, values, todo,
                   hb, crashes, slow>>

TaskDone(w) == TaskDoneTimedOut(w) \/ TaskDoneMap(w) \/ TaskDoneReduce(w)

\* The worker of attempt t has died.
Orphaned(t) == \E w \in Worker : task[w] = t /\ pc[w] = "dead"

\* The attempts S in the order of c.tasks.
InOrder(S) ==
    {s \in Orderings(S) : \A m, n \in DOMAIN s : m < n => s[m] < s[n]}

\* Mutant: the overdue attempt is not marked.
TimeoutTasksUnmarked(S) ==
    \E again \in InOrder(S) :
        /\ tasks' = tasks \o [n \in DOMAIN again |-> tasks[again[n]]]
        /\ status' = status \o [n \in DOMAIN again |-> "idle"]

\* Mutant: an overdue attempt is marked and not replaced.
TimeoutTasksNoRetry(S) ==
    /\ status' = [t \in DOMAIN tasks |-> IF t \in S THEN "timed_out" ELSE status[t]]
    /\ UNCHANGED tasks

\* timeoutTasks: attempts S are overdue and get a new task each.
TimeoutTasks(S) ==
    \E again \in InOrder(S) :
        /\ tasks' = tasks \o [n \in DOMAIN again |-> tasks[again[n]]]
        /\ status' = [t \in DOMAIN tasks |-> IF t \in S THEN "timed_out" ELSE status[t]]
                         \o [n \in DOMAIN again |-> "idle"]

\* The answer of Done once timeoutTasks has run.
Finished ==
    CASE phase = "map" -> FALSE
      [] phase = "reduce" -> \A t \in DOMAIN status' : status'[t] \notin {"idle", "in_progress"}
      [] phase = "shutdown" -> \A w \in DOMAIN isRunning : ~isRunning[w]

\* Done, called once a second until it returns true.
Done(S) ==
    LET live == {t \in S : ~Orphaned(t)} IN
    /\ main = "polling"
    /\ S \subseteq WithStatus("in_progress")
    /\ \A t \in live : tasks[t].taskType \in Faulty
    /\ slow' = slow + Cardinality(live)
    /\ slow' <= MaxSlow
    /\ TimeoutTasks(S)
    /\ \/ Finished /\ main' = "done" /\ mout' = {}
       \/ ~Finished /\ UNCHANGED <<main, mout>>
    /\ UNCHANGED <<isRunning, numMapTasks, numReduceTasks, phase, mtemp, rtemp, rout,
                   workerVars, crashes>>

\* mrcoordinator returns from main a second after Done has returned true.
CoordinatorExit ==
    /\ main = "done"
    /\ main' = "exited"
    /\ UNCHANGED <<tasks, status, isRunning, numMapTasks, numReduceTasks, phase, fileVars,
                   workerVars, crashes, slow>>

-----------------------------------------------------------------------------

\* The array behind c.workers: append moves it whenever the length passes a power of 2.
Cap(n) == CHOOSE c \in {1, 2, 4, 8} : n <= c /\ \A d \in {1, 2, 4, 8} : n <= d => c <= d

\* Heartbeat, which takes no lock, up to its use of c.workers.  In the other phases it
\* changes nothing.
HeartbeatLoad(w) ==
    /\ Up /\ Alive(w) /\ hb[w] = 0
    /\ phase = "shutdown"
    /\ hb' = [hb EXCEPT ![w] = Cap(Len(isRunning))]
    /\ UNCHANGED <<coordVars, fileVars, pc, task, values, todo, crashes, slow>>

\* Mutant: Heartbeat does not note that the worker leaves.
HeartbeatStoreForgets(w) ==
    /\ Up /\ hb[w] # 0
    /\ hb' = [hb EXCEPT ![w] = 0]
    /\ pc' = [pc EXCEPT ![w] = "dead"]
    /\ UNCHANGED <<coordVars, fileVars, task, values, todo, crashes, slow>>

\* Heartbeat writes isRunning, to the old array if RegisterWorker moved it meanwhile, and
\* the worker exits.
HeartbeatStore(w) ==
    /\ Up /\ hb[w] # 0
    /\ isRunning' = IF hb[w] = Cap(Len(isRunning))
                    THEN [isRunning EXCEPT ![w] = FALSE]
                    ELSE isRunning
    /\ hb' = [hb EXCEPT ![w] = 0]
    /\ pc' = [pc EXCEPT ![w] = "dead"]
    /\ UNCHANGED <<tasks, status, numMapTasks, numReduceTasks, phase, main, fileVars,
                   task, values, todo, crashes, slow>>

\* A worker process dies, as those of mrapps/crash.go do.
Crash(w) ==
    /\ crashes < MaxCrashes
    /\ Alive(w)
    /\ Working(w) => tasks[task[w]].taskType \in Faulty
    /\ pc' = [pc EXCEPT ![w] = "dead"]
    /\ crashes' = crashes + 1
    /\ UNCHANGED <<coordVars, fileVars, task, values, todo, hb, slow>>

\* A worker whose next call finds no coordinator exits.
NoCoordinator(w) ==
    /\ ~Up /\ Alive(w)
    /\ pc' = [pc EXCEPT ![w] = "dead"]
    /\ UNCHANGED <<coordVars, fileVars, task, values, todo, hb, crashes, slow>>

Run(w) ==
    \/ RegisterWorker(w)
    \/ GetTask(w)
    \/ ReadFiles(w)
    \/ \E k \in Key : EmitMap(w, k) \/ EmitReduce(w, k)
    \/ TaskDone(w)

Heartbeat(w) == HeartbeatLoad(w) \/ HeartbeatStore(w)

Next ==
    \/ \E w \in Worker : Run(w) \/ Heartbeat(w) \/ NoCoordinator(w) \/ Crash(w)
    \/ \E S \in SUBSET DOMAIN tasks : Done(S)
    \/ CoordinatorExit

Spec == Init /\ [][Next]_vars

(***************************************************************************)
(* Live workers run, their heartbeats come every second, Done is called    *)
(* every second and an attempt whose worker is gone is overdue in the end. *)
(***************************************************************************)
Fairness ==
    /\ \A w \in Worker : WF_vars(Run(w)) /\ WF_vars(Heartbeat(w))
    /\ WF_vars(Done({t \in WithStatus("in_progress") : Orphaned(t)}))
    /\ WF_vars(CoordinatorExit)

FairSpec == Spec /\ Fairness

-----------------------------------------------------------------------------

\* Types; an attempt is held by one worker, and the counters never go below zero.
TypeOK ==
    /\ numMapTasks \in 0 .. Len(Files)
    /\ numReduceTasks \in 0 .. Cardinality(Reducer)
    /\ phase \in {"map", "reduce", "shutdown"} /\ main \in {"polling", "done", "exited"}
    /\ Len(status) = Len(tasks)
    /\ \A t \in DOMAIN tasks :
          /\ tasks[t].taskType \in {"map", "reduce"}
          /\ status[t] \in {"idle", "in_progress", "completed", "timed_out"}
    /\ \A w \in Worker :
          /\ pc[w] \in {"off", "free", "read", "emit", "dead"}
          /\ task[w] \in 0 .. Len(tasks)
          /\ todo[w] \subseteq Key
          /\ Working(w) => status[task[w]] \in {"in_progress", "timed_out"}
    /\ \A v, w \in Worker : Working(v) /\ task[v] = task[w] => v = w

\* The attempts at the same piece of work.
SameWork(t, u) == tasks[t] = tasks[u]
Attempts(t) == {u \in DOMAIN tasks : SameWork(t, u)}

\* Every piece of work has exactly one attempt that has not timed out: a time-out never
\* leaves it without a task nor gives it two (timeoutTasks, TaskDone).
OneAttempt ==
    \A t \in DOMAIN tasks :
        Cardinality({u \in Attempts(t) : status[u] # "timed_out"}) = 1

\* numMapTasks counts the inputs that no attempt has completed, whatever times out.
MapsCounted ==
    numMapTasks = Cardinality({i \in Input : \A t \in WithStatus("completed") :
                                                tasks[t] # MapTask(i)})

\* Map exactly once: the files given to a reduce task hold, for every key of its part and
\* every input that emits it, the line of exactly one attempt (until Done deletes them).
ReducesSeeEveryMapOnce ==
    main = "polling" =>
    \A t \in DOMAIN tasks : tasks[t].taskType = "reduce" =>
        \A i \in Input : \A k \in Emits[i] : Part[k] = ReduceId(t) =>
            Cardinality({l \in mout : /\ l[2] = k
                                      /\ <<l[1], Part[k]>> \in tasks[t].files
                                      /\ tasks[l[1]] = MapTask(i)}) = 1

\* The lines mr-out-<r> should have, as main/mrsequential.go writes them: for each key of
\* the part one line, with the values of one attempt at each input that emits the key.
IsOutput(r, file) ==
    LET keys == {k \in Key : Part[k] = r /\ \E i \in Input : k \in Emits[i]} IN
    /\ {file[n][1] : n \in DOMAIN file} = keys
    /\ \A m, n \in DOMAIN file : file[m][1] = file[n][1] => m = n
    /\ \A n \in DOMAIN file :
          /\ {InputOf(t) : t \in file[n][2]} = {i \in Input : file[n][1] \in Emits[i]}
          /\ \A t, u \in file[n][2] : InputOf(t) = InputOf(u) => t = u

JobOver == phase = "shutdown" \/ main # "polling"

\* Some reduce task was given out a second time.
ReduceRetried == \E t \in WithStatus("timed_out") : tasks[t].taskType = "reduce"

\* While no reduce attempt times out the output of a finished job is the one of a
\* sequential run, whatever becomes of the map attempts.
OutputExactUnlessRetried ==
    JobOver /\ ~ReduceRetried => \A r \in Reducer : IsOutput(r, rout[r])

\* When the job is over the output is what a sequential run gives (test-mr.sh:126-129
\* compares mr-out* with mrsequential's).
OutputExact == JobOver => \A r \in Reducer : IsOutput(r, rout[r])

\* Once workers are told to exit, or the coordinator exits, mr-out-* does not change
\* (test-mr.sh:251-252, early exit test).
OutputStable == [][JobOver => UNCHANGED rout]_vars

\* The job reaches phaseShutdown only with an output file for every part that has data,
\* even if attempts time out.
ShutdownHasOutput ==
    phase = "shutdown" =>
        \A i \in Input : \A k \in Emits[i] : rout[Part[k]] # <<>>

\* The job gets done although workers die (mrapps/crash.go).
JobGetsDone == <>(phase = "shutdown")

\* The coordinator exits when the job is done, if no worker crashed.
CoordinatorStopsUnlessCrash == phase = "shutdown" ~> (main = "exited" \/ crashes > 0)

\* When the job is done Done returns true and the coordinator exits (test-mr.sh:123-127).
CoordinatorStops == phase = "shutdown" ~> main = "exited"

=============================================================================
