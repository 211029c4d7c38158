------------------------- MODULE PythonRunnerProofs -------------------------
(***************************************************************************)
(* For any boxes, commands and number of clicks: runs of Python go one at  *)
(* a time and in order, Stop finds the run in progress, an answer reaches  *)
(* the run it answers, and a box waits for its own run alone.              *)
(***************************************************************************)
EXTENDS PythonRunner, TLAPS, SequenceTheorems, FiniteSetTheorems

(***************************************************************************)
(* The parts of a step: the queue and the worker                           *)
(***************************************************************************)

\* A worker that a run can be posted to: none, a dead one, or one with nothing to do.
Free(w, n) ==
    \/ w = NoWorker
    \/ /\ w \in WorkerOf(n)
       /\ w.script # "dead" => /\ w.script = "ok" /\ w.inbox = <<>> /\ w.run = 0
                               /\ w.answer = "none" /\ w.stage = "idle"

\* The runs before k have settled and the others wait.
SplitBefore(js, k) ==
    \A j \in 1 .. Len(js) : /\ j < k => js[j].state \in Settled
                            /\ j >= k => js[j].state = "waiting"

\* What a step makes of the queue: the runs of js, of which one may have begun.
Queued(js) ==
    /\ jobs' \in Seq(JobType) /\ Len(jobs') = Len(js)
    /\ \A j \in 1 .. Len(js) : /\ jobs'[j].box = js[j].box
                               /\ jobs'[j].state \in Unsettled <=> js[j].state \in Unsettled
    /\ current' \in 0 .. Len(jobs')
    /\ worker' \in WorkerOf(Len(jobs')) \cup {NoWorker}
    /\ QueueIsSplit'
    /\ WorkerHasTheRun'

\* A run posted to a free worker is the one it has.
LEMMA PostGivesTheRun ==
    ASSUME NEW n \in Nat, NEW k \in 1 .. n, NEW w, Free(w, n)
    PROVE  /\ Post(w, k) \in WorkerOf(n)
           /\ Post(w, k).script # "dead" =>
                 /\ Post(w, k).settles = k /\ Post(w, k).inbox = <<k>> /\ Post(w, k).run = 0
                 /\ Post(w, k).answer = "none" /\ Post(w, k).stage = "idle"
<1>1. CASE w = NoWorker
  <2>1. Post(w, k) = [NewWorker EXCEPT !.settles = k, !.inbox = <<k>>]
    BY <1>1 DEF Post, NewWorker
  <2>2. <<k>> \in Seq(1 .. n) /\ k \in 1 .. n /\ 0 \in 0 .. n
    OBVIOUS
  <2>3. Post(w, k) =
          [script |-> "loading", settles |-> k, inbox |-> <<k>>, answer |-> "none", run |-> 0,
           stage |-> "idle", ready |-> "null", manifest |-> "unasked", broken |-> FALSE]
    BY <2>1 DEF NewWorker
  <2>4. QED
    BY <2>2, <2>3 DEF WorkerOf
<1>2. CASE w # NoWorker
  <2>1. w \in WorkerOf(n)
    BY <1>2 DEF Free
  <2>2. Post(w, k) = [w EXCEPT !.settles = k, !.inbox = Append(w.inbox, k)]
    BY <1>2, <2>1 DEF Post, WorkerOf
  <2>3. w.inbox \in Seq(1 .. n) /\ Append(w.inbox, k) \in Seq(1 .. n)
    BY <2>1 DEF WorkerOf
  <2>4. Post(w, k) \in WorkerOf(n)
    BY <2>1, <2>2, <2>3 DEF WorkerOf
  <2>5. Post(w, k).script = w.script
    BY <2>1, <2>2 DEF WorkerOf
  <2>6. CASE w.script # "dead"
    <3>1. /\ w.inbox = <<>> /\ w.run = 0 /\ w.answer = "none" /\ w.stage = "idle"
      BY <1>2, <2>6 DEF Free
    <3>2. Append(w.inbox, k) = <<k>>
      BY <3>1
    <3>3. QED
      BY <2>1, <2>2, <2>4, <3>1, <3>2 DEF WorkerOf
  <2>7. QED
    BY <2>4, <2>5, <2>6
<1>3. QED
  BY <1>1, <1>2

\* When every run before k has settled and the worker is free, run k begins, if there is one.
LEMMA StartOnQueues ==
    ASSUME NEW js \in Seq(JobType), NEW k \in 1 .. Len(js) + 1, NEW w,
           SplitBefore(js, k), Free(w, Len(js)), StartOn(js, k, w)
    PROVE  Queued(js)
<1> DEFINE n == Len(js)
<1>1. n \in Nat /\ DOMAIN js = 1 .. n
  OBVIOUS
<1>2. \A j \in 1 .. n : js[j] \in JobType
  BY <1>1
<1>3. CASE k \in 1 .. n
  <2>1. /\ jobs' = [js EXCEPT ![k].state = "started"]
        /\ current' = k /\ worker' = Post(w, k)
    BY <1>1, <1>3 DEF StartOn
  <2>2. /\ js[k].state = "waiting"
        /\ [js[k] EXCEPT !.state = "started"] \in JobType
        /\ [js[k] EXCEPT !.state = "started"].state = "started"
        /\ [js[k] EXCEPT !.state = "started"].box = js[k].box
    BY <1>2, <1>3 DEF SplitBefore, JobType, Unsettled
  <2>3. /\ jobs' \in Seq(JobType) /\ Len(jobs') = n /\ DOMAIN jobs' = 1 .. n
        /\ jobs'[k] = [js[k] EXCEPT !.state = "started"]
        /\ \A j \in 1 .. n : j # k => jobs'[j] = js[j]
    <3>1. jobs' = [js EXCEPT ![k] = [js[k] EXCEPT !.state = "started"]]
      BY <2>1
    <3>2. /\ jobs' \in Seq(JobType) /\ Len(jobs') = n
          /\ jobs'[k] = [js[k] EXCEPT !.state = "started"]
          /\ \A j \in 1 .. n : j # k => jobs'[j] = js[j]
      BY <1>1, <1>3, <2>2, <3>1, ExceptSeq
    <3>3. DOMAIN jobs' = 1 .. n
      BY <3>2
    <3>4. QED
      BY <3>2, <3>3
  <2>4. \A j \in 1 .. n : /\ jobs'[j].box = js[j].box
                          /\ jobs'[j].state \in Unsettled <=> js[j].state \in Unsettled
    BY <1>3, <2>2, <2>3 DEF Unsettled
  <2>5. QueueIsSplit'
    <3>1. \A j \in 1 .. n : /\ j < k => jobs'[j].state \in Settled
                            /\ j = k => jobs'[j].state = "started"
                            /\ j > k => jobs'[j].state = "waiting"
      <4>1. \A j \in 1 .. n : j # k => jobs'[j].state = js[j].state
        BY <2>3
      <4>2. \A j \in 1 .. n : j = k => jobs'[j].state = "started"
        BY <2>2, <2>3
      <4>3. \A j \in 1 .. n : /\ j < k => js[j].state \in Settled /\ j # k
                              /\ j > k => js[j].state = "waiting" /\ j # k
        BY <1>1, <1>3 DEF SplitBefore
      <4>4. QED
        BY <4>1, <4>2, <4>3
    <3>2. k # 0
      BY <1>3
    <3>3. QED
      BY <2>1, <2>3, <3>1, <3>2 DEF QueueIsSplit
  <2>6. /\ worker' \in WorkerOf(n)
        /\ worker'.script # "dead" =>
              /\ worker'.settles = k /\ worker'.inbox = <<k>> /\ worker'.run = 0
              /\ worker'.answer = "none" /\ worker'.stage = "idle"
    BY <1>1, <1>3, <2>1, PostGivesTheRun
  <2>7. WorkerHasTheRun'
    BY <1>3, <2>1, <2>6 DEF WorkerHasTheRun, HasTheRun
  <2>8. QED
    BY <1>1, <1>3, <2>1, <2>3, <2>4, <2>5, <2>6, <2>7 DEF Queued
<1>4. CASE k \notin 1 .. n
  <2>1. jobs' = js /\ current' = 0 /\ worker' = w
    BY <1>1, <1>4 DEF StartOn
  <2>2. \A j \in 1 .. n : j < k
    BY <1>1, <1>4
  <2>3. QueueIsSplit'
    BY <1>1, <2>1, <2>2 DEF QueueIsSplit, SplitBefore
  <2>4. WorkerHasTheRun'
    BY <2>1 DEF WorkerHasTheRun, HasTheRun, Free
  <2>5. QED
    BY <1>1, <2>1, <2>3, <2>4 DEF Queued, Free
<1>5. QED
  BY <1>3, <1>4

\* A worker with no run in progress, or none at all, is free.
LEMMA NothingToDo ==
    ASSUME TypeOK, WorkerHasTheRun, current = 0
    PROVE  Free(worker, Len(jobs))
<1>1. worker \in WorkerOf(Len(jobs)) \cup {NoWorker}
  BY DEF TypeOK
<1>2. CASE worker # NoWorker /\ worker.script # "dead"
  <2>1. HasTheRun(worker)
    BY <1>2 DEF WorkerHasTheRun
  <2>2. worker.script = "ok" /\ worker.inbox = <<>> /\ worker.run = 0
    BY <1>1, <1>2, <2>1 DEF HasTheRun, WorkerOf
  <2>3. QED
    BY <1>1, <1>2, <2>1, <2>2 DEF HasTheRun, Free
<1>3. QED
  BY <1>1, <1>2 DEF Free

\* More runs in the queue: what a worker knew of it stands.
LEMMA WorkerOfMore ==
    ASSUME NEW n \in Nat
    PROVE  /\ WorkerOf(n) \subseteq WorkerOf(n + 1)
           /\ \A w : Free(w, n) => Free(w, n + 1)
<1>1. 1 .. n \subseteq 1 .. n + 1 /\ 0 .. n \subseteq 0 .. n + 1
  OBVIOUS
<1>2. ASSUME NEW w \in WorkerOf(n)
      PROVE  w \in WorkerOf(n + 1)
  <2>1. w.inbox \in Seq(1 .. n) /\ w.settles \in 1 .. n /\ w.run \in 0 .. n
    BY <1>2 DEF WorkerOf
  <2>2. w.inbox \in Seq(1 .. n + 1)
    <3>1. \A i \in 1 .. Len(w.inbox) : w.inbox[i] \in 1 .. n + 1
      BY <2>1, <1>1
    <3>2. QED
      BY <2>1, <3>1
  <2>3. w.settles \in 1 .. n + 1 /\ w.run \in 0 .. n + 1
    BY <1>1, <2>1
  <2>4. QED
    BY <1>2, <2>2, <2>3 DEF WorkerOf
<1>3. QED
  BY <1>2 DEF Free

\* The queue with one more run of box b at its end.
LEMMA OneMoreRun ==
    ASSUME NEW js \in Seq(JobType), NEW b \in Boxes
    PROVE  LET more == Append(js, Job(b))
           IN  /\ more \in Seq(JobType) /\ Len(more) = Len(js) + 1
               /\ more[Len(js) + 1] = Job(b)
               /\ \A j \in 1 .. Len(js) : more[j] = js[j]
<1>1. Job(b) \in JobType
  BY DEF Job, JobType, Unsettled
<1>2. QED
  BY <1>1

\* Where the run in progress is: nowhere when every run has settled, in the queue otherwise.
LEMMA CurrentIsInTheQueue ==
    ASSUME TypeOK, QueueIsSplit
    PROVE  /\ current = 0 <=> \A j \in 1 .. Len(jobs) : jobs[j].state \in Settled
           /\ current # 0 => current \in 1 .. Len(jobs) /\ jobs[current].state = "started"
<1>1. current \in 0 .. Len(jobs) /\ DOMAIN jobs = 1 .. Len(jobs) /\ Len(jobs) \in Nat
  BY DEF TypeOK
<1>2. current # 0 => current \in 1 .. Len(jobs) /\ jobs[current].state = "started"
  BY <1>1 DEF QueueIsSplit
<1>3. current = 0 => \A j \in 1 .. Len(jobs) : jobs[j].state \in Settled
  BY <1>1 DEF QueueIsSplit
<1>4. QED
  BY <1>2, <1>3 DEF Settled

\* A run that is asked for joins the queue, and begins if nothing is before it.
LEMMA AskQueues ==
    ASSUME TypeOK, QueueIsSplit, WorkerHasTheRun, NEW b \in Boxes, Ask(b)
    PROVE  Queued(Append(jobs, Job(b)))
<1> DEFINE js == Append(jobs, Job(b))
           n == Len(jobs)
<1>1. /\ jobs \in Seq(JobType) /\ n \in Nat /\ DOMAIN jobs = 1 .. n
      /\ current \in 0 .. n /\ worker \in WorkerOf(n) \cup {NoWorker}
  BY DEF TypeOK
<1>2. /\ js \in Seq(JobType) /\ Len(js) = n + 1
      /\ js[n + 1].state = "waiting"
      /\ \A j \in 1 .. n : js[j] = jobs[j]
  BY <1>1, OneMoreRun DEF Job
<1>3. CASE \A j \in 1 .. n : jobs[j].state \in Settled
  <2>1. StartOn(js, n + 1, worker)
    BY <1>1, <1>2, <1>3 DEF Ask
  <2>2. Free(worker, n + 1)
    BY <1>1, <1>3, CurrentIsInTheQueue, NothingToDo, WorkerOfMore
  <2>3. SplitBefore(js, n + 1)
    <3>1. \A j \in 1 .. n + 1 : /\ j < n + 1 => j \in 1 .. n
                                /\ j >= n + 1 => j = n + 1
      BY <1>1
    <3>2. QED
      BY <1>2, <1>3, <3>1 DEF SplitBefore
  <2>4. n + 1 \in 1 .. Len(js) + 1
    BY <1>1, <1>2
  <2>5. QED
    BY <1>2, <2>1, <2>2, <2>3, <2>4, StartOnQueues
<1>4. CASE ~\A j \in 1 .. n : jobs[j].state \in Settled
  <2>1. jobs' = js /\ current' = current /\ worker' = worker
    BY <1>1, <1>4 DEF Ask
  <2>2. current # 0 /\ current \in 1 .. n
    BY <1>4, CurrentIsInTheQueue
  <2>3. QueueIsSplit'
    <3>1. \A j \in 1 .. n : /\ j < current => js[j].state \in Settled
                            /\ j = current => js[j].state = "started"
                            /\ j > current => js[j].state = "waiting"
      BY <1>1, <1>2, <2>2 DEF QueueIsSplit
    <3>2. \A j \in 1 .. n + 1 : j \in 1 .. n \/ (j = n + 1 /\ j > current)
      BY <1>1, <2>2
    <3>3. \A j \in 1 .. n + 1 : /\ j < current => js[j].state \in Settled
                                /\ j = current => js[j].state = "started"
                                /\ j > current => js[j].state = "waiting"
      BY <1>1, <1>2, <2>2, <3>1, <3>2
    <3>4. DOMAIN js = 1 .. n + 1
      BY <1>2
    <3>5. QED
      BY <2>1, <2>2, <3>3, <3>4 DEF QueueIsSplit
  <2>4. WorkerHasTheRun'
    BY <2>1 DEF WorkerHasTheRun, HasTheRun
  <2>5. worker' \in WorkerOf(n + 1) \cup {NoWorker} /\ current' \in 0 .. n + 1
    BY <1>1, <2>1, WorkerOfMore
  <2>6. QED
    BY <1>2, <2>1, <2>3, <2>4, <2>5 DEF Queued
<1>5. QED
  BY <1>3, <1>4

(***************************************************************************)
(* The parts of a step: the boxes                                          *)
(***************************************************************************)

\* BoxesHaveOneRun, of a queue and the boxes' states.
BoxesOf(js, st) ==
    /\ \A b \in Boxes : st[b] = "python" <=>
          \E j \in 1 .. Len(js) : js[j].box = b /\ js[j].state \in Unsettled
    /\ \A i, j \in 1 .. Len(js) :
          /\ js[i].state \in Unsettled /\ js[j].state \in Unsettled
          /\ js[i].box = js[j].box
          => i = j

BoxStates == [Boxes -> {"idle", "python", "rust"}]

\* A box with no run of its own asks for one.
LEMMA AskBox ==
    ASSUME NEW js \in Seq(JobType), NEW st \in BoxStates, NEW b \in Boxes,
           BoxesOf(js, st), st[b] # "python"
    PROVE  BoxesOf(Append(js, Job(b)), [st EXCEPT ![b] = "python"])
<1> DEFINE more == Append(js, Job(b))
           n == Len(js)
<1>1. /\ Len(more) = n + 1 /\ n \in Nat
      /\ more[n + 1].box = b /\ more[n + 1].state = "waiting"
      /\ \A j \in 1 .. n : more[j] = js[j]
  BY OneMoreRun DEF Job
<1>2. \A j \in 1 .. n + 1 : j \in 1 .. n \/ j = n + 1
  BY <1>1
<1>3. \A j \in 1 .. n : js[j].state \in Unsettled => js[j].box # b
  BY DEF BoxesOf
<1>4. ASSUME NEW c \in Boxes
      PROVE  [st EXCEPT ![b] = "python"][c] = "python" <=>
                \E j \in 1 .. n + 1 : more[j].box = c /\ more[j].state \in Unsettled
  <2>1. CASE c = b
    BY <1>1, <2>1 DEF BoxStates, Unsettled
  <2>2. CASE c # b
    <3>1. [st EXCEPT ![b] = "python"][c] = st[c]
      BY <2>2 DEF BoxStates
    <3>2. (\E j \in 1 .. n + 1 : more[j].box = c /\ more[j].state \in Unsettled)
             <=> \E j \in 1 .. n : js[j].box = c /\ js[j].state \in Unsettled
      BY <1>1, <1>2, <2>2
    <3>3. QED
      BY <3>1, <3>2 DEF BoxesOf
  <2>3. QED
    BY <2>1, <2>2
<1>5. ASSUME NEW i \in 1 .. n + 1, NEW j \in 1 .. n + 1,
             more[i].state \in Unsettled, more[j].state \in Unsettled,
             more[i].box = more[j].box
      PROVE  i = j
  BY <1>1, <1>2, <1>3, <1>5 DEF BoxesOf
<1>6. QED
  BY <1>1, <1>4, <1>5 DEF BoxesOf

\* The run of a box settles, and the box waits for Python no more.
LEMMA SettleBox ==
    ASSUME NEW js \in Seq(JobType), NEW st \in BoxStates, NEW k \in 1 .. Len(js),
           NEW how \in Settled, NEW e \in {"idle", "rust"},
           BoxesOf(js, st), js[k].state \in Unsettled
    PROVE  BoxesOf([js EXCEPT ![k].state = how], [st EXCEPT ![js[k].box] = e])
<1> DEFINE less == [js EXCEPT ![k] = [js[k] EXCEPT !.state = how]]
           b == js[k].box
           n == Len(js)
<1>1. js[k] \in JobType /\ n \in Nat
  OBVIOUS
<1>2. /\ [js[k] EXCEPT !.state = how] \in JobType
      /\ [js[k] EXCEPT !.state = how].state \notin Unsettled
      /\ b \in Boxes
  BY <1>1 DEF JobType, Settled, Unsettled
<1>3. /\ Len(less) = n
      /\ less[k].state \notin Unsettled
      /\ \A j \in 1 .. n : j # k => less[j] = js[j]
  BY <1>2, ExceptSeq
<1>4. \A j \in 1 .. n : j # k /\ js[j].state \in Unsettled => js[j].box # b
  BY DEF BoxesOf
<1>5. ASSUME NEW c \in Boxes
      PROVE  [st EXCEPT ![b] = e][c] = "python" <=>
                \E j \in 1 .. n : less[j].box = c /\ less[j].state \in Unsettled
  <2>1. CASE c = b
    BY <1>2, <1>3, <1>4, <2>1 DEF BoxStates
  <2>2. CASE c # b
    <3>1. [st EXCEPT ![b] = e][c] = st[c]
      BY <2>2 DEF BoxStates
    <3>2. (\E j \in 1 .. n : less[j].box = c /\ less[j].state \in Unsettled)
             <=> \E j \in 1 .. n : js[j].box = c /\ js[j].state \in Unsettled
      BY <1>3, <2>2
    <3>3. QED
      BY <3>1, <3>2 DEF BoxesOf
  <2>3. QED
    BY <2>1, <2>2
<1>6. ASSUME NEW i \in 1 .. n, NEW j \in 1 .. n,
             less[i].state \in Unsettled, less[j].state \in Unsettled,
             less[i].box = less[j].box
      PROVE  i = j
  BY <1>3, <1>6 DEF BoxesOf
<1>7. QED
  BY <1>3, <1>5, <1>6 DEF BoxesOf

\* A step that makes js of the queue, and with it puts the boxes right.
LEMMA QueuedBoxes ==
    ASSUME NEW js \in Seq(JobType), Queued(js), BoxesOf(js, state')
    PROVE  BoxesHaveOneRun'
<1>1. /\ DOMAIN jobs' = 1 .. Len(js)
      /\ \A j \in 1 .. Len(js) : /\ jobs'[j].box = js[j].box
                                 /\ jobs'[j].state \in Unsettled <=> js[j].state \in Unsettled
  BY DEF Queued
<1>2. QED
  BY <1>1 DEF BoxesOf, BoxesHaveOneRun

\* What TypeOK says of the boxes and their Rust reader, and of the rest of the page.
BoxesTyped ==
    /\ state \in BoxStates
    /\ step \in [Boxes -> Nat]
    /\ \A b \in Boxes : step[b] <= Len(Commands[b])
    /\ rust \in {"null", "loading", "ok"}

PageTyped ==
    /\ manifest \in {"unasked", "ok", "rejected"}
    /\ online \in BOOLEAN
    /\ clicks \in 0 .. MaxClicks

LEMMA Typed == TypeOK => BoxesTyped /\ PageTyped
BY DEF TypeOK, BoxesTyped, PageTyped, BoxStates

\* The parts of the invariant together.
LEMMA StepKeeps ==
    ASSUME NEW js \in Seq(JobType), Queued(js), BoxesOf(js, state'), BoxesTyped', PageTyped'
    PROVE  RunnerIInv'
<1>1. TypeOK'
  BY DEF Queued, BoxesTyped, PageTyped, BoxStates, TypeOK
<1>2. BoxesHaveOneRun'
  BY QueuedBoxes
<1>3. QED
  BY <1>1, <1>2 DEF RunnerIInv, Queued

\* A queue that a step leaves alone.
LEMMA QueueLeftAlone ==
    ASSUME RunnerIInv, UNCHANGED <<jobs, current, worker>>
    PROVE  jobs \in Seq(JobType) /\ Queued(jobs)
BY DEF RunnerIInv, TypeOK, Queued, QueueIsSplit, WorkerHasTheRun, HasTheRun

\* Boxes that start or stop waiting for something other than Python.
LEMMA OtherBoxes ==
    ASSUME RunnerIInv, \A b \in Boxes : state'[b] = "python" <=> state[b] = "python"
    PROVE  BoxesOf(jobs, state')
<1>1. DOMAIN jobs = 1 .. Len(jobs)
  BY DEF RunnerIInv, TypeOK
<1>2. QED
  BY <1>1 DEF RunnerIInv, BoxesHaveOneRun, BoxesOf

LEMMA BoxesAre == RunnerIInv => BoxesOf(jobs, state) /\ state \in BoxStates
<1>1. RunnerIInv => DOMAIN jobs = 1 .. Len(jobs)
  BY DEF RunnerIInv, TypeOK
<1>2. QED
  BY <1>1 DEF RunnerIInv, BoxesHaveOneRun, BoxesOf, TypeOK, BoxStates

LEMMA EnginesOfCommands ==
    ASSUME NEW b \in Boxes
    PROVE  /\ Len(Commands[b]) \in Nat /\ 1 <= Len(Commands[b])
           /\ \A i \in 1 .. Len(Commands[b]) : Commands[b][i] \in {"python", "rust"}
<1>1. Commands[b] \in Seq({"python", "rust"}) /\ Commands[b] # <<>>
  BY RunnerAssumption DEF RunnerAssumption
<1>2. QED
  BY <1>1

LEMMA BeginTyped ==
    ASSUME BoxesTyped, NEW b \in Boxes, NEW i \in 1 .. Len(Commands[b]), Begin(b, i)
    PROVE  /\ BoxesTyped'
           /\ state' = [state EXCEPT ![b] = Commands[b][i]]
           /\ Commands[b][i] \in {"python", "rust"}
<1>1. Commands[b][i] \in {"python", "rust"} /\ Len(Commands[b]) \in Nat
  BY EnginesOfCommands
<1>2. state' \in BoxStates
  BY <1>1 DEF Begin, BoxesTyped, BoxStates
<1>3. i \in Nat /\ i <= Len(Commands[b])
  BY <1>1
<1>4. step' \in [Boxes -> Nat] /\ \A c \in Boxes : step'[c] <= Len(Commands[c])
  BY <1>3 DEF Begin, BoxesTyped
<1>5. rust' \in {"null", "loading", "ok"}
  BY DEF Begin, BoxesTyped
<1>6. QED
  BY <1>1, <1>2, <1>4, <1>5 DEF Begin, BoxesTyped

LEMMA FinishTyped ==
    ASSUME BoxesTyped, NEW b \in Boxes, Finish(b)
    PROVE  BoxesTyped' /\ state' = [state EXCEPT ![b] = "idle"]
<1>1. 0 <= Len(Commands[b])
  BY EnginesOfCommands
<1>2. QED
  BY <1>1 DEF Finish, BoxesTyped, BoxStates

(***************************************************************************)
(* The actions                                                             *)
(***************************************************************************)

\* A box with no run of its own begins a command.
LEMMA RunOneKeeps ==
    ASSUME RunnerIInv, PageTyped', NEW b \in Boxes, NEW i \in 1 .. Len(Commands[b]),
           state[b] # "python", RunOne(b, i)
    PROVE  RunnerIInv'
<1>1. /\ BoxesTyped'
      /\ state' = [state EXCEPT ![b] = Commands[b][i]]
      /\ Commands[b][i] \in {"python", "rust"}
  BY Typed, BeginTyped DEF RunnerIInv, RunOne
<1>2. BoxesOf(jobs, state) /\ state \in BoxStates /\ jobs \in Seq(JobType)
  BY BoxesAre DEF RunnerIInv, TypeOK
<1>3. CASE Commands[b][i] = "python"
  <2>1. Queued(Append(jobs, Job(b)))
    BY <1>3, AskQueues DEF RunnerIInv, RunOne
  <2>2. BoxesOf(Append(jobs, Job(b)), state')
    BY <1>1, <1>2, <1>3, AskBox
  <2>3. Append(jobs, Job(b)) \in Seq(JobType)
    BY <1>2, OneMoreRun
  <2>4. QED
    BY <1>1, <2>1, <2>2, <2>3, StepKeeps
<1>4. CASE Commands[b][i] # "python"
  <2>1. UNCHANGED <<jobs, current, worker>>
    BY <1>4 DEF RunOne
  <2>2. BoxesOf(jobs, state')
    BY <1>1, <1>2, <1>4, OtherBoxes DEF BoxStates
  <2>3. QED
    BY <1>1, <2>1, <2>2, QueueLeftAlone, StepKeeps
<1>5. QED
  BY <1>3, <1>4

\* The run in progress settles, on a worker that the next can be posted to.
LEMMA SettleKeeps ==
    ASSUME RunnerIInv, PageTyped', current # 0, NEW how \in Settled,
           NEW w, Free(w, Len(jobs)), Settle(current, how, w)
    PROVE  RunnerIInv'
<1> DEFINE n == Len(jobs)
           b == jobs[current].box
           js == [jobs EXCEPT ![current].state = how]
           next == step[b] + 1
<1>1. /\ jobs \in Seq(JobType) /\ n \in Nat /\ BoxesTyped
      /\ current \in 1 .. n /\ jobs[current].state = "started"
  BY Typed, CurrentIsInTheQueue DEF RunnerIInv, TypeOK
<1>2. jobs[current] \in JobType /\ b \in Boxes
  <2>1. jobs[current] \in JobType
    BY <1>1
  <2>2. QED
    BY <2>1 DEF JobType
<1>3. /\ js \in Seq(JobType) /\ Len(js) = n
      /\ js[current].state = how
      /\ \A j \in 1 .. n : j # current => js[j] = jobs[j]
  <2>1. /\ [jobs[current] EXCEPT !.state = how] \in JobType
        /\ [jobs[current] EXCEPT !.state = how].state = how
    BY <1>2 DEF JobType
  <2>2. js = [jobs EXCEPT ![current] = [jobs[current] EXCEPT !.state = how]]
    OBVIOUS
  <2>3. QED
    BY <1>1, <2>1, <2>2, ExceptSeq
<1>4. SplitBefore(js, current + 1)
  <2>1. \A j \in 1 .. n : /\ j < current => jobs[j].state \in Settled /\ j # current
                          /\ j > current => jobs[j].state = "waiting" /\ j # current
    BY <1>1 DEF RunnerIInv, QueueIsSplit
  <2>2. \A j \in 1 .. n : /\ j < current => js[j].state \in Settled
                          /\ j = current => js[j].state \in Settled
                          /\ j > current => js[j].state = "waiting"
    BY <1>3, <2>1
  <2>3. \A j \in 1 .. n : /\ j < current + 1 => j < current \/ j = current
                          /\ j >= current + 1 => j > current
    BY <1>1
  <2>4. QED
    BY <1>3, <2>2, <2>3 DEF SplitBefore
<1>5. \A e \in {"idle", "rust"} : BoxesOf(js, [state EXCEPT ![b] = e])
  <2>1. BoxesOf(jobs, state) /\ state \in BoxStates
    BY BoxesAre
  <2>2. jobs[current].state \in Unsettled
    BY <1>1 DEF Unsettled
  <2>3. QED
    BY <1>1, <2>1, <2>2, SettleBox
<1>6. CASE how = "result" /\ next <= Len(Commands[b])
  <2>1. /\ Begin(b, next)
        /\ StartOn(IF Commands[b][next] = "python" THEN Append(js, Job(b)) ELSE js, current + 1, w)
    BY <1>6 DEF Settle
  <2>2. next \in 1 .. Len(Commands[b])
    <3>1. step[b] \in Nat /\ Len(Commands[b]) \in Nat
      BY <1>1, <1>2, EnginesOfCommands DEF BoxesTyped
    <3>2. QED
      BY <1>6, <3>1
  <2>3. /\ BoxesTyped'
        /\ state' = [state EXCEPT ![b] = Commands[b][next]]
        /\ Commands[b][next] \in {"python", "rust"}
    BY <1>1, <1>2, <2>1, <2>2, BeginTyped
  <2>4. CASE Commands[b][next] = "python"
    <3>1. StartOn(Append(js, Job(b)), current + 1, w)
      BY <2>1, <2>4
    <3>2. /\ Append(js, Job(b)) \in Seq(JobType) /\ Len(Append(js, Job(b))) = n + 1
          /\ Append(js, Job(b))[n + 1].state = "waiting"
          /\ \A j \in 1 .. n : Append(js, Job(b))[j] = js[j]
      BY <1>2, <1>3, OneMoreRun DEF Job
    <3>3. SplitBefore(Append(js, Job(b)), current + 1)
      <4>1. \A j \in 1 .. n + 1 : j \in 1 .. n \/ (j = n + 1 /\ ~(j < current + 1))
        BY <1>1
      <4>2. QED
        BY <1>3, <1>4, <3>2, <4>1 DEF SplitBefore
    <3>4. /\ Free(w, Len(Append(js, Job(b))))
          /\ current + 1 \in 1 .. Len(Append(js, Job(b))) + 1
      <4>1. Free(w, n + 1) /\ current + 1 \in 1 .. (n + 1) + 1
        BY <1>1, WorkerOfMore
      <4>2. QED
        BY <3>2, <4>1
    <3>5. Queued(Append(js, Job(b)))
      BY <3>1, <3>2, <3>3, <3>4, StartOnQueues
    <3>6. BoxesOf(Append(js, Job(b)), state')
      <4>1. /\ [state EXCEPT ![b] = "idle"] \in BoxStates
            /\ [state EXCEPT ![b] = "idle"][b] # "python"
            /\ [[state EXCEPT ![b] = "idle"] EXCEPT ![b] = "python"]
                  = [state EXCEPT ![b] = "python"]
        BY <1>1, <1>2 DEF BoxesTyped, BoxStates
      <4>2. BoxesOf(js, [state EXCEPT ![b] = "idle"])
        BY <1>5
      <4>3. BoxesOf(Append(js, Job(b)), [[state EXCEPT ![b] = "idle"] EXCEPT ![b] = "python"])
        BY <1>2, <1>3, <4>1, <4>2, AskBox
      <4>4. QED
        BY <2>3, <2>4, <4>1, <4>3
    <3>7. QED
      BY <2>3, <3>2, <3>5, <3>6, StepKeeps
  <2>5. CASE Commands[b][next] # "python"
    <3>1. StartOn(js, current + 1, w) /\ current + 1 \in 1 .. n + 1
      BY <1>1, <2>1, <2>5
    <3>2. Queued(js)
      BY <1>3, <1>4, <3>1, StartOnQueues
    <3>3. BoxesOf(js, state')
      BY <1>5, <2>3, <2>5
    <3>4. QED
      BY <1>3, <2>3, <3>2, <3>3, StepKeeps
  <2>6. QED
    BY <2>4, <2>5
<1>7. CASE ~(how = "result" /\ next <= Len(Commands[b]))
  <2>1. Finish(b) /\ StartOn(js, current + 1, w) /\ current + 1 \in 1 .. n + 1
    BY <1>1, <1>7 DEF Settle
  <2>2. Queued(js)
    BY <1>3, <1>4, <2>1, StartOnQueues
  <2>3. BoxesTyped' /\ state' = [state EXCEPT ![b] = "idle"]
    BY <1>1, <1>2, <2>1, FinishTyped
  <2>4. BoxesOf(js, state')
    BY <1>5, <2>3
  <2>5. QED
    BY <1>3, <2>2, <2>3, <2>4, StepKeeps
<1>8. QED
  BY <1>6, <1>7

LEMMA RunKeeps ==
    ASSUME RunnerIInv, NEW b \in Boxes, Run(b)
    PROVE  RunnerIInv'
<1>1. PageTyped'
  BY RunnerAssumption DEF RunnerIInv, TypeOK, PageTyped, Run, RunnerAssumption
<1>2. 1 \in 1 .. Len(Commands[b])
  BY EnginesOfCommands
<1>3. QED
  BY <1>1, <1>2, RunOneKeeps DEF Run

LEMMA StopKeeps ==
    ASSUME RunnerIInv, NEW b \in Boxes, Stop(b)
    PROVE  RunnerIInv'
<1>1. PageTyped'
  BY Typed DEF RunnerIInv, PageTyped, Stop
<1>2. Free(NoWorker, Len(jobs)) /\ "stopped" \in Settled
  BY DEF Free, Settled
<1>3. QED
  BY <1>1, <1>2, SettleKeeps DEF Stop

\* A worker whose script is loading, or loaded, has the run in progress if there is one.
LEMMA TheWorker ==
    ASSUME RunnerIInv, worker.script \in {"loading", "ok"}
    PROVE  worker \in WorkerOf(Len(jobs)) /\ HasTheRun(worker)
<1>1. worker # NoWorker /\ worker.script # "dead"
  BY DEF NoWorker
<1>2. QED
  BY <1>1 DEF RunnerIInv, TypeOK, WorkerHasTheRun

\* A step of the worker's own.
LEMMA WorkerKeeps ==
    ASSUME RunnerIInv, UNCHANGED <<jobs, current, state, step, rust, manifest, online, clicks>>,
           worker' \in WorkerOf(Len(jobs)), HasTheRun(worker')
    PROVE  RunnerIInv'
<1>1. WorkerHasTheRun'
  BY DEF WorkerHasTheRun, HasTheRun
<1>2. TypeOK'
  BY DEF RunnerIInv, TypeOK
<1>3. QueueIsSplit' /\ BoxesHaveOneRun'
  BY DEF RunnerIInv, QueueIsSplit, BoxesHaveOneRun
<1>4. QED
  BY <1>1, <1>2, <1>3 DEF RunnerIInv

LEMMA WorkerLoadsKeeps == RunnerIInv /\ WorkerLoads => RunnerIInv'
<1> SUFFICES ASSUME RunnerIInv, WorkerLoads
             PROVE  RunnerIInv'
  OBVIOUS
<1>1. worker \in WorkerOf(Len(jobs)) /\ HasTheRun(worker)
  BY TheWorker DEF WorkerLoads
<1>2. current # 0 /\ worker.settles = current
  BY <1>1 DEF HasTheRun, WorkerLoads
<1>3. CASE online
  <2>1. worker' = [worker EXCEPT !.script = "ok"]
    BY <1>3 DEF WorkerLoads
  <2>2. worker' \in WorkerOf(Len(jobs)) /\ HasTheRun(worker')
    BY <1>1, <2>1 DEF WorkerOf, HasTheRun
  <2>3. QED
    BY <1>3, <2>2, WorkerKeeps DEF WorkerLoads
<1>4. CASE ~online
  <2>1. Settle(current, "failed", [worker EXCEPT !.script = "dead"])
    BY <1>2, <1>4 DEF WorkerLoads
  <2>2. Free([worker EXCEPT !.script = "dead"], Len(jobs))
    BY <1>1 DEF WorkerOf, Free
  <2>3. PageTyped' /\ "failed" \in Settled
    BY Typed DEF RunnerIInv, PageTyped, WorkerLoads, Settled
  <2>4. QED
    BY <1>2, <2>1, <2>2, <2>3, SettleKeeps
<1>5. QED
  BY <1>3, <1>4

LEMMA BeginRunKeeps == RunnerIInv /\ BeginRun => RunnerIInv'
<1> SUFFICES ASSUME RunnerIInv, BeginRun
             PROVE  RunnerIInv'
  OBVIOUS
<1>1. worker \in WorkerOf(Len(jobs)) /\ HasTheRun(worker)
  BY TheWorker DEF BeginRun
<1>2. /\ current # 0 /\ worker.settles = current
      /\ worker.inbox = <<current>> /\ worker.answer = "none"
  BY <1>1 DEF HasTheRun, BeginRun
<1>3. Head(worker.inbox) = current /\ Tail(worker.inbox) = <<>>
  BY <1>2
<1>4. current \in 0 .. Len(jobs) /\ <<>> \in Seq(1 .. Len(jobs))
  BY DEF RunnerIInv, TypeOK
<1>5. worker' = [worker EXCEPT !.run = current, !.inbox = <<>>,
                               !.stage = IF worker.ready = "resolved" THEN "python" ELSE "setup",
                               !.ready = IF @ = "null" THEN "pending" ELSE @]
  BY <1>3 DEF BeginRun
<1>6. worker' \in WorkerOf(Len(jobs))
  BY <1>1, <1>4, <1>5 DEF WorkerOf
<1>7. HasTheRun(worker')
  BY <1>1, <1>2, <1>5 DEF WorkerOf, HasTheRun, BeginRun
<1>8. QED
  BY <1>6, <1>7, WorkerKeeps DEF BeginRun

\* A worker at work on the run in progress.
LEMMA AtWork ==
    ASSUME RunnerIInv, worker.script = "ok", worker.stage # "idle"
    PROVE  /\ worker \in WorkerOf(Len(jobs)) /\ HasTheRun(worker)
           /\ worker.run = current /\ current # 0 /\ worker.inbox = <<>>
           /\ worker.answer = "none"
<1>1. worker \in WorkerOf(Len(jobs)) /\ HasTheRun(worker)
  BY TheWorker
<1>2. QED
  BY <1>1 DEF HasTheRun

\* What such a worker may become: its run, inbox and callbacks stay.
LEMMA AtWorkKeeps ==
    ASSUME RunnerIInv, worker.script = "ok", worker.stage # "idle",
           UNCHANGED <<jobs, current, state, step, rust, manifest, online, clicks>>,
           NEW answer \in {"none", "result", "failed"},
           NEW stage \in {"idle", "setup", "python", "forever"},
           NEW ready \in {"null", "pending", "resolved"},
           NEW fetched \in {"unasked", "ok", "rejected"}, NEW broken \in BOOLEAN,
           answer = "none" \/ stage = "idle",
           worker' = [worker EXCEPT !.answer = answer, !.stage = stage, !.ready = ready,
                                    !.manifest = fetched, !.broken = broken]
    PROVE  RunnerIInv'
<1>1. /\ worker \in WorkerOf(Len(jobs)) /\ HasTheRun(worker)
      /\ worker.run = current /\ current # 0 /\ worker.inbox = <<>>
  BY AtWork
<1>2. worker' \in WorkerOf(Len(jobs))
  BY <1>1 DEF WorkerOf
<1>3. /\ worker'.settles = worker.settles /\ worker'.inbox = <<>>
      /\ worker'.run = current /\ worker'.script = "ok"
      /\ worker'.answer = answer /\ worker'.stage = stage
  BY <1>1 DEF WorkerOf
<1>4. HasTheRun(worker')
  BY <1>1, <1>3 DEF HasTheRun
<1>5. QED
  BY <1>2, <1>4, WorkerKeeps

LEMMA FetchManifestKeeps == RunnerIInv /\ FetchManifest => RunnerIInv'
<1> SUFFICES ASSUME RunnerIInv, FetchManifest
             PROVE  RunnerIInv'
  OBVIOUS
<1>1. worker \in WorkerOf(Len(jobs)) /\ worker.script = "ok" /\ worker.stage = "setup"
  BY AtWork DEF FetchManifest
<1>2. CASE online
  <2>1. worker' = [worker EXCEPT !.answer = worker.answer, !.stage = "setup",
                      !.ready = worker.ready, !.manifest = "ok", !.broken = worker.broken]
    BY <1>1, <1>2 DEF FetchManifest, WorkerOf
  <2>2. worker.ready \in {"null", "pending", "resolved"} /\ worker.broken \in BOOLEAN
    BY <1>1 DEF WorkerOf
  <2>3. worker.answer = "none"
    BY <1>1, AtWork
  <2>4. QED
    BY <1>1, <2>1, <2>2, <2>3, AtWorkKeeps DEF FetchManifest
<1>3. CASE ~online
  <2>1. worker' = [worker EXCEPT !.answer = "failed", !.stage = "idle",
                      !.ready = "null", !.manifest = "rejected", !.broken = worker.broken]
    BY <1>1, <1>3 DEF FetchManifest, SetUpFailed, Answer, WorkerOf
  <2>2. worker.broken \in BOOLEAN
    BY <1>1 DEF WorkerOf
  <2>3. QED
    BY <1>1, <2>1, <2>2, AtWorkKeeps DEF FetchManifest
<1>4. QED
  BY <1>2, <1>3

LEMMA SetUpKeeps == RunnerIInv /\ SetUp => RunnerIInv'
<1> SUFFICES ASSUME RunnerIInv, SetUp
             PROVE  RunnerIInv'
  OBVIOUS
<1>1. worker \in WorkerOf(Len(jobs)) /\ worker.script = "ok" /\ worker.stage = "setup"
      /\ worker.answer = "none"
  BY AtWork DEF SetUp
<1>2. worker.broken \in BOOLEAN /\ worker.manifest \in {"unasked", "ok", "rejected"}
  BY <1>1 DEF WorkerOf
<1>3. \/ worker' = [worker EXCEPT !.answer = worker.answer, !.stage = "python",
                       !.ready = "resolved", !.manifest = worker.manifest,
                       !.broken = worker.broken]
      \/ worker' = [worker EXCEPT !.answer = "failed", !.stage = "idle", !.ready = "null",
                       !.manifest = worker.manifest, !.broken = worker.broken]
  BY <1>1 DEF SetUp, SetUpFailed, Answer, WorkerOf
<1>4. QED
  BY <1>1, <1>2, <1>3, AtWorkKeeps DEF SetUp

LEMMA RunPythonKeeps == RunnerIInv /\ RunPython => RunnerIInv'
<1> SUFFICES ASSUME RunnerIInv, RunPython
             PROVE  RunnerIInv'
  OBVIOUS
<1>1. worker \in WorkerOf(Len(jobs)) /\ worker.script = "ok" /\ worker.stage = "python"
      /\ worker.answer = "none"
  BY AtWork DEF RunPython
<1>2. /\ worker.ready \in {"null", "pending", "resolved"}
      /\ worker.manifest \in {"unasked", "ok", "rejected"}
      /\ worker.broken \in BOOLEAN
  BY <1>1 DEF WorkerOf
<1>3. ASSUME NEW how \in {"result", "failed"}, NEW dies \in BOOLEAN,
             worker' = [worker EXCEPT !.answer = how, !.stage = "idle", !.ready = worker.ready,
                           !.manifest = worker.manifest, !.broken = dies]
      PROVE  RunnerIInv'
  BY ZenonT(30), <1>1, <1>2, <1>3, AtWorkKeeps DEF RunPython
<1>4. CASE worker' = Answer(worker, "result") \/ worker' = Answer(worker, "failed")
  <2>1. PICK how \in {"result", "failed"} :
           worker' = [worker EXCEPT !.answer = how, !.stage = "idle", !.ready = worker.ready,
                         !.manifest = worker.manifest, !.broken = worker.broken]
    BY ZenonT(30), <1>1, <1>4 DEF Answer, WorkerOf
  <2>2. QED
    BY <1>2, <1>3, <2>1
<1>5. CASE worker' = [Answer(worker, "failed") EXCEPT !.broken = TRUE]
  <2>1. worker' = [worker EXCEPT !.answer = "failed", !.stage = "idle", !.ready = worker.ready,
                      !.manifest = worker.manifest, !.broken = TRUE]
    BY <1>1, <1>5 DEF Answer, WorkerOf
  <2>2. QED
    BY <1>3, <2>1
<1>6. CASE worker' = [worker EXCEPT !.stage = "forever"]
  <2>1. worker' = [worker EXCEPT !.answer = worker.answer, !.stage = "forever",
                      !.ready = worker.ready, !.manifest = worker.manifest,
                      !.broken = worker.broken]
    BY <1>1, <1>6 DEF WorkerOf
  <2>2. QED
    BY <1>1, <1>2, <2>1, AtWorkKeeps DEF RunPython
<1>7. QED
  BY <1>4, <1>5, <1>6 DEF RunPython

LEMMA DeliverKeeps == RunnerIInv /\ Deliver => RunnerIInv'
<1> SUFFICES ASSUME RunnerIInv, Deliver
             PROVE  RunnerIInv'
  OBVIOUS
<1> DEFINE w == [worker EXCEPT !.answer = "none", !.run = 0]
<1>1. worker \in WorkerOf(Len(jobs)) /\ HasTheRun(worker) /\ worker.script = "ok"
  BY TheWorker DEF Deliver
<1>2. /\ worker.run = current /\ current # 0 /\ worker.inbox = <<>>
      /\ worker.settles = current /\ worker.stage = "idle"
  BY <1>1 DEF HasTheRun, Deliver
<1>3. worker.answer \in Settled
  BY <1>1 DEF WorkerOf, Settled, Deliver
<1>4. Free(w, Len(jobs))
  <2>1. 0 \in 0 .. Len(jobs)
    <3>1. Len(jobs) \in Nat
      BY DEF RunnerIInv, TypeOK
    <3>2. QED
      BY <3>1
  <2>2. w \in WorkerOf(Len(jobs))
    BY <1>1, <2>1 DEF WorkerOf
  <2>3. /\ w.script = "ok" /\ w.inbox = <<>> /\ w.run = 0
        /\ w.answer = "none" /\ w.stage = "idle"
    BY <1>1, <1>2 DEF WorkerOf
  <2>4. QED
    BY <2>2, <2>3 DEF Free
<1>5. PageTyped' /\ Settle(current, worker.answer, w)
  BY <1>2, Typed DEF RunnerIInv, PageTyped, Deliver
<1>6. QED
  BY <1>2, <1>3, <1>4, <1>5, SettleKeeps

LEMMA RustLoadsKeeps == RunnerIInv /\ RustLoads => RunnerIInv'
<1> SUFFICES ASSUME RunnerIInv, RustLoads
             PROVE  RunnerIInv'
  OBVIOUS
<1>1. BoxesTyped /\ PageTyped
  BY Typed DEF RunnerIInv
<1>2. PageTyped'
  BY <1>1 DEF PageTyped, RustLoads
<1>3. BoxesTyped' /\ \A b \in Boxes : state'[b] = "python" <=> state[b] = "python"
  <2>1. CASE online /\ manifest # "rejected"
    BY <1>1, <2>1 DEF RustLoads, BoxesTyped
  <2>2. CASE ~(online /\ manifest # "rejected")
    <3>1. /\ rust' = "null"
          /\ state' = [b \in Boxes |-> IF b \in Waiting THEN "idle" ELSE state[b]]
          /\ step' = [b \in Boxes |-> IF b \in Waiting THEN 0 ELSE step[b]]
      BY <2>2 DEF RustLoads
    <3>2. \A b \in Boxes : 0 <= Len(Commands[b])
      BY EnginesOfCommands
    <3>3. step' \in [Boxes -> Nat] /\ \A b \in Boxes : step'[b] <= Len(Commands[b])
      BY <1>1, <3>1, <3>2 DEF BoxesTyped
    <3>4. state' \in BoxStates
      BY <1>1, <3>1 DEF BoxesTyped, BoxStates
    <3>5. \A b \in Boxes : state'[b] = "python" <=> state[b] = "python"
      BY <3>1 DEF Waiting
    <3>6. QED
      BY <3>1, <3>3, <3>4, <3>5 DEF BoxesTyped
  <2>3. QED
    BY <2>1, <2>2
<1>4. UNCHANGED <<jobs, current, worker>>
  BY DEF RustLoads
<1>5. QED
  BY <1>2, <1>3, <1>4, QueueLeftAlone, OtherBoxes, StepKeeps

LEMMA RustRunsKeeps ==
    ASSUME RunnerIInv, NEW b \in Boxes, RustRuns(b)
    PROVE  RunnerIInv'
<1>1. BoxesTyped /\ PageTyped' /\ state[b] = "rust"
  BY Typed DEF RunnerIInv, PageTyped, RustRuns, Waiting
<1>2. CASE step[b] < Len(Commands[b]) /\ RunOne(b, step[b] + 1)
  <2>1. step[b] \in Nat /\ Len(Commands[b]) \in Nat
    BY <1>1, EnginesOfCommands DEF BoxesTyped
  <2>2. step[b] + 1 \in 1 .. Len(Commands[b])
    BY <1>2, <2>1
  <2>3. QED
    BY <1>1, <1>2, <2>2, RunOneKeeps
<1>3. CASE Finish(b) /\ UNCHANGED <<jobs, current, worker>>
  <2>1. BoxesTyped' /\ state' = [state EXCEPT ![b] = "idle"]
    BY <1>1, <1>3, FinishTyped
  <2>2. \A c \in Boxes : state'[c] = "python" <=> state[c] = "python"
    BY <1>1, <2>1 DEF BoxesTyped, BoxStates
  <2>3. QED
    BY <1>1, <1>3, <2>1, <2>2, QueueLeftAlone, OtherBoxes, StepKeeps
<1>4. QED
  BY <1>2, <1>3 DEF RustRuns

LEMMA OutageKeeps == RunnerIInv /\ (Outage \/ UNCHANGED vars) => RunnerIInv'
<1> SUFFICES ASSUME RunnerIInv, Outage \/ UNCHANGED vars
             PROVE  RunnerIInv'
  OBVIOUS
<1>1. /\ UNCHANGED <<jobs, current, worker, state, step, rust>>
      /\ BoxesTyped' /\ PageTyped'
  BY Typed DEF RunnerIInv, BoxesTyped, PageTyped, Outage, vars
<1>2. QED
  BY <1>1, QueueLeftAlone, OtherBoxes, StepKeeps

(***************************************************************************)
(* The theorems                                                            *)
(***************************************************************************)

\* The page as it loads.
LEMMA RunnerInit == Init => RunnerIInv
<1> SUFFICES ASSUME Init
             PROVE  RunnerIInv
  OBVIOUS
<1>1. \A b \in Boxes : 0 <= Len(Commands[b])
  BY EnginesOfCommands
<1>2. TypeOK
  BY <1>1, RunnerAssumption DEF Init, TypeOK, RunnerAssumption
<1>3. QueueIsSplit /\ WorkerHasTheRun /\ BoxesHaveOneRun
  BY DEF Init, QueueIsSplit, WorkerHasTheRun, BoxesHaveOneRun
<1>4. QED
  BY <1>2, <1>3 DEF RunnerIInv

\* Every step of the page, the worker and the network keeps the invariant.
LEMMA RunnerStep == RunnerIInv /\ [Next]_vars => RunnerIInv'
<1> SUFFICES ASSUME RunnerIInv, [Next]_vars
             PROVE  RunnerIInv'
  OBVIOUS
<1>1. CASE \E b \in Boxes : Run(b)
  BY <1>1, RunKeeps
<1>2. CASE \E b \in Boxes : Stop(b)
  BY <1>2, StopKeeps
<1>3. CASE WorkerStep
  BY <1>3, WorkerLoadsKeeps, BeginRunKeeps, FetchManifestKeeps, SetUpKeeps, RunPythonKeeps,
     DeliverKeeps DEF WorkerStep
<1>4. CASE RustStep
  BY <1>4, RustLoadsKeeps, RustRunsKeeps DEF RustStep
<1>5. CASE Outage \/ UNCHANGED vars
  BY <1>5, OutageKeeps
<1>6. QED
  BY <1>1, <1>2, <1>3, <1>4, <1>5 DEF Next

\* The queue, the worker and the boxes stay tied together as RunnerIInv says (runner.js,
\* python-worker.js, workbench.js, commands.js).
THEOREM RunnerInvariant == Spec => []RunnerIInv
BY RunnerInit, RunnerStep, PTL DEF Spec

\* Every variable has the type of what it stands for.
THEOREM RunnerTypes == Spec => []TypeOK
<1>1. RunnerIInv => TypeOK
  BY DEF RunnerIInv
<1>2. QED
  BY <1>1, RunnerInvariant, PTL

\* Runs go one at a time, in the order they were asked for (runner.js: "Runs queue").
THEOREM RunsGoInOrder == Spec => []OneAtATimeInOrder
<1>1. RunnerIInv => OneAtATimeInOrder
  <2> SUFFICES ASSUME RunnerIInv, NEW i \in DOMAIN jobs, NEW j \in DOMAIN jobs,
                      i < j, jobs[j].state # "waiting"
               PROVE  jobs[i].state \in Settled
    BY DEF OneAtATimeInOrder
  <2>1. /\ i \in Nat /\ j \in Nat /\ current \in Nat
        /\ i \in DOMAIN jobs /\ j \in DOMAIN jobs
    BY DEF RunnerIInv, TypeOK
  <2>2. current = 0 \/ ~(j > current)
    BY <2>1 DEF RunnerIInv, QueueIsSplit
  <2>3. current = 0 \/ i < current
    BY <2>1, <2>2
  <2>4. QED
    BY <2>1, <2>3 DEF RunnerIInv, QueueIsSplit
<1>2. QED
  BY <1>1, RunnerInvariant, PTL

\* Stop finds the run in progress, and no other (runner.js `current`).
THEOREM StopFindsTheRunAlways == Spec => []StopFindsTheRun
<1>1. RunnerIInv => StopFindsTheRun
  <2> SUFFICES ASSUME RunnerIInv, NEW j \in DOMAIN jobs
               PROVE  jobs[j].state = "started" <=> current = j
    BY DEF StopFindsTheRun
  <2>1. j \in Nat /\ current \in Nat
    BY DEF RunnerIInv, TypeOK
  <2>2. j # current => jobs[j].state # "started"
    BY <2>1 DEF RunnerIInv, QueueIsSplit, Settled
  <2>3. QED
    BY <2>2 DEF RunnerIInv, QueueIsSplit
<1>2. QED
  BY <1>1, RunnerInvariant, PTL

\* An answer reaches the run it answers (runner.js worker.onmessage).
THEOREM AnswersReachTheirRun == Spec => []AnswersItsOwnRun
<1>1. RunnerIInv => AnswersItsOwnRun
  BY DEF RunnerIInv, WorkerHasTheRun, HasTheRun, AnswersItsOwnRun
<1>2. QED
  BY <1>1, RunnerInvariant, PTL

\* A box waits for Python exactly while one run of its own is unsettled (workbench.js,
\* commands.js).
THEOREM BoxesWaitForTheirRun == Spec => []BoxesWaitForTheirOwnRun
<1>1. RunnerIInv => BoxesWaitForTheirOwnRun
  <2> SUFFICES ASSUME RunnerIInv, NEW b \in Boxes
               PROVE  Cardinality({j \in DOMAIN jobs : jobs[j].box = b /\ jobs[j].state \in Unsettled})
                         = IF state[b] = "python" THEN 1 ELSE 0
    BY DEF BoxesWaitForTheirOwnRun
  <2> DEFINE own == {j \in DOMAIN jobs : jobs[j].box = b /\ jobs[j].state \in Unsettled}
  <2>1. CASE state[b] = "python"
    <3>1. PICK j \in own : TRUE
      BY <2>1 DEF RunnerIInv, BoxesHaveOneRun
    <3>2. own = {j}
      BY <3>1 DEF RunnerIInv, BoxesHaveOneRun
    <3>3. QED
      BY <2>1, <3>2, FS_Singleton
  <2>2. CASE state[b] # "python"
    <3>1. own = {}
      BY <2>2 DEF RunnerIInv, BoxesHaveOneRun
    <3>2. QED
      BY <2>2, <3>1, FS_EmptySet
  <2>3. QED
    BY <2>1, <2>2
<1>2. QED
  BY <1>1, RunnerInvariant, PTL

(***************************************************************************)
(* The action property                                                     *)
(***************************************************************************)

\* What has settled stays, and only the run in progress settles.
OneSettles ==
    \A j \in DOMAIN jobs :
        /\ jobs[j].state \in Settled => jobs'[j] = jobs[j]
        /\ jobs[j].state \in Unsettled /\ jobs'[j].state \in Settled => j = current

\* Beginning a run changes that run alone.
LEMMA StartChangesOne ==
    ASSUME NEW js \in Seq(JobType), NEW k, NEW w, StartOn(js, k, w)
    PROVE  \A j \in 1 .. Len(js) : /\ j # k => jobs'[j] = js[j]
                                   /\ j = k => jobs'[j].state = "started"
<1>1. DOMAIN js = 1 .. Len(js)
  OBVIOUS
<1>2. CASE k \in DOMAIN js
  <2>1. jobs' = [js EXCEPT ![k].state = "started"] /\ k \in 1 .. Len(js)
    BY <1>1, <1>2 DEF StartOn
  <2>2. js[k] \in JobType
    BY <2>1
  <2>3. [js[k] EXCEPT !.state = "started"].state = "started"
    BY <2>2 DEF JobType
  <2>4. jobs' = [js EXCEPT ![k] = [js[k] EXCEPT !.state = "started"]]
    BY <2>1
  <2>5. QED
    BY <1>1, <2>1, <2>3, <2>4
<1>3. CASE k \notin DOMAIN js
  BY <1>1, <1>3 DEF StartOn
<1>4. QED
  BY <1>2, <1>3

LEMMA AskSettlesNone ==
    ASSUME RunnerIInv, NEW b \in Boxes, Ask(b)
    PROVE  \A j \in 1 .. Len(jobs) : jobs'[j] = jobs[j]
<1> DEFINE js == Append(jobs, Job(b))
<1>1. /\ jobs \in Seq(JobType) /\ Len(jobs) \in Nat
      /\ js \in Seq(JobType) /\ Len(js) = Len(jobs) + 1
      /\ \A j \in 1 .. Len(jobs) : js[j] = jobs[j]
  BY OneMoreRun DEF RunnerIInv, TypeOK
<1>2. CASE jobs' = js
  BY <1>1, <1>2
<1>3. CASE StartOn(js, Len(js), worker)
  <2>1. \A j \in 1 .. Len(js) : j # Len(js) => jobs'[j] = js[j]
    BY <1>1, <1>3, StartChangesOne
  <2>2. \A j \in 1 .. Len(jobs) : j \in 1 .. Len(js) /\ j # Len(js)
    BY <1>1
  <2>3. QED
    BY <1>1, <2>1, <2>2
<1>4. QED
  BY <1>2, <1>3 DEF Ask

LEMMA NoneSettles ==
    ASSUME RunnerIInv, \A j \in 1 .. Len(jobs) : jobs'[j] = jobs[j]
    PROVE  OneSettles
<1>1. DOMAIN jobs = 1 .. Len(jobs)
  BY DEF RunnerIInv, TypeOK
<1>2. QED
  BY <1>1 DEF OneSettles, Settled, Unsettled

LEMMA RunOneSettlesNone ==
    ASSUME RunnerIInv, NEW b \in Boxes, NEW i, RunOne(b, i)
    PROVE  OneSettles
<1>1. \A j \in 1 .. Len(jobs) : jobs'[j] = jobs[j]
  BY AskSettlesNone DEF RunOne
<1>2. QED
  BY <1>1, NoneSettles

LEMMA SettleSettlesOne ==
    ASSUME RunnerIInv, current # 0, NEW how \in Settled, NEW w, Settle(current, how, w)
    PROVE  OneSettles
<1> DEFINE n == Len(jobs)
           b == jobs[current].box
           js == [jobs EXCEPT ![current].state = how]
           next == step[b] + 1
<1>1. /\ jobs \in Seq(JobType) /\ n \in Nat /\ DOMAIN jobs = 1 .. n
      /\ current \in 1 .. n /\ jobs[current].state = "started"
  BY CurrentIsInTheQueue DEF RunnerIInv, TypeOK
<1>2. jobs[current] \in JobType
  BY <1>1
<1>3. b \in Boxes
  BY <1>2 DEF JobType
<1>4. /\ js \in Seq(JobType) /\ Len(js) = n
      /\ \A j \in 1 .. n : j # current => js[j] = jobs[j]
  <2>1. [jobs[current] EXCEPT !.state = how] \in JobType
    BY <1>2 DEF JobType
  <2>2. js = [jobs EXCEPT ![current] = [jobs[current] EXCEPT !.state = how]]
    OBVIOUS
  <2>3. QED
    BY <1>1, <2>1, <2>2, ExceptSeq
<1> HIDE DEF js
<1>5. PICK more \in {js, Append(js, Job(b))} : StartOn(more, current + 1, w)
  BY DEF Settle, js
<1>6. more \in Seq(JobType) /\ n <= Len(more) /\ Len(more) \in Nat /\ \A j \in 1 .. n : more[j] = js[j]
  <2>1. CASE more = js
    BY <1>1, <1>4, <2>1
  <2>2. CASE more = Append(js, Job(b))
    <3>1. /\ Append(js, Job(b)) \in Seq(JobType) /\ Len(Append(js, Job(b))) = n + 1
          /\ \A j \in 1 .. n : Append(js, Job(b))[j] = js[j]
      BY <1>3, <1>4, OneMoreRun
    <3>2. QED
      BY <1>1, <2>2, <3>1
  <2>3. QED
    BY <2>1, <2>2
<1>7. \A j \in 1 .. Len(more) : /\ j # current + 1 => jobs'[j] = more[j]
                                /\ j = current + 1 => jobs'[j].state = "started"
  BY <1>5, <1>6, StartChangesOne
<1>8. \A j \in 1 .. n : /\ j # current /\ j # current + 1 => jobs'[j] = jobs[j]
                        /\ j = current + 1 => jobs'[j].state = "started"
  <2>1. \A j \in 1 .. n : j \in 1 .. Len(more)
    BY <1>1, <1>6
  <2>2. QED
    BY <1>4, <1>6, <1>7, <2>1
<1>9. \A j \in 1 .. n : j = current + 1 => jobs[j].state = "waiting"
  BY <1>1 DEF RunnerIInv, QueueIsSplit
<1>10. "started" \notin Settled /\ "waiting" \notin Settled
  BY DEF Settled
<1>11. \A j \in 1 .. n : j # current /\ j # current + 1 =>
          ~(jobs[j].state \in Unsettled /\ jobs'[j].state \in Settled)
  BY <1>8 DEF Settled, Unsettled
<1>12. QED
  BY <1>1, <1>8, <1>9, <1>10, <1>11 DEF OneSettles

\* Only the run in progress settles, and once: stopping one, or a worker's error, leaves the runs
\* in the queue waiting, and a late answer changes nothing that has settled (runner.js).
THEOREM TheCurrentRunSettles == Spec => OnlyTheCurrentRunSettles
<1>1. ASSUME RunnerIInv, [Next]_vars
      PROVE  [OneSettles]_vars
  <2>1. UNCHANGED jobs => OneSettles
    BY <1>1, NoneSettles
  <2>2. ASSUME NEW b \in Boxes, Run(b)
        PROVE  OneSettles
    BY <1>1, <2>2, RunOneSettlesNone DEF Run
  <2>3. ASSUME NEW b \in Boxes, Stop(b)
        PROVE  OneSettles
    BY <1>1, <2>3, SettleSettlesOne DEF Stop, Settled
  <2>4. CASE WorkerLoads
    <3>1. UNCHANGED jobs \/ Settle(worker.settles, "failed", [worker EXCEPT !.script = "dead"])
      BY <2>4 DEF WorkerLoads
    <3>2. current # 0 /\ worker.settles = current
      BY <1>1, <2>4, TheWorker DEF WorkerLoads, HasTheRun
    <3>3. QED
      BY <1>1, <2>1, <3>1, <3>2, SettleSettlesOne DEF Settled
  <2>5. CASE Deliver
    <3>1. worker \in WorkerOf(Len(jobs)) /\ HasTheRun(worker)
      BY <1>1, <2>5, TheWorker DEF Deliver
    <3>2. current # 0 /\ worker.settles = current
      BY <2>5, <3>1 DEF HasTheRun, Deliver
    <3>3. worker.answer \in Settled
      BY <2>5, <3>1 DEF WorkerOf, Settled, Deliver
    <3>4. PICK how, w : how \in Settled /\ Settle(current, how, w)
      BY <2>5, <3>2, <3>3 DEF Deliver
    <3>5. QED
      BY <1>1, <3>2, <3>4, SettleSettlesOne
  <2>6. ASSUME NEW b \in Boxes, RustRuns(b)
        PROVE  OneSettles
    BY <1>1, <2>1, <2>6, RunOneSettlesNone DEF RustRuns
  <2>7. CASE BeginRun \/ FetchManifest \/ SetUp \/ RunPython \/ RustLoads \/ Outage \/ UNCHANGED vars
    BY <2>1, <2>7 DEF BeginRun, FetchManifest, SetUp, RunPython, RustLoads, Outage, vars
  <2>8. QED
    BY <1>1, <2>2, <2>3, <2>4, <2>5, <2>6, <2>7 DEF Next, WorkerStep, RustStep
<1>2. QED
  BY <1>1, RunnerInvariant, PTL DEF Spec, OnlyTheCurrentRunSettles, OneSettles
=============================================================================
