---------------------------- MODULE PythonRunner ----------------------------
(***************************************************************************)
(* web/lab: the one Python worker of a page (runner.js, python-worker.js,  *)
(* pyodide.js) and the boxes that share it: the problems workbench         *)
(* (workbench.js) and the Run buttons on command blocks and walkthrough    *)
(* steps (commands.js), which may also run on the page's Rust reader.      *)
(*                                                                         *)
(* A JavaScript task runs to its end with the promise reactions it causes, *)
(* so an action here is one event: a click, a message delivered, a fetch   *)
(* that answers.  What a run prints is left out; how it ends is kept.      *)
(***************************************************************************)
EXTENDS Integers, Sequences, FiniteSets

CONSTANTS
    Boxes,      \* the boxes on the page
    Commands,   \* box -> the engines of its commands, in order
    CanStop,    \* the boxes with a Stop button; a walkthrough step has none
    MaxClicks   \* bound: clicks on Run

ASSUME RunnerAssumption ==
    /\ IsFiniteSet(Boxes)
    /\ Commands \in [Boxes -> Seq({"python", "rust"}) \ {<<>>}]
    /\ CanStop \subseteq Boxes
    /\ MaxClicks \in Nat

VARIABLES
    jobs,       \* every runPython call so far, in order: its box and how it stands
    current,    \* runner.js `current`: the run in progress, 0 for null
    worker,     \* runner.js `worker`: NoWorker for null
    state,      \* box -> "idle", or the engine it is waiting for
    step,       \* box -> which of its commands is running, 0 when idle
    rust,       \* commands.js `rust`: "null", "loading" or "ok"
    manifest,   \* the page's own packageList promise
    online,     \* the network, as every fetch finds it
    clicks      \* clicks on Run so far

vars == <<jobs, current, worker, state, step, rust, manifest, online, clicks>>

\* A Worker: what the page knows of it (settles: the run whose callbacks are installed),
\* what waits in its two message queues (inbox, answer), and the script's own state.
NoWorker == [script |-> "none"]
NewWorker ==
    [script   |-> "loading",   \* or "ok", or "dead": it could not be loaded
     settles  |-> 0,
     inbox    |-> <<>>,
     answer   |-> "none",      \* or "result", "failed": posted, not yet delivered
     run      |-> 0,           \* the run its onmessage is handling
     stage    |-> "idle",      \* or "setup", "python", "forever"
     ready    |-> "null",      \* or "pending", "resolved"
     manifest |-> "unasked",   \* packageList's promise: or "ok", "rejected"
     broken   |-> FALSE]       \* Python inside has died

Unsettled == {"waiting", "started"}
Settled == {"result", "failed", "stopped"}
Job(b) == [box |-> b, state |-> "waiting"]

Init ==
    /\ jobs = <<>>
    /\ current = 0
    /\ worker = NoWorker
    /\ state = [b \in Boxes |-> "idle"]
    /\ step = [b \in Boxes |-> 0]
    /\ rust = "null"
    /\ manifest = "unasked"
    /\ online = TRUE
    /\ clicks = 0

(***************************************************************************)
(* runner.js                                                               *)
(***************************************************************************)

\* Faulty variant: the callbacks are installed once, when the worker is created.
PostOnce(w, k) ==
    LET up == IF w = NoWorker THEN [NewWorker EXCEPT !.settles = k] ELSE w
    IN  [up EXCEPT !.inbox = Append(@, k)]

\* The worker `w`, or a fresh one if there is none, with run k posted to it.
Post(w, k) ==
    LET up == IF w = NoWorker THEN NewWorker ELSE w
    IN  [up EXCEPT !.settles = k, !.inbox = Append(@, k)]

\* Faulty variant: `current` is not reset when a run settles.
StartOnKeepingCurrent(js, k, w) ==
    IF k \in DOMAIN js
    THEN /\ jobs' = [js EXCEPT ![k].state = "started"]
         /\ current' = k
         /\ worker' = Post(w, k)
    ELSE /\ jobs' = js
         /\ worker' = w
         /\ UNCHANGED current

\* Run k of js begins, if there is one, on worker w.
StartOn(js, k, w) ==
    IF k \in DOMAIN js
    THEN /\ jobs' = [js EXCEPT ![k].state = "started"]
         /\ current' = k
         /\ worker' = Post(w, k)
    ELSE /\ jobs' = js
         /\ current' = 0
         /\ worker' = w

\* Faulty variant: a run does not wait for the queue.
AskUnqueued(b) == StartOn(Append(jobs, Job(b)), Len(jobs) + 1, worker)

\* runPython: the run joins the queue, and begins once the one before it has settled.
Ask(b) ==
    LET js == Append(jobs, Job(b))
    IN  IF \A i \in DOMAIN jobs : jobs[i].state \in Settled
        THEN StartOn(js, Len(js), worker)
        ELSE jobs' = js /\ UNCHANGED <<current, worker>>

(***************************************************************************)
(* The boxes                                                               *)
(***************************************************************************)
\* Faulty variant: a Rust reader that failed to load is not loaded again.
BeginWithoutReader(b, i) ==
    /\ step' = [step EXCEPT ![b] = i]
    /\ state' = [state EXCEPT ![b] = Commands[b][i]]
    /\ rust' = IF Commands[b][i] = "rust" /\ manifest = "unasked" THEN "loading" ELSE rust

Begin(b, i) ==
    /\ step' = [step EXCEPT ![b] = i]
    /\ state' = [state EXCEPT ![b] = Commands[b][i]]
    /\ rust' = IF Commands[b][i] = "rust" /\ rust = "null" THEN "loading" ELSE rust

\* Faulty variants: a box left in a state of its own, or still running.
FinishElsewhere(b) ==
    /\ step' = [step EXCEPT ![b] = 0]
    /\ state' = [state EXCEPT ![b] = "stopped"]
    /\ UNCHANGED rust
FinishRunning(b) ==
    /\ step' = [step EXCEPT ![b] = 0]
    /\ UNCHANGED <<state, rust>>

Finish(b) ==
    /\ step' = [step EXCEPT ![b] = 0]
    /\ state' = [state EXCEPT ![b] = "idle"]
    /\ UNCHANGED rust

\* runOne of a box's command i.
RunOne(b, i) ==
    /\ Begin(b, i)
    /\ IF Commands[b][i] = "python" THEN Ask(b) ELSE UNCHANGED <<jobs, current, worker>>

\* Run j settles.  Its box goes on to its next command after a result, and is idle after
\* the last one or an error; the next run of the queue begins on worker w.
Settle(j, how, w) ==
    LET b    == jobs[j].box
        js   == [jobs EXCEPT ![j].state = how]
        next == step[b] + 1
        more == how = "result" /\ next <= Len(Commands[b])
    IN  IF more
        THEN /\ Begin(b, next)
             /\ StartOn(IF Commands[b][next] = "python" THEN Append(js, Job(b)) ELSE js, j + 1, w)
        ELSE /\ Finish(b)
             /\ StartOn(js, j + 1, w)

Run(b) ==
    /\ state[b] = "idle"
    /\ clicks < MaxClicks
    /\ clicks' = clicks + 1
    /\ RunOne(b, 1)
    /\ UNCHANGED <<manifest, online>>

\* Faulty variants: the worker is not terminated; or it is, but `worker` still names it.
StopWithoutTerminating(b) ==
    /\ b \in CanStop
    /\ state[b] # "idle"
    /\ current # 0
    /\ Settle(current, "stopped", worker)
    /\ UNCHANGED <<manifest, online, clicks>>
StopKeepingWorker(b) ==
    /\ b \in CanStop
    /\ state[b] # "idle"
    /\ current # 0
    /\ Settle(current, "stopped", [worker EXCEPT !.script = "terminated"])
    /\ UNCHANGED <<manifest, online, clicks>>

\* stopPython, from any box that is running: whatever run is in progress is stopped.  The
\* browser empties the message queues of a terminated worker.
Stop(b) ==
    /\ b \in CanStop
    /\ state[b] # "idle"
    /\ current # 0
    /\ Settle(current, "stopped", NoWorker)
    /\ UNCHANGED <<manifest, online, clicks>>

(***************************************************************************)
(* python-worker.js                                                        *)
(***************************************************************************)
\* The script and its imports are fetched.  If they cannot be, the page gets an error
\* event (worker.onerror), and keeps the Worker.
WorkerLoads ==
    /\ worker.script = "loading"
    /\ IF online
       THEN /\ worker' = [worker EXCEPT !.script = "ok"]
            /\ UNCHANGED <<jobs, current, state, step, rust>>
       ELSE Settle(worker.settles, "failed", [worker EXCEPT !.script = "dead"])
    /\ UNCHANGED <<manifest, online, clicks>>

\* onmessage: `ready ||= setup()`, and wait for it.
BeginRun ==
    /\ worker.script = "ok"
    /\ worker.stage = "idle"
    /\ worker.answer = "none"
    /\ worker.inbox # <<>>
    /\ worker' = [worker EXCEPT
          !.run = Head(worker.inbox), !.inbox = Tail(@),
          !.stage = IF worker.ready = "resolved" THEN "python" ELSE "setup",
          !.ready = IF @ = "null" THEN "pending" ELSE @]
    /\ UNCHANGED <<jobs, current, state, step, rust, manifest, online, clicks>>

Answer(w, how) == [w EXCEPT !.answer = how, !.stage = "idle"]

\* Setup rejects: `ready` goes back to null and the run fails.
SetUpFailed(w) == [Answer(w, "failed") EXCEPT !.ready = "null"]

\* packageList: its promise is kept, fulfilled or rejected, for as long as the worker.
\* Setup rejects as soon as it does.
FetchManifest ==
    /\ worker.script = "ok"
    /\ worker.stage = "setup"
    /\ worker.manifest = "unasked"
    /\ worker' = IF online THEN [worker EXCEPT !.manifest = "ok"]
                 ELSE SetUpFailed([worker EXCEPT !.manifest = "rejected"])
    /\ UNCHANGED <<jobs, current, state, step, rust, manifest, online, clicks>>

\* The rest of setup: Pyodide, the reader, the tests and the fixtures.
SetUp ==
    /\ worker.script = "ok"
    /\ worker.stage = "setup"
    /\ worker.manifest # "unasked"
    /\ worker' = IF online /\ worker.manifest = "ok"
                 THEN [worker EXCEPT !.ready = "resolved", !.stage = "python"]
                 ELSE SetUpFailed(worker)
    /\ UNCHANGED <<jobs, current, state, step, rust, manifest, online, clicks>>

\* Python runs the command: to its end, into an error that escapes it, or into one that
\* kills Python (ready stays resolved, and every later run on this worker fails), or it
\* never ends.
RunPython ==
    /\ worker.script = "ok"
    /\ worker.stage = "python"
    /\ \/ /\ ~worker.broken
          /\ worker' = Answer(worker, "result")
       \/ worker' = Answer(worker, "failed")
       \/ worker' = [Answer(worker, "failed") EXCEPT !.broken = TRUE]
       \/ /\ ~worker.broken
          /\ worker' = [worker EXCEPT !.stage = "forever"]
    /\ UNCHANGED <<jobs, current, state, step, rust, manifest, online, clicks>>

\* worker.onmessage in the page: the answer settles the run whose callbacks are installed.
Deliver ==
    /\ worker.script = "ok"
    /\ worker.answer # "none"
    /\ Settle(worker.settles, worker.answer, [worker EXCEPT !.answer = "none", !.run = 0])
    /\ UNCHANGED <<manifest, online, clicks>>

(***************************************************************************)
(* commands.js: the Rust reader                                            *)
(***************************************************************************)
Waiting == {b \in Boxes : state[b] = "rust"}

\* rustReader's promise settles.  Failure resets it, and fails every box awaiting it.
RustLoads ==
    /\ rust = "loading"
    /\ IF online /\ manifest # "rejected"
       THEN /\ rust' = "ok"
            /\ manifest' = "ok"
            /\ UNCHANGED <<state, step>>
       ELSE /\ rust' = "null"
            /\ manifest' \in IF manifest = "unasked" THEN {"unasked", "ok", "rejected"} ELSE {manifest}
            /\ state' = [b \in Boxes |-> IF b \in Waiting THEN "idle" ELSE state[b]]
            /\ step' = [b \in Boxes |-> IF b \in Waiting THEN 0 ELSE step[b]]
    /\ UNCHANGED <<jobs, current, worker, online, clicks>>

\* lab.cli, then the box's next command; a trap in it ends the box's run.
RustRuns(b) ==
    /\ b \in Waiting
    /\ rust = "ok"
    /\ \/ /\ step[b] < Len(Commands[b])
          /\ RunOne(b, step[b] + 1)
       \/ /\ Finish(b)
          /\ UNCHANGED <<jobs, current, worker>>
    /\ UNCHANGED <<manifest, online, clicks>>

Outage == /\ online' = ~online
          /\ UNCHANGED <<jobs, current, worker, state, step, rust, manifest, clicks>>

WorkerStep == WorkerLoads \/ BeginRun \/ FetchManifest \/ SetUp \/ RunPython \/ Deliver
RustStep == RustLoads \/ \E b \in Boxes : RustRuns(b)

Next ==
    \/ \E b \in Boxes : Run(b)
    \/ \E b \in Boxes : Stop(b)
    \/ WorkerStep
    \/ RustStep
    \/ Outage

\* The browser's event loops run the worker and the page; fetches answer, well or not.
\* Nobody has to click, and a run of Python need not end.
Spec == Init /\ [][Next]_vars /\ WF_vars(WorkerStep) /\ WF_vars(RustStep)

(***************************************************************************)
(* Properties                                                              *)
(***************************************************************************)

\* Every variable has the type of what it stands for; a worker knows only runs asked for.
JobType == [box : Boxes, state : Unsettled \cup Settled]
WorkerOf(n) ==
    [script   : {"loading", "ok", "dead"},
     settles  : 1 .. n,
     inbox    : Seq(1 .. n),
     answer   : {"none", "result", "failed"},
     run      : 0 .. n,
     stage    : {"idle", "setup", "python", "forever"},
     ready    : {"null", "pending", "resolved"},
     manifest : {"unasked", "ok", "rejected"},
     broken   : BOOLEAN]

TypeOK ==
    /\ jobs \in Seq(JobType)
    /\ current \in 0 .. Len(jobs)
    /\ worker \in WorkerOf(Len(jobs)) \cup {NoWorker}
    /\ state \in [Boxes -> {"idle", "python", "rust"}]
    /\ step \in [Boxes -> Nat]
    /\ \A b \in Boxes : step[b] <= Len(Commands[b])
    /\ rust \in {"null", "loading", "ok"}
    /\ manifest \in {"unasked", "ok", "rejected"}
    /\ online \in BOOLEAN
    /\ clicks \in 0 .. MaxClicks

\* "Runs queue: one at a time, in the order they were asked for" (runner.js): no run has
\* begun while one asked for before it is not settled, whatever stops, errors and
\* multi-command boxes came between.
OneAtATimeInOrder ==
    \A i, j \in DOMAIN jobs :
        i < j /\ jobs[j].state # "waiting" => jobs[i].state \in Settled

\* `current` is the run in progress: Stop always finds a run that has begun, however its
\* worker stands, and never one that has ended or is still in the queue.
StopFindsTheRun ==
    \A j \in DOMAIN jobs : jobs[j].state = "started" <=> current = j

\* The worker's answer reaches the run it answers: what is being handled, or answered, is
\* the run whose callbacks are installed, and nothing else waits in its inbox.
AnswersItsOwnRun ==
    worker # NoWorker /\ worker.script # "dead" =>
        /\ worker.run # 0 => worker.run = worker.settles /\ worker.inbox = <<>>
        /\ worker.answer # "none" => worker.run = current

\* A box says it is running exactly while a run of its own is unsettled, and has only one:
\* its button never sticks, and never comes back too soon.
BoxesWaitForTheirOwnRun ==
    \A b \in Boxes :
        Cardinality({j \in DOMAIN jobs : jobs[j].box = b /\ jobs[j].state \in Unsettled})
            = IF state[b] = "python" THEN 1 ELSE 0

\* Only the run in progress settles, and once: stopping one, or a worker's error, leaves
\* the runs in the queue waiting, and a late answer changes nothing that has settled.
OnlyTheCurrentRunSettles ==
    [][\A j \in DOMAIN jobs :
          /\ jobs[j].state \in Settled => jobs'[j] = jobs[j]
          /\ jobs[j].state \in Unsettled /\ jobs'[j].state \in Settled => j = current]_vars

(***************************************************************************)
(* The inductive invariant: what ties the queue, the worker and the boxes. *)
(***************************************************************************)

\* The queue is split at `current`: the runs before it have settled, those after it wait.
QueueIsSplit ==
    \A j \in DOMAIN jobs :
        /\ current = 0 \/ j < current => jobs[j].state \in Settled
        /\ j = current => jobs[j].state = "started"
        /\ current # 0 /\ j > current => jobs[j].state = "waiting"

\* A worker that can answer has the run in progress, in its inbox or in hand, and nothing
\* else; with no run in progress it has nothing to do.
HasTheRun(w) ==
    /\ current # 0 => w.settles = current
    /\ \/ w.inbox = <<>> /\ w.run = current
       \/ w.inbox = <<current>> /\ current # 0 /\ w.run = 0
    /\ w.run = 0 => w.answer = "none" /\ w.stage = "idle"
    /\ w.answer = "none" \/ w.stage = "idle"
    /\ w.script = "loading" => current # 0

WorkerHasTheRun == worker # NoWorker /\ worker.script # "dead" => HasTheRun(worker)

\* A box waits for Python exactly while a run of its own is unsettled, and has one at most.
BoxesHaveOneRun ==
    /\ \A b \in Boxes : state[b] = "python" <=>
          \E j \in DOMAIN jobs : jobs[j].box = b /\ jobs[j].state \in Unsettled
    /\ \A i, j \in DOMAIN jobs :
          /\ jobs[i].state \in Unsettled /\ jobs[j].state \in Unsettled
          /\ jobs[i].box = jobs[j].box
          => i = j

RunnerIInv == TypeOK /\ QueueIsSplit /\ WorkerHasTheRun /\ BoxesHaveOneRun

\* What may hold the queue for ever, until somebody stops it: Python code that never ends,
\* and a Worker whose script could not be loaded.
Endless == worker # NoWorker /\ worker.script = "ok" /\ worker.stage = "forever"
Dead == worker # NoWorker /\ worker.script = "dead"

\* Every run that is asked for settles, unless one of those two holds the queue.  (A click
\* asks for at most two Python runs in the instances.)
EveryRunSettles ==
    \A j \in 1 .. 2 * MaxClicks :
        (j \in DOMAIN jobs) ~> ((j \in DOMAIN jobs /\ jobs[j].state \in Settled) \/ [](Endless \/ Dead))

\* A box that waits for the Rust reader does not wait for ever.
RustBoxesFinish == \A b \in Boxes : (state[b] = "rust") ~> (state[b] # "rust")

\* "A run that failed to start (a network error, say) is tried afresh next time"
\* (python-worker.js): setup fails only when it meets a network that is down, not on
\* account of an earlier run's failure.
FailedStartIsTriedAfresh ==
    [][worker # NoWorker /\ worker.script = "ok" /\ worker.stage = "setup"
          /\ worker'.script = "ok" /\ worker'.answer = "failed" => ~online]_vars

=============================================================================
