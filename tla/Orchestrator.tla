---------------------------- MODULE Orchestrator ----------------------------
(***************************************************************************)
(* bench/run.py with svc.sh, reset.sh and the load generator it starts:    *)
(* which service is up, whose data and whose resources a result is of, and *)
(* what is left behind when a step fails, Ctrl-C arrives or run.py is      *)
(* killed and started again.  A run stands for everything started for it:  *)
(* the service process svc.sh launched for r and the load generator        *)
(* started for r are both named r.                                         *)
(***************************************************************************)
EXTENDS Plan, FiniteSets

CONSTANTS
  ReusePort,   \* stacks that listen with SO_REUSEPORT: two can share a port
  Invocations, \* the command lines: [profile, stacks, fresh]
  MaxPlans,    \* bound: how often run.py is started
  MaxAbandoned,\* bound: at how many runs it is killed with something running
  None

Run == [plan : 1..MaxPlans, rep : 0..4, stack : Stacks, scenario : Scenarios,
        config : Configs]

ASSUME InvocationsAssumption ==
  Invocations \subseteq [profile : DOMAIN Profiles, stacks : SUBSET Stacks, fresh : BOOLEAN]
ASSUME ReusePortAssumption == ReusePort \subseteq Stacks
ASSUME BoundsAssumption == MaxPlans \in Nat /\ MaxAbandoned \in Nat
ASSUME NoneAssumption == None \notin Run
ASSUME FiniteAssumption == IsFiniteSet(Stacks) /\ IsFiniteSet(Scenarios)

VARIABLES
  plan,      \* how often run.py was started
  pc,        \* its next step, "off" when it does not run
  planned,   \* every run of its plan
  todo,      \* those not begun
  run,       \* the one it is at
  blocker,   \* the process its step waits for and that does not answer, or None
  procs,     \* living service processes
  listening, \* those that hold their port
  pidfile,   \* .run/{stack}.pid
  loads,     \* living load generators
  files,     \* results/{tag}.json: whose result, who was sampled, who else answered
  index,     \* results/index.json
  db,        \* runs whose orders are in the database
  failed,    \* history: runs of this plan reported as failed
  abandoned  \* history: runs at which run.py was killed

pyVars  == <<plan, planned, todo, run>>
svcVars == <<procs, listening, pidfile>>
genVars == <<loads, files, db>>
history == <<failed, abandoned>>
vars    == <<pc, index, blocker, pyVars, svcVars, genVars, history>>

Result == [run : Run, of : Run \cup {None}, others : SUBSET Run]
Torn   == [run |-> None, of |-> None, others |-> {}]   \* a file whose writing was cut off

TypeOK ==
  /\ plan \in 0..MaxPlans
  /\ pc \in {"off", "reset", "start", "wait", "load", "stop", "halt", "index", "tail"}
  /\ planned \subseteq Run
  /\ todo \subseteq planned
  /\ run \in Run \cup {None}
  /\ blocker \in listening \cup {None}
  /\ blocker # None => pc \in {"reset", "wait", "tail"}
  /\ pc \in {"reset", "start", "wait", "load", "stop", "halt", "index"} => run \in planned \ todo
  /\ procs \subseteq Run
  /\ listening \subseteq procs
  /\ pidfile \in [Stacks -> Run \cup {None}]
  /\ loads \subseteq [run : Run, pid : Run \cup {None}, others : SUBSET Run,
                      phase : {"warmup", "sampled", "blind"}]
  /\ \A t \in DOMAIN files : files[t] \in Result \cup {Torn}
  /\ index.plan \in 0..MaxPlans /\ index.running \in BOOLEAN
  /\ db \subseteq Run /\ failed \subseteq Run /\ abandoned \subseteq Run

\* a checkout of the repository: nothing runs, nothing was measured
Init ==
  /\ plan = 0 /\ pc = "off" /\ planned = {} /\ todo = {} /\ run = None /\ blocker = None
  /\ procs = {} /\ listening = {} /\ pidfile = [s \in Stacks |-> None]
  /\ loads = {} /\ files = <<>> /\ db = {}
  /\ index = [plan |-> 0, done |-> 0, running |-> FALSE, runs |-> {}]
  /\ failed = {} /\ abandoned = {}

Listening(s) == {p \in listening : p.stack = s}
Put(f, k, v) == [x \in DOMAIN f \cup {k} |-> IF x = k THEN v ELSE f[x]]

(***************************************************************************)
(* run.py.                                                                 *)
(***************************************************************************)
\* write_index: every result file that parses, whoever wrote it; the rename
\* makes it one step
WriteIndex(n, done, total, fs) ==
  index' = [plan |-> n, done |-> done, running |-> done < total,
            runs |-> {fs[t] : t \in DOMAIN fs} \ {Torn}]

\* the next run of the shuffled block, repetition by repetition
Next1(left, r) == r \in left /\ \A q \in left : r.rep <= q.rep
Advance(left) ==
  IF left = {} THEN pc' = "tail" /\ run' = None /\ todo' = {}
  ELSE pc' = "reset" /\ \E r \in left : Next1(left, r) /\ run' = r /\ todo' = left \ {r}

\* main up to its loop: --fresh, the plan, an index with nothing done
Launch ==
  /\ pc = "off" /\ plan < MaxPlans
  /\ plan' = plan + 1
  /\ \E v \in Invocations :
       LET block == Block(plan + 1, v.profile, v.stacks) IN
       /\ files' = IF v.fresh THEN <<>> ELSE files
       /\ planned' = block
       /\ Advance(block)
       /\ WriteIndex(plan + 1, 0, Cardinality(block), files')
  /\ failed' = {}
  /\ UNCHANGED <<blocker, svcVars, loads, db, abandoned>>

\* reset_db before a run
Reset_OnlyAtTheEnd ==
  /\ pc = "reset" /\ pc' = "start" /\ blocker' = None
  /\ UNCHANGED <<pyVars, svcVars, genVars, index, history>>
Reset ==
  /\ pc = "reset" /\ pc' = "start" /\ blocker' = None
  /\ db' = {}
  /\ UNCHANGED <<pyVars, svcVars, loads, files, index, history>>

\* reset.sh fails: its CalledProcessError is outside the try and ends run.py
ResetFails ==
  /\ pc \in {"reset", "tail"} /\ pc' = "off" /\ blocker' = None
  /\ UNCHANGED <<pyVars, svcVars, genVars, index, history>>

\* svc.sh start: the process is launched and its pid written at once
Spawn ==
  /\ pc = "start" /\ pc' = "wait"
  /\ procs' = procs \cup {run}
  /\ pidfile' = [pidfile EXCEPT ![run.stack] = run]
  /\ UNCHANGED <<blocker, pyVars, listening, genVars, index, history>>

\* somebody answers on the stack's port: the load generator is started
Healthy ==
  /\ pc = "wait" /\ pc' = "load" /\ blocker' = None
  /\ Listening(run.stack) # {}
  /\ loads' = loads \cup {[run |-> run, pid |-> pidfile[run.stack], others |-> {},
                           phase |-> "warmup"]}
  /\ UNCHANGED <<pyVars, svcVars, files, db, index, history>>

\* 120 polls failed: refused, reset, or answered with an error
Unhealthy_Waits ==
  /\ pc = "wait" /\ procs = {} /\ pc' = "stop" /\ blocker' = None
  /\ failed' = failed \cup {run}
  /\ UNCHANGED <<pyVars, svcVars, genVars, index, abandoned>>
Unhealthy ==
  /\ pc = "wait" /\ pc' = "stop" /\ blocker' = None
  /\ failed' = failed \cup {run}
  /\ UNCHANGED <<pyVars, svcVars, genVars, index, abandoned>>

\* the finally: svc.sh stop kills the process the pid file names
Stop_KeepsProcess ==
  /\ pc \in {"stop", "halt"}
  /\ pc' = IF pc = "halt" THEN "off" ELSE "index"
  /\ pidfile' = [pidfile EXCEPT ![run.stack] = None]
  /\ procs' = procs \ ({pidfile[run.stack]} \cap listening)
  /\ listening' = listening \ {pidfile[run.stack]}
  /\ UNCHANGED <<blocker, pyVars, genVars, index, history>>
Stop ==
  /\ pc \in {"stop", "halt"}
  /\ pc' = IF pc = "halt" THEN "off" ELSE "index"
  /\ pidfile' = [pidfile EXCEPT ![run.stack] = None]
  /\ procs' = procs \ {pidfile[run.stack]}
  /\ listening' = listening \ {pidfile[run.stack]}
  /\ UNCHANGED <<blocker, pyVars, genVars, index, history>>

\* the index after a run, whether it failed or not
Record ==
  /\ pc = "index"
  /\ WriteIndex(plan, index.done + 1, Cardinality(planned), files)
  /\ Advance(todo)
  /\ UNCHANGED <<blocker, plan, planned, svcVars, genVars, history>>

\* the last reset and the last index
Finish ==
  /\ pc = "tail" /\ pc' = "off" /\ blocker' = None
  /\ db' = {}
  /\ WriteIndex(plan, Cardinality(planned), Cardinality(planned), files)
  /\ UNCHANGED <<pyVars, svcVars, loads, files, history>>

\* A step of run.py has to wait for a process that does not answer, and nothing
\* in run.py or its scripts bounds that wait: the poll of svc.sh start, a curl
\* without a timeout, is accepted on the stack's port and not answered; or
\* reset.sh wants a row that an open transaction of a service left behind holds.
Await(p) ==
  /\ blocker = None /\ blocker' = p
  /\ \/ pc = "wait" /\ p \in Listening(run.stack)
     \/ pc \in {"reset", "tail"} /\ p \in listening
  /\ UNCHANGED <<pc, pyVars, svcVars, genVars, index, history>>

(***************************************************************************)
(* The services and the load generators.                                   *)
(***************************************************************************)
CanBind(p) == Listening(p.stack) = {} \/ p.stack \in ReusePort
Bind(p) ==
  /\ p \in procs \ listening /\ CanBind(p)
  /\ listening' = listening \cup {p}
  /\ UNCHANGED <<pc, blocker, pyVars, procs, pidfile, genVars, index, history>>

\* a process ends: its port is taken, it cannot boot, it crashes
Exit_HoldsPort(p) ==
  /\ p \in procs
  /\ procs' = procs \ {p}
  /\ blocker' = IF blocker = p THEN None ELSE blocker
  /\ UNCHANGED <<pc, pyVars, listening, pidfile, genVars, index, history>>
Exit(p) ==
  /\ p \in procs
  /\ procs' = procs \ {p} /\ listening' = listening \ {p}
  /\ blocker' = IF blocker = p THEN None ELSE blocker
  /\ UNCHANGED <<pc, pyVars, pidfile, genVars, index, history>>

\* warm-up over: the sampler reads /proc/pid for the first time.  A start that
\* finds its port taken has ended by then (warm-ups last 2 to 6 seconds).
Measure(g) ==
  /\ g \in loads /\ g.phase = "warmup"
  /\ g.pid \in procs => g.pid \in listening
  /\ loads' = (loads \ {g}) \cup {[g EXCEPT !.phase = IF g.pid \in procs THEN "sampled" ELSE "blind"]}
  /\ UNCHANGED <<pc, blocker, pyVars, svcVars, files, db, index, history>>

\* a process that listens on the port answers
Answer(g, p) ==
  /\ g \in loads /\ p \in Listening(g.run.stack)
  /\ loads' = IF g.phase = "warmup" THEN loads
              ELSE (loads \ {g}) \cup {[g EXCEPT !.others = g.others \cup ({p} \ {g.pid})]}
  /\ db' = IF g.run.scenario = "checkout" THEN db \cup {g.run} ELSE db
  /\ UNCHANGED <<pc, blocker, pyVars, svcVars, files, index, history>>

\* what the sampler hands over: nothing when the process was gone at the first
\* or at the last reading, or when it is late
Samples_Unchecked(g) == {g.pid, None}
Samples(g) == IF g.phase = "sampled" /\ g.pid \in procs THEN {g.pid, None} ELSE {None}

\* what waits for g, if run.py still does
After(g, next) == pc' = IF pc = "load" /\ run = g.run THEN next ELSE pc

\* the measurement is over and its result written
Write(g) ==
  /\ g \in loads /\ g.phase # "warmup"
  /\ loads' = loads \ {g}
  /\ \E of \in Samples(g) : files' = Put(files, Tag(g.run), [run |-> g.run, of |-> of, others |-> g.others])
  /\ After(g, "stop")
  /\ UNCHANGED <<blocker, pyVars, svcVars, db, index, history>>

\* a load generator ends without a result; if it was writing, half a file stays
Gone(g) ==
  /\ loads' = loads \ {g}
  /\ \/ files' = files
     \/ files' = Put(files, Tag(g.run), Torn)

LoadFails(g) ==
  /\ g \in loads /\ Gone(g)
  /\ After(g, "stop")
  /\ failed' = IF pc = "load" /\ run = g.run THEN failed \cup {run} ELSE failed
  /\ UNCHANGED <<blocker, pyVars, svcVars, db, index, abandoned>>

(***************************************************************************)
(* Ctrl-C reaches run.py and the load generator, not the service, which    *)
(* has a session of its own.  A kill ends run.py and nothing else.         *)
(***************************************************************************)
Abandon == abandoned' = abandoned \cup {run} /\ Cardinality(abandoned') <= MaxAbandoned

Interrupt ==
  /\ \/ /\ pc \in {"start", "wait"} /\ pc' = "halt"
        /\ UNCHANGED <<genVars, abandoned>>
     \/ /\ pc = "load" /\ pc' = "halt"
        /\ \E g \in loads : g.run = run /\ Gone(g)
        /\ UNCHANGED <<db, abandoned>>
     \/ /\ pc \in {"reset", "index", "tail"} /\ pc' = "off"
        /\ UNCHANGED <<genVars, abandoned>>
     \/ /\ pc \in {"stop", "halt"} /\ pc' = "off"       \* once more, in the finally
        /\ Abandon
        /\ UNCHANGED genVars
  /\ blocker' = None
  /\ UNCHANGED <<pyVars, svcVars, index, failed>>

Kill ==
  /\ pc # "off" /\ pc' = "off"
  /\ IF pc \in {"wait", "load", "stop", "halt"} THEN Abandon ELSE UNCHANGED abandoned
  /\ blocker' = None
  /\ UNCHANGED <<pyVars, svcVars, genVars, index, failed>>

Finished == pc = "off" /\ plan = MaxPlans /\ UNCHANGED vars

Steps  == Reset \/ ResetFails \/ Spawn \/ Healthy \/ Unhealthy \/ Stop \/ Record \/ Finish
Python == blocker = None /\ Steps
Late   == blocker # None /\ Steps       \* the answer comes after all
Service(p)   == Bind(p) \/ Exit(p)
Generator(g) == Measure(g) \/ Write(g) \/ LoadFails(g) \/ \E p \in procs : Answer(g, p)

Next ==
  \/ Launch \/ Python \/ Late \/ Interrupt \/ Kill \/ Finished
  \/ \E p \in procs : Service(p) \/ Await(p)
  \/ \E g \in loads : Generator(g)

(***************************************************************************)
(* Fairness: run.py and its scripts go on, but not while they wait for a   *)
(* process that does not answer, which nobody obliges to answer or to      *)
(* exit; a service that was launched binds its port or, when it cannot,    *)
(* exits; a load generator, whose requests time out, ends its warm-up and  *)
(* its measurement by the clock.                                           *)
(***************************************************************************)
Settle  == \E p \in procs : Bind(p) \/ (~CanBind(p) /\ p \notin listening /\ Exit(p))
Proceed == \E g \in loads : Measure(g) \/ Write(g)
Spec == Init /\ [][Next]_vars /\ WF_vars(Python) /\ WF_vars(Settle) /\ WF_vars(Proceed)

(***************************************************************************)
(* What the orchestrator has to get right, also when it is killed.         *)
(***************************************************************************)
\* "one service at a time" (run.py:4): a service is up only between its start
\* and the stop in the finally, however the run ends; the exceptions are those
\* a kill of run.py left behind.
OneServiceAtATime ==
  procs \subseteq abandoned \cup (IF pc \in {"wait", "load", "stop", "halt"} THEN {run} ELSE {})

\* "every run faces identical data" (reset.sh:2): from its start on a run finds
\* no order but its own in the database, whatever ran and failed before it; only
\* a load generator that outlived its run.py can add to them.
IdenticalData ==
  pc \in {"start", "wait", "load"} => db \subseteq abandoned \cup {run}

\* The CPU time and memory in a result are those of the process that answered
\* its requests, the only one: an older instance that still holds the port makes
\* the sample empty, not wrong.  It can be wrong only where two instances share
\* the port, after a kill.
SampledIsServed ==
  \A t \in DOMAIN files :
    LET f == files[t] IN
    f.of # None =>
      \/ f.others = {}
      \/ f.run.stack \in ReusePort /\ \E a \in abandoned : a.stack = f.run.stack

\* An index that says the plan is done carries the result of every run of that
\* plan: what stands under a run's name is its own result, unless the run was
\* reported as failed or a load generator of a killed run.py wrote it later.
EveryRunKept ==
  ~index.running =>
    \A r \in {q \in planned : q.plan = index.plan} \ failed :
      \/ \E f \in index.runs : f.run = r
      \/ \E a \in abandoned : Tag(a) = Tag(r)

\* A plan ends, whichever services fail to come up, crash or are left behind,
\* with one exception: it stands for ever where a live process holds what
\* run.py waits for without a timeout, an unanswered health poll or a row that
\* reset.sh has to write.  The measurement itself is no such place.
PlanEnds == (pc # "off" ~> pc = "off") \/ <>[](blocker \in listening)

=============================================================================
