------------------------- MODULE OrchestratorProofs -------------------------
(***************************************************************************)
(* The orchestrator's type invariant, three of its safety invariants, and  *)
(* that no result is lost: an index that says its plan is done has the     *)
(* result of every run of the plan.  For any stacks, scenarios and command *)
(* lines, however often run.py is started and killed.                      *)
(***************************************************************************)
EXTENDS Orchestrator, PlanProofs

(***************************************************************************)
(* Type correctness.                                                       *)
(***************************************************************************)
LEMMA BlockOfRuns ==
  ASSUME NEW n \in 1..MaxPlans, NEW v \in Invocations
  PROVE  /\ Block(n, v.profile, v.stacks) \subseteq Run
         /\ \A r \in Block(n, v.profile, v.stacks) : r.plan = n
<1>1. v.profile \in DOMAIN Profiles /\ v.stacks \subseteq Stacks
  BY InvocationsAssumption
<1>2. Profiles[v.profile].configs \subseteq Configs
  BY <1>1 DEF Configs
<1>3. DOMAIN Profiles = {"smoke", "quick", "full", "final", "deep"}
  BY DEF Profiles
<1>4. Profiles[v.profile].reps \in {1, 3, 5}
  BY <1>1, <1>3 DEF Profiles
<1>5. 0..(Profiles[v.profile].reps - 1) \subseteq 0..4
  BY <1>4
<1>6. QED
  BY <1>1, <1>2, <1>5 DEF Block, Run

LEMMA InitType == Init => TypeOK
  BY BoundsAssumption DEF Init, TypeOK

LEMMA AdvanceType ==
  ASSUME NEW left, left \subseteq planned', Advance(left)
  PROVE  /\ pc' \in {"reset", "tail"}
         /\ todo' \subseteq planned'
         /\ run' \in planned' \cup {None}
         /\ pc' = "reset" => run' \in planned' \ todo'
  BY DEF Advance, Next1

LEMMA TypeStep == TypeOK /\ [Next]_vars => TypeOK'
<1> SUFFICES ASSUME TypeOK, [Next]_vars PROVE TypeOK'
  OBVIOUS
<1> USE DEF TypeOK, pyVars, svcVars, genVars, history
<1>1. CASE Launch
  <2>1. PICK v \in Invocations :
          /\ files' = IF v.fresh THEN <<>> ELSE files
          /\ planned' = Block(plan + 1, v.profile, v.stacks)
          /\ Advance(Block(plan + 1, v.profile, v.stacks))
          /\ WriteIndex(plan + 1, 0, Cardinality(Block(plan + 1, v.profile, v.stacks)), files')
    BY <1>1 DEF Launch
  <2>2. plan + 1 \in 1..MaxPlans /\ plan' = plan + 1
    BY <1>1, BoundsAssumption DEF Launch
  <2>3. planned' \subseteq Run
    BY <2>1, <2>2, BlockOfRuns
  <2>4. /\ pc' \in {"reset", "tail"} /\ todo' \subseteq planned' /\ run' \in planned' \cup {None}
        /\ pc' = "reset" => run' \in planned' \ todo'
    BY <2>1, AdvanceType
  <2>5. \A t \in DOMAIN files' : files'[t] \in Result \cup {Torn}
    BY <2>1
  <2>6. index'.plan \in 0..MaxPlans /\ index'.running \in BOOLEAN
    BY <2>1, <2>2 DEF WriteIndex
  <2>7. /\ procs' = procs /\ listening' = listening /\ pidfile' = pidfile /\ loads' = loads
        /\ db' = db /\ abandoned' = abandoned /\ failed' = {} /\ blocker' = None
    BY <1>1 DEF Launch
  <2>8. QED
    BY <2>2, <2>3, <2>4, <2>5, <2>6, <2>7
<1>2. CASE Reset \/ ResetFails
  BY <1>2 DEF Reset, ResetFails
<1>3. CASE Spawn
  BY <1>3 DEF Spawn
<1>4. CASE Healthy
  <2>1. run \in Run
    BY <1>4 DEF Healthy
  <2>2. pidfile[run.stack] \in Run \cup {None}
    BY <2>1 DEF Run
  <2>3. [run |-> run, pid |-> pidfile[run.stack], others |-> {}, phase |-> "warmup"]
          \in [run : Run, pid : Run \cup {None}, others : SUBSET Run, phase : {"warmup", "sampled", "blind"}]
    BY <2>1, <2>2
  <2>4. QED
    BY <1>4, <2>3 DEF Healthy
<1>5. CASE Unhealthy
  BY <1>5 DEF Unhealthy
<1>6. CASE Stop
  BY <1>6 DEF Stop
<1>7. CASE Record
  <2>1. planned' = planned /\ Advance(todo)
    BY <1>7 DEF Record
  <2>2. /\ pc' \in {"reset", "tail"} /\ todo' \subseteq planned' /\ run' \in planned' \cup {None}
        /\ pc' = "reset" => run' \in planned' \ todo'
    BY <2>1, AdvanceType
  <2>3. index'.plan \in 0..MaxPlans /\ index'.running \in BOOLEAN
    BY <1>7 DEF Record, WriteIndex
  <2>4. QED
    BY <1>7, <2>1, <2>2, <2>3 DEF Record
<1>8. CASE Finish
  BY <1>8 DEF Finish, WriteIndex
<1>9. ASSUME NEW p \in procs, Service(p) PROVE TypeOK'
  BY <1>9 DEF Service, Bind, Exit
<1>10. ASSUME NEW g \in loads, Generator(g) PROVE TypeOK'
  <2>1. CASE Measure(g)
    BY <2>1 DEF Measure
  <2>2. CASE Write(g)
    <3>1. PICK of \in Samples(g) :
            files' = Put(files, Tag(g.run), [run |-> g.run, of |-> of, others |-> g.others])
      BY <2>2 DEF Write
    <3>2. [run |-> g.run, of |-> of, others |-> g.others] \in Result
      BY <3>1 DEF Samples, Result
    <3>3. \A t \in DOMAIN files' : files'[t] \in Result \cup {Torn}
      BY <3>1, <3>2 DEF Put
    <3>4. QED
      BY <2>2, <3>3 DEF Write, After
  <2>3. CASE LoadFails(g)
    <3>1. \A t \in DOMAIN files' : files'[t] \in Result \cup {Torn}
      BY <2>3 DEF LoadFails, Gone, Put
    <3>2. QED
      BY <2>3, <3>1 DEF LoadFails, Gone, After
  <2>4. ASSUME NEW p \in procs, Answer(g, p) PROVE TypeOK'
    BY <2>4 DEF Answer, Listening
  <2>5. QED
    BY <1>10, <2>1, <2>2, <2>3, <2>4 DEF Generator
<1>11. CASE Interrupt
  <2>1. \A t \in DOMAIN files' : files'[t] \in Result \cup {Torn}
    <3>1. files' = files \/ \E g \in loads : files' = Put(files, Tag(g.run), Torn)
      BY <1>11 DEF Interrupt, Gone
    <3>2. \A k : \A t \in DOMAIN Put(files, k, Torn) : Put(files, k, Torn)[t] \in Result \cup {Torn}
      BY DEF Put
    <3>3. CASE files' = files
      BY <3>3
    <3>4. ASSUME NEW g \in loads, files' = Put(files, Tag(g.run), Torn)
          PROVE  \A t \in DOMAIN files' : files'[t] \in Result \cup {Torn}
      BY <3>2, <3>4
    <3>5. QED
      BY <3>1, <3>3, <3>4
  <2>2. abandoned' \subseteq Run
    BY <1>11 DEF Interrupt, Abandon
  <2>3. loads' \subseteq loads /\ db' = db
    BY <1>11 DEF Interrupt, Gone
  <2>4. QED
    BY <1>11, <2>1, <2>2, <2>3 DEF Interrupt
<1>12. CASE Kill
  BY <1>12 DEF Kill, Abandon
<1>13. CASE UNCHANGED vars \/ (\E p \in procs : Await(p))
  BY <1>13 DEF vars, Await, Listening
<1>14. QED
  BY <1>1, <1>2, <1>3, <1>4, <1>5, <1>6, <1>7, <1>8, <1>9, <1>10, <1>11, <1>12, <1>13
  DEF Next, Python, Late, Steps, Finished

\* The type invariant, for any constants that satisfy the assumptions.
THEOREM TypeCorrect == Spec => []TypeOK
  BY InitType, TypeStep, PTL DEF Spec
(***************************************************************************)
(* Safety.  What is not abandoned belongs to the run that run.py is at:    *)
(* the runs of a plan are new, the pid file names the service that was     *)
(* started last, and a load generator measures the service it is named     *)
(* for, under a name no other has.                                         *)
(***************************************************************************)
PlansOrdered ==
  /\ \A x \in planned : x.plan = plan
  /\ \A x \in abandoned : x.plan <= plan /\ (pc # "off" => x.plan < plan)

PidNamesService ==
  /\ pc \in {"wait", "load"} => pidfile[run.stack] = run
  /\ pc \in {"stop", "halt"} /\ run \in procs => pidfile[run.stack] = run

LoadsOwned ==
  /\ \A g \in loads : g.pid = g.run /\ (g.run \in abandoned \/ (pc = "load" /\ g.run = run))
  /\ \A g, h \in loads : g.run = h.run => g = h

OnePort ==
  \A p, q \in listening : p.stack = q.stack /\ p.stack \notin ReusePort => p = q

Shared(s) == s \in ReusePort /\ \E a \in abandoned : a.stack = s

SamplesTrue ==
  \A g \in loads :
    /\ g.phase = "warmup" => g.others = {}
    /\ g.phase = "sampled" /\ g.pid \in procs =>
         g.pid \in listening /\ (g.others = {} \/ Shared(g.run.stack))

Owned == TypeOK /\ PlansOrdered /\ PidNamesService /\ LoadsOwned /\ OneServiceAtATime
IInv  == Owned /\ OnePort /\ SamplesTrue /\ IdenticalData /\ SampledIsServed

\* While run.py runs, the run it is at was never abandoned.
LEMMA RunIsNew ==
  ASSUME TypeOK, PlansOrdered, pc \in {"reset", "start", "wait", "load", "stop", "halt", "index"}
  PROVE  run \in Run /\ run \notin abandoned /\ run.plan = plan /\ plan \in Nat
  BY BoundsAssumption DEF TypeOK, PlansOrdered

LEMMA InitIInv == Init => IInv
  BY InitType DEF Init, IInv, Owned, PlansOrdered, PidNamesService, LoadsOwned, OneServiceAtATime,
     OnePort, SamplesTrue, IdenticalData, SampledIsServed

\* abandoned grows at most by the run run.py is at, when it ends.
LEMMA AbandonedGrows ==
  ASSUME [Next]_vars
  PROVE  /\ abandoned \subseteq abandoned'
         /\ abandoned' # abandoned => pc' = "off" /\ abandoned' = abandoned \cup {run}
                                      /\ pc \in {"wait", "load", "stop", "halt"} /\ UNCHANGED <<plan, planned>>
  BY DEF Next, Python, Late, Steps, Service, Await, Generator, Launch, Reset, ResetFails, Spawn, Healthy, Unhealthy, Stop, Record,
     Finish, Bind, Exit, Measure, Answer, Write, LoadFails, Interrupt, Kill, Finished, Abandon, vars, history, pyVars

LEMMA OwnedStep == Owned /\ [Next]_vars => Owned'
<1> SUFFICES ASSUME Owned, [Next]_vars PROVE Owned'
  OBVIOUS
<1>1. TypeOK /\ TypeOK'
  BY TypeStep DEF Owned
<1>2. PlansOrdered'
  <2>1. CASE Launch
    <3>1. PICK v \in Invocations : planned' = Block(plan + 1, v.profile, v.stacks)
      BY <2>1 DEF Launch
    <3>2. plan' = plan + 1 /\ plan + 1 \in 1..MaxPlans /\ plan \in Nat /\ pc = "off" /\ abandoned' = abandoned
      BY <1>1, <2>1, BoundsAssumption DEF Launch, TypeOK
    <3>3. \A x \in planned' : x.plan = plan'
      BY <3>1, <3>2, BlockOfRuns
    <3>4. \A x \in abandoned : x.plan \in Nat /\ x.plan <= plan
      BY <1>1 DEF Owned, PlansOrdered, TypeOK, Run
    <3>5. QED
      BY <3>2, <3>3, <3>4 DEF PlansOrdered
  <2>2. CASE ~Launch
    <3>1. plan' = plan /\ planned' = planned /\ (pc = "off" => pc' = "off")
      BY <2>2 DEF Next, Python, Late, Steps, Service, Await, Generator, Reset, ResetFails, Spawn, Healthy, Unhealthy, Stop, Record,
         Finish, Bind, Exit, Measure, Answer, Write, LoadFails, After, Interrupt, Kill, Finished, vars, pyVars
    <3>2. CASE abandoned' = abandoned
      BY <3>1, <3>2 DEF Owned, PlansOrdered
    <3>3. CASE abandoned' # abandoned
      <4>1. pc' = "off" /\ abandoned' = abandoned \cup {run} /\ pc \in {"wait", "load", "stop", "halt"}
        BY <3>3, AbandonedGrows
      <4>2. run.plan = plan /\ plan \in Nat
        BY <1>1, <4>1, RunIsNew DEF Owned
      <4>3. QED
        BY <3>1, <4>1, <4>2 DEF Owned, PlansOrdered
    <3>4. QED
      BY <3>2, <3>3
  <2>3. QED
    BY <2>1, <2>2
<1>3. PidNamesService'
  <2> USE <1>1 DEF Owned, TypeOK, PidNamesService, OneServiceAtATime, pyVars, svcVars
  <2>1. CASE Launch
    BY <2>1 DEF Launch, Advance
  <2>2. CASE Reset \/ ResetFails
    BY <2>2 DEF Reset, ResetFails
  <2>3. CASE Spawn
    BY <2>3, RunIsNew DEF Spawn, Run
  <2>4. CASE Healthy
    BY <2>4 DEF Healthy
  <2>5. CASE Unhealthy
    BY <2>5 DEF Unhealthy
  <2>6. CASE Stop
    BY <2>6 DEF Stop
  <2>7. CASE Record \/ Finish
    BY <2>7 DEF Record, Finish, Advance
  <2>8. ASSUME NEW p \in procs, Service(p) PROVE PidNamesService'
    BY <2>8 DEF Service, Bind, Exit
  <2>9. ASSUME NEW g \in loads, Generator(g) PROVE PidNamesService'
    BY <2>9 DEF Generator, Measure, Answer, Write, LoadFails, After
  <2>10. CASE Interrupt
    BY <2>10, RunIsNew DEF Interrupt
  <2>11. CASE Kill \/ UNCHANGED vars \/ (\E p \in procs : Await(p))
    BY <2>11 DEF Kill, vars, Await
  <2>12. QED
    BY <2>1, <2>2, <2>3, <2>4, <2>5, <2>6, <2>7, <2>8, <2>9, <2>10, <2>11 DEF Next, Python, Late, Steps, Finished
<1>4. OneServiceAtATime'
  <2> USE <1>1 DEF Owned, TypeOK, PidNamesService, OneServiceAtATime, pyVars, svcVars, history
  <2>1. CASE Launch
    BY <2>1 DEF Launch, Advance
  <2>2. CASE Reset \/ ResetFails
    BY <2>2 DEF Reset, ResetFails
  <2>3. CASE Spawn
    BY <2>3 DEF Spawn
  <2>4. CASE Healthy
    BY <2>4 DEF Healthy
  <2>5. CASE Unhealthy
    BY <2>5 DEF Unhealthy
  <2>6. CASE Stop
    BY <2>6 DEF Stop
  <2>7. CASE Record \/ Finish
    BY <2>7 DEF Record, Finish, Advance
  <2>8. ASSUME NEW p \in procs, Service(p) PROVE OneServiceAtATime'
    BY <2>8 DEF Service, Bind, Exit
  <2>9. ASSUME NEW g \in loads, Generator(g) PROVE OneServiceAtATime'
    BY <2>9 DEF Generator, Measure, Answer, Write, LoadFails, After
  <2>10. CASE Interrupt
    BY <2>10 DEF Interrupt, Abandon
  <2>11. CASE Kill
    BY <2>11 DEF Kill, Abandon
  <2>12. CASE UNCHANGED vars \/ (\E p \in procs : Await(p))
    BY <2>12 DEF vars, Await
  <2>13. QED
    BY <2>1, <2>2, <2>3, <2>4, <2>5, <2>6, <2>7, <2>8, <2>9, <2>10, <2>11, <2>12 DEF Next, Python, Late, Steps, Finished
<1>5. LoadsOwned'
  <2> USE <1>1 DEF Owned, LoadsOwned, pyVars, svcVars, genVars, history
  <2>1. CASE Launch
    BY <2>1 DEF Launch
  <2>2. CASE Reset \/ ResetFails \/ Spawn \/ Unhealthy \/ Stop \/ Record \/ Finish
    BY <2>2 DEF Reset, ResetFails, Spawn, Unhealthy, Stop, Record, Finish
  <2>3. CASE Healthy
    <3>1. pidfile[run.stack] = run /\ run \notin abandoned
      BY <2>3, RunIsNew DEF Healthy, PidNamesService
    <3>2. \A h \in loads : h.pid = h.run /\ h.run \in abandoned
      BY <2>3 DEF Healthy
    <3> DEFINE new == [run |-> run, pid |-> pidfile[run.stack], others |-> {}, phase |-> "warmup"]
    <3>3. new.run = run /\ new.pid = run
      BY <3>1
    <3>4. loads' = loads \cup {new} /\ pc' = "load" /\ run' = run /\ abandoned' = abandoned
      BY <2>3 DEF Healthy
    <3> HIDE DEF new
    <3>5. QED
      BY <3>1, <3>2, <3>3, <3>4
  <2>4. ASSUME NEW p \in procs, Service(p) PROVE LoadsOwned'
    BY <2>4 DEF Service, Bind, Exit
  <2>5. ASSUME NEW g \in loads, Generator(g) PROVE LoadsOwned'
    <3>1. g.run \in Run
      BY DEF TypeOK
    <3>2. CASE Measure(g) \/ \E p \in procs : Answer(g, p)
      <4>1. \E h : /\ loads' = loads \/ loads' = (loads \ {g}) \cup {h}
                   /\ h.run = g.run /\ h.pid = g.pid
        <5>1. g \in [run : Run, pid : Run \cup {None}, others : SUBSET Run, phase : {"warmup", "sampled", "blind"}]
          BY DEF TypeOK
        <5>2. \A x : [g EXCEPT !.phase = x].run = g.run /\ [g EXCEPT !.phase = x].pid = g.pid
          BY <5>1
        <5>3. \A x : [g EXCEPT !.others = x].run = g.run /\ [g EXCEPT !.others = x].pid = g.pid
          BY <5>1
        <5>4. CASE Measure(g)
          BY <5>2, <5>4 DEF Measure
        <5>5. CASE \E p \in procs : Answer(g, p)
          BY <5>3, <5>5, ZenonT(30) DEF Answer
        <5>6. QED
          BY <3>2, <5>4, <5>5
      <4>2. pc' = pc /\ run' = run /\ abandoned' = abandoned
        BY <3>2 DEF Measure, Answer
      <4>3. PICK h : /\ loads' = loads \/ loads' = (loads \ {g}) \cup {h}
                     /\ h.run = g.run /\ h.pid = g.pid
        BY <4>1
      <4>4. QED
        BY <4>2, <4>3
    <3>3. CASE Write(g) \/ LoadFails(g)
      BY <3>3 DEF Write, LoadFails, Gone, After
    <3>4. QED
      BY <2>5, <3>2, <3>3 DEF Generator
  <2>6. CASE Interrupt
    BY <2>6 DEF Interrupt, Abandon, Gone
  <2>7. CASE Kill
    BY <2>7 DEF Kill, Abandon
  <2>8. CASE UNCHANGED vars \/ (\E p \in procs : Await(p))
    BY <2>8 DEF vars, Await
  <2>9. QED
    BY <2>1, <2>2, <2>3, <2>4, <2>5, <2>6, <2>7, <2>8 DEF Next, Python, Late, Steps, Finished
<1>6. QED
  BY <1>1, <1>2, <1>3, <1>4, <1>5 DEF Owned

\* A port is held by one process, unless the stack lets two share it.
LEMMA OnePortStep == OnePort /\ [Next]_vars => OnePort'
<1> SUFFICES ASSUME OnePort, [Next]_vars PROVE OnePort'
  OBVIOUS
<1>1. CASE listening' \subseteq listening
  BY <1>1 DEF OnePort
<1>2. ASSUME NEW p \in procs, Bind(p) PROVE OnePort'
  <2>1. listening' = listening \cup {p} /\ (Listening(p.stack) = {} \/ p.stack \in ReusePort)
    BY <1>2 DEF Bind, CanBind
  <2>2. QED
    BY <2>1 DEF OnePort, Listening
<1>3. CASE ~(listening' \subseteq listening)
  <2>1. \E p \in procs : Bind(p)
    BY <1>3 DEF Next, Python, Late, Steps, Service, Await, Generator, Launch, Reset, ResetFails, Spawn, Healthy, Unhealthy, Stop, Record,
       Finish, Exit, Measure, Answer, Write, LoadFails, Interrupt, Kill, Finished, vars, svcVars
  <2>2. QED
    BY <2>1, <1>2
<1>4. QED
  BY <1>1, <1>3

\* Two processes of a stack on its port: the stack shares it and one of them was left behind by a kill.
LEMMA TwoOnAPort ==
  ASSUME OneServiceAtATime, OnePort, TypeOK, NEW p \in listening, NEW q \in listening, p # q, p.stack = q.stack
  PROVE  Shared(p.stack)
<1>1. p.stack \in ReusePort
  BY DEF OnePort
<1>2. p \in abandoned \/ q \in abandoned
  BY DEF OneServiceAtATime, TypeOK
<1>3. QED
  BY <1>1, <1>2 DEF Shared

\* Shared of the next state
SharedNext(s) == s \in ReusePort /\ \E a \in abandoned' : a.stack = s

LEMMA SharedStays ==
  ASSUME [Next]_vars, NEW s, Shared(s) PROVE SharedNext(s)
  BY AbandonedGrows DEF Shared, SharedNext

\* Between the first reading and the end a sampled process that lives is the one that answers.
LEMMA SamplesStep == IInv /\ [Next]_vars => SamplesTrue'
<1> SUFFICES ASSUME IInv, [Next]_vars PROVE SamplesTrue'
  OBVIOUS
<1> USE DEF IInv, Owned
<1>1. \A s : Shared(s) => SharedNext(s)
  BY SharedStays
<1> DEFINE Good(g) == /\ g.phase = "warmup" => g.others = {}
                      /\ g.phase = "sampled" /\ g.pid \in procs' =>
                           g.pid \in listening' /\ (g.others = {} \/ SharedNext(g.run.stack))
<1>2. SUFFICES \A g \in loads' : Good(g)
  BY DEF SamplesTrue, Shared, SharedNext
<1>3. \A g \in loads : g.pid \in procs' => g.pid \in procs /\ (g.pid \in listening => g.pid \in listening')
  <2>1. CASE Spawn
    <3>1. run \notin abandoned /\ procs' = procs \cup {run} /\ listening' = listening /\ pc = "start"
      BY <2>1, RunIsNew DEF Spawn
    <3>2. QED
      BY <3>1 DEF LoadsOwned
  <2>2. CASE Stop
    BY <2>2 DEF Stop
  <2>3. ASSUME NEW p \in procs, Service(p) PROVE procs' \subseteq procs /\ \A x \in procs' : x \in listening => x \in listening'
    BY <2>3 DEF Service, Bind, Exit
  <2>4. CASE ~Spawn /\ ~Stop /\ ~(\E p \in procs : Service(p))
    BY <2>4 DEF Next, Python, Late, Steps, Await, Generator, Launch, Reset, ResetFails, Healthy, Unhealthy, Record,
       Finish, Measure, Answer, Write, LoadFails, Interrupt, Kill, Finished, vars, svcVars
  <2>5. QED
    BY <2>1, <2>2, <2>3, <2>4
<1>4. \A g \in loads : Good(g)
  BY <1>1, <1>3 DEF SamplesTrue
<1>5. CASE Healthy
  <2> DEFINE new == [run |-> run, pid |-> pidfile[run.stack], others |-> {}, phase |-> "warmup"]
  <2>1. loads' = loads \cup {new}
    BY <1>5 DEF Healthy
  <2>2. Good(new)
    OBVIOUS
  <2>3. QED
    BY <1>4, <2>1, <2>2
<1>6. ASSUME NEW g \in loads, Measure(g) PROVE \A h \in loads' : Good(h)
  <2>1. g \in [run : Run, pid : Run \cup {None}, others : SUBSET Run, phase : {"warmup", "sampled", "blind"}]
    BY DEF TypeOK
  <2> DEFINE new == [g EXCEPT !.phase = IF g.pid \in procs THEN "sampled" ELSE "blind"]
  <2>2. /\ new.pid = g.pid /\ new.others = g.others
        /\ new.phase = IF g.pid \in procs THEN "sampled" ELSE "blind"
    BY <2>1
  <2>3. /\ g.phase = "warmup" /\ (g.pid \in procs => g.pid \in listening)
        /\ loads' = (loads \ {g}) \cup {new} /\ procs' = procs /\ listening' = listening
    BY <1>6 DEF Measure, svcVars
  <2>4. g.others = {}
    BY <2>3 DEF SamplesTrue
  <2>5. Good(new)
    <3> HIDE DEF new
    <3>1. QED
      BY <2>2, <2>3, <2>4
  <2>6. QED
    <3> HIDE DEF new, Good
    <3>1. QED
      BY <1>4, <2>3, <2>5
<1>7. ASSUME NEW g \in loads, NEW p \in procs, Answer(g, p) PROVE \A h \in loads' : Good(h)
  <2>1. /\ p \in listening /\ p.stack = g.run.stack /\ procs' = procs /\ listening' = listening
        /\ g.pid = g.run
    BY <1>7 DEF Answer, Listening, LoadsOwned, svcVars
  <2>2. CASE loads' = loads
    BY <1>4, <2>2
  <2>3. CASE loads' # loads
    <3>1. g \in [run : Run, pid : Run \cup {None}, others : SUBSET Run, phase : {"warmup", "sampled", "blind"}]
      BY DEF TypeOK
    <3> DEFINE new == [g EXCEPT !.others = g.others \cup ({p} \ {g.pid})]
    <3>2. /\ new.pid = g.pid /\ new.run = g.run /\ new.phase = g.phase
          /\ new.others = g.others \cup ({p} \ {g.pid})
      BY <3>1
    <3>3. loads' = (loads \ {g}) \cup {new} /\ g.phase # "warmup"
      BY <1>7, <2>3 DEF Answer
    <3>4. g.phase = "sampled" /\ g.pid \in procs => g.pid \in listening /\ (p = g.pid \/ Shared(g.run.stack))
      <4>1. SUFFICES ASSUME g.phase = "sampled", g.pid \in procs, p # g.pid
                     PROVE  Shared(g.run.stack)
        BY DEF SamplesTrue
      <4>2. g.pid \in listening
        BY <4>1 DEF SamplesTrue
      <4>3. QED
        BY <2>1, <4>1, <4>2, TwoOnAPort
    <3>5. g.phase = "sampled" /\ g.pid \in procs => g.others = {} \/ Shared(g.run.stack)
      BY DEF SamplesTrue
    <3>6. Good(new)
      <4> HIDE DEF new
      <4>1. QED
        BY <1>1, <2>1, <3>2, <3>3, <3>4, <3>5
    <3>7. QED
      <4> HIDE DEF new, Good
      <4>1. QED
        BY <1>4, <3>3, <3>6
  <2>4. QED
    BY <2>2, <2>3
<1>8. CASE loads' \subseteq loads
  BY <1>4, <1>8
<1>9. CASE /\ ~(loads' \subseteq loads) /\ ~Healthy
           /\ ~(\E g \in loads : Measure(g) \/ \E p \in procs : Answer(g, p))
  BY <1>9 DEF Next, Python, Late, Steps, Service, Await, Generator, Launch, Reset, ResetFails, Spawn, Unhealthy, Stop, Record,
     Finish, Bind, Exit, Write, LoadFails, Gone, Interrupt, Kill, Finished, vars, genVars
<1>10. QED
  BY <1>5, <1>6, <1>7, <1>8, <1>9

LEMMA IdenticalStep == IInv /\ [Next]_vars => IdenticalData'
<1> SUFFICES ASSUME IInv, [Next]_vars PROVE IdenticalData'
  OBVIOUS
<1> USE DEF IInv, Owned, IdenticalData, genVars, pyVars, history
<1>1. CASE Reset
  BY <1>1 DEF Reset
<1>2. CASE Spawn \/ Healthy
  BY <1>2 DEF Spawn, Healthy
<1>3. ASSUME NEW g \in loads, NEW p \in procs, Answer(g, p) PROVE IdenticalData'
  <2>1. g.run \in abandoned \/ (pc = "load" /\ g.run = run)
    BY DEF LoadsOwned
  <2>2. db' \subseteq db \cup {g.run} /\ pc' = pc /\ run' = run /\ abandoned' = abandoned
    BY <1>3 DEF Answer
  <2>3. QED
    BY <2>1, <2>2
<1>4. ASSUME NEW p \in procs, Service(p) PROVE IdenticalData'
  BY <1>4 DEF Service, Bind, Exit
<1>5. ASSUME NEW g \in loads, Measure(g) \/ Write(g) \/ LoadFails(g) PROVE IdenticalData'
  BY <1>5 DEF Measure, Write, LoadFails, After
<1>6. CASE Launch \/ Record \/ Finish
  BY <1>6 DEF Launch, Record, Finish, Advance
<1>7. CASE ResetFails \/ Unhealthy \/ Stop \/ Interrupt \/ Kill
  BY <1>7 DEF ResetFails, Unhealthy, Stop, Interrupt, Kill
<1>8. CASE UNCHANGED vars \/ (\E p \in procs : Await(p))
  BY <1>8 DEF vars, Await
<1>9. QED
  BY <1>1, <1>2, <1>3, <1>4, <1>5, <1>6, <1>7, <1>8 DEF Next, Python, Late, Steps, Generator, Finished

LEMMA SampledStep == IInv /\ [Next]_vars => SampledIsServed'
<1> SUFFICES ASSUME IInv, [Next]_vars PROVE SampledIsServed'
  OBVIOUS
<1> USE DEF IInv, Owned
<1> DEFINE True(f) == f.of # None => f.others = {} \/ SharedNext(f.run.stack)
<1>1. \A s : Shared(s) => SharedNext(s)
  BY SharedStays
<1>2. SUFFICES \A t \in DOMAIN files' : True(files'[t])
  BY DEF SampledIsServed, Shared, SharedNext
<1>3. \A t \in DOMAIN files : True(files[t])
  BY <1>1 DEF SampledIsServed, Shared
<1>4. True(Torn)
  BY DEF Torn
<1>5. ASSUME NEW g \in loads, Write(g) PROVE \A t \in DOMAIN files' : True(files'[t])
  <2>1. PICK of \in Samples(g) :
          files' = Put(files, Tag(g.run), [run |-> g.run, of |-> of, others |-> g.others])
    BY <1>5 DEF Write
  <2> DEFINE new == [run |-> g.run, of |-> of, others |-> g.others]
  <2>2. True(new)
    <3>1. of # None => g.others = {} \/ Shared(g.run.stack)
      BY <2>1 DEF Samples, SamplesTrue
    <3>2. new.run = g.run /\ new.of = of /\ new.others = g.others
      OBVIOUS
    <3> HIDE DEF new
    <3>3. QED
      BY <1>1, <3>1, <3>2
  <2> HIDE DEF new, True
  <2>3. QED
    BY <1>3, <2>1, <2>2 DEF Put, new
<1>6. CASE \E t : files' = Put(files, t, Torn)
  <2> HIDE DEF True
  <2>1. QED
    BY <1>3, <1>4, <1>6 DEF Put
<1>7. CASE files' = files \/ files' = <<>>
  BY <1>3, <1>7
<1>8. files' = files \/ files' = <<>> \/ (\E t : files' = Put(files, t, Torn)) \/ \E g \in loads : Write(g)
  BY DEF Next, Python, Late, Steps, Service, Await, Generator, Launch, Reset, ResetFails, Spawn, Healthy, Unhealthy, Stop, Record,
     Finish, Bind, Exit, Measure, Answer, LoadFails, Gone, Interrupt, Kill, Finished, vars, genVars
<1>9. QED
  BY <1>5, <1>6, <1>7, <1>8

LEMMA IInvStep == IInv /\ [Next]_vars => IInv'
  BY OwnedStep, OnePortStep, SamplesStep, IdenticalStep, SampledStep DEF IInv

LEMMA IInvAlways == Spec => []IInv
  BY InitIInv, IInvStep, PTL DEF Spec

\* One service at a time: what else lives was left behind when run.py was killed.
THEOREM OneServiceHolds == Spec => []OneServiceAtATime
<1>1. IInv => OneServiceAtATime
  BY DEF IInv, Owned
<1>2. QED
  BY <1>1, IInvAlways, PTL

\* Every run finds a database without the orders of other runs.
THEOREM IdenticalDataHolds == Spec => []IdenticalData
<1>1. IInv => IdenticalData
  BY DEF IInv
<1>2. QED
  BY <1>1, IInvAlways, PTL

\* The resources of a result are those of the process that served it.
THEOREM SampledIsServedHolds == Spec => []SampledIsServed
<1>1. IInv => SampledIsServed
  BY DEF IInv
<1>2. QED
  BY <1>1, IInvAlways, PTL

(***************************************************************************)
(* Plans: the runs of one are finitely many.                               *)
(***************************************************************************)
LEMMA BlockFinite ==
  ASSUME NEW n, NEW v \in Invocations
  PROVE  IsFiniteSet(Block(n, v.profile, v.stacks))
<1>1. v.profile \in DOMAIN Profiles /\ v.stacks \subseteq Stacks
  BY InvocationsAssumption
<1>2. v.profile \in {"smoke", "quick", "full", "final", "deep"}
  BY <1>1 DEF Profiles
<1> DEFINE reps == 0..(Profiles[v.profile].reps - 1)
           configs == Profiles[v.profile].configs
<1>3. IsFiniteSet(reps)
  <2>1. Profiles[v.profile].reps \in {1, 3, 5}
    BY <1>2 DEF Profiles
  <2>2. QED
    BY <2>1, FS_Interval
<1>4. IsFiniteSet(v.stacks) /\ IsFiniteSet(Scenarios)
  BY <1>1, FiniteAssumption, FS_Subset
<1>5. IsFiniteSet(configs)
  BY <1>1, ConfigsFinite
<1> HIDE DEF reps, configs
<1> DEFINE grid == (((reps \X v.stacks) \X Scenarios) \X configs)
           f == [x \in grid |-> [plan |-> n, rep |-> x[1][1][1], stack |-> x[1][1][2],
                                 scenario |-> x[1][2], config |-> x[2]]]
           block == [plan : {n}, rep : reps, stack : v.stacks, scenario : Scenarios, config : configs]
<1>6. IsFiniteSet(grid)
  BY <1>3, <1>4, <1>5, FS_Product
<1>7. f \in [grid -> block]
  OBVIOUS
<1>8. ASSUME NEW r \in block PROVE \E x \in grid : f[x] = r
  <2> DEFINE x == <<<<<<r.rep, r.stack>>, r.scenario>>, r.config>>
  <2>1. x \in grid
    OBVIOUS
  <2>2. f[x] = r
    BY <2>1
  <2>3. QED
    BY <2>1, <2>2
<1>9. f \in Surjection(grid, block)
  BY <1>7, <1>8 DEF Surjection
<1>10. IsFiniteSet(block)
  BY <1>6, <1>9, FS_Surjection
<1>11. QED
  BY <1>10 DEF Block, reps, configs

(***************************************************************************)
(* The inductive invariant: the loop counts its runs, and those it is done *)
(* with have their files.                                                  *)
(***************************************************************************)
InLoop == pc \in {"reset", "start", "wait", "load", "stop", "halt", "index"}

\* The plan comes from a command line; the index is of this plan; the runs done,
\* the one run.py is at and those to come are all of them.
Counted ==
  /\ \A r, q \in planned : Tag(r) = Tag(q) => r = q
  /\ IsFiniteSet(planned)
  /\ index.plan = plan
  /\ InLoop => index.done \in Nat /\ index.done + Cardinality(todo) + 1 = Cardinality(planned)
  /\ pc = "tail" => todo = {}

\* A run done with has its own result in the file of its name, but for runs
\* reported as failed and names a load generator left behind may write under.
Replaced(r) == \E a \in abandoned : Tag(a) = Tag(r)
HasFile(r)  == Tag(r) \in DOMAIN files /\ files[Tag(r)].run = r
Unmeasured(r) == r = run /\ pc \in {"reset", "start", "wait", "load", "halt"}
FilesKept ==
  pc # "off" =>
    \A r \in planned \ todo : r \in failed \/ Unmeasured(r) \/ HasFile(r) \/ Replaced(r)

ResultInv == Counted /\ FilesKept /\ EveryRunKept

LEMMA InitResults == Init => ResultInv
  BY FS_EmptySet DEF Init, ResultInv, Counted, InLoop, FilesKept, EveryRunKept

\* A run is taken from those left.
LEMMA AdvanceCounts ==
  ASSUME NEW left, IsFiniteSet(left), Advance(left)
  PROVE  /\ left = {} => pc' = "tail" /\ todo' = {}
         /\ left # {} => /\ pc' = "reset" /\ run' \in left /\ todo' = left \ {run'}
                        /\ Cardinality(todo') + 1 = Cardinality(left)
<1>1. CASE left = {}
  BY <1>1 DEF Advance
<1>2. CASE left # {}
  <2>1. pc' = "reset" /\ run' \in left /\ todo' = left \ {run'}
    BY <1>2 DEF Advance, Next1
  <2>2. Cardinality(left \ {run'}) = Cardinality(left) - 1 /\ Cardinality(left) \in Nat
    BY <2>1, FS_RemoveElement, FS_CardinalityType
  <2>3. QED
    BY <1>2, <2>1, <2>2
<1>3. QED
  BY <1>1, <1>2

\* An index that has runs to come says that it is running.
LEMMA IndexRuns ==
  ASSUME NEW n, NEW done, NEW total, NEW fs, WriteIndex(n, done, total, fs), done < total
  PROVE  index'.running
<1>1. index'.running = (done < total)
  BY DEF WriteIndex
<1>2. QED
  BY <1>1, Zenon

LEMMA LaunchStep == TypeOK /\ Launch => ResultInv'
<1> SUFFICES ASSUME TypeOK, Launch PROVE ResultInv'
  OBVIOUS
<1>1. PICK v \in Invocations :
        /\ planned' = Block(plan + 1, v.profile, v.stacks)
        /\ Advance(Block(plan + 1, v.profile, v.stacks))
        /\ WriteIndex(plan + 1, 0, Cardinality(Block(plan + 1, v.profile, v.stacks)), files')
  BY DEF Launch
<1> DEFINE block == Block(plan + 1, v.profile, v.stacks)
<1>2. IsFiniteSet(block) /\ \A r, q \in block : Tag(r) = Tag(q) => r = q
  BY BlockFinite, TagsDiffer, InvocationsAssumption
<1>3. plan' = plan + 1 /\ planned' = block /\ Advance(block)
  BY <1>1 DEF Launch
<1>4. /\ index'.plan = plan + 1 /\ index'.done = 0
      /\ 0 < Cardinality(block) => index'.running
  BY <1>1, IndexRuns DEF WriteIndex
<1> HIDE DEF block
<1>5. /\ block = {} => pc' = "tail" /\ todo' = {}
      /\ block # {} => pc' = "reset" /\ run' \in block /\ todo' = block \ {run'}
                       /\ Cardinality(todo') + 1 = Cardinality(block)
  BY <1>2, <1>3, AdvanceCounts
<1>6. Cardinality(block) \in Nat /\ (Cardinality(block) = 0 <=> block = {})
  BY <1>2, FS_CardinalityType, FS_EmptySet
<1>7. Counted'
  <2>1. CASE block = {}
    BY <1>2, <1>3, <1>4, <1>5, <2>1 DEF Counted, InLoop
  <2>2. CASE block # {}
    <3>1. Cardinality(todo') \in Nat
      BY <1>2, <1>5, <2>2, FS_RemoveElement, FS_CardinalityType
    <3>2. 0 + Cardinality(todo') + 1 = Cardinality(planned')
      BY <1>3, <1>5, <2>2, <3>1
    <3>3. QED
      BY <1>2, <1>3, <1>4, <1>5, <2>2, <3>2 DEF Counted, InLoop
  <2>3. QED
    BY <2>1, <2>2
<1>8. FilesKept'
  BY <1>3, <1>5 DEF FilesKept, Unmeasured
<1>9. EveryRunKept'
  <2>1. CASE block = {}
    BY <1>3, <2>1 DEF EveryRunKept
  <2>2. CASE block # {}
    <3>1. index'.running
      BY <1>4, <1>6, <2>2
    <3>2. QED
      BY <3>1 DEF EveryRunKept
  <2>3. QED
    BY <2>1, <2>2
<1>10. QED
  BY <1>7, <1>8, <1>9 DEF ResultInv

\* An index of the files as they are has every run it must have.
LEMMA IndexKeeps ==
  ASSUME TypeOK, FilesKept, todo = {}, pc \in {"index", "tail"},
         NEW done, NEW total, WriteIndex(plan, done, total, files),
         planned' = planned, failed' = failed, abandoned' = abandoned
  PROVE  EveryRunKept'
<1> SUFFICES ASSUME NEW r \in planned, r \notin failed
             PROVE  (\E f \in index'.runs : f.run = r) \/ Replaced(r)
  BY DEF EveryRunKept, Replaced
<1>1. HasFile(r) \/ Replaced(r)
  BY DEF FilesKept, Unmeasured
<1>2. CASE HasFile(r)
  <2>1. files[Tag(r)] # Torn
    <3>1. r \in Run
      BY DEF TypeOK
    <3>2. Torn.run = None
      BY DEF Torn
    <3>3. QED
      BY <1>2, <3>1, <3>2, NoneAssumption DEF HasFile
  <2>2. index'.runs = {files[t] : t \in DOMAIN files} \ {Torn}
    BY DEF WriteIndex
  <2>3. files[Tag(r)] \in index'.runs
    BY <1>2, <2>1, <2>2 DEF HasFile
  <2>4. QED
    BY <1>2, <2>3 DEF HasFile
<1>3. QED
  BY <1>1, <1>2

LEMMA RecordStep == TypeOK /\ ResultInv /\ Record => ResultInv'
<1> SUFFICES ASSUME TypeOK, ResultInv, Record PROVE ResultInv'
  OBVIOUS
<1>1. /\ pc = "index" /\ Advance(todo)
      /\ WriteIndex(plan, index.done + 1, Cardinality(planned), files)
      /\ UNCHANGED <<plan, planned, files, failed, abandoned>>
  BY DEF Record, genVars, history
<1>2. /\ IsFiniteSet(planned) /\ todo \subseteq planned /\ run \in planned \ todo
      /\ index.done \in Nat /\ index.done + Cardinality(todo) + 1 = Cardinality(planned)
  BY <1>1 DEF TypeOK, ResultInv, Counted, InLoop
<1>3. IsFiniteSet(todo) /\ Cardinality(todo) \in Nat /\ (Cardinality(todo) = 0 <=> todo = {})
  BY <1>2, FS_Subset, FS_CardinalityType, FS_EmptySet
<1>4. /\ todo = {} => pc' = "tail" /\ todo' = {}
      /\ todo # {} => /\ pc' = "reset" /\ run' \in todo /\ todo' = todo \ {run'}
                     /\ Cardinality(todo') + 1 = Cardinality(todo)
  BY <1>1, <1>3, AdvanceCounts
<1>5. /\ index'.plan = plan /\ index'.done = index.done + 1
      /\ index.done + 1 < Cardinality(planned) => index'.running
  BY <1>1, IndexRuns DEF WriteIndex
<1>6. Counted'
  <2>1. CASE todo = {}
    BY <1>1, <1>2, <1>4, <1>5, <2>1 DEF ResultInv, Counted, InLoop
  <2>2. CASE todo # {}
    <3>1. Cardinality(todo') \in Nat
      BY <1>3, <1>4, <2>2, FS_RemoveElement, FS_CardinalityType
    <3>2. index'.done \in Nat /\ index'.done + Cardinality(todo') + 1 = Cardinality(planned)
      BY <1>2, <1>3, <1>4, <1>5, <2>2, <3>1
    <3>3. QED
      BY <1>1, <1>2, <1>4, <1>5, <2>2, <3>2 DEF ResultInv, Counted, InLoop
  <2>3. QED
    BY <2>1, <2>2
<1>7. FilesKept'
  <2>1. \A r \in planned \ todo : r \in failed \/ HasFile(r) \/ Replaced(r)
    BY <1>1 DEF ResultInv, FilesKept, Unmeasured
  <2>2. \A r \in planned \ todo' : r \in planned \ todo \/ (r = run' /\ pc' = "reset")
    BY <1>2, <1>4
  <2>3. QED
    BY <1>1, <2>1, <2>2 DEF FilesKept, Unmeasured, HasFile, Replaced
<1>8. EveryRunKept'
  <2>1. CASE todo = {}
    BY <1>1, <2>1, IndexKeeps DEF ResultInv
  <2>2. CASE todo # {}
    <3>1. index.done + 1 < Cardinality(planned)
      <4>1. Cardinality(planned) \in Nat
        BY <1>2, FS_CardinalityType
      <4>2. QED
        BY <1>2, <1>3, <2>2, <4>1
    <3>2. QED
      BY <1>5, <3>1 DEF EveryRunKept
  <2>3. QED
    BY <2>1, <2>2
<1>9. QED
  BY <1>6, <1>7, <1>8 DEF ResultInv

LEMMA FinishStep == TypeOK /\ ResultInv /\ Finish => ResultInv'
<1> SUFFICES ASSUME TypeOK, ResultInv, Finish PROVE ResultInv'
  OBVIOUS
<1>1. /\ pc = "tail" /\ pc' = "off" /\ todo = {}
      /\ WriteIndex(plan, Cardinality(planned), Cardinality(planned), files)
      /\ UNCHANGED <<plan, planned, files, failed, abandoned>>
  BY DEF Finish, pyVars, history, ResultInv, Counted
<1>2. Counted'
  BY <1>1 DEF ResultInv, Counted, InLoop, WriteIndex
<1>3. FilesKept'
  BY <1>1 DEF FilesKept
<1>4. EveryRunKept'
  BY <1>1, IndexKeeps DEF ResultInv
<1>5. QED
  BY <1>2, <1>3, <1>4 DEF ResultInv

\* Steps that change neither the plan nor the index.
LEMMA OtherSteps ==
  ASSUME TypeOK, PlansOrdered, LoadsOwned, ResultInv, [Next]_vars, ~Launch, ~Record, ~Finish
  PROVE  ResultInv'
<1>1. UNCHANGED <<plan, planned, todo, run, index>> /\ (pc = "off" => pc' = "off")
      /\ (pc = "tail" => pc' \in {"tail", "off"})
      /\ (pc' = "tail" => pc = "tail")
      /\ (pc' # "off" => (InLoop <=> InLoop'))
  BY DEF Next, Python, Late, Steps, Service, Await, Generator, Reset, ResetFails, Spawn, Healthy, Unhealthy, Stop,
         Bind, Exit, Measure, Answer, Write, LoadFails, After, Interrupt, Kill, Finished, vars, pyVars, InLoop
<1>2. failed \subseteq failed' /\ abandoned \subseteq abandoned'
  BY DEF Next, Python, Late, Steps, Service, Await, Generator, Reset, ResetFails, Spawn, Healthy, Unhealthy, Stop,
         Bind, Exit, Measure, Answer, Write, LoadFails, Interrupt, Kill, Finished, Abandon, vars, history
<1>3. Counted'
  BY <1>1 DEF ResultInv, Counted, InLoop
<1>4. EveryRunKept'
  BY <1>1, <1>2 DEF ResultInv, EveryRunKept
<1>5. FilesKept'
  <2> SUFFICES ASSUME pc # "off", pc' # "off", NEW r \in planned \ todo, r \notin failed'
               PROVE  Unmeasured(r)' \/ HasFile(r)' \/ Replaced(r)'
    BY <1>1 DEF FilesKept
  <2>1. Unmeasured(r) \/ HasFile(r) \/ Replaced(r)
    BY <1>2 DEF ResultInv, FilesKept
  <2>2. Replaced(r) => Replaced(r)'
    BY <1>2 DEF Replaced
  <2>3. ASSUME NEW g \in loads, Write(g) PROVE Unmeasured(r)' \/ HasFile(r)' \/ Replaced(r)'
    <3>1. PICK of \in Samples(g) :
            files' = Put(files, Tag(g.run), [run |-> g.run, of |-> of, others |-> g.others])
      BY <2>3 DEF Write
    <3>2. CASE Tag(g.run) = Tag(r)
      <4>1. CASE g.run \in abandoned
        BY <1>2, <3>2, <4>1 DEF Replaced
      <4>2. CASE g.run = run /\ pc = "load"
        <5>1. run \in planned
          BY <4>2 DEF TypeOK
        <5>2. g.run = r
          BY <3>2, <4>2, <5>1 DEF ResultInv, Counted
        <5>3. HasFile(r)'
          BY <3>1, <5>2 DEF HasFile, Put
        <5>4. QED
          BY <5>3
      <4>3. QED
        BY <4>1, <4>2 DEF LoadsOwned
    <3>3. CASE Tag(g.run) # Tag(r)
      <4>1. HasFile(r) => HasFile(r)'
        BY <3>1, <3>3 DEF HasFile, Put
      <4>2. Unmeasured(r) => Unmeasured(r)'
        <5>1. CASE pc' = pc
          BY <1>1, <5>1 DEF Unmeasured
        <5>2. CASE pc' # pc
          BY <2>3, <3>3, <5>2 DEF Write, After, Unmeasured
        <5>3. QED
          BY <5>1, <5>2
      <4>3. QED
        BY <2>1, <2>2, <4>1, <4>2
    <3>4. QED
      BY <3>2, <3>3
  <2>4. ASSUME NEW g \in loads, LoadFails(g) PROVE Unmeasured(r)' \/ HasFile(r)' \/ Replaced(r)'
    <3>1. files' = files \/ files' = Put(files, Tag(g.run), Torn)
      BY <2>4 DEF LoadFails, Gone
    <3>2. CASE pc = "load" /\ run = g.run
      <4>1. run \in failed' /\ run \in planned
        BY <2>4, <3>2 DEF LoadFails, TypeOK
      <4>2. r # run /\ Tag(r) # Tag(run)
        BY <4>1 DEF ResultInv, Counted
      <4>3. HasFile(r) => HasFile(r)'
        BY <3>1, <3>2, <4>2 DEF HasFile, Put
      <4>4. QED
        BY <2>1, <2>2, <4>2, <4>3 DEF Unmeasured
    <3>3. CASE ~(pc = "load" /\ run = g.run)
      <4>1. g.run \in abandoned /\ pc' = pc
        BY <2>4, <3>3 DEF LoadsOwned, LoadFails, After
      <4>2. CASE Tag(g.run) = Tag(r)
        BY <1>2, <4>1, <4>2 DEF Replaced
      <4>3. CASE Tag(g.run) # Tag(r)
        BY <1>1, <2>1, <2>2, <3>1, <4>1, <4>3 DEF HasFile, Put, Unmeasured
      <4>4. QED
        BY <4>2, <4>3
    <3>4. QED
      BY <3>2, <3>3
  <2>5. CASE Interrupt
    <3>1. CASE files' = files
      BY <1>1, <2>1, <2>2, <2>5, <3>1 DEF Interrupt, Unmeasured, HasFile
    <3>2. CASE files' # files
      <4>1. pc = "load" /\ pc' = "halt" /\ files' = Put(files, Tag(run), Torn)
        BY <2>5, <3>2 DEF Interrupt, Gone, genVars
      <4>2. run \in planned
        BY <4>1 DEF TypeOK
      <4>3. CASE r = run
        BY <1>1, <4>1, <4>3 DEF Unmeasured
      <4>4. CASE r # run
        <5>1. Tag(r) # Tag(run)
          BY <4>2, <4>4 DEF ResultInv, Counted
        <5>2. QED
          BY <2>1, <2>2, <4>1, <4>4, <5>1 DEF HasFile, Put, Unmeasured
      <4>5. QED
        BY <4>3, <4>4
    <3>3. QED
      BY <3>1, <3>2
  <2>6. CASE Unhealthy
    BY <1>1, <2>1, <2>2, <2>6 DEF Unhealthy, Unmeasured, HasFile, genVars
  <2>7. CASE Reset \/ Spawn \/ Healthy
    BY <1>1, <2>1, <2>2, <2>7 DEF Reset, Spawn, Healthy, Unmeasured, HasFile, genVars
  <2>8. CASE Stop
    BY <1>1, <2>1, <2>2, <2>8 DEF Stop, Unmeasured, HasFile, genVars
  <2>9. CASE ResetFails \/ Kill
    BY <2>9 DEF ResetFails, Kill
  <2>10. ASSUME NEW p \in procs, Service(p) PROVE Unmeasured(r)' \/ HasFile(r)' \/ Replaced(r)'
    BY <1>1, <2>1, <2>2, <2>10 DEF Service, Bind, Exit, Unmeasured, HasFile, genVars
  <2>11. ASSUME NEW g \in loads, Measure(g) \/ \E p \in procs : Answer(g, p)
         PROVE  Unmeasured(r)' \/ HasFile(r)' \/ Replaced(r)'
    BY <1>1, <2>1, <2>2, <2>11 DEF Measure, Answer, Unmeasured, HasFile
  <2>12. CASE UNCHANGED vars \/ (\E p \in procs : Await(p))
    BY <2>1, <2>2, <2>12 DEF vars, Await, pyVars, genVars, Unmeasured, HasFile
  <2>13. QED
    BY <2>3, <2>4, <2>5, <2>6, <2>7, <2>8, <2>9, <2>10, <2>11, <2>12
    DEF Next, Python, Late, Steps, Generator, Finished
<1>6. QED
  BY <1>3, <1>4, <1>5 DEF ResultInv

\* An index that says its plan is done has the result of every run of the plan
\* that was not reported as failed.
THEOREM EveryRunIsKept == Spec => []EveryRunKept
<1>1. IInv /\ ResultInv /\ [Next]_vars => ResultInv'
  BY LaunchStep, RecordStep, FinishStep, OtherSteps DEF IInv, Owned
<1>2. ResultInv => EveryRunKept
  BY DEF ResultInv
<1>3. QED
  BY <1>1, <1>2, InitResults, IInvAlways, PTL DEF Spec

=============================================================================
