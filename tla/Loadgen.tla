------------------------------- MODULE Loadgen -------------------------------
(***************************************************************************)
(* bench/loadgen/main.go: the warm-up, the scheduler and the bounded       *)
(* channel it hands the due times over, the workers of the open and of the *)
(* closed loop, the sampler and main, which waits for them.  Time passes   *)
(* in ticks and counts from the start of the warm-up, then of the          *)
(* measurement; an answer takes at least a tick.  The goroutines run when  *)
(* they can, but for MaxLate ticks for which the machine keeps them        *)
(* waiting.                                                                *)
(***************************************************************************)
EXTENDS Sums

CONSTANTS
  Workers,  \* -conns of them
  Modes,    \* -mode
  Warmup,   \* -warmup
  Total,    \* open loop: requests to send, rate * duration
  Interval, \* open loop: ticks from one due time to the next
  Cap,      \* capacity of sched, rate * 2
  Dur,      \* closed loop: -duration
  Timeout,  \* client.Timeout
  Grace,    \* how long the sampler's answer is waited for
  MaxLate,  \* bound: ticks for which goroutines that could run do not
  None

ASSUME ModesAssumption == Modes \subseteq {"open", "closed"}
ASSUME SizesAssumption ==
  {Warmup, Total, Interval, Cap, Dur, Timeout, Grace, MaxLate} \subseteq Nat /\ Interval > 0
ASSUME WorkersAssumption == Workers # {}
ASSUME NoneAssumption == None \notin [from : Nat, sent : Nat] \cup [from : Nat, to : Nat]

VARIABLES
  mode,
  main,     \* "warmup", "measure", "cancelled", "done"
  now,      \* ticks since the start of the phase
  late,     \* ticks the machine has kept goroutines waiting in it
  i,        \* the scheduler's loop: requests handed over
  sched,    \* the channel: due times
  closed,   \* close(sched)
  doing,    \* doing[w]: the request w waits for
  ended,    \* workers that left their loop
  buf,      \* buf[w]: its samples
  sampler,  \* "start", "polling", "ended"
  first,    \* when it read first
  resCh,    \* its channel of capacity 1
  elapsed,  \* when wg.Wait returned
  out       \* the resources in the result

clock   == <<now, late>>
loop    == <<i, sched, closed>>
workers == <<doing, ended, buf>>
usage   == <<sampler, first, resCh>>
vars    == <<mode, main, clock, loop, workers, usage, elapsed, out>>

Pending  == [from : Nat, sent : Nat]  \* counted from, sent at
Sample   == [lat : Nat, at : Nat]
Resource == [from : Nat, to : Nat]    \* between which readings

TypeOK ==
  /\ mode \in Modes /\ main \in {"warmup", "measure", "cancelled", "done"}
  /\ now \in Nat /\ late \in 0..MaxLate
  /\ i \in 0..Total /\ closed \in BOOLEAN
  /\ sched \in Seq(Nat) /\ Len(sched) <= Cap
  /\ doing \in [Workers -> Pending \cup {None}]
  /\ ended \subseteq Workers
  /\ buf \in [Workers -> Seq(Sample)]
  /\ sampler \in {"start", "polling", "ended"}
  /\ first \in Nat \cup {None}
  /\ resCh \in Seq(Resource \cup {None}) /\ Len(resCh) <= 1
  /\ elapsed \in Nat \cup {None}
  /\ out \in Resource \cup {None}

Init ==
  /\ mode \in Modes /\ main = "warmup"
  /\ now = 0 /\ late = 0
  /\ i = 0 /\ sched = <<>> /\ closed = FALSE
  /\ doing = [w \in Workers |-> None] /\ ended = {} /\ buf = [w \in Workers |-> <<>>]
  /\ sampler = "start" /\ first = None /\ resCh = <<>>
  /\ elapsed = None /\ out = None

(***************************************************************************)
(* The open loop's scheduler.                                              *)
(***************************************************************************)
Due(k) == k * Interval
Ready  == main = "measure" /\ mode = "open" /\ i < Total /\ Due(i) <= now

\* sched <- due, which blocks while the channel is full
Schedule_Unbounded ==
  /\ Ready
  /\ i' = i + 1
  /\ sched' = Append(sched, Due(i))
  /\ UNCHANGED <<mode, main, clock, closed, workers, usage, elapsed, out>>
Schedule ==
  /\ Ready /\ Len(sched) < Cap
  /\ i' = i + 1
  /\ sched' = Append(sched, Due(i))
  /\ UNCHANGED <<mode, main, clock, closed, workers, usage, elapsed, out>>

\* defer close(sched)
Sent  == main = "measure" /\ mode = "open" /\ i = Total /\ ~closed
Close ==
  /\ Sent
  /\ closed' = TRUE
  /\ UNCHANGED <<mode, main, clock, i, sched, workers, usage, elapsed, out>>

(***************************************************************************)
(* The workers.                                                            *)
(***************************************************************************)
Busy(w) == doing[w] # None
Idle(w) == ~Busy(w) /\ w \notin ended
Do(w, from) == doing' = [doing EXCEPT ![w] = [from |-> from, sent |-> now]]

\* for due := range sched: the latency counts from the intended send time
Take_FromNow(w) ==
  /\ Idle(w) /\ sched # <<>>
  /\ Do(w, now)
  /\ sched' = Tail(sched)
  /\ UNCHANGED <<mode, main, clock, i, closed, ended, buf, usage, elapsed, out>>
Take(w) ==
  /\ Idle(w) /\ sched # <<>>
  /\ Do(w, Head(sched))
  /\ sched' = Tail(sched)
  /\ UNCHANGED <<mode, main, clock, i, closed, ended, buf, usage, elapsed, out>>

\* the warm-up and the closed loop: the next request at once
Loop == main = "warmup" \/ mode = "closed"
Stop == IF main = "warmup" THEN Warmup ELSE Dur
Send(w) ==
  /\ Loop /\ Idle(w) /\ now < Stop
  /\ Do(w, now)
  /\ UNCHANGED <<mode, main, clock, loop, ended, buf, usage, elapsed, out>>

\* do returns, with an answer or an error: a sample, but not of the warm-up
Return(w) ==
  /\ doing' = [doing EXCEPT ![w] = None]
  /\ buf' = IF main = "warmup" THEN buf
            ELSE [buf EXCEPT ![w] = Append(@, [lat |-> now - doing[w].from, at |-> now])]
  /\ UNCHANGED <<mode, main, clock, loop, ended, usage, elapsed, out>>

\* the service answers, or the connection is refused or reset
Answer(w) == Busy(w) /\ now > doing[w].sent /\ Return(w)

\* the client gives up
Expired(w) == Busy(w) /\ now > doing[w].sent /\ now >= doing[w].sent + Timeout
TimeOut_Never(w) == FALSE /\ Return(w)
TimeOut(w) == Expired(w) /\ Return(w)

\* the time is over; or the channel is closed and drained
Over_Undrained == IF Loop THEN now >= Stop ELSE closed
Over == IF Loop THEN now >= Stop ELSE closed /\ sched = <<>>
Leave(w) ==
  /\ Idle(w) /\ Over
  /\ ended' = ended \cup {w}
  /\ UNCHANGED <<mode, main, clock, loop, doing, buf, usage, elapsed, out>>

(***************************************************************************)
(* The sampler and main.                                                   *)
(***************************************************************************)
\* the warm-up's wg.Wait; start := time.Now()
Start ==
  /\ main = "warmup" /\ ended = Workers
  /\ main' = "measure"
  /\ now' = 0 /\ late' = 0 /\ ended' = {}
  /\ UNCHANGED <<mode, loop, doing, buf, usage, elapsed, out>>

\* the first reading; nothing is measured of a process that is gone
FirstReading ==
  /\ sampler = "start" /\ main # "warmup"
  /\ \/ sampler' = "polling" /\ first' = now /\ resCh' = resCh
     \/ sampler' = "ended" /\ first' = None /\ resCh' = <<None>>
  /\ UNCHANGED <<mode, main, clock, loop, workers, elapsed, out>>

\* <-ctx.Done(): the last one
Cancelled == main \in {"cancelled", "done"}
LastReading ==
  /\ sampler = "polling" /\ Cancelled
  /\ sampler' = "ended"
  /\ resCh' \in {<<None>>, <<[from |-> first, to |-> now]>>}
  /\ UNCHANGED <<mode, main, clock, loop, workers, first, elapsed, out>>

\* wg.Wait, elapsed, cancel
Cancel ==
  /\ main = "measure" /\ ended = Workers
  /\ main' = "cancelled" /\ elapsed' = now
  /\ UNCHANGED <<mode, clock, loop, workers, usage, out>>

\* the select between the sampler's answer and the timer; the result is written
LateAnswer == now >= elapsed + Grace
Report ==
  /\ main = "cancelled" /\ main' = "done"
  /\ \/ resCh # <<>> /\ resCh' = Tail(resCh) /\ out' = Head(resCh)
     \/ LateAnswer /\ resCh' = resCh /\ out' = None
  /\ UNCHANGED <<mode, clock, loop, workers, sampler, first, elapsed>>

(***************************************************************************)
(* Time.                                                                   *)
(***************************************************************************)
\* a goroutine can run
Runnable ==
  \/ Ready /\ Len(sched) < Cap
  \/ Sent
  \/ \E w \in Workers : Expired(w) \/ (Idle(w) /\ (Loop \/ sched # <<>> \/ Over))
  \/ ended = Workers /\ ~Cancelled
  \/ sampler = "start" /\ main # "warmup"
  \/ sampler = "polling" /\ Cancelled
  \/ main = "cancelled" /\ (resCh # <<>> \/ LateAnswer)

\* somebody waits for time to pass
Waiting ==
  \/ main = "measure" /\ mode = "open" /\ i < Total /\ Due(i) > now
  \/ main = "cancelled"
  \/ \E w \in Workers : Busy(w)

Tick ==
  /\ Waiting
  /\ now' = now + 1
  /\ late' = IF Runnable THEN late + 1 ELSE late
  /\ late' <= MaxLate
  /\ UNCHANGED <<mode, main, loop, workers, usage, elapsed, out>>

Finished == main = "done" /\ UNCHANGED vars

Worker(w)  == Take(w) \/ Send(w) \/ TimeOut(w) \/ Leave(w)
Goroutines ==
  \/ Start \/ Schedule \/ Close \/ FirstReading \/ LastReading \/ Cancel \/ Report
  \/ \E w \in Workers : Worker(w)

Next ==
  \/ Goroutines \/ Tick \/ Finished
  \/ \E w \in Workers : Answer(w)

\* Fairness: time passes and Go runs what can run.  The service need not answer.
Spec == Init /\ [][Next]_vars /\ WF_vars(Goroutines \/ Tick)

(***************************************************************************)
(* What a result has to be.                                                *)
(***************************************************************************)
Samples  == UNION {{w} \X DOMAIN buf[w] : w \in Workers}
At(id)   == buf[id[1]][id[2]].at
From(id) == At(id) - buf[id[1]][id[2]].lat

\* Every request the open loop had to send is in the result once, answered, failed
\* or timed out, however far the workers fell behind, and nothing else is, as
\* "warmup, excluded from stats"; the closed loop sent its requests within the
\* duration; the CPU time, if there is any, was read when all had ended.
ResultComplete ==
  main = "done" =>
    /\ mode = "open" =>
         /\ \A k \in 0..(Total - 1) : \E id \in Samples : From(id) = Due(k)
         /\ \A id \in Samples : \E k \in 0..(Total - 1) : From(id) = Due(k)
         /\ \A id, jd \in Samples : From(id) = From(jd) => id = jd
    /\ mode = "closed" => \A id \in Samples : From(id) \in 0..(Dur - 1)
    /\ out # None => \A id \in Samples : At(id) <= out.to

\* A stall of the service is in the latencies ("no coordinated omission",
\* main.go:9): of the open loop, whatever was due while nothing was answered is
\* as late as the first answer after it, though the scheduler itself was blocked
\* meanwhile; of the closed loop, the latencies of a worker fill the duration,
\* but for what the machine took.
OpenStalls ==
  \A a, b \in 0..elapsed, k \in 0..(Total - 1) :
    a <= Due(k) /\ Due(k) < b /\ (\A id \in Samples : At(id) <= a \/ At(id) >= b)
      => \E id \in Samples : From(id) = Due(k) /\ At(id) >= b
Latencies(w) == [n \in DOMAIN buf[w] |-> buf[w][n].lat]
ClosedFills == \A w \in Workers : SumOf(Latencies(w)) + late >= Dur
StallsShown ==
  main = "done" => (mode = "open" => OpenStalls) /\ (mode = "closed" => ClosedFills)

\* The generator ends, also when the service never answers or its process is gone.
GeneratorEnds == <>(main = "done")

=============================================================================
