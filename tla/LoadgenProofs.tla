---------------------------- MODULE LoadgenProofs ----------------------------
(***************************************************************************)
(* The load generator's result is complete and shows the service's stalls, *)
(* for any number of workers and requests, any channel, time-out and speed *)
(* of the machine.                                                         *)
(***************************************************************************)
EXTENDS Loadgen, SumProofs, SequenceTheorems

(***************************************************************************)
(* The inductive invariant.                                                *)
(***************************************************************************)
\* Nothing counts from a time to come.
Past ==
  /\ \A w \in Workers : doing[w] # None => doing[w].from <= doing[w].sent /\ doing[w].sent <= now
  /\ \A n \in 1..Len(sched) : sched[n] <= now
  /\ \A id \in Samples : At(id) <= now /\ From(id) < At(id)
  /\ sampler = "polling" => first \in Nat

\* What a phase leaves alone, and when a worker leaves its loop.
Phases ==
  /\ \A w \in ended : doing[w] = None
  /\ Cancelled => ended = Workers /\ elapsed \in Nat
  /\ main = "warmup" => Samples = {} /\ sampler = "start"
  /\ main = "warmup" \/ mode = "closed" => i = 0 /\ sched = <<>> /\ ~closed
  /\ closed => i = Total
  /\ main # "warmup" /\ mode = "open" /\ ended # {} => closed /\ sched = <<>>

\* The channel holds the due times handed over last, in their order.
Taken == i - Len(sched)
Queue == Taken \in Nat /\ \A n \in 1..Len(sched) : sched[n] = Due(Taken + n - 1)

\* Of the open loop, each due time that was taken is with one worker or in one
\* sample; the closed loop sends within the duration.
Holds(k) ==
  \/ \E w \in Workers : doing[w] # None /\ doing[w].from = Due(k)
  \/ \E id \in Samples : From(id) = Due(k)
Kept ==
  main # "warmup" /\ mode = "open" =>
    /\ \A k \in 0..(Taken - 1) : Holds(k)
    /\ \A w \in Workers : doing[w] # None => \E k \in 0..(Taken - 1) : doing[w].from = Due(k)
    /\ \A id \in Samples : \E k \in 0..(Taken - 1) : From(id) = Due(k)
Once ==
  main # "warmup" /\ mode = "open" =>
    /\ \A v, w \in Workers : doing[v] # None /\ doing[w] # None /\ doing[v].from = doing[w].from => v = w
    /\ \A w \in Workers, id \in Samples : doing[w] # None => doing[w].from # From(id)
    /\ \A id, jd \in Samples : From(id) = From(jd) => id = jd
InTime ==
  main # "warmup" /\ mode = "closed" =>
    /\ \A w \in Workers : doing[w] # None => doing[w].from \in 0..(Dur - 1)
    /\ \A id \in Samples : From(id) \in 0..(Dur - 1)

\* How far a worker of the closed loop has come: its latencies reach to there, but
\* for the ticks for which the machine kept it waiting between two requests.
Reached(w) == IF w \in ended THEN Dur ELSE IF Busy(w) THEN doing[w].from ELSE now
Filled ==
  main # "warmup" /\ mode = "closed" => \A w \in Workers : SumOf(Latencies(w)) + late >= Reached(w)

\* Readings that are handed over were made when no request was open.
Read(r) == r # None => Cancelled /\ \A id \in Samples : At(id) <= r.to
Readings == Read(out) /\ \A n \in 1..Len(resCh) : Read(resCh[n])

IInv == TypeOK /\ Past /\ Phases /\ Queue /\ Kept /\ Once /\ InTime /\ Filled /\ Readings

(***************************************************************************)
(* Lemmas about samples and due times.                                     *)
(***************************************************************************)
LEMMA Sizes ==
  /\ Warmup \in Nat /\ Total \in Nat /\ Interval \in Nat \ {0} /\ Cap \in Nat
  /\ Dur \in Nat /\ Timeout \in Nat /\ Grace \in Nat /\ MaxLate \in Nat
  BY SizesAssumption

LEMMA DueInjective ==
  ASSUME NEW j \in Nat, NEW k \in Nat, Due(j) = Due(k)
  PROVE  j = k
  BY Sizes DEF Due

LEMMA DueNat == ASSUME NEW k \in Nat PROVE Due(k) \in Nat
  BY Sizes DEF Due

LEMMA SamplesAre ==
  ASSUME NEW id
  PROVE  id \in Samples <=>
           \E w \in Workers : \E n \in DOMAIN buf[w] : id = <<w, n>>
  BY DEF Samples

LEMMA SampleType ==
  ASSUME TypeOK, NEW id \in Samples
  PROVE  At(id) \in Nat /\ From(id) \in Int
<1>1. PICK w \in Workers : \E n \in DOMAIN buf[w] : id = <<w, n>>
  BY SamplesAre
<1>2. PICK n \in DOMAIN buf[w] : id = <<w, n>>
  BY <1>1
<1>3. buf[w] \in Seq(Sample)
  BY DEF TypeOK
<1>4. buf[w][n] \in Sample
  BY <1>3, <1>2, ElementOfSeq, LenProperties
<1>5. QED
  BY <1>2, <1>4 DEF At, From, Sample

\* A request that returns adds one sample, of its own times.
LEMMA ReturnAdds ==
  ASSUME TypeOK, Past, NEW w \in Workers, Busy(w), Return(w), main # "warmup"
  PROVE  \E new :
           /\ Samples' = Samples \cup {new} /\ new \notin Samples
           /\ At(new)' = now /\ From(new)' = doing[w].from
           /\ \A id \in Samples : At(id)' = At(id) /\ From(id)' = From(id)
<1> DEFINE N == Len(buf[w]) + 1
           s == [lat |-> now - doing[w].from, at |-> now]
<1>0. PICK new : new = <<w, N>>
  OBVIOUS
<1>1. buf[w] \in Seq(Sample) /\ doing[w] \in Pending /\ now \in Nat
  BY DEF TypeOK, Busy
<1>2. buf' = [buf EXCEPT ![w] = Append(buf[w], s)]
  BY DEF Return
<1>3. /\ DOMAIN buf[w] = 1..Len(buf[w]) /\ Len(buf[w]) \in Nat
      /\ DOMAIN buf'[w] = 1..N
      /\ buf'[w][N] = s
      /\ \A n \in DOMAIN buf[w] : buf'[w][n] = buf[w][n]
  <2>1. buf'[w] = Append(buf[w], s)
    BY <1>2 DEF TypeOK
  <2>2. QED
    BY <2>1, <1>1
<1>4. \A v \in Workers \ {w} : buf'[v] = buf[v]
  BY <1>2 DEF TypeOK
<1>5. Samples' = Samples \cup {new}
  <2>1. DOMAIN buf'[w] = DOMAIN buf[w] \cup {N}
    BY <1>3
  <2>2. QED
    BY <1>0, <2>1, <1>4 DEF Samples
<1>6. new \notin Samples
  BY <1>0, <1>3, SamplesAre
<1>7. At(new)' = now /\ From(new)' = doing[w].from
  <2>1. new[1] = w /\ new[2] = N
    BY <1>0
  <2>2. At(new)' = now
    BY <2>1, <1>3 DEF At
  <2>3. From(new)' = now - (now - doing[w].from)
    BY <2>1, <2>2, <1>3 DEF From
  <2>4. QED
    BY <1>1, <2>2, <2>3 DEF Pending
<1>8. \A id \in Samples : At(id)' = At(id) /\ From(id)' = From(id)
  BY <1>3, <1>4, SamplesAre DEF At, From
<1>9. QED
  BY <1>5, <1>6, <1>7, <1>8

\* Whoever leaves the buffers alone leaves the samples alone.
LEMMA SamplesKept ==
  ASSUME UNCHANGED buf
  PROVE  Samples' = Samples /\ \A id : At(id)' = At(id) /\ From(id)' = From(id)
  BY DEF Samples, At, From

(***************************************************************************)
(* The steps, sorted by what they do to the requests.                      *)
(***************************************************************************)
Returned(w) == Busy(w) /\ now > doing[w].sent /\ Return(w)

\* Steps that open, hand over or end no request.
Quiet ==
  \/ Close \/ FirstReading \/ LastReading \/ Cancel \/ Report \/ Tick \/ UNCHANGED vars
  \/ \E w \in Workers : Leave(w)

LEMMA StepCases ==
  ASSUME [Next]_vars
  PROVE  \/ Start \/ Schedule \/ Quiet
         \/ \E w \in Workers : Take(w) \/ Send(w) \/ Returned(w)
  BY DEF Next, Goroutines, Worker, Answer, TimeOut, Expired, Finished, Returned, Quiet

LEMMA QuietKeeps ==
  ASSUME Quiet
  PROVE  /\ UNCHANGED <<mode, i, sched, doing, buf>>
         /\ main' = "warmup" <=> main = "warmup"
         /\ Cancelled => Cancelled'
  BY DEF Quiet, Close, FirstReading, LastReading, Cancel, Report, Tick, Leave, Cancelled,
         vars, clock, loop, workers, usage

(***************************************************************************)
(* Type correctness.                                                       *)
(***************************************************************************)
LEMMA InitType == Init => TypeOK
<1> SUFFICES ASSUME Init PROVE TypeOK
  OBVIOUS
<1>1. sched \in Seq(Nat) /\ Len(sched) = 0 /\ resCh \in Seq(Resource \cup {None}) /\ Len(resCh) = 0
  BY EmptySeq DEF Init
<1>2. buf \in [Workers -> Seq(Sample)] /\ doing \in [Workers -> Pending \cup {None}]
  BY EmptySeq DEF Init
<1>3. now \in Nat /\ late \in 0..MaxLate /\ i \in 0..Total
  <2>1. now = 0 /\ late = 0 /\ i = 0
    BY DEF Init
  <2>2. QED
    BY <2>1, Sizes
<1>4. /\ mode \in Modes /\ main = "warmup" /\ closed = FALSE /\ ended = {} /\ sampler = "start" /\ first = None
      /\ elapsed = None /\ out = None
  BY Zenon DEF Init
<1>5. Len(sched) <= Cap /\ Len(resCh) <= 1
  BY <1>1, Sizes
<1>6. closed \in BOOLEAN /\ ended \subseteq Workers /\ main \in {"warmup", "measure", "cancelled", "done"}
      /\ sampler \in {"start", "polling", "ended"}
      /\ first \in Nat \cup {None} /\ elapsed \in Nat \cup {None} /\ out \in Resource \cup {None}
  BY <1>4
<1>7. QED
  BY <1>1, <1>2, <1>3, <1>4, <1>5, <1>6 DEF TypeOK

LEMMA TypeStep ==
  ASSUME TypeOK, Past, [Next]_vars
  PROVE  TypeOK'
<1> USE DEF TypeOK, clock, loop, workers, usage
<1>1. CASE Start
  <2>1. UNCHANGED <<mode, i, closed, sched, doing, buf, sampler, first, resCh, elapsed, out>>
    BY <1>1 DEF Start
  <2>2. main' = "measure" /\ now' \in Nat /\ late' \in 0..MaxLate /\ ended' \subseteq Workers
    BY <1>1, Sizes DEF Start
  <2>3. QED
    BY <2>1, <2>2
<1>2. CASE Schedule
  <2>1. Due(i) \in Nat /\ i + 1 \in 0..Total
    BY <1>2, DueNat, Sizes DEF Schedule, Ready
  <2>2. Append(sched, Due(i)) \in Seq(Nat) /\ Len(Append(sched, Due(i))) = Len(sched) + 1
    BY <2>1, AppendProperties
  <2>3. Len(sched) + 1 <= Cap
    BY <1>2, LenProperties, Sizes DEF Schedule
  <2>4. QED
    BY <1>2, <2>1, <2>2, <2>3 DEF Schedule
<1>3. ASSUME NEW w \in Workers, Take(w) PROVE TypeOK'
  <2>1. Head(sched) \in Nat /\ Tail(sched) \in Seq(Nat) /\ Len(Tail(sched)) = Len(sched) - 1
    BY <1>3, HeadTailProperties DEF Take
  <2>2. Len(Tail(sched)) <= Cap
    BY <2>1, LenProperties, Sizes
  <2>3. QED
    BY <1>3, <2>1, <2>2 DEF Take, Do, Pending
<1>4. ASSUME NEW w \in Workers, Send(w) PROVE TypeOK'
  BY <1>4 DEF Send, Do, Pending
<1>5. ASSUME NEW w \in Workers, Returned(w) PROVE TypeOK'
  <2>1. doing[w] \in Pending /\ doing[w].from <= now
    BY <1>5 DEF Returned, Busy, Past, Pending
  <2>2. [lat |-> now - doing[w].from, at |-> now] \in Sample
    BY <2>1 DEF Sample, Pending
  <2>3. Append(buf[w], [lat |-> now - doing[w].from, at |-> now]) \in Seq(Sample)
    BY <2>2, AppendProperties
  <2>4. QED
    BY <1>5, <2>3 DEF Returned, Return
<1>6. CASE Quiet
  <2>1. CASE Close \/ Cancel \/ \E w \in Workers : Leave(w)
    BY <2>1 DEF Close, Cancel, Leave
  <2>2. CASE FirstReading
    <3>1. <<None>> \in Seq(Resource \cup {None}) /\ Len(<<None>>) = 1
      OBVIOUS
    <3>2. resCh' \in Seq(Resource \cup {None}) /\ Len(resCh') <= 1
      <4>1. CASE resCh' = resCh
        BY <4>1
      <4>2. CASE resCh' = <<None>>
        BY <4>2, <3>1
      <4>3. QED
        BY <2>2, <4>1, <4>2 DEF FirstReading
    <3>3. QED
      BY <2>2, <3>2 DEF FirstReading
  <2>3. CASE LastReading
    <3>1. [from |-> first, to |-> now] \in Resource
      BY <2>3 DEF LastReading, Past, Resource
    <3>2. resCh' \in Seq(Resource \cup {None}) /\ Len(resCh') = 1
      <4>1. PICK r \in Resource \cup {None} : resCh' = <<r>>
        BY <2>3, <3>1 DEF LastReading
      <4>2. QED
        BY <4>1
    <3>3. QED
      BY <2>3, <3>2 DEF LastReading
  <2>4. CASE Report
    <3>1. CASE resCh # <<>> /\ resCh' = Tail(resCh) /\ out' = Head(resCh)
      <4>1. Head(resCh) \in Resource \cup {None} /\ Tail(resCh) \in Seq(Resource \cup {None})
              /\ Len(Tail(resCh)) = Len(resCh) - 1
        BY <3>1, HeadTailProperties
      <4>2. Len(Tail(resCh)) <= 1
        BY <4>1, LenProperties
      <4>3. QED
        BY <2>4, <3>1, <4>1, <4>2 DEF Report
    <3>2. CASE resCh' = resCh /\ out' = None
      BY <2>4, <3>2 DEF Report
    <3>3. QED
      BY <2>4, <3>1, <3>2 DEF Report
  <2>5. CASE Tick
    BY <2>5, Sizes DEF Tick
  <2>6. CASE UNCHANGED vars
    BY <2>6 DEF vars
  <2>7. QED
    BY <1>6, <2>1, <2>2, <2>3, <2>4, <2>5, <2>6 DEF Quiet
<1>7. QED
  BY <1>1, <1>2, <1>3, <1>4, <1>5, <1>6, StepCases

(***************************************************************************)
(* Times, phases and the channel.                                          *)
(***************************************************************************)
LEMMA NoSamples == Init => Samples = {}
  BY DEF Init, Samples

LEMMA PastStep ==
  ASSUME TypeOK, Past, Phases, [Next]_vars
  PROVE  Past'
<1> USE DEF clock, loop, workers, usage
<1>1. CASE Start
  <2>1. Samples = {} /\ Samples' = {} /\ sched = <<>> /\ sampler = "start"
    BY <1>1, SamplesKept DEF Start, Phases
  <2>2. \A w \in Workers : doing'[w] = None
    BY <1>1 DEF Start, Phases
  <2>3. QED
    BY <1>1, <2>1, <2>2 DEF Start, Past
<1>2. CASE Schedule
  <2>1. sched' = Append(sched, Due(i)) /\ Due(i) <= now /\ now' = now
    BY <1>2 DEF Schedule, Ready
  <2>2. \A n \in 1..Len(sched') : sched'[n] <= now
    <3>0. i \in Nat
      BY Sizes DEF TypeOK
    <3>1. sched \in Seq(Nat) /\ Due(i) \in Nat
      BY <3>0, DueNat DEF TypeOK
    <3>2. \A n \in 1..Len(sched') : sched'[n] = sched[n] \/ sched'[n] = Due(i)
      BY <2>1, <3>1
    <3>3. ASSUME NEW n \in 1..Len(sched') PROVE sched'[n] <= now
      <4>1. CASE n = Len(sched) + 1
        BY <2>1, <3>1, <4>1
      <4>2. CASE n # Len(sched) + 1
        <5>1. n \in 1..Len(sched) /\ sched'[n] = sched[n]
          BY <2>1, <3>1, <3>3, <4>2
        <5>2. QED
          BY <5>1 DEF Past
      <4>3. QED
        BY <4>1, <4>2
    <3>4. QED
      BY <3>3
  <2>3. QED
    BY <1>2, <2>1, <2>2, SamplesKept DEF Schedule, Past
<1>3. ASSUME NEW w \in Workers, Take(w) PROVE Past'
  <2>1. sched \in Seq(Nat) /\ sched # <<>> /\ sched' = Tail(sched) /\ now' = now /\ now \in Nat
    BY <1>3 DEF Take, TypeOK
  <2>2. Head(sched) <= now /\ \A n \in 1..Len(sched') : sched'[n] <= now
    <3>1. Len(sched) \in Nat /\ Len(sched) > 0 /\ Head(sched) = sched[1]
      BY <2>1
    <3>2. Len(sched') = Len(sched) - 1 /\ \A n \in 1..Len(sched') : sched'[n] = sched[n + 1]
      BY <2>1
    <3>3. \A n \in 1..Len(sched') : n + 1 \in 1..Len(sched)
      BY <3>1, <3>2
    <3>4. QED
      BY <3>1, <3>2, <3>3 DEF Past
  <2>3. doing' = [doing EXCEPT ![w] = [from |-> Head(sched), sent |-> now]]
    BY <1>3 DEF Take, Do
  <2>4. \A v \in Workers : doing'[v] # None => doing'[v].from <= doing'[v].sent /\ doing'[v].sent <= now
    BY <2>1, <2>2, <2>3 DEF Past, TypeOK
  <2>5. QED
    BY <1>3, <2>1, <2>2, <2>4, SamplesKept DEF Take, Past
<1>4. ASSUME NEW w \in Workers, Send(w) PROVE Past'
  <2>1. doing' = [doing EXCEPT ![w] = [from |-> now, sent |-> now]] /\ UNCHANGED <<now, sched, sampler, first, buf>>
    BY <1>4 DEF Send, Do
  <2>2. \A v \in Workers : doing'[v] # None => doing'[v].from <= doing'[v].sent /\ doing'[v].sent <= now
    BY <2>1 DEF Past, TypeOK
  <2>3. QED
    BY <2>1, <2>2, SamplesKept DEF Past
<1>5. ASSUME NEW w \in Workers, Returned(w) PROVE Past'
  <2>1. \A v \in Workers : doing'[v] # None => doing'[v] = doing[v]
    BY <1>5 DEF Returned, Return, TypeOK
  <2>2. UNCHANGED <<now, sched, sampler, first>>
    BY <1>5 DEF Returned, Return
  <2>3. \A id \in Samples' : At(id)' <= now /\ From(id)' < At(id)'
    <3>1. CASE main = "warmup"
      BY <1>5, <3>1, SamplesKept DEF Returned, Return, Past
    <3>2. CASE main # "warmup"
      <4>1. PICK new :
              /\ Samples' = Samples \cup {new} /\ new \notin Samples
              /\ At(new)' = now /\ From(new)' = doing[w].from
              /\ \A id \in Samples : At(id)' = At(id) /\ From(id)' = From(id)
        BY <1>5, <3>2, ReturnAdds DEF Returned
      <4>2. doing[w].from < now
        BY <1>5 DEF Returned, Busy, Past, TypeOK, Pending
      <4>3. QED
        BY <4>1, <4>2 DEF Past, TypeOK
    <3>3. QED
      BY <3>1, <3>2
  <2>4. QED
    BY <2>1, <2>2, <2>3 DEF Past
<1>6. CASE Quiet
  <2>1. UNCHANGED <<sched, doing, buf>>
    BY <1>6, QuietKeeps
  <2>2. now' \in Nat /\ now <= now'
    BY <1>6 DEF Quiet, Close, FirstReading, LastReading, Cancel, Report, Tick, Leave, vars, TypeOK
  <2>3. sampler' = "polling" => first' \in Nat
    BY <1>6 DEF Quiet, Close, FirstReading, LastReading, Cancel, Report, Tick, Leave, vars, TypeOK, Past
  <2>4. \A n \in 1..Len(sched) : sched[n] \in Nat
    BY DEF TypeOK
  <2>5. \A w \in Workers : doing[w] # None => doing[w].sent <= now'
    BY <2>2 DEF Past, TypeOK, Pending
  <2>6. \A n \in 1..Len(sched') : sched'[n] <= now'
    BY <2>1, <2>2, <2>4 DEF Past, TypeOK
  <2>7. \A id \in Samples' : At(id)' <= now' /\ From(id)' < At(id)'
    BY <2>1, <2>2, SamplesKept, SampleType DEF Past, TypeOK
  <2>8. QED
    BY <2>1, <2>3, <2>5, <2>6, <2>7 DEF Past
<1>7. QED
  BY <1>1, <1>2, <1>3, <1>4, <1>5, <1>6, StepCases

LEMMA PhasesStep ==
  ASSUME TypeOK, Phases, [Next]_vars
  PROVE  Phases'
<1> USE DEF clock, loop, workers, usage, Cancelled
<1>1. CASE Start
  <2>1. Samples' = Samples
    BY <1>1, SamplesKept DEF Start
  <2>2. main' = "measure" /\ ended' = {} /\ UNCHANGED <<mode, i, sched, closed, doing>> /\ main = "warmup"
    BY <1>1 DEF Start
  <2>3. QED
    BY <2>1, <2>2 DEF Phases
<1>2. CASE Schedule
  <2>1. main = "measure" /\ mode = "open" /\ i # Total /\ UNCHANGED <<main, mode, closed, doing, ended, sampler>>
    BY <1>2, Sizes DEF Schedule, Ready, TypeOK
  <2>2. ~closed /\ ended = {}
    BY <2>1 DEF Phases
  <2>3. QED
    BY <2>1, <2>2 DEF Phases
<1>3. ASSUME NEW w \in Workers, Take(w) PROVE Phases'
  <2>1. sched # <<>> /\ w \notin ended /\ UNCHANGED <<main, mode, i, closed, ended, sampler, buf>>
    BY <1>3 DEF Take, Idle
  <2>2. mode = "open" /\ main # "warmup" /\ ended = {} /\ ~Cancelled
    <3>1. mode = "open" /\ main # "warmup"
      BY <2>1, ModesAssumption DEF Phases, TypeOK
    <3>2. QED
      BY <2>1, <3>1 DEF Phases
  <2>3. QED
    BY <2>1, <2>2 DEF Phases
<1>4. ASSUME NEW w \in Workers, Send(w) PROVE Phases'
  <2>1. w \notin ended /\ UNCHANGED <<main, mode, i, sched, closed, ended, sampler, buf>>
    BY <1>4 DEF Send, Idle
  <2>2. \A v \in ended : doing'[v] = doing[v]
    BY <1>4, <2>1 DEF Send, Do, TypeOK
  <2>3. Samples' = Samples
    BY <2>1, SamplesKept
  <2>4. QED
    BY <2>1, <2>2, <2>3 DEF Phases
<1>5. ASSUME NEW w \in Workers, Returned(w) PROVE Phases'
  <2>1. UNCHANGED <<main, mode, i, sched, closed, ended, sampler, elapsed>>
    BY <1>5 DEF Returned, Return
  <2>2. \A v \in ended : doing'[v] = None
    BY <1>5 DEF Returned, Return, Phases, TypeOK
  <2>3. main = "warmup" => Samples' = Samples
    BY <1>5, SamplesKept DEF Returned, Return
  <2>4. QED
    BY <2>1, <2>2, <2>3 DEF Phases
<1>6. CASE Quiet
  <2>1. UNCHANGED <<mode, i, sched, doing, buf>> /\ (main' = "warmup" <=> main = "warmup") /\ Samples' = Samples
    BY <1>6, QuietKeeps, SamplesKept
  <2>2. CASE Close
    <3>1. main' = main /\ closed' = TRUE /\ i = Total /\ mode = "open" /\ main = "measure"
          /\ UNCHANGED <<ended, sampler, elapsed>>
      BY <2>2 DEF Close, Sent
    <3>2. ended = {}  \/ sched = <<>>
      BY <2>2, <3>1 DEF Phases
    <3> QED BY <2>1, <3>1, <3>2 DEF Phases
  <2>3. CASE Cancel
    <3>1. main' = "cancelled" /\ elapsed' = now /\ ended = Workers /\ main = "measure" /\ UNCHANGED <<ended, closed, sampler>>
          /\ now \in Nat
      BY <2>3 DEF Cancel, TypeOK
    <3> QED BY <2>1, <3>1 DEF Phases
  <2>4. ASSUME NEW w \in Workers, Leave(w) PROVE Phases'
    <3>1. doing[w] = None /\ ended' = ended \cup {w} /\ UNCHANGED <<main, closed, sampler, elapsed>>
      BY <2>4 DEF Leave, Idle, Busy
    <3>2. main # "warmup" /\ mode = "open" => closed /\ sched = <<>>
      BY <2>4 DEF Leave, Over, Loop
    <3>3. Cancelled => ended' = Workers /\ elapsed' \in Nat
      BY <3>1 DEF Phases
    <3>4. Cancelled' <=> Cancelled
      BY <3>1
    <3>5. \A v \in ended' : doing'[v] = None
      BY <2>1, <3>1 DEF Phases
    <3> QED BY <2>1, <3>1, <3>2, <3>3, <3>4, <3>5 DEF Phases
  <2>5. CASE FirstReading \/ LastReading \/ Report \/ Tick \/ UNCHANGED vars
    <3>1. UNCHANGED <<closed, ended, elapsed>> /\ (Cancelled' => Cancelled)
      BY <2>5 DEF FirstReading, LastReading, Report, Tick, vars
    <3>2. main' = "warmup" => sampler' = sampler
      BY <2>5 DEF FirstReading, LastReading, Report, Tick, vars
    <3> QED BY <2>1, <3>1, <3>2 DEF Phases
  <2> QED
    BY <1>6, <2>2, <2>3, <2>4, <2>5 DEF Quiet
<1>7. QED
  BY <1>1, <1>2, <1>3, <1>4, <1>5, <1>6, StepCases

LEMMA QueueStep ==
  ASSUME TypeOK, Phases, Queue, [Next]_vars
  PROVE  Queue'
<1> USE DEF clock, loop, workers, usage
<1>1. CASE Schedule
  <2>1. i' = i + 1 /\ sched' = Append(sched, Due(i)) /\ sched \in Seq(Nat) /\ i \in Nat
    BY <1>1, Sizes DEF Schedule, TypeOK
  <2>2. Len(sched') = Len(sched) + 1 /\ Taken' = Taken
    BY <2>1 DEF Taken
  <2>3. ASSUME NEW n \in 1..Len(sched') PROVE sched'[n] = Due(Taken + n - 1)
    <3>1. CASE n = Len(sched) + 1
      <4>1. Taken + n - 1 = i
        BY <2>1, <3>1 DEF Taken
      <4>2. sched'[n] = Due(i)
        BY <2>1, <3>1, DueNat
      <4>3. QED
        BY <4>1, <4>2
    <3>2. CASE n # Len(sched) + 1
      <4>1. n \in 1..Len(sched) /\ sched'[n] = sched[n]
        BY <2>1, <2>2, <3>2
      <4>2. QED
        BY <4>1 DEF Queue
    <3>3. QED
      BY <3>1, <3>2
  <2>4. QED
    BY <2>2, <2>3 DEF Queue, Due
<1>2. ASSUME NEW w \in Workers, Take(w) PROVE Queue'
  <2>1. i' = i /\ sched # <<>> /\ sched' = Tail(sched) /\ sched \in Seq(Nat) /\ i \in Nat
    BY <1>2, Sizes DEF Take, TypeOK
  <2>2. Len(sched') = Len(sched) - 1 /\ Taken' = Taken + 1
    BY <2>1 DEF Taken
  <2>3. ASSUME NEW n \in 1..Len(sched') PROVE sched'[n] = Due(Taken + 1 + n - 1)
    <3>1. n + 1 \in 1..Len(sched) /\ sched'[n] = sched[n + 1]
      BY <2>1, <2>2
    <3>2. Taken + (n + 1) - 1 = Taken + 1 + n - 1
      BY DEF Queue
    <3>3. QED
      BY <3>1, <3>2 DEF Queue
  <2>4. QED
    BY <2>2, <2>3 DEF Queue, Due
<1>3. CASE UNCHANGED <<i, sched>>
  BY <1>3 DEF Queue, Taken, Due
<1>4. Start \/ Quiet \/ (\E w \in Workers : Send(w) \/ Returned(w)) => UNCHANGED <<i, sched>>
  BY QuietKeeps DEF Start, Send, Returned, Return
<1>5. QED
  BY <1>1, <1>2, <1>3, <1>4, StepCases

(***************************************************************************)
(* Nothing that was due is lost, and nothing counted twice.                *)
(***************************************************************************)
\* A worker takes the due time that is next.
LEMMA TakeMoves ==
  ASSUME TypeOK, Queue, NEW w \in Workers, Take(w)
  PROVE  /\ Taken \in Nat /\ Taken' = Taken + 1
         /\ doing[w] = None /\ doing'[w] # None /\ doing'[w].from = Due(Taken)
         /\ \A v \in Workers \ {w} : doing'[v] = doing[v]
         /\ UNCHANGED <<mode, main, buf>>
<1>1. sched # <<>> /\ sched' = Tail(sched) /\ sched \in Seq(Nat) /\ i' = i /\ i \in Nat /\ now \in Nat
  BY Sizes DEF Take, TypeOK
<1>2. Taken \in Nat /\ Taken' = Taken + 1
  BY <1>1 DEF Queue, Taken
<1>3. Head(sched) = sched[1] /\ 1 \in 1..Len(sched)
  BY <1>1
<1>4. Head(sched) = Due(Taken + 1 - 1)
  BY <1>3 DEF Queue
<1>5. Head(sched) = Due(Taken) /\ Head(sched) \in Nat
  <2>1. Taken + 1 - 1 = Taken
    BY <1>2
  <2>2. QED
    BY <1>2, <1>4, <2>1, DueNat
<1>6. doing' = [doing EXCEPT ![w] = [from |-> Head(sched), sent |-> now]]
  BY DEF Take, Do
<1>7. [from |-> Head(sched), sent |-> now] # None
  BY <1>1, <1>5, NoneAssumption
<1>8. QED
  BY <1>2, <1>5, <1>6, <1>7 DEF Take, Idle, Busy, TypeOK

LEMMA KeptStep ==
  ASSUME TypeOK, Past, Phases, Queue, Kept, [Next]_vars
  PROVE  Kept'
<1> USE DEF clock, loop, workers, usage
<1>1. CASE Start
  <2>1. Taken' = 0
    <3>1. i = 0
      BY <1>1 DEF Start, Phases
    <3>2. Len(sched) = 0
      BY <1>1, EmptySeq DEF Start, Phases
    <3>3. Taken = 0
      BY <3>1, <3>2 DEF Taken
    <3>4. UNCHANGED <<i, sched>>
      BY <1>1 DEF Start
    <3>5. Taken' = Taken
      BY <3>4 DEF Taken
    <3>6. QED
      BY <3>3, <3>5
  <2>2. Samples' = {} /\ \A w \in Workers : doing'[w] = None
    BY <1>1, SamplesKept DEF Start, Phases
  <2>3. QED
    BY <2>1, <2>2 DEF Kept
<1>2. CASE Schedule
  <2>1. Taken' = Taken /\ UNCHANGED <<mode, main, doing, buf>>
    BY <1>2, Sizes DEF Schedule, Taken, TypeOK
  <2>2. QED
    BY <2>1, SamplesKept DEF Kept, Holds, Due
<1>3. ASSUME NEW w \in Workers, Take(w) PROVE Kept'
  <2> SUFFICES ASSUME main # "warmup", mode = "open"
               PROVE  /\ \A k \in 0..(Taken' - 1) : Holds(k)'
                      /\ \A v \in Workers : doing'[v] # None => \E k \in 0..(Taken' - 1) : doing'[v].from = Due(k)
                      /\ \A id \in Samples' : \E k \in 0..(Taken' - 1) : From(id)' = Due(k)
    BY <1>3, TakeMoves DEF Kept, Due
  <2>0. PICK next : next = Taken
    OBVIOUS
  <2>1. 0..(Taken' - 1) = 0..(Taken - 1) \cup {next} /\ Taken' - 1 = next /\ next \in Nat
    BY <1>3, <2>0, TakeMoves
  <2>2. Holds(next)'
    BY <1>3, <2>0, TakeMoves DEF Holds, Due
  <2>3. ASSUME NEW k \in 0..(Taken - 1) PROVE Holds(k)'
    <3>1. CASE \E v \in Workers : doing[v] # None /\ doing[v].from = Due(k)
      BY <1>3, <3>1, TakeMoves DEF Holds, Due
    <3>2. CASE \E id \in Samples : From(id) = Due(k)
      BY <1>3, <3>2, TakeMoves, SamplesKept DEF Holds, Due
    <3>3. QED
      BY <3>1, <3>2 DEF Kept, Holds
  <2>4. \A v \in Workers : doing'[v] # None => \E k \in 0..(Taken' - 1) : doing'[v].from = Due(k)
    BY <1>3, <2>0, <2>1, TakeMoves DEF Kept
  <2>5. \A id \in Samples' : \E k \in 0..(Taken' - 1) : From(id)' = Due(k)
    BY <1>3, <2>1, TakeMoves, SamplesKept DEF Kept
  <2>6. QED
    BY <2>1, <2>2, <2>3, <2>4, <2>5
<1>4. ASSUME NEW w \in Workers, Send(w) PROVE Kept'
  BY <1>4 DEF Send, Loop, Kept
<1>5. ASSUME NEW w \in Workers, Returned(w) PROVE Kept'
  <2> SUFFICES ASSUME main # "warmup", mode = "open" PROVE Kept'
    BY <1>5 DEF Kept, Returned, Return
  <2>1. PICK new :
          /\ Samples' = Samples \cup {new} /\ new \notin Samples
          /\ At(new)' = now /\ From(new)' = doing[w].from
          /\ \A id \in Samples : At(id)' = At(id) /\ From(id)' = From(id)
    BY <1>5, ReturnAdds DEF Returned
  <2>2. UNCHANGED <<mode, main, i, sched>> /\ Taken' = Taken
    BY <1>5 DEF Returned, Return, Taken
  <2>3. doing[w] # None /\ doing'[w] = None /\ \A v \in Workers \ {w} : doing'[v] = doing[v]
    BY <1>5 DEF Returned, Return, Busy, TypeOK
  <2>4. \A k \in 0..(Taken - 1) : Holds(k)'
    BY <2>1, <2>3 DEF Kept, Holds, Due
  <2>5. QED
    BY <2>1, <2>2, <2>3, <2>4 DEF Kept, Due
<1>6. CASE Quiet
  <2>1. Taken' = Taken /\ UNCHANGED <<mode, doing, buf>> /\ (main' = "warmup" <=> main = "warmup")
    BY <1>6, QuietKeeps DEF Taken
  <2>2. QED
    BY <2>1, SamplesKept DEF Kept, Holds, Due
<1>7. QED
  BY <1>1, <1>2, <1>3, <1>4, <1>5, <1>6, StepCases

LEMMA OnceStep ==
  ASSUME TypeOK, Past, Phases, Queue, Kept, Once, [Next]_vars
  PROVE  Once'
<1> USE DEF clock, loop, workers, usage
<1>1. CASE Start
  <2>1. Samples' = {} /\ \A w \in Workers : doing'[w] = None
    BY <1>1, SamplesKept DEF Start, Phases
  <2>2. QED
    BY <2>1 DEF Once
<1>2. ASSUME NEW w \in Workers, Take(w) PROVE Once'
  <2> SUFFICES ASSUME main # "warmup", mode = "open" PROVE Once'
    BY <1>2, TakeMoves DEF Once
  <2>1. \A k \in 0..(Taken - 1) : Due(k) # Due(Taken)
    BY <1>2, TakeMoves, DueInjective
  <2>2. \A v \in Workers \ {w} : doing[v] # None => doing[v].from # Due(Taken)
    BY <2>1 DEF Kept
  <2>3. \A id \in Samples : From(id) # Due(Taken)
    BY <2>1 DEF Kept
  <2>4. QED
    BY <1>2, <2>2, <2>3, TakeMoves, SamplesKept DEF Once
<1>3. ASSUME NEW w \in Workers, Send(w) PROVE Once'
  BY <1>3 DEF Send, Loop, Once
<1>4. ASSUME NEW w \in Workers, Returned(w) PROVE Once'
  <2> SUFFICES ASSUME main # "warmup", mode = "open" PROVE Once'
    BY <1>4 DEF Once, Returned, Return
  <2>1. PICK new :
          /\ Samples' = Samples \cup {new} /\ new \notin Samples
          /\ At(new)' = now /\ From(new)' = doing[w].from
          /\ \A id \in Samples : At(id)' = At(id) /\ From(id)' = From(id)
    BY <1>4, ReturnAdds DEF Returned
  <2>2. doing[w] # None /\ doing'[w] = None /\ \A v \in Workers \ {w} : doing'[v] = doing[v]
    BY <1>4 DEF Returned, Return, Busy, TypeOK
  <2>3. QED
    BY <2>1, <2>2 DEF Once
<1>5. CASE Schedule \/ Quiet
  <2>1. UNCHANGED <<mode, doing, buf>> /\ (main' = "warmup" <=> main = "warmup")
    BY <1>5, QuietKeeps DEF Schedule
  <2>2. QED
    BY <2>1, SamplesKept DEF Once
<1>6. QED
  BY <1>1, <1>2, <1>3, <1>4, <1>5, StepCases

LEMMA InTimeStep ==
  ASSUME TypeOK, Past, Phases, InTime, [Next]_vars
  PROVE  InTime'
<1> USE DEF clock, loop, workers, usage
<1>1. CASE Start
  <2>1. Samples' = {} /\ \A w \in Workers : doing'[w] = None
    BY <1>1, SamplesKept DEF Start, Phases
  <2>2. QED
    BY <2>1 DEF InTime
<1>2. ASSUME NEW w \in Workers, Take(w) PROVE InTime'
  <2>1. mode # "closed" /\ mode' = mode
    BY <1>2 DEF Take, Phases
  <2>2. QED
    BY <2>1 DEF InTime
<1>3. ASSUME NEW w \in Workers, Send(w) PROVE InTime'
  <2> SUFFICES ASSUME main # "warmup", mode = "closed" PROVE InTime'
    BY <1>3 DEF InTime, Send
  <2>1. now \in 0..(Dur - 1) /\ doing' = [doing EXCEPT ![w] = [from |-> now, sent |-> now]] /\ buf' = buf
    BY <1>3, Sizes DEF Send, Stop, Do, TypeOK
  <2>2. \A v \in Workers : doing'[v] # None => doing'[v].from \in 0..(Dur - 1)
    BY <2>1 DEF InTime, TypeOK
  <2>3. QED
    BY <2>1, <2>2, SamplesKept DEF InTime
<1>4. ASSUME NEW w \in Workers, Returned(w) PROVE InTime'
  <2> SUFFICES ASSUME main # "warmup", mode = "closed" PROVE InTime'
    BY <1>4 DEF InTime, Returned, Return
  <2>1. PICK new :
          /\ Samples' = Samples \cup {new} /\ new \notin Samples
          /\ At(new)' = now /\ From(new)' = doing[w].from
          /\ \A id \in Samples : At(id)' = At(id) /\ From(id)' = From(id)
    BY <1>4, ReturnAdds DEF Returned
  <2>2. doing[w] # None /\ doing'[w] = None /\ \A v \in Workers \ {w} : doing'[v] = doing[v]
    BY <1>4 DEF Returned, Return, Busy, TypeOK
  <2>3. QED
    BY <2>1, <2>2 DEF InTime
<1>5. CASE Schedule \/ Quiet
  <2>1. UNCHANGED <<mode, doing, buf>> /\ (main' = "warmup" <=> main = "warmup")
    BY <1>5, QuietKeeps DEF Schedule
  <2>2. QED
    BY <2>1, SamplesKept DEF InTime
<1>6. QED
  BY <1>1, <1>2, <1>3, <1>4, <1>5, StepCases

(***************************************************************************)
(* The sampler's readings.                                                 *)
(***************************************************************************)
LEMMA LatenciesType ==
  ASSUME TypeOK, NEW w \in Workers
  PROVE  Latencies(w) \in Seq(Int) /\ SumOf(Latencies(w)) \in Int
<1>1. buf[w] \in Seq(Sample)
  BY DEF TypeOK
<1>2. Latencies(w) \in Seq(Int)
  <2>1. \A n \in 1..Len(buf[w]) : buf[w][n] \in Sample
    BY <1>1
  <2>2. DOMAIN buf[w] = 1..Len(buf[w]) /\ Len(buf[w]) \in Nat
    BY <1>1
  <2>3. Latencies(w) \in [1..Len(buf[w]) -> Int]
    BY <2>1, <2>2 DEF Latencies, Sample
  <2> QED BY <2>2, <2>3, SeqDef
<1> QED
  BY <1>2, SumType

\* A request that returns adds its latency.
LEMMA LatencyAdded ==
  ASSUME TypeOK, Past, NEW w \in Workers, Busy(w), Return(w), main # "warmup"
  PROVE  /\ SumOf(Latencies(w))' = SumOf(Latencies(w)) + (now - doing[w].from)
         /\ \A v \in Workers : v # w => Latencies(v)' = Latencies(v)
<1> DEFINE s == [lat |-> now - doing[w].from, at |-> now]
           b == buf[w]
           c == buf'[w]
<1>1. buf' = [buf EXCEPT ![w] = Append(b, s)] /\ buf \in [Workers -> Seq(Sample)]
  BY DEF Return, TypeOK
<1>2. b \in Seq(Sample) /\ c = Append(b, s) /\ \A v \in Workers : v # w => buf'[v] = buf[v]
  BY <1>1
<1>3. now - doing[w].from \in Int
  BY DEF TypeOK, Busy, Pending
<1>4. DOMAIN b = 1..Len(b) /\ DOMAIN c = 1..(Len(b) + 1) /\ Len(b) \in Nat
      /\ c[Len(b) + 1] = s /\ \A n \in 1..Len(b) : c[n] = b[n]
  <2> HIDE DEF s, b, c
  <2> QED BY <1>2
<1>5. Latencies(w) = [n \in DOMAIN b |-> b[n].lat] /\ Latencies(w)' = [n \in DOMAIN c |-> c[n].lat]
  BY DEF Latencies
<1>6. /\ Latencies(w)' \in Seq(Int) /\ Len(Latencies(w)') = Len(Latencies(w)) + 1
      /\ \A n \in 1..Len(Latencies(w)) : Latencies(w)'[n] = Latencies(w)[n]
      /\ Latencies(w)'[Len(b) + 1] = now - doing[w].from /\ Len(Latencies(w)) = Len(b)
  <2>1. s.lat = now - doing[w].from
    OBVIOUS
  <2> DEFINE x == Latencies(w)
             d == Latencies(w)'
  <2>2. x \in Seq(Int) /\ Len(x) = Len(b) /\ \A n \in 1..Len(b) : x[n] = b[n].lat /\ x[n] \in Int
    <3>1. x \in Seq(Int)
      BY LatenciesType
    <3>2. DOMAIN x = 1..Len(b) /\ DOMAIN x = 1..Len(x) /\ Len(x) \in Nat
      BY <1>4, <1>5, <3>1
    <3> QED BY <1>4, <1>5, <3>1, <3>2
  <2>3. d = [n \in 1..(Len(b) + 1) |-> c[n].lat]
    BY <1>4, <1>5
  <2> HIDE DEF x, b, c, d, s
  <2>4. \A n \in 1..(Len(b) + 1) : d[n] \in Int /\ (n \in 1..Len(b) => d[n] = x[n])
    BY <1>3, <1>4, <2>1, <2>2, <2>3
  <2>5. d \in [1..(Len(b) + 1) -> Int] /\ Len(b) + 1 \in Nat
    BY <1>4, <2>3, <2>4
  <2>6. d \in Seq(Int) /\ Len(d) = Len(b) + 1
    BY <2>5
  <2>7. d[Len(b) + 1] = now - doing[w].from
    BY <1>4, <2>1, <2>3
  <2>8. \A n \in 1..Len(x) : d[n] = x[n]
    BY <1>4, <2>2, <2>4
  <2> QED BY <2>2, <2>6, <2>7, <2>8 DEF x, d
<1>7. SumOf(Latencies(w)') = SumOf(Latencies(w)) + (now - doing[w].from)
  BY <1>6, LatenciesType, SumLast
<1>8. SumOf(Latencies(w))' = SumOf(Latencies(w)')
  BY DEF SumOf, Running
<1> QED
  BY <1>2, <1>7, <1>8 DEF Latencies

LEMMA FilledStep ==
  ASSUME TypeOK, Past, Phases, Filled, [Next]_vars
  PROVE  Filled'
<1> USE DEF clock, loop, workers, usage
<1> SUFFICES ASSUME (main # "warmup" /\ mode = "closed")', NEW v \in Workers
             PROVE  SumOf(Latencies(v))' + late' >= Reached(v)'
  BY DEF Filled
<1>1. mode = "closed" /\ late \in Nat /\ now \in Nat /\ SumOf(Latencies(v)) \in Int
  <2>1. UNCHANGED mode
    BY DEF Next, Goroutines, Worker, Start, Schedule, Close, FirstReading, LastReading, Cancel, Report,
           Take, Send, TimeOut, Leave, Tick, Finished, Answer, Return, vars
  <2> QED BY <2>1, LatenciesType, Sizes DEF TypeOK
<1>2. UNCHANGED buf => SumOf(Latencies(v))' = SumOf(Latencies(v))
  BY DEF Latencies, SumOf, Running
<1>3. CASE Start
  <2>1. Samples = {} /\ UNCHANGED <<buf, doing>> /\ ended = Workers /\ ended' = {} /\ now' = 0 /\ late' = 0
    BY <1>3 DEF Start, Phases
  <2>2. doing'[v] = None
    BY <2>1 DEF Phases
  <2>3. Latencies(v) = <<>>
    <3>1. DOMAIN buf[v] = {} /\ buf[v] \in Seq(Sample)
      <4>1. \A n \in DOMAIN buf[v] : <<v, n>> \in Samples
        BY SamplesAre
      <4> QED BY <2>1, <4>1 DEF TypeOK
    <3>2. Latencies(v) \in Seq(Int) /\ DOMAIN Latencies(v) = {}
      BY <3>1, LatenciesType DEF Latencies
    <3>3. PICK s \in Seq(Int) : s = Latencies(v)
      BY <3>2
    <3>4. Len(s) = 0
      BY <3>2, <3>3
    <3> QED BY <3>3, <3>4
  <2>4. SumOf(Latencies(v)) = 0
    BY <2>3, LatenciesType, SumType
  <2> QED BY <1>2, <2>1, <2>2, <2>4 DEF Reached, Busy
<1>4. ~Schedule /\ \A w \in Workers : ~Take(w)
  BY <1>1 DEF Schedule, Ready, Take, Phases
<1>5. ASSUME NEW w \in Workers, Send(w) PROVE SumOf(Latencies(v))' + late' >= Reached(v)'
  <2>1. UNCHANGED <<buf, ended, now, late, main>> /\ w \notin ended /\ doing[w] = None
        /\ doing' = [doing EXCEPT ![w] = [from |-> now, sent |-> now]]
    BY <1>5 DEF Send, Do, Idle, Busy
  <2>2. SumOf(Latencies(v)) + late >= Reached(v)
    BY <1>1, <2>1 DEF Filled
  <2>3. Reached(v)' = Reached(v)
    <3>1. CASE v = w
      <4>1. doing'[v] = [from |-> now, sent |-> now] /\ doing'[v].from = now
        BY <2>1, <3>1 DEF TypeOK
      <4>2. doing'[v] \in Pending
        BY <1>1, <4>1 DEF Pending
      <4>3. doing'[v] # None
        BY <4>2, NoneAssumption DEF Pending
      <4>4. v \notin ended' /\ now' = now /\ Busy(v)' /\ ~Busy(v) /\ v \notin ended
        BY <2>1, <3>1, <4>3 DEF Busy
      <4>5. Reached(v)' = doing'[v].from /\ Reached(v) = now
        BY <4>4 DEF Reached
      <4> QED BY <4>1, <4>5
    <3>2. CASE v # w
      <4>1. doing'[v] = doing[v]
        BY <2>1, <3>2 DEF TypeOK
      <4> QED BY <2>1, <4>1 DEF Reached, Busy
    <3> QED BY <3>1, <3>2
  <2> QED BY <1>2, <2>1, <2>2, <2>3
<1>6. ASSUME NEW w \in Workers, Returned(w) PROVE SumOf(Latencies(v))' + late' >= Reached(v)'
  <2>1. UNCHANGED <<ended, now, late, main>> /\ doing' = [doing EXCEPT ![w] = None] /\ Busy(w) /\ Return(w)
    BY <1>6 DEF Returned, Return
  <2>2. SumOf(Latencies(v)) + late >= Reached(v) /\ main # "warmup"
    BY <1>1, <2>1 DEF Filled
  <2>3. /\ SumOf(Latencies(w))' = SumOf(Latencies(w)) + (now - doing[w].from)
        /\ \A u \in Workers : u # w => Latencies(u)' = Latencies(u)
    BY <2>1, <2>2, LatencyAdded
  <2>4. CASE v = w
    <3>1. doing'[v] = None /\ v \notin ended /\ doing[v].from \in Nat
      BY <2>1, <2>4 DEF TypeOK, Phases, Busy, Pending
    <3>2. Reached(v)' = now /\ Reached(v) = doing[v].from
      BY <2>1, <2>4, <3>1 DEF Reached, Busy
    <3> QED BY <1>1, <2>1, <2>2, <2>3, <2>4, <3>1, <3>2
  <2>5. CASE v # w
    <3>1. doing'[v] = doing[v]
      BY <2>1, <2>5 DEF TypeOK
    <3>2. Reached(v)' = Reached(v)
      BY <2>1, <3>1 DEF Reached, Busy
    <3>3. SumOf(Latencies(v))' = SumOf(Latencies(v))
      BY <2>3, <2>5 DEF SumOf, Running
    <3> QED BY <2>1, <2>2, <3>2, <3>3
  <2> QED BY <2>4, <2>5
<1>7. CASE Quiet
  <2>1. UNCHANGED <<mode, i, sched, doing, buf>> /\ main # "warmup"
    BY <1>7, QuietKeeps
  <2>2. SumOf(Latencies(v)) + late >= Reached(v)
    BY <1>1, <2>1 DEF Filled
  <2>3. CASE UNCHANGED <<ended, now, late>>
    <3>1. Reached(v)' = Reached(v)
      BY <2>1, <2>3 DEF Reached, Busy
    <3> QED BY <1>2, <2>1, <2>2, <2>3, <3>1
  <2>4. ASSUME NEW w \in Workers, Leave(w) PROVE SumOf(Latencies(v))' + late' >= Reached(v)'
    <3>1. ended' = ended \cup {w} /\ UNCHANGED <<now, late>> /\ doing[w] = None /\ w \notin ended /\ now >= Dur
      BY <1>1, <2>1, <2>4 DEF Leave, Idle, Busy, Over, Loop, Stop
    <3>2. Reached(v)' <= Reached(v) \/ Reached(v)' = Reached(v)
      BY <1>1, <2>1, <3>1, Sizes DEF Reached, Busy
    <3>3. Reached(v) \in Int /\ Reached(v)' \in Int
      <4>1. v \notin ended /\ Busy(v) => doing[v].from \in Nat
        BY DEF TypeOK, Busy, Pending
      <4> QED BY <1>1, <2>1, <3>1, <4>1, Sizes DEF Reached, Busy
    <3> QED BY <1>1, <1>2, <2>1, <2>2, <3>1, <3>2, <3>3
  <2>5. CASE Tick
    <3>1. now' = now + 1 /\ ended' = ended /\ late' \in Nat /\ late' >= late /\ (Runnable => late' = late + 1)
      BY <1>1, <2>5 DEF Tick
    <3>2. CASE v \notin ended /\ ~Busy(v)
      <4>1. Runnable
        BY <1>1, <3>2 DEF Runnable, Idle, Loop
      <4>2. Reached(v) = now /\ Reached(v)' = now + 1
        BY <2>1, <3>1, <3>2 DEF Reached, Busy
      <4> QED BY <1>1, <1>2, <2>1, <2>2, <3>1, <4>1, <4>2
    <3>3. CASE v \in ended \/ Busy(v)
      <4>1. Reached(v)' = Reached(v) /\ Reached(v) \in Nat
        BY <2>1, <3>1, <3>3, Sizes DEF Reached, Busy, TypeOK, Pending
      <4> QED BY <1>1, <1>2, <2>1, <2>2, <3>1, <4>1
    <3> QED BY <3>2, <3>3
  <2>6. Close \/ FirstReading \/ LastReading \/ Cancel \/ Report \/ UNCHANGED vars => UNCHANGED <<ended, now, late>>
    BY DEF Close, FirstReading, LastReading, Cancel, Report, vars
  <2> QED BY <1>7, <2>3, <2>4, <2>5, <2>6 DEF Quiet
<1> QED
  BY <1>3, <1>4, <1>5, <1>6, <1>7, StepCases

LEMMA ReadKept ==
  ASSUME NEW r, Read(r), Cancelled => Cancelled' /\ UNCHANGED buf
  PROVE  Read(r)'
<1>1. CASE r = None
  BY <1>1 DEF Read
<1>2. CASE r # None
  <2>1. Cancelled' /\ UNCHANGED buf /\ \A id \in Samples : At(id) <= r.to
    BY <1>2 DEF Read
  <2>2. Samples' = Samples /\ \A id : At(id)' = At(id)
    BY <2>1, SamplesKept
  <2>3. QED
    BY <2>1, <2>2 DEF Read
<1>3. QED
  BY <1>1, <1>2

LEMMA ReadingsStep ==
  ASSUME TypeOK, Past, Phases, Readings, [Next]_vars
  PROVE  Readings'
<1> USE DEF clock, loop, workers, usage
<1>1. Cancelled => Cancelled' /\ UNCHANGED buf
  <2>1. CASE Start \/ Schedule
    BY <2>1 DEF Start, Schedule, Ready, Cancelled
  <2>2. CASE Quiet
    BY <2>2, QuietKeeps
  <2>3. ASSUME NEW w \in Workers, Take(w) \/ Send(w) \/ Returned(w) PROVE ~Cancelled
    BY <2>3 DEF Take, Send, Returned, Idle, Busy, Phases
  <2>4. QED
    BY <2>1, <2>2, <2>3, StepCases
<1>2. \A r : Read(r) => Read(r)'
  BY <1>1, ReadKept
<1>3. CASE FirstReading
  <2>1. out' = out /\ (resCh' = resCh \/ resCh' = <<None>>)
    BY <1>3 DEF FirstReading
  <2>2. CASE resCh' = resCh
    BY <1>2, <2>1, <2>2 DEF Readings, Read
  <2>3. CASE resCh' = <<None>>
    <3>1. \A n \in 1..Len(resCh') : resCh'[n] = None
      BY <2>3
    <3>2. QED
      BY <1>2, <2>1, <3>1 DEF Readings, Read
  <2>4. QED
    BY <2>1, <2>2, <2>3
<1>4. CASE LastReading
  <2>1. PICK r : resCh' = <<r>> /\ (r = None \/ r = [from |-> first, to |-> now])
    BY <1>4 DEF LastReading
  <2>2. Read(r)
    BY <1>4, <2>1 DEF LastReading, Read, Past
  <2>3. \A n \in 1..Len(resCh') : resCh'[n] = r
    BY <2>1
  <2>4. out' = out
    BY <1>4 DEF LastReading
  <2>5. QED
    BY <1>2, <2>2, <2>3, <2>4 DEF Readings, Read
<1>5. CASE Report
  <2>1. CASE resCh # <<>> /\ resCh' = Tail(resCh) /\ out' = Head(resCh)
    <3>1. resCh \in Seq(Resource \cup {None})
      BY DEF TypeOK
    <3>2. Len(resCh') = Len(resCh) - 1 /\ Len(resCh) \in Nat /\ Len(resCh) > 0 /\ out' = resCh[1]
          /\ \A n \in 1..Len(resCh') : resCh'[n] = resCh[n + 1]
      BY <2>1, <3>1
    <3>3. Read(resCh[1]) /\ \A n \in 1..Len(resCh') : Read(resCh[n + 1])
      BY <3>2 DEF Readings
    <3>4. PICK r : r = resCh[1]
      OBVIOUS
    <3>5. Read(out)'
      BY <1>2, <3>2, <3>3, <3>4 DEF Read
    <3>6. ASSUME NEW n \in 1..Len(resCh') PROVE Read(resCh[n])'
      <4>1. PICK q : q = resCh[n + 1]
        OBVIOUS
      <4>2. QED
        BY <1>2, <3>2, <3>3, <4>1 DEF Read
    <3>7. QED
      BY <3>5, <3>6 DEF Readings
  <2>2. CASE resCh' = resCh /\ out' = None
    BY <1>2, <2>2 DEF Readings, Read
  <2>3. QED
    BY <1>5, <2>1, <2>2 DEF Report
<1>6. CASE UNCHANGED <<resCh, out>>
  BY <1>2, <1>6 DEF Readings, Read
<1>7. \/ Start \/ Schedule \/ Close \/ Cancel \/ Tick \/ UNCHANGED vars
      \/ \E w \in Workers : Take(w) \/ Send(w) \/ Returned(w) \/ Leave(w)
      => UNCHANGED <<resCh, out>>
  BY DEF Start, Schedule, Close, Cancel, Tick, vars, Take, Send, Returned, Return, Leave
<1>8. QED
  BY <1>3, <1>4, <1>5, <1>6, <1>7, StepCases DEF Quiet

(***************************************************************************)
(* The theorems.                                                           *)
(***************************************************************************)
LEMMA InitIInv == Init => IInv
<1> SUFFICES ASSUME Init PROVE IInv
  OBVIOUS
<1>1. Samples = {} /\ sched = <<>> /\ i = 0 /\ resCh = <<>> /\ out = None /\ main = "warmup"
      /\ sampler = "start" /\ ended = {} /\ ~closed /\ \A w \in Workers : doing[w] = None
  BY NoSamples DEF Init
<1>2. Len(sched) = 0 /\ Len(resCh) = 0
  BY <1>1
<1>3. Past /\ Phases
  BY <1>1, <1>2 DEF Past, Phases, Cancelled
<1>4. Queue /\ Kept /\ Once /\ InTime /\ Filled
  BY <1>1, <1>2 DEF Queue, Taken, Kept, Once, InTime, Filled
<1>5. Readings
  BY <1>1, <1>2 DEF Readings, Read
<1>6. QED
  BY <1>3, <1>4, <1>5, InitType DEF IInv

LEMMA IInvStep == IInv /\ [Next]_vars => IInv'
  BY TypeStep, PastStep, PhasesStep, QueueStep, KeptStep, OnceStep, InTimeStep, FilledStep, ReadingsStep DEF IInv

THEOREM IInvHolds == Spec => []IInv
  BY InitIInv, IInvStep, PTL DEF Spec

\* The load generator's variables keep their types: the channel never exceeds its
\* capacity, latencies are never negative.
THEOREM TypeCorrect == Spec => []TypeOK
<1>1. IInv => TypeOK
  BY DEF IInv
<1>2. QED
  BY <1>1, IInvHolds, PTL

LEMMA Complete == IInv => ResultComplete
<1> SUFFICES ASSUME IInv, main = "done" PROVE ResultComplete
  BY DEF ResultComplete
<1>1. ended = Workers /\ \A w \in Workers : doing[w] = None
  BY DEF IInv, Phases, Cancelled
<1>2. CASE mode = "open"
  <2>1. i = Total /\ sched = <<>>
    BY <1>1, <1>2, WorkersAssumption DEF IInv, Phases
  <2>2. Len(sched) = 0
    BY <2>1
  <2>3. Taken = Total
    BY <2>1, <2>2, Sizes DEF Taken
  <2>4. QED
    BY <1>1, <1>2, <2>3 DEF IInv, Kept, Holds, Once, Readings, Read, ResultComplete
<1>3. CASE mode # "open"
  BY <1>3 DEF IInv, InTime, Readings, Read, ResultComplete
<1>4. QED
  BY <1>2, <1>3

\* Each request due in the open loop is in the result exactly once, those of the
\* closed loop were sent within the duration, and the CPU time was read after the
\* last of them had ended.
THEOREM ResultIsComplete == Spec => []ResultComplete
  BY Complete, IInvHolds, PTL

\* No coordinated omission: what was due in the open loop while nothing was answered
\* is as late as the first answer after it, and the latencies of a worker of the
\* closed loop fill the duration, but for what the machine took.
THEOREM StallsAreShown == Spec => []StallsShown
<1>1. IInv => StallsShown
  <2> SUFFICES ASSUME IInv, main = "done" PROVE (mode = "open" => OpenStalls) /\ (mode = "closed" => ClosedFills)
    BY DEF StallsShown
  <2>1. ended = Workers /\ elapsed \in Nat
    BY DEF IInv, Phases, Cancelled
  <2>2. ASSUME mode = "open", NEW a \in 0..elapsed, NEW b \in 0..elapsed, NEW k \in 0..(Total - 1),
               a <= Due(k), Due(k) < b, \A id \in Samples : At(id) <= a \/ At(id) >= b
        PROVE  \E id \in Samples : From(id) = Due(k) /\ At(id) >= b
    <3>1. PICK id \in Samples : From(id) = Due(k)
      BY <2>2, Complete DEF ResultComplete
    <3>2. From(id) < At(id) /\ At(id) \in Nat /\ Due(k) \in Nat /\ a \in Nat
      BY <2>1, SampleType, DueNat, Sizes DEF IInv, Past
    <3>3. ~(At(id) <= a)
      BY <2>2, <3>1, <3>2
    <3> QED BY <2>2, <3>1, <3>3
  <2>3. mode = "closed" => ClosedFills
    BY <2>1 DEF IInv, Filled, Reached, ClosedFills
  <2> QED BY <2>2, <2>3 DEF OpenStalls
<1> QED
  BY <1>1, IInvHolds, PTL

=============================================================================
