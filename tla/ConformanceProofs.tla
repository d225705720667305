-------------------------- MODULE ConformanceProofs --------------------------
(***************************************************************************)
(* A verdict of the verifier means what it says, for any number of stacks  *)
(* and requests, any cap on what is reported, any stock and any way for a  *)
(* stack to go wrong that the model knows.                                 *)
(***************************************************************************)
EXTENDS Conformance, FiniteSetTheorems, WellFoundedInduction, SequenceTheorems, TLAPS

(***************************************************************************)
(* The inductive invariant.                                                *)
(***************************************************************************)
\* One service is up at most: the one collect is at.
Running ==
  /\ up \subseteq {at}
  /\ pc \in {"start", "compare"} => up = {}
  /\ pc = "exit" => up = {} \/ verdict = "no start"

\* How many answers are in, and that a verdict ends it all.
Progress ==
  /\ pc \in {"start", "ask", "stop"} => \A s \in 1..(at - 1) : Len(results[s]) = N
  /\ pc = "ask" => Len(results[at]) < N
  /\ pc = "stop" => Len(results[at]) = N
  /\ pc = "compare" => at = 1
  /\ pc # "exit" => verdict = None

\* The stacks whose answers are those of the phase.
Fresh ==
  {s \in Stack : \/ pc = "start" /\ s < at
                 \/ pc \in {"ask", "stop"} /\ s <= at
                 \/ pc = "compare"}

\* An answer is wrong where its stack gets it wrong and had stock to sell; stock
\* that has run out does not come back.
Faithful ==
  \A s \in Fresh : \A i \in DOMAIN results[s] :
    LET a == results[s][i] IN
    /\ a.status = 409 => phase = 3 /\ reserved >= stock
    /\ a.amount = "wrong" <=> a.status = 200 /\ does[s].wrong = <<Phases[phase], i>>
Drained ==
  \A s, t \in Fresh : s < t =>
    \A i \in DOMAIN results[s], j \in DOMAIN results[t] :
      results[s][i].status = 409 => results[t][j].status = 409

\* The endpoints that were judged hold no divergence that was not reported.
Caught ==
  pc # "exit" /\ failures = {} =>
    \A s \in Stack, p \in 1..(phase - 1), i \in 1..N :
      <<Phases[p], i>> = does[s].wrong <=> <<Phases[p], i>> = does[1].wrong

\* Stacks that behave alike and as they should are never refused, because so far
\* they reserved a unit per checkout at most.
Alike == (\A s \in Stack : does[s] = does[1] /\ does[s].books = 1) /\ stock >= K * N
Booked ==
  CASE pc = "start" -> (at - 1) * N
    [] pc \in {"ask", "stop"} -> (at - 1) * N + Len(results[at])
    [] OTHER -> K * N
Served ==
  Alike =>
    /\ failures = {} /\ verdict # "FAIL"
    /\ pc # "exit" => reserved <= IF phase = 3 THEN Booked ELSE 0
    /\ \A s \in Fresh : \A i \in DOMAIN results[s] : results[s][i].status = 200

IInv ==
  /\ TypeOK /\ Running /\ Progress /\ Faithful /\ Drained /\ Caught /\ Served
  /\ BlameIsFair /\ DivergenceCaught

(***************************************************************************)
(* Lemmas.                                                                 *)
(***************************************************************************)
LEMMA PhaseNames ==
  /\ DOMAIN Phases = 1..3 /\ Len(Phases) = 3
  /\ Phases[1] = "summary" /\ Phases[2] = "quote" /\ Phases[3] = "checkout"
  BY DEF Phases

LEMMA AskedIs ==
  ASSUME NEW p \in 1..3, NEW i \in 1..N
  PROVE  <<Phases[p], i>> \in Asked
  BY PhaseNames DEF Asked

LEMMA DoesType ==
  ASSUME TypeOK, NEW s \in Stack
  PROVE  does[s].books \in Nat
<1>1. does[s] \in [wrong : Asked \cup {None}, books : Nat]
  BY BehavioursAssumption DEF TypeOK
<1>2. QED
  BY <1>1

\* If none is reported, none diverges: of those that do, one comes first.
LEMMA FirstIsReported ==
  ASSUME Compare = {}
  PROVE  Diverging = {}
<1> SUFFICES ASSUME Diverging # {} PROVE FALSE
  OBVIOUS
<1> DEFINE less == LexPairOrdering(OpToRel(<, Nat), OpToRel(<, Nat), Nat, Nat)
<1>1. IsWellFoundedOn(less, Nat \X Nat)
  BY NatLessThanWellFounded, WFLexPairOrdering
<1>2. Diverging \subseteq Nat \X Nat
  BY SizeAssumption DEF Diverging
<1> HIDE DEF less
<1>3. PICK d \in Diverging : \A e \in Diverging : <<e, d>> \notin less
  BY <1>1, <1>2, WFMin
<1>4. ASSUME NEW e \in Diverging, Before(e, d) PROVE FALSE
  <2>1. e \in Nat \X Nat /\ d \in Nat \X Nat
    BY <1>2
  <2>2. <<e, d>> \in less
    BY <1>4, <2>1 DEF less, LexPairOrdering, OpToRel, Before
  <2>3. QED
    BY <1>3, <2>2
<1>5. {e \in Diverging : Before(e, d)} = {}
  BY <1>4
<1>6. Cardinality({e \in Diverging : Before(e, d)}) < Enough
  BY <1>5, FS_EmptySet, SizeAssumption
<1>7. QED
  BY <1>6 DEF Compare

LEMMA AnswerFields ==
  ASSUME NEW st \in {200, 409}, NEW id \in Nat, NEW am \in {"right", "wrong"}, NEW s \in Stack
  PROVE  [status |-> st, orderId |-> id, amount |-> am, spelt |-> s] \in Answer
  BY DEF Answer

LEMMA AnswerTyped ==
  ASSUME TypeOK, NEW s \in Stack
  PROVE  /\ Reply(s) \in Answer
         /\ Reply(s).status = IF Sold(s) THEN 200 ELSE 409
         /\ Reply(s).orderId = IF Sold(s) /\ Phases[phase] = "checkout" THEN orders + 1 ELSE 0
         /\ Reply(s).amount = "wrong"
              <=> Sold(s) /\ does[s].wrong = <<Phases[phase], Len(results[s]) + 1>>
<1> DEFINE st == IF Sold(s) THEN 200 ELSE 409
           id == IF Sold(s) /\ Phases[phase] = "checkout" THEN orders + 1 ELSE 0
           bad == Sold(s) /\ does[s].wrong = <<Phases[phase], Len(results[s]) + 1>>
           am == IF bad THEN "wrong" ELSE "right"
<1>1. Reply(s) = [status |-> st, orderId |-> id, amount |-> am, spelt |-> s]
  BY DEF Reply
<1>2. st \in {200, 409} /\ id \in Nat /\ am \in {"right", "wrong"}
  <2>1. st \in {200, 409}
    OBVIOUS
  <2>2. orders \in Nat
    BY DEF TypeOK
  <2>3. id \in Nat
    <3>1. orders + 1 \in Nat /\ 0 \in Nat
      BY <2>2
    <3>2. QED
      BY <3>1
  <2>4. am \in {"right", "wrong"}
    OBVIOUS
  <2>5. QED
    BY <2>1, <2>3, <2>4
<1>3. am = "wrong" <=> bad
  OBVIOUS
<1> HIDE DEF st, id, am, bad
<1>4. Reply(s) \in Answer
  BY <1>1, <1>2, AnswerFields
<1>5. Reply(s).status = st /\ Reply(s).orderId = id /\ Reply(s).amount = am
  BY <1>1
<1>6. QED
  BY <1>3, <1>4, <1>5 DEF st, id, am, bad

\* What TypeOK says of the numbers and the answers.
LEMMA Numbers ==
  ASSUME TypeOK
  PROVE  /\ K \in Nat /\ N \in Nat /\ K >= 1 /\ N >= 1
         /\ stock \in Nat /\ reserved \in Nat /\ orders \in Nat
         /\ phase \in 1..3 /\ at \in 1..K /\ Stack = 1..K
         /\ results \in [Stack -> Seq(Answer)]
         /\ \A s \in Stack :
              /\ results[s] \in Seq(Answer) /\ Len(results[s]) \in Nat
              /\ DOMAIN results[s] = 1..Len(results[s])
              /\ \A i \in DOMAIN results[s] : results[s][i] \in Answer
<1>1. stock \in Nat /\ reserved \in Nat /\ orders \in Nat
  BY StocksAssumption DEF TypeOK
<1>2. phase \in 1..3 /\ at \in 1..K
  BY PhaseNames DEF TypeOK, Stack
<1>3. results \in [Stack -> Seq(Answer)]
  BY DEF TypeOK
<1>4. ASSUME NEW s \in Stack
      PROVE  /\ results[s] \in Seq(Answer) /\ Len(results[s]) \in Nat /\ DOMAIN results[s] = 1..Len(results[s])
             /\ \A i \in DOMAIN results[s] : results[s][i] \in Answer
  BY <1>3, ElementOfSeq, LenProperties
<1>5. QED
  BY <1>1, <1>2, <1>3, <1>4, SizeAssumption DEF Stack

(***************************************************************************)
(* Type correctness, and that one service is up.                           *)
(***************************************************************************)
LEMMA InitType == Init => TypeOK /\ Running /\ Progress
<1> SUFFICES ASSUME Init PROVE TypeOK /\ Running /\ Progress
  OBVIOUS
<1>1. 1 \in Stack /\ 1 \in DOMAIN Phases
  BY SizeAssumption, PhaseNames DEF Stack
<1>2. <<>> \in Seq(Answer)
  OBVIOUS
<1>3. results \in [Stack -> Seq(Answer)]
  BY <1>2 DEF Init
<1>4. TypeOK
  BY <1>1, <1>3 DEF Init, TypeOK
<1>5. QED
  BY <1>4 DEF Init, Running, Progress

\* The answers that are compared are reported with their types.
LEMMA ReportTyped ==
  ASSUME TypeOK, pc = "compare", NEW d \in Compare
  PROVE  /\ Report(d) \in Asked \X Stack \X Answer \X Answer
         /\ d[1] \in 2..K /\ d[2] \in 1..N /\ d \in Diverging
<1>1. d \in Diverging /\ d[1] \in 2..K /\ d[2] \in 1..N
  BY DEF Compare, Diverging
<1>2. 1 \in Stack /\ d[1] \in Stack /\ phase \in 1..3
  BY <1>1, Numbers
<1>3. Len(results[1]) = N /\ Len(results[d[1]]) = N
  BY <1>2 DEF TypeOK
<1>4. results[1][d[2]] \in Answer /\ results[d[1]][d[2]] \in Answer
  BY <1>1, <1>2, <1>3, Numbers
<1>5. <<Phases[phase], d[2]>> \in Asked
  BY <1>1, <1>2, AskedIs
<1>6. QED
  BY <1>1, <1>2, <1>4, <1>5 DEF Report

\* An answer more.
LEMMA CallAdds ==
  ASSUME TypeOK, Call
  PROVE  /\ at \in Stack /\ results' \in [Stack -> Seq(Answer)]
         /\ Len(results'[at]) = Len(results[at]) + 1
         /\ results'[at][Len(results[at]) + 1] = Reply(at)
         /\ \A i \in 1..Len(results[at]) : results'[at][i] = results[at][i]
         /\ \A s \in Stack \ {at} : results'[s] = results[s]
         /\ orders' \in Nat /\ reserved' \in Nat /\ reserved' >= reserved
<1>1. at \in Stack /\ results \in [Stack -> Seq(Answer)] /\ results[at] \in Seq(Answer)
  BY Numbers DEF TypeOK
<1>2. Reply(at) \in Answer
  BY <1>1, AnswerTyped
<1>3. results' = [results EXCEPT ![at] = Append(results[at], Reply(at))]
  BY DEF Call
<1>4. Append(results[at], Reply(at)) \in Seq(Answer)
  BY <1>1, <1>2, AppendProperties
<1>5. results'[at] = Append(results[at], Reply(at))
  BY <1>1, <1>3
<1>6. Reply(at).orderId \in Nat /\ does[at].books \in Nat
  BY <1>1, <1>2, DoesType DEF Answer
<1>7. orders' \in Nat /\ reserved' \in Nat /\ reserved' >= reserved
  BY <1>6, Numbers, SMTT(30) DEF Call
<1>8. QED
  BY <1>1, <1>2, <1>3, <1>4, <1>5, <1>7, AppendProperties

LEMMA TypeStep ==
  ASSUME TypeOK, Running, Progress, [Next]_vars
  PROVE  TypeOK' /\ Running' /\ Progress'
<1>1. CASE Start
  <2>0. <<>> \in Seq(Answer) /\ at \in Stack /\ at \in 1..K /\ K \in Nat
    BY Numbers
  <2>1. results' \in [Stack -> Seq(Answer)]
    BY <1>1, <2>0, Numbers DEF Start
  <2>2. at \in Stack /\ results'[at] = <<>>
    BY <1>1, <2>0, Numbers DEF Start
  <2>3. Len(results'[at]) = 0 /\ N > 0
    BY <2>2, EmptySeq, Numbers
  <2>4. \A s \in 1..(at - 1) : s \in Stack /\ results'[s] = results[s]
    <3>1. \A s \in 1..(at - 1) : s \in 1..K /\ s # at
      BY <2>0
    <3>2. QED
      BY <1>1, <3>1, Numbers DEF Start
  <2>5. TypeOK'
    BY <1>1, <2>1, <2>2 DEF Start, TypeOK
  <2>6. QED
    BY <1>1, <2>2, <2>3, <2>4, <2>5 DEF Start, Running, Progress
<1>2. CASE StartFails
  <2>1. TypeOK'
    BY <1>2 DEF StartFails, TypeOK, Running
  <2>2. QED
    BY <1>2, <2>1 DEF StartFails, Running, Progress
<1>3. CASE Call
  <2>1. TypeOK'
    BY <1>3, CallAdds DEF Call, TypeOK
  <2>2. Left(results[at]) /\ ~(\E n \in Nat : n < N /\ N < n + 1)
    BY <1>3, Numbers DEF Call
  <2>3. pc' = IF Len(results[at]) + 1 < N THEN "ask" ELSE "stop"
    BY <1>3, CallAdds DEF Call, Left
  <2>4. \A s \in 1..(at - 1) : results'[s] = results[s]
    <3>1. at \in 1..K /\ Stack = 1..K /\ K \in Nat
      BY Numbers
    <3>2. \A s \in 1..(at - 1) : s \in Stack \ {at}
      BY <3>1
    <3>3. QED
      BY <1>3, <3>2, CallAdds
  <2>5. Len(results[at]) \in Nat /\ Len(results[at]) < N /\ N \in Nat
    BY <2>2, <1>3, CallAdds, Numbers DEF Left
  <2>6. Progress'
    BY <1>3, <2>3, <2>4, <2>5, CallAdds DEF Call, Progress
  <2>7. Running'
    BY <1>3, <2>3 DEF Call, Running
  <2>8. QED
    BY <2>1, <2>6, <2>7
<1>4. CASE CallFails
  <2>1. TypeOK'
    BY <1>4 DEF CallFails, TypeOK
  <2>2. QED
    BY <1>4, <2>1 DEF CallFails, Running, Progress
<1>5. CASE Stop
  <2>1. up = {at} /\ up' = {} /\ results' = results
    BY <1>5 DEF Stop, TypeOK, Running
  <2>2. CASE at < K
    <3>1. at' = at + 1 /\ pc' = "start" /\ at' \in Stack
      BY <1>5, <2>2, Numbers DEF Stop
    <3>2. TypeOK'
      BY <1>5, <2>1, <3>1 DEF Stop, TypeOK
    <3>3. \A s \in 1..(at' - 1) : s \in 1..(at - 1) \/ s = at
      BY <3>1, Numbers
    <3>4. QED
      BY <1>5, <2>1, <3>1, <3>2, <3>3 DEF Stop, Running, Progress
  <2>3. CASE ~(at < K)
    <3>1. at = K /\ at' = 1 /\ pc' = "compare" /\ 1 \in Stack
      BY <1>5, <2>3, Numbers DEF Stop
    <3>2. \A s \in Stack : s \in 1..(at - 1) \/ s = at
      BY <3>1, Numbers
    <3>3. \A s \in Stack : Len(results'[s]) = N
      BY <1>5, <2>1, <3>2 DEF Stop, Progress
    <3>4. TypeOK'
      BY <1>5, <2>1, <3>1, <3>3 DEF Stop, TypeOK
    <3>5. QED
      BY <1>5, <2>1, <3>1, <3>4 DEF Stop, Running, Progress
  <2>4. QED
    BY <2>2, <2>3
<1>6. CASE Judge
  <2>1. failures' \subseteq Asked \X Stack \X Answer \X Answer
    BY <1>6, ReportTyped DEF Judge, TypeOK
  <2>2. at = 1 /\ phase' \in DOMAIN Phases /\ up = {}
    BY <1>6, PhaseNames, Numbers DEF Judge, Running, Progress
  <2>3. TypeOK'
    BY <1>6, <2>1, <2>2 DEF Judge, TypeOK
  <2>4. QED
    BY <1>6, <2>2, <2>3 DEF Judge, Running, Progress
<1>7. CASE UNCHANGED vars
  BY <1>7 DEF vars, TypeOK, Running, Progress
<1>8. QED
  BY <1>1, <1>2, <1>3, <1>4, <1>5, <1>6, <1>7 DEF Next, Step, Exited

(***************************************************************************)
(* The answers of the phase.                                               *)
(***************************************************************************)
LEMMA FreshStep ==
  ASSUME TypeOK, Running, Progress
  PROVE  /\ Start => /\ Fresh' = Fresh \cup {at} /\ at \notin Fresh /\ results'[at] = <<>>
                     /\ \A s \in Fresh : results'[s] = results[s]
         /\ Call => Fresh' = Fresh /\ at \in Fresh
         /\ Stop => Fresh' = Fresh
         /\ StartFails \/ CallFails \/ Judge => Fresh' = {}
<1>0. at \in 1..K /\ Stack = 1..K /\ K \in Nat /\ at \in Stack /\ results \in [Stack -> Seq(Answer)]
  BY Numbers
<1>1. ASSUME Start
      PROVE  /\ Fresh' = Fresh \cup {at} /\ at \notin Fresh /\ results'[at] = <<>>
             /\ \A s \in Fresh : results'[s] = results[s]
  <2>1. pc = "start" /\ pc' = "ask" /\ at' = at /\ results' = [results EXCEPT ![at] = <<>>]
    BY <1>1 DEF Start
  <2>2. Fresh = {s \in Stack : s < at} /\ Fresh' = {s \in Stack : s <= at}
    BY <2>1 DEF Fresh
  <2>3. QED
    BY <1>0, <2>1, <2>2
<1>2. ASSUME Call PROVE Fresh' = Fresh /\ at \in Fresh
  BY <1>0, <1>2 DEF Call, Fresh
<1>3. ASSUME Stop PROVE Fresh' = Fresh
  <2>1. pc = "stop" /\ Fresh = {s \in Stack : s <= at}
    BY <1>3 DEF Stop, Fresh
  <2>2. CASE at < K
    <3>1. pc' = "start" /\ at' = at + 1
      BY <1>3, <2>2 DEF Stop
    <3>2. Fresh' = {s \in Stack : s < at + 1}
      BY <3>1 DEF Fresh
    <3>3. \A s \in Stack : s <= at <=> s < at + 1
      BY <1>0
    <3>4. QED
      BY <2>1, <3>2, <3>3
  <2>3. CASE ~(at < K)
    <3>1. pc' = "compare" /\ at = K
      BY <1>0, <1>3, <2>3 DEF Stop
    <3>2. Fresh' = Stack
      BY <3>1 DEF Fresh
    <3>3. QED
      BY <1>0, <2>1, <3>1, <3>2
  <2>4. QED
    BY <2>2, <2>3
<1>4. ASSUME StartFails \/ CallFails PROVE Fresh' = {}
  BY <1>4 DEF StartFails, CallFails, Fresh
<1>5. ASSUME Judge PROVE Fresh' = {}
  <2>1. at' = 1 /\ pc' \in {"start", "exit"}
    BY <1>5 DEF Judge, Progress
  <2>2. QED
    BY <1>0, <2>1 DEF Fresh
<1>6. QED
  BY <1>1, <1>2, <1>3, <1>4, <1>5

LEMMA FaithfulStep ==
  ASSUME TypeOK, Running, Progress, Faithful, Drained, [Next]_vars
  PROVE  Faithful' /\ Drained'
<1>1. CASE Start
  <2>1. DOMAIN results'[at] = {}
    BY <1>1, FreshStep
  <2>2. UNCHANGED <<phase, reserved, stock, does>>
    BY <1>1 DEF Start
  <2>3. Faithful'
    BY <1>1, <2>1, <2>2, FreshStep DEF Faithful
  <2>4. Drained'
    BY <1>1, <2>1, <2>2, FreshStep DEF Drained
  <2>5. QED
    BY <2>3, <2>4
<1>2. CASE StartFails \/ CallFails \/ Judge
  BY <1>2, FreshStep DEF Faithful, Drained
<1>3. CASE Call
  <2> DEFINE n == Len(results[at]) + 1
             a == Reply(at)
  <2>1. /\ at \in Stack /\ Fresh' = Fresh /\ at \in Fresh /\ Fresh \subseteq Stack
        /\ results'[at][n] = a
        /\ DOMAIN results'[at] = 1..n /\ DOMAIN results[at] = 1..(n - 1) /\ n \in Nat \ {0}
        /\ \A i \in 1..(n - 1) : results'[at][i] = results[at][i]
        /\ \A s \in Stack \ {at} : results'[s] = results[s]
    <3>1. results' \in [Stack -> Seq(Answer)] /\ Len(results'[at]) = n /\ at \in Stack
      BY <1>3, CallAdds
    <3>2. DOMAIN results'[at] = 1..n
      BY <3>1, LenProperties
    <3>3. QED
      BY <1>3, <3>1, <3>2, FreshStep, CallAdds, Numbers DEF Fresh
  <2>2. reserved' >= reserved /\ reserved \in Nat /\ reserved' \in Nat /\ stock \in Nat
    BY <1>3, CallAdds, Numbers
  <2>3. UNCHANGED <<phase, stock, does>>
    BY <1>3 DEF Call
  <2>4. /\ a.status = IF Sold(at) THEN 200 ELSE 409
        /\ a.amount = "wrong" <=> Sold(at) /\ does[at].wrong = <<Phases[phase], n>>
    BY <2>1, AnswerTyped
  <2>5. Sold(at) <=> phase # 3 \/ reserved < stock
    BY PhaseNames, Numbers DEF Sold
  <2> HIDE DEF n, a
  <2>6. Faithful'
    <3> SUFFICES ASSUME NEW s \in Fresh, NEW i \in DOMAIN results'[s]
                 PROVE  /\ results'[s][i].status = 409 => phase' = 3 /\ reserved' >= stock'
                        /\ results'[s][i].amount = "wrong"
                             <=> results'[s][i].status = 200 /\ does'[s].wrong = <<Phases[phase'], i>>
      BY <2>1 DEF Faithful
    <3>1. CASE s = at /\ i = n
      BY <2>1, <2>2, <2>3, <2>4, <2>5, <3>1
    <3>2. CASE ~(s = at /\ i = n)
      <4>1. i \in DOMAIN results[s] /\ results'[s][i] = results[s][i]
        BY <2>1, <3>2
      <4>2. QED
        BY <2>2, <2>3, <4>1 DEF Faithful
    <3>3. QED
      BY <3>1, <3>2
  <2>7. Drained'
    <3> SUFFICES ASSUME NEW s \in Fresh, NEW t \in Fresh, s < t,
                        NEW i \in DOMAIN results'[s], NEW j \in DOMAIN results'[t],
                        results'[s][i].status = 409
                 PROVE  results'[t][j].status = 409
      BY <2>1 DEF Drained
    <3>1. t <= at /\ s # at
      BY <1>3, Numbers DEF Call, Fresh
    <3>2. results'[s] = results[s]
      BY <2>1, <3>1
    <3>3. phase = 3 /\ reserved >= stock
      BY <3>2 DEF Faithful
    <3>4. CASE t = at /\ j = n
      BY <2>1, <2>2, <2>4, <2>5, <3>3, <3>4
    <3>5. CASE ~(t = at /\ j = n)
      <4>1. j \in DOMAIN results[t] /\ results'[t][j] = results[t][j]
        BY <2>1, <3>5
      <4>2. QED
        BY <3>2, <4>1 DEF Drained
    <3>6. QED
      BY <3>4, <3>5
  <2>8. QED
    BY <2>6, <2>7
<1>4. CASE Stop
  <2>1. Fresh' = Fresh /\ UNCHANGED <<results, phase, reserved, stock, does>>
    BY <1>4, FreshStep DEF Stop
  <2>2. QED
    BY <2>1 DEF Faithful, Drained
<1>5. CASE UNCHANGED vars
  BY <1>5 DEF vars, Faithful, Drained, Fresh
<1>6. QED
  BY <1>1, <1>2, <1>3, <1>4, <1>5 DEF Next, Step, Exited

(***************************************************************************)
(* What a comparison finds.                                                *)
(***************************************************************************)
LEMMA CanonEqual ==
  ASSUME NEW a, NEW b
  PROVE  Canon(a) = Canon(b) <=> a.status = b.status /\ a.amount = b.amount
  BY DEF Canon

LEMMA AnswerValues ==
  ASSUME NEW a \in Answer
  PROVE  a.status \in {200, 409} /\ a.amount \in {"right", "wrong"}
  BY DEF Answer

\* Two answers to a request diverge when one stack gets it wrong, or when the
\* stock ran out in between; if they do not, the stacks agree or both refused.
LEMMA Comparison ==
  ASSUME TypeOK, Faithful, Drained, pc = "compare", NEW s \in 2..K, NEW i \in 1..N
  PROVE  LET w == <<Phases[phase], i>>
             mine == w = does[s].wrong
             its == w = does[1].wrong IN
         /\ <<s, i>> \in Diverging <=> Canon(results[1][i]) # Canon(results[s][i])
         /\ <<s, i>> \in Diverging =>
              \/ ~(mine <=> its)
              \/ phase = 3 /\ results[1][i].status = 200 /\ results[s][i].status = 409
         /\ <<s, i>> \notin Diverging =>
              (mine <=> its) \/ (phase = 3 /\ results[s][i].status = 409)
<1> DEFINE w == <<Phases[phase], i>>
           mine == w = does[s].wrong
           its == w = does[1].wrong
           a == results[1][i]
           b == results[s][i]
<1>1. s \in Fresh /\ 1 \in Fresh /\ s \in Stack /\ 1 \in Stack /\ 1 < s
  BY Numbers DEF Fresh
<1>2. i \in DOMAIN results[s] /\ i \in DOMAIN results[1]
  <2>1. Len(results[s]) = N /\ Len(results[1]) = N
    BY <1>1 DEF TypeOK
  <2>2. QED
    BY <1>1, <2>1, Numbers
<1>3. a \in Answer /\ b \in Answer
  BY <1>1, <1>2, Numbers
<1>4. /\ a.status \in {200, 409} /\ a.amount \in {"right", "wrong"}
      /\ b.status \in {200, 409} /\ b.amount \in {"right", "wrong"}
  BY <1>3, AnswerValues
<1>5. /\ a.status = 409 => phase = 3 /\ b.status = 409
      /\ b.status = 409 => phase = 3
      /\ a.amount = "wrong" <=> a.status = 200 /\ its
      /\ b.amount = "wrong" <=> b.status = 200 /\ mine
  BY <1>1, <1>2 DEF Faithful, Drained
<1>6. <<s, i>> \in Diverging <=> Canon(a) # Canon(b)
  BY DEF Diverging
<1>7. Canon(a) = Canon(b) <=> a.status = b.status /\ a.amount = b.amount
  BY CanonEqual
<1> HIDE DEF mine, its, a, b
<1>8. Canon(a) # Canon(b) => ~(mine <=> its) \/ (phase = 3 /\ a.status = 200 /\ b.status = 409)
  BY <1>4, <1>5, <1>7
<1>9. Canon(a) = Canon(b) => (mine <=> its) \/ (phase = 3 /\ b.status = 409)
  BY <1>4, <1>5, <1>7
<1>10. QED
  BY <1>6, <1>8, <1>9 DEF mine, its, a, b

\* What is reported is fair.
LEMMA BlameStep ==
  ASSUME TypeOK, Running, Progress, Faithful, Drained, BlameIsFair, [Next]_vars
  PROVE  BlameIsFair'
<1>1. CASE failures' = failures /\ does' = does
  BY <1>1 DEF BlameIsFair
<1>2. CASE Judge
  <2> SUFFICES ASSUME NEW f \in failures'
               PROVE  \/ /\ does[f[2]].wrong # does[1].wrong
                         /\ f[1] \in {does[f[2]].wrong, does[1].wrong}
                      \/ f[1][1] = "checkout" /\ f[3].status = 200 /\ f[4].status = 409
    BY <1>2 DEF Judge, BlameIsFair
  <2>1. CASE f \in failures
    BY <2>1 DEF BlameIsFair
  <2>2. ASSUME NEW d \in Compare, f = Report(d)
        PROVE  \/ /\ does[f[2]].wrong # does[1].wrong
                  /\ f[1] \in {does[f[2]].wrong, does[1].wrong}
               \/ f[1][1] = "checkout" /\ f[3].status = 200 /\ f[4].status = 409
    <3>1. PICK s \in 2..K, i \in 1..N : d = <<s, i>>
      BY DEF Compare, Diverging
    <3>2. /\ f[1] = <<Phases[phase], i>> /\ f[2] = s
          /\ f[3] = results[1][i] /\ f[4] = results[s][i]
      BY <2>2, <3>1 DEF Report
    <3>3. <<s, i>> \in Diverging /\ pc = "compare"
      BY <1>2, <3>1 DEF Judge, Compare
    <3>4. CASE (f[1] = does[s].wrong) # (f[1] = does[1].wrong)
      BY <3>2, <3>4
    <3>5. CASE phase = 3 /\ f[3].status = 200 /\ f[4].status = 409
      BY <3>2, <3>5, PhaseNames
    <3>6. QED
      BY <3>2, <3>3, <3>4, <3>5, Comparison
  <2>3. QED
    BY <1>2, <2>1, <2>2 DEF Judge
<1>3. QED
  BY <1>1, <1>2 DEF Next, Step, Exited, Start, StartFails, Call, CallFails, Stop, vars

\* What was judged and not reported does not diverge.
LEMMA CaughtStep ==
  ASSUME TypeOK, Running, Progress, Faithful, Drained, Caught, DivergenceCaught, [Next]_vars
  PROVE  Caught' /\ DivergenceCaught'
<1>1. CASE Judge
  <2> SUFFICES ASSUME failures' = {}
               PROVE  Caught' /\ DivergenceCaught'
    <3>1. failures' # {} => verdict' # "PASS"
      BY <1>1, NoneAssumption DEF Judge, Progress
    <3>2. QED
      BY <3>1 DEF Caught, DivergenceCaught
  <2>1. pc = "compare" /\ failures = {} /\ Compare = {} /\ UNCHANGED <<does, results>>
    BY <1>1 DEF Judge
  <2>2. Diverging = {}
    BY <2>1, FirstIsReported
  <2>3. ASSUME NEW s \in Stack, NEW i \in 1..N
        PROVE  LET w == <<Phases[phase], i>> IN
               \/ (w = does[s].wrong <=> w = does[1].wrong)
               \/ phase = 3 /\ results[s][i].status = 409
    <3>1. CASE s = 1
      BY <3>1
    <3>2. CASE s # 1
      <4>1. s \in 2..K
        BY <3>2, Numbers
      <4>2. QED
        BY <2>1, <2>2, <4>1, Comparison
    <3>3. QED
      BY <3>1, <3>2
  <2>4. CASE phase < 3
    <3>1. phase' = phase + 1 /\ pc' = "start" /\ verdict' = None /\ phase \in 1..3
      BY <1>1, <2>4, PhaseNames, Numbers DEF Judge, Progress
    <3>2. \A p \in 1..(phase' - 1) : p \in 1..(phase - 1) \/ p = phase
      BY <3>1
    <3>3. Caught'
      BY <2>1, <2>3, <2>4, <3>2 DEF Caught
    <3>4. QED
      BY <3>1, <3>3, NoneAssumption DEF DivergenceCaught
  <2>5. CASE ~(phase < 3)
    <3>1. phase = 3 /\ pc' = "exit"
      BY <1>1, <2>5, PhaseNames, Numbers DEF Judge
    <3>2. Caught'
      BY <3>1 DEF Caught
    <3>3. ASSUME NEW s \in Stack, NEW w \in Asked, (w = does[s].wrong) # (w = does[1].wrong)
          PROVE  w[1] = "checkout" /\ results[s][w[2]].status = 409
      <4>1. PICK p \in 1..3, i \in 1..N : w = <<Phases[p], i>>
        BY PhaseNames DEF Asked
      <4>2. CASE p = 3
        BY <2>3, <3>1, <3>3, <4>1, <4>2, PhaseNames
      <4>3. CASE p # 3
        <5>1. p \in 1..(phase - 1)
          BY <3>1, <4>3
        <5>2. QED
          BY <2>1, <3>3, <4>1, <5>1 DEF Caught
      <4>4. QED
        BY <4>2, <4>3
    <3>4. QED
      BY <2>1, <3>2, <3>3 DEF DivergenceCaught
  <2>6. QED
    BY <2>4, <2>5
<1>2. CASE Start \/ StartFails \/ Call \/ CallFails \/ Stop
  <2>1. UNCHANGED <<failures, does, phase>> /\ pc # "exit"
    BY <1>2 DEF Start, StartFails, Call, CallFails, Stop
  <2>2. verdict' # "PASS"
    BY <1>2, <2>1, NoneAssumption DEF Start, StartFails, Call, CallFails, Stop, Progress
  <2>3. QED
    BY <2>1, <2>2 DEF Caught, DivergenceCaught
<1>3. CASE UNCHANGED vars
  BY <1>3 DEF vars, Caught, DivergenceCaught
<1>4. QED
  BY <1>1, <1>2, <1>3 DEF Next, Step, Exited

(***************************************************************************)
(* Stacks that behave alike.                                               *)
(***************************************************************************)
\* The checkouts of the stacks so far are fewer than those of all.
LEMMA Room ==
  ASSUME NEW a \in 1..K, NEW n \in 0..(N - 1)
  PROVE  (a - 1) * N + n < K * N
<1>1. K \in Nat /\ N \in Nat /\ a \in Nat
  BY SizeAssumption
<1>2. (a - 1) * N + N = a * N
  BY <1>1
<1>3. a * N <= K * N
  BY <1>1
<1>4. a * N \in Int /\ (a - 1) * N \in Int /\ K * N \in Int
  BY <1>1
<1> DEFINE x == (a - 1) * N
           y == a * N
           z == K * N
<1> HIDE DEF x, y, z
<1>5. x + N = y /\ y <= z /\ x \in Int /\ y \in Int /\ z \in Int
  BY <1>2, <1>3, <1>4 DEF x, y, z
<1>6. x + n < z
  BY <1>1, <1>5
<1>7. QED
  BY <1>6 DEF x, z

LEMMA ServedStep ==
  ASSUME TypeOK, Running, Progress, Faithful, Drained, Served, [Next]_vars
  PROVE  Served'
<1> SUFFICES ASSUME Alike'
             PROVE  /\ failures' = {} /\ verdict' # "FAIL"
                    /\ pc' # "exit" => reserved' <= IF phase' = 3 THEN Booked' ELSE 0
                    /\ \A s \in Fresh' : \A i \in DOMAIN results'[s] : results'[s][i].status = 200
  BY DEF Served
<1>1. Alike
  <2>1. UNCHANGED <<does, stock>>
    BY DEF Next, Step, Exited, Start, StartFails, Call, CallFails, Stop, Judge, vars
  <2>2. QED
    BY <2>1 DEF Alike
<1>2. /\ failures = {} /\ verdict # "FAIL"
      /\ pc # "exit" => reserved <= IF phase = 3 THEN Booked ELSE 0
      /\ \A s \in Fresh : \A i \in DOMAIN results[s] : results[s][i].status = 200
  BY <1>1 DEF Served
<1>3. /\ K \in Nat /\ N \in Nat /\ at \in 1..K /\ at \in Stack /\ Stack = 1..K
      /\ reserved \in Nat /\ stock \in Nat /\ phase \in 1..3
      /\ K * N \in Int /\ (at - 1) * N \in Int /\ Len(results[at]) \in Nat
  BY Numbers
<1>4. CASE Start
  <2>1. UNCHANGED <<failures, verdict, reserved, phase, at>> /\ pc = "start" /\ pc' = "ask"
    BY <1>4 DEF Start
  <2>2. Booked = (at - 1) * N /\ Booked' = (at - 1) * N + Len(results'[at])
    BY <2>1 DEF Booked
  <2>3. results'[at] = <<>>
    BY <1>4, FreshStep
  <2>4. Len(results'[at]) = 0 /\ DOMAIN results'[at] = {}
    BY <2>3, EmptySeq
  <2>5. Booked' = Booked
    BY <1>3, <2>2, <2>4
  <2>6. \A s \in Fresh' : \A i \in DOMAIN results'[s] : results'[s][i].status = 200
    BY <1>2, <1>4, <2>4, FreshStep
  <2>7. QED
    BY <1>2, <2>1, <2>5, <2>6
<1>5. CASE StartFails \/ CallFails
  <2>1. pc' = "exit" /\ failures' = failures /\ verdict' # "FAIL"
    BY <1>5 DEF StartFails, CallFails
  <2>2. QED
    BY <1>2, <1>5, <2>1, FreshStep
<1>6. CASE Call
  <2> DEFINE n == Len(results[at])
  <2>1. pc = "ask" /\ pc' \in {"ask", "stop"} /\ UNCHANGED <<failures, verdict, phase, at>> /\ n < N
    BY <1>6 DEF Call, Left
  <2>2. Booked = (at - 1) * N + n /\ Booked' = (at - 1) * N + Len(results'[at])
    BY <2>1 DEF Booked
  <2>3. n \in 0..(N - 1)
    BY <1>3, <2>1
  <2>4. Booked < K * N /\ Booked' = Booked + 1 /\ Booked \in Int
    <3>1. Len(results'[at]) = n + 1
      BY <1>6, CallAdds
    <3>2. (at - 1) * N + n < K * N
      BY <1>3, <2>3, Room
    <3> DEFINE x == (at - 1) * N
               z == K * N
    <3>3. x \in Int /\ z \in Int /\ x + n < z /\ Booked = x + n /\ Booked' = x + (n + 1) /\ n \in Nat
      BY <1>3, <2>2, <3>1, <3>2
    <3> HIDE DEF x, z, n
    <3>4. Booked < z /\ Booked' = Booked + 1 /\ Booked \in Int
      BY <3>3
    <3>5. QED
      BY <3>4 DEF z
  <2>5. stock >= K * N /\ does[at].books = 1
    BY <1>1, <1>3 DEF Alike
  <2>6. Sold(at)
    BY <1>2, <1>3, <2>1, <2>4, <2>5, PhaseNames DEF Sold
  <2>7. Reply(at).status = 200 /\ Reply(at).orderId = IF phase = 3 THEN orders + 1 ELSE 0
    BY <1>3, <2>6, AnswerTyped, PhaseNames
  <2>8. reserved' = IF phase = 3 THEN reserved + 1 ELSE reserved
    BY <1>6, <1>3, <2>5, <2>7, Numbers DEF Call
  <2>9. \A s \in Fresh' : \A i \in DOMAIN results'[s] : results'[s][i].status = 200
    <3> SUFFICES ASSUME NEW s \in Fresh', NEW i \in DOMAIN results'[s]
                 PROVE  results'[s][i].status = 200
      OBVIOUS
    <3>1. s \in Fresh /\ s \in Stack
      BY <1>6, FreshStep DEF Fresh
    <3>2. CASE s # at
      BY <1>2, <1>6, <3>1, <3>2, CallAdds
    <3>3. CASE s = at
      <4>1. results'[at] \in Seq(Answer) /\ Len(results'[at]) = n + 1
        BY <1>6, CallAdds
      <4>2. i \in 1..(n + 1)
        BY <3>3, <4>1, LenProperties
      <4>3. CASE i = n + 1
        BY <1>6, <2>7, <3>3, <4>3, CallAdds
      <4>4. CASE i # n + 1
        <5>1. i \in 1..n /\ i \in DOMAIN results[at]
          BY <1>3, <4>2, <4>4, Numbers
        <5>2. results'[at][i] = results[at][i]
          BY <1>6, <5>1, CallAdds
        <5>3. QED
          BY <1>2, <3>1, <3>3, <5>1, <5>2
      <4>5. QED
        BY <4>3, <4>4
    <3>4. QED
      BY <3>2, <3>3
  <2>10. reserved' <= IF phase' = 3 THEN Booked' ELSE 0
    BY <1>2, <1>3, <2>1, <2>4, <2>8
  <2>11. QED
    BY <1>2, <2>1, <2>9, <2>10
<1>7. CASE Stop
  <2>1. UNCHANGED <<failures, verdict, phase, reserved, results>> /\ pc = "stop" /\ Len(results[at]) = N
    BY <1>7 DEF Stop, Progress
  <2>2. Booked = (at - 1) * N + N
    BY <2>1 DEF Booked
  <2>3. Booked = at * N
    BY <1>3, <2>2
  <2>4. Booked' = Booked
    <3>1. CASE at < K
      <4>1. at' = at + 1 /\ pc' = "start"
        BY <1>7, <3>1 DEF Stop
      <4>2. Booked' = (at' - 1) * N /\ at' - 1 = at
        BY <1>3, <4>1 DEF Booked
      <4>3. QED
        BY <2>3, <4>2
    <3>2. CASE ~(at < K)
      <4>1. at = K /\ pc' = "compare"
        BY <1>3, <1>7, <3>2 DEF Stop
      <4>2. Booked' = K * N
        BY <4>1 DEF Booked
      <4>3. QED
        BY <2>3, <4>1, <4>2
    <3>3. QED
      BY <3>1, <3>2
  <2>5. Fresh' = Fresh
    BY <1>7, FreshStep
  <2>6. QED
    BY <1>2, <2>1, <2>4, <2>5
<1>8. CASE Judge
  <2>1. pc = "compare" /\ verdict = None /\ at' = at /\ at = 1 /\ reserved' = reserved
    BY <1>8 DEF Judge, Progress
  <2>2. Diverging = {}
    <3> SUFFICES ASSUME NEW s \in 2..K, NEW i \in 1..N, <<s, i>> \in Diverging
                 PROVE  FALSE
      BY DEF Diverging
    <3>1. s \in Fresh /\ i \in DOMAIN results[s]
      <4>1. s \in Stack
        BY <1>3
      <4>2. Len(results[s]) = N
        BY <2>1, <4>1 DEF TypeOK
      <4>3. QED
        BY <2>1, <4>1, <4>2, Numbers DEF Fresh
    <3>2. results[s][i].status = 200
      BY <1>2, <3>1
    <3>3. does[s] = does[1]
      BY <1>1, <3>1 DEF Alike, Fresh
    <3>4. QED
      BY <2>1, <3>2, <3>3, Comparison
  <2>3. failures' = {}
    BY <1>2, <1>8, <2>2 DEF Judge, Compare
  <2>4. verdict' # "FAIL"
    BY <1>8, <2>1, <2>3, NoneAssumption DEF Judge
  <2>5. pc' # "exit" => reserved' <= IF phase' = 3 THEN Booked' ELSE 0
    <3> SUFFICES ASSUME pc' # "exit"
                 PROVE  reserved' <= IF phase' = 3 THEN Booked' ELSE 0
      OBVIOUS
    <3>1. phase < 3 /\ phase' = phase + 1 /\ pc' = "start"
      BY <1>8, PhaseNames DEF Judge
    <3>2. reserved = 0
      BY <1>2, <1>3, <2>1, <3>1
    <3>3. Booked' = 0
      <4>1. Booked' = (at' - 1) * N
        BY <3>1 DEF Booked
      <4>2. at' - 1 = 0
        BY <2>1
      <4>3. QED
        BY <1>3, <4>1, <4>2
    <3>4. QED
      BY <2>1, <3>2, <3>3
  <2>6. QED
    BY <1>8, <2>3, <2>4, <2>5, FreshStep
<1>9. CASE UNCHANGED vars
  BY <1>2, <1>9 DEF vars, Fresh, Booked
<1>10. QED
  BY <1>4, <1>5, <1>6, <1>7, <1>8, <1>9 DEF Next, Step, Exited

(***************************************************************************)
(* The theorems.                                                           *)
(***************************************************************************)
LEMMA InitInv == Init => IInv
<1> SUFFICES ASSUME Init PROVE IInv
  OBVIOUS
<1>1. TypeOK /\ Running /\ Progress
  BY InitType
<1>2. Fresh = {} /\ pc = "start" /\ at = 1 /\ phase = 1 /\ failures = {} /\ verdict = None /\ reserved = 0
  BY <1>1, Numbers DEF Init, Fresh
<1>3. Faithful /\ Drained
  BY <1>2 DEF Faithful, Drained
<1>4. Caught /\ BlameIsFair /\ DivergenceCaught
  BY <1>2, NoneAssumption DEF Caught, BlameIsFair, DivergenceCaught
<1>5. Served
  BY <1>2, NoneAssumption DEF Served
<1>6. QED
  BY <1>1, <1>3, <1>4, <1>5 DEF IInv

\* The invariant the theorems below follow from.
THEOREM IInvHolds == Spec => []IInv
<1>1. IInv /\ [Next]_vars => IInv'
  BY TypeStep, FaithfulStep, CaughtStep, ServedStep, BlameStep DEF IInv
<1>2. QED
  BY <1>1, InitInv, PTL DEF Spec

\* The verifier's variables keep their types; a comparison has N answers of each
\* stack before it.
THEOREM TypeCorrect == Spec => []TypeOK
<1>1. IInv => TypeOK
  BY DEF IInv
<1>2. QED
  BY <1>1, IInvHolds, PTL

\* A stack that answers otherwise than the reference does not pass, whatever the
\* cap on the divergences reported, unless stock had run out.
THEOREM DivergenceIsCaught == Spec => []DivergenceCaught
<1>1. IInv => DivergenceCaught
  BY DEF IInv
<1>2. QED
  BY <1>1, IInvHolds, PTL

\* Whoever is reported did answer otherwise, or met stock that had run out since
\* the reference was asked.
THEOREM BlameHolds == Spec => []BlameIsFair
<1>1. IInv => BlameIsFair
  BY DEF IInv
<1>2. QED
  BY <1>1, IInvHolds, PTL

\* Stacks that behave alike pass, given a unit of stock for each checkout of each.
THEOREM AlikeStacksPass == Spec => []AlikePass
<1>1. IInv => AlikePass
  BY DEF IInv, Served, Alike, AlikePass
<1>2. QED
  BY <1>1, IInvHolds, PTL

\* Nothing is left running, but for a start that failed.
THEOREM NothingIsLeft == Spec => []NothingLeftRunning
<1>1. IInv => NothingLeftRunning
  <2> SUFFICES ASSUME IInv PROVE NothingLeftRunning
    OBVIOUS
  <2>0. up \subseteq {at}
    BY DEF IInv, Running
  <2>1. up = {} \/ up = {at}
    BY <2>0
  <2>2. Cardinality(up) <= 1
    <3>1. Cardinality({}) = 0 /\ Cardinality({at}) = 1
      BY FS_EmptySet, FS_Singleton
    <3>2. CASE up = {}
      BY <3>1, <3>2
    <3>3. CASE up = {at}
      BY <3>1, <3>3
    <3>4. QED
      BY <2>1, <3>2, <3>3
  <2>3. pc \in {"start", "ask", "stop", "compare", "exit"}
    BY DEF IInv, TypeOK
  <2>4. QED
    BY <2>2, <2>3 DEF IInv, Running, NothingLeftRunning
<1>2. QED
  BY <1>1, IInvHolds, PTL
=============================================================================
