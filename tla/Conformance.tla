---------------------------- MODULE Conformance ----------------------------
(***************************************************************************)
(* bench/verify.py: the same requests are put to every stack, one stack up *)
(* at a time, endpoint by endpoint, and the canonical answers compared     *)
(* with those of the first stack.  All stacks work on one database, which  *)
(* nothing resets in between.                                              *)
(*                                                                         *)
(* A stack is modelled by how it may go wrong: the answer to one request   *)
(* it gets wrong, if any, and how many units it reserves for each unit a   *)
(* checkout orders (1 is right, 0 skips the UPDATE, 2 is what pgx does to  *)
(* a repeated SKU).  The corpus is N requests of one unit each.            *)
(***************************************************************************)
EXTENDS Naturals, Sequences, FiniteSets

CONSTANTS
  K,          \* number of stacks; STACKS is 1..K, the reference first
  N,          \* requests per endpoint (VERIFY_N)
  Enough,     \* divergences after which compare stops (5)
  Behaviours, \* what a stack may do: [wrong, books]
  Stocks,     \* units on hand, from which Init chooses
  None

Phases == <<"summary", "quote", "checkout">>
Stack  == 1..K
Asked  == {Phases[p] : p \in DOMAIN Phases} \X (1..N)

ASSUME SizeAssumption == K \in Nat \ {0} /\ N \in Nat \ {0} /\ Enough \in Nat \ {0}
ASSUME BehavioursAssumption ==
  None \notin Asked /\ Behaviours \subseteq [wrong : Asked \cup {None}, books : Nat]
ASSUME StocksAssumption == Stocks \subseteq Nat
ASSUME NoneAssumption == None \notin {"PASS", "FAIL"}

VARIABLES
  does,      \* does[s]: how stack s behaves
  stock,     \* units on hand
  pc,        \* "start", "ask", "stop", "compare", "exit"
  phase,     \* index of the endpoint in Phases
  at,        \* the stack collect is at
  up,        \* services running
  reserved,  \* inventory.reserved
  orders,    \* the sequence the order ids come from
  results,   \* results[s]: the answers of s at this endpoint
  failures,  \* divergences reported: <<endpoint, stack, request, expected, got>>
  verdict    \* what verify.py ended with

vars == <<does, stock, pc, phase, at, up, reserved, orders, results, failures, verdict>>

\* an answer: its status, the order's id, an amount, and a time as the stack
\* spells it ("...:00Z" or "...:00.000Z")
Answer == [status : {200, 409}, orderId : Nat, amount : {"right", "wrong"}, spelt : Stack]

TypeOK ==
  /\ does \in [Stack -> Behaviours] /\ stock \in Stocks
  /\ pc \in {"start", "ask", "stop", "compare", "exit"}
  /\ phase \in DOMAIN Phases /\ at \in Stack
  /\ up \subseteq Stack
  /\ pc \in {"ask", "stop"} => at \in up
  /\ pc = "compare" => \A s \in Stack : Len(results[s]) = N
  /\ reserved \in Nat /\ orders \in Nat
  /\ results \in [Stack -> Seq(Answer)]
  /\ failures \subseteq Asked \X Stack \X Answer \X Answer
  /\ verdict \in {None, "PASS", "FAIL", "no start", "error"}

Init ==
  /\ does \in [Stack -> Behaviours] /\ stock \in Stocks
  /\ pc = "start" /\ phase = 1 /\ at = 1 /\ up = {}
  /\ reserved = 0 /\ orders = 0
  /\ results = [s \in Stack |-> <<>>]
  /\ failures = {} /\ verdict = None

(***************************************************************************)
(* The services.                                                           *)
(***************************************************************************)
Sold(s)  == Phases[phase] # "checkout" \/ reserved < stock
Reply(s) ==
  [status  |-> IF Sold(s) THEN 200 ELSE 409,
   orderId |-> IF Sold(s) /\ Phases[phase] = "checkout" THEN orders + 1 ELSE 0,
   amount  |-> IF Sold(s) /\ does[s].wrong = <<Phases[phase], Len(results[s]) + 1>>
               THEN "wrong" ELSE "right",
   spelt   |-> s]

(***************************************************************************)
(* verify.py.                                                              *)
(***************************************************************************)
\* canon: the order's id goes, a time counts as the instant it denotes
Canon_KeepsOrderId(a) == [status |-> a.status, amount |-> a.amount, orderId |-> a.orderId]
Canon_KeepsSpelling(a) == [status |-> a.status, amount |-> a.amount, spelt |-> a.spelt]
Canon(a) == [status |-> a.status, amount |-> a.amount]

\* collect starts a stack; its start is outside the try
Start ==
  /\ pc = "start" /\ pc' = "ask"
  /\ up' = up \cup {at}
  /\ results' = [results EXCEPT ![at] = <<>>]
  /\ UNCHANGED <<does, stock, phase, at, reserved, orders, failures, verdict>>

\* the start fails: the process svc.sh launched may still be there
StartFails ==
  /\ pc = "start" /\ pc' = "exit" /\ verdict' = "no start"
  /\ up' \in {up, up \cup {at}}
  /\ UNCHANGED <<does, stock, phase, at, reserved, orders, results, failures>>

\* requests of the corpus are left: CORPUS[...][:N]
Left_OneShort(out) == Len(out) < N - 1
Left(out) == Len(out) < N

\* the next request of the corpus is answered, the checkout's order booked
Call ==
  /\ pc = "ask" /\ Left(results[at])
  /\ LET a == Reply(at) IN
     /\ results' = [results EXCEPT ![at] = Append(@, a)]
     /\ orders' = IF a.orderId # 0 THEN a.orderId ELSE orders
     /\ reserved' = IF a.orderId # 0 THEN reserved + does[at].books ELSE reserved
     /\ pc' = IF Left(results'[at]) THEN "ask" ELSE "stop"
  /\ UNCHANGED <<does, stock, phase, at, up, failures, verdict>>

\* no answer, or none that is JSON: the finally stops the service, and the
\* exception ends verify.py
CallFails_LeavesIt ==
  /\ pc = "ask" /\ pc' = "exit" /\ verdict' = "error"
  /\ UNCHANGED <<does, stock, phase, at, up, reserved, orders, results, failures>>
CallFails ==
  /\ pc = "ask" /\ pc' = "exit" /\ verdict' = "error"
  /\ up' = up \ {at}
  /\ UNCHANGED <<does, stock, phase, at, reserved, orders, results, failures>>

\* on to the next stack, or to the comparison
Stop ==
  /\ pc = "stop"
  /\ up' = up \ {at}
  /\ IF at < K THEN at' = at + 1 /\ pc' = "start" ELSE at' = 1 /\ pc' = "compare"
  /\ UNCHANGED <<does, stock, phase, reserved, orders, results, failures, verdict>>

\* compare: the first Enough divergences, stack by stack, request by request
Diverging ==
  {d \in (2..K) \X (1..N) : Canon(results[1][d[2]]) # Canon(results[d[1]][d[2]])}
Before(d, e) == d[1] < e[1] \/ (d[1] = e[1] /\ d[2] < e[2])
Compare ==
  {d \in Diverging : Cardinality({e \in Diverging : Before(e, d)}) < Enough}

Report(d) == <<<<Phases[phase], d[2]>>, d[1], results[1][d[2]], results[d[1]][d[2]]>>

\* main's loop over the endpoints, and its exit code
Judge_LastPhase ==
  /\ pc = "compare"
  /\ failures' = {Report(d) : d \in Compare}
  /\ IF phase < Len(Phases)
     THEN phase' = phase + 1 /\ pc' = "start" /\ verdict' = verdict
     ELSE phase' = phase /\ pc' = "exit" /\ verdict' = IF failures' = {} THEN "PASS" ELSE "FAIL"
  /\ UNCHANGED <<does, stock, at, up, reserved, orders, results>>
Judge ==
  /\ pc = "compare"
  /\ failures' = failures \cup {Report(d) : d \in Compare}
  /\ IF phase < Len(Phases)
     THEN phase' = phase + 1 /\ pc' = "start" /\ verdict' = verdict
     ELSE phase' = phase /\ pc' = "exit" /\ verdict' = IF failures' = {} THEN "PASS" ELSE "FAIL"
  /\ UNCHANGED <<does, stock, at, up, reserved, orders, results>>

Exited == pc = "exit" /\ UNCHANGED vars

Step == Start \/ StartFails \/ Call \/ CallFails \/ Stop \/ Judge
Next == Step \/ Exited
Spec == Init /\ [][Next]_vars

(***************************************************************************)
(* What a verdict is worth.                                                *)
(***************************************************************************)
\* A stack that answers a request otherwise than the reference does not pass,
\* at whichever endpoint and however many others diverge; only an order both
\* had to refuse hides it.
DivergenceCaught ==
  verdict = "PASS" =>
    \A s \in Stack, w \in Asked :
      ((w = does[s].wrong) # (w = does[1].wrong)) =>
        w[1] = "checkout" /\ results[s][w[2]].status = 409

\* Whoever is reported did answer otherwise; or the stock the stacks share ran
\* out between the reference's checkouts and his own, so that one was refused:
\* the sequence of order ids and the spelling of times blame nobody.
BlameIsFair ==
  \A f \in failures :
    LET w == f[1]  s == f[2] IN
    \/ does[s].wrong # does[1].wrong /\ w \in {does[s].wrong, does[1].wrong}
    \/ w[1] = "checkout" /\ f[3].status = 200 /\ f[4].status = 409

\* Stacks that behave alike, as they should, pass whenever the stock is enough
\* for the checkouts of all of them.
AlikePass ==
  (\A s \in Stack : does[s] = does[1] /\ does[s].books = 1) /\ stock >= K * N
    => failures = {} /\ verdict # "FAIL"

\* Never two services at a time, and none is left running, except that of a
\* start that failed: it is started outside the try whose finally stops it.
NothingLeftRunning ==
  /\ Cardinality(up) <= 1
  /\ up # {} => pc \in {"ask", "stop"} \/ verdict = "no start"

\* "A stack that skips work fails here before it can win a benchmark"
\* (verify.py:3), when the reference does the work.
SkippedWorkCaught ==
  verdict = "PASS" /\ does[1].books = 1 => \A s \in Stack : does[s].books # 0

=============================================================================
