----------------------------- MODULE ModelUsage -----------------------------
(* Paid model requests.  The review() calls of several agents and processes   *)
(* share a monthly ledger per repository, a circuit with a concurrency limit  *)
(* per provider connection, and a request limit per review.  Each call runs   *)
(* short transactions around HTTP requests made outside any transaction:      *)
(* reserve, count against the review's limit, send, record, settle; a         *)
(* rejected parameter, a truncated answer or a broken format leads to another *)
(* request of the same call.                                                  *)
EXTENDS Integers, Sequences, FiniteSets

CONSTANTS Calls,               \* concurrent review() calls of one review
          Options,             \* optional parameters of a request body
          Costs,               \* possible upper bounds of a request's cost
          Actual,              \* possible costs of an answered request
          Budgets,             \* monthly budgets an operator may set
          None,                \* no budget in the policy, no known cost, no answer
          ProviderConcurrency, \* PROVIDER_CONCURRENCY
          FailureThreshold,    \* FAILURE_THRESHOLD
          OpenTime,            \* OPEN_SECONDS, in ticks
          PermitTime,          \* timeout_seconds of a request, in ticks
          MonthLength,         \* ticks of a month
          RequestLimit,        \* the repository's limit of requests per review
          MaxOutputs,          \* MAX_RUN_OUTPUT_BYTES, in answers
          MaxTime, MaxRequests, MaxEvents   \* bounds; events are faults and operator actions

ASSUME UsageAssumption ==
    /\ Costs \subseteq Nat /\ Actual \subseteq Nat /\ Budgets \subseteq Nat
    /\ None \notin Nat
    /\ {ProviderConcurrency, FailureThreshold, OpenTime, PermitTime, MonthLength} \subseteq Nat \ {0}
    /\ {RequestLimit, MaxOutputs, MaxTime, MaxRequests, MaxEvents} \subseteq Nat

VARIABLES ledger,   \* the request rows, in the order of reservation
          months,   \* the monthly totals
          circuit,  \* failure_count and open_until of the connection
          priced,   \* the connection's settings have prices
          budget,   \* monthly_budget of the repository's current policy
          claim,    \* number of the task's current claim
          used,     \* model_request_count of the review
          stored,   \* evaluation_output_bytes of the review, in answers
          call,     \* the program state of each call
          clock,
          events,
          excused   \* history: rows left reserved by a crash, a failed transaction
                    \* or a request the review's limit refused, by reason

vars == <<ledger, months, circuit, priced, budget, claim, used, stored, call, clock, events, excused>>

---------------------------------------------------------------------------
Month(t) == t \div MonthLength

IdleCall == [pc |-> "idle", claim |-> 0, kind |-> "first", body |-> {},
             row |-> 0, verdict |-> <<>>]

Init ==
    /\ ledger = <<>>
    /\ months = [m \in 0..Month(MaxTime) |->
                   [count |-> 0, estimated |-> 0, reserved |-> 0, unknown |-> 0, uncertain |-> 0]]
    /\ circuit = [failures |-> 0, open_until |-> 0]
    /\ priced \in BOOLEAN
    /\ budget \in Budgets \cup {None}
    /\ claim = 1 /\ used = 0 /\ stored = 0
    /\ call = [c \in Calls |-> IdleCall]
    /\ clock = 0 /\ events = 0
    /\ excused = [crash |-> {}, fault |-> {}, limit |-> {}]

Return(c) == call' = [call EXCEPT ![c] = IdleCall]
Goto(c, pc) == call' = [call EXCEPT ![c].pc = pc]

---------------------------------------------------------------------------
\* Defect: requests admitted before the circuit opened are not counted.
ActiveHalfOpen == {i \in DOMAIN ledger : ledger[i].status = "reserved" /\ ledger[i].permit > clock
                                         /\ circuit.failures < FailureThreshold}

(* Admission by the connection's circuit, under its row lock.                 *)
Active == {i \in DOMAIN ledger : ledger[i].status = "reserved" /\ ledger[i].permit > clock}

ChannelLimit == IF circuit.failures >= FailureThreshold THEN 1 ELSE ProviderConcurrency

Acquirable ==
    /\ circuit.open_until <= clock
    /\ Cardinality(Active) < ChannelLimit

(* One conditional update: the month's totals and the new request fit into    *)
(* the budget.                                                                *)
Affordable(cost) ==
    \/ budget = None
    \/ /\ cost # None
       /\ LET m == months[Month(clock)] IN m.estimated + m.reserved + cost <= budget

Known(cost) == IF cost = None THEN 0 ELSE cost

(* The ledger's reservation, for the holder of a claim: refused when the task  *)
(* is no longer running under it.                                             *)
Reserve(c, holder, kind, body) ==
    /\ Len(ledger) < MaxRequests
    /\ \E cost \in IF priced THEN Costs ELSE {None} :
         IF holder = claim /\ Acquirable /\ Affordable(cost)
         THEN /\ ledger' = Append(ledger, [month |-> Month(clock), cost |-> Known(cost), status |-> "reserved",
                                           estimate |-> None, permit |-> clock + PermitTime,
                                           output |-> "pending", budget |-> budget])
              /\ months' = [months EXCEPT ![Month(clock)].count = @ + 1,
                                          ![Month(clock)].reserved = @ + Known(cost)]
              /\ call' = [call EXCEPT ![c] = [IdleCall EXCEPT !.pc = "count", !.row = Len(ledger) + 1,
                                                 !.claim = holder, !.kind = kind, !.body = body]]
         ELSE Return(c) /\ UNCHANGED <<ledger, months>>
    /\ UNCHANGED <<circuit, priced, budget, claim, used, stored, clock, events, excused>>

Start(c) == call[c].pc = "idle" /\ Reserve(c, claim, "first", Options)

Again(c) == call[c].pc = "reserve" /\ Reserve(c, call[c].claim, call[c].kind, call[c].body)

(* reserve_repository_request: one conditional update, after the ledger's     *)
(* reservation and outside the block that settles it.                         *)
CheckRequestLimit(c) ==
    /\ call[c].pc = "count"
    /\ IF call[c].claim = claim /\ used < RequestLimit
       THEN /\ used' = used + 1
            /\ Goto(c, "sent")
            /\ UNCHANGED excused
       ELSE /\ Return(c)
            /\ excused' = [excused EXCEPT !.limit = @ \cup {call[c].row}]
            /\ UNCHANGED used
    /\ UNCHANGED <<ledger, months, circuit, priced, budget, claim, stored, clock, events>>

---------------------------------------------------------------------------
(* What an HTTP request comes to: the usage and status it is settled with,    *)
(* whether a failed settlement is tried once more, whether the answer's text  *)
(* is stored, and what the call does next.                                    *)
Verdict(usage, uncertain, status, again, text, next, body) ==
    [usage |-> usage, uncertain |-> uncertain, status |-> status, again |-> again,
     text |-> text, next |-> next, body |-> body]

\* One repair or one compact retry follows the first answered request, never another one;
\* a request with fewer parameters is still a first one.
First(c) == call[c].kind = "first"

Parsed(c) ==
    {Verdict(u, FALSE, 200, First(c), TRUE, "return", {}) : u \in Actual}

(* Truncated, or not in the contract's format: settled with the usage the     *)
(* answer reports, as uncertain when it reports none.                         *)
Unusable(c) ==
    LET Leads(next) == {Verdict(u, u = None, 200, First(c), TRUE, next, {}) :
                          u \in Actual \cup {None}}
    IN  Leads("return") \cup IF First(c) THEN Leads("retry") ELSE {}

(* The parameters the server names are dropped; a body without them is not    *)
(* sent again.                                                                *)
Fallback(c) ==
    {Verdict(0, FALSE, 400, TRUE, FALSE, "first", call[c].body \ named) :
       named \in IF First(c) THEN (SUBSET call[c].body) \ {{}} ELSE {}}
    \cup {Verdict(0, FALSE, 400, TRUE, FALSE, "return", {})}

\* 408 and 409 are uncertain but no failure of the connection; 429 is one, like 5xx.
Rejected(c) ==
    {Verdict(None, TRUE, status, TRUE, FALSE, "return", {}) : status \in {408, 500}}

(* No answer, a body that breaks off, is too large or is no JSON object, and  *)
(* answers whose usage fields the parser does not survive.                    *)
Broken(c) ==
    {Verdict(None, TRUE, status, FALSE, FALSE, "return", {}) : status \in {None, 200}}
    \cup {Verdict(None, TRUE, 200, FALSE, TRUE, "return", {})}

Answers(c) == Parsed(c) \cup Unusable(c) \cup Fallback(c) \cup Rejected(c) \cup Broken(c)

(* The answer of a request is stored once, while the review's space lasts.    *)
Record(row, text) ==
    IF text /\ stored < MaxOutputs
    THEN [row EXCEPT !.output = "captured"]
    ELSE [row EXCEPT !.output = IF text THEN "run_limit" ELSE "transport_failed"]

Answer(c) ==
    /\ call[c].pc = "sent"
    /\ \E v \in Answers(c) :
         /\ call' = [call EXCEPT ![c].pc = "settle", ![c].verdict = v]
         /\ ledger' = [ledger EXCEPT ![call[c].row] = Record(@, v.text)]
         /\ stored' = IF v.text /\ stored < MaxOutputs THEN stored + 1 ELSE stored
    /\ UNCHANGED <<months, circuit, priced, budget, claim, used, clock, events, excused>>

---------------------------------------------------------------------------
Estimate(v) == IF priced THEN v.usage ELSE None

(* What a settlement gives back of the reservation: nothing when the cost is  *)
(* unknown, no more than was spent when the answer is uncertain.              *)
Released(row, v) ==
    LET estimate == Estimate(v) IN
    IF estimate = None THEN 0
    ELSE IF v.uncertain /\ estimate < row.cost THEN estimate
    ELSE row.cost

Failure(status) == status = None \/ status >= 500

(* settle_channel, on the circuit read under its lock.                        *)
Observed(status) ==
    IF Failure(status)
    THEN [failures |-> circuit.failures + 1,
          open_until |-> IF circuit.failures + 1 >= FailureThreshold THEN clock + OpenTime ELSE 0]
    ELSE IF status = 200 /\ circuit.open_until <= clock
    THEN [failures |-> 0, open_until |-> 0]
    ELSE circuit

\* Defect: the state of the row is not compared.
SettleRowAgain(i, v) ==
    LET row == ledger[i] IN
    /\ ledger' = [ledger EXCEPT ![i].status = IF v.uncertain THEN "uncertain" ELSE "settled",
                                ![i].estimate = Estimate(v)]
    /\ months' = [months EXCEPT ![row.month].estimated = @ + Known(Estimate(v)),
                                ![row.month].reserved = @ - Released(row, v),
                                ![row.month].unknown = IF Estimate(v) = None THEN @ + 1 ELSE @,
                                ![row.month].uncertain = IF v.uncertain THEN @ + 1 ELSE @]
    /\ circuit' = Observed(v.status)

\* Defect: a request without an answer is not settled.
SettleRowAnswered(i, v) ==
    IF v.status = None THEN UNCHANGED <<ledger, months, circuit>> ELSE SettleRowAgain(i, v)

(* Only the first settlement of a row has an effect; it is booked in the month *)
(* of the reservation, however late it comes.                                 *)
SettleRow(i, v) ==
    LET row == ledger[i] IN
    IF row.status # "reserved" THEN UNCHANGED <<ledger, months, circuit>>
    ELSE /\ ledger' = [ledger EXCEPT ![i].status = IF v.uncertain THEN "uncertain" ELSE "settled",
                                     ![i].estimate = Estimate(v),
                                     ![i].output = IF v.uncertain /\ @ = "captured" THEN "parse_failed" ELSE @]
         /\ months' = [months EXCEPT ![row.month].estimated = @ + Known(Estimate(v)),
                                     ![row.month].reserved = @ - Released(row, v),
                                     ![row.month].unknown = IF Estimate(v) = None THEN @ + 1 ELSE @,
                                     ![row.month].uncertain = IF v.uncertain THEN @ + 1 ELSE @]
         /\ circuit' = Observed(v.status)

\* What a finished request leads to: the end of the call, or its next request.
Continue(c, v) ==
    IF v.next = "return" THEN Return(c)
    ELSE call' = [call EXCEPT ![c] = [IdleCall EXCEPT !.pc = "reserve", !.claim = call[c].claim,
                                                      !.kind = v.next, !.body = v.body]]

Settle(c) ==
    /\ call[c].pc = "settle"
    /\ SettleRow(call[c].row, call[c].verdict)
    /\ Continue(c, call[c].verdict)
    /\ UNCHANGED <<priced, budget, claim, used, stored, clock, events, excused>>

(* The transaction of a settlement raises, before or after its commit.  Most  *)
(* paths settle once more, as uncertain; an answer whose settlement failed is *)
(* reported as an error.                                                      *)
SettleFails(c) ==
    /\ call[c].pc = "settle"
    /\ events < MaxEvents /\ events' = events + 1
    /\ LET v == call[c].verdict IN
       /\ \E committed \in BOOLEAN :
            IF committed THEN SettleRow(call[c].row, v) ELSE UNCHANGED <<ledger, months, circuit>>
       /\ IF v.again
          THEN /\ call' = [call EXCEPT ![c].verdict =
                             [v EXCEPT !.usage = None, !.uncertain = TRUE, !.again = FALSE,
                                       !.next = IF v.status = 200 THEN "return" ELSE @]]
               /\ UNCHANGED excused
          ELSE /\ Return(c)
               /\ excused' = [excused EXCEPT !.fault = @ \cup {call[c].row}]
    /\ UNCHANGED <<priced, budget, claim, used, stored, clock>>

---------------------------------------------------------------------------
(* The process dies: every call is gone, its reservation stays.               *)
Crash ==
    /\ events < MaxEvents /\ events' = events + 1
    /\ \E c \in Calls : call[c].pc # "idle"
    /\ call' = [c \in Calls |-> IdleCall]
    /\ excused' = [excused EXCEPT !.crash = @ \cup {call[c].row : c \in {d \in Calls : call[d].row # 0}}]
    /\ UNCHANGED <<ledger, months, circuit, priced, budget, claim, used, stored, clock>>

(* The task's lease is lost, or the task paused or cancelled, and claimed     *)
(* again.                                                                     *)
Reclaim ==
    /\ events < MaxEvents /\ events' = events + 1
    /\ claim' = claim + 1
    /\ UNCHANGED <<ledger, months, circuit, priced, budget, used, stored, call, clock, excused>>

SetBudget ==
    /\ events < MaxEvents /\ events' = events + 1
    /\ \E b \in Budgets \cup {None} : b # budget /\ budget' = b
    /\ UNCHANGED <<ledger, months, circuit, priced, claim, used, stored, call, clock, excused>>

(* The client's timeouts end a request before its permit: their sum and a     *)
(* minute more is the permit's length.                                        *)
InFlight == {c \in Calls : call[c].pc \in {"count", "sent"}}

Tick ==
    /\ clock < MaxTime /\ clock' = clock + 1
    /\ \A c \in InFlight : clock + 1 < ledger[call[c].row].permit
    /\ UNCHANGED <<ledger, months, circuit, priced, budget, claim, used, stored, call, events, excused>>

Next ==
    \/ \E c \in Calls : Start(c) \/ Again(c) \/ CheckRequestLimit(c) \/ Answer(c)
                        \/ Settle(c) \/ SettleFails(c)
    \/ Crash \/ Reclaim \/ SetBudget \/ Tick

Spec == Init /\ [][Next]_vars

---------------------------------------------------------------------------
(* The monthly totals are exactly what the request rows of the month add up   *)
(* to, whatever was settled late, twice or never: a reservation is held until *)
(* its first settlement, and an unknown cost keeps it.                        *)
Held(row) ==
    IF row.status = "reserved" THEN row.cost
    ELSE row.cost - Released(row, [usage |-> row.estimate, uncertain |-> row.status = "uncertain"])

Total(s) ==
    LET sum[i \in 0..Len(s)] == IF i = 0 THEN 0 ELSE sum[i - 1] + s[i]
    IN  sum[Len(s)]

\* What the requests of a month add up to.
Sum(m, value(_)) ==
    Total([i \in 1..Len(ledger) |-> IF ledger[i].month = m THEN value(ledger[i]) ELSE 0])

LedgerBalanced ==
    \A m \in DOMAIN months :
        /\ months[m].count = Sum(m, LAMBDA row : 1)
        /\ months[m].estimated = Sum(m, LAMBDA row : Known(row.estimate))
        /\ months[m].reserved = Sum(m, Held)
        /\ months[m].reserved >= 0

(* A month's estimated and reserved cost exceeds the highest budget under     *)
(* which a request of the month was admitted at most by what single requests  *)
(* cost above their own reservation: concurrent reservations, late answers    *)
(* and changed budgets cannot overrun it.                                     *)
Overrun(row) ==
    IF Known(row.estimate) > row.cost THEN Known(row.estimate) - row.cost ELSE 0

BudgetHeld ==
    \A m \in DOMAIN months :
        LET rows == {i \in DOMAIN ledger : ledger[i].month = m} IN
        (rows # {} /\ \A i \in rows : ledger[i].budget # None) =>
            \E i \in rows : months[m].estimated + months[m].reserved
                              <= ledger[i].budget + Sum(m, Overrun)

(* The monthly ledger is the sum of its rows and stays within the budget.     *)
LedgerSound == LedgerBalanced /\ BudgetHeld

(* No more requests are under way to a provider than its limit allows, those  *)
(* of crashed calls aside.                                                    *)
InFlightLimited == Cardinality(InFlight) <= ProviderConcurrency

(* While a connection has failed too often, a new request starts only once    *)
(* the pause is over, and alone.                                              *)
ProbeAlone ==
    [][ (Len(ledger') > Len(ledger) /\ circuit.failures >= FailureThreshold)
          => (InFlight = {} /\ circuit.open_until <= clock) ]_vars

(* A provider's channel keeps its limit, and a failing one is tried alone.     *)
ChannelSound == []InFlightLimited /\ ProbeAlone

(* Only a crash, a failed transaction or a refusal by the review's request    *)
(* limit leaves a reservation behind: every other row in the state reserved   *)
(* belongs to the request a call is working on.                               *)
NothingLeft ==
    {i \in DOMAIN ledger : ledger[i].status = "reserved"}
      \subseteq excused.crash \cup excused.fault \cup excused.limit \cup {call[c].row : c \in Calls}
=============================================================================
