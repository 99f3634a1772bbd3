----------------------------- MODULE OrderFlow ------------------------------
(***************************************************************************)
(* The order path end to end: producers enqueue one entry job per trade,   *)
(* workers claim jobs from JobQueue and execute them on Exchange under the *)
(* trade's deterministic client order id.                                  *)
(*                                                                         *)
(* The queue and the exchange are the code's.  The producer and the        *)
(* workers are outside src/ so far: they are the callers the queue and the *)
(* adapter are written for (ARCHITECTURE.md principles 7 and 9), with      *)
(* every way of using them that the two interfaces leave open.  A worker   *)
(* can be slow at any point and act on a job it has lost, crash and come   *)
(* back under the same name, and lose a request to the exchange or its     *)
(* answer; the process that holds the in-memory queue can restart, while   *)
(* the exchange keeps what it has accepted.                                *)
(***************************************************************************)
EXTENDS Integers, Sequences, FiniteSets

CONSTANTS
    Workers,        \* each worker claims under a name of its own
    ClientIds,      \* one client order id per trade
    NoId, NoOwner, NoLease, NoPosition,
    MaxAttempts,    \* the max_attempts of every job
    LeaseSeconds,   \* the lease_seconds of every claim and heartbeat
    CountCap,       \* bound: attempt counters saturate here
    MaxFaults,      \* bound: crashes, restarts and lost messages together
    Prompt          \* TRUE: time waits for live workers to send heartbeats

ASSUME FlowAssumption ==
    /\ LeaseSeconds \in Nat \ {0} /\ NoLease \notin Int
    /\ MaxFaults \in Nat /\ Prompt \in BOOLEAN

VARIABLES
    jobs, lapses,                                  \* the queue
    orders, byClient, protection, position,        \* the exchange
    realized, mark, connected, applied, unbooked, misvalued,
    worker,     \* what each worker is doing, on which job, and how many
                \* seconds of lease it believes it has left
    faults      \* faults still to come

queueVars == <<jobs, lapses>>
exchangeVars == <<orders, byClient, protection, position, realized, mark,
                  connected, applied, unbooked, misvalued>>
vars == <<queueVars, exchangeVars, worker, faults>>

Symbol == "BTCUSDT"
Quantity == 1

Q == INSTANCE JobQueue WITH
    Owners <- Workers, MaxAttempts <- {MaxAttempts},
    LeaseTimes <- {LeaseSeconds}, MaxJobs <- Cardinality(ClientIds)

X == INSTANCE Exchange WITH
    Symbols <- {Symbol}, Clients <- ClientIds, OrderTypes <- {"MARKET"},
    Quantities <- {Quantity}, Prices <- {1}, StartPrice <- 1,
    MaxOrders <- Cardinality(ClientIds)

ASSUME PositionAssumption == NoPosition \notin X!Position

Idle == [pc |-> "idle", job |-> 0, left |-> -1]

Job(w) == worker[w].job
Client(w) == jobs[Job(w)].coid

Becomes(w, state) == worker' = [worker EXCEPT ![w] = state]
At(w, pcs) == worker[w].pc \in pcs
GoTo(w, pc) == worker' = [worker EXCEPT ![w].pc = pc]
Fault == faults > 0 /\ faults' = faults - 1

-----------------------------------------------------------------------------
(* The producer submits a trade's job, again after a restart lost it.      *)
Submit(c) ==
    /\ Q!Enqueue(c, MaxAttempts)
    /\ UNCHANGED <<exchangeVars, worker, faults>>

Begin(w) ==
    /\ At(w, {"idle"})
    /\ \E j \in DOMAIN jobs :
          /\ Q!Claim(j, w, LeaseSeconds)
          /\ Becomes(w, [pc |-> "claimed", job |-> j, left |-> LeaseSeconds])
    /\ UNCHANGED <<exchangeVars, faults>>

(* What a placement that reaches the exchange does there.                  *)
Place(c) ==
    IF X!KnownClient(c) THEN UNCHANGED exchangeVars
    ELSE X!PlaceOrder(c, Symbol, X!BUY, "MARKET", Quantity, FALSE)

Execute(w) ==
    /\ At(w, {"claimed"})
    /\ Place(Client(w))
    /\ GoTo(w, "accepted")
    /\ UNCHANGED <<queueVars, faults>>

(* The request or its answer is lost: the worker cannot tell which.        *)
ExecuteUnclear(w) ==
    /\ At(w, {"claimed"})
    /\ Fault
    /\ Place(Client(w)) \/ UNCHANGED exchangeVars
    /\ GoTo(w, "unclear")
    /\ UNCHANGED queueVars

(* No blind retry: the worker first asks for the order by its client id.   *)
Ask(w) ==
    /\ At(w, {"unclear"})
    /\ GoTo(w, IF X!GetOrder(Client(w)) THEN "accepted" ELSE "claimed")
    /\ UNCHANGED <<queueVars, exchangeVars, faults>>

(* A call to the queue, which rejects it from anyone but the job's owner;  *)
(* the worker is done with the job either way.                             *)
Report(w, Call(_, _)) ==
    /\ Call(Job(w), w) \/ (~Q!Owns(Job(w), w) /\ UNCHANGED queueVars)
    /\ Becomes(w, Idle)
    /\ UNCHANGED <<exchangeVars, faults>>

Finish(w) == At(w, {"accepted"}) /\ Report(w, Q!Complete)
GiveUp(w) == At(w, {"claimed", "unclear"}) /\ Report(w, Q!Fail)
Escalate(w) == At(w, {"unclear"}) /\ Report(w, Q!MarkManualReview)

(* A heartbeat in time or late; a worker that is refused drops the job.    *)
Beat(w) ==
    /\ ~At(w, {"idle"})
    /\ \/ /\ Q!Heartbeat(Job(w), w, LeaseSeconds)
          /\ worker' = [worker EXCEPT ![w].left = LeaseSeconds]
       \/ /\ ~Q!Owns(Job(w), w)
          /\ Becomes(w, Idle)
          /\ UNCHANGED queueVars
    /\ UNCHANGED <<exchangeVars, faults>>

Crash(w) ==
    /\ ~At(w, {"idle"})
    /\ Fault
    /\ Becomes(w, Idle)
    /\ UNCHANGED <<queueVars, exchangeVars>>

(* The process restarts: the in-memory queue and its workers start over.   *)
Restart ==
    /\ jobs # <<>>
    /\ Fault
    /\ jobs' = <<>> /\ lapses' = <<>>
    /\ worker' = [w \in Workers |-> Idle]
    /\ UNCHANGED exchangeVars

Recover == Q!RecoverExpired /\ UNCHANGED <<exchangeVars, worker, faults>>

Tick ==
    /\ Prompt => \A w \in Workers : ~At(w, {"idle"}) => worker[w].left > 0
    /\ Q!Tick
    /\ worker' = [w \in Workers |->
                    IF worker[w].left < 0 THEN worker[w]
                    ELSE [worker[w] EXCEPT !.left = @ - 1]]
    /\ UNCHANGED <<exchangeVars, faults>>

Init ==
    /\ Q!Init
    /\ X!Init
    /\ worker = [w \in Workers |-> Idle]
    /\ faults = MaxFaults

Step(w) == Begin(w) \/ Execute(w) \/ Ask(w) \/ Finish(w) \/ Beat(w)

Next ==
    \/ \E c \in ClientIds : Submit(c)
    \/ \E w \in Workers :
          Step(w) \/ ExecuteUnclear(w) \/ GiveUp(w) \/ Escalate(w) \/ Crash(w)
    \/ Restart
    \/ Recover
    \/ Tick

Spec == Init /\ [][Next]_vars

(* The producer repeats what was lost, every worker keeps taking its next  *)
(* step, and time passes.  Nobody need ever give up, escalate or run the   *)
(* recovery sweep.                                                         *)
Fairness ==
    /\ \A c \in ClientIds : WF_vars(Submit(c))
    /\ \A w \in Workers :
          /\ WF_vars(Begin(w)) /\ WF_vars(Execute(w)) /\ WF_vars(Ask(w))
          /\ WF_vars(Finish(w)) /\ WF_vars(Beat(w))
    /\ WF_vars(Tick)

FairSpec == Spec /\ Fairness

-----------------------------------------------------------------------------
(* Properties.                                                             *)

(* A worker whose lease, by its own count, has not run out still owns the  *)
(* job, with exactly that much time left: no claim, recovery, late         *)
(* heartbeat or settlement of another caller can have come in between.  So *)
(* two workers never both hold a job in good faith.                        *)
LeaseIsTrusted ==
    \A w \in Workers : worker[w].left >= 0 =>
       /\ jobs[Job(w)].status = "CLAIMED"
       /\ jobs[Job(w)].owner = w
       /\ jobs[Job(w)].lease = worker[w].left

(* A job is marked COMPLETED only if the exchange has executed its order,  *)
(* whatever was lost or crashed on the way.                                *)
CompletedMeansFilled ==
    \A j \in DOMAIN jobs : jobs[j].status = "COMPLETED" =>
       \E i \in DOMAIN orders :
          orders[i].client = jobs[j].coid /\ X!Executed(orders[i])

(* At least once becomes exactly once (ARCHITECTURE.md principle 7): the   *)
(* position is one quantity for every trade that reached the exchange,     *)
(* never two, though several workers, and the same worker after a crash,   *)
(* may each have placed the trade's order.                                 *)
OneFillPerTrade ==
    X!HeldQuantity(Symbol) =
       Quantity * Cardinality({c \in ClientIds :
                                 \E i \in DOMAIN orders : orders[i].client = c})

(* If workers renew their leases in time and faults stop, every trade's    *)
(* job ends up COMPLETED or in MANUAL_REVIEW and stays there: a job whose  *)
(* worker died is not stuck, and none is retried for ever.                 *)
EveryTradeSettles ==
    \A c \in ClientIds :
       <>[](\E j \in DOMAIN jobs :
               jobs[j].coid = c /\ jobs[j].status \in Q!Settled)
=============================================================================
