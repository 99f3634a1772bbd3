----------------------------- MODULE SignalPath -----------------------------
(***************************************************************************)
(* From a delivered message to the position: Ingestion reads it, the entry *)
(* planner names the order, and OrderFlow carries the job to the exchange. *)
(*                                                                         *)
(* The wiring is not in src/ yet.  It is the one the parts are written     *)
(* for: a PARSED message becomes a trade with a new id (api/demo.py:166),  *)
(* its entry is enqueued under the planner's client order id, and a job    *)
(* that ended in review may be planned again with the next attempt.  Dedup *)
(* store, plans and queue share one process and are lost with it; the      *)
(* exchange is not, and messages are delivered again.                      *)
(***************************************************************************)
EXTENDS Ingestion, Integers, Functions

CONSTANTS
    Config,         \* the registered source's configuration
    Workers, NoId, NoOwner, NoLease, NoPosition,
    MaxAttempts, LeaseSeconds, CountCap, MaxFaults,
    MaxTrades,      \* bound: trades planned
    MaxAttempt      \* bound: the highest attempt planned

ASSUME ConfigAssumption == Config \in SourceConfigs
ASSUME PlanAssumption == MaxTrades \in Nat /\ MaxAttempt \in Nat

VARIABLES
    jobs, lapses, orders, byClient, protection, position,   \* order path
    realized, mark, connected, applied, unbooked, misvalued, worker, faults,
    trades,     \* the trades planned, with their message and last attempt
    epochs      \* trades there were at each restart of the process

exchangeVars == <<orders, byClient, protection, position, realized, mark,
                  connected, applied, unbooked, misvalued>>
flowVars == <<jobs, lapses, exchangeVars, worker, faults>>
pathVars == <<vars, flowVars, trades, epochs>>

(* Fixed by trade and attempt, nothing random (core/entry/planner.py).     *)
_deterministic_client_order_id(trade_id, attempt) == <<trade_id, attempt>>

PlanIds == (1 .. MaxTrades) \X (0 .. MaxAttempt)

F == INSTANCE OrderFlow WITH Prompt <- FALSE, ClientIds <- PlanIds

ASSUME PathAssumption ==
    /\ LeaseSeconds \in Nat \ {0} /\ NoLease \notin Int
    /\ MaxFaults \in Nat
    /\ NoPosition \notin F!X!Position

PathInit ==
    /\ Init
    /\ F!Init
    /\ trades = <<>>
    /\ epochs = <<>>

(* Start-up: the parser, then the source that is bound to it.              *)
Register ==
    /\ \/ \E p \in Parsers : parsers = {} /\ RegisterParser(p)
       \/ \E s \in Sources :
             parsers # {} /\ sources[s] = NoSource /\ RegisterSource(s, Config)
    /\ UNCHANGED <<flowVars, trades, epochs>>

Deliver(msg) ==
    /\ Len(log) < MaxMessages /\ Len(trades) < MaxTrades
    /\ process(msg)
    /\ trades' = IF log'[Len(log')].outcome = "PARSED"
                 THEN Append(trades, [msg |-> msg, attempt |-> 0])
                 ELSE trades
    /\ UNCHANGED <<flowVars, epochs>>

(* Trades of the running process; those of earlier ones it does not know.  *)
Current ==
    {n \in DOMAIN trades : epochs = <<>> \/ n > epochs[Len(epochs)]}

client_order_id(n) == _deterministic_client_order_id(n, trades[n].attempt)

Submit(n) ==
    /\ F!Submit(client_order_id(n))
    /\ UNCHANGED <<vars, trades, epochs>>

InReview(n) ==
    \E j \in DOMAIN jobs : /\ jobs[j].coid = client_order_id(n)
                           /\ jobs[j].status = "MANUAL_REVIEW"

PlanAgain(n) ==
    /\ InReview(n) /\ trades[n].attempt < MaxAttempt
    /\ trades' = [trades EXCEPT ![n].attempt = @ + 1]
    /\ UNCHANGED <<vars, flowVars, epochs>>

(* The process restarts, and registers what it had registered.             *)
Restart ==
    /\ log # <<>>
    /\ Clear
    /\ F!Fault
    /\ jobs' = <<>> /\ lapses' = <<>>
    /\ worker' = [w \in Workers |-> F!Idle]
    /\ epochs' = Append(epochs, Len(trades))
    /\ UNCHANGED <<exchangeVars, trades>>

Work(w) ==
    /\ \/ F!Step(w) \/ F!ExecuteUnclear(w) \/ F!GiveUp(w) \/ F!Escalate(w)
       \/ F!Crash(w)
    /\ UNCHANGED <<vars, trades, epochs>>

Pass == (F!Tick \/ F!Recover) /\ UNCHANGED <<vars, trades, epochs>>

PathNext ==
    \/ Register
    \/ \E msg \in Messages : Deliver(msg)
    \/ \E n \in Current : Submit(n) \/ PlanAgain(n)
    \/ \E w \in Workers : Work(w)
    \/ Restart
    \/ Pass

PathSpec == PathInit /\ [][PathNext]_pathVars

-----------------------------------------------------------------------------
(* Properties.                                                             *)

Fills(key) ==
    {i \in DOMAIN orders :
       /\ F!X!Executed(orders[i])
       /\ SeenKey(trades[orders[i].client[1]].msg) = key}

TradesOf(key) == {n \in DOMAIN trades : SeenKey(trades[n].msg) = key}
Attempts == [n \in DOMAIN trades |-> trades[n].attempt]
PlannedAgain(key) == SumFunctionOnSet(Attempts, TradesOf(key))

(* The same message is never processed twice in one process lifetime       *)
(* (ingestion/dedup.py:4), followed to the exchange: however often it is   *)
(* delivered, and whatever becomes of requests, answers and workers, it    *)
(* moves the position at most once, plus once for every restart, which     *)
(* forgets it and gives its trade a new id, plus once for every attempt    *)
(* planned anew after a review (core/entry/planner.py:33).                 *)
FilledOncePerProcess ==
    \A key \in Sources \X MessageIds :
       Cardinality(Fills(key)) <= 1 + Len(epochs) + PlannedAgain(key)
=============================================================================
