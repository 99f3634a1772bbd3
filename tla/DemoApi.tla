------------------------------ MODULE DemoApi -------------------------------
(***************************************************************************)
(* The server process: settings and the start-up gate (config/settings.py, *)
(* __main__.py, main.py), what /health, /status and the dashboard report   *)
(* of them, and the job queue behind the HTTP end points of api/demo.py.   *)
(*                                                                         *)
(* No end point awaits anything, so a request is one step.  Between two    *)
(* requests come those of other callers, time, changes to the environment  *)
(* and the end of the process, with which the queue is lost.               *)
(*                                                                         *)
(* The callers are outside src/: each takes a job, works, and reports on   *)
(* it when it is done, however late, or never.  There is no end point for  *)
(* heartbeats or recovery, and by default all callers are "demo-worker".   *)
(***************************************************************************)
EXTENDS Integers, Sequences

CONSTANTS
    Callers, Names,
    NameOf,         \* caller -> the owner it passes; by default one for all
    ClientIds, NoId, NoName, NoLease, NotRead, Nobody,
    MaxAttempts,    \* the queue's default for max_attempts
    LeaseSeconds,   \* the lease of every claim
    CountCap, MaxJobs,
    Environments,   \* settings the environment may give
    MaxStarts       \* bound: launches of the process

ASSUME CallerAssumption ==
    NameOf \in [Callers -> Names] /\ Nobody \notin Callers /\ NoName \notin Names
ASSUME QueueAssumption ==
    LeaseSeconds \in Nat /\ NoLease \notin Int /\ CountCap \in Nat \ {0}
ASSUME EnvironmentAssumption ==
    /\ Environments \subseteq [app_env : {"UNIT", "INTEGRATION", "TESTNET_DEMO", "LIVE"},
                               live_trading_enabled : BOOLEAN]
    /\ NotRead \notin Environments

VARIABLES
    jobs, lapses,   \* _queue
    process,        \* "off", "starting" (before the lifespan) or "serving"
    env,            \* the environment and .env file of the process
    settings,       \* what get_settings has cached
    starts,         \* launches so far
    caller,         \* caller -> its job and the seconds it believes to have
    grantee,        \* history: job -> the caller it was granted to last
    overruler,      \* history: caller -> who else was the first to report on
                    \* its job within the lease of its claim
    completed       \* history: client id -> how often it was completed

queueVars == <<jobs, lapses>>
processVars == <<process, env, settings, starts>>
history == <<grantee, overruler, completed>>
vars == <<queueVars, processVars, caller, history>>

Q == INSTANCE JobQueue WITH
    Owners <- Names, NoOwner <- NoName, MaxAttempts <- {MaxAttempts},
    LeaseTimes <- {LeaseSeconds}

Idle == [job |-> 0, left |-> -1]

-----------------------------------------------------------------------------
(* Settings.                                                               *)

is_live_allowed(s) == s.live_trading_enabled /\ s.app_env = "LIVE"

(* Slip: nothing is required.                                              *)
RequireNothing(s) == TRUE

require_safe_mode(s) == s.app_env = "LIVE" => s.live_trading_enabled

get_settings == IF settings = NotRead THEN env ELSE settings

SetEnvironment(e) ==
    /\ env' = e
    /\ UNCHANGED <<queueVars, process, settings, starts, caller, history>>

(* main() reads the settings, then uvicorn imports the application.        *)
Launch ==
    /\ process = "off" /\ starts < MaxStarts
    /\ process' = "starting"
    /\ settings' = get_settings
    /\ starts' = starts + 1
    /\ UNCHANGED <<queueVars, env, caller, history>>

(* The lifespan: serve, or refuse to start.                                *)
Lifespan ==
    /\ process = "starting"
    /\ IF require_safe_mode(get_settings)
       THEN process' = "serving" /\ UNCHANGED settings
       ELSE process' = "off" /\ settings' = NotRead
    /\ UNCHANGED <<queueVars, env, starts, caller, history>>

(* The process ends: queue and cache are gone, job ids are never reused,   *)
(* so whatever a caller still wants to report is refused.                  *)
Stop ==
    /\ process = "serving"
    /\ process' = "off" /\ settings' = NotRead
    /\ jobs' = <<>> /\ lapses' = <<>>
    /\ grantee' = <<>>
    /\ caller' = [c \in Callers |-> Idle]
    /\ overruler' = [c \in Callers |-> Nobody]
    /\ UNCHANGED <<env, starts, completed>>

-----------------------------------------------------------------------------
(* The queue end points.                                                   *)

Serving == process = "serving" /\ UNCHANGED processVars

(* With a client_order_id of the caller's, or with a new random one, which *)
(* no other submission has: that is NoId, unlike any other.                *)
queue_enqueue(id) ==
    /\ Serving
    /\ Q!Enqueue(id, MaxAttempts)
    /\ grantee' = Append(grantee, Nobody)
    /\ UNCHANGED <<caller, overruler, completed>>

(* The answer may be lost: then the job stays claimed for nobody.          *)
queue_claim(c) ==
    /\ Serving
    /\ caller[c] = Idle
    /\ \E j \in DOMAIN jobs :
          /\ Q!Claim(j, NameOf[c], LeaseSeconds)
          /\ grantee' = [grantee EXCEPT ![j] = c]
          /\ \/ caller' = [caller EXCEPT ![c] = [job |-> j, left |-> LeaseSeconds]]
             \/ UNCHANGED caller
    /\ UNCHANGED <<overruler, completed>>

(* A report is refused from anyone but the owner the job has by name.      *)
Report(c, Call(_, _)) ==
    LET j == caller[c].job
        overruled == {d \in Callers \ {c} : /\ caller[d].job = j /\ caller[d].left >= 0
                                          /\ overruler[d] = Nobody}
    IN  /\ Serving
        /\ j # 0
        /\ caller' = [caller EXCEPT ![c] = Idle]
        /\ \/ /\ Call(j, NameOf[c])
              /\ grantee' = [grantee EXCEPT ![j] = Nobody]
              /\ overruler' = [d \in Callers |->
                                 CASE d = c -> Nobody
                                   [] d \in overruled -> c
                                   [] OTHER -> overruler[d]]
           \/ /\ ~Q!Owns(j, NameOf[c])
              /\ overruler' = [overruler EXCEPT ![c] = Nobody]
              /\ UNCHANGED <<queueVars, grantee>>

queue_complete(c) ==
    LET j == caller[c].job IN
    /\ Report(c, Q!Complete)
    /\ completed' = IF jobs' = jobs \/ jobs[j].coid = NoId THEN completed
                    ELSE [completed EXCEPT ![jobs[j].coid] = @ + 1]

queue_fail(c) == Report(c, Q!Fail) /\ UNCHANGED completed

(* One second passes, for the queue and for the callers.                   *)
Tick ==
    /\ Q!Tick
    /\ caller' = [c \in Callers |->
                    IF caller[c].left < 0 THEN caller[c]
                    ELSE [caller[c] EXCEPT !.left = @ - 1]]
    /\ UNCHANGED <<processVars, history>>

Init ==
    /\ Q!Init
    /\ process = "off" /\ settings = NotRead /\ starts = 0
    /\ env \in Environments
    /\ caller = [c \in Callers |-> Idle]
    /\ grantee = <<>> /\ overruler = [c \in Callers |-> Nobody]
    /\ completed = [id \in ClientIds |-> 0]

Next ==
    \/ \E e \in Environments : SetEnvironment(e)
    \/ Launch \/ Lifespan \/ Stop
    \/ \E id \in ClientIds \cup {NoId} : queue_enqueue(id)
    \/ \E c \in Callers : queue_claim(c) \/ queue_complete(c) \/ queue_fail(c)
    \/ Tick

Spec == Init /\ [][Next]_vars

-----------------------------------------------------------------------------
(* Properties.                                                             *)

(* What serves was checked, and is reported as it is: the settings that    *)
(* every end point reads are LIVE only with the flag, so the live gate of  *)
(* /status shows them, though the environment may have changed since they  *)
(* were read, between reading and checking them as well.                   *)
ServesAsChecked ==
    process = "serving" =>
       (is_live_allowed(get_settings) <=> get_settings.app_env = "LIVE")

(* The live gate that /status and the dashboard report does not move while *)
(* a process lives, whatever is done to its environment.                   *)
GateFixed ==
    [][process # "off" /\ process' # "off" =>
          is_live_allowed(get_settings)' = is_live_allowed(get_settings)]_vars

(* A caller that is within the lease of its claim holds the job under its  *)
(* name, as the one it was granted to, unless a caller of the same name,   *)
(* which had let an earlier lease of that job lapse, reported on it: owner *)
(* names are all the queue tells callers apart by (api/demo.py:246).       *)
ClaimIsKept ==
    \A c \in Callers : caller[c].left >= 0 =>
       LET j == caller[c].job IN
       IF overruler[c] = Nobody
       THEN /\ jobs[j].owner = NameOf[c] /\ jobs[j].lease = caller[c].left
            /\ grantee[j] = c
       ELSE NameOf[overruler[c]] = NameOf[c] /\ lapses[j] > 0

(* A client_order_id is completed at most once by each process, however    *)
(* often it is submitted, claimed and reported: what exceeds once is due   *)
(* to restarts, with which the queue forgets it.                           *)
DoneOncePerStart ==
    \A id \in ClientIds : completed[id] <= starts
=============================================================================
