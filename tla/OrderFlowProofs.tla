-------------------------- MODULE OrderFlowProofs ---------------------------
(***************************************************************************)
(* For any number of workers, trades, faults, seconds of lease and retries: *)
(* a worker that by its own count has lease left owns its job, with exactly *)
(* that much left; a COMPLETED job's order has been executed; and every    *)
(* trade is executed at most once, so that the position is their number.   *)
(***************************************************************************)
EXTENDS OrderFlow, FiniteSetTheorems, TLAPS

USE FlowAssumption, PositionAssumption

(* A job and a worker's state, with the fields the argument reads.         *)
JobRecord ==
    [coid : ClientIds, max : {MaxAttempts}, status : Q!Statuses,
     attempt : Int, owner : Workers \cup {NoOwner}, lease : Int \cup {NoLease}]

WorkerRecord ==
    [pc : {"idle", "claimed", "accepted", "unclear"}, job : Nat, left : Int]

(* What worker w in state s may rely on, if the queue is q.                *)
Sound(w, s, q) ==
    /\ s.pc # "idle" => s.job \in DOMAIN q
    /\ s.left >= 0 => /\ s.job \in DOMAIN q
                      /\ q[s.job].status = "CLAIMED"
                      /\ q[s.job].owner = w
                      /\ q[s.job].lease = s.left

Types == jobs \in Seq(JobRecord) /\ worker \in [Workers -> WorkerRecord]

IInv == Types /\ \A w \in Workers : Sound(w, worker[w], jobs)

LEMMA IdleRecord ==
    /\ Idle \in WorkerRecord
    /\ \A w, q : Sound(w, Idle, q)
  BY DEF Idle, WorkerRecord, Sound

LEMMA InitIInv == Init => IInv
  <1> SUFFICES ASSUME Init PROVE IInv
    OBVIOUS
  <1>1. jobs = <<>> /\ worker = [w \in Workers |-> Idle]
    BY DEF Init, Q!Init
  <1> QED
    BY <1>1, IdleRecord DEF IInv, Types

(* The queue's updates take jobs to jobs.                                  *)
LEMMA UpdateTypes ==
    ASSUME NEW job \in JobRecord
    PROVE  /\ \A w \in Workers : Q!Granted(job, w, LeaseSeconds) \in JobRecord
           /\ [job EXCEPT !.lease = LeaseSeconds] \in JobRecord
           /\ \A st \in Q!Statuses : Q!Released(job, st) \in JobRecord
           /\ Q!AfterFail(job) \in Q!Statuses
           /\ Q!Aged(job) \in JobRecord
  <1>1. ASSUME NEW w \in Workers PROVE Q!Granted(job, w, LeaseSeconds) \in JobRecord
    <2>1. Q!Bump(job.attempt) \in Int
      BY DEF Q!Bump, JobRecord
    <2>2. "CLAIMED" \in Q!Statuses /\ LeaseSeconds \in Int
      BY DEF Q!Statuses
    <2>3. \A n \in Int :
             [job EXCEPT !.status = "CLAIMED", !.owner = w, !.lease = LeaseSeconds,
                         !.attempt = n] \in JobRecord
      BY <2>2 DEF JobRecord
    <2> QED
      BY <2>1, <2>3 DEF Q!Granted
  <1>2. [job EXCEPT !.lease = LeaseSeconds] \in JobRecord
    BY DEF JobRecord
  <1>3. \A st \in Q!Statuses : Q!Released(job, st) \in JobRecord
    BY DEF Q!Released, JobRecord
  <1>4. Q!AfterFail(job) \in Q!Statuses
    BY DEF Q!AfterFail, Q!Statuses
  <1>5. Q!Aged(job) \in JobRecord
    BY DEF Q!Aged, JobRecord
  <1> QED
    BY <1>1, <1>2, <1>3, <1>4, <1>5

(* One worker moves on, and at most one job changes, which no other worker *)
(* relies on.                                                              *)
LEMMA OneWorker ==
    ASSUME IInv, NEW w \in Workers, NEW s \in WorkerRecord,
           worker' = [worker EXCEPT ![w] = s],
           jobs' \in Seq(JobRecord), DOMAIN jobs \subseteq DOMAIN jobs',
           Sound(w, s, jobs'),
           \A v \in Workers \ {w} : worker[v].left >= 0 =>
              jobs'[worker[v].job] = jobs[worker[v].job]
    PROVE  IInv'
  <1>1. worker' \in [Workers -> WorkerRecord] /\ worker'[w] = s
    BY DEF IInv, Types
  <1>2. ASSUME NEW v \in Workers PROVE Sound(v, worker'[v], jobs')
    <2>1. CASE v = w
      BY <1>1, <2>1
    <2>2. CASE v # w
      <3>1. worker'[v] = worker[v] /\ Sound(v, worker[v], jobs)
        BY <2>2 DEF IInv, Types
      <3> QED
        BY <3>1, <2>2 DEF Sound
    <2> QED
      BY <2>1, <2>2
  <1> QED
    BY <1>1, <1>2 DEF IInv, Types

(* Replacing a job that is claimable or owned by w disturbs no other worker. *)
LEMMA OneJob ==
    ASSUME IInv, NEW w \in Workers, NEW j \in DOMAIN jobs, NEW job \in JobRecord,
           Q!Claimable(jobs[j]) \/ Q!Owns(j, w),
           jobs' = [jobs EXCEPT ![j] = job]
    PROVE  /\ jobs' \in Seq(JobRecord) /\ DOMAIN jobs' = DOMAIN jobs
           /\ jobs'[j] = job
           /\ \A v \in Workers \ {w} : worker[v].left >= 0 =>
                 jobs'[worker[v].job] = jobs[worker[v].job]
  <1>1. jobs' \in Seq(JobRecord) /\ DOMAIN jobs' = DOMAIN jobs /\ jobs'[j] = job
    BY DEF IInv, Types
  <1>2. ASSUME NEW v \in Workers \ {w}, worker[v].left >= 0
        PROVE  worker[v].job # j
    <2>1. /\ worker[v].left \in Int
          /\ jobs[worker[v].job].status = "CLAIMED"
          /\ jobs[worker[v].job].owner = v
          /\ jobs[worker[v].job].lease = worker[v].left
      BY <1>2 DEF IInv, Types, Sound, WorkerRecord
    <2> QED
      BY <1>2, <2>1 DEF Q!Claimable, Q!Expired, Q!Owns
  <1> QED
    BY <1>1, <1>2

LEMMA JobOf ==
    ASSUME IInv, NEW w \in Workers, ~At(w, {"idle"})
    PROVE  Job(w) \in DOMAIN jobs /\ jobs[Job(w)] \in JobRecord
  BY DEF IInv, Types, Sound, At, Job, WorkerRecord

LEMMA SubmitIInv ==
    ASSUME IInv, NEW c \in ClientIds, Submit(c)
    PROVE  IInv'
  <1> DEFINE job == Q!NewJob(c, MaxAttempts)
  <1>1. job \in JobRecord
    BY DEF Q!NewJob, JobRecord, Q!Statuses
  <1>2. jobs' = Append(jobs, job) /\ worker' = worker
    BY DEF Submit, Q!Enqueue
  <1> HIDE DEF job
  <1>3. /\ jobs' \in Seq(JobRecord)
        /\ DOMAIN jobs \subseteq DOMAIN jobs'
        /\ \A j \in DOMAIN jobs : jobs'[j] = jobs[j]
    BY <1>1, <1>2 DEF IInv, Types
  <1>4. \A w \in Workers : Sound(w, worker[w], jobs')
    BY <1>3 DEF IInv, Sound
  <1> QED
    BY <1>2, <1>3, <1>4 DEF IInv, Types

LEMMA BeginIInv ==
    ASSUME IInv, NEW w \in Workers, Begin(w)
    PROVE  IInv'
  <1>1. PICK j \in DOMAIN jobs :
           /\ Q!Claim(j, w, LeaseSeconds)
           /\ Becomes(w, [pc |-> "claimed", job |-> j, left |-> LeaseSeconds])
    BY DEF Begin
  <1> DEFINE job == Q!Granted(jobs[j], w, LeaseSeconds)
             s == [pc |-> "claimed", job |-> j, left |-> LeaseSeconds]
  <1>2. jobs[j] \in JobRecord /\ j \in Nat
    BY DEF IInv, Types
  <1>3. job \in JobRecord
    BY <1>2, UpdateTypes
  <1>4. Q!Claimable(jobs[j]) /\ jobs' = [jobs EXCEPT ![j] = job]
    BY <1>1 DEF Q!Claim, Q!FirstClaimable
  <1>5. /\ job.status = "CLAIMED" /\ job.owner = w /\ job.lease = LeaseSeconds
    BY <1>2 DEF Q!Granted, JobRecord
  <1>6. s \in WorkerRecord /\ worker' = [worker EXCEPT ![w] = s]
    BY <1>1, <1>2 DEF WorkerRecord, Becomes
  <1> HIDE DEF job
  <1>7. /\ jobs' \in Seq(JobRecord) /\ DOMAIN jobs' = DOMAIN jobs /\ jobs'[j] = job
        /\ \A v \in Workers \ {w} : worker[v].left >= 0 =>
              jobs'[worker[v].job] = jobs[worker[v].job]
    BY <1>3, <1>4, OneJob
  <1>8. Sound(w, s, jobs')
    BY <1>5, <1>7 DEF Sound
  <1> QED
    BY <1>6, <1>7, <1>8, OneWorker

(* A worker that goes on with its job, and with its count, or gives both up. *)
LEMMA WorkerOnly ==
    ASSUME IInv, NEW w \in Workers, UNCHANGED jobs,
           \/ Becomes(w, Idle)
           \/ /\ ~At(w, {"idle"})
              /\ \E pc \in {"claimed", "accepted", "unclear"} : GoTo(w, pc)
    PROVE  IInv'
  <1>1. CASE Becomes(w, Idle)
    BY <1>1, OneWorker, IdleRecord DEF Becomes, IInv, Types
  <1>2. ASSUME ~At(w, {"idle"}), NEW pc \in {"claimed", "accepted", "unclear"},
               GoTo(w, pc)
        PROVE  IInv'
    <2> DEFINE s == [worker[w] EXCEPT !.pc = pc]
    <2>1. worker' = [worker EXCEPT ![w] = s]
      BY <1>2 DEF GoTo
    <2>2. /\ s \in WorkerRecord /\ s.job = worker[w].job /\ s.left = worker[w].left
      BY DEF IInv, Types, WorkerRecord
    <2>3. worker[w].job \in DOMAIN jobs
      BY <1>2, JobOf DEF Job
    <2> HIDE DEF s
    <2>4. Sound(w, s, jobs')
      BY <2>2, <2>3 DEF IInv, Sound
    <2> QED
      BY <2>1, <2>2, <2>4, OneWorker DEF IInv, Types
  <1> QED
    BY <1>1, <1>2

(* A settlement or a failure that the queue accepts ends the holder's trust, *)
(* and nobody else's.                                                      *)
LEMMA ReleaseIInv ==
    ASSUME IInv, NEW w \in Workers, ~At(w, {"idle"}), Q!Owns(Job(w), w),
           NEW st \in Q!Statuses,
           jobs' = [jobs EXCEPT ![Job(w)] = Q!Released(jobs[Job(w)], st)],
           Becomes(w, Idle)
    PROVE  IInv'
  <1> DEFINE job == Q!Released(jobs[Job(w)], st)
  <1>1. Job(w) \in DOMAIN jobs /\ job \in JobRecord
    BY JobOf, UpdateTypes
  <1> HIDE DEF job
  <1>2. /\ jobs' \in Seq(JobRecord) /\ DOMAIN jobs' = DOMAIN jobs
        /\ \A v \in Workers \ {w} : worker[v].left >= 0 =>
              jobs'[worker[v].job] = jobs[worker[v].job]
    BY <1>1, OneJob DEF job
  <1> QED
    BY <1>2, OneWorker, IdleRecord DEF Becomes

LEMMA ReportIInv ==
    ASSUME IInv, NEW w \in Workers, Finish(w) \/ GiveUp(w) \/ Escalate(w)
    PROVE  IInv'
  <1>1. ~At(w, {"idle"}) /\ Becomes(w, Idle)
    BY DEF Finish, GiveUp, Escalate, Report, At
  <1>2. \/ UNCHANGED jobs
        \/ Q!Complete(Job(w), w) \/ Q!Fail(Job(w), w) \/ Q!MarkManualReview(Job(w), w)
    BY DEF Finish, GiveUp, Escalate, Report, queueVars
  <1>3. CASE UNCHANGED jobs
    BY <1>1, <1>3, WorkerOnly
  <1>4. jobs[Job(w)] \in JobRecord
    BY <1>1, JobOf
  <1>5. ASSUME \/ Q!Complete(Job(w), w) \/ Q!Fail(Job(w), w)
               \/ Q!MarkManualReview(Job(w), w)
        PROVE  Q!Owns(Job(w), w) /\
               \E st \in Q!Statuses :
                  jobs' = [jobs EXCEPT ![Job(w)] = Q!Released(jobs[Job(w)], st)]
    <2>1. CASE Q!Complete(Job(w), w)
      BY <2>1 DEF Q!Complete, Q!Statuses
    <2>2. CASE Q!Fail(Job(w), w)
      BY <2>2, <1>4, UpdateTypes DEF Q!Fail
    <2>3. CASE Q!MarkManualReview(Job(w), w)
      BY <2>3 DEF Q!MarkManualReview, Q!Statuses
    <2> QED
      BY <1>5, <2>1, <2>2, <2>3
  <1>6. CASE \/ Q!Complete(Job(w), w) \/ Q!Fail(Job(w), w)
             \/ Q!MarkManualReview(Job(w), w)
    BY <1>1, <1>5, <1>6, ReleaseIInv
  <1> QED
    BY <1>2, <1>3, <1>6

LEMMA BeatIInv ==
    ASSUME IInv, NEW w \in Workers, Beat(w)
    PROVE  IInv'
  <1>1. ~At(w, {"idle"})
    BY DEF Beat
  <1>2. CASE Becomes(w, Idle) /\ UNCHANGED queueVars
    BY <1>2, WorkerOnly DEF queueVars
  <1>3. CASE /\ Q!Heartbeat(Job(w), w, LeaseSeconds)
             /\ worker' = [worker EXCEPT ![w].left = LeaseSeconds]
    <2> DEFINE job == [jobs[Job(w)] EXCEPT !.lease = LeaseSeconds]
               s == [worker[w] EXCEPT !.left = LeaseSeconds]
    <2>1. /\ Job(w) \in DOMAIN jobs /\ jobs[Job(w)] \in JobRecord
          /\ job \in JobRecord
      BY <1>1, JobOf, UpdateTypes
    <2>2. /\ Q!Owns(Job(w), w) /\ jobs[Job(w)].status = "CLAIMED"
          /\ jobs' = [jobs EXCEPT ![Job(w)] = job]
      BY <1>3 DEF Q!Heartbeat
    <2>3. job.status = "CLAIMED" /\ job.owner = w /\ job.lease = LeaseSeconds
      BY <2>1, <2>2 DEF JobRecord, Q!Owns
    <2>4. /\ worker' = [worker EXCEPT ![w] = s]
          /\ s \in WorkerRecord /\ s.job = Job(w) /\ s.left = LeaseSeconds
      <3>1. worker[w] \in WorkerRecord /\ LeaseSeconds \in Int
        BY DEF IInv, Types
      <3>2. s \in WorkerRecord /\ s.job = Job(w) /\ s.left = LeaseSeconds
        BY <3>1 DEF WorkerRecord, Job
      <3>3. worker' = [worker EXCEPT ![w] = s]
        BY <1>3
      <3> QED
        BY <3>2, <3>3
    <2> HIDE DEF job, s
    <2>5. /\ jobs' \in Seq(JobRecord) /\ DOMAIN jobs' = DOMAIN jobs
          /\ jobs'[Job(w)] = job
          /\ \A v \in Workers \ {w} : worker[v].left >= 0 =>
                jobs'[worker[v].job] = jobs[worker[v].job]
      BY <2>1, <2>2, OneJob
    <2>6. Sound(w, s, jobs')
      BY <2>1, <2>3, <2>4, <2>5 DEF Sound
    <2> QED
      BY <2>4, <2>5, <2>6, OneWorker
  <1> QED
    BY <1>2, <1>3 DEF Beat

(* The sweep takes expired leases only, which no worker relies on.         *)
LEMMA RecoverIInv ==
    ASSUME IInv, Recover
    PROVE  IInv'
  <1>1. /\ jobs' = [j \in DOMAIN jobs |-> IF Q!Expired(jobs[j])
                                          THEN Q!Released(jobs[j], "PENDING")
                                          ELSE jobs[j]]
        /\ worker' = worker
    BY DEF Recover, Q!RecoverExpired
  <1>2. ASSUME NEW j \in DOMAIN jobs PROVE jobs'[j] \in JobRecord
    <2>1. jobs[j] \in JobRecord /\ "PENDING" \in Q!Statuses
      BY DEF IInv, Types, Q!Statuses
    <2>2. Q!Released(jobs[j], "PENDING") \in JobRecord
      BY <2>1, UpdateTypes
    <2> QED
      BY <1>1, <2>1, <2>2
  <1>3. jobs' \in Seq(JobRecord) /\ DOMAIN jobs' = DOMAIN jobs
    <2>1. Len(jobs) \in Nat /\ DOMAIN jobs = 1 .. Len(jobs)
      BY DEF IInv, Types
    <2>2. jobs' \in [1 .. Len(jobs) -> JobRecord]
      BY <1>1, <1>2, <2>1
    <2> QED
      BY <2>1, <2>2
  <1>4. ASSUME NEW w \in Workers PROVE Sound(w, worker[w], jobs')
    <2>1. Sound(w, worker[w], jobs) /\ worker[w].left \in Int
      BY DEF IInv, Types, WorkerRecord
    <2>2. ASSUME worker[w].left >= 0
          PROVE  jobs'[worker[w].job] = jobs[worker[w].job]
      BY <2>1, <2>2, <1>1 DEF Sound, Q!Expired
    <2> QED
      BY <2>1, <2>2, <1>3 DEF Sound
  <1> QED
    BY <1>1, <1>3, <1>4 DEF IInv, Types

(* A second takes as much from a lease as from its holder's count.         *)
LEMMA TickIInv ==
    ASSUME IInv, Tick
    PROVE  IInv'
  <1>1. /\ jobs' = [j \in DOMAIN jobs |-> Q!Aged(jobs[j])]
        /\ worker' = [w \in Workers |->
                        IF worker[w].left < 0 THEN worker[w]
                        ELSE [worker[w] EXCEPT !.left = @ - 1]]
    BY DEF Tick, Q!Tick
  <1>2. ASSUME NEW j \in DOMAIN jobs
        PROVE  jobs[j] \in JobRecord /\ jobs'[j] \in JobRecord
    <2>1. jobs[j] \in JobRecord
      BY DEF IInv, Types
    <2>2. Q!Aged(jobs[j]) \in JobRecord
      BY <2>1, UpdateTypes
    <2> QED
      BY <1>1, <2>1, <2>2
  <1>3. jobs' \in Seq(JobRecord) /\ DOMAIN jobs' = DOMAIN jobs
    <2>1. Len(jobs) \in Nat /\ DOMAIN jobs = 1 .. Len(jobs)
      BY DEF IInv, Types
    <2>2. jobs' \in [1 .. Len(jobs) -> JobRecord]
      BY <1>1, <1>2, <2>1
    <2> QED
      BY <2>1, <2>2
  <1>4. worker' \in [Workers -> WorkerRecord]
    <2>1. ASSUME NEW w \in Workers PROVE worker'[w] \in WorkerRecord
      <3>1. worker[w] \in WorkerRecord
        BY DEF IInv, Types
      <3>2. [worker[w] EXCEPT !.left = worker[w].left - 1] \in WorkerRecord
        BY <3>1 DEF WorkerRecord
      <3> QED
        BY <1>1, <3>1, <3>2
    <2> QED
      BY <1>1, <2>1
  <1>5. ASSUME NEW w \in Workers PROVE Sound(w, worker'[w], jobs')
    <2>1. Sound(w, worker[w], jobs) /\ worker[w] \in WorkerRecord
      BY DEF IInv, Types
    <2>2. CASE worker[w].left < 0
      <3>1. worker'[w] = worker[w] /\ worker[w].left \in Int
        BY <2>1, <2>2, <1>1 DEF WorkerRecord
      <3> QED
        BY <3>1, <2>1, <2>2, <1>3 DEF Sound
    <2>3. CASE ~(worker[w].left < 0)
      <3> DEFINE j == worker[w].job
      <3>1. /\ j \in DOMAIN jobs /\ worker[w].left \in Int
            /\ jobs[j].status = "CLAIMED" /\ jobs[j].owner = w
            /\ jobs[j].lease = worker[w].left /\ jobs[j] \in JobRecord
        BY <2>1, <2>3, <1>2 DEF Sound, WorkerRecord
      <3>2. jobs'[j] = [jobs[j] EXCEPT !.lease = jobs[j].lease - 1]
        BY <3>1, <2>3, <1>1 DEF Q!Aged
      <3>3. /\ jobs'[j].status = "CLAIMED" /\ jobs'[j].owner = w
            /\ jobs'[j].lease = worker[w].left - 1
        BY <3>1, <3>2 DEF JobRecord
      <3>4. worker'[w].job = j /\ worker'[w].left = worker[w].left - 1
        BY <2>1, <2>3, <1>1 DEF WorkerRecord
      <3> QED
        BY <3>1, <3>3, <3>4, <1>3 DEF Sound
    <2> QED
      BY <2>2, <2>3
  <1> QED
    BY <1>3, <1>4, <1>5 DEF IInv, Types

LEMMA NextIInv == IInv /\ [Next]_vars => IInv'
  <1> SUFFICES ASSUME IInv, [Next]_vars PROVE IInv'
    OBVIOUS
  <1>1. CASE \E c \in ClientIds : Submit(c)
    BY <1>1, SubmitIInv
  <1>2. ASSUME NEW w \in Workers,
               Step(w) \/ ExecuteUnclear(w) \/ GiveUp(w) \/ Escalate(w) \/ Crash(w)
        PROVE  IInv'
    <2>1. CASE Begin(w)
      BY <2>1, BeginIInv
    <2>2. CASE Execute(w)
      BY <2>2, WorkerOnly DEF Execute, At, queueVars
    <2>3. CASE ExecuteUnclear(w)
      BY <2>3, WorkerOnly DEF ExecuteUnclear, At, queueVars
    <2>4. CASE Ask(w)
      BY <2>4, WorkerOnly DEF Ask, At, queueVars
    <2>5. CASE Finish(w) \/ GiveUp(w) \/ Escalate(w)
      BY <2>5, ReportIInv
    <2>6. CASE Beat(w)
      BY <2>6, BeatIInv
    <2>7. CASE Crash(w)
      BY <2>7, WorkerOnly DEF Crash, queueVars
    <2> QED
      BY <1>2, <2>1, <2>2, <2>3, <2>4, <2>5, <2>6, <2>7 DEF Step
  <1>3. CASE Restart
    <2>1. jobs' = <<>> /\ worker' = [w \in Workers |-> Idle]
      BY <1>3 DEF Restart
    <2> QED
      BY <2>1, IdleRecord DEF IInv, Types
  <1>4. CASE Recover
    BY <1>4, RecoverIInv
  <1>5. CASE Tick
    BY <1>5, TickIInv
  <1>6. CASE UNCHANGED vars
    BY <1>6 DEF vars, queueVars, IInv, Types
  <1> QED
    BY <1>1, <1>2, <1>3, <1>4, <1>5, <1>6 DEF Next

(* Worker states and leases correspond in every reachable state.           *)
THEOREM Inductive == Spec => []IInv
  BY InitIInv, NextIInv, PTL DEF Spec

(* A worker with lease left by its own count owns its job with exactly     *)
(* that much left, under every interleaving of claims, late heartbeats,    *)
(* sweeps, settlements, crashes and restarts (queue/memory.py 55-125): two *)
(* workers never hold one job in good faith.                               *)
THEOREM TrustCorrect == Spec => []LeaseIsTrusted
  <1>1. IInv => LeaseIsTrusted
    BY DEF IInv, Sound, LeaseIsTrusted, Job
  <1> QED
    BY <1>1, Inductive, PTL

-----------------------------------------------------------------------------
(* The exchange, as this path uses it: market orders that buy.             *)

(* The trades whose order has reached the exchange.                        *)
Placed == {c \in ClientIds : \E i \in DOMAIN orders : orders[i].client = c}

(* So many bought, all at the price of one.                                *)
Held(n) == [amt |-> n, entry |-> X!Whole(1)]

ExchangeInv ==
    /\ \E S : orders \in Seq(S)
    /\ \A i \in DOMAIN orders : orders[i].client \in ClientIds /\ X!Executed(orders[i])
    /\ byClient \in [ClientIds -> Nat]
    /\ \A c \in ClientIds : X!KnownClient(c) <=> c \in Placed
    /\ IsFiniteSet(Placed)
    /\ mark[Symbol] = 1 /\ DOMAIN position = {Symbol}
    /\ position[Symbol] = IF Placed = {} THEN NoPosition ELSE Held(Cardinality(Placed))

(* What is COMPLETED, or is about to be, has been executed.                *)
WorkInv ==
    /\ \A j \in DOMAIN jobs : jobs[j].status = "COMPLETED" => jobs[j].coid \in Placed
    /\ \A w \in Workers : worker[w].pc = "accepted" => Client(w) \in Placed

FillInv == IInv /\ ExchangeInv /\ WorkInv

LEMMA InitFillInv == Init => FillInv
  <1> SUFFICES ASSUME Init PROVE FillInv
    OBVIOUS
  <1>1. /\ jobs = <<>> /\ worker = [w \in Workers |-> Idle]
        /\ orders = <<>> /\ byClient = [c \in ClientIds |-> 0]
        /\ position = [s \in {Symbol} |-> NoPosition] /\ mark = [s \in {Symbol} |-> 1]
    BY DEF Init, Q!Init, X!Init
  <1>2. Placed = {} /\ IsFiniteSet(Placed) /\ orders \in Seq({})
    <2>1. DOMAIN orders = {} /\ orders \in Seq({})
      BY <1>1
    <2>2. Placed = {}
      BY <2>1 DEF Placed
    <2> QED
      BY <2>1, <2>2, FS_EmptySet
  <1>3. ExchangeInv
    BY <1>1, <1>2 DEF ExchangeInv, X!KnownClient
  <1>4. WorkInv
    BY <1>1 DEF WorkInv, Idle
  <1> QED
    BY <1>3, <1>4, InitIInv DEF FillInv

(* Buying one more at the same price changes the amount only.              *)
LEMMA SameRatio ==
    ASSUME NEW d \in Nat \ {0}
    PROVE  X!Ratio(d, d) = X!Whole(1)
  <1>1. d % d = 0 /\ d \div d = 1
    BY Z3
  <1>2. X!Abs(d) = d
    BY DEF X!Abs
  <1>3. X!Gcd(d, d) = d
    <2> DEFINE P(g) == /\ X!Divides(g, X!Abs(d)) /\ X!Divides(g, d)
                       /\ \A h \in (g + 1) .. d :
                             ~(X!Divides(h, X!Abs(d)) /\ X!Divides(h, d))
    <2>1. d \in 1 .. d /\ P(d)
      BY <1>1, <1>2 DEF X!Divides
    <2>2. \A g \in 1 .. d : P(g) => g = d
      <3> SUFFICES ASSUME NEW g \in 1 .. d, P(g), g # d PROVE FALSE
        OBVIOUS
      <3>1. d \in (g + 1) .. d
        OBVIOUS
      <3> QED
        BY <3>1, <1>1, <1>2 DEF X!Divides
    <2>3. X!Gcd(d, d) = CHOOSE g \in 1 .. d : P(g)
      BY DEF X!Gcd
    <2> HIDE DEF P
    <2> QED
      BY <2>1, <2>2, <2>3
  <1> QED
    BY <1>1, <1>3 DEF X!Ratio, X!Whole

LEMMA FirstFill == X!Filled(NoPosition, 1, 1) = Held(1)
  BY DEF X!Filled, Held

LEMMA NextFill ==
    ASSUME NEW n \in Nat \ {0}
    PROVE  X!Filled(Held(n), 1, 1) = Held(n + 1)
  <1>1. Held(n) # NoPosition
    BY DEF Held, X!Position, X!Fraction, X!Whole
  <1>2. Held(n).amt = n /\ Held(n).entry = X!Whole(1)
    BY DEF Held
  <1>3. ~X!Closes(Held(n), 1) /\ X!SameWay(n, 1)
    BY <1>2 DEF X!Closes, X!SameWay
  <1>4. X!Average(Held(n), 1, 1) = X!Whole(1)
    <2>1. X!Whole(1).num = 1 /\ X!Whole(1).den = 1
      BY DEF X!Whole
    <2>2. X!Abs(n) = n /\ X!Abs(1) = 1 /\ X!Abs(n + 1) = n + 1
      BY DEF X!Abs
    <2>3. X!Average(Held(n), 1, 1) = X!Ratio(n * 1 + 1 * 1 * 1, 1 * (n + 1))
      BY <1>2, <2>1, <2>2 DEF X!Average
    <2>4. n * 1 + 1 * 1 * 1 = n + 1 /\ 1 * (n + 1) = n + 1 /\ n + 1 \in Nat \ {0}
      OBVIOUS
    <2> QED
      BY <2>3, <2>4, SameRatio
  <1> QED
    BY <1>1, <1>2, <1>3, <1>4 DEF X!Filled, Held

(* One more unit is filled for a trade that had none.                      *)
LEMMA OneMore ==
    ASSUME ExchangeInv, NEW c \in ClientIds,
           X!PlaceOrder(c, Symbol, X!BUY, "MARKET", Quantity, FALSE)
    PROVE  ExchangeInv' /\ Placed' = Placed \cup {c}
  <1> DEFINE order == X!NewOrder(c, Symbol, X!BUY, "MARKET", Quantity, FALSE)
             p == position[Symbol]
  <1>1. /\ ~X!KnownClient(c)
        /\ orders' = Append(orders, order)
        /\ byClient' = [byClient EXCEPT ![c] = Len(orders) + 1]
        /\ X!ApplyFill(X!NextId, Symbol, X!BUY * Quantity, mark[Symbol], FALSE)
    BY DEF X!PlaceOrder, X!FillsAtOnce, X!NextId
  <1>2. order.client = c /\ X!Executed(order)
    BY DEF X!NewOrder, X!Executed
  <1> HIDE DEF order
  <1>3. PICK S : orders \in Seq(S)
    BY DEF ExchangeInv
  <1>4. orders \in Seq(S \cup {order})
    BY <1>3
  <1>5. /\ Len(orders) \in Nat /\ DOMAIN orders = 1 .. Len(orders)
        /\ orders' \in Seq(S \cup {order})
        /\ DOMAIN orders' = 1 .. Len(orders) + 1
        /\ orders'[Len(orders) + 1] = order
        /\ \A i \in DOMAIN orders : orders'[i] = orders[i]
    BY <1>1, <1>4
  <1>6. \A i \in DOMAIN orders' : i \in DOMAIN orders \/ i = Len(orders) + 1
    BY <1>5
  <1>7. Placed' = Placed \cup {c}
    BY <1>2, <1>5, <1>6 DEF Placed
  <1>8. c \notin Placed
    BY <1>1 DEF ExchangeInv
  <1>9. \A i \in DOMAIN orders' : orders'[i].client \in ClientIds /\ X!Executed(orders'[i])
    BY <1>2, <1>5, <1>6 DEF ExchangeInv, X!Executed
  <1>10. byClient' \in [ClientIds -> Nat]
    BY <1>1, <1>5 DEF ExchangeInv
  <1>11. ASSUME NEW d \in ClientIds PROVE X!KnownClient(d)' <=> d \in Placed'
    <2>1. CASE d = c
      BY <2>1, <1>1, <1>5, <1>7 DEF ExchangeInv, X!KnownClient
    <2>2. CASE d # c
      BY <2>2, <1>1, <1>7 DEF ExchangeInv, X!KnownClient
    <2> QED
      BY <2>1, <2>2
  <1>12. /\ IsFiniteSet(Placed') /\ Cardinality(Placed) \in Nat
         /\ Cardinality(Placed') = Cardinality(Placed) + 1
    BY <1>7, <1>8, FS_AddElement, FS_CardinalityType DEF ExchangeInv
  <1>13. /\ position'[Symbol] = X!Filled(position[Symbol], 1, 1)
         /\ DOMAIN position' = {Symbol} /\ mark'[Symbol] = 1
    <2>1. X!BUY * Quantity = 1 /\ mark[Symbol] = 1 /\ DOMAIN position = {Symbol}
      BY DEF X!BUY, Quantity, ExchangeInv
    <2>2. ~X!Ignored(position[Symbol], FALSE) /\ mark' = mark
      BY DEF X!Ignored, X!PlaceOrder
    <2>3. position' = [position EXCEPT ![Symbol] = X!Filled(@, 1, 1)]
      BY <1>1, <2>1, <2>2 DEF X!ApplyFill
    <2> QED
      BY <2>1, <2>2, <2>3
  <1>14. position'[Symbol] = Held(Cardinality(Placed'))
    <2>1. CASE Placed = {}
      BY <2>1, <1>12, <1>13, FirstFill, FS_EmptySet DEF ExchangeInv
    <2>2. CASE Placed # {}
      BY <2>2, <1>12, <1>13, NextFill, FS_EmptySet DEF ExchangeInv
    <2> QED
      BY <2>1, <2>2
  <1>15. Placed' # {}
    BY <1>7
  <1> QED
    BY <1>5, <1>7, <1>9, <1>10, <1>11, <1>12, <1>13, <1>14, <1>15 DEF ExchangeInv

LEMMA PlaceFacts ==
    ASSUME ExchangeInv, NEW c \in ClientIds, Place(c)
    PROVE  ExchangeInv' /\ Placed \subseteq Placed' /\ c \in Placed'
  <1>1. CASE X!KnownClient(c)
    <2>1. UNCHANGED <<orders, byClient, position, mark>>
      BY <1>1 DEF Place, exchangeVars
    <2>2. ExchangeInv' /\ Placed' = Placed
      BY <2>1 DEF ExchangeInv, Placed, X!KnownClient, X!Executed
    <2> QED
      BY <1>1, <2>2 DEF ExchangeInv
  <1>2. CASE ~X!KnownClient(c)
    BY <1>2, OneMore DEF Place
  <1> QED
    BY <1>1, <1>2

LEMMA ExchangeSame ==
    ASSUME ExchangeInv, UNCHANGED exchangeVars
    PROVE  ExchangeInv' /\ Placed' = Placed
  BY DEF exchangeVars, ExchangeInv, Placed, X!KnownClient, X!Executed

(* A job of a worker at work names a trade.                                *)
LEMMA ClientOf ==
    ASSUME IInv, NEW w \in Workers, ~At(w, {"idle"})
    PROVE  Client(w) \in ClientIds
  BY JobOf DEF Client, JobRecord

(* What a step does to the queue does not rename a job, and completes no   *)
(* job but one whose order has been placed.                                *)
Carries ==
    /\ \A j \in DOMAIN jobs' :
          jobs'[j].status = "COMPLETED" =>
             /\ j \in DOMAIN jobs
             /\ jobs[j].status = "COMPLETED" \/ jobs[j].coid \in Placed
    /\ \A j \in DOMAIN jobs : j \in DOMAIN jobs' /\ jobs'[j].coid = jobs[j].coid

LEMMA KeepWork ==
    ASSUME FillInv, Carries, Placed \subseteq Placed',
           \A w \in Workers : worker'[w].pc = "accepted" =>
              /\ worker'[w].job \in DOMAIN jobs
              /\ jobs[worker'[w].job].coid \in Placed'
    PROVE  WorkInv'
  BY DEF FillInv, WorkInv, Carries, Client, Job

(* Workers that stay where they are, or go anywhere but "accepted".        *)
LEMMA SameWork ==
    ASSUME FillInv, Placed \subseteq Placed', Carries,
           \A w \in Workers : worker'[w].pc = "accepted" =>
              worker[w].pc = "accepted" /\ worker'[w].job = worker[w].job
    PROVE  WorkInv'
  <1>1. ASSUME NEW w \in Workers, worker'[w].pc = "accepted"
        PROVE  /\ worker'[w].job \in DOMAIN jobs
               /\ jobs[worker'[w].job].coid \in Placed'
    BY <1>1 DEF FillInv, IInv, Sound, WorkInv, Client, Job
  <1> QED
    BY <1>1, KeepWork

(* Replacing one job by another.                                           *)
LEMMA CarriesOne ==
    ASSUME FillInv, NEW j \in DOMAIN jobs, NEW job,
           jobs' = [jobs EXCEPT ![j] = job], job.coid = jobs[j].coid,
           job.status = "COMPLETED" =>
              jobs[j].status = "COMPLETED" \/ jobs[j].coid \in Placed
    PROVE  Carries
  BY DEF FillInv, IInv, Types, Carries

LEMMA CarriesSame ==
    ASSUME UNCHANGED jobs
    PROVE  Carries
  BY DEF Carries

(* No update of the queue renames a job, and only Released completes one.  *)
LEMMA UpdateFacts ==
    ASSUME NEW job \in JobRecord
    PROVE  /\ \A w : /\ Q!Granted(job, w, LeaseSeconds).coid = job.coid
                     /\ Q!Granted(job, w, LeaseSeconds).status = "CLAIMED"
           /\ [job EXCEPT !.lease = LeaseSeconds].coid = job.coid
           /\ [job EXCEPT !.lease = LeaseSeconds].status = job.status
           /\ \A st : /\ Q!Released(job, st).coid = job.coid
                      /\ Q!Released(job, st).status = st
           /\ Q!AfterFail(job) # "COMPLETED"
           /\ Q!Aged(job).coid = job.coid /\ Q!Aged(job).status = job.status
  <1>1. \A w : /\ Q!Granted(job, w, LeaseSeconds).coid = job.coid
               /\ Q!Granted(job, w, LeaseSeconds).status = "CLAIMED"
    BY DEF Q!Granted, JobRecord
  <1>2. /\ [job EXCEPT !.lease = LeaseSeconds].coid = job.coid
        /\ [job EXCEPT !.lease = LeaseSeconds].status = job.status
    BY DEF JobRecord
  <1>3. \A st : Q!Released(job, st).coid = job.coid /\ Q!Released(job, st).status = st
    BY DEF Q!Released, JobRecord
  <1>4. Q!AfterFail(job) # "COMPLETED"
    BY DEF Q!AfterFail
  <1>5. Q!Aged(job).coid = job.coid /\ Q!Aged(job).status = job.status
    BY DEF Q!Aged, JobRecord
  <1> QED
    BY <1>1, <1>2, <1>3, <1>4, <1>5

(* Steps that leave the exchange alone.                                    *)
LEMMA QueueStep ==
    ASSUME FillInv, UNCHANGED exchangeVars, Carries,
           \A w \in Workers : worker'[w].pc = "accepted" =>
              worker[w].pc = "accepted" /\ worker'[w].job = worker[w].job
    PROVE  ExchangeInv' /\ WorkInv'
  <1>1. ExchangeInv' /\ Placed' = Placed
    BY ExchangeSame DEF FillInv
  <1> QED
    BY <1>1, SameWork

(* A worker that becomes anything but "accepted", or keeps pc and job.     *)
LEMMA OneWork ==
    ASSUME FillInv, NEW w \in Workers, NEW s,
           worker' = [worker EXCEPT ![w] = s],
           s.pc # "accepted" \/ (s.pc = worker[w].pc /\ s.job = worker[w].job)
    PROVE  \A v \in Workers : worker'[v].pc = "accepted" =>
              worker[v].pc = "accepted" /\ worker'[v].job = worker[v].job
  BY DEF FillInv, IInv, Types

LEMMA SubmitFill ==
    ASSUME FillInv, NEW c \in ClientIds, Submit(c)
    PROVE  ExchangeInv' /\ WorkInv'
  <1> DEFINE job == Q!NewJob(c, MaxAttempts)
  <1>1. jobs' = Append(jobs, job) /\ UNCHANGED <<exchangeVars, worker>>
    BY DEF Submit, Q!Enqueue
  <1>2. job.status = "PENDING"
    BY DEF Q!NewJob
  <1>3. job \in JobRecord
    BY DEF Q!NewJob, JobRecord, Q!Statuses
  <1> HIDE DEF job
  <1>4. /\ DOMAIN jobs' = 1 .. Len(jobs) + 1 /\ jobs'[Len(jobs) + 1] = job
        /\ DOMAIN jobs = 1 .. Len(jobs) /\ Len(jobs) \in Nat
        /\ \A j \in DOMAIN jobs : jobs'[j] = jobs[j]
    BY <1>1, <1>3 DEF FillInv, IInv, Types
  <1>5. Carries
    BY <1>2, <1>4 DEF Carries
  <1> QED
    BY <1>1, <1>5, QueueStep

LEMMA BeginFill ==
    ASSUME FillInv, NEW w \in Workers, Begin(w)
    PROVE  ExchangeInv' /\ WorkInv'
  <1>1. PICK j \in DOMAIN jobs :
           /\ Q!Claim(j, w, LeaseSeconds)
           /\ Becomes(w, [pc |-> "claimed", job |-> j, left |-> LeaseSeconds])
    BY DEF Begin
  <1>2. jobs[j] \in JobRecord
    BY DEF FillInv, IInv, Types
  <1>3. Carries
    BY <1>1, <1>2, UpdateFacts, CarriesOne DEF Q!Claim
  <1>4. \A v \in Workers : worker'[v].pc = "accepted" =>
           worker[v].pc = "accepted" /\ worker'[v].job = worker[v].job
    BY <1>1, OneWork DEF Becomes
  <1> QED
    BY <1>3, <1>4, QueueStep DEF Begin

LEMMA ExecuteFill ==
    ASSUME FillInv, NEW w \in Workers, Execute(w) \/ ExecuteUnclear(w)
    PROVE  ExchangeInv' /\ WorkInv'
  <1>1. ~At(w, {"idle"}) /\ UNCHANGED jobs
    BY DEF Execute, ExecuteUnclear, At, queueVars
  <1>2. Client(w) \in ClientIds /\ Job(w) \in DOMAIN jobs
    BY <1>1, ClientOf, JobOf DEF FillInv
  <1>3. Carries
    BY <1>1, CarriesSame
  <1>4. CASE Execute(w)
    <2>1. ExchangeInv' /\ Placed \subseteq Placed' /\ Client(w) \in Placed'
      BY <1>2, <1>4, PlaceFacts DEF FillInv, Execute
    <2>2. ASSUME NEW v \in Workers, worker'[v].pc = "accepted"
          PROVE  /\ worker'[v].job \in DOMAIN jobs
                 /\ jobs[worker'[v].job].coid \in Placed'
      <3>1. worker'[v].job = worker[v].job
        BY <1>4 DEF Execute, GoTo, FillInv, IInv, Types, WorkerRecord
      <3>2. CASE v = w
        BY <3>1, <3>2, <2>1, <1>2 DEF Client, Job
      <3>3. CASE v # w
        <4>1. worker[v].pc = "accepted"
          BY <2>2, <3>3, <1>4 DEF Execute, GoTo, FillInv, IInv, Types
        <4> QED
          BY <4>1, <3>1, <2>1 DEF FillInv, IInv, Sound, WorkInv, Client, Job
      <3> QED
        BY <3>2, <3>3
    <2> QED
      BY <2>1, <2>2, <1>3, KeepWork
  <1>5. CASE ExecuteUnclear(w)
    <2>1. ExchangeInv' /\ Placed \subseteq Placed'
      BY <1>2, <1>5, PlaceFacts, ExchangeSame DEF FillInv, ExecuteUnclear
    <2>2. ASSUME NEW v \in Workers, worker'[v].pc = "accepted"
          PROVE  worker[v].pc = "accepted" /\ worker'[v].job = worker[v].job
      BY <2>2, <1>5 DEF ExecuteUnclear, GoTo, FillInv, IInv, Types, WorkerRecord
    <2> QED
      BY <2>1, <2>2, <1>3, SameWork
  <1> QED
    BY <1>4, <1>5

(* The exchange finds an order only for a trade that was placed.           *)
LEMMA AskFill ==
    ASSUME FillInv, NEW w \in Workers, Ask(w)
    PROVE  ExchangeInv' /\ WorkInv'
  <1>1. ~At(w, {"idle"}) /\ UNCHANGED jobs /\ UNCHANGED exchangeVars
    BY DEF Ask, At, queueVars
  <1>2. Client(w) \in ClientIds /\ Job(w) \in DOMAIN jobs
    BY <1>1, ClientOf, JobOf DEF FillInv
  <1>3. X!GetOrder(Client(w)) => Client(w) \in Placed
    <2>1. X!GetOrder(Client(w)) => X!KnownClient(Client(w))
      <3>1. 0 \notin DOMAIN orders
        BY DEF FillInv, ExchangeInv
      <3> QED
        BY <3>1 DEF X!GetOrder, X!KnownClient
    <2> QED
      BY <1>2, <2>1 DEF FillInv, ExchangeInv
  <1>4. ExchangeInv' /\ Placed' = Placed /\ Carries
    BY <1>1, ExchangeSame, CarriesSame DEF FillInv
  <1>5. ASSUME NEW v \in Workers, worker'[v].pc = "accepted"
        PROVE  /\ worker'[v].job \in DOMAIN jobs
               /\ jobs[worker'[v].job].coid \in Placed'
    <2>1. worker'[v].job = worker[v].job
      BY DEF Ask, GoTo, FillInv, IInv, Types, WorkerRecord
    <2>2. CASE v = w
      <3>1. X!GetOrder(Client(w))
        BY <1>5, <2>2 DEF Ask, GoTo, FillInv, IInv, Types, WorkerRecord
      <3> QED
        BY <3>1, <2>1, <2>2, <1>2, <1>3, <1>4 DEF Client, Job
    <2>3. CASE v # w
      <3>1. worker[v].pc = "accepted"
        BY <1>5, <2>3 DEF Ask, GoTo, FillInv, IInv, Types
      <3> QED
        BY <3>1, <2>1, <1>4 DEF FillInv, IInv, Sound, WorkInv, Client, Job
    <2> QED
      BY <2>2, <2>3
  <1> QED
    BY <1>4, <1>5, KeepWork

LEMMA ReportFill ==
    ASSUME FillInv, NEW w \in Workers, Finish(w) \/ GiveUp(w) \/ Escalate(w)
    PROVE  ExchangeInv' /\ WorkInv'
  <1>1. ~At(w, {"idle"}) /\ Becomes(w, Idle) /\ UNCHANGED exchangeVars
    BY DEF Finish, GiveUp, Escalate, Report, At
  <1>2. Job(w) \in DOMAIN jobs /\ jobs[Job(w)] \in JobRecord
    BY <1>1, JobOf DEF FillInv
  <1>3. Finish(w) => jobs[Job(w)].coid \in Placed
    BY DEF Finish, At, FillInv, WorkInv, Client
  <1>4. \/ UNCHANGED jobs
        \/ Finish(w) /\ Q!Complete(Job(w), w)
        \/ Q!Fail(Job(w), w)
        \/ Q!MarkManualReview(Job(w), w)
    BY DEF Finish, GiveUp, Escalate, Report, queueVars
  <1>5. CASE UNCHANGED jobs
    <2>1. Carries
      BY <1>5, CarriesSame
    <2> QED
      BY <1>1, <2>1, OneWork, QueueStep DEF Becomes, Idle
  <1>6. CASE \/ Finish(w) /\ Q!Complete(Job(w), w)
             \/ Q!Fail(Job(w), w)
             \/ Q!MarkManualReview(Job(w), w)
    <2>1. PICK st :
             /\ jobs' = [jobs EXCEPT ![Job(w)] = Q!Released(jobs[Job(w)], st)]
             /\ st = "COMPLETED" => jobs[Job(w)].coid \in Placed
      <3>1. Q!AfterFail(jobs[Job(w)]) # "COMPLETED"
        BY <1>2, UpdateFacts
      <3> QED
        BY <1>3, <1>6, <3>1 DEF Q!Complete, Q!Fail, Q!MarkManualReview
    <2>2. /\ Q!Released(jobs[Job(w)], st).coid = jobs[Job(w)].coid
          /\ Q!Released(jobs[Job(w)], st).status = st
      BY <1>2, UpdateFacts
    <2>4. Carries
      BY <2>1, <2>2, <1>2, CarriesOne
    <2> QED
      BY <1>1, <2>4, OneWork, QueueStep DEF Becomes, Idle
  <1> QED
    BY <1>4, <1>5, <1>6

LEMMA BeatFill ==
    ASSUME FillInv, NEW w \in Workers, Beat(w)
    PROVE  ExchangeInv' /\ WorkInv'
  <1>1. ~At(w, {"idle"}) /\ UNCHANGED exchangeVars
    BY DEF Beat
  <1>2. Job(w) \in DOMAIN jobs /\ jobs[Job(w)] \in JobRecord
    BY <1>1, JobOf DEF FillInv
  <1>3. CASE Becomes(w, Idle) /\ UNCHANGED queueVars
    <2>1. Carries
      BY <1>3, CarriesSame DEF queueVars
    <2> QED
      BY <1>1, <1>3, <2>1, OneWork, QueueStep DEF Becomes, Idle
  <1>4. CASE /\ Q!Heartbeat(Job(w), w, LeaseSeconds)
             /\ worker' = [worker EXCEPT ![w].left = LeaseSeconds]
    <2>1. jobs' = [jobs EXCEPT ![Job(w)] = [jobs[Job(w)] EXCEPT !.lease = LeaseSeconds]]
      BY <1>4 DEF Q!Heartbeat
    <2>2. Carries
      BY <2>1, <1>2, UpdateFacts, CarriesOne
    <2>3. \A v \in Workers : worker'[v].pc = worker[v].pc /\ worker'[v].job = worker[v].job
      BY <1>4 DEF FillInv, IInv, Types, WorkerRecord
    <2> QED
      BY <1>1, <2>2, <2>3, QueueStep
  <1> QED
    BY <1>3, <1>4 DEF Beat

LEMMA SweepFill ==
    ASSUME FillInv, Recover \/ Tick
    PROVE  ExchangeInv' /\ WorkInv'
  <1>1. CASE Recover
    <2>1. ASSUME NEW j \in DOMAIN jobs
          PROVE  /\ jobs'[j].coid = jobs[j].coid
                 /\ jobs'[j].status = "COMPLETED" => jobs[j].status = "COMPLETED"
      <3>1. jobs[j] \in JobRecord
        BY DEF FillInv, IInv, Types
      <3>2. jobs'[j] = IF Q!Expired(jobs[j]) THEN Q!Released(jobs[j], "PENDING")
                                             ELSE jobs[j]
        BY <1>1 DEF Recover, Q!RecoverExpired
      <3> QED
        BY <3>1, <3>2, UpdateFacts
    <2>2. Carries
      BY <1>1, <2>1 DEF Carries, Recover, Q!RecoverExpired
    <2> QED
      BY <1>1, <2>2, QueueStep DEF Recover
  <1>2. CASE Tick
    <2>1. ASSUME NEW j \in DOMAIN jobs
          PROVE  /\ jobs'[j].coid = jobs[j].coid
                 /\ jobs'[j].status = "COMPLETED" => jobs[j].status = "COMPLETED"
      <3>1. jobs[j] \in JobRecord
        BY DEF FillInv, IInv, Types
      <3>2. jobs'[j] = Q!Aged(jobs[j])
        BY <1>2 DEF Tick, Q!Tick
      <3> QED
        BY <3>1, <3>2, UpdateFacts
    <2>2. Carries
      BY <1>2, <2>1 DEF Carries, Tick, Q!Tick
    <2>3. \A v \in Workers : worker'[v].pc = worker[v].pc /\ worker'[v].job = worker[v].job
      BY <1>2 DEF Tick, FillInv, IInv, Types, WorkerRecord
    <2> QED
      BY <1>2, <2>2, <2>3, QueueStep DEF Tick
  <1> QED
    BY <1>1, <1>2

LEMMA NextFillInv == FillInv /\ [Next]_vars => FillInv'
  <1> SUFFICES ASSUME FillInv, [Next]_vars PROVE ExchangeInv' /\ WorkInv'
    BY NextIInv DEF FillInv
  <1>1. CASE \E c \in ClientIds : Submit(c)
    BY <1>1, SubmitFill
  <1>2. ASSUME NEW w \in Workers,
               Step(w) \/ ExecuteUnclear(w) \/ GiveUp(w) \/ Escalate(w) \/ Crash(w)
        PROVE  ExchangeInv' /\ WorkInv'
    <2>1. CASE Begin(w)
      BY <2>1, BeginFill
    <2>2. CASE Execute(w) \/ ExecuteUnclear(w)
      BY <2>2, ExecuteFill
    <2>3. CASE Ask(w)
      BY <2>3, AskFill
    <2>4. CASE Finish(w) \/ GiveUp(w) \/ Escalate(w)
      BY <2>4, ReportFill
    <2>5. CASE Beat(w)
      BY <2>5, BeatFill
    <2>6. CASE Crash(w)
      <3>1. UNCHANGED jobs /\ UNCHANGED exchangeVars /\ Becomes(w, Idle)
        BY <2>6 DEF Crash, queueVars
      <3>2. Carries
        BY <3>1, CarriesSame
      <3> QED
        BY <3>1, <3>2, OneWork, QueueStep DEF Becomes, Idle
    <2> QED
      BY <1>2, <2>1, <2>2, <2>3, <2>4, <2>5, <2>6 DEF Step
  <1>3. CASE Restart
    <2>1. jobs' = <<>> /\ worker' = [w \in Workers |-> Idle] /\ UNCHANGED exchangeVars
      BY <1>3 DEF Restart
    <2>2. ExchangeInv'
      BY <2>1, ExchangeSame DEF FillInv
    <2> QED
      BY <2>1, <2>2 DEF WorkInv, Idle
  <1>4. CASE Recover \/ Tick
    BY <1>4, SweepFill
  <1>5. CASE UNCHANGED vars
    <2>1. UNCHANGED jobs /\ UNCHANGED exchangeVars /\ UNCHANGED worker
      BY <1>5 DEF vars, queueVars
    <2>2. Carries
      BY <2>1, CarriesSame
    <2> QED
      BY <2>1, <2>2, QueueStep
  <1> QED
    BY <1>1, <1>2, <1>3, <1>4, <1>5 DEF Next

(* Jobs, workers, orders and position correspond in every reachable state. *)
THEOREM FillInductive == Spec => []FillInv
  BY InitFillInv, NextFillInv, PTL DEF Spec

(* A job is COMPLETED only if the exchange has executed its order          *)
(* (queue/memory.py 83-91 under mock.py 120-162), whatever was lost.       *)
THEOREM CompletedCorrect == Spec => []CompletedMeansFilled
  <1>1. FillInv => CompletedMeansFilled
    BY DEF FillInv, WorkInv, ExchangeInv, Placed, CompletedMeansFilled
  <1> QED
    BY <1>1, FillInductive, PTL

(* Exactly once (ARCHITECTURE.md principle 7): the position is one unit    *)
(* for every trade whose order reached the exchange, never two, over       *)
(* retries, takeovers, crashes, restarts and lost answers.                 *)
THEOREM OneFillCorrect == Spec => []OneFillPerTrade
  <1>1. ASSUME ExchangeInv PROVE OneFillPerTrade
    <2>1. CASE Placed = {}
      BY <1>1, <2>1, FS_EmptySet
         DEF ExchangeInv, OneFillPerTrade, X!HeldQuantity, Quantity, Placed
    <2>2. CASE Placed # {}
      <3>1. Cardinality(Placed) \in Nat /\ position[Symbol] = Held(Cardinality(Placed))
        BY <1>1, <2>2, FS_CardinalityType DEF ExchangeInv
      <3>2. Held(Cardinality(Placed)) # NoPosition
        BY <3>1 DEF Held, X!Position, X!Fraction, X!Whole
      <3>3. X!HeldQuantity(Symbol) = Cardinality(Placed)
        BY <3>1, <3>2 DEF X!HeldQuantity, Held
      <3> QED
        BY <3>1, <3>3 DEF OneFillPerTrade, Quantity, Placed
    <2> QED
      BY <2>1, <2>2
  <1>2. FillInv => OneFillPerTrade
    BY <1>1 DEF FillInv
  <1> QED
    BY <1>2, FillInductive, PTL
=============================================================================
