--------------------------- MODULE DemoApiProofs ----------------------------
(***************************************************************************)
(* The start-up gate, for any environments, changes to them, launches and  *)
(* requests: what serves was checked, and what is reported stays.          *)
(*                                                                         *)
(* The queue behind the end points, for any callers, names and leases: a   *)
(* caller that still has a job is the one it was granted to, or the job    *)
(* was taken from an expired lease; and a process completes a client id at *)
(* most once, because one job has it and a completed job has no owner.     *)
(***************************************************************************)
EXTENDS DemoApi, TLAPS

USE EnvironmentAssumption

(* The process and its cache: settings are read while there is a process,  *)
(* and were found safe before it serves.                                   *)
Gate ==
    /\ process \in {"off", "starting", "serving"}
    /\ env \in Environments
    /\ settings \in Environments \cup {NotRead}
    /\ settings = NotRead <=> process = "off"
    /\ process = "serving" => require_safe_mode(settings)

LEMMA InitGate == Init => Gate
  BY DEF Init, Gate

(* Requests and time leave the process alone.                              *)
LEMMA SameGate ==
    ASSUME Gate, UNCHANGED processVars
    PROVE  Gate' /\ (process # "off" => settings' = settings)
  BY DEF Gate, processVars, require_safe_mode

LEMMA NextGate ==
    ASSUME Gate, [Next]_vars
    PROVE  Gate' /\ (process # "off" /\ process' # "off" => settings' = settings)
  <1>1. ASSUME NEW e \in Environments, SetEnvironment(e)
        PROVE  Gate' /\ settings' = settings
    BY <1>1 DEF SetEnvironment, Gate, require_safe_mode
  <1>2. CASE Launch
    BY <1>2 DEF Launch, Gate, get_settings
  <1>3. CASE Lifespan
    BY <1>3 DEF Lifespan, Gate, get_settings, require_safe_mode
  <1>4. CASE Stop
    BY <1>4 DEF Stop, Gate
  <1>5. CASE \E id \in ClientIds \cup {NoId} : queue_enqueue(id)
    BY <1>5, SameGate DEF queue_enqueue, Serving
  <1>6. ASSUME NEW c \in Callers, queue_claim(c) \/ queue_complete(c) \/ queue_fail(c)
        PROVE  UNCHANGED processVars
    BY <1>6 DEF queue_claim, queue_complete, queue_fail, Report, Serving
  <1>7. CASE Tick
    BY <1>7, SameGate DEF Tick
  <1>8. CASE UNCHANGED vars
    BY <1>8, SameGate DEF vars
  <1> QED
    BY <1>1, <1>2, <1>3, <1>4, <1>5, <1>6, <1>7, <1>8, SameGate DEF Next

(* The process and its settings correspond in every reachable state.       *)
THEOREM GateInductive == Spec => []Gate
  BY InitGate, NextGate, PTL DEF Spec

(* Nothing serves LIVE without the flag (config/settings.py 22-27,         *)
(* main.py 17-30), though the environment changes at any time.             *)
THEOREM CheckedCorrect == Spec => []ServesAsChecked
  <1>1. Gate => ServesAsChecked
    BY DEF Gate, ServesAsChecked, get_settings, require_safe_mode,
           is_live_allowed
  <1> QED
    BY <1>1, GateInductive, PTL

(* The live gate that is reported is the same as long as a process lives   *)
(* (config/settings.py 29-31, api/health.py 51-75).                        *)
THEOREM GateCorrect == Spec => GateFixed
  <1>1. ASSUME Gate, [Next]_vars, process # "off", process' # "off"
        PROVE  is_live_allowed(get_settings)' = is_live_allowed(get_settings)
    <2>1. settings # NotRead /\ settings' = settings
      BY <1>1, NextGate DEF Gate
    <2>2. get_settings' = settings' /\ get_settings = settings
      BY <2>1 DEF get_settings
    <2> QED
      BY <2>1, <2>2 DEF is_live_allowed
  <1> QED
    BY <1>1, GateInductive, PTL DEF Spec, GateFixed
-----------------------------------------------------------------------------
(* The queue and its callers.                                              *)

(* A job and what a caller knows, with the fields the argument reads.      *)
JobRecord ==
    [coid : ClientIds \cup {NoId}, max : {MaxAttempts}, status : Q!Statuses,
     attempt : Int, owner : Names \cup {NoName}, lease : Int \cup {NoLease}]

CallerRecord == [job : Nat, left : Int]

Types ==
    /\ jobs \in Seq(JobRecord)
    /\ lapses \in Seq(Nat) /\ Len(lapses) = Len(jobs)
    /\ grantee \in Seq(Callers \cup {Nobody}) /\ Len(grantee) = Len(jobs)
    /\ caller \in [Callers -> CallerRecord]
    /\ overruler \in [Callers -> Callers \cup {Nobody}]

(* Job j of queue q is claimed, and was granted last to caller c.          *)
GrantedTo(c, j, q, g) ==
    q[j].status = "CLAIMED" /\ q[j].owner = NameOf[c] /\ g[j] = c

(* What caller c in state s may rely on, if it was overruled by o, the     *)
(* queue is q, with the lapses l, and its jobs were granted to g.  A caller *)
(* that still has a job either is the one it was granted to, or the job    *)
(* has been taken from an expired lease.                                   *)
Sound(c, s, o, q, l, g) ==
    /\ s.job # 0 => /\ s.job \in DOMAIN q
                    /\ GrantedTo(c, s.job, q, g) \/ l[s.job] > 0
    /\ s.job = 0 => o = Nobody
    /\ s.left >= 0 =>
         /\ s.job # 0
         /\ IF o = Nobody THEN GrantedTo(c, s.job, q, g) /\ q[s.job].lease = s.left
                          ELSE NameOf[o] = NameOf[c] /\ l[s.job] > 0

SoundNow(c) == Sound(c, caller[c], overruler[c], jobs, lapses, grantee)

Held == Types /\ Q!HeldIffClaimed /\ \A c \in Callers : SoundNow(c)

(* The job that carries a client id has been completed.                    *)
CompletedNow(id) ==
    \E j \in DOMAIN jobs : jobs[j].coid = id /\ jobs[j].status = "COMPLETED"

(* A process completes a client id once, by completing the job that has it. *)
Counted ==
    /\ starts \in Nat /\ completed \in [ClientIds -> Nat]
    /\ \A id \in ClientIds :
          /\ completed[id] <= starts
          /\ process # "off" => completed[id] <= starts - 1 \/ CompletedNow(id)
    /\ process # "serving" => jobs = <<>>
    /\ Q!ClientIdUnique

(* The queue's updates take jobs to jobs, which have an owner and a lease  *)
(* exactly while they are claimed.                                         *)
Whole(job) ==
    /\ job \in JobRecord
    /\ job.status = "CLAIMED" <=> job.owner # NoName
    /\ job.status = "CLAIMED" <=> job.lease # NoLease

LEMMA UpdateWhole ==
    ASSUME NEW job, Whole(job)
    PROVE  /\ \A n \in Names :
                 /\ Whole(Q!Granted(job, n, LeaseSeconds))
                 /\ Q!Granted(job, n, LeaseSeconds).status = "CLAIMED"
                 /\ Q!Granted(job, n, LeaseSeconds).owner = n
                 /\ Q!Granted(job, n, LeaseSeconds).lease = LeaseSeconds
                 /\ Q!Granted(job, n, LeaseSeconds).coid = job.coid
           /\ \A st \in Q!Statuses \ {"CLAIMED"} :
                 /\ Whole(Q!Released(job, st))
                 /\ Q!Released(job, st).status = st
                 /\ Q!Released(job, st).coid = job.coid
           /\ Q!AfterFail(job) \in Q!Statuses \ {"CLAIMED"}
           /\ Whole(Q!Aged(job))
           /\ Q!Aged(job).status = job.status
           /\ Q!Aged(job).owner = job.owner
           /\ Q!Aged(job).coid = job.coid
           /\ \A t \in Nat : job.lease = t => Q!Aged(job).lease = t - 1
  <1>0. job \in JobRecord
    BY DEF Whole
  <1>1. ASSUME NEW n \in Names
        PROVE  /\ Whole(Q!Granted(job, n, LeaseSeconds))
               /\ Q!Granted(job, n, LeaseSeconds).status = "CLAIMED"
               /\ Q!Granted(job, n, LeaseSeconds).owner = n
               /\ Q!Granted(job, n, LeaseSeconds).lease = LeaseSeconds
               /\ Q!Granted(job, n, LeaseSeconds).coid = job.coid
    <2>1. Q!Bump(job.attempt) \in Int
      BY <1>0, QueueAssumption DEF Q!Bump, JobRecord
    <2>2. "CLAIMED" \in Q!Statuses /\ LeaseSeconds \in Int
      BY QueueAssumption DEF Q!Statuses
    <2>4. \A a \in Int :
             [job EXCEPT !.status = "CLAIMED", !.owner = n,
                         !.lease = LeaseSeconds, !.attempt = a] \in JobRecord
      BY <1>0, <2>2 DEF JobRecord
    <2>5. /\ Q!Granted(job, n, LeaseSeconds) \in JobRecord
          /\ Q!Granted(job, n, LeaseSeconds).status = "CLAIMED"
          /\ Q!Granted(job, n, LeaseSeconds).owner = n
          /\ Q!Granted(job, n, LeaseSeconds).lease = LeaseSeconds
          /\ Q!Granted(job, n, LeaseSeconds).coid = job.coid
      BY <1>0, <2>1, <2>4 DEF Q!Granted, JobRecord
    <2>3. n # NoName /\ LeaseSeconds # NoLease
      BY CallerAssumption, QueueAssumption
    <2> QED
      BY <2>3, <2>5 DEF Whole
  <1>2. ASSUME NEW st \in Q!Statuses \ {"CLAIMED"}
        PROVE  /\ Whole(Q!Released(job, st))
               /\ Q!Released(job, st).status = st
               /\ Q!Released(job, st).coid = job.coid
    BY <1>0 DEF Q!Released, JobRecord, Whole
  <1>3. Q!AfterFail(job) \in Q!Statuses \ {"CLAIMED"}
    BY DEF Q!AfterFail, Q!Statuses
  <1>4. CASE job.lease = NoLease \/ job.lease < 0
    <2>1. Q!Aged(job) = job
      BY <1>4 DEF Q!Aged
    <2>2. \A t \in Nat : job.lease # t
      BY <1>4, QueueAssumption
    <2> QED
      BY <1>1, <1>2, <1>3, <2>1, <2>2
  <1>5. CASE ~(job.lease = NoLease \/ job.lease < 0)
    <2>1. Q!Aged(job) = [job EXCEPT !.lease = job.lease - 1]
      BY <1>5 DEF Q!Aged
    <2>2. job.lease - 1 \in Int /\ job.lease - 1 # NoLease
      BY <1>0, <1>5, QueueAssumption DEF JobRecord
    <2>3. /\ Q!Aged(job) \in JobRecord
          /\ Q!Aged(job).status = job.status
          /\ Q!Aged(job).owner = job.owner
          /\ Q!Aged(job).coid = job.coid
          /\ Q!Aged(job).lease = job.lease - 1
      BY <1>0, <2>1, <2>2 DEF JobRecord
    <2>4. Whole(Q!Aged(job))
      BY <1>5, <2>2, <2>3 DEF Whole
    <2> QED
      BY <1>1, <1>2, <1>3, <2>3, <2>4
  <1> QED
    BY <1>4, <1>5

LEMMA JobWhole ==
    ASSUME Held, NEW j \in DOMAIN jobs
    PROVE  Whole(jobs[j])
  BY DEF Held, Types, Whole, Q!HeldIffClaimed

(* Replacing one job by a whole one keeps the jobs whole.                  *)
LEMMA OneJob ==
    ASSUME Types, Q!HeldIffClaimed, NEW j \in DOMAIN jobs, NEW job, Whole(job),
           jobs' = [jobs EXCEPT ![j] = job]
    PROVE  /\ jobs' \in Seq(JobRecord) /\ Len(jobs') = Len(jobs)
           /\ DOMAIN jobs' = DOMAIN jobs
           /\ jobs'[j] = job /\ \A i \in DOMAIN jobs \ {j} : jobs'[i] = jobs[i]
           /\ Q!HeldIffClaimed'
  <1>1. /\ jobs' \in Seq(JobRecord) /\ Len(jobs') = Len(jobs)
        /\ DOMAIN jobs' = DOMAIN jobs
        /\ jobs'[j] = job /\ \A i \in DOMAIN jobs \ {j} : jobs'[i] = jobs[i]
    BY DEF Types, Whole
  <1>2. Q!HeldIffClaimed'
    BY <1>1 DEF Q!HeldIffClaimed, Whole
  <1> QED
    BY <1>1, <1>2

(* What a caller relies on stays, if its job, the grant of it, and what    *)
(* others reported, do, and lapses only grow.                              *)
LEMMA SameSound ==
    ASSUME Held, NEW c \in Callers, DOMAIN jobs \subseteq DOMAIN jobs',
           caller'[c] = caller[c], overruler'[c] = overruler[c],
           caller[c].job \in DOMAIN jobs =>
              /\ jobs'[caller[c].job] = jobs[caller[c].job]
              /\ grantee'[caller[c].job] = grantee[caller[c].job]
              /\ lapses[caller[c].job] > 0 => lapses'[caller[c].job] > 0
    PROVE  SoundNow(c)'
  <1>1. SoundNow(c)
    BY DEF Held
  <1>2. caller[c].job # 0 => caller[c].job \in DOMAIN jobs
    BY <1>1 DEF SoundNow, Sound
  <1> QED
    BY <1>1, <1>2 DEF SoundNow, Sound, GrantedTo

(* A lapse is never forgotten, and one more is at least one.               *)
LEMMA BumpGrows ==
    ASSUME NEW n \in Nat
    PROVE  Q!Bump(n) \in Nat /\ Q!Bump(n) > 0
  BY QueueAssumption DEF Q!Bump

LEMMA InitHeld == Init => Held
  <1> SUFFICES ASSUME Init PROVE Held
    OBVIOUS
  <1>1. /\ jobs = <<>> /\ lapses = <<>> /\ grantee = <<>>
        /\ caller = [c \in Callers |-> Idle]
        /\ overruler = [c \in Callers |-> Nobody]
    BY DEF Init, Q!Init
  <1>2. Types
    BY <1>1 DEF Types, Idle, CallerRecord
  <1>3. Q!HeldIffClaimed
    BY <1>1 DEF Q!HeldIffClaimed
  <1>4. ASSUME NEW c \in Callers PROVE SoundNow(c)
    BY <1>1 DEF SoundNow, Sound, Idle
  <1> QED
    BY <1>2, <1>3, <1>4 DEF Held

(* With the process the queue and all claims are gone.                     *)
LEMMA StopHeld ==
    ASSUME Stop
    PROVE  Held'
  <1>1. /\ jobs' = <<>> /\ lapses' = <<>> /\ grantee' = <<>>
        /\ caller' = [c \in Callers |-> Idle]
        /\ overruler' = [c \in Callers |-> Nobody]
    BY DEF Stop
  <1>2. Types'
    BY <1>1 DEF Types, Idle, CallerRecord
  <1>3. Q!HeldIffClaimed'
    BY <1>1 DEF Q!HeldIffClaimed
  <1>4. ASSUME NEW c \in Callers PROVE SoundNow(c)'
    BY <1>1 DEF SoundNow, Sound, Idle
  <1> QED
    BY <1>2, <1>3, <1>4 DEF Held

LEMMA EnqueueHeld ==
    ASSUME Held, NEW id \in ClientIds \cup {NoId}, queue_enqueue(id)
    PROVE  Held'
  <1> DEFINE job == Q!NewJob(id, MaxAttempts)
  <1>1. Whole(job)
    BY DEF Q!NewJob, JobRecord, Q!Statuses, Whole
  <1>2. /\ jobs' = Append(jobs, job) /\ lapses' = Append(lapses, 0)
        /\ grantee' = Append(grantee, Nobody)
        /\ UNCHANGED <<caller, overruler>>
    BY DEF queue_enqueue, Q!Enqueue
  <1> HIDE DEF job
  <1>3. /\ jobs' \in Seq(JobRecord) /\ Len(jobs') = Len(jobs) + 1
        /\ DOMAIN jobs \subseteq DOMAIN jobs'
        /\ \A j \in DOMAIN jobs : jobs'[j] = jobs[j]
        /\ \A j \in DOMAIN jobs' \ DOMAIN jobs : jobs'[j] = job
    BY <1>1, <1>2 DEF Held, Types, Whole
  <1>4. /\ lapses' \in Seq(Nat) /\ Len(lapses') = Len(jobs')
        /\ \A j \in DOMAIN jobs : lapses'[j] = lapses[j]
    BY <1>2, <1>3 DEF Held, Types
  <1>5. /\ grantee' \in Seq(Callers \cup {Nobody}) /\ Len(grantee') = Len(jobs')
        /\ \A j \in DOMAIN jobs : grantee'[j] = grantee[j]
    BY <1>2, <1>3 DEF Held, Types
  <1>6. Types'
    BY <1>2, <1>3, <1>4, <1>5 DEF Held, Types
  <1>7. Q!HeldIffClaimed'
    BY <1>1, <1>3 DEF Held, Q!HeldIffClaimed, Whole
  <1>8. ASSUME NEW c \in Callers PROVE SoundNow(c)'
    BY <1>2, <1>3, <1>4, <1>5, SameSound
  <1> QED
    BY <1>6, <1>7, <1>8 DEF Held

(* A claim gives the caller the job, if it hears of it; whoever had the    *)
(* job before held a lease that has run out, now or earlier.               *)
LEMMA ClaimHeld ==
    ASSUME Held, NEW c \in Callers, queue_claim(c)
    PROVE  Held'
  <1>1. PICK j \in DOMAIN jobs :
           /\ Q!Claim(j, NameOf[c], LeaseSeconds)
           /\ grantee' = [grantee EXCEPT ![j] = c]
           /\ \/ caller' = [caller EXCEPT ![c] = [job |-> j, left |-> LeaseSeconds]]
              \/ UNCHANGED caller
    BY DEF queue_claim
  <1> DEFINE job == Q!Granted(jobs[j], NameOf[c], LeaseSeconds)
  <1>2. /\ Q!Claimable(jobs[j])
        /\ jobs' = [jobs EXCEPT ![j] = job]
        /\ lapses' = [lapses EXCEPT ![j] = IF Q!Expired(jobs[j])
                                           THEN Q!Bump(lapses[j])
                                           ELSE lapses[j]]
    BY <1>1 DEF Q!Claim, Q!FirstClaimable
  <1>3. caller[c].job = 0 /\ caller[c].left = -1 /\ overruler' = overruler
    BY DEF queue_claim, Idle
  <1>4. NameOf[c] \in Names
    BY CallerAssumption
  <1>5. /\ Whole(job) /\ job.status = "CLAIMED" /\ job.owner = NameOf[c]
        /\ job.lease = LeaseSeconds
    BY <1>4, JobWhole, UpdateWhole
  <1> HIDE DEF job
  <1>6. /\ jobs' \in Seq(JobRecord) /\ Len(jobs') = Len(jobs)
        /\ DOMAIN jobs' = DOMAIN jobs
        /\ jobs'[j] = job /\ \A i \in DOMAIN jobs \ {j} : jobs'[i] = jobs[i]
        /\ Q!HeldIffClaimed'
    BY <1>2, <1>5, OneJob DEF Held
  <1>7. /\ lapses' \in Seq(Nat) /\ Len(lapses') = Len(lapses)
        /\ \A i \in DOMAIN jobs \ {j} : lapses'[i] = lapses[i]
        /\ lapses[j] > 0 => lapses'[j] > 0
        /\ Q!Expired(jobs[j]) => lapses'[j] > 0
    <2>1. lapses[j] \in Nat /\ j \in DOMAIN lapses
      BY DEF Held, Types
    <2>2. PICK n \in Nat : /\ lapses' = [lapses EXCEPT ![j] = n]
                           /\ lapses[j] > 0 => n > 0
                           /\ Q!Expired(jobs[j]) => n > 0
      BY <1>2, <2>1, BumpGrows
    <2> QED
      BY <2>1, <2>2 DEF Held, Types
  <1>8. /\ grantee' \in Seq(Callers \cup {Nobody}) /\ Len(grantee') = Len(grantee)
        /\ grantee'[j] = c
        /\ \A i \in DOMAIN jobs \ {j} : grantee'[i] = grantee[i]
    BY <1>1 DEF Held, Types
  <1>9. caller' \in [Callers -> CallerRecord]
    <2>1. [job |-> j, left |-> LeaseSeconds] \in CallerRecord
      BY QueueAssumption DEF Held, Types, CallerRecord
    <2> QED
      BY <1>1, <2>1 DEF Held, Types
  <1>10. Types'
    BY <1>3, <1>6, <1>7, <1>8, <1>9 DEF Held, Types
  <1>11. ASSUME NEW d \in Callers, caller'[d] = caller[d]
         PROVE  SoundNow(d)'
    <2>1. SoundNow(d)
      BY DEF Held
    <2>2. CASE caller[d].job = j
      <3>1. /\ jobs[j].status = "CLAIMED" => lapses'[j] > 0
            /\ lapses[j] > 0 => lapses'[j] > 0
        BY <1>2, <1>7 DEF Q!Claimable
      <3>2. j # 0
        BY DEF Held, Types
      <3>3. lapses'[j] > 0
        BY <2>1, <2>2, <3>1, <3>2 DEF SoundNow, Sound, GrantedTo
      <3>4. caller[d].left >= 0 =>
               overruler[d] # Nobody /\ NameOf[overruler[d]] = NameOf[d]
        <4>1. ~(/\ caller[d].left >= 0 /\ jobs[j].status = "CLAIMED"
                /\ jobs[j].lease = caller[d].left)
          BY <1>2 DEF Q!Claimable, Q!Expired, Held, Types, CallerRecord
        <4> QED
          BY <2>1, <2>2, <4>1 DEF SoundNow, Sound, GrantedTo
      <3> QED
        BY <1>3, <1>6, <1>11, <2>2, <3>2, <3>3, <3>4 DEF SoundNow, Sound
    <2>3. CASE caller[d].job # j
      BY <1>3, <1>6, <1>7, <1>8, <1>11, <2>3, SameSound
    <2> QED
      BY <2>2, <2>3
  <1>12. ASSUME NEW d \in Callers PROVE SoundNow(d)'
    <2>1. CASE caller'[d] = caller[d]
      BY <1>11, <2>1
    <2>2. CASE caller'[d] # caller[d]
      <3>1. d = c /\ caller'[d] = [job |-> j, left |-> LeaseSeconds]
        BY <1>1, <2>2 DEF Held, Types
      <3>2. overruler'[c] = Nobody
        BY <1>3 DEF Held, SoundNow, Sound
      <3>3. j # 0 /\ j \in DOMAIN jobs'
        BY <1>6 DEF Held, Types
      <3> QED
        BY <1>5, <1>6, <1>8, <3>1, <3>2, <3>3 DEF SoundNow, Sound, GrantedTo
    <2> QED
      BY <2>1, <2>2
  <1> QED
    BY <1>6, <1>10, <1>12 DEF Held

(* Who is overruled if the report of caller c is accepted.                 *)
OverrulerAfter(c) ==
    [d \in Callers |->
       CASE d = c -> Nobody
         [] d \in {e \in Callers \ {c} : /\ caller[e].job = caller[c].job
                                         /\ caller[e].left >= 0
                                         /\ overruler[e] = Nobody} -> c
         [] OTHER -> overruler[d]]

(* A report that is accepted settles or returns the job: it came from the  *)
(* caller of the owner's name, and any other with the job had a lease that *)
(* lapsed, or is overruled by a caller that had one.                       *)
LEMMA AcceptedHeld ==
    ASSUME Held, NEW c \in Callers, NEW st \in Q!Statuses \ {"CLAIMED"},
           caller[c].job # 0, Q!Owns(caller[c].job, NameOf[c]),
           jobs' = [jobs EXCEPT ![caller[c].job] = Q!Released(jobs[caller[c].job], st)],
           lapses' = lapses,
           caller' = [caller EXCEPT ![c] = Idle],
           grantee' = [grantee EXCEPT ![caller[c].job] = Nobody],
           overruler' = OverrulerAfter(c)
    PROVE  Held'
  <1> DEFINE j == caller[c].job
  <1>1. j \in DOMAIN jobs
    BY DEF Held, SoundNow, Sound
  <1> DEFINE job == Q!Released(jobs[j], st)
  <1>2. Whole(job)
    BY <1>1, JobWhole, UpdateWhole
  <1> HIDE DEF job
  <1>3. /\ jobs' \in Seq(JobRecord) /\ Len(jobs') = Len(jobs)
        /\ DOMAIN jobs' = DOMAIN jobs
        /\ \A i \in DOMAIN jobs \ {j} : jobs'[i] = jobs[i]
        /\ Q!HeldIffClaimed'
    BY <1>1, <1>2, OneJob DEF Held, job
  <1>4. /\ grantee' \in Seq(Callers \cup {Nobody}) /\ Len(grantee') = Len(grantee)
        /\ \A i \in DOMAIN jobs \ {j} : grantee'[i] = grantee[i]
    BY <1>1 DEF Held, Types
  <1>5. /\ caller' \in [Callers -> CallerRecord]
        /\ caller'[c] = Idle
        /\ \A d \in Callers \ {c} : caller'[d] = caller[d]
    BY DEF Held, Types, CallerRecord, Idle
  <1>6. /\ overruler' \in [Callers -> Callers \cup {Nobody}]
        /\ overruler'[c] = Nobody
        /\ \A d \in Callers \ {c} :
              overruler'[d] = IF /\ caller[d].job = j /\ caller[d].left >= 0
                                 /\ overruler[d] = Nobody
                              THEN c ELSE overruler[d]
    BY DEF Held, Types, OverrulerAfter
  <1>7. Types'
    BY <1>3, <1>4, <1>5, <1>6 DEF Held, Types
  <1>8. SoundNow(c)'
    BY <1>5, <1>6 DEF SoundNow, Sound, Idle
  <1>9. ASSUME NEW d \in Callers \ {c} PROVE SoundNow(d)'
    <2>1. SoundNow(d) /\ SoundNow(c)
      BY DEF Held
    <2>2. CASE caller[d].job = j
      <3>1. lapses[j] > 0
        BY <2>1, <2>2, CallerAssumption DEF SoundNow, Sound, GrantedTo
      <3>2. /\ caller[d].left >= 0 /\ overruler[d] = Nobody
               => overruler'[d] = c /\ NameOf[c] = NameOf[d]
            /\ overruler'[d] \in {c, overruler[d]}
            /\ ~(caller[d].left >= 0 /\ overruler[d] = Nobody)
               => overruler'[d] = overruler[d]
        BY <1>6, <2>1, <2>2 DEF SoundNow, Sound, GrantedTo, Q!Owns
      <3>3. caller[d].left >= 0 =>
               /\ overruler'[d] # Nobody
               /\ NameOf[overruler'[d]] = NameOf[d]
        BY <2>1, <3>2, CallerAssumption DEF SoundNow, Sound
      <3> QED
        BY <1>1, <1>3, <1>5, <2>2, <3>1, <3>3 DEF SoundNow, Sound
    <2>3. CASE caller[d].job # j
      <3>1. overruler'[d] = overruler[d]
        BY <1>6, <2>3
      <3> QED
        BY <1>3, <1>4, <1>5, <2>3, <3>1, SameSound
    <2> QED
      BY <2>2, <2>3
  <1> QED
    BY <1>3, <1>7, <1>8, <1>9 DEF Held

LEMMA RefusedHeld ==
    ASSUME Held, NEW c \in Callers, UNCHANGED <<queueVars, grantee>>,
           caller' = [caller EXCEPT ![c] = Idle],
           overruler' = [overruler EXCEPT ![c] = Nobody]
    PROVE  Held'
  <1>1. Types' /\ Q!HeldIffClaimed'
    BY DEF Held, Types, CallerRecord, Idle, queueVars, Q!HeldIffClaimed
  <1>2. SoundNow(c)'
    BY DEF SoundNow, Sound, Idle, Held, Types
  <1>3. ASSUME NEW d \in Callers \ {c} PROVE SoundNow(d)'
    <2>1. caller'[d] = caller[d] /\ overruler'[d] = overruler[d]
      BY DEF Held, Types
    <2> QED
      BY <2>1, SameSound DEF queueVars
  <1> QED
    BY <1>1, <1>2, <1>3 DEF Held

LEMMA CompleteHeld ==
    ASSUME Held, NEW c \in Callers, queue_complete(c)
    PROVE  Held'
  <1>1. CASE Q!Complete(caller[c].job, NameOf[c])
    <2>1. Q!Owns(caller[c].job, NameOf[c])
      BY <1>1 DEF Q!Complete
    <2>2. /\ caller[c].job # 0
          /\ caller' = [caller EXCEPT ![c] = Idle]
          /\ grantee' = [grantee EXCEPT ![caller[c].job] = Nobody]
          /\ overruler' = OverrulerAfter(c)
      BY <2>1 DEF queue_complete, Report, OverrulerAfter
    <2>3. "COMPLETED" \in Q!Statuses \ {"CLAIMED"}
      BY DEF Q!Statuses
    <2> QED
      BY <1>1, <2>1, <2>2, <2>3, AcceptedHeld DEF Q!Complete
  <1>2. CASE ~Q!Owns(caller[c].job, NameOf[c])
    BY <1>2, RefusedHeld DEF queue_complete, Report, Q!Complete
  <1> QED
    BY <1>1, <1>2 DEF queue_complete, Report

LEMMA FailHeld ==
    ASSUME Held, NEW c \in Callers, queue_fail(c)
    PROVE  Held'
  <1>1. CASE Q!Fail(caller[c].job, NameOf[c])
    <2>1. caller[c].job \in DOMAIN jobs
      BY DEF queue_fail, Report, Held, SoundNow, Sound
    <2>2. Q!AfterFail(jobs[caller[c].job]) \in Q!Statuses \ {"CLAIMED"}
      BY <2>1, JobWhole, UpdateWhole
    <2>3. Q!Owns(caller[c].job, NameOf[c])
      BY <1>1 DEF Q!Fail
    <2>4. /\ caller[c].job # 0
          /\ caller' = [caller EXCEPT ![c] = Idle]
          /\ grantee' = [grantee EXCEPT ![caller[c].job] = Nobody]
          /\ overruler' = OverrulerAfter(c)
      BY <2>3 DEF queue_fail, Report, OverrulerAfter
    <2> QED
      BY <1>1, <2>2, <2>3, <2>4, AcceptedHeld DEF Q!Fail
  <1>2. CASE ~Q!Owns(caller[c].job, NameOf[c])
    BY <1>2, RefusedHeld DEF queue_fail, Report, Q!Fail
  <1> QED
    BY <1>1, <1>2 DEF queue_fail, Report

(* A second takes the same from a lease and from what its holder counts.   *)
LEMMA TickHeld ==
    ASSUME Held, Tick
    PROVE  Held'
  <1>1. /\ jobs' = [j \in DOMAIN jobs |-> Q!Aged(jobs[j])] /\ lapses' = lapses
        /\ caller' = [c \in Callers |->
                        IF caller[c].left < 0 THEN caller[c]
                        ELSE [caller[c] EXCEPT !.left = @ - 1]]
        /\ grantee' = grantee /\ overruler' = overruler
    BY DEF Tick, Q!Tick, history
  <1>2. \A j \in DOMAIN jobs : Whole(Q!Aged(jobs[j]))
    BY JobWhole, UpdateWhole
  <1>3. /\ jobs' \in Seq(JobRecord) /\ Len(jobs') = Len(jobs)
        /\ DOMAIN jobs' = DOMAIN jobs
        /\ \A j \in DOMAIN jobs : jobs'[j] = Q!Aged(jobs[j])
    BY <1>1, <1>2 DEF Held, Types, Whole
  <1>4. Q!HeldIffClaimed'
    BY <1>2, <1>3 DEF Q!HeldIffClaimed, Whole
  <1>5. ASSUME NEW c \in Callers
        PROVE  /\ caller'[c] \in CallerRecord /\ caller'[c].job = caller[c].job
               /\ caller'[c].left >= 0 => /\ caller[c].left >= 0
                                          /\ caller'[c].left = caller[c].left - 1
    <2>1. caller[c] \in CallerRecord /\ caller[c].left \in Int
      BY DEF Held, Types, CallerRecord
    <2>2. [caller[c] EXCEPT !.left = @ - 1] \in CallerRecord
      BY <2>1 DEF CallerRecord
    <2>3. caller'[c] = IF caller[c].left < 0 THEN caller[c]
                       ELSE [caller[c] EXCEPT !.left = @ - 1]
      BY <1>1
    <2> QED
      BY <2>1, <2>2, <2>3 DEF CallerRecord
  <1>6. caller' \in [Callers -> CallerRecord]
    BY <1>1, <1>5
  <1>7. Types'
    BY <1>1, <1>3, <1>6 DEF Held, Types
  <1>8. ASSUME NEW c \in Callers PROVE SoundNow(c)'
    <2>1. SoundNow(c) /\ caller[c] \in CallerRecord
      BY DEF Held, Types
    <2>2. ASSUME NEW j \in DOMAIN jobs
          PROVE  /\ jobs'[j].status = jobs[j].status
                 /\ jobs'[j].owner = jobs[j].owner
                 /\ \A t \in Nat : jobs[j].lease = t => jobs'[j].lease = t - 1
      BY <1>3, JobWhole, UpdateWhole
    <2>3. caller'[c].job # 0 =>
             /\ caller'[c].job \in DOMAIN jobs'
             /\ \/ GrantedTo(c, caller'[c].job, jobs', grantee')
                \/ lapses'[caller'[c].job] > 0
      BY <1>1, <1>3, <1>5, <2>1, <2>2 DEF SoundNow, Sound, GrantedTo
    <2>4. ASSUME caller'[c].left >= 0
          PROVE  /\ caller'[c].job # 0
                 /\ IF overruler'[c] = Nobody
                    THEN /\ GrantedTo(c, caller'[c].job, jobs', grantee')
                         /\ jobs'[caller'[c].job].lease = caller'[c].left
                    ELSE /\ NameOf[overruler'[c]] = NameOf[c]
                         /\ lapses'[caller'[c].job] > 0
      <3>1. /\ caller[c].left \in Nat /\ caller'[c].left = caller[c].left - 1
            /\ caller[c].job # 0 /\ caller[c].job \in DOMAIN jobs
        BY <1>5, <2>1, <2>4 DEF SoundNow, Sound, CallerRecord
      <3> QED
        BY <1>1, <1>5, <2>1, <2>2, <3>1 DEF SoundNow, Sound, GrantedTo
    <2> QED
      BY <1>1, <1>5, <2>1, <2>3, <2>4 DEF SoundNow, Sound
  <1> QED
    BY <1>4, <1>7, <1>8 DEF Held

(* The process and its environment do not touch the queue.                 *)
LEMMA SameHeld ==
    ASSUME Held, UNCHANGED <<queueVars, caller, grantee, overruler>>
    PROVE  Held'
  BY DEF Held, Types, Q!HeldIffClaimed, SoundNow, queueVars

LEMMA NextHeld ==
    ASSUME Held, [Next]_vars
    PROVE  Held'
  <1>1. ASSUME NEW e \in Environments, SetEnvironment(e)
        PROVE  Held'
    BY <1>1, SameHeld DEF SetEnvironment, history
  <1>2. CASE Launch \/ Lifespan \/ UNCHANGED vars
    BY <1>2, SameHeld DEF Launch, Lifespan, vars, history
  <1>3. CASE Stop
    BY <1>3, StopHeld
  <1>4. CASE \E id \in ClientIds \cup {NoId} : queue_enqueue(id)
    BY <1>4, EnqueueHeld
  <1>5. ASSUME NEW c \in Callers, queue_claim(c) \/ queue_complete(c) \/ queue_fail(c)
        PROVE  Held'
    BY <1>5, ClaimHeld, CompleteHeld, FailHeld
  <1>6. CASE Tick
    BY <1>6, TickHeld
  <1> QED
    BY <1>1, <1>2, <1>3, <1>4, <1>5, <1>6 DEF Next

(* The queue and what its callers know correspond in every reachable state. *)
THEOREM HeldInductive == Spec => []Held
  BY InitHeld, NextHeld, PTL DEF Spec

(* A caller within the lease of its claim holds the job, unless one of its *)
(* own name reported on it (api/demo.py 245-270, memory.py 60-105), for    *)
(* any callers, names, leases and retries.                                 *)
THEOREM ClaimCorrect == Spec => []ClaimIsKept
  <1>1. Held => ClaimIsKept
    BY DEF Held, SoundNow, Sound, GrantedTo, ClaimIsKept
  <1> QED
    BY <1>1, HeldInductive, PTL

-----------------------------------------------------------------------------
(* Completions.                                                            *)

LEMMA InitCounted == Init => Counted
  <1> SUFFICES ASSUME Init PROVE Counted
    OBVIOUS
  <1>1. /\ jobs = <<>> /\ starts = 0 /\ process = "off"
        /\ completed = [id \in ClientIds |-> 0]
    BY DEF Init, Q!Init
  <1> QED
    BY <1>1 DEF Counted, Q!ClientIdUnique

(* Jobs keep their client ids, and those that are completed stay so.       *)
LEMMA SameCounted ==
    ASSUME Counted, UNCHANGED <<processVars, completed>>,
           DOMAIN jobs' = DOMAIN jobs, jobs = <<>> => jobs' = <<>>,
           \A j \in DOMAIN jobs :
              /\ jobs'[j].coid = jobs[j].coid
              /\ jobs[j].status = "COMPLETED" => jobs'[j].status = "COMPLETED"
    PROVE  Counted'
  <1>1. \A id : CompletedNow(id) => CompletedNow(id)'
    BY DEF CompletedNow
  <1>2. Q!ClientIdUnique'
    BY DEF Counted, Q!ClientIdUnique
  <1> QED
    BY <1>1, <1>2 DEF Counted, processVars

LEMMA LaunchCounted ==
    ASSUME Counted, Launch
    PROVE  Counted'
  <1>1. /\ starts' = starts + 1 /\ jobs' = jobs /\ jobs = <<>>
        /\ completed' = completed
    BY DEF Launch, queueVars, history, Counted
  <1>2. \A id \in ClientIds : /\ completed[id] \in Nat
                              /\ completed'[id] <= starts' - 1
    BY <1>1 DEF Counted
  <1>3. Q!ClientIdUnique'
    BY <1>1 DEF Counted, Q!ClientIdUnique
  <1> QED
    BY <1>1, <1>2, <1>3 DEF Counted

LEMMA LifespanCounted ==
    ASSUME Counted, Lifespan
    PROVE  Counted'
  <1>1. /\ starts' = starts /\ jobs' = jobs /\ jobs = <<>>
        /\ completed' = completed /\ process # "off"
    BY DEF Lifespan, queueVars, history, Counted
  <1>2. \A id \in ClientIds : ~CompletedNow(id)
    BY <1>1 DEF CompletedNow
  <1>3. Q!ClientIdUnique'
    BY <1>1 DEF Counted, Q!ClientIdUnique
  <1> QED
    BY <1>1, <1>2, <1>3 DEF Counted

LEMMA StopCounted ==
    ASSUME Counted, Stop
    PROVE  Counted'
  <1>1. /\ starts' = starts /\ jobs' = <<>> /\ completed' = completed
        /\ process' = "off"
    BY DEF Stop
  <1>2. Q!ClientIdUnique'
    BY <1>1 DEF Q!ClientIdUnique
  <1> QED
    BY <1>1, <1>2 DEF Counted

(* A new job has a client id that no other job has, whatever became of it. *)
LEMMA EnqueueCounted ==
    ASSUME Held, Counted, NEW id \in ClientIds \cup {NoId}, queue_enqueue(id)
    PROVE  Counted'
  <1> DEFINE job == Q!NewJob(id, MaxAttempts)
  <1>1. /\ jobs' = Append(jobs, job) /\ ~Q!Known(id) /\ job.coid = id
        /\ completed' = completed /\ process = "serving"
        /\ UNCHANGED processVars
    BY DEF queue_enqueue, Q!Enqueue, Serving, Q!NewJob
  <1> HIDE DEF job
  <1>2. /\ DOMAIN jobs \subseteq DOMAIN jobs'
        /\ \A j \in DOMAIN jobs : jobs'[j] = jobs[j]
        /\ \A i, j \in DOMAIN jobs' \ DOMAIN jobs : i = j /\ jobs'[j] = job
    BY <1>1 DEF Held, Types
  <1>3. \A c : CompletedNow(c) => CompletedNow(c)'
    BY <1>2 DEF CompletedNow
  <1>4. ASSUME NEW i \in DOMAIN jobs', NEW j \in DOMAIN jobs',
               jobs'[i].coid = jobs'[j].coid, jobs'[i].coid # NoId
        PROVE  i = j
    BY <1>1, <1>2, <1>4 DEF Counted, Q!ClientIdUnique, Q!Known
  <1>5. Q!ClientIdUnique'
    BY <1>4 DEF Q!ClientIdUnique
  <1> QED
    BY <1>1, <1>3, <1>5 DEF Counted, processVars

LEMMA ClaimCounted ==
    ASSUME Held, Counted, NEW c \in Callers, queue_claim(c)
    PROVE  Counted'
  <1>1. PICK j \in DOMAIN jobs : Q!Claim(j, NameOf[c], LeaseSeconds)
    BY DEF queue_claim
  <1>2. /\ jobs' = [jobs EXCEPT ![j] = Q!Granted(jobs[j], NameOf[c], LeaseSeconds)]
        /\ jobs[j].status # "COMPLETED"
    BY <1>1 DEF Q!Claim, Q!FirstClaimable, Q!Claimable, Q!Expired
  <1>3. Q!Granted(jobs[j], NameOf[c], LeaseSeconds).coid = jobs[j].coid
    BY JobWhole, UpdateWhole, CallerAssumption
  <1>4. UNCHANGED <<processVars, completed>>
    BY DEF queue_claim, Serving
  <1>5. /\ DOMAIN jobs' = DOMAIN jobs /\ jobs # <<>>
        /\ \A i \in DOMAIN jobs :
              /\ jobs'[i].coid = jobs[i].coid
              /\ jobs[i].status = "COMPLETED" => jobs'[i].status = "COMPLETED"
    BY <1>2, <1>3 DEF Held, Types
  <1> QED
    BY <1>4, <1>5, SameCounted

LEMMA FailCounted ==
    ASSUME Held, Counted, NEW c \in Callers, queue_fail(c)
    PROVE  Counted'
  <1> DEFINE j == caller[c].job
  <1>1. UNCHANGED <<processVars, completed>>
    BY DEF queue_fail, Report, Serving
  <1>2. j \in DOMAIN jobs
    BY DEF queue_fail, Report, Held, SoundNow, Sound
  <1>3. CASE Q!Fail(j, NameOf[c])
    <2>1. /\ jobs' = [jobs EXCEPT ![j] = Q!Released(jobs[j], Q!AfterFail(jobs[j]))]
          /\ jobs[j].owner = NameOf[c]
      BY <1>3 DEF Q!Fail, Q!Owns
    <2>2. jobs[j].status = "CLAIMED"
      BY <1>2, <2>1, CallerAssumption DEF Held, Q!HeldIffClaimed
    <2>3. Q!Released(jobs[j], Q!AfterFail(jobs[j])).coid = jobs[j].coid
      BY <1>2, JobWhole, UpdateWhole
    <2>4. /\ DOMAIN jobs' = DOMAIN jobs /\ jobs # <<>>
          /\ \A i \in DOMAIN jobs :
                /\ jobs'[i].coid = jobs[i].coid
                /\ jobs[i].status = "COMPLETED" => jobs'[i].status = "COMPLETED"
      BY <1>2, <2>1, <2>2, <2>3 DEF Held, Types
    <2> QED
      BY <1>1, <2>4, SameCounted
  <1>4. CASE jobs' = jobs
    BY <1>1, <1>4, SameCounted
  <1> QED
    BY <1>3, <1>4 DEF queue_fail, Report, queueVars

(* The job that is completed was claimed, and it is the only one with its  *)
(* client id: the id had not been completed since the process was launched. *)
LEMMA CompleteCounted ==
    ASSUME Held, Counted, NEW c \in Callers, queue_complete(c)
    PROVE  Counted'
  <1> DEFINE j == caller[c].job
  <1>1. UNCHANGED processVars
    BY DEF queue_complete, Report, Serving
  <1>2. j \in DOMAIN jobs
    BY DEF queue_complete, Report, Held, SoundNow, Sound
  <1>3. completed' = IF jobs' = jobs \/ jobs[j].coid = NoId THEN completed
                     ELSE [completed EXCEPT ![jobs[j].coid] = @ + 1]
    BY DEF queue_complete
  <1>4. CASE Q!Complete(j, NameOf[c])
    <2>1. /\ jobs' = [jobs EXCEPT ![j] = Q!Released(jobs[j], "COMPLETED")]
          /\ jobs[j].owner = NameOf[c]
      BY <1>4 DEF Q!Complete, Q!Owns
    <2>2. jobs[j].status = "CLAIMED"
      BY <1>2, <2>1, CallerAssumption DEF Held, Q!HeldIffClaimed
    <2>3. /\ Q!Released(jobs[j], "COMPLETED").coid = jobs[j].coid
          /\ Q!Released(jobs[j], "COMPLETED").status = "COMPLETED"
      <3>1. "COMPLETED" \in Q!Statuses \ {"CLAIMED"}
        BY DEF Q!Statuses
      <3> QED
        BY <1>2, <3>1, JobWhole, UpdateWhole
    <2>4. /\ DOMAIN jobs' = DOMAIN jobs /\ jobs # <<>>
          /\ jobs'[j].status = "COMPLETED"
          /\ \A i \in DOMAIN jobs :
                /\ jobs'[i].coid = jobs[i].coid
                /\ jobs[i].status = "COMPLETED" => jobs'[i].status = "COMPLETED"
      BY <1>2, <2>1, <2>2, <2>3 DEF Held, Types
    <2>5. CASE jobs[j].coid = NoId
      BY <1>1, <1>3, <2>4, <2>5, SameCounted
    <2>6. CASE jobs[j].coid # NoId
      <3>0. PICK id \in ClientIds : id = jobs[j].coid
        <4>1. jobs[j] \in JobRecord
          BY <1>2, JobWhole DEF Whole
        <4>2. jobs[j].coid \in ClientIds
          BY <2>6, <4>1 DEF JobRecord
        <4> QED
          BY <4>2
      <3>1. process = "serving"
        BY DEF queue_complete, Report, Serving
      <3>2. ~CompletedNow(id)
        BY <1>2, <3>0, <2>2, <2>6 DEF CompletedNow, Counted, Q!ClientIdUnique
      <3>3. completed[id] \in Nat /\ completed[id] <= starts - 1
        BY <3>1, <3>2 DEF Counted
      <3>4. /\ completed' \in [ClientIds -> Nat]
            /\ completed'[id] = completed[id] + 1
            /\ \A d \in ClientIds \ {id} : completed'[d] = completed[d]
        <4>1. completed' = [completed EXCEPT ![id] = completed[id] + 1]
          BY <1>2, <1>3, <2>2, <2>4, <2>6, <3>0
        <4>2. completed \in [ClientIds -> Nat]
          BY DEF Counted
        <4> QED
          BY <3>1, <3>3, <4>1, <4>2
      <3>5. /\ CompletedNow(id)'
            /\ \A d : CompletedNow(d) => CompletedNow(d)'
        BY <1>2, <2>4, <3>0 DEF CompletedNow
      <3>6. Q!ClientIdUnique'
        BY <2>4 DEF Counted, Q!ClientIdUnique
      <3>7. starts' = starts /\ process' = process
        BY <1>1 DEF processVars
      <3>8. starts' \in Nat /\ (process' # "serving" => jobs' = <<>>)
        BY <3>1, <3>7 DEF Counted
      <3>9. ASSUME NEW d \in ClientIds
            PROVE  /\ completed'[d] <= starts'
                   /\ completed'[d] <= starts' - 1 \/ CompletedNow(d)'
        <4>1. CASE d = id
          BY <3>3, <3>4, <3>5, <3>7, <3>8, <4>1
        <4>2. CASE d # id
          <5>1. completed[d] <= starts
                /\ (completed[d] <= starts - 1 \/ CompletedNow(d))
            BY <3>1 DEF Counted
          <5> QED
            BY <3>4, <3>5, <3>7, <4>2, <5>1
        <4> QED
          BY <4>1, <4>2
      <3> QED
        BY <3>4, <3>6, <3>8, <3>9 DEF Counted
    <2> QED
      BY <2>5, <2>6
  <1>5. CASE jobs' = jobs
    BY <1>1, <1>3, <1>5, SameCounted
  <1> QED
    BY <1>4, <1>5 DEF queue_complete, Report, queueVars

LEMMA TickCounted ==
    ASSUME Held, Counted, Tick
    PROVE  Counted'
  <1>1. jobs' = [j \in DOMAIN jobs |-> Q!Aged(jobs[j])] /\ jobs # <<>>
    BY DEF Tick, Q!Tick
  <1>2. ASSUME NEW j \in DOMAIN jobs
        PROVE  /\ Q!Aged(jobs[j]).coid = jobs[j].coid
               /\ Q!Aged(jobs[j]).status = jobs[j].status
    BY JobWhole, UpdateWhole
  <1> QED
    BY <1>1, <1>2, SameCounted DEF Tick, history

LEMMA NextCounted ==
    ASSUME Held, Counted, [Next]_vars
    PROVE  Counted'
  <1>1. ASSUME NEW e \in Environments, SetEnvironment(e)
        PROVE  Counted'
    BY <1>1 DEF SetEnvironment, history, queueVars, Counted, CompletedNow,
                Q!ClientIdUnique
  <1>2. CASE UNCHANGED vars
    BY <1>2, SameCounted DEF vars, history, queueVars
  <1>3. CASE Launch \/ Lifespan \/ Stop
    BY <1>3, LaunchCounted, LifespanCounted, StopCounted
  <1>4. CASE \E id \in ClientIds \cup {NoId} : queue_enqueue(id)
    BY <1>4, EnqueueCounted
  <1>5. ASSUME NEW c \in Callers, queue_claim(c) \/ queue_complete(c) \/ queue_fail(c)
        PROVE  Counted'
    BY <1>5, ClaimCounted, CompleteCounted, FailCounted
  <1>6. CASE Tick
    BY <1>6, TickCounted
  <1> QED
    BY <1>1, <1>2, <1>3, <1>4, <1>5, <1>6 DEF Next

(* However often a client id is submitted, claimed and reported, by any    *)
(* callers, a process completes it at most once (api/demo.py 234-265,      *)
(* memory.py 45-49, 86-92).                                                *)
THEOREM DoneCorrect == Spec => []DoneOncePerStart
  <1>1. Counted => DoneOncePerStart
    BY DEF Counted, DoneOncePerStart
  <1>2. Spec => []Counted
    BY InitCounted, NextCounted, HeldInductive, PTL DEF Spec
  <1> QED
    BY <1>1, <1>2, PTL
=============================================================================
