--------------------------- MODULE JobQueueProofs ---------------------------
(***************************************************************************)
(* Theorems of JobQueue, for every set of owners, client ids, retry        *)
(* limits, lease times and every bound.  The inductive invariant is        *)
(*   IInv == TypeOK /\ HeldIffClaimed /\ ClientIdUnique /\ RetryBudget.    *)
(***************************************************************************)
EXTENDS JobQueue, TLAPS

USE OwnerAssumption, IdAssumption, LeaseAssumption, CountAssumption

(* Replacing one job by another keeps jobs a sequence of jobs.             *)
LEMMA ReplaceJob ==
    ASSUME TypeOK, NEW j \in DOMAIN jobs, NEW job \in Job,
           jobs' = [jobs EXCEPT ![j] = job]
    PROVE  /\ jobs' \in Seq(Job)
           /\ Len(jobs') = Len(jobs)
           /\ DOMAIN jobs' = DOMAIN jobs
           /\ jobs'[j] = job
           /\ \A i \in DOMAIN jobs : i # j => jobs'[i] = jobs[i]
  BY DEF TypeOK

(* The helpers take jobs to jobs and counters to counters.                 *)
LEMMA HelperTypes ==
    ASSUME NEW job \in Job
    PROVE  /\ \A o \in Owners, s \in LeaseTimes : Granted(job, o, s) \in Job
           /\ \A s \in LeaseTimes : [job EXCEPT !.lease = s] \in Job
           /\ \A st \in Statuses : Released(job, st) \in Job
           /\ AfterFail(job) \in Statuses
           /\ Aged(job) \in Job
           /\ \A n \in 0 .. CountCap : Bump(n) \in 0 .. CountCap
  <1>1. \A n \in 0 .. CountCap : Bump(n) \in 0 .. CountCap
    BY DEF Bump
  <1>2. \A o \in Owners, s \in LeaseTimes : Granted(job, o, s) \in Job
    BY <1>1 DEF Granted, Job, Statuses
  <1>3. \A s \in LeaseTimes : [job EXCEPT !.lease = s] \in Job
    BY DEF Job
  <1>4. \A st \in Statuses : Released(job, st) \in Job
    BY DEF Released, Job
  <1>5. AfterFail(job) \in Statuses
    BY DEF AfterFail, Statuses
  <1>6. Aged(job) \in Job
    BY DEF Aged, Job
  <1>7. QED
    BY <1>1, <1>2, <1>3, <1>4, <1>5, <1>6

-----------------------------------------------------------------------------
(* HeldIffClaimed and RetryBudget speak of one job and its lapses.         *)
Good(job, n) ==
    /\ job.status = "CLAIMED" <=> job.owner # NoOwner
    /\ job.status = "CLAIMED" <=> job.lease # NoLease
    /\ job.attempt <= job.max + n
    /\ job.status = "PENDING" => job.attempt < job.max + n

IInv == TypeOK /\ HeldIffClaimed /\ ClientIdUnique /\ RetryBudget

LEMMA GoodJobs ==
    HeldIffClaimed /\ RetryBudget
       <=> \A j \in DOMAIN jobs : Good(jobs[j], lapses[j])
  BY DEF HeldIffClaimed, RetryBudget, Good

(* The saturating counter loses nothing the budget needs.                  *)
LEMMA BumpBudget ==
    ASSUME NEW a \in 0 .. CountCap, NEW n \in 0 .. CountCap, NEW m \in MaxAttempts
    PROVE  /\ a < m + n => Bump(a) <= m + n
           /\ a <= m + n => a < m + Bump(n)
           /\ a <= m + n => Bump(a) <= m + Bump(n)
  <1>1. m \in Nat /\ m >= 1
    OBVIOUS
  <1>2. QED
    BY <1>1 DEF Bump

(* Every change an operation makes to a job keeps it good.                 *)
LEMMA HelperGood ==
    ASSUME NEW job \in Job, NEW n \in 0 .. CountCap, Good(job, n)
    PROVE  /\ Claimable(job) => \A o \in Owners, s \in LeaseTimes :
                 Good(Granted(job, o, s), IF Expired(job) THEN Bump(n) ELSE n)
           /\ job.status = "CLAIMED" =>
                 \A s \in LeaseTimes : Good([job EXCEPT !.lease = s], n)
           /\ job.owner # NoOwner =>
                 /\ \A st \in Settled : Good(Released(job, st), n)
                 /\ Good(Released(job, AfterFail(job)), n)
           /\ Expired(job) => Good(Released(job, "PENDING"), Bump(n))
           /\ Good(Aged(job), n)
  <1> USE DEF Job, Good
  <1>1. ASSUME Claimable(job), NEW o \in Owners, NEW s \in LeaseTimes
        PROVE  Good(Granted(job, o, s), IF Expired(job) THEN Bump(n) ELSE n)
    <2>1. CASE Expired(job)
      BY <1>1, <2>1, BumpBudget DEF Granted, Expired
    <2>2. CASE ~Expired(job)
      BY <1>1, <2>2, BumpBudget DEF Granted, Claimable
    <2>3. QED
      BY <2>1, <2>2
  <1>2. ASSUME job.status = "CLAIMED", NEW s \in LeaseTimes
        PROVE  Good([job EXCEPT !.lease = s], n)
    BY <1>2
  <1>3. ASSUME job.owner # NoOwner, NEW st \in Settled
        PROVE  Good(Released(job, st), n)
    BY <1>3 DEF Released, Settled
  <1>4. ASSUME job.owner # NoOwner
        PROVE  Good(Released(job, AfterFail(job)), n)
    BY <1>4 DEF Released, AfterFail
  <1>5. ASSUME Expired(job)
        PROVE  Good(Released(job, "PENDING"), Bump(n))
    <2>1. job.attempt \in 0 .. CountCap /\ job.max \in MaxAttempts
      OBVIOUS
    <2>2. job.attempt < job.max + Bump(n)
      BY <2>1, BumpBudget
    <2>3. job.attempt \in Int /\ job.max \in Int /\ Bump(n) \in Int
      BY <2>1, HelperTypes
    <2>4. job.attempt <= job.max + Bump(n)
      BY <2>2, <2>3
    <2>5. QED
      BY <2>2, <2>4 DEF Released
  <1>6. Good(Aged(job), n)
    BY DEF Aged
  <1>7. QED
    BY <1>1, <1>2, <1>3, <1>4, <1>5, <1>6

(* An operation on one job: replacing it, and its lapses, by good ones of  *)
(* the same client id keeps the invariant.                                 *)
LEMMA OneJob ==
    ASSUME IInv, NEW j \in DOMAIN jobs, NEW job \in Job, NEW n \in 0 .. CountCap,
           jobs' = [jobs EXCEPT ![j] = job], lapses' = [lapses EXCEPT ![j] = n],
           job.coid = jobs[j].coid, Good(job, n)
    PROVE  IInv'
  <1>1. /\ jobs' \in Seq(Job)
        /\ Len(jobs') = Len(jobs)
        /\ DOMAIN jobs' = DOMAIN jobs
        /\ jobs'[j] = job
        /\ \A i \in DOMAIN jobs : i # j => jobs'[i] = jobs[i]
    BY ReplaceJob DEF IInv
  <1>2. /\ lapses' \in Seq(0 .. CountCap)
        /\ Len(lapses') = Len(lapses)
        /\ lapses'[j] = n
        /\ \A i \in DOMAIN jobs : i # j => lapses'[i] = lapses[i]
    BY DEF IInv, TypeOK
  <1>3. TypeOK'
    BY <1>1, <1>2 DEF IInv, TypeOK
  <1>4. \A i \in DOMAIN jobs : Good(jobs[i], lapses[i])
    BY GoodJobs DEF IInv
  <1>5. (\A i \in DOMAIN jobs : Good(jobs[i], lapses[i]))'
    <2> SUFFICES ASSUME NEW i \in DOMAIN jobs PROVE Good(jobs'[i], lapses'[i])
      BY <1>1 DEF Good
    <2>1. QED
      BY <1>1, <1>2, <1>4
  <1>6. (HeldIffClaimed /\ RetryBudget)'
    BY <1>5 DEF HeldIffClaimed, RetryBudget, Good
  <1>7. ClientIdUnique'
    BY <1>1 DEF IInv, ClientIdUnique
  <1>8. QED
    BY <1>3, <1>6, <1>7 DEF IInv

(* An operation that sweeps over the jobs keeps the invariant if it maps   *)
(* each of them to a good one of the same client id.                       *)
LEMMA AllJobs ==
    ASSUME IInv,
           DOMAIN jobs' = DOMAIN jobs, jobs' \in Seq(Job),
           DOMAIN lapses' = DOMAIN lapses, lapses' \in Seq(0 .. CountCap),
           \A j \in DOMAIN jobs : /\ jobs'[j].coid = jobs[j].coid
                                  /\ Good(jobs'[j], lapses'[j])
    PROVE  IInv'
  <1>1. TypeOK'
    BY DEF IInv, TypeOK
  <1>2. (HeldIffClaimed /\ RetryBudget)'
    BY DEF HeldIffClaimed, RetryBudget, Good
  <1>3. ClientIdUnique'
    BY DEF IInv, ClientIdUnique
  <1>4. QED
    BY <1>1, <1>2, <1>3 DEF IInv

-----------------------------------------------------------------------------
LEMMA InitIInv == Init => IInv
  BY DEF Init, IInv, TypeOK, HeldIffClaimed, ClientIdUnique, RetryBudget

LEMMA EnqueueIInv ==
    ASSUME IInv, NEW c \in ClientIds \cup {NoId}, NEW m \in MaxAttempts,
           Enqueue(c, m)
    PROVE  IInv'
  <1> DEFINE job == NewJob(c, m)
  <1>1. job \in Job
    BY DEF NewJob, Job, Statuses
  <1>2. Good(job, 0)
    BY DEF NewJob, Good
  <1> HIDE DEF job
  <1>3. /\ jobs' = Append(jobs, job) /\ lapses' = Append(lapses, 0)
        /\ jobs \in Seq(Job) /\ lapses \in Seq(0 .. CountCap)
        /\ Len(lapses) = Len(jobs)
    BY DEF Enqueue, IInv, TypeOK, job
  <1>4. /\ jobs' \in Seq(Job) /\ lapses' \in Seq(0 .. CountCap)
        /\ Len(jobs') = Len(jobs) + 1 /\ Len(lapses') = Len(jobs) + 1
    BY <1>1, <1>3
  <1>5. \A i \in DOMAIN jobs' : \/ i \in DOMAIN jobs /\ jobs'[i] = jobs[i]
                                                     /\ lapses'[i] = lapses[i]
                                \/ i = Len(jobs) + 1 /\ jobs'[i] = job
                                                     /\ lapses'[i] = 0
    BY <1>1, <1>3
  <1>6. TypeOK'
    BY <1>4 DEF TypeOK
  <1>7. (HeldIffClaimed /\ RetryBudget)'
    <2>1. \A i \in DOMAIN jobs : Good(jobs[i], lapses[i])
      BY GoodJobs DEF IInv
    <2>2. \A i \in DOMAIN jobs' : Good(jobs'[i], lapses'[i])
      BY <1>2, <1>5, <2>1
    <2>3. QED
      BY <2>2 DEF HeldIffClaimed, RetryBudget, Good
  <1>8. ClientIdUnique'
    <2>1. \A i \in DOMAIN jobs : c # NoId => jobs[i].coid # c
      BY DEF Enqueue, Known
    <2>2. job.coid = c
      BY DEF job, NewJob
    <2>3. QED
      BY <1>5, <2>1, <2>2 DEF ClientIdUnique, IInv
  <1>9. QED
    BY <1>6, <1>7, <1>8 DEF IInv

(* One job's facts, ready for the operations on it.                        *)
LEMMA JobFacts ==
    ASSUME IInv, NEW j \in DOMAIN jobs
    PROVE  /\ jobs[j] \in Job
           /\ lapses[j] \in 0 .. CountCap
           /\ Good(jobs[j], lapses[j])
           /\ lapses = [lapses EXCEPT ![j] = lapses[j]]
  BY GoodJobs DEF IInv, TypeOK

LEMMA ClaimIInv ==
    ASSUME IInv, NEW j \in DOMAIN jobs, NEW o \in Owners, NEW s \in LeaseTimes,
           Claim(j, o, s)
    PROVE  IInv'
  <1> DEFINE n == IF Expired(jobs[j]) THEN Bump(lapses[j]) ELSE lapses[j]
             job == Granted(jobs[j], o, s)
  <1>1. job \in Job /\ n \in 0 .. CountCap
    BY JobFacts, HelperTypes
  <1>2. Good(job, n)
    BY JobFacts, HelperGood DEF Claim, FirstClaimable
  <1>3. job.coid = jobs[j].coid
    BY JobFacts DEF Granted, Job
  <1>4. jobs' = [jobs EXCEPT ![j] = job] /\ lapses' = [lapses EXCEPT ![j] = n]
    BY DEF Claim
  <1> HIDE DEF job, n
  <1>5. QED
    BY <1>1, <1>2, <1>3, <1>4, OneJob

LEMMA HeartbeatIInv ==
    ASSUME IInv, NEW j \in DOMAIN jobs, NEW o \in Owners, NEW s \in LeaseTimes,
           Heartbeat(j, o, s)
    PROVE  IInv'
  <1> DEFINE job == [jobs[j] EXCEPT !.lease = s]
  <1>1. job \in Job
    BY JobFacts, HelperTypes
  <1>2. Good(job, lapses[j])
    BY JobFacts, HelperGood DEF Heartbeat
  <1>3. job.coid = jobs[j].coid
    BY JobFacts DEF Job
  <1>4. jobs' = [jobs EXCEPT ![j] = job] /\ lapses' = [lapses EXCEPT ![j] = lapses[j]]
    BY JobFacts DEF Heartbeat
  <1> HIDE DEF job
  <1>5. QED
    BY <1>1, <1>2, <1>3, <1>4, JobFacts, OneJob

(* complete, fail and mark_manual_review release the job to some status.   *)
LEMMA ReleaseIInv ==
    ASSUME IInv, NEW j \in DOMAIN jobs, NEW o \in Owners, Owns(j, o),
           NEW st \in Settled \cup {AfterFail(jobs[j])},
           jobs' = [jobs EXCEPT ![j] = Released(jobs[j], st)], UNCHANGED lapses
    PROVE  IInv'
  <1> DEFINE job == Released(jobs[j], st)
  <1>1. job \in Job
    BY JobFacts, HelperTypes DEF Settled, Statuses
  <1>2. Good(job, lapses[j])
    BY JobFacts, HelperGood DEF Owns
  <1>3. job.coid = jobs[j].coid
    BY JobFacts DEF Job, Released
  <1>4. jobs' = [jobs EXCEPT ![j] = job] /\ lapses' = [lapses EXCEPT ![j] = lapses[j]]
    BY JobFacts
  <1> HIDE DEF job
  <1>5. QED
    BY <1>1, <1>2, <1>3, <1>4, JobFacts, OneJob

LEMMA RecoverIInv ==
    ASSUME IInv, RecoverExpired
    PROVE  IInv'
  <1>1. DOMAIN jobs' = DOMAIN jobs /\ DOMAIN lapses' = DOMAIN lapses
    BY DEF RecoverExpired
  <1>2. DOMAIN jobs = 1 .. Len(jobs) /\ DOMAIN lapses = 1 .. Len(jobs)
    BY DEF IInv, TypeOK
  <1>3. \A j \in DOMAIN jobs :
           /\ jobs'[j] \in Job /\ lapses'[j] \in 0 .. CountCap
           /\ jobs'[j].coid = jobs[j].coid
           /\ Good(jobs'[j], lapses'[j])
    <2> SUFFICES ASSUME NEW j \in DOMAIN jobs
                 PROVE  /\ jobs'[j] \in Job /\ lapses'[j] \in 0 .. CountCap
                        /\ jobs'[j].coid = jobs[j].coid
                        /\ Good(jobs'[j], lapses'[j])
      OBVIOUS
    <2>1. CASE Expired(jobs[j])
      <3>1. /\ jobs'[j] = Released(jobs[j], "PENDING")
            /\ lapses'[j] = Bump(lapses[j])
        BY <1>2, <2>1 DEF RecoverExpired
      <3>2. jobs'[j] \in Job /\ lapses'[j] \in 0 .. CountCap
        BY <3>1, JobFacts, HelperTypes DEF Statuses
      <3>3. Good(jobs'[j], lapses'[j])
        BY <3>1, <2>1, JobFacts, HelperGood
      <3>4. jobs'[j].coid = jobs[j].coid
        BY <3>1, JobFacts DEF Released, Job
      <3>5. QED
        BY <3>2, <3>3, <3>4
    <2>2. CASE ~Expired(jobs[j])
      BY <1>2, <2>2, JobFacts DEF RecoverExpired
    <2>3. QED
      BY <2>1, <2>2
  <1>4. jobs' \in Seq(Job) /\ lapses' \in Seq(0 .. CountCap)
    BY <1>1, <1>2, <1>3 DEF IInv, TypeOK, RecoverExpired
  <1>5. QED
    BY <1>1, <1>3, <1>4, AllJobs

LEMMA TickIInv ==
    ASSUME IInv, Tick
    PROVE  IInv'
  <1>1. DOMAIN jobs' = DOMAIN jobs /\ lapses' = lapses
    BY DEF Tick
  <1>2. \A j \in DOMAIN jobs :
           /\ jobs'[j] \in Job
           /\ jobs'[j].coid = jobs[j].coid
           /\ Good(jobs'[j], lapses'[j])
    <2> SUFFICES ASSUME NEW j \in DOMAIN jobs
                 PROVE  /\ jobs'[j] \in Job
                        /\ jobs'[j].coid = jobs[j].coid
                        /\ Good(jobs'[j], lapses'[j])
      OBVIOUS
    <2>1. jobs'[j] = Aged(jobs[j])
      BY DEF Tick
    <2>2. Aged(jobs[j]).coid = jobs[j].coid
      BY JobFacts DEF Aged, Job
    <2>3. QED
      BY <1>1, <2>1, <2>2, JobFacts, HelperTypes, HelperGood
  <1>3. jobs' \in Seq(Job)
    BY <1>1, <1>2 DEF IInv, TypeOK, Tick
  <1>4. QED
    BY <1>1, <1>2, <1>3, AllJobs DEF IInv, TypeOK

LEMMA NextIInv == IInv /\ [Next]_vars => IInv'
  <1> SUFFICES ASSUME IInv, [Next]_vars PROVE IInv'
    OBVIOUS
  <1>1. ASSUME NEW c \in ClientIds \cup {NoId}, NEW m \in MaxAttempts, Enqueue(c, m)
        PROVE  IInv'
    BY <1>1, EnqueueIInv
  <1>2. ASSUME NEW j \in DOMAIN jobs, NEW o \in Owners, NEW s \in LeaseTimes,
               Claim(j, o, s)
        PROVE  IInv'
    BY <1>2, ClaimIInv
  <1>3. ASSUME NEW j \in DOMAIN jobs, NEW o \in Owners, NEW s \in LeaseTimes,
               Heartbeat(j, o, s)
        PROVE  IInv'
    BY <1>3, HeartbeatIInv
  <1>4. ASSUME NEW j \in DOMAIN jobs, NEW o \in Owners, Complete(j, o)
        PROVE  IInv'
    BY <1>4, ReleaseIInv DEF Complete, Settled
  <1>5. ASSUME NEW j \in DOMAIN jobs, NEW o \in Owners, Fail(j, o)
        PROVE  IInv'
    BY <1>5, ReleaseIInv DEF Fail
  <1>6. ASSUME NEW j \in DOMAIN jobs, NEW o \in Owners, MarkManualReview(j, o)
        PROVE  IInv'
    BY <1>6, ReleaseIInv DEF MarkManualReview, Settled
  <1>7. CASE RecoverExpired
    BY <1>7, RecoverIInv
  <1>8. CASE Tick
    BY <1>8, TickIInv
  <1>9. CASE UNCHANGED vars
    BY <1>9 DEF vars, IInv, TypeOK, HeldIffClaimed, ClientIdUnique, RetryBudget
  <1>10. QED
    BY <1>1, <1>2, <1>3, <1>4, <1>5, <1>6, <1>7, <1>8, <1>9 DEF Next

(* The inductive invariant holds for every behaviour of the queue.         *)
THEOREM Inductive == Spec => []IInv
  BY InitIInv, NextIInv, PTL DEF Spec

(* The variables keep their types.                                         *)
THEOREM TypeCorrect == Spec => []TypeOK
  BY Inductive, PTL DEF IInv

(* A job has an owner and a deadline exactly while it is claimed, so the   *)
(* owner-only checks of complete, fail and mark_manual_review suffice.     *)
THEOREM HeldCorrect == Spec => []HeldIffClaimed
  BY Inductive, PTL DEF IInv

(* A client order id names at most one job, however often it is submitted. *)
THEOREM ClientIdCorrect == Spec => []ClientIdUnique
  BY Inductive, PTL DEF IInv

(* Attempts stay within max_attempts plus the number of lapsed leases.     *)
THEOREM RetryCorrect == Spec => []RetryBudget
  BY Inductive, PTL DEF IInv

-----------------------------------------------------------------------------
(* What one step can do to one job.                                        *)
Change(job, new) ==
    \/ new = job
    \/ Claimable(job) /\ \E o \in Owners, s \in LeaseTimes : new = Granted(job, o, s)
    \/ job.status = "CLAIMED" /\ \E s \in LeaseTimes : new = [job EXCEPT !.lease = s]
    \/ job.owner # NoOwner /\ \E st \in Settled \cup {AfterFail(job)} :
                                 new = Released(job, st)
    \/ Expired(job) /\ new = Released(job, "PENDING")
    \/ new = Aged(job)

(* A step that replaces one job leaves the others alone.                   *)
LEMMA OneChange ==
    ASSUME IInv, NEW j \in DOMAIN jobs, NEW job, Change(jobs[j], job),
           jobs' = [jobs EXCEPT ![j] = job]
    PROVE  /\ Len(jobs') >= Len(jobs)
           /\ \A i \in DOMAIN jobs : Change(jobs[i], jobs'[i])
  <1>1. Len(jobs') = Len(jobs)
    BY DEF IInv, TypeOK
  <1>2. \A i \in DOMAIN jobs : jobs'[i] = IF i = j THEN job ELSE jobs[i]
    OBVIOUS
  <1>3. \A i \in DOMAIN jobs : Change(jobs[i], jobs[i])
    BY DEF Change
  <1>4. QED
    BY <1>1, <1>2, <1>3 DEF IInv, TypeOK

LEMMA StepShape ==
    ASSUME IInv, Next
    PROVE  /\ Len(jobs') >= Len(jobs)
           /\ \A i \in DOMAIN jobs : Change(jobs[i], jobs'[i])
  <1> DEFINE Goal == /\ Len(jobs') >= Len(jobs)
                     /\ \A i \in DOMAIN jobs : Change(jobs[i], jobs'[i])
  <1>1. ASSUME NEW c \in ClientIds \cup {NoId}, NEW m \in MaxAttempts, Enqueue(c, m)
        PROVE  Goal
    <2>1. jobs' = Append(jobs, NewJob(c, m)) /\ jobs \in Seq(Job)
      BY <1>1 DEF Enqueue, IInv, TypeOK
    <2>2. NewJob(c, m) \in Job
      BY DEF NewJob, Job, Statuses
    <2>3. Len(jobs') = Len(jobs) + 1 /\ \A i \in DOMAIN jobs : jobs'[i] = jobs[i]
      BY <2>1, <2>2
    <2>4. QED
      BY <2>1, <2>3 DEF Change
  <1>2. ASSUME NEW j \in DOMAIN jobs, NEW o \in Owners, NEW s \in LeaseTimes,
               Claim(j, o, s)
        PROVE  Goal
    <2>1. Change(jobs[j], Granted(jobs[j], o, s))
      BY <1>2 DEF Claim, FirstClaimable, Change
    <2>2. QED
      BY <1>2, <2>1, OneChange DEF Claim
  <1>3. ASSUME NEW j \in DOMAIN jobs, NEW o \in Owners, NEW s \in LeaseTimes,
               Heartbeat(j, o, s)
        PROVE  Goal
    <2>1. Change(jobs[j], [jobs[j] EXCEPT !.lease = s])
      BY <1>3 DEF Heartbeat, Change
    <2>2. jobs' = [jobs EXCEPT ![j] = [jobs[j] EXCEPT !.lease = s]]
      BY <1>3 DEF Heartbeat
    <2>3. QED
      BY <2>1, <2>2, OneChange
  <1>4. ASSUME NEW j \in DOMAIN jobs, NEW o \in Owners,
               NEW st \in Settled \cup {AfterFail(jobs[j])}, Owns(j, o),
               jobs' = [jobs EXCEPT ![j] = Released(jobs[j], st)]
        PROVE  Goal
    <2>1. Change(jobs[j], Released(jobs[j], st))
      BY <1>4 DEF Owns, Change
    <2>2. QED
      BY <1>4, <2>1, OneChange
  <1>5. ASSUME RecoverExpired PROVE Goal
    <2>1. DOMAIN jobs' = DOMAIN jobs
      BY <1>5 DEF RecoverExpired
    <2>2. Len(jobs') = Len(jobs)
      BY <1>5, RecoverIInv, <2>1 DEF IInv, TypeOK
    <2>3. \A i \in DOMAIN jobs : Change(jobs[i], jobs'[i])
      BY <1>5 DEF RecoverExpired, Change
    <2>4. QED
      BY <2>2, <2>3 DEF IInv, TypeOK
  <1>6. ASSUME Tick PROVE Goal
    <2>1. DOMAIN jobs' = DOMAIN jobs
      BY <1>6 DEF Tick
    <2>2. Len(jobs') = Len(jobs)
      BY <1>6, TickIInv, <2>1 DEF IInv, TypeOK
    <2>3. \A i \in DOMAIN jobs : Change(jobs[i], jobs'[i])
      BY <1>6 DEF Tick, Change
    <2>4. QED
      BY <2>2, <2>3 DEF IInv, TypeOK
  <1>7. QED
    BY <1>1, <1>2, <1>3, <1>4, <1>5, <1>6
       DEF Next, Complete, Fail, MarkManualReview, Settled

(* Only the identity is possible for a settled job, because it has no      *)
(* owner and no deadline.                                                  *)
LEMMA SettledChange ==
    ASSUME NEW job \in Job, NEW n, Good(job, n), job.status \in Settled,
           NEW new, Change(job, new)
    PROVE  new = job
  BY DEF Change, Good, Settled, Claimable, Expired, Aged

(* A settled job is settled for good, and no job is forgotten.             *)
THEOREM SettledCorrect == Spec => SettledForever
  <1>1. ASSUME IInv, Next
        PROVE  /\ Len(jobs') >= Len(jobs)
               /\ \A j \in DOMAIN jobs :
                     jobs[j].status \in Settled => jobs'[j] = jobs[j]
    BY <1>1, StepShape, JobFacts, SettledChange
  <1>2. QED
    BY <1>1, Inductive, PTL DEF Spec, SettledForever

LEMMA HandoverChange ==
    ASSUME NEW job \in Job, NEW n, Good(job, n), NEW new, Change(job, new)
    PROVE  /\ new.attempt >= job.attempt
           /\ new.owner \notin {job.owner, NoOwner} /\ job.attempt < CountCap
              => new.attempt = job.attempt + 1
  <1>1. CASE \E o \in Owners, s \in LeaseTimes : new = Granted(job, o, s)
    BY <1>1 DEF Granted, Bump, Job
  <1>2. CASE \E st \in Statuses : new = Released(job, st)
    BY <1>2 DEF Released, Job
  <1>3. CASE new = job \/ new = Aged(job)
             \/ \E s \in LeaseTimes : new = [job EXCEPT !.lease = s]
    BY <1>3 DEF Aged, Job
  <1>4. QED
    BY <1>1, <1>2, <1>3, HelperTypes DEF Change, Statuses, Settled

(* Each hand-over to another owner costs an attempt.                       *)
THEOREM HandoverCorrect == Spec => HandoverCounts
  <1>1. ASSUME IInv, Next
        PROVE  \A j \in DOMAIN jobs :
                 /\ jobs'[j].attempt >= jobs[j].attempt
                 /\ (/\ jobs'[j].owner \notin {jobs[j].owner, NoOwner}
                     /\ jobs[j].attempt < CountCap)
                    => jobs'[j].attempt = jobs[j].attempt + 1
    BY <1>1, StepShape, JobFacts, HandoverChange
  <1>2. ASSUME IInv, UNCHANGED vars
        PROVE  \A j \in DOMAIN jobs :
                 /\ jobs'[j].attempt >= jobs[j].attempt
                 /\ (/\ jobs'[j].owner \notin {jobs[j].owner, NoOwner}
                     /\ jobs[j].attempt < CountCap)
                    => jobs'[j].attempt = jobs[j].attempt + 1
    BY <1>2, JobFacts DEF vars, Job
  <1>3. QED
    BY <1>1, <1>2, Inductive, PTL DEF Spec, HandoverCounts

-----------------------------------------------------------------------------
(* The refinement: each step of the queue is a step of the lease contract. *)
View(job) == [phase |-> PhaseOf(job), holder |-> job.owner]

LEMMA ViewFacts ==
    ASSUME IInv
    PROVE  /\ DOMAIN LeaseView = DOMAIN jobs
           /\ \A j \in DOMAIN jobs : LeaseView[j] = View(jobs[j])
  BY DEF LeaseView, View

(* The phase of a job, from its status and deadline.                       *)
LEMMA PhaseFacts ==
    ASSUME NEW job \in Job, NEW n, Good(job, n)
    PROVE  /\ job.status = "PENDING" => PhaseOf(job) = "free"
           /\ job.status \in Settled => PhaseOf(job) = "settled"
           /\ Expired(job) => PhaseOf(job) = "lapsed"
           /\ job.status = "CLAIMED" /\ ~Expired(job) => PhaseOf(job) = "held"
           /\ PhaseOf(job) = "lapsed" => Expired(job)
           /\ PhaseOf(job) \in {"free", "held", "lapsed", "settled"}
  BY DEF PhaseOf, Expired, Settled, Job, Statuses

(* The view after a step that replaces one job.                            *)
LEMMA OneView ==
    ASSUME IInv, NEW j \in DOMAIN jobs, NEW job,
           jobs' = [jobs EXCEPT ![j] = job]
    PROVE  LeaseView' = [LeaseView EXCEPT ![j] = View(job)]
  BY DEF LeaseView, View, PhaseOf, Expired, IInv, TypeOK

LEMMA EnqueueView ==
    ASSUME IInv, NEW c \in ClientIds \cup {NoId}, NEW m \in MaxAttempts,
           Enqueue(c, m)
    PROVE  Contract!Submit
  <1>1. jobs \in Seq(Job) /\ NewJob(c, m) \in Job
        /\ jobs' = Append(jobs, NewJob(c, m))
    BY DEF Enqueue, IInv, TypeOK, NewJob, Job, Statuses
  <1>2. View(NewJob(c, m)) = Contract!Lease("free", NoOwner)
    BY DEF View, PhaseOf, NewJob, Settled, Contract!Lease
  <1>3. LeaseView = [j \in 1 .. Len(jobs) |-> View(jobs[j])]
    BY <1>1 DEF LeaseView, View
  <1>4. LeaseView' = [j \in 1 .. Len(jobs) + 1 |-> View(jobs'[j])]
    <2>1. DOMAIN jobs' = 1 .. Len(jobs) + 1
      BY <1>1
    <2>2. QED
      BY <2>1 DEF LeaseView, View, PhaseOf, Expired
  <1>5. Len(LeaseView) = Len(jobs)
    BY <1>1, <1>3
  <1>6. Append(LeaseView, View(NewJob(c, m)))
          = [j \in 1 .. Len(jobs) + 1 |-> IF j <= Len(jobs) THEN View(jobs[j])
                                          ELSE View(NewJob(c, m))]
    BY <1>1, <1>3, <1>5
  <1>7. \A j \in 1 .. Len(jobs) + 1 :
           View(jobs'[j]) = IF j <= Len(jobs) THEN View(jobs[j])
                                              ELSE View(NewJob(c, m))
    BY <1>1
  <1>8. QED
    BY <1>2, <1>4, <1>6, <1>7 DEF Contract!Submit

LEMMA ClaimView ==
    ASSUME IInv, NEW j \in DOMAIN jobs, NEW o \in Owners, NEW s \in LeaseTimes,
           Claim(j, o, s)
    PROVE  Contract!Grant(j, o)
  <1>1. LeaseView[j].phase \in {"free", "lapsed"}
    BY ViewFacts, JobFacts, PhaseFacts DEF View, Claim, FirstClaimable, Claimable
  <1>2. View(Granted(jobs[j], o, s)) = Contract!Lease("held", o)
    BY JobFacts DEF View, Granted, PhaseOf, Expired, Settled, Job, Contract!Lease
  <1>3. LeaseView' = [LeaseView EXCEPT ![j] = View(Granted(jobs[j], o, s))]
    BY OneView DEF Claim
  <1>4. QED
    BY <1>1, <1>2, <1>3 DEF Contract!Grant

LEMMA HeartbeatView ==
    ASSUME IInv, NEW j \in DOMAIN jobs, NEW o \in Owners, NEW s \in LeaseTimes,
           Heartbeat(j, o, s)
    PROVE  Contract!Renew(j) \/ UNCHANGED LeaseView
  <1> DEFINE job == [jobs[j] EXCEPT !.lease = s]
  <1>1. View(job) = Contract!Lease("held", jobs[j].owner)
    BY JobFacts DEF Heartbeat, View, PhaseOf, Expired, Settled, Job, Contract!Lease
  <1>2. LeaseView' = [LeaseView EXCEPT ![j] = View(job)]
    BY OneView DEF Heartbeat
  <1>3. LeaseView[j] = View(jobs[j]) /\ View(jobs[j]).holder = jobs[j].owner
    BY ViewFacts DEF View
  <1>4. CASE Expired(jobs[j])
    <2>1. LeaseView[j].phase = "lapsed"
      BY <1>3, <1>4, JobFacts, PhaseFacts DEF View
    <2>2. QED
      BY <1>1, <1>2, <1>3, <2>1 DEF Contract!Renew
  <1>5. CASE ~Expired(jobs[j])
    <2>1. View(jobs[j]) = View(job)
      BY <1>1, <1>5, JobFacts, PhaseFacts DEF Heartbeat, View, Contract!Lease
    <2>2. LeaseView' = LeaseView
      BY <1>2, <1>3, <2>1, ViewFacts DEF LeaseView
    <2>3. QED
      BY <2>2
  <1>6. QED
    BY <1>4, <1>5

LEMMA ReleaseView ==
    ASSUME IInv, NEW j \in DOMAIN jobs, NEW o \in Owners, Owns(j, o),
           NEW st \in Settled \cup {AfterFail(jobs[j])},
           jobs' = [jobs EXCEPT ![j] = Released(jobs[j], st)]
    PROVE  \E p \in {"free", "settled"} : Contract!Finish(j, p)
  <1> DEFINE p == IF st = "PENDING" THEN "free" ELSE "settled"
  <1>1. LeaseView[j].phase \in {"held", "lapsed"}
    BY ViewFacts, JobFacts, PhaseFacts DEF View, Owns, Good
  <1>2. st \in Settled \cup {"PENDING"}
    BY DEF AfterFail, Settled
  <1>3. View(Released(jobs[j], st)) = Contract!Lease(p, NoOwner)
    BY <1>2, JobFacts DEF View, Released, PhaseOf, Settled, Job, Contract!Lease
  <1>4. LeaseView' = [LeaseView EXCEPT ![j] = Contract!Lease(p, NoOwner)]
    BY <1>3, OneView
  <1>5. Contract!Finish(j, p)
    BY <1>1, <1>4 DEF Contract!Finish
  <1>6. QED
    BY <1>5

LEMMA RecoverView ==
    ASSUME IInv, RecoverExpired
    PROVE  Contract!Sweep
  <1>1. DOMAIN jobs' = DOMAIN jobs
    BY DEF RecoverExpired
  <1>2. LeaseView' = [j \in DOMAIN jobs |-> View(jobs'[j])]
    BY <1>1 DEF LeaseView, View, PhaseOf, Expired
  <1>3. ASSUME NEW j \in DOMAIN jobs
        PROVE  View(jobs'[j]) = IF LeaseView[j].phase = "lapsed"
                                THEN Contract!Lease("free", NoOwner)
                                ELSE LeaseView[j]
    <2>1. CASE Expired(jobs[j])
      <3>1. jobs'[j] = Released(jobs[j], "PENDING")
        BY <2>1 DEF RecoverExpired
      <3>2. View(Released(jobs[j], "PENDING")) = Contract!Lease("free", NoOwner)
        BY JobFacts DEF View, Released, PhaseOf, Settled, Job, Contract!Lease
      <3>3. LeaseView[j].phase = "lapsed"
        BY <2>1, ViewFacts, JobFacts, PhaseFacts DEF View
      <3>4. QED
        BY <3>1, <3>2, <3>3
    <2>2. CASE ~Expired(jobs[j])
      <3>1. jobs'[j] = jobs[j]
        BY <2>2 DEF RecoverExpired
      <3>2. LeaseView[j].phase # "lapsed"
        BY <2>2, ViewFacts, JobFacts, PhaseFacts DEF View
      <3>3. QED
        BY <3>1, <3>2, ViewFacts
    <2>3. QED
      BY <2>1, <2>2
  <1>4. QED
    BY <1>2, <1>3, ViewFacts DEF Contract!Sweep

LEMMA TickView ==
    ASSUME IInv, Tick
    PROVE  Contract!Expire
  <1> DEFINE S == {j \in DOMAIN jobs : LeaseView[j].phase = "held"
                                       /\ Expired(Aged(jobs[j]))}
  <1>1. DOMAIN jobs' = DOMAIN jobs
    BY DEF Tick
  <1>2. LeaseView' = [j \in DOMAIN jobs |-> View(jobs'[j])]
    BY <1>1 DEF LeaseView, View, PhaseOf, Expired
  <1>3. ASSUME NEW j \in DOMAIN jobs
        PROVE  View(jobs'[j]) = IF j \in S
                                THEN Contract!Lease("lapsed", LeaseView[j].holder)
                                ELSE LeaseView[j]
    <2>1. jobs'[j] = Aged(jobs[j]) /\ Aged(jobs[j]) \in Job
          /\ Good(Aged(jobs[j]), lapses[j])
      BY JobFacts, HelperTypes, HelperGood DEF Tick
    <2>2. /\ Aged(jobs[j]).owner = jobs[j].owner
          /\ Aged(jobs[j]).status = jobs[j].status
          /\ Expired(jobs[j]) => Expired(Aged(jobs[j]))
      BY JobFacts DEF Aged, Job, Expired
    <2>3. View(Aged(jobs[j])).holder = LeaseView[j].holder
          /\ LeaseView[j].phase = PhaseOf(jobs[j])
      BY <2>2, ViewFacts DEF View
    <2>4. PhaseOf(Aged(jobs[j])) = IF j \in S THEN "lapsed" ELSE PhaseOf(jobs[j])
      BY <2>1, <2>2, <2>3, JobFacts, PhaseFacts DEF Job, Statuses, Settled, Expired
    <2>5. QED
      BY <2>1, <2>3, <2>4, ViewFacts DEF View, Contract!Lease
  <1>4. S \in SUBSET DOMAIN LeaseView /\ \A j \in S : LeaseView[j].phase = "held"
    BY ViewFacts
  <1> HIDE DEF S
  <1>5. LeaseView' = [j \in DOMAIN LeaseView |->
                        IF j \in S THEN Contract!Lease("lapsed", LeaseView[j].holder)
                                   ELSE LeaseView[j]]
    BY <1>2, <1>3, ViewFacts
  <1>6. QED
    BY <1>4, <1>5 DEF Contract!Expire

(* Every behaviour of the queue is, under the view, one of the contract.   *)
THEOREM Refinement == Spec => ImplementsContract
  <1>1. Init => Contract!Init
    BY DEF Init, LeaseView, Contract!Init
  <1>2. ASSUME IInv, Next
        PROVE  Contract!Next \/ UNCHANGED LeaseView
    <2> USE ViewFacts
    <2>1. ASSUME NEW c \in ClientIds \cup {NoId}, NEW m \in MaxAttempts,
                 Enqueue(c, m)
          PROVE  Contract!Next
      BY <1>2, <2>1, EnqueueView DEF Contract!Next
    <2>2. ASSUME NEW j \in DOMAIN jobs, NEW o \in Owners, NEW s \in LeaseTimes,
                 Claim(j, o, s)
          PROVE  Contract!Next
      BY <1>2, <2>2, ClaimView DEF Contract!Next
    <2>3. ASSUME NEW j \in DOMAIN jobs, NEW o \in Owners, NEW s \in LeaseTimes,
                 Heartbeat(j, o, s)
          PROVE  Contract!Next \/ UNCHANGED LeaseView
      BY <1>2, <2>3, HeartbeatView DEF Contract!Next
    <2>4. ASSUME NEW j \in DOMAIN jobs, NEW o \in Owners,
                 NEW st \in Settled \cup {AfterFail(jobs[j])}, Owns(j, o),
                 jobs' = [jobs EXCEPT ![j] = Released(jobs[j], st)]
          PROVE  Contract!Next
      BY <1>2, <2>4, ReleaseView DEF Contract!Next
    <2>5. CASE RecoverExpired
      BY <1>2, <2>5, RecoverView DEF Contract!Next
    <2>6. CASE Tick
      BY <1>2, <2>6, TickView DEF Contract!Next
    <2>7. QED
      BY <1>2, <2>1, <2>2, <2>3, <2>4, <2>5, <2>6
         DEF Next, Complete, Fail, MarkManualReview, Settled
  <1>3. UNCHANGED vars => UNCHANGED LeaseView
    BY DEF vars, LeaseView, PhaseOf, Expired
  <1>4. QED
    BY <1>1, <1>2, <1>3, Inductive, PTL
       DEF Spec, ImplementsContract, Contract!Spec
=============================================================================
