------------------------------ MODULE JobQueue ------------------------------
(***************************************************************************)
(* InMemoryJobQueue (src/signal_bot/infrastructure/queue/memory.py): jobs  *)
(* claimed under a lease, with heartbeat, completion, failure with a retry *)
(* limit, manual review and the recovery of expired leases.                *)
(*                                                                         *)
(* jobs is the dict _jobs in insertion order: a job's index stands for its *)
(* job_id.  A job keeps the fields the queue decides on (OrderJob also has *)
(* the payload, trade_id, job_type, last_error and timestamps).            *)
(*                                                                         *)
(* A deadline appears only in comparisons with the clock, so a job keeps   *)
(* the whole seconds left, lease = lease_until - now, and Tick takes one   *)
(* from every lease.  Any lease below zero is simply expired: -1.  The     *)
(* clock itself is unbounded.  Counters saturate at CountCap, which is no  *)
(* smaller than any max_attempts, so every comparison the code makes with  *)
(* them keeps its outcome.                                                 *)
(*                                                                         *)
(* A call the queue rejects (it returns False or None) changes nothing and *)
(* is a stuttering step.                                                   *)
(***************************************************************************)
EXTENDS Integers, Sequences

CONSTANTS
    Owners,         \* names of the callers that claim jobs
    ClientIds,      \* client_order_ids that are non-empty strings
    NoId,           \* client_order_id None or ""
    NoOwner,        \* lease_owner None
    NoLease,        \* lease_until None
    MaxAttempts,    \* the max_attempts that producers pass
    LeaseTimes,     \* the lease_seconds that workers pass
    MaxJobs,        \* bound: at most this many jobs are ever enqueued
    CountCap        \* bound: attempt and lapses saturate here

ASSUME OwnerAssumption == NoOwner \notin Owners
ASSUME IdAssumption == NoId \notin ClientIds
ASSUME LeaseAssumption == LeaseTimes \subseteq Nat /\ NoLease \notin Int
ASSUME CountAssumption ==
    /\ MaxJobs \in Nat
    /\ CountCap \in Nat \ {0}
    /\ MaxAttempts \subseteq 1 .. CountCap

VARIABLES
    jobs,     \* _jobs, in insertion order
    lapses    \* history: how often each job was taken from an expired lease

vars == <<jobs, lapses>>

Statuses == {"PENDING", "CLAIMED", "COMPLETED", "MANUAL_REVIEW"}
Settled == {"COMPLETED", "MANUAL_REVIEW"}

Job == [coid : ClientIds \cup {NoId}, max : MaxAttempts,
        status : Statuses, attempt : 0 .. CountCap,
        owner : Owners \cup {NoOwner}, lease : Nat \cup {-1, NoLease}]

Bump(n) == IF n < CountCap THEN n + 1 ELSE n

-----------------------------------------------------------------------------
(* Guards and record updates the operations share.                         *)

NewJob(c, m) == [coid |-> c, max |-> m, status |-> "PENDING", attempt |-> 0,
                 owner |-> NoOwner, lease |-> NoLease]

(* Slip: jobs that are already settled are not looked at.                  *)
KnownOpen(c) ==
    c # NoId /\ \E j \in DOMAIN jobs :
                  jobs[j].coid = c /\ jobs[j].status \notin Settled

(* Only a client_order_id that is truthy is looked up, in jobs of any status. *)
Known(c) == c # NoId /\ \E j \in DOMAIN jobs : jobs[j].coid = c

Expired(job) == job.status = "CLAIMED" /\ job.lease # NoLease /\ job.lease < 0

(* Slips: an expired lease is left to recover_expired, or seen a second early. *)
ClaimablePending(job) == job.status = "PENDING"
ClaimableEarly(job) ==
    \/ job.status = "PENDING"
    \/ job.status = "CLAIMED" /\ job.lease # NoLease /\ job.lease <= 0

Claimable(job) == job.status = "PENDING" \/ Expired(job)

FirstClaimable(j) ==
    /\ Claimable(jobs[j])
    /\ \A i \in 1 .. (j - 1) : ~Claimable(jobs[i])

(* complete, fail and mark_manual_review ask for nothing but the owner.    *)
Owns(j, o) == jobs[j].owner = o

(* Slip: taking over an expired lease does not count as an attempt.        *)
GrantedQuietly(job, o, s) ==
    [job EXCEPT !.status = "CLAIMED", !.owner = o, !.lease = s,
                !.attempt = IF job.status = "PENDING" THEN Bump(job.attempt)
                                                      ELSE job.attempt]

Granted(job, o, s) ==
    [job EXCEPT !.status = "CLAIMED", !.owner = o, !.lease = s,
                !.attempt = Bump(job.attempt)]

(* Slip: the owner is not cleared.                                         *)
ReleasedKeepsOwner(job, st) == [job EXCEPT !.status = st, !.lease = NoLease]

Released(job, st) ==
    [job EXCEPT !.status = st, !.owner = NoOwner, !.lease = NoLease]

(* Slips: one retry too many, or the JobStatus the queue never uses.       *)
AfterFailLate(job) ==
    IF job.attempt > job.max THEN "MANUAL_REVIEW" ELSE "PENDING"
AfterFailFailed(job) == IF job.attempt >= job.max THEN "FAILED" ELSE "PENDING"

AfterFail(job) ==
    IF job.attempt >= job.max THEN "MANUAL_REVIEW" ELSE "PENDING"

Aged(job) ==
    IF job.lease = NoLease \/ job.lease < 0
    THEN job
    ELSE [job EXCEPT !.lease = job.lease - 1]

-----------------------------------------------------------------------------
(* One action per method that changes state.                               *)

Init ==
    /\ jobs = <<>>
    /\ lapses = <<>>

(* enqueue: a known client_order_id returns the job that has it, whatever  *)
(* became of it; otherwise a new PENDING job is appended.                  *)
Enqueue(c, m) ==
    /\ ~Known(c)
    /\ Len(jobs) < MaxJobs
    /\ jobs' = Append(jobs, NewJob(c, m))
    /\ lapses' = Append(lapses, 0)

(* claim: the oldest job that is pending or whose lease has run out.       *)
Claim(j, o, s) ==
    /\ FirstClaimable(j)
    /\ jobs' = [jobs EXCEPT ![j] = Granted(jobs[j], o, s)]
    /\ lapses' = [lapses EXCEPT ![j] = IF Expired(jobs[j])
                                       THEN Bump(lapses[j])
                                       ELSE lapses[j]]

(* heartbeat: the deadline moves, even one that has already passed.        *)
Heartbeat(j, o, s) ==
    /\ Owns(j, o)
    /\ jobs[j].status = "CLAIMED"
    /\ jobs' = [jobs EXCEPT ![j].lease = s]
    /\ UNCHANGED lapses

Complete(j, o) ==
    /\ Owns(j, o)
    /\ jobs' = [jobs EXCEPT ![j] = Released(jobs[j], "COMPLETED")]
    /\ UNCHANGED lapses

Fail(j, o) ==
    /\ Owns(j, o)
    /\ jobs' = [jobs EXCEPT ![j] = Released(jobs[j], AfterFail(jobs[j]))]
    /\ UNCHANGED lapses

MarkManualReview(j, o) ==
    /\ Owns(j, o)
    /\ jobs' = [jobs EXCEPT ![j] = Released(jobs[j], "MANUAL_REVIEW")]
    /\ UNCHANGED lapses

(* recover_expired: one sweep over every job; the retry limit is not read. *)
RecoverExpired ==
    /\ \E j \in DOMAIN jobs : Expired(jobs[j])
    /\ jobs' = [j \in DOMAIN jobs |->
                  IF Expired(jobs[j]) THEN Released(jobs[j], "PENDING")
                                      ELSE jobs[j]]
    /\ lapses' = [j \in DOMAIN lapses |->
                    IF Expired(jobs[j]) THEN Bump(lapses[j]) ELSE lapses[j]]

(* One second passes.                                                      *)
Tick ==
    /\ \E j \in DOMAIN jobs : jobs[j].lease # NoLease /\ jobs[j].lease >= 0
    /\ jobs' = [j \in DOMAIN jobs |-> Aged(jobs[j])]
    /\ UNCHANGED lapses

Next ==
    \/ \E c \in ClientIds \cup {NoId}, m \in MaxAttempts : Enqueue(c, m)
    \/ \E j \in DOMAIN jobs, o \in Owners :
          \/ \E s \in LeaseTimes : Claim(j, o, s) \/ Heartbeat(j, o, s)
          \/ Complete(j, o)
          \/ Fail(j, o)
          \/ MarkManualReview(j, o)
    \/ RecoverExpired
    \/ Tick

Spec == Init /\ [][Next]_vars

-----------------------------------------------------------------------------
(* Properties.                                                             *)

TypeOK ==
    /\ jobs \in Seq(Job)
    /\ lapses \in Seq(0 .. CountCap)
    /\ Len(lapses) = Len(jobs)

(* A job has an owner and a deadline exactly while it is CLAIMED.  The     *)
(* owner-only checks of complete, fail and mark_manual_review (memory.py   *)
(* 87, 97, 111) are right only because of this: nothing else keeps them    *)
(* from settling a job that is PENDING again or already settled.           *)
HeldIffClaimed ==
    \A j \in DOMAIN jobs :
       /\ jobs[j].status = "CLAIMED" <=> jobs[j].owner # NoOwner
       /\ jobs[j].status = "CLAIMED" <=> jobs[j].lease # NoLease

(* However often a producer repeats a submission, no client_order_id is    *)
(* ever carried by two jobs (memory.py 45-49): the exchange order it names *)
(* has one job that can submit it.                                         *)
ClientIdUnique ==
    \A i, j \in DOMAIN jobs :
       jobs[i].coid = jobs[j].coid /\ jobs[i].coid # NoId => i = j

(* Retries are accounted for: a job is attempted at most max_attempts      *)
(* times plus once for every lease that ran out, and one that is waiting   *)
(* still has an attempt in that budget.  (Expiry is the one way past       *)
(* max_attempts: recover_expired and claim do not look at it.)             *)
RetryBudget ==
    \A j \in DOMAIN jobs :
       /\ jobs[j].attempt <= jobs[j].max + lapses[j]
       /\ jobs[j].status = "PENDING" => jobs[j].attempt < jobs[j].max + lapses[j]

(* A settled job is settled for good: no late heartbeat, completion,       *)
(* failure, claim or recovery of any caller changes it again, and no job   *)
(* is ever forgotten.                                                      *)
SettledForever ==
    [][/\ Len(jobs') >= Len(jobs)
       /\ \A j \in DOMAIN jobs :
             jobs[j].status \in Settled => jobs'[j] = jobs[j]]_vars

(* The attempt counter never goes back, and a claim that lapsed is never   *)
(* handed out for free: each hand-over to another owner costs an attempt.  *)
HandoverCounts ==
    [][\A j \in DOMAIN jobs :
          /\ jobs'[j].attempt >= jobs[j].attempt
          /\ (/\ jobs'[j].owner \notin {jobs[j].owner, NoOwner}
              /\ jobs[j].attempt < CountCap)
             => jobs'[j].attempt = jobs[j].attempt + 1]_vars

(* The queue implements the lease contract: under this mapping every step  *)
(* is a contract step or a stutter.  In particular a live lease is never   *)
(* granted to someone else nor swept, and only a holder settles a job.     *)
PhaseOf(job) ==
    CASE job.status = "PENDING" -> "free"
      [] job.status \in Settled -> "settled"
      [] OTHER -> IF Expired(job) THEN "lapsed" ELSE "held"

LeaseView ==
    [j \in DOMAIN jobs |-> [phase |-> PhaseOf(jobs[j]), holder |-> jobs[j].owner]]

Contract == INSTANCE LeaseContract WITH Nobody <- NoOwner, leases <- LeaseView

ImplementsContract == Contract!Spec
=============================================================================
