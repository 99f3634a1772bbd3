---------------------------- MODULE LeaseContract ----------------------------
(***************************************************************************)
(* What a leased job queue promises its callers, without saying how: every *)
(* job is free, held by one owner, lapsed (its owner let the lease run     *)
(* out) or settled for good.  There are no clocks, counters, payloads or   *)
(* claiming order here.  JobQueue implements this specification under the  *)
(* refinement mapping it states.                                           *)
(***************************************************************************)
EXTENDS Integers, Sequences

CONSTANTS Owners, Nobody

VARIABLE leases    \* one entry per submitted job: its phase and its holder

Phases == {"free", "held", "lapsed", "settled"}

Lease(p, o) == [phase |-> p, holder |-> o]

Init == leases = <<>>

(* A new job enters, free.                                                 *)
Submit == leases' = Append(leases, Lease("free", Nobody))

(* Only a free or a lapsed job can be handed to an owner.                  *)
Grant(j, o) ==
    /\ leases[j].phase \in {"free", "lapsed"}
    /\ leases' = [leases EXCEPT ![j] = Lease("held", o)]

(* A holder that comes back before anyone took its job keeps it.           *)
Renew(j) ==
    /\ leases[j].phase = "lapsed"
    /\ leases' = [leases EXCEPT ![j] = Lease("held", @.holder)]

(* The holder, live or lapsed, gives the job back or settles it.           *)
Finish(j, p) ==
    /\ leases[j].phase \in {"held", "lapsed"}
    /\ leases' = [leases EXCEPT ![j] = Lease(p, Nobody)]

(* Any number of leases run out together, their holders unaware.           *)
Expire ==
    \E S \in SUBSET DOMAIN leases :
       /\ \A j \in S : leases[j].phase = "held"
       /\ leases' = [j \in DOMAIN leases |->
                       IF j \in S THEN Lease("lapsed", leases[j].holder)
                                  ELSE leases[j]]

(* All the lapsed leases are swept back to free; a live one never is.      *)
Sweep ==
    leases' = [j \in DOMAIN leases |->
                 IF leases[j].phase = "lapsed" THEN Lease("free", Nobody)
                                               ELSE leases[j]]

Next ==
    \/ Submit
    \/ Expire
    \/ Sweep
    \/ \E j \in DOMAIN leases :
          \/ Renew(j)
          \/ \E o \in Owners : Grant(j, o)
          \/ \E p \in {"free", "settled"} : Finish(j, p)

Spec == Init /\ [][Next]_leases
=============================================================================
