----------------------------- MODULE GuestLease -----------------------------
(***************************************************************************)
(* What the sandbox pool and the manager promise together, in the words of *)
(* pool.py: "one sample per guest at a time, always from a known-clean     *)
(* snapshot".  A guest is given to one run at a time, given only when it   *)
(* is clean, and only the sample of that run leaves traces on it.          *)
(* DetonationManager implements this specification.                        *)
(***************************************************************************)
CONSTANTS Guests, Occupants

VARIABLES
    users,   \* the jobs whose runs use each guest
    traces   \* the jobs whose samples ran on it since it was last reverted

leaseVars == <<users, traces>>

Init ==
    /\ users = [g \in Guests |-> {}]
    /\ traces = [g \in Guests |-> {}]

\* Only a clean guest that nobody uses is given to a run.
Begin(g, j) ==
    /\ users[g] = {}
    /\ traces[g] = {}
    /\ users' = [users EXCEPT ![g] = {j}]
    /\ UNCHANGED traces

\* The sample of the run reaches the guest.
Detonate(g, j) ==
    /\ users[g] = {j}
    /\ traces[g] = {}
    /\ traces' = [traces EXCEPT ![g] = {j}]
    /\ UNCHANGED users

\* The snapshot is restored.
Revert(g) ==
    /\ traces' = [traces EXCEPT ![g] = {}]
    /\ UNCHANGED users

\* The run is done with the guest, in whatever condition.
End(g) ==
    /\ users[g] # {}
    /\ users' = [users EXCEPT ![g] = {}]
    /\ UNCHANGED traces

Next ==
    \E g \in Guests :
        \/ \E j \in Occupants : Begin(g, j) \/ Detonate(g, j)
        \/ Revert(g)
        \/ End(g)

Spec == Init /\ [][Next]_leaseVars
=============================================================================
