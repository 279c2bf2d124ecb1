------------------------- MODULE ExecutionLifecycle -------------------------
(***************************************************************************)
(* What the control plane promises of an execution, as its users see it:   *)
(* the status of models.Execution and the runner that owns it.  An         *)
(* execution is created once, handed to one runner at a time, may be       *)
(* handed on to another while it has not ended, and ends once.             *)
(***************************************************************************)
CONSTANTS Executions, Runners, NoRunner

VARIABLES status, owner

lifeVars == <<status, owner>>

Open == {"claimed", "running"}
Ended == {"succeeded", "failed", "cancelled"}

Init ==
    /\ status = [e \in Executions |-> "absent"]
    /\ owner = [e \in Executions |-> NoRunner]

Move(e, from, to) ==
    /\ status[e] \in from
    /\ \E st \in to : status' = [status EXCEPT ![e] = st]
    /\ UNCHANGED owner

Create(e) == Move(e, {"absent"}, {"queued"})
Withdraw(e) == Move(e, {"queued"}, {"cancelled"})
Begin(e) == Move(e, {"claimed"}, {"running"})
End(e) == Move(e, Open, Ended)

Hand(e, r) ==
    /\ owner' = [owner EXCEPT ![e] = r]
    /\ \/ status[e] \in {"queued", "claimed"}
          /\ status' = [status EXCEPT ![e] = "claimed"]
       \/ status[e] = "running" /\ UNCHANGED status

Next ==
    \E e \in Executions :
        \/ Create(e) \/ Withdraw(e) \/ Begin(e) \/ End(e)
        \/ \E r \in Runners : Hand(e, r)

Spec == Init /\ [][Next]_lifeVars

=============================================================================
