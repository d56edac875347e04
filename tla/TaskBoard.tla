------------------------------- MODULE TaskBoard -------------------------------
(***************************************************************************)
(* What the task table promises to whoever reads it: which tasks there are, *)
(* what has become of each, and who may have claimed one without having     *)
(* started it yet.  Abstract: no job, no clock, no message, no goroutine.   *)
(***************************************************************************)
EXTENDS Naturals, Sequences

CONSTANTS
    Worker,     \* those who take up tasks
    Group,      \* tasks that are cancelled together
    NoGroup     \* the group of tasks that are never cancelled

VARIABLES
    task,       \* the tasks in order of creation: [group, critical, status]
    claim,      \* [Worker -> the task claimed and not started, or 0]
    failed      \* tasks that have failed

Init ==
    /\ task = <<>>
    /\ claim = [w \in Worker |-> 0]
    /\ failed = {}

SetStatus(i, st) == task' = [task EXCEPT ![i].status = IF @ = "deleted" THEN @ ELSE st]

Add(g, critical) ==
    /\ task' = Append(task, [group |-> g, critical |-> critical, status |-> "pending"])
    /\ UNCHANGED <<claim, failed>>

Claim(w, i) ==
    /\ claim[w] = 0
    /\ task[i].status = "pending"
    /\ claim' = [claim EXCEPT ![w] = i]
    /\ UNCHANGED <<task, failed>>

\* Whatever has become of it since it was claimed, unless it is deleted.
Start(w) ==
    /\ claim[w] # 0
    /\ SetStatus(claim[w], "running")
    /\ claim' = [claim EXCEPT ![w] = 0]
    /\ UNCHANGED failed

\* A task has a result only when it has been started; a claim may have been late.
Started(i) == task[i].status \in {"running", "success", "failure", "deleted"}

Succeed(i) ==
    /\ Started(i)
    /\ SetStatus(i, "success")
    /\ UNCHANGED <<claim, failed>>

Fail(i) ==
    /\ Started(i)
    /\ SetStatus(i, "failure")
    /\ failed' \in {failed, failed \cup {i}}
    /\ UNCHANGED claim

\* On account of a critical task that has failed, all tasks of its group that are
\* pending, and no others.
Cancel(i) ==
    /\ i \in failed
    /\ task[i].critical
    /\ task[i].group # NoGroup
    /\ task' = [j \in DOMAIN task |->
            IF task[j].group = task[i].group /\ task[j].status = "pending"
            THEN [task[j] EXCEPT !.status = "cancel"] ELSE task[j]]
    /\ UNCHANGED <<claim, failed>>

Delete(i) ==
    /\ SetStatus(i, "deleted")
    /\ UNCHANGED <<claim, failed>>

\* The workers are gone, and with them what they had claimed.
Forget ==
    /\ claim' = [w \in Worker |-> 0]
    /\ UNCHANGED <<task, failed>>

Next ==
    \/ \E g \in Group \cup {NoGroup}, critical \in BOOLEAN : Add(g, critical)
    \/ \E w \in Worker, i \in DOMAIN task : Claim(w, i)
    \/ \E w \in Worker : Start(w)
    \/ \E i \in DOMAIN task : Succeed(i) \/ Fail(i) \/ Cancel(i) \/ Delete(i)
    \/ Forget

Spec == Init /\ [][Next]_<<task, claim, failed>>
=============================================================================
