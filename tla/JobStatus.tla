------------------------------ MODULE JobStatus ------------------------------
(***************************************************************************)
(* The job rows an upload is followed by (backend/app/pipeline_status.py): *)
(* jobs in memory, jobRows in the database, by the id of the analysis.     *)
(*                                                                         *)
(* An update changes the dict in memory at once and then writes it: what   *)
(* sending[a] says of actor a's write is its id, whether the dict is still *)
(* the one in memory (live), and the contents it has had since, any of     *)
(* which the write may carry (values).                                     *)
(***************************************************************************)
VARIABLES jobs, jobRows, sending

jobVars == <<jobs, jobRows, sending>>

\* Fields that are not given ("") leave what was there.
Changes(status, dynamic, error) == [status |-> status, dynamic |-> dynamic, error |-> error]

NoJob == Changes("", "", "")

NotSending == [id |-> "", live |-> FALSE, values |-> {}]

Given(new, old) == IF new = "" THEN old ELSE new

Merged(job, changes) ==
    Changes(Given(changes.status, job.status), Given(changes.dynamic, job.dynamic),
            Given(changes.error, job.error))

\* The table with the job under its id.
Filed(table, id, job) ==
    [x \in DOMAIN table \cup {id} |-> IF x = id THEN job ELSE table[x]]

JobInMemory(id) == IF id \in DOMAIN jobs THEN jobs[id] ELSE NoJob

InitJobs(actors) ==
    /\ jobs = <<>> /\ jobRows = <<>>
    /\ sending = [a \in actors |-> NotSending]

Sends(id, job) == [id |-> id, live |-> TRUE, values |-> {job}]

OnDict(b, id) == sending[b].id = id /\ sending[b].live

\* A new dict: writes under way keep the old one.
CreateJob(a, id, job, database) ==
    /\ jobs' = Filed(jobs, id, job)
    /\ sending' = [b \in DOMAIN sending |->
                     IF b = a /\ database THEN Sends(id, job)
                     ELSE IF OnDict(b, id) THEN [sending[b] EXCEPT !.live = FALSE]
                     ELSE sending[b]]
    /\ UNCHANGED jobRows

\* The dict in memory changes, under the writes that carry it too.
UpdateJob(a, id, changes, database) ==
    LET job == Merged(JobInMemory(id), changes)
    IN  /\ jobs' = Filed(jobs, id, job)
        /\ sending' = [b \in DOMAIN sending |->
                         IF b = a /\ database THEN Sends(id, job)
                         ELSE IF OnDict(b, id)
                         THEN [sending[b] EXCEPT !.values = @ \cup {job}]
                         ELSE sending[b]]
        /\ UNCHANGED jobRows

\* The dict has changed since, or is no longer the one in memory.
Overtaken(a, job) == ~sending[a].live \/ job # JobInMemory(sending[a].id)

PersistJob(a, job) ==
    /\ job \in sending[a].values
    /\ jobRows' = Filed(jobRows, sending[a].id, job)
    /\ sending' = [sending EXCEPT ![a] = NotSending]
    /\ UNCHANGED jobs

\* A write that fails is logged and forgotten.
LoseJobWrite(a) ==
    /\ sending[a] # NotSending
    /\ sending' = [sending EXCEPT ![a] = NotSending]
    /\ UNCHANGED <<jobs, jobRows>>

\* The row that was read takes the place of the dict.
AdoptRow(id, row) ==
    /\ jobs' = Filed(jobs, id, row)
    /\ sending' = [b \in DOMAIN sending |->
                     IF OnDict(b, id) THEN [sending[b] EXCEPT !.live = FALSE]
                     ELSE sending[b]]
    /\ UNCHANGED jobRows

ForgetJobs ==
    /\ jobs' = <<>>
    /\ sending' = [a \in DOMAIN sending |-> NotSending]
    /\ UNCHANGED jobRows

=============================================================================
