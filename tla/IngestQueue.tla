----------------------------- MODULE IngestQueue -----------------------------
(***************************************************************************)
(* The ingestion gateway (ingestion/gateway.py) and the queue it shares    *)
(* with the worker of the backend (backend/app/ingestion_worker.py), once  *)
(* a sample is validated.  A sample is its hash.                           *)
(*                                                                         *)
(* Redis holds seen and queue and outlives both processes; the gateway     *)
(* keeps its client once it has reached Redis, and until then parks what   *)
(* it gets in a queue of its own that nobody reads.  taken is what the     *)
(* worker has popped; handled and lost are where a sample ends.            *)
(***************************************************************************)
EXTENDS Naturals, Sequences

VARIABLES seen, queue, disk, reached, parked, taken, handled, lost

queueVars == <<seen, queue, disk, reached, parked, taken, handled, lost>>

Queued == {queue[i] : i \in 1..Len(queue)}

InitQueue ==
    /\ seen = {} /\ queue = <<>> /\ disk = {} /\ reached = FALSE
    /\ parked = {} /\ taken = {} /\ handled = {} /\ lost = {}

\* Mutant of Fresh: a known hash is entered again.
SeenUnread(h) == TRUE

Fresh(h) == h \notin seen

\* The hash is entered, the file is moved into place, the job is pushed.
Accept(h, urgent) ==
    /\ Fresh(h)
    /\ seen' = seen \cup {h}
    /\ disk' = disk \cup {h}
    /\ queue' = IF urgent THEN <<h>> \o queue ELSE Append(queue, h)
    /\ reached' = TRUE
    /\ UNCHANGED <<parked, taken, handled, lost>>

\* The move fails: the hash stays entered, there is no file and no job.
FailToStore(h) ==
    /\ Fresh(h)
    /\ seen' = seen \cup {h}
    /\ lost' = lost \cup {h}
    /\ reached' = TRUE
    /\ UNCHANGED <<queue, disk, parked, taken, handled>>

\* The push fails: the hash stays entered and the file in place.  A push of which
\* only the answer is lost is an Accept.
FailToPush(h) ==
    /\ Fresh(h)
    /\ seen' = seen \cup {h}
    /\ disk' = disk \cup {h}
    /\ lost' = lost \cup {h}
    /\ reached' = TRUE
    /\ UNCHANGED <<queue, parked, taken, handled>>

AnswerDuplicate(h) ==
    /\ ~Fresh(h)
    /\ reached' = TRUE
    /\ UNCHANGED <<seen, queue, disk, parked, taken, handled, lost>>

\* Redis does not answer the first ping: the sample goes to the fallback.
Park(h) ==
    /\ ~reached
    /\ h \notin parked
    /\ parked' = parked \cup {h}
    /\ disk' = disk \cup {h}
    /\ UNCHANGED <<seen, queue, reached, taken, handled, lost>>

\* The pop removes the job before anything is done about it.
Take ==
    /\ queue # <<>> /\ taken = {}
    /\ taken' = {Head(queue)}
    /\ queue' = Tail(queue)
    /\ UNCHANGED <<seen, disk, reached, parked, handled, lost>>

\* The pop takes effect and its answer does not arrive: the worker asks again.
TakeUnanswered ==
    /\ queue # <<>> /\ taken = {}
    /\ lost' = lost \cup {Head(queue)}
    /\ queue' = Tail(queue)
    /\ UNCHANGED <<seen, disk, reached, parked, taken, handled>>

Finish ==
    /\ taken # {}
    /\ handled' = handled \cup taken
    /\ taken' = {}
    /\ UNCHANGED <<seen, queue, disk, reached, parked, lost>>

\* The worker goes down with the job in hand, or without one.
LoseTaken ==
    /\ lost' = lost \cup taken
    /\ taken' = {}
    /\ UNCHANGED <<seen, queue, disk, reached, parked, handled>>

=============================================================================
