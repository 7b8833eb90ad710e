------------------------------- MODULE BullMQ -------------------------------
(***************************************************************************)
(* What BullMQ makes of one job: the fields of its record that the models  *)
(* of the queues share, and how taking, finishing, failing and stalling    *)
(* change them.  The queues are used by JobsService of the repository.     *)
(***************************************************************************)
EXTENDS Naturals

CONSTANT None           \* no value

\* BullMQ: a job that stalls twice fails.
MaxStalled == 1

\* How often the job failed and stalled, and the slot that holds its lock.
Queued == [state |-> "waiting", made |-> 0, stalled |-> 0, by |-> None]

Taken(q, w) == [q EXCEPT !.state = "active", !.by = w]

Completed(q) == [q EXCEPT !.state = "completed", !.by = None]

\* A failed attempt is made again, up to the attempts the producer asked for.
Retried(q, attempts) ==
    [q EXCEPT !.made = @ + 1, !.by = None,
              !.state = IF q.made + 1 < attempts THEN "waiting" ELSE "failed"]

\* A job whose lock expired goes back to the queue, or fails the second time.
Stalled(q) ==
    [q EXCEPT !.stalled = @ + 1, !.by = None,
              !.state = IF q.stalled < MaxStalled THEN "waiting" ELSE "failed"]

\* Only the slot that still holds the lock of a job decides about it.
Settled(q, w, r) == IF q.by = w THEN r ELSE q

Ended(q) == q.state \in {"completed", "failed"}
=============================================================================
