------------------------------ MODULE Delivery ------------------------------
(***************************************************************************)
(* The notification log of src/backend/notifications and its delivery: the *)
(* fan-outs that write one row per recipient and channel of an event, and  *)
(* the tasks that hand a row to its provider and try again.                *)
(*                                                                         *)
(* A fan-out runs in autocommit, so each of its statements is a step.  A   *)
(* task is acknowledged before it runs: when its process dies it is lost.  *)
(***************************************************************************)
EXTENDS Naturals, FiniteSets

CONSTANTS
    Keys,        \* the dedupe keys of one event: recipient and channel
    Reachable,   \* those with an address on an enabled channel
    Fanouts,     \* runs of the event's fan-out task, the beat's repetitions
    Senders,     \* workers that deliver
    MaxRetries   \* settings.NOTIFICATION_MAX_RETRIES

ASSUME DeliveryAssumption ==
    /\ Reachable \subseteq Keys
    /\ Keys # {}
    /\ MaxRetries \in Nat

NotificationStatus == {"absent", "queued", "sent", "failed"}

Notification == [status : NotificationStatus, attempts : Nat]

Task == [key : Keys, retries : 0..MaxRetries]

Fanout == [pc : {"idle", "next", "create", "enqueue"}, todo : SUBSET Keys, key : Keys]

\* What a worker knows of the task it took.
Sender == [pc : {"idle", "sending", "accepted", "refused", "retrying"}, task : Task]

VARIABLES
    note,          \* the row of each key
    fanout,
    broker,        \* tasks waiting for a worker
    sender,
    acknowledged,  \* messages the provider took and acknowledged
    doubtful,      \* messages the provider took although its call failed
    lost           \* keys whose task died with a process

deliveryVars == <<note, fanout, broker, sender, acknowledged, doubtful, lost>>

DeliveryTypeOK ==
    /\ note \in [Keys -> Notification]
    /\ fanout \in [Fanouts -> Fanout]
    /\ broker \subseteq Task
    /\ sender \in [Senders -> Sender]
    /\ acknowledged \in [Keys -> Nat]
    /\ doubtful \in [Keys -> Nat]
    /\ lost \subseteq Keys

-----------------------------------------------------------------------------
AnyKey == CHOOSE k \in Keys : TRUE

IdleFanout == [pc |-> "idle", todo |-> {}, key |-> AnyKey]

IdleSender == [pc |-> "idle", task |-> [key |-> AnyKey, retries |-> 0]]

Exists(k) == note[k].status # "absent"

\* mark_attempt_failed
AttemptFailed(k, final) ==
    note' = [note EXCEPT ![k] = [status |-> IF final THEN "failed" ELSE "queued",
                                 attempts |-> @.attempts + 1]]

-----------------------------------------------------------------------------
(***************************************************************************)
(* notify_users, once per fan-out.                                         *)
(***************************************************************************)

FanoutStart(f) ==
    /\ fanout[f].pc = "idle"
    /\ fanout' = [fanout EXCEPT ![f] = [pc |-> "next", todo |-> Keys, key |-> AnyKey]]
    /\ UNCHANGED <<note, broker, sender, acknowledged, doubtful, lost>>

\* queue_notification up to its insert: nothing to do without an address, or
\* when a row with the key is found.
FanoutCheck(f, k) ==
    /\ fanout[f].pc = "next"
    /\ k \in fanout[f].todo
    /\ fanout' = [fanout EXCEPT ![f] =
          [pc |-> IF k \in Reachable /\ ~Exists(k) THEN "create" ELSE "next",
           todo |-> @.todo \ {k}, key |-> k]]
    /\ UNCHANGED <<note, broker, sender, acknowledged, doubtful, lost>>

\* The insert.  uniq_notification_dedupe_key turns a second one away with an
\* exception that ends the whole fan-out.
FanoutCreate(f) ==
    LET k == fanout[f].key
    IN  /\ fanout[f].pc = "create"
        /\ \/ /\ ~Exists(k)
              /\ note' = [note EXCEPT ![k] = [status |-> "queued", attempts |-> 0]]
              /\ fanout' = [fanout EXCEPT ![f].pc = "enqueue"]
           \/ /\ Exists(k)
              /\ fanout' = [fanout EXCEPT ![f] = IdleFanout]
              /\ UNCHANGED note
        /\ UNCHANGED <<broker, sender, acknowledged, doubtful, lost>>

\* _enqueue: a broker that cannot be reached settles the row.
FanoutEnqueue(f) ==
    LET k == fanout[f].key
    IN  /\ fanout[f].pc = "enqueue"
        /\ \/ /\ broker' = broker \cup {[key |-> k, retries |-> 0]}
              /\ UNCHANGED note
           \/ /\ AttemptFailed(k, TRUE)
              /\ UNCHANGED broker
        /\ fanout' = [fanout EXCEPT ![f].pc = "next"]
        /\ UNCHANGED <<sender, acknowledged, doubtful, lost>>

FanoutEnd(f) ==
    /\ fanout[f].pc = "next"
    /\ fanout[f].todo = {}
    /\ fanout' = [fanout EXCEPT ![f] = IdleFanout]
    /\ UNCHANGED <<note, broker, sender, acknowledged, doubtful, lost>>

\* The worker dies.  A row that was not enqueued stays behind.
FanoutCrash(f) ==
    /\ fanout[f].pc # "idle"
    /\ fanout' = [fanout EXCEPT ![f] = IdleFanout]
    /\ lost' = IF fanout[f].pc = "enqueue" THEN lost \cup {fanout[f].key} ELSE lost
    /\ UNCHANGED <<note, broker, sender, acknowledged, doubtful>>

-----------------------------------------------------------------------------
(***************************************************************************)
(* send_notification.                                                      *)
(***************************************************************************)

TakeTask(s, t) ==
    /\ sender[s].pc = "idle"
    /\ t \in broker
    /\ broker' = broker \ {t}
    /\ sender' = [sender EXCEPT ![s] =
          IF note[t.key].status = "sent" THEN IdleSender ELSE [pc |-> "sending", task |-> t]]
    /\ UNCHANGED <<note, fanout, acknowledged, doubtful, lost>>

\* The provider takes the message, takes it and fails to say so, or refuses.
Send(s) ==
    LET k == sender[s].task.key
    IN  /\ sender[s].pc = "sending"
        /\ \/ /\ acknowledged' = [acknowledged EXCEPT ![k] = @ + 1]
              /\ sender' = [sender EXCEPT ![s].pc = "accepted"]
              /\ UNCHANGED doubtful
           \/ /\ doubtful' \in {doubtful, [doubtful EXCEPT ![k] = @ + 1]}
              /\ sender' = [sender EXCEPT ![s].pc = "refused"]
              /\ UNCHANGED acknowledged
        /\ UNCHANGED <<note, fanout, broker, lost>>

MarkSent(s) ==
    LET k == sender[s].task.key
    IN  /\ sender[s].pc = "accepted"
        /\ note' = [note EXCEPT ![k] = [status |-> "sent", attempts |-> @.attempts + 1]]
        /\ sender' = [sender EXCEPT ![s] = IdleSender]
        /\ UNCHANGED <<fanout, broker, acknowledged, doubtful, lost>>

\* Mutant: the exhausted task is neither settled nor tried again.
RecordFailureOpen(s) ==
    LET task == sender[s].task
    IN  /\ sender[s].pc = "refused"
        /\ AttemptFailed(task.key, FALSE)
        /\ sender' = [sender EXCEPT ![s] = IF task.retries >= MaxRetries THEN IdleSender
                                           ELSE [@ EXCEPT !.pc = "retrying"]]
        /\ UNCHANGED <<fanout, broker, acknowledged, doubtful, lost>>

\* _record_failure up to task.retry.
RecordFailure(s) ==
    LET task == sender[s].task
        final == task.retries >= MaxRetries
    IN  /\ sender[s].pc = "refused"
        /\ AttemptFailed(task.key, final)
        /\ sender' = [sender EXCEPT ![s] = IF final THEN IdleSender
                                           ELSE [@ EXCEPT !.pc = "retrying"]]
        /\ UNCHANGED <<fanout, broker, acknowledged, doubtful, lost>>

\* task.retry: the broker takes the task back, or refuses and the row settles.
Reschedule(s) ==
    LET task == sender[s].task
    IN  /\ sender[s].pc = "retrying"
        /\ \/ /\ broker' = broker \cup {[task EXCEPT !.retries = @ + 1]}
              /\ UNCHANGED note
           \/ /\ note' = [note EXCEPT ![task.key].status = "failed"]
              /\ UNCHANGED broker
        /\ sender' = [sender EXCEPT ![s] = IdleSender]
        /\ UNCHANGED <<fanout, acknowledged, doubtful, lost>>

\* Mutant: with late acknowledgement the broker hands the task out again.
SenderCrashRequeued(s) ==
    /\ sender[s].pc # "idle"
    /\ sender' = [sender EXCEPT ![s] = IdleSender]
    /\ broker' = broker \cup {sender[s].task}
    /\ UNCHANGED <<note, fanout, acknowledged, doubtful, lost>>

SenderCrash(s) ==
    /\ sender[s].pc # "idle"
    /\ sender' = [sender EXCEPT ![s] = IdleSender]
    /\ lost' = lost \cup {sender[s].task.key}
    /\ UNCHANGED <<note, fanout, broker, acknowledged, doubtful>>

-----------------------------------------------------------------------------
DeliveryInit ==
    /\ note = [k \in Keys |-> [status |-> "absent", attempts |-> 0]]
    /\ fanout = [f \in Fanouts |-> IdleFanout]
    /\ broker = {}
    /\ sender = [s \in Senders |-> IdleSender]
    /\ acknowledged = [k \in Keys |-> 0]
    /\ doubtful = [k \in Keys |-> 0]
    /\ lost = {}

DeliverStep(s) ==
    \/ \E t \in broker : TakeTask(s, t)
    \/ Send(s)
    \/ MarkSent(s)
    \/ RecordFailure(s)
    \/ Reschedule(s)

FanoutStep(f) ==
    \/ \E k \in Keys : FanoutCheck(f, k)
    \/ FanoutCreate(f)
    \/ FanoutEnqueue(f)
    \/ FanoutEnd(f)

DeliveryNext ==
    \/ \E f \in Fanouts : FanoutStart(f) \/ FanoutStep(f) \/ FanoutCrash(f)
    \/ \E s \in Senders : DeliverStep(s) \/ SenderCrash(s)

DeliverySpec == DeliveryInit /\ [][DeliveryNext]_deliveryVars

-----------------------------------------------------------------------------
(***************************************************************************)
(* What delivery promises.                                                 *)
(***************************************************************************)

\* However many fan-outs repeat the event and however often a task is tried
\* again, the provider acknowledges a row's message at most once, a row says
\* sent only when it did, and its message is never taken more often than
\* settings allow attempts (services.queue_notification, tasks.send_notification).
AcknowledgedOnce ==
    \A k \in Keys :
       /\ acknowledged[k] <= 1
       /\ note[k].status = "sent" => acknowledged[k] = 1
       /\ note[k].status = "failed" => acknowledged[k] = 0
       /\ note[k].attempts <= MaxRetries + 1
       /\ acknowledged[k] + doubtful[k] <= MaxRetries + 1

InHand(k) ==
    \/ \E f \in Fanouts : fanout[f].pc = "enqueue" /\ fanout[f].key = k
    \/ \E t \in broker : t.key = k
    \/ \E s \in Senders : sender[s].pc # "idle" /\ sender[s].task.key = k

\* A row waits as queued only while something is going to deliver it, or after
\* the process that was died (services._enqueue, tasks._record_failure).
QueuedIsInHand ==
    \A k \in Keys : note[k].status = "queued" => InHand(k) \/ k \in lost

\* A queued row settles unless its process dies (send_notification).
QueuedSettles ==
    \A k \in Keys :
       note[k].status = "queued" ~> (note[k].status \in {"sent", "failed"} \/ k \in lost)
=============================================================================
