---------------------------- MODULE WorkersProofs ---------------------------
(***************************************************************************)
(* Proofs about what the workers do behind the requests: the delivery of   *)
(* notifications (Delivery) and the jobs users poll (Jobs), for any        *)
(* recipients, fan-outs, workers and retries, and for any uploads, files   *)
(* and exports.                                                            *)
(***************************************************************************)
EXTENDS Delivery, Jobs, WellFoundedInduction, TLAPS

(***************************************************************************)
(* Delivery. The invariant follows a row's message by its carrier: the     *)
(* fan-out about to enqueue it, its task in the broker, or the worker that *)
(* took the task. A row has one carrier at most, and what the provider may *)
(* have taken so far is bounded by how far that carrier has come.          *)
(***************************************************************************)
Enqueues(f, k) == fanout[f].pc = "enqueue" /\ fanout[f].key = k

Holds(s, k) == sender[s].pc # "idle" /\ sender[s].task.key = k

OneCarrier(k) ==
    /\ \A f, g \in Fanouts : Enqueues(f, k) /\ Enqueues(g, k) => f = g
    /\ \A t, u \in broker : t.key = k /\ u.key = k => t = u
    /\ \A r, s \in Senders : Holds(r, k) /\ Holds(s, k) => r = s
    /\ \A f \in Fanouts : \A t \in broker : ~(Enqueues(f, k) /\ t.key = k)
    /\ \A f \in Fanouts, s \in Senders : ~(Enqueues(f, k) /\ Holds(s, k))
    /\ \A t \in broker : \A s \in Senders : ~(t.key = k /\ Holds(s, k))

\* Nothing is out beyond what the row says was tried.
Untaken(k) == note[k].status = "queued" /\ acknowledged[k] = 0 /\ doubtful[k] <= note[k].attempts

FanoutLedger(k) == \A f \in Fanouts : Enqueues(f, k) => Untaken(k) /\ note[k].attempts = 0

BrokerLedger(k) == \A t \in broker : t.key = k => Untaken(k) /\ note[k].attempts = t.retries

SenderLedger(k) ==
    \A s \in Senders : Holds(s, k) =>
       /\ note[k].status = "queued"
       /\ sender[s].pc = "sending" => Untaken(k) /\ note[k].attempts = sender[s].task.retries
       /\ sender[s].pc = "accepted" =>
             /\ note[k].attempts = sender[s].task.retries
             /\ acknowledged[k] = 1 /\ doubtful[k] <= note[k].attempts
       /\ sender[s].pc = "refused" =>
             /\ note[k].attempts = sender[s].task.retries
             /\ acknowledged[k] = 0 /\ doubtful[k] <= note[k].attempts + 1
       /\ sender[s].pc = "retrying" =>
             /\ Untaken(k) /\ note[k].attempts = sender[s].task.retries + 1
             /\ sender[s].task.retries < MaxRetries

RowLedger(k) ==
    /\ note[k].status = "absent" =>
          note[k].attempts = 0 /\ acknowledged[k] = 0 /\ doubtful[k] = 0
    /\ note[k].status = "sent" => acknowledged[k] = 1
    /\ note[k].status = "failed" => acknowledged[k] = 0
    /\ note[k].status = "queued" => InHand(k) \/ k \in lost
    /\ note[k].attempts <= MaxRetries + 1
    /\ acknowledged[k] <= 1
    /\ acknowledged[k] + doubtful[k] <= MaxRetries + 1

KeyInv(k) ==
    OneCarrier(k) /\ FanoutLedger(k) /\ BrokerLedger(k) /\ SenderLedger(k) /\ RowLedger(k)

DeliveryInv == DeliveryTypeOK /\ \A k \in Keys : KeyInv(k)

-----------------------------------------------------------------------------
LEMMA AnyKeyIsKey == AnyKey \in Keys
  BY DeliveryAssumption DEF AnyKey

LEMMA IdleTyped ==
  /\ IdleFanout \in Fanout /\ IdleFanout.pc = "idle"
  /\ IdleSender \in Sender /\ IdleSender.pc = "idle"
  BY AnyKeyIsKey, DeliveryAssumption DEF IdleFanout, IdleSender, Fanout, Sender, Task

\* A row that a step does not touch keeps its part of the invariant.
LEMMA OthersKeep ==
  ASSUME DeliveryInv, NEW k \in Keys,
         note'[k] = note[k], acknowledged'[k] = acknowledged[k], doubtful'[k] = doubtful[k],
         lost \subseteq lost',
         \A f \in Fanouts : Enqueues(f, k)' <=> Enqueues(f, k),
         \A t \in Task : t.key = k => (t \in broker' <=> t \in broker),
         broker' \subseteq Task,
         \A s \in Senders : Holds(s, k)' <=> Holds(s, k),
         \A s \in Senders : Holds(s, k) => sender'[s] = sender[s]
  PROVE  KeyInv(k)'
<1>1. \A t \in broker \cup broker' : t \in Task
  BY DEF DeliveryInv, DeliveryTypeOK
<1>2. KeyInv(k)
  BY DEF DeliveryInv
<1>3. OneCarrier(k)'
  BY <1>1, <1>2 DEF KeyInv, OneCarrier
<1>4. Untaken(k)' <=> Untaken(k)
  BY DEF Untaken
<1>5. FanoutLedger(k)' /\ BrokerLedger(k)'
  BY <1>1, <1>2, <1>4 DEF KeyInv, FanoutLedger, BrokerLedger
<1>6. SenderLedger(k)'
  BY <1>2, <1>4 DEF KeyInv, SenderLedger
<1>7. InHand(k) => InHand(k)'
  BY <1>1 DEF InHand, Enqueues, Holds
<1>8. RowLedger(k)'
  BY <1>2, <1>7 DEF KeyInv, RowLedger
<1> QED
  BY <1>3, <1>5, <1>6, <1>8 DEF KeyInv

\* An action that touches no row's message, task or sender.
LEMMA FanoutMoves ==
  ASSUME DeliveryInv, NEW f \in Fanouts,
         UNCHANGED <<note, broker, sender, acknowledged, doubtful, lost>>,
         NEW next \in Fanout, fanout' = [fanout EXCEPT ![f] = next],
         fanout[f].pc # "enqueue", next.pc # "enqueue"
  PROVE  DeliveryInv'
<1>1. /\ fanout'[f] = next /\ \A g \in Fanouts \ {f} : fanout'[g] = fanout[g]
      /\ fanout' \in [Fanouts -> Fanout]
  BY DEF DeliveryInv, DeliveryTypeOK
<1>2. DeliveryTypeOK'
  BY <1>1 DEF DeliveryInv, DeliveryTypeOK
<1>3. ASSUME NEW k \in Keys PROVE KeyInv(k)'
  <2>1. \A g \in Fanouts : Enqueues(g, k)' <=> Enqueues(g, k)
    BY <1>1 DEF Enqueues
  <2>2. \A s \in Senders : Holds(s, k)' <=> Holds(s, k)
    BY DEF Holds
  <2> QED
    BY <2>1, <2>2, OthersKeep DEF DeliveryInv, DeliveryTypeOK
<1> QED
  BY <1>2, <1>3 DEF DeliveryInv

LEMMA MovesKeep ==
  ASSUME DeliveryInv, NEW f \in Fanouts,
         \/ FanoutStart(f)
         \/ \E k \in Keys : FanoutCheck(f, k)
         \/ FanoutEnd(f)
         \/ FanoutCreate(f) /\ Exists(fanout[f].key)
         \/ FanoutCrash(f) /\ fanout[f].pc # "enqueue"
  PROVE  DeliveryInv'
<1>1. fanout[f] \in Fanout
  BY DEF DeliveryInv, DeliveryTypeOK
<1>2. CASE FanoutStart(f)
  <2>1. [pc |-> "next", todo |-> Keys, key |-> AnyKey] \in Fanout
    BY AnyKeyIsKey DEF Fanout
  <2> QED
    BY <1>2, <2>1, FanoutMoves DEF FanoutStart
<1>3. ASSUME NEW k \in Keys, FanoutCheck(f, k) PROVE DeliveryInv'
  <2>1. PICK next \in Fanout : next.pc # "enqueue" /\ fanout' = [fanout EXCEPT ![f] = next]
    <3>1. /\ [pc |-> "create", todo |-> fanout[f].todo \ {k}, key |-> k] \in Fanout
          /\ [pc |-> "next", todo |-> fanout[f].todo \ {k}, key |-> k] \in Fanout
      BY <1>1 DEF Fanout
    <3> QED
      BY <1>3, <3>1 DEF FanoutCheck, DeliveryInv, DeliveryTypeOK
  <2> QED
    BY <1>3, <2>1, FanoutMoves DEF FanoutCheck
<1>4. CASE FanoutEnd(f)
  BY <1>4, IdleTyped, FanoutMoves DEF FanoutEnd
<1>5. CASE FanoutCreate(f) /\ Exists(fanout[f].key)
  BY <1>5, IdleTyped, FanoutMoves DEF FanoutCreate
<1>6. CASE FanoutCrash(f) /\ fanout[f].pc # "enqueue"
  BY <1>6, IdleTyped, FanoutMoves DEF FanoutCrash
<1> QED
  BY <1>2, <1>3, <1>4, <1>5, <1>6

\* A row is created without any carrier but the fan-out that created it.
LEMMA CreateKeeps ==
  ASSUME DeliveryInv, NEW f \in Fanouts, FanoutCreate(f), ~Exists(fanout[f].key)
  PROVE  DeliveryInv'
<1> PICK k \in Keys : k = fanout[f].key
  BY DEF DeliveryInv, DeliveryTypeOK, Fanout
<1>1. /\ fanout[f] \in Fanout /\ fanout[f].key = k
      /\ fanout' = [fanout EXCEPT ![f].pc = "enqueue"] /\ fanout[f].pc = "create"
      /\ note' = [note EXCEPT ![k] = [status |-> "queued", attempts |-> 0]]
      /\ UNCHANGED <<broker, sender, acknowledged, doubtful, lost>>
  BY DEF FanoutCreate, DeliveryInv, DeliveryTypeOK, Fanout
<1>2. /\ fanout' \in [Fanouts -> Fanout] /\ fanout'[f].pc = "enqueue" /\ fanout'[f].key = k
      /\ \A g \in Fanouts \ {f} : fanout'[g] = fanout[g]
      /\ note' \in [Keys -> Notification]
      /\ note'[k].status = "queued" /\ note'[k].attempts = 0
      /\ \A j \in Keys \ {k} : note'[j] = note[j]
  BY <1>1 DEF DeliveryInv, DeliveryTypeOK, Fanout, Notification, NotificationStatus
<1>3. DeliveryTypeOK'
  BY <1>1, <1>2 DEF DeliveryInv, DeliveryTypeOK
<1>4. ASSUME NEW j \in Keys, j # k PROVE KeyInv(j)'
  <2>1. \A g \in Fanouts : Enqueues(g, j)' <=> Enqueues(g, j)
    BY <1>1, <1>2, <1>4 DEF Enqueues
  <2>2. \A s \in Senders : Holds(s, j)' <=> Holds(s, j)
    BY <1>1 DEF Holds
  <2> QED
    BY <1>1, <1>2, <1>4, <2>1, <2>2, OthersKeep DEF DeliveryInv, DeliveryTypeOK
<1>5. KeyInv(k)'
  <2>1. KeyInv(k) /\ note[k].status = "absent"
    BY <1>1 DEF DeliveryInv, Exists
  <2>2. /\ \A g \in Fanouts : ~Enqueues(g, k)
        /\ \A t \in broker : t.key # k
        /\ \A s \in Senders : ~Holds(s, k)
    BY <2>1 DEF KeyInv, FanoutLedger, BrokerLedger, SenderLedger, Untaken
  <2>3. /\ \A g \in Fanouts : Enqueues(g, k)' <=> g = f
        /\ \A t \in broker' : t.key # k
        /\ \A s \in Senders : ~Holds(s, k)'
    BY <1>1, <1>2, <2>2 DEF Enqueues, Holds
  <2>4. acknowledged'[k] = 0 /\ doubtful'[k] = 0
    BY <1>1, <2>1 DEF KeyInv, RowLedger
  <2>5. OneCarrier(k)'
    BY <2>3 DEF OneCarrier
  <2>6. FanoutLedger(k)' /\ BrokerLedger(k)' /\ SenderLedger(k)'
    BY <1>2, <2>3, <2>4 DEF FanoutLedger, BrokerLedger, SenderLedger, Untaken
  <2>7. RowLedger(k)'
    BY <1>2, <2>4, DeliveryAssumption DEF RowLedger, InHand
  <2> QED
    BY <2>5, <2>6, <2>7 DEF KeyInv
<1> QED
  BY <1>3, <1>4, <1>5 DEF DeliveryInv

-----------------------------------------------------------------------------
\* The carriers of row k are the fan-outs F, the tasks B and the senders S.
Carried(k, F, B, S) ==
    /\ \A f \in Fanouts : Enqueues(f, k) <=> f \in F
    /\ \A t \in Task : (t \in broker /\ t.key = k) <=> t \in B
    /\ \A s \in Senders : Holds(s, k) <=> s \in S

\* A row with one carrier has no other.
LEMMA CarrierIsOnly ==
  ASSUME DeliveryInv, NEW k \in Keys
  PROVE  /\ \A f \in Fanouts : Enqueues(f, k) => Carried(k, {f}, {}, {})
         /\ \A t \in broker : t.key = k => Carried(k, {}, {t}, {})
         /\ \A s \in Senders : Holds(s, k) => Carried(k, {}, {}, {s})
  BY DEF DeliveryInv, DeliveryTypeOK, KeyInv, OneCarrier, Carried

LEMMA OneCarrierIsOne ==
  ASSUME DeliveryTypeOK', NEW k \in Keys,
         \/ Carried(k, {}, {}, {})'
         \/ \E f \in Fanouts : Carried(k, {f}, {}, {})'
         \/ \E t \in Task : Carried(k, {}, {t}, {})'
         \/ \E s \in Senders : Carried(k, {}, {}, {s})'
  PROVE  OneCarrier(k)'
  BY DEF DeliveryTypeOK, OneCarrier, Carried

\* What the invariant says of a row whose task waits in the broker, and of one
\* that has no carrier any more.
LEMMA InBrokerIsFine ==
  ASSUME DeliveryTypeOK', NEW k \in Keys, NEW t \in Task, Carried(k, {}, {t}, {})',
         Untaken(k)', note'[k].attempts = t.retries
  PROVE  KeyInv(k)'
<1>1. OneCarrier(k)'
  BY OneCarrierIsOne
<1>2. FanoutLedger(k)' /\ BrokerLedger(k)' /\ SenderLedger(k)'
  BY DEF Carried, FanoutLedger, BrokerLedger, SenderLedger, DeliveryTypeOK
<1>3. InHand(k)'
  BY DEF Carried, InHand
<1>4. t.retries \in 0..MaxRetries /\ acknowledged'[k] \in Nat /\ doubtful'[k] \in Nat
  BY DEF Task, DeliveryTypeOK
<1>5. RowLedger(k)'
  BY <1>3, <1>4, DeliveryAssumption DEF RowLedger, Untaken
<1> QED
  BY <1>1, <1>2, <1>5 DEF KeyInv

LEMMA UncarriedIsFine ==
  ASSUME DeliveryTypeOK', NEW k \in Keys, Carried(k, {}, {}, {})', RowLedger(k)'
  PROVE  KeyInv(k)'
<1>1. OneCarrier(k)'
  BY OneCarrierIsOne
<1>2. FanoutLedger(k)' /\ BrokerLedger(k)' /\ SenderLedger(k)'
  BY DEF Carried, FanoutLedger, BrokerLedger, SenderLedger, DeliveryTypeOK
<1> QED
  BY <1>1, <1>2 DEF KeyInv

\* _enqueue hands the row to the broker or settles it; a crash loses it.
LEMMA EnqueueKeeps ==
  ASSUME DeliveryInv, NEW f \in Fanouts,
         \/ FanoutEnqueue(f)
         \/ FanoutCrash(f) /\ fanout[f].pc = "enqueue"
  PROVE  DeliveryInv'
<1> PICK k \in Keys : k = fanout[f].key
  BY DEF DeliveryInv, DeliveryTypeOK, Fanout
<1>1. /\ fanout[f] \in Fanout /\ fanout[f].key = k /\ fanout[f].pc = "enqueue"
      /\ fanout' \in [Fanouts -> Fanout] /\ fanout'[f].pc \in {"next", "idle"}
      /\ \A g \in Fanouts \ {f} : fanout'[g] = fanout[g]
      /\ UNCHANGED <<sender, acknowledged, doubtful>>
  <2>1. fanout \in [Fanouts -> Fanout] /\ fanout[f].key = k /\ fanout[f].pc = "enqueue"
    BY DEF FanoutEnqueue, DeliveryInv, DeliveryTypeOK
  <2>2. PICK next \in Fanout : next.pc \in {"next", "idle"} /\ fanout' = [fanout EXCEPT ![f] = next]
    <3>1. [fanout[f] EXCEPT !.pc = "next"] \in Fanout
      BY <2>1 DEF Fanout
    <3> QED
      BY <2>1, <3>1, IdleTyped DEF FanoutEnqueue, FanoutCrash, Fanout
  <2>3. UNCHANGED <<sender, acknowledged, doubtful>>
    BY DEF FanoutEnqueue, FanoutCrash
  <2> QED
    BY <2>1, <2>2, <2>3
<1>2. /\ Carried(k, {f}, {}, {}) /\ KeyInv(k) /\ Untaken(k) /\ note[k].attempts = 0
      /\ acknowledged[k] \in Nat /\ doubtful[k] \in Nat /\ doubtful[k] = 0
  BY <1>1, CarrierIsOnly DEF DeliveryInv, DeliveryTypeOK, KeyInv, FanoutLedger, Enqueues, Untaken
<1>3. ASSUME NEW j \in Keys, j # k, note'[j] = note[j], lost \subseteq lost',
             broker' \subseteq Task, \A t \in Task : t.key = j => (t \in broker' <=> t \in broker)
      PROVE  KeyInv(j)'
  <2>1. \A g \in Fanouts : Enqueues(g, j)' <=> Enqueues(g, j)
    BY <1>1, <1>3 DEF Enqueues
  <2>2. \A s \in Senders : Holds(s, j)' <=> Holds(s, j)
    BY <1>1 DEF Holds
  <2> QED
    BY <1>1, <1>3, <2>1, <2>2, OthersKeep
<1>4. /\ \A g \in Fanouts : ~Enqueues(g, k)'
      /\ \A s \in Senders : ~Holds(s, k)'
  BY <1>1, <1>2 DEF Carried, Enqueues, Holds
<1> DEFINE t == [key |-> k, retries |-> 0]
<1>5. t \in Task /\ t.key = k /\ t.retries = 0
  BY DeliveryAssumption DEF Task
<1>6. CASE broker' = broker \cup {t} /\ UNCHANGED <<note, lost>>
  <2>1. DeliveryTypeOK'
    BY <1>1, <1>5, <1>6 DEF DeliveryInv, DeliveryTypeOK
  <2>2. Carried(k, {}, {t}, {})'
    BY <1>2, <1>4, <1>5, <1>6 DEF Carried
  <2>3. KeyInv(k)'
    BY <1>1, <1>2, <1>5, <1>6, <2>1, <2>2, InBrokerIsFine DEF Untaken
  <2> QED
    BY <1>3, <1>5, <1>6, <2>1, <2>3 DEF DeliveryInv, DeliveryTypeOK
<1>7. CASE AttemptFailed(k, TRUE) /\ UNCHANGED <<broker, lost>>
  <2>1. /\ note' \in [Keys -> Notification] /\ note'[k].status = "failed" /\ note'[k].attempts = 1
        /\ \A j \in Keys \ {k} : note'[j] = note[j]
    BY <1>2, <1>7 DEF AttemptFailed, DeliveryInv, DeliveryTypeOK, Notification, NotificationStatus
  <2>2. DeliveryTypeOK'
    BY <1>1, <1>7, <2>1 DEF DeliveryInv, DeliveryTypeOK
  <2>3. Carried(k, {}, {}, {})'
    BY <1>2, <1>4, <1>7 DEF Carried
  <2>4. RowLedger(k)'
    BY <1>1, <1>2, <2>1, DeliveryAssumption DEF RowLedger, Untaken
  <2> QED
    BY <1>3, <1>7, <2>1, <2>2, <2>3, <2>4, UncarriedIsFine DEF DeliveryInv, DeliveryTypeOK
<1>8. CASE lost' = lost \cup {k} /\ UNCHANGED <<note, broker>>
  <2>1. DeliveryTypeOK'
    BY <1>1, <1>8 DEF DeliveryInv, DeliveryTypeOK
  <2>2. Carried(k, {}, {}, {})'
    BY <1>2, <1>4, <1>8 DEF Carried
  <2>3. RowLedger(k)'
    BY <1>1, <1>2, <1>8 DEF RowLedger, KeyInv
  <2> QED
    BY <1>3, <1>8, <2>1, <2>2, <2>3, UncarriedIsFine DEF DeliveryInv, DeliveryTypeOK
<1> QED
  BY <1>1, <1>6, <1>7, <1>8 DEF FanoutEnqueue, FanoutCrash

-----------------------------------------------------------------------------
\* A worker that holds row k, or takes it, leaves the other rows alone.
LEMMA SenderOthersKeep ==
  ASSUME DeliveryInv, NEW s \in Senders, NEW k \in Keys, NEW next \in Sender,
         sender' = [sender EXCEPT ![s] = next],
         sender[s].pc = "idle" \/ sender[s].task.key = k,
         next.pc = "idle" \/ next.task.key = k,
         UNCHANGED fanout, lost \subseteq lost', broker' \subseteq Task,
         \A t \in Task : t.key # k => (t \in broker' <=> t \in broker),
         \A j \in Keys \ {k} : /\ note'[j] = note[j] /\ acknowledged'[j] = acknowledged[j]
                               /\ doubtful'[j] = doubtful[j]
  PROVE  /\ \A j \in Keys \ {k} : KeyInv(j)'
         /\ sender' \in [Senders -> Sender] /\ sender'[s] = next
         /\ \A r \in Senders \ {s} : sender'[r] = sender[r]
<1>1. /\ sender' \in [Senders -> Sender] /\ sender'[s] = next
      /\ \A r \in Senders \ {s} : sender'[r] = sender[r]
  BY DEF DeliveryInv, DeliveryTypeOK
<1>2. ASSUME NEW j \in Keys, j # k PROVE KeyInv(j)'
  <2>1. \A g \in Fanouts : Enqueues(g, j)' <=> Enqueues(g, j)
    BY DEF Enqueues
  <2>2. /\ \A r \in Senders : Holds(r, j)' <=> Holds(r, j)
        /\ \A r \in Senders : Holds(r, j) => sender'[r] = sender[r]
    BY <1>1, <1>2 DEF Holds
  <2> QED
    BY <1>2, <2>1, <2>2, OthersKeep
<1> QED
  BY <1>1, <1>2

\* What the invariant says of a row in a worker's hands.
LEMMA HeldIsFine ==
  ASSUME DeliveryTypeOK', NEW k \in Keys, NEW s \in Senders, Carried(k, {}, {}, {s})',
         RowLedger(k)', note'[k].status = "queued",
         sender'[s].pc = "sending" =>
            Untaken(k)' /\ note'[k].attempts = sender'[s].task.retries,
         sender'[s].pc = "accepted" =>
            /\ note'[k].attempts = sender'[s].task.retries
            /\ acknowledged'[k] = 1 /\ doubtful'[k] <= note'[k].attempts,
         sender'[s].pc = "refused" =>
            /\ note'[k].attempts = sender'[s].task.retries
            /\ acknowledged'[k] = 0 /\ doubtful'[k] <= note'[k].attempts + 1,
         sender'[s].pc = "retrying" =>
            /\ Untaken(k)' /\ note'[k].attempts = sender'[s].task.retries + 1
            /\ sender'[s].task.retries < MaxRetries
  PROVE  KeyInv(k)'
<1>1. OneCarrier(k)'
  BY OneCarrierIsOne
<1>2. FanoutLedger(k)' /\ BrokerLedger(k)'
  BY DEF Carried, FanoutLedger, BrokerLedger, DeliveryTypeOK
<1>3. \A r \in Senders : Holds(r, k)' <=> r = s
  BY DEF Carried
<1>4. SenderLedger(k)'
  BY <1>3 DEF SenderLedger
<1> QED
  BY <1>1, <1>2, <1>4 DEF KeyInv

LEMMA TakeKeeps ==
  ASSUME DeliveryInv, NEW s \in Senders, NEW t \in broker, TakeTask(s, t)
  PROVE  DeliveryInv'
<1> PICK k \in Keys : k = t.key
  BY DEF DeliveryInv, DeliveryTypeOK, Task
<1>1. /\ t \in Task /\ t.key = k /\ KeyInv(k) /\ Carried(k, {}, {t}, {})
      /\ Untaken(k) /\ note[k].attempts = t.retries
  BY CarrierIsOnly DEF DeliveryInv, DeliveryTypeOK, KeyInv, BrokerLedger
<1>2. /\ broker' = broker \ {t} /\ sender[s].pc = "idle"
      /\ sender' = [sender EXCEPT ![s] = [pc |-> "sending", task |-> t]]
      /\ UNCHANGED <<note, fanout, acknowledged, doubtful, lost>>
  BY <1>1 DEF TakeTask, Untaken
<1>3. [pc |-> "sending", task |-> t] \in Sender
  BY <1>1 DEF Sender
<1>4. /\ \A j \in Keys \ {k} : KeyInv(j)'
      /\ sender' \in [Senders -> Sender] /\ sender'[s] = [pc |-> "sending", task |-> t]
      /\ \A r \in Senders \ {s} : sender'[r] = sender[r]
  <2>1. broker' \subseteq Task /\ \A u \in Task : u.key # k => (u \in broker' <=> u \in broker)
    BY <1>1, <1>2 DEF DeliveryInv, DeliveryTypeOK
  <2> QED
    BY <1>1, <1>2, <1>3, <2>1, SenderOthersKeep
<1>5. DeliveryTypeOK'
  BY <1>2, <1>4 DEF DeliveryInv, DeliveryTypeOK
<1>6. Carried(k, {}, {}, {s})'
  BY <1>1, <1>2, <1>4 DEF Carried, Enqueues, Holds
<1>7. InHand(k)'
  BY <1>6 DEF Carried, InHand, Holds
<1>8. RowLedger(k)' /\ Untaken(k)'
  BY <1>1, <1>2, <1>7 DEF KeyInv, RowLedger, Untaken
<1>9. KeyInv(k)'
  BY <1>1, <1>2, <1>4, <1>5, <1>6, <1>8, HeldIsFine DEF Untaken
<1> QED
  BY <1>4, <1>5, <1>9 DEF DeliveryInv

\* The rows in a worker's hands, and the bounds its task puts on them.
LEMMA HeldFacts ==
  ASSUME DeliveryInv, NEW s \in Senders, sender[s].pc # "idle"
  PROVE  /\ sender[s].task \in Task /\ sender[s] \in Sender
         /\ sender[s].task.key \in Keys
         /\ sender[s].task.retries \in 0..MaxRetries
         /\ Carried(sender[s].task.key, {}, {}, {s})
         /\ SenderLedger(sender[s].task.key) /\ RowLedger(sender[s].task.key)
         /\ Holds(s, sender[s].task.key)
         /\ note[sender[s].task.key] \in Notification
         /\ acknowledged[sender[s].task.key] \in Nat /\ doubtful[sender[s].task.key] \in Nat
<1>1. sender[s].task \in Task /\ sender[s] \in Sender
  BY DEF DeliveryInv, DeliveryTypeOK, Sender
<1>2. sender[s].task.key \in Keys /\ sender[s].task.retries \in 0..MaxRetries
  BY <1>1 DEF Task
<1>3. Holds(s, sender[s].task.key)
  BY DEF Holds
<1> QED
  BY <1>1, <1>2, <1>3, CarrierIsOnly DEF DeliveryInv, DeliveryTypeOK, KeyInv

\* Send, the failures that are tried again: the worker still holds the row.
LEMMA StillHeld ==
  ASSUME DeliveryInv, NEW s \in Senders, sender[s].pc # "idle",
         NEW k \in Keys, k = sender[s].task.key,
         NEW next \in Sender, next.pc # "idle", next.task = sender[s].task,
         sender' = [sender EXCEPT ![s] = next], UNCHANGED <<fanout, broker, lost>>,
         note' \in [Keys -> Notification], acknowledged' \in [Keys -> Nat],
         doubtful' \in [Keys -> Nat],
         \A j \in Keys \ {k} : /\ note'[j] = note[j] /\ acknowledged'[j] = acknowledged[j]
                               /\ doubtful'[j] = doubtful[j]
  PROVE  /\ DeliveryTypeOK' /\ \A j \in Keys \ {k} : KeyInv(j)'
         /\ Carried(k, {}, {}, {s})' /\ InHand(k)'
         /\ sender'[s] = next
<1>1. broker' \subseteq Task /\ \A t \in Task : t.key # k => (t \in broker' <=> t \in broker)
  BY DEF DeliveryInv, DeliveryTypeOK
<1>2. /\ \A j \in Keys \ {k} : KeyInv(j)'
      /\ sender' \in [Senders -> Sender] /\ sender'[s] = next
      /\ \A r \in Senders \ {s} : sender'[r] = sender[r]
  BY <1>1, SenderOthersKeep
<1>3. DeliveryTypeOK'
  BY <1>1, <1>2 DEF DeliveryInv, DeliveryTypeOK
<1>4. Carried(k, {}, {}, {s})'
  BY <1>2, HeldFacts DEF Carried, Enqueues, Holds
<1>5. InHand(k)'
  BY <1>4 DEF Carried, InHand, Holds
<1> QED
  BY <1>2, <1>3, <1>4, <1>5

\* The worker hands the row back to the broker.
LEMMA HandsBack ==
  ASSUME DeliveryInv, NEW s \in Senders, sender[s].pc # "idle",
         NEW k \in Keys, k = sender[s].task.key,
         sender' = [sender EXCEPT ![s] = IdleSender],
         UNCHANGED <<fanout, acknowledged, doubtful>>,
         lost' \subseteq Keys, lost \subseteq lost',
         note' \in [Keys -> Notification], \A j \in Keys \ {k} : note'[j] = note[j],
         NEW B \in SUBSET Task, \A t \in B : t.key = k, broker' = broker \cup B
  PROVE  /\ DeliveryTypeOK' /\ \A j \in Keys \ {k} : KeyInv(j)'
         /\ Carried(k, {}, B, {})'
<1>1. broker' \subseteq Task /\ \A t \in Task : t.key # k => (t \in broker' <=> t \in broker)
  BY DEF DeliveryInv, DeliveryTypeOK
<1>2. /\ \A j \in Keys \ {k} : KeyInv(j)'
      /\ sender' \in [Senders -> Sender] /\ sender'[s] = IdleSender
      /\ \A r \in Senders \ {s} : sender'[r] = sender[r]
  <2>1. IdleSender \in Sender /\ IdleSender.pc = "idle" /\ UNCHANGED fanout
    BY IdleTyped
  <2>2. \A j \in Keys \ {k} : /\ note'[j] = note[j] /\ acknowledged'[j] = acknowledged[j]
                              /\ doubtful'[j] = doubtful[j]
    OBVIOUS
  <2> QED
    BY <1>1, <2>1, <2>2, SenderOthersKeep
<1>3. DeliveryTypeOK'
  BY <1>1, <1>2 DEF DeliveryInv, DeliveryTypeOK
<1>4. Carried(k, {}, B, {})'
  BY <1>2, IdleTyped, HeldFacts DEF Carried, Enqueues, Holds
<1> QED
  BY <1>2, <1>3, <1>4

\* The worker settles the row, or loses it.
LEMMA LetsGo ==
  ASSUME DeliveryInv, NEW s \in Senders, sender[s].pc # "idle",
         NEW k \in Keys, k = sender[s].task.key,
         sender' = [sender EXCEPT ![s] = IdleSender],
         UNCHANGED <<fanout, broker, acknowledged, doubtful>>,
         lost' \subseteq Keys, lost \subseteq lost',
         note' \in [Keys -> Notification], \A j \in Keys \ {k} : note'[j] = note[j]
  PROVE  /\ DeliveryTypeOK' /\ Carried(k, {}, {}, {})' /\ \A j \in Keys \ {k} : KeyInv(j)'
<1>1. broker' \subseteq Task /\ \A t \in Task : t.key # k => (t \in broker' <=> t \in broker)
  BY DEF DeliveryInv, DeliveryTypeOK
<1>2. /\ \A j \in Keys \ {k} : KeyInv(j)'
      /\ sender' \in [Senders -> Sender] /\ sender'[s] = IdleSender
      /\ \A r \in Senders \ {s} : sender'[r] = sender[r]
  <2>1. IdleSender \in Sender /\ IdleSender.pc = "idle" /\ UNCHANGED fanout
    BY IdleTyped
  <2>2. \A j \in Keys \ {k} : /\ note'[j] = note[j] /\ acknowledged'[j] = acknowledged[j]
                              /\ doubtful'[j] = doubtful[j]
    OBVIOUS
  <2> QED
    BY <1>1, <2>1, <2>2, SenderOthersKeep
<1>3. DeliveryTypeOK'
  BY <1>1, <1>2 DEF DeliveryInv, DeliveryTypeOK
<1>4. Carried(k, {}, {}, {})'
  BY <1>2, IdleTyped, HeldFacts DEF Carried, Enqueues, Holds
<1> QED
  BY <1>2, <1>3, <1>4

LEMMA SenderChanges ==
  ASSUME DeliveryInv, NEW s \in Senders,
         NEW pc \in {"sending", "accepted", "refused", "retrying"}
  PROVE  \E next \in Sender :
            /\ next.pc = pc /\ next.task = sender[s].task
            /\ [sender EXCEPT ![s].pc = pc] = [sender EXCEPT ![s] = next]
<1>1. sender[s] \in Sender
  BY DEF DeliveryInv, DeliveryTypeOK
<1>2. [sender[s] EXCEPT !.pc = pc] \in Sender
  BY <1>1 DEF Sender
<1> WITNESS [sender[s] EXCEPT !.pc = pc] \in Sender
<1> QED
  BY <1>1 DEF Sender

LEMMA SendKeeps ==
  ASSUME DeliveryInv, NEW s \in Senders, Send(s)
  PROVE  DeliveryInv'
<1>1. sender[s].pc = "sending"
  BY DEF Send
<1> PICK k \in Keys : k = sender[s].task.key
  BY <1>1, HeldFacts
<1>2. /\ Untaken(k) /\ note[k].attempts = sender[s].task.retries
      /\ sender[s].task.retries \in 0..MaxRetries /\ RowLedger(k)
      /\ acknowledged[k] \in Nat /\ doubtful[k] \in Nat
  BY <1>1, HeldFacts DEF SenderLedger
<1>3. CASE /\ acknowledged' = [acknowledged EXCEPT ![k] = @ + 1] /\ UNCHANGED <<note, doubtful>>
           /\ sender' = [sender EXCEPT ![s].pc = "accepted"]
  <2>1. /\ acknowledged' \in [Keys -> Nat] /\ acknowledged'[k] = 1
        /\ \A j \in Keys \ {k} : acknowledged'[j] = acknowledged[j]
    BY <1>2, <1>3 DEF DeliveryInv, DeliveryTypeOK, Untaken
  <2>2. /\ DeliveryTypeOK' /\ \A j \in Keys \ {k} : KeyInv(j)'
        /\ Carried(k, {}, {}, {s})' /\ InHand(k)'
        /\ sender'[s].pc = "accepted" /\ sender'[s].task = sender[s].task
    <3>1. PICK next \in Sender : /\ next.pc = "accepted" /\ next.task = sender[s].task
                                 /\ sender' = [sender EXCEPT ![s] = next]
      BY <1>1, <1>3, HeldFacts, SenderChanges
    <3>2. /\ UNCHANGED <<fanout, broker, lost>> /\ sender[s].pc # "idle" /\ next.pc # "idle"
          /\ note' \in [Keys -> Notification] /\ acknowledged' \in [Keys -> Nat]
          /\ doubtful' \in [Keys -> Nat]
          /\ \A j \in Keys \ {k} : /\ note'[j] = note[j] /\ acknowledged'[j] = acknowledged[j]
                                   /\ doubtful'[j] = doubtful[j]
      BY <1>1, <1>3, <2>1, <3>1 DEF Send, DeliveryInv, DeliveryTypeOK
    <3>3. /\ DeliveryTypeOK' /\ \A j \in Keys \ {k} : KeyInv(j)'
          /\ Carried(k, {}, {}, {s})' /\ InHand(k)' /\ sender'[s] = next
      BY <3>1, <3>2, StillHeld
    <3> QED
      BY <3>1, <3>3
  <2>3. RowLedger(k)'
    <3>1. note'[k] = note[k] /\ note[k].status = "queued"
      BY <1>2, <1>3 DEF Untaken
    <3>2. /\ note[k].attempts <= MaxRetries + 1
          /\ acknowledged'[k] <= 1 /\ acknowledged'[k] + doubtful'[k] <= MaxRetries + 1
      BY <1>2, <1>3, <2>1, DeliveryAssumption DEF Untaken
    <3> QED
      BY <2>2, <3>1, <3>2 DEF RowLedger
  <2>4. KeyInv(k)'
    BY <1>2, <1>3, <2>1, <2>2, <2>3, HeldIsFine DEF Untaken
  <2> QED
    BY <2>2, <2>4 DEF DeliveryInv
<1>4. CASE /\ doubtful' \in {doubtful, [doubtful EXCEPT ![k] = @ + 1]}
           /\ UNCHANGED <<note, acknowledged>> /\ sender' = [sender EXCEPT ![s].pc = "refused"]
  <2>1. /\ doubtful' \in [Keys -> Nat] /\ doubtful'[k] <= doubtful[k] + 1
        /\ \A j \in Keys \ {k} : doubtful'[j] = doubtful[j]
    BY <1>2, <1>4 DEF DeliveryInv, DeliveryTypeOK
  <2>2. /\ DeliveryTypeOK' /\ \A j \in Keys \ {k} : KeyInv(j)'
        /\ Carried(k, {}, {}, {s})' /\ InHand(k)'
        /\ sender'[s].pc = "refused" /\ sender'[s].task = sender[s].task
    <3>1. PICK next \in Sender : /\ next.pc = "refused" /\ next.task = sender[s].task
                                 /\ sender' = [sender EXCEPT ![s] = next]
      BY <1>1, <1>4, HeldFacts, SenderChanges
    <3>2. /\ UNCHANGED <<fanout, broker, lost>> /\ sender[s].pc # "idle" /\ next.pc # "idle"
          /\ note' \in [Keys -> Notification] /\ acknowledged' \in [Keys -> Nat]
          /\ doubtful' \in [Keys -> Nat]
          /\ \A j \in Keys \ {k} : /\ note'[j] = note[j] /\ acknowledged'[j] = acknowledged[j]
                                   /\ doubtful'[j] = doubtful[j]
      BY <1>1, <1>4, <2>1, <3>1 DEF Send, DeliveryInv, DeliveryTypeOK
    <3>3. /\ DeliveryTypeOK' /\ \A j \in Keys \ {k} : KeyInv(j)'
          /\ Carried(k, {}, {}, {s})' /\ InHand(k)' /\ sender'[s] = next
      BY <3>1, <3>2, StillHeld
    <3> QED
      BY <3>1, <3>3
  <2>3. doubtful'[k] \in Nat
    BY <2>1
  <2>4. /\ note'[k] = note[k] /\ note[k].status = "queued"
        /\ note[k].attempts = sender'[s].task.retries
        /\ acknowledged'[k] = 0 /\ doubtful'[k] <= note'[k].attempts + 1
    BY <1>2, <1>4, <2>1, <2>2, DeliveryAssumption DEF Untaken
  <2>6. RowLedger(k)'
    <3>1. /\ note[k].attempts <= MaxRetries + 1
          /\ acknowledged'[k] <= 1 /\ acknowledged'[k] + doubtful'[k] <= MaxRetries + 1
      BY <1>2, <2>3, <2>4, DeliveryAssumption
    <3> QED
      BY <2>2, <2>4, <3>1 DEF RowLedger
  <2>5. KeyInv(k)'
    BY <2>2, <2>4, <2>6, HeldIsFine
  <2> QED
    BY <2>2, <2>5 DEF DeliveryInv
<1> QED
  BY <1>3, <1>4 DEF Send

\* What a failed attempt leaves in the row.
LEMMA FailedRow ==
  ASSUME DeliveryInv, NEW k \in Keys, NEW final \in BOOLEAN, AttemptFailed(k, final)
  PROVE  /\ note' \in [Keys -> Notification] /\ \A j \in Keys \ {k} : note'[j] = note[j]
         /\ note'[k].attempts = note[k].attempts + 1
         /\ note'[k].status = IF final THEN "failed" ELSE "queued"
<1>1. note \in [Keys -> Notification] /\ note[k].attempts \in Nat
  BY DEF DeliveryInv, DeliveryTypeOK, Notification
<1>2. [status |-> IF final THEN "failed" ELSE "queued", attempts |-> note[k].attempts + 1]
         \in Notification
  BY <1>1 DEF Notification, NotificationStatus
<1>3. note' = [note EXCEPT ![k] = [status |-> IF final THEN "failed" ELSE "queued",
                                   attempts |-> note[k].attempts + 1]]
  BY DEF AttemptFailed
<1> QED
  BY <1>1, <1>2, <1>3

LEMMA MarkKeeps ==
  ASSUME DeliveryInv, NEW s \in Senders, MarkSent(s)
  PROVE  DeliveryInv'
<1>1. sender[s].pc = "accepted" /\ sender[s].pc # "idle"
  BY DEF MarkSent
<1> PICK k \in Keys : k = sender[s].task.key
  BY <1>1, HeldFacts
<1>2. /\ note[k].attempts = sender[s].task.retries /\ acknowledged[k] = 1
      /\ doubtful[k] <= note[k].attempts /\ sender[s].task.retries \in 0..MaxRetries
      /\ note[k] \in Notification /\ doubtful[k] \in Nat /\ RowLedger(k)
  BY <1>1, HeldFacts DEF SenderLedger
<1>3. /\ note' \in [Keys -> Notification] /\ \A j \in Keys \ {k} : note'[j] = note[j]
      /\ note'[k].attempts = note[k].attempts + 1 /\ note'[k].status = "sent"
  BY <1>2 DEF MarkSent, DeliveryInv, DeliveryTypeOK, Notification, NotificationStatus
<1>4. /\ sender' = [sender EXCEPT ![s] = IdleSender]
      /\ UNCHANGED <<fanout, broker, acknowledged, doubtful, lost>> /\ lost' \subseteq Keys
  BY DEF MarkSent, DeliveryInv, DeliveryTypeOK
<1>5. /\ DeliveryTypeOK' /\ Carried(k, {}, {}, {})' /\ \A j \in Keys \ {k} : KeyInv(j)'
  BY <1>1, <1>3, <1>4, LetsGo
<1>6. RowLedger(k)'
  BY <1>2, <1>3, <1>4, DeliveryAssumption DEF RowLedger
<1> QED
  BY <1>5, <1>6, UncarriedIsFine DEF DeliveryInv

LEMMA FailureKeeps ==
  ASSUME DeliveryInv, NEW s \in Senders, RecordFailure(s)
  PROVE  DeliveryInv'
<1>1. sender[s].pc = "refused" /\ sender[s].pc # "idle"
  BY DEF RecordFailure
<1> PICK k \in Keys : k = sender[s].task.key
  BY <1>1, HeldFacts
<1>2. /\ note[k].attempts = sender[s].task.retries /\ acknowledged[k] = 0
      /\ doubtful[k] <= note[k].attempts + 1 /\ sender[s].task.retries \in 0..MaxRetries
      /\ note[k] \in Notification /\ doubtful[k] \in Nat /\ RowLedger(k)
  BY <1>1, HeldFacts DEF SenderLedger
<1>3. /\ UNCHANGED <<fanout, broker, acknowledged, doubtful, lost>>
      /\ lost' \subseteq Keys
      /\ acknowledged' \in [Keys -> Nat] /\ doubtful' \in [Keys -> Nat]
  BY DEF RecordFailure, DeliveryInv, DeliveryTypeOK
<1>4. CASE sender[s].task.retries >= MaxRetries
  <2>1. AttemptFailed(k, TRUE) /\ sender' = [sender EXCEPT ![s] = IdleSender]
    BY <1>4 DEF RecordFailure, AttemptFailed
  <2>2. /\ note' \in [Keys -> Notification] /\ \A j \in Keys \ {k} : note'[j] = note[j]
        /\ note'[k].attempts = note[k].attempts + 1 /\ note'[k].status = "failed"
    BY <2>1, FailedRow
  <2>3. /\ DeliveryTypeOK' /\ Carried(k, {}, {}, {})' /\ \A j \in Keys \ {k} : KeyInv(j)'
    BY <1>1, <1>3, <2>1, <2>2, LetsGo
  <2>4. RowLedger(k)'
    BY <1>2, <1>3, <2>2, DeliveryAssumption DEF RowLedger
  <2> QED
    BY <2>3, <2>4, UncarriedIsFine DEF DeliveryInv
<1>5. CASE ~(sender[s].task.retries >= MaxRetries)
  <2>1. AttemptFailed(k, FALSE) /\ sender' = [sender EXCEPT ![s].pc = "retrying"]
    BY <1>5 DEF RecordFailure, AttemptFailed
  <2>2. /\ note' \in [Keys -> Notification] /\ \A j \in Keys \ {k} : note'[j] = note[j]
        /\ note'[k].attempts = note[k].attempts + 1 /\ note'[k].status = "queued"
    BY <2>1, FailedRow
  <2>3. PICK next \in Sender : /\ next.pc = "retrying" /\ next.task = sender[s].task
                               /\ sender' = [sender EXCEPT ![s] = next]
    BY <2>1, SenderChanges
  <2>4. next.pc # "idle" /\ \A j \in Keys \ {k} : /\ note'[j] = note[j]
              /\ acknowledged'[j] = acknowledged[j] /\ doubtful'[j] = doubtful[j]
    BY <1>3, <2>2, <2>3
  <2>5. /\ DeliveryTypeOK' /\ \A j \in Keys \ {k} : KeyInv(j)'
        /\ Carried(k, {}, {}, {s})' /\ InHand(k)' /\ sender'[s] = next
    <3>1. /\ UNCHANGED <<fanout, broker, lost>>
          /\ note' \in [Keys -> Notification] /\ acknowledged' \in [Keys -> Nat]
          /\ doubtful' \in [Keys -> Nat]
      BY <1>3, <2>2
    <3>2. sender' = [sender EXCEPT ![s] = next] /\ sender[s].pc # "idle" /\ k = sender[s].task.key
      BY <1>1, <2>3
    <3>3. next.pc # "idle" /\ next.task = sender[s].task
      BY <2>3, <2>4
    <3> QED
      BY <2>4, <3>1, <3>2, <3>3, StillHeld
  <2>6. RowLedger(k)' /\ Untaken(k)'
    BY <1>2, <1>3, <1>5, <2>2, <2>5, DeliveryAssumption DEF RowLedger, Untaken
  <2>7. sender[s].task.retries < MaxRetries
    BY <1>2, <1>5, DeliveryAssumption
  <2>8. KeyInv(k)'
    BY <1>2, <2>2, <2>3, <2>5, <2>6, <2>7, HeldIsFine
  <2> QED
    BY <2>5, <2>8 DEF DeliveryInv
<1> QED
  BY <1>4, <1>5

LEMMA RescheduleKeeps ==
  ASSUME DeliveryInv, NEW s \in Senders, Reschedule(s)
  PROVE  DeliveryInv'
<1>1. sender[s].pc = "retrying" /\ sender[s].pc # "idle"
  BY DEF Reschedule
<1> PICK k \in Keys : k = sender[s].task.key
  BY <1>1, HeldFacts
<1>2. /\ Untaken(k) /\ note[k].attempts = sender[s].task.retries + 1
      /\ sender[s].task.retries < MaxRetries /\ sender[s].task.retries \in 0..MaxRetries
      /\ note[k] \in Notification /\ doubtful[k] \in Nat /\ RowLedger(k)
      /\ sender[s].task \in Task
  BY <1>1, HeldFacts DEF SenderLedger
<1>3. /\ sender' = [sender EXCEPT ![s] = IdleSender]
      /\ UNCHANGED <<fanout, acknowledged, doubtful, lost>> /\ lost' \subseteq Keys
  BY DEF Reschedule, DeliveryInv, DeliveryTypeOK
<1>4. CASE /\ broker' = broker \cup {[sender[s].task EXCEPT !.retries = @ + 1]}
           /\ UNCHANGED note
  <2>1. PICK t \in Task : /\ t.key = k /\ t.retries = sender[s].task.retries + 1
                          /\ broker' = broker \cup {t}
    <3>1. [sender[s].task EXCEPT !.retries = @ + 1] \in Task
      BY <1>2, DeliveryAssumption DEF Task
    <3>2. /\ [sender[s].task EXCEPT !.retries = @ + 1].key = k
          /\ [sender[s].task EXCEPT !.retries = @ + 1].retries = sender[s].task.retries + 1
      BY <1>2 DEF Task
    <3> QED
      BY <1>4, <3>1, <3>2
  <2>2. {t} \in SUBSET Task /\ \A u \in {t} : u.key = k
    BY <2>1
  <2>3. /\ note' \in [Keys -> Notification] /\ \A j \in Keys \ {k} : note'[j] = note[j]
    BY <1>4 DEF DeliveryInv, DeliveryTypeOK
  <2>4. /\ DeliveryTypeOK' /\ Carried(k, {}, {t}, {})' /\ \A j \in Keys \ {k} : KeyInv(j)'
    BY <1>1, <1>3, <2>1, <2>2, <2>3, HandsBack
  <2>5. KeyInv(k)'
    BY <1>2, <1>3, <1>4, <2>1, <2>4, InBrokerIsFine DEF Untaken
  <2> QED
    BY <2>4, <2>5 DEF DeliveryInv
<1>5. CASE note' = [note EXCEPT ![k].status = "failed"] /\ UNCHANGED broker
  <2>1. /\ note' \in [Keys -> Notification] /\ \A j \in Keys \ {k} : note'[j] = note[j]
        /\ note'[k].attempts = note[k].attempts /\ note'[k].status = "failed"
    BY <1>2, <1>5 DEF DeliveryInv, DeliveryTypeOK, Notification, NotificationStatus
  <2>2. /\ DeliveryTypeOK' /\ Carried(k, {}, {}, {})' /\ \A j \in Keys \ {k} : KeyInv(j)'
    BY <1>1, <1>3, <1>5, <2>1, LetsGo
  <2>3. RowLedger(k)'
    BY <1>2, <1>3, <2>1, DeliveryAssumption DEF RowLedger, Untaken
  <2> QED
    BY <2>2, <2>3, UncarriedIsFine DEF DeliveryInv
<1> QED
  BY <1>4, <1>5 DEF Reschedule

LEMMA SenderCrashKeeps ==
  ASSUME DeliveryInv, NEW s \in Senders, SenderCrash(s)
  PROVE  DeliveryInv'
<1>1. sender[s].pc # "idle"
  BY DEF SenderCrash
<1> PICK k \in Keys : k = sender[s].task.key
  BY <1>1, HeldFacts
<1>2. RowLedger(k)
  BY <1>1, HeldFacts
<1>3. /\ sender' = [sender EXCEPT ![s] = IdleSender] /\ lost' = lost \cup {k}
      /\ UNCHANGED <<fanout, note, broker, acknowledged, doubtful>>
      /\ lost' \subseteq Keys /\ note' \in [Keys -> Notification]
  BY DEF SenderCrash, DeliveryInv, DeliveryTypeOK
<1>4. /\ DeliveryTypeOK' /\ Carried(k, {}, {}, {})' /\ \A j \in Keys \ {k} : KeyInv(j)'
  BY <1>1, <1>3, LetsGo
<1>5. RowLedger(k)'
  BY <1>2, <1>3 DEF RowLedger
<1> QED
  BY <1>4, <1>5, UncarriedIsFine DEF DeliveryInv

-----------------------------------------------------------------------------
LEMMA DeliveryStart == DeliveryInit => DeliveryInv
<1> SUFFICES ASSUME DeliveryInit PROVE DeliveryInv
  OBVIOUS
<1>1. DeliveryTypeOK
  BY IdleTyped DEF DeliveryInit, DeliveryTypeOK, Notification, NotificationStatus
<1>2. ASSUME NEW k \in Keys PROVE KeyInv(k)
  <2>1. /\ \A f \in Fanouts : ~Enqueues(f, k)
        /\ broker = {}
        /\ \A s \in Senders : ~Holds(s, k)
    BY IdleTyped DEF DeliveryInit, Enqueues, Holds
  <2>2. OneCarrier(k) /\ FanoutLedger(k) /\ BrokerLedger(k) /\ SenderLedger(k)
    BY <2>1 DEF OneCarrier, FanoutLedger, BrokerLedger, SenderLedger
  <2>3. RowLedger(k)
    BY DeliveryAssumption DEF DeliveryInit, RowLedger
  <2> QED
    BY <2>2, <2>3 DEF KeyInv
<1> QED
  BY <1>1, <1>2 DEF DeliveryInv

LEMMA DeliveryKeeps == DeliveryInv /\ [DeliveryNext]_deliveryVars => DeliveryInv'
<1> SUFFICES ASSUME DeliveryInv, [DeliveryNext]_deliveryVars PROVE DeliveryInv'
  OBVIOUS
<1>1. CASE UNCHANGED deliveryVars
  BY <1>1 DEF deliveryVars, DeliveryInv, DeliveryTypeOK, KeyInv, OneCarrier, FanoutLedger,
     BrokerLedger, SenderLedger, RowLedger, Untaken, InHand, Enqueues, Holds
<1>2. ASSUME NEW f \in Fanouts, FanoutStart(f) \/ FanoutStep(f) \/ FanoutCrash(f)
      PROVE  DeliveryInv'
  BY <1>2, MovesKeep, CreateKeeps, EnqueueKeeps DEF FanoutStep
<1>3. ASSUME NEW s \in Senders, DeliverStep(s) \/ SenderCrash(s)
      PROVE  DeliveryInv'
  BY <1>3, TakeKeeps, SendKeeps, MarkKeeps, FailureKeeps, RescheduleKeeps, SenderCrashKeeps
  DEF DeliverStep
<1> QED
  BY <1>1, <1>2, <1>3 DEF DeliveryNext

LEMMA DeliveryInvariant == DeliverySpec => []DeliveryInv
  BY DeliveryStart, DeliveryKeeps, PTL DEF DeliverySpec

\* No interleaving of repeated fan-outs, retries and crashes makes a provider
\* acknowledge a message twice, or take it more often than the attempts settings
\* allow (notifications/tasks.py, send_notification).
THEOREM DeliveredOnce == DeliverySpec => [](DeliveryTypeOK /\ AcknowledgedOnce)
<1>1. DeliveryInv => DeliveryTypeOK /\ AcknowledgedOnce
  BY DEF DeliveryInv, KeyInv, RowLedger, AcknowledgedOnce
<1> QED
  BY <1>1, DeliveryInvariant, PTL

\* A queued row is somebody's to deliver, or its process died
\* (notifications/services.py, _enqueue; tasks.py, _record_failure).
THEOREM QueuedRowsAreHeld == DeliverySpec => []QueuedIsInHand
<1>1. DeliveryInv => QueuedIsInHand
  BY DEF DeliveryInv, KeyInv, RowLedger, QueuedIsInHand
<1> QED
  BY <1>1, DeliveryInvariant, PTL

-----------------------------------------------------------------------------
(***************************************************************************)
(* Jobs. Which rows an import accepts is a recursion over its file, of     *)
(* which nothing is needed here: whatever was accepted is inserted and     *)
(* reported as a whole.                                                    *)
(***************************************************************************)
JobsShape ==
    /\ job \in [Imports \cup Exports -> Job]
    /\ DOMAIN accepted = Imports /\ DOMAIN report = Imports

\* What import i has done, by how far it has come.
ImportInv(i) ==
    /\ Created(i) \in {{}, Rows(i, accepted[i])}
    /\ job[i].pc \in {"new", "queued", "read", "write"} => Created(i) = {}
    /\ job[i].pc = "report" => Created(i) = Rows(i, accepted[i])
    /\ job[i].status = "failed" => job[i].pc = "end" /\ Created(i) = {}
    /\ job[i].status = "completed" =>
          /\ job[i].pc = "end"
          /\ report[i] = accepted[i] /\ Created(i) = Rows(i, accepted[i])

ExportInv(x) ==
    /\ job[x].pc = "report" => x \in stored
    /\ job[x].status = "completed" => job[x].pc = "end" /\ x \in stored

JobsInv ==
    JobsShape /\ (\A i \in Imports : ImportInv(i)) /\ (\A x \in Exports : ExportInv(x))

-----------------------------------------------------------------------------
LEMMA JobsInvHolds == JobsInv => JobsTellTheTruth
  BY DEF JobsInv, ImportInv, ExportInv, JobsTellTheTruth

\* A step moves one job: the others keep their rows and what they did.
LEMMA AtMoves ==
  ASSUME JobsShape, NEW j \in Imports \cup Exports,
         NEW pc \in {"new", "queued", "read", "write", "report", "end", "dead"},
         NEW status \in Status, At(j, pc, status)
  PROVE  /\ job' \in [Imports \cup Exports -> Job]
         /\ job'[j].pc = pc
         /\ job'[j].status \in {status, "none"}
         /\ \A d \in (Imports \cup Exports) \ {j} : job'[d] = job[d]
  BY DEF At, JobsShape, Job, Status

LEMMA OtherJobsKeep ==
  ASSUME JobsInv, NEW j \in Imports \cup Exports,
         job' \in [Imports \cup Exports -> Job],
         DOMAIN accepted' = Imports, DOMAIN report' = Imports,
         \A d \in (Imports \cup Exports) \ {j} : job'[d] = job[d],
         \A i \in Imports \ {j} : /\ accepted'[i] = accepted[i] /\ report'[i] = report[i]
                                  /\ Created(i)' = Created(i),
         stored \subseteq stored'
  PROVE  /\ JobsShape'
         /\ \A i \in Imports \ {j} : ImportInv(i)'
         /\ \A x \in Exports \ {j} : ExportInv(x)'
<1>1. ASSUME NEW i \in Imports \ {j} PROVE ImportInv(i)'
  BY <1>1 DEF JobsInv, ImportInv, Rows
<1>2. ASSUME NEW x \in Exports \ {j} PROVE ExportInv(x)'
  BY <1>2 DEF JobsInv, ExportInv
<1> QED
  BY <1>1, <1>2 DEF JobsShape

\* Steps that write neither rows nor reports nor files.
LEMMA PlainSteps ==
  ASSUME JobsInv, NEW j \in Imports \cup Exports,
         Submit(j) \/ Process(j) \/ Fail(j) \/ Die(j)
  PROVE  JobsInv'
<1>1. UNCHANGED <<accepted, users, report, stored>>
  BY DEF Submit, Process, Fail, Die
<1>2. \A i \in Imports : Created(i)' = Created(i) /\ Rows(i, accepted[i])' = Rows(i, accepted[i])
  BY <1>1 DEF Created, Rows
<1>3. /\ job' \in [Imports \cup Exports -> Job]
      /\ \A d \in (Imports \cup Exports) \ {j} : job'[d] = job[d]
      /\ \/ job[j].pc = "new" /\ job'[j].pc \in {"read", "queued"} /\ job'[j].status \in {"none", "pending"}
         \/ job[j].pc = "new" /\ job'[j].pc = "end" /\ job'[j].status \in {"none", "failed"}
         \/ job[j].pc = "queued" /\ job'[j].pc = "read" /\ job'[j].status \in {"none", "processing"}
         \/ /\ job[j].pc \in {"read", "write"}
            /\ job'[j].pc = "end" /\ job'[j].status \in {"none", "failed"}
         \/ /\ job[j].pc \in {"read", "write", "report"}
            /\ job'[j].pc = "dead" /\ job'[j].status = job[j].status
  <2>1. JobsShape
    BY DEF JobsInv
  <2>2. CASE Submit(j) \/ Process(j) \/ Fail(j)
    BY <2>1, <2>2, AtMoves DEF Submit, Process, Fail, Status
  <2>3. CASE Die(j)
    BY <2>1, <2>3 DEF Die, JobsShape, Job
  <2> QED
    BY <2>2, <2>3
<1>4. JobsShape' /\ (\A i \in Imports \ {j} : ImportInv(i)') /\ (\A x \in Exports \ {j} : ExportInv(x)')
  BY <1>1, <1>2, <1>3, OtherJobsKeep DEF JobsInv, JobsShape
<1>5. CASE j \in Imports
  <2>1. ImportInv(j)'
    BY <1>1, <1>2, <1>3, <1>5 DEF JobsInv, ImportInv
  <2> QED
    BY <1>4, <1>5, <2>1, JobsAssumption DEF JobsInv
<1>6. CASE j \in Exports
  <2>1. ExportInv(j)'
    BY <1>1, <1>3, <1>6 DEF JobsInv, ExportInv
  <2> QED
    BY <1>4, <1>6, <2>1, JobsAssumption DEF JobsInv
<1> QED
  BY <1>5, <1>6

LEMMA ImportSteps ==
  ASSUME JobsInv, NEW i \in Imports, ReadTable(i) \/ InsertRows(i) \/ ReportImport(i)
  PROVE  JobsInv'
<1> USE JobsAssumption
<1>1. JobsShape /\ ImportInv(i)
  BY DEF JobsInv
<1>2. CASE ReadTable(i)
  <2>1. /\ accepted' = [accepted EXCEPT ![i] = Accepted(i)] /\ UNCHANGED <<users, report, stored>>
        /\ At(i, "write", "processing") /\ job[i].pc = "read"
    BY <1>2 DEF ReadTable
  <2>2. \A d \in Imports : Created(d)' = Created(d)
    BY <2>1 DEF Created
  <2>3. /\ job' \in [Imports \cup Exports -> Job] /\ job'[i].pc = "write"
        /\ job'[i].status \in {"processing", "none"}
        /\ \A d \in (Imports \cup Exports) \ {i} : job'[d] = job[d]
    BY <1>1, <2>1, AtMoves DEF Status
  <2>4. /\ DOMAIN accepted' = Imports /\ DOMAIN report' = Imports
        /\ \A d \in Imports \ {i} : accepted'[d] = accepted[d]
    BY <1>1, <2>1 DEF JobsShape
  <2>5. ImportInv(i)'
    BY <1>1, <2>1, <2>2, <2>3 DEF ImportInv
  <2>6. /\ JobsShape' /\ \A d \in Imports \ {i} : ImportInv(d)'
        /\ \A x \in Exports \ {i} : ExportInv(x)'
    <3>1. /\ stored \subseteq stored'
          /\ \A d \in Imports \ {i} : report'[d] = report[d] /\ accepted'[d] = accepted[d]
      BY <2>1, <2>4
    <3> QED
      BY <2>2, <2>3, <2>4, <3>1, OtherJobsKeep
  <2> QED
    BY <2>5, <2>6 DEF JobsInv
<1>3. CASE InsertRows(i)
  <2>1. UNCHANGED <<accepted, report, stored>> /\ job[i].pc = "write" /\ Created(i) = {}
    BY <1>1, <1>3 DEF InsertRows, ImportInv
  <2>2. Rows(i, accepted[i])' = Rows(i, accepted[i])
    BY <2>1 DEF Rows
  <2>3. CASE users' = users \cup Rows(i, accepted[i]) /\ At(i, "report", "processing")
    <3>1. \A u \in Rows(i, accepted[i]) : u.by = i
      BY DEF Rows
    <3>2. /\ Created(i)' = Rows(i, accepted[i])
          /\ \A d \in Imports \ {i} : Created(d)' = Created(d)
      BY <2>1, <2>3, <3>1 DEF Created
    <3>3. /\ job' \in [Imports \cup Exports -> Job] /\ job'[i].pc = "report"
          /\ job'[i].status \in {"processing", "none"}
          /\ \A d \in (Imports \cup Exports) \ {i} : job'[d] = job[d]
      BY <1>1, <2>3, AtMoves DEF Status
    <3>4. ImportInv(i)'
      BY <2>2, <3>2, <3>3 DEF ImportInv
    <3> QED
      BY <1>1, <2>1, <3>2, <3>3, <3>4, OtherJobsKeep DEF JobsInv, JobsShape
  <2>4. CASE UNCHANGED users /\ At(i, "end", "failed")
    <3>1. \A d \in Imports : Created(d)' = Created(d)
      BY <2>4 DEF Created
    <3>2. /\ job' \in [Imports \cup Exports -> Job] /\ job'[i].pc = "end"
          /\ job'[i].status \in {"failed", "none"}
          /\ \A d \in (Imports \cup Exports) \ {i} : job'[d] = job[d]
      BY <1>1, <2>4, AtMoves DEF Status
    <3>3. ImportInv(i)'
      BY <2>1, <3>1, <3>2 DEF ImportInv
    <3> QED
      BY <1>1, <2>1, <3>1, <3>2, <3>3, OtherJobsKeep DEF JobsInv, JobsShape
  <2> QED
    BY <1>3, <2>3, <2>4 DEF InsertRows
<1>4. CASE ReportImport(i)
  <2>1. /\ report' = [report EXCEPT ![i] = accepted[i]] /\ UNCHANGED <<accepted, users, stored>>
        /\ At(i, "end", "completed") /\ job[i].pc = "report"
    BY <1>4 DEF ReportImport
  <2>2. /\ \A d \in Imports : Created(d)' = Created(d)
        /\ Rows(i, accepted[i])' = Rows(i, accepted[i])
    BY <2>1 DEF Created, Rows
  <2>3. /\ job' \in [Imports \cup Exports -> Job] /\ job'[i].pc = "end"
        /\ job'[i].status \in {"completed", "none"}
        /\ \A d \in (Imports \cup Exports) \ {i} : job'[d] = job[d]
    BY <1>1, <2>1, AtMoves DEF Status
  <2>4. /\ DOMAIN accepted' = Imports /\ DOMAIN report' = Imports /\ report'[i] = accepted'[i]
        /\ \A d \in Imports \ {i} : report'[d] = report[d]
    BY <1>1, <2>1 DEF JobsShape
  <2>5. ImportInv(i)'
    BY <1>1, <2>1, <2>2, <2>3, <2>4 DEF ImportInv
  <2> QED
    BY <2>1, <2>2, <2>3, <2>4, <2>5, OtherJobsKeep DEF JobsInv
<1> QED
  BY <1>2, <1>3, <1>4

LEMMA ExportSteps ==
  ASSUME JobsInv, NEW x \in Exports, Render(x) \/ CompleteExport(x)
  PROVE  JobsInv'
<1> USE JobsAssumption
<1>1. JobsShape /\ ExportInv(x)
  BY DEF JobsInv
<1>2. /\ UNCHANGED <<accepted, users, report>> /\ stored \subseteq stored'
      /\ \A i \in Imports : Created(i)' = Created(i)
  BY DEF Render, CompleteExport, Created
<1>3. /\ job' \in [Imports \cup Exports -> Job]
      /\ \A d \in (Imports \cup Exports) \ {x} : job'[d] = job[d]
      /\ job'[x].pc \in {"report", "end"} /\ x \in stored'
      /\ job'[x].status = "completed" => job'[x].pc = "end"
  BY <1>1, AtMoves DEF Render, CompleteExport, ExportInv, Status
<1>4. ExportInv(x)'
  BY <1>3 DEF ExportInv
<1> QED
  BY <1>1, <1>2, <1>3, <1>4, OtherJobsKeep DEF JobsInv, JobsShape

-----------------------------------------------------------------------------
LEMMA JobsStart == JobsInit => JobsInv
<1> SUFFICES ASSUME JobsInit PROVE JobsInv
  OBVIOUS
<1>1. JobsShape /\ \A j \in Imports \cup Exports : job[j].status = "none" /\ job[j].pc = "new"
  BY DEF JobsInit, JobsShape, Job, Status
<1>2. \A i \in Imports : Created(i) = {}
  BY DEF JobsInit, Created
<1> QED
  BY <1>1, <1>2 DEF JobsInv, ImportInv, ExportInv

LEMMA JobsKeep == JobsInv /\ [JobsNext]_jobsVars => JobsInv'
<1> SUFFICES ASSUME JobsInv, [JobsNext]_jobsVars PROVE JobsInv'
  OBVIOUS
<1>1. CASE UNCHANGED jobsVars
  BY <1>1 DEF jobsVars, JobsInv, JobsShape, ImportInv, ExportInv, Created, Rows
<1>2. CASE JobsNext
  BY <1>2, PlainSteps, ImportSteps, ExportSteps DEF JobsNext, WorkStep
<1> QED
  BY <1>1, <1>2

\* Whatever the files hold, however imports, exports and crashes interleave, a
\* job's status says what was done (importers.py, accounts/tasks.py,
\* results/tasks.py).
THEOREM JobsAreTrue == JobsSpec => []JobsTellTheTruth
  BY JobsStart, JobsKeep, JobsInvHolds, PTL DEF JobsSpec

-----------------------------------------------------------------------------
(***************************************************************************)
(* Jobs, the numbers two students share.  Which rows an import accepts is  *)
(* a recursion over its file: that there is such a function, and what it   *)
(* keeps, is shown by way of the first row at which it would fail.         *)
(***************************************************************************)
LEMMA LeastNumber ==
  ASSUME NEW T, T \subseteq Nat, T # {}
  PROVE  \E x \in T : \A y \in T : x <= y
<1> DEFINE R == OpToRel(<, Nat)
<1>1. IsWellFoundedOn(R, Nat)
  BY NatLessThanWellFounded
<1>2. \A x, y \in Nat : x < y => <<x, y>> \in R
  BY DEF OpToRel
<1> HIDE DEF R
<1>3. \E x \in T : \A y \in T : ~(<<y, x>> \in R)
  BY <1>1, WFMin
<1>4. PICK x \in T : \A y \in T : ~(<<y, x>> \in R)
  BY <1>3
<1>5. \A y \in T : x \in Nat /\ y \in Nat /\ ~(y < x)
  BY <1>2, <1>4
<1>6. \A y \in T : x <= y
  BY <1>5
<1> QED
  BY <1>4, <1>6

\* One row of import i more: it joins those before it when it passes.
Passed(i, n, before) ==
    LET row == File[i][n]
        taken == users \cup Rows(i, before)
    IN  IF row.valid /\ \A u \in taken : u.email # row.email /\ u.matric # row.matric
        THEN before \cup {n} ELSE before

Scans(seen, i, k) == seen = [n \in 0..k |-> IF n = 0 THEN {} ELSE Passed(i, n, seen[n - 1])]

LEMMA ScanExists ==
  ASSUME NEW i, NEW k \in Nat
  PROVE  \E seen : Scans(seen, i, k)
<1> DEFINE T == {m \in Nat : ~\E seen : Scans(seen, i, m)}
<1>1. SUFFICES ASSUME T # {} PROVE FALSE
  OBVIOUS
<1>2. T \subseteq Nat /\ \A m \in T : ~\E seen : Scans(seen, i, m)
  OBVIOUS
<1>3. \A m \in Nat : m \notin T => \E seen : Scans(seen, i, m)
  OBVIOUS
<1> HIDE DEF T
<1>4. PICK m \in T : \A l \in T : m <= l
  BY <1>1, <1>2, LeastNumber
<1>5. CASE m = 0
  <2> DEFINE g == [n \in 0..0 |-> {}]
  <2>1. Scans(g, i, 0)
    BY DEF Scans
  <2> QED
    BY <1>2, <1>5, <2>1
<1>6. CASE m # 0
  <2>1. m \in Nat /\ m - 1 \in Nat /\ m - 1 \notin T
    BY <1>2, <1>4, <1>6
  <2>2. PICK f : Scans(f, i, m - 1)
    BY <1>3, <2>1
  <2> DEFINE g == [n \in 0..m |-> IF n = m THEN Passed(i, m, f[m - 1]) ELSE f[n]]
  <2>3. ASSUME NEW n \in 0..m PROVE g[n] = IF n = 0 THEN {} ELSE Passed(i, n, g[n - 1])
    <3>1. CASE n = m
      <4>1. m - 1 \in 0..m /\ m - 1 # m
        BY <2>1
      <4> QED
        BY <1>6, <3>1, <4>1
    <3>2. CASE n # m
      <4>1. n \in 0..(m - 1) /\ (n # 0 => n - 1 \in 0..(m - 1) /\ n - 1 \in 0..m /\ n - 1 # m)
        BY <2>1, <3>2
      <4>2. f[n] = IF n = 0 THEN {} ELSE Passed(i, n, f[n - 1])
        BY <2>2, <4>1 DEF Scans
      <4> QED
        BY <3>2, <4>1, <4>2
    <3> QED
      BY <3>1, <3>2
  <2>4. Scans(g, i, m)
    <3>1. g = [n \in 0..m |-> g[n]]
      OBVIOUS
    <3> HIDE DEF g
    <3> QED
      BY <2>3, <3>1 DEF Scans
  <2> QED
    BY <1>2, <2>4
<1> QED
  BY <1>5, <1>6

LEMMA AcceptedScans ==
  ASSUME NEW i \in Imports
  PROVE  \E seen : Scans(seen, i, Len(File[i])) /\ Accepted(i) = seen[Len(File[i])]
<1>1. Len(File[i]) \in Nat
  BY JobsAssumption
<1>2. \E seen : Scans(seen, i, Len(File[i]))
  BY <1>1, ScanExists
<1> QED
  BY <1>2 DEF Accepted, Scans, Passed

\* Rows that agree with no user and with no other of them in their number.
Apart(i, numbers) ==
    /\ \A n \in numbers, u \in users : u.matric # File[i][n].matric
    /\ \A m, n \in numbers : m # n => File[i][m].matric # File[i][n].matric

LEMMA PassedApart ==
  ASSUME NEW i, NEW n, NEW before, Apart(i, before)
  PROVE  Apart(i, Passed(i, n, before))
<1> DEFINE row == File[i][n]
           taken == users \cup Rows(i, before)
<1>1. CASE Passed(i, n, before) = before
  BY <1>1
<1>2. CASE /\ Passed(i, n, before) = before \cup {n}
           /\ \A u \in taken : u.matric # row.matric
  <2>1. ASSUME NEW m \in before PROVE File[i][m].matric # row.matric
    <3> DEFINE u == [email |-> File[i][m].email, matric |-> File[i][m].matric, by |-> i]
    <3>1. u \in taken /\ u.matric = File[i][m].matric
      BY DEF Rows
    <3> HIDE DEF u
    <3> QED
      BY <1>2, <3>1
  <2> QED
    BY <1>2, <2>1 DEF Apart
<1> QED
  BY <1>1, <1>2 DEF Passed

LEMMA ScanApart ==
  ASSUME NEW i, NEW k \in Nat, NEW seen, Scans(seen, i, k)
  PROVE  Apart(i, seen[k])
<1> DEFINE T == {n \in 0..k : ~Apart(i, seen[n])}
<1>1. SUFFICES ASSUME T # {} PROVE FALSE
  OBVIOUS
<1>2. T \subseteq 0..k /\ T \subseteq Nat /\ \A n \in T : ~Apart(i, seen[n])
  OBVIOUS
<1>3. \A n \in 0..k : n \notin T => Apart(i, seen[n])
  OBVIOUS
<1> HIDE DEF T
<1>4. PICK n \in T : \A m \in T : n <= m
  BY <1>1, <1>2, LeastNumber
<1>5. n \in 0..k /\ seen[n] = IF n = 0 THEN {} ELSE Passed(i, n, seen[n - 1])
  BY <1>2 DEF Scans
<1>6. CASE n = 0
  <2>1. Apart(i, {})
    BY DEF Apart
  <2> QED
    BY <1>2, <1>5, <1>6, <2>1
<1>7. CASE n # 0
  <2>1. n - 1 \in 0..k /\ n - 1 \notin T
    BY <1>4, <1>5, <1>7
  <2>2. Apart(i, Passed(i, n, seen[n - 1]))
    BY <1>3, <2>1, PassedApart
  <2> QED
    BY <1>2, <1>5, <1>7, <2>2
<1> QED
  BY <1>6, <1>7

LEMMA AcceptedApart == \A i \in Imports : Apart(i, Accepted(i))
<1> SUFFICES ASSUME NEW i \in Imports PROVE Apart(i, Accepted(i))
  OBVIOUS
<1>1. PICK seen : Scans(seen, i, Len(File[i])) /\ Accepted(i) = seen[Len(File[i])]
  BY AcceptedScans
<1>2. Len(File[i]) \in Nat
  BY JobsAssumption
<1> QED
  BY <1>1, <1>2, ScanApart

\* What an import accepted is apart from the rows of those it saw, and who was
\* seen has inserted.
AcceptedInv(i) ==
    /\ \A n \in accepted[i], u \in users : u.by \in saw[i] => u.matric # File[i][n].matric
    /\ \A m, n \in accepted[i] : m # n => File[i][m].matric # File[i][n].matric
    /\ \A d \in saw[i] : \E u \in users : u.by = d

TwinsInv ==
    /\ JobsInv
    /\ DOMAIN saw = Imports
    /\ \A u \in users : u.by \in Imports
    /\ \A i \in Imports : AcceptedInv(i)
    /\ TwinsOverlapped

LEMMA ReadKeepsTwins ==
  ASSUME TwinsInv, NEW i \in Imports, ReadTable(i)
  PROVE  TwinsInv'
<1>1. JobsInv'
  BY ImportSteps DEF TwinsInv
<1>2. /\ accepted' = [accepted EXCEPT ![i] = Accepted(i)]
      /\ saw' = [saw EXCEPT ![i] = {u.by : u \in users}]
      /\ users' = users /\ job[i].pc = "read"
  BY DEF ReadTable
<1>3. \A d \in Imports : /\ accepted'[d] = IF d = i THEN Accepted(i) ELSE accepted[d]
                         /\ saw'[d] = IF d = i THEN {u.by : u \in users} ELSE saw[d]
  BY <1>2 DEF TwinsInv, JobsInv, JobsShape
<1>4. Apart(i, Accepted(i))
  BY AcceptedApart
<1>5. \A d \in Imports : AcceptedInv(d)'
  <2>1. AcceptedInv(i)'
    <3>1. accepted'[i] = Accepted(i) /\ saw'[i] = {u.by : u \in users} /\ users' = users
      BY <1>2, <1>3
    <3>2. \A n \in accepted'[i], u \in users' : u.matric # File[i][n].matric
      BY <1>4, <3>1 DEF Apart
    <3>3. \A m, n \in accepted'[i] : m # n => File[i][m].matric # File[i][n].matric
      BY <1>4, <3>1 DEF Apart
    <3>4. \A d \in saw'[i] : \E u \in users' : u.by = d
      BY <3>1
    <3> QED
      BY <3>2, <3>3, <3>4 DEF AcceptedInv
  <2>2. ASSUME NEW d \in Imports, d # i PROVE AcceptedInv(d)'
    BY <1>2, <1>3, <2>2 DEF AcceptedInv, TwinsInv
  <2> QED
    BY <2>1, <2>2
<1>6. \A u \in users : u.by # i
  BY <1>2 DEF TwinsInv, JobsInv, ImportInv, Created
<1>7. TwinsOverlapped'
  BY <1>2, <1>3, <1>6 DEF TwinsInv, TwinsOverlapped
<1> QED
  BY <1>1, <1>2, <1>5, <1>7 DEF TwinsInv

LEMMA InsertKeepsTwins ==
  ASSUME TwinsInv, NEW i \in Imports, InsertRows(i)
  PROVE  TwinsInv'
<1>1. JobsInv'
  BY ImportSteps DEF TwinsInv
<1>2. UNCHANGED <<accepted, saw>> /\ job[i].pc = "write"
  BY DEF InsertRows
<1>3. CASE users' = users
  BY <1>1, <1>2, <1>3 DEF TwinsInv, AcceptedInv, TwinsOverlapped
<1>4. CASE users' = users \cup Rows(i, accepted[i])
  <2>1. \A u \in users : u.by # i
    BY <1>2 DEF TwinsInv, JobsInv, ImportInv, Created
  <2>2. \A d \in Imports : i \notin saw[d]
    BY <2>1 DEF TwinsInv, AcceptedInv
  <2>3. \A w \in Rows(i, accepted[i]) : w.by = i /\ \E n \in accepted[i] : w.matric = File[i][n].matric
    BY DEF Rows
  <2>4. ASSUME NEW w \in Rows(i, accepted[i]), NEW v \in users, v.matric = w.matric
        PROVE  v.by # i /\ v.by \notin saw[i] /\ i \notin saw[v.by]
    <3>1. AcceptedInv(i) /\ v.by \in Imports
      BY DEF TwinsInv
    <3> QED
      BY <2>1, <2>2, <2>3, <2>4, <3>1 DEF AcceptedInv
  <2>5. ASSUME NEW w \in Rows(i, accepted[i]), NEW v \in Rows(i, accepted[i]), v # w
        PROVE  v.matric # w.matric
    <3>1. PICK m \in accepted[i], n \in accepted[i] :
             /\ w = [email |-> File[i][m].email, matric |-> File[i][m].matric, by |-> i]
             /\ v = [email |-> File[i][n].email, matric |-> File[i][n].matric, by |-> i]
      BY DEF Rows
    <3>2. m # n
      BY <2>5, <3>1
    <3>3. File[i][m].matric # File[i][n].matric
      BY <3>2 DEF TwinsInv, AcceptedInv
    <3> QED
      BY <3>1, <3>3
  <2>6. TwinsOverlapped'
    <3> SUFFICES ASSUME NEW u \in users', NEW v \in users', u # v, u.matric = v.matric
                 PROVE  u.by # v.by /\ u.by \notin saw[v.by] /\ v.by \notin saw[u.by]
      BY <1>2 DEF TwinsOverlapped
    <3>1. CASE u \in users /\ v \in users
      BY <3>1 DEF TwinsInv, TwinsOverlapped
    <3>2. CASE u \in users /\ v \in Rows(i, accepted[i])
      BY <2>3, <2>4, <3>2
    <3>3. CASE u \in Rows(i, accepted[i]) /\ v \in users
      BY <2>3, <2>4, <3>3
    <3>4. CASE u \in Rows(i, accepted[i]) /\ v \in Rows(i, accepted[i])
      BY <2>5, <3>4
    <3> QED
      BY <1>4, <3>1, <3>2, <3>3, <3>4
  <2>7. ASSUME NEW d \in Imports PROVE AcceptedInv(d)'
    <3>1. AcceptedInv(d) /\ i \notin saw[d]
      BY <2>2 DEF TwinsInv
    <3> QED
      BY <1>2, <1>4, <2>3, <3>1 DEF AcceptedInv
  <2>8. \A u \in users' : u.by \in Imports
    BY <1>4, <2>3 DEF TwinsInv
  <2> QED
    BY <1>1, <1>2, <2>6, <2>7, <2>8 DEF TwinsInv
<1> QED
  BY <1>3, <1>4 DEF InsertRows

LEMMA TwinsStart == JobsInit => TwinsInv
  BY JobsStart DEF JobsInit, TwinsInv, AcceptedInv, TwinsOverlapped

LEMMA TwinsKeep == TwinsInv /\ [JobsNext]_jobsVars => TwinsInv'
<1> SUFFICES ASSUME TwinsInv, [JobsNext]_jobsVars PROVE TwinsInv'
  OBVIOUS
<1>1. CASE UNCHANGED <<accepted, saw, users>>
  <2>1. JobsInv'
    BY JobsKeep DEF TwinsInv
  <2> QED
    BY <1>1, <2>1 DEF TwinsInv, AcceptedInv, TwinsOverlapped
<1>2. ASSUME NEW i \in Imports, ReadTable(i) \/ InsertRows(i) PROVE TwinsInv'
  BY <1>2, ReadKeepsTwins, InsertKeepsTwins
<1> QED
  BY <1>1, <1>2 DEF JobsNext, jobsVars, WorkStep, Submit, Process, Fail, ReportImport, Render,
                    CompleteExport, Die

\* Whatever the files hold and however many imports run, die and fail, two users
\* share a number only when their imports each read the table before the other's
\* rows were in it (importers.import_students).
THEOREM TwinsOnlyOverlap == JobsSpec => []TwinsOverlapped
<1>1. TwinsInv => TwinsOverlapped
  BY DEF TwinsInv
<1> QED
  BY <1>1, TwinsStart, TwinsKeep, PTL DEF JobsSpec
=============================================================================
