----------------------------- MODULE EventStream -----------------------------
(***************************************************************************)
(* The event path of one job: publishEvent (job/service.go) appends to the *)
(* store's log under the store lock (AppendJobEvent assigns seq) and then  *)
(* calls Hub.Publish, outside that lock; Hub.Publish holds the hub's read  *)
(* lock while it offers the event to every subscriber channel, dropping it *)
(* where the buffer is full; streamJobEvents (api/handlers_jobs.go) lists  *)
(* the backlog after the client's Last-Event-ID, subscribes, writes the    *)
(* backlog and then forwards live events until the client goes away; the  *)
(* client reconnects with the id of the last event it received.           *)
(*                                                                         *)
(* Events differ only in their seq, so the log is its length and an event  *)
(* is its seq.  A subscription is named by the connection that made it.    *)
(***************************************************************************)
EXTENDS Naturals, Sequences, FiniteSets

CONSTANTS
  Publishers,   \* goroutines calling publishEvent for the job (runner, task goroutines, API)
  MaxEvents,    \* bound on the number of events appended
  BufSize,      \* the subscriber channel's buffer (128 in streamJobEvents)
  MaxConnects   \* bound on the number of stream connections of the client

ASSUME MaxEvents \in Nat \ {0}
ASSUME BufSize \in Nat \ {0}
ASSUME MaxConnects \in Nat \ {0}

VARIABLES
  nEvents,      \* eventSeqByJob[job] = Len(eventsByJob[job]): events have seq 1..nEvents
  ppc,          \* publisher program point
  pevt,         \* seq of the event a publisher is publishing (0: none)
  psnap,        \* the subscription a publisher found in h.subs under RLock (0: none)
  readers,      \* publishers holding the hub's read lock
  subscribed,   \* the current connection's channel is in h.subs
  chan,         \* its buffered channel
  spc,          \* stream handler program point
  fromSeq,      \* the cursor the handler parsed from Last-Event-ID
  backlog,      \* events returned by ListEventsFrom, not yet written
  listedAt,     \* nEvents when the current connection listed its backlog
  liveRecv,     \* events the current connection forwarded from the hub
  recv,         \* every event the client has received, over all connections
  lastId,       \* the id: of the last event received (the next Last-Event-ID)
  connects,     \* connections made so far; the current one's subscription id
  panicked      \* a send on a closed channel happened

pubVars    == <<ppc, pevt, psnap>>
hubVars    == <<readers, subscribed, chan>>
streamVars == <<spc, fromSeq, backlog, listedAt, liveRecv>>
clientVars == <<recv, lastId, connects>>
vars == <<nEvents, pubVars, hubVars, streamVars, clientVars, panicked>>

Seqs == 1 .. MaxEvents

Init ==
  /\ nEvents = 0
  /\ ppc = [p \in Publishers |-> "append"]
  /\ pevt = [p \in Publishers |-> 0]
  /\ psnap = [p \in Publishers |-> 0]
  /\ readers = {}
  /\ subscribed = FALSE
  /\ chan = <<>>
  /\ spc = "idle"
  /\ fromSeq = 0
  /\ backlog = <<>>
  /\ listedAt = 0
  /\ liveRecv = <<>>
  /\ recv = <<>>
  /\ lastId = 0
  /\ connects = 0
  /\ panicked = FALSE

-----------------------------------------------------------------------------
(* publishEvent *)

\* store.AppendJobEvent: seq := eventSeqByJob + 1, appended under s.mu.
AppendJobEvent(p) ==
  /\ ppc[p] = "append"
  /\ nEvents < MaxEvents
  /\ nEvents' = nEvents + 1
  /\ pevt' = [pevt EXCEPT ![p] = nEvents + 1]
  /\ ppc' = [ppc EXCEPT ![p] = "rlock"]
  /\ UNCHANGED <<psnap, hubVars, streamVars, clientVars, panicked>>

\* Mutant of PublishRLock: the subscriber map is copied under the read lock,
\* which is released before the sends.
PublishRLockCopy(p) ==
  /\ ppc[p] = "rlock"
  /\ psnap' = [psnap EXCEPT ![p] = IF subscribed THEN connects ELSE 0]
  /\ ppc' = [ppc EXCEPT ![p] = "send"]
  /\ UNCHANGED <<nEvents, pevt, hubVars, streamVars, clientVars, panicked>>

\* Hub.Publish: h.mu.RLock(), look up h.subs[jobID].
PublishRLock(p) ==
  /\ ppc[p] = "rlock"
  /\ readers' = readers \cup {p}
  /\ psnap' = [psnap EXCEPT ![p] = IF subscribed THEN connects ELSE 0]
  /\ ppc' = [ppc EXCEPT ![p] = "send"]
  /\ UNCHANGED <<nEvents, pevt, subscribed, chan, streamVars, clientVars, panicked>>

\* Mutant of Offer: the send does not look at the buffer's capacity.
OfferUnbounded(c, e) == Append(c, e)

\* The non-blocking send to a channel: enqueue if there is room, else drop.
Offer(c, e) == IF Len(c) < BufSize THEN Append(c, e) ELSE c

\* Hub.Publish: the select on every channel found, then RUnlock.  A send on
\* the channel of a subscription that unsubscribe has closed panics.
PublishSend(p) ==
  /\ ppc[p] = "send"
  /\ LET open == subscribed /\ psnap[p] = connects
     IN /\ chan' = IF psnap[p] # 0 /\ open THEN Offer(chan, pevt[p]) ELSE chan
        /\ panicked' = (panicked \/ (psnap[p] # 0 /\ ~open))
  /\ readers' = readers \ {p}
  /\ ppc' = [ppc EXCEPT ![p] = "append"]
  /\ pevt' = [pevt EXCEPT ![p] = 0]
  /\ psnap' = [psnap EXCEPT ![p] = 0]
  /\ UNCHANGED <<nEvents, subscribed, streamVars, clientVars>>

-----------------------------------------------------------------------------
(* streamJobEvents and the client *)

\* The client (re)connects; parseLastEventSeq(Last-Event-ID).
StreamConnect ==
  /\ spc = "idle"
  /\ connects < MaxConnects
  /\ connects' = connects + 1
  /\ fromSeq' = lastId
  /\ liveRecv' = <<>>
  /\ spc' = "list"
  /\ UNCHANGED <<nEvents, pubVars, hubVars, backlog, listedAt, recv, lastId, panicked>>

\* ListJobEventsFromSeq: every event when fromSeq <= 0, else those with seq > fromSeq.
ListFrom(n, from) == [i \in 1 .. (n - from) |-> from + i]

StreamList ==
  /\ spc = "list"
  /\ backlog' = ListFrom(nEvents, fromSeq)
  /\ listedAt' = nEvents
  /\ spc' = "subscribe"
  /\ UNCHANGED <<nEvents, pubVars, hubVars, fromSeq, liveRecv, clientVars, panicked>>

\* Hub.Subscribe(jobID, 128) under the write lock.
StreamSubscribe ==
  /\ spc = "subscribe"
  /\ readers = {}
  /\ subscribed' = TRUE
  /\ chan' = <<>>
  /\ spc' = "flush"
  /\ UNCHANGED <<nEvents, pubVars, readers, fromSeq, backlog, listedAt, liveRecv, clientVars, panicked>>

\* writeSSE for every backlog event, then Flush.
StreamFlush ==
  /\ spc = "flush"
  /\ recv' = recv \o backlog
  /\ lastId' = IF backlog = <<>> THEN lastId ELSE backlog[Len(backlog)]
  /\ backlog' = <<>>
  /\ spc' = "forward"
  /\ UNCHANGED <<nEvents, pubVars, hubVars, fromSeq, listedAt, liveRecv, connects, panicked>>

\* case evt := <-sub: writeSSE, Flush.
StreamForward ==
  /\ spc = "forward"
  /\ chan # <<>>
  /\ recv' = Append(recv, Head(chan))
  /\ liveRecv' = Append(liveRecv, Head(chan))
  /\ lastId' = Head(chan)
  /\ chan' = Tail(chan)
  /\ UNCHANGED <<nEvents, pubVars, readers, subscribed, spc, fromSeq, backlog, listedAt, connects, panicked>>

\* case <-ctx.Done(): return; the deferred unsubscribe deletes and closes
\* the channel under the write lock.
StreamDisconnect ==
  /\ spc = "forward"
  /\ readers = {}
  /\ subscribed' = FALSE
  /\ chan' = <<>>
  /\ spc' = "idle"
  /\ UNCHANGED <<nEvents, pubVars, readers, fromSeq, backlog, listedAt, liveRecv, clientVars, panicked>>

-----------------------------------------------------------------------------
Next ==
  \/ \E p \in Publishers : AppendJobEvent(p) \/ PublishRLock(p) \/ PublishSend(p)
  \/ StreamConnect \/ StreamList \/ StreamSubscribe \/ StreamFlush
  \/ StreamForward \/ StreamDisconnect

\* Goroutines are scheduled fairly; the client may disconnect or stay away.
Fairness ==
  /\ \A p \in Publishers : WF_vars(AppendJobEvent(p) \/ PublishRLock(p) \/ PublishSend(p))
  /\ WF_vars(StreamList \/ StreamSubscribe \/ StreamFlush \/ StreamForward)

Spec == Init /\ [][Next]_vars /\ Fairness

-----------------------------------------------------------------------------
(* Properties *)

TypeOK ==
  /\ nEvents \in 0 .. MaxEvents
  /\ ppc \in [Publishers -> {"append", "rlock", "send"}]
  /\ pevt \in [Publishers -> 0 .. MaxEvents]
  /\ psnap \in [Publishers -> 0 .. MaxConnects]
  /\ readers \subseteq Publishers
  /\ subscribed \in BOOLEAN
  /\ chan \in Seq(Seqs) /\ Len(chan) <= BufSize
  /\ spc \in {"idle", "list", "subscribe", "flush", "forward"}
  /\ backlog \in Seq(Seqs)
  /\ recv \in Seq(Seqs) /\ liveRecv \in Seq(Seqs)
  /\ lastId \in 0 .. MaxEvents /\ fromSeq \in 0 .. MaxEvents
  /\ listedAt \in 0 .. MaxEvents
  /\ connects \in 0 .. MaxConnects
  /\ panicked \in BOOLEAN

\* Safety, about Hub.Publish holding RLock across its sends and the stream's
\* deferred unsubscribe closing the channel under Lock (spec 5): no
\* publisher ever sends on a channel that has been closed, which would panic.
NoSendOnClosedChannel == ~panicked

StrictlyIncreasing(s) == \A i \in 1 .. Len(s) - 1 : s[i] < s[i + 1]

\* Every appended event has been published and the stream has forwarded
\* everything the hub handed it.
Quiescent ==
  /\ nEvents = MaxEvents
  /\ \A p \in Publishers : ppc[p] = "append"
  /\ spc = "forward" /\ chan = <<>>

Received == {recv[i] : i \in 1 .. Len(recv)}

\* Safety, about streamJobEvents (spec 4.6: subscribe before replaying, "to
\* avoid a gap between replay and live tail"): a client that stayed
\* connected, with a buffer that never filled, has received every event.
NoGapOnLiveStream ==
  (Quiescent /\ connects = 1) => Received = 1 .. nEvents

\* Safety, about the backlog followed by the live tail (spec 5: subscribers
\* "observe the same prefix of the sequence in order"): the client receives
\* events in increasing seq order, each once.
DeliveredInOrder == StrictlyIncreasing(recv)

\* Safety, about publishEvent publishing outside the store lock (spec 4.2:
\* "ordering per subscriber is preserved"): the events one connection
\* receives from the hub come in increasing seq order.
LiveTailInOrder == StrictlyIncreasing(liveRecv)

\* Safety, about reconnection by Last-Event-ID (spec 4.2: "a dropped
\* subscriber is expected to recover via the Store's event log by its
\* last-seen seq upon reconnection"): once the client has reconnected after
\* the last event was appended, it has received every event.
ReconnectRecovers ==
  (Quiescent /\ connects > 1 /\ listedAt = MaxEvents) => Received = 1 .. nEvents

=============================================================================
