---------------------------- MODULE EventStream ----------------------------
(***************************************************************************)
(* The events of one phase: Stream.Publish and Subscribe                   *)
(* (application/eventstream), the durable EventStore (adapters/outbound/   *)
(* pg) and the SSE handler that replays history and then follows the live  *)
(* stream (adapters/inbound/http/handlers).  Publishers are goroutines of  *)
(* the phase; a client connects, disconnects and reconnects with the       *)
(* Last-Event-ID it has.                                                   *)
(*                                                                         *)
(* An INSERT takes its id from the sequence before it commits, so the      *)
(* append is two steps and ids may become visible out of order.  The       *)
(* answer to the append may be lost although the row is stored: the event  *)
(* is then broadcast without its Sequence.                                 *)
(***************************************************************************)
EXTENDS Integers, Sequences

CONSTANTS
  Events, Publishers, Clients,
  BufferSize,       \* capacity of a subscriber's channel
  MaxConnects,      \* bound: connections of one client
  MaxFaults         \* bound: failing statements

VARIABLES
  published,        \* the events Publish was called with
  seq, committed,   \* phase_events: ids given out (0: none), visible rows
  lost,             \* rows whose publisher did not learn the id
  nextId,           \* the sequence the ids are taken from
  terminal,         \* the phase row is in a terminal status
  ppc, pev, targets,\* publishers: step, event, subscribers still to be served
  topics,           \* the clients whose connection is subscribed
  cpc, conn, open,  \* SSE handler of each client, number of its connection,
                    \* the client still holds the connection
  since,            \* Last-Event-ID of the connection
  hist, mark,       \* rows read and still to be replayed; maxReplayedSeq
  chan,             \* the subscriber's channel
  sent,             \* what this connection wrote: events with their id field
  last,             \* the last numeric id: field the client has seen
  dropped,          \* history: events this connection missed on a full channel
  seen,             \* history: the rows when this connection read the history
  panicked,         \* a send on a closed channel took the process down
  faults

storeVars == << published, seq, committed, lost, nextId >>
pubVars   == << ppc, pev, targets >>
connVars  ==
  << topics, cpc, conn, open, since, hist, mark, chan, sent, last, dropped, seen >>
vars == << storeVars, terminal, pubVars, connVars, panicked, faults >>

Fault == faults < MaxFaults /\ faults' = faults + 1

NoEvent == "none"

(* Event.Sequence as the event is broadcast; 0 is degraded mode.           *)
Sequence(ev) == IF ev \in lost THEN 0 ELSE seq[ev]

-----------------------------------------------------------------------------
Init ==
  /\ published = {} /\ seq = [ ev \in Events |-> 0 ] /\ committed = {}
  /\ lost = {} /\ nextId = 1 /\ terminal = FALSE
  /\ ppc = [ p \in Publishers |-> "idle" ]
  /\ pev = [ p \in Publishers |-> NoEvent ]
  /\ targets = [ p \in Publishers |-> {} ]
  /\ topics = {}
  /\ cpc = [ c \in Clients |-> "off" ] /\ conn = [ c \in Clients |-> 0 ]
  /\ open = [ c \in Clients |-> FALSE ]
  /\ since = [ c \in Clients |-> 0 ]
  /\ hist = [ c \in Clients |-> {} ] /\ mark = [ c \in Clients |-> 0 ]
  /\ chan = [ c \in Clients |-> << >> ]
  /\ sent = [ c \in Clients |-> << >> ] /\ last = [ c \in Clients |-> 0 ]
  /\ dropped = [ c \in Clients |-> {} ] /\ seen = [ c \in Clients |-> {} ]
  /\ panicked = FALSE /\ faults = 0

-----------------------------------------------------------------------------
(* Publish.                                                                *)

(* Append: the id is allocated, or the statement fails and the event is    *)
(* broadcast without one (degraded mode); a failed INSERT may use up an id.*)
Append1(p, ev) ==
  /\ ppc[p] = "idle" /\ ev \notin published
  /\ published' = published \cup {ev}
  /\ pev' = [pev EXCEPT ![p] = ev]
  /\ \/ /\ seq' = [seq EXCEPT ![ev] = nextId] /\ nextId' = nextId + 1
        /\ ppc' = [ppc EXCEPT ![p] = "commit"]
        /\ UNCHANGED faults
     \/ /\ Fault
        /\ ppc' = [ppc EXCEPT ![p] = "snapshot"]
        /\ nextId' \in {nextId, nextId + 1} /\ UNCHANGED seq
  /\ UNCHANGED << committed, lost, terminal, targets, connVars, panicked >>

(* The row is stored and Append returns its id, or the answer is lost.     *)
Commit(p) ==
  /\ ppc[p] = "commit"
  /\ committed' = committed \cup {pev[p]}
  /\ \/ UNCHANGED << lost, faults >>
     \/ lost' = lost \cup {pev[p]} /\ Fault
  /\ ppc' = [ppc EXCEPT ![p] = "snapshot"]
  /\ UNCHANGED << published, seq, nextId, terminal, pev, targets, connVars, panicked >>

(* The subscribers are copied under the read lock.                         *)
Snapshot(p) ==
  /\ ppc[p] = "snapshot"
  /\ targets' = [targets EXCEPT ![p] = { << c, conn[c] >> : c \in topics }]
  /\ ppc' = [ppc EXCEPT ![p] = "send"]
  /\ UNCHANGED << storeVars, terminal, pev, connVars, panicked, faults >>

(* cancel has closed the channel of this subscriber.                       *)
IsClosed(s) == s[1] \notin topics \/ conn[s[1]] # s[2]

HasRoom(c) == Len(chan[c]) < BufferSize

(* A non-blocking send after the lock is released: the event is buffered,  *)
(* or dropped when the channel is full; a closed channel panics.           *)
Send(p, s) ==
  /\ ppc[p] = "send" /\ s \in targets[p]
  /\ targets' = [targets EXCEPT ![p] = @ \ {s}]
  /\ \/ /\ IsClosed(s)
        /\ panicked' = TRUE
        /\ UNCHANGED << chan, dropped >>
     \/ /\ ~IsClosed(s) /\ HasRoom(s[1])
        /\ chan' = [chan EXCEPT ![s[1]] = Append(@, pev[p])]
        /\ UNCHANGED << dropped, panicked >>
     \/ /\ ~IsClosed(s) /\ ~HasRoom(s[1])
        /\ dropped' = [dropped EXCEPT ![s[1]] = @ \cup {pev[p]}]
        /\ UNCHANGED << chan, panicked >>
  /\ UNCHANGED << storeVars, terminal, ppc, pev, topics, cpc, conn, open, since,
                  hist, mark, sent, last, seen, faults >>

PublishReturns(p) ==
  /\ ppc[p] = "send" /\ targets[p] = {}
  /\ ppc' = [ppc EXCEPT ![p] = "idle"]
  /\ pev' = [pev EXCEPT ![p] = NoEvent]
  /\ UNCHANGED << storeVars, terminal, targets, connVars, panicked, faults >>

(* The phase reaches a terminal status.                                    *)
Settle ==
  /\ ~terminal
  /\ terminal' = TRUE
  /\ UNCHANGED << storeVars, pubVars, connVars, panicked, faults >>

-----------------------------------------------------------------------------
(* SSEHandler.Stream.                                                      *)

(* parseLastEventID: the client sends the last numeric id it saw; an open, *)
(* heartbeat or degraded id is not a number and means a full replay.       *)
Connect(c) ==
  /\ cpc[c] = "off" /\ conn[c] < MaxConnects
  /\ conn' = [conn EXCEPT ![c] = @ + 1]
  /\ cpc' = [cpc EXCEPT ![c] = "check"] /\ open' = [open EXCEPT ![c] = TRUE]
  /\ \E id \in {last[c], 0} : since' = [since EXCEPT ![c] = id]
  /\ hist' = [hist EXCEPT ![c] = {}] /\ mark' = [mark EXCEPT ![c] = 0]
  /\ chan' = [chan EXCEPT ![c] = << >>]
  /\ sent' = [sent EXCEPT ![c] = << >>]
  /\ dropped' = [dropped EXCEPT ![c] = {}] /\ seen' = [seen EXCEPT ![c] = {}]
  /\ UNCHANGED << storeVars, terminal, pubVars, topics, last, panicked, faults >>

(* The handler returns: the connection ends, the deferred cancel removes   *)
(* the subscriber and closes its channel.                                  *)
Return(c) ==
  /\ cpc' = [cpc EXCEPT ![c] = "off"] /\ open' = [open EXCEPT ![c] = FALSE]
  /\ topics' = topics \ {c}

(* The client goes away: the request's context is cancelled.               *)
Leave(c) ==
  /\ open[c]
  /\ open' = [open EXCEPT ![c] = FALSE]
  /\ UNCHANGED << storeVars, terminal, pubVars, topics, cpc, conn, since, hist, mark,
                  chan, sent, last, dropped, seen, panicked, faults >>

(* A statement fails under a cancelled context, or on its own.             *)
StatementFails(c) == (~open[c] /\ UNCHANGED faults) \/ Fault

(* A terminal phase answers 410; a failing lookup answers an error.        *)
CheckPhase(c) ==
  /\ cpc[c] = "check"
  /\ \/ terminal /\ Return(c) /\ UNCHANGED faults
     \/ StatementFails(c) /\ Return(c)
     \/ /\ ~terminal /\ open[c]
        /\ cpc' = [cpc EXCEPT ![c] = "subscribe"]
        /\ UNCHANGED << topics, open, faults >>
  /\ UNCHANGED << storeVars, terminal, pubVars, conn, since, hist, mark, chan, sent,
                  last, dropped, seen, panicked >>

Subscribe(c) ==
  /\ cpc[c] = "subscribe"
  /\ topics' = topics \cup {c}
  /\ cpc' = [cpc EXCEPT ![c] = "history"]
  /\ UNCHANGED << storeVars, terminal, pubVars, conn, open, since, hist, mark, chan,
                  sent, last, dropped, seen, panicked, faults >>

Replayed(c) == { ev \in committed : seq[ev] > since[c] }

HistoryRead(c) ==
  /\ cpc[c] = "history" /\ open[c]
  /\ hist' = [hist EXCEPT ![c] = Replayed(c)] /\ seen' = [seen EXCEPT ![c] = committed]
  /\ cpc' = [cpc EXCEPT ![c] = "replay"]
  /\ UNCHANGED << storeVars, terminal, pubVars, topics, conn, open, since, mark, chan,
                  sent, last, dropped, panicked, faults >>

(* Mutant: the error path leaves the subscriber behind.                    *)
HistoryFailsNoCancel(c) ==
  /\ cpc[c] = "history"
  /\ StatementFails(c)
  /\ cpc' = [cpc EXCEPT ![c] = "off"] /\ open' = [open EXCEPT ![c] = FALSE]
  /\ UNCHANGED << storeVars, terminal, pubVars, topics, conn, since, hist, mark, chan,
                  sent, last, dropped, seen, panicked >>

(* A replay that fails ends the connection.                                *)
HistoryFails(c) ==
  /\ cpc[c] = "history"
  /\ StatementFails(c)
  /\ Return(c)
  /\ UNCHANGED << storeVars, terminal, pubVars, conn, since, hist, mark, chan, sent,
                  last, dropped, seen, panicked >>

(* What is written after the client left does not reach it.  Events in     *)
(* degraded mode carry no numeric id.                                      *)
Write(c, ev, id) ==
  IF open[c]
  THEN /\ sent' = [sent EXCEPT ![c] = Append(@, << ev, id >>)]
       /\ last' = [last EXCEPT ![c] = IF id > 0 THEN id ELSE @]
  ELSE UNCHANGED << sent, last >>

(* The rows are written in ascending order of id, whatever the context.    *)
ReplayNext(c) ==
  /\ cpc[c] = "replay"
  /\ \/ /\ hist[c] = {}
        /\ cpc' = [cpc EXCEPT ![c] = "live"]
        /\ UNCHANGED << hist, mark, sent, last >>
     \/ \E ev \in hist[c] :
          /\ \A x \in hist[c] : seq[ev] <= seq[x]
          /\ Write(c, ev, seq[ev])
          /\ hist' = [hist EXCEPT ![c] = @ \ {ev}]
          /\ mark' = [mark EXCEPT ![c] = IF seq[ev] > @ THEN seq[ev] ELSE @]
          /\ UNCHANGED cpc
  /\ UNCHANGED << storeVars, terminal, pubVars, topics, conn, open, since, chan,
                  dropped, seen, panicked, faults >>

(* Mutant: live events are not compared with the replay.                   *)
IsDuplicateNever(c, ev) == FALSE

(* Mutant: the comparison is off by one.                                   *)
IsDuplicateNext(c, ev) == Sequence(ev) > 0 /\ Sequence(ev) <= mark[c] + 1

(* Live events whose Sequence is not above the last replayed id are        *)
(* skipped.                                                                *)
IsDuplicate(c, ev) == Sequence(ev) > 0 /\ Sequence(ev) <= mark[c]

Follow(c) ==
  /\ cpc[c] = "live" /\ chan[c] # << >>
  /\ chan' = [chan EXCEPT ![c] = Tail(@)]
  /\ IF IsDuplicate(c, Head(chan[c]))
     THEN UNCHANGED << sent, last >>
     ELSE Write(c, Head(chan[c]), Sequence(Head(chan[c])))
  /\ UNCHANGED << storeVars, terminal, pubVars, topics, cpc, conn, open, since,
                  hist, mark, dropped, seen, panicked, faults >>

(* The select of the live loop sees the cancelled context.                 *)
FollowEnds(c) ==
  /\ cpc[c] = "live" /\ ~open[c]
  /\ Return(c)
  /\ UNCHANGED << storeVars, terminal, pubVars, conn, since, hist, mark, chan, sent,
                  last, dropped, seen, panicked, faults >>

-----------------------------------------------------------------------------
PublisherStep(p) ==
  \/ Commit(p) \/ Snapshot(p) \/ PublishReturns(p)
  \/ \E s \in targets[p] : Send(p, s)

HandlerStep(c) ==
  \/ CheckPhase(c) \/ Subscribe(c) \/ HistoryRead(c) \/ HistoryFails(c)
  \/ ReplayNext(c) \/ FollowEnds(c)

Next ==
  /\ ~panicked
  /\ \/ \E p \in Publishers : PublisherStep(p) \/ \E ev \in Events : Append1(p, ev)
     \/ \E c \in Clients : HandlerStep(c) \/ Connect(c) \/ Follow(c) \/ Leave(c)
     \/ Settle

Spec == Init /\ [][Next]_vars

(* Publishers and handlers keep running; a client need not read, so Follow *)
(* may stall.                                                              *)
Fairness ==
  /\ \A p \in Publishers : WF_vars(~panicked /\ PublisherStep(p))
  /\ \A c \in Clients : WF_vars(~panicked /\ HandlerStep(c))

FairSpec == Spec /\ Fairness

-----------------------------------------------------------------------------
(* What a connection has yet to write, or cannot.                          *)
Underway(c, ev) ==
  \E p \in Publishers :
    /\ pev[p] = ev
    /\ ppc[p] = "snapshot" \/ << c, conn[c] >> \in targets[p]

InSeq(s, x) == \E i \in 1 .. Len(s) : s[i] = x

Follows(c) == cpc[c] \in {"replay", "live"} /\ open[c]

(* A row that became visible after the history was read, and has a lower   *)
(* id than one of the rows that were read.                                 *)
Overtaken(c, ev) ==
  /\ Sequence(ev) > 0
  /\ \E x \in seen[c] : seq[x] > since[c] /\ seq[x] > seq[ev]

(* The handler subscribes before it replays.  A row that was there when a  *)
(* connection read the history is written from it, unless Last-Event-ID    *)
(* covers it.  A row that was not is written live, and there are only two  *)
(* ways to miss it: the channel was full, or a row with a higher id was    *)
(* visible first, so that the comparison with maxReplayedSeq skips it.     *)
NothingSlipsThrough ==
  \A c \in Clients : Follows(c) =>
    \A ev \in committed :
      IF ev \in seen[c]
      THEN \/ seq[ev] <= since[c]
           \/ ev \in hist[c] \/ InSeq(sent[c], << ev, seq[ev] >>)
      ELSE \/ InSeq(sent[c], << ev, Sequence(ev) >>) \/ InSeq(chan[c], ev)
           \/ Underway(c, ev)
           \/ ev \in dropped[c] \/ Overtaken(c, ev)

(* No connection writes an event twice under the same id, although an      *)
(* event published during the replay is both in the history and in the     *)
(* channel.  Only an event whose append lost its answer may be written     *)
(* twice: with its id by the replay, without one from the channel.         *)
WrittenOnce ==
  \A c \in Clients : \A i, j \in 1 .. Len(sent[c]) :
    sent[c][i][1] = sent[c][j][1] => i = j \/ (sent[c][i] # sent[c][j] /\ sent[c][i][1] \in lost)

(* No subscriber leaks: once its client is gone, on whatever path the      *)
(* handler ends, the subscription is cancelled.                            *)
SubscriberReleased ==
  \A c \in Clients : ~open[c] ~> ((cpc[c] = "off" /\ c \notin topics) \/ panicked)

-----------------------------------------------------------------------------
(* What comments say and the code does not do; no run checks these.        *)

(* sse.go, before Subscribe: "any event published during the replay is     *)
(* captured in the channel buffer rather than dropped on the floor".  The  *)
(* buffer may be full, and an overtaken event is received and skipped.     *)
PublishedDuringReplayWritten ==
  \A c \in Clients : Follows(c) =>
    \A ev \in committed \ seen[c] :
      \/ InSeq(sent[c], << ev, Sequence(ev) >>) \/ InSeq(chan[c], ev)
      \/ Underway(c, ev)

(* Stream.Publish, of the subscribers that miss an event on a full channel: *)
(* "Those clients still recover the event on next reconnect via             *)
(* Last-Event-ID + Replay."  The replay starts above the last id the client *)
(* saw.                                                                     *)
DroppedIsReplayable ==
  \A c \in Clients : \A ev \in dropped[c] : ev \in committed => seq[ev] > last[c]
=============================================================================
