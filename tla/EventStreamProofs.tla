------------------------- MODULE EventStreamProofs --------------------------
(***************************************************************************)
(* Proofs about the event stream: nothing falls between the replay and the *)
(* live events of a connection, and no connection writes an event twice,   *)
(* for any number of events, publishers, clients and connections, any      *)
(* channel capacity and any number of failing statements.                  *)
(*                                                                         *)
(* Both need to know where an event may still come from: an event that a   *)
(* publisher has yet to send is not in the channel, and was written only   *)
(* by the replay, which maxReplayedSeq then covers.  maxReplayedSeq is the *)
(* id of a row of the history, so an event it covers and the history does  *)
(* not hold has been overtaken.                                            *)
(***************************************************************************)
EXTENDS EventStream, TLAPS

Inj(s) == \A i, j \in 1 .. Len(s) : s[i] = s[j] => i = j

(* Ids are given out once, in order, to published events only.             *)
StoreInv ==
  /\ committed \subseteq published /\ published \subseteq Events
  /\ seq \in [Events -> Nat] /\ nextId \in Nat /\ nextId > 0
  /\ \A ev \in Events : seq[ev] > 0 => ev \in published
  /\ \A ev \in committed : seq[ev] > 0
  /\ \A ev \in Events : seq[ev] < nextId
  /\ \A a, b \in Events : seq[a] > 0 /\ seq[a] = seq[b] => a = b
  /\ lost \subseteq committed

(* The append of ev is over: its id and its Sequence are what they are.    *)
Appended(ev) == ev \in published /\ (seq[ev] > 0 => ev \in committed)

(* Each event has one publisher, which sends it after its append.          *)
PubInv ==
  /\ ppc \in [Publishers -> {"idle", "commit", "snapshot", "send"}]
  /\ pev \in [Publishers -> Events \cup {NoEvent}]
  /\ targets \in [Publishers -> SUBSET (Clients \X Nat)]
  /\ \A p \in Publishers : ppc[p] # "idle" => pev[p] \in published
  /\ \A p \in Publishers : ppc[p] = "commit" => seq[pev[p]] > 0 /\ pev[p] \notin committed
  /\ \A p \in Publishers : ppc[p] \in {"snapshot", "send"} => Appended(pev[p])
  /\ \A p \in Publishers : ppc[p] # "send" => targets[p] = {}
  /\ \A p, q \in Publishers :
       ppc[p] # "idle" /\ ppc[q] # "idle" /\ pev[p] = pev[q] => p = q

(* The event of p may still reach the connection of c.                     *)
Due(p, c) == ppc[p] \in {"commit", "snapshot"} \/ << c, conn[c] >> \in targets[p]

(* The variables of a connection have their types.                         *)
ConnTypes ==
  /\ topics \subseteq Clients
  /\ cpc \in [Clients -> {"off", "check", "subscribe", "history", "replay", "live"}]
  /\ conn \in [Clients -> Nat] /\ mark \in [Clients -> Nat]
  /\ hist \in [Clients -> SUBSET Events]
  /\ chan \in [Clients -> Seq(Events)] /\ sent \in [Clients -> Seq(Events \X Nat)]
  /\ dropped \in [Clients -> SUBSET Events] /\ seen \in [Clients -> SUBSET Events]
  /\ open \in [Clients -> BOOLEAN]
  /\ since \in [Clients -> Nat] /\ last \in [Clients -> Nat]

(* The live loop of c skips events with this id.                           *)
Covered(c, n) == 0 < n /\ n <= mark[c]

(* What the connection of c has written, and may yet write.                *)
ConnOK(c) ==
  /\ cpc[c] \in {"history", "replay", "live"} => c \in topics
  /\ cpc[c] \in {"check", "subscribe", "history"} => sent[c] = << >> /\ mark[c] = 0
  /\ cpc[c] # "replay" => hist[c] = {}
  /\ cpc[c] = "replay" =>
       \A ev \in Events, n \in Nat : InSeq(sent[c], << ev, n >>) => Covered(c, n)
  /\ Inj(sent[c]) /\ Inj(chan[c])
  /\ \A ev \in Events : InSeq(chan[c], ev) =>
       /\ Appended(ev)
       /\ \A n \in Nat : InSeq(sent[c], << ev, n >>) => Covered(c, n)

(* Ids that were written are those of the rows, or those that were         *)
(* broadcast.                                                              *)
SentOK(c) ==
  \A ev \in Events, n \in Nat : InSeq(sent[c], << ev, n >>) =>
    Appended(ev) /\ n \in {seq[ev], Sequence(ev)}

(* The rows the connection of c has read.                                  *)
SeenOK(c) ==
  /\ seen[c] \subseteq committed
  /\ \A ev \in hist[c] : ev \in seen[c] /\ seq[ev] > mark[c] /\ seq[ev] > since[c]
  /\ mark[c] > 0 => \E x \in seen[c] : seq[x] = mark[c] /\ seq[x] > since[c]

(* What p has yet to send to c.                                            *)
DueOK(p, c) ==
  Due(p, c) => /\ ~InSeq(chan[c], pev[p])
               /\ \A n \in Nat : InSeq(sent[c], << pev[p], n >>) => Covered(c, n)

(* NothingSlipsThrough for one connection.                                 *)
FollowsOK(c) ==
  Follows(c) =>
    \A ev \in committed :
      IF ev \in seen[c]
      THEN \/ seq[ev] <= since[c]
           \/ ev \in hist[c] \/ InSeq(sent[c], << ev, seq[ev] >>)
      ELSE \/ InSeq(sent[c], << ev, Sequence(ev) >>) \/ InSeq(chan[c], ev)
           \/ Underway(c, ev)
           \/ ev \in dropped[c] \/ Overtaken(c, ev)

IInv ==
  /\ StoreInv /\ PubInv /\ ConnTypes
  /\ \A c \in Clients : ConnOK(c) /\ SentOK(c) /\ SeenOK(c) /\ FollowsOK(c)
  /\ \A p \in Publishers, c \in Clients : DueOK(p, c)

(* Leaves are first-order unless they name SMT.                            *)
USE Zenon

-----------------------------------------------------------------------------
(* Sequences of events.                                                    *)

(* The empty sequence.                                                     *)
LEMMA EmptySeq == Inj(<< >>) /\ \A x : ~InSeq(<< >>, x)
BY SMT DEF Inj, InSeq

(* What Append adds to a channel or to what was written.                   *)
LEMMA AppendSeq ==
  ASSUME NEW S, NEW s \in Seq(S), NEW e \in S
  PROVE  /\ Append(s, e) \in Seq(S)
         /\ \A x : InSeq(Append(s, e), x) <=> InSeq(s, x) \/ x = e
         /\ Inj(s) /\ ~InSeq(s, e) => Inj(Append(s, e))
<1>1. /\ Append(s, e) \in Seq(S) /\ Len(Append(s, e)) = Len(s) + 1
      /\ Len(s) \in Nat /\ Append(s, e)[Len(s) + 1] = e
      /\ \A i \in 1 .. Len(s) : Append(s, e)[i] = s[i]
  BY SMT
<1>2. \A x : InSeq(Append(s, e), x) <=> InSeq(s, x) \/ x = e
  BY SMT, <1>1 DEF InSeq
<1>3. Inj(s) /\ ~InSeq(s, e) => Inj(Append(s, e))
  BY SMT, <1>1 DEF Inj, InSeq
<1> QED BY <1>1, <1>2, <1>3

(* What a receive takes from a channel.                                    *)
LEMMA TailSeq ==
  ASSUME NEW s \in Seq(Events), s # << >>
  PROVE  /\ Head(s) \in Events /\ Tail(s) \in Seq(Events)
         /\ InSeq(s, Head(s))
         /\ \A x : InSeq(s, x) <=> x = Head(s) \/ InSeq(Tail(s), x)
         /\ Inj(s) => Inj(Tail(s)) /\ ~InSeq(Tail(s), Head(s))
<1>1. /\ Head(s) \in Events /\ Tail(s) \in Seq(Events) /\ Head(s) = s[1]
      /\ Len(s) \in Nat /\ Len(s) > 0 /\ Len(Tail(s)) = Len(s) - 1
      /\ \A i \in 1 .. Len(s) - 1 : Tail(s)[i] = s[i + 1]
  BY SMT
<1>2. \A x : InSeq(s, x) <=> x = Head(s) \/ InSeq(Tail(s), x)
  <2> SUFFICES ASSUME NEW x PROVE InSeq(s, x) <=> x = Head(s) \/ InSeq(Tail(s), x)
    OBVIOUS
  <2>1. ASSUME InSeq(s, x), x # Head(s) PROVE InSeq(Tail(s), x)
    <3>1. PICK i \in 1 .. Len(s) : s[i] = x
      BY <2>1 DEF InSeq
    <3>2. i - 1 \in 1 .. Len(s) - 1 /\ Tail(s)[i - 1] = x
      BY SMT, <1>1, <2>1, <3>1
    <3> QED BY <1>1, <3>2 DEF InSeq
  <2>2. InSeq(s, Head(s))
    BY SMT, <1>1 DEF InSeq
  <2>3. InSeq(Tail(s), x) => InSeq(s, x)
    BY SMT, <1>1 DEF InSeq
  <2> QED BY <2>1, <2>2, <2>3
<1>3. Inj(s) => Inj(Tail(s)) /\ ~InSeq(Tail(s), Head(s))
  BY SMT, <1>1 DEF Inj, InSeq
<1> QED BY <1>1, <1>2, <1>3

-----------------------------------------------------------------------------
(* Rows are only added, and an appended event keeps its id.                *)
Grows ==
  /\ committed \subseteq committed' /\ published \subseteq published'
  /\ \A ev \in Events : Appended(ev) =>
       Appended(ev)' /\ seq'[ev] = seq[ev] /\ Sequence(ev)' = Sequence(ev)

(* Nothing the connection of d holds or has written changes.               *)
SameConn(d) ==
  /\ cpc'[d] = cpc[d] /\ hist'[d] = hist[d] /\ mark'[d] = mark[d]
  /\ chan'[d] = chan[d] /\ sent'[d] = sent[d] /\ (d \in topics => d \in topics')
  /\ seen'[d] = seen[d] /\ since'[d] = since[d]

(* The store is left alone.                                                *)
LEMMA StoreAlone ==
  ASSUME StoreInv, UNCHANGED << published, seq, committed, lost, nextId >>
  PROVE  /\ StoreInv' /\ Grows
         /\ \A ev : (Appended(ev) <=> Appended(ev)') /\ Sequence(ev)' = Sequence(ev)
<1>1. StoreInv'
  BY DEF StoreInv
<1>2. \A ev : (Appended(ev) <=> Appended(ev)') /\ Sequence(ev)' = Sequence(ev)
  BY DEF Appended, Sequence
<1> QED BY <1>1, <1>2 DEF Grows

(* A step elsewhere keeps the invariant of a connection.                   *)
LEMMA SameConnOK ==
  ASSUME StoreInv, Grows, NEW d \in Clients, SameConn(d), ConnOK(d), SentOK(d), SeenOK(d)
  PROVE  ConnOK(d)' /\ SentOK(d)' /\ SeenOK(d)'
<1>1. ConnOK(d)'
  BY DEF ConnOK, Covered, SameConn, Grows
<1>2. SentOK(d)'
  BY DEF SentOK, SameConn, Grows
<1>3. \A ev \in committed : ev \in committed' /\ seq'[ev] = seq[ev]
  BY DEF Grows, StoreInv, Appended
<1>4. SeenOK(d)'
  BY <1>3 DEF SeenOK, SameConn
<1> QED BY <1>1, <1>2, <1>4

(* What a publisher has yet to send is not disturbed by others.            *)
LEMMA SameDueOK ==
  ASSUME NEW p \in Publishers, NEW d \in Clients, SameConn(d), DueOK(p, d),
         pev'[p] = pev[p], Due(p, d)' => Due(p, d)
  PROVE  DueOK(p, d)'
BY DEF DueOK, SameConn, Covered

(* A row that was written, read or overtaken stays so.                     *)
LEMMA SameRow ==
  ASSUME StoreInv, Grows, NEW d \in Clients, SeenOK(d), SameConn(d), NEW ev \in committed
  PROVE  /\ seq'[ev] = seq[ev] /\ Sequence(ev)' = Sequence(ev)
         /\ Overtaken(d, ev) => Overtaken(d, ev)'
<1>1. \A x \in committed : seq'[x] = seq[x] /\ Sequence(x)' = Sequence(x)
  BY DEF Grows, StoreInv, Appended
<1>2. Overtaken(d, ev) => Overtaken(d, ev)'
  BY <1>1 DEF Overtaken, SeenOK, SameConn
<1> QED BY <1>1, <1>2

(* No stored event gets lost where a connection is left alone.             *)
LEMMA SameFollows ==
  ASSUME StoreInv, Grows, committed' = committed, NEW d \in Clients, SameConn(d), SeenOK(d),
         FollowsOK(d), open'[d] = open[d], dropped'[d] = dropped[d],
         \A ev \in committed : Underway(d, ev) => Underway(d, ev)'
  PROVE  FollowsOK(d)'
<1> SUFFICES ASSUME Follows(d)', NEW ev \in committed
             PROVE  IF ev \in seen'[d]
                    THEN \/ seq'[ev] <= since'[d]
                         \/ ev \in hist'[d] \/ InSeq(sent'[d], << ev, seq'[ev] >>)
                    ELSE \/ InSeq(sent'[d], << ev, Sequence(ev)' >>) \/ InSeq(chan'[d], ev)
                         \/ Underway(d, ev)'
                         \/ ev \in dropped'[d] \/ Overtaken(d, ev)'
  BY DEF FollowsOK
<1>1. Follows(d)
  BY DEF Follows, SameConn
<1>2. /\ seq'[ev] = seq[ev] /\ Sequence(ev)' = Sequence(ev)
      /\ Overtaken(d, ev) => Overtaken(d, ev)'
  BY SameRow
<1> QED BY <1>1, <1>2 DEF FollowsOK, SameConn

-----------------------------------------------------------------------------
(* Publishers.                                                             *)

(* The row of the event becomes visible: its publisher is about to send.   *)
LEMMA CommitIInv ==
  ASSUME IInv, NEW p \in Publishers, Commit(p)
  PROVE  IInv'
<1>0. StoreInv /\ PubInv /\ ConnTypes
  BY DEF IInv
<1>1. /\ ppc[p] = "commit" /\ committed' = committed \cup {pev[p]}
      /\ lost' \in {lost, lost \cup {pev[p]}}
      /\ ppc' = [ppc EXCEPT ![p] = "snapshot"]
      /\ UNCHANGED << published, seq, nextId, pev, targets, connVars >>
  BY DEF Commit
<1>2. UNCHANGED << topics, cpc, conn, open, since, hist, mark, chan, sent, last, dropped, seen >>
  BY <1>1 DEF connVars
<1>3. pev[p] \in published /\ seq[pev[p]] > 0 /\ pev[p] \notin committed
  BY <1>0, <1>1 DEF PubInv
<1>4. StoreInv'
  <2>1. committed' \subseteq published' /\ lost' \subseteq committed' /\ \A ev \in committed' : seq'[ev] > 0
    BY <1>0, <1>1, <1>3 DEF StoreInv
  <2> QED BY <1>0, <1>1, <2>1 DEF StoreInv
<1>5. Grows
  <2>1. \A ev \in Events : Appended(ev) => ev # pev[p]
    BY <1>3 DEF Appended
  <2>2. \A ev \in Events : Appended(ev) => Sequence(ev)' = Sequence(ev)
    BY <1>1, <2>1 DEF Sequence
  <2> QED BY <1>1, <2>2 DEF Grows, Appended
<1>6. /\ ppc' \in [Publishers -> {"idle", "commit", "snapshot", "send"}]
      /\ ppc'[p] = "snapshot" /\ \A q \in Publishers \ {p} : ppc'[q] = ppc[q]
  BY <1>0, <1>1 DEF PubInv
<1>7. PubInv'
  <2>1. \A q \in Publishers : ppc'[q] = "commit" => seq'[pev'[q]] > 0 /\ pev'[q] \notin committed'
    BY <1>0, <1>1, <1>6 DEF PubInv
  <2>2. \A q \in Publishers : ppc'[q] \in {"snapshot", "send"} => Appended(pev[q])'
    BY <1>0, <1>1, <1>3, <1>6 DEF PubInv, Appended
  <2> QED BY <1>0, <1>1, <1>6, <2>1, <2>2 DEF PubInv
<1>8. ConnTypes'
  BY <1>0, <1>2 DEF ConnTypes
<1>9. \A d \in Clients : SameConn(d) /\ ConnOK(d)' /\ SentOK(d)' /\ SeenOK(d)'
  BY <1>0, <1>2, <1>5, SameConnOK DEF IInv, SameConn
<1>10. ASSUME NEW d \in Clients PROVE FollowsOK(d)'
  <2>1. \A x : Underway(d, x) => Underway(d, x)'
    BY <1>1, <1>2, <1>6 DEF Underway
  <2>2. Underway(d, pev[p])' /\ pev[p] \notin seen[d]
    BY <1>1, <1>3, <1>6 DEF Underway, IInv, SeenOK
  <2>3. SeenOK(d) /\ SameConn(d) /\ FollowsOK(d) /\ (Follows(d)' => Follows(d))
    BY <1>2, <1>9 DEF IInv, Follows
  <2>4. \A ev \in committed : /\ Sequence(ev)' = Sequence(ev)
                              /\ Overtaken(d, ev) => Overtaken(d, ev)'
    BY <1>0, <1>5, <2>3, SameRow
  <2> QED BY <1>1, <1>2, <2>1, <2>2, <2>3, <2>4 DEF FollowsOK
<1>11. ASSUME NEW q \in Publishers, NEW d \in Clients PROVE DueOK(q, d)'
  <2>1. Due(q, d)' => Due(q, d)
    BY <1>1, <1>2, <1>6 DEF Due
  <2> QED BY <1>1, <1>9, <2>1, SameDueOK DEF IInv
<1> QED BY <1>4, <1>7, <1>8, <1>9, <1>10, <1>11 DEF IInv

(* A publisher moves on without touching the store or a connection.        *)
LEMMA PublisherMove ==
  ASSUME IInv, NEW p \in Publishers, UNCHANGED << storeVars, connVars >>, PubInv',
         \A q \in Publishers \ {p} : ppc'[q] = ppc[q] /\ pev'[q] = pev[q] /\ targets'[q] = targets[q],
         \A d \in Clients : Due(p, d)' => pev'[p] = pev[p] /\ Due(p, d),
         \A d \in Clients : d \in topics /\ (ppc[p] = "snapshot" \/ << d, conn[d] >> \in targets[p]) =>
           pev'[p] = pev[p] /\ << d, conn[d] >> \in targets'[p]
  PROVE  IInv'
<1>0. StoreInv /\ PubInv /\ ConnTypes
  BY DEF IInv
<1>1. UNCHANGED << published, seq, committed, lost, nextId >>
      /\ UNCHANGED << topics, cpc, conn, open, since, hist, mark, chan, sent, last, dropped, seen >>
  BY DEF storeVars, connVars
<1>2. StoreInv' /\ Grows
  BY <1>0, <1>1, StoreAlone
<1>3. ConnTypes'
  BY <1>0, <1>1 DEF ConnTypes
<1>4. \A d \in Clients : SameConn(d) /\ ConnOK(d)' /\ SentOK(d)' /\ SeenOK(d)'
  BY <1>0, <1>1, <1>2, SameConnOK DEF IInv, SameConn
<1>5. ASSUME NEW d \in Clients PROVE FollowsOK(d)'
  <2>1. CASE d \in topics
    <3>1. \A x \in committed : Underway(d, x) => Underway(d, x)'
      BY <1>1, <2>1 DEF Underway
    <3> QED BY <1>0, <1>1, <1>2, <1>4, <3>1, SameFollows DEF IInv
  <2>2. CASE d \notin topics
    BY <1>1, <2>2 DEF IInv, ConnOK, Follows, FollowsOK
  <2> QED BY <2>1, <2>2
<1>6. ASSUME NEW q \in Publishers, NEW d \in Clients PROVE DueOK(q, d)'
  <2>1. CASE q # p
    <3>1. Due(q, d)' => Due(q, d)
      BY <1>1, <2>1 DEF Due
    <3> QED BY <1>4, <2>1, <3>1, SameDueOK DEF IInv
  <2>2. CASE q = p /\ Due(p, d)'
    BY <1>4, <2>2, SameDueOK DEF IInv
  <2>3. CASE q = p /\ ~Due(p, d)'
    BY <2>3 DEF DueOK
  <2> QED BY <2>1, <2>2, <2>3
<1> QED BY <1>2, <1>3, <1>4, <1>5, <1>6 DEF IInv

(* The copy of the subscribers holds every connection that follows.        *)
LEMMA SnapshotIInv ==
  ASSUME IInv, NEW p \in Publishers, Snapshot(p)
  PROVE  IInv'
<1>0. PubInv /\ ConnTypes
  BY DEF IInv
<1>1. /\ ppc[p] = "snapshot" /\ ppc' = [ppc EXCEPT ![p] = "send"]
      /\ targets' = [targets EXCEPT ![p] = { << c, conn[c] >> : c \in topics }]
      /\ UNCHANGED << storeVars, connVars, pev >>
  BY DEF Snapshot
<1>2. UNCHANGED << published, seq, committed, topics, conn >>
  BY <1>1 DEF storeVars, connVars
<1>3. { << c, conn[c] >> : c \in topics } \in SUBSET (Clients \X Nat)
  BY SMT, <1>0 DEF ConnTypes
<1>4. /\ ppc' \in [Publishers -> {"idle", "commit", "snapshot", "send"}] /\ ppc'[p] = "send"
      /\ targets' \in [Publishers -> SUBSET (Clients \X Nat)]
      /\ targets'[p] = { << c, conn[c] >> : c \in topics }
      /\ \A q \in Publishers \ {p} : ppc'[q] = ppc[q] /\ targets'[q] = targets[q]
  BY <1>0, <1>1, <1>3 DEF PubInv
<1>5. PubInv'
  <2>1. \A q \in Publishers : ppc'[q] \in {"snapshot", "send"} => Appended(pev[q])'
    BY <1>0, <1>1, <1>2, <1>4 DEF PubInv, Appended
  <2> QED BY <1>0, <1>1, <1>2, <1>4, <2>1 DEF PubInv
<1>6. \A d \in Clients : Due(p, d)' => Due(p, d)
  BY <1>1 DEF Due
<1> QED BY <1>1, <1>4, <1>5, <1>6, PublisherMove

(* Publish returns when it has served its copy.                            *)
LEMMA PublishReturnsIInv ==
  ASSUME IInv, NEW p \in Publishers, PublishReturns(p)
  PROVE  IInv'
<1>0. PubInv /\ ConnTypes
  BY DEF IInv
<1>1. /\ ppc[p] = "send" /\ targets[p] = {} /\ ppc' = [ppc EXCEPT ![p] = "idle"]
      /\ pev' = [pev EXCEPT ![p] = NoEvent]
      /\ UNCHANGED << storeVars, connVars, targets >>
  BY DEF PublishReturns
<1>2. UNCHANGED << published, seq, committed, conn >>
  BY <1>1 DEF storeVars, connVars
<1>3. /\ ppc' \in [Publishers -> {"idle", "commit", "snapshot", "send"}] /\ ppc'[p] = "idle"
      /\ pev' \in [Publishers -> Events \cup {NoEvent}]
      /\ \A q \in Publishers \ {p} : ppc'[q] = ppc[q] /\ pev'[q] = pev[q]
  BY <1>0, <1>1 DEF PubInv
<1>4. PubInv'
  <2>1. \A q \in Publishers : ppc'[q] \in {"snapshot", "send"} => Appended(pev[q])'
    BY <1>0, <1>1, <1>2, <1>3 DEF PubInv, Appended
  <2> QED BY <1>0, <1>1, <1>2, <1>3, <2>1 DEF PubInv
<1>5. \A d \in Clients : ~Due(p, d)'
  BY <1>1, <1>3 DEF Due
<1> QED BY <1>1, <1>3, <1>4, <1>5, PublisherMove

(* A send reaches the connection it was meant for, or it is closed: the    *)
(* event is then in the channel, or recorded as dropped.                   *)
LEMMA SendIInv ==
  ASSUME IInv, NEW p \in Publishers, NEW s \in targets[p], Send(p, s)
  PROVE  IInv'
<1>0. StoreInv /\ PubInv /\ ConnTypes
  BY DEF IInv
<1> DEFINE c == s[1]
<1>1. /\ ppc[p] = "send" /\ targets' = [targets EXCEPT ![p] = @ \ {s}]
      /\ UNCHANGED << storeVars, ppc, pev, topics, cpc, conn, open, since, hist, mark, sent, last, seen >>
  BY DEF Send
<1>2. UNCHANGED << published, seq, committed, lost, nextId >>
  BY <1>1 DEF storeVars
<1>3. c \in Clients /\ s = << c, s[2] >> /\ pev[p] \in Events
  BY SMT, <1>0, <1>1 DEF PubInv, StoreInv
<1>4. /\ targets' \in [Publishers -> SUBSET (Clients \X Nat)]
      /\ targets'[p] = targets[p] \ {s}
      /\ \A q \in Publishers \ {p} : targets'[q] = targets[q]
  BY <1>0, <1>1 DEF PubInv
<1>5. PubInv'
  <2>1. \A q \in Publishers : ppc'[q] \in {"snapshot", "send"} => Appended(pev[q])'
    BY <1>0, <1>1, <1>2 DEF PubInv, Appended
  <2> QED BY <1>0, <1>1, <1>2, <1>4, <2>1 DEF PubInv
<1>6. /\ StoreInv' /\ Grows
      /\ \A ev : (Appended(ev) <=> Appended(ev)') /\ Sequence(ev)' = Sequence(ev)
  BY <1>0, <1>2, StoreAlone
<1>7. \A q \in Publishers, d \in Clients : Due(q, d)' => Due(q, d)
  BY <1>1, <1>4 DEF Due
<1> DEFINE Served ==
      \/ chan' = [chan EXCEPT ![c] = Append(@, pev[p])] /\ UNCHANGED dropped
      \/ dropped' = [dropped EXCEPT ![c] = @ \cup {pev[p]}] /\ UNCHANGED chan
<1>d. (IsClosed(s) /\ UNCHANGED << chan, dropped >>) \/ (~IsClosed(s) /\ Served)
  BY DEF Send
<1> HIDE DEF c
<1>8. CASE IsClosed(s) /\ UNCHANGED << chan, dropped >>
  <2>1. UNCHANGED << storeVars, connVars >>
    BY <1>1, <1>8 DEF connVars
  <2>2. \A d \in topics : s # << d, conn[d] >>
    BY SMT, <1>8 DEF IsClosed
  <2> QED BY <1>1, <1>4, <1>5, <1>7, <2>1, <2>2, PublisherMove
<1>9. CASE ~IsClosed(s) /\ Served
  <2>1. s = << c, conn[c] >>
    BY <1>3, <1>9 DEF IsClosed, c
  <2>2. /\ ~InSeq(chan[c], pev[p])
        /\ \A n \in Nat : InSeq(sent[c], << pev[p], n >>) => Covered(c, n)
    BY <1>3, <2>1 DEF IInv, DueOK, Due
  <2>3. /\ \A d \in Clients \ {c} : chan'[d] = chan[d] /\ dropped'[d] = dropped[d]
        /\ \/ chan'[c] = Append(chan[c], pev[p]) /\ dropped'[c] = dropped[c]
           \/ chan'[c] = chan[c] /\ dropped'[c] = dropped[c] \cup {pev[p]}
        /\ dropped' \in [Clients -> SUBSET Events]
    <3>1. /\ dropped \in [Clients -> SUBSET Events] /\ DOMAIN chan = Clients
          /\ dropped[c] \cup {pev[p]} \in SUBSET Events
      BY <1>0, <1>3 DEF ConnTypes
    <3> QED BY <1>3, <1>9, <3>1
  <2>4. chan[c] \in Seq(Events)
    BY <1>0, <1>3 DEF ConnTypes
  <2>5. ConnTypes'
    <3>1. chan' \in [Clients -> Seq(Events)]
      <4>1. Append(chan[c], pev[p]) \in Seq(Events)
        BY <1>3, <2>4, AppendSeq
      <4> QED BY <1>0, <1>3, <1>9, <4>1 DEF ConnTypes
    <3> QED BY <1>0, <1>1, <2>3, <3>1 DEF ConnTypes
  <2>6. \A d \in Clients \ {c} : SameConn(d) /\ ConnOK(d)' /\ SentOK(d)' /\ SeenOK(d)'
    BY <1>0, <1>1, <1>6, <2>3, SameConnOK DEF IInv, SameConn
  <2>7. chan'[c] = chan[c] => SameConn(c)
    BY <1>1 DEF SameConn
  <2>8. ConnOK(c)' /\ SentOK(c)' /\ SeenOK(c)'
    <3>1. CASE chan'[c] = chan[c]
      BY <1>0, <1>3, <1>6, <2>7, <3>1, SameConnOK DEF IInv
    <3>2. CASE chan'[c] = Append(chan[c], pev[p])
      <4>1. Inj(chan'[c]) /\ \A x : InSeq(chan'[c], x) <=> InSeq(chan[c], x) \/ x = pev[p]
        BY SMT, <1>3, <2>2, <2>4, <3>2, AppendSeq DEF IInv, ConnOK
      <4>2. Appended(pev[p])'
        BY <1>1, <1>5 DEF PubInv
      <4>3. ConnOK(c) /\ SentOK(c) /\ SeenOK(c)
        BY <1>3 DEF IInv
      <4>4. ConnOK(c)'
        BY <1>1, <1>6, <2>2, <4>1, <4>2, <4>3 DEF ConnOK, Covered
      <4>5. SentOK(c)'
        BY <1>1, <1>2, <1>6, <4>3 DEF SentOK
      <4>6. SeenOK(c)'
        BY <1>1, <1>2, <4>3 DEF SeenOK
      <4> QED BY <4>4, <4>5, <4>6
    <3> QED BY <2>3, <3>1, <3>2
  <2>9. ASSUME NEW d \in Clients PROVE FollowsOK(d)'
    <3>1. CASE d # c
      <4>1. s # << d, conn[d] >>
        BY <2>1, <3>1
      <4>2. \A x \in committed : Underway(d, x) => Underway(d, x)'
        BY <1>1, <1>4, <4>1 DEF Underway
      <4> QED BY <1>0, <1>1, <1>2, <1>6, <2>3, <2>6, <3>1, <4>2, SameFollows DEF IInv
    <3>2. CASE d = c
      <4>1. \A x : Underway(c, x) => Underway(c, x)' \/ x = pev[p]
        BY <1>1, <1>4 DEF Underway
      <4>2. \/ \A x : InSeq(chan'[c], x) <=> InSeq(chan[c], x) \/ x = pev[p]
            \/ chan'[c] = chan[c] /\ dropped'[c] = dropped[c] \cup {pev[p]}
        <5>1. \A x : InSeq(Append(chan[c], pev[p]), x) <=> InSeq(chan[c], x) \/ x = pev[p]
          BY <1>3, <2>4, AppendSeq
        <5> QED BY <2>3, <5>1
      <4>3. InSeq(chan[c], pev[p])' \/ pev[p] \in dropped'[c]
        BY <1>1, <4>2
      <4>4. \A x : (InSeq(chan[c], x) => InSeq(chan'[c], x)) /\ (x \in dropped[c] => x \in dropped'[c])
        BY <2>3, <4>2
      <4>5. FollowsOK(c) /\ (Follows(c)' <=> Follows(c))
        BY <1>1, <1>3 DEF IInv, Follows
      <4>6. \A x : Overtaken(c, x) <=> Overtaken(c, x)'
        BY <1>1, <1>2, <1>6 DEF Overtaken
      <4> QED BY <1>1, <1>2, <1>6, <3>2, <4>1, <4>3, <4>4, <4>5, <4>6 DEF FollowsOK
    <3> QED BY <3>1, <3>2
  <2>10. ASSUME NEW q \in Publishers, NEW d \in Clients PROVE DueOK(q, d)'
    <3>1. CASE d # c \/ chan'[c] = chan[c]
      BY <1>1, <1>7, <2>6, <2>7, <3>1, SameDueOK DEF IInv
    <3>2. CASE d = c /\ chan'[c] = Append(chan[c], pev[p])
      <4>1. CASE q = p
        <5>1. ~Due(p, c)'
          BY <1>1, <1>4, <2>1 DEF Due
        <5> QED BY <3>2, <4>1, <5>1 DEF DueOK
      <4>2. CASE q # p
        <5>1. Due(q, c) => pev[q] # pev[p]
          BY <1>0, <1>1, <4>2 DEF Due, PubInv
        <5>2. \A x : InSeq(chan'[c], x) <=> InSeq(chan[c], x) \/ x = pev[p]
          BY SMT, <1>3, <2>4, <3>2, AppendSeq
        <5>3. DueOK(q, c)
          BY <1>3 DEF IInv
        <5> QED BY <1>1, <1>2, <1>3, <1>7, <3>2, <5>1, <5>2, <5>3 DEF DueOK, Covered
      <4> QED BY <4>1, <4>2
    <3> QED BY <2>3, <3>1, <3>2
  <2> QED BY <1>5, <1>6, <2>5, <2>6, <2>8, <2>9, <2>10 DEF IInv
<1> HIDE DEF Served
<1> QED BY <1>8, <1>9, <1>d

-----------------------------------------------------------------------------
(* The handler of one client.                                              *)

(* A step of the handler of c, or of its client, keeps the invariant if it *)
(* keeps what concerns c.                                                  *)
LEMMA ClientStep ==
  ASSUME IInv, NEW c \in Clients, UNCHANGED << storeVars, pubVars >>, ConnTypes',
         \A d \in Clients \ {c} :
           /\ SameConn(d) /\ conn'[d] = conn[d] /\ open'[d] = open[d]
           /\ dropped'[d] = dropped[d],
         ConnOK(c)', SentOK(c)', SeenOK(c)', FollowsOK(c)', \A p \in Publishers : DueOK(p, c)'
  PROVE  IInv'
<1>0. StoreInv /\ PubInv
  BY DEF IInv
<1>1. UNCHANGED << published, seq, committed, lost, nextId, ppc, pev, targets >>
  BY DEF storeVars, pubVars
<1>2. StoreInv' /\ Grows
  BY <1>0, <1>1, StoreAlone
<1>3. PubInv'
  BY <1>0, <1>1 DEF PubInv, Appended
<1>4. ASSUME NEW d \in Clients \ {c} PROVE ConnOK(d)' /\ SentOK(d)' /\ SeenOK(d)' /\ FollowsOK(d)'
  <2>1. ConnOK(d)' /\ SentOK(d)' /\ SeenOK(d)'
    BY <1>0, <1>2, SameConnOK DEF IInv
  <2>2. \A x \in committed : Underway(d, x) => Underway(d, x)'
    BY <1>1 DEF Underway
  <2>3. FollowsOK(d)'
    BY <1>0, <1>1, <1>2, <2>2, SameFollows DEF IInv
  <2> QED BY <2>1, <2>3
<1>5. ASSUME NEW p \in Publishers, NEW d \in Clients \ {c} PROVE DueOK(p, d)'
  <2>1. Due(p, d)' => Due(p, d)
    BY <1>1 DEF Due
  <2> QED BY <1>1, <2>1, SameDueOK DEF IInv
<1> QED BY <1>2, <1>3, <1>4, <1>5 DEF IInv

(* Nothing that concerns what c writes changes.                            *)
LEMMA NothingWritten ==
  ASSUME IInv, NEW c \in Clients, UNCHANGED << published, seq, committed, lost, ppc, pev, targets >>,
         UNCHANGED << conn, since, hist, mark, chan, sent, dropped, seen >>
  PROVE  /\ SentOK(c)' /\ SeenOK(c)' /\ \A p \in Publishers : DueOK(p, c)'
         /\ (Follows(c)' => Follows(c)) => FollowsOK(c)'
<1>1. SentOK(c) /\ SeenOK(c) /\ FollowsOK(c)
  BY DEF IInv
<1>2. \A ev : (Appended(ev) <=> Appended(ev)') /\ Sequence(ev)' = Sequence(ev)
  BY DEF Appended, Sequence
<1>3. SentOK(c)' /\ SeenOK(c)'
  BY <1>1, <1>2 DEF SentOK, SeenOK
<1>4. \A p \in Publishers : DueOK(p, c)'
  BY DEF IInv, DueOK, Due, Covered
<1>5. (Follows(c)' => Follows(c)) => FollowsOK(c)'
  <2>1. \A x : /\ Underway(c, x) => Underway(c, x)'
               /\ Overtaken(c, x) => Overtaken(c, x)'
    BY <1>2 DEF Underway, Overtaken
  <2> QED BY <1>1, <1>2, <2>1 DEF FollowsOK
<1> QED BY <1>3, <1>4, <1>5

(* The handler moves between steps that write nothing.                     *)
LEMMA HandlerMove ==
  ASSUME IInv, NEW c \in Clients,
         UNCHANGED << storeVars, pubVars, conn, since, hist, mark, chan, sent, last, dropped, seen >>,
         NEW pc \in {"off", "check", "subscribe", "history", "live"},
         cpc' = [cpc EXCEPT ![c] = pc], open' \in {open, [open EXCEPT ![c] = FALSE]},
         topics' \in {topics \ {c}, topics \cup {c}, topics}, c \in topics' \/ pc \notin {"history", "live"},
         pc \in {"subscribe", "history"} => cpc[c] \in {"check", "subscribe"},
         pc # "check", pc = "live" => cpc[c] = "replay", pc # "off" => open'[c] = open[c], hist[c] = {}
  PROVE  IInv'
<1>0. ConnTypes /\ ConnOK(c)
  BY DEF IInv
<1>1. UNCHANGED << published, seq, committed, lost, nextId, ppc, pev, targets >>
  BY DEF storeVars, pubVars
<1>2. ConnTypes' /\ cpc'[c] = pc
  <2>1. open' \in [Clients -> BOOLEAN]
    BY <1>0 DEF ConnTypes
  <2> QED BY <1>0, <2>1 DEF ConnTypes
<1>3. \A d \in Clients \ {c} : SameConn(d) /\ open'[d] = open[d]
  BY <1>0 DEF SameConn, ConnTypes
<1>4. ConnOK(c)'
  BY <1>0, <1>1, <1>2 DEF ConnOK, Covered, Appended
<1>5. Follows(c)' => Follows(c)
  BY <1>2 DEF Follows
<1>6. SentOK(c)' /\ SeenOK(c)' /\ FollowsOK(c)' /\ \A p \in Publishers : DueOK(p, c)'
  BY <1>1, <1>5, NothingWritten
<1> QED BY <1>2, <1>3, <1>4, <1>6, ClientStep

(* The steps of the handler that write nothing.                            *)
LEMMA QuietIInv ==
  ASSUME IInv, NEW c \in Clients, CheckPhase(c) \/ Subscribe(c) \/ HistoryFails(c) \/ FollowEnds(c)
  PROVE  IInv'
<1>0. ConnTypes /\ cpc[c] # "replay"
  BY DEF IInv, CheckPhase, Subscribe, HistoryFails, FollowEnds
<1>1. hist[c] = {}
  BY <1>0 DEF IInv, ConnOK
<1>2. UNCHANGED << storeVars, pubVars, conn, since, hist, mark, chan, sent, last, dropped, seen >>
  BY DEF CheckPhase, Subscribe, HistoryFails, FollowEnds
<1>3. CASE Return(c)
  <2>1. /\ cpc' = [cpc EXCEPT ![c] = "off"] /\ open' = [open EXCEPT ![c] = FALSE]
        /\ topics' = topics \ {c}
    BY <1>3 DEF Return
  <2> QED BY <1>1, <1>2, <2>1, HandlerMove
<1>4. CASE /\ cpc[c] = "check" /\ cpc' = [cpc EXCEPT ![c] = "subscribe"]
           /\ UNCHANGED << topics, open >>
  BY <1>1, <1>2, <1>4, HandlerMove
<1>5. CASE Subscribe(c)
  <2>1. /\ cpc[c] = "subscribe" /\ topics' = topics \cup {c}
        /\ cpc' = [cpc EXCEPT ![c] = "history"] /\ UNCHANGED open
    BY <1>5 DEF Subscribe
  <2> QED BY <1>1, <1>2, <2>1, HandlerMove
<1> QED BY <1>3, <1>4, <1>5 DEF CheckPhase, HistoryFails, FollowEnds

(* A new connection starts from nothing.                                   *)
LEMMA ConnectIInv ==
  ASSUME IInv, NEW c \in Clients, Connect(c)
  PROVE  IInv'
<1>0. ConnTypes
  BY DEF IInv
<1>1. /\ cpc' = [cpc EXCEPT ![c] = "check"] /\ open' = [open EXCEPT ![c] = TRUE]
      /\ conn' = [conn EXCEPT ![c] = @ + 1]
      /\ hist' = [hist EXCEPT ![c] = {}] /\ mark' = [mark EXCEPT ![c] = 0]
      /\ chan' = [chan EXCEPT ![c] = << >>] /\ sent' = [sent EXCEPT ![c] = << >>]
      /\ dropped' = [dropped EXCEPT ![c] = {}] /\ seen' = [seen EXCEPT ![c] = {}]
      /\ UNCHANGED << storeVars, pubVars, topics, last >>
  BY DEF Connect
<1>2. PICK id \in {last[c], 0} : since' = [since EXCEPT ![c] = id]
  BY DEF Connect
<1>3. << >> \in Seq(Events) /\ << >> \in Seq(Events \X Nat) /\ id \in Nat
  BY SMT, <1>0 DEF ConnTypes
<1>4. ConnTypes'
  <2>1. conn' \in [Clients -> Nat] /\ mark' \in [Clients -> Nat] /\ since' \in [Clients -> Nat]
    BY SMT, <1>0, <1>1, <1>2, <1>3 DEF ConnTypes
  <2>2. /\ cpc' \in [Clients -> {"off", "check", "subscribe", "history", "replay", "live"}]
        /\ hist' \in [Clients -> SUBSET Events] /\ dropped' \in [Clients -> SUBSET Events]
        /\ seen' \in [Clients -> SUBSET Events] /\ open' \in [Clients -> BOOLEAN]
    BY <1>0, <1>1 DEF ConnTypes
  <2>3. chan' \in [Clients -> Seq(Events)] /\ sent' \in [Clients -> Seq(Events \X Nat)]
    BY <1>0, <1>1, <1>3 DEF ConnTypes
  <2> QED BY <1>0, <1>1, <2>1, <2>2, <2>3 DEF ConnTypes
<1>5. /\ cpc'[c] = "check" /\ hist'[c] = {} /\ mark'[c] = 0 /\ seen'[c] = {}
      /\ chan'[c] = << >> /\ sent'[c] = << >>
  BY <1>0, <1>1 DEF ConnTypes
<1>6. ConnOK(c)' /\ SentOK(c)' /\ SeenOK(c)' /\ FollowsOK(c)'
  <2>1. ~(mark'[c] > 0)
    BY SMT, <1>5
  <2> QED BY <1>5, <2>1, EmptySeq DEF ConnOK, SentOK, SeenOK, FollowsOK, Follows
<1>7. \A p \in Publishers : DueOK(p, c)'
  BY <1>5, EmptySeq DEF DueOK
<1>8. \A d \in Clients \ {c} :
        /\ SameConn(d) /\ conn'[d] = conn[d] /\ open'[d] = open[d]
        /\ dropped'[d] = dropped[d]
  BY <1>0, <1>1, <1>2 DEF ConnTypes, SameConn
<1> QED BY <1>1, <1>4, <1>6, <1>7, <1>8, ClientStep

(* The client goes away.                                                   *)
LEMMA LeaveIInv ==
  ASSUME IInv, NEW c \in Clients, Leave(c)
  PROVE  IInv'
<1>0. ConnTypes /\ ConnOK(c)
  BY DEF IInv
<1>1. /\ open' = [open EXCEPT ![c] = FALSE]
      /\ UNCHANGED << storeVars, pubVars, topics, cpc, conn, since, hist, mark, chan, sent, last,
                      dropped, seen >>
  BY DEF Leave
<1>2. UNCHANGED << published, seq, committed, lost, nextId, ppc, pev, targets >>
  BY <1>1 DEF storeVars, pubVars
<1>3. ConnTypes' /\ ~open'[c]
  BY <1>0, <1>1 DEF ConnTypes
<1>4. ConnOK(c)'
  BY <1>0, <1>1, <1>2 DEF ConnOK, Covered, Appended
<1>5. SentOK(c)' /\ SeenOK(c)' /\ FollowsOK(c)' /\ \A p \in Publishers : DueOK(p, c)'
  BY <1>1, <1>2, <1>3, NothingWritten DEF Follows
<1>6. \A d \in Clients \ {c} : SameConn(d) /\ open'[d] = open[d]
  BY <1>0, <1>1 DEF ConnTypes, SameConn
<1> QED BY <1>1, <1>3, <1>4, <1>5, <1>6, ClientStep

(* The history holds every stored event above Last-Event-ID.               *)
LEMMA HistoryReadIInv ==
  ASSUME IInv, NEW c \in Clients, HistoryRead(c)
  PROVE  IInv'
<1>0. StoreInv /\ ConnTypes /\ ConnOK(c)
  BY DEF IInv
<1>1. /\ cpc[c] = "history" /\ cpc' = [cpc EXCEPT ![c] = "replay"]
      /\ hist' = [hist EXCEPT ![c] = Replayed(c)] /\ seen' = [seen EXCEPT ![c] = committed]
      /\ UNCHANGED << storeVars, pubVars, topics, conn, open, since, mark, chan, sent, last,
                      dropped >>
  BY DEF HistoryRead
<1>2. UNCHANGED << published, seq, committed, lost, nextId, ppc, pev, targets >>
  BY <1>1 DEF storeVars, pubVars
<1>3. Replayed(c) \subseteq Events /\ committed \subseteq Events
  BY <1>0 DEF Replayed, StoreInv
<1>4. ConnTypes' /\ cpc'[c] = "replay" /\ hist'[c] = Replayed(c) /\ seen'[c] = committed
  BY <1>0, <1>1, <1>3 DEF ConnTypes
<1>5. c \in topics /\ sent[c] = << >> /\ mark[c] = 0
  BY <1>0, <1>1 DEF ConnOK
<1>6. ConnOK(c)' /\ SentOK(c)'
  BY <1>0, <1>1, <1>2, <1>4, <1>5, EmptySeq DEF ConnOK, Appended, SentOK
<1>7. SeenOK(c)'
  <2>1. \A ev \in hist'[c] : ev \in committed /\ seq'[ev] > mark'[c] /\ seq'[ev] > since'[c]
    BY <1>0, <1>1, <1>2, <1>4, <1>5 DEF Replayed, StoreInv
  <2>2. ~(mark'[c] > 0)
    BY SMT, <1>1, <1>5
  <2> QED BY <1>2, <1>4, <2>1, <2>2 DEF SeenOK
<1>8. FollowsOK(c)' /\ \A p \in Publishers : DueOK(p, c)'
  <2>1. \A ev \in committed : ev \in Replayed(c) \/ seq[ev] <= since[c]
    <3>1. since[c] \in Nat /\ \A ev \in committed : seq[ev] \in Nat
      BY <1>0 DEF StoreInv, ConnTypes
    <3> QED BY SMT, <3>1 DEF Replayed
  <2>2. FollowsOK(c)'
    BY <1>1, <1>2, <1>4, <2>1 DEF FollowsOK
  <2>3. \A p \in Publishers : DueOK(p, c)'
    BY <1>1, <1>2 DEF IInv, DueOK, Due, Covered
  <2> QED BY <2>2, <2>3
<1>9. \A d \in Clients \ {c} : SameConn(d)
  BY <1>0, <1>1 DEF ConnTypes, SameConn
<1> QED BY <1>1, <1>4, <1>6, <1>7, <1>8, <1>9, ClientStep

(* What a write adds for the client, which may have left.                  *)
LEMMA WriteTypes ==
  ASSUME ConnTypes, NEW c \in Clients, NEW ev \in Events, NEW id \in Nat, Write(c, ev, id)
  PROVE  /\ sent' \in [Clients -> Seq(Events \X Nat)] /\ last' \in [Clients -> Nat]
         /\ \A d \in Clients \ {c} : sent'[d] = sent[d]
         /\ sent'[c] = IF open[c] THEN Append(sent[c], << ev, id >>) ELSE sent[c]
<1>1. sent[c] \in Seq(Events \X Nat) /\ << ev, id >> \in Events \X Nat
  BY DEF ConnTypes
<1>2. Append(sent[c], << ev, id >>) \in Seq(Events \X Nat)
  BY <1>1, AppendSeq
<1>3. CASE open[c]
  <2>1. /\ sent' = [sent EXCEPT ![c] = Append(@, << ev, id >>)]
        /\ last' = [last EXCEPT ![c] = IF id > 0 THEN id ELSE @]
    BY <1>3 DEF Write
  <2> QED BY <1>1, <1>2, <1>3, <2>1 DEF ConnTypes
<1>4. CASE ~open[c]
  BY <1>4 DEF Write, ConnTypes
<1> QED BY <1>3, <1>4

(* What one more pair at the end of a list of written events changes.      *)
Added(s, ev, id, w) ==
  /\ Inj(w) /\ \A x : InSeq(s, x) => InSeq(w, x)
  /\ \A x \in Events, n \in Nat :
       InSeq(w, << x, n >>) => InSeq(s, << x, n >>) \/ (x = ev /\ n = id)
  /\ InSeq(w, << ev, id >>)

(* What the client has after a write that repeats nothing.                 *)
LEMMA WriteAdds ==
  ASSUME NEW s \in Seq(Events \X Nat), Inj(s), NEW ev \in Events, NEW id \in Nat,
         ~InSeq(s, << ev, id >>), NEW w, w = Append(s, << ev, id >>)
  PROVE  Added(s, ev, id, w)
<1> DEFINE F == Events \X Nat
<1>1. PICK f \in F : f = << ev, id >>
  OBVIOUS
<1>2. s \in Seq(F) /\ ~InSeq(s, f)
  BY <1>1
<1> HIDE DEF F
<1>3. /\ \A x : InSeq(Append(s, f), x) <=> InSeq(s, x) \/ x = f
      /\ Inj(s) /\ ~InSeq(s, f) => Inj(Append(s, f))
  BY <1>2, AppendSeq
<1>4. Inj(w) /\ \A x : InSeq(w, x) <=> InSeq(s, x) \/ x = f
  BY <1>1, <1>2, <1>3
<1>5. \A x, n : << x, n >> = f => x = ev /\ n = id
  BY <1>1
<1> QED BY <1>1, <1>4, <1>5 DEF Added

(* The replay writes its rows in ascending order and records each id, so   *)
(* what it wrote is what the live loop then skips.                         *)
LEMMA ReplayNextIInv ==
  ASSUME IInv, NEW c \in Clients, ReplayNext(c)
  PROVE  IInv'
<1>0. StoreInv /\ PubInv /\ ConnTypes /\ ConnOK(c) /\ SentOK(c) /\ SeenOK(c) /\ FollowsOK(c)
  BY DEF IInv
<1>1. /\ cpc[c] = "replay"
      /\ UNCHANGED << storeVars, pubVars, topics, conn, open, since, chan, dropped, seen >>
  BY DEF ReplayNext
<1>2. UNCHANGED << published, seq, committed, lost, nextId, ppc, pev, targets >>
  BY <1>1 DEF storeVars, pubVars
<1>3. c \in topics
  BY <1>0, <1>1 DEF ConnOK
<1>4. CASE /\ hist[c] = {} /\ cpc' = [cpc EXCEPT ![c] = "live"]
           /\ UNCHANGED << hist, mark, sent, last >>
  BY <1>1, <1>3, <1>4, HandlerMove
<1>5. ASSUME NEW ev \in hist[c], \A x \in hist[c] : seq[ev] <= seq[x], Write(c, ev, seq[ev]),
             hist' = [hist EXCEPT ![c] = @ \ {ev}],
             mark' = [mark EXCEPT ![c] = IF seq[ev] > @ THEN seq[ev] ELSE @],
             UNCHANGED cpc
      PROVE  IInv'
  <2>1. /\ ev \in seen[c] /\ ev \in committed /\ ev \in Events /\ seq[ev] \in Nat
        /\ seq[ev] > mark[c] /\ seq[ev] > since[c] /\ mark[c] \in Nat
    BY <1>0 DEF SeenOK, StoreInv, ConnTypes
  <2>2. /\ hist' \in [Clients -> SUBSET Events] /\ mark' \in [Clients -> Nat]
        /\ hist'[c] = hist[c] \ {ev} /\ mark'[c] = seq[ev]
        /\ \A d \in Clients \ {c} : hist'[d] = hist[d] /\ mark'[d] = mark[d]
    BY <1>0, <1>5, <2>1 DEF ConnTypes
  <2>3. /\ sent' \in [Clients -> Seq(Events \X Nat)] /\ last' \in [Clients -> Nat]
        /\ \A d \in Clients \ {c} : sent'[d] = sent[d]
        /\ sent'[c] = IF open[c] THEN Append(sent[c], << ev, seq[ev] >>) ELSE sent[c]
    BY <1>0, <1>5, <2>1, WriteTypes
  <2>4. ConnTypes'
    BY <1>0, <1>1, <1>5, <2>2, <2>3 DEF ConnTypes
  <2>5. ~InSeq(sent[c], << ev, seq[ev] >>)
    <3>1. ~(seq[ev] <= mark[c])
      BY SMT, <2>1
    <3> QED BY <1>0, <1>1, <2>1, <3>1 DEF ConnOK, Covered
  <2>6. /\ Inj(sent'[c]) /\ \A x : InSeq(sent[c], x) => InSeq(sent'[c], x)
        /\ \A x \in Events, n \in Nat :
             InSeq(sent'[c], << x, n >>) => InSeq(sent[c], << x, n >>) \/ (x = ev /\ n = seq[ev])
        /\ open[c] => InSeq(sent'[c], << ev, seq[ev] >>)
    <3>1. sent[c] \in Seq(Events \X Nat) /\ Inj(sent[c])
      BY <1>0 DEF ConnTypes, ConnOK
    <3>2. CASE open[c]
      <4>1. PICK s \in Seq(Events \X Nat), id \in Nat : s = sent[c] /\ id = seq[ev]
        BY <2>1, <3>1
      <4>2. PICK w : w = Append(s, << ev, id >>)
        OBVIOUS
      <4>3. Inj(s) /\ ~InSeq(s, << ev, id >>)
        BY <2>5, <3>1, <4>1
      <4>4. ev \in Events
        BY <2>1
      <4>5. Added(s, ev, id, w)
        BY <4>2, <4>3, <4>4, WriteAdds
      <4>6. sent'[c] = w
        BY <2>3, <3>2, <4>1, <4>2
      <4> QED BY <4>1, <4>5, <4>6 DEF Added
    <3>3. CASE ~open[c]
      BY <2>3, <3>1, <3>3
    <3> QED BY <3>2, <3>3
  <2>7. \A n \in Nat : Covered(c, n) \/ n = seq[ev] => Covered(c, n)'
    BY SMT, <2>1, <2>2 DEF Covered
  <2>8. \A x \in hist'[c] : x \in seen'[c] /\ seq'[x] > mark'[c] /\ seq'[x] > since'[c]
    <3> SUFFICES ASSUME NEW x \in hist[c], x # ev
                 PROVE  x \in seen[c] /\ seq[x] > seq[ev] /\ seq[x] > since[c]
      BY <1>1, <1>2, <2>2
    <3>1. /\ x \in seen[c] /\ x \in committed /\ x \in Events /\ seq[x] \in Nat /\ seq[x] > 0
          /\ seq[x] > since[c]
      BY <1>0 DEF SeenOK, StoreInv
    <3>2. seq[x] # seq[ev]
      BY <1>0, <2>1, <3>1 DEF StoreInv
    <3> QED BY SMT, <1>5, <2>1, <3>1, <3>2
  <2>9. ConnOK(c)'
    <3>1. \A x \in Events, n \in Nat : InSeq(sent'[c], << x, n >>) => Covered(c, n)'
      BY <1>0, <1>1, <2>6, <2>7 DEF ConnOK
    <3>2. \A x \in Events : InSeq(chan'[c], x) => Appended(x)'
      BY <1>0, <1>1, <1>2 DEF ConnOK, Appended
    <3> QED BY <1>0, <1>1, <1>5, <2>6, <3>1, <3>2 DEF ConnOK
  <2>10. SentOK(c)'
    <3>1. Appended(ev)
      BY <1>0, <2>1 DEF StoreInv, Appended
    <3>2. \A x : (Appended(x) <=> Appended(x)') /\ Sequence(x)' = Sequence(x)
      BY <1>0, <1>2, StoreAlone
    <3> QED BY <1>0, <1>2, <2>6, <3>1, <3>2 DEF SentOK
  <2>11. SeenOK(c)'
    BY <1>0, <1>1, <1>2, <2>1, <2>2, <2>8 DEF SeenOK
  <2>12. FollowsOK(c)'
    <3>1. \A x : /\ Underway(c, x) => Underway(c, x)'
                 /\ Sequence(x)' = Sequence(x)
                 /\ Overtaken(c, x) => Overtaken(c, x)'
      BY <1>1, <1>2 DEF Underway, Overtaken, Sequence
    <3>2. Follows(c)' => Follows(c) /\ open[c]
      BY <1>1, <1>5 DEF Follows
    <3>3. UNCHANGED << seq, committed, since, seen, dropped, chan >>
      BY <1>1, <1>2
    <3>4. ASSUME Follows(c)', NEW x \in committed'
          PROVE  IF x \in seen'[c]
                 THEN \/ seq'[x] <= since'[c]
                      \/ x \in hist'[c] \/ InSeq(sent'[c], << x, seq'[x] >>)
                 ELSE \/ InSeq(sent'[c], << x, Sequence(x)' >>) \/ InSeq(chan'[c], x)
                      \/ Underway(c, x)'
                      \/ x \in dropped'[c] \/ Overtaken(c, x)'
      <4>1. CASE x \in seen[c]
        BY <1>0, <2>2, <2>6, <3>2, <3>3, <3>4, <4>1 DEF FollowsOK
      <4>2. CASE x \notin seen[c]
        <5>1. \/ InSeq(sent[c], << x, Sequence(x) >>) \/ InSeq(chan[c], x)
              \/ Underway(c, x) \/ x \in dropped[c] \/ Overtaken(c, x)
          BY <1>0, <3>2, <3>3, <3>4, <4>2 DEF FollowsOK
        <5>2. /\ x \notin seen'[c] /\ dropped' = dropped /\ chan' = chan
              /\ Sequence(x)' = Sequence(x)
          BY <3>1, <3>3, <4>2
        <5> QED BY <2>6, <3>1, <5>1, <5>2
      <4> QED BY <4>1, <4>2
    <3> QED BY <3>4 DEF FollowsOK
  <2>13. ASSUME NEW p \in Publishers PROVE DueOK(p, c)'
    <3>1. Due(p, c)' => Due(p, c) /\ pev[p] \in Events
      BY <1>0, <1>1, <1>2 DEF Due, PubInv, StoreInv
    <3>2. DueOK(p, c)
      BY DEF IInv
    <3> QED BY <1>1, <1>2, <2>6, <2>7, <3>1, <3>2 DEF DueOK
  <2>14. \A d \in Clients \ {c} : SameConn(d)
    BY <1>1, <1>5, <2>2, <2>3 DEF SameConn
  <2> QED BY <1>1, <2>4, <2>9, <2>10, <2>11, <2>12, <2>13, <2>14, ClientStep
<1> QED BY <1>4, <1>5 DEF ReplayNext

(* The live loop takes one event.  An event it skips is in the history, or *)
(* has been overtaken; any other was not written before.                   *)
LEMMA FollowIInv ==
  ASSUME IInv, NEW c \in Clients, Follow(c)
  PROVE  IInv'
<1>0. StoreInv /\ PubInv /\ ConnTypes /\ ConnOK(c) /\ SentOK(c) /\ SeenOK(c) /\ FollowsOK(c)
  BY DEF IInv
<1> DEFINE h == Head(chan[c])
<1>1. /\ cpc[c] = "live" /\ chan[c] # << >> /\ chan' = [chan EXCEPT ![c] = Tail(@)]
      /\ UNCHANGED << storeVars, pubVars, topics, cpc, conn, open, since, hist, mark, dropped, seen >>
      /\ IF IsDuplicate(c, h) THEN UNCHANGED << sent, last >> ELSE Write(c, h, Sequence(h))
  BY DEF Follow
<1>2. UNCHANGED << published, seq, committed, lost, nextId, ppc, pev, targets >>
  BY <1>1 DEF storeVars, pubVars
<1>3. /\ chan[c] \in Seq(Events) /\ sent[c] \in Seq(Events \X Nat)
      /\ Inj(chan[c]) /\ Inj(sent[c])
  BY <1>0 DEF ConnTypes, ConnOK
<1>4. /\ h \in Events /\ Tail(chan[c]) \in Seq(Events) /\ InSeq(chan[c], h)
      /\ \A x : InSeq(chan[c], x) <=> x = h \/ InSeq(Tail(chan[c]), x)
      /\ Inj(Tail(chan[c])) /\ ~InSeq(Tail(chan[c]), h)
  BY <1>1, <1>3, TailSeq
<1> HIDE DEF h
<1>5. Sequence(h) \in Nat /\ seq[h] \in Nat /\ Appended(h)
  <2>1. seq[h] \in Nat /\ Appended(h)
    BY <1>0, <1>4 DEF StoreInv, ConnOK
  <2> QED BY SMT, <2>1 DEF Sequence
<1>6. /\ chan' \in [Clients -> Seq(Events)] /\ chan'[c] = Tail(chan[c])
      /\ \A d \in Clients \ {c} : chan'[d] = chan[d]
  BY <1>0, <1>1, <1>4 DEF ConnTypes
<1>7. /\ sent' \in [Clients -> Seq(Events \X Nat)] /\ last' \in [Clients -> Nat]
      /\ \A d \in Clients \ {c} : sent'[d] = sent[d]
      /\ IsDuplicate(c, h) => sent'[c] = sent[c]
      /\ ~IsDuplicate(c, h) =>
           sent'[c] = IF open[c] THEN Append(sent[c], << h, Sequence(h) >>) ELSE sent[c]
  <2>1. CASE IsDuplicate(c, h)
    BY <1>0, <1>1, <2>1 DEF ConnTypes
  <2>2. CASE ~IsDuplicate(c, h)
    BY <1>0, <1>1, <1>4, <1>5, <2>2, WriteTypes
  <2> QED BY <2>1, <2>2
<1>8. ConnTypes'
  BY <1>0, <1>1, <1>6, <1>7 DEF ConnTypes
<1>9. ~IsDuplicate(c, h) => ~InSeq(sent[c], << h, Sequence(h) >>)
  <2>1. Covered(c, Sequence(h)) => IsDuplicate(c, h)
    <3>1. mark[c] \in Nat
      BY <1>0 DEF ConnTypes
    <3> QED BY SMT, <1>5, <3>1 DEF Covered, IsDuplicate
  <2> QED BY <1>0, <1>4, <1>5, <2>1 DEF ConnOK
<1>10. /\ Inj(sent'[c]) /\ \A x : InSeq(sent[c], x) => InSeq(sent'[c], x)
       /\ \A x \in Events, n \in Nat :
            InSeq(sent'[c], << x, n >>) => InSeq(sent[c], << x, n >>) \/ (x = h /\ n = Sequence(h))
       /\ InSeq(sent'[c], << h, Sequence(h) >>) \/ IsDuplicate(c, h) \/ ~open[c]
  <2>1. CASE IsDuplicate(c, h)
    BY <1>3, <1>7, <2>1
  <2>2. CASE ~IsDuplicate(c, h) /\ open[c]
    <3>1. PICK s \in Seq(Events \X Nat), id \in Nat : s = sent[c] /\ id = Sequence(h)
      BY <1>3, <1>5
    <3>2. PICK w : w = Append(s, << h, id >>)
      OBVIOUS
    <3>3. Inj(s) /\ ~InSeq(s, << h, id >>)
      BY <1>3, <1>9, <2>2, <3>1
    <3>4. h \in Events
      BY <1>4
    <3>5. Added(s, h, id, w)
      BY <3>2, <3>3, <3>4, WriteAdds
    <3>6. sent'[c] = w
      BY <1>7, <2>2, <3>1, <3>2
    <3> QED BY <3>1, <3>5, <3>6 DEF Added
  <2>3. CASE ~IsDuplicate(c, h) /\ ~open[c]
    BY <1>3, <1>7, <2>3
  <2> QED BY <2>1, <2>2, <2>3
<1>11. ConnOK(c)'
  <2>1. \A x \in Events : InSeq(chan'[c], x) => InSeq(chan[c], x) /\ x # h
    BY <1>4, <1>6
  <2>2. \A x \in Events : InSeq(chan'[c], x) =>
          /\ Appended(x)'
          /\ \A n \in Nat : InSeq(sent'[c], << x, n >>) => Covered(c, n)'
    BY <1>0, <1>1, <1>2, <1>10, <2>1 DEF ConnOK, Appended, Covered
  <2> QED BY <1>0, <1>1, <1>4, <1>6, <1>10, <2>2 DEF ConnOK
<1>12. SentOK(c)' /\ SeenOK(c)'
  <2>1. \A x : (Appended(x) <=> Appended(x)') /\ Sequence(x)' = Sequence(x)
    BY <1>0, <1>2, StoreAlone
  <2>2. SentOK(c)'
    BY <1>0, <1>2, <1>5, <1>10, <2>1 DEF SentOK
  <2> QED BY <1>0, <1>1, <1>2, <2>2 DEF SeenOK
<1>13. FollowsOK(c)'
  <2>1. \A x : /\ Underway(c, x) => Underway(c, x)'
               /\ Sequence(x)' = Sequence(x)
               /\ Overtaken(c, x) => Overtaken(c, x)'
    BY <1>1, <1>2 DEF Underway, Overtaken, Sequence
  <2>2. IsDuplicate(c, h) /\ h \notin seen[c] => Overtaken(c, h)
    <3> SUFFICES ASSUME IsDuplicate(c, h), h \notin seen[c] PROVE Overtaken(c, h)
      OBVIOUS
    <3>1. mark[c] \in Nat
      BY <1>0 DEF ConnTypes
    <3>2. Sequence(h) > 0 /\ mark[c] > 0 /\ seq[h] = Sequence(h) /\ seq[h] <= mark[c]
      BY SMT, <1>5, <3>1 DEF IsDuplicate, Sequence
    <3>3. PICK x \in seen[c] : seq[x] = mark[c] /\ seq[x] > since[c]
      BY <1>0, <3>2 DEF SeenOK
    <3>4. x \in Events /\ seq[x] \in Nat
      BY <1>0, <3>3 DEF SeenOK, StoreInv
    <3>5. seq[x] # seq[h]
      BY <1>0, <1>4, <3>2, <3>3, <3>4 DEF StoreInv
    <3>6. seq[x] > seq[h]
      BY SMT, <1>5, <3>2, <3>3, <3>4, <3>5
    <3> QED BY <3>2, <3>3, <3>6 DEF Overtaken
  <2>3. Follows(c)' => Follows(c) /\ open[c]
    BY <1>1 DEF Follows
  <2>4. \A x : InSeq(chan[c], x) => InSeq(chan'[c], x) \/ x = h
    BY <1>4, <1>6
  <2>5. UNCHANGED << seq, committed, since, seen, dropped, hist >>
    BY <1>1, <1>2
  <2>6. ASSUME Follows(c)', NEW x \in committed'
        PROVE  IF x \in seen'[c]
               THEN \/ seq'[x] <= since'[c]
                    \/ x \in hist'[c] \/ InSeq(sent'[c], << x, seq'[x] >>)
               ELSE \/ InSeq(sent'[c], << x, Sequence(x)' >>) \/ InSeq(chan'[c], x)
                    \/ Underway(c, x)'
                    \/ x \in dropped'[c] \/ Overtaken(c, x)'
    <3>1. CASE x \in seen[c]
      BY <1>0, <1>10, <2>3, <2>5, <2>6, <3>1 DEF FollowsOK
    <3>2. CASE x \notin seen[c]
      <4>1. \/ InSeq(sent[c], << x, Sequence(x) >>) \/ InSeq(chan[c], x)
            \/ Underway(c, x) \/ x \in dropped[c] \/ Overtaken(c, x)
        BY <1>0, <2>3, <2>5, <2>6, <3>2 DEF FollowsOK
      <4>2. x \notin seen'[c] /\ dropped' = dropped /\ Sequence(x)' = Sequence(x)
        BY <2>1, <2>5, <3>2
      <4>3. open[c] /\ x = h => InSeq(sent'[c], << x, Sequence(x) >>) \/ Overtaken(c, x)
        BY <1>10, <2>2, <3>2
      <4> QED BY <1>10, <2>1, <2>3, <2>4, <2>6, <4>1, <4>2, <4>3
    <3> QED BY <3>1, <3>2
  <2> QED BY <2>6 DEF FollowsOK
<1>14. ASSUME NEW p \in Publishers PROVE DueOK(p, c)'
  <2>1. DueOK(p, c) /\ (Due(p, c)' => Due(p, c) /\ pev[p] \in Events)
    BY <1>0, <1>1, <1>2 DEF IInv, Due, PubInv, StoreInv
  <2> QED BY <1>1, <1>2, <1>4, <1>6, <1>10, <2>1 DEF DueOK, Covered
<1>15. \A d \in Clients \ {c} : SameConn(d)
  BY <1>1, <1>6, <1>7 DEF SameConn
<1> QED BY <1>1, <1>8, <1>11, <1>12, <1>13, <1>14, <1>15, ClientStep

-----------------------------------------------------------------------------
(* Initially nothing was published and nobody is connected.                *)
LEMMA InitIInv == Init => IInv
<1> SUFFICES ASSUME Init PROVE IInv
  OBVIOUS
<1>1. StoreInv
  BY SMT DEF Init, StoreInv
<1>2. PubInv
  BY DEF Init, PubInv
<1>3. ConnTypes
  <2>1. << >> \in Seq(Events) /\ << >> \in Seq(Events \X Nat) /\ 0 \in Nat
    BY SMT
  <2> QED BY <2>1 DEF Init, ConnTypes
<1>4. ASSUME NEW c \in Clients PROVE ConnOK(c) /\ SentOK(c) /\ SeenOK(c) /\ FollowsOK(c)
  <2>1. ~(mark[c] > 0)
    BY SMT DEF Init
  <2> QED BY <2>1, EmptySeq DEF Init, ConnOK, SentOK, SeenOK, Follows, FollowsOK
<1>5. ASSUME NEW p \in Publishers, NEW c \in Clients PROVE DueOK(p, c)
  BY DEF Init, DueOK, Due
<1> QED BY <1>1, <1>2, <1>3, <1>4, <1>5 DEF IInv

(* An id is given out: it is above all others.                             *)
LEMMA NumberedGrows ==
  ASSUME StoreInv, NEW ev \in Events, ev \notin published, published' = published \cup {ev},
         seq' = [seq EXCEPT ![ev] = nextId], nextId' = nextId + 1, committed' = committed,
         lost' = lost
  PROVE  StoreInv' /\ seq'[ev] > 0
<1>1. /\ seq' \in [Events -> Nat] /\ seq'[ev] = nextId /\ nextId > 0 /\ nextId' \in Nat
      /\ \A x \in Events \ {ev} : seq'[x] = seq[x]
  BY SMT DEF StoreInv
<1>2. \A x \in Events : seq'[x] < nextId'
  BY SMT, <1>1 DEF StoreInv
<1>3. \A a, b \in Events : seq'[a] > 0 /\ seq'[a] = seq'[b] => a = b
  BY SMT, <1>1 DEF StoreInv
<1>4. /\ committed' \subseteq published' /\ published' \subseteq Events
      /\ \A x \in Events : seq'[x] > 0 => x \in published'
      /\ \A x \in committed' : seq'[x] > 0
  BY <1>1 DEF StoreInv
<1> QED BY SMT, <1>1, <1>2, <1>3, <1>4 DEF StoreInv

(* Append takes an id, or fails and leaves the event without one.          *)
LEMMA AppendIInv ==
  ASSUME IInv, NEW p \in Publishers, NEW ev \in Events, Append1(p, ev)
  PROVE  IInv'
<1>0. StoreInv /\ PubInv /\ ConnTypes
  BY DEF IInv
<1>1. /\ ppc[p] = "idle" /\ ev \notin published /\ published' = published \cup {ev}
      /\ pev' = [pev EXCEPT ![p] = ev] /\ UNCHANGED << committed, lost, targets, connVars >>
  BY DEF Append1
<1>2. UNCHANGED << topics, cpc, conn, open, since, hist, mark, chan, sent, last, dropped, seen >>
  BY <1>1 DEF connVars
<1>3. /\ StoreInv'
      /\ \/ ppc' = [ppc EXCEPT ![p] = "commit"] /\ seq'[ev] > 0
         \/ ppc' = [ppc EXCEPT ![p] = "snapshot"] /\ seq' = seq
      /\ \A x \in Events \ {ev} : seq'[x] = seq[x]
  <2>1. CASE seq' = [seq EXCEPT ![ev] = nextId] /\ nextId' = nextId + 1 /\ ppc' = [ppc EXCEPT ![p] = "commit"]
    BY SMT, <1>0, <1>1, <2>1, NumberedGrows DEF StoreInv
  <2>2. CASE seq' = seq /\ nextId' \in {nextId, nextId + 1} /\ ppc' = [ppc EXCEPT ![p] = "snapshot"]
    BY SMT, <1>0, <1>1, <2>2 DEF StoreInv
  <2> QED BY <2>1, <2>2 DEF Append1
<1>4. Grows
  <2>1. \A x \in Events : Appended(x) => x # ev
    BY <1>1 DEF Appended
  <2> QED BY <1>1, <1>3, <2>1 DEF Grows, Appended, Sequence
<1>5. /\ ppc' \in [Publishers -> {"idle", "commit", "snapshot", "send"}]
      /\ ppc'[p] \in {"commit", "snapshot"} /\ (ppc'[p] = "commit" => seq'[ev] > 0)
      /\ ppc'[p] = "snapshot" => seq' = seq
      /\ \A q \in Publishers \ {p} : ppc'[q] = ppc[q]
  BY <1>0, <1>3 DEF PubInv
<1>6. /\ pev' \in [Publishers -> Events \cup {NoEvent}]
      /\ pev'[p] = ev /\ \A q \in Publishers \ {p} : pev'[q] = pev[q]
  BY <1>0, <1>1 DEF PubInv
<1>7. PubInv'
  <2>1. \A q \in Publishers \ {p} : ppc[q] # "idle" =>
          pev[q] \in Events /\ pev[q] # ev /\ pev'[q] = pev[q] /\ seq'[pev[q]] = seq[pev[q]]
    <3>1. \A q \in Publishers : ppc[q] # "idle" => pev[q] \in published
      BY <1>0 DEF PubInv
    <3>2. published \subseteq Events
      BY <1>0 DEF StoreInv
    <3> QED BY <1>1, <1>3, <1>6, <3>1, <3>2
  <2>2. ASSUME NEW q \in Publishers, ppc'[q] = "commit"
        PROVE  seq'[pev'[q]] > 0 /\ pev'[q] \notin committed'
    <3>1. ev \notin committed
      BY <1>0, <1>1 DEF StoreInv
    <3> QED BY <1>0, <1>1, <1>5, <1>6, <2>1, <2>2, <3>1 DEF PubInv
  <2>3. ASSUME NEW q \in Publishers, ppc'[q] \in {"snapshot", "send"}
        PROVE  Appended(pev[q])'
    <3>1. CASE q = p
      <4>1. seq' = seq /\ ~(seq[ev] > 0)
        BY <1>0, <1>1, <1>5, <2>3, <3>1 DEF StoreInv
      <4> QED BY <1>1, <1>6, <3>1, <4>1 DEF Appended
    <3>2. CASE q # p
      <4>1. ppc[q] \in {"snapshot", "send"} /\ ppc[q] # "idle"
        BY <1>5, <2>3, <3>2
      <4>a. Appended(pev[q]) /\ pev[q] \in Events
        BY <1>0, <2>1, <3>2, <4>1 DEF PubInv
      <4>2. PICK x \in Events : x = pev[q]
        BY <4>a
      <4>3. pev'[q] = x /\ seq'[x] = seq[x] /\ x \in published' /\ committed' = committed
        BY <1>1, <2>1, <3>2, <4>1, <4>2, <4>a DEF Appended
      <4>4. seq[x] > 0 => x \in committed
        BY <4>2, <4>a DEF Appended
      <4> QED BY <4>3, <4>4 DEF Appended
    <3> QED BY <3>1, <3>2
  <2>4. \A q, r \in Publishers :
          ppc'[q] # "idle" /\ ppc'[r] # "idle" /\ pev'[q] = pev'[r] => q = r
    BY <1>0, <1>1, <1>5, <1>6, <2>1 DEF PubInv
  <2>5. \A q \in Publishers : /\ ppc'[q] # "idle" => pev'[q] \in published'
                            /\ ppc'[q] # "send" => targets'[q] = {}
    BY <1>0, <1>1, <1>5, <1>6 DEF PubInv
  <2> QED BY <1>0, <1>1, <1>5, <1>6, <2>2, <2>3, <2>4, <2>5 DEF PubInv
<1>8. ConnTypes'
  BY <1>0, <1>1, <1>2 DEF ConnTypes
<1>9. \A d \in Clients : SameConn(d) /\ ConnOK(d)' /\ SentOK(d)' /\ SeenOK(d)'
  BY <1>0, <1>2, <1>4, SameConnOK DEF IInv, SameConn
<1>10. ASSUME NEW d \in Clients PROVE FollowsOK(d)'
  <2>1. \A x \in committed : Underway(d, x) => Underway(d, x)'
    BY <1>0, <1>1, <1>2, <1>5, <1>6 DEF Underway, PubInv, StoreInv
  <2> QED BY <1>0, <1>1, <1>2, <1>4, <1>9, <2>1, SameFollows DEF IInv
<1>11. ASSUME NEW q \in Publishers, NEW d \in Clients PROVE DueOK(q, d)'
  <2>1. CASE q = p
    <3>1. ~InSeq(chan[d], ev) /\ \A n \in Nat : ~InSeq(sent[d], << ev, n >>)
      BY <1>1 DEF IInv, ConnOK, SentOK, Appended
    <3> QED BY <1>2, <1>6, <2>1, <3>1 DEF DueOK
  <2>2. CASE q # p
    <3>1. Due(q, d)' => Due(q, d)
      BY <1>1, <1>2, <1>5, <2>2 DEF Due
    <3> QED BY <1>6, <1>9, <2>2, <3>1, SameDueOK DEF IInv
  <2> QED BY <2>1, <2>2
<1> QED BY <1>3, <1>7, <1>8, <1>9, <1>10, <1>11 DEF IInv

(* Every step keeps the invariant.                                         *)
LEMMA NextIInv == IInv /\ [Next]_vars => IInv'
<1> SUFFICES ASSUME IInv, [Next]_vars PROVE IInv'
  OBVIOUS
<1>1. CASE Settle \/ UNCHANGED vars
  <2>1. UNCHANGED << storeVars, pubVars, connVars >>
    BY <1>1 DEF Settle, vars, storeVars, pubVars, connVars
  <2>2. UNCHANGED << published, seq, committed, lost, nextId, ppc, pev, targets, topics, cpc, conn,
                     open, since, hist, mark, chan, sent, last, dropped, seen >>
    BY <2>1 DEF storeVars, pubVars, connVars
  <2>3. StoreInv' /\ PubInv' /\ ConnTypes'
    BY <2>2 DEF IInv, StoreInv, PubInv, ConnTypes, Appended
  <2>4. \A c \in Clients : ConnOK(c)'
    BY <2>2 DEF IInv, ConnOK, Covered, Appended
  <2>5. \A c \in Clients : SentOK(c)' /\ SeenOK(c)' /\ FollowsOK(c)' /\ \A p \in Publishers : DueOK(p, c)'
    BY <2>2, NothingWritten DEF Follows
  <2> QED BY <2>3, <2>4, <2>5 DEF IInv
<1>2. ASSUME NEW p \in Publishers, PublisherStep(p) PROVE IInv'
  BY <1>2, CommitIInv, SnapshotIInv, PublishReturnsIInv, SendIInv DEF PublisherStep
<1>3. ASSUME NEW p \in Publishers, NEW ev \in Events, Append1(p, ev) PROVE IInv'
  BY <1>3, AppendIInv
<1>4. ASSUME NEW c \in Clients, HandlerStep(c) \/ Connect(c) \/ Follow(c) \/ Leave(c) PROVE IInv'
  BY <1>4, QuietIInv, HistoryReadIInv, ReplayNextIInv, ConnectIInv, FollowIInv, LeaveIInv
     DEF HandlerStep
<1> QED BY <1>1, <1>2, <1>3, <1>4 DEF Next

(* The inductive invariant holds in every reachable state.                 *)
THEOREM IInvCorrect == Spec => []IInv
BY InitIInv, NextIInv, PTL DEF Spec

(* Once the history is read, an open connection has written, holds or is   *)
(* due every stored event, unless Last-Event-ID covers it, its channel was *)
(* full, or a row with a higher id was read first.                         *)
THEOREM NothingSlipsThroughCorrect == Spec => []NothingSlipsThrough
<1>1. IInv => NothingSlipsThrough
  BY DEF IInv, FollowsOK, NothingSlipsThrough
<1> QED BY <1>1, IInvCorrect, PTL

(* No connection writes an event twice under the same id, and only an      *)
(* event whose append lost its answer is written under two.                *)
THEOREM WrittenOnceCorrect == Spec => []WrittenOnce
<1>1. ASSUME IInv PROVE WrittenOnce
  <2> SUFFICES ASSUME NEW c \in Clients, NEW i \in 1 .. Len(sent[c]), NEW j \in 1 .. Len(sent[c]),
                      sent[c][i][1] = sent[c][j][1], i # j
               PROVE  sent[c][i] # sent[c][j] /\ sent[c][i][1] \in lost
    BY DEF WrittenOnce
  <2>1. sent[c] \in Seq(Events \X Nat) /\ Inj(sent[c]) /\ SentOK(c)
    BY <1>1 DEF IInv, ConnTypes, ConnOK
  <2>2. sent[c][i] # sent[c][j]
    BY <2>1 DEF Inj
  <2>3. sent[c][i] \in Events \X Nat /\ sent[c][j] \in Events \X Nat
    BY SMT, <2>1
  <2>4. PICK ev \in Events, n \in Nat, m \in Nat : sent[c][i] = << ev, n >> /\ sent[c][j] = << ev, m >>
    BY SMT, <2>3
  <2>5. n # m
    BY <2>2, <2>4
  <2>6. InSeq(sent[c], << ev, n >>) /\ InSeq(sent[c], << ev, m >>)
    BY <2>4 DEF InSeq
  <2>7. n \in {seq[ev], Sequence(ev)} /\ m \in {seq[ev], Sequence(ev)}
    BY <2>1, <2>6 DEF SentOK
  <2>8. ev \in lost
    BY <2>5, <2>7 DEF Sequence
  <2>9. sent[c][i][1] = ev
    BY SMT, <2>4
  <2> QED BY <2>2, <2>8, <2>9
<1> QED BY <1>1, IInvCorrect, PTL
=============================================================================
