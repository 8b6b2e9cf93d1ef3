---------------------------- MODULE EventStream ----------------------------
(***************************************************************************)
(* Events of daoti-daemon from the tasks that publish them to the history  *)
(* file and to the browser: EventBus (a tokio broadcast ring), the task    *)
(* that persists every event, the SSE endpoint and the history endpoint of *)
(* http.rs, and the subscription effect of App.jsx.                        *)
(*                                                                         *)
(* "bus" is everything sent since the daemon started; a receiver is a      *)
(* position in it, and what is more than Capacity behind the end has been  *)
(* overwritten.  The SSE task hands a frame to the browser in one step:    *)
(* the sockets buffer between them delays what the ring delays too.  The   *)
(* browser keeps what it shows when the daemon goes away.                  *)
(***************************************************************************)
EXTENDS EventLog

CONSTANTS
  Publishers,    \* tasks that publish: the coordinator, the HTTP handlers
  Capacity,      \* EVENT_BUS_CAPACITY
  PageLimit,     \* events asked for on connecting (100 in App.jsx)
  Margin,        \* events asked for beyond the missed ones (10)
  MaxPage,       \* the server's limit (500)
  ViewLimit,     \* events the browser keeps (200)
  DiskMayFail,   \* whether an append may stop halfway
  MaxBoots,      \* bound: runs of the daemon
  MaxEvents,     \* bound: events of each run
  MaxConnects    \* bound: subscriptions of the browser

ASSUME StreamAssumption ==
  /\ Capacity \in Nat \ {0}
  /\ {PageLimit, Margin, MaxPage, ViewLimit, MaxConnects} \subseteq Nat
  /\ MaxBoots \in Nat \ {0} /\ MaxEvents \in [1..MaxBoots -> Nat]
  /\ DiskMayFail \in BOOLEAN

Events == UNION {[boot : {b}, seq : 0..(MaxEvents[b] - 1)] : b \in 1..MaxBoots}

\* fetchHistory: the parameters of a request, and what came back.
Requests == [before : Option({e.seq : e \in Events}), limit : Nat]

VARIABLES
  up, boot,            \* whether the daemon runs, and its how-manieth run it is
  nextSeq, claimed,    \* EventBus::seq; the number each publisher took but has not sent
  bus, sent, dropped,  \* the ring, and the two counters of /api/health
  persisting,          \* the persisting task is in its loop
  logPos, file, torn,  \* its position; the file; the last line lacks its newline
  logSkipped, logLost, \* history: events it missed in this run, events it failed to write
  connected, pos,      \* the browser's subscription
  view,                \* the events it shows
  asked, answered,     \* history requests under way, and answers not yet merged
  connects,            \* subscriptions so far
  \* History of the current subscription.
  since, got, skipped

daemon  == <<up, boot>>
ring    == <<nextSeq, claimed, bus, sent, dropped>>
writer  == <<persisting, logPos, file, torn, logSkipped, logLost>>
stream  == <<connected, pos, connects, since, got, skipped>>
browser == <<view, asked, answered>>
vars    == <<daemon, ring, writer, stream, browser>>

Init ==
  /\ up = TRUE /\ boot = 1
  /\ nextSeq = 0 /\ claimed = [p \in Publishers |-> None]
  /\ bus = << >> /\ sent = 0 /\ dropped = 0
  /\ persisting = TRUE /\ logPos = 0 /\ logSkipped = 0 /\ logLost = 0
  /\ file = << >> /\ torn = FALSE
  /\ connected = FALSE /\ pos = 0 /\ connects = 0
  /\ since = 0 /\ got = << >> /\ skipped = 0
  /\ view = << >> /\ asked = {} /\ answered = {}

-----------------------------------------------------------------------------
(* EventBus::publish_built takes a number, then sends.                     *)

Claim(p) ==
  /\ up /\ claimed[p] = None /\ nextSeq < MaxEvents[boot]
  /\ claimed' = [claimed EXCEPT ![p] = Some([boot |-> boot, seq |-> nextSeq])]
  /\ nextSeq' = nextSeq + 1
  /\ UNCHANGED <<daemon, bus, sent, dropped, writer, stream, browser>>

\* send() fails only when nobody subscribes; an overwritten event is no failure.
Send(p) ==
  /\ up /\ claimed[p] # None
  /\ claimed' = [claimed EXCEPT ![p] = None]
  /\ IF persisting \/ connected
     THEN /\ \E e \in claimed[p] : bus' = Append(bus, e)
          /\ sent' = sent + 1 /\ UNCHANGED dropped
     ELSE dropped' = dropped + 1 /\ UNCHANGED <<bus, sent>>
  /\ UNCHANGED <<daemon, nextSeq, writer, stream, browser>>

-----------------------------------------------------------------------------
(* The persisting task of main.rs, and EventLog::append.                   *)

\* recv() of a receiver that is too far behind skips to the oldest event.
Missed(position) == IF Len(bus) - position > Capacity THEN Len(bus) - position - Capacity ELSE 0

MutPersistLagged ==
  /\ up /\ persisting /\ Missed(logPos) > 0
  /\ persisting' = FALSE
  /\ UNCHANGED <<logPos, file, torn, logSkipped, logLost, daemon, ring, stream, browser>>

MutPersistLaggedToEnd ==
  /\ up /\ persisting /\ Missed(logPos) > 0
  /\ logPos' = Len(bus)
  /\ logSkipped' = logSkipped + Missed(logPos)
  /\ UNCHANGED <<persisting, file, torn, logLost, daemon, ring, stream, browser>>

PersistLagged ==
  /\ up /\ persisting /\ Missed(logPos) > 0
  /\ logPos' = logPos + Missed(logPos)
  /\ logSkipped' = logSkipped + Missed(logPos)
  /\ UNCHANGED <<persisting, file, torn, logLost, daemon, ring, stream, browser>>

\* A line written after a torn one continues it, and neither parses.
Persist ==
  /\ up /\ persisting /\ Missed(logPos) = 0 /\ logPos < Len(bus)
  /\ logPos' = logPos + 1
  /\ IF torn
     THEN torn' = FALSE /\ logLost' = logLost + 1 /\ UNCHANGED file
     ELSE file' = Append(file, Some(bus[logPos + 1])) /\ UNCHANGED <<torn, logLost>>
  /\ UNCHANGED <<persisting, logSkipped, daemon, ring, stream, browser>>

\* write_all fails halfway; the task warns and goes on.
PersistFails ==
  /\ DiskMayFail
  /\ up /\ persisting /\ Missed(logPos) = 0 /\ logPos < Len(bus)
  /\ logPos' = logPos + 1
  /\ torn' = TRUE /\ logLost' = logLost + 1
  /\ file' = IF torn THEN file ELSE Append(file, None)
  /\ UNCHANGED <<persisting, logSkipped, daemon, ring, stream, browser>>

-----------------------------------------------------------------------------
(* The SSE endpoint and the effect of App.jsx that subscribes to it.       *)

Newest(s) == SubSeq(s, IF Len(s) > ViewLimit THEN Len(s) - ViewLimit + 1 ELSE 1, Len(s))

\* The endpoint subscribes, then onConnected asks for the newest events.
Connect ==
  /\ up /\ ~connected /\ connects < MaxConnects
  /\ connected' = TRUE /\ connects' = connects + 1
  /\ pos' = Len(bus) /\ since' = Len(bus) /\ got' = << >> /\ skipped' = 0
  /\ asked' = asked \cup {[before |-> None, limit |-> PageLimit]}
  /\ UNCHANGED <<view, answered, daemon, ring, writer>>

MutReceiveEvent ==
  /\ up /\ connected /\ Missed(pos) = 0 /\ pos < Len(bus)
  /\ pos' = pos + 1 /\ got' = Append(got, bus[pos + 1])
  /\ view' = IF \E i \in DOMAIN view : view[i].seq = bus[pos + 1].seq THEN view
             ELSE Newest(Append(view, bus[pos + 1]))
  /\ UNCHANGED <<connected, connects, since, skipped, asked, answered, daemon, ring, writer>>

\* An event frame: it is shown, whether or not it is shown already.
ReceiveEvent ==
  /\ up /\ connected /\ Missed(pos) = 0 /\ pos < Len(bus)
  /\ pos' = pos + 1 /\ got' = Append(got, bus[pos + 1])
  /\ view' = Newest(Append(view, bus[pos + 1]))
  /\ UNCHANGED <<connected, connects, since, skipped, asked, answered, daemon, ring, writer>>

\* A lagged frame: onLagged asks for the events before the last one shown.
MutReceiveLagged ==
  /\ up /\ connected /\ Missed(pos) > 0
  /\ pos' = Len(bus) /\ skipped' = skipped + Missed(pos)
  /\ asked' = IF view = << >> THEN asked
              ELSE asked \cup {[before |-> Some(view[Len(view)].seq), limit |-> Missed(pos) + Margin]}
  /\ UNCHANGED <<connected, connects, since, got, view, answered, daemon, ring, writer>>

ReceiveLagged ==
  /\ up /\ connected /\ Missed(pos) > 0
  /\ pos' = pos + Missed(pos) /\ skipped' = skipped + Missed(pos)
  /\ asked' = IF view = << >> THEN asked
              ELSE asked \cup {[before |-> Some(view[Len(view)].seq), limit |-> Missed(pos) + Margin]}
  /\ UNCHANGED <<connected, connects, since, got, view, answered, daemon, ring, writer>>

\* events_history answers from the file as it is then.
Answer ==
  /\ up
  /\ \E r \in asked :
       /\ asked' = asked \ {r}
       /\ answered' = answered \cup
            {[request |-> r,
              page |-> History(file, r.before, IF r.limit > MaxPage THEN MaxPage ELSE r.limit)]}
  /\ UNCHANGED <<view, daemon, ring, writer, stream>>

\* Events whose number is not shown yet go to the end, oldest first.
Merge(shown, page) ==
  LET step(merged, e) ==
        IF \E i \in DOMAIN merged : merged[i].seq = e.seq THEN merged ELSE Append(merged, e)
  IN Newest(FoldLeft(step, shown, Reverse(page)))

Apply ==
  /\ \E a \in answered : answered' = answered \ {a} /\ view' = Merge(view, a.page)
  /\ UNCHANGED <<asked, daemon, ring, writer, stream>>

\* The browser loses or leaves the stream; requests go on.
Disconnect ==
  /\ connected /\ connected' = FALSE
  /\ UNCHANGED <<pos, connects, since, got, skipped, daemon, ring, writer, browser>>

-----------------------------------------------------------------------------
(* The daemon ends, at any moment, and is started again.                   *)

Crash ==
  /\ up /\ up' = FALSE
  /\ claimed' = [p \in Publishers |-> None]
  /\ connected' = FALSE /\ asked' = {}
  /\ UNCHANGED <<boot, nextSeq, bus, sent, dropped, writer, pos, connects, since, got, skipped,
                 view, answered>>

Start ==
  /\ ~up /\ boot < MaxBoots
  /\ up' = TRUE /\ boot' = boot + 1
  /\ nextSeq' = 0 /\ bus' = << >> /\ sent' = 0 /\ dropped' = 0
  /\ persisting' = TRUE /\ logPos' = 0 /\ logSkipped' = 0 /\ logLost' = 0
  /\ pos' = 0 /\ since' = 0 /\ got' = << >> /\ skipped' = 0
  /\ UNCHANGED <<claimed, file, torn, connected, connects, browser>>

-----------------------------------------------------------------------------
Next ==
  \/ \E p \in Publishers : Claim(p) \/ Send(p)
  \/ PersistLagged \/ Persist \/ PersistFails
  \/ Connect \/ ReceiveEvent \/ ReceiveLagged \/ Answer \/ Apply \/ Disconnect
  \/ Crash \/ Start

(***************************************************************************)
(* The runtime polls the persisting task and the SSE task while they have  *)
(* something to do.  Nothing has to be published, and nobody has to        *)
(* connect, ask, stop or start.                                            *)
(***************************************************************************)
Fairness ==
  /\ WF_vars(PersistLagged) /\ WF_vars(Persist \/ PersistFails)
  /\ WF_vars(ReceiveLagged) /\ WF_vars(ReceiveEvent)

Spec     == Init /\ [][Next]_vars
FairSpec == Spec /\ Fairness

-----------------------------------------------------------------------------
TypeOK ==
  /\ up \in BOOLEAN /\ boot \in 1..MaxBoots
  /\ nextSeq \in 0..MaxEvents[boot] /\ claimed \in [Publishers -> Option(Events)]
  /\ bus \in Seq(Events) /\ sent \in Nat /\ dropped \in Nat
  /\ persisting \in BOOLEAN /\ logPos \in Nat
  /\ file \in Seq(Option(Events)) /\ torn \in BOOLEAN
  /\ logSkipped \in Nat /\ logLost \in Nat
  /\ connected \in BOOLEAN /\ pos \in Nat /\ connects \in 0..MaxConnects
  /\ since \in Nat /\ got \in Seq(Events) /\ skipped \in Nat
  /\ view \in Seq(Events) /\ Len(view) <= ViewLimit
  /\ asked \subseteq Requests
  /\ answered \subseteq [request : Requests, page : Seq(Events)]

\* The lines of the file that this run of the daemon wrote.
WrittenNow == {i \in DOMAIN file : \E e \in file[i] : e.boot = boot}

\* Once no publisher is between taking its number and sending, the events of
\* the run carry each number once and leave none out (eventbus.rs:47-60), however
\* the publishers interleaved.
NumbersComplete ==
  up /\ (\A p \in Publishers : claimed[p] = None) =>
    /\ Len(bus) = nextSeq
    /\ {bus[i].seq : i \in DOMAIN bus} = 0..(nextSeq - 1)

\* The file holds this run's events in the order they were sent, none of them
\* twice, and short of exactly what the task was told it missed or failed to
\* write (main.rs:63-75, eventlog.rs:38-46); and what was sent is complete.
LogFollowsBus ==
  /\ NumbersComplete
  /\ logPos <= Len(bus)
  /\ Cardinality(WrittenNow) = logPos - logSkipped - logLost
  /\ \A i, j \in WrittenNow : i < j =>
       \E k, l \in 1..logPos : k < l /\ file[i] = Some(bus[k]) /\ file[j] = Some(bus[l])

\* What a page should be: the newest events before the anchor.
Reference(before) == {e \in UNION {file[i] : i \in DOMAIN file} : Before(e.seq, before)}

\* A page holds events of the file before its anchor, newest first, no more
\* than asked for; while fewer than that are found, it lacks at most one line
\* for each chunk boundary the scan crossed (eventlog.rs:55-113).
PageIsSound ==
  [][\A a \in answered' \ answered :
       LET page == a.page
           r == a.request
       IN /\ Len(page) <= r.limit
          /\ ToSet(page) \subseteq Reference(r.before)
          /\ \A i \in 2..Len(page) : page[i].seq <= page[i - 1].seq
          /\ Len(page) < r.limit /\ r.limit <= MaxPage =>
               Cardinality(Reference(r.before) \ ToSet(page)) <= Cardinality(Boundaries(file))]_vars

\* Every subscription is an EventFeed: what the SSE reader is not given, in the
\* order in which it was sent, it is told of (http.rs:260-283).  Where a
\* subscription starts and which numbers its events have is left open: the
\* comment at eventbus.rs:70 disagrees with the code on both (see EventFeed).
Feed == INSTANCE EventFeed WITH published <- bus, start <- since, position <- pos
FeedSpec == Feed!FeedSpec

\* In a subscription that lost nothing, every event still to be delivered is
\* shown sooner or later, also when it has the number of an event of an earlier
\* run of the daemon (App.jsx:611).
ShownOrTold ==
  \A e \in Events :
    connected /\ e \in ToSet(SubSeq(bus, pos + 1, Len(bus)))
      ~> e \in ToSet(view) \/ skipped > 0 \/ ~connected

\* Every event sent reaches the file, or the task misses or fails to write
\* something, or the daemon ends first (main.rs:63-75).
PersistedOrTold ==
  \A e \in Events :
    e \in ToSet(bus) ~> Some(e) \in ToSet(file) \/ logSkipped + logLost > 0 \/ ~up

\* A gap the browser was told of while it showed the event before it is filled
\* from the history once all requests are answered and everything is on disk
\* in whole lines (App.jsx:608).
GapsAreFilled ==
  /\ got # << >> /\ got[1] = bus[since + 1]
  /\ up /\ connected /\ pos = Len(bus) /\ asked = {} /\ answered = {}
  /\ logPos = Len(bus) /\ logSkipped + logLost = 0 /\ Boundaries(file) = {}
  => \A i \in (since + 1)..Len(bus) : bus[i] \in ToSet(view)
=============================================================================
