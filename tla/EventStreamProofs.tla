------------------------- MODULE EventStreamProofs -------------------------
(***************************************************************************)
(* Proofs about EventStream for every set of publishers, capacity, limit   *)
(* and number of runs: that the events of a run are numbered without gaps, *)
(* that the file holds them in order and short of what was counted as      *)
(* missed, that a subscription implements EventFeed, and that a page of    *)
(* the history is sound, for every size of lines and chunks.               *)
(***************************************************************************)
EXTENDS EventStream, FiniteSetTheorems, TLAPS

-----------------------------------------------------------------------------
(* Types of what the proofs are about.  Nothing here is said of what the   *)
(* browser shows: Merge folds over a page.                                 *)

StreamType ==
  /\ up \in BOOLEAN /\ boot \in 1..MaxBoots
  /\ nextSeq \in Nat /\ claimed \in [Publishers -> Option(Events)]
  /\ bus \in Seq(Events) /\ file \in Seq(Option(Events))
  /\ logPos \in Nat /\ logSkipped \in Nat /\ logLost \in Nat /\ logPos <= Len(bus)
  /\ since \in Nat /\ pos \in Nat /\ pos <= Len(bus) /\ skipped \in Nat

LEMMA EventIsTyped ==
  ASSUME StreamType, nextSeq < MaxEvents[boot]
  PROVE  [boot |-> boot, seq |-> nextSeq] \in Events
<1>1. MaxEvents[boot] \in Nat BY StreamAssumption DEF StreamType
<1>2. nextSeq \in 0..(MaxEvents[boot] - 1) BY <1>1 DEF StreamType
<1>3. [boot |-> boot, seq |-> nextSeq] \in [boot : {boot}, seq : 0..(MaxEvents[boot] - 1)]
  BY <1>2
<1>4. QED BY <1>3 DEF Events, StreamType

LEMMA Optional == \A S : \A o \in Option(S) : \A x \in o : x \in S
  BY DEF Option, None, Some

LEMMA Appended ==
  ASSUME NEW S, NEW s \in Seq(S), NEW x \in S
  PROVE  /\ Append(s, x) \in Seq(S) /\ Len(Append(s, x)) = Len(s) + 1 /\ Len(s) \in Nat
         /\ \A i \in 1..Len(s) : Append(s, x)[i] = s[i]
         /\ Append(s, x)[Len(s) + 1] = x
OBVIOUS

\* A receiver is never moved past the end of the ring.
LEMMA MissedBound ==
  ASSUME StreamType, NEW p \in Nat, p <= Len(bus)
  PROVE  Missed(p) \in Nat /\ p + Missed(p) \in Nat /\ p + Missed(p) <= Len(bus)
<1>1. Len(bus) \in Nat BY DEF StreamType
<1>2. QED BY <1>1, StreamAssumption DEF Missed

LEMMA StreamTypeInit == Init => StreamType
<1> SUFFICES ASSUME Init PROVE StreamType OBVIOUS
<1>1. << >> \in Seq(Events) /\ << >> \in Seq(Option(Events)) /\ Len(<< >>) = 0 OBVIOUS
<1>2. [p \in Publishers |-> None] \in [Publishers -> Option(Events)] BY DEF Option
<1>3. QED BY <1>1, <1>2, StreamAssumption DEF Init, StreamType

LEMMA StreamTypeNext == ASSUME StreamType, [Next]_vars PROVE StreamType'
<1>1. CASE UNCHANGED vars
  BY <1>1 DEF StreamType, vars, daemon, ring, writer, stream, browser
<1>2. ASSUME NEW p \in Publishers, Claim(p) PROVE StreamType'
  <2>1. claimed' \in [Publishers -> Option(Events)] BY <1>2, EventIsTyped DEF Claim, StreamType, Option
  <2>2. nextSeq' \in Nat BY <1>2 DEF Claim, StreamType
  <2>3. QED BY <1>2, <2>1, <2>2 DEF Claim, StreamType, daemon, writer, stream
<1>3. ASSUME NEW p \in Publishers, Send(p) PROVE StreamType'
  <2>1. claimed' \in [Publishers -> Option(Events)] BY <1>3 DEF Send, StreamType, Option
  <2>2. \A e \in claimed[p] : e \in Events BY DEF StreamType, Option, None, Some
  <2>3. bus' \in Seq(Events) /\ Len(bus) <= Len(bus')
    <3>1. bus \in Seq(Events) /\ Len(bus) \in Nat BY DEF StreamType
    <3>2. \A e \in Events : Append(bus, e) \in Seq(Events) /\ Len(Append(bus, e)) = Len(bus) + 1
      BY <3>1, Appended
    <3>3. bus' = bus \/ \E e \in Events : bus' = Append(bus, e) BY <1>3, <2>2 DEF Send
    <3>4. QED BY <3>1, <3>2, <3>3
  <2>4. Len(bus) \in Nat /\ Len(bus') \in Nat BY <2>3 DEF StreamType
  <2>5. QED BY <1>3, <2>1, <2>3, <2>4 DEF Send, StreamType, daemon, writer, stream
<1>4. CASE PersistLagged
  <2>1. /\ Missed(logPos) \in Nat /\ logPos + Missed(logPos) \in Nat
        /\ logPos + Missed(logPos) <= Len(bus)
    BY MissedBound DEF StreamType
  <2>2. QED BY <1>4, <2>1 DEF PersistLagged, StreamType, daemon, ring, stream
<1>5. CASE Persist
  <2>1. Len(bus) \in Nat BY DEF StreamType
  <2>2. Some(bus[logPos + 1]) \in Option(Events)
    <3>1. bus[logPos + 1] \in Events BY <1>5, <2>1 DEF Persist, StreamType
    <3>2. QED BY <3>1 DEF Option
  <2>3. file' \in Seq(Option(Events))
    <3>1. file \in Seq(Option(Events)) BY DEF StreamType
    <3>2. file' = file \/ file' = Append(file, Some(bus[logPos + 1])) BY <1>5 DEF Persist
    <3>3. QED BY <2>2, <3>1, <3>2, Appended
  <2>4. QED BY <1>5, <2>1, <2>3 DEF Persist, StreamType, daemon, ring, stream
<1>6. CASE PersistFails
  <2>1. Len(bus) \in Nat BY DEF StreamType
  <2>2. file' \in Seq(Option(Events))
    <3>1. None \in Option(Events) BY DEF Option
    <3>2. QED BY <1>6, <3>1 DEF PersistFails, StreamType
  <2>3. QED BY <1>6, <2>1, <2>2 DEF PersistFails, StreamType, daemon, ring, stream
<1>7. CASE Connect
  <2>1. Len(bus) \in Nat BY DEF StreamType
  <2>2. QED BY <1>7, <2>1 DEF Connect, StreamType, daemon, ring, writer
<1>8. CASE ReceiveEvent
  <2>1. Len(bus) \in Nat BY DEF StreamType
  <2>2. QED BY <1>8, <2>1 DEF ReceiveEvent, StreamType, daemon, ring, writer
<1>9. CASE ReceiveLagged
  <2>1. /\ Missed(pos) \in Nat /\ pos + Missed(pos) \in Nat /\ pos + Missed(pos) <= Len(bus)
    BY MissedBound DEF StreamType
  <2>2. QED BY <1>9, <2>1 DEF ReceiveLagged, StreamType, daemon, ring, writer
<1>10. CASE Answer \/ Apply \/ Disconnect
  BY <1>10 DEF Answer, Apply, Disconnect, StreamType, daemon, ring, writer, stream
<1>11. CASE Crash
  BY <1>11 DEF Crash, StreamType, Option, writer
<1>12. CASE Start
  <2>1. << >> \in Seq(Events) /\ Len(<< >>) = 0 OBVIOUS
  <2>2. boot + 1 \in 1..MaxBoots BY <1>12, StreamAssumption DEF Start, StreamType
  <2>3. QED BY <1>12, <2>1, <2>2 DEF Start, StreamType
<1>13. QED
  BY <1>1, <1>2, <1>3, <1>4, <1>5, <1>6, <1>7, <1>8, <1>9, <1>10, <1>11, <1>12 DEF Next

-----------------------------------------------------------------------------
(* A subscription is an EventFeed.                                         *)

LEMMA StepIsFed == ASSUME StreamType, [Next]_vars PROVE [Feed!FeedNext]_(Feed!feedVars)
<1>1. CASE UNCHANGED vars
  BY <1>1 DEF Feed!feedVars, vars, ring, stream
<1>2. ASSUME NEW p \in Publishers, Send(p) PROVE Feed!Publish \/ UNCHANGED Feed!feedVars
  <2>1. \A e \in claimed[p] : e \in Events BY DEF StreamType, Option, None, Some
  <2>2. QED BY <1>2, <2>1 DEF Send, Feed!Publish, Feed!feedVars, stream
<1>3. CASE Connect
  <2>1. Len(bus) \in 0..Len(bus) BY DEF StreamType
  <2>2. QED BY <1>3, <2>1 DEF Connect, ring, Feed!Subscribe, Feed!FeedNext
<1>4. CASE ReceiveEvent BY <1>4 DEF ReceiveEvent, ring, Feed!Deliver, Feed!FeedNext
<1>5. CASE ReceiveLagged
  <2>1. /\ Missed(pos) \in Nat /\ pos + Missed(pos) \in Nat /\ pos + Missed(pos) <= Len(bus)
        /\ pos \in Nat /\ Len(bus) \in Nat
    BY MissedBound DEF StreamType
  <2>2. Missed(pos) > 0 /\ pos' = pos + Missed(pos) /\ skipped' = skipped + Missed(pos)
    BY <1>5 DEF ReceiveLagged
  <2>3. pos' \in (pos + 1)..Len(bus) /\ pos' - pos = Missed(pos) BY <2>1, <2>2
  <2>4. QED BY <1>5, <2>2, <2>3 DEF ReceiveLagged, ring, Feed!Skip, Feed!FeedNext
<1>6. CASE Start BY <1>6 DEF Start, Feed!Restart, Feed!FeedNext
<1>7. ASSUME NEW p \in Publishers, Claim(p) PROVE UNCHANGED Feed!feedVars
  BY <1>7 DEF Claim, stream, Feed!feedVars
<1>8. CASE PersistLagged \/ Persist \/ PersistFails
  BY <1>8 DEF PersistLagged, Persist, PersistFails, ring, stream, Feed!feedVars
<1>9. CASE Answer \/ Apply \/ Disconnect \/ Crash
  BY <1>9 DEF Answer, Apply, Disconnect, Crash, ring, stream, Feed!feedVars
<1>10. QED
  BY <1>1, <1>2, <1>3, <1>4, <1>5, <1>6, <1>7, <1>8, <1>9 DEF Next, Feed!FeedNext

\* One subscription of the bus with the SSE reader at its end is the feed: from
\* where it starts on the reader is given the events in the order they were sent,
\* at most once each, and is told how many it was too slow for (http.rs:260-283),
\* for every capacity of the ring.
THEOREM KeepsFeed == Spec => FeedSpec
<1>1. Init => Feed!FeedInit BY DEF Init, Feed!FeedInit
<1>2. QED
  BY <1>1, StreamTypeInit, StreamTypeNext, StepIsFed, PTL DEF Spec, FeedSpec, Feed!FeedSpec

-----------------------------------------------------------------------------
(* Numbers.  Between taking a number and sending it a publisher holds it,  *)
(* so what is without gaps is what was sent and what is held together.     *)

NumberInv ==
  /\ persisting
  /\ \A i \in DOMAIN bus : bus[i].boot = boot /\ bus[i].seq < nextSeq
  /\ \A p \in Publishers : \A e \in claimed[p] : up /\ e.boot = boot /\ e.seq < nextSeq
  /\ \A i, j \in DOMAIN bus : bus[i].seq = bus[j].seq => i = j
  /\ \A p, q \in Publishers : \A e \in claimed[p], f \in claimed[q] : e.seq = f.seq => p = q
  /\ \A p \in Publishers : \A e \in claimed[p] : \A i \in DOMAIN bus : bus[i].seq # e.seq
  /\ up => \A n \in 0..(nextSeq - 1) :
             \/ \E i \in DOMAIN bus : bus[i].seq = n
             \/ \E p \in Publishers : \E e \in claimed[p] : e.seq = n

LEMMA EventNumbers == \A e \in Events : e.seq \in Nat
<1>1. SUFFICES ASSUME NEW b \in 1..MaxBoots, NEW e \in [boot : {b}, seq : 0..(MaxEvents[b] - 1)]
              PROVE e.seq \in Nat
  BY DEF Events
<1>2. QED BY <1>1

\* Taking a number: it is new, and it is held.
LEMMA ClaimNumbers ==
  ASSUME StreamType, NumberInv, NEW p \in Publishers, Claim(p)
  PROVE  NumberInv'
<1> DEFINE new == [boot |-> boot, seq |-> nextSeq]
<1>1. /\ up /\ claimed' = [claimed EXCEPT ![p] = {new}]
      /\ nextSeq' = nextSeq + 1 /\ UNCHANGED <<up, boot, bus, persisting>>
  BY DEF Claim, Some, daemon, writer
<1>2. new.boot = boot /\ new.seq = nextSeq OBVIOUS
<1> HIDE DEF new
<1>3. nextSeq \in Nat /\ claimed'[p] = {new} /\ \A q \in Publishers : q # p => claimed'[q] = claimed[q]
  BY <1>1 DEF StreamType
<1>4. \A i \in DOMAIN bus : bus[i].seq \in Nat BY EventNumbers DEF StreamType
<1>5. \A q \in Publishers : \A e \in claimed[q] : e.seq \in Nat
  BY EventNumbers DEF StreamType, Option, None, Some
<1>6. \A q \in Publishers : \A e \in claimed'[q] : (q = p /\ e = new) \/ (q # p /\ e \in claimed[q])
  BY <1>3
<1>7. \A i \in DOMAIN bus : bus[i].boot = boot /\ bus[i].seq < nextSeq' BY <1>1, <1>3, <1>4 DEF NumberInv
<1>8. \A q \in Publishers : \A e \in claimed'[q] : up /\ e.boot = boot /\ e.seq < nextSeq'
  BY <1>1, <1>2, <1>3, <1>5, <1>6 DEF NumberInv
<1>9. \A q, r \in Publishers : \A e \in claimed'[q], f \in claimed'[r] : e.seq = f.seq => q = r
  <2>1. \A q \in Publishers : \A e \in claimed[q] : e.seq # nextSeq BY <1>3, <1>5 DEF NumberInv
  <2>2. QED BY <1>2, <1>6, <2>1 DEF NumberInv
<1>10. \A q \in Publishers : \A e \in claimed'[q] : \A i \in DOMAIN bus : bus[i].seq # e.seq
  <2>1. \A i \in DOMAIN bus : bus[i].seq # nextSeq BY <1>3, <1>4 DEF NumberInv
  <2>2. QED BY <1>2, <1>6, <2>1 DEF NumberInv
<1>11. ASSUME NEW n \in 0..(nextSeq' - 1)
       PROVE  \/ \E i \in DOMAIN bus : bus[i].seq = n
              \/ \E q \in Publishers : \E e \in claimed'[q] : e.seq = n
  <2>1. CASE n = nextSeq BY <1>2, <1>3, <2>1
  <2>2. CASE n # nextSeq
    <3>1. n \in 0..(nextSeq - 1) BY <1>1, <1>3, <2>2
    <3>2. claimed[p] = {} BY DEF Claim, None
    <3>3. \A q \in Publishers : \A e \in claimed[q] : e \in claimed'[q] BY <1>3, <3>2
    <3>4. QED BY <1>1, <3>1, <3>3 DEF NumberInv
  <2>3. QED BY <2>1, <2>2
<1>12. QED BY <1>1, <1>7, <1>8, <1>9, <1>10, <1>11 DEF NumberInv

\* Sending: what was held is in the ring.
LEMMA SendNumbers ==
  ASSUME StreamType, NumberInv, NEW p \in Publishers, Send(p)
  PROVE  NumberInv'
<1>1. PICK new \in claimed[p] : bus' = Append(bus, new) BY DEF Send, NumberInv
<1>2. /\ claimed' = [claimed EXCEPT ![p] = {}]
      /\ UNCHANGED <<up, boot, nextSeq, persisting>>
  BY DEF Send, None, daemon, writer
<1>3. claimed'[p] = {} /\ \A q \in Publishers : q # p => claimed'[q] = claimed[q]
  BY <1>2 DEF StreamType
<1>4. claimed[p] = {new} /\ new \in Events BY <1>1 DEF StreamType, Option, None, Some
<1>5. bus \in Seq(Events) /\ Len(bus) \in Nat BY DEF StreamType
<1>6. /\ DOMAIN bus = 1..Len(bus) /\ DOMAIN bus' = 1..(Len(bus) + 1)
      /\ \A i \in 1..Len(bus) : bus'[i] = bus[i]
      /\ bus'[Len(bus) + 1] = new
  BY <1>1, <1>4, <1>5, Appended
<1>7. \A i \in DOMAIN bus' : (i \in DOMAIN bus /\ bus'[i] = bus[i]) \/ (i = Len(bus) + 1 /\ bus'[i] = new)
  BY <1>5, <1>6
<1>8. new.boot = boot /\ new.seq < nextSeq BY <1>1 DEF NumberInv
<1>9. \A i \in DOMAIN bus : bus[i].seq # new.seq BY <1>1 DEF NumberInv
<1>10. \A i \in DOMAIN bus' : bus'[i].boot = boot /\ bus'[i].seq < nextSeq BY <1>7, <1>8 DEF NumberInv
<1>11. \A i, j \in DOMAIN bus' : bus'[i].seq = bus'[j].seq => i = j BY <1>7, <1>9 DEF NumberInv
<1>12. \A q \in Publishers : \A e \in claimed'[q] : q # p /\ e \in claimed[q] BY <1>3
<1>13. \A q \in Publishers : \A e \in claimed'[q] : \A i \in DOMAIN bus' : bus'[i].seq # e.seq
  <2>1. \A q \in Publishers : \A e \in claimed'[q] : e.seq # new.seq BY <1>1, <1>12 DEF NumberInv
  <2>2. QED BY <1>7, <1>12, <2>1 DEF NumberInv
<1>14. ASSUME NEW n \in 0..(nextSeq - 1)
       PROVE  \/ \E i \in DOMAIN bus' : bus'[i].seq = n
              \/ \E q \in Publishers : \E e \in claimed'[q] : e.seq = n
  <2>1. CASE \E i \in DOMAIN bus : bus[i].seq = n
    <3>1. \A i \in DOMAIN bus : i \in DOMAIN bus' BY <1>5, <1>6
    <3>2. QED BY <1>6, <2>1, <3>1
  <2>2. CASE n = new.seq
    <3>1. Len(bus) + 1 \in DOMAIN bus' BY <1>5, <1>6
    <3>2. QED BY <1>6, <2>2, <3>1
  <2>3. CASE \E q \in Publishers : \E e \in claimed[q] : e.seq = n /\ q # p BY <1>3, <2>3
  <2>4. QED
    <3>1. up BY DEF Send
    <3>2. QED BY <1>4, <2>1, <2>2, <2>3, <3>1 DEF NumberInv
<1>15. QED BY <1>2, <1>10, <1>11, <1>12, <1>13, <1>14 DEF NumberInv

LEMMA NumberInit == Init => NumberInv
<1> SUFFICES ASSUME Init PROVE NumberInv OBVIOUS
<1>1. DOMAIN bus = {} /\ nextSeq = 0 /\ \A p \in Publishers : claimed[p] = {} BY DEF Init, None
<1>2. 0..(nextSeq - 1) = {} BY <1>1
<1>3. persisting BY DEF Init
<1>4. QED BY <1>1, <1>2, <1>3 DEF NumberInv

LEMMA NumberNext == ASSUME StreamType, NumberInv, [Next]_vars PROVE NumberInv'
<1>1. CASE UNCHANGED <<up, boot, nextSeq, claimed, bus, persisting>> BY <1>1 DEF NumberInv
<1>2. ASSUME NEW p \in Publishers, Claim(p) \/ Send(p) PROVE NumberInv'
  BY <1>2, ClaimNumbers, SendNumbers
<1>3. CASE Crash
  <2>1. \A p \in Publishers : claimed'[p] = {} BY <1>3 DEF Crash, None
  <2>2. ~up' /\ UNCHANGED <<boot, nextSeq, bus, persisting>> BY <1>3 DEF Crash, writer
  <2>3. QED BY <2>1, <2>2 DEF NumberInv
<1>4. CASE Start
  <2>1. nextSeq' = 0 /\ DOMAIN bus' = {} /\ persisting' /\ UNCHANGED claimed BY <1>4 DEF Start
  <2>2. 0..(nextSeq' - 1) = {} BY <2>1
  <2>3. \A p \in Publishers : claimed[p] = {}
    BY <1>4 DEF Start, NumberInv
  <2>4. QED BY <2>1, <2>2, <2>3 DEF NumberInv
<1>5. QED
  BY <1>1, <1>2, <1>3, <1>4 DEF Next, vars, daemon, ring, writer, stream, browser, PersistLagged,
     Persist, PersistFails, Connect, ReceiveEvent, ReceiveLagged, Answer, Apply, Disconnect

\* With nothing held, numbering is a bijection between the ring and the numbers
\* given out.
LEMMA NothingHeldIsComplete == ASSUME StreamType, NumberInv PROVE NumbersComplete
<1> SUFFICES ASSUME up, \A p \in Publishers : claimed[p] = None
             PROVE  Len(bus) = nextSeq /\ {bus[i].seq : i \in DOMAIN bus} = 0..(nextSeq - 1)
  BY DEF NumbersComplete
<1> DEFINE numbers == 0..(nextSeq - 1)
           number == [i \in 1..Len(bus) |-> bus[i].seq]
<1>1. bus \in Seq(Events) /\ Len(bus) \in Nat /\ DOMAIN bus = 1..Len(bus) /\ nextSeq \in Nat
  BY DEF StreamType
<1>2. \A i \in DOMAIN bus : bus[i].seq \in Nat BY EventNumbers DEF StreamType
<1>3. \A i \in DOMAIN bus : bus[i].seq \in numbers BY <1>1, <1>2 DEF NumberInv
<1>4. \A n \in numbers : \E i \in DOMAIN bus : bus[i].seq = n BY DEF NumberInv, None
<1>5. \A i, j \in DOMAIN bus : bus[i].seq = bus[j].seq => i = j BY DEF NumberInv
<1> HIDE DEF numbers
<1>6. number \in [1..Len(bus) -> numbers] BY <1>1, <1>3
<1>7. \A n \in numbers : \E i \in 1..Len(bus) : number[i] = n BY <1>1, <1>4
<1>8. \A i, j \in 1..Len(bus) : number[i] = number[j] => i = j BY <1>1, <1>5
<1> HIDE DEF number
<1>9. ExistsBijection(1..Len(bus), numbers)
  BY <1>6, <1>7, <1>8 DEF ExistsBijection, Bijection, Injection, Surjection, IsInjective
<1>10. Cardinality(numbers) = Cardinality(1..Len(bus)) BY <1>1, <1>9, FS_Bijection, FS_Interval
<1>11. Cardinality(1..Len(bus)) = Len(bus) BY <1>1, FS_Interval
<1>12. Cardinality(numbers) = nextSeq BY <1>1, FS_Interval DEF numbers
<1>13. {bus[i].seq : i \in DOMAIN bus} = numbers BY <1>3, <1>4
<1>14. QED BY <1>10, <1>11, <1>12, <1>13 DEF numbers

-----------------------------------------------------------------------------
(* The file.  A line of this run is the event at some position the task    *)
(* has passed, and a new line is the event at the next one.                *)

LogInv ==
  /\ \A i \in DOMAIN file : \A e \in file[i] : e.boot <= boot
  /\ IsFiniteSet(WrittenNow)
  /\ Cardinality(WrittenNow) = logPos - logSkipped - logLost
  /\ \A i \in WrittenNow : \E k \in 1..logPos : file[i] = Some(bus[k])
  /\ \A i, j \in WrittenNow : i < j =>
       \E k, l \in 1..logPos : k < l /\ file[i] = Some(bus[k]) /\ file[j] = Some(bus[l])

\* Passing an event without writing its line, with everything in the ring before
\* it as it was.
LEMMA PassingKeepsLog ==
  ASSUME StreamType, LogInv, NumberInv, StreamType',
         UNCHANGED boot, logPos <= logPos', Len(bus) <= Len(bus'),
         \A k \in 1..Len(bus) : bus'[k] = bus[k],
         \/ UNCHANGED file
         \/ file' = Append(file, None),
         logPos' - logSkipped' - logLost' = logPos - logSkipped - logLost
  PROVE  LogInv'
<1>1. /\ file \in Seq(Option(Events)) /\ DOMAIN file = 1..Len(file) /\ Len(file) \in Nat
      /\ logPos \in Nat /\ Len(bus) \in Nat /\ logPos <= Len(bus)
  <2>1. file \in Seq(Option(Events)) /\ bus \in Seq(Events) /\ logPos \in Nat /\ logPos <= Len(bus)
    BY DEF StreamType
  <2>2. QED BY <2>1
<1> logPos' \in Nat BY DEF StreamType
<1>2. /\ \A i \in DOMAIN file : file'[i] = file[i]
      /\ \A i \in DOMAIN file' : i \in DOMAIN file \/ file'[i] = {}
      /\ DOMAIN file \subseteq DOMAIN file'
  <2>1. CASE UNCHANGED file BY <2>1
  <2>2. CASE file' = Append(file, None)
    <3>1. /\ DOMAIN file' = 1..(Len(file) + 1) /\ file'[Len(file) + 1] = {}
          /\ \A i \in 1..Len(file) : file'[i] = file[i]
      BY <1>1, <2>2, Appended DEF Option, None
    <3>2. QED BY <1>1, <3>1
  <2>3. QED BY <2>1, <2>2
<1>3. WrittenNow' = WrittenNow BY <1>2 DEF WrittenNow
<1>4. \A i \in WrittenNow : file'[i] = file[i] BY <1>2 DEF WrittenNow
<1>5. \A k \in 1..logPos : k \in 1..logPos' /\ bus'[k] = bus[k] BY <1>1
<1>6. \A i \in DOMAIN file' : \A e \in file'[i] : e.boot <= boot BY <1>2 DEF LogInv
<1>7. \A i \in WrittenNow : \E k \in 1..logPos' : file'[i] = Some(bus'[k]) BY <1>4, <1>5 DEF LogInv, Some
<1>8. ASSUME NEW i \in WrittenNow, NEW j \in WrittenNow, i < j
      PROVE  \E k, l \in 1..logPos' : k < l /\ file'[i] = Some(bus'[k]) /\ file'[j] = Some(bus'[l])
  <2>1. PICK k \in 1..logPos, l \in 1..logPos : k < l /\ file[i] = Some(bus[k]) /\ file[j] = Some(bus[l])
    BY <1>8 DEF LogInv
  <2>2. QED BY <1>4, <1>5, <2>1 DEF Some
<1>9. IsFiniteSet(WrittenNow') /\ Cardinality(WrittenNow') = logPos' - logSkipped' - logLost'
  BY <1>3 DEF LogInv
<1>10. QED BY <1>3, <1>6, <1>7, <1>8, <1>9 DEF LogInv

\* Writing the next event.
LEMMA WritingKeepsLog ==
  ASSUME StreamType, LogInv, NumberInv,
         UNCHANGED <<boot, bus, logSkipped, logLost>>,
         logPos < Len(bus), logPos' = logPos + 1, file' = Append(file, Some(bus[logPos + 1]))
  PROVE  LogInv'
<1> DEFINE new == Len(file) + 1
<1>1. /\ file \in Seq(Option(Events)) /\ DOMAIN file = 1..Len(file) /\ Len(file) \in Nat
      /\ bus \in Seq(Events) /\ Len(bus) \in Nat /\ DOMAIN bus = 1..Len(bus)
      /\ logPos \in Nat /\ logSkipped \in Nat /\ logLost \in Nat
  BY DEF StreamType
<1>2. logPos + 1 \in DOMAIN bus BY <1>1
<1>3. bus[logPos + 1] \in Events /\ bus[logPos + 1].boot = boot BY <1>1, <1>2 DEF NumberInv
<1>4. Some(bus[logPos + 1]) \in Option(Events) BY <1>3 DEF Option
<1>5. /\ DOMAIN file' = 1..new /\ file'[new] = Some(bus[logPos + 1])
      /\ \A i \in 1..Len(file) : file'[i] = file[i]
  BY <1>1, <1>4, Appended
<1>6. new \in Nat /\ new \notin DOMAIN file /\ DOMAIN file' = DOMAIN file \cup {new}
      /\ \A i \in DOMAIN file : file'[i] = file[i] /\ i < new
  BY <1>1, <1>5
<1>7. bus[logPos + 1] \in file'[new] /\ \A e \in file'[new] : e.boot = boot
  BY <1>3, <1>5 DEF Some
<1> HIDE DEF new
<1>8. WrittenNow' = WrittenNow \cup {new} /\ new \notin WrittenNow
  <2>1. WrittenNow' = {i \in DOMAIN file' : \E e \in file'[i] : e.boot = boot} BY DEF WrittenNow
  <2>2. QED BY <1>3, <1>6, <1>7, <2>1 DEF WrittenNow
<1>9. IsFiniteSet(WrittenNow') /\ Cardinality(WrittenNow') = Cardinality(WrittenNow) + 1
  BY <1>8, FS_AddElement DEF LogInv
<1>10. Cardinality(WrittenNow') = logPos' - logSkipped' - logLost' BY <1>1, <1>9 DEF LogInv
<1>11. boot <= boot BY DEF StreamType
<1>12. \A i \in DOMAIN file' : \A e \in file'[i] : e.boot <= boot BY <1>6, <1>7, <1>11 DEF LogInv
<1>13. \A k \in 1..logPos : k \in 1..logPos' /\ k < logPos + 1 BY <1>1
<1>14. logPos + 1 \in 1..logPos' BY <1>1
<1>15. \A i \in WrittenNow : i \in DOMAIN file /\ file'[i] = file[i] /\ i < new BY <1>6 DEF WrittenNow
<1>16. \A i \in WrittenNow : \E k \in 1..logPos : file[i] = Some(bus[k]) BY DEF LogInv
<1>17. \A i \in WrittenNow' : \E k \in 1..logPos' : file'[i] = Some(bus[k])
  BY <1>5, <1>8, <1>13, <1>14, <1>15, <1>16
<1>18. ASSUME NEW i \in WrittenNow', NEW j \in WrittenNow', i < j
       PROVE  \E k, l \in 1..logPos' : k < l /\ file'[i] = Some(bus[k]) /\ file'[j] = Some(bus[l])
  <2>1. i \in WrittenNow
    <3>1. CASE j = new BY <1>6, <1>8, <1>18, <3>1
    <3>2. CASE j # new /\ i = new
      <4>1. j < new /\ j \in Nat BY <1>1, <1>8, <1>15, <3>2
      <4>2. QED BY <1>6, <1>18, <3>2, <4>1
    <3>3. QED BY <1>8, <3>1, <3>2
  <2>2. CASE j = new
    <3>1. PICK k \in 1..logPos : file[i] = Some(bus[k]) BY <1>16, <2>1
    <3>2. QED BY <1>5, <1>13, <1>14, <1>15, <2>1, <2>2, <3>1
  <2>3. CASE j \in WrittenNow
    <3>1. PICK k \in 1..logPos, l \in 1..logPos : k < l /\ file[i] = Some(bus[k]) /\ file[j] = Some(bus[l])
      BY <1>18, <2>1, <2>3 DEF LogInv
    <3>2. QED BY <1>13, <1>15, <2>1, <2>3, <3>1
  <2>4. QED BY <1>8, <2>2, <2>3
<1>19. bus' = bus /\ boot' = boot OBVIOUS
<1>20. \A i \in WrittenNow' : \E k \in 1..logPos' : file'[i] = Some(bus'[k]) BY <1>17, <1>19
<1>21. ASSUME NEW i \in WrittenNow', NEW j \in WrittenNow', i < j
       PROVE  \E k, l \in 1..logPos' : k < l /\ file'[i] = Some(bus'[k]) /\ file'[j] = Some(bus'[l])
  <2>1. PICK k \in 1..logPos', l \in 1..logPos' :
          k < l /\ file'[i] = Some(bus[k]) /\ file'[j] = Some(bus[l])
    BY <1>18, <1>21
  <2>2. QED BY <1>19, <2>1
<1>22. \A i \in DOMAIN file' : \A e \in file'[i] : e.boot <= boot' BY <1>12, <1>19
<1> HIDE DEF WrittenNow, Some
<1>23. QED BY <1>9, <1>10, <1>20, <1>21, <1>22 DEF LogInv

LEMMA LogInit == Init => LogInv
<1> SUFFICES ASSUME Init PROVE LogInv OBVIOUS
<1>1. DOMAIN file = {} /\ logPos = 0 /\ logSkipped = 0 /\ logLost = 0 BY DEF Init
<1>2. WrittenNow = {} BY <1>1 DEF WrittenNow
<1>3. QED BY <1>1, <1>2, FS_EmptySet DEF LogInv

LEMMA LogNext ==
  ASSUME StreamType, NumberInv, LogInv, StreamType', [Next]_vars PROVE LogInv'
<1>1. CASE UNCHANGED <<boot, bus, logPos, file, logSkipped, logLost>>
  BY <1>1 DEF LogInv, WrittenNow
<1>2. ASSUME NEW p \in Publishers, Send(p) PROVE LogInv'
  <2>1. PICK e \in Events : bus' = Append(bus, e)
    <3>1. PICK e \in claimed[p] : bus' = Append(bus, e) BY <1>2 DEF Send, NumberInv
    <3>2. claimed[p] \in Option(Events) BY DEF StreamType
    <3>3. e \in Events BY <3>1, <3>2, Optional
    <3>4. QED BY <3>1, <3>3
  <2>2. UNCHANGED <<boot, logPos, file, logSkipped, logLost>> BY <1>2 DEF Send, daemon, writer
  <2>3. bus \in Seq(Events) /\ logPos \in Nat BY DEF StreamType
  <2>4. Len(bus) <= Len(bus') /\ \A k \in 1..Len(bus) : bus'[k] = bus[k] BY <2>1, <2>3, Appended
  <2>5. logPos <= logPos' BY <2>2, <2>3
  <2>6. QED BY <2>2, <2>4, <2>5, PassingKeepsLog
<1>3. CASE PersistLagged
  <2>1. /\ UNCHANGED <<boot, bus, file, logLost>>
        /\ logPos' = logPos + Missed(logPos) /\ logSkipped' = logSkipped + Missed(logPos)
    BY <1>3 DEF PersistLagged, daemon, ring
  <2>2. Missed(logPos) \in Nat /\ logPos \in Nat /\ logSkipped \in Nat /\ logLost \in Nat /\ Len(bus) \in Nat
    <3>1. /\ logPos \in Nat /\ logSkipped \in Nat /\ logLost \in Nat /\ logPos <= Len(bus)
          /\ bus \in Seq(Events)
      BY DEF StreamType
    <3>2. QED BY <3>1, MissedBound
  <2>3. logPos <= logPos' /\ logPos' - logSkipped' - logLost' = logPos - logSkipped - logLost
        /\ Len(bus) <= Len(bus')
    BY <2>1, <2>2
  <2>4. \A k \in 1..Len(bus) : bus'[k] = bus[k] BY <2>1
  <2>5. UNCHANGED file \/ file' = Append(file, None) BY <2>1
  <2>6. QED BY <2>1, <2>3, <2>4, <2>5, PassingKeepsLog
<1>4. CASE Persist /\ ~torn
  <2>1. UNCHANGED <<boot, bus, logSkipped, logLost>> BY <1>4 DEF Persist, daemon, ring
  <2>2. /\ logPos < Len(bus) /\ logPos' = logPos + 1
        /\ file' = Append(file, Some(bus[logPos + 1]))
    BY <1>4 DEF Persist
  <2>3. QED BY <2>1, <2>2, WritingKeepsLog
<1>5. CASE (Persist /\ torn) \/ PersistFails
  <2>1. /\ UNCHANGED <<boot, bus, logSkipped>> /\ logPos' = logPos + 1 /\ logLost' = logLost + 1
        /\ (UNCHANGED file) \/ file' = Append(file, None)
    BY <1>5 DEF Persist, PersistFails, daemon, ring
  <2>2. logPos \in Nat /\ logSkipped \in Nat /\ logLost \in Nat /\ Len(bus) \in Nat BY DEF StreamType
  <2>3. logPos <= logPos' /\ logPos' - logSkipped' - logLost' = logPos - logSkipped - logLost
        /\ Len(bus) <= Len(bus')
    BY <2>1, <2>2
  <2>4. \A k \in 1..Len(bus) : bus'[k] = bus[k] BY <2>1
  <2>5. UNCHANGED file \/ file' = Append(file, None) BY <2>1
  <2>6. QED BY <2>1, <2>3, <2>4, <2>5, PassingKeepsLog
<1>6. CASE Start
  <2>1. boot' = boot + 1 /\ UNCHANGED file /\ logPos' = 0 /\ logSkipped' = 0 /\ logLost' = 0
    BY <1>6 DEF Start
  <2>2. \A i \in DOMAIN file : \A e \in file[i] : e \in Events
    <3>1. file \in Seq(Option(Events)) BY DEF StreamType
    <3>2. \A i \in DOMAIN file : file[i] \in Option(Events) BY <3>1
    <3>3. QED BY <3>2, Optional
  <2>3. \A e \in Events : e.boot \in Nat BY StreamAssumption DEF Events
  <2>4. \A i \in DOMAIN file : \A e \in file[i] : e.boot <= boot + 1 /\ e.boot # boot + 1
    <3>1. boot \in Nat BY DEF StreamType
    <3>2. QED BY <2>2, <2>3, <3>1 DEF LogInv
  <2>5. WrittenNow' = {} BY <2>1, <2>4 DEF WrittenNow
  <2>6. QED BY <2>1, <2>4, <2>5, FS_EmptySet DEF LogInv
<1>7. QED
  BY <1>1, <1>2, <1>3, <1>4, <1>5, <1>6 DEF Next, vars, daemon, ring, writer, stream, browser,
     Claim, Connect, ReceiveEvent, ReceiveLagged, Answer, Apply, Disconnect, Crash

\* However publishers, disk and crashes interleave, what the file holds of this
\* run is in the order it was sent and short of exactly what was counted
\* (main.rs:63-75, eventlog.rs:38-46, eventbus.rs:47-60).
THEOREM LogIsFaithful == Spec => []LogFollowsBus
<1> DEFINE Inv == StreamType /\ NumberInv /\ LogInv
<1>1. Init => Inv BY StreamTypeInit, NumberInit, LogInit
<1>2. Inv /\ [Next]_vars => Inv' BY StreamTypeNext, NumberNext, LogNext
<1>3. Inv => LogFollowsBus BY NothingHeldIsComplete DEF LogFollowsBus, LogInv, StreamType
<1> HIDE DEF Inv
<1>4. QED BY <1>1, <1>2, <1>3, PTL DEF Spec

-----------------------------------------------------------------------------
(* Finite sets in an order: how many members come before each.             *)

Orders(R, L) ==
  /\ \A i \in L : <<i, i>> \notin R
  /\ \A i, j, k \in L : <<i, j>> \in R /\ <<j, k>> \in R => <<i, k>> \in R
  /\ \A i, j \in L : i = j \/ <<i, j>> \in R \/ <<j, i>> \in R

Earlier(i, L, R) == {j \in L : <<j, i>> \in R}

\* Who comes later has more before it.
LEMMA CountsRise ==
  ASSUME NEW L, IsFiniteSet(L), NEW R, Orders(R, L), NEW i \in L
  PROVE  /\ Cardinality(Earlier(i, L, R)) \in 0..(Cardinality(L) - 1) /\ Cardinality(L) \in Nat
         /\ \A j \in L : <<j, i>> \in R => Cardinality(Earlier(j, L, R)) < Cardinality(Earlier(i, L, R))
<1>1. ASSUME NEW k \in L
      PROVE  IsFiniteSet(Earlier(k, L, R)) /\ Cardinality(Earlier(k, L, R)) \in Nat
  <2>1. Earlier(k, L, R) \in SUBSET L BY DEF Earlier
  <2>2. QED BY <2>1, FS_Subset, FS_CardinalityType
<1>2. Cardinality(L) \in Nat BY FS_CardinalityType
<1>3. Cardinality(Earlier(i, L, R)) < Cardinality(L)
  <2>1. Earlier(i, L, R) \in SUBSET L /\ i \notin Earlier(i, L, R) BY DEF Earlier, Orders
  <2>2. /\ Cardinality(Earlier(i, L, R)) <= Cardinality(L)
        /\ Cardinality(L) = Cardinality(Earlier(i, L, R)) => L = Earlier(i, L, R)
    BY <2>1, FS_Subset
  <2>3. Cardinality(L) # Cardinality(Earlier(i, L, R)) BY <2>1, <2>2
  <2>4. QED BY <1>1, <1>2, <2>2, <2>3
<1>4. ASSUME NEW j \in L, <<j, i>> \in R
      PROVE  Cardinality(Earlier(j, L, R)) < Cardinality(Earlier(i, L, R))
  <2>1. Earlier(j, L, R) \in SUBSET Earlier(i, L, R)
    BY <1>4 DEF Earlier, Orders
  <2>2. j \in Earlier(i, L, R) /\ j \notin Earlier(j, L, R) BY <1>4 DEF Earlier, Orders
  <2>3. /\ Cardinality(Earlier(j, L, R)) <= Cardinality(Earlier(i, L, R))
        /\ Cardinality(Earlier(i, L, R)) = Cardinality(Earlier(j, L, R)) => Earlier(i, L, R) = Earlier(j, L, R)
    BY <1>1, <2>1, FS_Subset
  <2>4. Cardinality(Earlier(i, L, R)) # Cardinality(Earlier(j, L, R)) BY <2>2, <2>3
  <2>5. QED BY <1>1, <2>3, <2>4
<1>5. QED BY <1>1, <1>2, <1>3, <1>4

\* Each number up to the size of the set is that of one member.
LEMMA CountsFill ==
  ASSUME NEW L, IsFiniteSet(L), NEW R, Orders(R, L), NEW n \in 0..(Cardinality(L) - 1)
  PROVE  \E i \in L : Cardinality(Earlier(i, L, R)) = n
<1> SUFFICES ASSUME \A i \in L : Cardinality(Earlier(i, L, R)) # n PROVE FALSE OBVIOUS
<1> DEFINE c == Cardinality(L)
           count(i) == Cardinality(Earlier(i, L, R))
           f == [i \in L |-> count(i)]
<1>1. c \in Nat BY FS_CardinalityType
<1>2. IsFiniteSet(0..(c - 1)) /\ Cardinality(0..(c - 1)) = c
  <2> HIDE DEF c
  <2>1. 0 \in Int /\ c - 1 \in Int BY <1>1
  <2>2. IsFiniteSet(0..(c - 1)) /\ Cardinality(0..(c - 1)) = IF 0 > c - 1 THEN 0 ELSE c - 1 - 0 + 1
    BY <2>1, FS_Interval
  <2>3. QED BY <1>1, <2>2
<1>3. IsFiniteSet((0..(c - 1)) \ {n}) /\ Cardinality((0..(c - 1)) \ {n}) = c - 1
  <2>1. n \in 0..(c - 1) OBVIOUS
  <2> HIDE DEF c
  <2>2. QED BY <1>2, <2>1, FS_RemoveElement
<1>4. \A i \in L : count(i) \in (0..(c - 1)) \ {n} BY CountsRise
<1>5. c - 1 < c BY <1>1
<1>6. PICK x \in L, y \in L : x # y /\ f[x] = f[y]
  <2>1. f \in [L -> (0..(c - 1)) \ {n}] BY <1>4
  <2> HIDE DEF f, c
  <2>2. QED BY <1>3, <1>5, <2>1, FS_PigeonHole DEF c
<1>7. count(x) = count(y) /\ (<<x, y>> \in R \/ <<y, x>> \in R) BY <1>6 DEF Orders
<1>8. count(x) \in Int /\ count(y) \in Int
  <2>1. count(x) \in 0..(c - 1) /\ count(y) \in 0..(c - 1) BY <1>4
  <2>2. QED BY <1>1, <2>1
<1>9. (<<x, y>> \in R => count(x) < count(y)) /\ (<<y, x>> \in R => count(y) < count(x)) BY CountsRise
<1> HIDE DEF count
<1>10. QED BY <1>7, <1>8, <1>9

\* The last of a set of positions: no more than the limit, and fewer only if they
\* are all there are.
LEMMA LastOfIs ==
  ASSUME NEW P, IsFiniteSet(P), P \subseteq Int, NEW limit \in Nat
  PROVE  LET kept == LastOf(P, limit)
         IN  /\ kept \subseteq P /\ IsFiniteSet(kept) /\ Cardinality(kept) \in 0..limit
             /\ Cardinality(kept) < limit => kept = P
<1> DEFINE R == {x \in P \X P : x[1] > x[2]}
           kept == LastOf(P, limit)
           count(i) == Cardinality(Earlier(i, P, R))
<1>1. Orders(R, P)
  <2>1. \A i, j \in P : i \in Int /\ j \in Int /\ (<<i, j>> \in R <=> i > j) OBVIOUS
  <2> HIDE DEF R
  <2>2. QED BY <2>1 DEF Orders
<1>2. \A i \in P : {j \in P : j > i} = Earlier(i, P, R) BY DEF Earlier
<1>3. kept = {i \in P : count(i) < limit} BY <1>2 DEF LastOf
<1>4. \A i \in P : count(i) \in Nat /\ count(i) < Cardinality(P) /\ \A j \in P : <<j, i>> \in R => count(j) < count(i)
  <2>1. \A i \in P : /\ count(i) \in 0..(Cardinality(P) - 1) /\ Cardinality(P) \in Nat
                     /\ \A j \in P : <<j, i>> \in R => count(j) < count(i)
    BY <1>1, CountsRise
  <2>2. QED BY <2>1
<1> HIDE DEF R
<1>5. \A n \in 0..(Cardinality(P) - 1) : \E i \in P : count(i) = n BY <1>1, CountsFill
<1> HIDE DEF kept, count
<1>6. ASSUME NEW i \in P, NEW j \in P, count(i) = count(j) PROVE i = j
  <2>1. i = j \/ <<i, j>> \in R \/ <<j, i>> \in R BY <1>1 DEF Orders
  <2>2. count(i) \in Nat /\ count(j) \in Nat BY <1>4
  <2>3. (<<i, j>> \in R => count(i) < count(j)) /\ (<<j, i>> \in R => count(j) < count(i)) BY <1>4
  <2>4. QED BY <1>6, <2>1, <2>2, <2>3
<1>7. IsFiniteSet(kept) /\ kept \subseteq P /\ Cardinality(kept) \in Nat /\ Cardinality(P) \in Nat
  BY <1>3, FS_Subset, FS_CardinalityType
<1>8. IsFiniteSet(0..(limit - 1)) /\ Cardinality(0..(limit - 1)) = limit
  <2>1. 0 \in Int /\ limit - 1 \in Int OBVIOUS
  <2>2. IsFiniteSet(0..(limit - 1)) /\ Cardinality(0..(limit - 1)) = IF 0 > limit - 1 THEN 0 ELSE limit - 1 - 0 + 1
    BY <2>1, FS_Interval
  <2>3. QED BY <2>2
<1>9. Cardinality(kept) <= limit
  <2> SUFFICES ASSUME limit < Cardinality(kept) PROVE FALSE BY <1>7
  <2>1. PICK f : f = [i \in kept |-> count(i)] OBVIOUS
  <2>2. f \in [kept -> 0..(limit - 1)] BY <1>3, <1>4, <2>1
  <2>3. PICK x \in kept, y \in kept : x # y /\ f[x] = f[y] BY <1>7, <1>8, <2>2, FS_PigeonHole
  <2>4. QED BY <1>3, <1>6, <2>1, <2>3
<1>10. ASSUME Cardinality(kept) < limit, NEW i \in P, i \notin kept PROVE FALSE
  <2>1. count(i) \in Nat /\ ~(count(i) < limit) /\ count(i) < Cardinality(P) BY <1>3, <1>4, <1>10
  <2>2. 0..(limit - 1) \subseteq 0..(Cardinality(P) - 1) BY <1>7, <2>1
  <2>3. PICK f : f = [n \in 0..(limit - 1) |-> CHOOSE j \in P : count(j) = n] OBVIOUS
  <2>4. \A n \in 0..(limit - 1) : f[n] \in P /\ count(f[n]) = n BY <1>5, <2>2, <2>3
  <2>5. \A n \in 0..(limit - 1) : f[n] \in kept BY <1>3, <2>4
  <2>6. f \in [0..(limit - 1) -> kept] BY <2>3, <2>5
  <2>7. PICK x \in 0..(limit - 1), y \in 0..(limit - 1) : x # y /\ f[x] = f[y]
    BY <1>7, <1>8, <1>10, <2>6, FS_PigeonHole
  <2>8. QED BY <2>4, <2>7
<1>11. Cardinality(kept) \in 0..limit BY <1>7, <1>9
<1>12. Cardinality(kept) < limit => kept = P BY <1>7, <1>10
<1>13. QED BY <1>7, <1>11, <1>12 DEF kept

-----------------------------------------------------------------------------
(* A page of the history.                                                   *)

\* Every line the scan accepts is an event before the anchor.
LEMMA LinesAre ==
  ASSUME NEW f \in Seq(Option(Events)), NEW before
  PROVE  /\ Candidates(f, before) \subseteq 1..Len(f) /\ IsFiniteSet(Candidates(f, before)) /\ Candidates(f, before) \subseteq Int
         /\ \A i \in Candidates(f, before) :
              /\ f[i] = {EventAt(f, i)} /\ EventAt(f, i) \in Events /\ EventAt(f, i).seq \in Int
              /\ Before(EventAt(f, i).seq, before)
<1>1. Len(f) \in Nat /\ DOMAIN f = 1..Len(f) OBVIOUS
<1>2. IsFiniteSet(1..Len(f)) BY <1>1, FS_Interval
<1>3. Candidates(f, before) \subseteq 1..Len(f) BY <1>1 DEF Candidates
<1>4. IsFiniteSet(Candidates(f, before)) BY <1>2, <1>3, FS_Subset
<1>5. ASSUME NEW i \in Candidates(f, before)
      PROVE  /\ f[i] = {EventAt(f, i)} /\ EventAt(f, i) \in Events /\ EventAt(f, i).seq \in Int
             /\ Before(EventAt(f, i).seq, before)
  <2>1. PICK e \in f[i] : Before(e.seq, before) BY DEF Candidates
  <2>2. f[i] \in Option(Events) BY <1>3
  <2>3. f[i] = {e} /\ e \in Events BY <2>1, <2>2 DEF Option, None, Some
  <2>4. EventAt(f, i) = e BY <2>3 DEF EventAt
  <2>5. PICK b \in 1..MaxBoots : e \in [boot : {b}, seq : 0..(MaxEvents[b] - 1)] BY <2>3 DEF Events
  <2>6. MaxEvents[b] \in Nat BY StreamAssumption
  <2>7. e.seq \in 0..(MaxEvents[b] - 1) BY <2>5
  <2>8. e.seq \in Int BY <2>6, <2>7
  <2>9. QED BY <2>1, <2>3, <2>4, <2>8
<1>6. QED BY <1>1, <1>3, <1>4, <1>5

\* Newest first is an order of them.
LEMMA NewestFirst ==
  ASSUME NEW f \in Seq(Option(Events)), NEW before, NEW lines, lines \subseteq Candidates(f, before)
  PROVE  LET R == {x \in lines \X lines : Newer(f, x[1], x[2])}
         IN  /\ Orders(R, lines)
             /\ \A i \in lines : {j \in lines : Newer(f, j, i)} = Earlier(i, lines, R)
             /\ \A i, j \in lines : <<i, j>> \in R <=> Newer(f, i, j)
<1> DEFINE R == {x \in lines \X lines : Newer(f, x[1], x[2])}
           s(i) == EventAt(f, i).seq
<1>1. \A i, j \in lines : <<i, j>> \in R <=> Newer(f, i, j) OBVIOUS
<1>2. \A i \in lines : {j \in lines : Newer(f, j, i)} = Earlier(i, lines, R) BY DEF Earlier
<1>3. \A i \in lines : i \in Int /\ s(i) \in Int BY LinesAre
<1>4. \A i, j \in lines : <<i, j>> \in R <=> s(i) > s(j) \/ (s(i) = s(j) /\ i > j) BY <1>1 DEF Newer
<1> HIDE DEF s, R
<1>5. \A i \in lines : <<i, i>> \notin R BY <1>3, <1>4
<1>6. \A i, j, k \in lines : <<i, j>> \in R /\ <<j, k>> \in R => <<i, k>> \in R BY <1>3, <1>4
<1>7. \A i, j \in lines : i = j \/ <<i, j>> \in R \/ <<j, i>> \in R
  <2> SUFFICES ASSUME NEW i \in lines, NEW j \in lines PROVE i = j \/ <<i, j>> \in R \/ <<j, i>> \in R
    OBVIOUS
  <2>1. i \in Int /\ j \in Int /\ s(i) \in Int /\ s(j) \in Int BY <1>3
  <2>2. i = j \/ s(i) > s(j) \/ (s(i) = s(j) /\ i > j) \/ s(j) > s(i) \/ (s(j) = s(i) /\ j > i) BY <2>1
  <2>3. QED BY <1>4, <2>2
<1>8. Orders(R, lines) BY <1>5, <1>6, <1>7 DEF Orders
<1>9. QED BY <1>1, <1>2, <1>8 DEF R

\* The page, as lines: each of those kept has one place, in the order of the numbers.
LEMMA PageIs ==
  ASSUME NEW f \in Seq(Option(Events)), NEW before, NEW limit \in Nat
  PROVE  LET kept == LastOf(Candidates(f, before), limit)
             page == History(f, before, limit)
         IN  /\ page \in Seq(Events) /\ Len(page) = Cardinality(kept)
             /\ \A k \in 1..Len(page) : \E i \in kept : page[k] = EventAt(f, i)
             /\ \A i \in kept : \E k \in 1..Len(page) : page[k] = EventAt(f, i)
             /\ \A k \in 2..Len(page) : page[k].seq <= page[k - 1].seq
<1> DEFINE kept == LastOf(Candidates(f, before), limit)
           page == History(f, before, limit)
           n == Cardinality(kept)
           at(k) == CHOOSE i \in kept : Ahead(f, kept, i) = k - 1
           R == {x \in kept \X kept : Newer(f, x[1], x[2])}
<1>1. kept \subseteq Candidates(f, before) /\ IsFiniteSet(kept) /\ n \in Nat
  <2>1. IsFiniteSet(Candidates(f, before)) /\ Candidates(f, before) \subseteq Int BY LinesAre
  <2>2. kept \subseteq Candidates(f, before) /\ IsFiniteSet(kept) BY <2>1, LastOfIs
  <2>3. QED BY <2>2, FS_CardinalityType
<1>2. page = [k \in 1..n |-> EventAt(f, at(k))] BY DEF History
<1> HIDE DEF kept, page
<1>3. /\ Orders(R, kept)
      /\ \A i \in kept : Ahead(f, kept, i) = Cardinality(Earlier(i, kept, R))
      /\ \A i, j \in kept : <<i, j>> \in R <=> Newer(f, i, j)
  BY <1>1, NewestFirst DEF Ahead
<1> HIDE DEF R
<1>4. ASSUME NEW i \in kept
      PROVE  /\ Ahead(f, kept, i) \in 0..(n - 1)
             /\ \A j \in kept : Newer(f, j, i) => Ahead(f, kept, j) < Ahead(f, kept, i)
  BY <1>1, <1>3, CountsRise
<1>5. \A k \in 0..(n - 1) : \E i \in kept : Ahead(f, kept, i) = k BY <1>1, <1>3, CountsFill
<1>6. \A i, j \in kept : i = j \/ Newer(f, i, j) \/ Newer(f, j, i) BY <1>3 DEF Orders
<1> HIDE DEF n
<1>7. ASSUME NEW k \in 1..n PROVE at(k) \in kept /\ Ahead(f, kept, at(k)) = k - 1
  <2>1. k - 1 \in 0..(n - 1) BY <1>1
  <2>2. \E i \in kept : Ahead(f, kept, i) = k - 1 BY <1>5, <2>1
  <2>3. QED BY <2>2
<1> HIDE DEF at
<1>8. \A i \in kept : EventAt(f, i) \in Events /\ EventAt(f, i).seq \in Int BY <1>1, LinesAre
<1>9. page \in Seq(Events) /\ Len(page) = n
  <2>1. \A k \in 1..n : EventAt(f, at(k)) \in Events BY <1>7, <1>8
  <2>2. QED BY <1>1, <1>2, <2>1
<1>10. ASSUME NEW i \in kept PROVE \E k \in 1..n : page[k] = EventAt(f, i)
  <2>1. PICK k : k = Ahead(f, kept, i) + 1 OBVIOUS
  <2>2. Ahead(f, kept, i) \in 0..(n - 1) BY <1>4
  <2>3. k \in 1..n /\ Ahead(f, kept, i) = k - 1 BY <1>1, <2>1, <2>2
  <2>4. at(k) \in kept /\ Ahead(f, kept, at(k)) = Ahead(f, kept, i) BY <1>7, <2>3
  <2>5. Ahead(f, kept, i) \in Int BY <1>1, <2>2
  <2>6. at(k) = i BY <1>4, <1>6, <2>4, <2>5
  <2>7. QED BY <1>2, <2>3, <2>6
<1>11. ASSUME NEW k \in 2..n PROVE page[k].seq <= page[k - 1].seq
  <2>1. k \in 1..n /\ k - 1 \in 1..n /\ k \in Int BY <1>1
  <2>2. PICK i, j : i = at(k) /\ j = at(k - 1) OBVIOUS
  <2>3. i \in kept /\ j \in kept /\ Ahead(f, kept, i) = k - 1 /\ Ahead(f, kept, j) = (k - 1) - 1
    BY <1>7, <2>1, <2>2
  <2>4. ~Newer(f, i, j)
    <3>1. Newer(f, i, j) => Ahead(f, kept, i) < Ahead(f, kept, j) BY <1>4, <2>3
    <3>2. QED BY <2>1, <2>3, <3>1
  <2>5. EventAt(f, i).seq <= EventAt(f, j).seq BY <1>8, <2>3, <2>4 DEF Newer
  <2>6. page[k] = EventAt(f, i) /\ page[k - 1] = EventAt(f, j) BY <1>2, <2>1, <2>2
  <2>7. QED BY <2>5, <2>6
<1>12. \A k \in 1..n : \E i \in kept : page[k] = EventAt(f, i) BY <1>2, <1>7
<1>13. QED BY <1>9, <1>10, <1>11, <1>12 DEF kept, page, n

\* The lines that chunk boundaries cut are no more than the boundaries.
LEMMA CutsAreFew ==
  ASSUME NEW f \in Seq(Option(Events))
  PROVE  LET cut == {i \in DOMAIN f : Cut(f, i)}
         IN  IsFiniteSet(cut) /\ Cardinality(cut) <= Cardinality(Boundaries(f)) /\ IsFiniteSet(Boundaries(f))
<1> DEFINE cut == {i \in DOMAIN f : Cut(f, i)}
           B == Boundaries(f)
           Cuts(b, i) == LineLen * (i - 1) < b /\ b < LineLen * i - 1
<1>1. Len(f) \in Nat /\ DOMAIN f = 1..Len(f) /\ LineLen \in Nat BY SizeAssumption
<1>2. LineLen * Len(f) \in Nat BY <1>1
<1>3. B \subseteq 1..(LineLen * Len(f)) BY DEF Boundaries
<1>4. IsFiniteSet(B)
  <2>1. IsFiniteSet(1..(LineLen * Len(f))) BY <1>2, FS_Interval
  <2>2. QED BY <1>3, <2>1, FS_Subset
<1>5. \A i \in cut : i \in Nat /\ \E b \in B : Cuts(b, i) BY <1>1 DEF Cut
<1> HIDE DEF cut, B
<1>6. ASSUME NEW i \in Nat, NEW j \in Nat, NEW b \in Nat, Cuts(b, i), Cuts(b, j), i < j PROVE FALSE
  <2>1. i <= j - 1 BY <1>6
  <2>2. LineLen * i <= LineLen * (j - 1) BY <1>1, <2>1
  <2>3. LineLen * i \in Int /\ LineLen * (j - 1) \in Int BY <1>1
  <2>4. b < LineLen * i - 1 /\ LineLen * (j - 1) < b BY <1>6
  <2>5. QED BY <2>2, <2>3, <2>4
<1>7. \A b \in B : b \in Nat BY <1>2, <1>3
<1>8. ASSUME NEW i \in cut, NEW j \in cut, NEW b \in B, Cuts(b, i), Cuts(b, j) PROVE i = j
  <2>1. i \in Nat /\ j \in Nat /\ b \in Nat BY <1>5, <1>7
  <2> HIDE DEF Cuts
  <2>2. ~(i < j) /\ ~(j < i) BY <1>6, <1>8, <2>1
  <2>3. QED BY <2>1, <2>2
<1> HIDE DEF Cuts
<1>9. PICK g : g = [i \in cut |-> CHOOSE b \in B : Cuts(b, i)] OBVIOUS
<1>10. \A i \in cut : g[i] \in B /\ Cuts(g[i], i) BY <1>5, <1>9
<1>11. g \in Injection(cut, B)
  <2>1. g \in [cut -> B] BY <1>9, <1>10
  <2>2. \A i, j \in cut : g[i] = g[j] => i = j BY <1>8, <1>10
  <2>3. QED BY <2>1, <2>2 DEF Injection, IsInjective
<1>12. IsFiniteSet(cut) /\ Cardinality(cut) <= Cardinality(B) BY <1>4, <1>11, FS_Injection
<1>13. QED BY <1>4, <1>12 DEF cut, B

\* What a page lacks is on a line that was cut.
LEMMA PageHasTheRest ==
  ASSUME file \in Seq(Option(Events)), NEW before, NEW limit \in Nat,
         Len(History(file, before, limit)) < limit
  PROVE  Cardinality(Reference(before) \ ToSet(History(file, before, limit))) <= Cardinality(Boundaries(file))
<1> DEFINE page == History(file, before, limit)
           kept == LastOf(Candidates(file, before), limit)
           cut == {i \in DOMAIN file : Cut(file, i)}
           lacking == Reference(before) \ ToSet(page)
<1>1. /\ page \in Seq(Events) /\ Len(page) = Cardinality(kept)
      /\ \A i \in kept : \E k \in 1..Len(page) : page[k] = EventAt(file, i)
  BY PageIs
<1>2. kept = Candidates(file, before)
  <2>1. IsFiniteSet(Candidates(file, before)) /\ Candidates(file, before) \subseteq Int BY LinesAre
  <2>2. Cardinality(kept) < limit BY <1>1
  <2>3. QED BY <2>1, <2>2, LastOfIs
<1> HIDE DEF page, kept
<1>3. \A k \in 1..Len(page) : page[k] \in ToSet(page) BY <1>1 DEF ToSet
<1>4. ASSUME NEW e \in lacking PROVE \E i \in cut : e \in file[i]
  <2>1. PICK i \in DOMAIN file : e \in file[i] BY DEF Reference
  <2>2. Before(e.seq, before) /\ e \notin ToSet(page) BY DEF Reference
  <2>3. CASE Cut(file, i) BY <2>1, <2>3
  <2>4. CASE ~Cut(file, i)
    <3>1. i \in Candidates(file, before) BY <2>1, <2>2, <2>4 DEF Candidates
    <3>2. file[i] = {EventAt(file, i)} BY <3>1, LinesAre
    <3>3. e = EventAt(file, i) BY <2>1, <3>2
    <3>4. \E k \in 1..Len(page) : page[k] = e BY <1>1, <1>2, <3>1, <3>3
    <3>5. QED BY <1>3, <2>2, <3>4
  <2>5. QED BY <2>3, <2>4
<1>5. \A i \in cut : \A d, e \in file[i] : d = e
  <2> SUFFICES ASSUME NEW i \in cut PROVE \A d, e \in file[i] : d = e OBVIOUS
  <2>1. file[i] \in Option(Events) OBVIOUS
  <2>2. PICK o : o = file[i] OBVIOUS
  <2>3. o = {} \/ \E x : o = {x} BY <2>1, <2>2 DEF Option, None, Some
  <2>4. QED BY <2>2, <2>3
<1>6. IsFiniteSet(cut) /\ Cardinality(cut) <= Cardinality(Boundaries(file)) /\ IsFiniteSet(Boundaries(file))
  BY CutsAreFew
<1> HIDE DEF cut, lacking
<1>7. PICK g : g = [e \in lacking |-> CHOOSE i \in cut : e \in file[i]] OBVIOUS
<1>8. \A e \in lacking : g[e] \in cut /\ e \in file[g[e]] BY <1>4, <1>7
<1>9. g \in Injection(lacking, cut)
  <2>1. g \in [lacking -> cut] BY <1>7, <1>8
  <2>2. \A d, e \in lacking : g[d] = g[e] => d = e BY <1>5, <1>8
  <2>3. QED BY <2>1, <2>2 DEF Injection, IsInjective
<1>10. IsFiniteSet(lacking) /\ Cardinality(lacking) <= Cardinality(cut) BY <1>6, <1>9, FS_Injection
<1>11. Cardinality(lacking) \in Nat /\ Cardinality(cut) \in Nat /\ Cardinality(Boundaries(file)) \in Nat
  BY <1>6, <1>10, FS_CardinalityType
<1>12. Cardinality(lacking) <= Cardinality(Boundaries(file)) BY <1>6, <1>10, <1>11
<1>13. QED BY <1>12 DEF lacking, page

LimitsAreNumbers == \A r \in asked : r.limit \in Nat

LEMMA LimitsNext == ASSUME StreamType, LimitsAreNumbers, [Next]_vars PROVE LimitsAreNumbers'
<1>1. CASE Connect
  <2>1. PageLimit \in Nat BY StreamAssumption
  <2>2. QED BY <1>1, <2>1 DEF Connect, LimitsAreNumbers
<1>2. CASE ReceiveLagged
  <2>1. Missed(pos) + Margin \in Nat
    <3>1. Missed(pos) \in Nat BY MissedBound DEF StreamType
    <3>2. Margin \in Nat BY StreamAssumption
    <3>3. QED BY <3>1, <3>2
  <2>2. \A r \in asked' : r \in asked \/ r.limit = Missed(pos) + Margin BY <1>2 DEF ReceiveLagged
  <2>3. QED BY <2>1, <2>2 DEF LimitsAreNumbers
<1>3. CASE asked' \subseteq asked BY <1>3 DEF LimitsAreNumbers
<1>4. Connect \/ ReceiveLagged \/ asked' \subseteq asked
  BY DEF Next, vars, daemon, ring, writer, stream, browser, Claim, Send, PersistLagged, Persist,
         PersistFails, ReceiveEvent, Answer, Apply, Disconnect, Crash, Start
<1>5. QED BY <1>1, <1>2, <1>3, <1>4

\* A page has events of the file before the anchor, newest first and no more than
\* asked for, and lacks at most one line for each chunk boundary, for every file and
\* every size of lines and chunks (eventlog.rs:55-113).
THEOREM PagesAreSound == Spec => PageIsSound
<1> DEFINE Sound(a) ==
      LET page == a.page
          r == a.request
      IN /\ Len(page) <= r.limit
         /\ ToSet(page) \subseteq Reference(r.before)
         /\ \A i \in 2..Len(page) : page[i].seq <= page[i - 1].seq
         /\ Len(page) < r.limit /\ r.limit <= MaxPage =>
              Cardinality(Reference(r.before) \ ToSet(page)) <= Cardinality(Boundaries(file))
<1>1. Init => StreamType /\ LimitsAreNumbers BY StreamTypeInit DEF Init, LimitsAreNumbers
<1>2. StreamType /\ LimitsAreNumbers /\ [Next]_vars => (StreamType /\ LimitsAreNumbers)'
  BY StreamTypeNext, LimitsNext
<1>3. StreamType /\ LimitsAreNumbers /\ [Next]_vars => [\A a \in answered' \ answered : Sound(a)]_vars
  <2> SUFFICES ASSUME StreamType, LimitsAreNumbers, Next, NEW a \in answered' \ answered PROVE Sound(a)
    OBVIOUS
  <2>1. Answer
    BY DEF Next, daemon, ring, writer, stream, browser, Claim, Send, PersistLagged, Persist,
           PersistFails, Connect, ReceiveLagged, ReceiveEvent, Apply, Disconnect, Crash, Start
  <2>2. PICK r \in asked :
          a = [request |-> r, page |-> History(file, r.before, IF r.limit > MaxPage THEN MaxPage ELSE r.limit)]
    BY <2>1 DEF Answer
  <2> DEFINE limit == IF r.limit > MaxPage THEN MaxPage ELSE r.limit
             page == History(file, r.before, limit)
             kept == LastOf(Candidates(file, r.before), limit)
  <2>3. r.limit \in Nat /\ MaxPage \in Nat /\ file \in Seq(Option(Events))
    BY StreamAssumption DEF LimitsAreNumbers, StreamType
  <2>4. limit \in Nat /\ limit <= r.limit /\ (r.limit <= MaxPage => limit = r.limit) BY <2>3
  <2>5. a.request = r /\ a.page = page BY <2>2
  <2> HIDE DEF limit
  <2>6. /\ page \in Seq(Events) /\ Len(page) = Cardinality(kept)
        /\ \A k \in 1..Len(page) : \E i \in kept : page[k] = EventAt(file, i)
        /\ \A k \in 2..Len(page) : page[k].seq <= page[k - 1].seq
    BY <2>3, <2>4, PageIs
  <2>7. kept \subseteq Candidates(file, r.before) /\ Cardinality(kept) \in 0..limit
    <3>1. IsFiniteSet(Candidates(file, r.before)) /\ Candidates(file, r.before) \subseteq Int BY <2>3, LinesAre
    <3>2. QED BY <2>4, <3>1, LastOfIs
  <2> HIDE DEF kept
  <2>8. Len(page) <= r.limit BY <2>3, <2>4, <2>6, <2>7
  <2>9. \A i \in kept : EventAt(file, i) \in Reference(r.before)
    <3>1. \A i \in kept : i \in DOMAIN file /\ EventAt(file, i) \in file[i] /\ Before(EventAt(file, i).seq, r.before)
      BY <2>3, <2>7, LinesAre
    <3>2. QED BY <3>1 DEF Reference
  <2>10. Len(page) < limit => Cardinality(Reference(r.before) \ ToSet(page)) <= Cardinality(Boundaries(file))
    BY <2>3, <2>4, PageHasTheRest
  <2> HIDE DEF page
  <2>11. ToSet(page) \subseteq Reference(r.before) BY <2>6, <2>9 DEF ToSet
  <2>12. QED BY <2>4, <2>5, <2>6, <2>8, <2>10, <2>11
<1>4. QED
  <2> HIDE DEF Sound
  <2>1. Spec => [][\A a \in answered' \ answered : Sound(a)]_vars BY <1>1, <1>2, <1>3, PTL DEF Spec
  <2>2. QED BY <2>1 DEF PageIsSound, Sound
=============================================================================
