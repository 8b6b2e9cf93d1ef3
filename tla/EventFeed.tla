----------------------------- MODULE EventFeed -----------------------------
(***************************************************************************)
(* What one subscription of the event bus does for its reader: from some   *)
(* place in the bus on it gives him the events in the order they were      *)
(* sent, each at most once, and tells him of those he was too slow for how *)
(* many they were.  It leaves open where a subscription starts, and the    *)
(* numbers of the events: eventbus.rs:70 says that every receiver starts   *)
(* from the beginning with contiguous numbers, and EventBus::subscribe     *)
(* does neither, for a broadcast receiver starts at the present end of a   *)
(* bus whose numbers were taken before they were sent.                     *)
(***************************************************************************)
EXTENDS Naturals, Sequences

CONSTANT Events

VARIABLES
  published,   \* what the bus carried since the daemon started
  start, position,
  got,         \* what the reader was given
  skipped      \* how many it was told it missed

feedVars == <<published, start, position, got, skipped>>

FeedInit == published = << >> /\ start = 0 /\ position = 0 /\ got = << >> /\ skipped = 0

Publish == /\ \E e \in Events : published' = Append(published, e)
           /\ UNCHANGED <<start, position, got, skipped>>

Deliver == /\ position < Len(published)
           /\ position' = position + 1
           /\ got' = Append(got, published[position + 1])
           /\ UNCHANGED <<published, start, skipped>>

Skip == /\ position' \in (position + 1)..Len(published)
        /\ skipped' = skipped + (position' - position)
        /\ UNCHANGED <<published, start, got>>

Subscribe == /\ start' \in 0..Len(published) /\ position' = start'
             /\ got' = << >> /\ skipped' = 0
             /\ UNCHANGED published

\* The daemon is started again.
Restart == published' = << >> /\ start' = 0 /\ position' = 0 /\ got' = << >> /\ skipped' = 0

FeedNext == Publish \/ Deliver \/ Skip \/ Subscribe \/ Restart

FeedSpec == FeedInit /\ [][FeedNext]_feedVars
=============================================================================
