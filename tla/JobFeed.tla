------------------------------ MODULE JobFeed ------------------------------
(***************************************************************************)
(* What the event feed of one scan promises to the dashboards that watch   *)
(* it (quantumready/server.py, Job and Handler._stream): a log that only   *)
(* grows and that a terminal status event closes for good, of which every  *)
(* stream receives each event at most once and nothing after the terminal  *)
(* event.  Queues, listeners, locks and threads are JobEvents' business.   *)
(***************************************************************************)
EXTENDS Naturals, Sequences

CONSTANTS Streams,   \* the open /api/scan/events requests
          Kinds,     \* kinds of event
          Terminal   \* the kinds that end a stream

VARIABLES log,       \* every event published, in order
          got        \* got[c]: positions in log that stream c was sent

Ended(positions) == \E n \in positions : log[n] \in Terminal

Init == log = << >> /\ got = [c \in Streams |-> {}]

Publish(kind) ==
  /\ ~Ended(DOMAIN log)
  /\ log' = Append(log, kind)
  /\ UNCHANGED got

Receive(c, n) ==
  /\ n \notin got[c]
  /\ ~Ended(got[c])
  /\ got' = [got EXCEPT ![c] = @ \cup {n}]
  /\ UNCHANGED log

Next == \/ \E kind \in Kinds : Publish(kind)
        \/ \E c \in Streams, n \in DOMAIN log : Receive(c, n)

Spec == Init /\ [][Next]_<<log, got>>
=============================================================================
