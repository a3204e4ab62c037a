----------------------------- MODULE TileMailbox -----------------------------
(***************************************************************************)
(* What the image writer's queue promises its users: one mailbox per kind  *)
(* of message that holds the newest one only, and a header that is         *)
(* delivered before everything else and discards what it makes obsolete.   *)
(***************************************************************************)
EXTENDS Naturals

Kinds == {"Header", "Tiles", "Progress"}

VARIABLES
  latest,   \* stamp of the waiting message of each kind, 0 for none
  last,     \* stamp of the newest message ever put
  hand      \* the message being delivered

vars == <<latest, last, hand>>

Empty  == [k \in Kinds |-> 0]
Nobody == [type |-> "None", id |-> 0]

Init == latest = Empty /\ last = 0 /\ hand = Nobody

\* A new message replaces the waiting one of its kind; a header replaces all.
Put(k) ==
  /\ last' = last + 1
  /\ latest' = [IF k = "Header" THEN Empty ELSE latest EXCEPT ![k] = last + 1]
  /\ UNCHANGED hand

\* Delivery: a waiting header goes first.
Take(k) ==
  /\ latest[k] # 0
  /\ latest["Header"] # 0 => k = "Header"
  /\ hand' = [type |-> k, id |-> latest[k]]
  /\ latest' = [latest EXCEPT ![k] = 0]
  /\ UNCHANGED last

Release == hand' = Nobody /\ UNCHANGED <<latest, last>>

\* The owner may drop everything that waits.
Clear == latest' = Empty /\ UNCHANGED <<last, hand>>

Next ==
  \/ \E k \in Kinds : Put(k) \/ Take(k)
  \/ Release
  \/ Clear

Spec == Init /\ [][Next]_vars

=============================================================================
