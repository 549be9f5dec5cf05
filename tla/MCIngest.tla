------------------------------- MODULE MCIngest -------------------------------
(* A small instance of Ingest for TLC. *)
EXTENDS Ingest

CONSTANTS p1, k1, k2, e1, e2, f1

Event(e, f) == [type |-> "event", event_id |-> e, fingerprint |-> f]

(* Two events of an issue with an item between them that is skipped, and an *)
(* envelope of the same project with another key and no event at all.       *)
MCEnvelopes ==
  { [project |-> p1, key |-> k1,
     items |-> <<Event(e1, f1), [type |-> "malformed"], Event(e2, f1)>>],
    [project |-> p1, key |-> k2, items |-> <<[type |-> "other"]>>] }
===============================================================================
