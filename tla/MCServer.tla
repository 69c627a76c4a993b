---- MODULE MCServer ----
EXTENDS Server
CONSTANTS d1, d2

Plain == [mode |-> "send", keepAlive |-> TRUE, items |-> {1}, size |-> 1,
          requests |-> 2, batches |-> <<>>, bare |-> FALSE, restless |-> FALSE,
          zip |-> FALSE, ranges |-> FALSE, form |-> FALSE, stale |-> FALSE, lossy |-> FALSE,
          faulty |-> FALSE, host |-> {}, early |-> FALSE, quota |-> FALSE]
Take == [Plain EXCEPT !.mode = "receive", !.items = {}, !.requests = 0, !.batches = <<1>>]

(***************************************************************************)
(* A small instance for each thing that can happen, so that a run can take *)
(* them all.                                                               *)
(***************************************************************************)
Once(s) == [s EXCEPT !.keepAlive = FALSE]
Calm ==
  { [Plain EXCEPT !.host = {"on"}],
    [Plain EXCEPT !.items = {1, 2}, !.zip = TRUE],
    Once([Plain EXCEPT !.host = {"stop"}, !.early = TRUE, !.requests = 1]),
    Once([Plain EXCEPT !.faulty = TRUE, !.bare = TRUE, !.requests = 1]),
    Once([Plain EXCEPT !.size = 2]),
    [Take EXCEPT !.host = {"on"}],
    Once([Take EXCEPT !.form = TRUE, !.quota = TRUE]),
    Once([Plain EXCEPT !.quota = TRUE]) }
Wild ==
  { [Plain EXCEPT !.restless = TRUE],
    [Plain EXCEPT !.host = {"on", "off"}, !.stale = TRUE, !.requests = 1],
    Once([Plain EXCEPT !.ranges = TRUE, !.size = 2]),
    [Take EXCEPT !.form = TRUE, !.batches = <<2>>],
    [Take EXCEPT !.lossy = TRUE],
    [Take EXCEPT !.faulty = TRUE],
    [Take EXCEPT !.form = TRUE, !.host = {"on"}],
    [Take EXCEPT !.host = {"kick"}] }
All == Calm \cup Wild
====
