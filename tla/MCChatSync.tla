----------------------------- MODULE MCChatSync -----------------------------
(* Two rooms for TLC: one in which nothing overlaps, the connection is lost *)
(* twice and the browser comes back warm, and one in which everything       *)
(* overlaps, pages hold one message and the page is reloaded.               *)
EXTENDS ChatSync

Calm == [PageSize |-> 5, Log |-> <<"message">>, Overlap |-> FALSE, Notices |-> TRUE,
         MaxPosts |-> 3, MaxDrops |-> 2, MaxReloads |-> 0]
Busy == [PageSize |-> 1, Log |-> <<"message">>, Overlap |-> TRUE, Notices |-> FALSE,
         MaxPosts |-> 1, MaxDrops |-> 0, MaxReloads |-> 1]
CalmAndBusy == {Calm, Busy}
=============================================================================
