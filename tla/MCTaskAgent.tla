---- MODULE MCTaskAgent ----
EXTENDS TaskAgent
Share(gui, does, n) ==
  [gui |-> gui, does |-> does, kinds |-> {"share"}, tasks |-> n, queue |-> 1]
Receive(gui, does, n) == [Share(gui, does, n) EXCEPT !.kinds = {"receive"}]
Both(gui, does, n) == [Share(gui, does, n) EXCEPT !.kinds = {"share", "chat"}]
Cmd ==
  { Share(FALSE, {"devices"}, 3), Share(FALSE, {"haste", "stop", "fail"}, 2),
    Share(FALSE, {"devices", "watch"}, 2), Share(FALSE, {"stop", "watch"}, 2), Both(FALSE, {"fail", "watch"}, 3),
    Share(FALSE, {"devices", "clear"}, 2), Share(FALSE, {"clear", "restart"}, 2),
    Both(FALSE, {"stop", "repeat"}, 3) }
Gui ==
  { Share(TRUE, {"stop"}, 3), Receive(TRUE, {"stop", "devices"}, 2),
    Share(TRUE, {"haste", "stop"}, 2), Receive(TRUE, {"devices", "restart"}, 2),
    Both(TRUE, {"stop", "repeat"}, 2), Share(TRUE, {"fail"}, 2), Both(TRUE, {"slow"}, 2) }
All == Cmd \cup Gui
====
