------------------------------ MODULE ChatRoom ------------------------------
(***************************************************************************)
(* What a chat room promises, without locks, goroutines, queues or pages:  *)
(* one log, one slot per device, and events of the log handed only to      *)
(* connections that joined, have not ended, and may see the event.         *)
(* ChatSession is shown to implement it.                                   *)
(***************************************************************************)
EXTENDS Naturals, Sequences

CONSTANTS Conn, Peer, PeerOf, Desktop, Nobody

VARIABLES
    log,      \* the events: the message each is about, and its sender
    hidden,   \* the messages whose file is still being uploaded
    slot,     \* the connection of each device, or Nobody
    joined,   \* the connections that have joined
    ended,    \* the connections that are over
    given      \* the positions of the log handed to each connection

roomState == <<log, hidden, slot, joined, ended, given>>

MaySee(c, n) == log[n].msg \in hidden => PeerOf[c] \in {log[n].by, Desktop}

Init ==
    /\ log = <<>> /\ hidden = {} /\ joined = {} /\ ended = {}
    /\ slot = [p \in Peer |-> Nobody]
    /\ given = [c \in Conn |-> {}]

(* The log only grows.  An event is about no message (0), one the log has,  *)
(* or its own; a message is hidden from the moment it is logged or never.   *)
Post(m, who) ==
    /\ log' = Append(log, [msg |-> m, by |-> who])
    /\ \/ UNCHANGED hidden
       \/ m = Len(log') /\ hidden' = hidden \cup {m}
    /\ UNCHANGED <<slot, joined, ended, given>>

Reveal(m) ==
    /\ hidden' = hidden \ {m}
    /\ UNCHANGED <<log, slot, joined, ended, given>>

(* A device's newest connection takes its slot. *)
Join(c) ==
    /\ c \notin joined
    /\ joined' = joined \cup {c}
    /\ slot' = [slot EXCEPT ![PeerOf[c]] = c]
    /\ UNCHANGED <<log, hidden, ended, given>>

(* Only the holder of a slot gives it up, and it is over then. *)
Leave(c) ==
    /\ slot[PeerOf[c]] = c
    /\ slot' = [slot EXCEPT ![PeerOf[c]] = Nobody]
    /\ ended' = ended \cup {c}
    /\ UNCHANGED <<log, hidden, joined, given>>

End(C) ==
    /\ ended' = ended \cup C
    /\ UNCHANGED <<log, hidden, slot, joined, given>>

Give(c, n) ==
    /\ c \in joined \ ended
    /\ n \in 1..Len(log) /\ MaySee(c, n)
    /\ given' = [given EXCEPT ![c] = @ \cup {n}]
    /\ UNCHANGED <<log, hidden, slot, joined, ended>>

Next ==
    \/ \E m \in 0..Len(log) + 1, who \in Peer \cup {Nobody} : Post(m, who)
    \/ \E m \in 1..Len(log) : Reveal(m)
    \/ \E c \in Conn : Join(c) \/ Leave(c)
    \/ \E C \in SUBSET Conn : End(C)
    \/ \E c \in Conn, n \in 1..Len(log) : Give(c, n)

Spec == Init /\ [][Next]_roomState
=============================================================================
