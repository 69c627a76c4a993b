--------------------------- MODULE MCChatSession ---------------------------
(* Instances of ChatSession for TLC: a phone that reconnects (a1, a2), a    *)
(* second phone (b1), the desktop host (d1), and an upload handler (w1) of  *)
(* the second phone.                                                        *)
EXTENDS ChatSession

CONSTANTS a1, a2, b1, d1, w1, A, B

MCPeerOf == [t \in Thread |-> IF t \in {a1, a2} THEN A
                              ELSE IF t = d1 THEN Desktop ELSE B]
Fresh    == {<<0, 0>>}
Resuming == {<<0, 0>>, <<1, 1>>, <<2, 1>>}

(* Either the host takes part and stays, no fault happens, the phone comes    *)
(* for the first time and is lost only when it has been kicked, and the       *)
(* second of two commands follows a kick or a recall while the phone is       *)
(* there; or the upload takes part.                                           *)
HostOrUpload ==
    \/ /\ pc[w1] = "idle" /\ budget > 0 /\ faults = MaxFaults
       /\ \A k \in Conn : wm[k] = <<0, 0>>
       /\ pc[d1] # "idle" => link[d1] = "up"
       /\ link[a1] = "lost" => kickedPeer # {} /\ budget > 1
       /\ budget = 1 => kickedPeer \cup recalled # {}
    \/ pc[d1] = "idle"
=============================================================================
