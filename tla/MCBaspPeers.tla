---------------------------- MODULE MCBaspPeers ----------------------------
(* A node "A" with users and a node "B", which may be a foreign program.   *)
EXTENDS BaspPeers

CONSTANTS a, b

MCNodes == {"A", "B"}
MCActors == {a, b}
MCHome == a :> "A" @@ b :> "B"
l1Paths == {[by |-> "name", whom |-> b]}
l2Paths == {[by |-> "id", whom |-> b], [by |-> "other"]}
MCAsks == "l1" :> [node |-> "A", paths |-> l1Paths] @@ "l2" :> [node |-> "A", paths |-> l2Paths]

(* Compatible and incompatible nodes. *)
MCAppIds == {"i", "j"}
MCConfigs == {[n \in MCNodes |-> IF n = "A" THEN {"i"} ELSE ids] : ids \in {{"i"}, {"j"}}}

(* Well-formed packets, packets with the wrong payload, wrong versions.    *)
MCForeignPackets ==
  {packet("handshake", version, [is |-> "handshake", node |-> n, ids |-> ids])
     : n \in {"B", Nobody}, ids \in {{"i"}, {"j"}}}
  \cup {packet("handshake", version + 1, Garbage), packet("handshake", version, Empty),
        packet("handshake", version, Garbage)}
  \cup {packet("resolve_response", 1, pl)
          : pl \in {Garbage, [is |-> "aid", aid |-> b], [is |-> "aid", aid |-> Nobody]}}
  \cup {packet("resolve_request", 1, Garbage), packet("monitor_message", a, Garbage),
        packet("monitor_message", a, Empty), packet("down_message", b, Garbage),
        packet("down_message", b, [is |-> "reason"]), packet("heartbeat", 0, Empty),
        packet("other", 0, Empty),
        packet("actor_message", 0, [is |-> "message", src |-> b, dst |-> a]),
        packet("actor_message", 0, Garbage)}
=============================================================================
