------------------------------ MODULE PeerFsm ------------------------------
(***************************************************************************)
(* The peer lifecycle state machine of daemon-go/peer/fsm.go: a pure       *)
(* transition function over lifecycle states and events.  Every status     *)
(* change of the registry goes through Apply.                              *)
(***************************************************************************)

LifecycleState == {"Unregistered", "Online", "Busy", "Offline", "Retired"}

LifecycleEvent ==
  {"Connect", "UserPromptSubmit", "Notification", "Stop",
   "TransportDisconnect", "GhostDemote", "PaneDisplaced", "TerminalOffline",
   "Reconnect", "Reap", "ReclaimWithLiveAgent"}

PeerStatus == {"online", "busy", "offline"}

\* The states whose wire status is online or busy.
LiveState == {"Online", "Busy"}

\* What Apply returns beside ErrIllegalTransition.
IllegalTransition == "IllegalTransition"

Apply(s, e) ==
  CASE s = "Unregistered" /\ e = "Connect"                 -> "Online"
    [] s \in LiveState /\ e = "UserPromptSubmit"           -> "Busy"
    [] s \in LiveState /\ e \in {"Notification", "Stop"}   -> "Online"
    [] s \in LiveState /\ e \in {"TransportDisconnect", "GhostDemote",
                                 "PaneDisplaced"}          -> "Offline"
    [] s \in LiveState /\ e = "TerminalOffline"            -> "Retired"
    [] s = "Offline" /\ e \in {"TerminalOffline", "Reap"}  -> "Retired"
    [] s = "Offline" /\ e = "Reconnect"                    -> "Online"
    [] s = "Retired" /\ e = "ReclaimWithLiveAgent"         -> "Online"
    [] OTHER                                               -> IllegalTransition

Legal(s, e) == Apply(s, e) # IllegalTransition

ToStatus(s) ==
  CASE s = "Online" -> "online"
    [] s = "Busy"   -> "busy"
    [] s \in {"Offline", "Retired"} -> "offline"
    [] OTHER -> "none"

statusToEvent(status) ==
  CASE status = "online"  -> "Stop"
    [] status = "busy"    -> "UserPromptSubmit"
    [] status = "offline" -> "TransportDisconnect"
=============================================================================
