------------------------------ MODULE MCEdges ------------------------------
(* The programs around the engine, checked side by side: one of them works *)
(* while the others stay as they start, so the state spaces add up instead *)
(* of multiplying.                                                         *)
EXTENDS HostAgent, HostPick, PanelStream

VARIABLE focus

MCInit ==
    /\ AgentInit /\ PickInit /\ PanelInit
    /\ focus \in {"tun", "proxy", "pick", "panel"}
MCNext ==
    /\ UNCHANGED focus
    /\ \/ focus = "tun" /\ AgentNext /\ InProxy' = {} /\ UNCHANGED <<pickVars, panelVars>>
       \/ focus = "proxy" /\ AgentNext /\ UNCHANGED <<tunVars, pickVars, panelVars>>
          /\ InProxy' = {h \in Handlers : ~At(h, "rest")'}
       \/ focus = "pick" /\ PickNext /\ UNCHANGED <<agentVars, panelVars>>
       \/ focus = "panel" /\ PanelNext /\ UNCHANGED <<agentVars, pickVars>>
MCSpec == MCInit /\ [][MCNext]_<<agentVars, pickVars, panelVars, focus>> /\ PanelFairness
===========================================================================
