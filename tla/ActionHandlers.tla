---------------------------- MODULE ActionHandlers ----------------------------
(***************************************************************************)
(* The actions that keep goroutines of their own busy for a while: a sweep *)
(* or an inventory of the discovery proxy, a command on a remote host, and *)
(* the service map of a fleet.  Each keeps its working state in the call,  *)
(* so a behaviour is that of one of them: action says which, and the rest  *)
(* is at rest.                                                             *)
(***************************************************************************)
EXTENDS Discovery, RemoteExec, ServiceMap

VARIABLE action

actionVars == <<action, discoveryVars, execVars, mapVars>>

ActionInit ==
    /\ action \in {"discovery", "command", "vm_service_map"}
    /\ DiscoveryInit(IF action = "discovery" THEN Scopes ELSE {[nets |-> {}, names |-> {}]})
    /\ ExecInit(IF action = "command" THEN Runners ELSE {"none"})
    /\ MapInit

ActionNext ==
    \/ action = "discovery" /\ HandleRequest /\ UNCHANGED <<action, execVars, mapVars>>
    \/ action = "command" /\ ExecNext /\ UNCHANGED <<action, discoveryVars, mapVars>>
    \/ action = "vm_service_map" /\ MapNext /\ UNCHANGED <<action, discoveryVars, execVars>>

\* A part that is at rest has nothing that fairness could ask for.
ActionSpec ==
    /\ ActionInit
    /\ [][ActionNext]_actionVars
    /\ DiscoveryFairness
    /\ ExecFairness
    /\ MapFairness

\* The type invariant of the parts.
ActionTypeOK == SweepTypeOK /\ IdentityTypeOK /\ InventoryTypeOK /\ ExecTypeOK /\ MapTypeOK

\* Every action comes to its end.  No pool waits for itself: the feeder, workers,
\* collectors and semaphores of a sweep and of an inventory wind down in every
\* interleaving with a cancellation; once its deadline has passed runCommand
\* returns, whatever the command does, and its reading goroutines end too; and a
\* service map is answered whatever happens to its queries and its context.  Only
\* hosts that keep a connection and say nothing can keep a sweep or an inventory
\* (no deadline covers client.NewSession and session.Start), and then nobody else
\* is left in it but those who wait for a token such hosts have.
ActionsReturn ==
    (DiscoveryBusy \/ CommandLate \/ MapBusy) ~>
        (DiscoveryHeld \/ ~(DiscoveryBusy \/ CommandLate \/ MapBusy))
=============================================================================
