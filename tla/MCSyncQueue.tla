----------------------------- MODULE MCSyncQueue -----------------------------
(***************************************************************************)
(* Two Python documents.  Each has its own URI as a key and, once the      *)
(* custom editor of its workflow is open, that workflow's.                 *)
(***************************************************************************)
EXTENDS SyncQueue

MCOwnKey == [d \in Docs |-> <<d, "python">>]
MCWorkflowKey == [d \in Docs |-> <<d, "workflow">>]
MCKeys == Docs \X {"python", "workflow"}
=============================================================================
