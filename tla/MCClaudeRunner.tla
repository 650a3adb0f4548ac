--------------------------- MODULE MCClaudeRunner ---------------------------
(* An instance of ClaudeRunner for TLC: a tf-review of two tools, a line    *)
(* that fits its schema, one that only begins like it, and one of pr.       *)
EXTENDS ClaudeRunner

CONSTANTS plan, ride, push, PlanTool, PushTool, ReadTool, EditTool, GlobTool

MCFits  == (plan :> PlanTool) @@ (ride :> NoTool) @@ (push :> NoTool)
MCHeads == (plan :> PlanTool) @@ (ride :> PlanTool) @@ (push :> PushTool)
MCCapability == (PlanTool :> "read") @@ (ReadTool :> "read")
                @@ (EditTool :> "write") @@ (PushTool :> "write")
=============================================================================
