--------------------------- MODULE MCMcpAttachments ---------------------------
(* Small instances of McpAttachments. *)
EXTENDS McpAttachments

Both      == {1, 2}
Lists     == {{1, 2}, {2}}
One       == {{1, 2}}
Second    == {2}
=============================================================================
