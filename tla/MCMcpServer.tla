---------------------------- MODULE MCMcpServer -----------------------------
(* Of each way a call can go, one: a tool that writes, one that reads with and without an
   arguments object, one that is not served, an unknown one, and two resources. *)
EXTENDS McpServer

MCAsks ==
    {ToolCall("create_attestation", "complete"), ToolCall("list_devices", "incomplete"),
     ToolCall("list_devices", "absent"), ToolCall("verify_proof", "complete"),
     ReadCall(<<"devices", ":", "//", "lis", "t", "status=", "{status}">>)}

=============================================================================
