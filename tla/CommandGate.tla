----------------------------- MODULE CommandGate -----------------------------
(***************************************************************************)
(* The gates of include/bldc/command_builder.hpp: when build_mit makes an  *)
(* AuthorizedFrame.  What the frame holds is left out.                     *)
(***************************************************************************)
EXTENDS GimProtocol

\* The request is finite, the limits are valid and the node has an identifier.
CompilesMit(node_id, request_is_valid) ==
    request_is_valid /\ HasValue(PackStandardId(node_id, Command.mit_control))

BuildMit(node_id, request_is_valid, permits_command, runtime_enabled) ==
    /\ runtime_enabled
    /\ permits_command
    /\ CompilesMit(node_id, request_is_valid)
==============================================================================
