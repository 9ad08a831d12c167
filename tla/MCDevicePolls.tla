---------------------------- MODULE MCDevicePolls ----------------------------
(***************************************************************************)
(* A small instance of DevicePolls: a device of either vendor and two      *)
(* calls that may overlap.                                                 *)
(***************************************************************************)
EXTENDS DevicePolls

MCReplies ==
    [system |-> {"rows", "error"}, interfaces |-> {"rows"},
     radios |-> {"rows"}, table |-> {"rows", "empty"}]
=============================================================================
