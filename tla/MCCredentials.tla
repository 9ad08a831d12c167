---------------------------- MODULE MCCredentials ----------------------------
(***************************************************************************)
(* A small instance of Credentials: two profiles, two priorities of which  *)
(* one is the 0 that becomes 100, one vault key or none and one lookup.    *)
(***************************************************************************)
EXTENDS Credentials, TLC

MCInputs == {
    [type |-> "snmp_v2", secret |-> "new"],
    [type |-> "snmp_v3", user |-> "name", level |-> "authPriv",
     auth |-> "new", priv |-> "new"],
    [type |-> "snmp_v3", secret |-> "", level |-> "noAuthNoPriv", priv |-> ""]}

MCPriorities == {0, 50}

Symmetry == Permutations(Profile)
=============================================================================
