------------------------------- MODULE HostKeys -------------------------------
(***************************************************************************)
(* The host key policies of internal/adapters/ssh and the table            *)
(* ssh_known_hosts, while connections of the mikrotik adapter to one host  *)
(* overlap and the device behind its address is replaced.                  *)
(*                                                                         *)
(* Trust on first use reads the table and writes it in two statements that *)
(* no lock holds together, and the write is an upsert.                     *)
(***************************************************************************)
EXTENDS Integers, FiniteSets

CONSTANTS
    Conn,  \* connections; each is dialled once
    Key,   \* fingerprints that the host may show
    None   \* no fingerprint, policy or process

ASSUME KeyAssumption == None \notin Key

\* The CHECK on ssh_host_key_policy allows no other; an empty one is the first.
Policy == {"insecure_ignore", "trust_on_first_use", "pinned"}

VARIABLES
    presented,  \* the key that the host shows to a new connection
    known,      \* its row of ssh_known_hosts
    conn,       \* the connections
    met         \* history: the connections that were open at the same time

keysVars == <<presented, known, conn, met>>

\* The API keeps known hosts in the table; the worker never sets a store, and
\* each of its connections has an empty one of its own.
Process == {"api", "worker"}

NotDialled == [pc |-> "idle", policy |-> None, process |-> None, pin |-> None,
               seen |-> None, first |-> FALSE]

KeysInit ==
    /\ presented \in Key
    /\ known = None
    /\ conn = [c \in Conn |-> NotDialled]
    /\ met = [c \in Conn |-> {}]

UnderWay == {c \in Conn : conn[c].pc \in {"dial", "get", "put", "login"}}

Goto(c, step) == conn' = [conn EXCEPT ![c].pc = step]

-----------------------------------------------------------------------------

\* The device is replaced, or its keys are made anew.
ReplaceHost ==
    /\ presented' \in Key \ {presented}
    /\ UNCHANGED <<known, conn, met>>

\* The policy and the pinned fingerprint are those of the credential profile.
Dial(c) ==
    /\ conn[c].pc = "idle"
    /\ \E policy \in Policy, process \in Process, pin \in Key \cup {None} :
           /\ policy /= "pinned" => pin = None
           /\ conn' = [conn EXCEPT ![c] = [NotDialled EXCEPT !.pc = "dial",
                  !.policy = policy, !.process = process, !.pin = pin]]
    /\ met' = [d \in Conn |-> CASE d = c -> UnderWay
                                [] d \in UnderWay -> met[d] \cup {c}
                                [] OTHER -> met[d]]
    /\ UNCHANGED <<presented, known>>

\* Which policy asks whom for the key of the host.
AfterHandshake(c) ==
    IF conn[c].policy = "trust_on_first_use" /\ conn[c].process = "api" THEN "get"
    ELSE IF conn[c].policy = "pinned" /\ conn[c].pin /= presented THEN "refused"
    ELSE "login"

\* The host shows its key, or is not reached.
Handshake(c) ==
    /\ conn[c].pc = "dial"
    /\ \/ conn' = [conn EXCEPT ![c].seen = presented, ![c].pc = AfterHandshake(c)]
       \/ Goto(c, "refused")
    /\ UNCHANGED <<presented, known, met>>

\* (Mutant) A host whose key has changed is taken for a first contact.
GetForgiving(c) ==
    /\ conn[c].pc = "get"
    /\ \/ Goto(c, IF known = conn[c].seen THEN "login" ELSE "put")
       \/ Goto(c, "refused")
    /\ UNCHANGED <<presented, known, met>>

\* EnforcePolicy: another key and an error of the store refuse the connection.
Get(c) ==
    /\ conn[c].pc = "get"
    /\ \/ known = None /\ Goto(c, "put")
       \/ known = conn[c].seen /\ Goto(c, "login")
       \/ Goto(c, "refused")
    /\ UNCHANGED <<presented, known, met>>

\* (Mutant) The process pins a key that the table does not take.
PutUnsaved(c) ==
    /\ conn[c].pc = "put"
    /\ conn' = [conn EXCEPT ![c].pc = "login", ![c].first = TRUE]
    /\ known' \in {known, conn[c].seen}
    /\ UNCHANGED <<presented, met>>

\* A first contact pins the key before the host has taken the password.
Put(c) ==
    /\ conn[c].pc = "put"
    /\ \/ /\ known' = conn[c].seen
          /\ conn' = [conn EXCEPT ![c].pc = "login", ![c].first = TRUE]
       \/ Goto(c, "refused") /\ UNCHANGED known
    /\ UNCHANGED <<presented, met>>

Login(c) ==
    /\ conn[c].pc = "login"
    /\ \E step \in {"open", "refused"} : Goto(c, step)
    /\ UNCHANGED <<presented, known, met>>

KeysNext ==
    \/ ReplaceHost
    \/ \E c \in Conn : Dial(c) \/ Handshake(c) \/ Get(c) \/ Put(c) \/ Login(c)

KeysSpec == KeysInit /\ [][KeysNext]_keysVars

-----------------------------------------------------------------------------
(* Properties.                                                             *)

\* The table and the connections keep their types.
KeysTypeOK ==
    /\ presented \in Key
    /\ known \in Key \cup {None}
    /\ conn \in [Conn -> [pc : {"idle", "dial", "get", "put", "login", "open", "refused"},
                          policy : Policy \cup {None}, process : Process \cup {None},
                          pin : Key \cup {None}, seen : Key \cup {None},
                          first : BOOLEAN]]
    /\ met \in [Conn -> SUBSET Conn]

\* Connections whose key the table has vouched for.
Trusted ==
    {c \in Conn : /\ conn[c].pc \in {"login", "open"}
                  /\ conn[c].policy = "trust_on_first_use"
                  /\ conn[c].process = "api"}

\* Some two first contacts have overlapped.
Raced == \E c, d \in Conn : conn[c].first /\ conn[d].first /\ c \in met[d]

\* All connections that the API trusts on first use have seen one key, however
\* often the device is replaced; the one exception are first contacts that
\* overlapped, each of which has pinned the key that it saw
\* (docs/SSH_HOST_KEY_POLICY.md: later connections must match).
OneKeyUnlessRaced ==
    Raced \/ \A c, d \in Trusted : conn[c].seen = conn[d].seen

\* A key that was pinned stays, also when the login after it fails, until a
\* first contact that had overlapped with the one that pinned it replaces it.
PinsAreReplacedByRacesOnly ==
    [][\A key \in Key : (known = key /\ known' /= key) =>
           \E c, d \in Conn : /\ conn[c].first
                              /\ conn[c].seen = key
                              /\ conn[d].pc = "put"
                              /\ c \in met[d]]_keysVars
=============================================================================
