------------------------------ MODULE Credentials ------------------------------
(***************************************************************************)
(* From a device id to a configuration the adapters can dial: the profiles *)
(* of internal/credentials, their bindings (internal/telemetry), the       *)
(* device row (internal/inventory) and the lookups of internal/devicectl,  *)
(* while operators edit all three and the process restarts with another    *)
(* vault key.                                                              *)
(*                                                                         *)
(* Every edit is one statement.  A lookup reads up to four times: a device *)
(* of Mimosa twice, the best binding with its profile, and for SNMPv3 the  *)
(* profile once more.                                                      *)
(***************************************************************************)
EXTENDS Integers, FiniteSets

CONSTANTS
    Profile,    \* ids of credential profiles
    Transport,  \* transports that operators bind
    Vendor,     \* vendors that operators give the device
    Lookup,     \* probes and polls that look for a configuration
    Inputs,     \* bodies of the requests that write a profile
    Priorities, \* priorities that an operator gives
    Keys,       \* vault keys
    NULL        \* no row, no value

AuthType == {"routeros_api_ssl", "ssh", "snmp_v2", "snmp_v3", "mimosa_snmp",
             "vendor_api"}

Level == {"noAuthNoPriv", "authNoPriv", "authPriv"}

\* The fields of a body; a field that is left out is not written.
BodyOK(in) ==
    /\ DOMAIN in \subseteq {"type", "secret", "user", "level", "auth", "priv"}
    /\ "type" \in DOMAIN in => in.type \in AuthType
    /\ \A f \in DOMAIN in \cap {"secret", "auth", "priv"} : in[f] \in {"new", ""}
    /\ "user" \in DOMAIN in => in.user \in {"name", ""}
    /\ "level" \in DOMAIN in => in.level \in Level

ASSUME TransportAssumption == Transport \subseteq {"api-ssl", "ssh", "snmp", "vendor-api"}

ASSUME VendorAssumption == Vendor \subseteq {"mikrotik", "mimosa", "other"}

ASSUME InputsAssumption == \A in \in Inputs : BodyOK(in)

ASSUME PrioritiesAssumption == Priorities \subseteq Int

VARIABLES
    device,    \* the row of devices: its vendor, and whether it is deleted
    profiles,  \* credential_profiles; a secret is the key that encrypted it
    bindings,  \* device_credentials of the device, one row for a transport
    key,       \* key of the vault of this process, NULL for NoopVault
    lookup     \* where each lookup stands and what it has read

vars == <<device, profiles, bindings, key, lookup>>

Secret == Keys \cup {NULL}

Row == [type : AuthType, secret : Secret, keyId : Secret \cup {"noop"},
        user : {"name", ""}, level : Level \cup {NULL}, auth : Secret, priv : Secret]

Device == [vendor : Vendor, deleted : BOOLEAN]

Binding == [profile : Profile, priority : Int, enabled : BOOLEAN]

ASSUME NullAssumption ==
    NULL \notin Keys \cup Level \cup {"noop"} /\ NULL \notin Row /\ NULL \notin Device

Idle == [pc |-> "idle", vendor |-> NULL, profile |-> NULL, born |-> FALSE,
         calm |-> TRUE]

Init ==
    /\ device = NULL
    /\ profiles = [p \in Profile |-> NULL]
    /\ bindings = [t \in Transport |-> NULL]
    /\ key \in Secret
    /\ lookup = [l \in Lookup |-> Idle]

-----------------------------------------------------------------------------
(* The vault and the rows.                                                 *)

\* NoopVault refuses both ways; a ciphertext opens with the key that wrote it.
Encrypts == key /= NULL

Decrypts(ciphertext) == ciphertext /= NULL /\ ciphertext = key

KeyID == IF key = NULL THEN "noop" ELSE key

\* The secrets of a body: an empty one clears the column.
NeedsVault(in) == \E f \in DOMAIN in \cap {"secret", "auth", "priv"} : in[f] = "new"

Written(row, in, f) ==
    IF f \notin DOMAIN in THEN row[f] ELSE IF in[f] = "new" THEN key ELSE NULL

Field(row, in, f) == IF f \in DOMAIN in THEN in[f] ELSE row[f]

\* (Mutant) The id of the key is left alone when a secret is rotated.
UpdatedKeepsId(row, in) ==
    [row EXCEPT !.type = Field(row, in, "type"), !.user = Field(row, in, "user"),
                !.level = Field(row, in, "level"),
                !.secret = Written(row, in, "secret"),
                !.auth = Written(row, in, "auth"), !.priv = Written(row, in, "priv")]

\* Repository.Update writes the fields of the body, and with the secret the id
\* of its key.
Updated(row, in) ==
    [row EXCEPT !.type = Field(row, in, "type"), !.user = Field(row, in, "user"),
                !.level = Field(row, in, "level"),
                !.secret = Written(row, in, "secret"),
                !.keyId = IF "secret" \notin DOMAIN in THEN @
                          ELSE IF in.secret = "new" THEN KeyID ELSE NULL,
                !.auth = Written(row, in, "auth"), !.priv = Written(row, in, "priv")]

\* Repository.Create stores the id of the key with or without a secret.
Created(in) ==
    [Updated([type |-> in.type, secret |-> NULL, keyId |-> NULL, user |-> "",
              level |-> NULL, auth |-> NULL, priv |-> NULL], in)
        EXCEPT !.keyId = KeyID]

\* UpsertBinding: the priority 0 is the default.
Stored(b) == IF b.priority = 0 THEN [b EXCEPT !.priority = 100] ELSE b

Bound(p) == {t \in Transport : bindings[t] /= NULL /\ bindings[t].profile = p}

-----------------------------------------------------------------------------
(* What a lookup needs, stated without its queries.                        *)

UsableUSM(row) ==
    /\ row /= NULL
    /\ row.type = "snmp_v3"
    /\ row.user /= ""
    /\ row.level /= NULL
    /\ row.level \in {"authNoPriv", "authPriv"} => Decrypts(row.auth)
    /\ row.level = "authPriv" => Decrypts(row.priv)

Usable(vendor, row) ==
    CASE vendor = "mikrotik" ->
            /\ row.type \in {"routeros_api_ssl", "ssh", "snmp_v2", "snmp_v3"}
            /\ Decrypts(row.secret)
      [] vendor = "mimosa" ->
            \/ row.type \in {"snmp_v2", "mimosa_snmp"} /\ Decrypts(row.secret)
            \/ UsableUSM(row)
      [] OTHER -> FALSE

Enabled == {t \in Transport : bindings[t] /= NULL /\ bindings[t].enabled}

\* The device is there and all of its enabled bindings can be used.
Serviceable ==
    /\ device /= NULL
    /\ ~device.deleted
    /\ Enabled /= {}
    /\ \A t \in Enabled : Usable(device.vendor, profiles[bindings[t].profile])

\* History: nothing has happened since the lookup began that could stop it.
Calm(l) ==
    /\ Serviceable'
    /\ device' = device
    /\ lookup[l].pc = "usm" => UsableUSM(profiles'[lookup[l].profile])

Observe ==
    lookup' = [l \in Lookup |->
        IF lookup[l].pc = "idle" THEN lookup[l]
        ELSE [lookup[l] EXCEPT !.calm = @ /\ Calm(l)]]

-----------------------------------------------------------------------------
(* The edits.                                                              *)

CreateDevice ==
    /\ device = NULL
    /\ \E v \in Vendor :
           device' = [vendor |-> v, deleted |-> FALSE]
    /\ UNCHANGED <<profiles, bindings, key>>
    /\ Observe

\* UpdateDevice: the vendor is the field that lookups read.
UpdateDevice ==
    /\ device /= NULL
    /\ ~device.deleted
    /\ \E v \in Vendor : device' = [device EXCEPT !.vendor = v]
    /\ UNCHANGED <<profiles, bindings, key>>
    /\ Observe

\* A soft delete: the bindings stay.
DeleteDevice ==
    /\ device /= NULL
    /\ ~device.deleted
    /\ device' = [device EXCEPT !.deleted = TRUE]
    /\ UNCHANGED <<profiles, bindings, key>>
    /\ Observe

CreateProfile(p) ==
    /\ profiles[p] = NULL
    /\ \E in \in Inputs :
           /\ "type" \in DOMAIN in
           /\ NeedsVault(in) => Encrypts
           /\ profiles' = [profiles EXCEPT ![p] = Created(in)]
    /\ UNCHANGED <<device, bindings, key>>
    /\ Observe

UpdateProfile(p) ==
    /\ profiles[p] /= NULL
    /\ \E in \in Inputs :
           /\ NeedsVault(in) => Encrypts
           /\ profiles' = [profiles EXCEPT ![p] = Updated(@, in)]
    /\ UNCHANGED <<device, bindings, key>>
    /\ Observe

\* (Mutant) A profile is deleted although it is bound.
DeleteProfileBound(p) ==
    /\ profiles[p] /= NULL
    /\ profiles' = [profiles EXCEPT ![p] = NULL]
    /\ UNCHANGED <<device, bindings, key, lookup>>

\* The foreign key of the bindings restricts the deletion.
DeleteProfile(p) ==
    /\ profiles[p] /= NULL
    /\ Bound(p) = {}
    /\ profiles' = [profiles EXCEPT ![p] = NULL]
    /\ UNCHANGED <<device, bindings, key>>
    /\ Observe

\* A binding may also be put on a device that is deleted.
UpsertBinding(t, p) ==
    /\ device /= NULL
    /\ profiles[p] /= NULL
    /\ \E n \in Priorities, e \in BOOLEAN :
           bindings' = [bindings EXCEPT ![t] =
               Stored([profile |-> p, priority |-> n, enabled |-> e])]
    /\ UNCHANGED <<device, profiles, key>>
    /\ Observe

\* Addressed by the profile, it removes the bindings of every transport.
DeleteBinding(p) ==
    /\ Bound(p) /= {}
    /\ bindings' = [t \in Transport |-> IF t \in Bound(p) THEN NULL ELSE bindings[t]]
    /\ UNCHANGED <<device, profiles, key>>
    /\ Observe

\* The process starts again, with the same key, another one or none.
Restart ==
    /\ key' \in Secret
    /\ lookup' = [l \in Lookup |-> Idle]
    /\ UNCHANGED <<device, profiles, bindings>>

-----------------------------------------------------------------------------
(* The lookups.                                                            *)

database == <<device, profiles, bindings, key>>

Goto(l, step) == lookup' = [lookup EXCEPT ![l].pc = step]

Begin(l) ==
    /\ lookup[l].pc = "idle"
    /\ lookup' = [lookup EXCEPT ![l] = [Idle EXCEPT !.pc = "device",
                      !.born = device = NULL \/ ~device.deleted,
                      !.calm = Serviceable]]
    /\ UNCHANGED database

\* (Mutant) A deleted device is loaded like any other.
FoundDeleted == device /= NULL

Found == device /= NULL /\ ~device.deleted

\* Probe and Poll dispatch by vendor.
LoadDevice(l) ==
    /\ lookup[l].pc = "device"
    /\ \/ /\ Found
          /\ device.vendor \in {"mikrotik", "mimosa"}
          /\ lookup' = [lookup EXCEPT ![l].vendor = device.vendor, ![l].pc =
                 IF device.vendor = "mimosa" THEN "again" ELSE "credential"]
       \/ /\ Found => device.vendor = "other"
          /\ Goto(l, "refused")
    /\ UNCHANGED database

\* ProbeMimosa and PollMimosa load the device once more.
LoadDeviceAgain(l) ==
    /\ lookup[l].pc = "again"
    /\ Goto(l, IF Found /\ device.vendor = "mimosa" THEN "credential" ELSE "refused")
    /\ UNCHANGED database

Rank(t) ==
    CASE t = "api-ssl" -> 1 [] t = "ssh" -> 2 [] t = "snmp" -> 3 [] OTHER -> 4

\* (Mutant) The query forgets that a binding can be disabled.
BestOfAll ==
    {t \in Transport : /\ bindings[t] /= NULL
                       /\ \A u \in Transport :
                              \/ bindings[u] = NULL
                              \/ bindings[t].priority < bindings[u].priority
                              \/ /\ bindings[t].priority = bindings[u].priority
                                 /\ Rank(t) <= Rank(u)}

\* The enabled bindings that come first: by priority, then by transport.
Best ==
    {t \in Enabled : \A u \in Enabled :
        \/ bindings[t].priority < bindings[u].priority
        \/ /\ bindings[t].priority = bindings[u].priority
           /\ Rank(t) <= Rank(u)}

\* transportFor, then the secret: what MikroTik needs of the row.
MikroTikConfig(row) ==
    IF /\ row.type \in {"routeros_api_ssl", "ssh", "snmp_v2", "snmp_v3"}
       /\ Decrypts(row.secret)
    THEN "ready" ELSE "refused"

\* mimosaCfg: SNMPv3 goes back to the profile, also without a key.
MimosaConfig(row) ==
    CASE row.type = "snmp_v3" -> "usm"
      [] row.type \in {"snmp_v2", "mimosa_snmp"} /\ Decrypts(row.secret) -> "ready"
      [] OTHER -> "refused"

\* One binding is tried; no other one after it.
LoadCredential(l) ==
    /\ lookup[l].pc = "credential"
    /\ \/ Best = {} /\ Goto(l, "refused")
       \/ \E t \in Best :
              LET p == bindings[t].profile
              IN  lookup' = [lookup EXCEPT ![l].profile = p, ![l].pc =
                      IF lookup[l].vendor = "mimosa" THEN MimosaConfig(profiles[p])
                      ELSE MikroTikConfig(profiles[p])]
    /\ UNCHANGED database

\* loadSNMPv3USM: the profile may have gone, and it may have become another.
USM(row) ==
    /\ row /= NULL
    /\ row.user /= ""
    /\ CASE row.level = "noAuthNoPriv" -> TRUE
         [] row.level = "authNoPriv" -> Decrypts(row.auth)
         [] row.level = "authPriv" -> Decrypts(row.auth) /\ Decrypts(row.priv)
         [] OTHER -> FALSE

LoadUSM(l) ==
    /\ lookup[l].pc = "usm"
    /\ Goto(l, IF USM(profiles[lookup[l].profile]) THEN "ready" ELSE "refused")
    /\ UNCHANGED database

\* The call goes on with the configuration (module DevicePolls), or returns.
Leave(l) ==
    /\ lookup[l].pc \in {"ready", "refused"}
    /\ lookup' = [lookup EXCEPT ![l] = Idle]
    /\ UNCHANGED database

Edit ==
    \/ CreateDevice
    \/ UpdateDevice
    \/ DeleteDevice
    \/ \E p \in Profile :
           \/ CreateProfile(p)
           \/ UpdateProfile(p)
           \/ DeleteProfile(p)
           \/ DeleteBinding(p)
           \/ \E t \in Transport : UpsertBinding(t, p)

Proceed(l) == LoadDevice(l) \/ LoadDeviceAgain(l) \/ LoadCredential(l) \/ LoadUSM(l)

Next ==
    \/ Edit
    \/ Restart
    \/ \E l \in Lookup : Begin(l) \/ Proceed(l) \/ Leave(l)

Spec == Init /\ [][Next]_vars

-----------------------------------------------------------------------------
(* Properties.                                                             *)

\* Rows and lookups keep their types, and a ready lookup has read a profile.
TypeOK ==
    /\ device \in Device \cup {NULL}
    /\ profiles \in [Profile -> Row \cup {NULL}]
    /\ \A t \in Transport : bindings[t] = NULL \/ bindings[t] \in Binding
    /\ key \in Secret
    /\ \A l \in Lookup :
           /\ lookup[l].pc \in {"idle", "device", "again", "credential", "usm",
                                "ready", "refused"}
           /\ lookup[l].pc \in {"usm", "ready"} => lookup[l].profile \in Profile

\* The rows that a lookup joins are there: no binding points to a profile that
\* has been deleted.
BindingsResolve == \A p \in Profile : Bound(p) /= {} => profiles[p] /= NULL

\* A lookup is refused only if, at some moment since it began, the device was
\* not there or had a binding in use that cannot serve it, or if the device or
\* the profile it reads twice was edited under it.  Bindings that are disabled
\* never stand in the way, and edits that leave everything usable do no harm.
RefusedForAReason == \A l \in Lookup : lookup[l].pc = "refused" => ~lookup[l].calm

\* A device that was deleted before a lookup began is never dialled.
DeletedIsNotDialled == \A l \in Lookup : lookup[l].pc = "ready" => lookup[l].born

\* The column secret_key_id names the key that opens the secret: what the
\* rotation of keys relies on (docs/VAULT_ROTATION.md).
KeyIdNamesTheKey ==
    \A p \in Profile :
        (profiles[p] /= NULL /\ profiles[p].secret /= NULL)
            => profiles[p].keyId = profiles[p].secret
=============================================================================
