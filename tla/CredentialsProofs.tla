-------------------------- MODULE CredentialsProofs --------------------------
(***************************************************************************)
(* For any profiles, transports, requests, keys and lookups: bindings have *)
(* their profile, secrets their key, and a lookup that is refused has its  *)
(* reason.                                                                 *)
(***************************************************************************)
EXTENDS Credentials, TLAPS

Steps == {"idle", "device", "again", "credential", "usm", "ready", "refused"}

IsLookup(x) ==
    x \in [pc : Steps, vendor : {x.vendor}, profile : {x.profile}, born : {x.born},
           calm : {x.calm}]

\* What is true of a lookup while nothing has happened that could stop it.
CalmInv(l) ==
    /\ lookup[l].pc /= "refused"
    /\ lookup[l].pc /= "ready" => Serviceable
    /\ lookup[l].pc \in {"again", "credential"} => lookup[l].vendor = device.vendor
    /\ lookup[l].pc = "again" => device.vendor = "mimosa"
    /\ lookup[l].pc = "usm" => UsableUSM(profiles[lookup[l].profile])

LookupInv(l) ==
    /\ lookup[l].pc \in {"usm", "ready"} => lookup[l].profile \in Profile
    /\ (lookup[l].pc /= "idle" /\ ~lookup[l].born) =>
           /\ device /= NULL
           /\ device.deleted
           /\ lookup[l].pc \in {"device", "refused"}
    /\ (lookup[l].pc /= "idle" /\ lookup[l].calm) => CalmInv(l)

\* The id of the key is that of the secret.
Named(row) == row.secret /= NULL => row.keyId = row.secret

Rows ==
    /\ device \in Device \cup {NULL}
    /\ profiles \in [Profile -> Row \cup {NULL}]
    /\ \A p \in Profile : profiles[p] /= NULL => Named(profiles[p])
    /\ bindings = [t \in Transport |-> bindings[t]]
    /\ \A t \in Transport : bindings[t] = NULL \/ bindings[t] \in Binding
    /\ key \in Secret
    /\ BindingsResolve

Inv ==
    /\ Rows
    /\ lookup = [l \in Lookup |-> lookup[l]]
    /\ \A l \in Lookup : IsLookup(lookup[l])
    /\ \A l \in Lookup : LookupInv(l)
-----------------------------------------------------------------------------
(* The rows that requests write.                                           *)

LEMMA UpdatedIsRow ==
    ASSUME NEW row \in Row, Named(row), NEW in \in Inputs, key \in Secret,
           NeedsVault(in) => Encrypts
    PROVE  /\ Updated(row, in) \in Row /\ Named(Updated(row, in))
           /\ "secret" \in DOMAIN in /\ in.secret = "new" => Updated(row, in).secret = key
           /\ "secret" \notin DOMAIN in => Updated(row, in).secret = row.secret
           /\ "secret" \in DOMAIN in /\ in.secret = "" => Updated(row, in).secret = NULL
  <1>1. BodyOK(in)
    BY InputsAssumption
  <1> DEFINE type == Field(row, in, "type")
             user == Field(row, in, "user")
             level == Field(row, in, "level")
             secret == Written(row, in, "secret")
             auth == Written(row, in, "auth")
             priv == Written(row, in, "priv")
             keyId == IF "secret" \notin DOMAIN in THEN row.keyId
                      ELSE IF in.secret = "new" THEN KeyID ELSE NULL
             x == Updated(row, in)
  <1>2. type \in AuthType /\ user \in {"name", ""} /\ level \in Level \cup {NULL}
    BY <1>1 DEF BodyOK, Field, Row
  <1>3. secret \in Secret /\ auth \in Secret /\ priv \in Secret
    BY DEF Written, Row, Secret
  <1>4. keyId \in Secret \cup {"noop"}
    BY DEF Row, KeyID, Secret
  <1>5. secret /= NULL => keyId = secret
    <2>1. ("secret" \in DOMAIN in /\ in.secret = "new") => key /= NULL
      BY <1>1 DEF NeedsVault, Encrypts
    <2> QED  BY <2>1 DEF Written, Named, KeyID
  <1>6. x = [row EXCEPT !.type = type, !.user = user, !.level = level, !.secret = secret,
                        !.keyId = keyId, !.auth = auth, !.priv = priv]
    BY DEF Updated
  <1>7. /\ "secret" \in DOMAIN in /\ in.secret = "new" => secret = key
        /\ "secret" \notin DOMAIN in => secret = row.secret
        /\ "secret" \in DOMAIN in /\ in.secret = "" => secret = NULL
    BY DEF Written
  <1> HIDE DEF type, user, level, secret, auth, priv, keyId, x
  <1>8. x \in Row /\ x.secret = secret /\ x.keyId = keyId
    BY <1>2, <1>3, <1>4, <1>6 DEF Row
  <1> QED  BY <1>5, <1>7, <1>8 DEF x, Named

LEMMA CreatedIsRow ==
    ASSUME NEW in \in Inputs, "type" \in DOMAIN in, key \in Secret, NeedsVault(in) => Encrypts
    PROVE  Created(in) \in Row /\ Named(Created(in))
  <1> DEFINE blank == [type |-> in.type, secret |-> NULL, keyId |-> NULL, user |-> "",
                       level |-> NULL, auth |-> NULL, priv |-> NULL]
             row == Updated(blank, in)
             x == Created(in)
  <1>1. BodyOK(in)
    BY InputsAssumption
  <1>2. blank \in Row /\ Named(blank) /\ blank.secret = NULL
    BY <1>1 DEF BodyOK, Row, Secret, Named
  <1>3. x = [row EXCEPT !.keyId = KeyID]
    BY DEF Created
  <1> HIDE DEF blank
  <1>4. row \in Row
    BY <1>2, UpdatedIsRow
  <1>5. row.secret /= NULL => row.secret = KeyID
    <2>1. "secret" \in DOMAIN in => in.secret \in {"new", ""}
      BY <1>1 DEF BodyOK
    <2>2. row.secret /= NULL => row.secret = key
      BY <1>2, <2>1, UpdatedIsRow
    <2> QED  BY <2>2 DEF KeyID
  <1> HIDE DEF row, x
  <1>6. KeyID \in Secret \cup {"noop"}
    BY DEF KeyID, Secret
  <1>7. x \in Row /\ x.secret = row.secret /\ x.keyId = KeyID
    BY <1>3, <1>4, <1>6 DEF Row
  <1> QED  BY <1>5, <1>7 DEF x, Named
-----------------------------------------------------------------------------
(* The best binding.                                                       *)

\* The order of the query.
Beats(t, u) ==
    \/ bindings[t].priority < bindings[u].priority
    \/ bindings[t].priority = bindings[u].priority /\ Rank(t) <= Rank(u)

HasBest(some) == some = {} \/ \E t \in some : \A u \in some : Beats(t, u)

LEMMA OneMore ==
    ASSUME NEW some \in SUBSET Transport, NEW t \in Transport, HasBest(some),
           \A u \in some \cup {t} : bindings[u].priority \in Int
    PROVE  HasBest(some \cup {t})
  <1>1. \A u \in Transport : Rank(u) \in Int
    BY DEF Rank
  <1>2. Beats(t, t)
    BY <1>1 DEF Beats
  <1>3. CASE some = {}
    BY <1>2, <1>3 DEF HasBest
  <1>4. ASSUME NEW b \in some, \A u \in some : Beats(b, u)
        PROVE  HasBest(some \cup {t})
    <2>1. CASE Beats(b, t)
      BY <1>4, <2>1 DEF HasBest
    <2>2. CASE ~Beats(b, t)
      <3>1. ASSUME NEW u \in some PROVE Beats(t, u)
        <4>1. Beats(b, u)
          BY <1>4
        <4> QED  BY <1>1, <2>2, <4>1 DEF Beats
      <3> QED  BY <1>2, <3>1 DEF HasBest
    <2> QED  BY <2>1, <2>2
  <1> QED  BY <1>3, <1>4 DEF HasBest

\* There is a best binding as soon as one is enabled: no transports but four.
LEMMA SomeBest == ASSUME Rows, Enabled /= {} PROVE Best /= {}
  <1>1. \A t \in Enabled : t \in Transport /\ bindings[t].priority \in Int
    BY DEF Enabled, Rows, Binding
  <1>2. ASSUME NEW some \in SUBSET Enabled, HasBest(some), NEW t
        PROVE  HasBest(some \cup (Enabled \cap {t}))
    <2>1. CASE t \in Enabled
      <3>1. some \cup (Enabled \cap {t}) = some \cup {t}
        BY <2>1
      <3> QED  BY <1>1, <1>2, <2>1, <3>1, OneMore
    <2>2. CASE t \notin Enabled
      <3>1. some \cup (Enabled \cap {t}) = some
        BY <2>2
      <3> QED  BY <1>2, <3>1
    <2> QED  BY <2>1, <2>2
  <1> DEFINE two == (Enabled \cap {"api-ssl"}) \cup (Enabled \cap {"ssh"})
             three == two \cup (Enabled \cap {"snmp"})
  <1>3. HasBest({} \cup (Enabled \cap {"api-ssl"}))
    <2>1. HasBest({})
      BY DEF HasBest
    <2> QED  BY <1>2, <2>1
  <1>4. HasBest(Enabled \cap {"api-ssl"})
    <2>1. {} \cup (Enabled \cap {"api-ssl"}) = Enabled \cap {"api-ssl"}
      OBVIOUS
    <2> QED  BY <1>3, <2>1
  <1>5. HasBest(two)
    BY <1>2, <1>4
  <1>6. HasBest(three)
    <2>1. two \subseteq Enabled
      OBVIOUS
    <2> HIDE DEF two
    <2> QED  BY <1>2, <1>5, <2>1
  <1>7. HasBest(three \cup (Enabled \cap {"vendor-api"}))
    <2>1. three \subseteq Enabled
      OBVIOUS
    <2> HIDE DEF three
    <2> QED  BY <1>2, <1>6, <2>1
  <1>8. three \cup (Enabled \cap {"vendor-api"}) = Enabled
    BY <1>1, TransportAssumption
  <1>9. HasBest(Enabled)
    BY <1>7, <1>8
  <1> QED  BY <1>9 DEF HasBest, Best, Beats
-----------------------------------------------------------------------------
(* Edits.                                                                  *)

LEMMA ObservedIsLookup ==
    ASSUME NEW y, IsLookup(y), NEW calm, NEW x, x = [y EXCEPT !.calm = calm]
    PROVE  /\ IsLookup(x) /\ x.pc = y.pc /\ x.vendor = y.vendor /\ x.profile = y.profile
           /\ x.born = y.born /\ x.calm = calm
  BY DEF IsLookup

\* An edit leaves alone what has been deleted, and every lookup takes notice.
LEMMA ObserveInv ==
    ASSUME Inv, Rows', Observe, key' = key, (device /= NULL /\ device.deleted) => device' = device
    PROVE  Inv'
  <1>1. lookup' = [l \in Lookup |-> lookup'[l]]
    BY DEF Observe
  <1>2. ASSUME NEW l \in Lookup PROVE IsLookup(lookup'[l]) /\ LookupInv(l)'
    <2>1. IsLookup(lookup[l]) /\ LookupInv(l)
      BY DEF Inv
    <2>2. CASE lookup[l].pc = "idle"
      <3>1. lookup'[l] = lookup[l]
        BY <2>2 DEF Observe
      <3> QED  BY <2>1, <2>2, <3>1 DEF LookupInv
    <2>3. CASE lookup[l].pc /= "idle"
      <3> DEFINE calm == lookup[l].calm /\ Calm(l)
                 y == lookup[l]
                 x == lookup'[l]
      <3>1. x = [y EXCEPT !.calm = calm]
        BY <2>3 DEF Observe
      <3> HIDE DEF calm
      <3>2. /\ IsLookup(x) /\ x.pc = y.pc /\ x.vendor = y.vendor /\ x.profile = y.profile
            /\ x.born = y.born /\ x.calm = calm
        BY <2>1, <3>1, ObservedIsLookup
      <3>3. x.calm => y.calm /\ Serviceable' /\ device' = device
                      /\ (y.pc = "usm" => UsableUSM(profiles'[y.profile]))
        BY <3>2 DEF calm, Calm
      <3>4. x.pc \in {"usm", "ready"} => x.profile \in Profile
        BY <2>1, <3>2 DEF LookupInv
      <3>5. (x.pc /= "idle" /\ ~x.born) =>
                /\ device' /= NULL
                /\ device'.deleted
                /\ x.pc \in {"device", "refused"}
        BY <2>1, <3>2 DEF LookupInv
      <3>6. (x.pc /= "idle" /\ x.calm) => CalmInv(l)'
        <4>1. (y.pc /= "idle" /\ y.calm) => CalmInv(l)
          BY <2>1 DEF LookupInv
        <4>2. ASSUME UsableUSM(profiles'[y.profile])
              PROVE  UsableUSM(profiles[lookup[l].profile])'
          <5>1. profiles'[y.profile] = profiles'[lookup'[l].profile]
            BY <3>2
          <5>2. UsableUSM(profiles'[lookup'[l].profile])
            BY <4>2, <5>1
          <5> QED  BY <5>2 DEF UsableUSM, Decrypts
        <4> QED  BY <3>2, <3>3, <4>1, <4>2 DEF CalmInv
      <3> QED  BY <3>2, <3>4, <3>5, <3>6 DEF LookupInv
    <2> QED  BY <2>2, <2>3
  <1> QED  BY <1>1, <1>2 DEF Inv

LEMMA DeviceEdits ==
    ASSUME Inv, CreateDevice \/ UpdateDevice \/ DeleteDevice
    PROVE  Inv'
  <1>1. Rows /\ Observe /\ UNCHANGED <<profiles, bindings, key>>
    BY DEF Inv, CreateDevice, UpdateDevice, DeleteDevice
  <1>2. device' \in Device
    <2>1. CASE CreateDevice
      BY <2>1 DEF CreateDevice, Device
    <2>2. CASE UpdateDevice
      BY <1>1, <2>2 DEF UpdateDevice, Device, Rows
    <2>3. CASE DeleteDevice
      BY <1>1, <2>3 DEF DeleteDevice, Device, Rows
    <2> QED  BY <2>1, <2>2, <2>3
  <1>3. Rows'
    BY <1>1, <1>2 DEF Rows, BindingsResolve, Bound
  <1>4. (device /= NULL /\ device.deleted) => device' = device
    BY DEF CreateDevice, UpdateDevice, DeleteDevice
  <1> QED  BY <1>1, <1>3, <1>4, ObserveInv

LEMMA ProfileEdits ==
    ASSUME Inv, NEW p \in Profile, CreateProfile(p) \/ UpdateProfile(p) \/ DeleteProfile(p)
    PROVE  Inv'
  <1>1. Rows /\ Observe /\ UNCHANGED <<device, bindings, key>>
    BY DEF Inv, CreateProfile, UpdateProfile, DeleteProfile
  <1>2. PICK row \in Row \cup {NULL} :
            /\ profiles' = [profiles EXCEPT ![p] = row]
            /\ row /= NULL => Named(row)
            /\ row = NULL => Bound(p) = {}
    <2>1. CASE CreateProfile(p)
      <3>1. PICK in \in Inputs : /\ "type" \in DOMAIN in
                                 /\ NeedsVault(in) => Encrypts
                                 /\ profiles' = [profiles EXCEPT ![p] = Created(in)]
        BY <2>1 DEF CreateProfile
      <3>2. Created(in) \in Row /\ Named(Created(in))
        BY <1>1, <3>1, CreatedIsRow DEF Rows
      <3> DEFINE row == Created(in)
      <3>3. /\ profiles' = [profiles EXCEPT ![p] = row] /\ row \in Row \cup {NULL}
            /\ row /= NULL /\ Named(row)
        BY <3>1, <3>2, NullAssumption
      <3> HIDE DEF row
      <3> QED  BY <3>3
    <2>2. CASE UpdateProfile(p)
      <3>1. PICK in \in Inputs : /\ NeedsVault(in) => Encrypts
                                 /\ profiles' = [profiles EXCEPT ![p] = Updated(@, in)]
        BY <2>2 DEF UpdateProfile
      <3>2. profiles[p] \in Row /\ Named(profiles[p])
        BY <1>1, <2>2 DEF UpdateProfile, Rows
      <3>3. Updated(profiles[p], in) \in Row /\ Named(Updated(profiles[p], in))
        BY <1>1, <3>1, <3>2, UpdatedIsRow DEF Rows
      <3>4. profiles' = [profiles EXCEPT ![p] = Updated(profiles[p], in)]
        BY <3>1
      <3> DEFINE row == Updated(profiles[p], in)
      <3>5. /\ profiles' = [profiles EXCEPT ![p] = row] /\ row \in Row \cup {NULL}
            /\ row /= NULL /\ Named(row)
        BY <3>3, <3>4, NullAssumption
      <3> HIDE DEF row
      <3> QED  BY <3>5
    <2>3. CASE DeleteProfile(p)
      BY <2>3 DEF DeleteProfile
    <2> QED  BY <2>1, <2>2, <2>3
  <1>3. /\ profiles' \in [Profile -> Row \cup {NULL}]
        /\ profiles'[p] = row
        /\ \A q \in Profile \ {p} : profiles'[q] = profiles[q]
    BY <1>1, <1>2 DEF Rows
  <1>4. \A q \in Profile : profiles'[q] /= NULL => Named(profiles'[q])
    BY <1>1, <1>2, <1>3 DEF Rows
  <1>5. BindingsResolve'
    BY <1>1, <1>2, <1>3 DEF Rows, BindingsResolve, Bound
  <1>6. Rows'
    BY <1>1, <1>3, <1>4, <1>5 DEF Rows
  <1> QED  BY <1>1, <1>6, ObserveInv

LEMMA BindingEdits ==
    ASSUME Inv, NEW p \in Profile, NEW t \in Transport, UpsertBinding(t, p) \/ DeleteBinding(p)
    PROVE  Inv'
  <1>1. Rows /\ Observe /\ UNCHANGED <<device, profiles, key>>
    BY DEF Inv, UpsertBinding, DeleteBinding
  <1>2. /\ bindings' = [u \in Transport |-> bindings'[u]]
        /\ \A u \in Transport :
               /\ bindings'[u] = NULL \/ bindings'[u] \in Binding
               /\ \/ bindings'[u] = NULL
                  \/ bindings'[u] = bindings[u]
                  \/ bindings'[u].profile = p /\ profiles[p] /= NULL
    <2>1. CASE UpsertBinding(t, p)
      <3>1. PICK n \in Priorities, e \in BOOLEAN :
                bindings' = [bindings EXCEPT ![t] =
                    Stored([profile |-> p, priority |-> n, enabled |-> e])]
        BY <2>1 DEF UpsertBinding
      <3> DEFINE b == Stored([profile |-> p, priority |-> n, enabled |-> e])
      <3>2. b \in Binding /\ b.profile = p
        BY PrioritiesAssumption DEF Stored, Binding
      <3> HIDE DEF b
      <3>3. bindings' = [bindings EXCEPT ![t] = b]
        BY <3>1 DEF b
      <3> QED  BY <1>1, <2>1, <3>2, <3>3 DEF Rows, UpsertBinding
    <2>2. CASE DeleteBinding(p)
      BY <1>1, <2>2 DEF Rows, DeleteBinding
    <2> QED  BY <2>1, <2>2
  <1>3. BindingsResolve'
    BY <1>1, <1>2 DEF Rows, BindingsResolve, Bound
  <1>4. Rows'
    BY <1>1, <1>2, <1>3 DEF Rows
  <1> QED  BY <1>1, <1>4, ObserveInv
-----------------------------------------------------------------------------
(* Lookups.                                                                *)

LEMMA LookupStep ==
    ASSUME Inv, NEW l \in Lookup, NEW x, lookup' = [lookup EXCEPT ![l] = x],
           UNCHANGED database, IsLookup(x), LookupInv(l)'
    PROVE  Inv'
  <1>1. UNCHANGED <<device, profiles, bindings, key>>
    BY DEF database
  <1>2. Rows'
    BY <1>1 DEF Inv, Rows, BindingsResolve, Bound
  <1>3. /\ lookup' = [m \in Lookup |-> lookup'[m]]
        /\ lookup'[l] = x
        /\ \A m \in Lookup \ {l} : lookup'[m] = lookup[m]
    BY DEF Inv
  <1>4. ASSUME NEW m \in Lookup \ {l} PROVE LookupInv(m)'
    <2>1. LookupInv(m) /\ lookup'[m] = lookup[m]
      BY <1>3 DEF Inv
    <2>2. Serviceable' <=> Serviceable
      BY <1>1 DEF Serviceable, Enabled, Usable, UsableUSM, Decrypts
    <2>3. UsableUSM(profiles[lookup[m].profile])' <=> UsableUSM(profiles[lookup[m].profile])
      BY <1>1, <2>1 DEF UsableUSM, Decrypts
    <2> QED  BY <1>1, <2>1, <2>2, <2>3 DEF LookupInv, CalmInv
  <1> QED  BY <1>2, <1>3, <1>4 DEF Inv

LEMMA IdleIs == IsLookup(Idle) /\ Idle.pc = "idle"
  BY DEF Idle, IsLookup, Steps

LEMMA InitInv == Init => Inv
  <1> SUFFICES ASSUME Init PROVE Inv
    OBVIOUS
  <1>1. Rows
    BY DEF Init, Rows, BindingsResolve, Bound
  <1>2. ASSUME NEW l \in Lookup PROVE IsLookup(lookup[l]) /\ LookupInv(l)
    <2>1. lookup[l] = Idle
      BY DEF Init
    <2> QED  BY <2>1, IdleIs DEF LookupInv
  <1> QED  BY <1>1, <1>2 DEF Inv, Init

LEMMA RestartInv == ASSUME Inv, Restart PROVE Inv'
  <1>1. Rows'
    BY DEF Inv, Restart, Rows, BindingsResolve, Bound
  <1>2. ASSUME NEW l \in Lookup PROVE IsLookup(lookup'[l]) /\ LookupInv(l)'
    <2>1. lookup'[l] = Idle
      BY DEF Restart
    <2> QED  BY <2>1, IdleIs DEF LookupInv
  <1> QED  BY <1>1, <1>2 DEF Inv, Restart

LEMMA LeaveInv == ASSUME Inv, NEW l \in Lookup, Leave(l) PROVE Inv'
  <1>1. lookup'[l] = Idle
    BY DEF Inv, Leave
  <1>2. LookupInv(l)'
    BY <1>1, IdleIs DEF LookupInv
  <1> QED  BY <1>2, IdleIs, LookupStep DEF Leave

LEMMA BeginInv == ASSUME Inv, NEW l \in Lookup, Begin(l) PROVE Inv'
  <1> DEFINE born == device = NULL \/ ~device.deleted
             calm == Serviceable
             x == [Idle EXCEPT !.pc = "device", !.born = born, !.calm = calm]
  <1>1. lookup' = [lookup EXCEPT ![l] = x] /\ UNCHANGED database
    BY DEF Begin
  <1>2. UNCHANGED <<device, profiles, bindings, key>>
    BY <1>1 DEF database
  <1> HIDE DEF born, calm
  <1>3. IsLookup(x) /\ x.pc = "device" /\ x.born = born /\ x.calm = calm
    BY DEF Idle, IsLookup, Steps
  <1> HIDE DEF x
  <1>4. lookup'[l] = x
    BY <1>1 DEF Inv
  <1>5. x.calm => Serviceable'
    <2>1. Serviceable => Serviceable'
      BY <1>2 DEF Serviceable, Enabled, Usable, UsableUSM, Decrypts
    <2>2. x.calm => Serviceable
      BY <1>3 DEF calm
    <2> QED  BY <2>1, <2>2
  <1>6. ~x.born => device' /= NULL /\ device'.deleted
    BY <1>2, <1>3 DEF born
  <1>7. LookupInv(l)'
    BY <1>3, <1>4, <1>5, <1>6 DEF LookupInv, CalmInv
  <1> QED  BY <1>1, <1>3, <1>7, LookupStep

\* A step that ends a lookup with a refusal that it deserves.
LEMMA Refused ==
    ASSUME Inv, NEW l \in Lookup, UNCHANGED database, lookup[l].pc /= "idle",
           Goto(l, "refused"), ~lookup[l].calm
    PROVE  Inv'
  <1> DEFINE x == [lookup[l] EXCEPT !.pc = "refused"]
  <1>1. lookup' = [lookup EXCEPT ![l] = x]
    BY DEF Goto
  <1>2. IsLookup(lookup[l]) /\ LookupInv(l)
    BY DEF Inv
  <1>3. /\ IsLookup(x) /\ x.pc = "refused" /\ x.born = lookup[l].born /\ x.calm = lookup[l].calm
    BY <1>2 DEF IsLookup, Steps
  <1> HIDE DEF x
  <1>4. lookup'[l] = x
    BY <1>1 DEF Inv
  <1>5. LookupInv(l)'
    BY <1>2, <1>3, <1>4 DEF LookupInv, database
  <1> QED  BY <1>1, <1>3, <1>5, LookupStep

LEMMA LoadDeviceInv == ASSUME Inv, NEW l \in Lookup, LoadDevice(l) PROVE Inv'
  <1>1. /\ IsLookup(lookup[l]) /\ LookupInv(l) /\ lookup[l].pc = "device"
        /\ UNCHANGED database
    BY DEF Inv, LoadDevice
  <1>2. lookup[l].calm => Serviceable
    BY <1>1 DEF LookupInv, CalmInv
  <1>3. UNCHANGED <<device, profiles, bindings, key>>
    BY <1>1 DEF database
  <1>4. CASE /\ Found
             /\ lookup' = [lookup EXCEPT ![l].vendor = device.vendor, ![l].pc =
                    IF device.vendor = "mimosa" THEN "again" ELSE "credential"]
    <2> DEFINE to == IF device.vendor = "mimosa" THEN "again" ELSE "credential"
               x == [lookup[l] EXCEPT !.vendor = device.vendor, !.pc = to]
    <2>1. lookup' = [lookup EXCEPT ![l] = x]
      BY <1>4
    <2>2. to \in {"again", "credential"} /\ (to = "again" => device.vendor = "mimosa")
      OBVIOUS
    <2> HIDE DEF to
    <2>3. /\ IsLookup(x) /\ x.pc = to /\ x.vendor = device.vendor
          /\ x.born = lookup[l].born /\ x.calm = lookup[l].calm
      BY <1>1, <2>2 DEF IsLookup, Steps
    <2> HIDE DEF x
    <2>4. lookup'[l] = x
      BY <2>1 DEF Inv
    <2>5. Serviceable => Serviceable'
      BY <1>3 DEF Serviceable, Enabled, Usable, UsableUSM, Decrypts
    <2>6. x.born
      BY <1>1, <1>4, <2>3 DEF LookupInv, Found
    <2>7. LookupInv(l)'
      BY <1>2, <1>3, <2>2, <2>3, <2>4, <2>5, <2>6 DEF LookupInv, CalmInv
    <2> QED  BY <1>1, <2>1, <2>3, <2>7, LookupStep
  <1>5. CASE (Found => device.vendor = "other") /\ Goto(l, "refused")
    <2>1. ~Serviceable
      <3>1. CASE ~Found
        BY <3>1 DEF Serviceable, Found
      <3>2. CASE device.vendor = "other"
        BY <3>2 DEF Serviceable, Usable
      <3> QED  BY <1>5, <3>1, <3>2
    <2> QED  BY <1>1, <1>2, <1>5, <2>1, Refused
  <1> QED  BY <1>4, <1>5 DEF LoadDevice

LEMMA LoadDeviceAgainInv == ASSUME Inv, NEW l \in Lookup, LoadDeviceAgain(l) PROVE Inv'
  <1>1. /\ IsLookup(lookup[l]) /\ LookupInv(l) /\ lookup[l].pc = "again"
        /\ UNCHANGED database
    BY DEF Inv, LoadDeviceAgain
  <1>2. lookup[l].calm =>
            Serviceable /\ lookup[l].vendor = device.vendor /\ device.vendor = "mimosa"
    BY <1>1 DEF LookupInv, CalmInv
  <1>3. UNCHANGED <<device, profiles, bindings, key>>
    BY <1>1 DEF database
  <1>4. CASE Goto(l, "credential")
    <2> DEFINE x == [lookup[l] EXCEPT !.pc = "credential"]
    <2>1. lookup' = [lookup EXCEPT ![l] = x]
      BY <1>4 DEF Goto
    <2>2. /\ IsLookup(x) /\ x.pc = "credential" /\ x.vendor = lookup[l].vendor
          /\ x.born = lookup[l].born /\ x.calm = lookup[l].calm
      BY <1>1 DEF IsLookup, Steps
    <2> HIDE DEF x
    <2>3. lookup'[l] = x
      BY <2>1 DEF Inv
    <2>4. Serviceable => Serviceable'
      BY <1>3 DEF Serviceable, Enabled, Usable, UsableUSM, Decrypts
    <2>5. x.born
      BY <1>1, <2>2 DEF LookupInv
    <2>6. LookupInv(l)'
      BY <1>2, <1>3, <2>2, <2>3, <2>4, <2>5 DEF LookupInv, CalmInv
    <2> QED  BY <1>1, <2>1, <2>2, <2>6, LookupStep
  <1>5. CASE ~(Found /\ device.vendor = "mimosa") /\ Goto(l, "refused")
    <2>1. Serviceable => Found
      BY DEF Serviceable, Found
    <2> QED  BY <1>1, <1>2, <1>5, <2>1, Refused
  <1> QED  BY <1>4, <1>5 DEF LoadDeviceAgain

\* What is usable is turned into a configuration.
LEMMA UsableIsConfigured ==
    ASSUME NEW row
    PROVE  /\ Usable("mikrotik", row) => MikroTikConfig(row) = "ready"
           /\ Usable("mimosa", row) => MimosaConfig(row) /= "refused"
           /\ Usable("mimosa", row) /\ MimosaConfig(row) = "usm" => UsableUSM(row)
           /\ MikroTikConfig(row) \in {"ready", "refused"}
           /\ MimosaConfig(row) \in {"ready", "usm", "refused"}
  BY DEF Usable, MikroTikConfig, MimosaConfig, UsableUSM

LEMMA LoadCredentialInv == ASSUME Inv, NEW l \in Lookup, LoadCredential(l) PROVE Inv'
  <1>1. /\ Rows /\ IsLookup(lookup[l]) /\ LookupInv(l) /\ lookup[l].pc = "credential"
        /\ UNCHANGED database
    BY DEF Inv, LoadCredential
  <1>2. lookup[l].calm => Serviceable /\ lookup[l].vendor = device.vendor
    BY <1>1 DEF LookupInv, CalmInv
  <1>3. UNCHANGED <<device, profiles, bindings, key>>
    BY <1>1 DEF database
  <1>4. CASE Best = {} /\ Goto(l, "refused")
    <2>1. ~Serviceable
      BY <1>1, <1>4, SomeBest DEF Serviceable
    <2> QED  BY <1>1, <1>2, <1>4, <2>1, Refused
  <1>5. ASSUME NEW t \in Best,
               lookup' = [lookup EXCEPT ![l].profile = bindings[t].profile, ![l].pc =
                   IF lookup[l].vendor = "mimosa" THEN MimosaConfig(profiles[bindings[t].profile])
                   ELSE MikroTikConfig(profiles[bindings[t].profile])]
        PROVE  Inv'
    <2> DEFINE p == bindings[t].profile
               to == IF lookup[l].vendor = "mimosa" THEN MimosaConfig(profiles[p])
                     ELSE MikroTikConfig(profiles[p])
               x == [lookup[l] EXCEPT !.profile = p, !.pc = to]
    <2>1. lookup' = [lookup EXCEPT ![l] = x]
      BY <1>5
    <2>2. t \in Enabled /\ p \in Profile
      BY <1>1 DEF Best, Enabled, Rows, Binding
    <2>3. to \in {"ready", "usm", "refused"}
      BY UsableIsConfigured
    <2>4. lookup[l].calm =>
              /\ to /= "refused"
              /\ to = "usm" => UsableUSM(profiles[p])
      <3>1. SUFFICES ASSUME lookup[l].calm
                     PROVE  to /= "refused" /\ (to = "usm" => UsableUSM(profiles[p]))
        OBVIOUS
      <3>2. Usable(lookup[l].vendor, profiles[p])
        BY <1>2, <2>2, <3>1 DEF Serviceable
      <3>3. lookup[l].vendor \in {"mikrotik", "mimosa"}
        BY <3>2 DEF Usable
      <3>4. CASE lookup[l].vendor = "mimosa"
        BY <3>2, <3>4, UsableIsConfigured
      <3>5. CASE lookup[l].vendor = "mikrotik"
        BY <3>2, <3>5, UsableIsConfigured
      <3> QED  BY <3>3, <3>4, <3>5
    <2> HIDE DEF to, p
    <2>5. /\ IsLookup(x) /\ x.pc = to /\ x.profile = p
          /\ x.born = lookup[l].born /\ x.calm = lookup[l].calm
      BY <1>1, <2>3 DEF IsLookup, Steps
    <2> HIDE DEF x
    <2>6. lookup'[l] = x
      BY <2>1 DEF Inv
    <2>7. Serviceable => Serviceable'
      BY <1>3 DEF Serviceable, Enabled, Usable, UsableUSM, Decrypts
    <2>8. x.born
      BY <1>1, <2>5 DEF LookupInv
    <2>9. UsableUSM(profiles[p]) => UsableUSM(profiles[lookup[l].profile])'
      BY <1>3, <2>5, <2>6 DEF UsableUSM, Decrypts
    <2>10. LookupInv(l)'
      BY <1>2, <1>3, <2>2, <2>3, <2>4, <2>5, <2>6, <2>7, <2>8, <2>9 DEF LookupInv, CalmInv
    <2> QED  BY <1>1, <2>1, <2>5, <2>10, LookupStep
  <1> QED  BY <1>4, <1>5 DEF LoadCredential

LEMMA LoadUSMInv == ASSUME Inv, NEW l \in Lookup, LoadUSM(l) PROVE Inv'
  <1> DEFINE row == profiles[lookup[l].profile]
  <1>1. /\ Rows /\ IsLookup(lookup[l]) /\ LookupInv(l) /\ lookup[l].pc = "usm"
        /\ UNCHANGED database /\ lookup[l].profile \in Profile
    BY DEF Inv, LoadUSM, LookupInv
  <1>2. lookup[l].calm => Serviceable /\ UsableUSM(row)
    BY <1>1 DEF LookupInv, CalmInv
  <1>3. UNCHANGED <<device, profiles, bindings, key>>
    BY <1>1 DEF database
  <1>4. CASE Goto(l, "ready")
    <2> DEFINE x == [lookup[l] EXCEPT !.pc = "ready"]
    <2>1. lookup' = [lookup EXCEPT ![l] = x]
      BY <1>4 DEF Goto
    <2>2. /\ IsLookup(x) /\ x.pc = "ready" /\ x.profile = lookup[l].profile
          /\ x.born = lookup[l].born /\ x.calm = lookup[l].calm
      BY <1>1 DEF IsLookup, Steps
    <2> HIDE DEF x
    <2>3. lookup'[l] = x
      BY <2>1 DEF Inv
    <2>4. x.born
      BY <1>1, <2>2 DEF LookupInv
    <2>5. LookupInv(l)'
      BY <1>1, <2>2, <2>3, <2>4 DEF LookupInv, CalmInv
    <2> QED  BY <1>1, <2>1, <2>2, <2>5, LookupStep
  <1>5. CASE ~USM(row) /\ Goto(l, "refused")
    <2>1. UsableUSM(row) => USM(row)
      <3>1. row \in Row \cup {NULL}
        BY <1>1 DEF Rows
      <3>2. UsableUSM(row) => row \in Row /\ row.level \in Level
        BY <3>1 DEF UsableUSM, Row
      <3> HIDE DEF row
      <3> QED  BY <3>2 DEF UsableUSM, USM, Level
    <2> QED  BY <1>1, <1>2, <1>5, <2>1, Refused
  <1> QED  BY <1>4, <1>5 DEF LoadUSM

LEMMA StutterInv == ASSUME Inv, UNCHANGED vars PROVE Inv'
  <1>1. UNCHANGED <<device, profiles, bindings, key, lookup>>
    BY DEF vars
  <1>2. Rows'
    BY <1>1 DEF Inv, Rows, BindingsResolve, Bound
  <1>3. ASSUME NEW l \in Lookup PROVE LookupInv(l)'
    <2>1. LookupInv(l)
      BY DEF Inv
    <2>2. Serviceable' <=> Serviceable
      BY <1>1 DEF Serviceable, Enabled, Usable, UsableUSM, Decrypts
    <2>3. UsableUSM(profiles[lookup[l].profile])' <=> UsableUSM(profiles[lookup[l].profile])
      BY <1>1 DEF UsableUSM, Decrypts
    <2> QED  BY <1>1, <2>1, <2>2, <2>3 DEF LookupInv, CalmInv
  <1> QED  BY <1>1, <1>2, <1>3 DEF Inv

LEMMA NextInv == Inv /\ [Next]_vars => Inv'
  <1> SUFFICES ASSUME Inv, [Next]_vars PROVE Inv'
    OBVIOUS
  <1>1. CASE Edit
    <2>1. ASSUME NEW p \in Profile, DeleteBinding(p) PROVE Inv'
      <3>1. PICK t \in Transport : TRUE
        BY <2>1 DEF DeleteBinding, Bound
      <3> QED  BY <2>1, <3>1, BindingEdits
    <2> QED  BY <1>1, <2>1, DeviceEdits, ProfileEdits, BindingEdits DEF Edit
  <1>2. CASE \E l \in Lookup : Begin(l) \/ Proceed(l) \/ Leave(l)
    BY <1>2, BeginInv, LoadDeviceInv, LoadDeviceAgainInv, LoadCredentialInv, LoadUSMInv, LeaveInv
       DEF Proceed
  <1> QED  BY <1>1, <1>2, RestartInv, StutterInv DEF Next
-----------------------------------------------------------------------------
(* Theorems.                                                               *)

\* The invariant holds for any profiles, transports, requests and lookups.
THEOREM Invariance == Spec => []Inv
  BY InitInv, NextInv, PTL DEF Spec

\* Rows and lookups keep their types.
THEOREM TypeCorrect == Spec => []TypeOK
  <1>1. Inv => TypeOK
    BY DEF Inv, Rows, IsLookup, Steps, LookupInv, TypeOK
  <1> QED  BY <1>1, Invariance, PTL

\* A lookup's join finds a profile for every binding, however the deletions of
\* profiles and bindings interleave.
THEOREM BindingsHold == Spec => []BindingsResolve
  <1>1. Inv => BindingsResolve
    BY DEF Inv, Rows
  <1> QED  BY <1>1, Invariance, PTL

\* Whatever is edited between its reads, a lookup is refused for a reason.
THEOREM RefusalsHaveReasons == Spec => []RefusedForAReason
  <1>1. Inv => RefusedForAReason
    BY DEF Inv, LookupInv, CalmInv, RefusedForAReason
  <1> QED  BY <1>1, Invariance, PTL

\* A device deleted before the call is not dialled, although its bindings stay.
THEOREM DeletedStaySilent == Spec => []DeletedIsNotDialled
  <1>1. Inv => DeletedIsNotDialled
    BY DEF Inv, LookupInv, DeletedIsNotDialled
  <1> QED  BY <1>1, Invariance, PTL

\* After any sequence of requests and changes of the key, secret_key_id names
\* the key of its secret.
THEOREM KeyIdHolds == Spec => []KeyIdNamesTheKey
  <1>1. Inv => KeyIdNamesTheKey
    BY DEF Inv, Rows, Named, KeyIdNamesTheKey
  <1> QED  BY <1>1, Invariance, PTL

=============================================================================
