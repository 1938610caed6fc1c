------------------------------ MODULE Iam_proofs ------------------------------
(***************************************************************************)
(* Proofs about Iam, for any companies, requests, processes and bounds: a  *)
(* stored user has a stored company (UserHasTenant), a mailed code makes   *)
(* one company at most (OneTenantPerCode), and, while no two requests about*)
(* the same thing overlap and no save fails, maps say what rows say        *)
(* (CacheIsRow) and registrations are whole (RegistrationIsWhole).         *)
(*                                                                         *)
(* The first two follow from what an object may hold, wherever it is: in a *)
(* map, in a row, in a list that was read, or in the hands of a request.   *)
(* A user is of a stored company, and the company of a request has the     *)
(* name (the slug) that was mailed with its code.  Names are unique among  *)
(* rows, so codes are.                                                     *)
(*                                                                         *)
(* The others follow from Peace: requests that run touch different things, *)
(* so what one has read, put into a map or found to be free stays so until *)
(* it is stored; and a map that differs from the row it is about has a     *)
(* request that is about to store it.                                      *)
(***************************************************************************)
EXTENDS Iam, TLAPS

(* Members(S): users of the companies S.  Company(f, t): what company t may *)
(* be when f gives the name that was mailed with each code.                 *)
Members(S) ==
    {o \in [email : Email, pw : Password, tenant : Id, admin : BOOLEAN] : o.tenant \in S}
AnyCompany == [slug : Slug, nui : Nui, code : Nat]
Company(f, t) ==
    {c \in AnyCompany : t \in Request => c.code \in DOMAIN f /\ f[c.code] = c.slug}

RegisterCode(f) ==
    {c \in [slug : Slug, nui : Nui, code : Nat, wrong : Nat] :
        c.code \in DOMAIN f /\ f[c.code] = c.slug}
ResetCode == [user : Id, code : Nat, wrong : Nat]

Touched == SUBSET (Email \cup Slug \cup Nui \cup Id)

Registering(r, S, f) ==
    {q \in [op : {"register"}, at : {"slug", "email", "insertTenant", "insertUser"}, pod : Pod,
            email : Email, slug : Slug, nui : Nui, code : Nat, tenant : {r},
            admin : BOOLEAN, touches : Touched] :
        /\ q.code \in DOMAIN f /\ f[q.code] = q.slug
        /\ q.at = "insertUser" => r \in S}
Creating(S) ==
    [op : {"createUser"}, at : {"email", "insertUser"}, pod : Pod, email : Email,
     tenant : S, admin : BOOLEAN, touches : Touched]
Saving(S) ==
    [op : {"reset", "password"}, at : {"writeUser"}, pod : Pod, user : Id, row : Members(S),
     mailed : Email \cup {None}, touches : Touched]
Renaming(S) ==
    [op : {"profile"}, at : {"profile"}, pod : Pod, holds : Id,
     obj : {Cached} \cup [by : Request, val : Members(S)], email : Email, touches : Touched]
Renamed(S) ==
    [op : {"profile"}, at : {"writeUser"}, pod : Pod, user : Id, row : Members(S),
     touches : Touched]

Hands(f, t) == {Cached} \cup [by : Request, val : Company(f, t)]
Lists(f) ==
    {l \in [Id -> AnyCompany \cup {None}] : \A t \in Id : l[t] # None => l[t] \in Company(f, t)}
Comparing(f) ==
    {q \in [op : {"business"}, at : {"list"}, pod : Pod, holds : Id, nui : Nui,
            obj : {Cached} \cup [by : Request, val : AnyCompany],
            list : Lists(f), touches : Touched] :
        q.obj \in Hands(f, q.holds) /\ q.list[q.holds] # None}
Counting(f) ==
    {q \in [op : {"business"}, at : {"count"}, pod : Pod, holds : Id,
            obj : {Cached} \cup [by : Request, val : AnyCompany], touches : Touched] :
        q.obj \in Hands(f, q.holds)}
Changing(f) ==
    {q \in [op : {"business"}, at : {"writeTenant"}, pod : Pod, tenant : Id,
            row : AnyCompany, touches : Touched] : q.row \in Company(f, q.tenant)}

ListingUsers(S) ==
    [op : {"readUsers"}, at : {"fillUsers"}, pod : Pod, list : [Id -> Members(S) \cup {None}],
     touches : Touched]
ListingTenants(f) ==
    [op : {"readTenants"}, at : {"fillTenants"}, pod : Pod, list : Lists(f), touches : Touched]

Requests(r, S, f) ==
    {New, Done, Thrown} \cup Registering(r, S, f) \cup Creating(S) \cup Saving(S) \cup Renaming(S)
        \cup Renamed(S) \cup Comparing(f) \cup Counting(f) \cup Changing(f)
        \cup ListingUsers(S) \cup ListingTenants(f)

-----------------------------------------------------------------------------
(* The invariant.                                                           *)
UsersOK(S) ==
    /\ users \in [Pod -> [Id -> Members(S) \cup {None}]]
    /\ userRow \in [Id -> Members(S) \cup {None}]

TenantsOK(f) ==
    /\ tenants \in [Pod -> [Id -> AnyCompany \cup {None}]]
    /\ \A p \in Pod, t \in Id : tenants[p][t] # None => tenants[p][t] \in Company(f, t)
    /\ tenantRow \in Lists(f)

PendingOK(f) ==
    /\ pending \in [Pod -> [{"register", "reset"} ->
                              [Email -> RegisterCode(f) \cup ResetCode \cup {None}]]]
    /\ \A p \in Pod, e \in Email :
         /\ pending[p]["register"][e] # None => pending[p]["register"][e] \in RegisterCode(f)
         /\ pending[p]["reset"][e] # None => pending[p]["reset"][e] \in ResetCode

RequestsOK(S, f) ==
    /\ req = [r \in Request |-> req[r]]
    /\ \A r \in Request : req[r] \in Requests(r, S, f)

\* What a request holds in a map is there.
HoldsSome ==
    \A r \in Request :
        /\ req[r].at = "profile" /\ req[r].obj = Cached => users[req[r].pod][req[r].holds] # None
        /\ req[r].at \in {"list", "count"} /\ req[r].obj = Cached =>
             tenants[req[r].pod][req[r].holds] # None

\* No row has the name of the company of a request.
NamesDiffer ==
    \A t \in Request, x \in Id :
        t # x /\ tenantRow[t] # None /\ tenantRow[x] # None =>
            tenantRow[t].slug # tenantRow[x].slug

Sound(S, f) ==
    /\ codes \in Nat /\ DOMAIN f \subseteq 1 .. codes
    /\ S = Stored(tenantRow)
    /\ UsersOK(S) /\ TenantsOK(f) /\ PendingOK(f) /\ RequestsOK(S, f)
    /\ HoldsSome /\ NamesDiffer

Inv == \E S, f : Sound(S, f)

-----------------------------------------------------------------------------
(* Records are not None.                                                    *)
LEMMA SomeUser == \A S : \A o \in Members(S) : o # None
  BY DEF Members, None
LEMMA SomeCompany == \A c \in AnyCompany : c # None
  BY DEF AnyCompany, None
LEMMA SomeCode == /\ \A f : \A c \in RegisterCode(f) : c # None
                  /\ \A c \in ResetCode : c # None
  BY DEF RegisterCode, ResetCode, None

LEMMA RequestIsId == Request \subseteq Id /\ Founder \subseteq Id
  BY DEF Id

(* What a request is, by where it is.                                       *)
LEMMA ShapeAt ==
  ASSUME NEW r, NEW S, NEW f, NEW q \in Requests(r, S, f)
  PROVE  /\ q.at \in {"slug", "insertTenant"} => q \in Registering(r, S, f)
         /\ q.at \in {"email", "insertUser"} => q \in Registering(r, S, f) \cup Creating(S)
         /\ q.at = "profile" => q \in Renaming(S)
         /\ q.at = "writeUser" => q \in Saving(S) \cup Renamed(S)
         /\ q.at = "list" => q \in Comparing(f)
         /\ q.at = "count" => q \in Counting(f)
         /\ q.at = "writeTenant" => q \in Changing(f)
         /\ q.at = "fillUsers" => q \in ListingUsers(S)
         /\ q.at = "fillTenants" => q \in ListingTenants(f)
<1>1. CASE q \in {New, Done, Thrown}
  BY <1>1 DEF New, Done, Thrown
<1>2. CASE q \in Registering(r, S, f)
  BY <1>2 DEF Registering
<1>3. CASE q \in Creating(S)
  BY <1>3 DEF Creating
<1>4. CASE q \in Saving(S)
  BY <1>4 DEF Saving
<1>5. CASE q \in Renaming(S)
  BY <1>5 DEF Renaming
<1>6. CASE q \in Renamed(S)
  BY <1>6 DEF Renamed
<1>7. CASE q \in Comparing(f)
  BY <1>7 DEF Comparing
<1>8. CASE q \in Counting(f)
  BY <1>8 DEF Counting
<1>9. CASE q \in Changing(f)
  BY <1>9 DEF Changing
<1>10. CASE q \in ListingUsers(S)
  BY <1>10 DEF ListingUsers
<1>11. CASE q \in ListingTenants(f)
  BY <1>11 DEF ListingTenants
<1> QED
  BY <1>1, <1>2, <1>3, <1>4, <1>5, <1>6, <1>7, <1>8, <1>9, <1>10, <1>11 DEF Requests

\* Who holds an object of a map.
LEMMA ShapeHeld ==
  ASSUME NEW r, NEW S, NEW f, NEW q \in Requests(r, S, f), "obj" \in DOMAIN q
  PROVE  /\ q.op = "profile" => q \in Renaming(S)
         /\ q.op = "business" => q \in Comparing(f) \cup Counting(f)
         /\ q.op \in {"profile", "business"}
<1>1. q \notin {New, Done, Thrown}
  BY DEF New, Done, Thrown
<1>2. q \notin Registering(r, S, f)
  BY DEF Registering
<1>3. q \notin Creating(S)
  BY DEF Creating
<1>4. q \notin Saving(S) /\ q \notin Renamed(S)
  BY DEF Saving, Renamed
<1>5. q \notin Changing(f)
  BY DEF Changing
<1>6. q \notin ListingUsers(S) /\ q \notin ListingTenants(f)
  BY DEF ListingUsers, ListingTenants
<1>7. q \in Renaming(S) \cup Comparing(f) \cup Counting(f)
  BY <1>1, <1>2, <1>3, <1>4, <1>5, <1>6 DEF Requests
<1> QED
  BY <1>7 DEF Renaming, Comparing, Counting

\* More companies, and more codes, allow more.
LEMMA Wider ==
  ASSUME NEW S, NEW S2, S \subseteq S2, NEW f, NEW g,
         DOMAIN f \subseteq DOMAIN g, \A c \in DOMAIN f : g[c] = f[c]
  PROVE  /\ Members(S) \subseteq Members(S2)
         /\ \A t : Company(f, t) \subseteq Company(g, t)
         /\ RegisterCode(f) \subseteq RegisterCode(g)
         /\ Lists(f) \subseteq Lists(g)
         /\ \A r : Requests(r, S, f) \subseteq Requests(r, S2, g)
<1>1. Members(S) \subseteq Members(S2)
  BY DEF Members
<1>2. \A t : Company(f, t) \subseteq Company(g, t)
  BY DEF Company
<1>3. RegisterCode(f) \subseteq RegisterCode(g)
  BY DEF RegisterCode
<1>4. Lists(f) \subseteq Lists(g)
  BY <1>2 DEF Lists
<1>5. \A r : Registering(r, S, f) \subseteq Registering(r, S2, g)
  BY DEF Registering
<1>6. Creating(S) \subseteq Creating(S2)
  BY DEF Creating
<1>7. Saving(S) \subseteq Saving(S2) /\ Renamed(S) \subseteq Renamed(S2)
  BY <1>1 DEF Saving, Renamed
<1>8. Renaming(S) \subseteq Renaming(S2)
  BY <1>1 DEF Renaming
<1>9. \A t : Hands(f, t) \subseteq Hands(g, t)
  BY <1>2 DEF Hands
<1>10. Comparing(f) \subseteq Comparing(g)
  BY <1>4, <1>9 DEF Comparing
<1>11. Counting(f) \subseteq Counting(g)
  BY <1>9 DEF Counting
<1>12. Changing(f) \subseteq Changing(g)
  BY <1>2 DEF Changing
<1>13. ListingUsers(S) \subseteq ListingUsers(S2)
  <2> SUFFICES ASSUME NEW q \in ListingUsers(S) PROVE q \in ListingUsers(S2)
    OBVIOUS
  <2>1. q.list \in [Id -> Members(S) \cup {None}]
    BY DEF ListingUsers
  <2>2. q.list \in [Id -> Members(S2) \cup {None}]
    BY <2>1, <1>1
  <2> QED BY <2>2 DEF ListingUsers
<1>14. ListingTenants(f) \subseteq ListingTenants(g)
  BY <1>4 DEF ListingTenants
<1>15. \A r : Requests(r, S, f) \subseteq Requests(r, S2, g)
  BY <1>5, <1>6, <1>7, <1>8, <1>10, <1>11, <1>12, <1>13, <1>14 DEF Requests
<1> QED BY <1>1, <1>2, <1>3, <1>4, <1>15

Typed(S, f) == UsersOK(S) /\ TenantsOK(f) /\ PendingOK(f) /\ RequestsOK(S, f)

LEMMA TypedWider ==
  ASSUME NEW S, NEW S2, S \subseteq S2, NEW f, NEW g,
         DOMAIN f \subseteq DOMAIN g, \A c \in DOMAIN f : g[c] = f[c], Typed(S, f)
  PROVE  Typed(S2, g)
<1>1. /\ Members(S) \subseteq Members(S2)
      /\ \A t : Company(f, t) \subseteq Company(g, t)
      /\ RegisterCode(f) \subseteq RegisterCode(g)
      /\ Lists(f) \subseteq Lists(g)
      /\ \A r : Requests(r, S, f) \subseteq Requests(r, S2, g)
  BY Wider
<1>2. UsersOK(S2)
  BY <1>1 DEF Typed, UsersOK
<1>3. TenantsOK(g)
  BY <1>1 DEF Typed, TenantsOK
<1>4. PendingOK(g)
  BY <1>1 DEF Typed, PendingOK
<1>5. RequestsOK(S2, g)
  BY <1>1 DEF Typed, RequestsOK
<1> QED BY <1>2, <1>3, <1>4, <1>5 DEF Typed

-----------------------------------------------------------------------------
(* What the parts of the actions do.                                        *)
LEMMA UserAtOK ==
  ASSUME NEW S, UsersOK(S), NEW p \in Pod, NEW u \in Id
  PROVE  UserAt(p, u) \in Members(S) \cup {None}
  BY DEF UsersOK, UserAt

LEMMA TenantAtOK ==
  ASSUME NEW f, TenantsOK(f), NEW p \in Pod, NEW t \in Id, TenantAt(p, t) # None
  PROVE  TenantAt(p, t) \in Company(f, t)
  BY DEF TenantsOK, TenantAt, Lists

\* Maps that only change so hold what they held.
MapsGrow ==
    /\ \A p \in Pod, i \in Id : users[p][i] # None => users'[p][i] # None
    /\ \A p \in Pod, i \in Id : tenants[p][i] # None => tenants'[p][i] # None

LEMMA CacheUsersOK ==
  ASSUME NEW S, UsersOK(S), NEW p \in Pod, NEW us, CacheUsers(p, us), UNCHANGED userRow
  PROVE  /\ UsersOK(S)'
         /\ \A x \in Pod, i \in Id : users[x][i] # None => users'[x][i] # None
         /\ \A i \in Id : i \in us => users'[p][i] = UserAt(p, i)
<1>1. \A i \in Id : UserAt(p, i) \in Members(S) \cup {None}
  BY UserAtOK
<1>2. users' = [users EXCEPT ![p] = [u \in Id |-> IF u \in us THEN UserAt(p, u) ELSE users[p][u]]]
  BY DEF CacheUsers, UsersOK
<1>3. users' \in [Pod -> [Id -> Members(S) \cup {None}]]
  BY <1>1, <1>2 DEF UsersOK
<1> QED
  BY <1>2, <1>3 DEF UsersOK, UserAt

LEMMA CacheTenantsOK ==
  ASSUME NEW f, TenantsOK(f), NEW p \in Pod, NEW ts, CacheTenants(p, ts), UNCHANGED tenantRow
  PROVE  /\ TenantsOK(f)'
         /\ \A x \in Pod, i \in Id : tenants[x][i] # None => tenants'[x][i] # None
         /\ \A i \in Id : i \in ts => tenants'[p][i] = TenantAt(p, i)
<1>1. \A i \in Id : TenantAt(p, i) # None => TenantAt(p, i) \in Company(f, i)
  BY TenantAtOK
<1>2. tenants' = [tenants EXCEPT ![p] =
                    [t \in Id |-> IF t \in ts THEN TenantAt(p, t) ELSE tenants[p][t]]]
  BY DEF CacheTenants, TenantsOK
<1>3. \A i \in Id : TenantAt(p, i) \in AnyCompany \cup {None}
  BY <1>1 DEF Company
<1>4. tenants' \in [Pod -> [Id -> AnyCompany \cup {None}]]
  BY <1>2, <1>3 DEF TenantsOK
<1>5. \A x \in Pod, t \in Id : tenants'[x][t] # None => tenants'[x][t] \in Company(f, t)
  BY <1>1, <1>2 DEF TenantsOK
<1> QED
  BY <1>2, <1>4, <1>5 DEF TenantsOK, TenantAt

\* Request r goes on as q, and the others stay.
Moves(r, q) == req' = [req EXCEPT ![r] = q]

LEMMA MovesOK ==
  ASSUME NEW S, NEW f, RequestsOK(S, f), NEW r \in Request, NEW q \in Requests(r, S, f),
         Moves(r, q)
  PROVE  RequestsOK(S, f)' /\ req'[r] = q /\ \A x \in Request \ {r} : req'[x] = req[x]
  BY DEF RequestsOK, Moves

\* The maps keep what the others hold, and r holds nothing or what is there.
LEMMA StillHolds ==
  ASSUME HoldsSome, NEW S, NEW f, RequestsOK(S, f), MapsGrow, NEW r \in Request,
         \A x \in Request \ {r} : req'[x] = req[x],
         req'[r].at = "profile" /\ req'[r].obj = Cached =>
             users'[req'[r].pod][req'[r].holds] # None,
         req'[r].at \in {"list", "count"} /\ req'[r].obj = Cached =>
             tenants'[req'[r].pod][req'[r].holds] # None
  PROVE  HoldsSome'
<1> SUFFICES ASSUME NEW x \in Request \ {r}
             PROVE  /\ req[x].at = "profile" /\ req[x].obj = Cached =>
                         users'[req[x].pod][req[x].holds] # None
                    /\ req[x].at \in {"list", "count"} /\ req[x].obj = Cached =>
                         tenants'[req[x].pod][req[x].holds] # None
  BY DEF HoldsSome
<1>1. req[x] \in Requests(x, S, f)
  BY DEF RequestsOK
<1>2. ASSUME req[x].at = "profile" PROVE req[x].pod \in Pod /\ req[x].holds \in Id
  BY <1>1, <1>2, ShapeAt DEF Renaming
<1>3. ASSUME req[x].at \in {"list", "count"} PROVE req[x].pod \in Pod /\ req[x].holds \in Id
  BY <1>1, <1>3, ShapeAt DEF Comparing, Counting
<1> QED
  BY <1>2, <1>3 DEF HoldsSome, MapsGrow

LEMMA SoundTyped ==
  ASSUME NEW S, NEW f, Sound(S, f)
  PROVE  Typed(S, f)
  BY DEF Sound, Typed

\* A step that stores no tenant and mails no code of a registration.
LEMMA SameRows ==
  ASSUME NEW S, NEW f, Sound(S, f), Typed(S, f)', HoldsSome', UNCHANGED <<tenantRow, codes>>
  PROVE  Sound(S, f)'
  BY DEF Sound, Typed, NamesDiffer, Stored

\* The same when one request moves and the maps grow.
LEMMA OneMoves ==
  ASSUME NEW S, NEW f, Sound(S, f), NEW r \in Request, NEW q \in Requests(r, S, f), Moves(r, q),
         MapsGrow, UsersOK(S)', TenantsOK(f)', PendingOK(f)', UNCHANGED <<tenantRow, codes>>,
         q.at = "profile" /\ q.obj = Cached => users'[q.pod][q.holds] # None,
         q.at \in {"list", "count"} /\ q.obj = Cached => tenants'[q.pod][q.holds] # None
  PROVE  Sound(S, f)'
<1>1. RequestsOK(S, f) /\ HoldsSome
  BY DEF Sound
<1>2. RequestsOK(S, f)' /\ req'[r] = q /\ \A x \in Request \ {r} : req'[x] = req[x]
  BY <1>1, MovesOK
<1>3. HoldsSome'
  BY <1>1, <1>2, StillHolds
<1> QED
  BY <1>2, <1>3, SameRows DEF Typed

\* The other variables stay when they are unchanged.
LEMMA Unchanged ==
  ASSUME NEW S, NEW f, Sound(S, f)
  PROVE  /\ UNCHANGED <<users, userRow>> => UsersOK(S)'
         /\ UNCHANGED <<tenants, tenantRow>> => TenantsOK(f)'
         /\ UNCHANGED pending => PendingOK(f)'
         /\ UNCHANGED maps => MapsGrow
         /\ UNCHANGED req /\ MapsGrow => RequestsOK(S, f)' /\ HoldsSome'
<1>1. UNCHANGED <<users, userRow>> => UsersOK(S)'
  BY DEF Sound, UsersOK
<1>2. UNCHANGED <<tenants, tenantRow>> => TenantsOK(f)'
  BY DEF Sound, TenantsOK
<1>3. UNCHANGED pending => PendingOK(f)'
  BY DEF Sound, PendingOK
<1>4. UNCHANGED maps => MapsGrow
  BY DEF maps, MapsGrow
<1>5. ASSUME UNCHANGED req, MapsGrow PROVE RequestsOK(S, f)' /\ HoldsSome'
  <2>1. RequestsOK(S, f)'
    BY <1>5 DEF Sound, RequestsOK
  <2>2. ASSUME NEW x \in Request, req[x].at = "profile" PROVE req[x].pod \in Pod /\ req[x].holds \in Id
    BY <2>2, ShapeAt DEF Sound, RequestsOK, Renaming
  <2>3. ASSUME NEW x \in Request, req[x].at \in {"list", "count"}
        PROVE  req[x].pod \in Pod /\ req[x].holds \in Id
    BY <2>3, ShapeAt DEF Sound, RequestsOK, Comparing, Counting
  <2>4. HoldsSome'
    BY <1>5, <2>2, <2>3 DEF Sound, HoldsSome, MapsGrow
  <2> QED BY <2>1, <2>4
<1> QED BY <1>1, <1>2, <1>3, <1>4, <1>5

LEMMA StepMailing ==
  ASSUME NEW S, NEW f, Sound(S, f), NEW p \in Pod, NEW e \in Email, NEW s \in Slug, NEW n \in Nui,
         RequestRegistrationCode(p, e, s, n)
  PROVE  \E g : Sound(S, g)'
<1>1. codes \in Nat /\ codes' = codes + 1 /\ DOMAIN f \subseteq 1 .. codes
  BY DEF Sound, RequestRegistrationCode
<1>2. PICK g : g = [c \in DOMAIN f \cup {codes + 1} |-> IF c = codes + 1 THEN s ELSE f[c]]
  OBVIOUS
<1>3. DOMAIN f \subseteq DOMAIN g /\ \A c \in DOMAIN f : g[c] = f[c]
  BY <1>1, <1>2
<1>4. codes + 1 \in DOMAIN g /\ g[codes + 1] = s /\ DOMAIN g \subseteq 1 .. codes'
  BY <1>1, <1>2
<1>5. UsersOK(S) /\ TenantsOK(g) /\ PendingOK(g) /\ RequestsOK(S, g)
  BY <1>3, TypedWider, SoundTyped DEF Typed
<1>6. UNCHANGED <<userRow, tenantRow, req>>
  BY DEF RequestRegistrationCode, tables
<1>7. UsersOK(S)' /\ TenantsOK(g)' /\ MapsGrow /\ PendingOK(g)'
  <2>1. CASE CacheTenants(p, BySlug(p, s)) /\ UNCHANGED <<users, pending>>
    <3>1. TenantsOK(g)' /\ \A x \in Pod, i \in Id : tenants[x][i] # None => tenants'[x][i] # None
      BY <2>1, <1>5, <1>6, CacheTenantsOK
    <3> QED BY <2>1, <1>5, <1>6, <3>1 DEF MapsGrow, UsersOK, PendingOK
  <2>2. CASE CacheUsers(p, ByEmail(p, e)) /\ UNCHANGED <<tenants, pending>>
    <3>1. UsersOK(S)' /\ \A x \in Pod, i \in Id : users[x][i] # None => users'[x][i] # None
      BY <2>2, <1>5, <1>6, CacheUsersOK
    <3> QED BY <2>2, <1>5, <1>6, <3>1 DEF MapsGrow, TenantsOK, PendingOK
  <2>3. CASE /\ pending' = [pending EXCEPT ![p]["register"][e] =
                              [slug |-> s, nui |-> n, code |-> codes + 1, wrong |-> 0]]
             /\ UNCHANGED maps
    <3>1. [slug |-> s, nui |-> n, code |-> codes + 1, wrong |-> 0] \in RegisterCode(g)
      BY <1>1, <1>4 DEF RegisterCode
    <3>2. PendingOK(g)'
      BY <2>3, <3>1, <1>5 DEF PendingOK
    <3> QED BY <2>3, <1>5, <1>6, <3>2 DEF MapsGrow, UsersOK, TenantsOK, maps
  <2> QED BY <2>1, <2>2, <2>3 DEF RequestRegistrationCode
<1>8. HoldsSome' /\ RequestsOK(S, g)'
  <2>1. HoldsSome'
    BY <1>6, <1>7, Unchanged
  <2> QED BY <2>1, <1>5, <1>6 DEF RequestsOK
<1>9. Sound(S, g)'
  BY <1>1, <1>4, <1>6, <1>7, <1>8 DEF Sound, NamesDiffer, Stored
<1> QED BY <1>9

LEMMA StepResetCode ==
  ASSUME NEW S, NEW f, Sound(S, f), NEW p \in Pod, NEW e \in Email,
         RequestPasswordResetCode(p, e)
  PROVE  Sound(S, f)'
<1>1. PICK u \in ByEmail(p, e) :
        /\ pending' = [pending EXCEPT ![p]["reset"][e] =
                         [user |-> u, code |-> codes + 1, wrong |-> 0]]
        /\ CacheUsers(p, {u})
  BY DEF RequestPasswordResetCode
<1>2. u \in Id /\ codes \in Nat /\ codes' = codes + 1
  BY DEF ByEmail, Lookup, Holders, Sound, RequestPasswordResetCode
<1>3. UNCHANGED <<tenants, userRow, tenantRow, req>>
  BY DEF RequestPasswordResetCode, tables
<1>4. UsersOK(S)' /\ MapsGrow
  BY <1>1, <1>3, CacheUsersOK DEF Sound, MapsGrow
<1>5. [user |-> u, code |-> codes + 1, wrong |-> 0] \in ResetCode
  BY <1>2 DEF ResetCode
<1>6. PendingOK(f)'
  BY <1>1, <1>5 DEF Sound, PendingOK
<1>7. TenantsOK(f)' /\ RequestsOK(S, f)' /\ HoldsSome'
  BY <1>3, <1>4, Unchanged
<1>8. codes' \in Nat /\ DOMAIN f \subseteq 1 .. codes'
  BY <1>2 DEF Sound
<1> QED
  BY <1>3, <1>4, <1>6, <1>7, <1>8 DEF Sound, NamesDiffer, Stored

LEMMA StepWrong ==
  ASSUME NEW S, NEW f, Sound(S, f), NEW p \in Pod, NEW k \in {"register", "reset"},
         NEW e \in Email, TryWrongCode(p, k, e)
  PROVE  Sound(S, f)'
<1>1. UNCHANGED <<users, tenants, userRow, tenantRow, req, codes>>
  BY DEF TryWrongCode, maps, tables, bounds
<1>2. PendingOK(f)'
  <2>1. CASE pending' = [pending EXCEPT ![p][k][e].wrong = @ + 1]
    <3>1. PICK c : c = pending[p][k][e]
      OBVIOUS
    <3>2. c # None /\ (k = "register" => c \in RegisterCode(f)) /\ (k = "reset" => c \in ResetCode)
      BY <3>1 DEF TryWrongCode, Sound, PendingOK
    <3>3. PICK d : d = [c EXCEPT !.wrong = @ + 1]
      OBVIOUS
    <3>4. k = "register" => d \in RegisterCode(f)
      BY <3>2, <3>3 DEF RegisterCode
    <3>5. k = "reset" => d \in ResetCode
      BY <3>2, <3>3 DEF ResetCode
    <3>6. pending' = [pending EXCEPT ![p][k][e] = d]
      BY <2>1, <3>1, <3>3
    <3> QED BY <3>4, <3>5, <3>6 DEF Sound, PendingOK
  <2>2. CASE pending' = [pending EXCEPT ![p][k][e] = None]
    BY <2>2 DEF Sound, PendingOK
  <2> QED BY <2>1, <2>2 DEF TryWrongCode
<1>3. MapsGrow /\ UsersOK(S)' /\ TenantsOK(f)'
  BY <1>1, Unchanged DEF maps
<1>4. RequestsOK(S, f)' /\ HoldsSome'
  BY <1>1, <1>3, Unchanged
<1> QED
  BY <1>1, <1>2, <1>3, <1>4, SameRows DEF Typed

LEMMA FoundAreIds ==
  /\ \A p, e : ByEmail(p, e) \subseteq Id
  /\ \A p, s : BySlug(p, s) \subseteq Id
  BY DEF ByEmail, BySlug, Lookup, Holders

LEMMA StepLogin ==
  ASSUME NEW S, NEW f, Sound(S, f), NEW p \in Pod, NEW e \in Email, NEW pw \in Password,
         Login(p, e, pw)
  PROVE  Sound(S, f)'
<1>1. UNCHANGED <<userRow, tenantRow, req, pending, codes>>
  BY DEF Login, tables, bounds
<1>2. PICK u \in ByEmail(p, e) :
        /\ CacheUsers(p, {u})
        /\ CacheTenants(p, {UserAt(p, u).tenant}) \/ UNCHANGED tenants
  BY DEF Login
<1>3. UsersOK(S)' /\ \A x \in Pod, i \in Id : users[x][i] # None => users'[x][i] # None
  BY <1>1, <1>2, CacheUsersOK DEF Sound
<1>4. TenantsOK(f)' /\ \A x \in Pod, i \in Id : tenants[x][i] # None => tenants'[x][i] # None
  <2>1. CASE CacheTenants(p, {UserAt(p, u).tenant})
    BY <2>1, <1>1, CacheTenantsOK DEF Sound
  <2>2. CASE UNCHANGED tenants
    BY <2>2, <1>1 DEF Sound, TenantsOK
  <2> QED BY <1>2, <2>1, <2>2
<1>5. MapsGrow
  BY <1>3, <1>4 DEF MapsGrow
<1>6. RequestsOK(S, f)' /\ HoldsSome' /\ PendingOK(f)'
  BY <1>1, <1>5, Unchanged
<1> QED
  BY <1>1, <1>3, <1>4, <1>6, SameRows DEF Typed

LEMMA StepRestart ==
  ASSUME NEW S, NEW f, Sound(S, f), NEW p \in Pod, Restart(p)
  PROVE  Sound(S, f)'
<1>1. UNCHANGED <<userRow, tenantRow, codes>>
  BY DEF Restart, tables
<1>2. UsersOK(S)'
  BY <1>1 DEF Restart, Sound, UsersOK
<1>3. TenantsOK(f)'
  BY <1>1 DEF Restart, Sound, TenantsOK
<1>4. PendingOK(f)'
  <2>1. NoCodes \in [{"register", "reset"} ->
                       [Email -> RegisterCode(f) \cup ResetCode \cup {None}]]
    BY DEF NoCodes
  <2>2. pending' = [pending EXCEPT ![p] = NoCodes]
    BY DEF Restart
  <2>3. \A e \in Email : NoCodes["register"][e] = None /\ NoCodes["reset"][e] = None
    BY DEF NoCodes
  <2> HIDE DEF NoCodes
  <2> QED BY <2>1, <2>2, <2>3 DEF Sound, PendingOK
<1>5. RequestsOK(S, f)'
  BY DEF Restart, Sound, RequestsOK, Requests
<1>6. HoldsSome'
  <2> SUFFICES ASSUME NEW x \in Request
               PROVE  /\ req'[x].at = "profile" /\ req'[x].obj = Cached =>
                            users'[req'[x].pod][req'[x].holds] # None
                      /\ req'[x].at \in {"list", "count"} /\ req'[x].obj = Cached =>
                            tenants'[req'[x].pod][req'[x].holds] # None
    BY DEF HoldsSome
  <2>1. req'[x] = IF Running(x) /\ req[x].pod = p THEN Done ELSE req[x]
    BY DEF Restart
  <2>2. CASE Running(x) /\ req[x].pod = p
    BY <2>1, <2>2 DEF Done
  <2>3. CASE ~(Running(x) /\ req[x].pod = p)
    <3>1. req'[x] = req[x]
      BY <2>1, <2>3
    <3>2. req[x].at \in {"profile", "list", "count"} => Running(x) /\ req[x].pod # p
      BY <2>3 DEF Running
    <3>3. req[x].at = "profile" => req[x].pod \in Pod
      BY ShapeAt DEF Sound, RequestsOK, Renaming
    <3>4. req[x].at \in {"list", "count"} => req[x].pod \in Pod
      BY ShapeAt DEF Sound, RequestsOK, Comparing, Counting
    <3>5. \A y \in Pod \ {p} : users'[y] = users[y] /\ tenants'[y] = tenants[y]
      BY DEF Restart, Sound, UsersOK, TenantsOK
    <3> QED BY <3>1, <3>2, <3>3, <3>4, <3>5 DEF Sound, HoldsSome
  <2> QED BY <2>2, <2>3
<1> QED
  BY <1>1, <1>2, <1>3, <1>4, <1>5, <1>6, SameRows DEF Typed

-----------------------------------------------------------------------------
(* A request begins.                                                        *)
LEMMA StepVerify ==
  ASSUME NEW S, NEW f, Sound(S, f), NEW r \in Request, NEW p \in Pod, NEW e \in Email,
         VerifyRegistrationCode(r, p, e)
  PROVE  Sound(S, f)'
<1>1. PICK c : c = pending[p]["register"][e]
  OBVIOUS
<1>2. c \in RegisterCode(f)
  BY <1>1 DEF VerifyRegistrationCode, Accepts, Sound, PendingOK
<1>3. PICK q : q = [op |-> "register", at |-> "slug", pod |-> p, email |-> e,
                    slug |-> c.slug, nui |-> c.nui, code |-> c.code,
                    tenant |-> r, admin |-> TRUE, touches |-> {r, e, c.slug, c.nui}]
  OBVIOUS
<1>4. q \in Registering(r, S, f)
  BY <1>2, <1>3, RequestIsId DEF Registering, RegisterCode, Touched
<1>5. q \in Requests(r, S, f) /\ q.at = "slug"
  BY <1>3, <1>4 DEF Requests
<1>6. Moves(r, q) /\ UNCHANGED <<users, tenants, userRow, tenantRow, pending, codes>>
  BY <1>1, <1>3 DEF VerifyRegistrationCode, Begin, Moves, maps, tables, bounds
<1>7. MapsGrow /\ UsersOK(S)' /\ TenantsOK(f)' /\ PendingOK(f)'
  BY <1>6, Unchanged DEF maps
<1> QED
  BY <1>5, <1>6, <1>7, OneMoves

LEMMA StepCreate ==
  ASSUME NEW S, NEW f, Sound(S, f), NEW r \in Request, NEW p \in Pod, NEW u \in Id,
         NEW e \in Email, NEW admin \in BOOLEAN, CreateUser(r, p, u, e, admin)
  PROVE  Sound(S, f)'
<1>1. PICK q : q = [op |-> "createUser", at |-> "email", pod |-> p, email |-> e,
                    tenant |-> UserAt(p, u).tenant, admin |-> admin, touches |-> {r, e, u}]
  OBVIOUS
<1>2. UserAt(p, u) \in Members(S)
  BY UserAtOK DEF CreateUser, SignedIn, Sound
<1>3. q \in Creating(S)
  BY <1>1, <1>2, RequestIsId DEF Creating, Members, Touched
<1>4. q \in Requests(r, S, f) /\ q.at = "email"
  BY <1>1, <1>3 DEF Requests
<1>5. /\ Moves(r, q) /\ CacheUsers(p, {u})
      /\ UNCHANGED <<tenants, userRow, tenantRow, pending, codes>>
  BY <1>1 DEF CreateUser, Begin, Moves, tables, bounds
<1>6. UsersOK(S)' /\ MapsGrow
  BY <1>5, CacheUsersOK DEF Sound, MapsGrow
<1>7. TenantsOK(f)' /\ PendingOK(f)'
  BY <1>5, Unchanged
<1> QED
  BY <1>4, <1>5, <1>6, <1>7, OneMoves

LEMMA StepSave ==
  ASSUME NEW S, NEW f, Sound(S, f), NEW r \in Request, NEW p \in Pod, NEW u \in Id,
         NEW object \in Members(S), NEW op \in {"reset", "password"},
         NEW mailed \in Email \cup {None}, SaveUser(r, p, u, object, op, mailed)
  PROVE  Sound(S, f)'
<1>1. PICK q : q = [op |-> op, at |-> "writeUser", pod |-> p, user |-> u, row |-> object,
                    mailed |-> mailed, touches |-> {u, object.email}]
  OBVIOUS
<1>2. q \in Saving(S)
  BY <1>1 DEF Saving, Members, Touched
<1>3. q \in Requests(r, S, f) /\ q.at = "writeUser"
  BY <1>1, <1>2 DEF Requests
<1>4. /\ Moves(r, q) /\ users' = [users EXCEPT ![p][u] = object]
      /\ UNCHANGED <<tenants, userRow, tenantRow, pending, codes>>
  BY <1>1 DEF SaveUser, Begin, Moves, tables, bounds
<1>5. object # None
  BY SomeUser
<1>6. UsersOK(S)' /\ MapsGrow
  BY <1>4, <1>5 DEF Sound, UsersOK, MapsGrow
<1>7. TenantsOK(f)' /\ PendingOK(f)'
  BY <1>4, Unchanged
<1> QED
  BY <1>3, <1>4, <1>6, <1>7, OneMoves

LEMMA StepPassword ==
  ASSUME NEW S, NEW f, Sound(S, f), NEW r \in Request, NEW p \in Pod, NEW pw \in Password
  PROVE  /\ \A e \in Email : VerifyPasswordResetCode(r, p, e, pw) => Sound(S, f)'
         /\ \A u \in Id, current \in Password : ChangePassword(r, p, u, current, pw) => Sound(S, f)'
<1>1. ASSUME NEW u \in Id, UserAt(p, u) # None
      PROVE  SetPassword(UserAt(p, u), pw) \in Members(S)
  BY <1>1, UserAtOK DEF SetPassword, Members, Sound
<1>2. ASSUME NEW e \in Email, VerifyPasswordResetCode(r, p, e, pw)
      PROVE  Sound(S, f)'
  <2>1. PICK u : u = pending[p]["reset"][e].user
    OBVIOUS
  <2>2. u \in Id
    BY <1>2, <2>1 DEF VerifyPasswordResetCode, Accepts, Sound, PendingOK, ResetCode
  <2>3. UserAt(p, u) # None /\ SaveUser(r, p, u, SetPassword(UserAt(p, u), pw), "reset", e)
    BY <1>2, <2>1 DEF VerifyPasswordResetCode
  <2>4. SetPassword(UserAt(p, u), pw) \in Members(S)
    BY <1>1, <2>2, <2>3
  <2> QED BY <2>2, <2>3, <2>4, StepSave
<1>3. ASSUME NEW u \in Id, NEW current \in Password, ChangePassword(r, p, u, current, pw)
      PROVE  Sound(S, f)'
  <2>1. UserAt(p, u) # None /\ SaveUser(r, p, u, SetPassword(UserAt(p, u), pw), "password", None)
    BY <1>3 DEF ChangePassword, SignedIn
  <2>2. SetPassword(UserAt(p, u), pw) \in Members(S)
    BY <1>1, <2>1
  <2> QED BY <2>1, <2>2, StepSave
<1> QED BY <1>2, <1>3

LEMMA StepProfile ==
  ASSUME NEW S, NEW f, Sound(S, f), NEW r \in Request, NEW p \in Pod, NEW u \in Id,
         NEW e \in Email, UpdateMyProfile(r, p, u, e)
  PROVE  Sound(S, f)'
<1>1. PICK q : q = [op |-> "profile", at |-> "profile", pod |-> p, holds |-> u,
                    obj |-> Cached, email |-> e, touches |-> {u, e}]
  OBVIOUS
<1>2. q \in Renaming(S)
  BY <1>1 DEF Renaming, Touched
<1>3. q \in Requests(r, S, f) /\ q.at = "profile" /\ q.pod = p /\ q.holds = u
  BY <1>1, <1>2 DEF Requests
<1>4. /\ Moves(r, q) /\ CacheUsers(p, {u}) /\ UserAt(p, u) # None
      /\ UNCHANGED <<tenants, userRow, tenantRow, pending, codes>>
  BY <1>1 DEF UpdateMyProfile, SignedIn, Begin, Moves, tables, bounds
<1>5. UsersOK(S)' /\ MapsGrow /\ users'[p][u] # None
  BY <1>4, CacheUsersOK DEF Sound, MapsGrow
<1>6. TenantsOK(f)' /\ PendingOK(f)'
  BY <1>4, Unchanged
<1> QED
  BY <1>3, <1>4, <1>5, <1>6, OneMoves

LEMMA StepBusiness ==
  ASSUME NEW S, NEW f, Sound(S, f), NEW r \in Request, NEW p \in Pod, NEW u \in Id,
         NEW n \in Nui, UpdateBusinessProfile(r, p, u, n)
  PROVE  Sound(S, f)'
<1>1. PICK t : t = UserAt(p, u).tenant
  OBVIOUS
<1>2. t \in Id /\ t \in S /\ tenantRow[t] # None
  <2>1. UserAt(p, u) \in Members(S)
    BY UserAtOK DEF UpdateBusinessProfile, SignedIn, Sound
  <2> QED BY <1>1, <2>1 DEF Members, Sound, Stored
<1>3. PICK q \in Requests(r, S, f) :
        /\ Moves(r, q) /\ q.at \in {"list", "count"} /\ q.pod = p /\ q.holds = t
  <2>1. Cached \in Hands(f, t) /\ Cached \in {Cached} \cup [by : Request, val : AnyCompany]
    BY DEF Hands
  <2>2. Stored(tenantRow) \subseteq Id
    BY DEF Stored
  <2>3. CASE Begin(r, [op |-> "business", at |-> "list", pod |-> p, holds |-> t, nui |-> n,
                       obj |-> Cached, list |-> tenantRow, touches |-> {n} \cup Stored(tenantRow)])
    <3>1. PICK q : q = [op |-> "business", at |-> "list", pod |-> p, holds |-> t, nui |-> n,
                        obj |-> Cached, list |-> tenantRow,
                        touches |-> {n} \cup Stored(tenantRow)]
      OBVIOUS
    <3>2. tenantRow \in Lists(f)
      BY DEF Sound, TenantsOK
    <3>3. q \in Comparing(f)
      BY <1>2, <2>1, <2>2, <3>1, <3>2 DEF Comparing, Touched
    <3>4. q \in Requests(r, S, f)
      BY <3>3 DEF Requests
    <3>5. Moves(r, q) /\ q.at \in {"list", "count"} /\ q.pod = p /\ q.holds = t
      BY <2>3, <3>1 DEF Begin, Moves
    <3> QED BY <3>4, <3>5
  <2>4. CASE Begin(r, [op |-> "business", at |-> "count", pod |-> p, holds |-> t,
                       obj |-> Cached, touches |-> {t}])
    <3>1. PICK q : q = [op |-> "business", at |-> "count", pod |-> p, holds |-> t,
                        obj |-> Cached, touches |-> {t}]
      OBVIOUS
    <3>2. q \in Counting(f)
      BY <1>2, <2>1, <3>1 DEF Counting, Touched
    <3>3. q \in Requests(r, S, f)
      BY <3>2 DEF Requests
    <3>4. Moves(r, q) /\ q.at \in {"list", "count"} /\ q.pod = p /\ q.holds = t
      BY <2>4, <3>1 DEF Begin, Moves
    <3> QED BY <3>3, <3>4
  <2> QED BY <1>1, <2>3, <2>4 DEF UpdateBusinessProfile
<1>4. /\ CacheUsers(p, {u}) /\ CacheTenants(p, {t}) /\ TenantAt(p, t) # None
      /\ UNCHANGED <<userRow, tenantRow, pending, codes>>
  BY <1>1 DEF UpdateBusinessProfile, tables, bounds
<1>5. UsersOK(S)' /\ \A x \in Pod, j \in Id : users[x][j] # None => users'[x][j] # None
  BY <1>4, CacheUsersOK DEF Sound
<1>6. /\ TenantsOK(f)' /\ \A x \in Pod, j \in Id : tenants[x][j] # None => tenants'[x][j] # None
      /\ tenants'[p][t] # None
  BY <1>2, <1>4, CacheTenantsOK DEF Sound
<1>7. MapsGrow /\ PendingOK(f)'
  BY <1>4, <1>5, <1>6, Unchanged DEF MapsGrow
<1> QED
  BY <1>3, <1>4, <1>5, <1>6, <1>7, OneMoves

Reads(r, p, u) ==
    ListUsers(r, p, u) \/ FindUser(r, p, u) \/ FindTenant(r, p, u) \/ ListTenants(r, p)

LEMMA ReadsRows ==
  ASSUME NEW r, NEW p, NEW u, Reads(r, p, u)
  PROVE  \E us : ReadUsers(r, p, us) \/ ReadTenants(r, p, us)
  BY DEF Reads, ListUsers, ListTenants, FindUser, FindTenant

\* A read of rows, be it a list or a lookup.
LEMMA StepReads ==
  ASSUME NEW S, NEW f, Sound(S, f), NEW r \in Request, NEW p \in Pod, NEW us,
         ReadUsers(r, p, us) \/ ReadTenants(r, p, us)
  PROVE  Sound(S, f)'
<1>1. PICK q \in Requests(r, S, f) : Moves(r, q) /\ q.at \in {"fillUsers", "fillTenants"}
  <2>1. CASE ReadUsers(r, p, us)
    <3>1. PICK l : l = [u \in Id |-> IF u \in us THEN userRow[u] ELSE None]
      OBVIOUS
    <3>2. l \in [Id -> Members(S) \cup {None}] /\ Stored(l) \subseteq Id
      BY <3>1 DEF Sound, UsersOK, Stored
    <3>3. PICK q : q = [op |-> "readUsers", at |-> "fillUsers", pod |-> p, list |-> l,
                        touches |-> Stored(l)]
      OBVIOUS
    <3>4. q \in ListingUsers(S)
      BY <3>2, <3>3 DEF ListingUsers, Touched
    <3>5. q \in Requests(r, S, f)
      BY <3>4 DEF Requests
    <3>6. Moves(r, q) /\ q.at = "fillUsers"
      BY <2>1, <3>1, <3>3 DEF ReadUsers, Begin, Moves
    <3> QED BY <3>5, <3>6
  <2>2. CASE ReadTenants(r, p, us)
    <3>1. PICK l : l = [t \in Id |-> IF t \in us THEN tenantRow[t] ELSE None]
      OBVIOUS
    <3>2. tenantRow \in Lists(f)
      BY DEF Sound, TenantsOK
    <3>3. l \in Lists(f) /\ Stored(l) \subseteq Id
      BY <3>1, <3>2 DEF Lists, Stored
    <3>4. PICK q : q = [op |-> "readTenants", at |-> "fillTenants", pod |-> p, list |-> l,
                        touches |-> Stored(l)]
      OBVIOUS
    <3>5. q \in ListingTenants(f)
      BY <3>3, <3>4 DEF ListingTenants, Touched
    <3>6. q \in Requests(r, S, f)
      BY <3>5 DEF Requests
    <3>7. Moves(r, q) /\ q.at = "fillTenants"
      BY <2>2, <3>1, <3>4 DEF ReadTenants, Begin, Moves
    <3> QED BY <3>6, <3>7
  <2> QED BY <2>1, <2>2
<1>2. UNCHANGED <<users, tenants, userRow, tenantRow, pending, codes>>
  BY DEF ReadUsers, ReadTenants, maps, tables, bounds
<1>3. MapsGrow /\ UsersOK(S)' /\ TenantsOK(f)' /\ PendingOK(f)'
  BY <1>2, Unchanged DEF maps
<1> QED
  BY <1>1, <1>2, <1>3, OneMoves

-----------------------------------------------------------------------------
(* A request goes on.                                                       *)
\* A request that ends, or loses its code.
LEMMA Ends ==
  ASSUME NEW S, NEW f, Sound(S, f), NEW r \in Request,
         req[r].at \in {"slug", "email", "insertUser"}, CloseCode(r)
  PROVE  Moves(r, Done) /\ PendingOK(f)'
<1>1. req[r] \in Registering(r, S, f) \cup Creating(S)
  BY ShapeAt DEF Sound, RequestsOK
<1>2. req[r].pod \in Pod /\ req[r].email \in Email
  BY <1>1 DEF Registering, Creating
<1>3. PendingOK(f)'
  BY <1>2 DEF CloseCode, Sound, PendingOK
<1> QED
  BY <1>3 DEF CloseCode, Finish, Moves

LEMMA DoneIsRequest ==
  /\ \A r, S, f : Done \in Requests(r, S, f) /\ Thrown \in Requests(r, S, f)
  /\ Done.at = "done" /\ Thrown.at = "done"
  BY DEF Requests, Done, Thrown

LEMMA StepSlug ==
  ASSUME NEW S, NEW f, Sound(S, f), NEW r \in Request, CheckSlug(r)
  PROVE  Sound(S, f)'
<1>1. UNCHANGED <<users, userRow, tenantRow, codes>>
  BY DEF CheckSlug, tables, bounds
<1>2. req[r] \in Registering(r, S, f)
  BY ShapeAt DEF CheckSlug, Sound, RequestsOK
<1>3. PICK p : p = req[r].pod /\ p \in Pod
  BY <1>2 DEF Registering
<1>4. CASE CloseCode(r) /\ CacheTenants(p, BySlug(p, req[r].slug))
  <2>1. Moves(r, Done) /\ PendingOK(f)'
    BY <1>4, Ends DEF CheckSlug
  <2>2. TenantsOK(f)' /\ MapsGrow
    BY <1>1, <1>3, <1>4, CacheTenantsOK DEF Sound, MapsGrow
  <2> QED BY <1>1, <2>1, <2>2, DoneIsRequest, Unchanged, OneMoves
<1>5. CASE Goto(r, "email") /\ UNCHANGED <<pending, tenants>>
  <2>1. PICK q : q = [req[r] EXCEPT !.at = "email"]
    OBVIOUS
  <2>2. q \in Registering(r, S, f) /\ q.at = "email"
    BY <1>2, <2>1 DEF Registering
  <2>3. q \in Requests(r, S, f)
    BY <2>2 DEF Requests
  <2>4. Moves(r, q)
    BY <1>5, <2>1 DEF Goto, Moves, Sound, RequestsOK
  <2>5. MapsGrow
    BY <1>1, <1>5, Unchanged DEF maps
  <2> QED BY <1>1, <1>5, <2>2, <2>3, <2>4, <2>5, Unchanged, OneMoves
<1> QED
  BY <1>3, <1>4, <1>5 DEF CheckSlug

\* The objects of a request that creates something.
LEMMA CreatedOK ==
  ASSUME NEW S, NEW f, Sound(S, f), NEW r \in Request,
         req[r] \in Registering(r, S, f) \cup Creating(S)
  PROVE  /\ req[r].pod \in Pod
         /\ \A T : req[r].tenant \in T => NewUser(r) \in Members(T)
         /\ req[r] \in Registering(r, S, f) => NewTenant(r) \in Company(f, r)
<1>1. req[r].pod \in Pod
  BY DEF Registering, Creating
<1>2. ASSUME NEW T, req[r].tenant \in T PROVE NewUser(r) \in Members(T)
  <2>1. req[r].email \in Email /\ req[r].tenant \in Id /\ req[r].admin \in BOOLEAN
    <3>1. CASE req[r] \in Registering(r, S, f)
      BY <3>1 DEF Registering, Id
    <3>2. CASE req[r] \in Creating(S)
      BY <3>2 DEF Creating, Sound, Stored
    <3> QED BY <3>1, <3>2
  <2>2. FirstPassword \in Password
    BY IamAssumption
  <2> QED BY <1>2, <2>1, <2>2 DEF NewUser, Members
<1>3. req[r] \in Registering(r, S, f) => NewTenant(r) \in Company(f, r)
  BY DEF Registering, NewTenant, Company, AnyCompany
<1> QED BY <1>1, <1>2, <1>3

LEMMA StepEmail ==
  ASSUME NEW S, NEW f, Sound(S, f), NEW r \in Request, CheckEmail(r)
  PROVE  Sound(S, f)'
<1>1. UNCHANGED <<userRow, tenantRow, codes>> /\ req[r].at = "email"
  BY DEF CheckEmail, tables, bounds
<1>2. req[r] \in Registering(r, S, f) \cup Creating(S)
  BY <1>1, ShapeAt DEF Sound, RequestsOK
<1>3. PICK p : p = req[r].pod /\ p \in Pod
  BY <1>2, CreatedOK
<1>4. r \in Id
  BY RequestIsId
<1>5. CASE CloseCode(r) /\ CacheUsers(p, ByEmail(p, req[r].email)) /\ UNCHANGED tenants
  <2>1. Moves(r, Done) /\ PendingOK(f)'
    BY <1>1, <1>5, Ends
  <2>2. UsersOK(S)' /\ MapsGrow
    BY <1>1, <1>3, <1>5, CacheUsersOK DEF Sound, MapsGrow
  <2> QED BY <1>1, <1>5, <2>1, <2>2, DoneIsRequest, Unchanged, OneMoves
<1>6. CASE /\ req[r].op = "register" /\ CacheNewTenant(r) /\ Goto(r, "insertTenant")
           /\ UNCHANGED <<users, pending>>
  <2>1. req[r] \in Registering(r, S, f)
    BY <1>2, <1>6 DEF Creating
  <2>2. PICK q : q = [req[r] EXCEPT !.at = "insertTenant"]
    OBVIOUS
  <2>3. q \in Registering(r, S, f) /\ q.at = "insertTenant"
    BY <2>1, <2>2 DEF Registering
  <2>4. q \in Requests(r, S, f)
    BY <2>3 DEF Requests
  <2>5. Moves(r, q)
    BY <1>6, <2>2 DEF Goto, Moves, Sound, RequestsOK
  <2>6. PICK c \in Company(f, r) : c = NewTenant(r)
    BY <2>1, CreatedOK
  <2>7. tenants' = [tenants EXCEPT ![p][r] = c]
    BY <1>3, <1>6, <2>6 DEF CacheNewTenant
  <2>8. c \in AnyCompany /\ c # None
    BY SomeCompany DEF Company
  <2>9. TenantsOK(f)' /\ MapsGrow
    BY <1>1, <1>4, <1>6, <2>7, <2>8 DEF Sound, TenantsOK, MapsGrow
  <2> QED BY <1>1, <1>6, <2>3, <2>4, <2>5, <2>9, Unchanged, OneMoves
<1>7. CASE /\ req[r].op = "createUser" /\ CacheNewUser(r) /\ Goto(r, "insertUser")
           /\ UNCHANGED <<tenants, pending>>
  <2>1. req[r] \in Creating(S)
    BY <1>2, <1>7 DEF Registering
  <2>2. PICK q : q = [req[r] EXCEPT !.at = "insertUser"]
    OBVIOUS
  <2>3. q \in Creating(S) /\ q.at = "insertUser"
    BY <2>1, <2>2 DEF Creating
  <2>4. q \in Requests(r, S, f)
    BY <2>3 DEF Requests
  <2>5. Moves(r, q)
    BY <1>7, <2>2 DEF Goto, Moves, Sound, RequestsOK
  <2>6. PICK o \in Members(S) : o = NewUser(r)
    BY <2>1, CreatedOK DEF Creating
  <2>7. users' = [users EXCEPT ![p][r] = o]
    BY <1>3, <1>7, <2>6 DEF CacheNewUser
  <2>8. o # None
    BY SomeUser
  <2>9. UsersOK(S)' /\ MapsGrow
    BY <1>1, <1>4, <1>7, <2>7, <2>8 DEF Sound, UsersOK, MapsGrow
  <2> QED BY <1>1, <1>7, <2>3, <2>4, <2>5, <2>9, Unchanged, OneMoves
<1>8. CASE Finish(r) /\ UNCHANGED <<users, tenants, pending>>
  <2>1. Moves(r, Done)
    BY <1>8 DEF Finish, Moves
  <2>2. MapsGrow
    BY <1>8, Unchanged DEF maps
  <2> QED BY <1>1, <1>8, <2>1, <2>2, DoneIsRequest, Unchanged, OneMoves
<1> QED
  BY <1>3, <1>5, <1>6, <1>7, <1>8 DEF CheckEmail, maps

\* A row that the unique columns let in has a name of its own.
LEMMA RowStored ==
  ASSUME NEW S, NEW f, Sound(S, f), NEW t \in Id, NEW c \in Company(f, t),
         ~SlugOrNuiTaken(t, c), tenantRow' = [tenantRow EXCEPT ![t] = c]
  PROVE  /\ S \cup {t} = Stored(tenantRow')
         /\ tenantRow' \in Lists(f)
         /\ NamesDiffer'
<1>1. tenantRow \in Lists(f) /\ tenantRow \in [Id -> AnyCompany \cup {None}]
  BY DEF Sound, TenantsOK, Lists
<1>2. c # None /\ c \in AnyCompany
  BY SomeCompany DEF Company
<1>3. S \cup {t} = Stored(tenantRow')
  BY <1>1, <1>2 DEF Sound, Stored
<1>4. tenantRow' \in Lists(f)
  BY <1>1, <1>2 DEF Lists
<1>5. \A x \in Id \ {t} : tenantRow[x] # None => tenantRow[x].slug # c.slug
  BY DEF SlugOrNuiTaken
<1>6. NamesDiffer'
  <2> SUFFICES ASSUME NEW y \in Request, NEW x \in Id, y # x,
                      tenantRow'[y] # None, tenantRow'[x] # None
               PROVE  tenantRow'[y].slug # tenantRow'[x].slug
    BY DEF NamesDiffer
  <2>1. CASE y = t
    BY <1>1, <1>5, <2>1, RequestIsId
  <2>2. CASE x = t
    BY <1>1, <1>5, <2>2, RequestIsId
  <2>3. CASE y # t /\ x # t
    BY <1>1, <2>3, RequestIsId DEF Sound, NamesDiffer
  <2> QED BY <2>1, <2>2, <2>3
<1> QED BY <1>3, <1>4, <1>6

\* A step in which the row of t is stored and one request moves.
LEMMA RowMoves ==
  ASSUME NEW S, NEW f, Sound(S, f), NEW t \in Id, NEW c \in Company(f, t),
         ~SlugOrNuiTaken(t, c), tenantRow' = [tenantRow EXCEPT ![t] = c],
         NEW r \in Request, NEW q \in Requests(r, S \cup {t}, f), Moves(r, q),
         q.at \notin {"profile", "list", "count"},
         MapsGrow, UsersOK(S \cup {t})', UNCHANGED <<tenants, pending, codes>>
  PROVE  Sound(S \cup {t}, f)'
<1>1. Typed(S \cup {t}, f)
  BY TypedWider, SoundTyped
<1>2. S \cup {t} = Stored(tenantRow') /\ tenantRow' \in Lists(f) /\ NamesDiffer'
  BY RowStored
<1>3. TenantsOK(f)' /\ PendingOK(f)'
  BY <1>1, <1>2 DEF Typed, TenantsOK, PendingOK
<1>4. RequestsOK(S \cup {t}, f)' /\ req'[r] = q /\ \A x \in Request \ {r} : req'[x] = req[x]
  BY <1>1, MovesOK DEF Typed
<1>5. HoldsSome'
  BY <1>1, <1>4, StillHolds DEF Sound, Typed
<1>6. codes' \in Nat /\ DOMAIN f \subseteq 1 .. codes'
  BY DEF Sound
<1> QED
  BY <1>2, <1>3, <1>4, <1>5, <1>6 DEF Sound

LEMMA StepInsertTenant ==
  ASSUME NEW S, NEW f, Sound(S, f), NEW r \in Request, InsertTenant(r)
  PROVE  \E T : Sound(T, f)'
<1>1. UNCHANGED <<tenants, userRow, pending, codes>> /\ req[r].at = "insertTenant"
  BY DEF InsertTenant, tables, bounds
<1>2. req[r] \in Registering(r, S, f)
  BY <1>1, ShapeAt DEF Sound, RequestsOK
<1>3. req[r].pod \in Pod /\ NewTenant(r) \in Company(f, r) /\ r \in Id /\ req[r].tenant = r
  BY <1>2, CreatedOK, RequestIsId DEF Registering
<1>4. CASE Finish(r) /\ UNCHANGED <<users, tenantRow, writers>>
  <2>1. Moves(r, Done)
    BY <1>4 DEF Finish, Moves
  <2>2. MapsGrow
    BY <1>1, <1>4, Unchanged DEF maps
  <2>3. Sound(S, f)'
    BY <1>1, <1>4, <2>1, <2>2, DoneIsRequest, Unchanged, OneMoves
  <2> QED BY <2>3
<1>5. CASE /\ ~SlugOrNuiTaken(r, NewTenant(r))
           /\ tenantRow' = [tenantRow EXCEPT ![r] = NewTenant(r)]
           /\ CacheNewUser(r) /\ Goto(r, "insertUser")
  <2>1. PICK q : q = [req[r] EXCEPT !.at = "insertUser"]
    OBVIOUS
  <2>2. q \in Registering(r, S \cup {r}, f) /\ q.at = "insertUser"
    BY <1>2, <2>1 DEF Registering
  <2>3. q \in Requests(r, S \cup {r}, f)
    BY <2>2 DEF Requests
  <2>4. Moves(r, q)
    BY <1>5, <2>1 DEF Goto, Moves, Sound, RequestsOK
  <2>5. PICK o \in Members(S \cup {r}) : o = NewUser(r)
    BY <1>2, <1>3, CreatedOK
  <2>6. users' = [users EXCEPT ![req[r].pod][r] = o]
    BY <1>5, <2>5 DEF CacheNewUser
  <2>7. o # None /\ UsersOK(S \cup {r})
    BY SomeUser, TypedWider, SoundTyped DEF Typed
  <2>8. UsersOK(S \cup {r})' /\ MapsGrow
    BY <1>1, <1>3, <2>6, <2>7 DEF UsersOK, MapsGrow
  <2>9. Sound(S \cup {r}, f)'
    BY <1>1, <1>3, <1>5, <2>2, <2>3, <2>4, <2>8, RowMoves
  <2> QED BY <2>9
<1>6. CASE /\ ~SlugOrNuiTaken(r, NewTenant(r))
           /\ tenantRow' = [tenantRow EXCEPT ![r] = NewTenant(r)]
           /\ req' = [req EXCEPT ![r] = Thrown] /\ UNCHANGED users
  <2>1. Moves(r, Thrown)
    BY <1>6 DEF Moves
  <2>2. UsersOK(S \cup {r})' /\ MapsGrow
    <3>1. UsersOK(S \cup {r})
      BY TypedWider, SoundTyped DEF Typed
    <3> QED BY <1>1, <1>6, <3>1 DEF UsersOK, MapsGrow
  <2>3. Sound(S \cup {r}, f)'
    BY <1>1, <1>3, <1>6, <2>1, <2>2, DoneIsRequest, RowMoves
  <2> QED BY <2>3
<1> QED
  BY <1>4, <1>5, <1>6 DEF InsertTenant

LEMMA StepInsertUser ==
  ASSUME NEW S, NEW f, Sound(S, f), NEW r \in Request, InsertUser(r)
  PROVE  Sound(S, f)'
<1>1. UNCHANGED <<users, tenantRow, codes>> /\ req[r].at = "insertUser"
  BY DEF InsertUser, tables, bounds
<1>2. req[r] \in Registering(r, S, f) \cup Creating(S)
  BY <1>1, ShapeAt DEF Sound, RequestsOK
<1>3. req[r].pod \in Pod /\ NewUser(r) \in Members(S) /\ r \in Id
  <2>1. req[r].tenant \in S
    BY <1>1, <1>2 DEF Registering, Creating
  <2> QED BY <1>2, <2>1, CreatedOK, RequestIsId
<1>4. UsersOK(S)'
  <2>1. UNCHANGED userRow \/ userRow' = [userRow EXCEPT ![r] = NewUser(r)]
    BY DEF InsertUser
  <2> QED BY <1>1, <1>3, <2>1 DEF Sound, UsersOK
<1>5. Moves(r, Done) /\ PendingOK(f)'
  <2>1. CloseCode(r) \/ (Finish(r) /\ UNCHANGED pending)
    BY DEF InsertUser
  <2> QED BY <1>1, <2>1, Ends, Unchanged DEF Finish, Moves
<1>6. TenantsOK(f)' /\ MapsGrow
  <2>1. UNCHANGED tenants \/ CacheTenants(req[r].pod, {req[r].tenant})
    BY DEF InsertUser
  <2>2. TenantsOK(f)' /\ \A x \in Pod, i \in Id : tenants[x][i] # None => tenants'[x][i] # None
    <3>1. CASE UNCHANGED tenants
      BY <1>1, <3>1, Unchanged
    <3>2. CASE CacheTenants(req[r].pod, {req[r].tenant})
      BY <1>1, <1>3, <3>2, CacheTenantsOK DEF Sound
    <3> QED BY <2>1, <3>1, <3>2
  <2> QED BY <1>1, <2>2 DEF MapsGrow
<1> QED
  BY <1>1, <1>4, <1>5, <1>6, DoneIsRequest, OneMoves

LEMMA StepWriteUser ==
  ASSUME NEW S, NEW f, Sound(S, f), NEW r \in Request, WriteUser(r)
  PROVE  Sound(S, f)'
<1>1. UNCHANGED <<users, tenants, tenantRow, codes>> /\ req[r].at = "writeUser"
  BY DEF WriteUser, maps, bounds
<1>2. req[r] \in Saving(S) \cup Renamed(S)
  BY <1>1, ShapeAt DEF Sound, RequestsOK
<1>3. PICK u, o : u = req[r].user /\ o = req[r].row /\ u \in Id /\ o \in Members(S)
  BY <1>2 DEF Saving, Renamed
<1>4. UsersOK(S)'
  <2>1. UNCHANGED userRow \/ userRow' = [userRow EXCEPT ![u] = o]
    BY <1>3 DEF WriteUser
  <2> QED BY <1>1, <1>3, <2>1 DEF Sound, UsersOK
<1>5. PendingOK(f)'
  <2>1. \/ UNCHANGED pending
        \/ req[r].op = "reset"
           /\ pending' = [pending EXCEPT ![req[r].pod]["reset"][req[r].mailed] = None]
    BY DEF WriteUser
  <2>2. CASE UNCHANGED pending
    BY <2>2, Unchanged
  <2>3. CASE /\ req[r].op = "reset"
             /\ pending' = [pending EXCEPT ![req[r].pod]["reset"][req[r].mailed] = None]
    <3>1. req[r].pod \in Pod
      BY <1>2 DEF Saving, Renamed
    <3>2. PICK x, m, codesOf : x = req[r].pod /\ m = req[r].mailed /\ codesOf = pending[x]["reset"]
      OBVIOUS
    <3>3. codesOf \in [Email -> RegisterCode(f) \cup ResetCode \cup {None}]
      BY <3>1, <3>2 DEF Sound, PendingOK
    <3>4. PICK left : left = [codesOf EXCEPT ![m] = None]
      OBVIOUS
    <3>5. /\ left \in [Email -> RegisterCode(f) \cup ResetCode \cup {None}]
          /\ \A e \in Email : left[e] = None \/ left[e] = codesOf[e]
      BY <3>3, <3>4
    <3>6. pending' = [pending EXCEPT ![x]["reset"] = left]
      BY <2>3, <3>2, <3>4
    <3> QED BY <3>1, <3>2, <3>5, <3>6 DEF Sound, PendingOK
  <2> QED BY <2>1, <2>2, <2>3
<1>6. Moves(r, Done)
  BY DEF WriteUser, Finish, Moves
<1>7. TenantsOK(f)' /\ MapsGrow
  BY <1>1, Unchanged DEF maps
<1> QED
  BY <1>1, <1>4, <1>5, <1>6, <1>7, DoneIsRequest, OneMoves

LEMMA StepWriteTenant ==
  ASSUME NEW S, NEW f, Sound(S, f), NEW r \in Request, WriteTenant(r)
  PROVE  \E T : Sound(T, f)'
<1>1. UNCHANGED <<users, tenants, userRow, pending, codes>> /\ req[r].at = "writeTenant"
  BY DEF WriteTenant, maps, bounds
<1>2. req[r] \in Changing(f)
  BY <1>1, ShapeAt DEF Sound, RequestsOK
<1>3. PICK t, c : t = req[r].tenant /\ c = req[r].row /\ t \in Id /\ c \in Company(f, t)
  BY <1>2 DEF Changing
<1>4. Moves(r, Done) /\ MapsGrow
  BY <1>1, Unchanged DEF WriteTenant, Finish, Moves, maps
<1>5. CASE UNCHANGED tenantRow
  <2>1. Sound(S, f)'
    BY <1>1, <1>4, <1>5, DoneIsRequest, Unchanged, OneMoves
  <2> QED BY <2>1
<1>6. CASE ~SlugOrNuiTaken(t, c) /\ tenantRow' = [tenantRow EXCEPT ![t] = c]
  <2>1. UsersOK(S \cup {t})'
    <3>1. UsersOK(S \cup {t})
      BY TypedWider, SoundTyped DEF Typed
    <3> QED BY <1>1, <3>1 DEF UsersOK
  <2>2. Sound(S \cup {t}, f)'
    BY <1>1, <1>3, <1>4, <1>6, <2>1, DoneIsRequest, RowMoves
  <2> QED BY <2>2
<1> QED
  BY <1>3, <1>5, <1>6 DEF WriteTenant

LEMMA StepCount ==
  ASSUME NEW S, NEW f, Sound(S, f), NEW r \in Request, CountTenant(r)
  PROVE  Sound(S, f)'
<1>1. UNCHANGED <<users, tenants, userRow, tenantRow, pending, codes>> /\ req[r].at = "count"
  BY DEF CountTenant, maps, tables, bounds
<1>2. req[r] \in Counting(f)
  BY <1>1, ShapeAt DEF Sound, RequestsOK
<1>3. Held(tenants, r) \in Company(f, req[r].holds)
  <2>1. req[r].pod \in Pod /\ req[r].holds \in Id /\ req[r].obj \in Hands(f, req[r].holds)
    BY <1>2 DEF Counting
  <2>2. CASE req[r].obj = Cached
    BY <1>1, <2>1, <2>2 DEF Held, Sound, HoldsSome, TenantsOK
  <2>3. CASE req[r].obj # Cached
    BY <2>1, <2>3 DEF Held, Hands
  <2> QED BY <2>2, <2>3
<1>4. PICK q : q = [op |-> "business", at |-> "writeTenant", pod |-> req[r].pod,
                    tenant |-> req[r].holds, row |-> Held(tenants, r),
                    touches |-> req[r].touches]
  OBVIOUS
<1>5. q \in Changing(f) /\ q.at = "writeTenant"
  BY <1>2, <1>3, <1>4 DEF Changing, Counting, Company
<1>6. q \in Requests(r, S, f)
  BY <1>5 DEF Requests
<1>7. Moves(r, q)
  BY <1>4 DEF CountTenant, Moves, Sound, RequestsOK
<1>8. MapsGrow
  BY <1>1, Unchanged DEF maps
<1> QED
  BY <1>1, <1>5, <1>6, <1>7, <1>8, Unchanged, OneMoves

LEMMA StepFails ==
  ASSUME NEW S, NEW f, Sound(S, f), NEW r \in Request, SaveFails(r)
  PROVE  Sound(S, f)'
<1>1. UNCHANGED <<users, tenants, userRow, tenantRow, pending, codes>>
  BY DEF SaveFails, maps, tables
<1>2. Moves(r, Done) /\ MapsGrow
  BY <1>1, Unchanged DEF SaveFails, Finish, Moves, maps
<1> QED
  BY <1>1, <1>2, DoneIsRequest, Unchanged, OneMoves

-----------------------------------------------------------------------------
(* Requests that hold an object, when another takes its place.              *)
LEMMA NewObject ==
  ASSUME NEW S, NEW f, NEW x, NEW q \in Requests(x, S, f), "obj" \in DOMAIN q, NEW o,
         q.op = "profile" => o \in {Cached} \cup [by : Request, val : Members(S)],
         q.op = "business" => o \in Hands(f, q.holds), NEW y, y = [q EXCEPT !.obj = o]
  PROVE  /\ y \in Requests(x, S, f) /\ y.obj = o
         /\ y.at = q.at /\ y.op = q.op /\ y.pod = q.pod /\ y.holds = q.holds
<1>1. CASE q.op = "profile"
  <2>1. q \in Renaming(S)
    BY <1>1, ShapeHeld
  <2>2. y \in Renaming(S)
    BY <1>1, <2>1 DEF Renaming
  <2> QED BY <2>1, <2>2 DEF Renaming, Requests
<1>2. CASE q.op = "business"
  <2>1. o \in Hands(f, q.holds) /\ o \in {Cached} \cup [by : Request, val : AnyCompany]
    BY <1>2 DEF Hands, Company
  <2>2. CASE q \in Comparing(f)
    <3>1. y \in Comparing(f)
      BY <2>1, <2>2 DEF Comparing
    <3> QED BY <2>2, <3>1 DEF Comparing, Requests
  <2>3. CASE q \in Counting(f)
    <3>1. y \in Counting(f)
      BY <2>1, <2>3 DEF Counting
    <3> QED BY <2>3, <3>1 DEF Counting, Requests
  <2> QED BY <1>2, <2>2, <2>3, ShapeHeld
<1> QED
  BY <1>1, <1>2, ShapeHeld

\* What others hold of a map is an object of it, or of its own.
Same(y, q) ==
    y.at = q.at /\ (y.at \in {"profile", "list", "count"} =>
                      y.op = q.op /\ y.pod = q.pod /\ y.holds = q.holds)

LEMMA HeldAt ==
  ASSUME NEW S, NEW f, NEW x, NEW q \in Requests(x, S, f),
         q.at \in {"profile", "list", "count"}
  PROVE  /\ "obj" \in DOMAIN q /\ q.pod \in Pod /\ q.holds \in Id
         /\ q.op = (IF q.at = "profile" THEN "profile" ELSE "business")
<1>1. q \in Renaming(S) \cup Comparing(f) \cup Counting(f)
  BY ShapeAt
<1> QED
  BY <1>1 DEF Renaming, Comparing, Counting

LEMMA DetachOK ==
  ASSUME NEW S, NEW f, Sound(S, f), NEW op \in {"profile", "business"}, NEW p \in Pod, NEW ids,
         NEW r \in Request, NEW x \in Request, NEW map,
         op = "profile" => map = users, op = "business" => map = tenants,
         NEW y, y = Detach(map, op, p, ids, r)[x]
  PROVE  /\ y \in Requests(x, S, f) /\ Same(y, req[x])
         /\ y.at \in {"profile", "list", "count"} /\ y.obj = Cached => y = req[x]
<1>1. req[x] \in Requests(x, S, f)
  BY DEF Sound, RequestsOK
<1>2. CASE (\E i \in ids : Holds(req, x, op, p, i)) /\ req[x].obj = Cached
  <2>1. PICK o : o = [by |-> r, val |-> map[p][req[x].holds]]
    OBVIOUS
  <2>2. y = [req[x] EXCEPT !.obj = o]
    BY <1>2, <2>1 DEF Detach
  <2>3. "obj" \in DOMAIN req[x] /\ req[x].op = op /\ req[x].pod = p
    BY <1>2 DEF Holds
  <2>4. op = "profile" => o \in [by : Request, val : Members(S)]
    <3> SUFFICES ASSUME op = "profile" PROVE o \in [by : Request, val : Members(S)]
      OBVIOUS
    <3>1. req[x].at = "profile" /\ req[x].holds \in Id
      BY <1>1, <2>3, ShapeHeld DEF Renaming
    <3> QED BY <1>2, <2>1, <2>3, <3>1 DEF Sound, HoldsSome, UsersOK
  <2>5. op = "business" => o \in [by : Request, val : Company(f, req[x].holds)]
    <3> SUFFICES ASSUME op = "business"
                 PROVE  o \in [by : Request, val : Company(f, req[x].holds)]
      OBVIOUS
    <3>1. req[x].at \in {"list", "count"} /\ req[x].holds \in Id
      BY <1>1, <2>3, ShapeHeld DEF Comparing, Counting
    <3> QED BY <1>2, <2>1, <2>3, <3>1 DEF Sound, HoldsSome, TenantsOK
  <2>6. o # Cached
    BY <2>1 DEF Cached
  <2>7. /\ y \in Requests(x, S, f) /\ y.obj = o
        /\ y.at = req[x].at /\ y.op = req[x].op /\ y.pod = req[x].pod /\ y.holds = req[x].holds
    BY <1>1, <2>2, <2>3, <2>4, <2>5, NewObject DEF Hands
  <2> QED BY <2>6, <2>7 DEF Same
<1>3. CASE ~((\E i \in ids : Holds(req, x, op, p, i)) /\ req[x].obj = Cached)
  <2>1. y = req[x]
    BY <1>3 DEF Detach
  <2> QED BY <1>1, <2>1 DEF Same
<1> QED
  BY <1>2, <1>3

LEMMA PutBackOK ==
  ASSUME NEW S, NEW f, NEW rs, NEW r \in Request, NEW x \in Request,
         rs[r] \in Requests(r, S, f), rs[x] \in Requests(x, S, f), "obj" \in DOMAIN rs[r],
         NEW now,
         rs[r].op = "profile" /\ rs[x].op = "profile" /\ Holds(rs, x, "profile", rs[r].pod, rs[r].holds)
             /\ rs[x].obj = Cached => now \in Members(S),
         rs[r].op = "business" => now \in Company(f, rs[r].holds),
         NEW y, y = PutBack(rs, now, r)[x]
  PROVE  /\ y \in Requests(x, S, f) /\ Same(y, rs[x])
         /\ y.at \in {"profile", "list", "count"} /\ y.obj = Cached =>
              \/ y = rs[x]
              \/ y.op = rs[r].op /\ y.pod = rs[r].pod /\ y.holds = rs[r].holds
<1>1. CASE Holds(rs, x, rs[r].op, rs[r].pod, rs[r].holds) /\ rs[x].obj = rs[r].obj
  <2>1. y = [rs[x] EXCEPT !.obj = Cached]
    BY <1>1 DEF PutBack
  <2> QED BY <1>1, <2>1, NewObject DEF Holds, Hands, Same
<1>2. CASE /\ Holds(rs, x, rs[r].op, rs[r].pod, rs[r].holds)
           /\ rs[x].obj = Cached /\ rs[r].obj # Cached
  <2>1. PICK o : o = [by |-> r, val |-> now]
    OBVIOUS
  <2>2. y = [rs[x] EXCEPT !.obj = o]
    BY <1>2, <2>1 DEF PutBack
  <2>3. "obj" \in DOMAIN rs[x] /\ rs[x].op = rs[r].op /\ rs[x].holds = rs[r].holds
    BY <1>2 DEF Holds
  <2>4. rs[x].op = "profile" => o \in [by : Request, val : Members(S)]
    BY <1>2, <2>1, <2>3
  <2>5. rs[x].op = "business" => o \in [by : Request, val : Company(f, rs[x].holds)]
    BY <2>1, <2>3
  <2>6. o # Cached
    BY <2>1 DEF Cached
  <2>7. /\ y \in Requests(x, S, f) /\ y.obj = o
        /\ y.at = rs[x].at /\ y.op = rs[x].op /\ y.pod = rs[x].pod /\ y.holds = rs[x].holds
    BY <2>2, <2>3, <2>4, <2>5, NewObject DEF Hands
  <2> QED BY <2>6, <2>7 DEF Same
<1>3. CASE /\ ~(Holds(rs, x, rs[r].op, rs[r].pod, rs[r].holds) /\ rs[x].obj = rs[r].obj)
           /\ ~(/\ Holds(rs, x, rs[r].op, rs[r].pod, rs[r].holds)
                /\ rs[x].obj = Cached /\ rs[r].obj # Cached)
  <2>1. y = rs[x]
    BY <1>3 DEF PutBack
  <2> QED BY <2>1 DEF Same
<1> QED
  BY <1>1, <1>2, <1>3

\* Several requests move.
LEMMA ManyMove ==
  ASSUME NEW S, NEW f, Sound(S, f), MapsGrow, UsersOK(S)', TenantsOK(f)', PendingOK(f)',
         UNCHANGED <<tenantRow, codes>>, req' = [x \in Request |-> req'[x]],
         \A x \in Request :
           /\ req'[x] \in Requests(x, S, f)
           /\ req'[x].at = "profile" /\ req'[x].obj = Cached =>
                req'[x] = req[x] \/ users'[req'[x].pod][req'[x].holds] # None
           /\ req'[x].at \in {"list", "count"} /\ req'[x].obj = Cached =>
                req'[x] = req[x] \/ tenants'[req'[x].pod][req'[x].holds] # None
  PROVE  Sound(S, f)'
<1>1. RequestsOK(S, f)'
  BY DEF RequestsOK
<1>2. HoldsSome'
  <2> SUFFICES ASSUME NEW x \in Request, req'[x] = req[x], req[x].at \in {"profile", "list", "count"},
                      req[x].obj = Cached
               PROVE  /\ req[x].at = "profile" => users'[req[x].pod][req[x].holds] # None
                      /\ req[x].at \in {"list", "count"} =>
                           tenants'[req[x].pod][req[x].holds] # None
    BY DEF HoldsSome
  <2>1. req[x].pod \in Pod /\ req[x].holds \in Id
    BY HeldAt
  <2> QED BY <2>1 DEF Sound, HoldsSome, MapsGrow
<1> QED
  BY <1>1, <1>2, SameRows DEF Typed

LEMMA StepFill ==
  ASSUME NEW S, NEW f, Sound(S, f), NEW r \in Request, FillUsers(r) \/ FillTenants(r)
  PROVE  Sound(S, f)'
<1>1. UNCHANGED <<userRow, tenantRow, pending, codes>>
  BY DEF FillUsers, FillTenants, tables, bounds
<1>2. PICK p : p = req[r].pod
  OBVIOUS
<1>3. ASSUME NEW op \in {"profile", "business"}, NEW map,
             op = "profile" => map = users, op = "business" => map = tenants, NEW ids,
             p \in Pod, req' = [Detach(map, op, p, ids, r) EXCEPT ![r] = Done]
      PROVE  /\ req' = [x \in Request |-> req'[x]]
             /\ \A x \in Request :
                  /\ req'[x] \in Requests(x, S, f)
                  /\ req'[x].at \in {"profile", "list", "count"} /\ req'[x].obj = Cached =>
                       req'[x] = req[x]
  <2>1. PICK d : d = Detach(map, op, p, ids, r)
    OBVIOUS
  <2>2. d = [x \in Request |-> d[x]]
    BY <2>1 DEF Detach
  <2>3. req' = [d EXCEPT ![r] = Done]
    BY <1>3, <2>1
  <2>4. req' = [x \in Request |-> req'[x]] /\ req'[r] = Done
        /\ \A x \in Request \ {r} : req'[x] = d[x]
    BY <2>2, <2>3
  <2>5. ASSUME NEW x \in Request
        PROVE  /\ d[x] \in Requests(x, S, f)
               /\ d[x].at \in {"profile", "list", "count"} /\ d[x].obj = Cached => d[x] = req[x]
    BY <1>3, <2>1, DetachOK
  <2> QED BY <2>4, <2>5, DoneIsRequest
<1>4. CASE FillUsers(r)
  <2>1. req[r] \in ListingUsers(S)
    BY <1>4, ShapeAt DEF FillUsers, Sound, RequestsOK
  <2>2. p \in Pod /\ req[r].list \in [Id -> Members(S) \cup {None}]
    BY <1>2, <2>1 DEF ListingUsers
  <2>3. users' = [users EXCEPT ![p] = Relisted(users[p], req[r].list)] /\ UNCHANGED tenants
    BY <1>2, <1>4, <2>2 DEF FillUsers, Sound, UsersOK
  <2>4. UsersOK(S)' /\ MapsGrow
    BY <1>1, <2>2, <2>3 DEF Sound, UsersOK, MapsGrow, Relisted
  <2>5. req' = [Detach(users, "profile", p, Stored(req[r].list), r) EXCEPT ![r] = Done]
    BY <1>2, <1>4 DEF FillUsers
  <2>6. /\ req' = [x \in Request |-> req'[x]]
        /\ \A x \in Request :
             /\ req'[x] \in Requests(x, S, f)
             /\ req'[x].at \in {"profile", "list", "count"} /\ req'[x].obj = Cached =>
                  req'[x] = req[x]
    BY <1>3, <2>2, <2>5
  <2>7. TenantsOK(f)' /\ PendingOK(f)'
    BY <1>1, <2>3, Unchanged
  <2> QED BY <1>1, <2>4, <2>6, <2>7, ManyMove
<1>5. CASE FillTenants(r)
  <2>1. req[r] \in ListingTenants(f)
    BY <1>5, ShapeAt DEF FillTenants, Sound, RequestsOK
  <2>2. p \in Pod /\ req[r].list \in Lists(f)
    BY <1>2, <2>1 DEF ListingTenants
  <2>3. tenants' = [tenants EXCEPT ![p] = Relisted(tenants[p], req[r].list)] /\ UNCHANGED users
    BY <1>2, <1>5, <2>2 DEF FillTenants, Sound, TenantsOK
  <2>4. TenantsOK(f)' /\ MapsGrow
    BY <1>1, <2>2, <2>3 DEF Sound, TenantsOK, MapsGrow, Relisted, Lists
  <2>5. req' = [Detach(tenants, "business", p, Stored(req[r].list), r) EXCEPT ![r] = Done]
    BY <1>2, <1>5 DEF FillTenants
  <2>6. /\ req' = [x \in Request |-> req'[x]]
        /\ \A x \in Request :
             /\ req'[x] \in Requests(x, S, f)
             /\ req'[x].at \in {"profile", "list", "count"} /\ req'[x].obj = Cached =>
                  req'[x] = req[x]
    BY <1>3, <2>2, <2>5
  <2>7. UsersOK(S)' /\ PendingOK(f)'
    BY <1>1, <2>3, Unchanged
  <2> QED BY <1>1, <2>4, <2>6, <2>7, ManyMove
<1> QED
  BY <1>4, <1>5

LEMMA StepCheckProfile ==
  ASSUME NEW S, NEW f, Sound(S, f), NEW r \in Request, CheckProfile(r)
  PROVE  Sound(S, f)'
<1>1. UNCHANGED <<tenants, userRow, tenantRow, pending, codes>> /\ req[r].at = "profile"
  BY DEF CheckProfile, tables, bounds
<1>2. req[r] \in Renaming(S) /\ req[r] \in Requests(r, S, f)
  BY <1>1, ShapeAt DEF Sound, RequestsOK
<1>3. PICK p, u : p = req[r].pod /\ u = req[r].holds /\ p \in Pod /\ u \in Id
  BY <1>2 DEF Renaming
<1>4. TenantsOK(f)' /\ PendingOK(f)'
  BY <1>1, Unchanged
<1>5. CASE Finish(r) /\ CacheUsers(p, ByEmail(p, req[r].email))
  <2>1. Moves(r, Done)
    BY <1>5 DEF Finish, Moves
  <2>2. UsersOK(S)' /\ MapsGrow
    BY <1>1, <1>3, <1>5, CacheUsersOK DEF Sound, MapsGrow
  <2> QED BY <1>1, <1>4, <2>1, <2>2, DoneIsRequest, OneMoves
<1>6. CASE /\ users' = [users EXCEPT ![p][u] = UpdateProfile(Held(users, r), req[r].email)]
           /\ req' = [PutBack(req, users[p][u], r) EXCEPT ![r] =
                        [op |-> "profile", at |-> "writeUser", pod |-> p, user |-> u,
                         row |-> UpdateProfile(Held(users, r), req[r].email),
                         touches |-> @.touches]]
  <2>1. Held(users, r) \in Members(S)
    <3>1. CASE req[r].obj = Cached
      BY <1>1, <1>3, <3>1 DEF Held, Sound, HoldsSome, UsersOK
    <3>2. CASE req[r].obj # Cached
      BY <1>2, <3>2 DEF Held, Renaming
    <3> QED BY <3>1, <3>2
  <2>2. PICK o \in Members(S) : o = UpdateProfile(Held(users, r), req[r].email)
    <3>1. req[r].email \in Email
      BY <1>2 DEF Renaming
    <3> QED BY <2>1, <3>1 DEF UpdateProfile, Members
  <2>3. o # None
    BY SomeUser
  <2>4. users' = [users EXCEPT ![p][u] = o]
    BY <1>6, <2>2
  <2>5. UsersOK(S)' /\ MapsGrow /\ users'[p][u] # None
    BY <1>1, <1>3, <2>3, <2>4 DEF Sound, UsersOK, MapsGrow
  <2>6. PICK d : d = PutBack(req, users[p][u], r)
    OBVIOUS
  <2>7. d = [x \in Request |-> d[x]]
    BY <2>6 DEF PutBack
  <2>8. PICK q : q = [op |-> "profile", at |-> "writeUser", pod |-> p, user |-> u, row |-> o,
                      touches |-> d[r].touches]
    OBVIOUS
  <2>9. req' = [d EXCEPT ![r] = q]
    BY <1>6, <2>2, <2>6, <2>7, <2>8
  <2>10. req' = [x \in Request |-> req'[x]] /\ req'[r] = q
         /\ \A x \in Request \ {r} : req'[x] = d[x]
    BY <2>7, <2>9
  <2>11. ASSUME NEW x \in Request
         PROVE  /\ d[x] \in Requests(x, S, f) /\ Same(d[x], req[x])
                /\ d[x].at \in {"profile", "list", "count"} /\ d[x].obj = Cached =>
                     \/ d[x] = req[x]
                     \/ d[x].op = "profile" /\ d[x].pod = p /\ d[x].holds = u
    <3>1. req[x] \in Requests(x, S, f) /\ "obj" \in DOMAIN req[r] /\ req[r].op = "profile"
      BY <1>2 DEF Sound, RequestsOK, Renaming
    <3>2. /\ Holds(req, x, "profile", p, u) /\ req[x].obj = Cached => users[p][u] \in Members(S)
      <4> SUFFICES ASSUME Holds(req, x, "profile", p, u), req[x].obj = Cached
                   PROVE  users[p][u] \in Members(S)
        OBVIOUS
      <4>1. req[x].at = "profile"
        BY <3>1, ShapeHeld DEF Holds, Renaming
      <4> QED BY <1>3, <4>1 DEF Holds, Sound, HoldsSome, UsersOK
    <3> QED BY <1>2, <1>3, <2>6, <3>1, <3>2, PutBackOK, SMTT(40)
  <2>12. q \in Requests(r, S, f) /\ q.at = "writeUser"
    <3>1. d[r].touches \in Touched
      BY <1>1, <2>11, ShapeAt DEF Same, Renaming
    <3>2. q \in Renamed(S)
      BY <1>3, <2>8, <3>1 DEF Renamed
    <3> QED BY <2>8, <3>2 DEF Requests
  <2>13. ASSUME NEW x \in Request
         PROVE  /\ req'[x] \in Requests(x, S, f)
                /\ req'[x].at = "profile" /\ req'[x].obj = Cached =>
                     req'[x] = req[x] \/ users'[req'[x].pod][req'[x].holds] # None
                /\ req'[x].at \in {"list", "count"} /\ req'[x].obj = Cached =>
                     req'[x] = req[x] \/ tenants'[req'[x].pod][req'[x].holds] # None
    <3>1. CASE x = r
      BY <2>10, <2>12, <3>1
    <3>2. CASE x # r
      <4>1. req'[x] = d[x]
        BY <2>10, <3>2
      <4>2. d[x].at \in {"list", "count"} => d[x].op = "business"
        BY <2>11, HeldAt
      <4> QED BY <2>5, <2>11, <4>1, <4>2
    <3> QED BY <3>1, <3>2
  <2> QED BY <1>1, <1>4, <2>5, <2>10, <2>13, ManyMove
<1> QED
  BY <1>3, <1>5, <1>6 DEF CheckProfile

LEMMA StepSetNui ==
  ASSUME NEW S, NEW f, Sound(S, f), NEW r \in Request, SetNui(r)
  PROVE  Sound(S, f)'
<1>1. UNCHANGED <<users, userRow, tenantRow, pending, codes>> /\ req[r].at = "list"
  BY DEF SetNui, tables, bounds
<1>2. req[r] \in Comparing(f)
  BY <1>1, ShapeAt DEF Sound, RequestsOK
<1>3. PICK p, t, list : /\ p = req[r].pod /\ t = req[r].holds /\ list = req[r].list
                        /\ p \in Pod /\ t \in Id /\ list \in Lists(f) /\ list[t] # None
  BY <1>2 DEF Comparing
<1>4. PICK d : d = Detach(tenants, "business", p, Stored(list), r)
  OBVIOUS
<1>5. d = [x \in Request |-> d[x]]
  BY <1>4 DEF Detach
<1>6. ASSUME NEW x \in Request
      PROVE  /\ d[x] \in Requests(x, S, f) /\ Same(d[x], req[x])
             /\ d[x].at \in {"profile", "list", "count"} /\ d[x].obj = Cached => d[x] = req[x]
  BY <1>3, <1>4, DetachOK
<1>7. PICK listed : listed = Relisted(tenants[p], list)
  OBVIOUS
<1>8. /\ listed \in [Id -> AnyCompany \cup {None}]
      /\ \A i \in Id : listed[i] # None => listed[i] \in Company(f, i)
      /\ \A i \in Id : tenants[p][i] # None => listed[i] # None
      /\ listed[t] \in Company(f, t)
  BY <1>3, <1>7 DEF Relisted, Lists, Sound, TenantsOK
<1>9. UsersOK(S)' /\ PendingOK(f)'
  BY <1>1, Unchanged
<1>10. CASE tenants' = [tenants EXCEPT ![p] = listed] /\ req' = [d EXCEPT ![r] = Done]
  <2>1. TenantsOK(f)' /\ MapsGrow
    BY <1>1, <1>3, <1>8, <1>10 DEF Sound, TenantsOK, MapsGrow
  <2>2. req' = [x \in Request |-> req'[x]] /\ req'[r] = Done
        /\ \A x \in Request \ {r} : req'[x] = d[x]
    BY <1>5, <1>10
  <2> QED BY <1>1, <1>6, <1>9, <2>1, <2>2, DoneIsRequest, ManyMove
<1>11. CASE /\ tenants' = [tenants EXCEPT ![p] =
                             [listed EXCEPT ![t] = UpdateBusiness(d[r].obj.val, req[r].nui)]]
            /\ req' = [PutBack(d, listed[t], r) EXCEPT ![r] =
                         [op |-> "business", at |-> "count", pod |-> p, holds |-> t,
                          obj |-> Cached, touches |-> @.touches]]
  <2>1. /\ d[r].at = "list" /\ d[r].op = "business" /\ d[r].pod = p /\ d[r].holds = t
        /\ d[r] \in Comparing(f) /\ "obj" \in DOMAIN d[r]
    <3>1. d[r] \in Comparing(f) /\ d[r].at = "list"
      BY <1>1, <1>6, ShapeAt DEF Same
    <3> QED BY <1>3, <1>6, <3>1 DEF Same, Comparing
  <2>2. d[r].obj # Cached
    <3>1. Holds(req, r, "business", p, t)
      BY <1>2, <1>3 DEF Comparing, Holds
    <3>2. t \in Stored(list)
      BY <1>3 DEF Stored
    <3>3. CASE req[r].obj = Cached
      <4>1. d[r] = [req[r] EXCEPT !.obj = [by |-> r, val |-> tenants[p][req[r].holds]]]
        BY <1>4, <3>1, <3>2, <3>3 DEF Detach
      <4> QED BY <1>2, <4>1 DEF Comparing, Cached
    <3>4. CASE req[r].obj # Cached
      BY <1>4, <3>4 DEF Detach
    <3> QED BY <3>3, <3>4
  <2>3. PICK o \in Company(f, t) : o = UpdateBusiness(d[r].obj.val, req[r].nui)
    <3>1. d[r].obj.val \in Company(f, t) /\ req[r].nui \in Nui
      BY <1>2, <2>1, <2>2 DEF Comparing, Hands
    <3> QED BY <3>1 DEF UpdateBusiness, Company, AnyCompany
  <2>4. o # None /\ o \in AnyCompany
    BY SomeCompany DEF Company
  <2>5. PICK m : m = [listed EXCEPT ![t] = o]
    OBVIOUS
  <2>6. /\ m \in [Id -> AnyCompany \cup {None}]
        /\ \A i \in Id : m[i] # None => m[i] \in Company(f, i)
        /\ \A i \in Id : tenants[p][i] # None => m[i] # None
        /\ m[t] # None
    BY <1>3, <1>8, <2>4, <2>5
  <2>7. tenants' = [tenants EXCEPT ![p] = m]
    BY <1>11, <2>3, <2>5
  <2>8. TenantsOK(f)' /\ MapsGrow /\ tenants'[p][t] # None
    BY <1>1, <1>3, <2>6, <2>7 DEF Sound, TenantsOK, MapsGrow
  <2>9. PICK b : b = PutBack(d, listed[t], r)
    OBVIOUS
  <2>10. b = [x \in Request |-> b[x]]
    BY <2>9 DEF PutBack
  <2>11. PICK q : q = [op |-> "business", at |-> "count", pod |-> p, holds |-> t,
                       obj |-> Cached, touches |-> b[r].touches]
    OBVIOUS
  <2>12. req' = [b EXCEPT ![r] = q]
    BY <1>11, <2>9, <2>10, <2>11
  <2>13. req' = [x \in Request |-> req'[x]] /\ req'[r] = q
         /\ \A x \in Request \ {r} : req'[x] = b[x]
    BY <2>10, <2>12
  <2>14. ASSUME NEW x \in Request
         PROVE  /\ b[x] \in Requests(x, S, f) /\ Same(b[x], d[x])
                /\ b[x].at \in {"profile", "list", "count"} /\ b[x].obj = Cached =>
                     \/ b[x] = d[x]
                     \/ b[x].op = "business" /\ b[x].pod = p /\ b[x].holds = t
    BY <1>6, <1>8, <2>1, <2>9, PutBackOK
  <2>15. q \in Requests(r, S, f) /\ q.at = "count" /\ q.pod = p /\ q.holds = t
    <3>1. b[r].touches \in Touched
      BY <2>1, <2>14, ShapeAt DEF Same, Comparing
    <3>2. q \in Counting(f)
      BY <1>3, <2>11, <3>1 DEF Counting, Hands
    <3> QED BY <2>11, <3>2 DEF Requests
  <2>16. ASSUME NEW x \in Request
         PROVE  /\ req'[x] \in Requests(x, S, f)
                /\ req'[x].at = "profile" /\ req'[x].obj = Cached =>
                     req'[x] = req[x] \/ users'[req'[x].pod][req'[x].holds] # None
                /\ req'[x].at \in {"list", "count"} /\ req'[x].obj = Cached =>
                     req'[x] = req[x] \/ tenants'[req'[x].pod][req'[x].holds] # None
    <3>1. CASE x = r
      BY <2>8, <2>13, <2>15, <3>1
    <3>2. CASE x # r
      <4>1. req'[x] = b[x]
        BY <2>13, <3>2
      <4>2. b[x].at = "profile" => b[x].op = "profile"
        BY <2>14, HeldAt
      <4> QED BY <1>6, <2>8, <2>14, <4>1, <4>2
    <3> QED BY <3>1, <3>2
  <2> QED BY <1>1, <1>9, <2>8, <2>13, <2>16, ManyMove
<1> QED
  BY <1>3, <1>4, <1>7, <1>10, <1>11 DEF SetNui

-----------------------------------------------------------------------------
(* The invariant holds.                                                     *)
LEMMA InitSound == Init => Inv
<1> SUFFICES ASSUME Init PROVE \E S, f : Sound(S, f)
  BY DEF Inv
<1>1. PICK S, f : S = Stored(tenantRow) /\ f = [c \in {} |-> None]
  OBVIOUS
<1>2. scene.founders \subseteq Founder /\ FirstPassword \in Password
      /\ FounderOf \in [Founder -> [email : Email, slug : Slug, nui : Nui]]
  BY IamAssumption DEF Init
<1>3. \A u \in scene.founders : tenantRow[u] # None /\ u \in Id
  BY <1>2, RequestIsId DEF Init, None
<1>4. scene.founders \subseteq S
  BY <1>1, <1>3 DEF Stored
<1>5. UsersOK(S)
  <2>1. \A u \in scene.founders :
          [email |-> FounderOf[u].email, pw |-> FirstPassword, tenant |-> u, admin |-> TRUE]
             \in Members(S)
    BY <1>2, <1>3, <1>4 DEF Members
  <2> QED BY <2>1 DEF Init, UsersOK
<1>6. TenantsOK(f) /\ NamesDiffer
  <2>1. scene.founders \cap Request = {}
    BY <1>2, IamAssumption
  <2>2. \A t \in scene.founders :
          [slug |-> FounderOf[t].slug, nui |-> FounderOf[t].nui, code |-> 0] \in Company(f, t)
    BY <1>2, <2>1 DEF Company, AnyCompany
  <2>3. \A t \in scene.founders :
          [slug |-> FounderOf[t].slug, nui |-> FounderOf[t].nui, code |-> 0] \in AnyCompany
    BY <2>2 DEF Company
  <2>4. tenantRow \in Lists(f)
    BY <2>2, <2>3 DEF Init, Lists
  <2>5. TenantsOK(f)
    BY <2>4 DEF Init, TenantsOK
  <2>6. \A t \in Request : tenantRow[t] = None
    BY <2>1, RequestIsId DEF Init
  <2> QED BY <2>5, <2>6 DEF NamesDiffer
<1>7. PendingOK(f)
  BY DEF Init, PendingOK, NoCodes
<1>8. RequestsOK(S, f) /\ HoldsSome
  BY DEF Init, RequestsOK, Requests, HoldsSome, New
<1>9. codes \in Nat /\ DOMAIN f \subseteq 1 .. codes
  BY <1>1 DEF Init
<1> QED
  BY <1>1, <1>5, <1>6, <1>7, <1>8, <1>9 DEF Sound

LEMMA NextSound == Inv /\ [Next]_vars => Inv'
<1> SUFFICES ASSUME NEW S, NEW f, Sound(S, f), [Next]_vars PROVE \E T, g : Sound(T, g)'
  BY DEF Inv
<1>1. CASE UNCHANGED vars
  <2>1. UNCHANGED <<users, tenants, userRow, tenantRow, pending, req, codes>>
    BY <1>1 DEF vars
  <2>2. MapsGrow /\ UsersOK(S)' /\ TenantsOK(f)' /\ PendingOK(f)'
    BY <2>1, Unchanged DEF maps
  <2>3. RequestsOK(S, f)' /\ HoldsSome'
    BY <2>1, <2>2, Unchanged
  <2>4. Sound(S, f)'
    BY <2>1, <2>2, <2>3, SameRows DEF Typed
  <2> QED BY <2>4
<1>2. ASSUME NEW p \in Pod, Mailed(p) PROVE \E T, g : Sound(T, g)'
  <2> PICK e \in Email :
       \/ \E s \in Slug, n \in Nui : RequestRegistrationCode(p, e, s, n)
       \/ RequestPasswordResetCode(p, e)
       \/ \E k \in {"register", "reset"} : TryWrongCode(p, k, e)
       \/ \E pw \in Password : Login(p, e, pw)
    BY <1>2 DEF Mailed
  <2>1. ASSUME NEW s \in Slug, NEW n \in Nui, RequestRegistrationCode(p, e, s, n)
        PROVE  \E T, g : Sound(T, g)'
    BY <2>1, StepMailing
  <2>2. CASE RequestPasswordResetCode(p, e)
    BY <2>2, StepResetCode
  <2>3. ASSUME NEW k \in {"register", "reset"}, TryWrongCode(p, k, e)
        PROVE  \E T, g : Sound(T, g)'
    BY <2>3, StepWrong
  <2>4. ASSUME NEW pw \in Password, Login(p, e, pw) PROVE \E T, g : Sound(T, g)'
    BY <2>4, StepLogin
  <2> QED BY <2>1, <2>2, <2>3, <2>4
<1>3. ASSUME NEW p \in Pod, Restart(p) PROVE \E T, g : Sound(T, g)'
  BY <1>3, StepRestart
<1>5. ASSUME NEW r \in Request, NEW p \in Pod, Started(r, p) PROVE \E T, g : Sound(T, g)'
  <2>1. ASSUME NEW e \in Email, VerifyRegistrationCode(r, p, e) PROVE \E T, g : Sound(T, g)'
    BY <2>1, StepVerify
  <2>2. ASSUME NEW e \in Email, NEW pw \in Password, VerifyPasswordResetCode(r, p, e, pw)
        PROVE  \E T, g : Sound(T, g)'
    BY <2>2, StepPassword
  <2>3. ASSUME NEW u \in Id, NEW e \in Email, NEW admin \in BOOLEAN, CreateUser(r, p, u, e, admin)
        PROVE  \E T, g : Sound(T, g)'
    BY <2>3, StepCreate
  <2>4. ASSUME NEW u \in Id, NEW pw \in Password, NEW new \in Password,
               ChangePassword(r, p, u, pw, new)
        PROVE  \E T, g : Sound(T, g)'
    BY <2>4, StepPassword
  <2>5. ASSUME NEW u \in Id, NEW e \in Email, UpdateMyProfile(r, p, u, e)
        PROVE  \E T, g : Sound(T, g)'
    BY <2>5, StepProfile
  <2>6. ASSUME NEW u \in Id, NEW n \in Nui, UpdateBusinessProfile(r, p, u, n)
        PROVE  \E T, g : Sound(T, g)'
    BY <2>6, StepBusiness
  <2>7. ASSUME NEW us, ReadUsers(r, p, us) \/ ReadTenants(r, p, us)
        PROVE  \E T, g : Sound(T, g)'
    BY <2>7, StepReads
  <2>8. ASSUME NEW u \in Id, Reads(r, p, u) PROVE \E T, g : Sound(T, g)'
    BY <2>7, <2>8, ReadsRows
  <2> QED BY <1>5, <2>1, <2>2, <2>3, <2>4, <2>5, <2>6, <2>8, RequestIsId DEF Started, Reads
<1>6. ASSUME NEW r \in Request, Continued(r) PROVE \E T, g : Sound(T, g)'
  <2>1. CASE CheckSlug(r)
    BY <2>1, StepSlug
  <2>2. CASE CheckEmail(r)
    BY <2>2, StepEmail
  <2>3. CASE InsertTenant(r)
    BY <2>3, StepInsertTenant
  <2>4. CASE InsertUser(r)
    BY <2>4, StepInsertUser
  <2>5. CASE CheckProfile(r)
    BY <2>5, StepCheckProfile
  <2>6. CASE WriteUser(r)
    BY <2>6, StepWriteUser
  <2>7. CASE SetNui(r)
    BY <2>7, StepSetNui
  <2>8. CASE CountTenant(r)
    BY <2>8, StepCount
  <2>9. CASE WriteTenant(r)
    BY <2>9, StepWriteTenant
  <2>10. CASE FillUsers(r) \/ FillTenants(r)
    BY <2>10, StepFill
  <2>11. CASE SaveFails(r)
    BY <2>11, StepFails
  <2> QED
    BY <1>6, <2>1, <2>2, <2>3, <2>4, <2>5, <2>6, <2>7, <2>8, <2>9, <2>10, <2>11 DEF Continued
<1> QED
  BY <1>1, <1>2, <1>3, <1>5, <1>6 DEF Next

LEMMA AlwaysSound == Spec => []Inv
  BY InitSound, NextSound, PTL DEF Spec

(* Whatever fails, restarts or overlaps, for any companies, requests and    *)
(* processes: the company of a stored user is stored.                       *)
THEOREM UsersHaveTenants == Spec => []UserHasTenant
<1>1. Inv => UserHasTenant
  <2> SUFFICES ASSUME NEW S, NEW f, Sound(S, f), NEW u \in Id, userRow[u] # None
               PROVE  tenantRow[userRow[u].tenant] # None
    BY DEF Inv, UserHasTenant
  <2>1. userRow[u] \in Members(S)
    BY DEF Sound, UsersOK
  <2>2. userRow[u].tenant \in Stored(tenantRow)
    BY <2>1 DEF Members, Sound
  <2> QED BY <2>2 DEF Stored
<1> QED
  BY <1>1, AlwaysSound, PTL

(* However often a mailed code is sent, and whatever fails in between: it   *)
(* makes at most one company.                                               *)
THEOREM OneCompanyPerCode == Spec => []OneTenantPerCode
<1>1. Inv => OneTenantPerCode
  <2> SUFFICES ASSUME NEW S, NEW f, Sound(S, f), NEW t \in Id \ Founder, NEW x \in Id \ Founder,
                      tenantRow[t] # None, tenantRow[x] # None,
                      tenantRow[t].code = tenantRow[x].code
               PROVE  t = x
    BY DEF Inv, OneTenantPerCode
  <2>1. t \in Request /\ x \in Request
    BY DEF Id
  <2>2. tenantRow[t] \in Company(f, t) /\ tenantRow[x] \in Company(f, x)
    BY DEF Sound, TenantsOK, Lists
  <2>3. tenantRow[t].slug = tenantRow[x].slug
    BY <2>1, <2>2 DEF Company
  <2> QED BY <2>1, <2>3 DEF Sound, NamesDiffer
<1> QED
  BY <1>1, AlwaysSound, PTL

-----------------------------------------------------------------------------
(* What the maps hold while no two requests about the same thing overlap    *)
(* and no save fails; processes may restart.                                *)
Calm == ~raced /\ failures = 0

\* The columns are unique.
Unique ==
    \A x, y \in Id : x # y =>
        /\ userRow[x] # None /\ userRow[y] # None => userRow[x].email # userRow[y].email
        /\ tenantRow[x] # None /\ tenantRow[y] # None =>
             tenantRow[x].slug # tenantRow[y].slug /\ tenantRow[x].nui # tenantRow[y].nui

Apart ==
    \A q, r \in Request : q # r /\ Running(q) /\ Running(r) => req[q].touches \cap req[r].touches = {}

Creates(r) == req[r].at \in {"slug", "email", "insertTenant", "insertUser"}
Saves(r, p, u) == req[r].at = "writeUser" /\ req[r].pod = p /\ req[r].user = u
Alters(r, p, t) ==
    \/ req[r].at = "count" /\ req[r].pod = p /\ req[r].holds = t
    \/ req[r].at = "writeTenant" /\ req[r].pod = p /\ req[r].tenant = t
Compares(r, p, t) == req[r].at = "list" /\ req[r].pod = p /\ req[r].holds = t
Reading(r) == req[r].at \in {"list", "fillUsers", "fillTenants"}

\* No company but t has, or is about to get, the number n that r is to store.
NuiFree(r, t, n) ==
    \A x \in Id \ {t} : tenantRow[x] # None =>
        /\ x \notin req[r].touches \/ req[r].at # "list" => tenantRow[x].nui # n
        /\ x \notin req[r].touches =>
             \A p \in Pod : tenants[p][x] # None => tenants[p][x].nui # n

\* r creates a user, or a company and its admin.
CreatesOK(r) == Creates(r) =>
    /\ {r, req[r].email} \subseteq req[r].touches
    /\ userRow[r] = None
    /\ req[r].op = "register" => /\ {req[r].slug, req[r].nui} \subseteq req[r].touches
                                 /\ req[r].admin
    /\ req[r].at \in {"insertTenant", "insertUser"} => ~EmailTaken(r, NewUser(r))
    /\ req[r].at = "insertTenant" => tenants[req[r].pod][r] = NewTenant(r)
    /\ req[r].at = "insertUser" =>
         /\ users[req[r].pod][r] = NewUser(r)
         /\ writers[r] \subseteq {req[r].pod}
         /\ tenantRow[r] # None => req[r].op = "register"

\* r saves an object that is in the map.
SavesOK(r) ==
    \A p \in Pod, u \in Id : Saves(r, p, u) =>
        /\ users[p][u] = req[r].row /\ userRow[u] # None
        /\ {u, req[r].row.email} \subseteq req[r].touches
        /\ writers[u] \subseteq {p} => ~EmailTaken(u, req[r].row)

RenamesOK(r) == req[r].at = "profile" =>
    /\ req[r].obj = Cached /\ userRow[req[r].holds] # None
    /\ users[req[r].pod][req[r].holds].email # req[r].email
    /\ {req[r].holds, req[r].email} \subseteq req[r].touches

ComparesOK(r) ==
    \A p \in Pod, t \in Id : Compares(r, p, t) =>
        /\ req[r].obj = Cached /\ req[r].nui \in req[r].touches /\ NuiFree(r, t, req[r].nui)
        /\ \A x \in Id : x \in req[r].touches => req[r].list[x] = tenantRow[x]

AltersOK(r) ==
    \A p \in Pod, t \in Id : Alters(r, p, t) =>
        /\ IF req[r].at = "count" THEN req[r].obj = Cached ELSE req[r].row = tenants[p][t]
        /\ tenants[p][t] # None /\ tenantRow[t] # None /\ t \in req[r].touches
        /\ writers[t] \subseteq {p} =>
             /\ tenants[p][t].slug = tenantRow[t].slug
             /\ \/ tenants[p][t].nui = tenantRow[t].nui
                \/ tenants[p][t].nui \in req[r].touches /\ NuiFree(r, t, tenants[p][t].nui)

\* What r has read is still so.
ListsOK(r) == Reading(r) =>
    \A i \in Id : req[r].list[i] # None =>
        /\ i \in req[r].touches
        /\ req[r].list[i] = IF req[r].at = "fillUsers" THEN userRow[i] ELSE tenantRow[i]

RequestOK(r) ==
    CreatesOK(r) /\ SavesOK(r) /\ RenamesOK(r) /\ ComparesOK(r) /\ AltersOK(r) /\ ListsOK(r)

\* A user in the map of p is stored, or being stored by p; and the map of the
\* process that alone saves it says what the row says, or soon will.
UserOK(p, u) == users[p][u] # None =>
    /\ \/ userRow[u] # None
       \/ u \in Request /\ req[u].at = "insertUser" /\ req[u].pod = p
    /\ writers[u] \subseteq {p} /\ userRow[u] # None =>
         users[p][u] = userRow[u] \/ \E r \in Request : Saves(r, p, u)
    /\ tenantRow[u] # None => users[p][u].tenant = u /\ users[p][u].admin

TenantOK(p, t) == tenants[p][t] # None =>
    /\ writers[t] \subseteq {p} /\ tenantRow[t] # None =>
         tenants[p][t] = tenantRow[t] \/ \E r \in Request : Alters(r, p, t)
    /\ t \in Request /\ req[t].at # "done" /\ tenantRow[t] = None =>
         req[t].at = "insertTenant" /\ req[t].pod = p

\* What is stored of a request was stored by it, and a company has its admin.
RowOK(i) ==
    /\ i \in Request /\ userRow[i] # None => req[i].at = "done"
    /\ i \in Request /\ tenantRow[i] # None => req[i].at \in {"insertUser", "done"}
    /\ i \in Request /\ req[i].at \notin {"insertUser", "done"} => writers[i] = {}
    /\ tenantRow[i] # None /\ userRow[i] # None => userRow[i].tenant = i /\ userRow[i].admin
    /\ tenantRow[i] # None /\ crashes = 0 =>
         \/ userRow[i] # None
         \/ i \in Request /\ (req[i].at = "insertUser" \/ req[i] = Thrown)
    /\ i \in tokens /\ crashes = 0 =>
         userRow[i] # None \/ (i \in Request /\ req[i].at = "insertUser")

Peace ==
    /\ Apart
    /\ \A r \in Request : RequestOK(r)
    /\ \A p \in Pod, i \in Id : UserOK(p, i) /\ TenantOK(p, i)
    /\ \A i \in Id : RowOK(i)

Counted ==
    /\ failures \in Nat /\ crashes \in Nat
    /\ writers \in [Id -> SUBSET Pod] /\ tokens \subseteq Id

CalmInv == Counted /\ Unique /\ (Calm => Peace)

\* What a step may change for a process o, when it only touches T.
Within(T, o) ==
    /\ \A i \in Id \ T :
         /\ UNCHANGED <<userRow[i], tenantRow[i], writers[i]>>
         /\ users[o][i] # None => users'[o][i] = users[o][i]
         /\ tenants[o][i] # None => tenants'[o][i] = tenants[o][i]
    /\ \A i \in Id : userRow'[i] = userRow[i] \/ userRow'[i].email \in T
    /\ \A i \in Id :
         \/ tenantRow'[i] = tenantRow[i] \/ tenantRow'[i].nui \in T
         \/ tenantRow[i] # None /\ \E p \in Pod : tenants[p][i] = tenantRow'[i]
    /\ \A p \in Pod, i \in Id :
         \/ tenants'[p][i] \in {None, tenants[p][i], tenantRow'[i]} \/ tenantRow'[i] = None
         \/ tenants'[p][i].nui \in T
    /\ \A p \in Pod, i \in Id :
         tenantRow[i] = None /\ tenantRow'[i] # None /\ tenants'[p][i] # None =>
             tenants'[p][i].nui \in T

LEMMA NuiStaysFree ==
  ASSUME NEW q \in Request, req'[q] = req[q], NEW t \in Id, NEW n, n \in req[q].touches,
         NuiFree(q, t, n), NEW T, NEW o, Within(T, o), req[q].touches \cap T = {}
  PROVE  NuiFree(q, t, n)'
<1> SUFFICES ASSUME NEW x \in Id \ {t}, tenantRow'[x] # None
             PROVE  /\ x \notin req[q].touches \/ req[q].at # "list" => tenantRow'[x].nui # n
                    /\ x \notin req[q].touches =>
                         \A p \in Pod : tenants'[p][x] # None => tenants'[p][x].nui # n
  BY DEF NuiFree
<1>1. n \notin T
  OBVIOUS
<1>2. CASE x \in req[q].touches
  <2>1. tenantRow'[x] = tenantRow[x]
    BY <1>2 DEF Within
  <2> QED BY <1>2, <2>1 DEF NuiFree
<1>3. CASE x \notin req[q].touches
  <2>1. tenantRow'[x].nui # n
    <3>1. CASE tenantRow'[x] = tenantRow[x] \/ tenantRow'[x].nui \in T
      BY <1>1, <1>3, <3>1 DEF NuiFree
    <3>2. CASE tenantRow[x] # None /\ \E p \in Pod : tenants[p][x] = tenantRow'[x]
      BY <1>3, <3>2 DEF NuiFree
    <3> QED BY <3>1, <3>2 DEF Within
  <2>2. ASSUME NEW p \in Pod, tenants'[p][x] # None PROVE tenants'[p][x].nui # n
    <3>1. CASE tenantRow[x] = None
      BY <1>1, <2>2, <3>1 DEF Within
    <3>2. CASE tenantRow[x] # None
      BY <1>1, <1>3, <2>1, <2>2, <3>2 DEF Within, NuiFree
    <3> QED BY <3>1, <3>2
  <2> QED BY <2>1, <2>2
<1> QED BY <1>2, <1>3

\* A request that runs has all it needs when others touch other things.
LEMMA OthersGoOn ==
  ASSUME NEW S, NEW f, Sound(S, f), NEW q \in Request, RequestOK(q), Running(q), req'[q] = req[q],
         NEW T, Within(T, req[q].pod), req[q].touches \cap T = {}
  PROVE  RequestOK(q)'
<1>1. req[q] \in Requests(q, S, f) /\ q \in Id
  BY RequestIsId DEF Sound, RequestsOK
<1>2. CreatesOK(q)'
  <2>1. CASE Creates(q)
    <3>1. q \in req[q].touches /\ req[q].email \in req[q].touches
      BY <2>1 DEF RequestOK, CreatesOK
    <3>2. UNCHANGED <<userRow[q], tenantRow[q], writers[q]>>
      BY <1>1, <3>1 DEF Within
    <3>3. UNCHANGED <<NewUser(q), NewTenant(q)>>
      BY DEF NewUser, NewTenant
    <3>4. req[q].at \in {"insertTenant", "insertUser"} => ~EmailTaken(q, NewUser(q))'
      <4> SUFFICES ASSUME req[q].at \in {"insertTenant", "insertUser"}, NEW x \in Id \ {q}, userRow'[x] # None,
                          userRow'[x].email = NewUser(q).email
                   PROVE  FALSE
        BY <3>3 DEF EmailTaken
      <4>1. NewUser(q).email = req[q].email
        BY DEF NewUser
      <4>2. ~EmailTaken(q, NewUser(q))
        BY <2>1 DEF RequestOK, CreatesOK
      <4> QED BY <3>1, <4>1, <4>2 DEF EmailTaken, Within
    <3>5. req[q].at \in {"insertTenant", "insertUser"} =>
            /\ req[q].at = "insertTenant" => tenants'[req[q].pod][q] = tenants[req[q].pod][q]
            /\ req[q].at = "insertUser" => users'[req[q].pod][q] = users[req[q].pod][q]
      <4>1. NewUser(q) # None /\ NewTenant(q) # None
        BY DEF NewUser, NewTenant, None
      <4> QED BY <1>1, <2>1, <3>1, <4>1 DEF RequestOK, CreatesOK, Within
    <3> QED BY <2>1, <3>1, <3>2, <3>3, <3>4, <3>5 DEF RequestOK, CreatesOK, Creates
  <2>2. CASE ~Creates(q)
    BY <2>2 DEF CreatesOK, Creates
  <2> QED BY <2>1, <2>2
<1>3. SavesOK(q)'
  <2> SUFFICES ASSUME NEW p \in Pod, NEW u \in Id, Saves(q, p, u)
               PROVE  /\ users'[p][u] = req[q].row /\ userRow'[u] # None
                      /\ {u, req[q].row.email} \subseteq req[q].touches
                      /\ writers'[u] \subseteq {p} => ~EmailTaken(u, req[q].row)'
    BY DEF SavesOK, Saves
  <2>1. /\ users[p][u] = req[q].row /\ userRow[u] # None
        /\ {u, req[q].row.email} \subseteq req[q].touches
        /\ writers[u] \subseteq {p} => ~EmailTaken(u, req[q].row)
    BY DEF RequestOK, SavesOK
  <2>2. req[q].row # None /\ p = req[q].pod
    BY <1>1, ShapeAt, SomeUser DEF Saves, Saving, Renamed
  <2>3. UNCHANGED <<userRow[u], writers[u], users[p][u]>>
    BY <2>1, <2>2 DEF Within
  <2>4. ~EmailTaken(u, req[q].row) => ~EmailTaken(u, req[q].row)'
    BY <2>1 DEF EmailTaken, Within
  <2> QED BY <2>1, <2>3, <2>4
<1>4. RenamesOK(q)'
  <2> SUFFICES ASSUME req[q].at = "profile"
               PROVE  /\ req[q].obj = Cached /\ userRow'[req[q].holds] # None
                      /\ users'[req[q].pod][req[q].holds].email # req[q].email
                      /\ {req[q].holds, req[q].email} \subseteq req[q].touches
    BY DEF RenamesOK
  <2>1. /\ req[q].obj = Cached /\ userRow[req[q].holds] # None
        /\ users[req[q].pod][req[q].holds].email # req[q].email
        /\ {req[q].holds, req[q].email} \subseteq req[q].touches
    BY DEF RequestOK, RenamesOK
  <2>2. users[req[q].pod][req[q].holds] # None
    BY <2>1 DEF Sound, HoldsSome
  <2>3. req[q].holds \in Id
    BY <1>1, ShapeAt DEF Renaming
  <2> QED BY <2>1, <2>2, <2>3 DEF Within
<1>5. ASSUME NEW t \in Id, NEW n \in req[q].touches, NuiFree(q, t, n) PROVE NuiFree(q, t, n)'
  BY <1>5, NuiStaysFree
<1>6. ComparesOK(q)'
  <2> SUFFICES ASSUME NEW p \in Pod, NEW t \in Id, Compares(q, p, t)
               PROVE  /\ req[q].obj = Cached /\ req[q].nui \in req[q].touches
                      /\ NuiFree(q, t, req[q].nui)'
                      /\ \A x \in Id : x \in req[q].touches => req[q].list[x] = tenantRow'[x]
    BY DEF ComparesOK, Compares
  <2>1. \A x \in Id : x \in req[q].touches => tenantRow'[x] = tenantRow[x]
    BY DEF Within
  <2> QED BY <1>5, <2>1 DEF RequestOK, ComparesOK
<1>7. AltersOK(q)'
  <2> SUFFICES ASSUME NEW p \in Pod, NEW t \in Id, Alters(q, p, t)
               PROVE  /\ IF req[q].at = "count" THEN req[q].obj = Cached ELSE req[q].row = tenants'[p][t]
                      /\ tenants'[p][t] # None /\ tenantRow'[t] # None /\ t \in req[q].touches
                      /\ writers'[t] \subseteq {p} =>
                           /\ tenants'[p][t].slug = tenantRow'[t].slug
                           /\ \/ tenants'[p][t].nui = tenantRow'[t].nui
                              \/ /\ tenants'[p][t].nui \in req[q].touches
                                 /\ NuiFree(q, t, tenants[p][t].nui)' /\ tenants'[p][t] = tenants[p][t]
    BY DEF AltersOK, Alters
  <2>1. /\ IF req[q].at = "count" THEN req[q].obj = Cached ELSE req[q].row = tenants[p][t]
        /\ tenants[p][t] # None /\ tenantRow[t] # None /\ t \in req[q].touches
        /\ writers[t] \subseteq {p} =>
             /\ tenants[p][t].slug = tenantRow[t].slug
             /\ \/ tenants[p][t].nui = tenantRow[t].nui
                \/ tenants[p][t].nui \in req[q].touches /\ NuiFree(q, t, tenants[p][t].nui)
    BY DEF RequestOK, AltersOK
  <2>2. p = req[q].pod
    BY DEF Alters
  <2>3. UNCHANGED <<tenantRow[t], writers[t], tenants[p][t]>>
    BY <2>1, <2>2 DEF Within
  <2> QED BY <1>5, <2>1, <2>3
<1>8. ListsOK(q)'
  <2> SUFFICES ASSUME Reading(q), NEW i \in Id, req[q].list[i] # None
               PROVE  /\ i \in req[q].touches
                      /\ req[q].list[i] = IF req[q].at = "fillUsers" THEN userRow'[i] ELSE tenantRow'[i]
    BY DEF ListsOK, Reading
  <2>1. /\ i \in req[q].touches
        /\ req[q].list[i] = IF req[q].at = "fillUsers" THEN userRow[i] ELSE tenantRow[i]
    BY DEF RequestOK, ListsOK
  <2> QED BY <2>1 DEF Within
<1> QED
  BY <1>2, <1>3, <1>4, <1>6, <1>7, <1>8 DEF RequestOK

\* Nothing is asked of a request that does not run.
LEMMA RestStaysOK ==
  ASSUME NEW q \in Request, req'[q].at \in {"new", "done"} PROVE RequestOK(q)'
  BY DEF RequestOK, CreatesOK, Creates, SavesOK, Saves, RenamesOK, ComparesOK, Compares,
         AltersOK, Alters, ListsOK, Reading

LEMMA PodOfRequest ==
  ASSUME NEW S, NEW f, NEW r, NEW q \in Requests(r, S, f), q.at \notin {"new", "done"}
  PROVE  q.pod \in Pod /\ q.touches \in Touched
<1>1. q \notin {New, Done, Thrown}
  BY DEF New, Done, Thrown
<1> QED
  BY <1>1 DEF Requests, Registering, Creating, Saving, Renaming, Renamed, Comparing, Counting,
              Changing, ListingUsers, ListingTenants

LEMMA UserStays ==
  ASSUME NEW p, NEW i, UserOK(p, i), UNCHANGED <<users[p][i], userRow[i]>>,
         writers[i] \subseteq writers'[i], tenantRow[i] = None => tenantRow'[i] = None,
         \A q \in Request : Saves(q, p, i) => Saves(q, p, i)',
         i \in Request /\ req[i].at = "insertUser" /\ req[i].pod = p =>
             req'[i].at = "insertUser" /\ req'[i].pod = p
  PROVE  UserOK(p, i)'
  BY DEF UserOK

LEMMA UserIsRow ==
  ASSUME NEW p, NEW i, users'[p][i] = userRow'[i], RowOK(i)'
  PROVE  UserOK(p, i)'
  BY DEF UserOK, RowOK

LEMMA TenantStays ==
  ASSUME NEW p, NEW i, TenantOK(p, i), UNCHANGED <<tenants[p][i], tenantRow[i]>>,
         writers[i] \subseteq writers'[i],
         \A q \in Request : Alters(q, p, i) => Alters(q, p, i)',
         i \in Request /\ req'[i].at # "done" =>
             /\ req[i].at # "done"
             /\ req[i].at = "insertTenant" /\ req[i].pod = p =>
                  req'[i].at = "insertTenant" /\ req'[i].pod = p
  PROVE  TenantOK(p, i)'
  BY DEF TenantOK

LEMMA TenantIsRow ==
  ASSUME NEW p, NEW i, tenants'[p][i] = tenantRow'[i]
  PROVE  TenantOK(p, i)'
  BY DEF TenantOK

LEMMA RowStays ==
  ASSUME NEW i, RowOK(i), UNCHANGED <<userRow[i], tenantRow[i], writers[i]>>,
         crashes' = 0 => crashes = 0,
         i \in tokens' /\ crashes' = 0 =>
             i \in tokens \/ userRow[i] # None \/ (i \in Request /\ req[i].at = "insertUser"),
         i \in Request =>
             /\ req[i].at = "done" => req'[i] = req[i]
             /\ req[i].at = "insertUser" =>
                  req'[i].at = "insertUser" \/ (crashes' # 0 /\ req'[i].at = "done")
  PROVE  RowOK(i)'
  BY DEF RowOK

\* What a request is about to store, or has taken out of a map, it keeps.
Keeps(r) ==
    /\ req[r].at = "done" => req'[r] = req[r]
    /\ req[r].at = "insertUser" => req'[r].at = "insertUser" /\ req'[r].pod = req[r].pod
    /\ req[r].at = "insertTenant" /\ req'[r].at # "done" =>
         req'[r].at = "insertTenant" /\ req'[r].pod = req[r].pod
    /\ \A p \in Pod, i \in Id : /\ Saves(r, p, i) => Saves(r, p, i)'
                                /\ Alters(r, p, i) => Alters(r, p, i)'

LEMMA SameKeeps == ASSUME NEW r, req'[r] = req[r] PROVE Keeps(r)
  BY DEF Keeps, Saves, Alters

\* Rows that are read go into the maps, and a list may put them over objects.
Follows(T) ==
    \A p \in Pod, i \in Id :
        /\ users'[p][i] \in {users[p][i], userRow[i]}
        /\ tenants'[p][i] \in {tenants[p][i], tenantRow[i]}
        /\ i \notin T =>
             /\ users[p][i] # None => users'[p][i] = users[p][i]
             /\ tenants[p][i] # None => tenants'[p][i] = tenants[p][i]

LEMMA CacheStep ==
  ASSUME NEW S, NEW f, Sound(S, f), Peace, UNCHANGED <<userRow, tenantRow, writers, crashes>>,
         NEW T, Follows(T), Apart',
         \A q \in Request :
             \/ req'[q] = req[q] /\ (Running(q) => req[q].touches \cap T = {})
             \/ RequestOK(q)' /\ Keeps(q),
         \A u \in tokens' \ tokens : userRow[u] # None \/ \E p \in Pod : u \in Id /\ users[p][u] # None
  PROVE  Peace'
<1>1. \A q \in Request : Keeps(q)
  BY SameKeeps
<1>2. ASSUME NEW q \in Request PROVE RequestOK(q)'
  <2>1. CASE req'[q] = req[q] /\ (Running(q) => req[q].touches \cap T = {})
    <3>1. CASE Running(q)
      <4>1. req[q] \in Requests(q, S, f)
        BY DEF Sound, RequestsOK
      <4>2. req[q].pod \in Pod
        BY <3>1, <4>1, PodOfRequest DEF Running
      <4>3. Within(T, req[q].pod)
        BY <4>2 DEF Within, Follows
      <4> QED BY <2>1, <3>1, <4>3, OthersGoOn DEF Peace
    <3>2. CASE ~Running(q)
      <4> QED BY <2>1, <3>2, RestStaysOK DEF Running
    <3> QED BY <3>1, <3>2
  <2> QED BY <2>1
<1>3. ASSUME NEW i \in Id PROVE RowOK(i)'
  <2>1. i \in tokens' => \/ i \in tokens \/ userRow[i] # None
                         \/ i \in Request /\ req[i].at = "insertUser"
    BY DEF Peace, UserOK
  <2>2. RowOK(i)
    BY DEF Peace
  <2> QED BY <1>1, <2>1, <2>2, RowStays DEF Keeps
<1>4. ASSUME NEW p \in Pod, NEW i \in Id PROVE UserOK(p, i)' /\ TenantOK(p, i)'
  <2>1. UserOK(p, i)'
    <3>1. CASE users'[p][i] = users[p][i]
      <4>1. UserOK(p, i)
        BY DEF Peace
      <4> QED BY <1>1, <3>1, <4>1, UserStays DEF Keeps
    <3>2. CASE users'[p][i] = userRow[i]
      BY <1>3, <3>2, UserIsRow
    <3> QED BY <3>1, <3>2 DEF Follows
  <2>2. TenantOK(p, i)'
    <3>1. CASE tenants'[p][i] = tenants[p][i]
      <4>1. TenantOK(p, i)
        BY DEF Peace
      <4> QED BY <1>1, <3>1, <4>1, TenantStays DEF Keeps
    <3>2. CASE tenants'[p][i] = tenantRow[i]
      BY <3>2, TenantIsRow
    <3> QED BY <3>1, <3>2 DEF Follows
  <2> QED BY <2>1, <2>2
<1> QED
  BY <1>2, <1>3, <1>4 DEF Peace

-----------------------------------------------------------------------------
(* Steps that only read.                                                    *)
LEMMA CachesFollow ==
  ASSUME NEW S, NEW f, Sound(S, f), NEW T,
         UNCHANGED users \/ \E p \in Pod : \E us : CacheUsers(p, us),
         UNCHANGED tenants \/ \E p \in Pod : \E ts : CacheTenants(p, ts)
  PROVE  Follows(T)
<1>1. ASSUME NEW p \in Pod, NEW i \in Id
      PROVE  /\ users'[p][i] \in {users[p][i], userRow[i]}
             /\ users[p][i] # None => users'[p][i] = users[p][i]
  <2>1. CASE UNCHANGED users
    BY <2>1
  <2>2. ASSUME NEW o \in Pod, NEW us, CacheUsers(o, us)
        PROVE  /\ users'[p][i] \in {users[p][i], userRow[i]}
               /\ users[p][i] # None => users'[p][i] = users[p][i]
    <3>1. users' = [users EXCEPT ![o] = [u \in Id |-> IF u \in us THEN UserAt(o, u) ELSE users[o][u]]]
      BY <2>2 DEF CacheUsers, Sound, UsersOK
    <3> QED BY <3>1 DEF UserAt, Sound, UsersOK
  <2> QED BY <2>1, <2>2
<1>2. ASSUME NEW p \in Pod, NEW i \in Id
      PROVE  /\ tenants'[p][i] \in {tenants[p][i], tenantRow[i]}
             /\ tenants[p][i] # None => tenants'[p][i] = tenants[p][i]
  <2>1. CASE UNCHANGED tenants
    BY <2>1
  <2>2. ASSUME NEW o \in Pod, NEW ts, CacheTenants(o, ts)
        PROVE  /\ tenants'[p][i] \in {tenants[p][i], tenantRow[i]}
               /\ tenants[p][i] # None => tenants'[p][i] = tenants[p][i]
    <3>1. tenants' = [tenants EXCEPT ![o] =
                        [t \in Id |-> IF t \in ts THEN TenantAt(o, t) ELSE tenants[o][t]]]
      BY <2>2 DEF CacheTenants, Sound, TenantsOK
    <3> QED BY <3>1 DEF TenantAt, Sound, TenantsOK
  <2> QED BY <2>1, <2>2
<1> QED
  BY <1>1, <1>2 DEF Follows

LEMMA ApartGoesOn ==
  ASSUME Apart,
         \A q \in Request : Running(q)' => Running(q) /\ req'[q].touches = req[q].touches
  PROVE  Apart'
  BY DEF Apart

LEMMA BeginsApart ==
  ASSUME NEW S, NEW f, Sound(S, f), Apart, NEW r \in Request, NEW rec, Begin(r, rec), ~raced'
  PROVE  /\ Apart' /\ ~raced /\ req'[r] = rec /\ req[r] = New
         /\ \A q \in Request : q # r => req'[q] = req[q]
         /\ \A q \in Request : q # r /\ Running(q) => req[q].touches \cap rec.touches = {}
<1>1. /\ req'[r] = rec /\ req[r] = New /\ \A q \in Request : q # r => req'[q] = req[q]
  BY DEF Begin, Sound, RequestsOK
<1>2. ~raced /\ \A q \in Request : Running(q) => req[q].touches \cap rec.touches = {}
  BY DEF Begin
<1>3. ASSUME NEW q \in Request, NEW x \in Request, q # x, Running(q)', Running(x)'
      PROVE  req'[q].touches \cap req'[x].touches = {}
  <2>1. CASE q = r
    BY <1>1, <1>2, <1>3, <2>1 DEF Running
  <2>2. CASE x = r
    BY <1>1, <1>2, <1>3, <2>2 DEF Running
  <2>3. CASE q # r /\ x # r
    BY <1>1, <1>3, <2>3 DEF Running, Apart
  <2> QED BY <2>1, <2>2, <2>3
<1> QED
  BY <1>1, <1>2, <1>3 DEF Apart

\* A request begins without a new object.
LEMMA BeginStep ==
  ASSUME NEW S, NEW f, Sound(S, f), Calm => Peace, Calm', NEW r \in Request, NEW rec, Begin(r, rec),
         Follows(rec.touches), UNCHANGED <<userRow, tenantRow, writers, crashes, failures, tokens>>,
         Peace /\ (\A q \in Request : q # r /\ Running(q) => req[q].touches \cap rec.touches = {})
             /\ req[r] = New /\ req'[r] = rec => RequestOK(r)'
  PROVE  Peace'
<1>1. ~raced
  BY DEF Begin, Calm
<1>2. Peace
  BY <1>1 DEF Calm
<1>3. /\ Apart' /\ req'[r] = rec /\ req[r] = New
      /\ \A q \in Request : q # r => req'[q] = req[q]
      /\ \A q \in Request : q # r /\ Running(q) => req[q].touches \cap rec.touches = {}
  BY <1>2, BeginsApart DEF Peace, Calm
<1>4. RequestOK(r)'
  BY <1>2, <1>3
<1>5. Keeps(r)
  BY <1>3 DEF Keeps, New, Saves, Alters
<1>6. \A q \in Request :
          \/ req'[q] = req[q] /\ (Running(q) => req[q].touches \cap rec.touches = {})
          \/ RequestOK(q)' /\ Keeps(q)
  BY <1>3, <1>4, <1>5
<1> QED
  BY <1>2, <1>3, <1>6, CacheStep

\* What is stored of a request that is new.
LEMMA NewIsUnstored ==
  ASSUME Peace, NEW r \in Request, req[r] = New
  PROVE  userRow[r] = None /\ tenantRow[r] = None /\ writers[r] = {}
<1>1. r \in Id /\ req[r].at = "new"
  BY RequestIsId DEF New
<1> QED
  BY <1>1 DEF Peace, RowOK

LEMMA PeaceVerify ==
  ASSUME NEW S, NEW f, Sound(S, f), Calm => Peace, Calm', NEW r \in Request, NEW p \in Pod,
         NEW e \in Email, VerifyRegistrationCode(r, p, e)
  PROVE  Peace'
<1>1. PICK c : c = pending[p]["register"][e]
  OBVIOUS
<1>2. PICK rec : rec = [op |-> "register", at |-> "slug", pod |-> p, email |-> e,
                        slug |-> c.slug, nui |-> c.nui, code |-> c.code,
                        tenant |-> r, admin |-> TRUE, touches |-> {r, e, c.slug, c.nui}]
  OBVIOUS
<1>3. /\ Begin(r, rec)
      /\ UNCHANGED <<users, tenants, userRow, tenantRow, writers, crashes, failures, tokens>>
  BY <1>1, <1>2 DEF VerifyRegistrationCode, maps, tables, bounds
<1>4. Follows(rec.touches)
  BY <1>3, CachesFollow
<1>5. ASSUME Peace, req[r] = New, req'[r] = rec PROVE RequestOK(r)'
  <2>1. userRow'[r] = None
    BY <1>3, <1>5, NewIsUnstored
  <2>2. CreatesOK(r)'
    BY <1>2, <1>5, <2>1 DEF CreatesOK, Creates
  <2> QED
    BY <1>2, <1>5, <2>2 DEF RequestOK, SavesOK, Saves, RenamesOK, ComparesOK, Compares,
                            AltersOK, Alters, ListsOK, Reading
<1> QED
  BY <1>3, <1>4, <1>5, BeginStep

LEMMA PeaceCreate ==
  ASSUME NEW S, NEW f, Sound(S, f), Calm => Peace, Calm', NEW r \in Request, NEW p \in Pod,
         NEW u \in Id, NEW e \in Email, NEW admin \in BOOLEAN, CreateUser(r, p, u, e, admin)
  PROVE  Peace'
<1>1. PICK rec : rec = [op |-> "createUser", at |-> "email", pod |-> p, email |-> e,
                        tenant |-> UserAt(p, u).tenant, admin |-> admin, touches |-> {r, e, u}]
  OBVIOUS
<1>2. /\ Begin(r, rec) /\ CacheUsers(p, {u})
      /\ UNCHANGED <<tenants, userRow, tenantRow, writers, crashes, failures, tokens>>
  BY <1>1 DEF CreateUser, tables, bounds
<1>3. Follows(rec.touches)
  BY <1>2, CachesFollow
<1>4. ASSUME Peace, req[r] = New, req'[r] = rec PROVE RequestOK(r)'
  <2>1. userRow'[r] = None
    BY <1>2, <1>4, NewIsUnstored
  <2>2. CreatesOK(r)'
    BY <1>1, <1>4, <2>1 DEF CreatesOK, Creates
  <2> QED
    BY <1>1, <1>4, <2>2 DEF RequestOK, SavesOK, Saves, RenamesOK, ComparesOK, Compares,
                            AltersOK, Alters, ListsOK, Reading
<1> QED
  BY <1>2, <1>3, <1>4, BeginStep

\* A user that a request finds, and no other request touches, is stored, and
\* is what the row says if this process alone saves it.
LEMMA FoundUser ==
  ASSUME Peace, NEW r \in Request, NEW T, NEW p \in Pod, NEW u \in Id, u \in T, UserAt(p, u) # None,
         ~Running(r), \A q \in Request : q # r /\ Running(q) => req[q].touches \cap T = {}
  PROVE  userRow[u] # None /\ (writers[u] \subseteq {p} => UserAt(p, u) = userRow[u])
<1>1. CASE users[p][u] = None
  BY <1>1 DEF UserAt
<1>2. CASE users[p][u] # None
  <2>1. UserOK(p, u) /\ \A q \in Request : RequestOK(q)
    BY DEF Peace
  <2>2. ~(u \in Request /\ req[u].at = "insertUser")
    <3> SUFFICES ASSUME u \in Request, req[u].at = "insertUser" PROVE FALSE
      OBVIOUS
    <3>1. Running(u) /\ u # r /\ u \in req[u].touches
      BY <2>1 DEF Running, RequestOK, CreatesOK, Creates
    <3> QED BY <3>1
  <2>3. \A q \in Request : ~Saves(q, p, u)
    <3> SUFFICES ASSUME NEW q \in Request, Saves(q, p, u) PROVE FALSE
      OBVIOUS
    <3>1. Running(q) /\ q # r /\ u \in req[q].touches
      BY <2>1 DEF Saves, Running, RequestOK, SavesOK
    <3> QED BY <3>1
  <2> QED BY <1>2, <2>1, <2>2, <2>3 DEF UserOK, UserAt
<1> QED BY <1>1, <1>2

LEMMA FoundTenant ==
  ASSUME Peace, NEW r \in Request, NEW T, NEW p \in Pod, NEW t \in Id, t \in T, tenantRow[t] # None,
         TenantAt(p, t) # None, ~Running(r) \/ req[r].at = "list",
         \A q \in Request : q # r /\ Running(q) => req[q].touches \cap T = {}
  PROVE  writers[t] \subseteq {p} => TenantAt(p, t) = tenantRow[t]
<1>1. CASE tenants[p][t] = None
  BY <1>1 DEF TenantAt
<1>2. CASE tenants[p][t] # None
  <2>1. TenantOK(p, t) /\ \A q \in Request : RequestOK(q)
    BY DEF Peace
  <2>2. \A q \in Request : ~Alters(q, p, t)
    <3> SUFFICES ASSUME NEW q \in Request, Alters(q, p, t) PROVE FALSE
      OBVIOUS
    <3>1. Running(q) /\ q # r /\ t \in req[q].touches
      BY <2>1 DEF Alters, Running, RequestOK, AltersOK
    <3> QED BY <3>1
  <2> QED BY <1>2, <2>1, <2>2 DEF TenantOK, TenantAt
<1> QED BY <1>1, <1>2

LEMMA PeaceProfile ==
  ASSUME NEW S, NEW f, Sound(S, f), Calm => Peace, Calm', NEW r \in Request, NEW p \in Pod,
         NEW u \in Id, NEW e \in Email, UpdateMyProfile(r, p, u, e)
  PROVE  Peace'
<1>1. PICK rec : rec = [op |-> "profile", at |-> "profile", pod |-> p, holds |-> u,
                        obj |-> Cached, email |-> e, touches |-> {u, e}]
  OBVIOUS
<1>2. /\ Begin(r, rec) /\ CacheUsers(p, {u}) /\ UserAt(p, u) # None /\ UserAt(p, u).email # e
      /\ UNCHANGED <<tenants, userRow, tenantRow, writers, crashes, failures, tokens>>
  BY <1>1 DEF UpdateMyProfile, SignedIn, tables, bounds
<1>3. Follows(rec.touches)
  BY <1>2, CachesFollow
<1>4. ASSUME Peace, req[r] = New, req'[r] = rec,
             \A q \in Request : q # r /\ Running(q) => req[q].touches \cap rec.touches = {}
      PROVE  RequestOK(r)'
  <2>1. u \in rec.touches /\ ~Running(r)
    BY <1>1, <1>4 DEF New, Running
  <2>2. userRow[u] # None
    BY <1>2, <1>4, <2>1, FoundUser
  <2>3. users'[p][u] = UserAt(p, u)
    BY <1>2, CacheUsersOK DEF Sound
  <2>4. RenamesOK(r)'
    BY <1>1, <1>2, <1>4, <2>2, <2>3 DEF RenamesOK
  <2> QED
    BY <1>1, <1>4, <2>4 DEF RequestOK, CreatesOK, Creates, SavesOK, Saves, ComparesOK, Compares,
                            AltersOK, Alters, ListsOK, Reading
<1> QED
  BY <1>2, <1>3, <1>4, BeginStep

LEMMA PeaceBusiness ==
  ASSUME NEW S, NEW f, Sound(S, f), Calm => Peace, Calm', NEW r \in Request, NEW p \in Pod,
         NEW u \in Id, NEW n \in Nui, UpdateBusinessProfile(r, p, u, n)
  PROVE  Peace'
<1>1. PICK t : t = UserAt(p, u).tenant
  OBVIOUS
<1>2. /\ CacheTenants(p, {t}) /\ CacheUsers(p, {u}) /\ TenantAt(p, t) # None
      /\ UNCHANGED <<userRow, tenantRow, writers, crashes, failures, tokens>>
  BY <1>1 DEF UpdateBusinessProfile, tables, bounds
<1>3. t \in Id /\ tenantRow[t] # None
  <2>1. UserAt(p, u) \in Members(S)
    BY UserAtOK DEF UpdateBusinessProfile, SignedIn, Sound
  <2> QED BY <1>1, <2>1 DEF Members, Sound, Stored
<1>4. tenants'[p][t] = TenantAt(p, t)
  BY <1>2, <1>3, CacheTenantsOK DEF Sound
<1>5. ASSUME NEW rec, Begin(r, rec) PROVE Follows(rec.touches)
  BY <1>2, CachesFollow
<1>6. CASE Begin(r, [op |-> "business", at |-> "list", pod |-> p, holds |-> t, nui |-> n,
                     obj |-> Cached, list |-> tenantRow, touches |-> {n} \cup Stored(tenantRow)])
  <2>1. PICK rec : rec = [op |-> "business", at |-> "list", pod |-> p, holds |-> t, nui |-> n,
                          obj |-> Cached, list |-> tenantRow, touches |-> {n} \cup Stored(tenantRow)]
    OBVIOUS
  <2>2. ASSUME req'[r] = rec PROVE RequestOK(r)'
    <3>1. NuiFree(r, t, n)'
      BY <1>2, <2>1, <2>2 DEF NuiFree, Stored
    <3>2. ComparesOK(r)'
      BY <1>2, <2>1, <2>2, <3>1 DEF ComparesOK, Compares
    <3>3. ListsOK(r)'
      BY <1>2, <2>1, <2>2 DEF ListsOK, Stored
    <3> QED
      BY <2>1, <2>2, <3>2, <3>3 DEF RequestOK, CreatesOK, Creates, SavesOK, Saves, RenamesOK,
                                    AltersOK, Alters
  <2> QED BY <1>2, <1>5, <1>6, <2>1, <2>2, BeginStep
<1>7. CASE Begin(r, [op |-> "business", at |-> "count", pod |-> p, holds |-> t,
                     obj |-> Cached, touches |-> {t}])
  <2>1. PICK rec : rec = [op |-> "business", at |-> "count", pod |-> p, holds |-> t,
                          obj |-> Cached, touches |-> {t}]
    OBVIOUS
  <2>2. ASSUME Peace, req[r] = New, req'[r] = rec,
               \A q \in Request : q # r /\ Running(q) => req[q].touches \cap rec.touches = {}
        PROVE  RequestOK(r)'
    <3>1. t \in rec.touches /\ ~Running(r)
      BY <2>1, <2>2 DEF New, Running
    <3>2. writers[t] \subseteq {p} => TenantAt(p, t) = tenantRow[t]
      BY <1>2, <1>3, <2>2, <3>1, FoundTenant
    <3>3. AltersOK(r)'
      BY <1>2, <1>3, <1>4, <2>1, <2>2, <3>2 DEF AltersOK, Alters
    <3> QED
      BY <2>1, <2>2, <3>3 DEF RequestOK, CreatesOK, Creates, SavesOK, Saves, RenamesOK,
                              ComparesOK, Compares, ListsOK, Reading
  <2> QED BY <1>2, <1>5, <1>7, <2>1, <2>2, BeginStep
<1> QED
  BY <1>1, <1>6, <1>7 DEF UpdateBusinessProfile

LEMMA PeaceReads ==
  ASSUME NEW S, NEW f, Sound(S, f), Calm => Peace, Calm', NEW r \in Request, NEW p \in Pod,
         NEW us, ReadUsers(r, p, us) \/ ReadTenants(r, p, us)
  PROVE  Peace'
<1>1. UNCHANGED <<users, tenants, userRow, tenantRow, writers, crashes, failures, tokens>>
  BY DEF ReadUsers, ReadTenants, maps, tables, bounds
<1>2. ASSUME NEW T PROVE Follows(T)
  BY <1>1, CachesFollow
<1>3. CASE ReadUsers(r, p, us)
  <2>1. PICK list : list = [u \in Id |-> IF u \in us THEN userRow[u] ELSE None]
    OBVIOUS
  <2>2. PICK rec : rec = [op |-> "readUsers", at |-> "fillUsers", pod |-> p, list |-> list,
                          touches |-> Stored(list)]
    OBVIOUS
  <2>3. Begin(r, rec)
    BY <1>3, <2>1, <2>2 DEF ReadUsers
  <2>4. ASSUME req'[r] = rec PROVE RequestOK(r)'
    <3>1. ListsOK(r)'
      BY <1>1, <2>1, <2>2, <2>4 DEF ListsOK, Stored
    <3> QED
      BY <2>2, <2>4, <3>1 DEF RequestOK, CreatesOK, Creates, SavesOK, Saves, RenamesOK,
                              ComparesOK, Compares, AltersOK, Alters
  <2> QED BY <1>1, <1>2, <2>3, <2>4, BeginStep
<1>4. CASE ReadTenants(r, p, us)
  <2>1. PICK list : list = [t \in Id |-> IF t \in us THEN tenantRow[t] ELSE None]
    OBVIOUS
  <2>2. PICK rec : rec = [op |-> "readTenants", at |-> "fillTenants", pod |-> p, list |-> list,
                          touches |-> Stored(list)]
    OBVIOUS
  <2>3. Begin(r, rec)
    BY <1>4, <2>1, <2>2 DEF ReadTenants
  <2>4. ASSUME req'[r] = rec PROVE RequestOK(r)'
    <3>1. ListsOK(r)'
      BY <1>1, <2>1, <2>2, <2>4 DEF ListsOK, Stored
    <3> QED
      BY <2>2, <2>4, <3>1 DEF RequestOK, CreatesOK, Creates, SavesOK, Saves, RenamesOK,
                              ComparesOK, Compares, AltersOK, Alters
  <2> QED BY <1>1, <1>2, <2>3, <2>4, BeginStep
<1> QED
  BY <1>3, <1>4

\* Steps outside requests: mail and logins.
LEMMA QuietStep ==
  ASSUME NEW S, NEW f, Sound(S, f), Calm => Peace, Calm',
         UNCHANGED <<userRow, tenantRow, writers, req, crashes, failures, raced>>,
         UNCHANGED users \/ \E p \in Pod : \E us : CacheUsers(p, us),
         UNCHANGED tenants \/ \E p \in Pod : \E ts : CacheTenants(p, ts),
         \A u \in tokens' \ tokens : userRow[u] # None \/ \E p \in Pod : u \in Id /\ users[p][u] # None
  PROVE  Peace'
<1>1. Peace
  BY DEF Calm
<1>2. Follows({})
  BY CachesFollow
<1>3. Apart'
  BY <1>1 DEF Peace, Apart, Running
<1>4. \A q \in Request : req'[q] = req[q] /\ (Running(q) => req[q].touches \cap {} = {})
  OBVIOUS
<1> QED
  BY <1>1, <1>2, <1>3, <1>4, CacheStep

LEMMA PeaceQuiet ==
  ASSUME NEW S, NEW f, Sound(S, f), Calm => Peace, Calm', NEW p \in Pod,
         Mailed(p)
  PROVE  Peace'
<1>1. ASSUME NEW e \in Email, NEW s \in Slug, NEW n \in Nui, RequestRegistrationCode(p, e, s, n)
      PROVE  Peace'
  BY <1>1, QuietStep DEF RequestRegistrationCode, maps, tables
<1>2. ASSUME NEW e \in Email, RequestPasswordResetCode(p, e) PROVE Peace'
  BY <1>2, QuietStep DEF RequestPasswordResetCode, tables
<1>3. ASSUME NEW e \in Email, NEW k, TryWrongCode(p, k, e) PROVE Peace'
  BY <1>3, QuietStep DEF TryWrongCode, maps, tables, bounds
<1>4. ASSUME NEW e \in Email, NEW pw, Login(p, e, pw) PROVE Peace'
  <2>1. PICK u \in ByEmail(p, e) :
          /\ CacheUsers(p, {u})
          /\ UNCHANGED tenants \/ \E ts : CacheTenants(p, ts)
          /\ tokens' \subseteq tokens \cup {u}
    BY <1>4 DEF Login, IssueTokens
  <2>2. userRow[u] # None \/ (u \in Id /\ users[p][u] # None)
    BY DEF ByEmail, Lookup, Holders
  <2>3. UNCHANGED <<userRow, tenantRow, writers, req, crashes, failures, raced>>
    BY <1>4 DEF Login, tables, bounds
  <2> QED BY <2>1, <2>2, <2>3, QuietStep
<1> QED
  BY <1>1, <1>2, <1>3, <1>4 DEF Mailed

-----------------------------------------------------------------------------
(* A request goes on.                                                       *)
LEMMA NoOneHolds ==
  ASSUME NEW S, NEW f, Sound(S, f), Peace, NEW r \in Request, Running(r), NEW i \in req[r].touches,
         NEW q \in Request, q # r, NEW op, NEW p
  PROVE  ~Holds(req, q, op, p, i)
<1> SUFFICES ASSUME Holds(req, q, op, p, i) PROVE i \in req[q].touches /\ Running(q)
  BY DEF Peace, Apart
<1>1. req[q] \in Requests(q, S, f) /\ "obj" \in DOMAIN req[q] /\ req[q].holds = i
  BY DEF Sound, RequestsOK, Holds
<1>2. RequestOK(q)
  BY DEF Peace
<1>3. CASE req[q] \in Renaming(S)
  BY <1>1, <1>2, <1>3 DEF Renaming, RequestOK, RenamesOK, Running
<1>4. CASE req[q] \in Comparing(f)
  <2>1. req[q].at = "list" /\ i \in Id /\ req[q].list[i] # None
    BY <1>1, <1>4 DEF Comparing
  <2> QED BY <1>2, <2>1 DEF RequestOK, ListsOK, Reading, Running
<1>5. CASE req[q] \in Counting(f)
  <2>1. req[q].at = "count" /\ i \in Id /\ req[q].pod \in Pod
    BY <1>1, <1>5 DEF Counting
  <2>2. Alters(q, req[q].pod, i)
    BY <1>1, <2>1 DEF Alters
  <2> QED BY <1>2, <2>1, <2>2 DEF RequestOK, AltersOK, Running
<1> QED
  BY <1>1, <1>3, <1>4, <1>5, ShapeHeld

LEMMA ContinueStep ==
  ASSUME NEW S, NEW f, Sound(S, f), Peace, NEW r \in Request, Running(r),
         \A q \in Request : q # r => req'[q] = req[q],
         UNCHANGED <<userRow, tenantRow, writers, crashes, tokens>>,
         Follows(req[r].touches), Keeps(r), RequestOK(r)',
         Running(r)' => req'[r].touches = req[r].touches
  PROVE  Peace'
<1>1. \A q \in Request : Running(q)' => Running(q) /\ req'[q].touches = req[q].touches
  BY DEF Running
<1>2. Apart'
  BY <1>1, ApartGoesOn DEF Peace
<1>3. \A q \in Request :
          \/ req'[q] = req[q] /\ (Running(q) => req[q].touches \cap req[r].touches = {})
          \/ RequestOK(q)' /\ Keeps(q)
  BY DEF Peace, Apart
<1> QED
  BY <1>2, <1>3, CacheStep

\* The same when the request ends.
LEMMA EndStep ==
  ASSUME NEW S, NEW f, Sound(S, f), Peace, NEW r \in Request, Running(r),
         req'[r] = Done, \A q \in Request : q # r => req'[q] = req[q],
         UNCHANGED <<userRow, tenantRow, writers, crashes, tokens>>,
         Follows(req[r].touches), \A p \in Pod, i \in Id : ~Saves(r, p, i) /\ ~Alters(r, p, i),
         req[r].at # "insertUser"
  PROVE  Peace'
<1>1. Keeps(r) /\ ~Running(r)'
  BY DEF Keeps, Done, Running
<1>2. RequestOK(r)'
  BY RestStaysOK DEF Done
<1> QED
  BY <1>1, <1>2, ContinueStep

LEMMA Ended ==
  ASSUME NEW S, NEW f, Sound(S, f), NEW r \in Request, Finish(r) \/ CloseCode(r)
  PROVE  req'[r] = Done /\ \A q \in Request : q # r => req'[q] = req[q]
  BY DEF Finish, CloseCode, Sound, RequestsOK

LEMMA PeaceSlug ==
  ASSUME NEW S, NEW f, Sound(S, f), Peace, NEW r \in Request, CheckSlug(r)
  PROVE  Peace'
<1>1. /\ req[r].at = "slug" /\ Running(r)
      /\ UNCHANGED <<users, userRow, tenantRow, writers, crashes, tokens>>
  BY DEF CheckSlug, Running, tables, bounds
<1>2. req[r] \in Registering(r, S, f) /\ req[r].pod \in Pod
  <2>1. req[r] \in Registering(r, S, f)
    BY <1>1, ShapeAt DEF Sound, RequestsOK
  <2> QED BY <2>1 DEF Registering
<1>3. Follows(req[r].touches)
  <2>1. UNCHANGED tenants \/ \E p \in Pod : \E ts : CacheTenants(p, ts)
    BY <1>2 DEF CheckSlug
  <2> QED BY <1>1, <2>1, CachesFollow
<1>4. CASE CloseCode(r)
  BY <1>1, <1>3, <1>4, Ended, EndStep DEF Saves, Alters
<1>5. CASE Goto(r, "email")
  <2>1. /\ req'[r] = [req[r] EXCEPT !.at = "email"] /\ \A q \in Request : q # r => req'[q] = req[q]
    BY <1>5 DEF Goto, Sound, RequestsOK
  <2>2. PICK c : c = req'[r]
    OBVIOUS
  <2>3. /\ c.at = "email" /\ c.touches = req[r].touches /\ c.op = req[r].op /\ c.admin = req[r].admin
        /\ c.email = req[r].email /\ c.slug = req[r].slug /\ c.nui = req[r].nui
    BY <1>2, <2>1, <2>2 DEF Registering
  <2>4. CreatesOK(r)
    BY DEF Peace, RequestOK
  <2>5. CreatesOK(r)'
    BY <1>1, <2>2, <2>3, <2>4 DEF CreatesOK, Creates
  <2>6. RequestOK(r)'
    BY <2>2, <2>3, <2>5 DEF RequestOK, SavesOK, Saves, RenamesOK, ComparesOK, Compares,
                            AltersOK, Alters, ListsOK, Reading
  <2>7. Keeps(r)
    BY <1>1, <2>2, <2>3 DEF Keeps, Saves, Alters
  <2> QED BY <1>1, <1>3, <2>1, <2>2, <2>3, <2>6, <2>7, ContinueStep
<1> QED
  BY <1>4, <1>5 DEF CheckSlug

LEMMA PeaceCount ==
  ASSUME NEW S, NEW f, Sound(S, f), Peace, NEW r \in Request, CountTenant(r)
  PROVE  Peace'
<1>1. req[r].at = "count" /\ req[r] \in Counting(f)
  BY ShapeAt DEF CountTenant, Sound, RequestsOK
<1>2. PICK p, t : p = req[r].pod /\ t = req[r].holds /\ p \in Pod /\ t \in Id
  BY <1>1 DEF Counting
<1>3. AltersOK(r) /\ Alters(r, p, t)
  BY <1>1, <1>2 DEF Peace, RequestOK, Alters
<1>4. req[r].obj = Cached
  BY <1>1, <1>2, <1>3 DEF AltersOK
<1>5. PICK c : c = [op |-> "business", at |-> "writeTenant", pod |-> p, tenant |-> t,
                    row |-> tenants[p][t], touches |-> req[r].touches]
  OBVIOUS
<1>6. /\ req'[r] = c /\ \A q \in Request : q # r => req'[q] = req[q]
      /\ UNCHANGED <<users, tenants, userRow, tenantRow, writers, crashes, tokens>>
  BY <1>2, <1>4, <1>5 DEF CountTenant, Held, Sound, RequestsOK, maps, tables, bounds
<1>7. AltersOK(r)'
  <2>1. \A o, x : Alters(r, o, x)' => o = p /\ x = t
    BY <1>5, <1>6 DEF Alters
  <2>2. NuiFree(r, t, tenants[p][t].nui) => NuiFree(r, t, tenants[p][t].nui)'
    BY <1>1, <1>5, <1>6 DEF NuiFree
  <2>3. c.row = tenants[p][t] /\ c.at = "writeTenant" /\ c.touches = req[r].touches
    BY <1>5
  <2> QED
    BY <1>3, <1>6, <2>1, <2>2, <2>3 DEF AltersOK
<1>8. RequestOK(r)'
  BY <1>5, <1>6, <1>7 DEF RequestOK, CreatesOK, Creates, SavesOK, Saves, RenamesOK, ComparesOK,
                          Compares, ListsOK, Reading
<1>9. Keeps(r) /\ Running(r) /\ req'[r].touches = req[r].touches
  BY <1>1, <1>2, <1>5, <1>6 DEF Keeps, Saves, Alters, Running
<1>10. Follows(req[r].touches)
  BY <1>6, CachesFollow
<1> QED
  BY <1>6, <1>8, <1>9, <1>10, ContinueStep

LEMMA PeaceFill ==
  ASSUME NEW S, NEW f, Sound(S, f), Peace, NEW r \in Request, FillUsers(r) \/ FillTenants(r)
  PROVE  Peace'
<1>1. /\ req[r].at \in {"fillUsers", "fillTenants"} /\ Running(r) /\ Reading(r)
      /\ UNCHANGED <<userRow, tenantRow, writers, crashes, tokens>>
  BY DEF FillUsers, FillTenants, Running, Reading, tables, bounds
<1>2. \A i \in Id : req[r].list[i] # None =>
          /\ i \in req[r].touches
          /\ req[r].list[i] = IF req[r].at = "fillUsers" THEN userRow[i] ELSE tenantRow[i]
  BY <1>1 DEF Peace, RequestOK, ListsOK
<1>3. req[r].pod \in Pod
  BY <1>1, PodOfRequest DEF Sound, RequestsOK
<1>4. \A q \in Request, i \in Stored(req[r].list) : q # r =>
          /\ ~Holds(req, q, "profile", req[r].pod, i) /\ ~Holds(req, q, "business", req[r].pod, i)
  BY <1>1, <1>2, NoOneHolds DEF Stored
<1>5. ASSUME NEW map, NEW op \in {"profile", "business"},
             req' = [Detach(map, op, req[r].pod, Stored(req[r].list), r) EXCEPT ![r] = Done]
      PROVE  req'[r] = Done /\ \A q \in Request : q # r => req'[q] = req[q]
  BY <1>4, <1>5 DEF Detach
<1>6. CASE FillUsers(r)
  <2>1. /\ req[r].at = "fillUsers" /\ UNCHANGED tenants
        /\ users' = [users EXCEPT ![req[r].pod] = Relisted(users[req[r].pod], req[r].list)]
        /\ req' = [Detach(users, "profile", req[r].pod, Stored(req[r].list), r) EXCEPT ![r] = Done]
    BY <1>6 DEF FillUsers, Sound, UsersOK
  <2>2. Follows(req[r].touches)
    BY <1>2, <1>3, <2>1 DEF Follows, Relisted, Sound, UsersOK
  <2> QED BY <1>1, <1>5, <2>1, <2>2, EndStep DEF Saves, Alters
<1>7. CASE FillTenants(r)
  <2>1. /\ req[r].at = "fillTenants" /\ UNCHANGED users
        /\ tenants' = [tenants EXCEPT ![req[r].pod] = Relisted(tenants[req[r].pod], req[r].list)]
        /\ req' = [Detach(tenants, "business", req[r].pod, Stored(req[r].list), r) EXCEPT ![r] = Done]
    BY <1>7 DEF FillTenants, Sound, TenantsOK
  <2>2. Follows(req[r].touches)
    BY <1>2, <1>3, <2>1 DEF Follows, Relisted, Sound, TenantsOK
  <2> QED BY <1>1, <1>5, <2>1, <2>2, EndStep DEF Saves, Alters
<1> QED
  BY <1>6, <1>7

-----------------------------------------------------------------------------
(* Requests that are refused.                                               *)
LEMMA PeaceRefused ==
  ASSUME NEW S, NEW f, Sound(S, f), Peace, NEW r \in Request,
         req[r].at \in {"email", "profile", "insertTenant"}, Finish(r) \/ CloseCode(r),
         UNCHANGED <<tenants, userRow, tenantRow, writers, crashes, tokens>>,
         UNCHANGED users \/ \E us : CacheUsers(req[r].pod, us)
  PROVE  Peace'
<1>1. Running(r) /\ req[r].at # "insertUser"
  BY DEF Running
<1>2. req[r].pod \in Pod
  BY <1>1, PodOfRequest DEF Sound, RequestsOK, Running
<1>3. Follows(req[r].touches)
  BY <1>2, CachesFollow
<1>4. \A p \in Pod, i \in Id : ~Saves(r, p, i) /\ ~Alters(r, p, i)
  BY DEF Saves, Alters
<1> QED
  BY <1>1, <1>3, <1>4, Ended, EndStep

-----------------------------------------------------------------------------
(* Steps that change an object or a row.                                    *)
\* The other requests stay, and those that run touch nothing of T.
OthersStay(r, T) ==
    \A q \in Request : q # r => req'[q] = req[q] /\ (Running(q) => req[q].touches \cap T = {})

\* The user map of p gets an object, which r is to save.
Puts(p, u, object) ==
    users'[p][u] = object /\ \A o \in Pod, i \in Id : o # p \/ i # u => users'[o][i] = users[o][i]
IsAdmin(object, t) == object.tenant = t /\ object.admin
ToSave(r, p, u, object) ==
    /\ req'[r].at = "writeUser" /\ req'[r].pod = p /\ req'[r].user = u /\ req'[r].row = object
    /\ {u, object.email} \subseteq req'[r].touches

LEMMA ChangeStep ==
  ASSUME NEW S, NEW f, Sound(S, f), Peace, NEW r \in Request, NEW T, Apart',
         OthersStay(r, T),
         \A p \in Pod : Within(T, p),
         RequestOK(r)',
         \A p \in Pod, i \in Id : UserOK(p, i)' /\ TenantOK(p, i)',
         \A i \in Id : RowOK(i)'
  PROVE  Peace'
<1>1. ASSUME NEW q \in Request, q # r PROVE RequestOK(q)'
  <2>1. req'[q] = req[q]
    BY <1>1 DEF OthersStay
  <2>2. CASE Running(q)
    <3>1. req[q].pod \in Pod
      BY <2>2, PodOfRequest DEF Sound, RequestsOK, Running
    <3>2. RequestOK(q) /\ Within(T, req[q].pod) /\ req[q].touches \cap T = {}
      BY <1>1, <2>2, <3>1 DEF Peace, OthersStay
    <3> QED BY <2>1, <2>2, <3>2, OthersGoOn
  <2>3. CASE ~Running(q)
    BY <2>1, <2>3, RestStaysOK DEF Running
  <2> QED BY <2>2, <2>3
<1> QED
  BY <1>1 DEF Peace

\* A running request goes on, and touches no more.
LEMMA GoesOnApart ==
  ASSUME Peace, NEW r \in Request, Running(r), \A q \in Request : q # r => req'[q] = req[q],
         Running(r)' => req'[r].touches = req[r].touches
  PROVE  Apart' /\ OthersStay(r, req[r].touches)
<1>1. \A q \in Request : Running(q)' => Running(q) /\ req'[q].touches = req[q].touches
  BY DEF Running
<1> QED
  BY <1>1, ApartGoesOn DEF Peace, Apart, OthersStay

\* A user object gets new contents, which r is to save.
LEMMA ObjectChanges ==
  ASSUME NEW S, NEW f, Sound(S, f), Peace, NEW r \in Request, NEW T, Apart',
         NEW p \in Pod, NEW u \in Id, NEW object \in Members(S), u \in T,
         Puts(p, u, object), ToSave(r, p, u, object),
         UNCHANGED <<tenants, userRow, tenantRow, writers, crashes, tokens>>,
         req[r].at \in {"new", "profile"},
         OthersStay(r, T),
         userRow[u] # None,
         writers[u] \subseteq {p} => ~EmailTaken(u, object),
         tenantRow[u] # None => IsAdmin(object, u)
  PROVE  Peace'
<1>1. \A o \in Pod : Within(T, o)
  BY DEF Within, Puts
<1>2. Keeps(r) /\ \A q \in Request : Keeps(q)
  <2>1. Keeps(r)
    BY DEF Keeps, Saves, Alters, ToSave
  <2> QED BY <2>1, SameKeeps DEF OthersStay
<1>3. RequestOK(r)'
  <2>1. SavesOK(r)'
    <3>1. UNCHANGED EmailTaken(u, object)
      BY DEF EmailTaken
    <3> QED BY <3>1 DEF SavesOK, Saves, Puts, ToSave
  <2> QED BY <2>1 DEF RequestOK, CreatesOK, Creates, RenamesOK, ComparesOK, Compares,
                      AltersOK, Alters, ListsOK, Reading, ToSave
<1>4. ASSUME NEW i \in Id PROVE RowOK(i)'
  <2>1. RowOK(i)
    BY DEF Peace
  <2> QED BY <1>2, <2>1, RowStays DEF Keeps
<1>5. ASSUME NEW o \in Pod, NEW i \in Id PROVE UserOK(o, i)' /\ TenantOK(o, i)'
  <2>1. UserOK(o, i) /\ TenantOK(o, i)
    BY DEF Peace
  <2>2. TenantOK(o, i)'
    BY <1>2, <2>1, TenantStays DEF Keeps
  <2>3. CASE o # p \/ i # u
    <3>1. UserOK(o, i)'
      BY <1>2, <2>1, <2>3, UserStays DEF Keeps, Puts
    <3> QED BY <2>2, <3>1
  <2>4. CASE o = p /\ i = u
    <3>1. Saves(r, p, u)'
      BY DEF Saves, ToSave
    <3>2. UserOK(p, u)'
      BY <3>1 DEF UserOK, Puts, IsAdmin
    <3> QED BY <2>2, <2>4, <3>2
  <2> QED BY <2>3, <2>4
<1> QED
  BY <1>1, <1>3, <1>4, <1>5, ChangeStep

\* What a request finds of an admin is an admin.
LEMMA FoundAdmin ==
  ASSUME Peace, NEW p \in Pod, NEW u \in Id, UserAt(p, u) # None, tenantRow[u] # None
  PROVE  IsAdmin(UserAt(p, u), u)
  BY DEF Peace, UserOK, RowOK, UserAt, IsAdmin

LEMMA PeaceSave ==
  ASSUME NEW S, NEW f, Sound(S, f), Unique, Calm => Peace, Calm', NEW r \in Request, NEW p \in Pod,
         NEW u \in Id, NEW pw \in Password, NEW op, NEW mailed, UserAt(p, u) # None,
         SaveUser(r, p, u, SetPassword(UserAt(p, u), pw), op, mailed)
  PROVE  Peace'
<1>1. PICK object : object = SetPassword(UserAt(p, u), pw)
  OBVIOUS
<1>2. /\ object \in Members(S) /\ object.email = UserAt(p, u).email
      /\ object.tenant = UserAt(p, u).tenant /\ object.admin = UserAt(p, u).admin
  <2>1. UserAt(p, u) \in Members(S)
    BY UserAtOK DEF Sound
  <2> QED BY <1>1, <2>1 DEF SetPassword, Members
<1>3. PICK rec : rec = [op |-> op, at |-> "writeUser", pod |-> p, user |-> u, row |-> object,
                        mailed |-> mailed, touches |-> {u, object.email}]
  OBVIOUS
<1>4. /\ Begin(r, rec) /\ users' = [users EXCEPT ![p][u] = object]
      /\ UNCHANGED <<tenants, userRow, tenantRow, writers, crashes, failures, tokens>>
  BY <1>1, <1>3 DEF SaveUser, tables, bounds
<1>5. Peace
  BY <1>4 DEF Begin, Calm
<1>6. /\ Apart' /\ req'[r] = rec /\ req[r] = New
      /\ \A q \in Request : q # r => req'[q] = req[q]
      /\ \A q \in Request : q # r /\ Running(q) => req[q].touches \cap rec.touches = {}
  BY <1>4, <1>5, BeginsApart DEF Peace, Calm
<1>7. userRow[u] # None /\ (writers[u] \subseteq {p} => UserAt(p, u) = userRow[u])
  <2>1. u \in rec.touches /\ ~Running(r)
    BY <1>3, <1>6 DEF New, Running
  <2> QED BY <1>5, <1>6, <2>1, FoundUser
<1>8. writers[u] \subseteq {p} => ~EmailTaken(u, object)
  BY <1>2, <1>7 DEF EmailTaken, Unique
<1>9. tenantRow[u] # None => IsAdmin(object, u)
  BY <1>2, <1>5, FoundAdmin DEF IsAdmin
<1>10. req[r].at \in {"new", "profile"} /\ u \in rec.touches
  BY <1>3, <1>6 DEF New
<1>11. ToSave(r, p, u, object)
  BY <1>3, <1>6 DEF ToSave
<1>12. Puts(p, u, object)
  BY <1>4 DEF Puts, Sound, UsersOK
<1>13. OthersStay(r, rec.touches)
  BY <1>6 DEF OthersStay
<1>14. Apart'
  BY <1>6
<1> QED
  BY <1>2, <1>4, <1>5, <1>7, <1>8, <1>9, <1>10, <1>11, <1>12, <1>13, <1>14, ObjectChanges

LEMMA PeacePassword ==
  ASSUME NEW S, NEW f, Sound(S, f), Unique, Calm => Peace, Calm', NEW r \in Request, NEW p \in Pod,
         NEW pw \in Password,
         \/ \E e \in Email : VerifyPasswordResetCode(r, p, e, pw)
         \/ \E u \in Id, current \in Password : ChangePassword(r, p, u, current, pw)
  PROVE  Peace'
<1>1. ASSUME NEW e \in Email, VerifyPasswordResetCode(r, p, e, pw) PROVE Peace'
  <2>1. pending[p]["reset"][e] \in ResetCode
    BY <1>1 DEF VerifyPasswordResetCode, Accepts, Sound, PendingOK
  <2>2. pending[p]["reset"][e].user \in Id
    BY <2>1 DEF ResetCode
  <2> QED BY <1>1, <2>2, PeaceSave DEF VerifyPasswordResetCode
<1>2. ASSUME NEW u \in Id, NEW current \in Password, ChangePassword(r, p, u, current, pw)
      PROVE  Peace'
  BY <1>2, PeaceSave DEF ChangePassword, SignedIn
<1> QED
  BY <1>1, <1>2

\* No user but u has an address that is not found.
LEMMA NoneFound ==
  ASSUME NEW p, NEW e, NEW u, NEW object, object.email = e, ByEmail(p, e) \ {u} = {},
         u \notin Holders(users[p], "email", e)
  PROVE  ~EmailTaken(u, object)
<1>1. Holders(users[p], "email", e) = {}
  BY DEF ByEmail, Lookup
<1>2. Holders(userRow, "email", e) \subseteq {u}
  BY <1>1 DEF ByEmail, Lookup
<1> QED
  BY <1>2 DEF EmailTaken, Holders

\* Nobody else holds what r touches, so putting it back moves only r.
LEMMA PutsBackAlone ==
  ASSUME NEW S, NEW f, Sound(S, f), Peace, NEW r \in Request, Running(r),
         req[r].holds \in req[r].touches, NEW now, NEW rs, rs[r].op = req[r].op,
         rs[r].pod = req[r].pod, rs[r].holds = req[r].holds,
         NEW q \in Request, q # r, rs[q] = req[q]
  PROVE  PutBack(rs, now, r)[q] = req[q]
<1>1. ~Holds(req, q, req[r].op, req[r].pod, req[r].holds)
  BY NoOneHolds
<1>2. ~Holds(rs, q, rs[r].op, rs[r].pod, rs[r].holds)
  BY <1>1 DEF Holds
<1> QED
  BY <1>2 DEF PutBack

LEMMA PeaceCheckProfile ==
  ASSUME NEW S, NEW f, Sound(S, f), Peace, NEW r \in Request, CheckProfile(r)
  PROVE  Peace'
<1>1. /\ req[r].at = "profile" /\ Running(r) /\ req[r] \in Renaming(S)
      /\ UNCHANGED <<tenants, userRow, tenantRow, writers, crashes, tokens>>
  <2>1. req[r].at = "profile" /\ Running(r)
    BY DEF CheckProfile, Running
  <2>2. UNCHANGED <<tenants, userRow, tenantRow, writers, crashes, tokens>>
    BY DEF CheckProfile, tables, bounds
  <2> QED BY <2>1, <2>2, ShapeAt DEF Sound, RequestsOK
<1>2. PICK p, u, e : p = req[r].pod /\ u = req[r].holds /\ e = req[r].email
                     /\ p \in Pod /\ u \in Id /\ e \in Email
  BY <1>1 DEF Renaming
<1>3. CASE Finish(r) /\ CacheUsers(p, ByEmail(p, e))
  BY <1>1, <1>2, <1>3, PeaceRefused
<1>4. CASE ~(Finish(r) /\ CacheUsers(p, ByEmail(p, e)))
  <2>1. PICK object : object = UpdateProfile(Held(users, r), e)
    OBVIOUS
  <2>2. PICK c : c = [op |-> "profile", at |-> "writeUser", pod |-> p, user |-> u,
                      row |-> object, touches |-> req[r].touches]
    OBVIOUS
  <2>3. /\ ByEmail(p, e) \ {u} = {}
        /\ users' = [users EXCEPT ![p][u] = object]
        /\ req' = [PutBack(req, users[p][u], r) EXCEPT ![r] =
                     [op |-> "profile", at |-> "writeUser", pod |-> p, user |-> u,
                      row |-> object, touches |-> PutBack(req, users[p][u], r)[r].touches]]
    BY <1>2, <1>4, <2>1 DEF CheckProfile, PutBack
  <2>4. /\ req[r].obj = Cached /\ userRow[u] # None /\ users[p][u].email # e
        /\ {u, e} \subseteq req[r].touches
    BY <1>1, <1>2 DEF Peace, RequestOK, RenamesOK
  <2>5. users[p][u] \in Members(S) /\ users[p][u] # None
    BY <1>1, <1>2, <2>4 DEF Sound, HoldsSome, UsersOK
  <2>6. object = [users[p][u] EXCEPT !.email = e]
    BY <1>2, <2>1, <2>4 DEF UpdateProfile, Held
  <2>7. /\ object \in Members(S) /\ object.email = e
        /\ object.tenant = users[p][u].tenant /\ object.admin = users[p][u].admin
    BY <1>2, <2>5, <2>6 DEF Members
  <2>8. PutBack(req, users[p][u], r)[r].touches = req[r].touches
    <3>1. PutBack(req, users[p][u], r)[r] \in {req[r], [req[r] EXCEPT !.obj = Cached]}
      BY <2>4 DEF PutBack
    <3> QED BY <1>1, <3>1 DEF Renaming
  <2>9. req'[r] = c
    BY <2>2, <2>3, <2>8 DEF PutBack
  <2>10. \A q \in Request : q # r => req'[q] = req[q]
    <3> SUFFICES ASSUME NEW q \in Request, q # r PROVE req'[q] = req[q]
      OBVIOUS
    <3>1. PutBack(req, users[p][u], r)[q] = req[q]
      BY <1>1, <1>2, <2>4, PutsBackAlone
    <3> QED BY <2>3, <3>1 DEF PutBack
  <2>11. Apart' /\ OthersStay(r, req[r].touches)
    <3>1. req'[r].touches = req[r].touches
      BY <2>2, <2>9
    <3> QED BY <1>1, <2>10, <3>1, GoesOnApart
  <2>12. ~EmailTaken(u, object)
    <3>1. u \notin Holders(users[p], "email", e)
      BY <2>4 DEF Holders
    <3> QED BY <2>3, <2>7, <3>1, NoneFound
  <2>13. tenantRow[u] # None => IsAdmin(object, u)
    <3>1. tenantRow[u] # None => IsAdmin(users[p][u], u)
      BY <1>2, <2>5, FoundAdmin DEF UserAt
    <3> QED BY <2>7, <3>1 DEF IsAdmin
  <2>14. ToSave(r, p, u, object)
    BY <2>2, <2>4, <2>7, <2>9 DEF ToSave
  <2>15. Puts(p, u, object)
    BY <2>3, <1>2 DEF Puts, Sound, UsersOK
  <2>16. req[r].at \in {"new", "profile"} /\ u \in req[r].touches
    BY <1>1, <2>4
  <2> QED
    BY <1>1, <1>2, <2>4, <2>7, <2>11, <2>12, <2>13, <2>14, <2>15, <2>16, ObjectChanges
<1> QED
  BY <1>3, <1>4

\* What is not stored yet is in no map.
LEMMA Unstored ==
  ASSUME Peace, NEW r \in Request, req[r].at \in {"slug", "email", "insertTenant"}
  PROVE  /\ userRow[r] = None /\ tenantRow[r] = None /\ writers[r] = {}
         /\ \A o \in Pod : /\ users[o][r] = None
                           /\ tenants[o][r] # None => req[r].at = "insertTenant" /\ req[r].pod = o
<1>1. r \in Id
  BY RequestIsId
<1>2. RowOK(r)
  BY <1>1 DEF Peace
<1>3. CreatesOK(r)
  BY DEF Peace, RequestOK
<1>4. userRow[r] = None /\ tenantRow[r] = None /\ writers[r] = {}
  BY <1>2, <1>3 DEF RowOK, CreatesOK, Creates
<1>5. \A o \in Pod : UserOK(o, r) /\ TenantOK(o, r)
  BY <1>1 DEF Peace
<1> QED
  BY <1>4, <1>5 DEF UserOK, TenantOK

LEMMA PeaceNewTenant ==
  ASSUME NEW S, NEW f, Sound(S, f), Peace, NEW r \in Request, req[r].at = "email",
         req[r].op = "register", ByEmail(req[r].pod, req[r].email) = {},
         CacheNewTenant(r), Goto(r, "insertTenant"),
         UNCHANGED <<users, userRow, tenantRow, writers, crashes, tokens>>
  PROVE  Peace'
<1>1. r \in Id /\ Running(r) /\ req[r] \in Registering(r, S, f)
  <2>1. req[r] \in Registering(r, S, f) \cup Creating(S)
    BY ShapeAt DEF Sound, RequestsOK
  <2> QED BY <2>1, RequestIsId DEF Running, Creating
<1>2. PICK p, c : p = req[r].pod /\ c = req'[r]
  OBVIOUS
<1>3. /\ c.at = "insertTenant" /\ c.touches = req[r].touches /\ c.op = req[r].op /\ c.pod = p
      /\ c.admin = req[r].admin /\ c.email = req[r].email /\ c.slug = req[r].slug
      /\ c.nui = req[r].nui /\ c.code = req[r].code /\ c.tenant = req[r].tenant
      /\ \A q \in Request : q # r => req'[q] = req[q]
      /\ p \in Pod
  BY <1>1, <1>2 DEF Goto, Sound, RequestsOK, Registering
<1>4. /\ tenants'[p][r] = NewTenant(r)
      /\ \A o \in Pod, i \in Id : o # p \/ i # r => tenants'[o][i] = tenants[o][i]
  BY <1>1, <1>2, <1>3 DEF CacheNewTenant, Sound, TenantsOK
<1>5. /\ userRow[r] = None /\ tenantRow[r] = None /\ writers[r] = {}
      /\ \A o \in Pod : users[o][r] = None /\ tenants[o][r] = None
  BY Unstored
<1>6. Apart' /\ OthersStay(r, req[r].touches)
  BY <1>1, <1>2, <1>3, GoesOnApart
<1>7. CreatesOK(r) /\ {r, req[r].email} \subseteq req[r].touches
  BY DEF Peace, RequestOK, CreatesOK, Creates
<1>8. UNCHANGED <<NewUser(r), NewTenant(r)>>
  BY <1>2, <1>3 DEF NewUser, NewTenant
<1>9. RequestOK(r)'
  <2>1. ~EmailTaken(r, NewUser(r))
    BY <1>2, NoneFound DEF NewUser, ByEmail, Lookup
  <2>2. ~EmailTaken(r, NewUser(r))'
    BY <1>8, <2>1 DEF EmailTaken
  <2>3. tenants'[req'[r].pod][r] = NewTenant(r)'
    BY <1>2, <1>3, <1>4, <1>8
  <2>4. CreatesOK(r)'
    BY <1>2, <1>3, <1>5, <1>7, <2>2, <2>3 DEF CreatesOK, Creates
  <2> QED BY <1>2, <1>3, <2>4 DEF RequestOK, SavesOK, Saves, RenamesOK, ComparesOK, Compares,
                                  AltersOK, Alters, ListsOK, Reading
<1>10. Keeps(r) /\ \A q \in Request : Keeps(q)
  <2>1. Keeps(r)
    BY DEF Keeps, Saves, Alters
  <2> QED BY <1>3, <2>1, SameKeeps
<1>11. \A o \in Pod : Within(req[r].touches, o)
  BY <1>4, <1>5, <1>7 DEF Within
<1>12. ASSUME NEW i \in Id PROVE RowOK(i)'
  <2>1. RowOK(i)
    BY DEF Peace
  <2> QED BY <1>10, <2>1, RowStays DEF Keeps
<1>13. ASSUME NEW o \in Pod, NEW i \in Id PROVE UserOK(o, i)' /\ TenantOK(o, i)'
  <2>1. UserOK(o, i) /\ TenantOK(o, i)
    BY DEF Peace
  <2>2. UserOK(o, i)'
    BY <1>10, <2>1, UserStays DEF Keeps
  <2>3. CASE o # p \/ i # r
    <3>1. TenantOK(o, i)'
      BY <1>4, <1>10, <2>1, <2>3, TenantStays DEF Keeps
    <3> QED BY <2>2, <3>1
  <2>4. CASE o = p /\ i = r
    <3>1. TenantOK(p, r)'
      BY <1>2, <1>3, <1>5 DEF TenantOK
    <3> QED BY <2>2, <2>4, <3>1
  <2> QED BY <2>3, <2>4
<1> QED
  BY <1>6, <1>9, <1>11, <1>12, <1>13, ChangeStep

\* What r does before its user goes into the map.
StoresFirst(r) ==
    \/ /\ req[r].at = "email" /\ req[r].op = "createUser"
       /\ ByEmail(req[r].pod, req[r].email) = {}
       /\ UNCHANGED <<tenantRow, writers>>
    \/ /\ req[r].at = "insertTenant"
       /\ tenantRow' = [tenantRow EXCEPT ![r] = NewTenant(r)]
       /\ writers' = [writers EXCEPT ![r] = {req[r].pod}]

\* The user of r goes into the map, and its row is to follow; a registration
\* has just stored the company.
LEMMA PeaceNewUser ==
  ASSUME NEW S, NEW f, Sound(S, f), Peace, NEW r \in Request,
         StoresFirst(r), writers \in [Id -> SUBSET Pod], CacheNewUser(r), Goto(r, "insertUser"),
         UNCHANGED <<tenants, userRow, crashes, tokens>>
  PROVE  Peace'
<1>1. r \in Id /\ Running(r) /\ req[r] \in Registering(r, S, f) \cup Creating(S)
  <2>1. req[r] \in Registering(r, S, f) \cup Creating(S)
    BY ShapeAt DEF Sound, RequestsOK, StoresFirst
  <2> QED BY <2>1, RequestIsId DEF Running, StoresFirst
<1>2. PICK p, c : p = req[r].pod /\ c = req'[r]
  OBVIOUS
<1>3. /\ c.at = "insertUser" /\ c.touches = req[r].touches /\ c.op = req[r].op /\ c.pod = p
      /\ c.admin = req[r].admin /\ c.email = req[r].email /\ c.tenant = req[r].tenant
      /\ c.op = "register" => c.slug = req[r].slug /\ c.nui = req[r].nui
      /\ \A q \in Request : q # r => req'[q] = req[q]
      /\ p \in Pod
  BY <1>1, <1>2 DEF Goto, Sound, RequestsOK, Registering, Creating
<1>4. /\ users'[p][r] = NewUser(r)
      /\ \A o \in Pod, i \in Id : o # p \/ i # r => users'[o][i] = users[o][i]
  BY <1>1, <1>2, <1>3 DEF CacheNewUser, Sound, UsersOK
<1>5. /\ userRow[r] = None /\ tenantRow[r] = None /\ writers[r] = {}
      /\ \A o \in Pod : users[o][r] = None /\ (tenants[o][r] # None => o = p)
      /\ req[r].at = "email" => \A o \in Pod : tenants[o][r] = None
  BY <1>2, Unstored DEF StoresFirst
<1>6. Apart' /\ OthersStay(r, req[r].touches)
  BY <1>1, <1>2, <1>3, GoesOnApart
<1>7. CreatesOK(r) /\ {r, req[r].email} \subseteq req[r].touches
  BY DEF Peace, RequestOK, CreatesOK, Creates, StoresFirst
<1>8. UNCHANGED NewUser(r)
  BY <1>2, <1>3 DEF NewUser
<1>9. /\ writers'[r] \subseteq {p}
      /\ \A i \in Id : i # r => UNCHANGED <<tenantRow[i], writers[i]>>
      /\ tenantRow'[r] # None =>
           /\ req[r].at = "insertTenant" /\ req[r].op = "register" /\ req[r].tenant = r /\ req[r].admin
           /\ tenantRow'[r] = NewTenant(r) /\ tenants[p][r] = NewTenant(r)
           /\ tenantRow'[r].nui \in req[r].touches
  <2>1. CASE req[r].at = "email"
    BY <1>5, <2>1 DEF StoresFirst
  <2>2. CASE req[r].at = "insertTenant"
    <3>1. req[r] \in Registering(r, S, f)
      BY <2>2, ShapeAt DEF Sound, RequestsOK
    <3>2. req[r].op = "register" /\ req[r].tenant = r /\ NewTenant(r).nui = req[r].nui
      BY <3>1 DEF Registering, NewTenant
    <3>3. req[r].nui \in req[r].touches /\ req[r].admin /\ tenants[p][r] = NewTenant(r)
      BY <1>2, <1>7, <2>2, <3>2 DEF CreatesOK, Creates
    <3>4. tenantRow'[r] = NewTenant(r) /\ writers'[r] = {p}
      BY <1>1, <1>2, <2>2 DEF Sound, TenantsOK, Lists, StoresFirst
    <3>5. \A i \in Id : i # r => UNCHANGED <<tenantRow[i], writers[i]>>
      BY <1>1, <2>2 DEF Sound, TenantsOK, Lists, StoresFirst
    <3> QED BY <2>2, <3>2, <3>3, <3>4, <3>5
  <2> QED BY <2>1, <2>2 DEF StoresFirst
<1>10. RequestOK(r)'
  <2>1. ~EmailTaken(r, NewUser(r))
    <3>1. CASE req[r].at = "email"
      BY <1>2, <3>1, NoneFound DEF NewUser, ByEmail, Lookup, StoresFirst
    <3>2. CASE req[r].at = "insertTenant"
      BY <1>7, <3>2 DEF CreatesOK, Creates
    <3> QED BY <3>1, <3>2 DEF StoresFirst
  <2>2. ~EmailTaken(r, NewUser(r))'
    BY <1>8, <2>1 DEF EmailTaken
  <2>3. users'[req'[r].pod][r] = NewUser(r)'
    BY <1>2, <1>3, <1>4, <1>8
  <2>4. /\ {r, c.email} \subseteq c.touches
        /\ c.op = "register" => {c.slug, c.nui} \subseteq c.touches /\ c.admin
    BY <1>3, <1>7 DEF CreatesOK, Creates, StoresFirst
  <2>5. CreatesOK(r)'
    BY <1>2, <1>3, <1>5, <1>9, <2>2, <2>3, <2>4 DEF CreatesOK, Creates
  <2> QED BY <1>2, <1>3, <2>5 DEF RequestOK, SavesOK, Saves, RenamesOK, ComparesOK, Compares,
                                  AltersOK, Alters, ListsOK, Reading
<1>11. \A q \in Request : q # r => Keeps(q)
  BY <1>3, SameKeeps
<1>12. \A o \in Pod : Within(req[r].touches, o)
  <2>1. \A i \in Id \ req[r].touches : i # r
    BY <1>7
  <2> QED BY <1>4, <1>5, <1>7, <1>9, <2>1 DEF Within
<1>13. ASSUME NEW i \in Id PROVE RowOK(i)'
  <2>1. RowOK(i)
    BY DEF Peace
  <2>2. CASE i # r
    BY <1>9, <1>11, <2>1, <2>2, RowStays DEF Keeps
  <2>3. CASE i = r
    BY <1>2, <1>3, <1>5, <2>3 DEF RowOK
  <2> QED BY <2>2, <2>3
<1>14. \A q \in Request, o \in Pod, i \in Id :
           /\ Saves(q, o, i) => Saves(q, o, i)'
           /\ Alters(q, o, i) => Alters(q, o, i)'
  <2>1. \A o \in Pod, i \in Id : ~Saves(r, o, i) /\ ~Alters(r, o, i)
    BY DEF Saves, Alters, StoresFirst
  <2> QED BY <1>11, <2>1 DEF Keeps
<1>15. ASSUME NEW o \in Pod, NEW i \in Id PROVE UserOK(o, i)'
  <2>1. UserOK(o, i)
    BY DEF Peace
  <2>2. CASE i # r
    <3>1. users'[o][i] = users[o][i] /\ tenantRow'[i] = tenantRow[i] /\ writers'[i] = writers[i]
      BY <1>4, <1>9, <2>2
    <3>2. userRow'[i] = userRow[i] /\ writers[i] \subseteq writers'[i]
      BY <3>1
    <3>3. i \in Request /\ req[i].at = "insertUser" /\ req[i].pod = o =>
            req'[i].at = "insertUser" /\ req'[i].pod = o
      BY <1>3, <2>2
    <3>4. \A q \in Request : Saves(q, o, i) => Saves(q, o, i)'
      BY <1>14
    <3> QED BY <2>1, <3>1, <3>2, <3>3, <3>4, UserStays
  <2>3. CASE i = r /\ o # p
    BY <1>4, <1>5, <2>3 DEF UserOK
  <2>4. CASE i = r /\ o = p
    <3>1. tenantRow'[r] # None => users'[p][r].tenant = r /\ users'[p][r].admin
      BY <1>4, <1>9 DEF NewUser
    <3> QED BY <1>2, <1>3, <1>5, <2>4, <3>1 DEF UserOK
  <2> QED BY <2>2, <2>3, <2>4
<1>16. ASSUME NEW o \in Pod, NEW i \in Id PROVE TenantOK(o, i)'
  <2>1. TenantOK(o, i)
    BY DEF Peace
  <2>2. CASE i # r
    <3>1. tenantRow'[i] = tenantRow[i] /\ writers'[i] = writers[i]
      BY <1>9, <2>2
    <3>2. tenants'[o][i] = tenants[o][i] /\ writers[i] \subseteq writers'[i]
      BY <3>1
    <3>3. i \in Request => req'[i] = req[i]
      BY <1>3, <2>2
    <3>4. \A q \in Request : Alters(q, o, i) => Alters(q, o, i)'
      BY <1>14
    <3> QED BY <2>1, <3>1, <3>2, <3>3, <3>4, TenantStays
  <2>3. CASE i = r
    <3>1. CASE tenants[o][r] = None
      BY <2>3, <3>1 DEF TenantOK
    <3>2. CASE tenants[o][r] # None
      <4>1. o = p /\ req[r].at = "insertTenant"
        BY <1>5, <3>2 DEF StoresFirst
      <4>2. tenantRow'[r] = NewTenant(r) /\ tenants[p][r] = NewTenant(r)
        <5>1. tenantRow'[r] = NewTenant(r)
          BY <1>1, <4>1 DEF Sound, TenantsOK, Lists, StoresFirst
        <5>2. tenants[p][r] = NewTenant(r)
          BY <1>2, <1>7, <4>1 DEF CreatesOK, Creates
        <5> QED BY <5>1, <5>2
      <4> QED BY <2>3, <4>1, <4>2, TenantIsRow
    <3> QED BY <3>1, <3>2
  <2> QED BY <2>2, <2>3
<1> QED
  BY <1>6, <1>10, <1>12, <1>13, <1>15, <1>16, ChangeStep

\* A company is stored, and create throws on the name of its admin.
LEMMA PeaceThrown ==
  ASSUME NEW S, NEW f, Sound(S, f), Peace, NEW r \in Request, req[r].at = "insertTenant",
         writers \in [Id -> SUBSET Pod],
         tenantRow' = [tenantRow EXCEPT ![r] = NewTenant(r)],
         writers' = [writers EXCEPT ![r] = {req[r].pod}],
         req' = [req EXCEPT ![r] = Thrown],
         UNCHANGED <<users, tenants, userRow, crashes, tokens>>
  PROVE  Peace'
<1>1. r \in Id /\ Running(r) /\ req[r] \in Registering(r, S, f)
  BY ShapeAt, RequestIsId DEF Sound, RequestsOK, Running
<1>2. PICK p \in Pod : p = req[r].pod
  BY <1>1 DEF Registering
<1>3. /\ req'[r] = Thrown /\ req'[r].at = "done"
      /\ \A q \in Request : q # r => req'[q] = req[q]
  BY DEF Sound, RequestsOK, Thrown
<1>4. /\ userRow[r] = None /\ tenantRow[r] = None /\ writers[r] = {}
      /\ \A o \in Pod : users[o][r] = None /\ (tenants[o][r] # None => o = p)
  BY <1>2, Unstored
<1>5. /\ r \in req[r].touches /\ req[r].nui \in req[r].touches
      /\ tenants[p][r] = NewTenant(r) /\ NewTenant(r).nui = req[r].nui
  <2>1. req[r].op = "register"
    BY <1>1 DEF Registering
  <2>2. CreatesOK(r)
    BY DEF Peace, RequestOK
  <2> QED BY <1>2, <2>1, <2>2 DEF CreatesOK, Creates, NewTenant
<1>6. /\ tenantRow'[r] = NewTenant(r) /\ writers'[r] = {p}
      /\ \A i \in Id : i # r => UNCHANGED <<tenantRow[i], writers[i]>>
  BY <1>1, <1>2 DEF Sound, TenantsOK, Lists
<1>7. Apart' /\ OthersStay(r, req[r].touches)
  BY <1>1, <1>3, GoesOnApart DEF Running
<1>8. RequestOK(r)'
  BY <1>3, RestStaysOK
<1>9. \A o \in Pod : Within(req[r].touches, o)
  <2>1. \A i \in Id \ req[r].touches : i # r
    BY <1>5
  <2>2. \A i \in Id : tenantRow'[i] = tenantRow[i] \/ tenantRow'[i].nui \in req[r].touches
    BY <1>5, <1>6
  <2>3. \A o \in Pod, i \in Id :
          tenantRow[i] = None /\ tenantRow'[i] # None /\ tenants'[o][i] # None =>
            tenants'[o][i].nui \in req[r].touches
    BY <1>4, <1>5, <1>6
  <2> QED BY <1>6, <2>1, <2>2, <2>3 DEF Within
<1>10. ASSUME NEW i \in Id PROVE RowOK(i)'
  <2>1. RowOK(i)
    BY DEF Peace
  <2>2. CASE i # r
    <3>1. UNCHANGED <<userRow[i], tenantRow[i], writers[i]>>
      BY <1>6, <2>2
    <3>2. i \in Request => req'[i] = req[i]
      BY <1>3, <2>2
    <3> QED BY <2>1, <3>1, <3>2, RowStays
  <2>3. CASE i = r
    <3>1. r \notin tokens \/ crashes # 0
      BY <1>4, <2>1, <2>3 DEF RowOK
    <3> QED BY <1>3, <1>4, <2>3, <3>1 DEF RowOK
  <2> QED BY <2>2, <2>3
<1>11. \A q \in Request, o \in Pod, i \in Id :
           /\ Saves(q, o, i) => Saves(q, o, i)'
           /\ Alters(q, o, i) => Alters(q, o, i)'
  BY <1>3 DEF Saves, Alters
<1>12. ASSUME NEW o \in Pod, NEW i \in Id PROVE UserOK(o, i)' /\ TenantOK(o, i)'
  <2>1. UserOK(o, i) /\ TenantOK(o, i)
    BY DEF Peace
  <2>2. CASE i # r
    <3>1. UNCHANGED <<users[o][i], tenants[o][i], userRow[i], tenantRow[i], writers[i]>>
      BY <1>6, <2>2
    <3>2. i \in Request => req'[i] = req[i]
      BY <1>3, <2>2
    <3>3. UserOK(o, i)'
      BY <1>11, <2>1, <3>1, <3>2, UserStays
    <3>4. TenantOK(o, i)'
      BY <1>11, <2>1, <3>1, <3>2, TenantStays
    <3> QED BY <3>3, <3>4
  <2>3. CASE i = r
    <3>1. UserOK(o, r)'
      BY <1>4 DEF UserOK
    <3>2. TenantOK(o, r)'
      <4>1. CASE tenants[o][r] = None
        BY <4>1 DEF TenantOK
      <4>2. CASE tenants[o][r] # None
        <5>1. tenants'[o][r] = tenantRow'[r]
          BY <1>4, <1>5, <1>6, <4>2
        <5> QED BY <5>1, TenantIsRow
      <4> QED BY <4>1, <4>2
    <3> QED BY <2>3, <3>1, <3>2
  <2> QED BY <2>2, <2>3
<1> QED
  BY <1>7, <1>8, <1>9, <1>10, <1>12, ChangeStep

LEMMA PeaceEmail ==
  ASSUME NEW S, NEW f, Sound(S, f), Peace, writers \in [Id -> SUBSET Pod], NEW r \in Request,
         CheckEmail(r) \/ InsertTenant(r)
  PROVE  Peace'
<1>1. CASE CheckEmail(r)
  <2>1. req[r].at = "email" /\ UNCHANGED <<userRow, tenantRow, writers, crashes, tokens>>
    BY <1>1 DEF CheckEmail, tables, bounds
  <2>2. CASE CloseCode(r) /\ CacheUsers(req[r].pod, ByEmail(req[r].pod, req[r].email)) /\ UNCHANGED tenants
    BY <2>1, <2>2, PeaceRefused
  <2>3. CASE /\ ByEmail(req[r].pod, req[r].email) = {} /\ req[r].op = "register"
             /\ CacheNewTenant(r) /\ Goto(r, "insertTenant") /\ UNCHANGED users
    BY <2>1, <2>3, PeaceNewTenant
  <2>4. CASE /\ ByEmail(req[r].pod, req[r].email) = {} /\ req[r].op = "createUser"
             /\ CacheNewUser(r) /\ Goto(r, "insertUser") /\ UNCHANGED tenants
    <3>1. StoresFirst(r)
      BY <2>1, <2>4 DEF StoresFirst
    <3> QED BY <2>1, <2>4, <3>1, PeaceNewUser
  <2>5. CASE Finish(r) /\ UNCHANGED <<users, tenants>>
    BY <2>1, <2>5, PeaceRefused
  <2> QED BY <1>1, <2>2, <2>3, <2>4, <2>5 DEF CheckEmail, maps
<1>2. CASE InsertTenant(r)
  <2>1. req[r].at = "insertTenant" /\ UNCHANGED <<tenants, userRow, crashes, tokens>>
    BY <1>2 DEF InsertTenant, bounds
  <2>2. CASE Finish(r) /\ UNCHANGED <<users, tenantRow, writers>>
    BY <2>1, <2>2, PeaceRefused
  <2>3. CASE /\ tenantRow' = [tenantRow EXCEPT ![r] = NewTenant(r)]
             /\ writers' = [writers EXCEPT ![r] = {req[r].pod}]
             /\ CacheNewUser(r) /\ Goto(r, "insertUser")
    <3>1. StoresFirst(r)
      BY <2>1, <2>3 DEF StoresFirst
    <3> QED BY <2>1, <2>3, <3>1, PeaceNewUser
  <2>4. CASE /\ tenantRow' = [tenantRow EXCEPT ![r] = NewTenant(r)]
             /\ writers' = [writers EXCEPT ![r] = {req[r].pod}]
             /\ req' = [req EXCEPT ![r] = Thrown] /\ UNCHANGED users
    BY <2>1, <2>4, PeaceThrown
  <2> QED BY <1>2, <2>2, <2>3, <2>4 DEF InsertTenant
<1> QED
  BY <1>1, <1>2

LEMMA PeaceInsertUser ==
  ASSUME NEW S, NEW f, Sound(S, f), Peace, writers \in [Id -> SUBSET Pod], NEW r \in Request,
         InsertUser(r)
  PROVE  Peace'
<1>1. /\ req[r].at = "insertUser" /\ Running(r) /\ r \in Id
      /\ req[r] \in Registering(r, S, f) \cup Creating(S)
      /\ UNCHANGED <<users, tenantRow, crashes>>
  <2>1. req[r].at = "insertUser" /\ UNCHANGED <<users, tenantRow, crashes>>
    BY DEF InsertUser, bounds
  <2>2. req[r] \in Registering(r, S, f) \cup Creating(S)
    BY <2>1, ShapeAt DEF Sound, RequestsOK
  <2> QED BY <2>1, <2>2, RequestIsId DEF Running
<1>2. PICK p : p = req[r].pod
  OBVIOUS
<1>3. p \in Pod
  BY <1>1, <1>2 DEF Registering, Creating
<1>4. /\ {r, req[r].email} \subseteq req[r].touches
      /\ userRow[r] = None /\ ~EmailTaken(r, NewUser(r)) /\ users[p][r] = NewUser(r)
      /\ writers[r] \subseteq {p}
      /\ tenantRow[r] # None => req[r].op = "register" /\ req[r].admin
  BY <1>1, <1>2 DEF Peace, RequestOK, CreatesOK, Creates
<1>5. /\ userRow' = [userRow EXCEPT ![r] = NewUser(r)]
      /\ writers' = [writers EXCEPT ![r] = {p}]
      /\ tokens' \subseteq tokens \cup {r}
      /\ UNCHANGED tenants \/ \E ts : CacheTenants(p, ts)
      /\ req'[r] = Done /\ \A q \in Request : q # r => req'[q] = req[q]
  <2>1. Finish(r) \/ CloseCode(r)
    BY <1>4 DEF InsertUser
  <2>2. req'[r] = Done /\ \A q \in Request : q # r => req'[q] = req[q]
    BY <2>1, Ended
  <2> QED BY <1>2, <1>4, <2>2 DEF InsertUser, IssueTokens
<1>6. /\ userRow'[r] = NewUser(r) /\ writers'[r] = {p}
      /\ \A i \in Id : i # r => UNCHANGED <<userRow[i], writers[i]>>
  BY <1>1, <1>5 DEF Sound, UsersOK
<1>7. \A o \in Pod, i \in Id :
          /\ tenants'[o][i] \in {tenants[o][i], tenantRow[i]}
          /\ tenants[o][i] # None => tenants'[o][i] = tenants[o][i]
  <2>1. CASE UNCHANGED tenants
    BY <2>1
  <2>2. ASSUME NEW ts, CacheTenants(p, ts)
        PROVE  \A o \in Pod, i \in Id :
                   /\ tenants'[o][i] \in {tenants[o][i], tenantRow[i]}
                   /\ tenants[o][i] # None => tenants'[o][i] = tenants[o][i]
    <3>1. tenants' = [tenants EXCEPT ![p] =
                        [t \in Id |-> IF t \in ts THEN TenantAt(p, t) ELSE tenants[p][t]]]
      BY <2>2 DEF CacheTenants, Sound, TenantsOK
    <3> QED BY <1>3, <3>1 DEF TenantAt, Sound, TenantsOK
  <2> QED BY <1>5, <2>1, <2>2
<1>8. Apart' /\ OthersStay(r, req[r].touches)
  <2>1. ~Running(r)'
    BY <1>5 DEF Running, Done
  <2> QED BY <1>1, <1>5, <2>1, GoesOnApart
<1>9. RequestOK(r)' /\ req'[r].at = "done"
  BY <1>5, RestStaysOK DEF Done
<1>10. \A o \in Pod : Within(req[r].touches, o)
  <2>1. \A i \in Id \ req[r].touches : i # r
    BY <1>4
  <2>2. NewUser(r).email \in req[r].touches
    BY <1>4 DEF NewUser
  <2> QED BY <1>1, <1>6, <1>7, <2>1, <2>2 DEF Within
<1>11. tenantRow[r] # None => NewUser(r).tenant = r /\ NewUser(r).admin
  <2> SUFFICES ASSUME tenantRow[r] # None PROVE NewUser(r).tenant = r /\ NewUser(r).admin
    OBVIOUS
  <2>1. req[r].op = "register" /\ req[r].admin
    BY <1>4
  <2>2. req[r].tenant = r
    BY <1>1, <2>1 DEF Registering, Creating
  <2> QED BY <2>1, <2>2 DEF NewUser
<1>12. NewUser(r) # None
  BY DEF NewUser, None
<1>13. ASSUME NEW i \in Id PROVE RowOK(i)'
  <2>1. RowOK(i)
    BY DEF Peace
  <2>2. CASE i # r
    <3>1. i \in tokens' => i \in tokens
      BY <1>5, <2>2
    <3>2. UNCHANGED <<userRow[i], tenantRow[i], writers[i]>>
      BY <1>1, <1>6, <2>2
    <3>3. i \in Request => req'[i] = req[i]
      BY <1>5, <2>2
    <3> QED BY <1>1, <2>1, <3>1, <3>2, <3>3, RowStays
  <2>3. CASE i = r
    BY <1>1, <1>6, <1>9, <1>11, <1>12, <2>3 DEF RowOK
  <2> QED BY <2>2, <2>3
<1>14. \A q \in Request, o \in Pod, i \in Id :
           /\ Saves(q, o, i) => Saves(q, o, i)'
           /\ Alters(q, o, i) => Alters(q, o, i)'
  BY <1>1, <1>5 DEF Saves, Alters
<1>15. ASSUME NEW o \in Pod, NEW i \in Id PROVE UserOK(o, i)'
  <2>1. UserOK(o, i)
    BY DEF Peace
  <2>2. CASE i # r
    <3>1. UNCHANGED <<users[o][i], userRow[i]>> /\ writers'[i] = writers[i] /\ tenantRow'[i] = tenantRow[i]
      BY <1>1, <1>6, <2>2
    <3>2. i \in Request => req'[i] = req[i]
      BY <1>5, <2>2
    <3> QED BY <1>14, <2>1, <3>1, <3>2, UserStays
  <2>3. CASE i = r
    <3>1. users[o][r] # None => o = p
      BY <1>2, <1>4, <2>1, <2>3 DEF UserOK
    <3>2. o = p => users'[o][r] = userRow'[r]
      BY <1>1, <1>4, <1>6
    <3>3. CASE o = p
      BY <1>13, <2>3, <3>2, <3>3, UserIsRow
    <3>4. CASE o # p
      BY <1>1, <2>3, <3>1, <3>4 DEF UserOK
    <3> QED BY <3>3, <3>4
  <2> QED BY <2>2, <2>3
<1>16. ASSUME NEW o \in Pod, NEW i \in Id PROVE TenantOK(o, i)'
  <2>1. TenantOK(o, i)
    BY DEF Peace
  <2>2. CASE tenants'[o][i] = tenantRow[i]
    BY <1>1, <2>2, TenantIsRow
  <2>3. CASE tenants'[o][i] = tenants[o][i]
    <3>1. tenantRow'[i] = tenantRow[i] /\ writers[i] \subseteq writers'[i]
      BY <1>1, <1>4, <1>6
    <3>2. i \in Request /\ req'[i].at # "done" => req'[i] = req[i]
      BY <1>5, <1>9
    <3> QED BY <1>14, <2>1, <2>3, <3>1, <3>2, TenantStays
  <2> QED BY <1>7, <2>2, <2>3
<1> QED
  BY <1>8, <1>9, <1>10, <1>13, <1>15, <1>16, ChangeStep

\* The request that stores a changed object is done with it.
LEMMA PeaceWriteUser ==
  ASSUME NEW S, NEW f, Sound(S, f), Peace, Unique, writers \in [Id -> SUBSET Pod], NEW r \in Request,
         WriteUser(r)
  PROVE  Peace'
<1>1. /\ req[r].at = "writeUser" /\ Running(r) /\ req[r] \in Saving(S) \cup Renamed(S)
      /\ UNCHANGED <<users, tenants, tenantRow, tokens, crashes>>
  <2>1. req[r].at = "writeUser" /\ UNCHANGED <<users, tenants, tenantRow, tokens, crashes>>
    BY DEF WriteUser, maps, bounds
  <2>2. req[r] \in Saving(S) \cup Renamed(S)
    BY <2>1, ShapeAt DEF Sound, RequestsOK
  <2> QED BY <2>1, <2>2 DEF Running
<1>2. PICK p, u, row : p = req[r].pod /\ u = req[r].user /\ row = req[r].row
  OBVIOUS
<1>3. p \in Pod /\ u \in Id /\ row # None
  BY <1>1, <1>2, SomeUser DEF Saving, Renamed
<1>4. /\ users[p][u] = row /\ userRow[u] # None
      /\ {u, row.email} \subseteq req[r].touches
      /\ writers[u] \subseteq {p} => ~EmailTaken(u, row)
  BY <1>1, <1>2, <1>3 DEF Peace, RequestOK, SavesOK, Saves
<1>5. req'[r] = Done /\ \A q \in Request : q # r => req'[q] = req[q]
  BY Ended DEF WriteUser
<1>6. /\ \A i \in Id : i # u => UNCHANGED <<userRow[i], writers[i]>>
      /\ \/ UNCHANGED <<userRow, writers>> /\ ~(writers[u] \subseteq {p})
         \/ userRow'[u] = row /\ writers'[u] = writers[u] \cup {p}
  <2>1. CASE UNCHANGED <<userRow, writers>> /\ EmailTaken(u, row)
    BY <1>4, <2>1
  <2>2. CASE userRow' = [userRow EXCEPT ![u] = row] /\ writers' = [writers EXCEPT ![u] = writers[u] \cup {p}]
    BY <1>3, <2>2 DEF Sound, UsersOK
  <2> QED BY <1>2, <1>3, <2>1, <2>2 DEF WriteUser
<1>7. userRow'[u] \in {userRow[u], row} /\ userRow'[u] # None /\ writers[u] \subseteq writers'[u]
  BY <1>3, <1>4, <1>6
<1>8. Apart' /\ OthersStay(r, req[r].touches)
  <2>1. ~Running(r)'
    BY <1>5 DEF Running, Done
  <2> QED BY <1>1, <1>5, <2>1, GoesOnApart
<1>9. RequestOK(r)' /\ req'[r].at = "done"
  BY <1>5, RestStaysOK DEF Done
<1>10. \A o \in Pod : Within(req[r].touches, o)
  <2>1. \A i \in Id \ req[r].touches : i # u
    BY <1>4
  <2> QED BY <1>1, <1>4, <1>6, <1>7, <2>1 DEF Within
<1>11. u # r
  BY <1>1, <1>3, <1>4 DEF Peace, RowOK
<1>12. ASSUME NEW i \in Id PROVE RowOK(i)'
  <2>1. RowOK(i)
    BY DEF Peace
  <2>2. i \in Request =>
          /\ req[i].at = "done" => req'[i] = req[i]
          /\ req[i].at = "insertUser" => req'[i].at = "insertUser"
    BY <1>1, <1>5, <1>9
  <2>3. CASE i # u
    <3>1. UNCHANGED <<userRow[i], tenantRow[i], writers[i]>>
      BY <1>1, <1>6, <2>3
    <3> QED BY <1>1, <2>1, <2>2, <3>1, RowStays
  <2>4. CASE i = u
    <3>1. u \in Request => req[u].at = "done" /\ req'[u].at = "done"
      BY <1>4, <1>5, <1>11, <2>1, <2>4 DEF RowOK
    <3>2. UserOK(p, u)
      BY <1>3 DEF Peace
    <3>3. tenantRow[u] # None => userRow'[u].tenant = u /\ userRow'[u].admin
      BY <1>3, <1>4, <1>7, <2>1, <2>4, <3>2 DEF RowOK, UserOK
    <3> QED BY <1>1, <1>7, <2>1, <2>4, <3>1, <3>3 DEF RowOK
  <2> QED BY <2>3, <2>4
<1>13. \A q \in Request, o \in Pod, i \in Id :
           /\ Saves(q, o, i) => Saves(q, o, i)' \/ (o = p /\ i = u)
           /\ Alters(q, o, i) => Alters(q, o, i)'
  BY <1>1, <1>2, <1>5 DEF Saves, Alters
<1>14. ASSUME NEW o \in Pod, NEW i \in Id PROVE UserOK(o, i)'
  <2>1. UserOK(o, i)
    BY DEF Peace
  <2>2. CASE i # u
    <3>1. UNCHANGED <<users[o][i], userRow[i]>> /\ writers'[i] = writers[i] /\ tenantRow'[i] = tenantRow[i]
      BY <1>1, <1>6, <2>2
    <3>2. i \in Request /\ req[i].at = "insertUser" /\ req[i].pod = o =>
            req'[i].at = "insertUser" /\ req'[i].pod = o
      BY <1>1, <1>5
    <3>3. \A q \in Request : Saves(q, o, i) => Saves(q, o, i)'
      BY <1>13, <2>2
    <3> QED BY <2>1, <3>1, <3>2, <3>3, UserStays
  <2>3. CASE i = u /\ UNCHANGED <<userRow, writers>> /\ ~(writers[u] \subseteq {p})
    <3>1. \A q \in Request : o # p => (Saves(q, o, i) => Saves(q, o, i)')
      BY <1>13
    <3>2. o = p => ~(writers'[i] \subseteq {o})
      BY <2>3
    <3> QED BY <1>1, <1>7, <2>1, <2>3, <3>1, <3>2 DEF UserOK
  <2>4. CASE i = u /\ userRow'[u] = row /\ writers'[u] = writers[u] \cup {p}
    <3>1. o # p => ~(writers'[i] \subseteq {o})
      BY <2>4
    <3>2. o = p => users'[o][i] = userRow'[i]
      BY <1>1, <1>4, <2>4
    <3> QED BY <1>1, <1>7, <2>1, <2>4, <3>1, <3>2 DEF UserOK
  <2> QED BY <1>6, <2>2, <2>3, <2>4
<1>15. ASSUME NEW o \in Pod, NEW i \in Id PROVE TenantOK(o, i)'
  <2>1. TenantOK(o, i)
    BY DEF Peace
  <2>2. UNCHANGED <<tenants[o][i], tenantRow[i]>> /\ writers[i] \subseteq writers'[i]
    BY <1>1, <1>6, <1>7
  <2>3. i \in Request /\ req'[i].at # "done" => req'[i] = req[i]
    BY <1>5, <1>9
  <2>4. \A q \in Request : Alters(q, o, i) => Alters(q, o, i)'
    BY <1>13
  <2> QED BY <2>1, <2>2, <2>3, <2>4, TenantStays
<1> QED
  BY <1>8, <1>9, <1>10, <1>12, <1>14, <1>15, ChangeStep

LEMMA PeaceWriteTenant ==
  ASSUME NEW S, NEW f, Sound(S, f), Peace, Unique, writers \in [Id -> SUBSET Pod], NEW r \in Request,
         WriteTenant(r)
  PROVE  Peace'
<1>1. /\ req[r].at = "writeTenant" /\ Running(r) /\ req[r] \in Changing(f)
      /\ UNCHANGED <<users, tenants, userRow, tokens, crashes>>
  <2>1. req[r].at = "writeTenant" /\ UNCHANGED <<users, tenants, userRow, tokens, crashes>>
    BY DEF WriteTenant, maps, bounds
  <2>2. req[r] \in Changing(f)
    BY <2>1, ShapeAt DEF Sound, RequestsOK
  <2> QED BY <2>1, <2>2 DEF Running
<1>2. PICK p, t, row : p = req[r].pod /\ t = req[r].tenant /\ row = req[r].row
  OBVIOUS
<1>3. p \in Pod /\ t \in Id
  BY <1>1, <1>2 DEF Changing
<1>4. /\ tenants[p][t] = row /\ row # None /\ tenantRow[t] # None /\ t \in req[r].touches
      /\ writers[t] \subseteq {p} =>
           /\ row.slug = tenantRow[t].slug
           /\ row.nui = tenantRow[t].nui \/ NuiFree(r, t, row.nui)
  <2>1. Alters(r, p, t)
    BY <1>1, <1>2 DEF Alters
  <2> QED BY <1>1, <1>2, <1>3, <2>1 DEF Peace, RequestOK, AltersOK
<1>5. writers[t] \subseteq {p} => ~SlugOrNuiTaken(t, row)
  BY <1>1, <1>3, <1>4 DEF SlugOrNuiTaken, NuiFree, Unique
<1>6. req'[r] = Done /\ \A q \in Request : q # r => req'[q] = req[q]
  BY Ended DEF WriteTenant
<1>7. /\ \A i \in Id : i # t => UNCHANGED <<tenantRow[i], writers[i]>>
      /\ \/ UNCHANGED <<tenantRow, writers>> /\ ~(writers[t] \subseteq {p})
         \/ tenantRow'[t] = row /\ writers'[t] = writers[t] \cup {p}
  <2>1. CASE UNCHANGED <<tenantRow, writers>> /\ SlugOrNuiTaken(t, row)
    BY <1>5, <2>1
  <2>2. CASE tenantRow' = [tenantRow EXCEPT ![t] = row] /\ writers' = [writers EXCEPT ![t] = writers[t] \cup {p}]
    BY <1>3, <2>2 DEF Sound, TenantsOK, Lists
  <2> QED BY <1>2, <1>3, <2>1, <2>2 DEF WriteTenant
<1>8. tenantRow'[t] \in {tenantRow[t], row} /\ tenantRow'[t] # None /\ writers[t] \subseteq writers'[t]
  BY <1>3, <1>4, <1>7
<1>9. Apart' /\ OthersStay(r, req[r].touches)
  <2>1. ~Running(r)'
    BY <1>6 DEF Running, Done
  <2> QED BY <1>1, <1>6, <2>1, GoesOnApart
<1>10. RequestOK(r)' /\ req'[r].at = "done"
  BY <1>6, RestStaysOK DEF Done
<1>11. \A o \in Pod : Within(req[r].touches, o)
  <2>1. \A i \in Id \ req[r].touches : i # t
    BY <1>4
  <2>2. \A i \in Id : \/ tenantRow'[i] = tenantRow[i]
                      \/ tenantRow[i] # None /\ \E o \in Pod : tenants[o][i] = tenantRow'[i]
    BY <1>3, <1>4, <1>7, <1>8
  <2>3. \A i \in Id : ~(tenantRow[i] = None /\ tenantRow'[i] # None)
    BY <1>4, <1>7
  <2> QED BY <1>1, <1>7, <2>1, <2>2, <2>3 DEF Within
<1>12. \A i \in Request : req[i].at \in {"insertUser", "done"} => req'[i] = req[i]
  BY <1>1, <1>6
<1>13. ASSUME NEW i \in Id PROVE RowOK(i)'
  <2>1. RowOK(i)
    BY DEF Peace
  <2>2. CASE i # t
    <3>1. UNCHANGED <<userRow[i], tenantRow[i], writers[i]>>
      BY <1>1, <1>7, <2>2
    <3> QED BY <1>1, <1>12, <2>1, <3>1, RowStays
  <2>3. CASE i = t
    BY <1>1, <1>4, <1>8, <1>12, <2>1, <2>3 DEF RowOK
  <2> QED BY <2>2, <2>3
<1>14. \A q \in Request, o \in Pod, i \in Id :
           /\ Saves(q, o, i) => Saves(q, o, i)'
           /\ Alters(q, o, i) => Alters(q, o, i)' \/ (o = p /\ i = t)
  BY <1>1, <1>2, <1>6 DEF Saves, Alters
<1>15. ASSUME NEW o \in Pod, NEW i \in Id PROVE UserOK(o, i)'
  <2>1. UserOK(o, i)
    BY DEF Peace
  <2>2. UNCHANGED <<users[o][i], userRow[i]>> /\ writers[i] \subseteq writers'[i]
    BY <1>1, <1>7, <1>8
  <2>3. tenantRow[i] = None => tenantRow'[i] = None
    BY <1>4, <1>7
  <2>4. i \in Request /\ req[i].at = "insertUser" /\ req[i].pod = o =>
          req'[i].at = "insertUser" /\ req'[i].pod = o
    BY <1>1, <1>6
  <2>5. \A q \in Request : Saves(q, o, i) => Saves(q, o, i)'
    BY <1>14
  <2> QED BY <2>1, <2>2, <2>3, <2>4, <2>5, UserStays
<1>16. ASSUME NEW o \in Pod, NEW i \in Id PROVE TenantOK(o, i)'
  <2>1. TenantOK(o, i)
    BY DEF Peace
  <2>2. CASE i # t
    <3>1. UNCHANGED <<tenants[o][i], tenantRow[i]>> /\ writers[i] \subseteq writers'[i]
      BY <1>1, <1>7, <2>2
    <3>2. i \in Request /\ req'[i].at # "done" => req'[i] = req[i]
      BY <1>6, <1>10
    <3>3. \A q \in Request : Alters(q, o, i) => Alters(q, o, i)'
      BY <1>14, <2>2
    <3> QED BY <2>1, <3>1, <3>2, <3>3, TenantStays
  <2>3. CASE i = t /\ UNCHANGED <<tenantRow, writers>> /\ ~(writers[t] \subseteq {p})
    <3>1. \A q \in Request : o # p => (Alters(q, o, i) => Alters(q, o, i)')
      BY <1>14
    <3>2. o = p => ~(writers'[i] \subseteq {o})
      BY <2>3
    <3> QED BY <1>1, <1>8, <2>1, <2>3, <3>1, <3>2 DEF TenantOK
  <2>4. CASE i = t /\ tenantRow'[t] = row /\ writers'[t] = writers[t] \cup {p}
    <3>1. o # p => ~(writers'[i] \subseteq {o})
      BY <2>4
    <3>2. o = p => tenants'[o][i] = tenantRow'[i]
      BY <1>1, <1>4, <2>4
    <3> QED BY <1>8, <2>4, <3>1, <3>2 DEF TenantOK
  <2> QED BY <1>7, <2>2, <2>3, <2>4
<1> QED
  BY <1>9, <1>10, <1>11, <1>13, <1>15, <1>16, ChangeStep

LEMMA PeaceSetNui ==
  ASSUME NEW S, NEW f, Sound(S, f), Peace, NEW r \in Request, SetNui(r)
  PROVE  Peace'
<1>1. /\ req[r].at = "list" /\ Running(r) /\ Reading(r) /\ req[r] \in Comparing(f)
      /\ UNCHANGED <<users, userRow, tenantRow, writers, crashes, tokens>>
  <2>1. req[r].at = "list" /\ UNCHANGED <<users, userRow, tenantRow, writers, crashes, tokens>>
    BY DEF SetNui, tables, bounds
  <2>2. req[r] \in Comparing(f)
    BY <2>1, ShapeAt DEF Sound, RequestsOK
  <2> QED BY <2>1, <2>2 DEF Running, Reading
<1>2. PICK p, t, list, n : p = req[r].pod /\ t = req[r].holds /\ list = req[r].list /\ n = req[r].nui
  OBVIOUS
<1>3. p \in Pod /\ t \in Id /\ list[t] # None /\ req[r].op = "business"
  BY <1>1, <1>2 DEF Comparing
<1>4. \A i \in Id : list[i] # None => i \in req[r].touches /\ list[i] = tenantRow[i]
  BY <1>1, <1>2 DEF Peace, RequestOK, ListsOK
<1>5. /\ req[r].obj = Cached /\ n \in req[r].touches /\ NuiFree(r, t, n)
      /\ \A x \in Id : x \in req[r].touches => list[x] = tenantRow[x]
  <2>1. Compares(r, p, t)
    BY <1>1, <1>2 DEF Compares
  <2> QED BY <1>2, <1>3, <2>1 DEF Peace, RequestOK, ComparesOK
<1>6. t \in req[r].touches /\ tenantRow[t] # None
  BY <1>3, <1>4
<1>7. PICK detached : detached = Detach(tenants, "business", p, Stored(list), r)
  OBVIOUS
<1>8. PICK listed : listed = Relisted(tenants[p], list)
  OBVIOUS
<1>9. \A i \in Id : listed[i] = IF list[i] # None THEN list[i] ELSE tenants[p][i]
  BY <1>8 DEF Relisted
<1>10. \A q \in Request : q # r => detached[q] = req[q]
  <2>1. \A q \in Request, i \in Stored(list) : q # r => ~Holds(req, q, "business", p, i)
    BY <1>1, <1>2, <1>4, NoOneHolds DEF Stored
  <2> QED BY <1>7, <2>1 DEF Detach
<1>11. CASE /\ tenants' = [tenants EXCEPT ![p] = listed]
            /\ req' = [detached EXCEPT ![r] = Done]
  <2>1. req'[r] = Done /\ \A q \in Request : q # r => req'[q] = req[q]
    BY <1>7, <1>10, <1>11 DEF Detach
  <2>2. Follows(req[r].touches)
    BY <1>1, <1>3, <1>4, <1>9, <1>11 DEF Follows, Sound, TenantsOK
  <2>3. \A o \in Pod, i \in Id : ~Saves(r, o, i) /\ ~Alters(r, o, i)
    BY <1>1 DEF Saves, Alters
  <2> QED BY <1>1, <2>1, <2>2, <2>3, EndStep
<1>12. CASE ~(/\ tenants' = [tenants EXCEPT ![p] = listed]
              /\ req' = [detached EXCEPT ![r] = Done])
  <2>1. PICK object : object = UpdateBusiness(detached[r].obj.val, n)
    OBVIOUS
  <2>2. PICK back : back = PutBack(detached, listed[t], r)
    OBVIOUS
  <2>3. /\ \A x \in Stored(list) \ {t} : list[x].nui # n
        /\ tenants' = [tenants EXCEPT ![p] = [listed EXCEPT ![t] = object]]
        /\ req' = [back EXCEPT ![r] = [op |-> "business", at |-> "count", pod |-> p, holds |-> t,
                                       obj |-> Cached, touches |-> back[r].touches]]
    <3>1. /\ ~\E x \in Stored(list) \ {t} : list[x].nui = n
          /\ tenants' = [tenants EXCEPT ![p] = [listed EXCEPT ![t] = object]]
          /\ req' = [PutBack(detached, listed[t], r) EXCEPT ![r] =
                       [op |-> "business", at |-> "count", pod |-> p, holds |-> t,
                        obj |-> Cached, touches |-> @.touches]]
      BY <1>2, <1>7, <1>8, <1>12, <2>1 DEF SetNui
    <3>2. back = [q \in Request |-> back[q]]
      BY <2>2 DEF PutBack
    <3> QED BY <2>2, <3>1, <3>2
  <2>4. tenants[p][t] # None /\ tenants[p][t] \in AnyCompany
    BY <1>1, <1>2, <1>3, <1>5 DEF Sound, HoldsSome, TenantsOK, Company
  <2>5. detached[r] = [req[r] EXCEPT !.obj = [by |-> r, val |-> tenants[p][t]]]
    <3>1. Holds(req, r, "business", p, t)
      BY <1>1, <1>2 DEF Holds, Comparing
    <3>2. t \in Stored(list)
      BY <1>3 DEF Stored
    <3> QED BY <1>2, <1>5, <1>7, <3>1, <3>2 DEF Detach
  <2>6. /\ detached[r].obj.val = tenants[p][t] /\ detached[r].touches = req[r].touches
        /\ detached[r].op = req[r].op /\ detached[r].pod = req[r].pod /\ detached[r].holds = req[r].holds
    BY <1>1, <2>5 DEF Comparing
  <2>7. /\ object # None /\ object.nui = n /\ object.slug = tenants[p][t].slug
    BY <2>1, <2>4, <2>6 DEF UpdateBusiness, AnyCompany, None
  <2>8. back[r].touches = req[r].touches
    <3>1. detached[r] \in [op : {"business"}, at : {"list"}, pod : Pod, holds : Id, nui : Nui,
                           obj : [by : Request, val : AnyCompany], list : Lists(f), touches : Touched]
      BY <1>1, <2>4, <2>5 DEF Comparing
    <3>2. back[r] \in {detached[r], [detached[r] EXCEPT !.obj = Cached],
                       [detached[r] EXCEPT !.obj = [by |-> r, val |-> listed[t]]]}
      BY <2>2 DEF PutBack
    <3> QED BY <2>6, <3>1, <3>2
  <2>9. \A q \in Request : q # r => back[q] = req[q]
    <3> SUFFICES ASSUME NEW q \in Request, q # r PROVE back[q] = req[q]
      OBVIOUS
    <3> QED BY <1>1, <1>2, <1>6, <1>10, <2>2, <2>6, PutsBackAlone
  <2>10. PICK c : c = [op |-> "business", at |-> "count", pod |-> p, holds |-> t,
                       obj |-> Cached, touches |-> req[r].touches]
    OBVIOUS
  <2>11. req'[r] = c /\ \A q \in Request : q # r => req'[q] = req[q]
    BY <2>2, <2>3, <2>8, <2>9, <2>10 DEF PutBack
  <2>12. /\ c.at = "count" /\ c.pod = p /\ c.holds = t /\ c.obj = Cached /\ c.touches = req[r].touches
    BY <2>10
  <2>13. /\ tenants'[p][t] = object
         /\ \A i \in Id : i # t => tenants'[p][i] = IF list[i] # None THEN tenantRow[i] ELSE tenants[p][i]
         /\ \A o \in Pod : o # p => tenants'[o] = tenants[o]
    <3>1. listed = [i \in Id |-> listed[i]]
      BY <1>8 DEF Relisted
    <3> QED BY <1>3, <1>4, <1>9, <2>3, <3>1 DEF Sound, TenantsOK
  <2>14. Apart' /\ OthersStay(r, req[r].touches)
    BY <1>1, <2>11, <2>12, GoesOnApart
  <2>15. \A o \in Pod : Within(req[r].touches, o)
    <3>1. ASSUME NEW o \in Pod, NEW i \in Id, i \notin req[r].touches
          PROVE  tenants'[o][i] = tenants[o][i]
      BY <1>4, <1>6, <2>13, <3>1
    <3>2. ASSUME NEW o \in Pod, NEW i \in Id
          PROVE  \/ tenants'[o][i] \in {tenants[o][i], tenantRow[i]}
                 \/ tenants'[o][i].nui \in req[r].touches
      BY <1>5, <2>7, <2>13
    <3> QED BY <1>1, <3>1, <3>2 DEF Within
  <2>16. \A q \in Request, o \in Pod, i \in Id :
             /\ Saves(q, o, i) => Saves(q, o, i)'
             /\ Alters(q, o, i) => Alters(q, o, i)'
    BY <1>1, <2>11 DEF Saves, Alters
  <2>17. Alters(r, p, t)'
    BY <2>11, <2>12 DEF Alters
  <2>18. RequestOK(r)'
    <3>1. NuiFree(r, t, n)'
      <4> SUFFICES ASSUME NEW x \in Id \ {t}, tenantRow[x] # None
                   PROVE  /\ tenantRow[x].nui # n
                          /\ x \notin c.touches =>
                               \A o \in Pod : tenants'[o][x] # None => tenants'[o][x].nui # n
        BY <1>1, <2>11 DEF NuiFree
      <4>1. tenantRow[x].nui # n
        <5>1. CASE x \in req[r].touches
          BY <1>5, <2>3, <5>1 DEF Stored
        <5>2. CASE x \notin req[r].touches
          BY <1>5, <5>2 DEF NuiFree
        <5> QED BY <5>1, <5>2
      <4>2. ASSUME x \notin c.touches, NEW o \in Pod, tenants'[o][x] # None
            PROVE  tenants'[o][x].nui # n
        <5>1. x \notin req[r].touches /\ tenants'[o][x] = tenants[o][x]
          BY <1>4, <2>12, <2>13, <4>2
        <5> QED BY <1>5, <4>2, <5>1 DEF NuiFree
      <4> QED BY <4>1, <4>2
    <3>2. writers[t] \subseteq {p} => tenants[p][t] = tenantRow[t]
      <4>1. \A q \in Request : q # r /\ Running(q) => req[q].touches \cap req[r].touches = {}
        BY <1>1 DEF Peace, Apart
      <4>2. TenantAt(p, t) = tenants[p][t]
        BY <2>4 DEF TenantAt
      <4> QED BY <1>1, <1>3, <1>6, <2>4, <4>1, <4>2, FoundTenant
    <3>3. AltersOK(r)'
      <4>1. \A o, x : Alters(r, o, x)' => o = p /\ x = t
        BY <2>11, <2>12 DEF Alters
      <4>2. tenants'[p][t].nui = n /\ tenants'[p][t].slug = tenants[p][t].slug /\ tenants'[p][t] # None
        BY <2>7, <2>13
      <4>3. NuiFree(r, t, tenants[p][t].nui)'
        BY <3>1, <4>2 DEF NuiFree
      <4> QED BY <1>1, <1>5, <1>6, <2>11, <2>12, <3>2, <4>1, <4>2, <4>3 DEF AltersOK
    <3> QED
      BY <2>11, <2>12, <3>3 DEF RequestOK, CreatesOK, Creates, SavesOK, Saves, RenamesOK,
                                ComparesOK, Compares, ListsOK, Reading
  <2>19. \A i \in Request : /\ req[i].at \in {"insertUser", "insertTenant", "done"} => req'[i] = req[i]
                            /\ req'[i].at # "done" => req[i].at # "done"
    BY <1>1, <2>11
  <2>20. ASSUME NEW i \in Id PROVE RowOK(i)'
    <3>1. RowOK(i)
      BY DEF Peace
    <3> QED BY <1>1, <2>19, <3>1, RowStays
  <2>21. ASSUME NEW o \in Pod, NEW i \in Id PROVE UserOK(o, i)'
    <3>1. UserOK(o, i)
      BY DEF Peace
    <3>2. \A q \in Request : Saves(q, o, i) => Saves(q, o, i)'
      BY <2>16
    <3> QED BY <1>1, <2>19, <3>1, <3>2, UserStays
  <2>22. ASSUME NEW o \in Pod, NEW i \in Id PROVE TenantOK(o, i)'
    <3>1. TenantOK(o, i)
      BY DEF Peace
    <3>2. CASE o = p /\ i = t
      BY <1>1, <1>6, <2>17, <3>2 DEF TenantOK
    <3>3. CASE tenants'[o][i] = tenantRow[i]
      BY <1>1, <3>3, TenantIsRow
    <3>4. CASE tenants'[o][i] = tenants[o][i]
      <4>1. \A q \in Request : Alters(q, o, i) => Alters(q, o, i)'
        BY <2>16
      <4> QED BY <1>1, <2>19, <3>1, <3>4, <4>1, TenantStays
    <3> QED BY <2>13, <3>2, <3>3, <3>4
  <2> QED
    BY <2>14, <2>15, <2>18, <2>20, <2>21, <2>22, ChangeStep
<1> QED
  BY <1>11, <1>12

LEMMA PeaceRestart ==
  ASSUME NEW S, NEW f, Sound(S, f), Counted, Peace, NEW p \in Pod, Restart(p)
  PROVE  Peace'
<1>1. /\ UNCHANGED <<userRow, tenantRow, writers, tokens>> /\ crashes' # 0
      /\ users' = [users EXCEPT ![p] = [u \in Id |-> None]]
      /\ tenants' = [tenants EXCEPT ![p] = [t \in Id |-> None]]
      /\ req' = [r \in Request |-> IF Running(r) /\ req[r].pod = p THEN Done ELSE req[r]]
  BY DEF Restart, Counted, tables
<1>2. /\ \A i \in Id : users'[p][i] = None /\ tenants'[p][i] = None
      /\ \A o \in Pod : o # p => users'[o] = users[o] /\ tenants'[o] = tenants[o]
  BY <1>1 DEF Sound, UsersOK, TenantsOK
<1>3. \A q \in Request : \/ req'[q] = Done /\ Running(q) /\ req[q].pod = p
                         \/ req'[q] = req[q] /\ (Running(q) => req[q].pod # p)
  BY <1>1
<1>4. Done.at = "done"
  BY DEF Done
<1>5. Apart'
  <2>1. \A q \in Request : Running(q)' => Running(q) /\ req'[q].touches = req[q].touches
    BY <1>3, <1>4 DEF Running
  <2> QED BY <2>1, ApartGoesOn DEF Peace
<1>6. ASSUME NEW q \in Request PROVE RequestOK(q)'
  <2>1. CASE Running(q) /\ req[q].pod # p
    <3>1. req[q].pod \in Pod /\ req'[q] = req[q]
      BY <1>3, <2>1, PodOfRequest DEF Sound, RequestsOK, Running
    <3>2. Within({}, req[q].pod)
      BY <1>1, <1>2, <2>1, <3>1 DEF Within
    <3>3. RequestOK(q)
      BY DEF Peace
    <3> QED BY <2>1, <3>1, <3>2, <3>3, OthersGoOn
  <2>2. CASE ~(Running(q) /\ req[q].pod # p)
    BY <1>3, <1>4, <2>2, RestStaysOK DEF Running
  <2> QED BY <2>1, <2>2
<1>7. ASSUME NEW i \in Id PROVE RowOK(i)'
  <2>1. RowOK(i)
    BY DEF Peace
  <2>2. i \in Request =>
          /\ req[i].at = "done" => req'[i] = req[i]
          /\ req[i].at = "insertUser" => req'[i].at = "insertUser" \/ req'[i].at = "done"
    BY <1>3, <1>4 DEF Running
  <2> QED BY <1>1, <2>1, <2>2, RowStays
<1>8. \A q \in Request, o \in Pod, i \in Id : o # p =>
          /\ Saves(q, o, i) => Saves(q, o, i)'
          /\ Alters(q, o, i) => Alters(q, o, i)'
  BY <1>3 DEF Saves, Alters, Running
<1>9. ASSUME NEW o \in Pod, NEW i \in Id PROVE UserOK(o, i)'
  <2>1. UserOK(o, i)
    BY DEF Peace
  <2>2. CASE o = p
    BY <1>2, <2>2 DEF UserOK
  <2>3. CASE o # p
    <3>1. \A q \in Request : Saves(q, o, i) => Saves(q, o, i)'
      BY <1>8, <2>3
    <3>2. i \in Request /\ req[i].at = "insertUser" /\ req[i].pod = o =>
            req'[i].at = "insertUser" /\ req'[i].pod = o
      BY <1>3, <2>3
    <3> QED BY <1>1, <1>2, <2>1, <2>3, <3>1, <3>2, UserStays
  <2> QED BY <2>2, <2>3
<1>10. ASSUME NEW o \in Pod, NEW i \in Id PROVE TenantOK(o, i)'
  <2>1. TenantOK(o, i)
    BY DEF Peace
  <2>2. CASE o = p
    BY <1>2, <2>2 DEF TenantOK
  <2>3. CASE o # p
    <3>1. \A q \in Request : Alters(q, o, i) => Alters(q, o, i)'
      BY <1>8, <2>3
    <3>2. i \in Request /\ req'[i].at # "done" => req'[i] = req[i]
      BY <1>3, <1>4
    <3> QED BY <1>1, <1>2, <2>1, <2>3, <3>1, <3>2, TenantStays
  <2> QED BY <2>2, <2>3
<1> QED
  BY <1>5, <1>6, <1>7, <1>9, <1>10 DEF Peace

-----------------------------------------------------------------------------
(* The columns stay unique, and the counters count.                         *)
LEMMA UniqueUser ==
  ASSUME NEW S, NEW f, Sound(S, f), Unique, NEW u \in Id, NEW row, ~EmailTaken(u, row),
         userRow' = [userRow EXCEPT ![u] = row], UNCHANGED tenantRow
  PROVE  Unique'
<1>1. userRow'[u] = row /\ \A x \in Id : x # u => userRow'[x] = userRow[x]
  BY DEF Sound, UsersOK
<1>2. \A x \in Id : x # u /\ userRow[x] # None => userRow[x].email # row.email
  BY DEF EmailTaken
<1> QED
  BY <1>1, <1>2 DEF Unique

LEMMA UniqueTenant ==
  ASSUME NEW S, NEW f, Sound(S, f), Unique, NEW t \in Id, NEW row, ~SlugOrNuiTaken(t, row),
         tenantRow' = [tenantRow EXCEPT ![t] = row], UNCHANGED userRow
  PROVE  Unique'
<1>1. tenantRow'[t] = row /\ \A x \in Id : x # t => tenantRow'[x] = tenantRow[x]
  BY DEF Sound, TenantsOK, Lists
<1>2. \A x \in Id : x # t /\ tenantRow[x] # None =>
          tenantRow[x].slug # row.slug /\ tenantRow[x].nui # row.nui
  BY DEF SlugOrNuiTaken
<1> QED
  BY <1>1, <1>2 DEF Unique

\* The other actions store nothing and issue no token.
LEMMA OthersStoreNothing ==
  ASSUME Next
  PROVE  \/ UNCHANGED <<userRow, tenantRow, writers, tokens>>
         \/ \E p \in Pod, e \in Email, pw \in Password : Login(p, e, pw)
         \/ \E r \in Request : InsertTenant(r) \/ InsertUser(r) \/ WriteUser(r) \/ WriteTenant(r)
<1>1. ASSUME NEW p \in Pod, Mailed(p)
      PROVE  \/ UNCHANGED <<userRow, tenantRow, writers, tokens>>
             \/ \E e \in Email, pw \in Password : Login(p, e, pw)
  BY <1>1 DEF Mailed, RequestRegistrationCode, RequestPasswordResetCode, TryWrongCode, tables
<1>2. ASSUME NEW p \in Pod, Restart(p) PROVE UNCHANGED <<userRow, tenantRow, writers, tokens>>
  BY <1>2 DEF Restart, tables
<1>3. ASSUME NEW r \in Request, NEW p \in Pod, Started(r, p)
      PROVE  UNCHANGED <<userRow, tenantRow, writers, tokens>>
  BY <1>3 DEF Started, VerifyRegistrationCode, VerifyPasswordResetCode, CreateUser, ChangePassword,
              SaveUser, UpdateMyProfile, UpdateBusinessProfile, ListUsers, ListTenants, FindUser,
              FindTenant, ReadUsers, ReadTenants, tables
<1>4. ASSUME NEW r \in Request, Continued(r)
      PROVE  \/ UNCHANGED <<userRow, tenantRow, writers, tokens>>
             \/ InsertTenant(r) \/ InsertUser(r) \/ WriteUser(r) \/ WriteTenant(r)
  BY <1>4 DEF Continued, CheckSlug, CheckEmail, CheckProfile, SetNui, CountTenant, FillUsers,
              FillTenants, SaveFails, tables
<1> QED
  BY <1>1, <1>2, <1>3, <1>4 DEF Next

LEMMA UniqueStep ==
  ASSUME NEW S, NEW f, Sound(S, f), Unique, Next
  PROVE  Unique'
<1>1. CASE UNCHANGED <<userRow, tenantRow, writers, tokens>>
  BY <1>1 DEF Unique
<1>2. ASSUME NEW p \in Pod, NEW e \in Email, NEW pw \in Password, Login(p, e, pw) PROVE Unique'
  BY <1>2 DEF Login, tables, Unique
<1>3. ASSUME NEW r \in Request, InsertTenant(r) PROVE Unique'
  <2>1. CASE SlugOrNuiTaken(r, NewTenant(r))
    BY <1>3, <2>1 DEF InsertTenant, Unique
  <2>2. CASE ~SlugOrNuiTaken(r, NewTenant(r))
    BY <1>3, <2>2, RequestIsId, UniqueTenant DEF InsertTenant
  <2> QED BY <2>1, <2>2
<1>4. ASSUME NEW r \in Request, InsertUser(r) PROVE Unique'
  <2>1. CASE EmailTaken(r, NewUser(r))
    BY <1>4, <2>1 DEF InsertUser, Unique
  <2>2. CASE ~EmailTaken(r, NewUser(r))
    BY <1>4, <2>2, RequestIsId, UniqueUser DEF InsertUser
  <2> QED BY <2>1, <2>2
<1>5. ASSUME NEW r \in Request, WriteUser(r) PROVE Unique'
  <2>1. req[r] \in Saving(S) \cup Renamed(S)
    BY <1>5, ShapeAt DEF WriteUser, Sound, RequestsOK
  <2>2. req[r].user \in Id
    BY <2>1 DEF Saving, Renamed
  <2>3. CASE EmailTaken(req[r].user, req[r].row)
    BY <1>5, <2>3 DEF WriteUser, Unique
  <2>4. CASE ~EmailTaken(req[r].user, req[r].row)
    BY <1>5, <2>2, <2>4, UniqueUser DEF WriteUser
  <2> QED BY <2>3, <2>4
<1>6. ASSUME NEW r \in Request, WriteTenant(r) PROVE Unique'
  <2>1. req[r] \in Changing(f)
    BY <1>6, ShapeAt DEF WriteTenant, Sound, RequestsOK
  <2>2. req[r].tenant \in Id
    BY <2>1 DEF Changing
  <2>3. CASE SlugOrNuiTaken(req[r].tenant, req[r].row)
    BY <1>6, <2>3 DEF WriteTenant, Unique
  <2>4. CASE ~SlugOrNuiTaken(req[r].tenant, req[r].row)
    BY <1>6, <2>2, <2>4, UniqueTenant DEF WriteTenant
  <2> QED BY <2>3, <2>4
<1> QED
  BY <1>1, <1>2, <1>3, <1>4, <1>5, <1>6, OthersStoreNothing

LEMMA CountedStep ==
  ASSUME NEW S, NEW f, Sound(S, f), Counted, Next
  PROVE  Counted'
<1>1. failures' \in Nat /\ crashes' \in Nat
  <2>1. ASSUME NEW p \in Pod, Mailed(p) PROVE UNCHANGED <<failures, crashes>>
    BY <2>1 DEF Mailed, RequestRegistrationCode, RequestPasswordResetCode, TryWrongCode, Login, bounds
  <2>2. ASSUME NEW p \in Pod, Restart(p)
        PROVE  failures' = failures /\ crashes' \in {crashes, crashes + 1}
    BY <2>2 DEF Restart
  <2>3. ASSUME NEW r \in Request, NEW p \in Pod, Started(r, p) PROVE UNCHANGED <<failures, crashes>>
    BY <2>3 DEF Started, VerifyRegistrationCode, VerifyPasswordResetCode, CreateUser,
                ChangePassword, SaveUser, UpdateMyProfile, UpdateBusinessProfile, ListUsers,
                ListTenants, FindUser, FindTenant, ReadUsers, ReadTenants, bounds
  <2>4. ASSUME NEW r \in Request, Continued(r)
        PROVE  crashes' = crashes /\ failures' \in {failures, failures + 1}
    BY <2>4 DEF Continued, CheckSlug, CheckEmail, InsertTenant, InsertUser, CheckProfile,
                WriteUser, SetNui, CountTenant, WriteTenant, FillUsers, FillTenants, SaveFails,
                bounds
  <2> QED BY <2>1, <2>2, <2>3, <2>4 DEF Next, Counted
<1>2. writers' \in [Id -> SUBSET Pod] /\ tokens' \subseteq Id
  <2>1. CASE UNCHANGED <<userRow, tenantRow, writers, tokens>>
    BY <2>1 DEF Counted
  <2>2. ASSUME NEW p \in Pod, NEW e \in Email, NEW pw \in Password, Login(p, e, pw)
        PROVE  writers' = writers /\ tokens' \subseteq Id
    <3>1. ByEmail(p, e) \subseteq Id
      BY DEF ByEmail, Lookup, Holders
    <3> QED BY <2>2, <3>1 DEF Login, IssueTokens, Counted
  <2>3. ASSUME NEW r \in Request, InsertTenant(r) \/ InsertUser(r) \/ WriteUser(r) \/ WriteTenant(r)
        PROVE  writers' \in [Id -> SUBSET Pod] /\ tokens' \subseteq Id
    <3>1. req[r].pod \in Pod
      BY <2>3, PodOfRequest DEF InsertTenant, InsertUser, WriteUser, WriteTenant, Sound, RequestsOK
    <3>2. r \in Id
      BY RequestIsId
    <3>3. CASE InsertTenant(r)
      BY <3>1, <3>2, <3>3 DEF InsertTenant, Counted
    <3>4. CASE InsertUser(r)
      BY <3>1, <3>2, <3>4 DEF InsertUser, IssueTokens, Counted
    <3>5. CASE WriteUser(r)
      BY <3>1, <3>5 DEF WriteUser, Counted
    <3>6. CASE WriteTenant(r)
      BY <3>1, <3>6 DEF WriteTenant, Counted
    <3> QED BY <2>3, <3>3, <3>4, <3>5, <3>6
  <2> QED BY <2>1, <2>2, <2>3, OthersStoreNothing DEF Counted
<1> QED
  BY <1>1, <1>2 DEF Counted

LEMMA PeaceStep ==
  ASSUME NEW S, NEW f, Sound(S, f), CalmInv, Next, Calm'
  PROVE  Peace'
<1>1. Counted /\ Unique /\ (Calm => Peace) /\ writers \in [Id -> SUBSET Pod]
  BY DEF CalmInv, Counted
<1>2. ASSUME NEW p \in Pod, Mailed(p) PROVE Peace'
  BY <1>1, <1>2, PeaceQuiet
<1>3. ASSUME NEW p \in Pod, Restart(p) PROVE Peace'
  <2>1. Calm
    BY <1>3 DEF Restart, Calm
  <2> QED BY <1>1, <1>3, <2>1, PeaceRestart
<1>4. ASSUME NEW r \in Request, NEW p \in Pod, Started(r, p) PROVE Peace'
  <2>1. ASSUME NEW e \in Email, VerifyRegistrationCode(r, p, e) PROVE Peace'
    BY <1>1, <2>1, PeaceVerify
  <2>2. ASSUME NEW pw \in Password,
               \/ \E e \in Email : VerifyPasswordResetCode(r, p, e, pw)
               \/ \E u \in Id, current \in Password : ChangePassword(r, p, u, current, pw)
        PROVE  Peace'
    BY <1>1, <2>2, PeacePassword
  <2>3. ASSUME NEW u \in Id, NEW e \in Email, NEW admin \in BOOLEAN, CreateUser(r, p, u, e, admin)
        PROVE  Peace'
    BY <1>1, <2>3, PeaceCreate
  <2>4. ASSUME NEW u \in Id, NEW e \in Email, UpdateMyProfile(r, p, u, e) PROVE Peace'
    BY <1>1, <2>4, PeaceProfile
  <2>5. ASSUME NEW u \in Id, NEW n \in Nui, UpdateBusinessProfile(r, p, u, n) PROVE Peace'
    BY <1>1, <2>5, PeaceBusiness
  <2>6. ASSUME NEW u, Reads(r, p, u) PROVE Peace'
    BY <1>1, <2>6, ReadsRows, PeaceReads
  <2> QED BY <1>4, <2>1, <2>2, <2>3, <2>4, <2>5, <2>6 DEF Started, Reads
<1>5. ASSUME NEW r \in Request, Continued(r) PROVE Peace'
  <2>1. ~SaveFails(r)
    BY <1>1 DEF SaveFails, Calm, Counted
  <2>2. UNCHANGED <<raced, failures>>
    BY <1>5, <2>1 DEF Continued, CheckSlug, CheckEmail, InsertTenant, InsertUser, CheckProfile,
                      WriteUser, SetNui, CountTenant, WriteTenant, FillUsers, FillTenants, bounds
  <2>3. Peace
    BY <1>1, <2>2 DEF Calm
  <2>4. CheckSlug(r) => Peace'
    BY <2>3, PeaceSlug
  <2>5. CheckEmail(r) \/ InsertTenant(r) => Peace'
    BY <1>1, <2>3, PeaceEmail
  <2>6. InsertUser(r) => Peace'
    BY <1>1, <2>3, PeaceInsertUser
  <2>7. CheckProfile(r) => Peace'
    BY <2>3, PeaceCheckProfile
  <2>8. WriteUser(r) => Peace'
    BY <1>1, <2>3, PeaceWriteUser
  <2>9. SetNui(r) => Peace'
    BY <2>3, PeaceSetNui
  <2>10. CountTenant(r) => Peace'
    BY <2>3, PeaceCount
  <2>11. WriteTenant(r) => Peace'
    BY <1>1, <2>3, PeaceWriteTenant
  <2>12. FillUsers(r) \/ FillTenants(r) => Peace'
    BY <2>3, PeaceFill
  <2> QED
    BY <1>5, <2>1, <2>4, <2>5, <2>6, <2>7, <2>8, <2>9, <2>10, <2>11, <2>12 DEF Continued
<1> QED
  BY <1>2, <1>3, <1>4, <1>5 DEF Next

LEMMA InitCalm == Init => CalmInv
<1> SUFFICES ASSUME Init PROVE CalmInv
  OBVIOUS
<1>1. /\ scene.founders \subseteq Founder /\ scene.founders \subseteq Id /\ scene.founders \cap Request = {}
      /\ \A g, h \in Founder : g # h => /\ FounderOf[g].email # FounderOf[h].email
                                       /\ FounderOf[g].slug # FounderOf[h].slug
                                       /\ FounderOf[g].nui # FounderOf[h].nui
  BY IamAssumption, RequestIsId DEF Init
<1>2. \A i \in Id :
          /\ i \in scene.founders =>
               /\ userRow[i] # None /\ userRow[i].email = FounderOf[i].email
               /\ userRow[i].tenant = i /\ userRow[i].admin
               /\ tenantRow[i].slug = FounderOf[i].slug /\ tenantRow[i].nui = FounderOf[i].nui
          /\ i \notin scene.founders => userRow[i] = None /\ tenantRow[i] = None
  BY DEF Init, None
<1>3. Unique
  BY <1>1, <1>2 DEF Unique
<1>4. Counted
  BY <1>1 DEF Init, Counted
<1>5. \A r \in Request : req[r].at = "new"
  BY DEF Init, New
<1>6. \A r \in Request : RequestOK(r)
  BY <1>5 DEF RequestOK, CreatesOK, Creates, SavesOK, Saves, RenamesOK, ComparesOK, Compares,
              AltersOK, Alters, ListsOK, Reading
<1>7. Apart
  BY <1>5 DEF Apart, Running
<1>8. \A p \in Pod, i \in Id : UserOK(p, i) /\ TenantOK(p, i)
  BY DEF Init, UserOK, TenantOK
<1>9. ASSUME NEW i \in Id PROVE RowOK(i)
  <2>1. writers[i] = {} /\ tokens = scene.founders
    BY DEF Init
  <2> QED BY <1>1, <1>2, <2>1 DEF RowOK
<1> QED
  BY <1>3, <1>4, <1>6, <1>7, <1>8, <1>9 DEF CalmInv, Peace

LEMMA NextCalm == Inv /\ CalmInv /\ [Next]_vars => CalmInv'
<1> SUFFICES ASSUME NEW S, NEW f, Sound(S, f), CalmInv, [Next]_vars PROVE CalmInv'
  BY DEF Inv
<1>1. CASE Next
  BY <1>1, PeaceStep, UniqueStep, CountedStep DEF CalmInv
<1>2. CASE UNCHANGED vars
  BY <1>2 DEF vars, CalmInv, Counted, Unique, Calm, Peace, Apart, Running, RequestOK, CreatesOK,
              Creates, SavesOK, Saves, RenamesOK, ComparesOK, Compares, AltersOK, Alters, ListsOK,
              Reading, NuiFree, EmailTaken, NewUser, NewTenant, UserOK, TenantOK, RowOK
<1> QED
  BY <1>1, <1>2

LEMMA AlwaysCalm == Spec => [](CalmInv /\ Inv)
<1>1. Init => CalmInv /\ Inv
  BY InitCalm, InitSound
<1>2. CalmInv /\ Inv /\ [Next]_vars => (CalmInv /\ Inv)'
  BY NextCalm, NextSound
<1> QED
  BY <1>1, <1>2, PTL DEF Spec

(* For any companies, requests and processes: when no two requests about    *)
(* the same thing overlapped and no save failed, the map of a process that  *)
(* alone saves a user or a company says what the row says, and companies    *)
(* are found by the number in their row.                                    *)
THEOREM CachesAreRows == Spec => []CacheIsRow
<1>1. CalmInv => CacheIsRow
  <2> SUFFICES ASSUME CalmInv, Quiescent, ~raced, failures = 0, NEW p \in Pod
               PROVE  /\ \A i \in Id : writers[i] \subseteq {p} =>
                           /\ users[p][i] # None /\ userRow[i] # None => users[p][i] = userRow[i]
                           /\ tenants[p][i] # None /\ tenantRow[i] # None => tenants[p][i] = tenantRow[i]
                      /\ /\ (UNION {writers[t] : t \in Stored(tenantRow)}) \subseteq {p}
                         /\ Stored(tenants[p]) \subseteq Stored(tenantRow)
                         => \A t \in Stored(tenantRow) : ByNui(p, tenantRow[t].nui) = {t}
    BY DEF CacheIsRow
  <2>1. Peace /\ Unique
    BY DEF CalmInv, Calm
  <2>2. \A r \in Request : \A i : ~Saves(r, p, i) /\ ~Alters(r, p, i)
    BY DEF Quiescent, Running, Saves, Alters
  <2>3. \A i \in Id : writers[i] \subseteq {p} =>
          /\ users[p][i] # None /\ userRow[i] # None => users[p][i] = userRow[i]
          /\ tenants[p][i] # None /\ tenantRow[i] # None => tenants[p][i] = tenantRow[i]
    BY <2>1, <2>2 DEF Peace, UserOK, TenantOK
  <2>4. ASSUME (UNION {writers[t] : t \in Stored(tenantRow)}) \subseteq {p},
               Stored(tenants[p]) \subseteq Stored(tenantRow), NEW t \in Stored(tenantRow)
        PROVE  ByNui(p, tenantRow[t].nui) = {t}
    <3>1. \A x \in Id : tenants[p][x] # None => tenants[p][x] = tenantRow[x] /\ tenantRow[x] # None
      <4> SUFFICES ASSUME NEW x \in Id, tenants[p][x] # None
                   PROVE  tenants[p][x] = tenantRow[x] /\ tenantRow[x] # None
        OBVIOUS
      <4>1. x \in Stored(tenantRow)
        BY <2>4 DEF Stored
      <4>2. writers[x] \subseteq {p}
        BY <2>4, <4>1
      <4> QED BY <2>3, <4>1, <4>2 DEF Stored
    <3>2. t \in Id /\ tenantRow[t] # None
      BY DEF Stored
    <3>3. Holders(tenantRow, "nui", tenantRow[t].nui) = {t}
      BY <2>1, <3>2 DEF Holders, Unique
    <3>4. Holders(tenants[p], "nui", tenantRow[t].nui) \subseteq {t}
      BY <2>1, <3>1, <3>2 DEF Holders, Unique
    <3> QED BY <3>3, <3>4 DEF ByNui, Lookup
  <2> QED BY <2>3, <2>4
<1> QED
  BY <1>1, AlwaysCalm, PTL

(* For any companies, requests and processes: when nothing fails, restarts  *)
(* or overlaps, a stored company has a stored admin, but for one whose      *)
(* admin had a blank name, and a token names a stored user.                 *)
THEOREM RegistrationsAreWhole == Spec => []RegistrationIsWhole
<1>1. CalmInv => RegistrationIsWhole
  <2> SUFFICES ASSUME CalmInv, Quiescent, Undisturbed
               PROVE  /\ \A t \in Id : tenantRow[t] # None /\ ~(t \in Request /\ req[t] = Thrown) =>
                           \E u \in Id : userRow[u] # None /\ userRow[u].tenant = t /\ userRow[u].admin
                      /\ \A u \in tokens : userRow[u] # None
    BY DEF RegistrationIsWhole
  <2>1. Peace /\ crashes = 0 /\ tokens \subseteq Id
    BY DEF CalmInv, Calm, Counted, Undisturbed
  <2>2. \A i \in Id : ~(i \in Request /\ req[i].at = "insertUser")
    BY DEF Quiescent, Running
  <2> QED BY <2>1, <2>2 DEF Peace, RowOK
<1> QED
  BY <1>1, AlwaysCalm, PTL
=============================================================================
