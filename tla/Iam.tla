--------------------------------- MODULE Iam ---------------------------------
(***************************************************************************)
(* The IAM service: registration with a mailed code, login, password       *)
(* resets, users and the business profile                                  *)
(* (services/iam/src/application/auth.service.ts, its two repositories and *)
(* the entities).                                                          *)
(*                                                                         *)
(* Each process caches users and tenants in maps that it never reads       *)
(* again, and keeps the codes it has mailed in memory.  A save changes the *)
(* map at once and the row when the database answers; a list reads rows    *)
(* and, one await later, puts new objects for all of them into the map.    *)
(* So does a lookup of one row that is not in the map: it is a request of  *)
(* its own (FindUser, FindTenant), after which the operation that looked   *)
(* the row up goes on with the object in the map.  When nothing happens    *)
(* while the row is read, the operation does both in its own step.         *)
(*                                                                         *)
(* A user and a tenant have the id of the request that creates them, codes *)
(* are counted, and names, the audit log and mails are left out.  No       *)
(* request deactivates a user or a tenant, so both are active.             *)
(***************************************************************************)
EXTENDS Naturals, FiniteSets

CONSTANTS Request,      \* the requests that save something or list
          Founder,      \* companies, and their admins, that exist at the start
          Email, Slug, Nui, Password,
          FounderOf,    \* FounderOf[f]: the [email, slug, nui] of a founder
          FirstPassword,\* the password of a user when it is created
          Pod,          \* the processes of the IAM deployment
          Scene,        \* what to look at: operations, processes, founders and
                        \* the addresses, names and numbers in use
          MaxAttempts,  \* wrong guesses a code survives (5 in the source)
          MaxCodes,     \* bound on the mailed codes
          MaxCrashes,   \* bound on restarts of a process
          MaxFailures   \* bound on saves that fail in the database

Id == Founder \cup Request

ASSUME IamAssumption ==
    /\ FirstPassword \in Password
    /\ Founder \cap Request = {}
    /\ FounderOf \in [Founder -> [email : Email, slug : Slug, nui : Nui]]
    /\ \A f, g \in Founder : f # g => /\ FounderOf[f].email # FounderOf[g].email
                                     /\ FounderOf[f].slug # FounderOf[g].slug
                                     /\ FounderOf[f].nui # FounderOf[g].nui
    /\ {MaxAttempts, MaxCodes, MaxCrashes, MaxFailures} \subseteq Nat
    /\ \A s \in Scene : s.pods \subseteq Pod /\ s.founders \subseteq Founder

VARIABLES users,     \* users[p][u]: the object in the user map of process p
          tenants,   \* tenants[p][t]: the object in the tenant map
          userRow,   \* the tables iam_users
          tenantRow, \* and iam_tenants
          pending,   \* pending[p][k][e]: the code of kind k mailed to e
          req,       \* req[r]: the request and where it is
          tokens,    \* the users to whom a token was issued
          codes, crashes, failures,
          raced,     \* history: two requests about the same thing overlapped
          writers,   \* history: the processes that saved a user or a tenant
          scene      \* what this behaviour is about

maps == <<users, tenants>>
tables == <<userRow, tenantRow>>
bounds == <<codes, crashes, failures, scene>>
vars == <<users, tenants, userRow, tenantRow, pending, req, tokens, codes,
          crashes, failures, raced, writers, scene>>

-----------------------------------------------------------------------------
None == [none |-> TRUE]
New == [at |-> "new"]
Done == [at |-> "done"]
Thrown == [at |-> "done", thrown |-> TRUE]  \* its company is stored, its admin had no name
Cached == [cached |-> TRUE]
NoCodes == [k \in {"register", "reset"} |-> [e \in Email |-> None]]

Init ==
    /\ users = [p \in Pod |-> [u \in Id |-> None]]
    /\ tenants = [p \in Pod |-> [t \in Id |-> None]]
    /\ scene \in Scene
    /\ userRow = [u \in Id |-> IF u \in scene.founders
                     THEN [email |-> FounderOf[u].email, pw |-> FirstPassword,
                           tenant |-> u, admin |-> TRUE]
                     ELSE None]
    /\ tenantRow = [t \in Id |-> IF t \in scene.founders
                       THEN [slug |-> FounderOf[t].slug, nui |-> FounderOf[t].nui,
                             code |-> 0]
                       ELSE None]
    /\ pending = [p \in Pod |-> NoCodes]
    /\ req = [r \in Request |-> New]
    /\ tokens = scene.founders
    /\ codes = 0 /\ crashes = 0 /\ failures = 0
    /\ raced = FALSE
    /\ writers = [i \in Id |-> {}]

Stored(rows) == {i \in Id : rows[i] # None}

\* Lookups take a cached object first, then a row.
UserAt(p, u) == IF users[p][u] # None THEN users[p][u] ELSE userRow[u]
TenantAt(p, t) == IF tenants[p][t] # None THEN tenants[p][t] ELSE tenantRow[t]

Holders(map, field, val) == {i \in Id : map[i] # None /\ map[i][field] = val}
Lookup(map, row, field, val) ==
    IF Holders(map, field, val) # {} THEN Holders(map, field, val)
                                     ELSE Holders(row, field, val)

ByEmail(p, e) == Lookup(users[p], userRow, "email", e)
BySlug(p, s) == Lookup(tenants[p], tenantRow, "slug", s)
ByNui(p, n) == Lookup(tenants[p], tenantRow, "nui", n)

\* toDomain of what a lookup found in the table.
CacheUsers(p, us) ==
    users' = [users EXCEPT ![p] = [u \in Id |-> IF u \in us THEN UserAt(p, u) ELSE @[u]]]
CacheTenants(p, ts) ==
    tenants' = [tenants EXCEPT ![p] =
                  [t \in Id |-> IF t \in ts THEN TenantAt(p, t) ELSE @[t]]]

-----------------------------------------------------------------------------
Running(r) == req[r].at \notin {"new", "done"}

\* A request begins; touches is what it reads, claims, changes or creates.
Begin(r, rec) ==
    /\ req[r] = New
    /\ rec.pod \in scene.pods
    /\ req' = [req EXCEPT ![r] = rec]
    /\ raced' = (raced \/ \E q \in Request : Running(q) /\ req[q].touches \cap rec.touches # {})

Goto(r, at) == req' = [req EXCEPT ![r].at = at]
Finish(r) == req' = [req EXCEPT ![r] = Done]

\* Changes of the entities.
VerifyPassword(user, pw) == user.pw = pw
SetPassword(user, pw) == [user EXCEPT !.pw = pw]
UpdateProfile(user, e) == [user EXCEPT !.email = e]
HasPermission(user) == user.admin
UpdateBusiness(tenant, n) == [tenant EXCEPT !.nui = n]

\* What request r creates.
NewTenant(r) == [slug |-> req[r].slug, nui |-> req[r].nui, code |-> req[r].code]
NewUser(r) == [email |-> req[r].email, pw |-> FirstPassword,
               tenant |-> req[r].tenant, admin |-> req[r].admin]

IssueTokens(us) == tokens' = tokens \cup us
VerifyToken(u) == u \in tokens

Offered(op) == op \in scene.ops
SignedIn(p, u) == VerifyToken(u) /\ UserAt(p, u) # None

\* The object that a request holds is the cached one until another takes its
\* place; those who hold the old one share it.
Holds(rs, q, op, p, i) ==
    "obj" \in DOMAIN rs[q] /\ rs[q].op = op /\ rs[q].pod = p /\ rs[q].holds = i
Held(map, r) == IF req[r].obj = Cached THEN map[req[r].pod][req[r].holds] ELSE req[r].obj.val

Detach(map, op, p, ids, r) ==
    [q \in Request |->
        IF \E i \in ids : Holds(req, q, op, p, i) /\ req[q].obj = Cached
        THEN [req[q] EXCEPT !.obj = [by |-> r, val |-> map[p][req[q].holds]]] ELSE req[q]]

\* The object that r holds in rs goes into the map, where now was.
PutBack(rs, now, r) ==
    [q \in Request |->
        CASE Holds(rs, q, rs[r].op, rs[r].pod, rs[r].holds) /\ rs[q].obj = rs[r].obj ->
               [rs[q] EXCEPT !.obj = Cached]
          [] /\ Holds(rs, q, rs[r].op, rs[r].pod, rs[r].holds)
             /\ rs[q].obj = Cached /\ rs[r].obj # Cached ->
               [rs[q] EXCEPT !.obj = [by |-> r, val |-> now]]
          [] OTHER -> rs[q]]

-----------------------------------------------------------------------------
(* requestRegistrationCode: a code replaces the one before it.              *)
RequestRegistrationCode(p, e, s, n) ==
    /\ Offered("register") /\ p \in scene.pods /\ codes < MaxCodes
    /\ {e, s, n} \subseteq scene.values
    /\ IF BySlug(p, s) # {} THEN /\ CacheTenants(p, BySlug(p, s))
                                 /\ UNCHANGED <<users, pending>>
       ELSE IF ByEmail(p, e) # {} THEN /\ CacheUsers(p, ByEmail(p, e))
                                       /\ UNCHANGED <<tenants, pending>>
       ELSE /\ pending' = [pending EXCEPT ![p]["register"][e] =
                             [slug |-> s, nui |-> n, code |-> codes + 1, wrong |-> 0]]
            /\ UNCHANGED maps
    /\ codes' = codes + 1
    /\ UNCHANGED <<tables, req, tokens, crashes, failures, raced, writers, scene>>

(* requestPasswordResetCode, for an address that has a user.                *)
RequestPasswordResetCode(p, e) ==
    /\ Offered("reset") /\ p \in scene.pods /\ codes < MaxCodes
    /\ \E u \in ByEmail(p, e) :
         /\ pending' = [pending EXCEPT ![p]["reset"][e] =
                          [user |-> u, code |-> codes + 1, wrong |-> 0]]
         /\ CacheUsers(p, {u})
    /\ codes' = codes + 1
    /\ UNCHANGED <<tenants, tables, req, tokens, crashes, failures, raced, writers, scene>>

(* A wrong code is counted; a code that has expired, or was missed too      *)
(* often, is deleted when it is tried.                                      *)
TryWrongCode(p, k, e) ==
    /\ pending[p][k][e] # None
    /\ \/ /\ pending[p][k][e].wrong < MaxAttempts
          /\ pending' = [pending EXCEPT ![p][k][e].wrong = @ + 1]
       \/ pending' = [pending EXCEPT ![p][k][e] = None]
    /\ UNCHANGED <<maps, tables, req, tokens, bounds, raced, writers>>

\* The code that is tried now is right, in time and not yet blocked.
Accepts(p, k, e) == pending[p][k][e] # None /\ pending[p][k][e].wrong < MaxAttempts

(* verifyRegistrationCode up to its first await.                            *)
VerifyRegistrationCode(r, p, e) ==
    /\ Accepts(p, "register", e)
    /\ LET c == pending[p]["register"][e] IN
         Begin(r, [op |-> "register", at |-> "slug", pod |-> p, email |-> e,
                   slug |-> c.slug, nui |-> c.nui, code |-> c.code,
                   tenant |-> r, admin |-> TRUE, touches |-> {r, e, c.slug, c.nui}])
    /\ UNCHANGED <<maps, tables, pending, tokens, bounds, writers>>

\* The request ends, and the code of a registration is deleted.
CloseCode(r) ==
    /\ pending' = IF req[r].op = "register"
                  THEN [pending EXCEPT ![req[r].pod]["register"][req[r].email] = None]
                  ELSE pending
    /\ Finish(r)

CheckSlug(r) ==
    /\ req[r].at = "slug"
    /\ LET p == req[r].pod  found == BySlug(p, req[r].slug) IN
         IF found # {} THEN CloseCode(r) /\ CacheTenants(p, found)
         ELSE Goto(r, "email") /\ UNCHANGED <<pending, tenants>>
    /\ UNCHANGED <<users, tables, tokens, bounds, raced, writers>>

(* createUser up to the test of the address.                                *)
CreateUser(r, p, u, e, admin) ==
    /\ Offered("createUser") /\ SignedIn(p, u) /\ e \in scene.values
    /\ HasPermission(UserAt(p, u))
    /\ Begin(r, [op |-> "createUser", at |-> "email", pod |-> p, email |-> e,
                 tenant |-> UserAt(p, u).tenant, admin |-> admin, touches |-> {r, e, u}])
    /\ CacheUsers(p, {u})
    /\ UNCHANGED <<tenants, tables, pending, tokens, bounds, writers>>

\* save of the new user or tenant, up to its query.
CacheNewUser(r) == users' = [users EXCEPT ![req[r].pod][r] = NewUser(r)]
CacheNewTenant(r) == tenants' = [tenants EXCEPT ![req[r].pod][r] = NewTenant(r)]

(* Mutant: the address is not looked up. *)
SkipCheckEmail(r) ==
    /\ req[r].at = "email"
    /\ IF req[r].op = "register"
       THEN CacheNewTenant(r) /\ Goto(r, "insertTenant") /\ UNCHANGED users
       ELSE CacheNewUser(r) /\ Goto(r, "insertUser") /\ UNCHANGED tenants
    /\ UNCHANGED <<tables, pending, tokens, bounds, raced, writers>>

(* The test of the address, and the save of the new tenant or user up to    *)
(* its query; create throws on a blank name, and nothing has happened then. *)
CheckEmail(r) ==
    /\ req[r].at = "email"
    /\ LET p == req[r].pod  found == ByEmail(p, req[r].email) IN
         \/ found # {} /\ CloseCode(r) /\ CacheUsers(p, found) /\ UNCHANGED tenants
         \/ /\ found = {} /\ req[r].op = "register"
            /\ CacheNewTenant(r)
            /\ Goto(r, "insertTenant")
            /\ UNCHANGED <<users, pending>>
         \/ /\ found = {} /\ req[r].op = "createUser"
            /\ CacheNewUser(r)
            /\ Goto(r, "insertUser")
            /\ UNCHANGED <<tenants, pending>>
         \/ found = {} /\ Finish(r) /\ UNCHANGED <<maps, pending>>
    /\ UNCHANGED <<tables, tokens, bounds, raced, writers>>

\* Unique columns refuse a row.
SlugOrNuiTaken(t, row) ==
    \E x \in Id \ {t} : tenantRow[x] # None /\ (tenantRow[x].slug = row.slug \/ tenantRow[x].nui = row.nui)
EmailTaken(u, row) == \E x \in Id \ {u} : userRow[x] # None /\ userRow[x].email = row.email

(* Mutant: the column slug is not unique. *)
InsertTenantTwice(r) ==
    /\ req[r].at = "insertTenant"
    /\ tenantRow' = [tenantRow EXCEPT ![r] = tenants[req[r].pod][r]]
    /\ writers' = [writers EXCEPT ![r] = {req[r].pod}]
    /\ CacheNewUser(r) /\ Goto(r, "insertUser")
    /\ UNCHANGED <<tenants, userRow, pending, tokens, bounds, raced>>

(* The tenant is stored, and the user goes the same way, unless create      *)
(* throws: its name is blank, which nothing has looked at so far.           *)
InsertTenant(r) ==
    /\ req[r].at = "insertTenant"
    /\ IF SlugOrNuiTaken(r, NewTenant(r))
       THEN Finish(r) /\ UNCHANGED <<users, tenantRow, writers>>
       ELSE /\ tenantRow' = [tenantRow EXCEPT ![r] = NewTenant(r)]
            /\ writers' = [writers EXCEPT ![r] = {req[r].pod}]
            /\ \/ CacheNewUser(r) /\ Goto(r, "insertUser")
               \/ req' = [req EXCEPT ![r] = Thrown] /\ UNCHANGED users
    /\ UNCHANGED <<tenants, userRow, pending, tokens, bounds, raced>>

(* Mutant: the user is stored first, while its tenant is only in the map. *)
InsertUserEarly(r) ==
    /\ req[r].at \in {"insertTenant", "insertUser"}
    /\ userRow' = [userRow EXCEPT ![r] = NewUser(r)]
    /\ Finish(r)
    /\ UNCHANGED <<maps, tenantRow, pending, tokens, bounds, raced, writers>>

(* The user is stored; a registration is answered with a token, and the     *)
(* company of a created user is looked up for the invitation.               *)
InsertUser(r) ==
    /\ req[r].at = "insertUser"
    /\ IF EmailTaken(r, NewUser(r))
       THEN Finish(r) /\ UNCHANGED <<tenants, userRow, pending, tokens, writers>>
       ELSE /\ userRow' = [userRow EXCEPT ![r] = NewUser(r)]
            /\ writers' = [writers EXCEPT ![r] = {req[r].pod}]
            /\ IF req[r].op = "register"
               THEN CloseCode(r) /\ IssueTokens({r}) /\ UNCHANGED tenants
               ELSE /\ Finish(r) /\ CacheTenants(req[r].pod, {req[r].tenant})
                    /\ UNCHANGED <<pending, tokens>>
    /\ UNCHANGED <<users, tenantRow, bounds, raced>>

-----------------------------------------------------------------------------
(* login: the tenant is looked up once the password is right.               *)
Login(p, e, pw) ==
    /\ Offered("login") /\ p \in scene.pods
    /\ \E u \in ByEmail(p, e) :
         /\ CacheUsers(p, {u})
         /\ IF VerifyPassword(UserAt(p, u), pw) /\ TenantAt(p, UserAt(p, u).tenant) # None
            THEN /\ IssueTokens({u})
                 /\ CacheTenants(p, {UserAt(p, u).tenant})
            ELSE UNCHANGED <<tenants, tokens>>
    /\ UNCHANGED <<tables, pending, req, bounds, raced, writers>>

\* A user object gets new contents, and save goes up to its query.
SaveUser(r, p, u, object, op, mailed) ==
    /\ Begin(r, [op |-> op, at |-> "writeUser", pod |-> p, user |-> u, row |-> object,
                 mailed |-> mailed, touches |-> {u, object.email}])
    /\ users' = [users EXCEPT ![p][u] = object]
    /\ UNCHANGED <<tenants, tables, pending, tokens, bounds, writers>>

(* verifyPasswordResetCode, and changePassword.                             *)
VerifyPasswordResetCode(r, p, e, pw) ==
    /\ Accepts(p, "reset", e)
    /\ LET u == pending[p]["reset"][e].user IN
         /\ UserAt(p, u) # None
         /\ SaveUser(r, p, u, SetPassword(UserAt(p, u), pw), "reset", e)

ChangePassword(r, p, u, current, pw) ==
    /\ Offered("password") /\ SignedIn(p, u)
    /\ VerifyPassword(UserAt(p, u), current)
    /\ SaveUser(r, p, u, SetPassword(UserAt(p, u), pw), "password", None)

(* updateMyProfile: the object of the user is held while a new address is   *)
(* looked up, then changed and saved.                                       *)
UpdateMyProfile(r, p, u, e) ==
    /\ Offered("profile") /\ SignedIn(p, u) /\ e \in scene.values
    /\ UserAt(p, u).email # e
    /\ Begin(r, [op |-> "profile", at |-> "profile", pod |-> p, holds |-> u,
                 obj |-> Cached, email |-> e, touches |-> {u, e}])
    /\ CacheUsers(p, {u})
    /\ UNCHANGED <<tenants, tables, pending, tokens, bounds, writers>>

CheckProfile(r) ==
    /\ req[r].at = "profile"
    /\ LET p == req[r].pod  u == req[r].holds
           found == ByEmail(p, req[r].email)
           object == UpdateProfile(Held(users, r), req[r].email) IN
         \/ found \ {u} # {} /\ Finish(r) /\ CacheUsers(p, found)
         \/ /\ found \ {u} = {}
            /\ users' = [users EXCEPT ![p][u] = object]
            /\ req' = [PutBack(req, users[p][u], r) EXCEPT ![r] =
                          [op |-> "profile", at |-> "writeUser", pod |-> p, user |-> u,
                           row |-> object, touches |-> @.touches]]
    /\ UNCHANGED <<tenants, tables, pending, tokens, bounds, raced, writers>>

(* Mutant: the address is left out of the row. *)
WriteUserNoEmail(r) ==
    /\ req[r].at = "writeUser"
    /\ userRow' = [userRow EXCEPT ![req[r].user].pw = req[r].row.pw]
    /\ writers' = [writers EXCEPT ![req[r].user] = @ \cup {req[r].pod}]
    /\ Finish(r)
    /\ UNCHANGED <<maps, tenantRow, pending, tokens, bounds, raced>>

(* The row of a changed user is stored; a reset code is deleted then.       *)
WriteUser(r) ==
    /\ req[r].at = "writeUser"
    /\ LET u == req[r].user IN
         IF EmailTaken(u, req[r].row) THEN UNCHANGED <<userRow, pending, writers>>
         ELSE /\ userRow' = [userRow EXCEPT ![u] = req[r].row]
              /\ writers' = [writers EXCEPT ![u] = @ \cup {req[r].pod}]
              /\ pending' = IF req[r].op = "reset"
                            THEN [pending EXCEPT ![req[r].pod]["reset"][req[r].mailed] = None]
                            ELSE pending
    /\ Finish(r)
    /\ UNCHANGED <<maps, tenantRow, tokens, bounds, raced>>

-----------------------------------------------------------------------------
(* updateBusinessProfile: the tenant is held while the list is read, which  *)
(* it is for a new number; a new name goes on to save at once.              *)
UpdateBusinessProfile(r, p, u, n) ==
    /\ Offered("business") /\ SignedIn(p, u) /\ n \in scene.values
    /\ HasPermission(UserAt(p, u))
    /\ LET t == UserAt(p, u).tenant IN
         /\ TenantAt(p, t) # None
         /\ CacheTenants(p, {t})
         /\ \/ Begin(r, [op |-> "business", at |-> "list", pod |-> p, holds |-> t, nui |-> n,
                         obj |-> Cached, list |-> tenantRow, touches |-> {n} \cup Stored(tenantRow)])
            \/ Begin(r, [op |-> "business", at |-> "count", pod |-> p, holds |-> t,
                         obj |-> Cached, touches |-> {t}])
    /\ CacheUsers(p, {u})
    /\ UNCHANGED <<tables, pending, tokens, bounds, writers>>

\* Objects for the listed rows replace those in the map.
Relisted(map, rows) == [i \in Id |-> IF rows[i] # None THEN rows[i] ELSE map[i]]

(* The list arrives: its objects are cached, the number is compared with    *)
(* those of the others, and the held tenant goes back into the map.         *)
SetNui(r) ==
    /\ req[r].at = "list"
    /\ LET p == req[r].pod  t == req[r].holds  list == req[r].list
           detached == Detach(tenants, "business", p, Stored(list), r)
           listed == Relisted(tenants[p], list)
           object == UpdateBusiness(detached[r].obj.val, req[r].nui) IN
         IF \E x \in Stored(list) \ {t} : list[x].nui = req[r].nui
         THEN /\ tenants' = [tenants EXCEPT ![p] = listed]
              /\ req' = [detached EXCEPT ![r] = Done]
         ELSE /\ tenants' = [tenants EXCEPT ![p] = [listed EXCEPT ![t] = object]]
              /\ req' = [PutBack(detached, listed[t], r) EXCEPT ![r] =
                           [op |-> "business", at |-> "count", pod |-> p, holds |-> t,
                            obj |-> Cached, touches |-> @.touches]]
    /\ UNCHANGED <<users, tables, pending, tokens, bounds, raced, writers>>

(* save of the tenant: the row is counted, and then taken from the object.  *)
CountTenant(r) ==
    /\ req[r].at = "count"
    /\ req' = [req EXCEPT ![r] = [op |-> "business", at |-> "writeTenant", pod |-> @.pod,
                                  tenant |-> @.holds, row |-> Held(tenants, r),
                                  touches |-> @.touches]]
    /\ UNCHANGED <<maps, tables, pending, tokens, bounds, raced, writers>>

WriteTenant(r) ==
    /\ req[r].at = "writeTenant"
    /\ LET t == req[r].tenant IN
         IF SlugOrNuiTaken(t, req[r].row) THEN UNCHANGED <<tenantRow, writers>>
         ELSE /\ tenantRow' = [tenantRow EXCEPT ![t] = req[r].row]
              /\ writers' = [writers EXCEPT ![t] = @ \cup {req[r].pod}]
    /\ Finish(r)
    /\ UNCHANGED <<maps, userRow, pending, tokens, bounds, raced>>

-----------------------------------------------------------------------------
\* Rows are read, and will be cached when they arrive.
ReadUsers(r, p, us) ==
    /\ LET list == [u \in Id |-> IF u \in us THEN userRow[u] ELSE None] IN
         Begin(r, [op |-> "readUsers", at |-> "fillUsers", pod |-> p, list |-> list,
                   touches |-> Stored(list)])
    /\ UNCHANGED <<maps, tables, pending, tokens, bounds, writers>>

ReadTenants(r, p, ts) ==
    /\ LET list == [t \in Id |-> IF t \in ts THEN tenantRow[t] ELSE None] IN
         Begin(r, [op |-> "readTenants", at |-> "fillTenants", pod |-> p, list |-> list,
                   touches |-> Stored(list)])
    /\ UNCHANGED <<maps, tables, pending, tokens, bounds, writers>>

(* listUsers reads the rows of a tenant, listTenants reads all.             *)
ListUsers(r, p, t) ==
    Offered("listUsers") /\ ReadUsers(r, p, {u \in Stored(userRow) : userRow[u].tenant = t})

ListTenants(r, p) == Offered("listTenants") /\ ReadTenants(r, p, Id)

(* A lookup, by id or by a column, finds nothing in the map and reads the   *)
(* row: findById, findByEmail, findBySlug and findByNui, whoever calls them.*)
FindUser(r, p, u) ==
    /\ Offered("findUser") /\ userRow[u] # None
    /\ users[p][u] = None \/ Holders(users[p], "email", userRow[u].email) = {}
    /\ ReadUsers(r, p, {u})

FindTenant(r, p, t) ==
    /\ Offered("findTenant") /\ tenantRow[t] # None
    /\ \/ tenants[p][t] = None
       \/ \E field \in {"slug", "nui"} : Holders(tenants[p], field, tenantRow[t][field]) = {}
    /\ ReadTenants(r, p, {t})

FillUsers(r) ==
    /\ req[r].at = "fillUsers"
    /\ LET p == req[r].pod IN
         /\ users' = [users EXCEPT ![p] = Relisted(@, req[r].list)]
         /\ req' = [Detach(users, "profile", p, Stored(req[r].list), r) EXCEPT ![r] = Done]
    /\ UNCHANGED <<tenants, tables, pending, tokens, bounds, raced, writers>>

FillTenants(r) ==
    /\ req[r].at = "fillTenants"
    /\ LET p == req[r].pod IN
         /\ tenants' = [tenants EXCEPT ![p] = Relisted(@, req[r].list)]
         /\ req' = [Detach(tenants, "business", p, Stored(req[r].list), r) EXCEPT ![r] = Done]
    /\ UNCHANGED <<users, tables, pending, tokens, bounds, raced, writers>>

(* The database refuses a save: the request fails, the map keeps its object. *)
SaveFails(r) ==
    /\ req[r].at \in {"insertTenant", "insertUser", "writeUser", "count", "writeTenant"}
    /\ failures < MaxFailures /\ failures' = failures + 1
    /\ Finish(r)
    /\ UNCHANGED <<maps, tables, pending, tokens, codes, crashes, scene, raced, writers>>

(* A process restarts: maps, codes and requests are gone.                   *)
Restart(p) ==
    /\ p \in scene.pods
    /\ crashes < MaxCrashes /\ crashes' = crashes + 1
    /\ users' = [users EXCEPT ![p] = [u \in Id |-> None]]
    /\ tenants' = [tenants EXCEPT ![p] = [t \in Id |-> None]]
    /\ pending' = [pending EXCEPT ![p] = NoCodes]
    /\ req' = [r \in Request |-> IF Running(r) /\ req[r].pod = p THEN Done ELSE req[r]]
    /\ UNCHANGED <<tables, tokens, codes, failures, scene, raced, writers>>

-----------------------------------------------------------------------------
Mailed(p) ==
    \E e \in Email :
       \/ \E s \in Slug, n \in Nui : RequestRegistrationCode(p, e, s, n)
       \/ RequestPasswordResetCode(p, e)
       \/ \E k \in {"register", "reset"} : TryWrongCode(p, k, e)
       \/ \E pw \in Password : Login(p, e, pw)

Started(r, p) ==
    \/ \E e \in Email : \/ VerifyRegistrationCode(r, p, e)
                        \/ \E pw \in Password : VerifyPasswordResetCode(r, p, e, pw)
    \/ \E u \in Id :
         \/ \E e \in Email, admin \in BOOLEAN : CreateUser(r, p, u, e, admin)
         \/ \E pw, new \in Password : ChangePassword(r, p, u, pw, new)
         \/ \E e \in Email : UpdateMyProfile(r, p, u, e)
         \/ \E n \in Nui : UpdateBusinessProfile(r, p, u, n)
         \/ ListUsers(r, p, u) \/ FindUser(r, p, u) \/ FindTenant(r, p, u)
    \/ ListTenants(r, p)

Continued(r) ==
    \/ CheckSlug(r) \/ CheckEmail(r) \/ InsertTenant(r) \/ InsertUser(r)
    \/ CheckProfile(r) \/ WriteUser(r)
    \/ SetNui(r) \/ CountTenant(r) \/ WriteTenant(r)
    \/ FillUsers(r) \/ FillTenants(r) \/ SaveFails(r)

Next ==
    \/ \E p \in Pod : Mailed(p) \/ Restart(p)
    \/ \E r \in Request, p \in Pod : Started(r, p)
    \/ \E r \in Request : Continued(r)

Spec == Init /\ [][Next]_vars

-----------------------------------------------------------------------------
(* Whatever fails, stops or overlaps: the company of a stored user is       *)
(* stored, since a registration stores the tenant before its admin.         *)
UserHasTenant ==
    \A u \in Id : userRow[u] # None => tenantRow[userRow[u].tenant] # None

(* One mailed code makes at most one company, also when it is sent twice at *)
(* once, or again after the service failed half way.                        *)
OneTenantPerCode ==
    \A t, x \in Id \ Founder :
        tenantRow[t] # None /\ tenantRow[x] # None /\ tenantRow[t].code = tenantRow[x].code
            => t = x

Quiescent == \A r \in Request : ~Running(r)
Undisturbed == ~raced /\ failures = 0 /\ crashes = 0

(* Without a failure, a restart and two requests about the same thing at    *)
(* once, a registration leaves nothing half done: every stored company has  *)
(* a stored admin, except one whose admin was to have a blank name, which   *)
(* is stored before the name is looked at, and every token names a stored   *)
(* user, so nobody logs in as a user whose save was refused and who is only *)
(* in the map.                                                              *)
RegistrationIsWhole ==
    Quiescent /\ Undisturbed =>
        /\ \A t \in Id : tenantRow[t] # None /\ ~(t \in Request /\ req[t] = Thrown) =>
              \E u \in Id : userRow[u] # None /\ userRow[u].tenant = t /\ userRow[u].admin
        /\ \A u \in tokens : userRow[u] # None

(* A process that alone saves a user, or a company, whose saves do not fail *)
(* and overlap no other request, list or lookup of that user or company,    *)
(* has in its map what the row says: a password or an address that          *)
(* was changed is the one that counts at the next login.  A process that    *)
(* alone saves companies finds each by the number in its row, so that an    *)
(* invoice goes to the company whose number it names; not so once a         *)
(* registration was refused for a number in use, since its company stays in *)
(* the map and may be found first.                                          *)
CacheIsRow ==
    Quiescent /\ ~raced /\ failures = 0 =>
        \A p \in Pod :
            /\ \A i \in Id : writers[i] \subseteq {p} =>
                 /\ users[p][i] # None /\ userRow[i] # None => users[p][i] = userRow[i]
                 /\ tenants[p][i] # None /\ tenantRow[i] # None => tenants[p][i] = tenantRow[i]
            /\ /\ (UNION {writers[t] : t \in Stored(tenantRow)}) \subseteq {p}
               /\ Stored(tenants[p]) \subseteq Stored(tenantRow)
               => \A t \in Stored(tenantRow) : ByNui(p, tenantRow[t].nui) = {t}

=============================================================================
