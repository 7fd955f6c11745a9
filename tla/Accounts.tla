------------------------------ MODULE Accounts ------------------------------
(***************************************************************************)
(* Users, sessions and machine keys of the config_auth package: login,     *)
(* the check every management request passes, logout, the list of users    *)
(* that PUT /v1/management/users replaces, and the creation and the        *)
(* revocation of keys (config_auth/app/db.py, main.py, security.py).       *)
(*                                                                         *)
(* The handlers run in threads of one host over one SQLite file.  A SELECT *)
(* opens no transaction: what it returned may be out of date when the same *)
(* handler writes.  The first write takes the lock of the file, so that    *)
(* all writes of one connect() are one step.                               *)
(***************************************************************************)
EXTENDS Integers, FiniteSets, SequencesExt

CONSTANTS
    Clients,    \* callers of the management API, one request each at a time
    Names,      \* user names
    Lists,      \* bodies of PUT users: sequences of items
    MaxIds,     \* bound: ids of user rows ever given out
    MaxTokens,  \* bound: sessions ever opened
    MaxKeys,    \* bound: machine keys ever created
    Bootstrap,  \* CONFIG_AUTH_DEV_BOOTSTRAP_ADMIN
    None        \* no row, no password, no cookie

ASSUME AccountsAssumption ==
    /\ MaxIds \in Nat \ {0} /\ MaxTokens \in Nat /\ MaxKeys \in Nat
    /\ Bootstrap \in BOOLEAN /\ "admin" \in Names

VARIABLES
    users,     \* the rows of users with their user_roles, by id
    lastId,    \* AUTOINCREMENT: the highest id ever given out
    sessions,  \* the rows of sessions, by token; `login` is the name that logged in
    keys,      \* the rows of api_keys; `told`: the plaintext was returned
    req        \* what the handler of each client is at

accountVars == <<users, lastId, sessions, keys, req>>

Ids == 1 .. MaxIds

Tokens == 1 .. MaxTokens

KeyIds == 1 .. MaxKeys

\* The permissions the two handlers that write ask for, by role.
RolePermissions ==
    [admin |-> {"users:write", "keys:write"}, operator |-> {"keys:write"},
     viewer |-> {}, service |-> {}]

\* A password is <<the name it was chosen for, a number>>.
Passwords == Names \X (1 .. 2)

\* The items of a list, whose passwords are chosen for the name beside them.
Items == [name : Names \cup {""}, password : Passwords \cup {None}, active : BOOLEAN,
          roles : SUBSET STRING]

ASSUME ListsAssumption == \A list \in Lists :
    /\ list \in Seq(Items)
    /\ \A k \in DOMAIN list : list[k].password # None => list[k].password[1] = list[k].name

\* An Argon2 hash: of which password, and whether with parameters that the
\* library has since replaced (check_needs_rehash).
Hash(pw) == [of |-> pw, old |-> FALSE]

Verifies(pw, hash) == hash.of = pw

Account(name, hash, active, roles) ==
    [name |-> name, hash |-> hash, active |-> active, roles |-> roles]

AccountRows ==
    [name : Names, hash : [of : Passwords, old : BOOLEAN], active : BOOLEAN,
     roles : SUBSET DOMAIN RolePermissions]

SessionRows ==
    [user : Ids, login : Names, state : {"open", "expired", "deleted"}]

ASSUME NoneAssumption ==
    None \notin AccountRows \cup SessionRows \cup Passwords \cup Tokens

Rows == {i \in Ids : users[i] # None}

Named(rows, name) == {i \in Ids : rows[i] # None /\ rows[i].name = name}

\* Mutant: without AUTOINCREMENT, SQLite gives out the highest id in use plus one.
FreshUserIdReused(rows, last) ==
    1 + LET used == {i \in Ids : rows[i] # None} IN IF used = {} THEN 0 ELSE Max(used)

FreshUserId(rows, last) == last + 1

Permissions(account) == UNION {RolePermissions[r] : r \in account.roles}

NoRequest == [at |-> "idle"]

---------------------------------------------------------------------------
(* Login: the password is checked in one connection, the session is opened *)
(* in another, by the name.                                                 *)

\* A row is found, active, and the password verifies (a refused attempt
\* changes nothing).
AuthenticateUser(c) ==
    /\ req[c] = NoRequest
    /\ \E i \in Rows, pw \in Passwords :
          /\ users[i].active
          /\ Verifies(pw, users[i].hash)
          /\ req' = [req EXCEPT ![c] =
                [at |-> IF users[i].hash.old THEN "rehash" ELSE "matched",
                 id |-> i, name |-> users[i].name, pw |-> pw]]
    /\ UNCHANGED <<users, lastId, sessions, keys>>

\* UPDATE users SET password_hash WHERE id: the password of the login, hashed anew.
Rehash(c) ==
    /\ req[c].at = "rehash"
    /\ users' = IF users[req[c].id] = None THEN users
                ELSE [users EXCEPT ![req[c].id].hash = Hash(req[c].pw)]
    /\ req' = [req EXCEPT ![c].at = "matched"]
    /\ UNCHANGED <<lastId, sessions, keys>>

\* create_session: SELECT id by name; "unknown user" is an error of the server.
FindUser(c) ==
    /\ req[c].at = "matched"
    /\ IF Named(users, req[c].name) = {}
       THEN req' = [req EXCEPT ![c] = NoRequest]
       ELSE \E i \in Named(users, req[c].name) :
               req' = [req EXCEPT ![c] = [at |-> "found", id |-> i, name |-> @.name]]
    /\ UNCHANGED <<users, lastId, sessions, keys>>

\* INSERT INTO sessions; the foreign key refuses the id of a deleted user.
OpenSession(c) ==
    /\ req[c].at = "found"
    /\ IF users[req[c].id] = None
       THEN UNCHANGED sessions
       ELSE \E t \in Tokens :
               /\ sessions[t] = None /\ \A s \in 1 .. t - 1 : sessions[s] # None
               /\ sessions' = [sessions EXCEPT ![t] =
                     [user |-> req[c].id, login |-> req[c].name, state |-> "open"]]
    /\ req' = [req EXCEPT ![c] = NoRequest]
    /\ UNCHANGED <<users, lastId, keys>>

\* Eight hours pass.
Expire(t) ==
    /\ sessions[t] # None /\ sessions[t].state = "open"
    /\ sessions' = [sessions EXCEPT ![t].state = "expired"]
    /\ UNCHANGED <<users, lastId, keys, req>>

\* DELETE FROM sessions; a token is never given out again.
Ended(t) == [sessions EXCEPT ![t].state = "deleted"]

---------------------------------------------------------------------------
(* current_session and require_permission                                   *)

Admitted(permissions, cookie) ==
    [at |-> "admitted", may |-> permissions, cookie |-> cookie]

\* get_session: the user, the roles and is_active are read now; an expired
\* row is deleted, a session of an inactive user is refused and stays.
CookieRequest(c) ==
    /\ req[c] = NoRequest
    /\ \E t \in Tokens :
          /\ sessions[t] # None
          /\ \/ /\ sessions[t].state = "open"
                /\ users[sessions[t].user].active
                /\ req' = [req EXCEPT ![c] =
                      Admitted(Permissions(users[sessions[t].user]), t)]
                /\ UNCHANGED sessions
             \/ /\ sessions[t].state = "expired"
                /\ sessions' = Ended(t)
                /\ UNCHANGED req
    /\ UNCHANGED <<users, lastId, keys>>

\* authenticate_api_key: an Authorization header is looked at first; a cookie
\* sent beside it is used by logout alone.
BearerRequest(c) ==
    /\ req[c] = NoRequest
    /\ \E k \in KeyIds, t \in {s \in Tokens : sessions[s] # None} \cup {None} :
          /\ keys[k] # None /\ keys[k].told /\ ~keys[k].revoked
          /\ req' = [req EXCEPT ![c] = Admitted(keys[k].scopes, t)]
    /\ UNCHANGED <<users, lastId, sessions, keys>>

\* A handler that only reads, or one whose permission is missing.
AnswerOnly(c) ==
    /\ req[c].at = "admitted"
    /\ req' = [req EXCEPT ![c] = NoRequest]
    /\ UNCHANGED <<users, lastId, sessions, keys>>

Logout(c) ==
    /\ req[c].at = "admitted" /\ req[c].cookie # None
    /\ sessions' = Ended(req[c].cookie)
    /\ req' = [req EXCEPT ![c] = NoRequest]
    /\ UNCHANGED <<users, lastId, keys>>

---------------------------------------------------------------------------
(* replace_users                                                            *)

\* SELECT id, username, password_hash: the rows as they are now, by name.
ReadUsers(c) ==
    /\ req[c].at = "admitted" /\ "users:write" \in req[c].may
    /\ \E list \in Lists :
          req' = [req EXCEPT ![c] =
             [at |-> "replacing", list |-> list,
              existing |-> [n \in {users[i].name : i \in Rows} |->
                 LET i == CHOOSE j \in Named(users, n) : TRUE
                 IN  [id |-> i, hash |-> users[i].hash]]]]
    /\ UNCHANGED <<users, lastId, sessions, keys>>

\* INSERT of a name the SELECT did not return: it needs a password, and the
\* name must not have come up in the meantime or earlier in the list (UNIQUE).
Insert(item, db) ==
    IF item.password = None \/ Named(db.rows, item.name) # {}
    THEN [db EXCEPT !.failed = TRUE]
    ELSE LET id == FreshUserId(db.rows, db.last) IN
         [rows |-> [db.rows EXCEPT ![id] =
                       Account(item.name, Hash(item.password), item.active, item.roles)],
          last |-> id, failed |-> FALSE]

\* Mutant: the roles of a row that is gone are left out (INSERT OR IGNORE).
UpdateIgnoresGone(item, read, db) ==
    LET hash == IF item.password = None THEN read.hash ELSE Hash(item.password)
    IN  IF db.rows[read.id] = None THEN db
        ELSE [db EXCEPT !.rows[read.id] =
                 Account(@.name, hash, item.active, item.roles)]

\* UPDATE ... WHERE id, then DELETE and INSERT of its roles: without a password
\* in the item the hash that the SELECT returned is written back.  A row that is
\* gone is not updated, and a role for it breaks the foreign key.
Update(item, read, db) ==
    LET hash == IF item.password = None THEN read.hash ELSE Hash(item.password)
    IN  IF db.rows[read.id] = None
        THEN [db EXCEPT !.failed = item.roles # {}]
        ELSE [db EXCEPT !.rows[read.id] =
                 Account(@.name, hash, item.active, item.roles)]

WriteUser(existing, item, db) ==
    IF db.failed \/ item.name = "" \/ ~(item.roles \subseteq DOMAIN RolePermissions)
    THEN [db EXCEPT !.failed = TRUE]
    ELSE IF item.name \in DOMAIN existing
         THEN Update(item, existing[item.name], db)
         ELSE Insert(item, db)

ListNames(list) == {list[i].name : i \in DOMAIN list}

\* The rows whose names the SELECT returned and the list leaves out.
Omitted(existing, list) == {existing[n].id : n \in DOMAIN existing \ ListNames(list)}

Replaced(existing, list) ==
    LET written == FoldLeft(LAMBDA db, item : WriteUser(existing, item, db),
                            [rows |-> users, last |-> lastId, failed |-> FALSE], list)
    IN  [written EXCEPT !.rows = [i \in Ids |->
            IF i \in Omitted(existing, list) THEN None ELSE @[i]]]

\* Deleted users take their sessions with them (ON DELETE CASCADE).
Cascade(rows) ==
    [t \in Tokens |->
        IF sessions[t] # None /\ sessions[t].state # "deleted" /\ rows[sessions[t].user] = None
        THEN [sessions[t] EXCEPT !.state = "deleted"]
        ELSE sessions[t]]

\* connect() commits when the handler got through, and nothing otherwise.
WriteUsers(c) ==
    /\ req[c].at = "replacing"
    /\ lastId + Len(req[c].list) <= MaxIds
    /\ LET done == Replaced(req[c].existing, req[c].list) IN
          \/ /\ done.failed
             /\ UNCHANGED <<users, lastId, sessions>>
          \/ /\ ~done.failed
             /\ users' = done.rows
             /\ lastId' = done.last
             /\ sessions' = Cascade(done.rows)
    /\ req' = [req EXCEPT ![c] = NoRequest]
    /\ UNCHANGED keys

---------------------------------------------------------------------------
(* Machine keys                                                             *)

CreateApiKey(c) ==
    /\ req[c].at = "admitted" /\ "keys:write" \in req[c].may
    /\ \E k \in KeyIds, scopes \in {{}, {"users:write", "keys:write"}} :
          /\ keys[k] = None /\ \A j \in 1 .. k - 1 : keys[j] # None
          /\ keys' = [keys EXCEPT ![k] = [scopes |-> scopes, told |-> FALSE, revoked |-> FALSE]]
          /\ req' = [req EXCEPT ![c] = [at |-> "created", key |-> k]]
    /\ UNCHANGED <<users, lastId, sessions>>

\* get_api_key after the export: a key revoked meanwhile is an unknown key, and
\* its plaintext is not returned.
AnswerKey(c) ==
    /\ req[c].at = "created"
    /\ keys' = [keys EXCEPT ![req[c].key].told = ~keys[req[c].key].revoked]
    /\ req' = [req EXCEPT ![c] = NoRequest]
    /\ UNCHANGED <<users, lastId, sessions>>

RevokeApiKey(c) ==
    /\ req[c].at = "admitted" /\ "keys:write" \in req[c].may
    /\ \E k \in KeyIds :
          keys[k] # None /\ keys' = [keys EXCEPT ![k].revoked = TRUE]
    /\ req' = [req EXCEPT ![c] = NoRequest]
    /\ UNCHANGED <<users, lastId, sessions>>

---------------------------------------------------------------------------
\* The host is killed and started: open requests are lost, and an empty table
\* of users gets the bootstrap administrator.
HostRestart ==
    /\ req' = [c \in Clients |-> NoRequest]
    /\ IF Bootstrap /\ Rows = {}
       THEN /\ lastId < MaxIds
            /\ lastId' = FreshUserId(users, lastId)
            /\ users' = [users EXCEPT ![FreshUserId(users, lastId)] =
                  Account("admin", Hash(<<"admin", 1>>), TRUE, {"admin"})]
       ELSE UNCHANGED <<users, lastId>>
    /\ UNCHANGED <<sessions, keys>>

\* The first start left the bootstrap administrator; its hash may since have
\* become one of old parameters.
AccountsInit ==
    /\ \E old \in BOOLEAN :
          users = [i \in Ids |-> IF i = 1
             THEN Account("admin", [of |-> <<"admin", 1>>, old |-> old], TRUE, {"admin"})
             ELSE None]
    /\ lastId = 1
    /\ sessions = [t \in Tokens |-> None]
    /\ keys = [k \in KeyIds |-> None]
    /\ req = [c \in Clients |-> NoRequest]

AccountsNext ==
    \/ \E c \in Clients :
          \/ AuthenticateUser(c) \/ Rehash(c) \/ FindUser(c) \/ OpenSession(c)
          \/ CookieRequest(c) \/ BearerRequest(c) \/ AnswerOnly(c) \/ Logout(c)
          \/ ReadUsers(c) \/ WriteUsers(c)
          \/ CreateApiKey(c) \/ AnswerKey(c) \/ RevokeApiKey(c)
    \/ \E t \in Tokens : Expire(t)
    \/ HostRestart

AccountsSpec == AccountsInit /\ [][AccountsNext]_accountVars

---------------------------------------------------------------------------
(* Properties                                                               *)

\* Rows and tokens are what their tables hold, and ids come from the sequence.
AccountsTypeOK ==
    /\ users \in [Ids -> AccountRows \cup {None}]
    /\ lastId \in Ids /\ \A i \in Ids : i > lastId => users[i] = None
    /\ sessions \in [Tokens -> SessionRows \cup {None}]
    /\ DOMAIN req = Clients

\* What belongs to one user never becomes another's: the password of a row was
\* chosen for its name, and a session that is left serves the name that logged
\* in, also when the row was deleted, or another one inserted, between the
\* SELECT and the write of a replacement or of a login.
OwnAccount ==
    /\ \A i \in Rows : users[i].hash.of[1] = users[i].name
    /\ \A t \in Tokens : sessions[t] # None /\ sessions[t].state # "deleted" =>
          users[sessions[t].user] # None /\ users[sessions[t].user].name = sessions[t].login

LastItem(list, n) == list[CHOOSE k \in DOMAIN list :
    list[k].name = n /\ \A j \in DOMAIN list : list[j].name = n => j <= k]

\* The table is what the list says, but for users that came up after its SELECT
\* and users listed without a role whose row had gone.
Holds(list, existing, rows) ==
    /\ \A n \in ListNames(list) :
          LET item == LastItem(list, n) IN
          item.roles # {} =>
             \E i \in Named(rows, n) :
                /\ rows[i].active = item.active /\ rows[i].roles = item.roles
                /\ item.password # None => Verifies(item.password, rows[i].hash)
    /\ \A i \in Ids : rows[i] # None /\ rows[i].name \notin ListNames(list) =>
          i \notin {existing[n].id : n \in DOMAIN existing}

\* A replacement that changes anything takes hold as a whole: each user it lists
\* with a role is in the table with the flag, the roles and the password of its
\* last item, and nobody it knew of and left out remains, although another
\* replacement was committed between its SELECT and its writes.
ReplaceTakesHold ==
    [][\A c \in Clients : WriteUsers(c) /\ users' # users =>
          Holds(req[c].list, req[c].existing, users')]_accountVars

\* The editor of users says that a password is included "only when rotating
\* it": the password of a user changes only by a list that gives that user one.
PasswordOnlyWhenGiven ==
    [][\A i \in Ids :
          users[i] # None /\ users'[i] # None /\ users'[i].hash.of # users[i].hash.of =>
             \E c \in Clients :
                /\ WriteUsers(c)
                /\ \E k \in DOMAIN req[c].list :
                      req[c].list[k].name = users[i].name /\ req[c].list[k].password # None]_accountVars

=============================================================================
