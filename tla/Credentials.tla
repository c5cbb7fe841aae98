------------------------------ MODULE Credentials ------------------------------
(***************************************************************************)
(* Who a request acts for: services/tokens_svc.go, the API-token and JWT    *)
(* half of auth_svc.go (Login, Refresh, ValidateAPIToken, the owner check   *)
(* of IsAutorised), helpers/auth.go, helpers/ldap.go, the authentication    *)
(* middleware, controllers/tokens.go and auth.go, and DeleteUser, which     *)
(* looks for tokens. One action is one statement on Postgres.               *)
(*                                                                          *)
(* A JWT is checked against the clock alone; an API token is looked for,    *)
(* and then its owner, who may be gone: the request then acts for the zero  *)
(* uuid. Roles are AccessControl's; here some users hold a role on          *)
(* everything and the others none.                                          *)
(***************************************************************************)
EXTENDS Rows

CONSTANTS
    Uids, TokenIds, Keys, Names, Providers,
    Nobody,        \* the zero uuid, which is no user's
    Wardens,       \* users whose role covers every question; members of a group
    SeedUsers, SeedTokens, SeedJwts,
    GivenIds,      \* token ids that bodies choose; gen_random_uuid() draws none of them
    Bodies,        \* bodies of the routes that write tokens, but for the id
    JwtTTL,        \* seconds a JWT lasts
    MaxTime, Requests, MaxRequests

Nil   == "nil"     \* a field that is absent from a body
Never == 0         \* the zero time of Expires

Times    == Never .. MaxTime
UserRow  == [name : Names, provider : Providers]
TokenRow == [owner : Uids \cup {Nobody}, key : Keys, enabled : BOOLEAN, expires : Times]
Body     == [enabled : {Nil, "true", "false"}, expires : {Nil} \X {Never} \cup {"time"} \X Times]
Claims   == [user : Uids, name : Names, provider : Providers, exp : Nat]

ASSUME NobodyAssumption == Nobody \notin Uids
ASSUME TimeAssumption == JwtTTL \in Nat /\ MaxTime \in Nat \ {0}
ASSUME SeedsAssumption ==
    /\ DOMAIN SeedUsers \subseteq Uids /\ SeedUsers \in [DOMAIN SeedUsers -> UserRow]
    /\ DOMAIN SeedTokens \subseteq TokenIds /\ SeedTokens \in [DOMAIN SeedTokens -> TokenRow]
    /\ \A u, v \in DOMAIN SeedUsers : SeedUsers[u] = SeedUsers[v] => u = v
    /\ \A t \in DOMAIN SeedTokens : SeedTokens[t].owner \in DOMAIN SeedUsers
    /\ \A t, s \in DOMAIN SeedTokens : SeedTokens[t].key = SeedTokens[s].key => t = s
    /\ SeedJwts \subseteq Claims /\ Wardens \subseteq DOMAIN SeedUsers
    /\ GivenIds \subseteq TokenIds /\ Bodies \subseteq Body

VARIABLES
    users,     \* id -> row
    tokens,    \* id -> row of table api_tokens
    jwts,      \* the JWTs handed out
    now,
    used,      \* ids and keys so far: neither is drawn twice
    given,     \* token ids that a body chose
    late,      \* keys made for an owner past the token check of DeleteUser, or gone
    req, count

vars == <<users, tokens, jwts, now, used, given, late, req, count>>

AsksOwner == {"getToken", "updateToken", "deleteToken"}
AsksRoles == {"use", "deleteUser", "listAllTokens"}
NoAsk     == {"createToken", "listTokens"}

NoCopy == [owner |-> Nobody, enabled |-> FALSE, expires |-> Never]

Idle == [pc |-> "idle", op |-> "none", user |-> Nobody, key |-> "none", id |-> "none",
         name |-> "none", provider |-> "none", body |-> [enabled |-> Nil, expires |-> <<Nil, Never>>],
         copy |-> NoCopy, answer |-> "none"]

Init ==
    /\ users = SeedUsers /\ tokens = SeedTokens /\ jwts = SeedJwts
    /\ now = 1
    /\ used = DOMAIN SeedUsers \cup DOMAIN SeedTokens \cup {SeedTokens[t].key : t \in DOMAIN SeedTokens}
    /\ given = {} /\ late = {}
    /\ req = [r \in Requests |-> Idle]
    /\ count = 0

Goto(r, pc) == req' = [req EXCEPT ![r].pc = pc]

Answer(r, answer) == req' = [req EXCEPT ![r] = [Idle EXCEPT !.answer = answer]]

Tables == <<users, tokens, used, given, late>>

-----------------------------------------------------------------------------
(* jwt-go accepts the second in which a JWT expires; a token is expired after its own. *)
ValidateJWTToken(jwt) == jwt.exp >= now
Expired(row) == row.expires # Never /\ row.expires < now

CreateJWTToken(user, name, provider) ==
    [user |-> user, name |-> name, provider |-> provider, exp |-> now + JwtTTL]

(* What the routes ask of the authorisation middleware, once the identity is known. *)
Route(op) ==
    CASE op = "createToken" -> "insertToken"
      [] op = "listTokens" -> "listTokens"
      [] op \in AsksOwner -> "askOwner"
      [] op \in AsksRoles -> "getRoles"

After(op) ==
    CASE op \in AsksOwner -> "readToken"
      [] op = "deleteUser" -> "countTokens"
      [] op = "use" -> "idle"

(* AuthenticationMiddleware: a Token header, or a JWT that carries the identity itself. *)
Begin(r) ==
    /\ req[r].pc = "idle"
    /\ count < MaxRequests /\ count' = count + 1
    /\ \E op \in NoAsk \cup AsksOwner \cup AsksRoles :
       \E id \in IF op \in AsksOwner THEN (used \cap TokenIds) \cup GivenIds
                 ELSE IF op = "deleteUser" THEN used \cap Uids ELSE {"none"} :
          \/ \E key \in used \cap Keys :
                req' = [req EXCEPT ![r] = [Idle EXCEPT !.pc = "findKey", !.op = op, !.id = id, !.key = key]]
          \/ \E jwt \in jwts :
                /\ ValidateJWTToken(jwt)
                /\ req' = [req EXCEPT ![r] = [Idle EXCEPT !.pc = Route(op), !.op = op, !.id = id,
                                                          !.user = jwt.user]]
          \/ \E jwt \in jwts : ~ ValidateJWTToken(jwt) /\ Answer(r, "unauthorised")
    /\ UNCHANGED <<Tables, jwts, now>>

(* ValidateAPIToken, the token. *)
FindKey(r) ==
    /\ req[r].pc = "findKey"
    /\ \/ /\ \A t \in DOMAIN tokens : tokens[t].key # req[r].key
          /\ Answer(r, "unauthorised")
       \/ \E t \in DOMAIN tokens :
             /\ tokens[t].key = req[r].key
             /\ IF Expired(tokens[t]) \/ ~ tokens[t].enabled
                THEN Answer(r, "unauthorised")
                ELSE req' = [req EXCEPT ![r].pc = "findOwner", ![r].user = tokens[t].owner]
    /\ UNCHANGED <<Tables, jwts, now, count>>

(* ValidateAPIToken, the owner: no row is no error, and leaves the zero user. *)
FindOwner(r) ==
    /\ req[r].pc = "findOwner"
    /\ req' = [req EXCEPT ![r].pc = Route(req[r].op),
                          ![r].user = IF @ \in DOMAIN users THEN @ ELSE Nobody]
    /\ UNCHANGED <<Tables, jwts, now, count>>

(* Mutant: any user that owns some token passes. *)
AskOwnerOfAny(r) ==
    /\ req[r].pc = "askOwner"
    /\ Goto(r, IF \E t \in DOMAIN tokens : tokens[t].owner = req[r].user THEN "readToken" ELSE "getRoles")
    /\ UNCHANGED <<Tables, jwts, now, count>>

(* IsAutorised on apiTokens: the owner of the row, the zero uuid when there is none. *)
AskOwner(r) ==
    LET id    == req[r].id
        owner == IF id \in DOMAIN tokens THEN tokens[id].owner ELSE Nobody
    IN
    /\ req[r].pc = "askOwner"
    /\ Goto(r, IF owner = req[r].user THEN "readToken" ELSE "getRoles")
    /\ UNCHANGED <<Tables, jwts, now, count>>

(* GetUserRoles, and the decision or the list of what the roles cover. *)
GetRoles(r) ==
    /\ req[r].pc = "getRoles"
    /\ IF req[r].user \notin DOMAIN users THEN Answer(r, "error")
       ELSE IF req[r].op = "listAllTokens" THEN Answer(r, "ok")
       ELSE IF req[r].user \notin Wardens THEN Answer(r, "forbidden")
       ELSE IF req[r].op = "use" THEN Answer(r, "ok")
       ELSE Goto(r, After(req[r].op))
    /\ UNCHANGED <<Tables, jwts, now, count>>

-----------------------------------------------------------------------------
(* CreateApiToken: no role is asked for, and the owner is whoever acts. *)
InsertToken(r) ==
    LET owner == req[r].user IN
    /\ req[r].pc = "insertToken"
    /\ \E body \in Bodies, chosen \in GivenIds \cup {Nil}, key \in Keys \ used :
       \E id \in IF chosen = Nil THEN TokenIds \ (used \cup GivenIds) ELSE {chosen} :
          IF id \in DOMAIN tokens
          THEN Answer(r, "error") /\ UNCHANGED <<tokens, used, given, late>>
          ELSE /\ tokens' = Insert(tokens, id, [owner |-> owner, key |-> key,
                               enabled |-> body.enabled # "false", expires |-> body.expires[2]])
               /\ used' = used \cup {id, key}
               /\ given' = IF chosen = Nil THEN given ELSE given \cup {id}
               /\ late' = IF \/ owner \notin DOMAIN users
                             \/ \E q \in Requests : req[q].pc = "dropUser" /\ req[q].id = owner
                          THEN late \cup {key} ELSE late
               /\ Answer(r, "ok")
    /\ UNCHANGED <<users, jwts, now, count>>

(* ListApiTokens: the caller's own. *)
ListTokens(r) ==
    /\ req[r].pc = "listTokens"
    /\ Answer(r, "ok")
    /\ UNCHANGED <<Tables, jwts, now, count>>

(* Mutant: an absent field counts as its default. *)
MergeWithDefaults(row, body) ==
    [owner |-> row.owner, enabled |-> body.enabled # "false", expires |-> body.expires[2]]

(* UpdateApiToken, the fields that are in the body. *)
MergeBody(row, body) ==
    [owner   |-> row.owner,
     enabled |-> IF body.enabled = Nil THEN row.enabled ELSE body.enabled = "true",
     expires |-> IF body.expires[1] = Nil THEN row.expires ELSE body.expires[2]]

(* GetApiToken, by id, in the routes that read, update and delete. *)
ReadToken(r) ==
    LET id == req[r].id IN
    /\ req[r].pc = "readToken"
    /\ \/ id \notin DOMAIN tokens /\ Answer(r, "error")
       \/ id \in DOMAIN tokens /\ req[r].op = "getToken" /\ Answer(r, "ok")
       \/ id \in DOMAIN tokens /\ req[r].op = "deleteToken" /\ Goto(r, "dropToken")
       \/ /\ id \in DOMAIN tokens /\ req[r].op = "updateToken"
          /\ \E body \in Bodies :
                req' = [req EXCEPT ![r].pc = "putToken", ![r].body = body,
                                   ![r].copy = MergeBody(tokens[id], body)]
    /\ UNCHANGED <<Tables, jwts, now, count>>

(* Mutant: the row is saved, which brings back one that is gone. *)
PutTokenSaving(r) ==
    LET copy == req[r].copy
        id   == req[r].id
    IN
    /\ req[r].pc = "putToken"
    /\ \E key \in IF id \in DOMAIN tokens THEN {tokens[id].key}
                  ELSE (used \cap Keys) \ {tokens[t].key : t \in DOMAIN tokens} :
          tokens' = Insert(tokens, id, [owner |-> copy.owner, key |-> key,
                                        enabled |-> copy.enabled, expires |-> copy.expires])
    /\ Goto(r, "readBack")
    /\ UNCHANGED <<users, jwts, now, count, used, given, late>>

(* db.Updates(oldToken): every column of the read but the key, which it did not
   select, and a zero owner, which gorm skips. *)
PutToken(r) ==
    LET copy == req[r].copy
        id   == req[r].id
    IN
    /\ req[r].pc = "putToken"
    /\ tokens' = IF id \in DOMAIN tokens
                 THEN [tokens EXCEPT ![id].owner = IF copy.owner = Nobody THEN @ ELSE copy.owner,
                                     ![id].enabled = copy.enabled, ![id].expires = copy.expires]
                 ELSE tokens
    /\ Goto(r, "readBack")
    /\ UNCHANGED <<users, jwts, now, count, used, given, late>>

ReadBack(r) ==
    /\ req[r].pc = "readBack"
    /\ Answer(r, IF req[r].id \in DOMAIN tokens THEN "ok" ELSE "error")
    /\ UNCHANGED <<Tables, jwts, now, count>>

DropToken(r) ==
    /\ req[r].pc = "dropToken"
    /\ tokens' = Without(tokens, req[r].id)
    /\ Answer(r, "ok")
    /\ UNCHANGED <<users, jwts, now, count, used, given, late>>

(* Mutant: only enabled tokens are counted. *)
CountEnabledTokens(r) ==
    LET u == req[r].id IN
    /\ req[r].pc = "countTokens"
    /\ IF \/ u \notin DOMAIN users \/ u \in Wardens
          \/ \E t \in DOMAIN tokens : tokens[t].owner = u /\ tokens[t].enabled
       THEN Answer(r, "error") ELSE Goto(r, "dropUser")
    /\ UNCHANGED <<Tables, jwts, now, count>>

(* DeleteUser refuses an unknown user, a member of a group and an owner of tokens. *)
CountTokens(r) ==
    LET u == req[r].id IN
    /\ req[r].pc = "countTokens"
    /\ IF \/ u \notin DOMAIN users \/ u \in Wardens
          \/ \E t \in DOMAIN tokens : tokens[t].owner = u
       THEN Answer(r, "error") ELSE Goto(r, "dropUser")
    /\ UNCHANGED <<Tables, jwts, now, count>>

DropUser(r) ==
    /\ req[r].pc = "dropUser"
    /\ users' = Without(users, req[r].id)
    /\ Answer(r, "ok")
    /\ UNCHANGED <<tokens, jwts, now, count, used, given, late>>

-----------------------------------------------------------------------------
(* BindAndSearch: the directory is reached, finds the user and accepts the password, or not. *)
BindAndSearch == {"bound", "refused"}

(* Login, up to its first statement: the directory answers for active_directory, the
   root password is a Secret whatever the provider, and local users come from the table. *)
Login(r) ==
    /\ req[r].pc = "idle"
    /\ count < MaxRequests /\ count' = count + 1
    /\ \E name \in Names, provider \in Providers :
          LET next(pc) == req' = [req EXCEPT ![r] = [Idle EXCEPT !.pc = pc, !.op = "login",
                                                     !.name = name, !.provider = provider]]
          IN \/ name = "root" /\ next("findUser")
             \/ name # "root" /\ provider = "local" /\ next("findUser")
             \/ /\ name # "root" /\ provider = "active_directory"
                /\ \E out \in BindAndSearch :
                      IF out = "bound" THEN next("createUser") ELSE Answer(r, "unauthorised")
             \/ name = "root" /\ Answer(r, "unauthorised")
    /\ UNCHANGED <<Tables, jwts, now>>

(* Mutant: nothing keeps provider and username unique. *)
CreateUserTwice(r) ==
    /\ req[r].pc = "createUser"
    /\ \E u \in Uids \ used :
          /\ users' = Insert(users, u, [name |-> req[r].name, provider |-> req[r].provider])
          /\ used' = used \cup {u}
    /\ Goto(r, "findUser")
    /\ UNCHANGED <<tokens, jwts, now, count, given, late>>

(* CreateUser; the error of the unique index on provider and username is ignored. *)
CreateUser(r) ==
    LET row == [name |-> req[r].name, provider |-> req[r].provider] IN
    /\ req[r].pc = "createUser"
    /\ \/ /\ \E u \in DOMAIN users : users[u] = row
          /\ UNCHANGED <<users, used>>
       \/ /\ \A u \in DOMAIN users : users[u] # row
          /\ \E u \in Uids \ used : users' = Insert(users, u, row) /\ used' = used \cup {u}
    /\ Goto(r, "findUser")
    /\ UNCHANGED <<tokens, jwts, now, count, given, late>>

(* GetByUsernameAndProvider, the password of a local user, and CreateJWTToken. *)
FindUser(r) ==
    LET row == [name |-> req[r].name, provider |-> req[r].provider] IN
    /\ req[r].pc = "findUser"
    /\ \/ /\ \E u \in DOMAIN users :
                users[u] = row /\ jwts' = jwts \cup {CreateJWTToken(u, row.name, row.provider)}
          /\ Answer(r, "ok")
       \/ /\ (\A u \in DOMAIN users : users[u] # row) \/ (row.provider = "local" /\ row.name # "root")
          /\ jwts' = jwts /\ Answer(r, "unauthorised")
    /\ UNCHANGED <<Tables, now, count>>

(* Refresh: the claims with a later expiry; no table is asked. *)
Refresh(r) ==
    /\ req[r].pc = "idle"
    /\ count < MaxRequests /\ count' = count + 1
    /\ \E jwt \in jwts :
          IF ValidateJWTToken(jwt)
          THEN jwts' = jwts \cup {[jwt EXCEPT !.exp = now + JwtTTL]} /\ Answer(r, "ok")
          ELSE jwts' = jwts /\ Answer(r, "unauthorised")
    /\ UNCHANGED <<Tables, now>>

Tick == /\ now < MaxTime /\ now' = now + 1
        /\ UNCHANGED <<Tables, jwts, req, count>>

Statement(r) ==
    \/ Begin(r) \/ FindKey(r) \/ FindOwner(r) \/ AskOwner(r) \/ GetRoles(r)
    \/ InsertToken(r) \/ ListTokens(r) \/ ReadToken(r) \/ PutToken(r) \/ ReadBack(r) \/ DropToken(r)
    \/ CountTokens(r) \/ DropUser(r) \/ Login(r) \/ CreateUser(r) \/ FindUser(r) \/ Refresh(r)

Next == (\E r \in Requests : Statement(r)) \/ Tick

Spec == Init /\ [][Next]_vars

-----------------------------------------------------------------------------
PCs == {"idle", "findKey", "findOwner", "askOwner", "getRoles", "insertToken", "listTokens", "readToken",
        "putToken", "readBack", "dropToken", "countTokens", "dropUser", "createUser", "findUser"}

(* Types, with the uniqueness the tables keep. *)
TypeOK ==
    /\ DOMAIN users \subseteq used \cap Uids /\ \A u \in DOMAIN users : users[u] \in UserRow
    /\ DOMAIN tokens \subseteq used \cap TokenIds /\ \A t \in DOMAIN tokens : tokens[t] \in TokenRow
    /\ jwts \subseteq Claims /\ now \in Times /\ given \subseteq GivenIds /\ late \subseteq used \cap Keys
    /\ \A t, s \in DOMAIN tokens : tokens[t].key = tokens[s].key => t = s
    /\ \A u, v \in DOMAIN users : users[u] = users[v] => u = v
    /\ \A r \in Requests :
          /\ req[r].pc \in PCs /\ req[r].user \in Uids \cup {Nobody}
          /\ req[r].pc \in {"putToken", "dropToken", "readBack", "readToken"} => req[r].id \in TokenIds
          /\ req[r].pc \in {"countTokens", "dropUser"} => req[r].id \in Uids \ {Nobody}

(* DeleteUser looks for tokens and deletes the user in two statements, and a JWT
   outlives its user: a token is left without an owner only when it was made after
   the look (users_svc.go:118), or when an update of the row that had its id before
   wrote its owner back into it (tokens_svc.go:134). Only then does anyone act for the
   zero user, or when the token was deleted, and its owner after it, while it was
   being looked up. *)
OrphansCameLate ==
    /\ \A t \in DOMAIN tokens : tokens[t].owner \notin DOMAIN users => tokens[t].key \in late \/ t \in given
    /\ \A r \in Requests :
          req[r].user = Nobody /\ req[r].pc \notin {"idle", "findKey", "createUser", "findUser"} =>
              late # {} \/ \A t \in DOMAIN tokens : tokens[t].key = req[r].key => t \in given

Alive(row) == row.enabled /\ ~ Expired(row)

(* UpdateApiToken writes back the whole row it read (tokens_svc.go:134). A token that is
   disabled or has expired lives again only because a body says so, or because an
   update of another field had read it before. *)
Revived(t) == Alive(tokens[t])' /\ ~ Alive(tokens[t])
RevivedOnPurpose ==
    [][\A t \in DOMAIN tokens \cap DOMAIN tokens' :
          Revived(t) =>
              \E r \in Requests :
                 /\ req[r].pc = "putToken" /\ req[r].id = t /\ req'[r].pc = "readBack"
                 /\ \/ req[r].body.enabled = "true" \/ req[r].body.expires[1] = "time"
                    \/ req[r].copy # MergeBody(tokens[t], req[r].body)]_vars

(* A key belongs to one row and that row to one owner from its creation to its end, and
   no write-back of a row read before brings a deleted one back; but a row whose id
   a body chose may be handed to the owner of the row that had the id before it. *)
KeysAreForLife ==
    [][/\ \A t \in DOMAIN tokens \cap DOMAIN tokens' :
             /\ tokens'[t].key = tokens[t].key
             /\ tokens'[t].owner = tokens[t].owner \/ t \in given
       /\ \A t \in DOMAIN tokens' \ DOMAIN tokens : tokens'[t].key \notin used]_vars

(* IsAutorised looks at the owner before the handler reads the row, and the handler does
   not look again: what is written or deleted is the caller's own or the caller
   holds a role, unless the id was given to another row in between. *)
WritesOwnTokens ==
    [][\A t \in DOMAIN tokens :
          (t \in DOMAIN tokens' => tokens'[t] # tokens[t]) =>
              \E r \in Requests :
                 /\ req[r].pc \in {"putToken", "dropToken"} /\ req[r].id = t
                 /\ req[r].user \in Wardens \cup {tokens[t].owner} \/ t \in given]_vars
=============================================================================
