-------------------------------- MODULE Access --------------------------------
(***************************************************************************)
(* Who may call the backend: AuthService and MfaService (sign-in, one-time *)
(* codes, tokens), AdminService (accounts), and the guards every other     *)
(* request passes, JwtAuthGuard with JwtStrategy.validate, then RolesGuard.*)
(* A caller is one HTTP request; requests interleave at every await.       *)
(*                                                                         *)
(* The database is external: a row has at most one account per username,   *)
(* an update of a row is atomic, and an access may fail.                   *)
(***************************************************************************)
EXTENDS Naturals, Sequences

CONSTANTS
    Callers,        \* requests that can be under way at once
    Users,          \* usernames
    Accounts,       \* [Users -> Account \cup {None}]: the users table at first
    Requests,       \* the requests this instance makes: see AllRequests
    Faults,         \* "db": an access to the database fails; "crash"
    MaxCalls,       \* bound on the number of requests
    None            \* no account, no user, no value

Roles    == {"READER", "ANALYST", "ADMIN"}
\* email: whether an address is there; null and the empty string count as none.
Account  == [role : Roles, active : BOOLEAN, mfa : BOOLEAN, email : BOOLEAN]
Session  == [user : Users, used : BOOLEAN, fresh : BOOLEAN]

PublicOps == {"signIn", "signUp", "verifyMfa"}
OwnOps    == {"enableMfa", "disableMfa"}
AdminOps  == {"createUser", "updateUser", "deleteUser"}
\* The requests of the module that extends this one.
CaseOps   == {"updateIncident", "flag", "unflag", "updateFlag", "link"}
Ops       == PublicOps \cup OwnOps \cup AdminOps \cup CaseOps

\* The roles the @Roles of a handler lets in.  Those of OwnOps and CaseOps
\* carry none: RolesGuard lets every role through, readers too, whatever the
\* role table of the README and the handlers' own summaries say.
RolesOf(op) == IF op \in AdminOps THEN {"ADMIN"} ELSE Roles

ASSUME AccessAssumption ==
    /\ Accounts \in [Users -> Account \cup {None}]
    /\ \A u \in Users : Accounts[u] # None /\ Accounts[u].mfa => Accounts[u].email
    /\ None \notin Users \cup Account \cup Requests
    /\ \A r \in Requests : /\ DOMAIN r = {"op", "by", "on", "val"}
                           /\ r.op \in Ops
                           /\ r.op \notin PublicOps => r.by \in Users
                           /\ r.op \in {"signIn", "signUp"} \cup AdminOps => r.on \in Users
                           /\ r.op = "verifyMfa" => r.on \in Nat
                           /\ r.op \in {"signUp", "createUser"} => r.val \in Roles
                           /\ r.op = "enableMfa" => r.val \in {"address", "blank"}
                           /\ r.op = "updateUser" => r.val \in Roles \cup {"on", "off"}
    /\ Faults \subseteq {"db", "crash"}
    /\ MaxCalls \in Nat

VARIABLES
    users,          \* the users table
    sessions,       \* mfa_sessions, in the order they were created
    tokens,         \* users who hold a token that has not expired
    req, at, seen,  \* the request of a caller, its await, what it read before
    calls,          \* requests made
    rights,         \* (history) how often a user was deactivated or changed role
    admitted,       \* (history) rights[u] when the caller's request was admitted
    granted,        \* (history) tokens given for each session
    raced,          \* (history) sessions two verifications worked on at once
    emptied         \* (history) users who blanked the address their MFA relies on

accountVars == <<users, sessions, tokens, rights, granted, raced, emptied>>
callVars    == <<req, at, seen, admitted>>
accessVars  == <<accountVars, callVars, calls>>

\* What a refused or failed request leaves: nothing of its locals.
End(c) ==
    /\ req' = [req EXCEPT ![c] = None]
    /\ at' = [at EXCEPT ![c] = "idle"]
    /\ seen' = [seen EXCEPT ![c] = None]
    /\ admitted' = [admitted EXCEPT ![c] = 0]

\* The next await, with what this one brought.
Continue(c, step, value) ==
    /\ at' = [at EXCEPT ![c] = step]
    /\ seen' = [seen EXCEPT ![c] = value]
    /\ UNCHANGED <<req, admitted>>

AccessInit ==
    /\ users = Accounts
    /\ sessions = <<>> /\ granted = <<>> /\ raced = {} /\ emptied = {}
    /\ tokens = {u \in Users : Accounts[u] # None}
    /\ req = [c \in Callers |-> None] /\ at = [c \in Callers |-> "idle"]
    /\ seen = [c \in Callers |-> None] /\ admitted = [c \in Callers |-> 0]
    /\ calls = 0
    /\ rights = [u \in Users |-> 0]
-----------------------------------------------------------------------------
\* JwtAuthGuard: a public request goes to its handler, another one needs a
\* token whose signature and expiry hold.
Arrive(c, r) ==
    /\ at[c] = "idle" /\ calls < MaxCalls
    /\ r.op \in PublicOps \/ r.by \in tokens
    /\ calls' = calls + 1
    /\ req' = [req EXCEPT ![c] = r]
    /\ at' = [at EXCEPT ![c] = IF r.op \in PublicOps THEN r.op ELSE "validate"]
    /\ UNCHANGED <<seen, admitted, accountVars>>

(***************************************************************************)
(* The operators named ...Mutant are bugs the code does not have; the      *)
(* properties reject each of them.                                         *)
(***************************************************************************)
\* The role is taken from the token: what the user was at first.
TokenRoleMutant(r) ==
    /\ users[r.by] # None
    /\ users[r.by].active
    /\ Accounts[r.by].role \in RolesOf(r.op)

\* JwtStrategy.validate and RolesGuard, from the row of the user.
Allowed(r) ==
    /\ users[r.by] # None
    /\ users[r.by].active
    /\ users[r.by].role \in RolesOf(r.op)

Validate(c) ==
    /\ at[c] = "validate"
    /\ IF Allowed(req[c])
       THEN /\ at' = [at EXCEPT ![c] = req[c].op]
            /\ admitted' = [admitted EXCEPT ![c] = rights[req[c].by]]
            /\ UNCHANGED <<req, seen>>
       ELSE End(c)
    /\ UNCHANGED <<accountVars, calls>>

\* The JWT of a user runs out after 24 hours.
TokenExpires(u) ==
    /\ u \in tokens
    /\ tokens' = tokens \ {u}
    /\ UNCHANGED <<users, sessions, rights, granted, raced, emptied, callVars, calls>>
-----------------------------------------------------------------------------
\* signIn: validateUser reads the row and compares the password; a wrong one,
\* or none, ends the request.  Whether the account is active is not looked at.
SignIn(c) ==
    /\ at[c] = "signIn"
    /\ \/ End(c)
       \/ /\ users[req[c].on] # None
          /\ Continue(c, IF users[req[c].on].mfa THEN "sendOtp" ELSE "sign", None)
    /\ UNCHANGED <<accountVars, calls>>

\* sendOtp reads the address to send to ...
SendOtp(c) ==
    /\ at[c] = "sendOtp"
    /\ IF users[req[c].on].email THEN Continue(c, "createSession", None) ELSE End(c)
    /\ UNCHANGED <<accountVars, calls>>

\* ... and stores the code, which goes out by mail.
CreateSession(c) ==
    /\ at[c] = "createSession"
    /\ sessions' = Append(sessions, [user |-> req[c].on, used |-> FALSE, fresh |-> TRUE])
    /\ granted' = Append(granted, 0)
    /\ End(c)
    /\ UNCHANGED <<users, tokens, rights, raced, emptied, calls>>

\* Five minutes later.
CodeExpires(s) ==
    /\ sessions[s].fresh
    /\ sessions' = [sessions EXCEPT ![s].fresh = FALSE]
    /\ UNCHANGED <<users, tokens, rights, granted, raced, emptied, callVars, calls>>

\* used is not looked at.
UsedAgainMutant(s) == s \in DOMAIN sessions /\ sessions[s].fresh

Redeemable(s) == s \in DOMAIN sessions /\ ~sessions[s].used /\ sessions[s].fresh

\* Those between the check of the code and its mark.
Redeeming(s) ==
    {c \in Callers : at[c] = "markUsed" /\ req[c].on = s}

\* verifyOtp: the session is read and checked, with the code, ...
VerifyMfa(c) ==
    /\ at[c] = "verifyMfa"
    /\ \/ /\ End(c)
          /\ UNCHANGED raced
       \/ /\ Redeemable(req[c].on)
          /\ Continue(c, "markUsed", None)
          /\ raced' = IF Redeeming(req[c].on) # {} THEN raced \cup {req[c].on} ELSE raced
    /\ UNCHANGED <<users, sessions, tokens, rights, granted, emptied, calls>>

\* ... then marked.
MarkUsed(c) ==
    /\ at[c] = "markUsed"
    /\ sessions' = [sessions EXCEPT ![req[c].on].used = TRUE]
    /\ Continue(c, "sign", sessions[req[c].on].user)
    /\ UNCHANGED <<users, tokens, rights, granted, raced, emptied, calls>>

\* The end of signIn and of verifyMfa: the user gets a token.
Sign(c) ==
    LET coded == req[c].op = "verifyMfa" IN
    /\ at[c] = "sign"
    /\ tokens' = tokens \cup {IF coded THEN seen[c] ELSE req[c].on}
    /\ granted' = IF coded THEN [granted EXCEPT ![req[c].on] = @ + 1] ELSE granted
    /\ End(c)
    /\ UNCHANGED <<users, sessions, rights, raced, emptied, calls>>
-----------------------------------------------------------------------------
\* Requests about to switch MFA on for u.
Enabling(u) == {c \in Callers : at[c] = "mfaOn" /\ req[c].by = u}

\* enableMfa: what the request gives is stored, an address or an empty string, ...
EnableMfa(c) ==
    LET u == req[c].by
        given == req[c].val = "address"
    IN  /\ at[c] = "enableMfa"
        /\ users' = [users EXCEPT ![u].email = given]
        /\ emptied' = IF given THEN emptied \ {u}
                      ELSE IF users[u].mfa \/ Enabling(u) # {} THEN emptied \cup {u}
                      ELSE emptied
        /\ Continue(c, "checkEmail", None)
        /\ UNCHANGED <<sessions, tokens, rights, granted, raced, calls>>

\* The address just stored is not looked at again.
UncheckedMutant(c) ==
    /\ at[c] = "checkEmail"
    /\ Continue(c, "mfaOn", None)
    /\ UNCHANGED <<accountVars, calls>>

\* ... read again, and refused when it is empty, ...
CheckEmail(c) ==
    /\ at[c] = "checkEmail"
    /\ IF users[req[c].by].email THEN Continue(c, "mfaOn", None) ELSE End(c)
    /\ UNCHANGED <<accountVars, calls>>

\* ... and MFA is switched on.
MfaOn(c) ==
    /\ at[c] = "mfaOn"
    /\ users' = [users EXCEPT ![req[c].by].mfa = TRUE]
    /\ End(c)
    /\ UNCHANGED <<sessions, tokens, rights, granted, raced, emptied, calls>>

DisableMfa(c) ==
    /\ at[c] = "disableMfa"
    /\ users' = [users EXCEPT ![req[c].by].mfa = FALSE]
    /\ End(c)
    /\ UNCHANGED <<sessions, tokens, rights, granted, raced, emptied, calls>>
-----------------------------------------------------------------------------
\* signUp and createUser look for the username, then hash the password.
CheckName(c) ==
    /\ at[c] \in {"signUp", "createUser"}
    /\ IF users[req[c].on] # None THEN End(c) ELSE Continue(c, "insertUser", None)
    /\ UNCHANGED <<accountVars, calls>>

\* The row is inserted, unless another request took the name meanwhile:
\* usernames are unique.  Only signUp takes an e-mail address, if given one.
InsertUser(c) ==
    /\ at[c] = "insertUser"
    /\ \E email \in IF req[c].op = "signUp" THEN BOOLEAN ELSE {FALSE} :
          users' = IF users[req[c].on] # None THEN users
                   ELSE [users EXCEPT ![req[c].on] =
                           [role |-> req[c].val, active |-> TRUE, mfa |-> FALSE, email |-> email]]
    /\ End(c)
    /\ UNCHANGED <<sessions, tokens, rights, granted, raced, emptied, calls>>

\* updateUser and deleteUser: does the user exist?
ReadUser(c) ==
    /\ at[c] \in {"updateUser", "deleteUser"}
    /\ IF users[req[c].on] = None THEN End(c) ELSE Continue(c, "writeUser", None)
    /\ UNCHANGED <<accountVars, calls>>

\* The body of PUT /admin/users names the role or is_active ("on", "off").
Changed(row, r) ==
    IF r.op = "deleteUser" THEN [row EXCEPT !.active = FALSE]
    ELSE IF r.val \in Roles THEN [row EXCEPT !.role = r.val]
    ELSE [row EXCEPT !.active = r.val = "on"]

\* The role or the activity of the row is written, whatever they are by now.
WriteUser(c) ==
    LET u == req[c].on
        new == Changed(users[u], req[c])
    IN  /\ at[c] = "writeUser"
        /\ users' = [users EXCEPT ![u] = new]
        /\ rights' = IF new.role # users[u].role \/ (users[u].active /\ ~new.active)
                     THEN [rights EXCEPT ![u] = @ + 1] ELSE rights
        /\ End(c)
        /\ UNCHANGED <<sessions, tokens, granted, raced, emptied, calls>>
-----------------------------------------------------------------------------
\* An access to the database fails and the request with it.  (The inserts of
\* AuditService.log are not among these awaits: their errors are swallowed.)
Throws(c) ==
    /\ "db" \in Faults
    /\ at[c] \notin {"idle", "audit"}
    /\ End(c)
    /\ UNCHANGED <<accountVars, calls>>

\* The backend dies and restarts: the requests under way are gone.
RestartCalls ==
    /\ "crash" \in Faults
    /\ req' = [c \in Callers |-> None] /\ at' = [c \in Callers |-> "idle"]
    /\ seen' = [c \in Callers |-> None] /\ admitted' = [c \in Callers |-> 0]
    /\ UNCHANGED <<accountVars, calls>>

AccessStep(c) ==
    \/ Validate(c)
    \/ SignIn(c) \/ SendOtp(c) \/ CreateSession(c)
    \/ VerifyMfa(c) \/ MarkUsed(c) \/ Sign(c)
    \/ EnableMfa(c) \/ CheckEmail(c) \/ MfaOn(c) \/ DisableMfa(c)
    \/ CheckName(c) \/ InsertUser(c) \/ ReadUser(c) \/ WriteUser(c)

AccessNext ==
    \/ \E c \in Callers : \/ \E r \in Requests : Arrive(c, r)
                          \/ AccessStep(c)
    \/ \E u \in Users : TokenExpires(u)
    \/ \E s \in DOMAIN sessions : CodeExpires(s)
-----------------------------------------------------------------------------
AccessSteps == {"idle", "validate", "sendOtp", "createSession", "markUsed", "sign",
                "checkEmail", "mfaOn", "insertUser", "writeUser"}
               \cup Ops

AccountsOK ==
    /\ users \in [Users -> Account \cup {None}]
    /\ sessions \in Seq(Session)
    /\ granted \in Seq(Nat) /\ Len(granted) = Len(sessions)
    /\ raced \subseteq Nat
    /\ emptied \subseteq Users
    /\ tokens \subseteq Users
    /\ calls \in 0..MaxCalls
    /\ rights \in [Users -> Nat]

\* A request past the guards is one of a user who was active, with a role that
\* the handler's @Roles lets in, when it was admitted: he still is, or lost
\* that since.  However long a token lives, whatever admins change meanwhile,
\* and although signIn gives tokens to deactivated users as well.  What the
\* handlers without @Roles let readers do is not judged here: see RolesOf.
RightsHeldAtAdmission ==
    \A c \in Callers :
        at[c] \notin {"idle", "validate"} /\ req[c].op \notin PublicOps
            => LET user == users[req[c].by]
               IN  \/ admitted[c] < rights[req[c].by]
                   \/ /\ user # None
                      /\ user.active
                      /\ user.role \in RolesOf(req[c].op)

\* A one-time code gives at most one token, unless two verifications of it
\* were between check and mark at once; expiry, retries, failures and restarts
\* make no difference.
CodeGrantsOnce ==
    \A s \in DOMAIN sessions : granted[s] > 1 => s \in raced

\* MFA is never switched on without an address to send codes to, in every order
\* of failing and overlapping changes: sendOtp would lock the owner out.  An
\* account with MFA and no address is one whose owner stored an empty one when
\* MFA was on already, or between the check and the switch of another request.
MfaHasEmail ==
    \A u \in Users : users[u] # None /\ users[u].mfa => users[u].email \/ u \in emptied
=============================================================================
