--------------------------- MODULE CaseworkProofs ---------------------------
(***************************************************************************)
(* Proofs about Casework (and Access, which it extends), for any number of *)
(* requests, accounts and events.                                          *)
(***************************************************************************)
EXTENDS Casework, SequenceTheorems, TLAPS

\* The await a request stands at fits the operation it asks for ...
OpFits(c) ==
  /\ at[c] = "validate" => req[c].op \notin PublicOps
  /\ at[c] \in Ops => req[c].op = at[c]
  /\ at[c] \in {"sendOtp", "createSession"} => req[c].op = "signIn"
  /\ at[c] = "markUsed" => req[c].op = "verifyMfa"
  /\ at[c] = "sign" => req[c].op \in {"signIn", "verifyMfa"}
  /\ at[c] \in {"checkEmail", "mfaOn"} => req[c].op = "enableMfa"
  /\ at[c] = "insertUser" => req[c].op \in {"signUp", "createUser"}
  /\ at[c] = "writeUser" => req[c].op \in {"updateUser", "deleteUser"}
  /\ at[c] \in {"writeIncident", "audit"} => req[c].op = "updateIncident"
  /\ at[c] = "insertFlag" => req[c].op = "flag"
  /\ at[c] = "writeFlag" => req[c].op \in {"flag", "unflag", "updateFlag"}
  /\ at[c] \in {"findTo", "findLink", "insertLink"} => req[c].op = "link"

\* ... and what it looked up before exists, or was of the right kind.
ReadFits(c) ==
  /\ at[c] = "markUsed" => req[c].on \in DOMAIN sessions
  /\ at[c] = "sign" /\ req[c].op = "verifyMfa"
       => req[c].on \in DOMAIN sessions /\ seen[c] \in Users
  /\ at[c] = "writeUser" => users[req[c].on] # None
  /\ at[c] \notin {"idle", "validate"} /\ req[c].op \notin PublicOps => users[req[c].by] # None
  /\ at[c] = "mfaOn" => users[req[c].by].email \/ req[c].by \in emptied
  /\ at[c] \in {"writeIncident", "audit"} => seen[c] \in Statuses
  /\ at[c] = "writeFlag" => seen[c] \in Ids
  /\ at[c] = "findTo" => seen[c] \in Ids \cup {None}
  /\ at[c] \in {"findLink", "insertLink"} => seen[c] \in Ids \X Ids

CallFits(c) == at[c] # "idle" => req[c] \in Requests /\ OpFits(c) /\ ReadFits(c)

CallInv == TypeOK /\ \A c \in Callers : CallFits(c)

\* What a step of one request leaves alone: the other requests ...
Rest(c) ==
  \A d \in Callers \ {c} : /\ at'[d] = at[d] /\ req'[d] = req[d]
                           /\ seen'[d] = seen[d] /\ admitted'[d] = admitted[d]

\* ... and what they rely on: no row is deleted, and no address taken away
\* from a request that is about to switch MFA on, unless its owner does.
Grows ==
  /\ \A u \in Users : users[u] # None =>
        /\ users'[u] # None
        /\ Enabling(u) # {} /\ (users[u].email \/ u \in emptied) => users'[u].email \/ u \in emptied'
  /\ DOMAIN sessions \subseteq DOMAIN sessions'
-----------------------------------------------------------------------------
LEMMA Requesting ==
  ASSUME NEW r \in Requests
  PROVE  /\ r # None /\ r.op \in Ops
         /\ r.op \notin PublicOps => r.by \in Users
         /\ r.op \in {"signIn", "signUp"} \cup AdminOps => r.on \in Users
         /\ r.op = "verifyMfa" => r.on \in Nat
         /\ r.op \in {"signUp", "createUser"} => r.val \in Roles
         /\ r.op = "enableMfa" => r.val \in {"address", "blank"}
         /\ r.op = "updateUser" => r.val \in Roles \cup {"on", "off"}
         /\ r.op = "updateIncident" => r.val \in Statuses \cup {None}
         /\ r.op \in {"flag", "unflag", "updateFlag", "link"} => r.on \in Hashes
         /\ r.op = "updateFlag" => r.val \in FlagStatus
         /\ r.op = "link" => r.val \in Hashes
  BY AccessAssumption, CaseworkAssumption

LEMMA Ends ==
  ASSUME CallsOK, NEW c \in Callers, End(c)
  PROVE  CallsOK' /\ Rest(c) /\ at'[c] = "idle" /\ CallFits(c)'
  BY DEF CallsOK, End, Rest, CallFits, Steps, AccessSteps, Seen

LEMMA Continues ==
  ASSUME CallsOK, NEW c \in Callers, NEW step \in Steps, NEW value \in Seen,
         Continue(c, step, value)
  PROVE  /\ CallsOK' /\ Rest(c)
         /\ at'[c] = step /\ seen'[c] = value /\ req'[c] = req[c] /\ admitted'[c] = admitted[c]
  BY DEF CallsOK, Continue, Rest

\* The other requests still fit.
LEMMA OthersFit ==
  ASSUME CallInv, TypeOK', NEW c \in Callers, Rest(c), Grows, CallFits(c)'
  PROVE  CallInv'
<1> SUFFICES ASSUME NEW d \in Callers \ {c}  PROVE CallFits(d)'  BY DEF CallInv
<1>1. at'[d] = at[d] /\ req'[d] = req[d] /\ seen'[d] = seen[d]  BY DEF Rest
<1>2. CASE at[d] = "idle"  BY <1>1, <1>2 DEF CallFits
<1>3. CASE at[d] # "idle"
  <2>1. req[d] \in Requests /\ OpFits(d) /\ ReadFits(d)  BY <1>3 DEF CallInv, CallFits
  <2>2. OpFits(d)'  BY <1>1, <2>1 DEF OpFits
  <2>3. at[d] \in Steps  BY DEF CallInv, TypeOK, CallsOK
  <2>4. at[d] = "writeUser" => req[d].on \in Users  BY <2>1, Requesting DEF OpFits, AdminOps
  <2>5. req[d].op \notin PublicOps => req[d].by \in Users  BY <2>1, Requesting
  <2>6. at[d] = "mfaOn" => req[d].op \notin PublicOps  BY <2>1 DEF OpFits, PublicOps
  <2>7. at[d] = "mfaOn" => Enabling(req[d].by) # {}  BY DEF Enabling
  <2>8. at[d] = "mfaOn" => users'[req[d].by].email \/ req[d].by \in emptied'
    BY <2>1, <2>5, <2>6, <2>7 DEF ReadFits, Grows
  <2>9. ReadFits(d)'  BY <1>1, <2>1, <2>4, <2>5, <2>6, <2>8 DEF ReadFits, Grows
  <2> QED  BY <1>1, <2>1, <2>2, <2>9 DEF CallFits
<1> QED  BY <1>2, <1>3
-----------------------------------------------------------------------------
(* One lemma for each step of Access: the requests still fit. *)

LEMMA Untouched ==
  ASSUME TypeOK, UNCHANGED <<accountVars, calls, caseVars>>
  PROVE  AccountsOK' /\ CasesOK' /\ Grows
  BY DEF TypeOK, AccountsOK, CasesOK, Grows, accountVars, caseVars, incidentVars, flagVars

\* A request that ends without touching a row.
LEMMA EndsFit ==
  ASSUME CallInv, NEW c \in Callers, End(c), UNCHANGED <<accountVars, calls, caseVars>>
  PROVE  CallInv'
  BY Untouched, Ends, OthersFit DEF CallInv, TypeOK

\* A request that looked something up and goes on with it.
LEMMA GoesOn ==
  ASSUME CallInv, NEW c \in Callers, NEW step \in Steps, NEW value \in Seen,
         Continue(c, step, value), UNCHANGED <<accountVars, calls, caseVars>>,
         CallFits(c)'
  PROVE  CallInv'
  BY Untouched, Continues, OthersFit DEF CallInv, TypeOK

LEMMA ArriveFits ==
  ASSUME CallInv, NEW c \in Callers, NEW r \in Requests, Arrive(c, r), UNCHANGED caseVars
  PROVE  CallInv'
<1>1. CallsOK' /\ Rest(c)
  BY Requesting DEF CallInv, TypeOK, CallsOK, Arrive, Rest, Steps, AccessSteps
<1>2. AccountsOK' /\ CasesOK' /\ Grows
  BY AccessAssumption
  DEF CallInv, TypeOK, AccountsOK, CasesOK, Arrive, Grows, accountVars, caseVars, incidentVars, flagVars
<1>3. req'[c] = r /\ r.op \in Ops /\ at'[c] = IF r.op \in PublicOps THEN r.op ELSE "validate"
  BY Requesting DEF CallInv, TypeOK, CallsOK, Arrive
<1>4. CallFits(c)'
  BY <1>3 DEF CallFits, OpFits, ReadFits, Ops, PublicOps, OwnOps, AdminOps, CaseOps
<1> QED  BY <1>1, <1>2, <1>4, OthersFit DEF TypeOK

LEMMA ValidateFits ==
  ASSUME CallInv, NEW c \in Callers, Validate(c), UNCHANGED caseVars
  PROVE  CallInv'
<1>1. CASE End(c)  BY <1>1, EndsFit DEF Validate
<1>2. CASE ~End(c)
  <2>1. /\ at[c] = "validate" /\ Allowed(req[c])
        /\ at' = [at EXCEPT ![c] = req[c].op]
        /\ admitted' = [admitted EXCEPT ![c] = rights[req[c].by]]
        /\ UNCHANGED <<req, seen, accountVars, calls>>
    BY <1>2 DEF Validate
  <2>2. PICK r \in Requests : r = req[c] /\ r.op \notin PublicOps
    BY <2>1 DEF CallInv, CallFits, OpFits
  <2>3. r.op \in Ops /\ r.by \in Users /\ users[r.by] # None
    BY <2>1, <2>2, Requesting DEF Allowed
  <2>4. AccountsOK' /\ CasesOK' /\ Grows  BY <2>1, Untouched DEF CallInv
  <2>5. CallsOK' /\ Rest(c) /\ at'[c] = r.op /\ req'[c] = r
    BY <2>1, <2>2, <2>3 DEF CallInv, TypeOK, CallsOK, AccountsOK, Rest, Steps, AccessSteps
  <2>6. users' = users /\ sessions' = sessions  BY <2>1 DEF accountVars
  <2>7. CallFits(c)'
    BY <2>2, <2>3, <2>5, <2>6 DEF CallFits, OpFits, ReadFits, Ops, PublicOps, OwnOps, AdminOps, CaseOps
  <2> QED  BY <2>4, <2>5, <2>7, OthersFit DEF TypeOK
<1> QED  BY <1>1, <1>2

LEMMA TokenExpiresFits ==
  ASSUME CallInv, NEW u \in Users, TokenExpires(u), UNCHANGED caseVars
  PROVE  CallInv'
  BY DEF CallInv, TypeOK, AccountsOK, CallsOK, CasesOK, CallFits, OpFits, ReadFits, TokenExpires,
         callVars, caseVars, incidentVars, flagVars

\* A caller steps while rows are written: what has to be shown.
LEMMA StepFits ==
  ASSUME CallInv, NEW c \in Callers, AccountsOK', CasesOK', Grows, CallsOK', Rest(c), CallFits(c)'
  PROVE  CallInv'
  BY OthersFit DEF TypeOK

\* It stood at an await of its operation.
LEMMA StandsAt ==
  ASSUME CallInv, NEW c \in Callers, at[c] # "idle"
  PROVE  /\ req[c] \in Requests /\ OpFits(c) /\ ReadFits(c)
         /\ req[c].op \in Ops
  BY Requesting DEF CallInv, CallFits

LEMMA SignInFits ==
  ASSUME CallInv, NEW c \in Callers, SignIn(c), UNCHANGED caseVars
  PROVE  CallInv'
<1>1. CASE End(c)  BY <1>1, EndsFit DEF SignIn
<1>2. CASE ~End(c)
  <2> DEFINE step == IF users[req[c].on].mfa THEN "sendOtp" ELSE "sign"
  <2>1. at[c] = "signIn" /\ Continue(c, step, None) /\ UNCHANGED <<accountVars, calls, caseVars>>
    BY <1>2 DEF SignIn
  <2>2. step \in Steps /\ None \in Seen  BY DEF Steps, AccessSteps, Seen
  <2>3. req[c] \in Requests /\ req[c].op = "signIn"  BY <2>1, StandsAt DEF OpFits, Ops, PublicOps
  <2>4. at'[c] = step /\ req'[c] = req[c]  BY <2>1, <2>2, Continues DEF CallInv, TypeOK
  <2>5. CallFits(c)'  BY <2>3, <2>4 DEF CallFits, OpFits, ReadFits, PublicOps, Ops, OwnOps, AdminOps, CaseOps
  <2> HIDE DEF step
  <2> QED  BY <2>1, <2>2, <2>5, GoesOn
<1> QED  BY <1>1, <1>2

LEMMA SendOtpFits ==
  ASSUME CallInv, NEW c \in Callers, SendOtp(c), UNCHANGED caseVars
  PROVE  CallInv'
<1>1. CASE End(c)  BY <1>1, EndsFit DEF SendOtp
<1>2. CASE ~End(c)
  <2>1. at[c] = "sendOtp" /\ Continue(c, "createSession", None) /\ UNCHANGED <<accountVars, calls, caseVars>>
    BY <1>2 DEF SendOtp
  <2>2. "createSession" \in Steps /\ None \in Seen  BY DEF Steps, AccessSteps, Seen
  <2>3. req[c] \in Requests /\ req[c].op = "signIn"  BY <2>1, StandsAt DEF OpFits
  <2>4. at'[c] = "createSession" /\ req'[c] = req[c]  BY <2>1, <2>2, Continues DEF CallInv, TypeOK
  <2>5. CallFits(c)'  BY <2>3, <2>4 DEF CallFits, OpFits, ReadFits, PublicOps, Ops, OwnOps, AdminOps, CaseOps
  <2> QED  BY <2>1, <2>2, <2>5, GoesOn
<1> QED  BY <1>1, <1>2

LEMMA CreateSessionFits ==
  ASSUME CallInv, NEW c \in Callers, CreateSession(c), UNCHANGED caseVars
  PROVE  CallInv'
<1> DEFINE new == [user |-> req[c].on, used |-> FALSE, fresh |-> TRUE]
<1>1. req[c] \in Requests /\ req[c].op = "signIn"  BY StandsAt DEF CreateSession, OpFits
<1>2. new \in Session  BY <1>1, Requesting DEF Session
<1>3. sessions' = Append(sessions, new) /\ granted' = Append(granted, 0)  BY DEF CreateSession
<1> HIDE DEF new
<1>4. /\ sessions' \in Seq(Session)
      /\ granted' \in Seq(Nat) /\ Len(granted') = Len(sessions')
      /\ DOMAIN sessions \subseteq DOMAIN sessions'
  BY <1>2, <1>3 DEF CallInv, TypeOK, AccountsOK
<1>5. AccountsOK' /\ CasesOK' /\ Grows
  BY <1>4 DEF CallInv, TypeOK, AccountsOK, CasesOK, Grows, CreateSession, caseVars, incidentVars, flagVars
<1>6. CallsOK' /\ Rest(c) /\ CallFits(c)'  BY Ends DEF CreateSession, CallInv, TypeOK
<1> QED  BY <1>5, <1>6, StepFits

LEMMA CodeExpiresFits ==
  ASSUME CallInv, NEW s \in DOMAIN sessions, CodeExpires(s), UNCHANGED caseVars
  PROVE  CallInv'
<1>1. sessions \in Seq(Session) /\ s \in 1 .. Len(sessions)  BY DEF CallInv, TypeOK, AccountsOK
<1>2. sessions[s] \in Session  BY <1>1, ElementOfSeq
<1> DEFINE e == [sessions[s] EXCEPT !.fresh = FALSE]
<1>3. e \in Session  BY <1>2 DEF Session
<1>4. sessions' = [sessions EXCEPT ![s] = e]  BY DEF CodeExpires
<1> HIDE DEF e
<1>5. sessions' \in Seq(Session) /\ Len(sessions') = Len(sessions)  BY <1>1, <1>3, <1>4, ExceptSeq
<1>6. DOMAIN sessions' = DOMAIN sessions  BY <1>4
<1> QED
  BY <1>5, <1>6
  DEF CallInv, TypeOK, AccountsOK, CallsOK, CasesOK, CallFits, OpFits, ReadFits, CodeExpires,
      callVars, caseVars, incidentVars, flagVars

LEMMA CheckEmailFits ==
  ASSUME CallInv, NEW c \in Callers, CheckEmail(c), UNCHANGED caseVars
  PROVE  CallInv'
<1>1. CASE End(c)  BY <1>1, EndsFit DEF CheckEmail
<1>2. CASE ~End(c)
  <2>1. at[c] = "checkEmail" /\ Continue(c, "mfaOn", None) /\ UNCHANGED <<accountVars, calls, caseVars>>
        /\ users[req[c].by].email
    BY <1>2 DEF CheckEmail
  <2>2. "mfaOn" \in Steps /\ None \in Seen  BY DEF Steps, AccessSteps, Seen
  <2>3. req[c] \in Requests /\ OpFits(c) /\ ReadFits(c)  BY <2>1, StandsAt
  <2>4. at'[c] = "mfaOn" /\ req'[c] = req[c]  BY <2>1, <2>2, Continues DEF CallInv, TypeOK
  <2>5. users' = users  BY <2>1 DEF accountVars
  <2>6. CallFits(c)'  BY <2>1, <2>3, <2>4, <2>5 DEF CallFits, OpFits, ReadFits, PublicOps, Ops, OwnOps, AdminOps, CaseOps
  <2> QED  BY <2>1, <2>2, <2>6, GoesOn
<1> QED  BY <1>1, <1>2

LEMMA VerifyMfaFits ==
  ASSUME CallInv, NEW c \in Callers, VerifyMfa(c), UNCHANGED caseVars
  PROVE  CallInv'
<1>1. AccountsOK' /\ CasesOK' /\ Grows
  <2>1. raced' \subseteq Nat
    <3>1. at[c] = "verifyMfa"  BY DEF VerifyMfa
    <3>2. req[c].on \in Nat  BY <3>1, StandsAt, Requesting DEF OpFits, Ops, PublicOps
    <3> QED  BY <3>2 DEF VerifyMfa, CallInv, TypeOK, AccountsOK
  <2> QED
    BY <2>1 DEF CallInv, TypeOK, AccountsOK, CasesOK, Grows, VerifyMfa, caseVars, incidentVars, flagVars
<1>2. CASE End(c)  BY <1>1, <1>2, Ends, StepFits DEF CallInv, TypeOK
<1>3. CASE ~End(c)
  <2>1. at[c] = "verifyMfa" /\ Redeemable(req[c].on) /\ Continue(c, "markUsed", None) /\ sessions' = sessions
    BY <1>3 DEF VerifyMfa
  <2>2. "markUsed" \in Steps /\ None \in Seen  BY DEF Steps, AccessSteps, Seen
  <2>3. req[c] \in Requests /\ OpFits(c)  BY <2>1, StandsAt
  <2>4. CallsOK' /\ Rest(c) /\ at'[c] = "markUsed" /\ req'[c] = req[c]
    BY <2>1, <2>2, Continues DEF CallInv, TypeOK
  <2>5. CallFits(c)'
    BY <2>1, <2>3, <2>4 DEF Redeemable, CallFits, OpFits, ReadFits, PublicOps, Ops, OwnOps, AdminOps, CaseOps
  <2> QED  BY <1>1, <2>4, <2>5, StepFits
<1> QED  BY <1>2, <1>3

LEMMA MarkUsedFits ==
  ASSUME CallInv, NEW c \in Callers, MarkUsed(c), UNCHANGED caseVars
  PROVE  CallInv'
<1> DEFINE s == req[c].on
           e == [sessions[s] EXCEPT !.used = TRUE]
<1>1. at[c] = "markUsed" /\ Continue(c, "sign", sessions[s].user)  BY DEF MarkUsed
<1>2. req[c] \in Requests /\ req[c].op = "verifyMfa" /\ s \in DOMAIN sessions
  BY <1>1, StandsAt DEF OpFits, ReadFits
<1>3. sessions \in Seq(Session) /\ s \in 1 .. Len(sessions)  BY <1>2 DEF CallInv, TypeOK, AccountsOK
<1>4. sessions[s] \in Session  BY <1>3, ElementOfSeq
<1>5. e \in Session /\ sessions[s].user \in Users  BY <1>4 DEF Session
<1>6. sessions' = [sessions EXCEPT ![s] = e]  BY DEF MarkUsed
<1> HIDE DEF e
<1>7. sessions' \in Seq(Session) /\ Len(sessions') = Len(sessions)  BY <1>3, <1>5, <1>6, ExceptSeq
<1>8. DOMAIN sessions' = DOMAIN sessions  BY <1>6
<1>9. AccountsOK' /\ CasesOK' /\ Grows
  BY <1>7, <1>8 DEF CallInv, TypeOK, AccountsOK, CasesOK, Grows, MarkUsed, caseVars, incidentVars, flagVars
<1>10. "sign" \in Steps /\ sessions[s].user \in Seen  BY <1>5 DEF Steps, AccessSteps, Seen
<1>11. CallsOK' /\ Rest(c) /\ at'[c] = "sign" /\ req'[c] = req[c] /\ seen'[c] = sessions[s].user
  BY <1>1, <1>10, Continues DEF CallInv, TypeOK
<1>12. CallFits(c)'
  BY <1>2, <1>5, <1>8, <1>11 DEF CallFits, OpFits, ReadFits, PublicOps, Ops, OwnOps, AdminOps, CaseOps
<1> QED  BY <1>9, <1>11, <1>12, StepFits

LEMMA SignFits ==
  ASSUME CallInv, NEW c \in Callers, Sign(c), UNCHANGED caseVars
  PROVE  CallInv'
<1> DEFINE coded == req[c].op = "verifyMfa"
<1>1. at[c] = "sign" /\ req[c] \in Requests /\ OpFits(c) /\ ReadFits(c)  BY StandsAt DEF Sign
<1>2. IF coded THEN seen[c] \in Users /\ req[c].on \in DOMAIN sessions ELSE req[c].on \in Users
  BY <1>1, Requesting DEF OpFits, ReadFits
<1>3. tokens' \subseteq Users  BY <1>2 DEF Sign, CallInv, TypeOK, AccountsOK
<1>4. granted' \in Seq(Nat) /\ Len(granted') = Len(granted)
  <2>1. CASE ~coded  BY <2>1 DEF Sign, CallInv, TypeOK, AccountsOK
  <2>2. CASE coded
    <3>1. granted \in Seq(Nat) /\ req[c].on \in 1 .. Len(granted)
      BY <1>2, <2>2 DEF CallInv, TypeOK, AccountsOK
    <3>2. granted[req[c].on] + 1 \in Nat  BY <3>1, ElementOfSeq
    <3>3. granted' = [granted EXCEPT ![req[c].on] = granted[req[c].on] + 1]  BY <2>2 DEF Sign
    <3> QED  BY <3>1, <3>2, <3>3, ExceptSeq
  <2> QED  BY <2>1, <2>2
<1>5. AccountsOK' /\ CasesOK' /\ Grows
  BY <1>3, <1>4 DEF CallInv, TypeOK, AccountsOK, CasesOK, Grows, Sign, caseVars, incidentVars, flagVars
<1>6. CallsOK' /\ Rest(c) /\ CallFits(c)'  BY Ends DEF Sign, CallInv, TypeOK
<1> QED  BY <1>5, <1>6, StepFits

\* A row of an account is changed, and keeps its address if it has one, or its
\* owner emptied it.
LEMMA RowSet ==
  ASSUME TypeOK, NEW u \in Users, users[u] # None, NEW row \in Account,
         users' = [users EXCEPT ![u] = row],
         Enabling(u) # {} /\ (users[u].email \/ u \in emptied) => row.email \/ u \in emptied',
         emptied' \subseteq Users, \A v \in Users \ {u} : v \in emptied => v \in emptied',
         rights' \in [Users -> Nat],
         UNCHANGED <<sessions, tokens, granted, raced, calls, caseVars>>
  PROVE  AccountsOK' /\ CasesOK' /\ Grows /\ users'[u] = row
<1>1. users' \in [Users -> Account \cup {None}] /\ users'[u] = row /\ row # None
  BY AccessAssumption DEF TypeOK, AccountsOK
<1>2. \A v \in Users \ {u} : users'[v] = users[v]  BY DEF TypeOK, AccountsOK
<1>3. Grows  BY <1>1, <1>2 DEF TypeOK, AccountsOK, Grows
<1> QED  BY <1>1, <1>3 DEF TypeOK, AccountsOK, CasesOK, caseVars, incidentVars, flagVars

\* The request of a user who is signed in changes his own row.
LEMMA OwnRow ==
  ASSUME CallInv, NEW c \in Callers, at[c] \in {"enableMfa", "mfaOn", "disableMfa"}
  PROVE  /\ req[c] \in Requests /\ OpFits(c) /\ ReadFits(c)
         /\ req[c].op \in OwnOps /\ req[c].op \notin PublicOps
         /\ req[c].by \in Users /\ users[req[c].by] # None /\ users[req[c].by] \in Account
<1>1. req[c] \in Requests /\ OpFits(c) /\ ReadFits(c)  BY StandsAt
<1>2. req[c].op \in OwnOps /\ req[c].op \notin PublicOps  BY <1>1 DEF OpFits, Ops, OwnOps, PublicOps
<1>3. req[c].by \in Users  BY <1>1, <1>2, Requesting
<1>4. users[req[c].by] # None  BY <1>1, <1>2 DEF ReadFits
<1>5. users[req[c].by] \in Account  BY <1>3, <1>4 DEF CallInv, TypeOK, AccountsOK
<1> QED  BY <1>1, <1>2, <1>3, <1>4, <1>5

LEMMA EnableMfaFits ==
  ASSUME CallInv, NEW c \in Callers, EnableMfa(c), UNCHANGED caseVars
  PROVE  CallInv'
<1> DEFINE u == req[c].by
           given == req[c].val = "address"
           row == [users[u] EXCEPT !.email = given]
<1>1. /\ at[c] = "enableMfa" /\ Continue(c, "checkEmail", None) /\ users' = [users EXCEPT ![u] = row]
      /\ UNCHANGED <<sessions, tokens, rights, granted, raced, calls>>
      /\ emptied' = IF given THEN emptied \ {u}
                    ELSE IF users[u].mfa \/ Enabling(u) # {} THEN emptied \cup {u} ELSE emptied
  BY DEF EnableMfa
<1>2. /\ req[c] \in Requests /\ OpFits(c) /\ u \in Users /\ users[u] # None /\ users[u] \in Account
      /\ req[c].op = "enableMfa"
  BY <1>1, OwnRow DEF OpFits, Ops, OwnOps
<1>3. row \in Account /\ row.email = given  BY <1>2 DEF Account
<1> HIDE DEF row, given
<1>4. /\ rights' \in [Users -> Nat]
      /\ emptied' \subseteq Users /\ \A v \in Users \ {u} : v \in emptied => v \in emptied'
      /\ Enabling(u) # {} => row.email \/ u \in emptied'
  BY <1>1, <1>2, <1>3 DEF CallInv, TypeOK, AccountsOK
<1>5. AccountsOK' /\ CasesOK' /\ Grows  BY <1>1, <1>2, <1>3, <1>4, RowSet DEF CallInv
<1>6. "checkEmail" \in Steps /\ None \in Seen  BY DEF Steps, AccessSteps, Seen
<1>7. CallsOK' /\ Rest(c) /\ at'[c] = "checkEmail" /\ req'[c] = req[c]
  BY <1>1, <1>6, Continues DEF CallInv, TypeOK
<1>8. users'[u] # None  BY <1>2, <1>5 DEF Grows
<1>9. CallFits(c)'
  BY <1>2, <1>7, <1>8 DEF CallFits, OpFits, ReadFits, PublicOps, Ops, OwnOps, AdminOps, CaseOps
<1> QED  BY <1>5, <1>7, <1>9, StepFits

LEMMA MfaOnFits ==
  ASSUME CallInv, NEW c \in Callers, MfaOn(c), UNCHANGED caseVars
  PROVE  CallInv'
<1> DEFINE u == req[c].by
           row == [users[u] EXCEPT !.mfa = TRUE]
<1>1. /\ at[c] = "mfaOn" /\ End(c) /\ users' = [users EXCEPT ![u] = row]
      /\ UNCHANGED <<sessions, tokens, rights, granted, raced, emptied, calls>>
  BY DEF MfaOn
<1>2. u \in Users /\ users[u] # None /\ users[u] \in Account  BY <1>1, OwnRow
<1>3. row \in Account /\ row.email = users[u].email  BY <1>2 DEF Account
<1> HIDE DEF row
<1>4. rights' \in [Users -> Nat] /\ emptied' \subseteq Users  BY <1>1 DEF CallInv, TypeOK, AccountsOK
<1>5. AccountsOK' /\ CasesOK' /\ Grows  BY <1>1, <1>2, <1>3, <1>4, RowSet DEF CallInv
<1> QED  BY <1>1, <1>5, Ends, StepFits DEF CallInv, TypeOK

LEMMA DisableMfaFits ==
  ASSUME CallInv, NEW c \in Callers, DisableMfa(c), UNCHANGED caseVars
  PROVE  CallInv'
<1> DEFINE u == req[c].by
           row == [users[u] EXCEPT !.mfa = FALSE]
<1>1. /\ at[c] = "disableMfa" /\ End(c) /\ users' = [users EXCEPT ![u] = row]
      /\ UNCHANGED <<sessions, tokens, rights, granted, raced, emptied, calls>>
  BY DEF DisableMfa
<1>2. u \in Users /\ users[u] # None /\ users[u] \in Account  BY <1>1, OwnRow
<1>3. row \in Account /\ row.email = users[u].email  BY <1>2 DEF Account
<1> HIDE DEF row
<1>4. rights' \in [Users -> Nat] /\ emptied' \subseteq Users  BY <1>1 DEF CallInv, TypeOK, AccountsOK
<1>5. AccountsOK' /\ CasesOK' /\ Grows  BY <1>1, <1>2, <1>3, <1>4, RowSet DEF CallInv
<1> QED  BY <1>1, <1>5, Ends, StepFits DEF CallInv, TypeOK

LEMMA CheckNameFits ==
  ASSUME CallInv, NEW c \in Callers, CheckName(c), UNCHANGED caseVars
  PROVE  CallInv'
<1>1. CASE End(c)  BY <1>1, EndsFit DEF CheckName
<1>2. CASE ~End(c)
  <2>1. /\ at[c] \in {"signUp", "createUser"} /\ Continue(c, "insertUser", None)
        /\ UNCHANGED <<accountVars, calls, caseVars>>
    BY <1>2 DEF CheckName
  <2>2. "insertUser" \in Steps /\ None \in Seen  BY DEF Steps, AccessSteps, Seen
  <2>3. req[c] \in Requests /\ OpFits(c) /\ ReadFits(c)  BY <2>1, StandsAt
  <2>4. at'[c] = "insertUser" /\ req'[c] = req[c]  BY <2>1, <2>2, Continues DEF CallInv, TypeOK
  <2>5. users' = users  BY <2>1 DEF accountVars
  <2>6. CallFits(c)'  BY <2>1, <2>3, <2>4, <2>5 DEF CallFits, OpFits, ReadFits, PublicOps, Ops, OwnOps, AdminOps, CaseOps
  <2> QED  BY <2>1, <2>2, <2>6, GoesOn
<1> QED  BY <1>1, <1>2

LEMMA InsertUserFits ==
  ASSUME CallInv, NEW c \in Callers, InsertUser(c), UNCHANGED caseVars
  PROVE  CallInv'
<1> DEFINE u == req[c].on
           row(email) == [role |-> req[c].val, active |-> TRUE, mfa |-> FALSE, email |-> email]
<1>1. /\ at[c] = "insertUser" /\ End(c)
      /\ UNCHANGED <<sessions, tokens, rights, granted, raced, emptied, calls>>
  BY DEF InsertUser
<1>2. PICK email \in BOOLEAN :
        users' = IF users[u] # None THEN users ELSE [users EXCEPT ![u] = row(email)]
  BY DEF InsertUser
<1>3. req[c] \in Requests /\ req[c].op \in {"signUp", "createUser"}  BY <1>1, StandsAt DEF OpFits
<1>4. u \in Users /\ req[c].val \in Roles  BY <1>3, Requesting DEF AdminOps
<1>5. row(email) \in Account  BY <1>4 DEF Account
<1> HIDE DEF row
<1>6. users' \in [Users -> Account \cup {None}]  BY <1>2, <1>4, <1>5 DEF CallInv, TypeOK, AccountsOK
<1>7. Grows  BY <1>1, <1>2, <1>4 DEF CallInv, TypeOK, AccountsOK, Grows
<1>8. AccountsOK' /\ CasesOK'
  BY <1>1, <1>6 DEF CallInv, TypeOK, AccountsOK, CasesOK, caseVars, incidentVars, flagVars
<1> QED  BY <1>1, <1>7, <1>8, Ends, StepFits DEF CallInv, TypeOK

LEMMA ReadUserFits ==
  ASSUME CallInv, NEW c \in Callers, ReadUser(c), UNCHANGED caseVars
  PROVE  CallInv'
<1>1. CASE End(c)  BY <1>1, EndsFit DEF ReadUser
<1>2. CASE ~End(c)
  <2>1. /\ at[c] \in {"updateUser", "deleteUser"} /\ Continue(c, "writeUser", None)
        /\ users[req[c].on] # None
        /\ UNCHANGED <<accountVars, calls, caseVars>>
    BY <1>2 DEF ReadUser
  <2>2. "writeUser" \in Steps /\ None \in Seen  BY DEF Steps, AccessSteps, Seen
  <2>3. req[c] \in Requests /\ OpFits(c) /\ ReadFits(c)  BY <2>1, StandsAt
  <2>4. at'[c] = "writeUser" /\ req'[c] = req[c]  BY <2>1, <2>2, Continues DEF CallInv, TypeOK
  <2>5. users' = users  BY <2>1 DEF accountVars
  <2>6. CallFits(c)'  BY <2>1, <2>3, <2>4, <2>5 DEF CallFits, OpFits, ReadFits, PublicOps, Ops, OwnOps, AdminOps, CaseOps
  <2> QED  BY <2>1, <2>2, <2>6, GoesOn
<1> QED  BY <1>1, <1>2

\* What an admin makes of a row.
LEMMA ChangedRow ==
  ASSUME CallInv, NEW c \in Callers, at[c] = "writeUser"
  PROVE  LET u == req[c].on
             new == Changed(users[u], req[c])
         IN  /\ u \in Users /\ users[u] # None /\ users[u] \in Account
             /\ new \in Account /\ new.email = users[u].email /\ new.mfa = users[u].mfa
<1> DEFINE u == req[c].on
           new == Changed(users[u], req[c])
<1>1. req[c] \in Requests /\ req[c].op \in {"updateUser", "deleteUser"} /\ users[u] # None
  BY StandsAt DEF OpFits, ReadFits
<1>2. u \in Users /\ (req[c].op = "updateUser" => req[c].val \in Roles \cup {"on", "off"})
  BY <1>1, Requesting DEF AdminOps
<1>3. users[u] \in Account  BY <1>1, <1>2 DEF CallInv, TypeOK, AccountsOK
<1>4. new \in Account /\ new.email = users[u].email /\ new.mfa = users[u].mfa
  <2>1. PICK row \in Account : row = users[u]  BY <1>3
  <2>2. CASE req[c].op = "deleteUser"  BY <2>1, <2>2 DEF Changed, Account
  <2>3. CASE req[c].op # "deleteUser" /\ req[c].val \in Roles  BY <2>1, <2>3 DEF Changed, Account
  <2>4. CASE req[c].op # "deleteUser" /\ req[c].val \notin Roles
    BY <2>1, <2>4 DEF Changed, Account
  <2> QED  BY <2>2, <2>3, <2>4
<1> QED  BY <1>1, <1>2, <1>3, <1>4

LEMMA WriteUserFits ==
  ASSUME CallInv, NEW c \in Callers, WriteUser(c), UNCHANGED caseVars
  PROVE  CallInv'
<1> DEFINE u == req[c].on
           new == Changed(users[u], req[c])
<1>1. /\ at[c] = "writeUser" /\ End(c) /\ users' = [users EXCEPT ![u] = new]
      /\ rights' \in {rights, [rights EXCEPT ![u] = @ + 1]}
      /\ UNCHANGED <<sessions, tokens, granted, raced, emptied, calls>>
  BY DEF WriteUser
<1>2. /\ u \in Users /\ users[u] # None /\ users[u] \in Account
      /\ new \in Account /\ new.email = users[u].email
  BY <1>1, ChangedRow
<1> HIDE DEF new
<1>3. rights' \in [Users -> Nat]  BY <1>1, <1>2 DEF CallInv, TypeOK, AccountsOK
<1>4. emptied' \subseteq Users  BY <1>1 DEF CallInv, TypeOK, AccountsOK
<1>5. AccountsOK' /\ CasesOK' /\ Grows  BY <1>1, <1>2, <1>3, <1>4, RowSet DEF CallInv
<1> QED  BY <1>1, <1>5, Ends, StepFits DEF CallInv, TypeOK
-----------------------------------------------------------------------------
LEMMA ThrowsFits ==
  ASSUME CallInv, NEW c \in Callers, Throws(c), UNCHANGED caseVars
  PROVE  CallInv'
  BY EndsFit DEF Throws

LEMMA RestartFits ==
  ASSUME CallInv, Restart
  PROVE  CallInv'
<1>1. CallsOK' /\ \A c \in Callers : at'[c] = "idle"
  BY DEF Restart, RestartCalls, CallsOK, Steps, AccessSteps, Seen
<1>2. AccountsOK' /\ CasesOK'
  BY DEF Restart, RestartCalls, CallInv, TypeOK, AccountsOK, CasesOK, accountVars, flagVars
<1> QED  BY <1>1, <1>2 DEF CallInv, TypeOK, CallFits
-----------------------------------------------------------------------------
(* One lemma for each step of Casework. *)

\* Requests about incidents and flags leave the accounts alone.
LEMMA AccountsRest ==
  ASSUME TypeOK, UNCHANGED <<accountVars, calls>>
  PROVE  AccountsOK' /\ Grows /\ users' = users /\ sessions' = sessions
  BY DEF TypeOK, AccountsOK, Grows, accountVars

LEMMA ReadIncidentFits ==
  ASSUME CallInv, NEW c \in Callers, ReadIncident(c)
  PROVE  CallInv'
<1>1. at[c] = "updateIncident" /\ Continue(c, "writeIncident", status) /\ UNCHANGED <<accountVars, calls>>
  BY DEF ReadIncident
<1>2. AccountsOK' /\ Grows /\ users' = users  BY <1>1, AccountsRest DEF CallInv
<1>3. CasesOK'  BY DEF CallInv, TypeOK, CasesOK, ReadIncident, flagVars
<1>4. "writeIncident" \in Steps /\ status \in Seen  BY DEF Steps, Seen, CallInv, TypeOK, CasesOK
<1>5. CallsOK' /\ Rest(c) /\ at'[c] = "writeIncident" /\ req'[c] = req[c] /\ seen'[c] = status
  BY <1>1, <1>4, Continues DEF CallInv, TypeOK
<1>6. req[c] \in Requests /\ OpFits(c) /\ ReadFits(c)  BY <1>1, StandsAt
<1>7. CallFits(c)'
  BY <1>1, <1>2, <1>5, <1>6 DEF CallInv, TypeOK, CasesOK, CallFits, OpFits, ReadFits, PublicOps, Ops, OwnOps, AdminOps, CaseOps
<1> QED  BY <1>2, <1>3, <1>5, <1>7, StepFits

LEMMA WriteIncidentFits ==
  ASSUME CallInv, NEW c \in Callers, WriteIncident(c)
  PROVE  CallInv'
<1>1. at[c] = "writeIncident" /\ Continue(c, "audit", seen[c]) /\ UNCHANGED <<accountVars, calls>>
  BY DEF WriteIncident
<1>2. AccountsOK' /\ Grows /\ users' = users  BY <1>1, AccountsRest DEF CallInv
<1>3. req[c] \in Requests /\ OpFits(c) /\ ReadFits(c) /\ req[c].op = "updateIncident" /\ seen[c] \in Statuses
  BY <1>1, StandsAt DEF OpFits, ReadFits
<1>4. req[c].val \in Statuses \cup {None}  BY <1>3, Requesting
<1>5. CasesOK'  BY <1>4 DEF CallInv, TypeOK, CasesOK, WriteIncident, flagVars
<1>6. "audit" \in Steps /\ seen[c] \in Seen  BY <1>3 DEF Steps, Seen
<1>7. CallsOK' /\ Rest(c) /\ at'[c] = "audit" /\ req'[c] = req[c] /\ seen'[c] = seen[c]
  BY <1>1, <1>6, Continues DEF CallInv, TypeOK
<1>8. CallFits(c)'
  BY <1>1, <1>2, <1>3, <1>7 DEF CallFits, OpFits, ReadFits, PublicOps, Ops, OwnOps, AdminOps, CaseOps
<1> QED  BY <1>2, <1>5, <1>7, <1>8, StepFits

LEMMA AuditUpdateFits ==
  ASSUME CallInv, NEW c \in Callers, AuditUpdate(c)
  PROVE  CallInv'
<1> DEFINE entry == [old |-> seen[c], new |-> req[c].val]
           Entry == [old : Statuses, new : Statuses]
<1>1. at[c] = "audit" /\ End(c) /\ UNCHANGED <<accountVars, calls, status, flagVars>>
  BY DEF AuditUpdate
<1>2. AccountsOK' /\ Grows  BY <1>1, AccountsRest DEF CallInv
<1>3. req[c] \in Requests /\ req[c].op = "updateIncident" /\ seen[c] \in Statuses
  BY <1>1, StandsAt DEF OpFits, ReadFits
<1>4. req[c].val \in Statuses \cup {None}  BY <1>3, Requesting
<1>5. req[c].val \notin {None, seen[c]} => entry \in Entry  BY <1>3, <1>4
<1>6. trail' = trail \/ (req[c].val \notin {None, seen[c]} /\ trail' = Append(trail, entry))
  BY DEF AuditUpdate
<1>7. trail \in Seq(Entry)  BY DEF CallInv, TypeOK, CasesOK
<1> HIDE DEF entry, Entry
<1>8. trail' \in Seq(Entry)  BY <1>5, <1>6, <1>7
<1>9. muddled' \in BOOLEAN  BY DEF AuditUpdate, CallInv, TypeOK, CasesOK
<1>10. CasesOK'  BY <1>1, <1>8, <1>9 DEF Entry, CallInv, TypeOK, CasesOK, flagVars
<1> QED  BY <1>1, <1>2, <1>10, Ends, StepFits DEF CallInv, TypeOK

LEMMA SoarResolvesFits ==
  ASSUME CallInv, SoarResolves
  PROVE  CallInv'
  BY DEF CallInv, TypeOK, AccountsOK, CallsOK, CasesOK, CallFits, OpFits, ReadFits, SoarResolves,
         Statuses, accessVars, accountVars, callVars, flagVars

LEMMA FindFlagFits ==
  ASSUME CallInv, NEW c \in Callers, FindFlag(c)
  PROVE  CallInv'
<1>1. UNCHANGED <<accountVars, calls, caseVars>>  BY DEF FindFlag
<1>2. CASE End(c)  BY <1>1, <1>2, EndsFit
<1>3. CASE ~End(c)
  <2> DEFINE found == flags[req[c].on]
             step == IF found = None THEN "insertFlag" ELSE "writeFlag"
  <2>1. /\ at[c] \in {"flag", "unflag", "updateFlag"} /\ Continue(c, step, found)
        /\ found = None => req[c].op = "flag"
    BY <1>3 DEF FindFlag
  <2>2. req[c] \in Requests /\ OpFits(c) /\ ReadFits(c)  BY <2>1, StandsAt
  <2>3. req[c].op \in {"flag", "unflag", "updateFlag"}  BY <2>1, <2>2 DEF OpFits, Ops, CaseOps
  <2>4. found \in Ids \cup {None}  BY <2>2, <2>3, Requesting DEF CallInv, TypeOK, CasesOK
  <2>5. step \in Steps /\ found \in Seen  BY <2>4 DEF Steps, Seen
  <2>6. at'[c] = step /\ req'[c] = req[c] /\ seen'[c] = found  BY <2>1, <2>5, Continues DEF CallInv, TypeOK
  <2>7. users' = users  BY <1>1 DEF accountVars
  <2>8. OpFits(c)'  BY <2>1, <2>3, <2>6 DEF OpFits, Ops, PublicOps, OwnOps, AdminOps, CaseOps
  <2>9. ReadFits(c)'  BY <2>1, <2>2, <2>4, <2>6, <2>7 DEF ReadFits, PublicOps
  <2>10. CallFits(c)'  BY <2>2, <2>6, <2>8, <2>9 DEF CallFits
  <2> HIDE DEF step, found
  <2> QED  BY <1>1, <2>1, <2>5, <2>10, GoesOn
<1> QED  BY <1>2, <1>3

LEMMA InsertFlagFits ==
  ASSUME CallInv, NEW c \in Callers, InsertFlag(c)
  PROVE  CallInv'
<1> DEFINE h == req[c].on
<1>1. at[c] = "insertFlag" /\ End(c) /\ UNCHANGED <<accountVars, calls>>  BY DEF InsertFlag
<1>2. h \in Hashes  BY <1>1, StandsAt, Requesting DEF OpFits
<1>3. made[h] \in Nat /\ Id(h, made[h] + 1) \in Ids  BY <1>2 DEF CallInv, TypeOK, CasesOK, Id, Ids
<1>4. /\ made' \in [Hashes -> Nat] /\ flags' \in [Hashes -> Ids \cup {None}]
      /\ flagStatus' \in [Hashes -> FlagStatus]
  <2>1. CASE flags[h] = None
    <3>1. /\ flags' = [flags EXCEPT ![h] = Id(h, made[h] + 1)]
          /\ flagStatus' = [flagStatus EXCEPT ![h] = "OPEN"]
          /\ made' = [made EXCEPT ![h] = made[h] + 1]
      BY <2>1 DEF InsertFlag
    <3>2. flags' \in [Hashes -> Ids \cup {None}]  BY <1>3, <3>1 DEF CallInv, TypeOK, CasesOK
    <3>3. made \in [Hashes -> Nat]  BY DEF CallInv, TypeOK, CasesOK
    <3>4. made[h] + 1 \in Nat  BY <1>2, <3>3
    <3>5. made' \in [Hashes -> Nat]  BY <3>1, <3>3, <3>4
    <3>6. flagStatus' \in [Hashes -> FlagStatus]  BY <3>1 DEF CallInv, TypeOK, CasesOK, FlagStatus
    <3> QED  BY <3>2, <3>5, <3>6
  <2>2. CASE flags[h] # None  BY <2>2 DEF InsertFlag, CallInv, TypeOK, CasesOK
  <2> QED  BY <2>1, <2>2
<1>5. CasesOK'  BY <1>4 DEF CallInv, TypeOK, CasesOK, InsertFlag, incidentVars
<1> QED  BY <1>1, <1>5, AccountsRest, Ends, StepFits DEF CallInv, TypeOK

LEMMA WriteFlagFits ==
  ASSUME CallInv, NEW c \in Callers, WriteFlag(c)
  PROVE  CallInv'
<1> DEFINE h == req[c].on
<1>1. at[c] = "writeFlag" /\ End(c) /\ UNCHANGED <<accountVars, calls>>  BY DEF WriteFlag
<1>2. req[c] \in Requests /\ req[c].op \in {"flag", "unflag", "updateFlag"}
  BY <1>1, StandsAt DEF OpFits
<1>3. h \in Hashes /\ (req[c].op = "updateFlag" => req[c].val \in FlagStatus)  BY <1>2, Requesting
<1>4. /\ flags' \in [Hashes -> Ids \cup {None}] /\ flagStatus' \in [Hashes -> FlagStatus]
      /\ links' \subseteq links
  BY <1>2, <1>3 DEF CallInv, TypeOK, CasesOK, WriteFlag, FlagStatus, LinksWithout
<1>5. CasesOK'  BY <1>4 DEF CallInv, TypeOK, CasesOK, WriteFlag, incidentVars
<1> QED  BY <1>1, <1>5, AccountsRest, Ends, StepFits DEF CallInv, TypeOK

LEMMA FindFromFits ==
  ASSUME CallInv, NEW c \in Callers, FindFrom(c)
  PROVE  CallInv'
<1> DEFINE found == flags[req[c].on]
<1>1. at[c] = "link" /\ Continue(c, "findTo", found) /\ UNCHANGED <<accountVars, calls, caseVars>>
  BY DEF FindFrom
<1>2. req[c] \in Requests /\ OpFits(c) /\ ReadFits(c) /\ req[c].op = "link"
  BY <1>1, StandsAt DEF OpFits, Ops, CaseOps
<1>3. found \in Ids \cup {None}  BY <1>2, Requesting DEF CallInv, TypeOK, CasesOK
<1>4. "findTo" \in Steps /\ found \in Seen  BY <1>3 DEF Steps, Seen
<1>5. at'[c] = "findTo" /\ req'[c] = req[c] /\ seen'[c] = found  BY <1>1, <1>4, Continues DEF CallInv, TypeOK
<1>6. users' = users  BY <1>1 DEF accountVars
<1>7. CallFits(c)'
  BY <1>1, <1>2, <1>3, <1>5, <1>6 DEF CallFits, OpFits, ReadFits, PublicOps, Ops, OwnOps, AdminOps, CaseOps
<1> HIDE DEF found
<1> QED  BY <1>1, <1>4, <1>7, GoesOn

LEMMA FindToFits ==
  ASSUME CallInv, NEW c \in Callers, FindTo(c)
  PROVE  CallInv'
<1>1. UNCHANGED <<accountVars, calls, caseVars>>  BY DEF FindTo
<1>2. CASE End(c)  BY <1>1, <1>2, EndsFit
<1>3. CASE ~End(c)
  <2> DEFINE found == flags[req[c].val]
             pair == <<seen[c], found>>
  <2>1. at[c] = "findTo" /\ Continue(c, "findLink", pair) /\ seen[c] # None /\ found # None
    BY <1>3 DEF FindTo
  <2>2. req[c] \in Requests /\ OpFits(c) /\ ReadFits(c) /\ req[c].op = "link"
    BY <2>1, StandsAt DEF OpFits
  <2>3. seen[c] \in Ids /\ found \in Ids
    BY <2>1, <2>2, Requesting DEF ReadFits, CallInv, TypeOK, CasesOK
  <2>4. pair \in Ids \X Ids  BY <2>3
  <2> HIDE DEF pair
  <2>5. "findLink" \in Steps /\ pair \in Seen  BY <2>4 DEF Steps, Seen
  <2>6. at'[c] = "findLink" /\ req'[c] = req[c] /\ seen'[c] = pair
    BY <2>1, <2>5, Continues DEF CallInv, TypeOK
  <2>7. users' = users  BY <1>1 DEF accountVars
  <2>8. CallFits(c)'
    BY <2>1, <2>2, <2>4, <2>6, <2>7 DEF CallFits, OpFits, ReadFits, PublicOps, Ops, OwnOps, AdminOps, CaseOps
  <2> QED  BY <1>1, <2>1, <2>5, <2>8, GoesOn
<1> QED  BY <1>2, <1>3

LEMMA FindLinkFits ==
  ASSUME CallInv, NEW c \in Callers, FindLink(c)
  PROVE  CallInv'
<1> DEFINE pair == seen[c]
<1>1. at[c] = "findLink" /\ UNCHANGED <<accountVars, calls>>  BY DEF FindLink
<1>2. req[c] \in Requests /\ OpFits(c) /\ ReadFits(c) /\ pair \in Ids \X Ids  BY <1>1, StandsAt DEF ReadFits
<1>3. Swap(pair) \in Ids \X Ids  BY <1>2 DEF Swap
<1>4. CasesOK'  BY <1>2, <1>3 DEF CallInv, TypeOK, CasesOK, FindLink, incidentVars
<1>5. AccountsOK' /\ Grows /\ users' = users  BY <1>1, AccountsRest DEF CallInv
<1>6. CASE End(c)  BY <1>4, <1>5, <1>6, Ends, StepFits DEF CallInv, TypeOK
<1>7. CASE ~End(c)
  <2>1. Continue(c, "insertLink", pair)  BY <1>7 DEF FindLink
  <2>2. "insertLink" \in Steps /\ pair \in Seen  BY <1>2 DEF Steps, Seen
  <2>3. CallsOK' /\ Rest(c) /\ at'[c] = "insertLink" /\ req'[c] = req[c] /\ seen'[c] = pair
    BY <2>1, <2>2, Continues DEF CallInv, TypeOK
  <2>4. CallFits(c)'
    BY <1>1, <1>2, <1>5, <2>3 DEF CallFits, OpFits, ReadFits, PublicOps, Ops, OwnOps, AdminOps, CaseOps
  <2> QED  BY <1>4, <1>5, <2>3, <2>4, StepFits
<1> QED  BY <1>6, <1>7

LEMMA InsertLinkFits ==
  ASSUME CallInv, NEW c \in Callers, InsertLink(c)
  PROVE  CallInv'
<1>1. at[c] = "insertLink" /\ End(c) /\ UNCHANGED <<accountVars, calls>>  BY DEF InsertLink
<1>2. seen[c] \in Ids \X Ids  BY <1>1, StandsAt DEF ReadFits
<1>3. links' \subseteq links \cup {seen[c]}  BY DEF InsertLink
<1>4. CasesOK'  BY <1>2, <1>3 DEF CallInv, TypeOK, CasesOK, InsertLink, incidentVars
<1> QED  BY <1>1, <1>4, AccountsRest, Ends, StepFits DEF CallInv, TypeOK
-----------------------------------------------------------------------------
LEMMA InitFits == Init => CallInv
<1> SUFFICES ASSUME Init  PROVE CallInv  OBVIOUS
<1>1. AccountsOK /\ CallsOK
  BY AccessAssumption DEF Init, AccessInit, AccountsOK, CallsOK, Steps, AccessSteps, Seen
<1>2. CasesOK
  <2>1. made \in [Hashes -> Nat]  BY DEF Init
  <2>2. \A h \in Hashes : Id(h, 1) \in Ids  BY DEF Id, Ids
  <2>3. flags \in [Hashes -> Ids \cup {None}]  BY <2>2 DEF Init
  <2>4. trail \in Seq([old : Statuses, new : Statuses])  BY DEF Init
  <2> QED  BY <2>1, <2>3, <2>4 DEF Init, CasesOK, Statuses, FlagStatus
<1> QED  BY <1>1, <1>2 DEF CallInv, TypeOK, CallFits, Init, AccessInit

LEMMA StepFitsAll == CallInv /\ [Next]_vars => CallInv'
<1> SUFFICES ASSUME CallInv, [Next]_vars  PROVE CallInv'  OBVIOUS
<1>1. CASE UNCHANGED vars
  BY <1>1 DEF vars, accessVars, accountVars, callVars, caseVars, incidentVars, flagVars,
              CallInv, TypeOK, AccountsOK, CallsOK, CasesOK, CallFits, OpFits, ReadFits
<1>2. CASE AccessNext /\ UNCHANGED caseVars
  <2>1. ASSUME NEW c \in Callers, NEW r \in Requests, Arrive(c, r)  PROVE CallInv'
    BY <1>2, <2>1, ArriveFits
  <2>2. ASSUME NEW c \in Callers, AccessStep(c)  PROVE CallInv'
    BY <1>2, <2>2, ValidateFits, SignInFits, SendOtpFits, CreateSessionFits, VerifyMfaFits, MarkUsedFits,
       SignFits, EnableMfaFits, CheckEmailFits, MfaOnFits, DisableMfaFits, CheckNameFits, InsertUserFits,
       ReadUserFits, WriteUserFits
    DEF AccessStep
  <2> QED  BY <1>2, <2>1, <2>2, TokenExpiresFits, CodeExpiresFits DEF AccessNext
<1>3. ASSUME NEW c \in Callers, Throws(c) /\ UNCHANGED caseVars  PROVE CallInv'  BY <1>3, ThrowsFits
<1>4. ASSUME NEW c \in Callers, CaseStep(c)  PROVE CallInv'
  BY <1>4, ReadIncidentFits, WriteIncidentFits, AuditUpdateFits, FindFlagFits, InsertFlagFits, WriteFlagFits,
     FindFromFits, FindToFits, FindLinkFits, InsertLinkFits
  DEF CaseStep
<1> QED  BY <1>1, <1>2, <1>3, <1>4, SoarResolvesFits, RestartFits DEF Next

\* Every request stands where its operation can stand and holds what that
\* await needs; rows, sessions and trails stay well-formed: AuthService,
\* AdminService, IncidentsService and FlaggedEventsService, in every
\* interleaving with failures and restarts.
THEOREM CaseworkTypes == Spec => []TypeOK
<1>1. Spec => []CallInv  BY InitFits, StepFitsAll, PTL DEF Spec
<1>2. CallInv => TypeOK  BY DEF CallInv
<1> QED  BY <1>1, <1>2, PTL
-----------------------------------------------------------------------------
(***************************************************************************)
(* The safety properties of Casework and Access, for any number of         *)
(* requests, accounts and events, from the invariant CallInv.              *)
(* Each has a strengthening of its own that says what the requests under   *)
(* way know of the rows; a step is either about those rows or moves one    *)
(* request between awaits that do not matter.                              *)
(***************************************************************************)

CaseAwaits == Steps \ AccessSteps

-----------------------------------------------------------------------------
(* How the requests move. *)

LEMMA Ended ==
  ASSUME CallInv, NEW c \in Callers, End(c)
  PROVE  Rest(c) /\ at'[c] = "idle"
  BY DEF CallInv, TypeOK, CallsOK, End, Rest

LEMMA Moved ==
  ASSUME CallInv, NEW c \in Callers, NEW step, NEW value, Continue(c, step, value)
  PROVE  /\ Rest(c) /\ at'[c] = step /\ seen'[c] = value
         /\ req'[c] = req[c] /\ admitted'[c] = admitted[c]
  BY DEF CallInv, TypeOK, CallsOK, Continue, Rest

\* Where the steps of Access lead.
LEMMA AccessMoves ==
  ASSUME CallInv, NEW c \in Callers, AccessStep(c)
  PROVE  Rest(c) /\ at[c] \in AccessSteps \ {"idle"} /\ at'[c] \in AccessSteps
<1>1. CASE Validate(c)
  <2>1. CASE End(c)  BY <1>1, <2>1, Ended DEF Validate, AccessSteps
  <2>2. CASE ~End(c)
    <3>1. at[c] = "validate" /\ at' = [at EXCEPT ![c] = req[c].op]
      BY <1>1, <2>2 DEF Validate
    <3>2. req[c].op \in Ops  BY <3>1, StandsAt
    <3>3. \A d \in Callers \ {c} : /\ req'[d] = req[d] /\ seen'[d] = seen[d]
                                   /\ admitted'[d] = admitted[d]
      BY <1>1, <2>2 DEF Validate, CallInv, TypeOK, CallsOK
    <3> QED  BY <3>1, <3>2, <3>3 DEF CallInv, TypeOK, CallsOK, Rest, AccessSteps
  <2> QED  BY <2>1, <2>2
<1>2. CASE SignIn(c)       BY <1>2, Ended, Moved DEF SignIn, AccessSteps, Ops, PublicOps
<1>3. CASE SendOtp(c)      BY <1>3, Ended, Moved DEF SendOtp, AccessSteps
<1>4. CASE CreateSession(c)  BY <1>4, Ended, Moved DEF CreateSession, AccessSteps
<1>5. CASE VerifyMfa(c)    BY <1>5, Ended, Moved DEF VerifyMfa, AccessSteps, Ops, PublicOps
<1>6. CASE MarkUsed(c)     BY <1>6, Ended, Moved DEF MarkUsed, AccessSteps
<1>7. CASE Sign(c)         BY <1>7, Ended, Moved DEF Sign, AccessSteps
<1>8. CASE EnableMfa(c)    BY <1>8, Ended, Moved DEF EnableMfa, AccessSteps, Ops, OwnOps
<1>9. CASE CheckEmail(c)   BY <1>9, Ended, Moved DEF CheckEmail, AccessSteps
<1>10. CASE MfaOn(c)       BY <1>10, Ended, Moved DEF MfaOn, AccessSteps
<1>11. CASE DisableMfa(c)  BY <1>11, Ended, Moved DEF DisableMfa, AccessSteps, Ops, OwnOps
<1>12. CASE CheckName(c)   BY <1>12, Ended, Moved DEF CheckName, AccessSteps, Ops, PublicOps, AdminOps
<1>13. CASE InsertUser(c)  BY <1>13, Ended, Moved DEF InsertUser, AccessSteps
<1>14. CASE ReadUser(c)    BY <1>14, Ended, Moved DEF ReadUser, AccessSteps, Ops, AdminOps
<1>15. CASE WriteUser(c)   BY <1>15, Ended, Moved DEF WriteUser, AccessSteps
<1> QED
  BY <1>1, <1>2, <1>3, <1>4, <1>5, <1>6, <1>7, <1>8, <1>9, <1>10, <1>11, <1>12, <1>13, <1>14, <1>15
  DEF AccessStep

\* Those of Casework start past the guards and keep the request.
LEMMA CaseMoves ==
  ASSUME CallInv, NEW c \in Callers, CaseStep(c)
  PROVE  /\ Rest(c) /\ at[c] \in CaseOps \cup CaseAwaits
         /\ \/ at'[c] = "idle"
            \/ at'[c] \in CaseAwaits /\ req'[c] = req[c] /\ admitted'[c] = admitted[c]
<1> USE DEF CaseAwaits, Steps, AccessSteps, Ops, PublicOps, OwnOps, AdminOps, CaseOps
<1>1. CASE ReadIncident(c)   BY <1>1, Moved DEF ReadIncident
<1>2. CASE WriteIncident(c)  BY <1>2, Moved DEF WriteIncident
<1>3. CASE AuditUpdate(c)    BY <1>3, Ended DEF AuditUpdate
<1>4. CASE FindFlag(c)       BY <1>4, Ended, Moved DEF FindFlag
<1>5. CASE InsertFlag(c)     BY <1>5, Ended DEF InsertFlag
<1>6. CASE WriteFlag(c)      BY <1>6, Ended DEF WriteFlag
<1>7. CASE FindFrom(c)       BY <1>7, Moved DEF FindFrom
<1>8. CASE FindTo(c)         BY <1>8, Ended, Moved DEF FindTo
<1>9. CASE FindLink(c)       BY <1>9, Ended, Moved DEF FindLink
<1>10. CASE InsertLink(c)    BY <1>10, Ended DEF InsertLink
<1> QED  BY <1>1, <1>2, <1>3, <1>4, <1>5, <1>6, <1>7, <1>8, <1>9, <1>10 DEF CaseStep

LEMMA ArriveMoves ==
  ASSUME CallInv, NEW c \in Callers, NEW r \in Requests, Arrive(c, r)
  PROVE  Rest(c) /\ at[c] = "idle" /\ at'[c] \in PublicOps \cup {"validate"} /\ req'[c] = r
  BY DEF CallInv, TypeOK, CallsOK, Arrive, Rest
-----------------------------------------------------------------------------
(* Accounts: what changes of a row, and who relies on it. *)

\* A row changes, at most, so that whoever relied on it can tell.
RowsTell ==
  \A u \in Users : users[u] # None =>
    /\ users'[u] # None /\ rights'[u] >= rights[u]
    /\ rights'[u] = rights[u] =>
         users'[u].role = users[u].role /\ (users[u].active => users'[u].active)

\* MFA comes after the address, and goes before it, unless the owner empties it.
AddressesStay ==
  \A u \in Users : users'[u] # None /\ users'[u].mfa =>
    \/ users'[u].email \/ u \in emptied'
    \/ users[u] # None /\ users[u].mfa /\ ~users[u].email /\ u \notin emptied

LEMMA SameRows ==
  ASSUME CallInv, users' = users, rights' = rights, emptied' = emptied
  PROVE  RowsTell /\ AddressesStay
  BY DEF CallInv, TypeOK, AccountsOK, RowsTell, AddressesStay

LEMMA OneRow ==
  ASSUME CallInv, NEW u \in Users, NEW row \in Account, users' = [users EXCEPT ![u] = row],
         rights' = rights, users[u] # None => row.role = users[u].role /\ (users[u].active => row.active),
         \A v \in Users \ {u} : v \in emptied => v \in emptied',
         row.mfa => \/ row.email \/ u \in emptied'
                    \/ users[u] # None /\ users[u].mfa /\ ~users[u].email /\ u \notin emptied
  PROVE  RowsTell /\ AddressesStay
<1>1. row # None  BY AccessAssumption
<1>2. \A v \in Users : users'[v] = IF v = u THEN row ELSE users[v]
  BY DEF CallInv, TypeOK, AccountsOK
<1>3. RowsTell  BY <1>1, <1>2 DEF CallInv, TypeOK, AccountsOK, RowsTell
<1>4. AddressesStay  BY <1>1, <1>2 DEF AddressesStay
<1> QED  BY <1>3, <1>4

LEMMA AccessRows ==
  ASSUME CallInv, NEW c \in Callers, AccessStep(c)
  PROVE  RowsTell /\ AddressesStay
<1>1. CASE EnableMfa(c)
  <2> DEFINE u == req[c].by
             given == req[c].val = "address"
             row == [users[u] EXCEPT !.email = given]
  <2>1. /\ at[c] = "enableMfa" /\ users' = [users EXCEPT ![u] = row] /\ rights' = rights
        /\ emptied' = IF given THEN emptied \ {u}
                      ELSE IF users[u].mfa \/ Enabling(u) # {} THEN emptied \cup {u} ELSE emptied
    BY <1>1 DEF EnableMfa
  <2>2. u \in Users /\ users[u] \in Account  BY <2>1, OwnRow
  <2>3. /\ row \in Account /\ row.role = users[u].role /\ row.active = users[u].active
        /\ row.email = given /\ row.mfa = users[u].mfa
    BY <2>2 DEF Account
  <2> HIDE DEF row, given
  <2>4. /\ \A v \in Users \ {u} : v \in emptied => v \in emptied'
        /\ row.mfa => row.email \/ u \in emptied'
    BY <2>1, <2>3
  <2> QED  BY <2>1, <2>2, <2>3, <2>4, OneRow
<1>2. CASE MfaOn(c)
  <2> DEFINE u == req[c].by
             row == [users[u] EXCEPT !.mfa = TRUE]
  <2>1. /\ at[c] = "mfaOn" /\ users' = [users EXCEPT ![u] = row] /\ rights' = rights
        /\ emptied' = emptied
    BY <1>2 DEF MfaOn
  <2>2. u \in Users /\ users[u] \in Account /\ (users[u].email \/ u \in emptied)
    BY <2>1, OwnRow DEF ReadFits
  <2>3. /\ row \in Account /\ row.role = users[u].role /\ row.active = users[u].active
        /\ row.email = users[u].email
    BY <2>2 DEF Account
  <2> HIDE DEF row
  <2> QED  BY <2>1, <2>2, <2>3, OneRow
<1>3. CASE DisableMfa(c)
  <2> DEFINE u == req[c].by
             row == [users[u] EXCEPT !.mfa = FALSE]
  <2>1. /\ at[c] = "disableMfa" /\ users' = [users EXCEPT ![u] = row] /\ rights' = rights
        /\ emptied' = emptied
    BY <1>3 DEF DisableMfa
  <2>2. u \in Users /\ users[u] \in Account  BY <2>1, OwnRow
  <2>3. row \in Account /\ row.role = users[u].role /\ row.active = users[u].active /\ ~row.mfa
    BY <2>2 DEF Account
  <2> HIDE DEF row
  <2> QED  BY <2>1, <2>2, <2>3, OneRow
<1>4. CASE InsertUser(c)
  <2> DEFINE u == req[c].on
             row(email) == [role |-> req[c].val, active |-> TRUE, mfa |-> FALSE, email |-> email]
  <2>1. at[c] = "insertUser" /\ rights' = rights /\ emptied' = emptied  BY <1>4 DEF InsertUser
  <2>2. PICK email \in BOOLEAN :
          users' = IF users[u] # None THEN users ELSE [users EXCEPT ![u] = row(email)]
    BY <1>4 DEF InsertUser
  <2>3. req[c] \in Requests /\ req[c].op \in {"signUp", "createUser"}  BY <2>1, StandsAt DEF OpFits
  <2>4. u \in Users /\ req[c].val \in Roles  BY <2>3, Requesting DEF AdminOps
  <2>5. row(email) \in Account /\ ~row(email).mfa  BY <2>4 DEF Account
  <2> HIDE DEF row
  <2>6. CASE users[u] # None  BY <2>1, <2>2, <2>6, SameRows
  <2>7. CASE users[u] = None  BY <2>1, <2>2, <2>4, <2>5, <2>7, OneRow
  <2> QED  BY <2>6, <2>7
<1>5. CASE WriteUser(c)
  <2> DEFINE u == req[c].on
             new == Changed(users[u], req[c])
             fewer == new.role # users[u].role \/ (users[u].active /\ ~new.active)
  <2>1. /\ at[c] = "writeUser" /\ users' = [users EXCEPT ![u] = new]
        /\ rights' = IF fewer THEN [rights EXCEPT ![u] = rights[u] + 1] ELSE rights
        /\ emptied' = emptied
    BY <1>5 DEF WriteUser
  <2>2. /\ u \in Users /\ users[u] # None /\ users[u] \in Account
        /\ new \in Account /\ new.email = users[u].email /\ new.mfa = users[u].mfa
    BY <2>1, ChangedRow
  <2>3. new # None /\ new.active \in BOOLEAN  BY <2>2, AccessAssumption DEF Account
  <2> HIDE DEF new
  <2>4. \A v \in Users : users'[v] = IF v = u THEN new ELSE users[v]
    BY <2>1 DEF CallInv, TypeOK, AccountsOK
  <2>5. \A v \in Users : rights'[v] = IF v = u /\ fewer THEN rights[v] + 1 ELSE rights[v]
    BY <2>1 DEF CallInv, TypeOK, AccountsOK
  <2>6. \A v \in Users : rights[v] \in Nat  BY DEF CallInv, TypeOK, AccountsOK
  <2>7. RowsTell  BY <2>2, <2>3, <2>4, <2>5, <2>6 DEF RowsTell
  <2>8. AddressesStay  BY <2>1, <2>2, <2>4 DEF AddressesStay
  <2> QED  BY <2>7, <2>8
<1>6. CASE ~(EnableMfa(c) \/ MfaOn(c) \/ DisableMfa(c) \/ InsertUser(c) \/ WriteUser(c))
  <2>1. users' = users /\ rights' = rights /\ emptied' = emptied
    BY <1>6 DEF AccessStep, Validate, SignIn, SendOtp, CreateSession, VerifyMfa, MarkUsed, Sign, CheckEmail,
                CheckName, ReadUser, accountVars
  <2> QED  BY <2>1, SameRows
<1> QED  BY <1>1, <1>2, <1>3, <1>4, <1>5, <1>6

LEMMA CaseRows ==
  ASSUME NEW c \in Callers, CaseStep(c)
  PROVE  UNCHANGED <<accountVars, calls>>
  BY DEF CaseStep, ReadIncident, WriteIncident, AuditUpdate, FindFlag, InsertFlag, WriteFlag,
         FindFrom, FindTo, FindLink, InsertLink

LEMMA NextRows ==
  ASSUME CallInv, [Next]_vars
  PROVE  RowsTell /\ AddressesStay
<1>1. CASE \E c \in Callers : AccessStep(c)  BY <1>1, AccessRows
<1>2. CASE ~\E c \in Callers : AccessStep(c)
  <2>1. users' = users /\ rights' = rights /\ emptied' = emptied
    BY <1>2, CaseRows
    DEF Next, AccessNext, Arrive, TokenExpires, CodeExpires, Throws, SoarResolves, Restart, RestartCalls,
        vars, accessVars, accountVars
  <2> QED  BY <2>1, SameRows
<1> QED  BY <1>1, <1>2

-----------------------------------------------------------------------------
(* A request past the guards. *)

PastGuards(c) == at[c] \notin {"idle", "validate"} /\ req[c].op \notin PublicOps

MayAct(c) ==
  LET user == users[req[c].by]
  IN  user # None /\ user.active /\ user.role \in RolesOf(req[c].op)

RightsOf(c) ==
  PastGuards(c) =>
    /\ admitted[c] <= rights[req[c].by]
    /\ admitted[c] < rights[req[c].by] \/ MayAct(c)

\* Either it got past them just now, or it was there already.
GoesPast(c) ==
  PastGuards(c)' =>
    \/ /\ Allowed(req[c]) /\ admitted'[c] = rights[req[c].by]
       /\ UNCHANGED <<users, rights>> /\ req'[c] = req[c]
    \/ PastGuards(c) /\ req'[c] = req[c] /\ admitted'[c] = admitted[c]

LEMMA RestGoPast ==
  ASSUME NEW c \in Callers, Rest(c), GoesPast(c)
  PROVE  \A d \in Callers : GoesPast(d)
  BY DEF Rest, GoesPast, PastGuards

LEMMA AccessGoPast ==
  ASSUME CallInv, NEW c \in Callers, AccessStep(c)
  PROVE  GoesPast(c)
<1>1. CASE Validate(c)
  BY <1>1, Ended DEF Validate, GoesPast, PastGuards, CallInv, TypeOK, CallsOK, accountVars
<1>2. CASE ~Validate(c)
  <2>1. at[c] \notin {"idle", "validate"}
    BY <1>2 DEF AccessStep, SignIn, SendOtp, CreateSession, VerifyMfa, MarkUsed, Sign,
                EnableMfa, CheckEmail, MfaOn, DisableMfa, CheckName, InsertUser, ReadUser, WriteUser
  <2>2. at'[c] = "idle" \/ (req'[c] = req[c] /\ admitted'[c] = admitted[c])
    BY <1>2, Ended, Moved
    DEF AccessStep, SignIn, SendOtp, CreateSession, VerifyMfa, MarkUsed, Sign,
        EnableMfa, CheckEmail, MfaOn, DisableMfa, CheckName, InsertUser, ReadUser, WriteUser
  <2> QED  BY <2>1, <2>2 DEF GoesPast, PastGuards
<1> QED  BY <1>1, <1>2

LEMMA NextGoPast ==
  ASSUME CallInv, [Next]_vars
  PROVE  \A c \in Callers : GoesPast(c)
<1>1. CASE UNCHANGED vars \/ SoarResolves
  BY <1>1 DEF vars, SoarResolves, accessVars, callVars, GoesPast, PastGuards
<1>2. ASSUME NEW c \in Callers, NEW r \in Requests, Arrive(c, r)  PROVE \A d \in Callers : GoesPast(d)
  <2>1. GoesPast(c)  BY <1>2, ArriveMoves DEF GoesPast, PastGuards, Arrive, CallInv, TypeOK, CallsOK
  <2> QED  BY <1>2, <2>1, ArriveMoves, RestGoPast
<1>3. ASSUME NEW c \in Callers, AccessStep(c)  PROVE \A d \in Callers : GoesPast(d)
  BY <1>3, AccessMoves, AccessGoPast, RestGoPast
<1>4. ASSUME NEW c \in Callers, CaseStep(c)  PROVE \A d \in Callers : GoesPast(d)
  <2>1. GoesPast(c)
    BY <1>4, CaseMoves DEF GoesPast, PastGuards, CaseOps, CaseAwaits, Steps, AccessSteps
  <2> QED  BY <1>4, <2>1, CaseMoves, RestGoPast
<1>5. ASSUME NEW c \in Callers, Throws(c)  PROVE \A d \in Callers : GoesPast(d)
  <2>1. GoesPast(c)  BY <1>5, Ended DEF Throws, GoesPast, PastGuards
  <2> QED  BY <1>5, <2>1, Ended, RestGoPast DEF Throws
<1>6. CASE (\E u \in Users : TokenExpires(u)) \/ (\E s \in DOMAIN sessions : CodeExpires(s))
  BY <1>6 DEF TokenExpires, CodeExpires, callVars, GoesPast, PastGuards
<1>7. CASE Restart  BY <1>7 DEF Restart, RestartCalls, GoesPast, PastGuards
<1> QED  BY <1>1, <1>2, <1>3, <1>4, <1>5, <1>6, <1>7 DEF Next, AccessNext

RightsInv == CallInv /\ \A c \in Callers : RightsOf(c)

\* JwtStrategy.validate reads the row at every request, so that a token of
\* 24 hours is worth what its user's row is at that moment: an active account,
\* with the role the handler's @Roles names if it has one.  For any number of
\* requests, admins and changes, with failures and restarts.  That handlers
\* without @Roles let every role in is in RolesOf, not refuted here.
THEOREM RightsAreHeld == Spec => []RightsHeldAtAdmission
<1>1. Init => RightsInv
  BY InitFits DEF Init, AccessInit, RightsInv, RightsOf, PastGuards
<1>2. RightsInv /\ [Next]_vars => RightsInv'
  <2> SUFFICES ASSUME RightsInv, [Next]_vars  PROVE RightsInv'  OBVIOUS
  <2>1. CallInv /\ CallInv' /\ RowsTell  BY StepFitsAll, NextRows DEF RightsInv
  <2> SUFFICES ASSUME NEW c \in Callers, PastGuards(c)'  PROVE RightsOf(c)'
    BY <2>1 DEF RightsInv, RightsOf
  <2>2. GoesPast(c) /\ RightsOf(c)  BY NextGoPast DEF RightsInv
  <2>3. at'[c] # "idle" /\ req'[c].op \notin PublicOps  BY DEF PastGuards
  <2>4. req'[c].by \in Users /\ users'[req'[c].by] # None
    BY <2>1, <2>3, Requesting DEF CallInv, CallFits, ReadFits, PastGuards
  <2>5. \A u \in Users : rights[u] \in Nat /\ rights'[u] \in Nat /\ admitted[c] \in Nat
    BY <2>1 DEF CallInv, TypeOK, AccountsOK, CallsOK
  <2>6. CASE Allowed(req[c]) /\ admitted'[c] = rights[req[c].by] /\ req'[c] = req[c]
             /\ UNCHANGED <<users, rights>>
    BY <2>4, <2>5, <2>6 DEF Allowed, RightsOf, MayAct
  <2>7. CASE PastGuards(c) /\ req'[c] = req[c] /\ admitted'[c] = admitted[c]
    <3>1. req[c].by \in Users /\ users[req[c].by] # None
      BY <2>1, <2>4, <2>7 DEF CallInv, CallFits, ReadFits, PastGuards
    <3>2. admitted[c] <= rights[req[c].by] /\ (admitted[c] < rights[req[c].by] \/ MayAct(c))
      BY <2>2, <2>7 DEF RightsOf
    <3>3. admitted'[c] <= rights'[req'[c].by]  BY <2>1, <2>5, <2>7, <3>1, <3>2 DEF RowsTell
    <3>4. CASE rights'[req[c].by] = rights[req[c].by] /\ MayAct(c)
      BY <2>1, <2>4, <2>7, <3>1, <3>3, <3>4 DEF RowsTell, MayAct, RightsOf
    <3>5. CASE ~(rights'[req[c].by] = rights[req[c].by] /\ MayAct(c))
      BY <2>1, <2>5, <2>7, <3>1, <3>2, <3>3, <3>5 DEF RowsTell, RightsOf
    <3> QED  BY <3>4, <3>5
  <2> QED  BY <2>2, <2>6, <2>7 DEF GoesPast
<1>3. RightsInv => RightsHeldAtAdmission
  BY DEF RightsInv, RightsOf, PastGuards, MayAct, RightsHeldAtAdmission
<1> QED  BY <1>1, <1>2, <1>3, PTL DEF Spec

\* enableMfa stores the address first and reads it again: whatever fails or
\* overlaps, an account that has MFA and no address to send its codes to is one
\* whose owner stored an empty string while he relied on the address.
THEOREM MfaKeepsEmail == Spec => []MfaHasEmail
<1>1. Init => MfaHasEmail  BY AccessAssumption DEF Init, AccessInit, MfaHasEmail
<1>2. MfaHasEmail /\ CallInv /\ [Next]_vars => MfaHasEmail'
  BY NextRows DEF MfaHasEmail, AddressesStay
<1>3. Spec => []CallInv  BY InitFits, StepFitsAll, PTL DEF Spec
<1> QED  BY <1>1, <1>2, <1>3, PTL DEF Spec
-----------------------------------------------------------------------------
(* One-time codes. *)

Redeems(c, s) == at[c] = "markUsed" /\ req[c].on = s
Signs(c, s)   == at[c] = "sign" /\ req[c].op = "verifyMfa" /\ req[c].on = s

\* The token of a session that was not raced for is given by the one request
\* that marked it.
Once(s) ==
  s \notin raced =>
    /\ \A c, d \in Callers : Redeems(c, s) /\ Redeems(d, s) => c = d
    /\ \A c, d \in Callers : Signs(c, s) /\ Signs(d, s) => c = d
    /\ \A c \in Callers : Redeems(c, s) => ~sessions[s].used
    /\ \A c \in Callers : Signs(c, s) => sessions[s].used /\ granted[s] = 0
    /\ granted[s] = 0 \/ (granted[s] = 1 /\ sessions[s].used)

CodeInv == \A s \in DOMAIN sessions : Once(s)

\* A step after which no request is nearer to a token.
NoNearer ==
  \A c \in Callers :
    /\ at'[c] = "markUsed" => at[c] = "markUsed" /\ req'[c] = req[c]
    /\ at'[c] = "sign" /\ req'[c].op = "verifyMfa" => at[c] = "sign" /\ req'[c] = req[c]

LEMMA NoNearerKeeps ==
  ASSUME CodeInv, NoNearer, UNCHANGED <<granted, raced>>, DOMAIN sessions' = DOMAIN sessions,
         \A s \in DOMAIN sessions : sessions'[s].used = sessions[s].used
  PROVE  CodeInv'
<1> SUFFICES ASSUME NEW s \in DOMAIN sessions  PROVE Once(s)'  BY DEF CodeInv
<1>1. Once(s)  BY DEF CodeInv
<1>2. \A c \in Callers : (Redeems(c, s)' => Redeems(c, s)) /\ (Signs(c, s)' => Signs(c, s))
  BY DEF NoNearer, Redeems, Signs
<1> QED  BY <1>1, <1>2 DEF Once

LEMMA SessionTypes ==
  ASSUME CallInv
  PROVE  /\ DOMAIN sessions = 1 .. Len(sessions) /\ DOMAIN granted = DOMAIN sessions
         /\ Len(sessions) \in Nat /\ Len(granted) = Len(sessions)
         /\ \A s \in DOMAIN sessions : sessions[s] \in Session /\ granted[s] \in Nat
<1>1. sessions \in Seq(Session) /\ granted \in Seq(Nat) /\ Len(granted) = Len(sessions)
  BY DEF CallInv, TypeOK, AccountsOK
<1> QED  BY <1>1, LenProperties, ElementOfSeq

LEMMA CreateSessionOnce ==
  ASSUME CallInv, CodeInv, NEW c \in Callers, CreateSession(c)
  PROVE  CodeInv'
<1> DEFINE new == [user |-> req[c].on, used |-> FALSE, fresh |-> TRUE]
           n == Len(sessions) + 1
<1>1. sessions' = Append(sessions, new) /\ granted' = Append(granted, 0) /\ raced' = raced /\ End(c)
  BY DEF CreateSession
<1>2. req[c] \in Requests /\ req[c].op = "signIn"  BY StandsAt DEF CreateSession, OpFits
<1>3. new \in Session  BY <1>2, Requesting DEF Session
<1>4. new.used = FALSE  OBVIOUS
<1> HIDE DEF new
<1>5. sessions \in Seq(Session) /\ granted \in Seq(Nat) /\ Len(granted) = Len(sessions)
  BY DEF CallInv, TypeOK, AccountsOK
<1>6. /\ DOMAIN sessions' = 1 .. n
      /\ \A s \in 1 .. Len(sessions) : sessions'[s] = sessions[s] /\ granted'[s] = granted[s]
      /\ sessions'[n] = new /\ granted'[n] = 0
  BY <1>1, <1>3, <1>5
<1>7. Rest(c) /\ at'[c] = "idle"  BY <1>1, Ended
<1>8. \A d \in Callers : \A s : (Redeems(d, s)' => Redeems(d, s)) /\ (Signs(d, s)' => Signs(d, s))
  BY <1>7 DEF Rest, Redeems, Signs
<1>9. \A d \in Callers : ~Redeems(d, n) /\ ~Signs(d, n)
  BY StandsAt, SessionTypes DEF ReadFits, Redeems, Signs
<1>10. ASSUME NEW s \in DOMAIN sessions'  PROVE Once(s)'
  <2>1. CASE s = n  BY <1>6, <1>8, <1>9, <2>1 DEF Once
  <2>2. CASE s # n
    <3>1. s \in DOMAIN sessions /\ s \in 1 .. Len(sessions)
      BY <1>5, <1>6, <1>10, <2>2, SessionTypes
    <3>2. Once(s)  BY <3>1 DEF CodeInv
    <3>3. sessions'[s] = sessions[s] /\ granted'[s] = granted[s]  BY <1>6, <3>1
    <3> QED  BY <1>1, <1>8, <3>2, <3>3 DEF Once
  <2> QED  BY <2>1, <2>2
<1> QED  BY <1>10 DEF CodeInv

LEMMA VerifyMfaOnce ==
  ASSUME CallInv, CodeInv, NEW c \in Callers, VerifyMfa(c)
  PROVE  CodeInv'
<1> DEFINE o == req[c].on
<1>1. at[c] = "verifyMfa" /\ UNCHANGED <<sessions, granted>>  BY DEF VerifyMfa
<1>2. CASE End(c) /\ raced' = raced
  <2>1. NoNearer  BY <1>2, Ended DEF NoNearer, Rest
  <2> QED  BY <1>1, <1>2, <2>1, NoNearerKeeps
<1>3. CASE ~(End(c) /\ raced' = raced)
  <2>1. /\ Redeemable(o) /\ Continue(c, "markUsed", None)
        /\ raced' = IF Redeeming(o) # {} THEN raced \cup {o} ELSE raced
    BY <1>3 DEF VerifyMfa
  <2>2. Rest(c) /\ at'[c] = "markUsed" /\ req'[c] = req[c]  BY <2>1, Moved
  <2> SUFFICES ASSUME NEW s \in DOMAIN sessions, s \notin raced'  PROVE Once(s)'
    BY <1>1 DEF CodeInv, Once
  <2>3. Once(s) /\ s \notin raced  BY <2>1 DEF CodeInv
  <2>4. \A d \in Callers : (Signs(d, s)' => Signs(d, s)) /\ (d # c /\ Redeems(d, s)' => Redeems(d, s))
    BY <2>2 DEF Rest, Signs, Redeems
  <2>5. CASE s # o
    <3>1. ~Redeems(c, s)'  BY <2>2, <2>5 DEF Redeems
    <3> QED  BY <1>1, <2>3, <2>4, <3>1 DEF Once
  <2>6. CASE s = o
    <3>1. ~sessions[s].used  BY <2>1, <2>6 DEF Redeemable
    <3>2. Redeeming(o) = {}  BY <2>1, <2>6
    <3>3. \A d \in Callers : ~Redeems(d, s)  BY <2>6, <3>2 DEF Redeeming, Redeems
    <3> QED  BY <1>1, <2>3, <2>4, <3>1, <3>3 DEF Once
  <2> QED  BY <2>5, <2>6
<1> QED  BY <1>2, <1>3

LEMMA MarkUsedOnce ==
  ASSUME CallInv, CodeInv, NEW c \in Callers, MarkUsed(c)
  PROVE  CodeInv'
<1> DEFINE o == req[c].on
           e == [sessions[o] EXCEPT !.used = TRUE]
<1>1. /\ at[c] = "markUsed" /\ Continue(c, "sign", sessions[o].user)
      /\ sessions' = [sessions EXCEPT ![o] = e] /\ UNCHANGED <<granted, raced>>
  BY DEF MarkUsed
<1>2. o \in DOMAIN sessions  BY <1>1, StandsAt DEF ReadFits
<1>3. sessions[o] \in Session  BY <1>2, SessionTypes
<1>4. e.used  BY <1>3 DEF Session
<1> HIDE DEF e
<1>5. DOMAIN sessions' = DOMAIN sessions
      /\ \A s \in DOMAIN sessions : sessions'[s] = IF s = o THEN e ELSE sessions[s]
  BY <1>1, <1>2
<1>6. Rest(c) /\ at'[c] = "sign" /\ req'[c] = req[c]  BY <1>1, Moved
<1> SUFFICES ASSUME NEW s \in DOMAIN sessions, s \notin raced  PROVE Once(s)'
  BY <1>1, <1>5 DEF CodeInv, Once
<1>7. Once(s)  BY DEF CodeInv
<1>8. \A d \in Callers : /\ Redeems(d, s)' => d # c /\ Redeems(d, s)
                         /\ d # c /\ Signs(d, s)' => Signs(d, s)
  BY <1>6 DEF Rest, Redeems, Signs
<1>9. CASE s = o
  <2>1. Redeems(c, s)  BY <1>1, <1>9 DEF Redeems
  <2>2. /\ ~sessions[s].used /\ granted[s] = 0
        /\ \A d \in Callers : ~Signs(d, s) /\ (Redeems(d, s) => d = c)
    BY <1>7, <2>1 DEF Once
  <2>3. sessions'[s].used  BY <1>4, <1>5, <1>9
  <2> QED  BY <1>1, <1>8, <2>2, <2>3 DEF Once
<1>10. CASE s # o
  <2>1. ~Signs(c, s)'  BY <1>6, <1>10 DEF Signs
  <2>2. sessions'[s] = sessions[s]  BY <1>5, <1>10
  <2> QED  BY <1>1, <1>7, <1>8, <2>1, <2>2 DEF Once
<1> QED  BY <1>9, <1>10

LEMMA SignOnce ==
  ASSUME CallInv, CodeInv, NEW c \in Callers, Sign(c)
  PROVE  CodeInv'
<1> DEFINE o == req[c].on
<1>1. at[c] = "sign" /\ End(c) /\ UNCHANGED <<sessions, raced>>  BY DEF Sign
<1>2. Rest(c) /\ at'[c] = "idle"  BY <1>1, Ended
<1>3. CASE req[c].op # "verifyMfa"
  <2>1. granted' = granted  BY <1>3 DEF Sign
  <2>2. NoNearer  BY <1>2 DEF NoNearer, Rest
  <2> QED  BY <1>1, <2>1, <2>2, NoNearerKeeps
<1>4. CASE req[c].op = "verifyMfa"
  <2>1. granted' = [granted EXCEPT ![o] = granted[o] + 1]  BY <1>4 DEF Sign
  <2>2. o \in DOMAIN sessions  BY <1>1, <1>4, StandsAt DEF ReadFits
  <2>3. \A s \in DOMAIN sessions : granted'[s] = IF s = o THEN granted[s] + 1 ELSE granted[s]
    BY <2>1, <2>2, SessionTypes
  <2> SUFFICES ASSUME NEW s \in DOMAIN sessions, s \notin raced  PROVE Once(s)'
    BY <1>1 DEF CodeInv, Once
  <2>4. Once(s)  BY DEF CodeInv
  <2>5. \A d \in Callers : /\ Redeems(d, s)' => Redeems(d, s)
                           /\ Signs(d, s)' => d # c /\ Signs(d, s)
    BY <1>2 DEF Rest, Redeems, Signs
  <2>6. CASE s = o
    <3>1. Signs(c, s)  BY <1>1, <1>4, <2>6 DEF Signs
    <3>2. /\ sessions[s].used /\ granted[s] = 0
          /\ \A d \in Callers : ~Redeems(d, s) /\ (Signs(d, s) => d = c)
      BY <2>4, <3>1 DEF Once
    <3>3. granted'[s] = 1  BY <2>3, <2>6, <3>2
    <3> QED  BY <1>1, <2>5, <3>2, <3>3 DEF Once
  <2>7. CASE s # o
    <3>1. granted'[s] = granted[s]  BY <2>3, <2>7
    <3> QED  BY <1>1, <2>4, <2>5, <3>1 DEF Once
  <2> QED  BY <2>6, <2>7
<1> QED  BY <1>3, <1>4

LEMMA CodeExpiresOnce ==
  ASSUME CallInv, CodeInv, NEW o \in DOMAIN sessions, CodeExpires(o)
  PROVE  CodeInv'
<1> DEFINE e == [sessions[o] EXCEPT !.fresh = FALSE]
<1>1. sessions' = [sessions EXCEPT ![o] = e] /\ UNCHANGED <<granted, raced, req, at>>
  BY DEF CodeExpires, callVars
<1>2. e.used = sessions[o].used  BY SessionTypes DEF Session
<1> HIDE DEF e
<1>3. /\ DOMAIN sessions' = DOMAIN sessions
      /\ \A s \in DOMAIN sessions : sessions'[s].used = sessions[s].used
  BY <1>1, <1>2
<1>4. NoNearer  BY <1>1 DEF NoNearer
<1> QED  BY <1>1, <1>3, <1>4, NoNearerKeeps

LEMMA AccessStepOnce ==
  ASSUME CallInv, CodeInv, NEW c \in Callers, AccessStep(c)
  PROVE  CodeInv'
<1>1. CASE CreateSession(c) \/ VerifyMfa(c) \/ MarkUsed(c) \/ Sign(c)
  BY <1>1, CreateSessionOnce, VerifyMfaOnce, MarkUsedOnce, SignOnce
<1>2. CASE ~(CreateSession(c) \/ VerifyMfa(c) \/ MarkUsed(c) \/ Sign(c))
  <2>1. UNCHANGED <<sessions, granted, raced>>
    BY <1>2 DEF AccessStep, Validate, SignIn, SendOtp, EnableMfa, CheckEmail, MfaOn, DisableMfa,
                CheckName, InsertUser, ReadUser, WriteUser, accountVars
  <2>2. CASE Validate(c) \/ SignIn(c)
    <3>1. at'[c] # "markUsed" /\ ~(at'[c] = "sign" /\ req'[c].op = "verifyMfa")
      <4>1. CASE Validate(c)
        <5>1. CASE End(c)  BY <5>1, Ended
        <5>2. CASE ~End(c)
          <6>1. at[c] = "validate" /\ at' = [at EXCEPT ![c] = req[c].op]  BY <4>1, <5>2 DEF Validate
          <6>2. at'[c] \in Ops  BY <6>1, StandsAt DEF CallInv, TypeOK, CallsOK
          <6> QED  BY <6>2 DEF Ops, PublicOps, OwnOps, AdminOps, CaseOps
        <5> QED  BY <5>1, <5>2
      <4>2. CASE SignIn(c)
        <5>1. at[c] = "signIn"  BY <4>2 DEF SignIn
        <5>2. req[c].op = "signIn"  BY <5>1, StandsAt DEF OpFits, Ops, PublicOps
        <5> QED  BY <4>2, <5>2, Ended, Moved DEF SignIn
      <4> QED  BY <2>2, <4>1, <4>2
    <3>2. NoNearer  BY <3>1, AccessMoves DEF NoNearer, Rest
    <3> QED  BY <2>1, <3>2, NoNearerKeeps
  <2>3. CASE ~(Validate(c) \/ SignIn(c))
    <3>1. at'[c] \notin {"markUsed", "sign"}
      <4>1. CASE SendOtp(c)  BY <4>1, Ended, Moved DEF SendOtp
      <4>2. CASE EnableMfa(c) \/ CheckEmail(c)  BY <4>2, Ended, Moved DEF EnableMfa, CheckEmail
      <4>3. CASE MfaOn(c) \/ DisableMfa(c) \/ InsertUser(c) \/ WriteUser(c)
        BY <4>3, Ended DEF MfaOn, DisableMfa, InsertUser, WriteUser
      <4>4. CASE CheckName(c) \/ ReadUser(c)  BY <4>4, Ended, Moved DEF CheckName, ReadUser
      <4> QED  BY <1>2, <2>3, <4>1, <4>2, <4>3, <4>4 DEF AccessStep
    <3>2. NoNearer  BY <3>1, AccessMoves DEF NoNearer, Rest
    <3> QED  BY <2>1, <3>2, NoNearerKeeps
  <2> QED  BY <2>2, <2>3
<1> QED  BY <1>1, <1>2

LEMMA NextOnce ==
  ASSUME CallInv, CodeInv, [Next]_vars
  PROVE  CodeInv'
<1>1. ASSUME NEW c \in Callers, AccessStep(c)  PROVE CodeInv'  BY <1>1, AccessStepOnce
<1>2. ASSUME NEW s \in DOMAIN sessions, CodeExpires(s)  PROVE CodeInv'  BY <1>2, CodeExpiresOnce
<1>3. CASE ~((\E c \in Callers : AccessStep(c)) \/ (\E s \in DOMAIN sessions : CodeExpires(s)))
  <2>1. UNCHANGED <<sessions, granted, raced>>
    BY <1>3, CaseRows
    DEF Next, AccessNext, Arrive, TokenExpires, Throws, SoarResolves, Restart, RestartCalls,
        vars, accessVars, accountVars
  <2>2. NoNearer
    <3>1. ASSUME NEW c \in Callers, NEW r \in Requests, Arrive(c, r)  PROVE NoNearer
      BY <3>1, ArriveMoves DEF NoNearer, Rest, PublicOps
    <3>2. ASSUME NEW c \in Callers, CaseStep(c)  PROVE NoNearer
      BY <3>2, CaseMoves DEF NoNearer, Rest, CaseAwaits, Steps, AccessSteps
    <3>3. ASSUME NEW c \in Callers, Throws(c)  PROVE NoNearer
      BY <3>3, Ended DEF Throws, NoNearer, Rest
    <3>4. CASE Restart  BY <3>4 DEF Restart, RestartCalls, NoNearer
    <3>5. CASE UNCHANGED <<at, req>>  BY <3>5 DEF NoNearer
    <3> QED
      BY <1>3, <3>1, <3>2, <3>3, <3>4, <3>5
      DEF Next, AccessNext, TokenExpires, SoarResolves, vars, accessVars, callVars
  <2> QED  BY <2>1, <2>2, NoNearerKeeps
<1> QED  BY <1>1, <1>2, <1>3

\* verifyOtp checks a code and marks it used in two writes: it still gives
\* one token, unless two requests were between check and mark at once, for
\* any number of codes and requests, with failures and restarts.
THEOREM CodesGrantOnce == Spec => []CodeGrantsOnce
<1>1. Init => CodeInv  BY DEF Init, AccessInit, CodeInv
<1>2. CodeInv /\ CallInv /\ [Next]_vars => CodeInv'  BY NextOnce
<1>3. CodeInv => CodeGrantsOnce  BY DEF CodeInv, Once, CodeGrantsOnce
<1>4. Spec => []CallInv  BY InitFits, StepFitsAll, PTL DEF Spec
<1> QED  BY <1>1, <1>2, <1>3, <1>4, PTL DEF Spec
-----------------------------------------------------------------------------
(* Links between flagged events. *)

Joins(l) == flags[ById(l[1])] = l[1] /\ flags[ById(l[2])] = l[2]

\* A request that is to insert a link.
Inserting(c) == at[c] = "insertLink"

LinkInv ==
  /\ \A h \in Hashes : flags[h] # None => ById(flags[h]) = h
  /\ \A l \in links : Joins(l)
  /\ \A l \in links : Swap(l) \in links => l[1] = l[2] \/ l \in crossed
  /\ \A p \in crossed : Swap(p) \in crossed
  /\ \A c \in Callers : Inserting(c) /\ Linked(seen[c]) => seen[c] \in crossed
  /\ \A c, d \in Callers :
        Inserting(c) /\ Inserting(d) /\ c # d /\ seen[d] \in {seen[c], Swap(seen[c])}
          => seen[c] \in crossed

\* No more requests are to insert a link than before.
NoMoreInserting == \A c \in Callers : Inserting(c)' => Inserting(c) /\ seen'[c] = seen[c]

LEMMA SwapPair ==
  ASSUME NEW p \in Ids \X Ids
  PROVE  /\ Swap(p) \in Ids \X Ids /\ Swap(Swap(p)) = p
         /\ Swap(p)[1] = p[2] /\ Swap(p)[2] = p[1]
         /\ p[1] \in Ids /\ p[2] \in Ids /\ p = <<p[1], p[2]>>
  BY DEF Swap

LEMMA IdHash ==
  ASSUME NEW id \in Ids
  PROVE  ById(id) \in Hashes /\ id # None
  BY CaseworkAssumption DEF Ids, ById

LEMMA LinksRest ==
  ASSUME LinkInv, NoMoreInserting, UNCHANGED <<flags, links, crossed>>
  PROVE  LinkInv'
<1>1. \A c \in Callers : Inserting(c)' /\ Linked(seen[c])' => seen'[c] \in crossed'
  BY DEF LinkInv, NoMoreInserting, Linked, Swap
<1>2. \A c, d \in Callers :
        Inserting(c)' /\ Inserting(d)' /\ c # d /\ seen'[d] \in {seen'[c], Swap(seen'[c])}
          => seen'[c] \in crossed'
  BY DEF LinkInv, NoMoreInserting
<1> QED  BY <1>1, <1>2 DEF LinkInv, Joins, Swap

LEMMA InsertFlagLinks ==
  ASSUME CallInv, LinkInv, NEW c \in Callers, InsertFlag(c)
  PROVE  LinkInv'
<1> DEFINE h == req[c].on
           new == Id(h, made[h] + 1)
<1>1. at[c] = "insertFlag" /\ End(c) /\ UNCHANGED <<links, crossed>>  BY DEF InsertFlag
<1>2. NoMoreInserting  BY <1>1, Ended DEF NoMoreInserting, Inserting, Rest
<1>3. CASE flags[h] # None
  <2>1. flags' = flags  BY <1>3 DEF InsertFlag
  <2> QED  BY <1>1, <1>2, <2>1, LinksRest
<1>4. CASE flags[h] = None
  <2>1. flags' = [flags EXCEPT ![h] = new]  BY <1>4 DEF InsertFlag
  <2>2. ById(new) = h  BY DEF ById, Id
  <2> HIDE DEF new
  <2>3. flags \in [Hashes -> Ids \cup {None}] /\ links \subseteq Ids \X Ids
    BY DEF CallInv, TypeOK, CasesOK
  <2>4. \A k \in Hashes : flags'[k] # None => ById(flags'[k]) = k  BY <2>1, <2>2, <2>3 DEF LinkInv
  <2>5. ASSUME NEW l \in links  PROVE Joins(l)'
    <3>1. Joins(l) /\ l[1] \in Ids /\ l[2] \in Ids  BY <2>3, SwapPair DEF LinkInv
    <3>2. ById(l[1]) \in Hashes \ {h} /\ ById(l[2]) \in Hashes \ {h}  BY <1>4, <3>1, IdHash DEF Joins
    <3> QED  BY <2>1, <2>3, <3>1, <3>2 DEF Joins
  <2>6. \A d \in Callers : Inserting(d)' /\ Linked(seen[d])' => seen'[d] \in crossed'
    BY <1>1, <1>2 DEF LinkInv, NoMoreInserting, Linked, Swap
  <2>7. \A d, e \in Callers :
          Inserting(d)' /\ Inserting(e)' /\ d # e /\ seen'[e] \in {seen'[d], Swap(seen'[d])}
            => seen'[d] \in crossed'
    BY <1>1, <1>2 DEF LinkInv, NoMoreInserting
  <2> QED  BY <1>1, <2>4, <2>5, <2>6, <2>7 DEF LinkInv, Swap
<1> QED  BY <1>3, <1>4

LEMMA WriteFlagLinks ==
  ASSUME CallInv, LinkInv, NEW c \in Callers, WriteFlag(c)
  PROVE  LinkInv'
<1> DEFINE h == req[c].on
           id == seen[c]
<1>1. at[c] = "writeFlag" /\ End(c) /\ crossed' = crossed  BY DEF WriteFlag
<1>2. NoMoreInserting  BY <1>1, Ended DEF NoMoreInserting, Inserting, Rest
<1>3. CASE UNCHANGED <<flags, links>>  BY <1>1, <1>2, <1>3, LinksRest
<1>4. CASE ~UNCHANGED <<flags, links>>
  <2>1. flags[h] = id /\ flags' = [flags EXCEPT ![h] = None] /\ links' = LinksWithout(id)
    BY <1>4 DEF WriteFlag
  <2>2. req[c] \in Requests /\ req[c].op \in {"flag", "unflag", "updateFlag"} /\ id \in Ids
    BY <1>1, StandsAt DEF OpFits, ReadFits
  <2>3. h \in Hashes /\ ById(id) = h  BY <2>1, <2>2, Requesting, IdHash DEF LinkInv
  <2>4. flags \in [Hashes -> Ids \cup {None}] /\ links \subseteq Ids \X Ids
    BY DEF CallInv, TypeOK, CasesOK
  <2>5. links' \subseteq links /\ \A l \in links' : l[1] # id /\ l[2] # id  BY <2>1 DEF LinksWithout
  <2>6. \A k \in Hashes : flags'[k] # None => ById(flags'[k]) = k  BY <2>1, <2>4 DEF LinkInv
  <2>7. ASSUME NEW l \in links'  PROVE Joins(l)'
    <3>1. Joins(l) /\ l[1] \in Ids /\ l[2] \in Ids  BY <2>4, <2>5, SwapPair DEF LinkInv
    <3>2. ById(l[1]) \in Hashes \ {h} /\ ById(l[2]) \in Hashes \ {h}
      BY <2>1, <2>5, <3>1, IdHash DEF Joins
    <3> QED  BY <2>1, <2>4, <3>1, <3>2 DEF Joins
  <2>8. \A d \in Callers : Inserting(d)' /\ Linked(seen[d])' => seen'[d] \in crossed'
    BY <1>1, <1>2, <2>5 DEF LinkInv, NoMoreInserting, Linked, Swap
  <2>9. \A d, e \in Callers :
          Inserting(d)' /\ Inserting(e)' /\ d # e /\ seen'[e] \in {seen'[d], Swap(seen'[d])}
            => seen'[d] \in crossed'
    BY <1>1, <1>2 DEF LinkInv, NoMoreInserting
  <2> QED  BY <1>1, <2>5, <2>6, <2>7, <2>8, <2>9 DEF LinkInv, Swap
<1> QED  BY <1>3, <1>4

LEMMA FindLinkLinks ==
  ASSUME CallInv, LinkInv, NEW c \in Callers, FindLink(c)
  PROVE  LinkInv'
<1> DEFINE pair == seen[c]
<1>1. at[c] = "findLink" /\ UNCHANGED <<flags, links>>  BY DEF FindLink
<1>2. CASE End(c) /\ crossed' = crossed
  <2>1. NoMoreInserting  BY <1>2, Ended DEF NoMoreInserting, Inserting, Rest
  <2> QED  BY <1>1, <1>2, <2>1, LinksRest
<1>3. CASE ~(End(c) /\ crossed' = crossed)
  <2>1. /\ ~Linked(pair) /\ Continue(c, "insertLink", pair)
        /\ crossed' = IF Linking(pair) = {} THEN crossed ELSE crossed \cup {pair, Swap(pair)}
    BY <1>3 DEF FindLink
  <2>2. Rest(c) /\ at'[c] = "insertLink" /\ seen'[c] = pair  BY <2>1, Moved
  <2>3. pair \in Ids \X Ids  BY <1>1, StandsAt DEF ReadFits
  <2>4. \A d \in Callers \ {c} : seen'[d] = seen[d] /\ (Inserting(d)' => Inserting(d))
    BY <2>2 DEF Rest, Inserting
  <2>5. crossed \subseteq crossed'  BY <2>1
  <2>6. \A p \in crossed' : Swap(p) \in crossed'  BY <2>1, <2>3, SwapPair DEF LinkInv
  <2>7. ASSUME NEW d \in Callers, Inserting(d)', Linked(seen[d])'  PROVE seen'[d] \in crossed'
    <3>1. Linked(seen'[d])  BY <1>1, <2>7 DEF Linked, Swap
    <3>2. d # c  BY <2>1, <2>2, <3>1
    <3> QED  BY <2>4, <2>5, <2>7, <3>1, <3>2 DEF LinkInv
  <2>8. ASSUME NEW d \in Callers \ {c}, Inserting(d)', seen'[d] \in {pair, Swap(pair)}
        PROVE  seen'[d] \in crossed' /\ pair \in crossed'
    <3>1. d \in Linking(pair)  BY <2>4, <2>8 DEF Linking, Inserting
    <3>2. crossed' = crossed \cup {pair, Swap(pair)}  BY <2>1, <3>1
    <3> QED  BY <2>8, <3>2
  <2>9. ASSUME NEW d \in Callers, NEW e \in Callers, Inserting(d)', Inserting(e)', d # e,
               seen'[e] \in {seen'[d], Swap(seen'[d])}
        PROVE  seen'[d] \in crossed'
    <3>1. CASE d = c  BY <2>2, <2>8, <2>9, <3>1
    <3>2. CASE e = c
      <4>1. seen[d] = seen'[d] /\ Inserting(d)  BY <2>4, <2>9, <3>2
      <4>2. seen[d] \in Ids \X Ids  BY <4>1, StandsAt DEF ReadFits, Inserting
      <4>3. seen'[d] \in {pair, Swap(pair)}  BY <2>2, <2>9, <3>2, <4>1, <4>2, SwapPair
      <4> QED  BY <2>8, <2>9, <3>2, <4>3
    <3>3. CASE d # c /\ e # c  BY <2>4, <2>5, <2>9, <3>3 DEF LinkInv
    <3> QED  BY <3>1, <3>2, <3>3
  <2>10. \A l \in links : Joins(l)'  BY <1>1 DEF LinkInv, Joins
  <2>11. \A l \in links : Swap(l) \in links => l[1] = l[2] \/ l \in crossed'  BY <2>5 DEF LinkInv
  <2> QED  BY <1>1, <2>6, <2>7, <2>9, <2>10, <2>11 DEF LinkInv, Swap
<1> QED  BY <1>2, <1>3

LEMMA InsertLinkLinks ==
  ASSUME CallInv, LinkInv, NEW c \in Callers, InsertLink(c)
  PROVE  LinkInv'
<1> DEFINE pair == seen[c]
<1>1. at[c] = "insertLink" /\ End(c) /\ UNCHANGED <<flags, crossed>>  BY DEF InsertLink
<1>2. Rest(c) /\ at'[c] = "idle"  BY <1>1, Ended
<1>3. NoMoreInserting  BY <1>2 DEF NoMoreInserting, Inserting, Rest
<1>4. CASE links' = links  BY <1>1, <1>3, <1>4, LinksRest
<1>5. CASE links' # links
  <2>1. /\ links' = links \cup {pair} /\ pair \notin links
        /\ \A id \in {pair[1], pair[2]} : flags[ById(id)] = id
    BY <1>5 DEF InsertLink
  <2>2. pair \in Ids \X Ids /\ links \subseteq Ids \X Ids
    BY <1>1, StandsAt DEF ReadFits, CallInv, TypeOK, CasesOK
  <2>3. \A l \in links' : Joins(l)'  BY <1>1, <2>1 DEF LinkInv, Joins
  <2>4. ASSUME NEW l \in links', Swap(l) \in links'  PROVE l[1] = l[2] \/ l \in crossed'
    <3>1. l \in Ids \X Ids  BY <2>1, <2>2
    <3>2. CASE l \in links /\ Swap(l) \in links  BY <1>1, <3>2 DEF LinkInv
    <3>3. CASE l = pair /\ Swap(l) \in links
      <4>1. Linked(pair) /\ Inserting(c)  BY <1>1, <3>3 DEF Linked, Inserting
      <4> QED  BY <1>1, <3>3, <4>1 DEF LinkInv
    <3>4. CASE Swap(l) = pair /\ l \in links
      <4>1. Swap(pair) = l  BY <3>1, <3>4, SwapPair
      <4>2. Linked(pair) /\ Inserting(c)  BY <1>1, <3>4, <4>1 DEF Linked, Inserting
      <4>3. pair \in crossed  BY <4>2 DEF LinkInv
      <4> QED  BY <1>1, <4>1, <4>3 DEF LinkInv
    <3>5. CASE l = pair /\ Swap(l) = pair
      <4>1. l[1] = l[2]  BY <3>1, <3>5, SwapPair
      <4> QED  BY <4>1
    <3> QED  BY <2>1, <2>4, <3>2, <3>3, <3>4, <3>5
  <2>5. ASSUME NEW d \in Callers, Inserting(d)', Linked(seen[d])'  PROVE seen'[d] \in crossed'
    <3>1. Inserting(d) /\ seen'[d] = seen[d] /\ d # c  BY <1>2, <1>3, <2>5 DEF NoMoreInserting, Inserting
    <3>2. seen[d] \in Ids \X Ids  BY <3>1, StandsAt DEF ReadFits, Inserting
    <3>3. seen[d] \in links' \/ Swap(seen[d]) \in links'  BY <2>5, <3>1 DEF Linked, Swap
    <3>4. CASE Linked(seen[d])  BY <1>1, <3>1, <3>4 DEF LinkInv
    <3>5. CASE pair \in {seen[d], Swap(seen[d])}
      <4>1. Inserting(c)  BY <1>1 DEF Inserting
      <4> QED  BY <1>1, <3>1, <3>5, <4>1 DEF LinkInv
    <3> QED  BY <2>1, <3>3, <3>4, <3>5 DEF Linked
  <2>6. \A d, e \in Callers :
          Inserting(d)' /\ Inserting(e)' /\ d # e /\ seen'[e] \in {seen'[d], Swap(seen'[d])}
            => seen'[d] \in crossed'
    BY <1>1, <1>3 DEF LinkInv, NoMoreInserting
  <2> QED  BY <1>1, <2>3, <2>4, <2>5, <2>6 DEF LinkInv, Swap
<1> QED  BY <1>4, <1>5

\* The other steps.
LEMMA OtherLinks ==
  ASSUME CallInv, LinkInv, [Next]_vars,
         ~\E c \in Callers : InsertFlag(c) \/ WriteFlag(c) \/ FindLink(c) \/ InsertLink(c)
  PROVE  LinkInv'
<1>1. UNCHANGED <<flags, links, crossed>>
  BY DEF Next, CaseStep, ReadIncident, WriteIncident, AuditUpdate, FindFlag, FindFrom, FindTo,
         SoarResolves, Restart, vars, caseVars, flagVars
<1>2. NoMoreInserting
  <2>1. ASSUME NEW c \in Callers, NEW r \in Requests, Arrive(c, r)  PROVE NoMoreInserting
    BY <2>1, ArriveMoves DEF NoMoreInserting, Inserting, Rest, PublicOps
  <2>2. ASSUME NEW c \in Callers, AccessStep(c)  PROVE NoMoreInserting
    <3>1. at'[c] # "insertLink"
      BY <2>2, AccessMoves DEF AccessSteps, Ops, PublicOps, OwnOps, AdminOps, CaseOps
    <3> QED  BY <2>2, <3>1, AccessMoves DEF NoMoreInserting, Inserting, Rest
  <2>3. ASSUME NEW c \in Callers, CaseStep(c)  PROVE NoMoreInserting
    <3>1. at'[c] # "insertLink"
      <4>1. CASE ReadIncident(c) \/ WriteIncident(c) \/ FindFrom(c)
        BY <4>1, Moved DEF ReadIncident, WriteIncident, FindFrom
      <4>2. CASE AuditUpdate(c)  BY <4>2, Ended DEF AuditUpdate
      <4>3. CASE FindFlag(c) \/ FindTo(c)  BY <4>3, Ended, Moved DEF FindFlag, FindTo
      <4> QED  BY <2>3, <4>1, <4>2, <4>3 DEF CaseStep
    <3> QED  BY <2>3, <3>1, CaseMoves DEF NoMoreInserting, Inserting, Rest
  <2>4. ASSUME NEW c \in Callers, Throws(c)  PROVE NoMoreInserting
    BY <2>4, Ended DEF Throws, NoMoreInserting, Inserting, Rest
  <2>5. CASE Restart  BY <2>5 DEF Restart, RestartCalls, NoMoreInserting, Inserting
  <2>6. CASE UNCHANGED <<at, seen>>  BY <2>6 DEF NoMoreInserting, Inserting
  <2> QED
    BY <2>1, <2>2, <2>3, <2>4, <2>5, <2>6
    DEF Next, AccessNext, TokenExpires, CodeExpires, SoarResolves, vars, accessVars, callVars
<1> QED  BY <1>1, <1>2, LinksRest

\* Links join rows that exist, and link() creates one per pair, unless two
\* requests both looked before either inserted: any analysts, events and
\* removals in between.
THEOREM LinksAreOnce == Spec => []LinkedOnce
<1>1. Init => LinkInv
  BY DEF Init, AccessInit, LinkInv, Inserting, Id, ById
<1>2. LinkInv /\ CallInv /\ [Next]_vars => LinkInv'
  BY InsertFlagLinks, WriteFlagLinks, FindLinkLinks, InsertLinkLinks, OtherLinks
<1>3. LinkInv => LinkedOnce  BY DEF LinkInv, Joins, LinkedOnce
<1>4. Spec => []CallInv  BY InitFits, StepFitsAll, PTL DEF Spec
<1> QED  BY <1>1, <1>2, <1>3, <1>4, PTL DEF Spec
-----------------------------------------------------------------------------
(* The audit trail of the incident. *)

\* What the trail tells.
Told == IF trail = <<>> THEN "OPEN" ELSE Last(trail).new

Chained == \A i \in 2..Len(trail) : trail[i].old = trail[i - 1].new

\* What an update under way knows: the status it read is the one told, and
\* after its write only its own change is missing from the trail.
UpdateKnows(c) ==
  /\ at[c] = "writeIncident" => seen[c] = status /\ status = Told
  /\ at[c] = "audit" =>
       seen[c] = Told /\ status = IF req[c].val = None THEN seen[c] ELSE req[c].val

TrailInv ==
  ~muddled =>
    /\ Chained
    /\ \A c, d \in Callers : c \in Updating /\ d \in Updating => c = d
    /\ \A c \in Callers : UpdateKnows(c)
    /\ (\A c \in Callers : at[c] # "audit") => status = Told

\* No update begins, and none is lost before its row is written.
SameUpdates ==
  \A c \in Callers :
    /\ c \in Updating' => at'[c] = at[c] /\ req'[c] = req[c] /\ seen'[c] = seen[c]
    /\ at[c] = "audit" => at'[c] = "audit"

LEMMA TrailRests ==
  ASSUME TrailInv, SameUpdates, UNCHANGED <<status, trail, muddled>>
  PROVE  TrailInv'
<1> SUFFICES ASSUME ~muddled  PROVE TrailInv'  BY DEF TrailInv
<1>1. \A c \in Callers : c \in Updating' => c \in Updating  BY DEF SameUpdates, Updating
<1>2. Told' = Told /\ (Chained' <=> Chained)  BY DEF Told, Chained
<1>3. ASSUME NEW c \in Callers  PROVE UpdateKnows(c)'
  <2>1. CASE at'[c] \in {"writeIncident", "audit"}
    <3>1. at'[c] = at[c] /\ req'[c] = req[c] /\ seen'[c] = seen[c]
      BY <2>1 DEF SameUpdates, Updating
    <3> QED  BY <1>2, <3>1 DEF TrailInv, UpdateKnows
  <2>2. CASE at'[c] \notin {"writeIncident", "audit"}  BY <2>2 DEF UpdateKnows
  <2> QED  BY <2>1, <2>2
<1>4. (\A c \in Callers : at'[c] # "audit") => (\A c \in Callers : at[c] # "audit")
  BY DEF SameUpdates
<1> QED  BY <1>1, <1>2, <1>3, <1>4 DEF TrailInv

LEMMA ReadIncidentTrail ==
  ASSUME CallInv, TrailInv, NEW c \in Callers, ReadIncident(c)
  PROVE  TrailInv'
<1> SUFFICES ASSUME ~muddled'  PROVE TrailInv'  BY DEF TrailInv
<1>1. /\ at[c] = "updateIncident" /\ Continue(c, "writeIncident", status)
      /\ UNCHANGED <<status, trail>> /\ ~muddled /\ Updating = {}
  BY DEF ReadIncident
<1>2. Rest(c) /\ at'[c] = "writeIncident" /\ seen'[c] = status  BY <1>1, Moved
<1>3. \A d \in Callers : at[d] \notin {"writeIncident", "audit"}  BY <1>1 DEF Updating
<1>4. status = Told /\ Chained  BY <1>1, <1>3 DEF TrailInv
<1>5. \A d \in Callers \ {c} : at'[d] \notin {"writeIncident", "audit"}  BY <1>2, <1>3 DEF Rest
<1>6. Told' = Told /\ Chained' /\ status' = status  BY <1>1, <1>4 DEF Told, Chained
<1>7. \A d \in Callers : UpdateKnows(d)'  BY <1>2, <1>4, <1>5, <1>6 DEF UpdateKnows
<1>8. \A d, e \in Callers : d \in Updating' /\ e \in Updating' => d = e  BY <1>5 DEF Updating
<1> QED  BY <1>4, <1>6, <1>7, <1>8 DEF TrailInv

\* The only update under way is the one that takes a step.
LEMMA OneUpdate ==
  ASSUME TrailInv, ~muddled, NEW c \in Callers, c \in Updating, Rest(c)
  PROVE  \A d \in Callers \ {c} : /\ at[d] \notin {"writeIncident", "audit"}
                                  /\ at'[d] \notin {"writeIncident", "audit"}
  BY DEF TrailInv, Updating, Rest

LEMMA WriteIncidentTrail ==
  ASSUME CallInv, TrailInv, NEW c \in Callers, WriteIncident(c)
  PROVE  TrailInv'
<1> SUFFICES ASSUME ~muddled'  PROVE TrailInv'  BY DEF TrailInv
<1>1. /\ at[c] = "writeIncident" /\ Continue(c, "audit", seen[c])
      /\ status' = (IF req[c].val = None THEN status ELSE req[c].val)
      /\ UNCHANGED <<trail, muddled>>
  BY DEF WriteIncident
<1>2. /\ Rest(c) /\ at'[c] = "audit" /\ seen'[c] = seen[c] /\ req'[c] = req[c]
  BY <1>1, Moved
<1>3. c \in Updating  BY <1>1 DEF Updating
<1>4. \A d \in Callers \ {c} : at'[d] \notin {"writeIncident", "audit"}
  BY <1>1, <1>2, <1>3, OneUpdate
<1>5. seen[c] = status /\ status = Told /\ Chained  BY <1>1 DEF TrailInv, UpdateKnows
<1>6. Told' = Told /\ Chained'  BY <1>1, <1>5 DEF Told, Chained
<1>7. \A d \in Callers : UpdateKnows(d)'  BY <1>1, <1>2, <1>4, <1>5, <1>6 DEF UpdateKnows
<1>8. \A d, e \in Callers : d \in Updating' /\ e \in Updating' => d = e  BY <1>4 DEF Updating
<1> QED  BY <1>2, <1>6, <1>7, <1>8 DEF TrailInv

LEMMA AuditUpdateTrail ==
  ASSUME CallInv, TrailInv, NEW c \in Callers, AuditUpdate(c)
  PROVE  TrailInv'
<1> DEFINE entry == [old |-> seen[c], new |-> req[c].val]
           Entry == [old : Statuses, new : Statuses]
<1> SUFFICES ASSUME ~muddled'  PROVE TrailInv'  BY DEF TrailInv
<1>1. /\ at[c] = "audit" /\ End(c) /\ status' = status /\ ~muddled
      /\ trail' = IF req[c].val \in {None, seen[c]} THEN trail ELSE Append(trail, entry)
  BY DEF AuditUpdate
<1>2. Rest(c) /\ at'[c] = "idle"  BY <1>1, Ended
<1>3. c \in Updating  BY <1>1 DEF Updating
<1>4. \A d \in Callers : at'[d] \notin {"writeIncident", "audit"}
  BY <1>1, <1>2, <1>3, OneUpdate
<1>5. Chained /\ seen[c] = Told /\ status = IF req[c].val = None THEN seen[c] ELSE req[c].val
  BY <1>1 DEF TrailInv, UpdateKnows
<1>6. Chained' /\ status' = Told'
  <2>1. CASE req[c].val \in {None, seen[c]}
    <3>1. trail' = trail  BY <1>1, <2>1
    <3> QED  BY <1>1, <1>5, <2>1, <3>1 DEF Told, Chained
  <2>2. CASE req[c].val \notin {None, seen[c]}
    <3>1. req[c] \in Requests /\ req[c].op = "updateIncident" /\ seen[c] \in Statuses
      BY <1>1, StandsAt DEF OpFits, ReadFits
    <3>2. entry \in Entry /\ entry.old = Told /\ entry.new = status
      BY <1>5, <2>2, <3>1, Requesting
    <3>3. trail \in Seq(Entry)  BY DEF CallInv, TypeOK, CasesOK
    <3>4. trail' = Append(trail, entry)  BY <1>1, <2>2
    <3> HIDE DEF entry, Entry
    <3>5. /\ Len(trail) \in Nat /\ Len(trail') = Len(trail) + 1 /\ trail' # <<>>
          /\ trail'[Len(trail) + 1] = entry
          /\ \A i \in 1..Len(trail) : trail'[i] = trail[i]
          /\ Len(trail) = 0 <=> trail = <<>>
      BY <3>2, <3>3, <3>4, EmptySeq
    <3>6. Told' = status'  BY <1>1, <3>2, <3>5 DEF Told, Last
    <3>7. ASSUME NEW i \in 2..Len(trail')  PROVE trail'[i].old = trail'[i - 1].new
      <4>1. CASE i \in 2..Len(trail)
        <5>1. i \in 1..Len(trail) /\ i - 1 \in 1..Len(trail)  BY <3>5, <4>1
        <5>2. trail'[i] = trail[i] /\ trail'[i - 1] = trail[i - 1]  BY <3>5, <5>1
        <5> QED  BY <1>5, <4>1, <5>2 DEF Chained
      <4>2. CASE i = Len(trail) + 1
        <5>1. Len(trail) # 0 /\ i - 1 = Len(trail) /\ i - 1 \in 1..Len(trail)  BY <3>5, <3>7, <4>2
        <5>2. trail'[i] = entry /\ trail'[i - 1] = trail[Len(trail)]  BY <3>5, <4>2, <5>1
        <5>3. Told = trail[Len(trail)].new  BY <3>5, <5>1 DEF Told, Last
        <5> QED  BY <3>2, <5>2, <5>3
      <4> QED  BY <3>5, <3>7, <4>1, <4>2
    <3> QED  BY <3>6, <3>7 DEF Chained
  <2> QED  BY <2>1, <2>2
<1>7. \A d \in Callers : UpdateKnows(d)' /\ d \notin Updating'  BY <1>4 DEF UpdateKnows, Updating
<1> QED  BY <1>6, <1>7 DEF TrailInv

LEMMA OtherTrail ==
  ASSUME CallInv, TrailInv, [Next]_vars,
         ~\E c \in Callers : ReadIncident(c) \/ WriteIncident(c) \/ AuditUpdate(c)
  PROVE  TrailInv'
<1>1. CASE SoarResolves  BY <1>1 DEF SoarResolves, TrailInv
<1>2. CASE Restart
  <2> SUFFICES ASSUME ~muddled'  PROVE TrailInv'  BY DEF TrailInv
  <2>1. ~muddled /\ UNCHANGED <<status, trail>> /\ \A c \in Callers : at[c] # "audit" /\ at'[c] = "idle"
    BY <1>2 DEF Restart, RestartCalls
  <2>2. Told' = Told /\ (Chained' <=> Chained)  BY <2>1 DEF Told, Chained
  <2> QED  BY <2>1, <2>2 DEF TrailInv, UpdateKnows, Updating
<1>3. CASE ~SoarResolves /\ ~Restart
  <2>1. UNCHANGED <<status, trail, muddled>>
    BY <1>3 DEF Next, CaseStep, FindFlag, InsertFlag, WriteFlag, FindFrom, FindTo, FindLink, InsertLink,
                vars, caseVars, incidentVars
  <2>2. SameUpdates
    <3>1. ASSUME NEW c \in Callers, NEW r \in Requests, Arrive(c, r)  PROVE SameUpdates
      BY <3>1, ArriveMoves DEF SameUpdates, Updating, Rest, PublicOps
    <3>2. ASSUME NEW c \in Callers, AccessStep(c)  PROVE SameUpdates
      <4>1. at[c] # "audit" /\ at'[c] \notin {"writeIncident", "audit"}
        BY <3>2, AccessMoves DEF AccessSteps, Ops, PublicOps, OwnOps, AdminOps, CaseOps
      <4> QED  BY <3>2, <4>1, AccessMoves DEF SameUpdates, Updating, Rest
    <3>3. ASSUME NEW c \in Callers, CaseStep(c)  PROVE SameUpdates
      <4>1. at[c] # "audit" /\ at'[c] \notin {"writeIncident", "audit"}
        <5>1. CASE FindFlag(c)  BY <5>1, Ended, Moved DEF FindFlag
        <5>2. CASE InsertFlag(c) \/ WriteFlag(c) \/ InsertLink(c)
          BY <5>2, Ended DEF InsertFlag, WriteFlag, InsertLink
        <5>3. CASE FindFrom(c)  BY <5>3, Moved DEF FindFrom
        <5>4. CASE FindTo(c)  BY <5>4, Ended, Moved DEF FindTo
        <5>5. CASE FindLink(c)  BY <5>5, Ended, Moved DEF FindLink
        <5> QED  BY <3>3, <5>1, <5>2, <5>3, <5>4, <5>5 DEF CaseStep
      <4> QED  BY <3>3, <4>1, CaseMoves DEF SameUpdates, Updating, Rest
    <3>4. ASSUME NEW c \in Callers, Throws(c)  PROVE SameUpdates
      BY <3>4, Ended DEF Throws, SameUpdates, Updating, Rest
    <3>5. CASE UNCHANGED callVars  BY <3>5 DEF SameUpdates, Updating, callVars
    <3> QED
      BY <1>3, <3>1, <3>2, <3>3, <3>4, <3>5
      DEF Next, AccessNext, TokenExpires, CodeExpires, vars, accessVars
  <2> QED  BY <2>1, <2>2, TrailRests
<1> QED  BY <1>1, <1>2, <1>3

\* The audit trail of an incident is its history, except after a run of the
\* SOAR, a lost row or two overlapping updates: any number of analysts and
\* updates, with refusals, failures and restarts.
THEOREM TrailTells == Spec => []TrailTellsStatus
<1>1. Init => TrailInv
  BY DEF Init, AccessInit, TrailInv, Chained, Updating, UpdateKnows, Told
<1>2. TrailInv /\ CallInv /\ [Next]_vars => TrailInv'
  BY ReadIncidentTrail, WriteIncidentTrail, AuditUpdateTrail, OtherTrail
<1>3. TrailInv => TrailTellsStatus  BY DEF TrailInv, Chained, Told, TrailTellsStatus
<1>4. Spec => []CallInv  BY InitFits, StepFitsAll, PTL DEF Spec
<1> QED  BY <1>1, <1>2, <1>3, <1>4, PTL DEF Spec
=============================================================================
