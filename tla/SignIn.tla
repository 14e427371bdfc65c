------------------------------- MODULE SignIn -------------------------------
(***************************************************************************)
(* Proving who somebody is: the mailed code and the provider's redirect    *)
(* (auth.js, lib/auth/session.js, lib/auth/oauth.js), and finding or       *)
(* making the user (resolveIdentity of lib/identity.js).                   *)
(***************************************************************************)
EXTENDS RefreshSessions, StartEmailLimit

PutCode(r, from, to, k, rec) ==
    /\ Goto(r, from, to)
    /\ codes' = [codes EXCEPT ![k] = rec]
    /\ UNCHANGED <<people, seats, post, time, device, given>>

-----------------------------------------------------------------------------
(* startEmail: codes that expired are swept, one read each, the new code is *)
(* stored, and the mail is sent if the limits allow it.                     *)
SweepList(r) ==
    /\ Goto(r, "sweep_list", "sweep")
    /\ Holds(r, [mem[r] EXCEPT !.todo = {k \in Codes : codes[k] # Absent}])
    /\ Reads

SweepRead(r) ==
    \E k \in mem[r].todo :
        LET over == codes[k] # Absent /\ k \in lapsed
        IN  /\ Goto(r, "sweep", IF over THEN "sweep_drop" ELSE "sweep")
            /\ Holds(r, [mem[r] EXCEPT !.todo = @ \ {k}, !.at = k])
            /\ Reads

SweepDrop(r) == PutCode(r, "sweep_drop", "sweep", mem[r].at, Absent) /\ UNCHANGED mem

StartChallenge(r) ==
    /\ mem[r].todo = {}
    /\ PutCode(r, "sweep", "source", call[r].parks,
               [email |-> call[r].email, attempts |-> 0, gives |-> Absent])
    /\ UNCHANGED mem

StartEmail(r) == SweepList(r) \/ SweepRead(r) \/ SweepDrop(r) \/ StartChallenge(r) \/ StartLimited(r)

-----------------------------------------------------------------------------
(* redeemChallenge: one read, a verdict, one write.                         *)
(* Bug: the last attempt is not counted.                                    *)
WrongCodeFree(rec) == IF rec.attempts + 1 > MaxCodeAttempts THEN "code_burn" ELSE "code_count"

WrongCode(rec) == IF rec.attempts + 1 >= MaxCodeAttempts THEN "code_burn" ELSE "code_count"

CodeVerdict(r, rec) ==
    CASE rec = Absent -> "400"
      [] rec # Absent /\ call[r].code \in lapsed -> "code_burn"
      [] rec # Absent /\ call[r].code \notin lapsed ->
            IF call[r].right THEN "code_spend" ELSE WrongCode(rec)

CodeGet(r) ==
    LET rec == codes[call[r].code]
        verdict == CodeVerdict(r, rec)
        m == [mem[r] EXCEPT !.code = rec]
    IN  /\ pc[r] = "code_get"
        /\ \/ verdict = "400" /\ Replies(r, "code_get", "400", m)
           \/ verdict # "400" /\ Goto(r, "code_get", verdict) /\ Holds(r, m)
        /\ Reads

CodeBurn(r) == PutCode(r, "code_burn", "code_burned", call[r].code, Absent) /\ UNCHANGED mem
CodeBurned(r) == Replies(r, "code_burned", "400", mem[r]) /\ Reads

CodeCount(r) ==
    /\ PutCode(r, "code_count", "code_counted", call[r].code,
               [mem[r].code EXCEPT !.attempts = @ + 1])
    /\ UNCHANGED mem
CodeCounted(r) == Replies(r, "code_counted", "401", mem[r]) /\ Reads

CodeSpend(r) == PutCode(r, "code_spend", "identity", call[r].code, Absent) /\ UNCHANGED mem

RedeemChallenge(r) ==
    CodeGet(r) \/ CodeBurn(r) \/ CodeBurned(r) \/ CodeCount(r) \/ CodeCounted(r) \/ CodeSpend(r)

-----------------------------------------------------------------------------
(* The ids that are read and then deleted whatever comes of them: an       *)
(* authorization by its state, and a hand-off.                              *)
Park(r) ==
    /\ PutCode(r, "park", "parked", call[r].parks, [email |-> Absent, attempts |-> 0, gives |-> Absent])
    /\ UNCHANGED mem
Parked(r) == Replies(r, "parked", "200", mem[r]) /\ Reads

Refused(r) == IF Is(r, {"redirect"}) THEN "error" ELSE "401"

TakeGet(r) ==
    LET rec == codes[call[r].code]
        m == [mem[r] EXCEPT !.code = rec]
    IN  /\ pc[r] = "take_get"
        /\ \/ rec = Absent /\ Replies(r, "take_get", Refused(r), m)
           \/ rec # Absent /\ Goto(r, "take_get", "take_delete") /\ Holds(r, m)
        /\ Reads

TakeDelete(r) == PutCode(r, "take_delete", "taken", call[r].code, Absent) /\ UNCHANGED mem

(* The provider's code is exchanged outside; that may fail.                 *)
Taken(r) ==
    /\ \/ /\ call[r].code \in lapsed \/ Is(r, {"redirect"})
          /\ Replies(r, "taken", Refused(r), mem[r])
       \/ /\ call[r].code \notin lapsed /\ Is(r, {"redirect"})
          /\ Goto(r, "taken", "identity") /\ UNCHANGED mem
       \/ /\ call[r].code \notin lapsed /\ Is(r, {"collect"})
          /\ Replies(r, "taken", "200", [mem[r] EXCEPT !.cred = mem[r].code.gives])
    /\ Reads

HandoffPut(r) ==
    /\ PutCode(r, "handoff_put", "bounce", call[r].parks,
               [email |-> Absent, attempts |-> 0, gives |-> mem[r].cred])
    /\ UNCHANGED mem
Bounce(r) == Replies(r, "bounce", "302", mem[r]) /\ Reads

Parking(r) == Park(r) \/ Parked(r) \/ TakeGet(r) \/ TakeDelete(r) \/ Taken(r) \/ HandoffPut(r) \/ Bounce(r)

-----------------------------------------------------------------------------
(* resolveIdentity.  A redeemed code proves its address; a provider may or  *)
(* may not vouch for the one it gives.                                      *)
ByMail(r) == Is(r, {"callback"})
EmailOf(r) == IF ByMail(r) THEN mem[r].code.email ELSE call[r].email
IdentityOf(r) == IF ByMail(r) THEN MailIdentity[mem[r].code.email] ELSE call[r].identity

VerifiedEmail(r) == EmailOf(r) # Absent /\ (ByMail(r) \/ call[r].verified)

IdentityGet(r) ==
    LET known == identities[IdentityOf(r)]
    IN  /\ Goto(r, "identity", CASE known # Absent -> "identity_user"
                                 [] known = Absent /\ VerifiedEmail(r) -> "email"
                                 [] known = Absent /\ ~VerifiedEmail(r) -> "new_user")
        /\ Holds(r, [mem[r] EXCEPT !.user = known])
        /\ Reads

(* An identity of a missing user is an error, not a sign-up.                *)
IdentityUser(r) ==
    /\ \/ mem[r].user \in users /\ Goto(r, "identity_user", "session_put") /\ UNCHANGED mem
       \/ mem[r].user \notin users /\ Replies(r, "identity_user", Fails(r), mem[r])
    /\ Reads

EmailGet(r) ==
    LET known == emailIndex[EmailOf(r)]
    IN  /\ Goto(r, "email", IF known = Absent THEN "new_user" ELSE "email_user")
        /\ Holds(r, [mem[r] EXCEPT !.user = known])
        /\ Reads

EmailUser(r) ==
    /\ Goto(r, "email_user", IF mem[r].user \in users THEN "link" ELSE "new_user")
    /\ Reads /\ UNCHANGED mem

PutIdentity(r, from, to) ==
    /\ Goto(r, from, to)
    /\ identities' = [identities EXCEPT ![IdentityOf(r)] = mem[r].user]
    /\ UNCHANGED <<codes, emailIndex, users, homes, seats, post, time, device, given, mem>>

Link(r) == PutIdentity(r, "link", "session_put")

NewUser(r) ==
    /\ Goto(r, "new_user", "new_home")
    /\ users' = users \cup {call[r].newUser}
    /\ Holds(r, [mem[r] EXCEPT !.user = call[r].newUser])
    /\ UNCHANGED <<codes, identities, emailIndex, homes, seats, post, time, device, given>>

(* Bug: the identity is written before the account.                         *)
NewHomeSkipped(r) ==
    /\ Goto(r, "new_home", "new_identity")
    /\ Reads /\ UNCHANGED mem

(* The personal account, its owner row and the row's index key.             *)
NewHome(r) ==
    /\ Goto(r, "new_home", "new_identity")
    /\ homes' = homes \cup {mem[r].user}
    /\ UNCHANGED <<codes, identities, emailIndex, users, seats, post, time, device, given, mem>>

NewIdentity(r) == PutIdentity(r, "new_identity", IF VerifiedEmail(r) THEN "new_email" ELSE "session_put")

(* Bug: the address is not remembered.                                      *)
NewEmailForgotten(r) ==
    /\ Goto(r, "new_email", "session_put")
    /\ Reads /\ UNCHANGED mem

NewEmail(r) ==
    LET e == EmailOf(r)
    IN  /\ Goto(r, "new_email", "session_put")
        /\ emailIndex' = IF IfNew(emailIndex[e]) THEN [emailIndex EXCEPT ![e] = mem[r].user] ELSE emailIndex
        /\ UNCHANGED <<codes, identities, users, homes, seats, post, time, device, given, mem>>

ResolveIdentity(r) ==
    \/ IdentityGet(r) \/ IdentityUser(r) \/ EmailGet(r) \/ EmailUser(r) \/ Link(r)
    \/ NewUser(r) \/ NewHome(r) \/ NewIdentity(r) \/ NewEmail(r)

-----------------------------------------------------------------------------
(* issueTokens; the access token is a claim over the memberships.           *)
IssueTokens(r) == SessionPut(r) \/ SessionIndexed(r)

SigningIn(r) == StartEmail(r) \/ RedeemChallenge(r) \/ Parking(r) \/ ResolveIdentity(r) \/ IssueTokens(r)
=============================================================================
