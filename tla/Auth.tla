-------------------------------- MODULE Auth --------------------------------
(***************************************************************************)
(* Sign-in, refresh sessions and the devices that hold them, together.     *)
(***************************************************************************)
EXTENDS SignIn, AuthClient

Seed == [codes : [Codes -> CodeRec \cup {Absent}], identities : [Identities -> Users \cup {Absent}],
         emailIndex : [Emails -> Users \cup {Absent}], users : SUBSET Users, homes : SUBSET Users,
         sessions : [SessionIds -> SessionRec \cup {Absent}],
         sessionIndex : SUBSET (Users \X SessionIds),
         counters : [CounterKeys -> Counter \cup {Absent}], mailbox : [Emails -> SUBSET Mail],
         device : [Devices -> Device]]

(* What the handler of each operation is given, or has drawn.               *)
WellFormed(c) ==
    /\ c.op \in {"use", "signout", "restart"} => c.device # Absent
    /\ c.op \in {"revoke", "devices", "erase"} => c.user # Absent
    /\ c.op \in {"refresh", "revoke"} => c.session # Absent /\ c.secret # Absent
    /\ c.op \in {"callback", "redirect"} => c.session # Absent /\ c.newUser # Absent
    /\ c.op = "start" => c.email # Absent /\ c.parks \in Challenges
    /\ c.op = "providers" => c.parks \in Authorizations
    /\ c.op = "callback" => c.code \in Challenges
    /\ c.op = "redirect" =>
          /\ c.code \in Authorizations /\ c.parks \in Handoffs
          /\ c.identity \in Identities \ {MailIdentity[e] : e \in Emails}
    /\ c.op = "collect" => c.code \in Handoffs

(* Ids are random: nobody else has drawn the id a request draws, and who    *)
(* presents it comes later.                                                 *)
FreshIds(w, calls) ==
    \A r \in Requests :
        LET c == calls[r]
        IN  /\ c.op \in {"start", "providers", "redirect"} =>
                /\ w.codes[c.parks] = Absent
                /\ \A q \in Requests \ {r} :
                    /\ calls[q].op \in {"start", "providers", "redirect"} => calls[q].parks # c.parks
                    /\ calls[q].op \in {"callback", "redirect", "collect"} /\ calls[q].code = c.parks
                       => r \in calls[q].after
            /\ c.op \in {"callback", "redirect"} =>
                /\ w.sessions[c.session] = Absent
                /\ \A u \in Users : <<u, c.session>> \notin w.sessionIndex
                /\ c.newUser \notin w.users \cup w.homes
                /\ \A q \in Requests \ {r} :
                    calls[q].op \in {"callback", "redirect"} =>
                        calls[q].session # c.session /\ calls[q].newUser # c.newUser

(* At the start nothing is under way: identities and addresses lead to      *)
(* users with an account, no hand-off waits to be collected, and a device   *)
(* holds, and has stored, the one open session it has to itself.            *)
AtRest(w) ==
    /\ \A i \in Identities : w.identities[i] # Absent => w.identities[i] \in w.users \cap w.homes
    /\ \A e \in Emails : w.emailIndex[e] # Absent => w.emailIndex[e] \in w.users \cap w.homes
    /\ \A k \in Challenges : w.codes[k] # Absent => w.codes[k].email # Absent
    /\ \A k \in Handoffs : w.codes[k] = Absent
    /\ \A s \in SessionIds : w.sessions[s] # Absent => (w.sessions[s].ended <=> w.sessions[s].secret = Absent)
    /\ \A d \in Devices :
        LET t == w.device[d].tokens
        IN  /\ w.device[d].stored = t /\ w.device[d].refreshing = Absent
            /\ t # Absent => /\ w.sessions[t.session] # Absent /\ w.sessions[t.session].secret = t.secret
                             /\ \A f \in Devices \ {d} : w.device[f].tokens # Absent
                                    => w.device[f].tokens.session # t.session

(* What a window of a start counts is the mail that went out in it.         *)
CountsMail(w) ==
    \A e \in Emails : \A kind \in {"hour", "day"} :
        LET entry == w.counters[<<kind, e>>]
        IN  /\ IsFiniteSet(w.mailbox[e]) /\ \A m \in w.mailbox[e] : m.of \notin Requests
            /\ \A m \in w.mailbox[e] : m.spent[kind] # Absent => entry # Absent /\ m.spent[kind] <= entry.windowStart
            /\ entry # Absent =>
                /\ entry.windowStart = 0 /\ entry.count <= LimitOf(<<kind, e>>)
                /\ entry.count = Cardinality({m \in w.mailbox[e] : m.spent[kind] = entry.windowStart})

ASSUME AuthAssumption ==
    /\ MailIdentity \in [Emails -> Identities]
    /\ \A e, f \in Emails : MailIdentity[e] = MailIdentity[f] => e = f
    /\ {MaxCodeAttempts, RecipientLimit, RecipientDayLimit, SourceLimit, Hour, Day} \subseteq Nat \ {0}
    /\ {MaxClock, MaxLapsed, MaxFaults} \subseteq Nat
    /\ IsFiniteSet(Requests) /\ First \notin Requests
    /\ Absent \notin Secrets \cup Users \cup SessionIds \cup Codes \cup Emails \cup Identities \cup Devices
    /\ Absent \notin Nat /\ Absent \notin Cred \cup SessionRec \cup CodeRec \cup Counter
    /\ SessionIds \cap Codes = {} /\ Challenges \cap Handoffs = {}
    /\ Authorizations \cap (Challenges \cup Handoffs) = {}
    /\ \A s \in Starts :
        /\ s.seed \in Seed /\ s.calls \in [Requests -> Call]
        /\ \A r \in Requests : WellFormed(s.calls[r])
        /\ FreshIds(s.seed, s.calls) /\ AtRest(s.seed) /\ CountsMail(s.seed)

Init ==
    /\ \E s \in Starts : seed = s.seed /\ call = s.calls
    /\ codes = seed.codes
    /\ identities = seed.identities
    /\ emailIndex = seed.emailIndex
    /\ users = seed.users
    /\ homes = seed.homes
    /\ sessions = seed.sessions
    /\ sessionIndex = seed.sessionIndex
    /\ counters = seed.counters
    /\ mailbox = seed.mailbox
    /\ device = seed.device
    /\ lapsed = {} /\ clock = 0
    /\ pc = [r \in Requests |-> "send"]
    /\ mem = [r \in Requests |-> Blank]

FirstStep == [start |-> "sweep_list", callback |-> "code_get", redirect |-> "take_get",
              collect |-> "take_get", providers |-> "park", refresh |-> "rotate_get",
              revoke |-> "end_get", devices |-> "index_list", backfill |-> "fill_list",
              erase |-> "erase_home", use |-> "use", signout |-> "signout", restart |-> "restart"]

Send(r) ==
    LET c == call[r]
    IN  /\ \A p \in c.after : pc[p] \in Answers
        /\ Goto(r, "send", FirstStep[c.op])
        /\ Holds(r, [mem[r] EXCEPT !.cred =
               IF Is(r, {"refresh", "revoke"}) THEN [session |-> c.session, secret |-> c.secret] ELSE Absent])
        /\ Reads

Step(r) ==
    \/ Send(r)
    \/ SigningIn(r) \/ RotateSession(r) \/ EndSessionOwnedBy(r) \/ SessionsOf(r)
    \/ BackfillSessions(r) \/ DeleteUserRecords(r)
    \/ OnDeviceStep(r)

(* Sixty days, ten minutes or one minute are over, for an id that is looked *)
(* at still.                                                                *)
Looks(r, k) ==
    /\ pc[r] \notin Answers
    /\ \/ call[r].code = k
       \/ k \in Codes /\ Is(r, {"start"})
       \/ k \in SessionIds /\ Is(r, {"use", "refresh", "devices"})

Lapse(k) ==
    /\ k \notin lapsed /\ Cardinality(lapsed) < MaxLapsed /\ \E r \in Requests : Looks(r, k)
    /\ IF k \in Codes THEN codes[k] # Absent ELSE sessions[k] # Absent
    /\ lapsed' = lapsed \cup {k}
    /\ UNCHANGED <<codes, people, seats, post, clock, device, pc, given, mem>>

(* An hour goes by; only the counters of start-email tell the time.         *)
Tick ==
    /\ clock < MaxClock /\ \E r \in Requests : Is(r, {"start"}) /\ pc[r] \notin Answers
    /\ clock' = clock + 1
    /\ UNCHANGED <<codes, people, seats, post, lapsed, device, pc, given, mem>>

Answered(r) == pc[r] \in Answers

Done == (\A r \in Requests : Answered(r)) /\ UNCHANGED vars

Next ==
    \/ \E r \in Requests : Step(r)
    \/ \E k \in Codes \cup SessionIds : Lapse(k)
    \/ \E d \in Devices : Age(d)
    \/ Tick \/ Done

Spec == Init /\ [][Next]_vars

(* A function that is not killed resumes when its call completes, and a     *)
(* device that waits for an answer gets one or an error.                    *)
FairSpec == Spec /\ \A r \in Requests : WF_vars(Step(r))

-----------------------------------------------------------------------------
(* Every store holds records of its shape.                                  *)
TypeOK ==
    /\ codes \in [Codes -> CodeRec \cup {Absent}]
    /\ identities \in [Identities -> Users \cup {Absent}]
    /\ emailIndex \in [Emails -> Users \cup {Absent}]
    /\ users \subseteq Users /\ homes \subseteq Users
    /\ sessions \in [SessionIds -> SessionRec \cup {Absent}]
    /\ sessionIndex \subseteq Users \X SessionIds
    /\ counters \in [CounterKeys -> Counter \cup {Absent}]
    /\ mailbox \in [Emails -> SUBSET Mail]
    /\ lapsed \subseteq Codes \cup SessionIds /\ clock \in 0 .. MaxClock
    /\ device \in [Devices -> Device]
    /\ call \in [Requests -> Call] /\ seed \in Seed
    /\ mem \in [Requests -> Memory]

-----------------------------------------------------------------------------
Overlap(p, r) == p # r /\ p \notin call[r].after /\ r \notin call[p].after

Redeems(r, k) == Is(r, {"callback", "collect", "redirect"}) /\ call[r].code = k

(* An id that is presented one time after another.                          *)
Apart(k) == \A p, q \in Requests : Redeems(p, k) /\ Redeems(q, k) => ~Overlap(p, q)

(* No answer to the device was lost, it was not closed in the middle of one *)
(* and it signs in while nothing else of it is under way.                   *)
Steady(d) ==
    \A r \in Requests : call[r].device = d =>
        /\ ~mem[r].lost /\ ~mem[r].orphan
        /\ Is(r, {"callback", "collect"}) => \A q \in Requests : call[q].device = d => ~Overlap(q, r)

(* Nobody else presents or ends session s, it has not expired, and its      *)
(* hand-off was not collected twice at once, so that two devices hold it.   *)
Undisturbed(s) ==
    /\ s \notin lapsed
    /\ \A p \in Requests :
        /\ ~Is(p, {"signout", "erase"})
        /\ Is(p, {"refresh", "revoke"}) => call[p].session # s
        /\ Is(p, {"redirect"}) /\ call[p].session = s => Apart(call[p].parks)

(* A steady device with no refresh in flight holds the token the server     *)
(* will take next: whoever asks for a token at once, and after a restart.   *)
(* The next refresh with any other token would end the session.             *)
DeviceTokenIsLive ==
    \A d \in Devices :
        LET t == device[d].tokens
        IN  t # Absent /\ device[d].refreshing = Absent /\ Steady(d) /\ Undisturbed(t.session)
            => sessions[t.session] # Absent /\ sessions[t.session].secret = t.secret

(* The sessions a request ended, for their owner or because it presented a  *)
(* token a second time.                                                     *)
EndedBy(r) ==
    {s \in SessionIds : \/ mem[r].replayed /\ mem[r].presented = s
                        \/ mem[r].ended /\ mem[r].cred.session = s}

(* A session that was ended gives no token any more, to anybody, unless a   *)
(* refresh was between its read and its write at that time.                 *)
EndedStaysEnded ==
    \A r, q \in Requests : \A s \in EndedBy(r) :
        (/\ r \in call[q].after /\ mem[q].presented = s
         /\ \A p \in Requests : Overlap(p, r) => mem[p].presented # s)
        => mem[q].answer # "200"

SignsIn(r) == Is(r, {"callback", "redirect"})

Opens(p, s) == SignsIn(p) /\ call[p].session = s

Ends(p, s) ==
    \/ Is(p, {"erase"}) /\ call[p].user = sessions[s].user
    \/ s \in EndedBy(p) /\ mem[p].ended

(* What the index knew of a user at the start.                              *)
IndexedAtStart(u) == {s \in SessionIds : <<u, s>> \in seed.sessionIndex}
OpenAtStart(u) == {s \in SessionIds : seed.sessions[s] # Absent /\ seed.sessions[s].user = u}

(* The list of devices shows every session of the user that was there all   *)
(* the while, a tombstone too.  It is stated, as for memberships, for users *)
(* the index knew completely, and for those it did not know at all if       *)
(* nothing else indexes them: one session indexed hides the others.         *)
DevicesListed ==
    \A q \in Requests : \A s \in SessionIds :
        (/\ Is(q, {"devices"}) /\ pc[q] = "200"
         /\ sessions[s] # Absent /\ sessions[s].user = call[q].user /\ s \notin lapsed
         /\ \A p \in Requests : ~Ends(p, s) /\ (Opens(p, s) => p \in call[q].after)
         /\ \/ OpenAtStart(call[q].user) \subseteq IndexedAtStart(call[q].user)
            \/ /\ IndexedAtStart(call[q].user) = {}
               /\ \A p \in Requests : ~Overlap(p, q) /\ ~SignsIn(p))
        => s \in mem[q].shown

SignedIn(r) == SignsIn(r) /\ mem[r].cred # Absent

Unerased == \A r \in Requests : ~Is(r, {"erase"})

(* Sign-ins that all prove an address, one after another, none of them by   *)
(* an identity that is presented with two addresses, or that belonged to    *)
(* somebody else than its address at the start.                             *)
Orderly ==
    /\ \A e \in Emails : seed.identities[MailIdentity[e]] \in {Absent, seed.emailIndex[e]}
    /\ \A p, q \in Requests :
        /\ SignsIn(p) /\ SignsIn(q) => ~Overlap(p, q)
        /\ Is(p, {"redirect"}) =>
            /\ call[p].email # Absent /\ call[p].verified
            /\ seed.identities[call[p].identity] \in {Absent, seed.emailIndex[call[p].email]}
            /\ Is(q, {"redirect"}) /\ call[p].identity = call[q].identity => call[p].email = call[q].email

(* Sign-ins that prove the same address reach the same user, whichever      *)
(* button was pressed.  Sign-ups that overlap may part.                     *)
OneUserPerAddress ==
    Unerased /\ Orderly =>
        \A a, b \in Requests :
            SignedIn(a) /\ SignedIn(b) /\ EmailOf(a) = EmailOf(b) => mem[a].user = mem[b].user

(* An identity that was never presented with a proven address.              *)
Unproven(i) ==
    /\ seed.identities[i] = Absent
    /\ \A p \in Requests : Is(p, {"redirect"}) /\ call[p].identity = i => ~VerifiedEmail(p)

(* An address nobody vouches for gives access to no other user: who signs   *)
(* in with it shares a user only with the same identity.                    *)
UnverifiedNeverLinks ==
    \A a, b \in Requests :
        /\ SignedIn(a) /\ Is(a, {"redirect"}) /\ Unproven(call[a].identity)
        /\ SignedIn(b) /\ IdentityOf(b) # call[a].identity
        => mem[a].user # mem[b].user

(* Who signs in is decided by what is proved: a proven address leads to one *)
(* user, whatever button was pressed, and an unproven one to no other user. *)
AddressDecidesUser == OneUserPerAddress /\ UnverifiedNeverLinks

(* An identity leads to a user that exists and has an account, wherever a   *)
(* sign-up stops: otherwise its owner could never sign in again.            *)
IdentityResolves ==
    Unerased => \A i \in Identities : identities[i] # Absent => identities[i] \in users \cap homes

Redeemed(r) == SignedIn(r) \/ (Is(r, {"collect"}) /\ mem[r].answer = "200")

(* What is redeemed one after another is redeemed once, and a mailed code   *)
(* not at all after as many wrong ones as are allowed.                      *)
SingleUse ==
    \A k \in Codes : \A r \in Requests :
        LET before == {p \in call[r].after : Redeems(p, k)}
        IN  Redeems(r, k) /\ Redeemed(r) /\ Apart(k)
            => /\ \A p \in before : ~Redeemed(p)
               /\ Cardinality({p \in before : Is(p, {"callback"}) /\ ~call[p].right}) < MaxCodeAttempts

Mailing(r, e) == Is(r, {"start"}) /\ call[r].email = e

(* What a window counts for an address is the mail that went out in it:     *)
(* a refusal costs nothing, a mail that failed is given back, and none goes *)
(* out uncounted, if the requests for the address did not overlap and the   *)
(* store did not fail.                                                      *)
BudgetIsMail ==
    \A e \in Emails : \A kind \in {"hour", "day"} :
        LET count == counters[<<kind, e>>]
            mails == {m \in mailbox[e] : m.spent[kind] = count.windowStart}
        IN  (/\ ~Over(count, <<kind, e>>)
             /\ \A r \in Requests : Mailing(r, e) =>
                    (pc[r] = "send" \/ Answered(r)) /\ ~mem[r].degraded
             /\ \A r, q \in Requests : Mailing(r, e) /\ Mailing(q, e) => ~Overlap(r, q))
            => count.count = Cardinality(mails) /\ count.count <= LimitOf(<<kind, e>>)

(* Every request is answered, and with it who waits for the refresh another *)
(* one has in flight: no device is left waiting for ever.                   *)
EveryCallAnswered == \A r \in Requests : <>Answered(r)
=============================================================================
