------------------------------- MODULE MCAuth -------------------------------
(***************************************************************************)
(* Instances of Auth for TLC.  u1 has the address e1, the device d1 with   *)
(* session s1, and session s2 elsewhere or on d2; nobody has e2 yet.       *)
(***************************************************************************)
EXTENDS Auth, TLC

CONSTANTS u1, u2, u3, u4, e1, e2, i1, i2, g, d1, d2, s1, s2, s3, s4, s5, k1, k2, k3, k4, k5, k6, src, r1, r2, r3

MailIdentities == e1 :> i1 @@ e2 :> i2

Open(s) == [session |-> s, secret |-> First]
Code(e) == [email |-> e, attempts |-> 0, gives |-> Absent]
With(t) == [tokens |-> t, stored |-> t, fresh |-> FALSE, refreshing |-> Absent]
NoCounters == [k \in CounterKeys |-> Absent]

Base ==
    [codes |-> [k \in Codes |-> Absent],
     identities |-> i1 :> u1 @@ i2 :> Absent @@ g :> Absent,
     emailIndex |-> e1 :> u1 @@ e2 :> Absent,
     users |-> {u1}, homes |-> {u1},
     sessions |-> [s \in SessionIds |-> IF s \in {s1, s2} THEN [user |-> u1, secret |-> First, ended |-> FALSE]
                                        ELSE Absent],
     sessionIndex |-> {<<u1, s1>>, <<u1, s2>>},
     counters |-> NoCounters, mailbox |-> [e \in Emails |-> {}],
     device |-> d1 :> With(Open(s1)) @@ d2 :> With(Absent)]

(* From before there was an index; and what a revocation that stopped leaves. *)
Unindexed == [Base EXCEPT !.sessionIndex = {}]
StaleIndex == [Base EXCEPT !.sessions[s2] = Absent]

SignedOut == [Base EXCEPT !.device[d1] = With(Absent)]
Both == [Base EXCEPT !.device[d2] = With(Open(s2))]
WithCodes(w, e, f) == [w EXCEPT !.codes = k1 :> Code(e) @@ k2 :> Code(f) @@ k3 :> Code(Absent) @@ k4 :> Absent @@ k5 :> Absent
                           @@ k6 :> Absent]

(* x and y mails went out to e2, counted in the hour and in the day.        *)
Mailed(x, y) ==
    LET mails == {[of |-> First, spent |-> [k \in {"source", "hour", "day"} |->
                      CASE k = "hour" -> IF n <= x THEN 0 ELSE Absent
                        [] k = "day" -> IF n <= y THEN 0 ELSE Absent
                        [] k = "source" -> n]] : n \in 1 .. 2}
    IN  [Base EXCEPT
            !.counters = [k \in CounterKeys |->
                CASE k = <<"hour", e2>> -> [windowStart |-> 0, count |-> x]
                  [] k = <<"day", e2>> -> [windowStart |-> 0, count |-> y]
                  [] OTHER -> Absent],
            !.mailbox[e2] = mails]

SourceSpent(n) == [Base EXCEPT !.counters[<<"source", src>>] = [windowStart |-> 0, count |-> n]]

Nothing == [op |-> "providers", device |-> Absent, user |-> Absent, newUser |-> Absent, session |-> Absent,
            secret |-> Absent, email |-> Absent, verified |-> FALSE, identity |-> Absent,
            code |-> Absent, parks |-> k5, right |-> FALSE, source |-> src, after |-> {}]

On(op) == [Nothing EXCEPT !.op = op, !.device = d1]
Use == On("use")
Copied(s, secret) == [Nothing EXCEPT !.op = "refresh", !.session = s, !.secret = secret]
Revoke(s) == [Nothing EXCEPT !.op = "revoke", !.user = u1, !.session = s, !.secret = First]
Owned(op) == [Nothing EXCEPT !.op = op, !.user = u1]
MailedCode(k, right, u, s) ==
    [Nothing EXCEPT !.op = "callback", !.code = k, !.right = right, !.newUser = u, !.session = s]
Provider(k, h, e, verified, u, s) ==
    [Nothing EXCEPT !.op = "redirect", !.code = k, !.parks = h, !.identity = g, !.email = e, !.verified = verified,
                    !.newUser = u, !.session = s]
Here(c) == [c EXCEPT !.device = d1]
There(c) == [c EXCEPT !.device = d2]
Collect == [On("collect") EXCEPT !.code = k4]
Start(e, k) == [Nothing EXCEPT !.op = "start", !.email = e, !.parks = k]
After(rs, c) == [c EXCEPT !.after = rs]
Either(rs, C) == C \cup {After(rs, c) : c \in C}

Together(seeds, A, B, C) ==
    {[seed |-> s, calls |-> r1 :> x @@ r2 :> y @@ r3 :> z] : s \in seeds, x \in A, y \in B, z \in C}

-----------------------------------------------------------------------------
(* Several callers of one device ask for a token, over restarts.            *)
DeviceStarts ==
    Together({Base}, {Use}, Either({r1}, {Use, On("restart")}),
             {Use, After({r1, r2}, Use), After({r1}, Use), Copied(s1, First), Revoke(s1)})
    \cup Together({Both}, {Use}, {There(Use)}, {There(On("restart")), After({r1}, Use), Copied(s2, First)})

(* A token presented twice, a session ended, and then a refresh.            *)
EndStarts ==
    Together({Base}, {Copied(s1, First), Revoke(s1), Use}, Either({r1}, {Copied(s1, First), Revoke(s1), On("signout")}),
             {After({r1, r2}, c) : c \in {Copied(s1, First), Copied(s1, r1), Copied(s1, r2), Use}})

(* The list of devices, with and without an index.                          *)
ListStarts ==
    Together({WithCodes(w, e1, e2) : w \in {Base, Unindexed, StaleIndex}},
             {MailedCode(k1, TRUE, u2, s3), Revoke(s2), Copied(s1, r2), Owned("backfill")},
             {Owned("devices"), After({r1}, Owned("devices"))}, {After({r1, r2}, Owned("devices"))})

(* Sign-ins with one address, by mail and by a provider.                    *)
SignInStarts ==
    Together({WithCodes(Base, e2, e2)}, {MailedCode(k1, TRUE, u2, s3)},
             Either({r1}, {MailedCode(k1, TRUE, u3, s4), MailedCode(k2, TRUE, u3, s4), Provider(k3, k6, e2, FALSE, u3, s4)}),
             {After({r1, r2}, Provider(k3, k4, e2, x, u4, s5)) : x \in BOOLEAN})
    \cup Together({WithCodes(SignedOut, e1, e2)},
             {Provider(k3, k4, e, x, u2, s3) : e \in {e1, Absent}, x \in BOOLEAN},
             {After({r1}, Collect)}, {After({r1, r2}, Collect), After({r1, r2}, Use),
              After({r1}, Here(MailedCode(k1, TRUE, u3, s4)))})
    \cup Together({WithCodes(SignedOut, e1, e2)}, {Provider(k3, k4, e1, TRUE, u2, s3)},
             {After({r1}, Collect)}, {There(After({r1, r2}, Collect))})
    \cup Together({WithCodes(Base, e1, e2)}, {MailedCode(k1, x, u2, s3) : x \in BOOLEAN},
             {After({r1}, MailedCode(k1, FALSE, u3, s4))}, {After({r1, r2}, MailedCode(k1, TRUE, u4, s5))})

(* One address asks for mail again and again.                               *)
MailStarts ==
    Together({Mailed(1, 1), Mailed(1, 2), SourceSpent(2)},
             {Start(e2, k1)}, {After({r1}, Start(e2, k2))}, {After({r1, r2}, Nothing)})

(* A user is deleted next to what uses or makes credentials.                *)
EraseStarts ==
    Together({WithCodes(w, e1, e2) : w \in {Base, Unindexed}},
             {Owned("erase")}, Either({r1}, {Use, MailedCode(k1, TRUE, u2, s3)}),
             {After({r1, r2}, Copied(s2, First)), After({r1, r2}, Nothing)})

AllStarts == DeviceStarts \cup EndStarts \cup ListStarts \cup SignInStarts \cup MailStarts \cup EraseStarts
=============================================================================
