----------------------------- MODULE AuthStores -----------------------------
(***************************************************************************)
(* Signing in and staying signed in: the blob stores of auth.js and of     *)
(* lib/auth/*.js, the devices that hold tokens (AuthService of the app),   *)
(* and the requests between them.                                          *)
(*                                                                         *)
(* A step is one awaited call on one key, or one listing, as in Accounts.  *)
(* A request of a device goes on to what the device does with the answer.  *)
(* A secret is named by the request that draws it: newToken is random, and *)
(* only hashes are stored, so a stored hash is the name of its token.      *)
(***************************************************************************)
EXTENDS FiniteSets, BlobStore, Integers

CONSTANTS
    Requests, Devices, Users,
    Emails,        \* normalised addresses
    Identities,    \* <provider>/<subject>
    MailIdentity,  \* the identity email/<address> of each address
    SessionIds, Sources,
    Challenges, Authorizations, Handoffs,  \* the ids, apart by their prefixes
    First,         \* the tokens there were at the start
    MaxCodeAttempts, RecipientLimit, RecipientDayLimit, SourceLimit,
    Hour, Day,     \* lengths of the two windows
    MaxClock,      \* bound on the clock
    MaxLapsed,     \* bound on what expires
    MaxFaults,     \* bound on failures of the counter store
    Starts         \* what a behaviour may start from: a seed and the requests

Codes == Challenges \cup Authorizations \cup Handoffs

Secrets == Requests \cup {First}
Cred == [session : SessionIds, secret : Secrets]

(* An open session, or with `ended` the tombstone a replay leaves.          *)
SessionRec == [user : Users, secret : Secrets \cup {Absent}, ended : BOOLEAN]

(* What the challenge store keeps under an id: a mailed code, or a parked   *)
(* authorization (no address), or a sign-in parked for the app.             *)
CodeRec == [email : Emails \cup {Absent}, attempts : 0 .. MaxCodeAttempts - 1,
            gives : Cred \cup {Absent}]

CounterKeys == ({"source"} \X Sources) \cup ({"hour", "day"} \X Emails)
Counter == [windowStart : 0 .. MaxClock, count : Nat]

(* A mail and the windows it was counted in.                                *)
Spent == [{"source", "hour", "day"} -> 0 .. MaxClock \cup {Absent}]
Mail == [of : Secrets, spent : Spent]

(* AuthService: the tokens in memory and in the secure store, whether the   *)
(* access token is good for another five minutes, and the refresh in        *)
(* flight.                                                                  *)
Device == [tokens : Cred \cup {Absent}, stored : Cred \cup {Absent}, fresh : BOOLEAN,
           refreshing : Requests \cup {Absent}]

Ops == {"start", "callback", "redirect", "collect", "providers", "refresh", "revoke", "devices",
        "backfill", "erase", "use", "signout", "restart"}

(* `after` are the requests answered before this one is sent.  `code` is    *)
(* the id presented, `parks` the one drawn; `session` the one presented or  *)
(* drawn, `secret` a copy of a token; `newUser` the id a sign-up draws.     *)
Call == [op : Ops, device : Devices \cup {Absent}, user : Users \cup {Absent},
         newUser : Users \cup {Absent}, session : SessionIds \cup {Absent},
         secret : Secrets \cup {Absent}, email : Emails \cup {Absent}, verified : BOOLEAN,
         identity : Identities \cup {Absent}, code : Codes \cup {Absent},
         parks : Codes \cup {Absent}, right : BOOLEAN, source : Sources, after : SUBSET Requests]

VARIABLES
    codes,         \* the challenge store
    identities,    \* the user of each identity
    emailIndex,    \* the user of each verified address
    users,         \* the user records
    homes,         \* users whose personal account was written
    sessions,
    sessionIndex,  \* the keys <userId>/<sessionId>
    counters,      \* of start-email
    mailbox,       \* mails delivered to each address
    lapsed,        \* codes and sessions whose time is over
    clock,
    device, pc, call,
    mem,           \* what the handler or the device holds, per request
    seed           \* what the stores held at the start; for the properties only

people == <<identities, emailIndex, users, homes>>
seats == <<sessions, sessionIndex>>
post == <<counters, mailbox>>
time == <<lapsed, clock>>
given == <<call, seed>>
vars == <<codes, people, seats, post, time, device, pc, given, mem>>

(* Answers of the server, of a device, and of a browser redirect.           *)
Answers == {"200", "204", "302", "400", "401", "500", "error", "null"}

(* `presented` is the session whose token it presented; from `lost` on, all *)
(* is kept for the properties only.                                         *)
Memory == [cred : Cred \cup {Absent}, user : Users \cup {Absent}, rec : SessionRec \cup {Absent},
           code : CodeRec \cup {Absent}, counter : Counter \cup {Absent}, answer : Answers,
           todo : SUBSET (SessionIds \cup Codes \cup Identities \cup Emails),
           at : SessionIds \cup Codes \cup {Absent}, shown : SUBSET SessionIds,
           waits : Requests \cup {Absent},
           orphan : BOOLEAN,        \* the app was restarted meanwhile
           lost : BOOLEAN, presented : SessionIds \cup {Absent},
           replayed : BOOLEAN, ended : BOOLEAN, degraded : BOOLEAN, spent : Spent]

Blank == [cred |-> Absent, user |-> Absent, rec |-> Absent, code |-> Absent, counter |-> Absent,
          answer |-> "null", todo |-> {}, at |-> Absent, shown |-> {}, waits |-> Absent,
          orphan |-> FALSE, lost |-> FALSE, presented |-> Absent,
          replayed |-> FALSE, ended |-> FALSE, degraded |-> FALSE,
          spent |-> [k \in {"source", "hour", "day"} |-> Absent]]

Goto(r, from, to) == pc[r] = from /\ pc' = [pc EXCEPT ![r] = to]

Holds(r, m) == mem' = [mem EXCEPT ![r] = m]

Is(r, ops) == call[r].op \in ops

OnDevice(r) == call[r].device # Absent

(* The handler answers.  A device goes on from there; a browser is sent     *)
(* back to the app with a hand-off or an error.                             *)
Replies(r, from, answer, m) ==
    /\ Goto(r, from, IF OnDevice(r) THEN "back" ELSE answer)
    /\ Holds(r, [m EXCEPT !.answer = answer])

Fails(r) == IF Is(r, {"redirect"}) THEN "error" ELSE "500"

(* Bug: the key names the session first.                                    *)
sessionIndexKeySwapped(u, s) == <<s, u>>

sessionIndexKey(u, s) == <<u, s>>
=============================================================================
