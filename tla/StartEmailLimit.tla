-------------------------- MODULE StartEmailLimit --------------------------
(***************************************************************************)
(* The counters in front of the mail of start-email: consume and refund of *)
(* lib/mcp-rate-limit.js, in the order of lib/auth/start-email-limit.js.   *)
(***************************************************************************)
EXTENDS AuthStores

LimitOf(key) == CASE key[1] = "source" -> SourceLimit
                  [] key[1] = "hour" -> RecipientLimit
                  [] key[1] = "day" -> RecipientDayLimit

LengthOf(key) == IF key[1] = "day" THEN Day ELSE Hour

SourceKey(r) == <<"source", call[r].source>>
HourKey(r) == <<"hour", call[r].email>>
DayKey(r) == <<"day", call[r].email>>

Over(entry, key) == entry = Absent \/ clock - entry.windowStart >= LengthOf(key)

(* A window that ran out starts over.                                       *)
Window(key) ==
    IF Over(counters[key], key) THEN [windowStart |-> clock, count |-> 0] ELSE counters[key]

Keeps == UNCHANGED <<codes, people, seats, mailbox, time, device, given>>

(* A store that cannot be read or written lets the mail through.            *)
Degrades(r, from, to) ==
    /\ Cardinality({q \in Requests : mem[q].degraded}) < MaxFaults
    /\ Goto(r, from, to)
    /\ Holds(r, [mem[r] EXCEPT !.degraded = TRUE])
    /\ UNCHANGED counters /\ Keeps

(* consume: read, decide, and if there is room write back one more.         *)
Consume(r, at, put, key, next, refused) ==
    LET room == Window(key).count + 1 <= LimitOf(key)
    IN  \/ /\ Goto(r, at, IF room THEN put ELSE refused)
           /\ Holds(r, [mem[r] EXCEPT !.counter = [Window(key) EXCEPT !.count = @ + 1]])
           /\ UNCHANGED counters /\ Keeps
        \/ /\ Goto(r, put, next)
           /\ counters' = [counters EXCEPT ![key] = mem[r].counter]
           /\ Holds(r, [mem[r] EXCEPT !.spent[key[1]] = mem[r].counter.windowStart])
           /\ Keeps
        \/ Degrades(r, at, next)
        \/ Degrades(r, put, next)

Refunds(key) == ~Over(counters[key], key)

(* refund: only within the window, and never below zero.                    *)
Refund(r, at, put, key, next) ==
    \/ /\ Goto(r, at, IF Refunds(key) THEN put ELSE next)
       /\ Holds(r, [mem[r] EXCEPT !.counter =
              IF ~Refunds(key) \/ counters[key].count = 0 THEN counters[key]
              ELSE [counters[key] EXCEPT !.count = @ - 1]])
       /\ UNCHANGED counters /\ Keeps
    \/ /\ Goto(r, put, next)
       /\ counters' = [counters EXCEPT ![key] = mem[r].counter]
       /\ Keeps /\ UNCHANGED mem
    \/ Degrades(r, at, next)
    \/ Degrades(r, put, next)

(* Bug: refused by the day, the hour is not given back.                     *)
AllowSendKept(r) ==
    \/ Consume(r, "source", "source_put", SourceKey(r), "hour", "unsent")
    \/ Consume(r, "hour", "hour_put", HourKey(r), "day", "unsent")
    \/ Consume(r, "day", "day_put", DayKey(r), "mail", "unsent")

(* allowSend: source, hour, day.  Refused, there is no mail and the caller  *)
(* is not told; refused by the day, the hour is given back.                 *)
AllowSend(r) ==
    \/ Consume(r, "source", "source_put", SourceKey(r), "hour", "unsent")
    \/ Consume(r, "hour", "hour_put", HourKey(r), "day", "unsent")
    \/ Consume(r, "day", "day_put", DayKey(r), "mail", "hour_back")
    \/ Refund(r, "hour_back", "hour_back_put", HourKey(r), "unsent")

(* The mail goes out or fails.                                              *)
SendMail(r) ==
    \/ /\ Goto(r, "mail", "unsent")
       /\ mailbox' = [mailbox EXCEPT ![call[r].email] = @ \cup {[of |-> r, spent |-> mem[r].spent]}]
       /\ UNCHANGED <<codes, people, seats, counters, time, device, given, mem>>
    \/ /\ Goto(r, "mail", "refund_hour")
       /\ UNCHANGED <<codes, people, seats, post, time, device, given, mem>>

(* refundSend after a mail that failed.                                     *)
RefundSend(r) ==
    \/ Refund(r, "refund_hour", "refund_hour_put", HourKey(r), "refund_day")
    \/ Refund(r, "refund_day", "refund_day_put", DayKey(r), "failed")

AnswerStart(r) ==
    /\ \/ Replies(r, "unsent", "200", mem[r])
       \/ Replies(r, "failed", "500", mem[r])
    /\ UNCHANGED <<codes, people, seats, post, time, device, given>>

StartLimited(r) == AllowSend(r) \/ SendMail(r) \/ RefundSend(r) \/ AnswerStart(r)
=============================================================================
