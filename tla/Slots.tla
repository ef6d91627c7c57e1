-------------------------------- MODULE Slots --------------------------------
(***************************************************************************)
(* The arrival windows that are offered online, and the zone's clock behind*)
(* them (src/src/scheduling/scheduling.service.ts). Times are half hours:  *)
(* UTC, or local to the tenant's zone; dates count days from the one that  *)
(* begins at local time 0. A window is [start, end], in UTC.               *)
(***************************************************************************)
EXTENDS Integers, FiniteSets

CONSTANTS
    Offset(_),      \* external: the zone's offset at a UTC time
    FirstWeekday,   \* the weekday of date 0, where Sunday is 0
    Lookahead,      \* SCHEDULING_LOOKAHEAD_DAYS
    MinNotice       \* SCHEDULING_MIN_NOTICE_MINUTES

Day == 48
ServiceWindows == {<<16, 22>>, <<22, 28>>, <<28, 34>>}  \* 8-11, 11-14, 14-17

Local(utc) == utc + Offset(utc)
DateOf(utc) == Local(utc) \div Day
Weekend(date) == (FirstWeekday + date) % 7 \in {0, 6}

(* Mutant: the offset that was known at the start serves for every date.   *)
ZonedByOldOffset(local) == local - Offset(0)

(* zonedTime: the guess is corrected three times by what a clock of the    *)
(* zone would show then.                                                   *)
ZonedTime(local) ==
    LET Corrected(guess) == guess + (local - Local(guess))
    IN  Corrected(Corrected(Corrected(local)))

WindowOn(date, hours) ==
    [start |-> ZonedTime(date * Day + hours[1]), end |-> ZonedTime(date * Day + hours[2])]

(* buildCandidates *)
Candidates(now) ==
    {w \in {WindowOn(date, hours) : hours \in ServiceWindows,
                date \in {d \in DateOf(now)..(DateOf(now) + Lookahead - 1) : ~Weekend(d)}} :
       w.start >= now + MinNotice}

Overlap(v, w) == v.start < w.end /\ v.end > w.start
OverlapsBusy(w, busy) == \E b \in busy : Overlap(w, b)

(* The first eight that are free. *)
Offers(now, busy) ==
    LET free == {w \in Candidates(now) : ~OverlapsBusy(w, busy)}
    IN  {w \in free : Cardinality({v \in free : v.start < w.start}) < 8}

IsServiceWindow(w) ==
    /\ ~Weekend(DateOf(w.start))
    /\ DateOf(w.end) = DateOf(w.start)
    /\ <<Local(w.start) % Day, Local(w.end) % Day>> \in ServiceWindows

(* External: what a zone's clock does around a date. It changes at most    *)
(* once, by two hours at most, and skips no hour that bounds a window.     *)
ClockIsSound(date) ==
    LET from == (date - 1) * Day
        to == (date + 3) * Day
    IN  /\ \A u \in from..to : Offset(u) \in -28..28
        /\ Offset(to) - Offset(from) \in -4..4
        /\ \E change \in from..to :
             /\ \A u \in from..to : Offset(u) = IF u < change THEN Offset(from) ELSE Offset(to)
             /\ \A h \in {16, 22, 28, 34} :
                  date * Day + h \notin (change + Offset(from))..(change + Offset(to) - 1)
=============================================================================
