---------------------------- MODULE BookingProofs ----------------------------
(***************************************************************************)
(* What is proved of Booking: the windows that are offered are the three   *)
(* of the tenant's day whatever its clock does, appointments never overlap,*)
(* dispatch reads what the customer is told, and, for one chat and any     *)
(* number of booking pages, what is called confirmed was chosen.           *)
(***************************************************************************)
EXTENDS Booking, TLAPS

-----------------------------------------------------------------------------
(* The clock and the windows. *)

(* zonedTime finds the time at which the clock of the zone shows a         *)
(* boundary of a window, provided that this clock shows it at all: its     *)
(* three corrections reach a time that needs no further one, on either     *)
(* side of a change.                                                       *)
LEMMA ZonedTimeIsExact ==
    ASSUME NEW date \in Int, ClockIsSound(date), NEW h \in {16, 22, 28, 34}
    PROVE  /\ ZonedTime(date * Day + h) \in ((date - 1) * Day)..((date + 3) * Day)
           /\ Offset(ZonedTime(date * Day + h)) \in -28..28
           /\ Local(ZonedTime(date * Day + h)) = date * Day + h
<1> DEFINE from == (date - 1) * Day
           to == (date + 3) * Day
           l == date * Day + h
           Corrected(guess) == guess + (l - Local(guess))
<1>1. /\ from \in Int /\ to \in Int /\ l \in Int
      /\ from + 64 <= l /\ l + 110 <= to
  BY DEF Day
<1>2. \A u \in from..to : Offset(u) \in -28..28
  BY DEF ClockIsSound
<1>3. PICK change \in from..to :
          /\ \A u \in from..to : Offset(u) = IF u < change THEN Offset(from) ELSE Offset(to)
          /\ l \notin (change + Offset(from))..(change + Offset(to) - 1)
  BY DEF ClockIsSound
<1>4. ZonedTime(l) = Corrected(Corrected(Corrected(l)))
  BY DEF ZonedTime
<1> HIDE DEF from, to, l
<1>5. \A u \in from..to : Corrected(u) = l - Offset(u) /\ Corrected(u) \in from..to
  BY <1>1, <1>2 DEF Local
<1>6. \A u \in from..to : Offset(u) = Offset(from) \/ Offset(u) = Offset(to)
  BY <1>3
<1> DEFINE g1 == Corrected(l)
           g2 == Corrected(g1)
           g3 == Corrected(g2)
<1>7. /\ l \in from..to /\ from \in from..to /\ to \in from..to
  BY <1>1
<1>8. /\ g1 \in from..to /\ g2 \in from..to /\ g3 \in from..to
      /\ g2 = l - Offset(g1) /\ g3 = l - Offset(g2)
  BY <1>5, <1>7
<1> HIDE DEF g1, g2, g3, Corrected
<1>9. Offset(g3) = Offset(g2)
  <2>1. /\ Offset(from) \in Int /\ Offset(to) \in Int /\ change \in Int
    BY <1>2, <1>3, <1>7, <1>1
  <2> DEFINE a == Offset(from)
             b == Offset(to)
  <2> HIDE DEF a, b
  <2>2. /\ a \in Int /\ b \in Int
        /\ l < change + a \/ l >= change + b
    BY <2>1, <1>1, <1>3 DEF a, b
  <2>3. /\ Offset(g1) = IF g1 < change THEN a ELSE b
        /\ Offset(g2) = IF g2 < change THEN a ELSE b
        /\ Offset(g3) = IF g3 < change THEN a ELSE b
    BY <1>3, <1>8 DEF a, b
  <2>4. g1 \in Int /\ g2 \in Int /\ g3 \in Int
    BY <1>8, <1>1
  <2> QED BY <2>1, <2>2, <2>3, <2>4, <1>8, <1>1
<1>10. Local(g3) = l
  BY <1>1, <1>2, <1>8, <1>9 DEF Local
<1> QED
  BY <1>2, <1>4, <1>8, <1>10 DEF g1, g2, g3, Corrected, from, to, l

(* Around one date two offsets differ by two hours at most.                *)
LEMMA OffsetsAreClose ==
    ASSUME NEW date \in Int, ClockIsSound(date),
           NEW s \in ((date - 1) * Day)..((date + 3) * Day),
           NEW t \in ((date - 1) * Day)..((date + 3) * Day)
    PROVE  Offset(s) - Offset(t) \in -4..4
<1> DEFINE from == (date - 1) * Day
           to == (date + 3) * Day
<1>1. /\ from \in from..to /\ to \in from..to
      /\ s \in from..to /\ t \in from..to
  BY DEF Day
<1>2. /\ \A u \in from..to : Offset(u) \in -28..28
      /\ Offset(to) - Offset(from) \in -4..4
      /\ \A u \in from..to : Offset(u) = Offset(from) \/ Offset(u) = Offset(to)
  BY DEF ClockIsSound
<1>3. /\ Offset(from) \in Int /\ Offset(to) \in Int
      /\ Offset(s) \in {Offset(from), Offset(to)}
      /\ Offset(t) \in {Offset(from), Offset(to)}
  <2> HIDE DEF from, to
  <2> QED BY <1>1, <1>2
<1> HIDE DEF from, to
<1> QED
  BY <1>2, <1>3

(* A window is one of the three of its weekday, by the clock of the zone.  *)
LEMMA WindowIsService ==
    ASSUME NEW w \in Windows
    PROVE  IsServiceWindow(w)
<1>1. PICK date \in ServiceDates, hours \in ServiceWindows : w = WindowOn(date, hours)
  BY DEF Windows
<1>2. date \in Int /\ ClockIsSound(date) /\ ~Weekend(date)
  BY BookingAssumption DEF ServiceDates, DateOf, Local, Day
<1>3. /\ hours[1] \in {16, 22, 28} /\ hours[2] \in {22, 28, 34}
      /\ <<hours[1], hours[2]>> \in ServiceWindows
  BY DEF ServiceWindows
<1>4. Local(w.start) = date * Day + hours[1] /\ Local(w.end) = date * Day + hours[2]
  BY <1>1, <1>2, <1>3, ZonedTimeIsExact DEF WindowOn
<1>5. \A k \in 0..47 : (date * 48 + k) \div 48 = date /\ (date * 48 + k) % 48 = k
  BY <1>2
<1>6. /\ DateOf(w.start) = date /\ DateOf(w.end) = date
      /\ Local(w.start) % Day = hours[1] /\ Local(w.end) % Day = hours[2]
  BY <1>3, <1>4, <1>5 DEF DateOf, Day
<1> QED
  BY <1>2, <1>3, <1>6 DEF IsServiceWindow

(* Two different windows never overlap, on one date or on two, although an *)
(* hour may be missing or repeated between them.                           *)
LEMMA WindowsAreApart ==
    ASSUME NEW v \in Windows, NEW w \in Windows, v # w
    PROVE  ~Overlap(v, w)
<1>1. PICK vDate \in ServiceDates, vHours \in ServiceWindows : v = WindowOn(vDate, vHours)
  BY DEF Windows
<1>2. PICK wDate \in ServiceDates, wHours \in ServiceWindows : w = WindowOn(wDate, wHours)
  BY DEF Windows
<1>3. /\ vDate \in Int /\ ClockIsSound(vDate) /\ wDate \in Int /\ ClockIsSound(wDate)
  BY BookingAssumption DEF ServiceDates, DateOf, Local, Day
<1>4. /\ vHours[1] \in {16, 22, 28} /\ vHours[2] = vHours[1] + 6
      /\ wHours[1] \in {16, 22, 28} /\ wHours[2] = wHours[1] + 6
      /\ vHours = <<vHours[1], vHours[2]>> /\ wHours = <<wHours[1], wHours[2]>>
  BY DEF ServiceWindows
<1> DEFINE T(date, h) == ZonedTime(date * Day + h)
<1>5. \A date \in {vDate, wDate} : \A h \in {16, 22, 28, 34} :
          /\ T(date, h) \in Int /\ T(date, h) \in ((date - 1) * Day)..((date + 3) * Day)
          /\ Offset(T(date, h)) \in -28..28
          /\ T(date, h) + Offset(T(date, h)) = date * Day + h
  <2> SUFFICES ASSUME NEW date \in {vDate, wDate}, NEW h \in {16, 22, 28, 34}
               PROVE  /\ T(date, h) \in Int /\ T(date, h) \in ((date - 1) * Day)..((date + 3) * Day)
                      /\ Offset(T(date, h)) \in -28..28
                      /\ T(date, h) + Offset(T(date, h)) = date * Day + h
    OBVIOUS
  <2>1. date \in Int /\ ClockIsSound(date)
    BY <1>3
  <2>2. /\ T(date, h) \in ((date - 1) * Day)..((date + 3) * Day)
        /\ Offset(T(date, h)) \in -28..28
        /\ Local(T(date, h)) = date * Day + h
    BY <2>1, ZonedTimeIsExact
  <2> HIDE DEF T
  <2> QED BY <2>1, <2>2 DEF Local, Day
<1>6. /\ v = [start |-> T(vDate, vHours[1]), end |-> T(vDate, vHours[2])]
      /\ w = [start |-> T(wDate, wHours[1]), end |-> T(wDate, wHours[2])]
  BY <1>1, <1>2 DEF WindowOn
<1>7. \A date \in {vDate, wDate} : \A s, t \in ((date - 1) * Day)..((date + 3) * Day) :
          Offset(s) - Offset(t) \in -4..4
  BY <1>3, OffsetsAreClose
(* A boundary of an earlier date comes before one of a later date. *)
<1>8. \A d, e \in {vDate, wDate} : \A g, h \in {16, 22, 28, 34} :
          d < e => T(d, g) < T(e, h)
  <2> SUFFICES ASSUME NEW d \in {vDate, wDate}, NEW e \in {vDate, wDate}, d < e,
                      NEW g \in {16, 22, 28, 34}, NEW h \in {16, 22, 28, 34}
               PROVE  T(d, g) < T(e, h)
    OBVIOUS
  <2>1. /\ T(d, g) \in Int /\ T(e, h) \in Int
        /\ Offset(T(d, g)) \in -28..28 /\ Offset(T(e, h)) \in -28..28
        /\ T(d, g) + Offset(T(d, g)) = d * 48 + g
        /\ T(e, h) + Offset(T(e, h)) = e * 48 + h
        /\ T(d, g) \in ((d - 1) * 48)..((d + 3) * 48)
    BY <1>5 DEF Day
  <2>2. d \in Int /\ e \in Int
    BY <1>3
  <2> HIDE DEF T
  <2>3. CASE e = d + 1
    <3>1. T(e, h) \in ((d - 1) * 48)..((d + 3) * 48)
      BY <2>1, <2>2, <2>3
    <3>2. Offset(T(e, h)) - Offset(T(d, g)) \in -4..4
      BY <1>7, <2>1, <3>1 DEF Day
    <3> QED BY <2>1, <2>2, <2>3, <3>2
  <2>4. CASE e >= d + 2
    BY <2>1, <2>2, <2>4
  <2> QED BY <2>2, <2>3, <2>4
(* An earlier boundary of a date comes before a later one. *)
<1>9. \A d \in {vDate, wDate} : \A g, h \in {16, 22, 28, 34} : g < h => T(d, g) < T(d, h)
  <2> SUFFICES ASSUME NEW d \in {vDate, wDate}, NEW g \in {16, 22, 28, 34},
                      NEW h \in {16, 22, 28, 34}, g < h
               PROVE  T(d, g) < T(d, h)
    OBVIOUS
  <2>1. /\ T(d, g) \in Int /\ T(d, h) \in Int
        /\ Offset(T(d, g)) \in -28..28 /\ Offset(T(d, h)) \in -28..28
        /\ T(d, g) + Offset(T(d, g)) = d * 48 + g
        /\ T(d, h) + Offset(T(d, h)) = d * 48 + h
        /\ T(d, g) \in ((d - 1) * Day)..((d + 3) * Day)
        /\ T(d, h) \in ((d - 1) * Day)..((d + 3) * Day)
    BY <1>5 DEF Day
  <2>2. Offset(T(d, h)) - Offset(T(d, g)) \in -4..4
    BY <1>7, <2>1
  <2>3. d \in Int /\ h >= g + 6
    BY <1>3
  <2> HIDE DEF T
  <2> DEFINE a == T(d, g)
             b == T(d, h)
             offsetA == Offset(a)
             offsetB == Offset(b)
  <2>4. /\ a \in Int /\ b \in Int /\ offsetA \in Int /\ offsetB \in Int
        /\ d \in Int /\ g \in Int /\ h \in Int /\ h >= g + 6
        /\ a + offsetA = d * 48 + g /\ b + offsetB = d * 48 + h
        /\ offsetB - offsetA <= 4
    BY <2>1, <2>2, <2>3
  <2> HIDE DEF a, b, offsetA, offsetB
  <2>5. a < b
    BY <2>4
  <2> QED BY <2>5 DEF a, b
<1> HIDE DEF T
<1>10. CASE vDate # wDate
  BY <1>3, <1>4, <1>5, <1>6, <1>8, <1>10 DEF Overlap
<1>11. CASE vDate = wDate
  <2>1. vHours[1] # wHours[1]
    BY <1>4, <1>6, <1>11
  <2>2. CASE vHours[2] <= wHours[1]
    <3>1. T(vDate, vHours[2]) <= T(wDate, wHours[1])
      BY <1>4, <1>5, <1>9, <1>11, <2>2
    <3> QED BY <1>4, <1>5, <1>6, <3>1 DEF Overlap
  <2>3. CASE wHours[2] <= vHours[1]
    <3>1. T(wDate, wHours[2]) <= T(vDate, vHours[1])
      BY <1>4, <1>5, <1>9, <1>11, <2>3
    <3> QED BY <1>4, <1>5, <1>6, <3>1 DEF Overlap
  <2> QED BY <1>4, <2>1, <2>2, <2>3
<1> QED
  BY <1>10, <1>11

(* What buildCandidates and listAvailability offer are such windows.       *)
LEMMA OffersAreWindows ==
    ASSUME NEW t \in Start..MaxNow, NEW busy
    PROVE  Candidates(t) \subseteq Windows /\ Offers(t, busy) \subseteq Windows
<1>1. \A date \in {d \in DateOf(t)..(DateOf(t) + Lookahead - 1) : ~Weekend(d)} :
          date \in ServiceDates
  <2> SUFFICES ASSUME NEW date \in DateOf(t)..(DateOf(t) + Lookahead - 1), ~Weekend(date)
               PROVE  date \in ServiceDates
    OBVIOUS
  <2>1. DateOf(t) \in Int /\ Lookahead \in Nat
    BY BookingAssumption DEF DateOf, Local, Day
  <2>2. date - DateOf(t) \in 0..(Lookahead - 1) /\ date = DateOf(t) + (date - DateOf(t))
    BY <2>1
  <2> QED BY <2>2 DEF ServiceDates
<1>2. Candidates(t) \subseteq Windows
  BY <1>1 DEF Candidates, Windows
<1> QED
  BY <1>2 DEF Offers

-----------------------------------------------------------------------------
(* What a chat, and what a page, may be doing for which request. *)
ChatDoes ==
    {<<"checking", "book">>, <<"reserving", "book">>, <<"inserting", "book">>,
     <<"checking", "move">>, <<"moving", "move">>, <<"patching", "move">>,
     <<"cancelling", "cancel">>, <<"deleting", "cancel">>}
PageDoes ==
    {<<"responding", "view">>} \cup
    {"deciding", "recording", "responding"} \X {"confirm", "request_reschedule"}

Does(c) == IF c \in Chats THEN ChatDoes ELSE PageDoes

Orderly(c, k, events) ==
    /\ <<k.pc, k.kind>> \in Does(c)
    /\ k.kind \in {"book", "move"} => k.slot \in Windows
    /\ k.kind # "book" =>
         /\ k.read \in Rows /\ k.read.event <= events
         /\ k.read.event # 0 => k.read.window # None
    /\ k.kind \notin {"book", "view"} => Active(k.read)

CallsAreOrderly == \A c \in Callers : call[c] # None => Orderly(c, call[c], booked)

(* The chat whose booking has the row has it alone. *)
OneBooks ==
    \A c \in Chats : At(c, "inserting") =>
        /\ row.event = 0 /\ row.window = call[c].slot /\ row.status \in {"ACCEPTED", "COMPLETED"}
        /\ \A d \in Chats : At(d, "inserting") => d = c

WindowIsOwn == row.window \notin others

BookingInv == TypeOK /\ CallsAreOrderly /\ OneBooks /\ WindowIsOwn

-----------------------------------------------------------------------------
(* How the requests move on. *)

(* One request changes, the others are in order as they were.              *)
LEMMA CallIsSet ==
    ASSUME TypeOK, CallsAreOrderly, NEW c \in Callers, NEW k \in Calls,
           call' = [call EXCEPT ![c] = k], booked' \in Nat, booked' >= booked,
           Orderly(c, k, booked')
    PROVE  /\ call' \in [Callers -> Calls \cup {None}]
           /\ CallsAreOrderly'
           /\ call'[c] = k
           /\ \A d \in Callers \ {c} : call'[d] = call[d]
<1>1. call \in [Callers -> Calls \cup {None}] /\ booked \in Nat
  BY DEF TypeOK
<1>2. /\ call' \in [Callers -> Calls \cup {None}]
      /\ call'[c] = k
      /\ \A d \in Callers \ {c} : call'[d] = call[d]
  BY <1>1
<1>3. ASSUME NEW d \in Callers \ {c}, call[d] # None
      PROVE  Orderly(d, call[d], booked')
  <2>1. Orderly(d, call[d], booked)
    BY <1>3 DEF CallsAreOrderly
  <2>2. call[d].kind # "book" => call[d].read.event \in Int
    BY <2>1, BookingAssumption DEF Orderly, Rows
  <2> QED BY <1>1, <2>1, <2>2 DEF Orderly
<1>4. CallsAreOrderly'
  BY <1>2, <1>3 DEF CallsAreOrderly
<1> QED
  BY <1>2, <1>4

(* A request that ends leaves the others in order.                         *)
LEMMA CallReturns ==
    ASSUME TypeOK, CallsAreOrderly, NEW c \in Callers, Return(c),
           booked' \in Nat, booked' >= booked
    PROVE  /\ call' \in [Callers -> Calls \cup {None}]
           /\ CallsAreOrderly'
           /\ call'[c] = None
           /\ \A d \in Callers \ {c} : call'[d] = call[d]
<1>1. call \in [Callers -> Calls \cup {None}] /\ booked \in Nat
  BY DEF TypeOK
<1>2. /\ call' \in [Callers -> Calls \cup {None}]
      /\ call'[c] = None
      /\ \A d \in Callers \ {c} : call'[d] = call[d]
  BY <1>1 DEF Return
<1>3. ASSUME NEW d \in Callers \ {c}, call[d] # None
      PROVE  Orderly(d, call[d], booked')
  <2>1. Orderly(d, call[d], booked)
    BY <1>3 DEF CallsAreOrderly
  <2>2. call[d].kind # "book" => call[d].read.event \in Int
    BY <2>1, BookingAssumption DEF Orderly, Rows
  <2> QED BY <1>1, <2>1, <2>2 DEF Orderly
<1>4. CallsAreOrderly'
  BY <1>2, <1>3 DEF CallsAreOrderly
<1> QED
  BY <1>2, <1>4

(* A request that goes on keeps its kind, its slot and what it has read.   *)
LEMMA CallGoesOn ==
    ASSUME TypeOK, CallsAreOrderly, NEW c \in Callers, call[c] # None, NEW pc,
           <<pc, call[c].kind>> \in Does(c), Goto(c, pc), booked' = booked
    PROVE  /\ call' \in [Callers -> Calls \cup {None}]
           /\ CallsAreOrderly'
           /\ call'[c] # None /\ call'[c].pc = pc
           /\ call'[c].slot = call[c].slot /\ call'[c].read = call[c].read
           /\ call'[c].kind = call[c].kind
           /\ \A d \in Callers \ {c} : call'[d] = call[d]
<1>0. PICK k : k = [call[c] EXCEPT !.pc = pc]
  OBVIOUS
<1>1. call \in [Callers -> Calls \cup {None}] /\ booked \in Nat /\ call[c] \in Calls
  BY DEF TypeOK
<1>2. Orderly(c, call[c], booked)
  BY DEF CallsAreOrderly
<1>3. pc \in {"checking", "reserving", "inserting", "moving", "patching", "cancelling",
              "deleting", "deciding", "recording", "responding"}
  BY DEF Does, ChatDoes, PageDoes
<1>4. /\ k \in Calls /\ k.pc = pc /\ k.kind = call[c].kind /\ k.slot = call[c].slot
      /\ k.read = call[c].read
  BY <1>0, <1>1, <1>3 DEF Calls
<1>5. call' = [call EXCEPT ![c] = k]
  BY <1>0, <1>1 DEF Goto
<1>6. Orderly(c, k, booked')
  BY <1>2, <1>4 DEF Orderly
<1>7. /\ call' \in [Callers -> Calls \cup {None}]
      /\ CallsAreOrderly'
      /\ call'[c] = k
      /\ \A d \in Callers \ {c} : call'[d] = call[d]
  <2>1. booked' \in Nat /\ booked' >= booked
    BY <1>1
  <2> QED BY <1>4, <1>5, <1>6, <2>1, CallIsSet, Zenon
<1>8. k # None
  BY <1>4, BookingAssumption
<1> QED
  BY <1>4, <1>7, <1>8

(* A request that begins changes nothing but itself.                       *)
LEMMA CallBegins ==
    ASSUME TypeOK, CallsAreOrderly, NEW c \in Callers, NEW pc, NEW kind,
           NEW slot \in Windows \cup {None}, NEW note \in Notes \cup {None},
           Begin(c, pc, kind, slot, note),
           <<pc, kind>> \in Does(c),
           kind \in {"book", "move"} => slot \in Windows,
           kind \notin {"book", "view"} => Active(row)
    PROVE  /\ TypeOK' /\ CallsAreOrderly'
           /\ call[c] = None /\ call'[c] # None /\ call'[c].pc = pc
           /\ call'[c].kind = kind
           /\ kind # "book" => call'[c].read = row
           /\ \A d \in Callers \ {c} : call'[d] = call[d]
<1>1. PICK k : k = [pc |-> pc, kind |-> kind, slot |-> slot, note |-> note,
                    read |-> IF kind = "book" THEN None ELSE row]
  OBVIOUS
<1>2. /\ row \in Rows /\ booked \in Nat /\ row.event <= booked
      /\ row.event # 0 => row.window # None
  BY BookingAssumption DEF TypeOK
<1>3. /\ pc \in {"checking", "reserving", "inserting", "moving", "patching", "cancelling",
                 "deleting", "deciding", "recording", "responding"}
      /\ kind \in {"book", "move", "cancel", "view", "confirm", "request_reschedule"}
  BY DEF Does, ChatDoes, PageDoes
<1>4. k \in Calls /\ Orderly(c, k, booked)
  BY <1>1, <1>2, <1>3 DEF Calls, Orderly
<1>5. call' = [call EXCEPT ![c] = k] /\ OnlyCalls
  BY <1>1 DEF Begin
<1>6. booked' = booked
  BY <1>5 DEF OnlyCalls
<1>7. booked' \in Nat /\ booked' >= booked /\ Orderly(c, k, booked')
  BY <1>2, <1>4, <1>6
<1>8. /\ call' \in [Callers -> Calls \cup {None}]
      /\ CallsAreOrderly'
      /\ call'[c] = k
      /\ \A d \in Callers \ {c} : call'[d] = call[d]
  BY <1>4, <1>5, <1>7, CallIsSet, Zenon
<1>9. TypeOK'
  BY <1>5, <1>8 DEF OnlyCalls, TypeOK, answers
<1>10. call[c] = None /\ k # None
  BY <1>4, BookingAssumption DEF Begin
<1> QED
  BY <1>1, <1>8, <1>9, <1>10

(* Nobody new inserts, and the row stays: the booking still has it alone. *)
LEMMA BookingStays ==
    ASSUME OneBooks, row' = row \/ (row'.event = row.event /\ row'.window = row.window
                                    /\ row'.status \in {row.status, "COMPLETED"}),
           \A d \in Chats : At(d, "inserting")' => At(d, "inserting") /\ call'[d] = call[d]
    PROVE  OneBooks'
  BY DEF OneBooks, At

(* A request in progress is typed and in order.                            *)
LEMMA CallIsKnown ==
    ASSUME TypeOK, CallsAreOrderly, NEW c \in Callers, call[c] # None
    PROVE  call[c] \in Calls /\ Orderly(c, call[c], booked)
  BY DEF TypeOK, CallsAreOrderly

(* A request that ends or goes on, but not to insert. *)
GoesOn(c, pc) == Goto(c, pc) /\ call[c] # None /\ <<pc, call[c].kind>> \in Does(c)
Moves(c) ==
    \/ Return(c)
    \/ GoesOn(c, "reserving") \/ GoesOn(c, "moving") \/ GoesOn(c, "patching")
    \/ GoesOn(c, "deleting") \/ GoesOn(c, "recording") \/ GoesOn(c, "responding")

(* A step that does not begin a booking keeps the requests in order, and   *)
(* whoever inserts was inserting.                                          *)
LEMMA CallMoves ==
    ASSUME TypeOK, CallsAreOrderly, NEW c \in Callers, Moves(c), booked' = booked
    PROVE  /\ call' \in [Callers -> Calls \cup {None}] /\ CallsAreOrderly'
           /\ \A d \in Callers : At(d, "inserting")' => At(d, "inserting") /\ call'[d] = call[d]
<1>1. booked \in Nat /\ booked' \in Nat /\ booked' >= booked
  BY BookingAssumption DEF TypeOK
<1>2. CASE Return(c)
  <2>1. /\ call' \in [Callers -> Calls \cup {None}] /\ CallsAreOrderly'
        /\ call'[c] = None /\ \A d \in Callers \ {c} : call'[d] = call[d]
    BY <1>1, <1>2, CallReturns
  <2> QED BY <2>1 DEF At
<1>3. CASE ~Return(c)
  <2>1. PICK pc : /\ pc # "inserting" /\ Goto(c, pc)
                 /\ call[c] # None /\ <<pc, call[c].kind>> \in Does(c)
    BY <1>3 DEF Moves, GoesOn
  <2>2. /\ call' \in [Callers -> Calls \cup {None}] /\ CallsAreOrderly'
        /\ call'[c].pc = pc /\ \A d \in Callers \ {c} : call'[d] = call[d]
    BY <2>1, CallGoesOn
  <2> QED BY <2>1, <2>2 DEF At
<1> QED
  BY <1>2, <1>3

(* The invariant is kept when a request begins.                            *)
LEMMA BeginKeepsInv ==
    ASSUME BookingInv, NEW c \in Callers, NEW pc, NEW kind,
           NEW slot \in Windows \cup {None}, NEW note \in Notes \cup {None},
           Begin(c, pc, kind, slot, note),
           <<pc, kind>> \in Does(c), pc # "inserting",
           kind \in {"book", "move"} => slot \in Windows,
           kind \notin {"book", "view"} => Active(row)
    PROVE  BookingInv'
<1>1. TypeOK /\ CallsAreOrderly /\ OneBooks /\ WindowIsOwn
  BY DEF BookingInv
<1>2. /\ TypeOK' /\ CallsAreOrderly' /\ call'[c].pc = pc
      /\ \A d \in Callers \ {c} : call'[d] = call[d]
  BY <1>1, CallBegins
<1>3. row' = row /\ others' = others
  BY DEF Begin, OnlyCalls
<1>4. \A d \in Chats : At(d, "inserting")' => At(d, "inserting") /\ call'[d] = call[d]
  BY <1>2 DEF At, Callers
<1>5. OneBooks'
  BY <1>1, <1>3, <1>4, BookingStays
<1> QED
  BY <1>1, <1>2, <1>3, <1>5 DEF BookingInv, WindowIsOwn

(* The invariant is kept when a request moves on and nothing else changes. *)
LEMMA MoveKeepsInv ==
    ASSUME BookingInv, NEW c \in Callers, Moves(c), OnlyCalls
    PROVE  BookingInv'
<1>1. TypeOK /\ CallsAreOrderly /\ OneBooks /\ WindowIsOwn
  BY DEF BookingInv
<1>2. /\ booked' = booked /\ row' = row /\ others' = others
  BY DEF OnlyCalls
<1>3. /\ call' \in [Callers -> Calls \cup {None}] /\ CallsAreOrderly'
      /\ \A d \in Callers : At(d, "inserting")' => At(d, "inserting") /\ call'[d] = call[d]
  BY <1>1, <1>2, CallMoves
<1>4. TypeOK'
  BY <1>1, <1>3 DEF OnlyCalls, TypeOK, answers
<1>5. OneBooks'
  BY <1>1, <1>2, <1>3, BookingStays DEF Callers
<1> QED
  BY <1>1, <1>2, <1>3, <1>4, <1>5 DEF BookingInv, WindowIsOwn

(* A row with another window is a row.                                     *)
LEMMA WindowIsSet ==
    ASSUME NEW r \in Rows, NEW w \in Windows \cup {None}
    PROVE  LET moved == [r EXCEPT !.window = w]
           IN  moved \in Rows /\ moved.event = r.event /\ moved.window = w
  BY DEF Rows

(* The invariant is kept when the row changes to one that is in order.     *)
LEMMA RowKeepsInv ==
    ASSUME BookingInv, NEW c \in Callers, Moves(c),
           UNCHANGED <<now, others, booked, slots, shown, edits>>,
           row' \in Rows, row'.event <= booked, row'.event # 0 => row'.window # None,
           row'.window \notin others, OneBooks',
           latest' \in Audits \cup {None}, answered' \in SUBSET Windows,
           latest' = None => answered' = {}, silent' \in BOOLEAN
    PROVE  BookingInv'
<1>1. TypeOK /\ CallsAreOrderly
  BY DEF BookingInv
<1>2. call' \in [Callers -> Calls \cup {None}] /\ CallsAreOrderly'
  BY <1>1, CallMoves
<1>3. TypeOK'
  BY <1>1, <1>2 DEF TypeOK
<1> QED
  BY <1>2, <1>3 DEF BookingInv, WindowIsOwn

(* reserveSlot: the unique index refuses a window that is taken, and a row *)
(* without window cannot be the one that another chat inserts.             *)
LEMMA ReserveKeepsInv ==
    ASSUME BookingInv, NEW c \in Chats, Reserve(c)
    PROVE  BookingInv'
<1>1. TypeOK /\ CallsAreOrderly /\ OneBooks /\ WindowIsOwn /\ c \in Callers /\ call[c] # None
  BY DEF BookingInv, Callers, Reserve, At
<1>2. call[c] \in Calls /\ Orderly(c, call[c], booked) /\ call[c].pc = "reserving"
  BY <1>1, CallIsKnown DEF Reserve, At
<1>3. call[c].kind = "book" /\ call[c].slot \in Windows
  BY <1>2 DEF Orderly, Does, ChatDoes
<1>4. row \in Rows /\ booked \in Nat /\ others' = others
  BY <1>1, BookingAssumption DEF TypeOK, Reserve
<1>5. CASE row.window = None /\ ~Taken(call[c].slot)
  <2>1. /\ row' = [row EXCEPT !.status = "ACCEPTED", !.window = call[c].slot]
        /\ Goto(c, "inserting") /\ silent' = (silent \/ latest # None) /\ booked' = booked
    BY <1>5 DEF Reserve
  <2>2. <<"inserting", call[c].kind>> \in Does(c)
    BY <1>3 DEF Does, ChatDoes
  <2>3. /\ call' \in [Callers -> Calls \cup {None}] /\ CallsAreOrderly'
        /\ call'[c] # None /\ call'[c].pc = "inserting" /\ call'[c].slot = call[c].slot
        /\ \A d \in Callers \ {c} : call'[d] = call[d]
    BY <1>1, <2>1, <2>2, CallGoesOn
  <2>4. /\ row' \in Rows /\ row'.event = row.event /\ row'.window = call[c].slot
        /\ row'.status = "ACCEPTED" /\ row.event = 0
    BY <1>1, <1>3, <1>4, <1>5, <2>1 DEF Rows, TypeOK
  <2>5. \A d \in Chats : ~At(d, "inserting")
    <3> SUFFICES ASSUME NEW d \in Chats, At(d, "inserting") PROVE FALSE
      OBVIOUS
    <3>1. row.window = call[d].slot /\ call[d] # None /\ call[d].pc = "inserting"
      BY <1>1 DEF OneBooks, At
    <3>2. Orderly(d, call[d], booked)
      BY <1>1, <3>1, CallIsKnown DEF Callers
    <3>3. call[d].slot \in Windows
      BY <3>1, <3>2 DEF Orderly, Does, ChatDoes
    <3> QED BY <1>5, <3>1, <3>3, BookingAssumption
  <2>6. OneBooks'
    BY <2>3, <2>4, <2>5 DEF OneBooks, At, Callers
  <2>7. WindowIsOwn'
    BY <1>4, <1>5, <2>4 DEF WindowIsOwn, Taken
  <2>8. TypeOK'
    BY <1>1, <1>3, <2>1, <2>3, <2>4, BookingAssumption DEF TypeOK, Reserve, answers
  <2> QED BY <2>3, <2>6, <2>7, <2>8 DEF BookingInv
<1>6. CASE ~(row.window = None /\ ~Taken(call[c].slot))
  <2>1. OnlyCalls /\ Moves(c)
    BY <1>6 DEF Reserve, OnlyCalls, Moves
  <2> QED BY <1>1, <2>1, MoveKeepsInv
<1> QED
  BY <1>5, <1>6

(* The event is inserted for the window that was reserved.                 *)
LEMMA InsertKeepsInv ==
    ASSUME BookingInv, NEW c \in Chats, Insert(c)
    PROVE  BookingInv'
<1>1. TypeOK /\ CallsAreOrderly /\ OneBooks /\ WindowIsOwn /\ c \in Callers /\ call[c] # None
  BY DEF BookingInv, Callers, Insert, At
<1>2. call[c] \in Calls /\ Orderly(c, call[c], booked) /\ call[c].pc = "inserting"
  BY <1>1, CallIsKnown DEF Insert, At
<1>3. call[c].kind = "book" /\ call[c].slot \in Windows
  BY <1>2 DEF Orderly, Does, ChatDoes
<1>4. /\ row \in Rows /\ booked \in 0..MaxBooked /\ MaxBooked \in Nat /\ others' = others
      /\ booked' = booked + 1 /\ booked < MaxBooked /\ row' = [row EXCEPT !.event = booked + 1]
      /\ Return(c)
  BY <1>1, BookingAssumption DEF TypeOK, Insert
<1>5. /\ row' \in Rows /\ row'.event = booked' /\ row'.window = row.window /\ booked' \in Nat
      /\ booked' \in 0..MaxBooked /\ booked' >= booked
  BY <1>4 DEF Rows
<1>6. /\ call' \in [Callers -> Calls \cup {None}] /\ CallsAreOrderly'
      /\ call'[c] = None /\ \A d \in Callers \ {c} : call'[d] = call[d]
  BY <1>1, <1>4, <1>5, CallReturns
<1>7. row.window = call[c].slot /\ \A d \in Chats : At(d, "inserting") => d = c
  BY <1>1 DEF OneBooks, Insert
<1>8. OneBooks'
  BY <1>6, <1>7 DEF OneBooks, At, Callers
<1>9. row'.window # None /\ row'.window \notin others
  BY <1>1, <1>3, <1>5, <1>7, BookingAssumption DEF WindowIsOwn
<1>10. TypeOK'
  BY <1>1, <1>5, <1>6, <1>9 DEF TypeOK, Insert, answers
<1> QED
  BY <1>4, <1>6, <1>8, <1>9, <1>10 DEF BookingInv, WindowIsOwn

(* A reservation is released when the calendar fails: nobody else inserts. *)
LEMMA InsertFailsKeepsInv ==
    ASSUME BookingInv, NEW c \in Chats, InsertFails(c)
    PROVE  BookingInv'
<1>1. TypeOK /\ OneBooks /\ WindowIsOwn /\ c \in Callers /\ CallsAreOrderly
  BY DEF BookingInv, Callers
<1>2. row \in Rows /\ row.event = 0 /\ \A d \in Chats : At(d, "inserting") => d = c
  BY <1>1 DEF TypeOK, OneBooks, InsertFails
<1>3. /\ row' = [row EXCEPT !.status = "CREATED", !.window = None] /\ Moves(c) /\ Return(c)
      /\ UNCHANGED <<now, others, booked, answers, slots, shown, silent, edits>>
  BY <1>2 DEF InsertFails, Moves
<1>4. row' \in Rows /\ row'.event = 0 /\ row'.window = None
  BY <1>2, <1>3 DEF Rows
<1>5. OneBooks'
  BY <1>1, <1>2, <1>3 DEF OneBooks, At, Return, Callers, TypeOK
<1>6. None \notin others
  BY <1>1, BookingAssumption DEF TypeOK
<1>7. /\ 0 <= booked /\ latest' = latest /\ answered' = answered /\ silent' = silent
      /\ UNCHANGED <<now, others, booked, slots, shown, edits>>
  BY <1>1, <1>3, BookingAssumption DEF TypeOK, answers
<1>8. /\ latest \in Audits \cup {None} /\ answered \in SUBSET Windows /\ silent \in BOOLEAN
      /\ latest = None => answered = {}
  BY <1>1 DEF TypeOK
<1> QED
  BY <1>1, <1>3, <1>4, <1>5, <1>6, <1>7, <1>8, RowKeepsInv

(* A move claims the row as it was read; the index refuses a taken window. *)
LEMMA MoveRowKeepsInv ==
    ASSUME BookingInv, NEW c \in Chats, MoveRow(c)
    PROVE  BookingInv'
<1>1. TypeOK /\ OneBooks /\ WindowIsOwn /\ c \in Callers /\ CallsAreOrderly /\ call[c] # None
  BY DEF BookingInv, Callers, MoveRow, At
<1>2. call[c] \in Calls /\ Orderly(c, call[c], booked) /\ call[c].pc = "moving"
  BY <1>1, CallIsKnown DEF MoveRow, At
<1>3. /\ call[c].kind = "move" /\ call[c].slot \in Windows
      /\ Active(call[c].read) /\ <<"patching", call[c].kind>> \in Does(c)
  BY <1>2 DEF Orderly, Does, ChatDoes
<1>4. Moves(c) /\ RowAndCalls
  <2>1. RowAndCalls /\ (Return(c) \/ Goto(c, "patching"))
    BY DEF MoveRow
  <2>2. CASE Return(c)
    BY <2>1, <2>2 DEF Moves
  <2>3. CASE Goto(c, "patching")
    BY <1>1, <1>3, <2>1, <2>3 DEF Moves, GoesOn
  <2> QED BY <2>1, <2>2, <2>3
<1>5. CASE RowIsAsRead(c) /\ ~Taken(call[c].slot)
  <2>1. row' = [row EXCEPT !.window = call[c].slot] /\ row \in Rows /\ row.event # 0
    BY <1>1, <1>3, <1>5 DEF MoveRow, RowIsAsRead, Active, TypeOK
  <2>2. row' \in Rows /\ row'.event = row.event /\ row'.window = call[c].slot
    BY <1>3, <2>1 DEF Rows
  <2>3. \A d \in Chats : ~(At(d, "inserting")')
    BY <1>1, <1>4, <2>1, CallMoves DEF OneBooks, RowAndCalls, Callers
  <2>4. OneBooks'
    BY <2>3 DEF OneBooks
  <2>5. row'.window # None /\ row'.window \notin others /\ row'.event <= booked
    BY <1>1, <1>3, <1>5, <2>2, BookingAssumption DEF Taken, TypeOK
  <2>6. /\ latest' \in Audits \cup {None} /\ answered' \in SUBSET Windows /\ silent' \in BOOLEAN
        /\ latest' = None => answered' = {}
        /\ UNCHANGED <<now, others, booked, slots, shown, edits>>
    BY <1>1, <1>4 DEF TypeOK, RowAndCalls, answers
  <2> QED BY <1>1, <1>4, <2>2, <2>4, <2>5, <2>6, RowKeepsInv
<1>6. CASE ~(RowIsAsRead(c) /\ ~Taken(call[c].slot))
  <2>1. OnlyCalls
    BY <1>4, <1>6 DEF MoveRow, OnlyCalls, RowAndCalls
  <2> QED BY <1>1, <1>4, <2>1, MoveKeepsInv
<1> QED
  BY <1>5, <1>6

(* A move that is undone takes its old window back only if it is still     *)
(* free.                                                                   *)
LEMMA UndoMoveKeepsInv ==
    ASSUME BookingInv, NEW c \in Chats, UndoMove(c)
    PROVE  BookingInv'
<1>1. TypeOK /\ OneBooks /\ WindowIsOwn /\ c \in Callers /\ CallsAreOrderly /\ call[c] # None
  BY DEF BookingInv, Callers, UndoMove, At
<1>2. call[c] \in Calls /\ Orderly(c, call[c], booked) /\ call[c].pc = "patching"
  BY <1>1, CallIsKnown DEF UndoMove, At
<1>3. PICK before : before = call[c].read
  OBVIOUS
<1>4. call[c].kind = "move" /\ before.window \in Windows \cup {None} /\ Active(before)
  BY <1>2, <1>3 DEF Orderly, Does, ChatDoes, Rows
<1>5. /\ Moves(c) /\ UNCHANGED <<now, others, booked, slots, shown, edits>>
      /\ silent' \in BOOLEAN /\ latest' \in Audits \cup {None} /\ answered' \in SUBSET Windows
      /\ latest' = None => answered' = {}
  BY <1>1 DEF UndoMove, Moves, answers, TypeOK
<1>6. /\ row \in Rows /\ row.event <= booked
      /\ row.event # 0 => row.window # None
      /\ row.window \notin others
  BY <1>1 DEF TypeOK, WindowIsOwn
<1>7. CASE row.event = before.event /\ row.window = call[c].slot /\ ~Taken(before.window)
  <2>1. row' = [row EXCEPT !.window = before.window]
    BY <1>3, <1>7 DEF UndoMove
  <2>2. row' \in Rows /\ row'.event = row.event /\ row'.window = before.window
    BY <1>4, <1>6, <2>1, WindowIsSet
  <2>3. row.event # 0
    BY <1>4, <1>7 DEF Active
  <2>4. OneBooks'
    BY <1>1, <1>5, <2>3, CallMoves DEF OneBooks, Callers
  <2>5. row'.window # None /\ row'.window \notin others
    BY <1>4, <1>7, <2>2 DEF Active, Taken
  <2> QED BY <1>1, <1>5, <1>6, <2>2, <2>4, <2>5, RowKeepsInv
<1>8. CASE ~(row.event = before.event /\ row.window = call[c].slot /\ ~Taken(before.window))
  <2>1. row' = row
    BY <1>3, <1>8 DEF UndoMove
  <2>2. OneBooks'
    BY <1>1, <1>5, <2>1, CallMoves, BookingStays DEF Callers
  <2> QED BY <1>1, <1>5, <1>6, <2>1, <2>2, RowKeepsInv
<1> QED
  BY <1>7, <1>8

(* A cancellation claims the row as it was read.                           *)
LEMMA CancelRowKeepsInv ==
    ASSUME BookingInv, NEW c \in Chats, CancelRow(c)
    PROVE  BookingInv'
<1>1. TypeOK /\ OneBooks /\ WindowIsOwn /\ c \in Callers /\ CallsAreOrderly /\ call[c] # None
  BY DEF BookingInv, Callers, CancelRow, At
<1>2. call[c] \in Calls /\ Orderly(c, call[c], booked) /\ call[c].pc = "cancelling"
  BY <1>1, CallIsKnown DEF CancelRow, At
<1>3. /\ call[c].kind = "cancel" /\ Active(call[c].read)
      /\ <<"deleting", call[c].kind>> \in Does(c)
  BY <1>2 DEF Orderly, Does, ChatDoes
<1>4. Moves(c) /\ RowAndCalls
  <2>1. RowAndCalls /\ (Return(c) \/ Goto(c, "deleting"))
    BY DEF CancelRow
  <2>2. CASE Return(c)
    BY <2>1, <2>2 DEF Moves
  <2>3. CASE Goto(c, "deleting")
    BY <1>1, <1>3, <2>1, <2>3 DEF Moves, GoesOn
  <2> QED BY <2>1, <2>2, <2>3
<1>5. CASE RowIsAsRead(c)
  <2>1. /\ row' = [row EXCEPT !.status = "CANCELLED", !.event = 0, !.window = None]
        /\ row \in Rows /\ row.event # 0 /\ MaxBooked \in Nat /\ 0 <= booked
    BY <1>1, <1>3, <1>5, BookingAssumption DEF CancelRow, RowIsAsRead, Active, TypeOK
  <2>2. row' \in Rows /\ row'.event = 0 /\ row'.window = None
    <3>1. row' = [status |-> "CANCELLED", window |-> None, event |-> 0, urgency |-> row.urgency]
      BY <2>1 DEF Rows
    <3> QED BY <2>1, <3>1 DEF Rows
  <2>3. OneBooks'
    BY <1>1, <1>4, <2>1, CallMoves DEF OneBooks, RowAndCalls, Callers
  <2>4. row'.window \notin others
    BY <1>1, <2>2, BookingAssumption DEF TypeOK
  <2>5. /\ latest' \in Audits \cup {None} /\ answered' \in SUBSET Windows /\ silent' \in BOOLEAN
        /\ latest' = None => answered' = {}
        /\ UNCHANGED <<now, others, booked, slots, shown, edits>>
    BY <1>1, <1>4 DEF TypeOK, RowAndCalls, answers
  <2> QED BY <1>1, <1>4, <2>1, <2>2, <2>3, <2>4, <2>5, RowKeepsInv
<1>6. CASE ~RowIsAsRead(c)
  <2>1. OnlyCalls
    BY <1>4, <1>6 DEF CancelRow, OnlyCalls, RowAndCalls
  <2> QED BY <1>1, <1>4, <2>1, MoveKeepsInv
<1> QED
  BY <1>5, <1>6

(* A cancellation that is undone takes its window back only if it is free. *)
LEMMA UndoCancelKeepsInv ==
    ASSUME BookingInv, NEW c \in Chats, UndoCancel(c)
    PROVE  BookingInv'
<1>1. TypeOK /\ OneBooks /\ WindowIsOwn /\ c \in Callers /\ CallsAreOrderly /\ call[c] # None
  BY DEF BookingInv, Callers, UndoCancel, At
<1>2. call[c] \in Calls /\ Orderly(c, call[c], booked) /\ call[c].pc = "deleting"
  BY <1>1, CallIsKnown DEF UndoCancel, At
<1>3. PICK before : before = call[c].read
  OBVIOUS
<1>4. /\ call[c].kind = "cancel" /\ Active(before) /\ before.event <= booked
      /\ before.window \in Windows \cup {None} /\ before.event \in 0..MaxBooked
  BY <1>2, <1>3 DEF Orderly, Does, ChatDoes, Rows
<1>5. /\ Moves(c) /\ UNCHANGED <<now, others, booked, slots, shown, edits>>
      /\ silent' \in BOOLEAN /\ latest' \in Audits \cup {None} /\ answered' \in SUBSET Windows
      /\ latest' = None => answered' = {}
  BY <1>1 DEF UndoCancel, Moves, answers, TypeOK
<1>6. /\ row \in Rows /\ row.event <= booked
      /\ row.event # 0 => row.window # None
      /\ row.window \notin others
  BY <1>1 DEF TypeOK, WindowIsOwn
<1>7. CASE row.status = "CANCELLED" /\ row.event = 0 /\ ~Taken(before.window)
  <2>1. row' = [row EXCEPT !.status = "ACCEPTED", !.event = before.event,
                           !.window = before.window]
    BY <1>3, <1>7 DEF UndoCancel
  <2>2. row' \in Rows /\ row'.event = before.event /\ row'.window = before.window
    <3>1. row' = [status |-> "ACCEPTED", window |-> before.window, event |-> before.event,
                  urgency |-> row.urgency]
      BY <1>6, <2>1 DEF Rows
    <3> QED BY <1>4, <1>6, <3>1 DEF Rows
  <2>3. OneBooks'
    BY <1>1, <1>5, <1>7, CallMoves DEF OneBooks, Callers
  <2>4. row'.window # None /\ row'.window \notin others
    BY <1>4, <1>7, <2>2 DEF Active, Taken
  <2> QED BY <1>1, <1>4, <1>5, <1>6, <2>2, <2>3, <2>4, RowKeepsInv
<1>8. CASE ~(row.status = "CANCELLED" /\ row.event = 0 /\ ~Taken(before.window))
  <2>1. row' = row
    BY <1>3, <1>8 DEF UndoCancel
  <2>2. OneBooks'
    BY <1>1, <1>5, <2>1, CallMoves, BookingStays DEF Callers
  <2> QED BY <1>1, <1>5, <1>6, <2>1, <2>2, RowKeepsInv
<1> QED
  BY <1>7, <1>8

(* An answer is recorded.                                                  *)
LEMMA RecordsKeepInv ==
    ASSUME BookingInv, NEW c \in Callers, Moves(c), NEW action, NEW note \in Notes \cup {None},
           NEW window \in Windows, Record(action, note, window),
           action \in {"confirmed", "reschedule_requested", "rescheduled"},
           UNCHANGED <<now, row, others, booked, slots, shown, edits>>, silent' \in BOOLEAN
    PROVE  BookingInv'
<1>1. TypeOK /\ OneBooks /\ WindowIsOwn /\ CallsAreOrderly
  BY DEF BookingInv
<1>2. latest' \in Audits /\ answered' \in SUBSET Windows
  BY <1>1 DEF Record, Audits, TypeOK
<1>3. latest' # None
  BY <1>2, BookingAssumption
<1>4. OneBooks'
  BY <1>1, CallMoves, BookingStays DEF Callers
<1>5. /\ row \in Rows /\ row.event <= booked /\ row.window \notin others
      /\ row.event # 0 => row.window # None
  BY <1>1 DEF TypeOK, WindowIsOwn
<1> QED
  BY <1>2, <1>3, <1>4, <1>5, RowKeepsInv

(* Every step of a chat keeps the invariant.                               *)
LEMMA ChatStep ==
    ASSUME BookingInv, NEW c \in Chats, Chat(c)
    PROVE  BookingInv'
<1>1. TypeOK /\ OneBooks /\ WindowIsOwn /\ CallsAreOrderly /\ c \in Callers
  BY DEF BookingInv, Callers
<1>2. Does(c) = ChatDoes
  BY DEF Does
<1>3. ASSUME NEW s \in slots, Choose(c, s) PROVE BookingInv'
  <2>1. s.window \in Windows /\ Begin(c, "checking", "book", s.window, None)
    BY <1>1, <1>3 DEF Choose, TypeOK
  <2>2. <<"checking", "book">> \in Does(c)
    BY <1>2 DEF ChatDoes
  <2> QED BY <1>1, <2>1, <2>2, BeginKeepsInv
<1>4. ASSUME NEW s \in slots, Move(c, s) PROVE BookingInv'
  <2>1. s.window \in Windows /\ Begin(c, "checking", "move", s.window, None) /\ Active(row)
    BY <1>1, <1>4 DEF Move, TypeOK
  <2>2. <<"checking", "move">> \in Does(c)
    BY <1>2 DEF ChatDoes
  <2> QED BY <1>1, <2>1, <2>2, BeginKeepsInv
<1>5. CASE Check(c)
  <2>1. call[c] # None /\ call[c].pc = "checking" /\ OnlyCalls
    BY <1>5 DEF Check, At
  <2>2. <<call[c].pc, call[c].kind>> \in ChatDoes
    BY <1>1, <1>2, <2>1, CallIsKnown DEF Orderly
  <2>3. Moves(c)
    BY <1>2, <1>5, <2>1, <2>2 DEF Check, Moves, GoesOn, ChatDoes
  <2> QED BY <1>1, <2>1, <2>3, MoveKeepsInv
<1>6. CASE Reserve(c)
  BY <1>6, ReserveKeepsInv
<1>7. CASE Insert(c)
  BY <1>7, InsertKeepsInv
<1>8. CASE InsertFails(c)
  BY <1>8, InsertFailsKeepsInv
<1>9. CASE Availability(c)
  <2>1. /\ slots' = Signed(Offers(now, CalendarBusy \cup Reserved)) /\ now \in Start..MaxNow
        /\ UNCHANGED <<now, row, others, booked, latest, answered, call, shown, silent, edits>>
    BY <1>1, <1>9 DEF Availability, TypeOK, answers
  <2>2. Offers(now, CalendarBusy \cup Reserved) \subseteq Windows
    BY <2>1, OffersAreWindows
  <2>3. now + TokenLife \in Start..(MaxNow + TokenLife)
    BY <2>1, BookingAssumption
  <2>4. slots' \in SUBSET [window : Windows, expires : Start..(MaxNow + TokenLife)]
    <3> SUFFICES ASSUME NEW s \in slots'
                 PROVE  s \in [window : Windows, expires : Start..(MaxNow + TokenLife)]
      OBVIOUS
    <3>1. PICK w \in Offers(now, CalendarBusy \cup Reserved) :
              s = [window |-> w, expires |-> now + TokenLife]
      BY <2>1 DEF Signed
    <3> QED BY <2>2, <2>3, <3>1
  <2>5. TypeOK'
    BY <1>1, <2>1, <2>4 DEF TypeOK
  <2> QED BY <1>1, <2>1, <2>5 DEF BookingInv, CallsAreOrderly, OneBooks, WindowIsOwn, At
<1>10. CASE MoveRow(c)
  BY <1>10, MoveRowKeepsInv
<1>11. CASE MoveRecorded(c)
  <2>1. call[c] # None /\ call[c].pc = "patching"
    BY <1>11 DEF MoveRecorded, At
  <2>2. call[c].slot \in Windows
    BY <1>1, <1>2, <2>1, CallIsKnown DEF Orderly, ChatDoes
  <2>3. PICK w \in Windows : w = call[c].slot
    BY <2>2
  <2>4. Record("rescheduled", None, w)
    BY <1>11, <2>3 DEF MoveRecorded, Record
  <2>5. Moves(c) /\ UNCHANGED <<now, row, others, booked, slots, shown, edits>>
        /\ silent' \in BOOLEAN
    BY <1>1, <1>11 DEF MoveRecorded, Moves, TypeOK
  <2> QED BY <1>1, <2>4, <2>5, RecordsKeepInv
<1>12. CASE UndoMove(c)
  BY <1>12, UndoMoveKeepsInv
<1>13. CASE Cancel(c)
  <2>1. <<"cancelling", "cancel">> \in Does(c)
    BY <1>2 DEF ChatDoes
  <2> QED BY <1>1, <1>13, <2>1, BeginKeepsInv DEF Cancel
<1>14. CASE CancelRow(c)
  BY <1>14, CancelRowKeepsInv
<1>15. CASE Cancelled(c)
  <2>1. Moves(c) /\ OnlyCalls
    BY <1>15 DEF Cancelled, Moves
  <2> QED BY <1>1, <2>1, MoveKeepsInv
<1>16. CASE UndoCancel(c)
  BY <1>16, UndoCancelKeepsInv
<1> QED
  BY <1>3, <1>4, <1>5, <1>6, <1>7, <1>8, <1>9, <1>10, <1>11, <1>12, <1>13, <1>14, <1>15, <1>16
     DEF Chat

(* What managementResponse tells a page is a booking.                      *)
LEMMA BookingIsTyped ==
    ASSUME NEW r \in Rows, NEW audit \in Audits \cup {None}
    PROVE  /\ ResponseState(audit) \in {"AWAITING_RESPONSE", "RESCHEDULE_REQUESTED", "CONFIRMED"}
           /\ [state |-> BookingState(r, ResponseState(audit)),
               actions |-> Actions(r, ResponseState(audit))] \in Bookings
<1>1. ResponseState(audit) \in {"AWAITING_RESPONSE", "RESCHEDULE_REQUESTED", "CONFIRMED"}
  BY BookingAssumption DEF ResponseState, Audits
<1>2. BookingState(r, ResponseState(audit)) \in
          {"REQUEST_RECEIVED", "PENDING_CUSTOMER_CONFIRMATION", "CONFIRMED",
           "RESCHEDULE_REQUESTED", "CANCELLED", "COMPLETED"}
  BY <1>1 DEF BookingState
<1>3. Actions(r, ResponseState(audit)) \in SUBSET {"confirm", "request_reschedule"}
  BY DEF Actions
<1> QED
  BY <1>1, <1>2, <1>3 DEF Bookings

(* Every step of a booking page keeps the invariant.                       *)
LEMMA PageStep ==
    ASSUME BookingInv, NEW p \in Pages, Page(p)
    PROVE  BookingInv'
<1>1. TypeOK /\ OneBooks /\ WindowIsOwn /\ CallsAreOrderly /\ p \in Callers
  BY DEF BookingInv, Callers
<1>2. Does(p) = PageDoes
  BY BookingAssumption DEF Does
<1>3. CASE View(p)
  <2>1. <<"responding", "view">> \in Does(p)
    BY <1>2 DEF PageDoes
  <2> QED BY <1>1, <1>3, <2>1, BeginKeepsInv DEF View
<1>4. ASSUME NEW kind \in {"confirm", "request_reschedule"}, NEW note \in Notes \cup {None},
             Answer(p, kind, note)
      PROVE  BookingInv'
  <2>1. <<"deciding", kind>> \in Does(p)
    BY <1>2 DEF PageDoes
  <2> QED BY <1>1, <1>4, <2>1, BeginKeepsInv DEF Answer
<1>5. ASSUME call[p] # None, call[p].pc \in {"deciding", "recording"}
      PROVE  /\ call[p].kind \in {"confirm", "request_reschedule"} /\ Active(call[p].read)
             /\ call[p].read \in Rows /\ call[p].note \in Notes \cup {None}
  BY <1>1, <1>2, <1>5, CallIsKnown DEF Orderly, PageDoes, Calls
<1>6. CASE Decide(p)
  <2>1. call[p] # None /\ call[p].pc = "deciding" /\ OnlyCalls
    BY <1>6 DEF Decide, At
  <2>2. Goto(p, "responding") \/ Goto(p, "recording")
    BY <1>6 DEF Decide
  <2>3. Moves(p)
    BY <1>2, <1>5, <2>1, <2>2 DEF Moves, GoesOn, PageDoes
  <2> QED BY <1>1, <2>1, <2>3, MoveKeepsInv
<1>7. CASE RecordAnswer(p)
  <2>1. call[p] # None /\ call[p].pc = "recording" /\ Goto(p, "responding")
    BY <1>7 DEF RecordAnswer, At
  <2>2. PICK w \in Windows, note \in Notes \cup {None} :
            w = call[p].read.window /\ note = call[p].note
    BY <1>5, <2>1 DEF Active, Rows
  <2>3. PICK action \in {"confirmed", "reschedule_requested"} :
            action = IF call[p].kind = "confirm" THEN "confirmed" ELSE "reschedule_requested"
    OBVIOUS
  <2>4. Record(action, note, w)
    BY <1>7, <2>2, <2>3 DEF RecordAnswer
  <2>5. Moves(p)
    BY <1>2, <1>5, <2>1 DEF Moves, GoesOn, PageDoes
  <2>6. /\ UNCHANGED <<now, row, others, booked, slots, shown, edits>>
        /\ silent' \in BOOLEAN
    BY <1>1, <1>7 DEF RecordAnswer, TypeOK
  <2> QED BY <1>1, <2>4, <2>5, <2>6, RecordsKeepInv
<1>8. CASE Respond(p)
  <2>1. call[p] # None /\ call[p].pc = "responding" /\ Return(p) /\ Moves(p)
    BY <1>8 DEF Respond, At, Moves
  <2>2. call[p].read \in Rows
    BY <1>1, <1>2, <2>1, CallIsKnown DEF Orderly, PageDoes
  <2>3. /\ UNCHANGED <<now, row, others, booked, latest, answered, slots, silent, edits>>
        /\ shown' = [shown EXCEPT ![p] =
               [state |-> BookingState(call[p].read, ResponseState(latest)),
                actions |-> Actions(call[p].read, ResponseState(latest))]]
    BY <1>8 DEF Respond, answers
  <2>4. shown' \in [Pages -> Bookings \cup {None}]
    BY <1>1, <2>2, <2>3, BookingIsTyped DEF TypeOK
  <2>5. /\ call' \in [Callers -> Calls \cup {None}] /\ CallsAreOrderly'
        /\ \A d \in Callers : At(d, "inserting")' => At(d, "inserting") /\ call'[d] = call[d]
    BY <1>1, <2>1, <2>3, CallMoves
  <2>6. OneBooks'
    BY <1>1, <2>3, <2>5, BookingStays DEF Callers
  <2>7. TypeOK'
    BY <1>1, <2>3, <2>4, <2>5 DEF TypeOK
  <2> QED BY <1>1, <2>3, <2>5, <2>6, <2>7 DEF BookingInv, WindowIsOwn
<1> QED
  BY <1>3, <1>4, <1>6, <1>7, <1>8 DEF Page

(* So do the other customers, the technician, the operator and time.       *)
LEMMA OtherStep ==
    ASSUME BookingInv,
           (\E w \in Candidates(now) : OthersBook(w)) \/ Complete \/ Override \/ TimePasses
    PROVE  BookingInv'
<1>1. TypeOK /\ OneBooks /\ WindowIsOwn /\ CallsAreOrderly
  BY DEF BookingInv
<1>2. CASE TimePasses
  <2>1. now' \in Start..MaxNow
    BY <1>1, <1>2, BookingAssumption DEF TimePasses, TypeOK
  <2>2. UNCHANGED <<row, others, booked, latest, answered, slots, call, shown, silent, edits>>
    BY <1>2 DEF TimePasses, answers
  <2>3. TypeOK'
    BY <1>1, <2>1, <2>2 DEF TypeOK
  <2> QED BY <1>1, <2>2, <2>3 DEF BookingInv, CallsAreOrderly, OneBooks, WindowIsOwn, At
<1>3. CASE ~TimePasses
  <2>1. edits' \in 0..MaxOthers
    BY <1>1, <1>3, BookingAssumption DEF TypeOK, OthersBook, Complete, Override, Edit
  <2>2. UNCHANGED <<now, booked, latest, answered, slots, call, shown, silent>>
    BY <1>3 DEF OthersBook, Complete, Override, answers
  <2>3. now \in Start..MaxNow
    BY <1>1 DEF TypeOK
  <2>4. ASSUME NEW w \in Candidates(now), OthersBook(w) PROVE BookingInv'
    <3>1. w \in Windows /\ w \notin others /\ w # row.window /\ others' = others \cup {w}
          /\ row' = row
      BY <2>3, <2>4, OffersAreWindows DEF OthersBook
    <3>2. TypeOK'
      BY <1>1, <2>1, <2>2, <3>1 DEF TypeOK
    <3> QED BY <1>1, <2>2, <3>1, <3>2
            DEF BookingInv, CallsAreOrderly, OneBooks, WindowIsOwn, At
  <2>5. CASE Complete \/ Override
    <3>1. /\ row' \in Rows /\ row'.window = row.window /\ row'.event = row.event
          /\ row'.status \in {row.status, "COMPLETED"} /\ others' = others
      BY <1>1, <2>5 DEF Complete, Override, TypeOK, Rows
    <3>2. TypeOK'
      BY <1>1, <2>1, <2>2, <3>1 DEF TypeOK
    <3> QED BY <1>1, <2>2, <3>1, <3>2
            DEF BookingInv, CallsAreOrderly, OneBooks, WindowIsOwn, At
  <2> QED BY <1>3, <2>4, <2>5
<1> QED
  BY <1>2, <1>3

(* The invariant holds at the start.                                       *)
LEMMA BookingHoldsFirst ==
    ASSUME Init
    PROVE  BookingInv
<1>1. Start \in Start..MaxNow /\ Start + TokenLife \in Start..(MaxNow + TokenLife)
  BY BookingAssumption
<1>2. slots \in SUBSET [window : Windows, expires : Start..(MaxNow + TokenLife)]
  BY <1>1, OffersAreWindows DEF Init
<1>3. row \in Rows /\ booked \in 0..MaxBooked /\ edits \in 0..MaxOthers
  BY BookingAssumption DEF Init, Rows
<1>4. /\ call \in [Callers -> Calls \cup {None}]
      /\ shown \in [Pages -> Bookings \cup {None}]
  BY DEF Init
<1>5. row.event = 0 /\ booked = 0 /\ now \in Start..MaxNow
  BY <1>1 DEF Init
<1>6. /\ others \in SUBSET Windows /\ latest \in Audits \cup {None}
      /\ answered \in SUBSET Windows /\ answered = {} /\ silent \in BOOLEAN
  BY DEF Init
<1>7. TypeOK
  BY <1>2, <1>3, <1>4, <1>5, <1>6 DEF TypeOK
<1> QED
  <2>1. others = {} /\ \A c \in Callers : call[c] = None
    BY DEF Init
  <2>2. CallsAreOrderly
    BY <2>1 DEF CallsAreOrderly
  <2>3. OneBooks
    BY <2>1 DEF OneBooks, At, Callers
  <2> QED BY <1>7, <2>1, <2>2, <2>3 DEF BookingInv, WindowIsOwn

(* The invariant that the theorems rest on.                                *)
LEMMA BookingHolds == Spec => []BookingInv
<1>1. Init => BookingInv
  BY BookingHoldsFirst
<1>2. BookingInv /\ [Next]_vars => BookingInv'
  <2> SUFFICES ASSUME BookingInv, [Next]_vars PROVE BookingInv'
    OBVIOUS
  <2>1. CASE Next
    BY <2>1, ChatStep, PageStep, OtherStep DEF Next
  <2>2. CASE UNCHANGED vars
    BY <2>2 DEF vars, answers, BookingInv, TypeOK, CallsAreOrderly, OneBooks, WindowIsOwn, At
  <2> QED BY <2>1, <2>2
<1> QED
  BY <1>1, <1>2, PTL DEF Spec

(* Every request, row, audit record and slot is what its type says; a row  *)
(* with a calendar event has a window.                                     *)
THEOREM TypeCorrect == Spec => []TypeOK
<1>1. BookingInv => TypeOK
  BY DEF BookingInv
<1> QED
  BY <1>1, BookingHolds, PTL

(* Every slot that the chat shows is a service window of a weekday by the  *)
(* clock of the tenant's zone, for any zone that obeys ClockIsSound on the *)
(* dates that can be offered.                                              *)
THEOREM OffersAreKept == Spec => []OffersAreServiceWindows
<1>1. BookingInv => OffersAreServiceWindows
  BY WindowIsService DEF BookingInv, TypeOK, OffersAreServiceWindows
<1> QED
  BY <1>1, BookingHolds, PTL

(* The unique index on the window alone keeps this appointment apart from  *)
(* every other, for any number of chats and pages and whatever the busy    *)
(* check saw: windows that differ do not overlap.                          *)
THEOREM NoOverlap == Spec => []AppointmentsDoNotOverlap
<1>1. BookingInv => AppointmentsDoNotOverlap
  <2> SUFFICES ASSUME BookingInv, row.window # None, NEW w \in others
               PROVE  ~Overlap(row.window, w)
    BY DEF AppointmentsDoNotOverlap, OverlapsBusy
  <2>1. row.window \in Windows /\ w \in Windows /\ row.window # w
    BY DEF BookingInv, TypeOK, Rows, WindowIsOwn
  <2> QED BY <2>1, WindowsAreApart
<1> QED
  BY <1>1, BookingHolds, PTL

-----------------------------------------------------------------------------
(* Between a claim and its end the row may yet go back to what was read:   *)
(* the window and the event that the answers are held against.             *)
SettledWindow(c) ==
    IF At(c, "patching") \/ At(c, "deleting") THEN call[c].read.window ELSE row.window
SettledEvent(c) == IF At(c, "deleting") THEN call[c].read.event ELSE row.event

(* With one chat the row stays as its claim has left it.                   *)
ChatHasTheRow(c) ==
    /\ At(c, "patching") => row.window = call[c].slot /\ row.event = call[c].read.event
    /\ At(c, "deleting") => row.window = None /\ row.event = 0
    /\ At(c, "inserting") => silent \/ latest = None

(* The latest answer, if it confirms, is backed by an answer that names    *)
(* the settled window, or the one a move in progress has set.              *)
LatestNamesTheWindow(c) ==
    SettledEvent(c) # 0 /\ ResponseState(latest) = "CONFIRMED" =>
        \/ SettledWindow(c) \in answered
        \/ At(c, "patching") /\ row.window \in answered

(* So will be the answers that are on their way.                           *)
AnswersNameTheWindow(c) ==
    \A p \in Pages :
        (At(p, "deciding") \/ At(p, "recording")) /\ call[p].read.event = SettledEvent(c) =>
            \/ SettledWindow(c) \in answered
            \/ call[p].read.window = SettledWindow(c)
            \/ At(c, "patching") /\ call[p].read.window = row.window

ChosenInv(c) == ChatHasTheRow(c) /\ (~silent => LatestNamesTheWindow(c) /\ AnswersNameTheWindow(c))

(* A caller's step leaves the requests of the others alone.                *)
LEMMA OthersWait ==
    ASSUME TypeOK, NEW c \in Callers, Chat(c) \/ Page(c)
    PROVE  \A d \in Callers \ {c} : call'[d] = call[d]
<1>1. call \in [Callers -> Calls \cup {None}]
  BY DEF TypeOK
<1>2. CASE UNCHANGED call
  BY <1>2
<1>3. CASE Return(c)
  BY <1>1, <1>3 DEF Return
<1>4. ASSUME NEW pc, Goto(c, pc) PROVE \A d \in Callers \ {c} : call'[d] = call[d]
  BY <1>1, <1>4 DEF Goto
<1>5. ASSUME NEW pc, NEW kind, NEW slot, NEW note, Begin(c, pc, kind, slot, note)
      PROVE  \A d \in Callers \ {c} : call'[d] = call[d]
  BY <1>1, <1>5 DEF Begin
<1>6. CASE Chat(c)
  <2>1. CASE \/ \E s \in slots : Choose(c, s) \/ Move(c, s)
             \/ Cancel(c) \/ Availability(c)
    BY <1>2, <1>5, <2>1 DEF Choose, Move, Cancel, Availability
  <2>2. CASE Check(c) \/ Reserve(c) \/ Insert(c) \/ InsertFails(c)
    BY <1>3, <1>4, <2>2 DEF Check, Reserve, Insert, InsertFails
  <2>3. CASE MoveRow(c) \/ MoveRecorded(c) \/ UndoMove(c)
    BY <1>3, <1>4, <2>3 DEF MoveRow, MoveRecorded, UndoMove
  <2>4. CASE CancelRow(c) \/ Cancelled(c) \/ UndoCancel(c)
    BY <1>3, <1>4, <2>4 DEF CancelRow, Cancelled, UndoCancel
  <2> QED BY <1>6, <2>1, <2>2, <2>3, <2>4 DEF Chat
<1>7. CASE Page(c)
  <2>1. CASE \/ View(c) \/ Answer(c, "confirm", None)
             \/ \E note \in Notes : Answer(c, "request_reschedule", note)
    BY <1>5, <2>1 DEF View, Answer
  <2>2. CASE Decide(c) \/ RecordAnswer(c) \/ Respond(c)
    BY <1>3, <1>4, <2>2 DEF Decide, RecordAnswer, Respond
  <2> QED BY <1>7, <2>1, <2>2 DEF Page
<1> QED
  BY <1>6, <1>7

(* A page is answered by managementResponse only.                          *)
LEMMA ResponseEnds ==
    ASSUME BookingInv, [Next]_vars, NEW p \in Pages, At(p, "responding"), call'[p] = None
    PROVE  Respond(p)
<1>1. TypeOK /\ p \in Callers /\ call[p] # None /\ call[p].pc = "responding"
  BY DEF BookingInv, At, Callers
<1>2. (\E c \in Chats : Chat(c)) \/ \E c \in Pages : Page(c)
  <2>1. call' # call
    BY <1>1
  <2>2. /\ ~UNCHANGED vars /\ ~Complete /\ ~Override /\ ~TimePasses
        /\ ~\E w \in Candidates(now) : OthersBook(w)
    BY <2>1 DEF vars, OthersBook, Complete, Override, TimePasses
  <2> QED BY <2>2 DEF Next
<1>3. \A c \in Chats : ~Chat(c)
  BY <1>1, OthersWait, BookingAssumption DEF Callers
<1>4. Page(p)
  BY <1>1, <1>2, <1>3, OthersWait DEF Callers
<1>5. ~Decide(p) /\ ~RecordAnswer(p) /\ ~View(p)
  BY <1>1 DEF Decide, RecordAnswer, View, Begin, At
<1>6. ASSUME NEW kind, NEW note PROVE ~Answer(p, kind, note)
  BY <1>1 DEF Answer, Begin
<1> QED
  BY <1>4, <1>5, <1>6 DEF Page

(* What a page is told of the customer's answer is what                    *)
(* customerBookingActivity shows to dispatch at that moment.               *)
THEOREM DispatchSees == Spec => DispatchSeesTheAnswer
<1> DEFINE Sees ==
        \A p \in Pages :
          At(p, "responding") /\ call'[p] = None /\ shown'[p].state \notin {"CANCELLED", "COMPLETED"}
          => BoardState(latest) = IF shown'[p].state \in {"CONFIRMED", "RESCHEDULE_REQUESTED"}
                                 THEN shown'[p].state ELSE "AWAITING_RESPONSE"
<1>1. BookingInv /\ [Next]_vars => Sees
  <2> SUFFICES ASSUME BookingInv, [Next]_vars, NEW p \in Pages, At(p, "responding"),
                      call'[p] = None, shown'[p].state \notin {"CANCELLED", "COMPLETED"}
               PROVE  BoardState(latest) =
                          IF shown'[p].state \in {"CONFIRMED", "RESCHEDULE_REQUESTED"}
                          THEN shown'[p].state ELSE "AWAITING_RESPONSE"
    OBVIOUS
  <2>1. Respond(p)
    BY ResponseEnds
  <2>2. TypeOK
    BY DEF BookingInv
  <2>3. shown'[p].state = BookingState(call[p].read, ResponseState(latest))
    BY <2>1, <2>2 DEF Respond, TypeOK
  <2>4. /\ latest \in Audits \cup {None}
        /\ ResponseState(latest) = BoardState(latest)
        /\ BoardState(latest) \in {"AWAITING_RESPONSE", "RESCHEDULE_REQUESTED", "CONFIRMED"}
    BY <2>2, BookingAssumption DEF TypeOK, ResponseState, BoardState, Audits
  <2> QED BY <2>3, <2>4 DEF BookingState
<1>2. BookingInv /\ [Next]_vars => [Sees]_vars
  BY <1>1
<1> QED
  BY <1>2, BookingHolds, PTL DEF Spec, DispatchSeesTheAnswer

-----------------------------------------------------------------------------
(* Nothing happens to the window that the answers name.                    *)
LEMMA ChosenIsKept ==
    ASSUME NEW c \in Chats, ChosenInv(c), ChatHasTheRow(c)',
           silent' = silent, latest' = latest, answered' = answered,
           \A p \in Pages : call'[p] = call[p],
           SettledEvent(c)' \in {SettledEvent(c), 0},
           SettledEvent(c)' # 0 => SettledWindow(c)' = SettledWindow(c),
           At(c, "patching") => At(c, "patching")' /\ row'.window = row.window,
           \A p \in Pages : At(p, "deciding") \/ At(p, "recording") => call[p].read.event # 0
    PROVE  ChosenInv(c)'
<1> SUFFICES ASSUME ~silent'
             PROVE  LatestNamesTheWindow(c)' /\ AnswersNameTheWindow(c)'
  BY DEF ChosenInv
<1>1. LatestNamesTheWindow(c) /\ AnswersNameTheWindow(c)
  BY DEF ChosenInv
<1>2. LatestNamesTheWindow(c)'
  <2> SUFFICES ASSUME SettledEvent(c)' # 0, ResponseState(latest)' = "CONFIRMED"
               PROVE  \/ SettledWindow(c)' \in answered
                      \/ At(c, "patching")' /\ row'.window \in answered
    BY DEF LatestNamesTheWindow
  <2>1. SettledEvent(c) # 0 /\ ResponseState(latest) = "CONFIRMED"
    BY DEF ResponseState
  <2>2. \/ SettledWindow(c) \in answered
        \/ At(c, "patching") /\ row.window \in answered
    BY <1>1, <2>1 DEF LatestNamesTheWindow
  <2> QED BY <2>2
<1>3. AnswersNameTheWindow(c)'
  <2> SUFFICES ASSUME NEW p \in Pages, At(p, "deciding")' \/ At(p, "recording")',
                      call'[p].read.event = SettledEvent(c)'
               PROVE  \/ SettledWindow(c)' \in answered
                      \/ call'[p].read.window = SettledWindow(c)'
                      \/ At(c, "patching")' /\ call'[p].read.window = row'.window
    BY DEF AnswersNameTheWindow
  <2>1. /\ At(p, "deciding") \/ At(p, "recording")
        /\ call'[p] = call[p] /\ call[p].read.event = SettledEvent(c)
        /\ SettledWindow(c)' = SettledWindow(c)
    BY DEF At
  <2>2. \/ SettledWindow(c) \in answered
        \/ call[p].read.window = SettledWindow(c)
        \/ At(c, "patching") /\ call[p].read.window = row.window
    BY <1>1, <2>1 DEF AnswersNameTheWindow
  <2> QED BY <2>1, <2>2
<1> QED
  BY <1>2, <1>3

(* What a chat may be doing.                                               *)
LEMMA ChatIsKnown ==
    ASSUME BookingInv, NEW c \in Chats, call[c] # None
    PROVE  /\ call[c] \in Calls /\ Orderly(c, call[c], booked)
           /\ <<call[c].pc, call[c].kind>> \in ChatDoes
  BY CallIsKnown DEF BookingInv, Callers, Orderly, Does

(* What a page may be doing; it answers for a booking that was active.     *)
LEMMA PageIsKnown ==
    ASSUME BookingInv, NEW p \in Pages, call[p] # None
    PROVE  /\ call[p] \in Calls /\ Orderly(p, call[p], booked)
           /\ <<call[p].pc, call[p].kind>> \in PageDoes
           /\ call[p].pc \in {"deciding", "recording"} =>
                Active(call[p].read) /\ call[p].read \in Rows /\ call[p].read.event <= booked
<1>1. Does(p) = PageDoes
  BY BookingAssumption DEF Does
<1>2. /\ call[p] \in Calls /\ Orderly(p, call[p], booked)
      /\ <<call[p].pc, call[p].kind>> \in PageDoes
  BY <1>1, CallIsKnown DEF BookingInv, Callers, Orderly
<1> QED
  BY <1>2 DEF Orderly, PageDoes

(* A step of the chat keeps the answers and the window together.           *)
LEMMA ChosenByChat ==
    ASSUME BookingInv, NEW c \in Chats, Chat(c), ChosenInv(c)
    PROVE  ChosenInv(c)'
<1>1. TypeOK /\ OneBooks /\ CallsAreOrderly /\ c \in Callers
  BY DEF BookingInv, Callers
<1>2. \A p \in Pages : call'[p] = call[p]
  BY <1>1, OthersWait, BookingAssumption DEF Callers
<1>3. \A p \in Pages : At(p, "deciding") \/ At(p, "recording") =>
          call[p].read.event # 0 /\ call[p].read.event <= booked /\ call[p].read.event \in Nat
  <2> SUFFICES ASSUME NEW p \in Pages, At(p, "deciding") \/ At(p, "recording")
               PROVE  call[p].read.event # 0 /\ call[p].read.event <= booked
                      /\ call[p].read.event \in Nat
    OBVIOUS
  <2>1. Active(call[p].read) /\ call[p].read \in Rows /\ call[p].read.event <= booked
    BY PageIsKnown DEF At
  <2> QED BY <2>1, BookingAssumption DEF Active, Rows
<1>4. call \in [Callers -> Calls \cup {None}] /\ row \in Rows
  BY <1>1 DEF TypeOK
<1>4a. Return(c) =>
          ~(At(c, "patching")') /\ ~(At(c, "deleting")') /\ ~(At(c, "inserting")')
  BY <1>1, <1>4 DEF Return, At
<1>5. ASSUME NEW pc, NEW kind, NEW slot, NEW note, Begin(c, pc, kind, slot, note),
             pc \in {"checking", "cancelling"}
      PROVE  ChosenInv(c)'
  <2>1. /\ ~At(c, "patching") /\ ~At(c, "deleting") /\ ~At(c, "inserting")
        /\ ~(At(c, "patching")') /\ ~(At(c, "deleting")') /\ ~(At(c, "inserting")')
    BY <1>4, <1>5 DEF Begin, At
  <2>2. UNCHANGED <<row, latest, answered, silent>>
    BY <1>5 DEF Begin, OnlyCalls, answers
  <2>3. ChatHasTheRow(c)'
    BY <2>1 DEF ChatHasTheRow
  <2>4. SettledEvent(c)' = SettledEvent(c) /\ SettledWindow(c)' = SettledWindow(c)
    BY <2>1, <2>2 DEF SettledEvent, SettledWindow
  <2> QED BY <1>2, <1>3, <2>1, <2>2, <2>3, <2>4, ChosenIsKept
<1>6. CASE \/ \E s \in slots : Choose(c, s) \/ Move(c, s)
           \/ Cancel(c)
  BY <1>5, <1>6 DEF Choose, Move, Cancel
<1>7. CASE Check(c)
  <2>1. /\ ~At(c, "patching") /\ ~At(c, "deleting") /\ ~At(c, "inserting")
        /\ ~(At(c, "patching")') /\ ~(At(c, "deleting")') /\ ~(At(c, "inserting")')
    BY <1>4, <1>7 DEF Check, At, Goto, Return, Calls
  <2>2. UNCHANGED <<row, latest, answered, silent>>
    BY <1>7 DEF Check, OnlyCalls, answers
  <2>3. ChatHasTheRow(c)'
    BY <2>1 DEF ChatHasTheRow
  <2>4. SettledEvent(c)' = SettledEvent(c) /\ SettledWindow(c)' = SettledWindow(c)
    BY <2>1, <2>2 DEF SettledEvent, SettledWindow
  <2> QED BY <1>2, <1>3, <2>1, <2>2, <2>3, <2>4, ChosenIsKept
<1>8. CASE Availability(c)
  <2>1. UNCHANGED <<row, latest, answered, silent, call>>
    BY <1>8 DEF Availability, answers
  <2> QED BY <2>1 DEF ChosenInv, ChatHasTheRow, LatestNamesTheWindow, AnswersNameTheWindow,
                      SettledEvent, SettledWindow, At
(* At the start of a booking nobody has answered, or the change is silent. *)
<1>9. CASE Reserve(c)
  <2>1. /\ ~At(c, "patching") /\ ~At(c, "deleting") /\ ~At(c, "inserting")
        /\ ~(At(c, "patching")') /\ ~(At(c, "deleting")')
    BY <1>4, <1>9 DEF Reserve, At, Goto, Return, Calls
  <2>2. CASE row.window = None /\ ~Taken(call[c].slot)
    <3>1. /\ row' = [row EXCEPT !.status = "ACCEPTED", !.window = call[c].slot]
          /\ silent' = (silent \/ latest # None) /\ latest' = latest
      BY <1>9, <2>2 DEF Reserve, answers
    <3>2. row'.event = 0
      BY <1>1, <1>4, <2>2, <3>1 DEF TypeOK, Rows
    <3>3. SettledEvent(c)' = 0
      BY <2>1, <3>2 DEF SettledEvent
    <3>4. ChatHasTheRow(c)'
      BY <2>1, <3>1 DEF ChatHasTheRow
    <3>5. LatestNamesTheWindow(c)' /\ AnswersNameTheWindow(c)'
      BY <1>2, <1>3, <3>3 DEF LatestNamesTheWindow, AnswersNameTheWindow, At
    <3> QED BY <3>4, <3>5 DEF ChosenInv
  <2>3. CASE ~(row.window = None /\ ~Taken(call[c].slot))
    <3>1. UNCHANGED <<row, latest, answered, silent>> /\ Return(c)
      BY <1>9, <2>3 DEF Reserve, answers
    <3>2. ~(At(c, "inserting")')
      BY <1>4a, <3>1
    <3>3. ChatHasTheRow(c)'
      BY <2>1, <3>2 DEF ChatHasTheRow
    <3>4. SettledEvent(c)' = SettledEvent(c) /\ SettledWindow(c)' = SettledWindow(c)
      BY <2>1, <3>1 DEF SettledEvent, SettledWindow
    <3> QED BY <1>2, <1>3, <2>1, <3>1, <3>3, <3>4, ChosenIsKept
  <2> QED BY <2>2, <2>3
<1>10. CASE Insert(c) \/ InsertFails(c)
  <2>1. /\ ~(At(c, "patching")') /\ ~(At(c, "deleting")') /\ ~(At(c, "inserting")')
        /\ At(c, "inserting") /\ UNCHANGED <<latest, answered, silent>>
    BY <1>4a, <1>10 DEF Insert, InsertFails, answers
  <2>2. ChatHasTheRow(c)'
    BY <2>1 DEF ChatHasTheRow
  <2>3. row.event = 0
    BY <1>1, <2>1 DEF OneBooks
  <2>4. row'.event \in {0, booked + 1} /\ booked \in Nat
    <3>1. booked \in Nat
      BY <1>1, BookingAssumption DEF TypeOK
    <3>2. CASE Insert(c)
      BY <1>4, <3>1, <3>2 DEF Insert, Rows
    <3>3. CASE InsertFails(c)
      BY <1>4, <2>3, <3>1, <3>3 DEF InsertFails, Rows
    <3> QED BY <1>10, <3>2, <3>3
  <2>5. SettledEvent(c)' = row'.event
    BY <2>1 DEF SettledEvent
  <2>6. silent \/ latest = None
    BY <2>1 DEF ChosenInv, ChatHasTheRow
  <2>7. AnswersNameTheWindow(c)'
    BY <1>2, <1>3, <2>4, <2>5 DEF AnswersNameTheWindow, At
  <2>8. ~silent' => LatestNamesTheWindow(c)'
    BY <2>1, <2>6 DEF LatestNamesTheWindow, ResponseState
  <2> QED BY <2>2, <2>7, <2>8 DEF ChosenInv
<1>11. CASE MoveRow(c)
  <2>1. /\ call[c] # None /\ call[c].pc = "moving" /\ RowAndCalls
        /\ ~At(c, "patching") /\ ~At(c, "deleting") /\ ~At(c, "inserting")
    BY <1>11 DEF MoveRow, At
  <2>2. UNCHANGED <<latest, answered, silent>>
    BY <2>1 DEF RowAndCalls, answers
  <2>3. CASE RowIsAsRead(c) /\ ~Taken(call[c].slot)
    <3>1. row' = [row EXCEPT !.window = call[c].slot] /\ Goto(c, "patching")
      BY <1>11, <2>3 DEF MoveRow
    <3>2. row'.window = call[c].slot /\ row'.event = row.event
      BY <1>4, <3>1 DEF Rows
    <3>3. /\ call'[c] # None /\ call'[c].pc = "patching" /\ call'[c].slot = call[c].slot
          /\ call'[c].read = call[c].read
      <4>1. <<"patching", call[c].kind>> \in Does(c) /\ booked' = booked
        BY <2>1, ChatIsKnown DEF ChatDoes, Does, RowAndCalls
      <4> QED BY <1>1, <2>1, <3>1, <4>1, CallGoesOn
    <3>4. row.event = call[c].read.event /\ row.window = call[c].read.window
      BY <2>3 DEF RowIsAsRead
    <3>5. ChatHasTheRow(c)'
      BY <3>2, <3>3, <3>4 DEF ChatHasTheRow, At
    <3>6. SettledEvent(c)' = SettledEvent(c) /\ SettledWindow(c)' = SettledWindow(c)
      BY <2>1, <3>2, <3>3, <3>4 DEF SettledEvent, SettledWindow, At
    <3> QED BY <1>2, <1>3, <2>1, <2>2, <3>5, <3>6, ChosenIsKept
  <2>4. CASE ~(RowIsAsRead(c) /\ ~Taken(call[c].slot))
    <3>1. row' = row /\ Return(c)
      BY <1>11, <2>4 DEF MoveRow
    <3>2. ~(At(c, "patching")') /\ ~(At(c, "deleting")') /\ ~(At(c, "inserting")')
      BY <1>4a, <3>1
    <3>3. ChatHasTheRow(c)'
      BY <3>2 DEF ChatHasTheRow
    <3>4. SettledEvent(c)' = SettledEvent(c) /\ SettledWindow(c)' = SettledWindow(c)
      BY <2>1, <3>1, <3>2 DEF SettledEvent, SettledWindow
    <3> QED BY <1>2, <1>3, <2>1, <2>2, <3>3, <3>4, ChosenIsKept
  <2> QED BY <2>3, <2>4
(* A move that is recorded is itself the answer. *)
<1>12. CASE MoveRecorded(c)
  <2>1. /\ ~(At(c, "patching")') /\ ~(At(c, "deleting")') /\ ~(At(c, "inserting")')
        /\ At(c, "patching") /\ row' = row
    BY <1>4a, <1>12 DEF MoveRecorded
  <2>2. call[c].slot \in answered'
    BY <1>12 DEF MoveRecorded, Record
  <2>3. SettledWindow(c)' = call[c].slot
    BY <2>1 DEF SettledWindow, ChosenInv, ChatHasTheRow
  <2> QED BY <2>1, <2>2, <2>3
          DEF ChosenInv, ChatHasTheRow, LatestNamesTheWindow, AnswersNameTheWindow
(* A move that is undone is silent, or no answer names the new window. *)
<1>13. CASE UndoMove(c)
  <2>1. /\ ~(At(c, "patching")') /\ ~(At(c, "deleting")') /\ ~(At(c, "inserting")')
        /\ At(c, "patching") /\ call[c] # None /\ UNCHANGED <<latest, answered>>
    BY <1>4a, <1>13 DEF UndoMove, At, answers
  <2>2. ChatHasTheRow(c)'
    BY <2>1 DEF ChatHasTheRow
  <2> SUFFICES ASSUME ~silent'
               PROVE  LatestNamesTheWindow(c)' /\ AnswersNameTheWindow(c)'
    BY <2>2 DEF ChosenInv
  <2>3. /\ ~silent /\ row.event = call[c].read.event /\ row.window = call[c].slot
        /\ call[c].slot \notin answered
        /\ \A p \in Pages : call[p] # None => call[p].read.window # call[c].slot
        /\ row' = [row EXCEPT !.window = call[c].read.window]
    BY <1>13 DEF UndoMove
  <2>4. row'.window = call[c].read.window /\ row'.event = row.event
    BY <1>4, <2>3 DEF Rows
  <2>5. SettledEvent(c)' = SettledEvent(c) /\ SettledWindow(c)' = SettledWindow(c)
    BY <2>1, <2>4 DEF SettledEvent, SettledWindow, At
  <2>6. LatestNamesTheWindow(c) /\ AnswersNameTheWindow(c)
    BY <2>3 DEF ChosenInv
  <2>7. LatestNamesTheWindow(c)'
    BY <2>1, <2>3, <2>5, <2>6 DEF LatestNamesTheWindow
  <2>8. AnswersNameTheWindow(c)'
    BY <1>2, <2>1, <2>3, <2>5, <2>6 DEF AnswersNameTheWindow, At
  <2> QED BY <2>7, <2>8
<1>14. CASE CancelRow(c)
  <2>1. /\ call[c] # None /\ call[c].pc = "cancelling" /\ RowAndCalls
        /\ ~At(c, "patching") /\ ~At(c, "deleting") /\ ~At(c, "inserting")
    BY <1>14 DEF CancelRow, At
  <2>2. UNCHANGED <<latest, answered, silent>>
    BY <2>1 DEF RowAndCalls, answers
  <2>3. CASE RowIsAsRead(c)
    <3>1. row' = [row EXCEPT !.status = "CANCELLED", !.event = 0, !.window = None]
          /\ Goto(c, "deleting")
      BY <1>14, <2>3 DEF CancelRow
    <3>2. row'.window = None /\ row'.event = 0
      BY <1>4, <3>1 DEF Rows
    <3>3. call'[c] # None /\ call'[c].pc = "deleting" /\ call'[c].read = call[c].read
      <4>1. <<"deleting", call[c].kind>> \in Does(c) /\ booked' = booked
        BY <2>1, ChatIsKnown DEF ChatDoes, Does, RowAndCalls
      <4> QED BY <1>1, <2>1, <3>1, <4>1, CallGoesOn
    <3>4. row.event = call[c].read.event /\ row.window = call[c].read.window
      BY <2>3 DEF RowIsAsRead
    <3>5. ChatHasTheRow(c)'
      BY <3>2, <3>3 DEF ChatHasTheRow, At
    <3>6. SettledEvent(c)' = SettledEvent(c) /\ SettledWindow(c)' = SettledWindow(c)
      BY <2>1, <3>3, <3>4 DEF SettledEvent, SettledWindow, At
    <3> QED BY <1>2, <1>3, <2>1, <2>2, <3>5, <3>6, ChosenIsKept
  <2>4. CASE ~RowIsAsRead(c)
    <3>1. row' = row /\ Return(c)
      BY <1>14, <2>4 DEF CancelRow
    <3>2. ~(At(c, "patching")') /\ ~(At(c, "deleting")') /\ ~(At(c, "inserting")')
      BY <1>4a, <3>1
    <3>3. ChatHasTheRow(c)'
      BY <3>2 DEF ChatHasTheRow
    <3>4. SettledEvent(c)' = SettledEvent(c) /\ SettledWindow(c)' = SettledWindow(c)
      BY <2>1, <3>1, <3>2 DEF SettledEvent, SettledWindow
    <3> QED BY <1>2, <1>3, <2>1, <2>2, <3>3, <3>4, ChosenIsKept
  <2> QED BY <2>3, <2>4
<1>15. CASE Cancelled(c) \/ UndoCancel(c)
  <2>1. /\ ~(At(c, "patching")') /\ ~(At(c, "deleting")') /\ ~(At(c, "inserting")')
        /\ At(c, "deleting") /\ ~At(c, "patching") /\ UNCHANGED <<latest, answered, silent>>
    BY <1>4a, <1>15 DEF Cancelled, UndoCancel, At, answers, OnlyCalls
  <2>2. ChatHasTheRow(c)'
    BY <2>1 DEF ChatHasTheRow
  <2>3. row.event = 0
    BY <2>1 DEF ChosenInv, ChatHasTheRow
  <2>4. \/ row' = row
        \/ row' = [row EXCEPT !.status = "ACCEPTED", !.event = call[c].read.event,
                              !.window = call[c].read.window]
    BY <1>15 DEF Cancelled, UndoCancel, OnlyCalls
  <2>5. /\ row'.event \in {0, call[c].read.event}
        /\ row'.event # 0 => row'.window = call[c].read.window
    BY <1>4, <2>3, <2>4 DEF Rows
  <2>6. /\ SettledEvent(c)' \in {SettledEvent(c), 0}
        /\ SettledEvent(c)' # 0 => SettledWindow(c)' = SettledWindow(c)
    BY <2>1, <2>5 DEF SettledEvent, SettledWindow, At
  <2> QED BY <1>2, <1>3, <2>1, <2>2, <2>6, ChosenIsKept
<1> QED
  BY <1>6, <1>7, <1>8, <1>9, <1>10, <1>11, <1>12, <1>13, <1>14, <1>15 DEF Chat

(* So does a step of a page: an answer that arrives late names the window  *)
(* as it was when the page was read, which is the settled one, or the one  *)
(* a move in progress has set, or one that another answer has replaced, or *)
(* it is of a booking that is gone.                                        *)
LEMMA ChosenByPage ==
    ASSUME BookingInv, NEW c \in Chats, NEW p \in Pages, Page(p), ChosenInv(c)
    PROVE  ChosenInv(c)'
<1>1. TypeOK /\ CallsAreOrderly /\ p \in Callers /\ c \in Callers /\ c # p
  BY BookingAssumption DEF BookingInv, Callers
<1>2. /\ \A d \in Callers \ {p} : call'[d] = call[d]
      /\ call'[c] = call[c] /\ call \in [Callers -> Calls \cup {None}] /\ row \in Rows
  BY <1>1, OthersWait DEF TypeOK
<1>3. row' = row
  BY DEF Page, View, Answer, Begin, OnlyCalls, Decide, RecordAnswer, Respond
<1>4. /\ SettledWindow(c)' = SettledWindow(c) /\ SettledEvent(c)' = SettledEvent(c)
      /\ \A pc : At(c, pc)' <=> At(c, pc)
  BY <1>2, <1>3 DEF SettledWindow, SettledEvent, At
<1>5. ASSUME UNCHANGED <<latest, answered, silent>>,
             At(p, "deciding")' \/ At(p, "recording")' =>
               \/ (At(p, "deciding") \/ At(p, "recording")) /\ call'[p].read = call[p].read
               \/ call'[p].read = row /\ Active(row)
      PROVE  ChosenInv(c)'
  <2>1. ChatHasTheRow(c)'
    BY <1>2, <1>3, <1>4, <1>5 DEF ChosenInv, ChatHasTheRow
  <2> SUFFICES ASSUME ~silent'
               PROVE  LatestNamesTheWindow(c)' /\ AnswersNameTheWindow(c)'
    BY <2>1 DEF ChosenInv
  <2>2. LatestNamesTheWindow(c) /\ AnswersNameTheWindow(c)
    BY <1>5 DEF ChosenInv
  <2>3. LatestNamesTheWindow(c)'
    BY <1>3, <1>4, <1>5, <2>2 DEF LatestNamesTheWindow
  <2>4. ASSUME NEW q \in Pages, At(q, "deciding")' \/ At(q, "recording")',
               call'[q].read.event = SettledEvent(c)
        PROVE  \/ SettledWindow(c) \in answered
               \/ call'[q].read.window = SettledWindow(c)
               \/ At(c, "patching") /\ call'[q].read.window = row.window
    <3>1. CASE (At(q, "deciding") \/ At(q, "recording")) /\ call'[q].read = call[q].read
      BY <2>2, <2>4, <3>1 DEF AnswersNameTheWindow
    <3>2. CASE q = p /\ call'[q].read = row /\ Active(row)
      <4>1. ~At(c, "deleting")
        BY <3>2 DEF ChosenInv, ChatHasTheRow, Active
      <4> QED BY <3>2, <4>1 DEF SettledWindow
    <3>3. q # p => (At(q, "deciding") \/ At(q, "recording")) /\ call'[q].read = call[q].read
      BY <1>2, <2>4 DEF At, Callers
    <3> QED BY <1>5, <2>4, <3>1, <3>2, <3>3
  <2>5. AnswersNameTheWindow(c)'
    BY <1>3, <1>4, <1>5, <2>4 DEF AnswersNameTheWindow
  <2> QED BY <2>3, <2>5
<1>6. CASE View(p)
  <2>1. UNCHANGED <<latest, answered, silent>>
    BY <1>6 DEF View, Begin, OnlyCalls, answers
  <2>2. ~(At(p, "deciding")') /\ ~(At(p, "recording")')
    BY <1>1, <1>2, <1>6 DEF View, Begin, At
  <2> QED BY <1>5, <2>1, <2>2
<1>7. ASSUME NEW kind \in {"confirm", "request_reschedule"}, NEW note, Answer(p, kind, note)
      PROVE  ChosenInv(c)'
  <2>1. UNCHANGED <<latest, answered, silent>> /\ Active(row)
    BY <1>7 DEF Answer, Begin, OnlyCalls, answers
  <2>2. call'[p].read = row
    BY <1>1, <1>2, <1>7 DEF Answer, Begin
  <2> QED BY <1>5, <2>1, <2>2
<1>8. CASE Decide(p)
  <2>1. UNCHANGED <<latest, answered, silent>> /\ At(p, "deciding")
    BY <1>8 DEF Decide, OnlyCalls, answers
  <2>2. PICK pc : Goto(p, pc)
    BY <1>8 DEF Decide
  <2>3. call[p] \in Calls
    BY <1>1, <2>1, CallIsKnown DEF At
  <2>4. call'[p].read = call[p].read
    BY <1>1, <1>2, <2>2, <2>3 DEF Goto, Calls
  <2> QED BY <1>5, <2>1, <2>4
(* What is recorded names the window of the booking that was read, or the  *)
(* booking is another one by now.                                          *)
<1>9. CASE RecordAnswer(p)
  <2>1. call[p] # None /\ call[p].pc = "recording" /\ At(p, "recording")
    BY <1>9 DEF RecordAnswer, At
  <2>2. Active(call[p].read) /\ call[p].read.event # 0
    BY <2>1, PageIsKnown DEF Active
  <2>3. silent' = (silent \/ row.event # call[p].read.event) /\ answered \subseteq answered'
    BY <1>9 DEF RecordAnswer, Record
  <2>4. At(c, "inserting") => silent'
    BY <1>1, <2>2, <2>3 DEF OneBooks, BookingInv
  <2>5. ChatHasTheRow(c)'
    BY <1>2, <1>3, <1>4, <2>4 DEF ChosenInv, ChatHasTheRow
  <2> SUFFICES ASSUME ~silent'
               PROVE  LatestNamesTheWindow(c)' /\ AnswersNameTheWindow(c)'
    BY <2>5 DEF ChosenInv
  <2>6. AnswersNameTheWindow(c) /\ row.event = call[p].read.event
    BY <2>3 DEF ChosenInv
  <2>7. SettledEvent(c) = call[p].read.event
    BY <2>2, <2>6 DEF SettledEvent, ChosenInv, ChatHasTheRow
  <2>8. \/ SettledWindow(c) \in answered
        \/ call[p].read.window = SettledWindow(c)
        \/ At(c, "patching") /\ call[p].read.window = row.window
    BY <2>1, <2>6, <2>7 DEF AnswersNameTheWindow
  <2>9. LatestNamesTheWindow(c)'
    <3> SUFFICES ASSUME ResponseState(latest)' = "CONFIRMED"
                 PROVE  \/ SettledWindow(c) \in answered'
                        \/ At(c, "patching") /\ row.window \in answered'
      BY <1>3, <1>4 DEF LatestNamesTheWindow
    <3>1. call[p].kind = "confirm"
      BY <1>9 DEF RecordAnswer, Record, ResponseState
    <3>2. call[p].read.window \in answered'
      BY <1>9, <3>1 DEF RecordAnswer, Record
    <3> QED BY <2>3, <2>8, <3>2
  <2>10. ~(At(p, "deciding")') /\ ~(At(p, "recording")')
    <3>1. call[p] \in Calls /\ Goto(p, "responding")
      BY <1>1, <1>9, <2>1, CallIsKnown DEF RecordAnswer
    <3>2. call'[p].pc = "responding"
      BY <1>1, <1>2, <3>1 DEF Goto, Calls
    <3> QED BY <3>2 DEF At
  <2>11. AnswersNameTheWindow(c)'
    <3> SUFFICES ASSUME NEW q \in Pages, At(q, "deciding")' \/ At(q, "recording")',
                        call'[q].read.event = SettledEvent(c)
                 PROVE  \/ SettledWindow(c) \in answered'
                        \/ call'[q].read.window = SettledWindow(c)
                        \/ At(c, "patching") /\ call'[q].read.window = row.window
      BY <1>3, <1>4 DEF AnswersNameTheWindow
    <3>1. call'[q] = call[q]
      BY <1>2, <2>10 DEF Callers
    <3>2. (At(q, "deciding") \/ At(q, "recording")) /\ call[q].read.event = SettledEvent(c)
      BY <3>1 DEF At
    <3>3. \/ SettledWindow(c) \in answered
          \/ call[q].read.window = SettledWindow(c)
          \/ At(c, "patching") /\ call[q].read.window = row.window
      BY <2>6, <3>2 DEF AnswersNameTheWindow
    <3> QED BY <2>3, <3>1, <3>3
  <2> QED BY <2>9, <2>11
<1>10. CASE Respond(p)
  <2>1. UNCHANGED <<latest, answered, silent>> /\ Return(p)
    BY <1>10 DEF Respond, answers
  <2>2. ~(At(p, "deciding")') /\ ~(At(p, "recording")')
    BY <1>1, <1>2, <2>1 DEF Return, At
  <2> QED BY <1>5, <2>1, <2>2
<1> QED
  BY <1>6, <1>7, <1>8, <1>9, <1>10 DEF Page

(* Nobody else touches the window, the event or the answers.               *)
LEMMA ChosenByOthers ==
    ASSUME BookingInv, NEW c \in Chats, ChosenInv(c),
           \/ \E w \in Candidates(now) : OthersBook(w)
           \/ Complete \/ Override \/ TimePasses \/ UNCHANGED vars
    PROVE  ChosenInv(c)'
<1>1. UNCHANGED <<latest, answered, silent, call>>
  BY DEF OthersBook, Complete, Override, TimePasses, vars, answers
<1>2. row'.window = row.window /\ row'.event = row.event
  BY DEF OthersBook, Complete, Override, TimePasses, vars, BookingInv, TypeOK, Rows
<1> QED
  BY <1>1, <1>2 DEF ChosenInv, ChatHasTheRow, LatestNamesTheWindow, AnswersNameTheWindow,
                    SettledEvent, SettledWindow, At

(* For one chat and any number of booking pages: dispatch reads CONFIRMED  *)
(* only of a window that the customer confirmed or moved to, unless the    *)
(* window became another's since in a way that `silent' records or a move  *)
(* is in progress. With two chats a move may be recorded after the other   *)
(* chat has cancelled and booked anew.                                     *)
THEOREM ConfirmedMeansChosen ==
    ASSUME NEW chat, Chats = {chat}
    PROVE  Spec => []ConfirmedWindowWasChosen
<1>1. Init => ChosenInv(chat)
  <2> SUFFICES ASSUME Init PROVE ChosenInv(chat)
    OBVIOUS
  <2>1. row.event = 0 /\ latest = None /\ \A d \in Callers : call[d] = None
    BY DEF Init
  <2>2. \A d \in Callers : \A pc : ~At(d, pc)
    BY <2>1 DEF At
  <2> QED BY <2>1, <2>2 DEF ChosenInv, ChatHasTheRow, LatestNamesTheWindow,
                           AnswersNameTheWindow, ResponseState, Callers
<1>2. BookingInv /\ ChosenInv(chat) /\ [Next]_vars => ChosenInv(chat)'
  BY ChosenByChat, ChosenByPage, ChosenByOthers DEF Next
<1>3. BookingInv /\ ChosenInv(chat) => ConfirmedWindowWasChosen
  <2> SUFFICES ASSUME BookingInv, ChosenInv(chat), Active(row), ~Moving, ~silent,
                      BookingState(row, ResponseState(latest)) = "CONFIRMED"
               PROVE  row.window \in answered
    BY DEF ConfirmedWindowWasChosen
  <2>1. ResponseState(latest) = "CONFIRMED"
    BY DEF BookingState
  <2>2. ~At(chat, "patching") /\ ~At(chat, "deleting")
    BY DEF Moving, Active, ChosenInv, ChatHasTheRow
  <2> QED BY <2>1, <2>2
          DEF ChosenInv, LatestNamesTheWindow, SettledEvent, SettledWindow, Active
<1> QED
  BY <1>1, <1>2, <1>3, BookingHolds, PTL DEF Spec
=============================================================================
