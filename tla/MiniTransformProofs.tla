------------------------- MODULE MiniTransformProofs -------------------------
(***************************************************************************)
(* That every row of a file is classified exactly once, for files of any   *)
(* length and rows of any kind, what alone ends the operation (an auction  *)
(* dated after its flow start, a number that overflows, a date at an end   *)
(* of the calendar), and that an accepted row has the one product its      *)
(* delivery period fits, for any calendar.                                 *)
(***************************************************************************)
EXTENDS MiniTransform, TLAPS

\* The verdicts: classify_product and the order of the rules leave no other.
LEMMA VerdictType ==
  ASSUME NEW row
  PROVE  Verdict(row) \in Reason \cup {"accepted", "filtered", "raised"}
BY DEF Verdict, Reason

\* A period that _row has accepted ends after it starts by the local clock too,
\* because the clock of UTC never runs against it: the first of the two rules
\* of the constructor refuses nothing.
LEMMA ProductHasDuration ==
  ASSUME NEW start \in Int, NEW end \in Int, Classify(start, end) # "unresolved"
  PROVE  end > start
<1>1. Duration(start, end) \in Int /\ Duration(start, end) > 0
  <2>1. Duration(start, end) \in Int
    BY ClockAssumption DEF Duration, Elapsed
  <2>2. ~(Duration(start, end) <= 0)
    BY DEF Classify
  <2> QED BY <2>1, <2>2
<1>2. Elapsed(end) \in Int /\ Elapsed(start) \in Int /\ Elapsed(end) > Elapsed(start)
  BY <1>1, ClockAssumption DEF Duration, Elapsed
<1> QED BY <1>2, ClockAssumption DEF Elapsed

LEMMA DayAndHour ==
  ASSUME NEW t \in Int
  PROVE  Day(t) \in Int /\ Hour(t) \in 0..23 /\ t = 24 * Day(t) + Hour(t)
BY DEF Day, Hour

\* The calendar is one: its days and months are in order.
LEMMA Calendar ==
  /\ Months = 1..Len(MonthStart) /\ Len(MonthStart) \in Nat /\ Len(MonthStart) >= 12
  /\ Len(MonthStart) % 12 = 0
  /\ MinDay \in Nat /\ MaxDay \in Nat
  /\ \A m \in Months : MonthStart[m] \in MinDay..MaxDay
  /\ \A m, k \in Months : m <= k => MonthStart[m] <= MonthStart[k]
<1>1. Months = 1..Len(MonthStart) /\ Len(MonthStart) \in Nat /\ Len(MonthStart) # 0
  BY CalendarAssumption DEF Months
<1>2. Len(MonthStart) % 12 = 0 /\ Len(MonthStart) >= 12
  BY <1>1, CalendarAssumption
<1>3. \A m \in Months : MonthStart[m] \in Nat /\ MonthStart[m] <= MaxDay
  BY <1>1, CalendarAssumption DEF Months
<1>4. ASSUME NEW m \in Months, NEW k \in Months, m <= k
      PROVE  MonthStart[m] <= MonthStart[k]
  <2>1. CASE m = k BY <1>3, <2>1
  <2>2. CASE m < k BY <1>3, <2>2, CalendarAssumption DEF Months
  <2> QED BY <1>1, <1>4, <2>1, <2>2
<1>5. 1 \in Months
  BY <1>1
<1>6. MinDay \in Nat /\ \A m \in Months : MinDay <= MonthStart[m]
  BY <1>1, <1>3, <1>4, <1>5 DEF MinDay
<1> QED BY <1>1, <1>2, <1>3, <1>4, <1>6, CalendarAssumption

\* The months that begin a quarter and a gas year, counted through the calendar.
LEMMA FirstMonths ==
  ASSUME NEW m \in Nat
  PROVE  /\ MonthOf(m) = 10 => m % 12 = 10 /\ (m - 10) % 12 = 0
         /\ MonthOf(m) \in {1, 4, 7, 10} => (m - 1) % 3 = 0
<1> DEFINE q == (m - 1) \div 12
           r == (m - 1) % 12
<1>1. q \in Int /\ r \in 0..11 /\ m - 1 = (12 * q) + r /\ MonthOf(m) = r + 1
  BY DEF MonthOf
<1> HIDE DEF q, r
<1>2. MonthOf(m) = 10 => m % 12 = 10 /\ (m - 10) % 12 = 0
  BY <1>1
<1>3. MonthOf(m) \in {1, 4, 7, 10} => (m - 1) % 3 = 0
  <2>1. ASSUME NEW k \in 0..3, r = 3 * k PROVE (m - 1) % 3 = 0
    BY <1>1, <2>1
  <2> QED BY <1>1, <2>1
<1> QED BY <1>2, <1>3

\* Only in the last quarter of the calendar does a product have no last month.
LEMMA LastQuarter ==
  ASSUME NEW start \in Int, NoSuchMonth(start)
  PROVE  Day(start) >= MonthStart[Len(MonthStart) - 2]
<1>1. PICK m \in Months : /\ Day(start) = MonthStart[m]
                          /\ \/ m + 1 \notin Months
                             \/ m + 3 \notin Months /\ MonthOf(m) \in {1, 4, 7, 10}
                             \/ m + 12 \notin Months /\ MonthOf(m) \in {10}
  BY DEF NoSuchMonth, SpansBeyond
<1>2. m \in 1..Len(MonthStart)
  BY Calendar
<1>3. m >= Len(MonthStart) - 2
  <2>1. CASE m + 1 \notin Months BY <1>2, <2>1, Calendar
  <2>2. CASE m + 3 \notin Months /\ MonthOf(m) \in {1, 4, 7, 10}
    BY <1>2, <2>2, Calendar DEF MonthOf
  <2>3. CASE m + 12 \notin Months /\ MonthOf(m) \in {10}
    <3>1. m % 12 = 10
      BY <1>2, <2>3, FirstMonths
    <3> QED BY <1>2, <2>3, <3>1, Calendar
  <2> QED BY <1>1, <2>1, <2>2, <2>3
<1>4. Len(MonthStart) - 2 \in Months
  BY Calendar
<1> QED BY <1>1, <1>2, <1>3, <1>4, Calendar

\* Where classify_product raises a plain error: no later month, no earlier day,
\* no next day.
LEMMA ClassifyRaises ==
  ASSUME NEW start \in 24 * MinDay .. 24 * MaxDay + 23, NEW end \in Int,
         Classify(start, end) = "raised"
  PROVE  Day(start) = MinDay \/ Day(start) >= MonthStart[Len(MonthStart) - 2]
<1> DEFINE gasDay == IF Hour(start) < Boundary THEN Day(start) - 1 ELSE Day(start)
<1>1. NoSuchMonth(start) \/ gasDay \notin MinDay..(MaxDay - 1)
  BY Zenon DEF Classify
<1>2. MinDay \in Nat /\ MaxDay \in Nat /\ start \in Int
  BY Calendar
<1>3. Day(start) \in MinDay..MaxDay
  BY <1>2, DayAndHour
<1>4. Len(MonthStart) - 2 \in Months
  BY Calendar
<1>5. MonthStart[Len(MonthStart) - 2] \in MinDay..MaxDay
  BY <1>4, Calendar
<1>6. CASE gasDay \notin MinDay..(MaxDay - 1)
  BY <1>2, <1>3, <1>5, <1>6
<1> QED BY <1>1, <1>2, <1>6, LastQuarter

\* The only defects of a row that end the operation.
LEMMA RaisedHasCause ==
  ASSUME NEW row \in Row, Verdict(row) = "raised"
  PROVE  Misdated(row) \/ Overflowing(row) \/ AtAnEndOfTime(row)
<1>1. /\ MinDay \in Nat /\ MaxDay \in Nat
      /\ row.start \in Time /\ row.end \in Time /\ row.auction \in Time
  BY Calendar DEF Row
<1>2. row.start \in Int /\ row.end \in Int /\ row.auction \in Int
  BY <1>1 DEF Time, BadTime
<1>3. \/ BeforeUtc(row.auction) \/ BeforeUtc(row.start) \/ BeforeUtc(row.end)
      \/ Parses(row.start) /\ Product(row) = "raised"
      \/ "huge" \in {row.capacity, row.tariff, row.surcharge}
      \/ Product(row) # "unresolved" /\ ConstructorRefuses(row)
  BY DEF Verdict
<1>4. ASSUME NEW t \in Int, BeforeUtc(t) PROVE Day(t) = MinDay
  BY <1>1, <1>4 DEF BeforeUtc, Day
<1>5. CASE Parses(row.start) /\ Product(row) = "raised"
  <2>1. row.start \in 24 * MinDay .. 24 * MaxDay + 23
    BY <1>1, <1>5 DEF Parses, Time
  <2> QED BY <1>2, <1>5, <2>1, ClassifyRaises DEF Product, AtAnEndOfTime
<1>6. CASE Product(row) # "unresolved" /\ ConstructorRefuses(row)
  <2>1. row.end > row.start
    BY <1>2, <1>6, ProductHasDuration DEF Product
  <2> QED BY <1>2, <1>6, <2>1 DEF ConstructorRefuses, Misdated
<1> QED BY <1>2, <1>3, <1>4, <1>5, <1>6 DEF Overflowing, AtAnEndOfTime

LEMMA ProductType ==
  ASSUME NEW row, Verdict(row) = "accepted"
  PROVE  Product(row) \in Products
<1>1. Product(row) \notin {"unresolved", "raised"}
  BY DEF Verdict
<1>2. Product(row) \in Products \cup {"unresolved", "raised"}
  <2> SUFFICES ASSUME NEW start, NEW end
               PROVE  Classify(start, end) \in Products \cup {"unresolved", "raised"}
    BY DEF Product
  <2> QED BY Zenon DEF Classify, Products
<1> QED BY <1>1, <1>2

\* Every variable keeps its type, for any rows and any length of the file.
THEOREM TypeCorrect == Spec => []TypeOK
<1>1. Init => TypeOK
  <2> SUFFICES ASSUME Init PROVE TypeOK
    OBVIOUS
  <2>1. records \in Seq(Accepted) /\ failures \in Seq(Rejected)
    BY DEF Init
  <2>2. number \in 1..(MaxRows + 1) /\ filtered \in Nat
    BY BoundsAssumption DEF Init
  <2>3. /\ outcome \in {"reading", "parsed", "invalid", "cancelled", "raised"}
        /\ cancel \in BOOLEAN /\ last \in Rows \cup {NoRow}
    BY Zenon DEF Init
  <2> QED BY <2>1, <2>2, <2>3 DEF TypeOK
<1>2. TypeOK /\ [Next]_vars => TypeOK'
  <2> SUFFICES ASSUME TypeOK, [Next]_vars PROVE TypeOK'
    OBVIOUS
  <2> USE BoundsAssumption DEF TypeOK
  <2>1. CASE FileInvalid BY <2>1 DEF FileInvalid, End
  <2>2. CASE Cancel BY <2>2 DEF Cancel
  <2>3. CASE StopCancelled BY <2>3 DEF StopCancelled, End
  <2>4. CASE EndOfFile BY <2>4 DEF EndOfFile, End
  <2>5. ASSUME NEW row \in Rows, Accept(row) PROVE TypeOK'
    <3>1. [row |-> number + 1, product |-> Product(row)] \in Accepted
      BY <2>5, ProductType DEF Accept, Accepted
    <3> QED BY <2>5, <3>1 DEF Accept, NextRow
  <2>6. ASSUME NEW row \in Rows, Filter(row) PROVE TypeOK'
    BY <2>6 DEF Filter, NextRow
  <2>7. ASSUME NEW row \in Rows, Reject(row) PROVE TypeOK'
    <3>1. [row |-> number + 1, reason |-> Verdict(row)] \in Rejected
      BY <2>7, VerdictType DEF Reject, Rejected
    <3> QED BY <2>7, <3>1 DEF Reject, NextRow
  <2>8. ASSUME NEW row \in Rows, Raise(row) PROVE TypeOK'
    BY <2>8 DEF Raise, NextRow
  <2>9. CASE UNCHANGED vars BY <2>9 DEF vars
  <2> QED BY <2>1, <2>2, <2>3, <2>4, <2>5, <2>6, <2>7, <2>8, <2>9 DEF Next
<1> QED BY <1>1, <1>2, PTL DEF Spec

\* The numbers of a sequence whose rows have grown by the row read last.
LEMMA AppendedNumbers ==
  ASSUME NEW s, NEW n \in Nat, NEW e, e.row = n + 1, NEW S, s \in Seq(S), e \in S,
         NumbersOf(s) \subseteq 2..n, n >= 1, \A r \in S : r.row \in Nat,
         \A k \in DOMAIN s : k > 1 => s[k - 1].row < s[k].row
  PROVE  /\ NumbersOf(Append(s, e)) = NumbersOf(s) \cup {n + 1}
         /\ \A k \in DOMAIN Append(s, e) : k > 1 =>
              Append(s, e)[k - 1].row < Append(s, e)[k].row
         /\ Len(Append(s, e)) = Len(s) + 1
<1> DEFINE t == Append(s, e)
<1>1. /\ Len(t) = Len(s) + 1 /\ DOMAIN t = 1..(Len(s) + 1) /\ DOMAIN s = 1..Len(s)
      /\ Len(s) \in Nat
      /\ \A k \in 1..Len(s) : t[k] = s[k]
      /\ t[Len(s) + 1] = e
  OBVIOUS
<1> HIDE DEF t
<1>2. NumbersOf(t) = NumbersOf(s) \cup {n + 1}
  BY <1>1 DEF NumbersOf
<1>3. ASSUME NEW k \in DOMAIN t, k > 1 PROVE t[k - 1].row < t[k].row
  <2>1. CASE k <= Len(s)
    <3>1. k \in DOMAIN s /\ k - 1 \in 1..Len(s) BY <1>1, <1>3, <2>1
    <3> QED BY <1>1, <1>3, <2>1, <3>1
  <2>2. CASE k = Len(s) + 1
    <3>1. k - 1 \in DOMAIN s BY <1>1, <1>3, <2>2
    <3>2. s[k - 1].row \in 2..n BY <3>1 DEF NumbersOf
    <3> QED BY <1>1, <1>3, <2>2, <3>1, <3>2
  <2> QED BY <1>1, <1>3, <2>1, <2>2
<1> QED BY <1>1, <1>2, <1>3 DEF t

\* Every row that was read is classified once, under its own number, and only an
\* auction dated after its flow start, a number that overflows or a date at an
\* end of the calendar ends the operation: for any file and any calendar.
THEOREM EachRowClassified == Spec => []RowsClassified
<1>1. Init => RowsClassified
  BY DEF Init, RowsClassified, NumbersOf
<1>2. TypeOK /\ RowsClassified /\ [Next]_vars => RowsClassified'
  <2> SUFFICES ASSUME TypeOK, RowsClassified, [Next]_vars PROVE RowsClassified'
    OBVIOUS
  <2> USE BoundsAssumption
  <2>0. /\ number \in Nat /\ number >= 1 /\ filtered \in Nat
        /\ Len(records) \in Nat /\ Len(failures) \in Nat
    BY DEF TypeOK
  <2>1. CASE FileInvalid BY <2>1, <2>0 DEF FileInvalid, End, RowsClassified
  <2>2. CASE Cancel BY <2>2, <2>0 DEF Cancel, RowsClassified
  <2>3. CASE StopCancelled BY <2>3, <2>0 DEF StopCancelled, End, RowsClassified
  <2>4. CASE EndOfFile BY <2>4, <2>0 DEF EndOfFile, End, RowsClassified
  <2>5. ASSUME NEW row \in Rows, Accept(row) PROVE RowsClassified'
    <3> DEFINE e == [row |-> number + 1, product |-> Product(row)]
    <3>1. e \in Accepted /\ e.row = number + 1
      BY <2>5, <2>0, ProductType DEF Accept, Accepted
    <3>2. /\ NumbersOf(records') = NumbersOf(records) \cup {number + 1}
          /\ \A k \in DOMAIN records' : k > 1 => records'[k - 1].row < records'[k].row
          /\ Len(records') = Len(records) + 1
      <4>1. /\ records \in Seq(Accepted) /\ \A r \in Accepted : r.row \in Nat
            /\ NumbersOf(records) \subseteq 2..number
            /\ \A k \in DOMAIN records : k > 1 => records[k - 1].row < records[k].row
        BY <2>0 DEF TypeOK, RowsClassified, Accepted
      <4>2. records' = Append(records, e)
        BY <2>5 DEF Accept
      <4> HIDE DEF e
      <4> QED BY <3>1, <4>1, <4>2, <2>0, AppendedNumbers
    <3>3. /\ number' = number + 1 /\ outcome = "reading"
          /\ UNCHANGED <<outcome, failures, filtered>>
      BY <2>5 DEF Accept, NextRow
    <3> HIDE DEF e
    <3>4. /\ NumbersOf(records') \cup NumbersOf(failures') \subseteq 2..number'
          /\ NumbersOf(records') \cap NumbersOf(failures') = {}
      BY <3>2, <3>3, <2>0 DEF RowsClassified
    <3>5. Len(records') + Len(failures') + filtered' = number' - 1
      BY <3>2, <3>3, <2>0 DEF RowsClassified
    <3>6. \A k \in DOMAIN failures' : k > 1 => failures'[k - 1].row < failures'[k].row
      BY <3>3 DEF RowsClassified
    <3> QED BY <3>2, <3>3, <3>4, <3>5, <3>6 DEF RowsClassified, NumbersOf
  <2>6. ASSUME NEW row \in Rows, Filter(row) PROVE RowsClassified'
    <3>1. /\ number' = number + 1 /\ outcome = "reading" /\ filtered' = filtered + 1
          /\ UNCHANGED <<outcome, records, failures>>
      BY <2>6 DEF Filter, NextRow
    <3>2. /\ NumbersOf(records') \cup NumbersOf(failures') \subseteq 2..number'
          /\ NumbersOf(records') \cap NumbersOf(failures') = {}
      BY <3>1, <2>0 DEF RowsClassified
    <3>3. Len(records') + Len(failures') + filtered' = number' - 1
      BY <3>1, <2>0 DEF RowsClassified
    <3>4. \A s \in {records', failures'} : \A k \in DOMAIN s : k > 1 => s[k - 1].row < s[k].row
      BY <3>1 DEF RowsClassified
    <3> QED BY <3>1, <3>2, <3>3, <3>4 DEF RowsClassified, NumbersOf
  <2>7. ASSUME NEW row \in Rows, Reject(row) PROVE RowsClassified'
    <3> DEFINE e == [row |-> number + 1, reason |-> Verdict(row)]
    <3>1. e \in Rejected /\ e.row = number + 1
      BY <2>7, <2>0, VerdictType DEF Reject, Rejected
    <3>2. /\ NumbersOf(failures') = NumbersOf(failures) \cup {number + 1}
          /\ \A k \in DOMAIN failures' : k > 1 => failures'[k - 1].row < failures'[k].row
          /\ Len(failures') = Len(failures) + 1
      <4>1. /\ failures \in Seq(Rejected) /\ \A r \in Rejected : r.row \in Nat
            /\ NumbersOf(failures) \subseteq 2..number
            /\ \A k \in DOMAIN failures : k > 1 => failures[k - 1].row < failures[k].row
        BY <2>0 DEF TypeOK, RowsClassified, Rejected
      <4>2. failures' = Append(failures, e)
        BY <2>7 DEF Reject
      <4> HIDE DEF e
      <4> QED BY <3>1, <4>1, <4>2, <2>0, AppendedNumbers
    <3>3. /\ number' = number + 1 /\ outcome = "reading"
          /\ UNCHANGED <<outcome, records, filtered>>
      BY <2>7 DEF Reject, NextRow
    <3> HIDE DEF e
    <3>4. /\ NumbersOf(records') \cup NumbersOf(failures') \subseteq 2..number'
          /\ NumbersOf(records') \cap NumbersOf(failures') = {}
      BY <3>2, <3>3, <2>0 DEF RowsClassified
    <3>5. Len(records') + Len(failures') + filtered' = number' - 1
      BY <3>2, <3>3, <2>0 DEF RowsClassified
    <3>6. \A k \in DOMAIN records' : k > 1 => records'[k - 1].row < records'[k].row
      BY <3>3 DEF RowsClassified
    <3> QED BY <3>2, <3>3, <3>4, <3>5, <3>6 DEF RowsClassified, NumbersOf
  <2>8. ASSUME NEW row \in Rows, Raise(row) PROVE RowsClassified'
    <3>1. Misdated(row) \/ Overflowing(row) \/ AtAnEndOfTime(row)
      BY <2>8, RaisedHasCause, RowsAssumption DEF Raise
    <3>2. /\ number' = number + 1 /\ outcome = "reading" /\ outcome' = "raised" /\ last' = row
          /\ UNCHANGED <<records, failures, filtered>>
      BY <2>8 DEF Raise, NextRow
    <3> QED BY <3>1, <3>2, <2>0 DEF RowsClassified
  <2>9. CASE UNCHANGED vars BY <2>9 DEF vars, RowsClassified
  <2> QED BY <2>1, <2>2, <2>3, <2>4, <2>5, <2>6, <2>7, <2>8, <2>9 DEF Next
<1> QED BY <1>1, <1>2, TypeCorrect, PTL DEF Spec

-----------------------------------------------------------------------------
(* What classify_product says of a delivery period is what the products mean. *)

\* The months a product of n months begins with, and how Fits counts them.
Firsts(n) == CASE n = 1 -> 1..12 [] n = 3 -> {1, 4, 7, 10} [] n = 12 -> {10}
First(n) == IF n = 12 THEN 10 ELSE 1

\* Periods of months, for every length a product has.
LEMMA SpansCovers ==
  ASSUME NEW start \in Int, NEW end \in Int,
         Hour(start) = Boundary, Hour(end) = Boundary,
         NEW n \in {1, 3, 12}, Spans(start, end, n, Firsts(n))
  PROVE  Covers(start, end, n, n, First(n))
<1>1. PICK m \in Months : /\ MonthOf(m) \in Firsts(n) /\ m + n \in Months
                          /\ Day(start) = MonthStart[m]
                          /\ Day(end) = MonthStart[m + n]
  BY DEF Spans
<1>2. m \in Nat /\ m >= 1
  BY Calendar
<1>3. start = GasDayBegins(MonthStart[m]) /\ end = GasDayBegins(MonthStart[m + n])
  BY <1>1, DayAndHour DEF GasDayBegins
<1>4. (m - First(n)) % n = 0
  <2>1. CASE n = 1 BY <1>2, <2>1 DEF First
  <2>2. CASE n = 3 BY <1>1, <1>2, <2>2, FirstMonths DEF First, Firsts
  <2>3. CASE n = 12 BY <1>1, <1>2, <2>3, FirstMonths DEF First, Firsts
  <2> QED BY <2>1, <2>2, <2>3
<1> QED BY <1>1, <1>3, <1>4 DEF Covers

\* The first match is a match.
LEMMA ClassifiedFits ==
  ASSUME NEW start \in Int, NEW end \in Int, NEW product \in Products,
         Classify(start, end) = product
  PROVE  Fits(product, start, end)
<1>1. start < end
  BY ProductHasDuration DEF Products
<1> DEFINE whole == Hour(start) = Boundary /\ Hour(end) = Boundary
           gasDay == IF Hour(start) < Boundary THEN Day(start) - 1 ELSE Day(start)
<1>2. CASE product = "WithinDay"
  <2>1. 24 * gasDay + Boundary < start /\ end = 24 * (gasDay + 1) + Boundary
    BY <1>2, Zenon DEF Classify
  <2>2. gasDay \in {Day(start) - 1, Day(start)}
    OBVIOUS
  <2> HIDE DEF gasDay
  <2>3. start > GasDayBegins(gasDay) /\ end = GasDayBegins(gasDay + 1)
    <3>1. gasDay \in Int BY <2>2, DayAndHour
    <3> QED BY <2>1, <3>1 DEF GasDayBegins, Boundary
  <2> QED BY <1>1, <1>2, <2>2, <2>3 DEF Fits
<1>3. CASE product = "DayAhead"
  <2>1. whole /\ Day(end) = Day(start) + 1
    BY <1>3, Zenon DEF Classify
  <2>2. start = GasDayBegins(Day(start)) /\ end = start + 24
    BY <2>1, DayAndHour DEF GasDayBegins, Boundary
  <2> QED BY <1>3, <2>2 DEF Fits
<1>4. CASE product = "Month"
  <2>1. whole /\ Spans(start, end, 1, 1..12)
    BY <1>4, Zenon DEF Classify
  <2> QED BY <1>4, <2>1, SpansCovers DEF Fits, Firsts, First
<1>5. CASE product = "Quarter"
  <2>1. whole /\ Spans(start, end, 3, {1, 4, 7, 10})
    BY <1>5, Zenon DEF Classify, SpansQuarter
  <2> QED BY <1>5, <2>1, SpansCovers DEF Fits, Firsts, First
<1>6. CASE product = "Year"
  <2>1. whole /\ Spans(start, end, 12, {10})
    BY <1>6, Zenon DEF Classify
  <2> QED BY <1>6, <2>1, SpansCovers DEF Fits, Firsts, First
<1> QED BY <1>2, <1>3, <1>4, <1>5, <1>6 DEF Products

\* A period of months is two days long at least, and begins with a gas day.
LEMMA CoversIsLong ==
  ASSUME NEW start, NEW end, NEW n \in {1, 3, 12}, Covers(start, end, n, n, First(n))
  PROVE  \E day \in Nat : start = GasDayBegins(day) /\ end >= GasDayBegins(day + 2)
<1>1. PICK m \in Months : /\ m + n \in Months
                          /\ start = GasDayBegins(MonthStart[m])
                          /\ end = GasDayBegins(MonthStart[m + n])
  BY DEF Covers
<1>2. m \in Nat /\ m < m + n
  BY Calendar
<1>3. MonthStart[m] \in Nat /\ MonthStart[m + n] \in Nat
  BY <1>1, Calendar
<1>4. MonthStart[m] + 2 <= MonthStart[m + n]
  BY <1>1, <1>2, CalendarAssumption DEF Months
<1> QED BY <1>1, <1>2, <1>3, <1>4 DEF GasDayBegins, Boundary

\* Two different numbers of months do not end on one day.
LEMMA CoversIsOne ==
  ASSUME NEW start, NEW end, NEW n \in {1, 3, 12}, NEW k \in {1, 3, 12},
         Covers(start, end, n, n, First(n)), Covers(start, end, k, k, First(k))
  PROVE  n = k
<1>1. PICK m \in Months : /\ m + n \in Months
                          /\ start = GasDayBegins(MonthStart[m])
                          /\ end = GasDayBegins(MonthStart[m + n])
  BY DEF Covers
<1>2. PICK l \in Months : /\ l + k \in Months
                          /\ start = GasDayBegins(MonthStart[l])
                          /\ end = GasDayBegins(MonthStart[l + k])
  BY DEF Covers
<1>3. ASSUME NEW a \in Months, NEW b \in Months,
             GasDayBegins(MonthStart[a]) = GasDayBegins(MonthStart[b])
      PROVE  a = b
  <2>1. a \in Nat /\ b \in Nat /\ MonthStart[a] \in Nat /\ MonthStart[b] \in Nat
    BY CalendarAssumption DEF Months
  <2>2. MonthStart[a] = MonthStart[b]
    BY <1>3, <2>1 DEF GasDayBegins, Boundary
  <2> QED BY SMTT(30), <2>1, <2>2, CalendarAssumption DEF Months
<1>4. m = l
  BY <1>1, <1>2, <1>3
<1>5. m + n = l + k
  BY <1>1, <1>2, <1>3
<1>6. m \in Nat
  BY CalendarAssumption DEF Months
<1> QED BY <1>4, <1>5, <1>6

\* The products exclude one another: the order in which classify_product asks
\* for them decides nothing.
LEMMA FitsOnce ==
  ASSUME NEW start \in Int, NEW end \in Int, NEW p \in Products, NEW q \in Products,
         Fits(p, start, end), Fits(q, start, end)
  PROVE  p = q
<1> DEFINE Length(r) == CASE r = "Month" -> 1 [] r = "Quarter" -> 3 [] r = "Year" -> 12
           Long == {"Month", "Quarter", "Year"}
<1>1. ASSUME NEW r \in Long, Fits(r, start, end)
      PROVE  Length(r) \in {1, 3, 12} /\ Covers(start, end, Length(r), Length(r), First(Length(r)))
  <2>1. CASE r = "Month" BY <1>1, <2>1 DEF Fits, First
  <2>2. CASE r = "Quarter" BY <1>1, <2>2 DEF Fits, First
  <2>3. CASE r = "Year" BY <1>1, <2>3 DEF Fits, First
  <2> QED BY <2>1, <2>2, <2>3
<1>2. ASSUME NEW r \in Long, Fits(r, start, end)
      PROVE  \E day \in Nat : start = GasDayBegins(day) /\ end >= GasDayBegins(day + 2)
  <2>1. Length(r) \in {1, 3, 12} /\ Covers(start, end, Length(r), Length(r), First(Length(r)))
    BY <1>1, <1>2
  <2> HIDE DEF Length
  <2> QED BY <2>1, CoversIsLong
<1>3. ASSUME Fits("DayAhead", start, end)
      PROVE  \E day \in Int : start = GasDayBegins(day) /\ end = GasDayBegins(day + 1)
  <2>1. start = GasDayBegins(Day(start)) /\ end = start + 24 /\ Day(start) \in Int
    BY <1>3, DayAndHour DEF Fits
  <2>2. end = GasDayBegins(Day(start) + 1)
    BY <2>1 DEF GasDayBegins, Boundary
  <2> QED BY <2>1, <2>2
<1>4. ASSUME Fits("WithinDay", start, end)
      PROVE  \E day \in Int : start > GasDayBegins(day) /\ start < GasDayBegins(day + 1)
  <2>1. PICK day \in {Day(start) - 1, Day(start)} :
          start > GasDayBegins(day) /\ start < end /\ end = GasDayBegins(day + 1)
    BY <1>4 DEF Fits
  <2> QED BY <2>1, DayAndHour
<1>5. ~(Fits("WithinDay", start, end) /\ Fits("DayAhead", start, end))
  BY <1>3, <1>4 DEF GasDayBegins, Boundary
<1>6. ASSUME NEW r \in Long, Fits(r, start, end)
      PROVE  ~Fits("WithinDay", start, end) /\ ~Fits("DayAhead", start, end)
  <2>1. PICK day \in Nat : start = GasDayBegins(day) /\ end >= GasDayBegins(day + 2)
    BY <1>2, <1>6
  <2>2. ~Fits("WithinDay", start, end)
    BY <1>4, <2>1 DEF GasDayBegins, Boundary
  <2>3. ~Fits("DayAhead", start, end)
    BY <1>3, <2>1 DEF GasDayBegins, Boundary
  <2> QED BY <2>2, <2>3
<1>7. CASE p \in Long /\ q \in Long
  <2>1. /\ Length(p) \in {1, 3, 12} /\ Covers(start, end, Length(p), Length(p), First(Length(p)))
        /\ Length(q) \in {1, 3, 12} /\ Covers(start, end, Length(q), Length(q), First(Length(q)))
    BY <1>1, <1>7
  <2>2. Length(p) = Length(q)
    <3> HIDE DEF Length
    <3> QED BY <2>1, CoversIsOne
  <2> QED BY <1>7, <2>2
<1>8. CASE p \in Long /\ q \notin Long
  <2>1. q \in {"WithinDay", "DayAhead"} BY <1>8 DEF Products
  <2> QED BY <1>6, <1>8, <2>1
<1>9. CASE p \notin Long /\ q \in Long
  <2>1. p \in {"WithinDay", "DayAhead"} BY <1>9 DEF Products
  <2> QED BY <1>6, <1>9, <2>1
<1>10. CASE p \notin Long /\ q \notin Long
  <2>1. p \in {"WithinDay", "DayAhead"} /\ q \in {"WithinDay", "DayAhead"}
    BY <1>10 DEF Products
  <2> QED BY <1>5, <2>1
<1> QED BY <1>7, <1>8, <1>9, <1>10

\* The hours of a gas day and of what is left of one, whenever the clock changes.
LEMMA HoursOfADay ==
  ASSUME NEW start \in Int, NEW end \in Int
  PROVE  /\ Classify(start, end) = "DayAhead" => Duration(start, end) \in 23..25
         /\ Classify(start, end) = "WithinDay" => Duration(start, end) \in 1..24
<1>1. /\ Duration(start, end) \in Int
      /\ Duration(start, end) >= end - start - 1 /\ Duration(start, end) <= end - start + 1
      \/ end < start
  BY ClockAssumption DEF Duration, Elapsed
<1>2. ASSUME Classify(start, end) = "DayAhead" PROVE Duration(start, end) \in 23..25
  <2>1. Fits("DayAhead", start, end)
    BY <1>2, ClassifiedFits DEF Products
  <2>2. end = start + 24
    BY <2>1 DEF Fits
  <2> QED BY <1>1, <2>2
<1>3. ASSUME Classify(start, end) = "WithinDay" PROVE Duration(start, end) \in 1..24
  <2>1. Fits("WithinDay", start, end)
    BY <1>3, ClassifiedFits DEF Products
  <2>2. PICK day \in {Day(start) - 1, Day(start)} :
          start > GasDayBegins(day) /\ start < end /\ end = GasDayBegins(day + 1)
    BY <2>1 DEF Fits
  <2>3. day \in Int
    BY DayAndHour
  <2>4. end - start < 24 /\ ~(end < start)
    BY <2>2, <2>3 DEF GasDayBegins, Boundary
  <2>5. ~(Duration(start, end) <= 0)
    BY <1>3 DEF Classify
  <2> QED BY <1>1, <2>4, <2>5
<1> QED BY <1>2, <1>3

\* What _row has asked of a row that it accepts, whatever the order.
LEMMA AcceptedIsSound ==
  ASSUME NEW row \in Row, Verdict(row) = "accepted"
  PROVE  /\ {p \in Products : Fits(p, row.start, row.end)} = {Product(row)}
         /\ Product(row) = "DayAhead" => Duration(row.start, row.end) \in 23..25
         /\ Product(row) = "WithinDay" => Duration(row.start, row.end) \in 1..24
         /\ Parses(row.start) /\ Parses(row.end)
         /\ Day(row.auction) \in FirstDay..LastDay /\ Day(row.auction) <= Day(row.start)
         /\ row.capacity = "enough" /\ row.identity = "complete"
         /\ row.direction \in {"Exit", "Entry"} /\ row.tariff = "given"
         /\ row.surcharge \in {"none", "given"}
<1>1. row.start \in Int /\ row.end \in Int /\ row.auction \in Int
  BY Calendar DEF Row, Time, BadTime
<1>2. /\ Parses(row.start) /\ Parses(row.end) /\ InRange(row) /\ ~ConstructorRefuses(row)
      /\ row.direction \notin {"other", "Exit/Entry"} /\ row.identity # "missing"
      /\ row.capacity \notin {"unsupported", "invalid", "below", "huge"}
      /\ row.tariff \notin {"invalid", "unsupported", "huge"}
      /\ row.surcharge \notin {"unsupported", "invalid", "huge"}
  BY DEF Verdict
<1>3. /\ row.direction \in {"Exit", "Entry", "Exit/Entry", "other"}
      /\ row.identity \in {"complete", "missing"}
      /\ row.capacity \in {"enough", "below", "invalid", "unsupported", "huge"}
      /\ row.tariff \in {"given", "invalid", "unsupported", "huge"}
      /\ row.surcharge \in {"none", "given", "invalid", "unsupported", "huge"}
  BY DEF Row
<1>4. Product(row) \in Products
  BY ProductType
<1>5. Fits(Product(row), row.start, row.end)
  BY <1>1, <1>4, ClassifiedFits DEF Product
<1>6. {p \in Products : Fits(p, row.start, row.end)} = {Product(row)}
  BY <1>1, <1>4, <1>5, FitsOnce
<1>7. Day(row.auction) <= Day(row.start)
  BY <1>1, <1>2, DayAndHour DEF ConstructorRefuses
<1> QED BY <1>1, <1>2, <1>3, <1>6, <1>7, HoursOfADay DEF Product, InRange

\* The record of the row that was read last, if it has one, is that row's.
LastRecord ==
  number \in NumbersOf(records) =>
    /\ last \in Rows /\ Verdict(last) = "accepted"
    /\ records[Len(records)].product = Product(last)

LEMMA LastRecordInductive ==
  ASSUME TypeOK, RowsClassified, LastRecord, [Next]_vars
  PROVE  LastRecord'
<1> USE DEF LastRecord
<1>1. number \in Nat /\ number + 1 \notin NumbersOf(records)
  BY BoundsAssumption DEF TypeOK, RowsClassified
<1>2. CASE UNCHANGED <<number, last, records>>
  BY <1>2 DEF NumbersOf
<1>3. ASSUME NEW row \in Rows, Accept(row) PROVE LastRecord'
  <2>1. /\ last' = row /\ Verdict(row) = "accepted"
        /\ records' = Append(records, [row |-> number + 1, product |-> Product(row)])
    BY <1>3 DEF Accept, NextRow
  <2>2. records'[Len(records')].product = Product(row)
    BY <2>1 DEF TypeOK
  <2> QED BY <2>1, <2>2
<1>4. ASSUME NEW row \in Rows, Filter(row) \/ Reject(row) \/ Raise(row) PROVE LastRecord'
  <2>1. number' = number + 1 /\ records' = records
    BY <1>4 DEF Filter, Reject, Raise, NextRow
  <2> QED BY <1>1, <2>1 DEF NumbersOf
<1> QED BY <1>2, <1>3, <1>4
        DEF Next, FileInvalid, Cancel, StopCancelled, EndOfFile, vars

\* Whatever a file holds, whatever the calendar and whenever the clock changes,
\* an accepted row has the one product that its delivery period fits, two times
\* that exist, and passes every rule.
THEOREM EachRecordIsSound == Spec => []RecordsSound
<1>1. Init => LastRecord
  BY DEF Init, LastRecord, NumbersOf
<1>2. TypeOK /\ RowsClassified /\ LastRecord /\ [Next]_vars => LastRecord'
  BY LastRecordInductive
<1>3. LastRecord => RecordsSound
  <2> SUFFICES ASSUME LastRecord, number \in NumbersOf(records) PROVE RecordsSound
    BY DEF RecordsSound
  <2>1. /\ last \in Row /\ Verdict(last) = "accepted"
        /\ records[Len(records)].product = Product(last)
    BY RowsAssumption DEF LastRecord
  <2> QED BY <2>1, AcceptedIsSound DEF RecordsSound
<1> QED BY <1>1, <1>2, <1>3, TypeCorrect, EachRowClassified, PTL DEF Spec

-----------------------------------------------------------------------------
\* Every row of every file is classified, as TECHNICAL_SPECIFICATION.md:136 says,
\* if no row has an auction dated after its flow start, a number that overflows
\* or a date at an end of the calendar.
THEOREM OrdinaryRowsAreClassified ==
  ASSUME \A row \in Rows : ~Misdated(row) /\ ~Overflowing(row) /\ ~AtAnEndOfTime(row)
  PROVE  Spec => []EveryRowClassified
<1>1. Init => EveryRowClassified
  BY DEF Init, EveryRowClassified
<1>2. EveryRowClassified /\ [Next]_vars => EveryRowClassified'
  <2> SUFFICES ASSUME EveryRowClassified, [Next]_vars, outcome' = "raised" PROVE FALSE
    BY DEF EveryRowClassified
  <2>1. PICK row \in Rows : Raise(row)
    BY DEF EveryRowClassified, Next, FileInvalid, Cancel, StopCancelled, EndOfFile, End,
       Accept, Filter, Reject, vars
  <2> QED BY <2>1, RaisedHasCause, RowsAssumption DEF Raise
<1> QED BY <1>1, <1>2, PTL DEF Spec

=============================================================================
