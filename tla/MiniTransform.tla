---------------------------- MODULE MiniTransform ----------------------------
(***************************************************************************)
(* MiniTransform: parse_source (mini_workflow.py) reads the rows of a      *)
(* downloaded CSV one by one and accepts, filters or rejects each; the     *)
(* constructor of NormalizedAuctionRecord (mini_domain.py) checks what is  *)
(* accepted once more.                                                     *)
(*                                                                         *)
(* A local time is a number of hours, 24 * day + hour; BadTime stands for  *)
(* a field that is blank or is not a time.  Of the text of a field only    *)
(* what the decisions ask of it is kept.  The calendar ends, as Python's   *)
(* does with the year 9999, and so does what a Decimal can be.             *)
(***************************************************************************)
EXTENDS Integers, Sequences

CONSTANTS
  Rows,          \* bound: the rows a file may have, a subset of Row
  MaxRows,       \* bound: rows of a file
  MonthStart,    \* first days of the calendar's months, from a January on
  MaxDay,        \* the last day of the calendar
  Skipped,       \* the day whose hour 2 summer time skips
  Repeated,      \* the day whose hour 2 happens twice
  FirstDay,      \* the requested range of auction dates
  LastDay

BadTime == -1
Boundary == 6    \* the gas day begins at 06:00

MinDay == MonthStart[1]

Time == {BadTime} \cup 24 * MinDay .. 24 * MaxDay + 23

\* Side: only what the decisions ask of the fields of the row's direction.
\* A huge number is a Decimal whose normalize or product overflows.
Row == [width: {"whole", "short"},
        direction: {"Exit", "Entry", "Exit/Entry", "other"},
        identity: {"complete", "missing"},   \* Auction ID, Network Point ID
        point: {"named", "blank"},
        auction: Time, start: Time, end: Time,
        capacity: {"enough", "below", "invalid", "unsupported", "huge"},
        tariff: {"given", "invalid", "unsupported", "huge"},
        surcharge: {"none", "given", "invalid", "unsupported", "huge"}]

ASSUME RowsAssumption == Rows \subseteq Row
ASSUME BoundsAssumption == MaxRows \in Nat
ASSUME ClockAssumption == Skipped \in Int /\ Repeated \in Int
\* A calendar of whole years, whose months are longer than a gas day.
ASSUME CalendarAssumption ==
  /\ MonthStart \in Seq(Nat) /\ MonthStart # << >> /\ Len(MonthStart) % 12 = 0
  /\ \A m, k \in DOMAIN MonthStart : m < k => MonthStart[m] + 2 <= MonthStart[k]
  /\ MaxDay \in Nat /\ \A m \in DOMAIN MonthStart : MonthStart[m] <= MaxDay

VARIABLES
  outcome,    \* reading, or how parse_source has ended
  cancel,     \* the cancel event
  number,     \* the number of the row read last; the header is row 1
  last,       \* history: that row
  records,    \* accepted rows: number and product
  failures,   \* rejected rows: number and reason
  filtered    \* how many rows were filtered

vars == <<outcome, cancel, number, last, records, failures, filtered>>

-----------------------------------------------------------------------------
(* Times. *)

Day(t) == t \div 24
Hour(t) == t % 24

\* _parse_local refuses a time that does not exist or happens twice.
Parses(t) == t # BadTime /\ t \notin {24 * Skipped + 2, 24 * Repeated + 2}

\* astimezone: by the clock of UTC, which is late here, the calendar has not begun.
BeforeUtc(t) == t = 24 * MinDay

\* Hours since the beginning, by the clock of UTC.
Elapsed(t) ==
  t - (IF t > 24 * Skipped + 2 THEN 1 ELSE 0) + (IF t > 24 * Repeated + 2 THEN 1 ELSE 0)

Duration(start, end) == Elapsed(end) - Elapsed(start)

Months == DOMAIN MonthStart

MonthOf(m) == ((m - 1) % 12) + 1

\* From the first day of one of these months of a year to that of the n-th after
\* it (_next_month).
Spans(start, end, n, firsts) ==
  \E m \in Months : /\ MonthOf(m) \in firsts /\ m + n \in Months
                    /\ Day(start) = MonthStart[m]
                    /\ Day(end) = MonthStart[m + n]

\* replace(year=10000) is a plain ValueError.
SpansBeyond(start, n, firsts) ==
  \E m \in Months : MonthOf(m) \in firsts /\ m + n \notin Months /\ Day(start) = MonthStart[m]

\* Mutant: a quarter begins with any month.
SpansAnyQuarter(start, end) == Spans(start, end, 3, 1..12)

SpansQuarter(start, end) == Spans(start, end, 3, {1, 4, 7, 10})

\* What is asked of months the calendar does not have.  Where a product matches,
\* the months that were asked for before it do exist.
NoSuchMonth(start) ==
  \/ SpansBeyond(start, 1, 1..12)
  \/ SpansBeyond(start, 3, {1, 4, 7, 10})
  \/ SpansBeyond(start, 12, {10})

\* classify_product: the first product that matches.
Classify(start, end) ==
  LET whole == Hour(start) = Boundary /\ Hour(end) = Boundary
      gasDay == IF Hour(start) < Boundary THEN Day(start) - 1 ELSE Day(start)
      within == 24 * gasDay + Boundary < start
  IN IF Duration(start, end) <= 0 THEN "unresolved"
     ELSE IF whole /\ Day(end) = Day(start) + 1 THEN "DayAhead"
     ELSE IF whole /\ Spans(start, end, 1, 1..12) THEN "Month"
     ELSE IF whole /\ SpansQuarter(start, end) THEN "Quarter"
     ELSE IF whole /\ Spans(start, end, 12, {10}) THEN "Year"
     ELSE IF whole /\ NoSuchMonth(start) THEN "raised"
     ELSE IF within /\ gasDay \notin MinDay..(MaxDay - 1) THEN "raised"
     ELSE IF within /\ end = 24 * (gasDay + 1) + Boundary THEN "WithinDay"
     ELSE "unresolved"

-----------------------------------------------------------------------------
(* _row: the first rule that a row breaks decides.  Only a rejection is caught; *)
(* any other error, "raised", ends the whole operation.                         *)

InRange(row) == Day(row.auction) \in FirstDay..LastDay

Product(row) == Classify(row.start, row.end)

\* What the constructor refuses though _row does not: a plain ValueError too.
ConstructorRefuses(row) == row.end <= row.start \/ Day(row.auction) > Day(row.start)

Verdict(row) ==
  IF row.width = "short" THEN "invalid_source_row"
  ELSE IF row.direction = "other" THEN "invalid_value"
  ELSE IF row.identity = "missing" THEN "missing_identity"
  ELSE IF row.point = "blank" \/ ~Parses(row.auction) THEN "invalid_value"
  ELSE IF BeforeUtc(row.auction) THEN "raised"
  ELSE IF ~InRange(row) \/ ~Parses(row.start) THEN "invalid_value"
  ELSE IF BeforeUtc(row.start) THEN "raised"
  ELSE IF ~Parses(row.end) THEN "invalid_value"
  ELSE IF BeforeUtc(row.end) \/ Product(row) = "raised" THEN "raised"
  ELSE IF Product(row) = "unresolved" THEN "product_type_unresolved"
  ELSE IF row.capacity = "unsupported" THEN "unsupported_unit"
  ELSE IF row.capacity = "invalid" THEN "invalid_value"
  ELSE IF row.capacity = "huge" THEN "raised"
  ELSE IF row.capacity = "below" THEN "filtered"
  ELSE IF row.direction = "Exit/Entry" \/ row.tariff = "invalid" THEN "missing_required_tariff"
  ELSE IF row.tariff = "unsupported" THEN "unsupported_unit"
  ELSE IF "huge" \in {row.tariff, row.surcharge} THEN "raised"
  ELSE IF row.surcharge = "unsupported" THEN "unsupported_unit"
  ELSE IF row.surcharge = "invalid" THEN "invalid_value"
  ELSE IF ConstructorRefuses(row) THEN "raised"
  ELSE "accepted"

-----------------------------------------------------------------------------
NoRow == [width |-> "none"]

Init ==
  /\ outcome = "reading" /\ cancel = FALSE
  /\ number = 1 /\ last = NoRow
  /\ records = << >> /\ failures = << >> /\ filtered = 0

End(how) == outcome = "reading" /\ outcome' = how

\* The header is wrong, or the file cannot be read or decoded.
FileInvalid ==
  /\ End("invalid")
  /\ UNCHANGED <<cancel, number, last, records, failures, filtered>>

Cancel ==
  /\ outcome = "reading" /\ ~cancel
  /\ cancel' = TRUE
  /\ UNCHANGED <<outcome, number, last, records, failures, filtered>>

\* The event is asked with every row, not after the last one.
StopCancelled ==
  /\ cancel /\ number <= MaxRows
  /\ End("cancelled")
  /\ UNCHANGED <<cancel, number, last, records, failures, filtered>>

NextRow(row) ==
  /\ outcome = "reading" /\ ~cancel /\ number <= MaxRows
  /\ number' = number + 1
  /\ last' = row
  /\ UNCHANGED cancel

Accept(row) ==
  /\ NextRow(row)
  /\ Verdict(row) = "accepted"
  /\ records' = Append(records, [row |-> number + 1, product |-> Product(row)])
  /\ UNCHANGED <<outcome, failures, filtered>>

Filter(row) ==
  /\ NextRow(row)
  /\ Verdict(row) = "filtered"
  /\ filtered' = filtered + 1
  /\ UNCHANGED <<outcome, records, failures>>

\* Mutant: a row of the wrong width is skipped.
RejectQuietly(row) ==
  /\ NextRow(row)
  /\ Verdict(row) \notin {"accepted", "filtered", "raised"}
  /\ failures' = IF row.width = "short" THEN failures
                 ELSE Append(failures, [row |-> number + 1, reason |-> Verdict(row)])
  /\ UNCHANGED <<outcome, records, filtered>>

Reject(row) ==
  /\ NextRow(row)
  /\ Verdict(row) \notin {"accepted", "filtered", "raised"}
  /\ failures' = Append(failures, [row |-> number + 1, reason |-> Verdict(row)])
  /\ UNCHANGED <<outcome, records, filtered>>

\* parse_source catches _Rejected alone of what a row raises.
Raise(row) ==
  /\ NextRow(row)
  /\ Verdict(row) = "raised" /\ outcome' = "raised"
  /\ UNCHANGED <<records, failures, filtered>>

EndOfFile ==
  /\ End("parsed")
  /\ UNCHANGED <<cancel, number, last, records, failures, filtered>>

Next ==
  \/ FileInvalid \/ Cancel \/ StopCancelled \/ EndOfFile
  \/ \E row \in Rows : Accept(row) \/ Filter(row) \/ Reject(row) \/ Raise(row)

Spec == Init /\ [][Next]_vars

-----------------------------------------------------------------------------
Reason == {"invalid_source_row", "invalid_value", "missing_identity",
           "product_type_unresolved", "unsupported_unit", "missing_required_tariff"}

Products == {"WithinDay", "DayAhead", "Month", "Quarter", "Year"}

Accepted == [row: Nat, product: Products]
Rejected == [row: Nat, reason: Reason]

TypeOK ==
  /\ outcome \in {"reading", "parsed", "invalid", "cancelled", "raised"}
  /\ cancel \in BOOLEAN
  /\ number \in 1..(MaxRows + 1)
  /\ last \in Rows \cup {NoRow}
  /\ records \in Seq(Accepted)
  /\ failures \in Seq(Rejected)
  /\ filtered \in Nat

NumbersOf(s) == {s[n].row : n \in DOMAIN s}

\* What a row that ends the operation has wrong with it.
Misdated(row) == Day(row.auction) > Day(row.start)
Overflowing(row) == "huge" \in {row.capacity, row.tariff, row.surcharge}
AtAnEndOfTime(row) ==
  \/ MinDay \in {Day(row.auction), Day(row.start), Day(row.end)}
  \/ Day(row.start) >= MonthStart[Len(MonthStart) - 2]

\* Every row that was read is accepted, filtered or rejected, exactly once and
\* under its own number, wherever the file ends, is cancelled or is damaged,
\* unless it ends the operation: only a row does that whose auction is dated
\* after its flow start, that has a number beyond what a Decimal can be, or a
\* date in the first day or a flow start in the last quarter of the calendar.
RowsClassified ==
  LET raised == outcome = "raised" IN
  /\ Len(records) + Len(failures) + filtered = number - (IF raised THEN 2 ELSE 1)
  /\ NumbersOf(records) \cup NumbersOf(failures) \subseteq 2..number
  /\ NumbersOf(records) \cap NumbersOf(failures) = {}
  /\ \A s \in {records, failures} : \A k \in DOMAIN s : k > 1 => s[k - 1].row < s[k].row
  /\ raised => Misdated(last) \/ Overflowing(last) \/ AtAnEndOfTime(last)

\* What the products mean, by gas days: a reference for Classify.
GasDayBegins(day) == 24 * day + Boundary
Covers(start, end, n, every, first) ==
  \E m \in {k \in Months : k + n \in Months /\ (k - first) % every = 0} :
    start = GasDayBegins(MonthStart[m]) /\ end = GasDayBegins(MonthStart[m + n])
Fits(product, start, end) ==
  CASE product = "WithinDay" -> \E day \in {Day(start) - 1, Day(start)} :
                                  start > GasDayBegins(day) /\ start < end
                                    /\ end = GasDayBegins(day + 1)
    [] product = "DayAhead" -> start = GasDayBegins(Day(start)) /\ end = start + 24
    [] product = "Month"    -> Covers(start, end, 1, 1, 1)
    [] product = "Quarter"  -> Covers(start, end, 3, 3, 1)
    [] product = "Year"     -> Covers(start, end, 12, 12, 10)

\* An accepted row is sound whatever else is wrong with it and in whatever
\* order the rules are asked: its product is the only one its delivery period
\* fits, a gas day has 23 to 25 hours, both its times exist, its auction is in
\* the requested range and not after the flow start, and its capacity and its
\* own side's tariff are known.
RecordsSound ==
  number \in NumbersOf(records) =>
    LET product == records[Len(records)].product
        start == last.start
        end == last.end
        hours == Duration(start, end)
    IN /\ {p \in Products : Fits(p, start, end)} = {product}
       /\ product = "DayAhead" => hours \in 23..25
       /\ product = "WithinDay" => hours \in 1..24
       /\ Parses(start) /\ Parses(end)
       /\ Day(last.auction) \in FirstDay..LastDay /\ Day(last.auction) <= Day(start)
       /\ last.capacity = "enough" /\ last.identity = "complete"
       /\ last.direction \in {"Exit", "Entry"} /\ last.tariff = "given"
       /\ last.surcharge \in {"none", "given"}

\* TECHNICAL_SPECIFICATION.md:136: every source row is classified as processed,
\* duplicate, filtered, or rejected.
EveryRowClassified == outcome # "raised"

=============================================================================
