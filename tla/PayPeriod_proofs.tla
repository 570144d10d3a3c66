---------------------------- MODULE PayPeriod_proofs ----------------------------
(****************************************************************************)
(* Proofs about IncomeSources and PayPeriod, for any number of sources and  *)
(* of concurrent requests, any calendar and any bounds.  Of the sources:    *)
(* types, the two invariants that make a payment date be booked once, and   *)
(* the refinement of PaymentSchedule.  Of the summary: what IncomeSources   *)
(* guarantees holds of the whole of it, and the money columns stay          *)
(* well-typed (in particular, no rollover is ever negative).                *)
(****************************************************************************)
EXTENDS PayPeriod, TLAPS

-------------------------------------------------------------------------------
(* The ledger.                                                                *)

LEMMA EmptyTotalType == EmptyTotal \in [Day -> Int] /\ EmptyTotal \in [Day -> Nat]
  BY DEF EmptyTotal

LEMMA InsertType ==
  ASSUME NEW total \in [Day -> Int], NEW day \in Int, NEW amount \in Int
  PROVE  Insert(total, day, amount) \in [Day -> Int]
  BY MaxDayIsNat DEF Insert, Day

LEMMA MergeType ==
  ASSUME NEW total \in [Day -> Int], NEW other \in [Day -> Int]
  PROVE  Merge(total, other) \in [Day -> Int]
  BY DEF Merge

LEMMA UpToType ==
  ASSUME NEW total \in [Day -> Int], NEW d \in Int, d <= MaxDay
  PROVE  UpTo(total, d) \in Int
  BY MaxDayIsNat DEF UpTo, Day

(* The aggregate over a range of days counts a new row when its date lies in  *)
(* the range, and only then: running totals stand for the rows themselves.    *)
THEOREM InsertCountsInRange ==
  ASSUME NEW total \in [Day -> Int], NEW day \in Day, NEW amount \in Int,
         NEW lo \in Int, NEW hi \in Int, lo <= hi + 1, hi <= MaxDay
  PROVE  Between(Insert(total, day, amount), lo, hi) =
           Between(total, lo, hi) + (IF lo <= day /\ day <= hi THEN amount ELSE 0)
<1> DEFINE more == Insert(total, day, amount)
<1>1. \A d \in Int : d <= MaxDay =>
          UpTo(more, d) = UpTo(total, d) + (IF day <= d THEN amount ELSE 0)
  BY MaxDayIsNat DEF UpTo, Insert, Day
<1>2. /\ UpTo(more, hi) = UpTo(total, hi) + (IF day <= hi THEN amount ELSE 0)
      /\ UpTo(more, lo - 1) = UpTo(total, lo - 1) + (IF day <= lo - 1 THEN amount ELSE 0)
  BY <1>1, MaxDayIsNat
<1>3. UpTo(total, hi) \in Int /\ UpTo(total, lo - 1) \in Int
  BY UpToType, MaxDayIsNat
<1>4. day \in Int
  BY MaxDayIsNat DEF Day
<1> HIDE DEF more
<1>5. Between(more, lo, hi) =
        Between(total, lo, hi) + (IF lo <= day /\ day <= hi THEN amount ELSE 0)
  BY <1>2, <1>3, <1>4, MaxDayIsNat DEF Between
<1> QED
  BY <1>5 DEF more

(* When the rows of a deleted source join the salary pool, every aggregate    *)
(* over the salary pool grows by what the source had in that range.           *)
THEOREM MergeAddsUp ==
  ASSUME NEW total \in [Day -> Int], NEW other \in [Day -> Int],
         NEW lo \in Int, NEW hi \in Int, lo <= hi + 1, hi <= MaxDay
  PROVE  Between(Merge(total, other), lo, hi) = Between(total, lo, hi) + Between(other, lo, hi)
<1>1. \A d \in Int : d <= MaxDay =>
          UpTo(Merge(total, other), d) = UpTo(total, d) + UpTo(other, d)
  BY MaxDayIsNat DEF UpTo, Merge, Day
<1>2. \A d \in Int : d <= MaxDay => UpTo(total, d) \in Int /\ UpTo(other, d) \in Int
  BY UpToType
<1> QED
  BY <1>1, <1>2, MaxDayIsNat DEF Between

-------------------------------------------------------------------------------
(* Types.                                                                     *)

LEMMA NewSourceType == NewSource \in Source
  BY DEF NewSource, Source

LEMMA NoRunType == NoRun \in Run
  BY NewSourceType DEF NoRun, Run

LEMMA UnbookType ==
  ASSUME booked \in [Sources -> [Day -> Nat]], NEW s \in Sources, NEW date \in Nat
  PROVE  Unbook(s, date) \in [Sources -> [Day -> Nat]]
  BY MaxDayIsNat DEF Unbook, Day

LEMMA SourcesInitTyped == SourcesInit => SourcesTypeOK
<1> SUFFICES ASSUME SourcesInit PROVE SourcesTypeOK
  OBVIOUS
<1>1. InitialSource \subseteq Source
  <2>1. [status : {"live"}, isActive : {TRUE}, amount : Amounts,
         frequency : Frequencies, nextPaymentDate : EntryDates] \subseteq Source
    BY SourceAssumption DEF Source
  <2> QED
    BY <2>1, NewSourceType DEF InitialSource
<1>2. source \in [Sources -> Source]
  BY <1>1 DEF SourcesInit
<1>3. today \in Day
  BY MaxDayIsNat DEF SourcesInit, Day
<1> QED
  BY <1>2, <1>3, EmptyTotalType, NoRunType DEF SourcesInit, SourcesTypeOK

LEMMA TickTyped == SourcesTypeOK /\ Tick => SourcesTypeOK'
  BY MaxDayIsNat DEF SourcesTypeOK, Tick, Day

LEMMA EnterRowTyped ==
  ASSUME SourcesTypeOK, NEW p \in Pools, NEW a \in RowAmounts, NEW d \in Day,
         EnterRow(p, a, d)
  PROVE  SourcesTypeOK'
<1>1. Insert(net[p], d, a) \in [Day -> Int]
  BY InsertType, SourceAssumption, MaxDayIsNat DEF SourcesTypeOK, Day
<1> QED
  BY <1>1 DEF SourcesTypeOK, EnterRow

\* What a user may put into a row of income_sources.
LEMMA CreateSourceTyped ==
  ASSUME SourcesTypeOK, NEW s \in Sources, NEW a \in Nat, NEW f \in Nat \ {0},
         NEW d \in Nat, NEW b \in BOOLEAN, CreateSource(s, a, f, d, b)
  PROVE  SourcesTypeOK'
<1>1. source' \in [Sources -> Source]
  BY DEF CreateSource, SourcesTypeOK, Source
<1>2. booked' \in [Sources -> [Day -> Nat]]
  BY UnbookType DEF CreateSource, SourcesTypeOK
<1> QED
  BY <1>1, <1>2 DEF CreateSource, SourcesTypeOK

LEMMA UpdateSourceTyped ==
  ASSUME SourcesTypeOK, NEW s \in Sources, NEW a \in Nat, NEW f \in Nat \ {0},
         NEW d \in Nat, NEW b \in BOOLEAN, UpdateSource(s, a, f, d, b)
  PROVE  SourcesTypeOK'
<1> DEFINE row == [source[s] EXCEPT !.amount = a, !.frequency = f,
                                    !.nextPaymentDate = d, !.isActive = b]
<1>0. row \in Source
  BY DEF SourcesTypeOK, Source
<1>1. source' \in [Sources -> Source]
  <2>1. source' = [source EXCEPT ![s] = row]
    BY DEF UpdateSource, SourcesTypeOK, Source
  <2> QED
    BY <1>0, <2>1 DEF SourcesTypeOK
<1>2. booked' \in [Sources -> [Day -> Nat]]
  BY UnbookType DEF UpdateSource, SourcesTypeOK
<1> QED
  BY <1>1, <1>2 DEF UpdateSource, SourcesTypeOK

LEMMA RemoveSourceTyped ==
  ASSUME SourcesTypeOK, NEW s \in Sources, RemoveSource(s)
  PROVE  SourcesTypeOK'
<1>1. source' \in [Sources -> Source]
  BY DEF RemoveSource, SourcesTypeOK, Source
<1>2. Merge(net[Salary], net[s]) \in [Day -> Int]
  BY MergeType DEF SourcesTypeOK, Pools
<1>3. net' \in [Pools -> [Day -> Int]]
  BY <1>2, EmptyTotalType DEF RemoveSource, SourcesTypeOK, Pools
<1> QED
  BY <1>1, <1>3 DEF RemoveSource, SourcesTypeOK

LEMMA ReadSourcesTyped ==
  ASSUME SourcesTypeOK, NEW r \in Requests, ReadSources(r)
  PROVE  SourcesTypeOK'
<1>1. [NoRun EXCEPT !.seen = source,
                    !.todo = {s \in LiveSources : source[s].isActive}] \in Run
  BY NoRunType DEF SourcesTypeOK, Run, LiveSources
<1> QED
  BY <1>1 DEF ReadSources, SourcesTypeOK

LEMMA TakeSourceTyped ==
  ASSUME SourcesTypeOK, NEW r \in Requests, TakeSource(r)
  PROVE  SourcesTypeOK'
<1>1. PICK s \in run[r].todo :
         run' = [run EXCEPT ![r].todo = run[r].todo \ {s}, ![r].cursor = s,
                            ![r].due = run[r].seen[s].nextPaymentDate,
                            ![r].iterations = 0]
  BY DEF TakeSource
<1>2. run[r] \in Run /\ s \in Sources
  BY <1>1 DEF SourcesTypeOK, Run
<1>3. run[r].seen[s].nextPaymentDate \in Nat
  BY <1>2 DEF Run, Source
<1>4. run' \in [Requests -> Run]
  BY <1>1, <1>2, <1>3 DEF SourcesTypeOK, Run
<1> QED
  BY <1>4 DEF TakeSource, SourcesTypeOK

\* A payment being claimed is of a source, and dated today or before.
LEMMA ClaimedDate ==
  ASSUME SourcesTypeOK, NEW r \in Requests, DateIsDue(r)
  PROVE  /\ run[r].cursor \in Sources
         /\ run[r].due \in Day
         /\ run[r].seen[run[r].cursor] \in Source
<1>1. run[r] \in Run /\ today \in Day
  BY DEF SourcesTypeOK
<1>2. run[r].cursor \in Sources
  BY <1>1 DEF DateIsDue, Run
<1>3. run[r].due \in Day
  BY <1>1, MaxDayIsNat DEF DateIsDue, HasCome, Run, Day
<1> QED
  BY <1>1, <1>2, <1>3 DEF Run

LEMMA ClaimTyped ==
  ASSUME SourcesTypeOK, NEW r \in Requests, Claim(r)
  PROVE  SourcesTypeOK'
<1> DEFINE s    == run[r].cursor
           due  == run[r].due
           next == due + run[r].seen[s].frequency
<1>1. DateIsDue(r)
  BY DEF Claim
<1>2. s \in Sources /\ due \in Day /\ run[r].seen[s] \in Source
  BY <1>1, ClaimedDate
<1>3. next \in Nat /\ run[r].seen[s].amount \in Nat /\ due \in Int
  BY <1>2, MaxDayIsNat DEF Source, Day
<1>4. CASE StillUnclaimed(s, due)
  <2>0. [source[s] EXCEPT !.nextPaymentDate = next] \in Source
    BY <1>2, <1>3 DEF SourcesTypeOK, Source
  <2>1. source' \in [Sources -> Source]
    <3>1. source' = [source EXCEPT ![s].nextPaymentDate = next]
      BY <1>4 DEF Claim
    <3>2. source' = [source EXCEPT ![s] = [source[s] EXCEPT !.nextPaymentDate = next]]
      BY <1>2, <3>1 DEF SourcesTypeOK
    <3> QED
      BY <1>2, <2>0, <3>2 DEF SourcesTypeOK
  <2>2. Insert(net[s], due, run[r].seen[s].amount) \in [Day -> Int]
    BY <1>2, <1>3, InsertType DEF SourcesTypeOK, Pools
  <2>3. net' \in [Pools -> [Day -> Int]]
    BY <2>2, <1>4 DEF Claim, SourcesTypeOK
  <2>4. booked' \in [Sources -> [Day -> Nat]]
    BY <1>2, <1>4 DEF Claim, SourcesTypeOK
  <2>5. run' \in [Requests -> Run]
    BY <1>3, <1>4 DEF Claim, SourcesTypeOK, Run
  <2> QED
    BY <2>1, <2>3, <2>4, <2>5 DEF Claim, SourcesTypeOK
<1>5. CASE ~StillUnclaimed(s, due)
  <2>1. run' \in [Requests -> Run]
    BY <1>5 DEF Claim, SourcesTypeOK, Run
  <2> QED
    BY <2>1, <1>5 DEF Claim, SourcesTypeOK
<1> QED
  BY <1>4, <1>5

LEMMA LeaveTyped ==
  ASSUME SourcesTypeOK, NEW r \in Requests, Leave(r)
  PROVE  SourcesTypeOK'
  BY NoRunType DEF SourcesTypeOK, Leave

\* No step of the service or of the user leaves the types.
LEMMA SourcesStepTyped ==
  ASSUME SourcesTypeOK, [SourcesNext]_sourceVars
  PROVE  SourcesTypeOK'
<1>1. CASE Tick
  BY <1>1, TickTyped
<1>2. CASE \E p \in Pools, a \in RowAmounts, d \in Day : EnterRow(p, a, d)
  BY <1>2, EnterRowTyped
<1>3. CASE \E s \in Sources, a \in Amounts, f \in Frequencies, d \in EntryDates, b \in BOOLEAN :
              CreateSource(s, a, f, d, b)
  BY <1>3, CreateSourceTyped, SourceAssumption
<1>4. ASSUME NEW s \in Sources, NEW b \in BOOLEAN,
             NEW a \in Amounts \cup {source[s].amount},
             NEW f \in Frequencies \cup {source[s].frequency},
             NEW d \in EntryDates \cup {source[s].nextPaymentDate},
             UpdateSource(s, a, f, d, b)
      PROVE  SourcesTypeOK'
  <2>1. a \in Nat /\ f \in Nat \ {0} /\ d \in Nat
    BY SourceAssumption DEF SourcesTypeOK, Source
  <2> QED
    BY <1>4, <2>1, UpdateSourceTyped
<1>5. CASE \E s \in Sources : RemoveSource(s)
  BY <1>5, RemoveSourceTyped
<1>6. CASE OtherEdit
  BY <1>6 DEF OtherEdit, SourcesTypeOK
<1>7. CASE \E r \in Requests : ReadSources(r) \/ TakeSource(r) \/ Claim(r) \/ Leave(r)
  BY <1>7, ReadSourcesTyped, TakeSourceTyped, ClaimTyped, LeaveTyped
<1>8. CASE UNCHANGED sourceVars
  BY <1>8 DEF sourceVars, SourcesTypeOK
<1> QED
  BY <1>1, <1>2, <1>3, <1>4, <1>5, <1>6, <1>7, <1>8 DEF SourcesNext

(* The rows, the running totals and the locals of every request keep their    *)
(* types, whatever the user and the requests do.                              *)
THEOREM SourcesTyped == SourcesSpec => []SourcesTypeOK
<1>1. SourcesInit => SourcesTypeOK
  BY SourcesInitTyped
<1>2. SourcesTypeOK /\ [SourcesNext]_sourceVars => SourcesTypeOK'
  BY SourcesStepTyped
<1> QED
  BY <1>1, <1>2, PTL DEF SourcesSpec

-------------------------------------------------------------------------------
(* A payment date is booked once.  OccurrenceOnce is not inductive: it needs  *)
(* to know that the date a request is about to claim has no row, which is     *)
(* what NothingBookedAhead says of the date the source shows.                 *)

BookingInv == SourcesTypeOK /\ OccurrenceOnce /\ NothingBookedAhead

LEMMA BookingInit == SourcesInit => BookingInv
<1> SUFFICES ASSUME SourcesInit PROVE BookingInv
  OBVIOUS
<1>1. \A s \in Sources : \A d \in Day : booked[s][d] = 0
  BY DEF SourcesInit, EmptyTotal
<1> QED
  BY <1>1, SourcesInitTyped DEF BookingInv, OccurrenceOnce, NothingBookedAhead

\* Steps that leave the rows of the sources and their payment dates alone.
LEMMA BookingKept ==
  ASSUME BookingInv, booked' = booked,
         \A s \in Sources : source'[s].nextPaymentDate = source[s].nextPaymentDate
  PROVE  OccurrenceOnce' /\ NothingBookedAhead'
  BY DEF BookingInv, OccurrenceOnce, NothingBookedAhead

\* Steps with which the user sets the payment date of a source.
LEMMA UnbookKeeps ==
  ASSUME BookingInv, NEW s \in Sources, NEW date \in Nat,
         booked' = Unbook(s, date),
         source'[s].nextPaymentDate = date,
         \A t \in Sources \ {s} : source'[t] = source[t]
  PROVE  OccurrenceOnce' /\ NothingBookedAhead'
<1>1. booked \in [Sources -> [Day -> Nat]]
  BY DEF BookingInv, SourcesTypeOK
<1>2. \A d \in Day : /\ d < date => booked'[s][d] = booked[s][d]
                     /\ ~(d < date) => booked'[s][d] = 0
  BY <1>1 DEF Unbook
<1>3. \A t \in Sources \ {s} : booked'[t] = booked[t]
  BY <1>1 DEF Unbook
<1>4. OccurrenceOnce'
  BY <1>2, <1>3 DEF BookingInv, OccurrenceOnce
<1>5. NothingBookedAhead'
  BY <1>2, <1>3 DEF BookingInv, NothingBookedAhead
<1> QED
  BY <1>4, <1>5

LEMMA ClaimBooksOnce ==
  ASSUME BookingInv, NEW r \in Requests, Claim(r)
  PROVE  OccurrenceOnce' /\ NothingBookedAhead'
<1> DEFINE s    == run[r].cursor
           due  == run[r].due
           next == due + run[r].seen[s].frequency
<1>1. DateIsDue(r) /\ SourcesTypeOK
  BY DEF Claim, BookingInv
<1>2. s \in Sources /\ due \in Day /\ run[r].seen[s] \in Source
  BY <1>1, ClaimedDate
<1>3. next \in Nat /\ next > due
  BY <1>2, MaxDayIsNat DEF Source, Day
<1>4. CASE StillUnclaimed(s, due)
  <2>1. booked[s][due] = 0
    <3>1. booked[s][due] \in Nat /\ due \in Int
      BY <1>1, <1>2, MaxDayIsNat DEF SourcesTypeOK, Day
    <3>2. source[s].nextPaymentDate = due
      BY <1>4 DEF StillUnclaimed
    <3>3. booked[s][due] > 0 => due < due
      BY <1>2, <3>2 DEF BookingInv, NothingBookedAhead
    <3> QED
      BY <3>1, <3>3
  <2>2. booked'[s][due] = 1
    BY <1>1, <1>2, <1>4, <2>1 DEF Claim, SourcesTypeOK
  <2>3. \A t \in Sources : \A d \in Day :
           ~(t = s /\ d = due) => booked'[t][d] = booked[t][d]
    BY <1>1, <1>2, <1>4 DEF Claim, SourcesTypeOK
  <2>4. source'[s].nextPaymentDate = next
    <3>1. source' = [source EXCEPT ![s].nextPaymentDate = next]
      BY <1>4 DEF Claim
    <3> QED
      BY <1>1, <1>2, <3>1 DEF SourcesTypeOK, Source
  <2>5. \A t \in Sources \ {s} : source'[t] = source[t]
    BY <1>1, <1>4 DEF Claim, SourcesTypeOK
  <2>6. OccurrenceOnce'
    BY <2>2, <2>3 DEF BookingInv, OccurrenceOnce
  <2>7. \A d \in Day : booked'[s][d] > 0 => d < next
    <3>1. source[s].nextPaymentDate = due
      BY <1>4 DEF StillUnclaimed
    <3>2. \A d \in Day : booked[s][d] > 0 => d < due
      BY <1>2, <3>1 DEF BookingInv, NothingBookedAhead
    <3> QED
      BY <1>2, <1>3, <2>3, <3>2, MaxDayIsNat DEF Day
  <2>8. NothingBookedAhead'
    BY <2>3, <2>4, <2>5, <2>7 DEF BookingInv, NothingBookedAhead
  <2> QED
    BY <2>6, <2>8
<1>5. CASE ~StillUnclaimed(s, due)
  BY <1>5, BookingKept DEF Claim
<1> QED
  BY <1>4, <1>5

LEMMA BookingStep ==
  ASSUME BookingInv, [SourcesNext]_sourceVars
  PROVE  BookingInv'
<1>1. SourcesTypeOK'
  BY SourcesStepTyped DEF BookingInv
<1>2. CASE Tick
  BY <1>1, <1>2, BookingKept DEF Tick, BookingInv
<1>3. CASE \E p \in Pools, a \in RowAmounts, d \in Day : EnterRow(p, a, d)
  BY <1>1, <1>3, BookingKept DEF EnterRow, BookingInv
<1>4. ASSUME NEW s \in Sources, NEW a \in Amounts, NEW f \in Frequencies,
             NEW d \in EntryDates, NEW b \in BOOLEAN, CreateSource(s, a, f, d, b)
      PROVE  BookingInv'
  <2>1. source'[s].nextPaymentDate = d /\ \A t \in Sources \ {s} : source'[t] = source[t]
    BY <1>4 DEF CreateSource, BookingInv, SourcesTypeOK
  <2>2. booked' = Unbook(s, d) /\ d \in Nat
    BY <1>4, SourceAssumption DEF CreateSource
  <2> QED
    BY <1>1, <2>1, <2>2, UnbookKeeps DEF BookingInv
<1>5. ASSUME NEW s \in Sources, NEW b \in BOOLEAN,
             NEW a \in Amounts \cup {source[s].amount},
             NEW f \in Frequencies \cup {source[s].frequency},
             NEW d \in EntryDates \cup {source[s].nextPaymentDate},
             UpdateSource(s, a, f, d, b)
      PROVE  BookingInv'
  <2>1. source[s] \in Source /\ source \in [Sources -> Source]
    BY DEF BookingInv, SourcesTypeOK
  <2>2. source'[s].nextPaymentDate = d /\ \A t \in Sources \ {s} : source'[t] = source[t]
    BY <1>5, <2>1 DEF UpdateSource, Source
  <2>3. booked' = Unbook(s, d) /\ d \in Nat
    BY <1>5, <2>1, SourceAssumption DEF UpdateSource, Source
  <2> QED
    BY <1>1, <2>2, <2>3, UnbookKeeps DEF BookingInv
<1>6. ASSUME NEW s \in Sources, RemoveSource(s) PROVE BookingInv'
  <2>1. booked' = booked /\ source' = [source EXCEPT ![s].status = "gone"]
    BY <1>6 DEF RemoveSource
  <2>2. \A t \in Sources : source'[t].nextPaymentDate = source[t].nextPaymentDate
    BY <2>1 DEF BookingInv, SourcesTypeOK, Source
  <2> QED
    BY <1>1, <2>1, <2>2, BookingKept DEF BookingInv
<1>7. CASE OtherEdit
  BY <1>1, <1>7, BookingKept DEF OtherEdit, BookingInv
<1>8. ASSUME NEW r \in Requests, ReadSources(r) \/ TakeSource(r) \/ Leave(r)
      PROVE  BookingInv'
  BY <1>1, <1>8, BookingKept DEF ReadSources, TakeSource, Leave, BookingInv
<1>9. ASSUME NEW r \in Requests, Claim(r) PROVE BookingInv'
  BY <1>1, <1>9, ClaimBooksOnce DEF BookingInv
<1>10. CASE UNCHANGED sourceVars
  BY <1>1, <1>10, BookingKept DEF sourceVars, BookingInv
<1> QED
  BY <1>2, <1>3, <1>4, <1>5, <1>6, <1>7, <1>8, <1>9, <1>10 DEF SourcesNext

LEMMA BookingHolds == SourcesSpec => []BookingInv
  BY BookingInit, BookingStep, PTL DEF SourcesSpec

(* Any number of concurrent requests book a payment date of a source at most  *)
(* once: the conditional updateMany of the claim is enough, whatever stale    *)
(* rows the requests hold.                                                    *)
THEOREM BookedOnce == SourcesSpec => []OccurrenceOnce
<1>1. BookingInv => OccurrenceOnce
  BY DEF BookingInv
<1> QED
  BY <1>1, BookingHolds, PTL

(* No row is ever booked on or after the date a source shows next.            *)
THEOREM NeverBookedAhead == SourcesSpec => []NothingBookedAhead
<1>1. BookingInv => NothingBookedAhead
  BY DEF BookingInv
<1> QED
  BY <1>1, BookingHolds, PTL

-------------------------------------------------------------------------------
(* The refinement of PaymentSchedule: a claim that wins is a payment, an edit *)
(* of a source is a rescheduling, other edits change something else, and      *)
(* every other step is a stutter.                                             *)

\* Whatever cycle a request has read, the user chose it for the source once.
Chosen ==
    /\ \A s \in Sources : source[s].status # "new" => source[s].frequency \in Frequencies
    /\ \A r \in Requests : \A s \in run[r].todo : run[r].seen[s].frequency \in Frequencies
    /\ \A r \in Requests : run[r].cursor # NoSource => run[r].seen[run[r].cursor].frequency \in Frequencies

LEMMA ChosenInit == SourcesInit => Chosen
<1> SUFFICES ASSUME SourcesInit PROVE Chosen
  OBVIOUS
<1>1. \A s \in Sources : source[s] \in InitialSource
  BY DEF SourcesInit
<1>2. \A r \in Requests : run[r].todo = {} /\ run[r].cursor = NoSource
  BY DEF SourcesInit, NoRun
<1>3. ASSUME NEW s \in Sources, source[s].status # "new"
      PROVE  source[s].frequency \in Frequencies
  <2>1. source[s] # NewSource
    BY <1>3 DEF NewSource
  <2>2. source[s] \in [status : {"live"}, isActive : {TRUE}, amount : Amounts,
                        frequency : Frequencies, nextPaymentDate : EntryDates]
    BY <1>1, <2>1 DEF InitialSource
  <2> QED
    BY <2>2
<1> QED
  BY <1>2, <1>3 DEF Chosen

\* No request takes up another source, and the cycles of all sources stay.
LEMMA ChosenKept ==
  ASSUME Chosen, run' = run,
         \A s \in Sources : source'[s].status # "new" =>
             source'[s].frequency \in Frequencies
  PROVE  Chosen'
  BY DEF Chosen

LEMMA ChosenStep ==
  ASSUME SourcesTypeOK, Chosen, [SourcesNext]_sourceVars
  PROVE  Chosen'
<1>1. source \in [Sources -> Source] /\ run \in [Requests -> Run]
  BY DEF SourcesTypeOK
<1>2. CASE \/ Tick \/ OtherEdit \/ UNCHANGED sourceVars
           \/ \E p \in Pools, a \in RowAmounts, d \in Day : EnterRow(p, a, d)
  BY <1>2 DEF Tick, OtherEdit, EnterRow, sourceVars, Chosen
<1>3. ASSUME NEW s \in Sources, NEW a \in Amounts, NEW f \in Frequencies,
             NEW d \in EntryDates, NEW b \in BOOLEAN, CreateSource(s, a, f, d, b)
      PROVE  Chosen'
  <2>1. run' = run /\ source'[s].frequency = f /\ \A t \in Sources \ {s} : source'[t] = source[t]
    BY <1>1, <1>3 DEF CreateSource
  <2> QED
    BY <2>1, ChosenKept DEF Chosen
<1>4. ASSUME NEW s \in Sources, NEW b \in BOOLEAN,
             NEW a \in Amounts \cup {source[s].amount},
             NEW f \in Frequencies \cup {source[s].frequency},
             NEW d \in EntryDates \cup {source[s].nextPaymentDate},
             UpdateSource(s, a, f, d, b)
      PROVE  Chosen'
  <2>1. source[s].frequency \in Frequencies
    BY <1>4 DEF UpdateSource, LiveSources, Chosen
  <2>2. run' = run /\ source'[s].frequency = f /\ \A t \in Sources \ {s} : source'[t] = source[t]
    BY <1>1, <1>4 DEF UpdateSource, Source
  <2> QED
    BY <2>1, <2>2, ChosenKept DEF Chosen
<1>5. ASSUME NEW s \in Sources, RemoveSource(s) PROVE Chosen'
  <2>1. source[s].frequency \in Frequencies
    BY <1>5 DEF RemoveSource, LiveSources, Chosen
  <2>2. run' = run /\ \A t \in Sources : source'[t].frequency = source[t].frequency
    BY <1>1, <1>5 DEF RemoveSource, Source
  <2>3. \A t \in Sources \ {s} : source'[t] = source[t]
    BY <1>1, <1>5 DEF RemoveSource
  <2> QED
    BY <2>1, <2>2, <2>3, ChosenKept DEF Chosen
<1>6. ASSUME NEW r \in Requests, ReadSources(r) \/ TakeSource(r) \/ Leave(r)
      PROVE  Chosen'
  <2>1. source' = source /\ \A q \in Requests \ {r} : run'[q] = run[q]
    BY <1>1, <1>6 DEF ReadSources, TakeSource, Leave
  <2>2. CASE ReadSources(r)
    <3>1. /\ run'[r].seen = source /\ run'[r].cursor = NoSource
          /\ run'[r].todo = {s \in LiveSources : source[s].isActive}
      BY <1>1, <2>2 DEF ReadSources, NoRun
    <3> QED
      BY <2>1, <3>1 DEF Chosen, LiveSources
  <2>3. CASE TakeSource(r)
    <3>1. PICK s \in run[r].todo :
             run' = [run EXCEPT ![r].todo = run[r].todo \ {s}, ![r].cursor = s,
                                ![r].due = run[r].seen[s].nextPaymentDate,
                                ![r].iterations = 0]
      BY <2>3 DEF TakeSource
    <3>2. /\ run'[r].seen = run[r].seen /\ run'[r].cursor = s
          /\ run'[r].todo = run[r].todo \ {s}
      BY <1>1, <3>1 DEF Run
    <3> QED
      BY <2>1, <3>2 DEF Chosen
  <2>4. CASE Leave(r)
    <3>1. run'[r].todo = {} /\ run'[r].cursor = NoSource
      BY <1>1, <2>4 DEF Leave, NoRun
    <3> QED
      BY <2>1, <3>1 DEF Chosen
  <2> QED
    BY <1>6, <2>2, <2>3, <2>4
<1>7. ASSUME NEW r \in Requests, Claim(r) PROVE Chosen'
  <2>1. \A q \in Requests \ {r} : run'[q] = run[q]
    BY <1>1, <1>7 DEF Claim
  <2>2. /\ run'[r].seen = run[r].seen /\ run'[r].todo = run[r].todo
        /\ run'[r].cursor \in {run[r].cursor, NoSource}
    BY <1>1, <1>7 DEF Claim, Run
  <2>3. \A s \in Sources : source'[s].status = source[s].status /\ source'[s].frequency = source[s].frequency
    BY <1>1, <1>7 DEF Claim, Source
  <2> QED
    BY <2>1, <2>2, <2>3 DEF Chosen
<1> QED
  BY <1>2, <1>3, <1>4, <1>5, <1>6, <1>7 DEF SourcesNext

LEMMA ChosenHolds == SourcesSpec => []Chosen
  BY ChosenInit, ChosenStep, SourcesTyped, PTL DEF SourcesSpec

shown == [s \in Sources |-> source[s].nextPaymentDate]

LEMMA PromiseInit == SourcesInit => Promise!ScheduleInit
<1> SUFFICES ASSUME SourcesInit PROVE Promise!ScheduleInit
  OBVIOUS
<1>1. source \in [Sources -> Source]
  BY SourcesInitTyped DEF SourcesTypeOK
<1>2. shown \in [Sources -> Nat]
  BY <1>1 DEF shown, Source
<1>3. booked = [s \in Sources |-> [d \in 0 .. MaxDay |-> 0]]
  BY DEF SourcesInit, EmptyTotal, Day
<1>4. edits = 0
  BY DEF SourcesInit
<1> QED
  BY <1>2, <1>3, <1>4 DEF shown, Promise!ScheduleInit

\* Only the date shown by s changes, to a date the user or a claim chose.
LEMMA PointerMoves ==
  ASSUME SourcesTypeOK, SourcesTypeOK', NEW s \in Sources, NEW date \in Nat,
         source'[s].nextPaymentDate = date,
         \A t \in Sources \ {s} : source'[t] = source[t]
  PROVE  /\ Promise!OnlyPointerOf(s)
         /\ shown'[s] = date
<1>1. shown'[s] = date
  BY DEF shown
<1>2. shown' = [shown EXCEPT ![s] = shown'[s]]
  BY DEF shown
<1> QED
  BY <1>1, <1>2 DEF shown, Promise!OnlyPointerOf

LEMMA PromiseUnmoved ==
  ASSUME booked' = booked, edits' = edits,
         \A s \in Sources : source'[s].nextPaymentDate = source[s].nextPaymentDate
  PROVE  UNCHANGED Promise!scheduleVars
<1>1. shown' = shown
  BY DEF shown
<1> QED
  BY <1>1 DEF shown, Promise!scheduleVars

LEMMA PromiseElsewhere ==
  ASSUME booked' = booked, edits' = edits + 1,
         \A s \in Sources : source'[s].nextPaymentDate = source[s].nextPaymentDate
  PROVE  Promise!ScheduleNext
<1>1. shown' = shown
  BY DEF shown
<1> QED
  BY <1>1 DEF shown, Promise!ChangeSomethingElse, Promise!ScheduleNext

LEMMA EditReschedules ==
  ASSUME SourcesTypeOK, SourcesTypeOK', NEW s \in Sources, NEW date \in Nat,
         booked' = Unbook(s, date), edits' = edits + 1,
         source'[s].nextPaymentDate = date,
         \A t \in Sources \ {s} : source'[t] = source[t]
  PROVE  Promise!Reschedule(s)
<1>1. Promise!OnlyPointerOf(s) /\ shown'[s] = date
  BY PointerMoves
<1>2. booked' = [booked EXCEPT ![s] = [d \in 0 .. MaxDay |->
                                         IF d < shown'[s] THEN booked[s][d] ELSE 0]]
  BY <1>1 DEF Unbook, Day
<1> QED
  BY <1>1, <1>2 DEF shown, Promise!Reschedule

LEMMA ClaimPays ==
  ASSUME BookingInv, BookingInv', Chosen, NEW r \in Requests, Claim(r),
         NEW s \in Sources, s = run[r].cursor,
         NEW due \in Day, due = run[r].due,
         NEW next \in Nat, next = due + run[r].seen[s].frequency,
         next > due, StillUnclaimed(s, due)
  PROVE  Promise!Pay(s)
<1>1. SourcesTypeOK /\ SourcesTypeOK'
  BY DEF BookingInv
<1>2. source' = [source EXCEPT ![s].nextPaymentDate = next]
  BY DEF Claim
<1>3. /\ source'[s].nextPaymentDate = next
      /\ \A t \in Sources \ {s} : source'[t] = source[t]
  BY <1>1, <1>2 DEF SourcesTypeOK, Source
<1>4. shown[s] = due
  BY DEF StillUnclaimed, shown
<1>5. Promise!OnlyPointerOf(s) /\ shown'[s] = next
  BY <1>1, <1>3, PointerMoves
<1>6. booked[s][due] = 0
  <2>1. booked[s][due] \in Nat /\ due \in Int
    BY <1>1, MaxDayIsNat DEF SourcesTypeOK, Day
  <2>2. booked[s][due] > 0 => due < due
    BY DEF BookingInv, NothingBookedAhead, StillUnclaimed
  <2> QED
    BY <2>1, <2>2
<1>7. booked' = [booked EXCEPT ![s][due] = 1]
  BY <1>6 DEF Claim
<1>8. due \in 0 .. MaxDay
  BY DEF Day
<1>9. run[r].seen[s].frequency \in Frequencies /\ edits' = edits
  BY SourceAssumption DEF Chosen, Claim
<1> QED
  BY <1>4, <1>5, <1>6, <1>7, <1>8, <1>9 DEF shown, Promise!Pay

LEMMA PromiseStep ==
  ASSUME BookingInv, Chosen, [SourcesNext]_sourceVars
  PROVE  [Promise!ScheduleNext]_(Promise!scheduleVars)
<1>0. BookingInv' /\ SourcesTypeOK /\ SourcesTypeOK'
  BY BookingStep DEF BookingInv
<1>1. CASE \/ Tick \/ UNCHANGED sourceVars
           \/ \E p \in Pools, a \in RowAmounts, d \in Day : EnterRow(p, a, d)
           \/ \E r \in Requests : ReadSources(r) \/ TakeSource(r) \/ Leave(r)
  BY <1>1, PromiseUnmoved
     DEF Tick, EnterRow, ReadSources, TakeSource, Leave, sourceVars
<1>6. CASE OtherEdit
  BY <1>6, PromiseElsewhere DEF OtherEdit
<1>2. ASSUME NEW s \in Sources, NEW a \in Amounts, NEW f \in Frequencies,
             NEW d \in EntryDates, NEW b \in BOOLEAN, CreateSource(s, a, f, d, b)
      PROVE  Promise!ScheduleNext
  <2>1. source'[s].nextPaymentDate = d /\ \A t \in Sources \ {s} : source'[t] = source[t]
    BY <1>0, <1>2 DEF CreateSource, SourcesTypeOK
  <2>2. booked' = Unbook(s, d) /\ d \in Nat /\ edits' = edits + 1
    BY <1>2, SourceAssumption DEF CreateSource
  <2> QED
    BY <1>0, <2>1, <2>2, EditReschedules DEF Promise!ScheduleNext
<1>3. ASSUME NEW s \in Sources, NEW b \in BOOLEAN,
             NEW a \in Amounts \cup {source[s].amount},
             NEW f \in Frequencies \cup {source[s].frequency},
             NEW d \in EntryDates \cup {source[s].nextPaymentDate},
             UpdateSource(s, a, f, d, b)
      PROVE  Promise!ScheduleNext
  <2>1. source[s] \in Source /\ source \in [Sources -> Source]
    BY <1>0 DEF SourcesTypeOK
  <2>2. source'[s].nextPaymentDate = d /\ \A t \in Sources \ {s} : source'[t] = source[t]
    BY <1>3, <2>1 DEF UpdateSource, Source
  <2>3. booked' = Unbook(s, d) /\ d \in Nat /\ edits' = edits + 1
    BY <1>3, <2>1, SourceAssumption DEF UpdateSource, Source
  <2> QED
    BY <1>0, <2>2, <2>3, EditReschedules DEF Promise!ScheduleNext
<1>4. ASSUME NEW s \in Sources, RemoveSource(s)
      PROVE  Promise!ScheduleNext
  <2>1. booked' = booked /\ edits' = edits + 1 /\ source' = [source EXCEPT ![s].status = "gone"]
    BY <1>4 DEF RemoveSource
  <2>2. \A t \in Sources : source'[t].nextPaymentDate = source[t].nextPaymentDate
    BY <1>0, <2>1 DEF SourcesTypeOK, Source
  <2> QED
    BY <2>1, <2>2, PromiseElsewhere
<1>5. ASSUME NEW r \in Requests, Claim(r)
      PROVE  [Promise!ScheduleNext]_(Promise!scheduleVars)
  <2>1. CASE StillUnclaimed(run[r].cursor, run[r].due)
    <3>1. PICK s \in Sources : s = run[r].cursor
      BY <1>0, <1>5, ClaimedDate DEF Claim
    <3>2. PICK due \in Day : due = run[r].due
      BY <1>0, <1>5, ClaimedDate DEF Claim
    <3>3. run[r].seen[s] \in Source
      BY <1>0, <1>5, <3>1, ClaimedDate DEF Claim
    <3>4. PICK next \in Nat : next = due + run[r].seen[s].frequency /\ next > due
      BY <3>3, MaxDayIsNat DEF Source, Day
    <3>5. Promise!Pay(s)
      BY <1>0, <1>5, <2>1, <3>1, <3>2, <3>4, ClaimPays
    <3> QED
      BY <3>5 DEF Promise!ScheduleNext
  <2>2. CASE ~StillUnclaimed(run[r].cursor, run[r].due)
    BY <1>5, <2>2, PromiseUnmoved DEF Claim
  <2> QED
    BY <2>1, <2>2
<1> QED
  BY <1>1, <1>2, <1>3, <1>4, <1>5, <1>6 DEF SourcesNext

(* The booking of payments by concurrent summary requests implements the      *)
(* schedule promised for every source.                                        *)
THEOREM ImplementsSchedule == SourcesSpec => KeepsPromise
  BY PromiseInit, PromiseStep, BookingHolds, ChosenHolds, PTL
     DEF SourcesSpec, KeepsPromise, Promise!ScheduleSpec

-------------------------------------------------------------------------------
(* The summary, seen through the variables of IncomeSources.                  *)

LEMMA UserStepOfSources == UserStep => [SourcesNext]_sourceVars
<1>1. ClockOrRow => SourcesNext
  BY DEF ClockOrRow, Midnight, SourcesNext
<1>2. EditSource => SourcesNext
  BY DEF EditSource, SourcesNext
<1>3. ASSUME NEW s \in Sources, DeleteSource(s) PROVE SourcesNext
  BY <1>3 DEF DeleteSource, SourcesNext
<1>4. ASSUME NEW d, NEW i, NEW f, EditProfile(d, i, f) PROVE SourcesNext
  BY <1>4 DEF EditProfile, SourcesNext
<1>5. ASSUME NEW a, NEW dated, EditRollover(a, dated) PROVE SourcesNext
  BY <1>5 DEF EditRollover, SourcesNext
<1>6. ASSUME NEW p, Dismiss(p) PROVE SourcesNext
  BY <1>6 DEF Dismiss, SourcesNext
<1> QED
  BY <1>1, <1>2, <1>3, <1>4, <1>5, <1>6 DEF UserStep

LEMMA RequestStepOfSources ==
  ASSUME NEW r \in Requests, Open(r) \/ Step(r) \/ Crash(r)
  PROVE  [SourcesNext]_sourceVars
<1>1. CASE Open(r)
  BY <1>1 DEF Open
<1>2. CASE ListSources(r)
  BY <1>2 DEF ListSources, SourcesNext
<1>3. CASE BookPayments(r)
  BY <1>3 DEF BookPayments, SourcesNext
<1>4. CASE EndBooking(r)
  BY <1>4 DEF EndBooking, SourcesNext
<1>5. CASE Crash(r)
  BY <1>5 DEF Crash, SourcesNext
<1>6. CASE FirstTransition(r) \/ ReadSalaryPool(r) \/ ReadTransitionSources(r)
  BY <1>6 DEF FirstTransition, ReadSalaryPool, ReadTransitionSources
<1>7. CASE ReadSourcePools(r) \/ Commit(r) \/ CommitFails(r)
  BY <1>7 DEF ReadSourcePools, Commit, CommitFails
<1>8. CASE ReadBanners(r) \/ (\E p \in Pools : ExpireBanner(r, p)) \/ Respond(r)
  BY <1>8 DEF ReadBanners, ExpireBanner, Respond
<1> QED
  BY <1>1, <1>2, <1>3, <1>4, <1>5, <1>6, <1>7, <1>8 DEF Step

LEMMA StepOfSources == [Next]_vars => [SourcesNext]_sourceVars
<1>1. CASE UNCHANGED vars
  BY <1>1 DEF vars
<1> QED
  BY <1>1, UserStepOfSources, RequestStepOfSources DEF Next

(* Closing periods, banners, crashes and profile edits do nothing to the      *)
(* income sources that IncomeSources does not allow.                          *)
THEOREM SummaryImplementsSources == Spec => SourcesSpec
<1>1. Init => SourcesInit
  BY DEF Init
<1> QED
  BY <1>1, StepOfSources, PTL DEF Spec, SourcesSpec

(* Whatever summaries, midnights, crashes and edits interleave, a payment     *)
(* date of a source is booked at most once.                                   *)
THEOREM SummaryBooksOnce == Spec => []OccurrenceOnce
  BY SummaryImplementsSources, BookedOnce, PTL

(* No source payment is booked ahead of the source's next date.               *)
THEOREM SummaryNeverBooksAhead == Spec => []NothingBookedAhead
  BY SummaryImplementsSources, NeverBookedAhead, PTL

(* The whole summary implements the payment schedule.                         *)
THEOREM SummaryImplementsSchedule == Spec => KeepsPromise
  BY SummaryImplementsSources, ImplementsSchedule, PTL

-------------------------------------------------------------------------------
(* Types.  That a rollover is a natural number rests on the aggregates over   *)
(* a period that has ended, so a request in the middle of a transition must   *)
(* be known to close a period whose pay date has come.                        *)

ClosingIsDue ==
    \A r \in Requests :
        pc[r] \in {"sources", "sums", "commit"} => HasCome(mine[r].row.nextPayDate)

SummaryInv == TypeOK /\ ClosingIsDue

LEMMA RecordTypes ==
  /\ NoBanner \in Banner
  /\ NoUser \in User
  /\ NoCopy \in [row : User, rollover : Nat, day : Day]
  /\ Zero \in [Pools -> Nat]
<1>1. NoUser \in User
  BY DEF NoUser, User
<1> QED
  BY <1>1, MaxDayIsNat DEF NoBanner, Banner, NoCopy, Zero, Day

LEMMA AtLeastZeroType ==
  ASSUME NEW x \in Int
  PROVE  AtLeastZero(x) \in Nat
  BY DEF AtLeastZero

LEMMA PeriodTotalType ==
  ASSUME SourcesTypeOK, NEW p \in Pools, NEW row \in User, HasCome(row.nextPayDate)
  PROVE  PeriodTotal(p, row) \in Int
<1>1. /\ net[p] \in [Day -> Int]
      /\ row.nextPayDate \in Nat /\ row.frequency \in Nat \ {0}
      /\ row.nextPayDate <= MaxDay
  BY MaxDayIsNat DEF SourcesTypeOK, User, HasCome, Day
<1>2. UpTo(net[p], row.nextPayDate - 1) \in Int
  BY <1>1, UpToType, MaxDayIsNat
<1>3. UpTo(net[p], row.nextPayDate - row.frequency - 1) \in Int
  BY <1>1, UpToType, MaxDayIsNat
<1> QED
  BY <1>2, <1>3 DEF PeriodTotal, Between

LEMMA FollowingPayDateType ==
  ASSUME NEW row \in User
  PROVE  FollowingPayDate(row) \in Nat
  BY DEF FollowingPayDate, User

LEMMA PaySalaryTyped ==
  ASSUME salaryRows \in [Day -> Nat], NEW row \in User, PaySalary(row)
  PROVE  salaryRows' \in [Day -> Nat]
<1>1. ASSUME NEW date
      PROVE  [salaryRows EXCEPT ![date] = salaryRows[date] + 1] \in [Day -> Nat]
  <2>1. CASE date \in Day
    BY <2>1
  <2>2. CASE date \notin Day
    BY <2>2
  <2> QED
    BY <2>1, <2>2
<1> QED
  BY <1>1 DEF PaySalary

LEMMA PublishType ==
  ASSUME SourcesTypeOK, banner \in [Pools -> Banner],
         NEW p \in Pools, NEW amount \in Nat, NEW date \in Nat
  PROVE  Publish(p, amount, date) \in Banner
  BY MaxDayIsNat DEF Publish, Banner, SourcesTypeOK, Day

LEMMA SummaryInit == Init => SummaryInv
<1> SUFFICES ASSUME Init PROVE SummaryInv
  OBVIOUS
<1>1. SourcesTypeOK
  BY SourcesInitTyped DEF Init
<1>2. user \in User
  BY PayPeriodAssumption DEF Init, User
<1>3. /\ rollover \in [Pools -> Nat]
      /\ banner \in [Pools -> Banner]
      /\ salaryRows \in [Day -> Nat]
      /\ history \in [Day -> Nat]
  BY RecordTypes, EmptyTotalType DEF Init
<1>4. /\ pc \in [Requests -> Stage]
      /\ mine \in [Requests -> [row : User, rollover : Nat, day : Day]]
      /\ closed \in [Requests -> Nat]
      /\ totals \in [Requests -> [Pools -> Nat]]
      /\ pools \in [Requests -> SUBSET Pools]
      /\ crashes \in Nat
  <2>1. pc \in [Requests -> Stage]
    BY DEF Init, Stage
  <2>2. mine \in [Requests -> [row : User, rollover : Nat, day : Day]]
    BY RecordTypes DEF Init
  <2>3. totals \in [Requests -> [Pools -> Nat]]
    BY RecordTypes DEF Init
  <2> QED
    BY <2>1, <2>2, <2>3 DEF Init
<1>5. ClosingIsDue
  BY DEF Init, ClosingIsDue
<1> QED
  BY <1>1, <1>2, <1>3, <1>4, <1>5 DEF SummaryInv, TypeOK

\* Time passes only forwards, so a date that has come stays so.
LEMMA HasComeStays ==
  ASSUME SourcesTypeOK, [SourcesNext]_sourceVars, NEW date \in Nat, HasCome(date)
  PROVE  HasCome(date)'
<1>1. today' = today \/ today' = today + 1
  BY DEF SourcesNext, sourceVars, Tick, EnterRow, CreateSource, UpdateSource,
         RemoveSource, OtherEdit, ReadSources, TakeSource, Claim, Leave
<1>2. today \in Nat
  BY MaxDayIsNat DEF SourcesTypeOK, Day
<1> QED
  BY <1>1, <1>2 DEF HasCome

\* Steps that leave where the requests are, and what they hold, alone.
LEMMA ClosingKept ==
  ASSUME SummaryInv, [SourcesNext]_sourceVars, pc' = pc, mine' = mine
  PROVE  ClosingIsDue'
<1> SUFFICES ASSUME NEW r \in Requests, pc[r] \in {"sources", "sums", "commit"}
             PROVE  HasCome(mine[r].row.nextPayDate)'
  BY DEF ClosingIsDue
<1> DEFINE date == mine[r].row.nextPayDate
<1>1. PICK d \in Nat : d = date
  BY DEF SummaryInv, TypeOK, User
<1>2. HasCome(d)
  BY <1>1 DEF SummaryInv, ClosingIsDue
<1>3. HasCome(d)'
  BY <1>2, HasComeStays DEF SummaryInv, TypeOK
<1> QED
  BY <1>1, <1>3 DEF HasCome

LEMMA UserStepTyped ==
  ASSUME SummaryInv, UserStep
  PROVE  SummaryInv'
<1>1. [SourcesNext]_sourceVars
  BY UserStepOfSources
<1>2. SourcesTypeOK'
  BY <1>1, SourcesStepTyped DEF SummaryInv, TypeOK
<1>3. UNCHANGED requestVars
  BY DEF UserStep, ClockOrRow, EditSource, DeleteSource, EditProfile, EditRollover, Dismiss
<1>4. ClosingIsDue'
  BY <1>1, <1>3, ClosingKept DEF requestVars
<1>5. /\ user' \in User
      /\ rollover' \in [Pools -> Nat]
      /\ banner' \in [Pools -> Banner]
      /\ salaryRows' \in [Day -> Nat]
      /\ history' \in [Day -> Nat]
  <2>1. CASE ClockOrRow \/ EditSource
    BY <2>1 DEF ClockOrRow, EditSource, homeVars, SummaryInv, TypeOK
  <2>2. ASSUME NEW s \in Sources, DeleteSource(s) PROVE <1>5!:
    BY <2>2, RecordTypes DEF DeleteSource, SummaryInv, TypeOK
  <2>3. ASSUME NEW d \in PayDates \cup {user.nextPayDate}, NEW i \in Incomes,
               NEW f \in PayFrequencies, EditProfile(d, i, f)
        PROVE  <1>5!:
    <3>1. user' \in User
      BY <2>3, PayPeriodAssumption DEF EditProfile, SummaryInv, TypeOK, User
    <3> QED
      BY <2>3, <3>1 DEF EditProfile, SummaryInv, TypeOK
  <2>4. ASSUME NEW a \in Rollovers, NEW dated \in BOOLEAN, EditRollover(a, dated)
        PROVE  <1>5!:
    <3>1. user' \in User
      BY <2>4 DEF EditRollover, SummaryInv, TypeOK, User
    <3> QED
      BY <2>4, <3>1, PayPeriodAssumption DEF EditRollover, SummaryInv, TypeOK
  <2>5. ASSUME NEW p \in Pools, Dismiss(p) PROVE <1>5!:
    <3>1. banner \in [Pools -> Banner]
      BY DEF SummaryInv, TypeOK
    <3>2. [banner[p] EXCEPT !.shown = FALSE] \in Banner
      BY <3>1 DEF Banner
    <3>3. banner' \in [Pools -> Banner]
      <4>1. banner' = [banner EXCEPT ![p].shown = FALSE]
        BY <2>5 DEF Dismiss
      <4> QED
        BY <3>1, <3>2, <4>1
    <3>4. UNCHANGED <<user, rollover, salaryRows, history>>
      BY <2>5 DEF Dismiss
    <3> QED
      BY <3>3, <3>4 DEF SummaryInv, TypeOK
  <2> QED
    BY <2>1, <2>2, <2>3, <2>4, <2>5 DEF UserStep
<1> QED
  BY <1>2, <1>3, <1>4, <1>5 DEF SummaryInv, TypeOK, requestVars

-------------------------------------------------------------------------------
(* The steps of a request.                                                    *)

HomeTyped ==
    /\ user \in User
    /\ rollover \in [Pools -> Nat]
    /\ banner \in [Pools -> Banner]
    /\ salaryRows \in [Day -> Nat]
    /\ history \in [Day -> Nat]

RequestsTyped ==
    /\ pc \in [Requests -> Stage]
    /\ mine \in [Requests -> [row : User, rollover : Nat, day : Day]]
    /\ closed \in [Requests -> Nat]
    /\ totals \in [Requests -> [Pools -> Nat]]
    /\ pools \in [Requests -> SUBSET Pools]
    /\ crashes \in Nat

LEMMA TypeParts == TypeOK <=> SourcesTypeOK /\ HomeTyped /\ RequestsTyped
  BY DEF TypeOK, HomeTyped, RequestsTyped

LEMMA TypePartsPrime == TypeOK' <=> SourcesTypeOK' /\ HomeTyped' /\ RequestsTyped'
  BY DEF TypeOK, HomeTyped, RequestsTyped

LEMMA HomeKept == HomeTyped /\ UNCHANGED homeVars => HomeTyped'
  BY DEF HomeTyped, homeVars

\* Only request r moves; if it is closing a period, that period has ended.
LEMMA ClosingMoved ==
  ASSUME SummaryInv, [SourcesNext]_sourceVars, NEW r \in Requests,
         NEW stage \in Stage, pc' = [pc EXCEPT ![r] = stage],
         \A q \in Requests \ {r} : mine'[q] = mine[q],
         stage \in {"sources", "sums", "commit"} =>
            mine'[r] = mine[r] /\ HasCome(mine[r].row.nextPayDate)
  PROVE  ClosingIsDue'
<1> SUFFICES ASSUME NEW q \in Requests, pc'[q] \in {"sources", "sums", "commit"}
             PROVE  HasCome(mine[q].row.nextPayDate)'
  BY DEF ClosingIsDue
<1>1. PICK d \in Nat : d = mine[q].row.nextPayDate
  BY DEF SummaryInv, TypeOK, User
<1>2. pc \in [Requests -> Stage]
  BY DEF SummaryInv, TypeOK
<1>3. CASE q = r
  <2>1. mine'[q] = mine[q] /\ HasCome(d)
    BY <1>1, <1>2, <1>3
  <2>2. HasCome(d)'
    BY <2>1, HasComeStays DEF SummaryInv, TypeOK
  <2> QED
    BY <1>1, <2>1, <2>2 DEF HasCome
<1>4. CASE q # r
  <2>1. mine'[q] = mine[q] /\ HasCome(d)
    BY <1>1, <1>2, <1>4 DEF SummaryInv, ClosingIsDue
  <2>2. HasCome(d)'
    BY <2>1, HasComeStays DEF SummaryInv, TypeOK
  <2> QED
    BY <1>1, <2>1, <2>2 DEF HasCome
<1> QED
  BY <1>3, <1>4

LEMMA FinishTyped ==
  ASSUME SummaryInv, [SourcesNext]_sourceVars, NEW r \in Requests, Finish(r), crashes' \in Nat
  PROVE  RequestsTyped' /\ ClosingIsDue'
<1>1. RequestsTyped
  BY TypeParts DEF SummaryInv
<1>2. "idle" \in Stage
  BY DEF Stage
<1>3. pc' = [pc EXCEPT ![r] = "idle"] /\ mine' = [mine EXCEPT ![r] = NoCopy]
  BY DEF Finish, Goto
<1>4. RequestsTyped'
  <2>1. pc' \in [Requests -> Stage]
    BY <1>1, <1>2, <1>3 DEF RequestsTyped
  <2>2. mine' \in [Requests -> [row : User, rollover : Nat, day : Day]]
    BY <1>1, <1>3, RecordTypes DEF RequestsTyped
  <2>3. totals' \in [Requests -> [Pools -> Nat]]
    BY <1>1, RecordTypes DEF Finish, RequestsTyped
  <2> QED
    BY <1>1, <2>1, <2>2, <2>3 DEF Finish, RequestsTyped
<1>5. \A q \in Requests \ {r} : mine'[q] = mine[q]
  BY <1>1, <1>3 DEF RequestsTyped
<1>6. ClosingIsDue'
  BY <1>2, <1>3, <1>5, ClosingMoved
<1> QED
  BY <1>4, <1>6

LEMMA OpenTyped ==
  ASSUME SummaryInv, NEW r \in Requests, Open(r), [SourcesNext]_sourceVars
  PROVE  HomeTyped' /\ RequestsTyped' /\ ClosingIsDue'
<1>1. SourcesTypeOK /\ HomeTyped /\ RequestsTyped
  BY TypeParts DEF SummaryInv
<1> DEFINE copy == [row |-> user, rollover |-> rollover[Salary], day |-> today]
<1>2. copy \in [row : User, rollover : Nat, day : Day]
  BY <1>1 DEF HomeTyped, SourcesTypeOK, Pools
<1>3. /\ mine' = [mine EXCEPT ![r] = copy] /\ pc' = [pc EXCEPT ![r] = "list"]
      /\ UNCHANGED <<closed, totals, pools, crashes>>
  BY DEF Open, Goto
<1>4. "list" \in Stage
  BY DEF Stage
<1> HIDE DEF copy
<1>5. RequestsTyped'
  BY <1>1, <1>2, <1>3, <1>4 DEF RequestsTyped
<1>6. HomeTyped'
  BY <1>1, HomeKept DEF Open
<1>7. \A q \in Requests \ {r} : mine'[q] = mine[q]
  BY <1>1, <1>3 DEF RequestsTyped
<1>8. ClosingIsDue'
  BY <1>3, <1>4, <1>7, ClosingMoved
<1> QED
  BY <1>5, <1>6, <1>8

LEMMA BookingTyped ==
  ASSUME SummaryInv, NEW r \in Requests, [SourcesNext]_sourceVars,
         ListSources(r) \/ BookPayments(r) \/ EndBooking(r)
  PROVE  HomeTyped' /\ RequestsTyped' /\ ClosingIsDue'
<1>1. HomeTyped /\ RequestsTyped
  BY TypeParts DEF SummaryInv
<1>2. HomeTyped'
  BY <1>1, HomeKept DEF ListSources, BookPayments, EndBooking
<1>3. ASSUME NEW stage \in {"book", "check"}, pc' = [pc EXCEPT ![r] = stage],
             UNCHANGED <<mine, closed, totals, pools, crashes>>
      PROVE  RequestsTyped' /\ ClosingIsDue'
  <2>1. stage \in Stage
    BY DEF Stage
  <2>2. RequestsTyped'
    BY <1>1, <1>3, <2>1 DEF RequestsTyped
  <2>3. ClosingIsDue'
    BY <1>3, <2>1, ClosingMoved
  <2> QED
    BY <2>2, <2>3
<1>4. CASE ListSources(r)
  BY <1>2, <1>3, <1>4 DEF ListSources, Goto
<1>5. CASE BookPayments(r)
  <2>1. pc' = pc /\ mine' = mine
    BY <1>5 DEF BookPayments, requestVars
  <2>2. RequestsTyped'
    BY <1>1, <1>5 DEF BookPayments, requestVars, RequestsTyped
  <2> QED
    BY <1>2, <2>1, <2>2, ClosingKept
<1>6. CASE EndBooking(r)
  BY <1>2, <1>3, <1>6 DEF EndBooking, Goto
<1> QED
  BY <1>4, <1>5, <1>6

\* The user row that a transition writes, and the request then holds.
LEMMA SettledRow ==
  ASSUME HomeTyped, NEW row \in User,
         user' = [user EXCEPT !.nextPayDate = FollowingPayDate(row), !.settled = TRUE]
  PROVE  user' \in User
<1>1. FollowingPayDate(row) \in Nat
  BY FollowingPayDateType
<1> QED
  BY <1>1 DEF HomeTyped, User

LEMMA FirstTransitionTyped ==
  ASSUME SummaryInv, NEW r \in Requests, [SourcesNext]_sourceVars, FirstTransition(r)
  PROVE  HomeTyped' /\ RequestsTyped' /\ ClosingIsDue'
<1>1. HomeTyped /\ RequestsTyped
  BY TypeParts DEF SummaryInv
<1>2. mine[r].row \in User
  BY <1>1 DEF RequestsTyped
<1>3. user' \in User
  BY <1>1, <1>2, SettledRow DEF FirstTransition
<1>4. salaryRows' \in [Day -> Nat]
  BY <1>1, <1>2, PaySalaryTyped DEF FirstTransition, HomeTyped
<1>5. HomeTyped'
  BY <1>1, <1>3, <1>4 DEF FirstTransition, HomeTyped
<1> DEFINE copy == [mine[r] EXCEPT !.row = user', !.rollover = 0]
<1>6. copy \in [row : User, rollover : Nat, day : Day]
  BY <1>1, <1>3 DEF RequestsTyped
<1>7. mine' = [mine EXCEPT ![r] = copy]
  BY <1>1 DEF FirstTransition, RequestsTyped
<1>8. RequestsTyped'
  <2>1. mine' \in [Requests -> [row : User, rollover : Nat, day : Day]]
    BY <1>1, <1>6, <1>7 DEF RequestsTyped
  <2> QED
    BY <1>1, <2>1 DEF FirstTransition, RequestsTyped
<1>9. pc[r] = "check" /\ pc' = [pc EXCEPT ![r] = "check"] /\ "check" \in Stage
  BY <1>1 DEF FirstTransition, Stage, RequestsTyped
<1>10. \A q \in Requests \ {r} : mine'[q] = mine[q]
  BY <1>1, <1>7 DEF RequestsTyped
<1>11. ClosingIsDue'
  BY <1>9, <1>10, ClosingMoved
<1> QED
  BY <1>5, <1>8, <1>11

LEMMA ReadSalaryPoolTyped ==
  ASSUME SummaryInv, NEW r \in Requests, [SourcesNext]_sourceVars, ReadSalaryPool(r)
  PROVE  HomeTyped' /\ RequestsTyped' /\ ClosingIsDue'
<1>1. SourcesTypeOK /\ HomeTyped /\ RequestsTyped
  BY TypeParts DEF SummaryInv
<1> DEFINE total == AtLeastZero(mine[r].row.income + mine[r].rollover
                                + PeriodTotal(Salary, mine[r].row))
<1>2. mine[r].row \in User /\ mine[r].rollover \in Nat /\ HasCome(mine[r].row.nextPayDate)
  BY <1>1 DEF RequestsTyped, ReadSalaryPool, PeriodHasEnded
<1>3. PeriodTotal(Salary, mine[r].row) \in Int
  BY <1>1, <1>2, PeriodTotalType DEF Pools
<1>4. total \in Nat
  BY <1>2, <1>3, AtLeastZeroType DEF User
<1>5. /\ totals' = [totals EXCEPT ![r] = [totals[r] EXCEPT ![Salary] = total]]
      /\ pc' = [pc EXCEPT ![r] = "sources"]
      /\ UNCHANGED <<mine, closed, pools, crashes>>
  BY <1>1 DEF ReadSalaryPool, Goto, RequestsTyped
<1> HIDE DEF total
<1>6. "sources" \in Stage
  BY DEF Stage
<1>7. totals' \in [Requests -> [Pools -> Nat]]
  BY <1>1, <1>4, <1>5 DEF RequestsTyped
<1>8. RequestsTyped'
  BY <1>1, <1>5, <1>6, <1>7 DEF RequestsTyped
<1>9. HomeTyped'
  BY <1>1, HomeKept DEF ReadSalaryPool
<1>10. ClosingIsDue'
  BY <1>2, <1>5, <1>6, ClosingMoved
<1> QED
  BY <1>8, <1>9, <1>10

LEMMA ReadTransitionSourcesTyped ==
  ASSUME SummaryInv, NEW r \in Requests, [SourcesNext]_sourceVars, ReadTransitionSources(r)
  PROVE  HomeTyped' /\ RequestsTyped' /\ ClosingIsDue'
<1>1. HomeTyped /\ RequestsTyped
  BY TypeParts DEF SummaryInv
<1>2. LiveSources \subseteq Pools
  BY DEF LiveSources, Pools
<1> DEFINE read == [p \in Pools |-> IF p \in LiveSources THEN rollover[p] ELSE totals[r][p]]
<1>3. read \in [Pools -> Nat]
  BY <1>1 DEF HomeTyped, RequestsTyped
<1>4. /\ totals' = [totals EXCEPT ![r] = read]
      /\ pools' = [pools EXCEPT ![r] = LiveSources]
      /\ pc[r] = "sources"
      /\ pc' = [pc EXCEPT ![r] = "sums"]
      /\ UNCHANGED <<mine, closed, crashes>>
  BY DEF ReadTransitionSources, Goto
<1> HIDE DEF read
<1>5. "sums" \in Stage
  BY DEF Stage
<1>6. RequestsTyped'
  BY <1>1, <1>2, <1>3, <1>4, <1>5 DEF RequestsTyped
<1>7. HomeTyped'
  BY <1>1, HomeKept DEF ReadTransitionSources
<1>8. HasCome(mine[r].row.nextPayDate)
  BY <1>4 DEF SummaryInv, ClosingIsDue
<1>9. ClosingIsDue'
  BY <1>4, <1>5, <1>8, ClosingMoved
<1> QED
  BY <1>6, <1>7, <1>9

LEMMA ReadSourcePoolsTyped ==
  ASSUME SummaryInv, NEW r \in Requests, [SourcesNext]_sourceVars, ReadSourcePools(r)
  PROVE  HomeTyped' /\ RequestsTyped' /\ ClosingIsDue'
<1>1. SourcesTypeOK /\ HomeTyped /\ RequestsTyped
  BY TypeParts DEF SummaryInv
<1>2. pc[r] = "sums" /\ HasCome(mine[r].row.nextPayDate)
  BY DEF ReadSourcePools, SummaryInv, ClosingIsDue
<1> DEFINE sum(p) == AtLeastZero(totals[r][p] + PeriodTotal(p, mine[r].row))
           summed == [p \in Pools |-> IF p \in pools[r] THEN sum(p) ELSE totals[r][p]]
<1>3. ASSUME NEW p \in Pools PROVE sum(p) \in Nat
  <2>1. PeriodTotal(p, mine[r].row) \in Int
    BY <1>1, <1>2, PeriodTotalType DEF RequestsTyped
  <2> QED
    BY <1>1, <2>1, AtLeastZeroType DEF RequestsTyped
<1>4. summed \in [Pools -> Nat]
  <2> HIDE DEF sum
  <2> QED
    BY <1>1, <1>3 DEF RequestsTyped
<1>5. /\ totals' = [totals EXCEPT ![r] = summed]
      /\ pc' = [pc EXCEPT ![r] = "commit"]
      /\ UNCHANGED <<mine, closed, pools, crashes>>
  BY DEF ReadSourcePools, Goto
<1> HIDE DEF summed
<1>6. "commit" \in Stage
  BY DEF Stage
<1>7. RequestsTyped'
  BY <1>1, <1>4, <1>5, <1>6 DEF RequestsTyped
<1>8. HomeTyped'
  BY <1>1, HomeKept DEF ReadSourcePools
<1>9. ClosingIsDue'
  BY <1>2, <1>5, <1>6, ClosingMoved
<1> QED
  BY <1>7, <1>8, <1>9

LEMMA CommitTyped ==
  ASSUME SummaryInv, NEW r \in Requests, [SourcesNext]_sourceVars, Commit(r)
  PROVE  HomeTyped' /\ RequestsTyped' /\ ClosingIsDue'
<1> DEFINE row  == mine[r].row
           date == row.nextPayDate
           ours == pools[r] \cup {Salary}
<1>1. SourcesTypeOK /\ HomeTyped /\ RequestsTyped
  BY TypeParts DEF SummaryInv
<1>2. row \in User /\ date \in Nat
  BY <1>1 DEF RequestsTyped, User
<1>3. \A p \in Pools : totals[r][p] \in Nat
  BY <1>1 DEF RequestsTyped
<1>4. user' \in User
  BY <1>1, <1>2, SettledRow DEF Commit
<1>5. rollover' \in [Pools -> Nat]
  BY <1>1, <1>3 DEF Commit, HomeTyped
<1>6. history' \in [Day -> Nat]
  <2>1. date \in Day
    BY <1>1, <1>2, MaxDayIsNat
       DEF Commit, SummaryInv, ClosingIsDue, HasCome, SourcesTypeOK, Day
  <2> QED
    BY <1>1, <2>1 DEF Commit, HomeTyped
<1>7. banner' \in [Pools -> Banner]
  <2>1. \A p \in Pools : Publish(p, totals[r][p], date) \in Banner
    BY <1>1, <1>2, <1>3, PublishType DEF HomeTyped
  <2> QED
    BY <1>1, <2>1 DEF Commit, HomeTyped
<1>8. salaryRows' \in [Day -> Nat]
  BY <1>1, <1>2, PaySalaryTyped DEF Commit, HomeTyped
<1>9. HomeTyped'
  BY <1>4, <1>5, <1>6, <1>7, <1>8 DEF HomeTyped
<1> DEFINE copy == [mine[r] EXCEPT !.row = user', !.rollover = totals[r][Salary]]
<1>10. copy \in [row : User, rollover : Nat, day : Day]
  BY <1>1, <1>3, <1>4 DEF RequestsTyped, Pools
<1>11. /\ mine' = [mine EXCEPT ![r] = copy]
       /\ closed' = [closed EXCEPT ![r] = closed[r] + 1]
       /\ totals' = [totals EXCEPT ![r] = Zero]
       /\ pools' = [pools EXCEPT ![r] = {}]
       /\ pc' = [pc EXCEPT ![r] = "check"]
       /\ crashes' = crashes
  BY <1>1 DEF Commit, Goto, RequestsTyped
<1> HIDE DEF copy
<1>12. "check" \in Stage
  BY DEF Stage
<1>13. RequestsTyped'
  BY <1>1, <1>10, <1>11, <1>12, RecordTypes DEF RequestsTyped
<1>14. \A q \in Requests \ {r} : mine'[q] = mine[q]
  BY <1>1, <1>11 DEF RequestsTyped
<1>15. ClosingIsDue'
  BY <1>11, <1>12, <1>14, ClosingMoved
<1> QED
  BY <1>9, <1>13, <1>15

LEMMA BannersTyped ==
  ASSUME SummaryInv, NEW r \in Requests, [SourcesNext]_sourceVars,
         ReadBanners(r) \/ \E p \in Pools : ExpireBanner(r, p)
  PROVE  HomeTyped' /\ RequestsTyped' /\ ClosingIsDue'
<1>1. HomeTyped /\ RequestsTyped
  BY TypeParts DEF SummaryInv
<1>2. CASE ReadBanners(r)
  <2>1. PICK old \in SUBSET Pools : pools' = [pools EXCEPT ![r] = old]
    BY <1>2 DEF ReadBanners, LiveSources, Pools
  <2>2. pc' = [pc EXCEPT ![r] = "expire"] /\ "expire" \in Stage
    BY <1>2 DEF ReadBanners, Goto, Stage
  <2>3. UNCHANGED <<homeVars, mine, closed, totals, crashes>>
    BY <1>2 DEF ReadBanners
  <2>4. RequestsTyped'
    BY <1>1, <2>1, <2>2, <2>3 DEF RequestsTyped
  <2>5. ClosingIsDue'
    BY <2>2, <2>3, ClosingMoved
  <2> QED
    BY <1>1, <2>3, <2>4, <2>5, HomeKept
<1>3. ASSUME NEW p \in Pools, ExpireBanner(r, p)
      PROVE  HomeTyped' /\ RequestsTyped' /\ ClosingIsDue'
  <2>1. [banner[p] EXCEPT !.shown = FALSE] \in Banner
    BY <1>1 DEF HomeTyped, Banner
  <2>2. banner' = [banner EXCEPT ![p] = [banner[p] EXCEPT !.shown = FALSE]]
    BY <1>1, <1>3 DEF ExpireBanner, HomeTyped
  <2>3. HomeTyped'
    BY <1>1, <1>3, <2>1, <2>2 DEF ExpireBanner, HomeTyped
  <2>4. RequestsTyped'
    BY <1>1, <1>3 DEF ExpireBanner, RequestsTyped
  <2>5. ClosingIsDue'
    BY <1>3, ClosingKept DEF ExpireBanner
  <2> QED
    BY <2>3, <2>4, <2>5
<1> QED
  BY <1>2, <1>3

LEMMA EndTyped ==
  ASSUME SummaryInv, NEW r \in Requests, [SourcesNext]_sourceVars,
         CommitFails(r) \/ Respond(r) \/ Crash(r)
  PROVE  HomeTyped' /\ RequestsTyped' /\ ClosingIsDue'
<1>1. HomeTyped /\ RequestsTyped
  BY TypeParts DEF SummaryInv
<1>2. crashes' \in Nat /\ Finish(r) /\ UNCHANGED homeVars
  BY <1>1 DEF CommitFails, Respond, Crash, RequestsTyped
<1> QED
  BY <1>1, <1>2, FinishTyped, HomeKept

LEMMA RequestStepTyped ==
  ASSUME SummaryInv, NEW r \in Requests, Open(r) \/ Step(r) \/ Crash(r)
  PROVE  SummaryInv'
<1>1. [SourcesNext]_sourceVars
  BY RequestStepOfSources
<1>2. SourcesTypeOK'
  BY <1>1, SourcesStepTyped, TypeParts DEF SummaryInv
<1>3. HomeTyped' /\ RequestsTyped' /\ ClosingIsDue'
  BY <1>1, OpenTyped, BookingTyped, FirstTransitionTyped, ReadSalaryPoolTyped,
     ReadTransitionSourcesTyped, ReadSourcePoolsTyped, CommitTyped, BannersTyped,
     EndTyped DEF Step
<1> QED
  BY <1>2, <1>3, TypePartsPrime DEF SummaryInv

LEMMA SummaryStep == SummaryInv /\ [Next]_vars => SummaryInv'
<1>1. ASSUME SummaryInv, UNCHANGED vars PROVE SummaryInv'
  BY <1>1 DEF vars, sourceVars, homeVars, requestVars, SummaryInv, TypeOK,
              SourcesTypeOK, ClosingIsDue, HasCome
<1> QED
  BY <1>1, UserStepTyped, RequestStepTyped DEF Next

(* Every column and local keeps its type: whatever interleaves, no rollover,  *)
(* banner or carried total is negative, and every banner is well formed.      *)
THEOREM SummaryTyped == Spec => []TypeOK
<1>1. SummaryInv => TypeOK
  BY DEF SummaryInv
<1> QED
  BY <1>1, SummaryInit, SummaryStep, PTL DEF Spec

(* A request that is closing a period closes one whose pay date has come,     *)
(* also when other requests moved the user row on meanwhile.                  *)
THEOREM OnlyEndedPeriodsClose == Spec => []ClosingIsDue
<1>1. SummaryInv => ClosingIsDue
  BY DEF SummaryInv
<1> QED
  BY <1>1, SummaryInit, SummaryStep, PTL DEF Spec
===============================================================================
