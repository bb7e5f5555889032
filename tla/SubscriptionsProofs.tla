------------------------- MODULE SubscriptionsProofs -------------------------
(***************************************************************************)
(* What holds of recurring charges for every set of plans, every calendar  *)
(* and any number of concurrent invocations.                               *)
(*                                                                         *)
(* The inductive invariant says, besides the types, that rows carry their  *)
(* own id, that the clock leaves room for one more month and no invocation *)
(* is ahead of it, that an invocation about to write has read a row of the *)
(* table, that occurrences and charges match, and that nothing is posted   *)
(* past a cutoff.                                                          *)
(***************************************************************************)
EXTENDS Subscriptions, SequenceTheorems, TLAPS

(* The dates of the ledger, on every calendar. *)

(* The parts of a date, and the length of the months. *)
LEMMA DateParts ==
  /\ LastMonth \in Nat
  /\ \A m \in Month : DaysIn[m] \in 1..31
  /\ \A d : d \in Date <=> /\ d \in [month : Month, day : 1..31]
                          /\ d.day <= DaysIn[d.month]
BY CalendarAssumption DEF Date

(* The order of the dates is transitive. *)
LEMMA NotAfterTrans ==
  ASSUME NEW c \in Date, NEW d \in Date, NEW e \in Date, NotAfter(c, d), NotAfter(d, e)
  PROVE  NotAfter(c, e)
  BY DEF NotAfter, Before, Date, Month

(* The order of the dates is total, and strict. *)
LEMMA DatesAreOrdered ==
  ASSUME NEW d \in Date, NEW e \in Date
  PROVE  /\ ~Before(d, e) => NotAfter(e, d)
         /\ ~Before(d, d)
         /\ Before(d, e) => ~NotAfter(e, d)
<1>1. /\ d.month \in Int /\ e.month \in Int /\ d.day \in Int /\ e.day \in Int
      /\ d \in [month : Month, day : 1..31] /\ e \in [month : Month, day : 1..31]
  BY DateParts DEF Month
<1>2. d.month = e.month /\ d.day = e.day => d = e
  BY <1>1
<1>. QED
  BY <1>1, <1>2 DEF NotAfter, Before

(* The day after d is a date later than d while a month follows. *)
LEMMA TomorrowIsLater ==
  ASSUME NEW d \in Date, Tomorrow(d).month < LastMonth, d.month < LastMonth
  PROVE  Tomorrow(d) \in Date /\ Before(d, Tomorrow(d)) /\ NotAfter(d, Tomorrow(d))
<1>1. /\ d.month \in Nat /\ d.month + 1 \in Month
      /\ d.day \in 1..31 /\ d.day <= DaysIn[d.month]
  BY DateParts DEF Month
<1>2. CASE d.day < DaysIn[d.month]
  <2>1. Tomorrow(d) = [month |-> d.month, day |-> d.day + 1]
    BY <1>2 DEF Tomorrow
  <2>2. d.month \in Month /\ DaysIn[d.month] \in 1..31
    BY DateParts
  <2>. QED
    BY <1>1, <1>2, <2>1, <2>2, DateParts DEF NotAfter, Before
<1>3. CASE ~(d.day < DaysIn[d.month])
  <2>1. Tomorrow(d) = [month |-> d.month + 1, day |-> 1]
    BY <1>3 DEF Tomorrow
  <2>2. DaysIn[d.month + 1] \in 1..31
    BY <1>1, DateParts
  <2>. QED
    BY <1>1, <2>1, <2>2, DateParts DEF NotAfter, Before
<1>. QED
  BY <1>2, <1>3

(* The successor of a date with a month after it is a date, and a later one. *)
LEMMA NextDateIsLater ==
  ASSUME NEW d \in Date, NEW anchor \in 1..31, d.month < LastMonth
  PROVE  /\ NextDate(d, anchor, "MONTHLY") \in Date
         /\ Before(d, NextDate(d, anchor, "MONTHLY"))
<1> DEFINE m == d.month + 1
           k == IF anchor <= DaysIn[m] THEN anchor ELSE DaysIn[m]
<1>1. NextDate(d, anchor, "MONTHLY") = [month |-> m, day |-> k]
  BY DEF NextDate, Clamped, MonthsIn
<1>2. m \in Month /\ d.month < m
  BY DateParts DEF Month
<1>3. k \in 1..31 /\ k <= DaysIn[m]
  BY <1>2, DateParts
<1>. QED
  BY <1>1, <1>2, <1>3, DateParts DEF Before

(* A date no later than one with a month after it has a month after it. *)
LEMMA MonthAfter ==
  ASSUME NEW d \in Date, NEW e \in Date, NotAfter(d, e), e.month < LastMonth
  PROVE  d.month < LastMonth
  BY DateParts DEF NotAfter, Before, Month

-----------------------------------------------------------------------------

(* A row is stored under its id. *)
RowIds == \A s \in SubIds : sub[s] # NoPlan => sub[s].id = s

(* The successor of a date that is due is a date of the calendar. *)
ClockInRange ==
    /\ today.month < LastMonth
    /\ \A w \in Workers : NotAfter(run[w].day, today)

(* What an invocation holds when it is about to use it.  Rows are never     *)
(* deleted from the table.                                                  *)
HoldsRows(r, table) ==
    /\ r.pc = "mutate" => /\ r.only \in SubIds
                          /\ table[r.only] # NoPlan
                          /\ r.request \in Mutation
                          /\ r.plan \in Plan
    /\ r.pc \in {"attempt", "refind"} => r.plan \in Plan /\ table[r.plan.id] # NoPlan
    /\ r.pc = "attempt" => NotAfter(r.plan.next, r.day)
    /\ \A p \in r.todo : table[p.id] # NoPlan

RunsHoldRows == \A w \in Workers : HoldsRows(run[w], sub)

IInv == /\ TypeOK
        /\ RowIds
        /\ ClockInRange
        /\ RunsHoldRows
        /\ ChargesMatchOccurrences
        /\ NothingPostedPastCutoff

-----------------------------------------------------------------------------
(* The invariant holds initially. *)
LEMMA InitIInv == Init => IInv
<1>. SUFFICES ASSUME Init PROVE IInv
  OBVIOUS
<1>1. FirstDate \in Date /\ FirstDate.month < LastMonth
  <2>1. 0 \in Month /\ 0 < LastMonth
    BY CalendarAssumption DEF Month
  <2>. QED
    BY <2>1, DateParts DEF FirstDate
<1>2. Idle \in Run
  BY <1>1 DEF Idle, Run
<1>3. TypeOK
  <2>1. DOMAIN occ = {}
    BY DEF Init
  <2>2. tx \in Seq(Charge)
    BY EmptySeq DEF Init
  <2>. QED
    BY <1>1, <1>2, <2>1, <2>2 DEF Init, TypeOK
<1>4. RowIds
  BY DEF Init, RowIds
<1>5. ClockInRange
  BY <1>1 DEF Init, ClockInRange, Idle, NotAfter
<1>6. RunsHoldRows
  BY DEF Init, RunsHoldRows, HoldsRows, Idle
<1>7. ChargesMatchOccurrences /\ NothingPostedPastCutoff
  <2>1. DOMAIN occ = {} /\ DOMAIN tx = {}
    BY DEF Init
  <2>. QED
    BY <2>1 DEF ChargesMatchOccurrences, NothingPostedPastCutoff
<1>. QED
  BY <1>3, <1>4, <1>5, <1>6, <1>7 DEF IInv

(* A step of one invocation that forgets no row and leaves the clock alone  *)
(* keeps what the invocations hold.                                         *)
LEMMA RunMoves ==
  ASSUME IInv, NEW w \in Workers, NEW r \in Run,
         run' = [run EXCEPT ![w] = r],
         today' = today, NotAfter(r.day, today),
         \A s \in SubIds : sub[s] # NoPlan => sub'[s] # NoPlan,
         HoldsRows(r, sub')
  PROVE  run' \in [Workers -> Run] /\ ClockInRange' /\ RunsHoldRows'
<1>1. run \in [Workers -> Run]
  BY DEF IInv, TypeOK
<1>2. \A v \in Workers : run'[v] = IF v = w THEN r ELSE run[v]
  BY <1>1
<1>3. ClockInRange'
  BY <1>2 DEF IInv, ClockInRange
<1>4. \A v \in Workers : HoldsRows(run[v], sub')
  <2>. SUFFICES ASSUME NEW v \in Workers PROVE HoldsRows(run[v], sub')
    OBVIOUS
  <2>1. HoldsRows(run[v], sub)
    BY DEF IInv, RunsHoldRows
  <2>2. run[v] \in Run
    BY <1>1
  <2>. QED
    BY <2>1, <2>2 DEF HoldsRows, Run, Plan
<1>5. RunsHoldRows'
  BY <1>2, <1>4 DEF RunsHoldRows
<1>. QED
  BY <1>1, <1>3, <1>5

(* A step that writes one row under its id keeps the table. *)
LEMMA RowWritten ==
  ASSUME IInv, NEW s \in SubIds, NEW row \in Plan, row.id = s,
         sub' = [sub EXCEPT ![s] = row]
  PROVE  /\ sub' \in [SubIds -> Plan \cup {NoPlan}]
         /\ RowIds'
         /\ \A x \in SubIds : sub[x] # NoPlan => sub'[x] # NoPlan
  BY RowAssumption DEF IInv, TypeOK, RowIds

(* A step that leaves occurrences and charges alone, and sets no cutoff,    *)
(* keeps what is said of charges.                                           *)
LEMMA ChargesUntouched ==
  ASSUME IInv, occ' = occ, tx' = tx,
         \A s \in SubIds : sub'[s].cancel \in {sub[s].cancel, NoDate}
  PROVE  ChargesMatchOccurrences' /\ NothingPostedPastCutoff'
<1>1. ChargesMatchOccurrences'
  BY DEF IInv, ChargesMatchOccurrences
<1>2. \A slot \in DOMAIN occ : slot[1] \in SubIds
  BY DEF IInv, TypeOK, Slot
<1>3. NothingPostedPastCutoff'
  BY <1>2 DEF IInv, NothingPostedPastCutoff
<1>. QED
  BY <1>1, <1>3

(* The continuation of the loop keeps the invariant of the invocations.    *)
LEMMA ProceedMoves ==
  ASSUME IInv, NEW w \in Workers, NEW todo \in SUBSET Plan, NEW attempts \in Nat,
         \A p \in todo : sub[p.id] # NoPlan,
         Proceed(w, todo, attempts),
         today' = today,
         \A s \in SubIds : sub[s] # NoPlan => sub'[s] # NoPlan
  PROVE  run' \in [Workers -> Run] /\ ClockInRange' /\ RunsHoldRows'
<1> DEFINE ready == {p \in todo : IsDue(p, run[w].day)}
           attempt(p) == [run[w] EXCEPT !.pc = "attempt", !.plan = p,
                                        !.todo = ready \ {p}, !.attempts = attempts]
           close == [run[w] EXCEPT !.pc = "close", !.plan = NoPlan,
                                   !.todo = {}, !.attempts = attempts]
<1>1. run \in [Workers -> Run] /\ run[w] \in Run /\ NotAfter(run[w].day, today)
  BY DEF IInv, TypeOK, ClockInRange
<1>2. ASSUME NEW p \in ready, run' = [run EXCEPT ![w] = attempt(p)]
      PROVE  run' \in [Workers -> Run] /\ ClockInRange' /\ RunsHoldRows'
  <2>1. PICK r : r = attempt(p)
    OBVIOUS
  <2>2. r \in Run
    BY <1>1, <2>1 DEF Run
  <2>3. /\ r.pc = "attempt" /\ r.plan = p /\ r.todo \subseteq todo
        /\ r.day = run[w].day
    BY <1>1, <2>1 DEF Run
  <2>4. HoldsRows(r, sub')
    BY <2>3 DEF HoldsRows, IsDue, Plan
  <2>. QED
    BY <1>1, <1>2, <2>1, <2>2, <2>3, <2>4, RunMoves
<1>3. ASSUME run' = [run EXCEPT ![w] = close]
      PROVE  run' \in [Workers -> Run] /\ ClockInRange' /\ RunsHoldRows'
  <2>1. PICK r : r = close
    OBVIOUS
  <2>2. r \in Run
    BY <1>1, <2>1 DEF Run
  <2>3. r.pc = "close" /\ r.todo = {} /\ r.day = run[w].day
    BY <1>1, <2>1 DEF Run
  <2>4. HoldsRows(r, sub')
    BY <2>3 DEF HoldsRows
  <2>. QED
    BY <1>1, <1>3, <2>1, <2>2, <2>3, <2>4, RunMoves
<1>. QED
  BY <1>1, <1>2, <1>3 DEF Proceed

(* The rows the mutations, the catch-up and the closing update write are    *)
(* rows; only a cancellation sets a cutoff.                                 *)
LEMMA RowsStayRows ==
  ASSUME NEW row \in Plan
  PROVE  /\ \A d \in Date :
               /\ Resumed(row, d) \in Plan
               /\ Resumed(row, d).id = row.id
               /\ Resumed(row, d).cancel = NoDate
         /\ \A request \in Mutation, anchor \in 1..31 :
               /\ Edited(row, request, anchor) \in Plan
               /\ Edited(row, request, anchor).id = row.id
               /\ Edited(row, request, anchor).cancel = row.cancel
         /\ /\ Closed(row) \in Plan
            /\ Closed(row).id = row.id
            /\ Closed(row).cancel = row.cancel
         /\ \A eff \in Date, day \in Date :
               /\ Cancelled(row, eff, day) \in Plan
               /\ Cancelled(row, eff, day).id = row.id
               /\ Cancelled(row, eff, day).cancel = eff
<1>1. PICK v : v = row.version + 1
  OBVIOUS
<1>2. v \in Nat
  BY <1>1 DEF Plan
<1>3. ASSUME NEW d \in Date
      PROVE  /\ Resumed(row, d) \in Plan
             /\ Resumed(row, d).id = row.id
             /\ Resumed(row, d).cancel = NoDate
  <2>1. Resumed(row, d) = [row EXCEPT !.status = "ACTIVE", !.next = d, !.anchor = d.day,
                                      !.cancel = NoDate, !.version = v]
    BY <1>1 DEF Resumed
  <2>2. d.day \in 1..31
    BY DateParts
  <2>. QED
    BY <1>2, <2>1, <2>2 DEF Plan
<1>4. ASSUME NEW request \in Mutation, NEW anchor \in 1..31
      PROVE  /\ Edited(row, request, anchor) \in Plan
             /\ Edited(row, request, anchor).id = row.id
             /\ Edited(row, request, anchor).cancel = row.cancel
  <2>1. Edited(row, request, anchor) =
           [row EXCEPT !.next = request.date, !.anchor = anchor, !.amount = request.amount,
                       !.version = v]
    BY <1>1 DEF Edited
  <2>. QED
    BY <1>2, <2>1 DEF Plan, Mutation
<1>5. /\ Closed(row) \in Plan
      /\ Closed(row).id = row.id
      /\ Closed(row).cancel = row.cancel
  <2>1. Closed(row) = [row EXCEPT !.status = "CANCELLED", !.version = v]
    BY <1>1 DEF Closed
  <2>. QED
    BY <1>2, <2>1 DEF Plan
<1>6. ASSUME NEW eff \in Date, NEW day \in Date
      PROVE  /\ Cancelled(row, eff, day) \in Plan
             /\ Cancelled(row, eff, day).id = row.id
             /\ Cancelled(row, eff, day).cancel = eff
  <2>1. PICK st \in {"ACTIVE", "CANCELLED"} : st = CancelStatus(row, eff, day)
    BY DEF CancelStatus
  <2>2. Cancelled(row, eff, day) = [row EXCEPT !.cancel = eff, !.status = st, !.version = v]
    BY <1>1, <2>1 DEF Cancelled
  <2>. QED
    BY <1>2, <2>2 DEF Plan
<1>. QED
  BY <1>3, <1>4, <1>5, <1>6

(* The rows a run selects are rows of the table. *)
LEMMA SelectedRows ==
  ASSUME IInv, NEW day, NEW only
  PROVE  /\ Selected(day, only) \in SUBSET Plan
         /\ \A p \in Selected(day, only) : sub[p.id] # NoPlan
<1>1. \A s \in SubIds : sub[s] # NoPlan => sub[s] \in Plan /\ sub[s].id = s
  BY DEF IInv, TypeOK, RowIds
<1>2. \A p \in Selected(day, only) : \E s \in SubIds : sub[s] # NoPlan /\ p = sub[s]
  BY DEF Selected
<1>. QED
  BY <1>1, <1>2

(* Steps that change no table: only the invocation moves. *)
LEMMA TablesUntouched ==
  ASSUME IInv, UNCHANGED <<today, sub, occ, tx>>,
         run' \in [Workers -> Run], ClockInRange', RunsHoldRows'
  PROVE  IInv'
<1>1. TypeOK' /\ RowIds'
  BY DEF IInv, TypeOK, RowIds
<1>2. ChargesMatchOccurrences' /\ NothingPostedPastCutoff'
  BY ChargesUntouched
<1>. QED
  BY <1>1, <1>2 DEF IInv

-----------------------------------------------------------------------------
(* One lemma per action. *)

LEMMA TickKeeps == ASSUME IInv, Tick PROVE IInv'
<1>1. today \in Date /\ today.month < LastMonth
  BY DEF IInv, TypeOK, ClockInRange
<1>2. today' \in Date /\ NotAfter(today, today') /\ today'.month < LastMonth
  BY <1>1, TomorrowIsLater DEF Tick
<1>3. \A w \in Workers : run[w].day \in Date /\ NotAfter(run[w].day, today)
  BY DEF IInv, TypeOK, ClockInRange, Run
<1>4. \A w \in Workers : NotAfter(run[w].day, today')
  BY <1>1, <1>2, <1>3, NotAfterTrans
<1>5. TypeOK' /\ RowIds' /\ RunsHoldRows'
  BY <1>2 DEF Tick, IInv, TypeOK, RowIds, RunsHoldRows
<1>6. ClockInRange'
  BY <1>2, <1>4 DEF Tick, ClockInRange
<1>7. ChargesMatchOccurrences' /\ NothingPostedPastCutoff'
  BY ChargesUntouched DEF Tick
<1>. QED
  BY <1>5, <1>6, <1>7 DEF IInv

LEMMA CreateKeeps ==
  ASSUME IInv, NEW w \in Workers, NEW s \in SubIds, NEW d \in Date, NEW amount \in Amounts,
         Create(w, s, d, amount)
  PROVE  IInv'
<1> DEFINE row == [id |-> s, status |-> "ACTIVE", next |-> d, anchor |-> d.day,
                   cancel |-> NoDate, amount |-> amount, version |-> 1]
<1>1. row \in Plan /\ row.id = s /\ row.cancel = NoDate
  BY DateParts DEF Plan
<1>2. /\ sub' \in [SubIds -> Plan \cup {NoPlan}]
      /\ RowIds'
      /\ \A x \in SubIds : sub[x] # NoPlan => sub'[x] # NoPlan
      /\ \A x \in SubIds : sub'[x].cancel \in {sub[x].cancel, NoDate}
  <2>1. CASE sub' = sub
    BY <2>1 DEF IInv, TypeOK, RowIds
  <2>2. CASE sub' = [sub EXCEPT ![s] = row]
    <3>1. \A x \in SubIds : sub'[x].cancel \in {sub[x].cancel, NoDate}
      BY <1>1, <2>2 DEF IInv, TypeOK
    <3>. QED
      BY <1>1, <2>2, <3>1, RowWritten
  <2>. QED
    BY <2>1, <2>2 DEF Create
<1>3. run' \in [Workers -> Run] /\ ClockInRange' /\ RunsHoldRows'
  <2>1. PICK r : r = [run[w] EXCEPT !.pc = "select", !.day = today, !.only = s]
    OBVIOUS
  <2>2. run[w] \in Run /\ run \in [Workers -> Run] /\ today \in Date
    BY DEF IInv, TypeOK
  <2>3. r \in Run /\ r.pc = "select" /\ r.day = today /\ r.todo = run[w].todo
    BY <2>1, <2>2 DEF Run
  <2>4. run' = [run EXCEPT ![w] = r]
    BY <2>1, <2>2 DEF Create
  <2>5. HoldsRows(r, sub')
    <3>1. \A p \in r.todo : p \in Plan /\ sub[p.id] # NoPlan
      BY <2>2, <2>3 DEF IInv, RunsHoldRows, HoldsRows, Run
    <3>. QED
      BY <1>2, <2>3, <3>1 DEF HoldsRows, Plan
  <2>. QED
    BY <1>2, <2>3, <2>4, <2>5, RunMoves DEF Create, NotAfter
<1>4. ChargesMatchOccurrences' /\ NothingPostedPastCutoff'
  BY <1>2, ChargesUntouched DEF Create
<1>5. TypeOK'
  BY <1>2, <1>3 DEF IInv, TypeOK, Create
<1>. QED
  BY <1>2, <1>3, <1>4, <1>5 DEF IInv

LEMMA ReadForMutationKeeps ==
  ASSUME IInv, NEW w \in Workers, NEW s \in SubIds, NEW request \in Mutation,
         ReadForMutation(w, s, request)
  PROVE  IInv'
<1>1. PICK r : r = [Idle EXCEPT !.pc = "mutate", !.day = today, !.only = s,
                               !.request = request, !.plan = sub[s]]
  OBVIOUS
<1>2. today \in Date /\ sub[s] \in Plan
  BY DEF IInv, TypeOK, ReadForMutation
<1>3. /\ r \in Run /\ r.pc = "mutate" /\ r.day = today /\ r.only = s
      /\ r.request = request /\ r.plan = sub[s] /\ r.todo = {}
  BY <1>1, <1>2 DEF Idle, Run
<1>4. HoldsRows(r, sub')
  BY <1>2, <1>3 DEF HoldsRows, ReadForMutation
<1>5. run' \in [Workers -> Run] /\ ClockInRange' /\ RunsHoldRows'
  BY <1>1, <1>3, <1>4, RunMoves DEF ReadForMutation, NotAfter
<1>. QED
  BY <1>5, TablesUntouched DEF ReadForMutation

(* The steps that only end an invocation, or start a run of the cron job.   *)
LEMMA RestartKeeps ==
  ASSUME IInv, NEW w \in Workers, Conflict(w) \/ StartCron(w) \/ GenerateAborted(w)
  PROVE  IInv'
<1>1. today \in Date /\ FirstDate \in Date /\ NotAfter(FirstDate, today)
  <2>1. today \in Date /\ 0 \in Month
    BY CalendarAssumption DEF IInv, TypeOK, Month
  <2>2. FirstDate \in Date
    BY <2>1, DateParts DEF FirstDate
  <2>3. NotAfter(FirstDate, today)
    BY <2>1, DateParts DEF FirstDate, NotAfter, Before, Month
  <2>. QED
    BY <2>1, <2>2, <2>3
<1>2. Idle \in Run /\ Idle.pc = "idle" /\ Idle.day = FirstDate /\ Idle.todo = {}
  BY <1>1 DEF Idle, Run
<1>3. PICK r \in Run : /\ r.pc \in {"idle", "select"}
                        /\ r.day \in {today, FirstDate}
                        /\ r.todo = {}
                        /\ run' = [run EXCEPT ![w] = r]
  <2>1. CASE StartCron(w)
    <3>1. PICK r : r = [Idle EXCEPT !.pc = "select", !.day = today]
      OBVIOUS
    <3>2. r \in Run /\ r.pc = "select" /\ r.day = today /\ r.todo = {}
      BY <1>1, <1>2, <3>1 DEF Run
    <3>. QED
      BY <2>1, <3>1, <3>2 DEF StartCron
  <2>2. CASE Conflict(w) \/ GenerateAborted(w)
    BY <1>2, <2>2 DEF Conflict, GenerateAborted
  <2>. QED
    BY <2>1, <2>2
<1>4. UNCHANGED <<today, sub, occ, tx>>
  BY DEF Conflict, StartCron, GenerateAborted
<1>5. NotAfter(r.day, today)
  BY <1>1, <1>3 DEF NotAfter
<1>6. HoldsRows(r, sub')
  BY <1>3 DEF HoldsRows
<1>7. run' \in [Workers -> Run] /\ ClockInRange' /\ RunsHoldRows'
  BY <1>3, <1>4, <1>5, <1>6, RunMoves
<1>. QED
  BY <1>4, <1>7, TablesUntouched

LEMMA SelectKeeps == ASSUME IInv, NEW w \in Workers, Select(w) PROVE IInv'
<1>1. PICK todo : todo = Selected(run[w].day, run[w].only)
  OBVIOUS
<1>2. todo \in SUBSET Plan /\ \A p \in todo : sub[p.id] # NoPlan
  <2>1. PICK day, only : day = run[w].day /\ only = run[w].only
    OBVIOUS
  <2>. QED
    BY <1>1, <2>1, SelectedRows
<1>3. Proceed(w, todo, 0)
  BY <1>1 DEF Select
<1>4. run' \in [Workers -> Run] /\ ClockInRange' /\ RunsHoldRows'
  BY <1>2, <1>3, ProceedMoves DEF Select
<1>. QED
  BY <1>4, TablesUntouched DEF Select

LEMMA RefindKeeps == ASSUME IInv, NEW w \in Workers, Refind(w) PROVE IInv'
<1>1. PICK p : p = sub[run[w].plan.id]
  OBVIOUS
<1>2. run[w] \in Run /\ run \in [Workers -> Run] /\ NotAfter(run[w].day, today)
  BY DEF IInv, TypeOK, ClockInRange
<1>3. /\ run[w].plan \in Plan /\ sub[run[w].plan.id] # NoPlan
      /\ \A q \in run[w].todo : sub[q.id] # NoPlan
  BY DEF IInv, RunsHoldRows, HoldsRows, Refind
<1>4. p \in Plan /\ sub[p.id] # NoPlan
  BY <1>1, <1>3 DEF IInv, TypeOK, RowIds, Plan
<1>5. run' \in [Workers -> Run] /\ ClockInRange' /\ RunsHoldRows'
  <2>1. CASE /\ IsDue(p, run[w].day)
             /\ run' = [run EXCEPT ![w].pc = "attempt", ![w].plan = p]
    <3>1. PICK r : r = [run[w] EXCEPT !.pc = "attempt", !.plan = p]
      OBVIOUS
    <3>2. /\ r \in Run /\ r.pc = "attempt" /\ r.plan = p /\ r.day = run[w].day
          /\ r.todo = run[w].todo
      BY <1>2, <1>4, <3>1 DEF Run
    <3>3. HoldsRows(r, sub')
      BY <1>3, <1>4, <2>1, <3>2 DEF HoldsRows, IsDue, Refind
    <3>4. run' = [run EXCEPT ![w] = r]
      BY <1>2, <2>1, <3>1
    <3>. QED
      BY <1>2, <3>2, <3>3, <3>4, RunMoves DEF Refind
  <2>2. CASE Proceed(w, run[w].todo, run[w].attempts)
    <3>1. PICK todo, attempts : todo = run[w].todo /\ attempts = run[w].attempts
      OBVIOUS
    <3>2. todo \in SUBSET Plan /\ attempts \in Nat
      BY <1>2, <3>1 DEF Run
    <3>. QED
      BY <1>3, <2>2, <3>1, <3>2, ProceedMoves DEF Refind
  <2>. QED
    BY <1>1, <2>1, <2>2 DEF Refind
<1>. QED
  BY <1>5, TablesUntouched DEF Refind

(* A mutation writes one row and sends its invocation on to the catch-up.   *)
LEMMA MutationMoves ==
  ASSUME IInv, NEW w \in Workers, AfterMutation(w), today' = today,
         \A x \in SubIds : sub[x] # NoPlan => sub'[x] # NoPlan
  PROVE  run' \in [Workers -> Run] /\ ClockInRange' /\ RunsHoldRows'
<1>1. run[w] \in Run /\ run \in [Workers -> Run] /\ NotAfter(run[w].day, today)
  BY DEF IInv, TypeOK, ClockInRange
<1>2. PICK r : r = [run[w] EXCEPT !.pc = "select", !.request = NoRequest, !.plan = NoPlan]
  OBVIOUS
<1>3. r \in Run /\ r.pc = "select" /\ r.day = run[w].day /\ r.todo = run[w].todo
  BY <1>1, <1>2 DEF Run
<1>4. run' = [run EXCEPT ![w] = r]
  BY <1>1, <1>2 DEF AfterMutation
<1>5. \A p \in r.todo : p \in Plan /\ sub[p.id] # NoPlan
  BY <1>1, <1>3 DEF IInv, RunsHoldRows, HoldsRows, Run
<1>6. HoldsRows(r, sub')
  BY <1>3, <1>5 DEF HoldsRows, Plan
<1>. QED
  BY <1>1, <1>3, <1>4, <1>6, RunMoves

(* What mutate knows when it writes. *)
LEMMA MutatingRow ==
  ASSUME IInv, NEW w \in Workers, NEW action, Mutating(w, action)
  PROVE  /\ run[w].only \in SubIds
         /\ sub[run[w].only] \in Plan /\ sub[run[w].only].id = run[w].only
         /\ run[w].request \in Mutation
         /\ run[w].plan \in Plan
         /\ run[w].day \in Date
  BY DEF IInv, TypeOK, RowIds, RunsHoldRows, HoldsRows, Mutating, Run

LEMMA ResumeKeeps == ASSUME IInv, NEW w \in Workers, Resume(w) PROVE IInv'
<1>1. PICK s \in SubIds, row \in Plan :
         /\ row.id = s /\ row.cancel \in {sub[s].cancel, NoDate}
         /\ sub' = [sub EXCEPT ![s] = row]
  <2>1. PICK s : s = run[w].only
    OBVIOUS
  <2>2. PICK d : d = run[w].request.date
    OBVIOUS
  <2>3. s \in SubIds /\ sub[s] \in Plan /\ sub[s].id = s /\ d \in Date
    BY <2>1, <2>2, MutatingRow DEF Resume, Mutation
  <2>4. sub' = [sub EXCEPT ![s] = Resumed(sub[s], d)]
    BY <2>1, <2>2 DEF Resume
  <2>. QED
    BY <2>3, <2>4, RowsStayRows
<1>2. /\ sub' \in [SubIds -> Plan \cup {NoPlan}]
      /\ RowIds'
      /\ \A x \in SubIds : sub[x] # NoPlan => sub'[x] # NoPlan
  BY <1>1, RowWritten
<1>3. run' \in [Workers -> Run] /\ ClockInRange' /\ RunsHoldRows'
  BY <1>2, MutationMoves DEF Resume
<1>4. \A x \in SubIds : sub'[x].cancel \in {sub[x].cancel, NoDate}
  BY <1>1 DEF IInv, TypeOK
<1>5. ChargesMatchOccurrences' /\ NothingPostedPastCutoff'
  BY <1>4, ChargesUntouched DEF Resume
<1>6. TypeOK'
  BY <1>2, <1>3 DEF IInv, TypeOK, Resume
<1>. QED
  BY <1>2, <1>3, <1>5, <1>6 DEF IInv

LEMMA EditKeeps == ASSUME IInv, NEW w \in Workers, Edit(w) PROVE IInv'
<1>1. PICK s \in SubIds, row \in Plan :
         /\ row.id = s /\ row.cancel \in {sub[s].cancel, NoDate}
         /\ sub' = [sub EXCEPT ![s] = row]
  <2>1. PICK s, request, anchor : /\ s = run[w].only
                                  /\ request = run[w].request
                                  /\ anchor = EditedAnchor(w)
    OBVIOUS
  <2>2. /\ s \in SubIds /\ sub[s] \in Plan /\ sub[s].id = s
        /\ request \in Mutation /\ run[w].plan \in Plan
    BY <2>1, MutatingRow DEF Edit
  <2>3. anchor \in 1..31
    BY <2>1, <2>2, DateParts DEF EditedAnchor, Mutation, Plan
  <2>4. sub' = [sub EXCEPT ![s] = Edited(sub[s], request, anchor)]
    BY <2>1 DEF Edit
  <2>5. /\ Edited(sub[s], request, anchor) \in Plan
        /\ Edited(sub[s], request, anchor).id = s
        /\ Edited(sub[s], request, anchor).cancel = sub[s].cancel
    <3>1. PICK row \in Plan : row = sub[s]
      BY <2>2
    <3>. QED
      BY <2>2, <2>3, <3>1, RowsStayRows
  <2>. QED
    BY <2>2, <2>4, <2>5
<1>2. /\ sub' \in [SubIds -> Plan \cup {NoPlan}]
      /\ RowIds'
      /\ \A x \in SubIds : sub[x] # NoPlan => sub'[x] # NoPlan
  BY <1>1, RowWritten
<1>3. run' \in [Workers -> Run] /\ ClockInRange' /\ RunsHoldRows'
  BY <1>2, MutationMoves DEF Edit
<1>4. \A x \in SubIds : sub'[x].cancel \in {sub[x].cancel, NoDate}
  BY <1>1 DEF IInv, TypeOK
<1>5. ChargesMatchOccurrences' /\ NothingPostedPastCutoff'
  BY <1>4, ChargesUntouched DEF Edit
<1>6. TypeOK'
  BY <1>2, <1>3 DEF IInv, TypeOK, Edit
<1>. QED
  BY <1>2, <1>3, <1>5, <1>6 DEF IInv

LEMMA CloseKeeps == ASSUME IInv, NEW w \in Workers, Close(w) PROVE IInv'
<1>1. \A s \in SubIds :
         /\ sub'[s] \in Plan \cup {NoPlan}
         /\ sub'[s] = NoPlan <=> sub[s] = NoPlan
         /\ sub[s] # NoPlan => sub'[s].id = sub[s].id /\ sub'[s].cancel = sub[s].cancel
  <2>. SUFFICES ASSUME NEW s \in SubIds
                PROVE  /\ sub'[s] \in Plan \cup {NoPlan}
                       /\ sub'[s] = NoPlan <=> sub[s] = NoPlan
                       /\ sub[s] # NoPlan => /\ sub'[s].id = sub[s].id
                                             /\ sub'[s].cancel = sub[s].cancel
    OBVIOUS
  <2>1. CASE Closes(w, sub[s])
    <3>1. sub[s] \in Plan
      BY <2>1 DEF Closes, IInv, TypeOK
    <3>2. sub'[s] = Closed(sub[s])
      BY <2>1 DEF Close
    <3>3. sub'[s] \in Plan /\ sub'[s].id = sub[s].id /\ sub'[s].cancel = sub[s].cancel
      BY <3>1, <3>2, RowsStayRows
    <3>. QED
      BY <3>1, <3>3, RowAssumption
  <2>2. CASE ~Closes(w, sub[s])
    BY <2>2 DEF Close, IInv, TypeOK
  <2>. QED
    BY <2>1, <2>2
<1>2. sub' \in [SubIds -> Plan \cup {NoPlan}]
  BY <1>1 DEF Close
<1>3. RowIds'
  BY <1>1 DEF IInv, RowIds
<1>4. \A s \in SubIds : sub'[s].cancel \in {sub[s].cancel, NoDate}
  BY <1>1
<1>5. ChargesMatchOccurrences' /\ NothingPostedPastCutoff'
  BY <1>4, ChargesUntouched DEF Close
<1>6. run' \in [Workers -> Run] /\ ClockInRange' /\ RunsHoldRows'
  <2>1. today \in Date /\ 0 \in Month
    BY CalendarAssumption DEF IInv, TypeOK, Month
  <2>2. FirstDate \in Date
    BY <2>1, DateParts DEF FirstDate
  <2>3. NotAfter(FirstDate, today)
    BY <2>1, DateParts DEF FirstDate, NotAfter, Before, Month
  <2>4. Idle \in Run /\ Idle.pc = "idle" /\ Idle.todo = {} /\ Idle.day = FirstDate
    BY <2>2 DEF Idle, Run
  <2>5. HoldsRows(Idle, sub')
    BY <2>4 DEF HoldsRows
  <2>. QED
    BY <1>1, <2>3, <2>4, <2>5, RunMoves DEF Close
<1>7. TypeOK'
  BY <1>2, <1>6 DEF IInv, TypeOK, Close
<1>. QED
  BY <1>3, <1>5, <1>6, <1>7 DEF IInv

-----------------------------------------------------------------------------
(* Steps that change charges.                                               *)

(* The charges are a sequence, and occurrences point into it. *)
LEMMA ChargeTable ==
  ASSUME IInv
  PROVE  /\ Len(tx) \in Nat /\ DOMAIN tx = 1..Len(tx)
         /\ \A i \in DOMAIN tx : tx[i] \in Charge
         /\ \A slot \in DOMAIN occ : /\ slot \in Slot /\ occ[slot] \in Occurrence
                                     /\ occ[slot].tx \in DOMAIN tx
<1>1. tx \in Seq(Charge)
  BY DEF IInv, TypeOK
<1>2. Len(tx) \in Nat /\ DOMAIN tx = 1..Len(tx) /\ tx \in [1..Len(tx) -> Charge]
  BY <1>1, LenProperties
<1>. QED
  BY <1>2 DEF IInv, TypeOK, ChargesMatchOccurrences

(* Charges that keep their places are a sequence again. *)
LEMMA ChargesMapped ==
  ASSUME IInv, NEW f, f \in [DOMAIN tx -> Charge]
  PROVE  f \in Seq(Charge)
  BY ChargeTable, SeqDef

(* Removing the charges of a set of occurrences, in the cancellation batch  *)
(* or when the owner deletes a charge, leaves charges and occurrences       *)
(* matched and posts nothing.                                               *)
LEMMA ChargesRemoved ==
  ASSUME IInv, NEW gone \in SUBSET DOMAIN occ,
         tx' = [i \in DOMAIN tx |->
                  IF i \in {occ[slot].tx : slot \in gone}
                  THEN [tx[i] EXCEPT !.status = "REMOVED"] ELSE tx[i]],
         occ' = [slot \in DOMAIN occ |->
                  IF slot \in gone THEN [occ[slot] EXCEPT !.status = "NOT_CHARGED"]
                                   ELSE occ[slot]]
  PROVE  /\ tx' \in Seq(Charge)
         /\ DOMAIN occ' = DOMAIN occ
         /\ \A slot \in DOMAIN occ :
               /\ occ'[slot] \in Occurrence
               /\ slot \in gone => tx'[occ'[slot].tx].status = "REMOVED"
               /\ slot \notin gone => tx'[occ'[slot].tx] = tx[occ[slot].tx]
         /\ ChargesMatchOccurrences'
<1> DEFINE removed == {occ[slot].tx : slot \in gone}
<1>1. /\ DOMAIN tx' = DOMAIN tx
      /\ \A i \in DOMAIN tx : /\ tx'[i] \in Charge
                              /\ i \in removed => tx'[i].status = "REMOVED"
                              /\ i \notin removed => tx'[i] = tx[i]
  BY ChargeTable DEF Charge
<1>2. tx' \in Seq(Charge)
  <2>1. tx' \in [DOMAIN tx -> Charge]
    BY <1>1
  <2>. QED
    BY <2>1, ChargesMapped
<1>3. /\ DOMAIN occ' = DOMAIN occ
      /\ \A slot \in DOMAIN occ :
            /\ occ'[slot] \in Occurrence
            /\ occ'[slot].tx = occ[slot].tx
            /\ slot \in gone => occ'[slot].status = "NOT_CHARGED"
            /\ slot \notin gone => occ'[slot].status = occ[slot].status
  BY ChargeTable DEF Occurrence
<1>4. \A slot \in DOMAIN occ : occ[slot].tx \in removed <=> slot \in gone
  BY DEF IInv, ChargesMatchOccurrences
<1>5. \A slot \in DOMAIN occ :
         /\ slot \in gone => tx'[occ'[slot].tx].status = "REMOVED"
         /\ slot \notin gone => tx'[occ'[slot].tx] = tx[occ[slot].tx]
  BY <1>1, <1>3, <1>4, ChargeTable
<1>6. ChargesMatchOccurrences'
  <2>1. \A slot \in DOMAIN occ' :
           /\ occ'[slot].tx \in DOMAIN tx'
           /\ occ'[slot].status = "GENERATED" <=> tx'[occ'[slot].tx].status = "POSTED"
    BY <1>1, <1>3, <1>5 DEF IInv, ChargesMatchOccurrences
  <2>2. /\ \A x, y \in DOMAIN occ' : occ'[x].tx = occ'[y].tx => x = y
        /\ \A i \in DOMAIN tx' : \E slot \in DOMAIN occ' : occ'[slot].tx = i
    BY <1>1, <1>3 DEF IInv, ChargesMatchOccurrences
  <2>. QED
    BY <2>1, <2>2 DEF ChargesMatchOccurrences
<1>. QED
  BY <1>2, <1>3, <1>5, <1>6

LEMMA CancelKeeps == ASSUME IInv, NEW w \in Workers, Cancel(w) PROVE IInv'
<1>1. PICK s, eff, day : s = run[w].only /\ eff = run[w].request.date /\ day = run[w].day
  OBVIOUS
<1>2. s \in SubIds /\ sub[s] \in Plan /\ sub[s].id = s /\ eff \in Date /\ day \in Date
  BY <1>1, MutatingRow DEF Cancel, Mutation
<1>3. PICK row \in Plan : /\ row.id = s /\ row.cancel = eff
                           /\ sub' = [sub EXCEPT ![s] = row]
  <2>1. sub' = [sub EXCEPT ![s] = Cancelled(sub[s], eff, day)]
    BY <1>1 DEF Cancel
  <2>2. /\ Cancelled(sub[s], eff, day) \in Plan
        /\ Cancelled(sub[s], eff, day).id = s
        /\ Cancelled(sub[s], eff, day).cancel = eff
    <3>1. PICK row \in Plan : row = sub[s]
      BY <1>2
    <3>. QED
      BY <1>2, <3>1, RowsStayRows
  <2>. QED
    BY <2>1, <2>2
<1>4. PICK gone \in SUBSET DOMAIN occ : gone = CutSlots(s, eff)
  BY DEF CutSlots
<1>5. /\ tx' = [i \in DOMAIN tx |->
                  IF i \in {occ[slot].tx : slot \in gone}
                  THEN [tx[i] EXCEPT !.status = "REMOVED"] ELSE tx[i]]
      /\ occ' = [slot \in DOMAIN occ |->
                  IF slot \in gone THEN [occ[slot] EXCEPT !.status = "NOT_CHARGED"]
                                   ELSE occ[slot]]
  BY <1>1, <1>4 DEF Cancel
<1>6. /\ tx' \in Seq(Charge)
      /\ DOMAIN occ' = DOMAIN occ
      /\ \A slot \in DOMAIN occ :
            /\ occ'[slot] \in Occurrence
            /\ slot \in gone => tx'[occ'[slot].tx].status = "REMOVED"
            /\ slot \notin gone => tx'[occ'[slot].tx] = tx[occ[slot].tx]
      /\ ChargesMatchOccurrences'
  BY <1>5, ChargesRemoved
<1>7. /\ sub' \in [SubIds -> Plan \cup {NoPlan}]
      /\ RowIds'
      /\ \A x \in SubIds : sub[x] # NoPlan => sub'[x] # NoPlan
  BY <1>2, <1>3, RowWritten
<1>8. run' \in [Workers -> Run] /\ ClockInRange' /\ RunsHoldRows'
  BY <1>7, MutationMoves DEF Cancel
<1>9. NothingPostedPastCutoff'
  <2>. SUFFICES ASSUME NEW slot \in DOMAIN occ,
                       sub'[slot[1]].cancel # NoDate, NotAfter(sub'[slot[1]].cancel, slot[2])
                PROVE  tx'[occ'[slot].tx].status = "REMOVED"
    BY <1>6 DEF NothingPostedPastCutoff
  <2>1. slot[1] \in SubIds /\ tx[occ[slot].tx] \in Charge
    BY ChargeTable DEF Slot
  <2>2. CASE slot[1] = s
    <3>1. NotAfter(eff, slot[2])
      BY <1>2, <1>3, <2>2 DEF IInv, TypeOK
    <3>2. slot \in gone \/ tx[occ[slot].tx].status = "REMOVED"
      BY <1>4, <2>1, <2>2, <3>1 DEF CutSlots, Charge
    <3>. QED
      BY <1>6, <3>2
  <2>3. CASE slot[1] # s
    <3>1. sub'[slot[1]] = sub[slot[1]]
      BY <1>3, <2>1, <2>3 DEF IInv, TypeOK
    <3>2. tx[occ[slot].tx].status = "REMOVED"
      BY <3>1 DEF IInv, NothingPostedPastCutoff
    <3>. QED
      BY <1>6, <3>2
  <2>. QED
    BY <2>2, <2>3
<1>10. TypeOK'
  BY <1>6, <1>7, <1>8 DEF IInv, TypeOK, Cancel
<1>. QED
  BY <1>6, <1>7, <1>8, <1>9, <1>10 DEF IInv

LEMMA DeleteChargeKeeps == ASSUME IInv, NEW i \in DOMAIN tx, DeleteCharge(i) PROVE IInv'
<1>1. PICK gone \in SUBSET DOMAIN occ : gone = {slot \in DOMAIN occ : occ[slot].tx = i}
  OBVIOUS
<1>2. {occ[slot].tx : slot \in gone} = {i}
  BY <1>1 DEF IInv, ChargesMatchOccurrences
<1>3. tx' = [j \in DOMAIN tx |->
               IF j \in {occ[slot].tx : slot \in gone}
               THEN [tx[j] EXCEPT !.status = "REMOVED"] ELSE tx[j]]
  <2>1. tx \in [DOMAIN tx -> Charge]
    BY ChargeTable, LenProperties DEF IInv, TypeOK
  <2>. QED
    BY <1>2, <2>1 DEF DeleteCharge
<1>4. occ' = [slot \in DOMAIN occ |->
               IF slot \in gone THEN [occ[slot] EXCEPT !.status = "NOT_CHARGED"]
                                ELSE occ[slot]]
  BY <1>1 DEF DeleteCharge
<1>5. /\ tx' \in Seq(Charge)
      /\ DOMAIN occ' = DOMAIN occ
      /\ \A slot \in DOMAIN occ :
            /\ occ'[slot] \in Occurrence
            /\ slot \in gone => tx'[occ'[slot].tx].status = "REMOVED"
            /\ slot \notin gone => tx'[occ'[slot].tx] = tx[occ[slot].tx]
      /\ ChargesMatchOccurrences'
  BY <1>3, <1>4, ChargesRemoved
<1>6. NothingPostedPastCutoff'
  BY <1>5 DEF IInv, NothingPostedPastCutoff, DeleteCharge
<1>7. TypeOK' /\ RowIds' /\ ClockInRange' /\ RunsHoldRows'
  BY <1>5 DEF IInv, TypeOK, RowIds, ClockInRange, RunsHoldRows, DeleteCharge
<1>. QED
  BY <1>5, <1>6, <1>7 DEF IInv

LEMMA EditChargeKeeps ==
  ASSUME IInv, NEW i \in DOMAIN tx, NEW amount \in Amounts, NEW asScheduled \in BOOLEAN,
         EditCharge(i, amount, asScheduled)
  PROVE  IInv'
<1>1. tx \in [DOMAIN tx -> Charge]
  BY ChargeTable, LenProperties DEF IInv, TypeOK
<1>2. /\ DOMAIN tx' = DOMAIN tx
      /\ tx' \in [DOMAIN tx -> Charge]
      /\ \A j \in DOMAIN tx : tx'[j].status = tx[j].status
  BY <1>1 DEF EditCharge, Charge
<1>3. tx' \in Seq(Charge)
  BY <1>2, ChargesMapped
<1>4. TypeOK' /\ RowIds' /\ ClockInRange' /\ RunsHoldRows'
  BY <1>3 DEF IInv, TypeOK, RowIds, ClockInRange, RunsHoldRows, EditCharge
<1>5. ChargesMatchOccurrences' /\ NothingPostedPastCutoff'
  BY <1>2 DEF IInv, ChargesMatchOccurrences, NothingPostedPastCutoff, EditCharge
<1>. QED
  BY <1>4, <1>5 DEF IInv

(* The plan at the cursor, when the batch finds it unchanged. *)
LEMMA AdvancedRow ==
  ASSUME NEW row \in Plan, row.next.month < LastMonth
  PROVE  /\ Advanced(row) \in Plan
         /\ Advanced(row).id = row.id
         /\ Advanced(row).cancel = row.cancel
<1>1. PICK v, d : v = row.version + 1 /\ d = NextDate(row.next, row.anchor, "MONTHLY")
  OBVIOUS
<1>2. row.next \in Date /\ row.anchor \in 1..31 /\ v \in Nat
  BY <1>1 DEF Plan
<1>3. d \in Date
  BY <1>1, <1>2, NextDateIsLater
<1>4. Advanced(row) = [row EXCEPT !.next = d, !.version = v]
  BY <1>1 DEF Advanced
<1>. QED
  BY <1>2, <1>3, <1>4 DEF Plan

(* The batch leaves charges and occurrences matched.  It inserts a charge   *)
(* with its occurrence, or posts the one removed charge of an occurrence    *)
(* again, or finds both in place.                                           *)
LEMMA BatchKeepsCharges ==
  ASSUME IInv, NEW p \in Plan, sub[p.id] \in Plan, sub[p.id].id = p.id, Guard(p),
         tx' = TxAfterBatch(p), occ' = OccAfterBatch(p)
  PROVE  /\ tx' \in Seq(Charge)
         /\ DOMAIN occ' = DOMAIN occ \cup {<<p.id, p.next>>}
         /\ \A slot \in DOMAIN occ' : occ'[slot] \in Occurrence
         /\ \A slot \in DOMAIN occ : slot # <<p.id, p.next>> =>
               /\ occ'[slot].tx \in DOMAIN tx
               /\ tx'[occ'[slot].tx] = tx[occ[slot].tx]
         /\ ChargesMatchOccurrences'
<1> DEFINE here == <<p.id, p.next>>
           i == ChargeOf(p)
<1>1. /\ DOMAIN occ' = DOMAIN occ \cup {here}
      /\ occ'[here] = [tx |-> i, status |-> "GENERATED"]
      /\ \A slot \in DOMAIN occ : slot # here => occ'[slot] = occ[slot]
  BY DEF OccAfterBatch
<1>2. Posted(sub[p.id].amount) \in Charge /\ Posted(p.amount) \in Charge
  BY DEF Posted, Charge, Plan
<1>3. tx \in Seq(Charge) /\ tx \in [1..Len(tx) -> Charge] /\ Len(tx) \in Nat
  BY ChargeTable, LenProperties DEF IInv, TypeOK
<1>4. CASE here \notin DOMAIN occ
  <2>1. i = Len(tx) + 1 /\ tx' = Append(tx, Posted(sub[p.id].amount))
    BY <1>4 DEF ChargeOf, Recorded, TxAfterBatch, InsertsCharge
  <2>2. /\ tx' \in Seq(Charge)
        /\ DOMAIN tx' = DOMAIN tx \cup {i}
        /\ i \notin DOMAIN tx
        /\ tx'[i] = Posted(sub[p.id].amount)
        /\ \A j \in DOMAIN tx : tx'[j] = tx[j]
    <3>1. PICK c \in Charge : c = Posted(sub[p.id].amount)
      BY <1>2
    <3>2. Append(tx, c) \in Seq(Charge) /\ Len(Append(tx, c)) = Len(tx) + 1
      BY <1>3
    <3>3. \A j \in 1..Len(tx) : Append(tx, c)[j] = tx[j]
      BY <1>3
    <3>4. Append(tx, c)[Len(tx) + 1] = c
      BY <1>3
    <3>5. DOMAIN tx = 1..Len(tx) /\ DOMAIN Append(tx, c) = 1..(Len(tx) + 1)
      BY <1>3, <3>2, LenProperties
    <3>. QED
      BY <1>3, <2>1, <3>1, <3>2, <3>3, <3>4, <3>5
  <2>3. \A slot \in DOMAIN occ : occ[slot].tx \in DOMAIN tx /\ slot # here
    BY <1>4, ChargeTable
  <2>4. i \in Nat /\ \A slot \in DOMAIN occ' : occ'[slot] \in Occurrence
    <3>1. i \in Nat
      BY <1>3, <2>1
    <3>. QED
      BY <1>1, <3>1, ChargeTable DEF Occurrence
  <2>5. ChargesMatchOccurrences'
    <3>1. \A slot \in DOMAIN occ' :
             /\ occ'[slot].tx \in DOMAIN tx'
             /\ occ'[slot].status = "GENERATED" <=> tx'[occ'[slot].tx].status = "POSTED"
      BY <1>1, <2>2, <2>3 DEF IInv, ChargesMatchOccurrences, Posted
    <3>2. \A x, y \in DOMAIN occ' : occ'[x].tx = occ'[y].tx => x = y
      BY <1>1, <2>2, <2>3 DEF IInv, ChargesMatchOccurrences
    <3>3. \A j \in DOMAIN tx' : \E slot \in DOMAIN occ' : occ'[slot].tx = j
      BY <1>1, <2>2, <2>3 DEF IInv, ChargesMatchOccurrences
    <3>. QED
      BY <3>1, <3>2, <3>3 DEF ChargesMatchOccurrences
  <2>. QED
    BY <1>1, <2>2, <2>3, <2>4, <2>5
<1>5. CASE here \in DOMAIN occ
  <2>1. i = occ[here].tx /\ i \in DOMAIN tx /\ i \in Nat
    BY <1>5, ChargeTable DEF ChargeOf, Recorded, Occurrence
  <2>2. /\ DOMAIN tx' = DOMAIN tx
        /\ tx' \in [DOMAIN tx -> Charge]
        /\ tx'[i].status = "POSTED"
        /\ \A j \in DOMAIN tx : j # i => tx'[j] = tx[j]
    <3>1. tx \in [DOMAIN tx -> Charge] /\ tx[i] \in Charge
      BY <1>3, <2>1, ChargeTable
    <3>2. CASE RepostsCharge(p)
      <4>1. tx' = [tx EXCEPT ![i] = Posted(p.amount)]
        BY <1>5, <3>2 DEF TxAfterBatch, InsertsCharge, Recorded
      <4>. QED
        BY <1>2, <2>1, <3>1, <4>1 DEF Posted
    <3>3. CASE ~RepostsCharge(p)
      <4>1. tx' = tx
        BY <1>5, <3>3 DEF TxAfterBatch, InsertsCharge, Recorded
      <4>2. occ[here].status # "NOT_CHARGED" \/ tx[i].status # "REMOVED"
        BY <1>5, <2>1, <3>3 DEF RepostsCharge, Recorded
      <4>3. tx[i].status = "POSTED"
        BY <1>5, <2>1, <3>1, <4>2, ChargeTable
           DEF IInv, ChargesMatchOccurrences, Charge, Occurrence
      <4>. QED
        BY <3>1, <4>1, <4>3
    <3>. QED
      BY <3>2, <3>3
  <2>3. tx' \in Seq(Charge)
    BY <2>2, ChargesMapped
  <2>4. \A slot \in DOMAIN occ : slot # here => occ[slot].tx # i /\ occ[slot].tx \in DOMAIN tx
    BY <1>5, <2>1, ChargeTable DEF IInv, ChargesMatchOccurrences
  <2>5. \A slot \in DOMAIN occ' : occ'[slot] \in Occurrence /\ occ'[slot].tx = occ[slot].tx
    BY <1>1, <1>5, <2>1, ChargeTable DEF Occurrence
  <2>6. ChargesMatchOccurrences'
    <3>1. \A slot \in DOMAIN occ' :
             /\ occ'[slot].tx \in DOMAIN tx'
             /\ occ'[slot].status = "GENERATED" <=> tx'[occ'[slot].tx].status = "POSTED"
      BY <1>1, <1>5, <2>1, <2>2, <2>4 DEF IInv, ChargesMatchOccurrences
    <3>2. /\ \A x, y \in DOMAIN occ' : occ'[x].tx = occ'[y].tx => x = y
          /\ \A j \in DOMAIN tx' : \E slot \in DOMAIN occ' : occ'[slot].tx = j
      BY <1>1, <1>5, <2>2, <2>5 DEF IInv, ChargesMatchOccurrences
    <3>. QED
      BY <3>1, <3>2 DEF ChargesMatchOccurrences
  <2>. QED
    BY <1>1, <1>5, <2>2, <2>3, <2>4, <2>5, <2>6
<1>. QED
  BY <1>4, <1>5

LEMMA GenerateKeeps == ASSUME IInv, NEW w \in Workers, Generate(w) PROVE IInv'
<1>1. PICK p : p = run[w].plan
  OBVIOUS
<1>2. /\ p \in Plan /\ sub[p.id] \in Plan /\ sub[p.id].id = p.id
      /\ run[w] \in Run /\ run \in [Workers -> Run]
      /\ NotAfter(p.next, run[w].day) /\ NotAfter(run[w].day, today)
      /\ today \in Date /\ today.month < LastMonth
      /\ \A q \in run[w].todo : sub[q.id] # NoPlan
  BY <1>1 DEF Generate, IInv, TypeOK, RowIds, ClockInRange, RunsHoldRows, HoldsRows, Plan
<1>3. CASE ~Guard(p)
  <2>1. UNCHANGED <<today, sub, occ, tx>>
    BY <1>1, <1>3 DEF Generate, TxAfterBatch, InsertsCharge, RepostsCharge, OccAfterBatch
  <2>2. PICK todo, attempts : todo = run[w].todo /\ attempts = run[w].attempts + 1
    OBVIOUS
  <2>3. todo \in SUBSET Plan /\ attempts \in Nat
    BY <1>2, <2>2 DEF Run
  <2>4. Proceed(w, todo, attempts)
    BY <1>1, <1>3, <2>2 DEF Generate
  <2>5. run' \in [Workers -> Run] /\ ClockInRange' /\ RunsHoldRows'
    BY <1>2, <2>1, <2>2, <2>3, <2>4, ProceedMoves
  <2>. QED
    BY <2>1, <2>5, TablesUntouched
<1>4. CASE Guard(p)
  <2>1. PICK row \in Plan : /\ row.id = p.id /\ row.cancel = sub[p.id].cancel
                             /\ sub' = [sub EXCEPT ![p.id] = row]
    <3>1. sub[p.id].next = p.next /\ p.next \in Date /\ run[w].day \in Date
      BY <1>2, <1>4 DEF Guard, Plan, Run
    <3>2. p.next.month < LastMonth
      BY <1>2, <3>1, NotAfterTrans, MonthAfter
    <3>3. sub' = [sub EXCEPT ![p.id] = Advanced(sub[p.id])]
      BY <1>1, <1>4 DEF Generate
    <3>4. PICK r \in Plan : r = sub[p.id]
      BY <1>2
    <3>. QED
      BY <1>2, <3>1, <3>2, <3>3, <3>4, AdvancedRow
  <2>2. /\ sub' \in [SubIds -> Plan \cup {NoPlan}]
        /\ RowIds'
        /\ \A x \in SubIds : sub[x] # NoPlan => sub'[x] # NoPlan
    BY <1>2, <2>1, RowWritten DEF Plan
  <2>3. /\ tx' \in Seq(Charge)
        /\ DOMAIN occ' = DOMAIN occ \cup {<<p.id, p.next>>}
        /\ \A slot \in DOMAIN occ' : occ'[slot] \in Occurrence
        /\ \A slot \in DOMAIN occ : slot # <<p.id, p.next>> =>
               /\ occ'[slot].tx \in DOMAIN tx
               /\ tx'[occ'[slot].tx] = tx[occ[slot].tx]
        /\ ChargesMatchOccurrences'
    BY <1>1, <1>2, <1>4, BatchKeepsCharges DEF Generate
  <2>4. run' \in [Workers -> Run] /\ ClockInRange' /\ RunsHoldRows'
    <3>1. PICK a, r : a = run[w].attempts + 1
                      /\ r = [run[w] EXCEPT !.pc = "refind", !.attempts = a]
      OBVIOUS
    <3>2. a \in Nat
      BY <1>2, <3>1 DEF Run
    <3>3. /\ r \in Run /\ r.pc = "refind" /\ r.plan = p /\ r.day = run[w].day
          /\ r.todo = run[w].todo
      BY <1>1, <1>2, <3>1, <3>2 DEF Run
    <3>4. run' = [run EXCEPT ![w] = r]
      BY <1>1, <1>2, <1>4, <3>1 DEF Generate
    <3>5. \A q \in r.todo : q \in Plan /\ sub[q.id] # NoPlan
      BY <1>2, <3>3 DEF Run
    <3>6. sub[p.id] # NoPlan
      BY <1>2, RowAssumption
    <3>7. HoldsRows(r, sub')
      BY <1>2, <2>2, <3>3, <3>5, <3>6 DEF HoldsRows, Plan
    <3>. QED
      BY <1>2, <2>2, <3>3, <3>4, <3>7, RunMoves DEF Generate
  <2>5. NothingPostedPastCutoff'
    <3>. SUFFICES ASSUME NEW slot \in DOMAIN occ',
                         sub'[slot[1]].cancel # NoDate,
                         NotAfter(sub'[slot[1]].cancel, slot[2])
                  PROVE  tx'[occ'[slot].tx].status = "REMOVED"
      BY DEF NothingPostedPastCutoff
    <3>1. slot # <<p.id, p.next>>
      <4>. SUFFICES ASSUME slot = <<p.id, p.next>> PROVE FALSE
        OBVIOUS
      <4>1. sub'[p.id].cancel = sub[p.id].cancel /\ p.next = sub[p.id].next
        BY <1>2, <1>4, <2>1 DEF Guard, IInv, TypeOK, Plan
      <4>. QED
        BY <1>4, <4>1 DEF Guard, CutOff
    <3>2. slot \in DOMAIN occ /\ slot[1] \in SubIds
      BY <2>3, <3>1, ChargeTable DEF Slot
    <3>3. sub'[slot[1]].cancel = sub[slot[1]].cancel
      BY <2>1, <3>2 DEF IInv, TypeOK
    <3>4. tx[occ[slot].tx].status = "REMOVED"
      BY <3>2, <3>3 DEF IInv, NothingPostedPastCutoff
    <3>. QED
      BY <2>3, <3>1, <3>2, <3>4
  <2>6. TypeOK'
    <3>1. <<p.id, p.next>> \in Slot
      BY <1>2 DEF Plan, Slot
    <3>2. DOMAIN occ' \subseteq Slot
      BY <2>3, <3>1 DEF IInv, TypeOK
    <3>. QED
      BY <2>2, <2>3, <2>4, <3>2 DEF IInv, TypeOK, Generate
  <2>. QED
    BY <2>2, <2>3, <2>4, <2>5, <2>6 DEF IInv
<1>. QED
  BY <1>3, <1>4

-----------------------------------------------------------------------------
LEMMA NextKeeps == IInv /\ [Next]_vars => IInv'
<1>. SUFFICES ASSUME IInv, [Next]_vars PROVE IInv'
  OBVIOUS
<1>1. CASE Tick
  BY <1>1, TickKeeps
<1>2. ASSUME NEW w \in Workers, Catchup(w) PROVE IInv'
  BY <1>2, SelectKeeps, GenerateKeeps, RestartKeeps, RefindKeeps, CloseKeeps DEF Catchup
<1>3. ASSUME NEW w \in CronJobs, Cron(w) PROVE IInv'
  BY <1>2, <1>3, RestartKeeps DEF Cron, Workers
<1>4. ASSUME NEW w \in Requests, Handling(w) PROVE IInv'
  BY <1>2, <1>4, CancelKeeps, ResumeKeeps, EditKeeps, RestartKeeps DEF Handling, Workers
<1>5. ASSUME NEW w \in Requests, Request(w) PROVE IInv'
  <2>1. PICK s \in SubIds, d \in Date, amount \in Amounts :
           \/ Create(w, s, d, amount)
           \/ \E action \in Mutations :
                 ReadForMutation(w, s, [action |-> action, date |-> d, amount |-> amount,
                                        version |-> sub[s].version])
    BY <1>5 DEF Request
  <2>2. CASE Create(w, s, d, amount)
    BY <2>2, CreateKeeps DEF Workers
  <2>3. ASSUME NEW action \in Mutations,
               ReadForMutation(w, s, [action |-> action, date |-> d, amount |-> amount,
                                      version |-> sub[s].version])
        PROVE  IInv'
    <3>1. PICK request : request = [action |-> action, date |-> d, amount |-> amount,
                                    version |-> sub[s].version]
      OBVIOUS
    <3>2. sub[s].version \in Nat
      BY <2>3 DEF ReadForMutation, IInv, TypeOK, Plan
    <3>3. request \in Mutation
      BY <3>1, <3>2, SubscriptionAssumption DEF Mutation
    <3>. QED
      BY <2>3, <3>1, <3>3, ReadForMutationKeeps DEF Workers
  <2>. QED
    BY <2>1, <2>2, <2>3
<1>6. CASE Owner
  BY <1>6, SubscriptionAssumption, DeleteChargeKeeps, EditChargeKeeps DEF Owner
<1>7. CASE UNCHANGED vars
  BY <1>7 DEF vars, IInv, TypeOK, RowIds, ClockInRange, RunsHoldRows,
              ChargesMatchOccurrences, NothingPostedPastCutoff
<1>. QED
  BY <1>1, <1>3, <1>4, <1>5, <1>6, <1>7 DEF Next

(* The inductive invariant holds in every reachable state. *)
THEOREM Invariance == Spec => []IInv
<1>1. Init => IInv
  BY InitIInv
<1>2. IInv /\ [Next]_vars => IInv'
  BY NextKeeps
<1>. QED
  BY <1>1, <1>2, PTL DEF Spec

(* The tables and the invocations keep their types: no step of the          *)
(* schedule leaves the calendar.                                            *)
THEOREM TypeCorrect == Spec => []TypeOK
<1>1. IInv => TypeOK
  BY DEF IInv
<1>. QED
  BY <1>1, Invariance, PTL

(* However many invocations race, every generated transaction belongs to    *)
(* exactly one occurrence, which is GENERATED while it is POSTED.           *)
THEOREM ChargesMatch == Spec => []ChargesMatchOccurrences
<1>1. IInv => ChargesMatchOccurrences
  BY DEF IInv
<1>. QED
  BY <1>1, Invariance, PTL

(* No charge on or after the effective date of a plan's cancellation is     *)
(* ever posted.                                                             *)
THEOREM CutoffRespected == Spec => []NothingPostedPastCutoff
<1>1. IInv => NothingPostedPastCutoff
  BY DEF IInv
<1>. QED
  BY <1>1, Invariance, PTL

-----------------------------------------------------------------------------
(***************************************************************************)
(* The history of a plan: which rows may follow a row, and that the        *)
(* concurrent invocations together implement ChargeSchedule.               *)
(*                                                                         *)
(* The invariant above does not suffice.  What a step writes depends on    *)
(* the row its invocation read before an await, so History says what the   *)
(* version of that row is worth: no version names two rows, hence a write  *)
(* that finds the version it remembers finds the row it remembers, and     *)
(* what was checked when it was read still holds.                          *)
(***************************************************************************)

(* The next date of a plan is its anchor, clamped to the month. *)
AnchorsKept ==
    \A s \in SubIds : sub[s] # NoPlan =>
        sub[s].next = Clamped(sub[s].next.month, sub[s].anchor)

(* A row that was read from the table at some time. *)
IsSnapshot(p, table) ==
    /\ p.version <= table[p.id].version
    /\ p.version = table[p.id].version => p = table[p.id]

(* What an invocation remembers between two awaits. *)
Remembers(r, table) ==
    /\ r.pc \in {"mutate", "attempt"} => IsSnapshot(r.plan, table)
    /\ \A p \in r.todo : IsSnapshot(p, table)
    /\ r.pc = "mutate" => /\ r.only = r.plan.id
                          /\ Acceptable(r.plan, r.request)
    /\ r.attempts <= MaxAttempts
    /\ r.pc = "attempt" => r.attempts < MaxAttempts

RunsRemember == \A w \in Workers : Remembers(run[w], sub)

History == /\ AnchorsKept
           /\ RunsRemember
           /\ ClosedPlansAreSettled

-----------------------------------------------------------------------------
(* What may become of a row in one step: "new" follows "row".               *)

Charged(row, new) == /\ new = Advanced(row)
                     /\ row.status = "ACTIVE"
                     /\ IsDue(row, today)

CancelledAt(row, new, eff) ==
    \E day \in Date : NotAfter(day, today) /\ new = Cancelled(row, eff, day)

ResumedAt(row, new, d) == row.cancel # NoDate /\ new = Resumed(row, d)

EditedWith(row, new, request) ==
    /\ ~Before(request.date, row.next)
    /\ new = Edited(row, request, IF request.date = row.next THEN row.anchor
                                                            ELSE request.date.day)

ClosedOn(row, new, day) == /\ NotAfter(day, today)
                           /\ Settled(row, day)
                           /\ new = Closed(row)

Changes(row, new) ==
    \/ Charged(row, new)
    \/ \E d \in Date : \/ CancelledAt(row, new, d)
                       \/ ResumedAt(row, new, d)
                       \/ ClosedOn(row, new, d)
    \/ \E request \in Mutation : EditedWith(row, new, request)

Creates(s, new) ==
    \E d \in Date, amount \in Amounts :
        new = [id |-> s, status |-> "ACTIVE", next |-> d, anchor |-> d.day,
               cancel |-> NoDate, amount |-> amount, version |-> 1]

Moves(s) == \/ sub'[s] = sub[s]
            \/ sub[s] \in Plan /\ Changes(sub[s], sub'[s])
            \/ sub[s] = NoPlan /\ Creates(s, sub'[s])

-----------------------------------------------------------------------------
(* A date clamped to its own day is itself. *)
LEMMA ClampedToItself ==
  ASSUME NEW d \in Date
  PROVE  d.day \in 1..31 /\ Clamped(d.month, d.day) = d
<1>1. d \in [month : Month, day : 1..31] /\ d.day <= DaysIn[d.month]
  BY DateParts
<1>. QED
  BY <1>1 DEF Clamped

(* The parts of the rows a step may write. *)
LEMMA WrittenRows ==
  ASSUME NEW row \in Plan
  PROVE  /\ /\ Advanced(row).version = row.version + 1
            /\ Advanced(row).status = row.status
            /\ Advanced(row).next = NextDate(row.next, row.anchor, "MONTHLY")
            /\ Advanced(row).anchor = row.anchor
            /\ Advanced(row).cancel = row.cancel
         /\ \A d, day : /\ Cancelled(row, d, day).version = row.version + 1
                        /\ Cancelled(row, d, day).status = CancelStatus(row, d, day)
                        /\ Cancelled(row, d, day).next = row.next
                        /\ Cancelled(row, d, day).anchor = row.anchor
                        /\ Cancelled(row, d, day).cancel = d
         /\ \A d : /\ Resumed(row, d).version = row.version + 1
                   /\ Resumed(row, d).status = "ACTIVE"
                   /\ Resumed(row, d).next = d
                   /\ Resumed(row, d).anchor = d.day
                   /\ Resumed(row, d).cancel = NoDate
         /\ \A q, a : /\ Edited(row, q, a).version = row.version + 1
                      /\ Edited(row, q, a).status = row.status
                      /\ Edited(row, q, a).next = q.date
                      /\ Edited(row, q, a).anchor = a
                      /\ Edited(row, q, a).cancel = row.cancel
         /\ /\ Closed(row).version = row.version + 1
            /\ Closed(row).status = "CANCELLED"
            /\ Closed(row).next = row.next
            /\ Closed(row).anchor = row.anchor
            /\ Closed(row).cancel = row.cancel
  BY DEF Plan, Advanced, Cancelled, Resumed, Edited, Closed

(* A row that changes gets the next version. *)
LEMMA VersionGrows ==
  ASSUME NEW row \in Plan, NEW new, Changes(row, new)
  PROVE  new.version = row.version + 1
  BY WrittenRows
     DEF Changes, Charged, CancelledAt, ResumedAt, EditedWith, ClosedOn

(* A row once read stays a snapshot: its version names no other row.        *)
LEMMA SnapshotsStay ==
  ASSUME NEW p \in Plan, sub[p.id] \in Plan, IsSnapshot(p, sub), Moves(p.id)
  PROVE  IsSnapshot(p, sub')
<1>1. p.id \in SubIds /\ p.version \in Nat /\ sub[p.id].version \in Nat
  BY DEF Plan
<1>2. sub[p.id] # NoPlan
  BY RowAssumption
<1>3. sub'[p.id] = sub[p.id] \/ sub'[p.id].version = sub[p.id].version + 1
  BY <1>2, VersionGrows DEF Moves
<1>. QED
  BY <1>1, <1>3 DEF IsSnapshot

(* No change moves a plan off its anchor, and the anchor itself moves only  *)
(* with the date, or when a cancelled plan is resumed.                      *)
LEMMA AnchorStays ==
  ASSUME NEW row \in Plan, NEW new, Changes(row, new),
         row.next = Clamped(row.next.month, row.anchor)
  PROVE  new.next = Clamped(new.next.month, new.anchor)
<1>1. CASE Charged(row, new)
  <2>1. new.next = NextDate(row.next, row.anchor, "MONTHLY") /\ new.anchor = row.anchor
    BY <1>1, WrittenRows DEF Charged
  <2>2. new.next = Clamped(row.next.month + 1, row.anchor)
    BY <2>1 DEF NextDate, MonthsIn
  <2>3. new.next.month = row.next.month + 1
    BY <2>2 DEF Clamped
  <2>. QED
    BY <2>1, <2>2, <2>3
<1>2. ASSUME NEW d \in Date, CancelledAt(row, new, d) \/ ClosedOn(row, new, d)
      PROVE  new.next = row.next /\ new.anchor = row.anchor
  BY <1>2, WrittenRows DEF CancelledAt, ClosedOn
<1>3. ASSUME NEW d \in Date, ResumedAt(row, new, d)
      PROVE  /\ new.next = Clamped(new.next.month, new.anchor)
             /\ row.cancel # NoDate /\ new.cancel = NoDate
  <2>1. /\ new.next = d /\ new.anchor = d.day
        /\ row.cancel # NoDate /\ new.cancel = NoDate
    BY <1>3, WrittenRows DEF ResumedAt
  <2>. QED
    BY <2>1, ClampedToItself
<1>4. ASSUME NEW request \in Mutation, EditedWith(row, new, request)
      PROVE  /\ new.next = Clamped(new.next.month, new.anchor)
             /\ new.next = row.next => new.anchor = row.anchor
  <2>1. PICK anchor : anchor = IF request.date = row.next
                               THEN row.anchor ELSE request.date.day
    OBVIOUS
  <2>2. new.next = request.date /\ new.anchor = anchor /\ request.date \in Date
    BY <1>4, <2>1, WrittenRows DEF EditedWith, Mutation
  <2>. QED
    BY <2>1, <2>2, ClampedToItself
<1>. QED
  BY <1>1, <1>2, <1>3, <1>4 DEF Changes

(* What is true of a closed plan. *)
Rests(row) == row.status = "CANCELLED" => CutOff(row) /\ NotAfter(row.cancel, today)

(* A plan is closed only past its cutoff, and an edit of a closed plan does *)
(* not bring a date back before it.                                         *)
LEMMA RestStays ==
  ASSUME IInv, NEW row \in Plan, NEW new, Changes(row, new), Rests(row)
  PROVE  Rests(new)
<1>. SUFFICES ASSUME new.status = "CANCELLED"
              PROVE  /\ new.cancel \in Date
                     /\ NotAfter(new.cancel, new.next)
                     /\ NotAfter(new.cancel, today)
  BY SubscriptionAssumption DEF Rests, CutOff
<1>1. /\ today \in Date /\ row.next \in Date
      /\ row.status = "CANCELLED" => /\ row.cancel \in Date
                                     /\ NotAfter(row.cancel, row.next)
                                     /\ NotAfter(row.cancel, today)
  BY DEF Rests, CutOff, Plan, IInv, TypeOK
<1>2. CASE Charged(row, new)
  BY <1>2, WrittenRows DEF Charged
<1>3. ASSUME NEW d \in Date, CancelledAt(row, new, d)
      PROVE  /\ new.cancel \in Date
             /\ NotAfter(new.cancel, new.next)
             /\ NotAfter(new.cancel, today)
  <2>1. PICK day \in Date : NotAfter(day, today) /\ new = Cancelled(row, d, day)
    BY <1>3 DEF CancelledAt
  <2>2. new.cancel = d /\ new.next = row.next /\ CancelStatus(row, d, day) = "CANCELLED"
    BY <2>1, WrittenRows
  <2>3. NotAfter(d, day) /\ NotAfter(d, row.next)
    BY <2>2 DEF CancelStatus
  <2>. QED
    BY <1>1, <2>1, <2>2, <2>3, NotAfterTrans
<1>4. ASSUME NEW d \in Date, ResumedAt(row, new, d) PROVE FALSE
  BY <1>4, WrittenRows DEF ResumedAt
<1>5. ASSUME NEW request \in Mutation, EditedWith(row, new, request)
      PROVE  /\ new.cancel \in Date
             /\ NotAfter(new.cancel, new.next)
             /\ NotAfter(new.cancel, today)
  <2>1. /\ new.next = request.date /\ new.cancel = row.cancel /\ new.status = row.status
        /\ request.date \in Date /\ ~Before(request.date, row.next)
    BY <1>5, WrittenRows DEF EditedWith, Mutation
  <2>2. NotAfter(row.next, request.date)
    BY <1>1, <2>1, DatesAreOrdered
  <2>. QED
    BY <1>1, <2>1, <2>2, NotAfterTrans
<1>6. ASSUME NEW day \in Date, ClosedOn(row, new, day)
      PROVE  /\ new.cancel \in Date
             /\ NotAfter(new.cancel, new.next)
             /\ NotAfter(new.cancel, today)
  <2>1. /\ new.cancel = row.cancel /\ new.next = row.next /\ NotAfter(day, today)
        /\ row.cancel # NoDate /\ NotAfter(row.cancel, day) /\ NotAfter(row.cancel, row.next)
    BY <1>6, WrittenRows DEF ClosedOn, Settled
  <2>2. row.cancel \in Date
    BY <2>1 DEF Plan
  <2>. QED
    BY <1>1, <2>1, <2>2, NotAfterTrans
<1>. QED
  BY <1>2, <1>3, <1>4, <1>5, <1>6 DEF Changes

-----------------------------------------------------------------------------
(* Which rows the actions write.                                            *)

OnlyRow(s) == \A x \in SubIds \ {s} : sub'[x] = sub[x]

(* The row mutate writes is the row it read: the version it was sent is the *)
(* version it read, and no other row has had it.                            *)
LEMMA SameRow ==
  ASSUME IInv, RunsRemember, NEW w \in Workers, NEW action, Mutating(w, action)
  PROVE  /\ run[w].plan = sub[run[w].only]
         /\ Acceptable(sub[run[w].only], run[w].request)
<1>1. Remembers(run[w], sub)
  BY DEF RunsRemember
<1>. QED
  BY <1>1 DEF Mutating, Remembers, IsSnapshot, Acceptable

LEMMA CancelRow ==
  ASSUME IInv, NEW w \in Workers, Cancel(w)
  PROVE  LET s == run[w].only
             d == run[w].request.date
         IN  s \in SubIds /\ d \in Date /\ sub[s] \in Plan
             /\ CancelledAt(sub[s], sub'[s], d) /\ OnlyRow(s)
<1>1. PICK s, d, day : s = run[w].only /\ d = run[w].request.date /\ day = run[w].day
  OBVIOUS
<1>2. s \in SubIds /\ sub[s] \in Plan /\ d \in Date /\ day \in Date /\ NotAfter(day, today)
  BY <1>1, MutatingRow DEF Cancel, Mutation, IInv, ClockInRange
<1>3. sub' = [sub EXCEPT ![s] = Cancelled(sub[s], d, day)]
  BY <1>1 DEF Cancel
<1>4. sub'[s] = Cancelled(sub[s], d, day) /\ OnlyRow(s)
  BY <1>2, <1>3 DEF OnlyRow, IInv, TypeOK
<1>. QED
  BY <1>1, <1>2, <1>4 DEF CancelledAt

LEMMA ResumeRow ==
  ASSUME IInv, RunsRemember, ClosedPlansAreSettled, NEW w \in Workers, Resume(w)
  PROVE  LET s == run[w].only
             d == run[w].request.date
         IN  s \in SubIds /\ d \in Date /\ sub[s] \in Plan
             /\ ResumedAt(sub[s], sub'[s], d) /\ OnlyRow(s)
<1>1. PICK s, d : s = run[w].only /\ d = run[w].request.date
  OBVIOUS
<1>2. s \in SubIds /\ sub[s] \in Plan /\ d \in Date /\ sub[s] # NoPlan
  BY <1>1, MutatingRow, RowAssumption DEF Resume, Mutation
<1>3. sub' = [sub EXCEPT ![s] = Resumed(sub[s], d)]
  BY <1>1 DEF Resume
<1>4. sub'[s] = Resumed(sub[s], d) /\ OnlyRow(s)
  BY <1>2, <1>3 DEF OnlyRow, IInv, TypeOK
<1>5. ~(sub[s].status = "ACTIVE" /\ sub[s].cancel = NoDate)
  BY <1>1, SameRow DEF Resume, Acceptable, Mutating
<1>6. sub[s].cancel # NoDate
  BY <1>2, <1>5 DEF ClosedPlansAreSettled, CutOff, Plan
<1>. QED
  BY <1>1, <1>2, <1>4, <1>6 DEF ResumedAt

LEMMA EditRow ==
  ASSUME IInv, RunsRemember, NEW w \in Workers, Edit(w)
  PROVE  LET s == run[w].only
             request == run[w].request
         IN  s \in SubIds /\ request \in Mutation /\ sub[s] \in Plan
             /\ EditedWith(sub[s], sub'[s], request) /\ OnlyRow(s)
<1>1. PICK s, request : s = run[w].only /\ request = run[w].request
  OBVIOUS
<1>2. s \in SubIds /\ sub[s] \in Plan /\ request \in Mutation
  BY <1>1, MutatingRow DEF Edit
<1>3. run[w].plan = sub[s] /\ Acceptable(sub[s], request) /\ request.action = "EDIT"
  BY <1>1, SameRow DEF Edit, Mutating
<1>4. sub' = [sub EXCEPT ![s] = Edited(sub[s], request, EditedAnchor(w))]
  BY <1>1 DEF Edit
<1>5. EditedAnchor(w) = IF request.date = sub[s].next THEN sub[s].anchor ELSE request.date.day
  BY <1>1, <1>3 DEF EditedAnchor
<1>6. /\ sub'[s] = Edited(sub[s], request, IF request.date = sub[s].next
                                           THEN sub[s].anchor ELSE request.date.day)
      /\ OnlyRow(s)
  BY <1>2, <1>4, <1>5 DEF OnlyRow, IInv, TypeOK
<1>. QED
  BY <1>1, <1>2, <1>3, <1>6 DEF EditedWith, Acceptable

LEMMA GenerateRow ==
  ASSUME IInv, NEW w \in Workers, Generate(w), Guard(run[w].plan)
  PROVE  LET s == run[w].plan.id
         IN  s \in SubIds /\ sub[s] \in Plan
             /\ Charged(sub[s], sub'[s]) /\ OnlyRow(s)
<1>1. PICK p : p = run[w].plan
  OBVIOUS
<1>2. PICK s : s = p.id
  OBVIOUS
<1>3. /\ p \in Plan /\ s \in SubIds /\ sub[s] \in Plan
      /\ NotAfter(p.next, run[w].day) /\ NotAfter(run[w].day, today)
      /\ run[w].day \in Date /\ today \in Date
  BY <1>1, <1>2 DEF Generate, IInv, TypeOK, RunsHoldRows, HoldsRows, ClockInRange, Plan, Run
<1>4. sub[s].status = "ACTIVE" /\ sub[s].next = p.next /\ ~CutOff(sub[s])
  BY <1>1, <1>2 DEF Guard
<1>5. NotAfter(sub[s].next, today)
  <2>1. sub[s].next \in Date
    BY <1>3 DEF Plan
  <2>. QED
    BY <1>3, <1>4, <2>1, NotAfterTrans
<1>6. sub' = [sub EXCEPT ![s] = Advanced(sub[s])]
  BY <1>1, <1>2 DEF Generate
<1>7. sub'[s] = Advanced(sub[s]) /\ OnlyRow(s)
  BY <1>3, <1>6 DEF OnlyRow, IInv, TypeOK
<1>. QED
  BY <1>1, <1>2, <1>3, <1>4, <1>5, <1>7 DEF Charged, IsDue

LEMMA CreateRow ==
  ASSUME IInv, NEW w \in Workers, NEW s \in SubIds, NEW d \in Date, NEW amount \in Amounts,
         Create(w, s, d, amount)
  PROVE  \/ sub' = sub
         \/ /\ sub[s] = NoPlan
            /\ sub'[s] = [id |-> s, status |-> "ACTIVE", next |-> d, anchor |-> d.day,
                          cancel |-> NoDate, amount |-> amount, version |-> 1]
            /\ OnlyRow(s)
  BY DEF Create, OnlyRow, IInv, TypeOK

LEMMA CloseRows ==
  ASSUME IInv, NEW w \in Workers, Close(w), NEW s \in SubIds
  PROVE  \/ sub'[s] = sub[s]
         \/ sub[s] \in Plan /\ \E day \in Date : ClosedOn(sub[s], sub'[s], day)
<1>1. CASE Closes(w, sub[s])
  <2>1. sub[s] \in Plan /\ run[w].day \in Date /\ NotAfter(run[w].day, today)
    BY <1>1 DEF Closes, IInv, TypeOK, ClockInRange, Run
  <2>2. sub'[s] = Closed(sub[s]) /\ Settled(sub[s], run[w].day)
    BY <1>1 DEF Close, Closes
  <2>. QED
    BY <2>1, <2>2 DEF ClosedOn
<1>2. CASE ~Closes(w, sub[s])
  BY <1>2 DEF Close
<1>. QED
  BY <1>1, <1>2

(* One row that changes in one of the ways above. *)
LEMMA OneRowMoves ==
  ASSUME NEW s \in SubIds, OnlyRow(s),
         \/ sub[s] \in Plan /\ Changes(sub[s], sub'[s])
         \/ sub[s] = NoPlan /\ Creates(s, sub'[s])
  PROVE  \A x \in SubIds : Moves(x)
  BY DEF OnlyRow, Moves

-----------------------------------------------------------------------------
(* What the invocations remember.                                           *)

(* What an invocation has read stays a snapshot, whatever the step writes.  *)
LEMMA SnapshotsKept ==
  ASSUME IInv, RunsRemember, NEW w \in Workers, \A s \in SubIds : Moves(s)
  PROVE  /\ run[w].pc \in {"mutate", "attempt"} => IsSnapshot(run[w].plan, sub')
         /\ \A p \in run[w].todo : IsSnapshot(p, sub')
<1>1. Remembers(run[w], sub) /\ HoldsRows(run[w], sub) /\ run[w].todo \subseteq Plan
  BY DEF IInv, TypeOK, RunsHoldRows, RunsRemember, Run
<1>2. ASSUME NEW p \in Plan, sub[p.id] # NoPlan, IsSnapshot(p, sub)
      PROVE  IsSnapshot(p, sub')
  <2>1. p.id \in SubIds /\ sub[p.id] \in Plan
    BY <1>2 DEF Plan, IInv, TypeOK
  <2>. QED
    BY <1>2, <2>1, SnapshotsStay
<1>3. ASSUME run[w].pc \in {"mutate", "attempt"} PROVE IsSnapshot(run[w].plan, sub')
  BY <1>1, <1>2, <1>3 DEF Remembers, HoldsRows
<1>. QED
  BY <1>1, <1>2, <1>3 DEF Remembers, HoldsRows

(* A step of one invocation, seen by all. *)
LEMMA OthersRemember ==
  ASSUME IInv, RunsRemember, NEW w \in Workers, NEW r \in Run,
         run' = [run EXCEPT ![w] = r],
         \A s \in SubIds : Moves(s),
         Remembers(r, sub')
  PROVE  RunsRemember'
<1>1. \A v \in Workers : run'[v] = IF v = w THEN r ELSE run[v]
  BY DEF IInv, TypeOK
<1>2. ASSUME NEW v \in Workers PROVE Remembers(run[v], sub')
  <2>1. Remembers(run[v], sub)
    BY DEF RunsRemember
  <2>. QED
    BY <2>1, SnapshotsKept DEF Remembers
<1>. QED
  BY <1>1, <1>2 DEF RunsRemember

(* The continuation of the loop attempts only what its bound leaves. *)
LEMMA ProceedRemembers ==
  ASSUME IInv, RunsRemember, NEW w \in Workers,
         NEW todo \in SUBSET Plan, NEW attempts \in Nat,
         attempts <= MaxAttempts,
         Proceed(w, todo, attempts),
         \A s \in SubIds : Moves(s),
         \A p \in todo : IsSnapshot(p, sub')
  PROVE  RunsRemember'
<1> DEFINE ready == {p \in todo : IsDue(p, run[w].day)}
<1>1. /\ run \in [Workers -> Run] /\ run[w] \in Run
      /\ MaxAttempts \in Nat /\ attempts \in Nat
      /\ ~Exhausted(attempts) => attempts < MaxAttempts
  BY SubscriptionAssumption DEF IInv, TypeOK, Exhausted
<1>2. ASSUME NEW p \in ready, ~Exhausted(attempts),
             run' = [run EXCEPT ![w].pc = "attempt", ![w].plan = p,
                                ![w].todo = ready \ {p}, ![w].attempts = attempts]
      PROVE  RunsRemember'
  <2>1. PICK r : r = [run[w] EXCEPT !.pc = "attempt", !.plan = p,
                                    !.todo = ready \ {p}, !.attempts = attempts]
    OBVIOUS
  <2>2. /\ r \in Run /\ r.pc = "attempt" /\ r.plan = p /\ r.todo \subseteq todo
        /\ r.attempts = attempts
    BY <1>1, <2>1 DEF Run
  <2>3. attempts < MaxAttempts
    BY <1>1, <1>2
  <2>4. Remembers(r, sub')
    BY <1>1, <2>2, <2>3 DEF Remembers
  <2>. QED
    BY <1>1, <1>2, <2>1, <2>2, <2>4, OthersRemember
<1>3. ASSUME run' = [run EXCEPT ![w].pc = "close", ![w].plan = NoPlan,
                                ![w].todo = {}, ![w].attempts = attempts]
      PROVE  RunsRemember'
  <2>1. PICK r : r = [run[w] EXCEPT !.pc = "close", !.plan = NoPlan,
                                    !.todo = {}, !.attempts = attempts]
    OBVIOUS
  <2>2. r \in Run /\ r.pc = "close" /\ r.todo = {} /\ r.attempts = attempts
    BY <1>1, <2>1 DEF Run
  <2>3. Remembers(r, sub')
    BY <2>2 DEF Remembers
  <2>. QED
    BY <1>1, <1>3, <2>1, <2>2, <2>3, OthersRemember
<1>. QED
  BY <1>2, <1>3 DEF Proceed

(* A row of the table is a snapshot of itself. *)
LEMMA RowIsSnapshot ==
  ASSUME IInv, NEW s \in SubIds, sub[s] # NoPlan
  PROVE  sub[s] \in Plan /\ IsSnapshot(sub[s], sub)
<1>1. sub[s] \in Plan /\ sub[s].id = s /\ sub[s].version \in Nat
  BY DEF IInv, TypeOK, RowIds, Plan
<1>. QED
  BY <1>1 DEF IsSnapshot

(* An invocation that ends, or starts, remembers nothing. *)
LEMMA IdleRemembers ==
  ASSUME NEW r, r.pc \notin {"mutate", "attempt"}, r.todo = {}, r.attempts = 0
  PROVE  \A table : Remembers(r, table)
  BY SubscriptionAssumption DEF Remembers

LEMMA IdleRun ==
  /\ Idle \in Run
  /\ Idle.pc = "idle" /\ Idle.todo = {} /\ Idle.attempts = 0
<1>1. 0 \in Month
  BY CalendarAssumption DEF Month
<1>2. FirstDate \in Date
  BY <1>1, DateParts DEF FirstDate
<1>. QED
  BY <1>2 DEF Idle, Run

-----------------------------------------------------------------------------
(* One lemma per action: which rows it moves, and what is remembered then.  *)

Goes == (\A s \in SubIds : Moves(s)) /\ RunsRemember'

LEMMA UnchangedGoes ==
  ASSUME RunsRemember, sub' = sub, run' = run PROVE Goes
  BY DEF Goes, Moves, RunsRemember

LEMMA CreateGoes ==
  ASSUME IInv, RunsRemember, NEW w \in Workers, NEW s \in SubIds, NEW d \in Date,
         NEW amount \in Amounts, Create(w, s, d, amount)
  PROVE  Goes
<1>1. \A x \in SubIds : Moves(x)
  BY CreateRow, OneRowMoves DEF Moves, Creates
<1>2. PICK r : r = [run[w] EXCEPT !.pc = "select", !.day = today, !.only = s]
  OBVIOUS
<1>3. run \in [Workers -> Run] /\ run[w] \in Run /\ today \in Date
  BY DEF IInv, TypeOK
<1>4. /\ r \in Run /\ r.pc = "select" /\ r.todo = run[w].todo
      /\ r.attempts = run[w].attempts /\ run' = [run EXCEPT ![w] = r]
  BY <1>2, <1>3 DEF Run, Create
<1>5. Remembers(r, sub')
  BY <1>1, <1>4, SnapshotsKept DEF Remembers, RunsRemember
<1>. QED
  BY <1>1, <1>4, <1>5, OthersRemember DEF Goes

LEMMA ReadForMutationGoes ==
  ASSUME IInv, RunsRemember, NEW w \in Workers, NEW s \in SubIds, NEW request \in Mutation,
         ReadForMutation(w, s, request)
  PROVE  Goes
<1>1. sub' = sub /\ \A x \in SubIds : Moves(x)
  BY DEF Moves, ReadForMutation
<1>2. PICK r : r = [Idle EXCEPT !.pc = "mutate", !.day = today, !.only = s,
                               !.request = request, !.plan = sub[s]]
  OBVIOUS
<1>3. today \in Date /\ sub[s] \in Plan /\ sub[s].id = s /\ IsSnapshot(sub[s], sub)
  BY RowIsSnapshot DEF IInv, TypeOK, RowIds, ReadForMutation
<1>4. /\ r \in Run /\ r.pc = "mutate" /\ r.only = s /\ r.request = request
      /\ r.plan = sub[s] /\ r.todo = {} /\ r.attempts = 0
  BY <1>2, <1>3, IdleRun DEF Run
<1>5. Remembers(r, sub')
  BY <1>1, <1>3, <1>4, SubscriptionAssumption DEF Remembers, ReadForMutation
<1>6. run' = [run EXCEPT ![w] = r]
  BY <1>2 DEF ReadForMutation
<1>. QED
  BY <1>1, <1>4, <1>5, <1>6, OthersRemember DEF Goes

LEMMA RestartGoes ==
  ASSUME IInv, RunsRemember, NEW w \in Workers,
         Conflict(w) \/ StartCron(w) \/ GenerateAborted(w)
  PROVE  Goes
<1>1. \A x \in SubIds : Moves(x)
  BY DEF Moves, Conflict, StartCron, GenerateAborted
<1>2. PICK r \in Run : /\ r.pc \in {"idle", "select"} /\ r.todo = {} /\ r.attempts = 0
                        /\ run' = [run EXCEPT ![w] = r]
  <2>1. CASE StartCron(w)
    <3>1. PICK r : r = [Idle EXCEPT !.pc = "select", !.day = today]
      OBVIOUS
    <3>2. r \in Run /\ r.pc = "select" /\ r.todo = {} /\ r.attempts = 0
      BY <3>1, IdleRun DEF Run, IInv, TypeOK
    <3>. QED
      BY <2>1, <3>1, <3>2 DEF StartCron
  <2>2. CASE Conflict(w) \/ GenerateAborted(w)
    BY <2>2, IdleRun DEF Conflict, GenerateAborted
  <2>. QED
    BY <2>1, <2>2
<1>3. Remembers(r, sub')
  BY <1>2, IdleRemembers
<1>. QED
  BY <1>1, <1>2, <1>3, OthersRemember DEF Goes

LEMMA SelectGoes ==
  ASSUME IInv, RunsRemember, NEW w \in Workers, Select(w) PROVE Goes
<1>1. sub' = sub /\ \A x \in SubIds : Moves(x)
  BY DEF Moves, Select
<1>2. PICK todo : todo = Selected(run[w].day, run[w].only)
  OBVIOUS
<1>3. \A p \in todo : p \in Plan /\ IsSnapshot(p, sub)
  <2>1. \A p \in todo : \E s \in SubIds : sub[s] # NoPlan /\ p = sub[s]
    BY <1>2 DEF Selected
  <2>. QED
    BY <2>1, RowIsSnapshot
<1>4. todo \in SUBSET Plan /\ Proceed(w, todo, 0) /\ \A p \in todo : IsSnapshot(p, sub')
  BY <1>1, <1>2, <1>3 DEF Select
<1>5. 0 \in Nat /\ 0 <= MaxAttempts
  BY SubscriptionAssumption
<1>. QED
  BY <1>1, <1>4, <1>5, ProceedRemembers DEF Goes

LEMMA RefindGoes ==
  ASSUME IInv, RunsRemember, NEW w \in Workers, Refind(w) PROVE Goes
<1>1. sub' = sub /\ \A x \in SubIds : Moves(x)
  BY DEF Moves, Refind
<1>2. /\ run \in [Workers -> Run] /\ run[w] \in Run
      /\ MaxAttempts \in Nat /\ run[w].attempts \in Nat
      /\ run[w].todo \in SUBSET Plan /\ run[w].attempts <= MaxAttempts
      /\ \A p \in run[w].todo : IsSnapshot(p, sub')
  BY <1>1, SubscriptionAssumption, SnapshotsKept
     DEF IInv, TypeOK, Run, RunsRemember, Remembers
<1>3. PICK p : p = sub[run[w].plan.id]
  OBVIOUS
<1>4. p \in Plan /\ IsSnapshot(p, sub')
  <2>1. run[w].plan.id \in SubIds /\ sub[run[w].plan.id] # NoPlan
    BY DEF Refind, IInv, RunsHoldRows, HoldsRows, Plan
  <2>. QED
    BY <1>1, <1>3, <2>1, RowIsSnapshot
<1>5. CASE /\ ~Exhausted(run[w].attempts)
           /\ run' = [run EXCEPT ![w].pc = "attempt", ![w].plan = p]
  <2>1. PICK r : r = [run[w] EXCEPT !.pc = "attempt", !.plan = p]
    OBVIOUS
  <2>2. /\ r \in Run /\ r.pc = "attempt" /\ r.plan = p /\ r.todo = run[w].todo
        /\ r.attempts = run[w].attempts
    BY <1>2, <1>4, <2>1 DEF Run
  <2>3. r.attempts < MaxAttempts
    BY <1>2, <1>5, <2>2 DEF Exhausted
  <2>4. Remembers(r, sub')
    BY <1>2, <1>4, <2>2, <2>3 DEF Remembers
  <2>. QED
    BY <1>1, <1>2, <1>5, <2>1, <2>2, <2>4, OthersRemember DEF Goes
<1>6. CASE Proceed(w, run[w].todo, run[w].attempts)
  <2>1. PICK todo, attempts : todo = run[w].todo /\ attempts = run[w].attempts
    OBVIOUS
  <2>2. RunsRemember'
    BY <1>1, <1>2, <1>6, <2>1, ProceedRemembers
  <2>. QED
    BY <1>1, <2>2 DEF Goes
<1>. QED
  BY <1>3, <1>5, <1>6 DEF Refind

LEMMA MutationGoes ==
  ASSUME IInv, RunsRemember, ClosedPlansAreSettled, NEW w \in Workers,
         Cancel(w) \/ Resume(w) \/ Edit(w)
  PROVE  Goes
<1>1. \A x \in SubIds : Moves(x)
  BY CancelRow, ResumeRow, EditRow, OneRowMoves DEF Changes
<1>2. PICK r : r = [run[w] EXCEPT !.pc = "select", !.request = NoRequest, !.plan = NoPlan]
  OBVIOUS
<1>3. run \in [Workers -> Run] /\ run[w] \in Run
  BY DEF IInv, TypeOK
<1>4. /\ r \in Run /\ r.pc = "select" /\ r.todo = run[w].todo
      /\ r.attempts = run[w].attempts
  BY <1>2, <1>3 DEF Run
<1>5. run' = [run EXCEPT ![w] = r]
  BY <1>2, <1>3 DEF Cancel, Resume, Edit, AfterMutation
<1>6. Remembers(r, sub')
  BY <1>1, <1>4, SnapshotsKept DEF Remembers, RunsRemember
<1>. QED
  BY <1>1, <1>4, <1>5, <1>6, OthersRemember DEF Goes

LEMMA GenerateGoes ==
  ASSUME IInv, RunsRemember, NEW w \in Workers, Generate(w) PROVE Goes
<1>1. /\ run \in [Workers -> Run] /\ run[w] \in Run /\ run[w].todo \in SUBSET Plan
      /\ MaxAttempts \in Nat /\ run[w].attempts \in Nat /\ run[w].attempts < MaxAttempts
  BY SubscriptionAssumption DEF Generate, IInv, TypeOK, Run, RunsRemember, Remembers
<1>2. PICK attempts : attempts = run[w].attempts + 1
  OBVIOUS
<1>3. attempts \in Nat /\ attempts <= MaxAttempts
  BY <1>1, <1>2
<1>4. CASE Guard(run[w].plan)
  <2>1. \A x \in SubIds : Moves(x)
    BY <1>4, GenerateRow, OneRowMoves DEF Changes
  <2>2. PICK r : r = [run[w] EXCEPT !.pc = "refind", !.attempts = attempts]
    OBVIOUS
  <2>3. r \in Run /\ r.pc = "refind" /\ r.todo = run[w].todo /\ r.attempts = attempts
    BY <1>1, <1>3, <2>2 DEF Run
  <2>4. run' = [run EXCEPT ![w] = r]
    BY <1>1, <1>2, <1>4, <2>2 DEF Generate
  <2>5. Remembers(r, sub')
    BY <1>3, <2>1, <2>3, SnapshotsKept DEF Remembers
  <2>. QED
    BY <2>1, <2>3, <2>4, <2>5, OthersRemember DEF Goes
<1>5. CASE ~Guard(run[w].plan)
  <2>1. sub' = sub /\ \A x \in SubIds : Moves(x)
    BY <1>5 DEF Moves, Generate
  <2>2. PICK todo : todo = run[w].todo
    OBVIOUS
  <2>3. \A p \in todo : IsSnapshot(p, sub')
    BY <2>1, <2>2, SnapshotsKept
  <2>4. Proceed(w, todo, attempts)
    BY <1>2, <1>5, <2>2 DEF Generate
  <2>5. RunsRemember'
    BY <1>1, <1>3, <2>1, <2>2, <2>3, <2>4, ProceedRemembers
  <2>. QED
    BY <2>1, <2>5 DEF Goes
<1>. QED
  BY <1>4, <1>5

LEMMA CloseGoes ==
  ASSUME IInv, RunsRemember, NEW w \in Workers, Close(w) PROVE Goes
<1>1. \A x \in SubIds : Moves(x)
  BY CloseRows DEF Moves, Changes
<1>2. run' = [run EXCEPT ![w] = Idle] /\ Remembers(Idle, sub')
  BY IdleRun, IdleRemembers DEF Close
<1>. QED
  BY <1>1, <1>2, IdleRun, OthersRemember DEF Goes

-----------------------------------------------------------------------------
LEMMA InitHistory == Init => History
<1>. SUFFICES ASSUME Init PROVE History
  OBVIOUS
<1>1. \A w \in Workers : run[w] = Idle
  BY DEF Init
<1>2. RunsRemember
  BY <1>1, IdleRun, IdleRemembers DEF RunsRemember
<1>. QED
  BY <1>2 DEF Init, History, AnchorsKept, ClosedPlansAreSettled

(* What a step that is not the clock's keeps. *)
LEMMA MovesKeepHistory ==
  ASSUME IInv, IInv', History, today' = today, Goes
  PROVE  History'
<1>1. \A s \in SubIds : /\ sub[s] \in Plan \cup {NoPlan}
                        /\ sub'[s] \in Plan \cup {NoPlan}
                        /\ Moves(s)
  BY DEF IInv, TypeOK, Goes
<1>2. ASSUME NEW s \in SubIds, sub'[s] # NoPlan
      PROVE  /\ sub'[s].next = Clamped(sub'[s].next.month, sub'[s].anchor)
             /\ Rests(sub'[s])
  <2>1. CASE sub'[s] = sub[s]
    BY <1>2, <2>1 DEF History, AnchorsKept, ClosedPlansAreSettled, Rests
  <2>2. CASE sub[s] \in Plan /\ Changes(sub[s], sub'[s])
    <3>1. /\ sub[s] # NoPlan
          /\ sub[s].next = Clamped(sub[s].next.month, sub[s].anchor)
          /\ Rests(sub[s])
      BY <2>2, RowAssumption DEF History, AnchorsKept, ClosedPlansAreSettled, Rests
    <3>. QED
      BY <2>2, <3>1, AnchorStays, RestStays
  <2>3. CASE sub[s] = NoPlan /\ Creates(s, sub'[s])
    <3>1. PICK d \in Date : /\ sub'[s].next = d /\ sub'[s].anchor = d.day
                            /\ sub'[s].status = "ACTIVE"
      BY <2>3 DEF Creates
    <3>. QED
      BY <3>1, ClampedToItself DEF Rests
  <2>. QED
    BY <1>1, <2>1, <2>2, <2>3 DEF Moves
<1>3. AnchorsKept'
  BY <1>2 DEF AnchorsKept
<1>4. ClosedPlansAreSettled'
  <2>. SUFFICES ASSUME NEW s \in SubIds, sub'[s] # NoPlan, sub'[s].status = "CANCELLED"
                PROVE  CutOff(sub'[s]) /\ NotAfter(sub'[s].cancel, today)
    BY DEF ClosedPlansAreSettled
  <2>. QED
    BY <1>2 DEF Rests
<1>. QED
  BY <1>3, <1>4 DEF History, Goes

LEMMA TickKeepsHistory == ASSUME IInv, History, Tick PROVE History'
<1>1. today \in Date /\ today' \in Date /\ NotAfter(today, today') /\ sub' = sub /\ run' = run
  <2>1. today.month < LastMonth
    BY DEF IInv, ClockInRange
  <2>. QED
    BY <2>1, TomorrowIsLater DEF Tick, IInv, TypeOK
<1>2. AnchorsKept' /\ RunsRemember'
  BY <1>1 DEF History, AnchorsKept, RunsRemember
<1>3. ClosedPlansAreSettled'
  <2>. SUFFICES ASSUME NEW s \in SubIds, sub[s] # NoPlan, sub[s].status = "CANCELLED"
                PROVE  CutOff(sub[s]) /\ NotAfter(sub[s].cancel, today')
    BY <1>1 DEF ClosedPlansAreSettled
  <2>1. CutOff(sub[s]) /\ NotAfter(sub[s].cancel, today)
    BY DEF History, ClosedPlansAreSettled
  <2>2. sub[s].cancel \in Date
    BY <2>1 DEF CutOff, IInv, TypeOK, Plan
  <2>. QED
    BY <1>1, <2>1, <2>2, NotAfterTrans
<1>. QED
  BY <1>2, <1>3 DEF History

(* Every step but the clock's moves each row in one of the ways above. *)
LEMMA NextGoes ==
  ASSUME IInv, History, Next, ~Tick
  PROVE  Goes /\ today' = today
<1>. USE DEF History
<1>1. ASSUME NEW w \in Workers, Catchup(w) PROVE Goes /\ today' = today
  BY <1>1, SelectGoes, GenerateGoes, RestartGoes, RefindGoes, CloseGoes
     DEF Catchup, Select, Generate, GenerateAborted, Refind, Close
<1>2. ASSUME NEW w \in CronJobs, Cron(w) PROVE Goes /\ today' = today
  BY <1>1, <1>2, RestartGoes DEF Cron, Workers, StartCron
<1>3. ASSUME NEW w \in Requests, Handling(w) PROVE Goes /\ today' = today
  BY <1>1, <1>3, MutationGoes, RestartGoes DEF Handling, Workers, Cancel, Resume, Edit, Conflict
<1>4. ASSUME NEW w \in Requests, Request(w) PROVE Goes /\ today' = today
  <2>1. PICK s \in SubIds, d \in Date, amount \in Amounts :
           \/ Create(w, s, d, amount)
           \/ \E action \in Mutations :
                 ReadForMutation(w, s, [action |-> action, date |-> d, amount |-> amount,
                                        version |-> sub[s].version])
    BY <1>4 DEF Request
  <2>2. CASE Create(w, s, d, amount)
    BY <2>2, CreateGoes DEF Workers, Create
  <2>3. ASSUME NEW action \in Mutations,
               ReadForMutation(w, s, [action |-> action, date |-> d, amount |-> amount,
                                      version |-> sub[s].version])
        PROVE  Goes /\ today' = today
    <3>1. PICK request : request = [action |-> action, date |-> d, amount |-> amount,
                                    version |-> sub[s].version]
      OBVIOUS
    <3>2. sub[s].version \in Nat
      BY <2>3 DEF ReadForMutation, IInv, TypeOK, Plan
    <3>3. request \in Mutation
      BY <3>1, <3>2, SubscriptionAssumption DEF Mutation
    <3>. QED
      BY <2>3, <3>1, <3>3, ReadForMutationGoes DEF Workers, ReadForMutation
  <2>. QED
    BY <2>1, <2>2, <2>3
<1>5. CASE Owner
  BY <1>5, UnchangedGoes DEF Owner, DeleteCharge, EditCharge
<1>. QED
  BY <1>2, <1>3, <1>4, <1>5 DEF Next

LEMMA NextKeepsHistory == IInv /\ IInv' /\ History /\ [Next]_vars => History'
<1>. SUFFICES ASSUME IInv, IInv', History, [Next]_vars PROVE History'
  OBVIOUS
<1>1. CASE Tick
  BY <1>1, TickKeepsHistory
<1>2. CASE Next /\ ~Tick
  BY <1>2, NextGoes, MovesKeepHistory
<1>3. CASE UNCHANGED vars
  BY <1>3 DEF vars, History, AnchorsKept, RunsRemember, ClosedPlansAreSettled
<1>. QED
  BY <1>1, <1>2, <1>3

(* The history of every reachable state is in order. *)
THEOREM HistoryKept == Spec => [](IInv /\ History)
<1>1. Init => History
  BY InitHistory
<1>2. IInv /\ IInv' /\ History /\ [Next]_vars => History'
  BY NextKeepsHistory
<1>. QED
  BY <1>1, <1>2, Invariance, PTL DEF Spec

(* A CANCELLED plan owes no date before its cutoff, and its cutoff has been *)
(* reached: neither a stale cancellation, nor an edit of the closed plan,   *)
(* nor a catch-up that raced with both leaves a pending date behind.        *)
THEOREM ClosedAreSettled == Spec => []ClosedPlansAreSettled
<1>1. IInv /\ History => ClosedPlansAreSettled
  BY DEF History
<1>. QED
  BY <1>1, HistoryKept, PTL

(* The invocations never attempt more charges than a run may. *)
THEOREM BudgetKept == Spec => []RunWithinBudget
<1>1. IInv /\ History => RunWithinBudget
  BY DEF History, RunsRemember, Remembers, RunWithinBudget
<1>. QED
  BY <1>1, HistoryKept, PTL

(* A mutation of the owner that writes another anchor moves the date too:   *)
(* the row it writes is the row it was decided on.                          *)
LEMMA MutationMovesAnchor ==
  ASSUME IInv, History, NEW w \in Requests, Cancel(w) \/ Resume(w) \/ Edit(w),
         NEW s \in SubIds, sub'[s].anchor # sub[s].anchor
  PROVE  MovesAnchor(s)
<1>. USE DEF History
<1>1. w \in Workers /\ run \in [Workers -> Run] /\ run[w] \in Run
  BY DEF IInv, TypeOK, Workers
<1>2. ~Cancel(w)
  <2>1. SUFFICES ASSUME Cancel(w) PROVE FALSE
    OBVIOUS
  <2>2. PICK x, d : x = run[w].only /\ d = run[w].request.date
    OBVIOUS
  <2>3. sub[x] \in Plan /\ CancelledAt(sub[x], sub'[x], d) /\ OnlyRow(x)
    BY <1>1, <2>1, <2>2, CancelRow
  <2>4. sub'[x].anchor = sub[x].anchor
    BY <2>3, WrittenRows DEF CancelledAt
  <2>. QED
    BY <2>3, <2>4 DEF OnlyRow
<1>3. run[w].pc = "mutate" /\ run'[w].pc = "select"
  BY <1>1 DEF Cancel, Resume, Edit, Mutating, AfterMutation, Run
<1>4. CASE Resume(w)
  <2>1. PICK x, d : x = run[w].only /\ d = run[w].request.date
    OBVIOUS
  <2>2. sub[x] \in Plan /\ ResumedAt(sub[x], sub'[x], d) /\ OnlyRow(x)
    BY <1>1, <1>4, <2>1, ResumeRow
  <2>3. s = x /\ sub'[x].next = d /\ sub'[x].anchor = d.day
    BY <2>2, WrittenRows DEF ResumedAt, OnlyRow
  <2>4. run[w].request.action = "RESUME"
    BY <1>4 DEF Resume, Mutating
  <2>. QED
    BY <1>3, <2>1, <2>3, <2>4 DEF MovesAnchor
<1>5. CASE Edit(w)
  <2>1. PICK x, request : x = run[w].only /\ request = run[w].request
    OBVIOUS
  <2>2. sub[x] \in Plan /\ EditedWith(sub[x], sub'[x], request) /\ OnlyRow(x)
    BY <1>1, <1>5, <2>1, EditRow
  <2>3. PICK anchor : anchor = IF request.date = sub[x].next
                               THEN sub[x].anchor ELSE request.date.day
    OBVIOUS
  <2>4. s = x /\ sub'[x].next = request.date /\ sub'[x].anchor = anchor
    BY <2>2, <2>3, WrittenRows DEF EditedWith, OnlyRow
  <2>5. request.date # sub[s].next /\ sub'[s].anchor = request.date.day
    BY <2>3, <2>4
  <2>6. run[w].request.action = "EDIT"
    BY <1>5 DEF Edit, Mutating
  <2>. QED
    BY <1>3, <2>1, <2>4, <2>5, <2>6 DEF MovesAnchor
<1>. QED
  BY <1>2, <1>4, <1>5

(* No step of a catch-up changes an anchor, the one that clamps a date      *)
(* included.                                                                *)
LEMMA CatchupKeepsAnchor ==
  ASSUME IInv, NEW w \in Workers, Catchup(w), NEW s \in SubIds, sub[s] # NoPlan
  PROVE  sub'[s].anchor = sub[s].anchor
<1>1. CASE Generate(w) /\ Guard(run[w].plan)
  <2>1. PICK x : x = run[w].plan.id
    OBVIOUS
  <2>2. sub[x] \in Plan /\ Charged(sub[x], sub'[x]) /\ OnlyRow(x)
    BY <1>1, <2>1, GenerateRow
  <2>3. sub'[x].anchor = sub[x].anchor
    BY <2>2, WrittenRows DEF Charged
  <2>. QED
    BY <2>2, <2>3 DEF OnlyRow
<1>2. CASE Generate(w) /\ ~Guard(run[w].plan)
  BY <1>2 DEF Generate
<1>3. CASE Close(w)
  <2>1. \/ sub'[s] = sub[s]
        \/ sub[s] \in Plan /\ \E day \in Date : ClosedOn(sub[s], sub'[s], day)
    BY <1>3, CloseRows
  <2>. QED
    BY <2>1, WrittenRows DEF ClosedOn
<1>. QED
  BY <1>1, <1>2, <1>3 DEF Catchup, Select, Refind, GenerateAborted

(* The dates of a plan stay on its anchor, and no step moves an anchor but  *)
(* the answer to a request that resumes the plan or edits its date: a       *)
(* catch-up that clamps a date to a short month does not.                   *)
THEOREM AnchorsRetained == Spec => AnchorRetained
<1>1. IInv /\ History /\ [Next]_vars =>
        \A s \in SubIds : sub[s] # NoPlan =>
          /\ sub[s].next = Clamped(sub[s].next.month, sub[s].anchor)
          /\ sub'[s].anchor # sub[s].anchor => MovesAnchor(s)
  <2>. SUFFICES ASSUME IInv, History, [Next]_vars, NEW s \in SubIds, sub[s] # NoPlan
                PROVE  /\ sub[s].next = Clamped(sub[s].next.month, sub[s].anchor)
                       /\ sub'[s].anchor # sub[s].anchor => MovesAnchor(s)
    OBVIOUS
  <2>1. sub[s].next = Clamped(sub[s].next.month, sub[s].anchor)
    BY DEF History, AnchorsKept
  <2>2. CASE UNCHANGED vars \/ Tick \/ Owner
    BY <2>1, <2>2 DEF vars, Tick, Owner, DeleteCharge, EditCharge
  <2>3. ASSUME NEW w \in Workers, Catchup(w) PROVE sub'[s].anchor = sub[s].anchor
    BY <2>3, CatchupKeepsAnchor
  <2>4. ASSUME NEW w \in CronJobs, Cron(w) PROVE sub'[s].anchor = sub[s].anchor
    BY <2>3, <2>4 DEF Cron, StartCron, Workers
  <2>5. ASSUME NEW w \in Requests, Request(w) PROVE sub'[s].anchor = sub[s].anchor
    <3>1. PICK x \in SubIds, d \in Date, amount \in Amounts :
             \/ Create(w, x, d, amount)
             \/ \E action \in Mutations :
                   ReadForMutation(w, x, [action |-> action, date |-> d, amount |-> amount,
                                          version |-> sub[x].version])
      BY <2>5 DEF Request
    <3>2. CASE Create(w, x, d, amount)
      BY <3>2, CreateRow DEF OnlyRow, Workers
    <3>. QED
      BY <3>1, <3>2 DEF ReadForMutation
  <2>6. ASSUME NEW w \in Requests, Handling(w), sub'[s].anchor # sub[s].anchor
        PROVE  MovesAnchor(s)
    <3>1. CASE Catchup(w)
      BY <2>3, <2>6, <3>1 DEF Workers
    <3>2. CASE Cancel(w) \/ Resume(w) \/ Edit(w)
      BY <2>6, <3>2, MutationMovesAnchor
    <3>. QED
      BY <2>6, <3>1, <3>2 DEF Handling, Conflict
  <2>. QED
    BY <2>1, <2>2, <2>4, <2>5, <2>6 DEF Next
<1>. QED
  BY <1>1, HistoryKept, PTL DEF Spec, AnchorRetained

-----------------------------------------------------------------------------
(* The terms of a charge.                                                   *)

(* A step that posts nothing and keeps the amounts, or leaves the plans     *)
(* alone, is about no terms.                                                *)
LEMMA NothingPosted ==
  ASSUME IInv,
         DOMAIN occ' = DOMAIN occ, DOMAIN tx' = DOMAIN tx,
         \A slot \in DOMAIN occ : occ'[slot].tx = occ[slot].tx,
         \A i \in DOMAIN tx : /\ tx'[i].status = "POSTED" => tx[i].status = "POSTED"
                              /\ sub' # sub => tx'[i].amount = tx[i].amount
  PROVE  CarriesPlanTerms
  BY ChargeTable DEF CarriesPlanTerms

(* The batch posts the terms the plan has when it runs: it inserts with the *)
(* amount of the row, and posts a removed charge again with the amount of a *)
(* snapshot of the same version.                                            *)
LEMMA BatchCarriesTerms ==
  ASSUME IInv, RunsRemember, NEW w \in Workers, Generate(w)
  PROVE  CarriesPlanTerms
<1>1. PICK p : p = run[w].plan
  OBVIOUS
<1>2. /\ p \in Plan /\ sub[p.id] \in Plan /\ sub[p.id].id = p.id
      /\ IsSnapshot(p, sub)
  BY <1>1 DEF Generate, IInv, TypeOK, RowIds, RunsHoldRows, HoldsRows, Plan,
              RunsRemember, Remembers
<1>3. CASE ~Guard(p)
  <2>1. occ' = occ /\ tx' = tx
    BY <1>1, <1>3 DEF Generate, TxAfterBatch, InsertsCharge, RepostsCharge, OccAfterBatch
  <2>. QED
    BY <2>1, NothingPosted
<1>4. CASE Guard(p)
  <2>1. p = sub[p.id]
    BY <1>2, <1>4 DEF Guard, IsSnapshot
  <2>2. /\ DOMAIN occ' = DOMAIN occ \cup {<<p.id, p.next>>}
        /\ occ'[<<p.id, p.next>>].tx = ChargeOf(p)
        /\ \A slot \in DOMAIN occ : slot # <<p.id, p.next>> => occ'[slot] = occ[slot]
    BY <1>1, <1>4 DEF Generate, OccAfterBatch
  <2>3. \A slot \in DOMAIN occ : slot # <<p.id, p.next>> =>
               /\ occ[slot].tx \in DOMAIN tx
               /\ tx'[occ[slot].tx] = tx[occ[slot].tx]
    BY <1>1, <1>2, <1>4, <2>2, BatchKeepsCharges DEF Generate
  <2>4. PICK i : i = ChargeOf(p)
    OBVIOUS
  <2>. SUFFICES \/ /\ i \notin DOMAIN tx
                   /\ tx'[i].amount = sub[p.id].amount
                \/ /\ i \in DOMAIN tx
                   /\ \/ tx'[i] = tx[i]
                      \/ tx[i].status = "REMOVED" /\ tx'[i].amount = sub[p.id].amount
    <3>1. ASSUME NEW slot \in DOMAIN occ', slot # <<p.id, p.next>>
          PROVE  /\ occ'[slot].tx \in DOMAIN tx
                 /\ tx'[occ'[slot].tx] = tx[occ'[slot].tx]
      BY <2>2, <2>3, <3>1
    <3>2. <<p.id, p.next>>[1] = p.id
      OBVIOUS
    <3>. QED
      BY <2>2, <2>4, <3>1, <3>2 DEF CarriesPlanTerms
  <2>5. CASE <<p.id, p.next>> \notin DOMAIN occ
    <3>1. i = Len(tx) + 1 /\ tx' = Append(tx, Posted(sub[p.id].amount))
      BY <1>1, <1>4, <2>4, <2>5 DEF Generate, ChargeOf, Recorded, TxAfterBatch, InsertsCharge
    <3>2. i \notin DOMAIN tx /\ tx'[i] = Posted(sub[p.id].amount)
      <4>1. PICK c : c = Posted(sub[p.id].amount)
        OBVIOUS
      <4>2. c \in Charge
        BY <1>2, <4>1 DEF Posted, Charge, Plan
      <4>3. tx \in Seq(Charge) /\ Len(tx) \in Nat /\ DOMAIN tx = 1..Len(tx)
        BY ChargeTable DEF IInv, TypeOK
      <4>4. Append(tx, c)[Len(tx) + 1] = c /\ Len(tx) + 1 \notin 1..Len(tx)
        BY <4>2, <4>3
      <4>. QED
        BY <3>1, <4>1, <4>3, <4>4
    <3>. QED
      BY <3>2 DEF Posted
  <2>6. CASE <<p.id, p.next>> \in DOMAIN occ
    <3>1. i = occ[p.id, p.next].tx /\ i \in DOMAIN tx
      BY <2>4, <2>6, ChargeTable DEF ChargeOf, Recorded
    <3>2. \/ tx' = [tx EXCEPT ![i] = Posted(sub[p.id].amount)] /\ tx[i].status = "REMOVED"
          \/ tx' = tx
      BY <1>1, <2>1, <2>4, <2>6, <3>1
         DEF Generate, TxAfterBatch, InsertsCharge, RepostsCharge, Recorded
    <3>3. Posted(sub[p.id].amount).amount = sub[p.id].amount
      BY DEF Posted
    <3>4. \/ tx'[i] = Posted(sub[p.id].amount) /\ tx[i].status = "REMOVED"
          \/ tx'[i] = tx[i]
      BY <3>1, <3>2
    <3>. QED
      BY <3>1, <3>3, <3>4
  <2>. QED
    BY <2>5, <2>6
<1>. QED
  BY <1>3, <1>4

LEMMA StepCarriesTerms ==
  ASSUME IInv, History, [Next]_vars
  PROVE  CarriesPlanTerms
<1>1. CASE occ' = occ /\ tx' = tx
  BY <1>1, NothingPosted
<1>2. ASSUME NEW w \in Workers, Generate(w) PROVE CarriesPlanTerms
  BY <1>2, BatchCarriesTerms DEF History
<1>3. ASSUME NEW w \in Workers, Cancel(w) PROVE CarriesPlanTerms
  <2>1. PICK gone \in SUBSET DOMAIN occ : gone = CutSlots(run[w].only, run[w].request.date)
    BY DEF CutSlots
  <2>2. /\ tx' = [i \in DOMAIN tx |->
                    IF i \in {occ[slot].tx : slot \in gone}
                    THEN [tx[i] EXCEPT !.status = "REMOVED"] ELSE tx[i]]
        /\ occ' = [slot \in DOMAIN occ |->
                    IF slot \in gone THEN [occ[slot] EXCEPT !.status = "NOT_CHARGED"]
                                     ELSE occ[slot]]
    BY <1>3, <2>1 DEF Cancel
  <2>3. /\ DOMAIN tx' = DOMAIN tx
        /\ \A i \in DOMAIN tx : /\ tx'[i].status \in {tx[i].status, "REMOVED"}
                                /\ tx'[i].amount = tx[i].amount
    BY <2>2, ChargeTable DEF Charge
  <2>4. /\ DOMAIN occ' = DOMAIN occ
        /\ \A slot \in DOMAIN occ : occ'[slot].tx = occ[slot].tx
    BY <2>2, ChargeTable DEF Occurrence
  <2>. QED
    BY <2>3, <2>4, NothingPosted
<1>4. ASSUME NEW i \in DOMAIN tx, DeleteCharge(i) PROVE CarriesPlanTerms
  <2>1. /\ DOMAIN occ' = DOMAIN occ
        /\ \A slot \in DOMAIN occ : occ'[slot].tx = occ[slot].tx
    BY <1>4, ChargeTable DEF DeleteCharge, Occurrence
  <2>2. /\ DOMAIN tx' = DOMAIN tx /\ sub' = sub
        /\ \A j \in DOMAIN tx : tx'[j].status \in {tx[j].status, "REMOVED"}
    BY <1>4, ChargeTable DEF DeleteCharge, Charge
  <2>. QED
    BY <2>1, <2>2, NothingPosted
<1>5. ASSUME NEW i \in DOMAIN tx, NEW amount \in Amounts, NEW asScheduled \in BOOLEAN,
             EditCharge(i, amount, asScheduled)
      PROVE  CarriesPlanTerms
  <2>1. /\ DOMAIN tx' = DOMAIN tx /\ sub' = sub /\ occ' = occ
        /\ \A j \in DOMAIN tx : tx'[j].status = tx[j].status
    BY <1>5, ChargeTable DEF EditCharge, Charge
  <2>. QED
    BY <2>1, NothingPosted
<1>6. CASE Owner
  BY <1>4, <1>5, <1>6, SubscriptionAssumption DEF Owner
<1>7. CASE Tick \/ UNCHANGED vars
  BY <1>1, <1>7 DEF Tick, vars
<1>8. ASSUME NEW w \in Workers, Catchup(w) PROVE CarriesPlanTerms
  BY <1>1, <1>2, <1>8 DEF Catchup, Select, GenerateAborted, Refind, Close
<1>9. ASSUME NEW w \in CronJobs, Cron(w) PROVE CarriesPlanTerms
  BY <1>1, <1>8, <1>9 DEF Cron, StartCron, Workers
<1>10. ASSUME NEW w \in Requests, Handling(w) PROVE CarriesPlanTerms
  BY <1>1, <1>3, <1>8, <1>10 DEF Handling, Resume, Edit, Conflict, Workers
<1>11. ASSUME NEW w \in Requests, Request(w) PROVE CarriesPlanTerms
  BY <1>1, <1>11 DEF Request, Create, ReadForMutation
<1>. QED
  BY <1>6, <1>7, <1>9, <1>10, <1>11 DEF Next

(* A step that posts a charge posts the terms the plan has at that step,    *)
(* although it was read awaits before, and no change of a plan alters the   *)
(* amount of a charge posted earlier.                                       *)
THEOREM TermsCarried == Spec => [][CarriesPlanTerms]_vars
<1>1. IInv /\ History /\ [Next]_vars => CarriesPlanTerms
  BY StepCarriesTerms
<1>. QED
  BY <1>1, HistoryKept, PTL DEF Spec

-----------------------------------------------------------------------------
(* The refinement of ChargeSchedule.                                        *)

(* The refinement mapping, as it stands in the instance Schedule. *)
Cursor == [s \in SubIds |-> IF sub[s] = NoPlan THEN NoDate ELSE sub[s].next]
Cutoff == [s \in SubIds |-> IF sub[s] = NoPlan THEN NoDate ELSE sub[s].cancel]
SlotState(x) == IF x \notin DOMAIN occ THEN "empty"
                ELSE IF tx[occ[x].tx].status = "POSTED" THEN "posted" ELSE "removed"
Slots == [x \in Slot |-> SlotState(x)]

(* Both modules take their calendar from LedgerCalendar. *)
LEMMA SameCalendar ==
  /\ Schedule!Date = Date
  /\ \A d, e : /\ Schedule!Before(d, e) <=> Before(d, e)
              /\ Schedule!NotAfter(d, e) <=> NotAfter(d, e)
  /\ \A d, a : Schedule!NextDate(d, a, "MONTHLY") = NextDate(d, a, "MONTHLY")
  BY DEF Schedule!Date, Date, Schedule!Month, Month, Schedule!Before, Before,
         Schedule!NotAfter, NotAfter, Schedule!NextDate, NextDate,
         Schedule!Clamped, Clamped, Schedule!MonthsIn, MonthsIn

(* The state and the steps of the schedule, in the terms of the mapping. *)
LEMMA ScheduleInit ==
  Schedule!Init <=> /\ today = FirstDate
                    /\ Cursor = [s \in SubIds |-> NoDate]
                    /\ Cutoff = [s \in SubIds |-> NoDate]
                    /\ Slots = [x \in Slot |-> "empty"]
<1>1. SubIds \X Schedule!Date = Slot
  BY SameCalendar DEF Slot
<1>. QED
  BY <1>1 DEF Schedule!Init, Cursor, Cutoff, Slots, SlotState, FirstDate

LEMMA ScheduleTick ==
  Schedule!Tick <=> /\ today' \in Date
                    /\ Before(today, today')
                    /\ UNCHANGED <<Cursor, Cutoff, Slots>>
<1>1. Schedule!Before(today, today') <=> Before(today, today')
  BY DEF Schedule!Before, Before
<1>. QED
  BY <1>1, SameCalendar DEF Schedule!Tick, Cursor, Cutoff, Slots, SlotState

LEMMA ScheduleStutter ==
  UNCHANGED Schedule!vars <=> UNCHANGED <<today, Cursor, Cutoff, Slots>>
  BY DEF Schedule!vars, Cursor, Cutoff, Slots, SlotState

LEMMA ScheduleCharge ==
  ASSUME NEW s, NEW anchor \in 1..31,
         Cursor[s] # NoDate,
         NotAfter(Cursor[s], today),
         Cutoff[s] # NoDate => Before(Cursor[s], Cutoff[s]),
         Slots' = [Slots EXCEPT ![<<s, Cursor[s]>>] = "posted"],
         Cursor' = [Cursor EXCEPT ![s] = NextDate(Cursor[s], anchor, "MONTHLY")],
         UNCHANGED <<today, Cutoff>>
  PROVE  Schedule!Charge(s)
<1>1. Schedule!NotAfter(Cursor[s], today)
  BY DEF Schedule!NotAfter, NotAfter, Schedule!Before, Before
<1>2. Cutoff[s] # NoDate => Schedule!Before(Cursor[s], Cutoff[s])
  BY DEF Schedule!Before, Before
<1>3. Cursor' = [Cursor EXCEPT ![s] = Schedule!NextDate(Cursor[s], anchor, "MONTHLY")]
  BY SameCalendar
<1>. QED
  BY <1>1, <1>2, <1>3 DEF Schedule!Charge, Cursor, Cutoff, Slots, SlotState

LEMMA ScheduleStart ==
  ASSUME NEW s, NEW d,
         Cursor[s] = NoDate,
         Cursor' = [Cursor EXCEPT ![s] = d],
         UNCHANGED <<today, Cutoff, Slots>>
  PROVE  Schedule!Start(s, d)
  BY DEF Schedule!Start, Cursor, Cutoff, Slots, SlotState

LEMMA ScheduleSetCutoff ==
  ASSUME NEW s, NEW d,
         Cursor[s] # NoDate,
         Cutoff' = [Cutoff EXCEPT ![s] = d],
         Slots' = [x \in Slot |-> IF x[1] = s /\ NotAfter(d, x[2]) /\ Slots[x] = "posted"
                                  THEN "removed" ELSE Slots[x]],
         UNCHANGED <<today, Cursor>>
  PROVE  Schedule!SetCutoff(s, d)
<1>1. \A e : Schedule!NotAfter(d, e) <=> NotAfter(d, e)
  BY DEF Schedule!NotAfter, NotAfter, Schedule!Before, Before
<1>2. DOMAIN Slots = Slot
  BY DEF Slots
<1>3. Slots' = [x \in DOMAIN Slots |->
                 IF x[1] = s /\ Schedule!NotAfter(d, x[2]) /\ Slots[x] = "posted"
                 THEN "removed" ELSE Slots[x]]
  BY <1>1, <1>2
<1>. QED
  BY <1>3 DEF Schedule!SetCutoff, Cursor, Cutoff, Slots, SlotState

LEMMA ScheduleRestart ==
  ASSUME NEW s, NEW d,
         Cutoff[s] # NoDate,
         Cursor' = [Cursor EXCEPT ![s] = d],
         Cutoff' = [Cutoff EXCEPT ![s] = NoDate],
         UNCHANGED <<today, Slots>>
  PROVE  Schedule!Restart(s, d)
  BY DEF Schedule!Restart, Cursor, Cutoff, Slots, SlotState

LEMMA SchedulePostpone ==
  ASSUME NEW s, NEW d,
         Cursor[s] # NoDate,
         Before(Cursor[s], d),
         Cursor' = [Cursor EXCEPT ![s] = d],
         UNCHANGED <<today, Cutoff, Slots>>
  PROVE  Schedule!Postpone(s, d)
<1>1. Schedule!Before(Cursor[s], d)
  BY DEF Schedule!Before, Before
<1>. QED
  BY <1>1 DEF Schedule!Postpone, Cursor, Cutoff, Slots, SlotState

LEMMA ScheduleRemove ==
  ASSUME NEW x,
         Slots[x] = "posted",
         Slots' = [Slots EXCEPT ![x] = "removed"],
         UNCHANGED <<today, Cursor, Cutoff>>
  PROVE  Schedule!Remove(x)
  BY DEF Schedule!Remove, Cursor, Cutoff, Slots, SlotState

(* The mapped state after a step that writes one row, or the charge tables. *)
LEMMA MappedRow ==
  ASSUME NEW s \in SubIds, OnlyRow(s), sub'[s] # NoPlan
  PROVE  /\ Cursor' = [Cursor EXCEPT ![s] = sub'[s].next]
         /\ Cutoff' = [Cutoff EXCEPT ![s] = sub'[s].cancel]
         /\ sub[s] # NoPlan => Cursor[s] = sub[s].next /\ Cutoff[s] = sub[s].cancel
         /\ sub[s] = NoPlan => Cursor[s] = NoDate /\ Cutoff[s] = NoDate
  BY DEF OnlyRow, Cursor, Cutoff

LEMMA MappedSame ==
  ASSUME NEW s \in SubIds
  PROVE  /\ Cursor = [Cursor EXCEPT ![s] = Cursor[s]]
         /\ Cutoff = [Cutoff EXCEPT ![s] = Cutoff[s]]
  BY DEF Cursor, Cutoff

LEMMA SlotsUntouched ==
  ASSUME occ' = occ, tx' = tx
  PROVE  Slots' = Slots
  BY DEF Slots, SlotState

Maps == Schedule!Next \/ UNCHANGED Schedule!vars

(* A step that writes neither plan nor charge is a step of nobody. *)
LEMMA StutterMaps ==
  ASSUME today' = today, sub' = sub, occ' = occ, tx' = tx PROVE Maps
  BY SlotsUntouched, ScheduleStutter DEF Maps, Cursor, Cutoff

LEMMA TickMaps == ASSUME IInv, Tick PROVE Maps
<1>1. today' \in Date /\ Before(today, today')
  BY TomorrowIsLater DEF Tick, IInv, TypeOK, ClockInRange
<1>2. UNCHANGED <<Cursor, Cutoff, Slots>>
  BY SlotsUntouched DEF Tick, Cursor, Cutoff
<1>. QED
  BY <1>1, <1>2, ScheduleTick DEF Maps, Schedule!Next

LEMMA CreateMaps ==
  ASSUME IInv, NEW w \in Workers, NEW s \in SubIds, NEW d \in Date, NEW amount \in Amounts,
         Create(w, s, d, amount)
  PROVE  Maps
<1>1. CASE sub' = sub
  BY <1>1, StutterMaps DEF Create
<1>2. CASE /\ sub[s] = NoPlan /\ OnlyRow(s)
           /\ sub'[s] = [id |-> s, status |-> "ACTIVE", next |-> d, anchor |-> d.day,
                         cancel |-> NoDate, amount |-> amount, version |-> 1]
  <2>1. sub'[s] \in Plan /\ sub'[s].next = d /\ sub'[s].cancel = NoDate
    BY <1>2, DateParts DEF Plan
  <2>2. sub'[s] # NoPlan
    BY <2>1, RowAssumption
  <2>3. /\ Cursor[s] = NoDate /\ Cursor' = [Cursor EXCEPT ![s] = d]
        /\ Cutoff' = Cutoff
    BY <1>2, <2>1, <2>2, MappedRow, MappedSame
  <2>4. Schedule!Start(s, d)
    BY <2>3, ScheduleStart, SlotsUntouched DEF Create
  <2>. QED
    BY <2>4, SameCalendar DEF Maps, Schedule!Next
<1>. QED
  BY <1>1, <1>2, CreateRow

LEMMA CancelMaps == ASSUME IInv, NEW w \in Workers, Cancel(w) PROVE Maps
<1>1. PICK s, d : s = run[w].only /\ d = run[w].request.date
  OBVIOUS
<1>2. /\ s \in SubIds /\ d \in Date /\ sub[s] \in Plan
      /\ CancelledAt(sub[s], sub'[s], d) /\ OnlyRow(s)
  BY <1>1, CancelRow
<1>3. sub'[s].next = sub[s].next /\ sub'[s].cancel = d
  BY <1>2, WrittenRows DEF CancelledAt
<1>4. sub[s] # NoPlan /\ sub'[s] # NoPlan /\ sub[s].next # NoDate
  BY <1>2, RowAssumption, SubscriptionAssumption, RowsStayRows DEF CancelledAt, Plan
<1>5. /\ Cursor[s] # NoDate /\ Cursor' = Cursor
      /\ Cutoff' = [Cutoff EXCEPT ![s] = d]
  BY <1>2, <1>3, <1>4, MappedRow, MappedSame
<1>6. PICK gone \in SUBSET DOMAIN occ : gone = CutSlots(s, d)
  BY DEF CutSlots
<1>7. /\ DOMAIN occ' = DOMAIN occ
      /\ \A x \in DOMAIN occ :
            /\ x \in gone => tx'[occ'[x].tx].status = "REMOVED"
            /\ x \notin gone => tx'[occ'[x].tx] = tx[occ[x].tx]
  BY <1>1, <1>6, ChargesRemoved DEF Cancel
<1>8. Slots' = [x \in Slot |-> IF x[1] = s /\ NotAfter(d, x[2]) /\ Slots[x] = "posted"
                               THEN "removed" ELSE Slots[x]]
  <2>1. ASSUME NEW x \in Slot
        PROVE  SlotState(x)' = IF x[1] = s /\ NotAfter(d, x[2]) /\ SlotState(x) = "posted"
                               THEN "removed" ELSE SlotState(x)
    BY <1>6, <1>7 DEF SlotState, CutSlots
  <2>. QED
    BY <2>1 DEF Slots
<1>9. Schedule!SetCutoff(s, d)
  BY <1>5, <1>8, ScheduleSetCutoff DEF Cancel
<1>. QED
  BY <1>2, <1>9, SameCalendar DEF Maps, Schedule!Next

LEMMA ResumeMaps ==
  ASSUME IInv, History, NEW w \in Workers, Resume(w) PROVE Maps
<1>1. PICK s, d : s = run[w].only /\ d = run[w].request.date
  OBVIOUS
<1>2. /\ s \in SubIds /\ d \in Date /\ sub[s] \in Plan
      /\ ResumedAt(sub[s], sub'[s], d) /\ OnlyRow(s)
  BY <1>1, ResumeRow DEF History
<1>3. sub[s].cancel # NoDate /\ sub'[s].next = d /\ sub'[s].cancel = NoDate
  BY <1>2, WrittenRows DEF ResumedAt
<1>4. sub[s] # NoPlan /\ sub'[s] # NoPlan
  BY <1>2, RowAssumption, RowsStayRows DEF ResumedAt
<1>5. /\ Cutoff[s] # NoDate
      /\ Cursor' = [Cursor EXCEPT ![s] = d]
      /\ Cutoff' = [Cutoff EXCEPT ![s] = NoDate]
  BY <1>2, <1>3, <1>4, MappedRow
<1>6. Schedule!Restart(s, d)
  BY <1>5, ScheduleRestart, SlotsUntouched DEF Resume
<1>. QED
  BY <1>2, <1>6, SameCalendar DEF Maps, Schedule!Next

LEMMA EditMaps ==
  ASSUME IInv, History, NEW w \in Workers, Edit(w) PROVE Maps
<1>1. PICK s, request : s = run[w].only /\ request = run[w].request
  OBVIOUS
<1>2. /\ s \in SubIds /\ request \in Mutation /\ sub[s] \in Plan
      /\ EditedWith(sub[s], sub'[s], request) /\ OnlyRow(s)
  BY <1>1, EditRow DEF History
<1>3. PICK d \in Date : d = request.date
  BY <1>2 DEF Mutation
<1>4. /\ sub'[s].next = d /\ sub'[s].cancel = sub[s].cancel /\ ~Before(d, sub[s].next)
  BY <1>2, <1>3, WrittenRows DEF EditedWith
<1>5. sub[s] # NoPlan /\ sub'[s] # NoPlan /\ sub[s].next \in Date /\ sub[s].next # NoDate
  <2>1. sub'[s] \in Plan
    <3>1. PICK a : a = IF request.date = sub[s].next THEN sub[s].anchor ELSE request.date.day
      OBVIOUS
    <3>2. a \in 1..31
      BY <1>2, <1>3, <3>1, DateParts DEF Plan
    <3>. QED
      BY <1>2, <3>1, <3>2, RowsStayRows DEF EditedWith
  <2>. QED
    BY <1>2, <2>1, RowAssumption, SubscriptionAssumption DEF Plan
<1>6. /\ Cursor[s] = sub[s].next
      /\ Cursor' = [Cursor EXCEPT ![s] = d]
      /\ Cutoff' = Cutoff
  BY <1>2, <1>4, <1>5, MappedRow, MappedSame
<1>7. Slots' = Slots /\ today' = today
  BY SlotsUntouched DEF Edit
<1>8. CASE d = sub[s].next
  <2>1. Cursor' = Cursor
    BY <1>2, <1>6, <1>8, MappedSame
  <2>. QED
    BY <1>6, <1>7, <2>1, ScheduleStutter DEF Maps
<1>9. CASE d # sub[s].next
  <2>1. Before(sub[s].next, d)
    BY <1>4, <1>5, <1>9, DatesAreOrdered DEF NotAfter
  <2>2. Schedule!Postpone(s, d)
    BY <1>5, <1>6, <1>7, <2>1, SchedulePostpone
  <2>. QED
    BY <1>2, <2>2, SameCalendar DEF Maps, Schedule!Next
<1>. QED
  BY <1>8, <1>9

LEMMA GenerateMaps ==
  ASSUME IInv, IInv', NEW w \in Workers, Generate(w) PROVE Maps
<1>1. CASE ~Guard(run[w].plan)
  BY <1>1, StutterMaps
     DEF Generate, TxAfterBatch, InsertsCharge, RepostsCharge, OccAfterBatch
<1>2. CASE Guard(run[w].plan)
  <2>1. PICK p, s : p = run[w].plan /\ s = p.id
    OBVIOUS
  <2>2. /\ p \in Plan /\ s \in SubIds /\ sub[s] \in Plan /\ sub[s].id = s
        /\ Charged(sub[s], sub'[s]) /\ OnlyRow(s) /\ sub[s].next = p.next
    BY <1>2, <2>1, GenerateRow
       DEF Generate, IInv, RunsHoldRows, HoldsRows, RowIds, Plan, Guard, TypeOK
  <2>3. PICK d \in Date : d = sub[s].next
    BY <2>2 DEF Plan
  <2>4. PICK anchor \in 1..31 : anchor = sub[s].anchor
    BY <2>2 DEF Plan
  <2>5. /\ sub'[s].next = NextDate(d, anchor, "MONTHLY")
        /\ sub'[s].cancel = sub[s].cancel
        /\ IsDue(sub[s], today)
    BY <2>2, <2>3, <2>4, WrittenRows DEF Charged
  <2>6. sub[s] # NoPlan /\ sub'[s] # NoPlan /\ d # NoDate
    <3>1. sub'[s].version = sub[s].version + 1 /\ sub[s].version \in Nat
      BY <2>2, WrittenRows DEF Charged, Plan
    <3>2. \A x \in SubIds : sub[x] # NoPlan => sub'[x] # NoPlan
      <4>1. sub' = [sub EXCEPT ![s] = Advanced(sub[s])]
        BY <1>2, <2>1 DEF Generate
      <4>2. d.month < LastMonth
        BY <2>3, <2>5, MonthAfter DEF IsDue, IInv, TypeOK, ClockInRange
      <4>3. Advanced(sub[s]) \in Plan
        BY <2>2, <2>3, <4>2, AdvancedRow
      <4>. QED
        BY <2>2, <4>1, <4>3, RowAssumption DEF IInv, TypeOK
    <3>. QED
      BY <2>2, <2>3, <3>2, RowAssumption, SubscriptionAssumption
  <2>7. /\ Cursor[s] = d
        /\ Cursor' = [Cursor EXCEPT ![s] = NextDate(d, anchor, "MONTHLY")]
        /\ Cutoff[s] = sub[s].cancel
        /\ Cutoff' = Cutoff
    BY <2>2, <2>3, <2>5, <2>6, MappedRow, MappedSame
  <2>8. NotAfter(d, today) /\ (sub[s].cancel # NoDate => Before(d, sub[s].cancel))
    <3>1. sub[s].cancel \in Date \cup {NoDate}
      BY <2>2 DEF Plan
    <3>. QED
      BY <2>3, <2>5, <3>1, DatesAreOrdered DEF IsDue, CutOff
  <2>9. Slots' = [Slots EXCEPT ![<<s, d>>] = "posted"]
    <3>1. /\ DOMAIN occ' = DOMAIN occ \cup {<<s, d>>}
          /\ \A x \in DOMAIN occ : x # <<s, d>> => tx'[occ'[x].tx] = tx[occ[x].tx]
          /\ ChargesMatchOccurrences'
      BY <1>2, <2>1, <2>2, <2>3, BatchKeepsCharges DEF Generate
    <3>2. occ'[<<s, d>>].status = "GENERATED"
      BY <1>2, <2>1, <2>2, <2>3 DEF Generate, OccAfterBatch
    <3>3. tx'[occ'[<<s, d>>].tx].status = "POSTED"
      BY <3>1, <3>2 DEF ChargesMatchOccurrences
    <3>4. ASSUME NEW x \in Slot
          PROVE  SlotState(x)' = IF x = <<s, d>> THEN "posted" ELSE SlotState(x)
      BY <3>1, <3>3 DEF SlotState
    <3>. QED
      BY <3>4 DEF Slots
  <2>10. Schedule!Charge(s)
    BY <2>6, <2>7, <2>8, <2>9, ScheduleCharge DEF Generate
  <2>. QED
    BY <2>2, <2>10 DEF Maps, Schedule!Next
<1>. QED
  BY <1>1, <1>2

(* Closing a plan moves neither its cursor nor its cutoff. *)
LEMMA CloseMaps == ASSUME IInv, NEW w \in Workers, Close(w) PROVE Maps
<1>1. ASSUME NEW s \in SubIds
      PROVE  /\ sub'[s] = NoPlan <=> sub[s] = NoPlan
             /\ sub[s] # NoPlan => sub'[s].next = sub[s].next /\ sub'[s].cancel = sub[s].cancel
  <2>1. CASE sub'[s] = sub[s]
    BY <2>1
  <2>2. ASSUME sub[s] \in Plan, NEW day \in Date, ClosedOn(sub[s], sub'[s], day)
        PROVE  /\ sub[s] # NoPlan /\ sub'[s] # NoPlan
               /\ sub'[s].next = sub[s].next /\ sub'[s].cancel = sub[s].cancel
    <3>1. PICK row \in Plan : row = sub[s]
      BY <2>2
    <3>2. sub'[s] = Closed(row)
      BY <2>2, <3>1 DEF ClosedOn
    <3>3. Closed(row) \in Plan /\ Closed(row).next = row.next /\ Closed(row).cancel = row.cancel
      BY WrittenRows, RowsStayRows
    <3>. QED
      BY <3>1, <3>2, <3>3, RowAssumption
  <2>. QED
    BY <2>1, <2>2, CloseRows
<1>2. Cursor' = Cursor /\ Cutoff' = Cutoff
  BY <1>1 DEF Cursor, Cutoff
<1>. QED
  BY <1>2, SlotsUntouched, ScheduleStutter DEF Close, Maps

LEMMA DeleteChargeMaps == ASSUME IInv, NEW i \in DOMAIN tx, DeleteCharge(i) PROVE Maps
<1>1. PICK x \in DOMAIN occ : occ[x].tx = i
  BY DEF IInv, ChargesMatchOccurrences
<1>2. /\ DOMAIN occ' = DOMAIN occ /\ DOMAIN tx' = DOMAIN tx
      /\ \A y \in DOMAIN occ : occ'[y].tx = occ[y].tx
      /\ \A j \in DOMAIN tx : j # i => tx'[j] = tx[j]
      /\ tx[i].status = "POSTED" /\ tx'[i].status = "REMOVED"
  BY ChargeTable DEF DeleteCharge, Occurrence, Charge
<1>3. \A y \in DOMAIN occ : occ[y].tx \in DOMAIN tx /\ (y # x => occ[y].tx # i)
  BY <1>1, ChargeTable DEF IInv, ChargesMatchOccurrences
<1>4. x \in Slot /\ Slots[x] = "posted"
  BY <1>1, <1>2, ChargeTable DEF Slots, SlotState
<1>5. Slots' = [Slots EXCEPT ![x] = "removed"]
  <2>1. ASSUME NEW y \in Slot
        PROVE  SlotState(y)' = IF y = x THEN "removed" ELSE SlotState(y)
    BY <1>1, <1>2, <1>3 DEF SlotState
  <2>. QED
    BY <2>1 DEF Slots
<1>6. Schedule!Remove(x)
  BY <1>4, <1>5, ScheduleRemove DEF DeleteCharge, Cursor, Cutoff
<1>7. DOMAIN Slots = Slot
  BY DEF Slots
<1>8. Schedule!Next
  BY <1>4, <1>6, <1>7 DEF Schedule!Next, Slots, SlotState
<1>. QED
  BY <1>8 DEF Maps

LEMMA EditChargeMaps ==
  ASSUME IInv, NEW i \in DOMAIN tx, NEW amount \in Amounts, NEW asScheduled \in BOOLEAN,
         EditCharge(i, amount, asScheduled)
  PROVE  Maps
<1>1. /\ occ' = occ
      /\ \A j \in DOMAIN tx : tx'[j].status = tx[j].status
  BY ChargeTable DEF EditCharge, Charge
<1>2. Slots' = Slots
  BY <1>1, ChargeTable DEF Slots, SlotState
<1>. QED
  BY <1>2, ScheduleStutter DEF EditCharge, Maps, Cursor, Cutoff

LEMMA StepMaps ==
  ASSUME IInv, IInv', History, [Next]_vars
  PROVE  [Schedule!Next]_Schedule!vars
<1>. SUFFICES Maps
  BY DEF Maps
<1>1. CASE today' = today /\ sub' = sub /\ occ' = occ /\ tx' = tx
  BY <1>1, StutterMaps
<1>2. ASSUME NEW w \in Workers, Catchup(w) PROVE Maps
  BY <1>1, <1>2, GenerateMaps, CloseMaps DEF Catchup, Select, GenerateAborted, Refind
<1>3. ASSUME NEW w \in CronJobs, Cron(w) PROVE Maps
  BY <1>1, <1>2, <1>3 DEF Cron, StartCron, Workers
<1>4. ASSUME NEW w \in Requests, Handling(w) PROVE Maps
  BY <1>1, <1>2, <1>4, CancelMaps, ResumeMaps, EditMaps DEF Handling, Conflict, Workers
<1>5. ASSUME NEW w \in Requests, Request(w) PROVE Maps
  BY <1>1, <1>5, CreateMaps DEF Request, ReadForMutation, Workers
<1>6. CASE Owner
  BY <1>6, SubscriptionAssumption, DeleteChargeMaps, EditChargeMaps DEF Owner
<1>. QED
  BY <1>1, <1>3, <1>4, <1>5, <1>6, TickMaps DEF Next, vars

(* The concurrent invocations, with what they read before an await and      *)
(* their retries, implement a ledger that charges every slot at most once,  *)
(* at its plan's cursor, in the order of the dates, and before the cutoff.  *)
THEOREM ScheduleImplemented == Spec => ImplementsSchedule
<1>1. Init => Schedule!Init
  <2>. SUFFICES ASSUME Init PROVE Schedule!Init
    OBVIOUS
  <2>1. DOMAIN occ = {}
    BY DEF Init
  <2>2. Slots = [x \in Slot |-> "empty"]
    BY <2>1 DEF Slots, SlotState
  <2>3. /\ Cursor = [s \in SubIds |-> NoDate]
        /\ Cutoff = [s \in SubIds |-> NoDate]
    BY DEF Init, Cursor, Cutoff
  <2>. QED
    BY <2>2, <2>3, ScheduleInit DEF Init
<1>2. IInv /\ IInv' /\ History /\ [Next]_vars => [Schedule!Next]_Schedule!vars
  BY StepMaps
<1>. QED
  BY <1>1, <1>2, HistoryKept, PTL DEF Spec, ImplementsSchedule, Schedule!Spec

=============================================================================
