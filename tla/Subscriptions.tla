---------------------------- MODULE Subscriptions ----------------------------
(***************************************************************************)
(* Recurring charges of the ledger (packages/persistence/src/              *)
(* subscriptions.ts, the /subscriptions route and the scheduled handler of *)
(* apps/web/worker/index.ts, migrations 0014, 0016 and 0020).              *)
(*                                                                         *)
(* The D1 database is the shared state: the tables subscriptions,          *)
(* subscription_occurrences and transactions.  Invocations of the Worker   *)
(* (the cron handler, the owner's requests) run concurrently against it.   *)
(* One database call, or one atomic batch of calls, is one action; what an *)
(* invocation remembers between two of its awaits is in run[w].            *)
(***************************************************************************)
EXTENDS LedgerCalendar, FiniteSets, Sequences

CONSTANTS
    SubIds,       \* subscription ids, positive integers ordered as SQL orders them
    Amounts,      \* amounts a plan may charge
    CronJobs,     \* invocations of the scheduled handler
    Requests,     \* invocations of the fetch handler on /subscriptions
    MaxPlans,     \* plans the table may hold (500)
    SelectLimit,  \* rows one run selects (LIMIT 100)
    MaxAttempts,  \* batches one run attempts (8)
    MaxVersion,   \* bound: requests stop once a plan has this version
    Mutations,    \* bound: the mutations the owner asks for
    ChargeEdits,  \* bound: what the owner's edits make of asScheduled
    NoDate,       \* SQL NULL in a date column
    NoPlan,       \* no row
    NoRequest     \* no request body

Workers == CronJobs \cup Requests

AllPlans == 0

ASSUME SubscriptionAssumption ==
    /\ IsFiniteSet(SubIds)
    /\ SubIds \subseteq Nat \ {AllPlans}
    /\ Amounts \subseteq Nat \ {0}
    /\ CronJobs \cap Requests = {}
    /\ MaxPlans \in Nat
    /\ SelectLimit \in Nat \ {0}
    /\ MaxAttempts \in Nat \ {0}
    /\ MaxVersion \in Nat
    /\ Mutations \subseteq {"CANCEL", "RESUME", "EDIT"}
    /\ ChargeEdits \subseteq BOOLEAN
    /\ NoDate \notin Date

VARIABLES
    today,   \* the ledger date of the clock
    sub,     \* table subscriptions: id -> row, NoPlan while there is none
    occ,     \* table subscription_occurrences: <<id, scheduled date>> -> row
    tx,      \* the charges in table transactions, in order of insertion
    run      \* what each invocation of the Worker is doing

db == <<sub, occ, tx>>
vars == <<today, sub, occ, tx, run>>

-----------------------------------------------------------------------------
(* Rows.                                                                    *)

(* subscriptionRecordSchema.  Cadence is MONTHLY (create inserts no other), *)
(* PAUSED is never written, last_error_code is only ever cleared.           *)
Plan == [id : SubIds, status : {"ACTIVE", "CANCELLED"}, next : Date,
         anchor : 1..31, cancel : Date \cup {NoDate}, amount : Amounts,
         version : Nat]

Slot == SubIds \X Date

Occurrence == [tx : Nat, status : {"GENERATED", "NOT_CHARGED"}]

(* A generated transaction.  asScheduled: it is an OUTFLOW whose            *)
(* posted_date is the scheduled date of its occurrence, which the owner may *)
(* change when editing it like any manual transaction.                      *)
Charge == [status : {"POSTED", "REMOVED"}, amount : Amounts, asScheduled : BOOLEAN]

(* subscriptionMutationSchema. *)
Mutation == [action : {"CANCEL", "RESUME", "EDIT"}, date : Date,
             amount : Amounts, version : Nat]

ASSUME RowAssumption == NoPlan \notin Plan /\ NoRequest \notin Mutation

(* pc: "idle", "mutate" (mutate has read the plan), "select" (generateDue   *)
(* starts), "attempt" (generateOne is about to run its batch), "refind"     *)
(* (the batch succeeded), "close" (the final update of generateDue).        *)
Run == [pc : {"idle", "mutate", "select", "attempt", "refind", "close"},
        day : Date,                              \* ledgerDate of its timestamp
        only : SubIds \cup {AllPlans},           \* onlyId
        request : Mutation \cup {NoRequest},
        plan : Plan \cup {NoPlan},               \* the row it read last
        todo : SUBSET Plan,                      \* selected rows not reached yet
        attempts : Nat]

FirstDate == [month |-> 0, day |-> 1]

Idle == [pc |-> "idle", day |-> FirstDate, only |-> AllPlans,
         request |-> NoRequest, plan |-> NoPlan, todo |-> {}, attempts |-> 0]

-----------------------------------------------------------------------------
(* Conditions.                                                              *)

CutOff(p) == p.cancel # NoDate /\ NotAfter(p.cancel, p.next)

(* A date to generate on day d. *)
IsDue(p, d) == NotAfter(p.next, d) /\ ~CutOff(p)

\* Mutant of Guard: the version is not compared.
GuardWithoutVersion(p) == LET row == sub[p.id]
                          IN  row.status = "ACTIVE" /\ row.next = p.next /\ ~CutOff(row)

(* GUARD: the row is still the one the invocation read, and may charge.     *)
Guard(p) == LET row == sub[p.id]
            IN  /\ row.version = p.version
                /\ row.status = "ACTIVE"
                /\ row.next = p.next
                /\ ~CutOff(row)

Recorded(p) == <<p.id, p.next>> \in DOMAIN occ

(* The transaction of p's next date once the batch has run. *)
ChargeOf(p) == IF Recorded(p) THEN occ[p.id, p.next].tx ELSE Len(tx) + 1

\* Mutant of InsertsCharge: the insert is not guarded.
InsertsUnguarded(p) == ~Recorded(p)

(* Statement 1 of the batch inserts a transaction with the row's terms.     *)
InsertsCharge(p) == Guard(p) /\ ~Recorded(p)

(* Statement 2 posts the removed transaction again with the snapshot's.     *)
RepostsCharge(p) == /\ Guard(p)
                    /\ Recorded(p)
                    /\ occ[p.id, p.next].status = "NOT_CHARGED"
                    /\ tx[occ[p.id, p.next].tx].status = "REMOVED"

Posted(amount) == [status |-> "POSTED", amount |-> amount, asScheduled |-> TRUE]

TxAfterBatch(p) ==
    IF InsertsCharge(p) THEN Append(tx, Posted(sub[p.id].amount))
    ELSE IF RepostsCharge(p) THEN [tx EXCEPT ![ChargeOf(p)] = Posted(p.amount)]
    ELSE tx

(* Statement 3 runs the trigger subscription_occurrences_validate_insert,   *)
(* also when the row exists and the insert becomes an update: it aborts the *)
(* whole batch unless the charge is posted as scheduled.                    *)
BatchAborts(p) ==
    /\ Guard(p)
    /\ LET c == TxAfterBatch(p)[ChargeOf(p)]
       IN  ~(c.status = "POSTED" /\ c.asScheduled)

OccAfterBatch(p) ==
    IF ~Guard(p) THEN occ ELSE
    [slot \in DOMAIN occ \cup {<<p.id, p.next>>} |->
        IF slot = <<p.id, p.next>>
        THEN [tx |-> ChargeOf(p), status |-> "GENERATED"]
        ELSE occ[slot]]

\* Mutant of Advanced: the anchor is not clamped to the length of the month.
AdvancedUnclamped(row) ==
    [row EXCEPT !.next = [month |-> @.month + 1, day |-> row.anchor], !.version = @ + 1]

\* Mutant of Advanced: the clamped day becomes the anchor of later months.
AdvancedReanchored(row) ==
    LET d == NextDate(row.next, row.anchor, "MONTHLY")
    IN  [row EXCEPT !.next = d, !.anchor = d.day, !.version = @ + 1]

(* Statement 4 moves the plan to its next date. *)
Advanced(row) == [row EXCEPT !.next = NextDate(row.next, row.anchor, "MONTHLY"),
                             !.version = @ + 1]

-----------------------------------------------------------------------------
(* The loop of generateDue, between two awaits.                             *)

(* ORDER BY next_charge_date, id. *)
Precedes(p, q) == \/ Before(p.next, q.next)
                  \/ p.next = q.next /\ p.id < q.id

\* Mutant of Selectable: plans with a cancellation date are no longer selected,
\* although dates before it may be pending.
SelectableUncancelled(row, day) ==
    row.status = "ACTIVE" /\ row.cancel = NoDate /\ NotAfter(row.next, day)

Selectable(row, day) == row.status = "ACTIVE" /\ NotAfter(row.next, day)

Selected(day, only) ==
    LET rows == {sub[s] : s \in {x \in SubIds : sub[x] # NoPlan /\ only \in {AllPlans, x}}}
        due  == {p \in rows : Selectable(p, day)}
    IN  {p \in due : Cardinality({q \in due : Precedes(q, p)}) < SelectLimit}

IsFirst(p, plans) == \A q \in plans : p = q \/ Precedes(p, q)

\* Mutant of Exhausted: the attempts of all plans together are not bounded.
NeverExhausted(attempts) == FALSE

Exhausted(attempts) == attempts >= MaxAttempts

(* The loop goes on to the first selected plan with a date to generate, or  *)
(* leaves for the closing update when none is left or the attempts are.     *)
Proceed(w, todo, attempts) ==
    LET ready == {p \in todo : IsDue(p, run[w].day)}
    IN  \/ /\ ~Exhausted(attempts)
           /\ \E p \in ready :
                 /\ IsFirst(p, ready)
                 /\ run' = [run EXCEPT ![w].pc = "attempt", ![w].plan = p,
                                       ![w].todo = ready \ {p}, ![w].attempts = attempts]
        \/ /\ Exhausted(attempts) \/ ready = {}
           /\ run' = [run EXCEPT ![w].pc = "close", ![w].plan = NoPlan,
                                 ![w].todo = {}, ![w].attempts = attempts]

-----------------------------------------------------------------------------
Init ==
    /\ today = FirstDate
    /\ sub = [s \in SubIds |-> NoPlan]
    /\ occ = [slot \in {} |-> NoPlan]
    /\ tx = <<>>
    /\ run = [w \in Workers |-> Idle]

(* The clock.  A generated date is never past today, and its successor must *)
(* be a date of the calendar.                                               *)
Tick ==
    /\ Tomorrow(today).month < LastMonth
    /\ today' = Tomorrow(today)
    /\ UNCHANGED <<sub, occ, tx, run>>

(* POST /subscriptions: find, insert unless it exists, find again; the      *)
(* handler then generates the due dates of this plan.                       *)
Create(w, s, d, amount) ==
    /\ run[w].pc = "idle"
    /\ \/ sub[s] # NoPlan /\ sub' = sub
       \/ /\ sub[s] = NoPlan
          /\ Cardinality({x \in SubIds : sub[x] # NoPlan}) < MaxPlans
          /\ sub' = [sub EXCEPT ![s] =
                 [id |-> s, status |-> "ACTIVE", next |-> d, anchor |-> d.day,
                  cancel |-> NoDate, amount |-> amount, version |-> 1]]
    /\ run' = [run EXCEPT ![w].pc = "select", ![w].day = today, ![w].only = s]
    /\ UNCHANGED <<today, occ, tx>>

\* Mutant of Acceptable: an EDIT may name any date.
AcceptableToAnyDate(row, request) ==
    /\ request.version = row.version
    /\ request.action = "RESUME" => ~(row.status = "ACTIVE" /\ row.cancel = NoDate)

(* A request with another version than the row's, a RESUME of a plan that   *)
(* runs and an EDIT to an earlier date are refused when mutate reads the    *)
(* plan, and change nothing.                                                *)
Acceptable(row, request) ==
    /\ request.version = row.version
    /\ request.action = "RESUME" => ~(row.status = "ACTIVE" /\ row.cancel = NoDate)
    /\ request.action = "EDIT" => ~Before(request.date, row.next)

(* PATCH /subscriptions/:id, up to the await after find. *)
ReadForMutation(w, s, request) ==
    /\ run[w].pc = "idle"
    /\ sub[s] # NoPlan
    /\ sub[s].version < MaxVersion
    /\ Acceptable(sub[s], request)
    /\ run' = [run EXCEPT ![w] = [Idle EXCEPT
                 !.pc = "mutate", !.day = today, !.only = s,
                 !.request = request, !.plan = sub[s]]]
    /\ UNCHANGED <<today, sub, occ, tx>>

(* The update of mutate matched the version it was sent. *)
Mutating(w, action) ==
    /\ run[w].pc = "mutate"
    /\ run[w].request.action = action
    /\ sub[run[w].only].version = run[w].request.version

AfterMutation(w) ==
    run' = [run EXCEPT ![w].pc = "select", ![w].request = NoRequest, ![w].plan = NoPlan]

(* The plan is closed at once when its remaining dates all lie behind the   *)
(* effective date, and stays ACTIVE for the catch-up otherwise.             *)
CancelStatus(row, eff, day) ==
    IF NotAfter(eff, day) /\ NotAfter(eff, row.next) THEN "CANCELLED" ELSE "ACTIVE"

\* Mutant of CutSlots: the effective day itself is not included.
CutSlotsExclusive(s, eff) == {slot \in DOMAIN occ : /\ slot[1] = s
                                                   /\ Before(eff, slot[2])
                                                   /\ tx[occ[slot].tx].status = "POSTED"}

(* The occurrences a cancellation removes, the effective day included.      *)
CutSlots(s, eff) == {slot \in DOMAIN occ : /\ slot[1] = s
                                          /\ NotAfter(eff, slot[2])
                                          /\ tx[occ[slot].tx].status = "POSTED"}

Cancelled(row, eff, day) ==
    [row EXCEPT !.cancel = eff, !.status = CancelStatus(row, eff, day), !.version = @ + 1]

(* One batch: the charges scheduled on or after the effective date become   *)
(* REMOVED (a trigger marks their occurrences NOT_CHARGED), and the plan    *)
(* gets its cutoff.                                                         *)
Cancel(w) ==
    LET s   == run[w].only
        eff == run[w].request.date
        cut == CutSlots(s, eff)
        removed == {occ[slot].tx : slot \in cut}
    IN  /\ Mutating(w, "CANCEL")
        /\ tx' = [i \in DOMAIN tx |->
                    IF i \in removed THEN [tx[i] EXCEPT !.status = "REMOVED"] ELSE tx[i]]
        /\ occ' = [slot \in DOMAIN occ |->
                    IF slot \in cut THEN [occ[slot] EXCEPT !.status = "NOT_CHARGED"]
                                    ELSE occ[slot]]
        /\ sub' = [sub EXCEPT ![s] = Cancelled(@, eff, run[w].day)]
        /\ AfterMutation(w)
        /\ UNCHANGED today

Resumed(row, d) ==
    [row EXCEPT !.status = "ACTIVE", !.next = d, !.anchor = d.day, !.cancel = NoDate,
                !.version = @ + 1]

Resume(w) ==
    LET s == run[w].only
        d == run[w].request.date
    IN  /\ Mutating(w, "RESUME")
        /\ sub' = [sub EXCEPT ![s] = Resumed(@, d)]
        /\ AfterMutation(w)
        /\ UNCHANGED <<today, occ, tx>>

(* The anchor of an edited plan, from the date and anchor mutate read.      *)
EditedAnchor(w) ==
    IF run[w].request.date = run[w].plan.next THEN run[w].plan.anchor
                                              ELSE run[w].request.date.day

Edited(row, request, anchor) ==
    [row EXCEPT !.next = request.date, !.anchor = anchor, !.amount = request.amount,
                !.version = @ + 1]

Edit(w) ==
    LET s == run[w].only
    IN  /\ Mutating(w, "EDIT")
        /\ sub' = [sub EXCEPT ![s] = Edited(@, run[w].request, EditedAnchor(w))]
        /\ AfterMutation(w)
        /\ UNCHANGED <<today, occ, tx>>

(* Another invocation wrote the plan since it was read: VERSION_CONFLICT.   *)
Conflict(w) ==
    /\ run[w].pc = "mutate"
    /\ sub[run[w].only].version # run[w].request.version
    /\ run' = [run EXCEPT ![w] = Idle]
    /\ UNCHANGED <<today, sub, occ, tx>>

(* The cron trigger starts generateDue for all plans. *)
StartCron(w) ==
    /\ run[w].pc = "idle"
    /\ run' = [run EXCEPT ![w] = [Idle EXCEPT !.pc = "select", !.day = today]]
    /\ UNCHANGED <<today, sub, occ, tx>>

Select(w) ==
    /\ run[w].pc = "select"
    /\ Proceed(w, Selected(run[w].day, run[w].only), 0)
    /\ UNCHANGED <<today, sub, occ, tx>>

(* generateOne: one atomic batch of four statements, each under GUARD.      *)
(* When the plan has changed since it was read no statement changes a row,  *)
(* and the loop goes on to the next selected plan; the early return for a   *)
(* plan read as CANCELLED comes to the same, as GUARD refuses it.           *)
Generate(w) ==
    LET p == run[w].plan
    IN  /\ run[w].pc = "attempt"
        /\ ~BatchAborts(p)
        /\ tx' = TxAfterBatch(p)
        /\ occ' = OccAfterBatch(p)
        /\ IF Guard(p)
           THEN /\ sub' = [sub EXCEPT ![p.id] = Advanced(@)]
                /\ run' = [run EXCEPT ![w].pc = "refind", ![w].attempts = @ + 1]
           ELSE /\ sub' = sub
                /\ Proceed(w, run[w].todo, run[w].attempts + 1)
        /\ UNCHANGED today

(* The batch is rolled back and generateDue throws: no other plan is tried, *)
(* nothing is closed.  The cron run fails; the request reports              *)
(* catchUpPending.                                                          *)
GenerateAborted(w) ==
    LET p == run[w].plan
    IN  /\ run[w].pc = "attempt"
        /\ BatchAborts(p)
        /\ run' = [run EXCEPT ![w] = Idle]
        /\ UNCHANGED <<today, sub, occ, tx>>

(* The plan stays the current one while its new next date is due.           *)
Refind(w) ==
    LET p == sub[run[w].plan.id]
    IN  /\ run[w].pc = "refind"
        /\ IF ~Exhausted(run[w].attempts) /\ IsDue(p, run[w].day)
           THEN run' = [run EXCEPT ![w].pc = "attempt", ![w].plan = p]
           ELSE Proceed(w, run[w].todo, run[w].attempts)
        /\ UNCHANGED <<today, sub, occ, tx>>

\* Mutant of Settled: pending dates before the cancellation are forgotten.
SettledEarly(row, day) == row.cancel # NoDate /\ NotAfter(row.cancel, day)

\* Mutant of Settled: a plan whose next date is the effective day stays open.
SettledExclusive(row, day) ==
    row.cancel # NoDate /\ NotAfter(row.cancel, day) /\ Before(row.cancel, row.next)

(* The cancellation is effective and no date before it is pending.          *)
Settled(row, day) ==
    row.cancel # NoDate /\ NotAfter(row.cancel, day) /\ NotAfter(row.cancel, row.next)

Closes(w, row) ==
    /\ row # NoPlan
    /\ run[w].only \in {AllPlans, row.id}
    /\ row.status = "ACTIVE"
    /\ Settled(row, run[w].day)

Closed(row) == [row EXCEPT !.status = "CANCELLED", !.version = @ + 1]

(* The last statement of generateDue. *)
Close(w) ==
    /\ run[w].pc = "close"
    /\ sub' = [s \in SubIds |-> IF Closes(w, sub[s]) THEN Closed(sub[s]) ELSE sub[s]]
    /\ run' = [run EXCEPT ![w] = Idle]
    /\ UNCHANGED <<today, occ, tx>>

(* DELETE /transactions/:id of a generated charge: the trigger              *)
(* subscription_occurrences_mark_not_charged marks its occurrence.          *)
DeleteCharge(i) ==
    /\ tx[i].status = "POSTED"
    /\ tx' = [tx EXCEPT ![i].status = "REMOVED"]
    /\ occ' = [slot \in DOMAIN occ |->
                 IF occ[slot].tx = i THEN [occ[slot] EXCEPT !.status = "NOT_CHARGED"]
                                     ELSE occ[slot]]
    /\ UNCHANGED <<today, sub, run>>

(* PATCH /transactions/:id of a generated charge: the owner may change its  *)
(* amount, its date and its direction.                                      *)
EditCharge(i, amount, asScheduled) ==
    /\ tx[i].status = "POSTED"
    /\ tx' = [tx EXCEPT ![i].amount = amount, ![i].asScheduled = asScheduled]
    /\ UNCHANGED <<today, sub, occ, run>>

-----------------------------------------------------------------------------
Catchup(w) == \/ Select(w) \/ Generate(w) \/ GenerateAborted(w)
              \/ Refind(w) \/ Close(w)

Cron(w) == StartCron(w) \/ Catchup(w)

Handling(w) == \/ Cancel(w) \/ Resume(w) \/ Edit(w) \/ Conflict(w) \/ Catchup(w)

Request(w) == \E s \in SubIds : \E d \in Date : \E amount \in Amounts :
    \/ Create(w, s, d, amount)
    \/ \E action \in Mutations :
          ReadForMutation(w, s, [action |-> action, date |-> d, amount |-> amount,
                                 version |-> sub[s].version])

Owner == \E i \in DOMAIN tx :
    \/ DeleteCharge(i)
    \/ \E amount \in Amounts : \E asScheduled \in ChargeEdits :
          EditCharge(i, amount, asScheduled)

Next == \/ Tick
        \/ \E w \in CronJobs : Cron(w)
        \/ \E w \in Requests : Request(w) \/ Handling(w)
        \/ Owner

Spec == Init /\ [][Next]_vars

(* The cron trigger fires every 15 minutes and every database call of an    *)
(* invocation returns.  Nothing is assumed of the owner or of the clock.    *)
Fairness == /\ \A w \in CronJobs : WF_vars(Cron(w))
            /\ \A w \in Requests : WF_vars(Handling(w))

FairSpec == Spec /\ Fairness

-----------------------------------------------------------------------------
(* Properties.                                                              *)

(* Every table and every invocation holds values of its type. *)
TypeOK ==
    /\ today \in Date
    /\ sub \in [SubIds -> Plan \cup {NoPlan}]
    /\ DOMAIN occ \subseteq Slot
    /\ \A slot \in DOMAIN occ : occ[slot] \in Occurrence
    /\ tx \in Seq(Charge)
    /\ run \in [Workers -> Run]

(* "Version guards and atomic writes prevent partial deletion, orphan       *)
(* transactions": every generated transaction belongs to exactly one        *)
(* occurrence, and the occurrence is GENERATED exactly while the            *)
(* transaction is POSTED, whatever invocations raced for the date.          *)
ChargesMatchOccurrences ==
    /\ \A slot \in DOMAIN occ :
          /\ occ[slot].tx \in DOMAIN tx
          /\ occ[slot].status = "GENERATED" <=> tx[occ[slot].tx].status = "POSTED"
    /\ \A x, y \in DOMAIN occ : occ[x].tx = occ[y].tx => x = y
    /\ \A i \in DOMAIN tx : \E slot \in DOMAIN occ : occ[slot].tx = i

(* "Generation beyond the winning cutoff" never happens: while a plan has a *)
(* cancellation date, nothing scheduled on or after it is POSTED, neither   *)
(* left over from before the cancellation nor posted by an invocation that  *)
(* had read the plan before it.                                             *)
NothingPostedPastCutoff ==
    \A slot \in DOMAIN occ :
        LET cutoff == sub[slot[1]].cancel
        IN  cutoff # NoDate /\ NotAfter(cutoff, slot[2])
                => tx[occ[slot].tx].status = "REMOVED"

(* "Pending pre-cancellation dates remain eligible for catch-up; only       *)
(* completed plans close": a CANCELLED plan owes no date before its cutoff, *)
(* and its cutoff has been reached.                                         *)
ClosedPlansAreSettled ==
    \A s \in SubIds :
        sub[s] # NoPlan /\ sub[s].status = "CANCELLED"
            => CutOff(sub[s]) /\ NotAfter(sub[s].cancel, today)

(* A request of the owner gives plan s its next date in this step, and the  *)
(* day of that date as its anchor: a resumption, or an edit to another date *)
(* than the one the plan has.                                               *)
MovesAnchor(s) ==
    \E w \in Requests :
        /\ run[w].pc = "mutate" /\ run'[w].pc = "select"
        /\ run[w].only = s
        /\ \/ run[w].request.action = "RESUME"
           \/ run[w].request.action = "EDIT" /\ run[w].request.date # sub[s].next
        /\ sub'[s].next = run[w].request.date
        /\ sub'[s].anchor = run[w].request.date.day

(* "Monthly dates SHALL clamp to month end while retaining the anchor day": *)
(* the next date is always the anchor of its month, and a step changes the  *)
(* anchor of a plan only as the answer to a request that resumes the plan   *)
(* or edits its date: no catch-up, which clamps the date in a short month,  *)
(* no cancellation or closing, and no edit of the other terms moves it.     *)
AnchorRetained ==
    [][\A s \in SubIds : sub[s] # NoPlan =>
          /\ sub[s].next = Clamped(sub[s].next.month, sub[s].anchor)
          /\ sub'[s].anchor # sub[s].anchor => MovesAnchor(s)]_vars

(* "Edits affect future charges only", and state read before an await is    *)
(* not used after it changed: a step that posts a charge posts the terms    *)
(* the plan has at that step, and no step but the owner's edit of the       *)
(* charge itself touches the amount of a posted one.                        *)
CarriesPlanTerms ==
    \A slot \in DOMAIN occ' :
       LET i == occ'[slot].tx
           postedBefore == i \in DOMAIN tx /\ tx[i].status = "POSTED"
       IN  /\ tx'[i].status = "POSTED" /\ ~postedBefore
                 => tx'[i].amount = sub[slot[1]].amount
           /\ postedBefore /\ sub' # sub => tx'[i].amount = tx[i].amount

(* A run of generateDue stays within its bound of attempts over all plans,  *)
(* lost races included (at most 42 queries, where D1 allows 50).            *)
RunWithinBudget == \A w \in Workers : run[w].attempts <= MaxAttempts

(* The abstract specification: what the owner is promised.                  *)
Schedule == INSTANCE ChargeSchedule WITH
    None <- NoDate,
    cursor <- [s \in SubIds |-> IF sub[s] = NoPlan THEN NoDate ELSE sub[s].next],
    cutoff <- [s \in SubIds |-> IF sub[s] = NoPlan THEN NoDate ELSE sub[s].cancel],
    slot <- [x \in Slot |->
                IF x \notin DOMAIN occ THEN "empty"
                ELSE IF tx[occ[x].tx].status = "POSTED" THEN "posted" ELSE "removed"]

(* Concurrent, stale and retried invocations together implement a ledger    *)
(* that charges every slot once, at the cursor, in order, in one step.      *)
ImplementsSchedule == Schedule!Spec

Overdue(s) == /\ sub[s] # NoPlan
              /\ sub[s].status = "ACTIVE"
              /\ IsDue(sub[s], today)

(* The batch of a plan's next date aborts as long as nobody intervenes.     *)
Stuck(s) == Overdue(s) /\ BatchAborts(sub[s])

(* The cancellation of s at d has taken effect, and the plan is open.       *)
OpenPast(s, d) == /\ sub[s] # NoPlan
                  /\ sub[s].status = "ACTIVE"
                  /\ sub[s].cancel = d
                  /\ NotAfter(d, today)

(* "Each due date is recorded exactly once" when scheduling runs            *)
(* repeatedly: a plan whose own batch does not abort is caught up, whatever *)
(* the state of the owner's other plans.                                    *)
EachPlanCatchesUp ==
    \A s \in SubIds : Overdue(s) ~> (~Overdue(s) \/ Stuck(s))

=============================================================================
