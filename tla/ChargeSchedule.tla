--------------------------- MODULE ChargeSchedule ---------------------------
(***************************************************************************)
(* What recurring charges promise the owner, without the database, the     *)
(* invocations that run concurrently, or optimistic versions: every plan   *)
(* has a cursor, the next date it owes, and every (plan, date) slot of the *)
(* ledger is charged at most once, at the cursor, in the order of the      *)
(* dates, and never on or after the cutoff.                                *)
(* Sources: openspec/changes/restore-monthly-subscriptions/specs/          *)
(* subscription-management/spec.md, as packages/persistence/src/           *)
(* subscriptions.ts carries it out.                                        *)
(***************************************************************************)
EXTENDS LedgerCalendar

CONSTANTS
    SubIds,   \* the plans
    None      \* no date

VARIABLES
    today,    \* the ledger date
    cursor,   \* id -> the next date to charge, None before the plan starts
    cutoff,   \* id -> the effective date of the cancellation, None without
    slot      \* <<id, date>> -> "empty", "posted" or "removed"

vars == <<today, cursor, cutoff, slot>>

SlotState == {"empty", "posted", "removed"}

Init ==
    /\ today = [month |-> 0, day |-> 1]
    /\ cursor = [s \in SubIds |-> None]
    /\ cutoff = [s \in SubIds |-> None]
    /\ slot = [x \in SubIds \X Date |-> "empty"]

Tick ==
    /\ today' \in Date
    /\ Before(today, today')
    /\ UNCHANGED <<cursor, cutoff, slot>>

Start(s, d) ==
    /\ cursor[s] = None
    /\ cursor' = [cursor EXCEPT ![s] = d]
    /\ UNCHANGED <<today, cutoff, slot>>

(* The date at the cursor is due: it is charged, unless it was already (a  *)
(* resumed plan walks over dates again), and the cursor moves to the month *)
(* after it.                                                               *)
Charge(s) ==
    /\ cursor[s] # None
    /\ NotAfter(cursor[s], today)
    /\ cutoff[s] # None => Before(cursor[s], cutoff[s])
    /\ slot' = [slot EXCEPT ![<<s, cursor[s]>>] = "posted"]
    /\ \E anchor \in 1..31 :
          cursor' = [cursor EXCEPT ![s] = NextDate(@, anchor, "MONTHLY")]
    /\ UNCHANGED <<today, cutoff>>

(* Everything on or after the effective date is removed at once.           *)
SetCutoff(s, eff) ==
    /\ cursor[s] # None
    /\ cutoff' = [cutoff EXCEPT ![s] = eff]
    /\ slot' = [x \in DOMAIN slot |->
                  IF x[1] = s /\ NotAfter(eff, x[2]) /\ slot[x] = "posted"
                  THEN "removed" ELSE slot[x]]
    /\ UNCHANGED <<today, cursor>>

(* Only a plan with a cutoff restarts, and only a restart moves a cursor   *)
(* back.                                                                   *)
Restart(s, d) ==
    /\ cutoff[s] # None
    /\ cursor' = [cursor EXCEPT ![s] = d]
    /\ cutoff' = [cutoff EXCEPT ![s] = None]
    /\ UNCHANGED <<today, slot>>

Postpone(s, d) ==
    /\ cursor[s] # None
    /\ Before(cursor[s], d)
    /\ cursor' = [cursor EXCEPT ![s] = d]
    /\ UNCHANGED <<today, cutoff, slot>>

Remove(x) ==
    /\ slot[x] = "posted"
    /\ slot' = [slot EXCEPT ![x] = "removed"]
    /\ UNCHANGED <<today, cursor, cutoff>>

Next ==
    \/ Tick
    \/ \E s \in SubIds :
          \/ Charge(s)
          \/ \E d \in Date : Start(s, d) \/ SetCutoff(s, d) \/ Restart(s, d)
                             \/ Postpone(s, d)
    \/ \E x \in DOMAIN slot : Remove(x)

Spec == Init /\ [][Next]_vars

=============================================================================
