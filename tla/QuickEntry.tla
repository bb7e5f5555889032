----------------------------- MODULE QuickEntry -----------------------------
(***************************************************************************)
(* Recording a purchase on the page /add:                                  *)
(*   apps/web/src/features/quick-entry/QuickEntryPage.tsx                  *)
(*   apps/web/src/features/quick-entry/NewMerchantConfirmation.tsx         *)
(*   apps/web/src/features/quick-entry/CategorySearch.tsx                  *)
(*   apps/web/worker/index.ts (previews, transactions, categories)         *)
(*   packages/persistence/src/categories.ts, manual-transactions.ts        *)
(*                                                                         *)
(* Submitting asks the server whether it knows the merchant.  A known one  *)
(* is recorded at once, a new one after the owner has confirmed a category *)
(* in a dialog, which makes a rule of it.  Each call is sent, served in    *)
(* one database call, and answered, or its answer is lost; what the page   *)
(* does next depends on the answer alone.  Another tab changes the rules.  *)
(* While the browser is offline the form and the dialog are unmounted; the *)
(* page keeps the draft to confirm, and loses what else was typed.         *)
(***************************************************************************)
EXTENDS Naturals, Sequences, SequencesExt, FiniteSets

CONSTANTS
    Merchants,       \* normalized merchants
    EveryTime,       \* those of merchantRequiresCategoryConfirmation
    PreferredOf,     \* manualDefaultCategory of each merchant, or <<>>
    Seeded,          \* expense categories, numbered in the order of their names
    Named,           \* categories the owner can think of
    Scenarios        \* what may happen, and how often: of each
                     \*   entries  purchases the owner enters
                     \*   edits    changes another tab makes to rules
                     \*   calls    calls in flight when the owner starts another
                     \*   ahead    the owner types while a submission runs
                     \*   drops    the browser goes offline and online again

\* An empty field of the form.
NoMerchant == "none"

EntryAssumption ==
    /\ NoMerchant \notin Merchants
    /\ EveryTime \subseteq Merchants /\ Seeded # {} /\ Seeded \subseteq Named /\ Named \subseteq Nat
    /\ PreferredOf \in [Merchants -> {<<>>} \cup {<<c>> : c \in Named}]
    /\ Scenarios \subseteq
           [entries : Nat, edits : Nat, calls : Nat, ahead : BOOLEAN, drops : BOOLEAN]

VARIABLES
    scenario,     \* what may happen in this behavior
    categories,   \* active, editable expense categories
    rules,        \* the rule of each merchant that has one
    txs,          \* the ledger, in the order of its inserts
    edits,        \* changes made by another tab
    online,       \* navigator.onLine, as the page was told
    form,         \* the entry in the form
    busy,         \* a submission is running
    dialog,       \* the confirmation on the screen, or <<>>
    calls,        \* calls of the page that have not returned
    notice,       \* what the page says last
    confirmed,    \* history: categories confirmed, by entry
    cancelled,    \* history: entries cancelled since they were submitted last
    untold        \* history: entries of a recording whose answer was lost, or that
                  \*   no part of the page was waiting for

server == <<categories, rules, txs, edits>>
page == <<online, form, busy, dialog, notice>>
history == <<confirmed, cancelled, untold>>
vars == <<scenario, server, page, calls, history>>

Blank(entry) == [entry |-> entry, merchant |-> NoMerchant]
Quiet == [kind |-> "none"]

Init ==
    /\ scenario \in Scenarios
    /\ categories = Seeded /\ txs = <<>> /\ edits = 0
    /\ rules \in {<<>>} \cup UNION {[{m} -> [category : Seeded, active : {TRUE}]] : m \in Merchants}
    /\ online = TRUE /\ form = Blank(1) /\ busy = FALSE /\ dialog = <<>> /\ notice = Quiet
    /\ calls = {} /\ confirmed = {} /\ cancelled = {} /\ untold = {}

-----------------------------------------------------------------------------
(* The server.                                                             *)

RuleApplies(m) == m \in DOMAIN rules /\ rules[m].active

Uses(c) == Cardinality({i \in DOMAIN txs : txs[i].category = c})
Matches(c, m) == Cardinality({i \in DOMAIN txs : txs[i].category = c /\ txs[i].merchant = m})

(* The ORDER BY of the suggestion: the default of the merchant's family,   *)
(* what the owner chose for it before, what is used most, the first name.  *)
Before(m, c, d) ==
    LET rank(k) == IF PreferredOf[m] = <<k>> THEN 0 ELSE IF Matches(k, m) > 0 THEN 1 ELSE 2
    IN  \/ rank(c) < rank(d)
        \/ rank(c) = rank(d) /\ Matches(c, m) > Matches(d, m)
        \/ rank(c) = rank(d) /\ Matches(c, m) = Matches(d, m) /\ Uses(c) > Uses(d)
        \/ rank(c) = rank(d) /\ Matches(c, m) = Matches(d, m) /\ Uses(c) = Uses(d) /\ c < d

(* CategoryRepository.previewMerchant                                      *)
Previewed(m) ==
    IF RuleApplies(m) /\ m \notin EveryTime THEN [kind |-> "known", category |-> rules[m].category]
    ELSE [kind |-> "new",
          category |-> CHOOSE c \in categories : \A d \in categories \ {c} : Before(m, c, d)]

\* Mutant of Unconfirmed: what no rule matches is recorded unclassified.
UnconfirmedIsRecorded(m) == FALSE

(* A create without a category: 409 CATEGORY_CONFIRMATION_REQUIRED.        *)
Unconfirmed(m) == m \in EveryTime \/ ~RuleApplies(m)

Recorded(call, category) ==
    Append(txs, [entry |-> call.draft.entry, merchant |-> call.draft.merchant, category |-> category])

(* merchant_rules after an upsert of the rule of a merchant.               *)
WithRule(m, rule) == [n \in DOMAIN rules \cup {m} |-> IF n = m THEN rule ELSE rules[n]]

(* ManualTransactionRepository.create without a category                   *)
ServeCreate(call) ==
    LET m == call.draft.merchant
    IN  IF Unconfirmed(m) THEN UNCHANGED server
        ELSE /\ txs' = Recorded(call, IF RuleApplies(m) THEN rules[m].category ELSE 0)
             /\ UNCHANGED <<categories, rules, edits>>

(* The same with the confirmed category, remembered unless the merchant is *)
(* one of those confirmed every time: the rule and the transaction at once.*)
ServeConfirm(call) ==
    LET m == call.draft.merchant
    IN  /\ txs' = Recorded(call, call.category)
        /\ rules' = IF m \in EveryTime THEN rules
                    ELSE WithRule(m, [category |-> call.category, active |-> TRUE])
        /\ UNCHANGED <<categories, edits>>

(* CategoryRepository.createExpense                                        *)
ServeCategory(call) == categories' = categories \cup {call.category} /\ UNCHANGED <<rules, txs, edits>>

Refused(call) ==
    \/ call.kind = "create" /\ Unconfirmed(call.draft.merchant)
    \/ call.kind = "category" /\ call.category \in categories

Answer(call) ==
    CASE Refused(call) -> [kind |-> "failed"]
      [] call.kind = "preview" -> Previewed(call.draft.merchant)
      [] call.kind = "list" -> [kind |-> "ok", categories |-> categories]
      [] OTHER -> [kind |-> "ok"]

Sent == {call \in calls : call.answer = <<>>}
Answered == calls \ Sent
Answers(call, answer) == calls' = (calls \ {call}) \cup {[call EXCEPT !.answer = <<answer>>]}

Writes(call) == call.kind \in {"create", "confirm"}

Open == dialog # <<>>
Mounted(call) == Open /\ dialog[1].mount = call.mount

(* The page awaits a create, the dialog that sent it a confirmation.       *)
Awaited(call) == call.kind = "create" \/ Mounted(call)

Serve(call) ==
    /\ call \in Sent
    /\ CASE call.kind = "create" -> ServeCreate(call)
         [] call.kind = "confirm" -> ServeConfirm(call)
         [] call.kind = "category" /\ ~Refused(call) -> ServeCategory(call)
         [] OTHER -> UNCHANGED server
    /\ \E told \in BOOLEAN :
          /\ Answers(call, IF told THEN Answer(call) ELSE [kind |-> "failed"])
          /\ untold' = IF Writes(call) /\ ~Refused(call) /\ ~(told /\ Awaited(call))
                       THEN untold \cup {call.draft.entry} ELSE untold
    /\ UNCHANGED <<page, confirmed, cancelled>>

(* The session cannot be read, or the call is refused before its handler.  *)
Fail(call) ==
    /\ call \in Sent /\ Answers(call, [kind |-> "failed"])
    /\ UNCHANGED <<server, page, history>>

-----------------------------------------------------------------------------
(* The form.                                                               *)

Call(kind, draft, category) ==
    [kind |-> kind, draft |-> draft, category |-> category, answer |-> <<>>,
     mount |-> IF dialog = <<>> THEN 0 ELSE dialog[1].mount]

(* The owner fills the form, or fills it anew after a confirmation was     *)
(* cancelled or, the fields being enabled, while a submission runs.        *)
Type ==
    /\ online /\ dialog = <<>> /\ (~busy \/ scenario.ahead)
    /\ \E m \in Merchants :
          \/ form.merchant = NoMerchant /\ form' = [form EXCEPT !.merchant = m]
          \/ /\ busy \/ form.entry \in cancelled
             /\ form.entry < scenario.entries
             /\ form' = [entry |-> form.entry + 1, merchant |-> m]
    /\ UNCHANGED <<server, online, busy, dialog, notice, calls, history>>

\* Mutant of Ready: the button stays enabled while a submission runs.
ReadyAlways == online /\ dialog = <<>> /\ form.merchant # NoMerchant

Ready == online /\ dialog = <<>> /\ form.merchant # NoMerchant /\ ~busy

(* The owner may start another call.                                       *)
WithinBounds == Cardinality(calls) < scenario.calls /\ Len(txs) < scenario.entries

(* submit                                                                  *)
Submit ==
    /\ Ready /\ WithinBounds
    /\ busy' = TRUE /\ notice' = Quiet
    /\ calls' = calls \cup {Call("preview", form, 0)}
    /\ cancelled' = cancelled \ {form.entry}
    /\ UNCHANGED <<server, online, form, dialog, confirmed, untold>>

(* The dialog of a draft.                                                  *)
Shown(draft, suggested, status, mount) ==
    [draft |-> draft, mount |-> mount, status |-> status, listed |-> {suggested},
     selected |-> suggested, suggested |-> suggested, busy |-> FALSE, error |-> FALSE]

(* newMerchantPreview without its dialog.                                  *)
Unmounted(draft, suggested) == Shown(draft, suggested, "unmounted", 0)

(* A number that no call of an earlier dialog has.                         *)
FreshMount ==
    CHOOSE mount \in 1..(Cardinality(calls) + 1) : \A call \in calls : call.mount # mount

(* The dialog is mounted: it reads the categories.                         *)
Mount(draft, suggested, others) ==
    /\ dialog' = <<Shown(draft, suggested, "loading", FreshMount)>>
    /\ calls' = others \cup {[kind |-> "list", draft |-> draft, category |-> 0, answer |-> <<>>,
                               mount |-> FreshMount]}

AsksOwner(call) == call.answer[1].kind = "new" \/ call.draft.merchant \in EveryTime

ReturnPreview(call) ==
    /\ call.kind = "preview"
    /\ IF call.answer[1].kind = "failed"
       THEN /\ notice' = [kind |-> "nothing", entry |-> call.draft.entry]
            /\ busy' = FALSE /\ calls' = calls \ {call} /\ UNCHANGED dialog
       ELSE IF AsksOwner(call)
       THEN /\ IF online THEN Mount(call.draft, call.answer[1].category, calls \ {call})
               ELSE /\ dialog' = <<Unmounted(call.draft, call.answer[1].category)>>
                    /\ calls' = calls \ {call}
            /\ notice' = Quiet /\ busy' = FALSE
       ELSE /\ calls' = (calls \ {call}) \cup {Call("create", call.draft, 0)}
            /\ UNCHANGED <<busy, dialog, notice>>
    /\ UNCHANGED <<server, online, form, history>>

(* finish, whatever the form holds by now                                  *)
Finish(call) ==
    /\ form' = Blank(form.entry + 1) /\ dialog' = <<>>
    /\ notice' = [kind |-> "saved", entry |-> call.draft.entry, category |-> call.category]

\* Mutant of ReturnCreate: the button is enabled again after a success only.
ReturnCreateStaysBusy(call) ==
    /\ call.kind = "create"
    /\ IF call.answer[1].kind = "ok" THEN Finish(call) /\ busy' = FALSE
       ELSE /\ notice' = [kind |-> "nothing", entry |-> call.draft.entry]
            /\ UNCHANGED <<form, dialog, busy>>
    /\ calls' = calls \ {call}
    /\ UNCHANGED <<server, online, history>>

ReturnCreate(call) ==
    /\ call.kind = "create"
    /\ IF call.answer[1].kind = "ok" THEN Finish(call)
       ELSE notice' = [kind |-> "nothing", entry |-> call.draft.entry] /\ UNCHANGED <<form, dialog>>
    /\ busy' = FALSE /\ calls' = calls \ {call}
    /\ UNCHANGED <<server, online, history>>

-----------------------------------------------------------------------------
(* The dialog.                                                             *)

Update(shown) == dialog' = <<shown>>
Rest == <<server, online, form, busy, notice, history>>

Choose ==
    /\ Open /\ dialog[1].status = "ready" /\ ~dialog[1].busy
    /\ \E c \in dialog[1].listed : Update([dialog[1] EXCEPT !.selected = c])
    /\ UNCHANGED <<Rest, calls>>

(* confirm and onConfirm                                                   *)
Confirm ==
    /\ Open /\ dialog[1].status = "ready" /\ ~dialog[1].busy /\ WithinBounds
    /\ Update([dialog[1] EXCEPT !.busy = TRUE, !.error = FALSE])
    /\ calls' = calls \cup {Call("confirm", dialog[1].draft, dialog[1].selected)}
    /\ confirmed' = confirmed \cup {<<dialog[1].draft.entry, dialog[1].selected>>}
    /\ UNCHANGED <<server, online, form, busy, notice, cancelled, untold>>

(* createCategory, of a name that matches none of those listed             *)
Create ==
    /\ Open /\ dialog[1].status = "ready" /\ ~dialog[1].busy /\ WithinBounds
    /\ \E c \in Named \ dialog[1].listed :
          calls' = calls \cup {Call("category", dialog[1].draft, c)}
    /\ Update([dialog[1] EXCEPT !.busy = TRUE, !.error = FALSE])
    /\ UNCHANGED Rest

Reload ==
    /\ Open /\ dialog[1].status = "error"
    /\ Update([dialog[1] EXCEPT !.status = "loading"])
    /\ calls' = calls \cup {Call("list", dialog[1].draft, 0)}
    /\ UNCHANGED Rest

Succeeded(call) == call.answer # <<>> /\ call.answer[1].kind = "ok"

(* The dialog is unmounted: it aborts its reading, and a recording it sent *)
(* may have been served.                                                   *)
Unwatched ==
    /\ calls' = {call \in calls : call.kind # "list"}
    /\ untold' = untold \cup {call.draft.entry : call \in
                     {c \in calls : c.kind = "confirm" /\ Mounted(c) /\ Succeeded(c)}}

(* The button is disabled while the dialog is busy; Escape is not.         *)
Cancel ==
    /\ Open /\ dialog[1].status # "unmounted"
    /\ dialog' = <<>> /\ cancelled' = cancelled \cup {dialog[1].draft.entry}
    /\ Unwatched
    /\ UNCHANGED <<server, online, form, busy, notice, confirmed>>

ReturnConfirm(call) ==
    /\ call.kind = "confirm"
    /\ IF call.answer[1].kind = "ok" THEN Finish(call)
       ELSE /\ dialog' = IF Mounted(call) THEN <<[dialog[1] EXCEPT !.busy = FALSE, !.error = TRUE]>>
                         ELSE dialog
            /\ UNCHANGED <<form, notice>>
    /\ calls' = calls \ {call}
    /\ UNCHANGED <<server, online, busy, history>>

ReturnCategory(call) ==
    /\ call.kind = "category"
    /\ dialog' = IF ~Mounted(call) THEN dialog
                 ELSE IF call.answer[1].kind = "ok"
                 THEN <<[dialog[1] EXCEPT !.busy = FALSE, !.listed = dialog[1].listed \cup {call.category},
                                          !.selected = call.category]>>
                 ELSE <<[dialog[1] EXCEPT !.busy = FALSE]>>
    /\ calls' = calls \ {call}
    /\ UNCHANGED Rest

ReturnList(call) ==
    /\ call.kind = "list"
    /\ dialog' = IF ~Mounted(call) THEN dialog
                 ELSE IF call.answer[1].kind = "ok"
                 THEN <<[dialog[1] EXCEPT !.status = "ready",
                                          !.listed = call.answer[1].categories \cup {dialog[1].suggested}]>>
                 ELSE <<[dialog[1] EXCEPT !.status = "error"]>>
    /\ calls' = calls \ {call}
    /\ UNCHANGED Rest

-----------------------------------------------------------------------------
(* The browser goes offline, and online again (App.tsx: markOffline,       *)
(* markOnline).  The fields of the form are its own.                       *)

GoOffline ==
    /\ scenario.drops /\ online /\ online' = FALSE
    /\ form' = Blank(form.entry)
    /\ dialog' = IF Open THEN <<Unmounted(dialog[1].draft, dialog[1].suggested)>> ELSE <<>>
    /\ Unwatched
    /\ UNCHANGED <<server, busy, notice, confirmed, cancelled>>

GoOnline ==
    /\ ~online /\ online' = TRUE
    /\ IF Open THEN Mount(dialog[1].draft, dialog[1].suggested, calls)
       ELSE UNCHANGED <<dialog, calls>>
    /\ UNCHANGED <<server, form, busy, notice, history>>

-----------------------------------------------------------------------------
(* Another tab: a rule is written, switched off or on.                     *)
OtherTab ==
    /\ edits < scenario.edits /\ edits' = edits + 1
    /\ \E m \in Merchants, c \in categories, active \in BOOLEAN :
          rules' = WithRule(m, [category |-> c, active |-> active])
    /\ UNCHANGED <<categories, txs, page, calls, history>>

Served == \E call \in calls : Serve(call) \/ Fail(call)
Returned ==
    \E call \in Answered : \/ ReturnPreview(call) \/ ReturnCreate(call) \/ ReturnConfirm(call)
                           \/ ReturnCategory(call) \/ ReturnList(call)

Step ==
    \/ Type \/ Submit \/ Choose \/ Confirm \/ Create \/ Reload \/ Cancel
    \/ GoOffline \/ GoOnline \/ Served \/ Returned \/ OtherTab

Next == Step /\ UNCHANGED scenario

(* The browser settles every call, and the page handles what it returns.   *)
Spec ==
    Init /\ [][Next]_vars /\ WF_vars(Served /\ UNCHANGED scenario)
                          /\ WF_vars(Returned /\ UNCHANGED scenario)

-----------------------------------------------------------------------------
Recordings(entry) == {i \in DOMAIN txs : txs[i].entry = entry}

(* The page and its calls have their types.                                *)
TypeOK ==
    /\ categories \subseteq Named /\ busy \in BOOLEAN
    /\ form \in [entry : Nat \ {0}, merchant : Merchants \cup {NoMerchant}]
    /\ \A i \in DOMAIN txs : txs[i].category \in categories
    /\ Open => dialog[1].selected \in dialog[1].listed /\ dialog[1].listed \subseteq categories

(* Nothing is recorded but under an active rule of its merchant, or under  *)
(* a category the owner confirmed for this very entry, whatever another    *)
(* tab does to the rule between preview and write                          *)
(* (quick-entry-merchant-confirmation/spec.md:3-16).                       *)
KnownOrConfirmed ==
    txs' # txs =>
        LET t == Last(txs')
        IN  \/ <<t.entry, t.category>> \in confirmed
            \/ t.merchant \notin EveryTime /\ RuleApplies(t.merchant)
                  /\ rules[t.merchant].category = t.category

(* "Recorded under" is said of an entry that is in the ledger under that   *)
(* very category (QuickEntryPage.tsx:268-283).                             *)
SavedIsRecorded ==
    notice.kind = "saved" =>
        \E i \in Recordings(notice.entry) : notice.category \in {0, txs[i].category}

(* An entry is recorded once, cancelling a confirmation records nothing    *)
(* (quick-entry-merchant-confirmation/spec.md:16), and "Nothing was        *)
(* written" (i18n/en.ts:68) and "Not recorded" (en.ts:100) are said of     *)
(* entries that are not in the ledger.  All this fails of those entries    *)
(* only of which some recording got no answer, or whose dialog was         *)
(* dismissed or unmounted while it ran: POST /transactions has no request  *)
(* id by which the page could learn what became of it.                     *)
RecordedOnce ==
    \A i, j \in DOMAIN txs : txs[i].entry = txs[j].entry => i = j \/ txs[i].entry \in untold

CancelWritesNothing == \A entry \in cancelled \ untold : Recordings(entry) = {}

NothingWrittenIsTrue ==
    /\ notice.kind = "nothing" => Recordings(notice.entry) = {} \/ notice.entry \in untold
    /\ Open /\ dialog[1].error =>
          Recordings(dialog[1].draft.entry) = {} \/ dialog[1].draft.entry \in untold

(* Claimed by i18n/en.ts:68 ("Nothing was written"), en.ts:100 ("Not       *)
(* recorded") and spec.md:16 of every entry.                               *)
EveryNoticeIsTrue ==
    /\ notice.kind = "nothing" => Recordings(notice.entry) = {}
    /\ Open /\ dialog[1].error => Recordings(dialog[1].draft.entry) = {}

EveryCancelWritesNothing == \A entry \in cancelled : Recordings(entry) = {}

(* The form is disabled; the dialog is, or it waits for the categories.    *)
FormWaits == busy
DialogWaits == Open /\ (dialog[1].busy \/ dialog[1].status = "loading")
=============================================================================
