--------------------------- MODULE EntriesProofs ---------------------------
(***************************************************************************)
(* What holds of the owner's entries for every set of merchants,           *)
(* categories, months and amounts: the monthly limits ("Limits", Budgets)  *)
(* and the purchases recorded on /add ("Ahead", QuickEntry).               *)
(***************************************************************************)
EXTENDS MCEntries, InstallmentsProofs, FiniteSetTheorems

-----------------------------------------------------------------------------
(* The monthly limits.  The page is right when nothing is on its way       *)
(* because what is on its way is right: an answer that waits to be shown   *)
(* is the list of the month of the page, unless the table was written      *)
(* since it was read.                                                      *)

(* A list that was read for the month, and is up to date or stale.         *)
IsAnswer(list, month, rows, old) ==
    /\ DOMAIN list \subseteq Keys
    /\ ~old => list = Limits!List(rows, month)

(* The request of the effect: none, asked, or answered.  It runs only       *)
(* while the page loads.                                                   *)
ReadingIsFresh ==
    /\ reading # <<>> => page.state = "loading"
    /\ \/ reading = <<>> \/ reading = Limits!Asked
       \/ \E list : /\ reading = Limits!Answered(list)
                    /\ IsAnswer(list, page.month, table, stale)

(* A save: of a setting of the month of the page, while the page is ready. *)
IsSave(s, month, rows, old) ==
    \E list : \E setting \in Limits!Setting, at \in {"put", "list", "answered"} :
        /\ s = <<[setting |-> setting, at |-> at, list |-> list]>>
        /\ setting.key \in Spendable /\ setting.month = month
        /\ at = "answered" => IsAnswer(list, month, rows, old)

SaveIsFresh ==
    save # <<>> => page.state = "ready" /\ IsSave(save, page.month, table, stale)

PageIsRecord ==
    page = [month |-> page.month, state |-> page.state,
            shown |-> page.shown, notice |-> page.notice]

LimitsInv ==
    /\ Limits!TypeOK /\ PageIsRecord
    /\ ReadingIsFresh /\ SaveIsFresh
    /\ Limits!ShownIsInForce

LEMMA ListIsAnswer ==
  ASSUME NEW rows, NEW month, NEW old
  PROVE  IsAnswer(Limits!List(rows, month), month, rows, old)
BY DEF IsAnswer, Limits!List

LEMMA AnswerGrowsStale ==
  ASSUME NEW list, NEW month, NEW rows, NEW old, NEW next, IsAnswer(list, month, rows, old)
  PROVE  IsAnswer(list, month, next, TRUE)
BY DEF IsAnswer

LEMMA SaveGrowsStale ==
  ASSUME NEW s, NEW month, NEW rows, NEW old, NEW next, IsSave(s, month, rows, old)
  PROVE  IsSave(s, month, next, TRUE)
BY AnswerGrowsStale DEF IsSave

(* A saved setting replaces its row, and no other.                         *)
LEMMA SavedRows ==
  ASSUME NEW rows, DOMAIN rows \subseteq Spendable \X Months,
         \A at \in DOMAIN rows : rows[at] \in Limits!Limits,
         NEW s \in Limits!Setting
  PROVE  /\ DOMAIN Limits!Saved(rows, s) \subseteq Spendable \X Months
         /\ \A at \in DOMAIN Limits!Saved(rows, s) : Limits!Saved(rows, s)[at] \in Limits!Limits
<1>1. s.key \in Keys /\ s.month \in Months /\ s.limit \in Limits!Limits
  BY DEF Limits!Setting
<1>2. CASE s.key \in Spendable
  <2>1. <<s.key, s.month>> \in Spendable \X Months
    BY <1>1, <1>2
  <2>. QED
    BY <1>1, <1>2, <2>1 DEF Limits!Saved
<1>3. CASE s.key \notin Spendable
  BY <1>3 DEF Limits!Saved
<1>. QED
  BY <1>2, <1>3

LEMMA LimitsInit == Limits!Init => LimitsInv
<1> SUFFICES ASSUME Limits!Init PROVE LimitsInv
  OBVIOUS
<1> USE BudgetAssumption DEF Limits!BudgetAssumption
<1>1. Limits!TypeOK /\ PageIsRecord
  BY DEF Limits!Init, Limits!Mounted, Limits!TypeOK, PageIsRecord
<1>2. ReadingIsFresh /\ SaveIsFresh /\ Limits!ShownIsInForce
  BY DEF Limits!Init, Limits!Mounted, ReadingIsFresh, SaveIsFresh, Limits!ShownIsInForce
<1>. QED
  BY <1>1, <1>2 DEF LimitsInv

(* A write of the server, with whatever the page does not do meanwhile.    *)
LEMMA LimitsWrite ==
  ASSUME LimitsInv, NEW s \in Limits!Setting, Limits!Write(s),
         UNCHANGED <<page, reading>>, stray' \subseteq Limits!Setting,
         SaveIsFresh'
  PROVE  LimitsInv'
<1>1. Limits!TypeOK' /\ PageIsRecord'
  BY SavedRows, BudgetAssumption
  DEF LimitsInv, Limits!Write, Limits!TypeOK, PageIsRecord, Limits!BudgetAssumption
<1>2. ReadingIsFresh'
  BY AnswerGrowsStale DEF LimitsInv, ReadingIsFresh, Limits!Write, Limits!Asked, Limits!Answered
<1>3. Limits!ShownIsInForce'
  BY DEF Limits!ShownIsInForce, Limits!Write
<1>. QED
  BY <1>1, <1>2, <1>3 DEF LimitsInv

(* What is on its way when a save is: its setting, if nobody answered it.  *)
LEMMA StrayIsSetting ==
  ASSUME NEW s, s = <<>> \/ \E month, rows, old : IsSave(s, month, rows, old)
  PROVE  {s[1].setting : k \in {j \in DOMAIN s : s[j].at = "put"}} \subseteq Limits!Setting
<1>1. CASE s = <<>>
  BY <1>1
<1>2. CASE \E month, rows, old : IsSave(s, month, rows, old)
  BY <1>2 DEF IsSave
<1>. QED
  BY <1>1, <1>2

LEMMA LimitsNext ==
  ASSUME LimitsInv, Limits!Next
  PROVE  LimitsInv'
<1> USE DEF LimitsInv
<1>0. LimitsInv
  OBVIOUS
<1>1. CASE Limits!Navigate
  <2>1. PICK month \in Months \ {page.month} : Limits!Open(month)
    BY <1>1 DEF Limits!Navigate
  <2>2. page' = Limits!Mounted(month) /\ UNCHANGED <<table, stale, writes>>
        /\ reading' = Limits!Asked /\ save' = <<>>
    BY <2>1 DEF Limits!Open
  <2>3. stray' \subseteq Limits!Setting
    <3>1. save = <<>> \/ \E m, rows, old : IsSave(save, m, rows, old)
      BY <1>0 DEF SaveIsFresh
    <3>2. {save[1].setting : k \in {j \in DOMAIN save : save[j].at = "put"}} \subseteq Limits!Setting
      BY <3>1, StrayIsSetting
    <3>. QED
      BY <1>0, <2>1, <3>2 DEF Limits!Open, Limits!TypeOK
  <2>4. Limits!TypeOK'
    BY <1>0, <2>2, <2>3 DEF Limits!Mounted, Limits!TypeOK
  <2>. QED
    BY <2>2, <2>4 DEF Limits!Mounted, PageIsRecord, ReadingIsFresh, SaveIsFresh, Limits!ShownIsInForce
<1>2. CASE Limits!ReadList
  <2>1. save = <<>> /\ page.state = "loading"
    BY <1>2 DEF Limits!ReadList, Limits!Asked, ReadingIsFresh, SaveIsFresh
  <2>2. UNCHANGED <<table, page, save, stray, writes>>
        /\ reading' = Limits!Answered(Limits!List(table, page.month))
    BY <1>2 DEF Limits!ReadList
  <2>3. ReadingIsFresh'
    BY <2>1, <2>2, ListIsAnswer DEF ReadingIsFresh
  <2>. QED
    BY <2>1, <2>2, <2>3
    DEF Limits!TypeOK, PageIsRecord, SaveIsFresh, Limits!ShownIsInForce
<1>3. CASE Limits!ShowList
  <2>1. PICK list : reading = Limits!Answered(list) /\ IsAnswer(list, page.month, table, stale)
    BY <1>3 DEF Limits!ShowList, ReadingIsFresh
  <2>2. /\ page' = [page EXCEPT !.state = "ready", !.shown = list]
        /\ reading' = <<>> /\ UNCHANGED <<table, save, stray, stale, writes>>
    BY <1>3, <2>1 DEF Limits!ShowList, Limits!Answered
  <2>3. page' = [month |-> page.month, state |-> "ready", shown |-> list, notice |-> page.notice]
    BY <2>2 DEF PageIsRecord
  <2>4. DOMAIN list \subseteq Keys
    BY <2>1 DEF IsAnswer
  <2>5. Limits!TypeOK' /\ PageIsRecord'
    BY <2>2, <2>3, <2>4 DEF Limits!TypeOK, PageIsRecord
  <2>6. reading # <<>>
    BY <1>3 DEF Limits!ShowList
  <2>7. ReadingIsFresh' /\ SaveIsFresh'
    BY <2>2, <2>6 DEF ReadingIsFresh, SaveIsFresh
  <2>8. Limits!ShownIsInForce'
    BY <2>1, <2>2, <2>3 DEF Limits!ShownIsInForce, IsAnswer
  <2>. QED
    BY <2>5, <2>7, <2>8
<1>4. CASE Limits!ReadFails
  <2>1. /\ page' = [month |-> page.month, state |-> "error", shown |-> <<>>, notice |-> page.notice]
        /\ reading' = <<>> /\ UNCHANGED <<table, save, stray, stale, writes>>
        /\ reading # <<>>
    BY <1>4 DEF Limits!ReadFails, PageIsRecord
  <2>. QED
    BY <2>1
    DEF Limits!TypeOK, PageIsRecord, ReadingIsFresh, SaveIsFresh, Limits!ShownIsInForce
<1>5. CASE Limits!Retry
  <2>1. /\ page' = [month |-> page.month, state |-> "loading", shown |-> page.shown,
                    notice |-> page.notice]
        /\ reading' = Limits!Asked /\ UNCHANGED <<table, save, stray, stale, writes>>
        /\ page.state = "error"
    BY <1>5 DEF Limits!Retry, PageIsRecord
  <2>. QED
    BY <2>1
    DEF Limits!TypeOK, PageIsRecord, ReadingIsFresh, SaveIsFresh, Limits!ShownIsInForce
<1>6. CASE Limits!BeginSave
  <2>1. PICK key \in Spendable, limit \in Limits!Limits :
          save' = <<[setting |-> [key |-> key, month |-> page.month, limit |-> limit],
                     at |-> "put", list |-> <<>>]>>
    BY <1>6 DEF Limits!BeginSave
  <2>2. /\ page' = [month |-> page.month, state |-> page.state, shown |-> page.shown,
                    notice |-> <<>>]
        /\ UNCHANGED <<table, reading, stray, stale, writes>>
        /\ page.state = "ready"
    BY <1>6 DEF Limits!BeginSave, PageIsRecord
  <2>3. [key |-> key, month |-> page.month, limit |-> limit] \in Limits!Setting
    BY BudgetAssumption DEF Limits!BudgetAssumption, Limits!Setting, Limits!TypeOK
  <2>4. SaveIsFresh'
    BY <2>1, <2>2, <2>3 DEF SaveIsFresh, IsSave
  <2>. QED
    BY <2>1, <2>2, <2>4 DEF Limits!TypeOK, PageIsRecord, ReadingIsFresh, Limits!ShownIsInForce
<1>7. CASE Limits!PutSetting
  <2>1. save # <<>> /\ page.state = "ready"
    BY <1>7 DEF Limits!PutSetting, SaveIsFresh
  <2>2. PICK list : \E s \in Limits!Setting, at \in {"put", "list", "answered"} :
           /\ save = <<[setting |-> s, at |-> at, list |-> list]>>
           /\ s.key \in Spendable /\ s.month = page.month
    BY <2>1 DEF SaveIsFresh, IsSave
  <2>3. PICK s \in Limits!Setting :
           /\ save = <<[setting |-> s, at |-> "put", list |-> list]>>
           /\ s.key \in Spendable /\ s.month = page.month
    BY <1>7, <2>2 DEF Limits!PutSetting
  <2>4. Limits!Write(s) /\ UNCHANGED <<page, reading, stray>>
        /\ save' = <<[setting |-> s, at |-> "list", list |-> list]>>
    BY <1>7, <2>3 DEF Limits!PutSetting
  <2>5. IsSave(save', page.month, table', stale')
    BY <2>3, <2>4 DEF IsSave
  <2>6. SaveIsFresh'
    BY <2>1, <2>4, <2>5 DEF SaveIsFresh
  <2>. QED
    BY <2>4, <2>6, LimitsWrite DEF Limits!TypeOK
<1>8. CASE Limits!ReadBack
  <2>1. save # <<>> /\ page.state = "ready" /\ reading = <<>>
    BY <1>8 DEF Limits!ReadBack, SaveIsFresh, ReadingIsFresh
  <2>2. PICK list : \E s \in Limits!Setting, at \in {"put", "list", "answered"} :
           /\ save = <<[setting |-> s, at |-> at, list |-> list]>>
           /\ s.key \in Spendable /\ s.month = page.month
    BY <2>1 DEF SaveIsFresh, IsSave
  <2>3. PICK s \in Limits!Setting :
           /\ save = <<[setting |-> s, at |-> "list", list |-> list]>>
           /\ s.key \in Spendable /\ s.month = page.month
    BY <1>8, <2>2 DEF Limits!ReadBack
  <2>4. UNCHANGED <<table, page, reading, stray, writes>>
        /\ save' = <<[setting |-> s, at |-> "answered",
                      list |-> Limits!List(table, page.month)]>>
    <3> DEFINE read == Limits!List(table, page.month)
    <3>1. save[1].setting.month = page.month
      BY <2>3
    <3>2. save' = [save EXCEPT ![1].at = "answered", ![1].list = read]
      BY <1>8, <3>1 DEF Limits!ReadBack
    <3> HIDE DEF read
    <3> DEFINE marked == [save EXCEPT ![1].at = "answered"]
    <3>4. marked = <<[setting |-> s, at |-> "answered", list |-> list]>>
      BY <2>3
    <3>5. save' = [marked EXCEPT ![1].list = read]
      BY <3>2
    <3> HIDE DEF marked
    <3>3. save' = <<[setting |-> s, at |-> "answered", list |-> read]>>
      BY <3>4, <3>5
    <3>. QED
      BY <1>8, <3>3 DEF Limits!ReadBack, read
  <2>5. IsSave(save', page.month, table, stale')
    BY <2>3, <2>4, ListIsAnswer DEF IsSave
  <2>6. SaveIsFresh'
    BY <2>1, <2>4, <2>5 DEF SaveIsFresh
  <2>7. ReadingIsFresh'
    BY <2>1, <2>4 DEF ReadingIsFresh
  <2>. QED
    BY <2>4, <2>6, <2>7 DEF Limits!TypeOK, PageIsRecord, Limits!ShownIsInForce
<1>9. CASE Limits!SaveDone
  <2>1. save # <<>> /\ page.state = "ready"
    BY <1>9 DEF Limits!SaveDone, SaveIsFresh
  <2>2. PICK list : \E s \in Limits!Setting, at \in {"put", "list", "answered"} :
           /\ save = <<[setting |-> s, at |-> at, list |-> list]>>
           /\ at = "answered" => IsAnswer(list, page.month, table, stale)
    BY <2>1 DEF SaveIsFresh, IsSave
  <2>3. PICK s \in Limits!Setting :
           /\ save = <<[setting |-> s, at |-> "answered", list |-> list]>>
           /\ IsAnswer(list, page.month, table, stale)
    BY <1>9, <2>2 DEF Limits!SaveDone
  <2>4. \E word : page' = [month |-> page.month, state |-> "ready", shown |-> list,
                            notice |-> <<word>>]
    BY <1>9, <2>1, <2>3 DEF Limits!SaveDone, PageIsRecord
  <2>5. save' = <<>> /\ UNCHANGED <<table, reading, stray, stale, writes>>
    BY <1>9 DEF Limits!SaveDone
  <2>6. DOMAIN list \subseteq Keys /\ (~stale => list = Limits!List(table, page.month))
    BY <2>3 DEF IsAnswer
  <2>7. Limits!TypeOK' /\ PageIsRecord'
    BY <2>4, <2>5, <2>6 DEF Limits!TypeOK, PageIsRecord
  <2>8. ReadingIsFresh' /\ SaveIsFresh'
    BY <2>1, <2>5 DEF ReadingIsFresh, SaveIsFresh
  <2>9. Limits!ShownIsInForce'
    BY <2>4, <2>5, <2>6 DEF Limits!ShownIsInForce
  <2>. QED
    BY <2>7, <2>8, <2>9
<1>10. CASE Limits!SaveFails
  <2>1. /\ page' = [month |-> page.month, state |-> page.state, shown |-> page.shown,
                    notice |-> <<"unconfirmed">>]
        /\ save' = <<>> /\ UNCHANGED <<table, reading, stale, writes>>
    BY <1>10 DEF Limits!SaveFails, PageIsRecord
  <2>2. stray' \subseteq Limits!Setting
    <3>1. IsSave(save, page.month, table, stale)
      BY <1>10 DEF Limits!SaveFails, SaveIsFresh
    <3>2. {save[1].setting : k \in {j \in {1} : save[j].at = "put"}} \subseteq Limits!Setting
      BY <3>1 DEF IsSave
    <3>. QED
      BY <1>10, <3>2 DEF Limits!SaveFails, Limits!TypeOK
  <2>. QED
    BY <2>1, <2>2
    DEF Limits!TypeOK, PageIsRecord, ReadingIsFresh, SaveIsFresh, Limits!ShownIsInForce
<1>11. CASE Limits!StrayPut
  <2>1. PICK s \in stray : Limits!Write(s) /\ stray' = stray \ {s}
    BY <1>11 DEF Limits!StrayPut
  <2>2. UNCHANGED <<page, reading, save>> /\ stale' = TRUE
    BY <1>11, <2>1 DEF Limits!StrayPut, Limits!Write
  <2>3. SaveIsFresh'
    BY <2>2, SaveGrowsStale DEF SaveIsFresh
  <2>. QED
    BY <2>1, <2>2, <2>3, LimitsWrite DEF Limits!TypeOK
<1>12. CASE Limits!OtherPut
  <2>1. PICK s \in Limits!Setting : Limits!Write(s)
    BY <1>12 DEF Limits!OtherPut
  <2>2. UNCHANGED <<page, reading, save, stray>> /\ stale' = TRUE
    BY <1>12, <2>1 DEF Limits!OtherPut, Limits!Write
  <2>3. SaveIsFresh'
    BY <2>2, SaveGrowsStale DEF SaveIsFresh
  <2>. QED
    BY <2>1, <2>2, <2>3, LimitsWrite DEF Limits!TypeOK
<1>. QED
  BY <1>1, <1>2, <1>3, <1>4, <1>5, <1>6, <1>7, <1>8, <1>9, <1>10, <1>11, <1>12 DEF Limits!Next

LEMMA LimitsStep ==
  ASSUME case = "budgets" => LimitsInv, [MCNext]_mcVars
  PROVE  case' = "budgets" => LimitsInv'
<1> SUFFICES ASSUME case' = "budgets" PROVE LimitsInv'
  OBVIOUS
<1>0. LimitsInv
  BY DEF MCNext, SharesStep, EntryStep, BudgetStep, mcVars
<1>1. CASE Limits!Next
  BY <1>0, <1>1, LimitsNext
<1>2. CASE UNCHANGED budgetVars
  BY <1>0, <1>2 DEF budgetVars, LimitsInv, Limits!TypeOK, PageIsRecord, ReadingIsFresh, SaveIsFresh,
              Limits!ShownIsInForce
<1>. QED
  BY <1>1, <1>2 DEF MCNext, SharesStep, EntryStep, BudgetStep, mcVars

(* What the page shows of the limits, when it waits for nothing and doubts  *)
(* nothing, is what is in force in its month: for all categories,          *)
(* currencies, months and amounts, whoever writes and whatever fails.      *)
THEOREM ShownLimitsAreInForce == MCSpec => []ShownIsInForce
<1> DEFINE Inv == case = "budgets" => LimitsInv
<1>1. MCInit => Inv
  BY LimitsInit DEF MCInit
<1>2. Inv /\ [MCNext]_mcVars => Inv'
  BY LimitsStep
<1>3. Inv => ShownIsInForce
  BY DEF ShownIsInForce, LimitsInv
<1>. QED
  BY <1>1, <1>2, <1>3, PTL DEF MCSpec

(* The limit of a key in a month: that of its last setting up to then.     *)
LEMMA LimitIsLastSetting ==
  ASSUME NEW rows, NEW key \in Keys, NEW month \in Months
  PROVE  \/ /\ Limits!InForce(rows, key, month) = {}
            /\ Limits!LimitOf(Limits!List(rows, month), key) = Limits!NoLimit
         \/ \E m \in Limits!InForce(rows, key, month) :
              /\ \A n \in Limits!InForce(rows, key, month) : n <= m
              /\ Limits!LimitOf(Limits!List(rows, month), key) = rows[<<key, m>>]
<1> DEFINE S == Limits!InForce(rows, key, month)
<1>0. Months \subseteq Nat /\ S \subseteq Months /\ \A m \in S : m <= month
  BY BudgetAssumption DEF Limits!BudgetAssumption, Limits!InForce
<1>1. CASE S = {}
  BY <1>1 DEF Limits!LimitOf, Limits!List
<1>2. CASE S # {}
  <2>1. {month - m : m \in S} \subseteq Nat /\ {month - m : m \in S} # {}
    BY <1>0, <1>2
  <2>2. PICK gap \in {month - m : m \in S} : \A g \in {month - m : m \in S} : gap <= g
    BY <2>1, LeastNatural
  <2>3. PICK m \in S : gap = month - m
    BY <2>2
  <2>4. \A n \in S : n <= m
    <3> SUFFICES ASSUME NEW n \in S PROVE n <= m
      OBVIOUS
    <3>1. gap <= month - n
      BY <2>2
    <3>2. m \in Nat /\ n \in Nat /\ month \in Nat
      BY <1>0
    <3>. QED
      BY <2>3, <3>1, <3>2
  <2>5. \A n \in S : m >= n
    BY <1>0, <2>4
  <2>6. \A x \in S : (\A n \in S : x >= n) => x = m
    <3> SUFFICES ASSUME NEW x \in S, \A n \in S : x >= n PROVE x = m
      OBVIOUS
    <3>1. x >= m /\ x <= m
      BY <2>4
    <3>2. m \in Nat /\ x \in Nat
      BY <1>0
    <3>. QED
      BY <3>1, <3>2
  <2>7. Limits!Max(S) = m
    BY <2>5, <2>6 DEF Limits!Max
  <2> HIDE DEF S
  <2>8. Limits!List(rows, month)[key] = rows[<<key, m>>] /\ key \in DOMAIN Limits!List(rows, month)
    BY <1>2, <2>7 DEF Limits!List, S
  <2>. QED
    BY <2>4, <2>8 DEF Limits!LimitOf, S
<1>. QED
  BY <1>1, <1>2

(* The last setting of a key, when it was set before as well.              *)
LEMMA SameLastSetting ==
  ASSUME NEW rows, NEW next, NEW key \in Keys, NEW month \in Months,
         \A m \in Limits!InForce(rows, key, month) : m \in Limits!InForce(next, key, month),
         \A m \in Limits!InForce(next, key, month) :
            (\A n \in Limits!InForce(next, key, month) : n <= m) =>
               /\ m \in Limits!InForce(rows, key, month)
               /\ next[<<key, m>>] = rows[<<key, m>>]
  PROVE  Limits!LimitOf(Limits!List(next, month), key) = Limits!LimitOf(Limits!List(rows, month), key)
<1> DEFINE Old == Limits!InForce(rows, key, month)
           New == Limits!InForce(next, key, month)
           old == Limits!LimitOf(Limits!List(rows, month), key)
           new == Limits!LimitOf(Limits!List(next, month), key)
<1>1. \/ Old = {} /\ old = Limits!NoLimit
      \/ \E m \in Old : (\A n \in Old : n <= m) /\ old = rows[<<key, m>>]
  BY LimitIsLastSetting
<1>2. \/ New = {} /\ new = Limits!NoLimit
      \/ \E m \in New : (\A n \in New : n <= m) /\ new = next[<<key, m>>]
  BY LimitIsLastSetting
<1>3. Old \subseteq Nat
  BY BudgetAssumption DEF Limits!BudgetAssumption, Limits!InForce
<1>4. Old \subseteq New
        /\ \A m \in New : (\A n \in New : n <= m) => m \in Old /\ next[<<key, m>>] = rows[<<key, m>>]
  OBVIOUS
<1> HIDE DEF Old, New, old, new
<1>5. CASE New = {}
  BY <1>1, <1>2, <1>4, <1>5 DEF old, new
<1>6. CASE New # {}
  <2>1. PICK m \in New : (\A n \in New : n <= m) /\ new = next[<<key, m>>]
    BY <1>2, <1>6
  <2>2. m \in Old /\ new = rows[<<key, m>>]
    BY <1>4, <2>1
  <2>3. PICK n \in Old : (\A k \in Old : k <= n) /\ old = rows[<<key, n>>]
    BY <1>1, <2>2
  <2>4. n <= m /\ m <= n /\ n \in Nat /\ m \in Nat
    BY <1>3, <1>4, <2>1, <2>2, <2>3
  <2>5. n = m
    BY <2>4
  <2>. QED
    BY <2>2, <2>3, <2>5 DEF old, new
<1>. QED
  BY <1>5, <1>6

(* What is set is in force from its month up to the next setting.          *)
LEMMA SavedHoldsUntilTheNext ==
  ASSUME NEW rows, NEW s \in Limits!Setting, NEW key \in Keys, NEW month \in Months,
         NEW next, next = Limits!Saved(rows, s)
  PROVE  Limits!LimitOf(Limits!List(next, month), key) =
            IF key = s.key /\ key \in Spendable /\ month \in Limits!UpToTheNext(rows, s)
            THEN s.limit ELSE Limits!LimitOf(Limits!List(rows, month), key)
<1> DEFINE Old == Limits!InForce(rows, key, month)
           New == Limits!InForce(next, key, month)
<1>1. s.key \in Keys /\ s.month \in Months /\ Months \subseteq Nat
  BY BudgetAssumption DEF Limits!BudgetAssumption, Limits!Setting
<1>2. CASE s.key \notin Spendable
  BY <1>2 DEF Limits!Saved
<1>3. CASE s.key \in Spendable
  <2>1. /\ DOMAIN next = DOMAIN rows \cup {<<s.key, s.month>>}
        /\ next[<<s.key, s.month>>] = s.limit
        /\ \A k, m : <<k, m>> \in DOMAIN rows /\ <<k, m>> # <<s.key, s.month>> =>
              next[<<k, m>>] = rows[<<k, m>>]
    BY <1>3 DEF Limits!Saved
  <2>2. /\ \A m : m \in Old <=> m \in Months /\ m <= month /\ <<key, m>> \in DOMAIN rows
        /\ \A m : m \in New <=> m \in Months /\ m <= month /\ <<key, m>> \in DOMAIN next
    BY DEF Limits!InForce
  <2>3. \A m : m \in New => m \in Old \/ (key = s.key /\ m = s.month)
    BY <2>1, <2>2
  <2>4. \A m \in Old : m \in New
    BY <2>1, <2>2
  <2>5. month \in Limits!UpToTheNext(rows, s) <=>
          /\ s.month <= month
          /\ \A later \in Months :
                s.month < later /\ later <= month => <<s.key, later>> \notin DOMAIN rows
    BY DEF Limits!UpToTheNext
  <2>6. CASE key = s.key /\ month \in Limits!UpToTheNext(rows, s)
    <3>1. s.month \in New
      BY <1>1, <2>1, <2>2, <2>5, <2>6
    <3>2. PICK m \in New : /\ \A n \in New : n <= m
                           /\ Limits!LimitOf(Limits!List(next, month), key) = next[<<key, m>>]
      BY <3>1, LimitIsLastSetting
    <3>3. s.month <= m /\ m \in Months /\ m <= month
      BY <2>2, <3>1, <3>2
    <3>4. m = s.month
      <4> SUFFICES ASSUME m # s.month PROVE FALSE
        OBVIOUS
      <4>0. s.month \in Nat /\ m \in Nat /\ s.month <= m
        BY <1>1, <3>3
      <4>1. s.month < m
        BY <4>0
      <4>2. <<s.key, m>> \in DOMAIN rows
        BY <2>2, <2>3, <2>6
      <4>. QED
        BY <2>5, <2>6, <3>3, <4>1, <4>2
    <3>. QED
      BY <1>3, <2>1, <2>6, <3>2, <3>4
  <2>7. CASE ~(key = s.key /\ month \in Limits!UpToTheNext(rows, s))
    <3>1. ASSUME NEW m \in New, \A n \in New : n <= m
          PROVE  m \in Old /\ next[<<key, m>>] = rows[<<key, m>>]
      <4>1. ~(key = s.key /\ m = s.month)
        <5> SUFFICES ASSUME key = s.key, m = s.month PROVE FALSE
          OBVIOUS
        <5>1. PICK later \in Months : /\ s.month < later /\ later <= month
                                      /\ <<s.key, later>> \in DOMAIN rows
          BY <2>2, <2>5, <2>7
        <5>2. later \in New
          BY <2>1, <2>2, <5>1
        <5>3. later <= s.month /\ later \in Nat /\ s.month \in Nat
          BY <1>1, <3>1, <5>2
        <5>. QED
          BY <5>1, <5>3
      <4>2. m \in Old
        BY <2>3, <4>1
      <4>. QED
        BY <2>1, <2>2, <4>1, <4>2
    <3>2. Limits!LimitOf(Limits!List(next, month), key) = Limits!LimitOf(Limits!List(rows, month), key)
      BY <2>4, <3>1, SameLastSetting
    <3>. QED
      BY <2>7, <3>2
  <2>. QED
    BY <2>6, <2>7
<1>. QED
  BY <1>2, <1>3

(* A step writes nothing, or a setting that it may write.                  *)
LEMMA TableIsSaved ==
  ASSUME LimitsInv, Limits!Next
  PROVE  \/ writes' = writes /\ table' = table
         \/ \E s \in Limits!Setting :
               writes' # writes /\ Limits!MayWrite(s) /\ table' = Limits!Saved(table, s)
<1>0. writes \in Nat
  BY BudgetAssumption DEF LimitsInv, Limits!TypeOK, Limits!BudgetAssumption
<1>1. CASE Limits!PutSetting
  <2>1. PICK s \in Limits!Setting : s = save[1].setting
    BY <1>1 DEF Limits!PutSetting, LimitsInv, SaveIsFresh, IsSave
  <2>2. Limits!Write(s) /\ stray' = stray
    BY <1>1, <2>1 DEF Limits!PutSetting
  <2>. QED
    BY <1>0, <2>1, <2>2 DEF Limits!Write, Limits!MayWrite
<1>2. CASE Limits!StrayPut
  <2>1. PICK s \in stray : Limits!Write(s) /\ stray' = stray \ {s} /\ save' = save
    BY <1>2 DEF Limits!StrayPut
  <2>. QED
    BY <1>0, <2>1 DEF Limits!Write, Limits!MayWrite, LimitsInv, Limits!TypeOK
<1>3. CASE Limits!OtherPut
  BY <1>0, <1>3 DEF Limits!OtherPut, Limits!Write, Limits!MayWrite
<1>4. CASE ~(Limits!PutSetting \/ Limits!StrayPut \/ Limits!OtherPut)
  BY <1>4 DEF Limits!Next, Limits!Navigate, Limits!Open, Limits!ReadList, Limits!ShowList,
              Limits!ReadFails, Limits!Retry, Limits!BeginSave, Limits!ReadBack, Limits!SaveDone,
              Limits!SaveFails
<1>. QED
  BY <1>1, <1>2, <1>3, <1>4

(* What is set for a month is in force in every month up to the next       *)
(* setting of its key, and in no other month and for no other key does a   *)
(* write, or any other step, change a limit.                               *)
THEOREM LimitsHoldUntilTheNext == MCSpec => SettingHoldsUntilTheNext
<1> DEFINE Inv == case = "budgets" => LimitsInv
<1>1. MCSpec => []Inv
  <2>1. MCInit => Inv
    BY LimitsInit DEF MCInit
  <2>2. Inv /\ [MCNext]_mcVars => Inv'
    BY LimitsStep
  <2>. QED
    BY <2>1, <2>2, PTL DEF MCSpec
<1>2. Inv /\ [MCNext]_mcVars => [case = "budgets" => Limits!HoldsUntilTheNext]_mcVars
  <2> SUFFICES ASSUME Inv, MCNext, case = "budgets" PROVE Limits!HoldsUntilTheNext
    OBVIOUS
  <2>1. Limits!Next
    BY DEF MCNext, SharesStep, EntryStep, BudgetStep
  <2>2. CASE writes' = writes /\ table' = table
    BY <2>2 DEF Limits!HoldsUntilTheNext
  <2>3. CASE \E s \in Limits!Setting :
               writes' # writes /\ Limits!MayWrite(s) /\ table' = Limits!Saved(table, s)
    <3>1. PICK s \in Limits!Setting :
             writes' # writes /\ Limits!MayWrite(s) /\ table' = Limits!Saved(table, s)
      BY <2>3
    <3>2. \A key \in Keys, month \in Months :
             Limits!LimitOf(Limits!List(table', month), key) =
                IF key = s.key /\ key \in Spendable /\ month \in Limits!UpToTheNext(table, s)
                THEN s.limit ELSE Limits!LimitOf(Limits!List(table, month), key)
      BY <3>1, SavedHoldsUntilTheNext
    <3>. QED
      BY <3>1, <3>2 DEF Limits!HoldsUntilTheNext
  <2>. QED
    BY <2>1, <2>2, <2>3, TableIsSaved
<1>. QED
  BY <1>1, <1>2, PTL DEF MCSpec, SettingHoldsUntilTheNext

-----------------------------------------------------------------------------
(* The page /add.  What it says of an entry is true because every recording *)
(* is either told to the page, by an answer that a part of it still waits   *)
(* for, or past: the entry is in the ledger and no part of the page is      *)
(* about to record it again.  For the entries of the other recordings,      *)
(* "untold", nothing is promised.                                           *)

(* The calls of a submission, and those of a dialog.                       *)
Submits(call) == call.kind \in {"preview", "create"}
Asks(call) == call.kind \in {"list", "confirm", "category"}

DraftFits(draft) ==
    draft.entry \in Nat /\ draft.merchant \in Merchants /\ draft.entry <= form.entry

RecordedUnder(entry, category) ==
    \E k \in Entry!Recordings(entry) : category \in {0, txs[k].category}

(* What an answer says: a category of the server, which lasts, or that the *)
(* entry is in the ledger, under the category of the call if it has one.   *)
AnswerFits(call, answer) ==
    /\ call.kind = "preview" /\ answer.kind # "failed"
          /\ (answer.kind = "new" \/ call.draft.merchant \in EveryTime) =>
       answer.category \in categories
    /\ call.kind = "list" /\ answer.kind = "ok" => answer.categories \subseteq categories
    /\ call.kind = "category" /\ answer.kind = "ok" => call.category \in categories
    /\ Entry!Writes(call) /\ answer.kind = "ok" => RecordedUnder(call.draft.entry, call.category)

CallIsRecord(call) ==
    call = [kind |-> call.kind, draft |-> call.draft, category |-> call.category,
            answer |-> call.answer, mount |-> call.mount]

CallFits(call) ==
    /\ CallIsRecord(call) /\ DraftFits(call.draft) /\ (Submits(call) \/ Asks(call))
    /\ call.answer = <<>> \/ (call.answer = <<call.answer[1]>> /\ AnswerFits(call, call.answer[1]))
    /\ Asks(call) => call.mount # 0
    /\ call.kind = "create" => call.category = 0
    /\ call.kind = "confirm" => /\ call.category \in categories
                                /\ <<call.draft.entry, call.category>> \in confirmed
    /\ call.kind = "category" => call.category \in Named

DialogIsRecord(d) ==
    d = [draft |-> d.draft, mount |-> d.mount, status |-> d.status, listed |-> d.listed,
         selected |-> d.selected, suggested |-> d.suggested, busy |-> d.busy, error |-> d.error]

DialogFits(d) ==
    /\ DialogIsRecord(d) /\ DraftFits(d.draft)
    /\ d.suggested \in categories /\ d.listed \subseteq categories /\ d.selected \in d.listed
    /\ d.status # "ready" => d.selected = d.suggested
    /\ d.status \in {"ready", "error"} => d.mount # 0
    /\ d.status = "unmounted" => d.mount = 0
    /\ d.busy => d.status = "ready" /\ ~d.error

ServerFits ==
    /\ categories # {} /\ categories \subseteq Named
    /\ \A m \in DOMAIN rules : rules[m].category \in categories
    /\ txs \in Seq([entry : Nat, merchant : Merchants, category : Named])
    /\ \A k \in DOMAIN txs : txs[k].category \in categories

FormFits ==
    /\ form = [entry |-> form.entry, merchant |-> form.merchant]
    /\ form.entry \in Nat /\ form.entry # 0
    /\ form.merchant = Entry!NoMerchant \/ form.merchant \in Merchants

PageFits ==
    /\ ServerFits /\ FormFits /\ busy \in BOOLEAN
    /\ IsFiniteSet(calls) /\ \A call \in calls : CallFits(call)
    /\ dialog # <<>> => dialog = <<dialog[1]>> /\ DialogFits(dialog[1])
    /\ dialog # <<>> /\ ~online => dialog[1].status = "unmounted"

(* The form and the dialog wait for one call at a time, which is of the    *)
(* entry they are of.                                                      *)
CallIsAwaited(call) ==
    /\ Submits(call) => busy /\ dialog = <<>>
    /\ Asks(call) /\ Entry!Mounted(call) =>
          /\ call.draft = dialog[1].draft
          /\ call.kind = "list" => dialog[1].status = "loading"
          /\ call.kind # "list" => dialog[1].status = "ready" /\ dialog[1].busy

OneAtATime ==
    /\ \A call \in calls : CallIsAwaited(call)
    /\ \A c, d \in calls : Submits(c) /\ Submits(d) => c = d
    /\ \A c, d \in calls : Asks(c) /\ Entry!Mounted(c) /\ Asks(d) /\ Entry!Mounted(d) => c = d

(* A part of the page is about to record the entry.                        *)
Live(entry) ==
    \/ \E call \in calls : Submits(call) /\ call.draft.entry = entry
    \/ dialog # <<>> /\ dialog[1].draft.entry = entry

Tells(call) == Entry!Writes(call) /\ Entry!Succeeded(call) /\ Entry!Awaited(call)
Told(entry) == \E call \in calls : Tells(call) /\ call.draft.entry = entry
Past(entry) == ~Live(entry) /\ entry < form.entry
Unrecorded(entry) == entry \in untold \/ Entry!Recordings(entry) = {}

LedgerIsTold ==
    \A k \in DOMAIN txs : txs[k].entry \in untold \/ Told(txs[k].entry) \/ Past(txs[k].entry)

NoticesFit ==
    /\ \A entry \in cancelled : Unrecorded(entry) /\ ~Live(entry)
    /\ notice.kind = "nothing" =>
          Unrecorded(notice.entry) /\ dialog = <<>> /\ \A call \in calls : ~Submits(call)
    /\ dialog # <<>> /\ dialog[1].error => Unrecorded(dialog[1].draft.entry)
    /\ Entry!SavedIsRecorded /\ Entry!RecordedOnce

EntryInv == PageFits /\ OneAtATime /\ LedgerIsTold /\ NoticesFit

-----------------------------------------------------------------------------
(* The category that the server suggests exists: some category comes first *)
(* in the order of the suggestion, however many there are.                 *)

LEMMA LeastValue ==
  ASSUME NEW S, S # {}, NEW f \in [S -> Nat]
  PROVE  \E c \in S : \A d \in S : f[c] <= f[d]
<1>1. {f[c] : c \in S} \subseteq Nat /\ {f[c] : c \in S} # {}
  OBVIOUS
<1>2. PICK n \in {f[c] : c \in S} : \A k \in {f[c] : c \in S} : n <= k
  BY <1>1, LeastNatural
<1>3. PICK c \in S : f[c] = n
  BY <1>2
<1>4. \A d \in S : f[c] <= f[d]
  BY <1>2, <1>3
<1>. QED
  BY <1>4

(* The first of several by one measure, then by another.                   *)
LEMMA FirstByTwo ==
  ASSUME NEW S, S # {}, NEW f \in [S -> Nat], NEW g \in [S -> Nat]
  PROVE  \E c \in S : \A d \in S : f[c] < f[d] \/ (f[c] = f[d] /\ g[c] <= g[d])
<1>1. PICK a \in S : \A d \in S : f[a] <= f[d]
  BY LeastValue
<1> DEFINE T == {c \in S : f[c] = f[a]}
<1>2. T # {} /\ [c \in T |-> g[c]] \in [T -> Nat]
  OBVIOUS
<1>3. PICK c \in T : \A d \in T : [x \in T |-> g[x]][c] <= [x \in T |-> g[x]][d]
  <2> HIDE DEF T
  <2>. QED
    BY <1>2, LeastValue
<1>4. \A d \in T : g[c] <= g[d]
  BY <1>3
<1>5. \A d \in S : f[a] < f[d] \/ d \in T
  BY <1>1
<1>6. \A d \in S : f[c] < f[d] \/ (f[c] = f[d] /\ g[c] <= g[d])
  BY <1>4, <1>5
<1>. QED
  BY <1>6

(* c comes before d, or is d, by four measures in turn.                    *)
Precedes(c, d, f, g, h, e) ==
    \/ f[c] < f[d]
    \/ f[c] = f[d] /\ g[c] < g[d]
    \/ f[c] = f[d] /\ g[c] = g[d] /\ h[c] < h[d]
    \/ f[c] = f[d] /\ g[c] = g[d] /\ h[c] = h[d] /\ e[c] <= e[d]

First(S, f, g, h, e) == \E c \in S : \A d \in S : Precedes(c, d, f, g, h, e)

LEMMA FirstByFour ==
  ASSUME NEW S, S # {}, NEW f \in [S -> Nat], NEW g \in [S -> Nat],
         NEW h \in [S -> Nat], NEW e \in [S -> Nat]
  PROVE  First(S, f, g, h, e)
<1>1. PICK a \in S : \A d \in S : f[a] < f[d] \/ (f[a] = f[d] /\ g[a] <= g[d])
  BY FirstByTwo
<1> DEFINE T == {c \in S : f[c] = f[a] /\ g[c] = g[a]}
<1>2. T # {} /\ [x \in T |-> h[x]] \in [T -> Nat] /\ [x \in T |-> e[x]] \in [T -> Nat]
  OBVIOUS
<1> DEFINE hT == [x \in T |-> h[x]]
           eT == [x \in T |-> e[x]]
<1>3. PICK c \in T : \A d \in T : hT[c] < hT[d] \/ (hT[c] = hT[d] /\ eT[c] <= eT[d])
  <2> HIDE DEF T
  <2>1. T # {} /\ hT \in [T -> Nat] /\ eT \in [T -> Nat]
    BY <1>2
  <2> HIDE DEF hT, eT
  <2>. QED
    BY <2>1, FirstByTwo
<1>4. \A d \in T : h[c] < h[d] \/ (h[c] = h[d] /\ e[c] <= e[d])
  BY <1>3
<1>5. \A d \in S : f[a] < f[d] \/ (f[a] = f[d] /\ g[a] < g[d]) \/ d \in T
  BY <1>1
<1>6. \A d \in T : d \in S /\ f[d] = f[a] /\ g[d] = g[a]
  OBVIOUS
<1> HIDE DEF T
<1>7. ASSUME NEW d \in S PROVE Precedes(c, d, f, g, h, e)
  <2>1. CASE d \in T
    BY <1>4, <1>6, <2>1 DEF Precedes
  <2>2. CASE d \notin T
    BY <1>5, <1>6, <2>2 DEF Precedes
  <2>. QED
    BY <2>1, <2>2
<1>. QED
  BY <1>6, <1>7 DEF First

LEMMA SameCardinality == \A S : Entry!Cardinality(S) = Cardinality(S)
BY DEF Cardinality, Entry!Cardinality

LEMMA CountedUpToLen ==
  ASSUME NEW s, NEW n \in Nat, DOMAIN s = 1..n, NEW T, T \subseteq DOMAIN s
  PROVE  Cardinality(T) \in Nat /\ Cardinality(T) <= n
<1>1. IsFiniteSet(1..n) /\ Cardinality(1..n) = n
  BY FS_Interval
<1>2. IsFiniteSet(T) /\ Cardinality(T) <= Cardinality(1..n)
  BY <1>1, FS_Subset
<1>3. Cardinality(T) \in Nat
  BY <1>2, FS_CardinalityType
<1>. QED
  BY <1>1, <1>2, <1>3

LEMMA FirstByOrder ==
  ASSUME ServerFits, NEW m
  PROVE  \E c \in categories : \A d \in categories \ {c} : Entry!Before(m, c, d)
<1> DEFINE n == Len(txs)
           rank(k) == IF PreferredOf[m] = <<k>> THEN 0 ELSE IF Entry!Matches(k, m) > 0 THEN 1 ELSE 2
           f == [k \in categories |-> rank(k)]
           g == [k \in categories |-> n - Entry!Matches(k, m)]
           h == [k \in categories |-> n - Entry!Uses(k)]
           id == [k \in categories |-> k]
<1>1. n \in Nat /\ DOMAIN txs = 1..n
  BY DEF ServerFits
<1> HIDE DEF n
<1>2. ASSUME NEW k PROVE Entry!Matches(k, m) \in Nat /\ Entry!Matches(k, m) <= n
  <2> DEFINE T == {j \in DOMAIN txs : txs[j].category = k /\ txs[j].merchant = m}
  <2>1. T \subseteq DOMAIN txs
    OBVIOUS
  <2> HIDE DEF T
  <2>2. Cardinality(T) \in Nat /\ Cardinality(T) <= n
    BY <1>1, <2>1, CountedUpToLen
  <2>. QED
    BY <2>2, SameCardinality DEF Entry!Matches, T
<1>3. ASSUME NEW k PROVE Entry!Uses(k) \in Nat /\ Entry!Uses(k) <= n
  <2> DEFINE T == {j \in DOMAIN txs : txs[j].category = k}
  <2>1. T \subseteq DOMAIN txs
    OBVIOUS
  <2> HIDE DEF T
  <2>2. Cardinality(T) \in Nat /\ Cardinality(T) <= n
    BY <1>1, <2>1, CountedUpToLen
  <2>. QED
    BY <2>2, SameCardinality DEF Entry!Uses, T
<1>4. categories # {} /\ categories \subseteq Nat
  BY EntryAssumption DEF ServerFits, Entry!EntryAssumption
<1>5. \A k : rank(k) \in Nat
  BY Zenon, SMT
<1> HIDE DEF rank
<1>6. f \in [categories -> Nat] /\ g \in [categories -> Nat]
      /\ h \in [categories -> Nat] /\ id \in [categories -> Nat]
  BY <1>1, <1>2, <1>3, <1>4, <1>5
<1>7. PICK c \in categories : \A d \in categories : Precedes(c, d, f, g, h, id)
  <2>1. categories # {}
    BY <1>4
  <2> HIDE DEF f, g, h, id
  <2>2. First(categories, f, g, h, id)
    BY <2>1, <1>6, FirstByFour
  <2>. QED
    BY <2>2 DEF First
<1>8. \A d \in categories \ {c} : Entry!Before(m, c, d)
  <2> SUFFICES ASSUME NEW d \in categories \ {c} PROVE Entry!Before(m, c, d)
    OBVIOUS
  <2>1. \/ rank(c) < rank(d)
        \/ rank(c) = rank(d) /\ Entry!Matches(c, m) > Entry!Matches(d, m)
        \/ /\ rank(c) = rank(d) /\ Entry!Matches(c, m) = Entry!Matches(d, m)
           /\ Entry!Uses(c) > Entry!Uses(d)
        \/ /\ rank(c) = rank(d) /\ Entry!Matches(c, m) = Entry!Matches(d, m)
           /\ Entry!Uses(c) = Entry!Uses(d) /\ c < d
    BY <1>1, <1>2, <1>3, <1>4, <1>5, <1>7 DEF Precedes
  <2>. QED
    BY <2>1 DEF Entry!Before, rank
<1>. QED
  BY <1>8

(* What the server previews is known without being asked for, or in a      *)
(* category that exists.                                                   *)
LEMMA PreviewedFits ==
  ASSUME ServerFits, NEW m
  PROVE  /\ Entry!Previewed(m).kind \in {"known", "new"}
         /\ Entry!Previewed(m).kind = "new" \/ m \in EveryTime =>
               Entry!Previewed(m).category \in categories
<1> DEFINE first_ == CHOOSE c \in categories : \A d \in categories \ {c} : Entry!Before(m, c, d)
<1>1. first_ \in categories
  BY FirstByOrder
<1> HIDE DEF first_
<1>2. CASE Entry!RuleApplies(m) /\ m \notin EveryTime
  BY <1>2 DEF Entry!Previewed
<1>3. CASE ~(Entry!RuleApplies(m) /\ m \notin EveryTime)
  <2>1. Entry!Previewed(m) = [kind |-> "new", category |-> first_]
    BY <1>3 DEF Entry!Previewed, first_
  <2>. QED
    BY <1>1, <2>1
<1>. QED
  BY <1>2, <1>3

-----------------------------------------------------------------------------
(* The steps of the page /add.                                             *)

LEMMA EntryInit == Entry!Init => EntryInv
<1> SUFFICES ASSUME Entry!Init PROVE EntryInv
  OBVIOUS
<1>0. /\ categories = Seeded /\ txs = <<>>
      /\ rules = <<>> \/ \E m \in Merchants : rules \in [{m} -> [category : Seeded, active : {TRUE}]]
      /\ form = [entry |-> 1, merchant |-> Entry!NoMerchant] /\ busy = FALSE /\ dialog = <<>>
      /\ notice = [kind |-> "none"] /\ calls = {} /\ cancelled = {}
  BY DEF Entry!Init, Entry!Blank, Entry!Quiet
<1>1. txs \in Seq([entry : Nat, merchant : Merchants, category : Named]) /\ DOMAIN txs = {}
  <2>1. \A S : <<>> \in Seq(S) /\ DOMAIN <<>> = {}
    OBVIOUS
  <2>. QED
    BY <1>0, <2>1
<1>2. \A m \in DOMAIN rules : rules[m].category \in categories
  <2>1. CASE rules = <<>>
    BY <2>1
  <2>2. CASE \E m \in Merchants : rules \in [{m} -> [category : Seeded, active : {TRUE}]]
    BY <1>0, <2>2
  <2>. QED
    BY <1>0, <2>1, <2>2
<1>3. ServerFits
  BY <1>0, <1>1, <1>2, EntryAssumption DEF ServerFits, Entry!EntryAssumption
<1>4. FormFits
  <2>1. form = [entry |-> form.entry, merchant |-> form.merchant]
        /\ form.entry = 1 /\ form.merchant = Entry!NoMerchant
    BY <1>0
  <2>2. form.entry \in Nat /\ form.entry # 0
    BY <2>1
  <2>. QED
    BY <2>1, <2>2, Zenon DEF FormFits
<1>5. PageFits
  BY <1>0, <1>3, <1>4, FS_EmptySet DEF PageFits
<1>6. OneAtATime
  BY <1>0 DEF OneAtATime
<1>7. LedgerIsTold
  BY <1>1 DEF LedgerIsTold
<1>8. NoticesFit
  BY <1>0, <1>1 DEF NoticesFit, Entry!SavedIsRecorded, Entry!RecordedOnce
<1>. QED
  BY <1>5, <1>6, <1>7, <1>8 DEF EntryInv

(* What fits goes on to fit.                                               *)
LEMMA CallFitsOn ==
  ASSUME NEW call, CallFits(call), categories \subseteq categories', confirmed \subseteq confirmed',
         form.entry \in Nat, form'.entry \in Nat, form.entry <= form'.entry,
         \A e, c : RecordedUnder(e, c) => RecordedUnder(e, c)'
  PROVE  CallFits(call)'
<1>1. DraftFits(call.draft)'
  BY DEF CallFits, DraftFits
<1>2. CallIsRecord(call)'
  BY DEF CallFits, CallIsRecord
<1>3. \A a : AnswerFits(call, a) => AnswerFits(call, a)'
  BY DEF AnswerFits, Entry!Writes
<1>. QED
  BY <1>1, <1>2, <1>3 DEF CallFits, Submits, Asks

LEMMA DialogFitsOn ==
  ASSUME NEW d, DialogFits(d), categories \subseteq categories',
         form.entry \in Nat, form'.entry \in Nat, form.entry <= form'.entry
  PROVE  DialogFits(d)'
BY DEF DialogFits, DialogIsRecord, DraftFits

LEMMA SameLedger ==
  ASSUME txs' = txs
  PROVE  /\ \A e : Entry!Recordings(e)' = Entry!Recordings(e)
         /\ \A e, c : RecordedUnder(e, c)' <=> RecordedUnder(e, c)
BY DEF RecordedUnder, Entry!Recordings

(* The page after a step: what goes on, and the new calls and dialog, fit. *)
LEMMA PageGoesOn ==
  ASSUME PageFits, ServerFits', categories \subseteq categories', confirmed \subseteq confirmed',
         FormFits', form.entry <= form'.entry, busy' \in BOOLEAN,
         \A e, c : RecordedUnder(e, c) => RecordedUnder(e, c)',
         NEW C, IsFiniteSet(C), calls' \subseteq calls \cup C, \A c \in C : CallFits(c)',
         dialog' # <<>> => dialog' = <<dialog'[1]>> /\ DialogFits(dialog[1])',
         dialog' # <<>> /\ ~online' => dialog'[1].status = "unmounted"
  PROVE  PageFits'
<1>1. form.entry \in Nat /\ form'.entry \in Nat
  BY DEF PageFits, FormFits
<1>2. \A c \in calls : CallFits(c)'
  BY <1>1, CallFitsOn DEF PageFits
<1>3. IsFiniteSet(calls')
  <2>1. IsFiniteSet(calls \cup C)
    BY FS_Union DEF PageFits
  <2>. QED
    BY <2>1, FS_Subset
<1>4. \A c \in calls' : CallFits(c)'
  BY <1>2
<1>. QED
  BY <1>3, <1>4 DEF PageFits

(* A step that writes nothing to the ledger and sends one call at most.    *)
LEMMA PageFitsSends ==
  ASSUME PageFits, UNCHANGED <<categories, rules, txs>>, confirmed \subseteq confirmed',
         FormFits', form.entry <= form'.entry, busy' \in BOOLEAN,
         NEW new, calls' \subseteq calls \cup {new}, CallFits(new)',
         dialog' # <<>> => dialog' = <<dialog'[1]>> /\ DialogFits(dialog[1])',
         dialog' # <<>> /\ ~online' => dialog'[1].status = "unmounted"
  PROVE  PageFits'
<1> DEFINE C == {new}
<1>1. IsFiniteSet(C) /\ calls' \subseteq calls \cup C /\ \A c \in C : CallFits(c)'
  BY FS_Singleton
<1>2. ServerFits' /\ \A e, c : RecordedUnder(e, c) => RecordedUnder(e, c)'
  BY SameLedger DEF PageFits, ServerFits
<1> HIDE DEF C
<1>. QED
  BY <1>1, <1>2, PageGoesOn

LEMMA PageFitsFewer ==
  ASSUME PageFits, UNCHANGED <<categories, rules, txs>>, confirmed \subseteq confirmed',
         FormFits', form.entry <= form'.entry, busy' \in BOOLEAN, calls' \subseteq calls,
         dialog' # <<>> => dialog' = <<dialog'[1]>> /\ DialogFits(dialog[1])',
         dialog' # <<>> /\ ~online' => dialog'[1].status = "unmounted"
  PROVE  PageFits'
<1> DEFINE C == {}
<1>1. IsFiniteSet(C) /\ calls' \subseteq calls \cup C /\ \A c \in C : CallFits(c)'
  BY FS_EmptySet
<1>2. ServerFits' /\ \A e, c : RecordedUnder(e, c) => RecordedUnder(e, c)'
  BY SameLedger DEF PageFits, ServerFits
<1> HIDE DEF C
<1>. QED
  BY <1>1, <1>2, PageGoesOn

(* Of the calls that go on no dialog waits for one, and of the new ones    *)
(* there is one at most.                                                   *)
LEMMA OneStays ==
  ASSUME OneAtATime, NEW R, R \subseteq calls, NEW C, calls' \subseteq R \cup C,
         \A c, d \in C : c = d,
         \A r \in R : Asks(r) => ~Entry!Mounted(r)',
         \A r \in R : Submits(r) => busy' /\ dialog' = <<>> /\ \A c \in C : ~Submits(c),
         \A c \in C : CallIsAwaited(c)'
  PROVE  OneAtATime'
<1>1. \A r \in R : CallIsAwaited(r)'
  BY DEF CallIsAwaited, Submits, Asks
<1>2. \A c, d \in R \cup C : Submits(c)' /\ Submits(d)' => c = d
  BY DEF OneAtATime, Submits
<1>3. \A c, d \in R \cup C : (Asks(c) /\ Entry!Mounted(c) /\ Asks(d) /\ Entry!Mounted(d))' => c = d
  BY DEF Asks
<1>. QED
  BY <1>1, <1>2, <1>3 DEF OneAtATime

LEMMA OneStaysSends ==
  ASSUME OneAtATime, NEW R, R \subseteq calls, NEW new, calls' \subseteq R \cup {new},
         \A r \in R : Asks(r) => ~Entry!Mounted(r)',
         \A r \in R : Submits(r) => busy' /\ dialog' = <<>> /\ ~Submits(new),
         CallIsAwaited(new)'
  PROVE  OneAtATime'
<1> DEFINE C == {new}
<1>1. /\ calls' \subseteq R \cup C /\ \A c, d \in C : c = d
      /\ \A r \in R : Submits(r) => busy' /\ dialog' = <<>> /\ \A c \in C : ~Submits(c)
      /\ \A c \in C : CallIsAwaited(c)'
  OBVIOUS
<1> HIDE DEF C
<1>. QED
  BY <1>1, OneStays

LEMMA OneStaysFewer ==
  ASSUME OneAtATime, calls' \subseteq calls,
         \A r \in calls' : Asks(r) => ~Entry!Mounted(r)',
         \A r \in calls' : Submits(r) => busy' /\ dialog' = <<>>
  PROVE  OneAtATime'
BY DEF OneAtATime, CallIsAwaited, Submits, Asks

LEMMA OneStaysTheSame ==
  ASSUME OneAtATime, calls' \subseteq calls, UNCHANGED <<busy, dialog>>
  PROVE  OneAtATime'
BY DEF OneAtATime, CallIsAwaited, Submits, Asks, Entry!Mounted, Entry!Open

(* A recording that was told stays told, or is past.                       *)
LEMMA LedgerKept ==
  ASSUME PageFits, LedgerIsTold, UNCHANGED txs, untold \subseteq untold',
         FormFits', form.entry <= form'.entry,
         \A e : Live(e)' => Live(e) \/ ~(e < form.entry),
         \A w \in calls : Tells(w) /\ w.draft.entry \notin untold' =>
            (w \in calls' /\ Tells(w)') \/ Past(w.draft.entry)'
  PROVE  LedgerIsTold'
<1> SUFFICES ASSUME NEW k \in DOMAIN txs, txs[k].entry \notin untold'
             PROVE  Told(txs[k].entry)' \/ Past(txs[k].entry)'
  BY DEF LedgerIsTold
<1>1. PICK e : e = txs[k].entry
  OBVIOUS
<1>2. e \in Nat /\ form.entry \in Nat /\ form'.entry \in Nat
  <2> DEFINE S == [entry : Nat, merchant : Merchants, category : Named]
  <2>2. txs \in Seq(S)
    BY DEF PageFits, ServerFits
  <2>3. txs[k] \in S
    <3> HIDE DEF S
    <3>. QED
      BY <2>2
  <2>1. txs[k].entry \in Nat
    BY <2>3
  <2>. QED
    BY <1>1, <2>1 DEF PageFits, FormFits
<1>3. Told(e) \/ Past(e)
  BY <1>1 DEF LedgerIsTold
<1>4. CASE Told(e)
  BY <1>1, <1>4 DEF Told
<1>5. CASE Past(e)
  <2>1. e < form'.entry
    BY <1>2, <1>5 DEF Past
  <2>. QED
    BY <1>1, <1>5, <2>1 DEF Past
<1>. QED
  BY <1>1, <1>3, <1>4, <1>5

LEMMA NoticesKept ==
  ASSUME NoticesFit, txs' = txs, untold \subseteq untold',
         \A e \in cancelled' : (e \in cancelled \/ Unrecorded(e)') /\ ~Live(e)',
         notice'.kind = "nothing" => /\ notice' = notice \/ Unrecorded(notice.entry)'
                                     /\ dialog' = <<>> /\ \A call \in calls' : ~Submits(call),
         dialog' # <<>> /\ dialog'[1].error => Unrecorded(dialog[1].draft.entry)',
         notice'.kind = "saved" => notice' = notice \/ RecordedUnder(notice'.entry, notice'.category)
  PROVE  NoticesFit'
<1>1. \A e : Unrecorded(e) => Unrecorded(e)'
  BY SameLedger DEF Unrecorded
<1>2. Entry!SavedIsRecorded'
  <2>1. CASE notice'.kind = "saved" /\ notice' = notice
    BY <2>1, SameLedger DEF NoticesFit, Entry!SavedIsRecorded
  <2>2. CASE notice'.kind = "saved" /\ RecordedUnder(notice'.entry, notice'.category)
    BY <2>2, SameLedger DEF RecordedUnder, Entry!SavedIsRecorded
  <2>. QED
    BY <2>1, <2>2 DEF Entry!SavedIsRecorded
<1>3. Entry!RecordedOnce'
  BY DEF NoticesFit, Entry!RecordedOnce
<1>4. \A call : Submits(call)' <=> Submits(call)
  BY DEF Submits
<1>5. \A e \in cancelled' : Unrecorded(e)' /\ ~Live(e)'
  BY <1>1 DEF NoticesFit
<1>6. notice'.kind = "nothing" => Unrecorded(notice.entry)'
  BY <1>1 DEF NoticesFit
<1>. QED
  BY <1>2, <1>3, <1>4, <1>5, <1>6 DEF NoticesFit

(* What a part of the page is about to record is not in the ledger, unless *)
(* the page is about to be told so.                                        *)
LEMMA NotYetRecorded ==
  ASSUME LedgerIsTold, NEW e, Live(e), \A c \in calls : Tells(c) => c.draft.entry # e
  PROVE  Unrecorded(e)
BY DEF LedgerIsTold, Told, Past, Unrecorded, Entry!Recordings

LEMMA LiveFewer ==
  ASSUME NEW e, calls' \subseteq calls, dialog' = dialog \/ dialog' = <<>>, Live(e)'
  PROVE  Live(e)
BY DEF Live, Submits

LEMMA NewCallFits ==
  ASSUME NEW kind \in {"preview", "create", "list", "confirm", "category"}, NEW draft, NEW category,
         NEW mount, DraftFits(draft)',
         kind \in {"list", "confirm", "category"} => mount # 0,
         kind = "create" => category = 0,
         kind = "confirm" => category \in categories' /\ <<draft.entry, category>> \in confirmed',
         kind = "category" => category \in Named,
         NEW c, c = [kind |-> kind, draft |-> draft, category |-> category, answer |-> <<>>,
                     mount |-> mount]
  PROVE  /\ CallFits(c)' /\ ~Tells(c)'
         /\ c.kind = kind /\ c.draft = draft /\ c.category = category /\ c.answer = <<>>
         /\ c.mount = mount
BY DEF CallFits, CallIsRecord, Submits, Asks, Tells, Entry!Succeeded

(* What the calls and the dialog tell is told after a step of neither.     *)
LEMMA SameScreen ==
  ASSUME UNCHANGED <<calls, dialog>>
  PROVE  /\ \A e : Live(e)' <=> Live(e)
         /\ \A w \in calls : Tells(w)' <=> Tells(w)
BY DEF Live, Submits, Tells, Entry!Writes, Entry!Succeeded, Entry!Awaited, Entry!Mounted, Entry!Open

LEMMA FreshMountIsFresh ==
  ASSUME IsFiniteSet(calls)
  PROVE  Entry!FreshMount \in Nat /\ Entry!FreshMount # 0 /\ \A c \in calls : c.mount # Entry!FreshMount
<1> DEFINE n == Cardinality(calls)
           T == {c.mount : c \in calls}
           f == [c \in calls |-> c.mount]
<1>1. n \in Nat
  BY FS_CardinalityType
<1>2. IsFiniteSet(T) /\ Cardinality(T) <= n
  <2>1. f \in Surjection(calls, T)
    BY DEF Surjection
  <2> HIDE DEF f, T
  <2>. QED
    BY <2>1, FS_Surjection
<1>3. ~(1..(n + 1) \subseteq T)
  <2> HIDE DEF n, T
  <2> SUFFICES ASSUME 1..(n + 1) \subseteq T PROVE FALSE
    OBVIOUS
  <2>1. Cardinality(1..(n + 1)) = n + 1
    BY <1>1, FS_Interval
  <2>2. Cardinality(1..(n + 1)) <= Cardinality(T)
    BY <1>2, FS_Subset
  <2>3. Cardinality(T) \in Nat
    BY <1>2, FS_CardinalityType
  <2>. QED
    BY <1>1, <1>2, <2>1, <2>2, <2>3
<1>4. \E k \in 1..(n + 1) : \A c \in calls : c.mount # k
  BY <1>3
<1>5. Entry!Cardinality(calls) = n
  BY SameCardinality
<1> HIDE DEF n
<1>6. Entry!FreshMount \in 1..(n + 1) /\ \A c \in calls : c.mount # Entry!FreshMount
  BY <1>4, <1>5 DEF Entry!FreshMount
<1>. QED
  BY <1>1, <1>6

(* While the form is enabled no submission runs; while the dialog is, it   *)
(* waits for nothing, and no call is about to tell of its entry.           *)
LEMMA FormRests ==
  ASSUME OneAtATime, ~busy
  PROVE  \A call \in calls : ~Submits(call)
BY DEF OneAtATime, CallIsAwaited

LEMMA DialogRests ==
  ASSUME OneAtATime, dialog # <<>>, ~dialog[1].busy, dialog[1].status # "loading"
  PROVE  /\ \A call \in calls : ~Submits(call) /\ ~(Asks(call) /\ Entry!Mounted(call))
         /\ \A call \in calls : ~Tells(call)
BY DEF OneAtATime, CallIsAwaited, Tells, Entry!Writes, Entry!Awaited, Submits, Asks

LEMMA TypeKeeps == EntryInv /\ Entry!Type => EntryInv'
<1> SUFFICES ASSUME PageFits, OneAtATime, LedgerIsTold, NoticesFit, Entry!Type PROVE EntryInv'
  BY DEF EntryInv
<1>0. /\ UNCHANGED <<categories, rules, txs, online, busy, dialog, notice, calls,
                     confirmed, cancelled, untold>>
      /\ dialog = <<>>
      /\ \E m \in Merchants : \/ form' = [form EXCEPT !.merchant = m]
                              \/ form' = [entry |-> form.entry + 1, merchant |-> m]
  BY DEF Entry!Type, Entry!server, Entry!history
<1>1. FormFits' /\ form.entry <= form'.entry
  <2>1. PICK m \in Merchants : \/ form' = [form EXCEPT !.merchant = m]
                               \/ form' = [entry |-> form.entry + 1, merchant |-> m]
    BY <1>0
  <2>2. PICK k \in Nat : k = form.entry
    BY DEF PageFits, FormFits
  <2>3. form = [entry |-> form.entry, merchant |-> form.merchant] /\ k # 0
    BY <2>2 DEF PageFits, FormFits
  <2>4. form' = [entry |-> k, merchant |-> m] \/ form' = [entry |-> k + 1, merchant |-> m]
    BY <2>1, <2>2, <2>3
  <2>. QED
    BY <2>2, <2>3, <2>4 DEF FormFits
<1>2. PageFits'
  <2>1. busy' \in BOOLEAN
    BY <1>0 DEF PageFits
  <2>. QED
    BY <1>0, <1>1, <2>1, PageFitsFewer
<1>3. OneAtATime'
  BY <1>0, OneStaysTheSame
<1>4. LedgerIsTold'
  BY <1>0, <1>1, SameScreen, LedgerKept
<1>5. NoticesFit'
  BY <1>0, SameScreen, NoticesKept DEF NoticesFit
<1>. QED
  BY <1>2, <1>3, <1>4, <1>5 DEF EntryInv

LEMMA SubmitKeeps == EntryInv /\ Entry!Submit => EntryInv'
<1> SUFFICES ASSUME PageFits, OneAtATime, LedgerIsTold, NoticesFit, Entry!Submit PROVE EntryInv'
  BY DEF EntryInv
<1>0. /\ UNCHANGED <<categories, rules, txs, online, form, dialog, confirmed, untold>>
      /\ dialog = <<>> /\ ~busy /\ form.merchant # Entry!NoMerchant
      /\ busy' = TRUE /\ notice' = [kind |-> "none"]
      /\ calls' = calls \cup {Entry!Call("preview", form, 0)}
      /\ cancelled' = cancelled \ {form.entry}
  BY DEF Entry!Submit, Entry!Ready, Entry!server, Entry!Quiet
<1>1. FormFits' /\ form.entry \in Nat /\ form'.entry = form.entry
  BY <1>0 DEF PageFits, FormFits
<1>2. PICK draft : draft = form
  OBVIOUS
<1>10. PICK new : new = [kind |-> "preview", draft |-> draft, category |-> 0, answer |-> <<>>, mount |-> 0]
  OBVIOUS
<1>3. Entry!Call("preview", form, 0) = new
  BY <1>0, <1>2, <1>10 DEF Entry!Call
<1>4. CallFits(new)' /\ ~Tells(new)' /\ new.kind = "preview" /\ new.draft = draft
  <2>1. DraftFits(draft)'
    BY <1>0, <1>1, <1>2 DEF PageFits, FormFits, DraftFits
  <2>. QED
    BY <1>10, <2>1, NewCallFits
<1>5. PageFits'
  BY <1>0, <1>1, <1>3, <1>4, PageFitsSends
<1>6. OneAtATime'
  <2>1. \A r \in calls : ~Submits(r) /\ ~Entry!Mounted(r)'
    BY <1>0, FormRests DEF Entry!Mounted, Entry!Open
  <2>2. CallIsAwaited(new)'
    BY <1>0, <1>4 DEF CallIsAwaited, Asks, Submits
  <2>. QED
    <3> DEFINE R == calls
    <3>1. R \subseteq calls /\ calls' \subseteq R \cup {new}
      BY <1>0, <1>3
    <3>2. /\ \A r \in R : Asks(r) => ~Entry!Mounted(r)'
          /\ \A r \in R : Submits(r) => busy' /\ dialog' = <<>> /\ ~Submits(new)
      BY <2>1
    <3> HIDE DEF R
    <3>. QED
      BY <2>2, <3>1, <3>2, OneStaysSends
<1>7. \A e : Live(e)' => Live(e) \/ e = form.entry
  BY <1>0, <1>2, <1>3, <1>4 DEF Live, Submits
<1>8. LedgerIsTold'
  <2>1. \A w \in calls : w \in calls' /\ (Tells(w) => Tells(w)')
    BY <1>0 DEF Tells, Entry!Writes, Entry!Succeeded, Entry!Awaited, Entry!Mounted, Entry!Open
  <2>. QED
    BY <1>0, <1>1, <1>7, <2>1, LedgerKept
<1>9. NoticesFit'
  BY <1>0, <1>7, NoticesKept DEF NoticesFit
<1>. QED
  BY <1>5, <1>6, <1>8, <1>9 DEF EntryInv


(* A dialog that waits for nothing is shown anew, and sends a call or none. *)
LEMMA DialogReshown ==
  ASSUME EntryInv, dialog # <<>>, ~dialog[1].busy, dialog[1].status \in {"ready", "error"},
         UNCHANGED <<categories, rules, txs, online, form, busy, notice, cancelled, untold>>,
         confirmed \subseteq confirmed',
         NEW d, dialog' = <<d>>, DialogFits(d)', d.draft = dialog[1].draft, d.mount = dialog[1].mount,
         d.error => dialog[1].error,
         NEW new, calls' \in {calls, calls \cup {new}},
         calls' # calls => CallFits(new)' /\ CallIsAwaited(new)' /\ ~Submits(new)
  PROVE  EntryInv'
<1> USE DEF EntryInv
<1>1. FormFits' /\ form.entry <= form'.entry /\ busy' \in BOOLEAN /\ online'
  BY DEF PageFits, FormFits
<1>2. dialog' # <<>> /\ dialog'[1] = d
  OBVIOUS
<1>3. dialog' # <<>> => dialog' = <<dialog'[1]>> /\ DialogFits(dialog[1])'
  BY <1>2
<1>4. PageFits'
  <2>1. CASE calls' = calls
    BY <1>1, <1>3, <2>1, PageFitsFewer
  <2>2. CASE calls' # calls
    BY <1>1, <1>3, <2>2, PageFitsSends
  <2>. QED
    BY <2>1, <2>2
<1>5. \A call \in calls : ~Submits(call) /\ ~(Asks(call) /\ Entry!Mounted(call)) /\ ~Tells(call)
  BY DialogRests
<1>6. \A r \in calls : Asks(r) => ~Entry!Mounted(r)'
  BY <1>2, <1>5 DEF Entry!Mounted, Entry!Open
<1>7. OneAtATime'
  <2>1. CASE calls' = calls
    BY <1>5, <1>6, <2>1, OneStaysFewer
  <2>2. CASE calls' # calls
    <3> DEFINE R == calls
    <3>1. R \subseteq calls /\ calls' \subseteq R \cup {new}
      OBVIOUS
    <3>2. /\ \A r \in R : Asks(r) => ~Entry!Mounted(r)'
          /\ \A r \in R : Submits(r) => busy' /\ dialog' = <<>> /\ ~Submits(new)
      BY <1>5, <1>6
    <3> HIDE DEF R
    <3>. QED
      BY <2>2, <3>1, <3>2, OneStaysSends
  <2>. QED
    BY <2>1, <2>2
<1>8. \A e : Live(e)' => Live(e)
  <2>1. \A e, call : call \in calls' /\ Submits(call)' => call \in calls /\ Submits(call)
    BY DEF Submits
  <2>. QED
    BY <1>2, <2>1 DEF Live
<1>9. LedgerIsTold'
  BY <1>1, <1>5, <1>8, LedgerKept
<1>10. NoticesFit'
  <2>1. PICK e : e = dialog[1].draft.entry
    OBVIOUS
  <2>2. Unrecorded(e)' <=> Unrecorded(e)
    BY SameLedger DEF Unrecorded
  <2>3. d.error => Unrecorded(e)'
    BY <2>1, <2>2 DEF NoticesFit
  <2>4. dialog' # <<>> /\ dialog'[1].error => Unrecorded(dialog[1].draft.entry)'
    BY <1>2, <2>1, <2>3
  <2>5. notice'.kind # "nothing"
    BY DEF NoticesFit
  <2>. QED
    BY <1>8, <2>4, <2>5, NoticesKept DEF NoticesFit
<1>. QED
  BY <1>4, <1>7, <1>9, <1>10

LEMMA ChooseKeeps == EntryInv /\ Entry!Choose => EntryInv'
<1> SUFFICES ASSUME EntryInv, Entry!Choose PROVE EntryInv'
  OBVIOUS
<1>0. /\ UNCHANGED <<categories, rules, txs, online, form, busy, notice, cancelled, untold, confirmed,
                     calls>>
      /\ dialog # <<>> /\ dialog[1].status = "ready" /\ ~dialog[1].busy
      /\ \E c \in dialog[1].listed : dialog' = <<[dialog[1] EXCEPT !.selected = c]>>
  BY DEF Entry!Choose, Entry!Rest, Entry!server, Entry!history, Entry!Open, Entry!Update
<1>1. PICK c \in dialog[1].listed : dialog' = <<[dialog[1] EXCEPT !.selected = c]>>
  BY <1>0
<1>2. PICK old : old = dialog[1]
  OBVIOUS
<1>3. DialogFits(old) /\ DialogIsRecord(old)
  BY <1>0, <1>2 DEF EntryInv, PageFits, DialogFits
<1>4. PICK d : d = [draft |-> old.draft, mount |-> old.mount, status |-> old.status, listed |-> old.listed,
                    selected |-> c, suggested |-> old.suggested, busy |-> old.busy, error |-> old.error]
  OBVIOUS
<1>5. dialog' = <<d>>
  BY <1>1, <1>2, <1>3, <1>4 DEF DialogIsRecord
<1>6. DialogFits(d)' /\ d.draft = old.draft /\ d.mount = old.mount /\ d.error = old.error
  BY <1>0, <1>1, <1>2, <1>3, <1>4 DEF DialogFits, DialogIsRecord, DraftFits
<1>. QED
  BY <1>0, <1>2, <1>5, <1>6, DialogReshown


(* The dialog waits from a press of one of its buttons.                    *)
LEMMA BusyDialog ==
  ASSUME NEW d, DialogIsRecord(d)
  PROVE  [d EXCEPT !.busy = TRUE, !.error = FALSE] =
         [draft |-> d.draft, mount |-> d.mount, status |-> d.status, listed |-> d.listed,
          selected |-> d.selected, suggested |-> d.suggested, busy |-> TRUE, error |-> FALSE]
<1>1. PICK yes, no : yes = TRUE /\ no = FALSE
  OBVIOUS
<1>2. [d EXCEPT !.busy = TRUE, !.error = FALSE] = [[d EXCEPT !.busy = yes] EXCEPT !.error = no]
  BY <1>1
<1>3. PICK r : r = [d EXCEPT !.busy = yes]
  OBVIOUS
<1>4. r = [draft |-> d.draft, mount |-> d.mount, status |-> d.status, listed |-> d.listed,
           selected |-> d.selected, suggested |-> d.suggested, busy |-> yes, error |-> d.error]
  BY <1>3 DEF DialogIsRecord
<1>5. [r EXCEPT !.error = no] =
          [draft |-> d.draft, mount |-> d.mount, status |-> d.status, listed |-> d.listed,
           selected |-> d.selected, suggested |-> d.suggested, busy |-> yes, error |-> no]
  BY <1>4
<1>. QED
  BY <1>1, <1>2, <1>3, <1>5

LEMMA ConfirmKeeps == EntryInv /\ Entry!Confirm => EntryInv'
<1> SUFFICES ASSUME EntryInv, Entry!Confirm PROVE EntryInv'
  OBVIOUS
<1>1. PICK old : old = dialog[1]
  OBVIOUS
<1>0. /\ UNCHANGED <<categories, rules, txs, online, form, busy, notice, cancelled, untold>>
      /\ dialog # <<>> /\ old.status = "ready" /\ ~old.busy
      /\ dialog' = <<[old EXCEPT !.busy = TRUE, !.error = FALSE]>>
      /\ calls' = calls \cup {Entry!Call("confirm", old.draft, old.selected)}
      /\ confirmed' = confirmed \cup {<<old.draft.entry, old.selected>>}
  BY <1>1 DEF Entry!Confirm, Entry!server, Entry!Open, Entry!Update
<1>2. DialogFits(old) /\ DialogIsRecord(old) /\ FormFits
  BY <1>0, <1>1 DEF EntryInv, PageFits, DialogFits
<1>3. PICK d : d = [draft |-> old.draft, mount |-> old.mount, status |-> old.status, listed |-> old.listed,
                    selected |-> old.selected, suggested |-> old.suggested, busy |-> TRUE, error |-> FALSE]
  OBVIOUS
<1>4. dialog' = <<d>>
  BY <1>0, <1>2, <1>3, BusyDialog
<1>5. DialogFits(d)' /\ d.draft = old.draft /\ d.mount = old.mount /\ ~d.error /\ d.busy
      /\ d.status = "ready"
  BY <1>0, <1>2, <1>3 DEF DialogFits, DialogIsRecord, DraftFits
<1>6. PICK new : new = [kind |-> "confirm", draft |-> old.draft, category |-> old.selected,
                        answer |-> <<>>, mount |-> old.mount]
  OBVIOUS
<1>7. Entry!Call("confirm", old.draft, old.selected) = new
  BY <1>0, <1>1, <1>6 DEF Entry!Call
<1>8. CallFits(new)' /\ new.kind = "confirm" /\ new.draft = old.draft /\ new.mount = old.mount
  <2>1. DraftFits(old.draft)' /\ old.mount # 0 /\ old.selected \in categories'
        /\ <<old.draft.entry, old.selected>> \in confirmed'
    BY <1>0, <1>2 DEF DialogFits, DraftFits
  <2>2. PICK draft, chosen : draft = old.draft /\ chosen = old.selected
    OBVIOUS
  <2>3. DraftFits(draft)' /\ old.mount # 0 /\ chosen \in categories'
        /\ <<draft.entry, chosen>> \in confirmed'
    BY <2>1, <2>2
  <2>. QED
    BY <1>6, <2>2, <2>3, NewCallFits
<1>9. CallIsAwaited(new)' /\ ~Submits(new)
  BY <1>4, <1>5, <1>8 DEF CallIsAwaited, Submits, Asks
<1>. QED
  BY <1>0, <1>1, <1>4, <1>5, <1>7, <1>8, <1>9, DialogReshown

LEMMA CreateKeeps == EntryInv /\ Entry!Create => EntryInv'
<1> SUFFICES ASSUME EntryInv, Entry!Create PROVE EntryInv'
  OBVIOUS
<1>1. PICK old : old = dialog[1]
  OBVIOUS
<1>0. /\ UNCHANGED <<categories, rules, txs, online, form, busy, notice, cancelled, untold, confirmed>>
      /\ dialog # <<>> /\ old.status = "ready" /\ ~old.busy
      /\ dialog' = <<[old EXCEPT !.busy = TRUE, !.error = FALSE]>>
      /\ \E c \in Named : calls' = calls \cup {Entry!Call("category", old.draft, c)}
  BY <1>1 DEF Entry!Create, Entry!Rest, Entry!server, Entry!history, Entry!Open, Entry!Update
<1>2. DialogFits(old) /\ DialogIsRecord(old) /\ FormFits
  BY <1>0, <1>1 DEF EntryInv, PageFits, DialogFits
<1>3. PICK d : d = [draft |-> old.draft, mount |-> old.mount, status |-> old.status, listed |-> old.listed,
                    selected |-> old.selected, suggested |-> old.suggested, busy |-> TRUE, error |-> FALSE]
  OBVIOUS
<1>4. dialog' = <<d>>
  BY <1>0, <1>2, <1>3, BusyDialog
<1>5. DialogFits(d)' /\ d.draft = old.draft /\ d.mount = old.mount /\ ~d.error /\ d.busy
      /\ d.status = "ready"
  BY <1>0, <1>2, <1>3 DEF DialogFits, DialogIsRecord, DraftFits
<1>10. PICK c \in Named : calls' = calls \cup {Entry!Call("category", old.draft, c)}
  BY <1>0
<1>6. PICK new : new = [kind |-> "category", draft |-> old.draft, category |-> c,
                        answer |-> <<>>, mount |-> old.mount]
  OBVIOUS
<1>7. Entry!Call("category", old.draft, c) = new
  BY <1>0, <1>1, <1>6 DEF Entry!Call
<1>8. CallFits(new)' /\ new.kind = "category" /\ new.draft = old.draft /\ new.mount = old.mount
  <2>1. DraftFits(old.draft)' /\ old.mount # 0
    BY <1>0, <1>2 DEF DialogFits, DraftFits
  <2>. QED
    BY <1>10, <1>6, <2>1, NewCallFits
<1>9. CallIsAwaited(new)' /\ ~Submits(new)
  BY <1>4, <1>5, <1>8 DEF CallIsAwaited, Submits, Asks
<1>. QED
  BY <1>0, <1>1, <1>4, <1>5, <1>10, <1>7, <1>8, <1>9, DialogReshown

LEMMA ReloadKeeps == EntryInv /\ Entry!Reload => EntryInv'
<1> SUFFICES ASSUME EntryInv, Entry!Reload PROVE EntryInv'
  OBVIOUS
<1>1. PICK old : old = dialog[1]
  OBVIOUS
<1>0. /\ UNCHANGED <<categories, rules, txs, online, form, busy, notice, cancelled, untold, confirmed>>
      /\ dialog # <<>> /\ old.status = "error"
      /\ dialog' = <<[old EXCEPT !.status = "loading"]>>
      /\ calls' = calls \cup {Entry!Call("list", old.draft, 0)}
  BY <1>1 DEF Entry!Reload, Entry!Rest, Entry!server, Entry!history, Entry!Open, Entry!Update
<1>2. DialogFits(old) /\ DialogIsRecord(old) /\ FormFits
  BY <1>0, <1>1 DEF EntryInv, PageFits, DialogFits
<1>3. PICK d : d = [draft |-> old.draft, mount |-> old.mount, status |-> "loading", listed |-> old.listed,
                    selected |-> old.selected, suggested |-> old.suggested, busy |-> old.busy,
                    error |-> old.error]
  OBVIOUS
<1>4. dialog' = <<d>>
  BY <1>0, <1>2, <1>3 DEF DialogIsRecord
<1>5. DialogFits(d)' /\ d.draft = old.draft /\ d.mount = old.mount /\ d.error = old.error
      /\ d.status = "loading" /\ ~old.busy
  BY <1>0, <1>2, <1>3 DEF DialogFits, DialogIsRecord, DraftFits
<1>6. PICK new : new = [kind |-> "list", draft |-> old.draft, category |-> 0,
                        answer |-> <<>>, mount |-> old.mount]
  OBVIOUS
<1>7. Entry!Call("list", old.draft, 0) = new
  BY <1>0, <1>1, <1>6 DEF Entry!Call
<1>8. CallFits(new)' /\ new.kind = "list" /\ new.draft = old.draft /\ new.mount = old.mount
  <2>1. DraftFits(old.draft)' /\ old.mount # 0
    BY <1>0, <1>2 DEF DialogFits, DraftFits
  <2>. QED
    BY <1>6, <2>1, NewCallFits
<1>9. CallIsAwaited(new)' /\ ~Submits(new)
  BY <1>4, <1>5, <1>8 DEF CallIsAwaited, Submits, Asks
<1>. QED
  BY <1>0, <1>1, <1>4, <1>5, <1>7, <1>8, <1>9, DialogReshown

LEMMA OtherTabKeeps == EntryInv /\ Entry!OtherTab => EntryInv'
<1> SUFFICES ASSUME PageFits, OneAtATime, LedgerIsTold, NoticesFit, Entry!OtherTab PROVE EntryInv'
  BY DEF EntryInv
<1>0. /\ UNCHANGED <<categories, txs, online, form, busy, dialog, notice, calls,
                     confirmed, cancelled, untold>>
      /\ \E m, c, active : c \in categories
            /\ rules' = Entry!WithRule(m, [category |-> c, active |-> active])
  BY DEF Entry!OtherTab, Entry!page, Entry!history
<1>1. ServerFits'
  <2>1. PICK m, c, active : c \in categories
              /\ rules' = Entry!WithRule(m, [category |-> c, active |-> active])
    BY <1>0
  <2>2. \A k \in DOMAIN rules' : rules'[k].category \in categories
    BY <2>1 DEF Entry!WithRule, PageFits, ServerFits
  <2>. QED
    BY <1>0, <2>2 DEF PageFits, ServerFits
<1>2. PageFits'
  <2> DEFINE C == {}
  <2>1. IsFiniteSet(C) /\ calls' \subseteq calls \cup C /\ \A c \in C : CallFits(c)'
    BY <1>0, FS_EmptySet
  <2>2. \A e, c : RecordedUnder(e, c) => RecordedUnder(e, c)'
    BY <1>0, SameLedger
  <2>3. FormFits' /\ form.entry <= form'.entry /\ busy' \in BOOLEAN
    BY <1>0 DEF PageFits, FormFits
  <2>4. dialog' # <<>> => dialog' = <<dialog'[1]>> /\ DialogFits(dialog[1])'
    BY <1>0 DEF PageFits, DialogFits, DialogIsRecord, DraftFits
  <2>5. dialog' # <<>> /\ ~online' => dialog'[1].status = "unmounted"
    BY <1>0 DEF PageFits
  <2> HIDE DEF C
  <2>. QED
    BY <1>0, <1>1, <2>1, <2>2, <2>3, <2>4, <2>5, PageGoesOn
<1>3. OneAtATime'
  BY <1>0, OneStaysTheSame
<1>4. LedgerIsTold'
  BY <1>0, SameScreen, LedgerKept DEF PageFits, FormFits
<1>5. NoticesFit'
  <2>1. \A e : Unrecorded(e)' <=> Unrecorded(e)
    BY <1>0, SameLedger DEF Unrecorded
  <2>2. \A e : Live(e)' <=> Live(e)
    BY <1>0, SameScreen
  <2>3. Entry!SavedIsRecorded' /\ Entry!RecordedOnce'
    BY <1>0 DEF NoticesFit, Entry!SavedIsRecorded, Entry!RecordedOnce, Entry!Recordings
  <2>4. dialog' # <<>> /\ dialog'[1].error => Unrecorded(dialog[1].draft.entry)'
    BY <1>0, SameLedger DEF NoticesFit, Unrecorded, Entry!Recordings
  <2>5. notice'.kind = "nothing" =>
          Unrecorded(notice.entry)' /\ dialog' = <<>> /\ \A call \in calls' : ~Submits(call)'
    BY <1>0, SameLedger DEF NoticesFit, Unrecorded, Entry!Recordings, Submits
  <2>. QED
    BY <1>0, <2>1, <2>2, <2>3, <2>4, <2>5 DEF NoticesFit
<1>. QED
  BY <1>2, <1>3, <1>4, <1>5 DEF EntryInv


(* What the dialog waits for and no part of the page will learn is untold. *)
LEMMA UnwatchedTells ==
  ASSUME OneAtATime, dialog # <<>>, Entry!Unwatched
  PROVE  \A w \in calls : Tells(w) => w.draft.entry \in untold'
<1> SUFFICES ASSUME NEW w \in calls, Tells(w) PROVE w.draft.entry \in untold'
  OBVIOUS
<1>1. w.kind # "create"
  BY DEF OneAtATime, CallIsAwaited, Submits
<1>2. w \in {c \in calls : c.kind = "confirm" /\ Entry!Mounted(c) /\ Entry!Succeeded(c)}
  BY <1>1 DEF Tells, Entry!Writes, Entry!Awaited
<1>. QED
  BY <1>2 DEF Entry!Unwatched

LEMMA CancelKeeps == EntryInv /\ Entry!Cancel => EntryInv'
<1> SUFFICES ASSUME PageFits, OneAtATime, LedgerIsTold, NoticesFit, Entry!Cancel PROVE EntryInv'
  BY DEF EntryInv
<1>1. PICK e : e = dialog[1].draft.entry
  OBVIOUS
<1>0. /\ UNCHANGED <<categories, rules, txs, online, form, busy, notice, confirmed>>
      /\ dialog # <<>> /\ dialog' = <<>> /\ calls' \subseteq calls
      /\ cancelled' = cancelled \cup {e} /\ untold \subseteq untold' /\ Entry!Unwatched
  BY <1>1 DEF Entry!Cancel, Entry!server, Entry!Open, Entry!Unwatched
<1>2. PageFits'
  <2>1. FormFits' /\ form.entry <= form'.entry /\ busy' \in BOOLEAN
    BY <1>0 DEF PageFits, FormFits
  <2>. QED
    BY <1>0, <2>1, PageFitsFewer
<1>3. \A call \in calls : ~Submits(call)
  BY <1>0 DEF OneAtATime, CallIsAwaited
<1>4. OneAtATime'
  BY <1>0, <1>3, OneStaysFewer DEF Entry!Mounted, Entry!Open
<1>5. \A w \in calls : Tells(w) => w.draft.entry \in untold'
  BY <1>0, UnwatchedTells
<1>6. \A entry : ~Live(entry)'
  BY <1>0, <1>3 DEF Live, Submits
<1>7. LedgerIsTold'
  <2>1. form.entry <= form'.entry /\ FormFits'
    BY <1>0 DEF PageFits, FormFits
  <2>. QED
    BY <1>0, <1>5, <1>6, <2>1, LedgerKept
<1>8. Unrecorded(e)'
  <2>1. CASE \E w \in calls : Tells(w) /\ w.draft.entry = e
    BY <1>5, <2>1 DEF Unrecorded
  <2>2. CASE \A w \in calls : Tells(w) => w.draft.entry # e
    <3>1. Live(e)
      BY <1>0, <1>1 DEF Live
    <3>2. Unrecorded(e)
      BY <2>2, <3>1, NotYetRecorded
    <3>. QED
      BY <1>0, <3>2, SameLedger DEF Unrecorded
  <2>. QED
    BY <2>1, <2>2
<1>9. NoticesFit'
  <2>1. notice'.kind # "nothing"
    BY <1>0 DEF NoticesFit
  <2>. QED
    BY <1>0, <1>6, <1>8, <2>1, NoticesKept
<1>. QED
  BY <1>2, <1>4, <1>7, <1>9 DEF EntryInv

(* The dialog of a draft fits when its draft and its suggestion do.        *)
LEMMA ShownFits ==
  ASSUME NEW draft, NEW suggested, NEW status \in {"loading", "unmounted"}, NEW mount \in Nat,
         status = "unmounted" => mount = 0,
         DraftFits(draft)', suggested \in categories',
         NEW d, d = Entry!Shown(draft, suggested, status, mount)
  PROVE  /\ DialogFits(d)' /\ d.draft = draft /\ d.mount = mount /\ d.status = status /\ ~d.error
<1>1. PICK no : no = FALSE
  OBVIOUS
<1>2. d = [draft |-> draft, mount |-> mount, status |-> status, listed |-> {suggested},
           selected |-> suggested, suggested |-> suggested, busy |-> no, error |-> no]
  BY <1>1 DEF Entry!Shown
<1>. QED
  BY <1>1, <1>2 DEF DialogFits, DialogIsRecord

LEMMA GoOfflineKeeps == EntryInv /\ Entry!GoOffline => EntryInv'
<1> SUFFICES ASSUME PageFits, OneAtATime, LedgerIsTold, NoticesFit, Entry!GoOffline PROVE EntryInv'
  BY DEF EntryInv
<1>0. /\ UNCHANGED <<categories, rules, txs, busy, notice, confirmed, cancelled>>
      /\ online' = FALSE
      /\ form' = [entry |-> form.entry, merchant |-> Entry!NoMerchant]
      /\ dialog' = IF dialog # <<>> THEN <<Entry!Unmounted(dialog[1].draft, dialog[1].suggested)>> ELSE <<>>
      /\ calls' = {call \in calls : call.kind # "list"} /\ untold \subseteq untold' /\ Entry!Unwatched
  BY DEF Entry!GoOffline, Entry!server, Entry!Open, Entry!Unwatched, Entry!Blank
<1>1. FormFits' /\ form.entry <= form'.entry /\ busy' \in BOOLEAN
  BY <1>0 DEF PageFits, FormFits
<1>2. calls' \subseteq calls
  BY <1>0
<1>3. ASSUME dialog = <<>> PROVE EntryInv'
  <2>1. dialog' = dialog
    BY <1>0, <1>3
  <2>2. PageFits'
    BY <1>0, <1>1, <1>2, <1>3, <2>1, PageFitsFewer
  <2>3. OneAtATime'
    BY <1>0, <1>2, <2>1, OneStaysTheSame
  <2>4. \A e : Live(e)' => Live(e)
    BY <1>2, <2>1, LiveFewer
  <2>5. \A w \in calls : Tells(w) => w \in calls' /\ Tells(w)'
    BY <1>0, <2>1 DEF Tells, Entry!Writes, Entry!Succeeded, Entry!Awaited, Entry!Mounted, Entry!Open
  <2>6. LedgerIsTold'
    BY <1>0, <1>1, <2>4, <2>5, LedgerKept
  <2>7. NoticesFit'
    BY <1>0, <1>2, <1>3, <2>1, <2>4, NoticesKept DEF NoticesFit
  <2>. QED
    BY <2>2, <2>3, <2>6, <2>7 DEF EntryInv
<1>4. ASSUME dialog # <<>> PROVE EntryInv'
  <2>1. PICK draft, suggested : draft = dialog[1].draft /\ suggested = dialog[1].suggested
    OBVIOUS
  <2>2. PICK d : d = Entry!Shown(draft, suggested, "unmounted", 0)
    OBVIOUS
  <2>3. dialog' = <<d>>
    BY <1>0, <1>4, <2>1, <2>2 DEF Entry!Unmounted
  <2>4. DialogFits(d)' /\ d.draft = draft /\ d.mount = 0 /\ d.status = "unmounted" /\ ~d.error
    <3>1. DraftFits(draft) /\ suggested \in categories'
      BY <1>0, <1>4, <2>1 DEF PageFits, DialogFits
    <3>2. DraftFits(draft)'
      BY <1>0, <3>1 DEF DraftFits
    <3>. QED
      BY <2>2, <3>1, <3>2, ShownFits
  <2>5. dialog' # <<>> /\ dialog'[1] = d
    BY <2>3
  <2>6. PageFits'
    <3>1. dialog' = <<dialog'[1]>> /\ DialogFits(dialog[1])'
      BY <2>3, <2>4, <2>5
    <3>. QED
      BY <1>0, <1>1, <1>2, <2>4, <2>5, <3>1, PageFitsFewer
  <2>7. \A call \in calls : ~Submits(call)
    BY <1>4 DEF OneAtATime, CallIsAwaited
  <2>8. OneAtATime'
    <3>1. \A r \in calls : Asks(r) => ~Entry!Mounted(r)'
      BY <2>4, <2>5 DEF PageFits, CallFits, Entry!Mounted
    <3>. QED
      BY <1>2, <2>7, <3>1, OneStaysFewer
  <2>9. \A e : Live(e)' => Live(e)
    BY <1>2, <1>4, <2>1, <2>4, <2>5 DEF Live, Submits
  <2>10. LedgerIsTold'
    <3>1. \A w \in calls : Tells(w) => w.draft.entry \in untold'
      BY <1>0, <1>4, UnwatchedTells
    <3>. QED
      BY <1>0, <1>1, <2>9, <3>1, LedgerKept
  <2>11. NoticesFit'
    <3>1. notice'.kind # "nothing"
      BY <1>0, <1>4 DEF NoticesFit
    <3>. QED
      BY <1>0, <2>4, <2>5, <2>9, <3>1, NoticesKept DEF NoticesFit
  <2>. QED
    BY <2>6, <2>8, <2>10, <2>11 DEF EntryInv
<1>. QED
  BY <1>3, <1>4

(* A dialog is mounted where no dialog is, or an unmounted one.            *)
LEMMA MountFits ==
  ASSUME PageFits, OneAtATime, UNCHANGED <<categories, rules, txs, form, confirmed>>,
         online', busy' \in BOOLEAN, NEW draft, DraftFits(draft), NEW suggested \in categories,
         NEW others, others \subseteq calls, \A call \in others : ~Submits(call),
         Entry!Mount(draft, suggested, others)
  PROVE  /\ PageFits' /\ OneAtATime'
         /\ dialog' # <<>> /\ dialog'[1].draft = draft /\ ~dialog'[1].error
         /\ \A call \in calls' : ~Submits(call)
<1>1. PICK mount : mount = Entry!FreshMount
  OBVIOUS
<1>2. mount \in Nat /\ mount # 0 /\ \A call \in calls : call.mount # mount
  BY <1>1, FreshMountIsFresh DEF PageFits
<1>3. PICK d : d = Entry!Shown(draft, suggested, "loading", mount)
  OBVIOUS
<1>4. PICK new : new = [kind |-> "list", draft |-> draft, category |-> 0, answer |-> <<>>, mount |-> mount]
  OBVIOUS
<1>5. dialog' = <<d>> /\ calls' = others \cup {new}
  BY <1>1, <1>3, <1>4 DEF Entry!Mount
<1>6. DraftFits(draft)' /\ suggested \in categories'
  BY DEF DraftFits
<1>7. DialogFits(d)' /\ d.draft = draft /\ d.mount = mount /\ d.status = "loading" /\ ~d.error
  <2>1. PICK status : status = "loading"
    OBVIOUS
  <2>2. status \in {"loading", "unmounted"} /\ (status = "unmounted" => mount = 0)
        /\ d = Entry!Shown(draft, suggested, status, mount)
    BY <1>3, <2>1
  <2>3. DialogFits(d)' /\ d.draft = draft /\ d.mount = mount /\ d.status = status /\ ~d.error
    BY <1>2, <1>6, <2>2, ShownFits
  <2>. QED
    BY <2>1, <2>3
<1>8. CallFits(new)' /\ new.kind = "list" /\ new.draft = draft /\ new.mount = mount
  BY <1>2, <1>4, <1>6, NewCallFits
<1>9. dialog' # <<>> /\ dialog'[1] = d
  BY <1>5
<1>10. PageFits'
  <2>1. FormFits' /\ form.entry <= form'.entry
    BY DEF PageFits, FormFits
  <2>2. dialog' = <<dialog'[1]>> /\ DialogFits(dialog[1])'
    BY <1>5, <1>7, <1>9
  <2>3. calls' \subseteq calls \cup {new}
    BY <1>5
  <2>. QED
    BY <1>8, <2>1, <2>2, <2>3, PageFitsSends
<1>11. ~Submits(new) /\ CallIsAwaited(new)'
  BY <1>7, <1>8, <1>9 DEF CallIsAwaited, Submits, Asks
<1>12. OneAtATime'
  <2>1. \A r \in others : ~Entry!Mounted(r)'
    BY <1>2, <1>7, <1>9 DEF Entry!Mounted
  <2>. QED
    BY <1>5, <1>11, <2>1, OneStaysSends
<1>. QED
  BY <1>5, <1>7, <1>9, <1>10, <1>11, <1>12

LEMMA GoOnlineKeeps == EntryInv /\ Entry!GoOnline => EntryInv'
<1> SUFFICES ASSUME PageFits, OneAtATime, LedgerIsTold, NoticesFit, Entry!GoOnline PROVE EntryInv'
  BY DEF EntryInv
<1>0. /\ UNCHANGED <<categories, rules, txs, form, busy, notice, confirmed, cancelled, untold>>
      /\ ~online /\ online' = TRUE
      /\ IF dialog # <<>> THEN Entry!Mount(dialog[1].draft, dialog[1].suggested, calls)
         ELSE UNCHANGED <<dialog, calls>>
  BY DEF Entry!GoOnline, Entry!server, Entry!Open, Entry!history
<1>1. FormFits' /\ form.entry <= form'.entry /\ busy' \in BOOLEAN
  BY <1>0 DEF PageFits, FormFits
<1>3. ASSUME dialog = <<>> PROVE EntryInv'
  <2>1. UNCHANGED <<dialog, calls>>
    BY <1>0, <1>3
  <2>2. PageFits'
    BY <1>0, <1>1, <1>3, <2>1, PageFitsFewer
  <2>3. OneAtATime'
    BY <1>0, <2>1, OneStaysTheSame
  <2>4. LedgerIsTold'
    BY <1>0, <1>1, <2>1, SameScreen, LedgerKept
  <2>5. NoticesFit'
    BY <1>0, <1>3, <2>1, SameScreen, NoticesKept DEF NoticesFit
  <2>. QED
    BY <2>2, <2>3, <2>4, <2>5 DEF EntryInv
<1>4. ASSUME dialog # <<>> PROVE EntryInv'
  <2>1. PICK draft, suggested, others : draft = dialog[1].draft /\ suggested = dialog[1].suggested
                                        /\ others = calls
    OBVIOUS
  <2>2. DraftFits(draft) /\ suggested \in categories
    BY <1>4, <2>1 DEF PageFits, DialogFits
  <2>3. Entry!Mount(draft, suggested, others)
    BY <1>0, <1>4, <2>1
  <2>4. \A call \in calls : ~Submits(call)
    BY <1>4 DEF OneAtATime, CallIsAwaited
  <2>5. /\ PageFits' /\ OneAtATime'
        /\ dialog' # <<>> /\ dialog'[1].draft = draft /\ ~dialog'[1].error
        /\ \A call \in calls' : ~Submits(call)
    BY <1>0, <1>1, <2>1, <2>2, <2>3, <2>4, MountFits
  <2>6. \A e : Live(e)' => Live(e)
    BY <1>4, <2>1, <2>5 DEF Live, Submits
  <2>7. \A call \in calls : ~Tells(call)
    <3>1. dialog[1].mount = 0
      BY <1>0, <1>4 DEF PageFits, DialogFits
    <3>2. \A call \in calls : Asks(call) => ~Entry!Mounted(call)
      BY <3>1 DEF PageFits, CallFits, Entry!Mounted
    <3>. QED
      BY <2>4, <3>2 DEF Tells, Entry!Writes, Entry!Awaited, Submits, Asks
  <2>8. LedgerIsTold'
    BY <1>0, <1>1, <2>6, <2>7, LedgerKept
  <2>9. NoticesFit'
    <3>1. notice'.kind # "nothing"
      BY <1>0, <1>4 DEF NoticesFit
    <3>. QED
      BY <1>0, <2>5, <2>6, <3>1, NoticesKept DEF NoticesFit
  <2>. QED
    BY <2>5, <2>8, <2>9 DEF EntryInv
<1>. QED
  BY <1>3, <1>4


-----------------------------------------------------------------------------
(* The calls are served.                                                   *)

(* The ledger after one more transaction.                                  *)
LEMMA Appended ==
  ASSUME ServerFits, categories' = categories,
         \A m \in DOMAIN rules' : rules'[m].category \in categories,
         NEW call, call.draft.entry \in Nat, call.draft.merchant \in Merchants,
         NEW category \in categories, txs' = Entry!Recorded(call, category)
  PROVE  /\ ServerFits'
         /\ \E n : /\ DOMAIN txs' = DOMAIN txs \cup {n} /\ n \notin DOMAIN txs
                   /\ txs'[n].entry = call.draft.entry /\ txs'[n].category = category
                   /\ \A k \in DOMAIN txs : txs'[k] = txs[k]
         /\ Entry!Last(txs').entry = call.draft.entry
         /\ Entry!Last(txs').merchant = call.draft.merchant
         /\ Entry!Last(txs').category = category
<1> DEFINE S == [entry : Nat, merchant : Merchants, category : Named]
<1>1. PICK t : t = [entry |-> call.draft.entry, merchant |-> call.draft.merchant, category |-> category]
  OBVIOUS
<1>2. t \in S /\ t.entry = call.draft.entry /\ t.category = category
      /\ t.merchant = call.draft.merchant
  BY <1>1 DEF ServerFits
<1>3. txs \in Seq(S) /\ txs' = Append(txs, t)
  BY <1>1 DEF ServerFits, Entry!Recorded
<1> HIDE DEF S
<1>4. /\ txs' \in Seq(S) /\ DOMAIN txs' = 1..(Len(txs) + 1) /\ DOMAIN txs = 1..Len(txs)
      /\ Len(txs) \in Nat /\ txs'[Len(txs) + 1] = t /\ Len(txs') = Len(txs) + 1
      /\ \A k \in 1..Len(txs) : txs'[k] = txs[k]
  BY <1>2, <1>3
<1>5. PICK n : n = Len(txs) + 1
  OBVIOUS
<1>6. /\ DOMAIN txs' = DOMAIN txs \cup {n} /\ n \notin DOMAIN txs /\ txs'[n] = t
      /\ \A k \in DOMAIN txs : txs'[k] = txs[k]
  BY <1>4, <1>5
<1>7. \A k \in DOMAIN txs' : txs'[k].category \in categories'
  BY <1>2, <1>6 DEF ServerFits
<1>8. ServerFits'
  BY <1>4, <1>7 DEF ServerFits, S
<1>9. Entry!Last(txs') = t
  BY <1>4 DEF Entry!Last
<1>. QED
  BY <1>2, <1>6, <1>8, <1>9

(* What a part of the page waits to have recorded, is not in the ledger.   *)
LEMMA AwaitedIsUnrecorded ==
  ASSUME OneAtATime, LedgerIsTold, NEW call \in calls, Entry!Writes(call), call.answer = <<>>,
         Entry!Awaited(call)
  PROVE  /\ Live(call.draft.entry) /\ Unrecorded(call.draft.entry)
         /\ \/ Submits(call) /\ dialog = <<>>
            \/ dialog # <<>> /\ dialog[1].busy /\ dialog[1].draft = call.draft
<1>1. \/ call.kind = "create" /\ Submits(call) /\ dialog = <<>>
      \/ /\ call.kind = "confirm" /\ Asks(call) /\ Entry!Mounted(call) /\ dialog # <<>>
         /\ dialog[1].busy /\ dialog[1].draft = call.draft
  BY DEF OneAtATime, CallIsAwaited, Entry!Writes, Entry!Awaited, Entry!Mounted, Entry!Open, Submits, Asks
<1>2. Live(call.draft.entry)
  BY <1>1 DEF Live
<1>3. \A w \in calls : ~Tells(w)
  <2> SUFFICES ASSUME NEW w \in calls, Tells(w) PROVE FALSE
    OBVIOUS
  <2>1. w # call
    BY DEF Tells, Entry!Succeeded
  <2>2. (w.kind = "create" /\ Submits(w)) \/ (Asks(w) /\ Entry!Mounted(w))
    BY DEF Tells, Entry!Writes, Entry!Awaited, Submits, Asks
  <2>. QED
    BY <1>1, <2>1, <2>2 DEF OneAtATime, CallIsAwaited, Entry!Mounted, Entry!Open
<1>4. Unrecorded(call.draft.entry)
  <2>1. PICK e : e = call.draft.entry
    OBVIOUS
  <2>. QED
    BY <1>2, <1>3, <2>1, NotYetRecorded
<1>. QED
  BY <1>1, <1>2, <1>4

(* The page, which does not notice yet.                                    *)
LEMMA PageAwaits ==
  ASSUME PageFits, OneAtATime, NEW call \in calls, call.answer = <<>>,
         NEW a, Entry!Answers(call, a),
         UNCHANGED <<online, form, busy, dialog, confirmed>>,
         ServerFits', categories \subseteq categories',
         \A e, c : RecordedUnder(e, c) => RecordedUnder(e, c)',
         AnswerFits(call, a)'
  PROVE  /\ PageFits' /\ OneAtATime'
         /\ \A e : Live(e)' <=> Live(e)
         /\ \A w \in calls : Tells(w) => w \in calls' /\ Tells(w)'
         /\ \A d \in calls' : Submits(d) => \E w \in calls : Submits(w)
         /\ Entry!Writes(call) /\ Entry!Awaited(call) /\ a.kind = "ok" =>
               \E w \in calls' : Tells(w)' /\ w.draft.entry = call.draft.entry
<1>1. CallFits(call) /\ CallIsRecord(call)
  BY DEF PageFits, CallFits
<1>2. PICK c : c = [kind |-> call.kind, draft |-> call.draft, category |-> call.category,
                    answer |-> <<a>>, mount |-> call.mount]
  OBVIOUS
<1>3. c = [call EXCEPT !.answer = <<a>>]
  BY <1>1, <1>2 DEF CallIsRecord
<1>4. calls' = (calls \ {call}) \cup {c}
  BY <1>3 DEF Entry!Answers
<1>5. /\ c.kind = call.kind /\ c.draft = call.draft /\ c.category = call.category
      /\ c.answer = <<a>> /\ c.answer[1] = a /\ c.mount = call.mount /\ CallIsRecord(c)
  BY <1>2 DEF CallIsRecord
<1>6. FormFits' /\ form.entry <= form'.entry /\ form.entry \in Nat /\ form'.entry \in Nat
      /\ busy' \in BOOLEAN
  BY DEF PageFits, FormFits
<1>7. CallFits(c)'
  <2>1. CallFits(call)'
    BY <1>1, <1>6, CallFitsOn
  <2>2. AnswerFits(c, a)'
    BY <1>5 DEF AnswerFits, Entry!Writes
  <2>3. CallIsRecord(c)'
    BY <1>5 DEF CallIsRecord
  <2>. QED
    BY <1>5, <2>1, <2>2, <2>3 DEF CallFits, DraftFits, Submits, Asks
<1>8. PageFits'
  <2> DEFINE C == {c}
  <2>1. IsFiniteSet(C) /\ calls' \subseteq calls \cup C /\ \A x \in C : CallFits(x)'
    BY <1>4, <1>7, FS_Singleton
  <2>2. dialog' # <<>> => dialog' = <<dialog'[1]>> /\ DialogFits(dialog[1])'
    <3>1. ASSUME dialog # <<>> PROVE DialogFits(dialog[1])'
      <4>1. PICK d : d = dialog[1]
        OBVIOUS
      <4>2. DialogFits(d)'
        BY <1>6, <3>1, <4>1, DialogFitsOn DEF PageFits
      <4>. QED
        BY <4>1, <4>2 DEF DialogFits, DialogIsRecord, DraftFits
    <3>. QED
      BY <3>1 DEF PageFits
  <2>3. dialog' # <<>> /\ ~online' => dialog'[1].status = "unmounted"
    BY DEF PageFits
  <2> HIDE DEF C
  <2>. QED
    BY <1>6, <2>1, <2>2, <2>3, PageGoesOn
<1>9. /\ \A w : Entry!Mounted(w)' <=> Entry!Mounted(w)
      /\ Entry!Mounted(c) <=> Entry!Mounted(call)
  BY <1>5 DEF Entry!Mounted, Entry!Open
<1>10. /\ Submits(c) <=> Submits(call)
       /\ Asks(c) <=> Asks(call)
  BY <1>5 DEF Submits, Asks
<1>11. OneAtATime'
  <2>1. \A w \in calls : CallIsAwaited(w)'
    BY <1>9 DEF OneAtATime, CallIsAwaited, Submits, Asks
  <2>2. CallIsAwaited(c)'
    BY <1>5, <1>9, <1>10, <2>1 DEF CallIsAwaited, Submits, Asks
  <2>3. \A v, w \in calls' : Submits(v) /\ Submits(w) => v = w
    BY <1>4, <1>10 DEF OneAtATime
  <2>4. \A v, w \in calls' : Asks(v) /\ Entry!Mounted(v) /\ Asks(w) /\ Entry!Mounted(w) => v = w
    BY <1>4, <1>9, <1>10 DEF OneAtATime
  <2>5. \A w : (Submits(w)' <=> Submits(w)) /\ (Asks(w)' <=> Asks(w))
    BY DEF Submits, Asks
  <2>. QED
    BY <1>4, <1>9, <2>1, <2>2, <2>3, <2>4, <2>5 DEF OneAtATime
<1>12. \A e : Live(e)' <=> Live(e)
  <2>1. \A w : Submits(w)' <=> Submits(w)
    BY DEF Submits
  <2>2. \A e : (\E w \in calls' : Submits(w) /\ w.draft.entry = e)
               <=> (\E w \in calls : Submits(w) /\ w.draft.entry = e)
    BY <1>4, <1>5, <1>10
  <2>. QED
    BY <2>1, <2>2 DEF Live
<1>13. \A w \in calls : Tells(w) => w \in calls' /\ Tells(w)'
  <2>1. ~Tells(call)
    BY DEF Tells, Entry!Succeeded
  <2>2. \A w : Tells(w)' <=> Tells(w)
    BY <1>9 DEF Tells, Entry!Writes, Entry!Succeeded, Entry!Awaited
  <2>. QED
    BY <1>4, <2>1, <2>2
<1>14. \A d \in calls' : Submits(d) => \E w \in calls : Submits(w)
  BY <1>4, <1>10
<1>15. Entry!Writes(call) /\ Entry!Awaited(call) /\ a.kind = "ok" =>
          \E w \in calls' : Tells(w)' /\ w.draft.entry = call.draft.entry
  BY <1>4, <1>5, <1>9 DEF Tells, Entry!Writes, Entry!Succeeded, Entry!Awaited
<1>. QED
  BY <1>8, <1>11, <1>12, <1>13, <1>14, <1>15

(* A call that writes nothing is served, or fails.                         *)
LEMMA ServedWithoutWriting ==
  ASSUME EntryInv, NEW call \in calls, call.answer = <<>>, NEW a, Entry!Answers(call, a),
         UNCHANGED <<rules, txs, online, form, busy, dialog, notice, confirmed, cancelled>>,
         untold \subseteq untold',
         categories' = categories \/ \E c \in Named : categories' = categories \cup {c},
         AnswerFits(call, a)'
  PROVE  EntryInv'
<1> USE DEF EntryInv
<1>1. ServerFits' /\ categories \subseteq categories'
  <2>1. categories \subseteq categories' /\ categories' \subseteq Named
    BY DEF PageFits, ServerFits
  <2>. QED
    BY <2>1 DEF PageFits, ServerFits
<1>2. \A e, c : RecordedUnder(e, c) => RecordedUnder(e, c)'
  BY SameLedger
<1>3. /\ PageFits' /\ OneAtATime'
      /\ \A e : Live(e)' <=> Live(e)
      /\ \A w \in calls : Tells(w) => w \in calls' /\ Tells(w)'
      /\ \A d \in calls' : Submits(d) => \E w \in calls : Submits(w)
  BY <1>1, <1>2, PageAwaits
<1>4. LedgerIsTold'
  <2>1. FormFits' /\ form.entry <= form'.entry
    BY DEF PageFits, FormFits
  <2>. QED
    BY <1>3, <2>1, LedgerKept
<1>5. NoticesFit'
  <2>1. \A e : Unrecorded(e) => Unrecorded(e)'
    BY SameLedger DEF Unrecorded
  <2>2. dialog' # <<>> /\ dialog'[1].error => Unrecorded(dialog[1].draft.entry)'
    <3>1. PICK e : e = dialog[1].draft.entry
      OBVIOUS
    <3>2. dialog # <<>> /\ dialog[1].error => Unrecorded(e)'
      BY <2>1, <3>1 DEF NoticesFit
    <3>. QED
      BY <3>1, <3>2 DEF Unrecorded, Entry!Recordings
  <2>. QED
    BY <1>3, <2>2, NoticesKept DEF NoticesFit
<1>. QED
  BY <1>3, <1>4, <1>5

(* A call that records its entry is served.                                *)
LEMMA ServedByRecording ==
  ASSUME EntryInv, NEW call \in calls, call.answer = <<>>, Entry!Writes(call),
         NEW a, Entry!Answers(call, a),
         UNCHANGED <<categories, online, form, busy, dialog, notice, confirmed, cancelled>>,
         untold \subseteq untold',
         call.draft.entry \in untold' \/ (Entry!Awaited(call) /\ a.kind = "ok"),
         \A m \in DOMAIN rules' : rules'[m].category \in categories,
         NEW category \in categories, call.category \in {0, category},
         txs' = Entry!Recorded(call, category)
  PROVE  EntryInv'
<1> USE DEF EntryInv
<1>1. PICK e0 : e0 = call.draft.entry
  OBVIOUS
<1>2. call.draft.entry \in Nat /\ call.draft.merchant \in Merchants
  BY DEF PageFits, CallFits, DraftFits
<1>3. PICK n : /\ DOMAIN txs' = DOMAIN txs \cup {n} /\ n \notin DOMAIN txs
               /\ txs'[n].entry = e0 /\ txs'[n].category = category
               /\ \A k \in DOMAIN txs : txs'[k] = txs[k]
  BY <1>1, <1>2, Appended DEF PageFits
<1>4. ServerFits'
  BY <1>2, Appended DEF PageFits
<1>5. \A e, c : RecordedUnder(e, c) => RecordedUnder(e, c)'
  BY <1>3 DEF RecordedUnder, Entry!Recordings
<1>6. AnswerFits(call, a)'
  <2>1. RecordedUnder(call.draft.entry, call.category)'
    BY <1>1, <1>3 DEF RecordedUnder, Entry!Recordings
  <2>. QED
    BY <2>1 DEF AnswerFits, Entry!Writes
<1>7. /\ PageFits' /\ OneAtATime'
      /\ \A e : Live(e)' <=> Live(e)
      /\ \A w \in calls : Tells(w) => w \in calls' /\ Tells(w)'
      /\ \A d \in calls' : Submits(d) => \E w \in calls : Submits(w)
      /\ Entry!Writes(call) /\ Entry!Awaited(call) /\ a.kind = "ok" =>
            \E w \in calls' : Tells(w)' /\ w.draft.entry = call.draft.entry
  BY <1>4, <1>5, <1>6, PageAwaits
<1>8. \A e : e # e0 => (Unrecorded(e) => Unrecorded(e)')
  BY <1>3 DEF Unrecorded, Entry!Recordings
<1>9. \/ e0 \in untold'
      \/ /\ Live(e0) /\ Unrecorded(e0) /\ Told(e0)'
         /\ \/ Submits(call) /\ dialog = <<>>
            \/ dialog # <<>> /\ dialog[1].busy /\ dialog[1].draft = call.draft
  <2>1. CASE e0 \in untold'
    BY <2>1
  <2>2. CASE e0 \notin untold'
    <3>1. Entry!Awaited(call) /\ a.kind = "ok"
      BY <1>1, <2>2
    <3>2. /\ Live(e0) /\ Unrecorded(e0)
          /\ \/ Submits(call) /\ dialog = <<>>
             \/ dialog # <<>> /\ dialog[1].busy /\ dialog[1].draft = call.draft
      BY <1>1, <3>1, AwaitedIsUnrecorded
    <3>3. Told(e0)'
      BY <1>1, <1>7, <3>1 DEF Told
    <3>. QED
      BY <3>2, <3>3
  <2>. QED
    BY <2>1, <2>2
<1>10. LedgerIsTold'
  <2> SUFFICES ASSUME NEW k \in DOMAIN txs'
               PROVE  txs'[k].entry \in untold' \/ Told(txs[k].entry)' \/ Past(txs[k].entry)'
    BY DEF LedgerIsTold
  <2>1. PICK e : e = txs'[k].entry
    OBVIOUS
  <2>2. CASE k = n
    BY <1>3, <1>9, <2>1, <2>2
  <2>3. CASE k \in DOMAIN txs
    <3>1. e \in untold \/ Told(e) \/ Past(e)
      BY <1>3, <2>1, <2>3 DEF LedgerIsTold
    <3>2. Told(e) => Told(e)'
      BY <1>7 DEF Told
    <3>3. Past(e) => Past(e)'
      BY <1>7 DEF Past
    <3>. QED
      BY <2>1, <3>1, <3>2, <3>3
  <2>. QED
    BY <1>3, <2>2, <2>3
<1>11. NoticesFit'
  <2>1. \A e \in cancelled' : Unrecorded(e)' /\ ~Live(e)'
    <3> SUFFICES ASSUME NEW e \in cancelled PROVE Unrecorded(e)' /\ ~Live(e)'
      OBVIOUS
    <3>1. Unrecorded(e) /\ ~Live(e)
      BY DEF NoticesFit
    <3>2. e = e0 => e \in untold'
      BY <1>9, <3>1
    <3>. QED
      BY <1>7, <1>8, <3>1, <3>2 DEF Unrecorded
  <2>2. notice'.kind = "nothing" =>
          Unrecorded(notice.entry)' /\ dialog' = <<>> /\ \A d \in calls' : ~Submits(d)'
    <3> SUFFICES ASSUME notice.kind = "nothing"
                 PROVE  Unrecorded(notice.entry)' /\ dialog' = <<>> /\ \A d \in calls' : ~Submits(d)'
      OBVIOUS
    <3>1. PICK e : e = notice.entry
      OBVIOUS
    <3>2. Unrecorded(e) /\ dialog = <<>> /\ \A d \in calls : ~Submits(d)
      BY <3>1 DEF NoticesFit
    <3>3. e = e0 => e \in untold'
      BY <1>9, <3>2
    <3>4. Unrecorded(e)'
      BY <1>8, <3>2, <3>3 DEF Unrecorded
    <3>5. Unrecorded(notice.entry)'
      BY <3>1, <3>4 DEF Unrecorded, Entry!Recordings
    <3>6. \A d \in calls' : ~Submits(d)'
      BY <1>7, <3>2 DEF Submits
    <3>. QED
      BY <3>2, <3>5, <3>6
  <2>3. dialog' # <<>> /\ dialog'[1].error => Unrecorded(dialog[1].draft.entry)'
    <3> SUFFICES ASSUME dialog # <<>>, dialog[1].error PROVE Unrecorded(dialog[1].draft.entry)'
      OBVIOUS
    <3>1. PICK e : e = dialog[1].draft.entry
      OBVIOUS
    <3>2. Unrecorded(e) /\ ~dialog[1].busy
      BY <3>1 DEF NoticesFit, PageFits, DialogFits
    <3>3. e = e0 => e \in untold'
      BY <1>9, <3>2
    <3>4. Unrecorded(e)'
      BY <1>8, <3>2, <3>3 DEF Unrecorded
    <3>. QED
      BY <3>1, <3>4 DEF Unrecorded, Entry!Recordings
  <2>4. Entry!SavedIsRecorded'
    <3> SUFFICES ASSUME notice.kind = "saved" PROVE Entry!SavedIsRecorded'
      BY DEF Entry!SavedIsRecorded
    <3>1. RecordedUnder(notice.entry, notice.category)
      BY DEF NoticesFit, Entry!SavedIsRecorded, RecordedUnder
    <3>2. PICK e, c : e = notice.entry /\ c = notice.category
      OBVIOUS
    <3>3. RecordedUnder(e, c)'
      BY <1>5, <3>1, <3>2
    <3>. QED
      BY <3>2, <3>3 DEF RecordedUnder, Entry!SavedIsRecorded, Entry!Recordings
  <2>5. Entry!RecordedOnce'
    <3>1. \A k \in DOMAIN txs : txs[k].entry = e0 => e0 \in untold'
      BY <1>9 DEF Unrecorded, Entry!Recordings
    <3>2. \A k, j \in DOMAIN txs : txs'[k].entry = txs'[j].entry => k = j \/ txs'[k].entry \in untold'
      BY <1>3 DEF NoticesFit, Entry!RecordedOnce
    <3>. QED
      BY <1>3, <3>1, <3>2 DEF Entry!RecordedOnce
  <2>. QED
    BY <2>1, <2>2, <2>3, <2>4, <2>5 DEF NoticesFit
<1>. QED
  BY <1>7, <1>10, <1>11


LEMMA FailKeeps ==
  ASSUME EntryInv, NEW call, Entry!Fail(call)
  PROVE  EntryInv' /\ txs' = txs
<1>1. PICK a : a = [kind |-> "failed"]
  OBVIOUS
<1>2. /\ call \in calls /\ call.answer = <<>> /\ Entry!Answers(call, a)
      /\ UNCHANGED <<categories, rules, txs, online, form, busy, dialog, notice, confirmed, cancelled,
                     untold>>
  BY <1>1 DEF Entry!Fail, Entry!Sent, Entry!server, Entry!page, Entry!history
<1>3. AnswerFits(call, a)'
  BY <1>1 DEF AnswerFits
<1>. QED
  BY <1>2, <1>3, ServedWithoutWriting

(* A transaction is recorded under an active rule, or as confirmed.        *)
LEMMA RecordedKnown ==
  ASSUME EntryInv, NEW call \in calls, confirmed' = confirmed, categories' = categories,
         \A m \in DOMAIN rules' : rules'[m].category \in categories,
         NEW category \in categories, txs' = Entry!Recorded(call, category),
         \/ <<call.draft.entry, category>> \in confirmed
         \/ /\ call.draft.merchant \notin EveryTime /\ Entry!RuleApplies(call.draft.merchant)
            /\ rules[call.draft.merchant].category = category
  PROVE  Entry!KnownOrConfirmed
<1>1. call.draft.entry \in Nat /\ call.draft.merchant \in Merchants
  BY DEF EntryInv, PageFits, CallFits, DraftFits
<1>2. PICK t : t = Entry!Last(txs')
  OBVIOUS
<1>3. t.entry = call.draft.entry /\ t.merchant = call.draft.merchant /\ t.category = category
  BY <1>1, <1>2, Appended DEF EntryInv, PageFits
<1>. QED
  BY <1>2, <1>3 DEF Entry!KnownOrConfirmed

LEMMA ServeKeeps ==
  ASSUME EntryInv, NEW call, Entry!Serve(call)
  PROVE  EntryInv' /\ Entry!KnownOrConfirmed
<1>1. call \in calls /\ call.answer = <<>>
  BY DEF Entry!Serve, Entry!Sent
<1>2. CallFits(call) /\ call.kind \in {"preview", "create", "list", "confirm", "category"}
  BY <1>1 DEF EntryInv, PageFits, CallFits, Submits, Asks
<1>3. PICK right : right = Entry!Answer(call)
  OBVIOUS
<1>4. PICK told \in BOOLEAN :
         /\ Entry!Answers(call, IF told THEN Entry!Answer(call) ELSE [kind |-> "failed"])
         /\ untold' = IF Entry!Writes(call) /\ ~Entry!Refused(call) /\ ~(told /\ Entry!Awaited(call))
                      THEN untold \cup {call.draft.entry} ELSE untold
  BY DEF Entry!Serve
<1>5. PICK a : a = IF told THEN right ELSE [kind |-> "failed"]
  OBVIOUS
<1>6. /\ Entry!Answers(call, a) /\ untold \subseteq untold'
      /\ UNCHANGED <<online, form, busy, dialog, notice, confirmed, cancelled>>
  <2>1. UNCHANGED <<online, form, busy, dialog, notice, confirmed, cancelled>>
    BY DEF Entry!Serve, Entry!page
  <2>. QED
    BY <1>3, <1>4, <1>5, <2>1
<1>7. AnswerFits(call, right)' => AnswerFits(call, a)'
  BY <1>5 DEF AnswerFits
<1>8. PICK m : m = call.draft.merchant
  OBVIOUS
<1>9. ASSUME UNCHANGED <<rules, txs>>, AnswerFits(call, right)',
             categories' = categories \/ \E c \in Named : categories' = categories \cup {c}
      PROVE  EntryInv' /\ Entry!KnownOrConfirmed
  BY <1>1, <1>6, <1>7, <1>9, ServedWithoutWriting DEF Entry!KnownOrConfirmed
<1>10. ASSUME NEW category \in categories, call.category \in {0, category},
              Entry!Writes(call), right.kind = "ok", ~Entry!Refused(call), categories' = categories,
              \A n \in DOMAIN rules' : rules'[n].category \in categories,
              txs' = Entry!Recorded(call, category),
              \/ <<call.draft.entry, category>> \in confirmed
              \/ m \notin EveryTime /\ Entry!RuleApplies(m) /\ rules[m].category = category
       PROVE  EntryInv' /\ Entry!KnownOrConfirmed
  <2>1. call.draft.entry \in untold' \/ (Entry!Awaited(call) /\ a.kind = "ok")
    BY <1>4, <1>5, <1>10
  <2>2. EntryInv'
    BY <1>1, <1>6, <1>10, <2>1, ServedByRecording
  <2>3. Entry!KnownOrConfirmed
    BY <1>1, <1>6, <1>8, <1>10, RecordedKnown
  <2>. QED
    BY <2>2, <2>3
<1>11. CASE call.kind = "preview"
  <2>1. right = Entry!Previewed(m) /\ UNCHANGED <<categories, rules, txs>>
    BY <1>3, <1>8, <1>11 DEF Entry!Serve, Entry!Answer, Entry!Refused, Entry!server
  <2>2. right.kind = "new" \/ m \in EveryTime => right.category \in categories
    BY <2>1, PreviewedFits DEF EntryInv, PageFits
  <2>3. AnswerFits(call, right)'
    BY <1>8, <1>11, <2>1, <2>2 DEF AnswerFits, Entry!Writes
  <2>. QED
    BY <1>9, <2>1, <2>3
<1>12. CASE call.kind = "list"
  <2>1. right = [kind |-> "ok", categories |-> categories] /\ UNCHANGED <<categories, rules, txs>>
    BY <1>3, <1>12 DEF Entry!Serve, Entry!Answer, Entry!Refused, Entry!server
  <2>2. AnswerFits(call, right)'
    BY <1>12, <2>1 DEF AnswerFits, Entry!Writes
  <2>. QED
    BY <1>9, <2>1, <2>2
<1>13. CASE call.kind = "category"
  <2>1. CASE call.category \in categories
    <3>1. right = [kind |-> "failed"] /\ UNCHANGED <<categories, rules, txs>>
      BY <1>3, <1>13, <2>1 DEF Entry!Serve, Entry!Answer, Entry!Refused, Entry!server
    <3>2. AnswerFits(call, right)'
      BY <3>1 DEF AnswerFits
    <3>. QED
      BY <1>9, <3>1, <3>2
  <2>2. CASE call.category \notin categories
    <3>1. right = [kind |-> "ok"] /\ categories' = categories \cup {call.category}
          /\ UNCHANGED <<rules, txs>>
      BY <1>3, <1>13, <2>2 DEF Entry!Serve, Entry!Answer, Entry!Refused, Entry!ServeCategory
    <3>2. AnswerFits(call, right)'
      BY <1>13, <3>1 DEF AnswerFits, Entry!Writes
    <3>3. call.category \in Named
      BY <1>2, <1>13 DEF CallFits
    <3>. QED
      BY <1>9, <3>1, <3>2, <3>3
  <2>. QED
    BY <2>1, <2>2
<1>14. CASE call.kind = "create"
  <2>1. CASE Entry!Unconfirmed(m)
    <3>1. right = [kind |-> "failed"] /\ UNCHANGED <<categories, rules, txs>>
      BY <1>3, <1>8, <1>14, <2>1
      DEF Entry!Serve, Entry!Answer, Entry!Refused, Entry!ServeCreate, Entry!server
    <3>2. AnswerFits(call, right)'
      BY <3>1 DEF AnswerFits
    <3>. QED
      BY <1>9, <3>1, <3>2
  <2>2. CASE ~Entry!Unconfirmed(m)
    <3>1. m \notin EveryTime /\ Entry!RuleApplies(m)
      BY <2>2 DEF Entry!Unconfirmed
    <3>2. rules[m].category \in categories
      BY <3>1 DEF Entry!RuleApplies, EntryInv, PageFits, ServerFits
    <3>3. /\ right = [kind |-> "ok"] /\ UNCHANGED <<categories, rules>> /\ ~Entry!Refused(call)
          /\ txs' = Entry!Recorded(call, rules[m].category)
      BY <1>3, <1>8, <1>14, <2>2, <3>1
      DEF Entry!Serve, Entry!Answer, Entry!Refused, Entry!ServeCreate
    <3>4. call.category = 0 /\ Entry!Writes(call)
      BY <1>2, <1>14 DEF CallFits, Entry!Writes
    <3>5. \A n \in DOMAIN rules' : rules'[n].category \in categories
      BY <3>3 DEF EntryInv, PageFits, ServerFits
    <3>6. PICK category \in categories : category = rules[m].category
      BY <3>2
    <3>. QED
      BY <1>10, <3>1, <3>3, <3>4, <3>5, <3>6
  <2>. QED
    BY <2>1, <2>2
<1>15. CASE call.kind = "confirm"
  <2>1. /\ call.category \in categories /\ Entry!Writes(call)
        /\ <<call.draft.entry, call.category>> \in confirmed
    BY <1>2, <1>15 DEF CallFits, Entry!Writes
  <2>2. /\ right = [kind |-> "ok"] /\ UNCHANGED categories /\ ~Entry!Refused(call)
        /\ txs' = Entry!Recorded(call, call.category)
        /\ \/ rules' = rules
           \/ rules' = Entry!WithRule(m, [category |-> call.category, active |-> TRUE])
    BY <1>3, <1>8, <1>15 DEF Entry!Serve, Entry!Answer, Entry!Refused, Entry!ServeConfirm
  <2>3. \A n \in DOMAIN rules' : rules'[n].category \in categories
    BY <2>1, <2>2 DEF EntryInv, PageFits, ServerFits, Entry!WithRule
  <2>4. PICK category \in categories : category = call.category
    BY <2>1
  <2>. QED
    BY <1>10, <2>1, <2>2, <2>3, <2>4
<1>. QED
  BY <1>2, <1>11, <1>12, <1>13, <1>14, <1>15


-----------------------------------------------------------------------------
(* What the page does with an answer.                                      *)

(* While a submission runs no other does, and no dialog is open.           *)
LEMMA OneSubmission ==
  ASSUME OneAtATime, NEW call \in calls, Submits(call)
  PROVE  /\ busy /\ dialog = <<>>
         /\ \A w \in calls \ {call} : ~Submits(w)
         /\ \A w \in calls : ~Entry!Mounted(w)
         /\ \A w \in calls \ {call} : ~Tells(w)
<1>1. busy /\ dialog = <<>> /\ \A w \in calls \ {call} : ~Submits(w)
  BY DEF OneAtATime, CallIsAwaited
<1>2. \A w : ~Entry!Mounted(w)
  BY <1>1 DEF Entry!Mounted, Entry!Open
<1>. QED
  BY <1>1, <1>2 DEF Tells, Entry!Awaited, Submits

LEMMA OneQuestion ==
  ASSUME OneAtATime, NEW call \in calls, Asks(call), Entry!Mounted(call)
  PROVE  /\ dialog # <<>> /\ call.draft = dialog[1].draft
         /\ dialog[1].status \in {"loading", "ready"}
         /\ call.kind = "list" => dialog[1].status = "loading"
         /\ call.kind # "list" => dialog[1].status = "ready" /\ dialog[1].busy
         /\ \A w \in calls : ~Submits(w)
         /\ \A w \in calls \ {call} : ~(Asks(w) /\ Entry!Mounted(w)) /\ ~Tells(w)
<1>1. dialog # <<>>
  BY DEF Entry!Mounted, Entry!Open
<1>2. \A w \in calls : ~Submits(w)
  BY <1>1 DEF OneAtATime, CallIsAwaited
<1>3. \A w \in calls \ {call} : ~(Asks(w) /\ Entry!Mounted(w))
  BY DEF OneAtATime
<1>4. \A w \in calls \ {call} : ~Tells(w)
  BY <1>2, <1>3 DEF Tells, Entry!Writes, Entry!Awaited, Submits, Asks
<1>. QED
  BY <1>1, <1>2, <1>3, <1>4 DEF OneAtATime, CallIsAwaited

(* "Nothing was written", and the form is enabled as it was.               *)
LEMMA RefusalKeeps ==
  ASSUME EntryInv, NEW call \in calls, Submits(call), ~Tells(call),
         notice' = [kind |-> "nothing", entry |-> call.draft.entry],
         busy' = FALSE, calls' = calls \ {call},
         UNCHANGED <<categories, rules, txs, online, form, dialog, confirmed, cancelled, untold>>
  PROVE  EntryInv'
<1> USE DEF EntryInv
<1>1. /\ dialog = <<>> /\ \A w \in calls' : ~Submits(w) /\ ~Entry!Mounted(w)
      /\ \A w \in calls : ~Tells(w)
  BY OneSubmission
<1>2. FormFits' /\ form.entry <= form'.entry
  BY DEF PageFits, FormFits
<1>3. PageFits'
  BY <1>1, <1>2, PageFitsFewer
<1>4. OneAtATime'
  BY <1>1, OneStaysFewer DEF Entry!Mounted, Entry!Open
<1>5. \A e : Live(e)' => Live(e)
  BY LiveFewer
<1>6. LedgerIsTold'
  BY <1>1, <1>2, <1>5, LedgerKept
<1>7. PICK e : e = call.draft.entry
  OBVIOUS
<1>8. Unrecorded(e)'
  <2>1. Live(e)
    BY <1>7 DEF Live
  <2>2. Unrecorded(e)
    BY <1>1, <2>1, NotYetRecorded
  <2>. QED
    BY <2>2, SameLedger DEF Unrecorded
<1>9. NoticesFit'
  <2>1. notice'.kind = "nothing" /\ notice'.entry = e
    BY <1>7
  <2>2. Unrecorded(notice.entry)'
    BY <1>8, <2>1 DEF Unrecorded, Entry!Recordings
  <2>. QED
    BY <1>1, <1>5, <2>1, <2>2, NoticesKept DEF NoticesFit
<1>. QED
  BY <1>3, <1>4, <1>6, <1>9

(* finish: the form is blank for the next entry.                           *)
LEMMA FinishKeeps ==
  ASSUME EntryInv, NEW call \in calls, Entry!Writes(call), Entry!Succeeded(call), Entry!Finish(call),
         calls' = calls \ {call}, busy' \in BOOLEAN, \A w \in calls' : Submits(w) => busy',
         UNCHANGED <<categories, rules, txs, online, confirmed, cancelled, untold>>
  PROVE  EntryInv'
<1> USE DEF EntryInv
<1>1. /\ form' = [entry |-> form.entry + 1, merchant |-> Entry!NoMerchant] /\ dialog' = <<>>
      /\ notice' = [kind |-> "saved", entry |-> call.draft.entry, category |-> call.category]
  BY DEF Entry!Finish, Entry!Blank
<1>2. FormFits' /\ form.entry \in Nat /\ form'.entry = form.entry + 1
  <2>1. PICK k \in Nat : k = form.entry
    BY DEF PageFits, FormFits
  <2>2. form' = [entry |-> k + 1, merchant |-> Entry!NoMerchant]
    BY <1>1, <2>1
  <2>. QED
    BY <2>1, <2>2 DEF FormFits
<1>3. PageFits'
  BY <1>1, <1>2, PageFitsFewer
<1>4. OneAtATime'
  BY <1>1, OneStaysFewer DEF Entry!Mounted, Entry!Open
<1>5. \A e : Live(e)' => Live(e)
  BY <1>1, LiveFewer
<1>6. ASSUME NEW w \in calls, Tells(w)
      PROVE  (w \in calls' /\ Tells(w)') \/ Past(w.draft.entry)'
  <2>1. CASE w.kind = "create" /\ w # call
    BY <1>6, <2>1 DEF Tells, Entry!Writes, Entry!Succeeded, Entry!Awaited
  <2>2. CASE ~(w.kind = "create" /\ w # call)
    <3>1. \A v \in calls' : ~Submits(v)
      <4>1. CASE w.kind = "create"
        BY <2>2, <4>1, OneSubmission DEF Submits
      <4>2. CASE w.kind # "create"
        <5>1. Entry!Mounted(w) /\ Asks(w)
          BY <1>6, <4>2 DEF Tells, Entry!Writes, Entry!Awaited, Asks
        <5>. QED
          BY <5>1, OneQuestion
      <4>. QED
        BY <4>1, <4>2
    <3>2. \A e : ~Live(e)'
      BY <1>1, <3>1 DEF Live, Submits
    <3>3. w.draft.entry \in Nat /\ w.draft.entry <= form.entry
      BY DEF PageFits, CallFits, DraftFits
    <3>4. w.draft.entry < form'.entry
      BY <1>2, <3>3
    <3>. QED
      BY <3>2, <3>4 DEF Past
  <2>. QED
    BY <2>1, <2>2
<1>7. LedgerIsTold'
  BY <1>2, <1>5, <1>6, LedgerKept
<1>8. NoticesFit'
  <2>1. AnswerFits(call, call.answer[1])
    BY DEF PageFits, CallFits, Entry!Succeeded
  <2>2. RecordedUnder(call.draft.entry, call.category)
    BY <2>1 DEF AnswerFits, Entry!Succeeded
  <2>3. notice'.kind = "saved" /\ notice'.entry = call.draft.entry /\ notice'.category = call.category
    BY <1>1
  <2>. QED
    BY <1>1, <1>5, <2>2, <2>3, NoticesKept DEF NoticesFit
<1>. QED
  BY <1>3, <1>4, <1>7, <1>8

(* No part of the page notices the answer.                                 *)
LEMMA Unnoticed ==
  ASSUME EntryInv, NEW call \in calls, ~Tells(call), calls' = calls \ {call},
         UNCHANGED <<categories, rules, txs, online, form, busy, dialog, notice, confirmed, cancelled,
                     untold>>
  PROVE  EntryInv'
<1> USE DEF EntryInv
<1>1. FormFits' /\ form.entry <= form'.entry
  BY DEF PageFits, FormFits
<1>2. PageFits'
  <2>1. dialog' # <<>> => dialog' = <<dialog'[1]>> /\ DialogFits(dialog[1])'
    <3>1. DialogFits(dialog[1]) => DialogFits(dialog[1])'
      BY DEF DialogFits, DialogIsRecord, DraftFits
    <3>. QED
      BY <3>1 DEF PageFits
  <2>2. dialog' # <<>> /\ ~online' => dialog'[1].status = "unmounted"
    BY DEF PageFits
  <2>3. busy' \in BOOLEAN
    BY DEF PageFits
  <2>. QED
    BY <1>1, <2>1, <2>2, <2>3, PageFitsFewer
<1>3. OneAtATime'
  BY OneStaysTheSame
<1>4. \A e : Live(e)' => Live(e)
  BY LiveFewer
<1>5. \A w \in calls : Tells(w) => w \in calls' /\ Tells(w)'
  BY DEF Tells, Entry!Writes, Entry!Succeeded, Entry!Awaited, Entry!Mounted, Entry!Open
<1>6. LedgerIsTold'
  BY <1>1, <1>4, <1>5, LedgerKept
<1>7. NoticesFit'
  <2>1. dialog' # <<>> /\ dialog'[1].error => Unrecorded(dialog[1].draft.entry)'
    BY SameLedger DEF NoticesFit, Unrecorded, Entry!Recordings
  <2>. QED
    BY <1>4, <2>1, NoticesKept DEF NoticesFit
<1>. QED
  BY <1>2, <1>3, <1>6, <1>7

(* The dialog has the answer it waits for, which is not of a recording.    *)
LEMMA DialogAnswered ==
  ASSUME EntryInv, NEW call \in calls, Asks(call), Entry!Mounted(call), ~Tells(call),
         calls' = calls \ {call},
         UNCHANGED <<categories, rules, txs, online, form, busy, notice, confirmed, cancelled, untold>>,
         NEW d, dialog' = <<d>>, DialogFits(d)', d.draft = dialog[1].draft, d.mount = dialog[1].mount
  PROVE  EntryInv'
<1> USE DEF EntryInv
<1>1. FormFits' /\ form.entry <= form'.entry /\ busy' \in BOOLEAN
  BY DEF PageFits, FormFits
<1>2. /\ dialog # <<>> /\ dialog[1].status \in {"loading", "ready"}
      /\ \A w \in calls : ~Submits(w) /\ ~Tells(w)
      /\ \A w \in calls' : ~(Asks(w) /\ Entry!Mounted(w))
  BY OneQuestion
<1>3. dialog' # <<>> /\ dialog'[1] = d
  OBVIOUS
<1>4. PageFits'
  <2>1. online'
    BY <1>2 DEF PageFits
  <2>2. dialog' = <<dialog'[1]>> /\ DialogFits(dialog[1])'
    BY <1>3
  <2>. QED
    BY <1>1, <2>1, <2>2, PageFitsFewer
<1>5. OneAtATime'
  <2>1. \A w \in calls' : Asks(w) => ~Entry!Mounted(w)'
    BY <1>2, <1>3 DEF Entry!Mounted, Entry!Open
  <2>. QED
    BY <1>2, <2>1, OneStaysFewer
<1>6. \A e : Live(e)' => Live(e)
  BY <1>2, <1>3 DEF Live, Submits
<1>7. LedgerIsTold'
  BY <1>1, <1>2, <1>6, LedgerKept
<1>8. NoticesFit'
  <2>1. PICK e : e = dialog[1].draft.entry
    OBVIOUS
  <2>2. Live(e)
    BY <1>2, <2>1 DEF Live
  <2>3. Unrecorded(e)
    BY <1>2, <2>2, NotYetRecorded
  <2>4. Unrecorded(dialog[1].draft.entry)'
    BY <1>3, <2>1, <2>3, SameLedger DEF Unrecorded, Entry!Recordings
  <2>5. notice'.kind # "nothing"
    BY <1>2 DEF NoticesFit
  <2>. QED
    BY <1>6, <2>4, <2>5, NoticesKept DEF NoticesFit
<1>. QED
  BY <1>4, <1>5, <1>7, <1>8


(* The dialog with an answer.                                              *)
LEMMA DialogUpdates ==
  ASSUME NEW d, DialogIsRecord(d), NEW l, NEW s
  PROVE  /\ [d EXCEPT !.busy = FALSE] =
              [draft |-> d.draft, mount |-> d.mount, status |-> d.status, listed |-> d.listed,
               selected |-> d.selected, suggested |-> d.suggested, busy |-> FALSE, error |-> d.error]
         /\ [d EXCEPT !.busy = FALSE, !.error = TRUE] =
              [draft |-> d.draft, mount |-> d.mount, status |-> d.status, listed |-> d.listed,
               selected |-> d.selected, suggested |-> d.suggested, busy |-> FALSE, error |-> TRUE]
         /\ [d EXCEPT !.busy = FALSE, !.listed = l, !.selected = s] =
              [draft |-> d.draft, mount |-> d.mount, status |-> d.status, listed |-> l,
               selected |-> s, suggested |-> d.suggested, busy |-> FALSE, error |-> d.error]
         /\ [d EXCEPT !.status = s, !.listed = l] =
              [draft |-> d.draft, mount |-> d.mount, status |-> s, listed |-> l,
               selected |-> d.selected, suggested |-> d.suggested, busy |-> d.busy, error |-> d.error]
<1>1. PICK yes, no : yes = TRUE /\ no = FALSE
  OBVIOUS
<1>2. PICK r : r = [d EXCEPT !.busy = no]
  OBVIOUS
<1>3. r = [draft |-> d.draft, mount |-> d.mount, status |-> d.status, listed |-> d.listed,
           selected |-> d.selected, suggested |-> d.suggested, busy |-> no, error |-> d.error]
  BY <1>2 DEF DialogIsRecord
<1>4. [d EXCEPT !.busy = FALSE] = r
  BY <1>1, <1>2
<1>5. [d EXCEPT !.busy = FALSE, !.error = TRUE] =
              [draft |-> d.draft, mount |-> d.mount, status |-> d.status, listed |-> d.listed,
               selected |-> d.selected, suggested |-> d.suggested, busy |-> FALSE, error |-> TRUE]
  <2>1. [d EXCEPT !.busy = FALSE, !.error = TRUE] = [r EXCEPT !.error = yes]
    BY <1>1, <1>2
  <2>2. [r EXCEPT !.error = yes] =
              [draft |-> d.draft, mount |-> d.mount, status |-> d.status, listed |-> d.listed,
               selected |-> d.selected, suggested |-> d.suggested, busy |-> no, error |-> yes]
    BY <1>3
  <2>. QED
    BY <1>1, <2>1, <2>2
<1>6. [d EXCEPT !.busy = FALSE, !.listed = l, !.selected = s] =
              [draft |-> d.draft, mount |-> d.mount, status |-> d.status, listed |-> l,
               selected |-> s, suggested |-> d.suggested, busy |-> FALSE, error |-> d.error]
  <2>1. PICK q : q = [r EXCEPT !.listed = l]
    OBVIOUS
  <2>2. q = [draft |-> d.draft, mount |-> d.mount, status |-> d.status, listed |-> l,
             selected |-> d.selected, suggested |-> d.suggested, busy |-> no, error |-> d.error]
    BY <1>3, <2>1
  <2>3. [q EXCEPT !.selected = s] =
            [draft |-> d.draft, mount |-> d.mount, status |-> d.status, listed |-> l,
             selected |-> s, suggested |-> d.suggested, busy |-> no, error |-> d.error]
    BY <2>2
  <2>4. [d EXCEPT !.busy = FALSE, !.listed = l, !.selected = s] = [q EXCEPT !.selected = s]
    BY <1>1, <1>2, <2>1
  <2>. QED
    BY <1>1, <2>3, <2>4
<1>7. PICK p : p = [d EXCEPT !.status = s]
  OBVIOUS
<1>8. p = [draft |-> d.draft, mount |-> d.mount, status |-> s, listed |-> d.listed,
           selected |-> d.selected, suggested |-> d.suggested, busy |-> d.busy, error |-> d.error]
  BY <1>7 DEF DialogIsRecord
<1>9. [d EXCEPT !.status = s, !.listed = l] =
              [draft |-> d.draft, mount |-> d.mount, status |-> s, listed |-> l,
               selected |-> d.selected, suggested |-> d.suggested, busy |-> d.busy, error |-> d.error]
  <2>1. [d EXCEPT !.status = s, !.listed = l] = [p EXCEPT !.listed = l]
    BY <1>7
  <2>. QED
    BY <1>8, <2>1
<1>. QED
  BY <1>1, <1>3, <1>4, <1>5, <1>6, <1>7, <1>8, <1>9

LEMMA ReturnPreviewKeeps ==
  ASSUME EntryInv, NEW call \in calls, call.answer # <<>>, Entry!ReturnPreview(call)
  PROVE  EntryInv'
<1> USE DEF EntryInv
<1>1. /\ UNCHANGED <<categories, rules, txs, online, form, confirmed, cancelled, untold>>
      /\ call.kind = "preview"
  BY DEF Entry!ReturnPreview, Entry!server, Entry!history
<1>2. /\ Submits(call) /\ ~Tells(call) /\ CallFits(call)
  BY <1>1 DEF Submits, Tells, Entry!Writes, PageFits
<1>3. /\ busy /\ dialog = <<>> /\ \A w \in calls \ {call} : ~Submits(w)
      /\ \A w \in calls : ~Tells(w) /\ ~Entry!Mounted(w)
  BY <1>2, OneSubmission
<1>4. FormFits' /\ form.entry <= form'.entry
  BY <1>1 DEF PageFits, FormFits
<1>5. notice.kind # "nothing"
  BY <1>2 DEF NoticesFit
<1>6. PICK draft, s, others : draft = call.draft /\ s = call.answer[1].category
                              /\ others = calls \ {call}
  OBVIOUS
<1>7. DraftFits(draft) /\ DraftFits(draft)' /\ Live(draft.entry)
  BY <1>1, <1>2, <1>6 DEF CallFits, DraftFits, Live
<1>8. ASSUME \A e : Live(e)' => Live(e), dialog' # <<>> => ~dialog'[1].error, notice'.kind = "none" \/ notice' = notice
      PROVE  LedgerIsTold' /\ NoticesFit'
  <2>1. LedgerIsTold'
    BY <1>1, <1>3, <1>4, <1>8, LedgerKept
  <2>2. NoticesFit'
    BY <1>1, <1>5, <1>8, NoticesKept DEF NoticesFit
  <2>. QED
    BY <2>1, <2>2
<1>9. CASE call.answer[1].kind = "failed"
  <2>1. /\ notice' = [kind |-> "nothing", entry |-> call.draft.entry]
        /\ busy' = FALSE /\ calls' = calls \ {call} /\ dialog' = dialog
    BY <1>9 DEF Entry!ReturnPreview
  <2>. QED
    BY <1>1, <1>2, <2>1, RefusalKeeps
<1>10. CASE call.answer[1].kind # "failed" /\ Entry!AsksOwner(call)
  <2>1. s \in categories
    BY <1>1, <1>2, <1>6, <1>10 DEF CallFits, AnswerFits, Entry!AsksOwner
  <2>2. /\ busy' = FALSE /\ notice'.kind = "none"
        /\ IF online THEN Entry!Mount(draft, s, others)
           ELSE dialog' = <<Entry!Unmounted(draft, s)>> /\ calls' = others
    BY <1>6, <1>10 DEF Entry!ReturnPreview, Entry!Quiet
  <2>3. CASE online
    <3>1. /\ PageFits' /\ OneAtATime'
          /\ dialog' # <<>> /\ dialog'[1].draft = draft /\ ~dialog'[1].error
          /\ \A w \in calls' : ~Submits(w)
      <4>1. others \subseteq calls /\ \A w \in others : ~Submits(w)
        BY <1>3, <1>6
      <4>2. busy' \in BOOLEAN /\ online' /\ Entry!Mount(draft, s, others)
        BY <1>1, <2>2, <2>3
      <4>. QED
        BY <1>1, <1>7, <2>1, <4>1, <4>2, MountFits
    <3>2. \A e : Live(e)' => Live(e)
      BY <1>7, <3>1 DEF Live, Submits
    <3>. QED
      BY <1>8, <2>2, <3>1, <3>2
  <2>4. CASE ~online
    <3>1. PICK d : d = Entry!Shown(draft, s, "unmounted", 0)
      OBVIOUS
    <3>2. dialog' = <<d>> /\ calls' = others
      BY <2>2, <2>4, <3>1 DEF Entry!Unmounted
    <3>3. DialogFits(d)' /\ d.draft = draft /\ d.mount = 0 /\ d.status = "unmounted" /\ ~d.error
      BY <1>1, <1>7, <2>1, <3>1, ShownFits
    <3>4. dialog' # <<>> /\ dialog'[1] = d
      BY <3>2
    <3>5. PageFits'
      <4>1. dialog' = <<dialog'[1]>> /\ DialogFits(dialog[1])'
        BY <3>2, <3>3, <3>4
      <4>2. calls' \subseteq calls /\ busy' \in BOOLEAN
        BY <1>6, <2>2, <3>2
      <4>. QED
        BY <1>1, <1>4, <3>3, <3>4, <4>1, <4>2, PageFitsFewer
    <3>6. OneAtATime'
      <4>1. \A w \in calls' : ~Submits(w) /\ (Asks(w) => ~Entry!Mounted(w)')
        BY <1>3, <1>6, <3>2, <3>3, <3>4 DEF PageFits, CallFits, Entry!Mounted
      <4>2. calls' \subseteq calls
        BY <1>6, <3>2
      <4>. QED
        BY <4>1, <4>2, OneStaysFewer
    <3>7. \A e : Live(e)' => Live(e)
      BY <1>3, <1>6, <1>7, <3>2, <3>3, <3>4 DEF Live, Submits
    <3>. QED
      BY <1>8, <2>2, <3>3, <3>4, <3>5, <3>6, <3>7
  <2>. QED
    BY <2>3, <2>4
<1>11. CASE call.answer[1].kind # "failed" /\ ~Entry!AsksOwner(call)
  <2>1. PICK new : new = [kind |-> "create", draft |-> draft, category |-> 0, answer |-> <<>>, mount |-> 0]
    OBVIOUS
  <2>2. calls' = others \cup {new} /\ UNCHANGED <<busy, dialog, notice>>
    BY <1>3, <1>6, <1>11, <2>1 DEF Entry!ReturnPreview, Entry!Call
  <2>3. CallFits(new)' /\ new.kind = "create" /\ new.draft = draft
    BY <1>7, <2>1, NewCallFits
  <2>4. PageFits'
    <3>1. calls' \subseteq calls \cup {new} /\ busy' \in BOOLEAN /\ dialog' = <<>>
      BY <1>3, <1>6, <2>2 DEF PageFits
    <3>. QED
      BY <1>1, <1>4, <2>3, <3>1, PageFitsSends
  <2>5. OneAtATime'
    <3>1. others \subseteq calls /\ calls' \subseteq others \cup {new}
          /\ \A r \in others : ~Submits(r) /\ ~Entry!Mounted(r)'
      BY <1>3, <1>6, <2>2 DEF Entry!Mounted, Entry!Open
    <3>2. CallIsAwaited(new)'
      BY <1>3, <2>2, <2>3 DEF CallIsAwaited, Asks, Submits
    <3>. QED
      BY <3>1, <3>2, OneStaysSends
  <2>6. \A e : Live(e)' => Live(e)
    BY <1>3, <1>6, <1>7, <2>2, <2>3 DEF Live, Submits
  <2>. QED
    BY <1>3, <1>8, <2>2, <2>4, <2>5, <2>6
<1>. QED
  BY <1>9, <1>10, <1>11

LEMMA ReturnCreateKeeps ==
  ASSUME EntryInv, NEW call \in calls, call.answer # <<>>, Entry!ReturnCreate(call)
  PROVE  EntryInv'
<1>1. /\ UNCHANGED <<categories, rules, txs, online, confirmed, cancelled, untold>>
      /\ call.kind = "create" /\ Submits(call) /\ Entry!Writes(call)
      /\ busy' = FALSE /\ calls' = calls \ {call}
  BY DEF Entry!ReturnCreate, Entry!server, Entry!history, Submits, Entry!Writes
<1>2. CASE call.answer[1].kind = "ok"
  <2>1. Entry!Finish(call) /\ Entry!Succeeded(call)
    BY <1>2 DEF Entry!ReturnCreate, Entry!Succeeded
  <2>2. \A w \in calls' : ~Submits(w)
    BY <1>1, OneSubmission DEF EntryInv
  <2>. QED
    BY <1>1, <2>1, <2>2, FinishKeeps
<1>3. CASE call.answer[1].kind # "ok"
  <2>1. notice' = [kind |-> "nothing", entry |-> call.draft.entry] /\ UNCHANGED <<form, dialog>>
    BY <1>3 DEF Entry!ReturnCreate
  <2>2. ~Tells(call)
    BY <1>3 DEF Tells, Entry!Succeeded
  <2>. QED
    BY <1>1, <2>1, <2>2, RefusalKeeps
<1>. QED
  BY <1>2, <1>3

LEMMA ReturnConfirmKeeps ==
  ASSUME EntryInv, NEW call \in calls, call.answer # <<>>, Entry!ReturnConfirm(call)
  PROVE  EntryInv'
<1>1. /\ UNCHANGED <<categories, rules, txs, online, busy, confirmed, cancelled, untold>>
      /\ call.kind = "confirm" /\ Asks(call) /\ Entry!Writes(call)
      /\ calls' = calls \ {call}
  BY DEF Entry!ReturnConfirm, Entry!server, Entry!history, Asks, Entry!Writes
<1>2. CASE call.answer[1].kind = "ok"
  <2>1. Entry!Finish(call) /\ Entry!Succeeded(call)
    BY <1>2 DEF Entry!ReturnConfirm, Entry!Succeeded
  <2>2. busy' \in BOOLEAN /\ \A w \in calls' : Submits(w) => busy'
    BY <1>1 DEF EntryInv, PageFits, OneAtATime, CallIsAwaited
  <2>. QED
    BY <1>1, <2>1, <2>2, FinishKeeps
<1>3. CASE call.answer[1].kind # "ok" /\ ~Entry!Mounted(call)
  <2>1. UNCHANGED <<form, notice, dialog>>
    BY <1>3 DEF Entry!ReturnConfirm
  <2>2. ~Tells(call)
    BY <1>3 DEF Tells, Entry!Succeeded
  <2>. QED
    BY <1>1, <2>1, <2>2, Unnoticed
<1>4. CASE call.answer[1].kind # "ok" /\ Entry!Mounted(call)
  <2>1. PICK old : old = dialog[1]
    OBVIOUS
  <2>2. dialog' = <<[old EXCEPT !.busy = FALSE, !.error = TRUE]>> /\ UNCHANGED <<form, notice>>
    BY <1>4, <2>1 DEF Entry!ReturnConfirm
  <2>3. DialogFits(old) /\ DialogIsRecord(old)
    BY <1>4, <2>1 DEF EntryInv, PageFits, DialogFits, Entry!Mounted, Entry!Open
  <2>4. PICK no, yes : no = FALSE /\ yes = TRUE
    OBVIOUS
  <2>5. PICK d : d = [draft |-> old.draft, mount |-> old.mount, status |-> old.status,
                      listed |-> old.listed, selected |-> old.selected, suggested |-> old.suggested,
                      busy |-> no, error |-> yes]
    OBVIOUS
  <2>6. dialog' = <<d>>
    BY <2>2, <2>3, <2>4, <2>5, DialogUpdates
  <2>7. DialogFits(d)' /\ d.draft = old.draft /\ d.mount = old.mount
    BY <1>1, <2>2, <2>3, <2>4, <2>5 DEF DialogFits, DialogIsRecord, DraftFits
  <2>8. ~Tells(call)
    BY <1>4 DEF Tells, Entry!Succeeded
  <2>. QED
    BY <1>1, <1>4, <2>1, <2>2, <2>6, <2>7, <2>8, DialogAnswered
<1>. QED
  BY <1>2, <1>3, <1>4

LEMMA ReturnCategoryKeeps ==
  ASSUME EntryInv, NEW call \in calls, call.answer # <<>>, Entry!ReturnCategory(call)
  PROVE  EntryInv'
<1>1. /\ UNCHANGED <<categories, rules, txs, online, form, busy, notice, confirmed, cancelled, untold>>
      /\ call.kind = "category" /\ Asks(call) /\ ~Tells(call)
      /\ calls' = calls \ {call}
  BY DEF Entry!ReturnCategory, Entry!Rest, Entry!server, Entry!history, Asks, Tells, Entry!Writes
<1>2. CASE ~Entry!Mounted(call)
  <2>1. UNCHANGED dialog
    BY <1>2 DEF Entry!ReturnCategory
  <2>. QED
    BY <1>1, <2>1, Unnoticed
<1>3. CASE Entry!Mounted(call)
  <2>1. PICK old : old = dialog[1]
    OBVIOUS
  <2>2. DialogFits(old) /\ DialogIsRecord(old) /\ old.status = "ready"
    BY <1>1, <1>3, <2>1, OneQuestion DEF EntryInv, PageFits, DialogFits, Entry!Mounted, Entry!Open
  <2>3. PICK no : no = FALSE
    OBVIOUS
  <2>4. PICK listed, selected :
           \/ listed = old.listed \cup {call.category} /\ selected = call.category
              /\ call.answer[1].kind = "ok"
           \/ listed = old.listed /\ selected = old.selected /\ call.answer[1].kind # "ok"
    OBVIOUS
  <2>5. PICK d : d = [draft |-> old.draft, mount |-> old.mount, status |-> old.status,
                      listed |-> listed, selected |-> selected, suggested |-> old.suggested,
                      busy |-> no, error |-> old.error]
    OBVIOUS
  <2>6. dialog' = <<d>>
    <3>1. CASE call.answer[1].kind = "ok"
      <4>1. dialog' = <<[old EXCEPT !.busy = FALSE, !.listed = listed, !.selected = selected]>>
        BY <1>3, <2>1, <2>4, <3>1 DEF Entry!ReturnCategory
      <4>. QED
        BY <2>2, <2>3, <2>5, <4>1, DialogUpdates
    <3>2. CASE call.answer[1].kind # "ok"
      <4>1. dialog' = <<[old EXCEPT !.busy = FALSE]>>
        BY <1>3, <2>1, <3>2 DEF Entry!ReturnCategory
      <4>. QED
        BY <2>2, <2>3, <2>4, <2>5, <3>2, <4>1, DialogUpdates
    <3>. QED
      BY <3>1, <3>2
  <2>7. call.answer[1].kind = "ok" => call.category \in categories
    BY <1>1 DEF EntryInv, PageFits, CallFits, AnswerFits
  <2>8. listed \subseteq categories /\ selected \in listed
    BY <2>2, <2>4, <2>7 DEF DialogFits
  <2>9. DialogFits(d)' /\ d.draft = old.draft /\ d.mount = old.mount
    BY <1>1, <2>2, <2>3, <2>5, <2>8 DEF DialogFits, DialogIsRecord, DraftFits
  <2>. QED
    BY <1>1, <1>3, <2>1, <2>6, <2>9, DialogAnswered
<1>. QED
  BY <1>2, <1>3

LEMMA ReturnListKeeps ==
  ASSUME EntryInv, NEW call \in calls, call.answer # <<>>, Entry!ReturnList(call)
  PROVE  EntryInv'
<1>1. /\ UNCHANGED <<categories, rules, txs, online, form, busy, notice, confirmed, cancelled, untold>>
      /\ call.kind = "list" /\ Asks(call) /\ ~Tells(call)
      /\ calls' = calls \ {call}
  BY DEF Entry!ReturnList, Entry!Rest, Entry!server, Entry!history, Asks, Tells, Entry!Writes
<1>2. CASE ~Entry!Mounted(call)
  <2>1. UNCHANGED dialog
    BY <1>2 DEF Entry!ReturnList
  <2>. QED
    BY <1>1, <2>1, Unnoticed
<1>3. CASE Entry!Mounted(call)
  <2>1. PICK old : old = dialog[1]
    OBVIOUS
  <2>2. DialogFits(old) /\ DialogIsRecord(old) /\ old.status = "loading" /\ old.mount # 0
    <3>1. old.status = "loading" /\ dialog # <<>>
      BY <1>1, <1>3, <2>1, OneQuestion DEF EntryInv
    <3>2. old.mount # 0
      BY <1>1, <1>3, <2>1 DEF EntryInv, PageFits, CallFits, Entry!Mounted
    <3>. QED
      BY <2>1, <3>1, <3>2 DEF EntryInv, PageFits, DialogFits
  <2>3. PICK listed, status :
           \/ listed = call.answer[1].categories \cup {old.suggested} /\ status = "ready"
              /\ call.answer[1].kind = "ok"
           \/ listed = old.listed /\ status = "error" /\ call.answer[1].kind # "ok"
    OBVIOUS
  <2>4. PICK d : d = [draft |-> old.draft, mount |-> old.mount, status |-> status,
                      listed |-> listed, selected |-> old.selected, suggested |-> old.suggested,
                      busy |-> old.busy, error |-> old.error]
    OBVIOUS
  <2>5. dialog' = <<d>>
    <3>1. CASE call.answer[1].kind = "ok"
      <4>1. dialog' = <<[old EXCEPT !.status = status, !.listed = listed]>>
        BY <1>3, <2>1, <2>3, <3>1 DEF Entry!ReturnList
      <4>. QED
        BY <2>2, <2>4, <4>1, DialogUpdates
    <3>2. CASE call.answer[1].kind # "ok"
      <4>1. dialog' = <<[old EXCEPT !.status = status]>>
        BY <1>3, <2>1, <2>3, <3>2 DEF Entry!ReturnList
      <4>. QED
        BY <2>2, <2>3, <2>4, <3>2, <4>1 DEF DialogIsRecord
    <3>. QED
      BY <3>1, <3>2
  <2>6. call.answer[1].kind = "ok" => call.answer[1].categories \subseteq categories
    BY <1>1 DEF EntryInv, PageFits, CallFits, AnswerFits
  <2>7. listed \subseteq categories /\ old.selected \in listed /\ old.selected = old.suggested /\ ~old.busy
    BY <2>2, <2>3, <2>6 DEF DialogFits
  <2>8. DialogFits(d)' /\ d.draft = old.draft /\ d.mount = old.mount
    BY <1>1, <2>2, <2>3, <2>4, <2>7 DEF DialogFits, DialogIsRecord, DraftFits
  <2>. QED
    BY <1>1, <1>3, <2>1, <2>5, <2>8, DialogAnswered
<1>. QED
  BY <1>2, <1>3

-----------------------------------------------------------------------------
LEMMA EntryNext ==
  ASSUME EntryInv, Entry!Next
  PROVE  EntryInv' /\ Entry!KnownOrConfirmed
<1>1. CASE Entry!Served
  <2>1. PICK call \in calls : Entry!Serve(call) \/ Entry!Fail(call)
    BY <1>1 DEF Entry!Served
  <2>. QED
    BY <2>1, ServeKeeps, FailKeeps DEF Entry!KnownOrConfirmed
<1>2. CASE Entry!Returned
  <2>1. PICK call \in Entry!Answered :
           \/ Entry!ReturnPreview(call) \/ Entry!ReturnCreate(call) \/ Entry!ReturnConfirm(call)
           \/ Entry!ReturnCategory(call) \/ Entry!ReturnList(call)
    BY <1>2 DEF Entry!Returned
  <2>2. call \in calls /\ call.answer # <<>>
    BY DEF Entry!Answered, Entry!Sent
  <2>3. EntryInv'
    BY <2>1, <2>2, ReturnPreviewKeeps, ReturnCreateKeeps, ReturnConfirmKeeps, ReturnCategoryKeeps,
       ReturnListKeeps
  <2>4. txs' = txs
    BY <2>1 DEF Entry!ReturnPreview, Entry!ReturnCreate, Entry!ReturnConfirm, Entry!ReturnCategory,
                Entry!ReturnList, Entry!Rest, Entry!server
  <2>. QED
    BY <2>3, <2>4 DEF Entry!KnownOrConfirmed
<1>3. CASE \/ Entry!Type \/ Entry!Submit \/ Entry!Choose \/ Entry!Confirm \/ Entry!Create
           \/ Entry!Reload \/ Entry!Cancel \/ Entry!GoOffline \/ Entry!GoOnline \/ Entry!OtherTab
  <2>1. EntryInv'
    BY <1>3, TypeKeeps, SubmitKeeps, ChooseKeeps, ConfirmKeeps, CreateKeeps, ReloadKeeps, CancelKeeps,
       GoOfflineKeeps, GoOnlineKeeps, OtherTabKeeps
  <2>2. txs' = txs
    BY <1>3 DEF Entry!Type, Entry!Submit, Entry!Choose, Entry!Confirm, Entry!Create, Entry!Reload,
                Entry!Cancel, Entry!GoOffline, Entry!GoOnline, Entry!OtherTab, Entry!Rest, Entry!server
  <2>. QED
    BY <2>1, <2>2 DEF Entry!KnownOrConfirmed
<1>. QED
  BY <1>1, <1>2, <1>3 DEF Entry!Next, Entry!Step

LEMMA EntryStays ==
  ASSUME EntryInv, UNCHANGED entryVars
  PROVE  EntryInv'
<1> USE DEF EntryInv
<1>1. UNCHANGED <<categories, rules, txs, online, form, busy, dialog, calls, notice, confirmed,
                  cancelled, untold>>
  BY DEF entryVars
<1>2. FormFits' /\ form.entry <= form'.entry
  BY <1>1 DEF PageFits, FormFits
<1>3. PageFits'
  <2>1. dialog' # <<>> => dialog' = <<dialog'[1]>> /\ DialogFits(dialog[1])'
    <3>1. DialogFits(dialog[1]) => DialogFits(dialog[1])'
      BY <1>1 DEF DialogFits, DialogIsRecord, DraftFits
    <3>. QED
      BY <1>1, <3>1 DEF PageFits
  <2>2. dialog' # <<>> /\ ~online' => dialog'[1].status = "unmounted"
    BY <1>1 DEF PageFits
  <2>3. busy' \in BOOLEAN
    BY <1>1 DEF PageFits
  <2>. QED
    BY <1>1, <1>2, <2>1, <2>2, <2>3, PageFitsFewer
<1>4. OneAtATime'
  BY <1>1, OneStaysTheSame
<1>5. LedgerIsTold'
  BY <1>1, <1>2, SameScreen, LedgerKept
<1>6. NoticesFit'
  <2>1. dialog' # <<>> /\ dialog'[1].error => Unrecorded(dialog[1].draft.entry)'
    BY <1>1, SameLedger DEF NoticesFit, Unrecorded, Entry!Recordings
  <2>. QED
    BY <1>1, SameScreen, <2>1, NoticesKept DEF NoticesFit
<1>. QED
  BY <1>3, <1>4, <1>5, <1>6

(* What the page says, and its types.                                      *)
LEMMA EntrySaid ==
  ASSUME EntryInv
  PROVE  /\ Entry!TypeOK /\ Entry!RecordedOnce /\ Entry!SavedIsRecorded
         /\ Entry!CancelWritesNothing /\ Entry!NothingWrittenIsTrue
<1> USE DEF EntryInv
<1>1. categories \subseteq Named /\ \A k \in DOMAIN txs : txs[k].category \in categories
  BY DEF PageFits, ServerFits
<1>2. form \in [entry : Nat \ {0}, merchant : Merchants \cup {Entry!NoMerchant}]
  <2>1. form.entry \in Nat \ {0} /\ form.merchant \in Merchants \cup {Entry!NoMerchant}
        /\ form = [entry |-> form.entry, merchant |-> form.merchant]
    BY DEF PageFits, FormFits
  <2>. QED
    BY <2>1, Zenon
<1>3. dialog # <<>> => dialog[1].selected \in dialog[1].listed /\ dialog[1].listed \subseteq categories
  BY DEF PageFits, DialogFits
<1>4. Entry!TypeOK
  BY <1>1, <1>2, <1>3 DEF PageFits, Entry!TypeOK, Entry!Open
<1>5. Entry!CancelWritesNothing /\ Entry!NothingWrittenIsTrue
  BY DEF NoticesFit, Unrecorded, Entry!CancelWritesNothing, Entry!NothingWrittenIsTrue, Entry!Open
<1>. QED
  BY <1>4, <1>5 DEF NoticesFit

(* The step of the page in a step of the run.                              *)
LEMMA EntryKept ==
  ASSUME case = "entries" => EntryInv, [MCNext]_mcVars
  PROVE  (case = "entries" => EntryInv)'
<1> SUFFICES ASSUME case' = "entries" PROVE EntryInv'
  OBVIOUS
<1>1. EntryInv
  BY DEF MCNext, SharesStep, EntryStep, BudgetStep, mcVars
<1>2. CASE Entry!Next
  BY <1>1, <1>2, EntryNext
<1>3. CASE UNCHANGED entryVars
  BY <1>1, <1>3, EntryStays
<1>. QED
  BY <1>2, <1>3 DEF MCNext, SharesStep, EntryStep, BudgetStep, mcVars

(* What the page says of an entry is true of the ledger, but for entries   *)
(* some recording of which no part of the page could learn of: with all    *)
(* merchants, categories, rules, calls in flight, lost answers, dialogs    *)
(* dismissed, forms typed ahead and changes of the connection.             *)
THEOREM PageNoticesAreTrue == MCSpec => []NoticesAreTrue
<1> DEFINE Inv == case = "entries" => EntryInv
<1>1. MCInit => Inv
  BY EntryInit DEF MCInit
<1>2. Inv /\ [MCNext]_mcVars => Inv'
  BY EntryKept
<1>3. Inv => NoticesAreTrue
  BY EntrySaid DEF NoticesAreTrue
<1>. QED
  BY <1>1, <1>2, <1>3, PTL DEF MCSpec

(* Nothing is recorded but under an active rule of its merchant or under a *)
(* category confirmed for this very entry, in all those behaviors.         *)
THEOREM RecordingsAreAuthorized == MCSpec => OnlyKnownOrConfirmed
<1> DEFINE Inv == case = "entries" => EntryInv
<1>1. MCInit => Inv
  BY EntryInit DEF MCInit
<1>2. Inv /\ [MCNext]_mcVars => Inv'
  BY EntryKept
<1>3. Inv /\ [MCNext]_mcVars => [case = "entries" => Entry!KnownOrConfirmed]_mcVars
  <2> SUFFICES ASSUME Inv, MCNext, case = "entries" PROVE Entry!KnownOrConfirmed
    OBVIOUS
  <2>1. Entry!Next
    BY DEF MCNext, SharesStep, EntryStep, BudgetStep
  <2>. QED
    BY <2>1, EntryNext
<1>. QED
  BY <1>1, <1>2, <1>3, PTL DEF MCSpec, OnlyKnownOrConfirmed

=============================================================================
