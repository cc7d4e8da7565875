----------------------------- MODULE SwapProofs -----------------------------
(***************************************************************************)
(* Safety of a swap for any requests, quotes and numbers of attempts.      *)
(*                                                                         *)
(* The ledger only grows: a hold is made once, and resolved once.  What    *)
(* the rows say of it is exact as long as no rows were rolled back after a *)
(* ledger call; when they were, the swap is stuck (`Stuck`): its leg has a *)
(* first transfer that no later call can post or void.                     *)
(***************************************************************************)
EXTENDS SwapSaga, TLAPS

Failed == {"FAILED", "TIMEOUT", "RETURNED"}
Held == {"SIGNING", "BROADCASTED", "CONFIRMING", "CONFIRMED", "CANCELLED"}
Done == {"posted", "voided"}
Busy == tx.at # "idle"

\* A quote is consumed with the commit of the one request that gets it.
QuotesFit ==
  /\ \A s \in Request : swap[s].status # "none" => quote[QuoteOf[s]] # "ACTIVE"
  /\ \A s, u \in Request : swap[s].status # "none" /\ swap[u].status # "none"
       /\ QuoteOf[s] = QuoteOf[u] => s = u
  /\ Busy /\ swap[tx.on].status = "none" => quote[QuoteOf[tx.on]] = "ACTIVE"

\* Legs are made in order, each after the earlier ones are CLEAR.
RowFits(row) ==
  /\ row.status = "none" => \A l \in Leg : row.tries[l] = 0
  /\ \A l \in Leg : row.tries[l] = 0 <=> row.leg[l] = "none"
  /\ \A l, m \in Leg : m < l /\ row.tries[l] > 0 => row.leg[m] = "CLEAR"
  /\ row.status = "SUCCESS" <=> row.leg[4] = "CLEAR"
  /\ \A l \in Leg : row.leg[l] \in Held \union {"none", "CLEAR", "NEEDS_REVIEW"}
RowsFit == \A s \in Request : RowFits(swap[s])

\* Everything of the legs before l is posted.
Paid(s, l) ==
  \A m \in Leg : m < l =>
    /\ swap[s].tries[m] > 0
    /\ \A j \in Entries(s, m) : ledger[s][m][swap[s].tries[m]][j] = "posted"

\* What holds of the ledger of every request, torn or not.
CellFits(s, l, a, k) ==
  LET row == swap[s]  tb == ledger[s][l][a][k] IN
  /\ k \notin Entries(s, l) => tb = "none"
  /\ k \in Entries(s, l) =>
       /\ a < row.tries[l] => tb = "voided"
       /\ a = row.tries[l] /\ row.leg[l] = "NEEDS_REVIEW" => tb = "voided"
       /\ a = row.tries[l] /\ row.leg[l] = "CLEAR" => tb = "posted"
       /\ a > row.tries[l] => tb # "posted"
       /\ tb # "none" => Paid(s, l)
LedgerFits ==
  \A s \in Request, l \in Leg :
    /\ swap[s].tries[l] > 0 => Paid(s, l)
    /\ \A a \in Attempt, k \in 1..2 : CellFits(s, l, a, k)

\* What holds of the others: the rows are the truth, until a ledger call.
Clean ==
  \A s \in Request \ torn, l \in Leg, a \in Attempt : \A k \in Entries(s, l) :
    /\ swap[s].evidence[l][a][k] = Expected(swap[s], l, a)
    /\ ~(Busy /\ tx.on = s /\ tx.wrote) => ledger[s][l][a][k] = Expected(swap[s], l, a)

\* The rows of the transaction at work, against the committed ones.
WorkFits ==
  LET old == swap[tx.on]  row == tx.row  l == tx.leg IN
  /\ tx.at \in {"post", "void"} =>
       /\ old.status = "PROCESSING" /\ row.status = "PROCESSING"
       /\ old.tries[l] > 0 /\ row.tries = old.tries
       /\ \A m \in Leg \ {l} : row.leg[m] = old.leg[m]
       /\ tx.wrote <=> tx.next > 1
  /\ tx.at = "post" => row.leg[l] = "CLEAR" /\ old.leg[l] = "CONFIRMED"
  /\ tx.at = "void" =>
       /\ row.leg[l] \in Failed
       /\ old.leg[l] \in Held \union {"CLEAR"}
       /\ tx.wrote => old.leg[l] # "CLEAR"
  /\ tx.at = "hold" =>
       /\ row.status = "PROCESSING" /\ row.leg[l] = "CREATED"
       /\ row.tries[l] = old.tries[l] + 1
       /\ \A m \in Leg \ {l} : row.tries[m] = IF m < l THEN old.tries[m] ELSE 0
       /\ \A m \in Leg : (m < l => row.leg[m] = "CLEAR" /\ row.tries[m] > 0)
                         /\ (m > l => row.leg[m] = "none" /\ old.tries[m] = 0)
       /\ Paid(tx.on, l)
       /\ ~tx.wrote /\ old.status # "none" /\ Entries(tx.on, l) # {} =>
            old.leg[l] = "NEEDS_REVIEW"
  /\ tx.at = "commit" => RowFits(row) /\ row.status # "none"
  /\ Busy => old.status # "SUCCESS"

\* The transfer to be made next is as before the transaction, the rest as the rows
\* to be committed will say.
WorkIsClean ==
  Busy /\ tx.on \notin torn =>
    \A l \in Leg, a \in Attempt : \A k \in Entries(tx.on, l) :
      LET row == IF tx.at # "commit" /\ l = tx.leg /\ a = tx.row.tries[l] /\ k >= tx.next
                 THEN swap[tx.on] ELSE tx.row
      IN  /\ ledger[tx.on][l][a][k] = Expected(row, l, a)
          /\ tx.row.evidence[l][a][k] = Expected(row, l, a)

\* The first transfer of an attempt can neither be posted nor voided.
Spent(s, row, l, a) ==
  ledger[s][l][a][1] \in Done \/ row.evidence[l][a][1] = "none"
StuckLeg(s, l) ==
  LET row == swap[s]  a == row.tries[l] IN
  /\ 1 \in Entries(s, l) /\ a > 0
  /\ \/ row.leg[l] \in Held /\ Spent(s, row, l, a)
     \/ /\ row.leg[l] = "NEEDS_REVIEW" /\ a < Attempts
        /\ ledger[s][l][a + 1][1] # "none" /\ row.evidence[l][a + 1][1] = "none"
Stuck(s) == \E l \in Leg : StuckLeg(s, l)
TornIsStuck ==
  /\ \A s \in torn : swap[s].status # "none" => Stuck(s)
  /\ Busy /\ tx.wrote /\ swap[tx.on].status # "none" => Stuck(tx.on)

\* A transaction on a torn request gets no further than to another status of the
\* leg, or to another attempt that is stuck from the start.
TornGetsNowhere ==
  LET old == swap[tx.on]  row == tx.row  l == tx.leg  a == row.tries[l] IN
  Busy /\ tx.on \in torn =>
    /\ old.status # "none" /\ 1 \in Entries(tx.on, l) /\ a > 0
    /\ tx.at \in {"post", "void"} => tx.next = 1 /\ Spent(tx.on, row, l, a)
    /\ tx.at = "hold" =>
         /\ old.leg[l] = "NEEDS_REVIEW"
         /\ ledger[tx.on][l][a][1] # "none" /\ row.evidence[l][a][1] = "none"
    /\ tx.at = "commit" =>
         /\ row.leg[l] \in Held /\ Spent(tx.on, row, l, a)
         /\ \A m \in Leg \ {l} : row.leg[m] = old.leg[m] /\ row.tries[m] = old.tries[m]
         /\ \/ old.leg[l] \in Held /\ a = old.tries[l]
            \/ old.leg[l] = "NEEDS_REVIEW" /\ a = old.tries[l] + 1

SwapInv ==
  /\ TypeOK /\ QuotesFit /\ RowsFit /\ LedgerFits /\ Clean
  /\ WorkFits /\ WorkIsClean /\ TornIsStuck /\ TornGetsNowhere

-----------------------------------------------------------------------------
(* Type correctness, and what a step does to the two nested functions.     *)

LEMMA EntriesType ==
  ASSUME NEW s \in Request, NEW l \in Leg
  PROVE  /\ Entries(s, l) \subseteq 1..2
         /\ 1 \in Entries(s, l) \/ Entries(s, l) = {}
         /\ 2 \in Entries(s, l) => 1 \in Entries(s, l)
         /\ l # 4 => 1 \in Entries(s, l)
BY DEF Entries, Leg

LEMMA EntriesStay ==
  ASSUME UNCHANGED terms
  PROVE  \A s, l : Entries(s, l)' = Entries(s, l)
BY DEF Entries

LEMMA RowType ==
  /\ NoRow \in Row
  /\ \A row \in Row : /\ row.status \in {"none", "PROCESSING", "SUCCESS"}
                      /\ row.tries \in [Leg -> 0..Attempts]
                      /\ row.leg \in [Leg -> FundStatus \union {"none"}]
                      /\ row.evidence \in [Leg -> [Attempt -> [1..2 -> TbStatus]]]
BY SwapAssumption DEF NoRow, Row, Untouched, TbStatus, FundStatus

LEMMA IdleType ==
  Idle \in Transaction /\ Idle.at = "idle" /\ Idle.next = 1 /\ Idle.wrote = FALSE
BY RowType, SwapAssumption DEF Idle, Transaction, Leg

Opens(old, l, a, row) ==
  /\ row \in Row /\ row.status = old.status /\ row.evidence = old.evidence
  /\ row.tries = [old.tries EXCEPT ![l] = a]
  /\ row.leg = [old.leg EXCEPT ![l] = "CREATED"]

LEMMA OpenedType ==
  ASSUME NEW row \in Row, NEW l \in Leg, NEW a \in 0..Attempts
  PROVE  Opens(row, l, a, Opened(row, l, a))
BY DEF Opened, Opens, Row, FundStatus

LEMMA FundType ==
  ASSUME NEW s, NEW l, NEW status, NEW act, NEW t \in NextFund(s, l, status, act)
  PROVE  /\ status = t[1] /\ act = t[2] /\ t[3] \in FundStatus
         /\ t[3] \in {"SIGNING", "BROADCASTED", "CONFIRMING", "CONFIRMED", "CLEAR",
                       "FAILED", "TIMEOUT", "RETURNED", "CANCELLED"}
         /\ t[3] = "CLEAR" => status = "CONFIRMED"
         /\ status \in {"CREATED", "SIGNING", "BROADCASTED", "CONFIRMING", "CONFIRMED", "CLEAR"}
         /\ status = "CLEAR" => t[3] = "RETURNED"
         /\ status = "CREATED" /\ act # "CANCEL" => t[3] \in {"SIGNING", "CONFIRMING"}
<1>1. t \in CryptoFundTransitions \union FiatFundTransitions /\ t[1] = status /\ t[2] = act
  BY DEF NextFund, FundTransitions
<1>2. CASE t \in FiatFundTransitions
  BY <1>1, <1>2 DEF FiatFundTransitions, FundStatus
<1>3. CASE t \in CryptoFundTransitions
  BY <1>1, <1>3 DEF CryptoFundTransitions, FundStatus
<1> QED
  BY <1>1, <1>2, <1>3

Ledger == [Request -> [Leg -> [Attempt -> [1..2 -> TbStatus]]]]

LEMMA TxType ==
  ASSUME TypeOK
  PROVE  /\ tx.at \in {"idle", "hold", "post", "void", "commit"}
         /\ tx.on \in Request /\ tx.leg \in Leg /\ tx.next \in 1..3
         /\ tx.row \in Row /\ tx.wrote \in BOOLEAN
         /\ tx = [at |-> tx.at, on |-> tx.on, leg |-> tx.leg, next |-> tx.next,
                  row |-> tx.row, wrote |-> tx.wrote]
BY DEF TypeOK, Transaction

LEMMA TransferEffect ==
  ASSUME TypeOK, At \in Attempt, tx.next \in 1..2, NEW status \in TbStatus,
         Transfer(status)
  PROVE  /\ ledger' \in Ledger
         /\ \A s \in Request, l \in Leg, a \in Attempt, k \in 1..2 :
              ledger'[s][l][a][k] =
                IF s = tx.on /\ l = tx.leg /\ a = At /\ k = tx.next
                THEN status ELSE ledger[s][l][a][k]
<1> DEFINE one == [ledger[tx.on][tx.leg][At] EXCEPT ![tx.next] = status]
           leg == [ledger[tx.on][tx.leg] EXCEPT ![At] = one]
           all == [ledger[tx.on] EXCEPT ![tx.leg] = leg]
<1>1. ledger \in Ledger /\ tx.on \in Request /\ tx.leg \in Leg
  BY TxType DEF TypeOK, Ledger
<1>2. ledger' = [ledger EXCEPT ![tx.on] = all]
  BY DEF Transfer
<1>3. /\ one \in [1..2 -> TbStatus]
      /\ \A k \in 1..2 : one[k] = IF k = tx.next THEN status
                                  ELSE ledger[tx.on][tx.leg][At][k]
  BY <1>1 DEF Ledger
<1>4. /\ leg \in [Attempt -> [1..2 -> TbStatus]]
      /\ \A a \in Attempt : leg[a] = IF a = At THEN one ELSE ledger[tx.on][tx.leg][a]
  <2> HIDE DEF one
  <2> QED
    BY <1>1, <1>3 DEF Ledger
<1>5. /\ all \in [Leg -> [Attempt -> [1..2 -> TbStatus]]]
      /\ \A l \in Leg : all[l] = IF l = tx.leg THEN leg ELSE ledger[tx.on][l]
  <2> HIDE DEF leg
  <2> QED
    BY <1>1, <1>4 DEF Ledger
<1>6. /\ ledger' \in Ledger
      /\ \A s \in Request : ledger'[s] = IF s = tx.on THEN all ELSE ledger[s]
  <2> HIDE DEF all
  <2> QED
    BY <1>1, <1>2, <1>5 DEF Ledger
<1> HIDE DEF one, leg, all
<1> QED
  BY <1>3, <1>4, <1>5, <1>6

LEMMA RecordedEffect ==
  ASSUME TypeOK, At \in Attempt, tx.next \in 1..2, NEW status \in TbStatus,
         Recorded(status)
  PROVE  /\ tx' \in Transaction
         /\ tx'.at = tx.at /\ tx'.on = tx.on /\ tx'.leg = tx.leg
         /\ tx'.next = tx.next + 1 /\ tx'.wrote = TRUE
         /\ tx'.row.status = tx.row.status /\ tx'.row.tries = tx.row.tries
         /\ tx'.row.leg = tx.row.leg
         /\ \A l \in Leg, a \in Attempt, k \in 1..2 :
              tx'.row.evidence[l][a][k] =
                IF l = tx.leg /\ a = At /\ k = tx.next
                THEN status ELSE tx.row.evidence[l][a][k]
<1> DEFINE old == tx.row.evidence
           one == [old[tx.leg][At] EXCEPT ![tx.next] = status]
           leg == [old[tx.leg] EXCEPT ![At] = one]
           all == [old EXCEPT ![tx.leg] = leg]
<1>1. tx \in Transaction /\ tx.row \in Row /\ tx.leg \in Leg
      /\ old \in [Leg -> [Attempt -> [1..2 -> TbStatus]]]
  BY TxType, RowType DEF TypeOK
<1>2. tx' = [tx EXCEPT !.row = [tx.row EXCEPT !.evidence = all],
                       !.next = tx.next + 1, !.wrote = TRUE]
  BY DEF Recorded
<1> HIDE DEF old
<1>3. /\ one \in [1..2 -> TbStatus]
      /\ \A k \in 1..2 : one[k] = IF k = tx.next THEN status ELSE old[tx.leg][At][k]
  BY <1>1
<1>4. /\ leg \in [Attempt -> [1..2 -> TbStatus]]
      /\ \A a \in Attempt : leg[a] = IF a = At THEN one ELSE old[tx.leg][a]
  <2> HIDE DEF one
  <2> QED
    BY <1>1, <1>3
<1>5. /\ all \in [Leg -> [Attempt -> [1..2 -> TbStatus]]]
      /\ \A l \in Leg : all[l] = IF l = tx.leg THEN leg ELSE old[l]
  <2> HIDE DEF leg
  <2> QED
    BY <1>1, <1>4
<1> HIDE DEF one, leg, all
<1> DEFINE new == [tx.row EXCEPT !.evidence = all]
<1>6. /\ new \in Row /\ new.evidence = all /\ new.status = tx.row.status
      /\ new.tries = tx.row.tries /\ new.leg = tx.row.leg
  BY <1>1, <1>5 DEF Row
<1> HIDE DEF new
<1>7. tx' = [tx EXCEPT !.row = new, !.next = tx.next + 1, !.wrote = TRUE]
  BY <1>2 DEF new
<1>8. /\ tx'.at = tx.at /\ tx'.on = tx.on /\ tx'.leg = tx.leg
      /\ tx'.next = tx.next + 1 /\ tx'.wrote = TRUE /\ tx'.row = new
  BY <1>1, <1>7 DEF Transaction
<1>9. tx' \in Transaction
  <2>1. tx.next + 1 \in 1..3
    OBVIOUS
  <2> QED
    BY <1>1, <1>6, <1>7, <2>1, Zenon DEF Transaction
<1> QED
  BY <1>3, <1>4, <1>5, <1>6, <1>8, <1>9 DEF old

LEMMA SkippedEffect ==
  ASSUME TypeOK, tx.next \in 1..2, Skipped
  PROVE  /\ tx' \in Transaction
         /\ tx'.at = tx.at /\ tx'.on = tx.on /\ tx'.leg = tx.leg
         /\ tx'.next = tx.next + 1 /\ tx'.wrote = tx.wrote /\ tx'.row = tx.row
<1>1. tx.next + 1 \in 1..3 /\ tx' = [tx EXCEPT !.next = tx.next + 1]
  BY DEF Skipped
<1>2. tx' \in Transaction
  BY <1>1, Zenon DEF TypeOK, Transaction
<1> QED
  BY <1>1, <1>2 DEF TypeOK, Transaction

LEMMA GoOnEffect ==
  ASSUME TypeOK, NEW place \in {"hold", "commit"}, NEW l \in Leg, NEW row \in Row,
         GoOn(place, l, row)
  PROVE  /\ tx' \in Transaction
         /\ tx'.at = place /\ tx'.on = tx.on /\ tx'.leg = l
         /\ tx'.next = 1 /\ tx'.wrote = tx.wrote /\ tx'.row = row
<1>1. tx' = [tx EXCEPT !.at = place, !.leg = l, !.next = 1, !.row = row] /\ 1 \in 1..3
  BY DEF GoOn
<1>2. tx' \in Transaction
  BY <1>1, Zenon DEF TypeOK, Transaction
<1> QED
  BY <1>1, <1>2 DEF TypeOK, Transaction

\* A call begins with the rows `row`, on leg l of request s.
Begun(s, place, l, row) ==
  /\ tx.at = "idle" /\ UNCHANGED <<terms, quote, cancelling, swap, ledger, torn>>
  /\ tx'.at = place /\ tx'.on = s /\ tx'.leg = l
  /\ tx'.next = 1 /\ ~tx'.wrote /\ tx'.row = row

LEMMA BeginEffect ==
  ASSUME NEW s \in Request, NEW place \in {"hold", "post", "void", "commit"},
         NEW l \in Leg, NEW row \in Row, Begin(s, place, l, row)
  PROVE  tx' \in Transaction /\ Begun(s, place, l, row)
<1>1. /\ tx' = [Idle EXCEPT !.at = place, !.on = s, !.leg = l, !.row = row]
      /\ tx.at = "idle" /\ UNCHANGED <<terms, quote, cancelling, swap, ledger, torn>>
  BY DEF Begin
<1>2. tx' \in Transaction
  BY <1>1, IdleType, Zenon DEF Transaction
<1>3. /\ tx'.at = place /\ tx'.on = s /\ tx'.leg = l
      /\ tx'.next = 1 /\ ~tx'.wrote /\ tx'.row = row
  BY <1>1, IdleType DEF Transaction
<1> QED
  BY <1>1, <1>2, <1>3, Zenon DEF Begun

LEMMA AtType ==
  ASSUME TypeOK, WorkFits, tx.at \in {"hold", "post", "void"}
  PROVE  /\ At \in Attempt /\ tx.row \in Row /\ tx.leg \in Leg
         /\ swap[tx.on] \in Row
         /\ More => tx.next \in 1..2
<1>1. tx.row \in Row /\ tx.leg \in Leg /\ tx.on \in Request /\ swap[tx.on] \in Row
  BY TxType DEF TypeOK
<1>2. tx.row.tries[tx.leg] > 0 /\ tx.row.tries[tx.leg] \in 0..Attempts
  BY <1>1, RowType DEF WorkFits
<1>3. At \in Attempt
  BY <1>2, SwapAssumption DEF At, Attempt
<1> QED
  BY <1>1, <1>3, EntriesType DEF More

LEMMA CellTypes ==
  ASSUME TypeOK, NEW s \in Request
  PROVE  /\ swap[s] \in Row
         /\ swap[s].status \in {"none", "PROCESSING", "SUCCESS"}
         /\ \A l \in Leg : /\ swap[s].tries[l] \in 0..Attempts
                           /\ swap[s].leg[l] \in FundStatus \union {"none"}
         /\ \A l \in Leg, a \in Attempt, k \in 1..2 :
              /\ ledger[s][l][a][k] \in TbStatus
              /\ swap[s].evidence[l][a][k] \in TbStatus
              /\ tx.row.evidence[l][a][k] \in TbStatus
<1>1. swap[s] \in Row /\ tx.row \in Row
  BY TxType DEF TypeOK
<1> QED
  BY <1>1, RowType DEF TypeOK

\* The rows a call begins with.
LEMMA ExecuteEffect ==
  ASSUME TypeOK, NEW s \in Request, Execute(s)
  PROVE  \E row \in Row :
           /\ Begin(s, "hold", 1, row)
           /\ row.status = "PROCESSING" /\ row.evidence = Untouched
           /\ row.tries = [[l \in Leg |-> 0] EXCEPT ![1] = 1]
           /\ row.leg = [[l \in Leg |-> "none"] EXCEPT ![1] = "CREATED"]
<1> DEFINE new == [NoRow EXCEPT !.status = "PROCESSING"]
<1>1. /\ new \in Row /\ new.status = "PROCESSING" /\ new.evidence = Untouched
      /\ new.tries = [l \in Leg |-> 0] /\ new.leg = [l \in Leg |-> "none"]
  BY RowType DEF NoRow, Row
<1>2. 1 \in Leg /\ 1 \in 0..Attempts
  BY SwapAssumption DEF Leg
<1>3. Begin(s, "hold", 1, Opened(new, 1, 1))
  BY DEF Execute
<1> HIDE DEF new
<1> DEFINE row == Opened(new, 1, 1)
<1>4. Opens(new, 1, 1, row)
  BY <1>1, <1>2, OpenedType
<1>5. Begin(s, "hold", 1, row)
  BY <1>3
<1> HIDE DEF row
<1> QED
  BY <1>1, <1>4, <1>5 DEF Opens

LEMMA AdvanceEffect ==
  ASSUME TypeOK, NEW s \in Request, NEW l \in Leg, NEW act \in FundAction,
         Advance(s, l, act)
  PROVE  \E status \in FundStatus, row \in Row :
           /\ Begin(s, After(status), l, row)
           /\ After(status) \in {"post", "void", "commit"}
           /\ row.status = swap[s].status /\ row.evidence = swap[s].evidence
           /\ row.tries = swap[s].tries
           /\ row.leg = [swap[s].leg EXCEPT ![l] = status]
           /\ status \in Held \union Failed \union {"CLEAR"}
           /\ status = "CLEAR" => swap[s].leg[l] = "CONFIRMED"
           /\ swap[s].leg[l] = "CLEAR" => status = "RETURNED"
           /\ swap[s].leg[l] \in Held \union {"CREATED", "CLEAR"}
<1>1. PICK t \in NextFund(s, l, swap[s].leg[l], act) :
        Begin(s, After(t[3]), l, [swap[s] EXCEPT !.leg[l] = t[3]])
  BY DEF Advance
<1>2. t[3] \in FundStatus /\ swap[s] \in Row
  BY FundType, CellTypes
<1> DEFINE row == [swap[s] EXCEPT !.leg[l] = t[3]]
<1>3. /\ row \in Row /\ row.status = swap[s].status /\ row.evidence = swap[s].evidence
      /\ row.tries = swap[s].tries
      /\ row.leg = [swap[s].leg EXCEPT ![l] = t[3]]
  BY <1>2 DEF Row
<1> DEFINE from == swap[s].leg[l]
<1>6. /\ t[3] \in {"SIGNING", "BROADCASTED", "CONFIRMING", "CONFIRMED", "CLEAR",
                   "FAILED", "TIMEOUT", "RETURNED", "CANCELLED"}
      /\ t[3] = "CLEAR" => from = "CONFIRMED"
      /\ from \in {"CREATED", "SIGNING", "BROADCASTED", "CONFIRMING", "CONFIRMED", "CLEAR"}
      /\ from = "CLEAR" => t[3] = "RETURNED"
  BY FundType
<1>4. /\ t[3] \in Held \union Failed \union {"CLEAR"}
      /\ t[3] = "CLEAR" => from = "CONFIRMED"
      /\ from = "CLEAR" => t[3] = "RETURNED"
      /\ from \in Held \union {"CREATED", "CLEAR"}
  BY <1>6 DEF Held, Failed
<1>5. After(t[3]) \in {"post", "void", "commit"}
  BY DEF After
<1> HIDE DEF row
<1> QED
  BY <1>1, <1>2, <1>3, <1>4, <1>5 DEF row

LEMMA ResumeEffect ==
  ASSUME TypeOK, NEW s \in Request, NEW l \in Leg, Resume(s, l)
  PROVE  \E row \in Row :
           /\ Begin(s, "hold", l, row)
           /\ row.status = swap[s].status /\ row.evidence = swap[s].evidence
           /\ row.tries = [swap[s].tries EXCEPT ![l] = swap[s].tries[l] + 1]
           /\ row.leg = [swap[s].leg EXCEPT ![l] = "CREATED"]
<1>1. /\ swap[s].tries[l] + 1 \in 0..Attempts /\ swap[s] \in Row
      /\ Begin(s, "hold", l, Opened(swap[s], l, swap[s].tries[l] + 1))
  BY CellTypes, SwapAssumption DEF Resume
<1> DEFINE row == Opened(swap[s], l, swap[s].tries[l] + 1)
<1>2. Opens(swap[s], l, swap[s].tries[l] + 1, row)
  BY <1>1, OpenedType
<1>3. Begin(s, "hold", l, row)
  BY <1>1
<1> HIDE DEF row
<1> QED
  BY <1>2, <1>3 DEF Opens

\* The rows a transaction goes on with.
LEMMA LegPostedEffect ==
  ASSUME TypeOK, WorkFits, LegPosted
  PROVE  /\ tx.at = "post" /\ ~More
         /\ UNCHANGED <<terms, quote, cancelling, swap, ledger, torn>>
         /\ \E row \in Row :
              /\ row.evidence = tx.row.evidence
              /\ \/ /\ tx.leg = 4 /\ GoOn("commit", 4, row)
                    /\ row.status = "SUCCESS" /\ row.tries = tx.row.tries
                    /\ row.leg = tx.row.leg
                 \/ /\ tx.leg # 4 /\ tx.leg + 1 \in Leg /\ GoOn("hold", tx.leg + 1, row)
                    /\ row.status = tx.row.status
                    /\ row.tries = [tx.row.tries EXCEPT ![tx.leg + 1] = 1]
                    /\ row.leg = [tx.row.leg EXCEPT ![tx.leg + 1] = "CREATED"]
<1>1. tx.row \in Row /\ tx.leg \in Leg
  BY TxType
<1>2. CASE tx.leg = 4
  <2>1. GoOn("commit", 4, [tx.row EXCEPT !.status = "SUCCESS"])
    BY <1>2 DEF LegPosted
  <2> DEFINE row == [tx.row EXCEPT !.status = "SUCCESS"]
  <2>2. /\ row \in Row /\ row.status = "SUCCESS" /\ row.tries = tx.row.tries
        /\ row.leg = tx.row.leg /\ row.evidence = tx.row.evidence
    BY <1>1 DEF Row
  <2> HIDE DEF row
  <2> QED
    BY <1>2, <2>1, <2>2 DEF row, LegPosted
<1>3. CASE tx.leg # 4
  <2>1. /\ GoOn("hold", tx.leg + 1, Opened(tx.row, tx.leg + 1, 1))
        /\ tx.leg + 1 \in Leg /\ 1 \in 0..Attempts
    BY <1>1, <1>3, SwapAssumption DEF LegPosted, Leg
  <2> QED
    BY <1>1, <1>3, <2>1, OpenedType DEF LegPosted, Opens
<1> QED
  BY <1>2, <1>3

LEMMA LegVoidedEffect ==
  ASSUME TypeOK, WorkFits, LegVoided
  PROVE  /\ tx.at = "void" /\ ~More
         /\ UNCHANGED <<terms, quote, cancelling, swap, ledger, torn>>
         /\ \E row \in Row :
              /\ row.evidence = tx.row.evidence /\ row.status = tx.row.status
              /\ \/ /\ GoOn("commit", tx.leg, row) /\ row.tries = tx.row.tries
                    /\ row.leg = [tx.row.leg EXCEPT ![tx.leg] = "NEEDS_REVIEW"]
                 \/ /\ GoOn("hold", tx.leg, row)
                    /\ row.tries = [tx.row.tries EXCEPT ![tx.leg] = At + 1]
                    /\ row.leg = [tx.row.leg EXCEPT ![tx.leg] = "CREATED"]
<1>1. tx.row \in Row /\ tx.leg \in Leg /\ At \in Attempt
  BY TxType, AtType DEF LegVoided
<1>2. CASE At < MaxLegAttempts
  <2>1. /\ GoOn("hold", tx.leg, Opened(tx.row, tx.leg, At + 1))
        /\ At + 1 \in 0..Attempts
    BY <1>1, <1>2, SwapAssumption DEF LegVoided, Attempt
  <2> DEFINE row == Opened(tx.row, tx.leg, At + 1)
  <2>2. Opens(tx.row, tx.leg, At + 1, row)
    BY <1>1, <2>1, OpenedType
  <2>3. GoOn("hold", tx.leg, row)
    BY <2>1
  <2> HIDE DEF row
  <2> QED
    BY <2>2, <2>3 DEF LegVoided, Opens
<1>3. CASE ~(At < MaxLegAttempts)
  <2> DEFINE row == [tx.row EXCEPT !.leg[tx.leg] = "NEEDS_REVIEW"]
  <2>1. GoOn("commit", tx.leg, row)
    BY <1>3 DEF LegVoided
  <2>2. /\ row \in Row /\ row.status = tx.row.status /\ row.tries = tx.row.tries
        /\ row.leg = [tx.row.leg EXCEPT ![tx.leg] = "NEEDS_REVIEW"]
        /\ row.evidence = tx.row.evidence
    BY <1>1 DEF Row, FundStatus
  <2> HIDE DEF row
  <2> QED
    BY <2>1, <2>2 DEF LegVoided
<1> QED
  BY <1>2, <1>3

LEMMA LegHeldEffect ==
  ASSUME TypeOK, WorkFits, LegHeld
  PROVE  /\ tx.at = "hold" /\ ~More
         /\ UNCHANGED <<terms, quote, cancelling, swap, ledger>>
         /\ \/ Abort(tx.wrote)
            \/ /\ UNCHANGED torn
               /\ \E row \in Row, status \in Held :
                    /\ GoOn("commit", tx.leg, row)
                    /\ row.status = tx.row.status /\ row.tries = tx.row.tries
                    /\ row.leg = [tx.row.leg EXCEPT ![tx.leg] = status]
                    /\ row.evidence = tx.row.evidence
<1> DEFINE start == NextFund(tx.on, tx.leg, "CREATED", StartAction(tx.on, tx.leg))
<1>1. tx.row \in Row /\ tx.leg \in Leg /\ tx.on \in Request
  BY TxType
<1>2. CASE start = {}
  BY <1>2 DEF LegHeld
<1>3. CASE start # {}
  <2>1. PICK t \in start :
          GoOn("commit", tx.leg, [tx.row EXCEPT !.leg[tx.leg] = t[3]])
    BY <1>3 DEF LegHeld
  <2>5. StartAction(tx.on, tx.leg) # "CANCEL"
    BY DEF StartAction
  <2>2. t[3] \in {"SIGNING", "CONFIRMING"}
    BY <2>5, FundType
  <2> DEFINE row == [tx.row EXCEPT !.leg[tx.leg] = t[3]]
  <2>3. /\ row \in Row /\ row.status = tx.row.status /\ row.tries = tx.row.tries
        /\ row.leg = [tx.row.leg EXCEPT ![tx.leg] = t[3]]
        /\ row.evidence = tx.row.evidence
    BY <1>1, <2>2 DEF Row, FundStatus
  <2>4. t[3] \in Held
    BY <2>2 DEF Held
  <2> HIDE DEF row
  <2> QED
    BY <1>3, <2>1, <2>3, <2>4 DEF row, LegHeld
<1> QED
  BY <1>2, <1>3

-----------------------------------------------------------------------------
(* Types.                                                                  *)

LEMMA InitTyped ==
  ASSUME Init
  PROVE  TypeOK
<1>1. Untouched \in [Leg -> [Attempt -> [1..2 -> TbStatus]]]
  BY DEF Untouched, TbStatus
<1> QED
  BY <1>1, RowType, IdleType DEF Init, TypeOK

LEMMA BeginTyped ==
  ASSUME TypeOK, NEW s \in Request, NEW l \in Leg,
         Execute(s) \/ (\E act \in FundAction : Advance(s, l, act)) \/ Resume(s, l)
  PROVE  TypeOK'
<1>1. \E place \in {"hold", "post", "void", "commit"}, m \in Leg, row \in Row :
        Begin(s, place, m, row)
  <2>1. CASE Execute(s)
    BY <2>1, ExecuteEffect DEF Leg
  <2>2. CASE \E act \in FundAction : Advance(s, l, act)
    <3>1. PICK act \in FundAction : Advance(s, l, act)
      BY <2>2
    <3>2. PICK status \in FundStatus, row \in Row :
            Begin(s, After(status), l, row) /\ After(status) \in {"post", "void", "commit"}
      BY <3>1, AdvanceEffect
    <3> QED
      BY <3>2
  <2>3. CASE Resume(s, l)
    BY <2>3, ResumeEffect
  <2> QED
    BY <2>1, <2>2, <2>3
<1>2. tx' \in Transaction /\ UNCHANGED <<terms, quote, cancelling, swap, ledger, torn>>
  BY <1>1, BeginEffect DEF Begun
<1> QED
  BY <1>2 DEF TypeOK

LEMMA AbortTyped ==
  ASSUME TypeOK, NEW wrote, Abort(wrote)
  PROVE  tx' \in Transaction /\ torn' \subseteq Request /\ tx'.at = "idle"
BY IdleType, TxType DEF Abort, TypeOK

LEMMA HoldTyped ==
  ASSUME TypeOK, WorkFits, Hold
  PROVE  TypeOK'
<1>1. At \in Attempt /\ tx.next \in 1..2 /\ "pending" \in TbStatus
  BY AtType DEF Hold, TbStatus
<1>2. UNCHANGED <<terms, quote, cancelling, swap, torn>>
  BY DEF Hold
<1>3. CASE Transfer("pending") /\ Recorded("pending")
  <2>1. ledger' \in Ledger
    BY <1>1, <1>3, TransferEffect
  <2>2. tx' \in Transaction
    BY <1>1, <1>3, RecordedEffect
  <2> QED
    BY <1>2, <2>1, <2>2 DEF TypeOK, Ledger
<1>4. CASE UNCHANGED ledger /\ Skipped
  <2>1. tx' \in Transaction
    BY <1>1, <1>4, SkippedEffect
  <2> QED
    BY <1>2, <1>4, <2>1 DEF TypeOK
<1> QED
  BY <1>3, <1>4 DEF Hold

LEMMA ResolveTyped ==
  ASSUME TypeOK, WorkFits, Post \/ Void
  PROVE  TypeOK'
<1>1. At \in Attempt /\ tx.next \in 1..2
  BY AtType DEF Post, Void
<1>2. PICK status \in TbStatus : Resolve(status)
  BY DEF Post, Void, TbStatus
<1>3. UNCHANGED <<terms, quote, cancelling, swap>>
  BY <1>2 DEF Resolve
<1>4. ledger' \in Ledger
  <2>1. CASE UNCHANGED ledger
    BY <2>1 DEF TypeOK, Ledger
  <2>2. CASE Transfer(status)
    BY <1>1, <2>2, TransferEffect
  <2> QED
    BY <1>2, <2>1, <2>2 DEF Resolve
<1>5. tx' \in Transaction /\ torn' \subseteq Request
  <2>1. CASE Abort(tx.wrote)
    BY <2>1, AbortTyped
  <2>2. CASE Abort(TRUE)
    BY <2>2, AbortTyped
  <2>3. CASE Recorded(status) /\ UNCHANGED torn
    BY <1>1, <2>3, RecordedEffect DEF TypeOK
  <2> QED
    BY <1>2, <2>1, <2>2, <2>3 DEF Resolve
<1> QED
  BY <1>3, <1>4, <1>5 DEF TypeOK, Ledger

LEMMA TurnTyped ==
  ASSUME TypeOK, WorkFits, LegPosted \/ LegVoided \/ LegHeld
  PROVE  TypeOK'
<1>1. UNCHANGED <<terms, quote, cancelling, swap, ledger>>
  BY DEF LegPosted, LegVoided, LegHeld
<1>2. CASE LegHeld /\ Abort(tx.wrote)
  BY <1>1, <1>2, AbortTyped DEF TypeOK
<1>3. CASE ~(LegHeld /\ Abort(tx.wrote))
  <2>1. /\ UNCHANGED torn
        /\ \E place \in {"hold", "commit"}, l \in Leg, row \in Row : GoOn(place, l, row)
    <3>1. CASE LegPosted
      BY <3>1, LegPostedEffect DEF Leg
    <3>2. CASE LegVoided
      BY <3>2, LegVoidedEffect, TxType
    <3>3. CASE LegHeld
      BY <1>3, <3>3, LegHeldEffect, TxType
    <3> QED
      BY <3>1, <3>2, <3>3
  <2>2. tx' \in Transaction
    BY <2>1, GoOnEffect
  <2> QED
    BY <1>1, <2>1, <2>2 DEF TypeOK
<1> QED
  BY <1>2, <1>3

LEMMA EndTyped ==
  ASSUME TypeOK, Commit \/ Fails
  PROVE  TypeOK'
<1>1. CASE Commit
  <2>1. swap' \in [Request -> Row]
    BY <1>1, TxType DEF Commit, TypeOK
  <2>2. quote' \in [Quote -> {"ACTIVE", "USED", "CANCELLED"}]
    BY <1>1 DEF Commit, TypeOK
  <2> QED
    BY <1>1, <2>1, <2>2, IdleType DEF Commit, TypeOK
<1>2. CASE Fails
  BY <1>2, AbortTyped DEF Fails, TypeOK
<1> QED
  BY <1>1, <1>2

LEMMA CancelTyped ==
  ASSUME TypeOK, NEW q \in Quote, CancelRead(q) \/ CancelWrite(q)
  PROVE  TypeOK'
BY DEF CancelRead, CancelWrite, TypeOK

-----------------------------------------------------------------------------
(* The invariant.                                                          *)

LEMMA ExpectedIs ==
  ASSUME NEW row \in Row, NEW l \in Leg, NEW a \in Attempt
  PROVE  /\ a < row.tries[l] => Expected(row, l, a) = "voided"
         /\ a > row.tries[l] => Expected(row, l, a) = "none"
         /\ a = row.tries[l] =>
              /\ row.leg[l] = "CLEAR" => Expected(row, l, a) = "posted"
              /\ row.leg[l] \in Failed \union {"NEEDS_REVIEW"} =>
                   Expected(row, l, a) = "voided"
              /\ row.leg[l] \in Held \union {"CREATED"} =>
                   Expected(row, l, a) = "pending"
<1>1. row.tries[l] \in Nat /\ a \in Nat
  BY RowType, SwapAssumption DEF Attempt
<1>2. a < row.tries[l] => Expected(row, l, a) = "voided"
  BY DEF Expected
<1>3. a > row.tries[l] => Expected(row, l, a) = "none"
  BY <1>1 DEF Expected
<1>4. a = row.tries[l] =>
        Expected(row, l, a) =
          CASE row.leg[l] = "CLEAR" -> "posted"
            [] row.leg[l] \in {"FAILED", "TIMEOUT", "RETURNED", "NEEDS_REVIEW"} -> "voided"
            [] OTHER -> "pending"
  <2>1. a = row.tries[l] => ~(a < row.tries[l]) /\ ~(a > row.tries[l])
    BY <1>1
  <2> QED
    BY <2>1, Zenon DEF Expected
<1> QED
  BY <1>2, <1>3, <1>4 DEF Failed, Held

LEMMA InitHolds ==
  ASSUME Init
  PROVE  SwapInv
<1>1. TypeOK
  BY InitTyped
<1>2. /\ tx.at = "idle" /\ tx.wrote = FALSE /\ torn = {}
  BY IdleType DEF Init
<1>3. \A s \in Request :
        /\ swap[s] \in Row /\ swap[s].status = "none"
        /\ \A l \in Leg : swap[s].tries[l] = 0 /\ swap[s].leg[l] = "none"
        /\ \A l \in Leg, a \in Attempt, k \in 1..2 :
             ledger[s][l][a][k] = "none" /\ swap[s].evidence[l][a][k] = "none"
  BY RowType DEF Init, NoRow, Untouched
<1>4. QuotesFit
  BY <1>2, <1>3 DEF QuotesFit, Busy
<1>5. RowsFit
  BY <1>3 DEF RowsFit, RowFits, Leg, Held
<1>6. LedgerFits
  BY <1>3, EntriesType DEF LedgerFits, CellFits, Attempt
<1>7. Clean
  <2>1. \A s \in Request, l \in Leg, a \in Attempt : Expected(swap[s], l, a) = "none"
    BY <1>3, ExpectedIs DEF Attempt
  <2> QED
    BY <1>3, <2>1, EntriesType DEF Clean
<1>8. WorkFits /\ WorkIsClean /\ TornIsStuck /\ TornGetsNowhere
  BY <1>2 DEF WorkFits, WorkIsClean, TornIsStuck, TornGetsNowhere, Busy
<1> QED
  BY <1>1, <1>4, <1>5, <1>6, <1>7, <1>8 DEF SwapInv

\* Rows and ledger as they were.
LEMMA PaidSame ==
  ASSUME UNCHANGED <<terms, swap, ledger>>
  PROVE  /\ \A s, l : Paid(s, l)' = Paid(s, l)
         /\ \A s, l, a, k : CellFits(s, l, a, k)' = CellFits(s, l, a, k)
         /\ \A s, row, l, a : Spent(s, row, l, a)' = Spent(s, row, l, a)
         /\ \A s : Stuck(s)' = Stuck(s)
         /\ LedgerFits' = LedgerFits /\ RowsFit' = RowsFit
BY EntriesStay DEF Paid, CellFits, Spent, StuckLeg, Stuck, LedgerFits, RowsFit

LEMMA CancelHolds ==
  ASSUME SwapInv, NEW q \in Quote, CancelRead(q) \/ CancelWrite(q)
  PROVE  SwapInv'
<1>1. UNCHANGED <<terms, swap, ledger, tx, torn>>
  BY DEF CancelRead, CancelWrite
<1>2. TypeOK'
  BY CancelTyped DEF SwapInv
<1>3. QuotesFit'
  <2>1. QuoteOf \in [Request -> Quote] /\ tx.on \in Request
    BY SwapAssumption, TxType DEF SwapInv
  <2>2. CASE CancelRead(q)
    BY <2>2 DEF SwapInv, QuotesFit, CancelRead, Busy
  <2>3. CASE CancelWrite(q)
    <3>1. \A p \in Quote : quote'[p] = IF p = q THEN "CANCELLED" ELSE quote[p]
      BY <2>3 DEF CancelWrite, SwapInv, TypeOK
    <3> QED
      BY <1>1, <2>1, <2>3, <3>1 DEF SwapInv, QuotesFit, CancelWrite, Busy
  <2> QED
    BY <2>2, <2>3
<1>4. RowsFit' /\ LedgerFits'
  BY <1>1, PaidSame DEF SwapInv
<1>5. Clean'
  BY <1>1, EntriesStay DEF SwapInv, Clean, Busy, Expected
<1>6. WorkFits' /\ WorkIsClean'
  BY <1>1, EntriesStay, PaidSame DEF SwapInv, WorkFits, WorkIsClean, RowFits, Busy, Expected
<1>7. TornIsStuck'
  BY <1>1, PaidSame DEF SwapInv, TornIsStuck, Busy
<1>8. TornGetsNowhere'
  <2>1. TornGetsNowhere
    BY DEF SwapInv
  <2> QED
    BY <1>1, <2>1, EntriesStay, PaidSame DEF TornGetsNowhere, Busy
<1> QED
  BY <1>2, <1>3, <1>4, <1>5, <1>6, <1>7, <1>8 DEF SwapInv

\* A call begins: the rows and the ledger are as they were.
LEMMA BeginKeeps ==
  ASSUME SwapInv, NEW s \in Request, NEW place \in {"hold", "post", "void", "commit"},
         NEW l \in Leg, NEW row \in Row, Begun(s, place, l, row),
         swap[s].status = "PROCESSING" \/ quote[QuoteOf[s]] = "ACTIVE",
         s \notin torn => \A m \in Leg, a \in Attempt : \A k \in Entries(s, m) :
           row.evidence[m][a][k] = swap[s].evidence[m][a][k],
         \A m \in Leg, a \in Attempt :
           \/ m = l /\ a = row.tries[l] /\ place # "commit"
           \/ Expected(row, m, a) = Expected(swap[s], m, a)
  PROVE  QuotesFit' /\ RowsFit' /\ LedgerFits' /\ Clean' /\ WorkIsClean' /\ TornIsStuck'
<1>1. /\ tx.at = "idle" /\ UNCHANGED <<terms, quote, cancelling, swap, ledger, torn>>
      /\ tx'.at = place /\ tx'.on = s /\ tx'.leg = l
      /\ tx'.next = 1 /\ ~tx'.wrote /\ tx'.row = row
  BY Zenon DEF Begun
<1>2. QuotesFit'
  BY <1>1 DEF SwapInv, QuotesFit
<1>3. RowsFit' /\ LedgerFits'
  BY <1>1, PaidSame DEF SwapInv
<1>4. \A u \in Request \ torn, m \in Leg, a \in Attempt : \A k \in Entries(u, m) :
        /\ swap[u].evidence[m][a][k] = Expected(swap[u], m, a)
        /\ ledger[u][m][a][k] = Expected(swap[u], m, a)
  BY <1>1 DEF SwapInv, Clean, Busy
<1>5. Clean'
  BY <1>1, <1>4, EntriesStay DEF Clean, Expected
<1>6. WorkIsClean'
  <2> SUFFICES ASSUME s \notin torn, NEW m \in Leg, NEW a \in Attempt,
                      NEW k \in Entries(s, m)
               PROVE  LET in == IF place # "commit" /\ m = l /\ a = row.tries[l] /\ k >= 1
                                THEN swap[s] ELSE row
                      IN  /\ ledger[s][m][a][k] = Expected(in, m, a)
                          /\ row.evidence[m][a][k] = Expected(in, m, a)
    BY <1>1, EntriesStay DEF WorkIsClean, Expected
  <2>1. k >= 1
    BY EntriesType
  <2>2. /\ ledger[s][m][a][k] = Expected(swap[s], m, a)
        /\ row.evidence[m][a][k] = Expected(swap[s], m, a)
    BY <1>4
  <2> QED
    BY <2>1, <2>2
<1>7. TornIsStuck'
  BY <1>1, PaidSame DEF SwapInv, TornIsStuck
<1> QED
  BY <1>2, <1>3, <1>5, <1>6, <1>7

LEMMA ExecuteHolds ==
  ASSUME SwapInv, NEW s \in Request, Execute(s)
  PROVE  SwapInv'
<1>1. PICK row \in Row :
        /\ Begin(s, "hold", 1, row)
        /\ row.status = "PROCESSING" /\ row.evidence = Untouched
        /\ row.tries = [[m \in Leg |-> 0] EXCEPT ![1] = 1]
        /\ row.leg = [[m \in Leg |-> "none"] EXCEPT ![1] = "CREATED"]
  BY ExecuteEffect DEF SwapInv
<1>0. 1 \in Leg
  BY DEF Leg
<1>2. Begun(s, "hold", 1, row)
  BY <1>1, <1>0, BeginEffect
<1>3. /\ row.leg[1] = "CREATED" /\ row.tries[1] = 1 /\ 1 \in Leg
      /\ \A m \in Leg \ {1} : row.leg[m] = "none" /\ row.tries[m] = 0
      /\ swap[s].status = "none" /\ s \notin torn /\ quote[QuoteOf[s]] = "ACTIVE"
      /\ \A m \in Leg : swap[s].tries[m] = 0
      /\ swap[s] \in Row
  BY <1>1, CellTypes DEF Execute, SwapInv, RowsFit, RowFits, Leg
<1>4. TypeOK'
  BY <1>3, BeginTyped DEF SwapInv
<1>5. \A m \in Leg, a \in Attempt : Expected(swap[s], m, a) = "none"
  BY <1>3, ExpectedIs DEF Attempt
<1>6. \A m \in Leg, a \in Attempt :
        (m = 1 /\ a = row.tries[1]) \/ Expected(row, m, a) = "none"
  BY <1>3, ExpectedIs DEF Attempt
<1>7. \A m \in Leg, a \in Attempt : \A k \in Entries(s, m) :
        row.evidence[m][a][k] = swap[s].evidence[m][a][k]
  <2> SUFFICES ASSUME NEW m \in Leg, NEW a \in Attempt, NEW k \in Entries(s, m)
               PROVE  row.evidence[m][a][k] = swap[s].evidence[m][a][k]
    OBVIOUS
  <2>1. row.evidence[m][a][k] = "none"
    BY <1>1, EntriesType DEF Untouched
  <2> QED
    BY <1>3, <1>5, <2>1 DEF SwapInv, Clean
<1>8. QuotesFit' /\ RowsFit' /\ LedgerFits' /\ Clean' /\ WorkIsClean' /\ TornIsStuck'
  <2>1. \A m \in Leg, a \in Attempt :
          \/ m = 1 /\ a = row.tries[1] /\ "hold" # "commit"
          \/ Expected(row, m, a) = Expected(swap[s], m, a)
    BY <1>5, <1>6
  <2> QED
    BY <1>0, <1>2, <1>3, <1>7, <2>1, BeginKeeps
<1>9. Paid(s, 1)'
  BY DEF Paid, Leg
<1>10. WorkFits'
  <2>1. /\ tx'.at = "hold" /\ tx'.on = s /\ tx'.leg = 1 /\ tx'.next = 1
        /\ ~tx'.wrote /\ tx'.row = row /\ UNCHANGED swap
    BY <1>2 DEF Begun
  <2>2. \A m \in Leg : (m # 1 <=> m > 1) /\ ~(m < 1)
    BY DEF Leg
  <2>3. row.tries[1] = swap'[s].tries[1] + 1
    BY <1>3, <2>1
  <2>4. \A m \in Leg \ {1} : row.tries[m] = IF m < 1 THEN swap'[s].tries[m] ELSE 0
    BY <1>3, <2>2
  <2>5. \A m \in Leg : (m < 1 => row.leg[m] = "CLEAR" /\ row.tries[m] > 0)
                      /\ (m > 1 => row.leg[m] = "none" /\ swap'[s].tries[m] = 0)
    BY <1>3, <2>1, <2>2
  <2>6. row.status = "PROCESSING" /\ row.leg[1] = "CREATED" /\ swap'[s].status = "none"
    BY <1>1, <1>3, <2>1
  <2> QED
    BY <1>9, <2>1, <2>3, <2>4, <2>5, <2>6 DEF WorkFits
<1>11. TornGetsNowhere'
  BY <1>2, <1>3 DEF TornGetsNowhere, Begun
<1> QED
  BY <1>4, <1>8, <1>10, <1>11 DEF SwapInv

\* The facts about the committed rows that the guards are read against.
LEMMA RowFacts ==
  ASSUME SwapInv, NEW s \in Request
  PROVE  /\ swap[s] \in Row
         /\ \A m \in Leg : swap[s].tries[m] \in 0..Attempts
         /\ swap[s].status = "none" => \A m \in Leg : swap[s].tries[m] = 0
         /\ \A m \in Leg : (swap[s].tries[m] > 0) <=> (swap[s].leg[m] # "none")
         /\ \A m, n \in Leg : m < n /\ swap[s].tries[n] > 0 => swap[s].leg[m] = "CLEAR"
         /\ (swap[s].status = "SUCCESS") <=> (swap[s].leg[4] = "CLEAR")
         /\ \A m \in Leg : swap[s].leg[m] \in Held \union {"none", "CLEAR", "NEEDS_REVIEW"}
<1>1. /\ swap[s] \in Row /\ \A m \in Leg : swap[s].tries[m] \in 0..Attempts
  BY CellTypes DEF SwapInv
<1>2. RowFits(swap[s])
  BY DEF SwapInv, RowsFit
<1> QED
  BY <1>1, <1>2 DEF RowFits

\* The leg at which a torn request is stuck is the one a call can work on.
LEMMA TornLeg ==
  ASSUME SwapInv, NEW s \in torn, swap[s].status # "none", NEW l \in Leg,
         swap[s].tries[l] > 0,
         \A m \in Leg : m < l /\ swap[s].tries[m] > 0 => swap[s].leg[m] = "CLEAR"
  PROVE  \/ StuckLeg(s, l)
         \/ /\ swap[s].leg[l] = "CLEAR" /\ 1 \in Entries(s, l)
            /\ ledger[s][l][swap[s].tries[l]][1] = "posted"
<1>1. s \in Request
  BY DEF SwapInv, TypeOK
<1>2. PICK m \in Leg : StuckLeg(s, m)
  BY DEF SwapInv, TornIsStuck, Stuck
<1>3. /\ swap[s].tries[m] > 0
      /\ swap[s].leg[m] # "CLEAR"
  BY <1>2 DEF StuckLeg, Held
<1>4. CASE m = l
  BY <1>2, <1>4
<1>5. CASE m < l
  BY <1>3, <1>5
<1>6. CASE m > l
  <2>1. swap[s].leg[l] = "CLEAR"
    BY <1>1, <1>3, <1>6, RowFacts DEF Leg
  <2>2. l # 4 /\ l \in Leg
    BY <1>6 DEF Leg
  <2>3. 1 \in Entries(s, l)
    BY <1>1, <2>2, EntriesType
  <2>4. swap[s].tries[l] \in Attempt
    BY <1>1, RowFacts, SwapAssumption DEF Attempt
  <2>5. CellFits(s, l, swap[s].tries[l], 1)
    BY <1>1, <2>4 DEF SwapInv, LedgerFits
  <2> QED
    BY <2>1, <2>3, <2>5 DEF CellFits
<1> QED
  BY <1>4, <1>5, <1>6 DEF Leg

LEMMA AdvanceHolds ==
  ASSUME SwapInv, NEW s \in Request, NEW l \in Leg, NEW act \in FundAction,
         Advance(s, l, act)
  PROVE  SwapInv'
<1> DEFINE old == swap[s]
<1>1. PICK status \in FundStatus, row \in Row :
        /\ Begin(s, After(status), l, row)
        /\ After(status) \in {"post", "void", "commit"}
        /\ row.status = old.status /\ row.evidence = old.evidence
        /\ row.tries = old.tries
        /\ row.leg = [old.leg EXCEPT ![l] = status]
        /\ status \in Held \union Failed \union {"CLEAR"}
        /\ status = "CLEAR" => old.leg[l] = "CONFIRMED"
        /\ old.leg[l] = "CLEAR" => status = "RETURNED"
        /\ old.leg[l] \in Held \union {"CREATED", "CLEAR"}
  BY AdvanceEffect DEF SwapInv
<1> DEFINE place == After(status)
<1>2. /\ place \in {"hold", "post", "void", "commit"} /\ Begun(s, place, l, row)
  BY <1>1, BeginEffect
<1>3. /\ old.status = "PROCESSING" /\ old.tries[l] > 0
      /\ \A m \in Leg : m < l /\ old.tries[m] > 0 => old.leg[m] = "CLEAR"
  BY DEF Advance
<1>4. /\ row.leg[l] = status
      /\ \A m \in Leg \ {l} : row.leg[m] = old.leg[m]
      /\ old.leg[l] \in Held \union {"CLEAR"}
  <2>1. old.leg \in [Leg -> FundStatus \union {"none"}]
    BY RowFacts, RowType
  <2>2. old.leg[l] # "CREATED"
    BY RowFacts DEF Held
  <2> QED
    BY <1>1, <2>1, <2>2
<1>5. /\ status = "CLEAR" <=> place = "post"
      /\ status \in Failed <=> place = "void"
      /\ status \in Held <=> place = "commit"
  BY <1>1 DEF After, Failed, Held
<1>6. TypeOK'
  BY BeginTyped DEF SwapInv
<1>7. \A m \in Leg, a \in Attempt :
        \/ m = l /\ a = row.tries[l] /\ place # "commit"
        \/ Expected(row, m, a) = Expected(old, m, a)
  <2> SUFFICES ASSUME NEW m \in Leg, NEW a \in Attempt,
                      ~(m = l /\ a = row.tries[l] /\ place # "commit")
               PROVE  Expected(row, m, a) = Expected(old, m, a)
    OBVIOUS
  <2>1. CASE m # l
    BY <1>1, <1>4, <2>1 DEF Expected
  <2>2. CASE m = l /\ a # row.tries[l]
    BY <1>1, <2>2, RowFacts, ExpectedIs DEF Attempt
  <2>3. CASE m = l /\ a = row.tries[l]
    <3>1. status \in Held /\ old.leg[l] \in Held
      BY <1>1, <1>4, <1>5, <2>3 DEF Held
    <3>2. old \in Row /\ old.tries[l] = a /\ row.leg[l] \in Held
      BY <1>1, <1>4, <2>3, <3>1, RowFacts
    <3>3. Expected(row, l, a) = "pending"
      BY <2>3, <3>2, ExpectedIs
    <3>4. Expected(old, l, a) = "pending"
      BY <3>1, <3>2, ExpectedIs
    <3> QED
      BY <2>3, <3>3, <3>4
  <2> QED
    BY <2>1, <2>2, <2>3
<1>8. QuotesFit' /\ RowsFit' /\ LedgerFits' /\ Clean' /\ WorkIsClean' /\ TornIsStuck'
  BY <1>1, <1>2, <1>3, <1>7, BeginKeeps
<1>9. place = "commit" => RowFits(row)
  BY <1>1, <1>3, <1>4, <1>5, RowFacts DEF RowFits, Held, Leg
<1>10. /\ tx'.at = place /\ tx'.on = s /\ tx'.leg = l /\ tx'.next = 1
       /\ ~tx'.wrote /\ tx'.row = row /\ UNCHANGED <<terms, swap, ledger, torn>>
  BY <1>2, Zenon DEF Begun
<1>11. WorkFits'
  <2>1. swap'[s] = old /\ place # "hold" /\ ~(tx'.next > 1)
    BY <1>1, <1>10
  <2>2. place = "commit" => RowFits(row)'
    BY <1>9 DEF RowFits
  <2> HIDE DEF place, old
  <2> QED
    BY <1>1, <1>3, <1>4, <1>5, <1>10, <2>1, <2>2 DEF WorkFits
<1>12. TornGetsNowhere'
  <2> SUFFICES ASSUME s \in torn PROVE TornGetsNowhere'
    BY <1>10 DEF TornGetsNowhere
  <2>1. /\ 1 \in Entries(s, l) /\ Spent(s, old, l, old.tries[l])
        /\ place = "commit" => old.leg[l] \in Held
    <3>1. CASE StuckLeg(s, l)
      <4>1. old.leg[l] # "NEEDS_REVIEW"
        BY <1>4 DEF Held
      <4> QED
        BY <3>1, <4>1 DEF StuckLeg
    <3>2. CASE /\ old.leg[l] = "CLEAR" /\ 1 \in Entries(s, l)
               /\ ledger[s][l][old.tries[l]][1] = "posted"
      BY <1>1, <1>5, <3>2 DEF Spent, Done, Failed, Held
    <3> QED
      BY <1>3, <3>1, <3>2, TornLeg
  <2>2. Spent(s, row, l, row.tries[l])'
    BY <1>1, <1>10, <2>1 DEF Spent
  <2>3. (1 \in Entries(s, l))'
    BY <1>10, <2>1, EntriesStay
  <2>4. /\ swap'[s] = old /\ place # "hold"
        /\ row.tries[l] = old.tries[l] /\ \A m \in Leg : row.tries[m] = old.tries[m]
    BY <1>1, <1>10
  <2> HIDE DEF place, old
  <2> QED
    BY <1>3, <1>4, <1>5, <1>10, <2>1, <2>2, <2>3, <2>4 DEF TornGetsNowhere
<1> QED
  BY <1>6, <1>8, <1>11, <1>12 DEF SwapInv

LEMMA ResumeHolds ==
  ASSUME SwapInv, NEW s \in Request, NEW l \in Leg, Resume(s, l)
  PROVE  SwapInv'
<1> DEFINE old == swap[s]
<1>1. PICK row \in Row :
        /\ Begin(s, "hold", l, row)
        /\ row.status = old.status /\ row.evidence = old.evidence
        /\ row.tries = [old.tries EXCEPT ![l] = old.tries[l] + 1]
        /\ row.leg = [old.leg EXCEPT ![l] = "CREATED"]
  BY ResumeEffect DEF SwapInv
<1>2. Begun(s, "hold", l, row)
  BY <1>1, BeginEffect
<1>3. /\ old.status = "PROCESSING" /\ old.leg[l] = "NEEDS_REVIEW"
      /\ old.tries[l] > 0 /\ old.tries[l] + 1 \in Attempt /\ old.tries[l] \in Attempt
  <2>1. old.status = "PROCESSING" /\ old.leg[l] = "NEEDS_REVIEW" /\ old.tries[l] < Attempts
    BY DEF Resume
  <2> QED
    BY <2>1, RowFacts, SwapAssumption DEF Attempt
<1>4. /\ row.leg[l] = "CREATED" /\ row.tries[l] = old.tries[l] + 1
      /\ \A m \in Leg \ {l} : row.leg[m] = old.leg[m] /\ row.tries[m] = old.tries[m]
  <2>1. old.leg \in [Leg -> FundStatus \union {"none"}] /\ old.tries \in [Leg -> 0..Attempts]
    BY RowFacts, RowType
  <2> QED
    BY <1>1, <2>1
<1>5. /\ \A m \in Leg : m < l => old.leg[m] = "CLEAR" /\ old.tries[m] > 0
      /\ \A m \in Leg : m > l => old.leg[m] = "none" /\ old.tries[m] = 0
  <2>1. \A m \in Leg : m < l => old.leg[m] = "CLEAR" /\ old.tries[m] > 0
    BY <1>3, RowFacts
  <2>2. ASSUME NEW m \in Leg, m > l PROVE ~(old.tries[m] > 0)
    BY <1>3, <2>2, RowFacts DEF Leg
  <2> QED
    BY <2>1, <2>2, RowFacts
<1>6. TypeOK'
  BY BeginTyped DEF SwapInv
<1>7. \A m \in Leg, a \in Attempt :
        \/ m = l /\ a = row.tries[l] /\ "hold" # "commit"
        \/ Expected(row, m, a) = Expected(old, m, a)
  <2> SUFFICES ASSUME NEW m \in Leg, NEW a \in Attempt, ~(m = l /\ a = row.tries[l])
               PROVE  Expected(row, m, a) = Expected(old, m, a)
    OBVIOUS
  <2>1. CASE m # l
    BY <1>4, <2>1 DEF Expected
  <2>2. CASE m = l /\ a > old.tries[l]
    <3>1. a > row.tries[l]
      BY <1>3, <1>4, <2>2 DEF Attempt
    <3> QED
      BY <2>2, <3>1, RowFacts, ExpectedIs
  <2>3. CASE m = l /\ a = old.tries[l]
    <3>1. a < row.tries[l] /\ old \in Row
      BY <1>3, <1>4, <2>3, RowFacts DEF Attempt
    <3>2. Expected(old, l, a) = "voided"
      BY <1>3, <2>3, <3>1, ExpectedIs
    <3> QED
      BY <2>3, <3>1, <3>2, ExpectedIs
  <2>4. CASE m = l /\ a < old.tries[l]
    <3>1. a < row.tries[l]
      BY <1>3, <1>4, <2>4 DEF Attempt
    <3> QED
      BY <2>4, <3>1, RowFacts, ExpectedIs
  <2> QED
    BY <1>3, <2>1, <2>2, <2>3, <2>4 DEF Attempt
<1>8. QuotesFit' /\ RowsFit' /\ LedgerFits' /\ Clean' /\ WorkIsClean' /\ TornIsStuck'
  <2>1. \A m \in Leg, a \in Attempt : \A k \in Entries(s, m) :
          row.evidence[m][a][k] = old.evidence[m][a][k]
    BY <1>1
  <2> QED
    BY <1>2, <1>3, <1>7, <2>1, BeginKeeps
<1>10. /\ tx'.at = "hold" /\ tx'.on = s /\ tx'.leg = l /\ tx'.next = 1
       /\ ~tx'.wrote /\ tx'.row = row /\ UNCHANGED <<terms, swap, ledger, torn>>
  BY <1>2, Zenon DEF Begun
<1>11. WorkFits'
  <2>1. Paid(s, l)'
    BY <1>3, <1>10, PaidSame DEF SwapInv, LedgerFits
  <2>2. swap'[s] = old
    BY <1>10
  <2>3. \A m \in Leg \ {l} : row.tries[m] = IF m < l THEN old.tries[m] ELSE 0
    BY <1>4, <1>5 DEF Leg
  <2>4. \A m \in Leg : (m < l => row.leg[m] = "CLEAR" /\ row.tries[m] > 0)
                    /\ (m > l => row.leg[m] = "none" /\ old.tries[m] = 0)
    BY <1>4, <1>5 DEF Leg
  <2>5. row.status = "PROCESSING"
    BY <1>1, <1>3
  <2> HIDE DEF old
  <2> QED
    BY <1>3, <1>4, <1>10, <2>1, <2>2, <2>3, <2>4, <2>5 DEF WorkFits
<1>12. TornGetsNowhere'
  <2> SUFFICES ASSUME s \in torn PROVE TornGetsNowhere'
    BY <1>10 DEF TornGetsNowhere
  <2>1. StuckLeg(s, l)
    <3>1. old.status # "none" /\ old.leg[l] # "CLEAR"
      BY <1>3
    <3> QED
      BY <1>3, <1>5, <3>1, TornLeg
  <2>2. /\ 1 \in Entries(s, l) /\ ledger[s][l][row.tries[l]][1] # "none"
        /\ row.evidence[l][row.tries[l]][1] = "none"
    BY <1>1, <1>3, <1>4, <2>1 DEF StuckLeg, Held
  <2>3. (1 \in Entries(s, l))'
    BY <1>10, <2>2, EntriesStay
  <2>4. swap'[s] = old /\ row.tries[l] > 0
    BY <1>3, <1>4, <1>10 DEF Attempt
  <2> HIDE DEF old
  <2> QED
    BY <1>3, <1>10, <2>2, <2>3, <2>4 DEF TornGetsNowhere
<1> QED
  BY <1>6, <1>8, <1>11, <1>12 DEF SwapInv

-----------------------------------------------------------------------------
\* One transfer is made, or resolved: what was posted or voided stays so.
LEMMA CellKeeps ==
  ASSUME SwapInv, tx.at \in {"hold", "post", "void"}, More,
         NEW status \in TbStatus \ {"none"}, Transfer(status),
         UNCHANGED <<terms, swap>>, InLedger \in {"none", "pending"}
  PROVE  /\ At \in Attempt /\ tx.next \in 1..2 /\ tx.on \in Request /\ tx.leg \in Leg
         /\ ledger' \in Ledger
         /\ \A s \in Request, l \in Leg, a \in Attempt, k \in 1..2 :
              ledger'[s][l][a][k] =
                IF s = tx.on /\ l = tx.leg /\ a = At /\ k = tx.next
                THEN status ELSE ledger[s][l][a][k]
         /\ \A s \in Request, l \in Leg : Paid(s, l) => Paid(s, l)'
         /\ \A s \in Request : Stuck(s) => Stuck(s)'
         /\ (\A s \in Request, l \in Leg, a \in Attempt, k \in 1..2 :
               s = tx.on /\ l = tx.leg /\ a = At /\ k = tx.next => CellFits(s, l, a, k)')
            => LedgerFits'
<1>1. /\ At \in Attempt /\ tx.next \in 1..2 /\ tx.on \in Request /\ tx.leg \in Leg
  BY AtType, TxType DEF SwapInv
<1>2. /\ ledger' \in Ledger
      /\ \A s \in Request, l \in Leg, a \in Attempt, k \in 1..2 :
           ledger'[s][l][a][k] =
             IF s = tx.on /\ l = tx.leg /\ a = At /\ k = tx.next
             THEN status ELSE ledger[s][l][a][k]
  BY <1>1, TransferEffect DEF SwapInv
<1>3. \A s \in Request, l \in Leg, a \in Attempt, k \in 1..2 :
        /\ ledger[s][l][a][k] \in Done => ledger'[s][l][a][k] = ledger[s][l][a][k]
        /\ ledger[s][l][a][k] # "none" => ledger'[s][l][a][k] # "none"
  BY <1>1, <1>2 DEF InLedger, Done
<1>4. \A s \in Request, l \in Leg : Paid(s, l) => Paid(s, l)'
  <2> SUFFICES ASSUME NEW s \in Request, NEW l \in Leg, Paid(s, l),
                      NEW m \in Leg, m < l
               PROVE  /\ swap[s].tries[m] > 0
                      /\ \A j \in Entries(s, m) :
                           ledger'[s][m][swap[s].tries[m]][j] = "posted"
    BY EntriesStay DEF Paid
  <2>1. swap[s].tries[m] > 0
    BY DEF Paid
  <2>2. swap[s].tries[m] \in Attempt
    BY <2>1, RowFacts, SwapAssumption DEF Attempt
  <2> QED
    BY <1>3, <2>1, <2>2, EntriesType DEF Paid, Done
<1>5. \A s \in Request : Stuck(s) => Stuck(s)'
  <2> SUFFICES ASSUME NEW s \in Request, NEW l \in Leg, StuckLeg(s, l)
               PROVE  StuckLeg(s, l)'
    BY DEF Stuck
  <2> DEFINE a == swap[s].tries[l]
  <2>1. 1 \in Entries(s, l) /\ a > 0 /\ a \in Attempt /\ (a < Attempts => a + 1 \in Attempt)
    BY RowFacts, SwapAssumption DEF StuckLeg, Attempt
  <2>2. ledger[s][l][a][1] \in Done => ledger'[s][l][a][1] \in Done
    BY <1>3, <2>1
  <2>3. a < Attempts /\ ledger[s][l][a + 1][1] # "none" => ledger'[s][l][a + 1][1] # "none"
    BY <1>3, <2>1
  <2> QED
    BY <2>1, <2>2, <2>3, EntriesStay DEF StuckLeg, Spent
<1>6. ASSUME \A s \in Request, l \in Leg, a \in Attempt, k \in 1..2 :
               s = tx.on /\ l = tx.leg /\ a = At /\ k = tx.next => CellFits(s, l, a, k)'
      PROVE  LedgerFits'
  <2>1. \A s \in Request, l \in Leg : swap[s].tries[l] > 0 => Paid(s, l)'
    BY <1>4 DEF SwapInv, LedgerFits
  <2>2. ASSUME NEW s \in Request, NEW l \in Leg, NEW a \in Attempt, NEW k \in 1..2,
               ~(s = tx.on /\ l = tx.leg /\ a = At /\ k = tx.next)
        PROVE  CellFits(s, l, a, k)'
    <3>1. ledger'[s][l][a][k] = ledger[s][l][a][k] /\ CellFits(s, l, a, k)
      BY <1>2, <2>2 DEF SwapInv, LedgerFits
    <3> QED
      BY <1>4, <3>1, EntriesStay DEF CellFits
  <2>3. \A s \in Request, l \in Leg, a \in Attempt, k \in 1..2 : CellFits(s, l, a, k)'
    BY <1>6, <2>2
  <2> QED
    BY <2>1, <2>3 DEF LedgerFits
<1> QED
  BY <1>1, <1>2, <1>4, <1>5, <1>6

\* The transaction is rolled back: what it did to the ledger stays.
LEMMA AbortKeeps ==
  ASSUME SwapInv, Busy, NEW wrote \in BOOLEAN, Abort(wrote),
         UNCHANGED <<terms, quote, cancelling, swap>>, ledger' \in Ledger, LedgerFits',
         \A s \in Request \ {tx.on} : ledger'[s] = ledger[s],
         ~wrote => ~tx.wrote /\ UNCHANGED ledger,
         \A s \in Request : wrote /\ s = tx.on /\ swap[s].status # "none" => Stuck(s)',
         \A s \in Request : Stuck(s) => Stuck(s)'
  PROVE  SwapInv'
<1>1. tx' \in Transaction /\ torn' \subseteq Request /\ tx'.at = "idle"
  BY AbortTyped DEF SwapInv
<1>2. /\ wrote => torn' = torn \union {tx.on}
      /\ ~wrote => torn' = torn
  BY DEF Abort
<1>3. TypeOK'
  BY <1>1 DEF SwapInv, TypeOK, Ledger
<1>4. QuotesFit' /\ RowsFit'
  BY <1>1 DEF SwapInv, QuotesFit, RowsFit, Busy
<1>5. Clean'
  <2> SUFFICES ASSUME NEW s \in Request \ torn', NEW l \in Leg, NEW a \in Attempt,
                      NEW k \in Entries(s, l)
               PROVE  /\ swap[s].evidence[l][a][k] = Expected(swap[s], l, a)
                      /\ ledger'[s][l][a][k] = Expected(swap[s], l, a)
    BY EntriesStay DEF Clean, Expected
  <2>1. s \in Request \ torn /\ (s = tx.on => ~wrote)
    BY <1>2
  <2>2. ~(Busy /\ tx.on = s /\ tx.wrote) /\ ledger'[s] = ledger[s]
    BY <2>1
  <2> QED
    BY <2>1, <2>2 DEF SwapInv, Clean
<1>6. WorkFits' /\ WorkIsClean' /\ TornGetsNowhere'
  BY <1>1 DEF WorkFits, WorkIsClean, TornGetsNowhere, Busy
<1>7. TornIsStuck'
  <2>1. ASSUME NEW s \in torn', swap[s].status # "none" PROVE Stuck(s)'
    <3>1. CASE s \in torn
      BY <2>1, <3>1 DEF SwapInv, TypeOK, TornIsStuck
    <3>2. CASE s \notin torn
      BY <1>1, <1>2, <2>1, <3>2
    <3> QED
      BY <3>1, <3>2
  <2> QED
    BY <1>1, <2>1 DEF TornIsStuck, Busy
<1> QED
  BY <1>3, <1>4, <1>5, <1>6, <1>7 DEF SwapInv

LEMMA FailsHolds ==
  ASSUME SwapInv, Fails
  PROVE  SwapInv'
<1>1. /\ Busy /\ Abort(tx.wrote) /\ UNCHANGED <<terms, quote, cancelling, swap, ledger>>
      /\ tx.wrote \in BOOLEAN
  BY TxType DEF Fails, Busy, SwapInv
<1>2. LedgerFits' /\ \A s \in Request : Stuck(s) => Stuck(s)'
  BY <1>1, PaidSame DEF SwapInv
<1>3. \A s \in Request : tx.wrote /\ s = tx.on /\ swap[s].status # "none" => Stuck(s)'
  BY <1>1, PaidSame DEF SwapInv, TornIsStuck
<1>4. ledger' \in Ledger
  BY <1>1 DEF SwapInv, TypeOK, Ledger
<1> QED
  BY <1>1, <1>2, <1>3, <1>4, AbortKeeps

\* The request, leg and attempt at work, and what is known of them.
LEMMA HoldFacts ==
  ASSUME SwapInv, tx.at = "hold"
  PROVE  /\ tx.on \in Request /\ tx.leg \in Leg /\ At \in Attempt /\ tx.row \in Row /\ Busy
         /\ swap[tx.on].tries[tx.leg] + 1 = At /\ swap[tx.on].tries[tx.leg] \in Nat
         /\ tx.row.leg[tx.leg] = "CREATED"
         /\ More => tx.next \in 1..2
<1>1. /\ tx.on \in Request /\ tx.leg \in Leg /\ At \in Attempt /\ tx.row \in Row
      /\ More => tx.next \in 1..2
  BY AtType, TxType DEF SwapInv
<1>2. swap[tx.on].tries[tx.leg] + 1 = At /\ tx.row.leg[tx.leg] = "CREATED" /\ Busy
  BY DEF SwapInv, WorkFits, At, Busy
<1>3. swap[tx.on].tries[tx.leg] \in Nat
  BY <1>1, RowFacts, SwapAssumption
<1> QED
  BY <1>1, <1>2, <1>3

LEMMA HoldNewHolds ==
  ASSUME SwapInv, Hold, InLedger = "none", Transfer("pending"), Recorded("pending")
  PROVE  SwapInv'
<1> DEFINE s0 == tx.on  l0 == tx.leg  a0 == tx.row.tries[tx.leg]  n == tx.next  old == swap[tx.on]
<1>1. /\ tx.at = "hold" /\ More /\ UNCHANGED <<terms, quote, cancelling, swap, torn>>
  BY DEF Hold
<1>2. /\ s0 \in Request /\ l0 \in Leg /\ a0 \in Attempt /\ tx.row \in Row /\ Busy
      /\ old.tries[l0] + 1 = a0 /\ old.tries[l0] \in Nat
      /\ tx.row.leg[l0] = "CREATED" /\ n \in 1..2 /\ n \in Entries(s0, l0)
      /\ 1 \in Entries(s0, l0)
  BY <1>1, HoldFacts, EntriesType DEF At, More
<1>3. /\ ledger' \in Ledger
      /\ \A s \in Request, l \in Leg, a \in Attempt, k \in 1..2 :
           ledger'[s][l][a][k] = IF s = s0 /\ l = l0 /\ a = a0 /\ k = n
                                 THEN "pending" ELSE ledger[s][l][a][k]
      /\ \A s \in Request, l \in Leg : Paid(s, l) => Paid(s, l)'
      /\ \A s \in Request : Stuck(s) => Stuck(s)'
      /\ (\A s \in Request, l \in Leg, a \in Attempt, k \in 1..2 :
            s = s0 /\ l = l0 /\ a = a0 /\ k = n => CellFits(s, l, a, k)')
         => LedgerFits'
  BY <1>1, CellKeeps DEF At, TbStatus
<1>4. /\ tx'.at = "hold" /\ tx'.on = s0 /\ tx'.leg = l0
      /\ tx'.next = n + 1 /\ tx'.wrote = TRUE
      /\ tx'.row.status = tx.row.status /\ tx'.row.tries = tx.row.tries
      /\ tx'.row.leg = tx.row.leg
      /\ \A l \in Leg, a \in Attempt, k \in 1..2 :
           tx'.row.evidence[l][a][k] = IF l = l0 /\ a = a0 /\ k = n
                                       THEN "pending" ELSE tx.row.evidence[l][a][k]
  BY <1>1, <1>2, RecordedEffect DEF SwapInv, At, TbStatus
<1>5. TypeOK'
  BY HoldTyped DEF SwapInv
<1>6. QuotesFit' /\ RowsFit'
  BY <1>1, <1>4 DEF SwapInv, QuotesFit, RowsFit, Busy
<1>7. LedgerFits'
  <2> SUFFICES ASSUME NEW s \in Request, NEW l \in Leg, NEW a \in Attempt, NEW k \in 1..2,
                      s = s0, l = l0, a = a0, k = n
               PROVE  CellFits(s, l, a, k)'
    BY <1>3
  <2>1. Paid(s, l)'
    BY <1>1, <1>3 DEF SwapInv, WorkFits
  <2>2. ledger'[s][l][a][k] = "pending" /\ k \in Entries(s, l) /\ a = swap[s].tries[l] + 1
        /\ swap[s].tries[l] \in Nat
    BY <1>2, <1>3
  <2>3. ~(a < swap[s].tries[l]) /\ a # swap[s].tries[l]
    BY <2>2
  <2> HIDE DEF s0, l0, a0, n, old
  <2> QED
    BY <1>1, <2>1, <2>2, <2>3, EntriesStay DEF CellFits
<1>8. Clean'
  <2> SUFFICES ASSUME NEW s \in Request \ torn, NEW l \in Leg, NEW a \in Attempt,
                      NEW k \in Entries(s, l)
               PROVE  /\ swap[s].evidence[l][a][k] = Expected(swap[s], l, a)
                      /\ s # s0 => ledger'[s][l][a][k] = Expected(swap[s], l, a)
    BY <1>1, <1>4, EntriesStay DEF Clean, Expected, Busy
  <2>1. s # s0 => ledger'[s][l][a][k] = ledger[s][l][a][k]
    BY <1>3, EntriesType
  <2> QED
    BY <2>1 DEF SwapInv, Clean
<1>9. WorkFits'
  <2>1. Paid(s0, l0)
    BY <1>1 DEF SwapInv, WorkFits
  <2>2. \A s \in Request, l \in Leg : s = s0 /\ l = l0 => Paid(s, l)'
    BY <1>3, <2>1
  <2> QED
    BY <1>1, <1>2, <1>4, <2>2 DEF SwapInv, WorkFits
<1>10. WorkIsClean'
  <2> SUFFICES ASSUME s0 \notin torn, NEW l \in Leg, NEW a \in Attempt,
                      NEW k \in Entries(s0, l)
               PROVE  LET row == IF l = l0 /\ a = a0 /\ k >= n + 1 THEN old ELSE tx.row
                      IN  /\ ledger'[s0][l][a][k] = Expected(row, l, a)
                          /\ tx'.row.evidence[l][a][k] = Expected(row, l, a)
    BY <1>1, <1>4, EntriesStay DEF WorkIsClean, Expected
  <2>1. k \in 1..2
    BY <1>2, EntriesType
  <2>2. CASE l = l0 /\ a = a0 /\ k = n
    <3>1. Expected(tx.row, l, a) = "pending"
      BY <1>2, <2>2, ExpectedIs
    <3> QED
      BY <1>2, <1>3, <1>4, <2>1, <2>2, <3>1
  <2>3. CASE ~(l = l0 /\ a = a0 /\ k = n)
    <3>1. /\ ledger'[s0][l][a][k] = ledger[s0][l][a][k]
          /\ tx'.row.evidence[l][a][k] = tx.row.evidence[l][a][k]
      BY <1>2, <1>3, <1>4, <2>1, <2>3
    <3>2. (l = l0 /\ a = a0 /\ k >= n + 1) <=> (l = l0 /\ a = a0 /\ k >= n)
      BY <1>2, <2>1, <2>3
    <3> QED
      BY <1>1, <1>2, <3>1, <3>2 DEF SwapInv, WorkIsClean
  <2> QED
    BY <2>2, <2>3
<1>11. TornIsStuck'
  <2>1. \A s \in torn : swap[s].status # "none" => Stuck(s)'
    BY <1>3 DEF SwapInv, TypeOK, TornIsStuck
  <2>2. ASSUME NEW s \in Request, s = s0, swap[s].status # "none"
        PROVE  Stuck(s)'
    <3>1. CASE s \in torn
      BY <2>1, <2>2, <3>1
    <3>2. CASE tx.wrote
      BY <1>2, <1>3, <2>2, <3>2 DEF SwapInv, TornIsStuck
    <3>3. CASE s \notin torn /\ ~tx.wrote
      <4>1. old.leg[l0] = "NEEDS_REVIEW"
        BY <1>1, <1>2, <2>2, <3>3 DEF SwapInv, WorkFits
      <4>2. old.tries[l0] > 0 /\ old.tries[l0] < Attempts
        BY <1>2, <4>1, RowFacts, SwapAssumption DEF Attempt
      <4>3. ledger'[s0][l0][a0][1] # "none"
        <5>1. CASE n = 1
          BY <1>2, <1>3, <5>1
        <5>2. CASE n = 2
          <6>1. ledger[s0][l0][a0][1] = Expected(tx.row, l0, a0)
            BY <1>1, <1>2, <2>2, <3>3, <5>2 DEF SwapInv, WorkIsClean
          <6>2. Expected(tx.row, l0, a0) = "pending"
            BY <1>2, ExpectedIs
          <6>3. 1 # n /\ 1 \in 1..2
            BY <5>2
          <6>4. ledger'[s0][l0][a0][1] = ledger[s0][l0][a0][1]
            BY <1>2, <1>3, <6>3
          <6> QED
            BY <6>1, <6>2, <6>4
        <5> QED
          BY <1>2, <5>1, <5>2
      <4>4. old.evidence[l0][a0][1] = "none"
        <5>1. old.evidence[l0][a0][1] = Expected(old, l0, a0)
          BY <1>2, <2>2, <3>3 DEF SwapInv, Clean
        <5>2. Expected(old, l0, a0) = "none"
          BY <1>2, RowFacts, ExpectedIs
        <5> QED
          BY <5>1, <5>2
      <4>5. StuckLeg(s, l0) \/ \A l \in Leg : l = l0 => StuckLeg(s, l)'
        <5> SUFFICES ASSUME NEW l \in Leg, l = l0 PROVE StuckLeg(s, l)'
          OBVIOUS
        <5>1. /\ swap'[s] = old /\ (1 \in Entries(s, l))' /\ old.tries[l] > 0
              /\ old.leg[l] = "NEEDS_REVIEW" /\ old.tries[l] < Attempts
              /\ ledger'[s][l][old.tries[l] + 1][1] # "none"
              /\ old.evidence[l][old.tries[l] + 1][1] = "none"
          BY <1>1, <1>2, <2>2, <4>1, <4>2, <4>3, <4>4, EntriesStay
        <5> HIDE DEF old
        <5> QED
          BY <5>1 DEF StuckLeg
      <4> QED
        BY <1>2, <1>3, <2>2, <4>5 DEF Stuck
    <3> QED
      BY <3>1, <3>2, <3>3
  <2> QED
    BY <1>1, <1>2, <1>4, <2>1, <2>2 DEF TornIsStuck
<1>12. TornGetsNowhere'
  <2> SUFFICES ASSUME s0 \in torn PROVE TornGetsNowhere'
    BY <1>1, <1>4 DEF TornGetsNowhere
  <2>1. /\ old.status # "none" /\ a0 > 0 /\ old.leg[l0] = "NEEDS_REVIEW"
        /\ ledger[s0][l0][a0][1] # "none" /\ tx.row.evidence[l0][a0][1] = "none"
    BY <1>1, <1>2 DEF SwapInv, TornGetsNowhere
  <2>2. n # 1
    <3>1. ledger[s0][l0][a0][n] = "none"
      BY DEF InLedger, At
    <3> QED
      BY <2>1, <3>1
  <2>3. ledger'[s0][l0][a0][1] # "none" /\ tx'.row.evidence[l0][a0][1] = "none"
    <3>1. 1 # n /\ 1 \in 1..2
      BY <2>2
    <3>4. \A k \in 1..2 : k # n =>
            /\ ledger'[s0][l0][a0][k] = ledger[s0][l0][a0][k]
            /\ tx'.row.evidence[l0][a0][k] = tx.row.evidence[l0][a0][k]
      <4> HIDE DEF old, s0, l0, a0, n
      <4> QED
        BY <1>2, <1>3, <1>4
    <3>2. ledger'[s0][l0][a0][1] = ledger[s0][l0][a0][1]
      BY <3>1, <3>4
    <3>3. tx'.row.evidence[l0][a0][1] = tx.row.evidence[l0][a0][1]
      BY <3>1, <3>4
    <3> QED
      BY <2>1, <3>2, <3>3
  <2>4. tx'.row.tries[l0] = a0 /\ swap'[s0] = old
    BY <1>1, <1>4
  <2>5. \A s \in Request, l \in Leg : 1 \in Entries(s, l) => (1 \in Entries(s, l))'
    BY <1>1, EntriesStay
  <2> HIDE DEF old, s0, l0, a0, n
  <2> QED
    BY <1>2, <1>4, <2>1, <2>3, <2>4, <2>5 DEF TornGetsNowhere
<1> QED
  BY <1>5, <1>6, <1>7, <1>8, <1>9, <1>10, <1>11, <1>12 DEF SwapInv

\* A hold is found in the ledger only after a rollback.
LEMMA HoldSkipHolds ==
  ASSUME SwapInv, Hold, InLedger # "none", UNCHANGED ledger, Skipped
  PROVE  SwapInv'
<1> DEFINE s0 == tx.on  l0 == tx.leg  a0 == tx.row.tries[tx.leg]  n == tx.next  old == swap[tx.on]
<1>1. /\ tx.at = "hold" /\ More
      /\ UNCHANGED <<terms, quote, cancelling, swap, ledger, torn>>
  BY DEF Hold
<1>2. /\ s0 \in Request /\ l0 \in Leg /\ a0 \in Attempt /\ tx.row \in Row /\ Busy
      /\ old.tries[l0] + 1 = a0 /\ old.tries[l0] \in Nat
      /\ n \in 1..2 /\ n \in Entries(s0, l0)
  BY <1>1, HoldFacts DEF At, More
<1>3. /\ tx'.at = "hold" /\ tx'.on = s0 /\ tx'.leg = l0
      /\ tx'.wrote = tx.wrote /\ tx'.row = tx.row
  BY <1>1, <1>2, SkippedEffect DEF SwapInv
<1>4. s0 \in torn
  <2> SUFFICES ASSUME s0 \notin torn PROVE FALSE
    OBVIOUS
  <2>1. ledger[s0][l0][a0][n] = Expected(old, l0, a0)
    BY <1>1, <1>2 DEF SwapInv, WorkIsClean
  <2>2. Expected(old, l0, a0) = "none"
    BY <1>2, RowFacts, ExpectedIs
  <2> QED
    BY <2>1, <2>2 DEF InLedger, At
<1>5. TypeOK'
  BY HoldTyped DEF SwapInv
<1>6. QuotesFit' /\ RowsFit' /\ LedgerFits'
  BY <1>1, <1>3, PaidSame DEF SwapInv, QuotesFit, Busy
<1>7. Clean'
  BY <1>1, <1>3, EntriesStay DEF SwapInv, Clean, Busy, Expected
<1>8. WorkFits'
  BY <1>1, <1>2, <1>3, EntriesStay, PaidSame DEF SwapInv, WorkFits
<1>9. WorkIsClean'
  BY <1>1, <1>3, <1>4 DEF WorkIsClean
<1>10. TornIsStuck'
  BY <1>1, <1>2, <1>3, PaidSame DEF SwapInv, TornIsStuck
<1>11. TornGetsNowhere'
  <2>1. /\ old.status # "none" /\ a0 > 0 /\ old.leg[l0] = "NEEDS_REVIEW"
        /\ ledger[s0][l0][a0][1] # "none" /\ tx.row.evidence[l0][a0][1] = "none"
        /\ 1 \in Entries(s0, l0)
    BY <1>1, <1>2, <1>4 DEF SwapInv, TornGetsNowhere
  <2>2. \A s \in Request, l \in Leg : 1 \in Entries(s, l) => (1 \in Entries(s, l))'
    BY <1>1, EntriesStay
  <2> QED
    BY <1>1, <1>2, <1>3, <2>1, <2>2 DEF TornGetsNowhere
<1> QED
  BY <1>5, <1>6, <1>7, <1>8, <1>9, <1>10, <1>11 DEF SwapInv

LEMMA HoldHolds ==
  ASSUME SwapInv, Hold
  PROVE  SwapInv'
<1>1. CASE InLedger = "none"
  BY <1>1, HoldNewHolds DEF Hold
<1>2. CASE InLedger # "none"
  BY <1>2, HoldSkipHolds DEF Hold
<1> QED
  BY <1>1, <1>2

\* What is known of a held transfer that is to be posted or voided.
LEMMA ResolveFacts ==
  ASSUME SwapInv, tx.at \in {"post", "void"}, More, InLedger = "pending",
         NEW status \in {"posted", "voided"},
         status = "posted" <=> tx.at = "post"
  PROVE  /\ tx.on \in Request /\ tx.leg \in Leg /\ At \in Attempt /\ tx.next \in 1..2
         /\ tx.row \in Row /\ Busy /\ tx.next \in Entries(tx.on, tx.leg)
         /\ 1 \in Entries(tx.on, tx.leg)
         /\ swap[tx.on].tries[tx.leg] = At /\ swap[tx.on].status = "PROCESSING"
         /\ swap[tx.on].leg[tx.leg] \in Held
         /\ Paid(tx.on, tx.leg)
         /\ Expected(tx.row, tx.leg, At) = status
         /\ tx.wrote <=> tx.next > 1
<1>1. /\ tx.on \in Request /\ tx.leg \in Leg /\ At \in Attempt /\ tx.next \in 1..2
      /\ tx.row \in Row /\ Busy /\ tx.next \in Entries(tx.on, tx.leg)
      /\ 1 \in Entries(tx.on, tx.leg)
  BY AtType, TxType, EntriesType DEF SwapInv, Busy, More
<1>2. /\ swap[tx.on].tries[tx.leg] = At /\ swap[tx.on].status = "PROCESSING"
      /\ tx.wrote <=> tx.next > 1
      /\ tx.at = "post" => tx.row.leg[tx.leg] = "CLEAR" /\ swap[tx.on].leg[tx.leg] = "CONFIRMED"
      /\ tx.at = "void" => /\ tx.row.leg[tx.leg] \in Failed
                           /\ swap[tx.on].leg[tx.leg] \in Held \union {"CLEAR"}
  BY DEF SwapInv, WorkFits, At
<1>3. CellFits(tx.on, tx.leg, At, tx.next)
  BY <1>1 DEF SwapInv, LedgerFits
<1>4. swap[tx.on].leg[tx.leg] # "CLEAR" /\ Paid(tx.on, tx.leg)
  BY <1>1, <1>2, <1>3 DEF CellFits, InLedger
<1>5. swap[tx.on].leg[tx.leg] \in Held
  BY <1>2, <1>4 DEF Held
<1>6. Expected(tx.row, tx.leg, At) = status
  BY <1>1, <1>2, ExpectedIs DEF At
<1> QED
  BY <1>1, <1>2, <1>4, <1>5, <1>6

\* A transfer of a held leg is resolved: the first one can not be again.
LEMMA ResolveKeeps ==
  ASSUME SwapInv, tx.at \in {"post", "void"}, More, InLedger = "pending",
         NEW status \in {"posted", "voided"},
         status = "posted" <=> tx.at = "post",
         Transfer(status), UNCHANGED <<terms, swap>>
  PROVE  /\ ledger' \in Ledger /\ LedgerFits'
         /\ \A s \in Request, l \in Leg, a \in Attempt, k \in 1..2 :
              ledger'[s][l][a][k] =
                IF s = tx.on /\ l = tx.leg /\ a = At /\ k = tx.next
                THEN status ELSE ledger[s][l][a][k]
         /\ \A s \in Request : Stuck(s) => Stuck(s)'
         /\ \A s \in Request : s = tx.on => Stuck(s)'
<1>1. /\ tx.on \in Request /\ tx.leg \in Leg /\ At \in Attempt /\ tx.next \in 1..2
      /\ Busy /\ tx.next \in Entries(tx.on, tx.leg) /\ 1 \in Entries(tx.on, tx.leg)
      /\ swap[tx.on].tries[tx.leg] = At /\ swap[tx.on].status = "PROCESSING"
      /\ swap[tx.on].leg[tx.leg] \in Held
      /\ Paid(tx.on, tx.leg)
      /\ tx.wrote <=> tx.next > 1
  BY ResolveFacts
<1>2. /\ ledger' \in Ledger
      /\ \A s \in Request, l \in Leg, a \in Attempt, k \in 1..2 :
           ledger'[s][l][a][k] =
             IF s = tx.on /\ l = tx.leg /\ a = At /\ k = tx.next
             THEN status ELSE ledger[s][l][a][k]
      /\ \A s \in Request, l \in Leg : Paid(s, l) => Paid(s, l)'
      /\ \A s \in Request : Stuck(s) => Stuck(s)'
      /\ (\A s \in Request, l \in Leg, a \in Attempt, k \in 1..2 :
            s = tx.on /\ l = tx.leg /\ a = At /\ k = tx.next => CellFits(s, l, a, k)')
         => LedgerFits'
  BY CellKeeps DEF TbStatus
<1>3. LedgerFits'
  <2> SUFFICES ASSUME NEW s \in Request, NEW l \in Leg, NEW a \in Attempt, NEW k \in 1..2,
                      s = tx.on, l = tx.leg, a = At, k = tx.next
               PROVE  CellFits(s, l, a, k)'
    BY <1>2
  <2>1. Paid(s, l)'
    BY <1>1, <1>2
  <2>2. /\ ledger'[s][l][a][k] = status /\ k \in Entries(s, l) /\ a = swap[s].tries[l]
        /\ swap[s].leg[l] # "NEEDS_REVIEW" /\ swap[s].leg[l] # "CLEAR"
    BY <1>1, <1>2 DEF Held
  <2>3. ~(a < swap[s].tries[l]) /\ ~(a > swap[s].tries[l])
    BY <2>2 DEF Attempt
  <2> QED
    BY <2>1, <2>2, <2>3, EntriesStay DEF CellFits
<1>4. ASSUME NEW s \in Request, s = tx.on
      PROVE  Stuck(s)'
  <2>1. CASE tx.wrote
    BY <1>1, <1>2, <1>4, <2>1 DEF SwapInv, TornIsStuck
  <2>2. CASE ~tx.wrote
    <3>1. tx.next = 1
      BY <1>1, <2>2
    <3> SUFFICES ASSUME NEW l \in Leg, l = tx.leg PROVE StuckLeg(s, l)'
      BY <1>1 DEF Stuck
    <3>2. /\ (1 \in Entries(s, l))' /\ swap'[s] = swap[s] /\ swap[s].tries[l] = At
          /\ swap[s].leg[l] \in Held /\ At > 0
      BY <1>1, <1>4, EntriesStay DEF Attempt
    <3>3. ledger'[s][l][At][1] \in Done
      <4>1. \A k \in 1..2 : k = tx.next => ledger'[s][l][At][k] = status
        BY <1>1, <1>2, <1>4
      <4> QED
        BY <3>1, <4>1 DEF Done
    <3> QED
      BY <3>2, <3>3 DEF StuckLeg, Spent
  <2> QED
    BY <2>1, <2>2
<1> QED
  BY <1>2, <1>3, <1>4

LEMMA ResolvedHolds ==
  ASSUME SwapInv, tx.at \in {"post", "void"}, More, InLedger = "pending",
         NEW status \in {"posted", "voided"},
         status = "posted" <=> tx.at = "post",
         Transfer(status), InEvidence # "none", Recorded(status),
         UNCHANGED <<terms, quote, cancelling, swap, torn>>, TypeOK'
  PROVE  SwapInv'
<1> DEFINE s0 == tx.on  l0 == tx.leg  a0 == tx.row.tries[tx.leg]  n == tx.next  old == swap[tx.on]
<1>1. /\ s0 \in Request /\ l0 \in Leg /\ a0 \in Attempt /\ n \in 1..2 /\ tx.row \in Row
      /\ Busy /\ n \in Entries(s0, l0) /\ old.leg[l0] \in Held
      /\ Expected(tx.row, l0, a0) = status
  BY ResolveFacts DEF At
<1>2. /\ ledger' \in Ledger /\ LedgerFits'
      /\ \A s \in Request, l \in Leg, a \in Attempt, k \in 1..2 :
           ledger'[s][l][a][k] = IF s = s0 /\ l = l0 /\ a = a0 /\ k = n
                                 THEN status ELSE ledger[s][l][a][k]
      /\ \A s \in Request : Stuck(s) => Stuck(s)'
      /\ \A s \in Request : s = s0 => Stuck(s)'
  BY ResolveKeeps DEF At
<1>3. /\ tx'.at = tx.at /\ tx'.on = s0 /\ tx'.leg = l0
      /\ tx'.next = n + 1 /\ tx'.wrote = TRUE
      /\ tx'.row.status = tx.row.status /\ tx'.row.tries = tx.row.tries
      /\ tx'.row.leg = tx.row.leg
      /\ \A l \in Leg, a \in Attempt, k \in 1..2 :
           tx'.row.evidence[l][a][k] = IF l = l0 /\ a = a0 /\ k = n
                                       THEN status ELSE tx.row.evidence[l][a][k]
  <2>1. status \in TbStatus /\ At = a0 /\ At \in Attempt /\ tx.next \in 1..2 /\ TypeOK
    BY <1>1 DEF SwapInv, At, TbStatus
  <2>2. tx'.at = tx.at /\ tx'.on = s0 /\ tx'.leg = l0 /\ tx'.next = n + 1 /\ tx'.wrote = TRUE
    BY <2>1, RecordedEffect
  <2>3. tx'.row.status = tx.row.status /\ tx'.row.tries = tx.row.tries /\ tx'.row.leg = tx.row.leg
    BY <2>1, RecordedEffect
  <2>4. \A l \in Leg, a \in Attempt, k \in 1..2 :
           tx'.row.evidence[l][a][k] = IF l = l0 /\ a = At /\ k = n
                                       THEN status ELSE tx.row.evidence[l][a][k]
    BY <2>1, RecordedEffect
  <2> QED
    BY <2>1, <2>2, <2>3, <2>4
<1>4. QuotesFit' /\ RowsFit'
  BY <1>3 DEF SwapInv, QuotesFit, RowsFit, Busy
<1>5. Clean'
  <2> SUFFICES ASSUME NEW s \in Request \ torn, NEW l \in Leg, NEW a \in Attempt,
                      NEW k \in Entries(s, l)
               PROVE  /\ swap[s].evidence[l][a][k] = Expected(swap[s], l, a)
                      /\ s # s0 => ledger'[s][l][a][k] = Expected(swap[s], l, a)
    BY <1>1, <1>3, EntriesStay DEF Clean, Expected, Busy
  <2>1. s # s0 => ledger'[s][l][a][k] = ledger[s][l][a][k]
    BY <1>2, EntriesType
  <2> QED
    BY <2>1 DEF SwapInv, Clean
<1>6. WorkFits'
  <2>1. old.leg[l0] # "CLEAR" /\ n + 1 > 1
    BY <1>1 DEF Held
  <2> QED
    BY <1>1, <1>3, <2>1 DEF SwapInv, WorkFits, Busy
<1>7. WorkIsClean'
  <2> SUFFICES ASSUME s0 \notin torn, NEW l \in Leg, NEW a \in Attempt,
                      NEW k \in Entries(s0, l)
               PROVE  LET row == IF l = l0 /\ a = a0 /\ k >= n + 1 THEN old ELSE tx.row
                      IN  /\ ledger'[s0][l][a][k] = Expected(row, l, a)
                          /\ tx'.row.evidence[l][a][k] = Expected(row, l, a)
    BY <1>3, EntriesStay DEF WorkIsClean, Expected
  <2>1. k \in 1..2
    BY <1>1, EntriesType
  <2>2. CASE l = l0 /\ a = a0 /\ k = n
    BY <1>1, <1>2, <1>3, <2>1, <2>2
  <2>3. CASE ~(l = l0 /\ a = a0 /\ k = n)
    <3>1. /\ ledger'[s0][l][a][k] = ledger[s0][l][a][k]
          /\ tx'.row.evidence[l][a][k] = tx.row.evidence[l][a][k]
      BY <1>1, <1>2, <1>3, <2>1, <2>3
    <3>2. (l = l0 /\ a = a0 /\ k >= n + 1) <=> (l = l0 /\ a = a0 /\ k >= n)
      BY <1>1, <2>1, <2>3
    <3> QED
      BY <1>1, <3>1, <3>2 DEF SwapInv, WorkIsClean
  <2> QED
    BY <2>2, <2>3
<1>8. TornIsStuck'
  <2>1. \A s \in torn : swap[s].status # "none" => Stuck(s)'
    BY <1>2 DEF SwapInv, TypeOK, TornIsStuck
  <2> QED
    BY <1>1, <1>2, <1>3, <2>1 DEF TornIsStuck
<1>9. s0 \notin torn
  <2> SUFFICES ASSUME s0 \in torn PROVE FALSE
    OBVIOUS
  <2>1. n = 1 /\ Spent(s0, tx.row, l0, a0)
    BY <1>1 DEF SwapInv, TornGetsNowhere
  <2> QED
    BY <2>1 DEF Spent, Done, InLedger, InEvidence, At
<1>10. TornGetsNowhere'
  BY <1>3, <1>9 DEF TornGetsNowhere
<1> QED
  BY <1>2, <1>4, <1>5, <1>6, <1>7, <1>8, <1>10 DEF SwapInv

LEMMA ResolveHolds ==
  ASSUME SwapInv, Post \/ Void
  PROVE  SwapInv'
<1>1. PICK status \in {"posted", "voided"} :
        /\ Resolve(status) /\ (status = "posted" <=> tx.at = "post")
        /\ tx.at \in {"post", "void"} /\ More
  BY DEF Post, Void
<1>2. UNCHANGED <<terms, quote, cancelling, swap>> /\ Busy /\ tx.on \in Request
      /\ tx.wrote \in BOOLEAN
  BY <1>1, TxType DEF Resolve, Busy, SwapInv
<1>3. CASE InLedger # "pending"
  <2>1. Abort(tx.wrote) /\ UNCHANGED ledger
    BY <1>1, <1>3 DEF Resolve
  <2>2. LedgerFits' /\ \A s \in Request : Stuck(s) => Stuck(s)'
    BY <1>2, <2>1, PaidSame DEF SwapInv
  <2>3. \A s \in Request : tx.wrote /\ s = tx.on /\ swap[s].status # "none" => Stuck(s)'
    BY <1>2, <2>1, PaidSame DEF SwapInv, TornIsStuck
  <2>4. ledger' \in Ledger
    BY <2>1 DEF SwapInv, TypeOK, Ledger
  <2> QED
    BY <1>2, <2>1, <2>2, <2>3, <2>4, AbortKeeps
<1>4. CASE InLedger = "pending"
  <2>1. Transfer(status)
    BY <1>1, <1>4 DEF Resolve
  <2>2. /\ ledger' \in Ledger /\ LedgerFits'
        /\ \A s \in Request, l \in Leg, a \in Attempt, k \in 1..2 :
             ledger'[s][l][a][k] =
               IF s = tx.on /\ l = tx.leg /\ a = At /\ k = tx.next
               THEN status ELSE ledger[s][l][a][k]
        /\ \A s \in Request : Stuck(s) => Stuck(s)'
        /\ \A s \in Request : s = tx.on => Stuck(s)'
    BY <1>1, <1>2, <1>4, <2>1, ResolveKeeps
  <2>3. CASE InEvidence = "none"
    <3>1. Abort(TRUE)
      BY <1>1, <1>4, <2>3 DEF Resolve
    <3>2. \A s \in Request \ {tx.on} : ledger'[s] = ledger[s]
      BY <2>1 DEF Transfer, SwapInv, TypeOK
    <3> QED
      BY <1>2, <2>2, <3>1, <3>2, AbortKeeps
  <2>4. CASE InEvidence # "none"
    <3>1. Recorded(status) /\ UNCHANGED torn
      BY <1>1, <1>4, <2>4 DEF Resolve
    <3>2. TypeOK'
      BY ResolveTyped DEF SwapInv
    <3> QED
      BY <1>1, <1>2, <1>4, <2>1, <2>4, <3>1, <3>2, ResolvedHolds
  <2> QED
    BY <2>3, <2>4
<1> QED
  BY <1>3, <1>4

-----------------------------------------------------------------------------
\* The transaction goes on: the committed rows and the ledger are as they were.
LEMMA TurnKeeps ==
  ASSUME SwapInv, Busy, UNCHANGED <<terms, quote, cancelling, swap, ledger, torn>>,
         tx'.at # "idle", tx'.on = tx.on, tx'.wrote = tx.wrote
  PROVE  QuotesFit' /\ RowsFit' /\ LedgerFits' /\ Clean' /\ TornIsStuck'
<1>1. QuotesFit'
  BY DEF SwapInv, QuotesFit, Busy
<1>2. RowsFit' /\ LedgerFits'
  BY PaidSame DEF SwapInv
<1>3. Clean'
  BY EntriesStay DEF SwapInv, Clean, Busy, Expected
<1>4. TornIsStuck'
  BY PaidSame DEF SwapInv, TornIsStuck, Busy
<1> QED
  BY <1>1, <1>2, <1>3, <1>4

\* All transfers of the leg are made: the ledger is what the new rows say.
LEMMA TurnFacts ==
  ASSUME SwapInv, tx.at \in {"hold", "post", "void"}, ~More
  PROVE  /\ tx.on \in Request /\ tx.leg \in Leg /\ At \in Attempt /\ tx.row \in Row /\ Busy
         /\ tx.wrote \in BOOLEAN
         /\ tx.on \notin torn =>
              \A l \in Leg, a \in Attempt : \A k \in Entries(tx.on, l) :
                /\ ledger[tx.on][l][a][k] = Expected(tx.row, l, a)
                /\ tx.row.evidence[l][a][k] = Expected(tx.row, l, a)
         /\ tx.at # "hold" => tx.on \notin torn
         /\ tx.at # "hold" /\ Entries(tx.on, tx.leg) # {} => tx.wrote
<1>1. /\ tx.on \in Request /\ tx.leg \in Leg /\ At \in Attempt /\ tx.row \in Row /\ Busy
      /\ tx.wrote \in BOOLEAN /\ tx.next \in 1..3
  BY AtType, TxType DEF SwapInv, Busy
<1>2. \A k \in Entries(tx.on, tx.leg) : k \in 1..2 /\ k < tx.next
  BY <1>1, EntriesType DEF More
<1>3. ASSUME tx.on \notin torn, NEW l \in Leg, NEW a \in Attempt, NEW k \in Entries(tx.on, l)
      PROVE  /\ ledger[tx.on][l][a][k] = Expected(tx.row, l, a)
             /\ tx.row.evidence[l][a][k] = Expected(tx.row, l, a)
  <2>1. ~(l = tx.leg /\ k >= tx.next)
    BY <1>1, <1>2, <1>3
  <2> QED
    BY <1>1, <1>3, <2>1 DEF SwapInv, WorkIsClean
<1>4. tx.at # "hold" => tx.on \notin torn
  BY <1>1, <1>2 DEF SwapInv, TornGetsNowhere
<1>5. tx.at # "hold" /\ Entries(tx.on, tx.leg) # {} => tx.wrote
  <2>1. Entries(tx.on, tx.leg) # {} => tx.next > 1
    BY <1>1, <1>2
  <2> QED
    BY <2>1 DEF SwapInv, WorkFits
<1> QED
  BY <1>1, <1>3, <1>4, <1>5

\* The legs after the one at work are not begun.
LEMMA LaterLegs ==
  ASSUME SwapInv, tx.at \in {"post", "void"}, ~More
  PROVE  /\ \A m \in Leg : m < tx.leg =>
              /\ swap[tx.on].leg[m] = "CLEAR" /\ swap[tx.on].tries[m] > 0
              /\ tx.row.leg[m] = "CLEAR"
         /\ \A m \in Leg : m > tx.leg =>
              /\ swap[tx.on].leg[m] = "none" /\ swap[tx.on].tries[m] = 0
              /\ tx.row.leg[m] = "none" /\ tx.row.tries[m] = 0
         /\ swap[tx.on].tries[tx.leg] = At /\ tx.row.tries = swap[tx.on].tries
         /\ swap[tx.on].status = "PROCESSING" /\ tx.row.status = "PROCESSING"
         /\ Paid(tx.on, tx.leg)
<1>1. /\ tx.on \in Request /\ tx.leg \in Leg /\ At \in Attempt
      /\ Entries(tx.on, tx.leg) # {} => tx.wrote
  BY TurnFacts
<1>2. /\ swap[tx.on].tries[tx.leg] > 0 /\ tx.row.tries = swap[tx.on].tries
      /\ swap[tx.on].status = "PROCESSING" /\ tx.row.status = "PROCESSING"
      /\ \A m \in Leg \ {tx.leg} : tx.row.leg[m] = swap[tx.on].leg[m]
      /\ tx.at = "post" => swap[tx.on].leg[tx.leg] = "CONFIRMED"
      /\ tx.at = "void" => (tx.wrote => swap[tx.on].leg[tx.leg] # "CLEAR")
  BY DEF SwapInv, WorkFits
<1>3. \A m \in Leg : m < tx.leg => swap[tx.on].leg[m] = "CLEAR" /\ swap[tx.on].tries[m] > 0
  BY <1>1, <1>2, RowFacts
<1>4. ASSUME NEW m \in Leg, m > tx.leg
      PROVE  swap[tx.on].leg[m] = "none" /\ swap[tx.on].tries[m] = 0
  <2>1. tx.leg # 4
    BY <1>1, <1>4 DEF Leg
  <2>2. Entries(tx.on, tx.leg) # {}
    BY <1>1, <2>1, EntriesType
  <2>3. swap[tx.on].leg[tx.leg] # "CLEAR"
    BY <1>1, <1>2, <2>2
  <2>4. ~(swap[tx.on].tries[m] > 0)
    BY <1>1, <1>4, <2>3, RowFacts
  <2> QED
    BY <1>1, <2>4, RowFacts
<1>5. \A m \in Leg : (m < tx.leg \/ m > tx.leg) => m \in Leg \ {tx.leg}
  BY <1>1 DEF Leg
<1>6. Paid(tx.on, tx.leg)
  BY <1>1, <1>2 DEF SwapInv, LedgerFits
<1> QED
  BY <1>1, <1>2, <1>3, <1>4, <1>5, <1>6 DEF At

LEMMA LegPostedHolds ==
  ASSUME SwapInv, LegPosted
  PROVE  SwapInv'
<1> DEFINE s0 == tx.on  l0 == tx.leg  old == swap[tx.on]
<1>1. /\ tx.at = "post" /\ ~More
      /\ UNCHANGED <<terms, quote, cancelling, swap, ledger, torn>>
  BY DEF LegPosted
<1>2. /\ s0 \in Request /\ l0 \in Leg /\ At \in Attempt /\ tx.row \in Row /\ Busy
      /\ s0 \notin torn
      /\ \A l \in Leg, a \in Attempt : \A k \in Entries(s0, l) :
           /\ ledger[s0][l][a][k] = Expected(tx.row, l, a)
           /\ tx.row.evidence[l][a][k] = Expected(tx.row, l, a)
      /\ Entries(s0, l0) # {} => tx.wrote
  BY <1>1, TurnFacts
<1>3. /\ \A m \in Leg : m < l0 =>
              old.leg[m] = "CLEAR" /\ old.tries[m] > 0 /\ tx.row.leg[m] = "CLEAR"
      /\ \A m \in Leg : m > l0 =>
              /\ old.leg[m] = "none" /\ old.tries[m] = 0
              /\ tx.row.leg[m] = "none" /\ tx.row.tries[m] = 0
      /\ old.tries[l0] = At /\ tx.row.tries = old.tries
      /\ old.status = "PROCESSING" /\ tx.row.status = "PROCESSING"
      /\ Paid(s0, l0)
  BY <1>1, LaterLegs
<1>4. tx.row.leg[l0] = "CLEAR"
  BY <1>1 DEF SwapInv, WorkFits
<1>5. TypeOK'
  BY TurnTyped DEF SwapInv
<1>6. PICK row \in Row :
        /\ row.evidence = tx.row.evidence
        /\ \/ /\ l0 = 4 /\ GoOn("commit", 4, row)
              /\ row.status = "SUCCESS" /\ row.tries = tx.row.tries
              /\ row.leg = tx.row.leg
           \/ /\ l0 # 4 /\ l0 + 1 \in Leg /\ GoOn("hold", l0 + 1, row)
              /\ row.status = tx.row.status
              /\ row.tries = [tx.row.tries EXCEPT ![l0 + 1] = 1]
              /\ row.leg = [tx.row.leg EXCEPT ![l0 + 1] = "CREATED"]
  BY LegPostedEffect DEF SwapInv
<1>7. CASE l0 = 4
  <2>1. GoOn("commit", 4, row) /\ 4 \in Leg /\ TypeOK
    BY <1>6, <1>7 DEF SwapInv, Leg
  <2>2. /\ tx'.at = "commit" /\ tx'.on = s0 /\ tx'.leg = 4
        /\ tx'.next = 1 /\ tx'.wrote = tx.wrote /\ tx'.row = row
    BY <2>1, GoOnEffect
  <2>3. row.status = "SUCCESS" /\ row.tries = old.tries /\ row.leg = tx.row.leg
        /\ row.evidence = tx.row.evidence
    BY <1>3, <1>6, <1>7
  <2>4. QuotesFit' /\ RowsFit' /\ LedgerFits' /\ Clean' /\ TornIsStuck'
    BY <1>1, <1>2, <2>2, TurnKeeps
  <2>5. RowFits(row)
    <3>1. \A m \in Leg : row.leg[m] = "CLEAR" /\ row.tries[m] > 0
      BY <1>2, <1>3, <1>4, <1>7, <2>3 DEF Leg, Attempt
    <3> QED
      BY <2>3, <3>1 DEF RowFits, Leg
  <2>6. WorkFits'
    <3>1. RowFits(row)' /\ swap'[s0] = old
      BY <1>1, <2>5 DEF RowFits
    <3> QED
      BY <1>3, <2>2, <2>3, <3>1 DEF WorkFits
  <2>7. WorkIsClean'
    <3> SUFFICES ASSUME NEW l \in Leg, NEW a \in Attempt, NEW k \in Entries(s0, l)
                 PROVE  /\ ledger[s0][l][a][k] = Expected(row, l, a)
                        /\ tx.row.evidence[l][a][k] = Expected(row, l, a)
      BY <1>1, <2>2, <2>3, EntriesStay DEF WorkIsClean, Expected
    <3>1. Expected(row, l, a) = Expected(tx.row, l, a)
      BY <1>3, <2>3, Zenon DEF Expected
    <3> QED
      BY <1>2, <3>1
  <2>8. TornGetsNowhere'
    BY <1>1, <1>2, <2>2 DEF TornGetsNowhere
  <2> QED
    BY <1>5, <2>4, <2>6, <2>7, <2>8 DEF SwapInv
<1>8. CASE l0 # 4
  <2> DEFINE l1 == l0 + 1
  <2>1. GoOn("hold", l1, row) /\ l1 \in Leg /\ TypeOK
    BY <1>6, <1>8 DEF SwapInv
  <2>2. /\ tx'.at = "hold" /\ tx'.on = s0 /\ tx'.leg = l1
        /\ tx'.next = 1 /\ tx'.wrote = tx.wrote /\ tx'.row = row
    BY <2>1, GoOnEffect
  <2>3. /\ row.status = "PROCESSING" /\ row.evidence = tx.row.evidence
        /\ row.tries[l1] = 1 /\ row.leg[l1] = "CREATED"
        /\ \A m \in Leg \ {l1} : row.tries[m] = old.tries[m] /\ row.leg[m] = tx.row.leg[m]
    <3>1. /\ row.status = tx.row.status /\ row.evidence = tx.row.evidence
          /\ row.tries = [tx.row.tries EXCEPT ![l1] = 1]
          /\ row.leg = [tx.row.leg EXCEPT ![l1] = "CREATED"]
      BY <1>6, <1>8
    <3>2. tx.row.tries \in [Leg -> 0..Attempts] /\ tx.row.leg \in [Leg -> FundStatus \union {"none"}]
      BY <1>2, RowType
    <3> HIDE DEF l1
    <3> QED
      BY <1>3, <2>1, <3>1, <3>2
  <2>4. QuotesFit' /\ RowsFit' /\ LedgerFits' /\ Clean' /\ TornIsStuck'
    BY <1>1, <1>2, <2>2, TurnKeeps
  <2>5. /\ \A m \in Leg : (m < l1) <=> (m < l0 \/ m = l0)
        /\ \A m \in Leg : m > l1 => m > l0
        /\ \A m \in Leg : m # l1 <=> (m < l1 \/ m > l1)
        /\ l1 > l0
    BY <1>2, <2>1 DEF Leg
  <2>6. Paid(s0, l1)
    <3> SUFFICES ASSUME NEW m \in Leg, m < l1
                 PROVE  /\ old.tries[m] > 0
                        /\ \A j \in Entries(s0, m) : ledger[s0][m][old.tries[m]][j] = "posted"
      BY DEF Paid
    <3>1. CASE m < l0
      BY <1>3, <3>1 DEF Paid
    <3>2. CASE m = l0
      <4>1. Expected(tx.row, l0, At) = "posted"
        BY <1>2, <1>4, ExpectedIs DEF At
      <4> QED
        BY <1>2, <1>3, <3>2, <4>1 DEF Attempt
    <3> QED
      BY <2>5, <3>1, <3>2
  <2>7. WorkFits'
    <3>1. swap'[s0] = old /\ tx.wrote
      BY <1>1, <1>2, <1>8, EntriesType
    <3>2. \A s \in Request, l \in Leg : s = s0 /\ l = l1 => Paid(s, l)'
      BY <1>1, <2>6, PaidSame
    <3>3. row.tries[l1] = old.tries[l1] + 1
      BY <1>3, <2>1, <2>3, <2>5
    <3>4. \A m \in Leg \ {l1} : row.tries[m] = IF m < l1 THEN old.tries[m] ELSE 0
      BY <1>3, <2>3, <2>5
    <3>5. \A m \in Leg : /\ m < l1 => row.leg[m] = "CLEAR" /\ row.tries[m] > 0
                         /\ m > l1 => row.leg[m] = "none" /\ old.tries[m] = 0
      <4>1. ASSUME NEW m \in Leg, m < l1 PROVE row.leg[m] = "CLEAR" /\ row.tries[m] > 0
        <5>1. m \in Leg \ {l1} /\ (m < l0 \/ m = l0)
          BY <2>5, <4>1
        <5> QED
          BY <1>2, <1>3, <1>4, <2>3, <5>1 DEF Attempt
      <4>2. ASSUME NEW m \in Leg, m > l1 PROVE row.leg[m] = "none" /\ old.tries[m] = 0
        <5>1. m \in Leg \ {l1} /\ m > l0
          BY <2>5, <4>2
        <5> QED
          BY <1>3, <2>3, <5>1
      <4> QED
        BY <4>1, <4>2
    <3> HIDE DEF l1, l0, s0, old
    <3> QED
      BY <1>2, <1>3, <2>1, <2>2, <2>3, <3>1, <3>2, <3>3, <3>4, <3>5 DEF WorkFits
  <2>8. WorkIsClean'
    <3> SUFFICES ASSUME NEW l \in Leg, NEW a \in Attempt, NEW k \in Entries(s0, l)
                 PROVE  LET in == IF l = l1 /\ a = 1 /\ k >= 1 THEN old ELSE row
                        IN  /\ ledger[s0][l][a][k] = Expected(in, l, a)
                            /\ tx.row.evidence[l][a][k] = Expected(in, l, a)
      BY <1>1, <2>2, <2>3, EntriesStay DEF WorkIsClean, Expected
    <3>1. k >= 1
      BY <1>2, EntriesType
    <3>2. CASE l # l1
      BY <1>2, <1>3, <2>3, <3>2 DEF Expected
    <3>3. CASE l = l1
      <4>1. Expected(tx.row, l, a) = "none" /\ Expected(old, l, a) = "none"
        BY <1>2, <1>3, <2>1, <2>5, <3>3, RowFacts, ExpectedIs DEF Attempt
      <4>2. a # 1 => Expected(row, l, a) = "none"
        BY <2>3, <3>3, ExpectedIs DEF Attempt
      <4> QED
        BY <1>2, <3>1, <3>3, <4>1, <4>2
    <3> QED
      BY <3>2, <3>3
  <2>9. TornGetsNowhere'
    BY <1>1, <1>2, <2>2 DEF TornGetsNowhere
  <2> QED
    BY <1>5, <2>4, <2>7, <2>8, <2>9 DEF SwapInv
<1> QED
  BY <1>7, <1>8

LEMMA LegVoidedHolds ==
  ASSUME SwapInv, LegVoided
  PROVE  SwapInv'
<1> DEFINE s0 == tx.on  l0 == tx.leg  old == swap[tx.on]
<1>1. /\ tx.at = "void" /\ ~More
      /\ UNCHANGED <<terms, quote, cancelling, swap, ledger, torn>>
  BY DEF LegVoided
<1>2. /\ s0 \in Request /\ l0 \in Leg /\ At \in Attempt /\ tx.row \in Row /\ Busy
      /\ s0 \notin torn
      /\ \A l \in Leg, a \in Attempt : \A k \in Entries(s0, l) :
           /\ ledger[s0][l][a][k] = Expected(tx.row, l, a)
           /\ tx.row.evidence[l][a][k] = Expected(tx.row, l, a)
      /\ Entries(s0, l0) # {} => tx.wrote
  BY <1>1, TurnFacts
<1>3. /\ \A m \in Leg : m < l0 =>
              old.leg[m] = "CLEAR" /\ old.tries[m] > 0 /\ tx.row.leg[m] = "CLEAR"
      /\ \A m \in Leg : m > l0 =>
              /\ old.leg[m] = "none" /\ old.tries[m] = 0
              /\ tx.row.leg[m] = "none" /\ tx.row.tries[m] = 0
      /\ old.tries[l0] = At /\ tx.row.tries = old.tries
      /\ old.status = "PROCESSING" /\ tx.row.status = "PROCESSING"
      /\ Paid(s0, l0)
  BY <1>1, LaterLegs
<1>4. tx.row.leg[l0] \in Failed
  BY <1>1 DEF SwapInv, WorkFits
<1>5. TypeOK'
  BY TurnTyped DEF SwapInv
<1>6. PICK row \in Row :
        /\ row.evidence = tx.row.evidence /\ row.status = tx.row.status
        /\ \/ /\ GoOn("commit", l0, row) /\ row.tries = tx.row.tries
              /\ row.leg = [tx.row.leg EXCEPT ![l0] = "NEEDS_REVIEW"]
           \/ /\ GoOn("hold", l0, row)
              /\ row.tries = [tx.row.tries EXCEPT ![l0] = At + 1]
              /\ row.leg = [tx.row.leg EXCEPT ![l0] = "CREATED"]
  BY LegVoidedEffect DEF SwapInv
<1>7. /\ tx.row.tries \in [Leg -> 0..Attempts]
      /\ tx.row.leg \in [Leg -> FundStatus \union {"none"}]
  BY <1>2, RowType
<1>8. CASE /\ GoOn("commit", l0, row) /\ row.tries = tx.row.tries
           /\ row.leg = [tx.row.leg EXCEPT ![l0] = "NEEDS_REVIEW"]
  <2>1. /\ row.status = "PROCESSING" /\ row.evidence = tx.row.evidence
        /\ row.tries = old.tries /\ row.leg[l0] = "NEEDS_REVIEW"
        /\ \A m \in Leg \ {l0} : row.leg[m] = tx.row.leg[m]
    BY <1>2, <1>3, <1>6, <1>7, <1>8
  <2>2. /\ tx'.at = "commit" /\ tx'.on = s0 /\ tx'.leg = l0
        /\ tx'.next = 1 /\ tx'.wrote = tx.wrote /\ tx'.row = row
    BY <1>2, <1>8, GoOnEffect DEF SwapInv
  <2>3. QuotesFit' /\ RowsFit' /\ LedgerFits' /\ Clean' /\ TornIsStuck'
    BY <1>1, <1>2, <2>2, TurnKeeps
  <2>4. RowFits(row)
    <3>1. \A m \in Leg : \/ m < l0 /\ row.leg[m] = "CLEAR" /\ row.tries[m] > 0
                         \/ m = l0 /\ row.leg[m] = "NEEDS_REVIEW" /\ row.tries[m] > 0
                         \/ m > l0 /\ row.leg[m] = "none" /\ row.tries[m] = 0
      <4> SUFFICES ASSUME NEW m \in Leg
                   PROVE  \/ m < l0 /\ row.leg[m] = "CLEAR" /\ row.tries[m] > 0
                          \/ m = l0 /\ row.leg[m] = "NEEDS_REVIEW" /\ row.tries[m] > 0
                          \/ m > l0 /\ row.leg[m] = "none" /\ row.tries[m] = 0
        OBVIOUS
      <4>1. m < l0 \/ m = l0 \/ m > l0
        BY <1>2 DEF Leg
      <4>2. m # l0 => m \in Leg \ {l0}
        OBVIOUS
      <4> QED
        BY <1>2, <1>3, <2>1, <4>1, <4>2 DEF Leg, Attempt
    <3>2. \A m \in Leg : row.tries[m] \in Nat
      BY RowType, SwapAssumption
    <3>3. \A l, m \in Leg : m < l /\ row.tries[l] > 0 => row.leg[m] = "CLEAR"
      BY <1>2, <3>1, <3>2 DEF Leg
    <3>4. row.leg[4] # "CLEAR"
      BY <1>2, <3>1 DEF Leg
    <3> QED
      BY <2>1, <3>1, <3>2, <3>3, <3>4 DEF RowFits
  <2>5. WorkFits'
    <3>1. RowFits(row)' /\ swap'[s0] = old
      BY <1>1, <2>4 DEF RowFits
    <3> QED
      BY <1>3, <2>1, <2>2, <3>1 DEF WorkFits
  <2>6. WorkIsClean'
    <3> SUFFICES ASSUME NEW l \in Leg, NEW a \in Attempt, NEW k \in Entries(s0, l)
                 PROVE  /\ ledger[s0][l][a][k] = Expected(row, l, a)
                        /\ tx.row.evidence[l][a][k] = Expected(row, l, a)
      BY <1>1, <2>1, <2>2, EntriesStay DEF WorkIsClean, Expected
    <3>1. CASE l # l0
      <4>1. Expected(row, l, a) = Expected(tx.row, l, a)
        <5>1. row.tries[l] = tx.row.tries[l] /\ row.leg[l] = tx.row.leg[l]
          BY <1>3, <2>1, <3>1
        <5> QED
          BY <5>1, Zenon DEF Expected
      <4> QED
        BY <1>2, <4>1
    <3>2. CASE l = l0
      <4>1. Expected(row, l, a) = Expected(tx.row, l, a)
        BY <1>2, <1>3, <1>4, <2>1, <3>2, ExpectedIs DEF Attempt
      <4> QED
        BY <1>2, <4>1
    <3> QED
      BY <3>1, <3>2
  <2>7. TornGetsNowhere'
    BY <1>1, <1>2, <2>2 DEF TornGetsNowhere
  <2> QED
    BY <1>5, <2>3, <2>5, <2>6, <2>7 DEF SwapInv
<1>9. CASE /\ GoOn("hold", l0, row)
           /\ row.tries = [tx.row.tries EXCEPT ![l0] = At + 1]
           /\ row.leg = [tx.row.leg EXCEPT ![l0] = "CREATED"]
  <2>1. /\ row.status = "PROCESSING" /\ row.evidence = tx.row.evidence
        /\ row.tries[l0] = At + 1 /\ row.leg[l0] = "CREATED"
        /\ \A m \in Leg \ {l0} : row.tries[m] = old.tries[m] /\ row.leg[m] = tx.row.leg[m]
    BY <1>2, <1>3, <1>6, <1>7, <1>9
  <2>2. /\ tx'.at = "hold" /\ tx'.on = s0 /\ tx'.leg = l0
        /\ tx'.next = 1 /\ tx'.wrote = tx.wrote /\ tx'.row = row
    BY <1>2, <1>9, GoOnEffect DEF SwapInv
  <2>3. QuotesFit' /\ RowsFit' /\ LedgerFits' /\ Clean' /\ TornIsStuck'
    BY <1>1, <1>2, <2>2, TurnKeeps
  <2>4. \A m \in Leg : /\ m # l0 <=> (m < l0 \/ m > l0)
                       /\ m > l0 => ~(m < l0)
    BY <1>2 DEF Leg
  <2>5. WorkFits'
    <3>1. swap'[s0] = old /\ (Entries(s0, l0) # {} => tx.wrote)
      BY <1>1, <1>2
    <3>2. \A s \in Request, l \in Leg : s = s0 /\ l = l0 =>
            Paid(s, l)' /\ Entries(s, l)' = Entries(s, l)
      BY <1>1, <1>3, PaidSame, EntriesStay
    <3>3. row.tries[l0] = old.tries[l0] + 1
      BY <1>3, <2>1
    <3>4. \A m \in Leg \ {l0} : row.tries[m] = IF m < l0 THEN old.tries[m] ELSE 0
      BY <1>3, <2>1, <2>4
    <3>5. \A m \in Leg : /\ m < l0 => row.leg[m] = "CLEAR" /\ row.tries[m] > 0
                         /\ m > l0 => row.leg[m] = "none" /\ old.tries[m] = 0
      BY <1>3, <2>1, <2>4
    <3> HIDE DEF l0, s0, old
    <3> QED
      BY <1>2, <1>3, <2>1, <2>2, <3>1, <3>2, <3>3, <3>4, <3>5 DEF WorkFits
  <2>6. WorkIsClean'
    <3> SUFFICES ASSUME NEW l \in Leg, NEW a \in Attempt, NEW k \in Entries(s0, l)
                 PROVE  LET in == IF l = l0 /\ a = At + 1 /\ k >= 1 THEN old ELSE row
                        IN  /\ ledger[s0][l][a][k] = Expected(in, l, a)
                            /\ tx.row.evidence[l][a][k] = Expected(in, l, a)
      BY <1>1, <2>1, <2>2, EntriesStay DEF WorkIsClean, Expected
    <3>1. k >= 1
      BY <1>2, EntriesType
    <3>2. CASE l # l0
      <4>1. Expected(row, l, a) = Expected(tx.row, l, a)
        <5>1. row.tries[l] = tx.row.tries[l] /\ row.leg[l] = tx.row.leg[l]
          BY <1>3, <2>1, <3>2
        <5> QED
          BY <5>1, Zenon DEF Expected
      <4>2. /\ ledger[s0][l][a][k] = Expected(row, l, a)
            /\ tx.row.evidence[l][a][k] = Expected(row, l, a)
        BY <1>2, <4>1
      <4> QED
        BY <3>2, <4>2
    <3>3. CASE l = l0
      <4>1. a = At + 1 => Expected(tx.row, l, a) = "none" /\ Expected(old, l, a) = "none"
        <5>1. a = At + 1 => a > tx.row.tries[l] /\ a > old.tries[l]
          BY <1>2, <1>3, <3>3 DEF Attempt
        <5>2. old \in Row
          BY <1>2, RowFacts
        <5> HIDE DEF old
        <5> QED
          BY <1>2, <5>1, <5>2, ExpectedIs
      <4>2. a # At + 1 => Expected(row, l, a) = Expected(tx.row, l, a)
        <5>1. CASE a = At
          <6>1. a < row.tries[l] /\ a = tx.row.tries[l]
            BY <1>2, <1>3, <2>1, <3>3, <5>1 DEF Attempt
          <6> QED
            BY <1>2, <1>4, <3>3, <6>1, ExpectedIs
        <5>2. CASE a > At /\ a # At + 1
          <6>1. a > row.tries[l] /\ a > tx.row.tries[l]
            BY <1>2, <1>3, <2>1, <3>3, <5>2 DEF Attempt
          <6> QED
            BY <1>2, <6>1, ExpectedIs
        <5>3. CASE a < At
          <6>1. a < row.tries[l] /\ a < tx.row.tries[l]
            BY <1>2, <1>3, <2>1, <3>3, <5>3 DEF Attempt
          <6> QED
            BY <1>2, <6>1, ExpectedIs
        <5> QED
          BY <1>2, <5>1, <5>2, <5>3 DEF Attempt
      <4> QED
        BY <1>2, <3>1, <3>3, <4>1, <4>2
    <3> QED
      BY <3>2, <3>3
  <2>7. TornGetsNowhere'
    BY <1>1, <1>2, <2>2 DEF TornGetsNowhere
  <2> QED
    BY <1>5, <2>3, <2>5, <2>6, <2>7 DEF SwapInv
<1> QED
  BY <1>6, <1>8, <1>9

LEMMA LegHeldHolds ==
  ASSUME SwapInv, LegHeld
  PROVE  SwapInv'
<1> DEFINE s0 == tx.on  l0 == tx.leg  old == swap[tx.on]
<1>1. /\ tx.at = "hold" /\ ~More
      /\ UNCHANGED <<terms, quote, cancelling, swap, ledger>>
  BY DEF LegHeld
<1>2. /\ s0 \in Request /\ l0 \in Leg /\ At \in Attempt /\ tx.row \in Row /\ Busy
      /\ s0 \notin torn => \A l \in Leg, a \in Attempt : \A k \in Entries(s0, l) :
           /\ ledger[s0][l][a][k] = Expected(tx.row, l, a)
           /\ tx.row.evidence[l][a][k] = Expected(tx.row, l, a)
      /\ tx.wrote \in BOOLEAN
  BY <1>1, TurnFacts
<1>3. CASE Abort(tx.wrote)
  <2>1. LedgerFits' /\ \A s \in Request : Stuck(s) => Stuck(s)'
    BY <1>1, PaidSame DEF SwapInv
  <2>2. \A s \in Request : tx.wrote /\ s = tx.on /\ swap[s].status # "none" => Stuck(s)'
    BY <1>1, <1>2, PaidSame DEF SwapInv, TornIsStuck
  <2>3. ledger' \in Ledger
    BY <1>1 DEF SwapInv, TypeOK, Ledger
  <2> QED
    BY <1>1, <1>2, <1>3, <2>1, <2>2, <2>3, AbortKeeps
<1>4. CASE ~Abort(tx.wrote)
  <2>1. /\ UNCHANGED torn
        /\ \E row \in Row, status \in Held :
             /\ GoOn("commit", l0, row)
             /\ row.status = tx.row.status /\ row.tries = tx.row.tries
             /\ row.leg = [tx.row.leg EXCEPT ![l0] = status]
             /\ row.evidence = tx.row.evidence
    BY <1>4, LegHeldEffect DEF SwapInv
  <2>2. PICK row \in Row, status \in Held :
             /\ GoOn("commit", l0, row)
             /\ row.status = tx.row.status /\ row.tries = tx.row.tries
             /\ row.leg = [tx.row.leg EXCEPT ![l0] = status]
             /\ row.evidence = tx.row.evidence
    BY <2>1
  <2>3. /\ tx'.at = "commit" /\ tx'.on = s0 /\ tx'.leg = l0
        /\ tx'.next = 1 /\ tx'.wrote = tx.wrote /\ tx'.row = row
    BY <1>2, <2>2, GoOnEffect DEF SwapInv
  <2>4. /\ row.status = "PROCESSING" /\ tx.row.leg[l0] = "CREATED"
        /\ row.tries = tx.row.tries /\ row.tries[l0] = old.tries[l0] + 1
        /\ row.leg[l0] \in Held
        /\ \A m \in Leg : m < l0 => row.leg[m] = "CLEAR" /\ row.tries[m] > 0
                                     /\ row.tries[m] = old.tries[m]
        /\ \A m \in Leg : m > l0 => row.leg[m] = "none" /\ row.tries[m] = 0
                                     /\ old.tries[m] = 0
    <3>1. /\ tx.row.status = "PROCESSING" /\ tx.row.leg[l0] = "CREATED"
          /\ tx.row.tries[l0] = old.tries[l0] + 1
          /\ \A m \in Leg \ {l0} : tx.row.tries[m] = IF m < l0 THEN old.tries[m] ELSE 0
          /\ \A m \in Leg : (m < l0 => tx.row.leg[m] = "CLEAR" /\ tx.row.tries[m] > 0)
                            /\ (m > l0 => tx.row.leg[m] = "none" /\ old.tries[m] = 0)
      BY <1>1 DEF SwapInv, WorkFits
    <3>2. \A m \in Leg : (m < l0 \/ m > l0 => m # l0) /\ (m > l0 => ~(m < l0))
      BY <1>2 DEF Leg
    <3>3. tx.row.leg \in [Leg -> FundStatus \union {"none"}]
      BY <1>2, RowType
    <3>4. \A m \in Leg : row.leg[m] = IF m = l0 THEN status ELSE tx.row.leg[m]
      BY <2>2, <3>3
    <3> HIDE DEF l0, old, s0
    <3> QED
      BY <1>2, <2>2, <3>1, <3>2, <3>4
  <2>5. QuotesFit' /\ RowsFit' /\ LedgerFits' /\ Clean' /\ TornIsStuck'
    BY <1>1, <1>2, <2>1, <2>3, TurnKeeps
  <2>6. TypeOK'
    BY TurnTyped DEF SwapInv
  <2>7. RowFits(row)
    <3>1. \A m \in Leg : /\ row.tries[m] \in Nat
                         /\ \/ m < l0 /\ row.leg[m] = "CLEAR" /\ row.tries[m] > 0
                            \/ m = l0 /\ row.leg[m] \in Held /\ row.tries[m] > 0
                            \/ m > l0 /\ row.leg[m] = "none" /\ row.tries[m] = 0
      <4> SUFFICES ASSUME NEW m \in Leg
                   PROVE  /\ row.tries[m] \in Nat
                          /\ \/ m < l0 /\ row.leg[m] = "CLEAR" /\ row.tries[m] > 0
                             \/ m = l0 /\ row.leg[m] \in Held /\ row.tries[m] > 0
                             \/ m > l0 /\ row.leg[m] = "none" /\ row.tries[m] = 0
        OBVIOUS
      <4>1. m < l0 \/ m = l0 \/ m > l0
        BY <1>2 DEF Leg
      <4>2. row.tries[l0] > 0 /\ row.tries[m] \in Nat
        BY <1>2, <2>2, RowType, SwapAssumption DEF At, Attempt
      <4> QED
        BY <2>4, <4>1, <4>2
    <3>2. \A l, m \in Leg : m < l /\ row.tries[l] > 0 => row.leg[m] = "CLEAR"
      BY <1>2, <3>1 DEF Leg
    <3>3. row.leg[4] # "CLEAR"
      BY <1>2, <3>1 DEF Leg, Held
    <3>4. \A m \in Leg : (row.tries[m] = 0 <=> row.leg[m] = "none")
                         /\ row.leg[m] \in Held \union {"none", "CLEAR", "NEEDS_REVIEW"}
      BY <3>1 DEF Held
    <3> QED
      BY <2>4, <3>2, <3>3, <3>4 DEF RowFits
  <2>8. WorkFits'
    <3>1. RowFits(row)' /\ swap'[s0] = old
      BY <1>1, <2>7 DEF RowFits
    <3>2. old.status # "SUCCESS"
      BY <1>2 DEF SwapInv, WorkFits
    <3> QED
      BY <2>3, <2>4, <3>1, <3>2 DEF WorkFits
  <2>9. WorkIsClean'
    <3> SUFFICES ASSUME s0 \notin torn, NEW l \in Leg, NEW a \in Attempt,
                        NEW k \in Entries(s0, l)
                 PROVE  /\ ledger[s0][l][a][k] = Expected(row, l, a)
                        /\ tx.row.evidence[l][a][k] = Expected(row, l, a)
      <4>1. UNCHANGED <<terms, ledger, torn>> /\ row.evidence = tx.row.evidence
        BY <1>1, <2>1, <2>2
      <4> QED
        BY <2>3, <4>1, EntriesStay DEF WorkIsClean, Expected
    <3>1. Expected(row, l, a) = Expected(tx.row, l, a)
      <4>1. CASE l # l0
        <5>1. row.leg[l] = tx.row.leg[l] /\ row.tries[l] = tx.row.tries[l]
          <6>1. tx.row.leg \in [Leg -> FundStatus \union {"none"}]
            BY <1>2, RowType
          <6> QED
            BY <2>2, <4>1, <6>1
        <5> QED
          BY <5>1, Zenon DEF Expected
      <4>2. CASE l = l0
        <5>1. row.tries[l] = tx.row.tries[l] /\ row.tries[l] \in Nat
          BY <1>2, <2>2, RowType, SwapAssumption
        <5>2. CASE a = row.tries[l]
          <6>1. Expected(row, l, a) = "pending"
            BY <2>4, <4>2, <5>2, ExpectedIs
          <6>2. Expected(tx.row, l, a) = "pending"
            BY <1>2, <2>4, <4>2, <5>1, <5>2, ExpectedIs
          <6> QED
            BY <6>1, <6>2
        <5>3. CASE a # row.tries[l]
          BY <1>2, <5>1, <5>3, ExpectedIs DEF Attempt
        <5> QED
          BY <5>2, <5>3
      <4> QED
        BY <4>1, <4>2
    <3> QED
      BY <1>2, <3>1
  <2>10. TornGetsNowhere'
    <3> SUFFICES ASSUME s0 \in torn PROVE TornGetsNowhere'
      BY <2>1, <2>3 DEF TornGetsNowhere
    <3> DEFINE a0 == tx.row.tries[l0]
    <3>1. /\ old.status # "none" /\ 1 \in Entries(s0, l0) /\ a0 > 0
          /\ old.leg[l0] = "NEEDS_REVIEW" /\ tx.row.evidence[l0][a0][1] = "none"
      BY <1>1, <1>2 DEF SwapInv, TornGetsNowhere
    <3>2. row.tries[l0] = a0 /\ row.evidence[l0][a0][1] = "none" /\ a0 = old.tries[l0] + 1
      BY <2>2, <2>4, <3>1
    <3>3. \A l \in Leg : \A a : l = l0 /\ a = a0 => Spent(s0, row, l, a)
      BY <3>2 DEF Spent
    <3>4. \A m \in Leg \ {l0} : row.leg[m] = old.leg[m] /\ row.tries[m] = old.tries[m]
      <4> SUFFICES ASSUME NEW m \in Leg, m # l0
                   PROVE  row.leg[m] = old.leg[m] /\ row.tries[m] = old.tries[m]
        OBVIOUS
      <4>1. CASE m < l0
        <5>1. old.tries[l0] > 0
          BY <1>2, <3>1, RowFacts
        <5>2. old.leg[m] = "CLEAR"
          BY <1>2, <4>1, <5>1, RowFacts
        <5> QED
          BY <2>4, <4>1, <5>2
      <4>2. CASE m > l0
        <5>1. old.leg[m] = "none"
          <6>1. old.tries[m] = 0
            BY <2>4, <4>2
          <6> QED
            BY <1>2, <6>1, RowFacts
        <5> QED
          BY <2>4, <4>2, <5>1
      <4> QED
        BY <1>2, <4>1, <4>2 DEF Leg
    <3>5. \A s \in Request, l \in Leg : \A a : s = s0 /\ l = l0 /\ a = a0 =>
            /\ 1 \in Entries(s, l) => (1 \in Entries(s, l))'
            /\ Spent(s, row, l, a)'
      BY <1>1, <3>3, EntriesStay, PaidSame
    <3>6. swap'[s0] = old
      BY <1>1
    <3> HIDE DEF s0, l0, a0, old
    <3> QED
      BY <1>2, <2>3, <2>4, <3>1, <3>2, <3>4, <3>5, <3>6 DEF TornGetsNowhere
  <2> QED
    BY <2>5, <2>6, <2>8, <2>9, <2>10 DEF SwapInv
<1> QED
  BY <1>3, <1>4

-----------------------------------------------------------------------------
\* Nothing of the others is changed by the rows of one request.
LEMMA OthersSame ==
  ASSUME NEW s, NEW row, swap'[s] = row, swap[s] = row, UNCHANGED <<terms, ledger>>
  PROVE  /\ \A l : Paid(s, l)' = Paid(s, l)
         /\ \A l, a, k : CellFits(s, l, a, k)' = CellFits(s, l, a, k)
         /\ Stuck(s)' = Stuck(s)
<1>1. \A l : Paid(s, l)' = Paid(s, l)
  BY EntriesStay DEF Paid
<1>2. \A l, a, k : CellFits(s, l, a, k)' = CellFits(s, l, a, k)
  BY <1>1, EntriesStay DEF CellFits
<1>3. Stuck(s)' = Stuck(s)
  BY EntriesStay DEF Stuck, StuckLeg, Spent
<1> QED
  BY <1>1, <1>2, <1>3

\* The ledger of a request whose rows are exact, when they are committed.
LEMMA CommitClean ==
  ASSUME SwapInv, tx.at = "commit", tx.on \notin torn, UNCHANGED <<terms, ledger>>,
         NEW s \in Request, s = tx.on, NEW row \in Row, row = tx.row, swap'[s] = row
  PROVE  \A l \in Leg : /\ row.tries[l] > 0 => Paid(s, l)'
                        /\ \A a \in Attempt, k \in 1..2 : CellFits(s, l, a, k)'
<1>1. /\ RowFits(row)
      /\ \A l \in Leg, a \in Attempt : \A k \in Entries(s, l) :
           ledger[s][l][a][k] = Expected(row, l, a)
  BY DEF SwapInv, WorkFits, WorkIsClean, Busy
<1>2. \A l \in Leg : row.tries[l] \in Nat /\ (row.tries[l] > 0 => row.tries[l] \in Attempt)
  BY RowType, SwapAssumption DEF Attempt
<1>3. ASSUME NEW l \in Leg, row.tries[l] > 0
      PROVE  Paid(s, l)'
  <2> SUFFICES ASSUME NEW m \in Leg, m < l
               PROVE  /\ row.tries[m] > 0
                      /\ \A j \in Entries(s, m) : ledger[s][m][row.tries[m]][j] = "posted"
    BY EntriesStay DEF Paid
  <2>1. row.leg[m] = "CLEAR"
    BY <1>1, <1>3 DEF RowFits
  <2>2. row.tries[m] > 0 /\ row.tries[m] \in Attempt
    BY <1>1, <1>2, <2>1 DEF RowFits
  <2>3. Expected(row, m, row.tries[m]) = "posted"
    BY <2>1, <2>2, ExpectedIs
  <2> QED
    BY <1>1, <2>2, <2>3
<1>4. ASSUME NEW l \in Leg, NEW a \in Attempt, NEW k \in 1..2
      PROVE  CellFits(s, l, a, k)'
  <2>1. k \notin Entries(s, l) => ledger[s][l][a][k] = "none"
    BY DEF SwapInv, LedgerFits, CellFits
  <2>2. CASE k \in Entries(s, l)
    <3> DEFINE tb == ledger[s][l][a][k]  n == row.tries[l]
    <3>1. tb = Expected(row, l, a) /\ a \in Nat /\ a > 0 /\ n \in Nat
      BY <1>1, <1>2, <2>2, SwapAssumption DEF Attempt
    <3>2. a < n => tb = "voided"
      BY <3>1, ExpectedIs
    <3>3. a > n => tb = "none"
      BY <3>1, ExpectedIs
    <3>4. a = n /\ row.leg[l] = "NEEDS_REVIEW" => tb = "voided"
      BY <3>1, ExpectedIs
    <3>5. a = n /\ row.leg[l] = "CLEAR" => tb = "posted"
      BY <3>1, ExpectedIs
    <3>6. tb # "none" => Paid(s, l)'
      BY <1>3, <3>1, <3>3
    <3> QED
      BY <2>2, <3>2, <3>3, <3>4, <3>5, <3>6, EntriesStay DEF CellFits
  <2>3. CASE k \notin Entries(s, l)
    BY <2>1, <2>3, EntriesStay DEF CellFits
  <2> QED
    BY <2>2, <2>3
<1> QED
  BY <1>3, <1>4

\* The ledger of a torn request, when another status of its leg is committed.
LEMMA CommitTorn ==
  ASSUME SwapInv, tx.at = "commit", tx.on \in torn, UNCHANGED <<terms, ledger>>,
         NEW s \in Request, s = tx.on, NEW row \in Row, row = tx.row, swap'[s] = row
  PROVE  /\ \A l \in Leg : /\ row.tries[l] > 0 => Paid(s, l)'
                           /\ \A a \in Attempt, k \in 1..2 : CellFits(s, l, a, k)'
         /\ Stuck(s)'
<1> DEFINE old == swap[s]
<1>1. PICK l0 \in Leg : l0 = tx.leg
  BY TxType DEF SwapInv
<1>2. /\ 1 \in Entries(s, l0) /\ row.tries[l0] > 0
      /\ row.leg[l0] \in Held /\ Spent(s, row, l0, row.tries[l0])
      /\ \A m \in Leg \ {l0} : row.leg[m] = old.leg[m] /\ row.tries[m] = old.tries[m]
      /\ \/ old.leg[l0] \in Held /\ row.tries[l0] = old.tries[l0]
         \/ old.leg[l0] = "NEEDS_REVIEW" /\ row.tries[l0] = old.tries[l0] + 1
  BY <1>1 DEF SwapInv, TornGetsNowhere, Busy
<1>3. Stuck(s)'
  <2>1. StuckLeg(s, l0)'
    BY <1>2, EntriesStay DEF StuckLeg, Spent
  <2> QED
    BY <2>1 DEF Stuck
<1>4. /\ \A l \in Leg : old.tries[l] \in Nat /\ row.tries[l] \in Nat
      /\ old.tries[l0] > 0 /\ old.tries[l0] \in Attempt /\ old.leg[l0] # "CLEAR"
      /\ \A l \in Leg : l > l0 => old.tries[l] = 0
  <2>1. \A l \in Leg : old.tries[l] \in 0..Attempts /\ row.tries[l] \in 0..Attempts
    BY RowFacts, RowType
  <2>2. old.tries[l0] > 0 /\ old.leg[l0] # "CLEAR"
    BY <1>2, RowFacts DEF Held
  <2>3. \A l \in Leg : l > l0 => ~(old.tries[l] > 0)
    BY <2>2, RowFacts DEF Leg
  <2> QED
    BY <2>1, <2>2, <2>3, SwapAssumption DEF Attempt
<1>5. \A l \in Leg, a \in Attempt, k \in 1..2 : CellFits(s, l, a, k)
  BY DEF SwapInv, LedgerFits
<1>6. ASSUME NEW l \in Leg, Paid(s, l)
      PROVE  Paid(s, l)'
  <2> SUFFICES ASSUME NEW m \in Leg, m < l
               PROVE  /\ row.tries[m] > 0
                      /\ \A j \in Entries(s, m) : ledger[s][m][row.tries[m]][j] = "posted"
    BY EntriesStay DEF Paid
  <2>1. old.tries[m] > 0 /\ \A j \in Entries(s, m) : ledger[s][m][old.tries[m]][j] = "posted"
    BY <1>6 DEF Paid
  <2>2. row.tries[m] = old.tries[m]
    <3>1. CASE m # l0
      BY <1>2, <3>1
    <3>2. CASE m = l0
      <4>1. ledger[s][l0][old.tries[l0]][1] = "posted"
        BY <1>2, <2>1, <3>2
      <4>2. old.leg[l0] = "NEEDS_REVIEW" => ledger[s][l0][old.tries[l0]][1] = "voided"
        BY <1>2, <1>4, <1>5 DEF CellFits
      <4> QED
        BY <1>2, <3>2, <4>1, <4>2
    <3> QED
      BY <3>1, <3>2
  <2> QED
    BY <2>1, <2>2
<1>7. ASSUME NEW l \in Leg, row.tries[l] > 0
      PROVE  Paid(s, l)'
  <2>1. old.tries[l] > 0
    BY <1>2, <1>4, <1>7
  <2> QED
    BY <1>6, <2>1 DEF SwapInv, LedgerFits
<1>8. ASSUME NEW l \in Leg, NEW a \in Attempt, NEW k \in 1..2
      PROVE  CellFits(s, l, a, k)'
  <2> DEFINE tb == ledger[s][l][a][k]
  <2>1. /\ k \notin Entries(s, l) => tb = "none"
        /\ k \in Entries(s, l) =>
             /\ a < old.tries[l] => tb = "voided"
             /\ a = old.tries[l] /\ old.leg[l] = "NEEDS_REVIEW" => tb = "voided"
             /\ a = old.tries[l] /\ old.leg[l] = "CLEAR" => tb = "posted"
             /\ a > old.tries[l] => tb # "posted"
             /\ tb # "none" => Paid(s, l)'
    BY <1>5, <1>6 DEF CellFits
  <2>2. k \in Entries(s, l) =>
             /\ a < row.tries[l] => tb = "voided"
             /\ a = row.tries[l] /\ row.leg[l] = "NEEDS_REVIEW" => tb = "voided"
             /\ a = row.tries[l] /\ row.leg[l] = "CLEAR" => tb = "posted"
             /\ a > row.tries[l] => tb # "posted"
    <3>1. CASE l # l0
      BY <1>2, <2>1, <3>1
    <3>2. CASE l = l0
      <4>1. row.leg[l] # "NEEDS_REVIEW" /\ row.leg[l] # "CLEAR"
        BY <1>2, <3>2 DEF Held
      <4>2. CASE row.tries[l] = old.tries[l]
        BY <2>1, <4>1, <4>2
      <4>3. CASE row.tries[l] = old.tries[l] + 1 /\ old.leg[l] = "NEEDS_REVIEW"
        <5>1. /\ a < row.tries[l] => a < old.tries[l] \/ a = old.tries[l]
              /\ a > row.tries[l] => a > old.tries[l]
          BY <1>4, <4>3 DEF Attempt
        <5> QED
          BY <2>1, <4>1, <4>3, <5>1
      <4> QED
        BY <1>2, <3>2, <4>2, <4>3
    <3> QED
      BY <3>1, <3>2
  <2> HIDE DEF tb
  <2>3. ledger'[s][l][a][k] = tb
    BY DEF tb
  <2> HIDE DEF old
  <2> QED
    BY <2>1, <2>2, <2>3, EntriesStay DEF CellFits
<1> QED
  BY <1>3, <1>7, <1>8

LEMMA CommitHolds ==
  ASSUME SwapInv, Commit
  PROVE  SwapInv'
<1> DEFINE s0 == tx.on  row == tx.row  old == swap[tx.on]
<1>1. /\ tx.at = "commit" /\ Busy /\ UNCHANGED <<terms, cancelling, ledger, torn>>
      /\ tx'.at = "idle" /\ tx'.wrote = FALSE
  BY IdleType DEF Commit, Busy
<1>2. /\ s0 \in Request /\ row \in Row /\ QuoteOf[s0] \in Quote
      /\ QuoteOf \in [Request -> Quote]
  BY TxType, SwapAssumption DEF SwapInv
<1>3. \A s \in Request : swap'[s] = IF s = s0 THEN row ELSE swap[s]
  BY DEF Commit, SwapInv, TypeOK
<1>4. RowFits(row) /\ row.status # "none"
  BY <1>1 DEF SwapInv, WorkFits
<1>5. TypeOK'
  BY EndTyped DEF SwapInv
<1>6. QuotesFit'
  <2>1. CASE old.status = "none"
    <3>1. \A q \in Quote : quote'[q] = IF q = QuoteOf[s0] THEN "USED" ELSE quote[q]
      BY <2>1 DEF Commit, SwapInv, TypeOK
    <3>2. quote[QuoteOf[s0]] = "ACTIVE"
      BY <1>1, <2>1 DEF SwapInv, QuotesFit
    <3>3. \A u \in Request : swap[u].status # "none" => QuoteOf[u] # QuoteOf[s0]
      BY <3>2 DEF SwapInv, QuotesFit
    <3>4. \A s \in Request : swap'[s].status # "none" => quote'[QuoteOf[s]] # "ACTIVE"
      BY <1>2, <1>3, <3>1, <3>3 DEF SwapInv, QuotesFit
    <3>5. \A s, u \in Request : swap'[s].status # "none" /\ swap'[u].status # "none"
            /\ QuoteOf[s] = QuoteOf[u] => s = u
      BY <1>2, <1>3, <3>3 DEF SwapInv, QuotesFit
    <3> QED
      BY <1>1, <3>4, <3>5 DEF QuotesFit, Busy
  <2>2. CASE old.status # "none"
    <3>1. \A s \in Request : swap'[s].status # "none" => swap[s].status # "none"
      BY <1>3, <2>2
    <3>2. UNCHANGED quote
      BY <2>2 DEF Commit
    <3> QED
      BY <1>1, <3>1, <3>2 DEF SwapInv, QuotesFit, Busy
  <2> QED
    BY <2>1, <2>2
<1>7. RowsFit'
  BY <1>3, <1>4 DEF SwapInv, RowsFit, RowFits
<1>8. \A s \in Request : s # s0 =>
        /\ \A l : Paid(s, l)' = Paid(s, l)
        /\ \A l, a, k : CellFits(s, l, a, k)' = CellFits(s, l, a, k)
        /\ Stuck(s)' = Stuck(s)
  BY <1>1, <1>3, OthersSame
<1>9. LedgerFits'
  <2> SUFFICES ASSUME NEW s \in Request
               PROVE  \A l \in Leg : /\ swap'[s].tries[l] > 0 => Paid(s, l)'
                                     /\ \A a \in Attempt, k \in 1..2 : CellFits(s, l, a, k)'
    BY DEF LedgerFits
  <2>1. CASE s # s0
    <3>1. swap'[s] = swap[s]
      BY <1>3, <2>1
    <3> QED
      BY <1>8, <2>1, <3>1 DEF SwapInv, LedgerFits
  <2>2. CASE s = s0
    <3>1. swap'[s] = row
      BY <1>3, <2>2
    <3>2. CASE s0 \in torn
      BY <1>1, <1>2, <2>2, <3>1, <3>2, CommitTorn
    <3>3. CASE s0 \notin torn
      BY <1>1, <1>2, <2>2, <3>1, <3>3, CommitClean
    <3> QED
      BY <3>1, <3>2, <3>3
  <2> QED
    BY <2>1, <2>2
<1>10. Clean'
  <2> SUFFICES ASSUME NEW s \in Request \ torn, NEW l \in Leg, NEW a \in Attempt,
                      NEW k \in Entries(s, l)
               PROVE  /\ swap'[s].evidence[l][a][k] = Expected(swap'[s], l, a)
                      /\ ledger[s][l][a][k] = Expected(swap'[s], l, a)
    BY <1>1, EntriesStay DEF Clean, Expected
  <2>1. CASE s # s0
    <3>1. swap'[s] = swap[s] /\ ~(Busy /\ tx.on = s /\ tx.wrote)
      BY <1>3, <2>1
    <3> QED
      BY <3>1 DEF SwapInv, Clean
  <2>2. CASE s = s0
    <3>1. swap'[s] = row
      BY <1>3, <2>2
    <3>2. /\ row.evidence[l][a][k] = Expected(row, l, a)
          /\ ledger[s][l][a][k] = Expected(row, l, a)
      BY <1>1, <2>2 DEF SwapInv, WorkIsClean
    <3> QED
      BY <3>1, <3>2
  <2> QED
    BY <2>1, <2>2
<1>11. WorkFits' /\ WorkIsClean' /\ TornGetsNowhere'
  BY <1>1 DEF WorkFits, WorkIsClean, TornGetsNowhere, Busy
<1>12. TornIsStuck'
  <2>1. ASSUME NEW s \in torn, swap'[s].status # "none" PROVE Stuck(s)'
    <3>1. s \in Request
      BY DEF SwapInv, TypeOK
    <3>2. CASE s # s0
      BY <1>3, <1>8, <2>1, <3>1, <3>2 DEF SwapInv, TornIsStuck
    <3>3. CASE s = s0
      <4>1. swap'[s] = row
        BY <1>3, <3>1, <3>3
      <4> QED
        BY <1>1, <1>2, <3>1, <3>3, <4>1, CommitTorn
    <3> QED
      BY <3>2, <3>3
  <2> QED
    BY <1>1, <2>1 DEF TornIsStuck, Busy
<1> QED
  BY <1>5, <1>6, <1>7, <1>9, <1>10, <1>11, <1>12 DEF SwapInv

\* The invariant is kept by every step.
LEMMA NextHolds ==
  ASSUME SwapInv, [Next]_vars
  PROVE  SwapInv'
<1>1. ASSUME NEW s \in Request, Execute(s) PROVE SwapInv'
  BY <1>1, ExecuteHolds
<1>2. ASSUME NEW s \in Request, NEW l \in Leg, NEW act \in FundAction, Advance(s, l, act)
      PROVE  SwapInv'
  BY <1>2, AdvanceHolds
<1>3. ASSUME NEW s \in Request, NEW l \in Leg, Resume(s, l) PROVE SwapInv'
  BY <1>3, ResumeHolds
<1>4. CASE LegStep
  BY <1>4, HoldHolds, ResolveHolds, LegPostedHolds, LegVoidedHolds, LegHeldHolds DEF LegStep
<1>5. CASE Commit \/ Fails
  BY <1>5, CommitHolds, FailsHolds
<1>6. ASSUME NEW q \in Quote, CancelRead(q) \/ CancelWrite(q) PROVE SwapInv'
  BY <1>6, CancelHolds
<1>7. CASE UNCHANGED vars
  <2>1. UNCHANGED <<terms, quote, cancelling, swap, ledger, tx, torn>>
    BY <1>7 DEF vars
  <2>2. TypeOK' /\ QuotesFit' /\ Clean'
    BY <2>1, EntriesStay DEF SwapInv, TypeOK, QuotesFit, Busy, Clean, Expected
  <2>3. RowsFit' /\ LedgerFits'
    BY <2>1, PaidSame DEF SwapInv
  <2>4. WorkFits' /\ WorkIsClean'
    BY <2>1, EntriesStay, PaidSame DEF SwapInv, WorkFits, WorkIsClean, RowFits, Busy, Expected
  <2>5. TornIsStuck'
    BY <2>1, PaidSame DEF SwapInv, TornIsStuck, Busy
  <2>6. TornGetsNowhere'
    <3>1. TornGetsNowhere
      BY DEF SwapInv
    <3> QED
      BY <2>1, <3>1, EntriesStay, PaidSame DEF TornGetsNowhere, Busy
  <2> QED
    BY <2>2, <2>3, <2>4, <2>5, <2>6 DEF SwapInv
<1> QED
  BY <1>1, <1>2, <1>3, <1>4, <1>5, <1>6, <1>7 DEF Next

LEMMA SwapInvariant == Spec => []SwapInv
<1>1. Init => SwapInv
  BY InitHolds
<1>2. SwapInv /\ [Next]_vars => SwapInv'
  BY NextHolds
<1> QED
  BY <1>1, <1>2, PTL DEF Spec

-----------------------------------------------------------------------------
\* Every variable keeps to its kind, whatever the ledger refuses and whatever is
\* rolled back: in particular no attempt is counted past the bound (SwapSaga).
THEOREM SwapTyped == Spec => []TypeOK
<1>1. SwapInv => TypeOK
  BY DEF SwapInv
<1> QED
  BY <1>1, SwapInvariant, PTL

\* A posted transfer is that of the last attempt of a leg of a committed swap.
LEMMA PostedIsLast ==
  ASSUME SwapInv, NEW s \in Request, NEW l \in Leg, NEW a \in Attempt, NEW k \in 1..2,
         Posted(s, l, a, k)
  PROVE  a = swap[s].tries[l] /\ swap[s].status # "none"
<1>1. CellFits(s, l, a, k) /\ ledger[s][l][a][k] = "posted"
  BY DEF SwapInv, LedgerFits, Posted
<1>2. ~(a < swap[s].tries[l]) /\ ~(a > swap[s].tries[l])
  BY <1>1 DEF CellFits
<1>3. a = swap[s].tries[l]
  BY <1>2, RowFacts, SwapAssumption DEF Attempt
<1>4. swap[s].tries[l] # 0
  BY <1>3 DEF Attempt
<1> QED
  BY <1>3, <1>4, RowFacts

\* No entry of a leg is charged twice and no quote is sold twice, for any number of
\* requests, of attempts and of cancellations that race with them.
THEOREM MoneyMovedOnce == Spec => []MovedOnce
<1>1. SwapInv => MovedOnce
  <2> SUFFICES ASSUME SwapInv, NEW s \in Request, NEW l \in Leg, NEW a \in Attempt,
                      NEW k \in 1..2, Posted(s, l, a, k),
                      NEW u \in Request, NEW b \in Attempt,
                      QuoteOf[s] = QuoteOf[u], Posted(u, l, b, k)
               PROVE  s = u /\ a = b
    BY DEF MovedOnce
  <2>1. a = swap[s].tries[l] /\ swap[s].status # "none"
    BY PostedIsLast
  <2>2. b = swap[u].tries[l] /\ swap[u].status # "none"
    BY PostedIsLast
  <2>3. s = u
    BY <2>1, <2>2 DEF SwapInv, QuotesFit
  <2> QED
    BY <2>1, <2>2, <2>3
<1> QED
  BY <1>1, SwapInvariant, PTL

\* Nothing of a leg is in the ledger, not even a hold, before all the legs it
\* depends on are paid - after a rollback too (onLegCleared, resumeLeg).
THEOREM SoldBeforeBought == Spec => []SoldFirst
<1>1. SwapInv => SoldFirst
  <2> SUFFICES ASSUME SwapInv, NEW s \in Request, NEW l \in Leg, NEW a \in Attempt,
                      NEW k \in 1..2, ledger[s][l][a][k] # "none",
                      NEW m \in 1..l-1, NEW j \in Entries(s, m)
               PROVE  \E b \in Attempt : Posted(s, m, b, j)
    BY DEF SoldFirst
  <2>1. m \in Leg /\ m < l
    BY DEF Leg
  <2>2. Paid(s, l)
    BY DEF SwapInv, LedgerFits, CellFits
  <2>3. swap[s].tries[m] > 0 /\ ledger[s][m][swap[s].tries[m]][j] = "posted"
    BY <2>1, <2>2 DEF Paid
  <2>4. swap[s].tries[m] \in Attempt
    BY <2>1, <2>3, RowFacts, SwapAssumption DEF Attempt
  <2> QED
    BY <2>3, <2>4 DEF Posted
<1> QED
  BY <1>1, SwapInvariant, PTL

\* A torn swap does not say SUCCESS, since the leg it is stuck at is not CLEAR; the
\* rows of every other one are exact.
LEMMA SettledFits == SwapInv => SwapSettled
<1> SUFFICES ASSUME SwapInv, NEW s \in Request, swap[s].status = "SUCCESS", NEW l \in Leg
             PROVE  /\ swap[s].leg[l] = "CLEAR"
                    /\ \A a \in Attempt, k \in Entries(s, l) :
                         /\ ledger[s][l][a][k] = Expected(swap[s], l, a)
                         /\ swap[s].evidence[l][a][k] = Expected(swap[s], l, a)
  BY DEF SwapSettled
<1>1. \A m \in Leg : swap[s].leg[m] = "CLEAR"
  <2>1. swap[s].leg[4] = "CLEAR" /\ 4 \in Leg
    BY RowFacts DEF Leg
  <2>2. swap[s].tries[4] > 0
    BY <2>1, RowFacts
  <2>3. \A m \in Leg : m < 4 \/ m = 4
    BY DEF Leg
  <2> QED
    BY <2>1, <2>2, <2>3, RowFacts
<1>2. s \notin torn
  BY <1>1 DEF SwapInv, TornIsStuck, Stuck, StuckLeg, Held
<1>3. ~(Busy /\ tx.on = s)
  BY DEF SwapInv, WorkFits
<1> QED
  BY <1>1, <1>2, <1>3 DEF SwapInv, Clean

\* A swap that says SUCCESS is exact in ledger and evidence.
THEOREM SuccessIsExact == Spec => []SwapSettled
<1> QED
  BY SettledFits, SwapInvariant, PTL

\* Between transactions the ledger and the evidence of a request are what its rows
\* say, unless rows were rolled back after a ledger call.
THEOREM LedgerIsFollowed == Spec => []LedgerFollowsLegs
<1>1. SwapInv => LedgerFollowsLegs
  BY DEF SwapInv, Clean, LedgerFollowsLegs, Busy
<1> QED
  BY <1>1, SwapInvariant, PTL

\* A swap whose rows were rolled back after a ledger call never says SUCCESS: no
\* later call finds a leg of it that it could post and void as the rows have it.
THEOREM TornIsNeverSettled == Spec => [](torn \intersect Settled = {})
<1>1. SwapInv => torn \intersect Settled = {}
  <2> SUFFICES ASSUME SwapInv, NEW s \in torn, s \in Settled PROVE FALSE
    OBVIOUS
  <2>1. s \in Request /\ swap[s].status = "SUCCESS"
    BY DEF Settled
  <2>2. swap[s].leg[4] = "CLEAR" /\ swap[s].tries[4] > 0
    BY <2>1, RowFacts DEF Leg
  <2>3. \A m \in Leg : m < 4 \/ m = 4
    BY DEF Leg
  <2>4. \A m \in Leg : swap[s].leg[m] = "CLEAR"
    BY <2>1, <2>2, <2>3, RowFacts DEF Leg
  <2>5. Stuck(s)
    BY <2>1 DEF SwapInv, TornIsStuck
  <2> QED
    BY <2>4, <2>5 DEF Stuck, StuckLeg, Held
<1> QED
  BY <1>1, SwapInvariant, PTL

-----------------------------------------------------------------------------
(* SwapPromise.  A step of the ledger is a hold, a charge or a give-back; a commit
   is a sale or a settlement, and nothing else is seen of a swap.              *)

\* What is paid for the rows is charged for the promise.
LEMMA PaidIsCharged ==
  ASSUME SwapInv, NEW s \in Request, NEW l \in Leg, Paid(s, l)
  PROVE  Promise!PaidBefore(s, l)
<1> SUFFICES ASSUME NEW m \in Leg, m < l, NEW k \in Entries(s, m)
             PROVE  \E a \in Attempt : ledger[s][m][a][k] = "posted"
  BY DEF Promise!PaidBefore, Promise!Charged, Due
<1>1. swap[s].tries[m] > 0 /\ ledger[s][m][swap[s].tries[m]][k] = "posted"
  BY DEF Paid
<1>2. swap[s].tries[m] \in Attempt
  BY <1>1, RowFacts, SwapAssumption DEF Attempt
<1> QED
  BY <1>1, <1>2

\* Rows that stay as they are show nothing.
LEMMA SameRowsShown ==
  ASSUME UNCHANGED <<terms, swap>>
  PROVE  UNCHANGED <<Due, Sold, Settled>>
BY EntriesStay DEF Due, Sold, Settled

\* A transfer of the transaction at work, seen as a move of the promise.
LEMMA TransferMoves ==
  ASSUME SwapInv, tx.at \in {"hold", "post", "void"}, More, NEW status, Transfer(status),
         UNCHANGED <<terms, swap>>,
         NEW s, s = tx.on, NEW l, l = tx.leg, NEW a, a = At, NEW k, k = tx.next
  PROVE  /\ s \in Request /\ l \in Leg /\ a \in Attempt /\ k \in 1..2
         /\ Promise!Move(s, l, a, k, ledger[s][l][a][k], status)
<1>1. s \in Request /\ l \in Leg /\ a \in Attempt /\ k \in 1..2
  BY AtType, TxType DEF SwapInv
<1>2. s \notin Settled
  BY DEF SwapInv, WorkFits, Busy, Settled
<1>3. k \in Due[s][l]
  BY <1>1 DEF More, Due
<1>4. ledger' = [ledger EXCEPT ![s][l][a][k] = status]
  BY DEF Transfer
<1> QED
  BY <1>1, <1>2, <1>3, <1>4, SameRowsShown DEF Promise!Move

\* A transfer is held for a leg whose earlier legs are paid.
LEMMA HoldPromised ==
  ASSUME SwapInv, Hold
  PROVE  [Promise!Next]_(Promise!vars)
<1>1. tx.at = "hold" /\ More /\ UNCHANGED <<terms, swap>>
  BY DEF Hold
<1>2. CASE InLedger = "none"
  <2>1. Transfer("pending")
    BY <1>2 DEF Hold
  <2>2. PICK s, l, a, k : s = tx.on /\ l = tx.leg /\ a = At /\ k = tx.next
    OBVIOUS
  <2>3. /\ s \in Request /\ l \in Leg /\ a \in Attempt /\ k \in 1..2
        /\ Promise!Move(s, l, a, k, ledger[s][l][a][k], "pending")
    BY <1>1, <2>1, <2>2, TransferMoves
  <2>4. ledger[s][l][a][k] = "none"
    BY <1>2, <2>2 DEF InLedger
  <2>5. Promise!PaidBefore(s, l)
    BY <1>1, <2>2, <2>3, PaidIsCharged DEF SwapInv, WorkFits
  <2> QED
    BY <2>3, <2>4, <2>5 DEF Promise!Hold, Promise!Next
<1>3. CASE InLedger # "none"
  BY <1>1, <1>3, SameRowsShown DEF Hold, Promise!vars
<1> QED
  BY <1>2, <1>3

\* A held transfer is charged, or given back, for a request that has its quote; it is
\* the last attempt of its leg, and so no other one is charged.
LEMMA ResolvePromised ==
  ASSUME SwapInv, Post \/ Void
  PROVE  [Promise!Next]_(Promise!vars)
<1>1. PICK status \in {"posted", "voided"} :
        /\ Resolve(status) /\ More /\ tx.at \in {"post", "void"}
        /\ status = "posted" <=> tx.at = "post"
  BY DEF Post, Void
<1>2. UNCHANGED <<terms, swap>>
  BY <1>1 DEF Resolve
<1>3. CASE InLedger = "pending"
  <2>1. Transfer(status)
    BY <1>1, <1>3 DEF Resolve
  <2>2. PICK s, l, a, k : s = tx.on /\ l = tx.leg /\ a = At /\ k = tx.next
    OBVIOUS
  <2>3. /\ s \in Request /\ l \in Leg /\ a \in Attempt /\ k \in 1..2
        /\ Promise!Move(s, l, a, k, ledger[s][l][a][k], status)
    BY <1>1, <1>2, <2>1, <2>2, TransferMoves
  <2>4. ledger[s][l][a][k] = "pending"
    BY <1>3, <2>2 DEF InLedger
  <2>5. swap[s].tries[l] = a /\ s \in Sold
    BY <1>1, <1>3, <2>2, <2>3, ResolveFacts DEF Sold
  <2>6. ~Promise!Charged(s, l, k)
    BY <2>3, <2>4, <2>5, PostedIsLast DEF Promise!Charged, Posted
  <2> QED
    BY <2>3, <2>4, <2>5, <2>6 DEF Promise!Charge, Promise!GiveBack, Promise!Next
<1>4. CASE InLedger # "pending"
  BY <1>1, <1>2, <1>4, SameRowsShown DEF Resolve, Promise!vars
<1> QED
  BY <1>3, <1>4

\* The first commit of a request sells its quote; the last one settles the swap.
LEMMA CommitPromised ==
  ASSUME SwapInv, Commit
  PROVE  [Promise!Next]_(Promise!vars)
<1> DEFINE old == swap[tx.on]  row == tx.row
<1>1. /\ tx.at = "commit" /\ Busy /\ UNCHANGED <<terms, ledger>>
      /\ swap' = [swap EXCEPT ![tx.on] = tx.row]
  BY DEF Commit, Busy
<1>2. PICK s \in Request : s = tx.on
  BY TxType DEF SwapInv
<1>3. /\ RowFits(row) /\ row \in Row /\ row.status \in {"PROCESSING", "SUCCESS"}
      /\ old.status \in {"none", "PROCESSING"}
  <2>1. RowFits(row) /\ row.status # "none" /\ old.status # "SUCCESS"
    BY <1>1 DEF SwapInv, WorkFits
  <2>2. row \in Row /\ old \in Row
    BY <1>2, TxType, RowFacts DEF SwapInv
  <2> QED
    BY <2>1, <2>2, RowType
<1>4. \A u \in Request : swap'[u] = IF u = s THEN row ELSE swap[u]
  BY <1>1, <1>2 DEF SwapInv, TypeOK
<1>5. UNCHANGED Due
  BY <1>1, EntriesStay DEF Due
<1>6. SwapInv'
  BY CommitHolds
<1>7. CASE old.status = "none"
  <2>1. row.status = "PROCESSING"
    <3> SUFFICES ASSUME row.status = "SUCCESS" PROVE FALSE
      BY <1>3
    <3>1. s \notin torn
      BY <1>1, <1>2, <1>7 DEF SwapInv, TornGetsNowhere
    <3>2. 1 \in Leg /\ 4 \in Leg
      BY DEF Leg
    <3>3. row.leg[1] = "CLEAR" /\ row.tries[1] \in Attempt
      <4>1. row.tries[1] \in 0..Attempts /\ row.tries[4] \in 0..Attempts
        BY <1>3, <3>2, RowType
      <4>2. row.leg[4] = "CLEAR"
        BY <1>3 DEF RowFits
      <4>3. row.tries[4] > 0
        BY <3>2, <4>1, <4>2, <1>3, SwapAssumption DEF RowFits
      <4>4. row.leg[1] = "CLEAR"
        BY <1>3, <3>2, <4>3 DEF RowFits
      <4>5. row.tries[1] # 0
        BY <1>3, <3>2, <4>4 DEF RowFits
      <4> QED
        BY <4>1, <4>4, <4>5, SwapAssumption DEF Attempt
    <3>4. 1 \in Entries(s, 1) /\ 1 \in 1..2
      BY <3>2, EntriesType
    <3>5. ledger[s][1][row.tries[1]][1] = "posted"
      <4>1. Expected(row, 1, row.tries[1]) = "posted"
        BY <1>3, <3>2, <3>3, ExpectedIs
      <4> QED
        BY <1>1, <1>2, <3>1, <3>2, <3>3, <3>4, <4>1 DEF SwapInv, WorkIsClean
    <3>6. swap[s].status # "none"
      BY <3>2, <3>3, <3>4, <3>5, PostedIsLast DEF Posted
    <3> QED
      BY <1>2, <1>7, <3>6
  <2>2. Sold' = Sold \union {s} /\ Settled' = Settled
    BY <1>2, <1>4, <1>7, <2>1 DEF Sold, Settled
  <2>3. \A u \in Sold : QuoteOf[u] # QuoteOf[s]
    <3>1. quote[QuoteOf[s]] = "ACTIVE"
      BY <1>1, <1>2, <1>7 DEF SwapInv, QuotesFit
    <3> QED
      BY <3>1 DEF SwapInv, QuotesFit, Sold
  <2>4. Promise!Sell(s)
    BY <1>1, <1>5, <2>2, <2>3 DEF Promise!Sell
  <2> QED
    BY <2>4 DEF Promise!Next
<1>8. CASE old.status = "PROCESSING" /\ row.status = "PROCESSING"
  <2>1. Sold' = Sold /\ Settled' = Settled
    BY <1>2, <1>4, <1>8 DEF Sold, Settled
  <2> QED
    BY <1>1, <1>5, <2>1 DEF Promise!vars
<1>9. CASE old.status = "PROCESSING" /\ row.status = "SUCCESS"
  <2>1. Sold' = Sold /\ Settled' = Settled \union {s} /\ s \in Sold \ Settled
    BY <1>2, <1>4, <1>9 DEF Sold, Settled
  <2>2. swap'[s].status = "SUCCESS" /\ swap'[s] = row
    BY <1>4, <1>9
  <2>3. \A l \in Leg : /\ row.leg[l] = "CLEAR"
                        /\ \A a \in Attempt, k \in Entries(s, l) :
                             ledger[s][l][a][k] = Expected(row, l, a)
    <3>1. SwapSettled'
      BY <1>6, SettledFits, PTL
    <3> QED
      BY <1>1, <2>2, <3>1, EntriesStay DEF SwapSettled, Expected
  <2>4. ASSUME NEW l \in Leg
        PROVE  /\ \A k \in Due[s][l] : Promise!Charged(s, l, k)
               /\ \A a \in Attempt, k \in 1..2 : ledger[s][l][a][k] # "pending"
    <3>1. row.tries[l] \in Attempt
      <4>1. row.tries[l] \in 0..Attempts /\ row.tries[l] # 0
        BY <1>3, <2>3, RowType DEF RowFits
      <4> QED
        BY <4>1, SwapAssumption DEF Attempt
    <3>2. \A k \in Entries(s, l) : ledger[s][l][row.tries[l]][k] = "posted"
      BY <1>3, <2>3, <3>1, ExpectedIs
    <3>3. \A a \in Attempt : Expected(row, l, a) # "pending"
      BY <1>3, <2>3, <3>1, ExpectedIs, SwapAssumption DEF Attempt
    <3>4. \A a \in Attempt, k \in 1..2 : k \notin Entries(s, l) => ledger[s][l][a][k] = "none"
      BY DEF SwapInv, LedgerFits, CellFits
    <3>5. Due[s][l] = Entries(s, l)
      BY DEF Due
    <3> QED
      BY <2>3, <3>1, <3>2, <3>3, <3>4, <3>5 DEF Promise!Charged
  <2>5. Promise!Settle(s)
    BY <1>1, <1>5, <2>1, <2>4 DEF Promise!Settle
  <2> QED
    BY <2>5 DEF Promise!Next
<1> QED
  BY <1>3, <1>7, <1>8, <1>9

\* Every step is one of the promise, or shows nothing.
LEMMA PromiseStep == SwapInv /\ [Next]_vars => [Promise!Next]_(Promise!vars)
<1> SUFFICES ASSUME SwapInv, [Next]_vars PROVE [Promise!Next]_(Promise!vars)
  OBVIOUS
<1>1. ASSUME UNCHANGED <<terms, swap, ledger>> PROVE UNCHANGED Promise!vars
  BY <1>1, SameRowsShown DEF Promise!vars
<1>2. CASE Hold
  BY <1>2, HoldPromised
<1>3. CASE Post \/ Void
  BY <1>3, ResolvePromised
<1>4. CASE Commit
  BY <1>4, CommitPromised
<1>5. ASSUME NEW s \in Request, Execute(s) PROVE UNCHANGED Promise!vars
  BY <1>1, <1>5 DEF Execute, Begin
<1>6. ASSUME NEW s \in Request, NEW l \in Leg, Resume(s, l) PROVE UNCHANGED Promise!vars
  BY <1>1, <1>6 DEF Resume, Begin
<1>7. ASSUME NEW s \in Request, NEW l \in Leg, NEW act \in FundAction, Advance(s, l, act)
      PROVE  UNCHANGED Promise!vars
  BY <1>1, <1>7 DEF Advance, Begin
<1>8. CASE LegPosted \/ LegVoided \/ LegHeld \/ Fails
  BY <1>1, <1>8 DEF LegPosted, LegVoided, LegHeld, Fails
<1>9. ASSUME NEW q \in Quote, CancelRead(q) \/ CancelWrite(q) PROVE UNCHANGED Promise!vars
  BY <1>1, <1>9 DEF CancelRead, CancelWrite
<1>10. CASE UNCHANGED vars
  BY <1>1, <1>10 DEF vars
<1> QED
  BY <1>2, <1>3, <1>4, <1>5, <1>6, <1>7, <1>8, <1>9, <1>10 DEF Next, LegStep

\* The ledger moves as a swap promises, a transfer at a time and never back, whatever
\* rows are rolled back, and the row says SUCCESS when all of it is done.
THEOREM SwapKeepsPromise == Spec => KeepsPromise
<1>1. Init => Promise!Init
  <2> SUFFICES ASSUME Init PROVE Promise!Init
    OBVIOUS
  <2>1. Due \in [Request -> [Leg -> SUBSET (1..2)]]
    BY EntriesType DEF Due
  <2>2. Sold = {} /\ Settled = {}
    BY DEF Init, NoRow, Sold, Settled
  <2> QED
    BY <2>1, <2>2 DEF Init, Untouched, Promise!Init
<1>2. SwapInv /\ [Next]_vars => [Promise!Next]_(Promise!vars)
  BY PromiseStep
<1> QED
  BY <1>1, <1>2, SwapInvariant, PTL DEF Spec, KeepsPromise, Promise!Spec
=============================================================================
