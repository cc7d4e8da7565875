---------------------------- MODULE DepositProofs ----------------------------
(***************************************************************************)
(* DepositSaga for every set of payins and signals, every number of calls  *)
(* and every bound: DepositInv is inductive, and the safety properties     *)
(* follow from it.  What makes it inductive is what a call remembers: the  *)
(* status it has read is the past by the time it writes, but the ledger    *)
(* and what is known of the deposit only grow (Later).                     *)
(***************************************************************************)
EXTENDS DepositSaga, TLAPS

Funded(p) == Booked(p) \/ "confirmedByHand" \in past[p]

UnderReview == DepositStatus \ {"PAYIN_PENDING", "FAILED"}
Updating == {"depositRead", "depositWrite"}

\* The rows of a deposit, its payin and its ledger fit together.
MoneyFits(p) ==
  /\ Status(p) \in UnderReview => Funded(p)
  /\ Status(p) # "none" => payin[p] # "none"
  /\ Booked(p) \/ Credited(p) => Status(p) # "none"
  /\ Credited(p) => Funded(p)
  /\ Status(p) = "SUCCESS" => Credited(p)
  /\ payin[p] = "CLEARED" => Funded(p) \/ "clearedByHand" \in past[p]

\* The verdicts and the travel-rule flag fit what has happened.
VerdictsFit(p) ==
  /\ deposit[p].kyt = "PASSED" => "kytPassed" \in past[p]
  /\ deposit[p].tr = "PASSED" => "trPassed" \in past[p]
  /\ "kytPassed" \in past[p] => past[p] \intersect {"gatesSet", "early"} # {}
  /\ "gatesSet" \in past[p] /\ ChannelOf(p) = "CRYPTO" => deposit[p].tr # "NOT_REQUIRED"
  /\ Credited(p) => "approvedByHand" \in past[p] \/ Vetted(p)

\* A call that has come to `at` has done what lies before it.
CallFits(c) ==
  LET at == call[c].at  act == call[c].act  p == On(c) IN
  /\ at \in {"detected", "payinWrite", "clearWrite"} => payin[p] # "none"
  /\ at \in {"book", "credit", "depositWrite"} => Status(p) # "none"
  /\ at \in {"credit", "clearRead", "clearWrite"} => Funded(p)
  /\ at \in {"payinRead", "payinWrite"} /\ act = "CLEAR" /\ call[c].by # "rail" => Funded(p)
  /\ at \in Updating /\ act = "PAYIN_CONFIRMED" /\ call[c].by # "desk" => Booked(p)
  /\ at \in Updating /\ act = "APPROVE" => Credited(p)
  /\ at = "depositWrite" /\ call[c].saw \in UnderReview => Funded(p)
  /\ at \in {"ownerCheck", "approve", "credit"} /\ call[c].by # "desk" => Vetted(p)

\* What an approval has checked still holds, or an update has crossed it.
ApprovalFits(c) ==
  ApprovingOn(On(c), c) =>
    Status(On(c)) \in Approvable \union {"SUCCESS"} \/ "crossed" \in past[On(c)]

OnePayinPerHash ==
  \A p, q \in Payin :
    SignalOf[p] = SignalOf[q] /\ ChannelOf(p) = "CRYPTO"
      /\ payin[p] # "none" /\ payin[q] # "none" => p = q

DepositInv ==
  /\ TypeOK
  /\ OnePayinPerHash
  /\ \A p \in Payin : MoneyFits(p) /\ VerdictsFit(p)
  /\ \A c \in Call : CallFits(c) /\ ApprovalFits(c)
  /\ CreditIsTold
  /\ BookedIsConfirmed

-----------------------------------------------------------------------------
\* The tables, and the rows.

LEMMA DepositTable ==
  ASSUME NEW t \in DepositTransitions
  PROVE  /\ t[1] \in DepositStatus /\ t[2] \in DepositAction
         /\ t[3] \in DepositStatus /\ t[3] # "PAYIN_PENDING"
         /\ t[1] = "PAYIN_PENDING" \/ t[1] \in UnderReview
         /\ t[1] # "SUCCESS"
         /\ t[3] = "SUCCESS" <=> t[2] = "APPROVE"
         /\ t[2] = "PAYIN_CONFIRMED" <=> t[1] = "PAYIN_PENDING" /\ t[3] = "COMPLIANCE_PENDING"
         /\ t[1] = "PAYIN_PENDING" /\ t[3] \in UnderReview => t[2] = "PAYIN_CONFIRMED"
BY DEF DepositTransitions, DepositStatus, DepositAction, UnderReview, Approvable

LEMMA ApprovalTable ==
  ASSUME NEW s \in Approvable
  PROVE  <<s, "APPROVE", "SUCCESS">> \in DepositTransitions
BY DEF Approvable, DepositTransitions

LEMMA PayinTable ==
  ASSUME NEW ch \in Channel, NEW t \in PayinTransitions(ch)
  PROVE  /\ t[1] \in PayinStatus /\ t[3] \in PayinStatus
         /\ t[3] = "CLEARED" => t[2] = "CLEAR"
BY DEF PayinTransitions, CryptoPayinTransitions, FiatPayinTransitions, PayinStatus, Channel

\* The places at which a call has nothing to remember.
Quiet == Place \ (Updating \union {"detected", "book", "credit", "approve", "ownerCheck",
                    "payinRead", "payinWrite", "clearRead", "clearWrite"})

LEMMA RowsTyped ==
  ASSUME TypeOK, NEW c \in Call
  PROVE  /\ call[c] \in CallRow /\ On(c) \in Payin
         /\ Idle \in CallRow /\ Idle.at = "idle"
         /\ Resumed(c) \in CallRow /\ Resumed(c).at \in Quiet
         /\ Thrown(c) \in CallRow /\ Thrown(c).at \in Quiet
         /\ "idle" \in Quiet
<1>1. call[c] \in CallRow BY DEF TypeOK
<1>2. Idle \in CallRow /\ Idle.at = "idle"
  BY DepositAssumption DEF Idle, CallRow, Place
<1>3. Resumed(c) \in CallRow /\ Resumed(c).at \in Quiet
  <2>1. CASE call[c].back = "idle"
    BY <2>1, <1>2 DEF Resumed, Quiet, Place, Updating
  <2>2. CASE call[c].back # "idle"
    BY <2>2, <1>1 DEF Resumed, Quiet, CallRow, Place, Updating, Handling, Screening,
       Approving, Scanning
  <2> QED BY <2>1, <2>2
<1>4. /\ [call[c] EXCEPT !.at = "giveUp", !.act = "-", !.saw = "none"] \in CallRow
      /\ [call[c] EXCEPT !.at = "giveUp", !.act = "-", !.saw = "none"].at = "giveUp"
      /\ {"giveUp", "idle"} \subseteq Quiet
  BY <1>1 DEF CallRow, Place, Scanning, Quiet, Updating
<1>5. Thrown(c) \in {Resumed(c), Idle,
                     [call[c] EXCEPT !.at = "giveUp", !.act = "-", !.saw = "none"]}
  BY Zenon DEF Thrown
<1>6. On(c) \in Payin BY <1>1 DEF On, CallRow
<1> QED BY <1>1, <1>2, <1>3, <1>4, <1>5, <1>6

LEMMA Placed ==
  ASSUME TypeOK, NEW c \in Call, NEW row \in CallRow, Put(c, row)
  PROVE  /\ call' \in [Call -> CallRow] /\ call'[c] = row
         /\ \A d \in Call \ {c} : call'[d] = call[d]
BY DEF TypeOK, Put

LEMMA StatusTyped ==
  ASSUME TypeOK, NEW p \in Payin
  PROVE  /\ deposit[p] \in DepositRow /\ Status(p) \in DepositStatus \union {"none"}
         /\ payin[p] \in PayinStatus \union {"none"}
         /\ ChannelOf(p) \in Channel
         /\ ledger[p] \in SUBSET {"STEP_1", "STEP_2"} /\ past[p] \in SUBSET Fact
BY DepositAssumption DEF TypeOK, DepositRow, Status, ChannelOf

-----------------------------------------------------------------------------
\* Types: first the rows of `call` that the actions put, then the other rows.

CallsTyped == call' \in [Call -> CallRow]

LEMMA Written ==
  ASSUME TypeOK, NEW c \in Call, call[c].at = "depositWrite",
         NEW t \in NextDeposit(c, call[c].saw), WriteDeposit(c),
         IF t[3] = "COMPLIANCE_PENDING"
         THEN \E d \in Call \ {c} :
                /\ ~Busy(d)
                /\ call' = [call EXCEPT ![c] = Updated(c),
                     ![d] = [Idle EXCEPT !.at = "gate0", !.on = On(c), !.by = "gate"]]
         ELSE Put(c, Updated(c))
  PROVE  /\ CallsTyped
         /\ call'[c] = Updated(c)
         /\ \A d \in Call \ {c} :
              call'[d] = call[d] \/ (~Busy(d) /\ call'[d].at = "gate0" /\ On(d)' = On(c))
<1>1. Updated(c) \in CallRow
  <2>1. [call[c] EXCEPT !.at = "clearRead", !.act = "CLEAR", !.saw = "none"] \in CallRow
    BY RowsTyped DEF CallRow, Place, Handling, PayinAction
  <2> QED BY <2>1, RowsTyped, Zenon DEF Updated
<1>2. [Idle EXCEPT !.at = "gate0", !.on = On(c), !.by = "gate"] \in CallRow
  BY RowsTyped DEF CallRow, Place
<1>3. [Idle EXCEPT !.at = "gate0", !.on = On(c), !.by = "gate"].at = "gate0"
      /\ [Idle EXCEPT !.at = "gate0", !.on = On(c), !.by = "gate"].on = On(c)
  BY RowsTyped DEF CallRow
<1>4. CASE t[3] # "COMPLIANCE_PENDING"
  BY <1>4, <1>1, Placed DEF CallsTyped
<1>5. CASE t[3] = "COMPLIANCE_PENDING"
  <2>1. PICK d \in Call \ {c} :
          /\ ~Busy(d)
          /\ call' = [call EXCEPT ![c] = Updated(c),
               ![d] = [Idle EXCEPT !.at = "gate0", !.on = On(c), !.by = "gate"]]
    BY <1>5
  <2> DEFINE gate == [Idle EXCEPT !.at = "gate0", !.on = On(c), !.by = "gate"]
  <2>2. gate \in CallRow /\ gate.at = "gate0" /\ gate.on = On(c) BY <1>2, <1>3
  <2>3. call' = [call EXCEPT ![c] = Updated(c), ![d] = gate] BY <2>1
  <2> HIDE DEF gate
  <2>4. call \in [Call -> CallRow] BY DEF TypeOK
  <2>5. call' \in [Call -> CallRow] /\ call'[c] = Updated(c) /\ call'[d] = gate
        /\ \A e \in Call \ {c, d} : call'[e] = call[e]
    BY <2>2, <2>3, <2>4, <1>1
  <2> QED BY <2>5, <2>1, <2>2 DEF On, CallsTyped
<1> QED BY <1>4, <1>5

LEMMA ScanTyped ==
  ASSUME TypeOK, NEW c \in Call, ScanStep(c)
  PROVE  TypeOK'
<1> USE RowsTyped
<1>1. ASSUME NEW status \in SignalStatus, SetSignal(c, status)
      PROVE  signal' \in [Signal -> SignalStatus]
  BY <1>1 DEF TypeOK, SetSignal
<1>2. {"IGNORED", "FAILED", "PAYIN_CREATED"} \subseteq SignalStatus BY DEF SignalStatus
<1>3. \A place \in Place : [call[c] EXCEPT !.at = place] \in CallRow BY DEF CallRow
<1> call[c] \in CallRow BY RowsTyped
<1>0. \A p \in Payin : payin[p] \in DepositStatus \union PayinStatus \union {"none"}
  BY StatusTyped
<1>4. [call[c] EXCEPT !.at = "link", !.saw = payin[On(c)]] \in CallRow
  BY <1>0 DEF CallRow, Place, Scanning
<1>5. \A act \in PayinAction, back \in {"confirming", "clearing", "link"} :
        [call[c] EXCEPT !.at = "payinRead", !.act = act, !.back = back] \in CallRow
  BY DEF CallRow, Place
<1>6. MarkIgnored(c) => TypeOK'
  BY <1>1, <1>2, Placed DEF MarkIgnored, TypeOK, counters
<1>7. MarkFailed(c) => TypeOK'
  BY <1>1, <1>2, Placed DEF MarkFailed, TypeOK, counters
<1>8. LinkSignal(c) => TypeOK'
  BY <1>1, <1>2, Placed DEF LinkSignal, Throw, TypeOK, counters
<1>9. ASSUME CallsTyped, UNCHANGED <<rows, channel, owner, counters>>
      PROVE  TypeOK'
  BY <1>9 DEF TypeOK, rows, counters, CallsTyped
<1>10. FindPayin(c) => CallsTyped
  <2>1. \A p \in Payin, mode \in AfterPayin :
          [call[c] EXCEPT !.at = mode, !.on = p, !.saw = payin[p]] \in CallRow
    <3>1. AfterPayin \subseteq Place BY DEF AfterPayin, Place, Scanning
    <3>2. ASSUME NEW place \in Place, NEW p \in Payin,
                 NEW saw \in DepositStatus \union PayinStatus \union {"none"}
          PROVE  [call[c] EXCEPT !.at = place, !.on = p, !.saw = saw] \in CallRow
      BY DEF CallRow
    <3> QED BY <1>0, <3>1, <3>2
  <2> QED BY <2>1, <1>3, Placed DEF FindPayin, Go, Created, CallsTyped, Place, Scanning
<1>11. AdvancePayin(c) => CallsTyped
  <2>1. {"BLOCK", "CONFIRM"} \subseteq PayinAction /\ "clearing" \in Place
    BY DEF PayinAction, Place, Scanning
  <2>2. AdvancePayin(c) =>
          \/ \E act \in {"BLOCK", "CONFIRM"}, back \in {"confirming", "clearing"} : Push(c, act, back)
          \/ Go(c, "clearing") \/ Link(c)
    BY Zenon DEF AdvancePayin
  <2> QED BY <2>1, <2>2, <1>3, <1>4, <1>5, Placed DEF Push, Go, Link, CallsTyped
<1>12. ClearIfUnderReview(c) => CallsTyped
  BY <1>4, <1>5, Placed DEF ClearIfUnderReview, Push, Link, CallsTyped, PayinAction
<1>13. CreatePayin(c) => TypeOK'
  <2>1. \A p \in Payin, mode \in AfterPayin :
          [call[c] EXCEPT !.at = "detected", !.on = p, !.back = mode] \in CallRow
    BY DEF CallRow, Place, Handling, AfterPayin
  <2>2. \A s : NewName(s) \subseteq Payin BY DEF NewName
  <2>3. CreatePayin(c) => CallsTyped
    BY <2>1, <2>2, Placed DEF CreatePayin, Throw, CallsTyped
  <2>4. CreatePayin(c) => payin' \in [Payin -> PayinStatus \union {"none"}]
    BY <2>2 DEF CreatePayin, TypeOK, PayinStatus
  <2>5. CreatePayin(c) => UNCHANGED <<channel, signal, owner, deposit, ledger, past, counters>>
    BY DEF CreatePayin
  <2> QED BY <2>3, <2>4, <2>5 DEF TypeOK, CallsTyped, counters
<1>14. FindPayin(c) \/ AdvancePayin(c) \/ ClearIfUnderReview(c)
         => UNCHANGED <<rows, channel, owner, counters>>
  BY DEF FindPayin, AdvancePayin, ClearIfUnderReview
<1> QED
  BY <1>6, <1>7, <1>8, <1>9, <1>10, <1>11, <1>12, <1>13, <1>14 DEF ScanStep

LEMMA PayinTyped ==
  ASSUME TypeOK, NEW c \in Call, PayinStep(c)
  PROVE  TypeOK'
<1> call[c] \in CallRow BY RowsTyped
<1> USE RowsTyped
<1>1. \A place \in Place : [call[c] EXCEPT !.at = place] \in CallRow BY DEF CallRow
<1>2. \A act \in DepositAction : [call[c] EXCEPT !.at = "depositRead", !.act = act] \in CallRow
  BY DEF CallRow, Place
<1>3. payin[On(c)] \in DepositStatus \union PayinStatus \union {"none"} BY StatusTyped
<1>4. ReadPayin(c) => CallsTyped
  <2>1. \A place \in {"payinWrite", "clearWrite"} :
          [call[c] EXCEPT !.saw = payin[On(c)], !.at = place] \in CallRow
    BY <1>3 DEF CallRow, Place, Handling
  <2>2. ReadPayin(c) => \/ Throw(c)
                        \/ \E place \in {"payinWrite", "clearWrite"} :
                             Put(c, [call[c] EXCEPT !.saw = payin[On(c)], !.at = place])
    BY Zenon DEF ReadPayin
  <2> QED BY <2>1, <2>2, Placed DEF Throw, CallsTyped
<1>5. OnFailed(c) => CallsTyped
  BY <1>2, Placed DEF OnFailed, Update, CallsTyped, DepositAction
<1>6. OnConfirmed(c) => CallsTyped
  BY <1>1, Placed DEF OnConfirmed, Go, CallsTyped, Place, Handling
<1>7. WritePayin(c) => TypeOK'
  <2>1. SUFFICES ASSUME WritePayin(c) PROVE TypeOK'
    OBVIOUS
  <2>2. PICK t \in NextPayin(c, call[c].saw) :
          /\ payin' = [payin EXCEPT ![On(c)] = t[3]]
          /\ IF Handler(t[3]) = "none" THEN Put(c, Resumed(c)) ELSE Go(c, Handler(t[3]))
    BY <2>1 DEF WritePayin
  <2>3. t[3] \in PayinStatus BY StatusTyped, PayinTable DEF NextPayin
  <2>4. Handler(t[3]) \in {"none", "detected", "failed", "confirmed"} BY Zenon DEF Handler
  <2>5. CallsTyped
    BY <2>2, <2>4, <1>1, Placed DEF Go, CallsTyped, Place, Handling
  <2>6. payin' \in [Payin -> PayinStatus \union {"none"}] BY <2>2, <2>3 DEF TypeOK
  <2>7. past' \in [Payin -> SUBSET Fact]
    BY <2>1, StatusTyped DEF WritePayin, Record, TypeOK, Fact
  <2> QED BY <2>1, <2>5, <2>6, <2>7 DEF WritePayin, TypeOK, CallsTyped, counters
<1>8. OnDetected(c) => TypeOK'
  <2>1. [deposit[On(c)] EXCEPT !.status = "PAYIN_PENDING"] \in DepositRow
    BY StatusTyped DEF DepositRow, DepositStatus
  <2> QED BY <2>1, Placed DEF OnDetected, TypeOK, counters
<1>9. Book(c) => TypeOK'
  BY <1>2, StatusTyped, Placed DEF Book, Transfer, Update, TypeOK, counters, DepositAction
<1>10. ASSUME CallsTyped, UNCHANGED <<rows, channel, owner, counters>>
       PROVE  TypeOK'
  BY <1>10 DEF TypeOK, rows, counters, CallsTyped
<1> QED
  BY <1>4, <1>5, <1>6, <1>7, <1>8, <1>9, <1>10
  DEF PayinStep, ReadPayin, OnFailed, OnConfirmed

LEMMA DepositTyped ==
  ASSUME TypeOK, NEW c \in Call, DepositStep(c)
  PROVE  TypeOK'
<1> call[c] \in CallRow BY RowsTyped
<1> USE RowsTyped
<1>1. \A place \in Place : [call[c] EXCEPT !.at = place] \in CallRow BY DEF CallRow
<1>2. \A act \in DepositAction : [call[c] EXCEPT !.at = "depositRead", !.act = act] \in CallRow
  BY DEF CallRow, Place
<1>3. {"initialize", "ownerCheck", "approve", "credit"} \subseteq Place
      /\ {"FREEZE", "APPROVE"} \subseteq DepositAction
  BY DEF Place, Screening, Approving, DepositAction
<1>4. ReadDeposit(c) => CallsTyped
  <2>1. Status(On(c)) \in DepositStatus \union PayinStatus \union {"none"} BY StatusTyped
  <2>2. [call[c] EXCEPT !.at = "depositWrite", !.saw = Status(On(c))] \in CallRow
    BY <2>1 DEF CallRow, Place
  <2> QED BY <2>2, Placed DEF ReadDeposit, Throw, CallsTyped
<1>5. Gate0(c) \/ CheckVerdicts(c) \/ CheckOwner(c) \/ ApproveLook(c) => CallsTyped
  BY <1>1, <1>2, <1>3, Placed
  DEF Gate0, CheckVerdicts, CheckOwner, ApproveLook, Go, Update, CallsTyped
<1>6. ASSUME CallsTyped, UNCHANGED <<rows, channel, owner, counters>>
      PROVE  TypeOK'
  BY <1>6 DEF TypeOK, rows, counters, CallsTyped
<1>7. WriteDeposit(c) => TypeOK'
  <2>1. SUFFICES ASSUME WriteDeposit(c) PROVE TypeOK'
    OBVIOUS
  <2>2. PICK t \in NextDeposit(c, call[c].saw) :
          /\ deposit' = [deposit EXCEPT ![On(c)].status = t[3]]
          /\ IF t[3] = "COMPLIANCE_PENDING"
             THEN \E d \in Call \ {c} :
                    /\ ~Busy(d)
                    /\ call' = [call EXCEPT ![c] = Updated(c),
                         ![d] = [Idle EXCEPT !.at = "gate0", !.on = On(c), !.by = "gate"]]
             ELSE Put(c, Updated(c))
    BY <2>1 DEF WriteDeposit
  <2>3. CallsTyped BY <2>1, <2>2, Written DEF WriteDeposit
  <2>4. t[3] \in DepositStatus BY DepositTable DEF NextDeposit
  <2>5. [deposit[On(c)] EXCEPT !.status = t[3]] \in DepositRow
    BY <2>4, StatusTyped DEF DepositRow
  <2>6. deposit' \in [Payin -> DepositRow] BY <2>2, <2>5 DEF TypeOK
  <2>7. past' \in [Payin -> SUBSET Fact]
    BY <2>1, StatusTyped DEF WriteDeposit, Record, TypeOK, Fact
  <2> QED BY <2>1, <2>3, <2>6, <2>7 DEF WriteDeposit, TypeOK, CallsTyped, counters
<1>8. InitializeGates(c) => TypeOK'
  <2>1. \A tr \in Verdict : [deposit[On(c)] EXCEPT !.tr = tr] \in DepositRow
    BY StatusTyped DEF DepositRow
  <2>2. {"PENDING", "NOT_REQUIRED"} \subseteq Verdict BY DEF Verdict
  <2>3. InitializeGates(c) => deposit' \in [Payin -> DepositRow]
    BY <2>1, <2>2 DEF InitializeGates, TypeOK
  <2>4. InitializeGates(c) => past' \in [Payin -> SUBSET Fact]
    BY StatusTyped DEF InitializeGates, Record, TypeOK, Fact
  <2> QED BY <2>3, <2>4, Placed DEF InitializeGates, TypeOK, counters
<1>9. Credit(c) => TypeOK'
  <2>1. Credit(c) => past' \in [Payin -> SUBSET Fact]
    BY StatusTyped DEF Credit, Record, TypeOK, Fact
  <2>2. Credit(c) => CallsTyped
    BY <1>2, <1>3, Placed DEF Credit, Update, CallsTyped
  <2>3. Credit(c) => ledger' \in [Payin -> SUBSET {"STEP_1", "STEP_2"}]
    BY StatusTyped DEF Credit, Transfer, TypeOK
  <2> QED BY <2>1, <2>2, <2>3 DEF Credit, TypeOK, counters, CallsTyped
<1> QED
  BY <1>4, <1>5, <1>6, <1>7, <1>8, <1>9
  DEF DepositStep, ReadDeposit, Gate0, CheckVerdicts, CheckOwner, ApproveLook

\* The rows with which a call begins.
LEMMA BegunTyped ==
  ASSUME NEW p \in Payin,
         NEW by \in {"scan", "rail", "gate", "verdict", "desk"}, NEW place \in Place,
         NEW act \in DepositAction \union PayinAction \union {"-"}
  PROVE  /\ [Idle EXCEPT !.at = place, !.on = p, !.by = by, !.act = act] \in CallRow
         /\ [Idle EXCEPT !.at = place, !.on = p, !.by = by] \in CallRow
         /\ [Idle EXCEPT !.at = place, !.by = by, !.on = p] \in CallRow
         /\ [Idle EXCEPT !.at = place, !.on = p, !.act = act] \in CallRow
<1>1. Idle \in CallRow BY DepositAssumption DEF Idle, CallRow, Place
<1> QED BY <1>1 DEF CallRow

LEMMA OutsideTyped ==
  ASSUME TypeOK, NEW c \in Call,
         \/ \E s \in Signal : Scan(c, s)
         \/ \E p \in Payin : Outside(c, p)
  PROVE  TypeOK'
<1>1. ASSUME NEW row \in CallRow, Begin(c, row)
      PROVE  CallsTyped /\ events' \in Nat
  BY <1>1, Placed DEF Begin, Event, CallsTyped, TypeOK
<1>2. ASSUME NEW s \in Signal, Scan(c, s) PROVE TypeOK'
  <2>1. (CHOOSE p \in Payin : SignalOf[p] = s) \in Payin BY DepositAssumption
  <2>2. \A place \in {"find", "ignore"} :
          [Idle EXCEPT !.at = place, !.by = "scan",
            !.on = CHOOSE p \in Payin : SignalOf[p] = s] \in CallRow
    BY <2>1, BegunTyped DEF Place, Scanning
  <2>3. CallsTyped /\ events' \in Nat BY <1>1, <1>2, <2>2 DEF Scan
  <2> QED BY <1>2, <2>3 DEF Scan, TypeOK, rows, CallsTyped
<1>3. ASSUME NEW p \in Payin, NEW act \in RailAction, Rail(c, p, act) PROVE TypeOK'
  <2>1. [Idle EXCEPT !.at = "payinRead", !.on = p, !.act = act] \in CallRow
    BY DepositAssumption, BegunTyped DEF Place
  <2>2. CallsTyped /\ events' \in Nat BY <1>1, <1>3, <2>1 DEF Rail
  <2> QED BY <1>3, <2>2 DEF Rail, TypeOK, rows, CallsTyped
<1>4. ASSUME NEW p \in Payin, NEW act \in DeskAction, Desk(c, p, act) PROVE TypeOK'
  <2>1. \A place \in {"approve", "depositRead"} :
          [Idle EXCEPT !.at = place, !.on = p, !.by = "desk", !.act = act] \in CallRow
    BY DepositAssumption, BegunTyped DEF Place, Approving
  <2>2. (IF act = "APPROVE" THEN "approve" ELSE "depositRead") \in {"approve", "depositRead"}
    OBVIOUS
  <2>3. CallsTyped /\ events' \in Nat BY <1>1, <1>4, <2>1, <2>2 DEF Desk
  <2> QED BY <1>4, <2>3 DEF Desk, TypeOK, rows, CallsTyped
<1>5. ASSUME NEW p \in Payin, NEW result \in {"PASSED", "FAILED"},
             ApplyKyt(c, p, result) \/ ApplyTr(c, p, result)
      PROVE  TypeOK'
  <2>1. [Idle EXCEPT !.at = "check", !.on = p, !.by = "verdict"] \in CallRow
    BY BegunTyped DEF Place, Screening
  <2>2. CallsTyped /\ events' \in Nat
    BY <1>1, <1>5, <2>1 DEF ApplyKyt, ApplyTr, Screened
  <2>3. [deposit[p] EXCEPT !.kyt = result] \in DepositRow
        /\ [deposit[p] EXCEPT !.tr = result] \in DepositRow
    BY StatusTyped DEF DepositRow, Verdict
  <2>4. deposit' \in [Payin -> DepositRow] BY <1>5, <2>3 DEF ApplyKyt, ApplyTr, TypeOK
  <2>5. past' \in [Payin -> SUBSET Fact]
    BY <1>5, StatusTyped DEF ApplyKyt, ApplyTr, Record, TypeOK, Fact
  <2> QED BY <1>5, <2>2, <2>4, <2>5 DEF ApplyKyt, ApplyTr, TypeOK, CallsTyped
<1> QED BY <1>2, <1>3, <1>4, <1>5 DEF Outside

LEMMA FaultTyped ==
  ASSUME TypeOK, OwnerChanges \/ Crash \/ \E c \in Call : Fails(c)
  PROVE  TypeOK'
<1>1. OwnerChanges => TypeOK' BY DEF OwnerChanges, Event, TypeOK, rows
<1>2. Idle \in CallRow BY DepositAssumption DEF Idle, CallRow, Place
<1>3. Crash => TypeOK' BY <1>2 DEF Crash, Fault, Event, TypeOK, rows
<1>4. ASSUME NEW c \in Call, Fails(c) PROVE TypeOK'
  BY <1>4, RowsTyped, Placed DEF Fails, Fault, Event, Throw, TypeOK, rows
<1> QED BY <1>1, <1>3, <1>4

\* Every variable of the deposit saga holds values of its kind.
THEOREM Typed == Spec => []TypeOK
<1>1. Init => TypeOK
  <2>1. Idle \in CallRow BY DepositAssumption DEF Idle, CallRow, Place
  <2> QED BY <2>1 DEF Init, TypeOK, SignalStatus, PayinStatus, DepositRow, NoDeposit, Verdict
<1>2. TypeOK /\ [Next]_vars => TypeOK'
  <2>1. TypeOK /\ UNCHANGED vars => TypeOK' BY DEF TypeOK, vars
  <2> QED BY <2>1, ScanTyped, PayinTyped, DepositTyped, OutsideTyped, FaultTyped DEF Next, Step
<1> QED BY <1>1, <1>2, PTL DEF Spec

-----------------------------------------------------------------------------
\* What is known only grows, and a call that does not move keeps what it needs.

Later ==
  /\ channel' = channel
  /\ \A p \in Payin :
       /\ ledger[p] \subseteq ledger'[p] /\ past[p] \subseteq past'[p]
       /\ payin[p] # "none" => payin'[p] # "none"
       /\ Status(p) # "none" => deposit'[p].status # "none"

LEMMA CallStays ==
  ASSUME TypeOK, Later, NEW c \in Call, CallFits(c), call'[c] = call[c]
  PROVE  CallFits(c)'
<1>1. On(c) \in Payin /\ On(c)' = On(c) BY RowsTyped DEF On
<1>2. Funded(On(c)) => Funded(On(c))' BY <1>1 DEF Later, Funded, Booked
<1>3. Booked(On(c)) => Booked(On(c))' BY <1>1 DEF Later, Booked
<1>4. Credited(On(c)) => Credited(On(c))' BY <1>1 DEF Later, Credited
<1>5. Vetted(On(c)) => Vetted(On(c))'
  <2>1. ChannelOf(On(c))' = ChannelOf(On(c)) BY <1>1 DEF Later, ChannelOf
  <2> QED BY <2>1, <1>1 DEF Later, Vetted
<1>6. /\ payin[On(c)] # "none" => (payin[On(c)])' # "none"
      /\ Status(On(c)) # "none" => Status(On(c))' # "none"
  BY <1>1 DEF Later, Status
<1> QED BY <1>1, <1>2, <1>3, <1>4, <1>5, <1>6 DEF CallFits

LEMMA ApprovalStays ==
  ASSUME TypeOK, Later, NEW c \in Call, ApprovalFits(c), call'[c] = call[c],
         Status(On(c))' = Status(On(c)) \/ Status(On(c))' = "SUCCESS"
  PROVE  ApprovalFits(c)'
<1>1. On(c) \in Payin /\ On(c)' = On(c) BY RowsTyped DEF On
<1>2. ApprovingOn(On(c), c)' => ApprovingOn(On(c), c) BY <1>1 DEF ApprovingOn
<1> QED BY <1>1, <1>2 DEF ApprovalFits, Later

LEMMA QuietFits ==
  ASSUME NEW c \in Call, call'[c].at \in Quiet
  PROVE  CallFits(c)' /\ ApprovalFits(c)'
BY DEF CallFits, ApprovalFits, ApprovingOn, Quiet, Updating

\* A step that changes no row of a deposit, and moves a call that was not updating.
Plain(c) ==
  /\ UNCHANGED <<channel, payin, deposit, ledger, past, faults>>
  /\ call[c].at \notin Updating
  /\ \A d \in Call \ {c} : call'[d] = call[d]

LEMMA PlainKeeps ==
  ASSUME DepositInv, TypeOK', NEW c \in Call, Plain(c), CallFits(c)', ApprovalFits(c)'
  PROVE  DepositInv'
<1> TypeOK BY DEF DepositInv
<1>1. Later BY DEF Plain, Later, Status
<1>2. OnePayinPerHash' BY DEF DepositInv, OnePayinPerHash, Plain, ChannelOf
<1>3. \A p \in Payin : MoneyFits(p)' /\ VerdictsFit(p)'
  <2> SUFFICES ASSUME NEW p \in Payin PROVE MoneyFits(p)' /\ VerdictsFit(p)'
    OBVIOUS
  <2>1. MoneyFits(p) /\ VerdictsFit(p) BY DEF DepositInv
  <2> QED BY <2>1 DEF Plain, MoneyFits, VerdictsFit, Funded, Vetted, Booked, Credited, Status,
      ChannelOf
<1>4. \A d \in Call \ {c} : Status(On(d))' = Status(On(d))
  BY DEF Plain, Status, On
<1>5. \A d \in Call : CallFits(d)' /\ ApprovalFits(d)'
  BY <1>1, <1>4, CallStays, ApprovalStays DEF Plain, DepositInv
<1>6. CreditIsTold'
  <2> SUFFICES ASSUME NEW p \in Payin, Credited(p)', faults' = 0, "crossed" \notin past'[p]
               PROVE  \/ Status(p)' = "SUCCESS"
                      \/ \E d \in Call : ApprovingOn(p, d)' /\ call'[d].at # "credit"
    BY DEF CreditIsTold
  <2>1. \/ Status(p) = "SUCCESS"
        \/ \E d \in Call : ApprovingOn(p, d) /\ call[d].at # "credit"
    BY DEF DepositInv, CreditIsTold, Plain, Credited
  <2>2. \A d \in Call : ApprovingOn(p, d) /\ call[d].at # "credit" => d # c
    BY DEF ApprovingOn, Plain, Updating
  <2> QED BY <2>1, <2>2 DEF Plain, Status, ApprovingOn
<1>7. BookedIsConfirmed'
  <2> SUFFICES ASSUME NEW p \in Payin, Booked(p)', Status(p)' = "PAYIN_PENDING", faults' = 0
               PROVE  \E d \in Call : /\ On(d)' = p /\ call'[d].act = "PAYIN_CONFIRMED"
                                      /\ call'[d].at \in {"depositRead", "depositWrite"}
    BY DEF BookedIsConfirmed
  <2>1. PICK d \in Call : /\ On(d) = p /\ call[d].act = "PAYIN_CONFIRMED"
                          /\ call[d].at \in {"depositRead", "depositWrite"}
    BY DEF DepositInv, BookedIsConfirmed, Plain, Booked, Status
  <2>2. d # c BY <2>1 DEF Plain, Updating
  <2> QED BY <2>1, <2>2 DEF Plain, On
<1> QED BY <1>2, <1>3, <1>5, <1>6, <1>7 DEF DepositInv

\* The scan, but for the payin it creates.
LEMMA ScanPlain ==
  ASSUME DepositInv, TypeOK', NEW c \in Call,
         \/ MarkIgnored(c) \/ MarkFailed(c) \/ FindPayin(c) \/ AdvancePayin(c)
         \/ ClearIfUnderReview(c) \/ LinkSignal(c)
  PROVE  DepositInv'
<1> TypeOK BY DEF DepositInv
<1>0. call \in [Call -> CallRow] /\ call[c] \in CallRow BY RowsTyped DEF TypeOK
<1>1. call[c].at \notin Updating
  BY DEF MarkIgnored, MarkFailed, FindPayin, AdvancePayin, ClearIfUnderReview, LinkSignal, Updating
<1>2. ASSUME NEW row, Put(c, row) PROVE \A d \in Call \ {c} : call'[d] = call[d]
  BY <1>2, <1>0 DEF Put
<1>3. Plain(c)
  BY <1>1, <1>2
  DEF Plain, MarkIgnored, MarkFailed, FindPayin, AdvancePayin, ClearIfUnderReview, LinkSignal,
      Throw, Go, Push, Link, rows, counters
<1>4. ASSUME NEW place \in Place, NEW p, NEW saw, Put(c, [call[c] EXCEPT !.at = place, !.on = p, !.saw = saw])
      PROVE  call'[c].at = place
  BY <1>4, <1>0 DEF Put, CallRow
<1>5. MarkIgnored(c) \/ MarkFailed(c) \/ LinkSignal(c) => call'[c].at \in Quiet
  BY RowsTyped, Placed DEF MarkIgnored, MarkFailed, LinkSignal, Throw
<1>6. \A place \in {"create", "link", "advance", "clearing"} : place \in Quiet /\ place \in Place
  BY DEF Quiet, Place, Scanning, Updating
<1>7. FindPayin(c) => call'[c].at \in Quiet
  <2>1. FindPayin(c) =>
          \/ Go(c, "create")
          \/ \E p \in Payin, mode \in AfterPayin :
               Put(c, [call[c] EXCEPT !.at = mode, !.on = p, !.saw = payin[p]])
    BY DEF FindPayin, Created
  <2>2. Go(c, "create") => call'[c].at \in Quiet
    BY <1>0, <1>6 DEF Go, Put, CallRow
  <2>3. ASSUME NEW p \in Payin, NEW mode \in AfterPayin,
               Put(c, [call[c] EXCEPT !.at = mode, !.on = p, !.saw = payin[p]])
        PROVE  call'[c].at \in Quiet
    BY <2>3, <1>4, <1>6 DEF AfterPayin
  <2> QED BY <2>1, <2>2, <2>3
<1>8. Link(c) \/ Go(c, "clearing") => call'[c].at \in Quiet
  BY <1>0, <1>6 DEF Link, Go, Put, CallRow
<1>9. ASSUME NEW act, NEW back, Push(c, act, back)
      PROVE  call'[c] = [call[c] EXCEPT !.at = "payinRead", !.act = act, !.back = back]
             /\ call'[c].at = "payinRead" /\ call'[c].act = act
             /\ call'[c].by = call[c].by /\ call'[c].on = call[c].on
  BY <1>9, <1>0 DEF Push, Put, CallRow
<1>10. ASSUME NEW act, NEW back, Push(c, act, back), act = "CLEAR" => Funded(On(c))
       PROVE  CallFits(c)' /\ ApprovalFits(c)'
  <2>1. Funded(On(c)) => Funded(On(c))'
    BY <1>3, <1>9, <1>10 DEF Funded, Booked, On, Plain
  <2> QED BY <1>9, <1>10, <2>1 DEF CallFits, ApprovalFits, ApprovingOn, Updating
<1>11. AdvancePayin(c) => CallFits(c)' /\ ApprovalFits(c)'
  <2>1. AdvancePayin(c) =>
          \/ \E act \in {"BLOCK", "CONFIRM"}, back \in {"confirming", "clearing"} : Push(c, act, back)
          \/ Go(c, "clearing") \/ Link(c)
    BY Zenon DEF AdvancePayin
  <2> QED BY <2>1, <1>8, <1>10, QuietFits
<1>12. ClearIfUnderReview(c) => CallFits(c)' /\ ApprovalFits(c)'
  <2>1. Status(On(c)) = "COMPLIANCE_PENDING" => Funded(On(c))
    BY RowsTyped DEF DepositInv, MoneyFits, UnderReview, DepositStatus
  <2> QED BY <2>1, <1>8, <1>10, QuietFits DEF ClearIfUnderReview
<1> QED BY <1>3, <1>5, <1>7, <1>11, <1>12, QuietFits, PlainKeeps

LEMMA Moved ==
  ASSUME TypeOK, NEW c \in Call
  PROVE  /\ \A place : Go(c, place) =>
              /\ call'[c].at = place /\ On(c)' = On(c)
              /\ call'[c].by = call[c].by /\ call'[c].act = call[c].act
         /\ \A act : Update(c, act) =>
              /\ call'[c].at = "depositRead" /\ On(c)' = On(c)
              /\ call'[c].by = call[c].by /\ call'[c].act = act
         /\ \A row \in CallRow : Put(c, row) => call'[c] = row
         /\ \A row : Put(c, row) => \A d \in Call \ {c} : call'[d] = call[d]
<1>1. call \in [Call -> CallRow] /\ call[c] \in CallRow BY RowsTyped DEF TypeOK
<1> QED BY <1>1 DEF Go, Update, Put, On, CallRow

\* The calls that only look, and decide where to go on.
LEMMA LookPlain ==
  ASSUME DepositInv, TypeOK', NEW c \in Call,
         \/ ReadPayin(c) \/ OnFailed(c) \/ OnConfirmed(c) \/ Gate0(c)
         \/ CheckVerdicts(c) \/ CheckOwner(c) \/ ApproveLook(c)
  PROVE  DepositInv'
<1> TypeOK BY DEF DepositInv
<1>0. call[c] \in CallRow /\ On(c) \in Payin /\ Idle \in CallRow /\ Idle.at = "idle"
      /\ "idle" \in Quiet
  BY RowsTyped
<1>1. Plain(c)
  BY Moved
  DEF Plain, ReadPayin, OnFailed, OnConfirmed, Gate0, CheckVerdicts, CheckOwner, ApproveLook,
      Updating, Throw, Go, Update, rows, counters
<1>2. /\ Status(On(c))' = Status(On(c)) \/ On(c)' # On(c)
      /\ \A p : Funded(p)' = Funded(p) /\ Vetted(p)' = Vetted(p)
  BY <1>1 DEF Plain, Funded, Vetted, Booked, Status, On, ChannelOf
<1>3. Put(c, Idle) \/ Put(c, Resumed(c)) \/ Throw(c) => CallFits(c)' /\ ApprovalFits(c)'
  BY RowsTyped, Moved, QuietFits DEF Throw
<1>4. ReadPayin(c) => CallFits(c)' /\ ApprovalFits(c)'
  <2>1. SUFFICES ASSUME ReadPayin(c), ~Throw(c) PROVE CallFits(c)' /\ ApprovalFits(c)'
    BY <1>3
  <2>2. Put(c, [call[c] EXCEPT !.saw = payin[On(c)],
                  !.at = IF call[c].at = "payinRead" THEN "payinWrite" ELSE "clearWrite"])
    BY <2>1, Zenon DEF ReadPayin
  <2>3. /\ call'[c].at = IF call[c].at = "payinRead" THEN "payinWrite" ELSE "clearWrite"
        /\ On(c)' = On(c) /\ call'[c].by = call[c].by /\ call'[c].act = call[c].act
    BY <2>2, <1>0 DEF Put, TypeOK, CallRow, On
  <2>4. CallFits(c) BY DEF DepositInv
  <2>5. \E t \in NextPayin(c, payin[On(c)]) : TRUE BY <2>1, Zenon DEF ReadPayin
  <2>6. payin[On(c)] \in PayinStatus BY <1>0, <2>5, StatusTyped, PayinTable DEF NextPayin
  <2>7. payin'[On(c)] # "none" BY <2>6, <1>1 DEF PayinStatus, Plain
  <2> QED
    BY <2>1, <2>3, <2>4, <2>7, <1>2 DEF ReadPayin, CallFits, ApprovalFits, ApprovingOn, Updating
<1>5. ASSUME NEW act \in {"FAIL", "FREEZE"}, Update(c, act)
      PROVE  CallFits(c)' /\ ApprovalFits(c)'
  BY <1>5, Moved DEF CallFits, ApprovalFits, ApprovingOn, Updating
<1>6. OnConfirmed(c) => CallFits(c)' /\ ApprovalFits(c)'
  <2>1. SUFFICES ASSUME OnConfirmed(c), Go(c, "book"), Status(On(c)) = "PAYIN_PENDING"
                 PROVE  CallFits(c)' /\ ApprovalFits(c)'
    BY <1>3 DEF OnConfirmed
  <2> QED BY <2>1, <1>2, Moved DEF CallFits, ApprovalFits, ApprovingOn, Updating
<1>7. Go(c, "initialize") => CallFits(c)' /\ ApprovalFits(c)'
  <2>1. "initialize" \in Quiet BY DEF Quiet, Place, Updating
  <2> QED BY <2>1, Moved, QuietFits
<1>8. CheckVerdicts(c) => CallFits(c)' /\ ApprovalFits(c)'
  <2>1. SUFFICES ASSUME Go(c, "ownerCheck"), deposit[On(c)].kyt = "PASSED",
                        deposit[On(c)].tr \in {"PASSED", "NOT_REQUIRED"}
                 PROVE  CallFits(c)' /\ ApprovalFits(c)'
    BY <1>3 DEF CheckVerdicts
  <2>2. Vetted(On(c)) BY <2>1, <1>0 DEF DepositInv, VerdictsFit, Vetted
  <2> QED BY <2>1, <2>2, <1>2, Moved DEF CallFits, ApprovalFits, ApprovingOn, Updating
<1>9. CheckOwner(c) => CallFits(c)' /\ ApprovalFits(c)'
  <2>1. SUFFICES ASSUME CheckOwner(c), Go(c, "approve") PROVE CallFits(c)' /\ ApprovalFits(c)'
    BY <1>3 DEF CheckOwner
  <2>2. CallFits(c) BY DEF DepositInv
  <2> QED BY <2>1, <2>2, <1>2, Moved DEF CheckOwner, CallFits, ApprovalFits, ApprovingOn, Updating
<1>10. ApproveLook(c) => CallFits(c)' /\ ApprovalFits(c)'
  <2>1. SUFFICES ASSUME ApproveLook(c), Go(c, "credit"), Status(On(c)) \in Approvable
                 PROVE  CallFits(c)' /\ ApprovalFits(c)'
    BY <1>3 DEF ApproveLook
  <2>2. CallFits(c) BY DEF DepositInv
  <2>3. Funded(On(c)) /\ Status(On(c)) # "none"
    BY <2>1, <1>0 DEF DepositInv, MoneyFits, UnderReview, DepositStatus, Approvable
  <2> QED
    BY <2>1, <2>2, <2>3, <1>2, Moved DEF ApproveLook, CallFits, ApprovalFits, ApprovingOn, Updating
<1>11. OnFailed(c) \/ Gate0(c) => CallFits(c)' /\ ApprovalFits(c)'
  BY <1>3, <1>5, <1>7 DEF OnFailed, Gate0
<1> QED BY <1>1, <1>4, <1>6, <1>8, <1>9, <1>10, <1>11, PlainKeeps

\* What begins.  A verdict, which also writes its row, comes later.
LEMMA BeginPlain ==
  ASSUME DepositInv, TypeOK', NEW c \in Call,
         \/ \E s \in Signal : Scan(c, s)
         \/ \E p \in Payin, act \in RailAction : Rail(c, p, act)
         \/ \E p \in Payin, act \in DeskAction : Desk(c, p, act)
  PROVE  DepositInv'
<1> TypeOK BY DEF DepositInv
<1>1. Plain(c) BY Moved DEF Plain, Scan, Rail, Desk, Begin, Busy, Updating, rows
<1>2. Idle \in CallRow BY RowsTyped
<1>3. ASSUME NEW s \in Signal, Scan(c, s) PROVE call'[c].at \in Quiet
  <2>1. (CHOOSE p \in Payin : SignalOf[p] = s) \in Payin BY DepositAssumption
  <2>2. PICK place \in {"find", "ignore"} :
          Put(c, [Idle EXCEPT !.at = place, !.by = "scan",
                    !.on = CHOOSE p \in Payin : SignalOf[p] = s])
    BY <1>3 DEF Scan, Begin
  <2>3. place \in Quiet BY DEF Quiet, Place, Scanning, Updating
  <2> QED BY <2>2, <2>3, <1>2 DEF Put, TypeOK, CallRow
<1>4. ASSUME NEW p \in Payin, NEW act \in RailAction, Rail(c, p, act)
      PROVE  CallFits(c)' /\ ApprovalFits(c)'
  <2>1. Idle.by = "rail" BY DEF Idle
  <2>2. call'[c].at = "payinRead" /\ call'[c].by = "rail"
    BY <1>2, <1>4, <2>1 DEF Rail, Begin, Put, TypeOK, CallRow
  <2> QED BY <2>2 DEF CallFits, ApprovalFits, ApprovingOn, Updating
<1>5. ASSUME NEW p \in Payin, NEW act \in DeskAction, Desk(c, p, act)
      PROVE  CallFits(c)' /\ ApprovalFits(c)'
  <2>1. /\ call'[c].at = IF act = "APPROVE" THEN "approve" ELSE "depositRead"
        /\ call'[c].by = "desk" /\ call'[c].act = act
    BY <1>2, <1>5 DEF Desk, Begin, Put, TypeOK, CallRow
  <2> QED BY <2>1 DEF CallFits, ApprovalFits, ApprovingOn, Updating
<1> QED BY <1>1, <1>3, <1>4, <1>5, QuietFits, PlainKeeps

-----------------------------------------------------------------------------
\* The steps that change a row.

Told(p) ==
  Credited(p) /\ faults = 0 /\ "crossed" \notin past[p] =>
    \/ Status(p) = "SUCCESS"
    \/ \E c \in Call : ApprovingOn(p, c) /\ call[c].at # "credit"
Confirmed(p) ==
  Booked(p) /\ Status(p) = "PAYIN_PENDING" /\ faults = 0 =>
    \E c \in Call : /\ On(c) = p /\ call[c].act = "PAYIN_CONFIRMED"
                   /\ call[c].at \in {"depositRead", "depositWrite"}

LEMMA Promises ==
  /\ CreditIsTold <=> \A p \in Payin : Told(p)
  /\ BookedIsConfirmed <=> \A p \in Payin : Confirmed(p)
  /\ CreditIsTold' <=> \A p \in Payin : Told(p)'
  /\ BookedIsConfirmed' <=> \A p \in Payin : Confirmed(p)'
BY DEF CreditIsTold, BookedIsConfirmed, Told, Confirmed

Alone(c) == \A d \in Call \ {c} : call'[d] = call[d]

LEMMA ToldStays ==
  ASSUME DepositInv, NEW c \in Call, Alone(c), call[c].at \notin Updating, faults' = faults,
         NEW p \in Payin, Status(p)' = Status(p), past[p] \subseteq past'[p],
         Credited(p)' = Credited(p)
  PROVE  Told(p)'
<1>1. Told(p) BY Promises DEF DepositInv
<1>2. \A d \in Call : ApprovingOn(p, d) /\ call[d].at # "credit" => d # c
  BY DEF ApprovingOn, Updating
<1> QED BY <1>1, <1>2 DEF Told, Alone, ApprovingOn

LEMMA ConfirmedStays ==
  ASSUME DepositInv, NEW c \in Call, Alone(c), call[c].at \notin Updating, faults' = faults,
         NEW p \in Payin, Status(p)' = Status(p), Booked(p)' = Booked(p)
  PROVE  Confirmed(p)'
<1>1. Confirmed(p) BY Promises DEF DepositInv
<1>2. \A d \in Call : call[d].at \in {"depositRead", "depositWrite"} => d # c
  BY DEF Updating
<1> QED BY <1>1, <1>2 DEF Confirmed, Alone, On

LEMMA RowStays ==
  ASSUME DepositInv, NEW p \in Payin, channel' = channel, payin'[p] = payin[p],
         deposit'[p] = deposit[p], ledger'[p] = ledger[p], past'[p] = past[p]
  PROVE  MoneyFits(p)' /\ VerdictsFit(p)'
<1>1. MoneyFits(p) /\ VerdictsFit(p) BY DEF DepositInv
<1> QED BY <1>1 DEF MoneyFits, VerdictsFit, Funded, Vetted, Booked, Credited, Status, ChannelOf

LEMMA Assembled ==
  ASSUME DepositInv, TypeOK', Later, OnePayinPerHash', NEW c \in Call, Alone(c),
         \A d \in Call \ {c} : Status(On(d))' = Status(On(d)) \/ ~ApprovingOn(On(d), d),
         CallFits(c)', ApprovalFits(c)',
         \A p \in Payin : MoneyFits(p)' /\ VerdictsFit(p)' /\ Told(p)' /\ Confirmed(p)'
  PROVE  DepositInv'
<1> TypeOK BY DEF DepositInv
<1>1. ASSUME NEW d \in Call \ {c} PROVE CallFits(d)' /\ ApprovalFits(d)'
  <2>1. call'[d] = call[d] /\ CallFits(d) /\ ApprovalFits(d) BY DEF Alone, DepositInv
  <2>2. CASE Status(On(d))' = Status(On(d)) BY <2>1, <2>2, CallStays, ApprovalStays
  <2>3. CASE ~ApprovingOn(On(d), d)
    BY <2>1, <2>3, CallStays DEF ApprovalFits, ApprovingOn, On
  <2> QED BY <2>2, <2>3
<1> QED BY <1>1, Promises DEF DepositInv

\* A step that leaves the deposits, the ledger and the past alone.
LEMMA PayinSteps ==
  ASSUME DepositInv, TypeOK', NEW c \in Call, Alone(c), call[c].at \notin Updating,
         UNCHANGED <<channel, deposit, ledger, faults>>,
         \A p \in Payin : past[p] \subseteq past'[p],
         \A p \in Payin : payin[p] # "none" => payin'[p] # "none",
         \A p \in Payin : MoneyFits(p)' /\ VerdictsFit(p)',
         OnePayinPerHash', CallFits(c)', ApprovalFits(c)'
  PROVE  DepositInv'
<1>1. Later BY DEF Later, Status
<1>2. \A p \in Payin : /\ Status(p)' = Status(p) /\ Booked(p)' = Booked(p)
                       /\ Credited(p)' = Credited(p)
  BY DEF Status, Booked, Credited
<1>3. \A p \in Payin : Told(p)' /\ Confirmed(p)' BY <1>2, ToldStays, ConfirmedStays
<1>4. \A d \in Call \ {c} : Status(On(d))' = Status(On(d))
  BY DEF Alone, Status, On
<1> QED BY <1>1, <1>3, <1>4, Assembled

LEMMA CreatePayinKeeps ==
  ASSUME DepositInv, TypeOK', NEW c \in Call, CreatePayin(c)
  PROVE  DepositInv'
<1> TypeOK BY DEF DepositInv
<1>0. /\ call[c] \in CallRow /\ call[c].at = "create" /\ call[c].at \notin Updating
      /\ UNCHANGED <<channel, deposit, ledger, past, faults>>
  BY RowsTyped DEF CreatePayin, Updating, counters
<1>1. CASE UNCHANGED payin /\ Throw(c)
  <2>1. Plain(c) BY <1>0, <1>1, RowsTyped, Moved DEF Plain, Throw
  <2> QED BY <1>1, <2>1, RowsTyped, Moved, QuietFits, PlainKeeps DEF Throw
<1>2. CASE ~(UNCHANGED payin /\ Throw(c))
  <2> DEFINE s == SignalOf[On(c)]
  <2>1. PICK p \in NewName(s), mode \in AfterPayin :
          /\ payin' = [payin EXCEPT ![p] = "DETECTED"]
          /\ Put(c, [call[c] EXCEPT !.at = "detected", !.on = p, !.back = mode])
    BY <1>2 DEF CreatePayin
  <2>2. channel[s] = "CRYPTO" => Created(s) = {} BY <1>2 DEF CreatePayin
  <2>3. p \in Payin /\ SignalOf[p] = s /\ payin[p] = "none" BY DEF NewName
  <2>4. payin'[p] = "DETECTED" /\ \A q \in Payin \ {p} : payin'[q] = payin[q]
    BY <2>1, <2>3 DEF TypeOK
  <2>5. Alone(c) /\ call'[c].at = "detected" /\ call'[c].on = p
    BY <1>0, <2>1 DEF Alone, Put, TypeOK, CallRow
  <2>6. CallFits(c)' /\ ApprovalFits(c)'
    BY <2>4, <2>5 DEF CallFits, ApprovalFits, ApprovingOn, Updating, On
  <2>7. OnePayinPerHash'
    <3>1. \A q \in Payin \ {p} : SignalOf[q] = s /\ channel[s] = "CRYPTO" => payin[q] = "none"
      BY <2>2 DEF Created
    <3> QED BY <1>0, <2>3, <2>4, <3>1 DEF DepositInv, OnePayinPerHash, ChannelOf
  <2>8. \A q \in Payin : MoneyFits(q)' /\ VerdictsFit(q)'
    <3>1. \A q \in Payin \ {p} : MoneyFits(q)' /\ VerdictsFit(q)'
      BY <1>0, <2>4, RowStays
    <3>2. MoneyFits(p) /\ VerdictsFit(p) BY <2>3 DEF DepositInv
    <3>3. MoneyFits(p)' /\ VerdictsFit(p)'
      BY <3>2, <1>0, <2>4
      DEF MoneyFits, VerdictsFit, Funded, Vetted, Booked, Credited, Status, ChannelOf
    <3> QED BY <3>1, <3>3
  <2> QED BY <1>0, <2>4, <2>5, <2>6, <2>7, <2>8, PayinSteps
<1> QED BY <1>1, <1>2

LEMMA WritePayinKeeps ==
  ASSUME DepositInv, TypeOK', NEW c \in Call, WritePayin(c)
  PROVE  DepositInv'
<1> TypeOK BY DEF DepositInv
<1> PICK p \in Payin : p = On(c) BY RowsTyped
<1> DEFINE fact == IF call[c].act = "CLEAR" /\ call[c].by = "rail"
                         /\ call[c].at = "payinWrite" THEN {"clearedByHand"} ELSE {}
<1>0. /\ call[c] \in CallRow /\ p \in Payin
      /\ call[c].at \in {"payinWrite", "clearWrite"} /\ call[c].at \notin Updating
      /\ UNCHANGED <<channel, deposit, ledger, faults>>
      /\ CallFits(c)
  BY RowsTyped DEF WritePayin, Updating, counters, DepositInv
<1>1. PICK t \in NextPayin(c, call[c].saw) :
        /\ payin' = [payin EXCEPT ![p] = t[3]]
        /\ IF Handler(t[3]) = "none" THEN Put(c, Resumed(c)) ELSE Go(c, Handler(t[3]))
  BY DEF WritePayin
<1>2. t[3] \in PayinStatus /\ t[3] # "none" /\ (t[3] = "CLEARED" => call[c].act = "CLEAR")
  BY <1>0, StatusTyped, PayinTable DEF NextPayin, PayinStatus
<1>3. payin'[p] = t[3] /\ \A q \in Payin \ {p} : payin'[q] = payin[q]
  BY <1>0, <1>1 DEF TypeOK
<1>4. past'[p] = past[p] \union fact /\ \A q \in Payin \ {p} : past'[q] = past[q]
  BY <1>0 DEF WritePayin, Record, TypeOK
<1>5. payin[p] # "none" BY <1>0 DEF CallFits
<1>6. Alone(c) BY <1>1, Moved DEF Alone, Go
<1>7. CallFits(c)' /\ ApprovalFits(c)'
  <2>1. CASE Handler(t[3]) = "none"
    BY <2>1, <1>1, RowsTyped, Moved, QuietFits
  <2>2. CASE Handler(t[3]) # "none"
    <3>1. Handler(t[3]) \in {"detected", "failed", "confirmed"} BY <2>2, Zenon DEF Handler
    <3>2. call'[c].at \in {"detected", "failed", "confirmed"} /\ On(c)' = p
      BY <1>1, <2>2, <3>1, Moved
    <3> QED BY <3>2, <1>2, <1>3 DEF CallFits, ApprovalFits, ApprovingOn, Updating
  <2> QED BY <2>1, <2>2
<1>8. OnePayinPerHash'
  BY <1>0, <1>3, <1>5 DEF DepositInv, OnePayinPerHash, ChannelOf
<1>9. \A q \in Payin : MoneyFits(q)' /\ VerdictsFit(q)'
  <2>1. \A q \in Payin \ {p} : MoneyFits(q)' /\ VerdictsFit(q)'
    BY <1>0, <1>3, <1>4, RowStays
  <2>2. MoneyFits(p) /\ VerdictsFit(p) BY <1>0 DEF DepositInv
  <2>3. VerdictsFit(p)'
    BY <2>2, <1>0, <1>4 DEF VerdictsFit, Vetted, Credited, ChannelOf
  <2>4. call[c].act = "CLEAR" => Funded(p) \/ "clearedByHand" \in past'[p]
    BY <1>0, <1>4 DEF CallFits
  <2>5. Funded(p)' = Funded(p) BY <1>0, <1>4 DEF Funded, Booked
  <2> QED
    BY <2>1, <2>2, <2>3, <2>4, <2>5, <1>0, <1>2, <1>3
    DEF MoneyFits, Booked, Credited, Status
<1>10. /\ \A q \in Payin : past[q] \subseteq past'[q]
       /\ \A q \in Payin : payin[q] # "none" => payin'[q] # "none"
  BY <1>2, <1>3, <1>4
<1> QED BY <1>0, <1>6, <1>7, <1>8, <1>9, <1>10, PayinSteps

LEMMA OnDetectedKeeps ==
  ASSUME DepositInv, TypeOK', NEW c \in Call, OnDetected(c)
  PROVE  DepositInv'
<1> TypeOK BY DEF DepositInv
<1> PICK p \in Payin : p = On(c) BY RowsTyped
<1>0. /\ p \in Payin /\ call[c].at = "detected" /\ call[c].at \notin Updating
      /\ UNCHANGED <<channel, payin, ledger, past, faults>>
      /\ payin[p] # "none"
  BY RowsTyped DEF OnDetected, Updating, counters, DepositInv, CallFits
<1>1. Alone(c) /\ CallFits(c)' /\ ApprovalFits(c)'
  BY RowsTyped, Moved, QuietFits DEF OnDetected, Alone
<1>2. CASE Status(p) # "none"
  <2>1. Plain(c) BY <1>0, <1>1, <1>2 DEF OnDetected, Plain, Alone
  <2> QED BY <2>1, <1>1, PlainKeeps
<1>3. CASE Status(p) = "none"
  <2>1. /\ \A q \in Payin \ {p} : deposit'[q] = deposit[q]
        /\ deposit'[p] = [deposit[p] EXCEPT !.status = "PAYIN_PENDING"]
    BY <1>0, <1>3 DEF OnDetected, TypeOK
  <2>2. /\ deposit'[p].status = "PAYIN_PENDING" /\ deposit'[p].kyt = deposit[p].kyt
        /\ deposit'[p].tr = deposit[p].tr
    BY <1>0, <2>1, StatusTyped DEF DepositRow
  <2>3. MoneyFits(p) /\ VerdictsFit(p) BY <1>0 DEF DepositInv
  <2>4. MoneyFits(p)' /\ VerdictsFit(p)' /\ ~Booked(p)' /\ ~Credited(p)'
    BY <2>2, <2>3, <1>0, <1>3
    DEF MoneyFits, VerdictsFit, Booked, Credited, Status, Funded, Vetted, ChannelOf, UnderReview
  <2>5. \A q \in Payin \ {p} : MoneyFits(q)' /\ VerdictsFit(q)' /\ Told(q)' /\ Confirmed(q)'
    <3> SUFFICES ASSUME NEW q \in Payin \ {p}
                 PROVE  MoneyFits(q)' /\ VerdictsFit(q)' /\ Told(q)' /\ Confirmed(q)'
      OBVIOUS
    <3>1. /\ Status(q)' = Status(q) /\ Booked(q)' = Booked(q) /\ Credited(q)' = Credited(q)
          /\ past[q] \subseteq past'[q]
      BY <2>1, <1>0 DEF Status, Booked, Credited
    <3> QED BY <3>1, <2>1, <1>0, <1>1, RowStays, ToldStays, ConfirmedStays
  <2>6. Told(p)' /\ Confirmed(p)' BY <2>4 DEF Told, Confirmed
  <2>7. Later BY <1>0, <2>1, <2>2 DEF Later, Status
  <2>8. OnePayinPerHash' BY <1>0 DEF DepositInv, OnePayinPerHash, ChannelOf
  <2>9. \A d \in Call \ {c} : Status(On(d))' = Status(On(d)) \/ ~ApprovingOn(On(d), d)
    <3> SUFFICES ASSUME NEW d \in Call \ {c}, On(d) = p PROVE ~ApprovingOn(On(d), d)
      BY <2>1, <1>1, RowsTyped DEF Alone, Status, On
    <3>1. CallFits(d) /\ ~Credited(p) BY <2>3, <1>3 DEF DepositInv, MoneyFits
    <3> QED BY <3>1, <1>3 DEF CallFits, ApprovingOn, Updating
  <2> QED BY <1>1, <2>4, <2>5, <2>6, <2>7, <2>8, <2>9, Assembled
<1> QED BY <1>2, <1>3

\* The ledger gets a transfer of the deposit a call works on.
LEMMA Transferred ==
  ASSUME TypeOK, NEW p \in Payin, NEW step, Transfer(p, step)
  PROVE  /\ ledger'[p] = ledger[p] \union {step}
         /\ \A q \in Payin \ {p} : ledger'[q] = ledger[q]
BY DEF TypeOK, Transfer

LEMMA BookKeeps ==
  ASSUME DepositInv, TypeOK', NEW c \in Call, Book(c)
  PROVE  DepositInv'
<1> TypeOK BY DEF DepositInv
<1> PICK p \in Payin : p = On(c) BY RowsTyped
<1>0. /\ p \in Payin /\ call[c].at = "book" /\ call[c].at \notin Updating
      /\ UNCHANGED <<channel, payin, deposit, past, faults>>
      /\ Status(p) # "none"
  BY RowsTyped DEF Book, Updating, counters, DepositInv, CallFits
<1>1. /\ ledger'[p] = ledger[p] \union {"STEP_1"}
      /\ \A q \in Payin \ {p} : ledger'[q] = ledger[q]
  BY <1>0, Transferred DEF Book
<1>2. /\ Alone(c) /\ call'[c].at = "depositRead" /\ On(c)' = p
      /\ call'[c].act = "PAYIN_CONFIRMED"
  BY Moved DEF Book, Alone, Update
<1>3. /\ Booked(p)' /\ \A q \in Payin : Credited(q)' = Credited(q)
      /\ \A q \in Payin \ {p} : Booked(q)' = Booked(q)
      /\ \A q \in Payin : Status(q)' = Status(q) /\ past[q] \subseteq past'[q]
  BY <1>0, <1>1 DEF Booked, Credited, Status
<1>4. CallFits(c)' /\ ApprovalFits(c)'
  BY <1>2, <1>3 DEF CallFits, ApprovalFits, ApprovingOn, Updating
<1>5. \A q \in Payin \ {p} : MoneyFits(q)' /\ VerdictsFit(q)' /\ Confirmed(q)'
  BY <1>0, <1>1, <1>2, <1>3, RowStays, ConfirmedStays
<1>6. MoneyFits(p) /\ VerdictsFit(p) BY <1>0 DEF DepositInv
<1>7. MoneyFits(p)' /\ VerdictsFit(p)'
  BY <1>0, <1>3, <1>6 DEF MoneyFits, VerdictsFit, Funded, Vetted, ChannelOf, Status
<1>8. \A q \in Payin : Told(q)' BY <1>0, <1>2, <1>3, ToldStays
<1>9. Confirmed(p)' BY <1>2 DEF Confirmed
<1>10. Later BY <1>0, <1>1 DEF Later, Status
<1>11. OnePayinPerHash' BY <1>0 DEF DepositInv, OnePayinPerHash, ChannelOf
<1>12. \A d \in Call \ {c} : Status(On(d))' = Status(On(d))
  BY <1>0, <1>2 DEF Alone, Status, On
<1> QED BY <1>2, <1>4, <1>5, <1>7, <1>8, <1>9, <1>10, <1>11, <1>12, Assembled

LEMMA CreditKeeps ==
  ASSUME DepositInv, TypeOK', NEW c \in Call, Credit(c)
  PROVE  DepositInv'
<1> TypeOK BY DEF DepositInv
<1> PICK p \in Payin : p = On(c) BY RowsTyped
<1> DEFINE fact == IF call[c].by = "desk" THEN {"approvedByHand"} ELSE {}
<1>0. /\ p \in Payin /\ call[c].at = "credit" /\ call[c].at \notin Updating
      /\ UNCHANGED <<channel, payin, deposit, faults>>
      /\ CallFits(c) /\ ApprovalFits(c)
  BY RowsTyped DEF Credit, Updating, counters, DepositInv
<1>1. /\ ledger'[p] = ledger[p] \union {"STEP_2"}
      /\ \A q \in Payin \ {p} : ledger'[q] = ledger[q]
  BY <1>0, Transferred DEF Credit
<1>2. past'[p] = past[p] \union fact /\ \A q \in Payin \ {p} : past'[q] = past[q]
  BY <1>0 DEF Credit, Record, TypeOK
<1>3. /\ Alone(c) /\ call'[c].at = "depositRead" /\ On(c)' = p /\ call'[c].act = "APPROVE"
  BY Moved DEF Credit, Alone, Update
<1>4. /\ Credited(p)' /\ \A q \in Payin : Booked(q)' = Booked(q)
      /\ \A q \in Payin \ {p} : Credited(q)' = Credited(q)
      /\ \A q \in Payin : Status(q)' = Status(q) /\ past[q] \subseteq past'[q]
  BY <1>0, <1>1, <1>2 DEF Booked, Credited, Status
<1>5. CallFits(c)'
  BY <1>3, <1>4 DEF CallFits, Updating
<1>6. ApprovalFits(c)'
  BY <1>0, <1>3, <1>4 DEF ApprovalFits, ApprovingOn, On
<1>7. \A q \in Payin \ {p} : MoneyFits(q)' /\ VerdictsFit(q)' /\ Told(q)'
  BY <1>0, <1>1, <1>2, <1>3, <1>4, RowStays, ToldStays
<1>8. MoneyFits(p) /\ VerdictsFit(p) BY <1>0 DEF DepositInv
<1>9. Funded(p)' /\ Status(p)' # "none"
  BY <1>0, <1>2, <1>4 DEF Funded, CallFits
<1>10. MoneyFits(p)' BY <1>0, <1>2, <1>4, <1>8, <1>9 DEF MoneyFits
<1>11. VerdictsFit(p)'
  BY <1>0, <1>2, <1>8 DEF VerdictsFit, CallFits, Vetted, ChannelOf
<1>12. \A q \in Payin : Confirmed(q)' BY <1>0, <1>3, <1>4, ConfirmedStays
<1>13. Told(p)' BY <1>3 DEF Told, ApprovingOn, On
<1>14. Later BY <1>0, <1>1, <1>2 DEF Later, Status
<1>15. OnePayinPerHash' BY <1>0 DEF DepositInv, OnePayinPerHash, ChannelOf
<1>16. \A d \in Call \ {c} : Status(On(d))' = Status(On(d))
  BY <1>0, <1>3 DEF Alone, Status, On
<1> QED
  BY <1>3, <1>5, <1>6, <1>7, <1>10, <1>11, <1>12, <1>13, <1>14, <1>15, <1>16, Assembled

LEMMA ReadDepositKeeps ==
  ASSUME DepositInv, TypeOK', NEW c \in Call, ReadDeposit(c)
  PROVE  DepositInv'
<1> TypeOK BY DEF DepositInv
<1> PICK p \in Payin : p = On(c) BY RowsTyped
<1>0. /\ call[c].at = "depositRead" /\ call[c] \in CallRow
      /\ UNCHANGED <<channel, payin, deposit, ledger, past, faults>>
      /\ CallFits(c) /\ ApprovalFits(c) /\ MoneyFits(p)
      /\ \A q \in Payin : Told(q) /\ Confirmed(q)
  BY RowsTyped, Promises DEF ReadDeposit, rows, counters, DepositInv
<1>1. Alone(c) BY Moved DEF ReadDeposit, Throw, Alone
<1>2. Later BY <1>0 DEF Later, Status
<1>3. OnePayinPerHash' BY <1>0 DEF DepositInv, OnePayinPerHash, ChannelOf
<1>4. \A q \in Payin : MoneyFits(q)' /\ VerdictsFit(q)' BY <1>0, RowStays
<1>5. /\ \A q \in Payin : /\ Status(q)' = Status(q) /\ Booked(q)' = Booked(q)
                          /\ Credited(q)' = Credited(q) /\ past'[q] = past[q]
      /\ \A d \in Call \ {c} : Status(On(d))' = Status(On(d))
  BY <1>0, <1>1 DEF Status, Booked, Credited, Alone, On
<1>6. CASE NextDeposit(c, Status(p)) = {}
  <2>1. Throw(c) BY <1>6 DEF ReadDeposit
  <2>2. CallFits(c)' /\ ApprovalFits(c)' BY <2>1, RowsTyped, Moved, QuietFits DEF Throw
  <2>3. call[c].act # "APPROVE" \/ Status(p) \notin Approvable
    <3>1. Status(p) \in Approvable =>
            <<Status(p), "APPROVE", "SUCCESS">> \in DepositTransitions
      BY ApprovalTable
    <3>2. \A a, b, x : <<a, b, x>> \in DepositTransitions /\ a = Status(p)
                         => b # call[c].act
      BY <1>6 DEF NextDeposit
    <3> QED BY <3>1, <3>2
  <2>4. call[c].act # "PAYIN_CONFIRMED" \/ Status(p) # "PAYIN_PENDING"
    <3>1. <<"PAYIN_PENDING", "PAYIN_CONFIRMED", "COMPLIANCE_PENDING">> \in DepositTransitions
      BY DEF DepositTransitions
    <3>2. \A a, b, x : <<a, b, x>> \in DepositTransitions /\ a = Status(p)
                         => b # call[c].act
      BY <1>6 DEF NextDeposit
    <3> QED BY <3>1, <3>2
  <2>5. ASSUME NEW q \in Payin PROVE Told(q)'
    <3> SUFFICES ASSUME Credited(q)', faults' = 0, "crossed" \notin past'[q],
                        Status(q)' # "SUCCESS"
                 PROVE  \E d \in Call : ApprovingOn(q, d)' /\ call'[d].at # "credit"
      BY DEF Told
    <3>1. PICK d \in Call : ApprovingOn(q, d) /\ call[d].at # "credit"
      BY <1>0, <1>5 DEF Told
    <3>2. d # c
      BY <3>1, <2>3, <1>0, <1>5 DEF ApprovalFits, ApprovingOn, On
    <3> QED BY <3>1, <3>2, <1>1 DEF Alone, ApprovingOn
  <2>6. ASSUME NEW q \in Payin PROVE Confirmed(q)'
    <3> SUFFICES ASSUME Booked(q)', Status(q)' = "PAYIN_PENDING", faults' = 0
                 PROVE  \E d \in Call : /\ On(d)' = q /\ call'[d].act = "PAYIN_CONFIRMED"
                                        /\ call'[d].at \in {"depositRead", "depositWrite"}
      BY DEF Confirmed
    <3>1. PICK d \in Call : /\ On(d) = q /\ call[d].act = "PAYIN_CONFIRMED"
                            /\ call[d].at \in {"depositRead", "depositWrite"}
      BY <1>0, <1>5 DEF Confirmed
    <3>2. d # c BY <3>1, <2>4, <1>5
    <3> QED BY <3>1, <3>2, <1>1 DEF Alone, On
  <2> QED BY <1>1, <1>2, <1>3, <1>4, <1>5, <2>2, <2>5, <2>6, Assembled
<1>7. CASE NextDeposit(c, Status(p)) # {}
  <2>1. Put(c, [call[c] EXCEPT !.at = "depositWrite", !.saw = Status(p)])
    BY <1>7 DEF ReadDeposit
  <2>2. /\ call'[c].at = "depositWrite" /\ call'[c].saw = Status(p) /\ call'[c].on = p
        /\ call'[c].act = call[c].act /\ call'[c].by = call[c].by
    BY <2>1, <1>0 DEF Put, TypeOK, CallRow, On
  <2>3. Status(p) # "none"
    BY <1>7, DepositTable DEF NextDeposit, DepositStatus
  <2>4. CallFits(c)'
    BY <2>2, <2>3, <1>0, <1>5 DEF CallFits, MoneyFits, Updating, On, Funded
  <2>5. ApprovalFits(c)' BY <2>2, <1>0, <1>5 DEF ApprovalFits, ApprovingOn, On
  <2>6. ASSUME NEW q \in Payin PROVE Told(q)'
    <3>1. ASSUME NEW d \in Call, ApprovingOn(q, d) /\ call[d].at # "credit"
          PROVE  ApprovingOn(q, d)' /\ call'[d].at # "credit"
      BY <3>1, <2>2, <1>0, <1>1 DEF ApprovingOn, Alone, On
    <3> QED BY <3>1, <1>0, <1>5 DEF Told
  <2>7. ASSUME NEW q \in Payin PROVE Confirmed(q)'
    <3>1. ASSUME NEW d \in Call, On(d) = q, call[d].act = "PAYIN_CONFIRMED",
                 call[d].at \in {"depositRead", "depositWrite"}
          PROVE  /\ On(d)' = q /\ call'[d].act = "PAYIN_CONFIRMED"
                 /\ call'[d].at \in {"depositRead", "depositWrite"}
      BY <3>1, <2>2, <1>1 DEF Alone, On
    <3> QED BY <3>1, <1>0, <1>5 DEF Confirmed
  <2> QED BY <1>1, <1>2, <1>3, <1>4, <1>5, <2>4, <2>5, <2>6, <2>7, Assembled
<1> QED BY <1>6, <1>7

LEMMA WriteDepositKeeps ==
  ASSUME DepositInv, TypeOK', NEW c \in Call, WriteDeposit(c)
  PROVE  DepositInv'
<1> TypeOK BY DEF DepositInv
<1> PICK p \in Payin : p = On(c) BY RowsTyped
<1> DEFINE act == call[c].act
           byHand == act = "PAYIN_CONFIRMED" /\ call[c].by = "desk"
<1>0. /\ call[c].at = "depositWrite" /\ call[c] \in CallRow
      /\ UNCHANGED <<channel, payin, ledger, faults>>
      /\ CallFits(c) /\ MoneyFits(p) /\ VerdictsFit(p)
      /\ \A q \in Payin : Told(q) /\ Confirmed(q)
  BY RowsTyped, Promises DEF WriteDeposit, counters, DepositInv
<1>1. PICK t \in NextDeposit(c, call[c].saw) :
        /\ deposit' = [deposit EXCEPT ![p].status = t[3]]
        /\ IF t[3] = "COMPLIANCE_PENDING"
           THEN \E d \in Call \ {c} :
                  /\ ~Busy(d)
                  /\ call' = [call EXCEPT ![c] = Updated(c),
                       ![d] = [Idle EXCEPT !.at = "gate0", !.on = On(c), !.by = "gate"]]
           ELSE Put(c, Updated(c))
  BY DEF WriteDeposit
<1>2. /\ call'[c] = Updated(c)
      /\ \A d \in Call \ {c} :
           call'[d] = call[d] \/ (~Busy(d) /\ call'[d].at = "gate0" /\ On(d)' = On(c))
  BY <1>0, <1>1, Written
<1>3. t \in DepositTransitions /\ t[1] = call[c].saw /\ t[2] = act
  BY DEF NextDeposit
<1>4. /\ deposit'[p].status = t[3] /\ deposit'[p].kyt = deposit[p].kyt
      /\ deposit'[p].tr = deposit[p].tr
      /\ \A q \in Payin \ {p} : deposit'[q] = deposit[q]
  BY <1>1, StatusTyped DEF TypeOK, DepositRow
<1>5. /\ past'[p] = past[p] \union (IF Crosses(c) THEN {"crossed"} ELSE {})
                      \union (IF byHand THEN {"confirmedByHand"} ELSE {})
      /\ \A q \in Payin \ {p} : past'[q] = past[q]
  BY <1>0 DEF WriteDeposit, Record, TypeOK
<1> HIDE DEF byHand
<1>6. t[3] # "none" /\ t[3] # "PAYIN_PENDING" BY <1>3, DepositTable DEF DepositStatus
<1>7. Later BY <1>0, <1>4, <1>5, <1>6 DEF Later, Status
<1>8. OnePayinPerHash' BY <1>0 DEF DepositInv, OnePayinPerHash, ChannelOf
<1>9. /\ \A q \in Payin : Booked(q)' = Booked(q) /\ Credited(q)' = Credited(q)
      /\ Funded(p) => Funded(p)'
      /\ \A q \in Payin \ {p} : Status(q)' = Status(q)
      /\ Status(p)' = t[3]
  BY <1>0, <1>4, <1>5 DEF Booked, Credited, Funded, Status
<1>10. MoneyFits(p)'
  <2>1. act = "PAYIN_CONFIRMED" => Funded(p)'
    BY <1>0, <1>5, <1>9 DEF CallFits, Updating, Funded, byHand
  <2>2. t[3] \in UnderReview => Funded(p)'
    <3>1. t[1] \in UnderReview => Funded(p)' BY <1>0, <1>3, <1>9 DEF CallFits
    <3>2. t[1] = "PAYIN_PENDING" /\ t[3] \in UnderReview => act = "PAYIN_CONFIRMED"
      BY <1>3, DepositTable
    <3> QED BY <2>1, <3>1, <3>2, <1>3, DepositTable
  <2>3. t[3] = "SUCCESS" => Credited(p)
    BY <1>0, <1>3, DepositTable DEF CallFits, Updating
  <2>4. payin[p] # "none" BY <1>0 DEF CallFits, MoneyFits
  <2> QED BY <2>2, <2>3, <2>4, <1>0, <1>5, <1>6, <1>9 DEF MoneyFits
<1>11. VerdictsFit(p)'
  <2>1. past'[p] \ {"crossed", "confirmedByHand"} = past[p] \ {"crossed", "confirmedByHand"}
    BY <1>5
  <2>2. ChannelOf(p)' = ChannelOf(p) BY <1>0 DEF ChannelOf
  <2> QED BY <2>1, <2>2, <1>0, <1>4, <1>9 DEF VerdictsFit, Vetted
<1>12. \A q \in Payin \ {p} : MoneyFits(q)' /\ VerdictsFit(q)'
  BY <1>0, <1>4, <1>5, RowStays
<1>13. CallFits(c)' /\ ApprovalFits(c)'
  <2>1. CASE act = "PAYIN_CONFIRMED" /\ call[c].by # "desk"
    <3>1. call'[c].at = "clearRead" /\ call'[c].on = p
      BY <2>1, <1>0, <1>2 DEF Updated, CallRow, On
    <3>2. Funded(p)' BY <2>1, <1>0, <1>9 DEF CallFits, Updating, Funded
    <3> QED BY <3>1, <3>2 DEF CallFits, ApprovalFits, ApprovingOn, Updating, On
  <2>2. CASE ~(act = "PAYIN_CONFIRMED" /\ call[c].by # "desk")
    BY <2>2, <1>2, RowsTyped, QuietFits DEF Updated
  <2> QED BY <2>1, <2>2
<1>14. ASSUME NEW d \in Call \ {c} PROVE CallFits(d)' /\ ApprovalFits(d)'
  <2>1. CASE call'[d].at = "gate0"
    <3>1. "gate0" \in Quiet
      BY DEF Quiet, Place, Updating
    <3> QED BY <2>1, <3>1, QuietFits
  <2>2. CASE call'[d] = call[d]
    <3>1. CallFits(d) /\ ApprovalFits(d) BY DEF DepositInv
    <3>2. CallFits(d)' BY <2>2, <3>1, <1>7, CallStays
    <3>3. CASE On(d) # p
      <4>1. Status(On(d))' = Status(On(d))
        BY <2>2, <3>3, <1>9, RowsTyped DEF On, Status
      <4> QED BY <2>2, <3>1, <3>2, <4>1, <1>7, ApprovalStays
    <3>4. CASE On(d) = p /\ act = "APPROVE"
      <4>1. Status(On(d))' = "SUCCESS"
        BY <2>2, <3>4, <1>3, <1>9, DepositTable DEF On, Status
      <4> QED BY <2>2, <3>1, <3>2, <4>1, <1>7, ApprovalStays
    <3>5. CASE On(d) = p /\ act # "APPROVE" /\ ApprovingOn(p, d)
      <4>1. "crossed" \in past'[p] BY <3>5, <1>5 DEF Crosses
      <4> QED BY <2>2, <3>2, <3>5, <4>1 DEF ApprovalFits, On
    <3>6. CASE On(d) = p /\ ~ApprovingOn(p, d)
      BY <2>2, <3>2, <3>6 DEF ApprovalFits, ApprovingOn, On
    <3> QED BY <3>3, <3>4, <3>5, <3>6
  <2> QED BY <2>1, <2>2, <1>2
<1>15. \A d \in Call \ {c} : Busy(d) => call'[d] = call[d] BY <1>2
<1>16. ASSUME NEW q \in Payin \ {p} PROVE Told(q)' /\ Confirmed(q)'
  <2>1. ASSUME NEW d \in Call, ApprovingOn(q, d) PROVE d # c /\ call'[d] = call[d]
    BY <2>1, <1>15 DEF ApprovingOn, On, Busy
  <2>2. ASSUME NEW d \in Call, On(d) = q, call[d].at \in {"depositRead", "depositWrite"}
        PROVE  d # c /\ call'[d] = call[d]
    BY <2>2, <1>15 DEF On, Busy
  <2>3. Told(q)' BY <2>1, <1>0, <1>5, <1>9 DEF Told, ApprovingOn
  <2>4. Confirmed(q)' BY <2>2, <1>0, <1>9 DEF Confirmed, On
  <2> QED BY <2>3, <2>4
<1>17. Confirmed(p)' BY <1>6, <1>9 DEF Confirmed
<1>18. Told(p)'
  <2> SUFFICES ASSUME Credited(p)', faults' = 0, "crossed" \notin past'[p], act # "APPROVE"
               PROVE  FALSE
    BY <1>3, <1>9, DepositTable DEF Told
  <2>1. ~Crosses(c) /\ "crossed" \notin past[p] BY <1>5
  <2>2. Status(p) = call[c].saw /\ \A d \in Call \ {c} : ~ApprovingOn(p, d)
    BY <2>1 DEF Crosses
  <2>3. Status(p) # "SUCCESS" BY <2>2, <1>3, DepositTable
  <2>4. ~ApprovingOn(p, c) BY <1>0 DEF ApprovingOn
  <2> QED BY <2>1, <2>2, <2>3, <2>4, <1>0, <1>9 DEF Told
<1> QED
  BY <1>8, <1>10, <1>11, <1>12, <1>13, <1>14, <1>16, <1>17, <1>18, Promises DEF DepositInv

\* The screening writes its row, and keeps the status.
LEMMA VerdictKeeps ==
  ASSUME DepositInv, TypeOK', NEW c \in Call, Alone(c),
         call[c].at \notin Updating, call'[c].at \in Quiet,
         UNCHANGED <<channel, payin, ledger, faults>>,
         NEW p \in Payin, \A q \in Payin \ {p} : deposit'[q] = deposit[q] /\ past'[q] = past[q],
         deposit'[p].status = deposit[p].status,
         past[p] \subseteq past'[p],
         VerdictsFit(p)'
  PROVE  DepositInv'
<1> TypeOK BY DEF DepositInv
<1>1. \A q \in Payin : /\ Status(q)' = Status(q) /\ Booked(q)' = Booked(q)
                       /\ Credited(q)' = Credited(q) /\ past[q] \subseteq past'[q]
  BY DEF Status, Booked, Credited
<1>2. Later BY <1>1 DEF Later, Status
<1>3. OnePayinPerHash' BY DEF DepositInv, OnePayinPerHash, ChannelOf
<1>4. \A q \in Payin : MoneyFits(q)' /\ VerdictsFit(q)'
  <2>1. \A q \in Payin \ {p} : MoneyFits(q)' /\ VerdictsFit(q)' BY RowStays
  <2>2. MoneyFits(p) BY DEF DepositInv
  <2>3. MoneyFits(p)' BY <2>2, <1>1 DEF MoneyFits, Funded
  <2> QED BY <2>1, <2>3
<1>5. \A q \in Payin : Told(q)' /\ Confirmed(q)' BY <1>1, ToldStays, ConfirmedStays
<1>6. \A d \in Call \ {c} : Status(On(d))' = Status(On(d))
  BY <1>1, RowsTyped DEF Alone, Status, On
<1> QED BY <1>2, <1>3, <1>4, <1>5, <1>6, QuietFits, Assembled

LEMMA ScreeningKeeps ==
  ASSUME DepositInv, TypeOK', NEW c \in Call,
         \/ InitializeGates(c)
         \/ \E p \in Payin, result \in {"PASSED", "FAILED"} :
              ApplyKyt(c, p, result) \/ ApplyTr(c, p, result)
  PROVE  DepositInv'
<1> TypeOK BY DEF DepositInv
<1>1. CASE InitializeGates(c)
  <2> PICK p \in Payin : p = On(c) BY RowsTyped
  <2>1. /\ call[c].at \notin Updating /\ Alone(c) /\ call'[c].at \in Quiet
        /\ UNCHANGED <<channel, payin, ledger, faults>>
    BY <1>1, RowsTyped, Moved DEF InitializeGates, Updating, Alone, counters
  <2>2. /\ \A q \in Payin \ {p} : deposit'[q] = deposit[q] /\ past'[q] = past[q]
        /\ deposit'[p].status = deposit[p].status /\ deposit'[p].kyt = deposit[p].kyt
        /\ deposit'[p].tr = IF ChannelOf(p) = "CRYPTO" THEN "PENDING" ELSE "NOT_REQUIRED"
        /\ past'[p] = past[p] \union {"gatesSet"}
    BY <1>1, StatusTyped DEF InitializeGates, Record, TypeOK, DepositRow
  <2>3. VerdictsFit(p) BY DEF DepositInv
  <2>4. VerdictsFit(p)'
    BY <2>1, <2>2, <2>3 DEF VerdictsFit, Vetted, Credited, ChannelOf
  <2> QED BY <2>1, <2>2, <2>4, VerdictKeeps
<1>2. ASSUME NEW p \in Payin, NEW result \in {"PASSED", "FAILED"},
             ApplyKyt(c, p, result) \/ ApplyTr(c, p, result)
      PROVE  DepositInv'
  <2>1. [Idle EXCEPT !.at = "check", !.on = p, !.by = "verdict"] \in CallRow
        /\ "check" \in Quiet
    BY BegunTyped DEF Place, Screening, Quiet, Updating
  <2>2. Begin(c, [Idle EXCEPT !.at = "check", !.on = p, !.by = "verdict"])
        /\ UNCHANGED <<channel, payin, ledger, faults>>
    BY <1>2 DEF ApplyKyt, ApplyTr, Screened
  <2>3. call'[c].at = "check" /\ Alone(c) /\ call[c].at \notin Updating
    BY <2>1, <2>2, RowsTyped DEF Begin, Busy, Put, Alone, Updating, TypeOK, CallRow
  <2>4. VerdictsFit(p) BY DEF DepositInv
  <2>5. CASE ApplyKyt(c, p, result)
    <3>1. /\ \A q \in Payin \ {p} : deposit'[q] = deposit[q] /\ past'[q] = past[q]
          /\ deposit'[p].status = deposit[p].status /\ deposit'[p].kyt = result
          /\ deposit'[p].tr = deposit[p].tr
          /\ past'[p] = past[p] \union
               (IF result = "FAILED" THEN {}
                ELSE {"kytPassed"} \union IF "gatesSet" \in past[p] THEN {} ELSE {"early"})
      BY <2>5, StatusTyped DEF ApplyKyt, Record, TypeOK, DepositRow
    <3>2. VerdictsFit(p)'
      BY <2>2, <2>4, <3>1 DEF VerdictsFit, Vetted, Credited, ChannelOf
    <3> QED BY <2>1, <2>2, <2>3, <3>1, <3>2, VerdictKeeps
  <2>6. CASE ApplyTr(c, p, result)
    <3>1. /\ \A q \in Payin \ {p} : deposit'[q] = deposit[q] /\ past'[q] = past[q]
          /\ deposit'[p].status = deposit[p].status /\ deposit'[p].kyt = deposit[p].kyt
          /\ deposit'[p].tr = result
          /\ past'[p] = past[p] \union IF result = "FAILED" THEN {} ELSE {"trPassed"}
      BY <2>6, StatusTyped DEF ApplyTr, Record, TypeOK, DepositRow
    <3>2. VerdictsFit(p)'
      BY <2>2, <2>4, <3>1 DEF VerdictsFit, Vetted, Credited, ChannelOf
    <3> QED BY <2>1, <2>2, <2>3, <3>1, <3>2, VerdictKeeps
  <2> QED BY <1>2, <2>5, <2>6
<1> QED BY <1>1, <1>2

LEMMA FaultKeeps ==
  ASSUME DepositInv, TypeOK', Crash \/ \E c \in Call : Fails(c)
  PROVE  DepositInv'
<1> TypeOK BY DEF DepositInv
<1>1. faults' # 0 /\ UNCHANGED <<channel, payin, deposit, ledger, past>>
  BY DEF TypeOK, Crash, Fails, Fault, rows
<1>2. Later BY <1>1 DEF Later, Status
<1>3. \A d \in Call : call'[d] = call[d] \/ call'[d].at \in Quiet
  BY RowsTyped, Moved DEF Crash, Fails, Throw
<1>4. ASSUME NEW d \in Call PROVE CallFits(d)' /\ ApprovalFits(d)'
  <2>1. CallFits(d) /\ ApprovalFits(d) BY DEF DepositInv
  <2>2. call'[d] = call[d] => Status(On(d))' = Status(On(d)) BY <1>1 DEF On, Status
  <2> QED BY <1>2, <1>3, <2>1, <2>2, CallStays, ApprovalStays, QuietFits
<1>5. \A p \in Payin : MoneyFits(p)' /\ VerdictsFit(p)' BY <1>1, RowStays
<1>6. \A p \in Payin : Told(p)' /\ Confirmed(p)' BY <1>1 DEF Told, Confirmed
<1>7. OnePayinPerHash' BY <1>1 DEF DepositInv, OnePayinPerHash, ChannelOf
<1> QED BY <1>4, <1>5, <1>6, <1>7, Promises DEF DepositInv

LEMMA Unmoved ==
  ASSUME DepositInv, TypeOK', OwnerChanges \/ UNCHANGED vars
  PROVE  DepositInv'
<1> TypeOK BY DEF DepositInv
<1>1. UNCHANGED <<channel, payin, deposit, ledger, past, call, faults>>
  BY DEF OwnerChanges, vars, rows
<1>2. Later BY <1>1 DEF Later, Status
<1>3. \A d \in Call : CallFits(d)' /\ ApprovalFits(d)'
  <2> SUFFICES ASSUME NEW d \in Call PROVE CallFits(d)' /\ ApprovalFits(d)'
    OBVIOUS
  <2>1. CallFits(d) /\ ApprovalFits(d) BY DEF DepositInv
  <2>2. Status(On(d))' = Status(On(d)) BY <1>1 DEF On, Status
  <2> QED BY <1>1, <1>2, <2>1, <2>2, CallStays, ApprovalStays
<1>4. \A p \in Payin : MoneyFits(p)' /\ VerdictsFit(p)' BY <1>1, RowStays
<1>5. ASSUME NEW p \in Payin PROVE Told(p)' /\ Confirmed(p)'
  <2>1. Told(p) /\ Confirmed(p) BY Promises DEF DepositInv
  <2> QED BY <2>1, <1>1 DEF Told, Confirmed, Credited, Booked, Status, ApprovingOn, On
<1>6. OnePayinPerHash' BY <1>1 DEF DepositInv, OnePayinPerHash, ChannelOf
<1> QED BY <1>3, <1>4, <1>5, <1>6, Promises DEF DepositInv

LEMMA Inductive == DepositInv /\ [Next]_vars => DepositInv'
<1> SUFFICES ASSUME DepositInv, [Next]_vars PROVE DepositInv'
  OBVIOUS
<1> TypeOK BY DEF DepositInv
<1>0. TypeOK'
  <2>1. UNCHANGED vars => TypeOK' BY DEF TypeOK, vars
  <2> QED BY <2>1, ScanTyped, PayinTyped, DepositTyped, OutsideTyped, FaultTyped DEF Next, Step
<1>1. CASE OwnerChanges \/ UNCHANGED vars BY <1>0, <1>1, Unmoved
<1>2. CASE Crash \/ \E c \in Call : Fails(c) BY <1>0, <1>2, FaultKeeps
<1>3. ASSUME NEW c \in Call, ScanStep(c) PROVE DepositInv'
  BY <1>0, <1>3, ScanPlain, CreatePayinKeeps DEF ScanStep
<1>4. ASSUME NEW c \in Call, PayinStep(c) PROVE DepositInv'
  BY <1>0, <1>4, LookPlain, WritePayinKeeps, OnDetectedKeeps, BookKeeps DEF PayinStep
<1>5. ASSUME NEW c \in Call, DepositStep(c) PROVE DepositInv'
  BY <1>0, <1>5, LookPlain, ReadDepositKeeps, WriteDepositKeeps, ScreeningKeeps, CreditKeeps
  DEF DepositStep
<1>6. ASSUME NEW c \in Call,
             (\E s \in Signal : Scan(c, s)) \/ \E p \in Payin : Outside(c, p)
      PROVE  DepositInv'
  BY <1>0, <1>6, BeginPlain, ScreeningKeeps DEF Outside
<1> QED BY <1>1, <1>2, <1>3, <1>4, <1>5, <1>6 DEF Next, Step

LEMMA Initially == Init => DepositInv
<1> SUFFICES ASSUME Init PROVE DepositInv
  OBVIOUS
<1>1. Idle \in CallRow /\ Idle.at = "idle" BY DepositAssumption DEF Idle, CallRow, Place
<1>2. TypeOK
  BY <1>1 DEF Init, TypeOK, SignalStatus, PayinStatus, DepositRow, NoDeposit, Verdict
<1>3. \A c \in Call : call[c].at = "idle" BY <1>1 DEF Init
<1>4. \A c \in Call : CallFits(c) /\ ApprovalFits(c)
  BY <1>3 DEF CallFits, ApprovalFits, ApprovingOn, Updating
<1>5. \A p \in Payin : MoneyFits(p) /\ VerdictsFit(p)
  BY DEF Init, MoneyFits, VerdictsFit, Booked, Credited, Status, NoDeposit, UnderReview, DepositStatus
<1>6. CreditIsTold /\ BookedIsConfirmed
  BY DEF Init, CreditIsTold, BookedIsConfirmed, Booked, Credited
<1>7. OnePayinPerHash BY DEF Init, OnePayinPerHash
<1> QED BY <1>2, <1>4, <1>5, <1>6, <1>7 DEF DepositInv

LEMMA Invariance == Spec => []DepositInv
BY Initially, Inductive, PTL DEF Spec

\* A transaction hash has one payin row, and only a payin with a row is credited.
THEOREM HashIsCreditedOnce == Spec => []OneCreditPerTransfer
<1>1. DepositInv => OneCreditPerTransfer
  BY DEF DepositInv, OnePayinPerHash, MoneyFits, OneCreditPerTransfer
<1> QED BY <1>1, Invariance, PTL

\* Suspense is paid out only when it was paid in, or the desk said so.
THEOREM SuspenseIsFunded == Spec => []SuspenseFunded
<1>1. DepositInv => SuspenseFunded
  BY DEF DepositInv, MoneyFits, SuspenseFunded, Funded
<1> QED BY <1>1, Invariance, PTL

\* SUCCESS is written by a call that has credited.
THEOREM SuccessMeansCredited == Spec => []SuccessIsCredited
<1>1. DepositInv => SuccessIsCredited
  BY DEF DepositInv, MoneyFits, SuccessIsCredited
<1> QED BY <1>1, Invariance, PTL

\* CLEARED is written by the orchestration that has booked, or by hand.
THEOREM ClearedMeansBooked == Spec => []ClearedIsBooked
<1>1. DepositInv => ClearedIsBooked
  BY DEF DepositInv, MoneyFits, ClearedIsBooked, Funded
<1> QED BY <1>1, Invariance, PTL

\* An automatic credit has the verdicts its channel asks for.
THEOREM CreditIsScreened == Spec => []ScreenedCredit
<1>1. DepositInv => ScreenedCredit
  BY DEF DepositInv, VerdictsFit, ScreenedCredit
<1> QED BY <1>1, Invariance, PTL

\* The credit becomes SUCCESS, or the call that writes it is on its way.
THEOREM CreditWillBeTold == Spec => []CreditIsTold
<1>1. DepositInv => CreditIsTold BY DEF DepositInv
<1> QED BY <1>1, Invariance, PTL

\* A booked deposit leaves PAYIN_PENDING, or the call that moves it is on its way.
THEOREM BookingWillBeConfirmed == Spec => []BookedIsConfirmed
<1>1. DepositInv => BookedIsConfirmed BY DEF DepositInv
<1> QED BY <1>1, Invariance, PTL

-----------------------------------------------------------------------------
(* DepositPromise.  A step shows at most one payin; what it shows only grows, but
   for SUCCESS, which an update of a status that is no longer there may undo.   *)

Set(S, p, in) == IF in THEN S \union {p} ELSE S \ {p}

\* What a step of one payin shows.
LEMMA Shown ==
  ASSUME NEW p \in Payin, channel' = channel,
         \A q \in Payin \ {p} : /\ past'[q] = past[q] /\ ledger'[q] = ledger[q]
                                /\ Status(q)' = Status(q)
  PROVE  /\ OnChain' = OnChain
         /\ {q \in Payin : Vetted(q)}' = Set({q \in Payin : Vetted(q)}, p, Vetted(p)')
         /\ {q \in Payin : Booked(q)}' = Set({q \in Payin : Booked(q)}, p, Booked(p)')
         /\ {q \in Payin : Credited(q)}' = Set({q \in Payin : Credited(q)}, p, Credited(p)')
         /\ {q \in Payin : Status(q) = "SUCCESS"}'
              = Set({q \in Payin : Status(q) = "SUCCESS"}, p, Status(p)' = "SUCCESS")
<1>1. OnChain' = OnChain
  BY DEF OnChain
<1>2. \A q \in Payin \ {p} : /\ Vetted(q)' <=> Vetted(q)
                             /\ Booked(q)' <=> Booked(q)
                             /\ Credited(q)' <=> Credited(q)
  BY DEF Vetted, Booked, Credited, ChannelOf
<1>3. {q \in Payin : Vetted(q)}' = Set({q \in Payin : Vetted(q)}, p, Vetted(p)')
  BY <1>2 DEF Set
<1>4. {q \in Payin : Booked(q)}' = Set({q \in Payin : Booked(q)}, p, Booked(p)')
  BY <1>2 DEF Set
<1>5. {q \in Payin : Credited(q)}' = Set({q \in Payin : Credited(q)}, p, Credited(p)')
  BY <1>2 DEF Set
<1>6. {q \in Payin : Status(q) = "SUCCESS"}'
        = Set({q \in Payin : Status(q) = "SUCCESS"}, p, Status(p)' = "SUCCESS")
  BY DEF Set
<1> QED
  BY <1>1, <1>3, <1>4, <1>5, <1>6

\* A step that leaves the money, the facts and the statuses alone shows nothing.
LEMMA NothingShown ==
  ASSUME UNCHANGED <<channel, ledger, past>>, \A q \in Payin : Status(q)' = Status(q)
  PROVE  UNCHANGED Promise!vars
BY DEF Promise!vars, OnChain, Knows, Vetted, Booked, Credited, ChannelOf

\* The first transfer is of the one payin its hash has.
LEMMA BookPromised ==
  ASSUME DepositInv, NEW c \in Call, Book(c)
  PROVE  [Promise!Next]_(Promise!vars)
<1> TypeOK BY DEF DepositInv
<1> PICK p \in Payin : p = On(c) BY RowsTyped
<1>1. /\ call[c].at = "book" /\ UNCHANGED <<channel, payin, deposit, past>>
      /\ Transfer(p, "STEP_1")
  BY DEF Book
<1>2. /\ ledger'[p] = ledger[p] \union {"STEP_1"}
      /\ \A q \in Payin \ {p} : ledger'[q] = ledger[q]
  BY <1>1, Transferred
<1>3. \A q \in Payin : Status(q)' = Status(q)
  BY <1>1 DEF Status
<1>4. /\ Vetted(p)' <=> Vetted(p)
      /\ Credited(p)' <=> Credited(p)
      /\ Booked(p)'
  BY <1>1, <1>2 DEF Vetted, Credited, Booked, ChannelOf
<1>5. SignalOf[p] \in OnChain =>
        \A q \in {q \in Payin : Booked(q)} : SignalOf[q] = SignalOf[p] => q = p
  <2> SUFFICES ASSUME ChannelOf(p) = "CRYPTO",
                      NEW q \in Payin, Booked(q), SignalOf[q] = SignalOf[p]
               PROVE  q = p
    BY DEF OnChain, ChannelOf
  <2>1. payin[q] # "none"
    BY DEF DepositInv, MoneyFits
  <2>2. payin[p] # "none"
    BY <1>1 DEF DepositInv, MoneyFits, CallFits
  <2> QED
    BY <2>1, <2>2 DEF DepositInv, OnePayinPerHash
<1>6. Promise!Book(p)
  BY <1>1, <1>2, <1>3, <1>4, <1>5, Shown DEF Promise!Book, Set, Knows
<1> QED
  BY <1>6 DEF Promise!Next

\* A call that credits has found money on the books, and the verdicts or the desk.
LEMMA CreditPromised ==
  ASSUME DepositInv, NEW c \in Call, Credit(c)
  PROVE  [Promise!Next]_(Promise!vars)
<1> TypeOK BY DEF DepositInv
<1> PICK p \in Payin : p = On(c) BY RowsTyped
<1> DEFINE facts == IF call[c].by = "desk" THEN {"approvedByHand"} ELSE {}
<1>1. /\ call[c].at = "credit" /\ UNCHANGED <<channel, deposit>> /\ CallFits(c)
      /\ Transfer(p, "STEP_2") /\ Record(p, facts)
  BY DEF Credit, DepositInv
<1>2. /\ ledger'[p] = ledger[p] \union {"STEP_2"}
      /\ \A q \in Payin \ {p} : ledger'[q] = ledger[q]
      /\ past'[p] = past[p] \union facts
      /\ \A q \in Payin \ {p} : past'[q] = past[q]
  BY <1>1, Transferred DEF Record, TypeOK
<1>3. \A q \in Payin : Status(q)' = Status(q)
  BY <1>1 DEF Status
<1>4. /\ Vetted(p)' <=> Vetted(p)
      /\ Booked(p)' <=> Booked(p)
      /\ Credited(p)'
      /\ \A fact \in {"confirmedByHand", "crossed"} : fact \in past'[p] <=> fact \in past[p]
  BY <1>1, <1>2 DEF Vetted, Credited, Booked, ChannelOf
<1>5. Booked(p) \/ p \in Knows("confirmedByHand")
  BY <1>1 DEF CallFits, Funded, Knows
<1>6. \/ Vetted(p) /\ Knows("approvedByHand")' = Knows("approvedByHand")
      \/ Knows("approvedByHand")' = Knows("approvedByHand") \union {p}
  BY <1>1, <1>2 DEF CallFits, Knows
<1>7. /\ Knows("confirmedByHand")' = Knows("confirmedByHand")
      /\ Knows("crossed")' = Knows("crossed")
  BY <1>2, <1>4 DEF Knows
<1>8. Promise!Credit(p)
  BY <1>1, <1>2, <1>3, <1>4, <1>5, <1>6, <1>7, Shown DEF Promise!Credit, Set
<1> QED
  BY <1>8 DEF Promise!Next

\* SUCCESS is told of a credit; it is undone only by an update that had read another
\* status, which is to say that has crossed the approval.
LEMMA UpdatePromised ==
  ASSUME DepositInv, NEW c \in Call, WriteDeposit(c)
  PROVE  [Promise!Next]_(Promise!vars)
<1> TypeOK BY DEF DepositInv
<1> PICK p \in Payin : p = On(c) BY RowsTyped
<1> DEFINE byHand == call[c].act = "PAYIN_CONFIRMED" /\ call[c].by = "desk"
           facts == (IF Crosses(c) THEN {"crossed"} ELSE {}) \union
                      (IF byHand THEN {"confirmedByHand"} ELSE {})
<1>1. /\ call[c].at = "depositWrite" /\ UNCHANGED <<channel, ledger>> /\ CallFits(c)
      /\ Record(p, facts)
  BY DEF WriteDeposit, DepositInv
<1>2. PICK t \in NextDeposit(c, call[c].saw) : deposit' = [deposit EXCEPT ![p].status = t[3]]
  BY DEF WriteDeposit
<1>3. /\ t \in DepositTransitions /\ t[1] = call[c].saw /\ t[2] = call[c].act
      /\ t[1] # "SUCCESS" /\ (t[3] = "SUCCESS" <=> call[c].act = "APPROVE")
  BY DepositTable DEF NextDeposit
<1>4. Status(p)' = t[3] /\ \A q \in Payin \ {p} : Status(q)' = Status(q)
  BY <1>2, StatusTyped DEF Status, TypeOK, DepositRow
<1>5. /\ past'[p] = past[p] \union facts
      /\ \A q \in Payin \ {p} : past'[q] = past[q]
  BY <1>1 DEF Record, TypeOK
<1>6. /\ Vetted(p)' <=> Vetted(p)
      /\ Booked(p)' <=> Booked(p)
      /\ Credited(p)' <=> Credited(p)
  BY <1>1, <1>5 DEF Vetted, Credited, Booked, ChannelOf
<1>7. /\ OnChain' = OnChain
      /\ {q \in Payin : Vetted(q)}' = {q \in Payin : Vetted(q)}
      /\ {q \in Payin : Booked(q)}' = {q \in Payin : Booked(q)}
      /\ {q \in Payin : Credited(q)}' = {q \in Payin : Credited(q)}
      /\ {q \in Payin : Status(q) = "SUCCESS"}'
           = Set({q \in Payin : Status(q) = "SUCCESS"}, p, t[3] = "SUCCESS")
  BY <1>1, <1>4, <1>5, <1>6, Shown DEF Set
<1>8. Knows("approvedByHand")' = Knows("approvedByHand")
  BY <1>5 DEF Knows
<1>9. Knows("confirmedByHand")'
        = IF byHand THEN Knows("confirmedByHand") \union {p} ELSE Knows("confirmedByHand")
  BY <1>5 DEF Knows
<1>10. Knows("crossed")'
         = IF Crosses(c) THEN Knows("crossed") \union {p} ELSE Knows("crossed")
  BY <1>5 DEF Knows
<1> HIDE DEF byHand, facts
<1>11. CASE Crosses(c)
  <2>1. t[3] # "SUCCESS"
    BY <1>3, <1>11 DEF Crosses
  <2>2. {q \in Payin : Status(q) = "SUCCESS"}' \in
          {{q \in Payin : Status(q) = "SUCCESS"}, {q \in Payin : Status(q) = "SUCCESS"} \ {p}}
    BY <1>7, <2>1 DEF Set
  <2>3. Promise!Cross(p)
    BY <1>7, <1>8, <1>9, <1>10, <1>11, <2>2 DEF Promise!Cross
  <2> QED
    BY <2>3 DEF Promise!Next
<1>12. CASE call[c].act = "APPROVE"
  <2>1. Credited(p)
    BY <1>1, <1>12 DEF CallFits, Updating
  <2>2. ~Crosses(c) /\ ~byHand
    BY <1>12 DEF Crosses, byHand
  <2>3. Promise!Tell(p)
    BY <1>3, <1>7, <1>8, <1>9, <1>10, <1>12, <2>1, <2>2 DEF Promise!Tell, Set
  <2> QED
    BY <2>3 DEF Promise!Next
<1>13. CASE ~Crosses(c) /\ call[c].act # "APPROVE"
  <2>1. Status(p) # "SUCCESS" /\ t[3] # "SUCCESS"
    BY <1>3, <1>13 DEF Crosses
  <2>2. {q \in Payin : Status(q) = "SUCCESS"}' = {q \in Payin : Status(q) = "SUCCESS"}
    BY <1>7, <2>1 DEF Set
  <2>3. CASE byHand
    <3>1. Promise!Vouch(p)
      BY <1>7, <1>8, <1>9, <1>10, <1>13, <2>2, <2>3 DEF Promise!Vouch
    <3> QED
      BY <3>1 DEF Promise!Next
  <2>4. CASE ~byHand
    BY <1>7, <1>8, <1>9, <1>10, <1>13, <2>2, <2>4 DEF Promise!vars
  <2> QED
    BY <2>3, <2>4
<1> QED
  BY <1>11, <1>12, <1>13

\* A verdict may make a deposit screened, and takes that from none.
LEMMA VerdictPromised ==
  ASSUME DepositInv, NEW c \in Call, NEW p \in Payin, NEW result \in {"PASSED", "FAILED"},
         ApplyKyt(c, p, result) \/ ApplyTr(c, p, result)
  PROVE  [Promise!Next]_(Promise!vars)
<1> TypeOK BY DEF DepositInv
<1> DEFINE learned == {"kytPassed", "trPassed", "early"}
<1>1. UNCHANGED <<channel, ledger>>
  BY DEF ApplyKyt, ApplyTr
<1>2. \A q \in Payin : Status(q)' = Status(q)
  BY StatusTyped DEF ApplyKyt, ApplyTr, Status, TypeOK, DepositRow
<1>3. PICK facts \in SUBSET learned : Record(p, facts) /\ ("early" \in facts => "kytPassed" \in facts)
  <2>1. ApplyKyt(c, p, result) =>
          Record(p, IF result = "FAILED" THEN {}
                    ELSE {"kytPassed"} \union IF "gatesSet" \in past[p] THEN {} ELSE {"early"})
    BY DEF ApplyKyt
  <2>2. ApplyTr(c, p, result) => Record(p, IF result = "FAILED" THEN {} ELSE {"trPassed"})
    BY DEF ApplyTr
  <2> QED
    BY <2>1, <2>2
<1>4. past'[p] = past[p] \union facts /\ \A q \in Payin \ {p} : past'[q] = past[q]
  BY <1>3 DEF Record, TypeOK
<1>5. /\ Vetted(p) => Vetted(p)'
      /\ Booked(p)' <=> Booked(p)
      /\ Credited(p)' <=> Credited(p)
      /\ \A fact \in {"confirmedByHand", "approvedByHand", "crossed"} :
           fact \in past'[p] <=> fact \in past[p]
  BY <1>1, <1>4 DEF Vetted, Credited, Booked, ChannelOf
<1>6. \A fact \in {"confirmedByHand", "approvedByHand", "crossed"} : Knows(fact)' = Knows(fact)
  BY <1>4, <1>5 DEF Knows
<1>7. /\ OnChain' = OnChain
      /\ {q \in Payin : Booked(q)}' = {q \in Payin : Booked(q)}
      /\ {q \in Payin : Credited(q)}' = {q \in Payin : Credited(q)}
      /\ {q \in Payin : Status(q) = "SUCCESS"}' = {q \in Payin : Status(q) = "SUCCESS"}
      /\ {q \in Payin : Vetted(q)}' = Set({q \in Payin : Vetted(q)}, p, Vetted(p)')
  BY <1>1, <1>2, <1>4, <1>5, Shown DEF Set
<1>8. CASE Vetted(p)'
  <2>1. Promise!Screen(p)
    BY <1>6, <1>7, <1>8 DEF Promise!Screen, Set
  <2> QED
    BY <2>1 DEF Promise!Next
<1>9. CASE ~Vetted(p)'
  BY <1>5, <1>6, <1>7, <1>9 DEF Promise!vars, Set
<1> QED
  BY <1>8, <1>9

\* A patch that clears a payin, the creation of the deposit and its gates show nothing.
LEMMA RowsUnseen ==
  ASSUME DepositInv, NEW c \in Call, WritePayin(c) \/ OnDetected(c) \/ InitializeGates(c)
  PROVE  UNCHANGED Promise!vars
<1> TypeOK BY DEF DepositInv
<1> PICK p \in Payin : p = On(c) BY RowsTyped
<1>1. UNCHANGED <<channel, ledger>>
  BY DEF WritePayin, OnDetected, InitializeGates
<1>2. PICK facts \in SUBSET {"clearedByHand", "gatesSet"} :
        /\ past'[p] = past[p] \union facts
        /\ \A q \in Payin \ {p} : past'[q] = past[q]
  <2>1. WritePayin(c) => \E facts \in SUBSET {"clearedByHand", "gatesSet"} : Record(p, facts)
    BY DEF WritePayin
  <2>2. InitializeGates(c) => Record(p, {"gatesSet"})
    BY DEF InitializeGates
  <2>3. CASE OnDetected(c)
    <3>1. past' = past
      BY <2>3 DEF OnDetected
    <3> WITNESS {} \in SUBSET {"clearedByHand", "gatesSet"}
    <3> QED
      BY <3>1
  <2>4. ASSUME NEW facts \in SUBSET {"clearedByHand", "gatesSet"}, Record(p, facts)
        PROVE  /\ past'[p] = past[p] \union facts
               /\ \A q \in Payin \ {p} : past'[q] = past[q]
    BY <2>4 DEF Record, TypeOK
  <2> QED
    BY <2>1, <2>2, <2>3, <2>4
<1>3. \A q \in Payin : Status(q)' = Status(q) \/ {Status(q), Status(q)'} \subseteq {"none", "PAYIN_PENDING"}
  BY StatusTyped DEF WritePayin, OnDetected, InitializeGates, Status, TypeOK, DepositRow
<1>4. /\ OnChain' = OnChain
      /\ \A q \in Payin : /\ Vetted(q)' <=> Vetted(q)
                          /\ Booked(q)' <=> Booked(q)
                          /\ Credited(q)' <=> Credited(q)
                          /\ Status(q)' = "SUCCESS" <=> Status(q) = "SUCCESS"
      /\ \A fact \in {"confirmedByHand", "approvedByHand", "crossed"} : Knows(fact)' = Knows(fact)
  BY <1>1, <1>2, <1>3 DEF OnChain, Vetted, Booked, Credited, ChannelOf, Knows
<1> QED
  BY <1>4 DEF Promise!vars

\* Every step is one of the promise, or shows nothing.
LEMMA PromiseStep == DepositInv /\ [Next]_vars => [Promise!Next]_(Promise!vars)
<1> SUFFICES ASSUME DepositInv, [Next]_vars PROVE [Promise!Next]_(Promise!vars)
  OBVIOUS
<1>1. ASSUME UNCHANGED <<channel, deposit, ledger, past>> PROVE UNCHANGED Promise!vars
  BY <1>1, NothingShown DEF Status
<1>2. ASSUME NEW c \in Call, ScanStep(c) PROVE UNCHANGED Promise!vars
  BY <1>1, <1>2 DEF ScanStep, MarkIgnored, MarkFailed, FindPayin, CreatePayin, AdvancePayin,
                    ClearIfUnderReview, LinkSignal, rows
<1>3. ASSUME NEW c \in Call, PayinStep(c) PROVE [Promise!Next]_(Promise!vars)
  <2>1. ReadPayin(c) \/ OnFailed(c) \/ OnConfirmed(c) => UNCHANGED Promise!vars
    BY <1>1 DEF ReadPayin, OnFailed, OnConfirmed, rows
  <2> QED
    BY <1>3, <2>1, RowsUnseen, BookPromised DEF PayinStep
<1>4. ASSUME NEW c \in Call, DepositStep(c) PROVE [Promise!Next]_(Promise!vars)
  <2>1. ReadDeposit(c) \/ Gate0(c) \/ CheckVerdicts(c) \/ CheckOwner(c) \/ ApproveLook(c)
          => UNCHANGED Promise!vars
    BY <1>1 DEF ReadDeposit, Gate0, CheckVerdicts, CheckOwner, ApproveLook, rows
  <2> QED
    BY <1>4, <2>1, RowsUnseen, UpdatePromised, CreditPromised DEF DepositStep
<1>5. ASSUME NEW c \in Call, NEW p \in Payin, Outside(c, p)
      PROVE  [Promise!Next]_(Promise!vars)
  <2>1. (\E act \in RailAction : Rail(c, p, act)) \/ (\E act \in DeskAction : Desk(c, p, act))
          => UNCHANGED Promise!vars
    BY <1>1 DEF Rail, Desk, rows
  <2> QED
    BY <1>5, <2>1, VerdictPromised DEF Outside
<1>6. ASSUME \/ \E c \in Call : Fails(c) \/ \E s \in Signal : Scan(c, s)
             \/ OwnerChanges \/ Crash \/ UNCHANGED vars
      PROVE  UNCHANGED Promise!vars
  BY <1>1, <1>6 DEF Fails, Scan, OwnerChanges, Crash, vars, rows
<1> QED
  BY <1>2, <1>3, <1>4, <1>5, <1>6 DEF Next, Step

\* The money of deposits moves as DepositPromise says, in steps of its own, for any
\* payins, calls and faults: whatever is stale when it is written, no transfer is made
\* before its ground, none is taken back, and SUCCESS is undone by a crossing only.
THEOREM DepositKeepsPromise == Spec => KeepsPromise
<1>1. Init => Promise!Init
  BY DEF Init, Promise!Init, OnChain, Knows, Vetted, Booked, Credited, Status, NoDeposit
<1>2. DepositInv /\ [Next]_vars => [Promise!Next]_(Promise!vars)
  BY PromiseStep
<1> QED
  BY <1>1, <1>2, Invariance, PTL DEF Spec, KeepsPromise, Promise!Spec
=============================================================================
