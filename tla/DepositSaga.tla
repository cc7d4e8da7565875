----------------------------- MODULE DepositSaga -----------------------------
(***************************************************************************)
(* A deposit, from the signal a customer sends to the credit: the scan     *)
(* that turns the signal into a payin, the payin's own progress, the       *)
(* deposit orchestrated from its events, the screening verdicts, the       *)
(* desk, and the two transfers CLIENT_ASSET -> DEPOSIT_SUSPENSE ("STEP_1") *)
(* and DEPOSIT_SUSPENSE -> CLIENT_PAYABLE ("STEP_2").                      *)
(*                                                                         *)
(* Nothing here runs in a transaction: every status update reads a row and *)
(* writes it by id one await later.  A call is a row of `call`, one action *)
(* per await.  Events of a payin are awaited by the call that causes them  *)
(* (emitAsync), the event of a deposit is not: it starts a call (gate 0).  *)
(* A deposit has the name of its payin, payinId being unique.              *)
(***************************************************************************)
EXTENDS DepositStates, Naturals

CONSTANTS
  Payin,       \* names of payin rows
  Signal,      \* inbound transfer signals
  SignalOf,    \* the signal a payin row would be created for
  Referenced,  \* the payins that carry a referenceNo
  Calls,       \* bound: calls at work at once
  DeskAction,  \* the status patches the desk makes
  RailAction,  \* the payin events and patches from outside
  MaxEvents    \* bound: what comes from outside, and what fails, in a behaviour

ASSUME DepositAssumption ==
  /\ SignalOf \in [Payin -> Signal]
  /\ Payin # {} /\ \A s \in Signal : \E p \in Payin : SignalOf[p] = s
  /\ Referenced \subseteq Payin
  /\ Calls \in Nat /\ MaxEvents \in Nat
  /\ DeskAction \subseteq DepositAction
  /\ RailAction \subseteq PayinAction

VARIABLES
  channel,  \* the channel type of each signal
  signal,   \* the status of each signal
  owner,    \* whether the customer's compliance status is normal
  payin,    \* the status of each payin
  deposit,  \* status, kytStatus and travelRuleStatus of each deposit
  ledger,   \* the transfers TigerBeetle has of each deposit
  past,     \* what has happened to each deposit (for the properties)
  call,     \* the calls at work
  events,   \* how many requests, verdicts, owner changes and faults so far
  faults    \* how many of them were failed calls and crashes

vars == <<channel, signal, owner, payin, deposit, ledger, past, call, events, faults>>
counters == <<events, faults>>
rows == <<signal, payin, deposit, ledger, past>>

Call == 1..Calls
Channel == {"CRYPTO", "FIAT"}
SignalStatus == {"PENDING_SCAN", "PAYIN_CREATED", "IGNORED", "FAILED"}
Verdict == {"PENDING", "PASSED", "FAILED", "NOT_REQUIRED"}
DepositRow == [status : DepositStatus \union {"none"}, kyt : Verdict, tr : Verdict]
Fact == {"kytPassed", "trPassed", "gatesSet", "early",
         "confirmedByHand", "clearedByHand", "approvedByHand", "crossed"}

\* Handlers of payin events; an exception there is suppressed.
Handling == {"detected", "failed", "confirmed", "book", "clearRead", "clearWrite"}
Screening == {"check", "ownerCheck"}
Approving == {"approve", "credit"}
Scanning == {"find", "create", "advance", "confirming", "clearing", "link",
             "giveUp", "ignore"}
Place == {"idle", "payinRead", "payinWrite", "depositRead", "depositWrite",
          "gate0", "initialize"} \union Handling \union Screening \union Approving
            \union Scanning
\* The row of a call: where it is, whose payin it works on, who made it, the
\* action it is applying, the status it has read, and where a scan goes on.
CallRow == [at : Place, on : Payin, by : {"scan", "rail", "gate", "verdict", "desk"},
            act : DepositAction \union PayinAction \union {"-"},
            saw : DepositStatus \union PayinStatus \union {"none"},
            back : {"idle", "advance", "confirming", "clearing", "link"}]

\* Every variable holds values of its kind.
TypeOK ==
  /\ channel \in [Signal -> Channel] /\ signal \in [Signal -> SignalStatus]
  /\ owner \in {"CLEAR", "FROZEN"}
  /\ payin \in [Payin -> PayinStatus \union {"none"}]
  /\ deposit \in [Payin -> DepositRow]
  /\ ledger \in [Payin -> SUBSET {"STEP_1", "STEP_2"}]
  /\ past \in [Payin -> SUBSET Fact]
  /\ call \in [Call -> CallRow]
  /\ events \in Nat /\ faults \in Nat

NoDeposit == [status |-> "none", kyt |-> "PENDING", tr |-> "NOT_REQUIRED"]
Idle == [at |-> "idle", on |-> CHOOSE p \in Payin : TRUE, by |-> "rail",
         act |-> "-", saw |-> "none", back |-> "idle"]

Init ==
  /\ channel \in [Signal -> Channel]
  /\ signal = [s \in Signal |-> "PENDING_SCAN"]
  /\ owner = "CLEAR"
  /\ payin = [p \in Payin |-> "none"] /\ deposit = [p \in Payin |-> NoDeposit]
  /\ ledger = [p \in Payin |-> {}] /\ past = [p \in Payin |-> {}]
  /\ call = [c \in Call |-> Idle]
  /\ events = 0 /\ faults = 0

Booked(p) == "STEP_1" \in ledger[p]
Credited(p) == "STEP_2" \in ledger[p]
Status(p) == deposit[p].status
ChannelOf(p) == channel[SignalOf[p]]
Created(s) == {p \in Payin : SignalOf[p] = s /\ payin[p] # "none"}

Busy(c) == call[c].at # "idle"
On(c) == call[c].on
Put(c, row) == call' = [call EXCEPT ![c] = row]
Go(c, place) == Put(c, [call[c] EXCEPT !.at = place])
\* A handler is over: the call goes on where it was waiting.
Resumed(c) == IF call[c].back = "idle" THEN Idle
              ELSE [call[c] EXCEPT !.at = call[c].back, !.act = "-", !.saw = "none"]
\* An exception: suppressed in a handler, the end of a call elsewhere.
Thrown(c) ==
  CASE call[c].at \in Handling -> Resumed(c)
    [] call[c].at \in {"depositRead", "depositWrite"} -> Resumed(c)
    [] call[c].at \in Scanning \ {"giveUp", "ignore"} ->
         [call[c] EXCEPT !.at = "giveUp", !.act = "-", !.saw = "none"]
    [] call[c].at \in {"payinRead", "payinWrite"} /\ call[c].by = "scan" ->
         [call[c] EXCEPT !.at = "giveUp", !.act = "-", !.saw = "none"]
    [] OTHER -> Idle
Throw(c) == Put(c, Thrown(c))
Record(p, facts) == past' = [past EXCEPT ![p] = @ \union facts]

Event == events < MaxEvents /\ events' = events + 1

\* A request from outside takes a free row of `call`, and leaves one for the
\* event it may emit.
Begin(c, row) ==
  /\ ~Busy(c) /\ \A d \in Call : ~Busy(d) => c <= d
  /\ \E d \in Call \ {c} : ~Busy(d)
  /\ Put(c, row)
  /\ Event

-----------------------------------------------------------------------------
\* scanForCustomer, for one of the signals it has found.
Scan(c, s) ==
  /\ signal[s] = "PENDING_SCAN"
  /\ \E place \in {"find", "ignore"} :
       /\ place = "find" => owner = "CLEAR"
       /\ Begin(c, [Idle EXCEPT !.at = place, !.by = "scan",
            !.on = CHOOSE p \in Payin : SignalOf[p] = s])
  /\ UNCHANGED <<rows, channel, owner, faults>>

SetSignal(c, status) == signal' = [signal EXCEPT ![SignalOf[On(c)]] = status]

MarkIgnored(c) ==
  /\ call[c].at = "ignore"
  /\ SetSignal(c, "IGNORED")
  /\ Put(c, Idle)
  /\ UNCHANGED <<channel, owner, payin, deposit, ledger, past, counters>>

MarkFailed(c) ==
  /\ call[c].at = "giveUp"
  /\ SetSignal(c, "FAILED")
  /\ Put(c, Idle)
  /\ UNCHANGED <<channel, owner, payin, deposit, ledger, past, counters>>

\* In INTERACTIVE mode the scan stops at the payin.
AfterPayin == {"advance", "link"}

\* resolveExistingPayin.
FindPayin(c) ==
  /\ call[c].at = "find"
  /\ LET found == Created(SignalOf[On(c)]) IN
     IF found = {} THEN Go(c, "create")
     ELSE \E p \in found, mode \in AfterPayin :
            Put(c, [call[c] EXCEPT !.at = mode, !.on = p, !.saw = payin[p]])
  /\ UNCHANGED <<rows, channel, owner, counters>>

\* The name of the next payin of a signal (none, if all are taken).
NewName(s) ==
  LET free == {p \in Payin : SignalOf[p] = s /\ payin[p] = "none"}
  IN  {p \in free : p = CHOOSE q \in free : TRUE}

\* Mutant: without the unique index on hash, asset and address.
CreatePayinTwice(c) ==
  /\ call[c].at = "create"
  /\ \E p \in NewName(SignalOf[On(c)]), mode \in AfterPayin :
       /\ payin' = [payin EXCEPT ![p] = "DETECTED"]
       /\ Put(c, [call[c] EXCEPT !.at = "detected", !.on = p, !.back = mode])
  /\ UNCHANGED <<channel, signal, owner, deposit, ledger, past, counters>>

\* createDetected.  A second payin for one transaction hash is refused by a
\* unique index; a bank transfer has no hash.
CreatePayin(c) ==
  /\ call[c].at = "create"
  /\ LET s == SignalOf[On(c)] IN
     \/ /\ channel[s] = "CRYPTO" /\ Created(s) # {}
        /\ Throw(c)
        /\ UNCHANGED payin
     \/ /\ ~(channel[s] = "CRYPTO" /\ Created(s) # {})
        /\ \E p \in NewName(s), mode \in AfterPayin :
             /\ payin' = [payin EXCEPT ![p] = "DETECTED"]
             /\ Put(c, [call[c] EXCEPT !.at = "detected", !.on = p, !.back = mode])
  /\ UNCHANGED <<channel, signal, owner, deposit, ledger, past, counters>>

\* One step of advancePayin: the update to make, and where to go on after it.
Push(c, act, back) ==
  Put(c, [call[c] EXCEPT !.at = "payinRead", !.act = act, !.back = back])
Link(c) == Put(c, [call[c] EXCEPT !.at = "link", !.saw = payin[On(c)]])
AdvancePayin(c) ==
  /\ call[c].at \in {"advance", "confirming"}
  /\ LET status == payin[On(c)] IN
     CASE status = "DETECTED" /\ call[c].at = "advance" ->
            Push(c, IF ChannelOf(On(c)) = "CRYPTO" THEN "BLOCK" ELSE "CONFIRM", "confirming")
       [] status = "CONFIRMING" -> Push(c, "CONFIRM", "clearing")
       [] status = "CONFIRMED" -> Go(c, "clearing")
       [] OTHER -> Link(c)
  /\ UNCHANGED <<rows, channel, owner, counters>>

ClearIfUnderReview(c) ==
  /\ call[c].at = "clearing"
  /\ IF payin[On(c)] = "CONFIRMED" /\ Status(On(c)) = "COMPLIANCE_PENDING"
     THEN Push(c, "CLEAR", "link") ELSE Link(c)
  /\ UNCHANGED <<rows, channel, owner, counters>>

\* The signal gets its payin; a failed payin makes it a failed signal after all.
LinkSignal(c) ==
  /\ call[c].at = "link"
  /\ SetSignal(c, "PAYIN_CREATED")
  /\ IF call[c].saw = "FAILED" THEN Throw(c) ELSE Put(c, Idle)
  /\ UNCHANGED <<channel, owner, payin, deposit, ledger, past, counters>>

-----------------------------------------------------------------------------
\* PayinsService.updateStatus, for a scan, a mock event, a status patch or, as
\* "clearRead" and "clearWrite", for orchestratePayinConfirmed.
Rail(c, p, act) ==
  /\ payin[p] # "none"
  /\ act \in RailAction
  /\ Begin(c, [Idle EXCEPT !.at = "payinRead", !.on = p, !.act = act])
  /\ UNCHANGED <<rows, channel, owner, faults>>

NextPayin(c, status) ==
  {t \in PayinTransitions(ChannelOf(On(c))) : t[1] = status /\ t[2] = call[c].act}

\* A CLEARED payin must carry a referenceNo.
ReadPayin(c) ==
  /\ call[c].at \in {"payinRead", "clearRead"}
  /\ IF \/ NextPayin(c, payin[On(c)]) = {}
        \/ call[c].act = "CLEAR" /\ On(c) \notin Referenced
     THEN Throw(c)
     ELSE Put(c, [call[c] EXCEPT !.saw = payin[On(c)],
            !.at = IF call[c].at = "payinRead" THEN "payinWrite" ELSE "clearWrite"])
  /\ UNCHANGED <<rows, channel, owner, counters>>

Handler(status) ==
  CASE status = "DETECTED" -> "detected"
    [] status = "FAILED" -> "failed"
    [] status = "CONFIRMED" -> "confirmed"
    [] OTHER -> "none"

WritePayin(c) ==
  /\ call[c].at \in {"payinWrite", "clearWrite"}
  /\ \E t \in NextPayin(c, call[c].saw) :
       /\ payin' = [payin EXCEPT ![On(c)] = t[3]]
       /\ IF Handler(t[3]) = "none" THEN Put(c, Resumed(c)) ELSE Go(c, Handler(t[3]))
  /\ Record(On(c), IF call[c].act = "CLEAR" /\ call[c].by = "rail"
                      /\ call[c].at = "payinWrite" THEN {"clearedByHand"} ELSE {})
  /\ UNCHANGED <<channel, signal, owner, deposit, ledger, counters>>

-----------------------------------------------------------------------------
\* The orchestration of payin events.

\* orchestratePayinDetected: payinId is unique, so a deposit is created once.
OnDetected(c) ==
  /\ call[c].at = "detected"
  /\ deposit' = IF Status(On(c)) # "none" THEN deposit
                ELSE [deposit EXCEPT ![On(c)].status = "PAYIN_PENDING"]
  /\ Put(c, Resumed(c))
  /\ UNCHANGED <<channel, signal, owner, payin, ledger, past, counters>>

Update(c, act) == Put(c, [call[c] EXCEPT !.at = "depositRead", !.act = act])

\* orchestratePayinFailed.
OnFailed(c) ==
  /\ call[c].at = "failed"
  /\ IF Status(On(c)) \in {"none", "FAILED", "FROZEN", "REJECTED"}
     THEN Put(c, Resumed(c)) ELSE Update(c, "FAIL")
  /\ UNCHANGED <<rows, channel, owner, counters>>

\* orchestratePayinConfirmed up to the first transfer.
OnConfirmed(c) ==
  /\ call[c].at = "confirmed"
  /\ IF Status(On(c)) = "PAYIN_PENDING" /\ payin[On(c)] # "CLEARED"
     THEN Go(c, "book") ELSE Put(c, Resumed(c))
  /\ UNCHANGED <<rows, channel, owner, counters>>

Transfer(p, step) == ledger' = [ledger EXCEPT ![p] = @ \union {step}]

\* Mutant: a transfer that fails is logged and passed over.
BookBestEffort(c) ==
  /\ call[c].at = "book"
  /\ Transfer(On(c), "STEP_1") \/ UNCHANGED ledger
  /\ Update(c, "PAYIN_CONFIRMED")
  /\ UNCHANGED <<channel, signal, owner, payin, deposit, past, counters>>

\* Mutant: the status is left to the event of the transfer.
BookOnly(c) ==
  /\ call[c].at = "book"
  /\ Transfer(On(c), "STEP_1")
  /\ Put(c, Resumed(c))
  /\ UNCHANGED <<channel, signal, owner, payin, deposit, past, counters>>

\* executeDepositAccounting STEP_1.  The transfer id is derived from depositNo,
\* so TigerBeetle has it once.
Book(c) ==
  /\ call[c].at = "book"
  /\ Transfer(On(c), "STEP_1")
  /\ Update(c, "PAYIN_CONFIRMED")
  /\ UNCHANGED <<channel, signal, owner, payin, deposit, past, counters>>

-----------------------------------------------------------------------------
\* DepositTransactionsService.updateStatus: getNextStatus on what was read, then
\* a write by id.  The event of COMPLIANCE_PENDING starts gate 0 as a call of
\* its own.
NextDeposit(c, status) ==
  {t \in DepositTransitions : t[1] = status /\ t[2] = call[c].act}

ReadDeposit(c) ==
  /\ call[c].at = "depositRead"
  /\ IF NextDeposit(c, Status(On(c))) = {} THEN Throw(c)
     ELSE Put(c, [call[c] EXCEPT !.at = "depositWrite", !.saw = Status(On(c))])
  /\ UNCHANGED <<rows, channel, owner, counters>>

\* What becomes of the call: after PAYIN_CONFIRMED the orchestration clears the
\* payin.
Updated(c) ==
  IF call[c].act = "PAYIN_CONFIRMED" /\ call[c].by # "desk"
  THEN [call[c] EXCEPT !.at = "clearRead", !.act = "CLEAR", !.saw = "none"]
  ELSE Resumed(c)

\* An update crosses an approval that has checked the status, or was read before
\* another one was written.
ApprovingOn(p, d) ==
  call[d].on = p /\ \/ call[d].at = "credit"
                    \/ call[d].at \in {"depositRead", "depositWrite"} /\ call[d].act = "APPROVE"
Crosses(c) ==
  /\ call[c].act # "APPROVE"
  /\ \/ Status(On(c)) # call[c].saw
     \/ \E d \in Call \ {c} : ApprovingOn(On(c), d)

WriteDeposit(c) ==
  /\ call[c].at = "depositWrite"
  /\ \E t \in NextDeposit(c, call[c].saw) :
       /\ deposit' = [deposit EXCEPT ![On(c)].status = t[3]]
       /\ IF t[3] = "COMPLIANCE_PENDING"
          THEN \E d \in Call \ {c} :
                 /\ ~Busy(d) /\ \A e \in Call : ~Busy(e) => d <= e
                 /\ call' = [call EXCEPT ![c] = Updated(c),
                      ![d] = [Idle EXCEPT !.at = "gate0", !.on = On(c), !.by = "gate"]]
          ELSE Put(c, Updated(c))
  /\ Record(On(c), (IF Crosses(c) THEN {"crossed"} ELSE {}) \union
       (IF call[c].act = "PAYIN_CONFIRMED" /\ call[c].by = "desk"
        THEN {"confirmedByHand"} ELSE {}))
  /\ UNCHANGED <<channel, signal, owner, payin, ledger, counters>>

\* runGate0.
Gate0(c) ==
  /\ call[c].at = "gate0"
  /\ IF owner = "FROZEN" THEN Update(c, "FREEZE") ELSE Go(c, "initialize")
  /\ UNCHANGED <<rows, channel, owner, counters>>

\* Mutant: only a crypto deposit is given a travel rule status.
InitializeCryptoOnly(c) ==
  /\ call[c].at = "initialize"
  /\ deposit' = [deposit EXCEPT ![On(c)].tr =
       IF ChannelOf(On(c)) = "CRYPTO" THEN "PENDING" ELSE "none"]
  /\ Record(On(c), {"gatesSet"})
  /\ Put(c, Idle)
  /\ UNCHANGED <<channel, signal, owner, payin, ledger, counters>>

InitializeGates(c) ==
  /\ call[c].at = "initialize"
  /\ deposit' = [deposit EXCEPT ![On(c)].tr =
       IF ChannelOf(On(c)) = "CRYPTO" THEN "PENDING" ELSE "NOT_REQUIRED"]
  /\ Record(On(c), {"gatesSet"})
  /\ Put(c, Idle)
  /\ UNCHANGED <<channel, signal, owner, payin, ledger, counters>>

-----------------------------------------------------------------------------
\* applyKytResult and applyTrResult.
Screened(c, p) == Begin(c, [Idle EXCEPT !.at = "check", !.on = p, !.by = "verdict"])
ApplyKyt(c, p, result) ==
  /\ Status(p) # "none"
  /\ deposit' = [deposit EXCEPT ![p].kyt = result]
  /\ Record(p, IF result = "FAILED" THEN {}
               ELSE {"kytPassed"} \union IF "gatesSet" \in past[p] THEN {} ELSE {"early"})
  /\ Screened(c, p)
  /\ UNCHANGED <<channel, signal, owner, payin, ledger, faults>>
ApplyTr(c, p, result) ==
  /\ Status(p) # "none"
  /\ deposit' = [deposit EXCEPT ![p].tr = result]
  /\ Record(p, IF result = "FAILED" THEN {} ELSE {"trPassed"})
  /\ Screened(c, p)
  /\ UNCHANGED <<channel, signal, owner, payin, ledger, faults>>

\* Mutant: the check looks at the verdict that has just come.
CheckOneVerdict(c) ==
  /\ call[c].at = "check"
  /\ IF /\ Status(On(c)) = "COMPLIANCE_PENDING"
        /\ deposit[On(c)].kyt = "PASSED" \/ deposit[On(c)].tr = "PASSED"
     THEN Go(c, "ownerCheck") ELSE Put(c, Idle)
  /\ UNCHANGED <<rows, channel, owner, counters>>

\* checkAutoApproval, on one read of the deposit ...
CheckVerdicts(c) ==
  /\ call[c].at = "check"
  /\ IF /\ Status(On(c)) = "COMPLIANCE_PENDING"
        /\ deposit[On(c)].kyt = "PASSED"
        /\ deposit[On(c)].tr \in {"PASSED", "NOT_REQUIRED"}
     THEN Go(c, "ownerCheck") ELSE Put(c, Idle)
  /\ UNCHANGED <<rows, channel, owner, counters>>

\* ... and on one of the customer.
CheckOwner(c) ==
  /\ call[c].at = "ownerCheck"
  /\ IF owner = "CLEAR" THEN Go(c, "approve") ELSE Put(c, Idle)
  /\ UNCHANGED <<rows, channel, owner, counters>>

\* The status patch of the desk: APPROVE is approveDeposit.
Desk(c, p, act) ==
  /\ Status(p) # "none"
  /\ act \in DeskAction
  /\ Begin(c, [Idle EXCEPT !.at = IF act = "APPROVE" THEN "approve" ELSE "depositRead",
       !.on = p, !.by = "desk", !.act = act])
  /\ UNCHANGED <<rows, channel, owner, faults>>

Approvable == {"COMPLIANCE_PENDING", "ACTION_PENDING", "FROZEN"}

\* Mutant: the desk may approve whatever the status says.
ApproveAnyStatus(c) ==
  /\ call[c].at = "approve"
  /\ Go(c, "credit")
  /\ UNCHANGED <<rows, channel, owner, counters>>

\* approveDeposit: the status, the transfer, the status update.
ApproveLook(c) ==
  /\ call[c].at = "approve"
  /\ IF Status(On(c)) \in Approvable THEN Go(c, "credit") ELSE Put(c, Idle)
  /\ UNCHANGED <<rows, channel, owner, counters>>

\* Mutant: a transfer that fails is logged and passed over.
CreditBestEffort(c) ==
  /\ call[c].at = "credit"
  /\ Transfer(On(c), "STEP_2") \/ UNCHANGED ledger
  /\ Update(c, "APPROVE")
  /\ Record(On(c), IF call[c].by = "desk" THEN {"approvedByHand"} ELSE {})
  /\ UNCHANGED <<channel, signal, owner, payin, deposit, counters>>

\* Mutant: the status is left to another call.
CreditOnly(c) ==
  /\ call[c].at = "credit"
  /\ Transfer(On(c), "STEP_2")
  /\ Put(c, Idle)
  /\ Record(On(c), IF call[c].by = "desk" THEN {"approvedByHand"} ELSE {})
  /\ UNCHANGED <<channel, signal, owner, payin, deposit, counters>>

Credit(c) ==
  /\ call[c].at = "credit"
  /\ Transfer(On(c), "STEP_2")
  /\ Update(c, "APPROVE")
  /\ Record(On(c), IF call[c].by = "desk" THEN {"approvedByHand"} ELSE {})
  /\ UNCHANGED <<channel, signal, owner, payin, deposit, counters>>

-----------------------------------------------------------------------------
\* Compliance freezes the customer, or lifts the freeze.
OwnerChanges ==
  /\ owner' \in {"CLEAR", "FROZEN"} \ {owner}
  /\ Event
  /\ UNCHANGED <<rows, channel, call, faults>>

Fault == Event /\ faults' = faults + 1

\* The await throws: the database, the ledger, an audit write.
Fails(c) ==
  /\ Busy(c)
  /\ Fault
  /\ Throw(c)
  /\ UNCHANGED <<rows, channel, owner>>

\* The process dies.
Crash ==
  /\ \E c \in Call : Busy(c)
  /\ Fault
  /\ call' = [c \in Call |-> Idle]
  /\ UNCHANGED <<rows, channel, owner>>

ScanStep(c) ==
  \/ MarkIgnored(c) \/ MarkFailed(c) \/ FindPayin(c) \/ CreatePayin(c)
  \/ AdvancePayin(c) \/ ClearIfUnderReview(c) \/ LinkSignal(c)
PayinStep(c) ==
  \/ ReadPayin(c) \/ WritePayin(c) \/ OnDetected(c) \/ OnFailed(c) \/ OnConfirmed(c)
  \/ Book(c)
DepositStep(c) ==
  \/ ReadDeposit(c) \/ WriteDeposit(c) \/ Gate0(c) \/ InitializeGates(c)
  \/ CheckVerdicts(c) \/ CheckOwner(c) \/ ApproveLook(c) \/ Credit(c)
Step(c) == ScanStep(c) \/ PayinStep(c) \/ DepositStep(c)
Outside(c, p) ==
  \/ \E act \in RailAction : Rail(c, p, act)
  \/ \E act \in DeskAction : Desk(c, p, act)
  \/ \E result \in {"PASSED", "FAILED"} : ApplyKyt(c, p, result) \/ ApplyTr(c, p, result)
Next ==
  \/ \E c \in Call : Step(c) \/ Fails(c)
  \/ \E c \in Call, s \in Signal : Scan(c, s)
  \/ \E c \in Call, p \in Payin : Outside(c, p)
  \/ OwnerChanges
  \/ Crash
Spec == Init /\ [][Next]_vars

-----------------------------------------------------------------------------
\* One transfer on the chain is credited once, however many scans race for it.
\* (A bank transfer is not protected: its payins have no unique key.)
OneCreditPerTransfer ==
  \A p, q \in Payin :
    SignalOf[p] = SignalOf[q] /\ ChannelOf(p) = "CRYPTO" /\ Credited(p) /\ Credited(q)
      => p = q

\* No credit out of an empty suspense account, unless the desk confirmed the
\* payin by a status patch, which books nothing.
SuspenseFunded ==
  \A p \in Payin : Credited(p) => Booked(p) \/ "confirmedByHand" \in past[p]

\* A deposit that says SUCCESS has been credited.
SuccessIsCredited == \A p \in Payin : Status(p) = "SUCCESS" => Credited(p)

\* A cleared payin is on the books, unless a status patch cleared it or
\* confirmed its deposit.
ClearedIsBooked ==
  \A p \in Payin : payin[p] = "CLEARED" =>
    Booked(p) \/ past[p] \intersect {"confirmedByHand", "clearedByHand"} # {}

\* What passes for screened: the travel rule is not asked for by a verdict before gate 0.
Vetted(p) ==
  /\ "kytPassed" \in past[p]
  /\ ChannelOf(p) = "CRYPTO" /\ "early" \notin past[p] => "trPassed" \in past[p]

\* What the desk did not approve was screened: the KYT verdict, and for crypto
\* the travel rule verdict, unless the KYT verdict came before gate 0 was done.
ScreenedCredit ==
  \A p \in Payin : Credited(p) /\ "approvedByHand" \notin past[p] => Vetted(p)

\* The customer has the money before the status says so.  Only a fault, or an
\* update that crossed the approval, makes that last.
CreditIsTold ==
  \A p \in Payin : Credited(p) /\ faults = 0 /\ "crossed" \notin past[p] =>
    \/ Status(p) = "SUCCESS"
    \/ \E c \in Call : ApprovingOn(p, c) /\ call[c].at # "credit"

\* A deposit whose money is on the books is confirmed by the call that booked it:
\* unless a call fails, one is still on its way while the deposit waits.
BookedIsConfirmed ==
  \A p \in Payin : Booked(p) /\ Status(p) = "PAYIN_PENDING" /\ faults = 0 =>
    \E c \in Call : /\ On(c) = p /\ call[c].act = "PAYIN_CONFIRMED"
                   /\ call[c].at \in {"depositRead", "depositWrite"}

-----------------------------------------------------------------------------
Knows(fact) == {p \in Payin : fact \in past[p]}
OnChain == {s \in Signal : channel[s] = "CRYPTO"}
Promise == INSTANCE DepositPromise WITH
  onChain <- OnChain, screened <- {p \in Payin : Vetted(p)},
  booked <- {p \in Payin : Booked(p)}, credited <- {p \in Payin : Credited(p)},
  told <- {p \in Payin : Status(p) = "SUCCESS"},
  vouched <- Knows("confirmedByHand"), approved <- Knows("approvedByHand"),
  crossed <- Knows("crossed")

\* DepositPromise: the money of a deposit moves as promised, in steps of its own,
\* and no call that overlaps, fails or dies takes back a transfer.
KeepsPromise == Promise!Spec
=============================================================================
