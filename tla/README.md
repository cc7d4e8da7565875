# Exchange back office: verification project

TLA+ models, TLC runs and TLAPS proofs for the exchange back end in `src/`
(NestJS, Prisma on SQLite, the TigerBeetle ledger). Paths below are relative to
`src/src/modules/` unless they start with `src/`.

What makes this program hard is the same everywhere: a business operation is a
chain of awaited calls to two stores that share no transaction (SQL rows and the
ledger), driven by in-process events (`EventEmitter2`) that are lost when the
process dies or a handler throws. Between two awaits any other handler may run.

## 1. Inventory

| Component | State | Operations | Talks to | What must hold |
|---|---|---|---|---|
| Withdrawal saga, `trading/withdraw-transactions/withdraw-workflow.service.ts` | the withdrawal row: status, screening verdicts, ids of payout, case and pending transfers | event handlers: created, approval decided, KYT and travel rule updated, payout confirmed, failed, timed out, returned; repair: re-closeout, re-compensate | approvals, payouts, funds flow, accounting, evidence | charge only what was paid out, release only what never will be; large amounts only with approval; success means fully settled |
| Withdrawal creation, same file, and `trading/withdrawal-fee-level/withdraw-quote.service.ts` | quotes, the new row, two pending transfers | createWithdrawal, consumeQuote, cancelQuote | SQL transaction around ledger calls, catch block that voids | one withdrawal per quote, whole amount locked, nothing locked by a failed request |
| Withdrawal status machine, `withdraw-transactions.service.ts`, its controller | status, status history | updateStatus (workflow and admin), verdict updates | saga by events | workflow statuses are not reachable by operators |
| Payouts, `asset-treasury/payouts` | payout status, references | create, updateStatus; events after commit | saga by events, wallet balances | one payout per withdrawal, CLEARED by the system only |
| Accounting and evidence, `accounting/tigerbeetle` | ledger transfers (external), evidence rows, backlog, account registry | executeTransfer, pending, post, void, evidence enrichment | every money flow | evidence and ledger agree; replays are idempotent |
| Approvals, `governance/approvals` | case, steps, policy | create, submit, approve, reject, cancel; policy change | workflows by `workflow.<type>.decided` events | distinct checkers, sequential steps, one decision |
| Configuration changes, in `governance`, `trading`, `identity/access-control` | request rows, fee levels, limits, roles, policies | request, decided, execute, close; creation of a level, limit or role | approvals | changed only as granted, once, and told truly; no update lost |
| Deposits, `trading/deposit-transactions`, `asset-treasury/payins` | signal, payin and deposit rows, two transfers through a suspense account | scan of a signal, payin events and patches, gate 0, KYT and travel rule verdicts, desk patches, approval | payins by awaited events, accounting, customer status | credited once, out of a funded account, after screening, and the row says so |
| Swaps, `trading/swap-transactions`, legs in `funds-layer` | quote, swap row, legs with attempts, up to two held transfers per leg | executeSwap, advanceLeg, resumeLeg, cancelQuote | accounting, evidence, funds flow | legs in order, each charged once, success means exactly settled |
| Funds layer, `funds-layer` | internal transactions and funds, settlement batches, fee accruals | transfers, end-of-day settlement, deposit aggregation | wallets, accounting, outstandings | an item is in one batch, a fund moves once |
| Clearing, `clearing-settle` | outstandings, reconciliation runs and breaks | project, consume, sweep, reconcile | evidence, wallets | outstandings add up to the evidence |
| Client risk, `identity/client-risk-assessment`, `tier-upgrade-case`, `material-refresh` | the customer's rating, freeze reason and status, assessments, upgrade cases, documents | assess, answer, escalate, review, sign, upgrade, freeze and refresh | approvals, Sumsub webhooks, crons | rated and upgraded only as reviewed, no freeze without an owner, every decision settles |
| Onboarding, `identity/onboarding`, `risk-engine`, `sumsub-ingestion` | users, customers, webhook inbox | onboarding steps, risk scoring, role bindings, webhook retry | approvals | a webhook is applied once |
| Limits, gates, registries, `governance` | configuration | checks before an operation | all money flows | gate before money moves |
| Pricing, liquidity, `trading/pricing-center`, `counterparty` | rates, fee levels, providers | quotes, configuration changes | swaps, withdrawals | a price is used as quoted |
| Audit, notifications, monitoring, clients, scripts | append-only output, user interface | | | |

Components interact in three ways only: direct awaited calls, events of the one
in-process emitter (delivered at most once, never persisted), and shared rows.
The hard behaviour, with its lines, is listed under `hazards` in `PROJECT.json`.

## 2. Plan

Money that leaves the house comes first: it is the flow with the most parties,
the most failure paths and the only external rail.

1. **Done.** Withdrawal: status machines (`WithdrawStates`, `PayoutRail`), the
   saga (`WithdrawSaga`), its abstract promise (`CustomerLock`) and the
   refinement, the inductive invariant (`WithdrawInvariant`) and the proofs;
   creation (`WithdrawCreate`) and its proofs; the disagreements between text and
   code (`WithdrawClaims`, `WithdrawCreateClaims`).
2. **Done.** Approvals and what they govern: the case (`ApprovalCase`), the
   workflows that change or create a configuration (`ConfigChange`), what they
   promise (`ChangeControl`) with the refinement, and the proofs.
3. **Done.** Deposits: `DepositSaga`, from the scan of a signal to the credit, what
   deposits promise (`DepositPromise`) with the refinement, and the proofs.
4. **Done.** Swaps: `SwapSaga`, four legs on a ledger that does not roll back, what
   they promise (`SwapPromise`) with the refinement, and the proofs.
5. **Done.** Client risk: the policy (`RiskPolicy`) and one customer's assessments,
   upgrades and freezes (`ClientRisk`), and the proofs of its safety.
6. Open: the ledger account of one customer under concurrent withdrawals,
   deposits and swaps; the webhook inbox and its retries. Settlement of the funds
   layer, once it has live callers again (section 7).

Bounds for all of them: two or three concurrent handlers, one or a few faults, two
values of each kind of datum; no recursive operators, so that each can be proved
about.

## 3. Modules

| Module | Models | Correspondence |
|---|---|---|
| `WithdrawStates` | the table of `WithdrawTransactionsService.transitions`, the statuses the admin endpoint may not reach, its actions | `WithdrawTransitions` is the table as a set of triples |
| `PayoutRail` | both tables of `PayoutsService` | `Paid`: money has reached the beneficiary at some time; `Dead`: it never will |
| `WithdrawSaga` | one withdrawal after its creation has committed | see below |
| `CustomerLock` | what a withdrawal promises about the customer's money | four actions: pay, die, charge a leg, give a leg back |
| `WithdrawInvariant` | the inductive invariant | one part per reason |
| `WithdrawClaims` | texts of the repository that the code does not keep | each a property of `WithdrawSaga` |
| `WithdrawCreate`, `MCWithdrawCreate` | requests racing for quotes and balance | `at` is the place in `createWithdrawal` |
| `WithdrawCreateClaims` | the same, for creation | |
| `ApprovalCase` | `ApprovalsService`: one case, its steps, who may sign | the operations; `ConfigChange` says who calls them |
| `ConfigChange`, `MCConfigChange` | requests for configuration changes and creations of six families | see below |
| `ChangeControl` | what a governed configuration promises | propose, grant, apply |
| `ConfigInvariant` | the inductive invariant of `ConfigChange` | one part per reason |
| `DepositStates` | the tables of `DepositTransactionsService`, `PayinsService` and the signals | sets of triples |
| `DepositSaga`, `MCDepositSaga` | signals, payins, deposits and their transfers | see below |
| `DepositPromise` | what deposits promise about money | six actions: book, screen, vouch, credit, tell, cross |
| `FundStates` | both tables of `FundsFlowService` | sets of triples |
| `SwapSaga`, `MCSwapSaga` | quotes, swaps, legs, ledger and evidence | see below |
| `SwapPromise` | what swaps promise about quotes and money | five actions: sell a quote, hold, charge or give back a transfer, settle |
| `RiskPolicy` | `applyPolicy` and the rules of `src/config/client-risk-assessment-policy.json` | the tier of an answer, and who signs |
| `ClientRisk`, `MCClientRisk` | assessments, upgrades and the compliance freeze of one customer | see below |
| `RiskInvariant` | why `ClientRisk` is right while nothing fails and no call crosses another | one part per reason |
| `WithdrawSagaProofs`, `WithdrawSafetyProofs`, `WithdrawPromiseProofs`, `WithdrawCreateProofs`, `ConfigChangeProofs`, `DepositProofs`, `SwapProofs`, `ClientRiskProofs` | theorems | section 6 |

### WithdrawSaga

A handler in flight is a *task*: `task[t].at` is the await it is suspended at,
`task[t].with` the one value it carries that the row may contradict later (the
decision, the compensating action, whether `payoutId` was set when
`finalizeWithdrawal` read the row). Each action does what happens between two
awaits that touch shared state. `UpdateOrThrow` is
`WithdrawTransactionsService.updateStatus`: one SQL transaction that reads the
status again and throws on an illegal transition, which ends the handler.
`EmitAndGoto` starts a second handler while the first goes on, as `emit` does.

- Gate: `Created`, `Valuate`, `Check`, `OpenCase`, `RequireApproval`, `Decided`,
  `Grant`, `Decline`.
- Payout phase: `ScreenKyt`, `ScreenTravelRule`, `CheckPass`, `Approve`,
  `CreatePayout`, `LinkPayout`, `CreateFeeFund`.
- Finalize: `Finalize` ... `ClearPayout`, one action per ledger call, evidence
  update and status update, in the code's order. Posting is two steps, ledger
  then evidence, as in `postPendingTransfer`.
- Compensation: `Compensate`, `CompStatus`, `VoidNet`, `VoidFee`, `CancelFund`.
- Outside: screening verdicts, the approvers' decision, the operator's payout
  updates, the admin status endpoint, the two repair endpoints.
- Faults: `Throw` ends a handler at any await, `Crash` ends them all. A void that
  fails is inside `Void`, because the code catches it and goes on.

Abstracted: wallet binding and addresses, references and hashes, gas, audit rows
(a failing audit write is a `Throw` at the next place), the second KYT phase
(audit only), status history, and the mock wallet balance. CANCELLED and EXPIRED
decisions take the branch of DECLINED. The model covers CUSTOMER withdrawals in
an asset with a ledger (AED and USDT, all that are configured); for others the
code makes no transfers. Screening verdicts come from the two simulate endpoints,
the only writers in the source. Not modelled: the DEV endpoint
`simulate/payout-confirmed`, which announces a confirmation that no payout has,
and `POST /payouts` by an operator.

### WithdrawCreate

The SQL transaction of one request is the only writer from its first write
(`consumeQuote`) to its end, because SQLite has one writer; other requests wait
at `ConsumeQuote`. Ledger calls inside it are visible at once to everybody, which
is why `LockLeg` compares with what *all* requests hold. `known` is the pair of
outer variables the catch block reads; it grows only after the evidence row is
written. An expired quote is written EXPIRED in the same transaction that then
throws, so it stays ACTIVE.

### CustomerLock and the refinement

`WithdrawSaga!Promise` maps the payout's status and the two customer legs of the
ledger to `rail` and `leg`; `KeepsPromise` is the abstract specification under
that mapping. A rail is "refused" once a leg was given back and no payout exists.

### ApprovalCase and ConfigChange

A request is an administrator's call: `request[c].at` is the await that its
`requestChange` is suspended at, or how it ended. The call checks that no request
is pending (`Guard`, and once more in `Look` for fees and limits), inserts a
PENDING row, and runs `createAndSubmit`, which is not a transaction: `Draft`,
`ReadDraft`, `SubmitStep`, `SubmitCase`, `Announce`. In between the maker may
already cancel and, after `SubmitCase`, the approvers may decide. A decision is one
transaction (`Approve`, `Reject`, `Cancel`); its event is emitted after an audit
row in the same call, which is why it can be `due`, and is lost when that write
throws or the process dies. The event starts a `handler`, which reads the request,
applies the proposal in a transaction of its own (`Apply`), audits it, or marks or
closes the request.

The six families have one shape and differ exactly where the code does:

| Family | Snapshot taken | Compared | In `Apply` | When execution fails |
|---|---|---|---|---|
| `fee` (swap and withdrawal fee levels) | second guard | inside the transaction | status and snapshot | FAILED, whatever the row says |
| `limit` | second guard | before and inside | status and snapshot | FAILED, if still pending |
| `role` | first step | before | nothing | left as it is, or APPROVED (`failRequest`) |
| `policy` | first step | never | nothing | FAILED |
| `level` (creation of a fee level or limit) | | | status | audited only |
| `newRole` (creation of a role) | | | row exists | audited only |

The row of a creation is the level, limit or role itself: ACTIVE is APPROVED here,
and a refused one is deleted. A policy change alters the steps that later cases of
the `Governed` family get. Expiry of cases is dead code, nothing calls
`expirePendingApprovals`; validation of tier tables and read models are left out.

### DepositSaga

Nothing in the deposit flow runs in a transaction: each status update reads a row
and writes it by id one await later. A call is a row of `call`: the place it is
suspended at, the payin it works on, the status it has `saw`, the action it is
about to apply, and where a scan goes on afterwards. Payin events are awaited by
the call that causes them (`emitAsync`), so their handlers are places of the same
call, and an exception in one is suppressed; the event of a deposit is not awaited
and starts a call of its own (`Gate0`).

- Scan: `Scan`, `FindPayin`, `CreatePayin`, `AdvancePayin`, `ClearIfUnderReview`,
  `LinkSignal`, `MarkFailed`, `MarkIgnored`.
- Payin: `Rail` (mock events and patches), `ReadPayin`, `WritePayin`.
- Orchestration: `OnDetected`, `OnFailed`, `OnConfirmed`, `Book` (STEP_1),
  `ReadDeposit`, `WriteDeposit`.
- Review: `Gate0`, `InitializeGates`, `ApplyKyt`, `ApplyTr`, `CheckVerdicts`,
  `CheckOwner`, `Desk`, `ApproveLook`, `Credit` (STEP_2).
- Outside: `OwnerChanges`, `Fails`, `Crash`.

`past` records what has happened to a deposit, for the properties only. Left out:
the mock wallet balance, deposits that belong to a liquidity provider, the wording
of eligibility (a scan may or may not find the customer eligible while the owner's
status is normal), audit rows, and the lookup of a payin by a reference number
shared between signals.

`Promise` maps ledger, statuses and `past` to what they show of each payin: booked,
screened, credited, told, and what the desk has done by hand. `KeepsPromise` is
`DepositPromise` under that mapping. It knows of no calls: most steps stutter, and a
status update shows as `Tell`, as `Vouch` (the desk confirms what it has not booked),
or as `Cross`, the one step that may take back a SUCCESS.

### SwapSaga

executeSwap, advanceLeg and resumeLeg are one SQL transaction each. SQLite has one
writer; a transaction that has read before another one committed fails at its first
write, and every ledger call comes after the first write of its transaction: so
one transaction at a time is *at work*, the variable `tx`, with the rows it will
commit. What it did in the ledger stays when it is rolled back, and `torn` remembers
that this has happened to a swap (for the properties and the reuse of a number
only). A ledger call in flight when the transaction times out is taken to land
before the rows are rolled back.

- `Execute`, `Advance`, `Resume` begin a call: the guards, and the rows it starts
  from.
- `Hold`, `Post`, `Void` make one transfer of the leg and its evidence row. The id
  of a hold is derived from swap, entry and attempt, so one that exists already is
  skipped, *without* writing its evidence; a post or void of something that is not
  held is refused by the ledger; without an evidence row to update it throws, after
  the ledger has moved.
- `LegPosted` (onLegCleared) goes on with the next leg or ends the swap, `LegVoided`
  (onLegFailedSelfHeal) with another attempt or NEEDS_REVIEW, `LegHeld` is the start
  transition at the end of createAndStartLeg.
- `Commit`, `Fails` end the transaction. `CancelRead`, `CancelWrite` are cancelQuote,
  which has none.

Of each leg the model keeps the number of attempts and the status of the last one;
no other is read. `Expected` reads the ledger off the rows: what an attempt of a leg
should have there. Left out: the projections `currentStage` and `needsReview`, which
nothing decides on, balances and amounts (a fee leg of a swap without fee has no
entries), wallets, audit rows, and the write of EXPIRED, which is rolled back with
the transaction that then throws. The branch of advanceLeg that books a hold for a
CREATED leg cannot be reached: a leg is started in the transaction that creates it.

`Promise` maps the rows to what they show of a swap: that its quote is sold, and that
it is settled; the ledger stands for itself. `KeepsPromise` is the abstract
specification under that mapping. It knows of no transactions, attempts in order or
evidence, so a rollback is a stutter: what was done in the ledger was a step of the
promise when it was done.

### ClientRisk

One approved customer. A *job* is one call (a cron tick, a webhook dispatch, the event
of a decision, the request of an administrator), and each of its actions is one SQL
statement or transaction with the reads that follow it; the job keeps what it has
read (`tier`, `saw`, `result`) until it writes. No write checks the status it was
based on, so the only guards are those of the reads.

- Assessment: `Trigger`, `SpontaneousHit`, `Check`, `Create`, `AmlCheck`,
  `AmlAnswer`, `StoreLabels`, `Process`, then `Escalate` (a sanctions label), or
  `Score` and `AutoSign` or `OpenReview`, `MarkReview`; `Signoff` on the MLRO's
  decision; `Cascade` writes the rating.
- Upgrade: `OpenUpgrade` freezes the customer, `Level2Complete`, `OpenPhase2`,
  `LinkPhase2`, `TierSignoff`.
- Escalated case: `CaseDecision`, `CaseCustomer`, `CaseSign`.
- Document: `DocumentExpires`, `MaterialFreeze`, `MaterialExpired`, `MaterialGreen`,
  `MaterialRefreshed`, `MaterialRelease`, which starts an assessment.
- `Fail` ends a job at any place; a failing `runAmlCheck` is inside `AmlCheck`,
  because the code catches it.

`dispatch` calls `handleSumsubAmlResult` and the branch returns nothing, so a RED
answer goes on to the rule for spontaneous hits with the same webhook: `Finish`.
MEDIUM is a tier that only a demo endpoint sets. Left out: the move of the applicant
to another Sumsub level, the seeding of holdings, audit rows, the cron stages of the
material refresh before a document expires.

## 4. Runs

| Run | Question | Bounds | Result |
|---|---|---|---|
| `saga_safety` | are the books safe under any interleaving, any admin action, one fault? | 2 tasks, 4 admin actions, 1 fault | holds, 2.1 million states |
| `saga_live` | does the gate hold, do the stores agree, does every payout end well? | 2 tasks, no admin, 1 fault, repair fair | holds, 370 000 states |
| `create_race` | one withdrawal per quote, fully locked, all requests answered? | 3 requests, 2 quotes, balance 6 for amounts 2+1 and 3+2, 1 fault | holds, 98 000 states |
| `claim_repair` | can re-closeout settle what a fault interrupted? | as `saga_live` | violated |
| `claim_fee_fund` | is there one fee fund? | 2 tasks, no fault | violated |
| `claim_unlock` | does every ending release the lock? | admin REJECT, no fault | violated |
| `claim_decision` | does every decision take effect? | 2 tasks, no fault | violated |
| `claim_create` | does a failed request hold nothing? | as `create_race` | violated |
| `governed_change` | are configurations changed only as granted, and requests told the truth? | 2 cases, 3 users, two-step and one-step policies, 1 fault or crash | holds, 2.6 million states |
| `deposit` | is a deposit credited once, funded, screened, and told? | 1 signal, 2 payins, 3 calls, 4 outside events | holds, 1.5 million states |
| `swap` | is a leg charged once and in order, in the ledger's own steps, and success exact? | 2 requests, 1 quote, 4 legs, 3 attempts of which 2 automatic | holds, 800 000 states |
| `risk` | is a customer rated, upgraded and frozen only with a reason, and does every decision settle? | 2 assessments, 2 approval cases of each, 1 call that overlaps another, 1 fault | holds, 750 000 states |

Why the bounds are enough: two tasks are what it takes for a handler to act on a
stale read while another one moves the row; events beyond that wait until a task
is free, which only delays them. One fault is enough to interrupt any handler at
any place, and a repair call then runs over what it left. The proofs do not
depend on these bounds. In `create_race` two requests share a quote, which the balance could pay twice, and the third
competes for the balance so that its net amount fits and its fee does not, which
is the refusal in the middle of a transaction. Assets (both) and fee (with and
without) are chosen in `Init`. Deadlock is not checked: a withdrawal is over when
it has its last status, and requests are over when all are answered.

*governed_change.* `MCConfigChange` pairs the families so that every interaction
occurs: two changes of one thing, a fee change while the policy of fee changes is
being changed, two creations. One user has both roles, one is a super admin
without any, and the makers are one plain user and the super admin. The two
steps of the first policy make a case that is half signed; one fault interrupts any
call, event or handler.

*deposit.* Two payins for one signal are what a race of two scans can create. Of
three calls one stays free for the gate that a deposit event starts, so two overlap
freely. Four outside events are enough for two scans, a verdict or patch, and a
fault. The desk and rail actions are those that differ in effect: confirm, approve
and freeze; confirm, reorg, fail and clear.

*swap.* Two requests share one quote, and all pairs of assets with and without fee
are chosen in `Init`. Two automatic attempts (three in the code) and a third after
a resume reach every branch of the retries. Faults are not bounded: any transaction
may fail at any place.

*risk.* The second assessment is what an upgrade or a refreshed document meets while
the first is under way. `MaxOverlaps` counts the calls that begin while another is
at work: one is enough for every pair of calls to interleave at every await,
among them the same webhook delivered twice and a decision taken before the call
that asked for it has finished. `RiskInv` holds then, and after a fault; the other
three properties except both, since the code does not keep them there (next
section). The answers are one for each way the policy has of treating them: clear,
a label that promotes, a sanctions label. A RED answer without labels, which keeps
the tier, gives the same result with 880 000 states and is left out of the run.

### What the violated runs show

- **claim_repair.** The comment on `assertWithdrawSettled` says a failed
  settlement stays for repair by `reCloseoutPayout`. `postPendingTransfer` uses a
  fresh id every time, so the repair is refused by the ledger on the leg that was
  posted already, and the withdrawal stays PAYOUT_PENDING for ever.
- **claim_fee_fund.** Two screening events find the gates passed, both run
  `initiatePayoutPhase`; the payout is found again, the fee fund is not.
- **claim_unlock.** The admin endpoint changes the status of a withdrawal to
  REJECTED or CANCELLED and leaves the pending transfers in place.
- **claim_decision.** The case can be decided before the withdrawal is
  PENDING_APPROVAL; that event is skipped and no other one comes.
- **claim_create.** The evidence write fails after the ledger has accepted the
  lock: the catch block has not been told the id.

### Where the code surprises, without a run

These are in the models, reached by the runs, and excepted in the properties where
they matter; no text of the repository promises otherwise, or the promise is too
vague to be held against the code.

Configuration changes:

- The maker cancels a draft between `submitCase`'s read and its updates: the updates
  reopen the case and its first step while the later ones stay cancelled, so one
  signature approves it (`governance/approvals/approvals.service.ts:483`).
- A fee or policy request is marked FAILED although it was applied, when the audit
  write after the transaction throws.
- The event says DECLINED, most handlers compare with REJECTED: a declined request
  becomes CANCELLED, where
  `src/doc-final/superpowers/specs/2026-05-30-withdrawal-fee-level-design.md:234`
  names REJECTED.
- Two requests for one target can both be pending (the guard is not atomic); for
  roles and policies the second to be approved overwrites the first unseen.

Deposits:

- The credit is made before the status is written, and a freeze, a rejection or a
  fault in between leaves a credited deposit that says something else.
- A KYT verdict that comes before the gates are initialised credits a crypto deposit
  without a travel rule verdict; a travel rule verdict that comes early is
  overwritten; a verdict that comes before COMPLIANCE_PENDING is never looked at
  again.
- Two scans of a bank transfer can create two payins and credit both: only a
  transaction hash is unique. The losing scan of a crypto transfer writes FAILED
  over PAYIN_CREATED.
- A deposit REJECTED after STEP_1 leaves its money in suspense
  (`src/doc-final/reference/roadmap.md:152` has it as open).
- A crypto payin without referenceNo is never CLEARED.
- A status patch of the desk moves a deposit on without the transfers the workflow
  makes at that point; two CLEARs adjust the mock wallet twice.
- A second scan can confirm a payin before the deposit exists: it stays PAYIN_PENDING.
- The automatic approval accepts FROZEN and so lifts a freeze set while it ran.

Swaps:

- A fault after a post, void or hold rolls the rows back and not the ledger. The leg
  can then neither be cleared nor failed nor resumed with success: the swap never
  finishes (`Stuck` in the proofs). A failed executeSwap leaves its holds in place,
  there is no catch block that voids them as in createWithdrawal.
- CANCEL leaves a leg CANCELLED with its money held, in a swap that is PROCESSING;
  resumeLeg takes NEEDS_REVIEW only.
- RETURN is legal on a fiat leg that is CLEAR; only the ledger's refusal to void a
  posted transfer rolls it back.
- A swap between two crypto assets: `legStartAction` takes the `to` side for fiat
  whenever the `from` side is not, SUBMIT is then illegal for leg 2, and clearing
  leg 1 throws after the ledger has posted it: the customer's asset is sold and the
  swap stuck.
- cancelQuote can overwrite USED with CANCELLED.

Client risk (paths from `identity/`):

- `client-risk-assessment.service.ts:252`: a second assessment that was created while
  an upgrade was pending remembers LOW. The upgrade completes, the second is rejected
  as a false positive, and the customer falls from HIGH to LOW, although the policy
  file says `downgradeForbidden`, which only `applyPolicy` looks at. It also lets
  HIGH become UNKNOWN (an expired document), and UNKNOWN become LOW with nobody
  asked.
- `:243`: sign-off compares the previous tier with LOW. A promotion from UNKNOWN
  therefore takes the branch of HIGH to HIGH: rejected, it makes the customer HIGH;
  approved, it does so without an upgrade case.
- `:51`: "block if ANY active assessment exists" is a read of its own; two calls that
  overlap create two active assessments. In the same way the webhook of level 2,
  delivered twice, opens two approval cases for one upgrade
  (`tier-upgrade-case.service.ts:85`).
- `:434`: the MLRO decides between createAndSubmit and the update to
  PENDING_MLRO_REVIEW. The update then reopens a signed assessment, which has no case
  any more and blocks all later ones. `LinkPhase2` does the same to a closed upgrade.
- `:151`: a sanctions hit that Sumsub reports while another assessment is active is
  answered with that one: its labels are dropped and nobody is frozen.
- `:97`: a runAmlCheck that fails leaves an active assessment no answer can match.
- `material-refresh.service.ts:120`: an expired document writes its reason over a
  sanctions freeze, and its refresh then releases a customer whose sanctions case is
  still open. A completed upgrade lifts any freeze.

## 5. Fairness

`FairSpec` assumes that a handler which has been started runs to its end unless
it throws or the process dies: Node's event loop does that. Nothing is assumed of
customers, approvers, screening or the rail. `RepairSpec` adds strong fairness of
the two repair endpoints: an operator calls them as long as they apply (strong,
because a handler of the withdrawal may keep both tasks busy in between). It is
assumed only where the property is about repair. `DeadIsReleased` needs it since
a fault may hit the automatic compensation; `PaidIsSettledUnlessFaulty` excludes
faults, as `claim_repair` shows it must.

`DeadIsReleased` is checked without admin actions: an operator's FLAG on a
withdrawal in its payout phase makes FAIL illegal, and the release never comes.
`LargeIsApproved` likewise: an operator's CHECK takes a withdrawal past the gate.

In `ClientRisk`, `FairSpec` is weak fairness of the steps of a call that has begun:
the event loop again. Nobody has to decide, to answer or to assess.
`DecisionSettles` needs it, and excepts faults, since an event that dies with the
process never comes again.

The configuration, deposit and swap models state no fairness: what has to happen in
the end depends there on operators, on verdicts and on a fault not having torn the
flow. Of a configuration change `NothingForgotten` says instead that an open request
always has somebody who will end it.

## 6. Proofs

All theorems are for every set of tasks or requests, every number of faults and
every set of admin actions that the stated assumptions allow.

*Assumptions.* `AdminActions` is a subset of what the endpoint's DTO lets
through, `MaxFaults` a natural number; for creation, quotes price a positive net
amount and a fee, and `NoOne` is not a request.

*Safety of the saga* (`WithdrawSafetyProofs`). `ChargedOnlyIfPaid` and its
companions are not inductive: that a leg is posted only after payment depends on
why the handler that posts it was started. `SafetyInv` adds, in this order,

1. `RailHeard`: whoever finalizes or compensates was started by the rail, and the
   rail's state is stable (Paid and Dead are closed under both tables);
2. `OneDecision`, `NoEarlyPayout`: the case is decided once, so a declining
   handler never meets a withdrawal that was let through, and no payout exists
   before compliance;
3. `ChargeProgress`, `LegsExist`: what a suspended finalize has achieved;
4. `ReleaseJustified`: a releasing handler has a dead rail, a withdrawal that was
   never paid and is rejected, or legs that are charged already.

`NeverPaid` is the delicate part: REJECTED without a payout is stable only because
`createPayout` is reached through APPROVE, which REJECTED refuses.
`WithdrawSagaProofs` says once, per group of actions, what a group leaves alone, so that each step of
the invariant is proved for the few actions that can disturb it.

*Ledger and evidence* (`WithdrawSafetyProofs`). `BooksMatch` speaks of quiet states
only and says nothing of how they come about. `ChargeRecorded` does: until something
fails, a posted leg is recorded, or a handler between the ledger call and its last
evidence write is in flight. It is inductive because nothing but its own steps moves a
handler that charges (`OnlyFinalizeMoves`).

*Refinement* (`WithdrawPromiseProofs`). Every step of the saga moves the rail or
one leg or neither; with `SafetyInv`, a posted leg is a `Charge` and a voided leg
a `GiveBack` of the abstract specification.

*Approval* (`WithdrawPromiseProofs`). With CHECK out of the operators' hands,
`GateKept` is inductive: at most one handler is before the gate, and only an
APPROVED case reaches GATE_APPROVE.

*The rail's answer* (`WithdrawPromiseProofs`). `RailAnswersAreKept` is the safety half
of the two liveness properties: without a failure, a withdrawal at rest is settled when
its payout is confirmed, and failed with its whole lock given back when the payout is
dead. `OutcomeReached` carries it: `OneCharges`, since the ledger takes the net
leg from one handler only, later ones end there, and that one finds the fee and firm
legs untouched and so passes `assertWithdrawSettled`; `RowFollowsRail`, since a
withdrawal with a payout is PAYOUT_PENDING or says what the rail has said; and
`Underway`, which names the handler that still has to act. It needs FLAG and REJECT out of
the operators' hands: both are legal in PAYOUT_PENDING, and leave a paid withdrawal
uncharged or a dead one locked.

*Creation* (`WithdrawCreateProofs`). Between consuming the quote and the commit
there is one writer, so the quote is still ACTIVE when it is marked USED; a
committed request never runs its catch block, so its locks stay. The safety half of
`EveryRequestEnds` is proved besides: a refused request whose voids went through keeps
nothing locked but a leg whose id its catch block was never told, which takes a
failure (`RefusedHoldsNothing`; this leg is what `claim_create` shows), and the write
lock is held by nobody but a request inside its transaction (`WriteLockIsGivenBack`).
`ReleaseFits` carries the first one: until something fails, a lock is known to the
catch block or about to be recorded.

*Configuration changes* (`ConfigChangeProofs`), for any users, roles, policies,
families and number of faults. That a proposal is applied once needs to know that
one approval has one event and one handler (`OneApproval`). This rests on the case:
once granted it is never reopened (`OpenIsUngranted`), which holds although
createAndSubmit writes without looking, because the call that does so still owns a
draft nobody can sign (`CallOwnsDraft`). `AppliedIsClosed` and `StepsAreOpen` relate
request and steps to it. From `ChangeInv` follow `FourEyes`, `ApprovedInFull`, the
truth of a limit's outcome, `NoLostUpdate`, and that `ConfigChange` implements
`ChangeControl`. What a request says of itself needs `OutcomeInv` besides: a decision
stands until its handler has acted on it (`DecisionsStand`), a call that undoes has a
reason to (`UndoHasReason`), a handler knows what it has read and done (`HandlerKnows`), and an
open request is in somebody's hand (`InHand`, `OpenIsInHand`). `OutcomeIsTrue` then
holds at every await, and `NothingForgotten` with it.

*Deposits* (`DepositProofs`), for any payins, signals, calls and events. What a call
has read is out of date by the time it writes, so `DepositInv` never says that the
row still has the status a call saw. It says what cannot be undone: the ledger and
`past` only grow, a deposit never leaves review for PAYIN_PENDING, and so a call that
saw a deposit under review may rely on its being funded (`CallFits`).
`ApprovalFits` is the exception, the one status an approval relies on: it still
holds or an update has crossed it. All properties of the run are proved.
`DepositKeepsPromise` shows that every step is one of `DepositPromise` or shows
nothing: the grounds of a transfer are there *before* the step that makes it, which
the invariants alone leave open, and none is taken back. No update starts from
SUCCESS, so one that overwrites it has read another status and counts as crossing.

*Swaps* (`SwapProofs`), for any requests, quotes and numbers of attempts. Since the
ledger keeps what a rolled-back transaction did, rows and ledger can part for good,
and nothing proved of the rows alone is inductive. `SwapInv` has three layers.
`LedgerFits` holds of every request: an earlier attempt is voided, a later one never
posted, and no leg is in the ledger before the earlier ones are paid (`Paid`).
`Clean` and `WorkIsClean` hold until rows are rolled back: the ledger is what the
rows say (`Expected`), the transfer being made aside. For the others, `TornIsStuck`:
the leg at work has a first transfer that is resolved already, or whose evidence is
missing, so that every later call fails at it and can commit no more than another
status of the same leg (`TornGetsNowhere`). This is why `SwapSettled` needs no
exception: a swap that says SUCCESS has all legs CLEAR and so was never torn
(`TornIsNeverSettled`). All properties of the run are proved.

`SwapKeepsPromise` shows the refinement of `SwapPromise`. A `Hold` needs `Paid` of the
earlier legs; a `Post` needs that no other attempt is charged, which is so because the
attempt a transaction resolves is the last one of the committed rows; a `Commit` either
sells the quote, still ACTIVE since the writer is alone, or settles, and then
`SwapSettled` after the step is what `Settle` asks of the ledger before it, or shows
nothing. `SoldBeforeBought` (nothing of a leg before the earlier ones are paid) and
`MoneyMovedOnce` state two of its consequences on their own.

*Client risk* (`ClientRiskProofs`), for any number of calls, assessments, cases,
faults and overlaps, and any set of reports. No write looks at the status it was based
on, so the invariant cannot speak of statuses either, except that an assessment, once
there, is there. As for deposits it rests on what cannot be taken back (`Later`): a decision
of the MLRO, an answer of Sumsub, an upgrade. `JobFits` says what has brought a call to
its place: one that writes HIGH has a label to write it for, which nobody but the
MLRO can sign off, or a customer who was HIGH when it read the rating. `RowFits` says
the same of the rows a call will read. `InOrder` makes the next assessment a new row,
although two calls may both have passed the idempotency check.

`FrozenHasOwner` and `DowngradeIsDismissed` are about calls that neither fail nor cross.
`UndisturbedInv` (`RiskInvariant`) says what a call may rely on then: it is the only one
at work on its assessment (`Alone`, `AloneFits`), what it has read of the assessment is
still there (`ReviewFits`), and the freeze it sets or lifts has an owner (`FreezeFits`).
That this is so as soon as no call begins while another is at work is proved from
`overlaps`, which counts exactly those.

`DecisionsAreKept` is the safety half of `DecisionSettles`: between such calls, no
assessment is left open with its review decided, which would block all later ones, and no
upgrade with its second phase decided, which would keep the customer frozen.
`DecisionsInv` carries it: a call that opens a case finds none decided (`CaseIsNew`), and
between a decision and the row there is only the call it starts (`WaitsForCase`).

Model-checked only: liveness (`DeadIsReleased`, `PaidIsSettledUnlessFaulty`,
`EveryRequestEnds`, `DecisionSettles`), which is beyond the prover. Every safety
invariant and every action property of the runs is proved.

## 7. Not modelled

- *Internal transfers, fee accrual, settlement and outstandings* (`funds-layer`,
  `clearing-settle`): disconnected at this commit. The event handlers of the settlement,
  fiat and internal transfer workflows are emptied, the crons are disabled, and nothing
  calls `accrueForSwap`, `settle` or `settleByTransfer`; a model would enumerate calls
  the program does not make. Of `FundsFlowService` the legs of swaps and the fee fund
  of a withdrawal are modelled.
- *Onboarding, roles, scoring* (`identity/onboarding`, `risk-engine`): long forms and
  scoring tables, with little that runs concurrently.
- *Sumsub ingestion*: what `dispatch` does with a webhook is in `DepositSaga` and
  `ClientRisk`; the inbox that stores a webhook and retries it is not.
- *Material refresh*: the cron stages that warn before a document expires, and a refresh
  that Sumsub rejects; they change no state that `ClientRisk` reads.
- *Custody wallets, withdrawal addresses, assets and other entities that are created
  by an approval*: their approval has the shape of the creations in `ConfigChange`,
  but their own modules are not translated.
- *Gates and registries, pricing, liquidity configuration*: checks and data without a
  state of their own.
- *Audit, notifications, monitoring, user interfaces, seeds, scripts.* A failing audit
  write is an exception of its handler, which every model has.
