--------------------------- MODULE WithdrawCreate ---------------------------
(***************************************************************************)
(* createWithdrawal: several requests of one customer, each with a priced  *)
(* quote, race for the quote and for the customer's balance.               *)
(*                                                                         *)
(* One SQL transaction consumes the quote and inserts the withdrawal; in   *)
(* the middle of it the money is locked in TigerBeetle, which no rollback  *)
(* undoes.  When the transaction fails, the catch block voids the locks    *)
(* whose ids it knows.  SQLite has one writer at a time: the transaction   *)
(* is the writer from consumeQuote, its first write, to its end.           *)
(***************************************************************************)
EXTENDS Naturals, FiniteSetsExt

CONSTANTS
  Request,    \* POST /client/withdraw-transactions calls
  Quote,      \* withdrawPricingQuote rows of the customer
  QuoteOf,    \* the quoteId a request carries
  Net, Fee,   \* the amounts a quote prices
  Balance,    \* what the customer owns on the ledger
  MaxFaults   \* bound: failed calls and crashes in one behaviour

ASSUME QuoteAssumption ==
  /\ QuoteOf \in [Request -> Quote]
  /\ Net \in [Quote -> Nat \ {0}] /\ Fee \in [Quote -> Nat]
ASSUME BoundAssumption == Balance \in Nat /\ MaxFaults \in Nat

VARIABLES
  quote,       \* the committed status of each quote
  expired,     \* the quotes whose expiresAt has passed
  cancelling,  \* the quotes a cancelQuote call has read as ACTIVE
  writer,      \* the request whose transaction holds the write lock
  lock,        \* the pending transfers of each request
  known,       \* the legs whose transfer id the catch block can see
  created,     \* the requests whose withdrawal is committed
  at,          \* where each request is
  faults

vars == <<quote, expired, cancelling, writer, lock, known, created, at, faults>>

Leg == {"NET", "FEE"}
NoOne == "no writer"
ASSUME NoOneAssumption == NoOne \notin Request

InTransaction == {"lockNet", "recordNet", "lockFee", "recordFee", "commit"}
Ended == {"done", "failed", "stuck", "lost"}

Amount(r, leg) == IF leg = "NET" THEN Net[QuoteOf[r]] ELSE Fee[QuoteOf[r]]
Held == MapThenSumSet(LAMBDA p : Amount(p[1], p[2]),
                      {p \in Request \X Leg : lock[p[1]][p[2]] = "pending"})

Goto(r, place) == at' = [at EXCEPT ![r] = place]

-----------------------------------------------------------------------------
\* Mutant: the quote is read outside the transaction.
ConsumeQuoteEarly(r) ==
  /\ at[r] = "new"
  /\ IF quote[QuoteOf[r]] = "ACTIVE" /\ QuoteOf[r] \notin expired
     THEN writer' = r /\ Goto(r, "lockNet")
     ELSE Goto(r, "failed") /\ UNCHANGED writer
  /\ UNCHANGED <<quote, expired, cancelling, lock, known, created, faults>>

\* getActiveQuoteOrThrow and consumeQuote.  An expired quote is written
\* EXPIRED and rolled back with the same exception, so it stays ACTIVE.
ConsumeQuote(r) ==
  /\ at[r] = "new"
  /\ writer = NoOne
  /\ IF quote[QuoteOf[r]] = "ACTIVE" /\ QuoteOf[r] \notin expired
     THEN writer' = r /\ Goto(r, "lockNet")
     ELSE Goto(r, "failed") /\ UNCHANGED writer
  /\ UNCHANGED <<quote, expired, cancelling, lock, known, created, faults>>

\* Mutant: the errors TigerBeetle returns are not looked at.
LockLegBlindly(r, leg, next) ==
  /\ lock' = IF Held + Amount(r, leg) <= Balance
             THEN [lock EXCEPT ![r][leg] = "pending"] ELSE lock
  /\ Goto(r, next)
  /\ UNCHANGED <<quote, expired, cancelling, writer, known, created, faults>>

\* Mutant: a refused transfer leaves the transaction open.
LockLegHangs(r, leg, next) ==
  /\ \/ /\ Held + Amount(r, leg) <= Balance
        /\ lock' = [lock EXCEPT ![r][leg] = "pending"]
        /\ Goto(r, next)
     \/ /\ Held + Amount(r, leg) > Balance
        /\ Goto(r, "undoNet")
        /\ UNCHANGED lock
  /\ UNCHANGED <<quote, expired, cancelling, writer, known, created, faults>>

\* executePendingTransfer, first half: CLIENT_PAYABLE may not be overdrawn.
LockLeg(r, leg, next) ==
  /\ \/ /\ Held + Amount(r, leg) <= Balance
        /\ lock' = [lock EXCEPT ![r][leg] = "pending"]
        /\ Goto(r, next)
        /\ UNCHANGED writer
     \/ /\ Held + Amount(r, leg) > Balance
        /\ writer' = NoOne
        /\ Goto(r, "undoNet")
        /\ UNCHANGED lock
  /\ UNCHANGED <<quote, expired, cancelling, known, created, faults>>

\* Second half: the evidence row is written in the transaction, and only then
\* is the transfer id assigned to the variable the catch block reads.
RecordLeg(r, leg, next) ==
  /\ known' = [known EXCEPT ![r] = @ \union {leg}]
  /\ Goto(r, next)
  /\ UNCHANGED <<quote, expired, cancelling, writer, lock, created, faults>>

LockNet(r) == at[r] = "lockNet" /\ LockLeg(r, "NET", "recordNet")
RecordNet(r) ==
  /\ at[r] = "recordNet"
  /\ RecordLeg(r, "NET", IF Fee[QuoteOf[r]] > 0 THEN "lockFee" ELSE "commit")
LockFee(r) == at[r] = "lockFee" /\ LockLeg(r, "FEE", "recordFee")
RecordFee(r) == at[r] = "recordFee" /\ RecordLeg(r, "FEE", "commit")

Commit(r) ==
  /\ at[r] = "commit"
  /\ quote' = [quote EXCEPT ![QuoteOf[r]] = "USED"]
  /\ created' = created \union {r}
  /\ writer' = NoOne
  /\ Goto(r, "emit")
  /\ UNCHANGED <<expired, cancelling, lock, known, faults>>

\* WITHDRAWAL_CREATED: the withdrawal's own story starts (WithdrawSaga).
Emit(r) ==
  /\ at[r] = "emit"
  /\ Goto(r, "done")
  /\ UNCHANGED <<quote, expired, cancelling, writer, lock, known, created, faults>>

\* A call inside the transaction throws, or its 20 seconds are over: SQL is
\* rolled back and the catch block runs.
TransactionFails(r) ==
  /\ at[r] \in InTransaction
  /\ faults < MaxFaults
  /\ faults' = faults + 1
  /\ writer' = NoOne
  /\ Goto(r, "undoNet")
  /\ UNCHANGED <<quote, expired, cancelling, lock, known, created>>

\* voidPendingTransferBestEffort: a void that fails is logged CRITICAL, here
\* remembered by the request ending "stuck".
UndoLeg(r, leg, next) ==
  /\ \/ leg \notin known[r] /\ Goto(r, next) /\ UNCHANGED <<lock, faults>>
     \/ /\ leg \in known[r]
        /\ lock' = [lock EXCEPT ![r][leg] = "voided"]
        /\ Goto(r, next)
        /\ UNCHANGED faults
     \/ /\ leg \in known[r]
        /\ faults < MaxFaults /\ faults' = faults + 1
        /\ Goto(r, "stuck")
        /\ UNCHANGED lock
  /\ UNCHANGED <<quote, expired, cancelling, writer, known, created>>

UndoNet(r) == at[r] = "undoNet" /\ UndoLeg(r, "NET", "undoFee")
UndoFee(r) == at[r] = "undoFee" /\ UndoLeg(r, "FEE", "failed")

-----------------------------------------------------------------------------
\* cancelQuote has no transaction: it reads the row, then writes it.
CancelRead(q) ==
  /\ quote[q] = "ACTIVE"
  /\ cancelling' = cancelling \union {q}
  /\ UNCHANGED <<quote, expired, writer, lock, known, created, at, faults>>

CancelWrite(q) ==
  /\ q \in cancelling
  /\ writer = NoOne
  /\ quote' = [quote EXCEPT ![q] = "CANCELLED"]
  /\ cancelling' = cancelling \ {q}
  /\ UNCHANGED <<expired, writer, lock, known, created, at, faults>>

Expire(q) ==
  /\ expired' = expired \union {q}
  /\ UNCHANGED <<quote, cancelling, writer, lock, known, created, at, faults>>

\* The process dies; SQLite rolls back, TigerBeetle keeps what it has.
Crash ==
  /\ \E r \in Request : at[r] \notin Ended \union {"new"}
  /\ faults < MaxFaults
  /\ faults' = faults + 1
  /\ at' = [r \in Request |->
             IF at[r] \in Ended \union {"new"} THEN at[r] ELSE "lost"]
  /\ writer' = NoOne
  /\ cancelling' = {}
  /\ UNCHANGED <<quote, expired, lock, known, created>>

Init ==
  /\ quote = [q \in Quote |-> "ACTIVE"]
  /\ expired = {} /\ cancelling = {}
  /\ writer = NoOne
  /\ lock = [r \in Request |-> [leg \in Leg |-> "none"]]
  /\ known = [r \in Request |-> {}]
  /\ created = {}
  /\ at = [r \in Request |-> "new"]
  /\ faults = 0

Step(r) ==
  \/ ConsumeQuote(r) \/ LockNet(r) \/ RecordNet(r) \/ LockFee(r) \/ RecordFee(r)
  \/ Commit(r) \/ Emit(r) \/ UndoNet(r) \/ UndoFee(r)

Customer == \E q \in Quote : CancelRead(q) \/ CancelWrite(q) \/ Expire(q)

Next ==
  (\E r \in Request : Step(r) \/ TransactionFails(r)) \/ Customer \/ Crash

Spec == Init /\ [][Next]_vars

\* Node runs every request it has accepted until it ends.
FairSpec == Spec /\ \A r \in Request : WF_vars(Step(r))

-----------------------------------------------------------------------------
\* Quotes, locks and requests have values their code can store; a request
\* remembers the ids of its own legs only (netTbId and feeTbId).
TypeOK ==
  /\ quote \in [Quote -> {"ACTIVE", "USED", "CANCELLED"}]
  /\ expired \subseteq Quote /\ cancelling \subseteq Quote
  /\ writer \in Request \union {NoOne}
  /\ lock \in [Request -> [Leg -> {"none", "pending", "voided"}]]
  /\ known \in [Request -> SUBSET Leg]
  /\ created \subseteq Request
  /\ at \in [Request -> {"new", "emit", "undoNet", "undoFee"}
                          \union InTransaction \union Ended]
  /\ faults \in 0..MaxFaults

\* A price is good for one withdrawal, whatever requests, cancellations and
\* failures race for it (consumeQuote inside the transaction).
OneWithdrawalPerQuote ==
  \A r, s \in created : QuoteOf[r] = QuoteOf[s] => r = s

\* A committed withdrawal has its whole amount locked on the ledger, which no
\* catch block, of this request or another, has given back.
CreatedIsLocked ==
  \A r \in created :
    /\ lock[r]["NET"] = "pending"
    /\ Fee[QuoteOf[r]] > 0 => lock[r]["FEE"] = "pending"

\* Why: a transaction that has consumed its quote is the only writer until it
\* ends, and it goes from place to place only with its legs locked.
WriterAlone ==
  \A r \in Request : at[r] \in InTransaction =>
    writer = r /\ quote[QuoteOf[r]] = "ACTIVE"

LockProgress ==
  \A r \in Request :
    /\ at[r] \in {"recordNet", "lockFee", "recordFee", "commit"} =>
         lock[r]["NET"] = "pending"
    /\ at[r] = "recordFee" => lock[r]["FEE"] = "pending"
    /\ at[r] = "commit" /\ Fee[QuoteOf[r]] > 0 => lock[r]["FEE"] = "pending"

CreatedIsFinal ==
  \A r \in created : at[r] \in {"emit", "done", "lost"} /\ quote[QuoteOf[r]] # "ACTIVE"

\* Whatever requests, cancellations, failures and crashes there are, no request
\* commits a quote that another one has spent or an amount it has not locked.
CreateInv ==
  /\ TypeOK
  /\ WriterAlone /\ LockProgress /\ CreatedIsFinal
  /\ CreatedIsLocked /\ OneWithdrawalPerQuote

\* Every request is answered: whoever waits for SQLite's write lock gets it.  One
\* that is refused while no call failed ends with nothing locked: the catch block
\* of createWithdrawal has run to its end, after an overdraft on the fee leg too.
EveryRequestEnds ==
  \A r \in Request :
    <>(/\ at[r] \in Ended
       /\ at[r] = "failed" /\ faults = 0 => \A leg \in Leg : lock[r][leg] # "pending")
=============================================================================
