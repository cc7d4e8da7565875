------------------------------ MODULE SwapSaga ------------------------------
(***************************************************************************)
(* A swap of a customer: a quote is consumed and four legs are settled one *)
(* after the other - SELL, SETTLE, BUY, FEE.  A leg is an internal fund,   *)
(* with an attempt counter, and up to two ledger transfers that are held   *)
(* when it is created, posted when it is CLEAR and voided when it fails.   *)
(*                                                                         *)
(* Every call (executeSwap, advanceLeg, resumeLeg) is one SQL transaction. *)
(* SQLite has one writer, and every ledger transfer comes after the first  *)
(* write, so one transaction is at work at a time: `tx`, with the rows it  *)
(* will commit.  The ledger takes no part in it: what the transaction did  *)
(* there stays when the rows are rolled back.                              *)
(***************************************************************************)
EXTENDS FundStates, Naturals

CONSTANTS
  Request,         \* calls of executeSwap, each with a swap number of its own
  Quote,
  QuoteOf,         \* the quote a request carries
  MaxLegAttempts,  \* MAX_LEG_ATTEMPTS, 3 in the code
  Attempts         \* bound: attempts of one leg, the resumed ones included

ASSUME SwapAssumption ==
  /\ QuoteOf \in [Request -> Quote] /\ Request # {}
  /\ MaxLegAttempts \in Nat /\ Attempts \in Nat
  /\ 1 <= MaxLegAttempts /\ MaxLegAttempts <= Attempts

VARIABLES
  terms,       \* what a quote is for: the kinds of its assets, and a fee or none
  quote,       \* the status of each quote
  cancelling,  \* quotes a cancellation has read as ACTIVE
  swap,        \* the committed rows of each request: swap, legs and evidence
  ledger,      \* what TigerBeetle has of each attempt of each leg
  tx,          \* the transaction at work
  torn         \* requests whose rows were rolled back after a ledger call

vars == <<terms, quote, cancelling, swap, ledger, tx, torn>>

Leg == 1..4
Attempt == 1..Attempts
TbStatus == {"none", "pending", "posted", "voided"}
Pair == {"CRYPTO_FIAT", "FIAT_CRYPTO", "CRYPTO_CRYPTO"}
\* `tries` is the number of attempts of a leg, `leg` the status of the last one:
\* no other one is ever read.
Row == [status : {"none", "PROCESSING", "SUCCESS"},
        tries : [Leg -> 0..Attempts], leg : [Leg -> FundStatus \union {"none"}],
        evidence : [Leg -> [Attempt -> [1..2 -> TbStatus]]]]
Transaction == [at : {"idle", "hold", "post", "void", "commit"}, on : Request,
                leg : Leg, next : 1..3, row : Row, wrote : BOOLEAN]

\* Every variable holds values of its kind.
TypeOK ==
  /\ terms \in [Quote -> [pair : Pair, fee : BOOLEAN]]
  /\ quote \in [Quote -> {"ACTIVE", "USED", "CANCELLED"}]
  /\ cancelling \subseteq Quote
  /\ swap \in [Request -> Row]
  /\ ledger \in [Request -> [Leg -> [Attempt -> [1..2 -> TbStatus]]]]
  /\ tx \in Transaction
  /\ torn \subseteq Request

Untouched == [l \in Leg |-> [a \in Attempt |-> [k \in 1..2 |-> "none"]]]
NoRow == [status |-> "none", tries |-> [l \in Leg |-> 0],
          leg |-> [l \in Leg |-> "none"], evidence |-> Untouched]
Idle == [at |-> "idle", on |-> CHOOSE s \in Request : TRUE, leg |-> 1, next |-> 1,
         row |-> NoRow, wrote |-> FALSE]

Init ==
  /\ terms \in [Quote -> [pair : Pair, fee : BOOLEAN]]
  /\ quote = [q \in Quote |-> "ACTIVE"] /\ cancelling = {}
  /\ swap = [s \in Request |-> NoRow]
  /\ ledger = [s \in Request |-> Untouched]
  /\ tx = Idle /\ torn = {}

FromFiat(s) == terms[QuoteOf[s]].pair = "FIAT_CRYPTO"
ToFiat(s) == terms[QuoteOf[s]].pair = "CRYPTO_FIAT"
\* The plan of the legs: the asset a leg moves, and the transfers it makes.
FromSide(s, l) == l = 1 \/ (l = 2 /\ FromFiat(s))
IsFiat(s, l) == IF FromSide(s, l) THEN FromFiat(s) ELSE ToFiat(s)
Entries(s, l) ==
  CASE l = 2 -> {1}
    [] l = 4 /\ ~terms[QuoteOf[s]].fee -> {}
    [] OTHER -> {1, 2}

NextFund(s, l, status, act) ==
  {t \in FundTransitions(IsFiat(s, l)) : t[1] = status /\ t[2] = act}

\* A `to` leg is started as fiat whenever the `from` asset is not.
StartAction(s, l) == IF FromSide(s, l) <=> FromFiat(s) THEN "SUBMIT" ELSE "SIGN"

-----------------------------------------------------------------------------
Begin(s, place, l, row) ==
  /\ tx.at = "idle"
  /\ tx' = [Idle EXCEPT !.at = place, !.on = s, !.leg = l, !.row = row]
  /\ UNCHANGED <<terms, quote, cancelling, swap, ledger, torn>>

\* A new attempt of a leg, to be held next.
Opened(row, l, attempt) ==
  [row EXCEPT !.tries[l] = attempt, !.leg[l] = "CREATED"]

\* executeSwap: a number is used for one call only.
Execute(s) ==
  /\ swap[s].status = "none" /\ s \notin torn
  /\ quote[QuoteOf[s]] = "ACTIVE"
  /\ Begin(s, "hold", 1, Opened([NoRow EXCEPT !.status = "PROCESSING"], 1, 1))

\* Mutant: a returned leg is left alone.
AfterNoReturn(status) ==
  CASE status = "CLEAR" -> "post"
    [] status \in {"FAILED", "TIMEOUT"} -> "void"
    [] OTHER -> "commit"

After(status) ==
  CASE status = "CLEAR" -> "post"
    [] status \in {"FAILED", "TIMEOUT", "RETURNED"} -> "void"
    [] OTHER -> "commit"

\* advanceLeg: any action the status machine has, on any leg whose prior legs are
\* CLEAR.  (No committed leg is CREATED, so it never books a hold.)
Advance(s, l, act) ==
  /\ swap[s].status = "PROCESSING" /\ swap[s].tries[l] > 0
  /\ \A m \in Leg : m < l /\ swap[s].tries[m] > 0 => swap[s].leg[m] = "CLEAR"
  /\ \E t \in NextFund(s, l, swap[s].leg[l], act) :
       Begin(s, After(t[3]), l, [swap[s] EXCEPT !.leg[l] = t[3]])

\* resumeLeg, up to the bound.
Resume(s, l) ==
  /\ swap[s].status = "PROCESSING"
  /\ swap[s].leg[l] = "NEEDS_REVIEW" /\ swap[s].tries[l] < Attempts
  /\ Begin(s, "hold", l, Opened(swap[s], l, swap[s].tries[l] + 1))

-----------------------------------------------------------------------------
\* The transaction at work: its leg, attempt and transfer.
At == tx.row.tries[tx.leg]
More == tx.next \in Entries(tx.on, tx.leg)
InLedger == ledger[tx.on][tx.leg][At][tx.next]
InEvidence == tx.row.evidence[tx.leg][At][tx.next]

Transfer(status) == ledger' = [ledger EXCEPT ![tx.on][tx.leg][At][tx.next] = status]
Recorded(status) ==
  tx' = [tx EXCEPT !.row.evidence[tx.leg][At][tx.next] = status,
                   !.next = @ + 1, !.wrote = TRUE]
Skipped == tx' = [tx EXCEPT !.next = @ + 1]
GoOn(place, l, row) ==
  tx' = [tx EXCEPT !.at = place, !.leg = l, !.next = 1, !.row = row]

\* An exception: the rows are rolled back, the ledger is not.
Abort(wrote) ==
  /\ tx' = Idle
  /\ torn' = IF wrote THEN torn \union {tx.on} ELSE torn

\* initiateLegPending: the transfer's id is derived from swap, entry and attempt;
\* one that exists already is taken for recorded.
Hold ==
  /\ tx.at = "hold" /\ More
  /\ IF InLedger = "none" THEN Transfer("pending") /\ Recorded("pending")
     ELSE UNCHANGED ledger /\ Skipped
  /\ UNCHANGED <<terms, quote, cancelling, swap, torn>>

\* Mutant: an evidence row that is not there is not missed.
ResolveUnrecorded(status) ==
  /\ IF InLedger # "pending" THEN Abort(tx.wrote) /\ UNCHANGED ledger
     ELSE Transfer(status) /\ Recorded(InEvidence) /\ UNCHANGED torn
  /\ UNCHANGED <<terms, quote, cancelling, swap>>

\* Post or void one held transfer and update its evidence row: either throws if
\* there is nothing to update.
Resolve(status) ==
  /\ IF InLedger # "pending" THEN Abort(tx.wrote) /\ UNCHANGED ledger
     ELSE /\ Transfer(status)
          /\ IF InEvidence = "none" THEN Abort(TRUE)
             ELSE Recorded(status) /\ UNCHANGED torn
  /\ UNCHANGED <<terms, quote, cancelling, swap>>

\* Mutant: a post that the ledger refuses is logged and passed over.
PostBestEffort ==
  /\ tx.at = "post" /\ More
  /\ Resolve("posted")
     \/ (InLedger # "pending" /\ Skipped
         /\ UNCHANGED <<terms, quote, cancelling, swap, ledger, torn>>)

\* postLeg and voidLeg.
Post == tx.at = "post" /\ More /\ Resolve("posted")

\* Mutant: a void that the ledger refuses is logged and passed over.
VoidBestEffort ==
  /\ tx.at = "void" /\ More
  /\ Resolve("voided")
     \/ (InLedger # "pending" /\ Skipped
         /\ UNCHANGED <<terms, quote, cancelling, swap, ledger, torn>>)

Void == tx.at = "void" /\ More /\ Resolve("voided")

\* onLegCleared: the next leg, or the end.
LegPosted ==
  /\ tx.at = "post" /\ ~More
  /\ IF tx.leg = 4 THEN GoOn("commit", 4, [tx.row EXCEPT !.status = "SUCCESS"])
     ELSE GoOn("hold", tx.leg + 1, Opened(tx.row, tx.leg + 1, 1))
  /\ UNCHANGED <<terms, quote, cancelling, swap, ledger, torn>>

\* Mutant: attempts are not counted.
LegRetried ==
  /\ tx.at = "void" /\ ~More
  /\ GoOn("hold", tx.leg, Opened(tx.row, tx.leg, At + 1))
  /\ UNCHANGED <<terms, quote, cancelling, swap, ledger, torn>>

\* onLegFailedSelfHeal: another attempt, or a leg to be reviewed.
LegVoided ==
  /\ tx.at = "void" /\ ~More
  /\ IF At < MaxLegAttempts
     THEN GoOn("hold", tx.leg, Opened(tx.row, tx.leg, At + 1))
     ELSE GoOn("commit", tx.leg, [tx.row EXCEPT !.leg[tx.leg] = "NEEDS_REVIEW"])
  /\ UNCHANGED <<terms, quote, cancelling, swap, ledger, torn>>

\* The end of createAndStartLeg: a start the status machine does not know throws.
LegHeld ==
  /\ tx.at = "hold" /\ ~More
  /\ LET start == NextFund(tx.on, tx.leg, "CREATED", StartAction(tx.on, tx.leg)) IN
     IF start = {} THEN Abort(tx.wrote)
     ELSE /\ \E t \in start :
               GoOn("commit", tx.leg, [tx.row EXCEPT !.leg[tx.leg] = t[3]])
          /\ UNCHANGED torn
  /\ UNCHANGED <<terms, quote, cancelling, swap, ledger>>

Commit ==
  /\ tx.at = "commit"
  /\ swap' = [swap EXCEPT ![tx.on] = tx.row]
  /\ quote' = IF swap[tx.on].status = "none"
              THEN [quote EXCEPT ![QuoteOf[tx.on]] = "USED"] ELSE quote
  /\ tx' = Idle
  /\ UNCHANGED <<terms, cancelling, ledger, torn>>

\* The await throws, the transaction times out or the process dies.
Fails ==
  /\ tx.at # "idle"
  /\ Abort(tx.wrote)
  /\ UNCHANGED <<terms, quote, cancelling, swap, ledger>>

\* cancelQuote has no transaction: it reads, and writes when the writer is free.
CancelRead(q) ==
  /\ quote[q] = "ACTIVE" /\ q \notin cancelling
  /\ cancelling' = cancelling \union {q}
  /\ UNCHANGED <<terms, quote, swap, ledger, tx, torn>>
CancelWrite(q) ==
  /\ q \in cancelling /\ tx.at = "idle"
  /\ quote' = [quote EXCEPT ![q] = "CANCELLED"]
  /\ cancelling' = cancelling \ {q}
  /\ UNCHANGED <<terms, swap, ledger, tx, torn>>

LegStep == Hold \/ Post \/ Void \/ LegPosted \/ LegVoided \/ LegHeld
Next ==
  \/ \E s \in Request : Execute(s)
  \/ \E s \in Request, l \in Leg, act \in FundAction : Advance(s, l, act)
  \/ \E s \in Request, l \in Leg : Resume(s, l)
  \/ LegStep
  \/ Commit
  \/ Fails
  \/ \E q \in Quote : CancelRead(q) \/ CancelWrite(q)
Spec == Init /\ [][Next]_vars

-----------------------------------------------------------------------------
Posted(s, l, a, k) == ledger[s][l][a][k] = "posted"

\* No entry of a leg is charged twice, however often the leg is retried or
\* resumed, and no quote is sold twice, however many requests carry it.
MovedOnce ==
  \A s \in Request, l \in Leg, a \in Attempt, k \in 1..2 : Posted(s, l, a, k) =>
    \A u \in Request, b \in Attempt :
      QuoteOf[s] = QuoteOf[u] /\ Posted(u, l, b, k) => s = u /\ a = b

\* The firm does not commit to a leg before every earlier one is paid: nothing
\* of it is in the ledger, not even a hold.
SoldFirst ==
  \A s \in Request, l \in Leg, a \in Attempt, k \in 1..2 :
    ledger[s][l][a][k] # "none" =>
      \A m \in 1..l-1 : \A j \in Entries(s, m) : \E b \in Attempt : Posted(s, m, b, j)

\* What an attempt of a leg has in the ledger and in the evidence, by its rows.
Expected(row, l, a) ==
  IF a < row.tries[l] THEN "voided"
  ELSE IF a > row.tries[l] THEN "none"
  ELSE CASE row.leg[l] = "CLEAR" -> "posted"
         [] row.leg[l] \in {"FAILED", "TIMEOUT", "RETURNED", "NEEDS_REVIEW"} -> "voided"
         [] OTHER -> "pending"

\* A swap that says SUCCESS has every leg charged in its last attempt, every
\* earlier attempt given back, no hold left, and the evidence to show for it.
SwapSettled ==
  \A s \in Request : swap[s].status = "SUCCESS" =>
    \A l \in Leg : /\ swap[s].leg[l] = "CLEAR"
                   /\ \A a \in Attempt, k \in Entries(s, l) :
                        /\ ledger[s][l][a][k] = Expected(swap[s], l, a)
                        /\ swap[s].evidence[l][a][k] = Expected(swap[s], l, a)

\* Between transactions the ledger is what the rows say, so that a leg at work can
\* be cleared, failed or resumed - unless rows were rolled back after a ledger call.
LedgerFollowsLegs ==
  \A s \in Request \ torn : tx.on # s \/ tx.at = "idle" =>
    \A l \in Leg, a \in Attempt : \A k \in Entries(s, l) :
      /\ ledger[s][l][a][k] = Expected(swap[s], l, a)
      /\ swap[s].evidence[l][a][k] = Expected(swap[s], l, a)

-----------------------------------------------------------------------------
Due == [s \in Request |-> [l \in Leg |-> Entries(s, l)]]
Sold == {s \in Request : swap[s].status # "none"}
Settled == {s \in Request : swap[s].status = "SUCCESS"}
Promise == INSTANCE SwapPromise WITH due <- Due, sold <- Sold, settled <- Settled

\* SwapPromise: whatever is rolled back, the ledger moves as promised, a transfer at
\* a time, and the row says SUCCESS when it is done.
KeepsPromise == Promise!Spec
=============================================================================
