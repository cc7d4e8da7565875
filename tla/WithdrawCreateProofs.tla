------------------------- MODULE WithdrawCreateProofs -------------------------
(***************************************************************************)
(* The creation of withdrawals is safe for every set of requests, quotes   *)
(* and amounts and every number of faults: CreateInv is inductive.  The    *)
(* argument is the write lock: between consumeQuote and Commit there is    *)
(* one transaction, so the quote it found ACTIVE is still ACTIVE when it   *)
(* is marked USED, and a committed request never runs its catch block.     *)
(***************************************************************************)
EXTENDS WithdrawCreate, TLAPS

LEMMA CreateInit == Init => CreateInv
BY QuoteAssumption, BoundAssumption
   DEF Init, CreateInv, TypeOK, WriterAlone, LockProgress, CreatedIsFinal,
       CreatedIsLocked, OneWithdrawalPerQuote, InTransaction, Ended, Leg

\* What the ledger answers to one leg: locked, or refused for want of balance.
Locked(r, leg, next) ==
  /\ lock' = [lock EXCEPT ![r][leg] = "pending"]
  /\ Goto(r, next)
  /\ UNCHANGED <<quote, expired, cancelling, writer, known, created, faults>>

Overdrawn(r) ==
  /\ writer' = NoOne
  /\ Goto(r, "undoNet")
  /\ UNCHANGED <<quote, expired, cancelling, lock, known, created, faults>>

LEMMA LockLegAnswers ==
  ASSUME NEW r, NEW leg, NEW next, LockLeg(r, leg, next)
  PROVE  Locked(r, leg, next) \/ Overdrawn(r)
BY Zenon DEF LockLeg, Locked, Overdrawn

\* A void that is skipped, made or failed keeps the types.
LEMMA UndoType ==
  ASSUME TypeOK, NEW r \in Request, NEW leg \in Leg, NEW next \in {"undoFee", "failed"},
         UndoLeg(r, leg, next)
  PROVE  TypeOK'
<1> USE BoundAssumption DEF TypeOK, Goto, InTransaction, Ended
<1>1. CASE Goto(r, next) /\ UNCHANGED <<lock, faults>> BY <1>1 DEF UndoLeg
<1>2. CASE /\ lock' = [lock EXCEPT ![r][leg] = "voided"]
           /\ Goto(r, next) /\ UNCHANGED faults
  BY <1>2 DEF UndoLeg
<1>3. CASE /\ faults < MaxFaults /\ faults' = faults + 1
           /\ Goto(r, "stuck") /\ UNCHANGED lock
  BY <1>3 DEF UndoLeg
<1> QED BY ONLY <1>1, <1>2, <1>3, UndoLeg(r, leg, next), Zenon DEF UndoLeg

\* A step of one request inside the transaction or its catch block keeps the
\* types: it writes its own lock, its own memory and its own place.
LEMMA StepType ==
  ASSUME TypeOK, NEW r \in Request, Step(r) \/ TransactionFails(r)
  PROVE  TypeOK'
<1> USE QuoteAssumption, BoundAssumption DEF TypeOK, Goto, InTransaction, Ended, Leg
<1>1. CASE ConsumeQuote(r) BY <1>1 DEF ConsumeQuote
<1>2. CASE LockNet(r)
  <2>1. CASE Locked(r, "NET", "recordNet") BY <1>2, <2>1 DEF LockNet, Locked
  <2>2. CASE Overdrawn(r) BY <1>2, <2>2 DEF LockNet, Overdrawn
  <2> QED BY ONLY <1>2, <2>1, <2>2, LockLegAnswers, Zenon DEF LockNet
<1>3. CASE RecordNet(r) BY <1>3 DEF RecordNet, RecordLeg
<1>4. CASE LockFee(r)
  <2>1. CASE Locked(r, "FEE", "recordFee") BY <1>4, <2>1 DEF LockFee, Locked
  <2>2. CASE Overdrawn(r) BY <1>4, <2>2 DEF LockFee, Overdrawn
  <2> QED BY ONLY <1>4, <2>1, <2>2, LockLegAnswers, Zenon DEF LockFee
<1>5. CASE RecordFee(r) BY <1>5 DEF RecordFee, RecordLeg
<1>6. CASE Commit(r) BY <1>6 DEF Commit
<1>7. CASE Emit(r) BY <1>7 DEF Emit
<1>8. CASE UndoNet(r) BY <1>8, UndoType DEF UndoNet
<1>9. CASE UndoFee(r) BY <1>9, UndoType DEF UndoFee
<1>10. CASE TransactionFails(r) BY <1>10 DEF TransactionFails
<1> QED BY <1>1, <1>2, <1>3, <1>4, <1>5, <1>6, <1>7, <1>8, <1>9, <1>10 DEF Step

\* The rest of the invariant, when the types are already known to be kept.
Rest ==
  /\ WriterAlone /\ LockProgress /\ CreatedIsFinal
  /\ CreatedIsLocked /\ OneWithdrawalPerQuote

\* The catch block touches its own lock and its own place only, and a request
\* that runs its catch block was never committed.
LEMMA UndoEffect ==
  ASSUME CreateInv, NEW r \in Request, NEW leg \in Leg,
         NEW next \in {"undoFee", "failed"}, UndoLeg(r, leg, next)
  PROVE  /\ at'[r] \in {"undoFee", "failed", "stuck"}
         /\ \A s \in Request \ {r} : at'[s] = at[s] /\ lock'[s] = lock[s]
         /\ UNCHANGED <<quote, writer, created>>
<1>1. at \in [Request -> {"new", "emit", "undoNet", "undoFee"}
                           \union InTransaction \union Ended]
      /\ lock \in [Request -> [Leg -> {"none", "pending", "voided"}]]
  BY DEF CreateInv, TypeOK
<1>2. CASE Goto(r, next) /\ UNCHANGED lock BY <1>1, <1>2 DEF Goto, UndoLeg
<1>3. CASE lock' = [lock EXCEPT ![r][leg] = "voided"] /\ Goto(r, next)
  BY <1>1, <1>3 DEF Goto, UndoLeg
<1>4. CASE Goto(r, "stuck") /\ UNCHANGED lock BY <1>1, <1>4 DEF Goto, UndoLeg
<1> QED BY ONLY <1>2, <1>3, <1>4, UndoLeg(r, leg, next), Zenon DEF UndoLeg

LEMMA UndoRest ==
  ASSUME CreateInv, NEW r \in Request, at[r] \in {"undoNet", "undoFee"},
         NEW leg \in Leg, NEW next \in {"undoFee", "failed"}, UndoLeg(r, leg, next)
  PROVE  Rest'
<1>1. /\ at'[r] \in {"undoFee", "failed", "stuck"}
      /\ \A s \in Request \ {r} : at'[s] = at[s] /\ lock'[s] = lock[s]
      /\ UNCHANGED <<quote, writer, created>>
  BY UndoEffect
<1>2. r \notin created BY DEF CreateInv, CreatedIsFinal
<1>3. created \subseteq Request BY DEF CreateInv, TypeOK
<1>4. WriterAlone' BY <1>1 DEF CreateInv, WriterAlone, InTransaction
<1>5. LockProgress' BY <1>1 DEF CreateInv, LockProgress
<1>6. CreatedIsFinal' BY <1>1, <1>2, <1>3 DEF CreateInv, CreatedIsFinal
<1>7. CreatedIsLocked' BY <1>1, <1>2, <1>3 DEF CreateInv, CreatedIsLocked
<1>8. OneWithdrawalPerQuote' BY <1>1 DEF CreateInv, OneWithdrawalPerQuote
<1> QED BY <1>4, <1>5, <1>6, <1>7, <1>8 DEF Rest

LEMMA StepRest ==
  ASSUME CreateInv, NEW r \in Request, Step(r) \/ TransactionFails(r)
  PROVE  Rest'
<1> USE QuoteAssumption, NoOneAssumption
    DEF CreateInv, Rest, TypeOK, WriterAlone, LockProgress, CreatedIsFinal,
        CreatedIsLocked, OneWithdrawalPerQuote, Goto, InTransaction, Ended, Leg
<1>1. CASE ConsumeQuote(r) BY <1>1 DEF ConsumeQuote
<1>2. CASE LockNet(r)
  <2>1. CASE Locked(r, "NET", "recordNet") BY <1>2, <2>1 DEF LockNet, Locked
  <2>2. CASE Overdrawn(r) BY <1>2, <2>2 DEF LockNet, Overdrawn
  <2> QED BY ONLY <1>2, <2>1, <2>2, LockLegAnswers, Zenon DEF LockNet
<1>3. CASE RecordNet(r) BY <1>3 DEF RecordNet, RecordLeg
<1>4. CASE LockFee(r)
  <2>1. CASE Locked(r, "FEE", "recordFee") BY <1>4, <2>1 DEF LockFee, Locked
  <2>2. CASE Overdrawn(r) BY <1>4, <2>2 DEF LockFee, Overdrawn
  <2> QED BY ONLY <1>4, <2>1, <2>2, LockLegAnswers, Zenon DEF LockFee
<1>5. CASE RecordFee(r) BY <1>5 DEF RecordFee, RecordLeg
<1>6. CASE Commit(r) BY <1>6 DEF Commit
<1>7. CASE Emit(r) BY <1>7 DEF Emit
<1>8. CASE UndoNet(r) BY ONLY <1>8, CreateInv, r \in Request, UndoRest DEF UndoNet, Leg
<1>9. CASE UndoFee(r) BY ONLY <1>9, CreateInv, r \in Request, UndoRest DEF UndoFee, Leg
<1>10. CASE TransactionFails(r) BY <1>10 DEF TransactionFails
<1> QED BY <1>1, <1>2, <1>3, <1>4, <1>5, <1>6, <1>7, <1>8, <1>9, <1>10 DEF Step

\* The customer's other calls and the crash leave locks and commits alone.
LEMMA OtherKeeps == ASSUME CreateInv, Customer \/ Crash PROVE CreateInv'
<1> USE QuoteAssumption, BoundAssumption, NoOneAssumption
    DEF CreateInv, TypeOK, WriterAlone, LockProgress, CreatedIsFinal,
        CreatedIsLocked, OneWithdrawalPerQuote, InTransaction, Ended, Leg
<1>1. ASSUME NEW q \in Quote, CancelRead(q) PROVE CreateInv' BY <1>1 DEF CancelRead
<1>2. ASSUME NEW q \in Quote, CancelWrite(q) PROVE CreateInv' BY <1>2 DEF CancelWrite
<1>3. ASSUME NEW q \in Quote, Expire(q) PROVE CreateInv' BY <1>3 DEF Expire
<1>4. CASE Crash BY <1>4 DEF Crash
<1> QED BY <1>1, <1>2, <1>3, <1>4 DEF Customer

LEMMA CreateStep == ASSUME CreateInv, [Next]_vars PROVE CreateInv'
<1>1. CASE UNCHANGED vars
  BY <1>1 DEF vars, CreateInv, TypeOK, WriterAlone, LockProgress, CreatedIsFinal,
              CreatedIsLocked, OneWithdrawalPerQuote
<1>2. ASSUME NEW r \in Request, Step(r) \/ TransactionFails(r) PROVE CreateInv'
  BY <1>2, StepType, StepRest DEF CreateInv, Rest
<1> QED BY <1>1, <1>2, OtherKeeps DEF Next

THEOREM CreateInvariant == Spec => []CreateInv
BY CreateInit, CreateStep, PTL DEF Spec

\* No two withdrawals are created for the price of one quote.
THEOREM QuoteSpentOnce == Spec => []OneWithdrawalPerQuote
<1>1. CreateInv => OneWithdrawalPerQuote BY DEF CreateInv
<1> QED BY <1>1, CreateInvariant, PTL

\* Every withdrawal that is created has its net amount and its fee locked.
THEOREM CreatedHoldsItsAmount == Spec => []CreatedIsLocked
<1>1. CreateInv => CreatedIsLocked BY DEF CreateInv
<1> QED BY <1>1, CreateInvariant, PTL

-----------------------------------------------------------------------------
\* What a request that is refused has given back: the catch block goes through the
\* legs in order, and knows of every lock that was recorded.
Record(leg) == IF leg = "NET" THEN "recordNet" ELSE "recordFee"
ReleaseFits(r) ==
  /\ at[r] = "new" => \A leg \in Leg : lock[r][leg] = "none"
  /\ at[r] \in {"undoFee", "failed"} /\ "NET" \in known[r] => lock[r]["NET"] # "pending"
  /\ at[r] = "failed" /\ "FEE" \in known[r] => lock[r]["FEE"] # "pending"
  /\ \A leg \in Leg : lock[r][leg] = "pending" /\ faults = 0 =>
       leg \in known[r] \/ at[r] = Record(leg)

\* A refused request whose voids went through keeps only a lock whose id its catch
\* block was never told, and only a failure leaves one: want of balance does not.
RefusedIsReleased ==
  \A r \in Request, leg \in Leg : at[r] = "failed" /\ lock[r][leg] = "pending" =>
    leg \notin known[r] /\ faults > 0

\* Whoever waits for SQLite's write lock waits for a request inside its transaction.
WriterIsAtWork == writer # NoOne => at[writer] \in InTransaction

AnswerInv == CreateInv /\ WriterIsAtWork /\ \A r \in Request : ReleaseFits(r)

LEMMA UndoReleases ==
  ASSUME AnswerInv, NEW r \in Request, UndoNet(r) \/ UndoFee(r)
  PROVE  ReleaseFits(r)' /\ UNCHANGED writer /\ UNCHANGED known
<1>1. /\ at[r] \in {"undoNet", "undoFee"} /\ UNCHANGED <<writer, known>> /\ ReleaseFits(r)
  BY DEF UndoNet, UndoFee, UndoLeg, AnswerInv
<1>2. /\ at \in [Request -> {"new", "emit", "undoNet", "undoFee"}
                           \union InTransaction \union Ended]
      /\ lock \in [Request -> [Leg -> {"none", "pending", "voided"}]]
      /\ faults \in Nat /\ {"NET", "FEE"} = Leg
  BY BoundAssumption DEF AnswerInv, CreateInv, TypeOK, Leg
<1>3. CASE UndoNet(r)
  <2>1. CASE "NET" \notin known[r] /\ at' = [at EXCEPT ![r] = "undoFee"] /\ UNCHANGED <<lock, faults>>
    BY <1>1, <1>2, <1>3, <2>1 DEF ReleaseFits, UndoNet, Record
  <2>2. CASE /\ lock' = [lock EXCEPT ![r]["NET"] = "voided"]
             /\ at' = [at EXCEPT ![r] = "undoFee"] /\ UNCHANGED faults
    BY <1>1, <1>2, <1>3, <2>2 DEF ReleaseFits, UndoNet, Record
  <2>3. CASE at' = [at EXCEPT ![r] = "stuck"] /\ faults' = faults + 1 /\ UNCHANGED lock
    BY <1>1, <1>2, <2>3 DEF ReleaseFits
  <2> QED
    BY ONLY <1>3, <2>1, <2>2, <2>3, Zenon DEF UndoNet, UndoLeg, Goto
<1>4. CASE UndoFee(r)
  <2>1. CASE "FEE" \notin known[r] /\ at' = [at EXCEPT ![r] = "failed"] /\ UNCHANGED <<lock, faults>>
    BY <1>1, <1>2, <1>4, <2>1 DEF ReleaseFits, UndoFee, Record
  <2>2. CASE /\ lock' = [lock EXCEPT ![r]["FEE"] = "voided"]
             /\ at' = [at EXCEPT ![r] = "failed"] /\ UNCHANGED faults
    BY <1>1, <1>2, <1>4, <2>2 DEF ReleaseFits, UndoFee, Record
  <2>3. CASE at' = [at EXCEPT ![r] = "stuck"] /\ faults' = faults + 1 /\ UNCHANGED lock
    BY <1>1, <1>2, <2>3 DEF ReleaseFits
  <2> QED
    BY ONLY <1>4, <2>1, <2>2, <2>3, Zenon DEF UndoFee, UndoLeg, Goto
<1> QED
  BY <1>1, <1>3, <1>4

\* A step of one request leaves the others' locks, memory and places alone.
LEMMA OthersStay ==
  ASSUME AnswerInv, NEW r \in Request, Step(r) \/ TransactionFails(r)
  PROVE  \A s \in Request \ {r} :
           /\ at'[s] = at[s] /\ lock'[s] = lock[s] /\ known'[s] = known[s]
           /\ faults' = faults \/ faults' > 0
<1> USE BoundAssumption DEF AnswerInv, CreateInv, TypeOK, Goto
<1>1. CASE ConsumeQuote(r) BY <1>1 DEF ConsumeQuote
<1>2. CASE LockNet(r) BY <1>2 DEF LockNet, LockLeg
<1>3. CASE RecordNet(r) BY <1>3 DEF RecordNet, RecordLeg
<1>4. CASE LockFee(r) BY <1>4 DEF LockFee, LockLeg
<1>5. CASE RecordFee(r) BY <1>5 DEF RecordFee, RecordLeg
<1>6. CASE Commit(r) BY <1>6 DEF Commit
<1>7. CASE Emit(r) BY <1>7 DEF Emit
<1>8. CASE UndoNet(r) BY <1>8 DEF UndoNet, UndoLeg
<1>9. CASE UndoFee(r) BY <1>9 DEF UndoFee, UndoLeg
<1>10. CASE TransactionFails(r) BY <1>10 DEF TransactionFails
<1> QED BY <1>1, <1>2, <1>3, <1>4, <1>5, <1>6, <1>7, <1>8, <1>9, <1>10 DEF Step

\* The step of a request keeps what is known of it, and ends its transaction or not.
LEMMA OwnFits ==
  ASSUME AnswerInv, NEW r \in Request, Step(r) \/ TransactionFails(r)
  PROVE  ReleaseFits(r)' /\ WriterIsAtWork'
<1>0. ReleaseFits(r) /\ WriterIsAtWork /\ CreateInv
  BY DEF AnswerInv
<1> USE QuoteAssumption, BoundAssumption, NoOneAssumption, <1>0
    DEF CreateInv, TypeOK, WriterAlone, Goto, InTransaction, Ended, Leg, Record,
        WriterIsAtWork, ReleaseFits
<1>1. CASE ConsumeQuote(r) BY <1>1 DEF ConsumeQuote
<1>2. CASE LockNet(r)
  <2>1. CASE Locked(r, "NET", "recordNet") BY <1>2, <2>1 DEF LockNet, Locked
  <2>2. CASE Overdrawn(r) BY <1>2, <2>2 DEF LockNet, Overdrawn
  <2> QED BY ONLY <1>2, <2>1, <2>2, LockLegAnswers, Zenon DEF LockNet
<1>3. CASE RecordNet(r) BY <1>3 DEF RecordNet, RecordLeg
<1>4. CASE LockFee(r)
  <2>1. CASE Locked(r, "FEE", "recordFee") BY <1>4, <2>1 DEF LockFee, Locked
  <2>2. CASE Overdrawn(r) BY <1>4, <2>2 DEF LockFee, Overdrawn
  <2> QED BY ONLY <1>4, <2>1, <2>2, LockLegAnswers, Zenon DEF LockFee
<1>5. CASE RecordFee(r) BY <1>5 DEF RecordFee, RecordLeg
<1>6. CASE Commit(r) BY <1>6 DEF Commit
<1>7. CASE Emit(r) BY <1>7 DEF Emit
<1>8. CASE UndoNet(r) \/ UndoFee(r)
  <2>1. ReleaseFits(r)' /\ UNCHANGED writer
    BY ONLY <1>8, AnswerInv, r \in Request, UndoReleases
  <2>2. writer # r /\ \A s \in Request \ {r} : at'[s] = at[s]
    <3>1. at[r] \in {"undoNet", "undoFee"} BY ONLY <1>8 DEF UndoNet, UndoFee
    <3>2. Step(r) BY ONLY <1>8 DEF Step
    <3>3. \A s \in Request \ {r} : at'[s] = at[s] BY ONLY <3>2, AnswerInv, r \in Request, OthersStay
    <3> QED BY <3>1, <3>3
  <2> QED BY <2>1, <2>2
<1>10. CASE TransactionFails(r) BY <1>10 DEF TransactionFails
<1> QED BY <1>1, <1>2, <1>3, <1>4, <1>5, <1>6, <1>7, <1>8, <1>10 DEF Step

LEMMA AnswerStep == AnswerInv /\ [Next]_vars => AnswerInv'
<1> SUFFICES ASSUME AnswerInv, [Next]_vars PROVE AnswerInv'
  OBVIOUS
<1>1. CreateInv /\ CreateInv' /\ WriterIsAtWork /\ \A r \in Request : ReleaseFits(r)
  BY CreateStep DEF AnswerInv
<1>2. ASSUME NEW r \in Request, Step(r) \/ TransactionFails(r) PROVE AnswerInv'
  <2>1. \A s \in Request \ {r} : ReleaseFits(s)'
    BY <1>1, <1>2, OthersStay DEF ReleaseFits
  <2> QED
    BY <1>1, <1>2, <2>1, OwnFits DEF AnswerInv
<1>3. CASE Customer \/ UNCHANGED vars
  <2>1. UNCHANGED <<writer, lock, known, at, faults>>
    BY <1>3 DEF Customer, CancelRead, CancelWrite, Expire, vars
  <2> QED
    BY <1>1, <2>1 DEF AnswerInv, WriterIsAtWork, ReleaseFits
<1>4. CASE Crash
  <2>1. /\ faults' > 0 /\ writer' = NoOne /\ UNCHANGED <<lock, known>>
        /\ \A r \in Request : at'[r] = at[r] \/ at'[r] = "lost"
    BY <1>1, <1>4, BoundAssumption DEF Crash, CreateInv, TypeOK
  <2> QED
    BY <1>1, <2>1 DEF AnswerInv, WriterIsAtWork, ReleaseFits
<1> QED
  BY <1>2, <1>3, <1>4 DEF Next

LEMMA AnswerInvariant == Spec => []AnswerInv
<1>1. Init => AnswerInv
  BY CreateInit DEF Init, AnswerInv, WriterIsAtWork, ReleaseFits, Leg
<1> QED
  BY <1>1, AnswerStep, PTL DEF Spec

\* A refused request whose catch block has run to its end has nothing locked but a leg
\* whose evidence was never written; if no call failed, nothing.
THEOREM RefusedHoldsNothing == Spec => []RefusedIsReleased
<1>1. AnswerInv => RefusedIsReleased
  BY BoundAssumption
  DEF AnswerInv, ReleaseFits, RefusedIsReleased, Record, Leg, CreateInv, TypeOK
<1> QED
  BY <1>1, AnswerInvariant, PTL

\* The write lock is given back: it is held by a request inside its transaction, never
\* by one that has ended, been refused or died: who waits, waits for one at work.
THEOREM WriteLockIsGivenBack == Spec => []WriterIsAtWork
<1>1. AnswerInv => WriterIsAtWork
  BY DEF AnswerInv
<1> QED
  BY <1>1, AnswerInvariant, PTL
=============================================================================
