---------------------------- MODULE ConfigChange ----------------------------
(***************************************************************************)
(* The configuration workflows: an administrator asks to change a fee      *)
(* level ("fee": of swaps and of withdrawals), a transaction limit         *)
(* ("limit"), a role ("role") or an approval policy ("policy"), or to      *)
(* create a fee level or limit ("level") or a role ("newRole").  The       *)
(* request gets an approval case, and what the approvers decide is         *)
(* executed.                                                               *)
(*                                                                         *)
(* The workflows have one shape and differ in what they check, where, and  *)
(* in what they write when something fails.  The policy workflow changes   *)
(* the steps that the cases of another one (Governed) get.  The row of a   *)
(* creation is the level, limit or role itself, APPROVED when it is ACTIVE.*)
(*                                                                         *)
(* A request is named by its case: entityRef is the id of the request.     *)
(***************************************************************************)
EXTENDS ApprovalCase

CONSTANTS
  Family,      \* the workflows in use
  Assignment,  \* which request may be of which family
  MakerOf,     \* the administrator who makes each request
  Wanted,      \* the configuration each request proposes
  Governed,    \* the family whose approval policy can be changed
  Value,       \* configurations
  FirstValue,  \* the configuration of every family at the start
  StepsOf,     \* the steps that a configuration of the policy stands for
  FixedSteps,  \* the steps of the other families
  MaxFaults    \* bound: failed calls and crashes in one behaviour

ASSUME FamilyAssumption ==
  /\ Family \subseteq {"fee", "limit", "role", "policy", "level", "newRole"}
  /\ Governed \in Family \ {"policy"}
  /\ Assignment \subseteq [Case -> Family]
  /\ MakerOf \in [Case -> User]
ASSUME ValueAssumption ==
  /\ FirstValue \in Value
  /\ Wanted \in [Case -> Value]
  /\ StepsOf \in [Value -> Seq(SUBSET Role) \ {<<>>}]
  /\ FixedSteps \in Seq(SUBSET Role) \ {<<>>}
  /\ MaxFaults \in Nat

VARIABLES
  request,  \* the request row of each case and where the call that made it is
  value,    \* the configuration of each family that changes one
  handler,  \* the decision handlers at work
  applied,  \* the cases whose proposal has been written
  lost,     \* the cases that a fault has hit
  faults

changeVars == <<request, value, handler, applied, lost, faults>>
vars == <<approval, decided, due, request, value, handler, applied, lost, faults>>

Creation == {"level", "newRole"}
ChangeFamily == Family \ Creation
RequestStatus == {"none", "PENDING_APPROVAL", "APPROVED", "EXECUTED", "REJECTED",
                  "CANCELLED", "FAILED", "DELETED"}
InCreateAndSubmit == {"draft", "submit", "activateStep", "activateCase", "announce"}
Calling == {"guard", "look", "insert", "undo", "undoWrite"} \union InCreateAndSubmit
Place == {"new", "refused", "failed", "done", "dead"} \union Calling
RequestRow == [at : Place, family : Family, snapshot : Value,
               status : RequestStatus]
HandlerPlace == {"read", "apply", "audit", "fail", "close", "closeWrite"}
Handler == [case : Case, decision : Decision, at : HandlerPlace]

\* Every variable holds values of its kind.
TypeOK ==
  /\ approval \in [Case -> ApprovalRow]
  /\ decided \in [Case -> SUBSET Decision] /\ due \in [Case -> SUBSET Decision]
  /\ request \in [Case -> RequestRow]
  /\ value \in [ChangeFamily -> Value]
  /\ handler \subseteq Handler
  /\ applied \subseteq Case /\ lost \subseteq Case /\ faults \in Nat

Init ==
  /\ CaseInit
  /\ \E family \in Assignment :
       request = [c \in Case |-> [at |-> "new", family |-> family[c],
         snapshot |-> FirstValue, status |-> "none"]]
  /\ value = [f \in ChangeFamily |-> FirstValue]
  /\ handler = {} /\ applied = {} /\ lost = {} /\ faults = 0

FamilyOf(c) == request[c].family
Status(c) == request[c].status
Steps(f) == IF f = Governed /\ "policy" \in Family
            THEN StepsOf[value["policy"]] ELSE FixedSteps

Goto(c, place) == request' = [request EXCEPT ![c].at = place]
Move(c, place, status) ==
  request' = [request EXCEPT ![c] = [@ EXCEPT !.at = place, !.status = status]]
Fault == faults < MaxFaults /\ faults' = faults + 1

-----------------------------------------------------------------------------
\* requestChange, one action per await.

\* The role and policy workflows take their snapshot here.
Ask(c) ==
  /\ request[c].at = "new"
  /\ \/ /\ FamilyOf(c) \in Creation
        /\ Goto(c, "insert")
     \/ /\ FamilyOf(c) \in ChangeFamily
        /\ FamilyOf(c) \in {"limit", "policy"} => Wanted[c] # value[FamilyOf(c)]
        /\ request' = [request EXCEPT ![c] = [@ EXCEPT
             !.at = "guard", !.snapshot = value[FamilyOf(c)]]]
  /\ UNCHANGED <<caseVars, value, handler, applied, lost, faults>>

\* The guard against a second pending request reads before the row is written.
Blocked(c) ==
  \E d \in Case : FamilyOf(d) = FamilyOf(c) /\ Status(d) = "PENDING_APPROVAL"
Guard(c) ==
  /\ request[c].at = "guard"
  /\ IF Blocked(c) THEN Goto(c, "refused")
     ELSE Goto(c, IF FamilyOf(c) \in {"fee", "limit"} THEN "look" ELSE "insert")
  /\ UNCHANGED <<caseVars, value, handler, applied, lost, faults>>

\* createChangeRequest of the fee and limit services: the guard once more, and
\* the snapshot.
Look(c) ==
  /\ request[c].at = "look"
  /\ \/ Blocked(c) /\ Goto(c, "refused")
     \/ /\ ~Blocked(c)
        /\ request' = [request EXCEPT ![c] =
             [@ EXCEPT !.at = "insert", !.snapshot = value[FamilyOf(c)]]]
  /\ UNCHANGED <<caseVars, value, handler, applied, lost, faults>>

Insert(c) ==
  /\ request[c].at = "insert"
  /\ Move(c, "draft", "PENDING_APPROVAL")
  /\ UNCHANGED <<caseVars, value, handler, applied, lost, faults>>

\* createAndSubmit: the case, with the steps the policy has now ...
Draft(c) ==
  /\ request[c].at = "draft"
  /\ CreateDraft(c, MakerOf[c], Steps(FamilyOf(c)))
  /\ Goto(c, "submit")
  /\ UNCHANGED <<decided, due, value, handler, applied, lost, faults>>

\* ... read again by submitCase ...
ReadDraft(c) ==
  /\ request[c].at = "submit"
  /\ Goto(c, IF approval[c].status = "DRAFT" THEN "activateStep" ELSE "undo")
  /\ UNCHANGED <<caseVars, value, handler, applied, lost, faults>>

\* ... and submitted by two updates.
SubmitStep(c) ==
  /\ request[c].at = "activateStep"
  /\ ActivateFirstStep(c)
  /\ Goto(c, "activateCase")
  /\ UNCHANGED <<decided, due, value, handler, applied, lost, faults>>

SubmitCase(c) ==
  /\ request[c].at = "activateCase"
  /\ ActivateCase(c)
  /\ Goto(c, "announce")
  /\ UNCHANGED <<decided, due, value, handler, applied, lost, faults>>

Announce(c) ==
  /\ request[c].at = "announce"
  /\ Goto(c, "done")
  /\ UNCHANGED <<caseVars, value, handler, applied, lost, faults>>

\* createAndSubmit throws, possibly with the case already open.
CreateFails(c) ==
  /\ request[c].at \in InCreateAndSubmit
  /\ Fault
  /\ Goto(c, "undo")
  /\ lost' = lost \union {c}
  /\ UNCHANGED <<caseVars, value, handler, applied>>

\* The catch block: the fee and limit workflows cancel a pending row, the role
\* workflow and the creations delete it, the policy workflow has none.
Undo(c) ==
  /\ request[c].at = "undo"
  /\ CASE FamilyOf(c) = "policy" -> Goto(c, "failed")
       [] FamilyOf(c) \in {"role"} \union Creation -> Move(c, "failed", "DELETED")
       [] OTHER -> Goto(c, IF Status(c) = "PENDING_APPROVAL"
                           THEN "undoWrite" ELSE "failed")
  /\ UNCHANGED <<caseVars, value, handler, applied, lost, faults>>

UndoWrite(c) ==
  /\ request[c].at = "undoWrite"
  /\ Move(c, "failed", "CANCELLED")
  /\ UNCHANGED <<caseVars, value, handler, applied, lost, faults>>

-----------------------------------------------------------------------------
\* The approvers.
Approves(c, u) == Approve(c, u) /\ UNCHANGED changeVars
Rejects(c, u) == Reject(c, u) /\ UNCHANGED changeVars
Cancels(c, u) == Cancel(c, u) /\ UNCHANGED changeVars

\* Mutant: the handler does not look at the decision.
DeliverAnyDecision(c, decision) ==
  /\ Emitted(c, decision)
  /\ handler' = handler \union {[case |-> c, decision |-> decision, at |-> "read"]}
  /\ UNCHANGED <<approval, decided, request, value, applied, lost, faults>>

\* The decision's event is emitted, and the workflow's handler starts.
Deliver(c, decision) ==
  /\ Emitted(c, decision)
  /\ handler' = handler \union {[case |-> c, decision |-> decision,
       at |-> IF decision = "APPROVED" THEN "read" ELSE "close"]}
  /\ UNCHANGED <<approval, decided, request, value, applied, lost, faults>>

\* The audit write between the commit and the event throws.
DeliverFails(c, decision) ==
  /\ Emitted(c, decision)
  /\ Fault
  /\ lost' = lost \union {c}
  /\ UNCHANGED <<approval, decided, request, value, handler, applied>>

-----------------------------------------------------------------------------
\* handleApprovalDecided.
Done(h) == handler' = handler \ {h}
Then(h, place) == handler' = (handler \ {h}) \union {[h EXCEPT !.at = place]}
SetStatus(c, status) == request' = [request EXCEPT ![c].status = status]
Fresh(c) == request[c].snapshot = value[FamilyOf(c)]
Open(c) == Status(c) = "PENDING_APPROVAL"

\* executeChange up to its transaction: the policy workflow checks nothing, the
\* limit and role workflows compare the snapshot here.
ReadRequest(h) ==
  /\ h.at = "read"
  /\ LET c == h.case IN
     \/ /\ FamilyOf(c) = "policy"
        /\ Then(h, "apply")
     \/ /\ FamilyOf(c) # "policy" /\ ~Open(c)
        /\ Done(h)
     \/ /\ FamilyOf(c) # "policy" /\ Open(c)
        /\ Then(h, IF FamilyOf(c) \in {"limit", "role"} /\ ~Fresh(c)
                   THEN "fail" ELSE "apply")
  /\ UNCHANGED <<caseVars, request, value, applied, lost, faults>>

\* Mutant: only the configuration is written.
WriteValueAlone(c) ==
  /\ value' = [f \in ChangeFamily |-> IF f = FamilyOf(c) THEN Wanted[c] ELSE value[f]]
  /\ UNCHANGED request
  /\ applied' = applied \union {c}

\* A creation has no value of a family to write.
WriteValue(c) ==
  /\ value' = [f \in ChangeFamily |-> IF f = FamilyOf(c) THEN Wanted[c] ELSE value[f]]
  /\ SetStatus(c, IF FamilyOf(c) = "limit" THEN "EXECUTED" ELSE "APPROVED")
  /\ applied' = applied \union {c}

\* Mutant: the transaction relies on what was read before it.
ApplyUnchecked(h) ==
  /\ h.at = "apply"
  /\ WriteValue(h.case)
  /\ Then(h, "audit")
  /\ UNCHANGED <<caseVars, lost, faults>>

\* The transaction: the fee and limit services check status and snapshot inside
\* it, activateLevel and activatePolicy the status, the others nothing.
Apply(h) ==
  /\ h.at = "apply"
  /\ LET c == h.case  f == FamilyOf(c) IN
     \/ /\ f \in {"fee", "limit", "level"} => Open(c)
        /\ f \in {"fee", "limit"} => Fresh(c)
        /\ Status(c) # "DELETED"
        /\ WriteValue(c)
        /\ Then(h, "audit")
     \/ /\ f \in {"fee", "limit"} /\ ~(Open(c) /\ Fresh(c))
        /\ Then(h, "fail")
        /\ UNCHANGED <<request, value, applied>>
     \/ /\ IF f = "level" THEN ~Open(c) ELSE Status(c) = "DELETED"
        /\ Done(h)
        /\ UNCHANGED <<request, value, applied>>
  /\ UNCHANGED <<caseVars, lost, faults>>

AuditApplied(h) ==
  /\ h.at = "audit"
  /\ Done(h)
  /\ UNCHANGED <<caseVars, request, value, applied, lost, faults>>

\* The transaction or the audit after it throws.  The change workflows mark the
\* request as failed; the role workflow lets the exception go, the creations
\* only audit it.
HandlerFails(h) ==
  /\ h.at \in {"apply", "audit"}
  /\ Fault
  /\ IF FamilyOf(h.case) \in {"role"} \union Creation
     THEN Done(h) ELSE Then(h, "fail")
  /\ lost' = lost \union {h.case}
  /\ UNCHANGED <<caseVars, request, value, applied>>

\* Mutant: the limit service marks whatever it finds, like the fee service.
MarkFailedAnyway(h) ==
  /\ h.at = "fail"
  /\ Done(h)
  /\ SetStatus(h.case, IF FamilyOf(h.case) = "role" THEN "APPROVED" ELSE "FAILED")
  /\ UNCHANGED <<caseVars, value, applied, lost, faults>>

\* markRequestExecutionFailed, which the limit service does for an open request
\* only, and failRequest of the role workflow, which writes APPROVED.
MarkFailed(h) ==
  /\ h.at = "fail"
  /\ Done(h)
  /\ CASE FamilyOf(h.case) = "role" -> SetStatus(h.case, "APPROVED")
       [] FamilyOf(h.case) = "limit" ->
            SetStatus(h.case, IF Open(h.case) THEN "FAILED" ELSE Status(h.case))
       [] OTHER -> SetStatus(h.case, "FAILED")
  /\ UNCHANGED <<caseVars, value, applied, lost, faults>>

\* Any other decision.  Policy changes and new roles are closed without a look.
CloseRead(h) ==
  /\ h.at = "close"
  /\ IF FamilyOf(h.case) \in {"policy", "newRole"} \/ Open(h.case)
     THEN Then(h, "closeWrite") ELSE Done(h)
  /\ UNCHANGED <<caseVars, request, value, applied, lost, faults>>

\* Mutant: a refused or cancelled request stays as it is.
CloseNothing(h) ==
  /\ h.at = "closeWrite"
  /\ Done(h)
  /\ UNCHANGED <<caseVars, request, value, applied, lost, faults>>

\* Only the policy workflow knows the decision DECLINED; the others compare it
\* with REJECTED and so write CANCELLED, and creations delete their row.
CloseWrite(h) ==
  /\ h.at = "closeWrite"
  /\ Done(h)
  /\ IF Status(h.case) = "DELETED" THEN UNCHANGED request
     ELSE SetStatus(h.case,
            CASE FamilyOf(h.case) \in Creation -> "DELETED"
              [] FamilyOf(h.case) = "policy" /\ h.decision = "DECLINED" -> "REJECTED"
              [] OTHER -> "CANCELLED")
  /\ UNCHANGED <<caseVars, value, applied, lost, faults>>

\* The process dies: calls, handlers and events that were not emitted are gone.
Crash ==
  LET hit == {c \in Case : \/ request[c].at \in Calling \/ due[c] # {}
                           \/ \E h \in handler : h.case = c} IN
  /\ hit # {}
  /\ Fault
  /\ request' = [c \in Case |-> IF request[c].at \in Calling
                                THEN [request[c] EXCEPT !.at = "dead"] ELSE request[c]]
  /\ handler' = {}
  /\ due' = [c \in Case |-> {}]
  /\ lost' = lost \union hit
  /\ UNCHANGED <<approval, decided, value, applied>>

-----------------------------------------------------------------------------
CallStep(c) ==
  \/ Guard(c) \/ Look(c) \/ Insert(c) \/ Draft(c) \/ ReadDraft(c)
  \/ SubmitStep(c) \/ SubmitCase(c) \/ Announce(c) \/ Undo(c) \/ UndoWrite(c)
HandlerStep(h) ==
  \/ ReadRequest(h) \/ Apply(h) \/ AuditApplied(h) \/ MarkFailed(h)
  \/ CloseRead(h) \/ CloseWrite(h)
Next ==
  \/ \E c \in Case :
       \/ Ask(c)
       \/ CallStep(c)
       \/ CreateFails(c)
       \/ \E u \in User : Approves(c, u) \/ Rejects(c, u) \/ Cancels(c, u)
       \/ \E decision \in Decision : Deliver(c, decision) \/ DeliverFails(c, decision)
  \/ \E h \in handler : HandlerStep(h) \/ HandlerFails(h)
  \/ Crash
Spec == Init /\ [][Next]_vars

-----------------------------------------------------------------------------
Control == INSTANCE ChangeControl WITH
  proposal <- [c \in Case |-> [family |-> FamilyOf(c), to |-> Wanted[c]]],
  granted <- {c \in Case : "APPROVED" \in decided[c]}
\* A configuration changes only by a proposal its approvers granted, to the value
\* they saw, and once per proposal, whatever crashes, is cancelled or overlaps.
ImplementsControl == Control!Spec

\* "Hash conflict check runs inside transaction": of a fee level or a limit,
\* a change replaces the value its maker saw, so no other change is lost.
NoLostUpdate ==
  [][\A c \in Case : c \in applied' \ applied /\ FamilyOf(c) \in {"fee", "limit"} =>
       request[c].snapshot = value[FamilyOf(c)]]_vars

\* markRequestExecutionFailed of the limit service: a limit change that says
\* failed has not been written, one that says executed has.
LimitOutcomeIsTrue ==
  \A c \in Case : FamilyOf(c) = "limit" =>
    /\ Status(c) = "FAILED" => c \notin applied
    /\ Status(c) = "EXECUTED" => c \in applied

\* Unless a fault has hit it, the status of a request tells at every moment
\* whether it was applied, whoever is at work on it.  Excepted are a case
\* cancelled while it was being submitted, and the role workflow, whose
\* failRequest says APPROVED too.
OutcomeIsTrue ==
  \A c \in Case :
    FamilyOf(c) # "role" /\ c \notin lost /\ "CANCELLED" \notin decided[c] =>
      (c \in applied <=> Status(c) \in {"APPROVED", "EXECUTED"})

\* A pending request blocks its target for every later one, so it must not be
\* forgotten: its call goes on, its case can still be decided, or the decision
\* is on its way, unless a fault has hit it.
NothingForgotten ==
  \A c \in Case : Open(c) /\ c \notin lost =>
    \/ request[c].at \in Calling
    \/ approval[c].status = "PENDING"
    \/ due[c] # {}
    \/ \E h \in handler : h.case = c
=============================================================================
