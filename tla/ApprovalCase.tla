---------------------------- MODULE ApprovalCase ----------------------------
(***************************************************************************)
(* ApprovalsService: one approval case, its steps and who may sign them.   *)
(*                                                                         *)
(* A decision is one SQL transaction.  Its event is emitted afterwards, in *)
(* the same call, once an audit row has been written: until then the       *)
(* decision is due.  The module has the operations; ConfigChange says who  *)
(* calls them and who listens.                                             *)
(***************************************************************************)
EXTENDS Naturals, Sequences

CONSTANTS
  User, Role,
  RolesOf,          \* the role codes of each user
  SuperAdmin,       \* the users with SUPER_ADMIN
  SameUserDenied,   \* the SoD rule DENY_SAME_USER_MAKER_CHECKER is enabled
  CancelAllowed,    \* allowCancel of the action's policy
  Case,             \* approval cases
  NoUser

ASSUME UserAssumption ==
  /\ RolesOf \in [User -> SUBSET Role]
  /\ SuperAdmin \subseteq User
  /\ NoUser \notin User
ASSUME SwitchAssumption == SameUserDenied \in BOOLEAN /\ CancelAllowed \in BOOLEAN

VARIABLES
  approval,  \* the row of each case with its steps
  decided,   \* the decisions committed for each case
  due        \* those of them whose event is still to be emitted

caseVars == <<approval, decided, due>>

Decision == {"APPROVED", "DECLINED", "CANCELLED"}
CaseStatus == {"none", "DRAFT", "PENDING", "APPROVED", "REJECTED", "CANCELLED"}
StepState == {"PENDING", "APPROVED", "REJECTED", "CANCELLED"}
ApprovalStep == [roles : SUBSET Role, state : StepState, by : User \union {NoUser}]
ApprovalRow ==
  [status : CaseStatus, maker : User \union {NoUser}, step : Seq(ApprovalStep)]

NoApproval == [status |-> "none", maker |-> NoUser, step |-> <<>>]
CaseInit ==
  /\ approval = [c \in Case |-> NoApproval]
  /\ decided = [c \in Case |-> {}]
  /\ due = [c \in Case |-> {}]

-----------------------------------------------------------------------------
Step(c) == approval[c].step
StepsIn(c, state) == {i \in DOMAIN Step(c) : Step(c)[i].state = state}

\* approve and reject act on the first pending step only.
IsCurrent(c, i) ==
  i \in StepsIn(c, "PENDING") /\ \A j \in StepsIn(c, "PENDING") : i <= j

\* Mutant: anyone with the role may sign, as often as asked.
MaySignTwice(c, i, u) ==
  /\ u \in SuperAdmin \/ RolesOf[u] \intersect Step(c)[i].roles # {}
  /\ u \in SuperAdmin \/ ~SameUserDenied \/ u # approval[c].maker

\* resolveDecisionRole: a role of the step, not the maker, not twice.  The
\* super admin is exempt from the first two, never from the third.
MaySign(c, i, u) ==
  /\ u \in SuperAdmin \/ RolesOf[u] \intersect Step(c)[i].roles # {}
  /\ u \in SuperAdmin \/ ~SameUserDenied \/ u # approval[c].maker
  /\ \A j \in StepsIn(c, "APPROVED") : Step(c)[j].by # u

\* The steps after one has been signed, or refused; who refuses or cancels is
\* read by nobody and not kept.
Signed(c, i, u) == [Step(c) EXCEPT ![i] = [@ EXCEPT !.state = "APPROVED", !.by = u]]
Refused(c, i) == [Step(c) EXCEPT ![i].state = "REJECTED"]
\* The steps after every pending one has been given up.
GivenUp(steps) ==
  [i \in DOMAIN steps |->
     IF steps[i].state = "PENDING"
     THEN [steps[i] EXCEPT !.state = "CANCELLED"] ELSE steps[i]]

SetCase(c, status, steps) ==
  approval' = [approval EXCEPT ![c] = [@ EXCEPT !.status = status, !.step = steps]]
Decide(c, decision) ==
  /\ decided' = [decided EXCEPT ![c] = @ \union {decision}]
  /\ due' = [due EXCEPT ![c] = @ \union {decision}]

-----------------------------------------------------------------------------
\* createDraftCase for an entityRef that has no case yet, with the steps the
\* policy has at this moment.
CreateDraft(c, maker, steps) ==
  approval' = [approval EXCEPT ![c] =
    [status |-> "DRAFT", maker |-> maker,
     step |-> [i \in DOMAIN steps |->
       [roles |-> steps[i], state |-> "PENDING", by |-> NoUser]]]]

\* The two updates of submitCase.  createAndSubmit makes them without a
\* transaction, after it has read that the case is DRAFT.
ActivateFirstStep(c) ==
  SetCase(c, approval[c].status, [Step(c) EXCEPT ![1].state = "PENDING"])
ActivateCase(c) == approval' = [approval EXCEPT ![c].status = "PENDING"]

\* Mutant: a case is decided by its first signature.
ApproveAtOnce(c, u) ==
  /\ approval[c].status = "PENDING"
  /\ \E i \in DOMAIN Step(c) :
       /\ IsCurrent(c, i) /\ MaySign(c, i, u)
       /\ SetCase(c, "APPROVED", Signed(c, i, u))
       /\ Decide(c, "APPROVED")

\* approve: the last pending step decides the case.
Approve(c, u) ==
  /\ approval[c].status = "PENDING"
  /\ \E i \in DOMAIN Step(c) :
       /\ IsCurrent(c, i) /\ MaySign(c, i, u)
       /\ \/ /\ \E j \in StepsIn(c, "PENDING") : j > i
             /\ SetCase(c, "PENDING", Signed(c, i, u))
             /\ UNCHANGED <<decided, due>>
          \/ /\ \A j \in StepsIn(c, "PENDING") : j <= i
             /\ SetCase(c, "APPROVED", Signed(c, i, u))
             /\ Decide(c, "APPROVED")

\* reject: one refusal decides the case and gives up the later steps.
Reject(c, u) ==
  /\ approval[c].status = "PENDING"
  /\ \E i \in DOMAIN Step(c) :
       /\ IsCurrent(c, i) /\ MaySign(c, i, u)
       /\ SetCase(c, "REJECTED", GivenUp(Refused(c, i)))
  /\ Decide(c, "DECLINED")

\* cancel: the maker or a super admin withdraws a draft or a pending case.
Cancel(c, u) ==
  /\ approval[c].status \in {"DRAFT", "PENDING"}
  /\ CancelAllowed
  /\ u = approval[c].maker \/ u \in SuperAdmin
  /\ SetCase(c, "CANCELLED", GivenUp(Step(c)))
  /\ Decide(c, "CANCELLED")

\* Mutant: the event of a decision can be emitted again.
EmittedAgain(c, decision) == decision \in due[c] /\ UNCHANGED due

\* The audit row is written and the event emitted.
Emitted(c, decision) ==
  /\ decision \in due[c]
  /\ due' = [due EXCEPT ![c] = @ \ {decision}]

-----------------------------------------------------------------------------
\* Whoever signed a step had a role for it or is a super admin, is not the
\* maker unless exempt, and has signed no other step: resolveDecisionRole
\* over the whole life of a case, races with submit and cancel included.
FourEyes ==
  \A c \in Case : \A i \in StepsIn(c, "APPROVED") :
    LET u == Step(c)[i].by IN
    /\ u \in User
    /\ u \in SuperAdmin \/ RolesOf[u] \intersect Step(c)[i].roles # {}
    /\ SameUserDenied /\ u = approval[c].maker => u \in SuperAdmin
    /\ \A j \in StepsIn(c, "APPROVED") : Step(c)[j].by = u => j = i

\* "Last step: case APPROVED": every step of an approved case is signed, unless
\* the maker cancelled the case while createAndSubmit was submitting it.
ApprovedInFull ==
  \A c \in Case :
    approval[c].status = "APPROVED" /\ "CANCELLED" \notin decided[c] =>
      StepsIn(c, "APPROVED") = DOMAIN Step(c)
=============================================================================
