-------------------------- MODULE ConfigInvariant --------------------------
(***************************************************************************)
(* Why a case is decided once and its proposal applied once: the inductive *)
(* invariant of ConfigChange.                                              *)
(***************************************************************************)
EXTENDS ConfigChange

Granted(c) == "APPROVED" \in decided[c]
BeforeSubmit == {"new", "guard", "look", "insert", "draft", "refused"}
Submitting == {"submit", "activateStep", "activateCase"}

\* Only a change waits at the guard, and only a change has a value to look at.
OnlyChangesLook ==
  \A c \in Case : request[c].at \in {"guard", "look"} => FamilyOf(c) \in ChangeFamily

\* Until its call has submitted it, a case is nothing more than a draft that may
\* have been cancelled.
CallOwnsDraft ==
  \A c \in Case :
    /\ request[c].at \in BeforeSubmit => approval[c].status = "none"
    /\ request[c].at \in Submitting => approval[c].status \in {"DRAFT", "CANCELLED"}

\* An open case is not granted, and a cancelled one remembers it.
OpenIsUngranted ==
  \A c \in Case :
    /\ Granted(c) => approval[c].status = "APPROVED"
    /\ approval[c].status = "CANCELLED" => "CANCELLED" \in decided[c]

\* One event and one handler carry an approval, and neither has any colleague.
OneApproval ==
  /\ \A c \in Case : "APPROVED" \in due[c] =>
       /\ Granted(c) /\ c \notin applied
       /\ \A h \in handler : h.case = c => h.decision # "APPROVED"
  /\ \A h \in handler :
       /\ h.decision = "APPROVED" <=> h.at \notin {"close", "closeWrite"}
       /\ h.decision = "APPROVED" => Granted(h.case)
       /\ h.at \in {"read", "apply"} => h.case \notin applied
  /\ \A g, h \in handler :
       g.case = h.case /\ g.decision = "APPROVED" /\ h.decision = "APPROVED" => g = h
  /\ \A c \in applied : Granted(c)

\* A request that has been applied is pending no more.
AppliedIsClosed == \A c \in applied : ~Open(c)

\* The steps of an open case are signed or wait to be, unless it was cancelled.
StepsAreOpen ==
  \A c \in Case :
    approval[c].status \in {"none", "DRAFT", "PENDING"} /\ "CANCELLED" \notin decided[c] =>
      \A i \in DOMAIN Step(c) : Step(c)[i].state \in {"PENDING", "APPROVED"}

\* The inductive invariant: types, and the parts above.
ChangeInv ==
  /\ TypeOK /\ OnlyChangesLook
  /\ CallOwnsDraft /\ OpenIsUngranted /\ OneApproval /\ AppliedIsClosed
  /\ StepsAreOpen

\* A refusal is final, and only a committed decision is emitted and handled.
DecisionsStand ==
  /\ \A c \in Case :
       /\ "DECLINED" \in decided[c] => approval[c].status = "REJECTED"
       /\ due[c] \subseteq decided[c]
  /\ \A h \in handler : h.decision \in decided[h.case]

\* The catch block of a call runs when the case was cancelled under it, or when
\* a fault has hit it.
UndoHasReason ==
  \A c \in Case \ lost :
    request[c].at \in {"undo", "undoWrite", "failed"} => "CANCELLED" \in decided[c]

\* A handler writes the audit of what it has applied, and gives up before.
HandlerKnows ==
  \A h \in handler :
    /\ h.at = "audit" => h.case \in applied
    /\ h.at = "fail" /\ h.case \notin lost => h.case \notin applied

\* An open request waits for its approvers, for an event or for a handler, as
\* soon as its case has left the hands of its call.
InHand(c) ==
  \/ approval[c].status = "PENDING" \/ due[c] # {}
  \/ \E h \in handler : h.case = c
OpenIsInHand ==
  \A c \in Case \ lost : Open(c) =>
    \/ InHand(c)
    \/ request[c].at = "draft"
    \/ request[c].at \in Submitting /\ approval[c].status = "DRAFT"

\* What a request says of itself is true, and is not forgotten, because of these.
OutcomeInv ==
  /\ DecisionsStand /\ UndoHasReason /\ HandlerKnows
  /\ OutcomeIsTrue /\ OpenIsInHand
=============================================================================
