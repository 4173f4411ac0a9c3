------------------------------ MODULE Offering ------------------------------
(***************************************************************************)
(* Requests and donations, the declared payments they are born with, and   *)
(* the clergy who decide on both (RequestService, DonationService,         *)
(* PaymentService, PaymentMethodService, ClergyMemberService).             *)
(*                                                                         *)
(* Nothing here runs in a transaction: each statement commits by itself,   *)
(* and an action is one statement with the code up to the next.  A Form is *)
(* one call of create(), a Call one call of confirmOrReject() or           *)
(* updateStatus(); each is used at most once.  Foreign keys are those of   *)
(* the entities: CASCADE, RESTRICT, SET NULL.                              *)
(*                                                                         *)
(* Bound: a user has at most one affectation row per church; one deleted   *)
(* and made again is taken for the same, though the code gives it a new id.*)
(* The dates, schedules and lead times that validate() compares are data:  *)
(* a form that it refuses never starts.                                    *)
(***************************************************************************)
EXTENDS Naturals

CONSTANTS
    Forms, Calls, Users, Churches, Methods,
    MethodChurch,   \* PaymentMethod.churchId: no DTO can change it
    Admins,         \* users with the role admin or engineer
    Nobody          \* NULL

ASSUME OfferingAssumption ==
    /\ MethodChurch \in [Methods -> Churches]
    /\ Admins \subseteq Users

VARIABLES
    churches, users, methods,   \* the rows that exist
    clergy,      \* affectation of a user in a church
    free,        \* churches whose tariff is 0 for the type asked
    step,        \* where each form stands
    form,        \* what each form asks
    payment,     \* the Payment row of each form
    document,    \* status of the Request or Donation row of each form
    call,        \* what each call asks, and what it has found
    stand        \* where each call stands

rowVars == <<churches, users, methods, clergy, free>>
formVars == <<step, form, payment, document>>
callVars == <<call, stand>>
vars == <<rowVars, formVars, callVars>>

RequestStatus == {"SUBMITTED", "IN_PROGRESS", "CONFIRMED", "COMPLETED", "REJECTED"}
Verdicts == {"CONFIRMED", "REJECTED"}
PaymentStatus == Verdicts \cup {"SUBMITTED"}
Kinds == {"request", "donation"}
Affectations == Users \X Churches

Form == [kind : Kinds, user : Users, church : Churches, method : Methods \cup {Nobody},
         free : BOOLEAN]
Payment == [status : PaymentStatus, method : Methods, by : Affectations \cup {Nobody}]
Call == [form : Forms, user : Users, to : RequestStatus, by : Affectations \cup {Nobody}]

\* NULL is no row and no reference to one.
ASSUME NobodyAssumption == Nobody \notin Affectations \cup Methods \cup Form \cup Payment \cup Call

TypeOK ==
    /\ churches \subseteq Churches /\ users \subseteq Users /\ methods \subseteq Methods
    /\ clergy \in [Affectations -> {"none", "active", "ended"}]
    /\ free \subseteq Churches
    /\ step \in [Forms -> {"idle", "submit", "pay", "save", "done", "refused", "failed"}]
    /\ form \in [Forms -> Form \cup {Nobody}]
    /\ payment \in [Forms -> Payment \cup {Nobody}]
    /\ document \in [Forms -> RequestStatus \cup {"none", "DONATION"}]
    /\ call \in [Calls -> Call \cup {Nobody}]
    /\ stand \in [Calls -> {"idle", "find", "decide", "authorise", "update", "done", "refused"}]

Init ==
    /\ churches = Churches /\ users = Users /\ methods = Methods
    /\ clergy = [a \in Affectations |-> "none"]
    /\ free = {}
    /\ step = [f \in Forms |-> "idle"]
    /\ form = [f \in Forms |-> Nobody]
    /\ payment = [f \in Forms |-> Nobody]
    /\ document = [f \in Forms |-> "none"]
    /\ call = [d \in Calls |-> Nobody]
    /\ stand = [d \in Calls |-> "idle"]

Paid(f) == payment[f] # Nobody
Goto(f, s) == step' = [step EXCEPT ![f] = s]
Stand(d, s) == stand' = [stand EXCEPT ![d] = s]

-----------------------------------------------------------------------------
(* RequestService.create, DonationService.create *)

\* validate and the resolution of the tariff; a payment is given or not.
RequestStart(f, u, c, m) ==
    /\ step[f] = "idle"
    /\ u \in users /\ c \in churches
    /\ form' = [form EXCEPT ![f] = [kind |-> "request", user |-> u, church |-> c, method |-> m,
                                    free |-> c \in free]]
    /\ Goto(f, IF c \in free THEN "save" ELSE IF m = Nobody THEN "refused" ELSE "submit")
    /\ UNCHANGED <<rowVars, payment, document, callVars>>

DonationStart(f, u, c, m) ==
    /\ step[f] = "idle"
    /\ u \in users /\ c \in churches
    /\ m # Nobody
    /\ form' = [form EXCEPT ![f] = [kind |-> "donation", user |-> u, church |-> c, method |-> m,
                                    free |-> FALSE]]
    /\ Goto(f, "submit")
    /\ UNCHANGED <<rowVars, payment, document, callVars>>

\* Mutant: expectedChurchId is not compared.
SubmitFindAnywhere(f) ==
    /\ step[f] = "submit"
    /\ Goto(f, IF form[f].method \in methods THEN "pay" ELSE "refused")
    /\ UNCHANGED <<rowVars, form, payment, document, callVars>>

\* submit: the method exists and belongs to the church of the form.
SubmitFind(f) ==
    /\ step[f] = "submit"
    /\ Goto(f, IF /\ form[f].method \in methods
                  /\ MethodChurch[form[f].method] = form[f].church
               THEN "pay" ELSE "refused")
    /\ UNCHANGED <<rowVars, form, payment, document, callVars>>

\* submit: the row is inserted, if the method has not been deleted meanwhile.
SubmitSave(f) ==
    /\ step[f] = "pay"
    /\ IF form[f].method \in methods
       THEN /\ payment' = [payment EXCEPT ![f] = [status |-> "SUBMITTED", by |-> Nobody,
                                                  method |-> form[f].method]]
            /\ Goto(f, "save")
       ELSE Goto(f, "refused") /\ UNCHANGED payment
    /\ UNCHANGED <<rowVars, form, document, callVars>>

\* The request or the donation itself, with its foreign keys.
Save(f) ==
    /\ step[f] = "save"
    /\ form[f].user \in users /\ form[f].church \in churches
    /\ document' = [document EXCEPT ![f] =
                       IF form[f].kind = "request" THEN "SUBMITTED" ELSE "DONATION"]
    /\ Goto(f, "done")
    /\ UNCHANGED <<rowVars, form, payment, callVars>>

\* A foreign key is gone (user, church, type), the database or the process is down.
SaveFails(f) ==
    /\ step[f] = "save"
    /\ Goto(f, "failed")
    /\ UNCHANGED <<rowVars, form, payment, document, callVars>>

-----------------------------------------------------------------------------
(* PaymentService.confirmOrReject *)

\* Mutant: the status is not looked at.
DecideReadAny(d, f, u, verdict) ==
    /\ stand[d] = "idle"
    /\ u \in users
    /\ Paid(f)
    /\ call' = [call EXCEPT ![d] = [form |-> f, user |-> u, to |-> verdict, by |-> Nobody]]
    /\ Stand(d, "find")
    /\ UNCHANGED <<rowVars, formVars>>

DecideRead(d, f, u, verdict) ==
    /\ stand[d] = "idle"
    /\ u \in users
    /\ Paid(f)
    /\ payment[f].status = "SUBMITTED"
    /\ call' = [call EXCEPT ![d] = [form |-> f, user |-> u, to |-> verdict, by |-> Nobody]]
    /\ Stand(d, "find")
    /\ UNCHANGED <<rowVars, formVars>>

ActiveIn(u, c) == clergy[<<u, c>>] = "active"

\* Mutant: the church of the affectation is not compared.
DecideFindAnywhere(d) ==
    /\ stand[d] = "find"
    /\ \E c \in Churches :
          /\ ActiveIn(call[d].user, c)
          /\ call' = [call EXCEPT ![d].by = <<call[d].user, c>>]
    /\ Stand(d, "decide")
    /\ UNCHANGED <<rowVars, formVars>>

\* findActiveForUserAndChurch, in the church of the method: no role bypasses it.
DecideFind(d) ==
    /\ stand[d] = "find"
    /\ LET c == MethodChurch[payment[call[d].form].method]
       IN  /\ ActiveIn(call[d].user, c)
           /\ call' = [call EXCEPT ![d].by = <<call[d].user, c>>]
    /\ Stand(d, "decide")
    /\ UNCHANGED <<rowVars, formVars>>

DecideForbidden(d) ==
    /\ stand[d] = "find"
    /\ ~ActiveIn(call[d].user, MethodChurch[payment[call[d].form].method])
    /\ Stand(d, "refused")
    /\ UNCHANGED <<rowVars, formVars, call>>

\* Mutant: the user is recorded instead of the affectation.
DecideWriteUser(d) ==
    /\ stand[d] = "decide"
    /\ payment' = [payment EXCEPT ![call[d].form].status = call[d].to,
                                  ![call[d].form].by = call[d].user]
    /\ Stand(d, "done")
    /\ UNCHANGED <<rowVars, step, form, document, call>>

\* The update has no condition on the status; its foreign key must still exist.
DecideWrite(d) ==
    /\ stand[d] = "decide"
    /\ IF clergy[call[d].by] = "none"
       THEN Stand(d, "refused") /\ UNCHANGED payment
       ELSE /\ payment' = [payment EXCEPT ![call[d].form].status = call[d].to,
                                          ![call[d].form].by = call[d].by]
            /\ Stand(d, "done")
    /\ UNCHANGED <<rowVars, step, form, document, call>>

-----------------------------------------------------------------------------
(* RequestService.updateStatus *)

UpdateRead(d, f, u, status) ==
    /\ stand[d] = "idle"
    /\ u \in users
    /\ document[f] \in RequestStatus
    /\ call' = [call EXCEPT ![d] = [form |-> f, user |-> u, to |-> status, by |-> Nobody]]
    /\ Stand(d, "authorise")
    /\ UNCHANGED <<rowVars, formVars>>

\* assertAuthorizedForChurch.
UpdateAuthorise(d) ==
    /\ stand[d] = "authorise"
    /\ Stand(d, IF \/ call[d].user \in Admins
                   \/ ActiveIn(call[d].user, form[call[d].form].church)
                THEN "update" ELSE "refused")
    /\ UNCHANGED <<rowVars, formVars, call>>

\* No transition is excluded; a row deleted meanwhile is not matched.
UpdateWrite(d) ==
    /\ stand[d] = "update"
    /\ document' = IF document[call[d].form] = "none" THEN document
                   ELSE [document EXCEPT ![call[d].form] = call[d].to]
    /\ Stand(d, "done")
    /\ UNCHANGED <<rowVars, step, form, payment, call>>

-----------------------------------------------------------------------------
(* The rows all this refers to come and go *)

\* ClergyMemberService.create and update, or the day changes: a row starts, ends.
ClergySet(u, c, state) ==
    /\ u \in users /\ c \in churches
    /\ clergy[<<u, c>>] # state
    /\ clergy' = [clergy EXCEPT ![<<u, c>>] = state]
    /\ UNCHANGED <<churches, users, methods, free, formVars, callVars>>

\* Rows of affectations gone: confirmed_by_id is set to NULL.
Forgotten(gone) ==
    [f \in Forms |-> IF Paid(f) /\ payment[f].by \in gone
                     THEN [payment[f] EXCEPT !.by = Nobody] ELSE payment[f]]

WithoutAffectations(gone) == [a \in Affectations |-> IF a \in gone THEN "none" ELSE clergy[a]]

ClergyDelete(u, c) ==
    /\ clergy[<<u, c>>] # "none"
    /\ clergy' = WithoutAffectations({<<u, c>>})
    /\ payment' = Forgotten({<<u, c>>})
    /\ UNCHANGED <<churches, users, methods, free, step, form, document, callVars>>

\* Tariffs are created, changed, deactivated, deleted.
TariffChange(c) ==
    /\ c \in churches
    /\ free' = (free \ {c}) \cup ({c} \ free)
    /\ UNCHANGED <<churches, users, methods, clergy, formVars, callVars>>

Used(m) == \E f \in Forms : Paid(f) /\ payment[f].method = m

\* RESTRICT: a method with payments cannot be deleted.
MethodDelete(m) ==
    /\ m \in methods
    /\ ~Used(m)
    /\ methods' = methods \ {m}
    /\ UNCHANGED <<churches, users, clergy, free, formVars, callVars>>

\* Documents of the forms in gone are deleted by CASCADE; their payments stay.
WithoutDocuments(gone) == [f \in Forms |-> IF f \in gone THEN "none" ELSE document[f]]
FormsWhere(field, value) == {f \in Forms : form[f] # Nobody /\ form[f][field] = value}

\* CASCADE to methods, affectations and documents, unless a method has payments.
ChurchDelete(c) ==
    LET its == {m \in methods : MethodChurch[m] = c}
    IN  /\ c \in churches
        /\ \A m \in its : ~Used(m)
        /\ churches' = churches \ {c}
        /\ methods' = methods \ its
        /\ clergy' = WithoutAffectations(Users \X {c})
        /\ payment' = Forgotten(Users \X {c})
        /\ document' = WithoutDocuments(FormsWhere("church", c))
        /\ UNCHANGED <<users, free, step, form, callVars>>

\* UserService.hardDelete: CASCADE to affectations and documents.
UserDelete(u) ==
    /\ u \in users
    /\ users' = users \ {u}
    /\ clergy' = WithoutAffectations({u} \X Churches)
    /\ payment' = Forgotten({u} \X Churches)
    /\ document' = WithoutDocuments(FormsWhere("user", u))
    /\ UNCHANGED <<churches, methods, free, step, form, callVars>>

FormStep(f) ==
    \/ \E u \in Users, c \in Churches, m \in Methods \cup {Nobody} :
          RequestStart(f, u, c, m) \/ DonationStart(f, u, c, m)
    \/ SubmitFind(f) \/ SubmitSave(f) \/ Save(f) \/ SaveFails(f)

CallStep(d) ==
    \/ \E f \in Forms, u \in Users :
          \/ \E verdict \in Verdicts : DecideRead(d, f, u, verdict)
          \/ \E status \in RequestStatus : UpdateRead(d, f, u, status)
    \/ DecideFind(d) \/ DecideForbidden(d) \/ DecideWrite(d)
    \/ UpdateAuthorise(d) \/ UpdateWrite(d)

RowStep ==
    \/ \E u \in Users, c \in Churches :
          \/ \E state \in {"active", "ended"} : ClergySet(u, c, state)
          \/ ClergyDelete(u, c)
    \/ \E c \in Churches : TariffChange(c) \/ ChurchDelete(c)
    \/ \E m \in Methods : MethodDelete(m)
    \/ \E u \in Users : UserDelete(u)

Next ==
    \/ \E f \in Forms : FormStep(f)
    \/ \E d \in Calls : CallStep(d)
    \/ RowStep

Spec == Init /\ [][Next]_vars

-----------------------------------------------------------------------------
(* Properties *)

Decided(f) == Paid(f) /\ payment[f].status \in Verdicts
Deciding(f) == {d \in Calls : stand[d] \in {"find", "decide"} /\ call[d].form = f}

\* The hard rule of confirmOrReject: whoever a payment says has decided on it is
\* an affectation, still there, of the church of its method, whatever happened
\* meanwhile to the affectations; nobody, before the decision.
DecidedByItsClergy ==
    \A f \in Forms : Paid(f) =>
        /\ payment[f].by # Nobody =>
              /\ Decided(f)
              /\ payment[f].by[2] = MethodChurch[payment[f].method]
              /\ clergy[payment[f].by] # "none"

\* A request or donation on record is paid to the church it is addressed to, or
\* is a request found free of charge: create() never saves it before its payment.
OfferingOfItsChurch ==
    \A f \in Forms : document[f] # "none" =>
        \/ Paid(f) /\ MethodChurch[payment[f].method] = form[f].church
        \/ form[f].kind = "request" /\ form[f].free

\* Every payment can be decided on: its method, which tells its church, and that
\* church outlive it, whatever is deleted while it is being submitted.
PaymentsKeepTheirChurch ==
    \A f \in Forms : Paid(f) =>
        payment[f].method \in methods /\ MethodChurch[payment[f].method] \in churches

\* confirmOrReject implements the abstract Decision: only calls that read the
\* payment undecided ever write a verdict on it, each at most once, and nothing
\* else (deletions, SET NULL, updateStatus) opens, changes or withdraws one.
D == INSTANCE Decision WITH
        Payments <- Forms,
        Callers <- Calls,
        verdict <- [f \in Forms |-> IF Paid(f) THEN payment[f].status ELSE "none"],
        open <- [f \in Forms |-> Deciding(f)]
ImplementsDecision == D!Spec
=============================================================================
