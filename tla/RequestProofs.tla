---------------------------- MODULE RequestProofs ----------------------------
(***************************************************************************)
(* Theorems about Offering, for every set of forms, calls, users, churches *)
(* and methods, and about Liturgy, for every hierarchy of churches,        *)
(* calendar, and set of bodies and of edits. There are no transactions:    *)
(* FormShape and CallShape say what stays true of what a call has read,    *)
(* EditsSound does so of the updates of schedules and tariffs, and         *)
(* RequestsSound of a request, down to the hops that its climb of the      *)
(* hierarchy has left.                                                     *)
(***************************************************************************)
EXTENDS Offering, Liturgy, WellFoundedInduction, TLAPS

ItsChurch(f) == MethodChurch[payment[f].method]

\* What a form has obtained by the time it stands at a step of create().
FormShape ==
    \A f \in Forms :
        /\ step[f] # "idle" => form[f] \in Form
        /\ step[f] \in {"idle", "submit", "pay"} => ~Paid(f) /\ document[f] = "none"
        /\ step[f] \in {"submit", "pay"} => form[f].method \in Methods
        /\ step[f] = "pay" => MethodChurch[form[f].method] = form[f].church
        /\ step[f] = "save" =>
              \/ Paid(f) /\ ItsChurch(f) = form[f].church
              \/ form[f].kind = "request" /\ form[f].free
        /\ document[f] # "none" => step[f] # "idle"

\* What a call holds: a verdict on a payment that exists and keeps its method,
\* and, once found, an affectation in the church of that method.
CallShape ==
    \A d \in Calls :
        /\ stand[d] # "idle" => call[d] \in Call
        /\ stand[d] \in {"find", "decide"} => Paid(call[d].form) /\ call[d].to \in Verdicts
        /\ stand[d] = "decide" =>
              /\ call[d].by \in Affectations
              /\ call[d].by[2] = ItsChurch(call[d].form)

\* A method does not outlive its church.
MethodsHaveChurches == \A m \in methods : MethodChurch[m] \in churches

IInv == /\ TypeOK /\ FormShape /\ CallShape /\ MethodsHaveChurches
        /\ DecidedByItsClergy /\ OfferingOfItsChurch /\ PaymentsKeepTheirChurch

USE OfferingAssumption, NobodyAssumption

LEMMA InitIInv == Init => IInv
BY DEF Init, IInv, TypeOK, FormShape, CallShape, MethodsHaveChurches, DecidedByItsClergy,
       OfferingOfItsChurch, PaymentsKeepTheirChurch, Paid, Affectations

-----------------------------------------------------------------------------
(* A form moves on *)

\* A step of one form that leaves the other forms, the calls and the rows alone.
FormMoves(f) ==
    /\ UNCHANGED <<rowVars, callVars>>
    /\ \A g \in Forms \ {f} : /\ step'[g] = step[g] /\ form'[g] = form[g]
                              /\ payment'[g] = payment[g] /\ document'[g] = document[g]

\* It is enough to look at the form that moves.
LEMMA FormMovesKeep ==
    ASSUME IInv, NEW f \in Forms, FormMoves(f), TypeOK', ~Paid(f) \/ payment'[f] = payment[f],
           /\ step'[f] # "idle" => form'[f] \in Form
           /\ step'[f] \in {"idle", "submit", "pay"} => ~Paid(f)' /\ document'[f] = "none"
           /\ step'[f] \in {"submit", "pay"} => form'[f].method \in Methods
           /\ step'[f] = "pay" => MethodChurch[form'[f].method] = form'[f].church
           /\ step'[f] = "save" =>
                 \/ Paid(f)' /\ MethodChurch[payment'[f].method] = form'[f].church
                 \/ form'[f].kind = "request" /\ form'[f].free
           /\ document'[f] # "none" =>
                 /\ step'[f] # "idle"
                 /\ \/ Paid(f)' /\ MethodChurch[payment'[f].method] = form'[f].church
                    \/ form'[f].kind = "request" /\ form'[f].free,
           Paid(f)' /\ ~Paid(f) => payment'[f].by = Nobody /\ payment'[f].method \in methods
    PROVE  IInv'
<1> USE DEF IInv, Paid
<1>1. FormShape'
  BY DEF FormShape, FormMoves, ItsChurch
<1>2. CallShape'
  <2>1. ASSUME NEW d \in Calls, stand[d] \in {"find", "decide"}
        PROVE  call[d].form \in Forms /\ payment'[call[d].form] = payment[call[d].form]
    BY <2>1 DEF CallShape, Call, FormMoves
  <2> QED BY <2>1 DEF CallShape, FormMoves, callVars, ItsChurch
<1>3. MethodsHaveChurches'
  BY DEF MethodsHaveChurches, FormMoves, rowVars
<1>4. DecidedByItsClergy'
  BY DEF DecidedByItsClergy, Decided, FormMoves, rowVars
<1>5. OfferingOfItsChurch'
  BY DEF OfferingOfItsChurch, FormMoves
<1>6. PaymentsKeepTheirChurch'
  BY DEF PaymentsKeepTheirChurch, MethodsHaveChurches, FormMoves, rowVars
<1> QED BY <1>1, <1>2, <1>3, <1>4, <1>5, <1>6

LEMMA FormStepKeeps == ASSUME IInv, NEW f \in Forms, FormStep(f) PROVE IInv'
<1> USE DEF Goto, Paid
<1>1. TypeOK /\ FormShape /\ OfferingOfItsChurch BY DEF IInv
<1>2. ASSUME NEW u \in Users, NEW c \in Churches, NEW m \in Methods \cup {Nobody},
             RequestStart(f, u, c, m) \/ DonationStart(f, u, c, m)
      PROVE  IInv'
  <2>1. PICK k \in Kinds, b \in BOOLEAN :
          /\ form' = [form EXCEPT ![f] = [kind |-> k, user |-> u, church |-> c, method |-> m,
                                          free |-> b]]
          /\ \/ step' = [step EXCEPT ![f] = "save"] /\ k = "request" /\ b
             \/ step' = [step EXCEPT ![f] = "refused"]
             \/ step' = [step EXCEPT ![f] = "submit"] /\ m \in Methods
    <3>1. CASE DonationStart(f, u, c, m)
      BY <3>1 DEF DonationStart, Kinds
    <3>2. CASE RequestStart(f, u, c, m)
      <4>1. "request" \in Kinds /\ (c \in free) \in BOOLEAN BY DEF Kinds
      <4> QED BY <3>2, <4>1 DEF RequestStart
    <3> QED BY <1>2, <3>1, <3>2
  <2>2. step[f] = "idle" /\ UNCHANGED <<rowVars, payment, document, callVars>>
    BY <1>2 DEF RequestStart, DonationStart
  <2>3. [kind |-> k, user |-> u, church |-> c, method |-> m, free |-> b] \in Form
    BY DEF Form
  <2>4. TypeOK'
    BY <1>1, <2>1, <2>2, <2>3 DEF TypeOK, rowVars, callVars
  <2>5. FormMoves(f)
    BY <1>1, <2>1, <2>2 DEF FormMoves, TypeOK
  <2> QED BY <1>1, <2>1, <2>2, <2>3, <2>4, <2>5, FormMovesKeep DEF FormShape, TypeOK
<1>3. CASE SubmitFind(f)
  <2>1. TypeOK' BY <1>1, <1>3 DEF SubmitFind, TypeOK, rowVars, callVars
  <2>2. FormMoves(f) BY <1>1, <1>3 DEF SubmitFind, FormMoves, TypeOK
  <2> QED BY <1>1, <1>3, <2>1, <2>2, FormMovesKeep DEF SubmitFind, FormShape, TypeOK
<1>4. CASE SubmitSave(f)
  <2>1. CASE form[f].method \in methods
    <3> DEFINE row == [status |-> "SUBMITTED", by |-> Nobody, method |-> form[f].method]
    <3>1. row \in Payment /\ row # Nobody
      BY <2>1, <1>1 DEF Payment, PaymentStatus, TypeOK
    <3>2. TypeOK' BY <1>1, <1>4, <2>1, <3>1 DEF SubmitSave, TypeOK, rowVars, callVars
    <3>3. FormMoves(f) BY <1>1, <1>4, <2>1 DEF SubmitSave, FormMoves, TypeOK
    <3>4. /\ step[f] = "pay" /\ step'[f] = "save"
          /\ payment'[f] = row /\ document' = document /\ form' = form
      BY <1>1, <1>4, <2>1 DEF SubmitSave, TypeOK
    <3> QED BY <1>1, <2>1, <3>1, <3>2, <3>3, <3>4, FormMovesKeep DEF FormShape
  <2>2. CASE form[f].method \notin methods
    <3>1. TypeOK' BY <1>1, <1>4, <2>2 DEF SubmitSave, TypeOK, rowVars, callVars
    <3>2. FormMoves(f) BY <1>1, <1>4, <2>2 DEF SubmitSave, FormMoves, TypeOK
    <3> QED BY <1>1, <1>4, <2>2, <3>1, <3>2, FormMovesKeep DEF SubmitSave, FormShape, TypeOK
  <2> QED BY <2>1, <2>2
<1>5. CASE Save(f)
  <2>1. TypeOK' BY <1>1, <1>5 DEF Save, TypeOK, RequestStatus, rowVars, callVars
  <2>2. FormMoves(f) BY <1>1, <1>5 DEF Save, FormMoves, TypeOK
  <2> QED BY <1>1, <1>5, <2>1, <2>2, FormMovesKeep DEF Save, FormShape, ItsChurch, TypeOK
<1>6. CASE SaveFails(f)
  <2>1. TypeOK' BY <1>1, <1>6 DEF SaveFails, TypeOK, rowVars, callVars
  <2>2. FormMoves(f) BY <1>1, <1>6 DEF SaveFails, FormMoves, TypeOK
  <2> QED BY <1>1, <1>6, <2>1, <2>2, FormMovesKeep
         DEF SaveFails, FormShape, OfferingOfItsChurch, TypeOK
<1> QED BY <1>2, <1>3, <1>4, <1>5, <1>6 DEF FormStep
-----------------------------------------------------------------------------
(* A call moves on *)

\* A call that writes is over; the payments the others hold keep their method.
LEMMA CallEnds ==
    ASSUME TypeOK, CallShape, NEW d \in Calls, stand[d] # "idle",
           stand' = [stand EXCEPT ![d] = "done"], call' = call,
           \A g \in Forms : (Paid(g)' <=> Paid(g)) /\ payment'[g].method = payment[g].method
    PROVE  CallShape'
<1> SUFFICES ASSUME NEW e \in Calls
             PROVE  /\ stand'[e] # "idle" => call[e] \in Call
                    /\ stand'[e] \in {"find", "decide"} =>
                          payment'[call[e].form] # Nobody /\ call[e].to \in Verdicts
                    /\ stand'[e] = "decide" =>
                          /\ call[e].by \in Affectations
                          /\ call[e].by[2] = MethodChurch[payment'[call[e].form].method]
  BY DEF CallShape, ItsChurch, Paid
<1>1. stand[e] # "idle" => call[e] \in Call /\ call[e].form \in Forms
  BY DEF CallShape, Call
<1>2. stand'[e] = IF e = d THEN "done" ELSE stand[e]
  BY DEF TypeOK
<1> QED BY <1>1, <1>2 DEF CallShape, ItsChurch, Paid

LEMMA CallStepKeeps == ASSUME IInv, NEW d \in Calls, CallStep(d) PROVE IInv'
<1> USE DEF Stand, Paid
<1>1. TypeOK /\ CallShape /\ FormShape BY DEF IInv
\* The read of the payment, or of the request: nothing is written.
<1>2. ASSUME NEW f \in Forms, NEW u \in Users, NEW v \in RequestStatus,
             NEW at \in {"find", "authorise"},
             stand' = [stand EXCEPT ![d] = at], UNCHANGED <<rowVars, formVars>>,
             call' = [call EXCEPT ![d] = [form |-> f, user |-> u, to |-> v, by |-> Nobody]],
             at = "find" => Paid(f) /\ v \in Verdicts
      PROVE  IInv'
  <2>1. [form |-> f, user |-> u, to |-> v, by |-> Nobody] \in Call BY DEF Call
  <2>2. TypeOK' BY <1>1, <1>2, <2>1 DEF TypeOK, rowVars, formVars
  <2>3. CallShape' BY <1>1, <1>2, <2>1 DEF CallShape, TypeOK, formVars, ItsChurch
  <2> QED BY <1>2, <2>2, <2>3
         DEF IInv, FormShape, MethodsHaveChurches, DecidedByItsClergy, Decided, OfferingOfItsChurch,
             PaymentsKeepTheirChurch, ItsChurch, rowVars, formVars
<1>3. ASSUME NEW f \in Forms, NEW u \in Users, NEW v \in Verdicts, DecideRead(d, f, u, v)
      PROVE  IInv'
  <2>1. v \in RequestStatus BY DEF Verdicts, RequestStatus
  <2> QED BY <1>2, <1>3, <2>1 DEF DecideRead
<1>4. ASSUME NEW f \in Forms, NEW u \in Users, NEW v \in RequestStatus, UpdateRead(d, f, u, v)
      PROVE  IInv'
  BY <1>2, <1>4 DEF UpdateRead
<1>5. CASE DecideFind(d)
  <2> DEFINE c == ItsChurch(call[d].form)
             aff == <<call[d].user, c>>
  <2>1. stand[d] = "find" /\ call[d] \in Call /\ Paid(call[d].form)
    BY <1>1, <1>5 DEF DecideFind, CallShape
  <2>2. call[d].form \in Forms /\ payment[call[d].form] \in Payment
    BY <1>1, <2>1 DEF Call, TypeOK
  <2>3. c \in Churches BY <2>2 DEF Payment, ItsChurch
  <2>4. aff \in Affectations BY <2>1, <2>3 DEF Affectations, Call
  <2>5. /\ call' = [call EXCEPT ![d] = [@ EXCEPT !.by = aff]]
        /\ stand' = [stand EXCEPT ![d] = "decide"]
        /\ UNCHANGED <<rowVars, formVars>>
    BY <1>5 DEF DecideFind, ItsChurch
  <2>6. [call[d] EXCEPT !.by = aff] \in Call BY <2>1, <2>4 DEF Call
  <2>7. TypeOK' BY <1>1, <2>5, <2>6 DEF TypeOK, rowVars, formVars
  <2>8. /\ call'[d] \in Call /\ call'[d].by = aff /\ call'[d].form = call[d].form
        /\ call'[d].to = call[d].to
    BY <1>1, <2>1, <2>5, <2>6 DEF TypeOK, Call
  <2>9. CallShape'
    <3> SUFFICES ASSUME NEW e \in Calls
                 PROVE  /\ stand'[e] # "idle" => call'[e] \in Call
                        /\ stand'[e] \in {"find", "decide"} =>
                              payment'[call'[e].form] # Nobody /\ call'[e].to \in Verdicts
                        /\ stand'[e] = "decide" =>
                              /\ call'[e].by \in Affectations
                              /\ call'[e].by[2] = MethodChurch[payment'[call'[e].form].method]
      BY DEF CallShape, ItsChurch
    <3>1. payment' = payment BY <2>5 DEF formVars
    <3>2. CASE e = d
      <4>1. call[d].to \in Verdicts BY <1>1, <2>1 DEF CallShape
      <4>2. aff[2] = c OBVIOUS
      <4> QED BY <3>1, <3>2, <2>1, <2>4, <2>8, <4>1, <4>2 DEF ItsChurch
    <3>3. CASE e # d
      <4>1. call'[e] = call[e] /\ stand'[e] = stand[e] BY <1>1, <2>5, <3>3 DEF TypeOK
      <4> QED BY <1>1, <3>1, <4>1 DEF CallShape, ItsChurch
    <3> QED BY <3>2, <3>3
  <2> QED BY <2>5, <2>7, <2>9
         DEF IInv, FormShape, MethodsHaveChurches, DecidedByItsClergy, Decided, OfferingOfItsChurch,
             PaymentsKeepTheirChurch, ItsChurch, rowVars, formVars
\* The call ends, or is authorised: its locals and the rows stay.
<1>6. ASSUME NEW at \in {"refused", "update"}, stand' = [stand EXCEPT ![d] = at],
             stand[d] # "idle", UNCHANGED <<rowVars, formVars, call>>
      PROVE  IInv'
  <2>1. TypeOK' BY <1>1, <1>6 DEF TypeOK, rowVars, formVars
  <2>2. CallShape' BY <1>1, <1>6 DEF CallShape, TypeOK, formVars, ItsChurch
  <2> QED BY <1>6, <2>1, <2>2
         DEF IInv, FormShape, MethodsHaveChurches, DecidedByItsClergy, Decided, OfferingOfItsChurch,
             PaymentsKeepTheirChurch, ItsChurch, rowVars, formVars
<1>7. CASE DecideForbidden(d) BY <1>6, <1>7 DEF DecideForbidden
<1>8. CASE UpdateAuthorise(d) BY <1>6, <1>8 DEF UpdateAuthorise
<1>9. CASE DecideWrite(d)
  <2>1. CASE clergy[call[d].by] = "none"
    BY <1>6, <1>9, <2>1 DEF DecideWrite, formVars
  <2>2. CASE clergy[call[d].by] # "none"
    <3> DEFINE f == call[d].form
    <3>1. /\ stand[d] = "decide" /\ call[d] \in Call /\ f \in Forms /\ payment[f] \in Payment
          /\ call[d].to \in Verdicts /\ call[d].by \in Affectations
          /\ call[d].by[2] = ItsChurch(f)
      BY <1>1, <1>9 DEF DecideWrite, CallShape, Call, TypeOK
    <3>2. /\ payment' = [payment EXCEPT ![f] = [@ EXCEPT !.status = call[d].to,
                                                         !.by = call[d].by]]
          /\ stand' = [stand EXCEPT ![d] = "done"]
          /\ UNCHANGED <<rowVars, step, form, document, call>>
      BY <1>9, <2>2 DEF DecideWrite
    <3>3. \A g \in Forms : g # f => payment'[g] = payment[g]
      BY <1>1, <3>2 DEF TypeOK
    <3>4. /\ payment'[f] = [payment[f] EXCEPT !.status = call[d].to, !.by = call[d].by]
          /\ payment'[f] \in Payment
          /\ payment'[f].method = payment[f].method
          /\ payment'[f].status = call[d].to /\ payment'[f].by = call[d].by
      BY <1>1, <3>1, <3>2 DEF TypeOK, Payment, Verdicts, PaymentStatus
    <3>5. \A g \in Forms : (Paid(g)' <=> Paid(g)) /\ payment'[g].method = payment[g].method
      BY <3>1, <3>3, <3>4
    <3>6. TypeOK'
      <4>1. payment' \in [Forms -> Payment \cup {Nobody}] BY <1>1, <3>2, <3>4 DEF TypeOK
      <4> QED BY <1>1, <3>2, <4>1 DEF TypeOK, rowVars
    <3>7. FormShape' BY <1>1, <3>2, <3>5 DEF FormShape, ItsChurch
    <3>8. CallShape'
      BY <1>1, <3>1, <3>2, <3>5, CallEnds
    <3>9. DecidedByItsClergy'
      BY <2>2, <3>1, <3>2, <3>3, <3>4 DEF DecidedByItsClergy, Decided, IInv, ItsChurch, rowVars
    <3>10. OfferingOfItsChurch' /\ PaymentsKeepTheirChurch' /\ MethodsHaveChurches'
      BY <3>2, <3>5
         DEF IInv, OfferingOfItsChurch, PaymentsKeepTheirChurch, MethodsHaveChurches, rowVars
    <3> QED BY <3>6, <3>7, <3>8, <3>9, <3>10 DEF IInv
  <2> QED BY <2>1, <2>2
<1>10. CASE UpdateWrite(d)
  <2>1. call[d] \in Call /\ call[d].to \in RequestStatus /\ stand[d] = "update"
    BY <1>1, <1>10 DEF UpdateWrite, CallShape, Call
  <2>2. UNCHANGED <<rowVars, step, form, payment, call>> /\ stand' = [stand EXCEPT ![d] = "done"]
    BY <1>10 DEF UpdateWrite
  <2>3. \A g \in Forms : document'[g] # "none" <=> document[g] # "none"
    BY <1>1, <1>10, <2>1 DEF UpdateWrite, TypeOK, RequestStatus
  <2>4. document' \in [Forms -> RequestStatus \cup {"none", "DONATION"}]
    BY <1>1, <1>10, <2>1 DEF UpdateWrite, TypeOK
  <2>5. TypeOK' BY <1>1, <2>2, <2>4 DEF TypeOK, rowVars
  <2>6. CallShape' BY <1>1, <2>1, <2>2, CallEnds
  <2>7. FormShape' BY <1>1, <2>2, <2>3 DEF FormShape, ItsChurch
  <2> QED BY <2>2, <2>3, <2>5, <2>6, <2>7
         DEF IInv, MethodsHaveChurches, DecidedByItsClergy, Decided, OfferingOfItsChurch,
             PaymentsKeepTheirChurch, rowVars
<1> QED BY <1>3, <1>4, <1>5, <1>7, <1>8, <1>9, <1>10 DEF CallStep
-----------------------------------------------------------------------------
(* The rows come and go *)

\* What a deletion, or a change of a row, may do to the forms: documents
\* disappear, payments forget the affectations that are gone.
RowsMove ==
    /\ UNCHANGED <<step, form, callVars>>
    /\ churches' \subseteq churches /\ users' \subseteq users /\ methods' \subseteq methods
    /\ clergy' \in [Affectations -> {"none", "active", "ended"}]
    /\ free' \subseteq Churches
    /\ \A f \in Forms : document'[f] \in {"none", document[f]}
    /\ document' \in [Forms -> RequestStatus \cup {"none", "DONATION"}]
    /\ payment' \in [Forms -> Payment \cup {Nobody}]
    /\ \A f \in Forms : /\ Paid(f)' <=> Paid(f)
                        /\ Paid(f) => /\ payment'[f].method = payment[f].method
                                      /\ payment'[f].status = payment[f].status
                                      /\ \/ payment'[f].by = Nobody
                                         \/ /\ payment'[f].by = payment[f].by
                                            /\ payment[f].by # Nobody =>
                                                  (clergy[payment[f].by] # "none" =>
                                                      clergy'[payment[f].by] # "none")

LEMMA RowsMoveKeep ==
    ASSUME IInv, RowsMove, MethodsHaveChurches',
           \A f \in Forms : Paid(f) => payment[f].method \in methods'
    PROVE  IInv'
<1>1. TypeOK' BY DEF IInv, RowsMove, TypeOK, callVars
<1>2. FormShape' BY DEF IInv, RowsMove, FormShape, ItsChurch
<1>3. CallShape'
  <2>1. \A d \in Calls : stand[d] # "idle" => call[d].form \in Forms
    BY DEF IInv, CallShape, Call
  <2>2. /\ call' = call /\ stand' = stand
        /\ \A f \in Forms : /\ Paid(f)' <=> Paid(f)
                            /\ Paid(f) => payment'[f].method = payment[f].method
    BY DEF RowsMove, callVars
  <2> QED BY <2>1, <2>2 DEF IInv, CallShape, ItsChurch, Paid
<1>4. DecidedByItsClergy'
  BY DEF IInv, RowsMove, DecidedByItsClergy, Decided, Verdicts
<1>5. OfferingOfItsChurch'
  BY DEF IInv, RowsMove, OfferingOfItsChurch
<1>6. PaymentsKeepTheirChurch'
  BY DEF RowsMove, PaymentsKeepTheirChurch, MethodsHaveChurches
<1> QED BY <1>1, <1>2, <1>3, <1>4, <1>5, <1>6 DEF IInv

\* Affectations gone: their payments forget them, and nothing else.
LEMMA ForgottenPayments ==
    ASSUME IInv, NEW gone, payment' = Forgotten(gone), clergy' = WithoutAffectations(gone)
    PROVE  /\ payment' \in [Forms -> Payment \cup {Nobody}]
           /\ clergy' \in [Affectations -> {"none", "active", "ended"}]
           /\ \A f \in Forms : /\ Paid(f)' <=> Paid(f)
                               /\ Paid(f) => /\ payment'[f].method = payment[f].method
                                             /\ payment'[f].status = payment[f].status
                                             /\ \/ payment'[f].by = Nobody
                                                \/ /\ payment'[f].by = payment[f].by
                                                   /\ payment[f].by # Nobody =>
                                                         clergy'[payment[f].by] = clergy[payment[f].by]
<1>1. ASSUME NEW f \in Forms, Paid(f), payment[f].by \in gone
      PROVE  /\ payment'[f] = [payment[f] EXCEPT !.by = Nobody]
             /\ payment'[f] \in Payment /\ payment'[f] # Nobody
  BY <1>1 DEF Forgotten, Paid, IInv, TypeOK, Payment
<1>2. ASSUME NEW f \in Forms, ~(Paid(f) /\ payment[f].by \in gone)
      PROVE  /\ payment'[f] = payment[f]
             /\ Paid(f) /\ payment[f].by # Nobody =>
                   clergy'[payment[f].by] = clergy[payment[f].by]
  <2>1. payment'[f] = payment[f] BY <1>2 DEF Forgotten
  <2>2. Paid(f) /\ payment[f].by # Nobody => payment[f].by \in Affectations \ gone
    BY <1>2 DEF IInv, TypeOK, Payment, Paid
  <2> QED BY <2>1, <2>2 DEF WithoutAffectations
<1>3. payment' = [f \in Forms |-> payment'[f]] BY DEF Forgotten
<1>4. \A f \in Forms : payment'[f] \in Payment \cup {Nobody}
  BY <1>1, <1>2 DEF IInv, TypeOK
<1>5. payment' \in [Forms -> Payment \cup {Nobody}] BY <1>3, <1>4
<1>6. clergy' \in [Affectations -> {"none", "active", "ended"}]
  BY DEF WithoutAffectations, IInv, TypeOK
<1>7. ASSUME NEW f \in Forms
      PROVE  /\ Paid(f)' <=> Paid(f)
             /\ Paid(f) => /\ payment'[f].method = payment[f].method
                           /\ payment'[f].status = payment[f].status
                           /\ \/ payment'[f].by = Nobody
                              \/ /\ payment'[f].by = payment[f].by
                                 /\ payment[f].by # Nobody =>
                                       clergy'[payment[f].by] = clergy[payment[f].by]
  <2>1. CASE Paid(f) /\ payment[f].by \in gone
    <3>1. payment[f] \in Payment BY <2>1 DEF IInv, TypeOK, Paid
    <3> QED BY <1>1, <2>1, <3>1 DEF Paid, Payment
  <2>2. CASE ~(Paid(f) /\ payment[f].by \in gone)
    BY <1>2, <2>2 DEF Paid
  <2> QED BY <2>1, <2>2
<1> QED BY <1>5, <1>6, <1>7

LEMMA RowStepKeeps == ASSUME IInv, RowStep PROVE IInv'
<1>1. TypeOK /\ MethodsHaveChurches /\ PaymentsKeepTheirChurch BY DEF IInv
<1>2. ASSUME NEW u \in Users, NEW c \in Churches, NEW state \in {"active", "ended"},
             ClergySet(u, c, state)
      PROVE  IInv'
  <2>1. clergy' \in [Affectations -> {"none", "active", "ended"}]
    BY <1>1, <1>2 DEF ClergySet, TypeOK, Affectations
  <2>2. \A a \in Affectations : clergy[a] # "none" => clergy'[a] # "none"
    BY <1>1, <1>2 DEF ClergySet, TypeOK, Affectations
  <2>3. UNCHANGED <<churches, users, methods, free, formVars, callVars>>
    BY <1>2 DEF ClergySet
  <2>4. \A f \in Forms : Paid(f) /\ payment[f].by # Nobody => payment[f].by \in Affectations
    BY <1>1 DEF TypeOK, Paid, Payment
  <2>5. RowsMove
    BY <1>1, <2>1, <2>2, <2>3, <2>4 DEF RowsMove, TypeOK, formVars, callVars, Paid
  <2> QED BY <1>1, <2>3, <2>5, RowsMoveKeep DEF MethodsHaveChurches, PaymentsKeepTheirChurch
<1>3. ASSUME NEW u \in Users, NEW c \in Churches, ClergyDelete(u, c) PROVE IInv'
  <2>1. RowsMove
    BY <1>1, <1>3, ForgottenPayments DEF ClergyDelete, RowsMove, TypeOK
  <2> QED BY <1>1, <1>3, <2>1, RowsMoveKeep
         DEF ClergyDelete, MethodsHaveChurches, PaymentsKeepTheirChurch
<1>4. ASSUME NEW c \in Churches, TariffChange(c) PROVE IInv'
  <2>1. RowsMove
    BY <1>1, <1>4 DEF TariffChange, RowsMove, TypeOK, formVars, callVars, Paid
  <2> QED BY <1>1, <1>4, <2>1, RowsMoveKeep
         DEF TariffChange, formVars, MethodsHaveChurches, PaymentsKeepTheirChurch
<1>5. ASSUME NEW m \in Methods, MethodDelete(m) PROVE IInv'
  <2>1. RowsMove
    BY <1>1, <1>5 DEF MethodDelete, RowsMove, TypeOK, formVars, callVars, Paid
  <2> QED BY <1>1, <1>5, <2>1, RowsMoveKeep
         DEF MethodDelete, Used, MethodsHaveChurches, PaymentsKeepTheirChurch
<1>6. ASSUME NEW c \in Churches, ChurchDelete(c) PROVE IInv'
  <2>1. RowsMove
    BY <1>1, <1>6, ForgottenPayments DEF ChurchDelete, WithoutDocuments, RowsMove, TypeOK
  <2>2. MethodsHaveChurches'
    BY <1>1, <1>6 DEF ChurchDelete, MethodsHaveChurches
  <2>3. \A f \in Forms : Paid(f) => payment[f].method \in methods'
    BY <1>1, <1>6 DEF ChurchDelete, Used, PaymentsKeepTheirChurch
  <2> QED BY <2>1, <2>2, <2>3, RowsMoveKeep
<1>7. ASSUME NEW u \in Users, UserDelete(u) PROVE IInv'
  <2>1. RowsMove
    BY <1>1, <1>7, ForgottenPayments DEF UserDelete, WithoutDocuments, RowsMove, TypeOK
  <2> QED BY <1>1, <1>7, <2>1, RowsMoveKeep
         DEF UserDelete, MethodsHaveChurches, PaymentsKeepTheirChurch
<1> QED BY <1>2, <1>3, <1>4, <1>5, <1>6, <1>7 DEF RowStep

LEMMA StepIInv == IInv /\ [Next]_vars => IInv'
<1> SUFFICES ASSUME IInv, [Next]_vars PROVE IInv' OBVIOUS
<1>1. CASE UNCHANGED vars
  BY <1>1 DEF vars, rowVars, formVars, callVars, IInv, TypeOK, FormShape, CallShape, ItsChurch,
              MethodsHaveChurches, DecidedByItsClergy, Decided, OfferingOfItsChurch,
              PaymentsKeepTheirChurch, Paid
<1> QED BY <1>1, FormStepKeeps, CallStepKeeps, RowStepKeeps DEF Next

LEMMA SpecIInv == Spec => []IInv
BY InitIInv, StepIInv, PTL DEF Spec

-----------------------------------------------------------------------------
(* The refinement: which step of Offering is which step of Decision *)

Verdict(f) == IF Paid(f) THEN payment[f].status ELSE "none"

LEMMA Stutters ==
    ASSUME \A f \in Forms : Verdict(f)' = Verdict(f) /\ Deciding(f)' = Deciding(f)
    PROVE  UNCHANGED D!vars
BY DEF D!vars, Verdict

\* A call that goes from one statement to the next without deciding, or outside
\* confirmOrReject altogether, is not seen.
LEMMA CallStaysOpen ==
    ASSUME TypeOK, NEW d \in Calls, UNCHANGED payment, NEW at,
           stand' = [stand EXCEPT ![d] = at],
           \A e \in Calls : e # d => call'[e] = call[e],
           stand[d] \in {"find", "decide"} <=> at \in {"find", "decide"},
           stand[d] \in {"find", "decide"} => call'[d].form = call[d].form
    PROVE  UNCHANGED D!vars
<1>1. \A e \in Calls : e # d => stand'[e] = stand[e] BY DEF TypeOK
<1>2. stand'[d] = at BY DEF TypeOK
<1>3. \A f \in Forms : Deciding(f)' = Deciding(f) BY <1>1, <1>2 DEF Deciding
<1> QED BY <1>3, Stutters DEF Verdict, Paid

\* A call that is over leaves the payment it was deciding on, and no other.
LEMMA CallLeaves ==
    ASSUME TypeOK, NEW d \in Calls, stand[d] \in {"find", "decide"}, call[d] \in Call,
           NEW at \in {"done", "refused"}, stand' = [stand EXCEPT ![d] = at], call' = call
    PROVE  /\ call[d].form \in Forms /\ d \in Deciding(call[d].form)
           /\ [f \in Forms |-> Deciding(f)]' =
                  [[f \in Forms |-> Deciding(f)] EXCEPT ![call[d].form] = @ \ {d}]
<1>1. call[d].form \in Forms BY DEF Call
<1>2. \A e \in Calls : stand'[e] = IF e = d THEN at ELSE stand[e] BY DEF TypeOK
<1>3. \A f \in Forms :
         Deciding(f)' = IF f = call[d].form THEN Deciding(f) \ {d} ELSE Deciding(f)
  BY <1>2 DEF Deciding
<1>4. d \in Deciding(call[d].form) BY DEF Deciding
<1> QED BY <1>1, <1>3, <1>4

LEMMA FormStepRefines == ASSUME IInv, NEW f \in Forms, FormStep(f) PROVE [D!Next]_(D!vars)
<1>1. TypeOK /\ FormShape BY DEF IInv
<1>2. callVars' = callVars
  BY DEF FormStep, RequestStart, DonationStart, SubmitFind, SubmitSave, Save, SaveFails
<1>3. \A g \in Forms : Deciding(g)' = Deciding(g) BY <1>2 DEF Deciding, callVars
<1>4. CASE payment' = payment BY <1>3, <1>4, Stutters DEF Verdict, Paid
<1>5. CASE payment' # payment
  <2>1. SubmitSave(f) /\ form[f].method \in methods
    BY <1>5 DEF FormStep, RequestStart, DonationStart, SubmitFind, SubmitSave, Save, SaveFails
  <2> DEFINE row == [status |-> "SUBMITTED", by |-> Nobody, method |-> form[f].method]
  <2>2. ~Paid(f) BY <1>1, <2>1 DEF SubmitSave, FormShape
  <2>3. row \in Payment BY <1>1, <2>1 DEF Payment, PaymentStatus, TypeOK
  <2>4. \A g \in Forms : payment'[g] = IF g = f THEN row ELSE payment[g]
    BY <1>1, <2>1 DEF SubmitSave, TypeOK
  <2>5. Verdict(f)' = "SUBMITTED" BY <2>3, <2>4 DEF Verdict, Paid
  <2>6. \A g \in Forms : g # f => Verdict(g)' = Verdict(g) BY <2>4 DEF Verdict, Paid
  <2>7. D!Submit(f) BY <1>3, <2>2, <2>5, <2>6 DEF D!Submit, Verdict
  <2> QED BY <2>7 DEF D!Next
<1> QED BY <1>4, <1>5

LEMMA CallStepRefines == ASSUME IInv, NEW d \in Calls, CallStep(d) PROVE [D!Next]_(D!vars)
<1> USE DEF Stand
<1>1. TypeOK /\ CallShape BY DEF IInv
<1>2. ASSUME NEW f \in Forms, NEW u \in Users, NEW v \in Verdicts, DecideRead(d, f, u, v)
      PROVE  D!Join(f, d)
  <2>1. \A e \in Calls : /\ stand'[e] = IF e = d THEN "find" ELSE stand[e]
                         /\ e # d => call'[e] = call[e]
    BY <1>1, <1>2 DEF DecideRead, TypeOK
  <2>2. call'[d].form = f BY <1>1, <1>2 DEF DecideRead, TypeOK
  <2>3. \A g \in Forms : d \notin Deciding(g) BY <1>2 DEF DecideRead, Deciding
  <2>4. \A g \in Forms : Deciding(g)' = IF g = f THEN Deciding(g) \cup {d} ELSE Deciding(g)
    BY <2>1, <2>2, <2>3 DEF Deciding
  <2>5. Verdict(f) = "SUBMITTED" BY <1>2 DEF DecideRead, Verdict
  <2>6. \A g \in Forms : Verdict(g)' = Verdict(g) BY <1>2 DEF DecideRead, formVars, Verdict, Paid
  <2> QED BY <2>3, <2>4, <2>5, <2>6 DEF D!Join, Verdict
<1>3. ASSUME NEW f \in Forms, NEW u \in Users, NEW s \in RequestStatus, UpdateRead(d, f, u, s)
      PROVE  UNCHANGED D!vars
  BY <1>1, <1>3, CallStaysOpen DEF UpdateRead, formVars, TypeOK
<1>4. CASE DecideFind(d)
  <2>1. call[d] \in Call BY <1>1, <1>4 DEF CallShape, DecideFind
  <2>2. /\ \A e \in Calls : e # d => call'[e] = call[e]
        /\ call'[d].form = call[d].form
    BY <1>1, <1>4, <2>1 DEF DecideFind, TypeOK, Call
  <2> QED BY <1>1, <1>4, <2>2, CallStaysOpen DEF DecideFind, formVars
<1>5. CASE UpdateAuthorise(d) \/ UpdateWrite(d)
  BY <1>1, <1>5, CallStaysOpen DEF UpdateAuthorise, UpdateWrite, formVars
<1>6. CASE DecideForbidden(d)
  <2>1. call[d] \in Call BY <1>1, <1>6 DEF CallShape, DecideForbidden
  <2>2. \A g \in Forms : Verdict(g)' = Verdict(g)
    BY <1>6 DEF DecideForbidden, formVars, Verdict, Paid
  <2>3. D!Leave(call[d].form, d)
    BY <1>1, <1>6, <2>1, <2>2, CallLeaves DEF DecideForbidden, D!Leave, Verdict
  <2> QED BY <1>1, <1>6, <2>1, <2>3, CallLeaves DEF DecideForbidden, D!Next
<1>7. CASE DecideWrite(d)
  <2>1. /\ call[d] \in Call /\ Paid(call[d].form) /\ call[d].to \in Verdicts
        /\ call[d].by \in Affectations
    BY <1>1, <1>7 DEF CallShape, DecideWrite
  <2>2. call[d].form \in Forms BY <2>1 DEF Call
  <2>3. CASE payment' = payment /\ stand' = [stand EXCEPT ![d] = "refused"]
    <3>1. D!Leave(call[d].form, d)
      BY <1>1, <1>7, <2>1, <2>3, CallLeaves DEF DecideWrite, D!Leave, Paid
    <3> QED BY <2>2, <3>1 DEF D!Next
  <2>4. CASE /\ payment' = [payment EXCEPT ![call[d].form].status = call[d].to,
                                           ![call[d].form].by = call[d].by]
             /\ stand' = [stand EXCEPT ![d] = "done"]
    <3>0. PICK f \in Forms : f = call[d].form BY <2>2
    <3>1. payment[f] \in Payment BY <1>1, <2>1, <3>0 DEF TypeOK, Paid
    <3>2. payment'[f] = [payment[f] EXCEPT !.status = call[d].to, !.by = call[d].by]
      BY <1>1, <2>4, <3>0 DEF TypeOK
    <3>3. payment'[f] \in Payment /\ payment'[f].status = call[d].to
      BY <2>1, <3>1, <3>2 DEF Payment, PaymentStatus
    <3>4. Verdict(f)' = call[d].to BY <3>3 DEF Verdict, Paid
    <3>5. \A g \in Forms : g # f => payment'[g] = payment[g] BY <1>1, <2>4, <3>0 DEF TypeOK
    <3>6. \A g \in Forms : g # f => Verdict(g)' = Verdict(g) BY <3>5 DEF Verdict, Paid
    <3>7. [g \in Forms |-> Verdict(g)]' = [[g \in Forms |-> Verdict(g)] EXCEPT ![f] = call[d].to]
      BY <3>4, <3>6
    <3>8. /\ d \in Deciding(f)
          /\ [g \in Forms |-> Deciding(g)]' = [[g \in Forms |-> Deciding(g)] EXCEPT ![f] = @ \ {d}]
      BY <1>1, <1>7, <2>1, <2>4, <3>0, CallLeaves DEF DecideWrite
    <3>9. D!Decide(f, d) BY <2>1, <3>7, <3>8 DEF D!Decide, D!Verdicts, Verdicts, Verdict
    <3> QED BY <3>9 DEF D!Next
  <2> QED BY <1>7, <2>3, <2>4 DEF DecideWrite
<1> QED BY <1>2, <1>3, <1>4, <1>5, <1>6, <1>7 DEF CallStep, D!Next

\* Whatever rows come and go, no verdict changes and no call begins or ends.
LEMMA RowStepRefines == ASSUME IInv, RowStep PROVE UNCHANGED D!vars
<1>1. callVars' = callVars
  BY DEF RowStep, ClergySet, ClergyDelete, TariffChange, ChurchDelete, MethodDelete, UserDelete
<1>2. \A f \in Forms : Deciding(f)' = Deciding(f) BY <1>1 DEF Deciding, callVars
<1>3. ASSUME NEW gone, payment' = Forgotten(gone), clergy' = WithoutAffectations(gone)
      PROVE  UNCHANGED D!vars
  BY <1>2, <1>3, ForgottenPayments, Stutters DEF Verdict, Paid
<1>4. CASE payment' = payment BY <1>2, <1>4, Stutters DEF Verdict, Paid
<1> QED BY <1>3, <1>4
       DEF RowStep, ClergySet, ClergyDelete, TariffChange, ChurchDelete, MethodDelete, UserDelete,
           formVars

-----------------------------------------------------------------------------
(* The theorems *)

\* Rows, forms and calls keep their types.
THEOREM OfferingTyped == Spec => []TypeOK
<1>1. IInv => TypeOK BY DEF IInv
<1> QED BY <1>1, SpecIInv, PTL

\* The hard rule: whoever a payment names as having decided on it is of the
\* clergy of the church of its method.
THEOREM ClergyDecides == Spec => []DecidedByItsClergy
<1>1. IInv => DecidedByItsClergy BY DEF IInv
<1> QED BY <1>1, SpecIInv, PTL

\* A request or donation is paid to the church it is addressed to.
THEOREM OfferingsReachTheirChurch == Spec => []OfferingOfItsChurch
<1>1. IInv => OfferingOfItsChurch BY DEF IInv
<1> QED BY <1>1, SpecIInv, PTL

\* The method of a payment and its church outlive it.
THEOREM PaymentsStayDecidable == Spec => []PaymentsKeepTheirChurch
<1>1. IInv => PaymentsKeepTheirChurch BY DEF IInv
<1> QED BY <1>1, SpecIInv, PTL

\* The decision on payments implements Decision: only calls that read a payment
\* undecided write a verdict on it, each at most once, whatever is deleted.
THEOREM DecisionImplemented == Spec => ImplementsDecision
<1>1. Init => D!Init BY DEF Init, D!Init, Paid, Deciding
<1>2. IInv /\ [Next]_vars => [D!Next]_(D!vars)
  <2> SUFFICES ASSUME IInv, [Next]_vars PROVE [D!Next]_(D!vars) OBVIOUS
  <2>1. CASE UNCHANGED vars
    BY <2>1, Stutters DEF vars, formVars, callVars, Verdict, Paid, Deciding
  <2> QED BY <2>1, FormStepRefines, CallStepRefines, RowStepRefines DEF Next
<1> QED BY <1>1, <1>2, SpecIInv, PTL DEF Spec, ImplementsDecision, D!Spec

-----------------------------------------------------------------------------
(* Liturgy: the hierarchy of churches *)

USE LiturgyAssumption, NullIsNone

\* The ranks that the churches have by assumption.
Rank ==
    CHOOSE rank \in [Hierarchy -> 0 .. MaxHops - 1] :
        \A c \in Hierarchy : Parent[c] # Null => rank[Parent[c]] < rank[c]

LEMMA Ranked ==
    /\ \A c \in Hierarchy : Rank[c] \in 0 .. MaxHops - 1
    /\ \A c \in Hierarchy : Parent[c] # Null => Parent[c] \in Hierarchy /\ Rank[Parent[c]] < Rank[c]
BY HierarchyAssumption DEF Rank

LEMMA ChainUp ==
    ASSUME NEW c \in Hierarchy
    PROVE  c \in Chain(c) /\ Chain(c) \subseteq Hierarchy /\ Upward(Chain(c))
BY Ranked DEF Chain, Upward

LEMMA ChainLeast ==
    ASSUME NEW c \in Hierarchy, NEW cs \in SUBSET Hierarchy, c \in cs, Upward(cs)
    PROVE  Chain(c) \subseteq cs
BY DEF Chain

LEMMA ChainStep ==
    ASSUME NEW c \in Hierarchy
    PROVE  /\ Parent[c] = Null => Chain(c) = {c}
           /\ Parent[c] # Null => Chain(c) = {c} \cup Chain(Parent[c])
<1>1. CASE Parent[c] = Null
  <2>1. Upward({c}) /\ {c} \in SUBSET Hierarchy BY <1>1 DEF Upward
  <2> QED BY <1>1, <2>1, ChainUp, ChainLeast
<1>2. CASE Parent[c] # Null
  <2>1. Parent[c] \in Hierarchy BY <1>2, Ranked
  <2> DEFINE cs == {c} \cup Chain(Parent[c])
  <2>2. Parent[c] \in Chain(Parent[c]) /\ Chain(Parent[c]) \subseteq Hierarchy
        /\ Upward(Chain(Parent[c]))
    BY <2>1, ChainUp
  <2>3. Upward(cs) BY <2>2 DEF Upward
  <2>4. Chain(c) \subseteq cs BY <2>2, <2>3, ChainLeast
  <2>5. Parent[c] \in Chain(c) BY <1>2, ChainUp DEF Upward
  <2>6. Chain(Parent[c]) \subseteq Chain(c) BY <2>1, <2>5, ChainUp, ChainLeast
  <2> QED BY <1>2, <2>4, <2>6, ChainUp
<1> QED BY <1>1, <1>2

LEMMA ChainRank ==
    ASSUME NEW c \in Hierarchy, NEW b \in Chain(c), b # c
    PROVE  Rank[b] < Rank[c]
<1> DEFINE cs == {a \in Hierarchy : a = c \/ Rank[a] < Rank[c]}
<1>1. ASSUME NEW a \in cs, Parent[a] # Null PROVE Parent[a] \in cs
  <2>1. Parent[a] \in Hierarchy /\ Rank[Parent[a]] < Rank[a] BY <1>1, Ranked
  <2>2. Rank[a] \in Int /\ Rank[c] \in Int /\ Rank[Parent[a]] \in Int BY <2>1, Ranked
  <2> QED BY <1>1, <2>1, <2>2
<1>2. Upward(cs) BY <1>1 DEF Upward
<1>3. Chain(c) \subseteq cs BY <1>2, ChainLeast
<1> QED BY <1>3

-----------------------------------------------------------------------------
(* Liturgy: the least of some natural numbers *)

LEMMA LeastOf ==
    ASSUME NEW S \in SUBSET Nat, S # {}
    PROVE  Min(S) \in S /\ \A x \in S : Min(S) <= x
<1>1. \E m \in S : \A x \in S : ~(<<x, m>> \in OpToRel(<, Nat))
  BY NatLessThanWellFounded, WFMin
<1>2. \A x, m \in Nat : x < m => <<x, m>> \in OpToRel(<, Nat) BY DEF OpToRel
<1>3. \A x, m \in Nat : m <= x \/ x < m OBVIOUS
<1>4. PICK m \in S : \A x \in S : m <= x BY <1>1, <1>2, <1>3
<1> QED BY <1>4 DEF Min

-----------------------------------------------------------------------------
(* Liturgy: rows and terms *)

\* A row stays one when a patch that fits is written over it.
LEMMA WrittenIsRow ==
    ASSUME NEW columns, NEW row, NEW patch, IsRow(row, columns), Fits(patch, columns)
    PROVE  IsRow(Written(patch, row), columns)
BY DEF IsRow, Fits, Written

LEMMA ScheduleFields ==
    ASSUME NEW row, IsRow(row, ScheduleColumns)
    PROVE  row.time \in Hours /\ row.duration \in Nat
BY DEF IsRow, Fits, ScheduleColumns

LEMMA TariffFields ==
    ASSUME NEW row, IsRow(row, TariffColumns)
    PROVE  row.amount \in Amounts \cup {Null} /\ row.lead \in Leads \cup {Null}
BY DEF IsRow, Fits, TariffColumns

\* The climb of findInHierarchy has hops left for every church above, and has passed
\* each church below at a time when it set nothing.
Climbs(q, had) ==
    /\ q.at # Null => q.at \in Chain(q.church) /\ q.hop + Rank[q.at] <= Rank[q.church]
    /\ \A a \in Chain(q.church) : q.at = Null \/ a \notin Chain(q.at) => Null \in had[a]

\* What a request has obtained at each stage.
Sound(q, st, had) ==
    IF st \in {"idle", "refused"} THEN q = Null
    ELSE /\ q \in Request
         /\ st \in {"masses", "slot"} => q.at = q.church /\ q.hop = 0
         /\ st \in {"lead", "amount"} => Climbs(q, had)
         /\ st \in {"masses", "slot", "lead", "check", "amount"} => q.amount = Null
         /\ st = "check" => /\ q.lead \in Leads \cup DefaultLeads
                            /\ Resolves(q.lead, q.type.lead, q.church, had)
         /\ st = "save" => Resolves(q.amount, Null, q.church, had)
         /\ st \in {"amount", "save", "saved"} /\ q.form # "basic" => GivesNotice(q)

RequestsSound == \A r \in Requests : Sound(request[r], stage[r], seen[r])

\* What the churches set now is part of what has been seen since a search began.
SeenSound ==
    /\ seen \in [Requests -> [Hierarchy -> SUBSET (Leads \cup Amounts \cup {Null})]]
    /\ \A r \in Requests : Seeks(r) # "none" => \A c \in Hierarchy : SetNow(r, c) \in seen[r][c]

\* An update holds what fits the table, for a row that is there; that of a tariff, both
\* terms, one of them given.
EditsSound ==
    \A e \in Edits : edit[e] # Null =>
        /\ edit[e].of \in Schedules =>
              /\ Fits(edit[e].patch, ScheduleColumns)
              /\ IsRow(schedule[edit[e].of], ScheduleColumns)
        /\ edit[e].of \in Hierarchy =>
              /\ Fits(edit[e].patch, TariffColumns)
              /\ {"amount", "lead"} \subseteq DOMAIN edit[e].patch
              /\ edit[e].patch.amount # Null \/ edit[e].patch.lead # Null
              /\ IsRow(tariff[edit[e].of], TariffColumns)

\* The tables are functions of the identifiers.
TablesShape ==
    /\ schedule = [s \in Schedules |-> schedule[s]] /\ tariff = [c \in Hierarchy |-> tariff[c]]
    /\ edit = [e \in Edits |-> edit[e]]

\* The types of all but what the searches have seen.
TablesTyped ==
    /\ now \in Instants
    /\ \A s \in Schedules : schedule[s] # Null => IsRow(schedule[s], ScheduleColumns)
    /\ \A c \in Hierarchy : tariff[c] # Null => IsRow(tariff[c], TariffColumns)
    /\ request \in [Requests -> Request \cup {Null}]
    /\ stage \in [Requests -> {"idle", "masses", "slot", "lead", "check", "amount", "save",
                               "saved", "refused"}]

LiturgyInv ==
    /\ TablesTyped /\ TablesShape /\ TariffsSaySomething /\ EditsSound
    /\ SeenSound /\ RequestsSound

LEMMA InitLiturgy == LiturgyInit => LiturgyInv
<1> SUFFICES ASSUME LiturgyInit PROVE LiturgyInv OBVIOUS
<1>1. now \in Instants
  <2>1. \E t \in Instants : \A u \in Instants : t <= u BY LeastOf
  <2> QED BY <2>1 DEF LiturgyInit
<1>2. TablesTyped BY <1>1 DEF LiturgyInit, TablesTyped
<1>3. TablesShape /\ TariffsSaySomething /\ EditsSound
  BY DEF LiturgyInit, TablesShape, TariffsSaySomething, EditsSound
<1>4. RequestsSound BY DEF LiturgyInit, RequestsSound, Sound
<1>5. SeenSound BY DEF LiturgyInit, SeenSound, Seeks
<1> QED BY <1>2, <1>3, <1>4, <1>5 DEF LiturgyInv

-----------------------------------------------------------------------------
(* Liturgy: schedules and tariffs *)

\* What has been seen goes on with what is set, and holds what was seen before while
\* the same term is searched.
LEMMA SeenGoesOn ==
    ASSUME LiturgyInv, Watch, TablesTyped'
    PROVE  /\ SeenSound'
           /\ \A r \in Requests, c \in Hierarchy :
                 Seeks(r) # "none" /\ Seeks(r)' = Seeks(r) => seen[r][c] \subseteq seen'[r][c]
<1>1. ASSUME NEW r \in Requests, NEW c \in Hierarchy, Seeks(r)' # "none"
      PROVE  SetNow(r, c)' \in Leads \cup Amounts \cup {Null}
  <2>1. tariff'[c] # Null => /\ tariff'[c].amount \in Amounts \cup {Null}
                             /\ tariff'[c].lead \in Leads \cup {Null}
    <3>1. ASSUME NEW row, IsRow(row, TariffColumns)
          PROVE  row.amount \in Amounts \cup {Null} /\ row.lead \in Leads \cup {Null}
      BY <3>1, TariffFields
    <3> QED BY <3>1 DEF TablesTyped
  <2>2. CASE Seeks(r)' = "lead" BY <2>1, <2>2 DEF SetNow, Sets
  <2>3. CASE Seeks(r)' = "amount" BY <2>1, <2>3 DEF SetNow, Sets
  <2> QED BY <1>1, <2>2, <2>3 DEF Seeks
<1>2. \A r \in Requests, c \in Hierarchy :
         seen'[r][c] = IF Seeks(r)' = "none" THEN {}
                       ELSE {SetNow(r, c)'} \cup (IF Seeks(r) = Seeks(r)' THEN seen[r][c] ELSE {})
  BY DEF Watch
<1>3. seen' \in [Requests -> [Hierarchy -> SUBSET (Leads \cup Amounts \cup {Null})]]
  <2>1. ASSUME NEW r \in Requests, NEW c \in Hierarchy
        PROVE  seen'[r][c] \in SUBSET (Leads \cup Amounts \cup {Null})
    <3>1. seen[r][c] \in SUBSET (Leads \cup Amounts \cup {Null}) BY DEF LiturgyInv, SeenSound
    <3>2. CASE Seeks(r)' = "none" BY <1>2, <3>2
    <3>3. CASE Seeks(r)' # "none"
      <4>1. PICK v \in Leads \cup Amounts \cup {Null} : v = SetNow(r, c)' BY <1>1, <3>3
      <4>2. seen'[r][c] = {v} \cup (IF Seeks(r) = Seeks(r)' THEN seen[r][c] ELSE {})
        BY <1>2, <3>3, <4>1
      <4>3. CASE Seeks(r) = Seeks(r)' BY <3>1, <4>2, <4>3
      <4>4. CASE Seeks(r) # Seeks(r)' BY <4>2, <4>4
      <4> QED BY <4>3, <4>4
    <3> QED BY <3>2, <3>3
  <2> QED BY <2>1 DEF Watch
<1> QED BY <1>2, <1>3 DEF SeenSound

LEMMA ResolvesStill ==
    ASSUME NEW value, NEW default, NEW c \in Hierarchy, NEW had, NEW more,
           Resolves(value, default, c, had), \A a \in Hierarchy : had[a] \subseteq more[a]
    PROVE  Resolves(value, default, c, more)
<1>1. Chain(c) \subseteq Hierarchy BY ChainUp
<1> QED BY <1>1 DEF Resolves

LEMMA ClimbsStill ==
    ASSUME NEW q \in Request, NEW had, NEW more, Climbs(q, had),
           \A a \in Hierarchy : had[a] \subseteq more[a]
    PROVE  Climbs(q, more)
<1>1. Chain(q.church) \subseteq Hierarchy BY ChainUp DEF Request
<1> QED BY <1>1 DEF Climbs

\* What is true of a request stays true with more seen.
LEMMA SoundStill ==
    ASSUME NEW q, NEW st, NEW had, NEW more, Sound(q, st, had),
           st \in {"lead", "check", "amount", "save"} => \A a \in Hierarchy : had[a] \subseteq more[a]
    PROVE  Sound(q, st, more)
<1>1. CASE st \in {"idle", "refused"} BY <1>1 DEF Sound
<1>2. CASE st \notin {"idle", "refused"}
  <2>1. q \in Request /\ q.church \in Hierarchy BY <1>2 DEF Sound, Request
  <2>2. st \in {"lead", "amount"} => Climbs(q, more) BY <1>2, <2>1, ClimbsStill DEF Sound
  <2>3. st = "check" => Resolves(q.lead, q.type.lead, q.church, more)
    BY <1>2, <2>1, ResolvesStill DEF Sound
  <2>4. st = "save" => Resolves(q.amount, Null, q.church, more)
    BY <1>2, <2>1, ResolvesStill DEF Sound
  <2> QED BY <1>2, <2>2, <2>3, <2>4 DEF Sound
<1> QED BY <1>1, <1>2

\* A request that stands where it stood.
LEMMA StandsStill ==
    ASSUME LiturgyInv, Watch, TablesTyped', NEW r \in Requests, NEW q, stage'[r] = stage[r],
           Sound(q, stage[r], seen[r])
    PROVE  Sound(q, stage'[r], seen'[r])
<1>1. Seeks(r)' = Seeks(r) BY DEF Seeks
<1>2. stage[r] \in {"lead", "check", "amount", "save"} => Seeks(r) # "none" BY DEF Seeks
<1>3. stage[r] \in {"lead", "check", "amount", "save"} =>
         \A a \in Hierarchy : seen[r][a] \subseteq seen'[r][a]
  BY <1>1, <1>2, SeenGoesOn
<1> QED BY <1>3, SoundStill

LEMMA RequestsStay ==
    ASSUME LiturgyInv, Watch, TablesTyped', UNCHANGED <<request, stage>>
    PROVE  SeenSound' /\ RequestsSound'
<1>1. \A r \in Requests : Sound(request[r], stage[r], seen[r]) BY DEF LiturgyInv, RequestsSound
<1>2. \A r \in Requests : Sound(request'[r], stage'[r], seen'[r]) BY <1>1, StandsStill
<1>3. RequestsSound' BY <1>2 DEF RequestsSound, Sound, Climbs, Resolves, GivesNotice
<1> QED BY <1>3, SeenGoesOn

LEMMA ScheduleCreateKeeps ==
    ASSUME LiturgyInv, Watch, NEW s \in Schedules, NEW row \in Rows, ScheduleCreate(s, row)
    PROVE  LiturgyInv'
<1>1. IsRow(row, ScheduleColumns) BY BodiesAssumption
<1>2. /\ schedule' = [schedule EXCEPT ![s] = row]
      /\ UNCHANGED <<now, tariff, edit, request, stage>>
  BY DEF ScheduleCreate
<1>3. \A t \in Schedules : schedule'[t] = IF t = s THEN row ELSE schedule[t]
  BY <1>2 DEF LiturgyInv, TablesShape
<1>4. TablesTyped' BY <1>1, <1>2, <1>3 DEF LiturgyInv, TablesTyped
<1>5. TablesShape' BY <1>2 DEF LiturgyInv, TablesShape
<1>6. TariffsSaySomething' BY <1>2 DEF LiturgyInv, TariffsSaySomething
<1>7. EditsSound' BY <1>1, <1>2, <1>3 DEF LiturgyInv, EditsSound
<1>8. SeenSound' /\ RequestsSound' BY <1>2, <1>4, RequestsStay
<1> QED BY <1>4, <1>5, <1>6, <1>7, <1>8 DEF LiturgyInv

\* An update has read a row: what it holds of it is true.
LEMMA EditBegins ==
    ASSUME LiturgyInv, Watch, NEW e \in Edits, NEW of, NEW patch,
           edit' = [edit EXCEPT ![e] = [of |-> of, patch |-> patch]],
           UNCHANGED <<now, schedule, tariff, request, stage>>,
           of \in Schedules => /\ Fits(patch, ScheduleColumns)
                               /\ IsRow(schedule[of], ScheduleColumns),
           of \in Hierarchy => /\ Fits(patch, TariffColumns)
                               /\ {"amount", "lead"} \subseteq DOMAIN patch
                               /\ patch.amount # Null \/ patch.lead # Null
                               /\ IsRow(tariff[of], TariffColumns)
    PROVE  LiturgyInv'
<1> DEFINE new == [of |-> of, patch |-> patch]
<1>1. new.of = of /\ new.patch = patch OBVIOUS
<1> HIDE DEF new
<1>2. \A d \in Edits : edit'[d] = IF d = e THEN new ELSE edit[d]
  BY DEF LiturgyInv, TablesShape, new
<1>3. EditsSound' BY <1>1, <1>2 DEF LiturgyInv, EditsSound
<1>4. TablesTyped' /\ TariffsSaySomething'
  BY DEF LiturgyInv, TablesTyped, TariffsSaySomething
<1>5. TablesShape' BY DEF LiturgyInv, TablesShape
<1> QED BY <1>3, <1>4, <1>5, RequestsStay DEF LiturgyInv

LEMMA ScheduleEditKeeps ==
    ASSUME LiturgyInv, Watch, NEW e \in Edits, NEW s \in Schedules, NEW patch \in RowPatches,
           ScheduleEdit(e, s, patch)
    PROVE  LiturgyInv'
<1>1. IsRow(schedule[s], ScheduleColumns) BY DEF ScheduleEdit, LiturgyInv, TablesTyped
<1>2. Fits(patch, ScheduleColumns) BY BodiesAssumption
<1>3. s \notin Hierarchy OBVIOUS
<1> QED BY <1>1, <1>2, <1>3, EditBegins DEF ScheduleEdit

LEMMA TariffEditKeeps ==
    ASSUME LiturgyInv, Watch, NEW e \in Edits, NEW c \in Hierarchy, NEW body \in TariffBodies[c],
           TariffEdit(e, c, body)
    PROVE  LiturgyInv'
<1>1. IsRow(tariff[c], TariffColumns) BY DEF TariffEdit, LiturgyInv, TablesTyped
<1>2. Fits(body, TariffColumns) BY BodiesAssumption
<1> DEFINE patch == [f \in DOMAIN body \cup {"amount", "lead"} |->
                        IF f \in DOMAIN body THEN body[f] ELSE tariff[c][f]]
<1>3. /\ edit' = [edit EXCEPT ![e] = [of |-> c, patch |-> patch]]
      /\ patch.amount # Null \/ patch.lead # Null
      /\ UNCHANGED <<now, schedule, tariff, request, stage>>
  BY DEF TariffEdit
<1>4. {"amount", "lead"} \subseteq DOMAIN patch OBVIOUS
<1>5. Fits(patch, TariffColumns)
  <2> SUFFICES ASSUME NEW f \in DOMAIN patch
               PROVE  f \in DOMAIN TariffColumns /\ patch[f] \in TariffColumns[f]
    BY DEF Fits
  <2>1. CASE f \in DOMAIN body BY <1>2, <2>1 DEF Fits
  <2>2. CASE f \notin DOMAIN body
    <3>1. f \in {"amount", "lead"} BY <2>2
    <3>2. f \in DOMAIN TariffColumns BY <3>1 DEF TariffColumns
    <3> QED BY <1>1, <2>2, <3>2 DEF IsRow, Fits
  <2> QED BY <2>1, <2>2
<1>6. c \notin Schedules OBVIOUS
<1> HIDE DEF patch
<1> QED BY <1>1, <1>3, <1>4, <1>5, <1>6, EditBegins

LEMMA ScheduleWriteKeeps ==
    ASSUME LiturgyInv, Watch, NEW e \in Edits, ScheduleWrite(e)
    PROVE  LiturgyInv'
<1>1. PICK s \in Schedules : s = edit[e].of BY DEF ScheduleWrite
<1>2. IsRow(schedule[s], ScheduleColumns) /\ Fits(edit[e].patch, ScheduleColumns)
  BY <1>1 DEF ScheduleWrite, LiturgyInv, EditsSound
<1>3. PICK row : row = Written(edit[e].patch, schedule[s]) OBVIOUS
<1>4. IsRow(row, ScheduleColumns) BY <1>2, <1>3, WrittenIsRow
<1>5. /\ schedule' = [schedule EXCEPT ![s] = row] /\ edit' = [edit EXCEPT ![e] = Null]
      /\ UNCHANGED <<now, tariff, request, stage>>
  BY <1>1, <1>3 DEF ScheduleWrite
<1>6. /\ \A t \in Schedules : schedule'[t] = IF t = s THEN row ELSE schedule[t]
      /\ \A d \in Edits : edit'[d] # Null => edit'[d] = edit[d]
  BY <1>5 DEF LiturgyInv, TablesShape
<1>7. TablesTyped' BY <1>4, <1>5, <1>6 DEF LiturgyInv, TablesTyped
<1>8. TablesShape' BY <1>5 DEF LiturgyInv, TablesShape
<1>9. TariffsSaySomething' BY <1>5 DEF LiturgyInv, TariffsSaySomething
<1>10. EditsSound' BY <1>4, <1>5, <1>6 DEF LiturgyInv, EditsSound
<1> QED BY <1>5, <1>7, <1>8, <1>9, <1>10, RequestsStay DEF LiturgyInv

LEMMA ScheduleDeleteKeeps ==
    ASSUME LiturgyInv, Watch, NEW s \in Schedules, ScheduleDelete(s)
    PROVE  LiturgyInv'
<1>1. /\ schedule' = [schedule EXCEPT ![s] = Null] /\ UNCHANGED <<now, tariff, stage>>
      /\ edit' = [e \in Edits |-> IF edit[e] # Null /\ edit[e].of = s THEN Null ELSE edit[e]]
  BY DEF ScheduleDelete
<1>2. \A t \in Schedules : schedule'[t] = IF t = s THEN Null ELSE schedule[t]
  BY <1>1 DEF LiturgyInv, TablesShape
<1>3. \A e \in Edits : edit'[e] # Null => edit'[e] = edit[e] /\ edit[e].of # s BY <1>1
<1>4. EditsSound' BY <1>1, <1>2, <1>3 DEF LiturgyInv, EditsSound
<1>5. TablesShape' BY <1>1 DEF LiturgyInv, TablesShape
<1>6. TariffsSaySomething' BY <1>1 DEF LiturgyInv, TariffsSaySomething
<1>7. ASSUME NEW r \in Requests, NEW q, q = request'[r]
      PROVE  q \in Request \cup {Null} /\ Sound(q, stage[r], seen[r])
  <2> DEFINE old == request[r]
             new == [old EXCEPT !.schedule = Null]
  <2>1. Sound(old, stage[r], seen[r]) /\ old \in Request \cup {Null}
    BY DEF LiturgyInv, TablesTyped, RequestsSound
  <2>2. (q = new /\ stage[r] = "saved") \/ q = old BY <1>7 DEF ScheduleDelete
  <2>3. CASE q = new /\ stage[r] = "saved"
    <3>1. old \in Request BY <2>1, <2>3 DEF Sound
    <3>2. /\ new \in Request /\ new.date = old.date /\ new.time = old.time /\ new.form = old.form
          /\ new.checked = old.checked /\ new.lead = old.lead
      BY <3>1 DEF Request
    <3> HIDE DEF new, old
    <3>3. Sound(new, stage[r], seen[r]) BY <2>1, <2>3, <3>2 DEF Sound, GivesNotice
    <3> QED BY <2>3, <3>2, <3>3
  <2> QED BY <2>1, <2>2, <2>3
<1>8. request' \in [Requests -> Request \cup {Null}] BY <1>7 DEF ScheduleDelete
<1>9. TablesTyped' BY <1>1, <1>2, <1>8 DEF LiturgyInv, TablesTyped
<1>10. RequestsSound'
  <2>1. ASSUME NEW r \in Requests PROVE Sound(request'[r], stage'[r], seen'[r])
    BY <1>1, <1>7, <1>9, StandsStill
  <2> QED BY <2>1 DEF RequestsSound, Sound, Climbs, Resolves, GivesNotice
<1>11. SeenSound' BY <1>9, SeenGoesOn
<1> QED BY <1>4, <1>5, <1>6, <1>9, <1>10, <1>11 DEF LiturgyInv

\* A row of tariffs changes, and the updates that have read it go on or find none.
LEMMA TariffChanges ==
    ASSUME LiturgyInv, Watch, NEW c \in Hierarchy, NEW row, tariff' = [tariff EXCEPT ![c] = row],
           row # Null => /\ IsRow(row, TariffColumns)
                         /\ row.amount # Null \/ row.lead # Null,
           \A e \in Edits : edit'[e] # Null =>
               edit'[e] = edit[e] /\ (edit[e].of = c => IsRow(row, TariffColumns)),
           edit' = [e \in Edits |-> edit'[e]],
           UNCHANGED <<now, schedule, request, stage>>
    PROVE  LiturgyInv'
<1>1. \A b \in Hierarchy : tariff'[b] = IF b = c THEN row ELSE tariff[b]
  BY DEF LiturgyInv, TablesShape
<1>2. TablesTyped' BY <1>1 DEF LiturgyInv, TablesTyped
<1>3. SeenSound' /\ RequestsSound' BY <1>2, RequestsStay
<1>4. TablesShape' BY DEF LiturgyInv, TablesShape
<1>5. TariffsSaySomething' BY <1>1 DEF LiturgyInv, TariffsSaySomething
<1>6. EditsSound' BY <1>1 DEF LiturgyInv, EditsSound
<1> QED BY <1>2, <1>3, <1>4, <1>5, <1>6 DEF LiturgyInv

LEMMA TariffCreateKeeps ==
    ASSUME LiturgyInv, Watch, NEW c \in Hierarchy, NEW row \in TariffRows[c],
           TariffCreate(c, row)
    PROVE  LiturgyInv'
<1>1. IsRow(row, TariffColumns) /\ (row.amount # Null \/ row.lead # Null)
  BY BodiesAssumption DEF TariffCreate
<1>2. edit' = edit /\ edit = [e \in Edits |-> edit[e]]
  BY DEF TariffCreate, LiturgyInv, TablesShape
<1> QED BY <1>1, <1>2, TariffChanges DEF TariffCreate

LEMMA TariffDeleteKeeps ==
    ASSUME LiturgyInv, Watch, NEW c \in Hierarchy, TariffDelete(c)
    PROVE  LiturgyInv'
<1>1. edit' = [e \in Edits |-> IF edit[e] # Null /\ edit[e].of = c THEN Null ELSE edit[e]]
  BY DEF TariffDelete
<1>2. \A e \in Edits : edit'[e] # Null => edit'[e] = edit[e] /\ edit[e].of # c BY <1>1
<1>3. edit' = [e \in Edits |-> edit'[e]] BY <1>1
<1>4. /\ tariff' = [tariff EXCEPT ![c] = Null] /\ UNCHANGED <<now, schedule, request, stage>>
  BY DEF TariffDelete
<1>5. PICK row : row = Null OBVIOUS
<1> QED BY <1>2, <1>3, <1>4, <1>5, TariffChanges

LEMMA TariffWriteKeeps ==
    ASSUME LiturgyInv, Watch, NEW e \in Edits, TariffWrite(e)
    PROVE  LiturgyInv'
<1>1. PICK c \in Hierarchy : c = edit[e].of BY DEF TariffWrite
<1>2. PICK patch : patch = edit[e].patch OBVIOUS
<1>3. /\ IsRow(tariff[c], TariffColumns) /\ Fits(patch, TariffColumns)
      /\ {"amount", "lead"} \subseteq DOMAIN patch
      /\ patch.amount # Null \/ patch.lead # Null
  BY <1>1, <1>2 DEF TariffWrite, LiturgyInv, EditsSound
<1>4. PICK row : row = Written(patch, tariff[c]) OBVIOUS
<1>5. IsRow(row, TariffColumns) BY <1>3, <1>4, WrittenIsRow
<1>6. row.amount = patch.amount /\ row.lead = patch.lead
  BY <1>3, <1>4 DEF Written, IsRow, TariffColumns
<1>7. /\ tariff' = [tariff EXCEPT ![c] = row] /\ edit' = [edit EXCEPT ![e] = Null]
      /\ UNCHANGED <<now, schedule, request, stage>>
  BY <1>1, <1>2, <1>4 DEF TariffWrite
<1>8. edit = [d \in Edits |-> edit[d]] BY DEF LiturgyInv, TablesShape
<1>9. \A d \in Edits : edit'[d] # Null => edit'[d] = edit[d] BY <1>7, <1>8
<1>10. edit' = [d \in Edits |-> edit'[d]] BY <1>7, <1>8
<1> QED BY <1>3, <1>5, <1>6, <1>7, <1>9, <1>10, TariffChanges

LEMMA LiturgyTickKeeps ==
    ASSUME LiturgyInv, Watch, Tick
    PROVE  LiturgyInv'
<1>1. UNCHANGED <<schedule, tariff, edit, request, stage>> /\ now' \in Instants BY DEF Tick
<1>2. TablesTyped' BY <1>1 DEF LiturgyInv, TablesTyped
<1>3. TablesShape' /\ TariffsSaySomething' /\ EditsSound'
  BY <1>1 DEF LiturgyInv, TablesShape, TariffsSaySomething, EditsSound
<1> QED BY <1>1, <1>2, <1>3, RequestsStay DEF LiturgyInv

-----------------------------------------------------------------------------
(* Liturgy: a request goes on *)

Stages == {"idle", "masses", "slot", "lead", "check", "amount", "save", "saved", "refused"}

\* It is enough to look at the request that goes on.
LEMMA RequestGoesOn ==
    ASSUME LiturgyInv, Watch, NEW r \in Requests, NEW q, NEW st \in Stages, Sound(q, st, seen'[r]),
           request' = [request EXCEPT ![r] = q], stage' = [stage EXCEPT ![r] = st],
           UNCHANGED <<now, schedule, tariff, edit>>
    PROVE  LiturgyInv'
<1>1. q \in Request \cup {Null} BY DEF Sound
<1>2. \A p \in Requests : /\ request'[p] = IF p = r THEN q ELSE request[p]
                          /\ stage'[p] = IF p = r THEN st ELSE stage[p]
  BY DEF LiturgyInv, TablesTyped
<1>3. TablesTyped' BY <1>1 DEF LiturgyInv, TablesTyped, Stages
<1>4. ASSUME NEW p \in Requests PROVE Sound(request'[p], stage'[p], seen'[p])
  <2>1. CASE p = r BY <1>2, <2>1
  <2>2. CASE p # r
    <3>1. Sound(request[p], stage[p], seen[p]) BY DEF LiturgyInv, RequestsSound
    <3>2. request'[p] = request[p] /\ stage'[p] = stage[p] BY <1>2, <2>2
    <3> QED BY <1>3, <3>1, <3>2, StandsStill
  <2> QED BY <2>1, <2>2
<1>5. RequestsSound' BY <1>4 DEF RequestsSound, Sound, Climbs, Resolves, GivesNotice
<1>6. TablesShape' /\ TariffsSaySomething' /\ EditsSound'
  BY DEF LiturgyInv, TablesShape, TariffsSaySomething, EditsSound
<1> QED BY <1>3, <1>5, <1>6, SeenGoesOn DEF LiturgyInv

\* What is known of a request that stands somewhere.
LEMMA Standing ==
    ASSUME LiturgyInv, NEW r \in Requests, stage[r] \notin {"idle", "refused"}
    PROVE  request[r] \in Request /\ Sound(request[r], stage[r], seen[r])
BY DEF LiturgyInv, RequestsSound, Sound

LEMMA RefuseKeeps ==
    ASSUME LiturgyInv, Watch, NEW r \in Requests, Refuse(r),
           UNCHANGED <<now, schedule, tariff, edit>>
    PROVE  LiturgyInv'
<1>1. Sound(Null, "refused", seen'[r]) /\ "refused" \in Stages BY DEF Sound, Stages
<1> QED BY <1>1, RequestGoesOn DEF Refuse, RequestGoto

\* A request turns to a stage with nothing new.
LEMMA RequestTurns ==
    ASSUME LiturgyInv, Watch, NEW r \in Requests, NEW st \in Stages, Sound(request[r], st, seen'[r]),
           RequestGoto(r, st), UNCHANGED <<now, schedule, tariff, edit, request>>
    PROVE  LiturgyInv'
<1>1. request' = [request EXCEPT ![r] = request[r]] BY DEF LiturgyInv, TablesTyped
<1> QED BY <1>1, RequestGoesOn DEF RequestGoto

LEMMA AskKeeps ==
    ASSUME LiturgyInv, Watch, NEW r \in Requests, NEW type \in Rules, NEW c \in Hierarchy,
           NEW d \in Dates, NEW written \in DateForms, NEW s \in Schedules \cup {Null},
           Ask(r, type, c, d, written, s)
    PROVE  LiturgyInv'
<1> DEFINE q == [church |-> c, date |-> d, form |-> written, schedule |-> s, type |-> type,
                 time |-> Null, at |-> c, hop |-> 0, checked |-> Null, lead |-> Null,
                 amount |-> Null]
           st == IF type.mass THEN "masses" ELSE "slot"
<1>1. request' = [request EXCEPT ![r] = q] /\ stage' = [stage EXCEPT ![r] = st]
      /\ UNCHANGED <<now, schedule, tariff, edit>>
  BY DEF Ask, RequestGoto
<1>2. st \in {"masses", "slot"} OBVIOUS
<1>3. q \in Request BY DEF Request
<1>4. q.church = c /\ q.at = c /\ q.hop = 0 /\ q.amount = Null OBVIOUS
<1> HIDE DEF q, st
<1>5. Sound(q, st, seen'[r]) /\ st \in Stages BY <1>2, <1>3, <1>4 DEF Sound, Stages
<1> QED BY <1>1, <1>5, RequestGoesOn

LEMMA FindMassKeeps ==
    ASSUME LiturgyInv, Watch, NEW r \in Requests, FindMass(r)
    PROVE  LiturgyInv'
<1>1. stage[r] = "masses" /\ UNCHANGED <<now, schedule, tariff, edit>> BY DEF FindMass
<1>2. CASE Refuse(r) BY <1>1, <1>2, RefuseKeeps
<1>3. CASE RequestGoto(r, "slot") /\ UNCHANGED request
  <2>1. Sound(request[r], "masses", seen[r]) BY <1>1, Standing
  <2>2. Sound(request[r], "slot", seen'[r]) /\ "slot" \in Stages BY <2>1 DEF Sound, Stages
  <2> QED BY <1>1, <1>3, <2>2, RequestTurns
<1> QED BY <1>2, <1>3 DEF FindMass

\* Before the first hop, the climb is at the church.
LEMMA ClimbBegins ==
    ASSUME NEW q \in Request, q.at = q.church, q.hop = 0, NEW had
    PROVE  Climbs(q, had)
<1>1. q.church \in Hierarchy BY DEF Request
<1>2. q.at # Null /\ q.at \in Chain(q.church) /\ Rank[q.church] \in Int BY <1>1, ChainUp, Ranked
<1> QED BY <1>2 DEF Climbs

LEMMA FindSlotKeeps ==
    ASSUME LiturgyInv, Watch, NEW r \in Requests, FindSlot(r)
    PROVE  LiturgyInv'
<1>1. stage[r] = "slot" /\ UNCHANGED <<now, schedule, tariff, edit>> BY DEF FindSlot
<1>2. request[r] \in Request /\ Sound(request[r], "slot", seen[r]) BY <1>1, Standing
<1>3. "lead" \in Stages BY DEF Stages
<1>4. CASE Refuse(r) BY <1>1, <1>4, RefuseKeeps
<1>5. CASE RequestGoto(r, "lead") /\ UNCHANGED request
  <2>1. Climbs(request[r], seen'[r]) BY <1>2, ClimbBegins DEF Sound
  <2>2. Sound(request[r], "lead", seen'[r]) BY <1>2, <2>1 DEF Sound
  <2> QED BY <1>1, <1>3, <1>5, <2>2, RequestTurns
<1>6. CASE /\ Celebrates(request[r].schedule, request[r])
           /\ request[r].schedule # Null
           /\ RequestGoto(r, "lead")
           /\ request' = [request EXCEPT ![r].time = schedule[request[r].schedule].time]
  <2>1. request[r].schedule \in Schedules BY <1>2, <1>6 DEF Request
  <2>2. PICK time \in Hours : time = schedule[request[r].schedule].time
    BY <1>6, <2>1, ScheduleFields DEF Celebrates, LiturgyInv, TablesTyped
  <2> DEFINE old == request[r]
             q == [old EXCEPT !.time = time]
  <2>3. /\ q \in Request /\ q.church = old.church /\ q.at = old.at /\ q.hop = old.hop
        /\ q.amount = old.amount
    BY <1>2 DEF Request
  <2>4. request' = [request EXCEPT ![r] = q] BY <1>6, <2>2
  <2>5. Sound(old, "slot", seen[r]) BY <1>2
  <2> HIDE DEF q, old
  <2>6. Climbs(q, seen'[r]) BY <2>3, <2>5, ClimbBegins DEF Sound
  <2>7. Sound(q, "lead", seen'[r]) BY <2>3, <2>5, <2>6 DEF Sound
  <2> QED BY <1>1, <1>3, <1>6, <2>4, <2>7, RequestGoesOn DEF RequestGoto
<1> QED BY <1>4, <1>5, <1>6 DEF FindSlot

\* While the search of a term goes on or ends, with nothing else changed: what was seen
\* is still, and so is what each church sets.
LEMMA SearchSees ==
    ASSUME LiturgyInv, Watch, NEW r \in Requests, NEW st \in Stages,
           stage' = [stage EXCEPT ![r] = st],
           (stage[r] = "lead" /\ st \in {"lead", "check"}) \/ (stage[r] = "amount" /\ st \in {"amount", "save"})
    PROVE  /\ \A c \in Hierarchy : SetNow(r, c) \in seen[r][c]
           /\ \A c \in Hierarchy : seen[r][c] \subseteq seen'[r][c]
<1>1. stage'[r] = st BY DEF LiturgyInv, TablesTyped
<1>2. Seeks(r) # "none" /\ Seeks(r)' = Seeks(r) BY <1>1 DEF Seeks
<1>3. \A c \in Hierarchy : SetNow(r, c) \in seen[r][c] BY <1>2 DEF LiturgyInv, SeenSound
<1>4. \A c \in Hierarchy : seen[r][c] \subseteq seen'[r][c] BY <1>2 DEF Watch
<1> QED BY <1>3, <1>4

\* One hop up: the church left behind sets nothing.
LEMMA GoUpKeeps ==
    ASSUME LiturgyInv, Watch, NEW r \in Requests, GoUp(r),
           UNCHANGED <<now, schedule, tariff, edit, stage>>, stage[r] \in {"lead", "amount"},
           Hop(r, Seeks(r)) = "up"
    PROVE  LiturgyInv'
<1> DEFINE old == request[r]
           q == [[old EXCEPT !.at = Parent[old.at]] EXCEPT !.hop = old.hop + 1]
<1>1. old \in Request /\ Sound(old, stage[r], seen[r]) BY Standing
<1>2. old.at \in Hierarchy /\ old.hop # MaxHops /\ ~Sets(old.at, Seeks(r)) /\ old.church \in Hierarchy
  BY <1>1 DEF Hop, Request
<1>3. /\ Parent[old.at] \in Hierarchy \cup {Null} /\ old.hop + 1 \in 0 .. MaxHops
      /\ old.hop \in Int
  BY <1>1, <1>2, HierarchyAssumption DEF Request
<1>4. /\ q \in Request /\ q.at = Parent[old.at] /\ q.hop = old.hop + 1
      /\ q.church = old.church /\ q.amount = old.amount /\ q.form = old.form
      /\ q.checked = old.checked /\ q.date = old.date /\ q.time = old.time /\ q.lead = old.lead
  BY <1>1, <1>3 DEF Request
<1>5. request' = [request EXCEPT ![r] = q] BY DEF GoUp, LiturgyInv, TablesTyped
<1>6. stage' = [stage EXCEPT ![r] = stage[r]] /\ stage[r] \in Stages
  BY DEF LiturgyInv, TablesTyped, Stages
<1> HIDE DEF q
<1>7. ASSUME q.at # Null PROVE q.at \in Chain(q.church) /\ q.hop + Rank[q.at] <= Rank[q.church]
  <2>1. old.at \in Chain(old.church) /\ old.hop + Rank[old.at] <= Rank[old.church]
    BY <1>1, <1>2 DEF Sound, Climbs
  <2>2. q.at \in Hierarchy /\ Rank[q.at] < Rank[old.at] BY <1>2, <1>4, <1>7, Ranked
  <2>3. Rank[q.at] \in Int /\ Rank[old.at] \in Int /\ Rank[old.church] \in Int
    BY <1>2, <2>2, Ranked
  <2>4. q.at \in Chain(q.church) BY <1>2, <1>4, <1>7, <2>1, ChainUp DEF Upward
  <2> QED BY <1>3, <1>4, <2>1, <2>2, <2>3, <2>4
<1>8. /\ \A c \in Hierarchy : SetNow(r, c) \in seen[r][c]
      /\ \A c \in Hierarchy : seen[r][c] \subseteq seen'[r][c]
  BY <1>6, SearchSees
<1>9. ASSUME NEW a \in Chain(q.church), q.at = Null \/ a \notin Chain(q.at)
      PROVE  Null \in seen'[r][a]
  <2>1. a \in Hierarchy BY <1>2, <1>4, ChainUp
  <2>2. CASE a = old.at BY <1>2, <1>8, <2>1, <2>2 DEF SetNow
  <2>3. CASE a # old.at
    <3>1. a \notin Chain(old.at) BY <1>2, <1>4, <1>9, <2>3, ChainStep
    <3>2. Null \in seen[r][a] BY <1>1, <1>4, <3>1 DEF Sound, Climbs
    <3> QED BY <1>8, <2>1, <3>2
  <2> QED BY <2>2, <2>3
<1>10. Climbs(q, seen'[r]) BY <1>7, <1>9 DEF Climbs
<1> HIDE DEF old
<1>11. Sound(q, stage[r], seen'[r]) BY <1>1, <1>4, <1>10 DEF Sound, GivesNotice
<1> QED BY <1>5, <1>6, <1>11, RequestGoesOn

\* The climb ends: at the nearest church that sets the term, or past the last.
LEMMA ClimbEnds ==
    ASSUME LiturgyInv, Watch, NEW r \in Requests, NEW st \in Stages, NEW default,
           stage' = [stage EXCEPT ![r] = st],
           (stage[r] = "lead" /\ st = "check") \/ (stage[r] = "amount" /\ st = "save"),
           Hop(r, Seeks(r)) # "up"
    PROVE  /\ Hop(r, Seeks(r)) = "found" =>
                Resolves(tariff[request[r].at][Seeks(r)], default, request[r].church, seen'[r])
           /\ Hop(r, Seeks(r)) = "none" => Resolves(default, default, request[r].church, seen'[r])
<1> DEFINE q == request[r]
<1>1. q \in Request /\ Climbs(q, seen[r]) BY Standing DEF Sound
<1>2. q.at \in Hierarchy \cup {Null} /\ q.church \in Hierarchy /\ q.hop \in Int BY <1>1 DEF Request
<1>3. /\ \A c \in Hierarchy : SetNow(r, c) \in seen[r][c]
      /\ \A c \in Hierarchy : seen[r][c] \subseteq seen'[r][c]
  BY SearchSees
<1>4. Chain(q.church) \subseteq Hierarchy BY <1>2, ChainUp
<1>5. CASE q.at = Null
  <2>1. Hop(r, Seeks(r)) = "none" BY <1>5 DEF Hop
  <2>2. \A a \in Chain(q.church) : Null \in seen'[r][a] BY <1>1, <1>3, <1>4, <1>5 DEF Climbs
  <2> QED BY <2>1, <2>2 DEF Resolves
<1>6. CASE q.at # Null
  <2>1. q.at \in Chain(q.church) /\ q.hop + Rank[q.at] <= Rank[q.church] BY <1>1, <1>6 DEF Climbs
  <2>2. Rank[q.at] \in 0 .. MaxHops - 1 /\ Rank[q.church] \in 0 .. MaxHops - 1 BY <1>2, <1>6, Ranked
  <2>3. q.hop # MaxHops BY <1>2, <2>1, <2>2
  <2>4. Sets(q.at, Seeks(r)) /\ Hop(r, Seeks(r)) = "found" BY <1>6, <2>3 DEF Hop
  <2>5. tariff[q.at][Seeks(r)] \in seen'[r][q.at] \ {Null}
    BY <1>2, <1>3, <1>6, <2>4 DEF SetNow, Sets
  <2>6. ASSUME NEW a \in Chain(q.church), q.at \in Chain(a), a # q.at PROVE Null \in seen'[r][a]
    <3>1. a \in Hierarchy BY <1>4
    <3>2. Rank[q.at] < Rank[a] BY <2>6, <3>1, ChainRank
    <3>3. a \notin Chain(q.at)
      <4>1. a \in Chain(q.at) => Rank[a] < Rank[q.at] BY <1>2, <1>6, <2>6, ChainRank
      <4>2. Rank[a] \in Int BY <3>1, Ranked
      <4> QED BY <2>2, <3>2, <4>1, <4>2
    <3> QED BY <1>1, <1>3, <3>1, <3>3 DEF Climbs
  <2> QED BY <2>1, <2>4, <2>5, <2>6 DEF Resolves
<1> QED BY <1>5, <1>6

LEMMA ResolveLeadKeeps ==
    ASSUME LiturgyInv, Watch, NEW r \in Requests, ResolveLead(r)
    PROVE  LiturgyInv'
<1>1. stage[r] = "lead" /\ UNCHANGED <<now, schedule, tariff, edit>> /\ Seeks(r) = "lead"
  BY DEF ResolveLead, Seeks
<1>2. CASE Hop(r, "lead") = "up" /\ GoUp(r) /\ UNCHANGED stage BY <1>1, <1>2, GoUpKeeps
<1>3. ASSUME NEW lead \in Leads \cup DefaultLeads,
             request' = [request EXCEPT ![r].lead = lead], RequestGoto(r, "check"),
             Resolves(lead, request[r].type.lead, request[r].church, seen'[r])
      PROVE  LiturgyInv'
  <2> DEFINE old == request[r]
             q == [old EXCEPT !.lead = lead]
  <2>1. old \in Request /\ Sound(old, "lead", seen[r]) BY <1>1, Standing
  <2>2. /\ q \in Request /\ q.lead = lead /\ q.church = old.church
        /\ q.amount = old.amount /\ q.type = old.type
    BY <1>3, <2>1 DEF Request
  <2>3. request' = [request EXCEPT ![r] = q] BY <1>3
  <2>4. Resolves(lead, old.type.lead, old.church, seen'[r]) BY <1>3
  <2> HIDE DEF q, old
  <2>5. Sound(q, "check", seen'[r]) /\ "check" \in Stages
    BY <1>3, <2>1, <2>2, <2>4 DEF Sound, Stages
  <2> QED BY <1>1, <1>3, <2>3, <2>5, RequestGoesOn DEF RequestGoto
<1>4. request[r] \in Request /\ request[r].type \in Rules
      /\ request[r].at \in Hierarchy \cup {Null} /\ "check" \in Stages
  BY <1>1, Standing DEF Request, Stages
<1>5. CASE /\ Hop(r, "lead") = "found" /\ RequestGoto(r, "check")
           /\ request' = [request EXCEPT ![r].lead = tariff[request[r].at].lead]
  <2>1. request[r].at \in Hierarchy /\ Sets(request[r].at, "lead") BY <1>4, <1>5 DEF Hop
  <2>2. PICK lead \in Leads : lead = tariff[request[r].at].lead
    BY <2>1, TariffFields DEF Sets, LiturgyInv, TablesTyped
  <2>3. Resolves(tariff[request[r].at]["lead"], request[r].type.lead, request[r].church, seen'[r])
    BY <1>1, <1>4, <1>5, ClimbEnds DEF RequestGoto
  <2> QED BY <1>3, <1>5, <2>2, <2>3
<1>6. CASE /\ Hop(r, "lead") = "none" /\ RequestGoto(r, "check")
           /\ request' = [request EXCEPT ![r].lead = request[r].type.lead]
  <2>1. Resolves(request[r].type.lead, request[r].type.lead, request[r].church, seen'[r])
    BY <1>1, <1>4, <1>6, ClimbEnds DEF RequestGoto
  <2>2. request[r].type.lead \in DefaultLeads BY <1>4 DEF DefaultLeads
  <2> QED BY <1>3, <1>6, <2>1, <2>2
<1> QED BY <1>2, <1>5, <1>6 DEF ResolveLead

\* respectsLeadTime compares a day and an hour with those of an instant: what passes
\* is no earlier than the instant, to the hour or to the end of the day, if the day is
\* written with hyphens.
LEMMA LeadRespected ==
    ASSUME NEW written, written # "basic", NEW date \in Nat, NEW time \in Hours \cup {Null},
           NEW lead \in Nat, NEW at \in Nat, RespectsLead(written, date, time, lead, at)
    PROVE  24 * date + (IF time = Null THEN 23 ELSE time) >= at + Offset + lead
<1>1. PICK earliest \in Nat : earliest = at + Offset + lead OBVIOUS
<1>2. PICK day, hour : day = earliest \div 24 /\ hour = earliest % 24 OBVIOUS
<1>3. day \in Int /\ hour \in 0 .. 23 /\ earliest = 24 * day + hour BY <1>2
<1>4. date > day \/ (date = day /\ (time = Null \/ time >= hour))
  BY <1>1, <1>2 DEF RespectsLead
<1>5. CASE time = Null BY <1>1, <1>3, <1>4, <1>5
<1>6. CASE time # Null
  <2>1. time \in Nat BY <1>6
  <2> QED BY <1>1, <1>3, <1>4, <1>6, <2>1
<1> QED BY <1>5, <1>6

LEMMA CheckLeadKeeps ==
    ASSUME LiturgyInv, Watch, NEW r \in Requests, CheckLead(r)
    PROVE  LiturgyInv'
<1>1. stage[r] = "check" /\ UNCHANGED <<now, schedule, tariff, edit>> BY DEF CheckLead
<1>2. CASE Refuse(r) BY <1>1, <1>2, RefuseKeeps
<1>3. CASE /\ RespectsLead(request[r].form, request[r].date, request[r].time, request[r].lead, now)
           /\ request' = [request EXCEPT ![r].checked = now, ![r].at = request[r].church,
                                         ![r].hop = 0]
           /\ RequestGoto(r, "amount")
  <2> DEFINE old == request[r]
             looked == [old EXCEPT !.checked = now]
             home == [looked EXCEPT !.at = old.church]
             q == [home EXCEPT !.hop = 0]
  <2>1. old \in Request /\ Sound(old, "check", seen[r]) BY <1>1, Standing
  <2>2. now \in Instants /\ now \in Nat BY DEF LiturgyInv, TablesTyped
  <2>3. /\ q \in Request /\ q.checked = now /\ q.at = old.church /\ q.hop = 0
        /\ q.church = old.church /\ q.date = old.date /\ q.time = old.time
        /\ q.amount = old.amount /\ q.form = old.form /\ q.lead = old.lead
    <3>1. looked \in Request BY <2>1, <2>2 DEF Request
    <3> HIDE DEF looked
    <3>2. home \in Request BY <2>1, <3>1 DEF Request
    <3> HIDE DEF home
    <3>3. q \in Request BY <3>2 DEF Request
    <3> USE DEF looked, home
    <3> QED BY <2>1, <3>3 DEF Request
  <2>4. request' = [request EXCEPT ![r] = q] BY <1>3, <2>1 DEF LiturgyInv, TablesTyped
  <2>5. /\ old.church \in Hierarchy /\ old.date \in Nat /\ old.time \in Hours \cup {Null}
        /\ old.lead \in Nat
    <3>1. Leads \cup DefaultLeads \subseteq Nat BY DEF DefaultLeads
    <3> QED BY <2>1, <3>1 DEF Sound, Request
  <2>6. old.form # "basic" =>
          24 * old.date + (IF old.time = Null THEN 23 ELSE old.time) >= now + Offset + old.lead
    BY <1>3, <2>2, <2>5, LeadRespected
  <2> HIDE DEF q, old, home, looked
  <2>7. Climbs(q, seen'[r]) BY <2>3, ClimbBegins
  <2>8. Sound(q, "amount", seen'[r]) /\ "amount" \in Stages
    BY <2>1, <2>3, <2>6, <2>7 DEF Sound, GivesNotice, Stages
  <2> QED BY <1>1, <1>3, <2>4, <2>8, RequestGoesOn DEF RequestGoto
<1> QED BY <1>2, <1>3 DEF CheckLead

LEMMA ResolveAmountKeeps ==
    ASSUME LiturgyInv, Watch, NEW r \in Requests, ResolveAmount(r)
    PROVE  LiturgyInv'
<1>1. stage[r] = "amount" /\ UNCHANGED <<now, schedule, tariff, edit>> /\ Seeks(r) = "amount"
      /\ "save" \in Stages
  BY DEF ResolveAmount, Seeks, Stages
<1>2. request[r] \in Request /\ Sound(request[r], "amount", seen[r]) BY <1>1, Standing
<1>3. CASE Hop(r, "amount") = "up" /\ GoUp(r) /\ UNCHANGED stage BY <1>1, <1>3, GoUpKeeps
<1>4. CASE /\ Hop(r, "amount") = "found" /\ RequestGoto(r, "save")
           /\ request' = [request EXCEPT ![r].amount = tariff[request[r].at].amount]
  <2>1. request[r].at \in Hierarchy /\ Sets(request[r].at, "amount")
    BY <1>2, <1>4 DEF Hop, Request
  <2>2. PICK amount \in Amounts : amount = tariff[request[r].at].amount
    BY <2>1, TariffFields DEF Sets, LiturgyInv, TablesTyped
  <2> DEFINE old == request[r]
             q == [old EXCEPT !.amount = amount]
  <2>3. Resolves(tariff[old.at]["amount"], Null, old.church, seen'[r])
    BY <1>1, <1>4, ClimbEnds DEF RequestGoto
  <2>4. /\ q \in Request /\ q.amount = amount /\ q.church = old.church /\ q.form = old.form
        /\ q.date = old.date /\ q.time = old.time /\ q.checked = old.checked
        /\ q.lead = old.lead
    BY <1>2 DEF Request
  <2>5. request' = [request EXCEPT ![r] = q] BY <1>4, <2>2
  <2>6. Sound(old, "amount", seen[r]) /\ amount = tariff[old.at]["amount"] BY <1>2, <2>2
  <2> HIDE DEF q, old
  <2>7. Sound(q, "save", seen'[r])
    BY <2>3, <2>4, <2>6 DEF Sound, GivesNotice
  <2> QED BY <1>1, <1>4, <2>5, <2>7, RequestGoesOn DEF RequestGoto
<1>5. CASE Hop(r, "amount") = "none" /\ RequestGoto(r, "save") /\ UNCHANGED request
  <2>1. Resolves(Null, Null, request[r].church, seen'[r]) BY <1>1, <1>5, ClimbEnds DEF RequestGoto
  <2>2. Sound(request[r], "save", seen'[r]) BY <1>2, <2>1 DEF Sound
  <2> QED BY <1>1, <1>5, <2>2, RequestTurns
<1> QED BY <1>3, <1>4, <1>5 DEF ResolveAmount

LEMMA SaveRequestKeeps ==
    ASSUME LiturgyInv, Watch, NEW r \in Requests, SaveRequest(r)
    PROVE  LiturgyInv'
<1>1. stage[r] = "save" /\ UNCHANGED <<now, schedule, tariff, edit>> BY DEF SaveRequest
<1>2. CASE Refuse(r) BY <1>1, <1>2, RefuseKeeps
<1>3. CASE /\ RequestGoto(r, "saved")
           /\ request' = [request EXCEPT ![r].at = Null, ![r].hop = 0]
  <2> DEFINE old == request[r]
             home == [old EXCEPT !.at = Null]
             q == [home EXCEPT !.hop = 0]
  <2>1. old \in Request /\ Sound(old, "save", seen[r]) BY <1>1, Standing
  <2>2. /\ q \in Request /\ q.date = old.date /\ q.time = old.time /\ q.checked = old.checked
        /\ q.form = old.form /\ q.lead = old.lead
    <3>1. home \in Request BY <2>1 DEF Request
    <3> HIDE DEF home
    <3>2. q \in Request BY <3>1 DEF Request
    <3> USE DEF home
    <3> QED BY <2>1, <3>2 DEF Request
  <2>3. request' = [request EXCEPT ![r] = q] BY <1>3, <2>1 DEF LiturgyInv, TablesTyped
  <2> HIDE DEF q, old, home
  <2>4. Sound(q, "saved", seen'[r]) /\ "saved" \in Stages
    BY <2>1, <2>2 DEF Sound, GivesNotice, Stages
  <2> QED BY <1>1, <1>3, <2>3, <2>4, RequestGoesOn DEF RequestGoto
<1> QED BY <1>2, <1>3 DEF SaveRequest

LEMMA StepLiturgy == LiturgyInv /\ [LiturgyNext]_liturgyVars => LiturgyInv'
<1> SUFFICES ASSUME LiturgyInv, [LiturgyNext]_liturgyVars PROVE LiturgyInv' OBVIOUS
<1>1. ASSUME Watch, ScheduleStep PROVE LiturgyInv'
  BY <1>1, ScheduleCreateKeeps, ScheduleEditKeeps, ScheduleDeleteKeeps DEF ScheduleStep
<1>2. ASSUME Watch, TariffStep PROVE LiturgyInv'
  BY <1>2, TariffCreateKeeps, TariffEditKeeps, TariffDeleteKeeps DEF TariffStep
<1>3. ASSUME Watch, NEW e \in Edits, ScheduleWrite(e) \/ TariffWrite(e) PROVE LiturgyInv'
  BY <1>3, ScheduleWriteKeeps, TariffWriteKeeps
<1>4. ASSUME Watch, NEW r \in Requests, RequestStep(r) PROVE LiturgyInv'
  <2>1. CASE \E type \in Rules, c \in Hierarchy, d \in Dates, written \in DateForms,
                s \in Schedules \cup {Null} : Ask(r, type, c, d, written, s)
    BY <1>4, <2>1, AskKeeps
  <2>2. CASE FindMass(r) \/ FindSlot(r) \/ ResolveLead(r) \/ CheckLead(r)
    BY <1>4, <2>2, FindMassKeeps, FindSlotKeeps, ResolveLeadKeeps, CheckLeadKeeps
  <2>3. CASE ResolveAmount(r) \/ SaveRequest(r)
    BY <1>4, <2>3, ResolveAmountKeeps, SaveRequestKeeps
  <2>4. CASE OfferingRefused(r) BY <1>4, <2>4, RefuseKeeps DEF OfferingRefused
  <2> QED BY <1>4, <2>1, <2>2, <2>3, <2>4 DEF RequestStep
<1>5. ASSUME Watch, Tick PROVE LiturgyInv' BY <1>5, LiturgyTickKeeps
<1>6. CASE UNCHANGED liturgyVars
  <2>1. UNCHANGED <<now, schedule, tariff, edit, request, stage, seen>> BY <1>6 DEF liturgyVars
  <2>2. TablesTyped' /\ TablesShape' /\ TariffsSaySomething' /\ EditsSound'
    BY <2>1 DEF LiturgyInv, TablesTyped, TablesShape, TariffsSaySomething, EditsSound
  <2>3. SeenSound' BY <2>1 DEF LiturgyInv, SeenSound, Seeks, SetNow, Sets
  <2>4. RequestsSound'
    BY <2>1 DEF LiturgyInv, RequestsSound, Sound, Climbs, Resolves, GivesNotice
  <2> QED BY <2>2, <2>3, <2>4 DEF LiturgyInv
<1> QED BY <1>1, <1>2, <1>3, <1>4, <1>5, <1>6 DEF LiturgyNext, LiturgySteps

LEMMA SpecLiturgy == LiturgySpec => []LiturgyInv
BY InitLiturgy, StepLiturgy, PTL DEF LiturgySpec

\* Schedules and tariffs keep the columns and values of their tables, a request no more
\* hops than the chain of its church has.
THEOREM LiturgyTyped == LiturgySpec => []LiturgyTypeOK
<1>1. LiturgyInv => LiturgyTypeOK BY DEF LiturgyInv, TablesTyped, SeenSound, LiturgyTypeOK
<1> QED BY <1>1, SpecLiturgy, PTL

\* No interleaving of updates leaves a tariff that sets nothing.
THEOREM NoTariffIsEmpty == LiturgySpec => []TariffsSaySomething
<1>1. LiturgyInv => TariffsSaySomething BY DEF LiturgyInv
<1> QED BY <1>1, SpecLiturgy, PTL

\* The notice and the offering asked of a request are those of the nearest church of any
\* hierarchy that sets one, and of no church beyond one that had set it all along.
THEOREM NearestTermsFound == LiturgySpec => []TermsOfNearest
<1>1. LiturgyInv => TermsOfNearest
  BY DEF LiturgyInv, RequestsSound, Sound, TermsOfNearest
<1> QED BY <1>1, SpecLiturgy, PTL

\* Whatever changes while a request is made, once it is saved for a date written with
\* hyphens it has given the notice that was found for it.
THEOREM NoticeIsGiven == LiturgySpec => []SavedGaveNotice
<1>1. LiturgyInv => SavedGaveNotice
  BY DEF LiturgyInv, RequestsSound, Sound, SavedGaveNotice
<1> QED BY <1>1, SpecLiturgy, PTL

-----------------------------------------------------------------------------
(* Liturgy: the next celebration *)

LEMMA ShowsNext ==
    ASSUME LiturgyInv, NEW s \in Schedules, schedule[s] # Null, NEW row, row = schedule[s],
           NEW live, live = {d \in Days : IsOccurrence(row, d) /\ now < Ends(row, d)}
    PROVE  /\ NextOccurrence(row, now) # Null =>
                 \E d \in live : NextOccurrence(row, now) = Starts(row, d)
           /\ /\ live # {}
              /\ Min(live) <= now \div 24 + Horizon
              /\ row.time + row.duration <= 24 + Offset
              => NextOccurrence(row, now) = Starts(row, Min(live))
<1> DEFINE found == {d \in (now \div 24) .. (now \div 24) + Horizon :
                        d \in Days /\ IsOccurrence(row, d) /\ Ends(row, d) > now}
<1>1. now \in Nat /\ row.time \in Nat /\ row.duration \in Nat
  BY ScheduleFields DEF LiturgyInv, TablesTyped
<1>2. \A d \in Days : d \in Nat /\ Ends(row, d) \in Int BY <1>1 DEF Ends, Starts
<1>3. found \subseteq live /\ live \in SUBSET Nat BY <1>1, <1>2
<1>4. NextOccurrence(row, now) = IF found = {} THEN Null ELSE Starts(row, Min(found))
  BY DEF NextOccurrence
<1>5. found # {} => Min(found) \in found /\ \A d \in found : Min(found) <= d
  BY <1>3, LeastOf
<1>6. ASSUME live # {}, Min(live) <= now \div 24 + Horizon,
             row.time + row.duration <= 24 + Offset
      PROVE  NextOccurrence(row, now) = Starts(row, Min(live))
  <2>1. PICK first \in live : first = Min(live) /\ \A d \in live : first <= d
    BY <1>3, <1>6, LeastOf
  <2>2. first \in Days /\ first \in Nat /\ now < Ends(row, first) BY <1>3, <2>1
  <2>3. now < 24 * first + 24
    <3>1. Ends(row, first) = 24 * first + row.time - Offset + row.duration BY DEF Ends, Starts
    <3> QED BY <1>1, <1>6, <2>2, <3>1
  <2>4. PICK today \in Nat, hour \in 0 .. 23 : today = now \div 24 /\ now = 24 * today + hour
    BY <1>1
  <2>5. today <= first BY <2>2, <2>3, <2>4
  <2>6. first \in (now \div 24) .. (now \div 24) + Horizon BY <1>6, <2>1, <2>2, <2>4, <2>5
  <2>7. first \in found BY <1>2, <2>1, <2>2, <2>6
  <2>8. Min(found) = first
    <3>1. PICK m \in found : m = Min(found) /\ m <= first BY <1>5, <2>7
    <3>2. first <= m /\ m \in Nat BY <1>3, <2>1, <3>1
    <3> QED BY <2>2, <3>1, <3>2
  <2> QED BY <1>4, <2>1, <2>7, <2>8
<1> QED BY <1>3, <1>4, <1>5, <1>6

\* What the churches around show is the next celebration that is not over.
THEOREM NextIsShown == LiturgySpec => []NearbyShowsNext
<1>1. LiturgyInv => NearbyShowsNext
  <2> SUFFICES ASSUME LiturgyInv, NEW s \in Schedules, schedule[s] # Null
               PROVE  LET row == schedule[s]
                          live == {d \in Days : IsOccurrence(row, d) /\ now < Ends(row, d)}
                          shown == NextOccurrence(row, now)
                      IN  /\ shown # Null => \E d \in live : shown = Starts(row, d)
                          /\ /\ live # {}
                             /\ Min(live) <= now \div 24 + Horizon
                             /\ row.time + row.duration <= 24 + Offset
                             => shown = Starts(row, Min(live))
    BY DEF NearbyShowsNext
  <2>1. PICK row : row = schedule[s] OBVIOUS
  <2>2. PICK live : live = {d \in Days : IsOccurrence(row, d) /\ now < Ends(row, d)} OBVIOUS
  <2> QED BY <2>1, <2>2, ShowsNext
<1> QED BY <1>1, SpecLiturgy, PTL
=============================================================================
