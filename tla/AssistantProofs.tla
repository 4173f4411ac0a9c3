--------------------------- MODULE AssistantProofs ---------------------------
(***************************************************************************)
(* Theorems about Assistant, for every set of runs, churches and users,    *)
(* whatever the bounds on rounds, calls and time.                          *)
(***************************************************************************)
EXTENDS Assistant, TLAPS

Outcomes == Posted \cup {"none", "silent", "error"}

\* The rounds and the calls a run has left where it stands: only an escalation
\* of the loop limit has used up the rounds.
Fits(step, j) ==
    /\ step \notin Escalating => ~j.viaLimit
    /\ ~j.viaLimit => j.round < MaxRounds
    /\ step = "tool" \/ (step \in Escalating /\ ~j.viaLimit) => j.calls >= 1

JobFits == \A r \in Run : Fits(pc[r], job[r])

\* Past escWrite the update of the conversation is committed, and what a run
\* learns from it, it learns after that.
Committed == {"escLoad", "escAdd", "escNotify"}
CommitFirst == \A r \in Run : pc[r] \in Committed \/ reEscalated[r] => r \in transmitted

\* When the notifier is called, the clergy is in the thread.
AddedFirst == \A r \in Run : pc[r] = "escNotify" => ClergyOf(job[r].target) \subseteq participants

IInv == TypeOK /\ JobFits /\ CommitFirst /\ AddedFirst /\ SilenceIsTransmitted /\ NotifiedCanOpen

USE AssistantAssumption

LEMMA NewJobTyped == NewJob \in Job /\ \A s \in Steps \ {"tool"} : s \notin Escalating => Fits(s, NewJob)
BY DEF NewJob, Job, Targets, Fits, Steps

LEMMA InitIInv == Init => IInv
<1> SUFFICES ASSUME Init PROVE IInv OBVIOUS
<1>1. TypeOK
  BY NewJobTyped DEF Init, TypeOK, NotEscalated, Escalation, Steps, Posted
<1>2. JobFits BY NewJobTyped DEF Init, JobFits, Steps, Escalating
<1>3. CommitFirst /\ AddedFirst /\ SilenceIsTransmitted /\ NotifiedCanOpen
  BY DEF Init, CommitFirst, Committed, AddedFirst, SilenceIsTransmitted, NotifiedCanOpen
<1> QED BY <1>1, <1>2, <1>3 DEF IInv

LEMMA PeopleTyped ==
    ASSUME NEW c \in Targets
    PROVE  ClergyOf(c) \subseteq Users /\ Recipients(c) \subseteq Users
           /\ Recipients(c) \subseteq Admins \cup ClergyOf(c)
BY DEF ClergyOf, Recipients, Targets

\* One run moves: what it must have seen to stand where it goes.
LEMMA RunMoves ==
    ASSUME IInv, NEW r \in Run, NEW step \in Steps, NEW new \in Job, NEW re \in BOOLEAN,
           NEW result \in Outcomes,
           Goto(r, step), SetJob(r, new), Fits(step, new),
           reEscalated' = [reEscalated EXCEPT ![r] = re],
           outcome' = [outcome EXCEPT ![r] = result],
           transmitted \subseteq transmitted', transmitted' \subseteq Run,
           participants \subseteq participants', participants' \subseteq Users,
           step \in Committed \/ re \/ result = "silent" => r \in transmitted',
           step = "escNotify" => ClergyOf(new.target) \subseteq participants',
           notices' \subseteq Notice,
           \A n \in notices' \ notices : n.user \in Admins \cup participants',
           escalation' \in Escalation, clock' \in 0..MaxClock
    PROVE  IInv'
<1>1. TypeOK /\ JobFits /\ CommitFirst /\ AddedFirst /\ SilenceIsTransmitted /\ NotifiedCanOpen
  BY DEF IInv
<1>2. \A s \in Run : /\ pc'[s] = IF s = r THEN step ELSE pc[s]
                     /\ job'[s] = IF s = r THEN new ELSE job[s]
                     /\ reEscalated'[s] = IF s = r THEN re ELSE reEscalated[s]
                     /\ outcome'[s] = IF s = r THEN result ELSE outcome[s]
  BY <1>1 DEF TypeOK, Goto, SetJob
<1>3. TypeOK' BY <1>1 DEF TypeOK, Goto, SetJob, Outcomes
<1>4. JobFits' BY <1>1, <1>2 DEF JobFits
<1>5. CommitFirst' BY <1>1, <1>2 DEF CommitFirst
<1>6. AddedFirst' BY <1>1, <1>2 DEF AddedFirst
<1>7. SilenceIsTransmitted' BY <1>1, <1>2 DEF SilenceIsTransmitted
<1>8. NotifiedCanOpen' BY <1>1 DEF NotifiedCanOpen
<1> QED BY <1>3, <1>4, <1>5, <1>6, <1>7, <1>8 DEF IInv

\* The same, when the run alone changes, and keeps what it has learnt.
LEMMA RunGoesOn ==
    ASSUME IInv, NEW r \in Run, NEW step \in Steps, NEW new \in Job,
           Goto(r, step), SetJob(r, new), Fits(step, new),
           step \in Committed => r \in transmitted,
           step = "escNotify" => ClergyOf(new.target) \subseteq participants,
           UNCHANGED <<reEscalated, outcome, convVars, clock>>
    PROVE  IInv'
<1>1. TypeOK /\ CommitFirst /\ SilenceIsTransmitted BY DEF IInv
<1>2. /\ reEscalated[r] \in BOOLEAN /\ outcome[r] \in Outcomes
      /\ reEscalated' = [reEscalated EXCEPT ![r] = reEscalated[r]]
      /\ outcome' = [outcome EXCEPT ![r] = outcome[r]]
  BY <1>1 DEF TypeOK, Outcomes
<1>3. reEscalated[r] \/ outcome[r] = "silent" => r \in transmitted
  BY <1>1 DEF CommitFirst, SilenceIsTransmitted
<1>4. /\ transmitted' = transmitted /\ participants' = participants /\ notices' = notices
      /\ escalation' = escalation /\ clock' = clock
  BY DEF convVars
<1>5. /\ transmitted \subseteq Run /\ participants \subseteq Users /\ notices \subseteq Notice
      /\ escalation \in Escalation /\ clock \in 0..MaxClock
  BY <1>1 DEF TypeOK
<1> QED BY <1>2, <1>3, <1>4, <1>5, RunMoves

\* A run returns: silent only when it has escalated before.
LEMMA RunEnds ==
    ASSUME IInv, NEW r \in Run, NEW result \in Outcomes, End(r, result),
           result = "silent" => reEscalated[r],
           UNCHANGED <<reEscalated, escalation, transmitted, participants, clock>>,
           notices' \subseteq Notice,
           \A n \in notices' \ notices : n.user \in Admins \cup participants
    PROVE  IInv'
<1>1. TypeOK /\ CommitFirst BY DEF IInv
<1>2. /\ reEscalated[r] \in BOOLEAN /\ reEscalated' = [reEscalated EXCEPT ![r] = reEscalated[r]]
      /\ transmitted \subseteq Run /\ participants \subseteq Users
      /\ escalation \in Escalation /\ clock \in 0..MaxClock
  BY <1>1 DEF TypeOK
<1>3. reEscalated[r] => r \in transmitted BY <1>1 DEF CommitFirst
<1>4. /\ Goto(r, "done") /\ SetJob(r, NewJob)
      /\ outcome' = [outcome EXCEPT ![r] = result]
  BY DEF End
<1>5. "done" \in Steps /\ NewJob \in Job /\ Fits("done", NewJob)
  BY NewJobTyped DEF Steps, Escalating
<1> QED BY <1>2, <1>3, <1>4, <1>5, RunMoves DEF Committed

-----------------------------------------------------------------------------
(* The actions *)

LEMMA LoopKeeps ==
    ASSUME IInv, NEW r \in Run,
           \/ Receive(r) \/ LoadHistory(r) \/ LoadHistoryFails(r)
           \/ CompleteWithTools(r) \/ CompleteWithText(r) \/ CallFails(r) \/ CallTooLate(r)
           \/ Fallback(r)
    PROVE  IInv'
<1>1. job[r] \in Job /\ Fits(pc[r], job[r])
  BY DEF IInv, TypeOK, JobFits
<1>2. CASE Receive(r) \/ LoadHistoryFails(r) \/ CallTooLate(r)
  <2>1. SetJob(r, job[r]) BY <1>2 DEF IInv, TypeOK, SetJob, Receive, LoadHistoryFails, CallTooLate
  <2> QED BY <1>1, <1>2, <2>1, RunGoesOn
          DEF Receive, LoadHistoryFails, CallTooLate, Steps, Escalating, Fits, Committed
<1>3. CASE LoadHistory(r)
  <2> PICK l \in 0..job[r].left : SetJob(r, [job[r] EXCEPT !.left = l]) BY <1>3 DEF LoadHistory
  <2>1. l \in 0..TotalTime BY <1>1 DEF Job
  <2>2. [job[r] EXCEPT !.left = l] \in Job BY <1>1, <2>1 DEF Job
  <2>3. Fits("complete", [job[r] EXCEPT !.left = l])
    BY <1>1, <1>3 DEF LoadHistory, Fits, Escalating, Job
  <2> QED BY <1>3, <2>2, <2>3, RunGoesOn DEF LoadHistory, Steps, Committed
<1>4. ASSUME NEW j \in AfterCall(r), Calling(r)
      PROVE  /\ j \in Job /\ j.round = job[r].round /\ j.viaLimit = job[r].viaLimit
             /\ ~j.viaLimit /\ j.round < MaxRounds
  <2> PICK d \in 0..CallTime : d <= job[r].left /\ j = [job[r] EXCEPT !.left = @ - d]
    BY <1>4 DEF AfterCall
  <2>1. job[r].left - d \in 0..TotalTime BY <1>1 DEF Job
  <2> QED BY <1>1, <1>4, <2>1 DEF Job, Fits, Calling, Escalating
<1>5. CASE CompleteWithTools(r)
  <2> PICK j \in AfterCall(r), n \in 1..MaxCalls : SetJob(r, [j EXCEPT !.calls = n])
    BY <1>5 DEF CompleteWithTools
  <2>1. j \in Job /\ ~j.viaLimit /\ j.round < MaxRounds BY <1>4, <1>5 DEF CompleteWithTools
  <2>2. n \in 0..MaxCalls /\ n >= 1 OBVIOUS
  <2>3. [j EXCEPT !.calls = n] \in Job BY <2>1, <2>2 DEF Job
  <2>4. Fits("tool", [j EXCEPT !.calls = n]) BY <2>1, <2>2 DEF Fits, Job
  <2> QED BY <1>5, <2>3, <2>4, RunGoesOn DEF CompleteWithTools, Steps, Committed
<1>6. CASE CallFails(r)
  <2> PICK j \in AfterCall(r) :
        /\ SetJob(r, j)
        /\ Goto(r, IF pc[r] = "complete" /\ j.left >= 1 THEN "retry" ELSE "fallback")
    BY <1>6 DEF CallFails
  <2>1. j \in Job /\ ~j.viaLimit /\ j.round < MaxRounds BY <1>4, <1>6 DEF CallFails
  <2> QED BY <1>6, <2>1, RunGoesOn DEF CallFails, Steps, Committed, Fits, Escalating
<1>7. CASE CompleteWithText(r) \/ Fallback(r)
  <2>1. PICK result \in Outcomes : End(r, result) /\ (result = "silent" => reEscalated[r])
    BY <1>7 DEF CompleteWithText, Fallback, Outcomes, Posted
  <2>2. notices' \subseteq Notice /\ notices' \ notices = {}
    BY <1>7 DEF CompleteWithText, Fallback, convVars, IInv, TypeOK
  <2> QED BY <1>7, <2>1, <2>2, RunEnds DEF CompleteWithText, Fallback, convVars
<1> QED BY <1>2, <1>3, <1>5, <1>6, <1>7

\* After a tool, the next place of the run and its new local variables.
LEMMA AfterToolFits ==
    ASSUME IInv, NEW r \in Run, AfterTool(r),
           pc[r] = "tool" \/ (pc[r] \in Escalating /\ ~job[r].viaLimit)
    PROVE  \E step \in {"escRead", "complete", "tool"}, new \in Job :
              Goto(r, step) /\ SetJob(r, new) /\ Fits(step, new)
<1>1. job[r] \in Job /\ Fits(pc[r], job[r]) BY DEF IInv, TypeOK, JobFits
<1>2. /\ job[r].round \in 0..MaxRounds /\ job[r].calls \in 0..MaxCalls
      /\ job[r].left \in 0..TotalTime
      /\ job[r].round < MaxRounds /\ job[r].calls >= 1
  BY <1>1 DEF Job, Fits, Escalating
<1> DEFINE last == job[r].calls = 1
           rounds == job[r].round + 1
           limit == last /\ rounds = MaxRounds
           step == IF limit THEN "escRead" ELSE IF last THEN "complete" ELSE "tool"
<1>3. PICK l \in 0..job[r].left :
        /\ SetJob(r, [NewJob EXCEPT !.left = l, !.calls = job[r].calls - 1, !.viaLimit = limit,
                                    !.round = IF last THEN rounds ELSE rounds - 1])
        /\ Goto(r, step)
  BY DEF AfterTool
<1> DEFINE new == [NewJob EXCEPT !.left = l, !.calls = job[r].calls - 1, !.viaLimit = limit,
                                 !.round = IF last THEN rounds ELSE rounds - 1]
<1>4. /\ l \in 0..TotalTime /\ job[r].calls - 1 \in 0..MaxCalls /\ limit \in BOOLEAN
      /\ (IF last THEN rounds ELSE rounds - 1) \in 0..MaxRounds
  BY <1>2
<1>5. new \in Job BY <1>4, NewJobTyped DEF Job
<1>6. /\ new.viaLimit = limit /\ new.calls = job[r].calls - 1
      /\ new.round = IF last THEN rounds ELSE rounds - 1
  BY NewJobTyped DEF Job
<1>7. ~limit => new.round < MaxRounds BY <1>2, <1>6
<1>8. step = "tool" => new.calls >= 1 BY <1>2, <1>6
<1>9. step \in Escalating <=> limit BY DEF Escalating
<1>10. step \in {"escRead", "complete", "tool"} OBVIOUS
<1> HIDE DEF step, new, limit
<1>11. Fits(step, new) BY <1>6, <1>7, <1>8, <1>9 DEF Fits
<1>12. Goto(r, step) /\ SetJob(r, new) BY <1>3 DEF step, new, limit
<1> QED BY <1>5, <1>10, <1>11, <1>12

LEMMA ToolsKeep == ASSUME IInv, NEW r \in Run, OtherTool(r) \/ EscalateTool(r) PROVE IInv'
<1>1. CASE OtherTool(r)
  <2>1. PICK step \in {"escRead", "complete", "tool"}, new \in Job :
          Goto(r, step) /\ SetJob(r, new) /\ Fits(step, new)
    BY <1>1, AfterToolFits DEF OtherTool
  <2> QED BY <1>1, <2>1, RunGoesOn DEF OtherTool, Steps, Escalating, Committed
<1>2. CASE EscalateTool(r)
  <2>1. job[r] \in Job /\ Fits("tool", job[r]) BY <1>2 DEF IInv, TypeOK, JobFits, EscalateTool
  <2>2. PICK c \in Targets : SetJob(r, [job[r] EXCEPT !.target = c]) BY <1>2 DEF EscalateTool
  <2>3. [job[r] EXCEPT !.target = c] \in Job BY <2>1 DEF Job
  <2>4. Fits("escRead", [job[r] EXCEPT !.target = c]) BY <2>1 DEF Fits, Escalating, Job
  <2> QED BY <1>2, <2>2, <2>3, <2>4, RunGoesOn DEF EscalateTool, Steps, Escalating, Committed
<1> QED BY <1>1, <1>2

LEMMA EscalateReadKeeps == ASSUME IInv, NEW r \in Run, EscalateRead(r) PROVE IInv'
<1> DEFINE new == [job[r] EXCEPT !.before = Escalated]
<1>1. job[r] \in Job /\ Fits("escRead", job[r]) BY DEF IInv, TypeOK, JobFits, EscalateRead
<1>2. Escalated \in BOOLEAN BY DEF Escalated
<1>3. new \in Job BY <1>1, <1>2 DEF Job
<1>4. Fits("escWrite", new) BY <1>1 DEF Fits, Escalating, Job
<1>5. Goto(r, "escWrite") /\ SetJob(r, new) /\ UNCHANGED <<reEscalated, outcome, convVars, clock>>
  BY DEF EscalateRead
<1> HIDE DEF new
<1> QED BY <1>3, <1>4, <1>5, RunGoesOn DEF Steps, Escalating, Committed

LEMMA EscalateWriteKeeps == ASSUME IInv, NEW r \in Run, EscalateWrite(r) PROVE IInv'
<1>1. TypeOK /\ JobFits BY DEF IInv
<1>2. /\ job[r] \in Job /\ job' = [job EXCEPT ![r] = job[r]]
      /\ reEscalated[r] \in BOOLEAN /\ reEscalated' = [reEscalated EXCEPT ![r] = reEscalated[r]]
      /\ outcome[r] \in Outcomes /\ outcome' = [outcome EXCEPT ![r] = outcome[r]]
  BY <1>1 DEF TypeOK, EscalateWrite, Outcomes
<1>3. Fits("escLoad", job[r]) BY <1>1 DEF JobFits, Fits, EscalateWrite, Escalating
<1>4. escalation' \in Escalation BY <1>1 DEF TypeOK, EscalateWrite, Escalation
<1>5. /\ transmitted \subseteq Run /\ participants \subseteq Users /\ notices \subseteq Notice
      /\ clock \in 0..MaxClock
  BY <1>1 DEF TypeOK
<1>6. /\ transmitted' = transmitted \cup {r} /\ participants' = participants
      /\ notices' = notices /\ clock' = clock /\ Goto(r, "escLoad")
  BY DEF EscalateWrite
<1> QED BY <1>2, <1>3, <1>4, <1>5, <1>6, RunMoves DEF Steps, Escalating, SetJob

LEMMA EscalateLoadKeeps == ASSUME IInv, NEW r \in Run, EscalateLoad(r) PROVE IInv'
<1> DEFINE new == [job[r] EXCEPT !.loaded = escalation.at]
           re == reEscalated[r] \/ job[r].before
<1>1. TypeOK /\ JobFits /\ CommitFirst BY DEF IInv
<1>2. job[r] \in Job /\ Fits("escLoad", job[r]) BY <1>1 DEF TypeOK, JobFits, EscalateLoad
<1>3. escalation.at \in 0..MaxClock BY <1>1 DEF TypeOK, Escalation
<1>4. new \in Job BY <1>2, <1>3 DEF Job
<1>5. Fits("escAdd", new) BY <1>2 DEF Fits, Escalating, Job
<1>6. r \in transmitted BY <1>1 DEF CommitFirst, Committed, EscalateLoad
<1>7. /\ re \in BOOLEAN /\ reEscalated' = [reEscalated EXCEPT ![r] = re]
      /\ outcome[r] \in Outcomes /\ outcome' = [outcome EXCEPT ![r] = outcome[r]]
  BY <1>1 DEF TypeOK, EscalateLoad, Outcomes
<1>8. /\ transmitted \subseteq Run /\ participants \subseteq Users /\ notices \subseteq Notice
      /\ escalation \in Escalation /\ clock \in 0..MaxClock
  BY <1>1 DEF TypeOK
<1>9. /\ Goto(r, "escAdd") /\ SetJob(r, new) /\ transmitted' = transmitted
      /\ participants' = participants /\ notices' = notices /\ escalation' = escalation
      /\ clock' = clock
  BY DEF EscalateLoad, convVars
<1> HIDE DEF new, re
<1> QED BY <1>4, <1>5, <1>6, <1>7, <1>8, <1>9, RunMoves DEF Steps, Escalating

LEMMA EscalateAddKeeps == ASSUME IInv, NEW r \in Run, EscalateAdd(r) PROVE IInv'
<1>1. TypeOK /\ JobFits /\ CommitFirst /\ AddedFirst /\ SilenceIsTransmitted /\ NotifiedCanOpen
  BY DEF IInv
<1>2. job[r].target \in Targets BY <1>1 DEF TypeOK, Job
<1>3. participants \subseteq participants' /\ participants' \subseteq Users
  BY <1>1, <1>2, PeopleTyped DEF EscalateAdd, TypeOK
<1>4. TypeOK' BY <1>1, <1>3 DEF TypeOK, EscalateAdd
<1>5. JobFits' /\ CommitFirst' /\ SilenceIsTransmitted'
  BY <1>1 DEF JobFits, CommitFirst, SilenceIsTransmitted, EscalateAdd
<1>6. AddedFirst' /\ NotifiedCanOpen'
  BY <1>1, <1>3 DEF AddedFirst, NotifiedCanOpen, EscalateAdd
<1> QED BY <1>4, <1>5, <1>6 DEF IInv

LEMMA EscalateAddedKeeps == ASSUME IInv, NEW r \in Run, EscalateAdded(r) PROVE IInv'
<1>1. TypeOK /\ JobFits /\ CommitFirst BY DEF IInv
<1>2. job[r] \in Job /\ SetJob(r, job[r]) BY <1>1 DEF TypeOK, EscalateAdded, SetJob
<1>3. Fits("escNotify", job[r]) BY <1>1 DEF JobFits, Fits, EscalateAdded, Escalating
<1>4. r \in transmitted BY <1>1 DEF CommitFirst, Committed, EscalateAdded
<1> QED BY <1>2, <1>3, <1>4, RunGoesOn DEF EscalateAdded, Steps, Escalating

\* The escalation is over, with rows for the recipients or without.
LEMMA EscalateEndsKeeps ==
    ASSUME IInv, NEW r \in Run, EscalateEnds(r), pc[r] \in Escalating,
           UNCHANGED <<reEscalated, escalation, transmitted, participants, clock>>,
           notices' \subseteq Notice,
           \A n \in notices' \ notices : n.user \in Admins \cup participants
    PROVE  IInv'
<1>1. CASE job[r].viaLimit
  <2>1. \E result \in Outcomes : End(r, result) /\ (result = "silent" => reEscalated[r])
    BY <1>1 DEF EscalateEnds, Outcomes, Posted
  <2> QED BY <2>1, RunEnds
<1>2. CASE ~job[r].viaLimit
  <2>1. PICK step \in {"escRead", "complete", "tool"}, new \in Job :
          Goto(r, step) /\ SetJob(r, new) /\ Fits(step, new)
    BY <1>2, AfterToolFits DEF EscalateEnds
  <2>2. step \in Steps /\ step \notin Committed /\ step # "escNotify"
    BY DEF Steps, Escalating, Committed
  <2>3. TypeOK /\ CommitFirst /\ SilenceIsTransmitted BY DEF IInv
  <2>4. /\ reEscalated[r] \in BOOLEAN /\ reEscalated' = [reEscalated EXCEPT ![r] = reEscalated[r]]
        /\ outcome[r] \in Outcomes /\ outcome' = [outcome EXCEPT ![r] = outcome[r]]
        /\ transmitted \subseteq Run /\ participants \subseteq Users
        /\ escalation \in Escalation /\ clock \in 0..MaxClock
    BY <1>2, <2>3 DEF TypeOK, Outcomes, EscalateEnds
  <2>5. reEscalated[r] \/ outcome[r] = "silent" => r \in transmitted
    BY <2>3 DEF CommitFirst, SilenceIsTransmitted
  <2> QED BY <2>1, <2>2, <2>4, <2>5, RunMoves
<1> QED BY <1>1, <1>2

LEMMA EscalateNotifyKeeps == ASSUME IInv, NEW r \in Run, EscalateNotify(r) PROVE IInv'
<1>1. TypeOK /\ AddedFirst BY DEF IInv
<1>2. job[r].target \in Targets /\ job[r].loaded \in 0..MaxClock BY <1>1 DEF TypeOK, Job
<1>3. /\ Recipients(job[r].target) \subseteq Users
      /\ Recipients(job[r].target) \subseteq Admins \cup participants
  BY <1>1, <1>2, PeopleTyped DEF AddedFirst, EscalateNotify
<1>4. notices' \subseteq Notice BY <1>1, <1>2, <1>3 DEF TypeOK, EscalateNotify, Notice
<1>5. \A n \in notices' \ notices : n.user \in Admins \cup participants
  BY <1>3 DEF EscalateNotify
<1>6. EscalateEnds(r) /\ pc[r] \in Escalating BY DEF EscalateNotify, Escalating
<1> QED BY <1>4, <1>5, <1>6, EscalateEndsKeeps DEF EscalateNotify

LEMMA EscalateFailsKeeps == ASSUME IInv, NEW r \in Run, EscalateFails(r) PROVE IInv'
<1>1. notices' \subseteq Notice /\ notices' \ notices = {}
  BY DEF IInv, TypeOK, EscalateFails, convVars
<1> QED BY <1>1, EscalateEndsKeeps DEF EscalateFails, convVars

LEMMA TickKeeps == ASSUME IInv, Tick PROVE IInv'
<1>1. TypeOK /\ JobFits /\ CommitFirst /\ AddedFirst /\ SilenceIsTransmitted /\ NotifiedCanOpen
  BY DEF IInv
<1>2. TypeOK' BY <1>1 DEF TypeOK, Tick, convVars
<1>3. JobFits' /\ CommitFirst' /\ AddedFirst' /\ SilenceIsTransmitted' /\ NotifiedCanOpen'
  BY <1>1 DEF JobFits, CommitFirst, AddedFirst, SilenceIsTransmitted, NotifiedCanOpen,
              Tick, convVars
<1> QED BY <1>2, <1>3 DEF IInv

LEMMA StepIInv == IInv /\ [Next]_vars => IInv'
<1> SUFFICES ASSUME IInv, [Next]_vars PROVE IInv' OBVIOUS
<1>1. CASE UNCHANGED vars
  BY <1>1 DEF vars, convVars, IInv, TypeOK, JobFits, CommitFirst, AddedFirst,
              SilenceIsTransmitted, NotifiedCanOpen
<1>2. CASE Tick BY <1>2, TickKeeps
<1>3. ASSUME NEW r \in Run, Receive(r) \/ Continue(r) PROVE IInv'
  BY <1>3, LoopKeeps, ToolsKeep, EscalateReadKeeps, EscalateWriteKeeps, EscalateLoadKeeps,
     EscalateAddKeeps, EscalateAddedKeeps, EscalateNotifyKeeps, EscalateFailsKeeps DEF Continue
<1> QED BY <1>1, <1>2, <1>3 DEF Next

LEMMA SpecIInv == Spec => []IInv
BY InitIInv, StepIInv, PTL DEF Spec

-----------------------------------------------------------------------------
(* The theorems *)

\* Every run keeps to its rounds, its calls and its deadline, and every row of
\* the conversation has its type.
THEOREM AssistantTyped == Spec => []TypeOK
<1>1. IInv => TypeOK BY DEF IInv
<1> QED BY <1>1, SpecIInv, PTL

\* However runs overlap and wherever they fail, one that returns nothing has
\* committed its own transmission of the conversation.
THEOREM SilentOnesTransmitted == Spec => []SilenceIsTransmitted
<1>1. IInv => SilenceIsTransmitted BY DEF IInv
<1> QED BY <1>1, SpecIInv, PTL

\* Nobody of the clergy is told of a conversation that would refuse them.
THEOREM NotifiedAreInside == Spec => []NotifiedCanOpen
<1>1. IInv => NotifiedCanOpen BY DEF IInv
<1> QED BY <1>1, SpecIInv, PTL

=============================================================================
