------------------------------ MODULE Assistant ------------------------------
(***************************************************************************)
(* The assistant of the chat (LlmChatBotService.reply and the tool         *)
(* escalate_to_agent) over one conversation: every message of the          *)
(* faithful starts a run, runs overlap, and a run alternates calls of the  *)
(* language model with the tools it asks for.                              *)
(*                                                                         *)
(* The model is external: it may answer, ask for any tools, or fail.  All  *)
(* tools but the escalation only read; they are one action.  Posting the   *)
(* answer of a run is the business of Conversation (autoReplyIfBot).       *)
(* Time is counted in units of MIN_RETRY_BUDGET_MS; `left` is the time to  *)
(* the deadline of the run, 0 once it is past.                             *)
(***************************************************************************)
EXTENDS Integers

CONSTANTS
    Run,          \* identities of the runs, each used at most once
    Churches, Users,
    Clergy,       \* church -> its active clergy
    Admins,
    NoChurch,     \* escalation to the Amisache team, NoRun: not escalated yet
    NoRun,
    MaxRounds,    \* MAX_TOOL_ROUNDS
    MaxCalls,     \* bound: tool calls the model asks for in one message
    TotalTime, CallTime,  \* TOTAL_TIMEOUT_MS, CALL_TIMEOUT_MS
    MaxClock      \* bound: seconds the clock counts

ASSUME AssistantAssumption ==
    /\ Clergy \in [Churches -> SUBSET Users] /\ Admins \subseteq Users
    /\ NoChurch \notin Churches /\ NoRun \notin Run
    /\ {MaxRounds, MaxCalls, TotalTime, CallTime} \subseteq Nat \ {0}
    /\ MaxClock \in Nat

VARIABLES
    pc,
    job,           \* the local variables of each run (see Job)
    reEscalated,   \* run.reEscalated
    outcome,       \* what reply() returned
    escalation,    \* escalatedAt of the conversation, and the run that wrote it
    transmitted,   \* runs whose update of the conversation was committed
    participants,  \* clergy added to the conversation
    notices,       \* notification rows
    clock          \* seconds, the precision of escalated_at

convVars == <<escalation, transmitted, participants, notices>>
vars == <<pc, job, reEscalated, outcome, convVars, clock>>

Targets == Churches \cup {NoChurch}
Escalation == [by : Run \cup {NoRun}, at : 0..MaxClock]
\* What a run holds: its rounds so far, the tool calls left in the round, the
\* time left; of the escalation in progress, whether it is that of the loop
\* limit, its church, existing.escalatedAt and that of the conversation reloaded.
Job == [round : 0..MaxRounds, calls : 0..MaxCalls, left : 0..TotalTime, viaLimit : BOOLEAN,
        target : Targets, before : BOOLEAN, loaded : 0..MaxClock]
\* A row; its deduplication key is the user and the second of the escalation.
Notice == [user : Users, church : Targets, at : 0..MaxClock]
Escalating == {"escRead", "escWrite", "escLoad", "escAdd", "escNotify"}
Steps == Escalating \cup {"idle", "history", "complete", "retry", "tool", "fallback", "done"}
Posted == {"reply", "limit", "fallback"}

TypeOK ==
    /\ pc \in [Run -> Steps]
    /\ job \in [Run -> Job]
    /\ reEscalated \in [Run -> BOOLEAN]
    /\ outcome \in [Run -> Posted \cup {"none", "silent", "error"}]
    /\ escalation \in Escalation
    /\ transmitted \subseteq Run
    /\ participants \subseteq Users
    /\ notices \subseteq Notice
    /\ clock \in 0..MaxClock

NotEscalated == [by |-> NoRun, at |-> 0]
NewJob == [round |-> 0, calls |-> 0, left |-> TotalTime, viaLimit |-> FALSE,
           target |-> NoChurch, before |-> FALSE, loaded |-> 0]

Init ==
    /\ pc = [r \in Run |-> "idle"]
    /\ job = [r \in Run |-> NewJob]
    /\ reEscalated = [r \in Run |-> FALSE]
    /\ outcome = [r \in Run |-> "none"]
    /\ escalation = NotEscalated
    /\ transmitted = {}
    /\ participants = {}
    /\ notices = {}
    /\ clock = 0

Goto(r, step) == pc' = [pc EXCEPT ![r] = step]
SetJob(r, new) == job' = [job EXCEPT ![r] = new]

\* reply() returns: its local variables are gone.
End(r, result) ==
    /\ Goto(r, "done")
    /\ outcome' = [outcome EXCEPT ![r] = result]
    /\ SetJob(r, NewJob)

-----------------------------------------------------------------------------
(* reply: the history, then the rounds *)

\* sendMessage has committed the message; ChatService starts the reply.
Receive(r) ==
    /\ pc[r] = "idle"
    /\ Goto(r, "history")
    /\ UNCHANGED <<job, reEscalated, outcome, convVars, clock>>

\* buildMessages: the church and the last messages are read, in any time.
LoadHistory(r) ==
    /\ pc[r] = "history"
    /\ \E l \in 0..job[r].left : SetJob(r, [job[r] EXCEPT !.left = l])
    /\ Goto(r, "complete")
    /\ UNCHANGED <<reEscalated, outcome, convVars, clock>>

LoadHistoryFails(r) ==
    /\ pc[r] = "history"
    /\ Goto(r, "fallback")
    /\ UNCHANGED <<job, reEscalated, outcome, convVars, clock>>

\* A call ends before its timeout: the lesser of CallTime and what is left.
AfterCall(r) ==
    {[job[r] EXCEPT !.left = @ - d] : d \in {d \in 0..CallTime : d <= job[r].left}}

Calling(r) == pc[r] \in {"complete", "retry"} /\ job[r].left > 0

CompleteWithTools(r) ==
    /\ Calling(r)
    /\ \E j \in AfterCall(r), n \in 1..MaxCalls : SetJob(r, [j EXCEPT !.calls = n])
    /\ Goto(r, "tool")
    /\ UNCHANGED <<reEscalated, outcome, convVars, clock>>

\* No tool call: the text is the answer, kept back after a second escalation.
CompleteWithText(r) ==
    /\ Calling(r)
    /\ End(r, IF reEscalated[r] THEN "silent" ELSE "reply")
    /\ UNCHANGED <<reEscalated, convVars, clock>>

\* One more attempt when at least one unit is left after the first.
CallFails(r) ==
    /\ Calling(r)
    /\ \E j \in AfterCall(r) :
          /\ SetJob(r, j)
          /\ Goto(r, IF pc[r] = "complete" /\ j.left >= 1 THEN "retry" ELSE "fallback")
    /\ UNCHANGED <<reEscalated, outcome, convVars, clock>>

\* The deadline is past when the attempt would start.
CallTooLate(r) ==
    /\ pc[r] \in {"complete", "retry"}
    /\ job[r].left = 0
    /\ Goto(r, "fallback")
    /\ UNCHANGED <<job, reEscalated, outcome, convVars, clock>>

\* Keyword search instead of the model; it may fail too.
Fallback(r) ==
    /\ pc[r] = "fallback"
    /\ \E result \in {"fallback", "error"} : End(r, result)
    /\ UNCHANGED <<reEscalated, convVars, clock>>

-----------------------------------------------------------------------------
(* The tools of a round, one after the other *)

\* Mutant: the rounds are not counted from one to the next.
AfterToolUncounted(r) ==
    LET last == job[r].calls = 1
    IN  /\ \E l \in 0..job[r].left :
              SetJob(r, [NewJob EXCEPT !.left = l, !.calls = job[r].calls - 1,
                                       !.round = job[r].round])
        /\ Goto(r, IF last THEN "complete" ELSE "tool")

\* Mutant: the limit is looked at one round too late.
AfterToolLate(r) ==
    LET last == job[r].calls = 1
        limit == last /\ job[r].round = MaxRounds
    IN  /\ \E l \in 0..job[r].left :
              SetJob(r, [NewJob EXCEPT !.left = l, !.calls = job[r].calls - 1, !.viaLimit = limit,
                                       !.round = IF last THEN job[r].round + 1 ELSE job[r].round])
        /\ Goto(r, IF limit THEN "escRead" ELSE IF last THEN "complete" ELSE "tool")

\* A tool is over, well or not, after any time: the next tool of the round, the
\* next round, or, at the limit, an escalation.
AfterTool(r) ==
    LET last == job[r].calls = 1
        rounds == job[r].round + 1
        limit == last /\ rounds = MaxRounds
    IN  /\ \E l \in 0..job[r].left :
              SetJob(r, [NewJob EXCEPT !.left = l, !.calls = job[r].calls - 1, !.viaLimit = limit,
                                       !.round = IF last THEN rounds ELSE rounds - 1])
        /\ Goto(r, IF limit THEN "escRead" ELSE IF last THEN "complete" ELSE "tool")

OtherTool(r) ==
    /\ pc[r] = "tool"
    /\ AfterTool(r)
    /\ UNCHANGED <<reEscalated, outcome, convVars, clock>>

\* escalate_to_agent, addressed to a church, or to the team.
EscalateTool(r) ==
    /\ pc[r] = "tool"
    /\ \E c \in Targets : SetJob(r, [job[r] EXCEPT !.target = c])
    /\ Goto(r, "escRead")
    /\ UNCHANGED <<reEscalated, outcome, convVars, clock>>

-----------------------------------------------------------------------------
(* escalate: AssistantToolsService, then ChatService, then the notifier *)

Escalated == escalation.by # NoRun

\* Mutant: the answer is held back as soon as the first read.
EscalateReadMarks(r) ==
    /\ pc[r] = "escRead"
    /\ SetJob(r, [job[r] EXCEPT !.before = Escalated])
    /\ reEscalated' = [reEscalated EXCEPT ![r] = @ \/ Escalated]
    /\ Goto(r, "escWrite")
    /\ UNCHANGED <<outcome, convVars, clock>>

EscalateRead(r) ==
    /\ pc[r] = "escRead"
    /\ SetJob(r, [job[r] EXCEPT !.before = Escalated])
    /\ Goto(r, "escWrite")
    /\ UNCHANGED <<reEscalated, outcome, convVars, clock>>

EscalateWrite(r) ==
    /\ pc[r] = "escWrite"
    /\ escalation' = [by |-> r, at |-> clock]
    /\ transmitted' = transmitted \cup {r}
    /\ Goto(r, "escLoad")
    /\ UNCHANGED <<job, reEscalated, outcome, participants, notices, clock>>

\* Mutant: the clergy is told before it is added to the thread.
EscalateLoadNotifies(r) ==
    /\ pc[r] = "escLoad"
    /\ SetJob(r, [job[r] EXCEPT !.loaded = escalation.at])
    /\ reEscalated' = [reEscalated EXCEPT ![r] = @ \/ job[r].before]
    /\ Goto(r, "escNotify")
    /\ UNCHANGED <<outcome, convVars, clock>>

\* The conversation read again: the escalation of another run may be there.
EscalateLoad(r) ==
    /\ pc[r] = "escLoad"
    /\ SetJob(r, [job[r] EXCEPT !.loaded = escalation.at])
    /\ reEscalated' = [reEscalated EXCEPT ![r] = @ \/ job[r].before]
    /\ Goto(r, "escAdd")
    /\ UNCHANGED <<outcome, convVars, clock>>

ClergyOf(c) == IF c = NoChurch THEN {} ELSE Clergy[c]
Recipients(c) == IF ClergyOf(c) # {} THEN ClergyOf(c) ELSE Admins

EscalateAdd(r) ==
    /\ pc[r] = "escAdd"
    /\ \E k \in ClergyOf(job[r].target) \ participants : participants' = participants \cup {k}
    /\ UNCHANGED <<pc, job, reEscalated, outcome, escalation, transmitted, notices, clock>>

EscalateAdded(r) ==
    /\ pc[r] = "escAdd"
    /\ ClergyOf(job[r].target) \subseteq participants
    /\ Goto(r, "escNotify")
    /\ UNCHANGED <<job, reEscalated, outcome, convVars, clock>>

\* The escalation is over, well or not: the loop goes on, or gave up.
EscalateEnds(r) ==
    \/ job[r].viaLimit /\ End(r, IF reEscalated[r] THEN "silent" ELSE "limit")
    \/ ~job[r].viaLimit /\ AfterTool(r) /\ UNCHANGED outcome

\* One row per recipient; a row with the same deduplication key is ignored.
EscalateNotify(r) ==
    /\ pc[r] = "escNotify"
    /\ LET new == [user : Recipients(job[r].target), church : {job[r].target}, at : {job[r].loaded}]
       IN  notices' = notices \cup {n \in new : \A m \in notices : m.at # n.at \/ m.user # n.user}
    /\ EscalateEnds(r)
    /\ UNCHANGED <<reEscalated, escalation, transmitted, participants, clock>>

\* A statement of the escalation fails; what is already written stays.
EscalateFails(r) ==
    /\ pc[r] \in Escalating \ {"escNotify"}
    /\ EscalateEnds(r)
    /\ UNCHANGED <<reEscalated, convVars, clock>>

Tick ==
    /\ clock < MaxClock
    /\ clock' = clock + 1
    /\ UNCHANGED <<pc, job, reEscalated, outcome, convVars>>

Continue(r) ==
    \/ LoadHistory(r) \/ LoadHistoryFails(r)
    \/ CompleteWithTools(r) \/ CompleteWithText(r) \/ CallFails(r) \/ CallTooLate(r)
    \/ Fallback(r) \/ OtherTool(r) \/ EscalateTool(r)
    \/ EscalateRead(r) \/ EscalateWrite(r) \/ EscalateLoad(r)
    \/ EscalateAdd(r) \/ EscalateAdded(r) \/ EscalateNotify(r) \/ EscalateFails(r)

Next ==
    \/ \E r \in Run : Receive(r) \/ Continue(r)
    \/ Tick

Spec == Init /\ [][Next]_vars

\* Every call of the model has a timeout, every query an answer or an error.
FairSpec == Spec /\ \A r \in Run : WF_vars(Continue(r))

-----------------------------------------------------------------------------
(* Properties *)

\* A run that keeps silent has left the question with a human: its own update
\* of the conversation was committed before it gave up answering.
SilenceIsTransmitted ==
    \A r \in Run : outcome[r] = "silent" => r \in transmitted

\* Whoever of the clergy is notified of an escalation can open the thread.
NotifiedCanOpen ==
    \A n \in notices : n.user \in Admins \cup participants

\* Every run ends, with an answer or without: the rounds, the retries and the
\* deadline bound it whatever the model does.
EveryRunEnds == <>[](\A r \in Run : pc[r] \in {"idle", "done"})

=============================================================================
