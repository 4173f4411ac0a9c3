---------------------------- MODULE Conversation ----------------------------
(***************************************************************************)
(* One chat conversation of ChatService: the requester (the guest of the   *)
(* public bubble, or the owner of a bot-widget thread), the agents who     *)
(* answer from the panel, the assistant, and the list cache of the         *)
(* conversation row (lastMessageAt / Preview / SenderId).                  *)
(*                                                                         *)
(* Every HTTP request, with the fire-and-forget reply it may start, is an  *)
(* element of Req used at most once; pc[r] says at which await it stands,  *)
(* and one action is what the code does from one await to the next.        *)
(*                                                                         *)
(* The database is MySQL/InnoDB with its default isolation.  Inserting a   *)
(* row whose foreign key names the conversation takes a shared lock on the *)
(* conversation row, held to the end of the transaction; updating that row *)
(* needs it exclusively.  Two transactions that both inserted therefore    *)
(* block each other, and InnoDB rolls one of them back.  The statements    *)
(* outside a transaction release their locks at once.                      *)
(***************************************************************************)
EXTENDS Integers, Sequences

CONSTANTS
    Req,          \* identities of the requests, each used at most once
    Agents,       \* users who may be seated as participants (clergy, admins)
    MaxCrashes    \* how many times the process may be killed

ASSUME CrashAssumption == MaxCrashes \in Nat

VARIABLES
    mode,      \* Conversation.mode
    cached,    \* index in thread of the message the list cache describes, 0: none
    thread,    \* the message rows, in insertion (createdAt) order
    typing,    \* isTyping of the last typing event of the assistant
    seats,     \* active participant rows: <<agent, request that inserted it>>
    pc,        \* the await at which each request stands
    kind,      \* what each request is
    snap,      \* Conversation.mode as a send request read it
    row,       \* index in thread of the last message each request inserted
    agent,     \* dto.toActorId of a handoff, the clergy member of a join
    leaving,   \* the participant row a handoff closes (dto.fromActorId)
    crashes

requestVars == <<kind, snap, row, agent, leaving>>
vars == <<mode, cached, thread, typing, seats, pc, requestVars, crashes>>

Modes == {"BOT", "AGENT"}
Persons == {"REQUESTER", "AGENT"}
Senders == Persons \cup {"AI", "SYSTEM"}
Kinds == Persons \cup {"none", "handoff", "release", "join"}

\* The awaits of a reply (autoReplyIfBot) and the transactions that hold a
\* shared lock on the conversation row.
ReplySteps == {"generate", "recheck", "post", "postCache"}
\* Mutant: the send inserts and updates outside a transaction.
LockingStepsNoSendTransaction == {"handoffUpdate"}

LockingSteps == {"update", "handoffUpdate"}
Ended == {"done", "failed", "lost"}
Steps == ReplySteps \cup Ended \cup
         {"idle", "insert", "update", "trigger", "handoff", "handoffMode", "handoffInsert",
          "handoffUpdate", "release", "join", "notice", "noticeCache"}

Rows == [by : Senders, req : Req, status : {"open", "committed", "rolledBack"}]
WithStatus(t, i, st) == [t EXCEPT ![i].status = st]
Row(sender, r, status) == [by |-> sender, req |-> r, status |-> status]

NoSeat == <<>>
SharedLockers == {r \in Req : pc[r] \in LockingSteps}

\* The conversation row can be updated by r: nobody else holds it.
Updatable(r) == SharedLockers \subseteq {r}

TypeOK ==
    /\ mode \in Modes
    /\ cached \in 0..Len(thread)
    /\ thread \in Seq(Rows)
    /\ typing \in BOOLEAN
    /\ seats \subseteq Agents \X Req
    /\ pc \in [Req -> Steps]
    /\ kind \in [Req -> Kinds]
    /\ snap \in [Req -> Modes]
    /\ row \in [Req -> 0..Len(thread)]
    /\ agent \in [Req -> Agents \cup {"none"}]
    /\ leaving \in [Req -> (Agents \X Req) \cup {NoSeat}]
    /\ crashes \in 0..MaxCrashes

(* createOrOpen has opened the thread in mode BOT; the greeting is not modelled. *)
Init ==
    /\ mode = "BOT"
    /\ cached = 0
    /\ thread = <<>>
    /\ typing = FALSE
    /\ seats = {}
    /\ pc = [r \in Req |-> "idle"]
    /\ kind = [r \in Req |-> "none"]
    /\ snap = [r \in Req |-> "BOT"]
    /\ row = [r \in Req |-> 0]
    /\ agent = [r \in Req |-> "none"]
    /\ leaving = [r \in Req |-> NoSeat]
    /\ crashes = 0

Goto(r, step) == pc' = [pc EXCEPT ![r] = step]

-----------------------------------------------------------------------------
(* sendMessage, sendMessageWithFiles *)

\* getConversationOrFail: the mode the reply will be decided on is read here.
SendStart(r, who) ==
    /\ pc[r] = "idle"
    /\ kind' = [kind EXCEPT ![r] = who]
    /\ snap' = [snap EXCEPT ![r] = mode]
    /\ Goto(r, "insert")
    /\ UNCHANGED <<mode, cached, thread, typing, seats, row, agent, leaving, crashes>>

\* First statement of the transaction: the message row, with its shared lock.
SendInsert(r) ==
    /\ pc[r] = "insert"
    /\ thread' = Append(thread, Row(kind[r], r, "open"))
    /\ row' = [row EXCEPT ![r] = Len(thread) + 1]
    /\ Goto(r, "update")
    /\ UNCHANGED <<mode, cached, typing, seats, kind, snap, agent, leaving, crashes>>

\* Last statement, the list cache, and the commit.
SendCommit(r) ==
    /\ pc[r] = "update"
    /\ Updatable(r)
    /\ thread' = WithStatus(thread, row[r], "committed")
    /\ cached' = row[r]
    /\ Goto(r, "trigger")
    /\ UNCHANGED <<mode, typing, seats, requestVars, crashes>>

\* InnoDB breaks a lock cycle: the request fails, its row is rolled back.
SendVictim(r) ==
    /\ pc[r] = "update"
    /\ ~Updatable(r)
    /\ thread' = WithStatus(thread, row[r], "rolledBack")
    /\ Goto(r, "failed")
    /\ UNCHANGED <<mode, cached, typing, seats, requestVars, crashes>>

\* triggerBotReply, after the emissions: only the requester's message, and
\* only in a conversation that was in mode BOT when the send began.
ReplyDue(r) == kind[r] = "REQUESTER" /\ snap[r] = "BOT"

ReplyStart(r) ==
    /\ pc[r] = "trigger"
    /\ ReplyDue(r)
    /\ typing' = TRUE
    /\ Goto(r, "generate")
    /\ UNCHANGED <<mode, cached, thread, seats, requestVars, crashes>>

ReplyNotDue(r) ==
    /\ pc[r] = "trigger"
    /\ ~ReplyDue(r)
    /\ Goto(r, "done")
    /\ UNCHANGED <<mode, cached, thread, typing, seats, requestVars, crashes>>

\* emitConversationUpdated reads the row again, and that read fails: the message
\* is committed, its sender is told of a failure, and no reply is triggered.
SendEmitFails(r) ==
    /\ pc[r] = "trigger"
    /\ Goto(r, "failed")
    /\ UNCHANGED <<mode, cached, thread, typing, seats, requestVars, crashes>>

-----------------------------------------------------------------------------
(* autoReplyIfBot *)

\* The finally block: whatever happened, the typing indicator is retracted.
ReplyEnd(r) ==
    /\ typing' = FALSE
    /\ Goto(r, "done")

\* The engine has an answer.
ReplyGenerated(r) ==
    /\ pc[r] = "generate"
    /\ Goto(r, "recheck")
    /\ UNCHANGED <<mode, cached, thread, typing, seats, requestVars, crashes>>

\* Mutant: the early return is taken outside the try block.
ReplySilentStillTyping(r) ==
    /\ pc[r] = "generate"
    /\ Goto(r, "done")
    /\ UNCHANGED <<mode, cached, thread, typing, seats, requestVars, crashes>>

\* The engine returns null or a blank body: nothing is posted.
ReplySilent(r) ==
    /\ pc[r] = "generate"
    /\ ReplyEnd(r)
    /\ UNCHANGED <<mode, cached, thread, seats, requestVars, crashes>>

\* The mode is read again: a human may have taken over meanwhile.
ReplyAllowed(r) ==
    /\ pc[r] = "recheck"
    /\ mode = "BOT"
    /\ Goto(r, "post")
    /\ UNCHANGED <<mode, cached, thread, typing, seats, requestVars, crashes>>

ReplyWithdrawn(r) ==
    /\ pc[r] = "recheck"
    /\ mode # "BOT"
    /\ ReplyEnd(r)
    /\ UNCHANGED <<mode, cached, thread, seats, requestVars, crashes>>

\* postMessage, first statement: no transaction, the row is committed at once.
ReplyPost(r) ==
    /\ pc[r] = "post"
    /\ thread' = Append(thread, Row("AI", r, "committed"))
    /\ row' = [row EXCEPT ![r] = Len(thread) + 1]
    /\ Goto(r, "postCache")
    /\ UNCHANGED <<mode, cached, typing, seats, kind, snap, agent, leaving, crashes>>

\* Mutant: the cache is set to the message after the one posted.
ReplyCacheOffByOne(r) ==
    /\ pc[r] = "postCache"
    /\ Updatable(r)
    /\ cached' = row[r] + 1
    /\ ReplyEnd(r)
    /\ UNCHANGED <<mode, thread, seats, requestVars, crashes>>

\* postMessage, second statement: the list cache, when the row is free.
ReplyCache(r) ==
    /\ pc[r] = "postCache"
    /\ Updatable(r)
    /\ cached' = row[r]
    /\ ReplyEnd(r)
    /\ UNCHANGED <<mode, thread, seats, requestVars, crashes>>

\* A statement of the reply fails: logged by triggerBotReply, nothing undone.
ReplyFails(r) ==
    /\ pc[r] \in ReplySteps \ {"generate"}
    /\ ReplyEnd(r)
    /\ UNCHANGED <<mode, cached, thread, seats, requestVars, crashes>>

-----------------------------------------------------------------------------
(* handoff, releaseToBot, and the system notice both post afterwards *)

\* dto.fromActorId, when given, must be an active participant (404 if not).
HandoffStart(r, a, seat) ==
    /\ pc[r] = "idle"
    /\ kind' = [kind EXCEPT ![r] = "handoff"]
    /\ agent' = [agent EXCEPT ![r] = a]
    /\ leaving' = [leaving EXCEPT ![r] = seat]
    /\ Goto(r, "handoff")
    /\ UNCHANGED <<mode, cached, thread, typing, seats, snap, row, crashes>>

Seated(a, closed) == \E q \in Req : <<a, q>> \in seats \ {closed}

\* The leaving row is closed first, and stays locked to the commit.
SeatUnlocked(r) ==
    \/ leaving[r] = NoSeat
    \/ \A q \in Req : pc[q] \in {"handoffMode", "handoffInsert", "handoffUpdate"} =>
                       leaving[q] # leaving[r]

\* The transaction closes the leaving row, then looks for an active row of the
\* agent: a plain read, which takes no lock and sees nothing of the open work of
\* others.  The lock on the leaving row only keeps others from closing that row,
\* so waiting for it, taking it and the read are one step.
HandoffFind(r) ==
    /\ pc[r] = "handoff"
    /\ SeatUnlocked(r)
    /\ \/ Seated(agent[r], leaving[r]) /\ Goto(r, "handoffMode")
       \/ ~Seated(agent[r], leaving[r]) /\ Goto(r, "handoffInsert")
    /\ UNCHANGED <<mode, cached, thread, typing, seats, requestVars, crashes>>

\* None found: the row is inserted, whatever was committed since, and takes the
\* shared lock on the conversation.
HandoffInsert(r) ==
    /\ pc[r] = "handoffInsert"
    /\ Goto(r, "handoffUpdate")
    /\ UNCHANGED <<mode, cached, thread, typing, seats, requestVars, crashes>>

\* Already a participant: its row is kept, only the mode is set.
HandoffKeep(r) ==
    /\ pc[r] = "handoffMode"
    /\ Updatable(r)
    /\ seats' = seats \ {leaving[r]}
    /\ mode' = "AGENT"
    /\ Goto(r, "notice")
    /\ UNCHANGED <<cached, thread, typing, requestVars, crashes>>

\* Its row was inserted: the mode, and the commit, which shows the row to others.
HandoffCommit(r) ==
    /\ pc[r] = "handoffUpdate"
    /\ Updatable(r)
    /\ seats' = (seats \ {leaving[r]}) \cup {<<agent[r], r>>}
    /\ mode' = "AGENT"
    /\ Goto(r, "notice")
    /\ UNCHANGED <<cached, thread, typing, requestVars, crashes>>

\* Mutant: a handoff rolled back by the lock cycle is tried again, for ever.
HandoffVictimRetried(r) ==
    /\ pc[r] = "handoffUpdate"
    /\ ~Updatable(r)
    /\ Goto(r, "handoff")
    /\ UNCHANGED <<mode, cached, thread, typing, seats, requestVars, crashes>>

HandoffVictim(r) ==
    /\ pc[r] = "handoffUpdate"
    /\ ~Updatable(r)
    /\ Goto(r, "failed")
    /\ UNCHANGED <<mode, cached, thread, typing, seats, requestVars, crashes>>

\* Returns without a change when the mode read is already BOT.
ReleaseStart(r) ==
    /\ pc[r] = "idle"
    /\ mode # "BOT"
    /\ kind' = [kind EXCEPT ![r] = "release"]
    /\ Goto(r, "release")
    /\ UNCHANGED <<mode, cached, thread, typing, seats, snap, row, agent, leaving, crashes>>

ReleaseUpdate(r) ==
    /\ pc[r] = "release"
    /\ Updatable(r)
    /\ mode' = "BOT"
    /\ Goto(r, "notice")
    /\ UNCHANGED <<cached, thread, typing, seats, requestVars, crashes>>

NoticePost(r) ==
    /\ pc[r] = "notice"
    /\ thread' = Append(thread, Row("SYSTEM", r, "committed"))
    /\ row' = [row EXCEPT ![r] = Len(thread) + 1]
    /\ Goto(r, "noticeCache")
    /\ UNCHANGED <<mode, cached, typing, seats, kind, snap, agent, leaving, crashes>>

NoticeCache(r) ==
    /\ pc[r] = "noticeCache"
    /\ Updatable(r)
    /\ cached' = row[r]
    /\ Goto(r, "done")
    /\ UNCHANGED <<mode, thread, typing, seats, requestVars, crashes>>

\* A statement of postMessage fails once it is its turn: the mode has changed,
\* the request fails, and the notice is missing or not in the list cache.
NoticeFails(r) ==
    /\ pc[r] \in {"notice", "noticeCache"}
    /\ pc[r] = "noticeCache" => Updatable(r)
    /\ Goto(r, "failed")
    /\ UNCHANGED <<mode, cached, thread, typing, seats, requestVars, crashes>>

-----------------------------------------------------------------------------
(* addParticipant (ensureParticipant): find the active row, then insert *)

JoinStart(r, a) ==
    /\ pc[r] = "idle"
    /\ ~Seated(a, NoSeat)
    /\ kind' = [kind EXCEPT ![r] = "join"]
    /\ agent' = [agent EXCEPT ![r] = a]
    /\ Goto(r, "join")
    /\ UNCHANGED <<mode, cached, thread, typing, seats, snap, row, leaving, crashes>>

JoinSave(r) ==
    /\ pc[r] = "join"
    /\ seats' = seats \cup {<<agent[r], r>>}
    /\ Goto(r, "done")
    /\ UNCHANGED <<mode, cached, thread, typing, requestVars, crashes>>

-----------------------------------------------------------------------------
\* The process is killed: what runs is lost, open transactions roll back, and
\* no typing event is emitted any more.
Crash ==
    /\ crashes < MaxCrashes
    /\ crashes' = crashes + 1
    /\ pc' = [r \in Req |-> IF pc[r] \in {"idle"} \cup Ended THEN pc[r] ELSE "lost"]
    /\ thread' = [i \in 1..Len(thread) |->
                    IF thread[i].status = "open"
                    THEN [thread[i] EXCEPT !.status = "rolledBack"]
                    ELSE thread[i]]
    /\ UNCHANGED <<mode, cached, typing, seats, requestVars>>

\* A client sends a request.
Arrive(r) ==
    \/ \E who \in Persons : SendStart(r, who)
    \/ \E a \in Agents, seat \in seats \cup {NoSeat} : HandoffStart(r, a, seat)
    \/ ReleaseStart(r)
    \/ \E a \in Agents : JoinStart(r, a)

\* The server continues a request it has accepted.
Continue(r) ==
    \/ SendInsert(r) \/ SendCommit(r) \/ SendVictim(r) \/ SendEmitFails(r)
    \/ ReplyStart(r) \/ ReplyNotDue(r) \/ ReplyGenerated(r) \/ ReplySilent(r)
    \/ ReplyAllowed(r) \/ ReplyWithdrawn(r) \/ ReplyPost(r) \/ ReplyCache(r) \/ ReplyFails(r)
    \/ HandoffFind(r) \/ HandoffKeep(r) \/ HandoffInsert(r) \/ HandoffCommit(r)
    \/ HandoffVictim(r)
    \/ ReleaseUpdate(r) \/ NoticePost(r) \/ NoticeCache(r) \/ NoticeFails(r)
    \/ JoinSave(r)

Next ==
    \/ \E r \in Req : Arrive(r) \/ Continue(r)
    \/ Crash

Spec == Init /\ [][Next]_vars

\* The server, not its users, is fair: a request accepted keeps being run.
Fairness == \A r \in Req : WF_vars(Continue(r))
FairSpec == Spec /\ Fairness

-----------------------------------------------------------------------------
(* Safety *)

CommittedByPerson(j) == thread[j].by \in Persons /\ thread[j].status = "committed"

\* The message the list shows is never a person's message older than another
\* person's committed message: the transaction of a send keeps them in order,
\* however many sends run at once.  (Posts of the bot and notices give no such
\* guarantee: they insert and update in two separate statements.)
PersonMessagesCachedInOrder ==
    cached > 0 /\ thread[cached].by \in Persons =>
        \A j \in cached + 1 .. Len(thread) : ~CommittedByPerson(j)

\* What a request has filled in by the time it stands at a step.
RequestShape ==
    \A r \in Req :
        /\ pc[r] = "insert" => kind[r] \in Persons
        /\ pc[r] \in {"handoff", "handoffMode", "handoffInsert", "handoffUpdate", "join"} =>
              agent[r] \in Agents
        /\ pc[r] \in {"update", "postCache", "noticeCache"} => row[r] \in 1..Len(thread)
        /\ pc[r] = "postCache" => thread[row[r]].by = "AI"
        /\ pc[r] = "noticeCache" => thread[row[r]].by = "SYSTEM"

\* The inductive invariant behind PersonMessagesCachedInOrder: while a send
\* holds its shared lock no person's message inserted after its own commits.
OpenRowsNotOvertaken ==
    \A r \in Req : pc[r] = "update" =>
        \A j \in row[r] + 1 .. Len(thread) : ~CommittedByPerson(j)

OrderInv == RequestShape /\ OpenRowsNotOvertaken /\ PersonMessagesCachedInOrder

\* The assistant is never left typing: as long as the process was not killed,
\* the indicator is on only while some reply is being prepared or posted.
TypingHasAReply ==
    typing => crashes > 0 \/ \E r \in Req : pc[r] \in ReplySteps

-----------------------------------------------------------------------------
(* Liveness *)

\* Every request accepted ends: a cycle of locks is always broken, nobody waits
\* for the conversation row for ever.
EveryRequestEnds ==
    \A r \in Req : pc[r] # "idle" ~> pc[r] \in Ended

=============================================================================
