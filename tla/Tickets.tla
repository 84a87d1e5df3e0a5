------------------------------ MODULE Tickets ------------------------------
(***************************************************************************)
(* Support tickets (tickets/) and the Celery task that closes the ones     *)
(* whose customer has stopped answering (tasks/ticket_tasks.py), as API    *)
(* workers and several copies of the task run them against one Postgres    *)
(* database at READ COMMITTED.  Nothing here takes a row lock before it    *)
(* reads: a handler writes from the row it has loaded, the task relies on  *)
(* the WHERE clause of its UPDATE.                                         *)
(*                                                                         *)
(* The clock is abstracted to one question per ticket, whether STALE_AFTER *)
(* has passed.  reopened, silent and the field touched are history: no     *)
(* handler reads them.                                                     *)
(*                                                                         *)
(* Definitions marked FAULT are not part of the model: each is a plausible *)
(* mistake in the definition after it, used to see the properties fail.    *)
(***************************************************************************)
EXTENDS Naturals, FiniteSets

CONSTANTS
  Workers,      \* API requests served at the same time
  Tasks,        \* Celery processes that may run the task at the same time
  TicketIds,    \* tickets that can be created
  BATCH_SIZE,   \* LIMIT of the task's query
  MaxRequests,  \* replies and status changes in one behaviour (a bound)
  MaxFaults,    \* crashes in one behaviour (a bound)
  None          \* Python's None

ASSUME BatchAssumption == BATCH_SIZE \in Nat \ {0}
ASSUME TicketBounds == MaxRequests \in Nat /\ MaxFaults \in Nat
ASSUME TicketNone == None \notin TicketIds

VARIABLES
  tickets,          \* committed rows of tickets
  ticket_messages,  \* messages of each ticket, counted by author_role
  audit_logs,       \* rows ticket.auto_closed of each ticket
  sess,             \* what the API workers' sessions have loaded
  task,             \* what the task's processes have selected
  silent,           \* STALE_AFTER has passed since the customer last wrote
  reopened,         \* how often each ticket left the status closed
  requests, faults  \* counted against the bounds

vars == <<tickets, ticket_messages, audit_logs, sess, task, silent, reopened, requests, faults>>

-----------------------------------------------------------------------------
(* Types.                                                                  *)

TicketStatuses == {"open", "waiting_for_support", "waiting_for_customer", "closed"}
Authors == {"customer", "support", "system"}

\* stale: last_response_at < now - STALE_AFTER; closed_at: it is not NULL.
\* status "none": there is no such row.
Rows == [status : TicketStatuses \cup {"none"}, closed_at : BOOLEAN, stale : BOOLEAN]
NoRow == [status |-> "none", closed_at |-> FALSE, stale |-> FALSE]

\* What a request is about to write, and the status it has loaded.
Sessions ==
  [pc : {"idle", "customer", "support", "change"}, ticket : TicketIds \cup {None},
   loaded : TicketStatuses \cup {"none"}, new : TicketStatuses]
Idle == [pc |-> "idle", ticket |-> None, loaded |-> "none", new |-> "open"]

\* candidates: ids the query returned and the loop has not reached;
\* touched: tickets whose row others have written since the query.
Runs == [candidates : SUBSET TicketIds, touched : SUBSET TicketIds]
NoRun == [candidates |-> {}, touched |-> {}]

\* One type invariant; a request works on a ticket that exists.
TicketsTypeOK ==
  /\ tickets \in [TicketIds -> Rows]
  /\ ticket_messages \in [TicketIds -> [Authors -> Nat]]
  /\ audit_logs \in [TicketIds -> Nat]
  /\ sess \in [Workers -> Sessions]
  /\ \A w \in Workers :
       sess[w].pc # "idle" => /\ sess[w].ticket \in TicketIds
                              /\ tickets[sess[w].ticket].status # "none"
  /\ task \in [Tasks -> Runs]
  /\ silent \in [TicketIds -> BOOLEAN]
  /\ reopened \in [TicketIds -> Nat]
  /\ requests \in Nat
  /\ faults \in Nat

Init ==
  /\ tickets = [t \in TicketIds |-> NoRow]
  /\ ticket_messages = [t \in TicketIds |-> [a \in Authors |-> 0]]
  /\ audit_logs = [t \in TicketIds |-> 0]
  /\ sess = [w \in Workers |-> Idle]
  /\ task = [c \in Tasks |-> NoRun]
  /\ silent = [t \in TicketIds |-> FALSE]
  /\ reopened = [t \in TicketIds |-> 0]
  /\ requests = 0
  /\ faults = 0

-----------------------------------------------------------------------------
(* Writing a ticket.                                                       *)

\* SQLAlchemy leaves an attribute out of the UPDATE when the value assigned
\* is the one loaded: the committed value then stays, whatever it is by now.
Assigned(loaded, new, committed) == IF new = loaded THEN committed ELSE new

\* The commit of a new row for t, by API worker or task alike.
Commit(t, row) ==
  /\ tickets' = [tickets EXCEPT ![t] = row]
  /\ reopened' = [reopened EXCEPT ![t] =
       IF tickets[t].status = "closed" /\ row.status # "closed" THEN @ + 1 ELSE @]

\* A running copy of the task selected its candidates before this commit.
Noted(c, t) ==
  IF task[c].candidates = {} THEN task[c] ELSE [task[c] EXCEPT !.touched = @ \cup {t}]
Touch(t) == task' = [c \in Tasks |-> Noted(c, t)]

AddMessage(t, author) ==
  ticket_messages' = [ticket_messages EXCEPT ![t][author] = @ + 1]

Start(w, pc, t, new) ==
  /\ sess[w].pc = "idle"
  /\ requests < MaxRequests
  /\ requests' = requests + 1
  /\ sess' = [sess EXCEPT ![w] =
       [pc |-> pc, ticket |-> t, loaded |-> tickets[t].status, new |-> new]]

End(w) == sess' = [sess EXCEPT ![w] = Idle]

-----------------------------------------------------------------------------
(* The customer and the support team.                                      *)

\* create: the ticket with its first message, in one transaction.
CreateTicket(w, t) ==
  /\ sess[w].pc = "idle"
  /\ tickets[t].status = "none"
  /\ Commit(t, [status |-> "waiting_for_support", closed_at |-> FALSE, stale |-> FALSE])
  /\ AddMessage(t, "customer")
  /\ silent' = [silent EXCEPT ![t] = FALSE]
  /\ UNCHANGED <<audit_logs, sess, task, requests, faults>>

\* FAULT: a missing ticket is not noticed.
ReplyableMissing(t) == tickets[t].status # "closed"

\* NotFoundError for a missing ticket, ConflictError for a closed one.
Replyable(t) == tickets[t].status \notin {"none", "closed"}

\* add_customer_reply, by the owner only, and add_support_reply.
Reply(w, t, author) ==
  /\ Replyable(t)
  /\ Start(w, author, t, IF author = "customer" THEN "waiting_for_support"
                                                ELSE "waiting_for_customer")
  /\ UNCHANGED <<tickets, ticket_messages, audit_logs, task, silent, reopened, faults>>

\* FAULT: a ticket found closed at the commit stays closed.
ReplyStatusUnlessClosed(w) ==
  LET committed == tickets[sess[w].ticket].status
  IN  IF committed = "closed" THEN "closed" ELSE Assigned(sess[w].loaded, sess[w].new, committed)

ReplyStatus(w) == Assigned(sess[w].loaded, sess[w].new, tickets[sess[w].ticket].status)

\* The message, the status and last_response_at are flushed by the commit.
CommitReply(w) ==
  LET t == sess[w].ticket
  IN  /\ sess[w].pc \in {"customer", "support"}
      /\ Commit(t, [tickets[t] EXCEPT !.status = ReplyStatus(w), !.stale = FALSE])
      /\ AddMessage(t, sess[w].pc)
      /\ silent' = [silent EXCEPT ![t] = @ /\ sess[w].pc # "customer"]
      /\ Touch(t)
      /\ End(w)
      /\ UNCHANGED <<audit_logs, requests, faults>>

\* change_status accepts any status and checks no move.
ChangeStatus(w, t, new) ==
  /\ tickets[t].status # "none"
  /\ Start(w, "change", t, new)
  /\ UNCHANGED <<tickets, ticket_messages, audit_logs, task, silent, reopened, faults>>

\* closed_at is set when the new status is closed and never cleared.
CommitChange(w) ==
  LET t == sess[w].ticket
      s == sess[w]
  IN  /\ s.pc = "change"
      /\ Commit(t, [tickets[t] EXCEPT
                      !.status = Assigned(s.loaded, s.new, tickets[t].status),
                      !.closed_at = @ \/ s.new = "closed"])
      /\ Touch(t)
      /\ End(w)
      /\ UNCHANGED <<ticket_messages, audit_logs, silent, requests, faults>>

-----------------------------------------------------------------------------
(* The task auto_close_stale_tickets.                                      *)

\* FAULT: the query forgets last_response_at.
CandidateAnyAge(t) == tickets[t].status = "waiting_for_customer"

\* FAULT: the query leaves out tickets that were closed before.
CandidateNeverClosed(t) ==
  tickets[t].status = "waiting_for_customer" /\ tickets[t].stale /\ ~tickets[t].closed_at

Candidate(t) == tickets[t].status = "waiting_for_customer" /\ tickets[t].stale

\* Beat starts the task every ten minutes; a run that selects no ticket does
\* nothing.  The query has a LIMIT and no ORDER BY.
SelectCandidates(c) ==
  /\ task[c].candidates = {}
  /\ \E batch \in SUBSET {t \in TicketIds : Candidate(t)} :
       /\ batch # {}
       /\ Cardinality(batch) <= BATCH_SIZE
       /\ Cardinality(batch) < BATCH_SIZE => batch = {t \in TicketIds : Candidate(t)}
       /\ task' = [task EXCEPT ![c] = [candidates |-> batch, touched |-> {}]]
  /\ UNCHANGED <<tickets, ticket_messages, audit_logs, sess, silent, reopened, requests, faults>>

\* The loop moves on to its next candidate, or ends.
Advance(c, t) ==
  IF task[c].candidates = {t} THEN NoRun ELSE [task[c] EXCEPT !.candidates = @ \ {t}]

\* FAULT: the UPDATE is not conditional.
StillWaitingUnguarded(t) == TRUE

\* WHERE id = ... AND status = 'waiting_for_customer'.
StillWaiting(t) == tickets[t].status = "waiting_for_customer"

\* The UPDATE matched: the ticket, the note and the audit row are committed
\* together, before the next candidate.
AutoClose(c, t) ==
  /\ t \in task[c].candidates
  /\ StillWaiting(t)
  /\ Commit(t, [tickets[t] EXCEPT !.status = "closed", !.closed_at = TRUE])
  /\ AddMessage(t, "system")
  /\ audit_logs' = [audit_logs EXCEPT ![t] = @ + 1]
  /\ task' = [d \in Tasks |-> IF d = c THEN Advance(c, t) ELSE Noted(d, t)]
  /\ UNCHANGED <<sess, silent, requests, faults>>

\* rowcount is 0: the ticket is skipped.
SkipCandidate(c, t) ==
  /\ t \in task[c].candidates
  /\ ~StillWaiting(t)
  /\ task' = [task EXCEPT ![c] = Advance(c, t)]
  /\ UNCHANGED <<tickets, ticket_messages, audit_logs, sess, silent, reopened, requests, faults>>

-----------------------------------------------------------------------------
(* Time and failures.                                                      *)

\* STALE_AFTER passes without a response to t.  No request and no run of the
\* task takes a day.
InFlight(t) ==
  \/ \E w \in Workers : sess[w].ticket = t
  \/ \E c \in Tasks : t \in task[c].candidates \cup task[c].touched

DayPasses(t) ==
  /\ tickets[t].status # "none"
  /\ ~InFlight(t)
  /\ ~(tickets[t].stale /\ silent[t])
  /\ tickets' = [tickets EXCEPT ![t].stale = TRUE]
  /\ silent' = [silent EXCEPT ![t] = TRUE]
  /\ UNCHANGED <<ticket_messages, audit_logs, sess, task, reopened, requests, faults>>

\* A request is rolled back by a lost connection or a killed process.
FailRequest(w) ==
  /\ sess[w].pc # "idle"
  /\ faults < MaxFaults
  /\ faults' = faults + 1
  /\ End(w)
  /\ UNCHANGED <<tickets, ticket_messages, audit_logs, task, silent, reopened, requests>>

\* The task dies between two candidates: what it has committed stays, the
\* rest is left to a later run (the task never calls retry).
FailTask(c) ==
  /\ task[c].candidates # {}
  /\ faults < MaxFaults
  /\ faults' = faults + 1
  /\ task' = [task EXCEPT ![c] = NoRun]
  /\ UNCHANGED <<tickets, ticket_messages, audit_logs, sess, silent, reopened, requests>>

-----------------------------------------------------------------------------
(* The specification.                                                      *)

RequestStep(w) == CommitReply(w) \/ CommitChange(w)
TaskStep(c) == \E t \in TicketIds : AutoClose(c, t) \/ SkipCandidate(c, t)

Next ==
  \/ \E w \in Workers :
       \/ \E t \in TicketIds : CreateTicket(w, t)
       \/ \E t \in TicketIds, author \in {"customer", "support"} : Reply(w, t, author)
       \/ \E t \in TicketIds, new \in TicketStatuses : ChangeStatus(w, t, new)
       \/ RequestStep(w)
       \/ FailRequest(w)
  \/ \E c \in Tasks : SelectCandidates(c) \/ TaskStep(c) \/ FailTask(c)
  \/ \E t \in TicketIds : DayPasses(t)

Spec == Init /\ [][Next]_vars

\* A request that has loaded its ticket ends, the task's loop goes on, beat
\* keeps starting it, and the clock does not stop.
FairSpec ==
  /\ Spec
  /\ \A w \in Workers : WF_vars(RequestStep(w))
  /\ \A c \in Tasks : WF_vars(TaskStep(c)) /\ WF_vars(SelectCandidates(c))
  /\ \A t \in TicketIds : WF_vars(DayPasses(t))

-----------------------------------------------------------------------------
(* Properties.                                                             *)

\* A closed ticket has its closing time, every closing by the task has left
\* exactly one note to the customer and one audit row, and two copies of the
\* task never close the same waiting ticket twice: between two notes the
\* ticket was reopened.
ClosingsAreRecorded ==
  \A t \in TicketIds :
    LET notes == ticket_messages[t]["system"]
    IN  /\ tickets[t].status = "closed" => tickets[t].closed_at
        /\ notes = audit_logs[t]
        /\ notes <= reopened[t] + (IF tickets[t].status = "closed" THEN 1 ELSE 0)

Closes(c, t) == t \in task[c].candidates /\ audit_logs'[t] > audit_logs[t]

\* A ticket is closed for silence only: when the task closes a ticket nobody
\* has written since the task selected it, the customer has not written for
\* STALE_AFTER, although the UPDATE itself does not look at the time.
ClosedForSilence ==
  [][\A c \in Tasks, t \in TicketIds :
       Closes(c, t) /\ task'[c] # task[c] /\ t \notin task[c].touched => silent[t]]_vars

\* The customer's answer wins against the task: a reply to a ticket that was
\* loaded waiting for the customer leaves it waiting for support, whether the
\* task has closed it in between or not.
AnswerBeatsAutoClose ==
  [][\A w \in Workers :
       /\ sess[w].pc = "customer"
       /\ sess[w].loaded = "waiting_for_customer"
       /\ ticket_messages' # ticket_messages
       /\ sess'[w] # sess[w]
       => tickets'[sess[w].ticket].status = "waiting_for_support"]_vars

\* No ticket waits for its customer for ever: it is answered, moved on by
\* support, or closed by a later run of the task, crashes included.
AbandonedTicketsClose ==
  \A t \in TicketIds :
    tickets[t].status = "waiting_for_customer" ~> tickets[t].status # "waiting_for_customer"
=============================================================================
