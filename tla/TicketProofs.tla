---------------------------- MODULE TicketProofs ----------------------------
(***************************************************************************)
(* Proofs about Tickets for any number of workers, tasks and tickets.      *)
(*                                                                         *)
(* ClosedForSilence is not inductive: the UPDATE of the task does not look *)
(* at the time.  What carries the fact from the query to the UPDATE is     *)
(* SelectedAreStale, a candidate nobody has written since is still stale,  *)
(* and StaleIsSilent, last_response_at is never older than the customer's  *)
(* last message.                                                           *)
(***************************************************************************)
EXTENDS Tickets, TLAPS

\* last_response_at is moved by the customer's messages too.
StaleIsSilent == \A t \in TicketIds : tickets[t].stale => silent[t]

\* A candidate exists, and is as the query found it unless it was touched.
SelectedAreStale ==
  \A c \in Tasks : \A t \in task[c].candidates :
    /\ tickets[t].status # "none"
    /\ t \notin task[c].touched => tickets[t].stale

\* What add_customer_reply and add_support_reply assign.
RepliesAssign ==
  \A w \in Workers :
    /\ sess[w].pc = "customer" => sess[w].new = "waiting_for_support"
    /\ sess[w].pc = "support" => sess[w].new = "waiting_for_customer"

\* The inductive invariant.
TicketInv ==
  /\ TicketsTypeOK
  /\ ClosingsAreRecorded
  /\ StaleIsSilent
  /\ SelectedAreStale
  /\ RepliesAssign

LEMMA InitTickets == Init => TicketInv
BY DEF Init, TicketInv, TicketsTypeOK, ClosingsAreRecorded, StaleIsSilent, SelectedAreStale,
       RepliesAssign, NoRow, Rows, Idle, Sessions, NoRun, Runs, Authors,
       TicketStatuses

\* A status that is assigned is one of the enumeration, and it is closed
\* only if closed was assigned or was committed already.
LEMMA AssignedStatus ==
  ASSUME NEW loaded, NEW new \in TicketStatuses, NEW committed \in TicketStatuses
  PROVE  /\ Assigned(loaded, new, committed) \in TicketStatuses
         /\ Assigned(loaded, new, committed) = "closed" => new = "closed" \/ committed = "closed"
BY DEF Assigned

\* Committing a row for t keeps the count of reopenings ahead of the notes.
LEMMA CommitRecorded ==
  ASSUME TicketsTypeOK, ClosingsAreRecorded,
         NEW t \in TicketIds, NEW row \in Rows, Commit(t, row),
         row.status = "closed" => row.closed_at,
         UNCHANGED audit_logs,
         \A u \in TicketIds : ticket_messages'[u]["system"] = ticket_messages[u]["system"]
  PROVE  ClosingsAreRecorded'
<1> SUFFICES ASSUME NEW u \in TicketIds
             PROVE  /\ tickets'[u].status = "closed" => tickets'[u].closed_at
                    /\ ticket_messages'[u]["system"] = audit_logs'[u]
                    /\ ticket_messages'[u]["system"] <=
                         reopened'[u] + (IF tickets'[u].status = "closed" THEN 1 ELSE 0)
  BY DEF ClosingsAreRecorded
<1>1. ticket_messages[u]["system"] \in Nat /\ reopened[u] \in Nat /\ tickets[u] \in Rows
  BY DEF TicketsTypeOK, Authors
<1>2. CASE u = t
  BY <1>1, <1>2 DEF Commit, TicketsTypeOK, ClosingsAreRecorded
<1>3. CASE u # t
  BY <1>1, <1>3 DEF Commit, TicketsTypeOK, ClosingsAreRecorded
<1> QED BY <1>2, <1>3

\* Touch leaves the candidates alone and marks t in every run.
LEMMA NotedRun ==
  ASSUME TicketsTypeOK, NEW c \in Tasks, NEW t \in TicketIds
  PROVE  /\ Noted(c, t) \in Runs
         /\ Noted(c, t).candidates = task[c].candidates
         /\ task[c].candidates # {} => Noted(c, t).touched = task[c].touched \cup {t}
BY DEF Noted, TicketsTypeOK, Runs

LEMMA AdvanceRun ==
  ASSUME TicketsTypeOK, NEW c \in Tasks, NEW t \in TicketIds
  PROVE  /\ Advance(c, t) \in Runs
         /\ Advance(c, t).candidates \subseteq task[c].candidates
         /\ Advance(c, t).candidates # {} => Advance(c, t).touched = task[c].touched
BY DEF Advance, TicketsTypeOK, Runs, NoRun

\* A new message counts for its author only.
LEMMA MessageAdded ==
  ASSUME TicketsTypeOK, NEW t \in TicketIds, NEW a \in Authors, AddMessage(t, a)
  PROVE  /\ ticket_messages' \in [TicketIds -> [Authors -> Nat]]
         /\ a # "system" => \A u \in TicketIds :
              ticket_messages'[u]["system"] = ticket_messages[u]["system"]
<1> SUFFICES ASSUME NEW u \in TicketIds
             PROVE  /\ ticket_messages'[u] \in [Authors -> Nat]
                    /\ a # "system" => ticket_messages'[u]["system"] = ticket_messages[u]["system"]
  BY DEF AddMessage, TicketsTypeOK
<1>1. ticket_messages[u] \in [Authors -> Nat]
  BY DEF TicketsTypeOK
<1> QED BY <1>1 DEF AddMessage, TicketsTypeOK, Authors

-----------------------------------------------------------------------------
(* The steps.                                                              *)

LEMMA CreatePreserves ==
  ASSUME TicketInv, NEW w \in Workers, NEW t \in TicketIds, CreateTicket(w, t)
  PROVE  TicketInv'
<1> DEFINE row == [status |-> "waiting_for_support", closed_at |-> FALSE, stale |-> FALSE]
<1>1. row \in Rows /\ "customer" \in Authors
  BY DEF Rows, TicketStatuses, Authors
<1>2. /\ ticket_messages' \in [TicketIds -> [Authors -> Nat]]
      /\ \A u \in TicketIds : ticket_messages'[u]["system"] = ticket_messages[u]["system"]
  BY <1>1, MessageAdded DEF TicketInv, CreateTicket
<1>3. tickets' = [tickets EXCEPT ![t] = row] /\ reopened' \in [TicketIds -> Nat]
  BY DEF TicketInv, TicketsTypeOK, CreateTicket, Commit
<1>4. TicketsTypeOK'
  <2>1. ASSUME NEW v \in Workers, sess'[v].pc # "idle"
        PROVE  sess'[v].ticket \in TicketIds /\ tickets'[sess'[v].ticket].status # "none"
    BY <1>3, <2>1 DEF TicketInv, TicketsTypeOK, CreateTicket
  <2> QED BY <1>1, <1>2, <1>3, <2>1 DEF TicketInv, TicketsTypeOK, CreateTicket
<1>5. ClosingsAreRecorded'
  <2>1. Commit(t, row) /\ UNCHANGED audit_logs
    BY DEF CreateTicket
  <2> QED BY <1>1, <1>2, <2>1, CommitRecorded DEF TicketInv
<1>6. StaleIsSilent'
  BY <1>3 DEF TicketInv, TicketsTypeOK, StaleIsSilent, CreateTicket
<1>7. SelectedAreStale'
  <2> SUFFICES ASSUME NEW c \in Tasks, NEW u \in task[c].candidates
               PROVE  /\ tickets'[u].status # "none"
                      /\ u \notin task[c].touched => tickets'[u].stale
    BY DEF SelectedAreStale, CreateTicket
  <2>1. u \in TicketIds /\ u # t
    BY DEF TicketInv, TicketsTypeOK, Runs, SelectedAreStale, CreateTicket
  <2> QED BY <1>3, <2>1 DEF TicketInv, TicketsTypeOK, SelectedAreStale
<1>8. RepliesAssign'
  BY DEF TicketInv, RepliesAssign, CreateTicket
<1> QED BY <1>4, <1>5, <1>6, <1>7, <1>8 DEF TicketInv

LEMMA StartPreserves ==
  ASSUME TicketInv, NEW w \in Workers, NEW t \in TicketIds, tickets[t].status # "none",
         NEW pc \in {"customer", "support", "change"}, NEW new \in TicketStatuses,
         pc = "customer" => new = "waiting_for_support",
         pc = "support" => new = "waiting_for_customer",
         Start(w, pc, t, new),
         UNCHANGED <<tickets, ticket_messages, audit_logs, task, silent, reopened, faults>>
  PROVE  TicketInv'
<1>1. tickets[t].status \in TicketStatuses /\ "none" \notin TicketStatuses
  BY DEF TicketInv, TicketsTypeOK, Rows, TicketStatuses
<1>2. /\ sess' \in [Workers -> Sessions]
      /\ \A v \in Workers : v # w => sess'[v] = sess[v]
      /\ sess'[w] = [pc |-> pc, ticket |-> t, loaded |-> tickets[t].status, new |-> new]
      /\ requests' \in Nat
  BY <1>1 DEF TicketInv, TicketsTypeOK, Start, Sessions
<1>3. ASSUME NEW v \in Workers, sess'[v].pc # "idle"
      PROVE  sess'[v].ticket \in TicketIds /\ tickets'[sess'[v].ticket].status # "none"
  BY <1>2, <1>3 DEF TicketInv, TicketsTypeOK
<1>4. TicketsTypeOK'
  BY <1>2, <1>3 DEF TicketInv, TicketsTypeOK
<1>5. RepliesAssign'
  BY <1>2 DEF TicketInv, RepliesAssign
<1>6. ClosingsAreRecorded' /\ StaleIsSilent' /\ SelectedAreStale'
  BY DEF TicketInv, ClosingsAreRecorded, StaleIsSilent, SelectedAreStale
<1> QED BY <1>4, <1>5, <1>6 DEF TicketInv

\* Ending a session disturbs nothing about the others.
LEMMA EndSession ==
  ASSUME TicketInv, NEW w \in Workers, End(w),
         \A u \in TicketIds : tickets[u].status # "none" => tickets'[u].status # "none"
  PROVE  /\ sess' \in [Workers -> Sessions]
         /\ \A v \in Workers :
              sess'[v].pc # "idle" => /\ sess'[v].ticket \in TicketIds
                                      /\ tickets'[sess'[v].ticket].status # "none"
         /\ RepliesAssign'
<1>1. Idle \in Sessions /\ Idle.pc = "idle"
  BY DEF Idle, Sessions, TicketStatuses
<1>2. sess' \in [Workers -> Sessions] /\ \A v \in Workers : sess'[v] \in {sess[v], Idle}
  BY <1>1 DEF TicketInv, TicketsTypeOK, End
<1> QED BY <1>1, <1>2 DEF TicketInv, TicketsTypeOK, RepliesAssign

\* A commit by an API worker marks the ticket in every running task.
LEMMA TouchPreserves ==
  ASSUME TicketInv, NEW t \in TicketIds, NEW row \in Rows, Commit(t, row), Touch(t),
         row.status # "none"
  PROVE  task' \in [Tasks -> Runs] /\ SelectedAreStale'
<1>1. task' \in [Tasks -> Runs]
  BY NotedRun DEF TicketInv, Touch
<1>2. ASSUME NEW c \in Tasks, NEW u \in task'[c].candidates
      PROVE  /\ tickets'[u].status # "none"
             /\ u \notin task'[c].touched => tickets'[u].stale
  <2>1. task'[c] = Noted(c, t)
    BY DEF Touch
  <2>2. u \in task[c].candidates /\ u \in TicketIds
    BY <1>2, <2>1, NotedRun DEF TicketInv, TicketsTypeOK, Runs
  <2>3. task'[c].touched = task[c].touched \cup {t}
    BY <2>1, <2>2, NotedRun DEF TicketInv
  <2>4. tickets'[u] = IF u = t THEN row ELSE tickets[u]
    BY <2>2 DEF TicketInv, TicketsTypeOK, Commit
  <2> QED BY <2>2, <2>3, <2>4 DEF TicketInv, SelectedAreStale
<1> QED BY <1>1, <1>2 DEF SelectedAreStale

\* What CommitReply and CommitChange have in common.
LEMMA RequestPreserves ==
  ASSUME TicketInv, NEW w \in Workers, NEW t \in TicketIds, NEW row \in Rows,
         row.status # "none", row.status = "closed" => row.closed_at,
         Commit(t, row), Touch(t), End(w), UNCHANGED <<audit_logs, requests, faults>>,
         ticket_messages' \in [TicketIds -> [Authors -> Nat]],
         \A u \in TicketIds : ticket_messages'[u]["system"] = ticket_messages[u]["system"],
         silent' \in [TicketIds -> BOOLEAN],
         \A u \in TicketIds : u # t => silent'[u] = silent[u],
         row.stale => silent'[t]
  PROVE  TicketInv'
<1>1. tickets' = [tickets EXCEPT ![t] = row] /\ reopened' \in [TicketIds -> Nat]
  BY DEF TicketInv, TicketsTypeOK, Commit
<1>2. \A u \in TicketIds : tickets'[u] = IF u = t THEN row ELSE tickets[u]
  BY <1>1 DEF TicketInv, TicketsTypeOK
<1>3. /\ sess' \in [Workers -> Sessions]
      /\ \A v \in Workers :
           sess'[v].pc # "idle" => /\ sess'[v].ticket \in TicketIds
                                   /\ tickets'[sess'[v].ticket].status # "none"
      /\ RepliesAssign'
  BY <1>2, EndSession
<1>4. task' \in [Tasks -> Runs] /\ SelectedAreStale'
  BY TouchPreserves
<1>5. TicketsTypeOK'
  BY <1>1, <1>3, <1>4 DEF TicketInv, TicketsTypeOK
<1>6. ClosingsAreRecorded'
  BY CommitRecorded DEF TicketInv
<1>7. StaleIsSilent'
  BY <1>2 DEF TicketInv, StaleIsSilent
<1> QED BY <1>3, <1>4, <1>5, <1>6, <1>7 DEF TicketInv

LEMMA CommitReplyPreserves ==
  ASSUME TicketInv, NEW w \in Workers, CommitReply(w)
  PROVE  TicketInv'
<1> DEFINE t == sess[w].ticket
           row == [tickets[t] EXCEPT !.status = ReplyStatus(w), !.stale = FALSE]
<1>1. /\ t \in TicketIds /\ tickets[t].status # "none"
      /\ sess[w].new \in TicketStatuses /\ sess[w].new # "closed"
      /\ sess[w].pc \in Authors /\ sess[w].pc # "system"
  BY DEF TicketInv, TicketsTypeOK, RepliesAssign, CommitReply, Authors, TicketStatuses
<1>2. tickets[t] \in Rows /\ tickets[t].status \in TicketStatuses
  BY <1>1 DEF TicketInv, TicketsTypeOK, Rows
<1>3. /\ AddMessage(t, sess[w].pc) /\ Commit(t, row) /\ Touch(t) /\ End(w)
      /\ UNCHANGED <<audit_logs, requests, faults>>
      /\ silent' = [silent EXCEPT ![t] = @ /\ sess[w].pc # "customer"]
  BY DEF CommitReply
<1>4. /\ ticket_messages' \in [TicketIds -> [Authors -> Nat]]
      /\ \A u \in TicketIds : ticket_messages'[u]["system"] = ticket_messages[u]["system"]
  BY <1>1, <1>3, MessageAdded DEF TicketInv
<1>5. /\ ReplyStatus(w) \in TicketStatuses
      /\ ReplyStatus(w) = "closed" => tickets[t].closed_at
  BY <1>1, <1>2, AssignedStatus DEF ReplyStatus, TicketInv, ClosingsAreRecorded
<1>6. /\ row \in Rows /\ row.status # "none" /\ ~row.stale
      /\ row.status = "closed" => row.closed_at
  BY <1>2, <1>5 DEF Rows, TicketStatuses
<1>7. /\ silent' \in [TicketIds -> BOOLEAN]
      /\ \A u \in TicketIds : u # t => silent'[u] = silent[u]
  BY <1>1, <1>3 DEF TicketInv, TicketsTypeOK
<1> HIDE DEF row
<1> QED BY <1>1, <1>3, <1>4, <1>6, <1>7, RequestPreserves

LEMMA CommitChangePreserves ==
  ASSUME TicketInv, NEW w \in Workers, CommitChange(w)
  PROVE  TicketInv'
<1> DEFINE t == sess[w].ticket
           status == Assigned(sess[w].loaded, sess[w].new, tickets[t].status)
           row == [tickets[t] EXCEPT !.status = status,
                                     !.closed_at = @ \/ sess[w].new = "closed"]
<1>1. /\ t \in TicketIds /\ tickets[t].status # "none" /\ sess[w].new \in TicketStatuses
  BY DEF TicketInv, TicketsTypeOK, CommitChange, Sessions
<1>2. tickets[t] \in Rows /\ tickets[t].status \in TicketStatuses
  BY <1>1 DEF TicketInv, TicketsTypeOK, Rows
<1>3. /\ Commit(t, row) /\ Touch(t) /\ End(w)
      /\ UNCHANGED <<ticket_messages, audit_logs, silent, requests, faults>>
  BY DEF CommitChange
<1>4. /\ status \in TicketStatuses
      /\ status = "closed" => tickets[t].closed_at \/ sess[w].new = "closed"
  BY <1>1, <1>2, AssignedStatus DEF TicketInv, ClosingsAreRecorded
<1>5. /\ row \in Rows /\ row.status # "none" /\ row.stale = tickets[t].stale
      /\ row.status = "closed" => row.closed_at
  <2> HIDE DEF status
  <2> QED BY <1>2, <1>4 DEF Rows, TicketStatuses
<1>6. /\ ticket_messages' \in [TicketIds -> [Authors -> Nat]]
      /\ silent' \in [TicketIds -> BOOLEAN]
      /\ row.stale => silent'[t]
  BY <1>1, <1>3, <1>5 DEF TicketInv, TicketsTypeOK, StaleIsSilent
<1> HIDE DEF row
<1> QED BY <1>1, <1>3, <1>5, <1>6, RequestPreserves

LEMMA SelectPreserves ==
  ASSUME TicketInv, NEW c \in Tasks, SelectCandidates(c)
  PROVE  TicketInv'
<1>1. PICK batch \in SUBSET {t \in TicketIds : Candidate(t)} :
        task' = [task EXCEPT ![c] = [candidates |-> batch, touched |-> {}]]
  BY DEF SelectCandidates
<1>2. UNCHANGED <<tickets, ticket_messages, audit_logs, sess, silent, reopened, requests, faults>>
  BY DEF SelectCandidates
<1>3. TicketsTypeOK'
  BY <1>1, <1>2 DEF TicketInv, TicketsTypeOK, Runs
<1>4. SelectedAreStale'
  <2>1. \A t \in batch : tickets[t].stale /\ tickets[t].status # "none"
    BY <1>1 DEF Candidate
  <2>2. \A d \in Tasks :
          task'[d] = IF d = c THEN [candidates |-> batch, touched |-> {}] ELSE task[d]
    BY <1>1 DEF TicketInv, TicketsTypeOK
  <2> QED BY <1>2, <2>1, <2>2 DEF TicketInv, SelectedAreStale
<1>5. ClosingsAreRecorded' /\ StaleIsSilent' /\ RepliesAssign'
  BY <1>2 DEF TicketInv, ClosingsAreRecorded, StaleIsSilent, RepliesAssign
<1> QED BY <1>3, <1>4, <1>5 DEF TicketInv

LEMMA AutoClosePreserves ==
  ASSUME TicketInv, NEW c \in Tasks, NEW t \in TicketIds, AutoClose(c, t)
  PROVE  TicketInv'
<1> DEFINE row == [tickets[t] EXCEPT !.status = "closed", !.closed_at = TRUE]
<1>1. /\ tickets[t] \in Rows /\ tickets[t].status = "waiting_for_customer"
      /\ "system" \in Authors
  BY DEF TicketInv, TicketsTypeOK, AutoClose, StillWaiting, Authors
<1>2. row \in Rows /\ row.status = "closed" /\ row.closed_at /\ row.stale = tickets[t].stale
  BY <1>1 DEF Rows, TicketStatuses
<1>3. /\ tickets' = [tickets EXCEPT ![t] = row]
      /\ reopened' = reopened
      /\ AddMessage(t, "system")
      /\ audit_logs' = [audit_logs EXCEPT ![t] = @ + 1]
      /\ UNCHANGED <<sess, silent, requests, faults>>
  BY <1>1 DEF TicketInv, TicketsTypeOK, AutoClose, Commit
<1> HIDE DEF row
<1>4. \A u \in TicketIds : tickets'[u] = IF u = t THEN row ELSE tickets[u]
  BY <1>3 DEF TicketInv, TicketsTypeOK
<1>5. /\ task' \in [Tasks -> Runs]
      /\ \A d \in Tasks :
           /\ task'[d].candidates \subseteq task[d].candidates
           /\ task'[d].candidates # {} => task[d].touched \subseteq task'[d].touched
  <2>1. \A d \in Tasks : task'[d] = IF d = c THEN Advance(c, t) ELSE Noted(d, t)
    BY DEF AutoClose
  <2>2. \A d \in Tasks :
           /\ task'[d] \in Runs
           /\ task'[d].candidates \subseteq task[d].candidates
           /\ task'[d].candidates # {} => task[d].touched \subseteq task'[d].touched
    BY <2>1, NotedRun, AdvanceRun DEF TicketInv
  <2>3. task' = [d \in Tasks |-> IF d = c THEN Advance(c, t) ELSE Noted(d, t)]
    BY DEF AutoClose
  <2> QED BY <2>2, <2>3
<1>6. TicketsTypeOK'
  <2>1. ticket_messages' \in [TicketIds -> [Authors -> Nat]]
    BY <1>1, <1>3, MessageAdded DEF TicketInv
  <2>2. ASSUME NEW v \in Workers, sess'[v].pc # "idle"
        PROVE  sess'[v].ticket \in TicketIds /\ tickets'[sess'[v].ticket].status # "none"
    BY <1>2, <1>3, <1>4, <2>2 DEF TicketInv, TicketsTypeOK
  <2>3. tickets' \in [TicketIds -> Rows] /\ audit_logs' \in [TicketIds -> Nat]
    BY <1>2, <1>3 DEF TicketInv, TicketsTypeOK
  <2> QED BY <1>3, <1>5, <2>1, <2>2, <2>3 DEF TicketInv, TicketsTypeOK
<1>7. ClosingsAreRecorded'
  <2> SUFFICES ASSUME NEW u \in TicketIds
               PROVE  /\ tickets'[u].status = "closed" => tickets'[u].closed_at
                      /\ ticket_messages'[u]["system"] = audit_logs'[u]
                      /\ ticket_messages'[u]["system"] <=
                           reopened'[u] + (IF tickets'[u].status = "closed" THEN 1 ELSE 0)
    BY DEF ClosingsAreRecorded
  <2>1. /\ ticket_messages[u]["system"] \in Nat /\ reopened[u] \in Nat /\ audit_logs[u] \in Nat
        /\ ticket_messages[u] \in [Authors -> Nat]
    BY <1>1 DEF TicketInv, TicketsTypeOK
  <2>2. CASE u = t
    <3>1. /\ ticket_messages'[u]["system"] = ticket_messages[u]["system"] + 1
          /\ audit_logs'[u] = audit_logs[u] + 1
      BY <1>1, <1>3, <2>1, <2>2 DEF TicketInv, TicketsTypeOK, AddMessage
    <3> QED BY <1>1, <1>2, <1>3, <1>4, <2>1, <2>2, <3>1 DEF TicketInv, ClosingsAreRecorded
  <2>3. CASE u # t
    <3>1. ticket_messages'[u] = ticket_messages[u] /\ audit_logs'[u] = audit_logs[u]
      BY <1>3, <2>3 DEF TicketInv, TicketsTypeOK, AddMessage
    <3> QED BY <1>3, <1>4, <2>3, <3>1 DEF TicketInv, ClosingsAreRecorded
  <2> QED BY <2>2, <2>3
<1>8. StaleIsSilent'
  BY <1>2, <1>3, <1>4 DEF TicketInv, StaleIsSilent
<1>9. SelectedAreStale'
  <2> SUFFICES ASSUME NEW d \in Tasks, NEW u \in task'[d].candidates
               PROVE  /\ tickets'[u].status # "none"
                      /\ u \notin task'[d].touched => tickets'[u].stale
    BY DEF SelectedAreStale
  <2>1. u \in task[d].candidates /\ u \in TicketIds /\ task[d].touched \subseteq task'[d].touched
    BY <1>5 DEF TicketInv, TicketsTypeOK, Runs
  <2>2. tickets[u].status # "none" /\ (u \notin task[d].touched => tickets[u].stale)
    BY <2>1 DEF TicketInv, SelectedAreStale
  <2> QED BY <1>2, <1>4, <2>1, <2>2
<1>10. RepliesAssign'
  BY <1>3 DEF TicketInv, RepliesAssign
<1> QED BY <1>6, <1>7, <1>8, <1>9, <1>10 DEF TicketInv

\* Dropping candidates, or a whole run, keeps what is known of the others.
LEMMA ShrinkPreserves ==
  ASSUME TicketInv, NEW c \in Tasks, NEW run \in Runs, task' = [task EXCEPT ![c] = run],
         run.candidates \subseteq task[c].candidates,
         run.candidates # {} => run.touched = task[c].touched,
         UNCHANGED <<tickets, ticket_messages, audit_logs, sess, silent, reopened, requests>>,
         faults' \in Nat
  PROVE  TicketInv'
<1>1. \A d \in Tasks : task'[d] = IF d = c THEN run ELSE task[d]
  BY DEF TicketInv, TicketsTypeOK
<1>2. SelectedAreStale'
  <2> SUFFICES ASSUME NEW d \in Tasks, NEW u \in task'[d].candidates
               PROVE  /\ tickets[u].status # "none"
                      /\ u \notin task'[d].touched => tickets[u].stale
    BY DEF SelectedAreStale
  <2>1. u \in task[d].candidates /\ task'[d].touched = task[d].touched
    BY <1>1
  <2> QED BY <2>1 DEF TicketInv, SelectedAreStale
<1>3. TicketsTypeOK'
  BY DEF TicketInv, TicketsTypeOK
<1> QED BY <1>2, <1>3 DEF TicketInv, ClosingsAreRecorded, StaleIsSilent, RepliesAssign

LEMMA DayPreserves ==
  ASSUME TicketInv, NEW t \in TicketIds, DayPasses(t)
  PROVE  TicketInv'
<1>1. \A u \in TicketIds :
        /\ tickets'[u] = IF u = t THEN [tickets[t] EXCEPT !.stale = TRUE] ELSE tickets[u]
        /\ silent'[u] = IF u = t THEN TRUE ELSE silent[u]
  BY DEF DayPasses, TicketInv, TicketsTypeOK
<1>2. \A u \in TicketIds :
        /\ tickets[u] \in Rows /\ tickets'[u] \in Rows
        /\ tickets'[u].status = tickets[u].status
        /\ tickets'[u].closed_at = tickets[u].closed_at
        /\ tickets[u].stale => tickets'[u].stale
  <2> SUFFICES ASSUME NEW u \in TicketIds
               PROVE  /\ tickets[u] \in Rows /\ tickets'[u] \in Rows
                      /\ tickets'[u].status = tickets[u].status
                      /\ tickets'[u].closed_at = tickets[u].closed_at
                      /\ tickets[u].stale => tickets'[u].stale
    OBVIOUS
  <2>1. tickets[u] \in Rows
    BY DEF TicketInv, TicketsTypeOK
  <2>2. CASE u = t
    BY <1>1, <2>1, <2>2 DEF Rows
  <2>3. CASE u # t
    BY <1>1, <2>1, <2>3
  <2> QED BY <2>2, <2>3
<1>3. TicketsTypeOK'
  BY <1>2 DEF DayPasses, TicketInv, TicketsTypeOK
<1>4. ClosingsAreRecorded' /\ RepliesAssign'
  BY <1>2 DEF DayPasses, TicketInv, ClosingsAreRecorded, RepliesAssign
<1>5. StaleIsSilent'
  BY <1>1 DEF TicketInv, StaleIsSilent
<1>6. SelectedAreStale'
  <2> SUFFICES ASSUME NEW c \in Tasks, NEW u \in task[c].candidates
               PROVE  /\ tickets'[u].status # "none"
                      /\ u \notin task[c].touched => tickets'[u].stale
    BY DEF SelectedAreStale, DayPasses
  <2>1. u \in TicketIds
    BY DEF TicketInv, TicketsTypeOK, Runs
  <2> QED BY <1>2, <2>1 DEF TicketInv, SelectedAreStale
<1> QED BY <1>3, <1>4, <1>5, <1>6 DEF TicketInv

LEMMA FailRequestPreserves ==
  ASSUME TicketInv, NEW w \in Workers, FailRequest(w)
  PROVE  TicketInv'
<1>1. End(w) /\ faults' \in Nat
      /\ UNCHANGED <<tickets, ticket_messages, audit_logs, task, silent, reopened, requests>>
  BY DEF FailRequest, TicketInv, TicketsTypeOK
<1>2. /\ sess' \in [Workers -> Sessions]
      /\ \A v \in Workers :
           sess'[v].pc # "idle" => /\ sess'[v].ticket \in TicketIds
                                   /\ tickets'[sess'[v].ticket].status # "none"
      /\ RepliesAssign'
  BY <1>1, EndSession
<1>3. TicketsTypeOK'
  BY <1>1, <1>2 DEF TicketInv, TicketsTypeOK
<1> QED BY <1>1, <1>2, <1>3 DEF TicketInv, ClosingsAreRecorded, StaleIsSilent, SelectedAreStale

\* Every step keeps the invariant.
LEMMA StepPreserves == TicketInv /\ [Next]_vars => TicketInv'
<1> SUFFICES ASSUME TicketInv, [Next]_vars PROVE TicketInv'
  OBVIOUS
<1>1. ASSUME NEW w \in Workers, NEW t \in TicketIds, CreateTicket(w, t) PROVE TicketInv'
  BY <1>1, CreatePreserves
<1>2. ASSUME NEW w \in Workers, NEW t \in TicketIds, NEW a \in {"customer", "support"},
             Reply(w, t, a)
      PROVE  TicketInv'
  <2> DEFINE new == IF a = "customer" THEN "waiting_for_support" ELSE "waiting_for_customer"
  <2>1. /\ Start(w, a, t, new) /\ tickets[t].status # "none"
        /\ UNCHANGED <<tickets, ticket_messages, audit_logs, task, silent, reopened, faults>>
    BY <1>2 DEF Reply, Replyable
  <2>2. new \in TicketStatuses
    BY DEF TicketStatuses
  <2> QED BY <2>1, <2>2, StartPreserves
<1>3. ASSUME NEW w \in Workers, NEW t \in TicketIds, NEW new \in TicketStatuses,
             ChangeStatus(w, t, new)
      PROVE  TicketInv'
  BY <1>3, StartPreserves DEF ChangeStatus
<1>4. ASSUME NEW w \in Workers, RequestStep(w) \/ FailRequest(w) PROVE TicketInv'
  BY <1>4, CommitReplyPreserves, CommitChangePreserves, FailRequestPreserves DEF RequestStep
<1>5. ASSUME NEW c \in Tasks, SelectCandidates(c) PROVE TicketInv'
  BY <1>5, SelectPreserves
<1>6. ASSUME NEW c \in Tasks, TaskStep(c) PROVE TicketInv'
  <2>1. PICK t \in TicketIds : AutoClose(c, t) \/ SkipCandidate(c, t)
    BY <1>6 DEF TaskStep
  <2>2. CASE AutoClose(c, t)
    BY <2>2, AutoClosePreserves
  <2>3. CASE SkipCandidate(c, t)
    <3>1. faults' \in Nat
      BY <2>3 DEF SkipCandidate, TicketInv, TicketsTypeOK
    <3> QED BY <2>3, <3>1, AdvanceRun, ShrinkPreserves DEF SkipCandidate, TicketInv
  <2> QED BY <2>1, <2>2, <2>3
<1>7. ASSUME NEW c \in Tasks, FailTask(c) PROVE TicketInv'
  <2>1. NoRun \in Runs /\ NoRun.candidates = {} /\ faults' \in Nat
    BY <1>7 DEF NoRun, Runs, FailTask, TicketInv, TicketsTypeOK
  <2> QED BY <1>7, <2>1, ShrinkPreserves DEF FailTask
<1>8. ASSUME NEW t \in TicketIds, DayPasses(t) PROVE TicketInv'
  BY <1>8, DayPreserves
<1>9. CASE UNCHANGED vars
  BY <1>9 DEF vars, TicketInv, TicketsTypeOK, ClosingsAreRecorded, StaleIsSilent,
              SelectedAreStale, RepliesAssign
<1> QED BY <1>1, <1>2, <1>3, <1>4, <1>5, <1>6, <1>7, <1>8, <1>9 DEF Next

\* TicketInv, the inductive invariant, holds in every reachable state.
THEOREM TicketInvariantHolds == Spec => []TicketInv
BY InitTickets, StepPreserves, PTL DEF Spec

\* Type correctness: a request works on a ticket that exists.
THEOREM TicketTypesHold == Spec => []TicketsTypeOK
<1>1. TicketInv => TicketsTypeOK
  BY DEF TicketInv
<1> QED BY <1>1, TicketInvariantHolds, PTL

\* Every closing by the task leaves one note and one audit row, and no
\* number of concurrent copies of it closes a waiting ticket twice.
THEOREM ClosingsHold == Spec => []ClosingsAreRecorded
<1>1. TicketInv => ClosingsAreRecorded
  BY DEF TicketInv
<1> QED BY <1>1, TicketInvariantHolds, PTL

\* A ticket that is closed without having been touched since the query has
\* a customer who was silent for STALE_AFTER.
THEOREM SilenceHolds == Spec => ClosedForSilence
<1>1. TicketInv => \A c \in Tasks, t \in TicketIds :
        t \in task[c].candidates /\ t \notin task[c].touched => silent[t]
  BY DEF TicketInv, SelectedAreStale, StaleIsSilent
<1>2. TicketInv /\ [Next]_vars =>
        [\A c \in Tasks, t \in TicketIds :
           Closes(c, t) /\ task'[c] # task[c] /\ t \notin task[c].touched => silent[t]]_vars
  BY <1>1 DEF Closes
<1> QED BY <1>2, TicketInvariantHolds, PTL DEF Spec, ClosedForSilence

\* A customer's answer to a waiting ticket is never lost to the task.
THEOREM AnswersWin == Spec => AnswerBeatsAutoClose
<1> DEFINE A == \A w \in Workers :
                  /\ sess[w].pc = "customer"
                  /\ sess[w].loaded = "waiting_for_customer"
                  /\ ticket_messages' # ticket_messages
                  /\ sess'[w] # sess[w]
                  => tickets'[sess[w].ticket].status = "waiting_for_support"
<1>1. TicketInv /\ Next => A
  <2> SUFFICES ASSUME TicketInv, Next, NEW w \in Workers,
                      sess[w].pc = "customer", sess[w].loaded = "waiting_for_customer",
                      ticket_messages' # ticket_messages, sess'[w] # sess[w]
               PROVE  tickets'[sess[w].ticket].status = "waiting_for_support"
    OBVIOUS
  <2>1. PICK v \in Workers : CommitReply(v)
    BY DEF Next, RequestStep, TaskStep, CreateTicket, Reply, ChangeStatus, CommitChange,
           FailRequest, SelectCandidates, AutoClose, SkipCandidate, FailTask, DayPasses
  <2>2. v = w
    BY <2>1 DEF CommitReply, End, TicketInv, TicketsTypeOK
  <2>3. sess[w].ticket \in TicketIds /\ sess[w].new = "waiting_for_support"
    BY DEF TicketInv, TicketsTypeOK, RepliesAssign
  <2>4. ReplyStatus(w) = "waiting_for_support"
    BY <2>3 DEF ReplyStatus, Assigned
  <2>5. tickets[sess[w].ticket] \in Rows
    BY <2>3 DEF TicketInv, TicketsTypeOK
  <2> QED BY <2>1, <2>2, <2>3, <2>4, <2>5 DEF CommitReply, Commit, TicketInv, TicketsTypeOK, Rows
<1>2. TicketInv /\ [Next]_vars => [A]_vars
  BY <1>1
<1> QED BY <1>2, TicketInvariantHolds, PTL DEF Spec, AnswerBeatsAutoClose
=============================================================================
