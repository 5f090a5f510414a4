------------------------------- MODULE Offers -------------------------------
(***************************************************************************)
(* Interview offers: OffersService, OfferExpiryService and the columns of  *)
(* EmployerRole that sending an offer reads and writes.                    *)
(*                                                                         *)
(* The rows of the database are the shared state.  Every HTTP request and  *)
(* the expiry poller are processes of one Node program: they interleave at *)
(* every await, so each handler below is split exactly where the code      *)
(* awaits between a read it keeps and a write it makes.  One SQL statement *)
(* is one step, and so is repo.save(), which re-reads the row and writes   *)
(* back every column in which the entity in memory differs from it.        *)
(***************************************************************************)
EXTENDS Naturals, FiniteSets

CONSTANTS
  Employers,   (* employer accounts                                        *)
  Candidates,  (* candidate accounts                                       *)
  Roles,       (* employer roles           *)
  RoleOwner,   (* role -> the employer it belongs to                       *)
  MonthlyCap,  (* OFFERS_MONTHLY_CAP: offers an employer sends in a month  *)
  Senders,     (* slots for concurrent POST employer/offers requests       *)
  Handlers,    (* slots for concurrent requests about one existing offer   *)
  Editors,     (* slots for concurrent PATCH/close/reopen of a role        *)
  Kinds,       (* which requests, besides sending, the clients make        *)
  MaxResends,  (* bound: offers per candidate and role                     *)
  MaxMonth,    (* bound: calendar months                                   *)
  MaxHires     (* bound: an employer's hire_count                          *)

AllKinds == {"respond", "withdraw", "link", "view", "hire", "list", "verify"}

ASSUME OwnerAssumption == RoleOwner \in [Roles -> Employers]
ASSUME FiniteAssumption == IsFiniteSet(Candidates) /\ IsFiniteSet(Roles)
ASSUME KindsAssumption == Kinds \subseteq AllKinds
ASSUME BoundsAssumption == /\ MonthlyCap \in Nat \ {0}
                           /\ MaxResends \in Nat
                           /\ MaxMonth \in Nat \ {0}
                           /\ MaxHires \in Nat

(***************************************************************************)
(* The n-th offer to a candidate for a role; the code's uuid.              *)
(***************************************************************************)
OfferIds == Candidates \X Roles \X (1 .. MaxResends)

CandidateOf(o) == o[1]
RoleOf(o) == o[2]
EmployerOf(o) == RoleOwner[RoleOf(o)]

Settled == {"accepted", "declined", "expired", "withdrawn"}
Active == {"pending", "accepted"}
OfferStatus == {"pending"} \cup Settled

(* "none": the row has not been inserted *)
RowStatus == OfferStatus \cup {"none"}
Months == 1 .. MaxMonth

RoleRow == [status : {"active", "closed"}, sent : Nat]

(* What a notification says has become of an offer *)
Notices == {"accepted", "declined", "withdrawn", "expired"}

VARIABLES
  status,     (* offers.status of every offer                              *)
  due,        (* the offers whose expires_at has passed                    *)
  sentAt,     (* offer_distribution_logs.sent_at, as a month; 0: no log    *)
  countedIn,  (* history: the month against whose count it was admitted    *)
  role,       (* employer_roles: status and offers_sent_count              *)
  hires,      (* employer_profiles.hire_count                              *)
  verified,   (* the employers with employer_profiles.is_verified          *)
  ready,      (* the candidates with a job_ready employer_pool_profile     *)
  month,      (* the current calendar month                                *)
  send,       (* the sendOffers requests in progress                       *)
  op,         (* the requests on one offer in progress                     *)
  edit,       (* the requests that load and save a role                    *)
  poll,       (* OfferExpiryService: isRunning and the rows left to notify *)
  told,       (* history: the notifications delivered                      *)
  overwritten (* history: the offers whose settled status was overwritten  *)

rows == <<status, due, sentAt, countedIn>>
procs == <<send, op, edit, poll>>
world == <<hires, verified, ready, month, overwritten>>
vars == <<status, due, sentAt, countedIn, role, hires, verified, ready,
          month, send, op, edit, poll, told, overwritten>>

(***************************************************************************)
(* A request in progress: pc names the statement it will execute next, the *)
(* other fields are the local variables it still uses.                     *)
(***************************************************************************)
Idle == [pc |-> "idle"]

SendRequest ==
  {Idle}
    \cup [pc : {"next"}, role : Roles, todo : SUBSET Candidates]
    \cup [pc : {"begin"}, role : Roles, todo : SUBSET Candidates,
          cand : Candidates]
    \cup [pc : {"commit"}, role : Roles, todo : SUBSET Candidates,
          cand : Candidates, begun : Months]

OpRequest ==
  {Idle}
    \cup [pc : {"expire", "respond"}, offer : OfferIds,
          answer : {"accepted", "declined"}]
    \cup [pc : {"withdraw", "view", "hire"}, offer : OfferIds]
    \cup [pc : {"save"}, offer : OfferIds, saw : OfferStatus]
    \cup [pc : {"tell"}, offer : OfferIds, notice : Notices]

EditRequest == {Idle} \cup [pc : {"save"}, role : Roles, copy : RoleRow]

TypeOK ==
  /\ status \in [OfferIds -> RowStatus]
  /\ due \subseteq OfferIds
  /\ sentAt \in [OfferIds -> Months \cup {0}]
  /\ countedIn \in [OfferIds -> Months \cup {0}]
  /\ role \in [Roles -> RoleRow]
  /\ hires \in [Employers -> Nat]
  /\ verified \subseteq Employers
  /\ ready \subseteq Candidates
  /\ month \in Months
  /\ send \in [Senders -> SendRequest]
  /\ op \in [Handlers -> OpRequest]
  /\ edit \in [Editors -> EditRequest]
  /\ poll \in [running : BOOLEAN, todo : SUBSET OfferIds]
  /\ told \subseteq Notices \X OfferIds
  /\ overwritten \subseteq OfferIds

Init ==
  /\ status = [o \in OfferIds |-> "none"]
  /\ due = {}
  /\ sentAt = [o \in OfferIds |-> 0]
  /\ countedIn = [o \in OfferIds |-> 0]
  /\ role = [r \in Roles |-> [status |-> "active", sent |-> 0]]
  /\ hires = [e \in Employers |-> 0]
  /\ verified \in SUBSET Employers
  /\ ready = {}
  /\ month = 1
  /\ send = [s \in Senders |-> Idle]
  /\ op = [h \in Handlers |-> Idle]
  /\ edit = [w \in Editors |-> Idle]
  /\ poll = [running |-> FALSE, todo |-> {}]
  /\ told = {}
  /\ overwritten = {}

(***************************************************************************)
(* Helpers.                                                                *)
(***************************************************************************)
Same(o, p) == CandidateOf(o) = CandidateOf(p) /\ RoleOf(o) = RoleOf(p)

(* An offer pending or accepted for this candidate and role *)
HasActive(c, r) ==
  \E o \in OfferIds : CandidateOf(o) = c /\ RoleOf(o) = r /\ status[o] \in Active

(* WHERE status = 'pending', the condition of every guarded UPDATE *)
StillPending(o) == status[o] = "pending"

OverdueAnyDate == {o \in OfferIds : StillPending(o)}
Overdue == {o \in due : StillPending(o)}

(* The distribution-log rows of an employer stamped with month m *)
LogOf(e, m) == {o \in OfferIds : EmployerOf(o) = e /\ sentAt[o] = m}

(* The month's rows that were counted in the month they are stamped with *)
CountedLog(e, m) == {o \in LogOf(e, m) : countedIn[o] = m}

(* The test of the monthly cap inside the transaction *)
UnderCapOffByOne(e) == Cardinality(LogOf(e, month)) <= MonthlyCap
UnderCap(e) == Cardinality(LogOf(e, month)) < MonthlyCap

LogOfRole(r) == {o \in OfferIds : RoleOf(o) = r /\ sentAt[o] # 0}

(* The unique index on active offers, were o to get status st *)
UniqueIndexMissing(o, st) == TRUE
UniqueIndexAllows(o, st) ==
  st \in Active =>
    \A p \in OfferIds \ {o} : Same(o, p) => status[p] \notin Active

(* UPDATE offers SET status = 'expired' WHERE id IN os *)
SetExpired(os) ==
  status' = [o \in OfferIds |-> IF o \in os THEN "expired" ELSE status[o]]

(* The settled offers of which the step changes the status *)
Overwrites ==
  overwritten' = overwritten
    \cup {o \in OfferIds : status[o] \in Settled /\ status'[o] # status[o]}

(* A notification whose failure the caller catches and logs *)
Deliver(n, o) == told' = told \/ told' = told \cup {<<n, o>>}

(***************************************************************************)
(* POST employer/offers: sendOffers and createSingleOffer.                 *)
(***************************************************************************)

(* assertEmployerVerified and findActiveRoleForOffer: checked once, before *)
(* the loop over the candidates.                                           *)
SendStart(s, r, cs) ==
  /\ send[s] = Idle
  /\ cs # {}
  /\ RoleOwner[r] \in verified
  /\ role[r].status = "active"
  /\ send' = [send EXCEPT ![s] = [pc |-> "next", role |-> r, todo |-> cs]]
  /\ UNCHANGED <<rows, role, world, op, edit, poll, told>>

(* The next candidate of the batch: refused with a warning unless job      *)
(* ready and without an active offer for the role.                         *)
SendCheck(s, c) ==
  /\ send[s].pc = "next"
  /\ c \in send[s].todo
  /\ LET r == send[s].role
         rest == send[s].todo \ {c}
     IN send' = [send EXCEPT ![s] =
          IF c \in ready /\ ~ HasActive(c, r)
            THEN [pc |-> "begin", role |-> r, todo |-> rest, cand |-> c]
            ELSE [pc |-> "next", role |-> r, todo |-> rest]]
  /\ UNCHANGED <<rows, role, world, op, edit, poll, told>>

(* BEGIN: now(), the default of sent_at, is fixed here, before the lock.   *)
SendBegin(s) ==
  /\ send[s].pc = "begin"
  /\ send' = [send EXCEPT ![s] =
       [pc |-> "commit", role |-> @.role, todo |-> @.todo, cand |-> @.cand,
        begun |-> month]]
  /\ UNCHANGED <<rows, role, world, op, edit, poll, told>>

(* From pg_advisory_xact_lock to COMMIT.  The employer's other sends wait  *)
(* for the lock, so the count, the inserts and the increment are one step. *)
(* (What follows, notifyOfferReceived, cannot fail the send.)              *)
SendCommit(s) ==
  /\ send[s].pc = "commit"
  /\ LET r == send[s].role
         e == RoleOwner[r]
     IN \E n \in 1 .. MaxResends :
          LET o == <<send[s].cand, r, n>> IN
          /\ status[o] = "none"
          /\ UnderCap(e)
          /\ UniqueIndexAllows(o, "pending")
          /\ status' = [status EXCEPT ![o] = "pending"]
          /\ sentAt' = [sentAt EXCEPT ![o] = send[s].begun]
          /\ countedIn' = [countedIn EXCEPT ![o] = month]
          /\ role' = [role EXCEPT ![r].sent = @ + 1]
          /\ send' = [send EXCEPT ![s] =
               [pc |-> "next", role |-> r, todo |-> @.todo]]
  /\ UNCHANGED <<due, world, op, edit, poll, told>>

(* ROLLBACK: always when the cap is reached or the unique index is         *)
(* violated, and on any database error; the batch goes on with a warning.  *)
SendRollbackKeepsIncrement(s) ==
  /\ send[s].pc = "commit"
  /\ role' = [role EXCEPT ![send[s].role].sent = @ + 1]
  /\ send' = [send EXCEPT ![s] =
       [pc |-> "next", role |-> @.role, todo |-> @.todo]]
  /\ UNCHANGED <<rows, world, op, edit, poll, told>>

SendRollback(s) ==
  /\ send[s].pc = "commit"
  /\ send' = [send EXCEPT ![s] =
       [pc |-> "next", role |-> @.role, todo |-> @.todo]]
  /\ UNCHANGED <<rows, role, world, op, edit, poll, told>>

SendEnd(s) ==
  /\ send[s].pc = "next"
  /\ send[s].todo = {}
  /\ send' = [send EXCEPT ![s] = Idle]
  /\ UNCHANGED <<rows, role, world, op, edit, poll, told>>

(***************************************************************************)
(* Requests about one existing offer: the row is read first, then written  *)
(* after one or more awaits.                                               *)
(***************************************************************************)
OpStep(h, r) == op' = [op EXCEPT ![h] = r]

OpStart(h, kind, o) ==
  /\ op[h] = Idle
  /\ kind \in Kinds
  /\ status[o] # "none"

(* respondToOffer reads a pending offer.                                   *)
RespondStart(h, o, answer) ==
  /\ OpStart(h, "respond", o)
  /\ status[o] = "pending"
  /\ OpStep(h, [pc |-> "expire", offer |-> o, answer |-> answer])
  /\ UNCHANGED <<rows, role, world, send, edit, poll, told>>

(* First conditional update: an overdue offer expires and the answer is    *)
(* refused.                                                                *)
RespondExpire(h) ==
  /\ op[h].pc = "expire"
  /\ LET o == op[h].offer IN
       IF o \in Overdue
         THEN SetExpired({o}) /\ OpStep(h, Idle)
         ELSE /\ OpStep(h, [pc |-> "respond", offer |-> o,
                            answer |-> op[h].answer])
              /\ UNCHANGED status
  /\ UNCHANGED <<due, sentAt, countedIn, role, world, send, edit, poll, told>>

(* Second conditional update: the answer is recorded only if still pending. *)
RespondTo(h, recorded, notice) ==
  /\ op[h].pc = "respond"
  /\ LET o == op[h].offer IN
       IF recorded
         THEN /\ status' = [status EXCEPT ![o] = IF StillPending(o)
                                                   THEN op[h].answer ELSE @]
              /\ OpStep(h, [pc |-> "tell", offer |-> o, notice |-> notice])
         ELSE OpStep(h, Idle) /\ UNCHANGED status
  /\ UNCHANGED <<due, sentAt, countedIn, role, world, send, edit, poll, told>>

RespondIgnoringAffected(h) == RespondTo(h, TRUE, op[h].answer)
RespondTellingOldStatus(h) ==
  RespondTo(h, StillPending(op[h].offer), status[op[h].offer])
Respond(h) == RespondTo(h, StillPending(op[h].offer), op[h].answer)

(* withdrawOffer reads a pending offer ...                                 *)
WithdrawStart(h, o) ==
  /\ OpStart(h, "withdraw", o)
  /\ status[o] = "pending"
  /\ OpStep(h, [pc |-> "withdraw", offer |-> o])
  /\ UNCHANGED <<rows, role, world, send, edit, poll, told>>

(* ... and updates it if still pending, but does not look at the count of  *)
(* affected rows: it notifies and reports success in either case.          *)
Withdraw(h) ==
  /\ op[h].pc = "withdraw"
  /\ LET o == op[h].offer IN
       /\ status' = [status EXCEPT ![o] = IF StillPending(o) THEN "withdrawn"
                                                               ELSE @]
       /\ OpStep(h, [pc |-> "tell", offer |-> o, notice |-> "withdrawn"])
  /\ UNCHANGED <<due, sentAt, countedIn, role, world, send, edit, poll, told>>

(* updateInterviewLink loads the whole row ...                             *)
LinkStart(h, o) ==
  /\ OpStart(h, "link", o)
  /\ OpStep(h, [pc |-> "save", offer |-> o, saw |-> status[o]])
  /\ UNCHANGED <<rows, role, world, send, edit, poll, told>>

(* ... and saves it: the status goes back to the one that was loaded,      *)
(* unless the unique index refuses it.                                     *)
LinkSave(h) ==
  /\ op[h].pc = "save"
  /\ LET o == op[h].offer IN
       IF UniqueIndexAllows(o, op[h].saw)
         THEN status' = [status EXCEPT ![o] = op[h].saw]
         ELSE UNCHANGED status
  /\ Overwrites
  /\ OpStep(h, Idle)
  /\ UNCHANGED <<due, sentAt, countedIn, role, hires, verified, ready, month,
                 send, edit, poll, told>>

(* getOfferForEmployer, getOfferForCandidate: read an overdue offer ...    *)
ViewStart(h, o) ==
  /\ OpStart(h, "view", o)
  /\ o \in Overdue
  /\ OpStep(h, [pc |-> "view", offer |-> o])
  /\ UNCHANGED <<rows, role, world, send, edit, poll, told>>

(* ... and checkAndUpdateExpiry expires it by id, whatever it is by now.   *)
ViewExpire(h) ==
  /\ op[h].pc = "view"
  /\ SetExpired({op[h].offer})
  /\ Overwrites
  /\ OpStep(h, Idle)
  /\ UNCHANGED <<due, sentAt, countedIn, role, hires, verified, ready, month,
                 send, edit, poll, told>>

(* markHireComplete reads an accepted offer and counts a hire; nothing is  *)
(* written to the offer.                                                   *)
HireStart(h, o) ==
  /\ OpStart(h, "hire", o)
  /\ status[o] = "accepted"
  /\ hires[EmployerOf(o)] < MaxHires
  /\ OpStep(h, [pc |-> "hire", offer |-> o])
  /\ UNCHANGED <<rows, role, world, send, edit, poll, told>>

Hire(h) ==
  /\ op[h].pc = "hire"
  /\ hires' = [hires EXCEPT ![EmployerOf(op[h].offer)] = @ + 1]
  /\ OpStep(h, Idle)
  /\ UNCHANGED <<rows, role, verified, ready, month, overwritten, send, edit,
                 poll, told>>

(* The notification that ends a request; its failure is only logged.       *)
OpTell(h) ==
  /\ op[h].pc = "tell"
  /\ Deliver(op[h].notice, op[h].offer)
  /\ OpStep(h, Idle)
  /\ UNCHANGED <<rows, role, world, send, edit, poll>>

(***************************************************************************)
(* Lists and analytics first expire what is overdue, in one statement.     *)
(***************************************************************************)
ExpireStaleOffers(e) ==
  /\ "list" \in Kinds
  /\ \E o \in Overdue : EmployerOf(o) = e
  /\ SetExpired({o \in Overdue : EmployerOf(o) = e})
  /\ UNCHANGED <<due, sentAt, countedIn, role, world, procs, told>>

ExpireStaleOffersForCandidate(c) ==
  /\ "list" \in Kinds
  /\ \E o \in Overdue : CandidateOf(o) = c
  /\ SetExpired({o \in Overdue : CandidateOf(o) = c})
  /\ UNCHANGED <<due, sentAt, countedIn, role, world, procs, told>>

(***************************************************************************)
(* OfferExpiryService: processExpiryEvents, every 15 minutes and at start. *)
(***************************************************************************)
PollExpire ==
  /\ ~ poll.running
  /\ Overdue # {}
  /\ SetExpired(Overdue)
  /\ poll' = [running |-> TRUE, todo |-> Overdue]
  /\ UNCHANGED <<due, sentAt, countedIn, role, world, send, op, edit,
                 told>>

PollTell(o) ==
  /\ o \in poll.todo
  /\ Deliver("expired", o)
  /\ poll' = [poll EXCEPT !.todo = @ \ {o}]
  /\ UNCHANGED <<rows, role, world, send, op, edit>>

(* finally: isRunning is reset.                                            *)
PollEndLeavesRunning ==
  /\ poll.running
  /\ poll.todo = {}
  /\ UNCHANGED vars

PollEnd ==
  /\ poll.running
  /\ poll.todo = {}
  /\ poll' = [poll EXCEPT !.running = FALSE]
  /\ UNCHANGED <<rows, role, world, send, op, edit, told>>

(***************************************************************************)
(* EmployerRolesService.update, close and reopen: load the role, change a  *)
(* field, save the whole entity.                                           *)
(***************************************************************************)
EditStart(w, r, st) ==
  /\ edit[w] = Idle
  /\ edit' = [edit EXCEPT ![w] =
       [pc |-> "save", role |-> r,
        copy |-> [status |-> st, sent |-> role[r].sent]]]
  /\ UNCHANGED <<rows, role, world, send, op, poll, told>>

EditSave(w) ==
  /\ edit[w].pc = "save"
  /\ role' = [role EXCEPT ![edit[w].role] = edit[w].copy]
  /\ edit' = [edit EXCEPT ![w] = Idle]
  /\ UNCHANGED <<rows, world, send, op, poll, told>>

(***************************************************************************)
(* The world around: clocks, the verification check, the advanced          *)
(* assessment (which makes candidates job ready), and a crash of the       *)
(* process, which loses every request and the poller's remaining rows.     *)
(***************************************************************************)
OfferFallsDue(o) ==
  /\ status[o] # "none"
  /\ o \notin due
  /\ due' = due \cup {o}
  /\ UNCHANGED <<status, sentAt, countedIn, role, world, procs, told>>

MonthPasses ==
  /\ month < MaxMonth
  /\ month' = month + 1
  /\ UNCHANGED <<rows, role, hires, verified, ready, overwritten, procs, told>>

CheckVerification(e) ==
  /\ "verify" \in Kinds
  /\ verified' = IF e \in verified THEN verified \ {e} ELSE verified \cup {e}
  /\ UNCHANGED <<rows, role, hires, ready, month, overwritten, procs, told>>

CandidateReady(c) ==
  /\ c \notin ready
  /\ ready' = ready \cup {c}
  /\ UNCHANGED <<rows, role, hires, verified, month, overwritten, procs, told>>

Crash ==
  /\ send' = [s \in Senders |-> Idle]
  /\ op' = [h \in Handlers |-> Idle]
  /\ edit' = [w \in Editors |-> Idle]
  /\ poll' = [running |-> FALSE, todo |-> {}]
  /\ UNCHANGED <<rows, role, world, told>>

SendNext ==
  \E s \in Senders :
    \/ \E r \in Roles, cs \in SUBSET Candidates : SendStart(s, r, cs)
    \/ \E c \in Candidates : SendCheck(s, c)
    \/ SendBegin(s) \/ SendCommit(s) \/ SendRollback(s)
    \/ SendEnd(s)

OpBegin(h, o) ==
  \/ \E answer \in {"accepted", "declined"} : RespondStart(h, o, answer)
  \/ WithdrawStart(h, o) \/ LinkStart(h, o)
  \/ ViewStart(h, o) \/ HireStart(h, o)

OpNext ==
  \E h \in Handlers :
    \/ \E o \in OfferIds : OpBegin(h, o)
    \/ RespondExpire(h) \/ Respond(h) \/ Withdraw(h) \/ LinkSave(h)
    \/ ViewExpire(h) \/ Hire(h) \/ OpTell(h)

ListNext ==
  \/ \E e \in Employers : ExpireStaleOffers(e)
  \/ \E c \in Candidates : ExpireStaleOffersForCandidate(c)

Poller == PollExpire \/ PollEnd \/ \E o \in OfferIds : PollTell(o)

EditNext ==
  \E w \in Editors :
    \/ \E r \in Roles, st \in {"active", "closed"} : EditStart(w, r, st)
    \/ EditSave(w)

WorldNext ==
  \/ \E o \in OfferIds : OfferFallsDue(o)
  \/ MonthPasses
  \/ \E e \in Employers : CheckVerification(e)
  \/ \E c \in Candidates : CandidateReady(c)
  \/ Crash

Next ==
  SendNext \/ OpNext \/ ListNext \/ Poller \/ EditNext \/ WorldNext

Spec == Init /\ [][Next]_vars

(* The poller is a timer of the process: it runs as long as the program    *)
(* does, and a crash is followed by a restart, which polls at once.        *)
FairSpec == Spec /\ WF_vars(Poller)

(***************************************************************************)
(* Properties that hold whatever the requests.                             *)
(***************************************************************************)

(* A candidate never has two pending or accepted offers for one role, even *)
(* when two sends pass the findOne check before either inserts, and when a *)
(* stale save of an old offer races a new send.                            *)
OneActiveOffer ==
  \A o, p \in OfferIds :
    o # p /\ Same(o, p) /\ status[o] \in Active => status[p] \notin Active

(* The advisory lock makes the cap exact: of the offers stamped with the   *)
(* month they were counted in, an employer never has more than MonthlyCap, *)
(* however many sends run at once.                                         *)
CapPerCountedMonth ==
  \A e \in Employers, m \in Months :
    Cardinality(CountedLog(e, m)) <= MonthlyCap

(* offers_sent_count never exceeds the offers really sent for the role:    *)
(* stale saves of the role may lose increments but never invent one.       *)
SentNeverOverstated ==
  \A r \in Roles : role[r].sent <= Cardinality(LogOfRole(r))

(* The employer is told of an acceptance, refusal or expiry only when that *)
(* is what the offer was settled with, however late the notification       *)
(* comes; and that is still what its row says, unless the row was          *)
(* overwritten by a request that wrote a status it had not checked.        *)
ToldTruth ==
  \A n \in {"accepted", "declined", "expired"}, o \in OfferIds :
    <<n, o>> \in told /\ o \notin overwritten => status[o] = n

(* An overdue offer does not stay pending: the poller, started again after *)
(* every crash, settles it if nobody else does.                            *)
OverdueExpires ==
  \A o \in OfferIds : o \in Overdue ~> status[o] \in Settled

(* What the offers promise to the rest of the system: accept, decline,     *)
(* withdraw and expire race for a pending offer and exactly one wins; only *)
(* updateInterviewLink and checkAndUpdateExpiry overwrite the outcome.     *)
Lifecycle == INSTANCE OfferLifecycle
LifecycleSpec == Lifecycle!Spec

(***************************************************************************)
(* Claims of the documentation that the code does not keep; see README.    *)
(***************************************************************************)

(* A settled offer never changes again.                                    *)
SettledForGood ==
  [][\A o \in OfferIds : status[o] \in Settled => status'[o] = status[o]]_vars

(* offers.service.spec.ts says of the expiry made by a list that it must   *)
(* "not affect already accepted/declined offers"; viewing one offer can.   *)
AnsweredNotExpired ==
  [][\A o \in OfferIds : status[o] \in {"accepted", "declined"}
                           => status'[o] # "expired"]_vars

(* A candidate is told 'Offer withdrawn' only of an offer that is.         *)
WithdrawnToldTruth ==
  \A o \in OfferIds : <<"withdrawn", o>> \in told => status[o] = "withdrawn"

(* "Serialize concurrent sends per employer to prevent cap-race            *)
(* conditions": no calendar month of the log exceeds the cap.              *)
MonthlyCapHolds ==
  \A e \in Employers, m \in Months : Cardinality(LogOf(e, m)) <= MonthlyCap

(* Closed roles can no longer be used to send new offers.                  *)
ClosedRolesSendNothing ==
  [][\A o \in OfferIds : status[o] = "none" /\ status'[o] = "pending"
                           => role[RoleOf(o)].status = "active"]_vars

(* hire_count counts hires: never more than the offers accepted.           *)
HiresWereAccepted ==
  \A e \in Employers :
    hires[e] <= Cardinality({o \in OfferIds : /\ EmployerOf(o) = e
                                              /\ status[o] = "accepted"})
=============================================================================
