------------------------- MODULE EmployerAssessments -------------------------
(***************************************************************************)
(* The assessments employers make for candidates, EmployerAssessments-     *)
(* Service: creating and deactivating them, inviting talents and outside   *)
(* applicants, registering the latter, and taking in one submission of     *)
(* each.  Requests overlap at every await; a transaction is one step       *)
(* except where it waits for the lock of the employer's row.               *)
(***************************************************************************)
EXTENDS Naturals, FiniteSets

CONSTANTS
  Employers,    (* verified employers: nothing takes is_verified back      *)
  Assessments,  (* ids of employer_assessments                             *)
  Talents,      (* candidates with an account                              *)
  Emails,       (* addresses of applicants from outside                    *)
  Requests,     (* slots for concurrent requests                           *)
  Limit,        (* ACTIVE_ASSESSMENT_LIMIT, 5                              *)
  Busy          (* bound: the assessments people are invited to and take;  *)
                (* the others are internal, and their links go unused      *)

ASSUME LimitAssumption == Limit \in Nat \ {0} /\ IsFiniteSet(Assessments)
ASSUME PeopleAssumption == Talents \cap Emails = {}
ASSUME BusyAssumption == Busy \subseteq Assessments

People == Talents \cup Emails

VARIABLES
  assessment,  (* the rows of employer_assessments                         *)
  lock,        (* who holds the row lock of an employer                    *)
  invited,     (* employer_assessment_invites and .._external_invites      *)
  reached,     (* how often an invitation has reached its person           *)
  applicant,   (* ..._external_applicants: the state of the session        *)
  submission,  (* ..._submissions and ..._external_submissions             *)
  notice,      (* notifications of results                                 *)
  gone,        (* the talents deleted                                      *)
  request      (* the requests in progress                                 *)

people == <<invited, reached>>
results == <<submission, notice>>
vars == <<assessment, lock, people, applicant, results, gone, request>>

Kinds == {"internal", "external"}
NotCreated == [owner |-> "nobody"]
Assessment == [owner : Employers, kind : Kinds, active : BOOLEAN]
Created(a) == assessment[a] # NotCreated
Open(a) == Created(a) /\ assessment[a].active

NoSession == "none"
Sessions == {NoSession, "live", "expired"}

(* What was computed by the server from the answers against the questions. *)
Submission == [assessment : Assessments, who : People, passed : BOOLEAN]

(* To whom a result is announced: the employer or the one who submitted.   *)
Notice == [result : Submission, to : {"employer", "candidate"}]

NoOne == "no one"
Idle == [pc |-> "idle"]
ASSUME SlotAssumption == NoOne \notin Requests
Request ==
  {Idle}
    \cup [pc : {"lock", "count", "insert"}, owner : Employers, kind : Kinds,
          all : SUBSET Talents]
    \cup [pc : {"invite", "tell"}, assessment : Assessments,
          all : SUBSET People]
    \cup [pc : {"register"}, assessment : Assessments, who : Emails]
    \cup [pc : {"check", "submit"}, assessment : Assessments, who : People]
    \cup [pc : {"announce"}, next : Notice]

TypeOK ==
  /\ assessment \in [Assessments -> Assessment \cup {NotCreated}]
  /\ lock \in [Employers -> Requests \cup {NoOne}]
  /\ invited \subseteq {i \in Assessments \X People : i[2] \notin gone}
  /\ reached \in [Assessments \X People -> Nat]
  /\ applicant \in [Assessments \X Emails -> Sessions]
  /\ submission \subseteq {s \in Submission : s.who \notin gone}
  /\ notice \subseteq Notice
  /\ gone \subseteq Talents
  /\ request \in [Requests -> Request]

Init ==
  /\ assessment = [a \in Assessments |-> NotCreated]
  /\ lock = [e \in Employers |-> NoOne]
  /\ invited = {}
  /\ reached = [i \in Assessments \X People |-> 0]
  /\ applicant = [i \in Assessments \X Emails |-> NoSession]
  /\ submission = {}
  /\ notice = {}
  /\ gone = {}
  /\ request = [r \in Requests |-> Idle]

Goes(r, next) == request' = [request EXCEPT ![r] = next]
Ends(r) == Goes(r, Idle)

(***************************************************************************)
(* createAssessment                                                        *)
(***************************************************************************)

(* Delivery by link is all = {}; the questions given or drawn are enough.  *)
CreateStart(r, e, kind, all) ==
  /\ request[r] = Idle
  /\ Goes(r, [pc |-> "lock", owner |-> e, kind |-> kind, all |-> all])
  /\ UNCHANGED <<assessment, lock, people, applicant, results, gone>>

(* SELECT ... FOR UPDATE of the employer's row.                            *)
LockIgnored(e) == TRUE
LockFree(e) == lock[e] = NoOne

CreateLock(r) ==
  LET q == request[r] IN
  /\ q.pc = "lock"
  /\ LockFree(q.owner)
  /\ lock' = [lock EXCEPT ![q.owner] = r]
  /\ Goes(r, [q EXCEPT !.pc = "count"])
  /\ UNCHANGED <<assessment, people, applicant, results, gone>>

ActiveOf(e) == {a \in Assessments : Open(a) /\ assessment[a].owner = e}

Unlocked(r) == [e \in Employers |-> IF lock[e] = r THEN NoOne ELSE lock[e]]

CreateCount(r) ==
  LET q == request[r] IN
  /\ q.pc = "count"
  /\ Cardinality(ActiveOf(q.owner)) < Limit
  /\ Goes(r, [q EXCEPT !.pc = "insert"])
  /\ UNCHANGED <<assessment, lock, people, applicant, results, gone>>

(* What is left to do once the invitations are saved.                      *)
Telling(a, all) ==
  IF all = {} THEN Idle ELSE [pc |-> "tell", assessment |-> a, all |-> all]

(* The assessment, its questions and its invitations are committed, and    *)
(* the employer is unlocked; then the candidates are told.                 *)
CreateInsert(r, a) ==
  LET q == request[r] IN
  /\ q.pc = "insert"
  /\ ~ Created(a)
  /\ a \in Busy \/ (q.all = {} /\ q.kind = "internal")
  /\ q.all \cap gone = {}
  /\ assessment' = [assessment EXCEPT ![a] = [owner |-> q.owner,
                                              kind |-> q.kind,
                                              active |-> TRUE]]
  /\ invited' = invited \cup ({a} \X q.all)
  /\ lock' = Unlocked(r)
  /\ Goes(r, Telling(a, q.all))
  /\ UNCHANGED <<reached, applicant, results, gone>>

(* One conditional UPDATE; nothing activates an assessment again.          *)
DeactivateAssessment(a) ==
  /\ Open(a)
  /\ assessment' = [assessment EXCEPT ![a].active = FALSE]
  /\ UNCHANGED <<lock, people, applicant, results, gone, request>>

(***************************************************************************)
(* inviteAssessment                                                        *)
(***************************************************************************)

(* all: those asked for and not invited before, if there are any.          *)
StillThere(a, all) == \A p \in all : p \notin gone
Uninvited(a, all) == \A p \in all : p \notin gone /\ <<a, p>> \notin invited

InviteFind(r, a, all) ==
  /\ request[r] = Idle
  /\ Created(a)
  /\ all # {}
  /\ all \subseteq (IF assessment[a].kind = "internal" THEN Talents ELSE Emails)
  /\ Uninvited(a, all)
  /\ Goes(r, [pc |-> "invite", assessment |-> a, all |-> all])
  /\ UNCHANGED <<assessment, lock, people, applicant, results, gone>>

(* save() of the array is one transaction: a pair another request has      *)
(* saved meanwhile, or a talent deleted meanwhile, refuses all of it.      *)
InviteSave(r) ==
  LET q == request[r] IN
  /\ q.pc = "invite"
  /\ Uninvited(q.assessment, q.all)
  /\ invited' = invited \cup ({q.assessment} \X q.all)
  /\ Goes(r, Telling(q.assessment, q.all))
  /\ UNCHANGED <<assessment, lock, reached, applicant, results, gone>>

(* notifyCandidates and the mails: all are tried, in any order, and those  *)
(* that fail are logged or reported, never tried again.                    *)
TellStep(r, p, n) ==
  LET q == request[r] IN
  /\ q.pc = "tell"
  /\ p \in q.all
  /\ reached' = [reached EXCEPT ![<<q.assessment, p>>] = @ + n]
  /\ Goes(r, Telling(q.assessment, q.all \ {p}))
  /\ UNCHANGED <<assessment, lock, invited, applicant, results, gone>>

Tell(r, p) == p \notin gone /\ TellStep(r, p, 1)
TellFails(r, p) == TellStep(r, p, 0)

(* sendAssessmentToCandidate of employer-roles.service.ts: an invitation   *)
(* if there is none, of an assessment of either kind, and nobody is told.  *)
SendAssessmentToCandidate(a, t) ==
  /\ Created(a)
  /\ t \notin gone /\ <<a, t>> \notin invited
  /\ invited' = invited \cup {<<a, t>>}
  /\ UNCHANGED <<assessment, lock, reached, applicant, results, gone, request>>

(***************************************************************************)
(* registerExternalApplicant                                               *)
(***************************************************************************)
RegisterFind(r, a, p) ==
  /\ request[r] = Idle
  /\ Open(a) /\ assessment[a].kind = "external"
  /\ applicant[<<a, p>>] = NoSession
  /\ Goes(r, [pc |-> "register", assessment |-> a, who |-> p])
  /\ UNCHANGED <<assessment, lock, people, applicant, results, gone>>

(* unique (assessment_id, email)                                           *)
RegisterSave(r) ==
  LET i == <<request[r].assessment, request[r].who>> IN
  /\ request[r].pc = "register"
  /\ applicant[i] = NoSession
  /\ applicant' = [applicant EXCEPT ![i] = "live"]
  /\ Ends(r)
  /\ UNCHANGED <<assessment, lock, people, results, gone>>

(* Nothing renews a session: registering again returns the same one.       *)
SessionExpires(i) ==
  /\ applicant[i] = "live"
  /\ applicant' = [applicant EXCEPT ![i] = "expired"]
  /\ UNCHANGED <<assessment, lock, people, results, gone, request>>

(***************************************************************************)
(* submitAssessment, of a talent, and submitExternalAssessment             *)
(***************************************************************************)
Submitted(a, p) == \E s \in submission : s.assessment = a /\ s.who = p

(* A talent may hold the link of an assessment of either kind.             *)
Admitted(a, p) ==
  IF p \in Talents THEN p \notin gone
  ELSE assessment[a].kind = "external" /\ applicant[<<a, p>>] = "live"

SubmitLoad(r, a, p) ==
  /\ request[r] = Idle
  /\ Open(a)
  /\ Admitted(a, p)
  /\ Goes(r, [pc |-> "check", assessment |-> a, who |-> p])
  /\ UNCHANGED <<assessment, lock, people, applicant, results, gone>>

SubmitCheck(r) ==
  LET q == request[r] IN
  /\ q.pc = "check"
  /\ ~ Submitted(q.assessment, q.who)
  /\ Goes(r, [q EXCEPT !.pc = "submit"])
  /\ UNCHANGED <<assessment, lock, people, applicant, results, gone>>

(* The insert under its unique index and its foreign key.                  *)
InsertableUnindexed(a, p) == p \notin gone
InsertableOrphan(a, p) == ~ Submitted(a, p)
Insertable(a, p) == ~ Submitted(a, p) /\ p \notin gone

(* An outside result is announced to the employer.  Of a talent's, only    *)
(* when offers of linked roles were found in the transaction: a pass to    *)
(* the employer and then the talent, a failure to the talent.              *)
Announce(s) ==
  IF s.who \in Emails \/ s.passed THEN [result |-> s, to |-> "employer"]
  ELSE [result |-> s, to |-> "candidate"]

SubmitSaveAnnouncesFirst(r, passed, linked) ==
  LET q == request[r]
      s == [assessment |-> q.assessment, who |-> q.who, passed |-> passed] IN
  /\ q.pc = "submit"
  /\ linked
  /\ submission' = IF Insertable(q.assessment, q.who)
                     THEN submission \cup {s} ELSE submission
  /\ Goes(r, [pc |-> "announce", next |-> Announce(s)])
  /\ UNCHANGED <<assessment, lock, people, applicant, notice, gone>>

SubmitSave(r, passed, linked) ==
  LET q == request[r]
      s == [assessment |-> q.assessment, who |-> q.who, passed |-> passed] IN
  /\ q.pc = "submit"
  /\ q.who \in Emails => linked
  /\ Insertable(q.assessment, q.who)
  /\ submission' = submission \cup {s}
  /\ Goes(r, IF linked THEN [pc |-> "announce", next |-> Announce(s)] ELSE Idle)
  /\ UNCHANGED <<assessment, lock, people, applicant, notice, gone>>

(* dispatch() swallows what fails, and the next one is tried.              *)
Afterwards(n) ==
  IF n.to = "employer" /\ n.result.who \in Talents
    THEN [pc |-> "announce", next |-> [n EXCEPT !.to = "candidate"]]
    ELSE Idle

AnnounceStep(r, stored) ==
  /\ request[r].pc = "announce"
  /\ notice' = IF stored THEN notice \cup {request[r].next} ELSE notice
  /\ Goes(r, Afterwards(request[r].next))
  /\ UNCHANGED <<assessment, lock, people, applicant, submission, gone>>

(***************************************************************************)
(* Any request ends: refused by a check or a constraint, finished, or by   *)
(* an error; a transaction it is in rolls back.  Deleting a talent deletes *)
(* the invitations and submissions by cascade.                             *)
(***************************************************************************)
End(r) ==
  /\ request[r] # Idle
  /\ Ends(r)
  /\ lock' = Unlocked(r)
  /\ UNCHANGED <<assessment, people, applicant, results, gone>>

Crash ==
  /\ request' = [r \in Requests |-> Idle]
  /\ lock' = [e \in Employers |-> NoOne]
  /\ UNCHANGED <<assessment, people, applicant, results, gone>>

DeleteTalent(t) ==
  /\ t \notin gone
  /\ gone' = gone \cup {t}
  /\ invited' = {i \in invited : i[2] # t}
  /\ submission' = {s \in submission : s.who # t}
  /\ UNCHANGED <<assessment, lock, reached, applicant, notice, request>>

CreateNext ==
  \E r \in Requests :
    \/ \E e \in Employers, kind \in Kinds, all \in SUBSET Talents :
         CreateStart(r, e, kind, all)
    \/ CreateLock(r) \/ CreateCount(r)
    \/ \E a \in Assessments : CreateInsert(r, a)

InviteNext ==
  \E r \in Requests :
    \/ \E a \in Busy, all \in SUBSET People : InviteFind(r, a, all)
    \/ InviteSave(r)
    \/ \E p \in People : Tell(r, p) \/ TellFails(r, p)

SubmitNext ==
  \E r \in Requests :
    \/ \E a \in Busy, p \in Emails : RegisterFind(r, a, p)
    \/ RegisterSave(r)
    \/ \E a \in Busy, p \in People : SubmitLoad(r, a, p)
    \/ SubmitCheck(r)
    \/ \E passed, linked \in BOOLEAN : SubmitSave(r, passed, linked)
    \/ \E stored \in BOOLEAN : AnnounceStep(r, stored)

WorldNext ==
  \/ \E a \in Assessments : DeactivateAssessment(a)
  \/ \E a \in Busy, t \in Talents : SendAssessmentToCandidate(a, t)
  \/ \E i \in Assessments \X Emails : SessionExpires(i)
  \/ \E r \in Requests : End(r)
  \/ \E t \in Talents : DeleteTalent(t)
  \/ Crash

Next == CreateNext \/ InviteNext \/ SubmitNext \/ WorldNext

Spec == Init /\ [][Next]_vars

(***************************************************************************)
(* Properties.                                                             *)
(***************************************************************************)

(* However many creations of an employer overlap, no more than the limit   *)
(* of the employer's assessments are ever active.                          *)
ActiveLimitKept == \A e \in Employers : Cardinality(ActiveOf(e)) <= Limit

(* Overlapping and repeated invitations never reach a person twice about   *)
(* one assessment.                                                         *)
ReachedAtMostOnce == \A i \in Assessments \X People : reached[i] <= 1

(* What the employer or a talent has been told of a result is the result   *)
(* on record, also when two submits of a person raced, for as long as that *)
(* person has an account.                                                  *)
NoticesTrue ==
  \A n \in notice : n.result \in submission \/ n.result.who \in gone

(* The two tables of submissions implement DecidedOnce: one submission per *)
(* assessment and person, never changed, gone for good with the talent.    *)
ResultOf(a, p) ==
  {s.passed : s \in {x \in submission : x.assessment = a /\ x.who = p}}

Results ==
  INSTANCE DecidedOnce WITH
    Tests    <- Assessments,
    Persons  <- People,
    Outcomes <- BOOLEAN,
    outcome  <- [i \in Assessments \X People |-> ResultOf(i[1], i[2])],
    left     <- gone
ResultsSpec == Results!Spec

(***************************************************************************)
(* Claims of the messages that the code does not keep; see README.         *)
(***************************************************************************)

(* already_invited: an invitation saved will be told by the request that   *)
(* saved it, or has been.                                                  *)
InvitedAreReached ==
  \A i \in invited :
    \/ reached[i] > 0
    \/ \E r \in Requests : /\ request[r].pc = "tell"
                           /\ request[r].assessment = i[1]
                           /\ i[2] \in request[r].all

(* 'This assessment is no longer accepting submissions.'                   *)
ClosedTakesNothing ==
  [][\A a \in Assessments : ~ Open(a)
       => {s \in submission' : s.assessment = a}
            \subseteq {s \in submission : s.assessment = a}]_vars
=============================================================================
