--------------------- MODULE EmployerAssessments_proofs ---------------------
(***************************************************************************)
(* Theorems about EmployerAssessments, for every limit and for any number  *)
(* of employers, assessments, people and requests: types, the limit of     *)
(* active assessments, invitations that reach once, notices that are true, *)
(* and results that implement DecidedOnce.                                 *)
(***************************************************************************)
EXTENDS EmployerAssessments, FiniteSetTheorems, TLAPS

(***************************************************************************)
(* Requests.                                                               *)
(***************************************************************************)

LEMMA RequestForms ==
  ASSUME NEW q \in Request
  PROVE  /\ q.pc \in {"idle", "lock", "count", "insert", "invite", "tell", "register",
                      "check", "submit", "announce"}
         /\ q.pc = "idle" <=> q = Idle
         /\ q.pc \in {"lock", "count", "insert"} =>
              /\ q.owner \in Employers /\ q.kind \in Kinds /\ q.all \in SUBSET Talents
              /\ \A pc \in {"count", "insert"} :
                   LET x == [q EXCEPT !.pc = pc]
                   IN x \in Request /\ x.pc = pc /\ x.owner = q.owner
         /\ q.pc \in {"invite", "tell"} => q.assessment \in Assessments /\ q.all \in SUBSET People
         /\ q.pc = "register" => q.assessment \in Assessments /\ q.who \in Emails
         /\ q.pc \in {"check", "submit"} => q.assessment \in Assessments /\ q.who \in People
         /\ q.pc = "check" => LET x == [q EXCEPT !.pc = "submit"] IN x \in Request /\ x.pc = "submit"
         /\ q.pc = "announce" => q.next \in Notice
BY DEF Request, Idle

LEMMA RequestTypes ==
  /\ Idle \in Request /\ Idle.pc = "idle"
  /\ \A e \in Employers, kind \in Kinds, all \in SUBSET Talents :
       [pc |-> "lock", owner |-> e, kind |-> kind, all |-> all] \in Request
  /\ \A pc \in {"invite", "tell"}, a \in Assessments, all \in SUBSET People :
       [pc |-> pc, assessment |-> a, all |-> all] \in Request
  /\ \A a \in Assessments, p \in Emails : [pc |-> "register", assessment |-> a, who |-> p] \in Request
  /\ \A pc \in {"check", "submit"}, a \in Assessments, p \in People :
       [pc |-> pc, assessment |-> a, who |-> p] \in Request
  /\ \A n \in Notice : [pc |-> "announce", next |-> n] \in Request
BY DEF Request, Idle

(* A request at pc goes on as q, and no other does.                        *)
Moves(r, q) ==
  /\ q \in Request
  /\ request' \in [Requests -> Request]
  /\ request'[r] = q
  /\ \A s \in Requests \ {r} : request'[s] = request[s]

LEMMA GoesMoves ==
  ASSUME TypeOK, NEW r \in Requests, NEW q \in Request, Goes(r, q)
  PROVE  Moves(r, q)
BY DEF TypeOK, Goes, Moves

(* What is told next, and announced next.                                  *)
LEMMA NextTypes ==
  /\ \A a \in Assessments, all \in SUBSET People :
       /\ Telling(a, all) \in Request
       /\ Telling(a, all).pc \in {"idle", "tell"}
       /\ Telling(a, all).pc = "tell" =>
            Telling(a, all).assessment = a /\ Telling(a, all).all = all
  /\ \A s \in Submission : Announce(s) \in Notice /\ Announce(s).result = s
  /\ \A n \in Notice :
       /\ n.result \in Submission
       /\ Afterwards(n) \in Request
       /\ Afterwards(n).pc \in {"idle", "announce"}
       /\ Afterwards(n).pc = "announce" => Afterwards(n).next.result = n.result
<1>1. ASSUME NEW a \in Assessments, NEW all \in SUBSET People
      PROVE  /\ Telling(a, all) \in Request
             /\ Telling(a, all).pc \in {"idle", "tell"}
             /\ Telling(a, all).pc = "tell" =>
                  Telling(a, all).assessment = a /\ Telling(a, all).all = all
  BY RequestTypes DEF Telling
<1>2. ASSUME NEW s \in Submission PROVE Announce(s) \in Notice /\ Announce(s).result = s
  BY DEF Announce, Notice
<1>3. ASSUME NEW n \in Notice
      PROVE  /\ n.result \in Submission
             /\ Afterwards(n) \in Request
             /\ Afterwards(n).pc \in {"idle", "announce"}
             /\ Afterwards(n).pc = "announce" => Afterwards(n).next.result = n.result
  <2> DEFINE m == [n EXCEPT !.to = "candidate"]
  <2>1. n.result \in Submission /\ m \in Notice /\ m.result = n.result
    BY DEF Notice
  <2> HIDE DEF m
  <2>2. Afterwards(n) = Idle \/ Afterwards(n) = [pc |-> "announce", next |-> m]
    BY DEF Afterwards, m
  <2>3. [pc |-> "announce", next |-> m] \in Request
    BY <2>1, RequestTypes
  <2> QED BY <2>1, <2>2, <2>3, RequestTypes
<1> QED BY <1>1, <1>2, <1>3

(***************************************************************************)
(* Types. Every step of a request makes it one of its type.                *)
(***************************************************************************)

LEMMA CreateMoves ==
  ASSUME TypeOK, NEW r \in Requests
  PROVE  /\ \A e \in Employers, kind \in Kinds, all \in SUBSET Talents :
              CreateStart(r, e, kind, all) => \E q : Moves(r, q) /\ q.pc = "lock"
         /\ CreateLock(r) => \E q : /\ Moves(r, q) /\ q.pc = "count"
                                    /\ q.owner = request[r].owner /\ q.owner \in Employers
         /\ CreateCount(r) => \E q : /\ Moves(r, q) /\ q.pc = "insert"
                                     /\ q.owner = request[r].owner /\ q.owner \in Employers
         /\ \A a \in Assessments :
              CreateInsert(r, a) => /\ Moves(r, Telling(a, request[r].all))
                                    /\ request[r].all \in SUBSET Talents
                                    /\ request[r].all \in SUBSET People
                                    /\ request[r].owner \in Employers /\ request[r].kind \in Kinds
<1>0. request[r] \in Request
  BY DEF TypeOK
<1>1. ASSUME NEW e \in Employers, NEW kind \in Kinds, NEW all \in SUBSET Talents,
             CreateStart(r, e, kind, all)
      PROVE  \E q : Moves(r, q) /\ q.pc = "lock"
  <2> DEFINE q == [pc |-> "lock", owner |-> e, kind |-> kind, all |-> all]
  <2>1. q \in Request /\ q.pc = "lock"
    BY RequestTypes
  <2> HIDE DEF q
  <2>2. Moves(r, q)
    BY <1>1, <2>1, GoesMoves DEF CreateStart, q
  <2> QED BY <2>1, <2>2
<1>2. ASSUME CreateLock(r)
      PROVE  \E q : /\ Moves(r, q) /\ q.pc = "count"
                    /\ q.owner = request[r].owner /\ q.owner \in Employers
  <2> DEFINE q == [request[r] EXCEPT !.pc = "count"]
  <2>1. q \in Request /\ q.pc = "count" /\ q.owner = request[r].owner /\ q.owner \in Employers
    BY <1>0, <1>2, RequestForms DEF CreateLock
  <2> HIDE DEF q
  <2>2. Moves(r, q)
    BY <1>2, <2>1, GoesMoves DEF CreateLock, q
  <2> QED BY <2>1, <2>2
<1>3. ASSUME CreateCount(r)
      PROVE  \E q : /\ Moves(r, q) /\ q.pc = "insert"
                    /\ q.owner = request[r].owner /\ q.owner \in Employers
  <2> DEFINE q == [request[r] EXCEPT !.pc = "insert"]
  <2>1. q \in Request /\ q.pc = "insert" /\ q.owner = request[r].owner /\ q.owner \in Employers
    BY <1>0, <1>3, RequestForms DEF CreateCount
  <2> HIDE DEF q
  <2>2. Moves(r, q)
    BY <1>3, <2>1, GoesMoves DEF CreateCount, q
  <2> QED BY <2>1, <2>2
<1>4. ASSUME NEW a \in Assessments, CreateInsert(r, a)
      PROVE  /\ Moves(r, Telling(a, request[r].all))
             /\ request[r].all \in SUBSET Talents /\ request[r].all \in SUBSET People
             /\ request[r].owner \in Employers /\ request[r].kind \in Kinds
  <2>1. /\ request[r].all \in SUBSET Talents /\ request[r].all \in SUBSET People
        /\ request[r].owner \in Employers /\ request[r].kind \in Kinds
    BY <1>0, <1>4, RequestForms DEF CreateInsert, People
  <2> QED BY <1>4, <2>1, NextTypes, GoesMoves DEF CreateInsert
<1> QED BY <1>1, <1>2, <1>3, <1>4

LEMMA InviteMoves ==
  ASSUME TypeOK, NEW r \in Requests
  PROVE  /\ \A a \in Assessments, all \in SUBSET People :
              InviteFind(r, a, all) => \E q : Moves(r, q) /\ q.pc = "invite"
         /\ InviteSave(r) => /\ Moves(r, Telling(request[r].assessment, request[r].all))
                             /\ request[r].assessment \in Assessments
                             /\ request[r].all \in SUBSET People
         /\ \A p \in People, n \in {0, 1} :
              TellStep(r, p, n) => /\ Moves(r, Telling(request[r].assessment, request[r].all \ {p}))
                                   /\ request[r].assessment \in Assessments
                                   /\ request[r].all \in SUBSET People
<1>0. request[r] \in Request
  BY DEF TypeOK
<1>1. ASSUME NEW a \in Assessments, NEW all \in SUBSET People, InviteFind(r, a, all)
      PROVE  \E q : Moves(r, q) /\ q.pc = "invite"
  <2> DEFINE q == [pc |-> "invite", assessment |-> a, all |-> all]
  <2>1. q \in Request /\ q.pc = "invite"
    BY RequestTypes
  <2> HIDE DEF q
  <2>2. Moves(r, q)
    BY <1>1, <2>1, GoesMoves DEF InviteFind, q
  <2> QED BY <2>1, <2>2
<1>2. ASSUME InviteSave(r)
      PROVE  /\ Moves(r, Telling(request[r].assessment, request[r].all))
             /\ request[r].assessment \in Assessments /\ request[r].all \in SUBSET People
  <2>1. request[r].assessment \in Assessments /\ request[r].all \in SUBSET People
    BY <1>0, <1>2, RequestForms DEF InviteSave
  <2> QED BY <1>2, <2>1, NextTypes, GoesMoves DEF InviteSave
<1>3. ASSUME NEW p \in People, NEW n \in {0, 1}, TellStep(r, p, n)
      PROVE  /\ Moves(r, Telling(request[r].assessment, request[r].all \ {p}))
             /\ request[r].assessment \in Assessments /\ request[r].all \in SUBSET People
  <2>1. request[r].assessment \in Assessments /\ request[r].all \in SUBSET People
    BY <1>0, <1>3, RequestForms DEF TellStep
  <2>2. request[r].all \ {p} \in SUBSET People
    BY <2>1
  <2> QED BY <1>3, <2>1, <2>2, NextTypes, GoesMoves DEF TellStep
<1> QED BY <1>1, <1>2, <1>3

LEMMA SubmitMoves ==
  ASSUME TypeOK, NEW r \in Requests
  PROVE  /\ \A a \in Assessments, p \in Emails :
              RegisterFind(r, a, p) => \E q : Moves(r, q) /\ q.pc = "register"
         /\ RegisterSave(r) => /\ Moves(r, Idle)
                               /\ request[r].assessment \in Assessments /\ request[r].who \in Emails
         /\ \A a \in Assessments, p \in People :
              SubmitLoad(r, a, p) => \E q : Moves(r, q) /\ q.pc = "check"
         /\ SubmitCheck(r) => \E q : Moves(r, q) /\ q.pc = "submit"
         /\ \A passed, linked \in BOOLEAN :
              SubmitSave(r, passed, linked) =>
                LET s == [assessment |-> request[r].assessment, who |-> request[r].who,
                          passed |-> passed]
                IN /\ s \in Submission
                   /\ \E q : /\ Moves(r, q) /\ q.pc \in {"idle", "announce"}
                             /\ q.pc = "announce" => q.next.result = s
         /\ \A stored \in BOOLEAN :
              AnnounceStep(r, stored) =>
                /\ request[r].next \in Notice
                /\ \E q : /\ Moves(r, q) /\ q.pc \in {"idle", "announce"}
                          /\ q.pc = "announce" => q.next.result = request[r].next.result
<1>0. request[r] \in Request
  BY DEF TypeOK
<1>1. ASSUME NEW a \in Assessments, NEW p \in Emails, RegisterFind(r, a, p)
      PROVE  \E q : Moves(r, q) /\ q.pc = "register"
  <2> DEFINE q == [pc |-> "register", assessment |-> a, who |-> p]
  <2>1. q \in Request /\ q.pc = "register"
    BY RequestTypes
  <2> HIDE DEF q
  <2>2. Moves(r, q)
    BY <1>1, <2>1, GoesMoves DEF RegisterFind, q
  <2> QED BY <2>1, <2>2
<1>2. ASSUME RegisterSave(r)
      PROVE  /\ Moves(r, Idle)
             /\ request[r].assessment \in Assessments /\ request[r].who \in Emails
  BY <1>0, <1>2, RequestForms, RequestTypes, GoesMoves DEF RegisterSave, Ends
<1>3. ASSUME NEW a \in Assessments, NEW p \in People, SubmitLoad(r, a, p)
      PROVE  \E q : Moves(r, q) /\ q.pc = "check"
  <2> DEFINE q == [pc |-> "check", assessment |-> a, who |-> p]
  <2>1. q \in Request /\ q.pc = "check"
    BY RequestTypes
  <2> HIDE DEF q
  <2>2. Moves(r, q)
    BY <1>3, <2>1, GoesMoves DEF SubmitLoad, q
  <2> QED BY <2>1, <2>2
<1>4. ASSUME SubmitCheck(r) PROVE \E q : Moves(r, q) /\ q.pc = "submit"
  <2> DEFINE q == [request[r] EXCEPT !.pc = "submit"]
  <2>1. q \in Request /\ q.pc = "submit"
    BY <1>0, <1>4, RequestForms DEF SubmitCheck
  <2> HIDE DEF q
  <2>2. Moves(r, q)
    BY <1>4, <2>1, GoesMoves DEF SubmitCheck, q
  <2> QED BY <2>1, <2>2
<1>5. ASSUME NEW passed \in BOOLEAN, NEW linked \in BOOLEAN, SubmitSave(r, passed, linked)
      PROVE  LET s == [assessment |-> request[r].assessment, who |-> request[r].who,
                       passed |-> passed]
             IN /\ s \in Submission
                /\ \E q : /\ Moves(r, q) /\ q.pc \in {"idle", "announce"}
                          /\ q.pc = "announce" => q.next.result = s
  <2> DEFINE s == [assessment |-> request[r].assessment, who |-> request[r].who,
                   passed |-> passed]
             q == IF linked THEN [pc |-> "announce", next |-> Announce(s)] ELSE Idle
  <2>1. s \in Submission
    BY <1>0, <1>5, RequestForms DEF SubmitSave, Submission
  <2>2. Goes(r, q)
    BY <1>5 DEF SubmitSave
  <2> HIDE DEF s
  <2>3. /\ q \in Request /\ q.pc \in {"idle", "announce"}
        /\ q.pc = "announce" => q.next.result = s
    BY <2>1, NextTypes, RequestTypes
  <2> HIDE DEF q
  <2>4. Moves(r, q)
    BY <2>2, <2>3, GoesMoves
  <2> QED BY <2>1, <2>3, <2>4 DEF s
<1>6. ASSUME NEW stored \in BOOLEAN, AnnounceStep(r, stored)
      PROVE  /\ request[r].next \in Notice
             /\ \E q : /\ Moves(r, q) /\ q.pc \in {"idle", "announce"}
                       /\ q.pc = "announce" => q.next.result = request[r].next.result
  <2> DEFINE q == Afterwards(request[r].next)
  <2>1. request[r].next \in Notice
    BY <1>0, <1>6, RequestForms DEF AnnounceStep
  <2>2. /\ q \in Request /\ q.pc \in {"idle", "announce"}
        /\ q.pc = "announce" => q.next.result = request[r].next.result
    BY <2>1, NextTypes
  <2>3. Moves(r, q)
    BY <1>6, <2>2, GoesMoves DEF AnnounceStep
  <2> QED BY <2>1, <2>2, <2>3
<1> QED BY <1>1, <1>2, <1>3, <1>4, <1>5, <1>6

LEMMA TypeInit == Init => TypeOK
BY RequestTypes DEF Init, TypeOK, NotCreated, Sessions, NoSession

LEMMA TypeCreate ==
  ASSUME TypeOK, CreateNext PROVE TypeOK'
<1>1. ASSUME NEW r \in Requests, NEW e \in Employers, NEW kind \in Kinds, NEW all \in SUBSET Talents,
             CreateStart(r, e, kind, all)
      PROVE  TypeOK'
  <2>1. request' \in [Requests -> Request]
    BY <1>1, CreateMoves DEF Moves
  <2> QED BY <1>1, <2>1 DEF CreateStart, TypeOK, people, results
<1>2. ASSUME NEW r \in Requests, CreateLock(r) PROVE TypeOK'
  <2>1. request' \in [Requests -> Request] /\ request[r].owner \in Employers
    BY <1>2, CreateMoves DEF Moves
  <2> QED BY <1>2, <2>1 DEF CreateLock, TypeOK, people, results
<1>3. ASSUME NEW r \in Requests, CreateCount(r) PROVE TypeOK'
  <2>1. request' \in [Requests -> Request]
    BY <1>3, CreateMoves DEF Moves
  <2> QED BY <1>3, <2>1 DEF CreateCount, TypeOK, people, results
<1>4. ASSUME NEW r \in Requests, NEW a \in Assessments, CreateInsert(r, a) PROVE TypeOK'
  <2> DEFINE q == request[r]
             x == [owner |-> q.owner, kind |-> q.kind, active |-> TRUE]
  <2>1. /\ request' \in [Requests -> Request]
        /\ q.all \in SUBSET People /\ q.owner \in Employers /\ q.kind \in Kinds
    BY <1>4, CreateMoves DEF Moves
  <2>2. x \in Assessment
    BY <2>1 DEF Assessment
  <2>3. assessment' \in [Assessments -> Assessment \cup {NotCreated}]
    BY <1>4, <2>2 DEF CreateInsert, TypeOK
  <2>4. lock' \in [Employers -> Requests \cup {NoOne}]
    BY <1>4 DEF CreateInsert, Unlocked, TypeOK
  <2>5. invited' \subseteq {i \in Assessments \X People : i[2] \notin gone'}
    BY <1>4, <2>1 DEF CreateInsert, TypeOK
  <2> QED BY <1>4, <2>1, <2>3, <2>4, <2>5 DEF CreateInsert, TypeOK, results
<1> QED BY <1>1, <1>2, <1>3, <1>4 DEF CreateNext

LEMMA TypeInvite ==
  ASSUME TypeOK, InviteNext PROVE TypeOK'
<1>1. ASSUME NEW r \in Requests, NEW a \in Busy, NEW all \in SUBSET People, InviteFind(r, a, all)
      PROVE  TypeOK'
  <2>1. request' \in [Requests -> Request]
    BY <1>1, InviteMoves, BusyAssumption DEF Moves
  <2> QED BY <1>1, <2>1 DEF InviteFind, TypeOK, people, results
<1>2. ASSUME NEW r \in Requests, InviteSave(r) PROVE TypeOK'
  <2> DEFINE q == request[r]
  <2>1. /\ request' \in [Requests -> Request]
        /\ q.assessment \in Assessments /\ q.all \in SUBSET People
    BY <1>2, InviteMoves DEF Moves
  <2>2. invited' \subseteq {i \in Assessments \X People : i[2] \notin gone'}
    BY <1>2, <2>1 DEF InviteSave, Uninvited, TypeOK
  <2> QED BY <1>2, <2>1, <2>2 DEF InviteSave, TypeOK, results
<1>3. ASSUME NEW r \in Requests, NEW p \in People, NEW n \in {0, 1}, TellStep(r, p, n) PROVE TypeOK'
  <2> DEFINE i == <<request[r].assessment, p>>
  <2>1. request' \in [Requests -> Request] /\ i \in Assessments \X People
    <3>1. /\ Moves(r, Telling(request[r].assessment, request[r].all \ {p}))
          /\ request[r].assessment \in Assessments
      BY <1>3, InviteMoves
    <3> QED BY <3>1 DEF Moves
  <2>2. reached' \in [Assessments \X People -> Nat]
    <3>1. reached \in [Assessments \X People -> Nat] /\ reached' = [reached EXCEPT ![i] = @ + n]
      BY <1>3 DEF TellStep, TypeOK
    <3>2. reached[i] + n \in Nat
      BY <2>1, <3>1
    <3> QED BY <3>1, <3>2
  <2> QED BY <1>3, <2>1, <2>2 DEF TellStep, TypeOK, results
<1> QED BY <1>1, <1>2, <1>3 DEF InviteNext, Tell, TellFails

LEMMA TypeSubmit ==
  ASSUME TypeOK, SubmitNext PROVE TypeOK'
<1> USE BusyAssumption DEF Sessions, NoSession
<1>1. ASSUME NEW r \in Requests, NEW a \in Busy, NEW p \in Emails, RegisterFind(r, a, p) PROVE TypeOK'
  <2>1. request' \in [Requests -> Request]
    BY <1>1, SubmitMoves DEF Moves
  <2> QED BY <1>1, <2>1 DEF RegisterFind, TypeOK, people, results
<1>2. ASSUME NEW r \in Requests, RegisterSave(r) PROVE TypeOK'
  <2>1. request' \in [Requests -> Request]
    BY <1>2, SubmitMoves DEF Moves
  <2> QED BY <1>2, <2>1 DEF RegisterSave, TypeOK, people, results
<1>3. ASSUME NEW r \in Requests, NEW a \in Busy, NEW p \in People, SubmitLoad(r, a, p) PROVE TypeOK'
  <2>1. request' \in [Requests -> Request]
    BY <1>3, SubmitMoves DEF Moves
  <2> QED BY <1>3, <2>1 DEF SubmitLoad, TypeOK, people, results
<1>4. ASSUME NEW r \in Requests, SubmitCheck(r) PROVE TypeOK'
  <2>1. request' \in [Requests -> Request]
    BY <1>4, SubmitMoves DEF Moves
  <2> QED BY <1>4, <2>1 DEF SubmitCheck, TypeOK, people, results
<1>5. ASSUME NEW r \in Requests, NEW passed \in BOOLEAN, NEW linked \in BOOLEAN,
             SubmitSave(r, passed, linked)
      PROVE  TypeOK'
  <2> DEFINE s == [assessment |-> request[r].assessment, who |-> request[r].who, passed |-> passed]
  <2>1. request' \in [Requests -> Request] /\ s \in Submission
    BY <1>5, SubmitMoves DEF Moves
  <2>2. submission' = submission \cup {s} /\ s.who \notin gone
    BY <1>5 DEF SubmitSave, Insertable
  <2> HIDE DEF s
  <2> QED BY <1>5, <2>1, <2>2 DEF SubmitSave, TypeOK, people
<1>6. ASSUME NEW r \in Requests, NEW stored \in BOOLEAN, AnnounceStep(r, stored) PROVE TypeOK'
  <2>1. request' \in [Requests -> Request] /\ request[r].next \in Notice
    BY <1>6, SubmitMoves DEF Moves
  <2> QED BY <1>6, <2>1 DEF AnnounceStep, TypeOK, people
<1> QED BY <1>1, <1>2, <1>3, <1>4, <1>5, <1>6 DEF SubmitNext

LEMMA EndMoves ==
  ASSUME TypeOK, NEW r \in Requests, End(r) PROVE Moves(r, Idle)
BY GoesMoves, RequestTypes DEF End, Ends

LEMMA TypeWorld ==
  ASSUME TypeOK, WorldNext PROVE TypeOK'
<1> USE DEF Sessions, NoSession
<1>1. ASSUME NEW a \in Assessments, DeactivateAssessment(a) PROVE TypeOK'
  <2>1. assessment[a] \in Assessment
    BY <1>1 DEF DeactivateAssessment, Open, Created, TypeOK
  <2>2. \A x \in Assessment : [x EXCEPT !.active = FALSE] \in Assessment
    BY DEF Assessment
  <2>3. assessment' \in [Assessments -> Assessment \cup {NotCreated}]
    BY <1>1, <2>1, <2>2 DEF DeactivateAssessment, TypeOK
  <2> QED BY <1>1, <2>3 DEF DeactivateAssessment, TypeOK, people, results
<1>2. ASSUME NEW i \in Assessments \X Emails, SessionExpires(i) PROVE TypeOK'
  BY <1>2 DEF SessionExpires, TypeOK, people, results
<1>3. ASSUME NEW r \in Requests, End(r) PROVE TypeOK'
  <2>1. request' \in [Requests -> Request]
    BY <1>3, EndMoves DEF Moves
  <2> QED BY <1>3, <2>1 DEF End, Unlocked, TypeOK, people, results
<1>4. ASSUME NEW t \in Talents, DeleteTalent(t) PROVE TypeOK'
  <2>1. invited' \subseteq {i \in Assessments \X People : i[2] \notin gone'}
    BY <1>4 DEF DeleteTalent, TypeOK
  <2>2. submission' \subseteq {s \in Submission : s.who \notin gone'}
    BY <1>4 DEF DeleteTalent, TypeOK
  <2> QED BY <1>4, <2>1, <2>2 DEF DeleteTalent, TypeOK
<1>5. ASSUME Crash PROVE TypeOK'
  BY <1>5, RequestTypes DEF Crash, TypeOK, people, results
<1>6. ASSUME NEW a \in Busy, NEW t \in Talents, SendAssessmentToCandidate(a, t) PROVE TypeOK'
  <2>1. invited' \subseteq {i \in Assessments \X People : i[2] \notin gone'}
    BY <1>6, BusyAssumption DEF SendAssessmentToCandidate, TypeOK, People
  <2> QED BY <1>6, <2>1 DEF SendAssessmentToCandidate, TypeOK, results
<1> QED BY <1>1, <1>2, <1>3, <1>4, <1>5, <1>6 DEF WorldNext

LEMMA TypeNext == TypeOK /\ [Next]_vars => TypeOK'
<1> SUFFICES ASSUME TypeOK, [Next]_vars PROVE TypeOK'
  OBVIOUS
<1>1. CASE UNCHANGED vars
  BY <1>1 DEF vars, people, results, TypeOK
<1> QED BY <1>1, TypeCreate, TypeInvite, TypeSubmit, TypeWorld DEF Next

(* Every variable keeps its type: no invitation and no submission is left  *)
(* of a talent who was deleted, whatever requests overlap.                 *)
THEOREM TypeCorrect == Spec => []TypeOK
BY TypeInit, TypeNext, PTL DEF Spec

(***************************************************************************)
(* The limit: who counts and inserts holds the employer's lock, so what    *)
(* was counted is still so when the assessment is inserted.                *)
(***************************************************************************)

Locked ==
  \A r \in Requests :
    request[r].pc \in {"count", "insert"} => lock[request[r].owner] = r

Room ==
  \A r \in Requests :
    request[r].pc = "insert" => Cardinality(ActiveOf(request[r].owner)) < Limit

LimitInv == TypeOK /\ Locked /\ Room /\ ActiveLimitKept

LEMMA ActiveFinite ==
  \A e : IsFiniteSet(ActiveOf(e)) /\ Cardinality(ActiveOf(e)) \in Nat
BY LimitAssumption, FS_Subset, FS_CardinalityType DEF ActiveOf

LEMMA ActiveShrinks ==
  ASSUME \A e \in Employers : ActiveOf(e)' \subseteq ActiveOf(e), NEW e \in Employers
  PROVE  Cardinality(ActiveOf(e)') <= Cardinality(ActiveOf(e)) /\ Cardinality(ActiveOf(e)') \in Nat
<1>1. IsFiniteSet(ActiveOf(e)) /\ IsFiniteSet(ActiveOf(e)')
  BY ActiveFinite, FS_Subset
<1> QED BY <1>1, FS_Subset, FS_CardinalityType

(* A step that makes no request count or insert and activates nothing.     *)
LEMMA LimitPlain ==
  ASSUME LimitInv, NEW r \in Requests, NEW q, Moves(r, q), q.pc \notin {"count", "insert"},
         assessment' = assessment, lock' = lock \/ lock' = Unlocked(r)
  PROVE  Locked' /\ Room' /\ ActiveLimitKept'
<1>1. \A e : ActiveOf(e)' = ActiveOf(e)
  BY DEF ActiveOf, Open, Created
<1>2. \A s \in Requests : request'[s].pc \in {"count", "insert"} => s # r /\ request'[s] = request[s]
  BY DEF Moves
<1>3. Locked'
  <2> SUFFICES ASSUME NEW s \in Requests, request'[s].pc \in {"count", "insert"}
               PROVE  lock'[request'[s].owner] = s
    BY DEF Locked
  <2>1. s # r /\ request'[s] = request[s] /\ lock[request[s].owner] = s
    BY <1>2 DEF LimitInv, Locked
  <2>2. request[s] \in Request
    BY DEF LimitInv, TypeOK
  <2>3. request[s].owner \in Employers
    BY <2>1, <2>2, RequestForms
  <2> QED BY <2>1, <2>3 DEF Unlocked
<1>4. Room' /\ ActiveLimitKept'
  BY <1>1, <1>2 DEF LimitInv, Room, ActiveLimitKept
<1> QED BY <1>3, <1>4

LEMMA LimitCreate ==
  ASSUME LimitInv, CreateNext PROVE LimitInv'
<1>0. TypeOK /\ TypeOK'
  BY TypeCreate DEF LimitInv
<1>1. ASSUME NEW r \in Requests, NEW e \in Employers, NEW kind \in Kinds, NEW all \in SUBSET Talents,
             CreateStart(r, e, kind, all)
      PROVE  LimitInv'
  <2>1. PICK q : Moves(r, q) /\ q.pc = "lock"
    BY <1>0, <1>1, CreateMoves
  <2>2. assessment' = assessment /\ lock' = lock
    BY <1>1 DEF CreateStart
  <2> QED BY <1>0, <2>1, <2>2, LimitPlain DEF LimitInv
<1>2. ASSUME NEW r \in Requests, CreateLock(r) PROVE LimitInv'
  <2>1. PICK q : /\ Moves(r, q) /\ q.pc = "count"
                 /\ q.owner = request[r].owner /\ q.owner \in Employers
    BY <1>0, <1>2, CreateMoves
  <2>2. /\ assessment' = assessment /\ lock' = [lock EXCEPT ![q.owner] = r]
        /\ lock[q.owner] = NoOne
    BY <1>2, <2>1 DEF CreateLock, LockFree
  <2>3. Locked'
    <3> SUFFICES ASSUME NEW s \in Requests, request'[s].pc \in {"count", "insert"}
                 PROVE  lock'[request'[s].owner] = s
      BY DEF Locked
    <3>1. CASE s = r
      BY <1>0, <2>1, <2>2, <3>1 DEF Moves, TypeOK
    <3>2. CASE s # r
      <4>1. request'[s] = request[s] /\ lock[request[s].owner] = s /\ request[s] \in Request
        BY <2>1, <3>2, <1>0 DEF Moves, LimitInv, Locked, TypeOK
      <4>2. request[s].owner \in Employers
        BY <4>1, RequestForms
      <4>3. request[s].owner # q.owner
        BY <2>2, <4>1, SlotAssumption
      <4> QED BY <1>0, <2>2, <4>1, <4>2, <4>3 DEF TypeOK
    <3> QED BY <3>1, <3>2
  <2>4. Room' /\ ActiveLimitKept'
    <3>1. \A e : ActiveOf(e)' = ActiveOf(e)
      BY <2>2 DEF ActiveOf, Open, Created
    <3>2. \A s \in Requests : request'[s].pc = "insert" => request'[s] = request[s]
      BY <2>1 DEF Moves
    <3> QED BY <3>1, <3>2 DEF LimitInv, Room, ActiveLimitKept
  <2> QED BY <1>0, <2>3, <2>4 DEF LimitInv
<1>3. ASSUME NEW r \in Requests, CreateCount(r) PROVE LimitInv'
  <2>1. PICK q : /\ Moves(r, q) /\ q.pc = "insert"
                 /\ q.owner = request[r].owner /\ q.owner \in Employers
    BY <1>0, <1>3, CreateMoves
  <2>2. /\ assessment' = assessment /\ lock' = lock /\ request[r].pc = "count"
        /\ Cardinality(ActiveOf(q.owner)) < Limit
    BY <1>3, <2>1 DEF CreateCount
  <2>3. Locked'
    BY <2>1, <2>2 DEF Moves, LimitInv, Locked
  <2>4. Room' /\ ActiveLimitKept'
    <3>1. \A e : ActiveOf(e)' = ActiveOf(e)
      BY <2>2 DEF ActiveOf, Open, Created
    <3> QED BY <2>1, <2>2, <3>1 DEF Moves, LimitInv, Room, ActiveLimitKept
  <2> QED BY <1>0, <2>3, <2>4 DEF LimitInv
<1>4. ASSUME NEW r \in Requests, NEW a \in Assessments, CreateInsert(r, a) PROVE LimitInv'
  <2>0. /\ request[r].owner \in Employers /\ request[r].kind \in Kinds
        /\ \E q : Moves(r, q) /\ q.pc \in {"idle", "tell"}
    BY <1>0, <1>4, CreateMoves, NextTypes
  <2>1a. PICK q : Moves(r, q) /\ q.pc \in {"idle", "tell"}
    BY <2>0
  <2>1b. PICK o \in Employers : o = request[r].owner
    BY <2>0
  <2>1. /\ Moves(r, q) /\ q.pc \in {"idle", "tell"}
        /\ o = request[r].owner /\ request[r].kind \in Kinds
    BY <2>0, <2>1a, <2>1b
  <2>2. /\ request[r].pc = "insert" /\ ~Created(a) /\ lock' = Unlocked(r)
        /\ assessment' = [assessment EXCEPT ![a] = [owner |-> o, kind |-> request[r].kind,
                                                    active |-> TRUE]]
    BY <1>4, <2>1 DEF CreateInsert
  <2>3. \A s \in Requests : request'[s].pc \in {"count", "insert"} =>
          /\ s # r /\ request'[s] = request[s] /\ lock[request[s].owner] = s
          /\ request[s].owner \in Employers /\ request[s].owner # o
    <3> SUFFICES ASSUME NEW s \in Requests, request'[s].pc \in {"count", "insert"}
                 PROVE  /\ s # r /\ request'[s] = request[s] /\ lock[request[s].owner] = s
                        /\ request[s].owner \in Employers /\ request[s].owner # o
      OBVIOUS
    <3>1. s # r /\ request'[s] = request[s]
      BY <2>1 DEF Moves
    <3>2. lock[request[s].owner] = s /\ lock[o] = r
      BY <2>1, <2>2, <3>1 DEF LimitInv, Locked
    <3>3. request[s] \in Request
      BY <1>0 DEF TypeOK
    <3>4. request[s].owner \in Employers
      BY <3>1, <3>3, RequestForms
    <3> QED BY <3>1, <3>2, <3>4
  <2>4. Locked'
    BY <2>2, <2>3 DEF Locked, Unlocked
  <2>5. /\ ActiveOf(o)' \subseteq ActiveOf(o) \cup {a}
        /\ \A e \in Employers \ {o} : ActiveOf(e)' \subseteq ActiveOf(e)
    <3>1. /\ assessment'[a] = [owner |-> o, kind |-> request[r].kind, active |-> TRUE]
          /\ assessment'[a].owner = o
          /\ \A b \in Assessments \ {a} : assessment'[b] = assessment[b]
      BY <1>0, <2>2 DEF TypeOK
    <3> QED BY <3>1 DEF ActiveOf, Open, Created
  <2>6. Room'
    <3>1. ASSUME NEW e \in Employers \ {o}, Cardinality(ActiveOf(e)) < Limit
          PROVE  Cardinality(ActiveOf(e)') < Limit
      <4>1. /\ Cardinality(ActiveOf(e)') <= Cardinality(ActiveOf(e))
            /\ Cardinality(ActiveOf(e)') \in Nat
        BY <2>5, ActiveFinite, FS_Subset, FS_CardinalityType
      <4> QED BY <3>1, <4>1, ActiveFinite, LimitAssumption
    <3> QED BY <2>1, <2>3, <3>1 DEF LimitInv, Room
  <2>7. ASSUME NEW e \in Employers PROVE Cardinality(ActiveOf(e)') <= Limit
    <3>1. CASE e = o
      <4>1. Cardinality(ActiveOf(o)) < Limit
        BY <2>1, <2>2 DEF LimitInv, Room
      <4>2. /\ IsFiniteSet(ActiveOf(o) \cup {a})
            /\ Cardinality(ActiveOf(o) \cup {a}) <= Cardinality(ActiveOf(o)) + 1
            /\ Cardinality(ActiveOf(o) \cup {a}) \in Nat
        <5>1. IsFiniteSet(ActiveOf(o)) /\ Cardinality(ActiveOf(o)) \in Nat
          BY ActiveFinite
        <5>2. /\ IsFiniteSet(ActiveOf(o) \cup {a})
              /\ \/ Cardinality(ActiveOf(o) \cup {a}) = Cardinality(ActiveOf(o))
                 \/ Cardinality(ActiveOf(o) \cup {a}) = Cardinality(ActiveOf(o)) + 1
          BY <5>1, FS_AddElement
        <5> QED BY <5>1, <5>2
      <4>3. /\ Cardinality(ActiveOf(o)') <= Cardinality(ActiveOf(o) \cup {a})
            /\ Cardinality(ActiveOf(o)') \in Nat
        BY <2>5, <4>2, FS_Subset, FS_CardinalityType
      <4> QED BY <3>1, <4>1, <4>2, <4>3, ActiveFinite, LimitAssumption
    <3>2. CASE e # o
      <4>1. /\ Cardinality(ActiveOf(e)') <= Cardinality(ActiveOf(e))
            /\ Cardinality(ActiveOf(e)') \in Nat
        BY <2>5, <3>2, ActiveFinite, FS_Subset, FS_CardinalityType
      <4>2. Cardinality(ActiveOf(e)) <= Limit
        BY DEF LimitInv, ActiveLimitKept
      <4> QED BY <4>1, <4>2, ActiveFinite, LimitAssumption
    <3> QED BY <3>1, <3>2
  <2>8. ActiveLimitKept'
    BY <2>7 DEF ActiveLimitKept
  <2> QED BY <1>0, <2>4, <2>6, <2>8 DEF LimitInv
<1> QED BY <1>1, <1>2, <1>3, <1>4 DEF CreateNext

LEMMA LimitOthers ==
  ASSUME LimitInv, InviteNext \/ SubmitNext \/ WorldNext PROVE LimitInv'
<1>0. TypeOK /\ TypeOK'
  BY TypeInvite, TypeSubmit, TypeWorld DEF LimitInv
<1>1. ASSUME InviteNext \/ SubmitNext \/ \E r \in Requests : End(r) PROVE LimitInv'
  <2>1. \E r \in Requests : \E q : /\ Moves(r, q) /\ q.pc \notin {"count", "insert"}
                                   /\ assessment' = assessment
                                   /\ lock' = lock \/ lock' = Unlocked(r)
    <3>1. CASE InviteNext
      <4>1. PICK r \in Requests :
              \/ \E a \in Busy, all \in SUBSET People : InviteFind(r, a, all)
              \/ InviteSave(r)
              \/ \E p \in People, n \in {0, 1} : TellStep(r, p, n)
        BY <3>1 DEF InviteNext, Tell, TellFails
      <4>2. \E q : Moves(r, q) /\ q.pc \notin {"count", "insert"}
        <5>1. CASE \E a \in Busy, all \in SUBSET People : InviteFind(r, a, all)
          BY <1>0, <5>1, InviteMoves, BusyAssumption
        <5>2. CASE InviteSave(r)
          BY <1>0, <5>2, InviteMoves, NextTypes
        <5>3. CASE \E p \in People, n \in {0, 1} : TellStep(r, p, n)
          <6>1. PICK p \in People, n \in {0, 1} : TellStep(r, p, n)
            BY <5>3
          <6>2. /\ Moves(r, Telling(request[r].assessment, request[r].all \ {p}))
                /\ request[r].assessment \in Assessments
                /\ request[r].all \ {p} \in SUBSET People
            BY <1>0, <6>1, InviteMoves
          <6> QED BY <6>2, NextTypes
        <5> QED BY <4>1, <5>1, <5>2, <5>3
      <4>3. assessment' = assessment /\ lock' = lock
        BY <4>1 DEF InviteFind, InviteSave, TellStep
      <4> QED BY <4>2, <4>3
    <3>2. CASE SubmitNext
      <4>1. PICK r \in Requests :
              \/ \E a \in Busy, p \in Emails : RegisterFind(r, a, p)
              \/ RegisterSave(r)
              \/ \E a \in Busy, p \in People : SubmitLoad(r, a, p)
              \/ SubmitCheck(r)
              \/ \E passed, linked \in BOOLEAN : SubmitSave(r, passed, linked)
              \/ \E stored \in BOOLEAN : AnnounceStep(r, stored)
        BY <3>2 DEF SubmitNext
      <4>2. \E q : Moves(r, q) /\ q.pc \notin {"count", "insert"}
        <5>1. CASE \/ \E a \in Busy, p \in Emails : RegisterFind(r, a, p)
                   \/ RegisterSave(r)
                   \/ \E a \in Busy, p \in People : SubmitLoad(r, a, p)
                   \/ SubmitCheck(r)
          BY <1>0, <5>1, SubmitMoves, RequestTypes, BusyAssumption
        <5>2. CASE \E passed, linked \in BOOLEAN : SubmitSave(r, passed, linked)
          BY <1>0, <5>2, SubmitMoves
        <5>3. CASE \E stored \in BOOLEAN : AnnounceStep(r, stored)
          BY <1>0, <5>3, SubmitMoves
        <5> QED BY <4>1, <5>1, <5>2, <5>3
      <4>3. assessment' = assessment /\ lock' = lock
        BY <4>1 DEF RegisterFind, RegisterSave, SubmitLoad, SubmitCheck, SubmitSave, AnnounceStep
      <4> QED BY <4>2, <4>3
    <3>3. CASE \E r \in Requests : End(r)
      BY <1>0, <3>3, EndMoves, RequestTypes DEF End
    <3> QED BY <1>1, <3>1, <3>2, <3>3
  <2>2. Locked' /\ Room' /\ ActiveLimitKept'
    <3>1. PICK r \in Requests : \E q : /\ Moves(r, q) /\ q.pc \notin {"count", "insert"}
                                       /\ assessment' = assessment
                                       /\ lock' = lock \/ lock' = Unlocked(r)
      BY <2>1
    <3>2. PICK q : /\ Moves(r, q) /\ q.pc \notin {"count", "insert"}
                   /\ assessment' = assessment
                   /\ lock' = lock \/ lock' = Unlocked(r)
      BY <3>1
    <3> QED BY <3>2, LimitPlain
  <2> QED BY <1>0, <2>2 DEF LimitInv
<1>2. ASSUME NEW a \in Assessments, DeactivateAssessment(a) PROVE LimitInv'
  <2>1. \A e \in Employers : ActiveOf(e)' \subseteq ActiveOf(e)
    <3>1. /\ ~assessment'[a].active /\ \A b \in Assessments \ {a} : assessment'[b] = assessment[b]
      <4>1. assessment[a] \in Assessment
        BY <1>0, <1>2 DEF DeactivateAssessment, Open, Created, TypeOK
      <4>2. \A x \in Assessment : ~[x EXCEPT !.active = FALSE].active
        BY DEF Assessment
      <4>3. assessment' = [assessment EXCEPT ![a] = [assessment[a] EXCEPT !.active = FALSE]]
        BY <1>2 DEF DeactivateAssessment
      <4> QED BY <1>0, <4>1, <4>2, <4>3 DEF TypeOK
    <3> QED BY <3>1 DEF ActiveOf, Open, Created
  <2>2. lock' = lock /\ request' = request
    BY <1>2 DEF DeactivateAssessment
  <2>3. ASSUME NEW e \in Employers
        PROVE  /\ Cardinality(ActiveOf(e)') <= Limit
               /\ Cardinality(ActiveOf(e)) < Limit => Cardinality(ActiveOf(e)') < Limit
    <3>1. Cardinality(ActiveOf(e)') <= Cardinality(ActiveOf(e)) /\ Cardinality(ActiveOf(e)') \in Nat
      BY <2>1, ActiveShrinks
    <3>2. Cardinality(ActiveOf(e)) <= Limit
      BY DEF LimitInv, ActiveLimitKept
    <3> QED BY <3>1, <3>2, ActiveFinite, LimitAssumption
  <2>4. Room'
    <3>1. ASSUME NEW s \in Requests, request[s].pc = "insert" PROVE request[s].owner \in Employers
      <4>1. request[s] \in Request
        BY <1>0 DEF TypeOK
      <4> QED BY <3>1, <4>1, RequestForms
    <3> QED BY <2>2, <2>3, <3>1 DEF LimitInv, Room
  <2>5. Locked' /\ ActiveLimitKept'
    BY <2>2, <2>3 DEF LimitInv, Locked, ActiveLimitKept
  <2> QED BY <1>0, <2>4, <2>5 DEF LimitInv
<1>3. ASSUME \/ \E i \in Assessments \X Emails : SessionExpires(i)
             \/ \E t \in Talents : DeleteTalent(t)
             \/ \E a \in Busy, t \in Talents : SendAssessmentToCandidate(a, t)
      PROVE  LimitInv'
  <2>1. UNCHANGED <<assessment, lock, request>>
    BY <1>3 DEF SessionExpires, DeleteTalent, SendAssessmentToCandidate
  <2>2. \A e : ActiveOf(e)' = ActiveOf(e)
    BY <2>1 DEF ActiveOf, Open, Created
  <2> QED BY <1>0, <2>1, <2>2 DEF LimitInv, Locked, Room, ActiveLimitKept
<1>4. ASSUME Crash PROVE LimitInv'
  <2>1. /\ assessment' = assessment /\ \A r \in Requests : request'[r].pc = "idle"
    BY <1>4, RequestTypes DEF Crash
  <2>2. \A e : ActiveOf(e)' = ActiveOf(e)
    BY <2>1 DEF ActiveOf, Open, Created
  <2> QED BY <1>0, <2>1, <2>2 DEF LimitInv, Locked, Room, ActiveLimitKept
<1> QED BY <1>1, <1>2, <1>3, <1>4 DEF WorldNext

LEMMA LimitInvariant == Spec => []LimitInv
<1>1. Init => LimitInv
  <2> SUFFICES ASSUME Init PROVE LimitInv
    OBVIOUS
  <2>1. \A e \in Employers : ActiveOf(e) = {}
    BY DEF Init, ActiveOf, Open, Created
  <2>2. \A r \in Requests : request[r].pc = "idle"
    BY RequestTypes DEF Init
  <2> QED BY <2>1, <2>2, TypeInit, FS_EmptySet, LimitAssumption
          DEF LimitInv, Locked, Room, ActiveLimitKept
<1>2. LimitInv /\ [Next]_vars => LimitInv'
  <2> SUFFICES ASSUME LimitInv, [Next]_vars PROVE LimitInv'
    OBVIOUS
  <2>1. CASE UNCHANGED vars
    <3>1. TypeOK'
      BY <2>1, TypeNext DEF LimitInv
    <3> QED BY <2>1, <3>1 DEF vars, LimitInv, Locked, Room, ActiveLimitKept, ActiveOf, Open, Created
  <2> QED BY <2>1, LimitCreate, LimitOthers DEF Next
<1> QED BY <1>1, <1>2, PTL DEF Spec

(* However many creations of an employer overlap, its active assessments   *)
(* never exceed the limit.                                                 *)
THEOREM ActiveLimitHolds == Spec => []ActiveLimitKept
<1>1. LimitInv => ActiveLimitKept
  BY DEF LimitInv
<1> QED BY LimitInvariant, <1>1, PTL

(***************************************************************************)
(* Where a request can be after a step.                                    *)
(***************************************************************************)

LEMMA CreateTo ==
  ASSUME TypeOK, CreateNext, NEW s \in Requests
  PROVE  request'[s] = request[s] \/ request'[s].pc \in {"lock", "count", "insert", "idle", "tell"}
<1>1. PICK r \in Requests :
        \/ \E e \in Employers, kind \in Kinds, all \in SUBSET Talents : CreateStart(r, e, kind, all)
        \/ CreateLock(r) \/ CreateCount(r)
        \/ \E a \in Assessments : CreateInsert(r, a)
  BY DEF CreateNext
<1>2. \E q : Moves(r, q) /\ q.pc \in {"lock", "count", "insert", "idle", "tell"}
  <2>1. CASE \E a \in Assessments : CreateInsert(r, a)
    BY <2>1, CreateMoves, NextTypes
  <2>2. CASE ~\E a \in Assessments : CreateInsert(r, a)
    BY <1>1, <2>2, CreateMoves
  <2> QED BY <2>1, <2>2
<1> QED BY <1>2 DEF Moves

LEMMA InviteTo ==
  ASSUME TypeOK, InviteNext, NEW s \in Requests
  PROVE  request'[s] = request[s] \/ request'[s].pc \in {"invite", "idle", "tell"}
<1>1. PICK r \in Requests :
        \/ \E a \in Busy, all \in SUBSET People : InviteFind(r, a, all)
        \/ InviteSave(r)
        \/ \E p \in People, n \in {0, 1} : TellStep(r, p, n)
  BY DEF InviteNext, Tell, TellFails
<1>2. \E q : Moves(r, q) /\ q.pc \in {"invite", "idle", "tell"}
  <2>1. CASE \E a \in Busy, all \in SUBSET People : InviteFind(r, a, all)
    BY <2>1, InviteMoves, BusyAssumption
  <2>2. CASE InviteSave(r)
    BY <2>2, InviteMoves, NextTypes
  <2>3. CASE \E p \in People, n \in {0, 1} : TellStep(r, p, n)
    <3>1. PICK p \in People, n \in {0, 1} : TellStep(r, p, n)
      BY <2>3
    <3>2. /\ Moves(r, Telling(request[r].assessment, request[r].all \ {p}))
          /\ request[r].assessment \in Assessments
          /\ request[r].all \ {p} \in SUBSET People
      BY <3>1, InviteMoves
    <3> QED BY <3>2, NextTypes
  <2> QED BY <1>1, <2>1, <2>2, <2>3
<1> QED BY <1>2 DEF Moves

Taking(r) ==
  \/ \E a \in Busy, p \in Emails : RegisterFind(r, a, p)
  \/ RegisterSave(r)
  \/ \E a \in Busy, p \in People : SubmitLoad(r, a, p)
  \/ SubmitCheck(r)

LEMMA TakingTo ==
  ASSUME TypeOK, NEW r \in Requests, Taking(r), NEW s \in Requests
  PROVE  request'[s] = request[s] \/ request'[s].pc \in {"register", "check", "submit", "idle"}
<1>1. \E q : Moves(r, q) /\ q.pc \in {"register", "check", "submit", "idle"}
  BY SubmitMoves, RequestTypes, BusyAssumption DEF Taking
<1> QED BY <1>1 DEF Moves

LEMMA SubmitTo ==
  ASSUME TypeOK, SubmitNext, NEW s \in Requests
  PROVE  request'[s] = request[s] \/ request'[s].pc \in {"register", "check", "submit", "idle", "announce"}
<1>1. PICK r \in Requests :
        \/ Taking(r)
        \/ \E passed, linked \in BOOLEAN : SubmitSave(r, passed, linked)
        \/ \E stored \in BOOLEAN : AnnounceStep(r, stored)
  BY DEF SubmitNext, Taking
<1>2. CASE Taking(r)
  BY <1>2, TakingTo
<1>3. CASE \/ \E passed, linked \in BOOLEAN : SubmitSave(r, passed, linked)
            \/ \E stored \in BOOLEAN : AnnounceStep(r, stored)
  <2>1. \E q : Moves(r, q) /\ q.pc \in {"idle", "announce"}
    BY <1>3, SubmitMoves
  <2> QED BY <2>1 DEF Moves
<1> QED BY <1>1, <1>2, <1>3

LEMMA WorldTo ==
  ASSUME TypeOK, WorldNext, NEW s \in Requests
  PROVE  request'[s] = request[s] \/ request'[s].pc = "idle"
<1>1. CASE \E r \in Requests : End(r)
  BY <1>1, EndMoves, RequestTypes DEF Moves
<1>2. CASE Crash
  BY <1>2, RequestTypes DEF Crash
<1> QED BY <1>1, <1>2 DEF WorldNext, DeactivateAssessment, SendAssessmentToCandidate, SessionExpires, DeleteTalent

(***************************************************************************)
(* Notices and results.                                                    *)
(***************************************************************************)

OnRecord(s) == s \in submission \/ s.who \in gone

NoticeInv ==
  /\ TypeOK /\ NoticesTrue
  /\ \A r \in Requests : request[r].pc = "announce" => OnRecord(request[r].next.result)

LEMMA NoticePlain ==
  ASSUME NoticeInv, TypeOK', UNCHANGED <<submission, notice, gone>>,
         \A r \in Requests : request'[r] = request[r] \/ request'[r].pc # "announce"
  PROVE  NoticeInv'
BY DEF NoticeInv, NoticesTrue, OnRecord

LEMMA NoticeStep == NoticeInv /\ [Next]_vars => NoticeInv'
<1> SUFFICES ASSUME NoticeInv, [Next]_vars PROVE NoticeInv'
  OBVIOUS
<1>0. TypeOK /\ TypeOK'
  BY TypeNext DEF NoticeInv
<1>1. CASE CreateNext
  <2>1. UNCHANGED <<submission, notice, gone>>
    BY <1>1 DEF CreateNext, CreateStart, CreateLock, CreateCount, CreateInsert, results
  <2> QED BY <1>0, <1>1, <2>1, CreateTo, NoticePlain
<1>2. CASE InviteNext
  <2>1. UNCHANGED <<submission, notice, gone>>
    BY <1>2 DEF InviteNext, InviteFind, InviteSave, Tell, TellFails, TellStep, results
  <2> QED BY <1>0, <1>2, <2>1, InviteTo, NoticePlain
<1>3. ASSUME NEW r \in Requests, Taking(r) PROVE NoticeInv'
  <2>1. UNCHANGED <<submission, notice, gone>>
    BY <1>3 DEF Taking, RegisterFind, RegisterSave, SubmitLoad, SubmitCheck, results
  <2> QED BY <1>0, <1>3, <2>1, TakingTo, NoticePlain
<1>4. ASSUME NEW r \in Requests, NEW passed \in BOOLEAN, NEW linked \in BOOLEAN,
             SubmitSave(r, passed, linked)
      PROVE  NoticeInv'
  <2> DEFINE s == [assessment |-> request[r].assessment, who |-> request[r].who, passed |-> passed]
  <2>1. PICK q : Moves(r, q) /\ q.pc \in {"idle", "announce"} /\ (q.pc = "announce" => q.next.result = s)
    BY <1>0, <1>4, SubmitMoves
  <2>2. submission' = submission \cup {s} /\ UNCHANGED <<notice, gone>>
    BY <1>4 DEF SubmitSave
  <2> HIDE DEF s
  <2>3. ASSUME NEW t \in Requests, request'[t].pc = "announce"
        PROVE  request'[t].next.result \in submission' \/ request'[t].next.result.who \in gone'
    <3>1. CASE t = r
      BY <2>1, <2>2, <2>3, <3>1 DEF Moves
    <3>2. CASE t # r
      BY <2>1, <2>2, <2>3, <3>2 DEF Moves, NoticeInv, OnRecord
    <3> QED BY <3>1, <3>2
  <2>4. NoticesTrue'
    BY <2>2 DEF NoticeInv, NoticesTrue
  <2> QED BY <1>0, <2>3, <2>4 DEF NoticeInv, OnRecord
<1>5. ASSUME NEW r \in Requests, NEW stored \in BOOLEAN, AnnounceStep(r, stored) PROVE NoticeInv'
  <2>1. PICK q : /\ Moves(r, q) /\ q.pc \in {"idle", "announce"}
                 /\ q.pc = "announce" => q.next.result = request[r].next.result
    BY <1>0, <1>5, SubmitMoves
  <2>2. /\ OnRecord(request[r].next.result) /\ UNCHANGED <<submission, gone>>
        /\ notice' = notice \/ notice' = notice \cup {request[r].next}
    BY <1>5 DEF AnnounceStep, NoticeInv
  <2> QED BY <1>0, <2>1, <2>2 DEF Moves, NoticeInv, NoticesTrue, OnRecord
<1>6. ASSUME NEW t \in Talents, DeleteTalent(t) PROVE NoticeInv'
  <2>1. \A s : OnRecord(s) => OnRecord(s)'
    BY <1>6 DEF DeleteTalent, OnRecord
  <2>2. UNCHANGED <<notice, request>>
    BY <1>6 DEF DeleteTalent
  <2> QED BY <1>0, <2>1, <2>2 DEF NoticeInv, NoticesTrue, OnRecord
<1>7. ASSUME WorldNext, ~\E t \in Talents : DeleteTalent(t) PROVE NoticeInv'
  <2>1. UNCHANGED <<submission, notice, gone>>
    BY <1>7 DEF WorldNext, DeactivateAssessment, SendAssessmentToCandidate, SessionExpires, End,
                Crash, results
  <2> QED BY <1>0, <1>7, <2>1, WorldTo, NoticePlain
<1>8. CASE UNCHANGED vars
  BY <1>0, <1>8, NoticePlain DEF vars, results
<1> QED BY <1>1, <1>2, <1>3, <1>4, <1>5, <1>6, <1>7, <1>8 DEF Next, SubmitNext, Taking

(* What has been announced of a result is the result on record.            *)
THEOREM NoticesTrueHolds == Spec => []NoticesTrue
<1>1. Init => NoticeInv
  BY TypeInit, RequestTypes DEF Init, NoticeInv, NoticesTrue
<1>2. NoticeInv => NoticesTrue
  BY DEF NoticeInv
<1> QED BY <1>1, <1>2, NoticeStep, PTL DEF Spec

(***************************************************************************)
(* Reaching people. A request that is telling somebody of an assessment is *)
(* the only one, the invitation is (or was, before the person left) saved, *)
(* and nobody has told them yet.                                           *)
(***************************************************************************)

Ever(a, p) == <<a, p>> \in invited \/ p \in gone

Tells(q, a, p) == q.pc = "tell" /\ q.assessment = a /\ p \in q.all

ReachedSound ==
  \A a \in Assessments, p \in People :
    \/ reached[<<a, p>>] = 0
    \/ reached[<<a, p>>] = 1 /\ Ever(a, p) /\ Created(a)

InvitedSound == \A a \in Assessments, p \in People : <<a, p>> \in invited => Created(a)

TellSound ==
  \A r \in Requests, a \in Assessments, p \in People :
    Tells(request[r], a, p) => Ever(a, p) /\ Created(a) /\ reached[<<a, p>>] = 0

TellAlone ==
  \A r, s \in Requests, a \in Assessments, p \in People :
    Tells(request[r], a, p) /\ Tells(request[s], a, p) => r = s

InviteSound == \A r \in Requests : request[r].pc = "invite" => Created(request[r].assessment)

ReachInv ==
  /\ TypeOK
  /\ ReachedSound
  /\ InvitedSound
  /\ TellSound
  /\ TellAlone
  /\ InviteSound

LEMMA ReachPlain ==
  ASSUME ReachInv, TypeOK', UNCHANGED reached,
         \A a \in Assessments : Created(a) => Created(a)',
         \A a \in Assessments, p \in People : <<a, p>> \in invited' => <<a, p>> \in invited,
         \A a \in Assessments, p \in People : Ever(a, p) => Ever(a, p)',
         \A r \in Requests : request'[r] = request[r] \/ request'[r].pc \notin {"tell", "invite"}
  PROVE  ReachInv'
<1>1. ReachedSound'
  BY DEF ReachInv, ReachedSound
<1>2. InvitedSound'
  BY DEF ReachInv, InvitedSound
<1>3. TellSound'
  BY DEF ReachInv, TellSound, Tells
<1>4. TellAlone'
  BY DEF ReachInv, TellAlone, Tells
<1>5. InviteSound'
  <2> SUFFICES ASSUME NEW r \in Requests, request'[r].pc = "invite"
               PROVE  Created(request[r].assessment)' /\ request'[r] = request[r]
    BY DEF InviteSound
  <2>1. request'[r] = request[r]
    OBVIOUS
  <2>2. request[r] \in Request
    BY DEF ReachInv, TypeOK
  <2>3. request[r].assessment \in Assessments
    BY <2>1, <2>2, RequestForms
  <2> QED BY <2>1, <2>3 DEF ReachInv, InviteSound, Created
<1> QED BY <1>1, <1>2, <1>3, <1>4, <1>5 DEF ReachInv

(* The step that saves invitations of an assessment and starts telling.    *)
LEMMA ReachSaved ==
  ASSUME ReachInv, TypeOK', NEW r \in Requests, NEW a \in Assessments, NEW all \in SUBSET People,
         Moves(r, Telling(a, all)), UNCHANGED <<reached, gone>>,
         invited' = invited \cup ({a} \X all),
         \A b \in Assessments : Created(b) => Created(b)',
         Created(a)',
         \A p \in all : ~ Ever(a, p) \/ ~ Created(a)
  PROVE  ReachInv'
<1> DEFINE q == Telling(a, all)
<1>1. /\ q.pc \in {"idle", "tell"}
      /\ q.pc = "tell" => q.assessment = a /\ q.all = all
  BY NextTypes
<1>2. request'[r] = q /\ \A s \in Requests \ {r} : request'[s] = request[s]
  BY DEF Moves
<1> HIDE DEF q
<1>3. \A b \in Assessments, p \in People :
        /\ Ever(b, p) => Ever(b, p)'
        /\ p \in all => Ever(a, p)'
  BY DEF Ever
<1>4. ASSUME NEW p \in all
      PROVE  reached[<<a, p>>] = 0 /\ \A s \in Requests : ~ Tells(request[s], a, p)
  BY DEF ReachInv, ReachedSound, TellSound
<1>5. ReachedSound'
  BY <1>3 DEF ReachInv, ReachedSound
<1>6. InvitedSound'
  <2> SUFFICES ASSUME NEW b \in Assessments, NEW p \in People, <<b, p>> \in invited'
               PROVE  Created(b)'
    BY DEF InvitedSound
  <2>1. CASE <<b, p>> \in invited
    BY <2>1 DEF ReachInv, InvitedSound
  <2>2. CASE <<b, p>> \in {a} \X all
    <3>1. b = a
      BY <2>2
    <3> QED BY <3>1
  <2> QED BY <2>1, <2>2
<1>7. ASSUME NEW s \in Requests, NEW b \in Assessments, NEW p \in People, Tells(request'[s], b, p)
      PROVE  \/ s # r /\ Tells(request[s], b, p)
             \/ s = r /\ b = a /\ p \in all
  BY <1>1, <1>2, <1>7 DEF Tells
<1>8. TellSound'
  <2> SUFFICES ASSUME NEW s \in Requests, NEW b \in Assessments, NEW p \in People,
                      Tells(request'[s], b, p)
               PROVE  Ever(b, p)' /\ Created(b)' /\ reached'[<<b, p>>] = 0
    BY DEF TellSound, Tells
  <2>1. CASE s # r /\ Tells(request[s], b, p)
    BY <1>3, <2>1 DEF ReachInv, TellSound
  <2>2. CASE s = r /\ b = a /\ p \in all
    BY <1>3, <1>4, <2>2
  <2> QED BY <1>7, <2>1, <2>2
<1>9. TellAlone'
  <2> SUFFICES ASSUME NEW s \in Requests, NEW t \in Requests,
                      NEW b \in Assessments, NEW p \in People,
                      Tells(request'[s], b, p), Tells(request'[t], b, p)
               PROVE  s = t
    BY DEF TellAlone, Tells
  <2> QED BY <1>4, <1>7 DEF ReachInv, TellAlone
<1>10. InviteSound'
  <2> SUFFICES ASSUME NEW s \in Requests, request'[s].pc = "invite"
               PROVE  Created(request[s].assessment)'
    BY DEF InviteSound
  <2>1. request'[s] = request[s]
    BY <1>1, <1>2
  <2>2. request[s] \in Request
    BY DEF ReachInv, TypeOK
  <2>3. request[s].assessment \in Assessments
    BY <2>1, <2>2, RequestForms
  <2> QED BY <2>1, <2>3 DEF ReachInv, InviteSound
<1> QED BY <1>5, <1>6, <1>8, <1>9, <1>10 DEF ReachInv

LEMMA TellTo ==
  ASSUME ReachInv, TypeOK', NEW r \in Requests, NEW p \in People, NEW n \in {0, 1}, TellStep(r, p, n)
  PROVE  ReachInv'
<1> DEFINE a == request[r].assessment
           all == request[r].all
           q == Telling(a, all \ {p})
<1>0. TypeOK
  BY DEF ReachInv
<1>1. Moves(r, q) /\ a \in Assessments /\ all \in SUBSET People
  BY <1>0, InviteMoves
<1>2. all \ {p} \in SUBSET People
  BY <1>1
<1>3. /\ request[r].pc = "tell" /\ p \in all
      /\ reached' = [reached EXCEPT ![<<a, p>>] = @ + n]
      /\ UNCHANGED <<assessment, invited, gone>>
  BY DEF TellStep
<1>4. /\ q.pc \in {"idle", "tell"}
      /\ q.pc = "tell" => q.assessment = a /\ q.all = all \ {p}
  BY <1>1, <1>2, NextTypes
<1>5. request'[r] = q /\ \A s \in Requests \ {r} : request'[s] = request[s]
  BY <1>1 DEF Moves
<1>6. Tells(request[r], a, p)
  BY <1>3 DEF Tells
<1> HIDE DEF q
<1>7. PICK b \in Assessments : b = a
  BY <1>1
<1>8. ASSUME NEW s \in Requests, NEW c \in Assessments, NEW x \in People, Tells(request'[s], c, x)
      PROVE  Tells(request[s], c, x) /\ <<c, x>> # <<b, p>>
  <2>1. CASE s = r
    BY <1>3, <1>4, <1>5, <1>7, <1>8, <2>1 DEF Tells
  <2>2. CASE s # r
    <3>1. Tells(request[s], c, x)
      BY <1>5, <1>8, <2>2
    <3> QED BY <1>6, <1>7, <2>2, <3>1 DEF ReachInv, TellAlone
  <2> QED BY <2>1, <2>2
<1> HIDE DEF a, all
<1>9. reached \in [Assessments \X People -> Nat] /\ <<b, p>> \in Assessments \X People
  BY <1>0 DEF TypeOK
<1>10. /\ reached'[<<b, p>>] = n
       /\ \A c \in Assessments, x \in People : <<c, x>> # <<b, p>> => reached'[<<c, x>>] = reached[<<c, x>>]
  <2>1. reached[<<b, p>>] = 0
    BY <1>6, <1>7 DEF ReachInv, TellSound
  <2>2. reached'[<<b, p>>] = n
    BY <1>3, <1>7, <1>9, <2>1
  <2>3. \A c \in Assessments, x \in People : <<c, x>> # <<b, p>> => reached'[<<c, x>>] = reached[<<c, x>>]
    BY <1>3, <1>7, <1>9
  <2> QED BY <2>2, <2>3
<1>11. /\ \A c \in Assessments : Created(c)' = Created(c)
       /\ \A c \in Assessments, x \in People : Ever(c, x)' = Ever(c, x)
  BY <1>3 DEF Created, Ever
<1>12. ReachedSound'
  <2>1. Ever(b, p) /\ Created(b)
    BY <1>6, <1>7 DEF ReachInv, TellSound
  <2> SUFFICES ASSUME NEW c \in Assessments, NEW x \in People
               PROVE  \/ reached'[<<c, x>>] = 0
                      \/ reached'[<<c, x>>] = 1 /\ Ever(c, x)' /\ Created(c)'
    BY DEF ReachedSound
  <2>2. CASE <<c, x>> = <<b, p>>
    <3>1. c = b /\ x = p
      BY <2>2
    <3>2. n = 0 \/ n = 1
      OBVIOUS
    <3> QED BY <1>10, <1>11, <2>1, <3>1, <3>2
  <2>3. CASE <<c, x>> # <<b, p>>
    BY <1>10, <1>11, <2>3 DEF ReachInv, ReachedSound
  <2> QED BY <2>2, <2>3
<1>13. InvitedSound'
  BY <1>3, <1>11 DEF ReachInv, InvitedSound
<1>14. TellSound'
  <2> SUFFICES ASSUME NEW s \in Requests, NEW c \in Assessments, NEW x \in People,
                      Tells(request'[s], c, x)
               PROVE  Ever(c, x)' /\ Created(c)' /\ reached'[<<c, x>>] = 0
    BY DEF TellSound, Tells
  <2> QED BY <1>8, <1>10, <1>11 DEF ReachInv, TellSound
<1>15. TellAlone'
  <2> SUFFICES ASSUME NEW s \in Requests, NEW t \in Requests,
                      NEW c \in Assessments, NEW x \in People,
                      Tells(request'[s], c, x), Tells(request'[t], c, x)
               PROVE  s = t
    BY DEF TellAlone, Tells
  <2> QED BY <1>8 DEF ReachInv, TellAlone
<1>16. InviteSound'
  <2> SUFFICES ASSUME NEW s \in Requests, request'[s].pc = "invite"
               PROVE  Created(request[s].assessment)' /\ request'[s] = request[s]
    BY DEF InviteSound
  <2>1. request'[s] = request[s]
    BY <1>4, <1>5
  <2>2. request[s] \in Request
    BY <1>0 DEF TypeOK
  <2>3. request[s].assessment \in Assessments
    BY <2>1, <2>2, RequestForms
  <2> QED BY <1>3, <2>1, <2>3 DEF ReachInv, InviteSound, Created
<1> QED BY <1>12, <1>13, <1>14, <1>15, <1>16 DEF ReachInv

LEMMA ReachStep == ReachInv /\ [Next]_vars => ReachInv'
<1> SUFFICES ASSUME ReachInv, [Next]_vars PROVE ReachInv'
  OBVIOUS
<1>0. TypeOK /\ TypeOK'
  BY TypeNext DEF ReachInv
<1>1. ASSUME NEW r \in Requests,
             \/ \E e \in Employers, kind \in Kinds, all \in SUBSET Talents : CreateStart(r, e, kind, all)
             \/ CreateLock(r) \/ CreateCount(r)
      PROVE  ReachInv'
  <2>1. UNCHANGED <<assessment, invited, reached, gone>>
    BY <1>1 DEF CreateStart, CreateLock, CreateCount, people
  <2>2. \E q : Moves(r, q) /\ q.pc \in {"lock", "count", "insert"}
    BY <1>0, <1>1, CreateMoves
  <2>3. \A s \in Requests : request'[s] = request[s] \/ request'[s].pc \notin {"tell", "invite"}
    BY <2>2 DEF Moves
  <2> QED BY <1>0, <2>1, <2>3, ReachPlain DEF Created, Ever
<1>2. ASSUME NEW r \in Requests, NEW a \in Assessments, CreateInsert(r, a) PROVE ReachInv'
  <2> DEFINE all == request[r].all
  <2>1. Moves(r, Telling(a, all)) /\ all \in SUBSET People
    BY <1>0, <1>2, CreateMoves
  <2>2. /\ ~ Created(a) /\ UNCHANGED <<reached, gone>>
        /\ invited' = invited \cup ({a} \X all)
        /\ assessment' = [assessment EXCEPT ![a] = [owner |-> request[r].owner,
                                                    kind |-> request[r].kind,
                                                    active |-> TRUE]]
    BY <1>2 DEF CreateInsert
  <2>3. \A b \in Assessments : Created(b) \/ b = a => Created(b)'
    BY <1>0, <2>2 DEF Created, TypeOK, NotCreated
  <2> HIDE DEF all
  <2> QED BY <1>0, <2>1, <2>2, <2>3, ReachSaved
<1>3. ASSUME NEW r \in Requests, NEW a \in Busy, NEW all \in SUBSET People, InviteFind(r, a, all)
      PROVE  ReachInv'
  <2> DEFINE q == [pc |-> "invite", assessment |-> a, all |-> all]
  <2>1. /\ a \in Assessments /\ Goes(r, q) /\ Created(a)
        /\ UNCHANGED <<assessment, invited, reached, gone>>
    BY <1>3, BusyAssumption DEF InviteFind, people
  <2>2. q \in Request /\ q.pc = "invite" /\ q.assessment = a
    BY <2>1, RequestTypes
  <2> HIDE DEF q
  <2>3. request'[r] = q /\ \A s \in Requests \ {r} : request'[s] = request[s]
    BY <1>0, <2>1, <2>2, GoesMoves DEF Moves
  <2>4. \A s \in Requests, c \in Assessments, p \in People :
          Tells(request'[s], c, p) => Tells(request[s], c, p)
    BY <2>2, <2>3 DEF Tells
  <2>5. TellSound'
    <3> SUFFICES ASSUME NEW s \in Requests, NEW c \in Assessments, NEW x \in People,
                        Tells(request'[s], c, x)
                 PROVE  Ever(c, x)' /\ Created(c)' /\ reached'[<<c, x>>] = 0
      BY DEF TellSound, Tells
    <3> QED BY <2>1, <2>4 DEF ReachInv, TellSound, Created, Ever
  <2>6. TellAlone'
    <3> SUFFICES ASSUME NEW s \in Requests, NEW t \in Requests,
                        NEW c \in Assessments, NEW x \in People,
                        Tells(request'[s], c, x), Tells(request'[t], c, x)
                 PROVE  s = t
      BY DEF TellAlone, Tells
    <3> QED BY <2>4 DEF ReachInv, TellAlone
  <2>7. InviteSound'
    BY <2>1, <2>2, <2>3 DEF ReachInv, InviteSound, Created
  <2> QED BY <1>0, <2>1, <2>5, <2>6, <2>7 DEF ReachInv, ReachedSound, InvitedSound, Created, Ever
<1>4. ASSUME NEW r \in Requests, InviteSave(r) PROVE ReachInv'
  <2> DEFINE a == request[r].assessment
             all == request[r].all
  <2>1. Moves(r, Telling(a, all)) /\ a \in Assessments /\ all \in SUBSET People
    BY <1>0, <1>4, InviteMoves
  <2>2. /\ UNCHANGED <<assessment, reached, gone>>
        /\ invited' = invited \cup ({a} \X all)
        /\ \A p \in all : ~ Ever(a, p)
    BY <1>4 DEF InviteSave, Uninvited, Ever
  <2>3. Created(a)
    BY <1>4 DEF InviteSave, ReachInv, InviteSound
  <2>4. \A b \in Assessments : Created(b) \/ b = a => Created(b)'
    BY <2>1, <2>2, <2>3 DEF Created
  <2> HIDE DEF a, all
  <2> QED BY <1>0, <2>1, <2>2, <2>4, ReachSaved
<1>5. ASSUME NEW r \in Requests, NEW p \in People, Tell(r, p) \/ TellFails(r, p) PROVE ReachInv'
  BY <1>0, <1>5, TellTo DEF Tell, TellFails
<1>6. CASE SubmitNext
  <2>1. UNCHANGED <<assessment, invited, reached, gone>>
    BY <1>6 DEF SubmitNext, RegisterFind, RegisterSave, SubmitLoad, SubmitCheck, SubmitSave,
                AnnounceStep, people
  <2>2. \A s \in Requests : request'[s] = request[s] \/ request'[s].pc \notin {"tell", "invite"}
    BY <1>0, <1>6, SubmitTo
  <2> QED BY <1>0, <2>1, <2>2, ReachPlain DEF Created, Ever
<1>9. ASSUME NEW b \in Busy, NEW t \in Talents, SendAssessmentToCandidate(b, t) PROVE ReachInv'
  <2>1. /\ UNCHANGED <<assessment, reached, gone, request>>
        /\ invited' = invited \cup {<<b, t>>} /\ Created(b)
    BY <1>9 DEF SendAssessmentToCandidate
  <2>2. \A a \in Assessments, p \in People : Ever(a, p) => Ever(a, p)'
    BY <2>1 DEF Ever
  <2>3. InvitedSound'
    <3> SUFFICES ASSUME NEW a \in Assessments, NEW p \in People, <<a, p>> \in invited'
                 PROVE  Created(a)
      BY <2>1 DEF InvitedSound, Created
    <3> QED BY <2>1 DEF ReachInv, InvitedSound
  <2>4. ReachedSound' /\ TellSound' /\ TellAlone' /\ InviteSound'
    BY <2>1, <2>2 DEF ReachInv, ReachedSound, TellSound, TellAlone, InviteSound, Created
  <2> QED BY <1>0, <2>3, <2>4 DEF ReachInv
<1>7. ASSUME WorldNext, ~ \E b \in Busy, t \in Talents : SendAssessmentToCandidate(b, t) PROVE ReachInv'
  <2>1. UNCHANGED reached /\ invited' \subseteq invited
    BY <1>7 DEF WorldNext, DeactivateAssessment, SessionExpires, End, Crash, DeleteTalent, people
  <2>2. \A a \in Assessments : Created(a) => Created(a)'
    <3>1. ASSUME NEW b \in Assessments, DeactivateAssessment(b)
          PROVE  \A a \in Assessments : Created(a) => Created(a)'
      <4>1. /\ assessment \in [Assessments -> Assessment \cup {NotCreated}]
            /\ Open(b) /\ assessment' = [assessment EXCEPT ![b].active = FALSE]
        BY <1>0, <3>1 DEF TypeOK, DeactivateAssessment
      <4>2. assessment[b] \in Assessment
        BY <4>1 DEF Open, Created
      <4>3. assessment'[b] # NotCreated
        BY <4>1, <4>2 DEF Assessment, NotCreated
      <4> QED BY <4>1, <4>3 DEF Created
    <3>2. ASSUME ~\E b \in Assessments : DeactivateAssessment(b) PROVE UNCHANGED assessment
      BY <1>7, <3>2 DEF WorldNext, SessionExpires, End, Crash, DeleteTalent
    <3> QED BY <3>1, <3>2 DEF Created
  <2>3. \A a \in Assessments, p \in People : Ever(a, p) => Ever(a, p)'
    <3>1. ASSUME NEW t \in Talents, DeleteTalent(t)
          PROVE  \A a \in Assessments, p \in People : Ever(a, p) => Ever(a, p)'
      BY <3>1 DEF DeleteTalent, Ever
    <3>2. ASSUME ~\E t \in Talents : DeleteTalent(t) PROVE UNCHANGED <<invited, gone>>
      BY <1>7, <3>2 DEF WorldNext, DeactivateAssessment, SessionExpires, End, Crash, people
    <3> QED BY <3>1, <3>2 DEF Ever
  <2>4. \A s \in Requests : request'[s] = request[s] \/ request'[s].pc \notin {"tell", "invite"}
    BY <1>0, <1>7, WorldTo
  <2> QED BY <1>0, <2>1, <2>2, <2>3, <2>4, ReachPlain
<1>8. CASE UNCHANGED vars
  BY <1>0, <1>8, ReachPlain DEF vars, people, Created, Ever
<1> QED BY <1>1, <1>2, <1>3, <1>4, <1>5, <1>6, <1>7, <1>8, <1>9 DEF Next, CreateNext, InviteNext

(* Overlapping and repeated invitations reach a person once at most.       *)
THEOREM ReachedAtMostOnceHolds == Spec => []ReachedAtMostOnce
<1>1. Init => ReachInv
  <2> SUFFICES ASSUME Init PROVE ReachInv
    OBVIOUS
  <2>1. /\ \A r \in Requests : request[r].pc = "idle"
        /\ \A a \in Assessments, p \in People : reached[<<a, p>>] = 0 /\ <<a, p>> \notin invited
    BY RequestTypes DEF Init
  <2> QED BY <2>1, TypeInit DEF ReachInv, ReachedSound, InvitedSound, TellSound, TellAlone,
                                InviteSound, Tells
<1>2. ReachInv => ReachedAtMostOnce
  BY DEF ReachInv, ReachedSound, ReachedAtMostOnce
<1> QED BY <1>1, <1>2, ReachStep, PTL DEF Spec

(***************************************************************************)
(* The tables of results implement DecidedOnce: storing a submission is    *)
(* Decide, deleting a talent is Leave, and nothing else touches them.      *)
(***************************************************************************)

LEMMA ResultsInit == Init => Results!Init
BY DEF Init, Results!Init, ResultOf

LEMMA ResultsStep == TypeOK /\ [Next]_vars => [Results!Next]_(Results!vars)
<1> SUFFICES ASSUME TypeOK, [Next]_vars PROVE [Results!Next]_(Results!vars)
  OBVIOUS
<1>1. ASSUME NEW r \in Requests, NEW passed \in BOOLEAN, NEW linked \in BOOLEAN,
             SubmitSave(r, passed, linked)
      PROVE  Results!Next
  <2>0. request[r].assessment \in Assessments /\ request[r].who \in People
    <3>1. request[r] \in Request /\ request[r].pc = "submit"
      BY <1>1 DEF TypeOK, SubmitSave
    <3> QED BY <3>1, RequestForms
  <2>1. PICK a \in Assessments, p \in People : a = request[r].assessment /\ p = request[r].who
    BY <2>0
  <2> DEFINE x == [assessment |-> a, who |-> p, passed |-> passed]
  <2>2. /\ p \notin gone /\ ~ Submitted(a, p)
        /\ submission' = submission \cup {x} /\ gone' = gone
    BY <1>1, <2>1 DEF SubmitSave, Insertable
  <2>3. /\ ResultOf(a, p) = {}
        /\ {y \in submission \cup {x} : y.assessment = a /\ y.who = p} = {x}
    BY <2>2 DEF ResultOf, Submitted
  <2>4. ResultOf(a, p)' = {passed}
    <3>1. {y \in submission' : y.assessment = a /\ y.who = p} = {x}
      BY <2>2, <2>3
    <3> HIDE DEF x
    <3>2. ResultOf(a, p)' = {y.passed : y \in {x}}
      BY <3>1 DEF ResultOf
    <3>3. x.passed = passed
      BY DEF x
    <3> QED BY <3>2, <3>3
  <2>5. ASSUME NEW b \in Assessments, NEW q \in People, <<b, q>> # <<a, p>>
        PROVE  ResultOf(b, q)' = ResultOf(b, q)
    <3>1. ~ (b = a /\ q = p)
      BY <2>5
    <3>2. x.assessment = a /\ x.who = p
      OBVIOUS
    <3> HIDE DEF x
    <3>3. {y \in submission' : y.assessment = b /\ y.who = q}
            = {y \in submission : y.assessment = b /\ y.who = q}
      BY <2>2, <3>1, <3>2
    <3> QED BY <3>3 DEF ResultOf
  <2> DEFINE f == [i \in Assessments \X People |-> ResultOf(i[1], i[2])]
             g == [i \in Assessments \X People |-> ResultOf(i[1], i[2])']
  <2>6. f[<<a, p>>] = {} /\ g = [f EXCEPT ![<<a, p>>] = {passed}]
    <3>1. ASSUME NEW b \in Assessments, NEW q \in People
          PROVE  ResultOf(b, q)' = IF <<b, q>> = <<a, p>> THEN {passed} ELSE ResultOf(b, q)
      BY <2>4, <2>5
    <3>2. ASSUME NEW i \in Assessments \X People
          PROVE  g[i] = IF i = <<a, p>> THEN {passed} ELSE f[i]
      <4>1. i = <<i[1], i[2]>> /\ i[1] \in Assessments /\ i[2] \in People
        OBVIOUS
      <4>2. ResultOf(i[1], i[2])' = IF <<i[1], i[2]>> = <<a, p>> THEN {passed} ELSE ResultOf(i[1], i[2])
        BY <3>1, <4>1
      <4> QED BY <4>1, <4>2
    <3>3. f[<<a, p>>] = {}
      BY <2>3
    <3> HIDE DEF f
    <3>4. f = [i \in Assessments \X People |-> f[i]]
      BY DEF f
    <3>5. g = [i \in Assessments \X People |-> IF i = <<a, p>> THEN {passed} ELSE f[i]]
      BY <3>2
    <3> QED BY <3>3, <3>4, <3>5
  <2>7. Results!Decide(a, p, passed)
    BY <2>2, <2>6 DEF Results!Decide
  <2> QED BY <2>7 DEF Results!Next
<1>2. ASSUME NEW t \in Talents, DeleteTalent(t) PROVE Results!Next
  <2>1. /\ gone' = gone \cup {t} /\ t \in People
        /\ submission' = {s \in submission : s.who # t}
    BY <1>2 DEF DeleteTalent, People
  <2>2. ASSUME NEW b \in Assessments, NEW q \in People
        PROVE  ResultOf(b, q)' = IF q = t THEN {} ELSE ResultOf(b, q)
    <3>1. {y \in submission' : y.assessment = b /\ y.who = q}
            = IF q = t THEN {} ELSE {y \in submission : y.assessment = b /\ y.who = q}
      BY <2>1
    <3> QED BY <3>1 DEF ResultOf
  <2>3. Results!Leave(t)
    BY <2>1, <2>2 DEF Results!Leave
  <2> QED BY <2>1, <2>3 DEF Results!Next
<1>3. ASSUME UNCHANGED <<submission, gone>> PROVE UNCHANGED Results!vars
  BY <1>3 DEF Results!vars, ResultOf
<1>4. CASE CreateNext \/ InviteNext
  <2>1. UNCHANGED <<submission, gone>>
    BY <1>4 DEF CreateNext, CreateStart, CreateLock, CreateCount, CreateInsert, InviteNext,
                InviteFind, InviteSave, Tell, TellFails, TellStep, results
  <2> QED BY <1>3, <2>1
<1>5. ASSUME SubmitNext, ~ \E r \in Requests, passed, linked \in BOOLEAN : SubmitSave(r, passed, linked)
      PROVE  UNCHANGED Results!vars
  <2>1. UNCHANGED <<submission, gone>>
    BY <1>5 DEF SubmitNext, RegisterFind, RegisterSave, SubmitLoad, SubmitCheck, AnnounceStep, results
  <2> QED BY <1>3, <2>1
<1>6. ASSUME WorldNext, ~ \E t \in Talents : DeleteTalent(t) PROVE UNCHANGED Results!vars
  <2>1. UNCHANGED <<submission, gone>>
    BY <1>6 DEF WorldNext, DeactivateAssessment, SendAssessmentToCandidate, SessionExpires, End,
                Crash, results
  <2> QED BY <1>3, <2>1
<1>7. CASE UNCHANGED vars
  BY <1>3, <1>7 DEF vars, results
<1> QED BY <1>1, <1>2, <1>4, <1>5, <1>6, <1>7 DEF Next

(* Whatever submits race, a person has one result of an assessment at      *)
(* most; it never changes, and it goes for good with the person.           *)
THEOREM ResultsImplemented == Spec => ResultsSpec
<1>1. Init => Results!Init
  BY ResultsInit
<1>2. TypeOK /\ [Next]_vars => [Results!Next]_(Results!vars)
  BY ResultsStep
<1> QED BY <1>1, <1>2, TypeCorrect, PTL DEF Spec, ResultsSpec, Results!Spec

=============================================================================
