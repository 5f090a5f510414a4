------------------------ MODULE JobReadyDigest_proofs ------------------------
(***************************************************************************)
(* Proofs about JobReadyDigest, for every number of employers, candidates  *)
(* and restarts, and every length of the day and the week.                 *)
(***************************************************************************)
EXTENDS JobReadyDigest, TLAPS

(***************************************************************************)
(* The keys of the digests.                                                *)
(***************************************************************************)

LEMMA TimeIsNat == Time \subseteq Nat \ {Never} /\ Week \in Nat \ {0}
BY TimeAssumption DEF Time, Never

(* Whole days: the quotient of a number of slots by the length of a day.   *)
LEMMA WholeDays ==
  ASSUME NEW a \in Nat
  PROVE  /\ a \div Day \in Nat
         /\ Day * (a \div Day) <= a
         /\ a < Day * (a \div Day) + Day
         /\ a \div Day <= a
BY TimeAssumption

(* The key of a run is that of a day within the bound.                     *)
LEMMA KeyType ==
  ASSUME NEW r \in Time
  PROVE  Key(r) \in 0 .. Horizon
<1>1. r - Week \in Nat /\ r - Week <= Horizon
  BY TimeAssumption DEF Time
<1> QED BY <1>1, WholeDays, TimeAssumption DEF Key

(* A later run has not an earlier key.                                     *)
LEMMA KeyMonotone ==
  ASSUME NEW r \in Time, NEW s \in Time, r <= s
  PROVE  Key(r) <= Key(s)
<1>1. r - Week \in Nat /\ s - Week \in Nat /\ r - Week <= s - Week
  BY TimeAssumption DEF Time
<1>2. \A a, b, p, q \in Nat :
        a <= b /\ Day * p <= a /\ b < Day * q + Day => p <= q
  <2> SUFFICES ASSUME NEW a \in Nat, NEW b \in Nat, NEW p \in Nat, NEW q \in Nat,
                      a <= b, Day * p <= a, b < Day * q + Day, q < p
               PROVE  FALSE
    OBVIOUS
  <2>1. Day * (q + 1) <= Day * p
    BY TimeAssumption
  <2> QED BY <2>1, TimeAssumption
<1> QED BY <1>1, <1>2, WholeDays DEF Key

(* A week is a day at least: the run a week later has a key of its own.    *)
LEMMA KeyNext ==
  ASSUME NEW r \in Time, NEW s \in Time, r + Week <= s
  PROVE  Key(r) < Key(s)
<1>1. r - Week \in Nat /\ s - Week \in Nat /\ r - Week + Day <= s - Week
  BY TimeAssumption DEF Time
<1>2. \A a, b, p, q \in Nat :
        a + Day <= b /\ Day * p <= a /\ b < Day * q + Day => p < q
  <2> SUFFICES ASSUME NEW a \in Nat, NEW b \in Nat, NEW p \in Nat, NEW q \in Nat,
                      a + Day <= b, Day * p <= a, b < Day * q + Day, q <= p
               PROVE  FALSE
    OBVIOUS
  <2>1. Day * q <= Day * p
    BY TimeAssumption
  <2> QED BY <2>1, TimeAssumption
<1> QED BY <1>1, <1>2, WholeDays DEF Key

(***************************************************************************)
(* Types.                                                                  *)
(***************************************************************************)

Up == server # Down
Running == batch # NoBatch

(* A process is not mistaken for none, and a run not for none.             *)
LEMMA UpType ==
  ASSUME TypeOK
  PROVE  /\ Up => /\ server \in Server /\ server.boot \in Time
                  /\ server.next \in Nat /\ server.fired \subseteq Time
         /\ Running => /\ Up
                       /\ batch \in Batch
                       /\ batch.ref \in Time
                       /\ batch.found \subseteq Verified
                       /\ batch.todo \subseteq Employers
                       /\ batch.mail \subseteq Employers \X Nat
BY DEF TypeOK, Up, Running, Server, Batch

LEMMA BootType ==
  ASSUME NEW b \in Time, NEW n \in Nat, NEW f \in SUBSET Time
  PROVE  /\ [boot |-> b, next |-> n, fired |-> f] \in Server
         /\ [boot |-> b, next |-> n, fired |-> f] # Down
<1>1. [boot |-> b, next |-> n, fired |-> f].boot # Down.boot
  BY TimeIsNat DEF Down
<1> QED BY <1>1 DEF Server

LEMMA LoadType ==
  ASSUME TypeOK, NEW r \in Time
  PROVE  Load(r) \in Batch /\ Load(r) # NoBatch
<1>1. Load(r).ref # NoBatch.ref
  BY TimeIsNat DEF Load, NoBatch
<1>2. Load(r).found \subseteq Verified
  <2> SUFFICES ASSUME NEW c \in Candidates, pool[c] # Never
               PROVE  <<c, pool[c]>> \in Verified
    BY DEF Load
  <2> QED BY DEF TypeOK, Verified
<1>3. Load(r).todo \subseteq Employers
  BY DEF Load
<1> QED BY <1>1, <1>2, <1>3 DEF Load, Batch

LEMMA TypeStep == TypeOK /\ [Next]_vars => TypeOK'
<1> SUFFICES ASSUME TypeOK, [Next]_vars PROVE TypeOK'
  OBVIOUS
<1> USE DEF verification, process, digests
<1>1. ASSUME NEW c \in Candidates, UpsertStart(c) PROVE TypeOK'
  BY <1>1 DEF UpsertStart, TypeOK
<1>2. ASSUME NEW c \in Candidates, UpsertSave(c) PROVE TypeOK'
  BY <1>2 DEF UpsertSave, TypeOK
<1>3. ASSUME Boot PROVE TypeOK'
  <2>1. now \in Time /\ now + Week \in Nat
    BY TimeIsNat DEF TypeOK
  <2>2. server' \in Server /\ server' # Down /\ batch' \in Batch
    BY <1>3, <2>1, BootType, LoadType DEF Boot
  <2> QED BY <1>3, <2>2 DEF Boot, TypeOK
<1>4. ASSUME TimerFires PROVE TypeOK'
  <2>1. now \in Time /\ now + Week \in Nat /\ server \in Server
    BY <1>4, TimeIsNat, UpType DEF TypeOK, TimerFires, Up
  <2>2. server' = [boot |-> server.boot, next |-> now + Week,
                   fired |-> server.fired \cup {now}]
    BY <1>4, <2>1 DEF TimerFires, Server
  <2>3. server.boot \in Time /\ server.fired \cup {now} \in SUBSET Time
    BY <2>1 DEF Server
  <2>4. server' \in Server /\ server' # Down
    BY <2>1, <2>2, <2>3, BootType
  <2>5. batch' \in Batch
    BY <1>4, <2>1, LoadType DEF TimerFires
  <2> QED BY <1>4, <2>4, <2>5 DEF TimerFires, TypeOK
<1>5. ASSUME BatchNext PROVE TypeOK'
  <2>0. Running /\ batch \in Batch /\ Up
    BY <1>5, UpType DEF BatchNext, Skip, Notify, NotifyFails, Turn, Mail,
                       BatchEnds, Running
  <2>1. ASSUME NEW e \in Employers, Skip(e) PROVE TypeOK'
    BY <2>0, <2>1 DEF Skip, Batch, TypeOK, Up
  <2>2. ASSUME NEW e \in Employers, Notify(e) PROVE TypeOK'
    <3>1. Key(batch.ref) \in Nat
      BY <2>0, KeyType DEF Batch
    <3>2. Matches(e) \subseteq Verified
      BY <2>0 DEF Matches, Batch
    <3>3. [employer |-> e, key |-> Key(batch.ref), who |-> Matches(e),
           by |-> starts] \in Notice
      BY <3>1, <3>2 DEF Notice, TypeOK
    <3>4. batch' \in Batch
      <4>1. {<<e, Key(batch.ref)>>} \subseteq Employers \X Nat
        BY <3>1
      <4> QED BY <2>0, <2>2, <4>1 DEF Notify, Batch
    <3> QED BY <2>0, <2>2, <3>3, <3>4 DEF Notify, TypeOK, Up
  <2>3. ASSUME NEW e \in Employers, NotifyFails(e) PROVE TypeOK'
    BY <2>0, <2>3 DEF NotifyFails, Batch, TypeOK, Up
  <2>4. ASSUME NEW n \in 0 .. 1, Mail(n) PROVE TypeOK'
    <3> PICK d \in batch.mail : /\ mailed' = [mailed EXCEPT ![d] = @ + n]
                                /\ batch' = [batch EXCEPT !.mail = @ \ {d}]
      BY <2>4 DEF Mail
    <3>1. mailed' \in [Employers \X (0 .. Horizon) -> Nat]
      <4>1. \A x \in Employers \X (0 .. Horizon) : mailed[x] \in Nat
        BY DEF TypeOK
      <4>2. d \in Employers \X (0 .. Horizon) => mailed[d] + n \in Nat
        BY <4>1
      <4>3. mailed \in [Employers \X (0 .. Horizon) -> Nat]
        BY DEF TypeOK
      <4> QED BY <4>2, <4>3
    <3>2. batch' \in Batch
      BY <2>0 DEF Batch
    <3> QED BY <2>0, <2>4, <3>1, <3>2 DEF Mail, TypeOK, Up
  <2>5. ASSUME BatchEnds PROVE TypeOK'
    BY <2>5 DEF BatchEnds, TypeOK
  <2> QED BY <1>5, <2>1, <2>2, <2>3, <2>4, <2>5 DEF BatchNext
<1>6. ASSUME Tick PROVE TypeOK'
  BY <1>6, TimeAssumption DEF Tick, TypeOK, Time
<1>7. ASSUME Crash PROVE TypeOK'
  BY <1>7 DEF Crash, TypeOK
<1>8. ASSUME UNCHANGED vars PROVE TypeOK'
  BY <1>8 DEF vars, TypeOK
<1> QED BY <1>1, <1>2, <1>3, <1>4, <1>5, <1>6, <1>7, <1>8 DEF Next

(* The variables of the digest keep their types.                           *)
THEOREM TypeCorrect == Spec => []TypeOK
<1>1. Init => TypeOK
  <2> SUFFICES ASSUME Init PROVE TypeOK
    OBVIOUS
  <2>1. now \in Time
    BY TimeAssumption DEF Init, Time
  <2> QED BY <2>1 DEF Init, TypeOK
<1> QED BY <1>1, TypeStep, PTL DEF Spec

(***************************************************************************)
(* The inductive invariant.                                                *)
(***************************************************************************)

Waits(e) == Running /\ e \in batch.todo

(* A run is made when the process starts and then a week or more after the *)
(* other: the run under way, if there is one, is the last.                 *)
RunsAWeekApart ==
  Up => /\ server.next <= now + Week
        /\ server.boot + Week <= server.next
        /\ Running => batch.ref = LastRun
        /\ \A r \in server.fired :
             server.boot + Week <= r /\ (r = LastRun \/ r + Week <= LastRun)

(* The last run that can have used a key up.                               *)
Latest == IF Up THEN LastRun ELSE now

(* The keys used up are not after that of the last run, and before it for  *)
(* the employers a run of the timer has still to serve.                    *)
KeysBehind ==
  \A n \in notice :
    /\ n.by <= starts
    /\ n.key <= Key(Latest)
    /\ Waits(n.employer) /\ server.boot < LastRun => n.key < Key(LastRun)

(* The windows announced by this process end before the next one begins.   *)
Covered(e) == IF Waits(e) THEN LastRun - Week ELSE LastRun

WindowsBehind ==
  Up => \A n \in notice :
          n.by = starts => \A v \in n.who : v[2] < Covered(n.employer)

(* What a run loaded is what the pool holds for its window, the rows that  *)
(* came late left out.                                                     *)
FoundIsWindow ==
  Running =>
    /\ \A v \in batch.found : InWindow(v[2], LastRun)
    /\ \A c \in Candidates \ late :
         pool[c] # Never /\ InWindow(pool[c], LastRun)
           => <<c, pool[c]>> \in batch.found

(* A mail that is due is of a digest that is stored and was not mailed.    *)
MailDue ==
  Running => \A d \in batch.mail : AlreadySent(d[1], d[2]) /\ mailed[d] = 0

Announced(e, c) == \E n \in notice : n.employer = e /\ <<c, pool[c]>> \in n.who

(* NobodyMissed, also of the employers a run has still to serve.           *)
NobodyMissedSoFar ==
  Up => \A r \in server.fired, e \in Employers \ failed, c \in Candidates \ late :
          r <= Covered(e) /\ c \in wants[e] /\ pool[c] \in r - Week .. r - 1
            => Announced(e, c)

DigestInv ==
  /\ RunsAWeekApart
  /\ KeysBehind
  /\ WindowsBehind
  /\ FoundIsWindow
  /\ MailDue
  /\ OneDigestADay
  /\ OncePerProcess
  /\ NobodyMissedSoFar

(***************************************************************************)
(* The steps of the clock, of the candidates and of the process.           *)
(***************************************************************************)

(* The last run was within the bound, and not before the process started.  *)
LEMMA LastRunType ==
  ASSUME TypeOK, RunsAWeekApart, Up
  PROVE  /\ LastRun \in Time /\ LastRun <= now
         /\ server.boot \in Time /\ server.boot <= LastRun
         /\ server.next = LastRun + Week
         /\ \A r \in server.fired :
              /\ r \in Time /\ r <= LastRun /\ server.boot <= r - Week
              /\ r = LastRun \/ r <= LastRun - Week
<1>1. now \in Time /\ server.boot \in Time /\ server.next \in Nat
  BY UpType DEF TypeOK
<1>2. server.next <= now + Week /\ server.boot + Week <= server.next
  BY <1>1 DEF RunsAWeekApart
<1>3. /\ LastRun \in Time /\ LastRun <= now
      /\ server.boot <= LastRun
      /\ server.next = LastRun + Week
  BY <1>1, <1>2, TimeAssumption DEF LastRun, Time
<1>4. ASSUME NEW r \in server.fired
      PROVE  /\ r \in Time /\ r <= LastRun /\ server.boot <= r - Week
             /\ r = LastRun \/ r <= LastRun - Week
  <2>1. /\ r \in Time /\ server.boot + Week <= r
        /\ r = LastRun \/ r + Week <= LastRun
    BY UpType DEF RunsAWeekApart
  <2> QED BY <1>1, <1>3, <2>1, TimeAssumption DEF Time
<1> QED BY <1>1, <1>3, <1>4

LEMMA NoticeType ==
  ASSUME TypeOK, NEW n \in notice
  PROVE  /\ n.employer \in Employers /\ n.key \in Nat /\ n.by \in Nat
         /\ \A v \in n.who : v[1] \in Candidates /\ v[2] \in Time
BY DEF TypeOK, Notice, Verified

(* Nothing but a verification that is being written changes.               *)
LEMMA WritingStep ==
  ASSUME DigestInv, UNCHANGED <<now, wants, pool, late, process, digests>>
  PROVE  DigestInv'
<1>1. UNCHANGED <<Up, Running, LastRun, Latest>>
  BY DEF process, Up, Running, LastRun, Latest
<1>2. \A e : UNCHANGED <<Waits(e), Covered(e)>>
  BY <1>1 DEF process, Waits, Covered
<1>3. RunsAWeekApart' /\ KeysBehind' /\ WindowsBehind'
  BY <1>1, <1>2 DEF DigestInv, RunsAWeekApart, KeysBehind, WindowsBehind,
                    process, digests
<1>4. FoundIsWindow' /\ MailDue'
  BY <1>1 DEF DigestInv, FoundIsWindow, MailDue, AlreadySent, process, digests
<1>5. OneDigestADay' /\ OncePerProcess'
  BY DEF DigestInv, OneDigestADay, OncePerProcess, AlreadySent, digests
<1>6. NobodyMissedSoFar'
  BY <1>1, <1>2 DEF DigestInv, NobodyMissedSoFar, Announced, process, digests
<1> QED BY <1>3, <1>4, <1>5, <1>6 DEF DigestInv

(* A row that is committed counts for the next run, or is late.            *)
LEMMA SaveStep ==
  ASSUME TypeOK, DigestInv, NEW c \in Candidates, UpsertSave(c)
  PROVE  DigestInv'
<1>0. UNCHANGED <<now, wants, process, digests>>
  BY DEF UpsertSave
<1>1. UNCHANGED <<Up, Running, LastRun, Latest>>
  BY <1>0 DEF process, Up, Running, LastRun, Latest
<1>2. \A e : UNCHANGED <<Waits(e), Covered(e)>>
  BY <1>0, <1>1 DEF process, Waits, Covered
<1>3. RunsAWeekApart' /\ KeysBehind' /\ WindowsBehind'
  BY <1>0, <1>1, <1>2 DEF DigestInv, RunsAWeekApart, KeysBehind, WindowsBehind,
                          process, digests
<1>4. MailDue' /\ OneDigestADay' /\ OncePerProcess'
  BY <1>0, <1>1 DEF DigestInv, MailDue, OneDigestADay, OncePerProcess,
                    AlreadySent, process, digests
(* Of the others nothing has changed; c is late, or verified after the run.*)
<1>5. ASSUME NEW x \in Candidates \ late', Up
      PROVE  \/ x \notin late /\ pool'[x] = pool[x]
             \/ pool'[x] \in Time /\ LastRun <= pool'[x]
  <2>1. CASE x = c
    BY <1>5, <2>1, LastRunType, TimeIsNat
       DEF UpsertSave, TypeOK, DigestInv, Up, Time
  <2>2. CASE x # c
    BY <1>5, <2>2 DEF UpsertSave, TypeOK
  <2> QED BY <2>1, <2>2
<1>6. FoundIsWindow'
  <2> SUFFICES ASSUME Running,
                      NEW x \in Candidates \ late', pool'[x] # Never,
                      InWindow(pool'[x], LastRun)
               PROVE  <<x, pool'[x]>> \in batch.found
    BY <1>0, <1>1 DEF DigestInv, FoundIsWindow, InWindow, process
  <2>1. Up /\ LastRun \in Time
    BY UpType, LastRunType DEF DigestInv
  <2>2. x \notin late /\ pool'[x] = pool[x]
    <3>1. pool'[x] < LastRun
      BY DEF InWindow
    <3>2. ~ (pool'[x] \in Time /\ LastRun <= pool'[x])
      BY <2>1, <3>1, TimeAssumption DEF Time
    <3> QED BY <1>5, <2>1, <3>2
  <2> QED BY <2>2 DEF DigestInv, FoundIsWindow
<1>7. NobodyMissedSoFar'
  <2> SUFFICES ASSUME Up, NEW r \in server.fired, NEW e \in Employers \ failed,
                      NEW x \in Candidates \ late', r <= Covered(e),
                      x \in wants[e], pool'[x] \in r - Week .. r - 1
               PROVE  \E n \in notice : n.employer = e /\ <<x, pool'[x]>> \in n.who
    BY <1>0, <1>1, <1>2 DEF NobodyMissedSoFar, Announced, process, digests
  <2>1. LastRun \in Nat /\ r \in Nat /\ r <= LastRun
    BY LastRunType, TimeIsNat DEF DigestInv
  <2>2. x \notin late /\ pool'[x] = pool[x]
    BY <1>5, <2>1, TimeAssumption DEF Time
  <2> QED BY <2>2 DEF DigestInv, NobodyMissedSoFar, Announced
<1> QED BY <1>3, <1>4, <1>6, <1>7 DEF DigestInv

(* The clock may pass a timer that is due.                                 *)
LEMMA TickStep ==
  ASSUME TypeOK, DigestInv, Tick
  PROVE  DigestInv'
<1>0. UNCHANGED <<wants, verification, process, digests>>
  BY DEF Tick
<1>1. UNCHANGED <<Up, Running, LastRun>>
  BY <1>0 DEF process, Up, Running, LastRun
<1>2. \A e : UNCHANGED <<Waits(e), Covered(e)>>
  BY <1>0, <1>1 DEF process, Waits, Covered
<1>3. now \in Time /\ now' \in Time /\ now' = now + 1
  BY TimeAssumption DEF Tick, TypeOK, Time
<1>4. RunsAWeekApart'
  <2> SUFFICES ASSUME Up PROVE server.next <= now' + Week
    BY <1>0, <1>1 DEF DigestInv, RunsAWeekApart, process
  <2>1. server.next \in Nat /\ server.next <= now + Week
    BY UpType DEF DigestInv, RunsAWeekApart
  <2> QED BY <1>3, <2>1, TimeAssumption DEF Time
<1>5. KeysBehind'
  <2>1. CASE Up
    <3>1. UNCHANGED Latest
      BY <1>1, <2>1 DEF Latest
    <3> QED BY <1>0, <1>1, <1>2, <3>1 DEF DigestInv, KeysBehind, process, digests
  <2>2. CASE ~ Up
    <3>1. Latest = now /\ Latest' = now' /\ ~ Running
      BY <1>1, <2>2, UpType DEF Latest
    <3>2. ASSUME NEW n \in notice PROVE n.key <= Key(now')
      <4>1. n.key <= Key(now) /\ Key(now) <= Key(now')
        BY <1>3, <3>1, KeyMonotone, TimeIsNat DEF DigestInv, KeysBehind
      <4>2. n.key \in Nat /\ Key(now) \in 0 .. Horizon /\ Key(now') \in 0 .. Horizon
        BY <1>3, NoticeType, KeyType
      <4> QED BY <4>1, <4>2, TimeAssumption
    <3>3. Key(Latest)' = Key(now')
      BY <3>1 DEF Key
    <3> QED BY <1>0, <1>1, <1>2, <3>1, <3>2, <3>3
            DEF DigestInv, KeysBehind, Waits, process, digests
  <2> QED BY <2>1, <2>2
<1>6. WindowsBehind' /\ FoundIsWindow' /\ MailDue'
  BY <1>0, <1>1, <1>2 DEF DigestInv, WindowsBehind, FoundIsWindow, MailDue,
                          AlreadySent, verification, process, digests
<1>7. OneDigestADay' /\ OncePerProcess' /\ NobodyMissedSoFar'
  BY <1>0, <1>1, <1>2
     DEF DigestInv, OneDigestADay, OncePerProcess, NobodyMissedSoFar,
         AlreadySent, Announced, verification, process, digests
<1> QED BY <1>4, <1>5, <1>6, <1>7 DEF DigestInv

(* A crash leaves what was stored and mailed.                              *)
LEMMA CrashStep ==
  ASSUME TypeOK, DigestInv, Crash
  PROVE  DigestInv'
<1>0. UNCHANGED <<now, starts, digests>>
  BY DEF Crash
<1>1. ~ Up' /\ ~ Running' /\ Latest' = now
  BY DEF Crash, Up, Running, Latest
<1>2. ASSUME NEW n \in notice PROVE n.by <= starts /\ n.key <= Key(now)
  <2>0. Up /\ Latest = LastRun
    BY DEF Crash, Up, Latest
  <2>1. LastRun \in Time /\ now \in Time /\ LastRun <= now
    BY <2>0, LastRunType DEF DigestInv, TypeOK
  <2>2. n.key <= Key(LastRun) /\ Key(LastRun) <= Key(now)
    BY <2>0, <2>1, KeyMonotone DEF DigestInv, KeysBehind
  <2>3. n.key \in Nat /\ Key(LastRun) \in 0 .. Horizon /\ Key(now) \in 0 .. Horizon
    BY <2>1, NoticeType, KeyType
  <2> QED BY <2>2, <2>3, TimeAssumption DEF DigestInv, KeysBehind
<1>3. Key(Latest)' = Key(now)
  BY <1>1 DEF Key
<1>4. KeysBehind'
  BY <1>0, <1>1, <1>2, <1>3 DEF KeysBehind, Waits, digests
<1>5. OneDigestADay' /\ OncePerProcess'
  BY <1>0 DEF DigestInv, OneDigestADay, OncePerProcess, AlreadySent, digests
<1> QED BY <1>1, <1>4, <1>5
        DEF DigestInv, RunsAWeekApart, WindowsBehind, FoundIsWindow, MailDue,
            NobodyMissedSoFar

(***************************************************************************)
(* A run begins, when the process starts or a week or more after the last. *)
(***************************************************************************)

LEMMA RunBegins ==
  ASSUME TypeOK, NEW b \in Time, b <= now, NEW f \in SUBSET Time,
         \A r \in f : b + Week <= r /\ (r = now \/ r + Week <= now),
         server' = [boot |-> b, next |-> now + Week, fired |-> f],
         batch' = Load(now),
         UNCHANGED <<now, wants, verification, digests>>
  PROVE  /\ Up' /\ Running' /\ LastRun' = now
         /\ server'.boot = b /\ server'.fired = f
         /\ RunsAWeekApart' /\ FoundIsWindow' /\ MailDue'
         /\ \A e \in Employers : wants[e] # {} => Waits(e)'
<1>1. now \in Time /\ now + Week \in Nat /\ b \in Nat /\ now \in Nat /\ Week \in Nat
  BY TimeAssumption DEF TypeOK, Time
<1>2. Up' /\ Running'
  BY <1>1, BootType, LoadType DEF Up, Running
<1>3. /\ server'.next = now + Week /\ server'.boot = b /\ server'.fired = f
      /\ LastRun' = now
  BY <1>1 DEF LastRun
<1>4. batch'.ref = now /\ batch'.mail = {}
  BY DEF Load
<1>5. RunsAWeekApart'
  BY <1>1, <1>3, <1>4 DEF RunsAWeekApart
<1>6. FoundIsWindow'
  <2>1. batch'.found = {<<c, pool[c]>> : c \in {x \in Candidates :
                           pool[x] # Never /\ InWindow(pool[x], now)}}
    BY DEF Load
  <2>2. \A v \in batch'.found : InWindow(v[2], now)
    BY <2>1
  <2>3. \A c \in Candidates : pool[c] # Never /\ InWindow(pool[c], now)
                               => <<c, pool[c]>> \in batch'.found
    BY <2>1
  <2> QED BY <1>3, <2>2, <2>3 DEF FoundIsWindow, InWindow, verification
<1>7. MailDue'
  BY <1>4 DEF MailDue
<1>8. \A e \in Employers : wants[e] # {} => Waits(e)'
  BY <1>2 DEF Waits, Load
<1> QED BY <1>2, <1>3, <1>5, <1>6, <1>7, <1>8

(* A new process has announced nothing and missed nobody.                  *)
LEMMA BootStep ==
  ASSUME TypeOK, DigestInv, Boot
  PROVE  DigestInv'
<1>0. now \in Time /\ now <= now /\ starts \in Nat /\ starts' = starts + 1
  BY TimeIsNat DEF Boot, TypeOK
<1>1. /\ Up' /\ Running' /\ LastRun' = now /\ server'.boot = now
      /\ server'.fired = {}
      /\ RunsAWeekApart' /\ FoundIsWindow' /\ MailDue'
  BY <1>0, RunBegins DEF Boot
<1>2. UNCHANGED <<now, wants, pool, late, digests>>
  BY DEF Boot, verification
<1>3. ASSUME NEW n \in notice
      PROVE  /\ n.by \in Nat /\ n.by <= starts
             /\ n.key <= Key(now)
  <2>1. Latest = now
    BY DEF Latest, Up, Boot
  <2> QED BY <2>1, NoticeType DEF DigestInv, KeysBehind
<1>4. KeysBehind'
  <2>1. Latest' = now /\ Key(Latest)' = Key(now)
    BY <1>1, <1>2 DEF Latest, Key
  <2>2. ~ (server.boot < LastRun)'
    BY <1>0, <1>1, TimeAssumption DEF Time
  <2>3. \A n \in notice : n.by <= starts'
    BY <1>0, <1>3
  <2> QED BY <1>2, <1>3, <2>1, <2>2, <2>3 DEF KeysBehind, digests
<1>5. WindowsBehind'
  BY <1>0, <1>2, <1>3 DEF WindowsBehind, digests
<1>6. OneDigestADay' /\ OncePerProcess'
  BY <1>2 DEF DigestInv, OneDigestADay, OncePerProcess, AlreadySent, digests
<1>7. NobodyMissedSoFar'
  BY <1>1 DEF NobodyMissedSoFar
<1> QED BY <1>1, <1>4, <1>5, <1>6, <1>7 DEF DigestInv

(* The window of a run by the timer begins where that of the last ended,   *)
(* or later.                                                               *)
LEMMA TimerStep ==
  ASSUME TypeOK, DigestInv, TimerFires
  PROVE  DigestInv'
<1>0. Up /\ ~ Running /\ now \in Time
  BY DEF TimerFires, Up, Running, TypeOK
<1>1. /\ LastRun \in Time /\ server.boot \in Time
      /\ server.boot <= LastRun /\ LastRun + Week <= now
      /\ \A r \in server.fired :
           r \in Time /\ r <= LastRun /\ server.boot <= r - Week
  BY <1>0, LastRunType DEF DigestInv, TimerFires
<1>2. server.boot <= now /\ server.boot < now /\ LastRun <= now - Week
  BY <1>0, <1>1, TimeAssumption DEF Time
<1> DEFINE f == server.fired \cup {now}
<1>3. server' = [boot |-> server.boot, next |-> now + Week, fired |-> f]
  BY <1>0, UpType DEF TimerFires, Server
<1>a. f \in SUBSET Time
  BY <1>0, <1>1
<1>b. \A r \in f : server.boot + Week <= r /\ (r = now \/ r + Week <= now)
  <2>1. ASSUME NEW r \in server.fired
        PROVE  server.boot + Week <= r /\ r + Week <= now
    BY <1>0, <1>1, TimeAssumption DEF Time
  <2>2. server.boot + Week <= now
    BY <1>0, <1>1, TimeAssumption DEF Time
  <2> QED BY <2>1, <2>2
<1>c. f = server.fired \cup {now}
  OBVIOUS
<1> HIDE DEF f
<1>4. /\ Up' /\ Running' /\ LastRun' = now
      /\ server'.boot = server.boot /\ server'.fired = f
      /\ RunsAWeekApart' /\ FoundIsWindow' /\ MailDue'
      /\ \A e \in Employers : wants[e] # {} => Waits(e)'
  BY <1>1, <1>2, <1>3, <1>a, <1>b, RunBegins DEF TimerFires
<1>5. UNCHANGED <<now, wants, pool, late, starts, digests>>
  BY DEF TimerFires, verification
<1>6. ASSUME NEW e \in Employers
      PROVE  /\ Covered(e) = LastRun
             /\ Covered(e)' = IF Waits(e)' THEN now - Week ELSE now
  <2>1. ~ Waits(e)
    BY <1>0 DEF Waits
  <2>2. (LastRun - Week)' = now - Week
    BY <1>4
  <2> QED BY <1>4, <2>1, <2>2 DEF Covered
<1>7. KeysBehind'
  <2>1. Latest = LastRun /\ Latest' = now
    BY <1>0, <1>4 DEF Latest
  <2>2. Key(LastRun) < Key(now)
    BY <1>0, <1>1, KeyNext, TimeIsNat
  <2>3. ASSUME NEW n \in notice
        PROVE  n.by <= starts /\ n.key <= Key(now) /\ n.key < Key(now)
    <3>1. n.by <= starts /\ n.key <= Key(LastRun)
      BY <2>1 DEF DigestInv, KeysBehind
    <3>2. n.key \in Nat /\ Key(LastRun) \in 0 .. Horizon /\ Key(now) \in 0 .. Horizon
      BY <1>0, <1>1, NoticeType, KeyType
    <3> QED BY <2>2, <3>1, <3>2, TimeAssumption
  <2>4. Key(Latest)' = Key(now) /\ Key(LastRun)' = Key(now)
    BY <1>4, <2>1 DEF Key
  <2> QED BY <1>5, <2>3, <2>4 DEF KeysBehind, digests
<1>8. WindowsBehind'
  <2> SUFFICES ASSUME NEW n \in notice, n.by = starts, NEW v \in n.who
               PROVE  v[2] < Covered(n.employer)'
    BY <1>5 DEF WindowsBehind, digests
  <2>1. n.employer \in Employers /\ v[2] \in Time
    BY NoticeType
  <2>2. v[2] < LastRun
    BY <1>0, <1>6, <2>1 DEF DigestInv, WindowsBehind
  <2> QED BY <1>0, <1>1, <1>2, <1>6, <2>1, <2>2, TimeAssumption DEF Time
<1>9. OneDigestADay' /\ OncePerProcess'
  BY <1>5 DEF DigestInv, OneDigestADay, OncePerProcess, AlreadySent, digests
<1>10. NobodyMissedSoFar'
  <2> SUFFICES ASSUME NEW r \in f, NEW e \in Employers \ failed,
                      NEW c \in Candidates \ late, r <= Covered(e)',
                      c \in wants[e], pool[c] \in r - Week .. r - 1
               PROVE  Announced(e, c)
    BY <1>4, <1>5 DEF NobodyMissedSoFar, Announced, digests
  <2>1. Covered(e)' = now - Week /\ Covered(e) = LastRun
    BY <1>4, <1>6
  <2>2. r \in server.fired
    BY <1>0, <1>c, <2>1, TimeIsNat, TimeAssumption DEF Time
  <2>3. r <= Covered(e)
    BY <1>1, <2>1, <2>2
  <2> QED BY <1>0, <2>2, <2>3 DEF DigestInv, NobodyMissedSoFar
<1> QED BY <1>4, <1>7, <1>8, <1>9, <1>10 DEF DigestInv

(***************************************************************************)
(* The steps of a run.                                                     *)
(***************************************************************************)

(* What a run leaves alone, when it stores no digest.                      *)
LEMMA RunGoesOn ==
  ASSUME TypeOK, DigestInv,
         UNCHANGED <<now, wants, verification, server, starts, notice>>,
         Running' => /\ Running
                     /\ batch'.ref = batch.ref /\ batch'.found = batch.found
                     /\ batch'.todo \subseteq batch.todo
  PROVE  /\ RunsAWeekApart' /\ KeysBehind' /\ WindowsBehind' /\ FoundIsWindow'
         /\ OncePerProcess'
         /\ UNCHANGED <<Up, LastRun>>
<1>1. UNCHANGED <<Up, LastRun, Latest, Key(LastRun), Key(Latest)>>
  BY DEF Up, LastRun, Latest, Key
<1>2. \A e : Waits(e)' => Waits(e)
  BY DEF Waits
<1>3. RunsAWeekApart' /\ FoundIsWindow' /\ OncePerProcess'
  BY <1>1 DEF DigestInv, RunsAWeekApart, FoundIsWindow, OncePerProcess,
              InWindow, verification
<1>4. KeysBehind'
  BY <1>1, <1>2 DEF DigestInv, KeysBehind
<1>5. WindowsBehind'
  <2> SUFFICES ASSUME Up, NEW n \in notice, n.by = starts, NEW v \in n.who
               PROVE  v[2] < Covered(n.employer)'
    BY <1>1 DEF WindowsBehind
  <2>1. v[2] \in Time /\ LastRun \in Time
    BY NoticeType, LastRunType DEF DigestInv
  <2>2. v[2] < Covered(n.employer)
    BY DEF DigestInv, WindowsBehind
  <2>3. Covered(n.employer)' = Covered(n.employer) \/ Covered(n.employer)' = LastRun
    BY <1>1, <1>2 DEF Covered
  <2>4. CASE Covered(n.employer)' = Covered(n.employer)
    BY <2>2, <2>4
  <2>5. CASE Covered(n.employer)' = LastRun
    BY <2>1, <2>2, <2>5, TimeAssumption DEF Covered, Time
  <2> QED BY <2>3, <2>4, <2>5
<1> QED BY <1>1, <1>3, <1>4, <1>5

(* Whoever a run by the timer is to announce was announced, or is among    *)
(* those it found, and its key is not used up.                             *)
LEMMA ToAnnounce ==
  ASSUME TypeOK, DigestInv, NEW e \in Employers \ failed, Waits(e),
         NEW r \in server.fired,
         NEW c \in Candidates \ late, c \in wants[e],
         pool[c] \in r - Week .. r - 1
  PROVE  /\ Announced(e, c) \/ <<c, pool[c]>> \in Matches(e)
         /\ ~ Announced(e, c) => server.boot < LastRun
<1>1. Up /\ Running /\ Covered(e) = LastRun - Week
  BY UpType DEF Waits, Covered
<1>2. /\ server.boot \in Time /\ LastRun \in Time /\ r \in Time
      /\ server.boot <= r - Week
      /\ r = LastRun \/ r <= LastRun - Week
  BY <1>1, LastRunType DEF DigestInv
<1>3. CASE r <= LastRun - Week
  BY <1>1, <1>3 DEF DigestInv, NobodyMissedSoFar
<1>4. CASE r = LastRun
  <2>1. r \in Nat /\ Week \in Nat /\ server.boot \in Nat \ {0} /\ r - Week \in Nat
    BY <1>2, TimeAssumption DEF Time
  <2>2. pool[c] \in Nat /\ r - Week <= pool[c] /\ pool[c] < r
    BY <2>1
  <2>3. InWindow(pool[c], LastRun) /\ pool[c] # Never
    BY <1>2, <1>4, <2>1, <2>2 DEF InWindow, Never
  <2>4. server.boot < LastRun
    BY <1>2, <1>4, <2>1, TimeIsNat
  <2>5. <<c, pool[c]>> \in batch.found
    BY <1>1, <2>3 DEF DigestInv, FoundIsWindow
  <2> QED BY <2>4, <2>5 DEF Matches
<1> QED BY <1>2, <1>3, <1>4

(* A run that is done with an employer has missed nobody if it announced   *)
(* or failed to announce what it owed to the ones it is done with.         *)
LEMMA NobodyMissedIf ==
  ASSUME TypeOK, DigestInv, NEW e \in Employers,
         UNCHANGED <<now, wants, verification, server>>,
         notice \subseteq notice', failed \subseteq failed',
         \A x \in Employers \ {e} : Waits(x)' <=> Waits(x),
         e \notin failed' =>
           \A r \in server.fired, c \in Candidates \ late :
             c \in wants[e] /\ pool[c] \in r - Week .. r - 1 /\ Waits(e)
               => Announced(e, c)'
  PROVE  NobodyMissedSoFar'
<1>1. UNCHANGED <<Up, LastRun>>
  BY DEF Up, LastRun
<1> SUFFICES ASSUME Up, NEW r \in server.fired, NEW x \in Employers \ failed',
                    NEW c \in Candidates \ late, r <= Covered(x)',
                    c \in wants[x], pool[c] \in r - Week .. r - 1
             PROVE  Announced(x, c)'
  BY <1>1 DEF NobodyMissedSoFar, verification
<1>2. r <= LastRun
  BY LastRunType DEF DigestInv
<1>3. Announced(x, c) => Announced(x, c)'
  BY DEF Announced, verification
<1>6. CASE ~ Waits(x)
  <2>1. r <= Covered(x)
    BY <1>2, <1>6 DEF Covered
  <2> QED BY <1>3, <2>1 DEF DigestInv, NobodyMissedSoFar
<1>7. CASE Waits(x) /\ x # e
  <2>1. Covered(x)' = Covered(x)
    BY <1>1, <1>7 DEF Covered
  <2> QED BY <1>3, <2>1 DEF DigestInv, NobodyMissedSoFar
<1>8. CASE Waits(x) /\ x = e
  BY <1>8
<1> QED BY <1>6, <1>7, <1>8

(* Nothing to announce, or the key is used up: only at the start.          *)
LEMMA SkipStep ==
  ASSUME TypeOK, DigestInv, NEW e \in Employers, Skip(e)
  PROVE  DigestInv'
<1>0. /\ UNCHANGED <<now, wants, verification, server, starts, digests>>
      /\ UNCHANGED <<notice, mailed, failed>>
      /\ Running /\ Waits(e)
  BY DEF Skip, Turn, Running, Waits, digests
<1>1. batch \in Batch
  BY <1>0, UpType
<1>2. /\ batch'.ref = batch.ref /\ batch'.found = batch.found
      /\ batch'.mail = batch.mail /\ batch'.todo = batch.todo \ {e}
  BY <1>1 DEF Skip, Batch
<1>3. Running'
  <2>1. batch.ref # NoBatch.ref
    BY <1>1, TimeIsNat DEF Batch, NoBatch
  <2> QED BY <1>2, <2>1 DEF Running
<1>4. /\ RunsAWeekApart' /\ KeysBehind' /\ WindowsBehind' /\ FoundIsWindow'
      /\ OncePerProcess'
  BY <1>0, <1>2, RunGoesOn
<1>5. MailDue' /\ OneDigestADay'
  BY <1>0, <1>2, <1>3 DEF DigestInv, MailDue, OneDigestADay, AlreadySent
<1>6. NobodyMissedSoFar'
  <2>1. \A x \in Employers \ {e} : Waits(x)' <=> Waits(x)
    BY <1>0, <1>2, <1>3 DEF Waits
  <2>2. ASSUME e \notin failed', NEW r \in server.fired,
               NEW c \in Candidates \ late, c \in wants[e],
               pool[c] \in r - Week .. r - 1
        PROVE  Announced(e, c)'
    <3>1. /\ Announced(e, c) \/ <<c, pool[c]>> \in Matches(e)
          /\ ~ Announced(e, c) => server.boot < LastRun
      BY <1>0, <2>2, ToAnnounce
    <3>2. ASSUME AlreadySent(e, Key(batch.ref)), server.boot < LastRun
          PROVE  FALSE
      <4> PICK n \in notice : n.employer = e /\ n.key = Key(batch.ref)
        BY <3>2 DEF AlreadySent
      <4>1. batch.ref = LastRun /\ LastRun \in Time
        BY <1>0, UpType, LastRunType DEF DigestInv, RunsAWeekApart
      <4>2. n.key < Key(LastRun)
        BY <1>0, <3>2 DEF DigestInv, KeysBehind
      <4>3. n.key \in Nat
        BY NoticeType
      <4> QED BY <4>1, <4>2, <4>3
    <3>3. Announced(e, c)
      <4>1. Matches(e) = {} \/ AlreadySent(e, Key(batch.ref))
        BY DEF Skip
      <4>2. CASE Matches(e) = {}
        BY <3>1, <4>2
      <4> QED BY <3>1, <3>2, <4>1, <4>2
    <3> QED BY <1>0, <3>3 DEF Announced, verification
  <2> QED BY <1>0, <2>1, <2>2, NobodyMissedIf
<1> QED BY <1>4, <1>5, <1>6 DEF DigestInv

(* A digest that is not stored is reported as failed.                      *)
LEMMA FailStep ==
  ASSUME TypeOK, DigestInv, NEW e \in Employers, NotifyFails(e)
  PROVE  DigestInv'
<1>0. /\ UNCHANGED <<now, wants, verification, server, starts, notice, mailed>>
      /\ failed' = failed \cup {e}
      /\ Running /\ Waits(e)
  BY DEF NotifyFails, Turn, Running, Waits
<1>1. batch \in Batch
  BY <1>0, UpType
<1>2. /\ batch'.ref = batch.ref /\ batch'.found = batch.found
      /\ batch'.mail = batch.mail /\ batch'.todo = batch.todo \ {e}
  BY <1>1 DEF NotifyFails, Batch
<1>3. Running'
  <2>1. batch.ref # NoBatch.ref
    BY <1>1, TimeIsNat DEF Batch, NoBatch
  <2> QED BY <1>2, <2>1 DEF Running
<1>4. /\ RunsAWeekApart' /\ KeysBehind' /\ WindowsBehind' /\ FoundIsWindow'
      /\ OncePerProcess'
  BY <1>0, <1>2, RunGoesOn
<1>5. MailDue' /\ OneDigestADay'
  BY <1>0, <1>2, <1>3 DEF DigestInv, MailDue, OneDigestADay, AlreadySent
<1>6. NobodyMissedSoFar'
  <2>1. \A x \in Employers \ {e} : Waits(x)' <=> Waits(x)
    BY <1>0, <1>2, <1>3 DEF Waits
  <2> QED BY <1>0, <2>1, NobodyMissedIf
<1> QED BY <1>4, <1>5, <1>6 DEF DigestInv

(* A mail is sent once: what is sent is no longer due.                     *)
LEMMA MailStep ==
  ASSUME TypeOK, DigestInv, NEW n \in 0 .. 1, Mail(n)
  PROVE  DigestInv'
<1> PICK d \in batch.mail : /\ mailed' = [mailed EXCEPT ![d] = @ + n]
                            /\ batch' = [batch EXCEPT !.mail = @ \ {d}]
  BY DEF Mail
<1>0. /\ UNCHANGED <<now, wants, verification, server, starts, notice, failed>>
      /\ Running
  BY DEF Mail, Running
<1>1. batch \in Batch
  BY <1>0, UpType
<1>2. /\ batch'.ref = batch.ref /\ batch'.found = batch.found
      /\ batch'.mail = batch.mail \ {d} /\ batch'.todo = batch.todo
  BY <1>1 DEF Batch
<1>3. Running'
  <2>1. batch.ref # NoBatch.ref
    BY <1>1, TimeIsNat DEF Batch, NoBatch
  <2> QED BY <1>2, <2>1 DEF Running
<1>4. /\ RunsAWeekApart' /\ KeysBehind' /\ WindowsBehind' /\ FoundIsWindow'
      /\ OncePerProcess'
  BY <1>0, <1>2, RunGoesOn
<1>5. /\ DOMAIN mailed' = DOMAIN mailed
      /\ \A x \in DOMAIN mailed : x # d => mailed'[x] = mailed[x]
      /\ d \in DOMAIN mailed => mailed'[d] = mailed[d] + n
  BY DEF TypeOK
<1>6. AlreadySent(d[1], d[2]) /\ mailed[d] = 0
  BY <1>0 DEF DigestInv, MailDue
<1>7. \A e, k : AlreadySent(e, k)' <=> AlreadySent(e, k)
  BY <1>0 DEF AlreadySent
<1>8. MailDue'
  <2> SUFFICES ASSUME NEW x \in batch.mail, x # d
               PROVE  AlreadySent(x[1], x[2])' /\ mailed'[x] = 0
    BY <1>2, <1>3 DEF MailDue
  <2>1. AlreadySent(x[1], x[2]) /\ mailed[x] = 0
    BY <1>0 DEF DigestInv, MailDue
  <2>2. mailed'[x] = mailed[x]
    <3>1. x \in Employers \X (0 .. Horizon)
      <4>1. x \in Employers \X Nat
        BY <1>1 DEF Batch
      <4> PICK m \in notice : m.employer = x[1] /\ m.key = x[2]
        BY <2>1 DEF AlreadySent
      <4>2. m.key <= Key(Latest) /\ Latest \in Time
        BY <1>0, UpType, LastRunType DEF DigestInv, KeysBehind, Latest
      <4>3. x[2] \in 0 .. Horizon
        BY <4>1, <4>2, KeyType, TimeAssumption
      <4> QED BY <4>1, <4>3
    <3> QED BY <1>5, <3>1 DEF TypeOK
  <2> QED BY <1>7, <2>1, <2>2
<1>9. OneDigestADay'
  <2>1. \A x \in DOMAIN mailed' :
          mailed'[x] <= 1 /\ (mailed'[x] > 0 => AlreadySent(x[1], x[2]))
    BY <1>5, <1>6 DEF DigestInv, OneDigestADay
  <2> QED BY <1>0, <1>7, <2>1 DEF DigestInv, OneDigestADay
<1>10. NobodyMissedSoFar'
  <2>1. \A x : Waits(x)' <=> Waits(x)
    BY <1>0, <1>2, <1>3 DEF Waits
  <2>2. UNCHANGED <<Up, LastRun>>
    BY <1>0 DEF Up, LastRun
  <2>3. \A x : Covered(x)' = Covered(x)
    BY <2>1, <2>2 DEF Covered
  <2> QED BY <1>0, <2>2, <2>3
          DEF DigestInv, NobodyMissedSoFar, Announced, verification
<1> QED BY <1>4, <1>8, <1>9, <1>10 DEF DigestInv

(* A digest is stored under a key no other has, for a window after those   *)
(* of the digests of this process.                                         *)
LEMMA NotifyStep ==
  ASSUME TypeOK, DigestInv, NEW e \in Employers, Notify(e)
  PROVE  DigestInv'
<1> DEFINE key == Key(batch.ref)
           new == [employer |-> e, key |-> key, who |-> Matches(e), by |-> starts]
<1>0. /\ UNCHANGED <<now, wants, verification, server, starts, mailed, failed>>
      /\ notice' = notice \cup {new}
      /\ Running /\ Waits(e) /\ Up
      /\ ~ AlreadySent(e, key)
  BY UpType DEF Notify, Turn, Running, Waits
<1>1. batch \in Batch /\ batch.ref \in Time /\ batch.ref = LastRun
  BY <1>0, UpType DEF DigestInv, RunsAWeekApart
<1>2. key \in 0 .. Horizon /\ <<e, key>> \in Employers \X (0 .. Horizon)
  BY <1>1, KeyType
<1>3. /\ batch'.ref = batch.ref /\ batch'.found = batch.found
      /\ batch'.mail = {<<e, key>>} /\ batch'.todo = batch.todo \ {e}
  BY <1>1 DEF Notify, Batch
<1>4. Running'
  <2>1. batch.ref # NoBatch.ref
    BY <1>1, TimeIsNat DEF NoBatch
  <2> QED BY <1>3, <2>1 DEF Running
<1>5. UNCHANGED <<Up, LastRun, Latest, Key(LastRun), Key(Latest)>>
  BY <1>0 DEF Up, LastRun, Latest, Key
<1>6. ~ Waits(e)' /\ \A x : x # e => (Waits(x)' <=> Waits(x))
  BY <1>0, <1>3, <1>4 DEF Waits
<1>7. /\ new.employer = e /\ new.key = key /\ new.who = Matches(e)
      /\ new.by = starts
  OBVIOUS
<1>8. mailed[<<e, key>>] = 0
  <2>1. mailed[<<e, key>>] \in Nat /\ <<e, key>> \in DOMAIN mailed
    BY <1>2 DEF TypeOK
  <2>2. ~ (mailed[<<e, key>>] > 0)
    BY <1>0, <2>1 DEF DigestInv, OneDigestADay
  <2> QED BY <2>1, <2>2
<1> HIDE DEF key, new
<1>9. \A k : k = key => AlreadySent(e, k)'
  <2>1. new \in notice'
    BY <1>0
  <2> QED BY <1>7, <2>1 DEF AlreadySent
<1>10. RunsAWeekApart' /\ FoundIsWindow'
  BY <1>0, <1>3, <1>5
     DEF DigestInv, RunsAWeekApart, FoundIsWindow, InWindow, verification
<1>11. KeysBehind'
  <2> SUFFICES ASSUME NEW n \in notice'
               PROVE  /\ n.by <= starts /\ n.key <= Key(Latest)
                      /\ Waits(n.employer)' /\ server.boot < LastRun
                           => n.key < Key(LastRun)
    BY <1>0, <1>5 DEF KeysBehind
  <2>1. CASE n \in notice
    BY <1>6, <2>1 DEF DigestInv, KeysBehind
  <2>2. CASE n = new
    <3>1. Latest = LastRun /\ key = Key(LastRun)
      BY <1>0, <1>1 DEF Latest, key
    <3> QED BY <1>2, <1>6, <1>7, <2>2, <3>1, TimeAssumption DEF TypeOK
  <2> QED BY <1>0, <2>1, <2>2
<1>12. \A v \in Matches(e) : InWindow(v[2], LastRun) /\ v \in Verified
  BY <1>0, <1>1 DEF DigestInv, FoundIsWindow, Matches, Batch
<1>13. WindowsBehind'
  <2> SUFFICES ASSUME NEW n \in notice', n.by = starts, NEW v \in n.who
               PROVE  v[2] < Covered(n.employer)'
    BY <1>0 DEF WindowsBehind
  <2>0. LastRun \in Time /\ Covered(e)' = LastRun
    BY <1>1, <1>5, <1>6 DEF Covered
  <2>1. CASE n = new
    BY <1>7, <1>12, <2>0, <2>1 DEF InWindow
  <2>2. CASE n \in notice
    <3>1. v[2] \in Time /\ v[2] < Covered(n.employer)
      BY <1>0, <2>2, NoticeType DEF DigestInv, WindowsBehind
    <3>2. CASE n.employer = e
      <4>1. v[2] < LastRun - Week
        BY <1>0, <3>1, <3>2 DEF Covered
      <4> QED BY <2>0, <3>1, <3>2, <4>1, TimeAssumption DEF Time
    <3>3. CASE n.employer # e
      <4>1. Covered(n.employer)' = Covered(n.employer)
        BY <1>5, <1>6, <3>3 DEF Covered
      <4> QED BY <3>1, <4>1
    <3> QED BY <3>2, <3>3
  <2> QED BY <1>0, <2>1, <2>2
<1>14. MailDue'
  <2>1. \A d \in batch'.mail : d = <<e, key>>
    BY <1>3
  <2>2. \A d \in batch'.mail : AlreadySent(d[1], d[2])' /\ mailed[d] = 0
    BY <1>8, <1>9, <2>1
  <2> QED BY <1>0, <2>2 DEF MailDue
<1>15. OneDigestADay'
  <2>1. ASSUME NEW m \in notice', NEW n \in notice',
               m.employer = n.employer, m.key = n.key
        PROVE  m = n
    <3>1. \A x \in notice : ~ (x.employer = e /\ x.key = key)
      BY <1>0 DEF AlreadySent
    <3> QED BY <1>0, <1>7, <2>1, <3>1 DEF DigestInv, OneDigestADay
  <2>2. \A x, k : AlreadySent(x, k) => AlreadySent(x, k)'
    BY <1>0 DEF AlreadySent
  <2>3. \A d \in DOMAIN mailed :
          mailed[d] <= 1 /\ (mailed[d] > 0 => AlreadySent(d[1], d[2])')
    BY <2>2 DEF DigestInv, OneDigestADay
  <2> QED BY <1>0, <2>1, <2>3 DEF OneDigestADay
<1>16. OncePerProcess'
  <2>1. ASSUME NEW n \in notice, n.employer = e, n.by = starts,
               NEW v \in n.who, v \in Matches(e)
        PROVE  FALSE
    <3>1. v[2] \in Time /\ v[2] < LastRun - Week
      BY <1>0, <2>1, NoticeType DEF DigestInv, WindowsBehind, Covered
    <3>2. LastRun - Week <= v[2] /\ LastRun \in Time
      BY <1>1, <1>12, <2>1 DEF InWindow
    <3> QED BY <3>1, <3>2, TimeAssumption DEF Time
  <2> SUFFICES ASSUME NEW m \in notice', NEW n \in notice', m # n,
                      m.employer = n.employer, m.by = n.by
               PROVE  m.who \cap n.who = {}
    BY DEF OncePerProcess
  <2>2. CASE m \in notice /\ n \in notice
    BY <2>2 DEF DigestInv, OncePerProcess
  <2>3. CASE m = new /\ n \in notice
    BY <1>7, <2>1, <2>3
  <2>4. CASE m \in notice /\ n = new
    BY <1>7, <2>1, <2>4
  <2> QED BY <1>0, <2>2, <2>3, <2>4
<1>17. NobodyMissedSoFar'
  <2>1. ASSUME NEW r \in server.fired, NEW c \in Candidates \ late,
               e \notin failed', c \in wants[e], pool[c] \in r - Week .. r - 1
        PROVE  Announced(e, c)'
    <3>1. Announced(e, c) \/ <<c, pool[c]>> \in Matches(e)
      BY <1>0, <2>1, ToAnnounce
    <3>2. CASE Announced(e, c)
      BY <1>0, <3>2 DEF Announced, verification
    <3>3. CASE <<c, pool[c]>> \in Matches(e)
      <4>1. new \in notice' /\ new.employer = e /\ <<c, pool'[c]>> \in new.who
        BY <1>0, <1>7, <3>3 DEF verification
      <4> QED BY <4>1 DEF Announced
    <3> QED BY <3>1, <3>2, <3>3
  <2> QED BY <1>0, <1>6, <2>1, NobodyMissedIf
<1> QED BY <1>10, <1>11, <1>13, <1>14, <1>15, <1>16, <1>17 DEF DigestInv

LEMMA EndStep ==
  ASSUME TypeOK, DigestInv, BatchEnds
  PROVE  DigestInv'
<1>0. /\ UNCHANGED <<now, wants, verification, server, starts>>
      /\ UNCHANGED <<notice, mailed, failed>>
      /\ \A e : ~ Waits(e)
      /\ ~ Running'
  BY DEF BatchEnds, Running, Waits, digests
<1>1. /\ RunsAWeekApart' /\ KeysBehind' /\ WindowsBehind' /\ FoundIsWindow'
      /\ OncePerProcess' /\ UNCHANGED <<Up, LastRun>>
  BY <1>0, RunGoesOn
<1>2. MailDue' /\ OneDigestADay'
  BY <1>0 DEF DigestInv, MailDue, OneDigestADay, AlreadySent
<1>3. \A e : Covered(e)' = Covered(e)
  BY <1>0, <1>1 DEF Covered, Waits
<1>4. NobodyMissedSoFar'
  BY <1>0, <1>1, <1>3 DEF DigestInv, NobodyMissedSoFar, Announced, verification
<1> QED BY <1>1, <1>2, <1>4 DEF DigestInv

(***************************************************************************)
(* The theorems.                                                           *)
(***************************************************************************)

LEMMA DigestStep == TypeOK /\ DigestInv /\ [Next]_vars => DigestInv'
<1> SUFFICES ASSUME TypeOK, DigestInv, [Next]_vars PROVE DigestInv'
  OBVIOUS
<1>1. ASSUME NEW c \in Candidates, UpsertStart(c) PROVE DigestInv'
  BY <1>1, WritingStep DEF UpsertStart
<1>2. ASSUME UNCHANGED vars PROVE DigestInv'
  BY <1>2, WritingStep DEF vars, verification
<1>3. ASSUME BatchNext PROVE DigestInv'
  BY <1>3, SkipStep, NotifyStep, FailStep, MailStep, EndStep DEF BatchNext
<1> QED BY <1>1, <1>2, <1>3, SaveStep, BootStep, TimerStep, TickStep, CrashStep
        DEF Next

LEMMA DigestInit == Init => DigestInv
<1> SUFFICES ASSUME Init PROVE DigestInv
  OBVIOUS
<1>1. ~ Up /\ ~ Running /\ notice = {}
  BY DEF Init, Up, Running
<1>2. \A d \in DOMAIN mailed : mailed[d] = 0
  BY DEF Init
<1>3. RunsAWeekApart /\ KeysBehind /\ WindowsBehind /\ FoundIsWindow /\ MailDue
  BY <1>1 DEF RunsAWeekApart, KeysBehind, WindowsBehind, FoundIsWindow, MailDue
<1>4. OneDigestADay /\ OncePerProcess /\ NobodyMissedSoFar
  BY <1>1, <1>2 DEF OneDigestADay, OncePerProcess, NobodyMissedSoFar
<1> QED BY <1>3, <1>4 DEF DigestInv

THEOREM DigestInvariant == Spec => [](TypeOK /\ DigestInv)
BY DigestInit, DigestStep, TypeCorrect, PTL DEF Spec

(* An employer gets one digest for a day, and at most one mail of it, and  *)
(* none of a digest that is not stored, whatever crashes and restarts.     *)
THEOREM OneDigestADayHolds == Spec => []OneDigestADay
<1>1. DigestInv => OneDigestADay
  BY DEF DigestInv
<1> QED BY <1>1, DigestInvariant, PTL

(* No process announces a verification to an employer twice.               *)
THEOREM OncePerProcessHolds == Spec => []OncePerProcess
<1>1. DigestInv => OncePerProcess
  BY DEF DigestInv
<1> QED BY <1>1, DigestInvariant, PTL

(* A run by the timer, as late as it may be, that is done with an employer *)
(* has announced everybody verified in the week before it, whatever keys   *)
(* the digests of earlier processes and runs have used up.                 *)
THEOREM NobodyMissedHolds == Spec => []NobodyMissed
<1>1. ASSUME TypeOK, DigestInv PROVE NobodyMissed
  <2> SUFFICES ASSUME Up, NEW r \in server.fired, NEW e \in Employers \ failed,
                      NEW c \in Candidates \ late, c \in wants[e],
                      pool[c] \in r - Week .. r - 1,
                      Running /\ r = batch.ref => e \notin batch.todo
               PROVE  Announced(e, c)
    BY DEF NobodyMissed, Announced, Up, Running
  <2>1. r <= LastRun /\ (r = LastRun \/ r <= LastRun - Week)
    BY <1>1, LastRunType DEF DigestInv
  <2>2. Waits(e) => r # LastRun
    BY <1>1 DEF Waits, DigestInv, RunsAWeekApart
  <2>3. r <= Covered(e)
    BY <2>1, <2>2 DEF Covered
  <2> QED BY <2>3, <1>1 DEF DigestInv, NobodyMissedSoFar
<1> QED BY <1>1, DigestInvariant, PTL

(* SkippedWasSent fails only for the run a process starts with: a run of   *)
(* the timer never takes the digest of another run for its own, whatever   *)
(* days its windows start in.                                              *)
TimerSkipsNobody ==
  [][\A e \in Employers : Skip(e) /\ Matches(e) # {} => batch.ref = server.boot]_vars

THEOREM TimerSkipsNobodyHolds == Spec => TimerSkipsNobody
<1>1. ASSUME TypeOK, DigestInv, NEW e \in Employers, Skip(e), Matches(e) # {}
      PROVE  batch.ref = server.boot
  <2>0. Waits(e) /\ Running /\ Up /\ AlreadySent(e, Key(batch.ref))
    BY <1>1, UpType DEF Skip, Turn, Waits, Running
  <2>1. /\ batch.ref = LastRun /\ LastRun \in Time
        /\ server.boot \in Time /\ server.boot <= LastRun
    BY <1>1, <2>0, LastRunType DEF DigestInv, RunsAWeekApart
  <2> PICK n \in notice : n.employer = e /\ n.key = Key(batch.ref)
    BY <2>0 DEF AlreadySent
  <2>2. n.key \in Nat /\ ~ (n.key < Key(LastRun))
    BY <1>1, <2>1, NoticeType
  <2>3. ~ (server.boot < LastRun)
    BY <1>1, <2>0, <2>2 DEF DigestInv, KeysBehind
  <2> QED BY <2>1, <2>3, TimeAssumption DEF Time
<1>2. TypeOK /\ DigestInv /\ [Next]_vars
        => [\A e \in Employers :
              Skip(e) /\ Matches(e) # {} => batch.ref = server.boot]_vars
  BY <1>1
<1> QED BY <1>2, DigestInvariant, PTL DEF Spec, TimerSkipsNobody
=============================================================================
