--------------------------- MODULE JobReadyDigest ---------------------------
(***************************************************************************)
(* The weekly digest that tells employers of new job-ready candidates,     *)
(* EmployerJobReadyDigestService, against the completions of the advanced  *)
(* assessment that stamp verified_at, and restarts of the server.          *)
(*                                                                         *)
(* Time is counted in slots; a digest is deduplicated by a calendar day    *)
(* while its window is a rolling week ending at the instant it runs.  The  *)
(* timer may fire late, by any number of slots.                            *)
(***************************************************************************)
EXTENDS Naturals, FiniteSets

CONSTANTS
  Employers,   (* users with an employer profile                           *)
  Candidates,
  Day,         (* slots in a calendar day                                  *)
  Week,        (* slots in WEEKLY_DIGEST_INTERVAL_MS, 7 days               *)
  Horizon,     (* bound: the last slot; the first is Week                  *)
  MaxStarts    (* bound: how often the server starts                       *)

ASSUME TimeAssumption ==
  /\ Day \in Nat \ {0} /\ Week \in Nat /\ Day <= Week
  /\ Horizon \in Nat /\ Week <= Horizon /\ MaxStarts \in Nat

VARIABLES
  now,
  wants,    (* the candidates that match the preferences of an employer    *)
  writing,  (* verified_at of a pool profile whose write is not committed  *)
  pool,     (* verified_at of the committed pool profiles                  *)
  server,   (* the server process                                          *)
  batch,    (* its run of processWeeklyDigests                             *)
  starts,   (* how many processes there have been                          *)
  notice,   (* the digests in user_notifications                           *)
  mailed,   (* how many mails of a digest were sent                        *)
  late,     (* history: the candidates whose row was committed after the   *)
            (* run that should have seen it                                *)
  failed    (* history: the employers a notification failed for            *)

verification == <<writing, pool, late>>
process == <<server, batch, starts>>
digests == <<notice, mailed, failed>>
vars == <<now, wants, verification, process, digests>>

Time == Week .. Horizon
Never == 0
Verified == Candidates \X Time

Down == [boot |-> Never]
(* boot: when it started; next: when the interval timer is due, a week     *)
(* after the last run; history, fired: the instants it has fired at.       *)
Server == [boot : Time, next : Nat, fired : SUBSET Time]

NoBatch == [ref |-> Never]
(* found: the rows loaded; todo: the employers still to be served; mail:   *)
(* the digests stored and not yet mailed, at most one.                     *)
Batch == [ref : Time, found : SUBSET Verified, todo : SUBSET Employers,
          mail : SUBSET (Employers \X Nat)]

Notice == [employer : Employers, key : Nat, who : SUBSET Verified, by : Nat]

TypeOK ==
  /\ now \in Time
  /\ wants \in [Employers -> SUBSET Candidates]
  /\ writing \in [Candidates -> Time \cup {Never}]
  /\ pool \in [Candidates -> Time \cup {Never}]
  /\ server \in Server \cup {Down}
  /\ batch \in Batch \cup {NoBatch}
  /\ server = Down => batch = NoBatch
  /\ starts \in Nat
  /\ notice \subseteq Notice
  /\ mailed \in [Employers \X (0 .. Horizon) -> Nat]
  /\ late \subseteq Candidates
  /\ failed \subseteq Employers

Init ==
  /\ now = Week
  /\ wants \in [Employers -> SUBSET Candidates]
  /\ writing = [c \in Candidates |-> Never]
  /\ pool = [c \in Candidates |-> Never]
  /\ server = Down
  /\ batch = NoBatch
  /\ starts = 0
  /\ notice = {}
  /\ mailed = [d \in Employers \X (0 .. Horizon) |-> 0]
  /\ late = {}
  /\ failed = {}

(***************************************************************************)
(* EmployerPoolProfileService.upsert, also of a candidate verified before: *)
(* the row is found and the clock is read, then the row is saved.          *)
(***************************************************************************)
UpsertStart(c) ==
  /\ writing[c] = Never
  /\ writing' = [writing EXCEPT ![c] = now]
  /\ UNCHANGED <<now, wants, pool, late, process, digests>>

LastRun == server.next - Week

UpsertSave(c) ==
  /\ writing[c] # Never
  /\ pool' = [pool EXCEPT ![c] = writing[c]]
  /\ writing' = [writing EXCEPT ![c] = Never]
  /\ late' = IF server # Down /\ writing[c] < LastRun
               THEN late \cup {c} ELSE late \ {c}
  /\ UNCHANGED <<now, wants, process, digests>>

(***************************************************************************)
(* processWeeklyDigests                                                    *)
(***************************************************************************)

(* stableDigestWeekStartKey: the day in which the window starts.           *)
Key(ref) == (ref - Week) \div Day

(* verified_at >= start AND verified_at < end                              *)
InWindowBothEnds(t, ref) == ref - Week <= t /\ t <= ref
InWindowNoStart(t, ref) == ref - Week < t /\ t < ref
InWindow(t, ref) == ref - Week <= t /\ t < ref

Load(ref) ==
  [ref |-> ref,
   found |-> {<<c, pool[c]>> : c \in {x \in Candidates :
                                        /\ pool[x] # Never
                                        /\ InWindow(pool[x], ref)}},
   todo |-> {e \in Employers : wants[e] # {}},
   mail |-> {}]

(* onModuleInit runs a digest at once and starts the timer.                *)
Boot ==
  /\ server = Down
  /\ starts < MaxStarts
  /\ starts' = starts + 1
  /\ server' = [boot |-> now, next |-> now + Week, fired |-> {}]
  /\ batch' = Load(now)
  /\ UNCHANGED <<now, wants, verification, digests>>

(* setInterval calls back when the timer is due or later, and arms it anew *)
(* from there; both edges of the window are counted from that instant, and *)
(* not from the last run.  A run is over long before the next.             *)
TimerFires ==
  /\ server # Down
  /\ server.next <= now
  /\ batch = NoBatch
  /\ server' = [server EXCEPT !.next = now + Week, !.fired = @ \cup {now}]
  /\ batch' = Load(now)
  /\ UNCHANGED <<now, wants, verification, starts, digests>>

(* notifyEmployerIfMatches, for one employer after the other.  Nothing     *)
(* else writes digests: the count and the insert are one step.             *)
Matches(e) == {v \in batch.found : v[1] \in wants[e]}
NeverSent(e, key) == FALSE
AlreadySent(e, key) == \E n \in notice : n.employer = e /\ n.key = key

Turn(e) ==
  /\ batch # NoBatch
  /\ batch.mail = {}
  /\ e \in batch.todo

Skip(e) ==
  /\ Turn(e)
  /\ Matches(e) = {} \/ AlreadySent(e, Key(batch.ref))
  /\ batch' = [batch EXCEPT !.todo = @ \ {e}]
  /\ UNCHANGED <<now, wants, verification, server, starts, digests>>

Notify(e) ==
  LET key == Key(batch.ref) IN
  /\ Turn(e)
  /\ Matches(e) # {}
  /\ ~ AlreadySent(e, key)
  /\ notice' = notice \cup {[employer |-> e, key |-> key,
                             who |-> Matches(e), by |-> starts]}
  /\ batch' = [batch EXCEPT !.todo = @ \ {e}, !.mail = {<<e, key>>}]
  /\ UNCHANGED <<now, wants, verification, server, starts, mailed, failed>>

(* The insert fails: logged, and the loop goes on.                         *)
NotifyFails(e) ==
  /\ Turn(e)
  /\ Matches(e) # {}
  /\ failed' = failed \cup {e}
  /\ batch' = [batch EXCEPT !.todo = @ \ {e}]
  /\ UNCHANGED <<now, wants, verification, server, starts, notice, mailed>>

(* sendDigestEmail: sent, or failed and logged.                            *)
Mail(n) ==
  /\ batch # NoBatch
  /\ \E d \in batch.mail :
       /\ mailed' = [mailed EXCEPT ![d] = @ + n]
       /\ batch' = [batch EXCEPT !.mail = @ \ {d}]
  /\ UNCHANGED <<now, wants, verification, server, starts, notice, failed>>

BatchEnds ==
  /\ batch # NoBatch
  /\ batch.todo = {} /\ batch.mail = {}
  /\ batch' = NoBatch
  /\ UNCHANGED <<now, wants, verification, server, starts, digests>>

(***************************************************************************)
(* The world around: the clock, which a write outlasts by one slot at      *)
(* most, and crashes.                                                      *)
(***************************************************************************)
Tick ==
  /\ now < Horizon
  /\ \A c \in Candidates : writing[c] \in {Never, now}
  /\ now' = now + 1
  /\ UNCHANGED <<wants, verification, process, digests>>

CrashOfServer ==
  /\ server # Down
  /\ server' = Down
  /\ UNCHANGED <<now, wants, verification, batch, starts, digests>>

Crash ==
  /\ server # Down
  /\ server' = Down
  /\ batch' = NoBatch
  /\ UNCHANGED <<now, wants, verification, starts, digests>>

BatchNext ==
  \/ \E e \in Employers : Skip(e) \/ Notify(e) \/ NotifyFails(e)
  \/ \E n \in 0 .. 1 : Mail(n)
  \/ BatchEnds

Next ==
  \/ \E c \in Candidates : UpsertStart(c) \/ UpsertSave(c)
  \/ Boot \/ TimerFires \/ BatchNext
  \/ Tick \/ Crash

Spec == Init /\ [][Next]_vars

(***************************************************************************)
(* Properties.                                                             *)
(***************************************************************************)

(* Whatever restarts, an employer gets one digest for a day the windows    *)
(* start in, and no mail of it twice or without it.                        *)
OneDigestADay ==
  /\ \A m, n \in notice : m.employer = n.employer /\ m.key = n.key => m = n
  /\ \A d \in DOMAIN mailed :
       /\ mailed[d] <= 1
       /\ mailed[d] > 0 => AlreadySent(d[1], d[2])

(* The windows of one process do not overlap: it announces a verification  *)
(* to an employer once.  (A process started later may announce it again.)  *)
OncePerProcess ==
  \A m, n \in notice :
    m # n /\ m.employer = n.employer /\ m.by = n.by => m.who \cap n.who = {}

(* ... and whatever day keys earlier processes and runs have used up, a    *)
(* run by the timer leaves nobody out: a candidate verified in the week    *)
(* before it has been announced to every employer who wants one when the   *)
(* run is through with that employer, unless the row came late or the      *)
(* notification failed.                                                    *)
NobodyMissed ==
  server # Down =>
    \A r \in server.fired, e \in Employers \ failed, c \in Candidates \ late :
      /\ c \in wants[e]
      /\ pool[c] \in r - Week .. r - 1
      /\ batch # NoBatch /\ r = batch.ref => e \notin batch.todo
      => \E n \in notice : n.employer = e /\ <<c, pool[c]>> \in n.who

(***************************************************************************)
(* Claims of comments that the code does not keep; see README.             *)
(***************************************************************************)

(* "Weekly batch": the windows of a process leave no gap, so whoever is    *)
(* verified between its start and its last run is in one of them.  A timer *)
(* that fires late opens a gap as long as it is late.                      *)
NoGap ==
  server # Down =>
    \A c \in Candidates \ late :
      pool[c] \in server.boot .. LastRun - 1
        => \E r \in server.fired : pool[c] \in r - Week .. r - 1

(* "Stable dedupe key ... for the rolling digest window": what is left out *)
(* as sent before has been sent before.                                    *)
SkippedWasSent ==
  [][\A e \in Employers :
       /\ batch # NoBatch /\ e \in batch.todo /\ batch' # NoBatch
       /\ e \notin batch'.todo /\ notice' = notice /\ failed' = failed
       => \A v \in Matches(e) :
            \E n \in notice : n.employer = e /\ v \in n.who]_vars
=============================================================================
