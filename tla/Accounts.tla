------------------------------ MODULE Accounts ------------------------------
(***************************************************************************)
(* Accounts, their sessions and the one-time codes: auth.service.ts,       *)
(* users.service.ts, the three stores of codes (verification, password     *)
(* reset, e-mail change), the queue that delivers reset codes, and what    *)
(* administrators do to accounts (users.controller.ts, admin-admins).      *)
(*                                                                         *)
(* A request is a sequence of statements with an await between them; the   *)
(* database runs each alone, so one of them is one step here. Nothing is   *)
(* locked: what a request has read may be stale when it writes. What a     *)
(* password is and what a code or a token looks like is left out: a code   *)
(* is the place of its row in its table, a token its number among those    *)
(* that were stored, an identity at Google the address it vouches for.     *)
(***************************************************************************)
EXTENDS Naturals, Sequences, FiniteSets

CONSTANTS
  Users,         \* the ids of accounts
  Emails,        \* the addresses
  NoEmail,       \* the address of a row that is not there or was deleted
  Requests,      \* the requests and jobs the server works on at a time
  ResendLimit,   \* VERIFICATION_RESEND_LIMIT_PER_HOUR
  ResetLimit,    \* PASSWORD_RESET_RATE_LIMIT_PER_HOUR
  MaxStarts,     \* bound: the requests and jobs that are ever begun
  MaxCodes,      \* bound: the codes that are ever issued
  MaxJobs        \* bound: the deliveries that wait for a user

ASSUME AddressAssumption == NoEmail \notin Emails
ASSUME RequestAssumption == IsFiniteSet(Requests)
ASSUME BoundAssumption == /\ MaxStarts \in Nat /\ MaxCodes \in Nat /\ MaxJobs \in Nat
                          /\ ResendLimit \in Nat /\ ResetLimit \in Nat

VARIABLES
  row,      (* users: [user -> its row]                                    *)
  link,     (* user_oauth_accounts: pairs of a user and an identity        *)
  code,     (* the rows of the three code tables, oldest first             *)
  signed,   (* how many refresh tokens have been signed                    *)
  heirs,    (* [token -> how many tokens it was exchanged for]             *)
  jobs,     (* [user -> the reset deliveries that wait for it]             *)
  request,  (* [request -> where it is and what it carries]                *)
  starts    (* how many requests and jobs were begun                       *)

vars == <<row, link, code, signed, heirs, jobs, request, starts>>

-----------------------------------------------------------------------------
Kinds == {"verify", "reset", "email"}

(* 0 is the null of the column refresh_token_hash; `password` is whether   *)
(* there is one, `admin` whether the account has an administrator's tier;  *)
(* `vouched` and `assigned` (history) are the addresses Google vouched for *)
(* and those an administrator gave the account.                            *)
Tokens == 0..MaxStarts
Slips == 1..MaxStarts

Row == [status : {"none", "live", "gone"}, verified : BOOLEAN,
        email : Emails \cup {NoEmail}, token : Tokens, password : BOOLEAN,
        admin : BOOLEAN, vouched : SUBSET Emails, assigned : SUBSET Emails]

(* `open` is used_at IS NULL, `fresh` is expires_at > NOW(), `again` the   *)
(* source RESEND, `taken` how often a request was told the code is right.  *)
Code == [user : Users, kind : Kinds, to : Emails, again : BOOLEAN,
         open : BOOLEAN, fresh : BOOLEAN, taken : Nat]

Closed(c) == [c EXCEPT !.open = FALSE]
Accepted(c) == [c EXCEPT !.open = FALSE, !.taken = @ + 1]

(* Where a request is, and what it has read and carries.                   *)
Idle == [pc |-> "idle"]
Request ==
       {Idle}
  \cup [pc : {"insert", "invite", "lookup", "provision", "raced"}, to : Emails]
  \cup [pc : {"vouch", "link"}, user : Users, to : Emails]
  \cup [pc : {"close", "issue"}, user : Users, kind : Kinds, to : Emails, again : BOOLEAN]
  \cup [pc : {"mark"}, user : Users, code : Slips, to : Emails \cup {NoEmail}, seen : BOOLEAN]
  \cup [pc : {"verified", "password", "address"}, user : Users,
        to : Emails \cup {NoEmail}, seen : BOOLEAN]
  \cup [pc : {"assign"}, user : Users, to : Emails, ends : BOOLEAN]
  \cup [pc : {"password", "persist", "clear", "secret"}, user : Users]
  \cup [pc : {"rotate"}, user : Users, old : Tokens \ {0}]

Live(u) == row[u].status = "live"
Verified(u) == Live(u) /\ row[u].verified

(* A request with an access token: JwtStrategy finds the account, and only *)
(* a verified one was ever given a token. (The log-in of administrators    *)
(* asks for their role instead; whom an administrator gives that role      *)
(* without an invitation is left out.)                                     *)
SignedIn(u) == Verified(u)

(* findByEmail does not see deleted rows, the unique index does.           *)
Found(e) == \E u \in Users : Live(u) /\ row[u].email = e
HeldByOther(u, e) == \E v \in Users \ {u} : row[v].email = e

OpenCodes(u, kind) ==
  {k \in DOMAIN code : /\ code[k].user = u /\ code[k].kind = kind
                       /\ code[k].open /\ code[k].fresh}

(* The code consume compares with: the newest that is open, and for a      *)
(* change of address the newest sent to that address.                      *)
MatchingAnyAddress(u, kind, e) == OpenCodes(u, kind)
Matching(u, kind, e) ==
  {k \in OpenCodes(u, kind) : kind = "email" => code[k].to = e}
Latest(u, kind, e) ==
  {k \in Matching(u, kind, e) : \A j \in Matching(u, kind, e) : j <= k}

Sent(u, kind, again) ==
  Cardinality({k \in DOMAIN code : /\ code[k].user = u /\ code[k].kind = kind
                                   /\ (again => code[k].again)})

At(r, pc) == request[r].pc = pc
Goes(r, to) == request' = [request EXCEPT ![r] = to]
Begins(r, to) ==
  /\ At(r, "idle") /\ starts < MaxStarts
  /\ Goes(r, to)
  /\ starts' = starts + 1
Ends(r) == Goes(r, Idle)

-----------------------------------------------------------------------------
Init ==
  /\ row = [u \in Users |-> [status |-> "none", verified |-> FALSE,
                             email |-> NoEmail, token |-> 0, password |-> FALSE,
                             admin |-> FALSE, vouched |-> {}, assigned |-> {}]]
  /\ link = {}
  /\ code = <<>>
  /\ signed = 0
  /\ heirs = [t \in Tokens |-> 0]
  /\ jobs = [u \in Users |-> 0]
  /\ request = [r \in Requests |-> Idle]
  /\ starts = 0

(***************************************************************************)
(* Registration. create looks the address up, hashes, and lets the unique  *)
(* index decide; the new account is sent its first code, unless it was an  *)
(* administrator who made it.                                              *)
(***************************************************************************)
Issuing(pc, u, kind, e, again) ==
  [pc |-> pc, user |-> u, kind |-> kind, to |-> e, again |-> again]

RegisterStart(r, e) ==
  /\ ~Found(e)
  /\ Begins(r, [pc |-> "insert", to |-> e])
  /\ UNCHANGED <<row, link, code, signed, heirs, jobs>>

Registered(w, e) == [w EXCEPT !.status = "live", !.email = e, !.password = TRUE]

RegisterInsert(r, u) ==
  /\ At(r, "insert")
  /\ row[u].status = "none"
  /\ IF HeldByOther(u, request[r].to)
       THEN Ends(r) /\ UNCHANGED row
       ELSE /\ row' = [row EXCEPT ![u] = Registered(@, request[r].to)]
            /\ \/ Goes(r, Issuing("close", u, "verify", request[r].to, FALSE))
               \/ Ends(r)
  /\ UNCHANGED <<link, code, signed, heirs, jobs, starts>>

(***************************************************************************)
(* Asking for a code. A resend is for accounts that are not verified and   *)
(* under the hour's limit; a change of address for an address no account   *)
(* has; a forgotten password is put in the queue, again under a limit.     *)
(***************************************************************************)
Resend(r, u) ==
  /\ Live(u) /\ ~row[u].verified
  /\ Sent(u, "verify", TRUE) < ResendLimit
  /\ Begins(r, Issuing("close", u, "verify", row[u].email, TRUE))
  /\ UNCHANGED <<row, link, code, signed, heirs, jobs>>

RequestEmailChange(r, u, e) ==
  /\ SignedIn(u) /\ ~Found(e)
  /\ Begins(r, Issuing("close", u, "email", e, FALSE))
  /\ UNCHANGED <<row, link, code, signed, heirs, jobs>>

ForgotPassword(u) ==
  /\ jobs[u] < MaxJobs
  /\ Live(u)
  /\ Sent(u, "reset", FALSE) < ResetLimit
  /\ jobs' = [jobs EXCEPT ![u] = @ + 1]
  /\ starts < MaxStarts /\ starts' = starts + 1
  /\ UNCHANGED <<row, link, code, signed, heirs, request>>

(* The worker takes a delivery; the account may be gone by then.           *)
Deliver(r, u) ==
  /\ jobs[u] > 0
  /\ jobs' = [jobs EXCEPT ![u] = @ - 1]
  /\ IF Live(u) THEN Begins(r, Issuing("close", u, "reset", row[u].email, FALSE))
                ELSE At(r, "idle") /\ UNCHANGED <<request, starts>>
  /\ UNCHANGED <<row, link, code, signed, heirs>>

(* issue withdraws the open codes, hashes the new one and saves its row.   *)
CloseOpen(r) ==
  /\ At(r, "close")
  /\ LET K == OpenCodes(request[r].user, request[r].kind)
     IN code' = [k \in DOMAIN code |-> IF k \in K THEN Closed(code[k]) ELSE code[k]]
  /\ Goes(r, [request[r] EXCEPT !.pc = "issue"])
  /\ UNCHANGED <<row, link, signed, heirs, jobs, starts>>

Issue(r) ==
  /\ At(r, "issue") /\ Len(code) < MaxCodes
  /\ code' = Append(code, [user |-> request[r].user, kind |-> request[r].kind,
                           to |-> request[r].to, again |-> request[r].again,
                           open |-> TRUE, fresh |-> TRUE, taken |-> 0])
  /\ Ends(r)
  /\ UNCHANGED <<row, link, signed, heirs, jobs, starts>>

(* A code's five minutes are over; of one that was used nobody asks.       *)
Expire(k) ==
  /\ k \in DOMAIN code /\ code[k].open /\ code[k].fresh
  /\ code' = [code EXCEPT ![k].fresh = FALSE]
  /\ UNCHANGED <<row, link, signed, heirs, jobs, request, starts>>

(***************************************************************************)
(* Giving a code back. consume finds the newest open code and compares,    *)
(* then marks the row it found on condition that it is still unused; only  *)
(* the request that marked it goes on. (verifyPasswordResetOtp compares    *)
(* and marks nothing.)                                                     *)
(***************************************************************************)
Consume(r, u, kind, e) ==
  /\ Live(u)
  /\ IF kind = "email" THEN SignedIn(u) /\ ~Found(e) ELSE e = NoEmail
  /\ \E k \in Latest(u, kind, e) :
       Begins(r, [pc |-> "mark", user |-> u, code |-> k, to |-> e, seen |-> row[u].verified])
  /\ UNCHANGED <<row, link, code, signed, heirs, jobs>>

(* The condition on the update that marks a code used.                     *)
UnusedWhenFound(k) == TRUE
Unused(k) == code[k].open

After(kind) == CASE kind = "verify" -> "verified"
                 [] kind = "reset"  -> "password"
                 [] kind = "email"  -> "address"

Mark(r) ==
  /\ At(r, "mark")
  /\ LET k == request[r].code
     IN IF Unused(k)
          THEN /\ code' = [code EXCEPT ![k] = Accepted(@)]
               /\ Goes(r, [pc |-> After(code[k].kind), user |-> request[r].user,
                           to |-> request[r].to, seen |-> request[r].seen])
          ELSE Ends(r) /\ UNCHANGED code
  /\ UNCHANGED <<row, link, signed, heirs, jobs, starts>>

(* What a code was for. A verified account gets a session; an account read *)
(* as unverified is marked and read again, and may be gone by then.        *)
MarkVerified(r) ==
  LET u == request[r].user
  IN /\ At(r, "verified")
     /\ row' = [row EXCEPT ![u].verified = @ \/ ~request[r].seen]
     /\ IF request[r].seen \/ Live(u)
          THEN Goes(r, [pc |-> "persist", user |-> u])
          ELSE Ends(r)
     /\ UNCHANGED <<link, code, signed, heirs, jobs, starts>>

(* updatePassword: the new password, and no session any more.              *)
UpdatePassword(r) ==
  /\ At(r, "password")
  /\ row' = [row EXCEPT ![request[r].user] = [@ EXCEPT !.token = 0, !.password = TRUE]]
  /\ Ends(r)
  /\ UNCHANGED <<link, code, signed, heirs, jobs, starts>>

(* updateEmail: refused by the unique index if another row holds the       *)
(* address, and the code is spent all the same.                            *)
UpdateEmail(r) ==
  /\ At(r, "address")
  /\ LET u == request[r].user
     IN IF HeldByOther(u, request[r].to)
          THEN UNCHANGED row
          ELSE row' = [row EXCEPT ![u] = [@ EXCEPT !.email = request[r].to, !.token = 0]]
  /\ Ends(r)
  /\ UNCHANGED <<link, code, signed, heirs, jobs, starts>>

(***************************************************************************)
(* Sessions.                                                               *)
(***************************************************************************)
Login(r, u) ==
  /\ Verified(u) /\ row[u].password
  /\ Begins(r, [pc |-> "persist", user |-> u])
  /\ UNCHANGED <<row, link, code, signed, heirs, jobs>>

Persist(r) ==
  /\ At(r, "persist")
  /\ signed' = signed + 1
  /\ row' = [row EXCEPT ![request[r].user].token = signed']
  /\ Ends(r)
  /\ UNCHANGED <<link, code, heirs, jobs, starts>>

RefreshStart(r, u) ==
  /\ Live(u) /\ row[u].token # 0
  /\ Begins(r, [pc |-> "rotate", user |-> u, old |-> row[u].token])
  /\ UNCHANGED <<row, link, code, signed, heirs, jobs>>

(* The condition on the update that puts the next token in.                *)
HonouredWhenRead(u, t) == TRUE
StillHonoured(u, t) == row[u].token = t

Rotate(r) ==
  /\ At(r, "rotate")
  /\ LET q == request[r]
     IN IF StillHonoured(q.user, q.old)
          THEN /\ signed' = signed + 1
               /\ row' = [row EXCEPT ![q.user].token = signed']
               /\ heirs' = [heirs EXCEPT ![q.old] = @ + 1]
          ELSE UNCHANGED <<row, signed, heirs>>
  /\ Ends(r)
  /\ UNCHANGED <<link, code, jobs, starts>>

(* Logging out with a token that is honoured, and then with no condition.  *)
LogoutStart(r, u) ==
  /\ Live(u) /\ row[u].token # 0
  /\ Begins(r, [pc |-> "clear", user |-> u])
  /\ UNCHANGED <<row, link, code, signed, heirs, jobs>>

Logout(r) ==
  /\ At(r, "clear")
  /\ row' = [row EXCEPT ![request[r].user].token = 0]
  /\ Ends(r)
  /\ UNCHANGED <<link, code, signed, heirs, jobs, starts>>

ChangePassword(r, u) ==
  /\ SignedIn(u) /\ row[u].password
  /\ Begins(r, [pc |-> "password", user |-> u])
  /\ UNCHANGED <<row, link, code, signed, heirs, jobs>>

(* What deletion leaves of a row: the address is free again, the session   *)
(* over, and the row invisible to every lookup.                            *)
DeletedVisibly(w) == [w EXCEPT !.email = NoEmail, !.token = 0]
Deleted(w) == [w EXCEPT !.status = "gone", !.email = NoEmail, !.token = 0]

DeleteAccount(u) ==
  /\ SignedIn(u)
  /\ row' = [row EXCEPT ![u] = Deleted(@)]
  /\ UNCHANGED <<link, code, signed, heirs, jobs, request, starts>>

(***************************************************************************)
(* What administrators do, with no code: invite another one, whose account *)
(* is verified from the start; give an account an address, a password or   *)
(* both, its sessions going on; change the address of an administrator,    *)
(* which ends its session. The unique index decides again, and the row may *)
(* be a deleted one by then.                                               *)
(***************************************************************************)
Invite(r, e) ==
  /\ ~Found(e)
  /\ Begins(r, [pc |-> "invite", to |-> e])
  /\ UNCHANGED <<row, link, code, signed, heirs, jobs>>

Invited(w, e) ==
  [Registered(w, e) EXCEPT !.verified = TRUE, !.admin = TRUE, !.assigned = {e}]

InviteInsert(r, u) ==
  /\ At(r, "invite")
  /\ row[u].status = "none"
  /\ row' = IF HeldByOther(u, request[r].to)
              THEN row
              ELSE [row EXCEPT ![u] = Invited(@, request[r].to)]
  /\ Ends(r)
  /\ UNCHANGED <<link, code, signed, heirs, jobs, starts>>

UpdateUser(r, u) ==
  /\ Live(u)
  /\ \/ \E e \in Emails : Begins(r, [pc |-> "assign", user |-> u, to |-> e, ends |-> FALSE])
     \/ Begins(r, [pc |-> "secret", user |-> u])
  /\ UNCHANGED <<row, link, code, signed, heirs, jobs>>

ChangeEmail(r, u, e) ==
  /\ Live(u) /\ row[u].admin /\ row[u].email # e
  /\ Begins(r, [pc |-> "assign", user |-> u, to |-> e, ends |-> TRUE])
  /\ UNCHANGED <<row, link, code, signed, heirs, jobs>>

Assigned(w, e) == [w EXCEPT !.email = e, !.assigned = @ \cup {e}]
Ended(w) == [w EXCEPT !.token = 0]
Secret(w) == [w EXCEPT !.password = TRUE]

Assign(r) ==
  LET u == request[r].user  w == Assigned(row[u], request[r].to)
  IN /\ At(r, "assign")
     /\ \E v \in IF HeldByOther(u, request[r].to) THEN {row[u]}
                 ELSE IF request[r].ends THEN {Ended(w)} ELSE {w, Secret(w)} :
          row' = [row EXCEPT ![u] = v]
     /\ Ends(r)
     /\ UNCHANGED <<link, code, signed, heirs, jobs, starts>>

SetPassword(r) ==
  /\ At(r, "secret")
  /\ row' = [row EXCEPT ![request[r].user] = Secret(@)]
  /\ Ends(r)
  /\ UNCHANGED <<link, code, signed, heirs, jobs, starts>>

(***************************************************************************)
(* Signing in through Google, once Google has vouched for an address: the  *)
(* account linked to the identity, else the one at the address, linked now *)
(* (and verified, if it was not), else a new one. The two unique indexes   *)
(* of the links and the one of addresses decide between requests that      *)
(* overlap; who loses looks the address up once more. Deletion leaves the  *)
(* links: the identity of a deleted account finds and creates none.        *)
(***************************************************************************)
LinkedTo(e) == {u \in Users : <<u, e>> \in link}

GoogleSignIn(r, e) ==
  /\ IF \E u \in LinkedTo(e) : Live(u)
       THEN \E u \in LinkedTo(e) : Live(u) /\ Begins(r, [pc |-> "persist", user |-> u])
       ELSE Begins(r, [pc |-> "lookup", to |-> e])
  /\ UNCHANGED <<row, link, code, signed, heirs, jobs>>

(* A new account needs a role: without one the request ends.               *)
GoogleLookup(r) ==
  LET e == request[r].to
  IN /\ At(r, "lookup") \/ At(r, "raced")
     /\ \/ \E u \in Users :
             /\ Live(u) /\ row[u].email = e
             /\ Goes(r, [pc |-> IF row[u].verified THEN "link" ELSE "vouch", user |-> u, to |-> e])
        \/ /\ ~Found(e)
           /\ \/ At(r, "lookup") /\ Goes(r, [pc |-> "provision", to |-> e])
              \/ Ends(r)
     /\ UNCHANGED <<row, link, code, signed, heirs, jobs, starts>>

(* markVerified of the account that was found, by its id.                  *)
Vouched(w, e) == [w EXCEPT !.verified = TRUE, !.vouched = @ \cup {e}]

Vouch(r) ==
  LET u == request[r].user
  IN /\ At(r, "vouch")
     /\ row' = [row EXCEPT ![u] = Vouched(@, request[r].to)]
     /\ IF Live(u) THEN Goes(r, [request[r] EXCEPT !.pc = "link"]) ELSE Ends(r)
     /\ UNCHANGED <<link, code, signed, heirs, jobs, starts>>

(* linkOauthAccountToUser: refused if the account has another identity or  *)
(* the identity another account.                                           *)
Link(r) ==
  LET u == request[r].user  e == request[r].to
      taken == LinkedTo(e) # {} \/ \E d \in Emails : <<u, d>> \in link
  IN /\ At(r, "link")
     /\ link' = IF taken THEN link ELSE link \cup {<<u, e>>}
     /\ IF <<u, e>> \in link' /\ Live(u) THEN Goes(r, [pc |-> "persist", user |-> u]) ELSE Ends(r)
     /\ UNCHANGED <<row, code, signed, heirs, jobs, starts>>

(* createUserWithOauthLink: the account and its link in one transaction.   *)
Provisioned(w, e) ==
  [w EXCEPT !.status = "live", !.email = e, !.verified = TRUE, !.vouched = {e}]

Provision(r, u) ==
  LET e == request[r].to
  IN /\ At(r, "provision")
     /\ row[u].status = "none"
     /\ IF HeldByOther(u, e) \/ LinkedTo(e) # {}
          THEN Goes(r, [pc |-> "raced", to |-> e]) /\ UNCHANGED <<row, link>>
          ELSE /\ row' = [row EXCEPT ![u] = Provisioned(@, e)]
               /\ link' = link \cup {<<u, e>>}
               /\ Goes(r, [pc |-> "persist", user |-> u])
     /\ UNCHANGED <<code, signed, heirs, jobs, starts>>

(***************************************************************************)
(* The server stops: requests are lost. Deliveries in memory are lost too; *)
(* those in Redis stay, and one that was being worked on is run again.     *)
(***************************************************************************)
Interrupted(u) ==
  {r \in Requests : /\ request[r].pc \in {"close", "issue"}
                    /\ request[r].kind = "reset" /\ request[r].user = u}

Crash ==
  /\ \E r \in Requests : ~At(r, "idle")
  /\ request' = [r \in Requests |-> Idle]
  /\ \/ jobs' = [u \in Users |-> 0]
     \/ jobs' = [u \in Users |-> jobs[u] + Cardinality(Interrupted(u))]
  /\ UNCHANGED <<row, link, code, signed, heirs, starts>>

Next ==
  \/ \E r \in Requests :
       \/ \E e \in Emails : RegisterStart(r, e)
       \/ \E u \in Users : RegisterInsert(r, u)
       \/ \E u \in Users : Resend(r, u)
       \/ \E u \in Users, e \in Emails : RequestEmailChange(r, u, e)
       \/ \E u \in Users : Deliver(r, u)
       \/ CloseOpen(r)
       \/ Issue(r)
       \/ \E u \in Users, kind \in Kinds, e \in Emails \cup {NoEmail} :
            Consume(r, u, kind, e)
       \/ Mark(r)
       \/ MarkVerified(r)
       \/ UpdatePassword(r)
       \/ UpdateEmail(r)
       \/ \E u \in Users : Login(r, u)
       \/ Persist(r)
       \/ \E u \in Users : RefreshStart(r, u)
       \/ Rotate(r)
       \/ \E u \in Users : LogoutStart(r, u)
       \/ Logout(r)
       \/ \E u \in Users : ChangePassword(r, u)
       \/ \E e \in Emails : GoogleSignIn(r, e)
       \/ GoogleLookup(r)
       \/ Vouch(r)
       \/ Link(r)
       \/ \E u \in Users : Provision(r, u)
       \/ \E e \in Emails : Invite(r, e)
       \/ \E u \in Users : InviteInsert(r, u)
       \/ \E u \in Users : UpdateUser(r, u)
       \/ \E u \in Users, e \in Emails : ChangeEmail(r, u, e)
       \/ Assign(r)
       \/ SetPassword(r)
  \/ \E u \in Users : ForgotPassword(u)
  \/ \E k \in Slips : Expire(k)
  \/ \E u \in Users : DeleteAccount(u)
  \/ Crash

Spec == Init /\ [][Next]_vars

-----------------------------------------------------------------------------
(* Type invariant: rows, codes and requests stay within their domains, and *)
(* a live account has an address.                                          *)
TypeOK ==
  /\ row \in [Users -> Row]
  /\ \A u \in Users : Live(u) => row[u].email \in Emails
  /\ link \subseteq Users \X Emails
  /\ code \in Seq(Code) /\ Len(code) <= starts
  /\ starts \in 0..MaxStarts /\ signed \in 0..starts
  /\ heirs \in [Tokens -> Nat]
  /\ jobs \in [Users -> Nat]
  /\ request \in [Requests -> Request]

(* A verified account stands at an address that was proven, a code that    *)
(* went to just that address was given back for it or Google vouched for   *)
(* it, or else at one that an administrator gave it. It must survive the   *)
(* interleaving of verifications, sign-ins through Google, changes of      *)
(* address, assigned addresses, deletions and resent codes, each of which  *)
(* looks rows up and writes them later.                                    *)
Proven(u) ==
  \/ row[u].email \in row[u].vouched
  \/ \E k \in DOMAIN code : /\ code[k].user = u /\ code[k].kind \in {"verify", "email"}
                            /\ code[k].to = row[u].email /\ code[k].taken > 0

AddressProven ==
  \A u \in Users : Verified(u) => Proven(u) \/ row[u].email \in row[u].assigned

(* A refresh token leads to one session at most: whatever refreshes,       *)
(* logins, log-outs and changes of password overlap, it is exchanged once  *)
(* at most, and after that no account honours it any more.                 *)
ExchangedOnce ==
  \A t \in Tokens : /\ heirs[t] <= 1
                    /\ heirs[t] > 0 => \A u \in Users : row[u].token # t

(* Every code is accepted once at most, and not at all after it was        *)
(* withdrawn: the three tables of codes implement OneTimeCodes, also when  *)
(* requests overlap and deliveries are run again after a crash.            *)
Codes == INSTANCE OneTimeCodes
           WITH Slips <- Slips,
                out <- {k \in DOMAIN code : code[k].open},
                closed <- {k \in DOMAIN code : ~code[k].open},
                accepted <- [k \in Slips |-> IF k \in DOMAIN code THEN code[k].taken ELSE 0]
CodesSpec == Codes!Spec

(***************************************************************************)
(* A claim that the code does not keep; see README.                        *)
(***************************************************************************)

(* is_verified is read as email_verified by the employers' verification: a *)
(* verified account has proven the address it stands at.                   *)
VerifiedIsProven == \A u \in Users : Verified(u) => Proven(u)
=============================================================================
